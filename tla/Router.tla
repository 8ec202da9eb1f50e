------------------------------- MODULE Router --------------------------------
(***************************************************************************)
(* How an InterfaceProvider finds the callback of a request (restful.cpp). *)
(* The owner's thread registers urls, before start() or after it; the      *)
(* threads of connections search what is registered.  requests_ has no     *)
(* lock: a registration is two steps, between which the map or a vector of *)
(* it is being changed, and a thread keeps an iterator into a vector from  *)
(* the search to the end of the callback.  The first conflict of the two   *)
(* ends the run (fault).                                                   *)
(***************************************************************************)
EXTENDS Url

CONSTANTS
  Types,      \* types of requests peers may send
  Threads,    \* threads of connections, one request each
  Paths,      \* paths the owner may register
  Requests,   \* [type, url]; url: [valid, path, query] of the text
  NoRequest,
  MaxRoutes   \* bound: registrations

(* A sequence of words; one of pairs. *)
IsPath(path)   == path \in Seq({path[i] : i \in DOMAIN path})
IsQuery(pairs) == /\ pairs \in Seq({pairs[i] : i \in DOMAIN pairs})
                  /\ \A i \in DOMAIN pairs : pairs[i] = <<pairs[i][1], pairs[i][2]>>

ASSUME RouterAssumption ==
  /\ NoRequest \notin Requests /\ "none" \notin Types
  /\ Empty \notin Params
  /\ MaxRoutes \in Nat
  /\ \A r \in Requests : r.type \in Types /\ IsPath(r.url.path) /\ IsQuery(r.url.query)
  /\ \A path \in Paths : IsPath(path)

VARIABLES
  requests, \* requests_: type -> registered paths, <<>> where absent
  started,  \* start() has been called
  pushing,  \* the registration under way, NoPush if none
  routes,   \* counts registrations, for the bound
  pc,       \* where each thread is
  request,  \* the request each thread serves
  url,      \* its parsed url
  found,    \* the thread's iterator, as an index; 0 before the search
  params,   \* the path parameters given to the Request
  answer,   \* the status the provider has answered itself, or 0
  stale,    \* threads whose iterator a registration has invalidated
  fault

ownerVars  == <<requests, started, pushing, routes>>
threadVars == <<pc, request, url, found, params, answer>>
vars       == <<ownerVars, threadVars, stale, fault>>

NoPush == [type |-> "none", path |-> <<>>, moves |-> FALSE]
NoUrl  == [path |-> <<>>, query |-> <<>>]

(* get, put, post, remove, head, patch: the types that can be registered. *)
Methods == {"GET", "PUT", "POST", "DELETE", "HEAD", "PATCH"}

Init ==
  /\ requests = [m \in Types |-> <<>>]
  /\ started = FALSE
  /\ pushing = NoPush
  /\ routes = 0
  /\ pc = [t \in Threads |-> "idle"]
  /\ request = [t \in Threads |-> NoRequest]
  /\ url = [t \in Threads |-> NoUrl]
  /\ found = [t \in Threads |-> 0]
  /\ params = [t \in Threads |-> <<>>]
  /\ answer = [t \in Threads |-> 0]
  /\ stale = {}
  /\ fault = FALSE

Running == ~fault

-----------------------------------------------------------------------------
(* Matching and parameters. *)

Matching(received, registered) ==
  LET registeredParts == ParsePath(registered, FALSE)
      receivedParts   == ParsePath(received, TRUE)
  IN  /\ Len(registeredParts) = Len(receivedParts)
      /\ \A i \in DOMAIN registeredParts :
           registeredParts[i].type = "STRING" =>
             registeredParts[i].value = receivedParts[i].value

(* Mutant of ExtractParameters: takes the registered part's own value. *)
ExtractOwnValues(received, registered) ==
  LET parts == ParsePath(registered, FALSE)
      ids   == {i \in DOMAIN parts : parts[i].type = "PARAMETER"}
  IN  [id \in {parts[i].id : i \in ids} |-> Empty]

(* An id that occurs twice keeps its last value. *)
ExtractParameters(received, registered) ==
  LET parts   == ParsePath(registered, FALSE)
      ids     == {i \in DOMAIN parts : parts[i].type = "PARAMETER"}
      Last(x) == CHOOSE i \in ids : /\ parts[i].id = x
                                    /\ \A j \in ids : parts[j].id = x => j <= i
  IN  [id \in {parts[i].id : i \in ids} |->
         ParsePath(received, TRUE)[Last(id)].value]

-----------------------------------------------------------------------------
(* The owner's thread. *)

(* registerRequest: the url parses (else it throws and nothing changes),   *)
(* and requests_[type].push_back begins.  It may have to move the vector's *)
(* elements or, for the first url of a type, to rehash the map.            *)
BeginPush(m, path) ==
  /\ Running /\ m \in Methods
  /\ pushing = NoPush
  /\ routes < MaxRoutes
  /\ routes' = routes + 1
  /\ \E moves \in BOOLEAN : pushing' = [type |-> m, path |-> path, moves |-> moves]
  /\ UNCHANGED <<requests, started, threadVars, stale, fault>>

(* The threads whose iterators move away when the registration for type m  *)
(* moves: requestList, into a map that is rehashed, or request, into the   *)
(* vector of m.                                                            *)
Holders(m) ==
  IF requests[m] = <<>>
  THEN {t \in Threads : pc[t] = "match"}
  ELSE {t \in Threads : pc[t] \in {"extract", "call", "callback"} /\ request[t].type = m}

EndPush ==
  /\ Running
  /\ pushing # NoPush
  /\ requests' = [requests EXCEPT ![pushing.type] = Append(@, pushing.path)]
  /\ stale' = IF pushing.moves THEN stale \union Holders(pushing.type) ELSE stale
  /\ pushing' = NoPush
  /\ UNCHANGED <<started, routes, threadVars, fault>>

Start ==
  /\ Running
  /\ pushing = NoPush
  /\ ~started
  /\ started' = TRUE
  /\ UNCHANGED <<requests, pushing, routes, threadVars, stale, fault>>

-----------------------------------------------------------------------------
(* The thread of a connection: connectionHandler. *)

(* The registration under way inserts into the map; it moves what t uses.  *)
Inserting == pushing # NoPush /\ requests[pushing.type] = <<>>
MovesUnder(t) == pushing.moves /\ t \in Holders(pushing.type)

(* The thread's next step touches what the owner is changing, or has moved. *)
Conflict(t) ==
  \/ pc[t] = "find" /\ Inserting
  \/ pc[t] = "match" /\ pushing.type = request[t].type
  \/ pc[t] \in {"match", "extract", "call", "callback"} /\ (t \in stale \/ MovesUnder(t))

Race(t) ==
  /\ Running
  /\ Conflict(t)
  /\ fault' = TRUE
  /\ UNCHANGED <<ownerVars, threadVars, stale>>

Goes(t, from, to) ==
  /\ Running
  /\ ~Conflict(t)
  /\ pc[t] = from
  /\ pc' = [pc EXCEPT ![t] = to]
  /\ UNCHANGED <<ownerVars, stale, fault>>

Refuse(t, from, status) ==
  /\ Goes(t, from, "done")
  /\ answer' = [answer EXCEPT ![t] = status]
  /\ UNCHANGED <<request, url, found, params>>

Receive(t) ==
  /\ started
  /\ Goes(t, "idle", "parse")
  /\ \E r \in Requests : request' = [request EXCEPT ![t] = r]
  /\ UNCHANGED <<url, found, params, answer>>

ParseUrl(t) ==
  \/ /\ request[t] # NoRequest /\ request[t].url.valid
     /\ Goes(t, "parse", "find")
     /\ url' = [url EXCEPT ![t] = Parse(request[t].url)]
     /\ UNCHANGED <<request, found, params, answer>>
  \/ /\ request[t] # NoRequest /\ ~request[t].url.valid
     /\ Refuse(t, "parse", 400)

(* Is any url registered for the type?  HEAD is not in the list of types   *)
(* that get a 404, so it gets 501; the branch meant for it is never taken. *)
Find(t) ==
  LET type == request[t].type
  IN  \/ /\ pc[t] = "find" /\ requests[type] # <<>>
         /\ Goes(t, "find", "match")
         /\ UNCHANGED <<request, url, found, params, answer>>
      \/ /\ pc[t] = "find" /\ requests[type] = <<>>
         /\ Refuse(t, "find", IF type \in Methods \ {"HEAD"} THEN 404 ELSE 501)

(* Where find_if may stop: the indices of the matching entries.            *)
Matches(t) ==
  {i \in DOMAIN requests[request[t].type] :
     Matching(url[t], [path |-> requests[request[t].type][i]])}

(* Mutant of Match: searches from the back. *)
MatchLast(t) ==
  \/ /\ pc[t] = "match"
     /\ \E i \in Matches(t) :
          /\ \A j \in Matches(t) : j <= i
          /\ found' = [found EXCEPT ![t] = i]
     /\ Goes(t, "match", "extract")
     /\ UNCHANGED <<request, url, params, answer>>
  \/ /\ pc[t] = "match" /\ Matches(t) = {}
     /\ Refuse(t, "match", 404)

(* Mutant of Match: the iterator is used without comparing it with end().  *)
MatchUnchecked(t) ==
  /\ Goes(t, "match", "extract")
  /\ found' = [found EXCEPT ![t] =
                 IF Matches(t) = {} THEN 0 ELSE CHOOSE i \in Matches(t) : TRUE]
  /\ UNCHANGED <<request, url, params, answer>>

(* The first registered url that matches. *)
Match(t) ==
  \/ /\ pc[t] = "match"
     /\ \E i \in Matches(t) :
          /\ \A j \in Matches(t) : i <= j
          /\ found' = [found EXCEPT ![t] = i]
     /\ Goes(t, "match", "extract")
     /\ UNCHANGED <<request, url, params, answer>>
  \/ /\ pc[t] = "match" /\ Matches(t) = {}
     /\ Refuse(t, "match", 404)

Registered(t) == [path |-> requests[request[t].type][found[t]]]

Extract(t) ==
  /\ Goes(t, "extract", "call")
  /\ params' = [params EXCEPT ![t] = ExtractParameters(url[t], Registered(t))]
  /\ UNCHANGED <<request, url, found, answer>>

(* request->callback(Request{...}, Response{...}) begins ...               *)
Call(t) ==
  /\ Goes(t, "call", "callback")
  /\ UNCHANGED <<request, url, found, params, answer>>

(* ... and ends; the registered function lives in the vector meanwhile.    *)
Return(t) ==
  /\ Goes(t, "callback", "done")
  /\ UNCHANGED <<request, url, found, params, answer>>

(* What the callback asks its Request for. *)
GetParameter(t, id) == IF id \in DOMAIN params[t] THEN params[t][id] ELSE Empty
GetQuery(t) == url[t].query
GetPath(t)  == url[t].path

Finished ==
  /\ \/ fault
     \/ /\ started /\ routes = MaxRoutes /\ pushing = NoPush
        /\ \A t \in Threads : pc[t] = "done"
  /\ UNCHANGED vars

Next ==
  \/ \E m \in Types, path \in Paths : BeginPush(m, path)
  \/ EndPush
  \/ Start
  \/ \E t \in Threads :
       \/ Receive(t) \/ ParseUrl(t) \/ Find(t) \/ Match(t)
       \/ Extract(t) \/ Call(t) \/ Return(t) \/ Race(t)
  \/ Finished

Spec == Init /\ [][Next]_vars

-----------------------------------------------------------------------------
(* Type invariant; whoever uses the iterator has one that points into the  *)
(* vector of its request's type (restful.cpp:107-123).                     *)
TypeOK ==
  /\ requests \in [Types -> Seq(Paths)]
  /\ started \in BOOLEAN /\ fault \in BOOLEAN
  /\ pushing = NoPush \/ pushing \in [type : Types, path : Paths, moves : BOOLEAN]
  /\ routes \in 0 .. MaxRoutes
  /\ pc \in [Threads -> {"idle", "parse", "find", "match", "extract", "call", "callback", "done"}]
  /\ request \in [Threads -> Requests \union {NoRequest}]
  /\ answer \in [Threads -> {0, 400, 404, 501}]
  /\ found \in [Threads -> 0 .. MaxRoutes]
  /\ stale \subseteq Threads
  /\ \A t \in Threads :
       /\ pc[t] # "idle" => request[t] \in Requests
       /\ pc[t] \in {"extract", "call", "callback"} =>
            found[t] \in DOMAIN requests[request[t].type]

(* Searching the registered urls in steps, while others are being added,   *)
(* decides each request as RouteTable does in one step: by the first url   *)
(* that fits, or by a refusal (restful.cpp:65-150).                        *)
Outcome(t) == CASE found[t] # 0  -> <<found[t]>>
                [] answer[t] # 0 -> <<"status", answer[t]>>
                [] OTHER         -> <<>>
Table == INSTANCE RouteTable WITH
           table <- requests, outcome <- [t \in Threads |-> Outcome(t)]
TableSpec == Table!Spec

(* The parameters a callback is given are those of its own url: put in     *)
(* place of the registered url's ids they give the path that was received, *)
(* and an id the url does not have is empty (restful.cpp:152-166,          *)
(* request.cpp:35-43).  An id registered twice in a url keeps one value.   *)
ParametersRight ==
  \A t \in Threads : pc[t] = "callback" =>
    LET registered == Registered(t).path
        Ids        == {i \in DOMAIN registered : registered[i] \in Params}
    IN  /\ (\A i, j \in Ids : registered[i] = registered[j] => i = j) =>
             GetPath(t) = [i \in DOMAIN registered |->
                             IF i \in Ids THEN GetParameter(t, registered[i])
                                          ELSE registered[i]]
        /\ \A id \in Params : GetParameter(t, id) # Empty =>
             \E i \in Ids : registered[i] = id /\ GetPath(t)[i] = GetParameter(t, id)

(* The query given to a callback invents nothing: what is in it, other     *)
(* than an empty entry, is a pair of the url that was received, with its   *)
(* key and value in one order or the other (url_parser.cpp:9-22).          *)
QueryInventsNothing ==
  \A t \in Threads : pc[t] = "callback" =>
    \A v \in DOMAIN GetQuery(t) \ {Empty} :
      \E i \in DOMAIN request[t].url.query :
        request[t].url.query[i] \in {<<GetQuery(t)[v], v>>, <<v, GetQuery(t)[v]>>}

(* "/users?sort=desc" is "sort = desc" (request.hpp:115-119): every value  *)
(* is found under its key, when the key is unique.                         *)
QueryByKey ==
  \A t \in Threads : pc[t] = "callback" =>
    LET pairs == request[t].url.query
    IN  \A i \in DOMAIN pairs :
          (\A j \in DOMAIN pairs : pairs[j][1] = pairs[i][1] => j = i) =>
            /\ pairs[i][1] \in DOMAIN GetQuery(t)
            /\ GetQuery(t)[pairs[i][1]] = pairs[i][2]
=============================================================================
