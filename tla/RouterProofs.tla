---------------------------- MODULE RouterProofs -----------------------------
(***************************************************************************)
(* Theorems about Router.                                                  *)
(***************************************************************************)
EXTENDS Router, TLAPS, WellFoundedInduction

(* Where a thread can be, and where it uses its iterator. *)
PCs == {"idle", "parse", "find", "match", "extract", "call", "callback", "done"}
Using == {"extract", "call", "callback"}

ThreadStep(t) ==
  Receive(t) \/ ParseUrl(t) \/ Find(t) \/ Match(t) \/ Extract(t) \/ Call(t) \/ Return(t)

(* What the steps of a thread do to the variables that are not its own.    *)
LEMMA ThreadFrame ==
  ASSUME NEW t \in Threads, ThreadStep(t)
  PROVE  UNCHANGED <<ownerVars, stale, fault>>
BY DEF ThreadStep, Receive, ParseUrl, Find, Match, Extract, Call, Return, Refuse, Goes

-----------------------------------------------------------------------------
(* Types. *)

OwnerTypes ==
  /\ requests \in [Types -> Seq(Paths)]
  /\ started \in BOOLEAN /\ fault \in BOOLEAN
  /\ pushing = NoPush \/ pushing \in [type : Types, path : Paths, moves : BOOLEAN]
  /\ routes \in 0 .. MaxRoutes
  /\ stale \subseteq Threads
  /\ \A m \in Types :
       IF pushing = NoPush THEN Len(requests[m]) <= routes ELSE Len(requests[m]) < routes

ThreadTypes ==
  /\ pc \in [Threads -> PCs]
  /\ request \in [Threads -> Requests \union {NoRequest}]
  /\ answer \in [Threads -> {0, 400, 404, 501}]
  /\ found \in [Threads -> Nat]
  /\ \A t \in Threads :
       /\ pc[t] = "idle" => found[t] = 0
       /\ pc[t] # "idle" => request[t] \in Requests
       /\ found[t] # 0 \/ pc[t] \in Using => found[t] \in DOMAIN requests[request[t].type]

(* Registrations, start() and the end by a conflict keep types and lengths. *)
LEMMA OwnerStepTypes ==
  ASSUME RouterAssumption, OwnerTypes, ThreadTypes,
         \/ \E m \in Types, path \in Paths : BeginPush(m, path)
         \/ EndPush \/ Start \/ \E t \in Threads : Race(t)
  PROVE  OwnerTypes' /\ ThreadTypes'
<1> USE DEF threadVars, ownerVars
<1>1. ASSUME NEW m \in Types, NEW path \in Paths, BeginPush(m, path)
      PROVE  OwnerTypes' /\ ThreadTypes'
  <2>1. pushing' \in [type : Types, path : Paths, moves : BOOLEAN]
    BY <1>1 DEF BeginPush, OwnerTypes
  <2>2. routes' \in 0 .. MaxRoutes /\ \A n \in Types : Len(requests'[n]) < routes'
    BY <1>1 DEF BeginPush, OwnerTypes, RouterAssumption
  <2> QED
    BY <1>1, <2>1, <2>2 DEF BeginPush, OwnerTypes, ThreadTypes
<1>2. CASE EndPush
  <2>1. pushing.type \in Types /\ pushing.path \in Paths
    BY <1>2 DEF EndPush, OwnerTypes
  <2>2. /\ requests' \in [Types -> Seq(Paths)]
        /\ \A m \in Types : /\ Len(requests'[m]) \in {Len(requests[m]), Len(requests[m]) + 1}
                            /\ DOMAIN requests[m] \subseteq DOMAIN requests'[m]
    BY <1>2, <2>1 DEF EndPush, OwnerTypes
  <2>3. stale' \subseteq Threads
    BY <1>2 DEF EndPush, Holders, OwnerTypes
  <2>4. \A m \in Types : Len(requests'[m]) <= routes'
    BY <1>2, <2>2 DEF EndPush, OwnerTypes
  <2>5. ThreadTypes'
    BY <1>2, <2>2 DEF EndPush, ThreadTypes, RouterAssumption
  <2> QED
    BY <1>2, <2>2, <2>3, <2>4, <2>5 DEF EndPush, OwnerTypes
<1>3. CASE Start
  BY <1>3 DEF Start, OwnerTypes, ThreadTypes
<1>4. CASE \E t \in Threads : Race(t)
  BY <1>4 DEF Race, OwnerTypes, ThreadTypes
<1> QED
  BY <1>1, <1>2, <1>3, <1>4

(* So do the steps of a thread. *)
LEMMA ThreadStepTypes ==
  ASSUME RouterAssumption, OwnerTypes, ThreadTypes, NEW t \in Threads, ThreadStep(t)
  PROVE  OwnerTypes' /\ ThreadTypes'
<1>1. OwnerTypes'
  BY ThreadFrame DEF OwnerTypes, ownerVars
<1>2. UNCHANGED requests
  BY ThreadFrame DEF ownerVars
<1>3. PICK to \in PCs \ {"idle"} :
        /\ pc' = [pc EXCEPT ![t] = to]
        /\ to \in Using => pc[t] \in Using \union {"match"}
  BY DEF ThreadStep, Receive, ParseUrl, Find, Match, Extract, Call, Return, Refuse, Goes, PCs, Using
<1>4. /\ pc' \in [Threads -> PCs] /\ pc'[t] = to
      /\ \A u \in Threads \ {t} : pc'[u] = pc[u]
  BY <1>3 DEF ThreadTypes
<1>5. answer' \in [Threads -> {0, 400, 404, 501}]
  <2>1. UNCHANGED answer \/ \E status \in {400, 404, 501} : answer' = [answer EXCEPT ![t] = status]
    BY DEF ThreadStep, Receive, ParseUrl, Find, Match, Extract, Call, Return, Refuse
  <2> QED
    BY <2>1 DEF ThreadTypes
<1>0. SUFFICES
        /\ request'[t] \in Requests
        /\ request' \in [Threads -> Requests \union {NoRequest}]
        /\ found' \in [Threads -> Nat]
        /\ \A u \in Threads \ {t} : request'[u] = request[u] /\ found'[u] = found[u]
        /\ found'[t] # 0 \/ to \in Using => found'[t] \in DOMAIN requests[request'[t].type]
  <2> SUFFICES ASSUME
        request'[t] \in Requests,
        request' \in [Threads -> Requests \union {NoRequest}],
        found' \in [Threads -> Nat],
        \A u \in Threads \ {t} : request'[u] = request[u] /\ found'[u] = found[u],
        found'[t] # 0 \/ to \in Using => found'[t] \in DOMAIN requests[request'[t].type]
      PROVE ThreadTypes'
    BY <1>1
  <2>1. ASSUME NEW u \in Threads
        PROVE  /\ pc'[u] = "idle" => found'[u] = 0
               /\ pc'[u] # "idle" => request'[u] \in Requests
               /\ found'[u] # 0 \/ pc'[u] \in Using =>
                    found'[u] \in DOMAIN requests'[request'[u].type]
    <3>1. CASE u = t
      BY <1>2, <1>3, <1>4, <3>1
    <3>2. CASE u # t
      BY <1>2, <1>4, <3>2 DEF ThreadTypes
    <3> QED
      BY <3>1, <3>2
  <2> QED
    BY <1>4, <1>5, <2>1 DEF ThreadTypes
<1>6. CASE Receive(t)
  <2>1. PICK r \in Requests : request' = [request EXCEPT ![t] = r]
    BY <1>6 DEF Receive
  <2>2. /\ request' \in [Threads -> Requests \union {NoRequest}] /\ request'[t] \in Requests
        /\ \A u \in Threads \ {t} : request'[u] = request[u]
    BY <2>1 DEF ThreadTypes
  <2>3. found' = found /\ found[t] = 0 /\ to \notin Using
    BY <1>3, <1>6 DEF Receive, Goes, ThreadTypes, Using
  <2>4. found' \in [Threads -> Nat]
    BY <2>3 DEF ThreadTypes
  <2> QED
    BY <2>2, <2>3, <2>4
<1>7. CASE Match(t) /\ to \in Using
  <2>1. PICK i \in Matches(t) : found' = [found EXCEPT ![t] = i]
    <3>1. ~Refuse(t, "match", 404)
      BY <1>4, <1>7 DEF Refuse, Goes, ThreadTypes, Using
    <3> QED
      BY <1>7, <3>1 DEF Match
  <2>2. request' = request /\ pc[t] = "match"
    BY <1>7 DEF Match, Refuse
  <2>3. request[t] \in Requests /\ request \in [Threads -> Requests \union {NoRequest}]
    BY <2>2 DEF ThreadTypes
  <2>4. i \in DOMAIN requests[request[t].type] /\ i \in Nat
    BY <2>1, <2>3 DEF Matches, OwnerTypes, RouterAssumption
  <2>5. /\ found' \in [Threads -> Nat] /\ found'[t] = i
        /\ \A u \in Threads \ {t} : found'[u] = found[u]
    BY <2>1, <2>4 DEF ThreadTypes
  <2> QED
    BY <2>2, <2>3, <2>4, <2>5
<1>8. CASE ~Receive(t) /\ ~(Match(t) /\ to \in Using)
  <2>1. request' = request /\ pc[t] # "idle"
    BY <1>8 DEF ThreadStep, ParseUrl, Find, Match, Extract, Call, Return, Refuse, Goes
  <2>2. request[t] \in Requests /\ request \in [Threads -> Requests \union {NoRequest}]
        /\ found \in [Threads -> Nat]
    BY <2>1 DEF ThreadTypes
  <2>3. to \in Using => pc[t] \in Using
    BY <1>3, <1>8 DEF ThreadStep, ParseUrl, Find, Extract, Call, Return, Refuse, Goes, Using
  <2>5. found' = found
    <3>1. ASSUME Match(t) PROVE Refuse(t, "match", 404)
      BY <1>4, <1>8, <3>1 DEF Match, Goes, Using, ThreadTypes
    <3> QED
      BY <1>8, <3>1 DEF ThreadStep, ParseUrl, Find, Extract, Call, Return, Refuse
  <2>4. found[t] # 0 \/ to \in Using => found[t] \in DOMAIN requests[request[t].type]
    BY <2>3 DEF ThreadTypes
  <2> QED
    BY <2>1, <2>2, <2>4, <2>5
<1> QED
  BY <1>6, <1>7, <1>8

(* Types, and what is known of lengths, are invariant. *)
LEMMA TypesKept == RouterAssumption /\ Spec => [](OwnerTypes /\ ThreadTypes)
<1> SUFFICES ASSUME RouterAssumption PROVE Spec => [](OwnerTypes /\ ThreadTypes)
  OBVIOUS
<1>1. Init => OwnerTypes /\ ThreadTypes
  <2> SUFFICES ASSUME Init PROVE OwnerTypes /\ ThreadTypes
    OBVIOUS
  <2>1. requests \in [Types -> Seq(Paths)] /\ \A m \in Types : Len(requests[m]) = 0
    BY DEF Init
  <2>2. started \in BOOLEAN /\ fault \in BOOLEAN
    BY DEF Init
  <2>3. OwnerTypes
    BY <2>1, <2>2 DEF Init, OwnerTypes, RouterAssumption
  <2>4. ThreadTypes
    BY DEF Init, ThreadTypes, PCs, Using
  <2> QED
    BY <2>3, <2>4
<1>2. OwnerTypes /\ ThreadTypes /\ [Next]_vars => OwnerTypes' /\ ThreadTypes'
  <2>1. ASSUME OwnerTypes, ThreadTypes, UNCHANGED vars PROVE OwnerTypes' /\ ThreadTypes'
    BY <2>1 DEF vars, ownerVars, threadVars, OwnerTypes, ThreadTypes
  <2> QED
    BY <2>1, OwnerStepTypes, ThreadStepTypes DEF Next, ThreadStep, Finished
<1> QED
  BY <1>1, <1>2, PTL DEF Spec

(* The variables keep their types; an iterator that is used points into    *)
(* the vector of its request's type.                                       *)
THEOREM TypeCorrect == Spec => []TypeOK
<1>1. RouterAssumption /\ OwnerTypes /\ ThreadTypes => TypeOK
  <2> SUFFICES ASSUME RouterAssumption, OwnerTypes, ThreadTypes PROVE TypeOK
    OBVIOUS
  <2>1. found \in [Threads -> 0 .. MaxRoutes]
    <3>1. ASSUME NEW t \in Threads PROVE found[t] \in 0 .. MaxRoutes
      <4>1. found[t] \in Nat
        BY DEF ThreadTypes
      <4>2. CASE found[t] # 0
        <5>1. request[t] \in Requests /\ found[t] \in DOMAIN requests[request[t].type]
          BY <4>2 DEF ThreadTypes
        <5>2. request[t].type \in Types
          BY <5>1 DEF RouterAssumption
        <5>3. Len(requests[request[t].type]) <= routes /\ requests[request[t].type] \in Seq(Paths)
          BY <5>2 DEF OwnerTypes
        <5> QED
          BY <4>1, <5>1, <5>3 DEF OwnerTypes, RouterAssumption
      <4> QED
        BY <4>1, <4>2 DEF RouterAssumption
    <3> QED
      BY <3>1 DEF ThreadTypes
  <2> QED
    BY <2>1 DEF OwnerTypes, ThreadTypes, TypeOK, PCs, Using
<1> QED
  BY <1>1, TypesKept, RouterAssumption, PTL

-----------------------------------------------------------------------------
(* Refinement. *)

(* What is known of a thread that has not decided yet. *)
Searching(t) ==
  /\ pc[t] = "idle" => request[t] = NoRequest
  /\ pc[t] \in {"idle", "parse", "find", "match"} => found[t] = 0 /\ answer[t] = 0
  /\ pc[t] \in {"find", "match"} =>
       request[t].url.valid /\ url[t].path = request[t].url.path
  /\ pc[t] = "match" => requests[request[t].type] # <<>>

SearchInv ==
  /\ url = [t \in Threads |-> url[t]]
  /\ \A t \in Threads : Searching(t)

(* Parsing keeps the number of parts. *)
LEMMA PartsOfPath ==
  ASSUME NEW u, IsPath(u.path), NEW disableIds \in BOOLEAN
  PROVE  /\ Len(ParsePath(u, disableIds)) = Len(u.path)
         /\ DOMAIN ParsePath(u, disableIds) = DOMAIN u.path
<1>1. DOMAIN u.path = 1 .. Len(u.path) /\ Len(u.path) \in Nat
  BY DEF IsPath
<1> DEFINE Part(i) == IF ~disableIds /\ u.path[i] \in Params
                      THEN PathParameter(u.path[i]) ELSE PathString(u.path[i])
<1>2. ParsePath(u, disableIds) = [i \in 1 .. Len(u.path) |-> Part(i)]
  BY <1>1 DEF ParsePath
<1> HIDE DEF Part
<1>3. Len([i \in 1 .. Len(u.path) |-> Part(i)]) = Len(u.path)
  BY <1>1
<1> QED
  BY <1>1, <1>2, <1>3

(* matching() accepts what fits in the abstract table. *)
LEMMA MatchingFits ==
  ASSUME NEW received, NEW path, IsPath(received.path), IsPath(path)
  PROVE  Matching(received, [path |-> path]) <=> Table!Fits(received.path, path)
<1> DEFINE registeredParts == ParsePath([path |-> path], FALSE)
           receivedParts   == ParsePath(received, TRUE)
<1>1. /\ Len(registeredParts) = Len(path) /\ DOMAIN registeredParts = DOMAIN path
      /\ \A i \in DOMAIN path : registeredParts[i] =
           IF path[i] \in Params THEN PathParameter(path[i]) ELSE PathString(path[i])
  <2> DEFINE u == [path |-> path]
  <2>1. u.path = path
    OBVIOUS
  <2> HIDE DEF u
  <2>2. Len(ParsePath(u, FALSE)) = Len(path) /\ DOMAIN ParsePath(u, FALSE) = DOMAIN path
    BY <2>1, PartsOfPath
  <2>3. \A i \in DOMAIN path : ParsePath(u, FALSE)[i] =
          IF path[i] \in Params THEN PathParameter(path[i]) ELSE PathString(path[i])
    BY <2>1 DEF ParsePath
  <2> QED
    BY <2>2, <2>3 DEF u
<1>2. /\ Len(receivedParts) = Len(received.path)
      /\ \A i \in DOMAIN received.path : receivedParts[i] = PathString(received.path[i])
  <2>1. Len(receivedParts) = Len(received.path)
    BY PartsOfPath
  <2> QED
    BY <2>1 DEF ParsePath
<1>5. Matching(received, [path |-> path]) <=>
        /\ Len(registeredParts) = Len(receivedParts)
        /\ \A i \in DOMAIN registeredParts :
             registeredParts[i].type = "STRING" => registeredParts[i].value = receivedParts[i].value
  BY DEF Matching
<1> HIDE DEF registeredParts, receivedParts
<1>3. Len(path) = Len(received.path) => DOMAIN path = DOMAIN received.path
  BY DEF IsPath
<1>4. ASSUME NEW i \in DOMAIN path, i \in DOMAIN received.path
      PROVE  (registeredParts[i].type = "STRING" => registeredParts[i].value = receivedParts[i].value)
             <=> (path[i] \in Params \/ received.path[i] = path[i])
  <2>1. receivedParts[i].value = received.path[i]
    <3>1. receivedParts[i] = PathString(received.path[i])
      BY <1>2, <1>4
    <3>2. PathString(received.path[i]).value = received.path[i]
      BY DEF PathString
    <3> QED
      BY <3>1, <3>2
  <2>2. path[i] \in Params => registeredParts[i].type = "PARAMETER"
    BY <1>1, <1>4 DEF PathParameter
  <2>3. path[i] \notin Params => registeredParts[i].type = "STRING" /\ registeredParts[i].value = path[i]
    BY <1>1, <1>4 DEF PathString
  <2> QED
    BY <2>1, <2>2, <2>3
<1> QED
  BY <1>1, <1>2, <1>3, <1>4, <1>5 DEF Table!Fits

(* What the table decides, where it decides by a route. *)
LEMMA DecidesRoute ==
  ASSUME NEW r, r.url.valid, NEW i \in DOMAIN requests[r.type], requests[r.type] \in Seq(Paths),
         Table!Fits(r.url.path, requests[r.type][i]),
         \A j \in DOMAIN requests[r.type] : Table!Fits(r.url.path, requests[r.type][j]) => i <= j
  PROVE  Table!Decision(r) = <<i>>
<1> DEFINE fitting == {j \in DOMAIN requests[r.type] : Table!Fits(r.url.path, requests[r.type][j])}
<1>1. i \in fitting /\ (\A j \in fitting : i <= j) /\ fitting \subseteq Nat
  OBVIOUS
<1>2. Table!Decision(r) = <<CHOOSE k \in fitting : \A j \in fitting : k <= j>>
  BY <1>1 DEF Table!Decision
<1> HIDE DEF fitting
<1>3. \A k \in fitting : (\A j \in fitting : k <= j) => k = i
  BY <1>1
<1>4. (CHOOSE k \in fitting : \A j \in fitting : k <= j) = i
  BY <1>1, <1>3
<1> QED
  BY <1>2, <1>4

(* A step that decides for one thread what the table decides. *)
LEMMA Decides ==
  ASSUME ThreadTypes, NEW t \in Threads, request[t] \in Requests, NoRequest \notin Requests,
         found[t] = 0, answer[t] = 0, UNCHANGED <<requests, request>>,
         \A u \in Threads \ {t} : found'[u] = found[u] /\ answer'[u] = answer[u],
         Outcome(t)' = Table!Decision(request[t])
  PROVE  Table!Decide(t)
<1>1. Outcome(t) = <<>>
  BY DEF Outcome
<1>2. \A u \in Threads \ {t} : Outcome(u)' = Outcome(u)
  BY DEF Outcome
<1>3. [u \in Threads |-> Outcome(u)]' = [[u \in Threads |-> Outcome(u)] EXCEPT ![t] = Table!Decision(request[t])]
  BY <1>2
<1> QED
  BY <1>1, <1>3 DEF Table!Decide

(* Every step keeps what is known of a thread that has not decided. *)
LEMMA SearchStep ==
  ASSUME RouterAssumption, OwnerTypes, ThreadTypes, SearchInv, [Next]_vars
  PROVE  SearchInv'
<1>1. ASSUME UNCHANGED threadVars, \A m \in Types : requests[m] # <<>> => requests'[m] # <<>>
      PROVE  SearchInv'
  <2>1. \A t \in Threads : pc[t] = "match" => request[t].type \in Types
    BY DEF ThreadTypes, RouterAssumption
  <2> QED
    BY <1>1, <2>1 DEF threadVars, SearchInv, Searching
<1>2. CASE EndPush
  <2>1. pushing.type \in Types /\ pushing.path \in Paths
    BY <1>2 DEF EndPush, OwnerTypes
  <2>2. requests' = [requests EXCEPT ![pushing.type] = Append(@, pushing.path)]
        /\ requests \in [Types -> Seq(Paths)]
    BY <1>2 DEF EndPush, OwnerTypes
  <2>3. \A m \in Types : requests[m] # <<>> => requests'[m] # <<>>
    BY <2>1, <2>2
  <2> QED
    BY <1>1, <1>2, <2>3 DEF EndPush
<1>3. CASE \/ UNCHANGED vars \/ Start
           \/ \E m \in Types, path \in Paths : BeginPush(m, path)
           \/ \E t \in Threads : Race(t)
  <2>1. UNCHANGED <<requests, threadVars>>
    BY <1>3 DEF BeginPush, Start, Race, vars, ownerVars
  <2> QED
    BY <1>1, <2>1
<1>4. ASSUME NEW t \in Threads, ThreadStep(t) PROVE SearchInv'
  <2>1. UNCHANGED requests
    BY <1>4, ThreadFrame DEF ownerVars
  <2>2. PICK to \in PCs : pc' = [pc EXCEPT ![t] = to]
    BY <1>4 DEF ThreadStep, Receive, ParseUrl, Find, Match, Extract, Call, Return, Refuse, Goes, PCs
  <2>3. url' = [u \in Threads |-> url'[u]] /\ \A u \in Threads \ {t} : url'[u] = url[u]
    <3>1. url' = url \/ url' = [url EXCEPT ![t] = Parse(request[t].url)]
      BY <1>4 DEF ThreadStep, Receive, ParseUrl, Find, Match, Extract, Call, Return, Refuse
    <3> QED
      BY <3>1 DEF SearchInv
  <2>4. \A u \in Threads \ {t} : request'[u] = request[u]
    <3>1. request' = request \/ \E r \in Requests : request' = [request EXCEPT ![t] = r]
      BY <1>4 DEF ThreadStep, Receive, ParseUrl, Find, Match, Extract, Call, Return, Refuse
    <3> QED
      BY <3>1 DEF ThreadTypes
  <2>5. \A u \in Threads \ {t} : answer'[u] = answer[u]
    <3>1. answer' = answer \/ \E a \in {400, 404, 501} : answer' = [answer EXCEPT ![t] = a]
      BY <1>4 DEF ThreadStep, Receive, ParseUrl, Find, Match, Extract, Call, Return, Refuse
    <3> QED
      BY <3>1 DEF ThreadTypes
  <2>6. \A u \in Threads \ {t} : found'[u] = found[u]
    <3>1. found' = found \/ \E i \in Matches(t) : found' = [found EXCEPT ![t] = i]
      BY <1>4 DEF ThreadStep, Receive, ParseUrl, Find, Match, Extract, Call, Return, Refuse
    <3> QED
      BY <3>1 DEF ThreadTypes
  <2>7. \A u \in Threads \ {t} : Searching(u)'
    BY <2>1, <2>2, <2>3, <2>4, <2>5, <2>6 DEF Searching, SearchInv, ThreadTypes
  <2>8. pc'[t] = to /\ Searching(t)
    BY <2>2 DEF ThreadTypes, SearchInv
  <2>9. Searching(t)'
    <3>1. CASE to \notin {"parse", "find", "match"}
      <4>1. to # "idle"
        BY <1>4, <2>8 DEF ThreadStep, Receive, ParseUrl, Find, Match, Extract, Call, Return,
           Refuse, Goes, ThreadTypes
      <4> QED
        BY <2>8, <3>1, <4>1 DEF Searching
    <3>2. CASE to = "parse"
      <4>1. Receive(t)
        BY <1>4, <2>8, <3>2 DEF ThreadStep, ParseUrl, Find, Match, Extract, Call, Return,
           Refuse, Goes, ThreadTypes
      <4>2. pc[t] = "idle" /\ UNCHANGED <<found, answer>>
        BY <4>1 DEF Receive, Goes
      <4> QED
        BY <2>8, <3>2, <4>2 DEF Searching
    <3>3. CASE to = "find"
      <4>1. ParseUrl(t) /\ pc[t] = "parse"
        BY <1>4, <2>8, <3>3 DEF ThreadStep, Receive, ParseUrl, Find, Match, Extract, Call, Return,
           Refuse, Goes, ThreadTypes
      <4>2. /\ request[t].url.valid /\ url' = [url EXCEPT ![t] = Parse(request[t].url)]
            /\ UNCHANGED <<request, found, answer>>
        BY <2>8, <3>3, <4>1 DEF ParseUrl, Refuse, Goes, ThreadTypes
      <4>3. url'[t].path = request[t].url.path
        BY <4>2 DEF SearchInv, Parse
      <4> QED
        BY <2>8, <3>3, <4>1, <4>2, <4>3 DEF Searching
    <3>4. CASE to = "match"
      <4>1. Find(t) /\ pc[t] = "find"
        BY <1>4, <2>8, <3>4 DEF ThreadStep, Receive, ParseUrl, Find, Match, Extract, Call, Return,
           Refuse, Goes, ThreadTypes
      <4>2. requests[request[t].type] # <<>> /\ UNCHANGED <<request, url, found, answer>>
        BY <2>8, <3>4, <4>1 DEF Find, Refuse, Goes, ThreadTypes
      <4> QED
        BY <2>1, <2>8, <3>4, <4>1, <4>2 DEF Searching
    <3> QED
      BY <3>1, <3>2, <3>3, <3>4
  <2> QED
    BY <2>3, <2>7, <2>9 DEF SearchInv
<1> QED
  BY <1>2, <1>3, <1>4 DEF Next, ThreadStep, Finished

(* A thread that refuses, or finds a route, decides as the table does.     *)
LEMMA DecidingStep ==
  ASSUME RouterAssumption, OwnerTypes, ThreadTypes, SearchInv, NEW t \in Threads,
         ParseUrl(t) \/ Find(t) \/ Match(t)
  PROVE  Table!Decide(t) \/ UNCHANGED <<requests, request, found, answer>>
<1> USE DEF Searching
<1>1. pc[t] \in {"parse", "find", "match"} /\ UNCHANGED <<requests, request>>
  BY DEF ParseUrl, Find, Match, Refuse, Goes, ownerVars
<1>2. /\ request[t] \in Requests /\ request[t].type \in Types /\ IsPath(request[t].url.path)
      /\ found[t] = 0 /\ answer[t] = 0 /\ NoRequest \notin Requests
      /\ requests[request[t].type] \in Seq(Paths)
  BY <1>1 DEF ThreadTypes, RouterAssumption, SearchInv, OwnerTypes
<1> DEFINE r == request[t]
<1>3. ASSUME NEW from, NEW status \in {400, 404, 501}, Refuse(t, from, status),
             Table!Decision(request[t]) = <<"status", status>>
      PROVE  Table!Decide(t)
  <2>1. found' = found /\ answer' = [answer EXCEPT ![t] = status]
    BY <1>3 DEF Refuse
  <2>2. answer'[t] = status /\ (\A u \in Threads \ {t} : answer'[u] = answer[u])
    BY <2>1 DEF ThreadTypes
  <2>3. Outcome(t)' = <<"status", status>>
    BY <1>2, <2>1, <2>2 DEF Outcome
  <2> QED
    BY <1>1, <1>2, <1>3, <2>1, <2>2, <2>3, Decides
<1>4. CASE ParseUrl(t)
  <2>1. CASE Refuse(t, "parse", 400) /\ ~request[t].url.valid
    <3>1. Table!Decision(request[t]) = <<"status", 400>>
      BY <2>1 DEF Table!Decision
    <3> QED
      BY <1>3, <2>1, <3>1
  <2> QED
    BY <1>1, <1>4, <2>1 DEF ParseUrl
<1>5. CASE Find(t)
  <2> DEFINE status == IF r.type \in Methods \ {"HEAD"} THEN 404 ELSE 501
  <2>1. CASE Refuse(t, "find", status) /\ pc[t] = "find" /\ requests[request[t].type] = <<>>
    <3>1. request[t].url.valid
      BY <2>1 DEF SearchInv
    <3>2. DOMAIN requests[request[t].type] = {}
      BY <2>1
    <3>3. Table!Decision(request[t]) = <<"status", status>>
      BY <2>1, <3>1, <3>2 DEF Table!Decision, Methods
    <3> QED
      BY <1>3, <2>1, <3>3
  <2> QED
    BY <1>1, <1>5, <2>1 DEF Find
<1>6. CASE Match(t)
  <2>1. pc[t] = "match"
    BY <1>6 DEF Match, Refuse, Goes
  <2>2. /\ request[t].url.valid /\ url[t].path = request[t].url.path
        /\ requests[request[t].type] # <<>>
    BY <2>1 DEF SearchInv
  <2>3. \A i \in DOMAIN requests[request[t].type] :
          i \in Matches(t) <=> Table!Fits(request[t].url.path, requests[request[t].type][i])
    <3> SUFFICES ASSUME NEW i \in DOMAIN requests[request[t].type]
                 PROVE  i \in Matches(t) <=>
                          Table!Fits(request[t].url.path, requests[request[t].type][i])
      OBVIOUS
    <3>1. IsPath(requests[request[t].type][i])
      BY <1>2 DEF RouterAssumption
    <3>2. Matching(url[t], [path |-> requests[request[t].type][i]]) <=>
            Table!Fits(url[t].path, requests[request[t].type][i])
      BY <1>2, <2>2, <3>1, MatchingFits
    <3> QED
      BY <2>2, <3>2 DEF Matches
  <2>4. CASE Refuse(t, "match", 404) /\ Matches(t) = {}
    <3>1. Table!Decision(request[t]) = <<"status", 404>>
      BY <2>2, <2>3, <2>4 DEF Table!Decision
    <3> QED
      BY <1>3, <2>4, <3>1
  <2>5. ASSUME NEW i \in Matches(t), \A j \in Matches(t) : i <= j,
               found' = [found EXCEPT ![t] = i], UNCHANGED answer
        PROVE  Table!Decide(t)
    <3>1. i \in DOMAIN requests[request[t].type] /\ i \in Nat /\ i # 0
      BY <1>2, <2>5 DEF Matches
    <3>2. Table!Decision(request[t]) = <<i>>
      BY <1>2, <2>2, <2>3, <2>5, <3>1, DecidesRoute
    <3>3. found'[t] = i /\ \A u \in Threads \ {t} : found'[u] = found[u]
      BY <2>5 DEF ThreadTypes
    <3>4. Outcome(t)' = <<i>>
      BY <1>2, <2>5, <3>1, <3>3 DEF Outcome
    <3> QED
      BY <1>1, <1>2, <2>5, <3>2, <3>3, <3>4, Decides
  <2> QED
    BY <1>6, <2>4, <2>5 DEF Match
<1> QED
  BY <1>4, <1>5, <1>6

(* Each step of the code is one of the table's, or none.                   *)
LEMMA StepRefines ==
  ASSUME RouterAssumption, OwnerTypes, ThreadTypes, SearchInv, [Next]_vars
  PROVE  [Table!Next]_(Table!vars)
<1>1. ASSUME UNCHANGED <<requests, request, found, answer>> PROVE UNCHANGED Table!vars
  BY <1>1 DEF Table!vars, Outcome
<1>2. CASE EndPush
  <2>1. pushing.type \in Types /\ pushing.path \in Paths
    BY <1>2 DEF EndPush, OwnerTypes
  <2>2. UNCHANGED <<request, found, answer>>
    BY <1>2 DEF EndPush, threadVars
  <2>3. UNCHANGED [t \in Threads |-> Outcome(t)]
    BY <2>2 DEF Outcome
  <2> QED
    BY <1>2, <2>1, <2>2, <2>3 DEF EndPush, Table!Next, Table!Add
<1>3. CASE \/ UNCHANGED vars \/ Start
           \/ \E m \in Types, path \in Paths : BeginPush(m, path)
           \/ \E t \in Threads : Race(t)
  BY <1>1, <1>3 DEF BeginPush, Start, Race, vars, ownerVars, threadVars
<1>4. ASSUME NEW t \in Threads, Receive(t) PROVE Table!Next
  <2>1. request[t] = NoRequest
    BY <1>4 DEF Receive, Goes, SearchInv, Searching
  <2>2. UNCHANGED <<requests, found, answer>>
    BY <1>4 DEF Receive, Goes, ownerVars
  <2>3. UNCHANGED [u \in Threads |-> Outcome(u)]
    BY <2>2 DEF Outcome
  <2> QED
    BY <1>4, <2>1, <2>2, <2>3 DEF Receive, Table!Next, Table!Receive
<1>5. ASSUME NEW t \in Threads, ParseUrl(t) \/ Find(t) \/ Match(t)
      PROVE  Table!Next \/ UNCHANGED Table!vars
  BY <1>1, <1>5, DecidingStep DEF Table!Next
<1>6. ASSUME NEW t \in Threads, Extract(t) \/ Call(t) \/ Return(t) PROVE UNCHANGED Table!vars
  BY <1>1, <1>6 DEF Extract, Call, Return, Goes, ownerVars
<1> QED
  BY <1>2, <1>3, <1>4, <1>5, <1>6 DEF Next, Finished

(* Searching in steps, while others are being added, decides each request  *)
(* as the table does in one step: the first registered url that fits.      *)
THEOREM SearchImplementsTable == Spec => TableSpec
<1>1. Init => SearchInv
  BY DEF Init, SearchInv, Searching
<1>2. OwnerTypes /\ ThreadTypes /\ SearchInv /\ [Next]_vars => SearchInv'
  BY SearchStep, RouterAssumption
<1>3. Init => Table!Init
  BY DEF Init, Table!Init, Outcome
<1>4. OwnerTypes /\ ThreadTypes /\ SearchInv /\ [Next]_vars => [Table!Next]_(Table!vars)
  BY StepRefines, RouterAssumption
<1> QED
  BY <1>1, <1>2, <1>3, <1>4, TypesKept, RouterAssumption, PTL DEF Spec, TableSpec, Table!Spec

-----------------------------------------------------------------------------
(* What a callback is given. *)

(* A set of positions that is not empty has a last one. *)
LEMMA LastExists ==
  ASSUME NEW n \in Nat, NEW S \in SUBSET (1 .. n), S # {}
  PROVE  \E i \in S : \A j \in S : j <= i
<1> DEFINE FromEnd == {n - i : i \in S}
<1>1. FromEnd \subseteq Nat /\ FromEnd # {}
  <2>1. \A i \in S : n - i \in Nat
    OBVIOUS
  <2> QED
    BY <2>1
<1>2. IsWellFoundedOn(OpToRel(<, Nat), Nat)
  BY NatLessThanWellFounded
<1> HIDE DEF FromEnd
<1>3. PICK x \in FromEnd : \A y \in FromEnd : ~(<<y, x>> \in OpToRel(<, Nat))
  BY <1>1, <1>2, WFMin
<1>4. \A y \in FromEnd : ~(y < x)
  BY <1>1, <1>3 DEF OpToRel
<1>5. PICK i \in S : x = n - i
  BY <1>3 DEF FromEnd
<1>6. ASSUME NEW j \in S PROVE j <= i
  BY <1>4, <1>5 DEF FromEnd
<1> QED
  BY <1>6

(* Where a registered path has a parameter. *)
IdPlaces(path) == {i \in DOMAIN path : path[i] \in Params}

(* extractParameters(): the ids of the registered path, each with the part *)
(* of the received path in the place where it occurs last.                 *)
LEMMA Extracted ==
  ASSUME NEW received, NEW path, IsPath(received.path), IsPath(path),
         Len(received.path) = Len(path)
  PROVE  /\ \A i \in IdPlaces(path) : path[i] \in DOMAIN ExtractParameters(received, [path |-> path])
         /\ \A id \in DOMAIN ExtractParameters(received, [path |-> path]) :
              \E i \in IdPlaces(path) :
                /\ path[i] = id
                /\ ExtractParameters(received, [path |-> path])[id] = received.path[i]
<1> DEFINE parts   == ParsePath([path |-> path], FALSE)
           ids     == {i \in DOMAIN parts : parts[i].type = "PARAMETER"}
           Last(x) == CHOOSE i \in ids : /\ parts[i].id = x
                                         /\ \A j \in ids : parts[j].id = x => j <= i
           given   == ExtractParameters(received, [path |-> path])
<1>1. DOMAIN path = 1 .. Len(path) /\ DOMAIN received.path = DOMAIN path /\ Len(path) \in Nat
  BY DEF IsPath
<1>2. DOMAIN parts = DOMAIN path /\ \A i \in DOMAIN path :
        parts[i] = IF path[i] \in Params THEN PathParameter(path[i]) ELSE PathString(path[i])
  BY DEF ParsePath
<1>3. given = [id \in {parts[i].id : i \in ids} |-> ParsePath(received, TRUE)[Last(id)].value]
  BY DEF ExtractParameters
<1>4. \A i \in DOMAIN path : ParsePath(received, TRUE)[i].value = received.path[i]
  BY <1>1 DEF ParsePath, PathString
<1> HIDE DEF parts, given
<1>5. ids = IdPlaces(path) /\ \A i \in IdPlaces(path) : parts[i].id = path[i]
  <2>1. ASSUME NEW i \in DOMAIN path
        PROVE  /\ parts[i].type = "PARAMETER" <=> path[i] \in Params
               /\ path[i] \in Params => parts[i].id = path[i]
    BY <1>2 DEF PathParameter, PathString
  <2> QED
    BY <1>2, <2>1 DEF IdPlaces
<1>6. DOMAIN given = {path[i] : i \in IdPlaces(path)}
  BY <1>3, <1>5
<1>7. ASSUME NEW id \in DOMAIN given
      PROVE  \E i \in IdPlaces(path) : path[i] = id /\ given[id] = received.path[i]
  <2> DEFINE places == {i \in ids : parts[i].id = id}
  <2>1. places \in SUBSET (1 .. Len(path)) /\ places # {}
    BY <1>1, <1>5, <1>6 DEF IdPlaces
  <2>2. \E i \in places : \A j \in places : j <= i
    BY <1>1, <2>1, LastExists
  <2>3. Last(id) \in ids /\ parts[Last(id)].id = id
    BY <2>2
  <2> HIDE DEF Last
  <2>4. Last(id) \in IdPlaces(path) /\ path[Last(id)] = id
    BY <1>5, <2>3
  <2>5. given[id] = ParsePath(received, TRUE)[Last(id)].value
    BY <1>3, <1>5, <1>6
  <2> QED
    BY <1>4, <2>4, <2>5 DEF IdPlaces
<1> QED
  BY <1>6, <1>7 DEF given

(* parseQuery() stores the text before an equals sign under the text after *)
(* it: each entry is a pair of the query, or the empty one.                *)
LEMMA QueryPairs ==
  ASSUME NEW pairs, IsQuery(pairs), NEW v \in DOMAIN ParseQuery(pairs), v # Empty
  PROVE  \E i \in DOMAIN pairs : pairs[i] = <<ParseQuery(pairs)[v], v>>
<1> DEFINE groups  == Groups(pairs)
           Last(x) == CHOOSE i \in DOMAIN groups :
                        /\ groups[i][2] = x
                        /\ \A j \in DOMAIN groups : groups[j][2] = x => j <= i
<1>1. Len(pairs) \in Nat /\ DOMAIN pairs = 1 .. Len(pairs) /\ (Len(pairs) = 0 <=> pairs = <<>>)
  BY DEF IsQuery
<1>2. ParseQuery(pairs) = [x \in {groups[i][2] : i \in DOMAIN groups} |-> groups[Last(x)][1]]
  BY DEF ParseQuery
<1>3. /\ DOMAIN groups \in {{}, 1 .. 2}
      /\ \A i \in DOMAIN groups :
           groups[i] = <<Empty, Empty>> \/ \E j \in DOMAIN pairs : groups[i] = pairs[j]
  <2>1. CASE pairs = <<>>
    BY <1>1, <2>1 DEF Groups
  <2>2. CASE Len(pairs) = 1
    <3>1. groups = <<pairs[1], <<Empty, Empty>>>>
      BY <1>1, <2>2 DEF Groups
    <3> QED
      BY <1>1, <2>2, <3>1
  <2>3. CASE Len(pairs) >= 2
    <3>1. groups = <<pairs[1], pairs[Len(pairs)]>>
      BY <1>1, <2>3 DEF Groups
    <3> QED
      BY <1>1, <2>3, <3>1
  <2> QED
    BY <1>1, <2>1, <2>2, <2>3
<1> HIDE DEF groups
<1>4. Last(v) \in DOMAIN groups /\ groups[Last(v)][2] = v
  <2>1. PICK i \in DOMAIN groups : groups[i][2] = v
    BY <1>2
  <2>2. \E k \in DOMAIN groups : groups[k][2] = v /\ \A j \in DOMAIN groups : groups[j][2] = v => j <= k
    BY <1>3, <2>1
  <2> QED
    BY <2>2
<1>5. ParseQuery(pairs)[v] = groups[Last(v)][1]
  BY <1>2
<1> HIDE DEF Last
<1>6. PICK j \in DOMAIN pairs : groups[Last(v)] = pairs[j]
  BY <1>3, <1>4
<1>7. pairs[j] = <<pairs[j][1], pairs[j][2]>>
  BY DEF IsQuery
<1> QED
  BY <1>4, <1>5, <1>6, <1>7

(* What is known of a thread once its url has parsed: it is the request's, *)
(* the iterator is at a url that matches it, and the parameters are        *)
(* extracted from these two.                                               *)
Called(t) ==
  /\ pc[t] \in {"find", "match"} \union Using => url[t] = Parse(request[t].url)
  /\ pc[t] \in Using => Matching(url[t], Registered(t))
  /\ pc[t] \in {"call", "callback"} => params[t] = ExtractParameters(url[t], Registered(t))

CallInv ==
  /\ url = [t \in Threads |-> url[t]] /\ params = [t \in Threads |-> params[t]]
  /\ \A t \in Threads : Called(t)

(* A registration appends: what an iterator points to stays where it is.   *)
LEMMA RegisteredStays ==
  ASSUME RouterAssumption, OwnerTypes, ThreadTypes, EndPush, NEW t \in Threads, pc[t] \in Using
  PROVE  Registered(t)' = Registered(t)
<1>1. /\ request[t].type \in Types
      /\ found[t] \in DOMAIN requests[request[t].type]
      /\ UNCHANGED <<request, found>>
  BY DEF ThreadTypes, Using, RouterAssumption, EndPush, threadVars
<1>2. requests' = [requests EXCEPT ![pushing.type] = Append(@, pushing.path)]
      /\ pushing.type \in Types /\ requests \in [Types -> Seq(Paths)] /\ pushing.path \in Paths
  BY DEF EndPush, OwnerTypes
<1>3. \A m \in Types : \A i \in DOMAIN requests[m] : requests'[m][i] = requests[m][i]
  BY <1>2
<1> QED
  BY <1>1, <1>3 DEF Registered

(* Every step keeps it. *)
LEMMA CallStep ==
  ASSUME RouterAssumption, OwnerTypes, ThreadTypes, CallInv, [Next]_vars
  PROVE  CallInv'
<1>1. CASE EndPush
  <2>1. UNCHANGED <<pc, url, params, request>>
    BY <1>1 DEF EndPush, threadVars
  <2>2. ASSUME NEW t \in Threads PROVE Called(t)'
    <3>1. pc[t] \in Using => Registered(t)' = Registered(t)
      BY <1>1, RegisteredStays
    <3> QED
      BY <2>1, <3>1 DEF CallInv, Called, Using
  <2> QED
    BY <2>1, <2>2 DEF CallInv
<1>2. CASE \/ UNCHANGED vars \/ Start
           \/ \E m \in Types, path \in Paths : BeginPush(m, path)
           \/ \E t \in Threads : Race(t)
  <2>1. UNCHANGED <<requests, threadVars>>
    BY <1>2 DEF BeginPush, Start, Race, vars, ownerVars
  <2> QED
    BY <2>1 DEF threadVars, CallInv, Called, Registered
<1>3. ASSUME NEW t \in Threads, ThreadStep(t) PROVE CallInv'
  <2>1. UNCHANGED requests
    BY <1>3, ThreadFrame DEF ownerVars
  <2>2. PICK to \in PCs : pc' = [pc EXCEPT ![t] = to]
    BY <1>3 DEF ThreadStep, Receive, ParseUrl, Find, Match, Extract, Call, Return, Refuse, Goes, PCs
  <2>3. url' = [u \in Threads |-> url'[u]] /\ \A u \in Threads \ {t} : url'[u] = url[u]
    <3>1. url' = url \/ url' = [url EXCEPT ![t] = Parse(request[t].url)]
      BY <1>3 DEF ThreadStep, Receive, ParseUrl, Find, Match, Extract, Call, Return, Refuse
    <3> QED
      BY <3>1 DEF CallInv
  <2>4. params' = [u \in Threads |-> params'[u]] /\ \A u \in Threads \ {t} : params'[u] = params[u]
    <3>1. params' = params \/ params' = [params EXCEPT ![t] = ExtractParameters(url[t], Registered(t))]
      BY <1>3 DEF ThreadStep, Receive, ParseUrl, Find, Match, Extract, Call, Return, Refuse
    <3> QED
      BY <3>1 DEF CallInv
  <2>5. \A u \in Threads \ {t} : request'[u] = request[u]
    <3>1. request' = request \/ \E r \in Requests : request' = [request EXCEPT ![t] = r]
      BY <1>3 DEF ThreadStep, Receive, ParseUrl, Find, Match, Extract, Call, Return, Refuse
    <3> QED
      BY <3>1 DEF ThreadTypes
  <2>6. \A u \in Threads \ {t} : found'[u] = found[u]
    <3>1. found' = found \/ \E i \in Matches(t) : found' = [found EXCEPT ![t] = i]
      BY <1>3 DEF ThreadStep, Receive, ParseUrl, Find, Match, Extract, Call, Return, Refuse
    <3> QED
      BY <3>1 DEF ThreadTypes
  <2>7. \A u \in Threads \ {t} : Called(u)'
    <3> SUFFICES ASSUME NEW u \in Threads \ {t} PROVE Called(u)'
      OBVIOUS
    <3>1. pc'[u] = pc[u]
      BY <2>2 DEF ThreadTypes
    <3>2. Registered(u)' = Registered(u)
      BY <2>1, <2>5, <2>6 DEF Registered
    <3> QED
      BY <2>3, <2>4, <2>5, <3>1, <3>2 DEF CallInv, Called
  <2>8. pc'[t] = to /\ Called(t)
    BY <2>2 DEF ThreadTypes, CallInv
  <2>9. Called(t)'
    <3>1. CASE Receive(t) \/ (\E from \in PCs, status \in {400, 404, 501} : Refuse(t, from, status))
      <4>1. to \in {"parse", "done"}
        BY <1>3, <2>8, <3>1 DEF Receive, Refuse, Goes, ThreadTypes
      <4> QED
        BY <2>8, <4>1 DEF Called, Using
    <3>2. CASE /\ Goes(t, "parse", "find")
               /\ url' = [url EXCEPT ![t] = Parse(request[t].url)]
               /\ UNCHANGED request
      <4>1. to = "find" /\ url'[t] = Parse(request[t].url)
        BY <2>8, <3>2 DEF Goes, ThreadTypes, CallInv
      <4> QED
        BY <2>8, <3>2, <4>1 DEF Called, Using
    <3>3. CASE Goes(t, "find", "match") /\ UNCHANGED <<request, url>>
      <4>1. to = "match" /\ pc[t] = "find"
        BY <2>8, <3>3 DEF Goes, ThreadTypes
      <4> QED
        BY <2>8, <3>3, <4>1 DEF Called, Using
    <3>4. CASE /\ Goes(t, "match", "extract") /\ UNCHANGED <<request, url>>
               /\ \E i \in Matches(t) : found' = [found EXCEPT ![t] = i]
      <4>1. to = "extract" /\ pc[t] = "match"
        BY <2>8, <3>4 DEF Goes, ThreadTypes
      <4>2. found'[t] \in Matches(t)
        BY <3>4 DEF ThreadTypes
      <4>3. Matching(url[t], Registered(t)')
        BY <2>1, <3>4, <4>2 DEF Matches, Registered
      <4> QED
        BY <2>8, <3>4, <4>1, <4>3 DEF Called, Using
    <3>5. CASE Extract(t)
      <4>1. to = "call" /\ pc[t] = "extract" /\ UNCHANGED <<request, url, found>>
        BY <2>8, <3>5 DEF Extract, Goes, ThreadTypes
      <4>2. Registered(t)' = Registered(t)
        BY <2>1, <4>1 DEF Registered
      <4>3. params'[t] = ExtractParameters(url[t], Registered(t))
        BY <3>5 DEF Extract, CallInv
      <4> QED
        BY <2>8, <4>1, <4>2, <4>3 DEF Called, Using
    <3>6. CASE Call(t) \/ Return(t)
      <4>1. /\ (to = "callback" /\ pc[t] = "call") \/ to = "done"
            /\ UNCHANGED <<request, url, found, params>>
        BY <2>8, <3>6 DEF Call, Return, Goes, ThreadTypes
      <4>2. Registered(t)' = Registered(t)
        BY <2>1, <4>1 DEF Registered
      <4> QED
        BY <2>8, <4>1, <4>2 DEF Called, Using
    <3> QED
      BY <1>3, <3>1, <3>2, <3>3, <3>4, <3>5, <3>6 DEF ThreadStep, ParseUrl, Find, Match, PCs
  <2> QED
    BY <2>3, <2>4, <2>7, <2>9 DEF CallInv
<1> QED
  BY <1>1, <1>2, <1>3 DEF Next, ThreadStep, Finished

LEMMA CallInvariant == Spec => []CallInv
<1>1. Init => CallInv
  BY DEF Init, CallInv, Called, Using
<1>2. OwnerTypes /\ ThreadTypes /\ CallInv /\ [Next]_vars => CallInv'
  BY CallStep, RouterAssumption
<1> QED
  BY <1>1, <1>2, TypesKept, RouterAssumption, PTL DEF Spec

(* The parameters a callback is given are those of its own url: with them  *)
(* in the place of the ids the registered path is the one received, and no *)
(* other id has a value; whatever other threads search or register.        *)
THEOREM ParametersCorrect == Spec => []ParametersRight
<1>1. RouterAssumption /\ OwnerTypes /\ ThreadTypes /\ CallInv => ParametersRight
  <2> SUFFICES ASSUME RouterAssumption, OwnerTypes, ThreadTypes, CallInv,
                      NEW t \in Threads, pc[t] = "callback"
               PROVE  LET registered == Registered(t).path
                          Ids        == {i \in DOMAIN registered : registered[i] \in Params}
                      IN  /\ (\A i, j \in Ids : registered[i] = registered[j] => i = j) =>
                               GetPath(t) = [i \in DOMAIN registered |->
                                               IF i \in Ids THEN GetParameter(t, registered[i])
                                                            ELSE registered[i]]
                          /\ \A id \in Params : GetParameter(t, id) # Empty =>
                               \E i \in Ids : registered[i] = id /\ GetPath(t)[i] = GetParameter(t, id)
    BY DEF ParametersRight
  <2> DEFINE path     == requests[request[t].type][found[t]]
             received == url[t]
             given    == ExtractParameters(received, [path |-> path])
  <2>1. request[t] \in Requests /\ found[t] \in DOMAIN requests[request[t].type]
    BY DEF ThreadTypes, Using
  <2>2. IsPath(path) /\ IsPath(request[t].url.path)
    BY <2>1 DEF OwnerTypes, RouterAssumption
  <2>3. /\ url[t] = Parse(request[t].url) /\ Matching(received, [path |-> path])
        /\ params[t] = given
    BY DEF CallInv, Called, Using, Registered
  <2>4. IsPath(received.path)
    BY <2>2, <2>3 DEF Parse
  <2>5. Registered(t).path = path /\ GetPath(t) = received.path
    BY DEF Registered, GetPath
  <2> HIDE DEF path, received
  <2>6. Table!Fits(received.path, path)
    BY <2>2, <2>3, <2>4, MatchingFits
  <2>7. /\ Len(received.path) = Len(path)
        /\ \A i \in DOMAIN path : i \notin IdPlaces(path) => received.path[i] = path[i]
    BY <2>2, <2>4, <2>6 DEF Table!Fits, IsPath, IdPlaces
  <2>8. /\ \A i \in IdPlaces(path) : path[i] \in DOMAIN given
        /\ \A id \in DOMAIN given :
             \E i \in IdPlaces(path) : path[i] = id /\ given[id] = received.path[i]
    BY <2>2, <2>4, <2>7, Extracted
  <2> HIDE DEF given
  <2>9. ASSUME \A i, j \in IdPlaces(path) : path[i] = path[j] => i = j
        PROVE  received.path = [i \in DOMAIN path |->
                                  IF i \in IdPlaces(path) THEN GetParameter(t, path[i]) ELSE path[i]]
    <3>1. \A i \in IdPlaces(path) : GetParameter(t, path[i]) = received.path[i]
      BY <2>3, <2>8, <2>9 DEF GetParameter
    <3>2. received.path = [i \in DOMAIN path |-> received.path[i]]
      BY <2>2, <2>4, <2>7 DEF IsPath
    <3> QED
      BY <2>7, <3>1, <3>2
  <2>10. ASSUME NEW id \in Params, GetParameter(t, id) # Empty
         PROVE  \E i \in IdPlaces(path) : path[i] = id /\ received.path[i] = GetParameter(t, id)
    BY <2>3, <2>8, <2>10 DEF GetParameter
  <2> QED
    BY <2>5, <2>9, <2>10 DEF IdPlaces
<1> QED
  BY <1>1, TypesKept, CallInvariant, RouterAssumption, PTL

(* The query a callback is given has no entry, but the empty one, that is  *)
(* not a pair of its own request's url.                                    *)
THEOREM QueryFromRequest == Spec => []QueryInventsNothing
<1>1. RouterAssumption /\ ThreadTypes /\ CallInv => QueryInventsNothing
  <2> SUFFICES ASSUME RouterAssumption, ThreadTypes, CallInv,
                      NEW t \in Threads, pc[t] = "callback",
                      NEW v \in DOMAIN GetQuery(t) \ {Empty}
               PROVE  \E i \in DOMAIN request[t].url.query :
                        request[t].url.query[i] \in {<<GetQuery(t)[v], v>>, <<v, GetQuery(t)[v]>>}
    BY DEF QueryInventsNothing
  <2>1. IsQuery(request[t].url.query)
    BY DEF ThreadTypes, RouterAssumption
  <2>2. GetQuery(t) = ParseQuery(request[t].url.query)
    BY DEF CallInv, Called, Using, GetQuery, Parse
  <2> QED
    BY <2>1, <2>2, QueryPairs
<1> QED
  BY <1>1, TypesKept, CallInvariant, RouterAssumption, PTL
=============================================================================
