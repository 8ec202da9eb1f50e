----------------------------- MODULE RouteTable ------------------------------
(***************************************************************************)
(* What dispatch promises (restful.hpp): urls are registered for a request *)
(* type, and a request is decided at one moment by what is registered at   *)
(* that moment.  The first url registered for its type serves it that      *)
(* turns into its path when words take the place of the parameters; if     *)
(* there is none the request is refused.                                   *)
(***************************************************************************)
EXTENDS Naturals, Sequences

CONSTANTS Types, Paths, Params, Threads, Requests, NoRequest

VARIABLES
  table,   \* the paths registered for each type, in order of registration
  request, \* the request each thread serves
  outcome  \* what is decided on it: <<>>, <<index>> or <<"status", code>>

vars == <<table, request, outcome>>

Fits(path, registered) ==
  /\ Len(path) = Len(registered)
  /\ \A i \in DOMAIN path : registered[i] \in Params \/ path[i] = registered[i]

Decision(r) ==
  LET routes  == table[r.type]
      fitting == {i \in DOMAIN routes : Fits(r.url.path, routes[i])}
  IN  CASE ~r.url.valid -> <<"status", 400>>
        [] r.url.valid /\ fitting # {} ->
             <<CHOOSE i \in fitting : \A j \in fitting : i <= j>>
        [] OTHER ->
             IF routes = <<>> /\ r.type \notin {"GET", "POST", "PUT", "DELETE", "PATCH"}
             THEN <<"status", 501>> ELSE <<"status", 404>>

Init ==
  /\ table = [m \in Types |-> <<>>]
  /\ request = [t \in Threads |-> NoRequest]
  /\ outcome = [t \in Threads |-> <<>>]

Add ==
  /\ \E m \in Types, p \in Paths : table' = [table EXCEPT ![m] = Append(@, p)]
  /\ UNCHANGED <<request, outcome>>

Receive(t) ==
  /\ request[t] = NoRequest
  /\ \E r \in Requests : request' = [request EXCEPT ![t] = r]
  /\ UNCHANGED <<table, outcome>>

Decide(t) ==
  /\ request[t] # NoRequest
  /\ outcome[t] = <<>>
  /\ outcome' = [outcome EXCEPT ![t] = Decision(request[t])]
  /\ UNCHANGED <<table, request>>

Next == Add \/ \E t \in Threads : Receive(t) \/ Decide(t)

Spec == Init /\ [][Next]_vars
=============================================================================
