---------------------------- MODULE RestService -----------------------------
(***************************************************************************)
(* What the documentation of RestServer promises of a connection           *)
(* (server.hpp): a running service accepts it, its handler is called, and  *)
(* the connection is closed when the handler has ended, once and for all.  *)
(***************************************************************************)
CONSTANT Conns

VARIABLES
  running,  \* the service is started, or being started or stopped
  life      \* the life of each connection

vars == <<running, life>>

Init ==
  /\ running = FALSE
  /\ life = [c \in Conns |-> "absent"]

Switch ==
  /\ running' = ~running
  /\ UNCHANGED life

Step(c, from, to) ==
  /\ life[c] = from
  /\ life' = [life EXCEPT ![c] = to]
  /\ UNCHANGED running

Accept(c) == running /\ Step(c, "absent", "open")
Answer(c) == Step(c, "open", "answered")
Close(c)  == Step(c, "answered", "closed")

Next == Switch \/ \E c \in Conns : Accept(c) \/ Answer(c) \/ Close(c)

Spec == Init /\ [][Next]_vars
=============================================================================
