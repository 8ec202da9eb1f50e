----------------------------- MODULE RestServer -----------------------------
(***************************************************************************)
(* The server core of SimpleREST: RestServer (server.hpp, server.cpp)      *)
(* owned by an InterfaceProvider (restful.hpp).  Three kinds of threads    *)
(* run against one server object:                                          *)
(*                                                                         *)
(*   - the owner's thread calls start(), stop() and finally the            *)
(*     destructor, one call after the other;                               *)
(*   - the accepting thread, created by start() and joined by stop();      *)
(*   - one detached thread for each accepted connection.                   *)
(*                                                                         *)
(* An action is a piece of one thread's code with no access to shared      *)
(* state in its middle; a critical section under memberLock_ is one        *)
(* action.  A behaviour ends at the first undefined behaviour or           *)
(* std::terminate, which is recorded in fault: nothing can be said of a    *)
(* program beyond that point.                                              *)
(***************************************************************************)
EXTENDS Naturals

CONSTANTS
  Conns,            \* the connections clients may open, each used once
  NoConn,           \* no connection
  IdMod,            \* number of values of the 64 bit id counter (2^64)
  MaxStarts,        \* bound: calls of start()
  MaxFailures,      \* bound: accepts that fail while the acceptor is open
  CloseWakesAccept, \* closing the acceptor makes a blocked accept return
                    \* (closesocket on Windows; not close() on Linux)
  RebindWhileBound, \* a second socket may bind the port of an open acceptor
                    \* (SO_REUSEADDR on Windows; not on Linux)
  ThreadsMayFail,   \* creating a std::thread may throw std::system_error
  OwnerCare         \* what the owner waits for before it destroys the server

ASSUME ServerAssumption ==
  /\ NoConn \notin Conns /\ IdMod \in Nat \ {0} /\ MaxStarts \in Nat
  /\ MaxFailures \in Nat /\ CloseWakesAccept \in BOOLEAN
  /\ RebindWhileBound \in BOOLEAN /\ ThreadsMayFail \in BOOLEAN
  /\ OwnerCare \in {"none", "threads"}

VARIABLES
  owner,        \* where the owner's thread is
  caller,       \* the call in which stop() runs: start, stop or dtor
  object,       \* which members of the InterfaceProvider still exist
  acceptor,     \* acceptor_: "null" or "bound"
  listening,    \* listening_
  loop,         \* where the accepting thread is; "none": not joinable
  current,      \* the loop's local shared_ptr after a successful accept
  idIncrement,  \* idIncrement_
  shared,       \* history: an id was given out that a served connection bears
  id,           \* id_ of each RestConnection
  thread,       \* where the thread of each connection is
  connections,  \* connections_: id -> connection, NoConn where absent
  kept,         \* connections a callback stored a Response or Request of
  fault,        \* the undefined behaviour or termination that ended the run
  restarted,    \* history: the last start() found the server running
  starts,       \* counts calls of start(), for the bound
  failures      \* counts failed accepts, for the bound

ownerVars  == <<owner, caller, object, restarted, starts>>
serverVars == <<acceptor, listening>>
loopVars   == <<loop, current, idIncrement, shared, failures>>
connVars   == <<id, thread, connections, kept>>
vars       == <<ownerVars, serverVars, loopVars, connVars, fault>>

Ids == 0 .. IdMod - 1

OwnerStates == {"idle", "reset", "unlisten", "join", "listen", "spawn",
                "destroy", "gone"}
LoopStates  == {"none", "test", "deref", "accept", "accept_closed",
                "register", "spawn", "drop", "returned"}
(* "accepted": the connection exists, its thread does not yet. *)
ThreadStates == {"absent", "accepted", "head", "dispatch", "callback",
                 "error", "free", "exit", "done"}
Faults == {"none", "null_acceptor", "dead_acceptor", "dead_requests",
           "dead_server", "terminate"}

Init ==
  /\ owner = "idle" /\ caller = "start" /\ object = "alive"
  /\ acceptor = "null" /\ listening = FALSE /\ loop = "none"
  /\ current = NoConn /\ idIncrement = 0 /\ shared = FALSE
  /\ id = [c \in Conns |-> 0] /\ thread = [c \in Conns |-> "absent"]
  /\ connections = [i \in Ids |-> NoConn] /\ kept = {} /\ fault = "none"
  /\ restarted = FALSE /\ starts = 0 /\ failures = 0

Running  == fault = "none"
Joinable == loop # "none"

(* The connection's thread exists and has not given its entry back. *)
Serving(c) ==
  thread[c] \in {"head", "dispatch", "callback", "error", "free"}

(* The run ends here: k happens and no thread takes another step. *)
Fail(k) ==
  /\ fault' = k
  /\ UNCHANGED <<ownerVars, serverVars, loopVars, connVars>>

(* Mutant of NextId: a counter wider than the id. *)
NextIdUnbounded(i) == i + 1

(* The increment of an unsigned 64 bit counter. *)
NextId(i) == IF i + 1 = IdMod THEN 0 ELSE i + 1

(* Destroying the acceptor closes its socket under a blocked accept. *)
CloseUnder(pc) == IF pc = "accept" THEN "accept_closed" ELSE pc

-----------------------------------------------------------------------------
(* The owner's thread: start(). *)

(* acceptor_.reset(new acceptor): the new socket is bound before the test  *)
(* whether the server already runs; reset then destroys the old acceptor.  *)
BindAcceptor ==
  /\ Running /\ owner = "idle" /\ starts < MaxStarts
  /\ acceptor = "null" \/ RebindWhileBound
  /\ starts' = starts + 1 /\ acceptor' = "bound" /\ loop' = CloseUnder(loop)
  /\ caller' = "start" /\ restarted' = Joinable
  /\ owner' = IF Joinable THEN "reset" ELSE "listen"
  /\ UNCHANGED <<object, listening, current, idIncrement, shared,
                 failures, connVars, fault>>

(* The acceptor's constructor throws: start() leaves everything as it was. *)
BindFails ==
  /\ Running /\ owner = "idle" /\ starts < MaxStarts /\ starts' = starts + 1
  /\ UNCHANGED <<owner, caller, object, restarted, serverVars, loopVars,
                 connVars, fault>>

SetListening ==
  /\ Running /\ owner = "listen" /\ listening' = TRUE /\ owner' = "spawn"
  /\ UNCHANGED <<caller, object, restarted, starts, acceptor, loopVars,
                 connVars, fault>>

StartLoop ==
  /\ Running /\ owner = "spawn" /\ loop' = "test" /\ owner' = "idle"
  /\ UNCHANGED <<caller, object, restarted, starts, serverVars, current,
                 idIncrement, shared, failures, connVars, fault>>

(* std::thread throws out of start(), after the flag was set. *)
StartLoopFails ==
  /\ Running /\ ThreadsMayFail /\ owner = "spawn" /\ owner' = "idle"
  /\ UNCHANGED <<caller, object, restarted, starts, serverVars, loopVars,
                 connVars, fault>>

-----------------------------------------------------------------------------
(* The owner's thread: stop(), called by the user, by start() or by the    *)
(* destructor.                                                             *)

CallStop ==
  /\ Running /\ owner = "idle" /\ caller' = "stop" /\ owner' = "reset"
  /\ UNCHANGED <<object, restarted, starts, serverVars, loopVars, connVars,
                 fault>>

(* Mutant of ResetAcceptor: the acceptor is left open until after join. *)
ResetNothing ==
  /\ Running /\ owner = "reset" /\ owner' = "unlisten"
  /\ UNCHANGED <<caller, object, restarted, starts, serverVars, loopVars,
                 connVars, fault>>

ResetAcceptor ==
  /\ Running /\ owner = "reset" /\ acceptor' = "null"
  /\ loop' = CloseUnder(loop) /\ owner' = "unlisten"
  /\ UNCHANGED <<caller, object, restarted, starts, listening, current,
                 idIncrement, shared, failures, connVars, fault>>

(* Mutant of ClearListening: the flag is forgotten. *)
ClearNothing ==
  /\ Running /\ owner = "unlisten" /\ owner' = "join"
  /\ UNCHANGED <<caller, object, restarted, starts, serverVars, loopVars,
                 connVars, fault>>

ClearListening ==
  /\ Running /\ owner = "unlisten" /\ listening' = FALSE /\ owner' = "join"
  /\ UNCHANGED <<caller, object, restarted, starts, acceptor, loopVars,
                 connVars, fault>>

(* Where the owner goes on when stop() returns. *)
AfterStop ==
  CASE caller = "start" -> "listen"
    [] caller = "stop"  -> "idle"
    [] caller = "dtor"  -> "destroy"

(* Mutant of Join: the accepting thread is left to itself. *)
JoinNothing ==
  /\ Running /\ owner = "join" /\ owner' = AfterStop
  /\ UNCHANGED <<caller, object, restarted, starts, serverVars, loopVars,
                 connVars, fault>>

(* if joinable, join: waits until the accepting thread has returned. *)
Join ==
  /\ Running /\ owner = "join" /\ loop \in {"none", "returned"}
  /\ loop' = "none" /\ owner' = AfterStop
  /\ UNCHANGED <<caller, object, restarted, starts, serverVars, current,
                 idIncrement, shared, failures, connVars, fault>>

-----------------------------------------------------------------------------
(* The owner's thread: the destructor. *)

(* What the owner has waited for since it called stop(): nothing, or the   *)
(* end of the connections' threads, which no function of the library tells *)
(* (a callback that tells it is about to return is not enough).            *)
OwnerReady ==
  OwnerCare = "threads" =>
    ~listening /\ \A c \in Conns : thread[c] \in {"absent", "done"}

(* Members are destroyed in reverse order of declaration: requests_ goes   *)
(* first, then server_, whose destructor stops a running server.           *)
DestroyRequests ==
  /\ Running /\ owner = "idle" /\ OwnerReady /\ object' = "requests_gone"
  /\ caller' = "dtor"
  /\ owner' = IF Joinable THEN "reset" ELSE "destroy"
  /\ UNCHANGED <<restarted, starts, serverVars, loopVars, connVars, fault>>

(* connections_ drops its shared_ptrs; the detached threads keep theirs. *)
DestroyServer ==
  /\ Running /\ owner = "destroy" /\ object' = "destroyed"
  /\ acceptor' = "null" /\ connections' = [i \in Ids |-> NoConn]
  /\ owner' = "gone"
  /\ UNCHANGED <<caller, restarted, starts, listening, loopVars, id, thread,
                 kept, fault>>

-----------------------------------------------------------------------------
(* The accepting thread. *)

(* One more round: take the next id and create a RestConnection with it. *)
BeginRound ==
  /\ Running /\ loop = "test" /\ listening
  /\ idIncrement' = NextId(idIncrement)
  /\ loop' = "deref"
  /\ UNCHANGED <<ownerVars, serverVars, current, shared, failures, connVars,
                 fault>>

LeaveLoop ==
  /\ Running /\ loop = "test" /\ ~listening /\ loop' = "returned"
  /\ UNCHANGED <<ownerVars, serverVars, current, idIncrement, shared,
                 failures, connVars, fault>>

EnterAccept ==
  /\ Running /\ loop = "deref" /\ acceptor = "bound" /\ loop' = "accept"
  /\ UNCHANGED <<ownerVars, serverVars, current, idIncrement, shared,
                 failures, connVars, fault>>

(* acceptor_->accept(...) on the unique_ptr that stop() has emptied. *)
DerefNull ==
  /\ Running /\ loop = "deref" /\ acceptor = "null" /\ Fail("null_acceptor")

(* The error_code of accept is clear; the endpoint is stored.  A blocked   *)
(* accept may have taken the connection just before its socket was closed, *)
(* and takes one at any time where closing does not wake it.               *)
AcceptOk(c) ==
  /\ Running /\ loop \in {"accept", "accept_closed"}
  /\ thread[c] = "absent" /\ thread' = [thread EXCEPT ![c] = "accepted"]
  /\ id' = [id EXCEPT ![c] = idIncrement] /\ current' = c
  /\ shared' = (shared \/ \E d \in Conns : Serving(d) /\ id[d] = idIncrement)
  /\ loop' = "register"
  /\ UNCHANGED <<ownerVars, serverVars, idIncrement, failures, connections,
                 kept, fault>>

(* accept goes on inside an acceptor that start() or stop() has destroyed  *)
(* under it: the lucky outcomes are the neighbouring actions.              *)
AcceptDead ==
  /\ Running /\ loop = "accept_closed" /\ Fail("dead_acceptor")
  /\ CloseWakesAccept \/ \E c \in Conns : thread[c] = "absent"

(* accept fails by itself: aborted connection, no descriptor left. *)
AcceptError ==
  /\ Running /\ loop \in {"accept", "accept_closed"} /\ failures < MaxFailures
  /\ failures' = failures + 1 /\ loop' = "test"
  /\ UNCHANGED <<ownerVars, serverVars, current, idIncrement, shared,
                 connVars, fault>>

(* accept fails because its socket was closed. *)
AcceptWoken ==
  /\ Running /\ loop = "accept_closed" /\ CloseWakesAccept /\ loop' = "test"
  /\ UNCHANGED <<ownerVars, serverVars, current, idIncrement, shared,
                 failures, connVars, fault>>

(* Under memberLock_; insert does nothing when the id is taken. *)
Register ==
  /\ Running /\ loop = "register"
  /\ connections' =
       IF connections[id[current]] = NoConn
       THEN [connections EXCEPT ![id[current]] = current]
       ELSE connections
  /\ loop' = "spawn"
  /\ UNCHANGED <<ownerVars, serverVars, current, idIncrement, shared,
                 failures, id, thread, kept, fault>>

Spawn ==
  /\ Running /\ loop = "spawn"
  /\ thread' = [thread EXCEPT ![current] = "head"] /\ loop' = "drop"
  /\ UNCHANGED <<ownerVars, serverVars, current, idIncrement, shared,
                 failures, id, connections, kept, fault>>

(* std::thread throws in the accepting thread, which catches nothing. *)
SpawnFails ==
  /\ Running /\ ThreadsMayFail /\ loop = "spawn" /\ Fail("terminate")

(* The round ends and with it the loop's shared_ptr. *)
DropLocal ==
  /\ Running /\ loop = "drop" /\ current' = NoConn /\ loop' = "test"
  /\ UNCHANGED <<ownerVars, serverVars, idIncrement, shared, failures,
                 connVars, fault>>

-----------------------------------------------------------------------------
(* The thread of a connection. *)

ThreadGoes(c, from, to) ==
  /\ thread[c] = from /\ thread' = [thread EXCEPT ![c] = to]

(* readHead() returns, or throws InvalidRequest. *)
ReadHead(c) ==
  /\ Running
  /\ \/ ThreadGoes(c, "head", "dispatch")
     \/ ThreadGoes(c, "head", "error")
  /\ UNCHANGED <<ownerVars, serverVars, loopVars, id, connections, kept, fault>>

(* handler_ is InterfaceProvider::connectionHandler.  It answers 400 to a  *)
(* url that does not parse, before it looks at requests_.                  *)
RejectUrl(c) ==
  /\ Running /\ object # "destroyed" /\ ThreadGoes(c, "dispatch", "free")
  /\ UNCHANGED <<ownerVars, serverVars, loopVars, id, connections, kept, fault>>

(* It finds a callback in requests_, or answers 404 or 501 itself. *)
Dispatch(c) ==
  /\ Running /\ object = "alive"
  /\ \/ ThreadGoes(c, "dispatch", "callback")
     \/ ThreadGoes(c, "dispatch", "free")
  /\ UNCHANGED <<ownerVars, serverVars, loopVars, id, connections, kept, fault>>

(* handler_ or requests_ is used after its destruction. *)
DispatchDead(c) ==
  /\ Running /\ thread[c] = "dispatch"
  /\ \/ object = "requests_gone" /\ Fail("dead_requests")
     \/ object = "destroyed" /\ Fail("dead_server")

(* The callback copies its Request or Response to a longer lived place. *)
CallbackKeeps(c) ==
  /\ Running /\ thread[c] = "callback" /\ kept' = kept \union {c}
  /\ UNCHANGED <<ownerVars, serverVars, loopVars, id, thread, connections, fault>>

(* The callback returns, or lets an InvalidRequest out. *)
CallbackEnds(c) ==
  /\ Running
  /\ \/ ThreadGoes(c, "callback", "free")
     \/ ThreadGoes(c, "callback", "error")
  /\ UNCHANGED <<ownerVars, serverVars, loopVars, id, connections, kept, fault>>

(* Any other exception, sendFile's runtime_error for one. *)
CallbackThrows(c) ==
  /\ Running /\ thread[c] = "callback" /\ Fail("terminate")

ErrorHandler(c) ==
  /\ Running /\ object # "destroyed" /\ ThreadGoes(c, "error", "free")
  /\ UNCHANGED <<ownerVars, serverVars, loopVars, id, connections, kept, fault>>

(* Mutants of Free: no entry is erased; the newest id's entry is erased. *)
FreeErasesNothing(c) ==
  /\ Running /\ object # "destroyed" /\ ThreadGoes(c, "free", "exit")
  /\ UNCHANGED <<ownerVars, serverVars, loopVars, id, connections, kept, fault>>

FreeErasesNewest(c) ==
  /\ Running /\ object # "destroyed" /\ ThreadGoes(c, "free", "exit")
  /\ connections' = [connections EXCEPT ![idIncrement] = NoConn]
  /\ UNCHANGED <<ownerVars, serverVars, loopVars, id, kept, fault>>

(* free() -> deregisterClient: under memberLock_, erase the entry of the id. *)
Free(c) ==
  /\ Running /\ object # "destroyed" /\ ThreadGoes(c, "free", "exit")
  /\ connections' = [connections EXCEPT ![id[c]] = NoConn]
  /\ UNCHANGED <<ownerVars, serverVars, loopVars, id, kept, fault>>

(* errorHandler_, or memberLock_ and connections_, used after destruction. *)
ServerDead(c) ==
  /\ Running /\ object = "destroyed" /\ thread[c] \in {"error", "free"}
  /\ Fail("dead_server")

(* The lambda is destroyed and with it the thread's shared_ptr. *)
ThreadExit(c) ==
  /\ Running /\ ThreadGoes(c, "exit", "done")
  /\ UNCHANGED <<ownerVars, serverVars, loopVars, id, connections, kept, fault>>

(* The user drops what the callback has kept. *)
UserDrops(c) ==
  /\ Running /\ c \in kept /\ kept' = kept \ {c}
  /\ UNCHANGED <<ownerVars, serverVars, loopVars, id, thread, connections, fault>>

-----------------------------------------------------------------------------
(* The run is over: a fault, or the server is gone and nothing is left. *)
Halted ==
  /\ \/ ~Running
     \/ /\ owner = "gone"
        /\ \A c \in Conns : thread[c] \in {"absent", "done"}
  /\ UNCHANGED vars

(* What the owner's thread does inside a call. *)
OwnerStep ==
  \/ SetListening \/ StartLoop \/ StartLoopFails
  \/ ResetAcceptor \/ ClearListening \/ Join
  \/ DestroyServer

(* What the accepting thread does without waiting for a client. *)
LoopStep ==
  \/ BeginRound \/ LeaveLoop \/ EnterAccept \/ DerefNull \/ AcceptWoken
  \/ Register \/ Spawn \/ SpawnFails \/ DropLocal

(* What a connection's thread does without waiting for client or callback. *)
ThreadStep(c) ==
  \/ RejectUrl(c) \/ Dispatch(c) \/ DispatchDead(c)
  \/ ErrorHandler(c) \/ Free(c) \/ ServerDead(c)
  \/ ThreadExit(c)

(* Calls of the owner, clients, callbacks: they may come, or never. *)
Environment ==
  \/ BindAcceptor \/ BindFails \/ CallStop \/ DestroyRequests
  \/ AcceptError \/ AcceptDead
  \/ \E c \in Conns :
       \/ AcceptOk(c) \/ ReadHead(c)
       \/ CallbackKeeps(c) \/ CallbackEnds(c) \/ CallbackThrows(c)
       \/ UserDrops(c)

Next ==
  \/ OwnerStep
  \/ LoopStep
  \/ \E c \in Conns : ThreadStep(c)
  \/ Environment
  \/ Halted

(* The scheduler runs every thread that is not blocked. *)
Fairness ==
  /\ WF_vars(OwnerStep) /\ WF_vars(LoopStep)
  /\ \A c \in Conns : WF_vars(ThreadStep(c))

Spec     == Init /\ [][Next]_vars
FairSpec == Spec /\ Fairness
-----------------------------------------------------------------------------
(* Properties. *)

TypeOK ==
  /\ owner \in OwnerStates /\ caller \in {"start", "stop", "dtor"}
  /\ object \in {"alive", "requests_gone", "destroyed"}
  /\ acceptor \in {"null", "bound"} /\ listening \in BOOLEAN
  /\ loop \in LoopStates /\ current \in Conns \union {NoConn}
  /\ idIncrement \in Ids /\ shared \in BOOLEAN /\ id \in [Conns -> Ids]
  /\ thread \in [Conns -> ThreadStates]
  /\ connections \in [Ids -> Conns \union {NoConn}] /\ kept \subseteq Conns
  /\ fault \in Faults /\ restarted \in BOOLEAN /\ starts \in 0 .. MaxStarts
  /\ failures \in 0 .. MaxFailures

(* Somebody holds a shared_ptr to the connection: its socket is open.      *)
ThreadHolds(c) == Serving(c) \/ thread[c] = "exit"
Open(c) ==
  \/ current = c
  \/ ThreadHolds(c)
  \/ c \in kept
  \/ \E i \in Ids : connections[i] = c

(* connections_ leaks nothing: an entry belongs to a connection that bears *)
(* its id and whose thread is yet to call free(), even after the id        *)
(* counter has wrapped around and two connections have shared an id.  The  *)
(* accepting thread inserts, the connection's thread erases.               *)
RegistrySound ==
  \A i \in Ids : \A c \in Conns :
    connections[i] = c => id[c] = i /\ (Serving(c) \/ thread[c] = "accepted")

(* "all currently connected peers": every connection that is being served  *)
(* is in connections_, whatever other connections come, end or fail        *)
(* meanwhile, and also after the id counter has wrapped around, as long as *)
(* no accept was given an id that a connection still being served bears.   *)
LiveRegistered ==
  ~shared /\ object # "destroyed" =>
    \A c \in Conns : Serving(c) => connections[id[c]] = c

(* "listening flag = server is bound?": outside the calls of start() and   *)
(* stop(), a listening server has an acceptor for its loop to use.         *)
ListeningIsBound == owner = "idle" /\ listening => acceptor = "bound"

(* What is left of it: only a start() that found the server running, and   *)
(* so stopped it after binding the new acceptor, leaves the flag set and   *)
(* acceptor_ empty.  No stop(), failed bind, failed thread or failed       *)
(* accept does, in whatever order they come.                               *)
UnboundOnlyByRestart ==
  owner = "idle" /\ listening /\ acceptor = "null" => restarted

(* The accepting thread meets the emptied acceptor_ in the window stop()   *)
(* opens between emptying the acceptor and joining the thread, and         *)
(* otherwise only after a start() that found the server running.           *)
NullOnlyInStop ==
  fault = "null_acceptor" => owner \in {"unlisten", "join"} \/ restarted

(* An owner that lets every connection's thread end before it destroys the *)
(* server is safe: no thread uses handler_, requests_, memberLock_ or      *)
(* connections_ after their destruction.                                   *)
DestroySafe ==
  OwnerCare = "threads" => fault \notin {"dead_requests", "dead_server"}

(* What the same statements claim with no condition on the owner; what the *)
(* comments of the code say of stop() and of the destructor.               *)
StopIsGraceful    == fault # "null_acceptor"
DestroyIsGraceful == fault # "dead_requests"

(* The abstract service: connections are accepted only between start() and *)
(* the end of stop(), and closed only once their handler has ended.        *)
Life(c) ==
  CASE thread[c] = "absent" -> "absent"
    [] thread[c] # "absent" /\ ~Open(c) -> "closed"
    [] thread[c] \in {"free", "exit", "done"} /\ Open(c) -> "answered"
    [] OTHER -> "open"

Service == INSTANCE RestService WITH
  running <- owner # "gone" /\ (owner = "idle" => listening),
  life    <- [c \in Conns |-> Life(c)]

ServiceSpec == Service!Spec

(* stop() returns: the accepting thread leaves its loop and is joined.     *)
StopReturns == owner = "reset" ~> (owner \notin {"reset", "unlisten", "join"} \/ ~Running)

(* "The connection is automatically closed when the function ends": unless *)
(* the callback kept the connection, its last shared_ptr goes soon after   *)
(* the handler, and the socket closes.                                     *)
ClosedAfterHandler ==
  \A c \in Conns :
    thread[c] = "free" /\ c \notin kept ~> ~Open(c) \/ ~Running
-----------------------------------------------------------------------------
(* Inductive strengthenings of the invariants above. *)

(* Where the owner stands tells whether there is an accepting thread, and  *)
(* what is left of the server object.                                      *)
OwnerInv ==
  /\ owner \in {"listen", "spawn", "destroy", "gone"} => loop = "none"
  /\ owner = "idle" /\ ~listening => loop = "none"
  /\ owner = "join" => ~listening
  /\ owner = "spawn" => listening
  /\ object = "alive" <=> caller # "dtor"
  /\ owner \in {"idle", "listen", "spawn"} => object = "alive"
  /\ owner \in {"destroy", "gone"} => caller = "dtor"
  /\ object = "destroyed" <=> owner = "gone"

(* acceptor_ is empty only while nobody can accept, or start() has stopped *)
(* a running server after it had bound the new acceptor.                   *)
AcceptorInv ==
  /\ UnboundOnlyByRestart
  /\ owner \in {"listen", "spawn"} => acceptor = "bound" \/ restarted
  /\ owner \in {"reset", "unlisten", "join"} /\ caller = "start" => restarted
  /\ owner = "reset" /\ acceptor = "null" => loop = "none" \/ restarted
  /\ NullOnlyInStop

(* Destruction begins when every thread has ended, and none starts again.  *)
CareInv ==
  /\ object # "alive" =>
       loop = "none" /\ \A c \in Conns : thread[c] \in {"absent", "done"}
  /\ fault \notin {"dead_requests", "dead_server"}

(* At most one connection waits for its thread: the loop's current one. It *)
(* is not in connections_ before Register.                                 *)
RegistryInv ==
  /\ RegistrySound
  /\ \A c \in Conns : thread[c] = "accepted" =>
       current = c /\ loop \in {"register", "spawn"}
  /\ loop \in {"register", "spawn"} =>
       current \in Conns /\ thread[current] = "accepted"
  /\ loop = "register" => \A i \in Ids : connections[i] # current

(* The loop's shared_ptr is set from accept to the end of the round. *)
LoopInv == loop \in {"register", "spawn", "drop"} <=> current # NoConn

(* As long as no id has been shared, the connections that are being served *)
(* or wait for their thread bear distinct ids, and each has its entry.     *)
Live(c) == Serving(c) \/ thread[c] = "accepted"

LiveInv ==
  ~shared =>
    /\ \A c, d \in Conns : Live(c) /\ Live(d) /\ c # d => id[c] # id[d]
    /\ loop = "spawn" => connections[id[current]] = current
    /\ object # "destroyed" =>
         \A c \in Conns : Serving(c) => connections[id[c]] = c
=============================================================================
