-------------------------- MODULE RestServerProofs --------------------------
(* Theorems about RestServer, for every value of its constants. *)
EXTENDS RestServer, TLAPS

(* Every step is one of these; the proofs below go through them one by one. *)
LEMMA NextCases ==
  ASSUME [Next]_vars
  PROVE  \/ BindAcceptor \/ BindFails \/ SetListening \/ StartLoop
         \/ StartLoopFails \/ CallStop \/ ResetAcceptor \/ ClearListening
         \/ Join \/ DestroyRequests \/ DestroyServer
         \/ BeginRound \/ LeaveLoop \/ EnterAccept
         \/ AcceptError \/ AcceptWoken \/ Register \/ Spawn \/ DropLocal
         \/ DerefNull \/ \E k \in Faults \ {"null_acceptor"} : Fail(k)
         \/ \E c \in Conns :
              \/ AcceptOk(c) \/ ReadHead(c) \/ RejectUrl(c) \/ Dispatch(c)
              \/ CallbackKeeps(c) \/ CallbackEnds(c) \/ ErrorHandler(c)
              \/ Free(c) \/ ThreadExit(c) \/ UserDrops(c)
         \/ UNCHANGED vars
  BY DEF Next, OwnerStep, LoopStep, ThreadStep, Environment, Halted,
         AcceptDead, SpawnFails, DispatchDead, CallbackThrows, ServerDead,
         Faults

(* The variables keep their types; the id counter stays within its width. *)
THEOREM TypeCorrect == Spec => []TypeOK
<1> USE ServerAssumption DEF ServerAssumption, TypeOK, Ids
<1>1. Init => TypeOK
  <2> SUFFICES ASSUME Init PROVE TypeOK
    OBVIOUS
  <2>1. 0 \in Ids
    OBVIOUS
  <2>2. /\ id \in [Conns -> Ids]
        /\ thread \in [Conns -> ThreadStates]
        /\ connections \in [Ids -> Conns \union {NoConn}]
    BY <2>1 DEF Init, ThreadStates
  <2>3. /\ owner \in OwnerStates
        /\ loop \in LoopStates
        /\ fault \in Faults
    BY DEF Init, OwnerStates, LoopStates, Faults
  <2>4. listening \in BOOLEAN /\ restarted \in BOOLEAN /\ shared \in BOOLEAN
    BY DEF Init
  <2>5. starts \in 0 .. MaxStarts /\ failures \in 0 .. MaxFailures
    BY DEF Init
  <2>6. QED
    BY <2>1, <2>2, <2>3, <2>4, <2>5 DEF Init
<1>2. TypeOK /\ [Next]_vars => TypeOK'
  <2> SUFFICES ASSUME TypeOK, [Next]_vars
               PROVE  TypeOK'
    OBVIOUS
  <2> USE DEF ownerVars, serverVars, loopVars, connVars
  <2>1. CASE BindAcceptor
    BY <2>1 DEF BindAcceptor, CloseUnder, Joinable, OwnerStates, LoopStates
  <2>2. CASE BindFails
    BY <2>2 DEF BindFails
  <2>3. CASE SetListening
    BY <2>3 DEF SetListening, OwnerStates
  <2>4. CASE StartLoop
    BY <2>4 DEF StartLoop, OwnerStates, LoopStates
  <2>5. CASE StartLoopFails
    BY <2>5 DEF StartLoopFails, OwnerStates
  <2>6. CASE CallStop
    BY <2>6 DEF CallStop, OwnerStates
  <2>7. CASE ResetAcceptor
    BY <2>7 DEF ResetAcceptor, CloseUnder, OwnerStates, LoopStates
  <2>8. CASE ClearListening
    BY <2>8 DEF ClearListening, OwnerStates
  <2>9. CASE Join
    BY <2>9 DEF Join, AfterStop, OwnerStates, LoopStates
  <2>10. CASE DestroyRequests
    BY <2>10 DEF DestroyRequests, OwnerStates
  <2>11. CASE DestroyServer
    BY <2>11 DEF DestroyServer, OwnerStates
  <2>12. CASE BeginRound
    BY <2>12 DEF BeginRound, NextId, LoopStates
  <2>13. CASE LeaveLoop
    BY <2>13 DEF LeaveLoop, LoopStates
  <2>14. CASE EnterAccept
    BY <2>14 DEF EnterAccept, LoopStates
  <2>15. CASE AcceptError
    BY <2>15 DEF AcceptError, LoopStates
  <2>16. CASE AcceptWoken
    BY <2>16 DEF AcceptWoken, LoopStates
  <2>17. CASE Register
    BY <2>17 DEF Register, LoopStates
  <2>18. CASE Spawn
    BY <2>18 DEF Spawn, LoopStates, ThreadStates
  <2>19. CASE DropLocal
    BY <2>19 DEF DropLocal, LoopStates
  <2>20. ASSUME NEW k \in Faults, Fail(k)
         PROVE  TypeOK'
    BY <2>20 DEF Fail
  <2>20a. CASE DerefNull
    BY <2>20, <2>20a DEF DerefNull, Faults
  <2>21. ASSUME NEW c \in Conns, AcceptOk(c)
         PROVE  TypeOK'
    BY <2>21 DEF AcceptOk, LoopStates, ThreadStates
  <2>22. ASSUME NEW c \in Conns,
                \/ ReadHead(c) \/ RejectUrl(c) \/ Dispatch(c)
                \/ CallbackEnds(c) \/ ErrorHandler(c) \/ ThreadExit(c)
         PROVE  TypeOK'
    BY <2>22 DEF ReadHead, RejectUrl, Dispatch, CallbackEnds, ErrorHandler,
                 ThreadExit, ThreadGoes, ThreadStates
  <2>23. ASSUME NEW c \in Conns, Free(c)
         PROVE  TypeOK'
    BY <2>23 DEF Free, ThreadGoes, ThreadStates
  <2>24. ASSUME NEW c \in Conns, CallbackKeeps(c) \/ UserDrops(c)
         PROVE  TypeOK'
    BY <2>24 DEF CallbackKeeps, UserDrops
  <2>25. CASE UNCHANGED vars
    BY <2>25 DEF vars
  <2>26. QED
    BY NextCases, <2>1, <2>2, <2>3, <2>4, <2>5, <2>6, <2>7, <2>8, <2>9,
       <2>10, <2>11, <2>12, <2>13, <2>14, <2>15, <2>16, <2>17, <2>18, <2>19,
       <2>20, <2>20a, <2>21, <2>22, <2>23, <2>24, <2>25
<1>3. QED
  BY <1>1, <1>2, PTL DEF Spec

-----------------------------------------------------------------------------
(* What the steps of a group of actions leave alone. *)

(* A connection's thread touches neither the owner nor the accepting loop. *)
LEMMA ThreadFrame ==
  ASSUME NEW c \in Conns,
         \/ ReadHead(c) \/ RejectUrl(c) \/ Dispatch(c)
         \/ CallbackKeeps(c) \/ CallbackEnds(c) \/ ErrorHandler(c)
         \/ Free(c) \/ ThreadExit(c) \/ UserDrops(c)
  PROVE  UNCHANGED <<ownerVars, serverVars, loopVars, id, fault>>
  BY DEF ReadHead, RejectUrl, Dispatch, CallbackKeeps, CallbackEnds,
         ErrorHandler, Free, ThreadExit, UserDrops

(* Where the owner stands determines whether a loop runs and what of the   *)
(* server object is left: the control skeleton of start(), stop() and the  *)
(* destructor.                                                             *)
LEMMA OwnerInvariant == Spec => []OwnerInv
<1> USE DEF OwnerInv
<1>1. Init => OwnerInv
  BY DEF Init
<1>2. TypeOK /\ OwnerInv /\ [Next]_vars => OwnerInv'
  <2> SUFFICES ASSUME TypeOK, OwnerInv, [Next]_vars
               PROVE  OwnerInv'
    OBVIOUS
  <2> USE DEF ownerVars, serverVars, loopVars, connVars
  <2>1. CASE BindAcceptor
    BY <2>1 DEF BindAcceptor, CloseUnder, Joinable
  <2>2. CASE BindFails
    BY <2>2 DEF BindFails
  <2>3. CASE SetListening
    BY <2>3 DEF SetListening
  <2>4. CASE StartLoop
    BY <2>4 DEF StartLoop
  <2>5. CASE StartLoopFails
    BY <2>5 DEF StartLoopFails
  <2>6. CASE CallStop
    BY <2>6 DEF CallStop
  <2>7. CASE ResetAcceptor
    BY <2>7 DEF ResetAcceptor, CloseUnder
  <2>8. CASE ClearListening
    BY <2>8 DEF ClearListening
  <2>9. CASE Join
    BY <2>9 DEF Join, AfterStop, TypeOK
  <2>10. CASE DestroyRequests
    BY <2>10 DEF DestroyRequests, Joinable
  <2>11. CASE DestroyServer
    BY <2>11 DEF DestroyServer
  <2>12. CASE \/ BeginRound \/ LeaveLoop \/ EnterAccept
              \/ AcceptError \/ AcceptWoken
    BY <2>12 DEF BeginRound, LeaveLoop, EnterAccept, AcceptError, AcceptWoken
  <2>13. CASE Register \/ Spawn \/ DropLocal
    BY <2>13 DEF Register, Spawn, DropLocal
  <2>14. CASE DerefNull \/ \E k \in Faults \ {"null_acceptor"} : Fail(k)
    BY <2>14 DEF DerefNull, Fail
  <2>15. ASSUME NEW c \in Conns, AcceptOk(c)
         PROVE  OwnerInv'
    BY <2>15 DEF AcceptOk
  <2>16. ASSUME NEW c \in Conns,
                UNCHANGED <<ownerVars, serverVars, loopVars, id, fault>>
         PROVE  OwnerInv'
    BY <2>16
  <2>17. CASE UNCHANGED vars
    BY <2>17 DEF vars
  <2>18. QED
    BY NextCases, ThreadFrame, <2>1, <2>2, <2>3, <2>4, <2>5, <2>6, <2>7,
       <2>8, <2>9, <2>10, <2>11, <2>12, <2>13, <2>14, <2>15, <2>16, <2>17
<1>3. QED
  BY <1>1, <1>2, TypeCorrect, PTL DEF Spec

-----------------------------------------------------------------------------
LEMMA AcceptorInvariant == Spec => []AcceptorInv
<1> USE DEF AcceptorInv, UnboundOnlyByRestart, NullOnlyInStop
<1>1. Init => AcceptorInv
  BY DEF Init
<1>2. TypeOK /\ OwnerInv /\ AcceptorInv /\ [Next]_vars => AcceptorInv'
  <2> SUFFICES ASSUME TypeOK, OwnerInv, AcceptorInv, [Next]_vars
               PROVE  AcceptorInv'
    OBVIOUS
  <2> USE DEF ownerVars, serverVars, loopVars, connVars
  <2>1. CASE BindAcceptor
    (* The new acceptor is bound; stop() follows only if a loop runs. *)
    BY <2>1 DEF BindAcceptor, CloseUnder, Joinable, OwnerInv, Running
  <2>2. CASE BindFails
    BY <2>2 DEF BindFails
  <2>3. CASE SetListening
    BY <2>3 DEF SetListening, Running
  <2>4. CASE StartLoop
    BY <2>4 DEF StartLoop, Running
  <2>5. CASE StartLoopFails
    BY <2>5 DEF StartLoopFails, Running
  <2>6. CASE CallStop
    BY <2>6 DEF CallStop, OwnerInv, Running
  <2>7. CASE ResetAcceptor
    BY <2>7 DEF ResetAcceptor, Running
  <2>8. CASE ClearListening
    BY <2>8 DEF ClearListening, Running
  <2>9. CASE Join
    BY <2>9 DEF Join, AfterStop, OwnerInv, TypeOK, Running
  <2>10. CASE DestroyRequests
    BY <2>10 DEF DestroyRequests, OwnerInv, Joinable, Running
  <2>11. CASE DestroyServer
    BY <2>11 DEF DestroyServer, Running
  <2>12. CASE \/ BeginRound \/ LeaveLoop \/ EnterAccept
              \/ AcceptError \/ AcceptWoken
    BY <2>12 DEF BeginRound, LeaveLoop, EnterAccept, AcceptError, AcceptWoken
  <2>13. CASE Register \/ Spawn \/ DropLocal
    BY <2>13 DEF Register, Spawn, DropLocal
  <2>14. CASE DerefNull
    <3>1. owner \in {"unlisten", "join"} \/ restarted
      BY <2>14 DEF DerefNull, OwnerInv, TypeOK, OwnerStates
    <3>2. QED
      BY <2>14, <3>1 DEF DerefNull, Fail
  <2>15. ASSUME NEW k \in Faults \ {"null_acceptor"}, Fail(k)
         PROVE  AcceptorInv'
    BY <2>15 DEF Fail
  <2>16. ASSUME NEW c \in Conns, AcceptOk(c)
         PROVE  AcceptorInv'
    BY <2>16 DEF AcceptOk
  <2>17. ASSUME NEW c \in Conns,
                UNCHANGED <<ownerVars, serverVars, loopVars, id, fault>>
         PROVE  AcceptorInv'
    BY <2>17
  <2>18. CASE UNCHANGED vars
    BY <2>18 DEF vars
  <2>19. QED
    BY NextCases, ThreadFrame, <2>1, <2>2, <2>3, <2>4, <2>5, <2>6, <2>7,
       <2>8, <2>9, <2>10, <2>11, <2>12, <2>13, <2>14, <2>15, <2>16, <2>17,
       <2>18
<1>3. QED
  BY <1>1, <1>2, TypeCorrect, OwnerInvariant, PTL DEF Spec

(* Outside the calls of start() and stop() a listening server has its      *)
(* acceptor, unless start() was called on a running server; whatever the   *)
(* platform does with a second bind, and for any sequence of calls.        *)
THEOREM BoundUnlessRestarted == Spec => []UnboundOnlyByRestart
<1>1. AcceptorInv => UnboundOnlyByRestart
  BY DEF AcceptorInv
<1>2. QED
  BY <1>1, AcceptorInvariant, PTL

(* The accepting thread meets the emptied acceptor_ only in the window     *)
(* that stop() opens, or after a start() on a running server.              *)
THEOREM NullOnlyWhileStopping == Spec => []NullOnlyInStop
<1>1. AcceptorInv => NullOnlyInStop
  BY DEF AcceptorInv
<1>2. QED
  BY <1>1, AcceptorInvariant, PTL

-----------------------------------------------------------------------------
LEMMA CareInvariant ==
  ASSUME OwnerCare = "threads"
  PROVE  Spec => []CareInv
<1> USE DEF CareInv
<1>1. Init => CareInv
  BY DEF Init
<1>2. TypeOK /\ OwnerInv /\ CareInv /\ [Next]_vars => CareInv'
  <2> SUFFICES ASSUME TypeOK, OwnerInv, CareInv, [Next]_vars
               PROVE  CareInv'
    OBVIOUS
  <2> USE DEF ownerVars, serverVars, loopVars, connVars
  <2>1. CASE /\ UNCHANGED <<object, thread, fault>>
             /\ object # "alive" => UNCHANGED loop
    BY <2>1
  <2>2. CASE \/ BindFails \/ SetListening \/ StartLoopFails \/ CallStop
             \/ ClearListening
    BY <2>1, <2>2 DEF BindFails, SetListening, StartLoopFails, CallStop,
                      ClearListening
  <2>3. CASE BindAcceptor \/ StartLoop \/ ResetAcceptor \/ Join
    (* start() needs a live server; stop() in the destructor finds no loop. *)
    BY <2>3 DEF BindAcceptor, StartLoop, ResetAcceptor, Join, OwnerInv,
                CloseUnder
  <2>4. CASE DestroyRequests
    (* The owner has called stop() and seen every thread end. *)
    BY <2>4 DEF DestroyRequests, OwnerReady, OwnerInv
  <2>5. CASE DestroyServer
    BY <2>5 DEF DestroyServer, OwnerInv
  <2>6. CASE \/ BeginRound \/ LeaveLoop \/ EnterAccept
             \/ AcceptError \/ AcceptWoken \/ Register \/ DropLocal
    BY <2>6 DEF BeginRound, LeaveLoop, EnterAccept, AcceptError, AcceptWoken,
                Register, DropLocal
  <2>7. CASE Spawn
    BY <2>7 DEF Spawn
  <2>8. ASSUME NEW c \in Conns, AcceptOk(c)
        PROVE  CareInv'
    BY <2>8 DEF AcceptOk
  <2>9. ASSUME NEW c \in Conns,
               \/ ReadHead(c) \/ RejectUrl(c) \/ Dispatch(c)
               \/ CallbackEnds(c) \/ ErrorHandler(c) \/ Free(c)
               \/ ThreadExit(c)
        PROVE  CareInv'
    <3>1. UNCHANGED <<object, loop, fault>>
      BY <2>9, ThreadFrame
    <3>2. PICK from \in ThreadStates \ {"absent", "done"},
               to \in ThreadStates : ThreadGoes(c, from, to)
      BY <2>9 DEF ReadHead, RejectUrl, Dispatch, CallbackEnds, ErrorHandler,
                  Free, ThreadExit, ThreadStates
    <3>3. object = "alive"
      BY <3>2 DEF ThreadGoes
    <3>4. QED
      BY <3>1, <3>3
  <2>10. ASSUME NEW c \in Conns, CallbackKeeps(c) \/ UserDrops(c)
         PROVE  CareInv'
    BY <2>10, <2>1 DEF CallbackKeeps, UserDrops
  <2>11. CASE SpawnFails \/ DerefNull \/ AcceptDead
    BY <2>11 DEF SpawnFails, DerefNull, AcceptDead, Fail
  <2>12. ASSUME NEW c \in Conns,
                DispatchDead(c) \/ CallbackThrows(c) \/ ServerDead(c)
         PROVE  CareInv'
    (* The thread has not ended, so nothing has been destroyed yet. *)
    BY <2>12 DEF DispatchDead, CallbackThrows, ServerDead, Fail
  <2>13. CASE UNCHANGED vars
    BY <2>13 DEF vars
  <2>14. QED
    BY <2>2, <2>3, <2>4, <2>5, <2>6, <2>7, <2>8, <2>9, <2>10, <2>11, <2>12,
       <2>13
       DEF Next, OwnerStep, LoopStep, ThreadStep, Environment, Halted
<1>3. QED
  BY <1>1, <1>2, TypeCorrect, OwnerInvariant, PTL DEF Spec

(* An owner that calls stop() and lets every connection's thread end       *)
(* before it destroys the server never has a thread use the dead object.   *)
THEOREM CareSuffices == Spec => []DestroySafe
<1>1. CASE OwnerCare = "threads"
  <2>1. CareInv => DestroySafe
    BY DEF CareInv, DestroySafe
  <2>2. QED
    BY <1>1, <2>1, CareInvariant, PTL
<1>2. CASE OwnerCare # "threads"
  <2>1. DestroySafe
    BY <1>2 DEF DestroySafe
  <2>2. QED
    BY <2>1, PTL
<1>3. QED
  BY <1>1, <1>2

-----------------------------------------------------------------------------
LEMMA RegistryInvariant == Spec => []RegistryInv
<1> USE DEF RegistryInv, RegistrySound, Serving
<1>1. Init => RegistryInv
  <2> SUFFICES ASSUME Init PROVE RegistryInv
    OBVIOUS
  <2>1. \A i \in Ids : connections[i] \notin Conns
    BY ServerAssumption DEF ServerAssumption, Init
  <2>2. loop = "none" /\ \A c \in Conns : thread[c] = "absent"
    BY DEF Init
  <2>3. QED
    BY <2>1, <2>2
<1>2. TypeOK /\ OwnerInv /\ RegistryInv /\ [Next]_vars => RegistryInv'
  <2> SUFFICES ASSUME TypeOK, OwnerInv, RegistryInv, [Next]_vars
               PROVE  RegistryInv'
    OBVIOUS
  <2> USE DEF ownerVars, serverVars, loopVars, connVars
  <2>1. CASE /\ UNCHANGED <<current, id, thread, connections>>
             /\ loop' = loop \/ {loop, loop'} \cap {"register", "spawn"} = {}
    BY <2>1
  <2>2. CASE \/ BindAcceptor \/ BindFails \/ SetListening \/ StartLoop
             \/ StartLoopFails \/ CallStop \/ ResetAcceptor
             \/ ClearListening \/ Join \/ DestroyRequests
    <3>1. UNCHANGED <<current, id, thread, connections>>
      BY <2>2 DEF BindAcceptor, BindFails, SetListening, StartLoop,
           StartLoopFails, CallStop, ResetAcceptor, ClearListening, Join,
           DestroyRequests
    <3>2. CASE StartLoop
      (* std::thread is assigned only when no accepting thread exists. *)
      BY <3>1, <3>2 DEF StartLoop, OwnerInv
    <3>3. CASE BindAcceptor \/ ResetAcceptor \/ Join
      BY <2>1, <3>1, <3>3 DEF BindAcceptor, ResetAcceptor, Join, CloseUnder
    <3>4. CASE UNCHANGED loop
      BY <2>1, <3>1, <3>4
    <3>5. QED
      BY <2>2, <3>2, <3>3, <3>4 DEF BindFails, SetListening, StartLoopFails,
         CallStop, ClearListening, DestroyRequests
  <2>3. CASE DestroyServer
    BY <2>3, ServerAssumption DEF DestroyServer, ServerAssumption, TypeOK
  <2>4. CASE \/ BeginRound \/ LeaveLoop \/ EnterAccept
             \/ AcceptError \/ AcceptWoken
    BY <2>1, <2>4 DEF BeginRound, LeaveLoop, EnterAccept, AcceptError,
                      AcceptWoken
  <2>5. CASE Register
    BY <2>5 DEF Register, TypeOK
  <2>6. CASE Spawn
    BY <2>6 DEF Spawn, TypeOK
  <2>7. CASE DropLocal
    BY <2>7 DEF DropLocal
  <2>8. ASSUME NEW c \in Conns, AcceptOk(c)
        PROVE  RegistryInv'
    <3>1. \A i \in Ids : connections[i] # c
      BY <2>8 DEF AcceptOk
    <3>2. QED
      BY <2>8, <3>1 DEF AcceptOk, TypeOK
  <2>9. ASSUME NEW c \in Conns,
               \/ ReadHead(c) \/ RejectUrl(c) \/ Dispatch(c)
               \/ CallbackEnds(c) \/ ErrorHandler(c)
        PROVE  RegistryInv'
    (* The thread goes on serving; nothing else changes. *)
    <3>1. UNCHANGED <<current, loop, id, connections>>
      BY <2>9 DEF ReadHead, RejectUrl, Dispatch, CallbackEnds, ErrorHandler
    <3>2. /\ Serving(c) /\ Serving(c)'
          /\ thread' = [thread EXCEPT ![c] = thread'[c]]
      BY <2>9 DEF ReadHead, RejectUrl, Dispatch, CallbackEnds, ErrorHandler,
                  ThreadGoes, TypeOK
    <3>3. QED
      BY <3>1, <3>2 DEF TypeOK
  <2>10. ASSUME NEW c \in Conns, Free(c)
         PROVE  RegistryInv'
    (* c could only be registered under its own id, which Free erases. *)
    BY <2>10, ServerAssumption
       DEF Free, ThreadGoes, TypeOK, ServerAssumption
  <2>11. ASSUME NEW c \in Conns, ThreadExit(c)
         PROVE  RegistryInv'
    BY <2>11 DEF ThreadExit, ThreadGoes, TypeOK
  <2>12. ASSUME NEW c \in Conns, CallbackKeeps(c) \/ UserDrops(c)
         PROVE  RegistryInv'
    BY <2>1, <2>12 DEF CallbackKeeps, UserDrops
  <2>13. CASE DerefNull \/ \E k \in Faults \ {"null_acceptor"} : Fail(k)
    BY <2>1, <2>13 DEF DerefNull, Fail
  <2>14. CASE UNCHANGED vars
    BY <2>1, <2>14 DEF vars
  <2>15. QED
    BY NextCases, <2>2, <2>3, <2>4, <2>5, <2>6, <2>7, <2>8, <2>9, <2>10,
       <2>11, <2>12, <2>13, <2>14
<1>3. QED
  BY <1>1, <1>2, TypeCorrect, OwnerInvariant, PTL DEF Spec

(* connections_ leaks nothing, whatever the width of the id counter. *)
THEOREM NothingLeaks == Spec => []RegistrySound
<1>1. RegistryInv => RegistrySound
  BY DEF RegistryInv
<1>2. QED
  BY <1>1, RegistryInvariant, PTL

-----------------------------------------------------------------------------
LEMMA LiveInvariant == Spec => []LiveInv
<1> USE DEF LiveInv, Live, Serving
<1>1. Init => LiveInv
  BY DEF Init
<1>2. TypeOK /\ OwnerInv /\ RegistryInv /\ LiveInv /\ [Next]_vars => LiveInv'
  <2> SUFFICES ASSUME TypeOK, OwnerInv, RegistryInv, LiveInv, [Next]_vars,
                      ~shared'
               PROVE  LiveInv'
    OBVIOUS
  <2> USE DEF ownerVars, serverVars, loopVars, connVars
  <2>1. CASE /\ UNCHANGED <<current, shared, id, thread, connections>>
             /\ object' = object \/ object # "destroyed"
             /\ loop' = loop \/ loop' # "spawn"
    BY <2>1
  <2>2. CASE \/ BindAcceptor \/ BindFails \/ SetListening \/ StartLoop
             \/ StartLoopFails \/ CallStop \/ ResetAcceptor
             \/ ClearListening \/ Join \/ DestroyRequests
    <3>1. UNCHANGED <<current, shared, id, thread, connections>>
      BY <2>2 DEF BindAcceptor, BindFails, SetListening, StartLoop,
           StartLoopFails, CallStop, ResetAcceptor, ClearListening, Join,
           DestroyRequests
    <3>2. object' = object \/ object # "destroyed"
      BY <2>2 DEF BindAcceptor, BindFails, SetListening, StartLoop,
           StartLoopFails, CallStop, ResetAcceptor, ClearListening, Join,
           DestroyRequests, OwnerInv
    <3>3. loop' = loop \/ loop' # "spawn"
      BY <2>2 DEF BindAcceptor, BindFails, SetListening, StartLoop,
           StartLoopFails, CallStop, ResetAcceptor, ClearListening, Join,
           DestroyRequests, CloseUnder
    <3>4. QED
      BY <2>1, <3>1, <3>2, <3>3
  <2>3. CASE DestroyServer
    (* No accepting thread exists. *)
    BY <2>3 DEF DestroyServer, OwnerInv
  <2>4. CASE \/ BeginRound \/ LeaveLoop \/ EnterAccept
             \/ AcceptError \/ AcceptWoken
    BY <2>1, <2>4 DEF BeginRound, LeaveLoop, EnterAccept, AcceptError,
                      AcceptWoken
  <2>5. CASE Register
    (* Only current bears its id, so its entry is free. *)
    <3>1. /\ current \in Conns /\ thread[current] = "accepted"
          /\ UNCHANGED <<current, shared, id, thread, object>>
          /\ loop = "register" /\ loop' = "spawn"
      BY <2>5 DEF Register, RegistryInv
    <3>2. connections[id[current]] = NoConn
      <4>1. SUFFICES ASSUME NEW d \in Conns, connections[id[current]] = d
                     PROVE  FALSE
        BY <3>1 DEF TypeOK
      <4>2. id[d] = id[current] /\ Live(d) /\ d # current
        BY <3>1, <4>1 DEF RegistryInv, RegistrySound, TypeOK
      <4>3. QED
        BY <3>1, <4>2
    <3>3. connections' = [connections EXCEPT ![id[current]] = current]
      BY <2>5, <3>2 DEF Register
    <3>4. ASSUME NEW c \in Conns, Serving(c), object # "destroyed"
          PROVE  connections'[id[c]] = c
      BY <3>1, <3>3, <3>4 DEF TypeOK
    <3>5. QED
      BY <3>1, <3>3, <3>4 DEF TypeOK
  <2>6. CASE Spawn
    BY <2>6 DEF Spawn, RegistryInv, TypeOK
  <2>7. CASE DropLocal
    BY <2>7 DEF DropLocal
  <2>8. ASSUME NEW c \in Conns, AcceptOk(c)
        PROVE  LiveInv'
    (* No connection waits for its thread, and no served one bears the id. *)
    <3>1. \A d \in Conns : Serving(d) => id[d] # idIncrement
      BY <2>8 DEF AcceptOk
    <3>2. \A d \in Conns \ {c} : Live(d)' => Serving(d) /\ id'[d] = id[d]
      BY <2>8 DEF AcceptOk, RegistryInv, TypeOK
    <3>3. /\ id'[c] = idIncrement /\ ~Serving(c)' /\ loop' # "spawn"
          /\ ~shared /\ UNCHANGED <<object, connections>>
      BY <2>8 DEF AcceptOk, TypeOK
    <3>4. QED
      BY <3>1, <3>2, <3>3
  <2>9. ASSUME NEW c \in Conns,
                \/ ReadHead(c) \/ RejectUrl(c) \/ Dispatch(c)
                \/ CallbackEnds(c) \/ ErrorHandler(c) \/ ThreadExit(c)
         PROVE  LiveInv'
    <3>1. UNCHANGED <<object, current, loop, shared, id, connections>>
      BY <2>9 DEF ReadHead, RejectUrl, Dispatch, CallbackEnds, ErrorHandler,
                   ThreadExit
    <3>2. /\ Live(c)' => Live(c)
          /\ Serving(c)' => Serving(c)
          /\ \A d \in Conns \ {c} : thread'[d] = thread[d]
      BY <2>9 DEF ReadHead, RejectUrl, Dispatch, CallbackEnds, ErrorHandler,
                   ThreadExit, ThreadGoes, TypeOK
    <3>3. \A d \in Conns : (Live(d)' => Live(d)) /\ (Serving(d)' => Serving(d))
      BY <3>2
    <3>4. QED
      BY <3>1, <3>3
  <2>10. ASSUME NEW c \in Conns, Free(c)
         PROVE  LiveInv'
    (* No other connection bears the id whose entry is erased. *)
    BY <2>10 DEF Free, ThreadGoes, RegistryInv, TypeOK
  <2>11. ASSUME NEW c \in Conns, CallbackKeeps(c) \/ UserDrops(c)
         PROVE  LiveInv'
    BY <2>1, <2>11 DEF CallbackKeeps, UserDrops
  <2>12. CASE DerefNull \/ \E k \in Faults \ {"null_acceptor"} : Fail(k)
    BY <2>1, <2>12 DEF DerefNull, Fail
  <2>13. CASE UNCHANGED vars
    BY <2>1, <2>13 DEF vars
  <2>14. QED
    BY NextCases, <2>2, <2>3, <2>4, <2>5, <2>6, <2>7, <2>8, <2>9, <2>10,
       <2>11, <2>12, <2>13
<1>3. QED
  BY <1>1, <1>2, TypeCorrect, OwnerInvariant, RegistryInvariant, PTL DEF Spec

(* Every connection that is being served is in connections_, wrap-around   *)
(* or not, until an accept is given an id a served connection bears.       *)
THEOREM EveryPeerRegistered == Spec => []LiveRegistered
<1>1. LiveInv => LiveRegistered
  BY DEF LiveInv, LiveRegistered
<1>2. QED
  BY <1>1, LiveInvariant, PTL

-----------------------------------------------------------------------------
(* Refinement of RestService. *)

(* The loop holds a connection just while it has one in hand. *)
LEMMA LoopInvariant == Spec => []LoopInv
<1> USE DEF LoopInv
<1>1. Init => LoopInv
  BY DEF Init
<1>2. TypeOK /\ OwnerInv /\ RegistryInv /\ LoopInv /\ [Next]_vars => LoopInv'
  <2> SUFFICES ASSUME TypeOK, OwnerInv, RegistryInv, LoopInv, [Next]_vars PROVE LoopInv'
    OBVIOUS
  <2> USE DEF ownerVars, serverVars, loopVars, connVars
  <2>1. CASE \/ BindFails \/ SetListening \/ StartLoopFails \/ CallStop
             \/ ClearListening \/ DestroyRequests \/ DestroyServer
             \/ DerefNull \/ (\E k \in Faults \ {"null_acceptor"} : Fail(k)) \/ UNCHANGED vars
    BY <2>1 DEF BindFails, SetListening, StartLoopFails, CallStop, ClearListening,
       DestroyRequests, DestroyServer, DerefNull, Fail, vars
  <2>2. CASE BindAcceptor \/ ResetAcceptor
    BY <2>2 DEF BindAcceptor, ResetAcceptor, CloseUnder
  <2>3. CASE StartLoop \/ Join
    (* There was no accepting thread, or one that had returned. *)
    BY <2>3 DEF StartLoop, Join, OwnerInv
  <2>4. CASE BeginRound \/ LeaveLoop \/ EnterAccept \/ AcceptError \/ AcceptWoken
    BY <2>4 DEF BeginRound, LeaveLoop, EnterAccept, AcceptError, AcceptWoken
  <2>5. CASE Register \/ Spawn \/ DropLocal
    BY <2>5 DEF Register, Spawn, DropLocal
  <2>6. ASSUME NEW c \in Conns, AcceptOk(c) PROVE LoopInv'
    BY <2>6, ServerAssumption DEF AcceptOk, ServerAssumption
  <2>7. ASSUME NEW c \in Conns, UNCHANGED loopVars PROVE LoopInv'
    BY <2>7
  <2> QED
    BY NextCases, ThreadFrame, <2>1, <2>2, <2>3, <2>4, <2>5, <2>6, <2>7
<1>3. QED
  BY <1>1, <1>2, TypeCorrect, OwnerInvariant, RegistryInvariant, PTL DEF Spec

(* What the service says of a connection, told without connections_: an    *)
(* entry there never is the only shared_ptr.                               *)
Held(c) == current = c \/ c \in kept

Stage(c) ==
  CASE thread[c] = "absent"                                          -> "absent"
    [] thread[c] \in {"accepted", "head", "dispatch", "callback", "error"} -> "open"
    [] thread[c] \in {"free", "exit"} \/ (thread[c] = "done" /\ Held(c)) -> "answered"
    [] thread[c] = "done" /\ ~Held(c)                                -> "closed"

LifeIsStage == \A c \in Conns : Life(c) = Stage(c)

LEMMA LifeInvariant == Spec => []LifeIsStage
<1>1. TypeOK /\ RegistryInv => LifeIsStage
  <2> SUFFICES ASSUME TypeOK, RegistryInv, NEW c \in Conns PROVE Life(c) = Stage(c)
    BY DEF LifeIsStage
  <2>1. Open(c) <=> Held(c) \/ ThreadHolds(c)
    BY DEF Open, Held, ThreadHolds, RegistryInv, RegistrySound
  <2>2. thread[c] = "accepted" => Held(c)
    BY DEF RegistryInv, Held
  <2>3. thread[c] \in ThreadStates
    BY DEF TypeOK
  <2>4. ThreadHolds(c) <=> thread[c] \in {"head", "dispatch", "callback", "error", "free", "exit"}
    BY DEF ThreadHolds, Serving
  <2> HIDE DEF Open, Held
  <2> QED
    BY <2>1, <2>2, <2>3, <2>4 DEF Life, Stage, ThreadStates
<1>2. QED
  BY <1>1, TypeCorrect, RegistryInvariant, PTL

(* Service's running: the service is started, or a call is at work on it.  *)
Up == owner # "gone" /\ (owner = "idle" => listening)

(* A step that moves no connection starts or stops the service, or is none *)
(* of its steps.                                                           *)
LEMMA NobodyMoves ==
  ASSUME LifeIsStage, LifeIsStage', \A c \in Conns : Stage(c)' = Stage(c)
  PROVE  [Service!Next]_(Service!vars)
<1>1. [c \in Conns |-> Life(c)]' = [c \in Conns |-> Life(c)]
  BY DEF LifeIsStage
<1>2. CASE Up' = Up
  BY <1>1, <1>2 DEF Service!vars, Up
<1>3. CASE Up' # Up
  <2>1. Up' = ~Up
    BY <1>3 DEF Up
  <2>2. Service!Switch
    BY <1>1, <2>1 DEF Service!Switch, Up
  <2> QED
    BY <2>2 DEF Service!Next
<1> QED
  BY <1>2, <1>3

(* A step that moves one connection. *)
LEMMA OneMoves ==
  ASSUME LifeIsStage, LifeIsStage', NEW c \in Conns, UNCHANGED <<owner, listening>>,
         \A d \in Conns \ {c} : Stage(d)' = Stage(d),
         NEW from, NEW to, Stage(c) = from, Stage(c)' = to
  PROVE  Service!Step(c, from, to)
<1>1. [d \in Conns |-> Life(d)]' = [[d \in Conns |-> Life(d)] EXCEPT ![c] = to]
  BY DEF LifeIsStage
<1>2. [d \in Conns |-> Life(d)][c] = from
  BY DEF LifeIsStage
<1> QED
  BY <1>1, <1>2 DEF Service!Step

(* Where the loop can accept, the service is up. *)
LEMMA AcceptsWhileUp ==
  ASSUME TypeOK, OwnerInv, loop \in {"accept", "accept_closed"}
  PROVE  Up
BY DEF OwnerInv, Up

(* What moves a connection: accept, the thread of the connection, or who   *)
(* drops its last shared_ptr.                                              *)
LEMMA StepServes ==
  ASSUME TypeOK, OwnerInv, RegistryInv, LoopInv, LifeIsStage, LifeIsStage', [Next]_vars
  PROVE  [Service!Next]_(Service!vars)
<1> USE DEF ownerVars, serverVars, loopVars, connVars
<1>1. CASE UNCHANGED <<thread, current, kept>>
  BY <1>1, NobodyMoves DEF Stage, Held
<1>2. ASSUME NEW c \in Conns, AcceptOk(c) PROVE Service!Next
  (* The loop had none in hand, so nobody else loses a shared_ptr. *)
  <2>1. current = NoConn /\ NoConn # c /\ \A d \in Conns : NoConn # d
    BY <1>2, ServerAssumption DEF AcceptOk, LoopInv, ServerAssumption
  <2>2. \A d \in Conns \ {c} : Stage(d)' = Stage(d)
    BY <1>2, <2>1 DEF AcceptOk, Stage, Held, TypeOK
  <2>3. Stage(c) = "absent" /\ Stage(c)' = "open" /\ UNCHANGED <<owner, listening>>
    BY <1>2 DEF AcceptOk, Stage, TypeOK
  <2>4. Service!Accept(c)
    BY <1>2, <2>2, <2>3, OneMoves, AcceptsWhileUp DEF Service!Accept, Up, AcceptOk
  <2> QED
    BY <2>4 DEF Service!Next
<1>3. CASE Spawn
  <2>1. \A d \in Conns : Stage(d)' = Stage(d)
    BY <1>3 DEF Spawn, Stage, Held, RegistryInv, TypeOK
  <2> QED
    BY <2>1, NobodyMoves
<1>4. ASSUME NEW c \in Conns, UNCHANGED <<owner, listening, thread>>,
             \A d \in Conns \ {c} : Held(d)' = Held(d), Held(c)' => Held(c)
      PROVE  [Service!Next]_(Service!vars)
  (* A shared_ptr is dropped: the last one, if the thread has ended. *)
  <2>1. \A d \in Conns \ {c} : Stage(d)' = Stage(d)
    BY <1>4 DEF Stage
  <2>2. CASE thread[c] = "done" /\ Held(c) /\ ~Held(c)'
    <3>1. Stage(c) = "answered" /\ Stage(c)' = "closed"
      BY <1>4, <2>2 DEF Stage
    <3>2. Service!Close(c)
      BY <1>4, <2>1, <3>1, OneMoves DEF Service!Close
    <3> QED
      BY <3>2 DEF Service!Next
  <2>3. CASE ~(thread[c] = "done" /\ Held(c) /\ ~Held(c)')
    <3>1. Stage(c)' = Stage(c)
      <4>1. Held(c)' = Held(c) \/ thread[c] # "done"
        BY <1>4, <2>3 DEF Held
      <4> QED
        BY <1>4, <4>1 DEF Stage
    <3> QED
      BY <2>1, <3>1, NobodyMoves
  <2> QED
    BY <2>2, <2>3
<1>5. CASE DropLocal
  <2>1. current \in Conns
    BY <1>5 DEF DropLocal, LoopInv, TypeOK
  <2>2. \A d \in Conns \ {current} : Held(d)' = Held(d)
    BY <1>5, ServerAssumption DEF DropLocal, Held, ServerAssumption
  <2>3. Held(current)
    BY DEF Held
  <2> QED
    BY <1>4, <1>5, <2>1, <2>2, <2>3 DEF DropLocal
<1>6. ASSUME NEW c \in Conns, UserDrops(c) PROVE [Service!Next]_(Service!vars)
  <2>1. \A d \in Conns \ {c} : Held(d)' = Held(d)
    BY <1>6 DEF UserDrops, Held
  <2>2. Held(c)
    BY <1>6 DEF UserDrops, Held
  <2> QED
    BY <1>4, <1>6, <2>1, <2>2 DEF UserDrops
<1>7. ASSUME NEW c \in Conns, CallbackKeeps(c) PROVE [Service!Next]_(Service!vars)
  <2>1. \A d \in Conns : Stage(d)' = Stage(d)
    BY <1>7 DEF CallbackKeeps, Stage, Held
  <2> QED
    BY <2>1, NobodyMoves
<1>8. ASSUME NEW c \in Conns,
             \/ ReadHead(c) \/ RejectUrl(c) \/ Dispatch(c)
             \/ CallbackEnds(c) \/ ErrorHandler(c) \/ Free(c) \/ ThreadExit(c)
      PROVE  [Service!Next]_(Service!vars)
  <2>1. PICK from, to \in ThreadStates :
          /\ ThreadGoes(c, from, to)
          /\ \/ /\ from \in {"head", "dispatch", "callback", "error"}
                /\ to \in {"dispatch", "callback", "error", "free"}
             \/ from = "free" /\ to = "exit"
             \/ from = "exit" /\ to = "done"
    BY <1>8 DEF ReadHead, RejectUrl, Dispatch, CallbackEnds, ErrorHandler, Free,
       ThreadExit, ThreadStates
  <2>2. UNCHANGED <<owner, listening, current, kept>>
    BY <1>8 DEF ReadHead, RejectUrl, Dispatch, CallbackEnds, ErrorHandler, Free, ThreadExit
  <2>3. /\ thread[c] = from /\ thread'[c] = to
        /\ \A d \in Conns \ {c} : thread'[d] = thread[d]
    BY <2>1 DEF ThreadGoes, TypeOK
  <2>4. \A d \in Conns \ {c} : Stage(d)' = Stage(d)
    BY <2>2, <2>3 DEF Stage, Held
  <2>5. CASE Stage(c)' = Stage(c)
    BY <2>4, <2>5, NobodyMoves
  <2>6. CASE Stage(c) = "open" /\ Stage(c)' = "answered"
    <3>1. Service!Answer(c)
      BY <2>2, <2>4, <2>6, OneMoves DEF Service!Answer
    <3> QED
      BY <3>1 DEF Service!Next
  <2>7. CASE Stage(c) = "answered" /\ Stage(c)' = "closed"
    <3>1. Service!Close(c)
      BY <2>2, <2>4, <2>7, OneMoves DEF Service!Close
    <3> QED
      BY <3>1 DEF Service!Next
  <2>8. CASE from = "exit" /\ to = "done"
    <3>1. Stage(c) = "answered" /\ Stage(c)' \in {"answered", "closed"}
      BY <2>3, <2>8 DEF Stage
    <3> QED
      BY <2>5, <2>7, <3>1
  <2>9. CASE from # "exit"
    <3>1. \/ Stage(c)' = Stage(c)
          \/ Stage(c) = "open" /\ Stage(c)' = "answered"
      BY <2>1, <2>3, <2>9 DEF Stage
    <3> QED
      BY <2>5, <2>6, <3>1
  <2> QED
    BY <2>1, <2>8, <2>9
<1>9. CASE \/ BindAcceptor \/ BindFails \/ SetListening \/ StartLoop
           \/ StartLoopFails \/ CallStop \/ ResetAcceptor \/ ClearListening
           \/ Join \/ DestroyRequests \/ DestroyServer
           \/ BeginRound \/ LeaveLoop \/ EnterAccept
           \/ AcceptError \/ AcceptWoken \/ Register
           \/ DerefNull \/ (\E k \in Faults \ {"null_acceptor"} : Fail(k))
           \/ UNCHANGED vars
  <2>1. UNCHANGED <<thread, current, kept>>
    BY <1>9 DEF BindAcceptor, BindFails, SetListening, StartLoop, StartLoopFails,
       CallStop, ResetAcceptor, ClearListening, Join, DestroyRequests, DestroyServer,
       BeginRound, LeaveLoop, EnterAccept, AcceptError, AcceptWoken, Register,
       DerefNull, Fail, vars
  <2> QED
    BY <1>1, <2>1
<1> QED
  BY NextCases, <1>2, <1>3, <1>5, <1>6, <1>7, <1>8, <1>9

(* The server implements the service its comments describe: a connection   *)
(* is accepted while the service is up or a call is at work on it, its     *)
(* handler ends once, and it closes only then and never opens again; for   *)
(* any number of connections, on every platform, whatever the owner does,  *)
(* and even if ids are shared after a wrap-around.                         *)
THEOREM ServerImplementsService == Spec => ServiceSpec
<1>1. Init => Service!Init
  <2> SUFFICES ASSUME Init PROVE Service!Init
    OBVIOUS
  <2>1. \A c \in Conns : Life(c) = "absent"
    <3> SUFFICES ASSUME NEW c \in Conns PROVE Life(c) = "absent"
      OBVIOUS
    <3>1. thread[c] = "absent"
      BY DEF Init
    <3> HIDE DEF Open
    <3> QED
      BY <3>1 DEF Life
  <2>2. (owner # "gone" /\ (owner = "idle" => listening)) = FALSE
    BY DEF Init
  <2> QED
    BY <2>1, <2>2 DEF Service!Init
<1>2. /\ TypeOK /\ OwnerInv /\ RegistryInv /\ LoopInv /\ LifeIsStage /\ LifeIsStage'
      /\ [Next]_vars
      => [Service!Next]_(Service!vars)
  BY StepServes
<1>3. QED
  BY <1>1, <1>2, TypeCorrect, OwnerInvariant, RegistryInvariant, LoopInvariant,
     LifeInvariant, PTL DEF Spec, ServiceSpec, Service!Spec
=============================================================================
