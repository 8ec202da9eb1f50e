-------------------------- MODULE BodyReaderProofs --------------------------
(***************************************************************************)
(* Theorems about BodyReader, for every size of chunk, stream buffer and   *)
(* body, every timeout and number of reads.  ReaderInv accounts for every  *)
(* byte; the safety properties follow from it.                             *)
(***************************************************************************)
EXTENDS BodyReader, TLAPS

USE ReaderAssumption

LEMMA LesserFacts ==
  ASSUME NEW a \in Nat, NEW b \in Nat
  PROVE  /\ Lesser(a, b) \in Nat
         /\ Lesser(a, b) <= a
         /\ Lesser(a, b) <= b
         /\ Lesser(a, b) = a \/ Lesser(a, b) = b
  BY DEF Lesser

(* The steps of the system. *)
LEMMA NextCases ==
  ASSUME [Next]_vars
  PROVE  \/ CallRead \/ Measure \/ Poll \/ Sleep \/ Recheck \/ Remeasure
         \/ Take \/ Fill \/ Eof \/ ReadDone \/ Write
         \/ Arrive \/ PeerCloses \/ PeerResets
         \/ UNCHANGED vars
  BY DEF Next, Reader, Network, Finished

(* The ranges of the variables and the account of the bytes depend on each *)
(* other: kernel stays below BodySize because no byte is made up.          *)
Typed == TypeOK /\ ReaderInv

LEMMA InitTyped == Init => Typed
<1> SUFFICES ASSUME Init
             PROVE  Typed
  OBVIOUS
<1>1. /\ total \in 0 .. BodySize /\ unsent \in 0 .. total
      /\ kernel \in 0 .. total - unsent
      /\ buffered = total - unsent - kernel
      /\ failed \in BOOLEAN /\ (failed => total = 0 /\ peer = "closed")
      /\ peer \in {"open", "closed"} /\ pc = "idle"
      /\ amount = 0 /\ taken = 0 /\ polls = 0 /\ delivered = 0
      /\ garbage = 0 /\ calls = 0 /\ arrived = 0
  BY DEF Init
<1>2. TypeOK
  BY <1>1 DEF TypeOK, PCs
<1>3. ReaderInv
  BY <1>1 DEF ReaderInv, Conserved, NoGarbage, Dropped
<1>4. QED
  BY <1>2, <1>3 DEF Typed

LEMMA StepTyped == Typed /\ [Next]_vars => Typed'
<1> SUFFICES ASSUME Typed, [Next]_vars
             PROVE  Typed'
  OBVIOUS
<1> USE DEF Typed, TypeOK, PCs, ReaderInv, Conserved, NoGarbage, Dropped,
            GetBodySize, peerVars, socketVars, localVars, resultVars, callVars
<1>1. CASE CallRead
  BY <1>1 DEF CallRead
<1>2. CASE Measure
  BY <1>2, LesserFacts DEF Measure
<1>3. CASE Poll
  BY <1>3 DEF Poll
<1>4. CASE Sleep
  BY <1>4 DEF Sleep
<1>5. CASE Recheck
  BY <1>5 DEF Recheck
<1>6. CASE Remeasure
  BY <1>6, LesserFacts DEF Remeasure
<1>7. CASE Take
  BY <1>7 DEF Take, Lesser
<1>8. CASE Fill
  BY <1>8 DEF Fill, Lesser
<1>9. CASE Eof
  BY <1>9 DEF Eof
<1>10. CASE ReadDone
  BY <1>10 DEF ReadDone
<1>11. CASE Write
  BY <1>11 DEF Write
<1>12. CASE Arrive
  BY <1>12 DEF Arrive
<1>13. CASE PeerCloses
  BY <1>13 DEF PeerCloses
<1>14. CASE PeerResets
  BY <1>14 DEF PeerResets
<1>15. CASE UNCHANGED vars
  BY <1>15 DEF vars
<1>16. QED
  BY NextCases, <1>1, <1>2, <1>3, <1>4, <1>5, <1>6, <1>7, <1>8, <1>9, <1>10,
     <1>11, <1>12, <1>13, <1>14, <1>15

LEMMA AlwaysTyped == Spec => []Typed
  BY InitTyped, StepTyped, PTL DEF Spec

(* The variables keep to their ranges; amount fits read's local buffer. *)
THEOREM TypeCorrect == Spec => []TypeOK
<1>1. Typed => TypeOK
  BY DEF Typed
<1>2. QED
  BY <1>1, AlwaysTyped, PTL

(* read never waits inside stream_.read for a silent peer. *)
THEOREM ReadNeverBlocks == Spec => []NeverBlocks
<1>1. Typed => NeverBlocks
  BY DEF Typed, ReaderInv, NeverBlocks, Dropped
<1>2. QED
  BY <1>1, AlwaysTyped, PTL

(* The writer gets bytes of the body only, unless a reset loses some. *)
THEOREM OnlyBodyDelivered == Spec => []NoGarbage
<1>1. Typed => NoGarbage
  BY DEF Typed, ReaderInv
<1>2. QED
  BY <1>1, AlwaysTyped, PTL

LEMMA ArrivedInvariant == Spec => []ArrivedInv
<1>1. Init => ArrivedInv
  BY DEF Init, ArrivedInv
<1>2. Typed /\ ArrivedInv /\ [Next]_vars => ArrivedInv'
  <2> SUFFICES ASSUME Typed, ArrivedInv, [Next]_vars
               PROVE  ArrivedInv'
    OBVIOUS
  <2> USE DEF Typed, TypeOK, PCs, ReaderInv, Conserved, Dropped, ArrivedInv,
              GetBodySize, peerVars, socketVars, localVars, resultVars, callVars
  <2>1. CASE CallRead
    BY <2>1 DEF CallRead
  <2>2. CASE Measure
    (* Less than a chunk: it is all there is. *)
    BY <2>2 DEF Measure, Lesser
  <2>3. CASE Poll \/ Sleep \/ Recheck
    BY <2>3 DEF Poll, Sleep, Recheck
  <2>4. CASE Remeasure
    BY <2>4, LesserFacts DEF Remeasure
  <2>5. CASE Take
    BY <2>5 DEF Take, Lesser
  <2>6. CASE Fill
    BY <2>6 DEF Fill, Lesser
  <2>7. CASE Eof \/ ReadDone
    BY <2>7 DEF Eof, ReadDone
  <2>8. CASE Write
    (* Nothing is missing of amount; after a full chunk read goes on. *)
    BY <2>8 DEF Write
  <2>9. CASE Arrive
    BY <2>9 DEF Arrive
  <2>10. CASE PeerCloses \/ PeerResets
    BY <2>10 DEF PeerCloses, PeerResets
  <2>11. CASE UNCHANGED vars
    BY <2>11 DEF vars
  <2>12. QED
    BY NextCases, <2>1, <2>2, <2>3, <2>4, <2>5, <2>6, <2>7, <2>8, <2>9,
       <2>10, <2>11
<1>3. QED
  BY <1>1, <1>2, AlwaysTyped, PTL DEF Spec

(* A read delivers at least what had arrived when it was called. *)
THEOREM ArrivedIsRead == Spec => []ReadsWhatArrived
<1>1. ArrivedInv => ReadsWhatArrived
  BY DEF ArrivedInv, ReadsWhatArrived
<1>2. QED
  BY <1>1, ArrivedInvariant, PTL
=============================================================================
