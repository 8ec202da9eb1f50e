----------------------------- MODULE BodyReader -----------------------------
(***************************************************************************)
(* How a callback reads the body of its request: RestConnection::read and  *)
(* its callers readString and readStream (connection.cpp).  The library    *)
(* knows nothing of Content-Length: it reads what the socket reports to be *)
(* there, in chunks of 4096 bytes, and polls for a while when there is     *)
(* nothing.                                                                *)
(*                                                                         *)
(* One reader (the thread of the connection) runs against the peer, whose  *)
(* bytes arrive when they like.  A byte is on its way (unsent), in the     *)
(* kernel's socket buffer (kernel), in the get area of the stream          *)
(* (buffered), in the local buffer of read (taken) or with the writer      *)
(* (delivered).  TCP and the stream are first in, first out, so a number   *)
(* of bytes says which they are.                                           *)
(***************************************************************************)
EXTENDS Naturals

CONSTANTS
  ChunkSize,      \* size of read's local buffer (4096)
  BufSize,        \* bytes the stream takes from the kernel at a time
  BodySize,       \* bound: bytes of the body
  MaxPolls,       \* times read looks for data before it gives up
                  \* (timeout / 10 ms)
  MaxCalls,       \* bound: reads of one callback
  ResetDropsData  \* a reset by the peer discards what the kernel holds

ASSUME ReaderAssumption ==
  /\ ChunkSize \in Nat \ {0} /\ BufSize \in Nat \ {0} /\ BodySize \in Nat
  /\ MaxPolls \in Nat \ {0} /\ MaxCalls \in Nat /\ ResetDropsData \in BOOLEAN

VARIABLES
  total,      \* the size of the body; constant in a behaviour
  unsent,     \* bytes of it that have not arrived
  peer,       \* the peer's end of the connection: open, closed, reset
  kernel,     \* bytes in the kernel: available()
  buffered,   \* bytes in the stream's get area: in_avail()
  failed,     \* failbit of stream_
  pc,         \* where the reader is
  amount,     \* local amount
  taken,      \* bytes stream_.read has put into the local buffer
  polls,      \* turns of the polling loop
  delivered,  \* bytes of the body the writer has received
  garbage,    \* bytes the writer has received that nobody had sent
  calls,      \* calls of read, for the bound
  arrived     \* history: bytes that had arrived when read was called

peerVars   == <<total, unsent, peer>>
socketVars == <<kernel, buffered, failed>>
localVars  == <<amount, taken, polls>>
resultVars == <<delivered, garbage>>
callVars   == <<calls, arrived>>
vars == <<peerVars, socketVars, pc, localVars, resultVars, callVars>>

Lesser(a, b) == IF a < b THEN a ELSE b

(* readHead has returned.  It leaves in the get area what came along with  *)
(* the last bytes of the head.  It also accepts a head that is cut off     *)
(* after a header line: then the stream has met its end and has failed.    *)
Init ==
  /\ total \in 0 .. BodySize /\ unsent \in 0 .. total
  /\ kernel \in 0 .. total - unsent /\ buffered = total - unsent - kernel
  /\ buffered < BufSize /\ peer \in {"open", "closed"} /\ failed \in BOOLEAN
  /\ failed => total = 0 /\ peer = "closed"
  /\ pc = "idle" /\ amount = 0 /\ taken = 0 /\ polls = 0 /\ delivered = 0
  /\ garbage = 0 /\ calls = 0 /\ arrived = 0

-----------------------------------------------------------------------------
(* The peer and the network. *)

Arrive ==
  /\ peer = "open"
  /\ \E n \in 1 .. unsent :
       /\ unsent' = unsent - n
       /\ kernel' = kernel + n
  /\ UNCHANGED <<total, peer, buffered, failed, pc, localVars, resultVars, callVars>>

PeerCloses ==
  /\ peer = "open" /\ peer' = "closed"
  /\ UNCHANGED <<total, unsent, socketVars, pc, localVars, resultVars, callVars>>

PeerResets ==
  /\ peer # "reset" /\ peer' = "reset"
  /\ kernel' = IF ResetDropsData THEN 0 ELSE kernel
  /\ UNCHANGED <<total, unsent, buffered, failed, pc, localVars, resultVars, callVars>>

-----------------------------------------------------------------------------
(* The reader. *)

(* Mutant of GetBodySize: what the stream has fetched already is ignored. *)
AvailableOnly == kernel

GetBodySize == kernel + buffered

(* readString or readStream calls read. *)
CallRead ==
  /\ pc = "idle" /\ calls < MaxCalls /\ calls' = calls + 1
  /\ arrived' = delivered + GetBodySize /\ pc' = "measure"
  /\ UNCHANGED <<peerVars, socketVars, localVars, resultVars>>

(* Mutant of Measure: the size of the local buffer is forgotten. *)
MeasureUnbounded ==
  /\ pc = "measure" /\ amount' = GetBodySize /\ polls' = 0
  /\ pc' = IF amount' = 0 THEN "poll" ELSE "read"
  /\ UNCHANGED <<peerVars, socketVars, taken, resultVars, callVars>>

Measure ==
  /\ pc = "measure" /\ amount' = Lesser(GetBodySize, ChunkSize) /\ polls' = 0
  /\ pc' = IF amount' = 0 THEN "poll" ELSE "read"
  /\ UNCHANGED <<peerVars, socketVars, taken, resultVars, callVars>>

Poll ==
  /\ pc = "poll"
  /\ pc' = IF GetBodySize > 0 THEN "recheck" ELSE "sleep"
  /\ UNCHANGED <<peerVars, socketVars, localVars, resultVars, callVars>>

(* Mutant of Sleep: the loop has no timeout. *)
SleepForever ==
  /\ pc = "sleep" /\ pc' = "poll"
  /\ UNCHANGED <<peerVars, socketVars, localVars, resultVars, callVars>>

(* A sleep takes 10 ms or any time longer: the timeout may have passed     *)
(* after each, and has after MaxPolls of them.                             *)
Sleep ==
  /\ pc = "sleep" /\ polls' = polls + 1
  /\ \/ polls' < MaxPolls /\ pc' = "poll"
     \/ pc' = "recheck"
  /\ UNCHANGED <<peerVars, socketVars, amount, taken, resultVars, callVars>>

Recheck ==
  /\ pc = "recheck"
  /\ pc' = IF GetBodySize = 0 THEN "idle" ELSE "remeasure"
  /\ UNCHANGED <<peerVars, socketVars, localVars, resultVars, callVars>>

(* Mutant of Remeasure: asks for a full buffer. *)
RemeasureChunk ==
  /\ pc = "remeasure" /\ amount' = ChunkSize /\ pc' = "read"
  /\ UNCHANGED <<peerVars, socketVars, taken, polls, resultVars, callVars>>

Remeasure ==
  /\ pc = "remeasure" /\ amount' = Lesser(GetBodySize, ChunkSize)
  /\ pc' = "read"
  /\ UNCHANGED <<peerVars, socketVars, taken, polls, resultVars, callVars>>

(* stream_.read(buffer, amount): takes from the get area, ...              *)
Take ==
  /\ pc = "read" /\ ~failed /\ taken < amount /\ buffered > 0
  /\ LET n == Lesser(buffered, amount - taken)
     IN  /\ taken' = taken + n
         /\ buffered' = buffered - n
  /\ UNCHANGED <<peerVars, kernel, failed, pc, amount, polls, resultVars, callVars>>

(* ... fills it from the kernel when it is empty, or blocks until it can,  *)
Fill ==
  /\ pc = "read" /\ ~failed /\ taken < amount /\ buffered = 0 /\ kernel > 0
  /\ buffered' = Lesser(kernel, BufSize) /\ kernel' = kernel - buffered'
  /\ UNCHANGED <<peerVars, failed, pc, localVars, resultVars, callVars>>

(* ... gives up at the end of the stream, setting failbit, ...             *)
Eof ==
  /\ pc = "read" /\ ~failed /\ taken < amount /\ buffered = 0 /\ kernel = 0
  /\ peer # "open" /\ failed' = TRUE /\ pc' = "write"
  /\ UNCHANGED <<peerVars, kernel, buffered, localVars, resultVars, callVars>>

(* ... and does nothing when it has failed before, or has all it wants.    *)
ReadDone ==
  /\ pc = "read"
  /\ failed \/ taken = amount
  /\ pc' = "write"
  /\ UNCHANGED <<peerVars, socketVars, localVars, resultVars, callVars>>

(* The writer is given amount bytes of the local buffer, however many of   *)
(* them have been read.  A full buffer starts another turn.                *)
Write ==
  /\ pc = "write" /\ delivered' = delivered + taken
  /\ garbage' = garbage + (amount - taken) /\ taken' = 0
  /\ pc' = IF amount = ChunkSize THEN "measure" ELSE "idle"
  /\ UNCHANGED <<peerVars, socketVars, amount, polls, callVars>>

(* The callback has read enough. *)
Finished ==
  /\ pc = "idle" /\ calls = MaxCalls
  /\ UNCHANGED vars

Reader == \/ Measure \/ Poll \/ Sleep \/ Recheck \/ Remeasure
          \/ Take \/ Fill \/ Eof \/ ReadDone \/ Write

Network == Arrive \/ PeerCloses \/ PeerResets

Next == CallRead \/ Reader \/ Network \/ Finished

(* The reader's thread runs; the peer need not do anything. *)
Spec     == Init /\ [][Next]_vars
FairSpec == Spec /\ WF_vars(Reader)
-----------------------------------------------------------------------------
(* Properties. *)

PCs == {"idle", "measure", "poll", "sleep", "recheck", "remeasure", "read", "write"}

(* amount fits the local buffer of read. *)
TypeOK ==
  /\ total \in 0 .. BodySize /\ unsent \in 0 .. BodySize
  /\ peer \in {"open", "closed", "reset"} /\ kernel \in 0 .. BodySize
  /\ buffered \in 0 .. BodySize /\ failed \in BOOLEAN /\ pc \in PCs
  /\ amount \in 0 .. ChunkSize /\ taken \in 0 .. amount
  /\ polls \in 0 .. MaxPolls /\ delivered \in 0 .. BodySize /\ garbage \in Nat
  /\ calls \in 0 .. MaxCalls /\ arrived \in 0 .. BodySize

(* Bytes have been lost in the kernel. *)
Dropped == peer = "reset" /\ ResetDropsData

(* stream_.read has no timeout of its own.  It is only asked for bytes     *)
(* that have arrived, so that a peer that stays connected and silent       *)
(* cannot keep a callback beyond read's timeout.                           *)
NeverBlocks ==
  pc = "read" /\ peer = "open" /\ ~failed => amount - taken <= kernel + buffered

(* The writer gets nothing but bytes of the body: stream_.read can come    *)
(* short of amount, and the local buffer keep uninitialised bytes, only    *)
(* when a reset has taken away what had been counted.                      *)
NoGarbage == garbage > 0 => Dropped

(* "@return The body." (connection.hpp:209): nothing that was not sent is  *)
(* handed to the caller (connection.cpp:174-195).                          *)
OnlyBody == garbage = 0

(* What had arrived when read was called, in the kernel or behind the head *)
(* in the stream, has been delivered when it returns, however many chunks  *)
(* it takes and whatever arrives meanwhile.                                *)
ReadsWhatArrived == pc = "idle" /\ ~Dropped => delivered >= arrived

(* "reading the stream content reads it all": what is promised of a read   *)
(* that has not run into its timeout, from a peer that is still there.     *)
ReadsItAll == pc = "idle" /\ calls > 0 /\ peer = "open" /\ polls = 0 => delivered = total

(* A read returns, whatever the peer does. *)
ReadReturns == pc # "idle" ~> pc = "idle"

-----------------------------------------------------------------------------
(* Inductive strengthening: no byte is lost, duplicated or made up. *)

Conserved == ~Dropped => delivered + taken + buffered + kernel + unsent = total

ReaderInv ==
  /\ Conserved /\ delivered + taken + buffered + kernel + unsent <= total
  /\ arrived <= total
  /\ pc \notin {"read", "write"} => taken = 0
  /\ pc = "sleep" => polls < MaxPolls
  /\ pc = "poll" => polls < MaxPolls
  /\ failed /\ ~Dropped => peer # "open" /\ kernel + buffered = 0
  /\ pc = "read" /\ ~Dropped => amount - taken <= kernel + buffered
  /\ pc = "write" /\ ~Dropped => taken = amount
  /\ NoGarbage

(* Where the bytes are that had arrived when read was called. *)
ArrivedInv ==
  ~Dropped =>
    /\ delivered + taken + buffered + kernel >= arrived
    /\ pc \in {"idle", "poll", "sleep", "recheck", "remeasure"} => delivered >= arrived
    /\ pc \in {"read", "write"} /\ amount < ChunkSize => delivered + amount >= arrived
=============================================================================
