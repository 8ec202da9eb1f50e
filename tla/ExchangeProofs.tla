--------------------------- MODULE ExchangeProofs ----------------------------
(***************************************************************************)
(* Theorems about Exchange.                                                *)
(***************************************************************************)
EXTENDS Exchange, FiniteSetTheorems, TLAPS

-----------------------------------------------------------------------------
(* Every step is one of these; the proofs below go through them. *)
(* Steps that may put something on the stream ... *)
SendingSteps ==
  \/ Dispatch \/ ErrorHandler \/ SendChunk
  \/ \E code \in Codes : SendStatus(code) \/ SendHeader(code)
  \/ \E length \in {0, 2} : Send(length) \/ KeptSends(length)
  \/ \E name \in Names, autoDetect \in BOOLEAN : SendFile(name, autoDetect)
  \/ SendJson \/ SendXml \/ End

(* ... and the other steps of callbacks and their connections. *)
QuietSteps ==
  \/ \E type \in Kinds : Type(type)
  \/ \E code \in Codes : Status(code)
  \/ Redirect \/ CallbackTerminates \/ CallbackEnds \/ KeptDrops \/ Close
  \/ UNCHANGED vars

(* The peer, reading the head, and these two are all there is. *)
LEMMA NextCases ==
  ASSUME [Next]_vars
  PROVE  \/ PeerSends \/ PeerEnds \/ PeerResets \/ FileChanges \/ WriteFails
         \/ ReadStart \/ ReadField \/ SendingSteps \/ QuietSteps
BY DEF Next, ThreadStep, Callback, Environment, Over, SendingSteps, QuietSteps

-----------------------------------------------------------------------------
(* Types. *)

AnyLine == LineKinds \union {"request", "garbage"}

MimeTypes == Kinds \union {NoType, "text/plain", "text/html", "application/x-tar",
                           "text/json; charset=UTF-8", "text/xml; charset=UTF-8"}

Ops == {"refusal", "send", "status", "end", "document", "header", "file", "late"}

Responses ==
  [op : Ops, code : StatusCodes, length : Nat \union {NoLength}, body : Nat,
   type : MimeTypes]

HeadWellFormed ==
  /\ pc \in {"fields", "dispatch", "callback", "file"} =>
       \A i \in 1 .. next - 1 :
         lines[i] \in IF i = 1 THEN {"request"} ELSE {"field", "blank"}

TypeInv ==
  /\ lines \in Seq(AnyLine)
  /\ next \in 1 .. Len(lines) + 1
  /\ ended \in BOOLEAN /\ cut \in BOOLEAN /\ reset \in BOOLEAN
  /\ good \in BOOLEAN /\ headDone \in BOOLEAN /\ kept \in BOOLEAN
  /\ threw \in BOOLEAN /\ statusSet \in BOOLEAN
  /\ pc \in {"start", "fields", "dispatch", "callback", "file", "error",
             "done", "terminated", "closed"}
  /\ header \in [code : StatusCodes, type : MimeTypes]
  /\ calls \in 0 .. MaxCalls
  /\ pos \in 0 .. MaxSize /\ file \in 0 .. MaxSize
  /\ sent \in Seq(Responses)

(* A status code has 16 bits. *)
LEMMA NarrowType ==
  ASSUME NEW code \in Int
  PROVE  Narrow(code) \in StatusCodes
BY DEF Narrow, StatusCodes

(* A status text has a length. *)
LEMMA TextType ==
  ASSUME NEW code
  PROVE  translateResponseCode(code) \in Nat
BY DEF translateResponseCode

(* A file is sent with a type of the table, or the header's. *)
LEMMA FileTypeType ==
  ASSUME TypeInv, NEW name, NEW autoDetect
  PROVE  FileType(name, autoDetect) \in MimeTypes
<1>1. \A e : extensionToMimeType(e) \in {"text/html", "application/x-tar", NoType}
  BY DEF extensionToMimeType, extensionToMimeMappings
<1>2. header.type \in MimeTypes
  BY DEF TypeInv
<1> QED
  BY <1>1, <1>2 DEF FileType, MimeTypes

(* A chunk lies within the file. *)
LEMMA ChunkType ==
  ASSUME ExchangeAssumption, TypeInv
  PROVE  /\ Chunk \in Nat
         /\ Chunk = ChunkSize => pos + Chunk \in 0 .. MaxSize
         /\ pos <= file => pos + Chunk <= file
         /\ pos <= file /\ Chunk # ChunkSize => pos + Chunk = file
<1>1. CASE pos >= file
  BY <1>1 DEF Chunk, ExchangeAssumption, TypeInv
<1>2. CASE pos < file
  <2> DEFINE S == {ChunkSize, file - pos}
  <2>1. S \subseteq Nat /\ \E x \in S : \A y \in S : x <= y
    BY <1>2 DEF ExchangeAssumption, TypeInv
  <2>2. Min(S) \in S /\ \A y \in S : Min(S) <= y
    BY <2>1 DEF Min
  <2>3. Chunk = Min(S)
    BY <1>2 DEF Chunk, TypeInv
  <2>4. /\ Chunk = ChunkSize \/ Chunk = file - pos
        /\ Chunk <= file - pos
    BY <2>2, <2>3
  <2> QED
    BY <2>4, <1>2 DEF TypeInv, ExchangeAssumption
<1> QED
  BY <1>1, <1>2 DEF TypeInv

(* What Put does: one response of the right type, if the stream is good.   *)
LEMMA PutType ==
  ASSUME TypeInv, NEW response \in Responses, Put(response)
  PROVE  sent' \in Seq(Responses) /\ good' \in BOOLEAN
BY DEF Put, TypeInv

(* What PutText may do besides: the response with a part of its text. *)
LEMMA TextCases ==
  ASSUME NEW response, PutText(response)
  PROVE  \/ Put(response)
         \/ /\ good /\ good' = FALSE
            /\ \E written \in 0 .. response.body - 1 :
                 sent' = Append(sent, [response EXCEPT !.body = written])
BY DEF PutText

LEMMA PutTextType ==
  ASSUME TypeInv, NEW response \in Responses, PutText(response)
  PROVE  sent' \in Seq(Responses) /\ good' \in BOOLEAN
<1>1. CASE Put(response)
  BY <1>1, PutType
<1>2. ASSUME good' = FALSE, NEW written \in 0 .. response.body - 1,
             sent' = Append(sent, [response EXCEPT !.body = written])
      PROVE  sent' \in Seq(Responses) /\ good' \in BOOLEAN
  <2>1. [response EXCEPT !.body = written] \in Responses
    BY <1>2 DEF Responses
  <2>2. sent' \in Seq(Responses)
    BY <1>2, <2>1 DEF TypeInv
  <2>3. good' \in BOOLEAN
    BY <1>2
  <2> QED
    BY <2>2, <2>3
<1> QED
  BY <1>1, <1>2, TextCases

(* So does sendString. *)
LEMMA SendStringType ==
  ASSUME TypeInv, NEW op \in Ops, NEW code \in StatusCodes, NEW length \in Nat,
         NEW type \in MimeTypes, SendString(op, code, length, type)
  PROVE  sent' \in Seq(Responses) /\ good' \in BOOLEAN
<1>1. Response(op, code, length, IF code = 204 THEN 0 ELSE length,
               IF type = NoType THEN "text/plain" ELSE type) \in Responses
  BY DEF Response, Responses, MimeTypes
<1> QED
  BY <1>1, PutTextType DEF SendString

-----------------------------------------------------------------------------
(* Types are kept.  HeadWellFormed needs to know, besides them, that no    *)
(* more than what was read is kept after a reset, and where reading is.    *)

FirstRead == (pc = "start" => next = 1) /\ (pc = "fields" => next >= 2)

LaterLines == \A i \in 2 .. Len(lines) : lines[i] \in LineKinds

HeadInv == FirstRead /\ LaterLines /\ HeadWellFormed

(* One more line: what was there stays as it was. *)
LEMMA OneMoreLine ==
  ASSUME TypeInv, HeadInv, ~headDone,
         NEW kind \in IF lines = <<>> THEN {"request", "garbage"} ELSE LineKinds,
         lines' = Append(lines, kind),
         UNCHANGED <<next, pc>>
  PROVE  /\ lines' \in Seq(AnyLine)
         /\ next \in 1 .. Len(lines') + 1
         /\ HeadInv'
<1>1. kind \in AnyLine
  BY DEF AnyLine
<1>2. /\ lines' \in Seq(AnyLine)
      /\ Len(lines') = Len(lines) + 1
      /\ lines'[Len(lines')] = kind
      /\ \A i \in 1 .. Len(lines) : lines'[i] = lines[i]
  BY <1>1 DEF TypeInv
<1>3. Len(lines) \in Nat /\ (Len(lines) = 0 => lines = <<>>)
  BY DEF TypeInv
<1>4. LaterLines'
  BY <1>2, <1>3 DEF LaterLines, HeadInv
<1>5. FirstRead' /\ HeadWellFormed'
  BY <1>2, <1>3 DEF FirstRead, HeadWellFormed, HeadInv, TypeInv
<1> QED
  BY <1>2, <1>3, <1>4, <1>5 DEF HeadInv, TypeInv

(* The peer, and who writes to files, keep types and the head's shape. *)
LEMMA PeerTypes ==
  ASSUME ExchangeAssumption, TypeInv, HeadInv,
         PeerSends \/ PeerEnds \/ PeerResets \/ FileChanges \/ WriteFails
  PROVE  TypeInv' /\ HeadInv'
<1> USE DEF headVars, respVars, fileVars
<1>1. CASE PeerSends
  BY <1>1, OneMoreLine DEF PeerSends, TypeInv
<1>2. CASE PeerEnds
  <2>1. CASE UNCHANGED <<lines, cut>>
    BY <1>2, <2>1 DEF PeerEnds, TypeInv, HeadInv, FirstRead, LaterLines, HeadWellFormed
  <2>2. CASE \E kind \in IF lines = <<>> THEN {"request", "garbage"} ELSE LineKinds :
               lines' = Append(lines, kind)
    <3>1. lines' \in Seq(AnyLine) /\ next \in 1 .. Len(lines') + 1 /\ HeadInv'
      BY <1>2, <2>2, OneMoreLine DEF PeerEnds
    <3> QED
      BY <1>2, <3>1 DEF PeerEnds, TypeInv
  <2> QED
    BY <1>2, <2>1, <2>2 DEF PeerEnds
<1>3. CASE PeerResets
  <2>1. PICK last \in (next - 1) .. Len(lines) :
               /\ lines' = SubSeq(lines, 1, last)
               /\ cut' = (cut /\ last = Len(lines))
    BY <1>3 DEF PeerResets
  <2>2. last \in 0 .. Len(lines)
    BY <2>1 DEF TypeInv
  <2>3. lines' \in Seq(AnyLine) /\ Len(lines') = last
        /\ \A i \in 1 .. last : lines'[i] = lines[i]
    BY <2>1, <2>2 DEF TypeInv
  <2>4. HeadInv'
    BY <1>3, <2>1, <2>2, <2>3
       DEF PeerResets, TypeInv, HeadInv, FirstRead, LaterLines, HeadWellFormed
  <2>5. next' \in 1 .. Len(lines') + 1 /\ cut' \in BOOLEAN
    BY <1>3, <2>1, <2>2, <2>3 DEF PeerResets, TypeInv
  <2> QED
    BY <1>3, <2>3, <2>4, <2>5 DEF PeerResets, TypeInv
<1>4. CASE FileChanges
  BY <1>4 DEF FileChanges, TypeInv, HeadInv, FirstRead, LaterLines, HeadWellFormed, peerVars
<1>5. CASE WriteFails
  BY <1>5 DEF WriteFails, TypeInv, HeadInv, FirstRead, LaterLines, HeadWellFormed, peerVars
<1> QED
  BY <1>1, <1>2, <1>3, <1>4, <1>5

(* So does reading the head: what it goes on from is well-formed. *)
LEMMA HeadTypes ==
  ASSUME ExchangeAssumption, TypeInv, HeadInv, ReadStart \/ ReadField
  PROVE  TypeInv' /\ HeadInv'
<1> USE DEF peerVars, headVars, respVars, fileVars
<1>0. Len(lines) \in Nat /\ lines' = lines
  BY DEF TypeInv, ReadStart, ReadField
<1>9. GoodAfterLine \in BOOLEAN /\ (lines[next] = "blank") \in BOOLEAN /\ FALSE \in BOOLEAN
  BY DEF GoodAfterLine
<1>1. CASE ReadStart
  <2>1. next' \in 1 .. Len(lines) + 1
    BY <1>0, <1>1 DEF ReadStart, Readable, TypeInv
  <2>5. good' \in BOOLEAN
    BY <1>1, <1>9 DEF ReadStart
  <2>2. pc' \in {"fields", "error"}
    BY <1>1 DEF ReadStart
  <2>3. next = 1 /\ (pc' = "fields" => next' = 2 /\ lines[1] = "request")
    BY <1>1 DEF ReadStart, HeadInv, FirstRead
  <2>4. TypeInv'
    BY <1>1, <2>1, <2>2, <2>5 DEF ReadStart, TypeInv
  <2>6. HeadWellFormed'
    <3>1. CASE pc' = "fields"
      <4>1. \A i \in 1 .. next' - 1 : i = 1 /\ lines'[i] = "request"
        BY <1>0, <2>3, <3>1
      <4> QED
        BY <4>1 DEF HeadWellFormed
    <3>2. CASE pc' = "error"
      BY <3>2 DEF HeadWellFormed
    <3> QED
      BY <2>2, <3>1, <3>2
  <2> QED
    BY <1>1, <2>2, <2>3, <2>4, <2>6 DEF ReadStart, HeadInv, FirstRead, LaterLines, HeadWellFormed
<1>2. CASE ReadField
  <2>1. CASE Readable /\ next' = next + 1
    <3>1. lines[next] \in LineKinds
      BY <1>0, <1>2, <2>1 DEF Readable, ReadField, TypeInv, HeadInv, FirstRead, LaterLines
    <3>2. pc' \in {"fields", "error", "dispatch"} /\ (pc' # "error" => lines[next] \in {"field", "blank"})
      BY <1>2, <2>1, <3>1 DEF ReadField, LineKinds, TypeInv
    <3>3. next' \in 1 .. Len(lines) + 1
      BY <1>0, <2>1 DEF Readable, TypeInv
    <3>4. good' \in BOOLEAN /\ headDone' \in BOOLEAN
      BY <1>2, <1>9 DEF ReadField, headVars, TypeInv
    <3>6. TypeInv'
      BY <1>2, <3>2, <3>3, <3>4 DEF ReadField, TypeInv
    <3>5. HeadWellFormed'
      <4>1. CASE pc' = "error"
        BY <4>1 DEF HeadWellFormed
      <4>2. CASE pc' # "error"
        <5>1. pc = "fields" /\ next \in Nat /\ next >= 2
          BY <1>2 DEF ReadField, HeadInv, FirstRead, TypeInv
        <5>2. /\ lines[1] = "request"
              /\ \A i \in 2 .. next - 1 : lines[i] \in {"field", "blank"}
          BY <5>1 DEF HeadInv, HeadWellFormed
        <5>3. \A i \in 2 .. next : lines[i] \in {"field", "blank"}
          BY <3>2, <4>2, <5>1, <5>2
        <5> QED
          BY <1>0, <2>1, <5>1, <5>2, <5>3 DEF HeadWellFormed
      <4> QED
        BY <4>1, <4>2
    <3> QED
      BY <1>0, <1>2, <2>1, <3>2, <3>5, <3>6 DEF ReadField, HeadInv, FirstRead, LaterLines, TypeInv
  <2>2. CASE UNCHANGED headVars /\ good' = FALSE /\ pc' = "dispatch"
    BY <1>2, <2>2 DEF ReadField, TypeInv, HeadInv, FirstRead, LaterLines, HeadWellFormed
  <2> QED
    BY <1>2, <2>1, <2>2 DEF ReadField
<1> QED
  BY <1>1, <1>2

(* Whatever is sent is a response. *)
LEMMA SendingTypes ==
  ASSUME ExchangeAssumption, TypeInv, SendingSteps
  PROVE  TypeInv'
<1> USE DEF peerVars, headVars, respVars, fileVars
<1>0. /\ header.code \in StatusCodes /\ header.type \in MimeTypes
      /\ NoType \in MimeTypes
      /\ \A code \in {204, 400, 404, 501} : code \in StatusCodes
  <2>1. header.code \in StatusCodes /\ header.type \in MimeTypes
    BY DEF TypeInv
  <2>2. NoType \in MimeTypes
    BY DEF MimeTypes
  <2>3. \A code \in {204, 400, 404, 501} : code \in StatusCodes
    BY DEF StatusCodes
  <2> QED
    BY <2>1, <2>2, <2>3
<1>1. ASSUME NEW code \in {400, 404, 501}, SendRefusal(code) PROVE sent' \in Seq(Responses) /\ good' \in BOOLEAN
  BY <1>0, <1>1, TextType, SendStringType DEF SendRefusal, Ops
<1>2. CASE Dispatch
  <2>1. sent' \in Seq(Responses) /\ good' \in BOOLEAN
    BY <1>1, <1>2 DEF Dispatch, TypeInv
  <2> QED
    BY <1>2, <2>1 DEF Dispatch, TypeInv
<1>3. CASE ErrorHandler
  BY <1>1, <1>3 DEF ErrorHandler, TypeInv
<1>4. CASE SendChunk
  <2>1. sent' \in Seq(Responses)
    <3>1. CASE good /\ sent # <<>>
      <4>1. Len(sent) \in DOMAIN sent /\ sent[Len(sent)] \in Responses
        BY <3>1 DEF TypeInv
      <4>2. [sent[Len(sent)] EXCEPT !.body = @ + Chunk] \in Responses
        BY <4>1, ChunkType DEF Responses
      <4>3. sent' = [sent EXCEPT ![Len(sent)] = [sent[Len(sent)] EXCEPT !.body = @ + Chunk]]
        BY <1>4, <3>1 DEF SendChunk
      <4> QED
        BY <4>1, <4>2, <4>3 DEF TypeInv
    <3>2. CASE ~good
      BY <1>4, <3>2 DEF SendChunk, TypeInv
    <3>3. CASE sent = <<>>
      <4>1. sent = [i \in {} |-> 0] /\ DOMAIN sent = {}
        BY <3>3
      <4>2. ASSUME NEW e PROVE [sent EXCEPT ![Len(sent)].body = e] = sent
        BY <4>1
      <4> QED
        BY <1>4, <4>2 DEF SendChunk, TypeInv
    <3> QED
      BY <3>1, <3>2, <3>3 DEF TypeInv
  <2>2. pos' \in 0 .. MaxSize /\ file' \in 0 .. MaxSize /\ pc' \in {"file", "callback"}
    BY <1>4, ChunkType DEF SendChunk, TypeInv, ExchangeAssumption
  <2> QED
    BY <1>4, <2>1, <2>2 DEF SendChunk, TypeInv
<1>5. ASSUME Calls PROVE calls' \in 0 .. MaxCalls
  BY <1>5 DEF Calls, TypeInv, ExchangeAssumption
<1>6. ASSUME NEW code \in Codes, SendStatus(code) PROVE TypeInv'
  <2>1. Narrow(code) \in StatusCodes
    BY NarrowType DEF ExchangeAssumption
  <2>2. sent' \in Seq(Responses) /\ good' \in BOOLEAN
    BY <1>0, <1>6, <2>1, TextType, SendStringType DEF SendStatus, Ops
  <2>3. header' \in [code : StatusCodes, type : MimeTypes] /\ statusSet' \in BOOLEAN
    BY <1>6, <2>1 DEF SendStatus, SetStatus, TypeInv
  <2> QED
    BY <1>5, <1>6, <2>2, <2>3 DEF SendStatus, Calls, TypeInv
<1>7. ASSUME NEW code \in Codes, SendHeader(code) PROVE TypeInv'
  <2>1. Response("header", Narrow(code), NoLength, 0, NoType) \in Responses
    BY <1>0, NarrowType DEF ExchangeAssumption, Response, Responses, Ops
  <2>2. sent' \in Seq(Responses) /\ good' \in BOOLEAN
    BY <1>7, <2>1, PutType DEF SendHeader
  <2> QED
    BY <1>5, <1>7, <2>2 DEF SendHeader, Calls, TypeInv
<1>8. ASSUME NEW length \in {0, 2}, Send(length) \/ KeptSends(length) PROVE TypeInv'
  <2>1. sent' \in Seq(Responses) /\ good' \in BOOLEAN
    BY <1>0, <1>8, SendStringType DEF Send, KeptSends, Ops
  <2>2. calls' \in 0 .. MaxCalls
    BY <1>5, <1>8 DEF Send, KeptSends, TypeInv, ExchangeAssumption
  <2> QED
    BY <1>8, <2>1, <2>2 DEF Send, KeptSends, Calls, TypeInv
<1>9. ASSUME NEW name, NEW autoDetect, SendFile(name, autoDetect) PROVE TypeInv'
  <2>1. file' \in Nat /\ calls' \in 0 .. MaxCalls
    BY <1>9 DEF SendFile, TypeInv, ExchangeAssumption
  <2>2. Response("file", IF file' = 0 THEN 204 ELSE header.code, file', 0,
                 FileType(name, autoDetect)) \in Responses
    BY <1>0, <2>1, FileTypeType DEF Response, Responses, Ops
  <2>3. sent' \in Seq(Responses) /\ good' \in BOOLEAN
    BY <1>9, <2>2, PutType DEF SendFile
  <2> QED
    BY <1>9, <2>1, <2>3 DEF SendFile, TypeInv
<1>10. CASE SendJson \/ SendXml
  <2>1. PICK type \in MimeTypes : SendDocument(type)
    BY <1>10 DEF SendJson, SendXml, MimeTypes
  <2>2. Response("document", header.code, 2, 2, type) \in Responses
    BY <1>0 DEF Response, Responses, Ops
  <2>3. sent' \in Seq(Responses) /\ good' \in BOOLEAN
    BY <2>1, <2>2, PutTextType DEF SendDocument
  <2> QED
    BY <1>5, <2>1, <2>3 DEF SendDocument, Calls, TypeInv
<1>11. CASE End
  <2>1. sent' \in Seq(Responses) /\ good' \in BOOLEAN
    BY <1>0, <1>11, SendStringType DEF End, Ops
  <2> QED
    BY <1>5, <1>11, <2>1 DEF End, Calls, TypeInv
<1> QED
  BY <1>2, <1>3, <1>4, <1>6, <1>7, <1>8, <1>9, <1>10, <1>11 DEF SendingSteps

(* What does not send keeps the types, the header's above all. *)
LEMMA QuietTypes ==
  ASSUME ExchangeAssumption, TypeInv, QuietSteps
  PROVE  TypeInv'
<1> USE DEF peerVars, headVars, respVars, fileVars
<1>1. ASSUME NEW type \in Kinds, Type(type) PROVE TypeInv'
  <2>1. header' \in [code : StatusCodes, type : MimeTypes]
    BY <1>1 DEF Type, TypeInv, MimeTypes
  <2> QED
    BY <1>1, <2>1 DEF Type, Calls, TypeInv, ExchangeAssumption
<1>2. ASSUME NEW code \in Int, SetStatus(code)
      PROVE header' \in [code : StatusCodes, type : MimeTypes] /\ statusSet' \in BOOLEAN
  <2>1. Narrow(code) \in StatusCodes
    BY NarrowType
  <2> QED
    BY <1>2, <2>1 DEF SetStatus, TypeInv
<1>3. ASSUME NEW code \in Codes, Status(code) PROVE TypeInv'
  <2>1. header' \in [code : StatusCodes, type : MimeTypes] /\ statusSet' \in BOOLEAN
    BY <1>2, <1>3 DEF Status, ExchangeAssumption
  <2> QED
    BY <1>3, <2>1 DEF Status, Calls, TypeInv, ExchangeAssumption
<1>4. CASE Redirect
  <2>1. header' \in [code : StatusCodes, type : MimeTypes] /\ statusSet' \in BOOLEAN
    BY <1>2, <1>4 DEF Redirect, TypeInv
  <2> QED
    BY <1>4, <2>1 DEF Redirect, Calls, TypeInv, ExchangeAssumption
<1>5. CASE CallbackTerminates \/ CallbackEnds \/ KeptDrops \/ Close \/ UNCHANGED vars
  <2>1. CASE CallbackEnds
    <3>1. kept' \in BOOLEAN /\ threw' \in BOOLEAN
      BY <2>1 DEF CallbackEnds, TypeInv
    <3>2. pc' \in {"done", "error"}
      BY <2>1 DEF CallbackEnds
    <3> QED
      BY <2>1, <3>1, <3>2 DEF CallbackEnds, TypeInv
  <2>2. CASE CallbackTerminates \/ Close
    BY <2>2 DEF CallbackTerminates, Close, TypeInv
  <2>3. CASE KeptDrops
    BY <2>3 DEF KeptDrops, TypeInv
  <2>4. CASE UNCHANGED vars
    BY <2>4 DEF TypeInv, vars
  <2> QED
    BY <1>5, <2>1, <2>2, <2>3, <2>4
<1> QED
  BY <1>1, <1>3, <1>4, <1>5 DEF QuietSteps

(* Once read, the head is left alone. *)
LEMMA HeadStays ==
  ASSUME TypeInv, HeadInv, SendingSteps \/ QuietSteps
  PROVE  HeadInv'
<1>1. UNCHANGED <<lines, next>>
  BY DEF SendingSteps, QuietSteps, Dispatch, ErrorHandler, SendChunk, SendStatus, SendHeader,
     Send, KeptSends, SendFile, SendJson, SendXml, SendDocument, End, Type, Status, Redirect,
     CallbackTerminates, CallbackEnds, KeptDrops, Close, Calls, vars, peerVars, headVars
<1>2. \/ pc' = pc
      \/ pc \in {"dispatch", "file", "callback"} /\ pc' \in {"callback", "file"}
      \/ pc' \in {"done", "closed", "terminated", "error"}
  BY DEF SendingSteps, QuietSteps, Dispatch, ErrorHandler, SendChunk, SendStatus, SendHeader,
     Send, KeptSends, SendFile, SendJson, SendXml, SendDocument, End, Type, Status, Redirect,
     CallbackTerminates, CallbackEnds, KeptDrops, Close, Calls, vars
<1> QED
  BY <1>1, <1>2 DEF HeadInv, FirstRead, LaterLines, HeadWellFormed

(* Types and the shape of the head together are invariant. *)
LEMMA TypesKept == ExchangeAssumption /\ Spec => [](TypeInv /\ HeadInv)
<1> SUFFICES ASSUME ExchangeAssumption PROVE Spec => [](TypeInv /\ HeadInv)
  OBVIOUS
<1>1. Init => TypeInv /\ HeadInv
  <2> SUFFICES ASSUME Init PROVE TypeInv /\ HeadInv
    OBVIOUS
  <2>1. header \in [code : StatusCodes, type : MimeTypes]
    BY DEF Init, StatusCodes, MimeTypes
  <2>2. TypeInv
    <3>1. lines \in Seq(AnyLine) /\ sent \in Seq(Responses) /\ next \in 1 .. Len(lines) + 1
      BY DEF Init
    <3>2. /\ ended \in BOOLEAN /\ cut \in BOOLEAN /\ reset \in BOOLEAN
          /\ good \in BOOLEAN /\ headDone \in BOOLEAN /\ kept \in BOOLEAN
          /\ threw \in BOOLEAN /\ statusSet \in BOOLEAN
      BY DEF Init
    <3>3. calls \in 0 .. MaxCalls /\ pos \in 0 .. MaxSize /\ file \in 0 .. MaxSize
      BY DEF Init, ExchangeAssumption
    <3>4. pc = "start"
      BY DEF Init
    <3> QED
      BY <2>1, <3>1, <3>2, <3>3, <3>4 DEF TypeInv
  <2>3. HeadInv
    BY DEF Init, HeadInv, FirstRead, LaterLines, HeadWellFormed
  <2> QED
    BY <2>2, <2>3
<1>2. TypeInv /\ HeadInv /\ [Next]_vars => TypeInv' /\ HeadInv'
  BY NextCases, PeerTypes, HeadTypes, SendingTypes, QuietTypes, HeadStays DEF SendingSteps
<1> QED
  BY <1>1, <1>2, PTL DEF Spec

(* The variables keep their types, status codes their 16 bits; and nothing *)
(* but a well-formed head is ever dispatched, as far as it has been read.  *)
THEOREM TypeCorrect == Spec => []TypeOK
<1>1. TypeInv /\ HeadInv => TypeOK
  <2> SUFFICES ASSUME TypeInv, HeadInv PROVE TypeOK
    OBVIOUS
  <2>1. \A i \in DOMAIN sent : sent[i].code \in StatusCodes
    <3>1. ASSUME NEW i \in DOMAIN sent PROVE sent[i] \in Responses
      BY DEF TypeInv
    <3> QED
      BY <3>1 DEF Responses
  <2> QED
    BY <2>1 DEF TypeInv, HeadInv, HeadWellFormed, TypeOK, AnyLine
<1> QED
  BY <1>1, TypesKept, ExchangeAssumption, PTL

-----------------------------------------------------------------------------
(* Who has answered. *)

(* What each step can do to the responses on the stream: it appends one,   *)
(* whose kind tells where the thread is, or leaves their kinds alone.      *)
LEMMA OneResponse ==
  ASSUME ExchangeAssumption, TypeInv, [Next]_vars
  PROVE  /\ DOMAIN sent \subseteq DOMAIN sent'
         /\ \A i \in DOMAIN sent : sent'[i].op = sent[i].op
         /\ \/ Len(sent') = Len(sent)
            \/ /\ Len(sent') = Len(sent) + 1 /\ good
               /\ \/ /\ sent'[Len(sent')].op = "refusal"
                     /\ pc \in {"dispatch", "error"} /\ pc' = "done" /\ UNCHANGED kept
                  \/ /\ sent'[Len(sent')].op # "refusal"
                     /\ \/ pc = "callback" /\ pc' \in {"callback", "file"}
                        \/ pc = "done" /\ kept /\ pc' = pc
                     /\ UNCHANGED kept
<1> DEFINE Goal ==
         /\ DOMAIN sent \subseteq DOMAIN sent'
         /\ \A i \in DOMAIN sent : sent'[i].op = sent[i].op
         /\ \/ Len(sent') = Len(sent)
            \/ /\ Len(sent') = Len(sent) + 1 /\ good
               /\ \/ /\ sent'[Len(sent')].op = "refusal"
                     /\ pc \in {"dispatch", "error"} /\ pc' = "done" /\ UNCHANGED kept
                  \/ /\ sent'[Len(sent')].op # "refusal"
                     /\ \/ pc = "callback" /\ pc' \in {"callback", "file"}
                        \/ pc = "done" /\ kept /\ pc' = pc
                     /\ UNCHANGED kept
<1>0. sent \in Seq(Responses)
  BY DEF TypeInv
<1>1. ASSUME UNCHANGED sent PROVE Goal
  BY <1>0, <1>1
<1>2. ASSUME NEW r, PutText(r)
      PROVE  \/ sent' = sent
             \/ /\ good /\ Len(sent') = Len(sent) + 1
                /\ \E body : sent'[Len(sent')] \in {r, [r EXCEPT !.body = body]}
                /\ DOMAIN sent \subseteq DOMAIN sent'
                /\ \A i \in DOMAIN sent : sent'[i] = sent[i]
  <2> DEFINE Appended(e) == /\ Len(sent') = Len(sent) + 1
                            /\ sent'[Len(sent')] = e
                            /\ DOMAIN sent \subseteq DOMAIN sent'
                            /\ \A i \in DOMAIN sent : sent'[i] = sent[i]
  <2>1. ASSUME NEW e, sent' = Append(sent, e) PROVE Appended(e)
    BY <1>0, <2>1
  <2>2. CASE Put(r)
    <3>1. sent' = sent \/ (good /\ sent' = Append(sent, r))
      BY <2>2 DEF Put
    <3>2. sent' = sent \/ (good /\ Appended(r))
      BY <2>1, <3>1
    <3> QED
      BY <3>2
  <2>3. ASSUME good, NEW body, sent' = Append(sent, [r EXCEPT !.body = body])
        PROVE  Appended([r EXCEPT !.body = body])
    BY <2>1, <2>3
  <2> QED
    BY <1>2, <2>2, <2>3, TextCases
<1>3. ASSUME NEW op, NEW code, NEW length, NEW body, NEW type
      PROVE  LET r == Response(op, code, length, body, type)
             IN  \A e : r.op = op /\ [r EXCEPT !.body = e].op = op
  BY DEF Response
<1>4. ASSUME NEW op, NEW code, NEW length, NEW body, NEW type,
             PutText(Response(op, code, length, body, type))
      PROVE  \/ sent' = sent
             \/ /\ good /\ Len(sent') = Len(sent) + 1 /\ sent'[Len(sent')].op = op
                /\ DOMAIN sent \subseteq DOMAIN sent'
                /\ \A i \in DOMAIN sent : sent'[i].op = sent[i].op
  <2> DEFINE r == Response(op, code, length, body, type)
  <2>1. r.op = op /\ \A e : [r EXCEPT !.body = e].op = op
    BY <1>3
  <2>2. PutText(r)
    BY <1>4
  <2> HIDE DEF r
  <2>3. \/ sent' = sent
        \/ /\ good /\ Len(sent') = Len(sent) + 1
           /\ \E e : sent'[Len(sent')] \in {r, [r EXCEPT !.body = e]}
           /\ DOMAIN sent \subseteq DOMAIN sent'
           /\ \A i \in DOMAIN sent : sent'[i] = sent[i]
    BY <1>2, <2>2
  <2> QED
    BY <2>1, <2>3
<1>5. ASSUME NEW op, NEW code, NEW length, NEW body, NEW type,
             PutText(Response(op, code, length, body, type)), UNCHANGED kept,
             IF op = "refusal"
             THEN pc \in {"dispatch", "error"} /\ pc' = "done"
             ELSE \/ pc = "callback" /\ pc' \in {"callback", "file"}
                  \/ pc = "done" /\ kept /\ pc' = pc
      PROVE  Goal
  BY <1>1, <1>4, <1>5
<1>6. CASE PeerSends \/ PeerEnds \/ PeerResets \/ FileChanges \/ WriteFails \/ ReadStart \/ ReadField \/ QuietSteps
  <2>1. UNCHANGED sent
    BY <1>6 DEF PeerSends, PeerEnds, PeerResets, FileChanges, WriteFails, ReadStart, ReadField,
       QuietSteps, Type, Status, Redirect, CallbackTerminates, CallbackEnds, KeptDrops, Close, vars
  <2> QED
    BY <1>1, <2>1
<1>7. CASE Dispatch
  BY <1>1, <1>5, <1>7 DEF Dispatch, SendRefusal, SendString
<1>8. CASE ErrorHandler
  BY <1>5, <1>8 DEF ErrorHandler, SendRefusal, SendString
<1>9. CASE SendChunk
  <2>1. CASE good /\ Len(sent) \in DOMAIN sent
    <3>1. sent' = [sent EXCEPT ![Len(sent)] = [sent[Len(sent)] EXCEPT !.body = @ + Chunk]]
      BY <1>9, <2>1 DEF SendChunk
    <3>2. sent[Len(sent)] \in Responses
      BY <1>0, <2>1
    <3>3. [sent[Len(sent)] EXCEPT !.body = @ + Chunk].op = sent[Len(sent)].op
      BY <3>2 DEF Responses
    <3>4. DOMAIN sent' = DOMAIN sent /\ \A i \in DOMAIN sent : sent'[i].op = sent[i].op
      BY <1>0, <2>1, <3>1, <3>3
    <3>5. Len(sent') = Len(sent)
      BY <1>0, <2>1, <3>1
    <3> QED
      BY <3>4, <3>5
  <2>2. CASE ~(good /\ Len(sent) \in DOMAIN sent)
    <3>1. sent' = [i \in DOMAIN sent |-> sent[i]]
      BY <1>0, <1>9, <2>2 DEF SendChunk
    <3> QED
      BY <1>0, <1>1, <3>1
  <2> QED
    BY <2>1, <2>2
<1>10. ASSUME NEW code, SendStatus(code) \/ SendHeader(code) PROVE Goal
  <2>1. CASE SendStatus(code)
    BY <1>5, <2>1 DEF SendStatus, SendString, Calls
  <2>2. CASE SendHeader(code)
    BY <1>5, <2>2 DEF SendHeader, Calls, PutText
  <2> QED
    BY <1>10, <2>1, <2>2
<1>11. ASSUME NEW length, Send(length) PROVE Goal
  BY <1>5, <1>11 DEF Send, SendString, Calls
<1>12. ASSUME NEW length, KeptSends(length) PROVE Goal
  BY <1>5, <1>12 DEF KeptSends, SendString
<1>13. ASSUME NEW name, NEW autoDetect, SendFile(name, autoDetect) PROVE Goal
  BY <1>5, <1>13 DEF SendFile, PutText
<1>14. ASSUME NEW type, SendDocument(type) PROVE Goal
  BY <1>5, <1>14 DEF SendDocument, Calls
<1>15. CASE End
  BY <1>5, <1>15 DEF End, SendString, Calls
<1>16. CASE SendingSteps
  <2>1. CASE SendJson \/ SendXml
    BY <1>14, <2>1 DEF SendJson, SendXml
  <2> QED
    BY <1>7, <1>8, <1>9, <1>10, <1>11, <1>12, <1>13, <1>15, <1>16, <2>1 DEF SendingSteps
<1>17. Goal
  BY <1>6, <1>16, NextCases
<1> QED
  BY <1>17 DEF Goal

(* What the steps that do not read the head do to everything else.         *)
LEMMA Frame ==
  ASSUME [Next]_vars, ~ReadStart, ~ReadField
  PROVE  /\ headDone' = headDone /\ (good' => good)
         /\ \/ pc' = pc
            \/ pc \in {"dispatch", "file"} /\ pc' = "callback"
            \/ pc \in {"dispatch", "error"} /\ pc' = "done"
            \/ pc = "callback" /\ pc' \in {"file", "done", "terminated"}
            \/ pc = "callback" /\ pc' = "error" /\ threw'
            \/ pc = "done" /\ pc' = "closed"
         /\ kept' => kept \/ pc = "callback"
         /\ pc \in {"start", "fields"} => UNCHANGED <<sent, kept>>
         /\ threw' = threw \/ (pc = "callback" /\ threw' /\ UNCHANGED sent)
<1>1. CASE PeerSends \/ PeerEnds \/ PeerResets \/ FileChanges \/ WriteFails
  BY <1>1 DEF PeerSends, PeerEnds, PeerResets, FileChanges, WriteFails, headVars
<1>2. CASE SendingSteps \/ QuietSteps
  <2> USE DEF SendingSteps, QuietSteps, Dispatch, ErrorHandler, SendChunk, SendStatus,
        SendHeader, Send, KeptSends, SendFile, SendJson, SendXml, SendDocument, End, Type,
        Status, Redirect, CallbackTerminates, CallbackEnds, KeptDrops, Close, Calls, vars,
        headVars
  <2>1. headDone' = headDone
    BY <1>2
  <2>6. good' => good
    <3> USE DEF SendRefusal, SendString, PutText, Put
    <3>1. CASE QuietSteps \/ SendChunk
      BY <3>1
    <3>2. CASE Dispatch \/ ErrorHandler
      BY <3>2
    <3>3. CASE SendJson \/ SendXml \/ End
      BY <3>3
    <3>4. ASSUME NEW code, SendStatus(code) \/ SendHeader(code) PROVE good' => good
      BY <3>4
    <3>5. ASSUME NEW length, Send(length) \/ KeptSends(length) PROVE good' => good
      BY <3>5
    <3>6. ASSUME NEW name, NEW autoDetect, SendFile(name, autoDetect) PROVE good' => good
      BY <3>6
    <3> HIDE DEF QuietSteps, Dispatch, ErrorHandler, SendChunk, SendStatus, SendHeader, Send,
          KeptSends, SendFile, SendJson, SendXml, End
    <3> QED
      BY <1>2, <3>1, <3>2, <3>3, <3>4, <3>5, <3>6
  <2>2. \/ pc' = pc
        \/ pc \in {"dispatch", "file"} /\ pc' = "callback"
        \/ pc \in {"dispatch", "error"} /\ pc' = "done"
        \/ pc = "callback" /\ pc' \in {"file", "done", "terminated"}
        \/ pc = "callback" /\ pc' = "error" /\ threw'
        \/ pc = "done" /\ pc' = "closed"
    BY <1>2
  <2>3. kept' => kept \/ pc = "callback"
    BY <1>2
  <2>4. pc \in {"start", "fields"} => UNCHANGED <<sent, kept>>
    BY <1>2
  <2>5. threw' = threw \/ (pc = "callback" /\ threw' /\ UNCHANGED sent)
    BY <1>2
  <2> QED
    BY <2>1, <2>2, <2>3, <2>4, <2>5, <2>6
<1> QED
  BY <1>1, <1>2, NextCases

(* Both ends of a step have responses on the stream. *)
LEMMA SentType ==
  ASSUME ExchangeAssumption, TypeInv, HeadInv, [Next]_vars
  PROVE  sent \in Seq(Responses) /\ sent' \in Seq(Responses)
<1>1. TypeInv'
  BY NextCases, PeerTypes, HeadTypes, SendingTypes, QuietTypes DEF SendingSteps
<1> QED
  BY <1>1 DEF TypeInv

(* Only the blank line lets a callback's answer go out.  The reader's      *)
(* failing on any other end of the head is what keeps the others in.       *)
AnswerInv ==
  /\ good /\ (pc \in {"dispatch", "callback", "file"} \/ kept) => headDone
  /\ pc \in {"start", "fields"} => sent = <<>> /\ ~kept
  /\ AnswersCompleteHeads

(* Every step keeps it. *)
LEMMA AnswerStep ==
  ASSUME ExchangeAssumption, TypeInv, HeadInv, AnswerInv, [Next]_vars
  PROVE  AnswerInv'
<1> USE DEF AnswerInv
<1>1. CASE ReadStart
  BY <1>1 DEF ReadStart, AnswersCompleteHeads, peerVars, GoodAfterLine
<1>2. CASE ReadField
  <2>1. UNCHANGED <<sent, kept>> /\ sent = <<>>
    BY <1>2 DEF ReadField
  <2>2. pc' \in {"dispatch", "callback", "file"} /\ good' => headDone'
    <3>1. CASE Readable /\ next' = next + 1 /\ headDone' = (lines[next] = "blank")
      <4>1. lines[next] \in LineKinds
        BY <1>2, <3>1 DEF Readable, ReadField, TypeInv, HeadInv, FirstRead, LaterLines
      <4>2. pc' = "dispatch" => lines[next] = "blank"
        BY <1>2, <3>1, <4>1 DEF ReadField, LineKinds, headVars, TypeInv
      <4> QED
        BY <1>2, <3>1, <4>1, <4>2 DEF ReadField, LineKinds, headVars, TypeInv
    <3>2. CASE good' = FALSE
      BY <3>2
    <3> QED
      BY <1>2, <3>1, <3>2 DEF ReadField
  <2> QED
    BY <1>2, <2>1, <2>2 DEF ReadField, AnswersCompleteHeads
<1>3. CASE ~ReadStart /\ ~ReadField
  <2>1. \A i \in DOMAIN sent' : sent'[i].op # "refusal" => headDone'
    <3> SUFFICES ASSUME NEW i \in DOMAIN sent', sent'[i].op # "refusal" PROVE headDone'
      OBVIOUS
    <3>1. CASE i \in DOMAIN sent
      BY <1>3, <3>1, Frame, OneResponse DEF AnswersCompleteHeads
    <3>2. CASE i \notin DOMAIN sent
      <4>1. i = Len(sent') /\ Len(sent') # Len(sent)
        BY <3>2, SentType, OneResponse
      <4> QED
        BY <1>3, <4>1, Frame, OneResponse
    <3> QED
      BY <3>1, <3>2
  <2>2. pc' \in {"start", "fields"} => sent' = <<>> /\ ~kept'
    BY <1>3, Frame
  <2>3. good' /\ (pc' \in {"dispatch", "callback", "file"} \/ kept') => headDone'
    BY <1>3, Frame
  <2> QED
    BY <2>1, <2>2, <2>3 DEF AnswersCompleteHeads
<1> QED
  BY <1>1, <1>2, <1>3

(* No peer gets a callback's answer to a head whose blank line has not     *)
(* been read, though callbacks run on heads that were cut off.             *)
THEOREM OnlyCompleteHeadsAnswered == Spec => []AnswersCompleteHeads
<1>1. Init => AnswerInv
  BY DEF Init, AnswerInv, AnswersCompleteHeads
<1>2. TypeInv /\ HeadInv /\ AnswerInv /\ [Next]_vars => AnswerInv'
  BY AnswerStep, ExchangeAssumption
<1>3. AnswerInv => AnswersCompleteHeads
  BY DEF AnswerInv
<1> QED
  BY <1>1, <1>2, <1>3, TypesKept, ExchangeAssumption, PTL DEF Spec

(* A refusal is the one response there is, unless the callback threw after *)
(* it had sent; only then does a kept Response exist besides.              *)
Refusals == {i \in DOMAIN sent : sent[i].op = "refusal"}

OnceInv ==
  /\ pc \in {"start", "fields", "dispatch"} => sent = <<>> /\ ~kept
  /\ pc = "error" /\ ~threw => sent = <<>> /\ ~kept
  /\ pc \in {"callback", "file", "error", "terminated"} => Refusals = {}
  /\ \A i \in Refusals : ~threw => Len(sent) = 1 /\ ~kept
  /\ \A i, j \in Refusals : i = j

(* Every step keeps it. *)
LEMMA OnceStep ==
  ASSUME ExchangeAssumption, TypeInv, HeadInv, OnceInv, [Next]_vars
  PROVE  OnceInv'
<1> USE DEF OnceInv
<1>1. CASE ReadStart \/ ReadField
  <2>1. sent = <<>> /\ ~kept /\ UNCHANGED <<sent, kept>>
    BY <1>1 DEF ReadStart, ReadField
  <2> QED
    BY <2>1 DEF Refusals
<1>2. CASE ~ReadStart /\ ~ReadField
  <2>1. CASE Len(sent') = Len(sent)
    <3>1. Refusals' = Refusals /\ (sent = <<>> => sent' = <<>>)
      BY <2>1, SentType, OneResponse DEF Refusals
    <3>2. pc' \in {"start", "fields", "dispatch"} => sent' = <<>> /\ ~kept'
      BY <1>2, <3>1, Frame
    <3>3. pc' = "error" /\ ~threw' => sent' = <<>> /\ ~kept'
      BY <1>2, <3>1, Frame
    <3>4. pc' \in {"callback", "file", "error", "terminated"} => Refusals' = {}
      <4>1. pc = "dispatch" => Refusals = {}
        BY DEF Refusals
      <4> QED
        BY <1>2, <3>1, <4>1, Frame
    <3>5. \A i \in Refusals' : ~threw' => Len(sent') = 1 /\ ~kept'
      BY <1>2, <2>1, <3>1, Frame
    <3> QED
      BY <3>1, <3>2, <3>3, <3>4, <3>5
  <2>2. CASE Len(sent') # Len(sent) /\ sent'[Len(sent')].op = "refusal"
    <3>1. Refusals' = Refusals \union {Len(sent')} /\ Len(sent') = Len(sent) + 1
      BY <2>2, SentType, OneResponse DEF Refusals
    <3>2. pc \in {"dispatch", "error"} /\ pc' = "done" /\ UNCHANGED <<kept, threw>>
      BY <1>2, <2>2, OneResponse, Frame
    <3>3. Refusals = {} /\ (~threw => Len(sent) = 0 /\ ~kept)
      BY <3>2 DEF Refusals
    <3> QED
      BY <3>1, <3>2, <3>3
  <2>3. CASE Len(sent') # Len(sent) /\ sent'[Len(sent')].op # "refusal"
    <3>1. Refusals' = Refusals
      BY <2>3, SentType, OneResponse DEF Refusals
    <3>2. \/ pc = "callback" /\ pc' \in {"callback", "file"}
          \/ pc = "done" /\ kept /\ pc' = "done"
      BY <2>3, OneResponse
    <3>3. UNCHANGED <<kept, threw>>
      BY <1>2, <2>3, OneResponse, Frame
    <3> QED
      BY <3>1, <3>2, <3>3
  <2> QED
    BY <2>1, <2>2, <2>3
<1> QED
  BY <1>1, <1>2

(* The library answers at most once by itself, and then alone, unless a    *)
(* callback has thrown after it had sent.                                  *)
THEOREM OneRefusal == Spec => []LibraryAnswersOnce
<1>1. Init => OnceInv
  BY DEF Init, OnceInv, Refusals
<1>2. TypeInv /\ HeadInv /\ OnceInv /\ [Next]_vars => OnceInv'
  BY OnceStep, ExchangeAssumption
<1>3. OnceInv => LibraryAnswersOnce
  <2> SUFFICES ASSUME OnceInv PROVE LibraryAnswersOnce
    OBVIOUS
  <2>1. CASE Refusals = {}
    BY <2>1, FS_EmptySet DEF LibraryAnswersOnce, Refusals
  <2>2. CASE Refusals # {}
    <3>0. PICK i \in Refusals : TRUE
      BY <2>2
    <3>1. Refusals = {i}
      BY <3>0 DEF OnceInv
    <3>2. Cardinality(Refusals) = 1
      BY <3>1, FS_Singleton
    <3> QED
      BY <3>1, <3>2 DEF OnceInv, LibraryAnswersOnce, Refusals
  <2> QED
    BY <2>1, <2>2
<1> QED
  BY <1>1, <1>2, <1>3, TypesKept, ExchangeAssumption, PTL DEF Spec

-----------------------------------------------------------------------------
(* Of all that sends, only sendStatus changes what later sends say.        *)
THEOREM HeaderKept == Spec => SendingKeepsHeader
<1>1. ASSUME TypeInv, HeadInv, [Next]_vars
      PROVE  [Len(sent') > Len(sent) /\ header' # header =>
                sent'[Len(sent')].op = "status"]_vars
  <2> USE DEF peerVars, headVars, respVars, fileVars
  <2>1. CASE \E code \in Codes : SendStatus(code)
    <3>1. PICK r : PutText(r) /\ r.op = "status" /\ \A e : [r EXCEPT !.body = e].op = "status"
      BY <2>1 DEF SendStatus, SendString, Response
    <3>2. CASE Put(r)
      BY <3>1, <3>2 DEF Put, TypeInv
    <3>3. ASSUME NEW e, sent' = Append(sent, [r EXCEPT !.body = e])
          PROVE  sent'[Len(sent')].op = "status"
      BY <3>1, <3>3 DEF TypeInv
    <3> QED
      BY <3>1, <3>2, <3>3, TextCases
  <2>2. CASE PeerSends \/ PeerEnds \/ PeerResets \/ FileChanges \/ WriteFails \/ ReadStart
             \/ ReadField \/ (SendingSteps /\ ~\E code \in Codes : SendStatus(code))
    <3>1. header' = header
      BY <2>2 DEF PeerSends, PeerEnds, PeerResets, FileChanges, WriteFails, ReadStart, ReadField,
         SendingSteps, Dispatch, ErrorHandler, SendChunk, SendHeader, Send, KeptSends,
         SendFile, SendJson, SendXml, SendDocument, End
    <3> QED
      BY <3>1
  <2>3. CASE QuietSteps
    <3>1. UNCHANGED sent
      BY <2>3 DEF QuietSteps, Type, Status, Redirect, CallbackTerminates, CallbackEnds,
         KeptDrops, Close, vars
    <3> QED
      BY <3>1 DEF TypeInv
  <2> QED
    BY <1>1, <2>1, <2>2, <2>3, NextCases
<1> QED
  BY <1>1, TypesKept, ExchangeAssumption, PTL DEF Spec, SendingKeepsHeader

-----------------------------------------------------------------------------
(* Names.  In a directory other than the root, a file's extension is its   *)
(* last two words, if there is no dot before them.                         *)
LEMMA ExtensionFound ==
  ASSUME NEW name \in Names,
         Len(name) > 4, name[Len(name) - 3] = "/", name[Len(name) - 2] # ".",
         SubSeq(name, Len(name) - 1, Len(name)) \in DOMAIN extensionToMimeMappings
  PROVE  extractFileExtension(name) = SubSeq(name, Len(name) - 1, Len(name))
<1> DEFINE n         == Len(name)
           words     == {name[i] : i \in DOMAIN name}
           slashes   == Places(name, "/")
           m         == Max(slashes)
           component == SubSeq(name, m, n)
           dots      == Places(component, ".")
<1>0. n > 4 /\ name[n - 3] = "/" /\ name[n - 2] # "."
  OBVIOUS
<1>1. name \in Seq(words) /\ n \in Nat /\ DOMAIN name = 1 .. n
  BY NamesAssumption DEF NamesAssumption
<1>2. name[n - 1] = "." /\ name[n] \in {"html", "tar"}
  <2>1. SubSeq(name, n - 1, n) \in {<<".", "html">>, <<".", "tar">>}
    BY DEF extensionToMimeMappings
  <2>2. \A e \in {<<".", "html">>, <<".", "tar">>} : e[1] = "." /\ e[2] \in {"html", "tar"}
    OBVIOUS
  <2>3. /\ SubSeq(name, n - 1, n)[1] = name[n - 1]
        /\ SubSeq(name, n - 1, n)[2] = name[n]
    BY <1>1
  <2> QED
    BY <2>1, <2>2, <2>3
<1> HIDE DEF n, words
<1>3. slashes \subseteq 1 .. n - 2 /\ n - 3 \in slashes
  <2>1. name[n - 1] # "/" /\ name[n] # "/"
    BY <1>2
  <2>2. \A i \in 1 .. n : i \in 1 .. n - 2 \/ i = n - 1 \/ i = n
    BY <1>1
  <2> QED
    BY <1>0, <1>1, <2>1, <2>2 DEF Places
<1>4. m \in {n - 3, n - 2}
  <2>1. \E x \in slashes : \A y \in slashes : x >= y
    <3>1. CASE n - 2 \in slashes
      BY <1>1, <1>3, <3>1
    <3>2. CASE n - 2 \notin slashes
      BY <1>1, <1>3, <3>2
    <3> QED
      BY <3>1, <3>2
  <2>2. m \in slashes /\ \A y \in slashes : m >= y
    BY <2>1 DEF Max
  <2> QED
    BY <1>1, <1>3, <2>2
<1> HIDE DEF m
<1>5. /\ component \in Seq(words) /\ Len(component) = n - m + 1
      /\ \A j \in 1 .. n - m + 1 : component[j] = name[m + j - 1]
  <2>1. m \in 1 .. n /\ n \in 1 .. n /\ n - m + 1 \in Nat
    BY <1>0, <1>1, <1>4
  <2>2. Len(component) = n - m + 1
    BY <1>1, <2>1 DEF n
  <2>3. \A j \in 1 .. n - m + 1 : component[j] = name[m + j - 1]
    BY <1>1, <2>1 DEF n
  <2>4. component \in Seq(words)
    BY <1>1, <2>1 DEF n
  <2> QED
    BY <2>2, <2>3, <2>4
<1> HIDE DEF component
<1>6. dots = {n - m}
  <2>0. DOMAIN component = 1 .. n - m + 1
    BY <1>1, <1>4, <1>5
  <2>1. n - m \in dots
    <3>1. n - m \in 1 .. n - m + 1 /\ m + (n - m) - 1 = n - 1
      BY <1>0, <1>1, <1>4
    <3> QED
      BY <1>2, <1>5, <2>0, <3>1 DEF Places
  <2>2. ASSUME NEW j \in dots PROVE j = n - m
    <3>1. j \in 1 .. n - m + 1 /\ name[m + j - 1] = "."
      BY <1>5, <2>0 DEF Places
    <3>2. m + j - 1 \notin {n - 3, n - 2, n}
      BY <1>0, <1>2, <3>1
    <3> QED
      BY <1>0, <1>1, <1>4, <3>1, <3>2
  <2> QED
    BY <2>1, <2>2
<1>7. Min(dots) = n - m
  BY <1>1, <1>4, <1>6 DEF Min
<1>8. extractFileExtension(name) = SubSeq(component, n - m, n - m + 1)
  <2>1. m # 1
    BY <1>0, <1>1, <1>4
  <2>2. slashes # {} /\ dots # {}
    BY <1>3, <1>6
  <2> QED
    BY <1>5, <1>7, <2>1, <2>2 DEF extractFileExtension, component, m, n
<1>9. SubSeq(component, n - m, n - m + 1) = SubSeq(name, n - 1, n)
  BY <1>0, <1>1, <1>4, <1>5 DEF component
<1> QED
  BY <1>8, <1>9 DEF n

(* A file in a directory is sent with the type of its extension, if the    *)
(* callback wants it detected, however the header's type was set before.   *)
THEOREM FilesTyped == Spec => FileTyped
<1>1. ASSUME TypeInv, NEW name \in Names,
             Len(name) > 4, name[Len(name) - 3] = "/", name[Len(name) - 2] # ".",
             SubSeq(name, Len(name) - 1, Len(name)) \in DOMAIN extensionToMimeMappings,
             good, SendFile(name, TRUE)
      PROVE  sent'[Len(sent')].type =
               extensionToMimeMappings[SubSeq(name, Len(name) - 1, Len(name))]
  <2> DEFINE extension == SubSeq(name, Len(name) - 1, Len(name))
             type      == extensionToMimeMappings[extension]
  <2>1. extractFileExtension(name) = extension
    BY <1>1, ExtensionFound
  <2>2. type \in {"text/html", "application/x-tar"}
    BY <1>1 DEF extensionToMimeMappings
  <2>3. extensionToMimeType(extension) = type
    BY <1>1 DEF extensionToMimeType
  <2> HIDE DEF extension, type
  <2>4. FileType(name, TRUE) = type
    BY <2>1, <2>2, <2>3 DEF FileType, NoType
  <2> DEFINE r == Response("file", IF file' = 0 THEN 204 ELSE header.code, file', 0,
                           FileType(name, TRUE))
  <2>5. r.type = type /\ sent' = Append(sent, r)
    BY <1>1, <2>4 DEF SendFile, Put, Response
  <2> HIDE DEF r
  <2>6. sent'[Len(sent')] = r
    BY <2>5 DEF TypeInv
  <2> QED
    BY <2>5, <2>6 DEF type, extension
<1>2. ASSUME TypeInv
      PROVE  [\A name \in Names :
                LET n         == Len(name)
                    extension == SubSeq(name, n - 1, n)
                IN  /\ n > 4 /\ name[n - 3] = "/" /\ name[n - 2] # "."
                    /\ extension \in DOMAIN extensionToMimeMappings
                    /\ good /\ SendFile(name, TRUE)
                    => sent'[Len(sent')].type = extensionToMimeMappings[extension]]_vars
  BY <1>1, <1>2
<1> QED
  BY <1>2, TypesKept, ExchangeAssumption, PTL DEF Spec, FileTyped

-----------------------------------------------------------------------------
(* Lengths.  What has been sent of a file is what has been read of it, as  *)
(* long as nobody changes the file and the stream is good; only the last   *)
(* response can be unfinished.                                             *)
Right(i) ==
  \/ sent[i].length = NoLength
  \/ sent[i].body = sent[i].length
  \/ sent[i].code = 204 /\ sent[i].body = 0
  \/ sent[i].op = "file" /\ i \in resized

FramedInv ==
  /\ pc # "file" => pos = 0
  /\ \A i \in DOMAIN sent :
       Right(i) \/ (i = Len(sent) /\ (pc = "file" \/ ~good))
  /\ pc = "file" /\ good =>
       /\ sent # <<>> /\ sent[Len(sent)].op = "file"
       /\ \/ Len(sent) \in resized
          \/ /\ sent[Len(sent)].length = file
             /\ sent[Len(sent)].body = pos /\ pos <= file

(* A response without a text of its own is put on the stream. *)
LEMMA WholeResponse ==
  ASSUME TypeInv, FramedInv, NEW r \in Responses, Put(r),
         r.length = NoLength \/ r.body = r.length \/ (r.code = 204 /\ r.body = 0),
         pc # "file", pc' # "file", UNCHANGED <<file, pos, resized>>
  PROVE  FramedInv'
<1>0. UNCHANGED good
  BY DEF Put
<1>1. CASE good
  <2>1. /\ sent' \in Seq(Responses) /\ Len(sent') = Len(sent) + 1 /\ sent'[Len(sent')] = r
        /\ \A i \in 1 .. Len(sent) : sent'[i] = sent[i]
    BY <1>1 DEF Put, TypeInv
  <2>2. \A i \in 1 .. Len(sent) : Right(i)
    BY <1>1 DEF FramedInv, TypeInv
  <2>3. \A i \in 1 .. Len(sent) + 1 : Right(i)'
    BY <2>1, <2>2 DEF Right, TypeInv
  <2>4. DOMAIN sent' = 1 .. Len(sent) + 1
    BY <2>1 DEF TypeInv
  <2> QED
    BY <2>1, <2>3, <2>4 DEF FramedInv
<1>2. CASE ~good
  BY <1>0, <1>2 DEF Put, FramedInv, Right, TypeInv
<1> QED
  BY <1>1, <1>2

(* A response and its text are: the text whole, or the stream has failed.  *)
LEMMA WholeText ==
  ASSUME TypeInv, FramedInv, NEW r \in Responses, PutText(r),
         r.body = r.length \/ (r.code = 204 /\ r.body = 0),
         pc # "file", pc' # "file", UNCHANGED <<file, pos, resized>>
  PROVE  FramedInv'
<1>1. CASE Put(r)
  BY <1>1, WholeResponse
<1>2. ASSUME good, good' = FALSE, NEW part, sent' = Append(sent, part)
      PROVE  FramedInv'
  <2>1. /\ Len(sent') = Len(sent) + 1 /\ DOMAIN sent' = 1 .. Len(sent) + 1
        /\ \A i \in 1 .. Len(sent) : sent'[i] = sent[i]
    BY <1>2 DEF TypeInv
  <2>2. \A i \in 1 .. Len(sent) : Right(i)
    BY <1>2 DEF FramedInv, TypeInv
  <2>3. \A i \in 1 .. Len(sent) : Right(i)'
    BY <2>1, <2>2 DEF Right
  <2>4. pos' = 0 /\ Len(sent) \in Nat
    BY DEF FramedInv, TypeInv
  <2> QED
    BY <1>2, <2>1, <2>3, <2>4 DEF FramedInv
<1> QED
  BY <1>1, <1>2, TextCases

(* The same for sendString, which leaves the body out for a 204. *)
LEMMA WholeString ==
  ASSUME TypeInv, FramedInv,
         NEW op \in Ops, NEW code \in StatusCodes, NEW length \in Nat, NEW type \in MimeTypes,
         SendString(op, code, length, type),
         pc # "file", pc' # "file", UNCHANGED <<file, pos, resized>>
  PROVE  FramedInv'
<1> DEFINE r == Response(op, code, length, IF code = 204 THEN 0 ELSE length,
                         IF type = NoType THEN "text/plain" ELSE type)
<1>1. r \in Responses
  BY DEF Response, Responses, MimeTypes
<1>2. r.body = r.length \/ (r.code = 204 /\ r.body = 0)
  BY DEF Response
<1>3. PutText(r)
  BY DEF SendString
<1> HIDE DEF r
<1> QED
  BY <1>1, <1>2, <1>3, WholeText

(* sendFile, chunk by chunk, and others who write to the file. *)
LEMMA FileStep ==
  ASSUME ExchangeAssumption, TypeInv, FramedInv,
         \/ FileChanges \/ SendChunk
         \/ \E name \in Names, autoDetect \in BOOLEAN : SendFile(name, autoDetect)
  PROVE  FramedInv'
<1>0. sent \in Seq(Responses) /\ (sent # <<>> => Len(sent) \in DOMAIN sent /\ Len(sent) >= 1)
  BY DEF TypeInv
<1>1. CASE FileChanges
  BY <1>1 DEF FileChanges, FramedInv, Right, TypeInv
<1>2. ASSUME NEW name, NEW autoDetect, SendFile(name, autoDetect) PROVE FramedInv'
  <2> DEFINE r == Response("file", IF file' = 0 THEN 204 ELSE header.code, file', 0,
                           FileType(name, autoDetect))
  <2>1. Put(r) /\ pc = "callback" /\ file' \in 0 .. MaxSize
        /\ pc' = (IF file' = 0 THEN "callback" ELSE "file")
        /\ UNCHANGED <<good, pos, resized>>
    BY <1>2 DEF SendFile, Put
  <2>2. r.op = "file" /\ r.length = file' /\ r.body = 0 /\ (file' = 0 => r.code = 204)
    BY DEF Response
  <2>3. r \in Responses
    <3>1. file' \in Nat
      BY <2>1 DEF ExchangeAssumption
    <3>2. (IF file' = 0 THEN 204 ELSE header.code) \in StatusCodes
      BY DEF TypeInv, StatusCodes
    <3> QED
      BY <3>1, <3>2, FileTypeType DEF Response, Responses, Ops
  <2> HIDE DEF r
  <2>4. CASE good
    <3>1. /\ sent' \in Seq(Responses) /\ Len(sent') = Len(sent) + 1 /\ sent'[Len(sent')] = r
          /\ \A i \in 1 .. Len(sent) : sent'[i] = sent[i]
      BY <2>1, <2>3, <2>4 DEF Put, TypeInv
    <3>2. \A i \in 1 .. Len(sent) : Right(i)
      BY <2>1, <2>4, <1>0 DEF FramedInv
    <3>3. \A i \in 1 .. Len(sent) : Right(i)'
      BY <2>1, <3>1, <3>2 DEF Right
    <3>4. pos' = 0
      BY <2>1 DEF FramedInv
    <3>5. ASSUME file' = 0 PROVE \A i : i = Len(sent') => Right(i)'
      BY <2>2, <3>1, <3>5 DEF Right
    <3>6. DOMAIN sent' = 1 .. Len(sent) + 1 /\ Len(sent) \in Nat
      BY <1>0, <3>1
    <3> QED
      BY <2>1, <2>2, <2>4, <3>1, <3>3, <3>4, <3>5, <3>6 DEF FramedInv
  <2>5. CASE ~good
    BY <2>1, <2>5 DEF Put, FramedInv, Right
  <2> QED
    BY <2>4, <2>5 DEF TypeInv
<1>3. CASE SendChunk
  <2>1. Chunk \in Nat /\ pc = "file" /\ UNCHANGED <<good, resized>>
    BY <1>3, ChunkType DEF SendChunk, fileVars
  <2>9. /\ pos <= file => pos + Chunk <= file
        /\ pos <= file /\ Chunk # ChunkSize => pos + Chunk = file
    BY ChunkType
  <2>2. CASE good
    <3>1. sent # <<>> /\ Len(sent) \in DOMAIN sent /\ sent[Len(sent)] \in Responses
      BY <1>0, <2>1, <2>2 DEF FramedInv
    <3>2. sent' = [sent EXCEPT ![Len(sent)] = [sent[Len(sent)] EXCEPT !.body = @ + Chunk]]
      BY <1>3, <2>2 DEF SendChunk
    <3>3. /\ Len(sent') = Len(sent) /\ DOMAIN sent' = DOMAIN sent
          /\ \A i \in DOMAIN sent : i # Len(sent) => sent'[i] = sent[i]
          /\ sent'[Len(sent)] = [sent[Len(sent)] EXCEPT !.body = @ + Chunk]
      BY <1>0, <3>1, <3>2
    <3>4. /\ sent'[Len(sent)].op = "file"
          /\ sent'[Len(sent)].length = sent[Len(sent)].length
          /\ sent'[Len(sent)].body = sent[Len(sent)].body + Chunk
      BY <2>1, <2>2, <3>1, <3>3 DEF FramedInv, Responses
    <3>5. \A i \in DOMAIN sent' : i # Len(sent') => Right(i)'
      BY <1>0, <2>1, <3>3 DEF FramedInv, Right
    <3>8. sent' # <<>>
      BY <3>1, <3>3
    <3>9. \/ Len(sent) \in resized
          \/ /\ sent[Len(sent)].length = file /\ sent[Len(sent)].body = pos
             /\ pos <= file
      BY <2>1, <2>2 DEF FramedInv
    <3>6. CASE Chunk = ChunkSize
      <4>1. pos' = pos + Chunk /\ UNCHANGED <<pc, file>>
        BY <1>3, <3>6 DEF SendChunk
      <4> QED
        <5>1. \/ Len(sent) \in resized
              \/ /\ sent'[Len(sent)].length = file' /\ sent'[Len(sent)].body = pos'
                 /\ pos' <= file'
          BY <2>9, <3>4, <3>9, <4>1
        <5> QED
          BY <2>1, <2>2, <3>3, <3>4, <3>5, <3>8, <4>1, <5>1 DEF FramedInv
    <3>7. CASE Chunk # ChunkSize
      <4>1. pos' = 0 /\ pc' = "callback"
        BY <1>3, <3>7 DEF SendChunk
      <4>2. Len(sent) \in resized \/ sent'[Len(sent)].body = sent'[Len(sent)].length
        BY <2>9, <3>4, <3>7, <3>9
      <4>3. \A i : i = Len(sent') => Right(i)'
        BY <2>1, <3>3, <3>4, <4>2 DEF Right
      <4> QED
        BY <3>5, <4>1, <4>3 DEF FramedInv
    <3> QED
      BY <3>6, <3>7
  <2>3. CASE ~good
    BY <1>3, <2>1, <2>3 DEF SendChunk, FramedInv, Right
  <2> QED
    BY <2>2, <2>3 DEF TypeInv
<1> QED
  BY <1>1, <1>2, <1>3

(* Every step keeps what is known of lengths. *)
LEMMA FramedStep ==
  ASSUME ExchangeAssumption, TypeInv, HeadInv, FramedInv, [Next]_vars
  PROVE  FramedInv'
<1> USE DEF fileVars
<1>0. /\ header.code \in StatusCodes /\ header.type \in MimeTypes
      /\ NoType \in MimeTypes
      /\ \A code \in {204, 400, 404, 501} : code \in StatusCodes
  <2>1. header.code \in StatusCodes /\ header.type \in MimeTypes
    BY DEF TypeInv
  <2>2. NoType \in MimeTypes
    BY DEF MimeTypes
  <2>3. \A code \in {204, 400, 404, 501} : code \in StatusCodes
    BY DEF StatusCodes
  <2> QED
    BY <2>1, <2>2, <2>3
<1>1. ASSUME UNCHANGED <<sent, file, pos, resized>>, good' => good, pc = "file" <=> pc' = "file"
      PROVE  FramedInv'
  BY <1>1 DEF FramedInv, Right, TypeInv
<1>2. CASE PeerSends \/ PeerEnds \/ PeerResets \/ WriteFails
  BY <1>1, <1>2 DEF PeerSends, PeerEnds, PeerResets, WriteFails
<1>3. CASE ReadStart \/ ReadField
  <2>1. UNCHANGED <<sent, file, pos, resized>> /\ pc # "file" /\ pc' # "file"
    <3>1. CASE ReadStart
      BY <3>1 DEF ReadStart
    <3>2. CASE ReadField
      <4>1. pc' \in {"fields", "error", "dispatch"}
        <5>1. CASE Readable /\ next' = next + 1
          <6>1. lines[next] \in LineKinds
            BY <3>2, <5>1 DEF Readable, ReadField, TypeInv, HeadInv, FirstRead, LaterLines
          <6> QED
            BY <3>2, <5>1, <6>1 DEF ReadField, LineKinds, headVars, TypeInv
        <5>2. CASE pc' = "dispatch"
          BY <5>2
        <5> QED
          BY <3>2, <5>1, <5>2 DEF ReadField
      <4> QED
        BY <3>2, <4>1 DEF ReadField
    <3> QED
      BY <1>3, <3>1, <3>2
  <2>2. good' => good
    BY <1>3 DEF ReadStart, ReadField, GoodAfterLine
  <2> QED
    BY <1>1, <2>1, <2>2
<1>4. CASE QuietSteps
  <2>1. UNCHANGED <<sent, file, pos, resized, good>> /\ (pc = "file" <=> pc' = "file")
    BY <1>4 DEF QuietSteps, Type, Status, Redirect, CallbackTerminates, CallbackEnds, KeptDrops,
       Close, Calls, vars
  <2> QED
    BY <1>1, <2>1
<1>5. ASSUME NEW code \in {400, 404, 501}, SendRefusal(code), pc # "file", pc' # "file",
             UNCHANGED <<file, pos, resized>>
      PROVE  FramedInv'
  BY <1>0, <1>5, TextType, WholeString DEF SendRefusal, Ops
<1>6. CASE Dispatch
  <2>1. CASE UNCHANGED <<sent, good>>
    BY <1>1, <1>6, <2>1 DEF Dispatch
  <2> QED
    BY <1>5, <1>6, <2>1 DEF Dispatch
<1>7. CASE ErrorHandler
  BY <1>5, <1>7 DEF ErrorHandler
<1>8. CASE FileChanges \/ SendChunk
           \/ \E name \in Names, autoDetect \in BOOLEAN : SendFile(name, autoDetect)
  BY <1>8, FileStep
<1>9. ASSUME NEW code \in Codes, SendStatus(code) PROVE FramedInv'
  <2>1. Narrow(code) \in StatusCodes
    BY NarrowType DEF ExchangeAssumption
  <2>2. /\ SendString("status", Narrow(code), translateResponseCode(code), header.type)
        /\ pc # "file" /\ pc' # "file" /\ UNCHANGED <<file, pos, resized>>
    BY <1>9 DEF SendStatus, Calls
  <2> QED
    BY <1>0, <2>1, <2>2, TextType, WholeString DEF Ops
<1>10. ASSUME NEW code \in Codes, SendHeader(code) PROVE FramedInv'
  <2> DEFINE r == Response("header", Narrow(code), NoLength, 0, NoType)
  <2>1. r \in Responses /\ r.length = NoLength
    BY <1>0, NarrowType DEF ExchangeAssumption, Response, Responses, Ops
  <2>2. /\ Put(r) /\ pc # "file" /\ pc' # "file" /\ UNCHANGED <<file, pos, resized>>
    BY <1>10 DEF SendHeader, Calls
  <2> HIDE DEF r
  <2> QED
    BY <2>1, <2>2, WholeResponse
<1>11. ASSUME NEW op \in Ops, NEW length \in {0, 2}, SendString(op, header.code, length, header.type),
              pc # "file", pc' # "file", UNCHANGED <<file, pos, resized>>
       PROVE  FramedInv'
  BY <1>0, <1>11, WholeString
<1>12. ASSUME NEW length \in {0, 2}, Send(length) \/ KeptSends(length) PROVE FramedInv'
  BY <1>11, <1>12 DEF Send, KeptSends, Calls, Ops
<1>13. CASE End
  BY <1>11, <1>13 DEF End, Calls, Ops
<1>14. CASE SendJson \/ SendXml
  <2>1. PICK type \in MimeTypes : SendDocument(type)
    BY <1>14 DEF SendJson, SendXml, MimeTypes
  <2> DEFINE r == Response("document", header.code, 2, 2, type)
  <2>2. r \in Responses /\ r.body = r.length
    BY <1>0 DEF Response, Responses, Ops
  <2>3. /\ PutText(r) /\ pc # "file" /\ pc' # "file" /\ UNCHANGED <<file, pos, resized>>
    BY <2>1 DEF SendDocument, Calls
  <2> HIDE DEF r
  <2> QED
    BY <2>2, <2>3, WholeText
<1>15. CASE SendingSteps
  BY <1>6, <1>7, <1>8, <1>9, <1>10, <1>12, <1>13, <1>14, <1>15 DEF SendingSteps
<1> QED
  BY <1>2, <1>3, <1>4, <1>8, <1>15, NextCases

(* A body has the length its header announces, or is left out for a 204,   *)
(* unless a file changed, or the stream failed, on the way.                *)
THEOREM BodiesFramed == Spec => []Framed
<1>1. ExchangeAssumption /\ Init => FramedInv
  BY DEF Init, FramedInv
<1>2. TypeInv /\ HeadInv /\ FramedInv /\ [Next]_vars => FramedInv'
  BY FramedStep, ExchangeAssumption
<1>3. TypeInv /\ FramedInv => Framed
  BY DEF TypeInv, FramedInv, Right, Framed
<1> QED
  BY <1>1, <1>2, <1>3, TypesKept, ExchangeAssumption, PTL DEF Spec
=============================================================================
