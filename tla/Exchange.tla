------------------------------ MODULE Exchange -------------------------------
(***************************************************************************)
(* One connection from its first line to its last response: readHead, the  *)
(* refusals of the provider, and what a callback does with its Response    *)
(* (connection.cpp, response.cpp).  stream_ carries both directions: once  *)
(* reading has met the end of the stream it is not good, and whatever is   *)
(* written after that goes nowhere.  Bodies are their lengths; the search  *)
(* for a callback is Router's, reading a body is BodyReader's.             *)
(***************************************************************************)
EXTENDS Integers, Sequences, FiniteSetsExt

CONSTANTS
  Codes,     \* status codes a callback uses
  Kinds,     \* types it sets
  Names,     \* files it sends, as words and separators
  MaxSize,   \* bound: size of a file
  ChunkSize, \* size of sendFile's buffer (65536)
  MaxLines,  \* bound: lines of a head
  MaxCalls   \* bound: calls of a callback

ASSUME ExchangeAssumption ==
  /\ Codes \subseteq Int
  /\ MaxSize \in Nat /\ ChunkSize \in Nat \ {0}
  /\ MaxLines \in Nat /\ MaxCalls \in Nat

ASSUME NamesAssumption ==
  \A name \in Names : name \in Seq({name[i] : i \in DOMAIN name})

VARIABLES
  lines,     \* what the peer has sent of its head
  ended,     \* nothing more will come: the peer has closed, or reset
  cut,       \* the last line lacks its newline
  reset,     \* the peer has reset the connection
  next,      \* the first line not read yet
  good,      \* stream_.good()
  headDone,  \* history: the blank line has been read
  pc,        \* where the connection's thread is
  threw,     \* history: the callback threw an InvalidRequest
  calls,     \* counts calls of the callback, for the bound
  header,    \* header_ of the Response: code and type
  statusSet, \* statusSet_ of the Response
  file,      \* size of the file being sent, 0 if none; others may change it
  pos,       \* sendFile's position in it
  resized,   \* history: the responses during which it changed
  sent,      \* responses put on stream_
  kept       \* the callback has stored its Response

peerVars == <<lines, ended, cut, reset>>
headVars == <<next, headDone>>
respVars == <<header, statusSet>>
fileVars == <<file, pos, resized>>
vars == <<peerVars, headVars, good, pc, threw, calls, respVars, fileVars, sent, kept>>

LineKinds == {"field", "nocolon", "blank"}
NoType    == ""

Init ==
  /\ lines = <<>> /\ ended = FALSE /\ cut = FALSE /\ reset = FALSE
  /\ next = 1 /\ good = TRUE /\ headDone = FALSE
  /\ pc = "start" /\ threw = FALSE /\ calls = 0
  /\ header = [code |-> 200, type |-> NoType] /\ statusSet = FALSE
  /\ file = 0 /\ pos = 0 /\ resized = {}
  /\ sent = <<>> /\ kept = FALSE

-----------------------------------------------------------------------------
(* Tables and names. *)

(* Status codes with a text of their own. *)
Translated ==
  (100 .. 102) \union (200 .. 208) \union {226} \union (300 .. 308)
  \union (400 .. 419) \union (421 .. 424) \union {426, 428, 429, 431, 440, 444, 449, 450, 451}
  \union (494 .. 499) \union (500 .. 505) \union (507 .. 511) \union {520}

(* The text's length: some, or none in the default case. *)
translateResponseCode(code) == IF code \in Translated THEN 2 ELSE 0

(* Two of the table's extensions. *)
extensionToMimeMappings ==
  [e \in {<<".", "html">>, <<".", "tar">>} |->
     IF e[2] = "html" THEN "text/html" ELSE "application/x-tar"]

extensionToMimeType(extension) ==
  IF extension \in DOMAIN extensionToMimeMappings
  THEN extensionToMimeMappings[extension] ELSE NoType

Places(name, word) == {i \in DOMAIN name : name[i] = word}

(* Mutant of extractFileExtension: the last component's last word. *)
ExtensionWithoutDot(name) == IF name = <<>> THEN <<>> ELSE <<name[Len(name)]>>

(* From the first dot on, of what follows the last slash; a backslash      *)
(* counts where there is no slash.  A name with neither has no extension,  *)
(* nor has one whose last slash comes first: substr's count is 0 - slpos,  *)
(* which is more than is left of the name, but where slpos is 0.           *)
extractFileExtension(name) ==
  LET slashes   == IF Places(name, "/") # {} THEN Places(name, "/") ELSE Places(name, "\\")
      component == SubSeq(name, Max(slashes), Len(name))
      dots      == Places(component, ".")
  IN  IF slashes = {} \/ Max(slashes) = 1 \/ dots = {} THEN <<>>
      ELSE SubSeq(component, Min(dots), Len(component))

-----------------------------------------------------------------------------
(* The peer. *)

PeerSends ==
  /\ ~ended /\ Len(lines) < MaxLines /\ ~headDone
  /\ \E kind \in IF lines = <<>> THEN {"request", "garbage"} ELSE LineKinds :
       lines' = Append(lines, kind)
  /\ UNCHANGED <<ended, cut, reset, headVars, good, pc, threw, calls, respVars, fileVars, sent, kept>>

(* It closes its side, perhaps in the middle of a line.  What it does      *)
(* after the head, but reset, concerns the body.                           *)
PeerEnds ==
  /\ ~ended /\ ~headDone /\ ended' = TRUE
  /\ \/ UNCHANGED <<lines, cut>>
     \/ /\ Len(lines) < MaxLines /\ cut' = TRUE
        /\ \E kind \in IF lines = <<>> THEN {"request", "garbage"} ELSE LineKinds :
             lines' = Append(lines, kind)
  /\ UNCHANGED <<reset, headVars, good, pc, threw, calls, respVars, fileVars, sent, kept>>

(* A reset may take with it lines that have not been read. *)
PeerResets ==
  /\ ~reset /\ reset' = TRUE /\ ended' = TRUE
  /\ \E last \in (next - 1) .. Len(lines) :
       /\ lines' = SubSeq(lines, 1, last)
       /\ cut' = (cut /\ last = Len(lines))
  /\ UNCHANGED <<headVars, good, pc, threw, calls, respVars, fileVars, sent, kept>>

(* Another program writes to the file that is being sent. *)
FileChanges ==
  /\ pc = "file"
  /\ file' \in (0 .. MaxSize) \ {file}
  /\ resized' = IF good THEN resized \union {Len(sent)} ELSE resized
  /\ UNCHANGED <<peerVars, headVars, good, pc, threw, calls, respVars, pos, sent, kept>>

-----------------------------------------------------------------------------
(* readHead. *)

Readable == next <= Len(lines)
(* Reading a line that ends with the stream sets eofbit. *)
GoodAfterLine == good /\ ~(cut /\ next = Len(lines))

(* The request line, with an HTTP/1.0 or HTTP/1.1; garbage is everything   *)
(* else, and a stream that ends before it has come.                        *)
ReadStart ==
  /\ pc = "start"
  /\ \/ /\ Readable
        /\ next' = next + 1 /\ good' = GoodAfterLine
        /\ pc' = IF lines[next] = "request" THEN "fields" ELSE "error"
     \/ /\ ~Readable /\ ended
        /\ good' = FALSE /\ pc' = "error" /\ UNCHANGED next
  /\ UNCHANGED <<peerVars, headDone, threw, calls, respVars, fileVars, sent, kept>>

(* One more field.  The loop ends at a blank line, and as well where       *)
(* getline fails because the stream has ended.                             *)
ReadField ==
  /\ pc = "fields"
  /\ \/ /\ Readable /\ good
        /\ next' = next + 1 /\ good' = GoodAfterLine
        /\ headDone' = (lines[next] = "blank")
        /\ pc' = CASE lines[next] = "field"   -> "fields"
                   [] lines[next] = "nocolon" -> "error"
                   [] lines[next] = "blank"   -> "dispatch"
     \/ /\ (~Readable /\ ended) \/ ~good
        /\ good' = FALSE /\ pc' = "dispatch" /\ UNCHANGED headVars
  /\ UNCHANGED <<peerVars, threw, calls, respVars, fileVars, sent, kept>>

-----------------------------------------------------------------------------
(* What is put on the stream. *)

(* Mutant of Put: writes to a stream that is not good. *)
PutAlways(response) == sent' = Append(sent, response) /\ UNCHANGED good

(* stream_ << ...: nothing happens on a stream that is not good. *)
Put(response) ==
  /\ sent' = IF good THEN Append(sent, response) ELSE sent
  /\ UNCHANGED good

(* Header and text are two writes: where the first meets a reset, some or  *)
(* all of the text is lost, and the stream is not good.                    *)
PutText(response) ==
  \/ Put(response)
  \/ /\ reset /\ good /\ good' = FALSE
     /\ \E written \in 0 .. response.body - 1 :
          sent' = Append(sent, [response EXCEPT !.body = written])

NoLength == -1  \* no Content-Length among the header's entries

Response(op, code, length, body, type) ==
  [op |-> op, code |-> code, length |-> length, body |-> body, type |-> type]

(* Content-Length is the text's length, also where no text follows. *)
SendString(op, code, length, type) ==
  PutText(Response(op, code, length, IF code = 204 THEN 0 ELSE length,
                   IF type = NoType THEN "text/plain" ELSE type))

(* Mutant of Narrow: the code is kept whole. *)
Whole(code) == code

(* responseCode has 16 bits; the text is that of the whole int. *)
Narrow(code) == code % 65536
StatusCodes  == {code \in Nat : code < 65536}

(* Response(connection).sendStatus(code), by the provider. *)
SendRefusal(code) == SendString("refusal", code, translateResponseCode(code), NoType)

(* Mutant of Dispatch: no return after the first refusal. *)
DispatchGoesOn ==
  /\ pc = "dispatch"
  /\ \/ pc' = "callback" /\ UNCHANGED <<sent, good>>
     \/ pc' = "callback" /\ SendRefusal(400)
     \/ pc' = "done" /\ (SendRefusal(404) \/ SendRefusal(501))
  /\ UNCHANGED <<peerVars, headVars, threw, calls, respVars, fileVars, kept>>

(* connectionHandler finds a callback, or refuses and returns.             *)
Dispatch ==
  /\ pc = "dispatch"
  /\ \/ pc' = "callback" /\ UNCHANGED <<sent, good>>
     \/ /\ pc' = "done"
        /\ \E code \in {400, 404, 501} : SendRefusal(code)
  /\ UNCHANGED <<peerVars, headVars, threw, calls, respVars, fileVars, kept>>

(* Mutant of ErrorHandler: says nothing. *)
ErrorSilent ==
  /\ pc = "error" /\ pc' = "done"
  /\ UNCHANGED <<peerVars, headVars, good, threw, calls, respVars, fileVars, sent, kept>>

(* errorHandler: 400 to whatever threw an InvalidRequest.                 *)
ErrorHandler ==
  /\ pc = "error" /\ pc' = "done"
  /\ SendRefusal(400)
  /\ UNCHANGED <<peerVars, headVars, threw, calls, respVars, fileVars, kept>>

-----------------------------------------------------------------------------
(* The callback and its Response. *)

(* A call of the callback that returns at once. *)
Calls ==
  /\ pc = "callback" /\ calls < MaxCalls /\ calls' = calls + 1
  /\ UNCHANGED <<peerVars, headVars, pc, threw, kept>>

(* The type is stored as it was given; the mime type found for it is not.  *)
Type(type) ==
  /\ Calls
  /\ header' = [header EXCEPT !.type = type]
  /\ UNCHANGED <<statusSet, fileVars, sent, good>>

SetStatus(code) ==
  /\ header' = [header EXCEPT !.code = Narrow(code)]
  /\ statusSet' = TRUE

Status(code) == Calls /\ SetStatus(code) /\ UNCHANGED <<fileVars, sent, good>>

(* redirect() changes the header only; it does not send. *)
Redirect ==
  /\ Calls
  /\ IF statusSet THEN UNCHANGED respVars ELSE SetStatus(302)
  /\ UNCHANGED <<fileVars, sent, good>>

Send(length) ==
  /\ Calls
  /\ SendString("send", header.code, length, header.type)
  /\ UNCHANGED <<respVars, fileVars>>

SendStatus(code) ==
  /\ Calls /\ SetStatus(code)
  /\ SendString("status", Narrow(code), translateResponseCode(code), header.type)
  /\ UNCHANGED fileVars

(* end() is send("").                                                      *)
End ==
  /\ Calls
  /\ SendString("end", header.code, 0, header.type)
  /\ UNCHANGED <<respVars, fileVars>>

(* json, xml: a body even with a 204, and a type whatever type() has set.  *)
SendDocument(type) ==
  /\ Calls
  /\ PutText(Response("document", header.code, 2, 2, type))
  /\ UNCHANGED <<respVars, fileVars>>

SendJson == SendDocument("text/json; charset=UTF-8")
SendXml  == SendDocument("text/xml; charset=UTF-8")

(* getConnection().sendHeader(...) with a header of the callback's own,    *)
(* which is sent as it is given.                                           *)
SendHeader(code) ==
  /\ Calls
  /\ Put(Response("header", Narrow(code), NoLength, 0, NoType))
  /\ UNCHANGED <<respVars, fileVars>>

FileType(name, autoDetect) ==
  LET type == extensionToMimeType(extractFileExtension(name))
  IN  IF autoDetect /\ type # NoType THEN type ELSE header.type

(* Mutant of SendFile: takes the header by reference. *)
SendFileByReference(name, autoDetect) ==
  /\ pc = "callback" /\ calls < MaxCalls /\ calls' = calls + 1
  /\ file' \in 0 .. MaxSize
  /\ header' = [code |-> IF file' = 0 THEN 204 ELSE header.code, type |-> FileType(name, autoDetect)]
  /\ Put(Response("file", header'.code, file', 0, header'.type))
  /\ pc' = IF file' = 0 THEN "callback" ELSE "file"
  /\ UNCHANGED <<peerVars, headVars, threw, kept, statusSet, pos, resized>>

(* A file of some size is opened and measured, and the header is sent,     *)
(* with code 204 if the file is empty.                                     *)
SendFile(name, autoDetect) ==
  /\ pc = "callback" /\ calls < MaxCalls /\ calls' = calls + 1
  /\ file' \in 0 .. MaxSize
  /\ Put(Response("file", IF file' = 0 THEN 204 ELSE header.code, file', 0,
                  FileType(name, autoDetect)))
  /\ pc' = IF file' = 0 THEN "callback" ELSE "file"
  /\ UNCHANGED <<peerVars, headVars, threw, kept, respVars, pos, resized>>

(* What reader.read gets: a chunk, or what is left of the file.            *)
Chunk == IF pos >= file THEN 0 ELSE Min({ChunkSize, file - pos})

(* Mutant of SendChunk: writes the buffer, not what has been read of it.   *)
SendBuffer ==
  /\ pc = "file"
  /\ sent' = IF good THEN [sent EXCEPT ![Len(sent)].body = @ + ChunkSize] ELSE sent
  /\ IF Chunk = ChunkSize
     THEN pos' = pos + Chunk /\ UNCHANGED <<pc, file>>
     ELSE pos' = 0 /\ file' = 0 /\ pc' = "callback"
  /\ UNCHANGED <<peerVars, headVars, good, threw, calls, respVars, resized, kept>>

(* The loop ends with the first chunk that is not full.                    *)
SendChunk ==
  /\ pc = "file"
  /\ sent' = IF good THEN [sent EXCEPT ![Len(sent)].body = @ + Chunk] ELSE sent
  /\ IF Chunk = ChunkSize
     THEN pos' = pos + Chunk /\ UNCHANGED <<pc, file>>
     ELSE pos' = 0 /\ file' = 0 /\ pc' = "callback"
  /\ UNCHANGED <<peerVars, headVars, good, threw, calls, respVars, resized, kept>>

(* sendFile's runtime_error, or any other exception but InvalidRequest.    *)
CallbackTerminates ==
  /\ pc = "callback" /\ pc' = "terminated"
  /\ UNCHANGED <<peerVars, headVars, good, threw, calls, respVars, fileVars, sent, kept>>

CallbackEnds ==
  /\ pc = "callback"
  /\ \/ pc' = "done" /\ UNCHANGED threw
     \/ pc' = "error" /\ threw' = TRUE
  /\ kept' \in {kept, TRUE}
  /\ UNCHANGED <<peerVars, headVars, good, calls, respVars, fileVars, sent>>

(* A stored Response can still send, and keeps the connection open.        *)
KeptSends(length) ==
  /\ pc = "done" /\ kept /\ calls < MaxCalls /\ calls' = calls + 1
  /\ SendString("late", header.code, length, header.type)
  /\ UNCHANGED <<peerVars, headVars, pc, threw, respVars, fileVars, kept>>

KeptDrops ==
  /\ pc = "done" /\ kept /\ kept' = FALSE
  /\ UNCHANGED <<peerVars, headVars, good, pc, threw, calls, respVars, fileVars, sent>>

(* What was put on the stream meets the reset: badbit.                     *)
WriteFails ==
  /\ reset /\ good /\ sent # <<>> /\ good' = FALSE
  /\ UNCHANGED <<peerVars, headVars, pc, threw, calls, respVars, fileVars, sent, kept>>

(* The last shared_ptr goes; the stream's destructor writes what is left.  *)
Close ==
  /\ pc = "done" /\ ~kept /\ pc' = "closed"
  /\ UNCHANGED <<peerVars, headVars, good, threw, calls, respVars, fileVars, sent, kept>>

Over ==
  /\ pc \in {"terminated", "closed"}
  /\ UNCHANGED vars

-----------------------------------------------------------------------------
(* What the thread does by itself, once the peer has sent what it waits for. *)
ThreadStep ==
  ReadStart \/ ReadField \/ Dispatch \/ ErrorHandler \/ SendChunk \/ Close

Callback ==
  \/ \E type \in Kinds : Type(type)
  \/ \E code \in Codes : Status(code) \/ SendStatus(code) \/ SendHeader(code)
  \/ \E length \in {0, 2} : Send(length) \/ KeptSends(length)
  \/ \E name \in Names, autoDetect \in BOOLEAN : SendFile(name, autoDetect)
  \/ SendJson \/ SendXml \/ Redirect \/ End \/ CallbackTerminates \/ CallbackEnds \/ KeptDrops

Environment == PeerSends \/ PeerEnds \/ PeerResets \/ FileChanges \/ WriteFails

Next == ThreadStep \/ Callback \/ Environment \/ Over

(* The scheduler runs a thread that is not blocked; peers and callbacks    *)
(* may do nothing for ever.                                                *)
Spec == Init /\ [][Next]_vars /\ WF_vars(ThreadStep)

-----------------------------------------------------------------------------
(* Type invariant; what has been read of the head is well-formed wherever  *)
(* a callback is looked for or runs (connection.cpp:82-120).               *)
TypeOK ==
  /\ lines \in Seq(LineKinds \union {"request", "garbage"})
  /\ next \in 1 .. Len(lines) + 1
  /\ good \in BOOLEAN /\ headDone \in BOOLEAN /\ kept \in BOOLEAN
  /\ pc \in {"start", "fields", "dispatch", "callback", "file", "error",
             "done", "terminated", "closed"}
  /\ header.code \in StatusCodes /\ calls \in 0 .. MaxCalls
  /\ pos \in 0 .. MaxSize /\ file \in 0 .. MaxSize
  /\ \A i \in DOMAIN sent : sent[i].code \in StatusCodes
  /\ pc \in {"dispatch", "callback", "file"} =>
       \A i \in 1 .. next - 1 :
         lines[i] \in IF i = 1 THEN {"request"} ELSE {"field", "blank"}

(* A body has the length its header announces, or is left out for a 204:   *)
(* unless the stream failed on the way, or the file changed since it was   *)
(* measured (connection.cpp:122-172).                                      *)
Framed ==
  \A i \in DOMAIN sent :
    LET response == sent[i]
        complete == i < Len(sent) \/ (pc # "file" /\ good)
    IN  complete /\ response.length # NoLength =>
          \/ response.body = response.length
          \/ response.code = 204 /\ response.body = 0
          \/ response.op = "file" /\ i \in resized

(* A callback is run on a head that was cut off, but what it sends then    *)
(* goes nowhere: no peer gets a callback's answer to a head whose blank    *)
(* line it has not sent (connection.cpp:105-118).                          *)
AnswersCompleteHeads ==
  \A i \in DOMAIN sent : sent[i].op # "refusal" => headDone

(* The library answers at most once by itself, and only where no callback  *)
(* answers, unless the callback threw an InvalidRequest after sending      *)
(* (restful.cpp:65-130, server.cpp:60-66).                                 *)
LibraryAnswersOnce ==
  LET refusals == {i \in DOMAIN sent : sent[i].op = "refusal"}
  IN  /\ Cardinality(refusals) <= 1
      /\ refusals # {} /\ ~threw => Len(sent) = 1

(* Of all that sends, only sendStatus changes what later sends say; an     *)
(* empty file's 204 is for that response alone (connection.cpp:122-146).   *)
SendingKeepsHeader ==
  [][Len(sent') > Len(sent) /\ header' # header => sent'[Len(sent')].op = "status"]_vars

(* A file in a directory is sent with the type of its extension, if the    *)
(* callback wants it detected; unless there is one more dot before that of *)
(* the extension, or the directory is the root (connection.cpp:15-31,      *)
(* 133-138).                                                               *)
FileTyped ==
  [][\A name \in Names :
       LET n         == Len(name)
           extension == SubSeq(name, n - 1, n)
       IN  /\ n > 4 /\ name[n - 3] = "/" /\ name[n - 2] # "."
           /\ extension \in DOMAIN extensionToMimeMappings
           /\ good /\ SendFile(name, TRUE)
           => sent'[Len(sent')].type = extensionToMimeMappings[extension]]_vars

(* Who sends a head that is refused gets the 400, if the stream was good   *)
(* when it was refused: it is on the stream when the connection closes.    *)
RefusalArrives ==
  (pc = "error" /\ good /\ ~threw) ~>
    \/ /\ pc = "closed"
       /\ \E i \in DOMAIN sent : sent[i].op = "refusal" /\ sent[i].code = 400
    \/ reset
=============================================================================
