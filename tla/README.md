# Verification of SimpleREST

TLA+ modules, TLC configurations and TLAPS proofs about SimpleREST, the C++
library for small RESTful web services in `src/`. This file says what the system
consists of, what is modelled, what the checks and the proofs show, and what is
left to do.

## 1. The system

A program owns an `InterfaceProvider`, registers callbacks on it, and starts it.
The provider owns a `RestServer`. A started server has one accepting thread; it
makes a `RestConnection` for each client, enters it in `connections_`, and starts
a detached thread that reads the request's head, lets the provider find the
callback, runs it, and takes the connection out of `connections_` again. The
connection closes when its last `shared_ptr` goes.

| Component | State | Operations | Interacts with |
|---|---|---|---|
| `RestServer` (server.cpp) | `acceptor_`, `listening_`, `acceptingThread_`, `idIncrement_`, `connections_` | `start`, `stop`, destructor, accept loop, connection thread, `deregisterClient` | owner's thread, accepting thread and connection threads share its members; only `connections_` is under a lock |
| `InterfaceProvider` (restful.cpp) | `server_`, `requests_` | `get` ... `patch`, `start`, `stop`, `connectionHandler`, `errorHandler` | called by connection threads through `handler_` and `errorHandler_` |
| `RestConnection`: head (connection.cpp:82-120) | `stream_`, `request_` | `readHead` | connection thread; throws `InvalidRequest` |
| `RestConnection`: body (connection.cpp:62-65, 174-213) | `stream_`: kernel buffer, get area, failbit | `read`, `readString`, `readStream`, `getBodySize`, `isBodyEmpty` | callback against the peer |
| Sending (response.cpp, connection.cpp:122-172) | `header_`, `statusSet_`, `stream_` | `status`, `type`, `send`, `sendFile`, `sendStatus`, `end`, `redirect` | callback, error replies of the provider |
| Routing (restful.cpp:132-175) | `requests_` | `registerRequest`, `matching`, `extractParameters` | owner's thread registers, connection threads search |
| Url parsing (url_parser.cpp, url.cpp) | none | `parse`, `parseQuery`, `parsePath` | routing, `Request` |
| `Request` | copies of parameters and url, a `shared_ptr` | accessors | callback; may be kept beyond it |
| Tables, ids, exceptions, io service | none that changes | lookups | - |

What is hard in this code, and what makes each part correct:

- **Server.** Three kinds of threads share members without locks. `stop()`
  empties `acceptor_` under the accepting thread; `start()` on a running server;
  destruction under detached threads; failures of `bind`, `accept` and of thread
  creation; an id counter that wraps around. Correct: no use of what is empty or
  destroyed, `stop()` returns, the registry is exact, sockets close.
- **Body.** No `Content-Length` is looked at; what has arrived is measured, read,
  and measured again while the peer sends, closes or resets. Correct: read
  returns, blocks on nobody, invents nothing, and leaves out nothing that was there.
- **Head.** The end of the stream passes for the end of the head and fails the
  stream for the response. Correct: a callback runs only on a complete head, and
  every request that is refused gets its 400.
- **Sending.** Several responses can be sent on one request; a file is measured
  before it is read. Correct: a response's `Content-Length` is that of its body, the
  library answers once, and what one send does to the header the next does not see.
- **Routing.** The first registered match wins; `requests_` is not locked, and a
  thread keeps an iterator into one of its vectors until the callback returns.
  Correct: the callback found is the first match among those registered, parameters
  are those of its path, and connections do not disturb each other's search.
- **Query.** A regular expression's repeated group keeps its last match only, and
  the pair is stored the wrong way round. Correct: every pair of the query is found
  under its key.

`PROJECT.json` lists these hazards line by line, with the property for each.

## 2. Modules

| Module | Models |
|---|---|
| `RestServer` | server core and its owner: owner's thread, accepting thread, connection threads, one object |
| `RestService` | what the comments of `RestServer` promise of a connection: accepted while the service runs, answered, closed, once each |
| `RestServerProofs` | theorems about `RestServer` |
| `MCRestServer` | instances of `RestServer` for TLC, symmetry of the connections |
| `Url` | what the url parser and `parsePath` make of a url; no state |
| `Router` | registration by the owner's thread against the search of connection threads, up to the call of the callback |
| `RouteTable` | what dispatch promises: a request is decided in one step by what is registered |
| `RouterProofs` | theorems about `Router` |
| `MCRouter` | instances of `Router` for TLC |
| `Exchange` | one connection from its first line to its last response: head, refusals, `Response` |
| `ExchangeProofs` | theorems about `Exchange` |
| `MCExchange` | instances of `Exchange` for TLC |
| `BodyReader` | `RestConnection::read` and its callers, against a peer |
| `BodyReaderProofs` | theorems about `BodyReader` |
| `MCBodyReader` | instances of `BodyReader` for TLC |

### RestServer

The variables have the names of the members they stand for (`acceptor`,
`listening`, `idIncrement`, `connections`), or are program counters: `owner` for
the owner's thread, `loop` for the accepting thread, `thread[c]` for the thread of
connection `c`. `current` is the loop's local `shared_ptr`, `kept` are the
connections of which a callback has stored a `Request` or `Response`.
`restarted` (the last `start()` found the server running) and `shared` (an id was given
out that a connection still being served bears) are history. `starts` and `failures`
only count for the bounds.

- `start()`: `BindAcceptor` (or `BindFails`), then, for a server that runs, the
  steps of `stop()`, then `SetListening` and `StartLoop` (or `StartLoopFails`).
- `stop()`: `ResetAcceptor`, `ClearListening`, `Join`, in the order of the code.
  `caller` tells who called it.
- Destruction: `DestroyRequests`, the steps of `stop()` if a thread is joinable,
  `DestroyServer`. Members go in reverse order of declaration (restful.hpp:106-107).
- Accept loop: `BeginRound` / `LeaveLoop`, `EnterAccept` / `DerefNull`,
  `AcceptOk` / `AcceptError` / `AcceptWoken` / `AcceptDead`, `Register`, `Spawn` /
  `SpawnFails`, `DropLocal`.
- Connection thread: `ReadHead`, `RejectUrl` / `Dispatch` / `DispatchDead`,
  `CallbackKeeps`, `CallbackEnds` / `CallbackThrows`, `ErrorHandler`, `Free` /
  `ServerDead`, `ThreadExit`; `UserDrops` for what was kept.

A critical section under `memberLock_` is one action. A run ends at the first
undefined behaviour or `std::terminate`, recorded in `fault`. `null_acceptor`
is the use of `acceptor_` after it was emptied. The race between the load of that
pointer and its reset has one more outcome, that the loop enters `accept` on an
acceptor that is already closed; `AcceptError` allows for it. An `accept` that is
under way when its acceptor is destroyed goes on inside a dead object. Mostly
that has no effect, and it accepts, fails or is woken; `AcceptDead` is the case that it
has one, `dead_acceptor`.

Three facts are external to the repository and are constants. `CloseWakesAccept`:
closing a listening socket makes a blocked accept return (it does on Windows, the
platform the README names a library for; `close` does not on Linux).
`RebindWhileBound`: asio opens its acceptors with `reuse_address`, which lets a
second socket bind the port of a listening one on Windows but not on Linux.
`OwnerCare`: what the owner waits for after `stop()` before it destroys the
server: nothing, or the end of all connection threads, which no function of the
library tells. The end of all callbacks, which callbacks can tell, is less than
that: a thread still uses the server's registry after its callback.

### Url, Router, RouteTable

A url is the words of its path and the pairs of its query; `valid` says whether its
text matches the parser's regular expressions, otherwise `ReducedUrlParser::parse`
throws. `ParseQuery` keeps what the groups of the query's expression hold, the first
pair and the last of the others, and stores each under the text after the equals
sign, as the code does.

`requests` is `requests_`. A registration is `BeginPush` and `EndPush`: the vector (or,
for the first url of a type, the map) is being changed in between, and `moves` says
whether it moves what is there: `push_back` the vector's elements, a new key the map. A registration of an invalid url throws before it
changes anything and is left out. The thread of a connection goes through `Receive`,
`ParseUrl` (400), `Find` (404 or 501), `Match` (404), `Extract`, `Call`, `Return`, the
stages of `connectionHandler`; `found` is the iterator of its search. `Conflict` is
the case that a thread's next step touches what is being changed, or uses an
iterator that has been invalidated: `Race` then ends the run. `Holders` are the
threads that hold one, of the vector after their search, and of the map during it, which a
rehash for the first url of another type invalidates.
`RouteTable` decides a request in one step by the first registered url that
fits; `Table` in `Router` maps the iterator and the status to its `outcome`.

### Exchange

`lines` is the head as it arrives; `cut` says that the last line has no newline,
`ended` and `reset` what the peer has done. `good` is `stream_.good()`, of which the
point is that there is one stream for both directions: after reading meets the end
of the stream, nothing that is written goes out. `ReadStart` and `ReadField` are the
two loops of `readHead`, one line each. `Dispatch` is `connectionHandler` (a callback, or one of
three refusals), `ErrorHandler` the 400 for an `InvalidRequest`. The operations of
`Response` have their names; each puts a response on the stream by `Put`, with the
length its header announces and the length of what follows it. A text is written after its
header and may be cut off between (`PutText`); `sendHeader` sends a header as it is given,
without a length (`NoLength`). `SendFile` and
`SendChunk` are `sendFile`: the file is measured, then read chunk by chunk, while
`FileChanges` lets others write to it. After the callback a kept `Response` may
still send (`KeptSends`) and holds the connection open. What comes after the head
on the wire is the body, and `BodyReader`'s.

### BodyReader

A byte of the body is `unsent`, in the `kernel`, `buffered` in the stream, `taken`
into the local buffer of `read`, or `delivered` to the writer. Everything is first
in, first out, so numbers of bytes are enough. `garbage` counts the bytes handed to
the writer that were never read. `pc` follows the lines of `read`: `Measure`
(179), `Poll` (183), `Sleep` (185-186), `Recheck` (187), `Remeasure` (189), the
read of the stream (192: `Take`, `Fill`, `Eof`, `ReadDone`) and `Write` (193-194).
`Arrive`, `PeerCloses` and `PeerResets` are the peer's. `Fill` and `Eof` are asio's
stream buffer, external. `ResetDropsData` says whether a reset discards what the
kernel holds, as it may or may not depending on the platform.

## 3. Runs

Server:

| Run | Question | Result |
|---|---|---|
| `RestServer_safety` | `TypeOK`, `RegistrySound`, `LiveRegistered`, `UnboundOnlyByRestart`, `NullOnlyInStop` with restarts of a running server, failing accepts and threads, and ids shared after a wrap-around | hold |
| `RestServer_live` | `DestroySafe`: is waiting for all threads enough? `ServiceSpec`: does the server implement `RestService`? Where closing wakes accept, `StopReturns`, `ClosedAfterHandler` | yes, yes, hold |
| `RestServer_stop` | "closes server gracefully" (README.md:87): is `stop()` safe? | no: null `acceptor_` |
| `RestServer_restart` | "is currently running, stop first" (server.cpp:39), "server is bound?" (server.hpp:71): is a listening server bound (`ListeningIsBound`)? | no: `start()` of a running one empties the acceptor it has just bound |
| `RestServer_posix` | "Everything else deadlock" (server.cpp:82): does this order not? | `stop()` can wait for ever |
| `RestServer_dtor` | "closes server gracefully": may a running server be destroyed? | no: `requests_` goes first |

Body:

| Run | Question | Result |
|---|---|---|
| `BodyReader_main` | `TypeOK`, `NeverBlocks`, `NoGarbage`, `ReadsWhatArrived`, `ReadReturns` | hold |
| `BodyReader_all` | "reads it all" (connection.hpp:205) | no: a segmented body is cut |
| `BodyReader_reset` | "@return The body." (connection.hpp:209): is nothing else handed over (`OnlyBody`)? | no: uninitialised bytes after a reset |

Routing and urls:

| Run | Question | Result |
|---|---|---|
| `Router_main` | `TypeOK`, `ParametersRight`, `QueryInventsNothing`; does the search implement `RouteTable` (`TableSpec`)? | hold, yes |
| `Router_query` | "`/users?sort=desc`" is `sort = desc` (request.hpp:117): is a value found under its key? | no: it is found as a key |

Head and responses:

| Run | Question | Result |
|---|---|---|
| `Exchange_main` | `TypeOK`, `Framed`, `AnswersCompleteHeads`, `LibraryAnswersOnce`, `SendingKeepsHeader`, `FileTyped`, `RefusalArrives` | hold |

**Bounds.** Two connections are enough for the interference of one connection with
another (insert, erase and shared ids concern pairs). Two starts give
every order of start, stop, restart and destruction of length two; the server's
state after the second is one it had after the first. `RestServer_safety`,
`RestServer_live` and `RestServer_restart` let the second come while the
server runs and its port is bound (`RebindWhileBound`). In `RestServer_safety` three
ids and two failed accepts, which use up an id each, let the counter wrap around and
the second connection get the id of the first, while it is also reached that both
are served before the counter wraps; elsewhere `IdMod` is larger than the number of
rounds. `RestServer_live` has no failing accept, which is one more way to another round, and
for which `RestServer_safety` and the theorems stand. It runs where closing wakes accept; a
server whose closing does not has no steps that this one lacks, as an accept
may take a last connection in either. Bodies go up to
two chunks and a byte, chunks are three bytes and the stream takes two at a time, so
that a body is empty, short, exactly one or two chunks, or more, and chunks straddle
the stream's buffer. Two polls and two reads give the first, the last and the next.
A body is finite: a peer that never stops sending full chunks keeps `read` busy.
`Router` has two threads, as conflicts are between the owner and a thread, or between two
threads. There are two registrations, as the order of matches concerns pairs. There are
three types, one that cannot be registered and one (HEAD) whose refusal differs;
paths of up to two words, of which any may be a parameter, even the same twice;
queries of up to three pairs, the first length of which a pair is lost, with equal
and different values. `Exchange` has heads of up to three lines (request line, a field,
the blank line, and each way to end early), files of nothing, less than a
chunk, a chunk and more, and two calls of a callback, enough for one to act on what
another has left in the header, as well as for a file that is sent after a
response. Its file names are in a directory, in the root and without one. Its codes are one that has a text, and one beyond 16 bits that
becomes 204 when it is stored.

**Deadlock** is checked except in `RestServer_posix`: there closing does not wake
accept, all clients may have come, and the owner's thread really waits in `join` for ever. `Halted` and `Finished` are the
regular ends.

**Fairness.** `WF` of each thread's own steps: the operating system runs a thread
that is not blocked, and the code holds no lock across a wait. Nothing is assumed
of the owner's calls, of clients, of the head arriving (`ReadHead` has no timeout) or
of callbacks returning; those are in `Environment`, without fairness. The reader
of a body is one thread with `WF(Reader)`, the peer has none. `Exchange` has `WF` of what
the connection's thread does by itself (`ThreadStep`), none of its peer or its callback.
`Router` has safety properties only, and no fairness.

## 4. Proofs

`TypeCorrect` in each proof module is type correctness. All theorems hold for
every value of the constants that the named assumptions admit.

`RestServerProofs`. `OwnerInv` ties the owner's program counter to the existence of
an accepting thread and of the object: it is what the other proofs use to know
that a joined thread is gone. From it:

- `BoundUnlessRestarted` (`UnboundOnlyByRestart`) and `NullOnlyWhileStopping`
  (`NullOnlyInStop`), by `AcceptorInv`, on every platform. Both except what follows a
  `start()` of a running server, and must: where a port can be bound twice, it replaces
  `acceptor_`, stops the server, which empties it, and sets `listening_`; the new
  accepting thread finds no acceptor (`RestServer_restart`). The theorems say
  that this is the only way. `AcceptorInv` follows the acceptor through `start()`: the
  calls of `stop()` that come from there are those of a restart, and any other `stop()`
  finds either an acceptor or no accepting thread.
- `CareSuffices` (`DestroySafe`), by `CareInv`: destruction begins when all threads
  have ended, and none starts after it, since the loop has been joined.
- `NothingLeaks` (`RegistrySound`), by `RegistryInv`: the invariant alone is not
  inductive, since `Register` must know that `current` is the one connection that
  waits for its thread and is not yet entered.
- `EveryPeerRegistered` (`LiveRegistered`), by `LiveInv`: as long as no id has been
  shared, the connections that are served or wait for their thread have distinct ids, so
  that `insert` finds the id free and `erase` takes nobody else's entry. A wrap-around
  alone does no harm, as server.hpp:72 says.
- `ServerImplementsService` (`ServiceSpec`) is the refinement of `RestService`, without
  any assumption on the constants but their types. What makes it work is
  `LifeInvariant`: an entry of `connections_` never is the only `shared_ptr` there is,
  by `RegistryInv`, so that whether a connection is open can be told (`Stage`) from its
  thread, the loop's local pointer and what callbacks have kept. `LoopInv`, that the
  loop has a pointer just from accept to the end of its round, is needed for
  `DropLocal`, which may close a connection whose thread has long ended, and for
  `AcceptOk`, which must not drop another. `AcceptOk` is `Accept`, the end of a
  callback (or a refusal) `Answer`, whatever removes the last pointer `Close`; the
  owner's steps switch `running` or stutter.

`BodyReaderProofs`. `ReaderInv` accounts for every byte; ranges and account are
proved together, because `kernel` stays below the body's size only as no byte is
made up. `ReadNeverBlocks` and `OnlyBodyDelivered` follow. `ArrivedIsRead` needs
`ArrivedInv`, which follows the bytes that had arrived when `read` was called: a
chunk that is not full holds all that is left of them.

`RouterProofs`. `OwnerTypes` and `ThreadTypes` give `TypeCorrect`: the iterator points
into its vector since vectors only grow, and indices stay within the bound since a
registration under way has been counted and not yet entered. `SearchImplementsTable` (`TableSpec`) is the
refinement: `MatchingFits` shows that `matching()`, on the parts `parsePath` makes,
accepts what fits in the abstract table, and `SearchInv` what a thread that has not decided
knows; the step of `Find`, `Match` or `ParseUrl` that ends the search is `Decide`,
`EndPush` is `Add`, all others stutter. It holds for any urls, any number of
registrations and threads. `ParametersCorrect` (`ParametersRight`) and `QueryFromRequest`
(`QueryInventsNothing`) are by `CallInv`, which ties a thread's url, parameters and
iterator to its request: the url of the request was parsed, the iterator's url matches it, and
the parameters were extracted from these two; a registration in between appends
(`RegisteredStays`). The rest is about the operators: `Extracted` says what
`extractParameters` returns, where a parameter that occurs twice gets its last word
(`LastExists`, from the library's theorem that a non-empty set of numbers has a least
element, as induction over the path is not available); `QueryPairs` says that what the regular
expression keeps of a query are pairs of it or an empty one. `QueryInventsNothing` does not
say which way round a pair is; that `QueryByKey` does, which fails (`Router_query`).

`ExchangeProofs`. `TypeInv` and `HeadInv` (what has been read is well-formed, what
comes after the first line is a field) give `TypeCorrect`. `Frame` and `OneResponse` say
what a step can do to everything but the head; from them follow
`OnlyCompleteHeadsAnswered` (`AnswersCompleteHeads`) by `AnswerInv`, since every other
end of the head fails the stream; `OneRefusal` (`LibraryAnswersOnce`) by `OnceInv`; and
`HeaderKept`. `BodiesFramed` (`Framed`) is by `FramedInv`, which counts what has been sent of
the file against `sendFile`'s position in it; a text is complete or the stream is not good
(`WholeText`). `FilesTyped` (`FileTyped`) rests on
`ExtensionFound`, what `extractFileExtension` finds in the name of a file in a directory: the
last slash comes before the only dot that follows it. The slash must not be the first
character; the proof does not go through without that, and the code is no different (see below).

Every safety and action property of the passing runs, and both refinements, are
theorems. Only model-checked is liveness (`StopReturns`, `ClosedAfterHandler`,
`ReadReturns`, `RefusalArrives`), which needs fairness and `ENABLED` and is beyond the prover.

## 5. Abstractions and what is not modelled

- A callback, while its `std::function` is destroyed under it, is not followed
  further: `DispatchDead` is the use of `requests_` before the call.
- `readHead` and the search for a callback are one step each in `RestServer`.
- A connection is read by one thread: a callback that hands its `Request` to a second
  thread and reads from both races with itself.
- `Router` and `Exchange` share `connectionHandler`: `Router` has the search, and stops
  where the callback begins; `Exchange` has what is sent, and leaves the search open.
- `ReducedUrlParser::parse` asks for the first character of groups that matched nothing.
  That is the terminating zero in practice, and none of its branches is taken.
- A peer that resets, or to which the server closes with unread input, may lose a
  response that has been written. That is TCP's; `RefusalArrives` stops at the stream.
- The words of the request line and of fields are not told apart, nor the header
  entries of a response other than its type. A kept `Response` sends only after the
  callback has returned; two threads that write to one connection at once mix their bytes.
- Two entries stand for the mime table; of status texts only their being there counts.
- Not modelled: `UserId` with its hash (a wrapper), `IOServiceProvider` (holds an
  `io_service` that nobody runs), the exception classes (types with a text), the
  conversion of JSON and XML, which is done by libraries that are not in the repository.

Seen while modelling, without a run of their own: `type()` promises the mime type of an
extension (response.hpp:129), finds it, and stores its argument (response.cpp:22); of
three or more pairs in a query the inner ones are lost, as a repeated group keeps its last
repetition (url_parser.cpp:16), for which alone `QueryByKey` would fail; `end()` "is actually a 'no
operation' function" (response.hpp:90) and puts an empty response behind the one that was
sent; `sendString` promises 204 for an
empty string (connection.hpp:183) and sends 200; `redirect()` sets status and location
and does not send; the branch for HEAD (restful.cpp:92-103) is never taken, an
unregistered HEAD gets 501; files and JSON or XML documents are sent with a body even if
the status is 204; a file name without a slash gets no detected type, and neither does one whose
last slash is its first character (`/x.html`): connection.cpp:22 takes `0 - slpos` characters,
meant as the rest of the name, which is none for 0; `readHead` waits for a
silent peer for ever; `Response::sendJson` and `sendXml` do not compile where they
are instantiated.

## 6. Plan

Done: the server core, the body reader, routing and urls, head and responses, each
with runs and theorems. Left, in this order:

1. Composition of `RestServer` with `Exchange` and `BodyReader`: a callback's read
   and its replies while the server stops; the body of one request in front of
   what is refused.
2. Two threads that use one connection, a kept `Request` read beside the callback.
