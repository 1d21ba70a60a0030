# Event-Driven-Engine: a verification development

TLA+ models, TLC runs and TLAPS proofs for the event engine (`src/src/lib`),
its HTTP request parser (`src/Http/lib`) and the servers built on them.
Line numbers refer to the sources of this repository.

## 1. Inventory

| Component | State it keeps | Operations | Interacts with |
|---|---|---|---|
| `MPSCQueue` (Threads/MPSCQueue.h) | slots (version word, object), head, tail, two stop flags | `Push`, `Pop`, `StopReading`, `StopWriting` | every thread that sends a request; the loop thread pops |
| `EventLoopRegistery` and its two handlers (EventLoop.cpp 97-146) | poll vector, index by descriptor, callback by descriptor | subscribe, unsubscribe (swap-removal) | applied by `Run`, walked by its dispatch loop |
| `EventLoop` (EventLoop.cpp 12-95) | queue, registry, `m_bRunning`, main task | `Run`, `Stop`, `SubScribeToEvent`, `UnRegisterFromAllEvents` | queue, registry, `poll`, callbacks of descriptors |
| `AsyncFdIO` | descriptor, pending buffer with offset and completion, three handlers | `SetFD`, `WriteAll`, `ReadSync`, `Close`, `HandleEventReady` | loop (subscriptions, events), kernel (`read`, `write`), application (callbacks that call back in) |
| `TCPServerSocket`, `TCPClientSocket` | socket descriptor, address, one `AsyncFdIO` | `Listen`, `OnAccept`, `Connect`, `Close` | loop, kernel's descriptor table |
| `TerminalIO` | two `AsyncFdIO` | read, write, close | loop |
| `HttpRequestParser` | buffer, pointer into it, phase, phase infos, request | `Parse` | a source with `ReadSync` |
| HTTP server | a session per connection: socket and parser | accept, `OnDataAvailable`, close | parser, socket |
| File transfer server and client | per session: offset, back-pressure flag, one buffer; the client's file | main task, completion, closing, `onRead` | socket, terminal |
| Echo server, chat server and their clients | connection tables | accept, read, close callbacks, broadcast | sockets, terminal |

Hard behaviours, and the properties that make each component correct:

* **queue**: threads interleave at each atomic access; a producer may be
  overtaken between reserving and publishing; the counters wrap; stopping
  strikes anywhere. Correct: no object overwritten, raced on, lost, repeated or
  reordered; nobody waits for ever; it behaves as a mailbox.
* **registry**: three containers must stay in step through swap-removals.
  Correct: it is a map from descriptors to subscriptions.
* **loop**: callbacks change subscriptions while the poll vector is walked;
  `Stop` races `Run`; the loop thread pushes into its own bounded queue.
  Correct: subscriptions follow the requests, each ready descriptor is called
  once per iteration, `Stop` ends `Run`, requests are applied.
* **descriptor**: partial writes, back-pressure, completions that write again,
  events that are stale when dispatched, priorities between events. Correct:
  the peer gets the bytes in order, completions match them, a pending write
  goes on.
* **parser**: reads cut requests anywhere. Correct: what comes out is what went
  in, whatever the cuts; what is left stays in the buffer.
* **file transfer**: one buffer per session, which the descriptor may still
  point into; a chunk counts when it is accepted, not when it is sent; clients
  leave at any time. Correct: the client's file is always a prefix of the
  server's, and a session comes to its end.
* **HTTP server**: results of `WriteAll` are ignored, a request may arrive in
  any number of reads, a connection may end between two of them. Correct: answers
  come in order, and a client that waits for its answers gets them.
* **sockets and servers**: descriptor numbers are given out again while
  unsubscriptions are queued; connection tables are keyed by them.

PROJECT.json lists every hazard with its line and the properties that cover it.

## 2. Modules

| Module | Models | State and actions |
|---|---|---|
| `MPSCQueue` | the queue | one action per atomic load, store or `fetch_add`; `pc` says where a producer is in `Push` |
| `Mailbox` | abstract: what the queue promises | places taken in order, shown later, received in order, at most `Capacity` shown and not received |
| `EventLoopRegistery` | both handlers, `revents` written by `poll` | the three containers, one action per handler |
| `Subscriptions` | abstract: what the registry promises | one map |
| `EventLoop` | `Run`, `Stop`, senders | uses `Mailbox` for the queue and `EventLoopRegistery` for the registry; `loopPc` is the place in `Run` |
| `Connections` | accept, read and close over the kernel's table of numbers | `sockets` is the kernel's table, `m_iFD` each object's number, `connections` the server's table; uses `EventLoopRegistery`, the queue is a sequence because only the loop thread sends; one action per callback of an element of the vector |
| `AsyncFdIO` | one descriptor, its kernel socket, its peer | `WriteAll` split by the outcome of `write`, one action per branch of the event handling; `frames` are the completions that are running |
| `HttpRequestParser` | `Parse` over tokens | `parser` holds the members; the phases are operators, `Parse(n)` is a call that reads `n` tokens |
| `HttpServer` | one connection of the HTTP server | `HttpRequestParser` (extended) and `AsyncFdIO` (an instance, `Socket`) in one state: what waits to be read is `available`, the buffers of the descriptor are the answers, by number; `todo` is what `OnDataAvailable` does next |
| `FileTransfer` | a session of the file server and its client | extends `AsyncFdIO`, whose buffers are the chunks; the session's members, the client's file as a number of bytes of `wire`; one action per branch of the main task, the completion, the client's callbacks |
| `FileCopy` | abstract: what a transfer promises | a copy that grows along the file until it stops |
| `MPSCQueueProofs`, `EventLoopRegisteryProofs`, `EventLoopProofs`, `ConnectionsProofs`, `AsyncFdIOProofs`, `FileTransferProofs`, `HttpRequestParserProofs`, `HttpServerProofs` | proofs about the module they are named after | |
| `MCMPSCQueue`, `MCHttpRequestParser`, `MCHttpServer` | definitions for TLC: symmetry, requests; `MCHttpServer` also has TLC evaluate what the proofs assume of a client | |

`MPSCQueue` implements `Mailbox` (checked and proved), so `EventLoop` may use
the mailbox in its place. `EventLoopRegistery` implements `Subscriptions`, and
`FileTransfer` implements `FileCopy` (both checked and proved).

Definitions under a comment that starts with "Mutant" are not part of a
specification: each is a plausible bug that makes one property fail.

## 3. Runs

| Run | Question | Bounds |
|---|---|---|
| `mpsc` | does the ring keep objects safe, is it a mailbox, does every `Push` return, is every published object popped? | 2 producers, 4 objects, 2 slots: each slot is used twice and both producers may wait for the same one; words of 6 values, no wrap; fair threads |
| `mpsc_wrap` | what happens when a counter wraps? | words of 4 values and 3 slots: 3 does not divide 4, as 1000 does not divide 2^32: **violated** |
| `registry` | do the containers stay in step, and do they implement a map? | 3 descriptors: removal of the first, a middle and the last element; 2 callbacks, 1 event |
| `loop` | do registry and dispatch follow the requests, and do `Stop`, requests and senders get through? | 2 descriptors, 1 worker and the loop thread, 3 requests, a queue of 1 slot, so that both threads wait for room |
| `fdio` | are bytes and completions right, and does a pending write complete? | 3 buffers of 3 bytes: partial writes before and after back-pressure, writes from completions |
| `fdio_end_of_stream` | is the end of the stream never read? | POLLIN without POLLHUP: **violated** |
| `connections` | do registry, kernel and tables agree in the end, is a hang-up noticed? | 3 connections and 2 numbers besides the listening socket's: numbers are given out again while requests wait, and run out |
| `connections_stale` | is a failed read impossible? | **violated** |
| `file_transfer` | is the client's file a prefix of the server's, what does a finished session send, whose fault is an exception, does a session end? | 4 chunks of 3 bytes: a chunk pending while the next is due, in the first, middle and last place; the client may be killed and its kernel may reset the connection at any time |
| `http_server` | is parsing independent of how reads cut the bytes, are answers in order, does a patient client get them? | 3 requests of 10 kinds (without and with a body, without a header line, malformed in four places, two of them numbers that do not convert, filling the buffer with a header or with a body, exceeding it), every cut; answers of 2 bytes, so that one can be pending; `MaxUnread` is twice the longest request, and a request is sent when the last one was parsed, so it refuses nothing; the client may leave at any time |
| `http_split_body`, `http_pipelined` | bodies in two reads, requests that follow at once | **violated** |

The violated runs are recorded as findings in PROJECT.json with the comment or
message of the code that says otherwise. Passing runs exclude those situations
by a constant (`Word`, `HangupOnFin`, `Pipelining`), by a property that names
them (`OnlyBodiesStall` excepts bodies that came in more than one read, and no
others), or end the behaviour where the exception ends the
process. The engine only makes queues of 1000 slots; no run has a queue of one
slot, in which the published version would be the position of the next `Push`.

What the passing runs show. The queue is safe in every interleaving until its
counter wraps. The event loop applies requests in the order in which senders
reserved places; a callback's request waits until the vector is not walked, so
no ready descriptor is skipped or called twice. `Stop` always ends `Run`, also
when it comes before `Run` has set `m_bRunning`, because the queue it stopped
ends `Run` in the next iteration. Senders can be left spinning in two cases
only, which the properties name: the loop failed in `poll`, or the loop thread
waits for room in its own queue. The bytes of accepted writes reach the peer in
order; the exception, which `StreamIntact` names, is a buffer that a completion
writes and that becomes pending: the `ResetPendingBuffer` after the completion
forgets it. Once a peer stops sending, a pending write goes on: while bytes
keep arriving, `HandleEventReady` only reads. The room that `poll` reported may
be gone when the descriptor has its turn, used up by a `WriteAll` from another
callback; the event is then dropped, the write stays pending and is tried again
after a later poll (`WritePendingBlocked`). Numbers that are given out again
never confuse the registry for good, because requests are applied in order, and
a close never hits the next owner of a number, because `Close` resets `m_iFD`.
In between, events do go to the last owner of a number, whose object may be
gone (`HandleReadFails`, `HandleDestroyed`). A client that has left the chat
server keeps its entry in the table until its number is given out again, and the
next broadcast throws for it (`BroadcastFails`).

The file a client writes is at every moment a prefix of the server's, although a
session has a single buffer which the descriptor may still point into: the
back-pressure flag is set before `WriteAll` and cleared only by the completion,
so no chunk is read over one that is pending. The end is weaker. `CloseSession`
does not wait for the last chunk, of which a part may be pending and is lost
(`OnlyLastChunkCut`). A session is skipped for ever if `pread` fails once, or if
its client leaves while a chunk is pending (`Stuck`): nothing clears the flag
then. If the client leaves while nothing is pending, the next `WriteAll` throws
and the server ends, for all sessions. `SessionEnds` names these cases, and TLC
finds no other; `FailsForGoneClient` says that the server never does this to
itself. The properties hold with `HangupOnFin` FALSE as well, where the client
reads to the end of the stream and then throws.

A request that arrived with its header and its body is finished by the read that
brings its last byte (`OnlyBodiesStall`), bodies that come in one read included:
the history `firstBodyRead` is where the first read of a body ended, and only a
body that had begun there and went on behind it (`BodyCut`) may be waited for in
vain, which is the finding of `http_split_body`. An HTTP client that waits for each answer is answered, unless
its request is not whole or its body was cut in this way (`Stalled`), or the
connection or the process ends; answers come in the
order of the requests, each as a whole. A client that sends before its last
answer has left the server may lose the answer: `WriteAll` refuses it and nobody
looks at the result. `RequestIsAnswered` leaves out such requests (`eager`).

## 4. Fairness

* Queue: a thread that is inside `Push` is scheduled again (weak fairness), and
  the loop thread pops once per iteration. Nobody has to start a `Push`.
* Loop: weak fairness of the step of each thread that is inside a call and of
  `Run`; callbacks and the main task return after finitely many calls (strong
  fairness of their return, since they may make calls in between). `Run` need
  never be called, `Stop` neither.
* Connections: `Run` goes on. Nobody need connect, send, hang up or close.
* Descriptor: the loop polls and dispatches, completions return, and the peer
  reads what it is sent, without which no write could complete.
* File transfer: the server's loop runs its main task, polls and dispatches,
  completions return, and the client's loop goes on. Nobody need kill the client.
* HTTP server: the loop goes on and the client reads its answers; it need not
  send, nor leave. That a reported event is dispatched is stated as fairness of
  `Dispatch`, which says when `Run` can dispatch and that it then empties
  `revents`, and not of the parsing action itself: a step that empties `revents`
  in that state is a step of `ServerStep`, and one always exists, since each
  event has a handler whatever the state of the socket.

## 5. Proofs

`MPSCQueueProofs` proves, for all sets of producers and objects and all sizes,
the type invariant; and under `NoWrap` (at least two slots, and the word can
count all objects and one round more) the safety properties of `mpsc` and the
refinement. The argument: a slot with number `s` and version `v` is either free
for position `v` (`v % Size = s`) or full of the object of position `v - 1`. The
inductive invariant adds to the types that the tail counts the reservations and
the head the deliveries, that each reserved position not yet delivered is
published or held by exactly one producer, and that a slot's version is the one
of the round its position is in. Two positions of one slot differ by a multiple
of `Size` (`SameSlot`), so a producer that sees its version knows that the
consumer has finished with the slot and that no other producer is at it.
`NoWrap` is needed: `mpsc_wrap` violates its second half, and in a ring of one
slot the version published for a position is that of a free slot for the next.

`EventLoopRegisteryProofs` proves the type invariant, that the index of a
descriptor is the position of its element, that callbacks and monitored
descriptors coincide, and the refinement of `Subscriptions`, without a bound on
descriptors or events. The inductive invariant is the conjunction of the types,
the index property and the callback property: swap-removal keeps the index
right only because different descriptors have different positions.

`EventLoopProofs` proves the types, that the registry is what the applied
requests say (`RegistryFollowsRequests`), and that an iteration calls each ready
descriptor once (`EachReadyCalledOnce`), for every set of threads and
descriptors. The registry's own proofs are used through an instance of
`EventLoopRegisteryProofs`: every step of the loop is a step or a stutter of the
registry. `Standing(fd)` is the last applied request about `fd`; applying one
more changes it for that descriptor only. The walk needs that the vector does
not change during it, and that what has been called is the set of ready elements
among those dealt with; different positions have different descriptors by the
registry's index property.

`ConnectionsProofs` proves the types, `NumberIsOwn`, `OpenIsInTable` and
`RegistryCatchesUp` for any number of connections and descriptor numbers. The
inductive invariant ties the kernel's table, the objects' `m_iFD` and the
server's table together, and says of each number that the last queued request
about it decides, or the callbacks do if there is none. Opening a number appends
a subscription and closing one an unsubscription, so the last request is always
about the present owner; applying the oldest request touches the callbacks of
one number, about which later requests speak if there are any.

`AsyncFdIOProofs` proves the types, `StreamIntact`, `PendingAccounted` and
`CompletedOnceSent` for every set of buffers, every size, and completions that
write or do not. It counts: `TakenOf(b, i)` grows by one at each byte of `b` and
stays otherwise, and the bytes the kernel takes of a buffer follow those it has.
The invariant adds that fresh buffers have not been accepted, that the kernel
only has bytes of accepted ones, that a pending buffer is the one accepted last,
and that an accepted buffer is whole, was written by a completion, or is the
last and will go on. The last part needs that `ResetPendingBuffer` only runs
when the buffer is whole, when a completion of the innermost frame has replaced
it, or when the process ends.

`FileTransferProofs` proves, for files and chunks of any size, the types, that
only the last chunk of a finished session is cut (`OnlyLastChunkCut`), that the
server fails for a client that has gone only (`FailsForGoneClient`), and the
refinement of `FileCopy`. It also proves that a session takes only steps of
`AsyncFdIO` (`SessionIsDescriptor`), so the theorems of `AsyncFdIOProofs` hold of
it. The invariant: the wire is a prefix of the file, whose length is given by
the offset and what is pending (`WireLength`); the pending chunk is the last one
accepted and still in the buffer (`BufferHeld`); without back-pressure nothing
is pending and no completion runs (`Pressure`); a finished session is left alone
(`Closed`); hang-ups come from clients that have gone (`GoneClient`). It assumes
that completions do not write and that the buffers are numbered from 1.

`HttpRequestParserProofs` proves the type invariant for whatever a client sends,
and the four properties of the parser for every set of requests that keeps the
hypotheses below, every number of them, every buffer size and every cut into
reads. The hypotheses are about the client only, are stated in
`HttpRequestParser`, and TLC evaluates them for the requests of `http_server`:

* `OneAtATime`: the client waits for its answer, and does not send bytes behind
  the body that the header announces. `http_pipelined` shows that without it
  bytes are lost.
* `WellFormedAreValid` (for `RefusedForCause`): a request made of known tokens
  starts with a request line and has a colon in each line of its header, which
  is what well-formed is meant to say. Tokens whose number does not convert are
  not well-formed.

A request may lack its header or the end of it, a body may be longer than what
the client sends, and a request may be malformed, empty or longer than the
buffer: these are not excluded. The proof first says
what each phase does with any parser (`BodyPhase`, `HeaderPhase`, `LinePhase`: the
scan finds the first match, or ends behind the places it has seen), which gives
the types, and then what it makes of a prefix of a request `r` (`Outcome`): the
parser goes on and still follows `r`, or all of `r` is there and the pieces put
together are `r`, or `r` is invalid or has a number that does not convert. The
invariant `ReqInv` says that when a
request `r` is not answered yet, the buffer followed by what is still to be read
is `r`, and that the parser follows `r` (`Follows`): no match of `r` lies before
the pointer, the line and the header found are those of `r`. This is what
`ResultsAreRequests` lacks to be inductive: it says nothing of a request of which
a part was read. `Cut` says that a part of a body has been counted already, the
only reason for which a whole request is not finished; an earlier read has ended
within the body then, and `ReqInv` places `firstBodyRead` between the start of
the body and that place. What
`FlattenSeq` computes is proved by taking the least place at which two
computations differ (`FlattensSame`), since the induction theorems of the library
cannot be used; the least number principle (`Least`, from the well-foundedness
of `<`) also gives the first match of a scan.

`HttpServerProofs` proves `AnswersInOrder` for every set of requests, every
number of them and answers of any size. Of the parser it uses only that a call
appends one request to `results` if it is done and none otherwise, so the
theorem does not depend on what the parser recognises. Each step is a step of a
descriptor, as in `AsyncFdIO`, or leaves the descriptor alone but for what is
unread; so the invariant of `AsyncFdIOProofs` carries over through an instance.
It is joined by `AnsweredBefore`: the answers accepted are to parsed requests,
in ascending order, and while an answer is due the last request parsed has none.
Each step is also a step of the parser or leaves it alone (`ServerIsParser`), so
the theorems about the parser hold on a connection (`RequestsAreParsed`), and
with them `ServerTypeOK` (`ServerTypes`).

Every invariant and every action or refinement property that a run checks is
proved. Model-checked only is liveness (`PushReturns`, `PublishedIsDelivered`,
`StopEndsRun`, `RequestIsApplied`, `SendersReturn`, `AcceptedCompletes`,
`HangupIsNoticed`, `SessionEnds`, `RequestIsAnswered`), which needs fairness and
is out of the prover's reach, and what the violated runs show.

## 6. Abstractions

* Steps of threads interleave one at a time. The stop flags and the tail are
  relaxed atomics; each is one word whose new value a reader sees sooner or
  later, and versions are released and acquired, so no reader depends on the
  order of two relaxed accesses.
* `EventLoop` takes the load of `m_bIsWriting` and the reservation of a place as
  one step, which `MPSCQueue` has apart. `Stop` stops reading before it stops
  writing, so a place that a `Push` reserves after `StopWriting`, having loaded
  the flag before it, is in a queue that is not read any more: no `Push` waits
  there, and the next `Pop` ends `Run`.
* A callback of the application is the calls it makes: subscriptions and `Stop`
  in `EventLoop`, `WriteAll` and `Close` in `AsyncFdIO`.
* The bytes of a buffer are numbered, and its content is not looked at. The
  parser's input is tokens: a request line, a header line, CR, LF, a byte of a
  body. What the parser converts are the version and the `Content-Length`; a
  number that does not convert (`NotNumbers`) makes `stof` or `stoi` throw, and
  nothing catches it. A negative `Content-Length` is, as the unsigned size of a
  body, a very large one.
* `write` may take any part of a buffer; after a partial write the kernel has no
  room until the peer reads. Whether the end of the stream comes with POLLHUP
  depends on the system: `HangupOnFin` is TRUE where POLLHUP is reported as soon
  as the peer shuts down and FALSE on Linux, which reports POLLIN alone.
* Calling a `std::function` that was moved from is unspecified: it may run or
  throw `bad_function_call` (`WriteWhole`).
* `Connections` leaves writing to `AsyncFdIO`, except that a broadcast fails for
  a connection of the table that is closed. Peers act at `poll` only, where
  they are looked at. A callback of a destroyed object ends the process there.
  `ServerCloses` may come while the loop runs; the programs of this repository
  close the server after `Run`.
* `FileTransfer` has one session. Sessions share the loop and nothing else, and
  an exception for one ends all. The history `wire` records the bytes as the
  buffer held them when the kernel took them, so a chunk read over a pending one
  would show. The text of the file and the messages on the terminal are left out.
* `HttpServer` has one connection. All answers are the same static string; the
  model numbers them to tell them apart.
* An exception that leaves `Run` ends the process.

Not modelled:

* logging, the interface of README lines 60-120 that the code does not have
  (async/await), the empty headers `ThreadPool.h` and `Thread.h`, makefiles;
* `TerminalIO`, two descriptors with nothing between them, and the echo and chat
  clients, each an event loop around one socket and a terminal: a composition
  would only repeat `AsyncFdIO`;
* what a broadcast of `ChatServer` leaves pending: its `WriteAll`s to the open
  connections of the table, whose results are ignored, are writes as in `AsyncFdIO`;
* memory: the lifetime of buffers given to `WriteAll` (the echo and chat servers
  give it a local one) and the buffers of requests that nobody destroys. Both are
  wrong on every path, so no order of steps has to be searched for;
* creation of sockets, `Listen` and `Connect`, which make system calls before
  the loop runs.

## 7. Plan

Done: the queue, the registry, the loop, one descriptor, the connections of a
server, the parser, the HTTP server's connection and the file transfer; proofs
of all their safety properties.

What is left, in this order:

1. Several sessions of `HttpServer` over the table of `Connections`, to see
   which connections a late event for a number that is given out again reaches.
2. A bound on the backlog of the request queue that a server can build against
   the 1000 slots, once a limit on how fast connections arrive is stated.
