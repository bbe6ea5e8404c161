# Verification of the mediasoup signalling server

TLA+ modules for the Go server in `main.go`, `worker/`, `common_util/` and
`bean/`, for the requests of `mediasoup-worker` that it relies on, and for the Node
library of the mediasoup 3.12.16 that the repository carries. TLC checks small
instances; TLAPS proves the results listed under *Proofs* for every instance.

## The system

### The Go server

| part | state | operations | what is hard about it |
|---|---|---|---|
| front end (`main.go`) | one goroutine per WebSocket connection, read and write deadlines | read loop, dispatch, heart beat, disconnect, ping goroutine | handlers of different pages run at the same time; a panic in a handler ends the connection and runs the disconnect path |
| publishing (`ProcessUpOfferSdp`) | `roomMap`, `Room.UserIdUserMap`, `User.Producer`, `User.Mu` | find or create the room, join, create and connect the transport, produce, answer, renegotiate | lookup and store of the room are apart; the User is in the room long before it is complete |
| renegotiation (`ProcessDownOfferSdp`) | `User.Consumer` of every user in the room | per user: close the old transport, make a new one, one consumer per remote producer, offer | runs in any page's goroutine and takes no lock; the user may be gone before the offer is written |
| subscribing (`ProcessDownAnswerSdp`) | `User.Mu`, reads `User.Consumer` | connect, then consume and resume | the answer, and the certificate it names, may be for a transport that has been replaced |
| leaving (`ClearUserInfo`) | all rooms | close the user's streams, delete the user, delete an empty room, renegotiate | counts users while others join; deletes by name |
| worker manager (`StartMediasoupWorker`, `WorkerManager`) | child process, two socket pairs, `shaMap` | start, write requests, read loop, wait, close | requests are never confirmed; the worker may exit at any time |
| decoder (`common_util/gen_util.go`) | parse state, bounded channel | `Feed` | the socket is a byte stream |
| mediasoup-worker (C++) | routers, transports, producers, consumers, observers | create, connect, produce, consume, close | refuses what does not fit, closes in cascades |

A page sends an offer. The server creates what the page publishes in the worker,
answers, and renegotiates the room: every user gets a new consumer transport and
an offer. The page's answer connects that transport and starts the consumers.
When a page goes away its objects are closed and the room is renegotiated again.
All requests to the worker go over one socket, and no handler waits for a reply.

### The Node library

A second client of the same worker process, in `mediasoup-3.12.16/node/src`. It
does what the Go server does not: it waits for every response. An object of the
library is created when the response is read, and closed at once, before the
request that closes it is handled. In between, the objects of the library and
those of the process differ, and calls of the application, responses,
notifications and the end of the process meet in any order. Node runs one callback
at a time; a method is cut at each `await`.

| part | files | what is hard about it |
|---|---|---|
| objects | `Worker`, `WebRtcServer`, `Router`, `Transport` and its four kinds, `Producer`, `Consumer`, `DataProducer`, `DataConsumer`, `RtpObserver` | two owners, cascades on both sides, creations and closes that overlap |
| channels | `Channel`, `PayloadChannel` | byte streams, message ids that wrap, order of responses and notifications |
| worker process | `Worker` | 'running', 'exit', 'error', 'died' and `close()` race |
| pausing | `Producer`, `Consumer`, `RtpObserver` | flags read before a request and used after it |
| `pipeToRouter()` | `Router` | a pair shared by two Routers, then a Producer mirrored in another worker; two to four requests, each of which may fail |
| SCTP streams | `Transport` | a table of ids that are given back early |
| RTP negotiation | `ortc`, `scalabilityModes` | payload types that mean three different things; validators that modify what they check |

## Modules

| module | models |
|---|---|
| `MediasoupWorker` | the worker's tables and its requests, as operators on a record |
| `Signalling` | the connections and handlers of the Go server, over `MediasoupWorker` |
| `FrameOps`, `FrameChannel` | what the Go decoder owes its caller, frame by frame |
| `Decoder` | the read loop and `Feed`, byte by byte; implements `FrameChannel` |
| `NodeObjects` | the objects of the Node library and of the process, and the messages between them |
| `NodeChannel`, `NodeWorker` | requests, responses and notifications; on top of it the life of a Worker and its process |
| `FrameQueue`, `NodeReceiver` | a queue of messages; the two 'data' callbacks, which implement it |
| `PauseState` | `pause()`, `resume()`, `consume()` and the notifications about a Producer |
| `PipePairs`, `PipeProducer` | the two halves of `pipeToRouter()` |
| `SctpStreams` | the stream ids of `consumeData()` |
| `Ortc`, `Validation` | the functions of `ortc.ts`; its validators |
| `MCSignalling`, `MCChannels`, `MCLibrary`, `MCOrtc` | instances for TLC |
| `SignallingProofs`, `WorkerProofs` | theorems about `Signalling`: types and mutexes; the worker's tables, the rooms, the streams and leaving |
| `NodeWorkerProofs` | theorems about `NodeChannel` and `NodeWorker` |
| `NodeObjectsProofs`, `NodeLiveProofs` | theorems about `NodeObjects`: what closing does to the library, the messages and what a Router finds; the library and the process |
| `PauseSctpProofs`, `PipeProofs` | the inductive invariants of `PauseState` and `SctpStreams`; those of `PipeProducer` |
| `LibraryProofs` | theorem about `PipePairs`; the theorems about the other three as `MCLibrary` puts them together |

### Signalling

The shared variables are the fields of the Go structures: `roomMap`, `members`
(`UserIdUserMap`), `producers`, `transId` and `consumers` (`User.Producer` and
`User.Consumer`), `mu`; `worker` and `link` are the worker and the socket to it.
`pc` and the local variables are those of the handler that the goroutine of a
connection runs. Ids drawn at random are taken to be distinct.

A handler is cut wherever another goroutine can see the difference. In detail:

- Requests that a handler writes back to back form one step. The worker handles
  them in order, and a request of another goroutine between them is either
  refused or has the same effect before or after. The same holds for the reads
  of `User.Consumer` that tell which streams to close: a second closing request
  for a transport is refused, and a transport that was just created is known to
  nobody until it is assigned.
- `user.Mu.Lock()` is part of the step after it, the deferred `Unlock` of the
  step that returns.
- `Range` in `ProcessDownOfferSdp` only copies, and is one step. The loops of
  `ClearUserInfo` do work for each entry and go key by key.
- The assignment `roomUsers[index].Consumer = consumerTransport` is two steps,
  `TransportId` first, because readers take no lock. The iteration over another
  user's `Producers` sees what was there at its start and any part of what was
  inserted until its end. (The Go runtime may abort the process when it notices
  such a map access; the model covers the runs in which it does not.)
- A panic (a user that vanished, two goroutines writing to one connection) runs
  the deferred `Unlock`, then `ClearUserInfo`; net/http recovers it. A panic
  inside `ClearUserInfo` ends the goroutine.
- When the worker exits, writes still succeed and are lost, because the parent
  holds the other ends of the socket pairs until `cmd.Wait()` returns; they fail
  once `WorkerManager.Close()` has run. Nothing restarts the worker.
- A failing write ends a handler where it stands, but a handler that locks a mutex
  before it writes has to get the mutex first (`WriteFails`).
- A page makes a new peer connection for every offer that it receives and drops the
  one before. `received` and `unanswered` count the offers; an answer is for any of
  those that are not answered yet, and answering one gives up the earlier ones.
  `Fingerprint(c, n)` stands for the certificate of the n-th of these peer
  connections, which is what the answer tells the server.
- An offer that gets lost is one that the page never answers. Pages owe nothing.

### MediasoupWorker

The server never looks at a reply, so a request is a function on the worker's
tables that is the identity when the worker refuses it. The conditions are those
of `Worker`, `Router`, `Transport`, `WebRtcTransport` and `RtpObserver`; closing
cascades as in their destructors and listeners. `connected` keeps, with a transport
that is connected, the fingerprint that its peer has to show: a second connect is
refused, so the first one counts.

### Decoder

`Feed` looks at each `Read` on its own. `FrameChannel` says what follows: a
`Read` delivers the run of JSON frames that starts at its first byte and lies
whole within it, provided that a frame starts there; everything else is dropped.
`ImplementsFrameChannel` is the refinement, with the frames still to come from
the current `Read` as its mapping of `pending`.

### The modules of the Node library

All of them have the same four places where a message can be: `toWorker`, `toNode`,
`micro` (promise continuations that a read made ready; they run before any other
callback) and `immediates` (notifications, which `Channel` puts off with
`setImmediate`). A 'data' callback takes any number of messages, with one `Read` per
message: `left` counts those that the running callback has still to handle, and no
continuation and no other callback runs until it is 0. `PipePairs` is the exception:
it keeps the state of each request with the pair, and lets continuations of one
response run together.

- `NodeObjects` has one record `lib` for the library (status of each object, who
  holds whom, what a Router knows) and a set `live` for the process; `args` is
  what each object was created with. The application creates and closes
  any object at any time. The process announces the closing of several Consumers
  in any order.
- `NodeChannel` keeps whole messages; `MaxId` stands for 4294967295. An id is
  taken only when no pending request has it (`IdIsFree`), which assumes that a
  request does not stay pending while 2^32 others are made.
- `NodeWorker` adds the three listeners of the constructor, `close()`, and the
  process, which may fail to start, run, stop by itself or be killed. `due` holds the
  events of the child that are still to be handled: 'exit', or 'error' where the
  process could not be started, which 'exit' may follow.
- `NodeReceiver` has the receive buffer, its limit and the discarding. `Ample`
  is the condition under which it implements `FrameQueue`.
- In `PauseState` the worker may refuse any request. A Consumer of a paused Producer
  is told so when it is made, before its request is accepted (`FirstNotice`): the
  notification may find no listener yet, and the response says the same.
- In `PipeProducer` the workers may refuse what `pipeToRouter()` asks for, the pausing
  or resuming of the copy at the end included (step "sync"), upon which it gives up
  what it has made (`Abandon`). The requests of its listeners are accepted while their
  object exists. The first notification of a Consumer is left out there, since the
  response carries the flag as well. The reads of two workers are independent of each
  other.
- `Ortc` takes a codec's name to be MIME type, clock rate and channels. A
  JavaScript object with optional members is a function on those that are
  present. H.264 profiles follow the package that `ortc.ts` calls; random
  SSRC bases are constants.
- `Validation` has an object for each validator and a value of each JavaScript
  type, truthy and falsy, for each member. The media type of a MIME type is kept
  apart (`tag`), because it overrides the kind of a codec capability. A refused object stays as it is: what a
  validator changed before it threw is left out.

## Runs

| run | question | bounds | distinct states |
|---|---|---|---|
| `concurrent` | what holds in every interleaving of two handlers | 2 pages, 1 room, 1 offer each, 4 consumer transports per user, the worker may exit, `MaxBusy` 2 | 2.4 million (up to symmetry) |
| `serial` | are subscriptions and worker objects exact after every message, late answers and second offers included | 3 pages, 1 room, 4 offers in all, `MaxBusy` 1 | 1.2 million (up to symmetry) |
| `contention` | does a stream ever cross a room or return to its own name; does every handler end | 4 pages, 2 rooms, 3 pages with two names in one of them, the worker may exit, `MaxBusy` 2 once all have joined | 0.34 million |
| `channels` | do the receiving ends deliver what they should; is every request settled, by its own response | below | 0.16 million |
| `objects` | do library and process agree on what exists | five sets of 4 to 6 objects | 0.68 million |
| `library` | pausing, pairs, piping, SCTP streams | below | 0.53 million |
| `ortc` | are negotiated parameters coherent; are the validators stable | below | 0.14 million |
| `last_room`, `room_race`, `earlier_streams`, `late_answer`, `server_close` | disagreements with comments | | |

`MaxBusy` is the number of goroutines that may be inside handlers together: 2
gives every pairwise interleaving, 1 is a server that is never hit twice at the
same time. The exactness properties are stated for the latter, since racing
handlers do break them (see the hazards in `PROJECT.json`); the properties of
`concurrent` and `contention` hold in spite of all races. `MaxTrans` is large enough
that no run stops a renegotiation of its pages' joins and leaves; in `contention` a
handler stopped by it would violate `HandlersReturn`. `Leavers` names the pages that
may go away. In `concurrent` and `serial` the pages are model values and
interchangeable, each with its own name in one room, so TLC may permute them
(`SYMMETRY Pages`; no liveness is checked there).

`contention` is about pages that meet at one mutex. That takes two pages with one
user name and a third user in the room, so that they are sent offers to answer; a
fourth page in another room is there for `RoomIsolation`. The joins, which
`concurrent` interleaves, happen one after another until the last (`BusyFrom` is 4
offers); from then on two goroutines run at a time: both pages that share a name answer for the same
User and wait for its mutex, a heart beat meets a write to the same connection and
the page's handler panics, `ClearUserInfo` deletes a User under a renegotiation, and
the worker exits in between. Nobody leaves by itself there (`Leavers` is empty): the
pages that go are those whose handler panicked. What is proved for any number of
goroutines (`LocksAreOwn`, `RoomsAreIsolated`) does not depend on these bounds.

`channels` and `library` put modules side by side that share no state: `part`
chooses the one that moves, the others rest. In `channels` the Go decoder gets 3
frames of 3 kinds in every cut, with a channel of capacity 1; the Node receivers
get 4 frames of 1 or 4 bytes behind headers of 2, in chunks of up to 4, with a
buffer limit (9) that holds what it must and one (5) that does not; the requests
are three on one channel or one on each, ids wrap at 2, and there is one
notification besides the first. In `library` there are 4 calls of `pause()` and
`resume()`; 3 calls of `pipeToRouter()` that start up to 2 pairs; a Producer or
DataProducer that is piped with 2 pauses or resumes; 3 DataConsumers for 2 streams.
Two pairs are what it takes for one to survive the other, three calls for one to
join each side; one more DataConsumer than streams makes the table overflow.

`objects` creates and closes all eleven kinds, but not all in one behaviour: the sets
in `Plans` hold those that interact (a Producer with two Consumers on different
transports; data over pipe and direct transports; observers; a WebRtcServer with
what lives on it; two transports of one server).

`ortc` has every sequence of up to three out of eight router codecs with four
dynamic payload types to choose from, so that they run out; Producers with RTX before
and after its codec, several codecs, simulcast, SVC and none; endpoints that
support less than the Router.

Deadlock is not checked: when the pages or the application have used up their
calls the system rests.

Fairness, where a run has it:

- `contention`: every goroutine that can run runs eventually (`WF` on
  `Handle(c)`), which the Go scheduler gives. The only waits are for a mutex. There
  is no fairness on pages or on the worker.
- `channels`: the read loop and the goroutine that drains the Go channel keep
  running; Node keeps taking events, and the process keeps working until it stops.
  It need not stop, and nobody need call anything.
- `objects`, `library`: the event loop runs, and a worker handles the requests it
  has got (in `PipePairs`, answers them), as its libuv loop does.

### What the properties say

Go server: `TypeOK` (types, and no handler uses a Room or User it has not loaded),
`NoDanglingObjects` (the worker's tables fit together), `ConsumeAfterConnect`,
`RoomIsolation`, `DepartedGone` (nobody is registered after leaving),
`PublisherStays` (what a page publishes ends only when the page leaves, the worker
exits, or somebody who counted nobody in the room closes its router),
`LocksFollowHandlers` (who holds a mutex, and that nobody holding one waits for
another), `HandlersReturn`, `SubscriptionsCurrent`, `WorkerMatchesRooms`,
`EveryoneSubscribed` (the transport offered last has a consumer for every stream of the
others and is connected); `ImplementsFrameChannel` and `FeedReturns` for the decoder.

The third case of `PublisherStays` is a loss that the code permits: `ClearUserInfo`
counts the users of a room, and closes the router and deletes the room later
(`worker.go:915`-`923`) without looking again. A page that has joined by then is cut
off. The property states that there is no other case. `EveryoneSubscribed` says that
the transport was connected by an answer of the page, not that it was the answer to
the last offer, which `late_answer` refutes.

Node library:

| property | says | exception it states |
|---|---|---|
| `NothingLeaks`, `OpenObjectsExist` | when nothing is on its way, what exists in the process is open in the library and held by its owner, and the other way round | an object made by a response that is read after its owner was closed is open without existing, and so is a transport that is created while its WebRtcServer is closed |
| `KnownSourcesOpen` | the Producers a Router finds are open | those of a transport that a WebRtcServer closed (`server_close`) |
| `ConsumersFollow` | a Consumer is closed after its Producer | its transport was closed |
| `OwnReply`, `WorkSettles` | a promise is settled by its own response, and in the end | `PayloadChannel.close()` leaves its pending requests |
| `RepliesFirst` | a notification is seen after the responses sent before it | the converse does not hold: a response may overtake an earlier notification in the same read |
| `NothingRevives`, `ExitNoticed` | `createWorker()` is settled once, 'died' is for Workers that the application has and did not close, the end of the process closes the Worker | |
| `ImplementsQueue` | every message is delivered once, whole and in order | the buffer must hold all but one byte of a frame and a chunk; the limit counts the length bytes too, so the largest message that the worker may send does not fit |
| `OnlySent` | after a discarded buffer Channel still delivers nothing twice, out of order or in part | PayloadChannel may then pair a head with another payload |
| `FlagsAgree` | the flags of library and process agree when nothing is on its way | |
| `EventsAgree` | so does the last 'pause' or 'resume' event of a Consumer's observer | not when calls overlap |
| `OnePair`, `CallsSettle` | one pair between two Routers, entered in both maps; every call ends | a pair for which `addPipeTransportPair()` threw is entered on one side; a failed pair stays in the map of the caller |
| `FailedLeavesNothing`, `PipedTogether`, `PipeReturns` | a failed `pipeToRouter()` leaves nothing; the copy ends and pauses with the Producer | for the second, the Producer must be left alone until the call returns: what happens to it while the copy is being brought to its state (`Router.ts:931`-`939`) is not passed on, since the listeners come after that |
| `StreamsExact` | no two DataConsumers share a stream and none is lost | a refused `consumeData()` keeps its id |
| `PayloadTypesCoherent`, `MappingSound`, `ConsumerCoherent`, `PipeAccepted` | payload types and RTX references fit at each stage | |
| `CanConsumeAgrees` | `canConsume()` and `consume()` agree | an endpoint with RTX that lacks a media codec of the Producer may be denied although `consume()` serves it, because only the first matching codec is looked at (`ortc.ts:1097`) |
| `Stable`, `KeepsGiven` | validating again changes nothing; given values stay | `Overwrites`: the kind of a codec capability becomes that of its MIME type (`ortc.ts:119`), the channels of a video codec are deleted, `reducedSize: false` becomes true (`ortc.ts:566`) |

### Disagreements with comments

- `last_room`: `worker.go:927` says that the other users of the room are updated;
  with several rooms it is the room visited last by `Range` that is.
- `room_race`: the branch commented "the room does not exist" (`worker.go:412`)
  may store over a room that exists by then.
- `earlier_streams`: `worker.go:587` says that the previous streams are closed;
  those of a User that a second offer replaced are not.
- `late_answer`: `worker.go:333` says that the DTLS parameters of the answer are parsed
  for the worker to connect with. They go to the transport that the User has by then.
  After a renegotiation in between this is a later one than the answer is for; it is
  connected with the certificate of a peer connection that the page has dropped, and
  the connect that belongs to it is refused.
- `server_close`: `Transport.ts:430` says that the Router need not be told of the
  Producers closed with a WebRtcServer because it has been closed; it has not.

## Proofs

Assumptions: `PagesAssumption` (a page names one room and one user),
`BoundsAssumption`, `NoneAssumption` of `Signalling`; `CallsAssumption` (a call is made
on one channel, calls are no notifications, and `Requests` is finite, because
`close()` goes through what is pending) and `BoundsAssumption` of `NodeChannel`;
`KindsAssumption` of `NodeObjects` (an object is of one kind, and there are finitely
many Consumers, because closing a Producer tells each of them); `MISAssumption` of
`MCLibrary` (a Transport has at least one SCTP stream). All other sets may be infinite.
The proofs use `Init` and `Next` only, never the fairness, and hold for every value of
the bounds: any number of pages, offers, goroutines inside handlers, objects, requests,
notifications, calls, pairs, DataConsumers and streams.

| theorem | statement | inductive invariant |
|---|---|---|
| `TypesCorrect` | `Spec => []TypeOK` | `TypeOK` |
| `NothingDangles` | `Spec => []NoDanglingObjects` | `WorkerSound(worker)` |
| `LocksAreOwn` | `Spec => []LocksFollowHandlers` | `LocksInv` |
| `RoomsAreIsolated` | `Spec => []RoomIsolation` | `HomeInv` and `RoomIsolation` |
| `ConsumedWhenConnected` | `Spec => []ConsumeAfterConnect` | `StreamInv` |
| `PublishersStay` | `Spec => PublisherStays` | `StreamInv`, `HomeInv` |
| `DepartedAreGone` | `Spec => []DepartedGone` | `DepartInv` |
| `WorkerEndsOnce` | `Spec => NothingRevives` | `WorkerConsistent` |
| `RepliesAreOwn` | `Spec => []OwnReply` | `ReplyInv` |
| `ContinuationsRunFirst` | `Spec => []RepliesFirst` | `OrderInv` |
| `RoutersKnowOpen` | `Spec => []KnownSourcesOpen` | `KnownInv` |
| `NothingIsLeaked` | `Spec => []NothingLeaks` | `LiveInv` |
| `OpenObjectsAreReal` | `Spec => []OpenObjectsExist` | `ExistInv` |
| `PairsAreUnique` | `MCSpec => []OnePair` | `PairsInv` |
| `FlagsDoAgree` | `MCSpec => []FlagsAgree` | `PauseInv` |
| `EventsDoAgree` | `MCSpec => []EventsAgree` | `EventInv` |
| `StreamsAreExact` | `MCSpec => []StreamsExact` | `SctpInv` |
| `FailuresLeaveNothing` | `MCSpec => []FailedLeavesNothing` | `FailInv` |
| `ArePipedTogether` | `MCSpec => []PipedTogether` | `PipeInv` |

- `TypeOK` is inductive as it stands because it says, in `LocalsSet`, which local
  variables a handler must have set at each of its steps: without that, a step that
  dereferences `room[c]` or `user[c]` could not be shown to stay in type.
- `WorkerSound` is preserved by every single request from any typed state, accepted
  or refused, in particular by the cascades of `CloseTransport` and `CloseRouter`. So
  the order in which the handlers' requests reach the worker does not matter. The
  uniqueness of observer ids is part of it because closing a router stops the
  observations by observer id.
- `LocksInv` adds to `LocksFollowHandlers` that a handler started by a message runs
  only while the read loop is alive: the goroutine that panics has released its mutex
  before `ClearUserInfo` starts.
- `HomeInv`: every pointer held by a map or a local variable leads to the room it was
  looked up for, and no user is among the others of its own name. The Users and Rooms
  may have been replaced or deleted since; that does not change where they belong.
- `StreamInv`: transport numbers in use are at most `made`, so that a new transport is
  never the one a handler is about to consume on; and a handler about to consume has
  a transport that is connected or gone. Which streams a step may close
  (`WorkerSteps`) gives `PublisherStays`: a router is closed only by a goroutine that has
  gone through the room and counted nobody.
- `DepartInv`: while `ClearUserInfo` runs, each entry of the connection in a registered
  room is still ahead of the two `Range` loops. It needs that nobody can enter a Room
  before it is registered (`RoomsFresh`): a Room stored behind the loop's back is
  empty, or holds no User of the connection.
- `WorkerConsistent` ties `spawnDone`, the settled promise, the state of the child and
  the events that are due to one another.
- `ReplyInv`: every request and every response on its way has an entry in `#sents` under
  its id, for its own call, and no two have the same id. Entries of calls that `close()`
  rejected stay behind, and are covered too.
- `OrderInv`: what is in `toNode` is the end of what the worker sent. Every call answered
  before that has its continuation behind it or in `micro`; every notification that has
  got to the application or to `immediates` was sent before it, and only once. A
  continuation goes first because `micro` is empty when an immediate runs.
- `KnownInv`: an owner holds exactly its open objects; a Router knows only sources on its
  own transports, open unless their server was closed; and a call waits for an answer in
  exactly one of `toWorker`, `toNode` and `micro`, so that a late response never opens what
  was closed. It rests on what each method does to the library (`Shuts`): the set of objects
  it closes, and that nothing else changes.
- `LiveInv`: an object of the process stands on others that exist, and is open in the
  library, about to be (its answer or continuation is on its way), or about to be deleted
  (a request that closes something it depends on is on its way). What was announced as
  deleted has gone for good. Once nothing is on its way only the first case is left.
- `ExistInv`: an object that is open, or about to be, exists in the process, or its
  closing is announced, or something that it depends on was closed, or the process has
  ended. The announcement comes behind the answer to the creation (`AnswersFirst`). The
  hard case is an object that is called for on a Transport which was itself created
  after its Router had been closed: both Transport and owner are open, yet the request
  comes behind the one that deletes the Router (`TooLate`), so it is refused and the
  object is never open (`Barren`).
- `PairInv`: a pair that may still come into use is in the map of the Router that
  started it, and in the other's unless that holds a dead pair. `OnePair` alone is not
  inductive, since a call that finds its map empty starts a pair. Every other step only
  takes pairs towards their end (`PairsAge`).
- `PauseInv`: of all the messages about a flag that are on their way, the last one, in the
  order in which the library will see them, carries the value that the worker has
  (`Latest` for the answers, `Told` for the notifications); when there is none the library
  has that value already. The order is not the one of sending: a notification in
  `immediates` is seen after the answers in `micro`. Refusals carry nothing. The
  answer that makes the Consumer carries the flag of the Producer as well: it is right, or a
  notification comes behind it (`MadeRight`), so that it does not matter whether the
  notification sent right before it finds a listener. `MadeOnce` says that there is one such
  answer, and no notification without a Consumer in the worker.
- `EventInv` adds the events, for calls that do not overlap: the last event of the
  Consumer's observer is right for the flags that the library has now.
- `SctpInv`: a stream id is given back when the DataConsumer is closed in the library, while
  the worker may not have heard of it, and can be taken again at once. Each live
  DataConsumer whose id was given back has its close request ahead of every consume request
  for that id (`CloseAhead`), so the worker never has two.
- `FailInv`: each creation is asked for once, and its answer finds the step of
  `pipeToRouter()` that waits for it; what exists in a worker is open in the library, or its
  answer is on its way, or the request that closes it is. With nothing on its way only the
  first is left, and a failed call has nothing open.
- `PipeInv` follows one flag through the queues of two workers. On each side, what the
  library has, changed by the messages on their way (`After`), is what that worker has
  (`Known`). Between the sides, the orders on their way to the second worker end with what
  the pipe Consumer was told (`Together`), provided that the Producer was left alone until
  `pipeToRouter()` had returned (`Early`): the listeners exist only from then on. An object
  that has lost its source is about to be told (`Ended`).

`WorkerProofs` extends `SignallingProofs`, and `NodeLiveProofs` extends `NodeObjectsProofs`.
Each has one lemma per action, or per group of actions that leave the variables in question
alone, and a step lemma that combines them. `PauseSctpProofs` and `PipeProofs` are about the
modules with their own variables; `LibraryProofs` instantiates both with the variables of
`MCLibrary`, shows that the steps of the two instances of a module are the same
(`PauseNextSame`, `PipeLoopSame` and the others), and gets the theorems of the run from them.
`ReplyInv`, `OrderInv`, `KnownInv`, `LiveInv`, `ExistInv`, `PauseInv`, `EventInv`, `SctpInv`,
`FailInv` and `PipeInv` held on the instances of the runs before they were proved.

Only model-checked:

- the exactness properties of `serial` (`SubscriptionsCurrent`, `WorkerMatchesRooms`,
  `EveryoneSubscribed`), which need `MaxBusy = 1`;
- all liveness (`HandlersReturn`, `FeedReturns`, `WorkSettles`, `ExitNoticed`,
  `ConsumersFollow`, `CallsSettle`, `PipeReturns`), which is out of the prover's reach;
- the refinements of `Decoder` and `NodeReceiver`, `OnlySent`, and the properties of `Ortc`
  and `Validation`, whose definitions go through sequences by recursion or folds: what they
  compute for every input would take induction over data.

## Not modelled

Go server:

- SDP parsing and generation, and the RTP parameters in `ProcessDownOfferSdp`. With
  them is left out that two renegotiations write the same rtx map of a producer
  (`worker.go:674`, `677`), on which the Go runtime may stop the whole process.
- The pipe handlers (`ProcessPipe01` and the others): a demonstration with two fixed
  rooms, `lsk01pipe01` and `lsk01pipe02`, fixed ids and ports. The rooms of `Signalling`
  are the other ones. `ProcessSignal`, which passes a message on.
- Replies of the worker (`response`, `shaMap`), start-up, the ping goroutine.
- Timeouts of writes to pages: their errors are printed and ignored.
- The demo pages.

mediasoup:

- The media path of the worker, and the Rust library.
- In the Node library: requests that change no modelled state (`dump()`, statistics,
  bitrates, preferred layers, trace events); `PayloadChannel.notify()`; code of the
  application that runs inside a synchronous event or observer callback; the counter
  for MIDs.
- The start-up arguments of the worker and the npm scripts.
