---------------------------- MODULE NodeChannel ----------------------------
(***************************************************************************)
(* The two message channels between the mediasoup Node library and one     *)
(* worker process: Channel (requests, responses, notifications) and        *)
(* PayloadChannel (the same with a binary payload).  A request returns a   *)
(* promise that its response settles.                                      *)
(*                                                                         *)
(* Messages are whole here; their bytes are the subject of NodeReceiver.   *)
(* A 'data' callback handles the messages of one chunk, one `Read' each;   *)
(* `left' counts those still to come.  Continuations of settled promises   *)
(* are microtasks (`micro'), which run before any other callback.          *)
(* Notifications of Channel are put off with setImmediate (`immediates');  *)
(* those of PayloadChannel are emitted inside the callback, so that code   *)
(* of the application may run there too.                                   *)
(***************************************************************************)
EXTENDS Integers, Sequences, FiniteSets, Functions

CONSTANTS
  Requests,          \* calls of channel.request()
  PayloadRequests,   \* calls of payloadChannel.request()
  Uses,              \* bound: the sets of calls that one behaviour may make
  MaxId,             \* the largest message id, 4294967295 in the code
  MaxNotes           \* bound: notifications that the worker sends

Channels == {"channel", "payload"}
Calls    == Requests \cup PayloadRequests
ChannelOf(c) == IF c \in Requests THEN "channel" ELSE "payload"
Nothing  == <<>>

\* A call is made once, on one channel, and no notification is a call.
ASSUME CallsAssumption ==
  /\ IsFiniteSet(Requests)
  /\ Requests \cap PayloadRequests = {} /\ Calls \cap Nat = {}
ASSUME BoundsAssumption == MaxId \in Nat \ {0} /\ MaxNotes \in Nat

VARIABLES
  alive,       \* the worker process runs
  closed,      \* #closed of each channel
  nextId,      \* #nextId
  sents,       \* #sents: from the id to the call
  promise,     \* state of the promise of each call
  reply,       \* the call that the response was for which settled the promise
  toWorker,    \* requests written and not yet handled
  toNode,      \* responses and notifications not yet read
  left,        \* messages that the running 'data' callback has still to handle
  micro,       \* calls whose continuation is ready
  immediates,  \* notifications waiting for the next check phase
  notes,       \* number of notifications sent
  sent,        \* history: what the worker wrote to each channel
  seen         \* history: what reached the application from each channel

chvars == <<alive, closed, nextId, sents, promise, reply, toWorker, toNode,
            left, micro, immediates, notes, sent, seen>>

Init ==
  /\ alive = TRUE
  /\ closed = [ch \in Channels |-> FALSE]
  /\ nextId = [ch \in Channels |-> 0]
  /\ sents = [ch \in Channels |-> Nothing]
  /\ promise = [c \in Calls |-> "none"]
  /\ reply = [c \in Calls |-> "none"]
  /\ toWorker = [ch \in Channels |-> <<>>]
  /\ toNode = [ch \in Channels |-> <<>>]
  /\ left = [ch \in Channels |-> 0]
  /\ micro = <<>> /\ immediates = <<>> /\ notes = 0
  /\ sent = [ch \in Channels |-> <<>>]
  /\ seen = [ch \in Channels |-> <<>>]

Reply(id, c, ok) == [id |-> id, of |-> c, ok |-> ok]
Note(n)          == [id |-> 0, of |-> n, ok |-> TRUE]
IsReply(m)       == m.id # 0

-----------------------------------------------------------------------------
(* Calls of the application.                                               *)

\* Mutant of NextId: the id starts again from 0.
NextIdFromZero(n) == IF n < MaxId THEN n + 1 ELSE 0

\* Mutant of NextId: it does not advance.
NextIdStuck(n) == 1

NextId(n) == IF n < MaxId THEN n + 1 ELSE 1

\* A request is settled before MaxId more are made on its channel.
IdIsFree(ch) == (nextId[ch] % MaxId) + 1 \notin DOMAIN sents[ch]

Wanted(c) == \E use \in Uses : {d \in Calls : promise[d] # "none"} \cup {c} \subseteq use

\* #sents.set(id, c).
Put(map, id, c) == [k \in DOMAIN map \cup {id} |-> IF k = id THEN c ELSE map[k]]

\* request() throws when the channel is closed or the message is too big; what
\* is written to a process that has exited is lost.
Request(c) ==
  LET ch == ChannelOf(c)
      id == NextId(nextId[ch])
  IN  /\ promise[c] = "none" /\ Wanted(c) /\ IdIsFree(ch)
      /\ nextId' = [nextId EXCEPT ![ch] = id]
      /\ \/ /\ promise' = [promise EXCEPT ![c] = "rejected"]
            /\ UNCHANGED <<sents, toWorker>>
         \/ /\ ~closed[ch]
            /\ promise' = [promise EXCEPT ![c] = "pending"]
            /\ sents' = [sents EXCEPT ![ch] = Put(@, id, c)]
            /\ toWorker' = IF alive THEN [toWorker EXCEPT ![ch] = Append(@, <<id, c>>)]
                                    ELSE toWorker
      /\ UNCHANGED <<alive, closed, reply, toNode, left, micro, immediates, notes, sent, seen>>

\* The elements of a finite set, in some order.
Listed(S) == CHOOSE f \in Bijection(1..Cardinality(S), S) : TRUE

\* channel.close(): rejects what is pending and leaves #sents as it is.
CloseChannel(p) ==
  LET pending == Listed({c \in Requests : p[c] = "pending"})
  IN  [promises |-> [c \in Calls |-> IF c \in Range(pending) THEN "rejected" ELSE p[c]],
       ready    |-> pending]

\* payloadChannel.close() rejects nothing.
ClosePayloadChannel(p) == [promises |-> p, ready |-> <<>>]

CloseBoth ==
  LET r == CloseChannel(promise)
      s == ClosePayloadChannel(r.promises)
  IN  /\ closed' = [ch \in Channels |-> TRUE]
      /\ promise' = s.promises
      /\ micro' = micro \o r.ready \o s.ready

InCallback == \E ch \in Channels : left[ch] > 0

\* Node may run the next callback.
NextCallback == ~InCallback /\ micro = <<>>

\* The timer of close() destroys the sockets: nothing more is read.
DestroySockets ==
  /\ NextCallback /\ closed["channel"] /\ toNode # [ch \in Channels |-> <<>>]
  /\ toNode' = [ch \in Channels |-> <<>>]
  /\ UNCHANGED <<alive, closed, nextId, sents, promise, reply, toWorker, left, micro,
                 immediates, notes, sent, seen>>

-----------------------------------------------------------------------------
(* The event loop.                                                         *)

\* sent.resolve() and sent.reject(): a promise is settled once.
Settle(s, m) ==
  LET c == s.sents[m.id]
  IN  [s EXCEPT
         !.sents = Restrict(@, DOMAIN @ \ {m.id}),
         !.promise[c] = IF @ # "pending" THEN @ ELSE IF m.ok THEN "resolved" ELSE "rejected",
         !.reply[c] = IF s.promise[c] = "pending" THEN m.of ELSE @,
         !.micro = IF s.promise[c] = "pending" THEN Append(@, c) ELSE @]

\* Mutant of ProcessMessage: all notifications but the first, 'running', are
\* emitted at once.
ProcessMessageAtOnce(s, m) ==
  CASE IsReply(m) /\ m.id \in DOMAIN s.sents -> Settle(s, m)
    [] IsReply(m) /\ m.id \notin DOMAIN s.sents -> s
    [] ~IsReply(m) /\ m.of = 0 -> [s EXCEPT !.immediates = Append(@, m.of)]
    [] ~IsReply(m) /\ m.of # 0 -> [s EXCEPT !.seen = Append(@, m.of)]

ProcessMessage(s, m) ==
  CASE IsReply(m) /\ m.id \in DOMAIN s.sents -> Settle(s, m)
    [] IsReply(m) /\ m.id \notin DOMAIN s.sents -> s
    [] ~IsReply(m) -> [s EXCEPT !.immediates = Append(@, m.of)]

ProcessData(s, m) ==
  CASE IsReply(m) /\ m.id \in DOMAIN s.sents -> Settle(s, m)
    [] IsReply(m) /\ m.id \notin DOMAIN s.sents -> s
    [] ~IsReply(m) -> [s EXCEPT !.seen = Append(@, m.of)]

Process(ch, s, m) == IF ch = "channel" THEN ProcessMessage(s, m) ELSE ProcessData(s, m)

\* One message of a chunk: the first of it, or the next one.
Read(ch) ==
  /\ \/ NextCallback /\ \E n \in 1..Len(toNode[ch]) : left' = [left EXCEPT ![ch] = n - 1]
     \/ left[ch] > 0 /\ left' = [left EXCEPT ![ch] = @ - 1]
  /\ LET before == [sents |-> sents[ch], promise |-> promise, reply |-> reply,
                    micro |-> micro, immediates |-> immediates, seen |-> seen[ch]]
         after  == Process(ch, before, Head(toNode[ch]))
     IN  /\ sents' = [sents EXCEPT ![ch] = after.sents]
         /\ promise' = after.promise /\ reply' = after.reply
         /\ micro' = after.micro /\ immediates' = after.immediates
         /\ seen' = [seen EXCEPT ![ch] = after.seen]
  /\ toNode' = [toNode EXCEPT ![ch] = Tail(@)]
  /\ UNCHANGED <<alive, closed, nextId, toWorker, notes, sent>>

ReadChannel        == Read("channel")
ReadPayloadChannel == Read("payload")

Continue ==
  /\ ~InCallback /\ micro # <<>>
  /\ micro' = Tail(micro)
  /\ seen' = [seen EXCEPT ![ChannelOf(Head(micro))] = Append(@, Head(micro))]
  /\ UNCHANGED <<alive, closed, nextId, sents, promise, reply, toWorker, toNode,
                 left, immediates, notes, sent>>

RunImmediate ==
  /\ NextCallback /\ immediates # <<>>
  /\ immediates' = Tail(immediates)
  /\ seen' = [seen EXCEPT !["channel"] = Append(@, Head(immediates))]
  /\ UNCHANGED <<alive, closed, nextId, sents, promise, reply, toWorker, toNode,
                 left, micro, notes, sent>>

-----------------------------------------------------------------------------
(* The worker process.                                                     *)

WorkerWrites(ch, m) ==
  /\ toNode' = [toNode EXCEPT ![ch] = Append(@, m)]
  /\ sent' = [sent EXCEPT ![ch] = Append(@, m.of)]

WorkerAnswers ==
  /\ alive
  /\ \E ch \in Channels, ok \in BOOLEAN :
       /\ toWorker[ch] # <<>>
       /\ WorkerWrites(ch, Reply(Head(toWorker[ch])[1], Head(toWorker[ch])[2], ok))
       /\ toWorker' = [toWorker EXCEPT ![ch] = Tail(@)]
  /\ UNCHANGED <<alive, closed, nextId, sents, promise, reply, left, micro, immediates,
                 notes, seen>>

WorkerNotifies ==
  /\ alive /\ notes < MaxNotes
  /\ \E ch \in Channels : WorkerWrites(ch, Note(notes + 1))
  /\ notes' = notes + 1
  /\ UNCHANGED <<alive, closed, nextId, sents, promise, reply, toWorker, left, micro,
                 immediates, seen>>

ProcessEnds ==
  /\ alive' = FALSE
  /\ toWorker' = [ch \in Channels |-> <<>>]

-----------------------------------------------------------------------------
(* Properties.                                                             *)

\* The response that settles a promise is the response to that very call, also
\* after the ids have wrapped and after close() left its entries behind
\* (request(), processMessage(), processData()).
OwnReply == \A c \in Calls : reply[c] \in {"none", c}

\* m reached the application before n did.
SeenBefore(ch, m, n) ==
  \E i, j \in DOMAIN seen[ch] : i < j /\ seen[ch][i] = m /\ seen[ch][j] = n

\* A notification that the worker sends after a response reaches the
\* application after the continuation of that response (the setImmediate() of
\* Channel.processMessage).
RepliesFirst ==
  \A i, j \in DOMAIN sent["channel"] :
     LET c == sent["channel"][i]
         n == sent["channel"][j]
     IN  i < j /\ c \in Requests /\ n \notin Requests /\ n \in Range(seen["channel"])
           => SeenBefore("channel", c, n)

\* c is settled, or was pending on PayloadChannel when that was closed.
Settled(c) ==
  promise[c] \in {"resolved", "rejected"} \/ (c \in PayloadRequests /\ closed["payload"])
=============================================================================
