---------------------------- MODULE NodeObjects ----------------------------
(***************************************************************************)
(* The objects of the mediasoup Node library and their life cycle: Worker, *)
(* WebRtcServer, Router, the four kinds of Transport, Producer, Consumer,  *)
(* DataProducer, DataConsumer and RtpObserver.                             *)
(*                                                                         *)
(* A method that creates an object writes a request to the worker process, *)
(* waits for the response and only then makes and registers the object.  A *)
(* method that closes one marks it and everything below it closed at once, *)
(* writes a request and waits for nothing.  So the library's objects and   *)
(* those of the process differ while messages are on their way.            *)
(*                                                                         *)
(* Node runs one callback at a time.  A 'data' callback handles the        *)
(* messages of one chunk, one `Read' each; `left' counts those still to    *)
(* come.  `micro' holds the continuations that they made ready, which run  *)
(* before any other callback.                                              *)
(* `immediates' holds the notifications, which Channel hands to            *)
(* setImmediate().  Code of the application runs as a callback of its own, *)
(* or behind the continuation that it was waiting for.                     *)
(***************************************************************************)
EXTENDS Integers, Sequences, FiniteSets, Functions

CONSTANTS
  WebRtcServers, Routers,
  WebRtcTransports, PlainTransports, PipeTransports, DirectTransports,
  Producers, DataProducers, Consumers, DataConsumers,
  ActiveSpeakerObservers, AudioLevelObservers,
  Plans   \* bound: the sets of objects that one behaviour may create

Worker == "worker"
Nobody == "nobody"

Transports == WebRtcTransports \cup PlainTransports \cup PipeTransports \cup DirectTransports
Sources    == Producers \cup DataProducers
Sinks      == Consumers \cup DataConsumers
Observers  == ActiveSpeakerObservers \cup AudioLevelObservers
Created    == WebRtcServers \cup Routers \cup Transports \cup Sources \cup Sinks \cup Observers
Objects    == Created \cup {Worker}
Owners     == {Worker} \cup Routers \cup Transports

\* Every object has an id and a kind of its own.
ASSUME KindsAssumption ==
  /\ Worker \notin Created /\ Nobody \notin Objects /\ IsFiniteSet(Sinks)
  /\ WebRtcServers \cap (Routers \cup Transports \cup Sources \cup Sinks \cup Observers) = {}
  /\ Routers \cap (Transports \cup Sources \cup Sinks \cup Observers) = {}
  /\ Transports \cap (Sources \cup Sinks \cup Observers) = {}
  /\ Sources \cap (Sinks \cup Observers) = {} /\ Sinks \cap Observers = {}

VARIABLES
  lib,         \* the library's objects: see NoLibrary
  args,        \* of each object: the one it is created on, its server, its source
  toWorker,    \* requests written and not yet handled
  live,        \* the objects that exist in the worker process, itself included
  toNode,      \* responses and notifications not yet read
  left,        \* messages that the running 'data' callback has still to handle
  micro,       \* ids of the objects whose creation goes on with the next microtasks
  immediates,  \* Consumers whose 'producerclose' is to be emitted
  appTurn      \* may code of the application run now

vars == <<lib, args, toWorker, live, toNode, left, micro, immediates, appTurn>>

\* status: the closed flag, and before it the progress of the creation; held:
\* the sets and maps of children; known: Router.#producers and #dataProducers;
\* served: WebRtcServer.#webRtcTransports.
NoLibrary ==
  [status |-> [x \in Objects |-> IF x = Worker THEN "open" ELSE "none"],
   held   |-> [x \in Owners |-> {}],
   known  |-> [r \in Routers |-> {}],
   served |-> [s \in WebRtcServers |-> {}]]

NoArgs == [on |-> Nobody, server |-> Nobody, source |-> Nobody]

Init ==
  /\ lib = NoLibrary
  /\ args = [x \in Created |-> NoArgs]
  /\ toWorker = <<>> /\ live = {Worker} /\ toNode = <<>>
  /\ left = 0 /\ micro = <<>> /\ immediates = <<>> /\ appTurn = TRUE

IsOpen(x)  == lib.status[x] = "open"
\* The application has a reference to x.
HasRef(x)  == lib.status[x] \in {"open", "closed"}
RouterOf(t) == args[t].on

-----------------------------------------------------------------------------
(* Closing: what each method does to the library's objects.                *)

MarkClosed(l, S) ==
  [l EXCEPT !.status = [x \in Objects |-> IF x \in S THEN "closed" ELSE l.status[x]]]

OpenIn(l, S) == {x \in S : l.status[x] = "open"}

\* producer.transportClosed(), consumer.transportClosed() and so on for all
\* that the Transports in T hold; their maps are cleared.
TransportsDown(l, T) ==
  MarkClosed([l EXCEPT !.held = [x \in DOMAIN @ |-> IF x \in T THEN {} ELSE @[x]]],
             T \cup UNION {l.held[t] : t \in T})

\* Mutant of TransportClose: the Router is not told about the Producers.
TransportCloseSilently(l, t) ==
  [TransportsDown(l, {t}) EXCEPT
     !.held[RouterOf(t)] = @ \ {t},
     !.served = [s \in WebRtcServers |-> @[s] \ {t}]]

\* transport.close(): '@producerclose' and '@close' reach the Router, '@close'
\* also the WebRtcServer.
TransportClose(l, t) ==
  [TransportsDown(l, {t}) EXCEPT
     !.known[RouterOf(t)] = @ \ l.held[t],
     !.held[RouterOf(t)] = @ \ {t},
     !.served = [s \in WebRtcServers |-> @[s] \ {t}]]

\* router.workerClosed() of the Routers in R, and the part of router.close()
\* that it shares; transport.routerClosed() emits no event.
RoutersDown(l, R) ==
  LET gone  == OpenIn(l, R)
      below == UNION {l.held[r] : r \in gone}
      down  == TransportsDown(l, OpenIn(l, below \cap Transports))
  IN  [MarkClosed(down, gone \cup (below \cap Observers)) EXCEPT
         !.held  = [x \in DOMAIN @ |-> IF x \in gone THEN {} ELSE @[x]],
         !.known = [r \in Routers |-> IF r \in gone THEN {} ELSE @[r]]]

RouterClose(l, r) == [RoutersDown(l, {r}) EXCEPT !.held[Worker] = @ \ {r}]

\* The Worker forgets the WebRtcServer.  After transport.listenServerClosed() only
\* '@listenserverclose' reaches the Routers, which forget the Transports.
WebRtcServerClose(l, s) ==
  LET ts == OpenIn(l, l.served[s])
  IN  [MarkClosed(TransportsDown(l, ts), {s}) EXCEPT
         !.held = [x \in DOMAIN @ |-> @[x] \ ({s} \cup ts)],
         !.served[s] = {}]

WebRtcServersDown(l, S) ==
  LET gone == OpenIn(l, S)
  IN  [MarkClosed(l, gone) EXCEPT
         !.served = [s \in WebRtcServers |-> IF s \in gone THEN {} ELSE @[s]]]

\* channel.close() rejects every pending request; then the Routers and the
\* WebRtcServers are closed.  Shared by worker.close() and workerDied().
WorkerDown(l) ==
  LET rejected == [l EXCEPT !.status =
        [x \in Objects |-> IF l.status[x] = "creating" /\ x \notin Range(micro)
                           THEN "rejected" ELSE l.status[x]]]
      routers  == RoutersDown(MarkClosed(rejected, {Worker}), l.held[Worker] \cap Routers)
  IN  [WebRtcServersDown(routers, l.held[Worker] \cap WebRtcServers) EXCEPT !.held[Worker] = {}]

\* producer.close() and dataProducer.close().
SourceClose(l, p) ==
  [MarkClosed(l, {p}) EXCEPT !.held[args[p].on] = @ \ {p},
                             !.known[RouterOf(args[p].on)] = @ \ {p}]

\* consumer.close() and dataConsumer.close(), and what is left to do when the
\* worker reports that the source was closed; rtpObserver.close().
LeafClose(l, c) == [MarkClosed(l, {c}) EXCEPT !.held[args[c].on] = @ \ {c}]

-----------------------------------------------------------------------------
(* The application's calls.                                                *)

Planned(x) ==
  \E plan \in Plans : {y \in Created : lib.status[y] # "none"} \cup {x} \subseteq plan

\* channel.request() for a creation; it throws once the Channel is closed.
Call(x, a) ==
  /\ appTurn /\ lib.status[x] = "none" /\ HasRef(a.on) /\ Planned(x)
  /\ args' = [args EXCEPT ![x] = a]
  /\ \/ /\ IsOpen(Worker)
        /\ lib' = [lib EXCEPT !.status[x] = "creating"]
        /\ toWorker' = Append(toWorker, [op |-> "create", id |-> x])
     \/ /\ ~IsOpen(Worker)
        /\ lib' = [lib EXCEPT !.status[x] = "rejected"]
        /\ UNCHANGED toWorker
  /\ UNCHANGED <<live, toNode, left, micro, immediates, appTurn>>

On(x) == [NoArgs EXCEPT !.on = x]

CreateWebRtcServer == \E s \in WebRtcServers : Call(s, On(Worker))
CreateRouter       == \E r \in Routers : Call(r, On(Worker))

CreateWebRtcTransport ==
  \E t \in WebRtcTransports, r \in Routers, s \in WebRtcServers \cup {Nobody} :
     (s # Nobody => HasRef(s)) /\ Call(t, [On(r) EXCEPT !.server = s])
CreatePlainTransport  == \E t \in PlainTransports, r \in Routers : Call(t, On(r))
CreatePipeTransport   == \E t \in PipeTransports, r \in Routers : Call(t, On(r))
CreateDirectTransport == \E t \in DirectTransports, r \in Routers : Call(t, On(r))

CreateActiveSpeakerObserver == \E o \in ActiveSpeakerObservers, r \in Routers : Call(o, On(r))
CreateAudioLevelObserver    == \E o \in AudioLevelObservers, r \in Routers : Call(o, On(r))

Produce     == \E p \in Producers, t \in Transports : Call(p, On(t))
ProduceData == \E p \in DataProducers, t \in Transports : Call(p, On(t))

\* getProducerById() must find the Producer, or the method throws.
Consume ==
  \E c \in Consumers, t \in Transports :
     HasRef(t) /\ \E p \in lib.known[RouterOf(t)] \cap Producers :
        Call(c, [On(t) EXCEPT !.source = p])
ConsumeData ==
  \E c \in DataConsumers, t \in Transports :
     HasRef(t) /\ \E p \in lib.known[RouterOf(t)] \cap DataProducers :
        Call(c, [On(t) EXCEPT !.source = p])

\* close() of an open object: the request is written at once.
Close(x, l) ==
  /\ appTurn /\ IsOpen(x)
  /\ lib' = l
  /\ toWorker' = IF IsOpen(Worker) THEN Append(toWorker, [op |-> "close", id |-> x]) ELSE toWorker
  /\ UNCHANGED <<args, live, toNode, left, micro, immediates, appTurn>>

CloseWebRtcServer == \E s \in WebRtcServers : Close(s, WebRtcServerClose(lib, s))
CloseRouter       == \E r \in Routers : Close(r, RouterClose(lib, r))
CloseTransport    == \E t \in Transports : Close(t, TransportClose(lib, t))

\* Mutant of CloseProducer: the worker is not told.
CloseProducerLocally ==
  \E p \in Producers :
     /\ appTurn /\ IsOpen(p)
     /\ lib' = SourceClose(lib, p)
     /\ UNCHANGED <<args, toWorker, live, toNode, left, micro, immediates, appTurn>>

CloseProducer     == \E p \in Producers : Close(p, SourceClose(lib, p))
CloseDataProducer == \E p \in DataProducers : Close(p, SourceClose(lib, p))
CloseConsumer     == \E c \in Consumers : Close(c, LeafClose(lib, c))
CloseDataConsumer == \E c \in DataConsumers : Close(c, LeafClose(lib, c))
CloseRtpObserver  == \E o \in Observers : Close(o, LeafClose(lib, o))

\* worker.close() kills the process.
CloseWorker ==
  /\ appTurn /\ IsOpen(Worker)
  /\ lib' = WorkerDown(lib)
  /\ live' = {} /\ toWorker' = <<>>
  /\ UNCHANGED <<args, toNode, left, micro, immediates, appTurn>>

-----------------------------------------------------------------------------
(* The event loop.                                                         *)

\* Node may run the next callback.
NextCallback == left = 0 /\ micro = <<>>

Pending(x) == lib.status[x] = "creating"

\* Mutant of Process: notifications are emitted at once, before the continuations.
ProcessEmitting(m) ==
  \/ /\ m.op = "accepted"
     /\ micro' = IF Pending(m.id) THEN Append(micro, m.id) ELSE micro
     /\ UNCHANGED <<lib, immediates>>
  \/ /\ m.op = "rejected"
     /\ lib' = IF Pending(m.id) THEN [lib EXCEPT !.status[m.id] = "rejected"] ELSE lib
     /\ UNCHANGED <<micro, immediates>>
  \/ /\ m.op = "producerclose"
     /\ lib' = IF IsOpen(m.id) THEN LeafClose(lib, m.id) ELSE lib
     /\ UNCHANGED <<micro, immediates>>

\* Channel.processMessage: a response makes the continuation of its request ready
\* if that is pending, a notification is put off.
Process(m) ==
  \/ /\ m.op = "accepted"
     /\ micro' = IF Pending(m.id) THEN Append(micro, m.id) ELSE micro
     /\ UNCHANGED <<lib, immediates>>
  \/ /\ m.op = "rejected"
     /\ lib' = IF Pending(m.id) THEN [lib EXCEPT !.status[m.id] = "rejected"] ELSE lib
     /\ UNCHANGED <<micro, immediates>>
  \/ /\ m.op = "producerclose"
     /\ immediates' = Append(immediates, m.id)
     /\ UNCHANGED <<lib, micro>>

\* One message of the socket's 'data' callback: the first of n, or the next one.
Read ==
  /\ \/ NextCallback /\ \E n \in 1..Len(toNode) : left' = n - 1
     \/ left > 0 /\ left' = left - 1
  /\ Process(Head(toNode))
  /\ toNode' = Tail(toNode)
  /\ appTurn' = (left' = 0 /\ micro' = <<>>)
  /\ UNCHANGED <<args, toWorker, live>>

\* The continuation of a creation: the object is made and registered with its
\* owner, with the Router ('@newproducer', '@newdataproducer') and with the
\* WebRtcServer (handleWebRtcTransport); no owner is asked whether it is closed.
Register(l, x) ==
  LET a == args[x]
  IN  [l EXCEPT !.status[x] = "open",
                !.held[a.on] = @ \cup {x},
                !.known = [r \in Routers |-> IF x \in Sources /\ r = RouterOf(a.on)
                                             THEN @[r] \cup {x} ELSE @[r]],
                !.served = [s \in WebRtcServers |-> IF s = a.server
                                                    THEN @[s] \cup {x} ELSE @[s]]]

Continue ==
  /\ left = 0 /\ micro # <<>>
  /\ lib' = Register(lib, Head(micro))
  /\ micro' = Tail(micro)
  /\ appTurn' = TRUE
  /\ UNCHANGED <<args, toWorker, live, toNode, left, immediates>>

\* An immediate: the Channel emits an event to the first of immediates, which
\* listens only while it is open.
Emit(sinks) ==
  /\ NextCallback /\ immediates # <<>>
  /\ LET c == Head(immediates)
     IN  c \in sinks /\ lib' = IF IsOpen(c) THEN LeafClose(lib, c) ELSE lib
  /\ immediates' = Tail(immediates)
  /\ UNCHANGED <<args, toWorker, live, toNode, left, micro, appTurn>>

\* Mutant of OnDataProducerClose: the event is not handled.
OnDataProducerCloseIgnored ==
  /\ NextCallback /\ immediates # <<>> /\ Head(immediates) \in DataConsumers
  /\ immediates' = Tail(immediates)
  /\ UNCHANGED <<lib, args, toWorker, live, toNode, left, micro, appTurn>>

OnProducerClose     == Emit(Consumers)        \* 'producerclose'
OnDataProducerClose == Emit(DataConsumers)    \* 'dataproducerclose'

\* The child's 'exit' event.
WorkerDied ==
  /\ NextCallback /\ Worker \notin live /\ IsOpen(Worker)
  /\ lib' = WorkerDown(lib)
  /\ toWorker' = <<>>
  /\ UNCHANGED <<args, live, toNode, left, micro, immediates, appTurn>>

-----------------------------------------------------------------------------
(* The worker process.                                                     *)

\* What a creation needs to exist; the process may still refuse it (no free
\* port, parameters that do not fit).
Possible(x) ==
  /\ args[x].on \in live
  /\ args[x].server \in live \cup {Nobody}
  /\ args[x].source \in live \cup {Nobody}

\* Everything below S: transports of a server or a router, their contents.
Below(S) ==
  LET ts == {t \in live \cap Transports : args[t].on \in S \/ args[t].server \in S}
      cs == {x \in live \cap (Sources \cup Sinks \cup Observers) : args[x].on \in S \cup ts}
  IN  S \cup ts \cup cs

\* Consumers of the closed sources; deleting a Router notifies nobody.
Orphans(x) ==
  IF x \in Routers THEN {} ELSE {c \in live \cap Sinks : args[c].source \in Below({x})}

Answer(op, x) == [op |-> op, id |-> x]

HandleCreate(x) ==
  \/ /\ Possible(x)
     /\ live' = live \cup {x}
     /\ toNode' = Append(toNode, Answer("accepted", x))
  \/ /\ toNode' = Append(toNode, Answer("rejected", x))
     /\ UNCHANGED live

HandleClose(x) ==
  \/ /\ x \in live
     /\ live' = live \ (Below({x}) \cup Orphans(x))
     /\ \E order \in Injection(1..Cardinality(Orphans(x)), Orphans(x)) :
          toNode' = toNode \o [i \in DOMAIN order |-> Answer("producerclose", order[i])]
  \/ x \notin live /\ UNCHANGED <<live, toNode>>

WorkerHandles ==
  /\ Worker \in live /\ toWorker # <<>>
  /\ LET m == Head(toWorker)
     IN  (m.op = "create" /\ HandleCreate(m.id)) \/ (m.op = "close" /\ HandleClose(m.id))
  /\ toWorker' = Tail(toWorker)
  /\ UNCHANGED <<lib, args, left, micro, immediates, appTurn>>

WorkerExits ==
  /\ Worker \in live
  /\ live' = {}
  /\ UNCHANGED <<lib, args, toWorker, toNode, left, micro, immediates, appTurn>>

-----------------------------------------------------------------------------
Application ==
  \/ CreateWebRtcServer \/ CreateRouter \/ CreateWebRtcTransport \/ CreatePlainTransport
  \/ CreatePipeTransport \/ CreateDirectTransport \/ CreateActiveSpeakerObserver
  \/ CreateAudioLevelObserver \/ Produce \/ ProduceData \/ Consume \/ ConsumeData
  \/ CloseWebRtcServer \/ CloseRouter \/ CloseTransport \/ CloseProducer \/ CloseDataProducer
  \/ CloseConsumer \/ CloseDataConsumer \/ CloseRtpObserver \/ CloseWorker

Loop == Read \/ Continue \/ OnProducerClose \/ OnDataProducerClose \/ WorkerDied

Next == Application \/ Loop \/ WorkerHandles \/ WorkerExits

\* The event loop and the worker process keep running; nobody has to call
\* anything, and the process need not exit.
Spec == Init /\ [][Next]_vars /\ WF_vars(Loop) /\ WF_vars(WorkerHandles)

-----------------------------------------------------------------------------
\* Nothing is on its way: no message, no continuation, no unnoticed exit.
Quiet ==
  /\ toWorker = <<>> /\ toNode = <<>> /\ micro = <<>> /\ immediates = <<>>
  /\ IsOpen(Worker) => Worker \in live

\* What exists in the worker process is an open object in its owner's map, so
\* the application can still close it: no order of creations, closes and late
\* responses leaks an object of the process (Router.close, Transport.close,
\* produce, consume and their continuations).
NothingLeaks ==
  Quiet => \A x \in live \ {Worker} : IsOpen(x) /\ x \in lib.held[args[x].on]

\* x was created for a WebRtcServer that has been closed.
Unserved(x) ==
  x \in Transports /\ args[x].server # Nobody /\ lib.status[args[x].server] = "closed"

\* Conversely an open object of an open owner exists in the process: what the
\* process closes by itself, like the Consumers of a closed Producer, is closed
\* in the library too, however the response that announced it, the
\* notification and the application's calls interleave (Consumer
\* handleWorkerNotifications, Channel.processMessage).  The exception is a
\* transport whose creation overlaps with the closing of its WebRtcServer.
OpenObjectsExist ==
  Quiet => \A x \in Created :
    IsOpen(x) /\ IsOpen(args[x].on) => x \in live \/ Unserved(x) \/ Unserved(args[x].on)

\* The Producers and DataProducers that a Router finds by id are open, unless
\* their WebRtcServer was closed (Router '@newproducer' and '@producerclose'
\* listeners).
KnownSourcesOpen ==
  \A r \in Routers : \A p \in lib.known[r] : IsOpen(p) \/ Unserved(args[p].on)

\* "No need to tell the Router since it already knows (it has been closed in
\* fact)" (comment on the Producers in Transport.listenServerClosed): the Router
\* does not find a closed Producer.
RouterAlreadyKnows == \A r \in Routers : \A p \in lib.known[r] : IsOpen(p)

\* The open Consumers of open transports whose Producer is closed.
Lagging ==
  {c \in Sinks : /\ IsOpen(c) /\ IsOpen(args[c].on)
                 /\ lib.status[args[c].source] = "closed"}

\* A Consumer whose Producer was closed is closed in the end, unless its
\* Transport was: the notification that the worker sends is never missed.
ConsumersFollow == []<>(Lagging = {})
=============================================================================
