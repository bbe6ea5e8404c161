---------------------------- MODULE PipeProducer ----------------------------
(***************************************************************************)
(* The second half of router.pipeToRouter(): a Producer or DataProducer is *)
(* consumed on the local PipeTransport and produced again on the remote    *)
(* one, in another worker; then the closing, pausing and resuming of the   *)
(* first are passed on to the second.                                      *)
(*                                                                         *)
(* Worker 1 has the Producer and the pipe Consumer, worker 2 the pipe      *)
(* Producer and a Consumer of it, the sink.  Node reads their channels     *)
(* independently of each other.                                            *)
(***************************************************************************)
EXTENDS Integers, Sequences

CONSTANT MaxCalls    \* bound: calls of pause() and resume()

VARIABLES
  data,        \* a DataProducer is piped, which cannot be paused
  patient,     \* the application leaves it alone until pipeToRouter() returns
  producer,    \* the Producer in the library: closed, paused
  consumer,    \* pipeConsumer: state, producerPaused
  pipe,        \* pipeProducer: state, paused
  sink,        \* a Consumer of pipeProducer: state, producerPaused
  step,        \* where pipeToRouter() waits
  wired,       \* its listeners are installed
  process,     \* the objects in the workers: which live, which are paused
  toWorker,    \* requests to each worker
  toNode,      \* responses and notifications of each worker
  left,        \* messages of each that the 'data' callback has still to handle
  micro,       \* responses whose continuation is ready
  immediates,  \* notifications put off with setImmediate
  calls        \* number of calls of pause() and resume()

given == <<data, patient>>
lib   == <<producer, consumer, pipe, sink, step, wired>>
vars  == <<given, lib, process, toWorker, toNode, left, micro, immediates, calls>>

Workers == {1, 2}

Request(op) == [op |-> op, paused |-> FALSE]

Init ==
  /\ data \in BOOLEAN /\ patient \in BOOLEAN
  /\ \E paused \in IF data THEN {FALSE} ELSE BOOLEAN :
    /\ producer = [closed |-> FALSE, paused |-> paused]
    /\ consumer = [state |-> "none", producerPaused |-> FALSE]
    /\ pipe = [state |-> "none", paused |-> FALSE]
    /\ sink = [state |-> "none", producerPaused |-> FALSE]
    /\ step = "consume" /\ wired = FALSE
    /\ process = [live |-> {"producer"}, paused |-> IF paused THEN {"producer"} ELSE {}]
    /\ toWorker = <<<<Request("consume")>>, <<>>>>
    /\ toNode = <<<<>>, <<>>>> /\ left = <<0, 0>>
    /\ micro = <<>> /\ immediates = <<>> /\ calls = 0

Send(w, op) == [toWorker EXCEPT ![w] = Append(@, Request(op))]

-----------------------------------------------------------------------------
(* The application.                                                        *)

\* No 'data' callback is running.
Idle == left = <<0, 0>>

MayCall == Idle /\ ~producer.closed /\ (~patient \/ step \in {"done", "failed"})

PauseOrResume ==
  /\ MayCall /\ ~data /\ calls < MaxCalls
  /\ calls' = calls + 1
  /\ \E op \in {"pause", "resume"} : toWorker' = Send(1, op)
  /\ UNCHANGED <<lib, process, toNode, left, micro, immediates>>

CloseProducer ==
  /\ MayCall
  /\ producer' = [producer EXCEPT !.closed = TRUE]
  /\ toWorker' = Send(1, "close")
  /\ UNCHANGED <<consumer, pipe, sink, step, wired, process, toNode, left, micro,
                 immediates, calls>>

\* consume() in the other Router.
ConsumePipe ==
  /\ Idle /\ step = "done" /\ pipe.state = "open" /\ sink.state = "none"
  /\ sink' = [sink EXCEPT !.state = "consuming"]
  /\ toWorker' = Send(2, "consume")
  /\ UNCHANGED <<producer, consumer, pipe, step, wired, process, toNode, left, micro,
                 immediates, calls>>

\* The pipe Producer is closed by its user: its listener closes the Consumer.
ClosePipe ==
  /\ Idle /\ wired /\ pipe.state = "open"
  /\ pipe' = [pipe EXCEPT !.state = "closed"]
  /\ consumer' = [consumer EXCEPT !.state = "closed"]
  /\ toWorker' = [w \in Workers |-> Append(toWorker[w], Request("closePipe"))]
  /\ UNCHANGED <<producer, sink, step, wired, process, toNode, left, micro, immediates, calls>>

-----------------------------------------------------------------------------
(* Continuations.                                                          *)

\* Mutant of Abandon: the pipe Producer is left.
AbandonConsumer(c, p) ==
  /\ step' = "failed"
  /\ consumer' = IF c.state = "open" THEN [c EXCEPT !.state = "closed"] ELSE c
  /\ pipe' = p
  /\ toWorker' = IF c.state = "open" THEN Send(1, "closePipe") ELSE toWorker
  /\ UNCHANGED <<producer, sink, wired>>

\* The catch clause: what has been made is closed.
Abandon(c, p) ==
  /\ step' = "failed"
  /\ consumer' = IF c.state = "open" THEN [c EXCEPT !.state = "closed"] ELSE c
  /\ pipe' = IF p.state = "open" THEN [p EXCEPT !.state = "closed"] ELSE p
  /\ toWorker' = [w \in Workers |->
       IF (w = 1 /\ c.state = "open") \/ (w = 2 /\ p.state = "open")
       THEN Append(toWorker[w], Request("closePipe")) ELSE toWorker[w]]
  /\ UNCHANGED <<producer, sink, wired>>

\* consume() has returned: produce() on the other side.
Consumed(m) ==
  /\ consumer' = [state |-> "open", producerPaused |-> m.paused]
  /\ toWorker' = [toWorker EXCEPT ![2] = Append(@, [op |-> "produce", paused |-> m.paused])]
  /\ step' = "produce"
  /\ UNCHANGED <<producer, pipe, sink, wired>>

Wire == step' = "done" /\ wired' = TRUE

\* produce() has returned: the Producer may have been closed or paused since.
Produced(m) ==
  LET p == [state |-> "open", paused |-> m.paused]
  IN  \/ producer.closed /\ Abandon(consumer, p)
      \/ /\ ~producer.closed /\ p.paused # producer.paused
         /\ pipe' = p /\ step' = "sync"
         /\ toWorker' = Send(2, IF producer.paused THEN "pause" ELSE "resume")
         /\ UNCHANGED <<producer, consumer, sink, wired>>
      \/ /\ ~producer.closed /\ p.paused = producer.paused
         /\ pipe' = p /\ Wire
         /\ UNCHANGED <<producer, consumer, sink, toWorker>>

\* Mutant of PipeChanged: pipeToRouter() is not resumed.
PipeChangedOnly(m) ==
  /\ pipe' = [pipe EXCEPT !.paused = (m.op = "pause")]
  /\ UNCHANGED <<producer, consumer, sink, step, wired, toWorker>>

\* pause() and resume() of the pipe Producer: by pipeToRouter() or a listener.
PipeChanged(m) ==
  /\ pipe' = [pipe EXCEPT !.paused = (m.op = "pause")]
  /\ IF step = "sync" THEN Wire ELSE UNCHANGED <<step, wired>>
  /\ UNCHANGED <<producer, consumer, sink, toWorker>>

ProducerChanged(m) ==
  /\ producer' = [producer EXCEPT !.paused = (m.op = "pause")]
  /\ UNCHANGED <<consumer, pipe, sink, step, wired, toWorker>>

SinkConsumed(m) ==
  /\ sink' = IF m.ok THEN [state |-> "open", producerPaused |-> m.paused]
             ELSE [sink EXCEPT !.state = "closed"]
  /\ UNCHANGED <<producer, consumer, pipe, step, wired, toWorker>>

\* The continuation of the response m.
Continuation(m) ==
  \/ m.op = "consume" /\ m.ok /\ m.from = 1 /\ Consumed(m)
  \/ m.op = "consume" /\ m.from = 2 /\ SinkConsumed(m)
  \/ m.op = "produce" /\ m.ok /\ Produced(m)
  \/ m.op = "consume" /\ ~m.ok /\ m.from = 1 /\ Abandon(consumer, pipe)
  \/ m.op = "produce" /\ ~m.ok /\ Abandon(consumer, pipe)
  \/ m.op \in {"pause", "resume"} /\ m.ok /\ m.from = 1 /\ ProducerChanged(m)
  \/ m.op \in {"pause", "resume"} /\ m.ok /\ m.from = 2 /\ PipeChanged(m)
  \/ m.op \in {"pause", "resume"} /\ ~m.ok /\ m.from = 2 /\ step = "sync" /\ Abandon(consumer, pipe)
  \/ m.op \in {"pause", "resume"} /\ ~m.ok /\ ~(m.from = 2 /\ step = "sync") /\ UNCHANGED <<lib, toWorker>>

-----------------------------------------------------------------------------
(* Notifications to the pipe Consumer and the listeners of its observer,   *)
(* and to the sink.                                                        *)

\* Mutant of OnConsumerClose: the event is not piped.
OnConsumerCloseAlone ==
  /\ consumer' = [consumer EXCEPT !.state = "closed"]
  /\ UNCHANGED <<producer, pipe, sink, step, wired, toWorker>>

OnConsumerClose ==
  /\ consumer' = [consumer EXCEPT !.state = "closed"]
  /\ IF wired /\ pipe.state = "open"
     THEN pipe' = [pipe EXCEPT !.state = "closed"] /\ toWorker' = Send(2, "closePipe")
     ELSE UNCHANGED <<pipe, toWorker>>
  /\ UNCHANGED <<producer, sink, step, wired>>

OnConsumerPause(paused) ==
  /\ consumer' = [consumer EXCEPT !.producerPaused = paused]
  /\ toWorker' = IF wired /\ consumer.producerPaused # paused
                 THEN Send(2, IF paused THEN "pause" ELSE "resume") ELSE toWorker
  /\ UNCHANGED <<producer, pipe, sink, step, wired>>

OnSink(m) ==
  /\ sink' = CASE m.op = "producerclose"  -> [sink EXCEPT !.state = "closed"]
               [] m.op = "producerpause"  -> [sink EXCEPT !.producerPaused = TRUE]
               [] m.op = "producerresume" -> [sink EXCEPT !.producerPaused = FALSE]
  /\ UNCHANGED <<producer, consumer, pipe, step, wired, toWorker>>

NextCallback == Idle /\ micro = <<>>

Notify ==
  /\ NextCallback /\ immediates # <<>>
  /\ LET m == Head(immediates)
         state == IF m.from = 1 THEN consumer.state ELSE sink.state
     IN  \/ state # "open" /\ UNCHANGED <<lib, toWorker>>
         \/ state = "open" /\ m.from = 2 /\ OnSink(m)
         \/ state = "open" /\ m.from = 1 /\ m.op = "producerclose" /\ OnConsumerClose
         \/ state = "open" /\ m.from = 1 /\ m.op = "producerpause" /\ OnConsumerPause(TRUE)
         \/ state = "open" /\ m.from = 1 /\ m.op = "producerresume" /\ OnConsumerPause(FALSE)
  /\ immediates' = Tail(immediates)
  /\ UNCHANGED <<process, toNode, left, micro, calls>>

IsNote(m) == m.op \in {"producerpause", "producerresume", "producerclose"}

Read ==
  /\ \E w \in Workers :
       /\ \/ NextCallback /\ \E n \in 1..Len(toNode[w]) : left' = [left EXCEPT ![w] = n - 1]
          \/ left[w] > 0 /\ left' = [left EXCEPT ![w] = @ - 1]
       /\ LET m == Head(toNode[w])
          IN  \/ IsNote(m) /\ immediates' = Append(immediates, m) /\ UNCHANGED micro
              \/ ~IsNote(m) /\ micro' = Append(micro, m) /\ UNCHANGED immediates
       /\ toNode' = [toNode EXCEPT ![w] = Tail(@)]
  /\ UNCHANGED <<lib, process, toWorker, calls>>

Continue ==
  /\ Idle /\ micro # <<>>
  /\ Continuation(Head(micro))
  /\ micro' = Tail(micro)
  /\ UNCHANGED <<process, toNode, left, immediates, calls>>

-----------------------------------------------------------------------------
(* The workers.                                                            *)

Reply(w, m, ok, paused) == <<[from |-> w, op |-> m.op, ok |-> ok, paused |-> paused]>>

\* What a worker has: a source and a consumer of it.
Source(w) == IF w = 1 THEN "producer" ELSE "pipe"
Reader(w) == IF w = 1 THEN "consumer" ELSE "sink"

Tell(w, op) == IF Reader(w) \in process.live THEN <<[from |-> w, op |-> op]>> ELSE <<>>

\* Each handler: the objects after it and what is sent to Node.  The consumer is
\* told before a pause or resume is accepted.
HandlePause(w, m) ==
  LET x == Source(w)
      paused == m.op = "pause"
      change == (x \in process.paused) # paused
  IN  IF x \in process.live
      THEN <<[process EXCEPT !.paused = IF paused THEN @ \cup {x} ELSE @ \ {x}],
             (IF change THEN Tell(w, IF paused THEN "producerpause" ELSE "producerresume")
                        ELSE <<>>) \o Reply(w, m, TRUE, paused)>>
      ELSE <<process, Reply(w, m, FALSE, FALSE)>>

HandleConsume(w, m) ==
  <<[process EXCEPT !.live = @ \cup {Reader(w)}],
    Reply(w, m, TRUE, Source(w) \in process.paused)>>

HandleProduce(w, m) ==
  <<[live |-> process.live \cup {"pipe"},
     paused |-> process.paused \cup (IF m.paused THEN {"pipe"} ELSE {})],
    Reply(w, m, TRUE, m.paused)>>

HandleClose(w) ==
  <<[process EXCEPT !.live = @ \ {Source(w), Reader(w)}], Tell(w, "producerclose")>>

\* close() of the pipe Consumer or of the pipe Producer.
HandleClosePipe(w) ==
  IF w = 1 THEN <<[process EXCEPT !.live = @ \ {"consumer"}], <<>>>> ELSE HandleClose(2)

\* A worker may refuse what pipeToRouter() asks for, to consume, to produce and to
\* pause or resume the pipe Producer, and a Consumer of that; it must refuse when
\* there is nothing to consume.  The requests of the listeners, whose failure nobody
\* handles, and those of the application are refused only where their object is gone.
Outcomes(w, m) ==
  CASE m.op \in {"pause", "resume"} /\ ~(w = 2 /\ step = "sync") -> {HandlePause(w, m)}
    [] m.op \in {"pause", "resume"} /\ w = 2 /\ step = "sync" ->
         {HandlePause(w, m), <<process, Reply(w, m, FALSE, FALSE)>>}
    [] m.op = "consume" /\ Source(w) \in process.live ->
         {HandleConsume(w, m), <<process, Reply(w, m, FALSE, FALSE)>>}
    [] m.op = "consume" /\ Source(w) \notin process.live ->
         {<<process, Reply(w, m, FALSE, FALSE)>>}
    [] m.op = "produce" -> {HandleProduce(w, m), <<process, Reply(w, m, FALSE, FALSE)>>}
    [] m.op = "close" -> {HandleClose(w)}
    [] m.op = "closePipe" -> {HandleClosePipe(w)}

WorkerHandles ==
  /\ \E w \in Workers :
       /\ toWorker[w] # <<>>
       /\ \E r \in Outcomes(w, Head(toWorker[w])) :
            process' = r[1] /\ toNode' = [toNode EXCEPT ![w] = @ \o r[2]]
       /\ toWorker' = [toWorker EXCEPT ![w] = Tail(@)]
  /\ UNCHANGED <<given, lib, left, micro, immediates, calls>>

Application == (PauseOrResume \/ CloseProducer \/ ConsumePipe \/ ClosePipe) /\ UNCHANGED given
Loop        == (Read \/ Continue \/ Notify) /\ UNCHANGED given

Next == Application \/ Loop \/ WorkerHandles

\* The event loop and the workers keep running.
Spec == Init /\ [][Next]_vars /\ WF_vars(Loop) /\ WF_vars(WorkerHandles)

-----------------------------------------------------------------------------
\* Nothing is on its way.
Quiet ==
  /\ toWorker = <<<<>>, <<>>>> /\ toNode = <<<<>>, <<>>>>
  /\ micro = <<>> /\ immediates = <<>>

\* A call of pipeToRouter() that fails leaves neither a pipe Consumer nor a pipe
\* Producer, in the library or in the workers (its catch clauses).
FailedLeavesNothing ==
  Quiet /\ step = "failed" =>
     /\ consumer.state # "open" /\ pipe.state # "open"
     /\ process.live \subseteq {"producer"}

\* The pipe Producer ends and is paused together with the Producer, and so its
\* Consumers in the other Router are told, provided that the Producer was left
\* alone until pipeToRouter() returned: the listeners are installed last.
PipedTogether ==
  Quiet /\ patient /\ step = "done" =>
     /\ producer.closed => pipe.state = "closed" /\ sink.state # "open"
     /\ pipe.state = "open" =>
          /\ pipe.paused = producer.paused
          /\ sink.state = "open" => sink.producerPaused = producer.paused

\* pipeToRouter() returns in the end.
PipeReturns == <>(step \in {"done", "failed"})
=============================================================================
