----------------------------- MODULE PauseState -----------------------------
(***************************************************************************)
(* Pausing and resuming in the mediasoup Node library: a Producer, a       *)
(* Consumer of it, and an RtpObserver.  pause() and resume() look at the   *)
(* state, write a request and change the state when the response arrives.  *)
(* The worker process tells a Consumer about its Producer by notifications *)
(* that responses may overtake (see NodeChannel).  The application calls at *)
(* any time.                                                               *)
(***************************************************************************)
EXTENDS Integers, Sequences

CONSTANT MaxCalls   \* bound: calls of the application

VARIABLES
  lib,         \* the flags of the library's objects; exists: consume() has returned
  observed,    \* the last of the events 'pause' and 'resume' of each observer
  toWorker,    \* calls whose request is not handled yet
  process,     \* the flags in the worker process
  toNode,      \* responses and notifications not yet read
  left,        \* messages that the running 'data' callback has still to handle
  micro,       \* responses whose continuation is ready
  immediates,  \* notifications put off with setImmediate
  calls,       \* number of calls made
  overlapped   \* history: a call was made while something was on its way

vars == <<lib, observed, toWorker, process, toNode, left, micro, immediates, calls,
          overlapped>>

Things == {"producer", "consumer", "rtpObserver"}

Fresh(paused) == [producer |-> paused, consumer |-> FALSE, rtpObserver |-> FALSE,
                  producerPaused |-> FALSE, exists |-> FALSE]

Event(paused) == IF paused THEN "pause" ELSE "resume"

\* produce() may be told to start paused.
Init ==
  \E paused \in BOOLEAN :
    /\ lib = Fresh(paused) /\ process = Fresh(paused)
    /\ observed = [x \in Things |-> Event(x = "producer" /\ paused)]
    /\ toWorker = <<>> /\ toNode = <<>> /\ left = 0 /\ micro = <<>> /\ immediates = <<>>
    /\ calls = 0 /\ overlapped = FALSE

\* Nothing is on its way.
Quiet == toWorker = <<>> /\ toNode = <<>> /\ micro = <<>> /\ immediates = <<>>

-----------------------------------------------------------------------------
(* The application.                                                        *)

\* The value of wasPaused.
WasPaused(x) == lib[x] \/ (x = "consumer" /\ lib.producerPaused)

Call(op, x, arg) ==
  /\ left = 0 /\ calls < MaxCalls
  /\ calls' = calls + 1
  /\ overlapped' = (overlapped \/ ~Quiet)
  /\ toWorker' = Append(toWorker, [op |-> op, on |-> x, was |-> arg])
  /\ UNCHANGED <<lib, observed, process, toNode, left, micro, immediates>>

Pause(x)  == (x = "consumer" => lib.exists) /\ Call("pause", x, WasPaused(x))
Resume(x) == (x = "consumer" => lib.exists) /\ Call("resume", x, WasPaused(x))

\* consume(), with its option paused.
Consume ==
  /\ ~lib.exists /\ \A i \in DOMAIN toWorker : toWorker[i].op # "consume"
  /\ ~process.exists
  /\ \E paused \in BOOLEAN : Call("consume", "consumer", paused)

-----------------------------------------------------------------------------
(* The continuations: the library's state and observers after a response.  *)

Now == [lib |-> lib, observed |-> observed]

ProducerPause(s, m) ==
  [s EXCEPT !.lib.producer = TRUE, !.observed.producer = IF m.was THEN @ ELSE "pause"]
ProducerResume(s, m) ==
  [s EXCEPT !.lib.producer = FALSE, !.observed.producer = IF m.was THEN "resume" ELSE @]

ConsumerPause(s, m) ==
  [s EXCEPT !.lib.consumer = TRUE, !.observed.consumer = IF m.was THEN @ ELSE "pause"]

\* Mutant of ConsumerResume: the Producer may still be paused.
ConsumerResumeTold(s, m) ==
  [s EXCEPT !.lib.consumer = FALSE, !.observed.consumer = IF m.was THEN "resume" ELSE @]

ConsumerResume(s, m) ==
  [s EXCEPT !.lib.consumer = FALSE,
            !.observed.consumer = IF m.was /\ ~s.lib.producerPaused THEN "resume" ELSE @]

RtpObserverPause(s, m) ==
  [s EXCEPT !.lib.rtpObserver = TRUE, !.observed.rtpObserver = IF m.was THEN @ ELSE "pause"]
RtpObserverResume(s, m) ==
  [s EXCEPT !.lib.rtpObserver = FALSE, !.observed.rtpObserver = IF m.was THEN "resume" ELSE @]

\* The constructor of Consumer, from the status in the response.
NewConsumer(s, m) ==
  [s EXCEPT !.lib.exists = TRUE, !.lib.consumer = m.was, !.lib.producerPaused = m.producer,
            !.observed.consumer = Event(m.was \/ m.producer)]

Continuation(s, m) ==
  CASE m.op = "refused" -> s
    [] m.op = "consume" -> NewConsumer(s, m)
    [] m.op = "pause" /\ m.on = "producer" -> ProducerPause(s, m)
    [] m.op = "resume" /\ m.on = "producer" -> ProducerResume(s, m)
    [] m.op = "pause" /\ m.on = "consumer" -> ConsumerPause(s, m)
    [] m.op = "resume" /\ m.on = "consumer" -> ConsumerResume(s, m)
    [] m.op = "pause" /\ m.on = "rtpObserver" -> RtpObserverPause(s, m)
    [] m.op = "resume" /\ m.on = "rtpObserver" -> RtpObserverResume(s, m)

\* Mutant of OnProducerPause: it is left to the Consumer's own state.
OnProducerPauseIfActive(s) ==
  IF s.lib.producerPaused \/ s.lib.consumer THEN s
  ELSE [s EXCEPT !.lib.producerPaused = TRUE, !.observed.consumer = "pause"]

\* The notifications 'producerpause' and 'producerresume'.
OnProducerPause(s) ==
  IF s.lib.producerPaused THEN s
  ELSE [s EXCEPT !.lib.producerPaused = TRUE,
                 !.observed.consumer = IF s.lib.consumer THEN @ ELSE "pause"]
OnProducerResume(s) ==
  IF ~s.lib.producerPaused THEN s
  ELSE [s EXCEPT !.lib.producerPaused = FALSE,
                 !.observed.consumer = IF s.lib.consumer THEN @ ELSE "resume"]

-----------------------------------------------------------------------------
(* The event loop.                                                         *)

IsNote(m) == m.op \in {"producerpause", "producerresume"}

NextCallback == left = 0 /\ micro = <<>>

\* One message of the socket's 'data' callback, as in NodeObjects.
Read ==
  /\ \/ NextCallback /\ \E n \in 1..Len(toNode) : left' = n - 1
     \/ left > 0 /\ left' = left - 1
  /\ LET m == Head(toNode)
     IN  \/ IsNote(m) /\ immediates' = Append(immediates, m) /\ UNCHANGED micro
         \/ ~IsNote(m) /\ micro' = Append(micro, m) /\ UNCHANGED immediates
  /\ toNode' = Tail(toNode)
  /\ UNCHANGED <<lib, observed, toWorker, process, calls, overlapped>>

Continue ==
  /\ left = 0 /\ micro # <<>>
  /\ LET s == Continuation(Now, Head(micro)) IN lib' = s.lib /\ observed' = s.observed
  /\ micro' = Tail(micro)
  /\ UNCHANGED <<toWorker, process, toNode, left, immediates, calls, overlapped>>

\* A notification finds a listener only when the Consumer has been made: the first
\* may come before the response that makes it, which says the same.
Notify ==
  /\ NextCallback /\ immediates # <<>>
  /\ LET m == Head(immediates)
         s == IF ~lib.exists THEN Now
              ELSE IF m.op = "producerpause" THEN OnProducerPause(Now)
              ELSE OnProducerResume(Now)
     IN  lib' = s.lib /\ observed' = s.observed
  /\ immediates' = Tail(immediates)
  /\ UNCHANGED <<toWorker, process, toNode, left, micro, calls, overlapped>>

-----------------------------------------------------------------------------
(* The worker process handles one request or refuses it; a Consumer is     *)
(* told of a change of its Producer before the request is accepted.        *)

Response(m) == [op |-> m.op, on |-> m.on, was |-> m.was, producer |-> process.producer]
Refusal     == [op |-> "refused", on |-> "none", was |-> FALSE, producer |-> FALSE]

\* The notification, where the Consumer takes it for a change.
Notice(paused) ==
  IF process.exists /\ process.producer # paused
  THEN <<[op |-> IF paused THEN "producerpause" ELSE "producerresume"]>>
  ELSE <<>>

\* A Consumer is made as that of a Producer that is not paused, and then told.
FirstNotice == IF process.producer THEN <<[op |-> "producerpause"]>> ELSE <<>>

WorkerHandles ==
  /\ toWorker # <<>>
  /\ LET m == Head(toWorker)
     IN  \/ /\ m.op = "consume"
            /\ process' = [process EXCEPT !.exists = TRUE, !.consumer = m.was]
            /\ toNode' = toNode \o FirstNotice \o <<Response(m)>>
         \/ /\ m.op \in {"pause", "resume"}
            /\ process' = [process EXCEPT ![m.on] = (m.op = "pause")]
            /\ toNode' = toNode
                 \o (IF m.on = "producer" THEN Notice(m.op = "pause") ELSE <<>>)
                 \o <<Response(m)>>
         \/ UNCHANGED process /\ toNode' = Append(toNode, Refusal)
  /\ toWorker' = Tail(toWorker)
  /\ UNCHANGED <<lib, observed, left, micro, immediates, calls, overlapped>>

Next ==
  \/ \E x \in Things : Pause(x) \/ Resume(x)
  \/ Consume \/ Read \/ Continue \/ Notify \/ WorkerHandles

Spec == Init /\ [][Next]_vars

-----------------------------------------------------------------------------
\* The library's flags are those of the worker process, and a Consumer knows
\* whether its Producer is paused, whatever calls overlap or are refused and wherever
\* reads of the channel cut them (pause(), resume(), consume() and the notifications).
FlagsAgree ==
  Quiet => /\ \A x \in Things : lib[x] = process[x]
           /\ lib.exists => lib.producerPaused = lib.producer

\* The last event of a Consumer's observer tells whether the Consumer is paused,
\* by itself or by its Producer, as long as calls do not overlap: wasPaused is
\* read before the request and used after it (pause(), resume(), notifications).
EventsAgree ==
  Quiet /\ ~overlapped /\ lib.exists =>
    observed["consumer"] = Event(lib.consumer \/ lib.producerPaused)
=============================================================================
