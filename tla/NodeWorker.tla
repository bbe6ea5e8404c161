----------------------------- MODULE NodeWorker -----------------------------
(***************************************************************************)
(* A Worker of the mediasoup Node library, from createWorker() to the end  *)
(* of its process, together with its channels.  The constructor spawns the *)
(* process and listens to three things that race: the 'running'            *)
(* notification, which passes through Channel, and the 'exit' and 'error'  *)
(* events of the child.                                                    *)
(***************************************************************************)
EXTENDS NodeChannel

VARIABLES
  child,      \* the process: "starting", "running", "exited" or "unspawned"
  due,        \* its events 'exit' and 'error' that the library has still to handle
  spawnDone,  \* the local variable of the constructor
  worker,     \* Worker: #child is set, #closed, #died
  created     \* the promise that createWorker() returned

wvars == <<child, due, spawnDone, worker, created>>
vars  == <<chvars, wvars>>

Running == 0    \* the notification that the process is up

WInit ==
  /\ Init
  /\ child = "starting" /\ due = {} /\ spawnDone = FALSE
  /\ worker = [child |-> TRUE, closed |-> FALSE, died |-> FALSE]
  /\ created = "pending"

-----------------------------------------------------------------------------
(* The process.                                                            *)

ProcessRuns ==
  /\ child = "starting"
  /\ child' = "running"
  /\ WorkerWrites("channel", Note(Running))
  /\ UNCHANGED <<alive, closed, nextId, sents, promise, reply, toWorker, left, micro,
                 immediates, notes, seen, due, spawnDone, worker, created>>

\* It stops by itself (wrong settings, a crash), or spawn() has failed: Node then
\* emits 'error', and may emit 'exit' too.
ProcessStops ==
  /\ \/ child \in {"starting", "running"} /\ child' = "exited" /\ due' = {"exit"}
     \/ /\ child = "starting" /\ child' = "unspawned"
        /\ due' \in {{"error"}, {"error", "exit"}}
  /\ ProcessEnds
  /\ UNCHANGED <<closed, nextId, sents, promise, reply, toNode, left, micro, immediates,
                 notes, sent, seen, spawnDone, worker, created>>

-----------------------------------------------------------------------------
(* The library.                                                            *)

\* worker.close(), which may be called from a listener: with #child set the
\* process is killed.
Close(w) ==
  /\ worker' = [w EXCEPT !.child = FALSE, !.closed = TRUE]
  /\ IF w.child THEN child' = "exited" /\ ProcessEnds
                ELSE UNCHANGED <<child, alive, toWorker>>
  /\ CloseBoth

\* workerDied() does nothing to a closed Worker.
Died(w) ==
  /\ \/ /\ w.closed
        /\ worker' = w
        /\ UNCHANGED <<closed, promise, micro>>
     \/ /\ ~w.closed
        /\ worker' = [w EXCEPT !.closed = TRUE, !.died = TRUE]
        /\ CloseBoth
  /\ UNCHANGED <<child, alive, toWorker>>

\* Mutant of OnRunning: spawnDone is not looked at.
OnRunningAlways ==
  /\ NextCallback /\ immediates # <<>> /\ Head(immediates) = Running
  /\ immediates' = Tail(immediates)
  /\ seen' = [seen EXCEPT !["channel"] = Append(@, Running)]
  /\ spawnDone' = TRUE /\ created' = "resolved"
  /\ UNCHANGED <<alive, closed, nextId, sents, promise, reply, toWorker, toNode,
                 left, micro, notes, sent, child, due, worker>>

OnRunning ==
  /\ RunImmediate /\ Head(immediates) = Running
  /\ spawnDone' = TRUE
  /\ created' = IF spawnDone THEN created ELSE "resolved"
  /\ UNCHANGED <<child, due, worker>>

\* Mutant of OnChildGone: only an exit during start-up counts.
OnChildGoneEarly ==
  /\ NextCallback /\ \E e \in due : due' = due \ {e}
  /\ spawnDone' = TRUE
  /\ LET w == [worker EXCEPT !.child = FALSE]
     IN  \/ ~spawnDone /\ Close(w) /\ created' = "rejected"
         \/ /\ spawnDone /\ worker' = w
            /\ UNCHANGED <<created, closed, promise, micro, child, alive, toWorker>>
  /\ UNCHANGED <<nextId, sents, reply, toNode, left, immediates, notes, sent, seen>>

\* The 'exit' and the 'error' listener of the child, which do the same.
OnChildGone ==
  /\ NextCallback /\ \E e \in due : due' = due \ {e}
  /\ spawnDone' = TRUE
  /\ LET w == [worker EXCEPT !.child = FALSE]
     IN  \/ ~spawnDone /\ Close(w) /\ created' = "rejected"
         \/ spawnDone /\ Died(w) /\ UNCHANGED created
  /\ UNCHANGED <<nextId, sents, reply, toNode, left, immediates, notes, sent, seen>>

-----------------------------------------------------------------------------
(* The application: it has the Worker once createWorker() has resolved.    *)

\* Its code runs in callbacks and continuations of its own and inside the 'data'
\* callback of PayloadChannel; that of Channel calls none of it.
AppMayRun == created = "resolved" /\ left["channel"] = 0

CloseWorker ==
  /\ AppMayRun /\ ~worker.closed
  /\ Close(worker)
  /\ due' = IF worker.child THEN {} ELSE due   \* the listeners are removed
  /\ UNCHANGED <<nextId, sents, reply, toNode, left, immediates, notes, sent, seen,
                 spawnDone, created>>

Ask == AppMayRun /\ (\E c \in Calls : Request(c)) /\ UNCHANGED wvars

OtherImmediate == RunImmediate /\ Head(immediates) # Running /\ UNCHANGED wvars

EventLoop ==
  \/ (ReadChannel \/ ReadPayloadChannel \/ Continue) /\ UNCHANGED wvars
  \/ OtherImmediate \/ OnRunning \/ OnChildGone

ChildSteps ==
  \/ ProcessRuns
  \/ child = "running" /\ WorkerAnswers /\ UNCHANGED wvars

Next ==
  \/ EventLoop \/ ChildSteps \/ ProcessStops \/ CloseWorker \/ Ask
  \/ child = "running" /\ WorkerNotifies /\ UNCHANGED wvars
  \/ DestroySockets /\ UNCHANGED wvars

\* Node keeps taking events and the process keeps working until it stops; it
\* need not stop, and the application need not call anything.
Spec ==
  /\ WInit /\ [][Next]_vars
  /\ WF_vars(EventLoop) /\ WF_vars(ChildSteps)

-----------------------------------------------------------------------------
\* createWorker() and every request are settled in the end, however 'running',
\* 'exit', 'error', responses and close() race: the requests are finitely many
\* and none is pending for ever.  Only what is pending on PayloadChannel when
\* that is closed is left (the three listeners of the Worker constructor;
\* request() and close() of the channels).
PromisesSettle ==
  <>[](created # "pending" /\ \A c \in Calls : promise[c] = "pending" => Settled(c))

\* createWorker() is settled once; 'died' is for the application that has got the
\* Worker and did not close it, when its process is gone; nothing opens a closed
\* Worker again.
NothingRevives ==
  [][/\ created # "pending" => created' = created
     /\ worker'.died # worker.died => created = "resolved" /\ ~worker.closed /\ ~alive
     /\ worker.closed => worker'.closed]_vars

\* A process that stops is noticed: the Worker is closed in the end, and a closed
\* Worker has closed both channels.
ExitNoticed ==
  ~alive ~> worker.closed /\ \A ch \in Channels : closed[ch]
=============================================================================
