---------------------------- MODULE SctpStreams ----------------------------
(***************************************************************************)
(* The SCTP stream ids that a Transport of the mediasoup Node library      *)
(* gives to its DataConsumers.  consumeData() marks an id as used before   *)
(* it asks the worker; the listeners of the DataConsumer, installed when   *)
(* the worker has agreed, clear the mark.                                  *)
(***************************************************************************)
EXTENDS Integers, Sequences, FiniteSetsExt

CONSTANTS
  DataConsumers,   \* the DataConsumers asked for
  MIS              \* sctpParameters.MIS: number of streams

VARIABLES
  status,      \* of each DataConsumer in the library
  streamId,    \* the id that consumeData() took for it
  used,        \* #sctpStreamIds: the ids that are marked
  next,        \* #nextSctpStreamId
  toWorker, live, toNode, left, micro, immediates

vars == <<status, streamId, used, next, toWorker, live, toNode, left, micro,
          immediates>>

StreamIds == 0..MIS - 1

Init ==
  /\ status = [c \in DataConsumers |-> "none"]
  /\ streamId = [c \in DataConsumers |-> 0]
  /\ used = {} /\ next = 0
  /\ toWorker = <<>> /\ live = {} /\ toNode = <<>>
  /\ left = 0 /\ micro = <<>> /\ immediates = <<>>

\* getNextSctpStreamId(): the first free id from next on, round the table.
NextSctpStreamId ==
  LET at(k) == (next + k) % MIS
  IN  at(Min({k \in StreamIds : at(k) \notin used}))

ConsumeData(c) ==
  /\ left = 0 /\ status[c] = "none"
  /\ \/ /\ StreamIds \subseteq used
        /\ status' = [status EXCEPT ![c] = "full"]
        /\ UNCHANGED <<streamId, used, next, toWorker>>
     \/ /\ ~(StreamIds \subseteq used)
        /\ status' = [status EXCEPT ![c] = "consuming"]
        /\ streamId' = [streamId EXCEPT ![c] = NextSctpStreamId]
        /\ used' = used \cup {NextSctpStreamId}
        /\ next' = NextSctpStreamId + 1
        /\ toWorker' = Append(toWorker, [op |-> "consume", of |-> c])
  /\ UNCHANGED <<live, toNode, left, micro, immediates>>

\* dataConsumer.close(), with the listener of '@close'.
CloseDataConsumer(c) ==
  /\ left = 0 /\ status[c] = "open"
  /\ status' = [status EXCEPT ![c] = "closed"]
  /\ used' = used \ {streamId[c]}
  /\ toWorker' = Append(toWorker, [op |-> "close", of |-> c])
  /\ UNCHANGED <<streamId, next, live, toNode, left, micro, immediates>>

-----------------------------------------------------------------------------
(* The event loop, as in NodeObjects.                                      *)

NextCallback == left = 0 /\ micro = <<>>

Read ==
  /\ \/ NextCallback /\ \E n \in 1..Len(toNode) : left' = n - 1
     \/ left > 0 /\ left' = left - 1
  /\ LET m == Head(toNode)
     IN  \/ m.op = "dataproducerclose" /\ immediates' = Append(immediates, m) /\ UNCHANGED micro
         \/ m.op # "dataproducerclose" /\ micro' = Append(micro, m) /\ UNCHANGED immediates
  /\ toNode' = Tail(toNode)
  /\ UNCHANGED <<status, streamId, used, next, toWorker, live>>

\* A refusal leaves the mark.
Continue ==
  /\ left = 0 /\ micro # <<>>
  /\ status' = [status EXCEPT ![Head(micro).of] =
                  IF Head(micro).op = "accepted" THEN "open" ELSE "rejected"]
  /\ micro' = Tail(micro)
  /\ UNCHANGED <<streamId, used, next, toWorker, live, toNode, left, immediates>>

\* Mutant of OnDataProducerClose: a DataConsumer that is closed listens still.
OnDataProducerCloseAgain ==
  /\ NextCallback /\ immediates # <<>>
  /\ LET c == Head(immediates).of
     IN  status' = [status EXCEPT ![c] = "closed"] /\ used' = used \ {streamId[c]}
  /\ immediates' = Tail(immediates)
  /\ UNCHANGED <<streamId, next, toWorker, live, toNode, left, micro>>

\* 'dataproducerclose', with the listener of '@dataproducerclose'.
OnDataProducerClose ==
  /\ NextCallback /\ immediates # <<>>
  /\ LET c == Head(immediates).of
     IN  \/ /\ status[c] = "open"
            /\ status' = [status EXCEPT ![c] = "closed"]
            /\ used' = used \ {streamId[c]}
         \/ status[c] # "open" /\ UNCHANGED <<status, used>>
  /\ immediates' = Tail(immediates)
  /\ UNCHANGED <<streamId, next, toWorker, live, toNode, left, micro>>

-----------------------------------------------------------------------------
(* The worker.                                                             *)

WorkerHandles ==
  /\ toWorker # <<>>
  /\ LET m == Head(toWorker)
     IN  \/ /\ m.op = "consume"
            /\ \/ live' = live \cup {m.of}
                  /\ toNode' = Append(toNode, [op |-> "accepted", of |-> m.of])
               \/ toNode' = Append(toNode, [op |-> "rejected", of |-> m.of])
                  /\ UNCHANGED live
         \/ m.op = "close" /\ live' = live \ {m.of} /\ UNCHANGED toNode
  /\ toWorker' = Tail(toWorker)
  /\ UNCHANGED <<status, streamId, used, next, left, micro, immediates>>

\* The DataProducer of c is closed.
WorkerDrops(c) ==
  /\ c \in live
  /\ live' = live \ {c}
  /\ toNode' = Append(toNode, [op |-> "dataproducerclose", of |-> c])
  /\ UNCHANGED <<status, streamId, used, next, toWorker, left, micro, immediates>>

Next ==
  \/ \E c \in DataConsumers : ConsumeData(c) \/ CloseDataConsumer(c) \/ WorkerDrops(c)
  \/ Read \/ Continue \/ OnDataProducerClose \/ WorkerHandles

Spec == Init /\ [][Next]_vars

-----------------------------------------------------------------------------
\* Two DataConsumers that the worker has, or is about to be asked for, never
\* share a stream: an id that is given back early is taken again only behind the
\* request that closes its last user.  A stream is marked exactly while a
\* DataConsumer has it or was going to have it; the streams of those that the
\* worker refused are not given back (getNextSctpStreamId, consumeData).
StreamsExact ==
  /\ \A c, d \in live : streamId[c] = streamId[d] => c = d
  /\ \A c, d \in DataConsumers :
       status[c] \in {"consuming", "open"} /\ status[d] = "open" /\ d \in live
         /\ streamId[c] = streamId[d] => c = d
  /\ used = {streamId[c] : c \in {d \in DataConsumers :
                                  status[d] \in {"consuming", "open", "rejected"}}}
=============================================================================
