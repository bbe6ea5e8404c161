----------------------------- MODULE MCLibrary -----------------------------
(***************************************************************************)
(* Four mechanisms of the mediasoup Node library side by side: pausing,    *)
(* the pairs of PipeTransports, piping a Producer, and SCTP streams.  They *)
(* share no state; a behaviour is one of `part', and the others rest in an *)
(* initial state.                                                          *)
(***************************************************************************)
EXTENDS PipePairs

CONSTANTS
  MaxPauseCalls, MaxPipeCalls, DataConsumers, MIS

ASSUME MISAssumption == MIS \in Nat \ {0}

VARIABLES
  part,
  lib, observed, overlapped, pauseCalls,
  pauseOut, pauseProcess, pauseIn, pauseLeft, pauseMicro, pauseImmediates,
  data, patient, producer, consumer, pipe, sink, step, wired, pipeCalls,
  pipeOut, pipeProcess, pipeIn, pipeLeft, pipeMicro, pipeImmediates,
  status, streamId, used, next, live,
  sctpOut, sctpIn, sctpLeft, sctpMicro, sctpImmediates

Pause == INSTANCE PauseState WITH
           MaxCalls <- MaxPauseCalls, calls <- pauseCalls, toWorker <- pauseOut,
           process <- pauseProcess, toNode <- pauseIn, left <- pauseLeft,
           micro <- pauseMicro, immediates <- pauseImmediates
Pipe  == INSTANCE PipeProducer WITH
           MaxCalls <- MaxPipeCalls, calls <- pipeCalls, toWorker <- pipeOut,
           process <- pipeProcess, toNode <- pipeIn, left <- pipeLeft,
           micro <- pipeMicro, immediates <- pipeImmediates
Sctp  == INSTANCE SctpStreams WITH
           toWorker <- sctpOut, toNode <- sctpIn, left <- sctpLeft,
           micro <- sctpMicro, immediates <- sctpImmediates

pauseVars == <<lib, observed, overlapped, pauseCalls, pauseOut, pauseProcess, pauseIn,
               pauseLeft, pauseMicro, pauseImmediates>>
pipeVars  == <<data, patient, producer, consumer, pipe, sink, step, wired, pipeCalls,
               pipeOut, pipeProcess, pipeIn, pipeLeft, pipeMicro, pipeImmediates>>
sctpVars  == <<status, streamId, used, next, live, sctpOut, sctpIn, sctpLeft,
               sctpMicro, sctpImmediates>>
allVars == <<part, pauseVars, vars, pipeVars, sctpVars>>

MCInit ==
  /\ part \in {"pause", "pairs", "pipe", "sctp"}
  /\ Pause!Init /\ Init /\ Pipe!Init /\ Sctp!Init
  /\ part # "pause" => ~lib.producer
  /\ part # "pipe" => ~data /\ patient /\ ~producer.paused

MCNext ==
  /\ \/ /\ part = "pause" /\ Pause!Next
        /\ UNCHANGED <<vars, pipeVars, sctpVars>>
     \/ /\ part = "pairs" /\ Next
        /\ UNCHANGED <<pauseVars, pipeVars, sctpVars>>
     \/ /\ part = "pipe" /\ Pipe!Next
        /\ UNCHANGED <<pauseVars, vars, sctpVars>>
     \/ /\ part = "sctp" /\ Sctp!Next
        /\ UNCHANGED <<pauseVars, vars, pipeVars>>
  /\ UNCHANGED part

\* The fairness of each module, for the part that runs.
MCSpec ==
  /\ MCInit /\ [][MCNext]_allVars
  /\ WF_vars(part = "pairs" /\ Respond)
  /\ WF_pipeVars(part = "pipe" /\ Pipe!Loop)
  /\ WF_pipeVars(part = "pipe" /\ Pipe!WorkerHandles)

-----------------------------------------------------------------------------
(* The properties of the other modules, explained there; those of          *)
(* PipePairs are checked as they are.                                      *)

\* The flags of the library are those of the worker (PauseState).
FlagsAgree == Pause!FlagsAgree

\* So is the last event, unless calls overlap (PauseState).
EventsAgree == Pause!EventsAgree

\* A failed pipeToRouter() leaves nothing behind (PipeProducer).
FailedLeavesNothing == Pipe!FailedLeavesNothing

\* A Producer and its pipe Producer end and pause together (PipeProducer).
PipedTogether == Pipe!PipedTogether

\* pipeToRouter() returns (PipeProducer).
PipeReturns == part = "pipe" => Pipe!PipeReturns

\* No two DataConsumers share a stream, and none is lost but to a refusal
\* (SctpStreams).
StreamsExact == Sctp!StreamsExact
=============================================================================
