----------------------------- MODULE MCChannels -----------------------------
(***************************************************************************)
(* The ends of the sockets to the worker process: the decoder of the Go    *)
(* server, the receivers of the Node library, and the requests of the Node *)
(* library over the life of its worker.  They share no state; a behaviour  *)
(* is one of `part', and the others rest in an initial state.              *)
(*                                                                         *)
(* The decoder gets three kinds of payload: the shortest object, {}; an    *)
(* object with an object inside it, {"a":{}}, whose tail looks like a      *)
(* header followed by '{'; and a log line.                                 *)
(***************************************************************************)
EXTENDS NodeWorker, SequencesExt

CONSTANTS
  Payloads, MaxSent, BUFFER_SIZE, MSG_RESP_MAX_LEN,
  HeaderLen, PayloadMaxLens, ChunkMax, Sizes, MaxFrames

MCPayloads == { <<123, 125>>, <<123, 34, 97, 34, 58, 123, 125, 125>>, <<68, 125>> }

VARIABLES
  part,
  goSent, goWire, data, i, feeding, state, length, parsedData, outputCh, received,
  channel, payloadMaxLen, written, nodeWire, recvBuffer, ongoing, delivered

Go    == INSTANCE Decoder WITH sent <- goSent, wire <- goWire
Bytes == INSTANCE NodeReceiver WITH wire <- nodeWire

\* The worker writes JSON objects in compact form, hence no control character;
\* a log line starts with another printable character.
ASSUME PayloadsAssumption ==
  \A p \in Payloads :
     /\ p \in Seq(32..126) /\ Len(p) \in 1..MSG_RESP_MAX_LEN
     /\ Go!IsJson(p) => Last(p) = Go!RightBrace

goVars   == <<goSent, goWire, data, i, feeding, state, length, parsedData, outputCh, received>>
byteVars == <<channel, payloadMaxLen, written, nodeWire, recvBuffer, ongoing, delivered>>
allVars  == <<part, goVars, byteVars, vars>>

MCInit ==
  /\ part \in {"decoder", "bytes", "work"}
  /\ Go!Init /\ Bytes!Init /\ WInit
  /\ part # "bytes" => channel = "Channel" /\ \A n \in PayloadMaxLens : n <= payloadMaxLen

MCNext ==
  /\ \/ part = "decoder" /\ Go!Next /\ UNCHANGED <<byteVars, vars>>
     \/ part = "bytes" /\ Bytes!Next /\ UNCHANGED <<goVars, vars>>
     \/ part = "work" /\ Next /\ UNCHANGED <<goVars, byteVars>>
  /\ UNCHANGED part

\* The fairness of each module, for the part that runs.
MCSpec ==
  /\ MCInit /\ [][MCNext]_allVars
  /\ WF_goVars(part = "decoder" /\ Go!Read)
  /\ WF_goVars(part = "decoder" /\ (Go!FeedDone \/ Go!ParseLength \/ Go!ParseData \/ Go!ParseEnd))
  /\ WF_goVars(part = "decoder" /\ Go!Receive)
  /\ WF_byteVars(part = "bytes" /\ Bytes!Receive)
  /\ WF_vars(part = "work" /\ EventLoop)
  /\ WF_vars(part = "work" /\ ChildSteps)

-----------------------------------------------------------------------------
(* The properties of the other modules, explained there; those of          *)
(* NodeWorker are checked as they are.                                     *)

\* The types of the decoder (Decoder).
TypeOK == Go!TypeOK

\* The decoder delivers what lies whole in one Read (Decoder), ...
ImplementsFrameChannel == Go!ImplementsFrameChannel

\* ... and Feed returns (Decoder).
FeedReturns == Go!FeedReturns

\* The receivers implement a queue of messages (NodeReceiver), ...
ImplementsQueue == Bytes!ImplementsQueue

\* ... and invent nothing when the buffer has overflowed (NodeReceiver).
OnlySent == Bytes!OnlySent

\* createWorker() and the requests are settled, where there are any (NodeWorker).
WorkSettles == part = "work" => PromisesSettle
=============================================================================
