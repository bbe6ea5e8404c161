------------------------------ MODULE Decoder ------------------------------
(***************************************************************************)
(* The receiving half of the channel to mediasoup-worker: the read loop    *)
(* (worker/worker.go, readLoop) and the frame decoder it feeds             *)
(* (common_util/gen_util.go, Decoder).                                     *)
(*                                                                         *)
(* The worker writes frames: four little-endian length bytes, then the     *)
(* payload.  A payload is a JSON object (a response or a notification) or, *)
(* when the worker logs, plain text.  The socket is a byte stream, so one  *)
(* Read returns any non-empty prefix of the bytes in flight: several       *)
(* frames, half a frame, or both.                                          *)
(***************************************************************************)
EXTENDS FrameOps

CONSTANTS
  Payloads,          \* the payloads the worker may send, sequences of bytes
  MaxSent,           \* bound: how many frames the worker sends
  BUFFER_SIZE,       \* capacity of outputCh (2048 in the code)
  MSG_RESP_MAX_LEN   \* longest payload accepted (4194304 in the code)

VARIABLES
  sent,        \* every payload the worker has written, oldest first
  wire,        \* bytes written by the worker and not yet read
  data,        \* the buffer of the Feed in progress
  i,           \* Feed's index into data, from 0 as in the code
  feeding,     \* is a Feed in progress (otherwise readLoop is in Read)
  state,       \* decoder.state
  length,      \* decoder.length
  parsedData,  \* decoder.parsedData
  outputCh,    \* the buffered channel
  received     \* what the goroutine ranging over Result() has taken

vars == <<sent, wire, data, i, feeding, state, length, parsedData, outputCh, received>>
decoder == <<state, length, parsedData>>

Byte(n, k) == (n \div 256^k) % 256

\* Encode, and the worker's ChannelSocket::SendImpl: length prefix, payload.
Encode(payload) == [k \in 1..4 |-> Byte(Len(payload), k - 1)] \o payload

Uint32(b) == b[1] + 256 * (b[2] + 256 * (b[3] + 256 * b[4]))

Init ==
  /\ sent = <<>> /\ wire = <<>> /\ data = <<>> /\ i = 0 /\ feeding = FALSE
  /\ state = "PARSE_LENGTH" /\ length = 0 /\ parsedData = <<>>
  /\ outputCh = <<>> /\ received = <<>>

Reset ==
  /\ length' = 0
  /\ parsedData' = <<>>
  /\ state' = "PARSE_LENGTH"

\* The worker writes a frame.
WorkerSend ==
  /\ Len(sent) < MaxSent
  /\ \E p \in Payloads : sent' = Append(sent, p) /\ wire' = wire \o Encode(p)
  /\ UNCHANGED <<data, i, feeding, decoder, outputCh, received>>

\* ConsumerSocket.Read returns the first n bytes in flight; Feed starts.
Read ==
  /\ ~feeding
  /\ \E n \in 1..Len(wire) :
        /\ data' = SubSeq(wire, 1, n)
        /\ wire' = SubSeq(wire, n + 1, Len(wire))
  /\ i' = 0
  /\ feeding' = TRUE
  /\ UNCHANGED <<sent, decoder, outputCh, received>>

\* Mutant of FeedReturn: the decoder waits for the rest of a frame.
FeedReturnKeeping ==
  /\ feeding' = FALSE
  /\ data' = <<>>
  /\ i' = 0
  /\ UNCHANGED <<sent, wire, decoder, outputCh, received>>

\* Feed leaves its loop, at the end of data or by break, and resets.
FeedReturn ==
  /\ feeding' = FALSE
  /\ data' = <<>>
  /\ i' = 0
  /\ Reset
  /\ UNCHANGED <<sent, wire, outputCh, received>>

Remaining == Len(data) - i

FeedDone == feeding /\ Remaining = 0 /\ FeedReturn

\* parseLengthForPre4Byte: the header at index i is acceptable.
HeaderOK ==
  /\ Remaining >= 4
  /\ Remaining > 4 => data[i + 5] = LeftBrace
  /\ LET n == Uint32(SubSeq(data, i + 1, i + 4))
     IN  n > 0 /\ n <= Remaining /\ n <= MSG_RESP_MAX_LEN

ParseLength ==
  /\ feeding /\ Remaining > 0 /\ state = "PARSE_LENGTH"
  /\ \/ ~HeaderOK /\ FeedReturn
     \/ /\ HeaderOK
        /\ length' = Uint32(SubSeq(data, i + 1, i + 4))
        /\ state' = "PARSE_DATA"
        /\ i' = i + 4
        /\ UNCHANGED <<sent, wire, data, feeding, parsedData, outputCh, received>>

\* Mutant of ParseData: a payload that is too short is no error.
ParseDataWaits ==
  /\ feeding /\ Remaining > 0 /\ state = "PARSE_DATA"
  /\ \/ length > Remaining /\ UNCHANGED vars
     \/ /\ length <= Remaining
        /\ parsedData' = parsedData \o SubSeq(data, i + 1, i + length)
        /\ length' = 0
        /\ state' = "PARSE_END"
        /\ i' = i + length - 1
        /\ UNCHANGED <<sent, wire, data, feeding, outputCh, received>>

\* parseData stops on the last byte of the payload, which parseEnd inspects.
ParseData ==
  /\ feeding /\ Remaining > 0 /\ state = "PARSE_DATA"
  /\ \/ length > Remaining /\ FeedReturn
     \/ /\ length <= Remaining
        /\ parsedData' = parsedData \o SubSeq(data, i + 1, i + length)
        /\ length' = 0
        /\ state' = "PARSE_END"
        /\ i' = i + length - 1
        /\ UNCHANGED <<sent, wire, data, feeding, outputCh, received>>

\* Mutant of ParseEnd: outputCh has no capacity.
ParseEndUnbuffered ==
  /\ feeding /\ Remaining > 0 /\ state = "PARSE_END"
  /\ outputCh' = IF data[i + 1] = RightBrace THEN Append(outputCh, parsedData) ELSE outputCh
  /\ Reset
  /\ i' = i + 1
  /\ UNCHANGED <<sent, wire, data, feeding, received>>

\* The send on outputCh blocks while the channel is full.
ParseEnd ==
  /\ feeding /\ Remaining > 0 /\ state = "PARSE_END"
  /\ data[i + 1] = RightBrace => Len(outputCh) < BUFFER_SIZE
  /\ outputCh' = IF data[i + 1] = RightBrace THEN Append(outputCh, parsedData) ELSE outputCh
  /\ Reset
  /\ i' = i + 1
  /\ UNCHANGED <<sent, wire, data, feeding, received>>

\* The goroutine of readLoop takes the next payload off the channel.
Receive ==
  /\ outputCh # <<>>
  /\ received' = Append(received, Head(outputCh))
  /\ outputCh' = Tail(outputCh)
  /\ UNCHANGED <<sent, wire, data, i, feeding, decoder>>

Next == WorkerSend \/ Read \/ FeedDone \/ ParseLength \/ ParseData \/ ParseEnd \/ Receive

\* The read loop and the receiving goroutine keep being scheduled; the worker
\* is not obliged to send.
Fairness == WF_vars(Read) /\ WF_vars(FeedDone \/ ParseLength \/ ParseData \/ ParseEnd)
              /\ WF_vars(Receive)

Spec == Init /\ [][Next]_vars /\ Fairness

-----------------------------------------------------------------------------
\* Types, the capacity of outputCh, and where the index may stand in data.
TypeOK ==
  /\ sent \in Seq(Payloads) /\ Len(sent) <= MaxSent
  /\ wire \in Seq(0..255) /\ data \in Seq(0..255)
  /\ i \in 0..Len(data) /\ feeding \in BOOLEAN
  /\ state \in {"PARSE_LENGTH", "PARSE_DATA", "PARSE_END"}
  /\ length \in 0..MSG_RESP_MAX_LEN /\ parsedData \in Seq(0..255)
  /\ Len(outputCh) <= BUFFER_SIZE

\* Bytes read so far.
Taken == FrameEnd(sent, Len(sent)) - Len(wire)

\* Position in the byte stream of the header of the frame being decoded.
FrameStart ==
  Taken - Len(data) + i -
    CASE state = "PARSE_LENGTH" -> 0
      [] state = "PARSE_DATA"   -> 4
      [] state = "PARSE_END"    -> Len(parsedData) + 3

Frames == INSTANCE FrameChannel WITH
            taken <- Taken,
            pending <- IF feeding THEN DueFrames(sent, FrameStart, Taken) ELSE <<>>,
            delivered <- received \o outputCh

\* The decoder delivers exactly the frames that FrameChannel says are due.
ImplementsFrameChannel == Frames!Spec

\* Every Feed returns: the parse loop makes progress on any bytes, and a full
\* outputCh only delays it.
FeedReturns == feeding ~> ~feeding
=============================================================================
