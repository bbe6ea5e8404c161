---------------------------- MODULE NodeReceiver ----------------------------
(***************************************************************************)
(* How the mediasoup Node library cuts the byte stream from the worker     *)
(* process into messages: the 'data' callbacks of Channel and of           *)
(* PayloadChannel, and processData(), which joins the two frames of a      *)
(* notification with payload.                                              *)
(*                                                                         *)
(* A byte is known by the frame it belongs to and its place there.  The    *)
(* first HeaderLen bytes of a frame are its length.                        *)
(***************************************************************************)
EXTENDS Integers, Sequences, SequencesExt

CONSTANTS
  HeaderLen,       \* 4 in the code
  PayloadMaxLens,  \* values of PAYLOAD_MAX_LEN
  ChunkMax,        \* most bytes that one 'data' event carries
  Sizes,           \* lengths of the payloads of frames
  MaxFrames        \* bound: frames that the worker writes

VARIABLES
  channel,     \* Channel or PayloadChannel
  payloadMaxLen,
  written,     \* history: the messages the worker has written
  wire,        \* bytes in the socket
  recvBuffer,  \* #recvBuffer
  ongoing,     \* #ongoingNotification
  delivered    \* history: the messages emitted or processed

vars == <<channel, payloadMaxLen, written, wire, recvBuffer, ongoing, delivered>>

None == [part |-> "none", n |-> 0, len |-> 0]

Init ==
  /\ channel \in {"Channel", "PayloadChannel"} /\ payloadMaxLen \in PayloadMaxLens
  /\ written = <<>> /\ wire = <<>> /\ recvBuffer = <<>>
  /\ ongoing = None /\ delivered = <<>>

\* A message: one frame, or the two frames of a notification with payload.
Frame(part, n, len) == [part |-> part, n |-> n, len |-> len]
Single(n, len)      == <<Frame("message", n, len)>>
WithPayload(n, a, b) == <<Frame("head", n, a), Frame("payload", n, b)>>

Bytes(f) == [i \in 1..HeaderLen + f.len |-> [frame |-> f, at |-> i]]

\* ChannelSocket and PayloadChannelSocket of the worker.
Write(m) ==
  /\ written' = Append(written, m)
  /\ Len(FlattenSeq(written')) <= MaxFrames
  /\ wire' = wire \o FlattenSeq([i \in DOMAIN m |-> Bytes(m[i])])
  /\ UNCHANGED <<channel, payloadMaxLen, recvBuffer, ongoing, delivered>>

WriteMessage == \E a \in Sizes : Write(Single(Len(written) + 1, a))

\* Notifications with payload are sent over PayloadChannel only.
WriteNotification ==
  channel = "PayloadChannel" /\ \E a, b \in Sizes : Write(WithPayload(Len(written) + 1, a, b))

-----------------------------------------------------------------------------
\* The length at the start of buf; bytes that are no header are read as one
\* all the same, and give some number g.
MsgLen(buf, g) ==
  LET f == buf[1].frame
  IN  IF SubSeq(buf, 1, HeaderLen) = SubSeq(Bytes(f), 1, HeaderLen) THEN f.len ELSE g

\* payload is the whole payload of one frame.
IsWhole(payload) ==
  /\ payload # <<>>
  /\ LET f == payload[1].frame IN payload = SubSeq(Bytes(f), HeaderLen + 1, HeaderLen + f.len)

\* processMessage() for JSON, the logger for the rest; a payload that does not
\* parse is logged and dropped.
ProcessMessage(s, payload) ==
  IF IsWhole(payload) THEN [s EXCEPT !.delivered = Append(@, <<payload[1].frame>>)] ELSE s

\* Mutant of ProcessData: the ongoing notification is not unset.
ProcessDataOngoing(s, payload) ==
  LET f == payload[1].frame
  IN  CASE s.ongoing # None ->
             [s EXCEPT !.delivered = Append(@, <<s.ongoing, f>>)]
        [] s.ongoing = None /\ IsWhole(payload) /\ f.part = "message" ->
             [s EXCEPT !.delivered = Append(@, <<f>>)]
        [] s.ongoing = None /\ IsWhole(payload) /\ f.part = "head" ->
             [s EXCEPT !.ongoing = f]
        [] OTHER -> s

\* A head waits for the next frame, whatever that is; without one a payload is
\* parsed as a message and dropped.
ProcessData(s, payload) ==
  LET f == payload[1].frame
  IN  CASE s.ongoing # None ->
             [s EXCEPT !.delivered = Append(@, <<s.ongoing, f>>), !.ongoing = None]
        [] s.ongoing = None /\ IsWhole(payload) /\ f.part = "message" ->
             [s EXCEPT !.delivered = Append(@, <<f>>)]
        [] s.ongoing = None /\ IsWhole(payload) /\ f.part = "head" ->
             [s EXCEPT !.ongoing = f]
        [] OTHER -> s

Process(s, payload) ==
  IF channel = "Channel" THEN ProcessMessage(s, payload) ELSE ProcessData(s, payload)

\* Mutant of Rest: the frames that were processed stay in the buffer.
RestUncut(buf, later) == buf

\* The buffer is cut behind the last complete frame.
Rest(buf, later) == later

\* The loop of the callback: the payloads of the complete frames of buf, and
\* the incomplete rest.
RECURSIVE Cut(_, _)
Cut(buf, g) ==
  IF Len(buf) < HeaderLen \/ Len(buf) < HeaderLen + MsgLen(buf, g)
  THEN [payloads |-> <<>>, rest |-> buf]
  ELSE LET end   == HeaderLen + MsgLen(buf, g)
           later == Cut(SubSeq(buf, end + 1, Len(buf)), g)
       IN  [payloads |-> <<SubSeq(buf, HeaderLen + 1, end)>> \o later.payloads,
            rest |-> Rest(buf, later.rest)]

Overflows(buf) == Len(buf) > payloadMaxLen

\* A 'data' event: a buffer that is too full is discarded as a whole.
OnData ==
  \E n \in 1..ChunkMax, g \in Sizes :
    /\ n <= Len(wire)
    /\ wire' = SubSeq(wire, n + 1, Len(wire))
    /\ LET buf == recvBuffer \o SubSeq(wire, 1, n)
           cut == Cut(buf, g)
           s   == FoldLeft(Process, [ongoing |-> ongoing, delivered |-> delivered],
                           cut.payloads)
       IN  \/ /\ Overflows(buf)
              /\ recvBuffer' = <<>>
              /\ UNCHANGED <<ongoing, delivered>>
           \/ /\ ~Overflows(buf)
              /\ recvBuffer' = cut.rest
              /\ ongoing' = s.ongoing /\ delivered' = s.delivered
    /\ UNCHANGED <<channel, payloadMaxLen, written>>

OnChannelData        == channel = "Channel" /\ OnData
OnPayloadChannelData == channel = "PayloadChannel" /\ OnData

Receive == OnChannelData \/ OnPayloadChannelData

Next == WriteMessage \/ WriteNotification \/ Receive

\* Node keeps reading.
Spec == Init /\ [][Next]_vars /\ WF_vars(Receive)

-----------------------------------------------------------------------------
\* The messages that may be written.
Messages ==
  LET ns == 1..MaxFrames
  IN  {Single(n, a) : n \in ns, a \in Sizes} \cup {WithPayload(n, a, b) : n \in ns, a, b \in Sizes}

\* All but the last byte of a frame fit into the buffer together with a chunk.
Ample == \A len \in Sizes : HeaderLen + len - 1 + ChunkMax <= payloadMaxLen

Queue == INSTANCE FrameQueue WITH
           sent <- IF Ample THEN written ELSE <<>>,
           delivered <- IF Ample THEN delivered ELSE <<>>

\* Every message is delivered once, whole, in order, and in the end; a payload
\* is emitted with its own head.  It is enough that the rest of a frame and a
\* chunk fit into the buffer (the callbacks of Channel and PayloadChannel).
ImplementsQueue == Queue!Spec

\* Whatever has been discarded, Channel delivers no message twice, out of order
\* or in part: what follows a discarded buffer is parsed from the middle of a
\* frame (the error paths of the callback of Channel).
OnlySent ==
  channel = "Channel" => delivered = SelectSeq(written, LAMBDA m : m \in Range(delivered))
=============================================================================
