------------------------------ MODULE FrameOps ------------------------------
(***************************************************************************)
(* Frames on the byte stream from mediasoup-worker, without their bytes:   *)
(* where each frame of a stream ends, and which of them a reader that      *)
(* handles every Read on its own owes its caller.                          *)
(***************************************************************************)
EXTENDS Integers, Sequences, SequencesExt

LeftBrace  == 123
RightBrace == 125

\* A payload is a JSON object when it starts with '{', otherwise a log line.
IsJson(p) == Head(p) = LeftBrace

FrameLen(p) == 4 + Len(p)

\* Offset in the stream of the byte after frame k of s.
FrameEnd(s, k) == FoldLeft(LAMBDA n, p : n + FrameLen(p), 0, SubSeq(s, 1, k))

\* The frames owed for the bytes from offset a to offset b: when a is where a
\* frame starts, the run of JSON frames that lies between a and b; nothing
\* from the first log line or incomplete frame on, and nothing at all when a
\* is inside a frame.
DueFrames(s, a, b) ==
  LET starts == {k \in 0..Len(s) : FrameEnd(s, k) = a}
      first  == CHOOSE k \in starts : TRUE
      whole(m) == FrameEnd(s, m) <= b /\ \A k \in first + 1..m : IsJson(s[k])
      last   == CHOOSE m \in first..Len(s) :
                  whole(m) /\ \A l \in m + 1..Len(s) : ~whole(l)
  IN  IF starts = {} THEN <<>> ELSE SubSeq(s, first + 1, last)
=============================================================================
