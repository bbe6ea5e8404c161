---------------------------- MODULE FrameChannel ----------------------------
(***************************************************************************)
(* What the decoder promises, frame by frame: each Read takes some of the  *)
(* bytes in flight and delivers, in order, the frames due for them.  Every *)
(* other frame the Read touches is dropped.                                *)
(***************************************************************************)
EXTENDS FrameOps

CONSTANT Payloads

VARIABLES
  sent,       \* payloads the worker has written
  taken,      \* number of bytes read so far
  pending,    \* frames of the current Read still to be delivered
  delivered   \* payloads handed to the rest of the server

fvars == <<sent, taken, pending, delivered>>

Init == sent = <<>> /\ taken = 0 /\ pending = <<>> /\ delivered = <<>>

Send ==
  /\ \E p \in Payloads : sent' = Append(sent, p)
  /\ UNCHANGED <<taken, pending, delivered>>

Take ==
  /\ pending = <<>>
  /\ \E n \in 1..(FrameEnd(sent, Len(sent)) - taken) :
        /\ taken' = taken + n
        /\ pending' = DueFrames(sent, taken, taken + n)
  /\ UNCHANGED <<sent, delivered>>

Deliver ==
  /\ pending # <<>>
  /\ delivered' = Append(delivered, Head(pending))
  /\ pending' = Tail(pending)
  /\ UNCHANGED <<sent, taken>>

Next == Send \/ Take \/ Deliver

Spec == Init /\ [][Next]_fvars
=============================================================================
