----------------------------- MODULE FrameQueue -----------------------------
(***************************************************************************)
(* What a receiver of length-prefixed messages promises: whatever has been *)
(* sent is handed over once, whole and in order, and in the end all of it. *)
(***************************************************************************)
EXTENDS Integers, Sequences

CONSTANT Messages

VARIABLES sent, delivered

qvars == <<sent, delivered>>

Init == sent = <<>> /\ delivered = <<>>

Send == \E m \in Messages : sent' = Append(sent, m) /\ UNCHANGED delivered

\* One callback may hand over several messages.
Deliver ==
  \E n \in Len(delivered) + 1..Len(sent) :
     delivered' = SubSeq(sent, 1, n) /\ UNCHANGED sent

Spec == Init /\ [][Send \/ Deliver]_qvars /\ WF_qvars(Deliver)
=============================================================================
