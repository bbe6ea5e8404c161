------------------------------- MODULE MCOrtc -------------------------------
(***************************************************************************)
(* Instances of Ortc: a few codecs with and without payload types of their *)
(* own, more of them than there are dynamic payload types; Producers that  *)
(* use several codecs, simulcast or SVC; endpoints that support less.      *)
(***************************************************************************)
EXTENDS Ortc

Codec(name, kind, pt, par, fb) == [name |-> name, kind |-> kind, pt |-> pt, par |-> par, fb |-> fb]
VideoFeedback == {"nack", "nack pli", "ccm fir", "goog-remb", "transport-cc"}
AudioFeedback == {"nack", "transport-cc"}
Opus(pt) == Codec("audio/opus", "audio", pt, Empty, AudioFeedback)
Pcmu(pt) == Codec("audio/pcmu", "audio", pt, Empty, {"transport-cc"})
MultiOpus(n, pt) == Codec("audio/multiopus", "audio", pt, "num_streams" :> n, AudioFeedback)
Vp8(pt) == Codec("video/vp8", "video", pt, Empty, VideoFeedback)
Vp9(profile, pt) == Codec("video/vp9", "video", pt, "profile-id" :> profile, VideoFeedback)
H264Codec(level, par, pt) ==
  Codec("video/h264", "video", pt, ("profile-level-id" :> <<"main", level>>) @@ par, VideoFeedback)
Rtx(apt, pt) == Codec("video/rtx", "video", pt, "apt" :> apt, {})
Asymmetric == "level-asymmetry-allowed" :> 1

NoPt == NoPayloadType
FourPayloadTypes == <<100, 101, 102, 96>>
Supports ==
  <<Opus(NoPt), MultiOpus(2, NoPt), MultiOpus(4, NoPt), Pcmu(0), Vp8(NoPt), Codec("video/vp9", "video", NoPt, Empty, VideoFeedback),
    Codec("video/h264", "video", NoPt, Asymmetric, VideoFeedback)>>

Ext(kind, uri, id, direction) == [kind |-> kind, uri |-> uri, id |-> id, direction |-> direction]
Extensions ==
  <<Ext("video", "mid", 1, "sendrecv"), Ext("video", "rid", 2, "recvonly"),
    Ext("audio", "abs-send-time", 4, "sendrecv"), Ext("video", "abs-send-time", 4, "sendrecv"),
    Ext("audio", "transport-wide-cc", 5, "recvonly"), Ext("video", "transport-wide-cc", 5, "sendrecv")>>

\* Up to three codecs for a Router; 101 is the payload type of the first RTX codec
\* when nothing else is given.
Media ==
  BoundedSeq({Opus(NoPt), Opus(101), Pcmu(NoPt), MultiOpus(4, NoPt), Vp8(NoPt), Vp8(101),
              Vp9(2, NoPt), H264Codec(42, Empty, NoPt)}, 3)

\* Two and three encodings, one scalable encoding, and none.
Simulcast == <<"rid" :> "a" @@ "maxBitrate" :> 1 @@ "mode" :> <<1, 3>>,
               "rid" :> "b" @@ "maxBitrate" :> 2>>
Svc == <<"ssrc" :> 1 @@ "rtx" :> 2 @@ "mode" :> <<3, 3>>>>
Odd == <<"ssrc" :> 1 @@ "mode" :> Empty>>

Producers ==
  {[kind |-> "audio", codecs |-> codecs, encodings |-> <<>>] :
     codecs \in {<<Opus(111)>>, <<Pcmu(0), Opus(111)>>, <<MultiOpus(4, 111)>>, <<MultiOpus(2, 111)>>}}
  \cup
  {[kind |-> "video", codecs |-> codecs, encodings |-> enc] :
     codecs \in {<<Vp8(101)>>, <<Vp8(96), Rtx(96, 97)>>, <<Rtx(96, 97), Vp8(96)>>, <<Vp8(96), Rtx(98, 97)>>,
                 <<Vp8(96), Rtx(96, 97), Vp9(2, 98), Rtx(98, 99)>>, <<Vp9(0, 98)>>,
                 <<Vp9(2, 98), Rtx(98, 99), H264Codec(31, Asymmetric, 102), Rtx(102, 103)>>,
                 <<H264Codec(52, Empty, 102), Vp8(101), Rtx(101, 103), Rtx(102, 104)>>},
     enc \in {Svc, Odd, Simulcast}}

Endpoints ==
  {[codecs |-> codecs, exts |-> exts] :
     codecs \in {<<Opus(111)>>, <<Pcmu(0), MultiOpus(4, 9)>>, <<Vp8(101)>>, <<Vp8(101), Rtx(101, 102)>>,
                 <<Vp9(2, 98), Rtx(98, 99)>>, <<H264Codec(31, Asymmetric, 98), Rtx(98, 99)>>,
                 <<Codec("audio/opus", "audio", 111, Empty, {"nack", "goog-remb"})>>,
                 <<Rtx(98, 99)>>, <<>>},
     exts \in {<<>>, <<Ext("video", "abs-send-time", 4, "sendrecv"), Ext("audio", "abs-send-time", 4, "sendrecv")>>,
               <<Ext("video", "abs-send-time", 4, "sendrecv"), Ext("video", "transport-wide-cc", 5, "sendrecv")>>,
               <<Ext("video", "transport-wide-cc", 7, "sendrecv")>>}}

-----------------------------------------------------------------------------
(* A behaviour either negotiates or calls one of the validators on an      *)
(* object; the other side rests.                                           *)
VARIABLES kind, obj, verdict

Val == INSTANCE Validation

allvars == <<vars, kind, obj, verdict>>

MCInit ==
  /\ Init
  /\ \/ Val!Init
     \/ kind = "none" /\ obj = Empty /\ verdict = "refused"

MCNext ==
  \/ kind = "none" /\ Next /\ UNCHANGED <<kind, obj, verdict>>
  \/ Val!Validate /\ UNCHANGED vars

MCSpec == MCInit /\ [][MCNext]_allvars

\* See Validation: what a validator accepts it accepts again without a change, ...
Stable == Val!Stable

\* ... and what the application gave is kept.
KeepsGiven == Val!KeepsGiven
=============================================================================
