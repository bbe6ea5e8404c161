----------------------------- MODULE Validation -----------------------------
(***************************************************************************)
(* The validators of ortc.ts.  They check an object that the application   *)
(* gives and modify it, adding defaults; the same object is given to them  *)
(* again and again (canConsume() and consume() validate the capabilities   *)
(* of an endpoint on each call, each Router validates the capabilities     *)
(* that the library supports).                                             *)
(*                                                                         *)
(* A JavaScript value is its type, whether it is truthy, and a tag: "bad"  *)
(* for an array or object with an element that its own validator refuses,  *)
(* the media type for a MIME type.  An object is a record of its members.  *)
(***************************************************************************)
EXTENDS Integers

VARIABLES kind, obj, verdict

vars == <<kind, obj, verdict>>

Value(type, truthy, tag) == [type |-> type, truthy |-> truthy, tag |-> tag]
Undefined == Value("undefined", FALSE, "")
Null == Value("null", FALSE, "")
Zero == Value("number", FALSE, "")
Number == Value("number", TRUE, "")
EmptyString == Value("string", FALSE, "")
Text == Value("string", TRUE, "")
False == Value("boolean", FALSE, "")
True == Value("boolean", TRUE, "")
Object == Value("object", TRUE, "")
BadObject == Value("object", TRUE, "bad")
Array == Value("array", TRUE, "")
BadArray == Value("array", TRUE, "bad")
Audio == Value("string", TRUE, "audio")
Video == Value("string", TRUE, "video")
Refused == Value("refused", FALSE, "")

Plain == {Undefined, Zero, Number, EmptyString, Text, False, True}
Nested == {Undefined, Null, Number, Object, BadObject, Array, BadArray}

-----------------------------------------------------------------------------
(* The forms of check.                                                     *)

\* typeof v === type, or Array.isArray(v).
Is(v, type) == v.type = type \/ (type = "object" /\ v.type \in {"array", "null"})

Required(v, type) == IF Is(v, type) THEN v ELSE Refused
RequiredSet(v, type) == IF v.truthy /\ Is(v, type) THEN v ELSE Refused
Optional(v, type) == IF v.truthy /\ ~Is(v, type) THEN Refused ELSE v
OptionalOr(v, type, default) == IF v.truthy THEN Optional(v, type) ELSE default
Otherwise(v, type, default) == IF v.truthy /\ Is(v, type) THEN v ELSE default
Contents(v) == IF v.tag = "bad" THEN Refused ELSE v
MimeType(v) == IF v.tag \in {"audio", "video"} THEN v ELSE Refused

\* A video codec has no channels, an audio codec has one unless told.
Channels(codec) ==
  IF codec.mimeType.tag # "audio" THEN Undefined
  ELSE IF Is(codec.channels, "number") THEN codec.channels ELSE Number

-----------------------------------------------------------------------------
(* The validators: each member as it is left, or refused.                  *)

RtpCapabilities(caps) ==
  [codecs |-> Contents(OptionalOr(caps.codecs, "array", Array)),
   headerExtensions |-> Contents(OptionalOr(caps.headerExtensions, "array", Array))]

\* The kind is overridden with the media type of the MIME type.
RtpCodecCapability(codec) ==
  [mimeType |-> MimeType(codec.mimeType),
   kind |-> MimeType(codec.mimeType),
   preferredPayloadType |-> Optional(codec.preferredPayloadType, "number"),
   clockRate |-> Required(codec.clockRate, "number"),
   channels |-> Channels(codec),
   parameters |-> Contents(Otherwise(codec.parameters, "object", Object)),
   rtcpFeedback |-> Contents(Otherwise(codec.rtcpFeedback, "array", Array))]

RtcpFeedback(fb) ==
  [type |-> RequiredSet(fb.type, "string"),
   parameter |-> Otherwise(fb.parameter, "string", EmptyString)]

RtpHeaderExtension(ext) ==
  [kind |-> MimeType(ext.kind),
   uri |-> RequiredSet(ext.uri, "string"),
   preferredId |-> Required(ext.preferredId, "number"),
   preferredEncrypt |-> OptionalOr(ext.preferredEncrypt, "boolean", False),
   direction |-> OptionalOr(ext.direction, "string", Text)]

RtpParameters(params) ==
  [mid |-> Optional(params.mid, "string"),
   codecs |-> Contents(Required(params.codecs, "array")),
   headerExtensions |-> Contents(OptionalOr(params.headerExtensions, "array", Array)),
   encodings |-> Contents(OptionalOr(params.encodings, "array", Array)),
   rtcp |-> Contents(OptionalOr(params.rtcp, "object", Object))]

RtpCodecParameters(codec) ==
  [mimeType |-> MimeType(codec.mimeType),
   payloadType |-> Required(codec.payloadType, "number"),
   clockRate |-> Required(codec.clockRate, "number"),
   channels |-> Channels(codec),
   parameters |-> Contents(Otherwise(codec.parameters, "object", Object)),
   rtcpFeedback |-> Contents(Otherwise(codec.rtcpFeedback, "array", Array))]

RtpHeaderExtensionParameters(ext) ==
  [uri |-> RequiredSet(ext.uri, "string"),
   id |-> Required(ext.id, "number"),
   encrypt |-> OptionalOr(ext.encrypt, "boolean", False),
   parameters |-> Contents(Otherwise(ext.parameters, "object", Object))]

\* Mutant of RtpEncodingParameters: dtx is set where it is not.
RtpEncodingParametersDtx(encoding) ==
  [ssrc |-> Optional(encoding.ssrc, "number"),
   rid |-> Optional(encoding.rid, "string"),
   rtx |-> Contents(Optional(encoding.rtx, "object")),
   dtx |-> Otherwise(encoding.dtx, "boolean", True),
   scalabilityMode |-> Optional(encoding.scalabilityMode, "string")]

RtpEncodingParameters(encoding) ==
  [ssrc |-> Optional(encoding.ssrc, "number"),
   rid |-> Optional(encoding.rid, "string"),
   rtx |-> Contents(Optional(encoding.rtx, "object")),
   dtx |-> Otherwise(encoding.dtx, "boolean", False),
   scalabilityMode |-> Optional(encoding.scalabilityMode, "string")]

RtcpParameters(rtcp) ==
  [cname |-> Optional(rtcp.cname, "string"),
   reducedSize |-> Otherwise(rtcp.reducedSize, "boolean", True)]

SctpCapabilities(caps) == [numStreams |-> Contents(RequiredSet(caps.numStreams, "object"))]

NumSctpStreams(n) == [OS |-> Required(n.OS, "number"), MIS |-> Required(n.MIS, "number")]

SctpParameters(params) ==
  [port |-> Required(params.port, "number"), OS |-> Required(params.OS, "number"),
   MIS |-> Required(params.MIS, "number"),
   maxMessageSize |-> Required(params.maxMessageSize, "number")]

\* Mutant of SctpStreamParameters: ordered is not revised.
SctpStreamParametersOrdered(params) ==
  LET life == Optional(params.maxPacketLifeTime, "number")
      tries == Optional(params.maxRetransmits, "number")
      given == Is(params.ordered, "boolean")
  IN  [streamId |-> Required(params.streamId, "number"),
       ordered |-> IF given /\ params.ordered.truthy /\ (life.truthy \/ tries.truthy)
                   THEN Refused ELSE IF given THEN params.ordered ELSE True,
       maxPacketLifeTime |-> life,
       maxRetransmits |-> IF life.truthy /\ tries.truthy THEN Refused ELSE tries]

\* At most one limit of retransmission, and then no order; the order that was
\* not given follows the limits.
SctpStreamParameters(params) ==
  LET life == Optional(params.maxPacketLifeTime, "number")
      tries == Optional(params.maxRetransmits, "number")
      limited == life.truthy \/ tries.truthy
  IN  [streamId |-> Required(params.streamId, "number"),
       ordered |-> IF ~Is(params.ordered, "boolean") THEN (IF limited THEN False ELSE True)
                   ELSE IF params.ordered.truthy /\ limited THEN Refused
                   ELSE params.ordered,
       maxPacketLifeTime |-> life,
       maxRetransmits |-> IF life.truthy /\ tries.truthy THEN Refused ELSE tries]

Validated(k, o) ==
  CASE k = "RtpCapabilities" -> RtpCapabilities(o)
    [] k = "RtpCodecCapability" -> RtpCodecCapability(o)
    [] k = "RtcpFeedback" -> RtcpFeedback(o)
    [] k = "RtpHeaderExtension" -> RtpHeaderExtension(o)
    [] k = "RtpParameters" -> RtpParameters(o)
    [] k = "RtpCodecParameters" -> RtpCodecParameters(o)
    [] k = "RtpHeaderExtensionParameters" -> RtpHeaderExtensionParameters(o)
    [] k = "RtpEncodingParameters" -> RtpEncodingParameters(o)
    [] k = "RtcpParameters" -> RtcpParameters(o)
    [] k = "SctpCapabilities" -> SctpCapabilities(o)
    [] k = "NumSctpStreams" -> NumSctpStreams(o)
    [] k = "SctpParameters" -> SctpParameters(o)
    [] k = "SctpStreamParameters" -> SctpStreamParameters(o)

-----------------------------------------------------------------------------
(* What may be given.                                                      *)

Kinds == {"RtpCapabilities", "RtpCodecCapability", "RtcpFeedback", "RtpHeaderExtension",
          "RtpParameters", "RtpCodecParameters", "RtpHeaderExtensionParameters",
          "RtpEncodingParameters", "RtcpParameters", "SctpCapabilities", "NumSctpStreams",
          "SctpParameters", "SctpStreamParameters"}

Mimes == {Undefined, Text, Audio, Video}
Given(k) ==
  CASE k = "RtpCapabilities" -> [codecs : Nested, headerExtensions : Nested]
    [] k = "RtpCodecCapability" ->
         [mimeType : Mimes, kind : {Undefined, Audio, Video},
          preferredPayloadType : {Undefined, Zero, Number, Text},
          clockRate : {Undefined, Number}, channels : {Undefined, Number, Text},
          parameters : Nested, rtcpFeedback : Nested]
    [] k = "RtcpFeedback" -> [type : Plain, parameter : Plain]
    [] k = "RtpHeaderExtension" ->
         [kind : Mimes, uri : {Undefined, EmptyString, Text}, preferredId : {Undefined, Zero, Number},
          preferredEncrypt : Plain, direction : Plain]
    [] k = "RtpParameters" ->
         [mid : {Undefined, EmptyString, Text, Number}, codecs : Nested,
          headerExtensions : {Undefined, Number, Array, BadArray},
          encodings : {Undefined, Number, Array, BadArray}, rtcp : Nested]
    [] k = "RtpCodecParameters" ->
         [mimeType : Mimes, payloadType : {Undefined, Zero, Number},
          clockRate : {Undefined, Number}, channels : {Undefined, Number, Text},
          parameters : Nested, rtcpFeedback : Nested]
    [] k = "RtpHeaderExtensionParameters" ->
         [uri : {Undefined, EmptyString, Text}, id : {Undefined, Zero, Number},
          encrypt : Plain, parameters : Nested]
    [] k = "RtpEncodingParameters" ->
         [ssrc : {Undefined, Number, Text}, rid : {Undefined, Number, Text},
          rtx : Nested, dtx : Plain, scalabilityMode : {Undefined, Number, Text}]
    [] k = "RtcpParameters" -> [cname : Plain, reducedSize : Plain]
    [] k = "SctpCapabilities" -> [numStreams : Nested]
    [] k = "NumSctpStreams" -> [OS : Plain, MIS : Plain]
    [] k = "SctpParameters" ->
         [port : Plain, OS : {Undefined, Number}, MIS : {Undefined, Number},
          maxMessageSize : {Undefined, Zero, Number}]
    [] k = "SctpStreamParameters" ->
         [streamId : {Undefined, Zero, Number}, ordered : Plain,
          maxPacketLifeTime : Plain, maxRetransmits : Plain]

Init == kind \in Kinds /\ obj \in Given(kind) /\ verdict = "given"

\* The validator is called; an object that it refuses is not used again.
Validate ==
  /\ verdict # "refused"
  /\ LET result == Validated(kind, obj)
     IN  \/ /\ \A f \in DOMAIN result : result[f] # Refused
            /\ obj' = result /\ verdict' = "accepted"
         \/ /\ \E f \in DOMAIN result : result[f] = Refused
            /\ verdict' = "refused" /\ UNCHANGED obj
  /\ UNCHANGED kind

Spec == Init /\ [][Validate]_vars

-----------------------------------------------------------------------------
\* An object that was accepted is accepted again, and no longer changes: every
\* default is a value that the validator itself accepts and keeps.
Stable == [][verdict = "accepted" => verdict' = "accepted" /\ obj' = obj]_vars

\* The validators overwrite three things that may have been given: the kind of a
\* codec capability, by the media type of its MIME type; the channels of a video
\* codec, which are deleted; and reducedSize, of which false is taken for missing.
Overwrites(f) ==
  \/ kind = "RtpCodecCapability" /\ f = "kind" /\ obj'.kind.tag = obj.mimeType.tag
  \/ f = "channels" /\ obj.mimeType.tag = "video"
  \/ f = "reducedSize" /\ obj.reducedSize = False

\* "It may modify given data by adding missing fields with default values": what is
\* changed was missing, which an empty string is, or not of the type that the default
\* has; nothing else is deleted or replaced but for what Overwrites lists.
KeepsGiven ==
  [][verdict' = "accepted" =>
       \A f \in DOMAIN obj :
          \/ obj'[f] = obj[f] \/ obj[f] = EmptyString
          \/ obj'[f].type \notin {obj[f].type, "undefined"}
          \/ Overwrites(f)]_vars
=============================================================================
