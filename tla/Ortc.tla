-------------------------------- MODULE Ortc --------------------------------
(***************************************************************************)
(* The negotiation of RTP parameters in the mediasoup Node library         *)
(* (ortc.ts).  A Router derives its capabilities from the media codecs it  *)
(* is given; a Producer's parameters are mapped to those capabilities and  *)
(* turned into consumable ones; a Consumer's parameters are what the       *)
(* consumable ones and the capabilities of its endpoint have in common.    *)
(*                                                                         *)
(* A JavaScript object with optional members is a function whose domain    *)
(* holds the members that are present.  The name of a codec stands for its *)
(* lower-case MIME type with clock rate and channels, the three things     *)
(* that matchCodecs() compares for every codec.  RTCP feedback is a set.   *)
(***************************************************************************)
EXTENDS Integers, Sequences, SequencesExt, FiniteSets, FiniteSetsExt, TLC

CONSTANTS
  DynamicPayloadTypes,   \* the sequence of payload types to choose from
  SupportedCodecs,       \* supportedRtpCapabilities.codecs
  SupportedExtensions,   \* supportedRtpCapabilities.headerExtensions
  MediaCodecs,           \* the arguments of worker.createRouter()
  ProducerParameters,    \* the arguments of transport.produce()
  EndpointCapabilities,  \* the arguments of transport.consume()
  BaseSsrc, BaseRtxSsrc  \* what generateRandomNumber() returns

VARIABLES
  caps,       \* the capabilities of the Router, or a failure
  producer,   \* its parameters, mapping and consumable parameters, or a failure
  consumer    \* the last Consumer: its parameters, with the arguments

vars == <<caps, producer, consumer>>

None == [made |-> FALSE, error |-> "none"]
Failed(e) == [made |-> FALSE, error |-> e]
NoPayloadType == -1
Empty == <<>>

Without(f, keys) == [k \in DOMAIN f \ keys |-> f[k]]
Get(f, key, default) == IF key \in DOMAIN f THEN f[key] ELSE default

\* Array.find(): the first element that passes, of a sequence where one does.
Has(s, Test(_)) == \E i \in DOMAIN s : Test(s[i])
Find(s, Test(_)) == s[SelectInSeq(s, Test)]

-----------------------------------------------------------------------------
H264 == {"video/h264", "video/h264-svc"}
isRtxCodec(codec) == codec.name = "video/rtx"

\* The package h264-profile-level-id.  A profile-level-id is a pair; an absent
\* one means constrained baseline, level 3.1.
DefaultProfileLevelId == <<"baseline", 31>>
ProfileLevelId(par) == Get(par, "profile-level-id", DefaultProfileLevelId)
isSameProfile(a, b) == ProfileLevelId(a)[1] = ProfileLevelId(b)[1]
AsymmetryAllowed(par) == Get(par, "level-asymmetry-allowed", 0) = 1
generateProfileLevelIdForAnswer(a, b) ==
  LET la == ProfileLevelId(a)[2]
      lb == ProfileLevelId(b)[2]
  IN  <<ProfileLevelId(a)[1],
        IF AsymmetryAllowed(a) /\ AsymmetryAllowed(b) THEN la ELSE Min({la, lb})>>

matchCodecs(a, b, strict) ==
  /\ a.name = b.name
  /\ a.name = "audio/multiopus" =>
       \A key \in {"num_streams", "coupled_streams"} : Get(a.par, key, -1) = Get(b.par, key, -1)
  /\ a.name \in H264 /\ strict =>
       /\ Get(a.par, "packetization-mode", 0) = Get(b.par, "packetization-mode", 0)
       /\ isSameProfile(a.par, b.par)
  /\ a.name = "video/vp9" /\ strict =>
       Get(a.par, "profile-id", 0) = Get(b.par, "profile-id", 0)

\* What 'modify' makes of a, when matchCodecs(a, b) holds with 'strict'.
Modified(a, b) ==
  IF a.name \notin H264 THEN a
  ELSE IF "profile-level-id" \in DOMAIN a.par \cup DOMAIN b.par
       THEN [a EXCEPT !.par =
               ("profile-level-id" :> generateProfileLevelIdForAnswer(a.par, b.par)) @@ @]
       ELSE [a EXCEPT !.par = Without(@, {"profile-level-id"})]

-----------------------------------------------------------------------------
RtxFor(codec, pt) ==
  [name |-> "video/rtx", kind |-> "video", pt |-> pt, par |-> ("apt" :> codec.pt), fb |-> {}]

\* Mutant of TakePayloadType: a payload type that is given stays in the list.
TakeDynamicOnly(free, given, fixed) ==
  IF given # NoPayloadType THEN <<given, free>>
  ELSE IF fixed # NoPayloadType THEN <<fixed, free>>
  ELSE <<Head(free), Tail(free)>>

\* The payload type of a media codec, and what remains of the dynamic ones.
TakePayloadType(free, given, fixed) ==
  IF given # NoPayloadType
  THEN <<given, SelectSeq(free, LAMBDA pt : pt # given)>>
  ELSE IF fixed # NoPayloadType THEN <<fixed, free>>
  ELSE <<Head(free), Tail(free)>>

\* One round of the loop of generateRouterRtpCapabilities().
AddMediaCodec(acc, media) ==
  LET matches(s) == matchCodecs(media, s, FALSE)
      supported == Find(SupportedCodecs, matches)
      dynamic == media.pt = NoPayloadType /\ supported.pt = NoPayloadType
      taken == TakePayloadType(acc.free, media.pt, supported.pt)
      codec == [supported EXCEPT !.pt = taken[1], !.par = media.par @@ @]
  IN  IF acc.error # "none" THEN acc
      ELSE IF ~Has(SupportedCodecs, matches) THEN [acc EXCEPT !.error = "unsupported"]
      ELSE IF dynamic /\ acc.free = <<>> THEN [acc EXCEPT !.error = "exhausted"]
      ELSE IF Has(acc.codecs, LAMBDA c : c.pt = codec.pt)
           THEN [acc EXCEPT !.error = "duplicated"]
      ELSE IF codec.kind # "video"
           THEN [acc EXCEPT !.codecs = Append(@, codec), !.free = taken[2]]
      ELSE IF taken[2] = <<>> THEN [acc EXCEPT !.error = "exhausted"]
      ELSE [acc EXCEPT !.codecs = @ \o <<codec, RtxFor(codec, Head(taken[2]))>>,
                       !.free = Tail(taken[2])]

generateRouterRtpCapabilities(media) ==
  LET all == FoldLeft(AddMediaCodec,
                      [codecs |-> <<>>, free |-> DynamicPayloadTypes, error |-> "none"], media)
  IN  IF all.error # "none" THEN Failed(all.error)
      ELSE [made |-> TRUE, codecs |-> all.codecs, exts |-> SupportedExtensions]

-----------------------------------------------------------------------------
MediaOf(codecs) == SelectSeq(codecs, LAMBDA c : ~isRtxCodec(c))
RtxOf(codecs) == SelectSeq(codecs, isRtxCodec)
RtxAbout(codecs, pt) == SelectSeq(codecs, LAMBDA c : isRtxCodec(c) /\ c.par["apt"] = pt)
CapCodec(codec) == Find(caps.codecs, LAMBDA c : matchCodecs(codec, c, TRUE))
Supported(codec) == Has(caps.codecs, LAMBDA c : matchCodecs(codec, c, TRUE))
Associated(codecs, rtx) == Find(codecs, LAMBDA c : c.pt = Get(rtx.par, "apt", NoPayloadType))

\* getProducerRtpParametersMapping() does not throw: the Router supports every
\* media codec, and RTX for each media codec that an RTX codec is about.
Mappable(codecs) ==
  \A i \in DOMAIN codecs :
    \/ ~isRtxCodec(codecs[i]) /\ Supported(codecs[i])
    \/ /\ isRtxCodec(codecs[i])
       /\ Has(codecs, LAMBDA c : c.pt = Get(codecs[i].par, "apt", NoPayloadType))
       /\ LET media == Associated(codecs, codecs[i])
          IN  /\ ~isRtxCodec(media) /\ Supported(media)
              /\ RtxAbout(caps.codecs, CapCodec(media).pt) # <<>>

\* Mutant of MappedPayloadType: RTX is matched like a media codec.
MappedByName(codecs, codec) == Find(caps.codecs, LAMBDA c : c.name = codec.name).pt

MappedPayloadType(codecs, codec) ==
  IF isRtxCodec(codec)
  THEN Head(RtxAbout(caps.codecs, CapCodec(Associated(codecs, codec)).pt)).pt
  ELSE CapCodec(codec).pt

\* The mapping of payload types, media codecs first, and of encodings.
getProducerRtpParametersMapping(params) ==
  LET entry(c) == [pt |-> c.pt, mapped |-> MappedPayloadType(params.codecs, c)]
      order == MediaOf(params.codecs) \o RtxOf(params.codecs)
      enc == params.encodings
  IN  [codecs |-> [i \in DOMAIN order |-> entry(order[i])],
       encodings |-> [i \in DOMAIN enc |->
         ("mappedSsrc" :> BaseSsrc + i - 1) @@ Without(enc[i], {"rtx", "maxBitrate"})]]

-----------------------------------------------------------------------------
\* Mutant of ConsumableCodecs: the first RTX codec will do.
ConsumableFirstRtx(codec, mapping) ==
  LET pt == Find(mapping.codecs, LAMBDA e : e.pt = codec.pt).mapped
      cap == Find(caps.codecs, LAMBDA c : c.pt = pt)
      rtx == IF codec.kind = "video" THEN RtxOf(caps.codecs) ELSE <<>>
  IN  <<[cap EXCEPT !.par = codec.par]>> \o SubSeq(rtx, 1, Min({1, Len(rtx)}))

\* A codec of the Producer, and its RTX codec, as Consumers shall see them.
ConsumableCodecs(codec, mapping) ==
  LET pt == Find(mapping.codecs, LAMBDA e : e.pt = codec.pt).mapped
      cap == Find(caps.codecs, LAMBDA c : c.pt = pt)
      rtx == RtxAbout(caps.codecs, pt)
  IN  <<[cap EXCEPT !.par = codec.par]>> \o SubSeq(rtx, 1, Min({1, Len(rtx)}))

getConsumableRtpParameters(kind, params, mapping) ==
  LET media == MediaOf(params.codecs)
      enc == params.encodings
      usable(e) == e.kind = kind /\ e.direction \in {"sendrecv", "sendonly"}
  IN  [codecs |-> FlattenSeq([i \in DOMAIN media |-> ConsumableCodecs(media[i], mapping)]),
       exts |-> SelectSeq(caps.exts, usable),
       encodings |-> [i \in DOMAIN enc |->
         ("ssrc" :> mapping.encodings[i]["mappedSsrc"]) @@ Without(enc[i], {"rid", "rtx"})]]

-----------------------------------------------------------------------------
\* Mutant of canConsume: RTX alone will do.
canConsumeRtx(consumable, remote) ==
  \E i \in DOMAIN consumable.codecs :
    Has(remote.codecs, LAMBDA c : matchCodecs(c, consumable.codecs[i], TRUE))

canConsume(consumable, remote) ==
  LET matching == SelectSeq(consumable.codecs, LAMBDA codec :
                    Has(remote.codecs, LAMBDA c : matchCodecs(c, codec, TRUE)))
  IN  matching # <<>> /\ ~isRtxCodec(matching[1])

BweFeedback(exts) ==
  LET uris == {exts[i].uri : i \in DOMAIN exts}
  IN  IF "transport-wide-cc" \in uris THEN {"goog-remb"}
      ELSE IF "abs-send-time" \in uris THEN {"transport-cc"}
      ELSE {"goog-remb", "transport-cc"}

\* The codecs in common, with the feedback of the endpoint's codec.
MatchedCodecs(consumable, remote, enableRtx) ==
  LET common(codec) == /\ enableRtx \/ ~isRtxCodec(codec)
                       /\ Has(remote.codecs, LAMBDA c : matchCodecs(c, codec, TRUE))
      fb(codec) == Find(remote.codecs, LAMBDA c : matchCodecs(c, codec, TRUE)).fb
                     \ (IF enableRtx THEN {} ELSE {"nack"})
      codecs == SelectSeq(consumable.codecs, common)
  IN  [i \in DOMAIN codecs |-> [codecs[i] EXCEPT !.fb = fb(codecs[i])]]

\* Mutant of Sanitized: RTX codecs stay without their media codec.
Unsanitized(codecs) == codecs

\* RTX codecs without their media codec are removed.
Sanitized(codecs) ==
  SelectSeq(codecs, LAMBDA c : isRtxCodec(c) => Has(codecs, LAMBDA d : d.pt = c.par["apt"]))

\* scalabilityMode: a pair of layers; the empty tuple is a mode that
\* parseScalabilityMode() does not recognise.
TemporalLayers(mode) == IF mode = Empty THEN 1 ELSE mode[2]

\* The single encoding of a Consumer that is not a pipe one.
ConsumerEncoding(encodings, rtx) ==
  LET withMode == SelectSeq(encodings, LAMBDA e : "mode" \in DOMAIN e)
      mode == IF Len(encodings) > 1
              THEN <<Len(encodings),
                     IF withMode = <<>> THEN 1 ELSE TemporalLayers(withMode[1]["mode"])>>
              ELSE IF withMode = <<>> THEN Empty ELSE withMode[1]["mode"]
      rate == Max({0} \cup {Get(encodings[i], "maxBitrate", 0) : i \in DOMAIN encodings})
  IN  ("ssrc" :> BaseSsrc)
        @@ (IF rtx THEN "rtx" :> BaseSsrc + 1 ELSE Empty)
        @@ (IF Len(encodings) > 1 \/ withMode # <<>> THEN "mode" :> mode ELSE Empty)
        @@ (IF rate > 0 THEN "maxBitrate" :> rate ELSE Empty)

\* All the encodings, with fresh SSRCs.
PipeEncodings(encodings, rtx) ==
  [i \in DOMAIN encodings |->
     ("ssrc" :> BaseSsrc + i - 1)
       @@ (IF rtx THEN "rtx" :> BaseRtxSsrc + i - 1 ELSE Empty) @@ Without(encodings[i], {"rtx"})]

getConsumerRtpParameters(consumable, remote, pipe, enableRtx) ==
  LET codecs == Sanitized(MatchedCodecs(consumable, remote, enableRtx))
      rtx == Has(codecs, isRtxCodec)
      exts == SelectSeq(consumable.exts, LAMBDA e :
                Has(remote.exts, LAMBDA r : r.id = e.id /\ r.uri = e.uri))
  IN  IF codecs = <<>> \/ isRtxCodec(codecs[1]) THEN Failed("no compatible media codecs")
      ELSE [made |-> TRUE, exts |-> exts,
            codecs |-> [i \in DOMAIN codecs |->
                          [codecs[i] EXCEPT !.fb = @ \ BweFeedback(exts)]],
            encodings |-> IF pipe THEN PipeEncodings(consumable.encodings, rtx)
                          ELSE <<ConsumerEncoding(consumable.encodings, rtx)>>]

getPipeConsumerRtpParameters(consumable, enableRtx) ==
  LET codecs == SelectSeq(consumable.codecs, LAMBDA c : enableRtx \/ ~isRtxCodec(c))
      kept == {"nack pli", "ccm fir"} \cup (IF enableRtx THEN {"nack"} ELSE {})
  IN  [made |-> TRUE,
       codecs |-> [i \in DOMAIN codecs |-> [codecs[i] EXCEPT !.fb = @ \cap kept]],
       exts |-> SelectSeq(consumable.exts, LAMBDA e :
                  e.uri \notin {"mid", "abs-send-time", "transport-wide-cc"}),
       encodings |-> PipeEncodings(consumable.encodings, enableRtx)]

-----------------------------------------------------------------------------
Init == caps = None /\ producer = None /\ consumer = None

CreateRouter ==
  /\ caps = None
  /\ \E media \in MediaCodecs : caps' = generateRouterRtpCapabilities(media)
  /\ UNCHANGED <<producer, consumer>>

\* produce(): an empty list of encodings is given one, H264 levels are settled.
ProducerOf(p) ==
  LET params == [p EXCEPT !.encodings = IF @ = <<>> THEN <<Empty>> ELSE @]
      settled == [params EXCEPT !.codecs =
                    [i \in DOMAIN @ |-> IF isRtxCodec(@[i]) THEN @[i]
                                        ELSE Modified(@[i], CapCodec(@[i]))]]
      mapping == getProducerRtpParametersMapping(params)
  IN  [made |-> TRUE, params |-> settled, mapping |-> mapping,
       consumable |-> getConsumableRtpParameters(p.kind, settled, mapping)]

Produce ==
  /\ caps.made /\ producer = None
  /\ \E p \in ProducerParameters :
       producer' = IF Mappable(p.codecs) THEN ProducerOf(p) ELSE Failed("unsupported")
  /\ UNCHANGED <<caps, consumer>>

\* Router.canConsume() and Transport.consume(), asked of the same endpoint.
Consume ==
  /\ producer.made /\ consumer = None
  /\ \E remote \in EndpointCapabilities, pipe, enableRtx \in BOOLEAN :
       consumer' = [made |-> TRUE, by |-> "consume", remote |-> remote, enableRtx |-> enableRtx,
                    can |-> canConsume(producer.consumable, remote),
                    params |-> getConsumerRtpParameters(producer.consumable, remote,
                                                        pipe, enableRtx)]
  /\ UNCHANGED <<caps, producer>>

\* PipeTransport.consume().
PipeConsume ==
  /\ producer.made /\ consumer = None
  /\ \E enableRtx \in BOOLEAN :
       consumer' = [made |-> TRUE, by |-> "pipe", enableRtx |-> enableRtx,
                    params |-> getPipeConsumerRtpParameters(producer.consumable, enableRtx)]
  /\ UNCHANGED <<caps, producer>>

Next == CreateRouter \/ Produce \/ Consume \/ PipeConsume

Spec == Init /\ [][Next]_vars

-----------------------------------------------------------------------------
Consumed == consumer.made /\ consumer.by = "consume"
Piped == consumer.made /\ consumer.by = "pipe"
Params == consumer.params

\* The payload types of a Router are distinct, the given, the static and the
\* dynamic ones together, and each video codec is followed by its RTX codec
\* (generateRouterRtpCapabilities, which checks media codecs for duplicates only).
PayloadTypesCoherent ==
  caps.made =>
    /\ \A i, j \in DOMAIN caps.codecs : caps.codecs[i].pt = caps.codecs[j].pt => i = j
    /\ \A i \in DOMAIN caps.codecs :
         LET c == caps.codecs[i]
         IN  /\ isRtxCodec(c) => i > 1 /\ c.par["apt"] = caps.codecs[i - 1].pt
             /\ c.kind = "video" /\ ~isRtxCodec(c) =>
                  i < Len(caps.codecs) /\ isRtxCodec(caps.codecs[i + 1])

\* The mapping of a Producer sends each payload type to a codec of the Router of
\* the same name, and the RTX of a media codec to the RTX of what that codec is
\* sent to (getProducerRtpParametersMapping).
MappingSound ==
  producer.made =>
    LET mapped(pt) == Find(producer.mapping.codecs, LAMBDA e : e.pt = pt).mapped
    IN  \A i \in DOMAIN producer.params.codecs :
          LET c == producer.params.codecs[i]
              cap == Find(caps.codecs, LAMBDA d : d.pt = mapped(c.pt))
          IN  /\ cap.name = c.name
              /\ isRtxCodec(c) => cap.par["apt"] = mapped(c.par["apt"])

\* A Consumer has RTX for media codecs it has, an RTX SSRC exactly when it has
\* RTX, neither RTX nor NACK when they are off, and feedback for one bandwidth
\* estimation at most (getConsumerRtpParameters).
ConsumerCoherent ==
  Consumed /\ Params.made =>
    /\ \A i \in DOMAIN Params.codecs :
         LET c == Params.codecs[i]
         IN  /\ isRtxCodec(c) => Has(Params.codecs, LAMBDA d : ~isRtxCodec(d) /\ d.pt = c.par["apt"])
             /\ ~consumer.enableRtx => ~isRtxCodec(c) /\ "nack" \notin c.fb
             /\ ~({"goog-remb", "transport-cc"} \subseteq c.fb)
    /\ \A i \in DOMAIN Params.encodings :
         "rtx" \in DOMAIN Params.encodings[i] <=> Has(Params.codecs, isRtxCodec)

\* canConsume() and consume() agree on whether a Consumer can be had, except that
\* canConsume() may deny an endpoint that has RTX and lacks a media codec of the
\* Producer (canConsume, getConsumerRtpParameters).
CanConsumeAgrees ==
  LET shared(codec) == Has(consumer.remote.codecs, LAMBDA c : matchCodecs(c, codec, TRUE))
      media == SelectSeq(producer.consumable.codecs, LAMBDA c : ~isRtxCodec(c))
  IN  Consumed =>
        /\ consumer.can => Params.made
        /\ Params.made /\ ~consumer.can =>
             /\ Has(consumer.remote.codecs, isRtxCodec)
             /\ \E i \in DOMAIN media : ~shared(media[i])

\* What a pipe Consumer sends is accepted by a Router with the same codecs, which
\* pipeToRouter() relies on (getPipeConsumerRtpParameters, Router.pipeToRouter).
PipeAccepted == Piped => Mappable(Params.codecs)
=============================================================================
