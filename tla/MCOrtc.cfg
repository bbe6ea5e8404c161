SPECIFICATION MCSpec
CONSTANTS
  DynamicPayloadTypes <- FourPayloadTypes
  SupportedCodecs <- Supports
  SupportedExtensions <- Extensions
  MediaCodecs <- Media
  ProducerParameters <- Producers
  EndpointCapabilities <- Endpoints
  BaseSsrc = 1000
  BaseRtxSsrc = 2000
INVARIANT PayloadTypesCoherent
INVARIANT MappingSound
INVARIANT ConsumerCoherent
INVARIANT CanConsumeAgrees
INVARIANT PipeAccepted
PROPERTIES Stable KeepsGiven
CHECK_DEADLOCK FALSE
