SPECIFICATION Spec
CONSTANTS
  WebRtcServers = {s}
  Routers = {r}
  WebRtcTransports = {t, u}
  PlainTransports = {q}
  PipeTransports = {v}
  DirectTransports = {w}
  Producers = {p}
  DataProducers = {dp}
  Consumers = {c, d}
  DataConsumers = {dc}
  ActiveSpeakerObservers = {as}
  AudioLevelObservers = {al}
  Plans = {{s, r, t, p}}
INVARIANT RouterAlreadyKnows
CHECK_DEADLOCK FALSE
