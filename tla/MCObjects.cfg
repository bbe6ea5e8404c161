SPECIFICATION Spec
CONSTANTS
  WebRtcServers = {s}
  Routers = {r}
  WebRtcTransports = {t, u}
  PlainTransports = {q}
  PipeTransports = {v}
  DirectTransports = {w}
  Producers = {p}
  DataProducers = {dp}
  Consumers = {c, d}
  DataConsumers = {dc}
  ActiveSpeakerObservers = {as}
  AudioLevelObservers = {al}
  Plans = {{r, t, q, p, c, d}, {r, v, w, dp, dc}, {r, q, as, al}, {s, r, t, p, c}, {s, r, t, u, p}}
INVARIANTS NothingLeaks OpenObjectsExist KnownSourcesOpen
PROPERTY ConsumersFollow
CHECK_DEADLOCK FALSE
