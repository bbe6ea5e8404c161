SPECIFICATION MCSpec
CONSTANTS
  Payloads <- MCPayloads
  MaxSent = 3
  BUFFER_SIZE = 1
  MSG_RESP_MAX_LEN = 4194304
  HeaderLen = 2
  PayloadMaxLens = {5, 9}
  ChunkMax = 4
  Sizes = {1, 4}
  MaxFrames = 4
  Requests = {a, b, c}
  PayloadRequests = {d, e, f}
  Uses = {{a, b, c}, {d, e, f}, {a, d}}
  MaxId = 2
  MaxNotes = 1
INVARIANTS TypeOK OnlySent OwnReply RepliesFirst
PROPERTIES
  ImplementsFrameChannel FeedReturns ImplementsQueue
  WorkSettles NothingRevives ExitNoticed
CHECK_DEADLOCK FALSE
