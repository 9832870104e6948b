\* One request, two attempts, bodies around the limit, an answer of two bytes.
SPECIFICATION Spec
CONSTANTS
  Account = {a1, a2}
  Scope = {a1}
  Status = {200, 413, 429}
  BodyLimit = 2
  Input <- HostFrames
  MaxFrames = 4
  MaxBytes = 2
  MaxAttempts = 2
INVARIANTS TypeOK FramesInOrder RequestSentTruthful NothingTruncated EndMeansComplete
PROPERTIES CancelledHandlersReturn OnlyUpstreamDelays ImplementsExchange
