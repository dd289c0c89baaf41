CONSTANTS
  Holders <- MCHolders
  SEC = 2
  Inf = Inf
  NoDeadline = NoDeadline
  LimitValues = {1}
  BurstValues = {1, 2}
  NValues = {1, 2}
  DeadlineOffsets = {1}
  Skew = 1
  MaxTime = 3
  MaxCalls = 2
  MaxSets = 1
  Huge = 200
  Arch = "amd64"
SPECIFICATION Spec
INVARIANT Envelope
