\* One message beside the point or event out of its turn; three frames with all three kinds of header.
SPECIFICATION SmokeSpec
CHECK_DEADLOCK FALSE
CONSTANTS
  MaxExtra = 1
  Short = 1
  Medium = 2
  Sizes = {2, 3}
  Masked = {2}
  MaxFrames = 3
INVARIANTS AllTypeOK NothingLost VerdictTrue GatewayRestored StreamFaithful PassesConnected
PROPERTY SmokeEnds
