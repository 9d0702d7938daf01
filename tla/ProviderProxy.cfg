\* More connections than slots; every budget can be used up, by one side or by both.
SPECIFICATION Spec
CONSTANTS
  c1 = c1
  c2 = c2
  c3 = c3
  Conn = {c1, c2, c3}
  Slots = 2
  HeaderLimit = 2
  Budget = 3
  Block = 2
  TunnelTime = 2
  Asks <- AnyRequest
  Prompt = {}
INVARIANTS TypeOK SlotsAccounted
PROPERTY SlotsComeBack
