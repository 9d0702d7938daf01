\* With the Codex worker and broker as peers; names resolve or fail.
SPECIFICATION Spec
CONSTANTS
  a1 = a1
  a2 = a2
  Addr = {a1, a2}
  Replies <- UpOrDown
  Settlements <- CodexSettlements
  CodexEnabled = TRUE
  RestartLimit = 1
INVARIANTS TypeOK AgentsAreGuarded OnlyResolvedAddresses
PROPERTY PolicyRestored
