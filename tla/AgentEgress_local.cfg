\* Without Codex, every kind of answer of the resolver.
SPECIFICATION Spec
CONSTANTS
  a1 = a1
  a2 = a2
  Addr = {a1, a2}
  Replies <- AllReplies
  Settlements <- LocalSettlements
  CodexEnabled = FALSE
  RestartLimit = 1
INVARIANT LivePolicyWhole
PROPERTIES ImplementsPolicy StaleRevoked
