\* With Codex, one release tag among commits, two signals.  The script ends.
SPECIFICATION Spec
CHECK_DEADLOCK FALSE
CONSTANTS
  CodexEnabled = TRUE
  ByCommit = {"gateway", "memory", "agent", "codex"}
  MaxSignals = 2
INVARIANTS StartedFromParts NothingLeft
