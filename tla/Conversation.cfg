\* Two native app-servers, a signal, three rescans; or a live run with two restarts.
SPECIFICATION ConversationSpec
CHECK_DEADLOCK FALSE
CONSTANTS
  Native = {"first", "second"}
  Child = {"worker"}
  Candidate = FALSE
  Attempts = 3
  MaxSignals = 1
  MaxRestarts = 2
INVARIANTS AllTypeOK NothingSurvives FailureIsSeen PassedMeansShown EvidenceKept
PROPERTIES NothingRemains RunEnds
