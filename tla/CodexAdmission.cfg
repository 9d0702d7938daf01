\* Failures, stops and kills, two runs, and time for a file to expire.
SPECIFICATION Spec
CONSTANTS
  MaxClock = 13
  MaxRuns = 2
  Disturbances = {"fail", "stop", "kill"}
INVARIANTS TypeOK OwnReadinessOnly
PROPERTIES AdmitsOnlyFresh StopLeavesNothing
