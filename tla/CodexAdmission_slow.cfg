\* Nothing fails; the worker just needs time before it listens.
SPECIFICATION Spec
CONSTANTS
  MaxClock = 3
  MaxRuns = 2
  Disturbances = {}
PROPERTY ReadinessPublished
