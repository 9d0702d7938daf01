\* One live run, every answer of the broker to every turn.
SPECIFICATION Spec
CHECK_DEADLOCK FALSE
CONSTANT MaxRestarts = 2
INVARIANT FailedTasksRecorded
