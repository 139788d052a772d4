SPECIFICATION Spec
CONSTANTS
  None = None
  MaxPolls = 2
  Plan <- CommandPlan
INVARIANTS
  CliTypeOK
  ConsentFirst
  ExitZeroDone
  RefusedMeansUntouched
PROPERTY
  CommandsEnd
\* A command that has exited takes no further step.
CHECK_DEADLOCK FALSE
