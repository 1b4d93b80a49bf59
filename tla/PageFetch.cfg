\* Three attempts, the deadline falling into any of them or into a pause.
SPECIFICATION Spec
CONSTANTS
  Attempts = 3
  RequestTimeout = 4
  Delay = 3
  Deadline = 12
  Horizon = 14
INVARIANTS TypeOK OutcomeIsEarned OverByDeadline
