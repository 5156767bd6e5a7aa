SPECIFICATION Spec
CONSTANTS
  Caller = Caller
  Callee = Callee
  Secrets = {Caller, Callee}
  MaxTyped <- ShortChat
  MaxInFlight = 2
  Words = {TRUE, FALSE}
INVARIANTS
  NoIntactTextRefused
CHECK_DEADLOCK FALSE
