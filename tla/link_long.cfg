SPECIFICATION LifeSpec
CONSTANTS
  Caller = Caller
  Callee = Callee
  Secrets = {Caller, Callee}
  MaxTyped <- LongChat
  MaxInFlight = 2
  Words = {FALSE}
  RNG_MAX_CREDITS = 384
  RNG_REKEY_BLOCKS = 2
  NOISE_WORDS = 2
  Lengths = {32, 200}
  Credits = {0, 400}
  MaxSteps = 7
INVARIANTS
  TypeOK
  InStep
  NotForItsSender
  NumbersGrow
  
  NothingTwice
  PastIsSafe
  CreditsBacked
CHECK_DEADLOCK FALSE
