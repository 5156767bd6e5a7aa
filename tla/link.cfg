SPECIFICATION EitherSpec
CONSTANTS
  Caller = Caller
  Callee = Callee
  Secrets = {Caller, Callee}
  MaxTyped <- ShortChat
  MaxInFlight = 2
  Words = {TRUE, FALSE}
  anna = anna
  bruno = bruno
  carla = carla
  Users = {anna, bruno, carla}
  MayCall <- Callers
  MaxOpened = 2
  MaxConns = 3
  MaxTexts = 1
INVARIANTS
  NextIsReadable
  InStep
  NotForItsSender
  MessagesFitTheirCount
  NothingGoesAstray
  BoardsStayPaired
  CallsAreAnswered
PROPERTIES
  
  HandshakeSettles
  TextsJudged
CHECK_DEADLOCK FALSE
