SPECIFICATION FairSpec
CONSTANTS
  out = out in1 = in1
  Calls = {out}
  Accepts = {in1}
  MaxTexts = 1
  MaxSends = 1
  MaxIncidents = 1
INVARIANTS
  TypeOK
  AnswersAreOwn
  BoardsComeToRest
  LoneChatIsCalm
  CalmIsExclusive
PROPERTIES
  PortIsGivenBack
  CommandsReturn
CHECK_DEADLOCK FALSE
