SPECIFICATION Spec
CONSTANTS
  called = called
  accepted = accepted
  Outgoing = {called}
  Incoming = {accepted}
  Swing = Swing
  Listener = Listener
  Nobody = Nobody
  MaxTexts <- BothTexts
  MaxSends <- BothSend
  Kinds = {"text", "noise"}
  PipeSize = 1
INVARIANTS
  TypeOK
  SendsFindTheirChat
  PermitsHaveTexts
  ConnectedIsListed
CHECK_DEADLOCK FALSE
