SPECIFICATION FairSpec
CONSTANTS
  called = called
  accepted = accepted
  Outgoing = {called}
  Incoming = {accepted}
  Swing = Swing
  Listener = Listener
  Nobody = Nobody
  MaxTexts <- AcceptedOnly
  MaxSends <- CalledOnly
  Kinds = {"text"}
  PipeSize = 1
PROPERTY
  EndClosesChat
CHECK_DEADLOCK FALSE
