SPECIFICATION FairSpec
CONSTANTS
  ota = ota
  reader = reader
  Callers = {ota, reader}
  Parser = Parser
  None = None
  Ops <- UpdateAndReader
  Lengths <- ShortAndLong
  LineBuf = 10
  MaxCalls <- TwoAndOne
  Prompts = {TRUE, FALSE}
INVARIANTS WritesIntoLiveBuffer LengthMatchesBuffer ReadGetsItsReply HeaderOfThisSession
PROPERTY EveryCallReturns
