SPECIFICATION Spec
CONSTANTS
  ota = ota
  reader = reader
  Callers = {ota}
  Parser = Parser
  None = None
  Ops <- OnlyReads
  Lengths <- Packets
  LineBuf = 128
  MaxCalls <- TwoAndOne
  Prompts = {TRUE}
INVARIANT PacketFitsLineBuf
