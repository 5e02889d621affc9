\* Two tasks in the driver's functions.
CONSTANTS
  Tasks = {t1, t2}
  Parser = parser
  None = none
  Calls = {"exec", "send", "wait_connect", "set_end_sign"}
  LineNums = {0, 2}
  Answers <- AnyAnswer
  DataAnswers <- DataAccepted
  RespUsed <- OneForAll
  Urcs = {"urc"}
  BufSize = 4
  MaxCalls = 10
  MaxTries = 2
  MaxUrcs = 1
  Prompt = TRUE
  Ops <- Shared
  MaxOps <- TwoAndOne
SPECIFICATION CommandsSpec
INVARIANTS
  ExchangeUninterrupted
  DataWasAskedFor
  TrueMeansAllAccepted
  SettingsRestored
  SharedResponseIsOwn
PROPERTIES
  EveryFunctionReturns
