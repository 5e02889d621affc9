\* Timeouts longer than any answer: what the API promises.
CONSTANTS
  Tasks = {t1, t2}
  Parser = parser
  None = none
  Calls = {"exec", "wait_connect"}
  LineNums = {0, 2}
  Answers <- ProtocolAnswers
  DataAnswers <- NoAnswer
  RespUsed <- OneEach
  Urcs = {"urc"}
  BufSize = 3
  MaxCalls = 2
  MaxTries = 1
  MaxUrcs = 1
  Prompt = TRUE
SYMMETRY Symmetry
SPECIFICATION Spec
INVARIANTS
  NoLostWakeup
  ExecReportsItsAnswer
PROPERTIES
  ImplementsService
