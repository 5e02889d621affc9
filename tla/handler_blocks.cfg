\* A URC handler that sends while a task waits for its answer.
CONSTANTS
  Tasks = {t1}
  Parser = parser
  None = none
  Calls = {"exec"}
  LineNums = {0}
  Answers <- PlainAnswers
  DataAnswers <- NoAnswer
  RespUsed <- OneEach
  Urcs = {"msgi"}
  BufSize = 3
  MaxCalls = 1
  MaxTries = 0
  MaxUrcs = 1
  Prompt = TRUE
SPECIFICATION Spec
INVARIANTS
  TimeoutMeansNoAnswer
