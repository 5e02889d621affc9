\* An answer that comes after the timeout.
CONSTANTS
  Tasks = {t1}
  Parser = parser
  None = none
  Calls = {"exec"}
  LineNums = {0}
  Answers <- PlainAnswers
  DataAnswers <- NoAnswer
  RespUsed <- OneEach
  Urcs = {}
  BufSize = 3
  MaxCalls = 2
  MaxTries = 0
  MaxUrcs = 0
  Prompt = FALSE
SPECIFICATION Spec
INVARIANTS
  SuccessIsAnswered
