\* Answers may come before or after the timeout; prompts; a handler that sends.
CONSTANTS
  Tasks = {t1, t2}
  Parser = parser
  None = none
  Calls = {"exec", "exec_null", "wait_connect", "send", "set_end_sign"}
  LineNums = {0}
  Answers <- PromptAnswers
  DataAnswers <- NoAnswer
  RespUsed <- OneEach
  Urcs = {"msgi"}
  BufSize = 3
  MaxCalls = 1
  MaxTries = 1
  MaxUrcs = 1
  Prompt = FALSE
SPECIFICATION FairSpec
INVARIANTS
  TypeOK
  SlotBelongsToLockHolder
PROPERTIES
  LineIsQuietWhileWaiting
  EveryCallReturns
  ParserComesBack
