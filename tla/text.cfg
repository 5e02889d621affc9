\* Lines around a line buffer of four, a response buffer of nine, two commands.
CONSTANTS
  Chunks <- SomeChunks
  Keyword = "x"
  LineBuf = 4
  BufSize = 9
  LineNums = {0, 2}
  MaxChunks = 4
  MaxExecs = 2
SPECIFICATION Spec
INVARIANTS
  TypeOK
  WholeLines
  GetLineFindsLine
  KeywordFindsFirst
  SuccessHasItsLines
CHECK_DEADLOCK FALSE
