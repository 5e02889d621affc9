\* Every page of up to ten characters, windows of three.
CONSTANTS
  Pages <- SmallPages
  maxLength = 3
  SearchEnd = 7
SPECIFICATION Spec
INVARIANTS
  ReturnsFirstHeader
  NoHeaderMissed
PROPERTIES
  Advances
CHECK_DEADLOCK FALSE
