\* One task starts updates, one after the other.
CONSTANTS
  Callers = {c1}
  MaxStarts = 2
  Packets = 3
  Asks = {TRUE, FALSE}
  Prompts = {TRUE, FALSE}
SPECIFICATION FairSpec
INVARIANTS
  OneUpdate
  WritesWhatWasAsked
PROPERTIES
  EveryStartReports
