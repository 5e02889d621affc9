\* The card is reported at any time, in any order, also twice the same.
CONSTANT
  MaxReports = 6
SPECIFICATION FairSpec
INVARIANTS
  RemovalIsNoticed
  InsertionIsNoticed
  CallbackAgreesWithStatus
PROPERTIES
  CallbackCatchesUp
  CardComesUp
