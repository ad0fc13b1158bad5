SPECIFICATION Spec
CONSTANTS
  Stream <- Messages
  MaxRecv = 100
  Tries = 5
INVARIANTS SourceAssertsHold
