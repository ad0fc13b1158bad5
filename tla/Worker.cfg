SPECIFICATION Spec
CONSTANTS
  Stream <- Messages
  MaxRecv = 7
  Tries = 2
INVARIANTS StreamInv TornOnlyByLoss AbortsOnlyAfterLoss
PROPERTIES QuitDecides EverythingRead
