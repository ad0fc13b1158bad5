SPECIFICATION Spec
CONSTANTS
  MaxChunks = 5
  MaxPart = 6
INVARIANTS AcceptsGrammar NothingLost UserIsSource ServerMessagesHandled TailAssertsWithoutUser
