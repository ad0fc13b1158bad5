SPECIFICATION Spec
CONSTANTS
  Channels = {c1}
  MaxInFlight = 7
INVARIANTS TypeOK MapFollowsRequests SettledAgrees
PROPERTIES PartCompletes
