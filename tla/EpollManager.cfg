SPECIFICATION Spec
CONSTANTS
  Fds = {f1, f2}
  EventArgs <- AllEvents
  ConfigArgs <- AllConfigs
  Occurring <- Readable
  CallbackOps <- AllOps
  StaticTypes <- PreHook
  Timeout = 0
SYMMETRY FdSymmetry
INVARIANTS TypeOK MapMatchesKernel CtlAssertsHold RoomForAll NoEventLost
