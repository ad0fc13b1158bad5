SPECIFICATION Spec
CONSTANTS
  Fds = {f1, f2}
  EventArgs <- GoodEvents
  ConfigArgs <- GoodConfigs
  Occurring <- Readable
  CallbackOps <- SafeOps
  StaticTypes <- Hooks
  Timeout <- Forever
INVARIANTS NoCrash
PROPERTIES ReadyFdServed
