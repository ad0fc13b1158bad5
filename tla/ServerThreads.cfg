SPECIFICATION Spec
CONSTANTS
  Threads = {t1, t2, t3}
  SIGRTMIN = 34
  SIGRTMAX = 36
INVARIANTS TypeOK DescriptorsOwnedOnce WaitAllComplete MovedOnlyInSetup SigIdAccounting SigIdsDistinct
PROPERTIES MainReturns ImplementsPool
