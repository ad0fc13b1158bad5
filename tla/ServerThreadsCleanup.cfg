SPECIFICATION Spec
CONSTANTS
  Threads = {t1, t2}
  SIGRTMIN = 34
  SIGRTMAX = 64
SYMMETRY ThreadSymmetry
INVARIANTS CleanupFindsSelf
