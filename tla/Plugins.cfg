SPECIFICATION Spec
CONSTANTS
  Servers = {s1, s2}
  p1 = p1
  p2 = p2
  other = other
  None = None
  Libs <- TheLibs
  Plugins <- ThePlugins
  Names <- TheNames
  Builtins <- TheBuiltins
  Exports <- TheExports
INVARIANTS HandlesInv CallbacksMapped LoadedCommandsAvailable
PROPERTIES CommandFinishes
CHECK_DEADLOCK FALSE
