SPECIFICATION Spec
CONSTANTS
  MaxAddrs = 3
  MaxSent = 24
INVARIANTS SocketsInv ServesLoggedIn OneMessagePerLine
PROPERTIES Settles
