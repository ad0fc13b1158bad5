SPECIFICATION Spec
CONSTANTS
  Nicks = {kbot, kkd, n1}
  Users = {admin}
  Admin = admin
  AdminNick = kkd
  Initial = kbot
  Channel = chan
  MaxInFlight = 3
INVARIANTS NicknameInv RepliesRouted
PROPERTIES NicknameCatchesUp
