\* Every command at any time of the handshake.
SPECIFICATION ServerSpec
CONSTANTS
  Fd = {f1, f2}
  NoFd = NoFd
  Name = {n1, n2}
  NoName = NoName
  Password = {right, wrong}
  ServerPassword = right
  Empty = Empty
  NoChannel = NoChannel
  c1 = c1
  Text = {n1, n2}
  Key = {Empty}
  Topic = {Empty}
  ChanOrder <- OneChannel
  LimitOf <- MCLimitOf
  ModeLine <- MCModeLine
SYMMETRY Symmetry
INVARIANTS
  ServerTypeOK
  RepliesNameTheUser
  ClosedLeavesNothing
  LookupFindsTheUser
PROPERTIES
  ImplementsChannelCommands
  ErrorsChangeNothing
  WelcomedOnRegistration
