\* Three clients, one channel, every mode that decides who gets in.
SPECIFICATION Spec
CONSTANTS
  Fd = {f1, f2, f3}
  NoFd = NoFd
  Name = {n1, n2, n3}
  NoName = NoName
  Empty = Empty
  NoChannel = NoChannel
  secret = secret
  two = two
  c1 = c1
  Text = {n1, n2, n3, secret, two}
  Key = {Empty, secret}
  Topic = {Empty}
  ChanOrder <- OneChannel
  LimitOf <- MCLimitOf
  ModeLine <- MCModeLine
SYMMETRY Symmetry
INVARIANTS
  TypeOK
  ChannelsSound
  MembersAreUsers
PROPERTIES
  AdmissionObeysModes
  OldestSucceeds
