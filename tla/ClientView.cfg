\* Three clients on one channel.
SPECIFICATION ViewSpec
CONSTANTS
  Fd = {f1, f2, f3}
  NoFd = NoFd
  Name = {n1, n2, n3}
  NoName = NoName
  Empty = Empty
  NoChannel = NoChannel
  word = word
  c1 = c1
  c2 = c2
  Text = {n1, n2, n3, word}
  Key = {Empty}
  Topic = {Empty, word}
  ChanOrder <- OneChannel
  LimitOf <- MCLimitOf
  ModeLine <- MCModeLine
SYMMETRY Symmetry
INVARIANTS
  ViewTypeOK
  ViewMatchesServer
  ViewOfOperators
  NoStrayMessages
