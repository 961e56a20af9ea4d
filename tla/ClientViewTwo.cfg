\* Two clients that share two channels, both of which a disconnection leaves.
SPECIFICATION ViewSpec
CONSTANTS
  Fd = {f1, f2}
  NoFd = NoFd
  Name = {n1, n2}
  NoName = NoName
  Empty = Empty
  NoChannel = NoChannel
  word = word
  c1 = c1
  c2 = c2
  Text = {n1, n2, word}
  Key = {Empty}
  Topic = {Empty}
  ChanOrder <- TwoChannels
  LimitOf <- MCLimitOf
  ModeLine <- MCOperatorLine
SYMMETRY Symmetry
INVARIANTS
  ViewMatchesServer
  ViewOfOperators
  NoStrayMessages
