\* Three connections and two nicknames: two connections may want the same
\* nickname while a descriptor is closed and reused.
SPECIFICATION Spec
CONSTANTS
  Fd = {f1, f2, f3}
  NoFd = NoFd
  Name = {n1, n2}
  NoName = NoName
  Password = {right, wrong}
  ServerPassword = right
INVARIANTS
  TypeOK
  RegisteredIffUser
  MapsAgree
  UsersGavePassword
PROPERTIES
  HandshakeFailsOnlyOnClash
  ImplementsUsers
