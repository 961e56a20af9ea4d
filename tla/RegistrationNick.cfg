\* The nickname of a registered client against the name it is known by.
SPECIFICATION Spec
CONSTANTS
  Fd = {f1, f2}
  NoFd = NoFd
  Name = {n1, n2}
  NoName = NoName
  Password = {right, wrong}
  ServerPassword = right
INVARIANTS
  NickIsUsername
