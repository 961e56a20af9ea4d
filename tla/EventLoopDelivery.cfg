\* Progress while output is produced and clients come and go,
\* one of which may reset its connection.
SPECIFICATION Spec
CONSTANTS
  Fd = {f1, f2}
  Resets = {f1}
  Listener = Listener
  MaxCandidates = 1
  MaxBacklog = 1
  MaxOut = 1
PROPERTIES
  InputIsRead
  OutputIsSent
  DeadPeersAreDropped
CHECK_DEADLOCK FALSE
