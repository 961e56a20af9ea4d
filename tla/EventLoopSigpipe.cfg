\* A client that resets its connection ends the server.
SPECIFICATION Spec
CONSTANTS
  Fd = {f1}
  Resets = {f1}
  Listener = Listener
  MaxCandidates = 1
  MaxBacklog = 1
  MaxOut = 1
INVARIANTS
  OnlyPollEndsTheServer
CHECK_DEADLOCK FALSE
