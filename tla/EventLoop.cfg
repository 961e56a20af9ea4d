\* Every interleaving of two clients that may each be reset.
SPECIFICATION Spec
CONSTANTS
  Fd = {f1, f2}
  Resets = {f1, f2}
  Listener = Listener
  MaxCandidates = 2
  MaxBacklog = 1
  MaxOut = 2
SYMMETRY Clients
INVARIANTS
  TypeOK
  PollSetMatches
  DescriptorsOwned
  OutputArmed
  LanesAreFifo
CHECK_DEADLOCK FALSE
