---------------------------- MODULE MCEventLoop ------------------------------
(* EventLoop for TLC: clients are interchangeable. *)
EXTENDS EventLoop

Clients == Permutations(Fd)

=============================================================================
