------------------------------- MODULE MCInput --------------------------------
(* Input for TLC: short words over one letter. *)
EXTENDS Input

CONSTANT a   \* the letter

MCCommand  == {<<a>>, <<a, a>>}
MCMiddle   == {<<a>>, <<a, Colon>>}
MCTrailing == {<<>>, <<Colon, a>>, <<a, Space, Space, Colon>>, <<Space>>}

=============================================================================
