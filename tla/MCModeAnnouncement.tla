------------------------- MODULE MCModeAnnouncement --------------------------
(* ModeAnnouncement for TLC: every line of up to MaxLetters letters. *)
EXTENDS ModeAnnouncement

CONSTANTS MaxLetters,      \* letters in a line
          fa, fb,          \* the members
          fc,              \* a user who is not a member
          anna, bob, cara, \* their names
          two              \* the text "2", the only one that is a limit

MCWho     == [t \in Text |-> CASE t = anna -> fa [] t = bob -> fb [] t = cara -> fc
                               [] OTHER -> NoFd]
MCNameOf  == [f \in Fd |-> IF f = fa THEN anna ELSE bob]
MCLimitOf == [t \in Text |-> IF t = two THEN 2 ELSE 0]

Args == UNION {[1 .. n -> Text \cup {Empty}] : n \in 0 .. 2}

MCModeLine ==
  UNION {[items : [1 .. n -> Letter], args : Args] : n \in 0 .. MaxLetters}

=============================================================================
