---------------------------- MODULE MCDispatcher -----------------------------
(* Dispatcher for TLC: the constants that are functions and sequences. *)
EXTENDS Dispatcher, TLC

CONSTANT c1   \* the channel

OneChannel == <<c1>>

\* No text is a number.
MCLimitOf == [t \in Text |-> 0]

Letter(s, m) == [sign |-> s, mode |-> m]
Line(i, a)   == [items |-> i, args |-> a]

\* A mode that keeps newcomers out, and a line of which half is refused.
MCModeLine ==
  {Line(<<Letter("+", "i")>>, <<>>)}
  \cup {Line(<<Letter("+", "l"), Letter("-", "o"), Letter("+", "k")>>, <<n, n>>) : n \in Name}

\* Descriptors and names are interchangeable, each among themselves.
Symmetry == {p @@ q : p \in Permutations(Fd), q \in Permutations(Name)}

=============================================================================
