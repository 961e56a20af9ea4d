---------------------------- MODULE MCClientView -----------------------------
(* ClientView for TLC: the constants that are functions and sequences. *)
EXTENDS ClientView, TLC

CONSTANTS word,    \* a topic that is no name
          c1, c2   \* channel names

OneChannel  == <<c1>>
TwoChannels == <<c1, c2>>

MCLimitOf == [t \in Text |-> 0]

Letter(s, m) == [sign |-> s, mode |-> m]
Line(i, a)   == [items |-> i, args |-> a]

\* Giving and taking operator status, twice in a line too.
MCModeLine ==
  {Line(<<Letter(s, "o")>>, <<n>>) : s \in {"+", "-"}, n \in Name}
  \cup {Line(<<Letter("-", "o"), Letter("+", "o")>>, <<m, n>>) : m, n \in Name}
  \cup {Line(<<Letter("+", "t")>>, <<>>)}

\* Nothing but giving and taking operator status.
MCOperatorLine == {Line(<<Letter(s, "o")>>, <<n>>) : s \in {"+", "-"}, n \in Name}

\* Descriptors and names are interchangeable, each among themselves.
Symmetry == {p @@ q : p \in Permutations(Fd), q \in Permutations(Name)}

=============================================================================
