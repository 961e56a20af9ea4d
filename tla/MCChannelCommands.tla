-------------------------- MODULE MCChannelCommands --------------------------
(* ChannelCommands for TLC: the constants that are functions and sequences. *)
EXTENDS ChannelCommands, TLC

CONSTANTS secret,  \* a key that is no name
          two      \* the text "2"; every other text is no number

MCLimitOf == [t \in Text |-> IF t = two THEN 2 ELSE 0]

Letter(s, m) == [sign |-> s, mode |-> m]
Line(i, a)   == [items |-> i, args |-> a]

\* One letter at a time, with good, bad and missing arguments.
OneLetter ==
  {Line(<<Letter(s, m)>>, <<>>) : s \in {"+", "-"}, m \in {"i", "l", "o"}}
  \cup {Line(<<Letter("-", "k")>>, <<>>), Line(<<Letter("+", "k")>>, <<secret>>),
        Line(<<Letter("+", "l")>>, <<two>>), Line(<<Letter("+", "l")>>, <<secret>>)}
  \cup {Line(<<Letter(s, "o")>>, <<n>>) : s \in {"+", "-"}, n \in Name}

\* An operator hands over and steps down, in either order, in one line.
HandOver ==
  {Line(<<Letter("-", "o"), Letter("+", "o")>>, <<m, n>>) : m, n \in Name}

MCModeLine == OneLetter \cup HandOver

CONSTANT c1
OneChannel == <<c1>>

\* Descriptors and names are interchangeable, each among themselves.
Symmetry == {p @@ q : p \in Permutations(Fd), q \in Permutations(Name)}

=============================================================================
