------------------------------ MODULE IrcParser -------------------------------
(***************************************************************************)
(* parseMessage: a line without its CR LF becomes a command and its        *)
(* parameters.  Both loops stop at the end of the line.                    *)
(***************************************************************************)
EXTENDS Naturals, Sequences, FiniteSetsExt

CONSTANTS Space, Colon

\* The first place in J, or the end of the line.
FirstOf(J, s) == Min(J \cup {Len(s) + 1})

\* Mutant: one space is skipped.
SkipSpacesMutant(s, i) == IF i <= Len(s) /\ s[i] = Space THEN i + 1 ELSE i

SkipSpaces(s, i) == FirstOf({j \in i .. Len(s) : s[j] # Space}, s)
WordEnd(s, i)    == FirstOf({j \in i .. Len(s) : s[j] = Space}, s)

\* getArgs from index i on.
GetArgs(s) ==
  LET args[i \in 1 .. Len(s) + 1] ==
        LET j == SkipSpaces(s, i)
        IN  IF j > Len(s) THEN <<>>
            ELSE IF s[j] = Colon THEN <<SubSeq(s, j + 1, Len(s))>>
            ELSE <<SubSeq(s, j, WordEnd(s, j) - 1)>> \o args[WordEnd(s, j)]
  IN  args

\* Where the command begins: after a prefix and exactly one space.
CommandStart(s) ==
  LET i == SkipSpaces(s, 1)
      j == IF i <= Len(s) /\ s[i] = Colon THEN WordEnd(s, i) ELSE i
  IN  IF j <= Len(s) /\ s[j] = Space THEN j + 1 ELSE j

ParseMessage(s) ==
  LET i == CommandStart(s)
      k == WordEnd(s, i)
  IN  [command |-> SubSeq(s, i, k - 1), params |-> GetArgs(s)[k]]

=============================================================================
