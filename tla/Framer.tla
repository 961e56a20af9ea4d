-------------------------------- MODULE Framer --------------------------------
(***************************************************************************)
(* IrcMessageFramer::processRawData: a buffer is cut at each CR LF into    *)
(* lines, and what follows the last one is left for later.                 *)
(***************************************************************************)
EXTENDS Naturals, Sequences, FiniteSetsExt

CONSTANTS CR, LF

\* Where "\r\n" begins in s, from index i on; find() returns the least of them.
LineEnds(s, i) == {k \in i .. Len(s) - 1 : s[k] = CR /\ s[k + 1] = LF}

\* Mutant: the LF is left behind.
AfterMutant(k) == k + 1

\* What is erased with a line that ends at index k: its CR LF too.
After(k) == k + 2

\* The lines of s, and the rest.
Framed(s) ==
  LET split[i \in 1 .. Len(s) + 1] ==
        IF LineEnds(s, i) = {} THEN [lines |-> <<>>, rest |-> SubSeq(s, i, Len(s))]
        ELSE LET k    == Min(LineEnds(s, i))
                 more == split[After(k)]
             IN  [lines |-> <<SubSeq(s, i, k - 1)>> \o more.lines, rest |-> more.rest]
  IN  split[1]

=============================================================================
