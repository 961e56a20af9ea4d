----------------------------- MODULE ModeCommand -----------------------------
(***************************************************************************)
(* The algorithm of ModeCommand::execute (src/src/commands/ModeCommand.cpp *)
(* lines 63-299) on one channel: a line of mode letters and arguments is   *)
(* turned into requests, the requests are applied, and those that took     *)
(* effect are announced.                                                   *)
(*                                                                         *)
(* The code applies the requests in loops of their own, one for i and t,   *)
(* one for k and l, one for o.  Each loop assigns in the order of the      *)
(* line, so the last request about a field decides it; that is how the     *)
(* result is defined here.  What took effect is announced in the order of  *)
(* the line, all modes mixed.                                              *)
(***************************************************************************)
EXTENDS Channel, SequencesExt

CONSTANT LimitOf   \* what strtol and its tests make of a text as a +l argument:
                   \* the number when it is in 1..INT_MAX, 0 when it is refused

\* The elements of s that are in T, in their order: what is left of a list when
\* a loop passes over the others.
Kept(s, T) ==
  FoldLeft(LAMBDA kept, x : IF x \in T THEN Append(kept, x) ELSE kept, <<>>, s)

\* A parsed letter: its sign and which of the five modes it is about.
ModeItem == [sign : {"+", "-"}, mode : {"i", "t", "k", "l", "o"}]

\* The letters that take an argument.
NeedsArg(item) == item.mode = "o" \/ (item.sign = "+" /\ item.mode \in {"k", "l"})

(***************************************************************************)
(* The argument of the i-th letter: letters that need one take them in     *)
(* order; when they run out the letter is left with none.                  *)
(***************************************************************************)
ArgIndex(line, i) == Cardinality({j \in 1 .. i : NeedsArg(line.items[j])})

HasArg(line, i) == NeedsArg(line.items[i]) /\ ArgIndex(line, i) <= Len(line.args)

BoundArg(line, i) == IF HasArg(line, i) THEN line.args[ArgIndex(line, i)] ELSE Empty

\* Mutant: the name need not be a member's.
RequestsMutant(ch, line, who) ==
  [i \in DOMAIN line.items |->
     LET item   == line.items[i]
         arg    == BoundArg(line, i)
         usable == /\ arg # Empty
                   /\ item.mode = "l" => LimitOf[arg] > 0
                   /\ item.mode = "o" => who[arg] # NoFd
     IN  [sign |-> item.sign, mode |-> item.mode, arg |-> IF usable THEN arg ELSE Empty]]

(***************************************************************************)
(* The letters with their arguments, an unusable argument being cleared: a *)
(* limit strtol refuses, a name that is nobody's (who[name] = NoFd) or not *)
(* a member's.                                                             *)
(***************************************************************************)
Requests(ch, line, who) ==
  [i \in DOMAIN line.items |->
     LET item   == line.items[i]
         arg    == BoundArg(line, i)
         usable == /\ arg # Empty
                   /\ item.mode = "l" => LimitOf[arg] > 0
                   /\ item.mode = "o" => who[arg] \in ch.members
     IN  [sign |-> item.sign, mode |-> item.mode, arg |-> IF usable THEN arg ELSE Empty]]

\* Mutant: a user who is not on the channel is passed over.
ComplaintMutant(ch, line, i, who) ==
  LET item == line.items[i]
      arg  == BoundArg(line, i)
  IN  CASE NeedsArg(item) /\ ~ HasArg(line, i) -> "461"
        [] arg # Empty /\ item.mode = "l" /\ LimitOf[arg] = 0 -> "696"
        [] arg # Empty /\ item.mode = "o" /\ who[arg] = NoFd -> "401"
        [] OTHER -> "none"

\* The error the i-th letter is answered with.
Complaint(ch, line, i, who) ==
  LET item == line.items[i]
      arg  == BoundArg(line, i)
  IN  CASE NeedsArg(item) /\ ~ HasArg(line, i) -> "461"
        [] arg # Empty /\ item.mode = "l" /\ LimitOf[arg] = 0 -> "696"
        [] arg # Empty /\ item.mode = "o" /\ who[arg] = NoFd -> "401"
        [] arg # Empty /\ item.mode = "o" /\ who[arg] \notin ch.members \cup {NoFd} -> "441"
        [] OTHER -> "none"

\* The errors of a line: first the missing arguments, then limits, then names.
Complaints(ch, line, who) ==
  LET all == [i \in DOMAIN line.items |-> Complaint(ch, line, i, who)]
      among(codes) == Kept(all, codes)
  IN  among({"461"}) \o among({"696"}) \o among({"401", "441"})

\* A request without the argument it needs is skipped by every later loop.
TakesEffect(r) == NeedsArg(r) => r.arg # Empty

ApplyModes(ch, reqs, who) ==
  LET about(m)  == {i \in DOMAIN reqs : reqs[i].mode = m /\ TakesEffect(reqs[i])}
      oper(f)   == {i \in about("o") : who[reqs[i].arg] = f}
      last(S)   == reqs[CHOOSE i \in S : \A j \in S : j <= i]
      flag(m, old)   == IF about(m) = {} THEN old ELSE last(about(m)).sign = "+"
      isOperator(f)  == IF oper(f) = {} THEN f \in ch.ops ELSE last(oper(f)).sign = "+"
  IN  [ch EXCEPT
         !.inviteOnly = flag("i", @),
         !.topicLock  = flag("t", @),
         !.key   = IF about("k") = {} THEN @ ELSE last(about("k")).arg,
         !.limit = IF about("l") = {} THEN @
                   ELSE IF last(about("l")).sign = "+" THEN LimitOf[last(about("l")).arg]
                   ELSE 0,
         !.ops   = {f \in ch.members \cup ch.ops : isOperator(f)}]

\* Mutant: a letter without an argument is skipped, needed or not.
AnnouncedMutant(reqs) == Kept(reqs, {r \in Range(reqs) : r.arg # Empty})

\* The letters of the MODE message, each with its argument.
Announced(reqs) == Kept(reqs, {r \in Range(reqs) : TakesEffect(r)})

=============================================================================
