----------------------------- MODULE EventFeed -----------------------------
(***************************************************************************)
(* What the whole system promises the programs that watch: a program is    *)
(* given events of directories it has asked for, each at most once.        *)
(* Events other than WRITE come in the order in which the node reported    *)
(* them.  WRITE is debounced, so it may come late and an earlier one may   *)
(* never come.  Any event may be missing: the feed is not reliable.        *)
(***************************************************************************)
EXTENDS Naturals, SequencesExt

CONSTANTS Clients,   \* the watching programs
          Events     \* what a node reports: records with a dir and an op

VARIABLES reports,   \* everything reported, in order
          asked,     \* the directories each program has asked for
          taken      \* the reports each program has been given, in order

vars == <<reports, asked, taken>>

Init ==
  /\ reports = <<>>
  /\ asked = [c \in Clients |-> {}]
  /\ taken = [c \in Clients |-> <<>>]

Ask(c) ==
  /\ \E more \in SUBSET {e.dir : e \in Events} : asked' = [asked EXCEPT ![c] = @ \cup more]
  /\ UNCHANGED <<reports, taken>>

Report(e) ==
  /\ reports' = Append(reports, e)
  /\ UNCHANGED <<asked, taken>>

InOrder(c, i) ==
  reports[i].op = "WRITE" \/ \A j \in ToSet(taken[c]) : reports[j].op = "WRITE" \/ j < i

Take(c, i) ==
  /\ i \notin ToSet(taken[c])
  /\ reports[i].dir \in asked[c]
  /\ InOrder(c, i)
  /\ taken' = [taken EXCEPT ![c] = Append(@, i)]
  /\ UNCHANGED <<reports, asked>>

Next ==
  \/ \E c \in Clients : Ask(c) \/ \E i \in DOMAIN reports : Take(c, i)
  \/ \E e \in Events : Report(e)

Spec == Init /\ [][Next]_vars
=============================================================================
