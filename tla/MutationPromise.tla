--------------------------- MODULE MutationPromise ---------------------------
(***************************************************************************)
(* What a session-changing tool promises its caller, without connections,  *)
(* requests or failures.  A call has one or two changes to make, in order. *)
(* Each takes effect at most once.  The call reports once; a report        *)
(* commits the future too: after "done" everything has happened and after  *)
(* "untouched" nothing will, while "unclear" leaves open what has happened *)
(* and what still may.                                                     *)
(***************************************************************************)
EXTENDS Naturals

CONSTANT Calls

VARIABLES
  need,     \* the changes the call has to make
  effects,  \* how often each change took effect
  report    \* what the call told its caller

promiseVars == <<need, effects, report>>

Init ==
  /\ need \in [Calls -> {{1}, {1, 2}}]
  /\ effects = [c \in Calls |-> [i \in 1 .. 2 |-> 0]]
  /\ report = [c \in Calls |-> "none"]

TakesEffect(c, i) ==
  /\ i \in need[c]
  /\ effects[c][i] = 0
  /\ \A j \in need[c] : j < i => effects[c][j] = 1
  /\ report[c] \in {"none", "unclear"}
  /\ effects' = [effects EXCEPT ![c][i] = 1]
  /\ UNCHANGED <<need, report>>

Report(c, r) ==
  /\ report[c] = "none"
  /\ r = "done" => \A i \in need[c] : effects[c][i] = 1
  /\ r = "untouched" => \A i \in need[c] : effects[c][i] = 0
  /\ report' = [report EXCEPT ![c] = r]
  /\ UNCHANGED <<need, effects>>

Next ==
  \E c \in Calls :
    \/ \E i \in 1 .. 2 : TakesEffect(c, i)
    \/ \E r \in {"done", "untouched", "unclear"} : Report(c, r)

Spec == Init /\ [][Next]_promiseVars
=============================================================================
