------------------------------- MODULE FileSlot -------------------------------
(***************************************************************************)
(* What publishing, replacing and removing a file promise to the commands  *)
(* that call them, without stage files, directories or synchronisation.    *)
(*                                                                         *)
(* A call changes the path at most once and in one step.  publish fills an *)
(* empty path only; remove takes a document away only after it has seen    *)
(* its own there.  The outcome says whether the path was changed.          *)
(***************************************************************************)
CONSTANTS
  Processes,
  Docs,        \* documents the commands write
  None, Foreign, Torn

VARIABLES
  slot,        \* what a reader of the path finds
  call,        \* the last call of every process
  phase        \* how far that call has come

vars == <<slot, call, phase>>

Contents == Docs \union {None, Foreign, Torn}
Operations == {"publish", "remove", "reconcile", "remove_owned"}
Outcomes == {"changed", "unchanged", "clean", "residue_stage", "residue_final", "failed",
             "killed"}

Init ==
  /\ slot \in Contents \ {Torn}
  /\ call = [p \in Processes |-> [op |-> "none", doc |-> None, outcome |-> "none"]]
  /\ phase = [p \in Processes |-> "idle"]

Begin(p) ==
  /\ phase[p] = "idle"
  /\ \E op \in Operations, doc \in Docs :
       call' = [call EXCEPT ![p] = [op |-> op, doc |-> doc, outcome |-> "running"]]
  /\ phase' = [phase EXCEPT ![p] = "begun"]
  /\ UNCHANGED slot

\* A removal sees what it may remove: its own document, or any file of the user's.
See(p) ==
  /\ phase[p] = "begun"
  /\ \/ call[p].op = "remove" /\ slot = call[p].doc
     \/ call[p].op = "remove_owned" /\ slot # None
  /\ phase' = [phase EXCEPT ![p] = "seen"]
  /\ UNCHANGED <<slot, call>>

Act(p) ==
  /\ \/ /\ phase[p] = "begun"
        /\ \/ call[p].op = "publish" /\ slot = None
           \/ call[p].op = "reconcile"
        /\ slot' = call[p].doc
     \/ /\ phase[p] = "seen"
        /\ slot' = None
  /\ phase' = [phase EXCEPT ![p] = "acted"]
  /\ UNCHANGED call

\* What an outcome says of the path.
Says(outcome, acted) ==
  CASE outcome \in {"changed", "residue_final"} -> acted
    [] outcome \in {"unchanged", "clean", "residue_stage"} -> ~ acted
    [] OTHER -> TRUE

Return(p) ==
  /\ phase[p] # "idle"
  /\ \E outcome \in Outcomes :
       /\ Says(outcome, phase[p] = "acted")
       /\ call' = [call EXCEPT ![p].outcome = outcome]
  /\ phase' = [phase EXCEPT ![p] = "idle"]
  /\ UNCHANGED slot

\* Somebody else writes or removes the file.
Others ==
  /\ slot' \in {None, Foreign}
  /\ UNCHANGED <<call, phase>>

\* The machine loses power: every call ends, and the path may be as it was earlier.
PowerLoss ==
  /\ slot' \in Contents
  /\ phase' = [p \in Processes |-> "idle"]
  /\ call' = [p \in Processes |-> IF phase[p] = "idle" THEN call[p]
                                  ELSE [call[p] EXCEPT !.outcome = "killed"]]

Next ==
  \/ \E p \in Processes : Begin(p) \/ See(p) \/ Act(p) \/ Return(p)
  \/ Others
  \/ PowerLoss

Spec == Init /\ [][Next]_vars
===============================================================================
