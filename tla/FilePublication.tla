--------------------------- MODULE FilePublication ---------------------------
(***************************************************************************)
(* How a command puts a file at a path and takes it away: the Desktop      *)
(* descriptor (publish_descriptor and remove_expected_descriptor of        *)
(* desktop/descriptor.rs) and the product's managed files (reconcile_file  *)
(* and remove_owned_file of install/paths.rs).                             *)
(*                                                                         *)
(* Several commands run at the same time, the user and other programs put  *)
(* files of their own at the path, a process can be killed and the machine *)
(* can lose power between two steps.  A step is one system call.  A change *)
(* of the directory is visible at once and survives a loss of power only   *)
(* when the directory has been synced since; until then the path may come  *)
(* back as it was at any time since the last sync.                         *)
(***************************************************************************)
EXTENDS Naturals

CONSTANTS
  Processes,
  Docs,        \* documents the commands write
  None, Foreign, Torn,
  MaxCalls,    \* bound: calls in a behaviour
  MaxForeign,  \* bound: steps of others at the path
  MaxFaults    \* bound: failed system calls, kills and losses of power

ASSUME FileAssumption ==
  /\ Docs \intersect {None, Foreign, Torn} = {}
  /\ None # Foreign /\ None # Torn /\ Foreign # Torn
  /\ None \notin Processes
  /\ {MaxCalls, MaxForeign, MaxFaults} \subseteq Nat

VARIABLES
  kind,        \* "descriptor" or "managed": which pair of operations
  slot,        \* what a reader of the path finds
  disk,        \* what the path may hold after a loss of power
  stage,       \* the stage file of every process
  pc,          \* the next system call of every process
  call,        \* the last call of every process
  last,        \* history: whose step changed the path last
  spent        \* calls, steps of others and faults so far: only for the bounds

vars == <<kind, slot, disk, stage, pc, call, last, spent>>

Contents == Docs \union {None, Foreign, Torn}
Publications == {"publish", "reconcile"}
Operations(k) == IF k = "descriptor" THEN {"publish", "remove"} ELSE {"reconcile", "remove_owned"}
Steps == {"idle", "inspect", "stage", "write", "sync", "rename", "cleanup",
          "cleanup_sync", "sync_parent", "recheck", "unlink", "removed"}
Outcomes == {"changed", "unchanged", "clean", "residue_stage", "residue_final", "failed",
             "killed"}

Spend(what) ==
  /\ spent[what] < [calls |-> MaxCalls, foreign |-> MaxForeign, faults |-> MaxFaults][what]
  /\ spent' = [spent EXCEPT ![what] = @ + 1]

Goto(p, step) == pc' = [pc EXCEPT ![p] = step] /\ UNCHANGED call

Returns(p, outcome) ==
  /\ pc' = [pc EXCEPT ![p] = "idle"]
  /\ call' = [call EXCEPT ![p].outcome = outcome]

\* A failure before anything was made: a publication says that nothing is left.
Failure(p) == IF call[p].op = "publish" THEN "clean" ELSE "failed"

Init ==
  /\ kind \in {"descriptor", "managed"}
  /\ slot \in Contents \ {Torn}
  /\ disk = {slot}
  /\ stage = [p \in Processes |-> "none"]
  /\ pc = [p \in Processes |-> "idle"]
  /\ call = [p \in Processes |-> [op |-> "none", doc |-> None, outcome |-> "none"]]
  /\ last = None
  /\ spent = [calls |-> 0, foreign |-> 0, faults |-> 0]

\* A mistake: stage files of one name, so that a process finds that of an earlier one.
BeginOverOldStage(p) ==
  /\ pc[p] = "idle"
  /\ Spend("calls")
  /\ \E op \in Operations(kind), doc \in Docs :
       call' = [call EXCEPT ![p] = [op |-> op, doc |-> doc, outcome |-> "running"]]
  /\ pc' = [pc EXCEPT ![p] = "inspect"]
  /\ UNCHANGED <<kind, slot, disk, stage, last>>

\* A new process: the stage file of an earlier one has another name and stays.
Begin(p) ==
  /\ pc[p] = "idle"
  /\ Spend("calls")
  /\ \E op \in Operations(kind), doc \in Docs :
       call' = [call EXCEPT ![p] = [op |-> op, doc |-> doc, outcome |-> "running"]]
  /\ pc' = [pc EXCEPT ![p] = "inspect"]
  /\ stage' = [stage EXCEPT ![p] = "none"]
  /\ UNCHANGED <<kind, slot, disk, last>>

-----------------------------------------------------------------------------
(* Looking at the path.                                                    *)

\* Absent, or its own document there already, or something else.
InspectPublish(p) ==
  /\ call[p].op = "publish"
  /\ \/ slot = None /\ Goto(p, "stage")
     \/ slot = call[p].doc /\ Returns(p, "unchanged")
     \/ slot \notin {None, call[p].doc} /\ Returns(p, "clean")

InspectRemove(p) ==
  /\ call[p].op = "remove"
  /\ \/ slot = None /\ Returns(p, "unchanged")
     \/ slot = call[p].doc /\ Goto(p, "unlink")
     \/ slot \notin {None, call[p].doc} /\ Returns(p, "failed")

\* A managed file of the right owner and type is replaced whatever it says.
InspectReconcile(p) ==
  /\ call[p].op = "reconcile"
  /\ \/ slot = call[p].doc /\ Returns(p, "unchanged")
     \/ slot # call[p].doc /\ Goto(p, "stage")
     \/ slot \notin {None, call[p].doc} /\ Returns(p, "failed")

\* Owner, type and mode are checked; what the file says is not.
InspectRemoveOwned(p) ==
  /\ call[p].op = "remove_owned"
  /\ \/ slot = None /\ Returns(p, "unchanged")
     \/ slot # None /\ (Goto(p, "unlink") \/ Returns(p, "failed"))

Inspect(p) ==
  /\ pc[p] = "inspect"
  /\ InspectPublish(p) \/ InspectRemove(p) \/ InspectReconcile(p) \/ InspectRemoveOwned(p)
  /\ UNCHANGED <<kind, slot, disk, stage, last, spent>>

\* The directory or the file cannot be looked at, or the stage file not be made.
EarlyFailure(p) ==
  /\ pc[p] \in {"inspect", "stage"}
  /\ Spend("faults")
  /\ Returns(p, Failure(p))
  /\ UNCHANGED <<kind, slot, disk, stage, last>>

-----------------------------------------------------------------------------
(* Publishing: stage, write, sync, rename, sync the directory.             *)

Fills(p, step, content, next) ==
  /\ pc[p] = step
  /\ stage' = [stage EXCEPT ![p] = content]
  /\ Goto(p, next)
  /\ UNCHANGED <<kind, slot, disk, last, spent>>

OpenStage(p) == Fills(p, "stage", "empty", "write")

\* A mistake: the stage file is renamed without a sync.
WriteStageUnsynced(p) == Fills(p, "write", "written", "rename")

WriteStage(p) == Fills(p, "write", "written", "sync")

SyncStage(p) == Fills(p, "sync", "synced", "rename")

\* The stage file takes the path; unsynced data could come back torn.
Renames(p) ==
  /\ slot' = call[p].doc
  /\ disk' = disk \union {call[p].doc} \union IF stage[p] = "synced" THEN {} ELSE {Torn}
  /\ stage' = [stage EXCEPT ![p] = "none"]
  /\ last' = p
  /\ Goto(p, "sync_parent")

\* A mistake: the rename replaces whatever is at the path.
RenameReplacing(p) ==
  /\ pc[p] = "rename"
  /\ Renames(p)
  /\ UNCHANGED <<kind, spent>>

\* RENAME_NOREPLACE for a descriptor; a managed file is replaced.
Rename(p) ==
  /\ pc[p] = "rename"
  /\ call[p].op = "publish" => slot = None
  /\ Renames(p)
  /\ UNCHANGED <<kind, spent>>

\* A mistake: the stage file is forgotten when the path is taken.
RenameRefusedAtOnce(p) ==
  /\ pc[p] = "rename"
  /\ call[p].op = "publish"
  /\ slot # None
  /\ Returns(p, "clean")
  /\ UNCHANGED <<kind, slot, disk, stage, last, spent>>

RenameRefused(p) ==
  /\ pc[p] = "rename"
  /\ call[p].op = "publish"
  /\ slot # None
  /\ Goto(p, "cleanup")
  /\ UNCHANGED <<kind, slot, disk, stage, last, spent>>

StageFails(p) ==
  /\ pc[p] \in {"write", "sync", "rename"}
  /\ Spend("faults")
  /\ Goto(p, "cleanup")
  /\ UNCHANGED <<kind, slot, disk, stage, last>>

\* The stage file is removed: by cleanup_descriptor_stage, or because a temporary
\* file of reconcile_file drops itself, without a sync.
Cleanup(p) ==
  /\ pc[p] = "cleanup"
  /\ stage' = [stage EXCEPT ![p] = "none"]
  /\ \/ call[p].op = "publish" /\ Goto(p, "cleanup_sync")
     \/ call[p].op # "publish" /\ Returns(p, "failed")
  /\ UNCHANGED <<kind, slot, disk, last, spent>>

\* cleanup_descriptor_stage syncs the directory before it says that nothing is left.
CleanupSync(p) ==
  /\ pc[p] = "cleanup_sync"
  /\ disk' = {slot}
  /\ Returns(p, "clean")
  /\ UNCHANGED <<kind, slot, stage, last, spent>>

\* The stage file cannot be removed, or that it is gone cannot be proved: its removal
\* is not synced, or the look for it after the sync fails.
CleanupFails(p) ==
  /\ pc[p] \in {"cleanup", "cleanup_sync"}
  /\ Spend("faults")
  /\ disk' \in {disk} \union IF pc[p] = "cleanup_sync" THEN {{slot}} ELSE {}
  /\ Returns(p, IF call[p].op = "publish" THEN "residue_stage" ELSE "failed")
  /\ UNCHANGED <<kind, slot, stage, last>>

\* A mistake: a removal is not synced.
SyncParentOfPublication(p) ==
  /\ pc[p] = "sync_parent"
  /\ disk' = IF call[p].op = "remove" THEN disk ELSE {slot}
  /\ \/ call[p].op = "publish" /\ Goto(p, "recheck")
     \/ call[p].op # "publish" /\ Returns(p, "changed")
  /\ UNCHANGED <<kind, slot, stage, last, spent>>

\* The directory is synced with all that it holds by now, others' changes too.
SyncParent(p) ==
  /\ pc[p] = "sync_parent"
  /\ disk' = {slot}
  /\ \/ call[p].op = "publish" /\ Goto(p, "recheck")
     \/ call[p].op # "publish" /\ Returns(p, "changed")
  /\ UNCHANGED <<kind, slot, stage, last, spent>>

Recheck(p) ==
  /\ pc[p] = "recheck"
  /\ Returns(p, IF slot = call[p].doc THEN "changed" ELSE "residue_final")
  /\ UNCHANGED <<kind, slot, disk, stage, last, spent>>

\* A mistake: only a synced rename counts as a rename.
LateFailureBySync(p) ==
  /\ pc[p] \in {"sync_parent", "recheck"}
  /\ Spend("faults")
  /\ Returns(p, IF call[p].op # "publish" THEN "failed"
                ELSE IF pc[p] = "recheck" THEN "residue_final" ELSE "residue_stage")
  /\ UNCHANGED <<kind, slot, disk, stage, last>>

\* After the rename a publication that fails names the final path as left behind.
LateFailure(p) ==
  /\ pc[p] \in {"sync_parent", "recheck"}
  /\ Spend("faults")
  /\ Returns(p, IF call[p].op = "publish" THEN "residue_final" ELSE "failed")
  /\ UNCHANGED <<kind, slot, disk, stage, last>>

-----------------------------------------------------------------------------
(* Removing: by name, whatever has come to be there since the inspection.  *)

Unlink(p) ==
  /\ pc[p] = "unlink"
  /\ slot # None
  /\ slot' = None
  /\ disk' = disk \union {None}
  /\ last' = p
  /\ Goto(p, IF call[p].op = "remove" THEN "sync_parent" ELSE "removed")
  /\ UNCHANGED <<kind, stage, spent>>

NothingToUnlink(p) ==
  /\ pc[p] = "unlink"
  /\ slot = None
  /\ Returns(p, "failed")
  /\ UNCHANGED <<kind, slot, disk, stage, last, spent>>

UnlinkFails(p) ==
  /\ pc[p] = "unlink"
  /\ Spend("faults")
  /\ Returns(p, "failed")
  /\ UNCHANGED <<kind, slot, disk, stage, last>>

\* remove_owned_file does not sync the directory.
RemoveReturns(p) ==
  /\ pc[p] = "removed"
  /\ Returns(p, "changed")
  /\ UNCHANGED <<kind, slot, disk, stage, last, spent>>

-----------------------------------------------------------------------------
(* Others.                                                                 *)

\* Another program creates, replaces or removes the file, whole and in one step.
OthersChange ==
  /\ Spend("foreign")
  /\ slot' \in {None, Foreign} \ {slot}
  /\ disk' = disk \union {slot'}
  /\ last' = None
  /\ UNCHANGED <<kind, stage, pc, call>>

Killed(p) ==
  /\ pc[p] # "idle"
  /\ Spend("faults")
  /\ Returns(p, "killed")
  /\ UNCHANGED <<kind, slot, disk, stage, last>>

PowerLoss ==
  /\ Spend("faults")
  /\ slot' \in disk
  /\ disk' = {slot'}
  /\ pc' = [p \in Processes |-> "idle"]
  /\ call' = [p \in Processes |-> IF pc[p] = "idle" THEN call[p]
                                  ELSE [call[p] EXCEPT !.outcome = "killed"]]
  /\ last' = None
  /\ UNCHANGED <<kind, stage>>

Publishing(p) ==
  \/ OpenStage(p) \/ WriteStage(p) \/ SyncStage(p) \/ Rename(p) \/ RenameRefused(p)
  \/ StageFails(p) \/ Cleanup(p) \/ CleanupSync(p) \/ CleanupFails(p)
  \/ SyncParent(p) \/ Recheck(p) \/ LateFailure(p)

Removing(p) == Unlink(p) \/ NothingToUnlink(p) \/ UnlinkFails(p) \/ RemoveReturns(p)

Next ==
  \/ \E p \in Processes :
       Begin(p) \/ Inspect(p) \/ EarlyFailure(p) \/ Publishing(p) \/ Removing(p) \/ Killed(p)
  \/ OthersChange
  \/ PowerLoss

Spec == Init /\ [][Next]_vars

-----------------------------------------------------------------------------
(* Properties.                                                             *)

\* A process is where its call and its stage file can be.
StepFits(p) ==
  /\ call[p].outcome = "running" <=> pc[p] # "idle"
  /\ pc[p] # "idle" => call[p].op \in Operations(kind) /\ call[p].doc \in Docs
  /\ pc[p] \in {"inspect", "stage", "cleanup_sync", "sync_parent", "recheck", "unlink",
                "removed"} =>
       stage[p] = "none"
  /\ pc[p] = "write" => stage[p] = "empty"
  /\ pc[p] = "sync" => stage[p] = "written"
  /\ pc[p] = "rename" => stage[p] = "synced"
  /\ pc[p] \in {"stage", "write", "sync", "rename", "cleanup"} => call[p].op \in Publications
  /\ pc[p] = "sync_parent" => call[p].op # "remove_owned"
  /\ pc[p] \in {"cleanup_sync", "recheck"} => call[p].op = "publish"
  /\ pc[p] = "unlink" => call[p].op \notin Publications
  /\ pc[p] = "removed" => call[p].op = "remove_owned"

\* Every variable has its type, and every process is at a step of its call.
FileTypeOK ==
  /\ kind \in {"descriptor", "managed"}
  /\ slot \in Contents
  /\ disk \subseteq Contents
  /\ stage \in [Processes -> {"none", "empty", "written", "synced"}]
  /\ pc \in [Processes -> Steps]
  /\ call \in [Processes -> [op : {"none", "publish", "remove", "reconcile", "remove_owned"},
                             doc : Docs \union {None},
                             outcome : Outcomes \union {"none", "running"}]]
  /\ last \in Processes \union {None}
  /\ spent \in [calls : Nat, foreign : Nat, faults : Nat]
  /\ \A p \in Processes : StepFits(p)

\* Nobody ever finds a partly written file at the path, not even after a loss of
\* power: a stage file is synced before it takes the path (publish_descriptor_internal,
\* atomic_write).
NeverTorn == Torn \notin disk \union {slot}

\* What a call that changes the path leaves there.
Left(p) == IF call[p].op = "remove" THEN None ELSE call[p].doc

\* A publication, a replacement or a removal of the descriptor that reports a change
\* has made it for good: as long as nobody touches the path, it cannot come back
\* otherwise.  Not so for remove_owned, which syncs nothing, nor for a call that
\* found its document there already, whose directory another may not have synced.
SuccessIsDurable ==
  \A p \in Processes :
    call[p].outcome = "changed" /\ call[p].op # "remove_owned" /\ last = p =>
      disk = {slot} /\ slot = Left(p)

\* What a failed publication says it leaves is all that it leaves: a stage file only
\* when it names one, and otherwise none (DescriptorPublicationResidue).
ResidueIsNamed ==
  \A p \in Processes :
    /\ call[p].op = "publish"
    /\ call[p].outcome \notin {"running", "killed", "residue_stage"}
    => stage[p] = "none"

\* What another program put at the descriptor's path is never replaced, and removed
\* only by a removal that had found its own document there before (RENAME_NOREPLACE,
\* remove_expected_descriptor).
ForeignSurvives ==
  [][kind = "descriptor" /\ slot = Foreign /\ slot' # Foreign =>
       \/ UNCHANGED <<pc, call>>
       \/ slot' \in disk /\ disk' = {slot'}
       \/ \E p \in Processes : pc[p] = "unlink" /\ pc'[p] = "sync_parent"]_vars

\* The refinement mapping to FileSlot: how far a call has come.
PhaseOf(step) ==
  CASE step = "idle" -> "idle"
    [] step \in {"sync_parent", "recheck", "removed"} -> "acted"
    [] step = "unlink" -> "seen"
    [] OTHER -> "begun"

Phase == [p \in Processes |-> PhaseOf(pc[p])]

Slot == INSTANCE FileSlot WITH phase <- Phase

\* Calls implement the promise of FileSlot: one change at most, in one step, and an
\* outcome that tells whether it was made (descriptor.rs, paths.rs).
Atomic == Slot!Spec
===============================================================================
