------------------------ MODULE FilePublicationProofs ------------------------
(***************************************************************************)
(* What publishing, replacing and removing a file guarantee for any number *)
(* of processes, documents, calls, failures and losses of power.           *)
(***************************************************************************)
EXTENDS FilePublication, TLAPS

\* A call of process p that changed the path last has left its change there, and
\* once the directory is synced nothing else can come back.
ChangeLasts(p) ==
  last = p =>
    /\ pc[p] = "sync_parent" => slot = Left(p)
    /\ pc[p] = "recheck" => disk = {slot} /\ slot = Left(p)
    /\ call[p].outcome = "changed" /\ call[p].op # "remove_owned" =>
         disk = {slot} /\ slot = Left(p)

\* Only a call that was killed, or that says so, leaves a stage file behind.
StageIsNamed(p) ==
  call[p].op = "publish" /\ call[p].outcome \notin {"running", "killed", "residue_stage"} =>
    stage[p] = "none"

FileInv ==
  FileTypeOK /\ NeverTorn /\ \A p \in Processes : ChangeLasts(p) /\ StageIsNamed(p)

ProcessStep(p) ==
  Begin(p) \/ Inspect(p) \/ EarlyFailure(p) \/ Publishing(p) \/ Removing(p) \/ Killed(p)

-----------------------------------------------------------------------------

\* The counters of the bounds stay natural numbers.
LEMMA SpendType ==
  ASSUME FileTypeOK, NEW what \in {"calls", "foreign", "faults"}, Spend(what)
  PROVE  spent' \in [calls : Nat, foreign : Nat, faults : Nat]
  BY DEF Spend, FileTypeOK

\* A process whose variables a step leaves alone is where it was.
LEMMA OthersFit ==
  ASSUME FileTypeOK, NEW p \in Processes,
         pc'[p] = pc[p], call'[p] = call[p], stage'[p] = stage[p], kind' = kind
  PROVE  StepFits(p)'
  BY DEF FileTypeOK, StepFits

\* Going to a step, and returning, keep the types and concern one process.
LEMMA GotoType ==
  ASSUME FileTypeOK, NEW p \in Processes, NEW step \in Steps, Goto(p, step)
  PROVE  /\ pc' \in [Processes -> Steps] /\ call' = call
         /\ pc'[p] = step /\ \A q \in Processes \ {p} : pc'[q] = pc[q]
  BY DEF Goto, FileTypeOK

LEMMA ReturnsType ==
  ASSUME FileTypeOK, NEW p \in Processes, NEW outcome \in Outcomes, Returns(p, outcome)
  PROVE  /\ pc' \in [Processes -> Steps] /\ pc'[p] = "idle"
         /\ call' \in [Processes ->
                         [op : {"none", "publish", "remove", "reconcile", "remove_owned"},
                          doc : Docs \union {None},
                          outcome : Outcomes \union {"none", "running"}]]
         /\ \A q \in Processes \ {p} : pc'[q] = pc[q] /\ call'[q] = call[q]
  BY DEF Returns, FileTypeOK, Steps

\* Every step of one process keeps the types.
LEMMA ProcessTyping ==
  ASSUME FileTypeOK, NEW p \in Processes, ProcessStep(p)
  PROVE  FileTypeOK'
  <1> USE FileAssumption DEF Goto, Returns, Operations, Publications
  <1> DEFINE Typed ==
        /\ kind' = kind
        /\ slot' \in Contents
        /\ disk' \subseteq Contents
        /\ stage' \in [Processes -> {"none", "empty", "written", "synced"}]
        /\ pc' \in [Processes -> Steps]
        /\ call' \in [Processes ->
                       [op : {"none", "publish", "remove", "reconcile", "remove_owned"},
                        doc : Docs \union {None},
                        outcome : Outcomes \union {"none", "running"}]]
        /\ last' \in Processes \union {None}
        /\ spent' \in [calls : Nat, foreign : Nat, faults : Nat]
        /\ \A q \in Processes \ {p} :
             pc'[q] = pc[q] /\ call'[q] = call[q] /\ stage'[q] = stage[q]
  <1>1. ASSUME Begin(p) PROVE Typed /\ StepFits(p)'
    <2>1. spent' \in [calls : Nat, foreign : Nat, faults : Nat]
      BY <1>1, SpendType DEF Begin
    <2>2. StepFits(p)'
      BY <1>1 DEF Begin, FileTypeOK, StepFits
    <2>3. Typed
      BY <2>1, <1>1 DEF Begin, FileTypeOK, StepFits, Contents, Steps, Outcomes
    <2> QED
      BY <2>2, <2>3
  <1>2. ASSUME Inspect(p) PROVE Typed /\ StepFits(p)'
    <2>1. StepFits(p)'
      BY <1>2 DEF Inspect, InspectPublish, InspectRemove, InspectReconcile,
         InspectRemoveOwned, FileTypeOK, StepFits
    <2>2. \/ Goto(p, "stage") \/ Goto(p, "unlink")
          \/ Returns(p, "unchanged") \/ Returns(p, "clean") \/ Returns(p, "failed")
      BY <1>2 DEF Inspect, InspectPublish, InspectRemove, InspectReconcile,
         InspectRemoveOwned
    <2>3. UNCHANGED <<kind, slot, disk, stage, last, spent>>
      BY <1>2 DEF Inspect
    <2>4. ASSUME NEW step \in {"stage", "unlink"}, Goto(p, step) PROVE Typed
      BY <2>3, <2>4, GotoType DEF FileTypeOK, Steps
    <2>5. ASSUME NEW outcome \in {"unchanged", "clean", "failed"}, Returns(p, outcome)
          PROVE  Typed
      BY <2>3, <2>5, ReturnsType DEF FileTypeOK, Outcomes
    <2> QED
      BY <2>1, <2>2, <2>4, <2>5
  <1>3. ASSUME EarlyFailure(p) PROVE Typed /\ StepFits(p)'
    <2>1. spent' \in [calls : Nat, foreign : Nat, faults : Nat]
      BY <1>3, SpendType DEF EarlyFailure
    <2>2. StepFits(p)'
      BY <1>3 DEF EarlyFailure, Failure, FileTypeOK, StepFits
    <2>3. Typed
      BY <2>1, <1>3 DEF EarlyFailure, Failure, FileTypeOK, StepFits, Contents, Steps, Outcomes
    <2> QED
      BY <2>2, <2>3
  <1>4. ASSUME OpenStage(p) PROVE Typed /\ StepFits(p)'
    <2>1. StepFits(p)'
      BY <1>4 DEF OpenStage, Fills, FileTypeOK, StepFits
    <2>2. Typed
      BY <1>4 DEF OpenStage, Fills, FileTypeOK, StepFits, Contents, Steps, Outcomes
    <2> QED
      BY <2>1, <2>2
  <1>5. ASSUME WriteStage(p) PROVE Typed /\ StepFits(p)'
    <2>1. StepFits(p)'
      BY <1>5 DEF WriteStage, Fills, FileTypeOK, StepFits
    <2>2. Typed
      BY <1>5 DEF WriteStage, Fills, FileTypeOK, StepFits, Contents, Steps, Outcomes
    <2> QED
      BY <2>1, <2>2
  <1>6. ASSUME SyncStage(p) PROVE Typed /\ StepFits(p)'
    <2>1. StepFits(p)'
      BY <1>6 DEF SyncStage, Fills, FileTypeOK, StepFits
    <2>2. Typed
      BY <1>6 DEF SyncStage, Fills, FileTypeOK, StepFits, Contents, Steps, Outcomes
    <2> QED
      BY <2>1, <2>2
  <1>7. ASSUME Rename(p) PROVE Typed /\ StepFits(p)'
    <2>1. StepFits(p)'
      BY <1>7 DEF Rename, Renames, FileTypeOK, StepFits
    <2>2. Typed
      BY <1>7 DEF Rename, Renames, FileTypeOK, StepFits, Contents, Steps, Outcomes
    <2> QED
      BY <2>1, <2>2
  <1>8. ASSUME RenameRefused(p) PROVE Typed /\ StepFits(p)'
    <2>1. StepFits(p)'
      BY <1>8 DEF RenameRefused, FileTypeOK, StepFits
    <2>2. Typed
      BY <1>8 DEF RenameRefused, FileTypeOK, StepFits, Contents, Steps, Outcomes
    <2> QED
      BY <2>1, <2>2
  <1>9. ASSUME StageFails(p) PROVE Typed /\ StepFits(p)'
    <2>1. spent' \in [calls : Nat, foreign : Nat, faults : Nat]
      BY <1>9, SpendType DEF StageFails
    <2>2. StepFits(p)'
      BY <1>9 DEF StageFails, FileTypeOK, StepFits
    <2>3. Typed
      BY <2>1, <1>9 DEF StageFails, FileTypeOK, StepFits, Contents, Steps, Outcomes
    <2> QED
      BY <2>2, <2>3
  <1>10. ASSUME Cleanup(p) PROVE Typed /\ StepFits(p)'
    <2>1. StepFits(p)'
      BY <1>10 DEF Cleanup, FileTypeOK, StepFits
    <2>2. /\ stage' \in [Processes -> {"none", "empty", "written", "synced"}]
          /\ \A q \in Processes \ {p} : stage'[q] = stage[q]
          /\ UNCHANGED <<kind, slot, disk, last, spent>>
      BY <1>10 DEF Cleanup, FileTypeOK
    <2>3. Goto(p, "cleanup_sync") \/ Returns(p, "failed")
      BY <1>10 DEF Cleanup
    <2>4. ASSUME NEW step \in {"cleanup_sync"}, Goto(p, step) PROVE Typed
      BY <2>2, <2>4, GotoType DEF FileTypeOK, Steps
    <2>5. ASSUME NEW outcome \in {"failed"}, Returns(p, outcome) PROVE Typed
      BY <2>2, <2>5, ReturnsType DEF FileTypeOK, Outcomes
    <2> QED
      BY <2>1, <2>3, <2>4, <2>5
  <1>11. ASSUME CleanupFails(p) PROVE Typed /\ StepFits(p)'
    <2>1. spent' \in [calls : Nat, foreign : Nat, faults : Nat]
      BY <1>11, SpendType DEF CleanupFails
    <2>2. StepFits(p)'
      BY <1>11 DEF CleanupFails, FileTypeOK, StepFits
    <2>3. disk' \subseteq Contents /\ UNCHANGED <<kind, slot, stage, last>>
      BY <1>11 DEF CleanupFails, FileTypeOK
    <2>4. PICK outcome \in {"residue_stage", "failed"} : Returns(p, outcome)
      BY <1>11 DEF CleanupFails
    <2>5. Typed
      BY <2>1, <2>3, <2>4, ReturnsType DEF FileTypeOK, Outcomes
    <2> QED
      BY <2>2, <2>5
  <1>12. ASSUME SyncParent(p) PROVE Typed /\ StepFits(p)'
    <2>1. StepFits(p)'
      BY <1>12 DEF SyncParent, FileTypeOK, StepFits
    <2>2. /\ disk' \subseteq Contents
          /\ UNCHANGED <<kind, slot, stage, last, spent>>
      BY <1>12 DEF SyncParent, FileTypeOK, Contents
    <2>3. Goto(p, "recheck") \/ Returns(p, "changed")
      BY <1>12 DEF SyncParent
    <2>4. ASSUME NEW step \in {"recheck"}, Goto(p, step) PROVE Typed
      BY <2>2, <2>4, GotoType DEF FileTypeOK, Steps
    <2>5. ASSUME NEW outcome \in {"changed"}, Returns(p, outcome) PROVE Typed
      BY <2>2, <2>5, ReturnsType DEF FileTypeOK, Outcomes
    <2> QED
      BY <2>1, <2>3, <2>4, <2>5
  <1>13. ASSUME Recheck(p) PROVE Typed /\ StepFits(p)'
    <2>1. StepFits(p)'
      BY <1>13 DEF Recheck, FileTypeOK, StepFits
    <2>2. Typed
      BY <1>13 DEF Recheck, FileTypeOK, StepFits, Contents, Steps, Outcomes
    <2> QED
      BY <2>1, <2>2
  <1>14. ASSUME LateFailure(p) PROVE Typed /\ StepFits(p)'
    <2>1. spent' \in [calls : Nat, foreign : Nat, faults : Nat]
      BY <1>14, SpendType DEF LateFailure
    <2>2. StepFits(p)'
      BY <1>14 DEF LateFailure, FileTypeOK, StepFits
    <2>3. Typed
      BY <2>1, <1>14 DEF LateFailure, FileTypeOK, StepFits, Contents, Steps, Outcomes
    <2> QED
      BY <2>2, <2>3
  <1>15. ASSUME Unlink(p) PROVE Typed /\ StepFits(p)'
    <2>1. StepFits(p)'
      BY <1>15 DEF Unlink, FileTypeOK, StepFits
    <2>2. Typed
      BY <1>15 DEF Unlink, FileTypeOK, StepFits, Contents, Steps, Outcomes
    <2> QED
      BY <2>1, <2>2
  <1>16. ASSUME NothingToUnlink(p) PROVE Typed /\ StepFits(p)'
    <2>1. StepFits(p)'
      BY <1>16 DEF NothingToUnlink, FileTypeOK, StepFits
    <2>2. Typed
      BY <1>16 DEF NothingToUnlink, FileTypeOK, StepFits, Contents, Steps, Outcomes
    <2> QED
      BY <2>1, <2>2
  <1>17. ASSUME UnlinkFails(p) PROVE Typed /\ StepFits(p)'
    <2>1. spent' \in [calls : Nat, foreign : Nat, faults : Nat]
      BY <1>17, SpendType DEF UnlinkFails
    <2>2. StepFits(p)'
      BY <1>17 DEF UnlinkFails, FileTypeOK, StepFits
    <2>3. Typed
      BY <2>1, <1>17 DEF UnlinkFails, FileTypeOK, StepFits, Contents, Steps, Outcomes
    <2> QED
      BY <2>2, <2>3
  <1>18. ASSUME RemoveReturns(p) PROVE Typed /\ StepFits(p)'
    <2>1. StepFits(p)'
      BY <1>18 DEF RemoveReturns, FileTypeOK, StepFits
    <2>2. Typed
      BY <1>18 DEF RemoveReturns, FileTypeOK, StepFits, Contents, Steps, Outcomes
    <2> QED
      BY <2>1, <2>2
  <1>19. ASSUME Killed(p) PROVE Typed /\ StepFits(p)'
    <2>1. spent' \in [calls : Nat, foreign : Nat, faults : Nat]
      BY <1>19, SpendType DEF Killed
    <2>2. StepFits(p)'
      BY <1>19 DEF Killed, FileTypeOK, StepFits
    <2>3. Typed
      BY <2>1, <1>19 DEF Killed, FileTypeOK, StepFits, Contents, Steps, Outcomes
    <2> QED
      BY <2>2, <2>3
  <1>20. ASSUME CleanupSync(p) PROVE Typed /\ StepFits(p)'
    <2>1. StepFits(p)'
      BY <1>20 DEF CleanupSync, FileTypeOK, StepFits
    <2>2. Typed
      BY <1>20 DEF CleanupSync, FileTypeOK, StepFits, Contents, Steps, Outcomes
    <2> QED
      BY <2>1, <2>2
  <1>21. Typed /\ StepFits(p)'
    BY <1>1, <1>2, <1>3, <1>4, <1>5, <1>6, <1>7, <1>8, <1>9, <1>10, <1>11, <1>12, <1>13,
       <1>14, <1>15, <1>16, <1>17, <1>18, <1>19, <1>20 DEF ProcessStep, Publishing, Removing
  <1>22. \A q \in Processes \ {p} : StepFits(q)'
    BY <1>21, OthersFit
  <1> QED
    BY <1>21, <1>22 DEF FileTypeOK

\* Every state is well typed: whatever fails, is killed or loses power, each process
\* is at a step that fits its call and its stage file.
THEOREM FileTyping == Spec => []FileTypeOK
  <1>1. Init => FileTypeOK
    BY FileAssumption DEF Init, FileTypeOK, StepFits, Contents, Steps
  <1>2. FileTypeOK /\ [Next]_vars => FileTypeOK'
    <2> SUFFICES ASSUME FileTypeOK, [Next]_vars PROVE FileTypeOK'
      OBVIOUS
    <2>1. CASE OthersChange
      <3>1. spent' \in [calls : Nat, foreign : Nat, faults : Nat]
        BY <2>1, SpendType DEF OthersChange
      <3> QED
        BY <2>1, <3>1, OthersFit DEF OthersChange, FileTypeOK, Contents
    <2>2. CASE PowerLoss
      <3>1. spent' \in [calls : Nat, foreign : Nat, faults : Nat]
        BY <2>2, SpendType DEF PowerLoss
      <3>2. \A p \in Processes : StepFits(p)'
        BY <2>2 DEF PowerLoss, FileTypeOK, StepFits, Operations, Publications
      <3> QED
        BY <2>2, <3>1, <3>2 DEF PowerLoss, FileTypeOK, Contents, Steps, Outcomes
    <2>3. CASE UNCHANGED vars
      BY <2>3 DEF vars, FileTypeOK, StepFits
    <2> QED
      BY <2>1, <2>2, <2>3, ProcessTyping DEF Next, ProcessStep
  <1> QED
    BY <1>1, <1>2, PTL DEF Spec
-----------------------------------------------------------------------------

\* What a step of a process leaves alone.
LEMMA ProcessIsLocal ==
  ASSUME FileTypeOK, NEW p \in Processes, ProcessStep(p), NEW q \in Processes \ {p}
  PROVE  pc'[q] = pc[q] /\ call'[q] = call[q] /\ stage'[q] = stage[q]
  <1> USE DEF FileTypeOK, Goto, Returns
  <1>1. CASE Begin(p)
    BY <1>1 DEF Begin
  <1>2. CASE Inspect(p)
    BY <1>2 DEF Inspect, InspectPublish, InspectRemove, InspectReconcile, InspectRemoveOwned
  <1>3. CASE EarlyFailure(p)
    BY <1>3 DEF EarlyFailure, Failure
  <1>4. CASE OpenStage(p)
    BY <1>4 DEF OpenStage, Fills
  <1>5. CASE WriteStage(p)
    BY <1>5 DEF WriteStage, Fills
  <1>6. CASE SyncStage(p)
    BY <1>6 DEF SyncStage, Fills
  <1>7. CASE Rename(p)
    BY <1>7 DEF Rename, Renames
  <1>8. CASE RenameRefused(p)
    BY <1>8 DEF RenameRefused
  <1>9. CASE StageFails(p)
    BY <1>9 DEF StageFails
  <1>10. CASE Cleanup(p)
    BY <1>10 DEF Cleanup
  <1>11. CASE CleanupFails(p)
    BY <1>11 DEF CleanupFails
  <1>12. CASE SyncParent(p)
    BY <1>12 DEF SyncParent
  <1>13. CASE Recheck(p)
    BY <1>13 DEF Recheck
  <1>14. CASE LateFailure(p)
    BY <1>14 DEF LateFailure
  <1>15. CASE Unlink(p)
    BY <1>15 DEF Unlink
  <1>16. CASE NothingToUnlink(p)
    BY <1>16 DEF NothingToUnlink
  <1>17. CASE UnlinkFails(p)
    BY <1>17 DEF UnlinkFails
  <1>18. CASE RemoveReturns(p)
    BY <1>18 DEF RemoveReturns
  <1>19. CASE Killed(p)
    BY <1>19 DEF Killed
  <1>20. CASE CleanupSync(p)
    BY <1>20 DEF CleanupSync
  <1> QED
    BY <1>1, <1>2, <1>3, <1>4, <1>5, <1>6, <1>7, <1>8, <1>9, <1>10, <1>11, <1>12, <1>13,
       <1>14, <1>15, <1>16, <1>17, <1>18, <1>19, <1>20 DEF ProcessStep, Publishing, Removing

\* Only a rename and an unlink change the path; a sync makes sure of what is there.
LEMMA ProcessEffect ==
  ASSUME FileTypeOK, NEW p \in Processes, ProcessStep(p)
  PROVE  \/ slot' = slot /\ last' = last /\ disk' \in {disk, {slot}}
         \/ Rename(p)
         \/ Unlink(p)
  BY DEF ProcessStep, Publishing, Removing, Begin, Inspect, InspectPublish, InspectRemove,
     InspectReconcile, InspectRemoveOwned, EarlyFailure, Failure, OpenStage, Fills, WriteStage,
     Fills, SyncStage, Fills, Rename, Renames, RenameRefused, StageFails, Cleanup,
     CleanupSync, CleanupFails, SyncParent, Recheck, LateFailure, Unlink, NothingToUnlink, UnlinkFails,
     RemoveReturns, Killed

\* No step brings a partly written file to the path or to what a loss of power can
\* bring back.
LEMMA TornStep ==
  ASSUME FileTypeOK, NeverTorn, [Next]_vars
  PROVE  NeverTorn'
  <1> USE FileAssumption DEF NeverTorn
  <1>1. ASSUME NEW p \in Processes, ProcessStep(p) PROVE NeverTorn'
    <2>1. CASE slot' = slot /\ last' = last /\ disk' \in {disk, {slot}}
      BY <2>1
    <2>2. CASE Rename(p)
      <3>1. stage[p] = "synced" /\ call[p].doc \in Docs
        BY <2>2 DEF Rename, FileTypeOK, StepFits
      <3> QED
        BY <2>2, <3>1 DEF Rename, Renames
    <2>3. CASE Unlink(p)
      BY <2>3 DEF Unlink
    <2> QED
      BY <1>1, <2>1, <2>2, <2>3, ProcessEffect
  <1>2. CASE OthersChange
    BY <1>2 DEF OthersChange
  <1>3. CASE PowerLoss
    BY <1>3 DEF PowerLoss
  <1>4. CASE UNCHANGED vars
    BY <1>4 DEF vars
  <1> QED
    BY <1>1, <1>2, <1>3, <1>4 DEF Next, ProcessStep

\* A step of a process keeps what it says of its own changes.
LEMMA OwnChangeLasts ==
  ASSUME FileInv, NEW p \in Processes, ProcessStep(p)
  PROVE  ChangeLasts(p)'
  <1> USE FileAssumption DEF FileInv, FileTypeOK, StepFits, ChangeLasts, Left, Goto, Returns
  <1>1. CASE Begin(p)
    BY <1>1 DEF Begin
  <1>2. CASE Inspect(p)
    BY <1>2 DEF Inspect, InspectPublish, InspectRemove, InspectReconcile, InspectRemoveOwned
  <1>3. CASE EarlyFailure(p)
    BY <1>3 DEF EarlyFailure, Failure
  <1>4. CASE OpenStage(p)
    BY <1>4 DEF OpenStage, Fills
  <1>5. CASE WriteStage(p)
    BY <1>5 DEF WriteStage, Fills
  <1>6. CASE SyncStage(p)
    BY <1>6 DEF SyncStage, Fills
  <1>7. CASE Rename(p)
    BY <1>7 DEF Rename, Renames, Publications
  <1>8. CASE RenameRefused(p)
    BY <1>8 DEF RenameRefused
  <1>9. CASE StageFails(p)
    BY <1>9 DEF StageFails
  <1>10. CASE Cleanup(p)
    BY <1>10 DEF Cleanup
  <1>11. CASE CleanupFails(p)
    BY <1>11 DEF CleanupFails
  <1>12. CASE SyncParent(p)
    BY <1>12 DEF SyncParent
  <1>13. CASE Recheck(p)
    BY <1>13 DEF Recheck
  <1>14. CASE LateFailure(p)
    BY <1>14 DEF LateFailure
  <1>15. CASE Unlink(p)
    BY <1>15 DEF Unlink
  <1>16. CASE NothingToUnlink(p)
    BY <1>16 DEF NothingToUnlink
  <1>17. CASE UnlinkFails(p)
    BY <1>17 DEF UnlinkFails
  <1>18. CASE RemoveReturns(p)
    BY <1>18 DEF RemoveReturns
  <1>19. CASE Killed(p)
    BY <1>19 DEF Killed
  <1>20. CASE CleanupSync(p)
    BY <1>20 DEF CleanupSync
  <1> QED
    BY <1>1, <1>2, <1>3, <1>4, <1>5, <1>6, <1>7, <1>8, <1>9, <1>10, <1>11, <1>12, <1>13,
       <1>14, <1>15, <1>16, <1>17, <1>18, <1>19, <1>20 DEF ProcessStep, Publishing, Removing

\* A step of a process keeps what it says of its own stage file.
LEMMA OwnStageIsNamed ==
  ASSUME FileInv, NEW p \in Processes, ProcessStep(p)
  PROVE  StageIsNamed(p)'
  <1> USE DEF FileInv, FileTypeOK, StepFits, StageIsNamed, Publications, Goto, Returns
  <1>1. CASE Begin(p)
    BY <1>1 DEF Begin
  <1>2. CASE Inspect(p)
    BY <1>2 DEF Inspect, InspectPublish, InspectRemove, InspectReconcile, InspectRemoveOwned
  <1>3. CASE EarlyFailure(p)
    BY <1>3 DEF EarlyFailure, Failure
  <1>4. CASE OpenStage(p)
    BY <1>4 DEF OpenStage, Fills
  <1>5. CASE WriteStage(p)
    BY <1>5 DEF WriteStage, Fills
  <1>6. CASE SyncStage(p)
    BY <1>6 DEF SyncStage, Fills
  <1>7. CASE Rename(p)
    BY <1>7 DEF Rename, Renames
  <1>8. CASE RenameRefused(p)
    BY <1>8 DEF RenameRefused
  <1>9. CASE StageFails(p)
    BY <1>9 DEF StageFails
  <1>10. CASE Cleanup(p)
    BY <1>10 DEF Cleanup
  <1>11. CASE CleanupFails(p)
    BY <1>11 DEF CleanupFails
  <1>12. CASE SyncParent(p)
    BY <1>12 DEF SyncParent
  <1>13. CASE Recheck(p)
    BY <1>13 DEF Recheck
  <1>14. CASE LateFailure(p)
    BY <1>14 DEF LateFailure
  <1>15. CASE Unlink(p)
    BY <1>15 DEF Unlink
  <1>16. CASE NothingToUnlink(p)
    BY <1>16 DEF NothingToUnlink
  <1>17. CASE UnlinkFails(p)
    BY <1>17 DEF UnlinkFails
  <1>18. CASE RemoveReturns(p)
    BY <1>18 DEF RemoveReturns
  <1>19. CASE Killed(p)
    BY <1>19 DEF Killed
  <1>20. CASE CleanupSync(p)
    BY <1>20 DEF CleanupSync
  <1> QED
    BY <1>1, <1>2, <1>3, <1>4, <1>5, <1>6, <1>7, <1>8, <1>9, <1>10, <1>11, <1>12, <1>13,
       <1>14, <1>15, <1>16, <1>17, <1>18, <1>19, <1>20 DEF ProcessStep, Publishing, Removing

\* Every step keeps the invariant.
LEMMA FileInvStep ==
  ASSUME FileInv, [Next]_vars, FileTypeOK'
  PROVE  FileInv'
  <1>1. NeverTorn'
    BY TornStep DEF FileInv
  <1>2. ASSUME NEW q \in Processes PROVE ChangeLasts(q)' /\ StageIsNamed(q)'
    <2> USE FileAssumption DEF ChangeLasts, StageIsNamed, Left, FileInv
    <2>1. ASSUME NEW p \in Processes, ProcessStep(p), p # q
          PROVE  ChangeLasts(q)' /\ StageIsNamed(q)'
      <3>1. pc'[q] = pc[q] /\ call'[q] = call[q] /\ stage'[q] = stage[q]
        BY <2>1, ProcessIsLocal
      <3>2. \/ slot' = slot /\ last' = last /\ disk' \in {disk, {slot}}
            \/ last' = p
        BY <2>1, ProcessEffect DEF Rename, Renames, Unlink
      <3> QED
        BY <2>1, <3>1, <3>2
    <2>2. CASE ProcessStep(q)
      BY <2>2, OwnChangeLasts, OwnStageIsNamed
    <2>3. CASE OthersChange
      BY <2>3 DEF OthersChange
    <2>4. CASE PowerLoss
      BY <2>4 DEF PowerLoss, FileTypeOK
    <2>5. CASE UNCHANGED vars
      BY <2>5 DEF vars
    <2> QED
      BY <2>1, <2>2, <2>3, <2>4, <2>5 DEF Next, ProcessStep
  <1> QED
    BY <1>1, <1>2 DEF FileInv

\* The invariant holds in every state.
THEOREM FileInvariant == Spec => []FileInv
  <1>1. Init => FileInv
    BY FileAssumption DEF Init, FileInv, FileTypeOK, StepFits, Contents, Steps, NeverTorn,
       ChangeLasts, StageIsNamed, Left
  <1>2. FileInv /\ [Next]_vars /\ FileTypeOK' => FileInv'
    BY FileInvStep
  <1> QED
    BY <1>1, <1>2, FileTyping, PTL DEF Spec

\* Nobody ever finds a partly written file, also not after a loss of power, however
\* many commands write at once (publish_descriptor_internal, atomic_write).
THEOREM FilesAreWhole == Spec => []NeverTorn
  <1>1. FileInv => NeverTorn
    BY DEF FileInv
  <1> QED
    BY <1>1, FileInvariant, PTL

\* A change that is reported is there for good until somebody touches the path.
THEOREM ChangesAreDurable == Spec => []SuccessIsDurable
  <1>1. FileInv => SuccessIsDurable
    BY DEF FileInv, ChangeLasts, SuccessIsDurable
  <1> QED
    BY <1>1, FileInvariant, PTL

\* A failed publication leaves no stage file that it does not name.
THEOREM ResiduesAreNamed == Spec => []ResidueIsNamed
  <1>1. FileInv => ResidueIsNamed
    BY DEF FileInv, StageIsNamed, ResidueIsNamed
  <1> QED
    BY <1>1, FileInvariant, PTL

\* What another program put at the descriptor's path is never replaced, and removed
\* only by a removal that had found its own document there.
THEOREM ForeignFilesSurvive == Spec => ForeignSurvives
  <1>1. FileTypeOK /\ [Next]_vars =>
          [kind = "descriptor" /\ slot = Foreign /\ slot' # Foreign =>
             \/ UNCHANGED <<pc, call>>
             \/ slot' \in disk /\ disk' = {slot'}
             \/ \E p \in Processes : pc[p] = "unlink" /\ pc'[p] = "sync_parent"]_vars
    <2> SUFFICES ASSUME FileTypeOK, Next, kind = "descriptor", slot = Foreign, slot' # Foreign
                 PROVE  \/ UNCHANGED <<pc, call>>
                        \/ slot' \in disk /\ disk' = {slot'}
                        \/ \E p \in Processes : pc[p] = "unlink" /\ pc'[p] = "sync_parent"
      OBVIOUS
    <2>1. ASSUME NEW p \in Processes, Rename(p) PROVE FALSE
      BY <2>1, FileAssumption DEF Rename, FileTypeOK, StepFits, Operations, Publications
    <2>2. ASSUME NEW p \in Processes, Unlink(p)
          PROVE  pc[p] = "unlink" /\ pc'[p] = "sync_parent"
      <3>1. pc[p] = "unlink" /\ call[p].op = "remove"
        BY <2>2 DEF Unlink, FileTypeOK, StepFits, Operations, Publications
      <3> QED
        BY <2>2, <3>1 DEF Unlink, Goto, FileTypeOK
    <2>3. CASE OthersChange
      BY <2>3 DEF OthersChange
    <2>4. CASE PowerLoss
      BY <2>4 DEF PowerLoss
    <2> QED
      BY <2>1, <2>2, <2>3, <2>4, ProcessEffect DEF Next, ProcessStep
  <1> QED
    BY <1>1, FileTyping, PTL DEF Spec, ForeignSurvives

-----------------------------------------------------------------------------

\* The phase of a call follows from the step its process goes to.
LEMMA PhaseMoves ==
  ASSUME FileTypeOK, NEW p \in Processes, NEW step, pc' = [pc EXCEPT ![p] = step]
  PROVE  Phase' = [Phase EXCEPT ![p] = PhaseOf(step)]
  BY DEF FileTypeOK, Phase

\* Going on within a phase is no step of the promise.
LEMMA GoingOn ==
  ASSUME FileTypeOK, NEW p \in Processes, NEW step, Goto(p, step), slot' = slot,
         PhaseOf(step) = PhaseOf(pc[p])
  PROVE  UNCHANGED Slot!vars
  <1>1. Phase' = [Phase EXCEPT ![p] = PhaseOf(step)]
    BY PhaseMoves DEF Goto
  <1>2. Phase' = Phase
    BY <1>1 DEF Phase
  <1> QED
    BY <1>2 DEF Slot!vars, Goto

\* A return whose outcome says what the call has done is a return of the promise.
LEMMA Returning ==
  ASSUME FileTypeOK, NEW p \in Processes, NEW outcome \in Outcomes, Returns(p, outcome),
         slot' = slot, pc[p] # "idle", Slot!Says(outcome, PhaseOf(pc[p]) = "acted")
  PROVE  Slot!Return(p)
  <1>1. Phase' = [Phase EXCEPT ![p] = "idle"]
    BY PhaseMoves DEF Returns, PhaseOf
  <1>2. Phase[p] = PhaseOf(pc[p]) /\ Phase[p] # "idle"
    BY DEF Phase, PhaseOf
  <1>3. outcome \in Slot!Outcomes
    BY DEF Outcomes, Slot!Outcomes
  <1> QED
    BY <1>1, <1>2, <1>3 DEF Slot!Return, Returns

\* Every step of a process is a step of the promise, or none.
LEMMA ProcessRefines ==
  ASSUME FileTypeOK, NEW p \in Processes, ProcessStep(p)
  PROVE  \/ Slot!Begin(p) \/ Slot!See(p) \/ Slot!Act(p) \/ Slot!Return(p)
         \/ UNCHANGED Slot!vars
  <1>0. Phase[p] = PhaseOf(pc[p])
    BY DEF Phase
  <1>1. CASE Begin(p)
    <2>1. Phase' = [Phase EXCEPT ![p] = "begun"]
      <3>1. pc' = [pc EXCEPT ![p] = "inspect"]
        BY <1>1 DEF Begin
      <3>2. PhaseOf("inspect") = "begun"
        BY DEF PhaseOf
      <3> QED
        BY <3>1, <3>2, PhaseMoves
    <2>2. Phase[p] = "idle"
      BY <1>0, <1>1 DEF Begin, PhaseOf
    <2> QED
      BY <1>1, <2>1, <2>2 DEF Begin, Operations, Slot!Begin, Slot!Operations
  <1>2. CASE Inspect(p)
    <2>1. pc[p] = "inspect" /\ slot' = slot /\ Phase[p] = "begun"
      BY <1>0, <1>2 DEF Inspect, PhaseOf
    <2>2. CASE Goto(p, "stage")
      BY <2>1, <2>2, GoingOn DEF PhaseOf
    <2> DEFINE Sees == \/ call[p].op = "remove" /\ slot = call[p].doc
                       \/ call[p].op = "remove_owned" /\ slot # None
    <2>3. CASE Goto(p, "unlink") /\ Sees
      <3>1. Phase' = [Phase EXCEPT ![p] = "seen"]
        BY <2>3, PhaseMoves DEF Goto, PhaseOf
      <3> QED
        BY <2>1, <2>3, <3>1 DEF Slot!See, Goto
    <2>4. ASSUME NEW outcome \in {"unchanged", "clean", "failed"}, Returns(p, outcome)
          PROVE  Slot!Return(p)
      BY <2>1, <2>4, Returning DEF PhaseOf, Slot!Says, Outcomes
    <2>5. \/ Goto(p, "stage")
          \/ Goto(p, "unlink") /\ Sees
          \/ \E outcome \in {"unchanged", "clean", "failed"} : Returns(p, outcome)
      BY <1>2 DEF Inspect, InspectPublish, InspectRemove, InspectReconcile,
         InspectRemoveOwned
    <2> HIDE DEF Sees
    <2> QED
      BY <2>2, <2>3, <2>4, <2>5
  <1>3. CASE EarlyFailure(p)
    <2>1. PICK outcome \in {"clean", "failed"} : Returns(p, outcome)
      BY <1>3 DEF EarlyFailure, Failure
    <2> QED
      BY <1>3, <2>1, Returning DEF EarlyFailure, PhaseOf, Slot!Says, Outcomes
  <1>4. CASE OpenStage(p)
    BY <1>4, GoingOn DEF OpenStage, Fills, PhaseOf
  <1>5. CASE WriteStage(p)
    BY <1>5, GoingOn DEF WriteStage, Fills, PhaseOf
  <1>6. CASE SyncStage(p)
    BY <1>6, GoingOn DEF SyncStage, Fills, PhaseOf
  <1>7. CASE Rename(p)
    <2>1. Phase' = [Phase EXCEPT ![p] = "acted"]
      BY <1>7, PhaseMoves DEF Rename, Renames, Goto, PhaseOf
    <2>2. Phase[p] = "begun" /\ call[p].op \in Publications
      BY <1>0, <1>7 DEF Rename, PhaseOf, FileTypeOK, StepFits
    <2> QED
      BY <1>7, <2>1, <2>2 DEF Rename, Renames, Goto, Publications, Slot!Act
  <1>8. CASE RenameRefused(p)
    BY <1>8, GoingOn DEF RenameRefused, PhaseOf
  <1>9. CASE StageFails(p)
    BY <1>9, GoingOn DEF StageFails, PhaseOf
  <1>10. CASE Cleanup(p)
    <2>1. CASE Goto(p, "cleanup_sync")
      BY <1>10, <2>1, GoingOn DEF Cleanup, PhaseOf
    <2>2. ASSUME NEW outcome \in {"failed"}, Returns(p, outcome) PROVE Slot!Return(p)
      BY <1>10, <2>2, Returning DEF Cleanup, PhaseOf, Slot!Says, Outcomes
    <2> QED
      BY <1>10, <2>1, <2>2 DEF Cleanup
  <1>11. CASE CleanupFails(p)
    <2>1. PICK outcome \in {"residue_stage", "failed"} : Returns(p, outcome)
      BY <1>11 DEF CleanupFails
    <2> QED
      BY <1>11, <2>1, Returning DEF CleanupFails, PhaseOf, Slot!Says, Outcomes
  <1>12. CASE SyncParent(p)
    <2>1. CASE Goto(p, "recheck")
      BY <1>12, <2>1, GoingOn DEF SyncParent, PhaseOf
    <2>2. ASSUME NEW outcome \in {"changed"}, Returns(p, outcome) PROVE Slot!Return(p)
      BY <1>12, <2>2, Returning DEF SyncParent, PhaseOf, Slot!Says, Outcomes
    <2> QED
      BY <1>12, <2>1, <2>2 DEF SyncParent
  <1>13. CASE Recheck(p)
    <2>1. PICK outcome \in {"changed", "residue_final"} : Returns(p, outcome)
      BY <1>13 DEF Recheck
    <2> QED
      BY <1>13, <2>1, Returning DEF Recheck, PhaseOf, Slot!Says, Outcomes
  <1>14. CASE LateFailure(p)
    <2>1. PICK outcome \in {"residue_final", "failed"} : Returns(p, outcome)
      BY <1>14 DEF LateFailure
    <2> QED
      BY <1>14, <2>1, Returning DEF LateFailure, PhaseOf, Slot!Says, Outcomes
  <1>15. CASE Unlink(p)
    <2>1. PICK step \in {"sync_parent", "removed"} : Goto(p, step)
      BY <1>15 DEF Unlink
    <2>2. Phase' = [Phase EXCEPT ![p] = "acted"]
      BY <2>1, PhaseMoves DEF Goto, PhaseOf
    <2>3. Phase[p] = "seen"
      BY <1>0, <1>15 DEF Unlink, PhaseOf
    <2> QED
      BY <1>15, <2>1, <2>2, <2>3 DEF Unlink, Goto, Slot!Act
  <1>16. CASE NothingToUnlink(p)
    <2>1. PICK outcome \in {"failed"} : Returns(p, outcome)
      BY <1>16 DEF NothingToUnlink
    <2> QED
      BY <1>16, <2>1, Returning DEF NothingToUnlink, PhaseOf, Slot!Says, Outcomes
  <1>17. CASE UnlinkFails(p)
    <2>1. PICK outcome \in {"failed"} : Returns(p, outcome)
      BY <1>17 DEF UnlinkFails
    <2> QED
      BY <1>17, <2>1, Returning DEF UnlinkFails, PhaseOf, Slot!Says, Outcomes
  <1>18. CASE RemoveReturns(p)
    <2>1. PICK outcome \in {"changed"} : Returns(p, outcome)
      BY <1>18 DEF RemoveReturns
    <2> QED
      BY <1>18, <2>1, Returning DEF RemoveReturns, PhaseOf, Slot!Says, Outcomes
  <1>19. CASE Killed(p)
    <2>1. PICK outcome \in {"killed"} : Returns(p, outcome)
      BY <1>19 DEF Killed
    <2> QED
      BY <1>19, <2>1, Returning DEF Killed, PhaseOf, Slot!Says, Outcomes
  <1>20. CASE CleanupSync(p)
    <2>1. PICK outcome \in {"clean"} : Returns(p, outcome)
      BY <1>20 DEF CleanupSync
    <2> QED
      BY <1>20, <2>1, Returning DEF CleanupSync, PhaseOf, Slot!Says, Outcomes
  <1> QED
    BY <1>1, <1>2, <1>3, <1>4, <1>5, <1>6, <1>7, <1>8, <1>9, <1>10, <1>11, <1>12, <1>13,
       <1>14, <1>15, <1>16, <1>17, <1>18, <1>19, <1>20 DEF ProcessStep, Publishing, Removing

\* Publishing, replacing and removing implement the promise of FileSlot: each call
\* changes the path at most once, and its outcome tells whether it did.
THEOREM FilesImplementSlot == Spec => Atomic
  <1>1. Init => Slot!Init
    BY DEF Init, Slot!Init, Contents, Slot!Contents, Phase, PhaseOf
  <1>2. FileTypeOK /\ [Next]_vars => [Slot!Next]_(Slot!vars)
    <2> SUFFICES ASSUME FileTypeOK, [Next]_vars PROVE [Slot!Next]_(Slot!vars)
      OBVIOUS
    <2>1. ASSUME NEW p \in Processes, ProcessStep(p) PROVE [Slot!Next]_(Slot!vars)
      BY <2>1, ProcessRefines DEF Slot!Next
    <2>2. CASE OthersChange
      BY <2>2 DEF OthersChange, Slot!Next, Slot!Others, Phase
    <2>3. CASE PowerLoss
      <3>1. Phase' = [p \in Processes |-> "idle"]
        BY <2>3 DEF PowerLoss, Phase, PhaseOf
      <3>2. \A p \in Processes : Phase[p] = "idle" <=> pc[p] = "idle"
        BY DEF Phase, PhaseOf, FileTypeOK, Steps
      <3>3. call' = [p \in Processes |-> IF Phase[p] = "idle" THEN call[p]
                                         ELSE [call[p] EXCEPT !.outcome = "killed"]]
        BY <2>3, <3>2 DEF PowerLoss
      <3>4. slot' \in Slot!Contents
        BY <2>3 DEF PowerLoss, FileTypeOK, Contents, Slot!Contents
      <3> QED
        BY <3>1, <3>3, <3>4 DEF Slot!Next, Slot!PowerLoss
    <2>4. CASE UNCHANGED vars
      BY <2>4 DEF vars, Slot!vars, Phase
    <2> QED
      BY <2>1, <2>2, <2>3, <2>4 DEF Next, ProcessStep
  <1> QED
    BY <1>1, <1>2, FileTyping, PTL DEF Spec, Atomic, Slot!Spec

===============================================================================
