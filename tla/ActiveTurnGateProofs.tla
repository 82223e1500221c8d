------------------------ MODULE ActiveTurnGateProofs ------------------------
(***************************************************************************)
(* What the gate guarantees for any set of threads, however its listings   *)
(* are paged and whatever turns come and go.                               *)
(***************************************************************************)
EXTENDS ActiveTurnGate, TLAPS

\* A listing loses no thread that stays active: it was shown active or is to come.
ListingWatches ==
  /\ pc = "listing" => steady \subseteq unlisted \union found
  /\ pc = "checking" => steady \subseteq found

GateInv ==
  GateTypeOK /\ ListingWatches /\ disclosed \subseteq approved /\ WatchedWereApproved

-----------------------------------------------------------------------------

\* Every state of the gate is well typed: no step, and no turn that starts or ends
\* between two steps, leads out of the states and sets the update distinguishes.
THEOREM GateTyping == Spec => []GateTypeOK
  <1>1. Init => GateTypeOK
    BY DEF Init, GateTypeOK, Ended
  <1>2. GateTypeOK /\ [Next]_vars => GateTypeOK'
    <2> SUFFICES ASSUME GateTypeOK, [Next]_vars PROVE GateTypeOK'
      OBVIOUS
    <2> USE DEF GateTypeOK, Ended
    <2>1. ASSUME NEW t \in Threads, TurnStarts(t) PROVE GateTypeOK'
      BY <2>1 DEF TurnStarts, gateVars
    <2>2. ASSUME NEW t \in Threads, TurnEnds(t) PROVE GateTypeOK'
      BY <2>2 DEF TurnEnds, gateVars
    <2>3. CASE Page
      BY <2>3 DEF Page, LastPage, threadVars
    <2>4. CASE InspectionFails
      BY <2>4 DEF InspectionFails, threadVars
    <2>5. CASE Disclose
      BY <2>5 DEF Disclose, BeginListing, Asks, threadVars
    <2>6. CASE FinalCheck
      BY <2>6 DEF FinalCheck, Asks, threadVars
    <2>7. CASE Approve
      BY <2>7 DEF Approve, BeginListing
    <2>8. CASE Decline
      BY <2>8 DEF Decline, threadVars
    <2>9. CASE StageFails
      BY <2>9 DEF StageFails, threadVars
    <2>10. CASE Restart
      BY <2>10 DEF Restart
    <2>11. CASE UNCHANGED vars
      BY <2>11 DEF vars, threadVars, gateVars
    <2> QED
      BY <2>1, <2>2, <2>3, <2>4, <2>5, <2>6, <2>7, <2>8, <2>9, <2>10, <2>11 DEF Next, Gate
  <1> QED
    BY <1>1, <1>2, PTL DEF Spec

-----------------------------------------------------------------------------

\* A page moves every watched thread on it from the threads to come to those found.
LEMMA PageWatches ==
  ASSUME GateInv, Page
  PROVE  ListingWatches'
  <1>1. PICK shown \in SUBSET unlisted :
          /\ unlisted' = unlisted \ shown
          /\ found' = found \union (shown \intersect running)
          /\ pc' = IF LastPage(shown) THEN "checking" ELSE "listing"
    BY DEF Page
  <1>2. steady' = steady /\ steady \subseteq running /\ pc = "listing"
    BY DEF Page, threadVars, GateInv, GateTypeOK
  <1>3. steady \subseteq unlisted' \union found'
    BY <1>1, <1>2 DEF GateInv, ListingWatches
  <1>4. LastPage(shown) => unlisted' = {}
    BY <1>1 DEF LastPage
  <1> QED
    BY <1>1, <1>2, <1>3, <1>4 DEF ListingWatches

\* Every step of the update and of its surroundings keeps the invariant.
LEMMA GateInvStep ==
  ASSUME GateInv, GateTypeOK', [Next]_vars
  PROVE  GateInv'
  <1> SUFFICES ListingWatches' /\ disclosed' \subseteq approved' /\ WatchedWereApproved'
    BY DEF GateInv
  <1> USE DEF GateInv, GateTypeOK, Ended, ListingWatches, WatchedWereApproved
  <1>1. CASE \E t \in Threads : TurnStarts(t) \/ TurnEnds(t)
    BY <1>1 DEF TurnStarts, TurnEnds, gateVars
  <1>2. CASE Page
    <2>1. ListingWatches'
      BY <1>2, PageWatches
    <2>2. pc' \in {"checking", "listing"} /\ UNCHANGED <<disclosed, approved>>
      BY <1>2 DEF Page
    <2> QED
      BY <2>1, <2>2
  <1>3. CASE InspectionFails \/ Decline \/ StageFails
    BY <1>3 DEF InspectionFails, Decline, StageFails, threadVars
  <1>4. CASE Disclose
    BY <1>4 DEF Disclose, BeginListing, Asks, threadVars
  <1>5. CASE FinalCheck
    <2>1. CASE found \subseteq disclosed
      <3>1. pc' = "passed" /\ UNCHANGED <<steady, disclosed, approved>>
        BY <1>5, <2>1 DEF FinalCheck, threadVars
      <3>2. steady \subseteq approved
        BY <1>5, <2>1 DEF FinalCheck
      <3> QED
        BY <3>1, <3>2
    <2>2. CASE ~(found \subseteq disclosed)
      BY <1>5, <2>2 DEF FinalCheck, Asks, threadVars
    <2> QED
      BY <2>1, <2>2
  <1>6. CASE Approve
    BY <1>6 DEF Approve, BeginListing
  <1>7. CASE Restart
    BY <1>7 DEF Restart
  <1>8. CASE UNCHANGED vars
    BY <1>8 DEF vars, threadVars, gateVars
  <1> QED
    BY <1>1, <1>2, <1>3, <1>4, <1>5, <1>6, <1>7, <1>8 DEF Next, Gate

\* Whoever was active ever since the final check began was approved by name before
\* the update goes on to the restart (baseline_active_turn_gate, list_active_threads).
THEOREM GateWatches == Spec => []WatchedWereApproved
  <1>1. Init /\ GateTypeOK => GateInv
    BY DEF Init, GateInv, ListingWatches, WatchedWereApproved
  <1>2. GateInv /\ GateTypeOK' /\ [Next]_vars => GateInv'
    BY GateInvStep
  <1>3. GateInv => WatchedWereApproved
    BY DEF GateInv
  <1> QED
    BY <1>1, <1>2, <1>3, GateTyping, PTL DEF Spec

\* A consequence for whoever cannot answer: nothing is approved without a terminal.
SilentApprovesNothing ==
  /\ pc = "asking" => terminal
  /\ ~terminal => approved = {}

\* An update that cannot ask interrupts no session that was active all the while
\* since its final check began (require_restart_approval).
THEOREM SilentUpdateSparesWatched ==
  Spec => [](pc = "restarted" /\ ~terminal => interrupted \intersect steady = {})
  <1>1. Init => SilentApprovesNothing
    BY DEF Init, SilentApprovesNothing
  <1>2. SilentApprovesNothing /\ [Next]_vars => SilentApprovesNothing'
    BY DEF SilentApprovesNothing, Next, Gate, vars, threadVars, gateVars, TurnStarts, TurnEnds,
           Page, InspectionFails, Disclose, FinalCheck, Approve, Decline, StageFails, Restart,
           BeginListing, Asks, Ended, LastPage
  <1>3. SilentApprovesNothing /\ WatchedWereApproved =>
          (pc = "restarted" /\ ~terminal => interrupted \intersect steady = {})
    BY DEF SilentApprovesNothing, WatchedWereApproved
  <1> QED
    BY <1>1, <1>2, <1>3, GateWatches, PTL DEF Spec
=============================================================================
