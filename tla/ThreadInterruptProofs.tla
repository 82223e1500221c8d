----------------------- MODULE ThreadInterruptProofs -----------------------
(***************************************************************************)
(* What thread_interrupt guarantees for any set of threads, however the    *)
(* listing of the descendants is paged, whichever attempts fail and        *)
(* whatever turns come and go.                                             *)
(***************************************************************************)
EXTENDS ThreadInterrupt, TLAPS

Untouched(t) == t \notin flying /\ \A n \in Turns : <<t, n>> \notin stopped

\* What an attempt, its request and its result say of each other.
AttemptAgrees(t) ==
  /\ at[t] = "returned" <=> result[t] # "none"
  /\ at[t] \in {"none", "reading", "snapshot"} => reply[t] = "none"
  /\ reply[t] = "none" => \A n \in Turns : <<t, n>> \notin stopped
  /\ at[t] \in {"none", "reading", "snapshot"} => t \notin flying
  /\ t \in flying => reply[t] = "none" /\ seen[t] # NoTurn
  /\ at[t] = "sent" => seen[t] # NoTurn
  /\ \A n \in Turns : <<t, n>> \in stopped => n = seen[t]
  /\ reply[t] = "ok" => <<t, seen[t]>> \in stopped
  /\ reply[t] = "refused" => \A n \in Turns : <<t, n>> \notin stopped
  /\ result[t] \in {"not_interrupted", "error"} => Untouched(t)
  /\ result[t] = "interrupted" => <<t, seen[t]>> \in stopped

\* Only the thread the call names and, on request, its active descendants are tried,
\* and the caller never gets beyond its refusal.
AttemptWasAsked(t) ==
  /\ at[t] # "none" => \/ t = Root
                       \/ include /\ t \in active /\ pc \in {"attempting", "done"}
  /\ t = Caller => at[t] = "none" \/ result[t] = "error"

\* The listing loses no descendant that stays in its turn.
ListingWatches ==
  /\ pc = "exact" => steady = {}
  /\ pc = "listing" => steady \subseteq unlisted \union active
  /\ pc \in {"listed", "attempting"} => steady \subseteq active
  /\ pc = "done" /\ listed = "complete" => steady \subseteq active
  /\ pc \in {"exact", "listing", "listed"} => listed = "none"
  /\ pc = "attempting" => listed = "complete"

\* A watched descendant's snapshot shows the turn it is in.
SnapshotWatches(t) ==
  t \in steady =>
    /\ turn[t] # NoTurn
    /\ at[t] = "snapshot" => seen[t] = turn[t]
    /\ result[t] # "not_interrupted"
    /\ \A n \in Turns : <<t, n>> \notin stopped

\* A complete report on the descendants is about all active ones.
ReportIsComplete ==
  pc = "done" /\ listed = "complete" /\ include => active \subseteq Reported

InterruptInv ==
  /\ InterruptTypeOK
  /\ ListingWatches /\ ReportIsComplete
  /\ \A t \in Threads : AttemptAgrees(t) /\ AttemptWasAsked(t) /\ SnapshotWatches(t)

-----------------------------------------------------------------------------

LEMMA InterruptTypeStep ==
  ASSUME InterruptTypeOK, [Next]_vars
  PROVE  InterruptTypeOK'
  <1> USE InterruptAssumption DEF InterruptTypeOK, Stages, Results, Turns, NoTurn
  <1>1. ASSUME NEW t \in Threads, TurnStarts(t) PROVE InterruptTypeOK'
    BY <1>1 DEF TurnStarts, callVars, attemptVars, threadVars
  <1>2. ASSUME NEW t \in Threads, TurnEnds(t) PROVE InterruptTypeOK'
    BY <1>2 DEF TurnEnds, Ends, callVars, attemptVars, threadVars
  <1>3. ASSUME NEW t \in Threads, Spawns(t) PROVE InterruptTypeOK'
    BY <1>3 DEF Spawns, callVars, attemptVars, threadVars
  <1>4. ASSUME NEW t \in Threads, Snapshot(t) PROVE InterruptTypeOK'
    BY <1>4 DEF Snapshot, callVars, attemptVars, threadVars
  <1>5. ASSUME NEW t \in Threads, SnapshotFails(t) PROVE InterruptTypeOK'
    BY <1>5 DEF SnapshotFails, Returns, callVars, attemptVars, threadVars
  <1>6. ASSUME NEW t \in Threads, NothingToInterrupt(t) PROVE InterruptTypeOK'
    BY <1>6 DEF NothingToInterrupt, Returns, callVars, attemptVars, threadVars
  <1>7. ASSUME NEW t \in Threads, Send(t) PROVE InterruptTypeOK'
    BY <1>7 DEF Send, callVars, attemptVars, threadVars
  <1>8. ASSUME NEW t \in Threads, ServeInterrupt(t) PROVE InterruptTypeOK'
    BY <1>8 DEF ServeInterrupt, Ends, callVars, attemptVars, threadVars
  <1>9. ASSUME NEW t \in Threads, Answered(t) PROVE InterruptTypeOK'
    BY <1>9 DEF Answered, Returns, callVars, attemptVars, threadVars
  <1>10. ASSUME NEW t \in Threads, AnswerLost(t) PROVE InterruptTypeOK'
    BY <1>10 DEF AnswerLost, callVars, attemptVars, threadVars
  <1>11. ASSUME NEW t \in Threads, Reconcile(t) PROVE InterruptTypeOK'
    BY <1>11 DEF Reconcile, Returns, callVars, attemptVars, threadVars
  <1>12. CASE BeginListing
    BY <1>12 DEF BeginListing, Running, callVars, attemptVars, threadVars
  <1>13. CASE RootFails
    BY <1>13 DEF RootFails, callVars, attemptVars, threadVars
  <1>14. CASE Page
    BY <1>14 DEF Page, Running, callVars, attemptVars, threadVars
  <1>15. CASE PageFails
    BY <1>15 DEF PageFails, callVars, attemptVars, threadVars
  <1>16. CASE Warn
    BY <1>16 DEF Warn, callVars, attemptVars, threadVars
  <1>17. CASE Attempt
    BY <1>17 DEF Attempt, callVars, attemptVars, threadVars
  <1>18. CASE Join
    BY <1>18 DEF Join, callVars, attemptVars, threadVars
  <1>19. CASE UNCHANGED vars
    BY <1>19 DEF vars, callVars, attemptVars, threadVars
  <1> QED
    BY <1>1, <1>2, <1>3, <1>4, <1>5, <1>6, <1>7, <1>8, <1>9, <1>10, <1>11, <1>12, <1>13, <1>14, <1>15, <1>16, <1>17, <1>18, <1>19 DEF Next, Call, Goes

\* Every state of the call is well typed, whatever the server answers and whenever.
THEOREM InterruptTyping == Spec => []InterruptTypeOK
  <1>1. Init => InterruptTypeOK
    BY InterruptAssumption DEF Init, InterruptTypeOK, Stages, Results, Turns, NoTurn
  <1>2. InterruptTypeOK /\ [Next]_vars => InterruptTypeOK'
    BY InterruptTypeStep
  <1> QED
    BY <1>1, <1>2, PTL DEF Spec

-----------------------------------------------------------------------------

LEMMA AttemptAgreesStep ==
  ASSUME NEW u \in Threads, InterruptTypeOK, AttemptAgrees(u),
         AttemptWasAsked(u), InterruptTypeOK', [Next]_vars
  PROVE  AttemptAgrees(u)'
  <1> USE InterruptAssumption DEF InterruptTypeOK, AttemptAgrees, AttemptWasAsked,
                                  Untouched, Turns, NoTurn, Stages, Results
  <1>1. ASSUME NEW t \in Threads, TurnStarts(t) PROVE AttemptAgrees(u)'
    BY <1>1 DEF TurnStarts, callVars, attemptVars, threadVars
  <1>2. ASSUME NEW t \in Threads, TurnEnds(t) PROVE AttemptAgrees(u)'
    BY <1>2 DEF TurnEnds, Ends, callVars, attemptVars, threadVars
  <1>3. ASSUME NEW t \in Threads, Spawns(t) PROVE AttemptAgrees(u)'
    BY <1>3 DEF Spawns, callVars, attemptVars, threadVars
  <1>4. ASSUME NEW t \in Threads, Snapshot(t) PROVE AttemptAgrees(u)'
    BY <1>4 DEF Snapshot, callVars, attemptVars, threadVars
  <1>5. ASSUME NEW t \in Threads, SnapshotFails(t) PROVE AttemptAgrees(u)'
    BY <1>5 DEF SnapshotFails, Returns, callVars, attemptVars, threadVars
  <1>6. ASSUME NEW t \in Threads, NothingToInterrupt(t) PROVE AttemptAgrees(u)'
    BY <1>6 DEF NothingToInterrupt, Returns, callVars, attemptVars, threadVars
  <1>7. ASSUME NEW t \in Threads, Send(t) PROVE AttemptAgrees(u)'
    BY <1>7 DEF Send, callVars, attemptVars, threadVars
  <1>8. ASSUME NEW t \in Threads, ServeInterrupt(t) PROVE AttemptAgrees(u)'
    BY <1>8 DEF ServeInterrupt, Ends, callVars, attemptVars, threadVars
  <1>9. ASSUME NEW t \in Threads, Answered(t) PROVE AttemptAgrees(u)'
    BY <1>9 DEF Answered, Returns, callVars, attemptVars, threadVars
  <1>10. ASSUME NEW t \in Threads, AnswerLost(t) PROVE AttemptAgrees(u)'
    BY <1>10 DEF AnswerLost, callVars, attemptVars, threadVars
  <1>11. ASSUME NEW t \in Threads, Reconcile(t) PROVE AttemptAgrees(u)'
    BY <1>11 DEF Reconcile, Returns, callVars, attemptVars, threadVars
  <1>12. CASE BeginListing
    BY <1>12 DEF BeginListing, Running, callVars, attemptVars, threadVars
  <1>13. CASE RootFails
    BY <1>13 DEF RootFails, callVars, attemptVars, threadVars
  <1>14. CASE Page
    BY <1>14 DEF Page, Running, callVars, attemptVars, threadVars
  <1>15. CASE PageFails
    BY <1>15 DEF PageFails, callVars, attemptVars, threadVars
  <1>16. CASE Warn
    BY <1>16 DEF Warn, callVars, attemptVars, threadVars
  <1>17. CASE Attempt
    BY <1>17 DEF Attempt, callVars, attemptVars, threadVars
  <1>18. CASE Join
    BY <1>18 DEF Join, callVars, attemptVars, threadVars
  <1>19. CASE UNCHANGED vars
    BY <1>19 DEF vars, callVars, attemptVars, threadVars
  <1> QED
    BY <1>1, <1>2, <1>3, <1>4, <1>5, <1>6, <1>7, <1>8, <1>9, <1>10, <1>11, <1>12, <1>13, <1>14, <1>15, <1>16, <1>17, <1>18, <1>19 DEF Next, Call, Goes

LEMMA AttemptWasAskedStep ==
  ASSUME NEW u \in Threads, InterruptTypeOK, AttemptAgrees(u), AttemptWasAsked(u),
         InterruptTypeOK', [Next]_vars
  PROVE  AttemptWasAsked(u)'
  <1> USE InterruptAssumption DEF InterruptTypeOK, AttemptAgrees, AttemptWasAsked,
                                  Untouched, Stages, Results
  <1>1. ASSUME NEW t \in Threads, TurnStarts(t) PROVE AttemptWasAsked(u)'
    BY <1>1 DEF TurnStarts, callVars, attemptVars, threadVars
  <1>2. ASSUME NEW t \in Threads, TurnEnds(t) PROVE AttemptWasAsked(u)'
    BY <1>2 DEF TurnEnds, Ends, callVars, attemptVars, threadVars
  <1>3. ASSUME NEW t \in Threads, Spawns(t) PROVE AttemptWasAsked(u)'
    BY <1>3 DEF Spawns, callVars, attemptVars, threadVars
  <1>4. ASSUME NEW t \in Threads, Snapshot(t) PROVE AttemptWasAsked(u)'
    BY <1>4 DEF Snapshot, callVars, attemptVars, threadVars
  <1>5. ASSUME NEW t \in Threads, SnapshotFails(t) PROVE AttemptWasAsked(u)'
    BY <1>5 DEF SnapshotFails, Returns, callVars, attemptVars, threadVars
  <1>6. ASSUME NEW t \in Threads, NothingToInterrupt(t) PROVE AttemptWasAsked(u)'
    BY <1>6 DEF NothingToInterrupt, Returns, callVars, attemptVars, threadVars
  <1>7. ASSUME NEW t \in Threads, Send(t) PROVE AttemptWasAsked(u)'
    BY <1>7 DEF Send, callVars, attemptVars, threadVars
  <1>8. ASSUME NEW t \in Threads, ServeInterrupt(t) PROVE AttemptWasAsked(u)'
    BY <1>8 DEF ServeInterrupt, Ends, callVars, attemptVars, threadVars
  <1>9. ASSUME NEW t \in Threads, Answered(t) PROVE AttemptWasAsked(u)'
    BY <1>9 DEF Answered, Returns, callVars, attemptVars, threadVars
  <1>10. ASSUME NEW t \in Threads, AnswerLost(t) PROVE AttemptWasAsked(u)'
    BY <1>10 DEF AnswerLost, callVars, attemptVars, threadVars
  <1>11. ASSUME NEW t \in Threads, Reconcile(t) PROVE AttemptWasAsked(u)'
    BY <1>11 DEF Reconcile, Returns, callVars, attemptVars, threadVars
  <1>12. CASE BeginListing
    BY <1>12 DEF BeginListing, Running, callVars, attemptVars, threadVars
  <1>13. CASE RootFails
    BY <1>13 DEF RootFails, callVars, attemptVars, threadVars
  <1>14. CASE Page
    BY <1>14 DEF Page, Running, callVars, attemptVars, threadVars
  <1>15. CASE PageFails
    BY <1>15 DEF PageFails, callVars, attemptVars, threadVars
  <1>16. CASE Warn
    BY <1>16 DEF Warn, callVars, attemptVars, threadVars
  <1>17. CASE Attempt
    BY <1>17 DEF Attempt, callVars, attemptVars, threadVars
  <1>18. CASE Join
    BY <1>18 DEF Join, callVars, attemptVars, threadVars
  <1>19. CASE UNCHANGED vars
    BY <1>19 DEF vars, callVars, attemptVars, threadVars
  <1> QED
    BY <1>1, <1>2, <1>3, <1>4, <1>5, <1>6, <1>7, <1>8, <1>9, <1>10, <1>11, <1>12, <1>13, <1>14, <1>15, <1>16, <1>17, <1>18, <1>19 DEF Next, Call, Goes

LEMMA SnapshotWatchesStep ==
  ASSUME NEW u \in Threads, InterruptTypeOK, ListingWatches,
         AttemptAgrees(u), AttemptWasAsked(u), SnapshotWatches(u),
         InterruptTypeOK', [Next]_vars
  PROVE  SnapshotWatches(u)'
  <1> USE InterruptAssumption DEF InterruptTypeOK, AttemptAgrees, AttemptWasAsked,
                                  SnapshotWatches, ListingWatches, Turns, NoTurn, Stages, Results
  <1>1. ASSUME NEW t \in Threads, TurnStarts(t) PROVE SnapshotWatches(u)'
    BY <1>1 DEF TurnStarts, callVars, attemptVars, threadVars
  <1>2. ASSUME NEW t \in Threads, TurnEnds(t) PROVE SnapshotWatches(u)'
    BY <1>2 DEF TurnEnds, Ends, callVars, attemptVars, threadVars
  <1>3. ASSUME NEW t \in Threads, Spawns(t) PROVE SnapshotWatches(u)'
    BY <1>3 DEF Spawns, callVars, attemptVars, threadVars
  <1>4. ASSUME NEW t \in Threads, Snapshot(t) PROVE SnapshotWatches(u)'
    BY <1>4 DEF Snapshot, callVars, attemptVars, threadVars
  <1>5. ASSUME NEW t \in Threads, SnapshotFails(t) PROVE SnapshotWatches(u)'
    BY <1>5 DEF SnapshotFails, Returns, callVars, attemptVars, threadVars
  <1>6. ASSUME NEW t \in Threads, NothingToInterrupt(t) PROVE SnapshotWatches(u)'
    BY <1>6 DEF NothingToInterrupt, Returns, callVars, attemptVars, threadVars
  <1>7. ASSUME NEW t \in Threads, Send(t) PROVE SnapshotWatches(u)'
    BY <1>7 DEF Send, callVars, attemptVars, threadVars
  <1>8. ASSUME NEW t \in Threads, ServeInterrupt(t) PROVE SnapshotWatches(u)'
    BY <1>8 DEF ServeInterrupt, Ends, callVars, attemptVars, threadVars
  <1>9. ASSUME NEW t \in Threads, Answered(t) PROVE SnapshotWatches(u)'
    BY <1>9 DEF Answered, Returns, callVars, attemptVars, threadVars
  <1>10. ASSUME NEW t \in Threads, AnswerLost(t) PROVE SnapshotWatches(u)'
    BY <1>10 DEF AnswerLost, callVars, attemptVars, threadVars
  <1>11. ASSUME NEW t \in Threads, Reconcile(t) PROVE SnapshotWatches(u)'
    BY <1>11 DEF Reconcile, Returns, callVars, attemptVars, threadVars
  <1>12. CASE BeginListing
    BY <1>12 DEF BeginListing, Running, callVars, attemptVars, threadVars
  <1>13. CASE RootFails
    BY <1>13 DEF RootFails, callVars, attemptVars, threadVars
  <1>14. CASE Page
    BY <1>14 DEF Page, Running, callVars, attemptVars, threadVars
  <1>15. CASE PageFails
    BY <1>15 DEF PageFails, callVars, attemptVars, threadVars
  <1>16. CASE Warn
    BY <1>16 DEF Warn, callVars, attemptVars, threadVars
  <1>17. CASE Attempt
    BY <1>17 DEF Attempt, callVars, attemptVars, threadVars
  <1>18. CASE Join
    BY <1>18 DEF Join, callVars, attemptVars, threadVars
  <1>19. CASE UNCHANGED vars
    BY <1>19 DEF vars, callVars, attemptVars, threadVars
  <1> QED
    BY <1>1, <1>2, <1>3, <1>4, <1>5, <1>6, <1>7, <1>8, <1>9, <1>10, <1>11, <1>12, <1>13, <1>14, <1>15, <1>16, <1>17, <1>18, <1>19 DEF Next, Call, Goes

LEMMA ListingStep ==
  ASSUME InterruptInv, InterruptTypeOK', [Next]_vars
  PROVE  ListingWatches' /\ ReportIsComplete'
  <1> USE InterruptAssumption DEF InterruptInv, InterruptTypeOK, ListingWatches, ReportIsComplete,
                                  Reported, Stages, Results, AttemptAgrees,
                                  SnapshotWatches
  <1>1. ASSUME NEW t \in Threads, TurnStarts(t) PROVE ListingWatches' /\ ReportIsComplete'
    BY <1>1 DEF TurnStarts, callVars, attemptVars, threadVars
  <1>2. ASSUME NEW t \in Threads, TurnEnds(t) PROVE ListingWatches' /\ ReportIsComplete'
    BY <1>2 DEF TurnEnds, Ends, callVars, attemptVars, threadVars
  <1>3. ASSUME NEW t \in Threads, Spawns(t) PROVE ListingWatches' /\ ReportIsComplete'
    BY <1>3 DEF Spawns, callVars, attemptVars, threadVars
  <1>4. ASSUME NEW t \in Threads, Snapshot(t) PROVE ListingWatches' /\ ReportIsComplete'
    BY <1>4 DEF Snapshot, callVars, attemptVars, threadVars
  <1>5. ASSUME NEW t \in Threads, SnapshotFails(t) PROVE ListingWatches' /\ ReportIsComplete'
    BY <1>5 DEF SnapshotFails, Returns, callVars, attemptVars, threadVars
  <1>6. ASSUME NEW t \in Threads, NothingToInterrupt(t) PROVE ListingWatches' /\ ReportIsComplete'
    BY <1>6 DEF NothingToInterrupt, Returns, callVars, attemptVars, threadVars
  <1>7. ASSUME NEW t \in Threads, Send(t) PROVE ListingWatches' /\ ReportIsComplete'
    BY <1>7 DEF Send, callVars, attemptVars, threadVars
  <1>8. ASSUME NEW t \in Threads, ServeInterrupt(t) PROVE ListingWatches' /\ ReportIsComplete'
    BY <1>8 DEF ServeInterrupt, Ends, callVars, attemptVars, threadVars
  <1>9. ASSUME NEW t \in Threads, Answered(t) PROVE ListingWatches' /\ ReportIsComplete'
    BY <1>9 DEF Answered, Returns, callVars, attemptVars, threadVars
  <1>10. ASSUME NEW t \in Threads, AnswerLost(t) PROVE ListingWatches' /\ ReportIsComplete'
    BY <1>10 DEF AnswerLost, callVars, attemptVars, threadVars
  <1>11. ASSUME NEW t \in Threads, Reconcile(t) PROVE ListingWatches' /\ ReportIsComplete'
    BY <1>11 DEF Reconcile, Returns, callVars, attemptVars, threadVars
  <1>12. CASE BeginListing
    BY <1>12 DEF BeginListing, Running, callVars, attemptVars, threadVars
  <1>13. CASE RootFails
    BY <1>13 DEF RootFails, callVars, attemptVars, threadVars
  <1>14. CASE Page
    <2>1. PICK shown \in SUBSET children, last \in BOOLEAN :
            /\ IF last THEN unlisted \subseteq shown ELSE shown \intersect unlisted # {}
            /\ unlisted' = unlisted \ shown
            /\ active' = active \union (shown \intersect Running)
            /\ pc' = IF last THEN "listed" ELSE "listing"
      BY <1>14 DEF Page
    <2>2. steady \subseteq unlisted \union active /\ steady \subseteq Running
      BY <1>14 DEF Page, Running
    <2>3. steady' = steady /\ listed' = listed /\ listed = "none"
      BY <1>14 DEF Page, threadVars
    <2>4. steady \subseteq unlisted' \union active'
      BY <2>1, <2>2
    <2>5. last => steady \subseteq active'
      BY <2>1, <2>2
    <2> QED
      BY <2>1, <2>3, <2>4, <2>5
  <1>15. CASE PageFails
    BY <1>15 DEF PageFails, callVars, attemptVars, threadVars
  <1>16. CASE Warn
    BY <1>16 DEF Warn, callVars, attemptVars, threadVars
  <1>17. CASE Attempt
    BY <1>17 DEF Attempt, callVars, attemptVars, threadVars
  <1>18. CASE Join
    BY <1>18 DEF Join, callVars, attemptVars, threadVars
  <1>19. CASE UNCHANGED vars
    BY <1>19 DEF vars, callVars, attemptVars, threadVars
  <1> QED
    BY <1>1, <1>2, <1>3, <1>4, <1>5, <1>6, <1>7, <1>8, <1>9, <1>10, <1>11, <1>12, <1>13, <1>14, <1>15, <1>16, <1>17, <1>18, <1>19 DEF Next, Call, Goes

LEMMA InterruptInvStep ==
  ASSUME InterruptInv, [Next]_vars
  PROVE  InterruptInv'
  <1>1. InterruptTypeOK'
    BY InterruptTypeStep DEF InterruptInv
  <1>2. ASSUME NEW u \in Threads
        PROVE  (AttemptAgrees(u) /\ AttemptWasAsked(u) /\ SnapshotWatches(u))'
    <2>1. /\ InterruptTypeOK /\ ListingWatches
          /\ AttemptAgrees(u) /\ AttemptWasAsked(u) /\ SnapshotWatches(u)
      BY DEF InterruptInv
    <2> QED
      BY <1>1, <2>1, AttemptAgreesStep, AttemptWasAskedStep, SnapshotWatchesStep
  <1> QED
    BY <1>1, <1>2, ListingStep DEF InterruptInv

-----------------------------------------------------------------------------

LEMMA InterruptInvariant == Spec => []InterruptInv
  <1>1. Init => InterruptInv
    <2> SUFFICES ASSUME Init PROVE InterruptInv
      OBVIOUS
    <2>1. InterruptTypeOK
      BY InterruptAssumption DEF Init, InterruptTypeOK, Stages, Results, Turns, NoTurn
    <2>2. ListingWatches /\ ReportIsComplete
      BY DEF Init, ListingWatches, ReportIsComplete
    <2>3. ASSUME NEW t \in Threads
          PROVE  AttemptAgrees(t) /\ AttemptWasAsked(t) /\ SnapshotWatches(t)
      BY InterruptAssumption
      DEF Init, AttemptAgrees, AttemptWasAsked, SnapshotWatches, Untouched
    <2> QED
      BY <2>1, <2>2, <2>3 DEF InterruptInv
  <1>2. InterruptInv /\ [Next]_vars => InterruptInv'
    BY InterruptInvStep
  <1> QED
    BY <1>1, <1>2, PTL DEF Spec

\* A subagent that stays in its turn from the listing on is accounted for in every
\* complete report, and never as stopped or idle (interrupt_thread).
THEOREM InterruptWatches == Spec => []WatchedAreAnswered
  <1>1. InterruptInv => WatchedAreAnswered
    <2> SUFFICES ASSUME InterruptInv, pc = "done", listed = "complete", NEW t \in steady
                 PROVE  t \in active /\ (include => result[t] \in {"error", "unclear"})
      BY DEF WatchedAreAnswered
    <2>1. t \in Threads /\ t \in active
      BY DEF InterruptInv, InterruptTypeOK, ListingWatches
    <2>2. include => result[t] # "none"
      BY <2>1 DEF InterruptInv, ReportIsComplete, Reported
    <2>3. result[t] # "not_interrupted" /\ \A n \in Turns : <<t, n>> \notin stopped
      BY <2>1 DEF InterruptInv, SnapshotWatches
    <2>4. result[t] # "interrupted"
      BY <2>1, <2>3 DEF InterruptInv, InterruptTypeOK, AttemptAgrees
    <2>5. result[t] \in Results
      BY <2>1 DEF InterruptInv, InterruptTypeOK
    <2> QED
      BY <2>1, <2>2, <2>3, <2>4, <2>5 DEF Results
  <1> QED
    BY <1>1, InterruptInvariant, PTL

\* No turn is stopped, and none is in danger, behind a report that says otherwise
\* (interrupt_exact_thread, mutation_request), even after the call has returned.
THEOREM InterruptTellsAll == Spec => []ReportTellsAll
  <1>1. InterruptInv => ReportTellsAll
    BY DEF InterruptInv, InterruptTypeOK, AttemptAgrees, Untouched, ReportTellsAll
  <1> QED
    BY <1>1, InterruptInvariant, PTL

\* A call stops one turn of a thread at most, no turn of its caller, and none of a
\* descendant it was not asked to stop (interrupt_thread, require_other_thread).
THEOREM InterruptStopsOneTurn == Spec => []OneTurnEach
  <1>1. InterruptInv => OneTurnEach
    <2> SUFFICES ASSUME InterruptInv, NEW s1 \in stopped, NEW s2 \in stopped
                 PROVE  /\ s1[1] = s2[1] => s1 = s2
                        /\ s1[1] # Caller
                        /\ s1[1] = Root \/ include
      BY DEF OneTurnEach
    <2>1. /\ s1[1] \in Threads /\ s1[2] \in Turns /\ s1 = <<s1[1], s1[2]>>
          /\ s2[1] \in Threads /\ s2[2] \in Turns /\ s2 = <<s2[1], s2[2]>>
      BY DEF InterruptInv, InterruptTypeOK
    <2>2. s1[2] = seen[s1[1]] /\ s2[2] = seen[s2[1]]
      BY <2>1 DEF InterruptInv, AttemptAgrees
    <2>3. at[s1[1]] # "none" /\ result[s1[1]] # "error"
      BY <2>1 DEF InterruptInv, AttemptAgrees, Untouched
    <2>4. s1[1] # Caller /\ (s1[1] = Root \/ include)
      BY <2>1, <2>3 DEF InterruptInv, AttemptWasAsked
    <2> QED
      BY <2>1, <2>2, <2>4
  <1> QED
    BY <1>1, InterruptInvariant, PTL
=============================================================================
