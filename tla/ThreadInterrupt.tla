--------------------------- MODULE ThreadInterrupt ---------------------------
(***************************************************************************)
(* thread_interrupt with its descendants (interrupt_thread of              *)
(* src/mcp/operations.rs).  The call interrupts the thread it names, lists *)
(* the subagents under it page by page, and then either interrupts the     *)
(* active ones at once, each over a connection of its own, or names them   *)
(* in a warning.  All the while turns start and end and subagents spawn.   *)
(*                                                                         *)
(* An attempt on one thread is its snapshot, its turn/interrupt, the       *)
(* answer or its loss, and after a loss a look at the latest turn;         *)
(* SessionMutations has the connections below it.  The app-server is       *)
(* external: of its paging it is assumed that a listing which runs to its  *)
(* end has shown every descendant that existed when it began, each as it   *)
(* was at its page, and that a page with a cursor shows one of those that  *)
(* no page has shown yet.                                                  *)
(***************************************************************************)
EXTENDS Naturals, FiniteSets

CONSTANTS
  Threads,
  Root,      \* the thread the call names
  Caller,    \* the thread whose agent makes the call
  MaxTurns   \* bound: turns a thread ever has

\* The contract refuses a call that names its own thread (require_other_thread).
ASSUME InterruptAssumption ==
  /\ IsFiniteSet(Threads) /\ Root \in Threads /\ Caller \in Threads
  /\ Root # Caller
  /\ MaxTurns \in Nat \ {0}

VARIABLES
  turn,      \* the turn each thread runs, 0 if none
  lastTurn,  \* the turns each thread has had
  children,  \* the threads spawned under Root
  include,   \* the call's includeDescendants
  pc,        \* where interrupt_thread is
  unlisted,  \* descendants the listing began with and no page has shown
  active,    \* active_descendant_ids
  listed,    \* the discovery's outcome
  at,        \* where the attempt on each thread is
  seen,      \* the turn each attempt's snapshot showed, 0 for none
  flying,    \* threads whose turn/interrupt the server has not handled
  reply,     \* what the server answered to it
  result,    \* what each attempt returned
  stopped,   \* history: the turns the call's requests ended
  steady     \* history: descendants in one turn ever since the listing began

threadVars == <<turn, lastTurn, children, steady>>
callVars == <<include, pc, unlisted, active, listed>>
attemptVars == <<at, seen, flying, reply, result, stopped>>
vars == <<threadVars, callVars, attemptVars>>

Turns == 0 .. MaxTurns
NoTurn == 0

Running == {t \in Threads : turn[t] # NoTurn}
Reported == {t \in Threads : result[t] # "none"}

-----------------------------------------------------------------------------
(* The service's threads (external).                                       *)

TurnStarts(t) ==
  /\ turn[t] = NoTurn /\ lastTurn[t] < MaxTurns
  /\ lastTurn' = [lastTurn EXCEPT ![t] = @ + 1]
  /\ turn' = [turn EXCEPT ![t] = lastTurn[t] + 1]
  /\ UNCHANGED <<children, steady, callVars, attemptVars>>

Ends(t) ==
  /\ turn' = [turn EXCEPT ![t] = NoTurn]
  /\ steady' = steady \ {t}

TurnEnds(t) ==
  /\ turn[t] # NoTurn
  /\ Ends(t)
  /\ UNCHANGED <<lastTurn, children, callVars, attemptVars>>

\* A subagent is new: it is not the caller, which is there already.
Spawns(t) ==
  /\ t \notin children \union {Root, Caller} /\ turn[t] = NoTurn
  /\ children' = children \union {t}
  /\ UNCHANGED <<turn, lastTurn, steady, callVars, attemptVars>>

-----------------------------------------------------------------------------
(* interrupt_exact_thread on thread t.                                     *)

Returns(t, outcome) ==
  /\ at' = [at EXCEPT ![t] = "returned"]
  /\ result' = [result EXCEPT ![t] = outcome]

\* The server reads the thread for the snapshot.
Snapshot(t) ==
  /\ at[t] = "reading"
  /\ seen' = [seen EXCEPT ![t] = turn[t]]
  /\ at' = [at EXCEPT ![t] = "snapshot"]
  /\ UNCHANGED <<flying, reply, result, stopped, callVars, threadVars>>

\* Connecting or a read fails: an error without a dispatch mark.
SnapshotFails(t) ==
  /\ at[t] \in {"reading", "snapshot"}
  /\ Returns(t, "error")
  /\ UNCHANGED <<seen, flying, reply, stopped, callVars, threadVars>>

NothingToInterrupt(t) ==
  /\ at[t] = "snapshot" /\ seen[t] = NoTurn
  /\ Returns(t, "not_interrupted")
  /\ UNCHANGED <<seen, flying, reply, stopped, callVars, threadVars>>

Send(t) ==
  /\ at[t] = "snapshot" /\ seen[t] # NoTurn
  /\ flying' = flying \union {t}
  /\ at' = [at EXCEPT ![t] = "sent"]
  /\ UNCHANGED <<seen, reply, result, stopped, callVars, threadVars>>

\* The server interrupts the turn that the request names, or refuses; it may do so
\* after the client has stopped waiting.
ServeInterrupt(t) ==
  /\ t \in flying
  /\ flying' = flying \ {t}
  /\ \/ /\ turn[t] = seen[t]
        /\ Ends(t)
        /\ stopped' = stopped \union {<<t, seen[t]>>}
        /\ reply' = [reply EXCEPT ![t] = "ok"]
     \/ /\ reply' = [reply EXCEPT ![t] = "refused"]
        /\ UNCHANGED <<turn, steady, stopped>>
  /\ UNCHANGED <<lastTurn, children, at, seen, result, callVars>>

\* A mistake: a refusal is passed on as a result of its own.
AnsweredUnmapped(t) ==
  /\ at[t] = "sent" /\ reply[t] # "none"
  /\ Returns(t, IF reply[t] = "ok" THEN "interrupted" ELSE "refused")
  /\ UNCHANGED <<seen, flying, reply, stopped, callVars, threadVars>>

Answered(t) ==
  /\ at[t] = "sent" /\ reply[t] # "none"
  /\ Returns(t, IF reply[t] = "ok" THEN "interrupted" ELSE "error")
  /\ UNCHANGED <<seen, flying, reply, stopped, callVars, threadVars>>

\* A mistake: a request that times out is an error like one that was not sent.
AnswerLostUnmarked(t) ==
  /\ at[t] = "sent"
  /\ Returns(t, "error")
  /\ UNCHANGED <<seen, flying, reply, stopped, callVars, threadVars>>

\* Timeout, a dropped socket or an answer that cannot be decoded: outcome unknown.
AnswerLost(t) ==
  /\ at[t] = "sent"
  /\ at' = [at EXCEPT ![t] = "reconciling"]
  /\ UNCHANGED <<seen, flying, reply, result, stopped, callVars, threadVars>>

\* A mistake: a turn that still runs is interrupted again.
ReconcileRetries(t) ==
  /\ at[t] = "reconciling"
  /\ IF turn[t] # NoTurn
     THEN at' = [at EXCEPT ![t] = "reading"] /\ UNCHANGED result
     ELSE Returns(t, "unclear")
  /\ UNCHANGED <<seen, flying, reply, stopped, callVars, threadVars>>

\* reconcile_outcome_unknown: the latest turn is read, if it can be, and reported.
Reconcile(t) ==
  /\ at[t] = "reconciling"
  /\ Returns(t, "unclear")
  /\ UNCHANGED <<seen, flying, reply, stopped, callVars, threadVars>>

-----------------------------------------------------------------------------
(* interrupt_thread.                                                       *)

\* The thread the call names did not fail: the listing of its descendants begins.
BeginListing ==
  /\ pc = "exact" /\ result[Root] \in {"interrupted", "not_interrupted"}
  /\ pc' = "listing"
  /\ unlisted' = children
  /\ steady' = children \intersect Running
  /\ UNCHANGED <<turn, lastTurn, children, include, active, listed, attemptVars>>

\* Its error is the call's.
RootFails ==
  /\ pc = "exact" /\ result[Root] \in {"error", "unclear"}
  /\ pc' = "done"
  /\ UNCHANGED <<include, unlisted, active, listed, threadVars, attemptVars>>

\* A mistake: each page's active threads replace those of the page before.
PageReplaces ==
  /\ pc = "listing"
  /\ \E shown \in SUBSET children, last \in BOOLEAN :
       /\ IF last THEN unlisted \subseteq shown ELSE shown \intersect unlisted # {}
       /\ unlisted' = unlisted \ shown
       /\ active' = shown \intersect Running
       /\ pc' = IF last THEN "listed" ELSE "listing"
  /\ UNCHANGED <<include, listed, threadVars, attemptVars>>

\* A mistake: a page is asked for without the cursor, so that only what it shows itself
\* is behind the listing.
PageWithoutCursor ==
  /\ pc = "listing"
  /\ \E shown \in SUBSET children, last \in BOOLEAN :
       /\ IF last THEN unlisted \subseteq shown ELSE shown \intersect unlisted # {}
       /\ unlisted' = children \ shown
       /\ active' = active \union (shown \intersect Running)
       /\ pc' = IF last THEN "listed" ELSE "listing"
  /\ UNCHANGED <<include, listed, threadVars, attemptVars>>

\* spawned_descendants_page: a page may show a descendant again, or a new one.
Page ==
  /\ pc = "listing"
  /\ \E shown \in SUBSET children, last \in BOOLEAN :
       /\ IF last THEN unlisted \subseteq shown ELSE shown \intersect unlisted # {}
       /\ unlisted' = unlisted \ shown
       /\ active' = active \union (shown \intersect Running)
       /\ pc' = IF last THEN "listed" ELSE "listing"
  /\ UNCHANGED <<include, listed, threadVars, attemptVars>>

\* A page fails: the result is the exact one and the discovery's error.
PageFails ==
  /\ pc = "listing"
  /\ pc' = "done" /\ listed' = "failed"
  /\ UNCHANGED <<include, unlisted, active, threadVars, attemptVars>>

\* Without includeDescendants the active ones are named in a warning, if any.
Warn ==
  /\ pc = "listed" /\ ~include
  /\ pc' = "done" /\ listed' = "complete"
  /\ UNCHANGED <<include, unlisted, active, threadVars, attemptVars>>

\* Otherwise all attempts begin together; the caller's own is refused on the spot.
Attempt ==
  /\ pc = "listed" /\ include
  /\ pc' = "attempting" /\ listed' = "complete"
  /\ at' = [t \in Threads |-> IF t \notin active THEN at[t]
                              ELSE IF t = Caller THEN "returned" ELSE "reading"]
  /\ result' = [t \in Threads |-> IF t \in active /\ t = Caller THEN "error" ELSE result[t]]
  /\ UNCHANGED <<include, unlisted, active, seen, flying, reply, stopped, threadVars>>

\* join_all.
Join ==
  /\ pc = "attempting" /\ active \subseteq Reported
  /\ pc' = "done"
  /\ UNCHANGED <<include, unlisted, active, listed, threadVars, attemptVars>>

-----------------------------------------------------------------------------

Init ==
  /\ turn \in [Threads -> {NoTurn, 1}]
  /\ lastTurn = turn
  /\ children \in SUBSET (Threads \ {Root})
  /\ include \in BOOLEAN
  /\ pc = "exact" /\ unlisted = {} /\ active = {} /\ listed = "none"
  /\ at = [t \in Threads |-> IF t = Root THEN "reading" ELSE "none"]
  /\ seen = [t \in Threads |-> NoTurn]
  /\ flying = {} /\ stopped = {} /\ steady = {}
  /\ reply = [t \in Threads |-> "none"]
  /\ result = [t \in Threads |-> "none"]

\* What the attempt does by itself: a wait for an answer ends by its timeout.
Goes(t) ==
  \/ SnapshotFails(t) \/ NothingToInterrupt(t) \/ Send(t)
  \/ Answered(t) \/ AnswerLost(t) \/ Reconcile(t)

Call == BeginListing \/ RootFails \/ Page \/ PageFails \/ Warn \/ Attempt \/ Join

Next ==
  \/ Call
  \/ \E t \in Threads : Goes(t) \/ Snapshot(t) \/ ServeInterrupt(t)
  \/ \E t \in Threads : TurnStarts(t) \/ TurnEnds(t) \/ Spawns(t)

\* The runtime polls the call's task and the timers it waits for: each attempt and each
\* page goes on or fails.  Nothing is assumed of the server or the other clients.
Fairness == WF_vars(Call) /\ \A t \in Threads : WF_vars(Goes(t))

Spec == Init /\ [][Next]_vars /\ Fairness

-----------------------------------------------------------------------------

Stages == {"none", "reading", "snapshot", "sent", "reconciling", "returned"}
Results == {"none", "interrupted", "not_interrupted", "error", "unclear"}

\* Every variable holds a value of its type.
InterruptTypeOK ==
  /\ turn \in [Threads -> Turns] /\ lastTurn \in [Threads -> Turns]
  /\ children \subseteq Threads \ {Root} /\ steady \subseteq children
  /\ include \in BOOLEAN
  /\ pc \in {"exact", "listing", "listed", "attempting", "done"}
  /\ unlisted \subseteq children /\ active \subseteq children
  /\ listed \in {"none", "failed", "complete"}
  /\ at \in [Threads -> Stages]
  /\ seen \in [Threads -> Turns]
  /\ flying \subseteq Threads
  /\ reply \in [Threads -> {"none", "ok", "refused"}]
  /\ result \in [Threads -> Results]
  /\ stopped \subseteq Threads \X Turns

\* A subagent that has been in one turn since the listing began is accounted for when
\* the call returns a complete listing: it is in the warning, or its entry says that
\* the interrupt failed or may have.  No result claims that it was stopped or idle,
\* whatever pages it was on and whatever else failed.
WatchedAreAnswered ==
  pc = "done" /\ listed = "complete" =>
    \A t \in steady : /\ t \in active
                      /\ include => result[t] \in {"error", "unclear"}

\* The report is the whole truth about what the call does, later than its return too:
\* a thread that is not in it, or has an error without a dispatch mark or a `not
\* interrupted' there, has no turn stopped and none in danger; an `interrupted' names
\* a turn that was.
ReportTellsAll ==
  \A t \in Threads :
    /\ at[t] = "none" \/ result[t] \in {"not_interrupted", "error"} =>
         t \notin flying /\ \A n \in Turns : <<t, n>> \notin stopped
    /\ result[t] = "interrupted" => <<t, seen[t]>> \in stopped

\* One call ends at most one turn of each thread, even when a request's outcome is
\* unknown and the thread has gone on to another turn; and never a turn of its own caller,
\* which may be among the descendants of the thread it interrupts.
OneTurnEach ==
  \A s1, s2 \in stopped :
    /\ s1[1] = s2[1] => s1 = s2
    /\ s1[1] # Caller
    /\ s1[1] = Root \/ include

\* The call returns, whatever the server, the sockets and the subagents do.
InterruptReturns == pc = "exact" ~> pc = "done"
=============================================================================
