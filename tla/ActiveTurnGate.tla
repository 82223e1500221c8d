--------------------------- MODULE ActiveTurnGate ---------------------------
(***************************************************************************)
(* The gate an update passes before it restarts the service                *)
(* (src/install/update.rs).  It lists the active threads page by page,     *)
(* shows them to the user, and lists them again until a complete listing   *)
(* shows nothing that the last approval did not name.  Then the stages of  *)
(* the update run, and at last the restart interrupts whatever is active.  *)
(*                                                                         *)
(* Turns start and end all the while.  The app-server is external: of its  *)
(* paging it is assumed that a listing which runs to its end has shown     *)
(* every thread that existed when it began, each as it was at its page.    *)
(***************************************************************************)
EXTENDS FiniteSets

CONSTANT Threads

ASSUME GateAssumption == IsFiniteSet(Threads)

VARIABLES
  exists,       \* the service's threads
  running,      \* those with an active turn
  pc,           \* where the update is
  first,        \* the listing is the one before the first question
  unlisted,     \* threads that no page of this listing has shown yet
  found,        \* active threads on the pages so far
  disclosed,    \* what the final check compares with
  approved,     \* history: the threads named by the last question answered yes
  steady,       \* history: threads active ever since this listing began
  terminal,     \* stdin and stderr are a terminal
  interrupted   \* history: threads active when the service was restarted

threadVars == <<exists, running, steady>>
gateVars == <<pc, first, unlisted, found, disclosed, approved, terminal, interrupted>>
vars == <<threadVars, gateVars>>

Ended == {"cancelled", "interactive_required", "inspection_failed", "stage_failed", "restarted"}

-----------------------------------------------------------------------------
(* The service's threads (external).                                       *)

TurnStarts(t) ==
  /\ pc \notin Ended /\ t \notin running
  /\ exists' = exists \union {t}
  /\ running' = running \union {t}
  /\ UNCHANGED <<steady, gateVars>>

TurnEnds(t) ==
  /\ pc \notin Ended /\ t \in running
  /\ running' = running \ {t}
  /\ steady' = steady \ {t}
  /\ UNCHANGED <<exists, gateVars>>

-----------------------------------------------------------------------------
(* list_active_threads.                                                    *)

BeginListing ==
  /\ pc' = "listing" /\ first' = FALSE
  /\ unlisted' = exists /\ found' = {}
  /\ steady' = running

\* A mistake: the first page is taken for the whole list.
OnePage(shown) == TRUE

\* The page has no cursor to a next one.
LastPage(shown) == shown = unlisted

Page ==
  /\ pc = "listing"
  /\ \E shown \in SUBSET unlisted :
       /\ shown # {} \/ unlisted = {}
       /\ unlisted' = unlisted \ shown
       /\ found' = found \union (shown \intersect running)
       /\ pc' = IF LastPage(shown) THEN "checking" ELSE "listing"
  /\ UNCHANGED <<first, disclosed, approved, terminal, interrupted, threadVars>>

\* Connecting, a page or its decoding fails, or the stage timeout ends it.
InspectionFails ==
  /\ pc = "listing"
  /\ pc' = "inspection_failed"
  /\ UNCHANGED <<first, unlisted, found, disclosed, approved, terminal, interrupted, threadVars>>

-----------------------------------------------------------------------------
(* baseline_active_turn_gate.                                              *)

Asks ==
  /\ pc' = IF terminal THEN "asking" ELSE "interactive_required"
  /\ UNCHANGED <<first, unlisted, found, disclosed, approved, terminal, interrupted, threadVars>>

\* The first listing: nothing to ask about, or a question.
Disclose ==
  /\ pc = "checking" /\ first
  /\ \/ /\ found = {}
        /\ BeginListing
        /\ UNCHANGED <<exists, running, disclosed, approved, terminal, interrupted>>
     \/ found # {} /\ Asks

\* A mistake: the check is repeated until the active threads are the approved ones.
FinalCheckUntilSame ==
  /\ pc = "checking" /\ ~first
  /\ \/ /\ found = disclosed
        /\ pc' = "passed"
        /\ UNCHANGED <<first, unlisted, found, disclosed, approved, terminal, interrupted,
                       threadVars>>
     \/ /\ found \subseteq disclosed /\ found # disclosed
        /\ BeginListing
        /\ UNCHANGED <<exists, running, disclosed, approved, terminal, interrupted>>
     \/ ~(found \subseteq disclosed) /\ Asks

\* Every later listing: nothing new, or a question about all that it shows.
FinalCheck ==
  /\ pc = "checking" /\ ~first
  /\ \/ /\ found \subseteq disclosed
        /\ pc' = "passed"
        /\ UNCHANGED <<first, unlisted, found, disclosed, approved, terminal, interrupted,
                       threadVars>>
     \/ ~(found \subseteq disclosed) /\ Asks

\* require_restart_approval: `y' or `yes'.
Approve ==
  /\ pc = "asking"
  /\ approved' = found /\ disclosed' = found
  /\ BeginListing
  /\ UNCHANGED <<exists, running, terminal, interrupted>>

\* A mistake: a declined question ends with an outcome the update does not know.
DeclineUnknown ==
  /\ pc = "asking"
  /\ pc' \in {"declined", "interactive_required"}
  /\ UNCHANGED <<first, unlisted, found, disclosed, approved, terminal, interrupted, threadVars>>

\* Any other answer, or a question that cannot be written or read.
Decline ==
  /\ pc = "asking"
  /\ pc' \in {"cancelled", "interactive_required"}
  /\ UNCHANGED <<first, unlisted, found, disclosed, approved, terminal, interrupted, threadVars>>

-----------------------------------------------------------------------------
(* The rest of the update.                                                 *)

StageFails ==
  /\ pc = "passed"
  /\ pc' = "stage_failed"
  /\ UNCHANGED <<first, unlisted, found, disclosed, approved, terminal, interrupted, threadVars>>

\* service-apply, after the files, the registrations and the daemon-reload.
Restart ==
  /\ pc = "passed"
  /\ pc' = "restarted"
  /\ interrupted' = running
  /\ running' = {}
  /\ UNCHANGED <<exists, steady, first, unlisted, found, disclosed, approved, terminal>>

-----------------------------------------------------------------------------

Init ==
  /\ exists \in SUBSET Threads
  /\ running \in SUBSET exists
  /\ pc = "listing" /\ first = TRUE
  /\ unlisted = exists /\ found = {}
  /\ disclosed = {} /\ approved = {} /\ interrupted = {}
  /\ steady = running
  /\ terminal \in BOOLEAN

Gate == Page \/ InspectionFails \/ Disclose \/ FinalCheck \/ Approve \/ Decline

Next ==
  \/ Gate \/ StageFails \/ Restart
  \/ \E t \in Threads : TurnStarts(t) \/ TurnEnds(t)

\* The update goes on by itself until it asks: a page is answered or fails within
\* the stage timeout.  Nothing is assumed of the user.
Fairness == WF_vars(Page) /\ WF_vars(Disclose) /\ WF_vars(FinalCheck)

Spec == Init /\ [][Next]_vars /\ Fairness

-----------------------------------------------------------------------------

\* Every variable holds a value of its type.
GateTypeOK ==
  /\ running \subseteq exists /\ exists \subseteq Threads
  /\ steady \subseteq running \/ pc = "restarted"
  /\ pc \in {"listing", "checking", "asking", "passed"} \union Ended
  /\ first \in BOOLEAN /\ terminal \in BOOLEAN
  /\ unlisted \subseteq exists /\ found \subseteq exists
  /\ disclosed \subseteq Threads /\ approved \subseteq Threads /\ interrupted \subseteq Threads

\* A session that was active all the while since the final check began is
\* interrupted only if the user approved it by name (baseline_active_turn_gate),
\* however many pages the check took and whatever turns came and went.
WatchedWereApproved ==
  pc \in {"passed", "restarted"} => steady \subseteq approved

\* Sessions that start and end cannot hold the gate in a loop of its own: every listing
\* leads to a question, to the rest of the update or to an error.
GateEnds ==
  pc = "listing" ~> pc \in {"asking", "passed"} \union Ended

\* docs/architecture.md:56: "If the restart would interrupt active sessions, Codex
\* Session Control lists them and asks for permission to continue."  So every session
\* the restart interrupts was approved.  The code breaks this: turns start between the
\* final check and the restart, at the far end of the update's stages.
InterruptedWereApproved ==
  pc = "restarted" => interrupted \subseteq approved
=============================================================================
