-------------------------- MODULE SessionMutations --------------------------
(***************************************************************************)
(* The MCP tools that change a session (src/mcp/operations.rs) over        *)
(* app-server connections: thread_create, thread_title_set and the goal    *)
(* tools, thread_fork, thread_message_send and thread_interrupt on one     *)
(* thread that other clients use too.  A call opens one connection, reads  *)
(* what it must, sends its mutation, and after an unknown outcome looks at *)
(* the thread over a fresh connection instead of sending it again.         *)
(***************************************************************************)
EXTENDS AppServerConnection

CONSTANTS
  Calls,
  MaxTurns,   \* bound: turns the thread ever has
  Odd         \* a result that lacks a field the tool needs

ReadMethods == {"thread/read", "thread/turns/list", "observe"}
Changes == {"thread/start", "turn/start", "turn/steer", "turn/interrupt", "set", "fork"}

\* A request names the turn it is about, 0 for none.
Op(method, turn) == [method |-> method, turn |-> turn]

ASSUME SessionAssumption ==
  /\ Conns = Calls \X {"first", "fresh"}
  /\ Initialize \notin [method : ReadMethods \union Changes, turn : 0 .. MaxTurns]
  /\ Ops = {Initialize} \union [method : ReadMethods \union Changes, turn : 0 .. MaxTurns]
  /\ Mutations = [method : Changes, turn : 0 .. MaxTurns]
  /\ Payloads = {NoData, Odd} \union 0 .. MaxTurns
  /\ MaxTurns \in Nat \ {0} /\ MaxRequests >= 4

VARIABLES
  activeTurn,  \* the thread's turn in progress, 0 if it has none
  lastTurn,    \* turns the thread has had
  applied,     \* how often the server applied each change of a call
  tool,        \* the tool called
  pc,          \* where the call awaits
  seen,        \* the compact snapshot the call took
  verdict      \* what the call returned

threadVars == <<activeTurn, lastTurn, applied>>
callVars == <<tool, pc, seen, verdict>>
vars == <<connVars, threadVars, callVars>>

Tools == {"thread_create", "thread_fork", "thread_title_set", "thread_goal_set",
          "thread_message_send", "thread_message_send_override", "thread_interrupt"}

Messages == {"thread_message_send", "thread_message_send_override"}
Snapshotting == Messages \union {"thread_interrupt"}

First(c) == <<c, "first">>
Fresh(c) == <<c, "fresh">>

-----------------------------------------------------------------------------
(* The server (external).                                                  *)

\* The change a request makes: thread_create's turn is its second one.
ChangeOf(m) ==
  IF tool[m.conn[1]] = "thread_create" /\ m.op.method = "turn/start" THEN 2 ELSE 1

\* Applied and answered; a tool may find the answer odd or undecodable.
Apply(m) ==
  /\ applied' = [applied EXCEPT ![m.conn[1]][ChangeOf(m)] = @ + 1]
  /\ \/ \E data \in {NoData, Odd} : Reply(m, "result", data)
     \/ Reply(m, "undecodable", NoData)

Reject(m) == Reply(m, "error", NoData) /\ UNCHANGED threadVars

\* A steer or an interrupt must name the active turn, if it names one.
Fits(m) == activeTurn # 0 /\ m.op.turn \in {0, activeTurn}

ServeThread(m) ==
  CASE m.op.method = "turn/steer" ->
         Fits(m) /\ Apply(m) /\ UNCHANGED <<activeTurn, lastTurn>>
    [] m.op.method = "turn/interrupt" ->
         Fits(m) /\ Apply(m) /\ activeTurn' = 0 /\ UNCHANGED lastTurn
    [] m.op.method = "turn/start" /\ tool[m.conn[1]] \in Messages ->
         /\ lastTurn < MaxTurns
         /\ Apply(m)
         /\ lastTurn' = lastTurn + 1
         /\ activeTurn' = IF activeTurn = 0 THEN lastTurn + 1 ELSE activeTurn
    [] OTHER -> Apply(m) /\ UNCHANGED <<activeTurn, lastTurn>>

Serve(m) ==
  /\ \/ /\ m.op = Initialize
        /\ \E kind \in ReplyKinds : Reply(m, kind, NoData)
        /\ UNCHANGED threadVars
     \/ /\ m.op \in Mutations
        /\ ServeThread(m) \/ Reject(m)
     \/ /\ m.op \notin Mutations \union {Initialize}
        /\ \/ Reply(m, "result", activeTurn) /\ UNCHANGED threadVars
           \/ Reject(m)
  /\ UNCHANGED callVars

TurnEnds ==
  /\ activeTurn # 0
  /\ activeTurn' = 0
  /\ UNCHANGED <<connVars, lastTurn, applied, callVars>>

\* Another client starts a turn.
TurnStarts ==
  /\ activeTurn = 0 /\ lastTurn < MaxTurns
  /\ lastTurn' = lastTurn + 1
  /\ activeTurn' = lastTurn + 1
  /\ UNCHANGED <<connVars, applied, callVars>>

-----------------------------------------------------------------------------
(* The tools.                                                              *)

NoSnapshot == [active |-> FALSE, turn |-> 0]
NoVerdict == [category |-> "none", mark |-> "absent", observation |-> "none"]

Finish(c, category, mark, observation) ==
  /\ pc' = [pc EXCEPT ![c] = "done"]
  /\ verdict' = [verdict EXCEPT ![c] =
       [category |-> category, mark |-> mark, observation |-> observation]]
  /\ UNCHANGED connVars

\* A mistake: the connection's dispatch state in place of the error's mark.
FinishUnmapped(c, a) == Finish(c, a.category, dispatch[First(c)], "none")

FinishWith(c, a) == Finish(c, a.category, a.mark, "none")

Ask(c, k, op, next) ==
  /\ Request(k, op)
  /\ pc' = [pc EXCEPT ![c] = next]
  /\ UNCHANGED verdict

Start(c) ==
  /\ pc[c] = "start"
  /\ \/ /\ Open(First(c))
        /\ pc' = [pc EXCEPT ![c] = "opening"]
        /\ UNCHANGED <<seen, verdict>>
     \/ \* no installed configuration
        /\ Finish(c, "target_unavailable", "absent", "none")
        /\ UNCHANGED seen
  /\ UNCHANGED <<threadVars, tool>>

FirstMethod(t) ==
  CASE t \in Snapshotting      -> "thread/read"
    [] t = "thread_create"     -> "thread/start"
    [] t = "thread_fork"       -> "fork"
    [] OTHER                   -> "set"

Opened(c) ==
  /\ pc[c] = "opening"
  /\ \/ /\ phase[First(c)] = "failed"
        /\ FinishWith(c, answer[First(c)])
        /\ UNCHANGED seen
     \/ /\ phase[First(c)] = "ready"
        /\ Ask(c, First(c), Op(FirstMethod(tool[c]), 0),
               IF tool[c] \in Snapshotting THEN "status" ELSE "mutating")
        /\ UNCHANGED seen
  /\ UNCHANGED <<threadVars, tool>>

\* compact_snapshot: the status from one read, the active turn from the next.
StatusRead(c) ==
  LET a == answer[First(c)]
  IN /\ pc[c] = "status" /\ phase[First(c)] = "ready"
     /\ \/ /\ a.category # "ok"
           /\ FinishWith(c, a)
           /\ UNCHANGED seen
        \/ /\ a.category = "ok"
           /\ seen' = [seen EXCEPT ![c].active = a.data # 0]
           /\ Ask(c, First(c), Op("thread/turns/list", 0), "turns")
     /\ UNCHANGED <<threadVars, tool>>

\* A mistake: the steer or interrupt leaves out the turn it expects.
DecideWithoutTurn(c, turn) ==
  Ask(c, First(c), Op(IF tool[c] = "thread_interrupt" THEN "turn/interrupt" ELSE "turn/steer", 0),
      "mutating")

\* What the snapshot asks for.  Steering and interrupting name the turn it showed.
Decide(c, turn) ==
  \/ /\ tool[c] = "thread_interrupt" /\ turn = 0
     /\ Finish(c, "not_interrupted", "absent", "none")
  \/ /\ tool[c] = "thread_interrupt" /\ turn # 0
     /\ Ask(c, First(c), Op("turn/interrupt", turn), "mutating")
  \/ /\ tool[c] = "thread_message_send_override" /\ seen[c].active
     /\ Finish(c, "policy_rejected", "absent", "none")
  \/ /\ tool[c] = "thread_message_send" /\ seen[c].active
     /\ IF turn = 0 THEN Finish(c, "native_conflict", "absent", "none")
        ELSE Ask(c, First(c), Op("turn/steer", turn), "mutating")
  \/ /\ tool[c] \in Messages /\ ~seen[c].active
     /\ Ask(c, First(c), Op("turn/start", 0), "mutating")

TurnsRead(c) ==
  LET a == answer[First(c)]
  IN /\ pc[c] = "turns" /\ phase[First(c)] = "ready"
     /\ \/ /\ a.category # "ok"
           /\ FinishWith(c, a)
           /\ UNCHANGED seen
        \/ /\ a.category = "ok"
           /\ Decide(c, a.data)
           /\ seen' = [seen EXCEPT ![c].turn = a.data]
     /\ UNCHANGED <<threadVars, tool>>

\* Reads of the thread after an unknown outcome; thread/start has no thread to read
\* and thread/fork none that would tell.
Reconciles(c) ==
  tool[c] # "thread_fork" /\ ~(tool[c] = "thread_create" /\ pc[c] = "mutating")

\* A result without a field the tool needs: the error has no dispatch mark.
\* thread_title_set and thread_interrupt look at no field; every goal tool looks at
\* one, so thread_goal_set stands for thread_goal_clear, which reads cleared, too.
Unusable(c, a) == a.data = Odd /\ tool[c] \notin {"thread_title_set", "thread_interrupt"}

\* mutation_request returned.  A created thread is given its first turn; an unknown
\* outcome opens a second connection or ends the call.
MutationReturned(c) ==
  LET a == answer[First(c)]
  IN /\ pc[c] \in {"mutating", "starting"} /\ phase[First(c)] = "ready"
     /\ \/ /\ a.category = "ok" /\ Unusable(c, a)
           /\ Finish(c, "malformed_result", "absent", "none")
        \/ /\ a.category = "ok" /\ ~Unusable(c, a)
           /\ IF tool[c] = "thread_create" /\ pc[c] = "mutating"
              THEN Ask(c, First(c), Op("turn/start", 0), "starting")
              ELSE Finish(c, "ok", "absent", "none")
        \/ /\ a.category = "outcome_unknown" /\ Reconciles(c)
           /\ Open(Fresh(c))
           /\ pc' = [pc EXCEPT ![c] = "reopening"]
           /\ UNCHANGED verdict
        \/ /\ a.category # "ok" /\ ~(a.category = "outcome_unknown" /\ Reconciles(c))
           /\ FinishWith(c, a)
     /\ UNCHANGED <<threadVars, tool, seen>>

Unknown(c, observation) ==
  Finish(c, "outcome_unknown", "may_have_been_dispatched", observation)

\* Two mistakes: the fresh connection repeats the mutation, and a failed look at the
\* thread is repeated until it answers.
ReopenedResends(c) ==
  /\ pc[c] = "reopening"
  /\ \/ /\ phase[Fresh(c)] = "failed"
        /\ Unknown(c, "failed")
     \/ /\ phase[Fresh(c)] = "ready"
        /\ Ask(c, Fresh(c), current[First(c)], "observing")
  /\ UNCHANGED <<threadVars, tool, seen>>

Reopened(c) ==
  /\ pc[c] = "reopening"
  /\ \/ /\ phase[Fresh(c)] = "failed"
        /\ Unknown(c, "failed")
     \/ /\ phase[Fresh(c)] = "ready"
        /\ Ask(c, Fresh(c), Op("observe", 0), "observing")
  /\ UNCHANGED <<threadVars, tool, seen>>

ObservedUntilAnswered(c) ==
  /\ pc[c] = "observing" /\ phase[Fresh(c)] = "ready"
  /\ IF answer[Fresh(c)].category = "ok" THEN Unknown(c, "seen")
     ELSE Ask(c, Fresh(c), Op("observe", 0), "observing")
  /\ UNCHANGED <<threadVars, tool, seen>>

Observed(c) ==
  /\ pc[c] = "observing" /\ phase[Fresh(c)] = "ready"
  /\ Unknown(c, IF answer[Fresh(c)].category = "ok" THEN "seen" ELSE "failed")
  /\ UNCHANGED <<threadVars, tool, seen>>

-----------------------------------------------------------------------------

Init ==
  /\ ConnInit
  /\ activeTurn \in 0 .. 1 /\ lastTurn = 1
  /\ applied = [c \in Calls |-> [i \in 1 .. 2 |-> 0]]
  /\ tool \in [Calls -> Tools]
  /\ pc = [c \in Calls |-> "start"]
  /\ seen = [c \in Calls |-> NoSnapshot]
  /\ verdict = [c \in Calls |-> NoVerdict]

CallStep(c) ==
  \/ Start(c) \/ Opened(c) \/ StatusRead(c) \/ TurnsRead(c)
  \/ MutationReturned(c) \/ Reopened(c) \/ Observed(c)

\* The parts of the connections the call does not drive.
ConnStep(k) ==
  /\ \/ ConnectFails(k) \/ ConnectTimesOut(k) \/ Connected(k)
     \/ \E f \in toClient : Initialized(k, f)
     \/ Reads(k)
     \/ LinkDrops(k)
  /\ UNCHANGED <<threadVars, callVars>>

Next ==
  \/ \E c \in Calls : CallStep(c)
  \/ \E k \in Conns : ConnStep(k)
  \/ \E m \in toServer : Serve(m)
  \/ TurnEnds \/ TurnStarts

\* The runtime runs the call's task and fires its timers; nothing is assumed of the
\* server, the socket or the other clients.
Fairness ==
  /\ \A c \in Calls : WF_vars(CallStep(c))
  /\ \A k \in Conns : /\ WF_vars(TimesOut(k) /\ UNCHANGED <<threadVars, callVars>>)
                      /\ WF_vars(ConnectTimesOut(k) /\ UNCHANGED <<threadVars, callVars>>)

Spec == Init /\ [][Next]_vars /\ Fairness

-----------------------------------------------------------------------------

\* Every variable holds a value of its type.
TypeOK ==
  /\ ConnTypeOK
  /\ activeTurn \in 0 .. MaxTurns /\ lastTurn \in 0 .. MaxTurns
  /\ applied \in [Calls -> [1 .. 2 -> Nat]]
  /\ tool \in [Calls -> Tools]
  /\ pc \in [Calls -> {"start", "opening", "status", "turns", "mutating", "starting",
                       "reopening", "observing", "done"}]
  /\ seen \in [Calls -> [active : BOOLEAN, turn : 0 .. MaxTurns]]
  /\ verdict \in [Calls -> [category : Categories \union {"not_interrupted",
                              "policy_rejected", "native_conflict", "malformed_result"},
                            mark : DispatchMarks, observation : {"none", "seen", "failed"}]]

\* What the caller can conclude from the result: an error without a dispatch mark is
\* safe to repeat.  A malformed result has no mark although the change was made; the
\* caller cannot conclude anything from it.
ReportOf(c) ==
  CASE verdict[c].category = "none" -> "none"
    [] verdict[c].category = "ok" -> "done"
    [] verdict[c].category = "malformed_result" -> "unclear"
    [] OTHER -> IF verdict[c].mark = "absent" THEN "untouched" ELSE "unclear"

Promised == INSTANCE MutationPromise WITH
  need    <- [c \in Calls |-> IF tool[c] = "thread_create" THEN {1, 2} ELSE {1}],
  effects <- applied,
  report  <- [c \in Calls |-> ReportOf(c)]

\* The tools implement the promise: each change is made at most once, ok means it
\* was made, and an error without a dispatch mark means it was not and never will be,
\* whatever the socket loses and however late the server acts.
Promise == Promised!Spec

\* A steer or an interrupt takes effect only on the turn its caller's snapshot showed,
\* however the thread's turns changed since.
OnlyTheObservedTurn ==
  [][\A c \in Calls :
       applied'[c] # applied[c]
         /\ \/ tool[c] = "thread_interrupt"
            \/ (tool[c] \in Messages /\ seen[c].active)
       => activeTurn = seen[c].turn]_vars

\* Every call returns, whatever the server and the socket do.
CallsFinish == \A c \in Calls : pc[c] = "opening" ~> pc[c] = "done"
=============================================================================
