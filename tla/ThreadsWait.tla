---------------------------- MODULE ThreadsWait ----------------------------
(***************************************************************************)
(* The threads_wait tool (src/mcp/wait.rs) over one open connection.  It   *)
(* takes a compact snapshot of every target in turn, each from two reads   *)
(* that the server answers at different moments; returns when a snapshot   *)
(* is ready or a read failed; and otherwise sleeps until a notification,   *)
(* a quiet second or the deadline, and compares the next pass with the     *)
(* last.  Meanwhile the threads run, and late replies of reads that timed  *)
(* out keep arriving on the same connection.                               *)
(***************************************************************************)
EXTENDS AppServerConnection, Sequences

CONSTANTS
  N,        \* the targets are 1 .. N, in the caller's order
  Active,   \* a thread's status: running, ...
  Asking,   \* ... active with flags, awaiting approval or input, ...
  Idle,     \* ... or idle, not loaded or in system error
  MaxTurns  \* bound: turns a thread ever has

Targets == 1 .. N
Statuses == {Active, Asking, Idle}

Reading == [method : {"thread/read", "thread/turns/list"}, thread : Targets]

Op(method, h) == [method |-> method, thread |-> h]

ASSUME WaitAssumption ==
  /\ N \in Nat \ {0} /\ MaxTurns \in Nat \ {0}
  /\ \E c \in Conns : Conns = {c}
  /\ Initialize \notin Reading
  /\ Ops = {Initialize} \union Reading
  /\ Mutations = {}
  /\ Payloads = {NoData} \union (Targets \X (Statuses \union 0 .. MaxTurns))

VARIABLES
  thread,     \* the server's threads: status, listed turn in progress, turns so far
  wasReady,   \* history: the targets that were ready at some moment of this call
  pc,         \* where the call awaits
  at,         \* the target being read
  status,     \* the status its thread/read returned
  pass,       \* the snapshots of this pass
  failures,   \* the targets whose snapshot failed in this pass
  baselines,  \* the last complete pass, empty during the first one
  firstSeen,  \* history: the first complete pass
  zero,       \* the caller asked for a timeout of zero
  result

serverVars == <<thread, wasReady>>
waitVars == <<pc, at, status, pass, failures, baselines, firstSeen, zero, result>>
vars == <<connVars, serverVars, waitVars>>

k == CHOOSE c \in Conns : TRUE

-----------------------------------------------------------------------------
(* The server and its threads (external).                                  *)

\* A thread that awaits nobody's answer, while a turn is running or about to be
\* listed, is the only one a caller has reason to wait for.
Busy(h) == thread[h].status = Active

Becomes(h, t) ==
  /\ thread' = [thread EXCEPT ![h] = t]
  /\ wasReady' = IF t.status # Active \/ (thread[h].turn # 0 /\ t.turn = 0)
                 THEN wasReady \union {h} ELSE wasReady
  /\ UNCHANGED <<connVars, waitVars>>

\* The status and the list of turns are not updated together.
ThreadStep(h) ==
  \/ /\ thread[h].status = Idle /\ thread[h].turns < MaxTurns
     /\ Becomes(h, [thread[h] EXCEPT !.status = Active])
  \/ /\ Busy(h) /\ thread[h].turn = 0 /\ thread[h].turns < MaxTurns
     /\ Becomes(h, [thread[h] EXCEPT !.turn = thread[h].turns + 1, !.turns = @ + 1])
  \/ /\ Busy(h) /\ thread[h].turn # 0
     /\ Becomes(h, [thread[h] EXCEPT !.status = Asking])
  \/ /\ thread[h].status = Asking
     /\ Becomes(h, [thread[h] EXCEPT !.status = Active])
  \/ /\ thread[h].turn # 0
     /\ Becomes(h, [thread[h] EXCEPT !.turn = 0])
  \/ /\ thread[h].status # Idle /\ thread[h].turn = 0
     /\ Becomes(h, [thread[h] EXCEPT !.status = Idle])

Serve(m) ==
  /\ \/ Reply(m, "error", NoData)
     \/ /\ m.op.method = "thread/read"
        /\ Reply(m, "result", <<m.op.thread, thread[m.op.thread].status>>)
     \/ /\ m.op.method = "thread/turns/list"
        /\ Reply(m, "result", <<m.op.thread, thread[m.op.thread].turn>>)
  /\ UNCHANGED <<serverVars, waitVars>>

-----------------------------------------------------------------------------
(* What a pass is judged by.                                               *)

\* A mistake: what the first pass must not miss is left to the comparison.
NeverImmediatelyReady(s) == FALSE

immediately_ready(s) == s.status # Active

\* A mistake: a snapshot without a turn in progress is ready whatever preceded it.
ReadyWithoutTurn(s, previous) == immediately_ready(s) \/ s.turn = 0

Ready(s, previous) ==
  \/ immediately_ready(s)
  \/ previous.status = Active /\ s.status # Active
  \/ previous.turn # 0 /\ s.turn = 0

observe(snapshots) ==
  {i \in Targets : IF baselines = <<>> THEN immediately_ready(snapshots[i])
                   ELSE Ready(snapshots[i], baselines[i])}

NoResult == [reason |-> "none", triggers |-> {}, threads |-> <<>>, errors |-> {}]

Returned(reason, triggers, threads, errors) ==
  /\ result' = [reason |-> reason, triggers |-> triggers,
                threads |-> threads, errors |-> errors]
  /\ pc' = "done"

\* A shared transport failure is an error of the call, without snapshots.
Aborts ==
  /\ Returned("transport_failure", {}, <<>>, {})
  /\ UNCHANGED <<at, status, pass, failures, baselines, firstSeen, zero>>

-----------------------------------------------------------------------------
(* The call.                                                               *)

BeginPass ==
  /\ nextId[k] + 2 * N - 1 <= MaxRequests
  /\ Request(k, Op("thread/read", 1))
  /\ pc' = "reading" /\ at' = 1
  /\ pass' = <<>> /\ failures' = {}
  /\ UNCHANGED <<serverVars, status, baselines, firstSeen, zero, result>>

Begin == pc = "start" /\ BeginPass

\* The pass is over: errors first, then readiness, then the timeout of zero.
Judge(snapshots, errors) ==
  LET triggers == IF errors = {} THEN observe(snapshots) ELSE {}
  IN \/ /\ errors # {}
        /\ Returned("error", {}, snapshots, errors)
        /\ UNCHANGED <<baselines, firstSeen>>
     \/ /\ errors = {} /\ triggers # {}
        /\ Returned("ready", {snapshots[i].thread : i \in triggers}, snapshots, {})
        /\ UNCHANGED <<baselines, firstSeen>>
     \/ /\ errors = {} /\ triggers = {} /\ zero
        /\ Returned("timeout", {}, snapshots, {})
        /\ UNCHANGED <<baselines, firstSeen>>
     \/ /\ errors = {} /\ triggers = {} /\ ~zero
        /\ baselines' = snapshots
        /\ firstSeen' = IF baselines = <<>> THEN snapshots ELSE firstSeen
        /\ pc' = "quiet"
        /\ UNCHANGED result

\* A mistake: the last target is followed by one more.
MoreThanThereAre == at <= N

More == at < N

\* The target's snapshot is taken or failed: on to the next target, or the verdict.
NextTarget(snapshots, errors) ==
  /\ pass' = snapshots /\ failures' = errors
  /\ \/ /\ More
        /\ Request(k, Op("thread/read", at + 1))
        /\ at' = at + 1 /\ pc' = "reading"
        /\ UNCHANGED <<status, baselines, firstSeen, zero, result>>
     \/ /\ ~More
        /\ Judge(snapshots, errors)
        /\ UNCHANGED <<connVars, at, status, zero>>

\* A read of the target returned.
ReadReturned ==
  LET a == answer[k]
  IN /\ pc \in {"reading", "listing"} /\ phase[k] = "ready"
     /\ \/ /\ a.category = "authority_transport_failure"
           /\ Aborts /\ UNCHANGED connVars
        \/ /\ a.category \in {"native_error", "stage_timeout"}
           /\ NextTarget(pass, failures \union {at})
        \/ /\ a.category = "ok" /\ pc = "reading"
           /\ Request(k, Op("thread/turns/list", at))
           /\ status' = a.data[2] /\ pc' = "listing"
           /\ UNCHANGED <<at, pass, failures, baselines, firstSeen, zero, result>>
        \/ /\ a.category = "ok" /\ pc = "listing"
           /\ NextTarget(Append(pass, [thread |-> at, status |-> status, turn |-> a.data[2]]),
                         failures)
     /\ UNCHANGED serverVars

\* wait_for_notification_or_quiet: a notification or a second without one.  No late
\* reply can be waiting here, since a read that timed out ends the call after its
\* pass; the server's own requests are dropped without effect.
Wakes == pc = "quiet" /\ BeginPass

QuietFails ==
  /\ pc = "quiet" /\ ~link[k]
  /\ Aborts
  /\ UNCHANGED <<connVars, serverVars>>

\* A mistake: the pass under way is returned in place of the last complete one.
DeadlineReturnsPass ==
  /\ \/ pc = "quiet"
     \/ pc \in {"reading", "listing"} /\ baselines # <<>>
  /\ Returned("timeout", {}, pass, {})
  /\ UNCHANGED <<connVars, serverVars, at, status, pass, failures, baselines, firstSeen, zero>>

\* The first pass runs before the deadline is set; a later one is abandoned.
Deadline ==
  /\ \/ pc = "quiet"
     \/ pc \in {"reading", "listing"} /\ baselines # <<>>
  /\ Returned("timeout", {}, baselines, {})
  /\ UNCHANGED <<connVars, serverVars, at, status, pass, failures, baselines, firstSeen, zero>>

-----------------------------------------------------------------------------

Init ==
  /\ phase = [c \in Conns |-> "ready"] /\ nextId = [c \in Conns |-> 2]
  /\ dispatch = [c \in Conns |-> "not_dispatched"]
  /\ current = [c \in Conns |-> Initialize] /\ answer = [c \in Conns |-> NoAnswer]
  /\ link = [c \in Conns |-> TRUE]
  /\ toServer = {} /\ toClient = {}
  /\ thread \in [Targets -> {[status |-> s, turn |-> t, turns |-> t] :
                               s \in {Active, Idle}, t \in 0 .. 1}]
  /\ wasReady = {h \in Targets : thread[h].status # Active}
  /\ pc = "start" /\ at = 1 /\ status = Idle
  /\ pass = <<>> /\ failures = {} /\ baselines = <<>> /\ firstSeen = <<>>
  /\ zero \in BOOLEAN
  /\ result = NoResult

WaitStep == Begin \/ ReadReturned \/ Wakes \/ QuietFails \/ Deadline

TimerStep == pc # "done" /\ TimesOut(k) /\ UNCHANGED <<serverVars, waitVars>>

\* The call drives its connection until it returns.
ConnStep ==
  /\ pc # "done"
  /\ \/ \E f \in toClient : ReceiveReply(k, f) \/ SkipFrame(k, f)
     \/ ReadFails(k)
     \/ LinkDrops(k)
  /\ UNCHANGED <<serverVars, waitVars>>

Next ==
  \/ WaitStep \/ TimerStep \/ ConnStep
  \/ pc # "done" /\ \E m \in toServer : Serve(m)
  \/ pc # "done" /\ \E h \in Targets : ThreadStep(h)

\* The runtime runs the task and fires its timers.  Nothing is assumed of the server.
Fairness ==
  /\ WF_vars(Begin) /\ WF_vars(ReadReturned) /\ WF_vars(Deadline) /\ WF_vars(TimerStep)

Spec == Init /\ [][Next]_vars /\ Fairness

-----------------------------------------------------------------------------

Snapshots == [thread : Targets, status : Statuses, turn : 0 .. MaxTurns]

Results == [reason : {"none", "ready", "error", "timeout", "transport_failure"},
            triggers : SUBSET Targets, threads : Seq(Snapshots), errors : SUBSET Targets]

\* Every variable holds a value of its type.
WaitTypeOK ==
  /\ ConnTypeOK
  /\ thread \in [Targets -> [status : Statuses, turn : 0 .. MaxTurns, turns : 0 .. MaxTurns]]
  /\ wasReady \subseteq Targets
  /\ pc \in {"start", "reading", "listing", "quiet", "done"}
  /\ at \in Targets /\ status \in Statuses /\ zero \in BOOLEAN
  /\ failures \subseteq Targets
  /\ \A s \in {pass, baselines, firstSeen} : s \in Seq(Snapshots) /\ Len(s) <= N
  /\ result \in Results

\* A result that is not the call's own failure accounts for every target once, by a
\* snapshot or an error, also when the deadline cuts a pass short.
EveryTargetAccounted ==
  result.reason \in {"ready", "error", "timeout"} =>
    /\ Len(result.threads) + Cardinality(result.errors) = N
    /\ {result.threads[i].thread : i \in 1 .. Len(result.threads)} \union result.errors = Targets

\* A target named as a trigger was idle, awaiting input or done with its turn at some
\* moment of the call: two reads torn by a change never make up a readiness.
ReadyIsReal == result.triggers \subseteq wasReady

\* A timeout is reported only over snapshots of which none is ready.
TimeoutHidesNothing ==
  result.reason = "timeout" =>
    \A i \in 1 .. Len(result.threads) : result.threads[i].status = Active

\* The tool's description: a target is ready when its turn ends.  So a call that times
\* out did not itself see a target's turn end.
TurnEndIsNoticed ==
  result.reason = "timeout" /\ firstSeen # <<>> =>
    \A i \in Targets :
      firstSeen[i].turn # 0 => result.threads[i].turn = firstSeen[i].turn

\* Every call returns, whatever the server and the threads do.
WaitReturns == pc = "reading" ~> pc = "done"
=============================================================================
