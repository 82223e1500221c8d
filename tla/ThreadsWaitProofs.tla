-------------------------- MODULE ThreadsWaitProofs --------------------------
(***************************************************************************)
(* What holds of a threads_wait call for any number of targets, whatever   *)
(* the threads do between the two reads of a snapshot and between passes,  *)
(* and whichever replies come late.                                        *)
(***************************************************************************)
EXTENDS ThreadsWait, AppServerConnectionProofs, FiniteSetTheorems, SequenceTheorems

InPass == pc \in {"reading", "listing"}

\* During a pass the last request is the read of the target the call is at.
AsksItsTarget ==
  /\ pc = "reading" => current[k] = Op("thread/read", at)
  /\ pc = "listing" => current[k] = Op("thread/turns/list", at)

OnlyReads == \A m \in toServer : m.op \in Reading

\* What was seen of a thread at some moment stays accounted for by wasReady.
StatusSeen(h, s) == s # Active => h \in wasReady
TurnSeen(h, t) == t # 0 => thread[h].turn # 0 \/ h \in wasReady

\* A turn that the last pass saw and that is gone in this one.
EndSeen(h, t) ==
  baselines # <<>> /\ baselines[h].turn # 0 /\ t = 0 => h \in wasReady

\* The data is of the kind the method returns, and was true when it was sent.
Told(op, data) ==
  /\ op \in Reading
  /\ op.method = "thread/read" => data[2] \in Statuses /\ StatusSeen(op.thread, data[2])
  /\ op.method = "thread/turns/list" =>
       data[2] \in 0 .. MaxTurns /\ TurnSeen(op.thread, data[2])

ThreadsSeen == \A h \in Targets : StatusSeen(h, thread[h].status)

RepliesTold ==
  /\ \A f \in toClient : f.kind = "result" => Told(f.op, f.data)
  /\ answer[k].category = "ok" => Told(answer[k].op, answer[k].data)

SnapshotsSeen ==
  /\ pc = "listing" => StatusSeen(at, status)
  /\ \A s \in {pass, baselines} : \A i \in 1 .. Len(s) :
       StatusSeen(s[i].thread, s[i].status) /\ TurnSeen(s[i].thread, s[i].turn)

\* The replies that this pass can still take were sent after the last pass ended.
EndsSeen ==
  InPass =>
    /\ \A f \in toClient :
         f.kind = "result" /\ f.id = nextId[k] - 1 /\ f.op.method = "thread/turns/list" =>
           EndSeen(f.op.thread, f.data[2])
    /\ answer[k].category = "ok" /\ answer[k].op.method = "thread/turns/list" =>
         EndSeen(answer[k].op.thread, answer[k].data[2])
    /\ \A i \in 1 .. Len(pass) : EndSeen(pass[i].thread, pass[i].turn)

\* The targets before the one the pass is at have a snapshot or an error each.
Accounts(snapshots, errors, n) ==
  /\ errors \subseteq 1 .. n
  /\ {snapshots[i].thread : i \in 1 .. Len(snapshots)} \union errors = 1 .. n
  /\ Len(snapshots) + Cardinality(errors) = n
  /\ errors = {} => \A i \in 1 .. Len(snapshots) : snapshots[i].thread = i

PassAccounts == InPass => Accounts(pass, failures, at - 1)

\* A pass that is compared with covered every target, and none of them was ready.
BaselinesWhole ==
  /\ pc = "quiet" => baselines # <<>>
  /\ baselines # <<>> =>
       /\ Accounts(baselines, {}, N)
       /\ \A i \in 1 .. N : baselines[i].status = Active

WaitInv ==
  /\ WaitTypeOK /\ OwnInv /\ AsksItsTarget /\ OnlyReads
  /\ ThreadsSeen /\ RepliesTold /\ SnapshotsSeen /\ EndsSeen
  /\ PassAccounts /\ BaselinesWhole
  /\ EveryTargetAccounted /\ ReadyIsReal /\ TimeoutHidesNothing

-----------------------------------------------------------------------------
(* The call drives one connection, and only as any caller may.             *)

LEMMA OneConnection == k \in Conns /\ Conns = {k}
  BY WaitAssumption DEF k

LEMMA TargetsAreFinite ==
  /\ IsFiniteSet(Targets)
  /\ 1 \in Targets /\ N \in Targets
  BY WaitAssumption, FS_Interval DEF Targets

LEMMA ReadsAreRequests ==
  ASSUME NEW h \in Targets, NEW method \in {"thread/read", "thread/turns/list"}
  PROVE  /\ Op(method, h) \in Reading /\ Op(method, h) \in Ops \ {Initialize}
         /\ Op(method, h).method = method /\ Op(method, h).thread = h
  BY WaitAssumption DEF Op, Reading

\* A request of the call: its reply cannot be in flight yet.
LEMMA RequestEffect ==
  ASSUME OwnInv, NEW op, Request(k, op)
  PROVE  /\ nextId' = [nextId EXCEPT ![k] = nextId[k] + 1]
         /\ current' = [current EXCEPT ![k] = op]
         /\ answer'[k].category # "ok"
         /\ \A m \in toServer' : m \in toServer \/ m.op = op
         /\ UNCHANGED toClient
         /\ \A f \in toClient' : f.kind = "result" => f.id # nextId'[k] - 1
  <1> USE DEF OwnInv
  <1>1. answer' \in {[answer EXCEPT ![k] = NoAnswer],
                     [answer EXCEPT ![k] = TransportError(op, dispatch'[k])]}
        /\ dispatch'[k] \in DispatchStates
    BY OneConnection DEF Request, ConnTypeOK, DispatchStates
  <1>2. NoAnswer.category # "ok" /\ TransportError(op, dispatch'[k]).category # "ok"
    BY <1>1, TransportErrorFacts DEF NoAnswer
  <1>3. nextId' = [nextId EXCEPT ![k] = nextId[k] + 1] /\ nextId'[k] = nextId[k] + 1
    BY OneConnection DEF Request, ConnTypeOK
  <1>4. \A f \in toClient : f.kind = "result" => f.id < nextId[k] /\ f.id \in Nat
    BY OneConnection DEF IdsIssued, ConnTypeOK, Frames
  <1>5. \A f \in toClient' : f.kind = "result" => f.id # nextId'[k] - 1
    BY <1>3, <1>4, OneConnection DEF Request, ConnTypeOK
  <1>6. QED
    BY <1>1, <1>2, <1>3, <1>5, OneConnection DEF Request, ConnTypeOK

LEMMA StepsAreConnSteps ==
  ASSUME WaitTypeOK, OnlyReads, [Next]_vars
  PROVE  [ConnNext]_connVars
  <1> USE DEF WaitTypeOK
  <1>1. ASSUME NEW op \in Ops \ {Initialize}, Request(k, op) PROVE ConnNext
    BY <1>1, OneConnection DEF ConnNext
  <1>2. CASE WaitStep
    <2>1. CASE Begin \/ Wakes
      BY <2>1, <1>1, ReadsAreRequests, TargetsAreFinite DEF Begin, Wakes, BeginPass
    <2>2. CASE ReadReturned
      <3>1. ASSUME NEW snapshots, NEW errors, NextTarget(snapshots, errors)
            PROVE ConnNext \/ UNCHANGED connVars
        <4>1. More => at + 1 \in Targets
          BY WaitAssumption DEF More, Targets
        <4>2. QED
          BY <3>1, <4>1, <1>1, ReadsAreRequests DEF NextTarget
      <3>2. QED
        BY <2>2, <3>1, <1>1, ReadsAreRequests DEF ReadReturned
    <2>3. CASE QuietFails \/ Deadline
      BY <2>3 DEF QuietFails, Deadline
    <2>4. QED
      BY <1>2, <2>1, <2>2, <2>3 DEF WaitStep
  <1>3. CASE TimerStep
    BY <1>3, OneConnection DEF TimerStep, ConnNext, Reads
  <1>4. CASE ConnStep
    BY <1>4, OneConnection DEF ConnStep, ConnNext, Reads, Environment
  <1>5. ASSUME NEW m \in toServer, Serve(m) PROVE ConnNext
    <2>1. m.op \in Reading /\ m.op.thread \in Targets
      BY DEF OnlyReads, Reading
    <2>2. \E kind \in ReplyKinds, data \in Payloads : Reply(m, kind, data)
      BY <1>5, <2>1, WaitAssumption, ConnectionAssumption DEF Serve, ReplyKinds, Statuses
    <2>3. QED
      BY <2>2 DEF ConnNext, Environment
  <1>6. ASSUME NEW h \in Targets, ThreadStep(h) PROVE UNCHANGED connVars
    BY <1>6 DEF ThreadStep, Becomes
  <1>7. CASE UNCHANGED vars
    BY <1>7 DEF vars
  <1>8. QED
    BY <1>2, <1>3, <1>4, <1>5, <1>6, <1>7 DEF Next

LEMMA ConnectionHolds ==
  ASSUME WaitTypeOK, OnlyReads, OwnInv, [Next]_vars
  PROVE  ConnTypeOK' /\ OwnInv'
  <1>1. [ConnNext]_connVars
    BY StepsAreConnSteps
  <1>2. ConnTypeOK'
    BY <1>1, ConnTypingStep DEF OwnInv
  <1>3. QED
    BY <1>1, <1>2, OwnInvStep, QuietStep DEF OwnInv

-----------------------------------------------------------------------------
(* What each step of the call does, one operator at a time.                *)

\* The rest of the connection's steps leave the call and the threads alone.
LEMMA ConnStepEffect ==
  ASSUME TimerStep \/ ConnStep
  PROVE  /\ UNCHANGED <<serverVars, waitVars>> /\ pc # "done"
         /\ UNCHANGED <<nextId, current, toServer>>
         /\ toClient' \subseteq toClient
  <1>1. CASE TimerStep
    BY <1>1 DEF TimerStep, TimesOut
  <1>2. CASE ConnStep
    BY <1>2 DEF ConnStep, ReceiveReply, SkipFrame, ReadFails, LinkDrops
  <1>3. QED
    BY <1>1, <1>2

\* What a thread_read or a turns list returned.
LEMMA AnswerData ==
  ASSUME WaitInv, pc \in {"reading", "listing"}, answer[k].category = "ok"
  PROVE  /\ at \in Targets
         /\ pc = "reading" => answer[k].data[2] \in Statuses
                              /\ StatusSeen(at, answer[k].data[2])
         /\ pc = "listing" => /\ answer[k].data[2] \in 0 .. MaxTurns
                              /\ TurnSeen(at, answer[k].data[2])
                              /\ EndSeen(at, answer[k].data[2])
  <1>1. answer[k].op = current[k] /\ at \in Targets
    BY OneConnection DEF WaitInv, OwnInv, AnswerIsOwn, WaitTypeOK
  <1>2. CASE pc = "reading"
    BY <1>1, <1>2, ReadsAreRequests DEF WaitInv, AsksItsTarget, RepliesTold, Told
  <1>3. CASE pc = "listing"
    BY <1>1, <1>3, ReadsAreRequests
    DEF WaitInv, AsksItsTarget, RepliesTold, Told, EndsSeen, InPass
  <1>4. QED
    BY <1>1, <1>2, <1>3

\* The snapshot added to a pass accounts for the target the pass is at.
LEMMA SnapshotAdded ==
  ASSUME WaitInv, pc = "listing", answer[k].category = "ok",
         NEW s, s = [thread |-> at, status |-> status, turn |-> answer[k].data[2]]
  PROVE  /\ s \in Snapshots /\ s.thread = at
         /\ StatusSeen(s.thread, s.status) /\ TurnSeen(s.thread, s.turn)
         /\ EndSeen(s.thread, s.turn)
         /\ Append(pass, s) \in Seq(Snapshots) /\ Len(Append(pass, s)) = Len(pass) + 1
         /\ Append(pass, s)[Len(pass) + 1] = s
         /\ \A i \in 1 .. Len(pass) : Append(pass, s)[i] = pass[i]
         /\ Accounts(Append(pass, s), failures, at)
  <1>1. /\ at \in Targets /\ status \in Statuses /\ answer[k].data[2] \in 0 .. MaxTurns
        /\ pass \in Seq(Snapshots) /\ Len(pass) \in Nat
    BY AnswerData DEF WaitInv, WaitTypeOK
  <1>2. s \in Snapshots /\ s.thread = at
    BY <1>1 DEF Snapshots
  <1>3. /\ StatusSeen(s.thread, s.status) /\ TurnSeen(s.thread, s.turn)
        /\ EndSeen(s.thread, s.turn)
    BY AnswerData DEF WaitInv, SnapshotsSeen
  <1>4. /\ Append(pass, s) \in Seq(Snapshots) /\ Len(Append(pass, s)) = Len(pass) + 1
        /\ Append(pass, s)[Len(pass) + 1] = s
        /\ \A i \in 1 .. Len(pass) : Append(pass, s)[i] = pass[i]
    BY <1>1, <1>2, AppendProperties
  <1>5. Accounts(Append(pass, s), failures, at)
    <2>1. Accounts(pass, failures, at - 1) /\ at \in Nat \ {0}
      BY <1>1 DEF WaitInv, PassAccounts, InPass, Targets
    <2>2. IsFiniteSet(failures) /\ Cardinality(failures) \in Nat
      BY TargetsAreFinite, FS_Subset, FS_CardinalityType DEF WaitInv, WaitTypeOK
    <2>3. {Append(pass, s)[i].thread : i \in 1 .. Len(Append(pass, s))}
            = {pass[i].thread : i \in 1 .. Len(pass)} \union {at}
      BY <1>1, <1>2, <1>4
    <2>4. 1 .. at = (1 .. (at - 1)) \union {at}
      BY <2>1
    <2>5. failures = {} => Len(pass) = at - 1
      BY <1>1, <2>1, FS_EmptySet DEF Accounts
    <2>6. failures = {} =>
            \A i \in 1 .. Len(Append(pass, s)) : Append(pass, s)[i].thread = i
      BY <1>1, <1>2, <1>4, <2>1, <2>5 DEF Accounts
    <2>7. failures \subseteq 1 .. at
      BY <2>1, <2>4 DEF Accounts
    <2>8. Len(Append(pass, s)) + Cardinality(failures) = at
      <3>1. Len(pass) + Cardinality(failures) = at - 1
        BY <2>1 DEF Accounts
      <3>2. QED
        BY <1>1, <1>4, <2>1, <2>2, <3>1
    <2>9. {Append(pass, s)[i].thread : i \in 1 .. Len(Append(pass, s))} \union failures
            = 1 .. at
      BY <2>1, <2>3, <2>4 DEF Accounts
    <2>10. QED
      BY <2>6, <2>7, <2>8, <2>9 DEF Accounts
  <1>6. QED
    BY <1>2, <1>3, <1>4, <1>5

\* So does the error that takes its place.
LEMMA FailureAdded ==
  ASSUME WaitInv, pc \in {"reading", "listing"}
  PROVE  Accounts(pass, failures \union {at}, at)
  <1>1. Accounts(pass, failures, at - 1) /\ at \in Targets /\ at \in Nat \ {0}
    BY DEF WaitInv, PassAccounts, InPass, Targets, WaitTypeOK
  <1>2. IsFiniteSet(failures) /\ at \notin failures /\ Cardinality(failures) \in Nat
    BY <1>1, TargetsAreFinite, FS_Subset, FS_CardinalityType
    DEF WaitInv, WaitTypeOK, Accounts
  <1>3. Cardinality(failures \union {at}) = Cardinality(failures) + 1
    BY <1>2, FS_AddElement
  <1>4. 1 .. at = (1 .. (at - 1)) \union {at} /\ Len(pass) \in Nat
    BY <1>1, LenProperties DEF WaitInv, WaitTypeOK
  <1>5. Len(pass) + Cardinality(failures \union {at}) = at
    <2>1. Len(pass) + Cardinality(failures) = at - 1
      BY <1>1 DEF Accounts
    <2>2. QED
      BY <1>1, <1>2, <1>3, <1>4, <2>1
  <1>6. QED
    BY <1>1, <1>4, <1>5 DEF Accounts

\* The verdict on a complete pass is true and covers every target.
LEMMA VerdictHolds ==
  ASSUME WaitInv, InPass, ~More, UNCHANGED serverVars,
         NEW snapshots \in Seq(Snapshots), NEW errors \in SUBSET Targets,
         Accounts(snapshots, errors, at),
         \A i \in 1 .. Len(snapshots) :
           /\ StatusSeen(snapshots[i].thread, snapshots[i].status)
           /\ EndSeen(snapshots[i].thread, snapshots[i].turn),
         Judge(snapshots, errors)
  PROVE  /\ pc' \in {"quiet", "done"}
         /\ result' \in Results
         /\ baselines' \in {baselines, snapshots}
         /\ firstSeen' \in {firstSeen, snapshots}
         /\ Len(snapshots) <= N
         /\ BaselinesWhole' /\ EveryTargetAccounted' /\ ReadyIsReal' /\ TimeoutHidesNothing'
  <1>1. at = N /\ N \in Nat \ {0} /\ Len(snapshots) \in Nat
    BY WaitAssumption DEF WaitInv, WaitTypeOK, More, Targets
  <1>2. Accounts(snapshots, errors, N)
    BY <1>1
  <1>3. IsFiniteSet(errors) /\ Cardinality(errors) \in Nat
    BY TargetsAreFinite, FS_Subset, FS_CardinalityType
  <1>4. Len(snapshots) + Cardinality(errors) = N
    BY <1>2 DEF Accounts
  <1>5. Len(snapshots) <= N
    BY <1>1, <1>3, <1>4
  <1>6. {snapshots[i].thread : i \in 1 .. Len(snapshots)} \union errors = Targets
    BY <1>2 DEF Accounts, Targets
  <1>7. errors = {} => /\ Len(snapshots) = N
                       /\ \A i \in Targets : /\ snapshots[i] \in Snapshots
                                             /\ snapshots[i].thread = i
    BY <1>1, <1>2, <1>4, FS_EmptySet, ElementOfSeq DEF Accounts, Targets
  <1>8. CASE errors # {}
    <2>1. /\ result' = [reason |-> "error", triggers |-> {},
                        threads |-> snapshots, errors |-> errors]
          /\ pc' = "done" /\ UNCHANGED <<baselines, firstSeen>>
      BY <1>8 DEF Judge, Returned
    <2>2. BaselinesWhole'
      BY <2>1 DEF WaitInv, BaselinesWhole, Accounts
    <2>3. EveryTargetAccounted' /\ ReadyIsReal' /\ TimeoutHidesNothing'
      BY <1>4, <1>6, <2>1 DEF EveryTargetAccounted, ReadyIsReal, TimeoutHidesNothing
    <2>4. QED
      BY <1>5, <2>1, <2>2, <2>3 DEF Results
  <1>9. CASE errors = {}
    <2> DEFINE triggers == observe(snapshots)
    <2>1. triggers \subseteq Targets /\ triggers \subseteq wasReady
      <3>1. triggers \subseteq Targets
        BY DEF observe
      <3>2. ASSUME NEW i \in triggers PROVE i \in wasReady
        <4>1. i \in 1 .. Len(snapshots) /\ snapshots[i].thread = i
          BY <1>7, <1>9, <3>1 DEF Targets
        <4>2. StatusSeen(i, snapshots[i].status) /\ EndSeen(i, snapshots[i].turn)
          BY <4>1
        <4>3. CASE snapshots[i].status # Active
          BY <4>2, <4>3 DEF StatusSeen
        <4>4. CASE snapshots[i].status = Active
          BY <4>2, <4>4 DEF EndSeen, observe, Ready, immediately_ready
        <4>5. QED
          BY <4>3, <4>4
      <3>3. QED
        BY <3>1, <3>2
    <2>2. {snapshots[i].thread : i \in triggers} = triggers
      BY <1>7, <1>9, <2>1
    <2>3. CASE triggers # {}
      <3>1. /\ result' = [reason |-> "ready", triggers |-> triggers,
                          threads |-> snapshots, errors |-> {}]
            /\ pc' = "done" /\ UNCHANGED <<baselines, firstSeen>>
        BY <1>9, <2>2, <2>3 DEF Judge, Returned
      <3>2. BaselinesWhole'
        BY <3>1 DEF WaitInv, BaselinesWhole, Accounts
      <3>3. EveryTargetAccounted' /\ ReadyIsReal' /\ TimeoutHidesNothing'
        BY <1>4, <1>6, <1>9, <2>1, <3>1
        DEF EveryTargetAccounted, ReadyIsReal, TimeoutHidesNothing, serverVars
      <3>4. QED
        BY <1>5, <2>1, <3>1, <3>2, <3>3 DEF Results
    <2>4. CASE triggers = {}
      <3>1. \A i \in 1 .. N : snapshots[i].status = Active
        BY <1>7, <1>9, <2>4 DEF observe, Ready, immediately_ready, Targets
      <3>2. CASE zero
        <4>1. /\ result' = [reason |-> "timeout", triggers |-> {},
                            threads |-> snapshots, errors |-> {}]
              /\ pc' = "done" /\ UNCHANGED <<baselines, firstSeen>>
          BY <1>9, <2>4, <3>2 DEF Judge, Returned
        <4>2. BaselinesWhole'
          BY <4>1 DEF WaitInv, BaselinesWhole, Accounts
        <4>3. EveryTargetAccounted' /\ ReadyIsReal' /\ TimeoutHidesNothing'
          BY <1>4, <1>6, <1>7, <1>9, <3>1, <4>1
          DEF EveryTargetAccounted, ReadyIsReal, TimeoutHidesNothing
        <4>4. QED
          BY <1>5, <4>1, <4>2, <4>3 DEF Results
      <3>3. CASE ~zero
        <4>1. /\ baselines' = snapshots /\ firstSeen' \in {firstSeen, snapshots}
              /\ pc' = "quiet" /\ UNCHANGED result
          BY <1>9, <2>4, <3>3 DEF Judge
        <4>2. snapshots # <<>>
          BY <1>1, <1>7, <1>9, EmptySeq
        <4>3. BaselinesWhole'
          BY <1>2, <1>9, <3>1, <4>1, <4>2 DEF BaselinesWhole, Accounts
        <4>4. EveryTargetAccounted' /\ ReadyIsReal' /\ TimeoutHidesNothing'
          BY <4>1
          DEF WaitInv, EveryTargetAccounted, ReadyIsReal, TimeoutHidesNothing, serverVars
        <4>5. QED
          BY <1>5, <4>1, <4>3, <4>4 DEF WaitInv, WaitTypeOK
      <3>4. QED
        BY <3>2, <3>3
    <2>5. QED
      BY <2>3, <2>4
  <1>10. QED
    BY <1>8, <1>9

-----------------------------------------------------------------------------
(* Every step keeps WaitInv; what it owes to the connection is known.      *)

LEMMA BeginPassStep ==
  ASSUME WaitInv, ConnTypeOK', OwnInv', pc \in {"start", "quiet"}, BeginPass
  PROVE  WaitInv'
  <1>1. /\ Request(k, Op("thread/read", 1)) /\ pc' = "reading" /\ at' = 1
        /\ pass' = <<>> /\ failures' = {}
        /\ UNCHANGED <<serverVars, status, baselines, firstSeen, zero, result>>
    BY DEF BeginPass
  <1>2. /\ current' = [current EXCEPT ![k] = Op("thread/read", 1)]
        /\ nextId' = [nextId EXCEPT ![k] = nextId[k] + 1]
        /\ answer'[k].category # "ok"
        /\ \A m \in toServer' : m \in toServer \/ m.op = Op("thread/read", 1)
        /\ UNCHANGED toClient
        /\ \A f \in toClient' : f.kind = "result" => f.id # nextId'[k] - 1
    BY <1>1, RequestEffect DEF WaitInv
  <1>3. WaitTypeOK'
    BY <1>1, TargetsAreFinite, EmptySeq, WaitAssumption DEF WaitInv, WaitTypeOK, serverVars
  <1>4. AsksItsTarget' /\ OnlyReads'
    BY <1>1, <1>2, OneConnection, ReadsAreRequests, TargetsAreFinite
    DEF WaitInv, AsksItsTarget, OnlyReads, OwnInv, ConnTypeOK
  <1>5. ThreadsSeen' /\ RepliesTold' /\ SnapshotsSeen'
    BY <1>1, <1>2, EmptySeq
    DEF WaitInv, ThreadsSeen, RepliesTold, SnapshotsSeen, StatusSeen, TurnSeen, Told, serverVars
  <1>6. EndsSeen'
    BY <1>1, <1>2, EmptySeq DEF EndsSeen
  <1>7. PassAccounts' /\ BaselinesWhole'
    BY <1>1, EmptySeq, FS_EmptySet DEF WaitInv, PassAccounts, BaselinesWhole, Accounts
  <1>8. EveryTargetAccounted' /\ ReadyIsReal' /\ TimeoutHidesNothing'
    BY <1>1
    DEF WaitInv, EveryTargetAccounted, ReadyIsReal, TimeoutHidesNothing, serverVars
  <1>9. QED
    BY <1>3, <1>4, <1>5, <1>6, <1>7, <1>8 DEF WaitInv

LEMMA NextTargetStep ==
  ASSUME WaitInv, ConnTypeOK', OwnInv', InPass, UNCHANGED serverVars,
         NEW snapshots \in Seq(Snapshots), NEW errors \in SUBSET Targets,
         Accounts(snapshots, errors, at), Len(snapshots) <= N,
         \A i \in 1 .. Len(snapshots) :
           /\ StatusSeen(snapshots[i].thread, snapshots[i].status)
           /\ TurnSeen(snapshots[i].thread, snapshots[i].turn)
           /\ EndSeen(snapshots[i].thread, snapshots[i].turn),
         NextTarget(snapshots, errors)
  PROVE  WaitInv'
  <1>1. pass' = snapshots /\ failures' = errors
    BY DEF NextTarget
  <1>2. CASE More
    <2>1. /\ Request(k, Op("thread/read", at + 1)) /\ at' = at + 1 /\ pc' = "reading"
          /\ UNCHANGED <<status, baselines, firstSeen, zero, result>>
      BY <1>2 DEF NextTarget
    <2>2. at + 1 \in Targets
      BY <1>2, WaitAssumption DEF More, Targets, WaitInv, WaitTypeOK
    <2>3. /\ current' = [current EXCEPT ![k] = Op("thread/read", at + 1)]
          /\ nextId' = [nextId EXCEPT ![k] = nextId[k] + 1]
          /\ answer'[k].category # "ok"
          /\ \A m \in toServer' : m \in toServer \/ m.op = Op("thread/read", at + 1)
          /\ UNCHANGED toClient
          /\ \A f \in toClient' : f.kind = "result" => f.id # nextId'[k] - 1
      BY <2>1, RequestEffect DEF WaitInv
    <2>4. WaitTypeOK'
      BY <1>1, <2>1, <2>2 DEF WaitInv, WaitTypeOK, serverVars
    <2>5. AsksItsTarget' /\ OnlyReads'
      BY <2>1, <2>2, <2>3, OneConnection, ReadsAreRequests
      DEF WaitInv, AsksItsTarget, OnlyReads, OwnInv, ConnTypeOK
    <2>6. ThreadsSeen' /\ RepliesTold' /\ SnapshotsSeen'
      BY <1>1, <2>1, <2>3
      DEF WaitInv, ThreadsSeen, RepliesTold, SnapshotsSeen, StatusSeen, TurnSeen, Told, serverVars
    <2>7. EndsSeen'
      BY <1>1, <2>1, <2>3 DEF EndsSeen, EndSeen, serverVars
    <2>8. PassAccounts'
      <3>1. at' - 1 = at
        BY <2>1, <2>2 DEF WaitInv, WaitTypeOK, Targets
      <3>2. QED
        BY <1>1, <3>1 DEF PassAccounts, Accounts
    <2>9. BaselinesWhole'
      BY <2>1 DEF WaitInv, BaselinesWhole, Accounts
    <2>10. EveryTargetAccounted' /\ ReadyIsReal' /\ TimeoutHidesNothing'
      BY <2>1
      DEF WaitInv, EveryTargetAccounted, ReadyIsReal, TimeoutHidesNothing, serverVars
    <2>11. QED
      BY <2>4, <2>5, <2>6, <2>7, <2>8, <2>9, <2>10 DEF WaitInv
  <1>3. CASE ~More
    <2>1. Judge(snapshots, errors) /\ UNCHANGED <<connVars, at, status, zero>>
      BY <1>3 DEF NextTarget
    <2>2. /\ pc' \in {"quiet", "done"}
          /\ result' \in Results
          /\ baselines' \in {baselines, snapshots}
          /\ firstSeen' \in {firstSeen, snapshots}
          /\ BaselinesWhole' /\ EveryTargetAccounted' /\ ReadyIsReal' /\ TimeoutHidesNothing'
      BY <1>3, <2>1, VerdictHolds
    <2>3. WaitTypeOK'
      BY <1>1, <2>1, <2>2 DEF WaitInv, WaitTypeOK, serverVars
    <2>4. AsksItsTarget' /\ OnlyReads' /\ EndsSeen' /\ PassAccounts'
      BY <2>1, <2>2
      DEF WaitInv, AsksItsTarget, OnlyReads, EndsSeen, PassAccounts, InPass, connVars
    <2>5. ThreadsSeen' /\ RepliesTold' /\ SnapshotsSeen'
      BY <1>1, <2>1, <2>2
      DEF WaitInv, ThreadsSeen, RepliesTold, SnapshotsSeen, StatusSeen, TurnSeen, Told,
          serverVars, connVars
    <2>6. QED
      BY <2>2, <2>3, <2>4, <2>5 DEF WaitInv
  <1>4. QED
    BY <1>2, <1>3

LEMMA AbortStep ==
  ASSUME WaitInv, ConnTypeOK', OwnInv', Aborts, UNCHANGED <<connVars, serverVars>>
  PROVE  WaitInv'
  <1>1. /\ pc' = "done" /\ UNCHANGED <<at, status, pass, failures, baselines, firstSeen, zero>>
        /\ result' = [reason |-> "transport_failure", triggers |-> {},
                      threads |-> <<>>, errors |-> {}]
    BY DEF Aborts, Returned
  <1>2. WaitTypeOK'
    BY <1>1, EmptySeq DEF WaitInv, WaitTypeOK, serverVars, Results
  <1>3. AsksItsTarget' /\ OnlyReads' /\ EndsSeen' /\ PassAccounts' /\ BaselinesWhole'
    BY <1>1
    DEF WaitInv, AsksItsTarget, OnlyReads, EndsSeen, PassAccounts, BaselinesWhole, Accounts,
        InPass, connVars
  <1>4. ThreadsSeen' /\ RepliesTold' /\ SnapshotsSeen'
    BY <1>1
    DEF WaitInv, ThreadsSeen, RepliesTold, SnapshotsSeen, StatusSeen, TurnSeen, Told,
        serverVars, connVars
  <1>5. EveryTargetAccounted' /\ ReadyIsReal' /\ TimeoutHidesNothing'
    BY <1>1 DEF EveryTargetAccounted, ReadyIsReal, TimeoutHidesNothing
  <1>6. QED
    BY <1>2, <1>3, <1>4, <1>5 DEF WaitInv

LEMMA ReadReturnedStep ==
  ASSUME WaitInv, ConnTypeOK', OwnInv', ReadReturned
  PROVE  WaitInv'
  <1>1. /\ pc \in {"reading", "listing"} /\ InPass /\ UNCHANGED serverVars
        /\ at \in Targets /\ pass \in Seq(Snapshots) /\ failures \in SUBSET Targets
        /\ Accounts(pass, failures, at - 1)
    BY DEF ReadReturned, InPass, WaitInv, WaitTypeOK, PassAccounts
  <1>2. \A i \in 1 .. Len(pass) : /\ StatusSeen(pass[i].thread, pass[i].status)
                                  /\ TurnSeen(pass[i].thread, pass[i].turn)
                                  /\ EndSeen(pass[i].thread, pass[i].turn)
    BY <1>1 DEF WaitInv, SnapshotsSeen, EndsSeen
  <1>3. CASE answer[k].category = "authority_transport_failure"
    BY <1>1, <1>3, AbortStep DEF ReadReturned, connVars
  <1>4. CASE answer[k].category \in {"native_error", "stage_timeout"}
    <2>1. NextTarget(pass, failures \union {at})
      BY <1>1, <1>4 DEF ReadReturned
    <2>2. Len(pass) <= N
      BY DEF WaitInv, WaitTypeOK
    <2>3. QED
      BY <1>1, <1>2, <2>1, <2>2, FailureAdded, NextTargetStep
  <1>5. CASE answer[k].category = "ok" /\ pc = "reading"
    <2>1. /\ Request(k, Op("thread/turns/list", at))
          /\ status' = answer[k].data[2] /\ pc' = "listing"
          /\ UNCHANGED <<at, pass, failures, baselines, firstSeen, zero, result>>
      BY <1>5 DEF ReadReturned
    <2>2. status' \in Statuses /\ StatusSeen(at, status')
      BY <1>5, <2>1, AnswerData
    <2>3. /\ current' = [current EXCEPT ![k] = Op("thread/turns/list", at)]
          /\ answer'[k].category # "ok"
          /\ \A m \in toServer' : m \in toServer \/ m.op = Op("thread/turns/list", at)
          /\ UNCHANGED toClient
          /\ \A f \in toClient' : f.kind = "result" => f.id # nextId'[k] - 1
      BY <2>1, RequestEffect DEF WaitInv
    <2>4. WaitTypeOK'
      BY <1>1, <2>1, <2>2 DEF WaitInv, WaitTypeOK, serverVars
    <2>5. AsksItsTarget' /\ OnlyReads'
      BY <1>1, <2>1, <2>3, OneConnection, ReadsAreRequests
      DEF WaitInv, AsksItsTarget, OnlyReads, OwnInv, ConnTypeOK
    <2>6. ThreadsSeen' /\ RepliesTold' /\ SnapshotsSeen'
      BY <1>1, <2>1, <2>2, <2>3
      DEF WaitInv, ThreadsSeen, RepliesTold, SnapshotsSeen, StatusSeen, TurnSeen, Told, serverVars
    <2>7. EndsSeen'
      BY <1>1, <1>2, <2>1, <2>3 DEF EndsSeen, EndSeen, serverVars
    <2>8. PassAccounts' /\ BaselinesWhole'
      BY <1>1, <2>1 DEF WaitInv, PassAccounts, BaselinesWhole, Accounts
    <2>9. EveryTargetAccounted' /\ ReadyIsReal' /\ TimeoutHidesNothing'
      BY <1>1, <2>1
      DEF WaitInv, EveryTargetAccounted, ReadyIsReal, TimeoutHidesNothing, serverVars
    <2>10. QED
      BY <2>4, <2>5, <2>6, <2>7, <2>8, <2>9 DEF WaitInv
  <1>6. CASE answer[k].category = "ok" /\ pc = "listing"
    <2> DEFINE s == [thread |-> at, status |-> status, turn |-> answer[k].data[2]]
    <2>1. NextTarget(Append(pass, s), failures)
      BY <1>6 DEF ReadReturned
    <2>2. /\ StatusSeen(s.thread, s.status) /\ TurnSeen(s.thread, s.turn)
          /\ EndSeen(s.thread, s.turn)
          /\ Append(pass, s) \in Seq(Snapshots) /\ Len(Append(pass, s)) = Len(pass) + 1
          /\ Append(pass, s)[Len(pass) + 1] = s
          /\ \A i \in 1 .. Len(pass) : Append(pass, s)[i] = pass[i]
          /\ Accounts(Append(pass, s), failures, at)
      BY <1>6, SnapshotAdded
    <2>3. \A i \in 1 .. Len(Append(pass, s)) :
            /\ StatusSeen(Append(pass, s)[i].thread, Append(pass, s)[i].status)
            /\ TurnSeen(Append(pass, s)[i].thread, Append(pass, s)[i].turn)
            /\ EndSeen(Append(pass, s)[i].thread, Append(pass, s)[i].turn)
      BY <1>1, <1>2, <2>2, LenProperties
    <2>4. Len(Append(pass, s)) <= N
      <3>1. Cardinality(failures) \in Nat
        BY <1>1, TargetsAreFinite, FS_Subset, FS_CardinalityType
      <3>2. Len(Append(pass, s)) + Cardinality(failures) = at
        BY <2>2 DEF Accounts
      <3>3. QED
        BY <1>1, <2>2, <3>1, <3>2, WaitAssumption, LenProperties DEF Targets
    <2>5. QED
      BY <1>1, <2>1, <2>2, <2>3, <2>4, NextTargetStep
  <1>7. QED
    BY <1>3, <1>4, <1>5, <1>6 DEF ReadReturned

LEMMA DeadlineStep ==
  ASSUME WaitInv, ConnTypeOK', OwnInv', Deadline
  PROVE  WaitInv'
  <1>1. /\ pc' = "done" /\ UNCHANGED <<connVars, serverVars>>
        /\ UNCHANGED <<at, status, pass, failures, baselines, firstSeen, zero>>
        /\ result' = [reason |-> "timeout", triggers |-> {},
                      threads |-> baselines, errors |-> {}]
    BY DEF Deadline, Returned
  <1>2. /\ Accounts(baselines, {}, N)
        /\ \A i \in 1 .. N : baselines[i].status = Active
    BY DEF WaitInv, BaselinesWhole, Deadline
  <1>3. WaitTypeOK'
    BY <1>1 DEF WaitInv, WaitTypeOK, serverVars, Results
  <1>4. AsksItsTarget' /\ OnlyReads' /\ EndsSeen' /\ PassAccounts' /\ BaselinesWhole'
    BY <1>1
    DEF WaitInv, AsksItsTarget, OnlyReads, EndsSeen, PassAccounts, BaselinesWhole, Accounts,
        InPass, connVars
  <1>5. ThreadsSeen' /\ RepliesTold' /\ SnapshotsSeen'
    BY <1>1
    DEF WaitInv, ThreadsSeen, RepliesTold, SnapshotsSeen, StatusSeen, TurnSeen, Told,
        serverVars, connVars
  <1>6. EveryTargetAccounted' /\ ReadyIsReal'
    BY <1>1, <1>2 DEF EveryTargetAccounted, ReadyIsReal, Accounts, Targets
  <1>7. TimeoutHidesNothing'
    <2>1. Len(baselines) = N
      BY <1>2, FS_EmptySet, LenProperties DEF Accounts, WaitInv, WaitTypeOK
    <2>2. QED
      BY <1>1, <1>2, <2>1 DEF TimeoutHidesNothing
  <1>8. QED
    BY <1>3, <1>4, <1>5, <1>6, <1>7 DEF WaitInv

\* A reply is taken, dropped or no longer awaited.
LEMMA ConnectionStep ==
  ASSUME WaitInv, ConnTypeOK', OwnInv', TimerStep \/ ConnStep
  PROVE  WaitInv'
  <1>1. /\ UNCHANGED <<serverVars, waitVars>> /\ UNCHANGED <<nextId, current, toServer>>
        /\ toClient' \subseteq toClient
    BY ConnStepEffect
  <1>2. answer'[k].category = "ok" =>
          \/ answer'[k] = answer[k]
          \/ \E f \in toClient : /\ f.kind = "result" /\ f.id = nextId[k] - 1
                                 /\ answer'[k].op = f.op /\ answer'[k].data = f.data
    <2> USE DEF ConnTypeOK
    <2>1. CASE TimerStep
      BY <2>1, OneConnection, TimeoutErrorFacts
      DEF TimerStep, TimesOut, Returns, HandshakeFails, WaitInv, OwnInv
    <2>2. CASE ReadFails(k)
      BY <2>2, OneConnection, TransportErrorFacts
      DEF ReadFails, Returns, HandshakeFails, WaitInv, OwnInv
    <2>3. CASE LinkDrops(k)
      BY <2>3 DEF LinkDrops
    <2>4. ASSUME NEW f \in toClient, SkipFrame(k, f) PROVE answer' = answer
      BY <2>4 DEF SkipFrame
    <2>5. ASSUME NEW f \in toClient, ReceiveReply(k, f), answer'[k].category = "ok"
          PROVE  /\ f.kind = "result" /\ f.id = nextId[k] - 1
                 /\ answer'[k].op = f.op /\ answer'[k].data = f.data
      <3>1. PICK d \in DispatchStates : answer' = [answer EXCEPT ![k] = ReplyAnswer(f, current[k], d)]
        BY <2>5, OneConnection DEF ReceiveReply, Returns, DispatchStates, WaitInv, OwnInv
      <3>2. f \in Frames /\ f.kind \in ReplyKinds /\ f.id = nextId[k] - 1
        BY <2>5 DEF ReceiveReply, Correlated, Frames, ReplyKinds, WaitInv, OwnInv
      <3>3. answer'[k] = ReplyAnswer(f, current[k], d)
        BY <3>1, OneConnection DEF WaitInv, OwnInv
      <3>4. f.kind = "result"
        BY <2>5, <3>2, <3>3, TransportErrorFacts DEF ReplyAnswer, ReplyKinds
      <3>5. QED
        BY <3>2, <3>3, <3>4 DEF ReplyAnswer
    <2>6. QED
      BY <2>1, <2>2, <2>3, <2>4, <2>5 DEF ConnStep
  <1>3. WaitTypeOK'
    BY <1>1 DEF WaitInv, WaitTypeOK, serverVars, waitVars
  <1>4. AsksItsTarget' /\ OnlyReads' /\ PassAccounts' /\ BaselinesWhole'
    BY <1>1
    DEF WaitInv, AsksItsTarget, OnlyReads, PassAccounts, BaselinesWhole, Accounts, InPass,
        waitVars
  <1>5. ThreadsSeen' /\ SnapshotsSeen'
    BY <1>1 DEF WaitInv, ThreadsSeen, SnapshotsSeen, StatusSeen, TurnSeen, serverVars, waitVars
  <1>6. RepliesTold'
    <2>1. \A f \in toClient' : f.kind = "result" => Told(f.op, f.data)
      BY <1>1 DEF WaitInv, RepliesTold
    <2>2. answer'[k].category = "ok" => Told(answer'[k].op, answer'[k].data)
      BY <1>2 DEF WaitInv, RepliesTold
    <2>3. \A op, data : Told(op, data) => Told(op, data)'
      BY <1>1 DEF Told, StatusSeen, TurnSeen, serverVars
    <2>4. QED
      BY <2>1, <2>2, <2>3 DEF RepliesTold, Told
  <1>7. EndsSeen'
    BY <1>1, <1>2 DEF WaitInv, EndsSeen, EndSeen, InPass, serverVars, waitVars
  <1>8. EveryTargetAccounted' /\ ReadyIsReal' /\ TimeoutHidesNothing'
    BY <1>1
    DEF WaitInv, EveryTargetAccounted, ReadyIsReal, TimeoutHidesNothing, serverVars, waitVars
  <1>9. QED
    BY <1>3, <1>4, <1>5, <1>6, <1>7, <1>8 DEF WaitInv

\* A read is answered as the thread is at this moment.
LEMMA ServeStep ==
  ASSUME WaitInv, ConnTypeOK', OwnInv', NEW m \in toServer, Serve(m)
  PROVE  WaitInv'
  <1>1. /\ UNCHANGED <<serverVars, waitVars>> /\ UNCHANGED <<nextId, current, answer>>
        /\ toServer' \subseteq toServer
    BY DEF Serve, Reply
  <1>2. m.op \in Reading /\ m.op.thread \in Targets
    BY DEF WaitInv, OnlyReads, Reading
  <1>3. \A f \in toClient' :
          \/ f \in toClient
          \/ f.kind # "result"
          \/ /\ f.op = m.op
             /\ f.op.method = "thread/read" => f.data[2] = thread[m.op.thread].status
             /\ f.op.method = "thread/turns/list" => f.data[2] = thread[m.op.thread].turn
    BY DEF Serve, Reply
  <1>4. WaitTypeOK'
    BY <1>1 DEF WaitInv, WaitTypeOK, serverVars, waitVars
  <1>5. AsksItsTarget' /\ OnlyReads' /\ PassAccounts' /\ BaselinesWhole'
    BY <1>1
    DEF WaitInv, AsksItsTarget, OnlyReads, PassAccounts, BaselinesWhole, Accounts, InPass,
        waitVars
  <1>6. ThreadsSeen' /\ SnapshotsSeen'
    BY <1>1 DEF WaitInv, ThreadsSeen, SnapshotsSeen, StatusSeen, TurnSeen, serverVars, waitVars
  <1>7. RepliesTold'
    <2>1. \A f \in toClient' : f.kind = "result" => Told(f.op, f.data)
      BY <1>2, <1>3
      DEF WaitInv, RepliesTold, Told, ThreadsSeen, StatusSeen, TurnSeen, WaitTypeOK
    <2>2. \A op, data : Told(op, data) => Told(op, data)'
      BY <1>1 DEF Told, StatusSeen, TurnSeen, serverVars
    <2>3. QED
      BY <1>1, <2>1, <2>2 DEF WaitInv, RepliesTold
  <1>8. EndsSeen'
    <2>1. ASSUME thread[m.op.thread].turn = 0 PROVE EndSeen(m.op.thread, 0)
      <3> SUFFICES ASSUME baselines # <<>>, baselines[m.op.thread].turn # 0
                   PROVE  m.op.thread \in wasReady
        BY DEF EndSeen
      <3>1. Accounts(baselines, {}, N) /\ baselines \in Seq(Snapshots)
        BY DEF WaitInv, BaselinesWhole, WaitTypeOK
      <3>2. m.op.thread \in 1 .. Len(baselines)
        BY <1>2, <3>1, FS_EmptySet, LenProperties DEF Accounts, Targets
      <3>3. baselines[m.op.thread].thread = m.op.thread
        BY <3>1, <3>2 DEF Accounts
      <3>4. TurnSeen(m.op.thread, baselines[m.op.thread].turn)
        BY <3>2, <3>3 DEF WaitInv, SnapshotsSeen
      <3>5. QED
        BY <2>1, <3>4 DEF TurnSeen
    <2>2. \A h, t : EndSeen(h, t) => EndSeen(h, t)'
      BY <1>1 DEF EndSeen, serverVars, waitVars
    <2>3. \A f \in toClient' :
            InPass /\ f.kind = "result" /\ f.id = nextId[k] - 1
              /\ f.op.method = "thread/turns/list" => EndSeen(f.op.thread, f.data[2])
      BY <1>3, <2>1 DEF WaitInv, EndsSeen, EndSeen
    <2>4. InPass' = InPass /\ nextId' = nextId /\ answer' = answer /\ pass' = pass
      BY <1>1 DEF InPass, waitVars
    <2>5. QED
      BY <2>2, <2>3, <2>4 DEF WaitInv, EndsSeen
  <1>9. EveryTargetAccounted' /\ ReadyIsReal' /\ TimeoutHidesNothing'
    BY <1>1
    DEF WaitInv, EveryTargetAccounted, ReadyIsReal, TimeoutHidesNothing, serverVars, waitVars
  <1>10. QED
    BY <1>4, <1>5, <1>6, <1>7, <1>8, <1>9 DEF WaitInv

\* A thread changes: what was seen of it before stays accounted for.
LEMMA ThreadsMove ==
  ASSUME WaitInv, ConnTypeOK', OwnInv', NEW h \in Targets, ThreadStep(h)
  PROVE  WaitInv'
  <1>1. UNCHANGED <<connVars, waitVars>>
    BY DEF ThreadStep, Becomes
  <1>2. PICK t \in [status : Statuses, turn : 0 .. MaxTurns, turns : 0 .. MaxTurns] :
          Becomes(h, t)
    <2>1. thread[h] \in [status : Statuses, turn : 0 .. MaxTurns, turns : 0 .. MaxTurns]
      BY DEF WaitInv, WaitTypeOK
    <2>2. MaxTurns \in Nat /\ {Active, Asking, Idle} \subseteq Statuses
      BY WaitAssumption DEF Statuses
    <2>3. CASE thread[h].status = Idle /\ Becomes(h, [thread[h] EXCEPT !.status = Active])
      BY <2>1, <2>2, <2>3
    <2>4. CASE /\ thread[h].turns < MaxTurns
               /\ Becomes(h, [thread[h] EXCEPT !.turn = thread[h].turns + 1, !.turns = @ + 1])
      <3>1. thread[h].turns + 1 \in 0 .. MaxTurns
        BY <2>1, <2>2, <2>4
      <3>2. QED
        BY <2>1, <2>4, <3>1
    <2>5. CASE Becomes(h, [thread[h] EXCEPT !.status = Asking])
      BY <2>1, <2>2, <2>5
    <2>6. CASE Becomes(h, [thread[h] EXCEPT !.status = Active])
      BY <2>1, <2>2, <2>6
    <2>7. CASE Becomes(h, [thread[h] EXCEPT !.turn = 0])
      BY <2>1, <2>2, <2>7
    <2>8. CASE Becomes(h, [thread[h] EXCEPT !.status = Idle])
      BY <2>1, <2>2, <2>8
    <2>9. QED
      BY <2>3, <2>4, <2>5, <2>6, <2>7, <2>8 DEF ThreadStep
  <1>3. /\ thread' = [thread EXCEPT ![h] = t] /\ thread'[h] = t
        /\ \A g \in Targets \ {h} : thread'[g] = thread[g]
        /\ wasReady \subseteq wasReady' /\ wasReady' \subseteq wasReady \union {h}
        /\ t.status # Active => h \in wasReady'
        /\ thread[h].turn # 0 /\ t.turn = 0 => h \in wasReady'
    BY <1>2 DEF Becomes, WaitInv, WaitTypeOK
  <1>4. WaitTypeOK'
    BY <1>1, <1>2, <1>3 DEF WaitInv, WaitTypeOK, waitVars
  <1>5. AsksItsTarget' /\ OnlyReads' /\ PassAccounts' /\ BaselinesWhole'
    BY <1>1
    DEF WaitInv, AsksItsTarget, OnlyReads, PassAccounts, BaselinesWhole, Accounts, InPass,
        waitVars, connVars
  <1>6. \A g, s : StatusSeen(g, s) => StatusSeen(g, s)'
    BY <1>3 DEF StatusSeen
  <1>7. \A g, n : g \in Targets /\ TurnSeen(g, n) => TurnSeen(g, n)'
    BY <1>3 DEF TurnSeen
  <1>8. \A g, n : EndSeen(g, n) => EndSeen(g, n)'
    BY <1>1, <1>3 DEF EndSeen, waitVars
  <1>9. ThreadsSeen'
    BY <1>3, <1>6 DEF WaitInv, ThreadsSeen, StatusSeen
  <1>10. SnapshotsSeen'
    <2>1. /\ pc' = pc /\ at' = at /\ status' = status
          /\ pass' = pass /\ baselines' = baselines
      BY <1>1 DEF waitVars
    <2>2. \A s \in {pass, baselines} : \A i \in 1 .. Len(s) : s[i].thread \in Targets
      <3>1. pass \in Seq(Snapshots) /\ baselines \in Seq(Snapshots)
        BY DEF WaitInv, WaitTypeOK
      <3>2. \A s \in Seq(Snapshots) : \A i \in 1 .. Len(s) : s[i] \in Snapshots
        BY ElementOfSeq
      <3>3. QED
        BY <3>1, <3>2 DEF Snapshots
    <2>3. QED
      BY <1>6, <1>7, <2>1, <2>2 DEF WaitInv, SnapshotsSeen
  <1>11. RepliesTold'
    <2>1. \A op, data : Told(op, data) => Told(op, data)'
      BY <1>6, <1>7 DEF Told, Reading
    <2>2. QED
      BY <1>1, <2>1 DEF WaitInv, RepliesTold, connVars
  <1>12. EndsSeen'
    BY <1>1, <1>8 DEF WaitInv, EndsSeen, InPass, waitVars, connVars
  <1>13. EveryTargetAccounted' /\ ReadyIsReal' /\ TimeoutHidesNothing'
    BY <1>1, <1>3 DEF WaitInv, EveryTargetAccounted, ReadyIsReal, TimeoutHidesNothing, waitVars
  <1>14. QED
    BY <1>4, <1>5, <1>9, <1>10, <1>11, <1>12, <1>13 DEF WaitInv

-----------------------------------------------------------------------------

LEMMA WaitInvInit == Init => WaitInv
  <1> SUFFICES ASSUME Init PROVE WaitInv
    OBVIOUS
  <1>1. ConnTypeOK
    BY NoAnswerType, OneConnection, ConnectionAssumption
    DEF Init, ConnTypeOK, Phases, DispatchStates
  <1>2. OwnInv
    BY <1>1
    DEF Init, OwnInv, QuietUntilConnected, IdsIssued, LastIdNamesCurrent, AnswerIsOwn, NoAnswer
  <1>3. thread \in [Targets -> [status : Statuses, turn : 0 .. MaxTurns, turns : 0 .. MaxTurns]]
    BY WaitAssumption DEF Init, Statuses
  <1>4. WaitTypeOK
    BY <1>1, <1>3, EmptySeq, TargetsAreFinite, WaitAssumption
    DEF Init, WaitTypeOK, Statuses, NoResult, Results
  <1>5. AsksItsTarget /\ OnlyReads /\ EndsSeen /\ PassAccounts /\ BaselinesWhole
    BY DEF Init, AsksItsTarget, OnlyReads, EndsSeen, PassAccounts, BaselinesWhole, InPass
  <1>6. ThreadsSeen /\ RepliesTold /\ SnapshotsSeen
    BY OneConnection, EmptySeq
    DEF Init, ThreadsSeen, RepliesTold, SnapshotsSeen, StatusSeen, NoAnswer
  <1>7. EveryTargetAccounted /\ ReadyIsReal /\ TimeoutHidesNothing
    BY DEF Init, NoResult, EveryTargetAccounted, ReadyIsReal, TimeoutHidesNothing
  <1>8. QED
    BY <1>2, <1>4, <1>5, <1>6, <1>7 DEF WaitInv

LEMMA WaitInvStep ==
  ASSUME WaitInv, [Next]_vars
  PROVE  WaitInv'
  <1>1. ConnTypeOK' /\ OwnInv'
    BY ConnectionHolds DEF WaitInv
  <1>2. CASE WaitStep
    <2>1. CASE Begin \/ Wakes
      BY <1>1, <2>1, BeginPassStep DEF Begin, Wakes
    <2>2. CASE ReadReturned
      BY <1>1, <2>2, ReadReturnedStep
    <2>3. CASE QuietFails
      BY <1>1, <2>3, AbortStep DEF QuietFails
    <2>4. CASE Deadline
      BY <1>1, <2>4, DeadlineStep
    <2>5. QED
      BY <1>2, <2>1, <2>2, <2>3, <2>4 DEF WaitStep
  <1>3. CASE TimerStep \/ ConnStep
    BY <1>1, <1>3, ConnectionStep
  <1>4. ASSUME NEW m \in toServer, Serve(m) PROVE WaitInv'
    BY <1>1, <1>4, ServeStep
  <1>5. ASSUME NEW h \in Targets, ThreadStep(h) PROVE WaitInv'
    BY <1>1, <1>5, ThreadsMove
  <1>6. CASE UNCHANGED vars
    <2>1. UNCHANGED <<connVars, serverVars, waitVars>>
      BY <1>6 DEF vars
    <2>2. WaitTypeOK' /\ AsksItsTarget' /\ OnlyReads' /\ PassAccounts' /\ BaselinesWhole'
      BY <1>1, <2>1
      DEF WaitInv, WaitTypeOK, AsksItsTarget, OnlyReads, PassAccounts, BaselinesWhole,
          Accounts, InPass, connVars, serverVars, waitVars
    <2>3. ThreadsSeen' /\ RepliesTold' /\ SnapshotsSeen' /\ EndsSeen'
      BY <2>1
      DEF WaitInv, ThreadsSeen, RepliesTold, SnapshotsSeen, EndsSeen, Told, StatusSeen,
          TurnSeen, EndSeen, InPass, connVars, serverVars, waitVars
    <2>4. EveryTargetAccounted' /\ ReadyIsReal' /\ TimeoutHidesNothing'
      BY <2>1
      DEF WaitInv, EveryTargetAccounted, ReadyIsReal, TimeoutHidesNothing, serverVars, waitVars
    <2>5. QED
      BY <1>1, <2>2, <2>3, <2>4 DEF WaitInv
  <1>7. QED
    BY <1>2, <1>3, <1>4, <1>5, <1>6 DEF Next

LEMMA WaitInvHolds == Spec => []WaitInv
  BY WaitInvInit, WaitInvStep, PTL DEF Spec

\* Every reachable state of a call is well typed.
THEOREM WaitTyping == Spec => []WaitTypeOK
  <1>1. WaitInv => WaitTypeOK
    BY DEF WaitInv
  <1>2. QED
    BY <1>1, WaitInvHolds, PTL

\* A call that returns ready, errors or a timeout names each target exactly once.
THEOREM WaitAccountsForAll == Spec => []EveryTargetAccounted
  <1>1. WaitInv => EveryTargetAccounted
    BY DEF WaitInv
  <1>2. QED
    BY <1>1, WaitInvHolds, PTL

\* A trigger names a thread that had become ready at some moment of the call, also
\* when its two reads saw different moments or when a turn is gone since the last pass.
THEOREM WaitTriggersAreReal == Spec => []ReadyIsReal
  <1>1. WaitInv => ReadyIsReal
    BY DEF WaitInv
  <1>2. QED
    BY <1>1, WaitInvHolds, PTL

\* A timeout never carries a snapshot that is ready by itself.
THEOREM WaitTimeoutsHideNothing == Spec => []TimeoutHidesNothing
  <1>1. WaitInv => TimeoutHidesNothing
    BY DEF WaitInv
  <1>2. QED
    BY <1>1, WaitInvHolds, PTL
=============================================================================
