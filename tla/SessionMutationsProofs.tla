----------------------- MODULE SessionMutationsProofs -----------------------
(***************************************************************************)
(* What holds of any number of calls of the session-changing tools, for    *)
(* any number of turns of the thread they are about.                       *)
(***************************************************************************)
EXTENDS SessionMutations, AppServerConnectionProofs

\* What the connections guarantee whoever drives them.
SessionConnInv ==
  OwnInv /\ DispatchInv /\ AnsweredOnce /\ FailedMutationsMarked /\ AnsweredWhenReady

\* A mutation goes over the first connection and is the last request there.
MutationsLast ==
  /\ \A m \in toServer : m.op \in Mutations => m.id = nextId[m.conn] - 1
  /\ \A c \in Calls : current[Fresh(c)] \notin Mutations

\* What a read returned is a turn.
TurnsTold ==
  /\ \A f \in toClient :
       f.kind = "result" /\ f.op \notin Mutations \union {Initialize} => f.data \in 0 .. MaxTurns
  /\ \A j \in Conns :
       answer[j].category = "ok" /\ current[j] \notin Mutations \union {Initialize} =>
         answer[j].data \in 0 .. MaxTurns

\* Until it mutates a call has sent no mutation; from then on the last request on its
\* first connection is one.
MutatesThen(c) ==
  /\ pc[c] \in {"start", "opening", "status", "turns"} => current[First(c)] \notin Mutations
  /\ pc[c] \in {"status", "turns"} => current[First(c)] \notin {NoOp, Initialize}
  /\ pc[c] \in {"mutating", "starting", "reopening", "observing"} =>
       current[First(c)] \in Mutations
  /\ tool[c] = "thread_create" /\ pc[c] = "mutating" =>
       current[First(c)].method = "thread/start"
  /\ pc[c] = "starting" =>
       tool[c] = "thread_create" /\ current[First(c)].method = "turn/start"

MutatesInTime == \A c \in Calls : MutatesThen(c)

\* The mutation is the one the tool makes of what it has seen.
MutationFits(c) ==
  CASE tool[c] = "thread_create" ->
         /\ current[First(c)].method \in {"thread/start", "turn/start"}
         /\ current[First(c)].method = "turn/start" => applied[c][1] = 1
    [] tool[c] = "thread_interrupt" ->
         /\ current[First(c)] = Op("turn/interrupt", seen[c].turn)
         /\ seen[c].turn # 0
    [] tool[c] \in Messages /\ seen[c].active ->
         /\ current[First(c)] = Op("turn/steer", seen[c].turn)
         /\ seen[c].turn # 0
    [] OTHER -> TRUE

MutationsFit == \A c \in Calls : current[First(c)] \in Mutations => MutationFits(c)

\* What became of each change, as far as requests, replies and answers tell.
Effects ==
  /\ \A c \in Calls :
       /\ applied[c] \in [1 .. 2 -> {0, 1}]
       /\ current[First(c)] \notin Mutations => applied[c][1] = 0
       /\ applied[c][2] = 1 =>
            /\ tool[c] = "thread_create"
            /\ current[First(c)] \in Mutations /\ current[First(c)].method = "turn/start"
       /\ answer[First(c)].category = "ok" /\ current[First(c)] \in Mutations =>
            applied[c][ChangeOf([conn |-> First(c), op |-> current[First(c)]])] = 1
  /\ \A m \in toServer : m.op \in Mutations => applied[m.conn[1]][ChangeOf(m)] = 0
  /\ \A f \in toClient :
       f.kind = "result" /\ f.op \in Mutations => applied[f.conn[1]][ChangeOf(f)] = 1

\* What a call reported agrees with what became of its changes.
Need(c) == IF tool[c] = "thread_create" THEN {1, 2} ELSE {1}

ReportsHold ==
  \A c \in Calls :
    /\ pc[c] # "done" => verdict[c] = NoVerdict
    /\ ReportOf(c) = "done" => \A i \in Need(c) : applied[c][i] = 1
    /\ ReportOf(c) = "untouched" => current[First(c)] \notin Mutations

SessionInv ==
  /\ TypeOK /\ SessionConnInv /\ MutationsLast /\ TurnsTold
  /\ MutatesInTime /\ MutationsFit /\ Effects /\ ReportsHold

-----------------------------------------------------------------------------
(* Connections, requests and what the calls do with them.                  *)

LEMMA ConnsOfCalls ==
  /\ \A c \in Calls : /\ First(c) \in Conns /\ Fresh(c) \in Conns /\ First(c) # Fresh(c)
                      /\ First(c)[1] = c /\ Fresh(c)[1] = c
  /\ \A j \in Conns : j[1] \in Calls /\ (j = First(j[1]) \/ j = Fresh(j[1]))
  BY SessionAssumption DEF First, Fresh

LEMMA OpsOfThreads ==
  ASSUME NEW method \in ReadMethods \union Changes, NEW turn \in 0 .. MaxTurns
  PROVE  /\ Op(method, turn) \in Ops \ {Initialize}
         /\ Op(method, turn).method = method
         /\ Op(method, turn) \in Mutations <=> method \in Changes
  BY SessionAssumption DEF Op, ReadMethods, Changes

LEMMA RequestEffect ==
  ASSUME SessionConnInv, NEW j \in Conns, NEW op, Request(j, op)
  PROVE  /\ nextId' = [nextId EXCEPT ![j] = nextId[j] + 1]
         /\ current' = [current EXCEPT ![j] = op]
         /\ answer'[j].category # "ok"
         /\ \A i \in Conns \ {j} : answer'[i] = answer[i]
         /\ toServer' \in {toServer, toServer \union
                                       {[conn |-> j, id |-> nextId[j], op |-> op]}}
         /\ UNCHANGED toClient
  <1> USE DEF SessionConnInv, OwnInv, ConnTypeOK
  <1>1. PICK d \in DispatchStates :
          answer' \in {[answer EXCEPT ![j] = NoAnswer],
                       [answer EXCEPT ![j] = TransportError(op, d)]}
    BY DEF Request, DispatchStates
  <1>2. NoAnswer.category # "ok" /\ TransportError(op, d).category # "ok"
    BY TransportErrorFacts DEF NoAnswer
  <1>3. QED
    BY <1>1, <1>2 DEF Request

\* No mutation waits on a connection whose last request is a read, or was answered.
LEMMA NothingPending ==
  ASSUME SessionInv, NEW j \in Conns,
         current[j] \notin Mutations \/ answer[j].category = "ok"
  PROVE  \A m \in toServer : m.conn = j => m.op \notin Mutations
  BY DEF SessionInv, SessionConnInv, OwnInv, LastIdNamesCurrent, AnsweredOnce, MutationsLast

\* The turn a list of turns returned.
LEMMA TurnOfAnswer ==
  ASSUME SessionInv, NEW c \in Calls, pc[c] \in {"status", "turns"},
         answer[First(c)].category = "ok"
  PROVE  answer[First(c)].data \in 0 .. MaxTurns
  BY ConnsOfCalls DEF SessionInv, TurnsTold, MutatesInTime, MutatesThen

LEMMA StepsAreConnSteps ==
  ASSUME SessionInv, [Next]_vars
  PROVE  [ConnNext]_connVars
  <1>1. ASSUME NEW j \in Conns, NEW op \in Ops \ {Initialize}, Request(j, op) PROVE ConnNext
    BY <1>1 DEF ConnNext
  <1>2. ASSUME NEW j \in Conns, Open(j) PROVE ConnNext
    BY <1>2 DEF ConnNext, Handshake
  <1>3. ASSUME NEW c \in Calls, CallStep(c) PROVE ConnNext \/ UNCHANGED connVars
    <2> USE ConnsOfCalls
    <2>0. 0 \in 0 .. MaxTurns
      BY SessionAssumption
    <2>1. CASE Start(c)
      BY <2>1, <1>2 DEF Start, Finish
    <2>2. CASE Opened(c)
      <3>1. FirstMethod(tool[c]) \in ReadMethods \union Changes
        BY DEF FirstMethod, ReadMethods, Changes
      <3>2. QED
        BY <2>2, <2>0, <3>1, <1>1, OpsOfThreads DEF Opened, Ask, FinishWith, Finish
    <2>3. CASE StatusRead(c)
      <3>1. Op("thread/turns/list", 0) \in Ops \ {Initialize}
        BY <2>0, OpsOfThreads DEF ReadMethods
      <3>2. QED
        BY <2>3, <3>1, <1>1 DEF StatusRead, Ask, FinishWith, Finish
    <2>4. CASE TurnsRead(c)
      <3>1. ASSUME NEW turn \in 0 .. MaxTurns, Decide(c, turn)
            PROVE ConnNext \/ UNCHANGED connVars
        <4>1. /\ Op("turn/interrupt", turn) \in Ops \ {Initialize}
              /\ Op("turn/steer", turn) \in Ops \ {Initialize}
              /\ Op("turn/start", 0) \in Ops \ {Initialize}
          BY <2>0, OpsOfThreads DEF Changes
        <4>2. QED
          BY <3>1, <4>1, <1>1 DEF Decide, Ask, Finish
      <3>2. QED
        BY <2>4, <3>1, TurnOfAnswer DEF TurnsRead, FinishWith, Finish
    <2>5. CASE MutationReturned(c)
      <3>1. Op("turn/start", 0) \in Ops \ {Initialize}
        BY <2>0, OpsOfThreads DEF Changes
      <3>2. QED
        BY <2>5, <3>1, <1>1, <1>2 DEF MutationReturned, Ask, FinishWith, Finish
    <2>6. CASE Reopened(c)
      <3>1. Op("observe", 0) \in Ops \ {Initialize}
        BY <2>0, OpsOfThreads DEF ReadMethods
      <3>2. QED
        BY <2>6, <3>1, <1>1 DEF Reopened, Unknown, Ask, Finish
    <2>7. CASE Observed(c)
      BY <2>7 DEF Observed, Unknown, Finish
    <2>8. QED
      BY <1>3, <2>1, <2>2, <2>3, <2>4, <2>5, <2>6, <2>7 DEF CallStep
  <1>4. ASSUME NEW j \in Conns, ConnStep(j) PROVE ConnNext
    BY <1>4 DEF ConnStep, ConnNext, Handshake, Environment
  <1>5. ASSUME NEW m \in toServer, Serve(m) PROVE ConnNext
    <2>1. \E kind \in ReplyKinds, data \in Payloads : Reply(m, kind, data)
      <3>1. NoData \in Payloads /\ Odd \in Payloads /\ activeTurn \in Payloads
        BY SessionAssumption DEF SessionInv, TypeOK
      <3>2. QED
        BY <1>5, <3>1 DEF Serve, ServeThread, Apply, Reject, ReplyKinds
    <2>2. QED
      BY <2>1 DEF ConnNext, Environment
  <1>6. CASE TurnEnds \/ TurnStarts \/ UNCHANGED vars
    BY <1>6 DEF TurnEnds, TurnStarts, vars
  <1>7. QED
    BY <1>3, <1>4, <1>5, <1>6 DEF Next

LEMMA SessionConnHolds ==
  ASSUME SessionInv, [Next]_vars
  PROVE  SessionConnInv'
  <1>1. [ConnNext]_connVars
    BY StepsAreConnSteps
  <1>2. ConnTypeOK'
    BY <1>1, ConnTypingStep DEF SessionInv, SessionConnInv, OwnInv
  <1>3. OwnInv'
    BY <1>1, <1>2, OwnInvStep, QuietStep DEF SessionInv, SessionConnInv, OwnInv
  <1>4. DispatchInv' /\ FailedMutationsMarked'
    BY <1>1, <1>2, DispatchInvStep, FailedMutationsMarkedStep
    DEF SessionInv, SessionConnInv, DispatchInv
  <1>5. AnsweredOnce' /\ AnsweredWhenReady'
    BY <1>1, AnsweredOnceStep, AnsweredWhenReadyStep DEF SessionInv, SessionConnInv
  <1>6. QED
    BY <1>3, <1>4, <1>5 DEF SessionConnInv

-----------------------------------------------------------------------------
(* What a call does to the invariant: it returns, or it sends a request.   *)

\* The parts about one call hold of the calls a step leaves alone.
LEMMA CallReturns ==
  ASSUME SessionInv, SessionConnInv', NEW c \in Calls, pc[c] # "done",
         NEW category \in Categories \union {"not_interrupted", "policy_rejected",
                                             "native_conflict", "malformed_result"},
         NEW mark \in DispatchMarks, NEW observation \in {"none", "seen", "failed"},
         Finish(c, category, mark, observation), UNCHANGED <<threadVars, tool>>,
         category = "ok" => \A i \in Need(c) : applied[c][i] = 1,
         category \notin {"none", "ok", "malformed_result"} /\ mark = "absent" =>
           current[First(c)] \notin Mutations,
         seen' \in [Calls -> [active : BOOLEAN, turn : 0 .. MaxTurns]],
         \A d \in Calls : seen'[d] = seen[d] \/ current[First(d)] \notin Mutations
  PROVE  SessionInv'
  <1> USE DEF Finish, threadVars
  <1>1. TypeOK'
    BY DEF SessionInv, SessionConnInv, OwnInv, TypeOK
  <1>2. MutationsLast' /\ TurnsTold'
    BY DEF SessionInv, MutationsLast, TurnsTold, connVars
  <1>3. MutatesInTime'
    BY DEF SessionInv, TypeOK, MutatesInTime, MutatesThen, connVars
  <1>4. MutationsFit'
    BY DEF SessionInv, MutationsFit, MutationFits, connVars
  <1>5. Effects'
    BY DEF SessionInv, Effects, ChangeOf, connVars
  <1>6. ReportsHold'
    BY DEF SessionInv, TypeOK, ReportsHold, ReportOf, Need, connVars
  <1>7. QED
    BY <1>1, <1>2, <1>3, <1>4, <1>5, <1>6 DEF SessionInv

LEMMA CallRequests ==
  ASSUME SessionInv, SessionConnInv', NEW c \in Calls, pc[c] # "done",
         NEW j \in {First(c), Fresh(c)}, NEW op \in Ops \ {Initialize},
         NEW next \in {"status", "turns", "mutating", "starting", "observing"},
         Ask(c, j, op, next), UNCHANGED <<threadVars, tool>>,
         current[j] \notin Mutations \/ answer[j].category = "ok",
         op \notin Mutations /\ j = First(c) => current[j] \notin Mutations,
         op \in Mutations =>
           /\ j = First(c) /\ MutationFits(c)'
           /\ applied[c][ChangeOf([conn |-> j, op |-> op])] = 0 /\ applied[c][2] = 0,
         MutatesThen(c)',
         seen' \in [Calls -> [active : BOOLEAN, turn : 0 .. MaxTurns]],
         \A d \in Calls : seen'[d] = seen[d] \/ (d = c /\ current[First(d)] \notin Mutations)
  PROVE  SessionInv'
  <1> DEFINE msg == [conn |-> j, id |-> nextId[j], op |-> op]
  <1>1. /\ j \in Conns /\ j[1] = c
        /\ \A d \in Calls : First(d) \in Conns /\ Fresh(d) \in Conns
        /\ \A d \in Calls : d # c => First(d) # j /\ Fresh(d) # j
        /\ j # First(c) => j = Fresh(c)
        /\ First(c) # Fresh(c)
    BY ConnsOfCalls
  <1>2. /\ nextId' = [nextId EXCEPT ![j] = nextId[j] + 1]
        /\ current' = [current EXCEPT ![j] = op]
        /\ answer'[j].category # "ok"
        /\ \A i \in Conns \ {j} : answer'[i] = answer[i]
        /\ toServer' \in {toServer, toServer \union {msg}}
        /\ UNCHANGED toClient
    BY <1>1, RequestEffect DEF SessionInv, Ask
  <1>3. /\ DOMAIN nextId = Conns /\ DOMAIN current = Conns /\ nextId[j] \in Nat
        /\ \A m \in toServer : m.conn \in Conns
        /\ \A f \in toClient : f.conn \in Conns
    BY <1>1 DEF SessionInv, TypeOK, ConnTypeOK, Requests, Frames
  <1>4. \A m \in toServer : m.conn = j => m.op \notin Mutations
    BY <1>1, NothingPending
  <1>5. pc' = [pc EXCEPT ![c] = next] /\ UNCHANGED <<verdict, tool, applied, activeTurn, lastTurn>>
    BY DEF Ask, threadVars
  <1>6. TypeOK'
    BY <1>5 DEF SessionInv, SessionConnInv, OwnInv, TypeOK
  <1>7. MutationsLast'
    <2>1. ASSUME NEW m \in toServer', m.op \in Mutations
          PROVE m.id = nextId'[m.conn] - 1
      <3>1. CASE m = msg
        BY <1>1, <1>2, <1>3, <3>1
      <3>2. CASE m \in toServer
        <4>1. m.conn # j
          BY <1>4, <2>1, <3>2
        <4>2. nextId'[m.conn] = nextId[m.conn]
          BY <1>2, <1>3, <3>2, <4>1
        <4>3. QED
          BY <2>1, <3>2, <4>2 DEF SessionInv, MutationsLast
      <3>3. QED
        BY <1>2, <3>1, <3>2
    <2>2. ASSUME NEW d \in Calls PROVE current'[Fresh(d)] \notin Mutations
      BY <1>1, <1>2, <1>3 DEF SessionInv, MutationsLast
    <2>3. QED
      BY <2>1, <2>2 DEF MutationsLast
  <1>8. TurnsTold'
    BY <1>1, <1>2, <1>3 DEF SessionInv, TurnsTold
  <1>9. MutatesInTime'
    <2>1. ASSUME NEW d \in Calls, d # c PROVE MutatesThen(d)'
      BY <1>1, <1>2, <1>3, <1>5, <2>1 DEF SessionInv, MutatesInTime, MutatesThen, TypeOK
    <2>2. QED
      BY <2>1 DEF MutatesInTime
  <1>10. MutationsFit'
    <2>1. ASSUME NEW d \in Calls, d # c, current'[First(d)] \in Mutations
          PROVE MutationFits(d)'
      BY <1>1, <1>2, <1>3, <1>5, <2>1 DEF SessionInv, MutationsFit, MutationFits
    <2>2. ASSUME current'[First(c)] \in Mutations, op \notin Mutations PROVE MutationFits(c)'
      BY <1>1, <1>2, <1>3, <1>5, <2>2 DEF SessionInv, MutationsFit, MutationFits
    <2>3. QED
      BY <2>1, <2>2 DEF MutationsFit
  <1>11. Effects'
    <2>1. ASSUME NEW d \in Calls
          PROVE /\ applied'[d] \in [1 .. 2 -> {0, 1}]
                /\ current'[First(d)] \notin Mutations => applied'[d][1] = 0
                /\ applied'[d][2] = 1 =>
                     /\ tool'[d] = "thread_create"
                     /\ current'[First(d)] \in Mutations
                     /\ current'[First(d)].method = "turn/start"
                /\ answer'[First(d)].category = "ok" /\ current'[First(d)] \in Mutations =>
                     applied'[d][ChangeOf([conn |-> First(d), op |-> current[First(d)]])'] = 1
      <3>1. CASE First(d) = j
        <4>1. d = c
          BY <1>1, <3>1
        <4>2. QED
          BY <1>1, <1>2, <1>3, <1>5, <3>1, <4>1 DEF SessionInv, Effects, ChangeOf
      <3>2. CASE First(d) # j
        BY <1>1, <1>2, <1>3, <1>5, <3>2 DEF SessionInv, Effects, ChangeOf
      <3>3. QED
        BY <3>1, <3>2
    <2>2. ASSUME NEW m \in toServer', m.op \in Mutations
          PROVE applied'[m.conn[1]][ChangeOf(m)'] = 0
      <3>1. CASE m = msg
        BY <1>1, <1>5, <2>2, <3>1 DEF ChangeOf
      <3>2. CASE m \in toServer
        BY <1>5, <2>2, <3>2 DEF SessionInv, Effects, ChangeOf
      <3>3. QED
        BY <1>2, <3>1, <3>2
    <2>3. ASSUME NEW f \in toClient', f.kind = "result", f.op \in Mutations
          PROVE applied'[f.conn[1]][ChangeOf(f)'] = 1
      BY <1>2, <1>5, <2>3 DEF SessionInv, Effects, ChangeOf
    <2>4. QED
      BY <2>1, <2>2, <2>3 DEF Effects
  <1>12. ReportsHold'
    <2>1. ASSUME NEW d \in Calls PROVE d = c \/ current'[First(d)] = current[First(d)]
      BY <1>1, <1>2, <1>3
    <2>2. next # "done" /\ verdict[c] = NoVerdict /\ ReportOf(c)' = "none"
      BY <1>5 DEF SessionInv, ReportsHold, ReportOf, NoVerdict
    <2>3. QED
      BY <1>5, <2>1, <2>2 DEF SessionInv, ReportsHold, ReportOf, Need, TypeOK
  <1>13. QED
    BY <1>6, <1>7, <1>8, <1>9, <1>10, <1>11, <1>12 DEF SessionInv

\* A call starts to connect.
LEMMA CallOpens ==
  ASSUME SessionInv, SessionConnInv', NEW c \in Calls, pc[c] # "done",
         NEW j \in Conns, Open(j), NEW next \in {"opening", "reopening"},
         pc' = [pc EXCEPT ![c] = next],
         UNCHANGED <<threadVars, tool, seen, verdict>>,
         MutatesThen(c)'
  PROVE  SessionInv'
  <1> USE DEF Open, threadVars
  <1>1. TypeOK'
    BY DEF SessionInv, SessionConnInv, OwnInv, TypeOK
  <1>2. MutationsLast' /\ TurnsTold' /\ MutationsFit'
    BY DEF SessionInv, MutationsLast, TurnsTold, MutationsFit, MutationFits
  <1>3. MutatesInTime'
    BY DEF SessionInv, TypeOK, MutatesInTime, MutatesThen
  <1>4. Effects'
    BY DEF SessionInv, Effects, ChangeOf
  <1>5. ReportsHold'
    BY DEF SessionInv, TypeOK, ReportsHold, ReportOf, Need
  <1>6. QED
    BY <1>1, <1>2, <1>3, <1>4, <1>5 DEF SessionInv

\* A connection the call does not drive connects, or reads what was sent to it.
LEMMA ConnStepEffect ==
  ASSUME SessionInv, NEW j \in Conns, ConnStep(j)
  PROVE  /\ UNCHANGED <<threadVars, callVars>>
         /\ toClient' \subseteq toClient
         /\ \A i \in Conns :
              answer'[i].category = "ok" =>
                \/ answer'[i] = answer[i] /\ current'[i] = current[i]
                \/ \E f \in toClient :
                     /\ f.kind = "result" /\ f.conn = i /\ f.op = current[i]
                     /\ answer'[i].data = f.data /\ current'[i] = current[i]
         /\ \/ UNCHANGED <<nextId, current, toServer>>
            \/ /\ current[j] \in {NoOp, Initialize}
               /\ nextId' = [nextId EXCEPT ![j] = nextId[j] + 1]
               /\ current' = [current EXCEPT ![j] = Initialize]
               /\ toServer' = toServer \union
                                {[conn |-> j, id |-> nextId[j], op |-> Initialize]}
  <1> USE DEF SessionInv, SessionConnInv, OwnInv, ConnTypeOK
  <1>1. /\ \A i \in Conns : dispatch[i] \in DispatchStates
        /\ DOMAIN phase = Conns /\ DOMAIN answer = Conns /\ DOMAIN current = Conns
    OBVIOUS
  <1>2. UNCHANGED <<threadVars, callVars>>
    BY DEF ConnStep
  <1>3. CASE Connected(j)
    <2>1. current[j] \in {NoOp, Initialize} /\ answer[j].category # "ok"
      BY <1>3 DEF Connected, DispatchInv, HandshakeFirst, AnsweredWhenReady
    <2>2. QED
      BY <1>1, <1>2, <1>3, <2>1 DEF Connected
  <1>4. CASE ConnectFails(j) \/ ConnectTimesOut(j)
    <2>1. /\ Failure("authority_transport_failure", "absent").category # "ok"
          /\ Failure("stage_timeout", "absent").category # "ok"
      BY DEF Failure, NoAnswer
    <2>2. QED
      BY <1>1, <1>2, <1>4, <2>1 DEF ConnectFails, ConnectTimesOut, HandshakeFails
  <1>5. ASSUME NEW f \in toClient, Initialized(j, f)
        PROVE /\ toClient' \subseteq toClient
              /\ UNCHANGED <<nextId, current, toServer>>
              /\ \A i \in Conns : answer'[i].category = "ok" => answer'[i] = answer[i]
    <2>1. /\ Failure("authority_transport_failure", "absent").category # "ok"
          /\ Failure("target_unavailable", "absent").category # "ok"
      BY DEF Failure, NoAnswer
    <2>2. QED
      BY <1>1, <1>5, <2>1 DEF Initialized, HandshakeFails
  <1>6. CASE Reads(j)
    <2>1. ASSUME NEW f \in toClient, ReceiveReply(j, f)
          PROVE /\ toClient' \subseteq toClient
                /\ UNCHANGED <<nextId, current, toServer>>
                /\ \A i \in Conns :
                     answer'[i].category = "ok" =>
                       \/ answer'[i] = answer[i]
                       \/ /\ f.kind = "result" /\ f.conn = i /\ f.op = current[i]
                          /\ answer'[i].data = f.data
      <3> DEFINE d == IF current[j] \in Mutations
                      THEN "correlated_result_received" ELSE dispatch[j]
      <3>1. /\ f \in Frames /\ f.kind # "request" /\ f.conn = j
            /\ f.op = current[j] /\ d \in DispatchStates
        BY <2>1 DEF ReceiveReply, Correlated, LastIdNamesCurrent, DispatchStates
      <3>2. ReplyAnswer(f, current[j], d).category = "ok" =>
              f.kind = "result" /\ ReplyAnswer(f, current[j], d).data = f.data
        BY <3>1, ReplyAnswerFacts
      <3>3. answer' = [answer EXCEPT ![j] = ReplyAnswer(f, current[j], d)]
        BY <2>1 DEF ReceiveReply, Returns
      <3>4. QED
        BY <1>1, <2>1, <3>1, <3>2, <3>3 DEF ReceiveReply
    <2>2. ASSUME NEW f \in toClient, SkipFrame(j, f)
          PROVE toClient' \subseteq toClient /\ UNCHANGED <<nextId, current, toServer, answer>>
      BY <2>2 DEF SkipFrame
    <2>3. ASSUME ReadFails(j) \/ TimesOut(j)
          PROVE /\ UNCHANGED <<nextId, current, toServer, toClient>>
                /\ \A i \in Conns : answer'[i].category = "ok" => answer'[i] = answer[i]
      <3>1. \A op : /\ TimeoutError(op).category # "ok"
                    /\ TransportError(op, dispatch[j]).category # "ok"
        BY <1>1, TimeoutErrorFacts, TransportErrorFacts
      <3>2. QED
        BY <1>1, <2>3, <3>1 DEF ReadFails, TimesOut, Returns, HandshakeFails
    <2>4. QED
      BY <1>2, <1>6, <2>1, <2>2, <2>3 DEF Reads
  <1>7. CASE LinkDrops(j)
    BY <1>2, <1>7 DEF LinkDrops
  <1>8. QED
    BY <1>2, <1>3, <1>4, <1>5, <1>6, <1>7 DEF ConnStep

LEMMA ConnStepKeeps ==
  ASSUME SessionInv, SessionConnInv', NEW j \in Conns, ConnStep(j)
  PROVE  SessionInv'
  <1>1. /\ UNCHANGED <<activeTurn, lastTurn, applied, tool, pc, seen, verdict>>
        /\ toClient' \subseteq toClient
        /\ \A i \in Conns :
             answer'[i].category = "ok" =>
               \/ answer'[i] = answer[i] /\ current'[i] = current[i]
               \/ \E f \in toClient :
                    /\ f.kind = "result" /\ f.conn = i /\ f.op = current[i]
                    /\ answer'[i].data = f.data /\ current'[i] = current[i]
    BY ConnStepEffect DEF threadVars, callVars
  <1>2. Initialize \notin Mutations /\ NoOp \notin Mutations
    BY ConnectionAssumption
  <1>3. /\ \A i \in Conns : \/ current'[i] = current[i]
                            \/ current[i] \in {NoOp, Initialize} /\ current'[i] = Initialize
        /\ \A m \in toServer' : m.op \in Mutations =>
             m \in toServer /\ nextId'[m.conn] = nextId[m.conn]
    <2>1. CASE UNCHANGED <<nextId, current, toServer>>
      BY <2>1
    <2>2. CASE /\ current[j] \in {NoOp, Initialize}
               /\ nextId' = [nextId EXCEPT ![j] = nextId[j] + 1]
               /\ current' = [current EXCEPT ![j] = Initialize]
               /\ toServer' = toServer \union
                                {[conn |-> j, id |-> nextId[j], op |-> Initialize]}
      <3>1. /\ DOMAIN nextId = Conns /\ DOMAIN current = Conns
            /\ \A m \in toServer : m.conn \in Conns
        BY DEF SessionInv, TypeOK, ConnTypeOK, Requests
      <3>2. \A m \in toServer : m.conn = j => m.op \notin Mutations
        BY <1>2, <2>2, NothingPending
      <3>3. QED
        BY <1>2, <2>2, <3>1, <3>2
    <2>3. QED
      BY <2>1, <2>2, ConnStepEffect
  <1>4. \A c \in Calls : /\ First(c) \in Conns /\ Fresh(c) \in Conns
                         /\ (current'[First(c)] \in Mutations <=> current[First(c)] \in Mutations)
                         /\ current[First(c)] \in Mutations =>
                              current'[First(c)] = current[First(c)]
    BY <1>2, <1>3, ConnsOfCalls
  <1>5. TypeOK'
    BY <1>1 DEF SessionInv, SessionConnInv, OwnInv, TypeOK
  <1>6. MutationsLast'
    BY <1>2, <1>3, <1>4 DEF SessionInv, MutationsLast
  <1>7. TurnsTold'
    BY <1>1 DEF SessionInv, TurnsTold
  <1>8. MutatesInTime'
    BY <1>1, <1>2, <1>3, <1>4 DEF SessionInv, MutatesInTime, MutatesThen
  <1>9. MutationsFit'
    BY <1>1, <1>4 DEF SessionInv, MutationsFit, MutationFits
  <1>10. Effects'
    <2>1. ASSUME NEW c \in Calls, answer'[First(c)].category = "ok",
                 current'[First(c)] \in Mutations
          PROVE applied[c][ChangeOf([conn |-> First(c), op |-> current'[First(c)]])] = 1
      <3>1. CASE answer'[First(c)] = answer[First(c)]
        BY <1>4, <2>1, <3>1 DEF SessionInv, Effects
      <3>2. ASSUME NEW f \in toClient, f.kind = "result", f.conn = First(c),
                   f.op = current[First(c)]
            PROVE applied[c][ChangeOf([conn |-> First(c), op |-> current'[First(c)]])] = 1
        BY <1>4, <2>1, <3>2, ConnsOfCalls DEF SessionInv, Effects, ChangeOf
      <3>3. QED
        BY <1>1, <1>4, <2>1, <3>1, <3>2
    <2>2. ASSUME NEW c \in Calls
          PROVE
            /\ applied'[c] \in [1 .. 2 -> {0, 1}]
            /\ current'[First(c)] \notin Mutations => applied'[c][1] = 0
            /\ applied'[c][2] = 1 =>
                 /\ tool'[c] = "thread_create"
                 /\ current'[First(c)] \in Mutations
                 /\ current'[First(c)].method = "turn/start"
      <3>1. /\ applied[c] \in [1 .. 2 -> {0, 1}]
            /\ current[First(c)] \notin Mutations => applied[c][1] = 0
            /\ applied[c][2] = 1 =>
                 /\ tool[c] = "thread_create"
                 /\ current[First(c)] \in Mutations
                 /\ current[First(c)].method = "turn/start"
        BY DEF SessionInv, Effects
      <3>2. QED
        BY <1>1, <1>4, <3>1
    <2>3. /\ \A m \in toServer' : m.op \in Mutations => applied'[m.conn[1]][ChangeOf(m)'] = 0
          /\ \A f \in toClient' : f.kind = "result" /\ f.op \in Mutations =>
                                    applied'[f.conn[1]][ChangeOf(f)'] = 1
      BY <1>1, <1>3 DEF SessionInv, Effects, ChangeOf
    <2>4. \A c \in Calls :
            answer'[First(c)].category = "ok" /\ current'[First(c)] \in Mutations =>
              applied'[c][ChangeOf([conn |-> First(c), op |-> current[First(c)]])'] = 1
      BY <1>1, <2>1 DEF ChangeOf
    <2>5. QED
      BY <2>2, <2>3, <2>4 DEF Effects
  <1>11. ReportsHold'
    BY <1>1, <1>4 DEF SessionInv, ReportsHold, ReportOf, Need
  <1>12. QED
    BY <1>5, <1>6, <1>7, <1>8, <1>9, <1>10, <1>11 DEF SessionInv

-----------------------------------------------------------------------------
(* The server and the other clients.                                       *)

\* A waiting mutation is the last request of its call's first connection, and its
\* change was not made yet.
LEMMA PendingMutation ==
  ASSUME SessionInv, NEW m \in toServer, m.op \in Mutations
  PROVE  /\ m.conn[1] \in Calls /\ m.conn = First(m.conn[1])
         /\ m.op = current[First(m.conn[1])]
         /\ applied[m.conn[1]][ChangeOf(m)] = 0
         /\ \A n \in toServer : n.op \in Mutations /\ n.conn[1] = m.conn[1] => n = m
  <1>1. \A n \in toServer :
          n.op \in Mutations =>
            /\ n.conn \in Conns /\ n.conn = First(n.conn[1])
            /\ n.id = nextId[n.conn] - 1 /\ n.op = current[n.conn]
    <2>1. ASSUME NEW n \in toServer, n.op \in Mutations
          PROVE /\ n.conn \in Conns
                /\ n.id = nextId[n.conn] - 1 /\ n.op = current[n.conn]
      BY <2>1
      DEF SessionInv, TypeOK, ConnTypeOK, Requests, SessionConnInv, OwnInv, LastIdNamesCurrent,
          MutationsLast
    <2>2. ASSUME NEW n \in toServer, n.op \in Mutations PROVE n.conn = First(n.conn[1])
      BY <2>1, <2>2, ConnsOfCalls DEF SessionInv, MutationsLast
    <2>3. QED
      BY <2>1, <2>2
  <1>2. \A n \in toServer : n.op \in Mutations /\ n.conn[1] = m.conn[1] => n = m
    BY <1>1 DEF SessionInv, SessionConnInv, AnsweredOnce
  <1>3. QED
    BY <1>1, <1>2, ConnsOfCalls DEF SessionInv, Effects

\* A reply without an effect on the thread: a result of a read, or no result.
LEMMA ReplyKeeps ==
  ASSUME SessionInv, SessionConnInv', NEW m \in toServer, NEW kind, NEW data,
         Reply(m, kind, data), UNCHANGED <<threadVars, callVars>>,
         kind = "result" => m.op \notin Mutations,
         kind = "result" /\ m.op # Initialize => data \in 0 .. MaxTurns
  PROVE  SessionInv'
  <1>1. /\ UNCHANGED <<activeTurn, lastTurn, applied, tool, pc, seen, verdict>>
        /\ UNCHANGED <<nextId, current, answer>>
        /\ toServer' \subseteq toServer
        /\ \A f \in toClient' :
             \/ f \in toClient
             \/ f.kind = kind /\ f.op = m.op /\ f.data = data
    BY DEF Reply, threadVars, callVars
  <1>2. TypeOK'
    BY <1>1 DEF SessionInv, SessionConnInv, OwnInv, TypeOK
  <1>3. MutationsLast'
    BY <1>1 DEF SessionInv, MutationsLast
  <1>4. TurnsTold'
    BY <1>1 DEF SessionInv, TurnsTold
  <1>5. MutatesInTime' /\ MutationsFit'
    BY <1>1 DEF SessionInv, MutatesInTime, MutatesThen, MutationsFit, MutationFits
  <1>6. Effects'
    BY <1>1 DEF SessionInv, Effects, ChangeOf
  <1>7. ReportsHold'
    BY <1>1 DEF SessionInv, ReportsHold, ReportOf, Need
  <1>8. QED
    BY <1>2, <1>3, <1>4, <1>5, <1>6, <1>7 DEF SessionInv

\* The change is made once; its call may still learn of it.
LEMMA ApplyKeeps ==
  ASSUME SessionInv, SessionConnInv', NEW m \in toServer, m.op \in Mutations, Apply(m),
         UNCHANGED callVars, activeTurn' \in 0 .. MaxTurns, lastTurn' \in 0 .. MaxTurns
  PROVE  SessionInv'
  <1> DEFINE c == m.conn[1]
             i == ChangeOf(m)
  <1>1. /\ c \in Calls /\ m.conn = First(c) /\ m.op = current[First(c)]
        /\ applied[c][i] = 0 /\ i \in 1 .. 2
        /\ \A n \in toServer : n.op \in Mutations /\ n.conn[1] = c => n = m
    BY PendingMutation DEF ChangeOf
  <1>2. /\ UNCHANGED <<tool, pc, seen, verdict>>
        /\ UNCHANGED <<nextId, current, answer>>
        /\ toServer' = toServer \ {m}
        /\ \A f \in toClient' :
             f \in toClient \/ (f.conn = m.conn /\ f.op = m.op)
    BY DEF Apply, Reply, callVars
  <1>3. \A d \in Calls : applied[d] \in [1 .. 2 -> {0, 1}]
    BY DEF SessionInv, Effects
  <1>4. /\ DOMAIN applied = Calls /\ DOMAIN applied[c] = 1 .. 2
        /\ applied' = [applied EXCEPT ![c] = [applied[c] EXCEPT ![i] = applied[c][i] + 1]]
    BY <1>1 DEF SessionInv, TypeOK, Apply
  <1>5. /\ \A d \in Calls : d # c => applied'[d] = applied[d]
        /\ applied'[c] \in [1 .. 2 -> {0, 1}]
        /\ applied'[c][i] = 1
        /\ \A l \in 1 .. 2 : l # i => applied'[c][l] = applied[c][l]
    BY <1>1, <1>3, <1>4
  <1>6. \A d \in Calls : /\ applied'[d] \in [1 .. 2 -> {0, 1}]
                         /\ \A l \in 1 .. 2 : applied[d][l] = 1 => applied'[d][l] = 1
    BY <1>1, <1>3, <1>5
  <1>7. TypeOK'
    <2>1. applied' \in [Calls -> [1 .. 2 -> Nat]]
      <3>1. applied \in [Calls -> [1 .. 2 -> Nat]] /\ applied[c][i] + 1 \in Nat
        BY <1>1 DEF SessionInv, TypeOK
      <3>2. QED
        BY <1>1, <1>4, <3>1
    <2>2. QED
      BY <1>2, <2>1 DEF SessionInv, SessionConnInv, OwnInv, TypeOK
  <1>8. MutationsLast'
    BY <1>2 DEF SessionInv, MutationsLast
  <1>9. TurnsTold'
    BY <1>2 DEF SessionInv, TurnsTold
  <1>10. MutatesInTime'
    BY <1>2 DEF SessionInv, MutatesInTime, MutatesThen
  <1>11. MutationsFit'
    BY <1>2, <1>6 DEF SessionInv, MutationsFit, MutationFits
  <1>12. Effects'
    <2>1. ASSUME NEW d \in Calls
          PROVE /\ current'[First(d)] \notin Mutations => applied'[d][1] = 0
                /\ applied'[d][2] = 1 =>
                     /\ tool'[d] = "thread_create"
                     /\ current'[First(d)] \in Mutations
                     /\ current'[First(d)].method = "turn/start"
      <3>1. /\ current[First(d)] \notin Mutations => applied[d][1] = 0
            /\ applied[d][2] = 1 =>
                 /\ tool[d] = "thread_create"
                 /\ current[First(d)] \in Mutations
                 /\ current[First(d)].method = "turn/start"
        BY DEF SessionInv, Effects
      <3>2. CASE d # c
        BY <1>2, <1>5, <3>1, <3>2
      <3>3. CASE d = c
        <4>1. i = 2 => tool[c] = "thread_create" /\ m.op.method = "turn/start"
          BY DEF ChangeOf
        <4>2. QED
          BY <1>1, <1>2, <1>5, <3>1, <3>3, <4>1
      <3>4. QED
        BY <3>2, <3>3
    <2>2. ASSUME NEW d \in Calls, answer'[First(d)].category = "ok",
                 current'[First(d)] \in Mutations
          PROVE applied'[d][ChangeOf([conn |-> First(d), op |-> current[First(d)]])'] = 1
      <3>1. ChangeOf([conn |-> First(d), op |-> current[First(d)]])'
              = ChangeOf([conn |-> First(d), op |-> current[First(d)]])
        BY <1>2 DEF ChangeOf
      <3>2. ChangeOf([conn |-> First(d), op |-> current[First(d)]]) \in 1 .. 2
        BY DEF ChangeOf
      <3>3. applied[d][ChangeOf([conn |-> First(d), op |-> current[First(d)]])] = 1
        BY <1>2, <2>2 DEF SessionInv, Effects
      <3>4. QED
        BY <1>6, <3>1, <3>2, <3>3
    <2>3. ASSUME NEW n \in toServer', n.op \in Mutations
          PROVE applied'[n.conn[1]][ChangeOf(n)'] = 0
      <3>1. n.conn[1] \in Calls /\ n.conn[1] # c /\ applied[n.conn[1]][ChangeOf(n)] = 0
        BY <1>1, <1>2, <2>3, PendingMutation
      <3>2. QED
        BY <1>2, <1>5, <3>1 DEF ChangeOf
    <2>4. ASSUME NEW f \in toClient', f.kind = "result", f.op \in Mutations
          PROVE applied'[f.conn[1]][ChangeOf(f)'] = 1
      <3>1. ChangeOf(f)' = ChangeOf(f) /\ ChangeOf(f) \in 1 .. 2
        BY <1>2 DEF ChangeOf
      <3>2. CASE f \in toClient
        <4>1. f.conn[1] \in Calls
          BY <3>2, ConnsOfCalls DEF SessionInv, TypeOK, ConnTypeOK, Frames
        <4>2. applied[f.conn[1]][ChangeOf(f)] = 1
          BY <2>4, <3>2 DEF SessionInv, Effects
        <4>3. QED
          BY <1>6, <3>1, <4>1, <4>2
      <3>3. CASE f.conn = m.conn /\ f.op = m.op
        <4>1. ChangeOf(f) = i
          BY <3>3 DEF ChangeOf
        <4>2. QED
          BY <1>5, <3>1, <3>3, <4>1
      <3>4. QED
        BY <1>2, <3>2, <3>3
    <2>5. QED
      BY <1>6, <2>1, <2>2, <2>3, <2>4 DEF Effects
  <1>13. ReportsHold'
    BY <1>2, <1>6 DEF SessionInv, ReportsHold, ReportOf, Need
  <1>14. QED
    BY <1>7, <1>8, <1>9, <1>10, <1>11, <1>12, <1>13 DEF SessionInv

\* What serving a request can be.
LEMMA ServeCases ==
  ASSUME SessionInv, NEW m \in toServer, Serve(m)
  PROVE  /\ UNCHANGED callVars
         /\ \/ /\ m.op \in Mutations /\ Apply(m)
               /\ activeTurn' \in 0 .. MaxTurns /\ lastTurn' \in 0 .. MaxTurns
            \/ /\ UNCHANGED threadVars
               /\ \E kind \in ReplyKinds, data \in {NoData, activeTurn} :
                    /\ Reply(m, kind, data)
                    /\ kind = "result" => m.op \notin Mutations
                    /\ kind = "result" /\ m.op # Initialize => data \in 0 .. MaxTurns
  <1>1. activeTurn \in 0 .. MaxTurns /\ lastTurn \in 0 .. MaxTurns /\ MaxTurns \in Nat
    BY SessionAssumption DEF SessionInv, TypeOK
  <1>2. ASSUME m.op \in Mutations, ServeThread(m)
        PROVE Apply(m) /\ activeTurn' \in 0 .. MaxTurns /\ lastTurn' \in 0 .. MaxTurns
    BY <1>1, <1>2 DEF ServeThread
  <1>3. Initialize \notin Mutations
    BY ConnectionAssumption
  <1>4. QED
    BY <1>1, <1>2, <1>3 DEF Serve, Reject, ReplyKinds

LEMMA ServeKeeps ==
  ASSUME SessionInv, SessionConnInv', NEW m \in toServer, Serve(m)
  PROVE  SessionInv'
  BY ServeCases, ApplyKeeps, ReplyKeeps

\* Turns begin and end without any call noticing.
LEMMA ThreadKeeps ==
  ASSUME SessionInv, SessionConnInv', TurnEnds \/ TurnStarts \/ UNCHANGED vars
  PROVE  SessionInv'
  <1>1. /\ UNCHANGED <<connVars, applied, callVars>>
        /\ activeTurn' \in 0 .. MaxTurns /\ lastTurn' \in 0 .. MaxTurns
    BY SessionAssumption DEF SessionInv, TypeOK, TurnEnds, TurnStarts, vars, threadVars
  <1> USE <1>1 DEF connVars, callVars
  <1>2. TypeOK'
    BY DEF SessionInv, SessionConnInv, OwnInv, TypeOK
  <1>3. MutationsLast' /\ TurnsTold' /\ MutatesInTime' /\ MutationsFit'
    BY DEF SessionInv, MutationsLast, TurnsTold, MutatesInTime, MutatesThen, MutationsFit,
           MutationFits
  <1>4. Effects'
    BY DEF SessionInv, Effects, ChangeOf
  <1>5. ReportsHold'
    BY DEF SessionInv, ReportsHold, ReportOf, Need
  <1>6. QED
    BY <1>2, <1>3, <1>4, <1>5 DEF SessionInv

-----------------------------------------------------------------------------
(* The steps of a call.                                                    *)

LEMMA CallFacts ==
  ASSUME SessionInv, NEW c \in Calls
  PROVE  /\ First(c) \in Conns /\ Fresh(c) \in Conns
         /\ answer[First(c)].category \in Categories
         /\ answer[First(c)].mark \in DispatchMarks
         /\ seen \in [Calls -> [active : BOOLEAN, turn : 0 .. MaxTurns]]
         /\ 0 \in 0 .. MaxTurns
         /\ pc \in [Calls -> {"start", "opening", "status", "turns", "mutating", "starting",
                              "reopening", "observing", "done"}]
         /\ applied[c][1] \in {0, 1} /\ applied[c][2] \in {0, 1}
         /\ current[First(c)] \notin Mutations => applied[c][1] = 0 /\ applied[c][2] = 0
         /\ current[Fresh(c)] \notin Mutations
         /\ MutatesThen(c)
  <1>1. First(c) \in Conns /\ Fresh(c) \in Conns
    BY ConnsOfCalls
  <1>2. answer[First(c)] \in Answers
    BY <1>1 DEF SessionInv, TypeOK, ConnTypeOK
  <1>3. /\ applied[c] \in [1 .. 2 -> {0, 1}]
        /\ current[First(c)] \notin Mutations => applied[c][1] = 0 /\ applied[c][2] # 1
    BY DEF SessionInv, Effects
  <1>4. applied[c][1] \in {0, 1} /\ applied[c][2] \in {0, 1}
    BY <1>3
  <1>5. 0 \in 0 .. MaxTurns
    BY SessionAssumption
  <1>6. QED
    BY <1>1, <1>2, <1>3, <1>4, <1>5
    DEF SessionInv, TypeOK, Answers, MutationsLast, MutatesInTime

\* Where the call is once it asked.
LEMMA AskEffect ==
  ASSUME SessionInv, NEW c \in Calls, NEW j \in {First(c), Fresh(c)}, NEW op, NEW next,
         Ask(c, j, op, next)
  PROVE  /\ pc'[c] = next
         /\ current'[First(c)] = IF j = First(c) THEN op ELSE current[First(c)]
  <1>1. j \in Conns /\ DOMAIN current = Conns /\ DOMAIN pc = Calls
    BY ConnsOfCalls DEF SessionInv, TypeOK, ConnTypeOK
  <1>2. QED
    BY <1>1, CallFacts DEF Ask, Request

LEMMA OpenedKeeps ==
  ASSUME SessionInv, SessionConnInv', NEW c \in Calls, Opened(c)
  PROVE  SessionInv'
  <1> DEFINE op == Op(FirstMethod(tool[c]), 0)
             next == IF tool[c] \in Snapshotting THEN "status" ELSE "mutating"
  <1>1. /\ pc[c] = "opening" /\ UNCHANGED <<threadVars, tool, seen>>
        /\ current[First(c)] \notin Mutations
    BY CallFacts DEF Opened, MutatesThen
  <1>2. CASE phase[First(c)] = "failed"
    <2>1. answer[First(c)].category # "ok"
      BY <1>2, CallFacts DEF SessionInv, SessionConnInv, AnsweredWhenReady
    <2>2. FinishWith(c, answer[First(c)])
      BY <1>2 DEF Opened
    <2>3. QED
      BY <1>1, <2>1, <2>2, CallFacts, CallReturns DEF FinishWith
  <1>3. CASE phase[First(c)] # "failed"
    <2>1. Ask(c, First(c), op, next)
      BY <1>3 DEF Opened
    <2>2. /\ op \in Ops \ {Initialize} /\ op \notin {NoOp, Initialize}
          /\ op.method = FirstMethod(tool[c])
          /\ op \in Mutations <=> FirstMethod(tool[c]) \in Changes
      <3>1. FirstMethod(tool[c]) \in ReadMethods \union Changes
        BY DEF FirstMethod, ReadMethods, Changes
      <3>2. QED
        BY <3>1, CallFacts, OpsOfThreads, ConnectionAssumption
    <2>3. FirstMethod(tool[c]) \in Changes <=> tool[c] \notin Snapshotting
      BY DEF FirstMethod, Changes, Snapshotting, Messages
    <2>4. tool[c] = "thread_create" => op.method = "thread/start" /\ op \in Mutations
      BY <2>2, <2>3 DEF FirstMethod, Snapshotting, Messages
    <2>5. pc'[c] = next /\ current'[First(c)] = op
      BY <2>1, AskEffect
    <2>6. MutatesThen(c)'
      BY <1>1, <2>2, <2>3, <2>4, <2>5 DEF MutatesThen
    <2>7. op \in Mutations => MutationFits(c)'
      BY <1>1, <2>2, <2>3, <2>4, <2>5 DEF MutationFits, Snapshotting
    <2>8. ChangeOf([conn |-> First(c), op |-> op]) \in {1, 2}
      BY DEF ChangeOf
    <2>9. next \in {"status", "turns", "mutating", "starting", "observing"}
      OBVIOUS
    <2>10. QED
      BY <1>1, <2>1, <2>2, <2>6, <2>7, <2>8, <2>9, CallFacts, CallRequests
  <1>4. QED
    BY <1>2, <1>3

LEMMA StatusReadKeeps ==
  ASSUME SessionInv, SessionConnInv', NEW c \in Calls, StatusRead(c)
  PROVE  SessionInv'
  <1> DEFINE op == Op("thread/turns/list", 0)
  <1>1. /\ pc[c] = "status" /\ UNCHANGED <<threadVars, tool>>
        /\ current[First(c)] \notin Mutations
    BY CallFacts DEF StatusRead, MutatesThen
  <1>2. CASE answer[First(c)].category # "ok"
    BY <1>1, <1>2, CallFacts, CallReturns DEF StatusRead, FinishWith
  <1>3. CASE answer[First(c)].category = "ok"
    <2>1. /\ Ask(c, First(c), op, "turns")
          /\ seen' = [seen EXCEPT ![c].active = answer[First(c)].data # 0]
      BY <1>3 DEF StatusRead
    <2>2. /\ op \in Ops \ {Initialize} /\ op \notin {NoOp, Initialize} /\ op \notin Mutations
      <3>1. "thread/turns/list" \in ReadMethods /\ "thread/turns/list" \notin Changes
        BY DEF ReadMethods, Changes
      <3>2. QED
        BY <3>1, CallFacts, OpsOfThreads, ConnectionAssumption
    <2>3. MutatesThen(c)'
      BY <1>1, <2>1, <2>2, AskEffect DEF MutatesThen
    <2>4. /\ seen' \in [Calls -> [active : BOOLEAN, turn : 0 .. MaxTurns]]
          /\ \A d \in Calls : seen'[d] = seen[d] \/ d = c
      BY <2>1, CallFacts
    <2>5. QED
      BY <1>1, <2>1, <2>2, <2>3, <2>4, CallFacts, CallRequests
  <1>4. QED
    BY <1>2, <1>3

LEMMA TurnsReadKeeps ==
  ASSUME SessionInv, SessionConnInv', NEW c \in Calls, TurnsRead(c)
  PROVE  SessionInv'
  <1>1. /\ pc[c] = "turns" /\ UNCHANGED <<threadVars, tool>>
        /\ current[First(c)] \notin Mutations
    BY CallFacts DEF TurnsRead, MutatesThen
  <1>2. CASE answer[First(c)].category # "ok"
    BY <1>1, <1>2, CallFacts, CallReturns DEF TurnsRead, FinishWith
  <1>3. CASE answer[First(c)].category = "ok"
    <2> DEFINE turn == answer[First(c)].data
    <2>1. Decide(c, turn) /\ seen' = [seen EXCEPT ![c].turn = turn]
      BY <1>3 DEF TurnsRead
    <2>2. turn \in 0 .. MaxTurns
      BY <1>1, <1>3, TurnOfAnswer
    <2>3. /\ seen' \in [Calls -> [active : BOOLEAN, turn : 0 .. MaxTurns]]
          /\ \A d \in Calls : seen'[d] = seen[d] \/ d = c
          /\ seen'[c].turn = turn /\ seen'[c].active = seen[c].active
      BY <2>1, <2>2, CallFacts
    <2>4. ASSUME NEW category \in {"not_interrupted", "policy_rejected", "native_conflict"},
                 Finish(c, category, "absent", "none")
          PROVE SessionInv'
      BY <1>1, <2>3, <2>4, CallFacts, CallReturns DEF DispatchMarks
    <2>5. ASSUME NEW method \in {"turn/interrupt", "turn/steer", "turn/start"},
                 NEW t \in 0 .. MaxTurns, Ask(c, First(c), Op(method, t), "mutating"),
                 tool[c] # "thread_create",
                 MutationFits(c)'
          PROVE SessionInv'
      <3> DEFINE op == Op(method, t)
      <3>1. op \in Mutations /\ op \in Ops \ {Initialize}
        BY OpsOfThreads DEF Changes
      <3>2. MutatesThen(c)'
        BY <1>1, <2>5, <3>1, AskEffect DEF MutatesThen
      <3>3. ChangeOf([conn |-> First(c), op |-> op]) \in {1, 2}
        BY DEF ChangeOf
      <3>4. QED
        BY <1>1, <2>3, <2>5, <3>1, <3>2, <3>3, CallFacts, CallRequests
    <2>6. CASE tool[c] = "thread_interrupt" /\ turn # 0
               /\ Ask(c, First(c), Op("turn/interrupt", turn), "mutating")
      <3>1. MutationFits(c)'
        <4>1. /\ tool'[c] = "thread_interrupt" /\ seen'[c].turn = turn /\ turn # 0
              /\ current'[First(c)] = Op("turn/interrupt", turn)
          BY <1>1, <2>3, <2>6, AskEffect
        <4>2. QED
          BY <4>1 DEF MutationFits, Messages
      <3>2. QED
        BY <2>2, <2>5, <2>6, <3>1
    <2>7. CASE tool[c] = "thread_message_send" /\ seen[c].active /\ turn # 0
               /\ Ask(c, First(c), Op("turn/steer", turn), "mutating")
      <3>1. MutationFits(c)'
        BY <1>1, <2>3, <2>7, AskEffect DEF MutationFits, Messages
      <3>2. QED
        BY <2>2, <2>5, <2>7, <3>1
    <2>8. CASE tool[c] \in Messages /\ ~seen[c].active
               /\ Ask(c, First(c), Op("turn/start", 0), "mutating")
      <3>1. MutationFits(c)'
        BY <1>1, <2>3, <2>8 DEF MutationFits, Messages
      <3>2. QED
        BY <2>5, <2>8, <3>1, CallFacts DEF Messages
    <2>9. QED
      BY <2>1, <2>4, <2>6, <2>7, <2>8 DEF Decide
  <1>4. QED
    BY <1>2, <1>3

LEMMA MutationReturnedKeeps ==
  ASSUME SessionInv, SessionConnInv', NEW c \in Calls, MutationReturned(c)
  PROVE  SessionInv'
  <1> DEFINE a == answer[First(c)]
  <1>1. /\ pc[c] \in {"mutating", "starting"} /\ phase[First(c)] = "ready"
        /\ UNCHANGED <<threadVars, tool, seen>>
        /\ current[First(c)] \in Mutations
    BY CallFacts DEF MutationReturned, MutatesThen
  <1>2. a.category # "ok" => a.mark # "absent"
    BY <1>1, CallFacts DEF SessionInv, SessionConnInv, FailedMutationsMarked
  <1>3. a.category = "ok" =>
          applied[c][ChangeOf([conn |-> First(c), op |-> current[First(c)]])] = 1
    BY <1>1 DEF SessionInv, Effects
  <1>4. MutationFits(c)
    BY <1>1 DEF SessionInv, MutationsFit
  <1>5. First(c)[1] = c
    BY ConnsOfCalls
  <1>6. CASE Finish(c, "malformed_result", "absent", "none")
    BY <1>1, <1>6, CallFacts, CallReturns DEF DispatchMarks
  <1>7. CASE a.category = "ok" /\ tool[c] = "thread_create" /\ pc[c] = "mutating"
             /\ Ask(c, First(c), Op("turn/start", 0), "starting")
    <2> DEFINE op == Op("turn/start", 0)
    <2>1. op \in Mutations /\ op \in Ops \ {Initialize} /\ op.method = "turn/start"
      BY CallFacts, OpsOfThreads DEF Changes
    <2>2. current[First(c)].method = "thread/start"
      BY <1>1, <1>7, CallFacts DEF MutatesThen
    <2>3. applied[c][1] = 1
      BY <1>3, <1>5, <1>7, <2>2 DEF ChangeOf
    <2>4. applied[c][2] = 0
      BY <2>2, CallFacts DEF SessionInv, Effects
    <2>5. ChangeOf([conn |-> First(c), op |-> op]) = 2
      BY <1>5, <1>7, <2>1 DEF ChangeOf
    <2>6. MutatesThen(c)'
      BY <1>1, <1>7, <2>1, AskEffect DEF MutatesThen
    <2>7. MutationFits(c)'
      <3>1. /\ current'[First(c)].method = "turn/start" /\ tool'[c] = "thread_create"
            /\ applied'[c][1] = 1
        BY <1>1, <1>7, <2>1, <2>3, AskEffect DEF threadVars
      <3>2. QED
        BY <3>1 DEF MutationFits, Messages
    <2>8. QED
      BY <1>1, <1>7, <2>1, <2>4, <2>5, <2>6, <2>7, CallFacts, CallRequests
  <1>8. CASE a.category = "ok" /\ ~(tool[c] = "thread_create" /\ pc[c] = "mutating")
             /\ Finish(c, "ok", "absent", "none")
    <2>1. \A i \in Need(c) : applied[c][i] = 1
      <3>1. CASE tool[c] = "thread_create"
        <4>1. current[First(c)].method = "turn/start"
          BY <1>1, <1>8, <3>1, CallFacts DEF MutatesThen
        <4>2. applied[c][1] = 1
          BY <1>4, <3>1, <4>1 DEF MutationFits, Messages
        <4>3. applied[c][2] = 1
          BY <1>3, <1>5, <1>8, <3>1, <4>1 DEF ChangeOf
        <4>4. QED
          BY <4>2, <4>3 DEF Need
      <3>2. CASE tool[c] # "thread_create"
        BY <1>3, <1>5, <1>8, <3>2 DEF Need, ChangeOf
      <3>3. QED
        BY <3>1, <3>2
    <2>2. QED
      BY <1>1, <1>8, <2>1, CallFacts, CallReturns DEF Categories, DispatchMarks
  <1>9. CASE Open(Fresh(c)) /\ pc' = [pc EXCEPT ![c] = "reopening"] /\ UNCHANGED verdict
    <2>1. MutatesThen(c)'
      BY <1>1, <1>9, CallFacts DEF MutatesThen, Open
    <2>2. QED
      BY <1>1, <1>9, <2>1, CallFacts, CallOpens
  <1>10. CASE a.category # "ok" /\ FinishWith(c, a)
    BY <1>1, <1>2, <1>10, CallFacts, CallReturns DEF FinishWith
  <1>11. QED
    BY <1>6, <1>7, <1>8, <1>9, <1>10 DEF MutationReturned

LEMMA CallStepKeeps ==
  ASSUME SessionInv, SessionConnInv', NEW c \in Calls, CallStep(c)
  PROVE  SessionInv'
  <1>1. CASE Start(c)
    <2>1. /\ pc[c] = "start" /\ UNCHANGED <<threadVars, tool, seen>>
          /\ current[First(c)] \notin Mutations
      BY <1>1, CallFacts DEF Start, MutatesThen
    <2>2. CASE Open(First(c)) /\ pc' = [pc EXCEPT ![c] = "opening"] /\ UNCHANGED verdict
      <3>1. MutatesThen(c)'
        BY <2>1, <2>2, CallFacts DEF MutatesThen, Open
      <3>2. QED
        BY <2>1, <2>2, <3>1, CallFacts, CallOpens
    <2>3. CASE Finish(c, "target_unavailable", "absent", "none")
      BY <2>1, <2>3, CallFacts, CallReturns DEF Categories, DispatchMarks
    <2>4. QED
      BY <1>1, <2>2, <2>3 DEF Start
  <1>2. CASE Reopened(c)
    <2>1. /\ pc[c] = "reopening" /\ UNCHANGED <<threadVars, tool, seen>>
          /\ current[First(c)] \in Mutations
      BY <1>2, CallFacts DEF Reopened, MutatesThen
    <2>2. CASE Unknown(c, "failed")
      BY <2>1, <2>2, CallFacts, CallReturns DEF Unknown, Categories, DispatchMarks
    <2>3. CASE Ask(c, Fresh(c), Op("observe", 0), "observing")
      <3> DEFINE op == Op("observe", 0)
      <3>1. op \in Ops \ {Initialize} /\ op \notin Mutations
        BY CallFacts, OpsOfThreads DEF ReadMethods, Changes
      <3>2. First(c) # Fresh(c)
        BY ConnsOfCalls
      <3>3. MutatesThen(c)'
        BY <2>1, <2>3, <3>2, AskEffect DEF MutatesThen
      <3>4. QED
        BY <2>1, <2>3, <3>1, <3>2, <3>3, CallFacts, CallRequests
    <2>4. QED
      BY <1>2, <2>2, <2>3 DEF Reopened
  <1>3. CASE Observed(c)
    <2>1. pc[c] = "observing" /\ UNCHANGED <<threadVars, tool, seen>>
      BY <1>3 DEF Observed
    <2>2. PICK observation \in {"seen", "failed"} : Unknown(c, observation)
      BY <1>3 DEF Observed
    <2>3. QED
      BY <2>1, <2>2, CallFacts, CallReturns DEF Unknown, Categories, DispatchMarks
  <1>4. QED
    BY <1>1, <1>2, <1>3, OpenedKeeps, StatusReadKeeps, TurnsReadKeeps, MutationReturnedKeeps
    DEF CallStep

LEMMA SessionInvInit == Init => SessionInv
  <1> SUFFICES ASSUME Init PROVE SessionInv
    OBVIOUS
  <1> USE DEF Init, ConnInit
  <1>1. ConnTypeOK
    BY ConnectionAssumption, NoAnswerType DEF ConnTypeOK, Phases, DispatchStates
  <1>2. SessionConnInv
    <2>1. OwnInv
      BY <1>1, OwnInvInit DEF OwnInv
    <2>2. DispatchInv
      BY <1>1, ConnectionAssumption
      DEF DispatchInv, AwaitedMutationMarked, HandshakeFirst, UnknownIffUnanswered
    <2>3. AnsweredOnce /\ FailedMutationsMarked /\ AnsweredWhenReady
      BY DEF AnsweredOnce, FailedMutationsMarked, AnsweredWhenReady, NoAnswer
    <2>4. QED
      BY <2>1, <2>2, <2>3 DEF SessionConnInv
  <1>3. \A c \in Calls : current[First(c)] \notin Mutations /\ current[Fresh(c)] \notin Mutations
    BY ConnsOfCalls, ConnectionAssumption
  <1>4. \A j \in Conns : answer[j].category # "ok"
    BY DEF NoAnswer
  <1>5. TypeOK
    BY <1>1, SessionAssumption
    DEF TypeOK, NoSnapshot, NoVerdict, Categories, DispatchMarks
  <1>6. MutationsLast /\ TurnsTold /\ MutatesInTime /\ MutationsFit
    BY <1>3, <1>4 DEF MutationsLast, TurnsTold, MutatesInTime, MutatesThen, MutationsFit
  <1>7. Effects
    BY <1>3 DEF Effects
  <1>8. ReportsHold
    BY DEF ReportsHold, ReportOf, NoVerdict
  <1>9. QED
    BY <1>2, <1>5, <1>6, <1>7, <1>8 DEF SessionInv

LEMMA SessionInvStep ==
  ASSUME SessionInv, [Next]_vars
  PROVE  SessionInv'
  <1>1. SessionConnInv'
    BY SessionConnHolds
  <1>2. QED
    BY <1>1, CallStepKeeps, ConnStepKeeps, ServeKeeps, ThreadKeeps DEF Next

THEOREM SessionInvariant == Spec => []SessionInv
  BY SessionInvInit, SessionInvStep, PTL DEF Spec

\* Every variable keeps its type.
THEOREM SessionTyping == Spec => []TypeOK
  <1>1. SessionInv => TypeOK
    BY DEF SessionInv
  <1>2. QED
    BY <1>1, SessionInvariant, PTL

-----------------------------------------------------------------------------
(* The promise.  A report is allowed by ReportsHold of the state after it;  *)
(* a change is allowed by what is known of the request that makes it.       *)

\* What a call can have reported while one of its mutations waits at the server.
LEMMA PendingReport ==
  ASSUME SessionInv, NEW m \in toServer, m.op \in Mutations
  PROVE  /\ ChangeOf(m) \in Need(m.conn[1])
         /\ \A i \in Need(m.conn[1]) : i < ChangeOf(m) => applied[m.conn[1]][i] = 1
         /\ ReportOf(m.conn[1]) \in {"none", "unclear"}
  <1> DEFINE c == m.conn[1]
  <1>1. /\ c \in Calls /\ m.op = current[First(c)] /\ applied[c][ChangeOf(m)] = 0
    BY PendingMutation
  <1>2. ChangeOf(m) \in Need(c)
    BY DEF ChangeOf, Need
  <1>3. ASSUME NEW i \in Need(c), i < ChangeOf(m) PROVE applied[c][i] = 1
    <2>1. i = 1 /\ tool[c] = "thread_create" /\ m.op.method = "turn/start"
      BY <1>3 DEF ChangeOf, Need
    <2>2. MutationFits(c)
      BY <1>1 DEF SessionInv, MutationsFit
    <2>3. QED
      BY <1>1, <2>1, <2>2 DEF MutationFits, Messages
  <1>4. ReportOf(c) \notin {"done", "untouched"}
    BY <1>1, <1>2 DEF SessionInv, ReportsHold
  <1>5. ReportOf(c) \in {"none", "done", "untouched", "unclear"}
    BY DEF ReportOf
  <1>6. QED
    BY <1>2, <1>3, <1>4, <1>5

\* A call reports at most once, in a step without effect on the thread.
LEMMA CallStepReports ==
  ASSUME NEW c \in Calls, CallStep(c)
  PROVE  /\ pc[c] # "done" /\ UNCHANGED <<applied, tool>>
         /\ verdict' = verdict \/ \E v : verdict' = [verdict EXCEPT ![c] = v]
  <1>1. CASE Start(c)
    BY <1>1 DEF Start, Finish, threadVars
  <1>2. CASE Opened(c)
    BY <1>2 DEF Opened, Ask, FinishWith, Finish, threadVars
  <1>3. CASE StatusRead(c)
    BY <1>3 DEF StatusRead, Ask, FinishWith, Finish, threadVars
  <1>4. CASE TurnsRead(c)
    BY <1>4 DEF TurnsRead, Decide, Ask, FinishWith, Finish, threadVars
  <1>5. CASE MutationReturned(c)
    BY <1>5 DEF MutationReturned, Ask, FinishWith, Finish, threadVars
  <1>6. CASE Reopened(c) \/ Observed(c)
    BY <1>6 DEF Reopened, Observed, Unknown, Ask, Finish, threadVars
  <1>7. QED
    BY <1>1, <1>2, <1>3, <1>4, <1>5, <1>6 DEF CallStep

LEMMA CallStepPromised ==
  ASSUME SessionInv, SessionInv', NEW c \in Calls, CallStep(c)
  PROVE  [Promised!Next]_(Promised!promiseVars)
  <1> DEFINE reports == [d \in Calls |-> ReportOf(d)]
  <1>1. /\ pc[c] # "done" /\ UNCHANGED <<applied, tool>>
        /\ verdict' = verdict \/ \E v : verdict' = [verdict EXCEPT ![c] = v]
    BY CallStepReports
  <1>2. /\ \A d \in Calls \ {c} : ReportOf(d)' = ReportOf(d)
        /\ ReportOf(c) = "none"
    <2>1. verdict[c] = NoVerdict /\ DOMAIN verdict = Calls
      BY <1>1 DEF SessionInv, ReportsHold, TypeOK
    <2>2. \A d \in Calls \ {c} : verdict'[d] = verdict[d]
      BY <1>1, <2>1
    <2>3. QED
      BY <2>1, <2>2 DEF ReportOf, NoVerdict
  <1>3. reports' = [reports EXCEPT ![c] = ReportOf(c)']
    BY <1>2
  <1>4. CASE ReportOf(c)' = "none"
    <2>1. reports' = reports
      BY <1>2, <1>3, <1>4
    <2>2. QED
      BY <1>1, <2>1 DEF Promised!promiseVars
  <1>5. CASE ReportOf(c)' # "none"
    <2>1. ReportOf(c)' \in {"done", "untouched", "unclear"}
      BY <1>5 DEF ReportOf
    <2>2. /\ ReportOf(c)' = "done" => \A i \in Need(c) : applied[c][i] = 1
          /\ ReportOf(c)' = "untouched" => current'[First(c)] \notin Mutations
      BY <1>1 DEF SessionInv, ReportsHold, Need
    <2>3. current'[First(c)] \notin Mutations => applied[c][1] = 0 /\ applied[c][2] = 0
      <3>1. /\ applied[c] \in [1 .. 2 -> {0, 1}]
            /\ current'[First(c)] \notin Mutations => applied[c][1] = 0 /\ applied[c][2] # 1
        BY <1>1 DEF SessionInv, Effects
      <3>2. QED
        BY <3>1
    <2>4. Promised!Report(c, ReportOf(c)')
      BY <1>1, <1>2, <1>3, <2>2, <2>3 DEF Promised!Report, Need
    <2>5. QED
      BY <2>1, <2>4 DEF Promised!Next
  <1>6. QED
    BY <1>4, <1>5

LEMMA ServePromised ==
  ASSUME SessionInv, NEW m \in toServer, Serve(m)
  PROVE  [Promised!Next]_(Promised!promiseVars)
  <1>1. UNCHANGED <<tool, verdict>>
    BY ServeCases DEF callVars
  <1>2. CASE UNCHANGED threadVars
    BY <1>1, <1>2 DEF Promised!promiseVars, threadVars, ReportOf
  <1>3. CASE m.op \in Mutations /\ Apply(m)
    <2> DEFINE c == m.conn[1]
               i == ChangeOf(m)
    <2>1. c \in Calls /\ applied[c][i] = 0 /\ i \in 1 .. 2
      BY <1>3, PendingMutation DEF ChangeOf
    <2>2. /\ i \in Need(c) /\ \A l \in Need(c) : l < i => applied[c][l] = 1
          /\ ReportOf(c) \in {"none", "unclear"}
      BY <1>3, PendingReport
    <2>3. applied' = [applied EXCEPT ![c][i] = 1]
      <3>1. applied' = [applied EXCEPT ![c] = [applied[c] EXCEPT ![i] = applied[c][i] + 1]]
        BY <1>3 DEF Apply
      <3>2. QED
        BY <2>1, <3>1
    <2>4. Promised!TakesEffect(c, i)
      BY <1>1, <2>1, <2>2, <2>3 DEF Promised!TakesEffect, Need, ReportOf
    <2>5. QED
      BY <2>1, <2>4 DEF Promised!Next
  <1>4. QED
    BY <1>2, <1>3, ServeCases

\* The tools implement the promise of MutationPromise: every change is made at most
\* once and in order, a call that reports success has made all of its changes, and one
\* that reports an error without a dispatch mark has made none and never will, whatever
\* is lost and however late the server acts.
THEOREM ToolsKeepThePromise == Spec => Promise
  <1>1. Init => Promised!Init
    BY DEF Init, Promised!Init, ReportOf, NoVerdict
  <1>2. SessionInv /\ SessionInv' /\ [Next]_vars => [Promised!Next]_(Promised!promiseVars)
    <2> SUFFICES ASSUME SessionInv, SessionInv', [Next]_vars
                 PROVE  [Promised!Next]_(Promised!promiseVars)
      OBVIOUS
    <2>1. ASSUME NEW j \in Conns, ConnStep(j) PROVE UNCHANGED Promised!promiseVars
      BY <2>1 DEF ConnStep, threadVars, callVars, Promised!promiseVars, ReportOf
    <2>2. CASE TurnEnds \/ TurnStarts \/ UNCHANGED vars
      BY <2>2 DEF TurnEnds, TurnStarts, vars, threadVars, callVars, Promised!promiseVars, ReportOf
    <2>3. QED
      BY <2>1, <2>2, CallStepPromised, ServePromised DEF Next
  <1>3. QED
    BY <1>1, <1>2, SessionInvariant, PTL DEF Spec, Promise, Promised!Spec

-----------------------------------------------------------------------------
(* Steering and interrupting.                                              *)

LEMMA ServeFits ==
  ASSUME SessionInv, NEW m \in toServer, Serve(m), NEW c \in Calls, applied'[c] # applied[c],
         \/ tool[c] = "thread_interrupt"
         \/ tool[c] \in Messages /\ seen[c].active
  PROVE  activeTurn = seen[c].turn
  <1>1. m.op \in Mutations /\ ServeThread(m) /\ Apply(m)
    BY ServeCases DEF Serve, Reject, threadVars, ServeThread
  <1>2. c = m.conn[1] /\ m.op = current[First(c)]
    <2>1. applied' = [applied EXCEPT ![m.conn[1]] =
                        [applied[m.conn[1]] EXCEPT ![ChangeOf(m)] = @ + 1]]
      BY <1>1 DEF Apply
    <2>2. DOMAIN applied = Calls
      BY DEF SessionInv, TypeOK
    <2>3. QED
      BY <1>1, <2>1, <2>2, PendingMutation
  <1>3. MutationFits(c)
    BY <1>1, <1>2 DEF SessionInv, MutationsFit
  <1>4. \E method \in {"turn/interrupt", "turn/steer"} :
          m.op = Op(method, seen[c].turn) /\ seen[c].turn # 0
    BY <1>2, <1>3 DEF MutationFits, Messages
  <1>5. /\ m.op.method \in {"turn/interrupt", "turn/steer"}
        /\ m.op.turn = seen[c].turn /\ seen[c].turn # 0
    BY <1>4 DEF Op
  <1>6. Fits(m)
    BY <1>1, <1>5 DEF ServeThread
  <1>7. QED
    BY <1>5, <1>6 DEF Fits

\* A steer or an interrupt takes effect only on the turn its caller's snapshot showed,
\* for any number of turns begun and ended meanwhile.
THEOREM OnlyObservedTurns == Spec => OnlyTheObservedTurn
  <1> DEFINE Acts(c) == \/ tool[c] = "thread_interrupt"
                        \/ tool[c] \in Messages /\ seen[c].active
             Aimed == \A c \in Calls : applied'[c] # applied[c] /\ Acts(c) =>
                                         activeTurn = seen[c].turn
  <1>1. SessionInv /\ [Next]_vars => [Aimed]_vars
    <2> SUFFICES ASSUME SessionInv, Next PROVE Aimed
      OBVIOUS
    <2>1. ASSUME NEW c \in Calls, CallStep(c) PROVE applied' = applied
      BY <2>1, CallStepReports
    <2>2. ASSUME NEW j \in Conns, ConnStep(j) PROVE applied' = applied
      BY <2>2 DEF ConnStep, threadVars
    <2>3. CASE TurnEnds \/ TurnStarts
      BY <2>3 DEF TurnEnds, TurnStarts
    <2>4. QED
      BY <2>1, <2>2, <2>3, ServeFits DEF Next
  <1>2. QED
    BY <1>1, SessionInvariant, PTL DEF Spec, OnlyTheObservedTurn
=============================================================================
