---------------------- MODULE AppServerConnectionProofs ----------------------
(***************************************************************************)
(* What holds of a connection for every set of connections and requests    *)
(* and every bound, under any caller and any server behaviour the model    *)
(* allows.                                                                 *)
(***************************************************************************)
EXTENDS AppServerConnection, TLAPS

\* The server and the frames in flight know no request that was not issued.
IdsIssued ==
  /\ \A m \in toServer : m.id < nextId[m.conn]
  /\ \A f \in toClient : f.kind # "request" => f.id < nextId[f.conn]

\* Whatever carries the id of the last request carries its method.
LastIdNamesCurrent ==
  /\ \A m \in toServer : m.id = nextId[m.conn] - 1 => m.op = current[m.conn]
  /\ \A f \in toClient :
       f.kind # "request" /\ f.id = nextId[f.conn] - 1 => f.op = current[f.conn]

\* Nothing was returned before the handshake request is issued.
QuietUntilConnected ==
  \A k \in Conns : phase[k] \in {"closed", "connecting"} => answer[k].category = "none"

OwnInv ==
  /\ ConnTypeOK /\ QuietUntilConnected
  /\ IdsIssued /\ LastIdNamesCurrent /\ AnswerIsOwn

\* While a mutation is awaited it is marked as possibly dispatched.
AwaitedMutationMarked ==
  \A k \in Conns :
    phase[k] = "waiting" /\ current[k] \in Mutations =>
      dispatch[k] = "may_have_been_dispatched"

\* No request but the handshake's is issued until the handshake is over.
HandshakeFirst ==
  \A k \in Conns :
    phase[k] \in {"closed", "connecting", "initializing"} =>
      current[k] \in {NoOp, Initialize}

\* A request is executed at most once and answered at most once.
AnsweredOnce ==
  /\ \A m, n \in toServer : m.conn = n.conn /\ m.id = n.id => m = n
  /\ \A m \in toServer, f \in toClient :
       f.kind # "request" => m.conn # f.conn \/ m.id # f.id
  /\ \A m \in toServer :
       answer[m.conn].category \in {"ok", "native_error"} => m.id # nextId[m.conn] - 1

\* A mutation that returned was answered, or its error carries a dispatch mark.
FailedMutationsMarked ==
  \A k \in Conns :
    phase[k] = "ready" /\ current[k] \in Mutations =>
      /\ answer[k].category # "none"
      /\ answer[k].category = "ok" \/ answer[k].mark # "absent"

\* Nothing was answered before the handshake is over, nor if it failed.
AnsweredWhenReady ==
  \A k \in Conns :
    phase[k] \in {"closed", "connecting", "initializing", "failed"} =>
      answer[k].category # "ok"

DispatchInv ==
  ConnTypeOK /\ AwaitedMutationMarked /\ HandshakeFirst /\ UnknownIffUnanswered

-----------------------------------------------------------------------------

LEMMA NoAnswerType == NoAnswer \in Answers
  BY ConnectionAssumption DEF NoAnswer, Answers, Categories, DispatchMarks

LEMMA FailureType ==
  ASSUME NEW category \in Categories, NEW mark \in DispatchMarks
  PROVE  /\ Failure(category, mark) \in Answers
         /\ Failure(category, mark).category = category
         /\ Failure(category, mark).mark = mark
  BY ConnectionAssumption DEF Failure, NoAnswer, Answers, Categories, DispatchMarks

\* A transport error is a failure, unknown exactly for a mutation that may have
\* been written and has no reply.
LEMMA TransportErrorFacts ==
  ASSUME NEW op, NEW d \in DispatchStates
  PROVE  /\ TransportError(op, d) \in Answers
         /\ TransportError(op, d).category \notin {"ok", "native_error"}
         /\ TransportError(op, d).category = "outcome_unknown"
              <=> op \in Mutations /\ d = "may_have_been_dispatched"
         /\ TransportError(op, d).category # "none"
         /\ op \in Mutations => TransportError(op, d).mark # "absent"
  BY FailureType DEF TransportError, DispatchStates, Categories, DispatchMarks

LEMMA TimeoutErrorFacts ==
  ASSUME NEW op
  PROVE  /\ TimeoutError(op) \in Answers
         /\ TimeoutError(op).category \notin {"ok", "native_error"}
         /\ TimeoutError(op).category = "outcome_unknown" <=> op \in Mutations
         /\ TimeoutError(op).category # "none"
         /\ op \in Mutations => TimeoutError(op).mark # "absent"
  BY FailureType DEF TimeoutError, Categories, DispatchMarks

\* An answer taken from a frame carries the frame's id and method.
LEMMA ReplyAnswerFacts ==
  ASSUME NEW f \in Frames, NEW op, NEW d \in DispatchStates, f.kind # "request"
  PROVE  /\ ReplyAnswer(f, op, d) \in Answers
         /\ ReplyAnswer(f, op, d).category \in {"ok", "native_error"} =>
              ReplyAnswer(f, op, d).id = f.id /\ ReplyAnswer(f, op, d).op = f.op
         /\ d # "may_have_been_dispatched" =>
              ReplyAnswer(f, op, d).category # "outcome_unknown"
         /\ ReplyAnswer(f, op, d).category = "ok" =>
              f.kind = "result" /\ ReplyAnswer(f, op, d).data = f.data
         /\ ReplyAnswer(f, op, d).category # "none"
         /\ op \in Mutations =>
              \/ ReplyAnswer(f, op, d).category = "ok"
              \/ ReplyAnswer(f, op, d).mark # "absent"
  <1>1. CASE f.kind = "undecodable"
    BY <1>1, TransportErrorFacts DEF ReplyAnswer
  <1>2. CASE f.kind = "error"
    BY <1>2 DEF ReplyAnswer, Frames, Answers, Categories, DispatchMarks
  <1>3. CASE f.kind = "result"
    BY <1>3 DEF ReplyAnswer, Frames, Answers, Categories, DispatchMarks
  <1>4. QED
    BY <1>1, <1>2, <1>3 DEF Frames, ReplyKinds

-----------------------------------------------------------------------------
(* Types.                                                                  *)

\* Types are kept by every step of the connections, whoever takes it.
LEMMA ConnTypingStep ==
  ASSUME ConnTypeOK, [ConnNext]_connVars
  PROVE  ConnTypeOK'
  <1> USE DEF ConnTypeOK
  <1>1. ASSUME NEW k \in Conns, Handshake(k) PROVE ConnTypeOK'
    <2>1. CASE Open(k)
      BY <2>1 DEF Open, Phases
    <2>2. CASE ConnectFails(k)
      BY <2>2, FailureType
      DEF ConnectFails, HandshakeFails, Phases, Categories, DispatchMarks
    <2>3. CASE ConnectTimesOut(k)
      BY <2>3, FailureType
      DEF ConnectTimesOut, HandshakeFails, Phases, Categories, DispatchMarks
    <2>4. CASE Connected(k)
      BY <2>4, ConnectionAssumption DEF Connected, Phases, Requests
    <2>5. ASSUME NEW f \in toClient, Initialized(k, f) PROVE ConnTypeOK'
      <3>1. f \in Frames /\ f.kind # "request"
        BY <2>5 DEF Initialized, Correlated
      <3>2. ReplyAnswer(f, Initialize, dispatch[k]) \in Answers
        BY <3>1, ReplyAnswerFacts
      <3>3. /\ Failure("target_unavailable", "absent") \in Answers
            /\ Failure("authority_transport_failure", "absent") \in Answers
        BY FailureType DEF Categories, DispatchMarks
      <3>4. QED
        BY <2>5, <3>2, <3>3 DEF Initialized, HandshakeFails, Phases
    <2>6. QED
      BY <1>1, <2>1, <2>2, <2>3, <2>4, <2>5 DEF Handshake
  <1>2. ASSUME NEW k \in Conns, Reads(k) PROVE ConnTypeOK'
    <2>1. ASSUME NEW f \in toClient, ReceiveReply(k, f) PROVE ConnTypeOK'
      <3> DEFINE d == IF current[k] \in Mutations
                      THEN "correlated_result_received" ELSE dispatch[k]
      <3>1. d \in DispatchStates
        BY DEF DispatchStates
      <3>2. f \in Frames /\ f.kind # "request"
        BY <2>1 DEF ReceiveReply, Correlated
      <3>3. ReplyAnswer(f, current[k], d) \in Answers
        BY <3>1, <3>2, ReplyAnswerFacts
      <3>4. QED
        BY <2>1, <3>1, <3>3 DEF ReceiveReply, Returns, Phases
    <2>2. ASSUME NEW f \in toClient, SkipFrame(k, f) PROVE ConnTypeOK'
      BY <2>2 DEF SkipFrame
    <2>3. CASE ReadFails(k)
      BY <2>3, TransportErrorFacts DEF ReadFails, Returns, HandshakeFails, Phases
    <2>4. CASE TimesOut(k)
      BY <2>4, TimeoutErrorFacts DEF TimesOut, Returns, HandshakeFails, Phases
    <2>5. QED
      BY <1>2, <2>1, <2>2, <2>3, <2>4 DEF Reads
  <1>3. ASSUME NEW k \in Conns, NEW op \in Ops \ {Initialize}, Request(k, op)
        PROVE ConnTypeOK'
    <2> DEFINE d == IF op \in Mutations
                    THEN "may_have_been_dispatched" ELSE dispatch[k]
    <2>1. d \in DispatchStates
      BY DEF DispatchStates
    <2>2. TransportError(op, d) \in Answers /\ NoAnswer \in Answers
      BY <2>1, TransportErrorFacts, NoAnswerType
    <2>3. [conn |-> k, id |-> nextId[k], op |-> op] \in Requests
      BY DEF Requests
    <2>4. QED
      BY <1>3, <2>1, <2>2, <2>3 DEF Request, Phases
  <1>4. ASSUME Environment PROVE ConnTypeOK'
    <2>1. ASSUME NEW m \in toServer, NEW kind \in ReplyKinds,
                 NEW data \in Payloads, Reply(m, kind, data)
          PROVE ConnTypeOK'
      BY <2>1 DEF Reply, Requests, Frames
    <2>2. ASSUME NEW k \in Conns, NEW i \in 0 .. MaxRequests, ServerFrame(k, i)
          PROVE ConnTypeOK'
      BY <2>2, ConnectionAssumption DEF ServerFrame, Frames
    <2>3. ASSUME NEW k \in Conns, LinkDrops(k) PROVE ConnTypeOK'
      BY <2>3 DEF LinkDrops
    <2>4. QED
      BY <1>4, <2>1, <2>2, <2>3 DEF Environment
  <1>5. CASE UNCHANGED connVars
    BY <1>5 DEF connVars
  <1>6. QED
    BY <1>1, <1>2, <1>3, <1>4, <1>5 DEF ConnNext

\* Every reachable state is well typed.
THEOREM ConnTyping == ConnSpec => []ConnTypeOK
  <1>1. ConnInit => ConnTypeOK
    BY ConnectionAssumption, NoAnswerType
    DEF ConnInit, ConnTypeOK, Phases, DispatchStates
  <1>2. ConnTypeOK /\ [ConnNext]_connVars => ConnTypeOK'
    BY ConnTypingStep
  <1>3. QED
    BY <1>1, <1>2, PTL DEF ConnSpec

-----------------------------------------------------------------------------
(* Replies answer their own request.  OwnInv is the inductive strengthening: *)
(* an id is in flight only after it was issued, and whatever carries the     *)
(* last id carries the last method, so the id test of the read loop is       *)
(* enough to tell the awaited reply from every abandoned one.                *)

LEMMA QuietStep ==
  ASSUME ConnTypeOK, QuietUntilConnected, [ConnNext]_connVars
  PROVE  QuietUntilConnected'
  <1> USE DEF ConnTypeOK, QuietUntilConnected
  <1>1. ASSUME NEW k \in Conns, Handshake(k) PROVE QuietUntilConnected'
    BY <1>1
    DEF Handshake, Open, ConnectFails, ConnectTimesOut, Connected, Initialized,
        HandshakeFails
  <1>2. ASSUME NEW k \in Conns, Reads(k) PROVE QuietUntilConnected'
    BY <1>2 DEF Reads, ReceiveReply, SkipFrame, ReadFails, TimesOut, Returns, HandshakeFails
  <1>3. ASSUME NEW k \in Conns, NEW op \in Ops \ {Initialize}, Request(k, op)
        PROVE QuietUntilConnected'
    BY <1>3 DEF Request
  <1>4. ASSUME Environment PROVE QuietUntilConnected'
    BY <1>4 DEF Environment, Reply, ServerFrame, LinkDrops
  <1>5. CASE UNCHANGED connVars
    BY <1>5 DEF connVars
  <1>6. QED
    BY <1>1, <1>2, <1>3, <1>4, <1>5 DEF ConnNext

LEMMA OwnInvInit ==
  ConnInit => QuietUntilConnected /\ IdsIssued /\ LastIdNamesCurrent /\ AnswerIsOwn
  BY DEF ConnInit, QuietUntilConnected, IdsIssued, LastIdNamesCurrent, AnswerIsOwn, NoAnswer

LEMMA OwnInvStep ==
  ASSUME OwnInv, ConnTypeOK', [ConnNext]_connVars
  PROVE  IdsIssued' /\ LastIdNamesCurrent' /\ AnswerIsOwn'
  <1> USE DEF OwnInv, IdsIssued, LastIdNamesCurrent, AnswerIsOwn
  <1>t. /\ \A m \in toServer : m.conn \in Conns /\ m.id \in Nat
        /\ \A f \in toClient : f.conn \in Conns /\ f.id \in Nat
        /\ \A k \in Conns : nextId[k] \in Nat \ {0} /\ dispatch[k] \in DispatchStates
        /\ DOMAIN nextId = Conns /\ DOMAIN current = Conns /\ DOMAIN answer = Conns
    BY DEF ConnTypeOK, Requests, Frames
  <1>1. ASSUME NEW k \in Conns, Handshake(k)
        PROVE IdsIssued' /\ LastIdNamesCurrent' /\ AnswerIsOwn'
    <2>1. CASE Open(k)
      BY <2>1 DEF Open
    <2>2. CASE ConnectFails(k) \/ ConnectTimesOut(k)
      <3>1. /\ Failure("authority_transport_failure", "absent").category
                 \notin {"ok", "native_error"}
            /\ Failure("stage_timeout", "absent").category \notin {"ok", "native_error"}
        BY FailureType DEF Categories, DispatchMarks
      <3>2. QED
        BY <2>2, <3>1, <1>t DEF ConnectFails, ConnectTimesOut, HandshakeFails
    <2>3. CASE Connected(k)
      <3>1. PICK msg : /\ msg = [conn |-> k, id |-> nextId[k], op |-> Initialize]
                       /\ toServer' = toServer \union {msg}
        BY <2>3 DEF Connected
      <3>2. /\ nextId' = [nextId EXCEPT ![k] = nextId[k] + 1]
            /\ current' = [current EXCEPT ![k] = Initialize]
            /\ UNCHANGED <<answer, toClient>>
            /\ phase[k] = "connecting"
        BY <2>3 DEF Connected
      <3>3. IdsIssued' /\ LastIdNamesCurrent'
        BY <3>1, <3>2, <1>t
      <3>4. answer[k].category = "none"
        BY <3>2 DEF QuietUntilConnected
      <3>5. AnswerIsOwn'
        BY <3>2, <3>4, <1>t
      <3>6. QED
        BY <3>3, <3>5
    <2>4. ASSUME NEW f \in toClient, Initialized(k, f)
          PROVE IdsIssued' /\ LastIdNamesCurrent' /\ AnswerIsOwn'
      <3> DEFINE reply == ReplyAnswer(f, Initialize, dispatch[k])
      <3>1. f \in Frames /\ f.kind # "request" /\ f.conn = k /\ f.id = nextId[k] - 1
        BY <2>4 DEF Initialized, Correlated, ConnTypeOK
      <3>2. reply.category \in {"ok", "native_error"} =>
              reply.id = nextId[k] - 1 /\ reply.op = current[k]
        BY <3>1, <1>t, ReplyAnswerFacts
      <3>3. /\ Failure("target_unavailable", "absent").category
                 \notin {"ok", "native_error"}
            /\ Failure("authority_transport_failure", "absent").category
                 \notin {"ok", "native_error"}
        BY FailureType DEF Categories, DispatchMarks
      <3>4. UNCHANGED <<nextId, current, toServer>> /\ toClient' \subseteq toClient
        BY <2>4 DEF Initialized
      <3>5. AnswerIsOwn'
        BY <2>4, <3>2, <3>3, <3>4, <1>t DEF Initialized, HandshakeFails
      <3>6. QED
        BY <3>4, <3>5
    <2>5. QED
      BY <1>1, <2>1, <2>2, <2>3, <2>4 DEF Handshake
  <1>2. ASSUME NEW k \in Conns, Reads(k)
        PROVE IdsIssued' /\ LastIdNamesCurrent' /\ AnswerIsOwn'
    <2>1. ASSUME NEW f \in toClient, ReceiveReply(k, f)
          PROVE IdsIssued' /\ LastIdNamesCurrent' /\ AnswerIsOwn'
      <3> DEFINE d == IF current[k] \in Mutations
                      THEN "correlated_result_received" ELSE dispatch[k]
      <3>1. f \in Frames /\ f.kind # "request" /\ f.conn = k /\ f.id = nextId[k] - 1
        BY <2>1 DEF ReceiveReply, Correlated, ConnTypeOK
      <3>2. d \in DispatchStates
        BY <1>t DEF DispatchStates
      <3>3. ReplyAnswer(f, current[k], d).category \in {"ok", "native_error"} =>
              /\ ReplyAnswer(f, current[k], d).id = nextId[k] - 1
              /\ ReplyAnswer(f, current[k], d).op = current[k]
        BY <3>1, <3>2, ReplyAnswerFacts
      <3>4. /\ UNCHANGED <<nextId, current, toServer>> /\ toClient' \subseteq toClient
            /\ answer' = [answer EXCEPT ![k] = ReplyAnswer(f, current[k], d)]
        BY <2>1 DEF ReceiveReply, Returns
      <3>5. AnswerIsOwn'
        BY <3>3, <3>4, <1>t
      <3>6. QED
        BY <3>4, <3>5
    <2>2. ASSUME NEW f \in toClient, SkipFrame(k, f)
          PROVE IdsIssued' /\ LastIdNamesCurrent' /\ AnswerIsOwn'
      BY <2>2 DEF SkipFrame
    <2>3. CASE ReadFails(k)
      BY <2>3, <1>t, TransportErrorFacts DEF ReadFails, Returns, HandshakeFails
    <2>4. CASE TimesOut(k)
      BY <2>4, <1>t, TimeoutErrorFacts DEF TimesOut, Returns, HandshakeFails
    <2>5. QED
      BY <1>2, <2>1, <2>2, <2>3, <2>4 DEF Reads
  <1>3. ASSUME NEW k \in Conns, NEW op \in Ops \ {Initialize}, Request(k, op)
        PROVE IdsIssued' /\ LastIdNamesCurrent' /\ AnswerIsOwn'
    <2> DEFINE d == IF op \in Mutations
                    THEN "may_have_been_dispatched" ELSE dispatch[k]
    <2>1. PICK msg : /\ msg = [conn |-> k, id |-> nextId[k], op |-> op]
                     /\ toServer' \in {toServer, toServer \union {msg}}
      BY <1>3 DEF Request
    <2>2. /\ nextId' = [nextId EXCEPT ![k] = nextId[k] + 1]
          /\ current' = [current EXCEPT ![k] = op]
          /\ UNCHANGED toClient
          /\ answer' \in {[answer EXCEPT ![k] = NoAnswer],
                          [answer EXCEPT ![k] = TransportError(op, d)]}
      BY <1>3 DEF Request
    <2>3. IdsIssued' /\ LastIdNamesCurrent'
      BY <2>1, <2>2, <1>t
    <2>4. d \in DispatchStates
      BY <1>t DEF DispatchStates
    <2>5. TransportError(op, d).category \notin {"ok", "native_error"}
      BY <2>4, TransportErrorFacts
    <2>6. NoAnswer.category = "none"
      BY DEF NoAnswer
    <2>7. AnswerIsOwn'
      BY <2>2, <2>5, <2>6, <1>t
    <2>8. QED
      BY <2>3, <2>7
  <1>4. ASSUME Environment PROVE IdsIssued' /\ LastIdNamesCurrent' /\ AnswerIsOwn'
    <2>1. ASSUME NEW m \in toServer, NEW kind \in ReplyKinds, NEW data \in Payloads,
                 Reply(m, kind, data)
          PROVE IdsIssued' /\ LastIdNamesCurrent' /\ AnswerIsOwn'
      BY <2>1, <1>t DEF Reply
    <2>2. ASSUME NEW k \in Conns, NEW i \in 0 .. MaxRequests, ServerFrame(k, i)
          PROVE IdsIssued' /\ LastIdNamesCurrent' /\ AnswerIsOwn'
      BY <2>2, <1>t DEF ServerFrame
    <2>3. ASSUME NEW k \in Conns, LinkDrops(k)
          PROVE IdsIssued' /\ LastIdNamesCurrent' /\ AnswerIsOwn'
      BY <2>3 DEF LinkDrops
    <2>4. QED
      BY <1>4, <2>1, <2>2, <2>3 DEF Environment
  <1>5. CASE UNCHANGED connVars
    BY <1>5 DEF connVars
  <1>6. QED
    BY <1>1, <1>2, <1>3, <1>4, <1>5 DEF ConnNext

\* Every result and native error a request returns is the server's reply to it.
THEOREM RepliesAreOwn == ConnSpec => []AnswerIsOwn
  <1>1. ConnInit /\ ConnTypeOK => OwnInv
    BY OwnInvInit DEF OwnInv
  <1>2. OwnInv /\ ConnTypeOK' /\ [ConnNext]_connVars => OwnInv'
    BY OwnInvStep, QuietStep DEF OwnInv
  <1>3. OwnInv => AnswerIsOwn
    BY DEF OwnInv
  <1>4. QED
    BY <1>1, <1>2, <1>3, ConnTyping, PTL DEF ConnSpec

-----------------------------------------------------------------------------
(* The outcome_unknown classification.  The dispatch state alone does not     *)
(* give it: a mutation is only ever awaited with the mark set, and nothing    *)
(* but a request changes what the mark is about.                              *)

LEMMA DispatchInvStep ==
  ASSUME DispatchInv, [ConnNext]_connVars
  PROVE  AwaitedMutationMarked' /\ HandshakeFirst' /\ UnknownIffUnanswered'
  <1> USE DEF DispatchInv, AwaitedMutationMarked, HandshakeFirst, UnknownIffUnanswered
  <1> DEFINE Goal == AwaitedMutationMarked /\ HandshakeFirst /\ UnknownIffUnanswered
  <1>t. /\ \A k \in Conns : dispatch[k] \in DispatchStates
        /\ DOMAIN phase = Conns /\ DOMAIN dispatch = Conns
        /\ DOMAIN current = Conns /\ DOMAIN answer = Conns
    BY DEF ConnTypeOK
  <1>1. ASSUME NEW k \in Conns, Handshake(k) PROVE Goal'
    <2>1. CASE Open(k)
      BY <2>1, <1>t DEF Open
    <2>2. CASE ConnectFails(k) \/ ConnectTimesOut(k)
      BY <2>2, <1>t DEF ConnectFails, ConnectTimesOut, HandshakeFails
    <2>3. CASE Connected(k)
      BY <2>3, <1>t, ConnectionAssumption DEF Connected
    <2>4. ASSUME NEW f \in toClient, Initialized(k, f) PROVE Goal'
      BY <2>4, <1>t, ConnectionAssumption DEF Initialized, HandshakeFails
    <2>5. QED
      BY <1>1, <2>1, <2>2, <2>3, <2>4 DEF Handshake
  <1>2. ASSUME NEW k \in Conns, Reads(k) PROVE Goal'
    <2>1. ASSUME NEW f \in toClient, ReceiveReply(k, f) PROVE Goal'
      <3> DEFINE d == IF current[k] \in Mutations
                      THEN "correlated_result_received" ELSE dispatch[k]
      <3>1. f \in Frames /\ f.kind # "request"
        BY <2>1 DEF ReceiveReply, Correlated, ConnTypeOK
      <3>2. d \in DispatchStates
        BY <1>t DEF DispatchStates
      <3>3. d # "may_have_been_dispatched" =>
              ReplyAnswer(f, current[k], d).category # "outcome_unknown"
        BY <3>1, <3>2, ReplyAnswerFacts
      <3>4. QED
        BY <2>1, <3>3, <1>t DEF ReceiveReply, Returns
    <2>2. ASSUME NEW f \in toClient, SkipFrame(k, f) PROVE Goal'
      BY <2>2 DEF SkipFrame
    <2>3. CASE ReadFails(k)
      BY <2>3, <1>t, TransportErrorFacts DEF ReadFails, Returns, HandshakeFails
    <2>4. CASE TimesOut(k)
      BY <2>4, <1>t, TimeoutErrorFacts DEF TimesOut, Returns, HandshakeFails
    <2>5. QED
      BY <1>2, <2>1, <2>2, <2>3, <2>4 DEF Reads
  <1>3. ASSUME NEW k \in Conns, NEW op \in Ops \ {Initialize}, Request(k, op)
        PROVE Goal'
    <2> DEFINE d == IF op \in Mutations
                    THEN "may_have_been_dispatched" ELSE dispatch[k]
    <2>1. d \in DispatchStates
      BY <1>t DEF DispatchStates
    <2>2. TransportError(op, d).category = "outcome_unknown"
            <=> op \in Mutations /\ d = "may_have_been_dispatched"
      BY <2>1, TransportErrorFacts
    <2>3. QED
      BY <1>3, <2>2, <1>t DEF Request
  <1>4. ASSUME Environment PROVE Goal'
    BY <1>4 DEF Environment, Reply, ServerFrame, LinkDrops
  <1>5. CASE UNCHANGED connVars
    BY <1>5 DEF connVars
  <1>6. QED
    BY <1>1, <1>2, <1>3, <1>4, <1>5 DEF ConnNext

\* A mutation that returned is outcome_unknown exactly when its own reply was not
\* received, for every caller and every failure of the socket or the server.
THEOREM UnknownOutcomesAreExact == ConnSpec => []UnknownIffUnanswered
  <1>1. ConnInit /\ ConnTypeOK => DispatchInv
    BY ConnectionAssumption
    DEF ConnInit, DispatchInv, AwaitedMutationMarked, HandshakeFirst, UnknownIffUnanswered
  <1>2. DispatchInv /\ ConnTypeOK' /\ [ConnNext]_connVars => DispatchInv'
    BY DispatchInvStep DEF DispatchInv
  <1>3. DispatchInv => UnknownIffUnanswered
    BY DEF DispatchInv
  <1>4. QED
    BY <1>1, <1>2, <1>3, ConnTyping, PTL DEF ConnSpec

-----------------------------------------------------------------------------
(* What the tools rely on besides.                                         *)

\* Whatever takes it, a step keeps a request from being executed or answered twice.
LEMMA AnsweredOnceStep ==
  ASSUME OwnInv, AnsweredOnce, [ConnNext]_connVars
  PROVE  AnsweredOnce'
  <1> USE DEF OwnInv, IdsIssued, AnswerIsOwn, AnsweredOnce
  <1>t. /\ \A m \in toServer : m.conn \in Conns /\ m.id \in Nat
        /\ \A f \in toClient : f.conn \in Conns /\ f.id \in Nat
        /\ \A k \in Conns : nextId[k] \in Nat \ {0} /\ dispatch[k] \in DispatchStates
        /\ DOMAIN nextId = Conns /\ DOMAIN current = Conns /\ DOMAIN answer = Conns
    BY DEF ConnTypeOK, Requests, Frames
  <1>1. ASSUME NEW k \in Conns, Handshake(k) PROVE AnsweredOnce'
    <2>1. CASE Open(k)
      BY <2>1 DEF Open
    <2>2. CASE ConnectFails(k) \/ ConnectTimesOut(k)
      <3>1. /\ Failure("authority_transport_failure", "absent").category
                 \notin {"ok", "native_error"}
            /\ Failure("stage_timeout", "absent").category \notin {"ok", "native_error"}
        BY FailureType DEF Categories, DispatchMarks
      <3>2. QED
        BY <2>2, <3>1, <1>t DEF ConnectFails, ConnectTimesOut, HandshakeFails
    <2>3. CASE Connected(k)
      <3>1. PICK msg : /\ msg = [conn |-> k, id |-> nextId[k], op |-> Initialize]
                       /\ toServer' = toServer \union {msg}
        BY <2>3 DEF Connected
      <3>2. nextId' = [nextId EXCEPT ![k] = nextId[k] + 1] /\ UNCHANGED <<answer, toClient>>
        BY <2>3 DEF Connected
      <3>3. answer[k].category = "none"
        BY <2>3 DEF Connected, QuietUntilConnected
      <3>4. QED
        BY <3>1, <3>2, <3>3, <1>t
    <2>4. ASSUME NEW f \in toClient, Initialized(k, f) PROVE AnsweredOnce'
      <3>1. f.kind # "request" /\ f.conn = k /\ f.id = nextId[k] - 1
        BY <2>4 DEF Initialized, Correlated
      <3>2. UNCHANGED <<nextId, toServer>> /\ toClient' \subseteq toClient
        BY <2>4 DEF Initialized
      <3>3. \A j \in Conns \ {k} : answer'[j] = answer[j]
        BY <2>4, <1>t DEF Initialized, HandshakeFails
      <3>4. QED
        BY <3>1, <3>2, <3>3, <1>t
    <2>5. QED
      BY <1>1, <2>1, <2>2, <2>3, <2>4 DEF Handshake
  <1>2. ASSUME NEW k \in Conns, Reads(k) PROVE AnsweredOnce'
    <2>1. ASSUME NEW f \in toClient, ReceiveReply(k, f) PROVE AnsweredOnce'
      <3>1. f.kind # "request" /\ f.conn = k /\ f.id = nextId[k] - 1
        BY <2>1 DEF ReceiveReply, Correlated
      <3>2. UNCHANGED <<nextId, toServer>> /\ toClient' \subseteq toClient
        BY <2>1 DEF ReceiveReply
      <3>3. \A j \in Conns \ {k} : answer'[j] = answer[j]
        BY <2>1, <1>t DEF ReceiveReply, Returns
      <3>4. QED
        BY <3>1, <3>2, <3>3, <1>t
    <2>2. ASSUME NEW f \in toClient, SkipFrame(k, f) PROVE AnsweredOnce'
      BY <2>2 DEF SkipFrame
    <2>3. CASE ReadFails(k)
      BY <2>3, <1>t, TransportErrorFacts DEF ReadFails, Returns, HandshakeFails
    <2>4. CASE TimesOut(k)
      BY <2>4, <1>t, TimeoutErrorFacts DEF TimesOut, Returns, HandshakeFails
    <2>5. QED
      BY <1>2, <2>1, <2>2, <2>3, <2>4 DEF Reads
  <1>3. ASSUME NEW k \in Conns, NEW op \in Ops \ {Initialize}, Request(k, op)
        PROVE AnsweredOnce'
    <2> DEFINE d == IF op \in Mutations
                    THEN "may_have_been_dispatched" ELSE dispatch[k]
    <2>1. PICK msg : /\ msg = [conn |-> k, id |-> nextId[k], op |-> op]
                     /\ toServer' \in {toServer, toServer \union {msg}}
      BY <1>3 DEF Request
    <2>2. /\ nextId' = [nextId EXCEPT ![k] = nextId[k] + 1]
          /\ UNCHANGED toClient
          /\ answer' \in {[answer EXCEPT ![k] = NoAnswer],
                          [answer EXCEPT ![k] = TransportError(op, d)]}
      BY <1>3 DEF Request
    <2>3. d \in DispatchStates
      BY <1>t DEF DispatchStates
    <2>4. /\ TransportError(op, d).category \notin {"ok", "native_error"}
          /\ NoAnswer.category \notin {"ok", "native_error"}
      BY <2>3, TransportErrorFacts DEF NoAnswer
    <2>5. QED
      BY <2>1, <2>2, <2>4, <1>t
  <1>4. ASSUME Environment PROVE AnsweredOnce'
    <2>1. ASSUME NEW m \in toServer, NEW kind \in ReplyKinds, NEW data \in Payloads,
                 Reply(m, kind, data)
          PROVE AnsweredOnce'
      BY <2>1, <1>t DEF Reply
    <2>2. ASSUME NEW k \in Conns, NEW i \in 0 .. MaxRequests, ServerFrame(k, i)
          PROVE AnsweredOnce'
      BY <2>2, <1>t DEF ServerFrame
    <2>3. ASSUME NEW k \in Conns, LinkDrops(k) PROVE AnsweredOnce'
      BY <2>3 DEF LinkDrops
    <2>4. QED
      BY <1>4, <2>1, <2>2, <2>3 DEF Environment
  <1>5. CASE UNCHANGED connVars
    BY <1>5 DEF connVars
  <1>6. QED
    BY <1>1, <1>2, <1>3, <1>4, <1>5 DEF ConnNext

LEMMA FailedMutationsMarkedStep ==
  ASSUME DispatchInv, FailedMutationsMarked, [ConnNext]_connVars
  PROVE  FailedMutationsMarked'
  <1> USE DEF DispatchInv, HandshakeFirst, FailedMutationsMarked
  <1>t. /\ \A k \in Conns : dispatch[k] \in DispatchStates
        /\ DOMAIN phase = Conns /\ DOMAIN dispatch = Conns
        /\ DOMAIN current = Conns /\ DOMAIN answer = Conns
    BY DEF ConnTypeOK
  <1>1. ASSUME NEW k \in Conns, Handshake(k) PROVE FailedMutationsMarked'
    <2>1. CASE Open(k) \/ ConnectFails(k) \/ ConnectTimesOut(k) \/ Connected(k)
      BY <2>1, <1>t, ConnectionAssumption
      DEF Open, ConnectFails, ConnectTimesOut, HandshakeFails, Connected
    <2>2. ASSUME NEW f \in toClient, Initialized(k, f) PROVE FailedMutationsMarked'
      BY <2>2, <1>t, ConnectionAssumption DEF Initialized, HandshakeFails
    <2>3. QED
      BY <1>1, <2>1, <2>2 DEF Handshake
  <1>2. ASSUME NEW k \in Conns, Reads(k) PROVE FailedMutationsMarked'
    <2>1. ASSUME NEW f \in toClient, ReceiveReply(k, f) PROVE FailedMutationsMarked'
      <3>1. PICK d \in DispatchStates :
              answer' = [answer EXCEPT ![k] = ReplyAnswer(f, current[k], d)]
        BY <2>1, <1>t DEF ReceiveReply, Returns, DispatchStates
      <3>2. f \in Frames /\ f.kind # "request"
        BY <2>1 DEF ReceiveReply, Correlated, ConnTypeOK
      <3>3. QED
        BY <2>1, <3>1, <3>2, <1>t, ReplyAnswerFacts DEF ReceiveReply, Returns
    <2>2. ASSUME NEW f \in toClient, SkipFrame(k, f) PROVE FailedMutationsMarked'
      BY <2>2 DEF SkipFrame
    <2>3. CASE ReadFails(k)
      BY <2>3, <1>t, TransportErrorFacts DEF ReadFails, Returns, HandshakeFails
    <2>4. CASE TimesOut(k)
      BY <2>4, <1>t, TimeoutErrorFacts DEF TimesOut, Returns, HandshakeFails
    <2>5. QED
      BY <1>2, <2>1, <2>2, <2>3, <2>4 DEF Reads
  <1>3. ASSUME NEW k \in Conns, NEW op \in Ops \ {Initialize}, Request(k, op)
        PROVE FailedMutationsMarked'
    <2> DEFINE d == IF op \in Mutations
                    THEN "may_have_been_dispatched" ELSE dispatch[k]
    <2>1. d \in DispatchStates
      BY <1>t DEF DispatchStates
    <2>2. /\ TransportError(op, d).category # "none"
          /\ op \in Mutations => TransportError(op, d).mark # "absent"
      BY <2>1, TransportErrorFacts
    <2>3. QED
      BY <1>3, <2>2, <1>t DEF Request
  <1>4. ASSUME Environment PROVE FailedMutationsMarked'
    BY <1>4 DEF Environment, Reply, ServerFrame, LinkDrops
  <1>5. CASE UNCHANGED connVars
    BY <1>5 DEF connVars
  <1>6. QED
    BY <1>1, <1>2, <1>3, <1>4, <1>5 DEF ConnNext

LEMMA AnsweredWhenReadyStep ==
  ASSUME OwnInv, AnsweredWhenReady, [ConnNext]_connVars
  PROVE  AnsweredWhenReady'
  <1>1. /\ \A k \in Conns : dispatch[k] \in DispatchStates
        /\ DOMAIN phase = Conns /\ DOMAIN answer = Conns
    BY DEF OwnInv, ConnTypeOK
  <1>2. ASSUME NEW k \in Conns, Handshake(k)
        PROVE AnsweredWhenReady'
    <2>1. CASE Open(k) \/ Connected(k)
      BY <1>1, <2>1 DEF AnsweredWhenReady, Open, Connected
    <2>2. CASE ConnectFails(k) \/ ConnectTimesOut(k)
      <3>1. /\ Failure("authority_transport_failure", "absent").category # "ok"
            /\ Failure("stage_timeout", "absent").category # "ok"
        BY DEF Failure, NoAnswer
      <3>2. QED
        BY <1>1, <2>2, <3>1
        DEF AnsweredWhenReady, ConnectFails, ConnectTimesOut, HandshakeFails
    <2>3. ASSUME NEW f \in toClient, Initialized(k, f) PROVE AnsweredWhenReady'
      <3>1. /\ Failure("authority_transport_failure", "absent").category # "ok"
            /\ Failure("target_unavailable", "absent").category # "ok"
        BY DEF Failure, NoAnswer
      <3>2. CASE phase'[k] = "ready"
        BY <1>1, <2>3, <3>2 DEF AnsweredWhenReady, Initialized, HandshakeFails
      <3>3. CASE phase'[k] # "ready"
        BY <1>1, <2>3, <3>1, <3>3 DEF AnsweredWhenReady, Initialized, HandshakeFails
      <3>4. QED
        BY <3>2, <3>3
    <2>4. QED
      BY <1>2, <2>1, <2>2, <2>3 DEF Handshake
  <1>3. ASSUME NEW k \in Conns, Reads(k)
        PROVE AnsweredWhenReady'
    <2>1. TimeoutError(Initialize).category # "ok"
      BY TimeoutErrorFacts
    <2>2. TransportError(Initialize, dispatch[k]).category # "ok"
      BY <1>1, TransportErrorFacts
    <2>3. QED
      BY <1>1, <1>3, <2>1, <2>2
      DEF AnsweredWhenReady, Reads, ReceiveReply, SkipFrame, ReadFails, TimesOut, Returns,
          HandshakeFails
  <1>4. ASSUME NEW k \in Conns, NEW op, Request(k, op)
        PROVE AnsweredWhenReady'
    BY <1>1, <1>4 DEF AnsweredWhenReady, Request
  <1>5. CASE Environment \/ UNCHANGED connVars
    BY <1>5 DEF AnsweredWhenReady, Environment, Reply, ServerFrame, LinkDrops, connVars
  <1>6. QED
    BY <1>2, <1>3, <1>4, <1>5 DEF ConnNext

\* A mutation that returned without its result carries a dispatch mark, for every caller
\* and every failure: no failed change goes without the word whether it may be repeated.
THEOREM FailuresAreMarked == ConnSpec => []FailedMutationsMarked
  <1>1. ConnInit /\ ConnTypeOK => DispatchInv /\ FailedMutationsMarked
    BY ConnectionAssumption
    DEF ConnInit, DispatchInv, AwaitedMutationMarked, HandshakeFirst, UnknownIffUnanswered,
        FailedMutationsMarked
  <1>2. DispatchInv /\ FailedMutationsMarked /\ ConnTypeOK' /\ [ConnNext]_connVars =>
          DispatchInv' /\ FailedMutationsMarked'
    BY DispatchInvStep, FailedMutationsMarkedStep DEF DispatchInv
  <1>3. QED
    BY <1>1, <1>2, ConnTyping, PTL DEF ConnSpec
=============================================================================
