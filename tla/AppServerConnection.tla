------------------------ MODULE AppServerConnection ------------------------
(***************************************************************************)
(* One client connection to the Codex app-server (src/app_server.rs): the  *)
(* connect and initialize handshake, requests correlated by id, the        *)
(* ten-second stage timeout, and the dispatch mark that tells a mutation   *)
(* that was never written from one whose outcome is unknown.               *)
(*                                                                         *)
(* The app-server is external.  It answers each request it reads at most   *)
(* once, in any order and at any time, also after the client stopped       *)
(* waiting; it sends requests and notifications of its own; and the socket *)
(* can fail at any time.  A caller issues the requests one at a time, as   *)
(* `&mut self' forces it to.                                               *)
(***************************************************************************)
EXTENDS Naturals, FiniteSets

CONSTANTS
  Conns,        \* connection attempts
  Ops,          \* request methods with their parameters
  Mutations,    \* the requests issued through `mutate'
  Initialize,   \* the handshake request
  NoOp,
  Payloads,     \* what a result or an error can carry
  NoData,
  MaxRequests,  \* bound: requests on one connection, the handshake included
  MaxNoise      \* bound: server-initiated frames in flight on one connection

ASSUME ConnectionAssumption ==
  /\ Initialize \in Ops
  /\ Mutations \subseteq Ops \ {Initialize}
  /\ NoOp \notin Ops
  /\ NoData \in Payloads
  /\ MaxRequests \in Nat \ {0}
  /\ MaxNoise \in Nat

VARIABLES
  phase,     \* what the task that owns the connection is awaiting
  nextId,    \* next_request_id
  dispatch,  \* MutationDispatch
  current,   \* the last request issued
  answer,    \* what the last request, or the handshake, returned
  link,      \* the socket still carries frames
  toServer,  \* requests written and not yet executed by the server
  toClient   \* frames written by the server and not yet read

connVars == <<phase, nextId, dispatch, current, answer, link, toServer, toClient>>

Phases == {"closed", "connecting", "initializing", "ready", "waiting", "failed"}

DispatchStates ==
  {"not_dispatched", "may_have_been_dispatched", "correlated_result_received"}

Categories ==
  {"none", "ok", "native_error", "authority_transport_failure", "stage_timeout",
   "target_unavailable", "outcome_unknown"}

\* ToolErrorData.dispatch: absent on reads, two values on mutations.
DispatchMarks == {"absent", "not_dispatched", "may_have_been_dispatched"}

Answers == [category: Categories, mark: DispatchMarks, id: Nat,
            op: Ops \union {NoOp}, data: Payloads]

NoAnswer == [category |-> "none", mark |-> "absent", id |-> 0,
             op |-> NoOp, data |-> NoData]

Requests == [conn: Conns, id: Nat, op: Ops]

ReplyKinds == {"result", "error", "undecodable"}

\* A "request" frame is one with a method: a notification or a server request,
\* whose id comes from the server's own counter.
Frames == [conn: Conns, id: Nat, kind: ReplyKinds \union {"request"},
           op: Ops \union {NoOp}, data: Payloads]

Failure(category, mark) == [NoAnswer EXCEPT !.category = category, !.mark = mark]

-----------------------------------------------------------------------------
(* How a request's failures are classified.                                *)

\* Two mistakes: the mark copied from the connection's state instead of mapped,
\* and a failure after the write classified like one before it.
TransportErrorUnmapped(op, d) ==
  IF op \notin Mutations
  THEN Failure("authority_transport_failure", "absent")
  ELSE Failure("outcome_unknown", d)

TransportErrorForgetsDispatch(op, d) ==
  IF op \notin Mutations
  THEN Failure("authority_transport_failure", "absent")
  ELSE Failure("authority_transport_failure", "not_dispatched")

\* request_transport_error: the category and the mark follow the dispatch state.
TransportError(op, d) ==
  IF op \notin Mutations
  THEN Failure("authority_transport_failure", "absent")
  ELSE CASE d = "may_have_been_dispatched" ->
              Failure("outcome_unknown", "may_have_been_dispatched")
         [] d = "correlated_result_received" ->
              Failure("authority_transport_failure", "may_have_been_dispatched")
         [] d = "not_dispatched" ->
              Failure("authority_transport_failure", "not_dispatched")

\* with_native_stage_timeout around the request, and the rewrite of its error
\* when the request is a mutation.
TimeoutError(op) ==
  IF op \in Mutations
  THEN Failure("outcome_unknown", "may_have_been_dispatched")
  ELSE Failure("stage_timeout", "absent")

\* The frame's own error or result, for the request it is correlated with.
ReplyAnswer(f, op, d) ==
  LET said(category, mark) == [category |-> category, mark |-> mark, id |-> f.id,
                               op |-> f.op, data |-> f.data]
  IN CASE f.kind = "undecodable" -> TransportError(op, d)
       [] f.kind = "error" ->
            said("native_error", IF op \in Mutations
                                 THEN "may_have_been_dispatched" ELSE "absent")
       [] OTHER -> said("ok", "absent")

\* A mistake: a server request numbered like the pending request is its reply.
CorrelatedById(f, k) == f.id = nextId[k] - 1

\* The read loop accepts a frame without a method whose id is the request's.
Correlated(f, k) == f.kind # "request" /\ f.id = nextId[k] - 1

-----------------------------------------------------------------------------
(* The handshake.                                                          *)

Open(k) ==
  /\ phase[k] = "closed"
  /\ phase' = [phase EXCEPT ![k] = "connecting"]
  /\ UNCHANGED <<nextId, dispatch, current, answer, link, toServer, toClient>>

HandshakeFails(k, failure) ==
  /\ phase' = [phase EXCEPT ![k] = "failed"]
  /\ answer' = [answer EXCEPT ![k] = failure]

\* An unsafe socket, a refused connection or a failed WebSocket upgrade.
ConnectFails(k) ==
  /\ phase[k] = "connecting"
  /\ HandshakeFails(k, Failure("authority_transport_failure", "absent"))
  /\ UNCHANGED <<nextId, dispatch, current, link, toServer, toClient>>

ConnectTimesOut(k) ==
  /\ phase[k] = "connecting"
  /\ HandshakeFails(k, Failure("stage_timeout", "absent"))
  /\ UNCHANGED <<nextId, dispatch, current, link, toServer, toClient>>

Connected(k) ==
  /\ phase[k] = "connecting"
  /\ phase' = [phase EXCEPT ![k] = "initializing"]
  /\ link' = [link EXCEPT ![k] = TRUE]
  /\ nextId' = [nextId EXCEPT ![k] = @ + 1]
  /\ current' = [current EXCEPT ![k] = Initialize]
  /\ toServer' = toServer \union {[conn |-> k, id |-> nextId[k], op |-> Initialize]}
  /\ UNCHANGED <<dispatch, answer, toClient>>

\* A correlated reply to `initialize': an error or undecodable reply fails the
\* handshake; a result naming another Codex home does too; else `initialized' is
\* sent, and fails with the socket.
Initialized(k, f) ==
  LET reply == ReplyAnswer(f, Initialize, dispatch[k])
  IN /\ phase[k] = "initializing"
     /\ f \in toClient /\ f.conn = k /\ Correlated(f, k)
     /\ toClient' = toClient \ {f}
     /\ IF reply.category # "ok" THEN HandshakeFails(k, reply)
        ELSE \/ HandshakeFails(k, Failure("target_unavailable", "absent"))
             \/ /\ ~link[k]
                /\ HandshakeFails(k, Failure("authority_transport_failure", "absent"))
             \/ /\ link[k]
                /\ phase' = [phase EXCEPT ![k] = "ready"]
                /\ UNCHANGED answer
     /\ UNCHANGED <<nextId, dispatch, current, link, toServer>>

-----------------------------------------------------------------------------
(* One request at a time.                                                  *)

\* The mutation mark is set before the write.  A write on a dead socket returns
\* a transport error, whether or not the frame left this process.
Request(k, op) ==
  LET d   == IF op \in Mutations THEN "may_have_been_dispatched" ELSE dispatch[k]
      msg == [conn |-> k, id |-> nextId[k], op |-> op]
  IN /\ phase[k] = "ready"
     /\ nextId[k] <= MaxRequests
     /\ nextId' = [nextId EXCEPT ![k] = @ + 1]
     /\ dispatch' = [dispatch EXCEPT ![k] = d]
     /\ current' = [current EXCEPT ![k] = op]
     /\ \/ /\ link[k]
           /\ phase' = [phase EXCEPT ![k] = "waiting"]
           /\ answer' = [answer EXCEPT ![k] = NoAnswer]
           /\ toServer' = toServer \union {msg}
        \/ /\ ~link[k]
           /\ answer' = [answer EXCEPT ![k] = TransportError(op, d)]
           /\ toServer' \in {toServer, toServer \union {msg}}
           /\ UNCHANGED phase
     /\ UNCHANGED <<link, toClient>>

Returns(k, reply) ==
  /\ phase' = [phase EXCEPT ![k] = "ready"]
  /\ answer' = [answer EXCEPT ![k] = reply]

\* The correlated reply is recorded before it is looked at.
ReceiveReply(k, f) ==
  LET d == IF current[k] \in Mutations
           THEN "correlated_result_received" ELSE dispatch[k]
  IN /\ phase[k] = "waiting"
     /\ f \in toClient /\ f.conn = k /\ Correlated(f, k)
     /\ toClient' = toClient \ {f}
     /\ dispatch' = [dispatch EXCEPT ![k] = d]
     /\ Returns(k, ReplyAnswer(f, current[k], d))
     /\ UNCHANGED <<nextId, current, link, toServer>>

\* Notifications, server requests and replies to abandoned requests are skipped.
SkipFrame(k, f) ==
  /\ phase[k] \in {"initializing", "waiting"}
  /\ f \in toClient /\ f.conn = k /\ ~Correlated(f, k)
  /\ toClient' = toClient \ {f}
  /\ UNCHANGED <<phase, nextId, dispatch, current, answer, link, toServer>>

\* End of stream, a read error, a close frame, or a frame that is not JSON, after
\* which the connection is as good as before.
ReadFails(k) ==
  /\ \/ /\ phase[k] = "waiting"
        /\ Returns(k, TransportError(current[k], dispatch[k]))
     \/ /\ phase[k] = "initializing"
        /\ HandshakeFails(k, TransportError(Initialize, dispatch[k]))
  /\ UNCHANGED <<nextId, dispatch, current, link, toServer, toClient>>

\* A mistake: only a mutation is timed.
TimesOutMutationsOnly(k) ==
  /\ phase[k] = "waiting" /\ current[k] \in Mutations
  /\ Returns(k, TimeoutError(current[k]))
  /\ UNCHANGED <<nextId, dispatch, current, link, toServer, toClient>>

\* A mistake: the handshake request, issued without a timeout of its own, is not
\* under the timeout of the initialize stage either.
TimesOutOncePerRequest(k) ==
  /\ phase[k] = "waiting"
  /\ Returns(k, TimeoutError(current[k]))
  /\ UNCHANGED <<nextId, dispatch, current, link, toServer, toClient>>

\* The ten seconds of the stage have passed.  The request stays in flight.
TimesOut(k) ==
  /\ \/ /\ phase[k] = "waiting"
        /\ Returns(k, TimeoutError(current[k]))
     \/ /\ phase[k] = "initializing"
        /\ HandshakeFails(k, TimeoutError(Initialize))
  /\ UNCHANGED <<nextId, dispatch, current, link, toServer, toClient>>

-----------------------------------------------------------------------------
(* The server and the socket (external).                                   *)

\* The server has executed m and writes its reply; a dead socket loses it.
Reply(m, kind, data) ==
  /\ m \in toServer
  /\ toServer' = toServer \ {m}
  /\ toClient' = IF link[m.conn]
                 THEN toClient \union {[conn |-> m.conn, id |-> m.id, kind |-> kind,
                                        op |-> m.op, data |-> data]}
                 ELSE toClient
  /\ UNCHANGED <<phase, nextId, dispatch, current, answer, link>>

Noise(k) == {f \in toClient : f.conn = k /\ f.kind = "request"}

\* A notification or a request of the server's own, numbered by the server.
ServerFrame(k, i) ==
  /\ link[k]
  /\ Cardinality(Noise(k)) < MaxNoise
  /\ toClient' = toClient \union {[conn |-> k, id |-> i, kind |-> "request",
                                   op |-> NoOp, data |-> NoData]}
  /\ UNCHANGED <<phase, nextId, dispatch, current, answer, link, toServer>>

LinkDrops(k) ==
  /\ link[k]
  /\ link' = [link EXCEPT ![k] = FALSE]
  /\ UNCHANGED <<phase, nextId, dispatch, current, answer, toServer, toClient>>
-----------------------------------------------------------------------------
(* The connection under a caller that issues any requests in any order.    *)

ConnInit ==
  /\ phase = [k \in Conns |-> "closed"]
  /\ nextId = [k \in Conns |-> 1]
  /\ dispatch = [k \in Conns |-> "not_dispatched"]
  /\ current = [k \in Conns |-> NoOp]
  /\ answer = [k \in Conns |-> NoAnswer]
  /\ link = [k \in Conns |-> FALSE]
  /\ toServer = {}
  /\ toClient = {}

Handshake(k) ==
  \/ Open(k) \/ ConnectFails(k) \/ ConnectTimesOut(k) \/ Connected(k)
  \/ \E f \in toClient : Initialized(k, f)

Reads(k) ==
  \/ \E f \in toClient : ReceiveReply(k, f) \/ SkipFrame(k, f)
  \/ ReadFails(k)
  \/ TimesOut(k)

Environment ==
  \/ \E m \in toServer, kind \in ReplyKinds, data \in Payloads : Reply(m, kind, data)
  \/ \E k \in Conns, i \in 0 .. MaxRequests : ServerFrame(k, i)
  \/ \E k \in Conns : LinkDrops(k)

ConnNext ==
  \/ \E k \in Conns : Handshake(k) \/ Reads(k)
  \/ \E k \in Conns, op \in Ops \ {Initialize} : Request(k, op)
  \/ Environment

\* The timers fire: nothing is assumed of the server or of the socket.
ConnFairness ==
  \A k \in Conns : WF_connVars(TimesOut(k)) /\ WF_connVars(ConnectTimesOut(k))

ConnSpec == ConnInit /\ [][ConnNext]_connVars /\ ConnFairness

-----------------------------------------------------------------------------
(* What a caller may rely on.                                              *)

\* Every variable holds a value of its type.
ConnTypeOK ==
  /\ phase \in [Conns -> Phases]
  /\ nextId \in [Conns -> Nat \ {0}]
  /\ dispatch \in [Conns -> DispatchStates]
  /\ current \in [Conns -> Ops \union {NoOp}]
  /\ answer \in [Conns -> Answers]
  /\ link \in [Conns -> BOOLEAN]
  /\ toServer \subseteq Requests
  /\ toClient \subseteq Frames

\* What a request returns as the server's result or error is the server's reply to
\* that very request: not the late reply to one that timed out earlier on the
\* connection, and not a request of the server's that happens to carry its id.
AnswerIsOwn ==
  \A k \in Conns :
    answer[k].category \in {"ok", "native_error"} =>
      /\ answer[k].id = nextId[k] - 1
      /\ answer[k].op = current[k]

\* A mutation that returned without its own reply is reported as outcome_unknown,
\* whatever ended it (write, read, timeout), and no other mutation is.
UnknownIffUnanswered ==
  \A k \in Conns :
    phase[k] = "ready" /\ current[k] \in Mutations =>
      (answer[k].category = "outcome_unknown"
         <=> dispatch[k] = "may_have_been_dispatched")

\* A silent server blocks no caller: each connect, initialize and request returns.
CallsReturn ==
  \A k \in Conns :
    phase[k] \in {"connecting", "initializing", "waiting"}
      ~> phase[k] \in {"ready", "failed"}
=============================================================================
