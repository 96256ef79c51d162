--------------------------- MODULE DagCollective ---------------------------
(***************************************************************************)
(* SUMI collectives: the CollectiveEngine of every rank, the actors that   *)
(* walk the DAG of a collective (DagCollectiveActor), and the NICs that    *)
(* move their messages and payloads.                                       *)
(*                                                                         *)
(* A job is the sequence of collectives that all its ranks call, the i-th  *)
(* under tag i.  A call says what its actors do: dag, the actions of       *)
(* every rank and what they wait for (module CollectiveDag builds it).     *)
(*                                                                         *)
(* The handlers of an actor call each other: a finished action starts its  *)
(* successors, which look for messages that came early, which finish       *)
(* further actions.  The call stack of a rank is a variable, one step runs *)
(* one turn of the loop on its top.  Handlers of two ranks share nothing   *)
(* but the network, to which they only add, so one rank at a time is in a  *)
(* handler; the NICs, which read and write its buffers, act in between.    *)
(***************************************************************************)
EXTENDS CollectiveAction, Sequences, FiniteSets

CONSTANTS
  Rank,          \* the ranks of the communicator
  Call,          \* the calls that occur, with what they make of rank r:
                 \*   dag[r]: its actions, buffer[r]: its result buffer after
                 \*   initBuffers, shift[r]: how far finalize rotates it
  Jobs,          \* the sequences of calls a job may make
  Outstanding,   \* collectives a rank may have running
  EagerCutoff,   \* eager_cutoff_, in elements
  UsePut         \* use_put_protocol_

ASSUME OutstandingAssumption == Outstanding \in Nat \ {0}

ASSUME JobAssumption == Jobs \subseteq Seq(Call)

\* The ids of the actions of one actor are distinct, precursors are actions
\* of the same actor.
ASSUME DagAssumption ==
  \A call \in Call : \A r \in Rank :
    LET acs == call.dag[r]
    IN  /\ IsFiniteSet(acs)
        /\ \A ac, other \in acs : ac.id = other.id => ac = other
        /\ \A ac \in acs : ac.pre \subseteq Ids(acs)

\* Sends and receives have the ids their messages are matched by, and the
\* actor of the partner has the other end, of the same length.
Matches(ac, r, other, p) ==
  /\ {ac.type, other.type} = {SEND, RECV}
  /\ ac.partner = p /\ other.partner = r
  /\ ac.round = other.round /\ ac.nelems = other.nelems

ASSUME MatchAssumption ==
  \A call \in Call : \A r \in Rank : \A ac \in call.dag[r] :
    ac.type \in {SEND, RECV} =>
      /\ ac.id = messageId(ac.type, ac.round, ac.partner)
      /\ ac.partner \in Rank
      /\ \E other \in call.dag[ac.partner] : Matches(ac, r, other, ac.partner)

VARIABLES
  job,          \* the calls of the job, fixed at the start
  calls,        \* calls a rank has made
  registered,   \* actors whose collective is in collectives_
  early,        \* pending_collective_msgs_: messages before the call (a list,
                \* in the order they came, which the network leaves open)
  initial,      \* initial_actions_
  pending,      \* pending_comms_: <<precursor id, id>>
  active,       \* active_comms_
  completed,    \* actions that are over; completed_actions_ gets them later
  sendHeaders,  \* pending_send_headers_ (a multimap)
  recvHeaders,  \* pending_recv_headers_
  complete,     \* actors whose complete_ flag is set
  result,       \* result_buffer_
  temp,         \* recv_buffer_ of a reduction
  stack,        \* the handlers a rank is in, innermost first
  net,          \* messages at a NIC, on the wire or in a completion queue
  aborted       \* the abort that ended the run, or "no"

engineVars == <<calls, registered, early>>
dagVars    == <<initial, pending, active, completed>>
headerVars == <<sendHeaders, recvHeaders>>
vars == <<job, calls, registered, early, initial, pending, active, completed,
          sendHeaders, recvHeaders, complete, result, temp, stack, net,
          aborted>>

Actor == (1 .. Len(job)) \X Rank

CallOf(a) == job[a[1]]
Actions(a) == CallOf(a).dag[a[2]]
ActionOf(a, id) == CHOOSE ac \in Actions(a) : ac.id = id

(***************************************************************************)
(* Messages.  A message knows its protocol and whether it is at the NIC    *)
(* that injects it ("nic"), on the wire or in a completion queue ("cq").   *)
(* from and to are domSender and domRecver.                                *)
(***************************************************************************)
NicAcks == {"payload_sent_ack", "rdma_get_sent_ack", "rdma_put_sent_ack"}
Payloads == {"rdma_get_payload", "rdma_put_payload"}
Types == NicAcks \cup Payloads \cup {"smsg_send", "rdma_get_request"}
Protocols == {"eager", "get", "put"}

Msg(type, proto, at, tag, from, to, round, data) ==
  [type |-> type, proto |-> proto, at |-> at, tag |-> tag, from |-> from,
   to |-> to, round |-> round, data |-> data]

NoData == <<>>

\* CollectiveWorkMessage::domTargetRank.
domTargetRank(m) == IF m.type \in NicAcks THEN m.from ELSE m.to
Target(m) == <<m.tag, domTargetRank(m)>>

\* BruckActor::finalize puts the blocks in rank order; others do nothing.
Finalized(a, buffer) == Rotate(buffer, CallOf(a).shift[a[2]])

(***************************************************************************)
(* Sending                                                                 *)
(***************************************************************************)
protocolForAction(ac) ==
  IF ac.nelems < EagerCutoff THEN "eager"
  ELSE IF ~UsePut THEN "get" ELSE "put"

\* Mutant: the header of a get is acked like a payload.
doSend_Mut(a, ac) ==
  CASE protocolForAction(ac) \in {"eager", "get"} ->
         {Msg("smsg_send", protocolForAction(ac), "nic", a[1], a[2],
              ac.partner, ac.round, NoData)}
    [] protocolForAction(ac) = "put" -> {}

\* doSend.  An eager message is at the NIC until it is injected.
doSend(a, ac) ==
  CASE protocolForAction(ac) = "eager" ->
         {Msg("smsg_send", "eager", "nic", a[1], a[2], ac.partner, ac.round,
              NoData)}
    [] protocolForAction(ac) = "get" ->
         {Msg("smsg_send", "get", "cq", a[1], a[2], ac.partner, ac.round,
              NoData)}
    [] protocolForAction(ac) = "put" -> {}

\* doRecv: the put protocol tells the sender where to put.
doRecv(a, ac) ==
  IF protocolForAction(ac) = "put"
  THEN {Msg("smsg_send", "put", "cq", a[1], a[2], ac.partner, ac.round,
            NoData)}
  ELSE {}

\* nextRoundReadyToGet, nextRoundReadyToPut (which reverses the header).
readyToGet(m) == Msg("rdma_get_request", "get", "wire", m.tag, m.from, m.to,
                     m.round, NoData)
readyToPut(m) == Msg("rdma_put_payload", "put", "nic", m.tag, m.to, m.from,
                     m.round, NoData)

(***************************************************************************)
(* The call stack of a rank                                                *)
(***************************************************************************)
Frame(op, a, id, msgs) == [op |-> op, actor |-> a, id |-> id, msgs |-> msgs]

StartFrame(a)      == Frame("start", a, 0, {})
DeliverFrame(a)    == Frame("deliver", a, 0, {})
DepsFrame(a, id)   == Frame("deps", a, id, {})
RecvFrame(a, msgs) == Frame("recv", a, 0, msgs)

Idle(r) == stack[r] = <<>>
AllIdle == \A r \in Rank : Idle(r)
Top(r) == Head(stack[r])
OnTop(r, op) == ~Idle(r) /\ Top(r).op = op

SetStack(r, frames) == stack' = [stack EXCEPT ![r] = frames]
PushRecv(a, msgs, frames) ==
  IF msgs = {} THEN frames ELSE <<RecvFrame(a, msgs)>> \o frames

(***************************************************************************)
(* clearAction: erase from the active actions, check whether that was the  *)
(* last one, then go through the successors.  checkCollectiveDone runs     *)
(* finalize and reports to the engine, which forgets the collective and    *)
(* the messages it kept for it.  A loop's last turn also leaves the loop:  *)
(* nothing happens between the two.                                        *)
(***************************************************************************)
Successors(waiting, a, id) == {p \in waiting[a] : p[1] = id}

\* Mutants: a condition is forgotten.
checkCollectiveDone_Pending(a) == active'[a] = {} /\ initial'[a] = {}
checkCollectiveDone_Active(a) == pending'[a] = {} /\ initial'[a] = {}

checkCollectiveDone(a) ==
  active'[a] = {} /\ pending'[a] = {} /\ initial'[a] = {}

Finish(a, buffer) ==
  IF checkCollectiveDone(a)
  THEN /\ result' = [result EXCEPT ![a] = Finalized(a, buffer)]
       /\ complete' = complete \cup {a}
       /\ registered' = registered \ {a}
       /\ early' = IF a \in complete THEN early
                   ELSE [early EXCEPT ![a] = {}]
  ELSE /\ result' = [result EXCEPT ![a] = buffer]
       /\ UNCHANGED <<complete, registered, early>>

clearAction(a, id, buffer, frames) ==
  /\ active' = [active EXCEPT ![a] = @ \ {id}]
  /\ Finish(a, buffer)
  /\ completed' = [completed EXCEPT ![a] = @ \cup {id}]
  /\ SetStack(a[2], IF Successors(pending', a, id) = {} THEN frames
                    ELSE <<DepsFrame(a, id)>> \o frames)

(***************************************************************************)
(* startAction.  Sends and receives become active and take up the headers  *)
(* that came before them; joins and shuffles are over at once.  startSend  *)
(* and startRecv handle these headers before or after they send their own; *)
(* only put has headers for a send, and then doSend sends nothing.         *)
(***************************************************************************)
HeadersOf(headers, a, ac) ==
  {m \in headers[a] : messageId(ac.type, m.round, m.from) = ac.id}
HeadersExcept(headers, a, ac) ==
  [headers EXCEPT ![a] = @ \ HeadersOf(headers, a, ac)]

startSend(a, ac, frames) ==
  /\ ac.type = SEND
  /\ active' = [active EXCEPT ![a] = @ \cup {ac.id}]
  /\ sendHeaders' = HeadersExcept(sendHeaders, a, ac)
  /\ net' = net \cup doSend(a, ac)
  /\ SetStack(a[2], PushRecv(a, HeadersOf(sendHeaders, a, ac), frames))
  /\ UNCHANGED <<recvHeaders, completed, complete, registered, early, result>>

startRecv(a, ac, frames) ==
  /\ ac.type = RECV
  /\ active' = [active EXCEPT ![a] = @ \cup {ac.id}]
  /\ recvHeaders' = HeadersExcept(recvHeaders, a, ac)
  /\ net' = net \cup doRecv(a, ac)
  /\ SetStack(a[2], PushRecv(a, HeadersOf(recvHeaders, a, ac), frames))
  /\ UNCHANGED <<sendHeaders, completed, complete, registered, early, result>>

startShuffle(a, ac, frames) ==
  /\ ac.type = SHUFFLE
  /\ clearAction(a, ac.id,
                 Write(result[a], ac.offset, Read(result[a], 0, ac.nelems)),
                 frames)
  /\ UNCHANGED <<headerVars, net>>

startJoin(a, ac, frames) ==
  /\ ac.type = JOIN
  /\ clearAction(a, ac.id, result[a], frames)
  /\ UNCHANGED <<headerVars, net>>

startAction(a, id, frames) ==
  LET ac == ActionOf(a, id)
  IN  \/ startSend(a, ac, frames)
      \/ startRecv(a, ac, frames)
      \/ startShuffle(a, ac, frames)
      \/ startJoin(a, ac, frames)

(***************************************************************************)
(* The engine.  startCollective builds the actor's DAG (initActors), enters*)
(* the collective, starts the actor and then delivers the messages that    *)
(* came before.                                                            *)
(***************************************************************************)
MayCall(r) ==
  /\ AllIdle
  /\ calls[r] < Len(job)
  /\ Cardinality({a \in registered : a[2] = r}) < Outstanding

\* Mutant: forgets the messages that came early.
StartFrames_Mut(a) == IF initial'[a] = {} THEN <<>> ELSE <<StartFrame(a)>>

StartFrames(a) ==
  (IF initial'[a] = {} THEN <<>> ELSE <<StartFrame(a)>>)
    \o (IF early[a] = {} THEN <<>> ELSE <<DeliverFrame(a)>>)

startCollective(r) ==
  LET a == <<calls[r] + 1, r>>
  IN  /\ MayCall(r)
      /\ calls' = [calls EXCEPT ![r] = @ + 1]
      /\ registered' = registered \cup {a}
      /\ initial' = [initial EXCEPT ![a] =
                       Ids({ac \in Actions(a) : ac.pre = {}})]
      /\ pending' = [pending EXCEPT ![a] =
                       UNION {ac.pre \X {ac.id} : ac \in Actions(a)}]
      /\ SetStack(r, StartFrames(a))
      /\ UNCHANGED <<job, early, active, completed, headerVars, complete,
                     result, temp, net, aborted>>

\* A message from the completion queue: to its actor, or kept for later.
incoming(r) ==
  \E m \in net :
    /\ AllIdle
    /\ m.at = "cq" /\ domTargetRank(m) = r
    /\ net' = net \ {m}
    /\ IF Target(m) \in registered
       THEN /\ SetStack(r, <<RecvFrame(Target(m), {m})>>)
            /\ UNCHANGED early
       ELSE /\ early' = [early EXCEPT ![Target(m)] = @ \cup {m}]
            /\ UNCHANGED stack
    /\ UNCHANGED <<job, calls, registered, dagVars, headerVars, complete,
                   result, temp, aborted>>

(***************************************************************************)
(* The loops a rank may be in                                              *)
(***************************************************************************)
\* DagCollectiveActor::start, in any order: the set is sorted by address.
startLoop(r) ==
  LET a == Top(r).actor
  IN  /\ OnTop(r, "start")
      /\ UNCHANGED <<job, calls, pending, temp, aborted>>
      /\ \E id \in initial[a] :
           /\ initial' = [initial EXCEPT ![a] = @ \ {id}]
           /\ startAction(a, id, IF initial[a] = {id} THEN Tail(stack[r])
                                ELSE stack[r])

\* Mutant: an action starts with one precursor to go.
joinCounter_Mut(a, id) ==
  IF Cardinality({p \in pending'[a] : p[2] = id}) <= 1 THEN 0 ELSE 1

\* clearDependencies: an action starts when its join_counter drops to 0.
joinCounter(a, id) == Cardinality({p \in pending'[a] : p[2] = id})

clearDependencies(r) ==
  LET a == Top(r).actor
      waiting == Successors(pending, a, Top(r).id)
  IN  /\ OnTop(r, "deps")
      /\ UNCHANGED <<job, calls, initial, temp, aborted>>
      /\ \E p \in waiting :
           LET frames == IF waiting = {p} THEN Tail(stack[r]) ELSE stack[r]
           IN  /\ pending' = [pending EXCEPT ![a] = @ \ {p}]
               /\ IF joinCounter(a, p[2]) = 0
                  THEN startAction(a, p[2], frames)
                  ELSE /\ SetStack(r, frames)
                       /\ UNCHANGED <<registered, early, active, completed,
                                      headerVars, complete, result, net>>

\* deliverPending, after the actor was started.
deliverPending(r) ==
  LET a == Top(r).actor
  IN  /\ OnTop(r, "deliver")
      /\ early' = [early EXCEPT ![a] = {}]
      /\ SetStack(r, PushRecv(a, early[a], Tail(stack[r])))
      /\ UNCHANGED <<job, calls, registered, dagVars, headerVars, complete,
                     result, temp, net, aborted>>

(***************************************************************************)
(* DagCollectiveActor::recv                                                *)
(***************************************************************************)
\* What is left to do once a message of the top frame is handled.
Rest(r, m) == PushRecv(Top(r).actor, Top(r).msgs \ {m}, Tail(stack[r]))

\* spkt_abort_printf ends the simulation.
Abort(what) ==
  /\ aborted' = what
  /\ UNCHANGED <<active, completed, complete, registered, early, result,
                 stack>>

\* Data for a receive is unpacked from the message, or has already landed.
dataRecved(a, m, frames) ==
  LET id == messageId(RECV, m.round, m.from)
      ac == ActionOf(a, id)
      data == IF m.proto = "eager" THEN m.data
              ELSE Read(temp[a], ac.offset, ac.nelems)
  IN  clearAction(a, id,
                  IF ac.reduce THEN Reduce(result[a], ac.offset, data)
                  ELSE IF m.proto = "eager"
                       THEN Write(result[a], ac.offset, data)
                       ELSE result[a],
                  frames)

isActive(a, type, m, partner) ==
  messageId(type, m.round, partner) \in active[a]

recvAck(a, m, frames) ==
  /\ m.type \in NicAcks
  /\ IF isActive(a, SEND, m, m.to)
     THEN /\ clearAction(a, messageId(SEND, m.round, m.to), result[a], frames)
          /\ UNCHANGED aborted
     ELSE Abort("invalid action")
  /\ UNCHANGED <<headerVars, net>>

recvPayload(a, m, frames) ==
  /\ m.type \in Payloads
  /\ IF isActive(a, RECV, m, m.from)
     THEN dataRecved(a, m, frames) /\ UNCHANGED aborted
     ELSE Abort("unknown receive")
  /\ UNCHANGED <<headerVars, net>>

Queue(headers, a, m) == [headers EXCEPT ![a] = @ \cup {m}]

incomingHeader(a, m, frames) ==
  /\ m.type = "smsg_send"
  /\ UNCHANGED aborted
  /\ \/ /\ m.proto \in {"eager", "get"} /\ ~isActive(a, RECV, m, m.from)
        /\ recvHeaders' = Queue(recvHeaders, a, m)
        /\ SetStack(a[2], frames)
        /\ UNCHANGED <<sendHeaders, net, active, completed, complete,
                       registered, early, result>>
     \/ /\ m.proto = "eager" /\ isActive(a, RECV, m, m.from)
        /\ dataRecved(a, m, frames)
        /\ UNCHANGED <<headerVars, net>>
     \/ /\ m.proto = "get" /\ isActive(a, RECV, m, m.from)
        /\ net' = net \cup {readyToGet(m)}
        /\ SetStack(a[2], frames)
        /\ UNCHANGED <<headerVars, active, completed, complete, registered,
                       early, result>>
     \/ /\ m.proto = "put" /\ ~isActive(a, SEND, m, m.from)
        /\ sendHeaders' = Queue(sendHeaders, a, m)
        /\ SetStack(a[2], frames)
        /\ UNCHANGED <<recvHeaders, net, active, completed, complete,
                       registered, early, result>>
     \/ /\ m.proto = "put" /\ isActive(a, SEND, m, m.from)
        /\ net' = net \cup {readyToPut(m)}
        /\ SetStack(a[2], frames)
        /\ UNCHANGED <<headerVars, active, completed, complete, registered,
                       early, result>>

recv(r) ==
  LET a == Top(r).actor
  IN  /\ OnTop(r, "recv")
      /\ UNCHANGED <<job, calls, initial, pending, temp>>
      /\ \E m \in Top(r).msgs :
           \/ recvAck(a, m, Rest(r, m))
           \/ recvPayload(a, m, Rest(r, m))
           \/ incomingHeader(a, m, Rest(r, m))

(***************************************************************************)
(* The NICs: injectSend copies the payload and acks the sender, the NIC of *)
(* the source answers an RDMA get, and an RDMA payload lands in the buffer *)
(* of the receive before its completion is seen.                           *)
(***************************************************************************)
nicVars == <<job, engineVars, dagVars, headerVars, complete, stack, aborted>>

SendOf(m) == ActionOf(<<m.tag, m.from>>, messageId(SEND, m.round, m.to))
RecvOf(m) == ActionOf(<<m.tag, m.to>>, messageId(RECV, m.round, m.from))

SourceData(m, nelems) ==
  Read(result[<<m.tag, m.from>>], SendOf(m).offset, nelems)

Ack(m, type) == [m EXCEPT !.type = type, !.at = "cq", !.data = NoData]

injectSend ==
  \E m \in net :
    /\ m.at = "nic"
    /\ LET data == SourceData(m, SendOf(m).nelems)
           sent == IF m.type = "smsg_send"
                   THEN {[m EXCEPT !.at = "cq", !.data = data],
                         Ack(m, "payload_sent_ack")}
                   ELSE {[m EXCEPT !.at = "wire", !.data = data],
                         Ack(m, "rdma_put_sent_ack")}
       IN  net' = (net \ {m}) \cup sent
    /\ UNCHANGED <<nicVars, result, temp>>

answerGet ==
  \E m \in net :
    /\ m.type = "rdma_get_request"
    /\ net' = (net \ {m}) \cup
              {[m EXCEPT !.type = "rdma_get_payload",
                         !.data = SourceData(m, RecvOf(m).nelems)],
               Ack(m, "rdma_get_sent_ack")}
    /\ UNCHANGED <<nicVars, result, temp>>

takeOffWire ==
  \E m \in net :
    /\ m.type \in Payloads /\ m.at = "wire"
    /\ net' = (net \ {m}) \cup {[m EXCEPT !.at = "cq", !.data = NoData]}
    /\ LET a == <<m.tag, m.to>>
           ac == RecvOf(m)
       IN  IF ac.reduce
           THEN /\ temp' = [temp EXCEPT ![a] = Write(@, ac.offset, m.data)]
                /\ UNCHANGED result
           ELSE /\ result' = [result EXCEPT ![a] =
                                Write(@, ac.offset, m.data)]
                /\ UNCHANGED temp
    /\ UNCHANGED nicVars

(***************************************************************************)
(* The specification.  Every event the simulator has scheduled is          *)
(* executed, and every rank makes all the calls of its job.                *)
(***************************************************************************)
Empty(a) == [i \in DOMAIN CallOf(a).buffer[a[2]] |-> [r \in Rank |-> 0]]

Init ==
  /\ job \in Jobs
  /\ calls = [r \in Rank |-> 0]
  /\ registered = {}
  /\ complete = {}
  /\ early = [a \in Actor |-> {}]
  /\ initial = [a \in Actor |-> {}]
  /\ pending = [a \in Actor |-> {}]
  /\ active = [a \in Actor |-> {}]
  /\ completed = [a \in Actor |-> {}]
  /\ sendHeaders = [a \in Actor |-> {}]
  /\ recvHeaders = [a \in Actor |-> {}]
  /\ result = [a \in Actor |-> CallOf(a).buffer[a[2]]]
  /\ temp = [a \in Actor |-> Empty(a)]
  /\ stack = [r \in Rank |-> <<>>]
  /\ net = {}
  /\ aborted = "no"

RankStep(r) ==
  \/ startCollective(r)
  \/ incoming(r)
  \/ startLoop(r)
  \/ clearDependencies(r)
  \/ deliverPending(r)
  \/ recv(r)

NicStep == injectSend \/ answerGet \/ takeOffWire

Next == aborted = "no" /\ ((\E r \in Rank : RankStep(r)) \/ NicStep)

Fairness == WF_vars(Next)

Spec == Init /\ [][Next]_vars /\ Fairness

(***************************************************************************)
(* Properties                                                              *)
(***************************************************************************)

\* No message finds its action missing: commActionDone never aborts with
\* "invalid action", dataRecved never with "unknown receive".
NoProtocolAbort == aborted = "no"

\* checkCollectiveDone, called in the middle of clearAction, is right: when a
\* rank is told that a collective is over, every action of its DAG was done.
DoneMeansAll ==
  \A a \in complete :
    /\ completed[a] = Ids(Actions(a))
    /\ initial[a] = {} /\ pending[a] = {} /\ active[a] = {}

\* ... and nothing is under way that would reach its actor, which is deleted
\* with the next message, or touch its buffers, which are the caller's again:
\* no queued header, no early message, no ack, no transfer from or to it.
DoneIsFinal ==
  \A a \in complete :
    /\ early[a] = {} /\ sendHeaders[a] = {} /\ recvHeaders[a] = {}
    /\ \A m \in net :
         /\ Target(m) # a
         /\ <<m.tag, m.from>> = a =>
              m.type # "rdma_get_request" /\ m.at # "nic"

\* An action becomes active only when everything it depends on is done,
\* however receives, acks and early messages interleave.
PrecursorsFirst ==
  [][\A a \in Actor : \A id \in active'[a] \ active[a] :
       ActionOf(a, id).pre \subseteq completed[a]]_vars

\* Every rank leaves every collective of the job: no message is lost in a
\* queue, no action waits for ever.
Termination == <>(complete = Actor)
=============================================================================
