------------------------------ MODULE MpiQueue ------------------------------
(***************************************************************************)
(* Point-to-point messaging of the simulated MPI library (sumi-mpi): the   *)
(* queue every rank keeps (MpiQueue), the four wire protocols it delegates *)
(* to (Eager0, Eager1, RendezvousGet, DirectPut), the MpiApi calls that    *)
(* drive it, and the NICs and fabric underneath.                           *)
(*                                                                         *)
(* Every rank runs a program, a sequence of MPI calls.  Nothing is handled *)
(* behind the application's back: an arrived message waits in the rank's   *)
(* completion queue until the application thread is inside a progress loop *)
(* (MPI_Wait, MPI_Send, MPI_Recv, MPI_Probe) or a timed poll (MPI_Test,    *)
(* MPI_Iprobe).  Only the NICs act on their own, answering RDMA gets.      *)
(*                                                                         *)
(* A request is named by the rank and the program position of the call     *)
(* that created it; the flow of a message is the name of its send request. *)
(* What a message carries (tag, communicator, size, destination) is what   *)
(* that call says, so a message only records its flow, wire type, stage    *)
(* and sequence number.                                                    *)
(***************************************************************************)
EXTENDS Naturals, Sequences, FiniteSets

CONSTANTS
  Rank,            \* the tasks of the job
  Tag, Comm,       \* message tags and communicator ids
  AnySource,       \* MPI_ANY_SOURCE
  AnyTag,          \* MPI_ANY_TAG
  ProcNull,        \* MPI_PROC_NULL
  NoRank,          \* "no sender is being drained"
  Programs,        \* the programs the job may run
  MaxVshort,       \* max_vshort_msg_size_
  MaxEager,        \* max_eager_msg_size_
  HeaderBytes,     \* the fixed size of a header message (64 in the code)
  SoftwareAck,     \* software_ack_
  TestDelay,       \* test_delay_us_ # 0
  IprobeDelay      \* iprobe_delay_us_ # 0

SendOps  == {"isend", "send"}
RecvOps  == {"irecv", "recv"}
ProbeOps == {"probe", "iprobe"}
WaitOps  == {"wait", "test"}
Ops      == SendOps \cup RecvOps \cup ProbeOps \cup WaitOps \cup {"finalize"}

Call == [op    : Ops,
         peer  : Rank \cup {AnySource, ProcNull},
         tag   : Tag \cup {AnyTag},
         comm  : Comm,
         bytes : Nat,      \* of a send, or of the receive buffer
         req   : Nat,      \* the position of the call waited for or tested
         put   : BOOLEAN]  \* use_put_window_ of the job

(***************************************************************************)
(* A program is what an application can do: it sends to a rank or to       *)
(* MPI_PROC_NULL, and waits for a request that an earlier nonblocking call *)
(* of the same rank created.                                               *)
(***************************************************************************)
WellFormed(p) ==
  \A r \in Rank : \A i \in DOMAIN p[r] :
    /\ p[r][i].op \in SendOps => p[r][i].peer \in Rank \cup {ProcNull}
    /\ p[r][i].op \in ProbeOps => p[r][i].peer # ProcNull
    /\ p[r][i].op \in WaitOps =>
         /\ p[r][i].req \in 1 .. (i - 1)
         /\ p[r][p[r][i].req].op \in {"isend", "irecv"}

\* All tasks of a job use the put window, or none does.
OneWindow(p) ==
  \A r, s \in Rank : \A i \in DOMAIN p[r], j \in DOMAIN p[s] : p[r][i].put = p[s][j].put

ASSUME WildcardAssumption ==
  /\ AnySource \notin Rank
  /\ ProcNull \notin Rank
  /\ NoRank \notin Rank
  /\ AnySource # ProcNull
  /\ AnyTag \notin Tag

ASSUME ProgramAssumption ==
  \A p \in Programs : p \in [Rank -> Seq(Call)] /\ WellFormed(p) /\ OneWindow(p)

ASSUME SizeAssumption ==
  /\ MaxVshort \in Nat
  /\ MaxEager \in Nat
  /\ HeaderBytes \in Nat

ASSUME SwitchAssumption ==
  /\ SoftwareAck \in BOOLEAN
  /\ TestDelay \in BOOLEAN
  /\ IprobeDelay \in BOOLEAN

VARIABLES
  program,          \* the program every rank runs, fixed at the start
  pc,               \* the call each rank is in, or about to make
  mode,             \* "run", in a progress "loop", in a "poll", or "polled"
  drain,            \* the sender whose held messages a rank is working off
  next_outbound,    \* next_outbound_: sequence number of the next send
  next_inbound,     \* next_inbound_: sequence number expected next
  held,             \* held_: messages that arrived ahead of their turn
  need_recv_match,  \* need_recv_match_: unexpected messages, oldest first
  need_send_match,  \* need_send_match_: posted receives without a message
  probelist,        \* probelist_: blocked probes
  send_flows,       \* send_flows_ of Eager0, RendezvousGet and DirectPut
  recv_flows,       \* recv_flows_ of RendezvousGet: <<flow, request>>
  complete,         \* the requests whose complete_ flag is set
  net,              \* messages in the fabric or in a completion queue
  match,            \* history: the request each message was given to
  aborted           \* the spkt_abort_printf that ended the run, or "no"

appVars   == <<program, pc, mode>>
seqVars   == <<next_outbound, next_inbound, held, drain>>
matchVars == <<need_recv_match, need_send_match, probelist, match>>
flowVars  == <<send_flows, recv_flows>>
vars == <<program, pc, mode, drain, next_outbound, next_inbound, held,
          need_recv_match, need_send_match, probelist, send_flows,
          recv_flows, complete, net, match, aborted>>

(***************************************************************************)
(* Messages                                                                *)
(***************************************************************************)
EAGER0         == "eager0"
EAGER1         == "eager1"
RENDEZVOUS_GET == "rendezvous_get"
DIRECT_PUT     == "direct_put"

NicAcks  == {"payload_sent_ack", "rdma_get_sent_ack", "rdma_put_sent_ack"}
MsgTypes == NicAcks \cup {"smsg_send", "rdma_get_request",
                          "rdma_get_payload", "rdma_put_payload"}

Request == Rank \X Nat
Message == [flow : Request, type : MsgTypes, stage : 0 .. 2, seqnum : Nat]

CallOf(req) == program[req[1]][req[2]]
Src(m) == m.flow[1]
Dst(m) == CallOf(m.flow).peer
Bytes(m) == CallOf(m.flow).bytes

\* The protocol MpiQueue::send picks for a message, by its size.
ProtocolFor(call) ==
  IF call.put THEN DIRECT_PUT
  ELSE IF call.bytes <= MaxVshort THEN EAGER0
  ELSE IF call.bytes <= MaxEager THEN EAGER1
  ELSE RENDEZVOUS_GET

Prot(m) == ProtocolFor(CallOf(m.flow))

\* start() completes the request at once (the data was copied), or files it
\* in send_flows_ for an ack to come.
CompletesAtStart_Mut(prot) == prot # DIRECT_PUT   \* rendezvous too early
CompletesAtStart(prot) == prot \in {EAGER0, EAGER1}
KeepsSendFlow(prot) == prot # EAGER1

isNicAck(m) == m.type \in NicAcks

\* Messages that incomingPt2ptMessage puts in order: neither an ack nor a
\* later stage.
Sequenced(m) == m.stage = 0 /\ ~isNicAck(m)

\* The task whose completion queue the message ends up in: a NIC ack and the
\* software ack of a rendezvous go back to the task that sent.
targetRank(m) ==
  IF isNicAck(m) \/ (m.type = "smsg_send" /\ m.stage = 2)
  THEN Src(m) ELSE Dst(m)

\* What payloadBytes() says of a message: a rendezvous header only carries
\* the fixed header size, everything else the size of the data.
payloadBytes(m) ==
  IF Prot(m) = RENDEZVOUS_GET /\ m.type = "smsg_send"
  THEN HeaderBytes ELSE Bytes(m)

\* The NIC and the protocols reuse the message object for the next stage.
Reuse(m, type, stage) ==
  [flow |-> m.flow, type |-> type, stage |-> stage, seqnum |-> m.seqnum]

Ack(m, type) == Reuse(m, type, m.stage)

\* MpiQueueRecvRequest::matches and mpi_queue_probe_request::matches.
matches_Mut(req, flow) ==    \* the tag is not compared
  /\ CallOf(req).comm = CallOf(flow).comm
  /\ CallOf(req).peer \in {flow[1], AnySource}
matches(req, flow) ==
  /\ CallOf(req).comm = CallOf(flow).comm
  /\ CallOf(req).peer \in {flow[1], AnySource}
  /\ CallOf(req).tag \in {CallOf(flow).tag, AnyTag}

\* MpiQueueRecvRequest::matches aborts on a match whose buffer is too small.
tooSmall(req, m) == payloadBytes(m) > CallOf(req).bytes

-----------------------------------------------------------------------------
(***************************************************************************)
(* Matching messages with receives and probes                              *)
(***************************************************************************)

notifyProbes_Mut(r, m) == {}   \* nobody is told
\* The probes of rank r that notifyProbes(m) completes and drops.
notifyProbes(r, m) == {p \in probelist : p[1] = r /\ matches(p, m.flow)}

\* The posted receives of r that take m, and the unexpected messages of r
\* that req takes.  Receives are posted in program order, so list order is
\* the order of their positions.
postedFor_Mut(r, m) ==         \* MPI_ANY_TAG is not honoured
  {q \in need_send_match : /\ q[1] = r /\ matches(q, m.flow)
                           /\ CallOf(q).tag = CallOf(m.flow).tag}
postedFor(r, m) == {q \in need_send_match : q[1] = r /\ matches(q, m.flow)}
unexpectedFor(req) ==
  {k \in DOMAIN need_recv_match[req[1]] :
     matches(req, need_recv_match[req[1]][k].flow)}

RemoveNth(s, k) ==
  [i \in 1 .. (Len(s) - 1) |-> IF i < k THEN s[i] ELSE s[i + 1]]

GetRequest_Mut(m) == Reuse(m, "rdma_get_request", m.stage)  \* no advanceStage
GetRequest(m) == Reuse(m, "rdma_get_request", m.stage + 1)

(***************************************************************************)
(* protocol->incoming(msg, req): the message meets its receive.  A         *)
(* rendezvous header starts the RDMA get and remembers the request under   *)
(* the flow; every other protocol has the data and finalizes the receive.  *)
(* probes are the blocked probes that are notified on the way.             *)
(***************************************************************************)
IncomingMatched(m, req, probes) ==
  /\ match' = match \cup {<<m.flow, req>>}
  /\ probelist' = probelist \ probes
  /\ IF Prot(m) = RENDEZVOUS_GET
     THEN /\ recv_flows' = recv_flows \cup {<<m.flow, req>>}
          /\ net' = (net \ {m}) \cup {GetRequest(m)}
          /\ complete' = complete \cup probes
     ELSE /\ net' = net \ {m}
          /\ complete' = complete \cup probes \cup {req}
          /\ UNCHANGED recv_flows
  /\ UNCHANGED <<send_flows, aborted>>

\* spkt_abort_printf in a message handler.
HandlerAbort(m, why) ==
  /\ aborted' = why
  /\ net' = net \ {m}
  /\ UNCHANGED <<matchVars, flowVars, complete>>

\* findMatchingRecv(MpiMessage*) and what the protocols do with its answer.
FindMatchingRecv(r, m, probes) ==
  \/ /\ postedFor(r, m) = {}
     /\ need_recv_match' = [need_recv_match EXCEPT ![r] = Append(@, m)]
     /\ probelist' = probelist \ probes
     /\ complete' = complete \cup probes
     /\ net' = net \ {m}
     /\ UNCHANGED <<need_send_match, match, flowVars, aborted>>
  \/ \E req \in postedFor(r, m) :
       /\ \A q \in postedFor(r, m) : req[2] <= q[2]
       /\ \/ /\ tooSmall(req, m)
             /\ HandlerAbort(m, "truncated")
          \/ /\ ~tooSmall(req, m)
             /\ need_send_match' = need_send_match \ {req}
             /\ IncomingMatched(m, req, probes)
             /\ UNCHANGED need_recv_match

\* A message that ends here, its only effect being to free buffers.
Drop(m) ==
  /\ net' = net \ {m}
  /\ UNCHANGED <<matchVars, flowVars, complete, aborted>>

\* An ack that completes the send request filed under its flow.
IncomingSendAck(m) ==
  IF m.flow \in send_flows
  THEN /\ complete' = complete \cup {m.flow}
       /\ send_flows' = send_flows \ {m.flow}
       /\ net' = net \ {m}
       /\ UNCHANGED <<matchVars, recv_flows, aborted>>
  ELSE HandlerAbort(m, "no send flow")

(***************************************************************************)
(* The protocols' incoming(msg)                                            *)
(***************************************************************************)
Eager0Incoming(r, m) ==
  \/ m.type = "payload_sent_ack" /\ Drop(m)
  \/ m.type = "smsg_send" /\ FindMatchingRecv(r, m, notifyProbes(r, m))

Eager1Incoming(r, m) ==
  \/ /\ m.type = "smsg_send"
     /\ net' = (net \ {m}) \cup {GetRequest(m)}
     /\ UNCHANGED <<matchVars, flowVars, complete, aborted>>
  \/ m.type = "rdma_get_payload" /\ FindMatchingRecv(r, m, {})
  \/ m.type = "rdma_get_sent_ack" /\ Drop(m)

RendezvousIncomingPayload(m) ==
  LET found == {p \in recv_flows : p[1] = m.flow} IN
  IF found # {}
  THEN /\ recv_flows' = recv_flows \ found
       /\ complete' = complete \cup {p[2] : p \in found}
       /\ net' = (net \ {m}) \cup
                   (IF SoftwareAck
                    THEN {Reuse(m, "smsg_send", m.stage + 1)}
                    ELSE {})
       /\ UNCHANGED <<matchVars, send_flows, aborted>>
  ELSE HandlerAbort(m, "no recv flow")

RendezvousIncoming(r, m) ==
  \/ /\ m.type = "smsg_send" /\ m.stage = 0
     /\ FindMatchingRecv(r, m, notifyProbes(r, m))
  \/ m.type = "smsg_send" /\ m.stage > 0 /\ IncomingSendAck(m)
  \/ m.type = "rdma_get_payload" /\ RendezvousIncomingPayload(m)
  \/ m.type = "rdma_get_sent_ack" /\ IncomingSendAck(m)

DirectPutIncoming(r, m) ==
  \/ m.type = "rdma_put_payload" /\ FindMatchingRecv(r, m, {})
  \/ m.type = "rdma_put_sent_ack" /\ IncomingSendAck(m)

HandlePt2ptMessage(r, m) ==
  \/ Prot(m) = EAGER0 /\ Eager0Incoming(r, m)
  \/ Prot(m) = EAGER1 /\ Eager1Incoming(r, m)
  \/ Prot(m) = RENDEZVOUS_GET /\ RendezvousIncoming(r, m)
  \/ Prot(m) = DIRECT_PUT /\ DirectPutIncoming(r, m)

-----------------------------------------------------------------------------
(***************************************************************************)
(* Progress: what a rank does inside MPI calls                             *)
(***************************************************************************)

\* The request the progress loop of rank r waits for.
LoopRequest(r) ==
  IF program[r][pc[r]].op = "wait"
  THEN <<r, program[r][pc[r]].req>> ELSE <<r, pc[r]>>

Polling(r) ==
  /\ aborted = "no"
  /\ drain[r] = NoRank
  /\ \/ mode[r] = "poll"
     \/ mode[r] = "loop" /\ LoopRequest(r) \notin complete

heldDue_Mut(h, s, r, n) ==      \* one too late
  {m \in h : Src(m) = s /\ Dst(m) = r /\ m.seqnum < n}
\* The held messages of sender s at rank r that are due at number n.
heldDue(h, s, r, n) ==
  {m \in h : Src(m) = s /\ Dst(m) = r /\ m.seqnum <= n}

\* find_any() returned m: a forwardProgress takes only one message.
Taken(r, m) ==
  /\ Polling(r)
  /\ targetRank(m) = r
  /\ m.type # "rdma_get_request"
  /\ mode' = [mode EXCEPT ![r] = IF @ = "poll" THEN "polled" ELSE @]
  /\ UNCHANGED <<program, pc, next_outbound>>

\* An ack, or a later stage of a message matched before: no sequencing.
IncomingStaged(r, m) ==
  /\ Taken(r, m)
  /\ ~Sequenced(m)
  /\ HandlePt2ptMessage(r, m)
  /\ UNCHANGED <<next_inbound, held, drain>>

itsTurn_Mut(r, m) == m.seqnum >= next_inbound[r][Src(m)]   \* nothing is held
itsTurn(r, m) == m.seqnum = next_inbound[r][Src(m)]

\* The message whose turn it is; it may free held messages of its sender.
IncomingInOrder(r, m) ==
  /\ Taken(r, m)
  /\ Sequenced(m)
  /\ itsTurn(r, m)
  /\ HandlePt2ptMessage(r, m)
  /\ next_inbound' = [next_inbound EXCEPT ![r][Src(m)] = @ + 1]
  /\ drain' = [drain EXCEPT ![r] =
                 IF heldDue(held, Src(m), r, m.seqnum + 1) # {}
                 THEN Src(m) ELSE NoRank]
  /\ UNCHANGED held

\* A message ahead of its turn is put aside; one behind it means that the
\* "message sequence went backwards".
IncomingOutOfOrder(r, m) ==
  /\ Taken(r, m)
  /\ Sequenced(m)
  /\ ~itsTurn(r, m)
  /\ IF m.seqnum > next_inbound[r][Src(m)]
     THEN /\ held' = held \cup {m}
          /\ net' = net \ {m}
          /\ UNCHANGED <<matchVars, flowVars, complete, aborted>>
     ELSE HandlerAbort(m, "sequence") /\ UNCHANGED held
  /\ UNCHANGED <<next_inbound, drain>>

\* One iteration of the loop over held_[tid].  Handling a message takes
\* simulated time, so other ranks run between two iterations; rank r does
\* nothing else before the loop is done.
DrainHeld(r) ==
  /\ aborted = "no"
  /\ drain[r] # NoRank
  /\ \E m \in heldDue(held, drain[r], r, next_inbound[r][drain[r]]) :
       /\ \A o \in heldDue(held, drain[r], r, next_inbound[r][drain[r]]) :
            m.seqnum <= o.seqnum
       /\ HandlePt2ptMessage(r, m)
       /\ held' = held \ {m}
       /\ next_inbound' = [next_inbound EXCEPT ![r][Src(m)] = @ + 1]
       /\ drain' = [drain EXCEPT ![r] =
                      IF heldDue(held \ {m}, Src(m), r,
                                 next_inbound[r][Src(m)] + 1) # {}
                      THEN @ ELSE NoRank]
  /\ UNCHANGED <<program, pc, mode, next_outbound>>

-----------------------------------------------------------------------------
(***************************************************************************)
(* The MPI calls of the application                                        *)
(***************************************************************************)
Calls(r, ops) ==
  /\ aborted = "no"
  /\ mode[r] = "run"
  /\ pc[r] \in DOMAIN program[r]
  /\ program[r][pc[r]].op \in ops

Return(r) ==
  /\ pc' = [pc EXCEPT ![r] = @ + 1]
  /\ UNCHANGED <<program, mode>>

Enter(r, how) ==
  /\ mode' = [mode EXCEPT ![r] = how]
  /\ UNCHANGED <<program, pc>>

\* A nonblocking call returns, a blocking one enters the progress loop.
ReturnOrLoop(r, blocking) == IF blocking THEN Enter(r, "loop") ELSE Return(r)

\* Communication with MPI_PROC_NULL is complete at once.
ProcNullCall(r) ==
  /\ Calls(r, SendOps \cup RecvOps)
  /\ program[r][pc[r]].peer = ProcNull
  /\ complete' = complete \cup {<<r, pc[r]>>}
  /\ Return(r)
  /\ UNCHANGED <<seqVars, matchVars, flowVars, net, aborted>>

\* MpiQueue::send and the protocols' start.
Send(r) ==
  LET req   == <<r, pc[r]>>
      dest  == CallOf(req).peer
      prot  == ProtocolFor(CallOf(req))
      m     == [flow |-> req, stage |-> 0, seqnum |-> next_outbound[r][dest],
                type |-> IF prot = DIRECT_PUT THEN "rdma_put_payload"
                                              ELSE "smsg_send"]
      acks  == IF prot = EAGER0 THEN {Ack(m, "payload_sent_ack")}
               ELSE IF prot = DIRECT_PUT THEN {Ack(m, "rdma_put_sent_ack")}
               ELSE {}
  IN  /\ Calls(r, SendOps)
      /\ dest # ProcNull
      /\ net' = net \cup {m} \cup acks
      /\ next_outbound' = [next_outbound EXCEPT ![r][dest] = @ + 1]
      /\ send_flows' = IF KeepsSendFlow(prot) THEN send_flows \cup {req}
                                             ELSE send_flows
      /\ complete' = IF CompletesAtStart(prot) THEN complete \cup {req}
                                              ELSE complete
      /\ ReturnOrLoop(r, CallOf(req).op = "send")
      /\ UNCHANGED <<next_inbound, held, drain, matchVars, recv_flows, aborted>>

\* MpiQueue::recv: take the oldest unexpected message that matches, or post.
Recv(r) ==
  LET req == <<r, pc[r]>> IN
  /\ Calls(r, RecvOps)
  /\ CallOf(req).peer # ProcNull
  /\ \/ /\ unexpectedFor(req) = {}
        /\ need_send_match' = need_send_match \cup {req}
        /\ UNCHANGED <<need_recv_match, probelist, match, flowVars, complete,
                       net, aborted>>
        /\ ReturnOrLoop(r, CallOf(req).op = "recv")
     \/ \E k \in unexpectedFor(req) :
          LET m == need_recv_match[r][k] IN
          /\ \A i \in unexpectedFor(req) : k <= i
          /\ \/ /\ tooSmall(req, m)
                /\ HandlerAbort(m, "truncated")
                /\ UNCHANGED appVars
             \/ /\ ~tooSmall(req, m)
                /\ need_recv_match' =
                     [need_recv_match EXCEPT ![r] = RemoveNth(@, k)]
                /\ IncomingMatched(m, req,
                     IF Prot(m) = EAGER0 THEN notifyProbes(r, m) ELSE {})
                /\ UNCHANGED need_send_match
                /\ ReturnOrLoop(r, CallOf(req).op = "recv")
  /\ UNCHANGED seqVars

\* MpiQueue::probe: complete at once, or be notified later.
Probe(r) ==
  LET req == <<r, pc[r]>> IN
  /\ Calls(r, {"probe"})
  /\ IF unexpectedFor(req) # {}
     THEN complete' = complete \cup {req} /\ UNCHANGED probelist
     ELSE probelist' = probelist \cup {req} /\ UNCHANGED complete
  /\ Enter(r, "loop")
  /\ UNCHANGED <<seqVars, need_recv_match, need_send_match, match, flowVars,
                 net, aborted>>

\* MpiApi::iprobe and MpiApi::test: no answer yet costs one timed poll.
Iprobe(r) ==
  /\ Calls(r, {"iprobe"})
  /\ IF unexpectedFor(<<r, pc[r]>>) = {} /\ IprobeDelay
     THEN Enter(r, "poll") ELSE Return(r)
  /\ UNCHANGED <<seqVars, matchVars, flowVars, complete, net, aborted>>

Test(r) ==
  /\ Calls(r, {"test"})
  /\ IF <<r, program[r][pc[r]].req>> \notin complete /\ TestDelay
     THEN Enter(r, "poll") ELSE Return(r)
  /\ UNCHANGED <<seqVars, matchVars, flowVars, complete, net, aborted>>

\* MPI_Wait enters the progress loop; so does MPI_Finalize, on a barrier.
Wait(r) ==
  /\ Calls(r, {"wait", "finalize"})
  /\ Enter(r, "loop")
  /\ UNCHANGED <<seqVars, matchVars, flowVars, complete, net, aborted>>

\* The barrier of MPI_Finalize: done at r once every rank has entered it.
InFinalize(r) ==
  pc[r] \in DOMAIN program[r] =>
    program[r][pc[r]].op = "finalize" /\ mode[r] = "loop"

FinalizeBarrier(r) ==
  /\ aborted = "no"
  /\ mode[r] = "loop" /\ drain[r] = NoRank
  /\ program[r][pc[r]].op = "finalize"
  /\ \A q \in Rank : InFinalize(q)
  /\ <<r, pc[r]>> \notin complete
  /\ complete' = complete \cup {<<r, pc[r]>>}
  /\ UNCHANGED <<appVars, seqVars, matchVars, flowVars, net, aborted>>

\* The progress loop ends with its request complete, a poll with a message
\* handled or with its timeout.
EndLoop(r) ==
  /\ aborted = "no"
  /\ drain[r] = NoRank
  /\ \/ mode[r] = "loop" /\ LoopRequest(r) \in complete
     \/ mode[r] \in {"poll", "polled"}
  /\ mode' = [mode EXCEPT ![r] = "run"]
  /\ pc' = [pc EXCEPT ![r] = @ + 1]
  /\ UNCHANGED <<program, seqVars, matchVars, flowVars, complete, net, aborted>>

-----------------------------------------------------------------------------
(***************************************************************************)
(* The NIC of the sending node answers an RDMA get: the payload leaves for *)
(* the receiver, and the sender is told so if the get asked for an ack.    *)
(***************************************************************************)
AcksGet_Mut(m) == TRUE   \* acks although the receiver will
AcksGet(m) == ~(Prot(m) = RENDEZVOUS_GET /\ SoftwareAck)

NicGet(m) ==
  /\ aborted = "no"
  /\ m.type = "rdma_get_request"
  /\ net' = (net \ {m}) \cup {Reuse(m, "rdma_get_payload", m.stage)} \cup
              (IF AcksGet(m) THEN {Ack(m, "rdma_get_sent_ack")} ELSE {})
  /\ UNCHANGED <<appVars, seqVars, matchVars, flowVars, complete, aborted>>

Init ==
  /\ program \in Programs
  /\ pc = [r \in Rank |-> 1]
  /\ mode = [r \in Rank |-> "run"]
  /\ drain = [r \in Rank |-> NoRank]
  /\ next_outbound = [r \in Rank |-> [s \in Rank |-> 0]]
  /\ next_inbound = [r \in Rank |-> [s \in Rank |-> 0]]
  /\ held = {}
  /\ need_recv_match = [r \in Rank |-> <<>>]
  /\ need_send_match = {}
  /\ probelist = {}
  /\ send_flows = {}
  /\ recv_flows = {}
  /\ complete = {}
  /\ net = {}
  /\ match = {}
  /\ aborted = "no"

AppCall(r) ==
  \/ ProcNullCall(r) \/ Send(r) \/ Recv(r) \/ Probe(r)
  \/ Iprobe(r) \/ Test(r) \/ Wait(r)

Incoming(r, m) ==
  \/ IncomingStaged(r, m)
  \/ IncomingInOrder(r, m)
  \/ IncomingOutOfOrder(r, m)

Next ==
  \/ \E r \in Rank : AppCall(r) \/ EndLoop(r) \/ DrainHeld(r)
                     \/ FinalizeBarrier(r)
  \/ \E m \in net : NicGet(m) \/ \E r \in Rank : Incoming(r, m)

(***************************************************************************)
(* The simulator executes every event it has scheduled: application        *)
(* threads that can run do, and everything the fabric holds is delivered.  *)
(***************************************************************************)
Fairness ==
  /\ \A r \in Rank : /\ WF_vars(AppCall(r))
                     /\ WF_vars(EndLoop(r))
                     /\ WF_vars(DrainHeld(r))
                     /\ WF_vars(FinalizeBarrier(r))
                     /\ WF_vars(\E m \in net : Incoming(r, m))
  /\ WF_vars(\E m \in net : NicGet(m))

Spec == Init /\ [][Next]_vars

FairSpec == Spec /\ Fairness

-----------------------------------------------------------------------------
(***************************************************************************)
(* Properties                                                              *)
(***************************************************************************)

\* The state is well formed: messages belong to sends of the program and
\* are in the stage their wire type goes with.
SendReq == {q \in Request : /\ q[2] \in DOMAIN program[q[1]]
                            /\ CallOf(q).op \in SendOps
                            /\ CallOf(q).peer \in Rank}
RecvReq == {q \in Request : /\ q[2] \in DOMAIN program[q[1]]
                            /\ CallOf(q).op \in RecvOps}
WellStaged(m) ==
  /\ m.stage = 1 <=> m.type \in {"rdma_get_request", "rdma_get_payload",
                                 "rdma_get_sent_ack"}
  /\ m.stage = 2 => m.type = "smsg_send" /\ Prot(m) = RENDEZVOUS_GET
SentMessage == {m \in Message : m.flow \in SendReq /\ WellStaged(m)}
Unexpected  == {m \in SentMessage : Prot(m) = RENDEZVOUS_GET => m.stage = 0}

TypeOK ==
  /\ program \in [Rank -> Seq(Call)] /\ WellFormed(program)
  /\ pc \in [Rank -> Nat \ {0}]
  /\ mode \in [Rank -> {"run", "loop", "poll", "polled"}]
  /\ drain \in [Rank -> Rank \cup {NoRank}]
  /\ next_outbound \in [Rank -> [Rank -> Nat]]
  /\ next_inbound \in [Rank -> [Rank -> Nat]]
  /\ held \subseteq SentMessage
  /\ need_recv_match \in [Rank -> Seq(Unexpected)]
  /\ need_send_match \subseteq RecvReq
  /\ probelist \subseteq Request
  /\ send_flows \subseteq SendReq
  /\ recv_flows \subseteq SendReq \X RecvReq
  /\ complete \subseteq Request
  /\ net \subseteq SentMessage
  /\ match \subseteq SendReq \X RecvReq
  /\ aborted \in {"no", "truncated", "sequence", "no send flow",
                  "no recv flow"}

(***************************************************************************)
(* None of the internal consistency checks of the queue and the protocols  *)
(* ever fails: no sequence number comes in twice or late, every ack finds  *)
(* its send in send_flows_, every RDMA payload its receive in recv_flows_. *)
(***************************************************************************)
NoProtocolAbort ==
  aborted \notin {"sequence", "no send flow", "no recv flow"}

(***************************************************************************)
(* handlePt2ptMessage "is guaranteed to satisfy sequencing constraints":   *)
(* a first-stage message leaves the fabric and held_ only as the next one  *)
(* of its sender, whatever order the fabric delivered in.                  *)
(***************************************************************************)
SequencedHandling ==
  [][aborted' = "no" =>
       \A m \in net \cup held :
         Sequenced(m) /\ m \notin net' \cup held' =>
           /\ m.seqnum = next_inbound[Dst(m)][Src(m)]
           /\ next_inbound'[Dst(m)][Src(m)] = m.seqnum + 1]_vars

\* A receiver has counted no more messages than its sender numbered.
CountersAgree ==
  \A r, s \in Rank : next_inbound[r][s] <= next_outbound[s][r]

\* A sequenced message under way, in the fabric or in held_, is one its
\* sender numbered and its receiver has not counted yet.
NotCountedYet ==
  \A m \in net \cup held : Sequenced(m) =>
    /\ next_inbound[Dst(m)][Src(m)] <= m.seqnum
    /\ m.seqnum < next_outbound[Src(m)][Dst(m)]

\* No two of them have the same number.
NumbersUnique ==
  \A m, o \in net \cup held :
    (/\ Sequenced(m) /\ Sequenced(o)
     /\ Src(m) = Src(o) /\ Dst(m) = Dst(o) /\ m.seqnum = o.seqnum) => m = o

\* held_ keeps a message that is due only while the receiver drains it.
HeldAhead ==
  \A m \in held :
    /\ Sequenced(m)
    /\ m.seqnum = next_inbound[Dst(m)][Src(m)] => drain[Dst(m)] = Src(m)

\* An unexpected message is at its destination and was counted.
UnexpectedCounted ==
  \A r \in Rank : \A k \in DOMAIN need_recv_match[r] :
    LET m == need_recv_match[r][k] IN
    /\ Dst(m) = r
    /\ Sequenced(m) => m.seqnum < next_inbound[r][Src(m)]

(***************************************************************************)
(* Why sequencing works: however the fabric reorders, what is under way    *)
(* between two tasks carries distinct numbers from next_inbound_ up, and a *)
(* message whose turn has come is never left behind in held_.              *)
(***************************************************************************)
SequenceInv ==
  /\ CountersAgree
  /\ NotCountedYet
  /\ NumbersUnique
  /\ HeldAhead
  /\ UnexpectedCounted
  /\ aborted # "sequence"

\* Sends f and g of one task to one task, f first.
SentBefore(f, g) ==
  /\ f[1] = g[1] /\ f[2] < g[2]
  /\ CallOf(f).op \in SendOps /\ CallOf(f).peer = CallOf(g).peer

\* If g met a receive that f matches as well, f met an earlier receive.
NonOvertakingOf(prots) ==
  \A x \in match : \A i \in 1 .. (x[1][2] - 1) :
    LET f == <<x[1][1], i>> IN
    (/\ SentBefore(f, x[1])
     /\ ProtocolFor(CallOf(f)) \in prots
     /\ ProtocolFor(CallOf(x[1])) \in prots
     /\ matches(x[2], f)) =>
       \E y \in match : y[1] = f /\ y[2][2] < x[2][2]

(***************************************************************************)
(* MPI's non-overtaking rule, among the messages that are matched when     *)
(* their sequenced first message is handled (every protocol but Eager1).   *)
(***************************************************************************)
NonOvertaking == NonOvertakingOf({EAGER0, RENDEZVOUS_GET, DIRECT_PUT})

(***************************************************************************)
(* The two matching lists never hold a pair that could have been matched:  *)
(* a receive posted against need_recv_match_ or a message handled against  *)
(* need_send_match_ never misses its partner.                              *)
(***************************************************************************)
NoMatchablePair ==
  \A q \in need_send_match : \A k \in DOMAIN need_recv_match[q[1]] :
    ~matches(q, need_recv_match[q[1]][k].flow)

(***************************************************************************)
(* A rendezvous send is not complete before its user buffer was read, and, *)
(* with software acks, not before the receive is complete.                 *)
(***************************************************************************)
RendezvousCompletion ==
  \A f \in complete :
    (f \in SendReq /\ ProtocolFor(CallOf(f)) = RENDEZVOUS_GET) =>
      \E x \in match :
        /\ x[1] = f
        /\ SoftwareAck => x[2] \in complete
        /\ \A m \in net : m.flow = f => m.type # "rdma_get_request"

\* A blocked probe while a message it matches waits in need_recv_match_.
MissedProbe(prots) ==
  \E p \in probelist : \E k \in DOMAIN need_recv_match[p[1]] :
    /\ Prot(need_recv_match[p[1]][k]) \in prots
    /\ matches(p, need_recv_match[p[1]][k].flow)

(***************************************************************************)
(* MPI_Probe does not sleep through an arrival: of the protocols that call *)
(* notifyProbes, no unexpected message is one a blocked probe asks for.    *)
(***************************************************************************)
ProbeNotified == ~MissedProbe({EAGER0, RENDEZVOUS_GET})

Done(r) == pc[r] \notin DOMAIN program[r]
AllDone == \A r \in Rank : Done(r)

\* Nothing can happen any more: who is not done waits, and for nothing that
\* is under way.
Stuck ==
  /\ aborted = "no"
  /\ \A r \in Rank :
       \/ Done(r)
       \/ /\ mode[r] = "loop" /\ drain[r] = NoRank
          /\ LoopRequest(r) \notin complete
          /\ \A m \in net : targetRank(m) # r
  /\ \A m \in net : m.type # "rdma_get_request"
  /\ \E r \in Rank : ~InFinalize(r)

(***************************************************************************)
(* The library never wedges a job: when nothing can happen, no message is  *)
(* still held back for sequencing, no receive was matched without being    *)
(* completed, and a send that waits does so because its header waits for a *)
(* receive the application has not posted.                                 *)
(***************************************************************************)
StuckOnlyIfUnmatched ==
  Stuck =>
    /\ held = {}
    /\ recv_flows = {}
    /\ \A r \in Rank : ~Done(r) =>
         LET q == LoopRequest(r) IN
         /\ CallOf(q).op \in RecvOps => q \in need_send_match
         /\ CallOf(q).op \in SendOps =>
              \E k \in DOMAIN need_recv_match[CallOf(q).peer] :
                need_recv_match[CallOf(q).peer][k].flow = q

(***************************************************************************)
(* A job whose sends and receives pair up runs to its end: no message is   *)
(* lost in held_ or in a matching list, no wait sleeps through the arrival *)
(* that completes it.                                                      *)
(***************************************************************************)
Termination == <>AllDone

(***************************************************************************)
(* "Message is guaranteed to satisfy sequencing constraints"               *)
(* (mpi_queue.h), so messages should not overtake whatever their protocol. *)
(***************************************************************************)
NonOvertakingAll ==
  NonOvertakingOf({EAGER0, EAGER1, RENDEZVOUS_GET, DIRECT_PUT})

(***************************************************************************)
(* The matching promise, seen from here: a request is started once its     *)
(* call was made.  Holds of programs without Eager1 messages.              *)
(***************************************************************************)
Started(q) ==
  \/ q[2] < pc[q[1]]
  \/ q[2] = pc[q[1]] /\ mode[q[1]] # "run"
Requests(ops) ==
  UNION { {<<r, i>> : i \in {j \in DOMAIN program[r] :
                                /\ program[r][j].op \in ops
                                /\ program[r][j].peer # ProcNull}}
          : r \in Rank }

Matching ==
  INSTANCE MpiMatching WITH
    sent <- {f \in Requests(SendOps) : Started(f)},
    posted <- {q \in Requests(RecvOps) : Started(q)},
    matched <- match

\* Every behaviour of the library is one the MPI matching rules allow.
ImplementsMatching == Matching!MSpec

=============================================================================
