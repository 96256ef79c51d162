--------------------------- MODULE MpiQueueProofs ---------------------------
(***************************************************************************)
(* Theorems about MpiQueue, for every job, program and configuration.      *)
(***************************************************************************)
EXTENDS MpiQueue, TLAPS

-----------------------------------------------------------------------------
(***************************************************************************)
(* Lemmas about messages and requests                                      *)
(***************************************************************************)

\* The sets of requests and messages only depend on the program.
LEMMA StableSets ==
  ASSUME program' = program
  PROVE  /\ SendReq' = SendReq /\ RecvReq' = RecvReq
         /\ SentMessage' = SentMessage /\ Unexpected' = Unexpected
         /\ \A q, f : matches(q, f)' = matches(q, f)
         /\ \A m : Src(m)' = Src(m) /\ Dst(m)' = Dst(m)
<1>1. \A q : CallOf(q)' = CallOf(q)
  BY DEF CallOf
<1>2. SendReq' = SendReq /\ RecvReq' = RecvReq
  BY <1>1 DEF SendReq, RecvReq
<1>3. \A m : Prot(m)' = Prot(m) /\ WellStaged(m)' = WellStaged(m)
  BY <1>1 DEF Prot, WellStaged
<1>4. SentMessage' = SentMessage /\ Unexpected' = Unexpected
  BY <1>2, <1>3 DEF SentMessage, Unexpected
<1> QED
  BY <1>1, <1>2, <1>4 DEF matches, Src, Dst

\* A message of a send has a sender and a receiver.
LEMMA MessageEnds ==
  ASSUME NEW m \in SentMessage
  PROVE  /\ m \in Message /\ m.flow \in SendReq /\ m.flow \in Request
         /\ Src(m) \in Rank /\ Dst(m) \in Rank
         /\ m.stage \in 0 .. 2 /\ m.seqnum \in Nat /\ m.type \in MsgTypes
BY DEF SentMessage, Message, SendReq, Request, Src, Dst

\* What a NIC or a protocol makes of a message is a message of the same send.
LEMMA DerivedMessages ==
  ASSUME NEW m \in SentMessage
  PROVE  /\ m.stage = 0 => GetRequest(m) \in SentMessage
         /\ m.type = "rdma_get_request" =>
              /\ Reuse(m, "rdma_get_payload", m.stage) \in SentMessage
              /\ Ack(m, "rdma_get_sent_ack") \in SentMessage
         /\ m.type = "rdma_get_payload" /\ Prot(m) = RENDEZVOUS_GET =>
              Reuse(m, "smsg_send", m.stage + 1) \in SentMessage
BY DEF SentMessage, WellStaged, Message, MsgTypes, NicAcks, GetRequest, Ack,
       Reuse, Prot, Bytes, CallOf

\* Removing from a list only removes.
LEMMA RemoveNthElements ==
  ASSUME NEW S, NEW s \in Seq(S), NEW k \in DOMAIN s
  PROVE  /\ RemoveNth(s, k) \in Seq(S)
         /\ \A i \in DOMAIN RemoveNth(s, k) :
              \E j \in DOMAIN s : RemoveNth(s, k)[i] = s[j]
<1>1. /\ Len(s) \in Nat /\ DOMAIN s = 1 .. Len(s)
      /\ \A i \in 1 .. Len(s) : s[i] \in S
  OBVIOUS
<1>2. DOMAIN RemoveNth(s, k) = 1 .. (Len(s) - 1)
  BY DEF RemoveNth
<1>3. Len(s) - 1 \in Nat
  BY <1>1
<1>4. ASSUME NEW i \in 1 .. (Len(s) - 1)
      PROVE  RemoveNth(s, k)[i] \in {s[i], s[i + 1]}
             /\ i \in DOMAIN s /\ i + 1 \in DOMAIN s
  BY <1>1 DEF RemoveNth
<1>5. RemoveNth(s, k) \in [1 .. (Len(s) - 1) -> S]
  <2>1. \A i \in 1 .. (Len(s) - 1) : RemoveNth(s, k)[i] \in S
    BY <1>1, <1>4
  <2> QED
    BY <2>1 DEF RemoveNth
<1>6. RemoveNth(s, k) \in Seq(S)
  BY <1>3, <1>5
<1>7. ASSUME NEW i \in DOMAIN RemoveNth(s, k)
      PROVE  \E j \in DOMAIN s : RemoveNth(s, k)[i] = s[j]
  BY <1>2, <1>4
<1> QED
  BY <1>6, <1>7

-----------------------------------------------------------------------------
(***************************************************************************)
(* What the handling of a message does                                     *)
(***************************************************************************)

\* The variables a message handler writes, with their types.
HandlerType ==
  /\ need_recv_match \in [Rank -> Seq(Unexpected)]
  /\ need_send_match \subseteq RecvReq
  /\ probelist \subseteq Request
  /\ send_flows \subseteq SendReq
  /\ recv_flows \subseteq SendReq \X RecvReq
  /\ complete \subseteq Request
  /\ net \subseteq SentMessage
  /\ match \subseteq SendReq \X RecvReq
  /\ aborted \in {"no", "truncated", "sequence", "no send flow",
                  "no recv flow"}

\* The handling of m takes nothing but m from the fabric, and what it adds
\* is a later stage.
NetEffect(m) ==
  /\ net \ {m} \subseteq net'
  /\ \A o \in net' : o \in net \ {m} \/ o.stage # 0

\* Meeting a receive keeps the types; what enters the fabric is a get.
LEMMA IncomingMatchedEffect ==
  ASSUME HandlerType, program' = program,
         NEW m \in Unexpected, NEW req \in RecvReq,
         NEW probes \in SUBSET Request,
         need_recv_match' \in [Rank -> Seq(Unexpected)],
         need_send_match' \subseteq RecvReq,
         IncomingMatched(m, req, probes)
  PROVE  HandlerType' /\ NetEffect(m)
<1>0. /\ SendReq' = SendReq /\ RecvReq' = RecvReq
      /\ SentMessage' = SentMessage /\ Unexpected' = Unexpected
      /\ RecvReq \subseteq Request
  BY StableSets DEF RecvReq
<1>1. m \in SentMessage /\ m.flow \in SendReq
  BY MessageEnds DEF Unexpected
<1>2. <<m.flow, req>> \in SendReq \X RecvReq
  BY <1>1
<1>3. CASE Prot(m) = RENDEZVOUS_GET
  <2>1. m.stage = 0 /\ GetRequest(m) \in SentMessage /\ GetRequest(m).stage = 1
    <3>1. m.stage = 0
      BY <1>3 DEF Unexpected
    <3>2. GetRequest(m) \in SentMessage
      BY <1>1, <3>1, DerivedMessages
    <3>3. GetRequest(m).stage = 1
      BY <3>1 DEF GetRequest, Reuse
    <3> QED
      BY <3>1, <3>2, <3>3
  <2>2. net' = (net \ {m}) \cup {GetRequest(m)}
    BY <1>3 DEF IncomingMatched
  <2>3. NetEffect(m)
    BY <2>1, <2>2 DEF NetEffect
  <2>4. net' \subseteq SentMessage
    BY <2>1, <2>2 DEF HandlerType
  <2> QED
    BY <1>0, <1>2, <1>3, <2>3, <2>4 DEF HandlerType, IncomingMatched
<1>4. CASE Prot(m) # RENDEZVOUS_GET
  <2>1. net' = net \ {m}
    BY <1>4 DEF IncomingMatched
  <2>2. NetEffect(m)
    BY <2>1 DEF NetEffect
  <2>3. net' \subseteq SentMessage
    BY <2>1 DEF HandlerType
  <2>4. complete' \subseteq Request
    <3>1. complete \subseteq Request /\ req \in Request
      BY <1>0 DEF HandlerType
    <3>2. complete' = complete \cup probes \cup {req}
      BY <1>4 DEF IncomingMatched
    <3> QED
      BY <3>1, <3>2
  <2> QED
    BY <1>0, <1>2, <1>4, <2>2, <2>3, <2>4 DEF HandlerType, IncomingMatched
<1> QED
  BY <1>3, <1>4

\* An abort only ends the run.
LEMMA HandlerAbortEffect ==
  ASSUME HandlerType, program' = program, NEW m,
         NEW why \in {"truncated", "sequence", "no send flow", "no recv flow"},
         HandlerAbort(m, why)
  PROVE  HandlerType' /\ NetEffect(m)
BY StableSets DEF HandlerType, HandlerAbort, NetEffect, matchVars, flowVars

\* findMatchingRecv keeps the types, whether it finds a receive, files the
\* message as unexpected or aborts.
LEMMA FindMatchingRecvEffect ==
  ASSUME HandlerType, program' = program, NEW r \in Rank,
         NEW m \in Unexpected, NEW probes \in SUBSET Request,
         FindMatchingRecv(r, m, probes)
  PROVE  HandlerType' /\ NetEffect(m)
<1>0. /\ SendReq' = SendReq /\ RecvReq' = RecvReq
      /\ SentMessage' = SentMessage /\ Unexpected' = Unexpected
      /\ RecvReq \subseteq Request
  BY StableSets DEF RecvReq
<1>1. CASE /\ postedFor(r, m) = {}
           /\ need_recv_match' = [need_recv_match EXCEPT ![r] = Append(@, m)]
           /\ probelist' = probelist \ probes
           /\ complete' = complete \cup probes
           /\ net' = net \ {m}
           /\ UNCHANGED <<need_send_match, match, flowVars, aborted>>
  <2>1. Append(need_recv_match[r], m) \in Seq(Unexpected)
    <3>1. need_recv_match[r] \in Seq(Unexpected)
      BY DEF HandlerType
    <3> QED
      BY <3>1
  <2>2. need_recv_match' \in [Rank -> Seq(Unexpected)]
    BY <1>1, <2>1 DEF HandlerType
  <2>3. NetEffect(m)
    BY <1>1 DEF NetEffect
  <2>4. net' \subseteq SentMessage
    BY <1>1 DEF HandlerType
  <2> QED
    BY <1>0, <1>1, <2>2, <2>3, <2>4 DEF HandlerType, flowVars
<1>2. CASE \E req \in postedFor(r, m) :
             \/ HandlerAbort(m, "truncated")
             \/ /\ need_send_match' = need_send_match \ {req}
                /\ IncomingMatched(m, req, probes)
                /\ UNCHANGED need_recv_match
  <2>1. PICK req \in postedFor(r, m) :
             \/ HandlerAbort(m, "truncated")
             \/ /\ need_send_match' = need_send_match \ {req}
                /\ IncomingMatched(m, req, probes)
                /\ UNCHANGED need_recv_match
    BY <1>2
  <2>2. req \in RecvReq
    BY DEF postedFor, HandlerType
  <2>3. CASE HandlerAbort(m, "truncated")
    BY <2>3, HandlerAbortEffect
  <2>4. CASE /\ need_send_match' = need_send_match \ {req}
             /\ IncomingMatched(m, req, probes)
             /\ UNCHANGED need_recv_match
    <3>1. /\ need_recv_match' \in [Rank -> Seq(Unexpected)]
          /\ need_send_match' \subseteq RecvReq
      BY <2>4 DEF HandlerType
    <3> QED
      BY <2>2, <2>4, <3>1, IncomingMatchedEffect
  <2> QED
    BY <2>1, <2>3, <2>4
<1> QED
  BY <1>1, <1>2 DEF FindMatchingRecv

\* What notifyProbes completes are requests.
LEMMA NotifiedProbes ==
  ASSUME HandlerType, NEW r \in Rank, NEW m
  PROVE  notifyProbes(r, m) \in SUBSET Request
BY DEF notifyProbes, HandlerType

\* An ack completes a send request or aborts; it adds nothing to the fabric.
LEMMA IncomingSendAckEffect ==
  ASSUME HandlerType, program' = program, NEW m \in SentMessage,
         IncomingSendAck(m)
  PROVE  HandlerType' /\ NetEffect(m)
<1>1. CASE m.flow \in send_flows
  <2>1. m.flow \in Request
    BY MessageEnds
  <2>2. complete \cup {m.flow} \subseteq Request
    BY <2>1 DEF HandlerType
  <2>3. NetEffect(m)
    BY <1>1 DEF IncomingSendAck, NetEffect
  <2> QED
    BY <1>1, <2>2, <2>3, StableSets DEF HandlerType, IncomingSendAck, matchVars
<1>2. CASE m.flow \notin send_flows
  BY <1>2, HandlerAbortEffect DEF IncomingSendAck
<1> QED
  BY <1>1, <1>2

\* The RDMA payload of a rendezvous completes its receive and may send the
\* software ack, a later stage.
LEMMA RendezvousIncomingPayloadEffect ==
  ASSUME HandlerType, program' = program, NEW m \in SentMessage,
         m.type = "rdma_get_payload", Prot(m) = RENDEZVOUS_GET,
         RendezvousIncomingPayload(m)
  PROVE  HandlerType' /\ NetEffect(m)
<1> DEFINE found == {p \in recv_flows : p[1] = m.flow}
           ack == Reuse(m, "smsg_send", m.stage + 1)
<1>1. CASE found # {}
  <2>1. ack \in SentMessage /\ ack.stage # 0
    <3>1. m.stage = 1
      BY DEF SentMessage, WellStaged
    <3>2. ack.stage # 0
      BY <3>1 DEF Reuse
    <3> QED
      BY <3>2, DerivedMessages
  <2>2. net' = (net \ {m}) \cup (IF SoftwareAck THEN {ack} ELSE {})
    BY <1>1 DEF RendezvousIncomingPayload
  <2>3. NetEffect(m)
    BY <2>1, <2>2 DEF NetEffect
  <2>4. net' \subseteq SentMessage
    BY <2>1, <2>2 DEF HandlerType
  <2>5. {p[2] : p \in found} \subseteq Request
    BY DEF HandlerType, RecvReq
  <2>6. complete' \subseteq Request
    BY <1>1, <2>5 DEF HandlerType, RendezvousIncomingPayload
  <2>7. recv_flows' \subseteq SendReq \X RecvReq
    BY <1>1 DEF HandlerType, RendezvousIncomingPayload
  <2> QED
    BY <1>1, <2>3, <2>4, <2>6, <2>7, StableSets
    DEF HandlerType, RendezvousIncomingPayload, matchVars
<1>2. CASE found = {}
  BY <1>2, HandlerAbortEffect DEF RendezvousIncomingPayload
<1> QED
  BY <1>1, <1>2

\* Whatever the protocol, handling m keeps the types and takes only m.
LEMMA HandlerEffect ==
  ASSUME HandlerType, program' = program, NEW r \in Rank,
         NEW m \in SentMessage, HandlePt2ptMessage(r, m)
  PROVE  HandlerType' /\ NetEffect(m)
<1>1. CASE m.type = "payload_sent_ack" \/ m.type = "rdma_get_sent_ack"
  <2>1. CASE Drop(m)
    BY <2>1, StableSets DEF HandlerType, NetEffect, Drop, matchVars, flowVars
  <2>2. CASE IncomingSendAck(m)
    BY <2>2, IncomingSendAckEffect
  <2> QED
    BY <1>1, <2>1, <2>2
    DEF HandlePt2ptMessage, Eager0Incoming, Eager1Incoming, RendezvousIncoming,
        DirectPutIncoming
<1>2. CASE Prot(m) = EAGER0 /\ m.type = "smsg_send"
  <2>1. m \in Unexpected
    BY <1>2 DEF Unexpected, EAGER0, RENDEZVOUS_GET
  <2>2. FindMatchingRecv(r, m, notifyProbes(r, m))
    BY <1>2 DEF HandlePt2ptMessage, Eager0Incoming, EAGER0, EAGER1,
                RENDEZVOUS_GET, DIRECT_PUT
  <2> QED
    BY <2>1, <2>2, NotifiedProbes, FindMatchingRecvEffect
<1>3. CASE Prot(m) = EAGER1 /\ m.type = "smsg_send"
  <2>1. m.stage = 0
    BY <1>3 DEF SentMessage, WellStaged, Message, EAGER1, RENDEZVOUS_GET
  <2>2. GetRequest(m) \in SentMessage /\ GetRequest(m).stage # 0
    <3>1. GetRequest(m) \in SentMessage
      BY <2>1, DerivedMessages
    <3>2. GetRequest(m).stage # 0
      BY <2>1 DEF GetRequest, Reuse
    <3> QED
      BY <3>1, <3>2
  <2>3. /\ net' = (net \ {m}) \cup {GetRequest(m)}
        /\ UNCHANGED <<matchVars, flowVars, complete, aborted>>
    BY <1>3 DEF HandlePt2ptMessage, Eager1Incoming, EAGER0, EAGER1,
                RENDEZVOUS_GET, DIRECT_PUT
  <2>4. net' \subseteq SentMessage
    BY <2>2, <2>3 DEF HandlerType
  <2>5. NetEffect(m)
    BY <2>2, <2>3 DEF NetEffect
  <2> QED
    BY <2>3, <2>4, <2>5, StableSets DEF HandlerType, matchVars, flowVars
<1>4. CASE Prot(m) = EAGER1 /\ m.type = "rdma_get_payload"
  <2>1. m \in Unexpected
    BY <1>4 DEF Unexpected, EAGER1, RENDEZVOUS_GET
  <2>2. FindMatchingRecv(r, m, {})
    BY <1>4 DEF HandlePt2ptMessage, Eager1Incoming, EAGER0, EAGER1,
                RENDEZVOUS_GET, DIRECT_PUT
  <2> QED
    BY <2>1, <2>2, FindMatchingRecvEffect
<1>5. CASE Prot(m) = RENDEZVOUS_GET /\ m.type = "smsg_send"
  <2>1. CASE m.stage = 0
    <3>1. m \in Unexpected
      BY <2>1 DEF Unexpected
    <3>2. FindMatchingRecv(r, m, notifyProbes(r, m))
      BY <1>5, <2>1 DEF HandlePt2ptMessage, RendezvousIncoming, EAGER0, EAGER1,
                RENDEZVOUS_GET, DIRECT_PUT
    <3> QED
      BY <3>1, <3>2, NotifiedProbes, FindMatchingRecvEffect
  <2>2. CASE m.stage # 0
    <3>1. IncomingSendAck(m)
      BY <1>5, <2>2 DEF HandlePt2ptMessage, RendezvousIncoming, EAGER0, EAGER1,
                RENDEZVOUS_GET, DIRECT_PUT
    <3> QED
      BY <3>1, IncomingSendAckEffect
  <2> QED
    BY <2>1, <2>2
<1>6. CASE Prot(m) = RENDEZVOUS_GET /\ m.type = "rdma_get_payload"
  <2>1. RendezvousIncomingPayload(m)
    BY <1>6 DEF HandlePt2ptMessage, RendezvousIncoming, EAGER0, EAGER1,
                RENDEZVOUS_GET, DIRECT_PUT
  <2> QED
    BY <1>6, <2>1, RendezvousIncomingPayloadEffect
<1>7. CASE Prot(m) = DIRECT_PUT
  <2>1. m \in Unexpected
    BY <1>7 DEF Unexpected, DIRECT_PUT, RENDEZVOUS_GET
  <2>2. CASE FindMatchingRecv(r, m, {})
    BY <2>1, <2>2, FindMatchingRecvEffect
  <2>3. CASE IncomingSendAck(m)
    BY <2>3, IncomingSendAckEffect
  <2> QED
    BY <1>7, <2>2, <2>3 DEF HandlePt2ptMessage, DirectPutIncoming,
       EAGER0, EAGER1, RENDEZVOUS_GET, DIRECT_PUT
<1> QED
  BY <1>1, <1>2, <1>3, <1>4, <1>5, <1>6, <1>7
  DEF HandlePt2ptMessage, Eager0Incoming, Eager1Incoming, RendezvousIncoming,
      DirectPutIncoming

-----------------------------------------------------------------------------
(***************************************************************************)
(* Type correctness                                                        *)
(***************************************************************************)

\* The variables only the application thread and the sequencing write.
AppType ==
  /\ program \in [Rank -> Seq(Call)] /\ WellFormed(program)
  /\ pc \in [Rank -> Nat \ {0}]
  /\ mode \in [Rank -> {"run", "loop", "poll", "polled"}]
  /\ drain \in [Rank -> Rank \cup {NoRank}]
  /\ next_outbound \in [Rank -> [Rank -> Nat]]
  /\ next_inbound \in [Rank -> [Rank -> Nat]]
  /\ held \subseteq SentMessage

\* The type invariant, split into what handlers write and the rest.
LEMMA TypeSplit == TypeOK <=> AppType /\ HandlerType
BY DEF TypeOK, AppType, HandlerType

\* The calls of rank r are requests; a send to a rank is a send request.
LEMMA CurrentCall ==
  ASSUME TypeOK, NEW r \in Rank, NEW ops \in SUBSET Ops, Calls(r, ops)
  PROVE  /\ <<r, pc[r]>> \in Request
         /\ CallOf(<<r, pc[r]>>) \in Call
         /\ ops \subseteq SendOps /\ CallOf(<<r, pc[r]>>).peer # ProcNull
              => <<r, pc[r]>> \in SendReq
         /\ ops \subseteq RecvOps => <<r, pc[r]>> \in RecvReq
<1>1. pc[r] \in Nat /\ pc[r] \in DOMAIN program[r]
  BY DEF TypeOK, Calls
<1>2. program[r] \in Seq(Call)
  BY DEF TypeOK
<1>3. CallOf(<<r, pc[r]>>) = program[r][pc[r]]
  BY DEF CallOf
<1>4. program[r][pc[r]] \in Call /\ program[r][pc[r]].op \in ops
  BY <1>1, <1>2 DEF Calls
<1>5. program[r][pc[r]].op \in SendOps =>
        program[r][pc[r]].peer \in Rank \cup {ProcNull}
  BY <1>1 DEF TypeOK, WellFormed
<1>6. <<r, pc[r]>> \in Request
  BY <1>1 DEF Request
<1> QED
  BY <1>1, <1>3, <1>4, <1>5, <1>6 DEF SendReq, RecvReq

\* A call returns or enters a loop: the program stays, pc and mode keep type.
LEMMA ControlType ==
  ASSUME TypeOK, NEW r \in Rank
  PROVE  /\ Return(r) => /\ program' = program
                         /\ pc' \in [Rank -> Nat \ {0}]
                         /\ mode' \in [Rank -> {"run", "loop", "poll", "polled"}]
         /\ \A how \in {"loop", "poll"} :
              Enter(r, how) =>
                /\ program' = program
                /\ pc' \in [Rank -> Nat \ {0}]
                /\ mode' \in [Rank -> {"run", "loop", "poll", "polled"}]
         /\ \A blocking \in BOOLEAN :
              ReturnOrLoop(r, blocking) =>
                /\ program' = program
                /\ pc' \in [Rank -> Nat \ {0}]
                /\ mode' \in [Rank -> {"run", "loop", "poll", "polled"}]
<1>1. Return(r) => /\ program' = program
                   /\ pc' \in [Rank -> Nat \ {0}]
                   /\ mode' \in [Rank -> {"run", "loop", "poll", "polled"}]
  <2>1. pc[r] + 1 \in Nat \ {0}
    <3>1. pc[r] \in Nat
      BY DEF TypeOK
    <3> QED
      BY <3>1
  <2>2. [pc EXCEPT ![r] = @ + 1] \in [Rank -> Nat \ {0}]
    BY <2>1 DEF TypeOK
  <2> QED
    BY <2>2 DEF TypeOK, Return
<1>2. \A how \in {"loop", "poll"} :
        Enter(r, how) =>
          /\ program' = program
          /\ pc' \in [Rank -> Nat \ {0}]
          /\ mode' \in [Rank -> {"run", "loop", "poll", "polled"}]
  BY DEF TypeOK, Enter
<1> QED
  BY <1>1, <1>2 DEF ReturnOrLoop

\* A call that leaves the sequencing alone keeps the types of the rest.
LEMMA AppCallType ==
  ASSUME TypeOK, program' = program, pc' \in [Rank -> Nat \ {0}],
         mode' \in [Rank -> {"run", "loop", "poll", "polled"}],
         UNCHANGED seqVars
  PROVE  AppType'
BY StableSets DEF TypeOK, AppType, seqVars, WellFormed

\* Counting a sequence number keeps the type of the counters.
LEMMA CountType ==
  ASSUME NEW f \in [Rank -> [Rank -> Nat]], NEW r \in Rank, NEW s \in Rank
  PROVE  [f EXCEPT ![r][s] = @ + 1] \in [Rank -> [Rank -> Nat]]
<1>1. f[r] \in [Rank -> Nat] /\ f[r][s] + 1 \in Nat
  OBVIOUS
<1>2. [f[r] EXCEPT ![s] = @ + 1] \in [Rank -> Nat]
  BY <1>1
<1> QED
  BY <1>2

\* A call on MPI_PROC_NULL keeps the types.
LEMMA ProcNullCallType ==
  ASSUME TypeOK, NEW r \in Rank, ProcNullCall(r)
  PROVE  TypeOK'
<1>1. AppType'
  BY ControlType, AppCallType DEF ProcNullCall
<1>2. <<r, pc[r]>> \in Request
  BY CurrentCall DEF ProcNullCall, SendOps, RecvOps, Ops
<1>3. complete' \subseteq Request
  BY <1>2 DEF ProcNullCall, TypeOK
<1>4. HandlerType'
  BY <1>3, ControlType, StableSets, TypeSplit
  DEF HandlerType, ProcNullCall, matchVars, flowVars
<1> QED
  BY <1>1, <1>4 DEF TypeOK, AppType, HandlerType

\* MpiQueue::send keeps the types and puts one sequenced message, with the next
\* number of its receiver, into the fabric.
LEMMA SendType ==
  ASSUME TypeOK, NEW r \in Rank, Send(r)
  PROVE  /\ TypeOK'
         /\ CallOf(<<r, pc[r]>>).peer \in Rank
         /\ \E m \in SentMessage :
              /\ Sequenced(m)
              /\ Src(m) = r /\ Dst(m) = CallOf(<<r, pc[r]>>).peer
              /\ m.seqnum = next_outbound[r][Dst(m)]
              /\ next_outbound' = [next_outbound EXCEPT ![r][Dst(m)] = @ + 1]
              /\ net \cup {m} \subseteq net'
              /\ \A o \in net' : o \in net \cup {m} \/ isNicAck(o)
<1> DEFINE req  == <<r, pc[r]>>
           dest == CallOf(req).peer
           prot == ProtocolFor(CallOf(req))
           m    == [flow |-> req, stage |-> 0, seqnum |-> next_outbound[r][dest],
                    type |-> IF prot = DIRECT_PUT THEN "rdma_put_payload"
                                                  ELSE "smsg_send"]
           acks == IF prot = EAGER0 THEN {Ack(m, "payload_sent_ack")}
                   ELSE IF prot = DIRECT_PUT THEN {Ack(m, "rdma_put_sent_ack")}
                   ELSE {}
<1>1. /\ Calls(r, SendOps) /\ dest # ProcNull
      /\ net' = net \cup {m} \cup acks
      /\ next_outbound' = [next_outbound EXCEPT ![r][dest] = @ + 1]
      /\ send_flows' \in {send_flows, send_flows \cup {req}}
      /\ complete' \in {complete, complete \cup {req}}
      /\ ReturnOrLoop(r, CallOf(req).op = "send")
      /\ UNCHANGED <<next_inbound, held, drain, matchVars, recv_flows, aborted>>
  BY DEF Send
<1>2. req \in SendReq /\ req \in Request
  BY <1>1, CurrentCall DEF SendOps, Ops
<1>3. dest \in Rank
  BY <1>2 DEF SendReq
<1>4. next_outbound[r][dest] \in Nat
  <2>1. next_outbound \in [Rank -> [Rank -> Nat]]
    BY DEF TypeOK
  <2> QED
    BY <1>3, <2>1
<1>5. m \in SentMessage /\ Sequenced(m)
  BY <1>2, <1>4 DEF SentMessage, Message, WellStaged, MsgTypes, NicAcks,
                    Sequenced, isNicAck
<1>6. acks \subseteq SentMessage /\ \A o \in acks : isNicAck(o)
  BY <1>2, <1>4 DEF SentMessage, Message, WellStaged, MsgTypes, NicAcks,
                    Ack, Reuse, isNicAck
<1>7. Src(m) = r /\ Dst(m) = dest
  BY DEF Src, Dst
<1>8. /\ program' = program
      /\ pc' \in [Rank -> Nat \ {0}]
      /\ mode' \in [Rank -> {"run", "loop", "poll", "polled"}]
  BY <1>1, ControlType
<1>9. next_outbound' \in [Rank -> [Rank -> Nat]]
  BY <1>1, <1>3, CountType DEF TypeOK
<1>10. AppType'
  BY <1>1, <1>8, <1>9, StableSets DEF TypeOK, AppType, WellFormed
<1>11. net' \subseteq SentMessage
  BY <1>1, <1>5, <1>6 DEF TypeOK
<1>12. send_flows' \subseteq SendReq /\ complete' \subseteq Request
  BY <1>1, <1>2 DEF TypeOK
<1>13. HandlerType'
  BY <1>1, <1>8, <1>11, <1>12, StableSets DEF HandlerType, TypeOK, matchVars
<1>14. TypeOK'
  BY <1>10, <1>13 DEF TypeOK, AppType, HandlerType
<1> HIDE DEF m, acks
<1>15. net \cup {m} \subseteq net' /\ \A o \in net' : o \in net \cup {m} \/ isNicAck(o)
  BY <1>1, <1>6
<1>16. m.seqnum = next_outbound[r][dest]
  BY DEF m
<1> QED
  BY <1>1, <1>3, <1>5, <1>7, <1>14, <1>15, <1>16

\* MpiQueue::recv keeps the types; a matched message only moves on.
LEMMA RecvType ==
  ASSUME TypeOK, NEW r \in Rank, Recv(r)
  PROVE  /\ TypeOK'
         /\ \/ net' = net
            \/ \E i \in DOMAIN need_recv_match[r] : NetEffect(need_recv_match[r][i])
<1> DEFINE req == <<r, pc[r]>>
<1>1. req \in RecvReq /\ req \in Request
  BY CurrentCall DEF Recv, RecvOps, Ops
<1>2. HandlerType
  BY TypeSplit
<1>3. UNCHANGED seqVars
  BY DEF Recv
<1>4. CASE /\ need_send_match' = need_send_match \cup {req}
           /\ UNCHANGED <<need_recv_match, probelist, match, flowVars, complete,
                          net, aborted>>
           /\ ReturnOrLoop(r, CallOf(req).op = "recv")
  <2>1. AppType' /\ program' = program
    BY <1>3, <1>4, ControlType, AppCallType
  <2>2. HandlerType'
    BY <1>1, <1>2, <1>4, <2>1, StableSets DEF HandlerType, flowVars
  <2> QED
    BY <1>4, <2>1, <2>2 DEF TypeOK, AppType, HandlerType
<1>5. ASSUME NEW k \in unexpectedFor(req),
             \/ /\ HandlerAbort(need_recv_match[r][k], "truncated")
                /\ UNCHANGED appVars
             \/ /\ need_recv_match' =
                     [need_recv_match EXCEPT ![r] = RemoveNth(@, k)]
                /\ IncomingMatched(need_recv_match[r][k], req,
                     IF Prot(need_recv_match[r][k]) = EAGER0
                     THEN notifyProbes(r, need_recv_match[r][k]) ELSE {})
                /\ UNCHANGED need_send_match
                /\ ReturnOrLoop(r, CallOf(req).op = "recv")
      PROVE  /\ TypeOK'
             /\ \E i \in DOMAIN need_recv_match[r] : NetEffect(need_recv_match[r][i])
  <2> DEFINE m == need_recv_match[r][k]
  <2>1. k \in DOMAIN need_recv_match[r] /\ need_recv_match[r] \in Seq(Unexpected)
    BY <1>2 DEF unexpectedFor, HandlerType
  <2>2. m \in Unexpected
    BY <2>1
  <2>3. CASE HandlerAbort(m, "truncated") /\ UNCHANGED appVars
    <3>1. AppType' /\ program' = program
      BY <1>3, <2>3, AppCallType DEF appVars, TypeOK
    <3>2. HandlerType' /\ NetEffect(m)
      BY <1>2, <2>3, <3>1, HandlerAbortEffect
    <3> QED
      BY <2>1, <3>1, <3>2 DEF TypeOK, AppType, HandlerType
  <2>4. CASE /\ need_recv_match' =
                  [need_recv_match EXCEPT ![r] = RemoveNth(@, k)]
             /\ IncomingMatched(m, req,
                  IF Prot(m) = EAGER0 THEN notifyProbes(r, m) ELSE {})
             /\ UNCHANGED need_send_match
             /\ ReturnOrLoop(r, CallOf(req).op = "recv")
    <3>1. AppType' /\ program' = program
      BY <1>3, <2>4, ControlType, AppCallType
    <3>2. RemoveNth(need_recv_match[r], k) \in Seq(Unexpected)
      BY <2>1, RemoveNthElements
    <3>3. need_recv_match' \in [Rank -> Seq(Unexpected)]
      BY <1>2, <2>4, <3>2 DEF HandlerType
    <3>4. need_send_match' \subseteq RecvReq
      BY <1>2, <2>4 DEF HandlerType
    <3>5. (IF Prot(m) = EAGER0 THEN notifyProbes(r, m) ELSE {}) \in SUBSET Request
      BY <1>2, NotifiedProbes
    <3>6. HandlerType' /\ NetEffect(m)
      BY <1>1, <1>2, <2>2, <2>4, <3>1, <3>3, <3>4, <3>5, IncomingMatchedEffect
    <3> QED
      BY <2>1, <3>1, <3>6 DEF TypeOK, AppType, HandlerType
  <2> QED
    BY <1>5, <2>3, <2>4
<1> QED
  BY <1>4, <1>5 DEF Recv

\* The calls that only look: types, the fabric and the sequencing.
LEMMA QuietType ==
  ASSUME TypeOK, NEW r \in Rank,
         Probe(r) \/ Iprobe(r) \/ Test(r) \/ Wait(r) \/ FinalizeBarrier(r) \/ EndLoop(r)
  PROVE  TypeOK' /\ UNCHANGED <<program, seqVars, net, need_recv_match, need_send_match>>
<1>0. HandlerType
  BY TypeSplit
<1>1. CASE Probe(r)
  <2>1. <<r, pc[r]>> \in Request
    BY <1>1, CurrentCall DEF Probe, Ops, ProbeOps
  <2>2. complete' \subseteq Request /\ probelist' \subseteq Request
    BY <1>1, <2>1 DEF Probe, TypeOK
  <2>3. AppType' /\ program' = program
    BY <1>1, ControlType, AppCallType DEF Probe
  <2>4. HandlerType'
    BY <1>0, <1>1, <2>2, <2>3, StableSets DEF Probe, HandlerType, flowVars
  <2> QED
    BY <1>1, <2>3, <2>4 DEF Probe, TypeOK, AppType, HandlerType
<1>2. CASE Iprobe(r) \/ Test(r) \/ Wait(r)
  <2>1. UNCHANGED <<seqVars, matchVars, flowVars, complete, net, aborted>>
    BY <1>2 DEF Iprobe, Test, Wait
  <2>2. AppType' /\ program' = program
    BY <1>2, <2>1, ControlType, AppCallType DEF Iprobe, Test, Wait
  <2>3. HandlerType'
    BY <1>0, <2>1, <2>2, StableSets DEF HandlerType, matchVars, flowVars
  <2> QED
    BY <2>1, <2>2, <2>3 DEF TypeOK, AppType, HandlerType, matchVars
<1>3. CASE FinalizeBarrier(r)
  <2>1. complete' = complete \cup {<<r, pc[r]>>} /\ pc[r] \in Nat
    BY <1>3 DEF FinalizeBarrier, TypeOK
  <2>2. complete' \subseteq Request
    <3>1. <<r, pc[r]>> \in Request
      BY <2>1 DEF Request
    <3> QED
      BY <2>1, <3>1 DEF TypeOK
  <2>3. UNCHANGED <<appVars, seqVars, matchVars, flowVars, net, aborted>>
    BY <1>3 DEF FinalizeBarrier
  <2>4. AppType' /\ program' = program
    BY <2>3, AppCallType DEF appVars, TypeOK
  <2>5. HandlerType'
    BY <1>0, <2>2, <2>3, <2>4, StableSets DEF HandlerType, matchVars, flowVars
  <2> QED
    BY <2>3, <2>4, <2>5 DEF TypeOK, AppType, HandlerType, matchVars
<1>4. CASE EndLoop(r)
  <2>1. UNCHANGED <<program, seqVars, matchVars, flowVars, complete, net, aborted>>
    BY <1>4 DEF EndLoop
  <2>2. pc[r] \in Nat
    BY DEF TypeOK
  <2>3. pc[r] + 1 \in Nat \ {0}
    BY <2>2
  <2>4. /\ pc' \in [Rank -> Nat \ {0}]
        /\ mode' \in [Rank -> {"run", "loop", "poll", "polled"}]
    BY <1>4, <2>3 DEF EndLoop, TypeOK
  <2>5. AppType'
    BY <2>1, <2>4, AppCallType
  <2>6. HandlerType'
    BY <1>0, <2>1, StableSets DEF HandlerType, matchVars, flowVars
  <2> QED
    BY <2>1, <2>5, <2>6 DEF TypeOK, AppType, HandlerType, matchVars
<1> QED
  BY <1>1, <1>2, <1>3, <1>4

\* A NIC that answers an RDMA get keeps the types and touches no queue.
LEMMA NicGetType ==
  ASSUME TypeOK, NEW m \in net, NicGet(m)
  PROVE  /\ TypeOK' /\ NetEffect(m) /\ ~Sequenced(m)
         /\ UNCHANGED <<program, seqVars, need_recv_match, need_send_match>>
<1>1. m \in SentMessage /\ m.type = "rdma_get_request"
  BY DEF TypeOK, NicGet
<1>2. m.stage = 1
  BY <1>1 DEF SentMessage, WellStaged
<1> DEFINE payload == Reuse(m, "rdma_get_payload", m.stage)
           ack == Ack(m, "rdma_get_sent_ack")
<1>3. /\ payload \in SentMessage /\ ack \in SentMessage
      /\ payload.stage # 0 /\ ack.stage # 0
  <2>1. payload \in SentMessage /\ ack \in SentMessage
    BY <1>1, DerivedMessages
  <2>2. payload.stage # 0 /\ ack.stage # 0
    BY <1>2 DEF Reuse, Ack
  <2> QED
    BY <2>1, <2>2
<1>4. /\ net' \in {(net \ {m}) \cup {payload}, (net \ {m}) \cup {payload} \cup {ack}}
      /\ UNCHANGED <<appVars, seqVars, matchVars, flowVars, complete, aborted>>
  BY DEF NicGet
<1> HIDE DEF payload, ack
<1>5. NetEffect(m)
  BY <1>3, <1>4 DEF NetEffect
<1>6. net' \subseteq SentMessage
  BY <1>3, <1>4 DEF TypeOK
<1>7. AppType' /\ program' = program
  BY <1>4, AppCallType DEF appVars, TypeOK
<1>8. HandlerType'
  BY <1>4, <1>6, <1>7, TypeSplit, StableSets DEF HandlerType, matchVars, flowVars
<1>9. TypeOK'
  BY <1>7, <1>8 DEF TypeOK, AppType, HandlerType
<1> QED
  BY <1>2, <1>4, <1>5, <1>7, <1>9 DEF Sequenced, matchVars

\* The variables of the application that a message never touches.
LEMMA TakenType ==
  ASSUME TypeOK, NEW r \in Rank, NEW m, Taken(r, m)
  PROVE  /\ program' = program /\ pc' = pc /\ next_outbound' = next_outbound
         /\ mode' \in [Rank -> {"run", "loop", "poll", "polled"}]
         /\ drain[r] = NoRank /\ targetRank(m) = r
BY DEF TypeOK, Taken, Polling

\* Taking a message from the completion queue keeps the types.
LEMMA IncomingType ==
  ASSUME TypeOK, NEW r \in Rank, NEW m \in net, Incoming(r, m)
  PROVE  TypeOK' /\ NetEffect(m)
<1>1. m \in SentMessage /\ HandlerType /\ Src(m) \in Rank
  BY TypeSplit, MessageEnds DEF TypeOK
<1>2. Taken(r, m)
  BY DEF Incoming, IncomingStaged, IncomingInOrder, IncomingOutOfOrder
<1>3. /\ program' = program /\ pc' = pc /\ next_outbound' = next_outbound
      /\ mode' \in [Rank -> {"run", "loop", "poll", "polled"}]
  BY <1>2, TakenType
<1>4. /\ next_inbound' \in [Rank -> [Rank -> Nat]]
      /\ held' \subseteq SentMessage
      /\ drain' \in [Rank -> Rank \cup {NoRank}]
  <2>1. CASE IncomingStaged(r, m)
    BY <2>1 DEF IncomingStaged, TypeOK
  <2>2. CASE IncomingInOrder(r, m)
    <3>1. next_inbound' \in [Rank -> [Rank -> Nat]]
      BY <1>1, <2>2, CountType DEF IncomingInOrder, TypeOK
    <3>2. drain' \in [Rank -> Rank \cup {NoRank}]
      BY <1>1, <2>2 DEF IncomingInOrder, TypeOK
    <3> QED
      BY <2>2, <3>1, <3>2 DEF IncomingInOrder, TypeOK
  <2>3. CASE IncomingOutOfOrder(r, m)
    BY <1>1, <2>3 DEF IncomingOutOfOrder, TypeOK
  <2> QED
    BY <2>1, <2>2, <2>3 DEF Incoming
<1>5. AppType'
  BY <1>3, <1>4, StableSets DEF AppType, TypeOK, WellFormed
<1>6. HandlerType' /\ NetEffect(m)
  <2>1. CASE HandlePt2ptMessage(r, m)
    BY <1>1, <1>3, <2>1, HandlerEffect
  <2>2. CASE HandlerAbort(m, "sequence")
    BY <1>1, <1>3, <2>2, HandlerAbortEffect
  <2>3. CASE /\ net' = net \ {m}
             /\ UNCHANGED <<matchVars, flowVars, complete, aborted>>
    BY <1>1, <1>3, <2>3, StableSets
    DEF HandlerType, NetEffect, matchVars, flowVars
  <2> QED
    BY <2>1, <2>2, <2>3
    DEF Incoming, IncomingStaged, IncomingInOrder, IncomingOutOfOrder
<1> QED
  BY <1>5, <1>6 DEF TypeOK, AppType, HandlerType

\* Handling a message out of held_ keeps the types.
LEMMA DrainHeldType ==
  ASSUME TypeOK, NEW r \in Rank, DrainHeld(r)
  PROVE  TypeOK'
<1>1. PICK m \in heldDue(held, drain[r], r, next_inbound[r][drain[r]]) :
        /\ HandlePt2ptMessage(r, m)
        /\ held' = held \ {m}
        /\ next_inbound' = [next_inbound EXCEPT ![r][Src(m)] = @ + 1]
        /\ drain' = [drain EXCEPT ![r] =
                       IF heldDue(held \ {m}, Src(m), r,
                                  next_inbound[r][Src(m)] + 1) # {}
                       THEN @ ELSE NoRank]
  BY DEF DrainHeld
<1>2. m \in SentMessage /\ HandlerType /\ Src(m) \in Rank
  BY TypeSplit, MessageEnds DEF TypeOK, heldDue
<1>3. UNCHANGED <<program, pc, mode, next_outbound>>
  BY DEF DrainHeld
<1>4. next_inbound' \in [Rank -> [Rank -> Nat]]
  BY <1>1, <1>2, CountType DEF TypeOK
<1>5. drain' \in [Rank -> Rank \cup {NoRank}]
  BY <1>1 DEF TypeOK
<1>6. AppType'
  BY <1>1, <1>3, <1>4, <1>5, StableSets DEF AppType, TypeOK, WellFormed
<1>7. HandlerType'
  BY <1>1, <1>2, <1>3, HandlerEffect
<1> QED
  BY <1>6, <1>7 DEF TypeOK, AppType, HandlerType

\* The initial state is well typed.
LEMMA TypeInit == Init => TypeOK
<1> SUFFICES ASSUME Init PROVE TypeOK
  OBVIOUS
<1>1. program \in [Rank -> Seq(Call)] /\ WellFormed(program)
  BY ProgramAssumption DEF Init
<1>2. \A S : <<>> \in Seq(S)
  OBVIOUS
<1> QED
  BY <1>1, <1>2 DEF Init, TypeOK

\* Every step keeps the type invariant.
LEMMA TypeStep == TypeOK /\ [Next]_vars => TypeOK'
<1> SUFFICES ASSUME TypeOK, [Next]_vars PROVE TypeOK'
  OBVIOUS
<1>1. CASE UNCHANGED vars
  BY <1>1, StableSets DEF vars, TypeOK, WellFormed
<1>2. ASSUME NEW r \in Rank, AppCall(r) PROVE TypeOK'
  BY <1>2, ProcNullCallType, SendType, RecvType, QuietType DEF AppCall
<1>3. ASSUME NEW r \in Rank, EndLoop(r) \/ FinalizeBarrier(r) PROVE TypeOK'
  BY <1>3, QuietType
<1>4. ASSUME NEW r \in Rank, DrainHeld(r) PROVE TypeOK'
  BY <1>4, DrainHeldType
<1>5. ASSUME NEW m \in net, NicGet(m) PROVE TypeOK'
  BY <1>5, NicGetType
<1>6. ASSUME NEW r \in Rank, NEW m \in net, Incoming(r, m) PROVE TypeOK'
  BY <1>6, IncomingType
<1> QED
  BY <1>1, <1>2, <1>3, <1>4, <1>5, <1>6 DEF Next

(***************************************************************************)
(* Every state of every job is well typed: messages belong to sends of the *)
(* program and are in the stage of their wire type, requests filed in the  *)
(* lists and flow tables are of the right kind.                            *)
(***************************************************************************)
THEOREM TypeCorrect == Spec => []TypeOK
BY TypeInit, TypeStep, PTL DEF Spec

-----------------------------------------------------------------------------
(***************************************************************************)
(* Sequencing and the matching lists                                       *)
(***************************************************************************)

\* What handling m does to the matching lists: a receive leaves them, or m
\* joins them because no posted receive takes it.
ListEffect(r, m) ==
  /\ need_send_match' \subseteq need_send_match
  /\ \/ need_recv_match' = need_recv_match
     \/ /\ need_recv_match' = [need_recv_match EXCEPT ![r] = Append(@, m)]
        /\ postedFor(r, m) = {}
        /\ targetRank(m) = Dst(m)
  /\ aborted' = "sequence" => aborted = "sequence"

\* What findMatchingRecv does to the matching lists.
LEMMA FindMatchingRecvLists ==
  ASSUME NEW r \in Rank, NEW m, NEW probes, targetRank(m) = Dst(m),
         FindMatchingRecv(r, m, probes)
  PROVE  ListEffect(r, m)
BY DEF FindMatchingRecv, ListEffect, HandlerAbort, IncomingMatched, matchVars,
       flowVars

\* What any protocol handler does to the matching lists.
LEMMA HandlerLists ==
  ASSUME NEW r \in Rank, NEW m \in SentMessage, HandlePt2ptMessage(r, m)
  PROVE  ListEffect(r, m)
<1>1. CASE \E probes : FindMatchingRecv(r, m, probes) /\ targetRank(m) = Dst(m)
  BY <1>1, FindMatchingRecvLists
<1>2. CASE \/ Drop(m) \/ IncomingSendAck(m) \/ RendezvousIncomingPayload(m)
           \/ UNCHANGED <<matchVars, aborted>>
  BY <1>2 DEF ListEffect, Drop, IncomingSendAck, RendezvousIncomingPayload,
              HandlerAbort, matchVars
<1>3. m.type = "smsg_send" /\ m.stage = 0 => targetRank(m) = Dst(m)
  BY DEF targetRank, isNicAck, NicAcks
<1>4. m.type \in {"rdma_get_payload", "rdma_put_payload"} => targetRank(m) = Dst(m)
  BY DEF targetRank, isNicAck, NicAcks
<1>5. Prot(m) # RENDEZVOUS_GET /\ m.type = "smsg_send" => m.stage = 0
  BY DEF SentMessage, WellStaged, Message
<1>6. CASE Prot(m) = EAGER0 /\ Eager0Incoming(r, m)
  BY <1>1, <1>2, <1>3, <1>5, <1>6
  DEF Eager0Incoming, EAGER0, RENDEZVOUS_GET
<1>7. CASE Prot(m) = EAGER1 /\ Eager1Incoming(r, m)
  BY <1>1, <1>2, <1>4, <1>7 DEF Eager1Incoming
<1>8. CASE Prot(m) = RENDEZVOUS_GET /\ RendezvousIncoming(r, m)
  BY <1>1, <1>2, <1>3, <1>8 DEF RendezvousIncoming
<1>9. CASE Prot(m) = DIRECT_PUT /\ DirectPutIncoming(r, m)
  BY <1>1, <1>2, <1>4, <1>9 DEF DirectPutIncoming
<1> QED
  BY <1>6, <1>7, <1>8, <1>9 DEF HandlePt2ptMessage

\* Every entry of the new list is one of the old list, or m.
LEMMA AppendedEntries ==
  ASSUME TypeOK, NEW r \in Rank, NEW m, ListEffect(r, m), NEW x \in Rank,
         NEW k \in DOMAIN need_recv_match'[x]
  PROVE  \/ \E j \in DOMAIN need_recv_match[x] :
              need_recv_match'[x][k] = need_recv_match[x][j]
         \/ need_recv_match'[x][k] = m /\ x = r /\ targetRank(m) = Dst(m)
<1>1. need_recv_match[x] \in Seq(Unexpected) /\ need_recv_match \in [Rank -> Seq(Unexpected)]
  BY DEF TypeOK
<1>2. CASE need_recv_match' = need_recv_match \/ x # r
  BY <1>1, <1>2 DEF ListEffect
<1>3. CASE x = r /\ need_recv_match'[x] = Append(need_recv_match[x], m)
           /\ targetRank(m) = Dst(m)
  BY <1>1, <1>3
<1> QED
  BY <1>1, <1>2, <1>3 DEF ListEffect

\* A sequenced message is handled at its destination.
LEMMA SequencedTarget ==
  ASSUME NEW m, Sequenced(m)
  PROVE  targetRank(m) = Dst(m)
BY DEF Sequenced, targetRank, isNicAck

\* A step that counts nothing and puts no sequenced message into the fabric.
LEMMA SequenceKept ==
  ASSUME TypeOK, SequenceInv, program' = program, UNCHANGED seqVars,
         \A o \in net' : o \in net \/ ~Sequenced(o),
         \A x \in Rank : \A k \in DOMAIN need_recv_match'[x] :
           \/ \E j \in DOMAIN need_recv_match[x] :
                need_recv_match'[x][k] = need_recv_match[x][j]
           \/ /\ Dst(need_recv_match'[x][k]) = x
              /\ ~Sequenced(need_recv_match'[x][k]),
         aborted' # "sequence"
  PROVE  SequenceInv'
<1>1. \A m : /\ Src(m)' = Src(m) /\ Dst(m)' = Dst(m)
             /\ Sequenced(m)' = Sequenced(m)
  BY StableSets DEF Sequenced, isNicAck
<1>2. /\ next_inbound' = next_inbound /\ next_outbound' = next_outbound
      /\ held' = held /\ drain' = drain
  BY DEF seqVars
<1>0. CountersAgree'
  BY <1>2 DEF SequenceInv, CountersAgree
<1>3. NotCountedYet'
  BY <1>1, <1>2 DEF SequenceInv, NotCountedYet, HeldAhead
<1>4. NumbersUnique'
  BY <1>1, <1>2 DEF SequenceInv, NumbersUnique
<1>5. HeldAhead'
  BY <1>1, <1>2 DEF SequenceInv, HeldAhead
<1>6. UnexpectedCounted'
  <2> SUFFICES ASSUME NEW x \in Rank, NEW k \in DOMAIN need_recv_match'[x]
               PROVE  /\ Dst(need_recv_match'[x][k]) = x
                      /\ Sequenced(need_recv_match'[x][k]) =>
                           need_recv_match'[x][k].seqnum
                             < next_inbound[x][Src(need_recv_match'[x][k])]
    BY <1>1, <1>2 DEF UnexpectedCounted
  <2> QED
    BY DEF SequenceInv, UnexpectedCounted
<1> QED
  BY <1>0, <1>3, <1>4, <1>5, <1>6 DEF SequenceInv

\* The counters after one of them counted.
LEMMA CountValue ==
  ASSUME NEW f \in [Rank -> [Rank -> Nat]], NEW r \in Rank, NEW s \in Rank,
         NEW x \in Rank, NEW y \in Rank
  PROVE  [f EXCEPT ![r][s] = @ + 1][x][y]
           = IF x = r /\ y = s THEN f[x][y] + 1 ELSE f[x][y]
OBVIOUS

\* A step that counts m and takes it away.
LEMMA SequenceCounted ==
  ASSUME TypeOK, SequenceInv, program' = program,
         NEW r \in Rank, NEW m \in SentMessage,
         Sequenced(m), Dst(m) = r, m \in net \cup held,
         m.seqnum = next_inbound[r][Src(m)],
         next_inbound' = [next_inbound EXCEPT ![r][Src(m)] = @ + 1],
         next_outbound' = next_outbound,
         held' \subseteq held,
         \A o \in net' \cup held' : Sequenced(o) => o \in (net \cup held) \ {m},
         ListEffect(r, m)
  PROVE  /\ CountersAgree' /\ NotCountedYet' /\ NumbersUnique'
         /\ UnexpectedCounted'
         /\ aborted' # "sequence"
<1>1. \A o : /\ Src(o)' = Src(o) /\ Dst(o)' = Dst(o)
             /\ Sequenced(o)' = Sequenced(o)
  BY StableSets DEF Sequenced, isNicAck
<1>2. \A o \in net \cup held : /\ o \in SentMessage /\ o.seqnum \in Nat
                               /\ Src(o) \in Rank /\ Dst(o) \in Rank
  BY MessageEnds DEF TypeOK
<1>3. next_inbound \in [Rank -> [Rank -> Nat]] /\ Src(m) \in Rank
  BY <1>2 DEF TypeOK
<1>4. \A x, y \in Rank :
        next_inbound'[x][y] = IF x = r /\ y = Src(m) THEN next_inbound[x][y] + 1
                                                     ELSE next_inbound[x][y]
  BY <1>3, CountValue
<1>5. \A x, y \in Rank : next_inbound[x][y] \in Nat
  BY <1>3
<1>6. NotCountedYet'
  <2> SUFFICES ASSUME NEW o \in net' \cup held', Sequenced(o)
               PROVE  /\ next_inbound'[Dst(o)][Src(o)] <= o.seqnum
                      /\ o.seqnum < next_outbound[Src(o)][Dst(o)]
    BY <1>1 DEF NotCountedYet
  <2>1. o \in net \cup held /\ o # m
    OBVIOUS
  <2>2. /\ next_inbound[Dst(o)][Src(o)] <= o.seqnum
        /\ o.seqnum < next_outbound[Src(o)][Dst(o)]
    BY <2>1 DEF SequenceInv, NotCountedYet
  <2>3. Src(o) = Src(m) /\ Dst(o) = r => o.seqnum # m.seqnum
    BY <2>1 DEF SequenceInv, NumbersUnique
  <2>4. /\ o.seqnum \in Nat /\ Src(o) \in Rank /\ Dst(o) \in Rank
        /\ next_inbound[Dst(o)][Src(o)] \in Nat
    BY <2>1, <1>2, <1>5
  <2>5. CASE Src(o) = Src(m) /\ Dst(o) = r
    BY <1>4, <2>2, <2>3, <2>4, <2>5
  <2>6. CASE ~(Src(o) = Src(m) /\ Dst(o) = r)
    BY <1>4, <2>2, <2>4, <2>6
  <2> QED
    BY <2>5, <2>6
<1>7. NumbersUnique'
  BY <1>1 DEF SequenceInv, NumbersUnique
<1>8. UnexpectedCounted'
  <2> SUFFICES ASSUME NEW x \in Rank, NEW k \in DOMAIN need_recv_match'[x]
               PROVE  /\ Dst(need_recv_match'[x][k]) = x
                      /\ Sequenced(need_recv_match'[x][k]) =>
                           need_recv_match'[x][k].seqnum
                             < next_inbound'[x][Src(need_recv_match'[x][k])]
    BY <1>1 DEF UnexpectedCounted
  <2> DEFINE o == need_recv_match'[x][k]
  <2>1. CASE \E j \in DOMAIN need_recv_match[x] : o = need_recv_match[x][j]
    <3>1. PICK j \in DOMAIN need_recv_match[x] : o = need_recv_match[x][j]
      BY <2>1
    <3>2. o \in SentMessage
      <4>1. need_recv_match[x] \in Seq(Unexpected)
        BY DEF TypeOK
      <4>2. need_recv_match[x][j] \in Unexpected
        BY <4>1
      <4> QED
        BY <3>1, <4>2 DEF Unexpected
    <3>3. o.seqnum \in Nat /\ Src(o) \in Rank
      BY <3>2, MessageEnds
    <3>4. Dst(o) = x /\ (Sequenced(o) => o.seqnum < next_inbound[x][Src(o)])
      BY <3>1 DEF SequenceInv, UnexpectedCounted
    <3>5. /\ next_inbound[x][Src(o)] \in Nat
          /\ \/ next_inbound'[x][Src(o)] = next_inbound[x][Src(o)]
             \/ next_inbound'[x][Src(o)] = next_inbound[x][Src(o)] + 1
      BY <1>4, <1>5, <3>3
    <3>6. ASSUME NEW n \in Nat, NEW i \in Nat, NEW i1, i1 = i \/ i1 = i + 1, n < i
          PROVE  n < i1
      BY <3>6
    <3> QED
      BY <3>3, <3>4, <3>5, <3>6
  <2>2. CASE o = m /\ x = r
    <3>1. next_inbound'[r][Src(m)] = next_inbound[r][Src(m)] + 1
      BY <1>3, <1>4
    <3>2. next_inbound[r][Src(m)] \in Nat
      BY <1>3, <1>5
    <3> QED
      BY <2>2, <3>1, <3>2
  <2> QED
    BY <2>1, <2>2, AppendedEntries
<1>9. CountersAgree'
  <2> SUFFICES ASSUME NEW x \in Rank, NEW y \in Rank
               PROVE  next_inbound'[x][y] <= next_outbound[y][x]
    BY DEF CountersAgree
  <2>1. /\ next_inbound[x][y] \in Nat /\ next_outbound[y][x] \in Nat
        /\ next_inbound[x][y] <= next_outbound[y][x]
    BY <1>5 DEF SequenceInv, CountersAgree, TypeOK
  <2>2. CASE x = r /\ y = Src(m)
    <3>1. m.seqnum < next_outbound[y][x]
      BY <2>2 DEF SequenceInv, NotCountedYet
    <3>2. next_inbound'[x][y] = next_inbound[x][y] + 1
      BY <1>4, <2>2
    <3> QED
      BY <2>1, <2>2, <3>1, <3>2
  <2>3. CASE ~(x = r /\ y = Src(m))
    BY <1>4, <2>1, <2>3
  <2> QED
    BY <2>2, <2>3
<1> QED
  BY <1>6, <1>7, <1>8, <1>9 DEF ListEffect, SequenceInv

\* A send keeps the sequence invariant: its number is new and not yet counted.
LEMMA SequenceSend ==
  ASSUME TypeOK, SequenceInv, NEW r \in Rank, Send(r)
  PROVE  SequenceInv' /\ net \subseteq net' /\ held' = held
<1>1. PICK m \in SentMessage :
        /\ Sequenced(m)
        /\ Src(m) = r /\ Dst(m) = CallOf(<<r, pc[r]>>).peer
        /\ m.seqnum = next_outbound[r][Dst(m)]
        /\ next_outbound' = [next_outbound EXCEPT ![r][Dst(m)] = @ + 1]
        /\ net \cup {m} \subseteq net'
        /\ \A o \in net' : o \in net \cup {m} \/ isNicAck(o)
  BY SendType
<1>2. /\ program' = program /\ next_inbound' = next_inbound /\ held' = held
      /\ drain' = drain /\ need_recv_match' = need_recv_match
      /\ aborted' = aborted
  BY DEF Send, matchVars, ReturnOrLoop, Return, Enter
<1>3. \A o : /\ Src(o)' = Src(o) /\ Dst(o)' = Dst(o)
             /\ Sequenced(o)' = Sequenced(o)
  BY <1>2, StableSets DEF Sequenced, isNicAck
<1>4. \A o \in net' \cup held' : Sequenced(o) => o \in net \cup held \cup {m}
  BY <1>1, <1>2 DEF Sequenced
<1>5. \A o \in net \cup held \cup {m} :
        o.seqnum \in Nat /\ Src(o) \in Rank /\ Dst(o) \in Rank
  BY MessageEnds DEF TypeOK
<1>6. \A x, y \in Rank :
        /\ next_outbound[x][y] \in Nat /\ next_inbound[x][y] \in Nat
        /\ next_outbound'[x][y] = IF x = r /\ y = Dst(m)
                                  THEN next_outbound[x][y] + 1
                                  ELSE next_outbound[x][y]
  <2>1. /\ next_outbound \in [Rank -> [Rank -> Nat]]
        /\ next_inbound \in [Rank -> [Rank -> Nat]]
        /\ Dst(m) \in Rank
    BY <1>5 DEF TypeOK
  <2>2. \A x, y \in Rank : next_outbound[x][y] \in Nat /\ next_inbound[x][y] \in Nat
    BY <2>1
  <2> QED
    BY <1>1, <2>1, <2>2, CountValue
<1>7. CountersAgree'
  <2> SUFFICES ASSUME NEW x \in Rank, NEW y \in Rank
               PROVE  next_inbound[x][y] <= next_outbound'[y][x]
    BY <1>2 DEF CountersAgree
  <2>1. next_inbound[x][y] <= next_outbound[y][x]
    BY DEF SequenceInv, CountersAgree
  <2> QED
    BY <1>6, <2>1
<1>8. NotCountedYet'
  <2> SUFFICES ASSUME NEW o \in net' \cup held', Sequenced(o)
               PROVE  /\ next_inbound[Dst(o)][Src(o)] <= o.seqnum
                      /\ o.seqnum < next_outbound'[Src(o)][Dst(o)]
    BY <1>2, <1>3 DEF NotCountedYet
  <2>1. CASE o = m
    <3>1. next_inbound[Dst(m)][r] <= next_outbound[r][Dst(m)]
      BY <1>5 DEF SequenceInv, CountersAgree
    <3>2. m.seqnum < next_outbound'[r][Dst(m)]
      BY <1>1, <1>5, <1>6
    <3> QED
      BY <1>1, <2>1, <3>1, <3>2
  <2>2. CASE o \in net \cup held
    <3>1. /\ next_inbound[Dst(o)][Src(o)] <= o.seqnum
          /\ o.seqnum < next_outbound[Src(o)][Dst(o)]
      BY <2>2 DEF SequenceInv, NotCountedYet
    <3> QED
      BY <1>5, <1>6, <2>2, <3>1
  <2> QED
    BY <1>4, <2>1, <2>2
<1>9. NumbersUnique'
  <2> SUFFICES ASSUME NEW o \in net \cup held \cup {m},
                      NEW q \in net \cup held \cup {m},
                      Sequenced(o), Sequenced(q), Src(o) = Src(q),
                      Dst(o) = Dst(q), o.seqnum = q.seqnum
               PROVE  o = q
    BY <1>3, <1>4 DEF NumbersUnique
  <2>1. \A x \in net \cup held :
          Sequenced(x) /\ Src(x) = r /\ Dst(x) = Dst(m) => x.seqnum # m.seqnum
    <3> SUFFICES ASSUME NEW x \in net \cup held, Sequenced(x), Src(x) = r,
                        Dst(x) = Dst(m)
                 PROVE  x.seqnum # m.seqnum
      OBVIOUS
    <3>1. x.seqnum < next_outbound[r][Dst(m)]
      BY DEF SequenceInv, NotCountedYet
    <3> QED
      BY <1>1, <1>5, <1>6, <3>1
  <2>2. CASE o \in net \cup held /\ q \in net \cup held
    BY <2>2 DEF SequenceInv, NumbersUnique
  <2> QED
    BY <1>1, <2>1, <2>2
<1>10. HeldAhead' /\ UnexpectedCounted'
  BY <1>2, <1>3 DEF SequenceInv, HeldAhead, UnexpectedCounted
<1> QED
  BY <1>1, <1>2, <1>7, <1>8, <1>9, <1>10 DEF SequenceInv

\* What sequencing promises of one step.
HandledInOrder ==
  aborted' = "no" =>
    \A m \in net \cup held :
      Sequenced(m) /\ m \notin net' \cup held' =>
        /\ m.seqnum = next_inbound[Dst(m)][Src(m)]
        /\ next_inbound'[Dst(m)][Src(m)] = m.seqnum + 1

\* What MPI_Recv does to the matching lists: it is posted because nothing
\* waits for it, or one message leaves.
LEMMA RecvLists ==
  ASSUME TypeOK, NEW r \in Rank, Recv(r)
  PROVE  \/ /\ need_recv_match' = need_recv_match
            /\ \/ need_send_match' = need_send_match
               \/ /\ need_send_match' = need_send_match \cup {<<r, pc[r]>>}
                  /\ unexpectedFor(<<r, pc[r]>>) = {}
         \/ /\ need_send_match' = need_send_match
            /\ \E k \in DOMAIN need_recv_match[r] :
                 need_recv_match' = [need_recv_match EXCEPT ![r] = RemoveNth(@, k)]
BY DEF Recv, HandlerAbort, matchVars, unexpectedFor

\* MPI_Recv adds nothing to need_recv_match_.
LEMMA RecvEntries ==
  ASSUME TypeOK, NEW r \in Rank, Recv(r), NEW x \in Rank,
         NEW k \in DOMAIN need_recv_match'[x]
  PROVE  \E j \in DOMAIN need_recv_match[x] :
           need_recv_match'[x][k] = need_recv_match[x][j]
<1>1. /\ need_recv_match \in [Rank -> Seq(Unexpected)]
      /\ need_recv_match[r] \in Seq(Unexpected)
  BY DEF TypeOK
<1>2. CASE need_recv_match' = need_recv_match
  BY <1>2
<1>3. ASSUME NEW i \in DOMAIN need_recv_match[r],
             need_recv_match' = [need_recv_match EXCEPT ![r] = RemoveNth(@, i)]
      PROVE  \E j \in DOMAIN need_recv_match[x] :
               need_recv_match'[x][k] = need_recv_match[x][j]
  <2>1. CASE x = r
    <3>1. need_recv_match'[x] = RemoveNth(need_recv_match[r], i)
      BY <1>1, <1>3, <2>1
    <3>2. \A l \in DOMAIN RemoveNth(need_recv_match[r], i) :
            \E j \in DOMAIN need_recv_match[r] :
              RemoveNth(need_recv_match[r], i)[l] = need_recv_match[r][j]
      BY <1>1, RemoveNthElements
    <3> QED
      BY <2>1, <3>1, <3>2
  <2>2. CASE x # r
    BY <1>1, <1>3, <2>2
  <2> QED
    BY <2>1, <2>2
<1> QED
  BY <1>2, <1>3, RecvLists

\* A receive keeps the sequence invariant: it meets messages already counted.
LEMMA SequenceRecv ==
  ASSUME TypeOK, SequenceInv, NEW r \in Rank, Recv(r)
  PROVE  SequenceInv' /\ HandledInOrder
<1>1. program' = program /\ UNCHANGED seqVars
  BY DEF Recv, appVars, ReturnOrLoop, Return, Enter
<1>2. \A o \in net' : o \in net \/ ~Sequenced(o)
  BY RecvType DEF NetEffect, Sequenced
<1>3. aborted' # "sequence"
  BY DEF Recv, HandlerAbort, IncomingMatched, SequenceInv
<1>6. \A x \in Rank : \A k \in DOMAIN need_recv_match'[x] :
        \E j \in DOMAIN need_recv_match[x] :
          need_recv_match'[x][k] = need_recv_match[x][j]
  BY RecvEntries
<1>7. SequenceInv'
  BY <1>1, <1>2, <1>3, <1>6, SequenceKept
<1>8. \A m \in net : Sequenced(m) => m \in net'
  <2> SUFFICES ASSUME NEW m \in net, Sequenced(m), m \notin net'
               PROVE  FALSE
    OBVIOUS
  <2>1. PICK k \in DOMAIN need_recv_match[r] : m = need_recv_match[r][k]
    BY RecvType DEF NetEffect
  <2>2. Dst(m) = r /\ m.seqnum < next_inbound[r][Src(m)]
    BY <2>1 DEF SequenceInv, UnexpectedCounted
  <2>3. next_inbound[r][Src(m)] <= m.seqnum
    BY <2>2 DEF SequenceInv, NotCountedYet
  <2>4. m.seqnum \in Nat /\ Src(m) \in Rank
    BY MessageEnds DEF TypeOK
  <2>5. next_inbound[r][Src(m)] \in Nat
    <3>1. next_inbound \in [Rank -> [Rank -> Nat]]
      BY DEF TypeOK
    <3> QED
      BY <2>4, <3>1
  <2> QED
    BY <2>2, <2>3, <2>4, <2>5
<1> QED
  BY <1>1, <1>7, <1>8 DEF HandledInOrder, seqVars

\* A step that touches neither counters nor messages keeps the invariant.
LEMMA SequenceQuiet ==
  ASSUME TypeOK, SequenceInv, program' = program, UNCHANGED seqVars, net' = net,
         need_recv_match' = need_recv_match, aborted' = aborted
  PROVE  SequenceInv' /\ HandledInOrder
<1>1. SequenceInv'
  BY SequenceKept DEF SequenceInv
<1> QED
  BY <1>1 DEF HandledInOrder, seqVars

\* An ack or a later stage keeps the invariant: it has no number of its own.
LEMMA SequenceStaged ==
  ASSUME TypeOK, SequenceInv, NEW r \in Rank, NEW m \in net,
         IncomingStaged(r, m)
  PROVE  SequenceInv' /\ HandledInOrder
<1>1. m \in SentMessage
  BY DEF TypeOK
<1>2. /\ program' = program /\ UNCHANGED seqVars /\ ~Sequenced(m)
      /\ HandlePt2ptMessage(r, m) /\ targetRank(m) = r
  BY TakenType DEF IncomingStaged, seqVars
<1>3. NetEffect(m)
  BY IncomingType DEF Incoming
<1>4. ListEffect(r, m)
  BY <1>1, <1>2, HandlerLists
<1>5. \A o \in net' : o \in net \/ ~Sequenced(o)
  BY <1>3 DEF NetEffect, Sequenced
<1>6. \A x \in Rank : \A k \in DOMAIN need_recv_match'[x] :
        \/ \E j \in DOMAIN need_recv_match[x] :
             need_recv_match'[x][k] = need_recv_match[x][j]
        \/ /\ Dst(need_recv_match'[x][k]) = x
           /\ ~Sequenced(need_recv_match'[x][k])
  BY <1>2, <1>4, AppendedEntries
<1>7. aborted' # "sequence"
  BY <1>4 DEF ListEffect, SequenceInv
<1>8. SequenceInv'
  BY <1>2, <1>5, <1>6, <1>7, SequenceKept
<1>9. \A o \in net \cup held : Sequenced(o) => o \in net' \cup held'
  BY <1>2, <1>3 DEF NetEffect, seqVars
<1> QED
  BY <1>8, <1>9 DEF HandledInOrder

\* A message that comes in its turn keeps the invariant.
LEMMA SequenceInOrder ==
  ASSUME TypeOK, SequenceInv, NEW r \in Rank, NEW m \in net,
         IncomingInOrder(r, m)
  PROVE  SequenceInv' /\ HandledInOrder
<1>1. m \in SentMessage /\ Src(m) \in Rank /\ m.seqnum \in Nat
  BY MessageEnds DEF TypeOK
<1>2. /\ program' = program /\ next_outbound' = next_outbound /\ held' = held
      /\ Sequenced(m) /\ HandlePt2ptMessage(r, m) /\ drain[r] = NoRank
      /\ Dst(m) = r /\ m.seqnum = next_inbound[r][Src(m)]
      /\ next_inbound' = [next_inbound EXCEPT ![r][Src(m)] = @ + 1]
      /\ drain' = [drain EXCEPT ![r] =
                     IF heldDue(held, Src(m), r, m.seqnum + 1) # {}
                     THEN Src(m) ELSE NoRank]
  BY TakenType, SequencedTarget DEF IncomingInOrder, itsTurn
<1>3. NetEffect(m) /\ ListEffect(r, m)
  BY <1>1, <1>2, IncomingType, HandlerLists DEF Incoming
<1>4. m \notin held
  BY <1>1, <1>2, WildcardAssumption DEF SequenceInv, HeldAhead
<1>5. \A o \in net' \cup held' : Sequenced(o) => o \in (net \cup held) \ {m}
  BY <1>2, <1>3, <1>4 DEF NetEffect, Sequenced
<1>6. /\ CountersAgree' /\ NotCountedYet' /\ NumbersUnique'
      /\ UnexpectedCounted' /\ aborted' # "sequence"
  BY <1>1, <1>2, <1>3, <1>5, SequenceCounted
<1>7. /\ next_inbound \in [Rank -> [Rank -> Nat]]
      /\ drain \in [Rank -> Rank \cup {NoRank}]
  BY DEF TypeOK
<1>8. \A x, y \in Rank :
        next_inbound'[x][y] = IF x = r /\ y = Src(m) THEN next_inbound[x][y] + 1
                                                     ELSE next_inbound[x][y]
  BY <1>1, <1>2, <1>7, CountValue
<1>9. HeldAhead'
  <2> SUFFICES ASSUME NEW o \in held
               PROVE  /\ Sequenced(o)
                      /\ o.seqnum = next_inbound'[Dst(o)][Src(o)]
                           => drain'[Dst(o)] = Src(o)
    BY <1>2, StableSets DEF HeldAhead, Sequenced, isNicAck
  <2>1. /\ Sequenced(o) /\ Src(o) \in Rank /\ Dst(o) \in Rank
        /\ o.seqnum = next_inbound[Dst(o)][Src(o)] => drain[Dst(o)] = Src(o)
    BY MessageEnds DEF TypeOK, SequenceInv, HeldAhead
  <2>2. CASE Dst(o) = r /\ Src(o) = Src(m)
    <3>1. next_inbound'[r][Src(m)] = m.seqnum + 1
      BY <1>1, <1>2, <1>8
    <3>2. m.seqnum + 1 <= m.seqnum + 1
      BY <1>1
    <3>3. o.seqnum = m.seqnum + 1 => o \in heldDue(held, Src(m), r, m.seqnum + 1)
      BY <2>2, <3>2 DEF heldDue
    <3>4. o.seqnum = m.seqnum + 1 => drain'[r] = Src(m)
      BY <1>2, <1>7, <3>3
    <3> QED
      BY <2>1, <2>2, <3>1, <3>4
  <2>3. CASE Dst(o) = r /\ Src(o) # Src(m)
    <3>1. next_inbound'[r][Src(o)] = next_inbound[r][Src(o)]
      BY <1>8, <2>1, <2>3
    <3> QED
      BY <1>2, <2>1, <2>3, <3>1, WildcardAssumption
  <2>4. CASE Dst(o) # r
    <3>1. next_inbound'[Dst(o)][Src(o)] = next_inbound[Dst(o)][Src(o)]
      BY <1>8, <2>1, <2>4
    <3>2. drain'[Dst(o)] = drain[Dst(o)]
      BY <1>2, <1>7, <2>1, <2>4
    <3> QED
      BY <2>1, <3>1, <3>2
  <2> QED
    BY <2>2, <2>3, <2>4
<1>10. HandledInOrder
  <2>1. next_inbound'[r][Src(m)] = m.seqnum + 1
    BY <1>1, <1>2, <1>8
  <2>2. \A o \in net \cup held : o \notin net' \cup held' => o = m
    BY <1>2, <1>3 DEF NetEffect
  <2> QED
    BY <1>2, <2>1, <2>2 DEF HandledInOrder
<1> QED
  BY <1>6, <1>9, <1>10 DEF SequenceInv

\* A message ahead of its turn is held and keeps the invariant.
LEMMA SequenceOutOfOrder ==
  ASSUME TypeOK, SequenceInv, NEW r \in Rank, NEW m \in net,
         IncomingOutOfOrder(r, m)
  PROVE  SequenceInv' /\ HandledInOrder
<1>1. m \in SentMessage /\ Src(m) \in Rank /\ m.seqnum \in Nat
  BY MessageEnds DEF TypeOK
<1>2. /\ program' = program /\ next_outbound' = next_outbound
      /\ next_inbound' = next_inbound /\ drain' = drain
      /\ Sequenced(m) /\ Dst(m) = r /\ m.seqnum # next_inbound[r][Src(m)]
  BY TakenType, SequencedTarget DEF IncomingOutOfOrder, itsTurn
<1>3. next_inbound[r][Src(m)] <= m.seqnum /\ next_inbound[r][Src(m)] \in Nat
  <2>1. next_inbound \in [Rank -> [Rank -> Nat]]
    BY DEF TypeOK
  <2> QED
    BY <1>1, <1>2, <2>1 DEF SequenceInv, NotCountedYet
<1>4. m.seqnum > next_inbound[r][Src(m)]
  BY <1>1, <1>2, <1>3
<1>5. /\ held' = held \cup {m} /\ net' = net \ {m}
      /\ need_recv_match' = need_recv_match /\ aborted' = aborted
  BY <1>4 DEF IncomingOutOfOrder, matchVars
<1>6. net' \cup held' = net \cup held
  BY <1>5
<1>7. \A o : /\ Src(o)' = Src(o) /\ Dst(o)' = Dst(o)
             /\ Sequenced(o)' = Sequenced(o)
  BY <1>2, StableSets DEF Sequenced, isNicAck
<1>8. CountersAgree' /\ UnexpectedCounted'
  BY <1>2, <1>5, <1>7 DEF SequenceInv, CountersAgree, UnexpectedCounted
<1>9. NotCountedYet' /\ NumbersUnique'
  BY <1>2, <1>6, <1>7 DEF SequenceInv, NotCountedYet, NumbersUnique
<1>10. HeldAhead'
  BY <1>2, <1>5, <1>7 DEF SequenceInv, HeldAhead
<1> QED
  BY <1>5, <1>6, <1>8, <1>9, <1>10 DEF SequenceInv, HandledInOrder

\* A message that leaves held_ is the next of its sender.
LEMMA SequenceDrain ==
  ASSUME TypeOK, SequenceInv, NEW r \in Rank, DrainHeld(r)
  PROVE  SequenceInv' /\ HandledInOrder
<1>1. PICK m \in heldDue(held, drain[r], r, next_inbound[r][drain[r]]) :
        /\ HandlePt2ptMessage(r, m)
        /\ held' = held \ {m}
        /\ next_inbound' = [next_inbound EXCEPT ![r][Src(m)] = @ + 1]
        /\ drain' = [drain EXCEPT ![r] =
                       IF heldDue(held \ {m}, Src(m), r,
                                  next_inbound[r][Src(m)] + 1) # {}
                       THEN @ ELSE NoRank]
  BY DEF DrainHeld
<1>2. /\ m \in held /\ m \in SentMessage /\ Src(m) \in Rank /\ m.seqnum \in Nat
      /\ Src(m) = drain[r] /\ Dst(m) = r
      /\ m.seqnum <= next_inbound[r][Src(m)]
  BY MessageEnds DEF TypeOK, heldDue
<1>3. /\ next_inbound \in [Rank -> [Rank -> Nat]]
      /\ drain \in [Rank -> Rank \cup {NoRank}]
  BY DEF TypeOK
<1>4. Sequenced(m) /\ m.seqnum = next_inbound[r][Src(m)]
  <2>1. Sequenced(m)
    BY <1>2 DEF SequenceInv, HeldAhead
  <2>2. next_inbound[r][Src(m)] <= m.seqnum
    BY <1>2, <2>1 DEF SequenceInv, NotCountedYet
  <2>3. next_inbound[r][Src(m)] \in Nat
    BY <1>2, <1>3
  <2> QED
    BY <1>2, <2>1, <2>2, <2>3
<1>5. program' = program /\ next_outbound' = next_outbound
  BY DEF DrainHeld
<1>6. NetEffect(m) /\ ListEffect(r, m)
  BY <1>1, <1>2, <1>5, TypeSplit, HandlerEffect, HandlerLists
<1>7. \A o \in net' \cup held' : Sequenced(o) => o \in (net \cup held) \ {m}
  BY <1>1, <1>6 DEF NetEffect, Sequenced
<1>8. held' \subseteq held /\ m \in net \cup held
  BY <1>1, <1>2
<1>9. /\ CountersAgree' /\ NotCountedYet' /\ NumbersUnique'
      /\ UnexpectedCounted' /\ aborted' # "sequence"
  BY <1>1, <1>2, <1>4, <1>5, <1>6, <1>7, <1>8, SequenceCounted
<1>10. \A x, y \in Rank :
         next_inbound'[x][y] = IF x = r /\ y = Src(m) THEN next_inbound[x][y] + 1
                                                      ELSE next_inbound[x][y]
  BY <1>1, <1>2, <1>3, CountValue
<1>11. HeldAhead'
  <2> SUFFICES ASSUME NEW o \in held \ {m}
               PROVE  /\ Sequenced(o)
                      /\ o.seqnum = next_inbound'[Dst(o)][Src(o)]
                           => drain'[Dst(o)] = Src(o)
    BY <1>1, <1>5, StableSets DEF HeldAhead, Sequenced, isNicAck
  <2>1. /\ Sequenced(o) /\ Src(o) \in Rank /\ Dst(o) \in Rank
        /\ o.seqnum = next_inbound[Dst(o)][Src(o)] => drain[Dst(o)] = Src(o)
    BY MessageEnds DEF TypeOK, SequenceInv, HeldAhead
  <2>2. CASE Dst(o) = r /\ Src(o) = Src(m)
    <3>1. next_inbound'[r][Src(m)] = m.seqnum + 1
      BY <1>2, <1>4, <1>10
    <3>2. m.seqnum + 1 <= m.seqnum + 1
      BY <1>2
    <3>3. o.seqnum = m.seqnum + 1 =>
            o \in heldDue(held \ {m}, Src(m), r, next_inbound[r][Src(m)] + 1)
      BY <1>4, <2>2, <3>2 DEF heldDue
    <3>4. o.seqnum = m.seqnum + 1 => drain'[r] = Src(m)
      BY <1>1, <1>2, <1>3, <3>3
    <3> QED
      BY <2>1, <2>2, <3>1, <3>4
  <2>3. CASE Dst(o) = r /\ Src(o) # Src(m)
    <3>1. next_inbound'[r][Src(o)] = next_inbound[r][Src(o)]
      BY <1>10, <2>1, <2>3
    <3> QED
      BY <1>2, <2>1, <2>3, <3>1
  <2>4. CASE Dst(o) # r
    <3>1. next_inbound'[Dst(o)][Src(o)] = next_inbound[Dst(o)][Src(o)]
      BY <1>10, <2>1, <2>4
    <3>2. drain'[Dst(o)] = drain[Dst(o)]
      BY <1>1, <1>3, <2>1, <2>4
    <3> QED
      BY <2>1, <3>1, <3>2
  <2> QED
    BY <2>2, <2>3, <2>4
<1>12. HandledInOrder
  <2>1. next_inbound'[r][Src(m)] = m.seqnum + 1
    BY <1>2, <1>4, <1>10
  <2>2. \A o \in net \cup held : o \notin net' \cup held' => o = m
    BY <1>1, <1>6 DEF NetEffect
  <2> QED
    BY <1>2, <1>4, <2>1, <2>2 DEF HandledInOrder
<1> QED
  BY <1>9, <1>11, <1>12 DEF SequenceInv

\* The sequence invariant holds at the start.
LEMMA SequenceInit == Init => SequenceInv
BY DEF Init, SequenceInv, CountersAgree, NotCountedYet, NumbersUnique, HeldAhead,
       UnexpectedCounted

\* Every step keeps the sequence invariant and handles messages in order.
LEMMA SequenceStep ==
  TypeOK /\ SequenceInv /\ [Next]_vars => SequenceInv' /\ [HandledInOrder]_vars
<1> SUFFICES ASSUME TypeOK, SequenceInv, [Next]_vars
             PROVE  SequenceInv' /\ [HandledInOrder]_vars
  OBVIOUS
<1>1. CASE UNCHANGED vars
  BY <1>1, SequenceQuiet DEF vars, seqVars
<1>2. ASSUME NEW r \in Rank, AppCall(r) PROVE SequenceInv' /\ HandledInOrder
  <2>1. CASE ProcNullCall(r)
    BY <2>1, SequenceQuiet DEF ProcNullCall, matchVars, Return
  <2>2. CASE Send(r)
    BY <2>2, SequenceSend DEF HandledInOrder
  <2>3. CASE Recv(r)
    BY <2>3, SequenceRecv
  <2>4. CASE Probe(r) \/ Iprobe(r) \/ Test(r) \/ Wait(r)
    <3>1. aborted' = aborted
      BY <2>4 DEF Probe, Iprobe, Test, Wait
    <3> QED
      BY <2>4, <3>1, QuietType, SequenceQuiet
  <2> QED
    BY <1>2, <2>1, <2>2, <2>3, <2>4 DEF AppCall
<1>3. ASSUME NEW r \in Rank, EndLoop(r) \/ FinalizeBarrier(r)
      PROVE  SequenceInv' /\ HandledInOrder
  <2>1. aborted' = aborted
    BY <1>3 DEF EndLoop, FinalizeBarrier
  <2> QED
    BY <1>3, <2>1, QuietType, SequenceQuiet
<1>4. ASSUME NEW r \in Rank, DrainHeld(r) PROVE SequenceInv' /\ HandledInOrder
  BY <1>4, SequenceDrain
<1>5. ASSUME NEW m \in net, NicGet(m) PROVE SequenceInv' /\ HandledInOrder
  <2>1. /\ NetEffect(m) /\ ~Sequenced(m) /\ aborted' = aborted
        /\ UNCHANGED <<program, seqVars, need_recv_match>>
    BY <1>5, NicGetType DEF NicGet
  <2>2. \A o \in net' : o \in net \/ ~Sequenced(o)
    BY <2>1 DEF NetEffect, Sequenced
  <2>3. SequenceInv'
    BY <2>1, <2>2, SequenceKept DEF SequenceInv
  <2> QED
    BY <2>1, <2>3 DEF HandledInOrder, NetEffect, seqVars
<1>6. ASSUME NEW r \in Rank, NEW m \in net, Incoming(r, m)
      PROVE  SequenceInv' /\ HandledInOrder
  BY <1>6, SequenceStaged, SequenceInOrder, SequenceOutOfOrder DEF Incoming
<1> QED
  BY <1>1, <1>2, <1>3, <1>4, <1>5, <1>6 DEF Next

(***************************************************************************)
(* The sequence numbers of the messages under way are distinct and never   *)
(* behind next_inbound_, no due message is forgotten in held_, and the     *)
(* abort "message sequence went backwards" is unreachable, whatever the    *)
(* fabric reorders.                                                        *)
(***************************************************************************)
THEOREM SequenceCorrect == Spec => []SequenceInv
<1>1. Spec => [](TypeOK /\ SequenceInv)
  BY TypeInit, SequenceInit, TypeStep, SequenceStep, PTL DEF Spec
<1> QED
  BY <1>1, PTL

(***************************************************************************)
(* A first-stage message is handled exactly when it is its sender's turn,  *)
(* and then counted, in every step that does not abort the run.            *)
(***************************************************************************)
THEOREM HandledInSequence == Spec => SequencedHandling
<1>1. Spec => [][HandledInOrder]_vars
  BY TypeInit, SequenceInit, TypeStep, SequenceStep, PTL DEF Spec
<1> QED
  BY <1>1 DEF SequencedHandling, HandledInOrder

-----------------------------------------------------------------------------
\* Nothing that could meet is kept apart by the handling of a message ...
LEMMA HandlerNoPair ==
  ASSUME TypeOK, NoMatchablePair, program' = program, NEW r \in Rank, NEW m,
         ListEffect(r, m)
  PROVE  NoMatchablePair'
<1> SUFFICES ASSUME NEW q \in need_send_match',
                    NEW k \in DOMAIN need_recv_match'[q[1]]
             PROVE  ~matches(q, need_recv_match'[q[1]][k].flow)
  BY StableSets DEF NoMatchablePair
<1>1. q \in need_send_match /\ q[1] \in Rank
  BY DEF ListEffect, TypeOK, RecvReq, Request
<1>2. CASE need_recv_match' = need_recv_match
  BY <1>1, <1>2 DEF NoMatchablePair
<1>3. CASE postedFor(r, m) = {}
  <2>1. CASE \E j \in DOMAIN need_recv_match[q[1]] :
               need_recv_match'[q[1]][k] = need_recv_match[q[1]][j]
    BY <1>1, <2>1 DEF NoMatchablePair
  <2>2. CASE need_recv_match'[q[1]][k] = m /\ q[1] = r
    BY <1>1, <1>3, <2>2 DEF postedFor
  <2> QED
    BY <1>1, <2>1, <2>2, AppendedEntries
<1> QED
  BY <1>2, <1>3 DEF ListEffect

\* ... nor by the posting of a receive.
LEMMA RecvNoPair ==
  ASSUME TypeOK, NoMatchablePair, NEW r \in Rank, Recv(r)
  PROVE  NoMatchablePair'
<1>1. program' = program
  BY DEF Recv, appVars, ReturnOrLoop, Return, Enter
<1> SUFFICES ASSUME NEW q \in need_send_match',
                    NEW k \in DOMAIN need_recv_match'[q[1]]
             PROVE  ~matches(q, need_recv_match'[q[1]][k].flow)
  BY <1>1, StableSets DEF NoMatchablePair
<1>2. CASE q \in need_send_match
  <2>1. q[1] \in Rank
    BY <1>2 DEF TypeOK, RecvReq, Request
  <2> QED
    BY <1>2, <2>1, RecvEntries DEF NoMatchablePair
<1>3. CASE q \notin need_send_match
  <2>1. /\ q = <<r, pc[r]>> /\ need_recv_match' = need_recv_match
        /\ unexpectedFor(q) = {}
    BY <1>3, RecvLists
  <2> QED
    BY <2>1 DEF unexpectedFor
<1> QED
  BY <1>2, <1>3

\* Every step keeps need_recv_match_ and need_send_match_ free of pairs.
LEMMA NoPairStep == TypeOK /\ NoMatchablePair /\ [Next]_vars => NoMatchablePair'
<1> SUFFICES ASSUME TypeOK, NoMatchablePair, [Next]_vars
             PROVE  NoMatchablePair'
  OBVIOUS
<1>0. ASSUME program' = program, need_recv_match' = need_recv_match,
             need_send_match' = need_send_match
      PROVE  NoMatchablePair'
  BY <1>0, StableSets DEF NoMatchablePair
<1>1. CASE UNCHANGED vars
  BY <1>0, <1>1 DEF vars
<1>2. ASSUME NEW r \in Rank, AppCall(r) PROVE NoMatchablePair'
  <2>1. CASE ProcNullCall(r) \/ Send(r)
    BY <1>0, <2>1
    DEF ProcNullCall, Send, matchVars, ReturnOrLoop, Return, Enter
  <2>2. CASE Recv(r)
    BY <2>2, RecvNoPair
  <2>3. CASE Probe(r) \/ Iprobe(r) \/ Test(r) \/ Wait(r)
    BY <1>0, <2>3, QuietType
  <2> QED
    BY <1>2, <2>1, <2>2, <2>3 DEF AppCall
<1>3. ASSUME NEW r \in Rank, EndLoop(r) \/ FinalizeBarrier(r)
      PROVE  NoMatchablePair'
  BY <1>0, <1>3, QuietType
<1>4. ASSUME NEW r \in Rank, DrainHeld(r) PROVE NoMatchablePair'
  <2>1. PICK m \in held : HandlePt2ptMessage(r, m)
    BY <1>4 DEF DrainHeld, heldDue
  <2>2. m \in SentMessage /\ program' = program
    BY <1>4 DEF DrainHeld, TypeOK
  <2> QED
    BY <2>1, <2>2, HandlerLists, HandlerNoPair
<1>5. ASSUME NEW m \in net, NicGet(m) PROVE NoMatchablePair'
  BY <1>0, <1>5, NicGetType
<1>6. ASSUME NEW r \in Rank, NEW m \in net, Incoming(r, m) PROVE NoMatchablePair'
  <2>1. m \in SentMessage /\ program' = program
    BY <1>6, TakenType
    DEF TypeOK, Incoming, IncomingStaged, IncomingInOrder, IncomingOutOfOrder
  <2>2. CASE HandlePt2ptMessage(r, m)
    BY <2>1, <2>2, HandlerLists, HandlerNoPair
  <2>3. CASE need_recv_match' = need_recv_match /\ need_send_match' = need_send_match
    BY <1>0, <2>1, <2>3
  <2> QED
    BY <1>6, <2>2, <2>3
    DEF Incoming, IncomingStaged, IncomingInOrder, IncomingOutOfOrder,
        HandlerAbort, matchVars
<1> QED
  BY <1>1, <1>2, <1>3, <1>4, <1>5, <1>6 DEF Next

(***************************************************************************)
(* need_recv_match_ and need_send_match_ never hold a message and a        *)
(* receive that match, however arrivals and posts interleave.              *)
(***************************************************************************)
THEOREM NoPairMissed == Spec => []NoMatchablePair
<1>1. Init => NoMatchablePair
  BY DEF Init, NoMatchablePair
<1>2. Spec => [](TypeOK /\ NoMatchablePair)
  BY <1>1, TypeInit, TypeStep, NoPairStep, PTL DEF Spec
<1> QED
  BY <1>2, PTL

=============================================================================
