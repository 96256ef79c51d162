-------------------------- MODULE MpiOrderProofs --------------------------
(***************************************************************************)
(* Messages do not overtake: MpiQueue implements the matching rules of     *)
(* MPI, for every job, however the fabric reorders.  No probe sleeps       *)
(* through an arrival, no protocol loses a flow, no rendezvous is reported *)
(* done before its buffer was read, and nothing wedges a job.              *)
(***************************************************************************)
EXTENDS MpiQueueProofs

-----------------------------------------------------------------------------
(***************************************************************************)
(* The order of matching                                                   *)
(*                                                                         *)
(* First messages are those that are sequenced; they are under way, or     *)
(* listed as unexpected.  Eager1 looks for the receive only when the data  *)
(* has come, so what is said about first messages excludes its flows.      *)
(***************************************************************************)
Listed == UNION {{need_recv_match[r][k] : k \in DOMAIN need_recv_match[r]} : r \in Rank}
UnderWay == {m \in net \cup held : Sequenced(m)}
AtOnce(f) == ProtocolFor(CallOf(f)) # EAGER1
SendMet(f) == \E x \in match : x[1] = f
RecvMet(q) == \E x \in match : x[2] = q

\* Everything recorded is about calls that were made.
StartedInv ==
  /\ \A m \in net \cup held \cup Listed : Started(m.flow)
  /\ \A q \in need_send_match : Started(q) /\ CallOf(q).peer # ProcNull
  /\ \A x \in match : /\ Started(x[1]) /\ Started(x[2])
                      /\ CallOf(x[2]).peer # ProcNull
                      /\ x[2][1] = CallOf(x[1]).peer

\* The wire types of a protocol; unexpected messages are first messages, or
\* the data of Eager1.
Fits(m) ==
  /\ Prot(m) = EAGER0 => m.type \in {"smsg_send", "payload_sent_ack"}
  /\ Prot(m) \in {EAGER1, RENDEZVOUS_GET} =>
       m.type \in {"smsg_send", "rdma_get_request", "rdma_get_payload", "rdma_get_sent_ack"}
  /\ Prot(m) = DIRECT_PUT => m.type \in {"rdma_put_payload", "rdma_put_sent_ack"}
FitInv ==
  /\ \A m \in net \cup held : Fits(m)
  /\ \A m \in Listed : AtOnce(m.flow) => Sequenced(m)

\* Numbers follow the program, and so does each list, sender by sender.
NumberInv ==
  \A m, o \in UnderWay \cup Listed :
    (/\ Sequenced(m) /\ Sequenced(o)
     /\ Src(m) = Src(o) /\ Dst(m) = Dst(o)) =>
       (m.seqnum < o.seqnum <=> m.flow[2] < o.flow[2])
ListInv ==
  \A r \in Rank : \A k, l \in DOMAIN need_recv_match[r] :
    LET m == need_recv_match[r][k] 
        o == need_recv_match[r][l] IN
    (/\ k < l /\ AtOnce(m.flow) /\ AtOnce(o.flow)
     /\ Src(m) = Src(o)) => m.flow[2] < o.flow[2]
PlaceInv == net \cap held = {}

\* No send and no receive is forgotten, and none meets twice.
SendInv ==
  /\ aborted = "no" =>
       \A f \in Requests(SendOps) : (Started(f) /\ AtOnce(f)) =>
         SendMet(f) \/ \E m \in UnderWay \cup Listed : m.flow = f
  /\ \A m \in UnderWay \cup Listed : AtOnce(m.flow) => ~SendMet(m.flow)
RecvInv ==
  /\ aborted = "no" =>
       \A q \in Requests(RecvOps) : Started(q) =>
         RecvMet(q) \/ q \in need_send_match
  /\ \A q \in need_send_match : ~RecvMet(q)

\* A posted receive is younger than those that met a message it takes.
YoungerInv ==
  \A x \in match : \A q \in need_send_match :
    q[1] = x[2][1] /\ matches(q, x[1]) => x[2][2] < q[2]

OrderInv ==
  /\ StartedInv /\ FitInv /\ NumberInv /\ ListInv /\ PlaceInv
  /\ SendInv /\ RecvInv /\ YoungerInv

\* What a match has to respect: f meets q and neither passes by an older one.
MeetsInOrder(f, q) ==
  /\ f \in SendReq /\ q \in RecvReq /\ Started(f) /\ CallOf(q).peer # ProcNull
  /\ q[1] = CallOf(f).peer /\ matches(q, f)
  /\ ~RecvMet(q) /\ (AtOnce(f) => ~SendMet(f))
  /\ AtOnce(f) =>
       \A g \in Requests(SendOps) :
         (/\ Started(g) /\ AtOnce(g) /\ ~SendMet(g)
          /\ g[1] = f[1] /\ CallOf(g).peer = CallOf(f).peer /\ g[2] < f[2]) => ~matches(q, g)
  /\ \A p \in Requests(RecvOps) :
       (Started(p) /\ ~RecvMet(p) /\ p[1] = q[1] /\ p[2] < q[2]) => ~matches(p, f)
  /\ \A y \in match : y[2][1] = q[1] /\ matches(q, y[1]) => y[2][2] < q[2]
-----------------------------------------------------------------------------
(***************************************************************************)
(* What depends on the program only                                        *)
(***************************************************************************)
LEMMA StableOrder ==
  ASSUME program' = program
  PROVE  /\ \A f : CallOf(f)' = CallOf(f) /\ AtOnce(f)' = AtOnce(f)
         /\ \A m : /\ Src(m)' = Src(m) /\ Dst(m)' = Dst(m) /\ Prot(m)' = Prot(m)
                   /\ Sequenced(m)' = Sequenced(m) /\ Fits(m)' = Fits(m)
         /\ \A q, f : matches(q, f)' = matches(q, f)
         /\ Requests(SendOps)' = Requests(SendOps)
         /\ Requests(RecvOps)' = Requests(RecvOps)
<1>1. \A f : CallOf(f)' = CallOf(f)
  BY DEF CallOf
<1>2. \A f : AtOnce(f)' = AtOnce(f)
  BY <1>1 DEF AtOnce, ProtocolFor
<1>3. \A m : Src(m)' = Src(m) /\ Dst(m)' = Dst(m) /\ Prot(m)' = Prot(m)
  BY <1>1 DEF Src, Dst, Prot
<1>4. \A m : Sequenced(m)' = Sequenced(m) /\ Fits(m)' = Fits(m)
  BY <1>3 DEF Sequenced, isNicAck, Fits
<1>5. \A q, f : matches(q, f)' = matches(q, f)
  BY <1>1 DEF matches
<1>6. Requests(SendOps)' = Requests(SendOps) /\ Requests(RecvOps)' = Requests(RecvOps)
  BY DEF Requests
<1> QED
  BY <1>1, <1>2, <1>3, <1>4, <1>5, <1>6

\* The sends to a rank, and the receives from one.
LEMMA RequestSets ==
  ASSUME TypeOK
  PROVE  /\ Requests(SendOps) = SendReq
         /\ \A q : q \in Requests(RecvOps) <=> q \in RecvReq /\ CallOf(q).peer # ProcNull
<1>1. \A r \in Rank : DOMAIN program[r] \subseteq Nat
  <2>1. program \in [Rank -> Seq(Call)]
    BY DEF TypeOK
  <2> QED
    BY <2>1
<1>2. ASSUME NEW q, NEW ops
      PROVE  q \in Requests(ops) <=>
               /\ q \in Request /\ q[2] \in DOMAIN program[q[1]]
               /\ CallOf(q).op \in ops /\ CallOf(q).peer # ProcNull
  <2>1. ASSUME q \in Requests(ops)
        PROVE  /\ q \in Request /\ q[2] \in DOMAIN program[q[1]]
               /\ CallOf(q).op \in ops /\ CallOf(q).peer # ProcNull
    <3>0. PICK r \in Rank :
            \E i \in DOMAIN program[r] :
              /\ q = <<r, i>> /\ program[r][i].op \in ops
              /\ program[r][i].peer # ProcNull
      BY <2>1 DEF Requests
    <3>1. PICK i \in DOMAIN program[r] :
            /\ q = <<r, i>> /\ program[r][i].op \in ops
            /\ program[r][i].peer # ProcNull
      BY <3>0
    <3>2. i \in Nat
      BY <1>1, <3>1
    <3> QED
      BY <3>1, <3>2 DEF Request, CallOf
  <2>2. ASSUME q \in Request, q[2] \in DOMAIN program[q[1]],
               CallOf(q).op \in ops, CallOf(q).peer # ProcNull
        PROVE  q \in Requests(ops)
    <3>1. q = <<q[1], q[2]>> /\ q[1] \in Rank
      BY <2>2 DEF Request
    <3> QED
      BY <2>2, <3>1 DEF Requests, CallOf
  <2> QED
    BY <2>1, <2>2
<1>3. \A q \in Request : q[2] \in DOMAIN program[q[1]] /\ CallOf(q).op \in SendOps =>
        CallOf(q).peer \in Rank \cup {ProcNull}
  BY DEF TypeOK, WellFormed, CallOf, Request
<1>4. \A q : q \in Requests(SendOps) <=> q \in SendReq
  BY <1>2, <1>3, WildcardAssumption DEF SendReq
<1> QED
  BY <1>2, <1>4 DEF RecvReq

\* The listed messages, rank by rank.
LEMMA ListedEntry ==
  \A m : m \in Listed <=> \E r \in Rank : \E k \in DOMAIN need_recv_match[r] :
                            m = need_recv_match[r][k]
BY DEF Listed

\* What is recorded has the types the other lemmas need.
LEMMA RecordTypes ==
  ASSUME TypeOK
  PROVE  /\ \A m \in net \cup held \cup Listed :
              /\ m \in SentMessage /\ m.flow \in SendReq
              /\ m.flow \in Request /\ m.flow[1] \in Rank /\ m.flow[2] \in Nat
              /\ m.seqnum \in Nat /\ Src(m) \in Rank /\ Dst(m) \in Rank
              /\ Src(m) = m.flow[1] /\ Dst(m) = CallOf(m.flow).peer
         /\ \A x \in match : /\ x[1] \in SendReq /\ x[2] \in RecvReq
                             /\ x[1] \in Request /\ x[2] \in Request
                             /\ x[1][2] \in Nat /\ x[2][2] \in Nat
         /\ \A q \in need_send_match :
              q \in RecvReq /\ q \in Request /\ q[1] \in Rank /\ q[2] \in Nat
<1>1. \A m \in net \cup held \cup Listed : m \in SentMessage
  <2>1. ASSUME NEW r \in Rank, NEW k \in DOMAIN need_recv_match[r]
        PROVE  need_recv_match[r][k] \in Unexpected
    <3>1. need_recv_match[r] \in Seq(Unexpected)
      BY DEF TypeOK
    <3> QED
      BY <3>1
  <2>2. net \subseteq SentMessage /\ held \subseteq SentMessage /\ Unexpected \subseteq SentMessage
    BY DEF TypeOK, Unexpected
  <2> QED
    BY <2>1, <2>2, ListedEntry
<1>2. \A m \in SentMessage : Src(m) = m.flow[1] /\ Dst(m) = CallOf(m.flow).peer
  BY DEF Src, Dst
<1>3. \A q \in Request : q[1] \in Rank /\ q[2] \in Nat
  BY DEF Request
<1>4. SendReq \subseteq Request /\ RecvReq \subseteq Request
  BY DEF SendReq, RecvReq
<1>5. \A x \in match : x[1] \in SendReq /\ x[2] \in RecvReq
  BY DEF TypeOK
<1>6. need_send_match \subseteq RecvReq
  BY DEF TypeOK
<1> QED
  BY <1>1, <1>2, <1>3, <1>4, <1>5, <1>6, MessageEnds

(***************************************************************************)
(* Which calls were made                                                   *)
(***************************************************************************)
LEMMA StartedSoFar ==
  ASSUME TypeOK, NEW r \in Rank, mode[r] = "run"
  PROVE  /\ ~Started(<<r, pc[r]>>)
         /\ \A q \in Request : Started(q) /\ q[1] = r => q[2] < pc[r]
<1>1. pc[r] \in Nat
  BY DEF TypeOK
<1> QED
  BY <1>1 DEF Started, Request

\* A call is made: nothing else is.
LEMMA StartsCall ==
  ASSUME TypeOK, NEW r \in Rank, mode[r] = "run",
         \/ Return(r) \/ Enter(r, "loop") \/ Enter(r, "poll")
         \/ \E b : ReturnOrLoop(r, b)
  PROVE  /\ program' = program
         /\ \A q \in Request : Started(q)' <=> Started(q) \/ q = <<r, pc[r]>>
<1>1. pc \in [Rank -> Nat \ {0}] /\ mode \in [Rank -> {"run", "loop", "poll", "polled"}]
  BY DEF TypeOK
<1>2. Return(r) \/ Enter(r, "loop") \/ Enter(r, "poll")
  BY DEF ReturnOrLoop
<1>3. ASSUME NEW q \in Request
      PROVE  Started(q)' <=> Started(q) \/ q = <<r, pc[r]>>
  <2>1. q = <<q[1], q[2]>> /\ q[1] \in Rank /\ q[2] \in Nat
    BY DEF Request
  <2>2. CASE q[1] # r
    BY <1>1, <1>2, <2>1, <2>2 DEF Started, Return, Enter
  <2>3. CASE q[1] = r
    <3>1. pc[r] \in Nat
      BY <1>1
    <3>2. Started(q) <=> q[2] < pc[r]
      BY <2>1, <2>3, <3>1 DEF Started
    <3>3. q = <<r, pc[r]>> <=> q[2] = pc[r]
      BY <2>1, <2>3
    <3>4. CASE Return(r)
      <4>1. pc'[r] = pc[r] + 1 /\ mode'[r] = "run"
        BY <1>1, <3>4 DEF Return
      <4>2. Started(q)' <=> q[2] < pc[r] + 1
        BY <2>1, <2>3, <4>1 DEF Started
      <4> QED
        BY <2>1, <3>1, <3>2, <3>3, <4>2
    <3>5. CASE Enter(r, "loop") \/ Enter(r, "poll")
      <4>1. pc'[r] = pc[r] /\ mode'[r] # "run"
        BY <1>1, <3>5 DEF Enter
      <4>2. Started(q)' <=> q[2] < pc[r] \/ q[2] = pc[r]
        BY <2>1, <2>3, <4>1 DEF Started
      <4> QED
        BY <3>2, <3>3, <4>2
    <3> QED
      BY <1>2, <3>4, <3>5
  <2> QED
    BY <2>2, <2>3
<1> QED
  BY <1>2, <1>3 DEF Return, Enter

\* A call that was made ends: nothing changes.
LEMMA EndsCall ==
  ASSUME TypeOK, NEW r \in Rank, EndLoop(r)
  PROVE  \A q \in Request : Started(q)' <=> Started(q)
<1>1. pc \in [Rank -> Nat \ {0}] /\ mode \in [Rank -> {"run", "loop", "poll", "polled"}]
  BY DEF TypeOK
<1>2. mode[r] # "run" /\ pc' = [pc EXCEPT ![r] = @ + 1] /\ mode' = [mode EXCEPT ![r] = "run"]
  BY DEF EndLoop
<1> SUFFICES ASSUME NEW q \in Request PROVE Started(q)' <=> Started(q)
  OBVIOUS
<1>3. q[1] \in Rank /\ q[2] \in Nat
  BY DEF Request
<1>4. CASE q[1] # r
  BY <1>1, <1>2, <1>3, <1>4 DEF Started
<1>5. CASE q[1] = r
  <2>1. pc[r] \in Nat /\ pc'[r] = pc[r] + 1 /\ mode'[r] = "run"
    BY <1>1, <1>2
  <2>2. Started(q) <=> q[2] < pc[r] \/ q[2] = pc[r]
    BY <1>2, <1>5 DEF Started
  <2>3. Started(q)' <=> q[2] < pc[r] + 1
    BY <1>5, <2>1 DEF Started
  <2> QED
    BY <1>3, <2>1, <2>2, <2>3
<1> QED
  BY <1>4, <1>5

\* A message is taken: nothing changes.
LEMMA TakesMessage ==
  ASSUME TypeOK, NEW r \in Rank, NEW m, Taken(r, m)
  PROVE  \A q \in Request : Started(q)' <=> Started(q)
<1>1. pc' = pc /\ mode \in [Rank -> {"run", "loop", "poll", "polled"}]
      /\ mode' = [mode EXCEPT ![r] = IF @ = "poll" THEN "polled" ELSE @]
  BY DEF TypeOK, Taken
<1>2. \A s \in Rank : mode'[s] = "run" <=> mode[s] = "run"
  BY <1>1
<1> QED
  BY <1>1, <1>2 DEF Started, Request

-----------------------------------------------------------------------------
(***************************************************************************)
(* Steps that match nothing                                                *)
(***************************************************************************)

\* No first message is new.
NoNewFirst ==
  \A o \in net' \cup held' :
    o \in net \cup held \/ (~Sequenced(o) /\ Fits(o) /\ Started(o.flow)')

\* Calls that were made stay made.
StartedGrows == \A q \in Request : Started(q) => Started(q)'

\* Nothing is left to match that was not there before, or the run aborted.
NothingNewToMatch ==
  aborted' = "no" =>
    /\ aborted = "no"
    /\ \A q \in Requests(SendOps) \cup Requests(RecvOps) : Started(q)' => Started(q)
    /\ \A m \in UnderWay : m \in net' \cup held' \/ ~AtOnce(m.flow)

LEMMA UnderWayShrinks ==
  ASSUME program' = program, NoNewFirst
  PROVE  UnderWay' \subseteq UnderWay
BY StableOrder DEF NoNewFirst, UnderWay

LEMMA OrderKept ==
  ASSUME TypeOK, OrderInv, program' = program, StartedGrows, NoNewFirst,
         NothingNewToMatch, PlaceInv',
         UNCHANGED <<need_recv_match, need_send_match, match>>
  PROVE  OrderInv'
<1>1. UnderWay' \subseteq UnderWay /\ Listed' = Listed
  BY UnderWayShrinks DEF Listed
<1>2. \A m \in net \cup held \cup Listed : m.flow \in Request
  BY RecordTypes
<1>3. /\ \A x \in match : x[1] \in Request /\ x[2] \in Request
      /\ \A q \in need_send_match : q \in Request
  BY RecordTypes
<1>4. StartedInv'
  <2>1. \A m \in net' \cup held' \cup Listed : Started(m.flow)'
    BY <1>2 DEF OrderInv, StartedInv, NoNewFirst, StartedGrows
  <2>2. \A q \in need_send_match : Started(q)' /\ CallOf(q).peer # ProcNull
    BY <1>3 DEF OrderInv, StartedInv, StartedGrows
  <2>3. \A x \in match : /\ Started(x[1])' /\ Started(x[2])' /\ CallOf(x[2]).peer # ProcNull
                         /\ x[2][1] = CallOf(x[1]).peer
    BY <1>3 DEF OrderInv, StartedInv, StartedGrows
  <2> QED
    BY <1>1, <2>1, <2>2, <2>3, StableOrder DEF StartedInv
<1>5. FitInv'
  BY <1>1, StableOrder DEF OrderInv, FitInv, NoNewFirst
<1>6. NumberInv'
  BY <1>1, StableOrder DEF OrderInv, NumberInv
<1>7. ListInv'
  BY StableOrder DEF OrderInv, ListInv
<1>8. SendInv'
  <2>1. \A f : SendMet(f)' = SendMet(f)
    BY DEF SendMet
  <2>2. ASSUME aborted' = "no", NEW f \in Requests(SendOps), Started(f)', AtOnce(f)
        PROVE  SendMet(f) \/ \E m \in (UnderWay \cup Listed)' : m.flow = f
    <3>1. aborted = "no" /\ Started(f)
      BY <2>2 DEF NothingNewToMatch
    <3>2. CASE SendMet(f)
      BY <3>2
    <3>3. ASSUME NEW m \in UnderWay, m.flow = f
          PROVE  m \in UnderWay'
      BY <2>2, <3>3, StableOrder DEF NothingNewToMatch, UnderWay
    <3> QED
      BY <1>1, <2>2, <3>1, <3>2, <3>3 DEF OrderInv, SendInv
  <2>3. \A m \in (UnderWay \cup Listed)' : AtOnce(m.flow) => ~SendMet(m.flow)
    BY <1>1 DEF OrderInv, SendInv
  <2> QED
    BY <2>1, <2>2, <2>3, StableOrder DEF SendInv
<1>9. RecvInv'
  <2>1. \A q : RecvMet(q)' = RecvMet(q)
    BY DEF RecvMet
  <2> QED
    BY <2>1, StableOrder DEF OrderInv, RecvInv, NothingNewToMatch
<1>10. YoungerInv'
  BY StableOrder DEF OrderInv, YoungerInv
<1> QED
  BY <1>4, <1>5, <1>6, <1>7, <1>8, <1>9, <1>10 DEF OrderInv

\* A send: its number is above all others of its kind, as is its place in
\* the program.
LEMMA OrderSend ==
  ASSUME TypeOK, SequenceInv, OrderInv, NEW r \in Rank, Send(r)
  PROVE  /\ OrderInv'
         /\ \A q \in Request : Started(q)' <=> Started(q) \/ q = <<r, pc[r]>>
         /\ ~Started(<<r, pc[r]>>)
         /\ <<r, pc[r]>> \in SendReq
         /\ UNCHANGED <<program, match>>
<1> DEFINE req  == <<r, pc[r]>>
           dest == CallOf(req).peer
           prot == ProtocolFor(CallOf(req))
           m    == [flow |-> req, stage |-> 0, seqnum |-> next_outbound[r][dest],
                    type |-> IF prot = DIRECT_PUT THEN "rdma_put_payload"
                                                  ELSE "smsg_send"]
           acks == IF prot = EAGER0 THEN {Ack(m, "payload_sent_ack")}
                   ELSE IF prot = DIRECT_PUT THEN {Ack(m, "rdma_put_sent_ack")}
                   ELSE {}
<1>1. /\ Calls(r, SendOps) /\ dest # ProcNull
      /\ net' = net \cup {m} \cup acks
      /\ held' = held
      /\ ReturnOrLoop(r, CallOf(req).op = "send")
      /\ UNCHANGED <<need_recv_match, need_send_match, match, aborted>>
  BY DEF Send, matchVars
<1>2. req \in SendReq /\ req \in Request /\ dest \in Rank /\ aborted = "no" /\ mode[r] = "run"
  <2>1. req \in SendReq /\ req \in Request
    BY <1>1, CurrentCall DEF SendOps, Ops
  <2> QED
    BY <1>1, <2>1 DEF SendReq, Calls
<1>3. program' = program /\ \A q \in Request : Started(q)' <=> Started(q) \/ q = req
  BY <1>1, <1>2, StartsCall
<1>4. /\ ~Started(req)
      /\ \A q \in Request : Started(q) /\ q[1] = r => q[2] < pc[r]
  BY <1>2, StartedSoFar
<1>5. \A o \in net \cup held \cup Listed : o.flow # req
  BY <1>4 DEF OrderInv, StartedInv
<1>6. /\ m.flow = req /\ m.stage = 0 /\ m.seqnum = next_outbound[r][dest]
      /\ Src(m) = r /\ Dst(m) = dest /\ Prot(m) = prot
      /\ m.type \in {"rdma_put_payload", "smsg_send"}
      /\ Sequenced(m)
  BY DEF Src, Dst, Prot, Sequenced, isNicAck, NicAcks
<1>7. Fits(m)
  BY <1>6 DEF Fits, EAGER0, EAGER1, RENDEZVOUS_GET, DIRECT_PUT
<1>8. \A o \in acks : o.flow = req /\ ~Sequenced(o) /\ Fits(o)
  BY DEF Ack, Reuse, Sequenced, isNicAck, NicAcks, Fits, Prot, EAGER0, EAGER1, RENDEZVOUS_GET, DIRECT_PUT
<1> HIDE DEF m, acks
<1>9. UnderWay' = UnderWay \cup {m} /\ Listed' = Listed
  BY <1>1, <1>3, <1>6, <1>8, StableOrder DEF UnderWay, Listed
<1>10. StartedInv'
  <2>1. /\ \A o \in net \cup held \cup Listed : o.flow \in Request
        /\ \A x \in match : x[1] \in Request /\ x[2] \in Request
        /\ \A q \in need_send_match : q \in Request
    BY RecordTypes
  <2>2. \A o \in (net \cup held \cup Listed)' : Started(o.flow)'
    BY <1>1, <1>2, <1>3, <1>6, <1>8, <1>9, <2>1 DEF OrderInv, StartedInv
  <2> QED
    BY <1>1, <1>3, <2>1, <2>2, StableOrder DEF OrderInv, StartedInv
<1>11. FitInv'
  BY <1>1, <1>3, <1>7, <1>8, <1>9, StableOrder DEF OrderInv, FitInv
<1>12. ASSUME NEW o \in UnderWay \cup Listed, Sequenced(o), Src(o) = r, Dst(o) = dest
       PROVE  o.seqnum < m.seqnum /\ o.flow[2] < m.flow[2] /\ o.seqnum \in Nat /\ m.seqnum \in Nat
                /\ o.flow[2] \in Nat /\ m.flow[2] \in Nat
  <2>1. /\ next_outbound \in [Rank -> [Rank -> Nat]]
        /\ next_inbound \in [Rank -> [Rank -> Nat]]
    BY DEF TypeOK
  <2>2. /\ o \in net \cup held \cup Listed /\ o.flow \in Request /\ o.seqnum \in Nat
        /\ o.flow[1] = r /\ o.flow[2] \in Nat
    BY <1>12, RecordTypes DEF UnderWay
  <2>3. o.flow[2] < pc[r]
    BY <1>4, <2>2 DEF OrderInv, StartedInv
  <2>4. o.seqnum < next_outbound[r][dest]
    <3>1. CASE o \in UnderWay
      BY <1>12, <3>1 DEF SequenceInv, NotCountedYet, UnderWay
    <3>2. CASE o \in Listed
      <4>1. PICK x \in Rank : \E k \in DOMAIN need_recv_match[x] : o = need_recv_match[x][k]
        BY <3>2, ListedEntry
      <4>2. x = dest /\ o.seqnum < next_inbound[dest][r]
        BY <1>12, <4>1 DEF SequenceInv, UnexpectedCounted
      <4>3. next_inbound[dest][r] <= next_outbound[r][dest]
        BY <1>2 DEF SequenceInv, CountersAgree
      <4>4. next_inbound[dest][r] \in Nat /\ next_outbound[r][dest] \in Nat
        BY <1>2, <2>1
      <4> QED
        BY <2>2, <4>2, <4>3, <4>4
    <3> QED
      BY <3>1, <3>2
  <2>5. next_outbound[r][dest] \in Nat /\ pc[r] \in Nat
    <3>1. pc[r] \in Nat
      BY DEF TypeOK
    <3> QED
      BY <1>2, <2>1, <3>1
  <2> QED
    BY <1>6, <2>2, <2>3, <2>4, <2>5
<1>13. NumberInv'
  <2> SUFFICES ASSUME NEW o \in UnderWay \cup Listed \cup {m}, NEW p \in UnderWay \cup Listed \cup {m},
                      Sequenced(o), Sequenced(p), Src(o) = Src(p), Dst(o) = Dst(p)
               PROVE  o.seqnum < p.seqnum <=> o.flow[2] < p.flow[2]
    BY <1>3, <1>9, StableOrder DEF NumberInv
  <2>1. CASE o \in UnderWay \cup Listed /\ p \in UnderWay \cup Listed
    BY <2>1 DEF OrderInv, NumberInv
  <2>2. CASE o \in UnderWay \cup Listed /\ p = m
    BY <1>6, <1>12, <2>2
  <2>3. CASE p \in UnderWay \cup Listed /\ o = m
    <3>1. p.seqnum < m.seqnum /\ p.flow[2] < m.flow[2]
          /\ p.seqnum \in Nat /\ m.seqnum \in Nat /\ p.flow[2] \in Nat /\ m.flow[2] \in Nat
      BY <1>6, <1>12, <2>3
    <3> QED
      BY <2>3, <3>1
  <2>4. CASE o = m /\ p = m
    <3>1. m.seqnum \in Nat /\ m.flow[2] \in Nat
      <4>1. next_outbound \in [Rank -> [Rank -> Nat]] /\ pc[r] \in Nat
        BY DEF TypeOK
      <4> QED
        BY <1>2, <1>6, <4>1
    <3> QED
      BY <2>4, <3>1
  <2> QED
    BY <2>1, <2>2, <2>3, <2>4
<1>14. ListInv'
  BY <1>1, <1>3, StableOrder DEF OrderInv, ListInv
<1>15. PlaceInv'
  <2>1. m \notin held
    BY <1>5, <1>6
  <2>2. \A o \in acks : o \notin held
    BY <1>5, <1>8
  <2> QED
    BY <1>1, <2>1, <2>2 DEF OrderInv, PlaceInv
<1>16. SendInv'
  <2>1. \A f : SendMet(f)' = SendMet(f)
    BY <1>1 DEF SendMet
  <2>2. ~SendMet(req)
    BY <1>4 DEF OrderInv, StartedInv, SendMet
  <2>3. ASSUME NEW f \in Requests(SendOps), Started(f)', AtOnce(f)
        PROVE  SendMet(f) \/ \E o \in (UnderWay \cup Listed)' : o.flow = f
    <3>1. f \in Request
      BY RequestSets DEF SendReq
    <3>2. CASE f = req
      BY <1>6, <1>9, <3>2
    <3>3. CASE f # req
      BY <1>2, <1>3, <1>9, <2>3, <3>1, <3>3 DEF OrderInv, SendInv
    <3> QED
      BY <3>2, <3>3
  <2>4. \A o \in (UnderWay \cup Listed)' : AtOnce(o.flow) => ~SendMet(o.flow)
    BY <1>6, <1>9, <2>2 DEF OrderInv, SendInv
  <2> QED
    BY <1>3, <2>1, <2>3, <2>4, StableOrder DEF SendInv
<1>17. RecvInv'
  <2>1. \A q : RecvMet(q)' = RecvMet(q)
    BY <1>1 DEF RecvMet
  <2>2. req \notin Requests(RecvOps)
    BY <1>2, RequestSets DEF SendReq, RecvReq, SendOps, RecvOps
  <2>3. \A q \in Requests(RecvOps) : q \in Request
    BY RequestSets DEF RecvReq
  <2> QED
    BY <1>1, <1>2, <1>3, <2>1, <2>2, <2>3, StableOrder DEF OrderInv, RecvInv
<1>18. YoungerInv'
  BY <1>1, <1>3, StableOrder DEF OrderInv, YoungerInv
<1> QED
  BY <1>1, <1>2, <1>3, <1>4, <1>10, <1>11, <1>13, <1>14, <1>15, <1>16, <1>17, <1>18 DEF OrderInv

-----------------------------------------------------------------------------
(***************************************************************************)
(* A match is made                                                         *)
(***************************************************************************)
LEMMA OrderMeets ==
  ASSUME TypeOK, OrderInv, program' = program, StartedGrows, NoNewFirst, PlaceInv',
         NEW f, NEW q, MeetsInOrder(f, q), Started(q)', aborted = "no",
         match' = match \cup {<<f, q>>},
         \A m \in UnderWay : m \in net' \cup held' \/ m.flow = f \/ ~AtOnce(m.flow),
         \A m \in Listed : m \in Listed' \/ m.flow = f,
         Listed' \subseteq Listed, ListInv',
         AtOnce(f) => \A m \in (UnderWay \cup Listed)' : m.flow # f,
         need_send_match' = need_send_match \ {q},
         \A p \in need_send_match' : p[1] = q[1] /\ matches(p, f) => q[2] < p[2],
         \A p \in Requests(SendOps) : Started(p)' => Started(p),
         \A p \in Requests(RecvOps) : Started(p)' => Started(p) \/ p = q
  PROVE  OrderInv'
<1>1. UnderWay' \subseteq UnderWay
  BY UnderWayShrinks
<1>2. \A m \in net \cup held \cup Listed : m.flow \in Request
  BY RecordTypes
<1>3. /\ \A x \in match : x[1] \in Request /\ x[2] \in Request
      /\ \A p \in need_send_match : p \in Request
  BY RecordTypes
<1>4. f \in SendReq /\ q \in RecvReq /\ f \in Request /\ q \in Request
  BY DEF MeetsInOrder, SendReq, RecvReq
<1>5. StartedInv'
  <2>1. \A m \in net' \cup held' \cup Listed' : Started(m.flow)'
    BY <1>2 DEF OrderInv, StartedInv, NoNewFirst, StartedGrows
  <2>2. \A p \in need_send_match' : Started(p)' /\ CallOf(p).peer # ProcNull
    BY <1>3 DEF OrderInv, StartedInv, StartedGrows
  <2>3. \A x \in match' : /\ Started(x[1])' /\ Started(x[2])' /\ CallOf(x[2]).peer # ProcNull
                          /\ x[2][1] = CallOf(x[1]).peer
    <3>1. \A x \in match : /\ Started(x[1])' /\ Started(x[2])' /\ CallOf(x[2]).peer # ProcNull
                           /\ x[2][1] = CallOf(x[1]).peer
      BY <1>3 DEF OrderInv, StartedInv, StartedGrows
    <3>2. Started(f)' /\ CallOf(q).peer # ProcNull /\ q[1] = CallOf(f).peer
      BY <1>4 DEF MeetsInOrder, StartedGrows
    <3> QED
      BY <3>1, <3>2
  <2> QED
    BY <2>1, <2>2, <2>3, StableOrder DEF StartedInv
<1>6. FitInv'
  BY StableOrder DEF OrderInv, FitInv, NoNewFirst
<1>7. NumberInv'
  BY <1>1, StableOrder DEF OrderInv, NumberInv
<1>8. \A g : SendMet(g)' <=> SendMet(g) \/ g = f
  <2>1. \A x \in match' : x \in match \/ x[1] = f
    OBVIOUS
  <2>2. <<f, q>> \in match' /\ <<f, q>>[1] = f /\ match \subseteq match'
    OBVIOUS
  <2>3. ASSUME NEW g PROVE SendMet(g)' => SendMet(g) \/ g = f
    BY <2>1 DEF SendMet
  <2>4. ASSUME NEW g PROVE SendMet(g) \/ g = f => SendMet(g)'
    BY <2>2, Zenon DEF SendMet
  <2> QED
    BY <2>3, <2>4
<1>9. \A p : RecvMet(p)' <=> RecvMet(p) \/ p = q
  <2>1. \A x \in match' : x \in match \/ x[2] = q
    OBVIOUS
  <2>2. <<f, q>> \in match' /\ <<f, q>>[2] = q /\ match \subseteq match'
    OBVIOUS
  <2>3. ASSUME NEW p PROVE RecvMet(p)' => RecvMet(p) \/ p = q
    BY <2>1 DEF RecvMet
  <2>4. ASSUME NEW p PROVE RecvMet(p) \/ p = q => RecvMet(p)'
    BY <2>2, Zenon DEF RecvMet
  <2> QED
    BY <2>3, <2>4
<1>10. SendInv'
  <2>1. ASSUME NEW g \in Requests(SendOps), Started(g)', AtOnce(g)
        PROVE  SendMet(g)' \/ \E m \in (UnderWay \cup Listed)' : m.flow = g
    <3>1. Started(g)
      BY <2>1
    <3>2. CASE SendMet(g)
      BY <1>8, <3>2
    <3>3. ASSUME NEW m \in UnderWay \cup Listed, m.flow = g, g # f
          PROVE  m \in (UnderWay \cup Listed)'
      BY <2>1, <3>3, StableOrder DEF UnderWay
    <3> QED
      BY <1>8, <2>1, <3>1, <3>2, <3>3 DEF OrderInv, SendInv
  <2>2. \A m \in (UnderWay \cup Listed)' : AtOnce(m.flow) => ~SendMet(m.flow)'
    BY <1>1, <1>8 DEF OrderInv, SendInv
  <2> QED
    BY <2>1, <2>2, StableOrder DEF SendInv
<1>11. RecvInv'
  BY <1>9, StableOrder DEF OrderInv, RecvInv
<1>12. YoungerInv'
  <2> SUFFICES ASSUME NEW x \in match', NEW p \in need_send_match',
                      p[1] = x[2][1], matches(p, x[1])
               PROVE  x[2][2] < p[2]
    BY StableOrder DEF YoungerInv
  <2>1. CASE x \in match
    BY <2>1 DEF OrderInv, YoungerInv
  <2>2. CASE x = <<f, q>>
    BY <2>2
  <2> QED
    BY <2>1, <2>2
<1> QED
  BY <1>5, <1>6, <1>7, <1>10, <1>11, <1>12 DEF OrderInv

\* A first message that is listed is not under way any more.
LEMMA ListedIsCounted ==
  ASSUME TypeOK, SequenceInv, OrderInv, NEW m \in Listed, AtOnce(m.flow),
         NEW o \in UnderWay, Src(o) = Src(m), Dst(o) = Dst(m)
  PROVE  m.flow[2] < o.flow[2]
<1>1. Sequenced(m) /\ Sequenced(o)
  BY DEF OrderInv, FitInv, UnderWay
<1>2. PICK r \in Rank : \E k \in DOMAIN need_recv_match[r] : m = need_recv_match[r][k]
  BY ListedEntry
<1>3. Dst(m) = r /\ m.seqnum < next_inbound[r][Src(m)]
  BY <1>1, <1>2 DEF SequenceInv, UnexpectedCounted
<1>4. next_inbound[r][Src(m)] <= o.seqnum
  BY <1>1, <1>3 DEF SequenceInv, NotCountedYet, UnderWay
<1>5. m.seqnum \in Nat /\ o.seqnum \in Nat /\ Src(m) \in Rank
  BY RecordTypes DEF UnderWay
<1>6. next_inbound[r][Src(m)] \in Nat
  <2>1. next_inbound \in [Rank -> [Rank -> Nat]]
    BY DEF TypeOK
  <2> QED
    BY <1>5, <2>1
<1>7. m.seqnum < o.seqnum
  BY <1>3, <1>4, <1>5, <1>6
<1> QED
  BY <1>1, <1>7 DEF OrderInv, NumberInv

\* Removing from a list keeps the order of the rest.
LEMMA RemoveNthOrder ==
  ASSUME NEW S, NEW s \in Seq(S), NEW k \in DOMAIN s
  PROVE  /\ \A i, j \in DOMAIN RemoveNth(s, k) : i < j =>
              \E u, v \in DOMAIN s : /\ u < v /\ u # k /\ v # k
                                     /\ RemoveNth(s, k)[i] = s[u] /\ RemoveNth(s, k)[j] = s[v]
         /\ \A i \in DOMAIN RemoveNth(s, k) :
              \E u \in DOMAIN s : u # k /\ RemoveNth(s, k)[i] = s[u]
         /\ \A u \in DOMAIN s : u # k =>
              \E i \in DOMAIN RemoveNth(s, k) : RemoveNth(s, k)[i] = s[u]
<1>1. Len(s) \in Nat /\ DOMAIN s = 1 .. Len(s) /\ k \in Nat
  OBVIOUS
<1>2. DOMAIN RemoveNth(s, k) = 1 .. (Len(s) - 1)
  BY DEF RemoveNth
<1> DEFINE old(i) == IF i < k THEN i ELSE i + 1
<1>3. ASSUME NEW i \in DOMAIN RemoveNth(s, k)
      PROVE  old(i) \in DOMAIN s /\ old(i) # k /\ RemoveNth(s, k)[i] = s[old(i)]
  BY <1>1, <1>2 DEF RemoveNth
<1>4. ASSUME NEW i \in DOMAIN RemoveNth(s, k), NEW j \in DOMAIN RemoveNth(s, k), i < j
      PROVE  old(i) < old(j)
  BY <1>1, <1>2, <1>4
<1>5. ASSUME NEW u \in DOMAIN s, u # k
      PROVE  \E i \in DOMAIN RemoveNth(s, k) : RemoveNth(s, k)[i] = s[u]
  <2> DEFINE i == IF u < k THEN u ELSE u - 1
  <2>1. i \in DOMAIN RemoveNth(s, k) /\ old(i) = u
    BY <1>1, <1>2, <1>5
  <2> HIDE DEF i, old
  <2> QED
    BY <1>3, <2>1
<1> HIDE DEF old
<1> QED
  BY <1>3, <1>4, <1>5

-----------------------------------------------------------------------------
(***************************************************************************)
(* MPI_Recv                                                                *)
(***************************************************************************)

\* The calls up to pc of rank r were made, now this one is too.
Makes(r) ==
  /\ program' = program /\ ~Started(<<r, pc[r]>>)
  /\ \A q \in Request : Started(q)' <=> Started(q) \/ q = <<r, pc[r]>>

\* A receive is posted because nothing that is listed matches it.
LEMMA OrderPost ==
  ASSUME TypeOK, OrderInv, NEW r \in Rank, mode[r] = "run", Makes(r),
         <<r, pc[r]>> \in RecvReq, CallOf(<<r, pc[r]>>).peer # ProcNull,
         need_send_match' = need_send_match \cup {<<r, pc[r]>>},
         UNCHANGED <<need_recv_match, match, net, held, aborted>>
  PROVE  OrderInv'
<1> DEFINE req == <<r, pc[r]>>
<1>0. program' = program /\ req \in Request
  BY DEF Makes, RecvReq
<1>1. UnderWay' = UnderWay /\ Listed' = Listed
  BY <1>0, StableOrder DEF UnderWay, Listed
<1>2. /\ \A m \in net \cup held \cup Listed : m.flow \in Request
      /\ \A x \in match : x[1] \in Request /\ x[2] \in Request
      /\ \A p \in need_send_match : p \in Request
  BY RecordTypes
<1>3. \A q \in Request : Started(q) => Started(q)'
  BY DEF Makes
<1>4. StartedInv'
  <2>1. \A m \in net \cup held \cup Listed : Started(m.flow)'
    BY <1>2, <1>3 DEF OrderInv, StartedInv
  <2>2. \A q \in need_send_match' : Started(q)' /\ CallOf(q).peer # ProcNull
    BY <1>0, <1>2, <1>3 DEF OrderInv, StartedInv, Makes
  <2>3. \A x \in match : /\ Started(x[1])' /\ Started(x[2])' /\ CallOf(x[2]).peer # ProcNull
                         /\ x[2][1] = CallOf(x[1]).peer
    BY <1>2, <1>3 DEF OrderInv, StartedInv
  <2> QED
    BY <1>0, <1>1, <2>1, <2>2, <2>3, StableOrder DEF StartedInv
<1>5. FitInv' /\ PlaceInv'
  BY <1>0, <1>1, StableOrder DEF OrderInv, FitInv, PlaceInv
<1>6. NumberInv' /\ ListInv'
  <2>1. NumberInv'
    BY <1>0, <1>1, StableOrder DEF OrderInv, NumberInv
  <2>2. ListInv'
    BY <1>0, StableOrder DEF OrderInv, ListInv
  <2> QED
    BY <2>1, <2>2
<1>7. SendInv'
  <2>1. \A f : SendMet(f)' = SendMet(f)
    BY DEF SendMet
  <2>2. req \notin Requests(SendOps)
    BY RequestSets DEF SendReq, RecvReq, SendOps, RecvOps
  <2>3. \A f \in Requests(SendOps) : f \in Request
    BY RequestSets DEF SendReq
  <2>4. \A f \in Requests(SendOps) : Started(f)' => Started(f)
    BY <2>2, <2>3 DEF Makes
  <2> QED
    BY <1>0, <1>1, <2>1, <2>4, StableOrder DEF OrderInv, SendInv
<1>8. RecvInv'
  <2>1. \A q : RecvMet(q)' = RecvMet(q)
    BY DEF RecvMet
  <2>2. ~RecvMet(req)
    BY DEF OrderInv, StartedInv, RecvMet, Makes
  <2>3. \A q \in Requests(RecvOps) : q \in Request
    BY RequestSets DEF RecvReq
  <2>4. \A q \in Requests(RecvOps) : Started(q)' => Started(q) \/ q = req
    BY <2>3 DEF Makes
  <2> QED
    BY <1>0, <2>1, <2>2, <2>4, StableOrder DEF OrderInv, RecvInv
<1>9. YoungerInv'
  <2> SUFFICES ASSUME NEW x \in match, NEW p \in need_send_match',
                      p[1] = x[2][1], matches(p, x[1])
               PROVE  x[2][2] < p[2]
    BY <1>0, StableOrder DEF YoungerInv
  <2>1. CASE p \in need_send_match
    BY <2>1 DEF OrderInv, YoungerInv
  <2>2. CASE p = req
    <3>1. x[2] \in Request /\ Started(x[2]) /\ x[2][1] = r
      BY <1>2, <2>2 DEF OrderInv, StartedInv
    <3>2. x[2][2] < pc[r]
      BY <3>1, StartedSoFar
    <3> QED
      BY <2>2, <3>2
  <2> QED
    BY <2>1, <2>2
<1> QED
  BY <1>4, <1>5, <1>6, <1>7, <1>8, <1>9 DEF OrderInv

\* The oldest listed message that matches is the oldest of its sender, and
\* no older receive waits for it.
LEMMA ListedMeetsInOrder ==
  ASSUME TypeOK, SequenceInv, NoMatchablePair, OrderInv, aborted = "no",
         NEW r \in Rank, mode[r] = "run",
         <<r, pc[r]>> \in RecvReq, CallOf(<<r, pc[r]>>).peer # ProcNull,
         NEW k \in unexpectedFor(<<r, pc[r]>>),
         \A i \in unexpectedFor(<<r, pc[r]>>) : k <= i
  PROVE  MeetsInOrder(need_recv_match[r][k].flow, <<r, pc[r]>>)
<1> DEFINE req == <<r, pc[r]>>
           m   == need_recv_match[r][k]
           f   == m.flow
<1>1. k \in DOMAIN need_recv_match[r] /\ matches(req, f)
  BY DEF unexpectedFor
<1>2. m \in Listed
  BY <1>1, ListedEntry
<1>3. f \in SendReq /\ f \in Request /\ Src(m) = f[1] /\ Dst(m) = CallOf(f).peer
  BY <1>2, RecordTypes
<1>4. Dst(m) = r /\ Started(f)
  BY <1>1, <1>2 DEF SequenceInv, UnexpectedCounted, OrderInv, StartedInv
<1>5. ~Started(req) /\ \A q \in Request : Started(q) /\ q[1] = r => q[2] < pc[r]
  BY StartedSoFar
<1>6. ~RecvMet(req) /\ (AtOnce(f) => ~SendMet(f))
  BY <1>2, <1>5 DEF OrderInv, StartedInv, SendInv, RecvMet
<1>7. ASSUME AtOnce(f), NEW g \in Requests(SendOps), Started(g), AtOnce(g), ~SendMet(g),
             g[1] = f[1], CallOf(g).peer = CallOf(f).peer, g[2] < f[2], matches(req, g)
      PROVE  FALSE
  <2>1. PICK o \in UnderWay \cup Listed : o.flow = g
    BY <1>7 DEF OrderInv, SendInv
  <2>2. /\ Src(o) = Src(m) /\ Dst(o) = Dst(m)
        /\ o.flow[2] \in Nat /\ m.flow[2] \in Nat
    BY <1>2, <1>3, <1>7, <2>1, RecordTypes DEF UnderWay
  <2>3. CASE o \in UnderWay
    <3>1. m.flow[2] < o.flow[2]
      BY <1>2, <1>7, <2>2, <2>3, ListedIsCounted
    <3> QED
      BY <1>7, <2>1, <2>2, <3>1
  <2>4. CASE o \in Listed
    <3>1. PICK x \in Rank : \E j \in DOMAIN need_recv_match[x] : o = need_recv_match[x][j]
      BY <2>4, ListedEntry
    <3>2. x = r
      BY <1>4, <2>2, <3>1 DEF SequenceInv, UnexpectedCounted
    <3>3. PICK j \in DOMAIN need_recv_match[r] : o = need_recv_match[r][j]
      BY <3>1, <3>2
    <3>4. j \in unexpectedFor(req)
      BY <1>7, <2>1, <3>3 DEF unexpectedFor
    <3>5. k \in Nat /\ j \in Nat
      <4>1. need_recv_match[r] \in Seq(Unexpected)
        BY DEF TypeOK
      <4> QED
        BY <1>1, <3>3, <4>1
    <3>6. k <= j /\ k # j
      BY <1>7, <2>1, <2>2, <3>3, <3>4
    <3>7. k < j
      BY <3>5, <3>6
    <3>8. m.flow[2] < o.flow[2]
      BY <1>1, <1>7, <2>1, <2>2, <3>3, <3>7 DEF OrderInv, ListInv
    <3> QED
      BY <1>7, <2>1, <2>2, <3>8
  <2> QED
    BY <2>1, <2>3, <2>4
<1>8. ASSUME NEW p \in Requests(RecvOps), Started(p), ~RecvMet(p), p[1] = r, matches(p, f)
      PROVE  FALSE
  <2>1. p \in need_send_match
    BY <1>8 DEF OrderInv, RecvInv
  <2> QED
    BY <1>1, <1>8, <2>1 DEF NoMatchablePair
<1>9. ASSUME NEW y \in match, y[2][1] = r
      PROVE  y[2][2] < pc[r]
  BY <1>5, <1>9, RecordTypes DEF OrderInv, StartedInv
<1> HIDE DEF f, m
<1> QED
  BY <1>1, <1>3, <1>4, <1>6, <1>7, <1>8, <1>9 DEF MeetsInOrder, f, m

\* A listed message leaves its list; the others stay in order.
LEMMA ListWithout ==
  ASSUME TypeOK, OrderInv, program' = program, NEW r \in Rank,
         NEW k \in DOMAIN need_recv_match[r],
         need_recv_match' = [need_recv_match EXCEPT ![r] = RemoveNth(@, k)]
  PROVE  /\ Listed' \subseteq Listed
         /\ \A o \in Listed : o \in Listed' \/ o = need_recv_match[r][k]
         /\ ListInv'
         /\ \A x \in Rank : \A j \in DOMAIN need_recv_match'[x] :
              \E u \in DOMAIN need_recv_match[x] :
                /\ need_recv_match'[x][j] = need_recv_match[x][u]
                /\ x = r => u # k
<1> DEFINE s == need_recv_match[r]
<1>1. s \in Seq(Unexpected) /\ need_recv_match \in [Rank -> Seq(Unexpected)]
  BY DEF TypeOK
<1>2. /\ need_recv_match'[r] = RemoveNth(s, k)
      /\ \A x \in Rank : x # r => need_recv_match'[x] = need_recv_match[x]
  BY <1>1
<1>3. /\ \A i, j \in DOMAIN RemoveNth(s, k) : i < j =>
           \E u, v \in DOMAIN s : /\ u < v /\ u # k /\ v # k
                                  /\ RemoveNth(s, k)[i] = s[u] /\ RemoveNth(s, k)[j] = s[v]
      /\ \A i \in DOMAIN RemoveNth(s, k) :
           \E u \in DOMAIN s : u # k /\ RemoveNth(s, k)[i] = s[u]
      /\ \A u \in DOMAIN s : u # k =>
           \E i \in DOMAIN RemoveNth(s, k) : RemoveNth(s, k)[i] = s[u]
  BY <1>1, RemoveNthOrder
<1>4. \A x \in Rank : \A j \in DOMAIN need_recv_match'[x] :
        \E u \in DOMAIN need_recv_match[x] :
          /\ need_recv_match'[x][j] = need_recv_match[x][u]
          /\ x = r => u # k
  BY <1>2, <1>3
<1>5. Listed' = UNION {{need_recv_match'[x][j] : j \in DOMAIN need_recv_match'[x]} : x \in Rank}
  BY DEF Listed
<1>6. Listed' \subseteq Listed
  BY <1>4, <1>5, ListedEntry
<1>7. ASSUME NEW o \in Listed, o # s[k]
      PROVE  o \in Listed'
  <2>1. PICK x \in Rank : \E j \in DOMAIN need_recv_match[x] : o = need_recv_match[x][j]
    BY ListedEntry
  <2>2. PICK j \in DOMAIN need_recv_match[x] : o = need_recv_match[x][j]
    BY <2>1
  <2>3. \E i \in DOMAIN need_recv_match'[x] : o = need_recv_match'[x][i]
    BY <1>2, <1>3, <1>7, <2>2
  <2> QED
    BY <1>5, <2>3
<1>8. ListInv'
  <2> SUFFICES ASSUME NEW x \in Rank,
                      NEW i \in DOMAIN need_recv_match'[x], NEW j \in DOMAIN need_recv_match'[x],
                      i < j, AtOnce(need_recv_match'[x][i].flow), AtOnce(need_recv_match'[x][j].flow),
                      Src(need_recv_match'[x][i]) = Src(need_recv_match'[x][j])
               PROVE  need_recv_match'[x][i].flow[2] < need_recv_match'[x][j].flow[2]
    BY StableOrder DEF ListInv
  <2>1. \E u, v \in DOMAIN need_recv_match[x] :
          /\ u < v
          /\ need_recv_match'[x][i] = need_recv_match[x][u]
          /\ need_recv_match'[x][j] = need_recv_match[x][v]
    BY <1>2, <1>3
  <2> QED
    BY <2>1 DEF OrderInv, ListInv
<1> QED
  BY <1>4, <1>6, <1>7, <1>8

\* The receive takes the oldest listed message that matches.
LEMMA OrderTake ==
  ASSUME TypeOK, SequenceInv, NoMatchablePair, OrderInv, aborted = "no",
         NEW r \in Rank, mode[r] = "run", Makes(r),
         <<r, pc[r]>> \in RecvReq, CallOf(<<r, pc[r]>>).peer # ProcNull,
         NEW k \in unexpectedFor(<<r, pc[r]>>),
         \A i \in unexpectedFor(<<r, pc[r]>>) : k <= i,
         need_recv_match' = [need_recv_match EXCEPT ![r] = RemoveNth(@, k)],
         NEW probes, IncomingMatched(need_recv_match[r][k], <<r, pc[r]>>, probes),
         UNCHANGED <<need_send_match, held>>
  PROVE  OrderInv'
<1>r. PICK req : req = <<r, pc[r]>>
  OBVIOUS
<1>m. PICK m : m = need_recv_match[r][k]
  OBVIOUS
<1>f. PICK f : f = m.flow
  OBVIOUS
<1>0. program' = program /\ req \in Request /\ req \in RecvReq /\ req[1] = r /\ mode[r] = "run"
  BY <1>r DEF Makes, RecvReq
<1>1. k \in DOMAIN need_recv_match[r] /\ matches(req, f)
  BY <1>r, <1>m, <1>f DEF unexpectedFor
<1>2. MeetsInOrder(f, req)
  BY <1>r, <1>m, <1>f, ListedMeetsInOrder
<1>3. m \in Listed /\ f \in Request /\ Started(f) /\ m \in Unexpected
  <2>1. m \in Listed
    BY <1>1, <1>m, ListedEntry
  <2>2. need_recv_match[r] \in Seq(Unexpected)
    BY DEF TypeOK
  <2> QED
    BY <1>1, <1>m, <1>f, <2>1, <2>2, RecordTypes DEF OrderInv, StartedInv
<1>4. /\ match' = match \cup {<<f, req>>}
      /\ net' = IF Prot(m) = RENDEZVOUS_GET THEN (net \ {m}) \cup {GetRequest(m)} ELSE net \ {m}
  BY <1>r, <1>m, <1>f DEF IncomingMatched
<1>5. StartedGrows
  BY DEF Makes, StartedGrows
<1>6. Prot(m) = RENDEZVOUS_GET =>
        /\ ~Sequenced(GetRequest(m)) /\ Fits(GetRequest(m)) /\ GetRequest(m).flow = f
  <2> SUFFICES ASSUME Prot(m) = RENDEZVOUS_GET
               PROVE  ~Sequenced(GetRequest(m)) /\ Fits(GetRequest(m)) /\ GetRequest(m).flow = f
    OBVIOUS
  <2>1. m.stage = 0
    BY <1>3 DEF Unexpected
  <2>2. GetRequest(m).flow = f /\ GetRequest(m).type = "rdma_get_request" /\ GetRequest(m).stage = 1
    BY <1>f, <2>1 DEF GetRequest, Reuse
  <2>3. Prot(GetRequest(m)) = RENDEZVOUS_GET
    BY <1>f, <2>2 DEF Prot
  <2> QED
    BY <2>2, <2>3 DEF Sequenced, Fits, EAGER0, EAGER1, RENDEZVOUS_GET, DIRECT_PUT
<1>7. Started(f)'
  BY <1>3, <1>5 DEF StartedGrows
<1>8. NoNewFirst
  BY <1>4, <1>6, <1>7 DEF NoNewFirst
<1>9. PlaceInv'
  BY <1>4, <1>6 DEF OrderInv, PlaceInv, SequenceInv, HeldAhead
<1>10. \A o \in UnderWay : o \in net' \cup held' \/ o.flow = f
  BY <1>4, <1>f DEF UnderWay
<1>11. /\ Listed' \subseteq Listed
       /\ \A o \in Listed : o \in Listed' \/ o = m
       /\ ListInv'
       /\ \A x \in Rank : \A j \in DOMAIN need_recv_match'[x] :
            \E u \in DOMAIN need_recv_match[x] :
              /\ need_recv_match'[x][j] = need_recv_match[x][u]
              /\ x = r => u # k
  <2>1. /\ Listed' \subseteq Listed
        /\ \A o \in Listed : o \in Listed' \/ o = need_recv_match[r][k]
        /\ ListInv'
        /\ \A x \in Rank : \A j \in DOMAIN need_recv_match'[x] :
             \E u \in DOMAIN need_recv_match[x] :
               /\ need_recv_match'[x][j] = need_recv_match[x][u]
               /\ x = r => u # k
    <3>1. /\ program' = program /\ k \in DOMAIN need_recv_match[r]
          /\ need_recv_match' = [need_recv_match EXCEPT ![r] = RemoveNth(@, k)]
      BY <1>0, <1>1
    <3> HIDE DEF TypeOK, OrderInv
    <3> QED
      BY ONLY TypeOK, OrderInv, r \in Rank, <3>1, ListWithout, Zenon
  <2> QED
    BY <2>1, <1>m
<1>12. \A o \in Listed : o \in Listed' \/ o.flow = f
  BY <1>11, <1>f
<1>13. ASSUME AtOnce(f), NEW o \in (UnderWay \cup Listed)', o.flow = f
       PROVE  FALSE
  <2>1. /\ o \in UnderWay \cup Listed
        /\ Src(o) = Src(m) /\ Dst(o) = Dst(m) /\ f[2] \in Nat
    BY <1>0, <1>3, <1>8, <1>11, <1>13, UnderWayShrinks, RecordTypes, <1>f DEF UnderWay
  <2>2. CASE o \in UnderWay
    <3>1. m.flow[2] < o.flow[2]
      BY <1>3, <1>13, <2>1, <2>2, ListedIsCounted, <1>f
    <3> QED
      BY <1>13, <2>1, <3>1, <1>f
  <2>3. CASE o \in Listed'
    <3>1. PICK x \in Rank : \E j \in DOMAIN need_recv_match'[x] : o = need_recv_match'[x][j]
      BY <2>3 DEF Listed
    <3>2. PICK u \in DOMAIN need_recv_match[x] : o = need_recv_match[x][u] /\ (x = r => u # k)
      BY <1>11, <3>1
    <3>3. x = r
      <4>1. Dst(m) = r /\ Dst(o) = x
        BY <1>1, <1>m, <3>2 DEF SequenceInv, UnexpectedCounted
      <4> QED
        BY <2>1, <4>1
    <3>4. u \in Nat /\ k \in Nat /\ u # k
      <4>1. need_recv_match[r] \in Seq(Unexpected)
        BY DEF TypeOK
      <4> QED
        BY <1>1, <3>2, <3>3, <4>1
    <3>5. CASE u < k
      <4>1. o.flow[2] < m.flow[2]
        BY <1>1, <1>13, <2>1, <3>2, <3>3, <3>5, <1>m, <1>f DEF OrderInv, ListInv
      <4> QED
        BY <1>13, <2>1, <4>1, <1>f
    <3>6. CASE k < u
      <4>1. m.flow[2] < o.flow[2]
        BY <1>1, <1>13, <2>1, <3>2, <3>3, <3>6, <1>m, <1>f DEF OrderInv, ListInv
      <4> QED
        BY <1>13, <2>1, <4>1, <1>f
    <3> QED
      BY <3>4, <3>5, <3>6
  <2>4. (UnderWay \cup Listed)' = UnderWay' \cup Listed' /\ UnderWay' \subseteq UnderWay
    BY <1>0, <1>8, UnderWayShrinks
  <2> QED
    BY <2>2, <2>3, <2>4
<1>14. need_send_match' = need_send_match \ {req}
  BY <1>r DEF OrderInv, StartedInv, Makes
<1>15. \A p \in need_send_match' : p[1] # r \/ ~matches(p, f)
  BY <1>1, <1>m, <1>f DEF NoMatchablePair
<1>16. /\ \A p \in Requests(SendOps) : Started(p)' => Started(p)
       /\ \A p \in Requests(RecvOps) : Started(p)' => Started(p) \/ p = req
       /\ Started(req)'
  <2>1. req \notin Requests(SendOps)
    BY <1>0, RequestSets DEF SendReq, RecvReq, SendOps, RecvOps
  <2>2. \A p \in Requests(SendOps) \cup Requests(RecvOps) : p \in Request
    BY RequestSets DEF RecvReq, SendReq
  <2> QED
    BY <1>0, <1>r, <2>1, <2>2 DEF Makes
<1> QED
  BY <1>0, <1>2, <1>4, <1>5, <1>8, <1>9, <1>10, <1>11, <1>12, <1>13, <1>14, <1>15, <1>16, OrderMeets

\* What MPI_Recv means for the matching: it fails, or it is posted, and then
\* it may meet its message at once.
RecvStep(r) ==
  \/ UNCHANGED <<program, pc, mode, match>>
  \/ /\ Makes(r)
     /\ <<r, pc[r]>> \in RecvReq /\ CallOf(<<r, pc[r]>>).peer # ProcNull
     /\ \/ match' = match
        \/ \E f : MeetsInOrder(f, <<r, pc[r]>>) /\ match' = match \cup {<<f, <<r, pc[r]>>>>}

LEMMA OrderRecv ==
  ASSUME TypeOK, SequenceInv, NoMatchablePair, OrderInv, NEW r \in Rank, Recv(r)
  PROVE  OrderInv' /\ RecvStep(r)
<1> DEFINE req == <<r, pc[r]>>
<1>1. /\ Calls(r, RecvOps) /\ CallOf(req).peer # ProcNull /\ UNCHANGED seqVars
      /\ aborted = "no" /\ mode[r] = "run"
  BY DEF Recv, Calls
<1>2. req \in RecvReq
  BY <1>1, CurrentCall DEF RecvOps, Ops
<1>3. ASSUME ReturnOrLoop(r, CallOf(req).op = "recv")
      PROVE  Makes(r)
  <2>1. \E b : ReturnOrLoop(r, b)
    BY <1>3
  <2>2. program' = program /\ \A q \in Request : Started(q)' <=> Started(q) \/ q = req
    BY <1>1, <2>1, StartsCall
  <2>3. ~Started(req)
    BY <1>1, StartedSoFar
  <2> QED
    BY <2>2, <2>3 DEF Makes
<1>4. CASE /\ need_send_match' = need_send_match \cup {req}
           /\ UNCHANGED <<need_recv_match, probelist, match, flowVars, complete,
                          net, aborted>>
           /\ ReturnOrLoop(r, CallOf(req).op = "recv")
  <2>1. OrderInv'
    BY <1>1, <1>2, <1>3, <1>4, OrderPost DEF seqVars
  <2> QED
    BY <1>1, <1>2, <1>3, <1>4, <2>1 DEF RecvStep
<1>5. ASSUME NEW k \in unexpectedFor(req), HandlerAbort(need_recv_match[r][k], "truncated"),
             UNCHANGED appVars
      PROVE  OrderInv' /\ RecvStep(r)
  <2>1. /\ UNCHANGED <<program, pc, mode, held, need_recv_match, need_send_match, match>>
        /\ net' \subseteq net /\ aborted' # "no"
    BY <1>1, <1>5 DEF HandlerAbort, appVars, seqVars, matchVars
  <2>2. StartedGrows
    BY <2>1 DEF StartedGrows, Started
  <2>3. NoNewFirst /\ NothingNewToMatch /\ PlaceInv'
    BY <2>1 DEF NoNewFirst, NothingNewToMatch, PlaceInv, OrderInv
  <2>4. OrderInv'
    BY <2>1, <2>2, <2>3, OrderKept
  <2> QED
    BY <2>1, <2>4 DEF RecvStep
<1>6. ASSUME NEW k \in unexpectedFor(req), \A i \in unexpectedFor(req) : k <= i,
             need_recv_match' = [need_recv_match EXCEPT ![r] = RemoveNth(@, k)],
             NEW probes, IncomingMatched(need_recv_match[r][k], req, probes),
             UNCHANGED need_send_match, ReturnOrLoop(r, CallOf(req).op = "recv")
      PROVE  OrderInv' /\ RecvStep(r)
  <2>1. Makes(r) /\ held' = held
    BY <1>1, <1>3, <1>6 DEF seqVars
  <2>2. OrderInv'
    BY <1>1, <1>2, <1>6, <2>1, OrderTake
  <2>3. MeetsInOrder(need_recv_match[r][k].flow, req)
    BY <1>1, <1>2, <1>6, ListedMeetsInOrder
  <2>4. match' = match \cup {<<need_recv_match[r][k].flow, req>>}
    BY <1>6 DEF IncomingMatched
  <2> QED
    BY <1>1, <1>2, <2>1, <2>2, <2>3, <2>4 DEF RecvStep
<1>7. \/ /\ need_send_match' = need_send_match \cup {req}
         /\ UNCHANGED <<need_recv_match, probelist, match, flowVars, complete,
                        net, aborted>>
         /\ ReturnOrLoop(r, CallOf(req).op = "recv")
      \/ \E k \in unexpectedFor(req) :
           /\ \A i \in unexpectedFor(req) : k <= i
           /\ \/ HandlerAbort(need_recv_match[r][k], "truncated") /\ UNCHANGED appVars
              \/ \E probes :
                   /\ need_recv_match' = [need_recv_match EXCEPT ![r] = RemoveNth(@, k)]
                   /\ IncomingMatched(need_recv_match[r][k], req, probes)
                   /\ UNCHANGED need_send_match
                   /\ ReturnOrLoop(r, CallOf(req).op = "recv")
  BY DEF Recv
<1> QED
  BY <1>4, <1>5, <1>6, <1>7

-----------------------------------------------------------------------------
(***************************************************************************)
(* What handling a message means for the matching: the run aborts, or the  *)
(* message is filed, meets a posted receive, or has nothing to do with it. *)
(***************************************************************************)
Fails ==
  /\ aborted' # "no"
  /\ UNCHANGED <<need_recv_match, need_send_match, match>>
Files(r, m) ==
  /\ postedFor(r, m) = {} /\ targetRank(m) = Dst(m)
  /\ AtOnce(m.flow) => Sequenced(m)
  /\ need_recv_match' = [need_recv_match EXCEPT ![r] = Append(@, m)]
  /\ UNCHANGED <<need_send_match, match, aborted>>
Meets(r, m, q) ==
  /\ q \in postedFor(r, m) /\ \A p \in postedFor(r, m) : q[2] <= p[2]
  /\ targetRank(m) = Dst(m)
  /\ AtOnce(m.flow) => Sequenced(m)
  /\ need_send_match' = need_send_match \ {q}
  /\ match' = match \cup {<<m.flow, q>>}
  /\ UNCHANGED <<need_recv_match, aborted>>
Passes(m) ==
  /\ Sequenced(m) => ~AtOnce(m.flow)
  /\ UNCHANGED <<need_recv_match, need_send_match, match, aborted>>
Outcome(r, m) ==
  Fails \/ Files(r, m) \/ (\E q : Meets(r, m, q)) \/ Passes(m)

\* m leaves the fabric, and only later messages of its flow are new.
Replaced(m) ==
  /\ net \ {m} \subseteq net'
  /\ \A o \in net' : o \in net \ {m} \/ (o.flow = m.flow /\ Fits(o) /\ ~Sequenced(o))

LEMMA FindOutcome ==
  ASSUME NEW r \in Rank, NEW m \in SentMessage, NEW probes,
         targetRank(m) = Dst(m), AtOnce(m.flow) => Sequenced(m),
         Prot(m) = RENDEZVOUS_GET => m.stage = 0,
         FindMatchingRecv(r, m, probes)
  PROVE  Outcome(r, m) /\ Replaced(m)
<1>1. /\ GetRequest(m).flow = m.flow /\ GetRequest(m).type = "rdma_get_request"
      /\ GetRequest(m).stage = m.stage + 1
  BY DEF GetRequest, Reuse
<1>2. Prot(m) = RENDEZVOUS_GET => ~Sequenced(GetRequest(m)) /\ Fits(GetRequest(m))
  <2>1. Prot(GetRequest(m)) = Prot(m)
    BY <1>1 DEF Prot
  <2> QED
    BY <1>1, <2>1 DEF Sequenced, Fits, EAGER0, EAGER1, RENDEZVOUS_GET, DIRECT_PUT
<1>3. CASE /\ postedFor(r, m) = {}
           /\ need_recv_match' = [need_recv_match EXCEPT ![r] = Append(@, m)]
           /\ net' = net \ {m}
           /\ UNCHANGED <<need_send_match, match, flowVars, aborted>>
  BY <1>3 DEF Outcome, Files, Replaced
<1>4. ASSUME NEW q \in postedFor(r, m), HandlerAbort(m, "truncated")
      PROVE  Outcome(r, m) /\ Replaced(m)
  BY <1>4 DEF HandlerAbort, matchVars, Outcome, Fails, Replaced
<1>5. ASSUME NEW q \in postedFor(r, m), \A p \in postedFor(r, m) : q[2] <= p[2],
             need_send_match' = need_send_match \ {q},
             IncomingMatched(m, q, probes), UNCHANGED need_recv_match
      PROVE  Outcome(r, m) /\ Replaced(m)
  <2>1. Meets(r, m, q)
    BY <1>5 DEF Meets, IncomingMatched
  <2>2. Replaced(m)
    BY <1>1, <1>2, <1>5 DEF IncomingMatched, Replaced
  <2> QED
    BY <2>1, <2>2 DEF Outcome
<1> QED
  BY <1>3, <1>4, <1>5 DEF FindMatchingRecv

LEMMA HandlerOutcome ==
  ASSUME NEW r \in Rank, NEW m \in SentMessage, Fits(m), HandlePt2ptMessage(r, m)
  PROVE  Outcome(r, m) /\ Replaced(m)
<1>1. WellStaged(m) /\ m.stage \in 0 .. 2
  BY MessageEnds DEF SentMessage
<1>2. AtOnce(m.flow) <=> Prot(m) # EAGER1
  BY DEF AtOnce, Prot
<1>3. ASSUME Drop(m), ~Sequenced(m)
      PROVE  Outcome(r, m) /\ Replaced(m)
  BY <1>3 DEF Drop, matchVars, Outcome, Passes, Replaced
<1>4. ASSUME IncomingSendAck(m), ~Sequenced(m)
      PROVE  Outcome(r, m) /\ Replaced(m)
  BY <1>4 DEF IncomingSendAck, HandlerAbort, matchVars, Outcome, Passes, Fails, Replaced
<1>5. CASE Prot(m) = EAGER0 /\ Eager0Incoming(r, m)
  <2>1. CASE m.type = "payload_sent_ack" /\ Drop(m)
    BY <1>3, <2>1 DEF Sequenced, isNicAck, NicAcks
  <2>2. CASE m.type = "smsg_send" /\ FindMatchingRecv(r, m, notifyProbes(r, m))
    <3>1. m.stage = 0 /\ targetRank(m) = Dst(m) /\ Sequenced(m) /\ Prot(m) # RENDEZVOUS_GET
      BY <1>1, <1>5, <2>2
      DEF WellStaged, targetRank, isNicAck, NicAcks, Sequenced, EAGER0, RENDEZVOUS_GET
    <3> QED
      BY <2>2, <3>1, FindOutcome
  <2> QED
    BY <1>5, <2>1, <2>2 DEF Eager0Incoming
<1>6. CASE Prot(m) = EAGER1 /\ Eager1Incoming(r, m)
  <2>1. CASE /\ m.type = "smsg_send" /\ net' = (net \ {m}) \cup {GetRequest(m)}
             /\ UNCHANGED <<matchVars, aborted>>
    <3>1. m.stage = 0
      BY <1>1, <1>6, <2>1 DEF WellStaged, EAGER1, RENDEZVOUS_GET
    <3>2. /\ GetRequest(m).flow = m.flow /\ GetRequest(m).type = "rdma_get_request"
          /\ GetRequest(m).stage = 1
      BY <3>1 DEF GetRequest, Reuse
    <3>3. Prot(GetRequest(m)) = EAGER1
      BY <1>6, <3>2 DEF Prot
    <3>4. ~Sequenced(GetRequest(m)) /\ Fits(GetRequest(m))
      BY <3>2, <3>3 DEF Sequenced, Fits, EAGER0, EAGER1, RENDEZVOUS_GET, DIRECT_PUT
    <3> QED
      BY <1>2, <1>6, <2>1, <3>2, <3>4 DEF matchVars, Outcome, Passes, Replaced
  <2>2. CASE m.type = "rdma_get_payload" /\ FindMatchingRecv(r, m, {})
    <3>1. targetRank(m) = Dst(m) /\ Prot(m) # RENDEZVOUS_GET /\ ~AtOnce(m.flow)
      BY <1>2, <1>6, <2>2 DEF targetRank, isNicAck, NicAcks, EAGER1, RENDEZVOUS_GET
    <3> QED
      BY <2>2, <3>1, FindOutcome
  <2>3. CASE m.type = "rdma_get_sent_ack" /\ Drop(m)
    BY <1>3, <2>3 DEF Sequenced, isNicAck, NicAcks
  <2> QED
    BY <1>6, <2>1, <2>2, <2>3 DEF Eager1Incoming
<1>7. CASE Prot(m) = RENDEZVOUS_GET /\ RendezvousIncoming(r, m)
  <2>1. CASE m.type = "smsg_send" /\ m.stage = 0 /\ FindMatchingRecv(r, m, notifyProbes(r, m))
    <3>1. targetRank(m) = Dst(m) /\ Sequenced(m)
      BY <2>1 DEF targetRank, isNicAck, NicAcks, Sequenced
    <3> QED
      BY <2>1, <3>1, FindOutcome
  <2>2. CASE m.type = "smsg_send" /\ m.stage > 0 /\ IncomingSendAck(m)
    BY <1>1, <1>4, <2>2 DEF Sequenced
  <2>3. CASE m.type = "rdma_get_payload" /\ RendezvousIncomingPayload(m)
    <3>1. m.stage = 1 /\ ~Sequenced(m)
      BY <1>1, <2>3 DEF WellStaged, Sequenced
    <3>2. CASE HandlerAbort(m, "no recv flow")
      BY <3>2 DEF HandlerAbort, matchVars, Outcome, Fails, Replaced
    <3>3. CASE /\ UNCHANGED <<matchVars, send_flows, aborted>>
               /\ net' = (net \ {m}) \cup
                           (IF SoftwareAck THEN {Reuse(m, "smsg_send", m.stage + 1)} ELSE {})
      <4> DEFINE ack == Reuse(m, "smsg_send", m.stage + 1)
      <4>1. ack.flow = m.flow /\ ack.type = "smsg_send" /\ ack.stage = 2
        BY <3>1 DEF Reuse
      <4>2. Prot(ack) = RENDEZVOUS_GET
        BY <1>7, <4>1 DEF Prot
      <4>3. ~Sequenced(ack) /\ Fits(ack)
        BY <4>1, <4>2 DEF Sequenced, Fits, EAGER0, EAGER1, RENDEZVOUS_GET, DIRECT_PUT
      <4> HIDE DEF ack
      <4> QED
        BY <3>1, <3>3, <4>1, <4>3 DEF matchVars, Outcome, Passes, Replaced, ack
    <3> QED
      BY <2>3, <3>2, <3>3 DEF RendezvousIncomingPayload
  <2>4. CASE m.type = "rdma_get_sent_ack" /\ IncomingSendAck(m)
    BY <1>4, <2>4 DEF Sequenced, isNicAck, NicAcks
  <2> QED
    BY <1>7, <2>1, <2>2, <2>3, <2>4 DEF RendezvousIncoming
<1>8. CASE Prot(m) = DIRECT_PUT /\ DirectPutIncoming(r, m)
  <2>1. CASE m.type = "rdma_put_payload" /\ FindMatchingRecv(r, m, {})
    <3>1. m.stage = 0 /\ targetRank(m) = Dst(m) /\ Sequenced(m) /\ Prot(m) # RENDEZVOUS_GET
      BY <1>1, <1>8, <2>1
      DEF WellStaged, targetRank, isNicAck, NicAcks, Sequenced, DIRECT_PUT, RENDEZVOUS_GET
    <3> QED
      BY <2>1, <3>1, FindOutcome
  <2>2. CASE m.type = "rdma_put_sent_ack" /\ IncomingSendAck(m)
    BY <1>4, <2>2 DEF Sequenced, isNicAck, NicAcks
  <2> QED
    BY <1>8, <2>1, <2>2 DEF DirectPutIncoming
<1> QED
  BY <1>5, <1>6, <1>7, <1>8 DEF HandlePt2ptMessage

\* The step that handles m, as far as the matching sees it.
Handles(r, m) ==
  /\ m \in net \cup held /\ targetRank(m) = r /\ aborted = "no"
  /\ Sequenced(m) => itsTurn(r, m)
  /\ held' = held \ {m} /\ program' = program
  /\ \A q \in Request : Started(q)' <=> Started(q)
  /\ Replaced(m)

LEMMA HandledGone ==
  ASSUME TypeOK, SequenceInv, OrderInv, NEW r \in Rank, NEW m, Handles(r, m)
  PROVE  /\ StartedGrows /\ NoNewFirst /\ PlaceInv'
         /\ \A o \in UnderWay : o \in net' \cup held' \/ o = m
         /\ UnderWay' \subseteq UnderWay /\ (Sequenced(m) => m \notin UnderWay')
         /\ \A q \in Requests(SendOps) \cup Requests(RecvOps) : Started(q)' => Started(q)
<1>1. StartedGrows
  BY DEF Handles, StartedGrows
<1>2. m.flow \in Request /\ Started(m.flow)
  BY RecordTypes DEF Handles, OrderInv, StartedInv
<1>3. Started(m.flow)'
  BY <1>1, <1>2 DEF StartedGrows
<1>4. NoNewFirst
  BY <1>3 DEF Handles, Replaced, NoNewFirst
<1>5. PlaceInv'
  BY DEF Handles, Replaced, OrderInv, PlaceInv, SequenceInv, HeldAhead
<1>6. \A o \in UnderWay : o \in net' \cup held' \/ o = m
  BY DEF Handles, Replaced, UnderWay
<1>7. UnderWay' \subseteq UnderWay
  BY <1>4, UnderWayShrinks DEF Handles
<1>8. Sequenced(m) => m \notin net' \cup held'
  BY DEF Handles, Replaced
<1>9. \A q \in Requests(SendOps) \cup Requests(RecvOps) : q \in Request
  BY RequestSets DEF SendReq, RecvReq
<1> QED
  BY <1>1, <1>4, <1>5, <1>6, <1>7, <1>8, <1>9 DEF UnderWay, Handles

\* The message is filed at the end of the list.
LEMMA OrderFile ==
  ASSUME TypeOK, SequenceInv, OrderInv, NEW r \in Rank, NEW m, Handles(r, m), Files(r, m)
  PROVE  OrderInv'
<1>1. /\ StartedGrows /\ NoNewFirst /\ PlaceInv'
      /\ \A o \in UnderWay : o \in net' \cup held' \/ o = m
      /\ UnderWay' \subseteq UnderWay
      /\ \A q \in Requests(SendOps) \cup Requests(RecvOps) : Started(q)' => Started(q)
  BY HandledGone
<1>2. /\ program' = program /\ aborted = "no" /\ m \in net \cup held
      /\ UNCHANGED <<need_send_match, match, aborted>>
      /\ need_recv_match' = [need_recv_match EXCEPT ![r] = Append(@, m)]
      /\ AtOnce(m.flow) => m \in UnderWay
      /\ Dst(m) = r
  BY DEF Handles, Files, UnderWay
<1>3. /\ \A o \in net \cup held \cup Listed : o.flow \in Request
      /\ \A x \in match : x[1] \in Request /\ x[2] \in Request
      /\ \A q \in need_send_match : q \in Request
  BY RecordTypes
<1>4. need_recv_match \in [Rank -> Seq(Unexpected)]
  BY DEF TypeOK
<1> DEFINE s == need_recv_match[r]
<1>5. /\ need_recv_match'[r] = Append(s, m)
      /\ \A x \in Rank : x # r => need_recv_match'[x] = need_recv_match[x]
  BY <1>2, <1>4
<1>6. /\ s \in Seq(Unexpected) /\ Len(s) \in Nat /\ DOMAIN s = 1 .. Len(s)
      /\ DOMAIN Append(s, m) = 1 .. (Len(s) + 1)
      /\ \A i \in 1 .. Len(s) : Append(s, m)[i] = s[i]
      /\ Append(s, m)[Len(s) + 1] = m
  BY <1>4
<1>7. \A o : o \in Listed' <=> \E x \in Rank : \E j \in DOMAIN need_recv_match'[x] :
                                 o = need_recv_match'[x][j]
  BY DEF Listed
<1>8. Listed' = Listed \cup {m}
  <2>1. ASSUME NEW o \in Listed PROVE o \in Listed'
    <3>1. PICK x \in Rank : \E j \in DOMAIN need_recv_match[x] : o = need_recv_match[x][j]
      BY ListedEntry
    <3>2. PICK j \in DOMAIN need_recv_match[x] : o = need_recv_match[x][j]
      BY <3>1
    <3>3. j \in DOMAIN need_recv_match'[x] /\ o = need_recv_match'[x][j]
      <4>1. CASE x = r
        BY <1>5, <1>6, <3>2, <4>1
      <4>2. CASE x # r
        BY <1>5, <3>2, <4>2
      <4> QED
        BY <4>1, <4>2
    <3> QED
      BY <1>7, <3>3
  <2>2. m \in Listed'
    <3>1. Len(s) + 1 \in DOMAIN need_recv_match'[r] /\ m = need_recv_match'[r][Len(s) + 1]
      BY <1>5, <1>6
    <3> QED
      BY <1>7, <3>1
  <2>3. ASSUME NEW o \in Listed' PROVE o \in Listed \cup {m}
    <3>1. PICK x \in Rank : \E j \in DOMAIN need_recv_match'[x] : o = need_recv_match'[x][j]
      BY <1>7
    <3>2. PICK j \in DOMAIN need_recv_match'[x] : o = need_recv_match'[x][j]
      BY <3>1
    <3>3. CASE x # r
      BY <1>5, <3>2, <3>3, ListedEntry
    <3>4. CASE x = r
      <4>1. j \in DOMAIN s \/ j = Len(s) + 1
        BY <1>5, <1>6, <3>2, <3>4
      <4> QED
        BY <1>5, <1>6, <3>2, <3>4, <4>1, ListedEntry
    <3> QED
      BY <3>3, <3>4
  <2> QED
    BY <2>1, <2>2, <2>3
<1>9. StartedInv'
  <2>1. \A o \in net' \cup held' \cup Listed' : Started(o.flow)'
    BY <1>1, <1>2, <1>3, <1>8 DEF OrderInv, StartedInv, NoNewFirst, StartedGrows
  <2>2. \A q \in need_send_match : Started(q)' /\ CallOf(q).peer # ProcNull
    BY <1>1, <1>3 DEF OrderInv, StartedInv, StartedGrows
  <2>3. \A x \in match : /\ Started(x[1])' /\ Started(x[2])' /\ CallOf(x[2]).peer # ProcNull
                         /\ x[2][1] = CallOf(x[1]).peer
    BY <1>1, <1>3 DEF OrderInv, StartedInv, StartedGrows
  <2> QED
    BY <1>2, <2>1, <2>2, <2>3, StableOrder DEF StartedInv
<1>10. FitInv'
  <2>1. \A o \in net' \cup held' : Fits(o)
    BY <1>1 DEF OrderInv, FitInv, NoNewFirst
  <2>2. \A o \in Listed' : AtOnce(o.flow) => Sequenced(o)
    BY <1>2, <1>8 DEF OrderInv, FitInv, UnderWay
  <2> QED
    BY <1>2, <2>1, <2>2, StableOrder DEF FitInv
<1>11. NumberInv'
  <2>1. \A o \in (UnderWay \cup Listed)' : o \in UnderWay \cup Listed \/ ~Sequenced(o)
    BY <1>1, <1>2, <1>8 DEF UnderWay
  <2> QED
    BY <1>2, <2>1, StableOrder DEF OrderInv, NumberInv
<1>12. ListInv'
  <2> SUFFICES ASSUME NEW x \in Rank,
                      NEW i \in DOMAIN need_recv_match'[x], NEW j \in DOMAIN need_recv_match'[x],
                      i < j, AtOnce(need_recv_match'[x][i].flow), AtOnce(need_recv_match'[x][j].flow),
                      Src(need_recv_match'[x][i]) = Src(need_recv_match'[x][j])
               PROVE  need_recv_match'[x][i].flow[2] < need_recv_match'[x][j].flow[2]
    BY <1>2, StableOrder DEF ListInv
  <2>1. CASE x # r
    BY <1>5, <2>1 DEF OrderInv, ListInv
  <2>2. CASE x = r /\ j # Len(s) + 1
    <3>1. i \in DOMAIN s /\ j \in DOMAIN s
      BY <1>5, <1>6, <2>2
    <3>2. need_recv_match'[x][i] = s[i] /\ need_recv_match'[x][j] = s[j]
      BY <1>5, <1>6, <2>2, <3>1
    <3> QED
      BY <2>2, <3>1, <3>2 DEF OrderInv, ListInv
  <2>3. CASE x = r /\ j = Len(s) + 1
    <3>1. i \in DOMAIN s
      BY <1>5, <1>6, <2>3
    <3>2. need_recv_match'[x][i] = s[i] /\ need_recv_match'[x][j] = m
      BY <1>5, <1>6, <2>3, <3>1
    <3>3. s[i] \in Listed /\ Dst(s[i]) = r
      BY <3>1, ListedEntry DEF SequenceInv, UnexpectedCounted
    <3>4. AtOnce(s[i].flow) /\ m \in UnderWay /\ Src(m) = Src(s[i]) /\ Dst(m) = Dst(s[i])
      BY <1>2, <3>2, <3>3
    <3>5. s[i].flow[2] < m.flow[2]
      BY <3>3, <3>4, ListedIsCounted
    <3> QED
      BY <3>2, <3>5
  <2> QED
    BY <2>1, <2>2, <2>3
<1>13. SendInv'
  <2>1. \A f : SendMet(f)' = SendMet(f)
    BY <1>2 DEF SendMet
  <2>2. ASSUME NEW f \in Requests(SendOps), Started(f)', AtOnce(f)
        PROVE  SendMet(f) \/ \E o \in (UnderWay \cup Listed)' : o.flow = f
    <3>1. \A o \in UnderWay : o \in UnderWay' \/ o = m
      BY <1>1, <1>2, StableOrder DEF UnderWay
    <3> QED
      BY <1>1, <1>2, <1>8, <2>2, <3>1 DEF OrderInv, SendInv
  <2>3. \A o \in (UnderWay \cup Listed)' : AtOnce(o.flow) => ~SendMet(o.flow)
    BY <1>1, <1>2, <1>8 DEF OrderInv, SendInv
  <2> QED
    BY <1>2, <2>1, <2>2, <2>3, StableOrder DEF SendInv
<1>14. RecvInv'
  <2>1. \A q : RecvMet(q)' = RecvMet(q)
    BY <1>2 DEF RecvMet
  <2> QED
    BY <1>1, <1>2, <2>1, StableOrder DEF OrderInv, RecvInv
<1>15. YoungerInv'
  BY <1>2, StableOrder DEF OrderInv, YoungerInv
<1> QED
  BY <1>1, <1>9, <1>10, <1>11, <1>12, <1>13, <1>14, <1>15 DEF OrderInv

\* A message whose turn has come meets the oldest receive that takes it, and
\* all that was sent before it is matched or does not fit.
LEMMA HandledMeetsInOrder ==
  ASSUME TypeOK, SequenceInv, NoMatchablePair, OrderInv, NEW r \in Rank, NEW m, NEW q,
         Handles(r, m), Meets(r, m, q)
  PROVE  MeetsInOrder(m.flow, q) /\ Started(q) /\ q \in need_send_match /\ q[1] = r
<1>f. PICK f : f = m.flow
  OBVIOUS
<1>1. /\ q \in need_send_match /\ q[1] = r /\ matches(q, f)
      /\ \A p \in postedFor(r, m) : q[2] <= p[2]
      /\ m \in net \cup held /\ aborted = "no" /\ Dst(m) = r
      /\ Sequenced(m) => itsTurn(r, m)
      /\ AtOnce(f) => m \in UnderWay
  BY <1>f DEF Handles, Meets, postedFor, UnderWay
<1>2. q \in RecvReq /\ q \in Request /\ q[2] \in Nat /\ Started(q) /\ CallOf(q).peer # ProcNull
  BY <1>1, RecordTypes DEF OrderInv, StartedInv
<1>3. /\ f \in SendReq /\ f \in Request /\ Started(f) /\ CallOf(f).peer = r /\ f[2] \in Nat
      /\ Src(m) = f[1] /\ m.seqnum \in Nat
  BY <1>1, <1>f, RecordTypes DEF OrderInv, StartedInv
<1>4. ~RecvMet(q) /\ (AtOnce(f) => ~SendMet(f))
  BY <1>1, <1>f DEF OrderInv, RecvInv, SendInv
<1>5. ASSUME AtOnce(f), NEW g \in Requests(SendOps), Started(g), AtOnce(g), ~SendMet(g),
             g[1] = f[1], CallOf(g).peer = CallOf(f).peer, g[2] < f[2], matches(q, g)
      PROVE  FALSE
  <2>1. PICK o \in UnderWay \cup Listed : o.flow = g
    BY <1>1, <1>5 DEF OrderInv, SendInv
  <2>2. Src(o) = Src(m) /\ Dst(o) = Dst(m) /\ o.seqnum \in Nat /\ Src(m) \in Rank
    BY <1>1, <1>3, <1>5, <1>f, <2>1, RecordTypes DEF UnderWay
  <2>3. CASE o \in UnderWay
    <3>1. Sequenced(o) /\ Sequenced(m) /\ m \in UnderWay
      BY <1>1, <1>5, <2>3 DEF UnderWay
    <3>2. o.seqnum < m.seqnum
      BY <1>5, <1>f, <2>1, <2>2, <2>3, <3>1 DEF OrderInv, NumberInv
    <3>3. m.seqnum = next_inbound[r][Src(m)]
      BY <1>1, <3>1 DEF itsTurn
    <3>4. next_inbound[r][Src(m)] <= o.seqnum
      BY <1>1, <2>2, <2>3, <3>1 DEF SequenceInv, NotCountedYet, UnderWay
    <3> QED
      BY <1>3, <2>2, <3>2, <3>3, <3>4
  <2>4. CASE o \in Listed
    <3>1. PICK x \in Rank : \E j \in DOMAIN need_recv_match[x] : o = need_recv_match[x][j]
      BY <2>4, ListedEntry
    <3>2. x = r
      BY <1>1, <2>2, <3>1 DEF SequenceInv, UnexpectedCounted
    <3> QED
      BY <1>1, <1>5, <2>1, <3>1, <3>2 DEF NoMatchablePair
  <2> QED
    BY <2>3, <2>4
<1>6. ASSUME NEW p \in Requests(RecvOps), Started(p), ~RecvMet(p), p[1] = q[1], p[2] < q[2],
             matches(p, f)
      PROVE  FALSE
  <2>1. p \in need_send_match
    BY <1>1, <1>6 DEF OrderInv, RecvInv
  <2>2. p \in postedFor(r, m) /\ p[2] \in Nat
    BY <1>1, <1>6, <1>f, <2>1, RecordTypes DEF postedFor
  <2> QED
    BY <1>1, <1>2, <1>6, <2>2
<1>7. \A y \in match : y[2][1] = q[1] /\ matches(q, y[1]) => y[2][2] < q[2]
  BY <1>1 DEF OrderInv, YoungerInv
<1>8. MeetsInOrder(f, q)
  BY <1>1, <1>2, <1>3, <1>4, <1>5, <1>6, <1>7 DEF MeetsInOrder
<1> QED
  BY <1>1, <1>2, <1>8, <1>f

LEMMA OrderMeet ==
  ASSUME TypeOK, SequenceInv, NoMatchablePair, OrderInv, NEW r \in Rank, NEW m, NEW q,
         Handles(r, m), Meets(r, m, q)
  PROVE  OrderInv'
<1>f. PICK f : f = m.flow
  OBVIOUS
<1>1. /\ StartedGrows /\ NoNewFirst /\ PlaceInv'
      /\ \A o \in UnderWay : o \in net' \cup held' \/ o = m
      /\ UnderWay' \subseteq UnderWay /\ (Sequenced(m) => m \notin UnderWay')
      /\ \A p \in Requests(SendOps) \cup Requests(RecvOps) : Started(p)' => Started(p)
  BY HandledGone
<1>2. MeetsInOrder(f, q) /\ Started(q) /\ q \in need_send_match /\ q[1] = r
  BY HandledMeetsInOrder, <1>f
<1>3. /\ program' = program /\ aborted = "no" /\ m \in net \cup held
      /\ match' = match \cup {<<f, q>>} /\ need_recv_match' = need_recv_match
      /\ need_send_match' = need_send_match \ {q}
      /\ AtOnce(f) => m \in UnderWay /\ Sequenced(m)
      /\ \A p \in postedFor(r, m) : q[2] <= p[2]
  BY <1>f DEF Handles, Meets, UnderWay
<1>4. q \in Request /\ q[2] \in Nat /\ \A p \in need_send_match : p \in Request /\ p[2] \in Nat
  BY <1>2, RecordTypes
<1>5. Started(q)'
  BY <1>1, <1>2, <1>4 DEF StartedGrows
<1>6. Listed' = Listed /\ ListInv'
  BY <1>3, StableOrder DEF Listed, OrderInv, ListInv
<1>7. ASSUME AtOnce(f), NEW o \in UnderWay' \cup Listed, o.flow = f
      PROVE  FALSE
  <2>1. /\ Src(o) = Src(m) /\ Dst(o) = Dst(m) /\ f[2] \in Nat
        /\ o.seqnum \in Nat /\ m.seqnum \in Nat
    BY <1>1, <1>3, <1>7, <1>f, RecordTypes DEF UnderWay
  <2>2. CASE o \in UnderWay'
    <3>1. o \in UnderWay /\ m \in UnderWay /\ Sequenced(o) /\ Sequenced(m)
      BY <1>1, <1>3, <1>7, <2>2 DEF UnderWay
    <3>2. ~(o.seqnum < m.seqnum) /\ ~(m.seqnum < o.seqnum)
      BY <1>7, <1>f, <2>1, <3>1 DEF OrderInv, NumberInv
    <3>3. o.seqnum = m.seqnum
      BY <2>1, <3>2
    <3>4. o = m
      BY <2>1, <3>1, <3>3 DEF SequenceInv, NumbersUnique, UnderWay
    <3> QED
      BY <1>1, <2>2, <3>1, <3>4
  <2>3. CASE o \in Listed
    <3>1. o.flow[2] < m.flow[2]
      BY <1>3, <1>7, <2>1, <2>3, ListedIsCounted
    <3> QED
      BY <1>7, <1>f, <2>1, <3>1
  <2> QED
    BY <1>7, <2>2, <2>3
<1>8. ASSUME NEW p \in need_send_match', p[1] = q[1], matches(p, f)
      PROVE  q[2] < p[2]
  <2>1. p \in postedFor(r, m) /\ p # q /\ p \in Request
    BY <1>2, <1>3, <1>4, <1>8, <1>f DEF postedFor
  <2>2. p[2] # q[2]
    BY <1>4, <1>8, <2>1 DEF Request
  <2> QED
    BY <1>3, <1>4, <2>1, <2>2
<1>9. \A o \in UnderWay : o \in net' \cup held' \/ o.flow = f
  BY <1>1, <1>f
<1>10. (UnderWay \cup Listed)' = UnderWay' \cup Listed
  BY <1>6
<1> QED
  BY <1>1, <1>2, <1>3, <1>5, <1>6, <1>7, <1>8, <1>9, <1>10, OrderMeets

\* What a step may do to the matching.
MatchStep ==
  \/ match' = match
  \/ \E f, q : MeetsInOrder(f, q) /\ Started(q) /\ match' = match \cup {<<f, q>>}

LEMMA OrderHandled ==
  ASSUME TypeOK, SequenceInv, NoMatchablePair, OrderInv, NEW r \in Rank, NEW m,
         Handles(r, m), Outcome(r, m)
  PROVE  OrderInv' /\ MatchStep
<1>1. CASE Files(r, m)
  BY <1>1, OrderFile DEF Files, MatchStep
<1>2. ASSUME NEW q, Meets(r, m, q)
      PROVE  OrderInv' /\ MatchStep
  <2>1. OrderInv'
    BY <1>2, OrderMeet
  <2>2. MeetsInOrder(m.flow, q) /\ Started(q)
    BY <1>2, HandledMeetsInOrder
  <2> QED
    BY <1>2, <2>1, <2>2 DEF Meets, MatchStep
<1>3. CASE Fails \/ Passes(m)
  <2>1. /\ StartedGrows /\ NoNewFirst /\ PlaceInv'
        /\ \A o \in UnderWay : o \in net' \cup held' \/ o = m
        /\ \A q \in Requests(SendOps) \cup Requests(RecvOps) : Started(q)' => Started(q)
    BY HandledGone
  <2>2. NothingNewToMatch
    BY <1>3, <2>1 DEF NothingNewToMatch, Fails, Passes, Handles, UnderWay
  <2>3. program' = program /\ UNCHANGED <<need_recv_match, need_send_match, match>>
    BY <1>3 DEF Handles, Fails, Passes
  <2>4. OrderInv'
    BY <2>1, <2>2, <2>3, OrderKept
  <2> QED
    BY <2>3, <2>4 DEF MatchStep
<1> QED
  BY <1>1, <1>2, <1>3 DEF Outcome

-----------------------------------------------------------------------------
(***************************************************************************)
(* Every step                                                              *)
(***************************************************************************)

\* A step makes a call, and then a receive may meet a message; or it makes
\* none, and a message may meet a receive.
CallMade(r) ==
  /\ Makes(r) /\ mode[r] = "run" /\ pc[r] \in DOMAIN program[r]
  /\ \/ match' = match
     \/ /\ <<r, pc[r]>> \in RecvReq
        /\ \E f : MeetsInOrder(f, <<r, pc[r]>>) /\ match' = match \cup {<<f, <<r, pc[r]>>>>}
NoCallMade ==
  /\ program' = program
  /\ \A q \in Request : Started(q)' <=> Started(q)
  /\ MatchStep
OrderedStep == NoCallMade \/ \E r \in Rank : CallMade(r)

LEMMA OrderSame ==
  ASSUME TypeOK, OrderInv, program' = program,
         \A q \in Request : Started(q)' <=> Started(q),
         UNCHANGED <<net, held, need_recv_match, need_send_match, match, aborted>>
  PROVE  OrderInv' /\ NoCallMade
<1>1. StartedGrows /\ NoNewFirst /\ PlaceInv'
  BY DEF StartedGrows, NoNewFirst, PlaceInv, OrderInv
<1>2. \A q \in Requests(SendOps) \cup Requests(RecvOps) : q \in Request
  BY RequestSets DEF SendReq, RecvReq
<1>3. NothingNewToMatch
  BY <1>2 DEF NothingNewToMatch, UnderWay
<1> QED
  BY <1>1, <1>3, OrderKept DEF NoCallMade, MatchStep

\* A call that neither sends nor receives.
LEMMA OrderCall ==
  ASSUME TypeOK, OrderInv, NEW r \in Rank, mode[r] = "run", pc[r] \in DOMAIN program[r],
         \/ program[r][pc[r]].op \notin SendOps \cup RecvOps
         \/ program[r][pc[r]].peer = ProcNull,
         Return(r) \/ Enter(r, "loop") \/ Enter(r, "poll"),
         UNCHANGED <<net, held, need_recv_match, need_send_match, match, aborted>>
  PROVE  OrderInv' /\ CallMade(r)
<1>r. PICK req : req = <<r, pc[r]>>
  OBVIOUS
<1>1. program' = program /\ \A q \in Request : Started(q)' <=> Started(q) \/ q = req
  BY <1>r, StartsCall
<1>2. ~Started(req)
  BY <1>r, StartedSoFar
<1>3. Makes(r)
  BY <1>1, <1>2, <1>r DEF Makes
<1>4. StartedGrows /\ NoNewFirst /\ PlaceInv'
  BY <1>1 DEF StartedGrows, NoNewFirst, PlaceInv, OrderInv
<1>5. req \notin Requests(SendOps) \cup Requests(RecvOps)
  <2>1. CallOf(req).op \notin SendOps \cup RecvOps \/ CallOf(req).peer = ProcNull
    BY <1>r DEF CallOf
  <2> QED
    BY <2>1, RequestSets, WildcardAssumption DEF SendReq, RecvReq
<1>6. \A q \in Requests(SendOps) \cup Requests(RecvOps) : q \in Request
  BY RequestSets DEF SendReq, RecvReq
<1>7. NothingNewToMatch
  BY <1>1, <1>5, <1>6 DEF NothingNewToMatch, UnderWay
<1>8. OrderInv'
  BY <1>1, <1>4, <1>7, OrderKept
<1> QED
  BY <1>3, <1>8 DEF CallMade

LEMMA OrderNicGet ==
  ASSUME TypeOK, SequenceInv, OrderInv, NEW m \in net, NicGet(m)
  PROVE  OrderInv' /\ NoCallMade
<1> DEFINE payload == Reuse(m, "rdma_get_payload", m.stage)
           ack     == Ack(m, "rdma_get_sent_ack")
<1>1. /\ aborted = "no" /\ m.type = "rdma_get_request"
      /\ net \ {m} \subseteq net' /\ net' \subseteq (net \ {m}) \cup {payload, ack}
      /\ UNCHANGED <<program, pc, mode, held, need_recv_match, need_send_match, match, aborted>>
  BY DEF NicGet, appVars, seqVars, matchVars
<1>2. m.stage = 1
  BY <1>1 DEF TypeOK, SentMessage, WellStaged
<1>3. /\ payload.flow = m.flow /\ payload.stage = 1 /\ payload.type = "rdma_get_payload"
      /\ ack.flow = m.flow /\ ack.stage = 1 /\ ack.type = "rdma_get_sent_ack"
  BY <1>2 DEF Ack, Reuse
<1> HIDE DEF payload, ack
<1>4. Prot(payload) = Prot(m) /\ Prot(ack) = Prot(m) /\ Prot(m) \notin {EAGER0, DIRECT_PUT}
  <2>1. Fits(m)
    BY DEF OrderInv, FitInv
  <2> QED
    BY <1>1, <1>3, <2>1 DEF Prot, Fits
<1>5. \A o \in {payload, ack} : ~Sequenced(o) /\ Fits(o) /\ o.flow = m.flow
  BY <1>3, <1>4 DEF Sequenced, Fits
<1>6. \A q : Started(q)' <=> Started(q)
  BY <1>1 DEF Started
<1>7. Started(m.flow)'
  BY <1>6 DEF OrderInv, StartedInv
<1>8. StartedGrows /\ NoNewFirst
  BY <1>1, <1>5, <1>6, <1>7 DEF StartedGrows, NoNewFirst
<1>9. PlaceInv'
  BY <1>1, <1>5 DEF OrderInv, PlaceInv, SequenceInv, HeldAhead
<1>10. NothingNewToMatch
  BY <1>1, <1>2, <1>6 DEF NothingNewToMatch, UnderWay, Sequenced
<1>11. OrderInv'
  BY <1>1, <1>8, <1>9, <1>10, OrderKept
<1> QED
  BY <1>1, <1>6, <1>11 DEF NoCallMade, MatchStep

\* A message that is handled when it is taken from the completion queue ...
LEMMA IncomingHandles ==
  ASSUME TypeOK, OrderInv, NEW r \in Rank, NEW m \in net, Taken(r, m),
         HandlePt2ptMessage(r, m), held' = held, Sequenced(m) => itsTurn(r, m)
  PROVE  Handles(r, m) /\ Outcome(r, m)
<1>1. /\ program' = program /\ targetRank(m) = r /\ aborted = "no"
      /\ m \in SentMessage /\ Fits(m) /\ m \notin held
  BY DEF Taken, Polling, TypeOK, OrderInv, FitInv, PlaceInv
<1>2. \A q \in Request : Started(q)' <=> Started(q)
  BY TakesMessage
<1>3. Outcome(r, m) /\ Replaced(m)
  BY <1>1, HandlerOutcome
<1> QED
  BY <1>1, <1>2, <1>3 DEF Handles

\* ... and one that is handled when it is taken from held_.
LEMMA DrainHandles ==
  ASSUME TypeOK, SequenceInv, OrderInv, NEW r \in Rank, DrainHeld(r)
  PROVE  \E m \in held : /\ HandlePt2ptMessage(r, m) /\ Handles(r, m) /\ Outcome(r, m)
                         /\ Sequenced(m)
                         /\ next_inbound' = [next_inbound EXCEPT ![r][Src(m)] = @ + 1]
<1>1. PICK m \in heldDue(held, drain[r], r, next_inbound[r][drain[r]]) :
        /\ HandlePt2ptMessage(r, m) /\ held' = held \ {m}
        /\ next_inbound' = [next_inbound EXCEPT ![r][Src(m)] = @ + 1]
  BY DEF DrainHeld
<1>2. /\ m \in held /\ Src(m) = drain[r] /\ Dst(m) = r
      /\ m.seqnum <= next_inbound[r][Src(m)]
  BY <1>1 DEF heldDue
<1>3. aborted = "no" /\ UNCHANGED <<program, pc, mode>>
  BY DEF DrainHeld
<1>4. m \in SentMessage /\ Fits(m) /\ Sequenced(m) /\ Src(m) \in Rank /\ m.seqnum \in Nat
  BY <1>2, MessageEnds DEF TypeOK, OrderInv, FitInv, SequenceInv, HeldAhead
<1>5. targetRank(m) = r
  BY <1>2, <1>4, SequencedTarget
<1>6. itsTurn(r, m)
  <2>1. next_inbound[r][Src(m)] <= m.seqnum
    BY <1>2, <1>4 DEF SequenceInv, NotCountedYet
  <2>2. next_inbound[r][Src(m)] \in Nat
    <3>1. next_inbound \in [Rank -> [Rank -> Nat]]
      BY DEF TypeOK
    <3> QED
      BY <1>4, <3>1
  <2> QED
    BY <1>2, <1>4, <2>1, <2>2 DEF itsTurn
<1>7. \A q : Started(q)' <=> Started(q)
  BY <1>3 DEF Started
<1>8. Outcome(r, m) /\ Replaced(m)
  BY <1>1, <1>4, HandlerOutcome
<1>9. Handles(r, m)
  BY <1>1, <1>2, <1>3, <1>5, <1>6, <1>7, <1>8 DEF Handles
<1> QED
  BY <1>1, <1>2, <1>4, <1>8, <1>9

LEMMA OrderIncoming ==
  ASSUME TypeOK, SequenceInv, NoMatchablePair, OrderInv,
         NEW r \in Rank, NEW m \in net, Incoming(r, m)
  PROVE  OrderInv' /\ NoCallMade
<1>1. Taken(r, m)
  BY DEF Incoming, IncomingStaged, IncomingInOrder, IncomingOutOfOrder
<1>2. program' = program /\ aborted = "no" /\ m \notin held
  BY <1>1 DEF Taken, Polling, OrderInv, PlaceInv
<1>3. \A q \in Request : Started(q)' <=> Started(q)
  BY <1>1, TakesMessage
<1>4. ASSUME HandlePt2ptMessage(r, m), held' = held, Sequenced(m) => itsTurn(r, m)
      PROVE  OrderInv' /\ NoCallMade
  <2>1. OrderInv' /\ MatchStep
    BY <1>1, <1>4, IncomingHandles, OrderHandled
  <2> QED
    BY <1>2, <1>3, <2>1 DEF NoCallMade
<1>5. CASE IncomingStaged(r, m) \/ IncomingInOrder(r, m)
  BY <1>4, <1>5 DEF IncomingStaged, IncomingInOrder
<1>6. CASE IncomingOutOfOrder(r, m)
  <2>1. \/ held' = held \cup {m} /\ aborted' = aborted
        \/ held' = held /\ aborted' # "no"
    BY <1>6 DEF IncomingOutOfOrder, HandlerAbort
  <2>2. net' = net \ {m} /\ UNCHANGED <<need_recv_match, need_send_match, match>>
    BY <1>6 DEF IncomingOutOfOrder, HandlerAbort, matchVars
  <2>3. StartedGrows /\ NoNewFirst /\ PlaceInv'
    BY <1>2, <1>3, <2>1, <2>2 DEF StartedGrows, NoNewFirst, PlaceInv, OrderInv
  <2>4. \A q \in Requests(SendOps) \cup Requests(RecvOps) : q \in Request
    BY RequestSets DEF SendReq, RecvReq
  <2>5. NothingNewToMatch
    BY <1>2, <1>3, <2>1, <2>2, <2>4 DEF NothingNewToMatch, UnderWay
  <2>6. OrderInv'
    BY <1>2, <2>2, <2>3, <2>5, OrderKept
  <2> QED
    BY <1>2, <1>3, <2>2, <2>6 DEF NoCallMade, MatchStep
<1> QED
  BY <1>5, <1>6 DEF Incoming

LEMMA OrderDrain ==
  ASSUME TypeOK, SequenceInv, NoMatchablePair, OrderInv, NEW r \in Rank, DrainHeld(r)
  PROVE  OrderInv' /\ NoCallMade
<1>1. OrderInv' /\ MatchStep
  BY DrainHandles, OrderHandled
<1>2. UNCHANGED <<program, pc, mode>>
  BY DEF DrainHeld
<1> QED
  BY <1>1, <1>2 DEF NoCallMade, Started

LEMMA OrderStep ==
  TypeOK /\ SequenceInv /\ NoMatchablePair /\ OrderInv /\ [Next]_vars => OrderInv' /\ OrderedStep
<1> SUFFICES ASSUME TypeOK, SequenceInv, NoMatchablePair, OrderInv, [Next]_vars
             PROVE  OrderInv' /\ OrderedStep
  OBVIOUS
<1>1. CASE UNCHANGED vars
  <2>1. \A q : Started(q)' <=> Started(q)
    BY <1>1 DEF vars, Started
  <2> QED
    BY <1>1, <2>1, OrderSame DEF vars, OrderedStep
<1>2. ASSUME NEW r \in Rank, AppCall(r) PROVE OrderInv' /\ OrderedStep
  <2>1. CASE Send(r)
    <3>1. mode[r] = "run" /\ pc[r] \in DOMAIN program[r]
      BY <2>1 DEF Send, Calls
    <3>2. OrderInv' /\ Makes(r) /\ match' = match
      BY <2>1, OrderSend DEF Makes
    <3> QED
      BY <3>1, <3>2 DEF OrderedStep, CallMade
  <2>2. CASE Recv(r)
    <3>1. mode[r] = "run" /\ pc[r] \in DOMAIN program[r]
      BY <2>2 DEF Recv, Calls
    <3>2. OrderInv' /\ RecvStep(r)
      BY <2>2, OrderRecv
    <3>3. CASE UNCHANGED <<program, pc, mode, match>>
      <4>1. \A q : Started(q)' <=> Started(q)
        BY <3>3 DEF Started
      <4> QED
        BY <3>2, <3>3, <4>1 DEF OrderedStep, NoCallMade, MatchStep
    <3> QED
      BY <3>1, <3>2, <3>3 DEF RecvStep, OrderedStep, CallMade
  <2>3. CASE ProcNullCall(r)
    <3>1. /\ mode[r] = "run" /\ pc[r] \in DOMAIN program[r]
          /\ program[r][pc[r]].peer = ProcNull /\ Return(r)
          /\ UNCHANGED <<net, held, need_recv_match, need_send_match, match, aborted>>
      BY <2>3 DEF ProcNullCall, Calls, seqVars, matchVars
    <3> QED
      BY <3>1, OrderCall DEF OrderedStep
  <2>4. CASE Probe(r) \/ Iprobe(r) \/ Test(r) \/ Wait(r)
    <3>1. /\ mode[r] = "run" /\ pc[r] \in DOMAIN program[r]
          /\ program[r][pc[r]].op \notin SendOps \cup RecvOps
          /\ Return(r) \/ Enter(r, "loop") \/ Enter(r, "poll")
          /\ UNCHANGED <<net, held, need_recv_match, need_send_match, match, aborted>>
      BY <2>4 DEF Probe, Iprobe, Test, Wait, Calls, seqVars, matchVars, SendOps, RecvOps
    <3> QED
      BY <3>1, OrderCall DEF OrderedStep
  <2> QED
    BY <1>2, <2>1, <2>2, <2>3, <2>4 DEF AppCall
<1>3. ASSUME NEW r \in Rank, EndLoop(r) PROVE OrderInv' /\ OrderedStep
  <2>1. UNCHANGED <<program, net, held, need_recv_match, need_send_match, match, aborted>>
    BY <1>3 DEF EndLoop, seqVars, matchVars
  <2> QED
    BY <1>3, <2>1, EndsCall, OrderSame DEF OrderedStep
<1>4. ASSUME NEW r \in Rank, FinalizeBarrier(r) PROVE OrderInv' /\ OrderedStep
  <2>1. UNCHANGED <<program, pc, mode, net, held, need_recv_match, need_send_match, match, aborted>>
    BY <1>4 DEF FinalizeBarrier, appVars, seqVars, matchVars
  <2>2. \A q : Started(q)' <=> Started(q)
    BY <2>1 DEF Started
  <2> QED
    BY <2>1, <2>2, OrderSame DEF OrderedStep
<1>5. ASSUME NEW r \in Rank, DrainHeld(r) PROVE OrderInv' /\ OrderedStep
  BY <1>5, OrderDrain DEF OrderedStep
<1>6. ASSUME NEW m \in net, NicGet(m) PROVE OrderInv' /\ OrderedStep
  BY <1>6, OrderNicGet DEF OrderedStep
<1>7. ASSUME NEW r \in Rank, NEW m \in net, Incoming(r, m) PROVE OrderInv' /\ OrderedStep
  BY <1>7, OrderIncoming DEF OrderedStep
<1> QED
  BY <1>1, <1>2, <1>3, <1>4, <1>5, <1>6, <1>7 DEF Next

\* At first no call was made.
LEMMA StartedNothing ==
  Init => \A q \in Requests(SendOps) \cup Requests(RecvOps) : ~Started(q)
<1> SUFFICES ASSUME Init
             PROVE  \A q \in Requests(SendOps) \cup Requests(RecvOps) : ~Started(q)
  OBVIOUS
<1>1. \A q \in Requests(SendOps) \cup Requests(RecvOps) :
        q \in Request /\ q[2] \in DOMAIN program[q[1]]
  BY TypeInit, RequestSets DEF SendReq, RecvReq
<1>2. \A q \in Request : q[2] \in DOMAIN program[q[1]] => q[1] \in Rank /\ q[2] \in Nat /\ q[2] >= 1
  <2>1. program \in [Rank -> Seq(Call)]
    BY TypeInit DEF TypeOK
  <2> QED
    BY <2>1 DEF Request
<1>3. \A r \in Rank : pc[r] = 1 /\ mode[r] = "run"
  BY DEF Init
<1> QED
  BY <1>1, <1>2, <1>3 DEF Started

LEMMA OrderInit == Init => OrderInv
<1> SUFFICES ASSUME Init PROVE OrderInv
  OBVIOUS
<1>1. /\ net = {} /\ held = {} /\ need_send_match = {} /\ match = {}
      /\ \A r \in Rank : need_recv_match[r] = <<>> /\ pc[r] = 1 /\ mode[r] = "run"
  BY DEF Init
<1>2. Listed = {} /\ UnderWay = {}
  BY <1>1 DEF Listed, UnderWay
<1>3. \A q \in Requests(SendOps) \cup Requests(RecvOps) : ~Started(q)
  BY StartedNothing
<1>4. StartedInv /\ FitInv /\ NumberInv /\ PlaceInv
  BY <1>1, <1>2 DEF StartedInv, FitInv, NumberInv, PlaceInv
<1>5. ListInv
  BY <1>1 DEF ListInv
<1>6. SendInv /\ RecvInv /\ YoungerInv
  BY <1>1, <1>2, <1>3 DEF SendInv, RecvInv, YoungerInv
<1> QED
  BY <1>4, <1>5, <1>6 DEF OrderInv

-----------------------------------------------------------------------------
(***************************************************************************)
(* Messages do not overtake                                                *)
(***************************************************************************)

\* A new match has its older competitors behind it.
LEMMA MeetsBehind ==
  ASSUME TypeOK, OrderInv, NEW g, NEW q, MeetsInOrder(g, q), AtOnce(g),
         NEW i \in 1 .. (g[2] - 1),
         SentBefore(<<g[1], i>>, g), AtOnce(<<g[1], i>>), matches(q, <<g[1], i>>)
  PROVE  \E y \in match : y[1] = <<g[1], i>> /\ y[2][2] < q[2]
<1>f. PICK f : f = <<g[1], i>>
  OBVIOUS
<1>1. /\ g \in SendReq /\ Started(g) /\ q[1] = CallOf(g).peer /\ CallOf(g).peer \in Rank
      /\ g \in Request /\ g[1] \in Rank /\ g[2] \in Nat /\ g[2] \in DOMAIN program[g[1]]
  BY DEF MeetsInOrder, SendReq, Request
<1>2. f[1] = g[1] /\ f[2] = i /\ i \in Nat /\ i < g[2] /\ f \in Request
  BY <1>1, <1>f DEF Request
<1>3. CallOf(f).op \in SendOps /\ CallOf(f).peer = CallOf(g).peer
  BY <1>f DEF SentBefore
<1>4. i \in DOMAIN program[g[1]]
  <2>1. program[g[1]] \in Seq(Call)
    BY <1>1 DEF TypeOK
  <2>2. Len(program[g[1]]) \in Nat /\ DOMAIN program[g[1]] = 1 .. Len(program[g[1]])
    BY <2>1
  <2> QED
    BY <1>1, <2>2
<1>5. f \in Requests(SendOps)
  <2>1. f \in SendReq
    BY <1>1, <1>2, <1>3, <1>4 DEF SendReq
  <2> QED
    BY <2>1, RequestSets
<1>6. Started(f)
  <2>1. pc[g[1]] \in Nat
    BY <1>1 DEF TypeOK
  <2> QED
    BY <1>1, <1>2, <2>1 DEF Started
<1>7. SendMet(f)
  BY <1>2, <1>3, <1>5, <1>6, <1>f DEF MeetsInOrder
<1>8. PICK y \in match : y[1] = f
  BY <1>7 DEF SendMet
<1>9. y[2][1] = q[1] /\ matches(q, y[1])
  BY <1>1, <1>3, <1>8, <1>f DEF OrderInv, StartedInv
<1>10. y[2][2] < q[2]
  BY <1>9 DEF MeetsInOrder
<1> QED
  BY <1>8, <1>10, <1>f

LEMMA NonOvertakingStep ==
  TypeOK /\ SequenceInv /\ NoMatchablePair /\ OrderInv /\ NonOvertaking /\ [Next]_vars => NonOvertaking'
<1> SUFFICES ASSUME TypeOK, SequenceInv, NoMatchablePair, OrderInv, NonOvertaking, [Next]_vars
             PROVE  NonOvertaking'
  OBVIOUS
<1> DEFINE prots == {EAGER0, RENDEZVOUS_GET, DIRECT_PUT}
<1>1. OrderedStep
  BY OrderStep
<1>2. program' = program
  BY <1>1 DEF OrderedStep, NoCallMade, CallMade, Makes
<1>3. \/ match' = match
      \/ \E f, q : MeetsInOrder(f, q) /\ match' = match \cup {<<f, q>>}
  BY <1>1 DEF OrderedStep, NoCallMade, CallMade, MatchStep
<1>4. /\ \A f, g : SentBefore(f, g)' = SentBefore(f, g)
      /\ \A f : ProtocolFor(CallOf(f))' = ProtocolFor(CallOf(f))
      /\ \A q, f : matches(q, f)' = matches(q, f)
  BY <1>2 DEF SentBefore, ProtocolFor, matches, CallOf
<1>5. \A f : ProtocolFor(CallOf(f)) \in prots => AtOnce(f)
  BY DEF AtOnce, EAGER0, EAGER1, RENDEZVOUS_GET, DIRECT_PUT
<1> SUFFICES ASSUME NEW x \in match', NEW i \in 1 .. (x[1][2] - 1),
                    SentBefore(<<x[1][1], i>>, x[1]),
                    ProtocolFor(CallOf(<<x[1][1], i>>)) \in prots,
                    ProtocolFor(CallOf(x[1])) \in prots,
                    matches(x[2], <<x[1][1], i>>)
             PROVE  \E y \in match' : y[1] = <<x[1][1], i>> /\ y[2][2] < x[2][2]
  BY <1>4 DEF NonOvertaking, NonOvertakingOf
<1>6. CASE x \in match
  <2>1. \E y \in match : y[1] = <<x[1][1], i>> /\ y[2][2] < x[2][2]
    BY <1>6 DEF NonOvertaking, NonOvertakingOf
  <2> QED
    BY <1>3, <2>1
<1>7. CASE x \notin match
  <2>1. PICK f, q : MeetsInOrder(f, q) /\ match' = match \cup {<<f, q>>}
    BY <1>3, <1>7
  <2>2. x[1] = f /\ x[2] = q
    BY <1>7, <2>1
  <2>3. \E y \in match : y[1] = <<f[1], i>> /\ y[2][2] < q[2]
    BY <1>5, <2>1, <2>2, MeetsBehind
  <2> QED
    BY <2>1, <2>2, <2>3
<1> QED
  BY <1>6, <1>7

(***************************************************************************)
(* Whatever the fabric reorders and whenever receives are posted: of two   *)
(* sends of one task to one task that are matched by their sequenced first *)
(* message, the later one never takes a receive that the earlier one could *)
(* have taken, unless that one met an earlier receive.                     *)
(***************************************************************************)
THEOREM MessagesDoNotOvertake == Spec => []NonOvertaking
<1>1. Init => NonOvertaking
  BY DEF Init, NonOvertaking, NonOvertakingOf
<1>2. Init => NoMatchablePair
  BY DEF Init, NoMatchablePair
<1>3. Spec => [](TypeOK /\ SequenceInv /\ NoMatchablePair /\ OrderInv /\ NonOvertaking)
  BY <1>1, <1>2, TypeInit, TypeStep, SequenceInit, SequenceStep, NoPairStep, OrderInit, OrderStep,
     NonOvertakingStep, PTL DEF Spec
<1> QED
  BY <1>3, PTL

-----------------------------------------------------------------------------
(***************************************************************************)
(* The matching rules of MPI                                               *)
(***************************************************************************)

\* The job sends nothing with Eager1, which matches a message only when its
\* data has come.
MatchedAtOnce ==
  \A p \in Programs : \A r \in Rank : \A i \in DOMAIN p[r] :
    p[r][i].op \in SendOps => ProtocolFor(p[r][i]) # EAGER1

AllAtOnce == \A f \in Requests(SendOps) : AtOnce(f)

LEMMA AllAtOnceInit == MatchedAtOnce /\ Init => AllAtOnce
<1> SUFFICES ASSUME MatchedAtOnce, Init, NEW f \in Requests(SendOps)
             PROVE  AtOnce(f)
  BY DEF AllAtOnce
<1>1. f \in Request /\ f[2] \in DOMAIN program[f[1]] /\ CallOf(f).op \in SendOps
  BY TypeInit, RequestSets DEF SendReq
<1>2. f[1] \in Rank /\ program \in Programs
  BY <1>1 DEF Request, Init
<1> QED
  BY <1>1, <1>2 DEF MatchedAtOnce, AtOnce, CallOf

Sent == {f \in Requests(SendOps) : Started(f)}
Posted == {q \in Requests(RecvOps) : Started(q)}

LEMMA MeetsEligible ==
  ASSUME TypeOK, AllAtOnce, NEW f, NEW q, MeetsInOrder(f, q), NEW recvs, q \in recvs,
         \A p \in recvs : p = q \/ p \in Posted
  PROVE  f \in Sent /\ Matching!Eligible(f, q, recvs)
<1>1. f \in Sent
  BY RequestSets DEF MeetsInOrder, Sent
<1>2. AtOnce(f)
  BY <1>1 DEF AllAtOnce, Sent
<1>3. \A p, g : Matching!Takes(p, g) <=> p[1] = CallOf(g).peer /\ matches(p, g)
  BY DEF Matching!Takes, Matching!At, matches, CallOf
<1>4. /\ \A g : Matching!SendMatched(g) <=> SendMet(g)
      /\ \A p : Matching!RecvMatched(p) <=> RecvMet(p)
  BY DEF Matching!SendMatched, Matching!RecvMatched, SendMet, RecvMet
<1>5. Matching!Takes(q, f) /\ ~SendMet(f) /\ ~RecvMet(q)
  BY <1>2, <1>3 DEF MeetsInOrder
<1>6. \A g \in Sent : (g[1] = f[1] /\ g[2] < f[2] /\ ~SendMet(g)) => ~Matching!Takes(q, g)
  BY <1>2, <1>3 DEF MeetsInOrder, Sent, AllAtOnce
<1>7. \A p \in recvs : (p[1] = q[1] /\ p[2] < q[2] /\ ~RecvMet(p)) => ~Matching!Takes(p, f)
  <2>1. ~(q[2] < q[2])
    <3>1. q[2] \in Nat
      BY DEF MeetsInOrder, RecvReq, Request
    <3> QED
      BY <3>1
  <2> QED
    BY <1>3, <2>1 DEF MeetsInOrder, Posted
<1> QED
  BY <1>1, <1>4, <1>5, <1>6, <1>7 DEF Matching!Eligible, Sent

LEMMA MatchingStep ==
  TypeOK /\ SequenceInv /\ NoMatchablePair /\ OrderInv /\ AllAtOnce /\ [Next]_vars
    => AllAtOnce' /\ [Matching!MNext]_(Matching!mvars)
<1> SUFFICES ASSUME TypeOK, SequenceInv, NoMatchablePair, OrderInv, AllAtOnce, [Next]_vars
             PROVE  AllAtOnce' /\ [Matching!MNext]_(Matching!mvars)
  OBVIOUS
<1>1. OrderedStep
  BY OrderStep
<1>2. program' = program
  BY <1>1 DEF OrderedStep, NoCallMade, CallMade, Makes
<1>3. AllAtOnce'
  BY <1>2, StableOrder DEF AllAtOnce
<1>4. /\ Requests(SendOps)' = Requests(SendOps) /\ Requests(RecvOps)' = Requests(RecvOps)
      /\ \A q \in Requests(SendOps) \cup Requests(RecvOps) : q \in Request
  BY <1>2, StableOrder, RequestSets DEF SendReq, RecvReq
<1>5. /\ Sent' = {f \in Requests(SendOps) : Started(f)'}
      /\ Posted' = {q \in Requests(RecvOps) : Started(q)'}
  BY <1>4 DEF Sent, Posted
<1>6. ASSUME Sent' = Sent, Posted' = Posted, match' = match
      PROVE  [Matching!MNext]_(Matching!mvars)
  BY <1>2, <1>6 DEF Matching!mvars, Sent, Posted
<1>7. CASE NoCallMade
  <2>1. Sent' = Sent /\ Posted' = Posted
    BY <1>4, <1>5, <1>7 DEF NoCallMade, Sent, Posted
  <2>2. ASSUME NEW f, NEW q, MeetsInOrder(f, q), Started(q), match' = match \cup {<<f, q>>}
        PROVE  [Matching!MNext]_(Matching!mvars)
    <3>1. q \in Posted
      BY <2>2, RequestSets DEF MeetsInOrder, Posted
    <3>2. f \in Sent /\ Matching!Eligible(f, q, Posted)
      BY <2>2, <3>1, MeetsEligible
    <3>3. Matching!Match(f, q)
      BY <1>2, <2>1, <2>2, <3>2 DEF Matching!Match, Sent, Posted
    <3> QED
      BY <3>1, <3>2, <3>3 DEF Matching!MNext, Sent, Posted
  <2> QED
    BY <1>3, <1>6, <1>7, <2>1, <2>2 DEF NoCallMade, MatchStep
<1>8. ASSUME NEW r \in Rank, CallMade(r)
      PROVE  [Matching!MNext]_(Matching!mvars)
  <2>i. PICK i : i = pc[r]
    OBVIOUS
  <2>r. PICK req : req = <<r, i>>
    OBVIOUS
  <2>1. /\ i \in DOMAIN program[r] /\ mode[r] = "run"
        /\ \A q \in Request : Started(q)' <=> Started(q) \/ q = req
        /\ \/ match' = match
           \/ /\ req \in RecvReq
              /\ \E f : MeetsInOrder(f, req) /\ match' = match \cup {<<f, req>>}
        /\ ~Started(req)
    BY <1>8, <2>i, <2>r DEF CallMade, Makes
  <2>2. \A q \in Request : Started(q) /\ q[1] = r => q[2] < i
    BY <2>1, <2>i, StartedSoFar
  <2>3. /\ Sent' = Sent \cup ({req} \cap Requests(SendOps))
        /\ Posted' = Posted \cup ({req} \cap Requests(RecvOps))
    BY <1>4, <1>5, <2>1 DEF Sent, Posted
  <2>4. ~(req \in SendReq /\ req \in RecvReq)
    BY DEF SendReq, RecvReq, SendOps, RecvOps
  <2>5. /\ \A g \in Sent : g[1] = r => g[2] < i
        /\ \A q \in Posted : q[1] = r => q[2] < i
        /\ req \notin Sent /\ req \notin Posted
    BY <1>4, <2>1, <2>2 DEF Sent, Posted
  <2>6. CASE req \in Requests(SendOps)
    <3>1. req \in SendReq /\ req \notin RecvReq /\ match' = match
      BY <2>1, <2>4, <2>6, RequestSets
    <3>2. Sent' = Sent \cup {req} /\ Posted' = Posted
      BY <2>3, <2>6, <3>1, RequestSets
    <3>3. Matching!IsSend(r, i)
      BY <2>r, <3>1 DEF Matching!IsSend, Matching!At, SendReq, CallOf, SendOps
    <3>4. Matching!StartSend(r, i)
      BY <1>2, <2>5, <2>r, <3>1, <3>2, <3>3 DEF Matching!StartSend, Sent, Posted
    <3> QED
      BY <2>1, <3>4 DEF Matching!MNext
  <2>7. CASE req \in Requests(RecvOps)
    <3>1. req \in RecvReq /\ req \notin Requests(SendOps)
      BY <2>4, <2>7, RequestSets
    <3>2. Sent' = Sent /\ Posted' = Posted \cup {req}
      BY <2>3, <2>7, <3>1
    <3>3. Matching!IsRecv(r, i)
      BY <2>r, <3>1 DEF Matching!IsRecv, Matching!At, RecvReq, CallOf, RecvOps
    <3>4. ASSUME NEW f, MeetsInOrder(f, req)
          PROVE  f \in Sent /\ Matching!Eligible(f, req, Posted')
      BY <3>2, <3>4, MeetsEligible
    <3>5. \/ match' = match
          \/ \E f \in Sent : Matching!Eligible(f, <<r, i>>, Posted') /\ match' = match \cup {<<f, <<r, i>>>>}
      BY <2>1, <2>r, <3>4
    <3>6. Matching!PostRecv(r, i)
      BY <1>2, <2>5, <2>r, <3>2, <3>3, <3>5 DEF Matching!PostRecv, Sent, Posted
    <3> QED
      BY <2>1, <3>6 DEF Matching!MNext
  <2>8. CASE req \notin Requests(SendOps) \cup Requests(RecvOps)
    <3>1. match' = match
      BY <2>1, <2>8, RequestSets DEF MeetsInOrder
    <3>2. Sent' = Sent /\ Posted' = Posted
      BY <2>3, <2>8
    <3> QED
      BY <1>6, <3>1, <3>2
  <2> QED
    BY <2>6, <2>7, <2>8
<1> QED
  BY <1>1, <1>3, <1>7, <1>8 DEF OrderedStep

LEMMA MatchingInit == Init => Matching!MInit
<1> SUFFICES ASSUME Init PROVE Matching!MInit
  OBVIOUS
<1>1. match = {} /\ program \in Programs
  BY DEF Init
<1>2. \A q \in Requests(SendOps) \cup Requests(RecvOps) : ~Started(q)
  BY StartedNothing
<1> QED
  BY <1>1, <1>2 DEF Matching!MInit

(***************************************************************************)
(* Every behaviour of queue, protocols, NICs and fabric is one that the    *)
(* matching rules of MPI allow, for jobs whose messages are matched when   *)
(* their sequenced first message is handled.                               *)
(***************************************************************************)
THEOREM MatchingImplemented ==
  ASSUME MatchedAtOnce
  PROVE  Spec => ImplementsMatching
<1>1. Init => AllAtOnce
  BY AllAtOnceInit
<1>2. Init => NoMatchablePair
  BY DEF Init, NoMatchablePair
<1>3. Spec => [](TypeOK /\ SequenceInv /\ NoMatchablePair /\ OrderInv /\ AllAtOnce)
  BY <1>1, <1>2, TypeInit, TypeStep, SequenceInit, SequenceStep, NoPairStep, OrderInit, OrderStep,
     MatchingStep, PTL DEF Spec
<1>4. Spec => Matching!MInit /\ [][Matching!MNext]_(Matching!mvars)
  BY <1>3, MatchingInit, MatchingStep, PTL DEF Spec
<1> QED
  BY <1>4 DEF ImplementsMatching, Matching!MSpec

-----------------------------------------------------------------------------
(***************************************************************************)
(* Blocked probes                                                          *)
(***************************************************************************)

\* No blocked probe is added, and a message that is filed notifies.
LEMMA HandlerProbes ==
  ASSUME NEW r \in Rank, NEW m, HandlePt2ptMessage(r, m)
  PROVE  /\ probelist' \subseteq probelist
         /\ \/ need_recv_match' = need_recv_match
            \/ Prot(m) \in {EAGER0, RENDEZVOUS_GET} =>
                 probelist' = probelist \ notifyProbes(r, m)
<1>1. ASSUME NEW probes, FindMatchingRecv(r, m, probes)
      PROVE  /\ probelist' \subseteq probelist
             /\ need_recv_match' = need_recv_match \/ probelist' = probelist \ probes
  BY <1>1 DEF FindMatchingRecv, IncomingMatched, HandlerAbort, matchVars
<1>2. ASSUME UNCHANGED matchVars
      PROVE  probelist' \subseteq probelist /\ need_recv_match' = need_recv_match
  BY <1>2 DEF matchVars
<1>3. Drop(m) \/ IncomingSendAck(m) \/ RendezvousIncomingPayload(m) => UNCHANGED matchVars
  BY DEF Drop, IncomingSendAck, RendezvousIncomingPayload, HandlerAbort
<1>4. CASE Prot(m) = EAGER0 /\ Eager0Incoming(r, m)
  BY <1>1, <1>2, <1>3, <1>4 DEF Eager0Incoming
<1>5. CASE Prot(m) = RENDEZVOUS_GET /\ RendezvousIncoming(r, m)
  BY <1>1, <1>2, <1>3, <1>5 DEF RendezvousIncoming
<1>6. CASE Prot(m) = EAGER1 /\ Eager1Incoming(r, m)
  BY <1>1, <1>2, <1>3, <1>6 DEF Eager1Incoming, EAGER0, EAGER1, RENDEZVOUS_GET
<1>7. CASE Prot(m) = DIRECT_PUT /\ DirectPutIncoming(r, m)
  BY <1>1, <1>2, <1>3, <1>7 DEF DirectPutIncoming, EAGER0, DIRECT_PUT, RENDEZVOUS_GET
<1> QED
  BY <1>4, <1>5, <1>6, <1>7 DEF HandlePt2ptMessage

LEMMA HandlerProbeNotified ==
  ASSUME TypeOK, ProbeNotified, program' = program, NEW r \in Rank, NEW m \in SentMessage,
         HandlePt2ptMessage(r, m)
  PROVE  ProbeNotified'
<1>1. ListEffect(r, m)
  BY HandlerLists
<1>2. /\ probelist' \subseteq probelist
      /\ \/ need_recv_match' = need_recv_match
         \/ Prot(m) \in {EAGER0, RENDEZVOUS_GET} =>
              probelist' = probelist \ notifyProbes(r, m)
  BY HandlerProbes
<1> SUFFICES ASSUME NEW p \in probelist', NEW k \in DOMAIN need_recv_match'[p[1]],
                    Prot(need_recv_match'[p[1]][k]) \in {EAGER0, RENDEZVOUS_GET},
                    matches(p, need_recv_match'[p[1]][k].flow)
             PROVE  FALSE
  BY StableOrder DEF ProbeNotified, MissedProbe
<1>3. p \in probelist /\ p[1] \in Rank
  BY <1>2 DEF TypeOK, Request
<1>4. ASSUME NEW j \in DOMAIN need_recv_match[p[1]],
             need_recv_match'[p[1]][k] = need_recv_match[p[1]][j]
      PROVE  FALSE
  BY <1>3, <1>4 DEF ProbeNotified, MissedProbe
<1>5. CASE need_recv_match' = need_recv_match
  BY <1>4, <1>5
<1>6. CASE need_recv_match'[p[1]][k] = m /\ p[1] = r /\ need_recv_match' # need_recv_match
  BY <1>2, <1>3, <1>6 DEF notifyProbes
<1> QED
  BY <1>1, <1>3, <1>4, <1>5, <1>6, AppendedEntries

LEMMA ProbeStep == TypeOK /\ ProbeNotified /\ [Next]_vars => ProbeNotified'
<1> SUFFICES ASSUME TypeOK, ProbeNotified, [Next]_vars
             PROVE  ProbeNotified'
  OBVIOUS
<1>0. ASSUME program' = program, need_recv_match' = need_recv_match,
             probelist' \subseteq probelist
      PROVE  ProbeNotified'
  BY <1>0, StableOrder DEF ProbeNotified, MissedProbe
<1>1. CASE UNCHANGED vars
  BY <1>0, <1>1 DEF vars
<1>2. ASSUME NEW r \in Rank, AppCall(r) PROVE ProbeNotified'
  <2>1. CASE ProcNullCall(r) \/ Send(r) \/ Iprobe(r) \/ Test(r) \/ Wait(r)
    BY <1>0, <2>1
    DEF ProcNullCall, Send, Iprobe, Test, Wait, matchVars, ReturnOrLoop, Return, Enter
  <2>2. CASE Recv(r)
    <3>1. program' = program /\ probelist' \subseteq probelist
      BY <2>2 DEF Recv, appVars, ReturnOrLoop, Return, Enter, IncomingMatched, HandlerAbort, matchVars
    <3> SUFFICES ASSUME NEW p \in probelist, NEW k \in DOMAIN need_recv_match'[p[1]],
                        Prot(need_recv_match'[p[1]][k]) \in {EAGER0, RENDEZVOUS_GET},
                        matches(p, need_recv_match'[p[1]][k].flow)
                 PROVE  FALSE
      BY <3>1, StableOrder DEF ProbeNotified, MissedProbe
    <3>2. p[1] \in Rank
      BY DEF TypeOK, Request
    <3>3. PICK j \in DOMAIN need_recv_match[p[1]] : need_recv_match'[p[1]][k] = need_recv_match[p[1]][j]
      BY <2>2, <3>2, RecvEntries
    <3> QED
      BY <3>3 DEF ProbeNotified, MissedProbe
  <2>3. CASE Probe(r)
    <3>1. program' = program /\ need_recv_match' = need_recv_match
      BY <2>3, QuietType
    <3>2. probelist' \subseteq probelist \/ (probelist' = probelist \cup {<<r, pc[r]>>} /\ unexpectedFor(<<r, pc[r]>>) = {})
      BY <2>3 DEF Probe
    <3>3. CASE probelist' \subseteq probelist
      BY <1>0, <3>1, <3>3
    <3>4. CASE probelist' = probelist \cup {<<r, pc[r]>>} /\ unexpectedFor(<<r, pc[r]>>) = {}
      BY <3>1, <3>4, StableOrder DEF ProbeNotified, MissedProbe, unexpectedFor
    <3> QED
      BY <3>2, <3>3, <3>4
  <2> QED
    BY <1>2, <2>1, <2>2, <2>3 DEF AppCall
<1>3. ASSUME NEW r \in Rank, EndLoop(r) \/ FinalizeBarrier(r) PROVE ProbeNotified'
  BY <1>0, <1>3 DEF EndLoop, FinalizeBarrier, matchVars, appVars
<1>4. ASSUME NEW r \in Rank, DrainHeld(r) PROVE ProbeNotified'
  <2>1. PICK m \in held : HandlePt2ptMessage(r, m)
    BY <1>4 DEF DrainHeld, heldDue
  <2>2. m \in SentMessage /\ program' = program
    BY <1>4 DEF DrainHeld, TypeOK
  <2> QED
    BY <2>1, <2>2, HandlerProbeNotified
<1>5. ASSUME NEW m \in net, NicGet(m) PROVE ProbeNotified'
  BY <1>0, <1>5 DEF NicGet, matchVars, appVars
<1>6. ASSUME NEW r \in Rank, NEW m \in net, Incoming(r, m) PROVE ProbeNotified'
  <2>1. m \in SentMessage /\ program' = program
    BY <1>6, TakenType
    DEF TypeOK, Incoming, IncomingStaged, IncomingInOrder, IncomingOutOfOrder
  <2>2. CASE HandlePt2ptMessage(r, m)
    BY <2>1, <2>2, HandlerProbeNotified
  <2>3. CASE UNCHANGED matchVars
    BY <1>0, <2>1, <2>3 DEF matchVars
  <2> QED
    BY <1>6, <2>2, <2>3
    DEF Incoming, IncomingStaged, IncomingInOrder, IncomingOutOfOrder, HandlerAbort
<1> QED
  BY <1>1, <1>2, <1>3, <1>4, <1>5, <1>6 DEF Next

(***************************************************************************)
(* A blocked MPI_Probe never sleeps through a message of the protocols     *)
(* that call notifyProbes: none it matches is in need_recv_match_.         *)
(***************************************************************************)
THEOREM ProbesAreNotified == Spec => []ProbeNotified
<1>1. Init => ProbeNotified
  BY DEF Init, ProbeNotified, MissedProbe
<1>2. Spec => [](TypeOK /\ ProbeNotified)
  BY <1>1, TypeInit, TypeStep, ProbeStep, PTL DEF Spec
<1> QED
  BY <1>2, PTL

-----------------------------------------------------------------------------
(***************************************************************************)
(* Acks and payloads find their requests                                   *)
(***************************************************************************)
IsRendezvous(f) == ProtocolFor(CallOf(f)) = RENDEZVOUS_GET

\* An ack of the send is under way, or will come of this message.
AckDue(m) ==
  \/ Prot(m) = RENDEZVOUS_GET /\ (m.type = "rdma_get_payload" => SoftwareAck)
  \/ Prot(m) = DIRECT_PUT /\ m.type = "rdma_put_sent_ack"

\* The later messages of a flow come one by one; only the payload and the ack
\* of the NIC are under way together.
StepByStep ==
  \A m \in net, o \in net \cup held \cup Listed :
    (~Sequenced(m) /\ m.flow = o.flow /\ m # o) =>
      /\ Prot(m) = RENDEZVOUS_GET =>
           /\ ~SoftwareAck
           /\ \/ m.type = "rdma_get_payload" /\ o.type = "rdma_get_sent_ack"
              \/ o.type = "rdma_get_payload" /\ m.type = "rdma_get_sent_ack"
      /\ Prot(m) = DIRECT_PUT => Sequenced(o)

\* A send is filed as long as its ack is due ...
SendFiled ==
  \A m \in net \cup held \cup Listed : AckDue(m) => m.flow \in send_flows

\* ... and a receive as long as its payload is.
RecvFiled ==
  /\ recv_flows \subseteq match
  /\ \A m \in net :
       (Prot(m) = RENDEZVOUS_GET /\ m.type \in {"rdma_get_request", "rdma_get_payload"}) =>
         \E x \in recv_flows : x[1] = m.flow

\* What an ack proves.
AckEarned ==
  \A m \in net : (Prot(m) = RENDEZVOUS_GET /\ ~Sequenced(m)) =>
    /\ SendMet(m.flow)
    /\ m.stage = 2 => \E x \in match : x[1] = m.flow /\ x[2] \in complete
    /\ m.type = "rdma_get_sent_ack" => ~SoftwareAck

\* A rendezvous send that is complete was matched, and nothing is due.
SendDone ==
  \A f \in complete : (f \in SendReq /\ IsRendezvous(f)) =>
    /\ f \notin send_flows
    /\ \E x \in match : x[1] = f /\ (SoftwareAck => x[2] \in complete)

FlowInv ==
  /\ StepByStep /\ SendFiled /\ RecvFiled /\ AckEarned /\ SendDone
  /\ \A p \in probelist : CallOf(p).op \in ProbeOps
  /\ aborted \notin {"no send flow", "no recv flow"}

LEMMA FlowSafe == SequenceInv /\ FlowInv => NoProtocolAbort /\ RendezvousCompletion
<1> SUFFICES ASSUME SequenceInv, FlowInv PROVE NoProtocolAbort /\ RendezvousCompletion
  OBVIOUS
<1>1. NoProtocolAbort
  BY DEF NoProtocolAbort, SequenceInv, FlowInv
<1>2. ASSUME NEW f \in complete, f \in SendReq, ProtocolFor(CallOf(f)) = RENDEZVOUS_GET
      PROVE  \E x \in match :
               /\ x[1] = f
               /\ SoftwareAck => x[2] \in complete
               /\ \A m \in net : m.flow = f => m.type # "rdma_get_request"
  <2>1. f \notin send_flows /\ \E x \in match : x[1] = f /\ (SoftwareAck => x[2] \in complete)
    BY <1>2 DEF FlowInv, SendDone, IsRendezvous
  <2>2. ASSUME NEW m \in net, m.flow = f PROVE m.type # "rdma_get_request"
    <3>1. Prot(m) = RENDEZVOUS_GET
      BY <1>2, <2>2 DEF Prot
    <3> QED
      BY <2>1, <2>2, <3>1 DEF FlowInv, SendFiled, AckDue
  <2> QED
    BY <2>1, <2>2
<1> QED
  BY <1>1, <1>2 DEF RendezvousCompletion

LEMMA StableFlows ==
  ASSUME program' = program
  PROVE  /\ \A m : AckDue(m)' = AckDue(m)
         /\ \A f : IsRendezvous(f)' = IsRendezvous(f)
  BY StableOrder DEF AckDue, IsRendezvous, ProtocolFor

\* Matches and completions only add to what the invariant says.
LEMMA FlowsGrow ==
  ASSUME match \subseteq match', complete \subseteq complete'
  PROVE  /\ \A f : SendMet(f) => SendMet(f)'
         /\ \A f : (\E x \in match : x[1] = f /\ x[2] \in complete) =>
                      \E x \in match' : x[1] = f /\ x[2] \in complete'
         /\ \A f : (\E x \in match : x[1] = f /\ (SoftwareAck => x[2] \in complete)) =>
                      \E x \in match' : x[1] = f /\ (SoftwareAck => x[2] \in complete')
BY DEF SendMet

\* No message of a rendezvous or of a put is new, and no send completes.
LEMMA FlowKept ==
  ASSUME TypeOK, FlowInv, program' = program,
         \A o \in net' : o \in net \/ Prot(o) \in {EAGER0, EAGER1},
         \A o \in net' \cup held' \cup Listed' :
           o \in net \cup held \cup Listed \/ Prot(o) \in {EAGER0, EAGER1},
         UNCHANGED <<send_flows, recv_flows>>,
         match \subseteq match', complete \subseteq complete',
         \A f \in complete' : f \in complete \/ ~(f \in SendReq /\ IsRendezvous(f)),
         \A p \in probelist' : CallOf(p).op \in ProbeOps,
         aborted' \notin {"no send flow", "no recv flow"}
  PROVE  FlowInv'
<1>0. /\ \A m : Prot(m)' = Prot(m) /\ Sequenced(m)' = Sequenced(m) /\ AckDue(m)' = AckDue(m)
      /\ \A f : IsRendezvous(f)' = IsRendezvous(f) /\ CallOf(f)' = CallOf(f)
      /\ SendReq' = SendReq
  BY StableOrder, StableFlows, StableSets
<1>1. \A m, o : m.flow = o.flow => Prot(m) = Prot(o)
  BY DEF Prot
<1>2. /\ RENDEZVOUS_GET \notin {EAGER0, EAGER1} /\ DIRECT_PUT \notin {EAGER0, EAGER1}
      /\ \A m : AckDue(m) => Prot(m) \notin {EAGER0, EAGER1}
  BY DEF AckDue, EAGER0, EAGER1, RENDEZVOUS_GET, DIRECT_PUT
<1>3. StepByStep'
  <2> SUFFICES ASSUME NEW m \in net', NEW o \in net' \cup held' \cup Listed',
                      ~Sequenced(m), m.flow = o.flow, m # o,
                      Prot(m) \notin {EAGER0, EAGER1}
               PROVE  /\ Prot(m) = RENDEZVOUS_GET =>
                           /\ ~SoftwareAck
                           /\ \/ m.type = "rdma_get_payload" /\ o.type = "rdma_get_sent_ack"
                              \/ o.type = "rdma_get_payload" /\ m.type = "rdma_get_sent_ack"
                      /\ Prot(m) = DIRECT_PUT => Sequenced(o)
    BY <1>0, <1>2 DEF StepByStep
  <2>1. m \in net /\ o \in net \cup held \cup Listed
    BY <1>1
  <2> QED
    BY <2>1 DEF FlowInv, StepByStep
<1>4. SendFiled'
  <2>1. \A o \in net' \cup held' \cup Listed' : AckDue(o) => o.flow \in send_flows
    BY <1>2 DEF FlowInv, SendFiled
  <2> QED
    BY <1>0, <2>1 DEF SendFiled
<1>5. RecvFiled'
  BY <1>0, <1>2 DEF FlowInv, RecvFiled
<1>6. AckEarned'
  <2>1. ASSUME NEW m \in net', Prot(m) = RENDEZVOUS_GET, ~Sequenced(m)
        PROVE  /\ SendMet(m.flow)'
               /\ m.stage = 2 => \E x \in match' : x[1] = m.flow /\ x[2] \in complete'
               /\ m.type = "rdma_get_sent_ack" => ~SoftwareAck
    BY <1>2, <2>1, FlowsGrow DEF FlowInv, AckEarned
  <2> QED
    BY <1>0, <2>1 DEF AckEarned
<1>7. SendDone'
  <2>1. ASSUME NEW f \in complete', f \in SendReq, IsRendezvous(f)
        PROVE  /\ f \notin send_flows
               /\ \E x \in match' : x[1] = f /\ (SoftwareAck => x[2] \in complete')
    BY <2>1, FlowsGrow DEF FlowInv, SendDone
  <2> QED
    BY <1>0, <2>1 DEF SendDone
<1> QED
  BY <1>0, <1>3, <1>4, <1>5, <1>6, <1>7 DEF FlowInv

LEMMA FlowSend ==
  ASSUME TypeOK, OrderInv, FlowInv, NEW r \in Rank, Send(r)
  PROVE  FlowInv'
<1>r. PICK req : req = <<r, pc[r]>>
  OBVIOUS
<1>p. PICK prot : prot = ProtocolFor(CallOf(req))
  OBVIOUS
<1>m. PICK m : m = [flow |-> req, stage |-> 0, seqnum |-> next_outbound[r][CallOf(req).peer],
                    type |-> IF prot = DIRECT_PUT THEN "rdma_put_payload" ELSE "smsg_send"]
  OBVIOUS
<1>a. PICK acks : acks = IF prot = EAGER0 THEN {Ack(m, "payload_sent_ack")}
                         ELSE IF prot = DIRECT_PUT THEN {Ack(m, "rdma_put_sent_ack")}
                         ELSE {}
  OBVIOUS
<1>1. /\ Calls(r, SendOps) /\ CallOf(req).peer # ProcNull
      /\ net' = net \cup {m} \cup acks
      /\ send_flows' = IF KeepsSendFlow(prot) THEN send_flows \cup {req} ELSE send_flows
      /\ complete' = IF CompletesAtStart(prot) THEN complete \cup {req} ELSE complete
      /\ ReturnOrLoop(r, CallOf(req).op = "send")
      /\ UNCHANGED <<held, need_recv_match, match, probelist, recv_flows, aborted>>
  BY <1>r, <1>p, <1>m, <1>a DEF Send, matchVars
<1>2. program' = program /\ Listed' = Listed
  BY <1>1 DEF ReturnOrLoop, Return, Enter, Listed
<1>3. ~Started(req)
  BY <1>1, <1>r, StartedSoFar DEF Calls
<1>4. \A o \in net \cup held \cup Listed : o.flow # req
  BY <1>3 DEF OrderInv, StartedInv
<1>5. /\ m.flow = req /\ m.type \in {"rdma_put_payload", "smsg_send"} /\ Prot(m) = prot
      /\ Sequenced(m)
  BY <1>m, <1>p DEF Prot, Sequenced, isNicAck, NicAcks
<1>6. \A o \in acks : /\ o.flow = req /\ Prot(o) = prot /\ ~Sequenced(o)
                      /\ prot \in {EAGER0, DIRECT_PUT}
                      /\ prot = DIRECT_PUT => o.type = "rdma_put_sent_ack"
                      /\ \A p \in acks : p = o
  BY <1>5, <1>a, <1>p DEF Ack, Reuse, Prot, Sequenced, isNicAck, NicAcks, EAGER0, DIRECT_PUT
<1>7. /\ prot # EAGER1 => req \in send_flows'
      /\ send_flows' \subseteq send_flows \cup {req} /\ send_flows \subseteq send_flows'
      /\ complete \subseteq complete'
      /\ \A f \in complete' : f \in complete \/ (f = req /\ prot # RENDEZVOUS_GET)
  BY <1>1 DEF KeepsSendFlow, CompletesAtStart, EAGER0, EAGER1, RENDEZVOUS_GET
<1>8. /\ \A o : Prot(o)' = Prot(o) /\ Sequenced(o)' = Sequenced(o) /\ AckDue(o)' = AckDue(o)
      /\ \A f : IsRendezvous(f)' = IsRendezvous(f) /\ CallOf(f)' = CallOf(f)
      /\ SendReq' = SendReq
  BY <1>2, StableOrder, StableFlows, StableSets
<1>9. StepByStep'
  <2> SUFFICES ASSUME NEW x \in net', NEW o \in net' \cup held \cup Listed,
                      ~Sequenced(x), x.flow = o.flow, x # o
               PROVE  /\ Prot(x) = RENDEZVOUS_GET =>
                           /\ ~SoftwareAck
                           /\ \/ x.type = "rdma_get_payload" /\ o.type = "rdma_get_sent_ack"
                              \/ o.type = "rdma_get_payload" /\ x.type = "rdma_get_sent_ack"
                      /\ Prot(x) = DIRECT_PUT => Sequenced(o)
    BY <1>1, <1>2, <1>8 DEF StepByStep
  <2>1. CASE x.flow = req
    <3>1. x \in acks
      BY <1>1, <1>4, <1>5, <2>1
    <3>2. o = m
      BY <1>1, <1>4, <1>6, <2>1, <3>1
    <3> QED
      BY <1>5, <1>6, <3>1, <3>2 DEF EAGER0, DIRECT_PUT, RENDEZVOUS_GET
  <2>2. CASE x.flow # req
    <3>1. x \in net /\ o \in net \cup held \cup Listed
      BY <1>1, <1>5, <1>6, <2>2
    <3> QED
      BY <3>1 DEF FlowInv, StepByStep
  <2> QED
    BY <2>1, <2>2
<1>10. SendFiled'
  <2>1. ASSUME NEW o \in net' \cup held \cup Listed, AckDue(o) PROVE o.flow \in send_flows'
    <3>1. CASE o \in net \cup held \cup Listed
      BY <1>7, <2>1, <3>1 DEF FlowInv, SendFiled
    <3>2. CASE o \in {m} \cup acks
      <4>1. Prot(o) = prot /\ o.flow = req
        BY <1>5, <1>6, <3>2
      <4> QED
        BY <1>7, <2>1, <4>1 DEF AckDue, EAGER1, RENDEZVOUS_GET, DIRECT_PUT
    <3> QED
      BY <1>1, <3>1, <3>2
  <2> QED
    BY <1>1, <1>2, <1>8, <2>1 DEF SendFiled
<1>11. RecvFiled'
  <2>1. \A o \in {m} \cup acks : Prot(o) = RENDEZVOUS_GET =>
          o.type \notin {"rdma_get_request", "rdma_get_payload"}
    BY <1>5, <1>6 DEF EAGER0, RENDEZVOUS_GET, DIRECT_PUT
  <2> QED
    BY <1>1, <1>8, <2>1 DEF FlowInv, RecvFiled
<1>12. AckEarned'
  <2>1. \A o \in {m} \cup acks : Prot(o) = RENDEZVOUS_GET => Sequenced(o)
    BY <1>5, <1>6 DEF EAGER0, RENDEZVOUS_GET, DIRECT_PUT
  <2>2. ASSUME NEW o \in net', Prot(o) = RENDEZVOUS_GET, ~Sequenced(o)
        PROVE  /\ SendMet(o.flow)'
               /\ o.stage = 2 => \E x \in match' : x[1] = o.flow /\ x[2] \in complete'
               /\ o.type = "rdma_get_sent_ack" => ~SoftwareAck
    BY <1>1, <1>7, <2>1, <2>2, FlowsGrow DEF FlowInv, AckEarned
  <2> QED
    BY <1>8, <2>2 DEF AckEarned
<1>13. SendDone'
  <2>1. ASSUME NEW f \in complete', f \in SendReq, IsRendezvous(f)
        PROVE  /\ f \notin send_flows'
               /\ \E x \in match' : x[1] = f /\ (SoftwareAck => x[2] \in complete')
    <3>1. f \in complete
      BY <1>7, <1>p, <2>1 DEF IsRendezvous
    <3>2. /\ f \notin send_flows
          /\ \E x \in match : x[1] = f /\ (SoftwareAck => x[2] \in complete)
      BY <2>1, <3>1 DEF FlowInv, SendDone
    <3>3. f # req
      BY <1>3, <3>2 DEF OrderInv, StartedInv
    <3> QED
      BY <1>1, <1>7, <3>2, <3>3, FlowsGrow
  <2> QED
    BY <1>8, <2>1 DEF SendDone
<1> QED
  BY <1>1, <1>8, <1>9, <1>10, <1>11, <1>12, <1>13 DEF FlowInv

\* What is listed for a flow that is matched at once, or held, is a first
\* message.
LEMMA LaterInNet ==
  ASSUME TypeOK, SequenceInv, OrderInv, NEW m \in net \cup held \cup Listed,
         ~Sequenced(m), AtOnce(m.flow)
  PROVE  m \in net /\ m \notin held /\ m \notin Listed
BY DEF SequenceInv, HeldAhead, OrderInv, FitInv

\* A rendezvous header meets its receive, and the get starts.
LEMMA FlowFetch ==
  ASSUME TypeOK, SequenceInv, OrderInv, FlowInv, OrderInv', program' = program,
         NEW m \in net \cup held \cup Listed, Prot(m) = RENDEZVOUS_GET, Sequenced(m),
         NEW req, NEW probes \in SUBSET probelist, IncomingMatched(m, req, probes),
         held' \subseteq held, Listed' \subseteq Listed \cup {m}
  PROVE  FlowInv'
<1>f. PICK f : f = m.flow
  OBVIOUS
<1>g. PICK g : g = GetRequest(m)
  OBVIOUS
<1>1. /\ match' = match \cup {<<f, req>>} /\ recv_flows' = recv_flows \cup {<<f, req>>}
      /\ net' = (net \ {m}) \cup {g} /\ complete' = complete \cup probes
      /\ probelist' \subseteq probelist /\ UNCHANGED <<send_flows, aborted>>
  BY <1>f, <1>g DEF IncomingMatched
<1>2. /\ m.stage = 0 /\ m.type \notin {"rdma_get_payload", "rdma_get_sent_ack"}
  <2>1. m \in SentMessage
    BY RecordTypes
  <2> QED
    BY <2>1 DEF Sequenced, SentMessage, WellStaged
<1>3. /\ g.flow = f /\ g.type = "rdma_get_request" /\ g.stage = 1 /\ ~Sequenced(g)
      /\ Prot(g) = RENDEZVOUS_GET
  <2>1. g.flow = f /\ g.type = "rdma_get_request" /\ g.stage = 1
    BY <1>2, <1>f, <1>g DEF GetRequest, Reuse
  <2> QED
    BY <1>f, <2>1 DEF Prot, Sequenced
<1>4. /\ \A o : Prot(o)' = Prot(o) /\ Sequenced(o)' = Sequenced(o) /\ AckDue(o)' = AckDue(o)
      /\ \A p : IsRendezvous(p)' = IsRendezvous(p) /\ CallOf(p)' = CallOf(p)
      /\ \A p : AtOnce(p)' = AtOnce(p)
      /\ SendReq' = SendReq
  BY StableOrder, StableFlows, StableSets
<1>5. AtOnce(f) /\ SendMet(f)'
  <2>1. AtOnce(f)
    BY <1>f DEF AtOnce, Prot, EAGER1, RENDEZVOUS_GET
  <2>2. <<f, req>> \in match' /\ <<f, req>>[1] = f
    BY <1>1
  <2>3. SendMet(f)'
    BY <2>2, Zenon DEF SendMet
  <2> QED
    BY <2>1, <2>3
<1>6. ASSUME NEW o \in net' \cup held' \cup Listed', o.flow = f
      PROVE  o = g
  <2>1. CASE Sequenced(o)
    <3>1. o \in (UnderWay \cup Listed)'
      BY <1>4, <2>1 DEF UnderWay
    <3> QED
      BY <1>4, <1>5, <1>6, <3>1 DEF OrderInv, SendInv
  <2>2. CASE ~Sequenced(o) /\ o # g
    <3>1. o \in net \cup held \cup Listed /\ o # m
      BY <1>1, <2>2
    <3>2. o \in net
      BY <1>5, <1>6, <2>2, <3>1, LaterInNet
    <3>3. Prot(o) = RENDEZVOUS_GET
      BY <1>6, <1>f DEF Prot
    <3> QED
      BY <1>2, <1>6, <1>f, <2>2, <3>1, <3>2, <3>3 DEF FlowInv, StepByStep
  <2> QED
    BY <2>1, <2>2
<1>7. StepByStep'
  <2> SUFFICES ASSUME NEW x \in net', NEW o \in net' \cup held' \cup Listed',
                      ~Sequenced(x), x.flow = o.flow, x # o
               PROVE  /\ Prot(x) = RENDEZVOUS_GET =>
                           /\ ~SoftwareAck
                           /\ \/ x.type = "rdma_get_payload" /\ o.type = "rdma_get_sent_ack"
                              \/ o.type = "rdma_get_payload" /\ x.type = "rdma_get_sent_ack"
                      /\ Prot(x) = DIRECT_PUT => Sequenced(o)
    BY <1>4 DEF StepByStep
  <2>1. x.flow # f
    BY <1>6
  <2>2. x \in net /\ o \in net \cup held \cup Listed
    BY <1>1, <1>3, <2>1
  <2> QED
    BY <2>2 DEF FlowInv, StepByStep
<1>8. SendFiled'
  <2>1. f \in send_flows
    BY <1>2, <1>f DEF FlowInv, SendFiled, AckDue
  <2>2. \A o \in net' \cup held' \cup Listed' : AckDue(o) => o.flow \in send_flows
    BY <1>1, <1>3, <2>1 DEF FlowInv, SendFiled
  <2> QED
    BY <1>1, <1>4, <2>2 DEF SendFiled
<1>9. RecvFiled'
  <2>1. <<f, req>> \in recv_flows' /\ <<f, req>>[1] = f
    BY <1>1
  <2>2. recv_flows' \subseteq match'
    BY <1>1 DEF FlowInv, RecvFiled
  <2>3. \E x \in recv_flows' : x[1] = g.flow
    BY <1>3, <2>1, Zenon
  <2>4. ASSUME NEW o \in net', Prot(o) = RENDEZVOUS_GET,
               o.type \in {"rdma_get_request", "rdma_get_payload"}
        PROVE  \E x \in recv_flows' : x[1] = o.flow
    BY <1>1, <2>3, <2>4 DEF FlowInv, RecvFiled
  <2> QED
    BY <1>4, <2>2, <2>4 DEF RecvFiled
<1>10. match \subseteq match' /\ complete \subseteq complete'
  BY <1>1
<1>11. AckEarned'
  <2>1. ASSUME NEW o \in net', Prot(o) = RENDEZVOUS_GET, ~Sequenced(o)
        PROVE  /\ SendMet(o.flow)'
               /\ o.stage = 2 => \E x \in match' : x[1] = o.flow /\ x[2] \in complete'
               /\ o.type = "rdma_get_sent_ack" => ~SoftwareAck
    <3>1. CASE o = g
      BY <1>3, <1>5, <3>1
    <3>2. CASE o \in net
      BY <1>10, <2>1, <3>2, FlowsGrow DEF FlowInv, AckEarned
    <3> QED
      BY <1>1, <3>1, <3>2
  <2> QED
    BY <1>4, <2>1 DEF AckEarned
<1>12. SendDone'
  <2>1. \A p \in probes : p \notin SendReq
    BY DEF FlowInv, SendReq, SendOps, ProbeOps
  <2>2. ASSUME NEW p \in complete', p \in SendReq, IsRendezvous(p)
        PROVE  /\ p \notin send_flows
               /\ \E x \in match' : x[1] = p /\ (SoftwareAck => x[2] \in complete')
    BY <1>1, <1>10, <2>1, <2>2, FlowsGrow DEF FlowInv, SendDone
  <2> QED
    BY <1>1, <1>4, <2>2 DEF SendDone
<1> QED
  BY <1>1, <1>4, <1>7, <1>8, <1>9, <1>11, <1>12 DEF FlowInv

\* The NIC answers the get of a rendezvous.
LEMMA FlowNicGet ==
  ASSUME TypeOK, SequenceInv, OrderInv, FlowInv, NEW m \in net, NicGet(m)
  PROVE  FlowInv'
<1>p. PICK payload : payload = Reuse(m, "rdma_get_payload", m.stage)
  OBVIOUS
<1>a. PICK ack : ack = Ack(m, "rdma_get_sent_ack")
  OBVIOUS
<1>1. /\ m.type = "rdma_get_request" /\ program' = program
      /\ net' = (net \ {m}) \cup {payload} \cup (IF AcksGet(m) THEN {ack} ELSE {})
      /\ UNCHANGED <<held, need_recv_match, match, probelist, send_flows, recv_flows, complete, aborted>>
  BY <1>p, <1>a DEF NicGet, appVars, seqVars, matchVars, flowVars
<1>2. m.stage = 1 /\ ~Sequenced(m)
  BY <1>1 DEF TypeOK, SentMessage, WellStaged, Sequenced
<1>3. /\ payload.flow = m.flow /\ payload.stage = 1 /\ payload.type = "rdma_get_payload"
      /\ ack.flow = m.flow /\ ack.stage = 1 /\ ack.type = "rdma_get_sent_ack"
      /\ Prot(payload) = Prot(m) /\ Prot(ack) = Prot(m)
  <2>1. /\ payload.flow = m.flow /\ payload.stage = 1 /\ payload.type = "rdma_get_payload"
        /\ ack.flow = m.flow /\ ack.stage = 1 /\ ack.type = "rdma_get_sent_ack"
    BY <1>2, <1>p, <1>a DEF Ack, Reuse
  <2> QED
    BY <2>1 DEF Prot
<1>4. Listed' = Listed
  BY <1>1 DEF Listed
<1>5. Prot(m) \in {EAGER1, RENDEZVOUS_GET}
  <2>1. Fits(m)
    BY DEF OrderInv, FitInv
  <2> QED
    BY <1>1, <2>1 DEF Fits, Prot, ProtocolFor
<1>6. CASE Prot(m) = EAGER1
  BY <1>1, <1>3, <1>4, <1>6, FlowKept DEF FlowInv
<1>7. CASE Prot(m) = RENDEZVOUS_GET
  <2>1. \A o \in net \cup held \cup Listed : o.flow = m.flow => o = m
    BY <1>1, <1>2, <1>7 DEF FlowInv, StepByStep
  <2>2. AtOnce(m.flow) /\ m \notin held /\ m \notin Listed
    <3>1. AtOnce(m.flow)
      BY <1>7 DEF AtOnce, Prot, EAGER1, RENDEZVOUS_GET
    <3> QED
      BY <1>2, <3>1, LaterInNet
  <2>3. /\ \A o : Prot(o)' = Prot(o) /\ Sequenced(o)' = Sequenced(o) /\ AckDue(o)' = AckDue(o)
        /\ \A p : IsRendezvous(p)' = IsRendezvous(p) /\ CallOf(p)' = CallOf(p)
        /\ SendReq' = SendReq
    BY <1>1, StableOrder, StableFlows, StableSets
  <2>4. net' = (net \ {m}) \cup {payload} \cup (IF SoftwareAck THEN {} ELSE {ack})
    BY <1>1, <1>7 DEF AcksGet
  <2>5. StepByStep'
    <3> SUFFICES ASSUME NEW x \in net', NEW o \in net' \cup held \cup Listed,
                        ~Sequenced(x), x.flow = o.flow, x # o
                 PROVE  /\ Prot(x) = RENDEZVOUS_GET =>
                             /\ ~SoftwareAck
                             /\ \/ x.type = "rdma_get_payload" /\ o.type = "rdma_get_sent_ack"
                                \/ o.type = "rdma_get_payload" /\ x.type = "rdma_get_sent_ack"
                        /\ Prot(x) = DIRECT_PUT => Sequenced(o)
      BY <1>1, <1>4, <2>3 DEF StepByStep
    <3>1. CASE x.flow = m.flow
      <4>1. x \in net' \ net /\ o \in net' \ net
        BY <2>1, <2>2, <2>4, <1>3, <1>1, <3>1
      <4>2. ~SoftwareAck /\ x \in {payload, ack} /\ o \in {payload, ack}
        BY <2>4, <4>1
      <4> QED
        BY <1>3, <1>7, <4>2 DEF RENDEZVOUS_GET, DIRECT_PUT
    <3>2. CASE x.flow # m.flow
      <4>1. x \in net /\ o \in net \cup held \cup Listed
        BY <1>3, <2>4, <3>2
      <4> QED
        BY <4>1 DEF FlowInv, StepByStep
    <3> QED
      BY <3>1, <3>2
  <2>6. SendFiled'
    <3>1. m.flow \in send_flows
      BY <1>1, <1>7 DEF FlowInv, SendFiled, AckDue
    <3>2. \A o \in net' \cup held \cup Listed : AckDue(o) => o.flow \in send_flows
      BY <1>3, <2>4, <3>1 DEF FlowInv, SendFiled
    <3> QED
      BY <1>1, <1>4, <2>3, <3>2 DEF SendFiled
  <2>7. RecvFiled'
    <3>1. \E x \in recv_flows : x[1] = m.flow
      BY <1>1, <1>7 DEF FlowInv, RecvFiled
    <3>2. ASSUME NEW o \in net', Prot(o) = RENDEZVOUS_GET,
                 o.type \in {"rdma_get_request", "rdma_get_payload"}
          PROVE  \E x \in recv_flows : x[1] = o.flow
      <4>1. CASE o \in net
        BY <3>2, <4>1 DEF FlowInv, RecvFiled
      <4>2. CASE o \in {payload, ack}
        BY <1>3, <3>1, <4>2
      <4> QED
        BY <2>4, <4>1, <4>2
    <3> QED
      BY <1>1, <2>3, <3>2 DEF FlowInv, RecvFiled
  <2>8. AckEarned'
    <3>1. \A p : SendMet(p)' = SendMet(p)
      BY <1>1 DEF SendMet
    <3>2. SendMet(m.flow)
      BY <1>2, <1>7 DEF FlowInv, AckEarned
    <3>3. ASSUME NEW o \in net', Prot(o) = RENDEZVOUS_GET, ~Sequenced(o)
          PROVE  /\ SendMet(o.flow)
                 /\ o.stage = 2 => \E x \in match : x[1] = o.flow /\ x[2] \in complete
                 /\ o.type = "rdma_get_sent_ack" => ~SoftwareAck
      <4>1. CASE o \in net
        BY <3>3, <4>1 DEF FlowInv, AckEarned
      <4>2. CASE o = payload
        BY <1>3, <3>2, <4>2
      <4>3. CASE o = ack /\ ~SoftwareAck
        BY <1>3, <3>2, <4>3
      <4> QED
        BY <2>4, <4>1, <4>2, <4>3
    <3> QED
      BY <1>1, <2>3, <3>1, <3>3 DEF AckEarned
  <2>9. SendDone'
    BY <1>1, <2>3 DEF FlowInv, SendDone
  <2> QED
    BY <1>1, <2>3, <2>5, <2>6, <2>7, <2>8, <2>9 DEF FlowInv
<1> QED
  BY <1>5, <1>6, <1>7

\* The payload of a rendezvous finds its receive.
LEMMA FlowPayload ==
  ASSUME TypeOK, SequenceInv, OrderInv, FlowInv, program' = program, NEW m \in net,
         Prot(m) = RENDEZVOUS_GET, m.type = "rdma_get_payload",
         RendezvousIncomingPayload(m), held' = held
  PROVE  FlowInv'
<1>f. PICK f : f = m.flow
  OBVIOUS
<1>d. PICK found : found = {x \in recv_flows : x[1] = f}
  OBVIOUS
<1>a. PICK ack : ack = Reuse(m, "smsg_send", m.stage + 1)
  OBVIOUS
<1>1. m.stage = 1 /\ ~Sequenced(m)
  BY DEF TypeOK, SentMessage, WellStaged, Sequenced
<1>2. PICK e \in recv_flows : e[1] = f
  BY <1>f DEF FlowInv, RecvFiled
<1>3. /\ recv_flows' = recv_flows \ found /\ complete' = complete \cup {x[2] : x \in found}
      /\ net' = (net \ {m}) \cup (IF SoftwareAck THEN {ack} ELSE {})
      /\ UNCHANGED <<need_recv_match, match, probelist, send_flows, aborted>>
  <2>1. e \in found
    BY <1>2, <1>d
  <2> QED
    BY <1>f, <1>d, <1>a, <2>1 DEF RendezvousIncomingPayload, matchVars
<1>4. /\ ack.flow = f /\ ack.type = "smsg_send" /\ ack.stage = 2 /\ ~Sequenced(ack)
      /\ Prot(ack) = RENDEZVOUS_GET
  <2>1. ack.flow = f /\ ack.type = "smsg_send" /\ ack.stage = 2
    BY <1>1, <1>f, <1>a DEF Reuse
  <2> QED
    BY <1>f, <2>1 DEF Prot, Sequenced
<1>5. /\ \A o : Prot(o)' = Prot(o) /\ Sequenced(o)' = Sequenced(o) /\ AckDue(o)' = AckDue(o)
      /\ \A p : IsRendezvous(p)' = IsRendezvous(p) /\ CallOf(p)' = CallOf(p)
      /\ SendReq' = SendReq
  BY StableOrder, StableFlows, StableSets
<1>6. Listed' = Listed
  BY <1>3 DEF Listed
<1>7. \A o \in net \cup held \cup Listed : o.flow = f /\ o # m =>
        ~SoftwareAck /\ o.type = "rdma_get_sent_ack"
  BY <1>1, <1>f DEF FlowInv, StepByStep
<1>8. AtOnce(f) /\ m \notin held /\ m \notin Listed
  <2>1. AtOnce(f)
    BY <1>f DEF AtOnce, Prot, EAGER1, RENDEZVOUS_GET
  <2> QED
    BY <1>1, <1>f, <2>1, LaterInNet
<1>9. StepByStep'
  <2> SUFFICES ASSUME NEW x \in net', NEW o \in net' \cup held \cup Listed,
                      ~Sequenced(x), x.flow = o.flow, x # o
               PROVE  /\ Prot(x) = RENDEZVOUS_GET =>
                           /\ ~SoftwareAck
                           /\ \/ x.type = "rdma_get_payload" /\ o.type = "rdma_get_sent_ack"
                              \/ o.type = "rdma_get_payload" /\ x.type = "rdma_get_sent_ack"
                      /\ Prot(x) = DIRECT_PUT => Sequenced(o)
    BY <1>5, <1>6 DEF StepByStep
  <2>1. CASE x.flow = f /\ SoftwareAck
    <3>1. \A y \in net' \cup held \cup Listed : y.flow = f => y = ack
      BY <1>3, <1>7, <1>8, <2>1
    <3> QED
      BY <2>1, <3>1
  <2>2. CASE x.flow # f \/ ~SoftwareAck
    <3>1. x \in net /\ o \in net \cup held \cup Listed
      BY <1>3, <1>4, <2>2
    <3> QED
      BY <3>1 DEF FlowInv, StepByStep
  <2> QED
    BY <2>1, <2>2
<1>10. SendFiled'
  <2>1. SoftwareAck => f \in send_flows
    BY <1>f DEF FlowInv, SendFiled, AckDue
  <2>2. \A o \in net' \cup held \cup Listed : AckDue(o) => o.flow \in send_flows
    BY <1>3, <1>4, <2>1 DEF FlowInv, SendFiled
  <2> QED
    BY <1>3, <1>5, <1>6, <2>2 DEF SendFiled
<1>11. RecvFiled'
  <2>1. ASSUME NEW o \in net', Prot(o) = RENDEZVOUS_GET,
               o.type \in {"rdma_get_request", "rdma_get_payload"}
        PROVE  \E x \in recv_flows' : x[1] = o.flow
    <3>1. o \in net /\ o # m
      BY <1>3, <1>4, <2>1
    <3>2. o.flow # f
      BY <1>7, <2>1, <3>1
    <3>3. PICK x \in recv_flows : x[1] = o.flow
      BY <2>1, <3>1 DEF FlowInv, RecvFiled
    <3>4. x \in recv_flows'
      BY <1>3, <1>d, <3>2, <3>3
    <3> QED
      BY <3>3, <3>4
  <2> QED
    BY <1>3, <1>5, <2>1 DEF FlowInv, RecvFiled
<1>12. match \subseteq match' /\ complete \subseteq complete'
  BY <1>3
<1>13. \E x \in match' : x[1] = f /\ x[2] \in complete'
  <2>1. e \in match /\ e[2] \in complete'
    BY <1>2, <1>3, <1>d DEF FlowInv, RecvFiled
  <2> QED
    BY <1>2, <1>3, <2>1
<1>14. AckEarned'
  <2>1. SendMet(f)'
    BY <1>13 DEF SendMet
  <2>2. ASSUME NEW o \in net', Prot(o) = RENDEZVOUS_GET, ~Sequenced(o)
        PROVE  /\ SendMet(o.flow)'
               /\ o.stage = 2 => \E x \in match' : x[1] = o.flow /\ x[2] \in complete'
               /\ o.type = "rdma_get_sent_ack" => ~SoftwareAck
    <3>1. CASE o \in net
      BY <1>12, <2>2, <3>1, FlowsGrow DEF FlowInv, AckEarned
    <3>2. CASE o = ack
      BY <1>4, <1>13, <2>1, <3>2
    <3> QED
      BY <1>3, <3>1, <3>2
  <2> QED
    BY <1>5, <2>2 DEF AckEarned
<1>15. SendDone'
  <2>1. \A p \in complete' : p \in complete \/ p \notin SendReq
    <3>1. recv_flows \subseteq SendReq \X RecvReq
      BY DEF TypeOK
    <3>2. \A p \in RecvReq : p \notin SendReq
      BY DEF SendReq, RecvReq, SendOps, RecvOps
    <3> QED
      BY <1>3, <1>d, <3>1, <3>2
  <2>2. ASSUME NEW p \in complete', p \in SendReq, IsRendezvous(p)
        PROVE  /\ p \notin send_flows
               /\ \E x \in match' : x[1] = p /\ (SoftwareAck => x[2] \in complete')
    BY <1>12, <2>1, <2>2, FlowsGrow DEF FlowInv, SendDone
  <2> QED
    BY <1>3, <1>5, <2>2 DEF SendDone
<1> QED
  BY <1>3, <1>5, <1>9, <1>10, <1>11, <1>14, <1>15 DEF FlowInv

\* An ack finds its send, and is the last of its flow to need it.
LEMMA FlowAck ==
  ASSUME TypeOK, SequenceInv, OrderInv, FlowInv, program' = program, NEW m \in net,
         \/ Prot(m) = RENDEZVOUS_GET /\ (m.type = "rdma_get_sent_ack" \/ m.stage = 2)
         \/ Prot(m) = DIRECT_PUT /\ m.type = "rdma_put_sent_ack",
         IncomingSendAck(m), held' = held
  PROVE  FlowInv'
<1>f. PICK f : f = m.flow
  OBVIOUS
<1>1. ~Sequenced(m) /\ (Prot(m) = RENDEZVOUS_GET => m.type # "rdma_get_payload")
  <2>1. WellStaged(m)
    BY DEF TypeOK, SentMessage
  <2>2. CASE m.type \in {"rdma_get_sent_ack", "rdma_put_sent_ack"}
    BY <2>2 DEF Sequenced, isNicAck, NicAcks
  <2>3. CASE m.stage = 2
    BY <2>1, <2>3 DEF Sequenced, WellStaged
  <2> QED
    BY <2>2, <2>3
<1>2. AckDue(m) /\ f \in send_flows
  <2>1. AckDue(m)
    BY <1>1 DEF AckDue
  <2> QED
    BY <1>f, <2>1 DEF FlowInv, SendFiled
<1>3. /\ complete' = complete \cup {f} /\ send_flows' = send_flows \ {f} /\ net' = net \ {m}
      /\ UNCHANGED <<need_recv_match, match, probelist, recv_flows, aborted>>
  BY <1>f, <1>2 DEF IncomingSendAck, matchVars
<1>4. AtOnce(f) /\ m \notin held /\ m \notin Listed
  <2>1. AtOnce(f)
    BY <1>f DEF AtOnce, Prot, EAGER1, RENDEZVOUS_GET, DIRECT_PUT
  <2> QED
    BY <1>1, <1>f, <2>1, LaterInNet
<1>5. /\ \A o : Prot(o)' = Prot(o) /\ Sequenced(o)' = Sequenced(o) /\ AckDue(o)' = AckDue(o)
      /\ \A p : IsRendezvous(p)' = IsRendezvous(p) /\ CallOf(p)' = CallOf(p)
      /\ SendReq' = SendReq
  BY StableOrder, StableFlows, StableSets
<1>6. Listed' = Listed
  BY <1>3 DEF Listed
<1>7. StepByStep'
  BY <1>3, <1>5, <1>6 DEF FlowInv, StepByStep
<1>8. SendFiled'
  <2>1. ASSUME NEW o \in (net \ {m}) \cup held \cup Listed, AckDue(o)
        PROVE  o.flow \in send_flows \ {f}
    <3>1. o \in net \cup held \cup Listed /\ o # m /\ o.flow \in send_flows
      BY <1>4, <2>1 DEF FlowInv, SendFiled
    <3>2. ASSUME o.flow = f PROVE FALSE
      <4>1. Prot(o) = Prot(m)
        BY <1>f, <3>2 DEF Prot
      <4>2. CASE Prot(m) = RENDEZVOUS_GET
        <5>1. ~SoftwareAck /\ o.type = "rdma_get_payload"
          BY <1>1, <1>f, <3>1, <3>2, <4>2 DEF FlowInv, StepByStep
        <5> QED
          BY <2>1, <4>1, <4>2, <5>1 DEF AckDue, RENDEZVOUS_GET, DIRECT_PUT
      <4>3. CASE Prot(m) = DIRECT_PUT
        <5>1. Sequenced(o)
          BY <1>1, <1>f, <3>1, <3>2, <4>3 DEF FlowInv, StepByStep
        <5> QED
          BY <2>1, <4>1, <4>3, <5>1 DEF AckDue, Sequenced, isNicAck, NicAcks, RENDEZVOUS_GET, DIRECT_PUT
      <4> QED
        BY <4>2, <4>3
    <3> QED
      BY <3>1, <3>2
  <2> QED
    BY <1>3, <1>5, <1>6, <2>1 DEF SendFiled
<1>9. RecvFiled'
  BY <1>3, <1>5 DEF FlowInv, RecvFiled
<1>10. match \subseteq match' /\ complete \subseteq complete'
  BY <1>3
<1>11. AckEarned'
  <2>1. ASSUME NEW o \in net', Prot(o) = RENDEZVOUS_GET, ~Sequenced(o)
        PROVE  /\ SendMet(o.flow)'
               /\ o.stage = 2 => \E x \in match' : x[1] = o.flow /\ x[2] \in complete'
               /\ o.type = "rdma_get_sent_ack" => ~SoftwareAck
    BY <1>3, <1>10, <2>1, FlowsGrow DEF FlowInv, AckEarned
  <2> QED
    BY <1>5, <2>1 DEF AckEarned
<1>12. SendDone'
  <2>1. ASSUME IsRendezvous(f)
        PROVE  \E x \in match : x[1] = f /\ (SoftwareAck => x[2] \in complete)
    <3>1. Prot(m) = RENDEZVOUS_GET
      BY <1>f, <2>1 DEF IsRendezvous, Prot
    <3>2. m.type = "rdma_get_sent_ack" \/ m.stage = 2
      BY <3>1 DEF RENDEZVOUS_GET, DIRECT_PUT
    <3> QED
      BY <1>1, <1>f, <3>1, <3>2 DEF FlowInv, AckEarned, SendMet
  <2>2. ASSUME NEW p \in complete', p \in SendReq, IsRendezvous(p)
        PROVE  /\ p \notin send_flows'
               /\ \E x \in match' : x[1] = p /\ (SoftwareAck => x[2] \in complete')
    <3>1. CASE p = f
      BY <1>3, <1>10, <2>1, <2>2, <3>1, FlowsGrow
    <3>2. CASE p \in complete
      BY <1>3, <1>10, <2>2, <3>2, FlowsGrow DEF FlowInv, SendDone
    <3> QED
      BY <1>3, <3>1, <3>2
  <2> QED
    BY <1>5, <2>2 DEF SendDone
<1> QED
  BY <1>3, <1>5, <1>7, <1>8, <1>9, <1>11, <1>12 DEF FlowInv

LEMMA ListedGrowth ==
  ASSUME TypeOK, NEW r \in Rank, NEW m, ListEffect(r, m)
  PROVE  Listed' \subseteq Listed \cup {m}
<1> SUFFICES ASSUME NEW o \in Listed' PROVE o \in Listed \cup {m}
  OBVIOUS
<1>1. PICK x \in Rank : \E k \in DOMAIN need_recv_match'[x] : o = need_recv_match'[x][k]
  BY DEF Listed
<1>2. PICK k \in DOMAIN need_recv_match'[x] : o = need_recv_match'[x][k]
  BY <1>1
<1> QED
  BY <1>2, AppendedEntries, ListedEntry

LEMMA FlowFind ==
  ASSUME TypeOK, SequenceInv, OrderInv, FlowInv, OrderInv', program' = program,
         NEW r \in Rank, NEW m \in net \cup held, NEW probes \in SUBSET probelist,
         FindMatchingRecv(r, m, probes), Prot(m) = RENDEZVOUS_GET => Sequenced(m),
         held' = held \ {m}, ListEffect(r, m)
  PROVE  FlowInv'
<1>1. Listed' \subseteq Listed \cup {m}
  BY ListedGrowth
<1>2. \A p \in probelist : CallOf(p).op \in ProbeOps /\ p \notin SendReq
  BY DEF FlowInv, SendReq, SendOps, ProbeOps
<1>3. \A p \in need_send_match : p \notin SendReq
  BY DEF TypeOK, SendReq, RecvReq, SendOps, RecvOps
<1>4. aborted \notin {"no send flow", "no recv flow"}
  BY DEF FlowInv
<1>5. CASE /\ probelist' = probelist \ probes /\ complete' = complete \cup probes
           /\ net' = net \ {m} /\ UNCHANGED <<match, flowVars, aborted>>
  BY <1>1, <1>2, <1>4, <1>5, FlowKept DEF flowVars
<1>6. CASE HandlerAbort(m, "truncated")
  BY <1>1, <1>2, <1>6, FlowKept DEF HandlerAbort, matchVars, flowVars
<1>7. ASSUME NEW req \in postedFor(r, m), IncomingMatched(m, req, probes)
      PROVE  FlowInv'
  <2>1. CASE Prot(m) = RENDEZVOUS_GET
    BY <1>1, <1>7, <2>1, FlowFetch
  <2>2. CASE Prot(m) # RENDEZVOUS_GET
    <3>1. /\ match \subseteq match' /\ probelist' \subseteq probelist /\ net' = net \ {m}
          /\ complete' = complete \cup probes \cup {req}
          /\ UNCHANGED <<send_flows, recv_flows, aborted>>
      BY <1>7, <2>2 DEF IncomingMatched
    <3>2. req \notin SendReq
      BY <1>3 DEF postedFor
    <3> QED
      BY <1>1, <1>2, <1>4, <3>1, <3>2, FlowKept
  <2> QED
    BY <2>1, <2>2
<1> QED
  BY <1>5, <1>6, <1>7 DEF FindMatchingRecv

LEMMA FlowHandled ==
  ASSUME TypeOK, SequenceInv, OrderInv, FlowInv, OrderInv', program' = program,
         NEW r \in Rank, NEW m \in net \cup held, HandlePt2ptMessage(r, m), held' = held \ {m}
  PROVE  FlowInv'
<1>1. m \in SentMessage /\ WellStaged(m) /\ m.stage \in 0 .. 2
  BY MessageEnds DEF TypeOK, SentMessage
<1>2. ListEffect(r, m)
  BY <1>1, HandlerLists
<1>3. Listed' \subseteq Listed \cup {m}
  BY <1>2, ListedGrowth
<1>4. /\ \A p \in probelist : CallOf(p).op \in ProbeOps
      /\ aborted \notin {"no send flow", "no recv flow"}
  BY DEF FlowInv
<1>5. notifyProbes(r, m) \in SUBSET probelist /\ {} \in SUBSET probelist
  BY DEF notifyProbes
<1>6. ASSUME Drop(m) PROVE FlowInv'
  BY <1>3, <1>4, <1>6, FlowKept DEF Drop, matchVars, flowVars
<1>7. ASSUME ~Sequenced(m), Prot(m) \in {RENDEZVOUS_GET, DIRECT_PUT}
      PROVE  m \in net /\ held' = held
  <2>1. AtOnce(m.flow)
    BY <1>7 DEF AtOnce, Prot, EAGER1, RENDEZVOUS_GET, DIRECT_PUT
  <2> QED
    BY <1>7, <2>1, LaterInNet
<1>8. CASE Prot(m) = EAGER0 /\ Eager0Incoming(r, m)
  BY <1>2, <1>5, <1>6, <1>8, FlowFind DEF Eager0Incoming, EAGER0, RENDEZVOUS_GET
<1>9. CASE Prot(m) = EAGER1 /\ Eager1Incoming(r, m)
  <2>1. CASE /\ net' = (net \ {m}) \cup {GetRequest(m)}
             /\ UNCHANGED <<matchVars, flowVars, complete, aborted>>
    <3>1. Prot(GetRequest(m)) = EAGER1
      BY <1>9 DEF GetRequest, Reuse, Prot
    <3> QED
      BY <1>3, <1>4, <2>1, <3>1, FlowKept DEF matchVars, flowVars
  <2>2. CASE FindMatchingRecv(r, m, {})
    BY <1>2, <1>5, <1>9, <2>2, FlowFind DEF EAGER1, RENDEZVOUS_GET
  <2> QED
    BY <1>6, <1>9, <2>1, <2>2 DEF Eager1Incoming
<1>10. CASE Prot(m) = RENDEZVOUS_GET /\ RendezvousIncoming(r, m)
  <2>1. CASE m.type = "smsg_send" /\ m.stage = 0 /\ FindMatchingRecv(r, m, notifyProbes(r, m))
    <3>1. Sequenced(m)
      BY <2>1 DEF Sequenced, isNicAck, NicAcks
    <3> QED
      BY <1>2, <1>5, <2>1, <3>1, FlowFind
  <2>2. CASE m.type = "smsg_send" /\ m.stage > 0 /\ IncomingSendAck(m)
    <3>1. m.stage = 2 /\ ~Sequenced(m)
      BY <1>1, <2>2 DEF WellStaged, Sequenced
    <3> QED
      BY <1>7, <1>10, <2>2, <3>1, FlowAck
  <2>3. CASE m.type = "rdma_get_payload" /\ RendezvousIncomingPayload(m)
    <3>1. ~Sequenced(m)
      BY <1>1, <2>3 DEF WellStaged, Sequenced
    <3> QED
      BY <1>7, <1>10, <2>3, <3>1, FlowPayload
  <2>4. CASE m.type = "rdma_get_sent_ack" /\ IncomingSendAck(m)
    <3>1. ~Sequenced(m)
      BY <2>4 DEF Sequenced, isNicAck, NicAcks
    <3> QED
      BY <1>7, <1>10, <2>4, <3>1, FlowAck
  <2> QED
    BY <1>10, <2>1, <2>2, <2>3, <2>4 DEF RendezvousIncoming
<1>11. CASE Prot(m) = DIRECT_PUT /\ DirectPutIncoming(r, m)
  <2>1. CASE FindMatchingRecv(r, m, {})
    BY <1>2, <1>5, <1>11, <2>1, FlowFind DEF DIRECT_PUT, RENDEZVOUS_GET
  <2>2. CASE m.type = "rdma_put_sent_ack" /\ IncomingSendAck(m)
    <3>1. ~Sequenced(m)
      BY <2>2 DEF Sequenced, isNicAck, NicAcks
    <3> QED
      BY <1>7, <1>11, <2>2, <3>1, FlowAck
  <2> QED
    BY <1>11, <2>1, <2>2 DEF DirectPutIncoming
<1> QED
  BY <1>8, <1>9, <1>10, <1>11 DEF HandlePt2ptMessage

LEMMA FlowRecv ==
  ASSUME TypeOK, SequenceInv, OrderInv, FlowInv, OrderInv', NEW r \in Rank, Recv(r)
  PROVE  FlowInv'
<1>r. PICK req : req = <<r, pc[r]>>
  OBVIOUS
<1>1. program' = program /\ held' = held
  BY DEF Recv, appVars, seqVars, ReturnOrLoop, Return, Enter
<1>2. req \notin SendReq
  <2>1. Calls(r, RecvOps)
    BY DEF Recv
  <2>2. req \in RecvReq
    BY <2>1, <1>r, CurrentCall DEF RecvOps, Ops
  <2> QED
    BY <2>2 DEF SendReq, RecvReq, SendOps, RecvOps
<1>3. Listed' \subseteq Listed
  <2> SUFFICES ASSUME NEW o \in Listed' PROVE o \in Listed
    OBVIOUS
  <2>1. PICK x \in Rank : \E k \in DOMAIN need_recv_match'[x] : o = need_recv_match'[x][k]
    BY DEF Listed
  <2>2. PICK k \in DOMAIN need_recv_match'[x] : o = need_recv_match'[x][k]
    BY <2>1
  <2> QED
    BY <2>2, RecvEntries, ListedEntry
<1>4. /\ \A p \in probelist : CallOf(p).op \in ProbeOps /\ p \notin SendReq
      /\ aborted \notin {"no send flow", "no recv flow"}
  BY DEF FlowInv, SendReq, SendOps, ProbeOps
<1>5. CASE UNCHANGED <<need_recv_match, probelist, match, flowVars, complete, net, aborted>>
  BY <1>1, <1>3, <1>4, <1>5, FlowKept DEF flowVars
<1>6. ASSUME NEW m, HandlerAbort(m, "truncated") PROVE FlowInv'
  BY <1>1, <1>3, <1>4, <1>6, FlowKept DEF HandlerAbort, matchVars, flowVars
<1>7. ASSUME NEW m \in Listed, NEW probes \in SUBSET probelist, IncomingMatched(m, req, probes)
      PROVE  FlowInv'
  <2>1. CASE Prot(m) = RENDEZVOUS_GET
    <3>1. Sequenced(m)
      BY <2>1 DEF OrderInv, FitInv, AtOnce, Prot, EAGER1, RENDEZVOUS_GET
    <3> QED
      BY <1>1, <1>3, <1>7, <2>1, <3>1, FlowFetch
  <2>2. CASE Prot(m) # RENDEZVOUS_GET
    <3>1. /\ match \subseteq match' /\ probelist' \subseteq probelist /\ net' = net \ {m}
          /\ complete' = complete \cup probes \cup {req}
          /\ UNCHANGED <<send_flows, recv_flows, aborted>>
      BY <1>7, <2>2 DEF IncomingMatched
    <3> QED
      BY <1>1, <1>2, <1>3, <1>4, <3>1, FlowKept
  <2> QED
    BY <2>1, <2>2
<1>8. \A k \in unexpectedFor(req) : need_recv_match[r][k] \in Listed
  BY <1>r, ListedEntry DEF unexpectedFor
<1>9. \A m : (IF Prot(m) = EAGER0 THEN notifyProbes(r, m) ELSE {}) \in SUBSET probelist
  BY DEF notifyProbes
<1>10. \/ UNCHANGED <<need_recv_match, probelist, match, flowVars, complete, net, aborted>>
       \/ \E k \in unexpectedFor(req) :
            \/ HandlerAbort(need_recv_match[r][k], "truncated")
            \/ IncomingMatched(need_recv_match[r][k], req,
                 IF Prot(need_recv_match[r][k]) = EAGER0 THEN notifyProbes(r, need_recv_match[r][k]) ELSE {})
  BY <1>r DEF Recv
<1> QED
  BY <1>5, <1>6, <1>7, <1>8, <1>9, <1>10

LEMMA FlowStep ==
  TypeOK /\ SequenceInv /\ NoMatchablePair /\ OrderInv /\ FlowInv /\ [Next]_vars => FlowInv'
<1> SUFFICES ASSUME TypeOK, SequenceInv, NoMatchablePair, OrderInv, FlowInv, [Next]_vars
             PROVE  FlowInv'
  OBVIOUS
<1>0. OrderInv'
  BY OrderStep
<1>1. /\ \A p \in probelist : CallOf(p).op \in ProbeOps
      /\ aborted \notin {"no send flow", "no recv flow"}
  BY DEF FlowInv
<1>2. ASSUME program' = program, UNCHANGED <<net, held, need_recv_match, send_flows, recv_flows, match, aborted>>,
             complete \subseteq complete',
             \A f \in complete' : f \in complete \/ f \notin SendReq,
             \A p \in probelist' : CallOf(p).op \in ProbeOps
      PROVE  FlowInv'
  <2>1. Listed' = Listed
    BY <1>2 DEF Listed
  <2> QED
    BY <1>1, <1>2, <2>1, FlowKept
<1>3. CASE UNCHANGED vars
  BY <1>1, <1>2, <1>3 DEF vars
<1>4. ASSUME NEW r \in Rank, AppCall(r) PROVE FlowInv'
  <2>1. CASE Send(r)
    BY <2>1, FlowSend
  <2>2. CASE Recv(r)
    BY <1>0, <2>2, FlowRecv
  <2>3. CASE ProcNullCall(r)
    <3>1. <<r, pc[r]>> \notin SendReq
      BY <2>3, WildcardAssumption DEF ProcNullCall, SendReq, CallOf
    <3> QED
      BY <1>1, <1>2, <2>3, <3>1 DEF ProcNullCall, Return, seqVars, matchVars, flowVars
  <2>4. CASE Iprobe(r) \/ Test(r) \/ Wait(r)
    BY <1>1, <1>2, <2>4 DEF Iprobe, Test, Wait, Return, Enter, seqVars, matchVars, flowVars
  <2>5. CASE Probe(r)
    <3>1. CallOf(<<r, pc[r]>>).op \in ProbeOps /\ <<r, pc[r]>> \notin SendReq
      BY <2>5 DEF Probe, Calls, CallOf, ProbeOps, SendReq, SendOps
    <3>2. /\ program' = program
          /\ UNCHANGED <<net, held, need_recv_match, send_flows, recv_flows, match, aborted>>
          /\ complete \subseteq complete' /\ complete' \subseteq complete \cup {<<r, pc[r]>>}
          /\ probelist' \subseteq probelist \cup {<<r, pc[r]>>}
      BY <2>5 DEF Probe, Enter, seqVars, flowVars
    <3> QED
      BY <1>1, <1>2, <3>1, <3>2
  <2> QED
    BY <1>4, <2>1, <2>2, <2>3, <2>4, <2>5 DEF AppCall
<1>5. ASSUME NEW r \in Rank, EndLoop(r) PROVE FlowInv'
  BY <1>1, <1>2, <1>5 DEF EndLoop, seqVars, matchVars, flowVars
<1>6. ASSUME NEW r \in Rank, FinalizeBarrier(r) PROVE FlowInv'
  <2>1. <<r, pc[r]>> \notin SendReq
    BY <1>6 DEF FinalizeBarrier, SendReq, SendOps, CallOf
  <2> QED
    BY <1>1, <1>2, <1>6, <2>1 DEF FinalizeBarrier, appVars, seqVars, matchVars, flowVars
<1>7. ASSUME NEW r \in Rank, DrainHeld(r) PROVE FlowInv'
  <2>1. PICK m \in held : HandlePt2ptMessage(r, m) /\ held' = held \ {m}
    BY <1>7 DEF DrainHeld, heldDue
  <2>2. program' = program
    BY <1>7 DEF DrainHeld
  <2> QED
    BY <1>0, <2>1, <2>2, FlowHandled
<1>8. ASSUME NEW m \in net, NicGet(m) PROVE FlowInv'
  BY <1>8, FlowNicGet
<1>9. ASSUME NEW r \in Rank, NEW m \in net, Incoming(r, m) PROVE FlowInv'
  <2>1. program' = program /\ m \notin held
    BY <1>9, TakenType
    DEF Incoming, IncomingStaged, IncomingInOrder, IncomingOutOfOrder, OrderInv, PlaceInv
  <2>2. CASE HandlePt2ptMessage(r, m) /\ held' = held
    BY <1>0, <2>1, <2>2, FlowHandled
  <2>3. CASE IncomingOutOfOrder(r, m)
    <3>1. /\ net' = net \ {m} /\ held' \subseteq held \cup {m}
          /\ UNCHANGED <<need_recv_match, match, probelist, send_flows, recv_flows, complete>>
          /\ aborted' \in {aborted, "sequence"}
      BY <2>3 DEF IncomingOutOfOrder, HandlerAbort, matchVars, flowVars
    <3>2. Listed' = Listed
      BY <3>1 DEF Listed
    <3> QED
      BY <1>1, <2>1, <3>1, <3>2, FlowKept
  <2> QED
    BY <1>9, <2>2, <2>3 DEF Incoming, IncomingStaged, IncomingInOrder
<1> QED
  BY <1>3, <1>4, <1>5, <1>6, <1>7, <1>8, <1>9 DEF Next

LEMMA FlowInit == Init => FlowInv
<1> SUFFICES ASSUME Init PROVE FlowInv
  OBVIOUS
<1>1. /\ net = {} /\ held = {} /\ recv_flows = {} /\ complete = {} /\ probelist = {} /\ aborted = "no"
      /\ \A r \in Rank : need_recv_match[r] = <<>>
  BY DEF Init
<1>2. Listed = {}
  BY <1>1 DEF Listed
<1> QED
  BY <1>1, <1>2 DEF FlowInv, StepByStep, SendFiled, RecvFiled, AckEarned, SendDone

LEMMA FlowCorrect == Spec => [](SequenceInv /\ FlowInv)
<1>1. Init => NoMatchablePair
  BY DEF Init, NoMatchablePair
<1>2. Spec => [](TypeOK /\ SequenceInv /\ NoMatchablePair /\ OrderInv /\ FlowInv)
  BY <1>1, FlowInit, TypeInit, TypeStep, SequenceInit, SequenceStep, NoPairStep, OrderInit, OrderStep,
     FlowStep, PTL DEF Spec
<1> QED
  BY <1>2, PTL

(***************************************************************************)
(* No consistency check of the queue or the protocols ever aborts a run:   *)
(* no sequence number comes in twice or late, every ack finds its send in  *)
(* send_flows_ and every RDMA payload its receive in recv_flows_.          *)
(***************************************************************************)
THEOREM ProtocolsNeverAbort == Spec => []NoProtocolAbort
<1>1. SequenceInv /\ FlowInv => NoProtocolAbort
  BY FlowSafe
<1> QED
  BY <1>1, FlowCorrect, PTL

(***************************************************************************)
(* A rendezvous send is complete only after its header was matched and its *)
(* user buffer read, and with software acks after the receive is complete. *)
(***************************************************************************)
THEOREM RendezvousCompletesLate == Spec => []RendezvousCompletion
<1>1. SequenceInv /\ FlowInv => RendezvousCompletion
  BY FlowSafe
<1> QED
  BY <1>1, FlowCorrect, PTL

-----------------------------------------------------------------------------
(***************************************************************************)
(* Nothing wedges a job                                                    *)
(***************************************************************************)

\* Every task calls MPI_Finalize, last and once.
EndsInFinalize(p) ==
  \A r \in Rank :
    /\ Len(p[r]) > 0
    /\ \A i \in DOMAIN p[r] : p[r][i].op = "finalize" <=> i = Len(p[r])
ProgramsFinalize == \A p \in Programs : EndsInFinalize(p)

\* A task is done after its barrier, and then everybody is in it.
ControlInv ==
  /\ EndsInFinalize(program)
  /\ \A r \in Rank :
       /\ pc[r] <= Len(program[r]) + 1
       /\ mode[r] # "run" => pc[r] <= Len(program[r])
       /\ mode[r] \in {"poll", "polled"} => program[r][pc[r]].op \in {"iprobe", "test"}
       /\ pc[r] > Len(program[r]) => <<r, Len(program[r])>> \in complete
       /\ <<r, Len(program[r])>> \in complete => \A q \in Rank : InFinalize(q)

\* Every number between the two counters is under way.
NoGaps ==
  aborted = "no" =>
    \A r, s \in Rank : \A n \in Nat :
      (next_inbound[r][s] <= n /\ n < next_outbound[s][r]) =>
        \E m \in UnderWay : Src(m) = s /\ Dst(m) = r /\ m.seqnum = n

\* What a receive, and a send, still waits for.
Fetching(m) ==
  Prot(m) = RENDEZVOUS_GET /\ m.type \in {"rdma_get_request", "rdma_get_payload"}
RecvDue(f) == \E m \in net : m.flow = f /\ Fetching(m)
SendDue(f) == \E m \in net \cup held \cup Listed : m.flow = f /\ AckDue(m)
WaitsForAck(f) == ProtocolFor(CallOf(f)) \in {RENDEZVOUS_GET, DIRECT_PUT}

\* A receive that is filed has its data on the way, a send its ack ...
Awaits ==
  aborted = "no" =>
    /\ \A x \in recv_flows : RecvDue(x[1])
    /\ \A f \in send_flows : WaitsForAck(f) => SendDue(f)

\* ... and a request that was started and met its partner, or needs none, is
\* complete or filed.
NullReq == {q \in Request : /\ q[2] \in DOMAIN program[q[1]]
                            /\ CallOf(q).op \in SendOps \cup RecvOps
                            /\ CallOf(q).peer = ProcNull}
Recorded ==
  /\ \A x \in match : x[2] \in complete \/ x \in recv_flows
  /\ \A f \in SendReq : Started(f) => f \in complete \/ (f \in send_flows /\ WaitsForAck(f))
  /\ \A q \in NullReq : Started(q) => q \in complete

AwaitInv == Awaits /\ Recorded

\* Only the application is to blame when nothing can happen any more.
LEMMA StuckSafe ==
  ASSUME TypeOK, SequenceInv, OrderInv, ControlInv, NoGaps, AwaitInv
  PROVE  StuckOnlyIfUnmatched
<1> SUFFICES ASSUME Stuck
             PROVE  /\ held = {}
                    /\ recv_flows = {}
                    /\ \A r \in Rank : ~Done(r) =>
                         /\ CallOf(LoopRequest(r)).op \in RecvOps => LoopRequest(r) \in need_send_match
                         /\ CallOf(LoopRequest(r)).op \in SendOps =>
                              \E k \in DOMAIN need_recv_match[CallOf(LoopRequest(r)).peer] :
                                need_recv_match[CallOf(LoopRequest(r)).peer][k].flow = LoopRequest(r)
  BY DEF StuckOnlyIfUnmatched
<1>1. aborted = "no" /\ \A r \in Rank : <<r, Len(program[r])>> \notin complete
  BY DEF Stuck, ControlInv
<1>2. ASSUME NEW r \in Rank
      PROVE  /\ pc[r] \in DOMAIN program[r] /\ mode[r] = "loop" /\ drain[r] = NoRank
             /\ LoopRequest(r) \notin complete
             /\ \A m \in net : targetRank(m) # r
  <2>0. program[r] \in Seq(Call) /\ pc[r] \in Nat \ {0}
    BY DEF TypeOK
  <2>1. program[r] \in Seq(Call) /\ Len(program[r]) \in Nat /\ pc[r] \in Nat \ {0}
    BY <2>0
  <2>2. ~(pc[r] > Len(program[r]))
    BY <1>1 DEF ControlInv
  <2>3. pc[r] \in DOMAIN program[r]
    BY <2>1, <2>2
  <2> QED
    BY <2>3 DEF Stuck, Done
<1>3. net = {}
  <2>1. \A m \in net : targetRank(m) \in Rank
    BY RecordTypes DEF targetRank
  <2> QED
    BY <1>2, <2>1
<1>4. held = {}
  <2> SUFFICES ASSUME NEW m \in held PROVE FALSE
    OBVIOUS
  <2>1. m \in SentMessage /\ Sequenced(m) /\ Src(m) \in Rank /\ Dst(m) \in Rank
    BY RecordTypes DEF SequenceInv, HeldAhead
  <2>2. PICK n : n = next_inbound[Dst(m)][Src(m)]
    OBVIOUS
  <2>3. n \in Nat /\ next_outbound[Src(m)][Dst(m)] \in Nat /\ m.seqnum \in Nat
    BY <2>1, <2>2, MessageEnds DEF TypeOK
  <2>4. n <= m.seqnum /\ m.seqnum < next_outbound[Src(m)][Dst(m)]
    BY <2>1, <2>2 DEF SequenceInv, NotCountedYet
  <2>5. n <= n /\ n < next_outbound[Src(m)][Dst(m)]
    BY <2>3, <2>4
  <2>6. PICK o \in UnderWay : Src(o) = Src(m) /\ Dst(o) = Dst(m) /\ o.seqnum = n
    BY <1>1, <2>1, <2>2, <2>3, <2>5 DEF NoGaps
  <2>7. o \in held
    BY <1>3, <2>6 DEF UnderWay
  <2>8. drain[Dst(m)] = Src(m)
    BY <2>2, <2>6, <2>7 DEF SequenceInv, HeldAhead
  <2> QED
    BY <1>2, <2>1, <2>8, WildcardAssumption
<1>5. recv_flows = {}
  BY <1>1, <1>3 DEF AwaitInv, Awaits, RecvDue
<1>6. ASSUME NEW r \in Rank, NEW q, q = LoopRequest(r)
      PROVE  /\ CallOf(q).op \in RecvOps => q \in need_send_match
             /\ CallOf(q).op \in SendOps =>
                  \E k \in DOMAIN need_recv_match[CallOf(q).peer] :
                    need_recv_match[CallOf(q).peer][k].flow = q
  <2>1. q \in Request /\ q[2] \in DOMAIN program[q[1]] /\ Started(q) /\ q \notin complete
    <3>0. /\ program[r] \in Seq(Call) /\ pc[r] \in Nat /\ pc[r] \in DOMAIN program[r]
          /\ mode[r] = "loop" /\ q \notin complete
      BY <1>2, <1>6 DEF TypeOK
    <3>1. CASE program[r][pc[r]].op = "wait"
      <4>1. q = <<r, program[r][pc[r]].req>>
        BY <1>6, <3>1 DEF LoopRequest
      <4>2. program[r][pc[r]].req \in 1 .. (pc[r] - 1)
        BY <3>0, <3>1 DEF TypeOK, WellFormed, WaitOps
      <4>3. program[r][pc[r]].req \in DOMAIN program[r] /\ program[r][pc[r]].req \in Nat
        BY <3>0, <4>2
      <4> QED
        BY <3>0, <4>1, <4>2, <4>3 DEF Request, Started
    <3>2. CASE program[r][pc[r]].op # "wait"
      <4>1. q = <<r, pc[r]>>
        BY <1>6, <3>2 DEF LoopRequest
      <4> QED
        BY <3>0, <4>1 DEF Request, Started
    <3> QED
      BY <3>1, <3>2
  <2>2. CallOf(q).op \in SendOps \cup RecvOps => CallOf(q).peer # ProcNull
    BY <2>1 DEF AwaitInv, Recorded, NullReq
  <2>3. ASSUME CallOf(q).op \in RecvOps PROVE q \in need_send_match
    <3>1. q \in Requests(RecvOps)
      BY <2>1, <2>2, <2>3, RequestSets DEF RecvReq
    <3>2. RecvMet(q) \/ q \in need_send_match
      BY <1>1, <2>1, <3>1 DEF OrderInv, RecvInv
    <3>3. ~RecvMet(q)
      BY <1>5, <2>1 DEF RecvMet, AwaitInv, Recorded
    <3> QED
      BY <3>2, <3>3
  <2>4. ASSUME CallOf(q).op \in SendOps
        PROVE  \E k \in DOMAIN need_recv_match[CallOf(q).peer] :
                 need_recv_match[CallOf(q).peer][k].flow = q
    <3>1. q \in SendReq
      <4>1. CallOf(q).peer \in Rank \cup {ProcNull}
        BY <2>1, <2>4 DEF TypeOK, WellFormed, CallOf, Request
      <4> QED
        BY <2>1, <2>2, <2>4, <4>1 DEF SendReq
    <3>2. SendDue(q)
      BY <1>1, <2>1, <3>1 DEF AwaitInv, Awaits, Recorded
    <3>3. PICK m \in Listed : m.flow = q
      BY <1>3, <1>4, <3>2 DEF SendDue
    <3>4. PICK x \in Rank : \E k \in DOMAIN need_recv_match[x] : m = need_recv_match[x][k]
      BY ListedEntry
    <3>5. PICK k \in DOMAIN need_recv_match[x] : m = need_recv_match[x][k]
      BY <3>4
    <3>6. Dst(m) = x
      BY <3>5 DEF SequenceInv, UnexpectedCounted
    <3>7. x = CallOf(q).peer
      BY <3>3, <3>6 DEF Dst
    <3> QED
      BY <3>3, <3>5, <3>7
  <2> QED
    BY <2>3, <2>4
<1> QED
  BY <1>4, <1>5, <1>6

(***************************************************************************)
(* Numbers have no gaps                                                    *)
(***************************************************************************)

\* No number is counted or given, and no first message is lost.
LEMMA GapsKept ==
  ASSUME NoGaps, program' = program, UNCHANGED <<next_inbound, next_outbound>>,
         aborted' = "no" => aborted = "no" /\ \A o \in UnderWay : o \in net' \cup held'
  PROVE  NoGaps'
<1>1. \A o : Src(o)' = Src(o) /\ Dst(o)' = Dst(o) /\ Sequenced(o)' = Sequenced(o)
  BY StableOrder
<1>2. aborted' = "no" => UnderWay \subseteq UnderWay'
  BY <1>1 DEF UnderWay
<1> QED
  BY <1>1, <1>2 DEF NoGaps

\* The message whose turn it is leaves no gap behind.
LEMMA GapsCounted ==
  ASSUME TypeOK, SequenceInv, OrderInv, NoGaps, NEW r \in Rank, NEW m, Handles(r, m), Sequenced(m),
         next_inbound' = [next_inbound EXCEPT ![r][Src(m)] = @ + 1],
         next_outbound' = next_outbound
  PROVE  NoGaps'
<1>1. /\ m \in net \cup held /\ targetRank(m) = r /\ itsTurn(r, m) /\ program' = program
      /\ aborted = "no"
  BY DEF Handles
<1>2. \A o : Src(o)' = Src(o) /\ Dst(o)' = Dst(o) /\ Sequenced(o)' = Sequenced(o)
  BY <1>1, StableOrder
<1>3. /\ Src(m) \in Rank /\ Dst(m) = r /\ m.seqnum = next_inbound[r][Src(m)]
      /\ next_inbound \in [Rank -> [Rank -> Nat]]
  BY <1>1, RecordTypes, SequencedTarget DEF itsTurn, TypeOK
<1>4. ASSUME NEW x \in Rank, NEW s \in Rank, NEW n \in Nat,
             next_inbound'[x][s] <= n, n < next_outbound'[s][x]
      PROVE  \E o \in UnderWay' : Src(o) = s /\ Dst(o) = x /\ o.seqnum = n
  <2>1. /\ next_inbound'[x][s] = IF x = r /\ s = Src(m) THEN next_inbound[x][s] + 1 ELSE next_inbound[x][s]
        /\ next_inbound[x][s] \in Nat
    BY <1>3, CountValue
  <2>2. next_inbound[x][s] <= n /\ n < next_outbound[s][x]
    BY <1>4, <2>1
  <2>3. PICK o \in UnderWay : Src(o) = s /\ Dst(o) = x /\ o.seqnum = n
    BY <1>1, <2>2 DEF NoGaps
  <2>4. o # m
    BY <1>3, <1>4, <2>1, <2>3
  <2>5. o \in net' \cup held'
    BY <2>4, HandledGone
  <2>6. o \in UnderWay'
    BY <1>2, <2>5 DEF UnderWay
  <2> QED
    BY <2>3, <2>6
<1> QED
  BY <1>2, <1>4 DEF NoGaps

\* A send gives the next number to its message.
LEMMA GapsSend ==
  ASSUME TypeOK, SequenceInv, NoGaps, NEW r \in Rank, Send(r)
  PROVE  NoGaps'
<1>1. PICK m \in SentMessage :
        /\ Sequenced(m) /\ Src(m) = r
        /\ m.seqnum = next_outbound[r][Dst(m)]
        /\ next_outbound' = [next_outbound EXCEPT ![r][Dst(m)] = @ + 1]
        /\ net \cup {m} \subseteq net'
  BY SendType
<1>2. /\ program' = program /\ UNCHANGED <<next_inbound, held, aborted>>
  BY DEF Send, ReturnOrLoop, Return, Enter
<1>3. \A o : Src(o)' = Src(o) /\ Dst(o)' = Dst(o) /\ Sequenced(o)' = Sequenced(o)
  BY <1>2, StableOrder
<1>4. Dst(m) \in Rank /\ next_outbound \in [Rank -> [Rank -> Nat]]
  BY <1>1, MessageEnds DEF TypeOK
<1>5. UnderWay \cup {m} \subseteq UnderWay'
  BY <1>1, <1>2, <1>3 DEF UnderWay
<1>6. ASSUME NEW x \in Rank, NEW s \in Rank, NEW n \in Nat, aborted = "no",
             next_inbound[x][s] <= n, n < next_outbound'[s][x]
      PROVE  \E o \in UnderWay' : Src(o) = s /\ Dst(o) = x /\ o.seqnum = n
  <2>1. /\ next_outbound'[s][x] =
             IF s = r /\ x = Dst(m) THEN next_outbound[s][x] + 1 ELSE next_outbound[s][x]
        /\ next_outbound[s][x] \in Nat
    BY <1>1, <1>4, CountValue
  <2>2. CASE n < next_outbound[s][x]
    BY <1>5, <1>6, <2>2 DEF NoGaps
  <2>3. CASE ~(n < next_outbound[s][x])
    <3>1. s = r /\ x = Dst(m) /\ n = next_outbound[s][x]
      BY <1>6, <2>1, <2>3
    <3> QED
      BY <1>1, <1>5, <3>1
  <2> QED
    BY <2>2, <2>3
<1> QED
  BY <1>2, <1>3, <1>6 DEF NoGaps

\* What MPI_Recv takes from need_recv_match_ was counted before.
LEMMA GapsRecv ==
  ASSUME TypeOK, SequenceInv, NoGaps, NEW r \in Rank, Recv(r)
  PROVE  NoGaps'
<1>1. /\ program' = program /\ UNCHANGED <<next_inbound, next_outbound, held>> /\ aborted = "no"
  BY DEF Recv, Calls, appVars, seqVars, ReturnOrLoop, Return, Enter
<1>2. ASSUME NEW k \in DOMAIN need_recv_match[r]
      PROVE  need_recv_match[r][k] \notin UnderWay
  <2>1. PICK m : m = need_recv_match[r][k]
    OBVIOUS
  <2>2. m \in Listed
    BY <2>1, ListedEntry
  <2>3. Dst(m) = r /\ (Sequenced(m) => m.seqnum < next_inbound[r][Src(m)])
    BY <2>1 DEF SequenceInv, UnexpectedCounted
  <2>4. m.seqnum \in Nat /\ next_inbound[r][Src(m)] \in Nat
    BY <2>2, RecordTypes DEF TypeOK
  <2> QED
    BY <2>1, <2>3, <2>4 DEF SequenceInv, NotCountedYet, UnderWay
<1>3. \/ net' = net \/ aborted' # "no"
      \/ \E k \in DOMAIN need_recv_match[r] : net \ {need_recv_match[r][k]} \subseteq net'
  BY DEF Recv, HandlerAbort, IncomingMatched, unexpectedFor
<1>4. aborted' = "no" => \A o \in UnderWay : o \in net' \cup held'
  BY <1>1, <1>2, <1>3 DEF UnderWay
<1> QED
  BY <1>1, <1>4, GapsKept

LEMMA GapsStep ==
  TypeOK /\ SequenceInv /\ OrderInv /\ NoGaps /\ [Next]_vars => NoGaps'
<1> SUFFICES ASSUME TypeOK, SequenceInv, OrderInv, NoGaps, [Next]_vars PROVE NoGaps'
  OBVIOUS
<1>1. ASSUME program' = program, UNCHANGED <<net, seqVars, aborted>> PROVE NoGaps'
  BY <1>1, GapsKept DEF seqVars, UnderWay
<1>2. CASE UNCHANGED vars
  BY <1>1, <1>2 DEF vars, seqVars
<1>3. ASSUME NEW r \in Rank, AppCall(r) PROVE NoGaps'
  <2>1. CASE Send(r)
    BY <2>1, GapsSend
  <2>2. CASE Recv(r)
    BY <2>2, GapsRecv
  <2>3. CASE ProcNullCall(r) \/ Probe(r) \/ Iprobe(r) \/ Test(r) \/ Wait(r)
    BY <1>1, <2>3 DEF ProcNullCall, Probe, Iprobe, Test, Wait, Return, Enter
  <2> QED
    BY <1>3, <2>1, <2>2, <2>3 DEF AppCall
<1>4. ASSUME NEW r \in Rank, EndLoop(r) \/ FinalizeBarrier(r) PROVE NoGaps'
  BY <1>1, <1>4 DEF EndLoop, FinalizeBarrier, appVars
<1>5. ASSUME NEW r \in Rank, DrainHeld(r) PROVE NoGaps'
  <2>1. next_outbound' = next_outbound
    BY <1>5 DEF DrainHeld
  <2> QED
    BY <1>5, <2>1, DrainHandles, GapsCounted
<1>6. ASSUME NEW m \in net, NicGet(m) PROVE NoGaps'
  <2>1. /\ program' = program /\ UNCHANGED seqVars /\ aborted' = aborted /\ ~Sequenced(m)
        /\ net \ {m} \subseteq net'
    BY <1>6, NicGetType DEF NicGet
  <2> QED
    BY <2>1, GapsKept DEF seqVars, UnderWay
<1>7. ASSUME NEW r \in Rank, NEW m \in net, Incoming(r, m) PROVE NoGaps'
  <2>1. Taken(r, m)
    BY <1>7 DEF Incoming, IncomingStaged, IncomingInOrder, IncomingOutOfOrder
  <2>2. program' = program /\ next_outbound' = next_outbound /\ aborted = "no"
    BY <2>1 DEF Taken, Polling
  <2>3. CASE IncomingStaged(r, m)
    <3>1. Handles(r, m) /\ ~Sequenced(m) /\ next_inbound' = next_inbound
      BY <2>1, <2>3, IncomingHandles DEF IncomingStaged
    <3>2. \A o \in UnderWay : o \in net' \cup held'
      BY <3>1, HandledGone DEF UnderWay
    <3> QED
      BY <2>2, <3>1, <3>2, GapsKept
  <2>4. CASE IncomingInOrder(r, m)
    <3>1. /\ Handles(r, m) /\ Sequenced(m)
          /\ next_inbound' = [next_inbound EXCEPT ![r][Src(m)] = @ + 1]
      BY <2>1, <2>4, IncomingHandles DEF IncomingInOrder
    <3> QED
      BY <2>2, <3>1, GapsCounted
  <2>5. CASE IncomingOutOfOrder(r, m)
    <3>1. /\ net' = net \ {m} /\ next_inbound' = next_inbound
          /\ (held' = held \cup {m} \/ aborted' = "sequence")
      BY <2>5 DEF IncomingOutOfOrder, HandlerAbort
    <3> QED
      BY <2>2, <3>1, GapsKept DEF UnderWay
  <2> QED
    BY <1>7, <2>3, <2>4, <2>5 DEF Incoming
<1> QED
  BY <1>2, <1>3, <1>4, <1>5, <1>6, <1>7 DEF Next

(***************************************************************************)
(* Nobody is done before everybody is in MPI_Finalize                      *)
(***************************************************************************)

\* MPI_Finalize is completed by its barrier only.
Completes ==
  /\ complete \subseteq complete'
  /\ \A q \in complete' : q \in complete \/ CallOf(q).op # "finalize"

\* The last call of a task, and what the invariant says of it.
LEMMA LastCall ==
  ASSUME TypeOK, ControlInv, NEW r \in Rank
  PROVE  /\ Len(program[r]) \in Nat \ {0} /\ DOMAIN program[r] = 1 .. Len(program[r])
         /\ pc[r] \in Nat \ {0}
         /\ CallOf(<<r, Len(program[r])>>).op = "finalize"
         /\ \A i \in DOMAIN program[r] : program[r][i].op = "finalize" => i = Len(program[r])
<1>1. program[r] \in Seq(Call) /\ pc[r] \in Nat \ {0}
  BY DEF TypeOK
<1>2. Len(program[r]) \in Nat /\ DOMAIN program[r] = 1 .. Len(program[r])
  BY <1>1
<1>3. Len(program[r]) > 0 /\ \A i \in DOMAIN program[r] : program[r][i].op = "finalize" <=> i = Len(program[r])
  BY DEF ControlInv, EndsInFinalize
<1> QED
  BY <1>1, <1>2, <1>3 DEF CallOf

LEMMA ControlKept ==
  ASSUME TypeOK, ControlInv, UNCHANGED <<program, pc>>, Completes,
         \A r \in Rank : \/ mode'[r] = mode[r]
                         \/ mode[r] = "poll" /\ mode'[r] = "polled"
  PROVE  ControlInv'
<1>1. \A r \in Rank : <<r, Len(program[r])>> \in complete' <=> <<r, Len(program[r])>> \in complete
  BY LastCall DEF Completes
<1>2. \A r \in Rank : InFinalize(r) => InFinalize(r)'
  BY DEF InFinalize
<1>3. EndsInFinalize(program)'
  BY DEF ControlInv, EndsInFinalize
<1> QED
  BY <1>1, <1>2, <1>3 DEF ControlInv

\* A call that is not the last returns, or is entered.
LEMMA ControlCall ==
  ASSUME TypeOK, ControlInv, NEW r \in Rank, NEW ops, Calls(r, ops), Completes,
         \/ Return(r) /\ program[r][pc[r]].op # "finalize"
         \/ Enter(r, "loop")
         \/ Enter(r, "poll") /\ program[r][pc[r]].op \in {"iprobe", "test"}
  PROVE  ControlInv'
<1>1. /\ mode[r] = "run" /\ pc[r] \in DOMAIN program[r]
      /\ mode \in [Rank -> {"run", "loop", "poll", "polled"}] /\ pc \in [Rank -> Nat \ {0}]
  BY DEF Calls, TypeOK
<1>2. ~InFinalize(r)
  BY <1>1 DEF InFinalize
<1>3. \A s \in Rank : <<s, Len(program[s])>> \notin complete'
  <2>1. \A s \in Rank : <<s, Len(program[s])>> \notin complete
    BY <1>2 DEF ControlInv
  <2> QED
    BY <2>1, LastCall DEF Completes
<1>4. program' = program /\ EndsInFinalize(program)'
  BY DEF Return, Enter, ControlInv, EndsInFinalize
<1>5. ASSUME NEW s \in Rank
      PROVE  /\ pc'[s] <= Len(program[s]) + 1 /\ ~(pc'[s] > Len(program[s]))
             /\ mode'[s] # "run" => pc'[s] <= Len(program[s])
             /\ mode'[s] \in {"poll", "polled"} => program[s][pc'[s]].op \in {"iprobe", "test"}
  <2>1. /\ Len(program[s]) \in Nat /\ pc[s] \in Nat /\ pc[s] <= Len(program[s])
        /\ mode[s] \in {"poll", "polled"} => program[s][pc[s]].op \in {"iprobe", "test"}
    <3>1. ~(pc[s] > Len(program[s])) /\ Len(program[s]) \in Nat /\ pc[s] \in Nat
      BY <1>3, LastCall DEF ControlInv, Completes
    <3>2. mode[s] \in {"poll", "polled"} => program[s][pc[s]].op \in {"iprobe", "test"}
      BY DEF ControlInv
    <3> QED
      BY <3>1, <3>2
  <2>2. CASE s # r
    <3>1. pc'[s] = pc[s] /\ mode'[s] = mode[s]
      BY <1>1, <2>2 DEF Return, Enter
    <3> QED
      BY <2>1, <3>1
  <2>3. CASE s = r /\ Return(r) /\ program[r][pc[r]].op # "finalize"
    <3>1. pc'[s] = pc[s] + 1 /\ mode'[s] = "run"
      BY <1>1, <2>3 DEF Return
    <3>2. pc[s] # Len(program[s])
      BY <2>3, LastCall DEF CallOf
    <3> QED
      BY <2>1, <3>1, <3>2
  <2>4. CASE s = r /\ Enter(r, "loop")
    <3>1. pc'[s] = pc[s] /\ mode'[s] = "loop"
      BY <1>1, <2>4 DEF Enter
    <3> QED
      BY <2>1, <3>1
  <2>5. CASE s = r /\ Enter(r, "poll") /\ program[r][pc[r]].op \in {"iprobe", "test"}
    <3>1. pc'[s] = pc[s] /\ mode'[s] = "poll"
      BY <1>1, <2>5 DEF Enter
    <3> QED
      BY <2>1, <2>5, <3>1
  <2> QED
    BY <2>2, <2>3, <2>4, <2>5
<1> QED
  BY <1>3, <1>4, <1>5 DEF ControlInv

\* A progress loop or a poll returns.
LEMMA ControlEnd ==
  ASSUME TypeOK, ControlInv, NEW r \in Rank, EndLoop(r)
  PROVE  ControlInv'
<1>1. /\ mode' = [mode EXCEPT ![r] = "run"] /\ pc' = [pc EXCEPT ![r] = @ + 1]
      /\ UNCHANGED <<program, complete>>
      /\ \/ mode[r] = "loop" /\ LoopRequest(r) \in complete
         \/ mode[r] \in {"poll", "polled"}
      /\ mode \in [Rank -> {"run", "loop", "poll", "polled"}] /\ pc \in [Rank -> Nat \ {0}]
  BY DEF EndLoop, TypeOK
<1>2. EndsInFinalize(program)'
  BY <1>1 DEF ControlInv, EndsInFinalize
<1>3. /\ pc'[r] = pc[r] + 1 /\ mode'[r] = "run" /\ mode[r] # "run"
      /\ \A s \in Rank : s # r => pc'[s] = pc[s] /\ mode'[s] = mode[s]
  BY <1>1
<1>4. Len(program[r]) \in Nat /\ pc[r] \in Nat \ {0} /\ DOMAIN program[r] = 1 .. Len(program[r])
  BY LastCall
<1>5. pc[r] <= Len(program[r]) /\ pc[r] \in DOMAIN program[r]
  <2>1. pc[r] <= Len(program[r])
    BY <1>3 DEF ControlInv
  <2> QED
    BY <1>4, <2>1
<1>6. pc'[r] > Len(program[r]) => <<r, Len(program[r])>> \in complete
  <2> SUFFICES ASSUME pc'[r] > Len(program[r]) PROVE <<r, Len(program[r])>> \in complete
    OBVIOUS
  <2>1. pc[r] = Len(program[r])
    BY <1>3, <1>4, <1>5
  <2>2. program[r][pc[r]].op = "finalize"
    BY <2>1, LastCall DEF CallOf
  <2>3. LoopRequest(r) = <<r, pc[r]>>
    BY <2>2 DEF LoopRequest
  <2>4. mode[r] \notin {"poll", "polled"}
    BY <2>2 DEF ControlInv
  <2> QED
    BY <1>1, <2>1, <2>3, <2>4
<1>7. \A q \in Rank : InFinalize(q) => InFinalize(q)'
  <2>1. ASSUME InFinalize(r) PROVE InFinalize(r)'
    <3>1. pc[r] = Len(program[r])
      BY <1>5, <2>1, LastCall DEF InFinalize
    <3>2. pc'[r] \notin DOMAIN program[r]
      BY <1>3, <1>4, <3>1
    <3> QED
      BY <1>1, <3>2 DEF InFinalize
  <2>2. ASSUME NEW q \in Rank, q # r, InFinalize(q) PROVE InFinalize(q)'
    BY <1>1, <1>3, <2>2 DEF InFinalize
  <2> QED
    BY <2>1, <2>2
<1>8. ASSUME NEW s \in Rank
      PROVE  /\ pc'[s] <= Len(program[s]) + 1
             /\ mode'[s] # "run" => pc'[s] <= Len(program[s])
             /\ mode'[s] \in {"poll", "polled"} => program[s][pc'[s]].op \in {"iprobe", "test"}
             /\ pc'[s] > Len(program[s]) => <<s, Len(program[s])>> \in complete
  <2>1. CASE s = r
    <3>1. pc'[r] <= Len(program[r]) + 1
      BY <1>3, <1>4, <1>5
    <3> QED
      BY <1>3, <1>6, <2>1, <3>1
  <2>2. CASE s # r
    BY <1>3, <2>2 DEF ControlInv
  <2> QED
    BY <2>1, <2>2
<1> QED
  BY <1>1, <1>2, <1>7, <1>8 DEF ControlInv

\* The barrier is over only when everybody is in it.
LEMMA ControlBarrier ==
  ASSUME TypeOK, ControlInv, NEW r \in Rank, FinalizeBarrier(r)
  PROVE  ControlInv'
<1>1. /\ UNCHANGED <<program, pc, mode>> /\ complete \subseteq complete'
      /\ \A q \in Rank : InFinalize(q)
  BY DEF FinalizeBarrier, appVars
<1>2. EndsInFinalize(program)' /\ \A q \in Rank : InFinalize(q)'
  BY <1>1 DEF ControlInv, EndsInFinalize, InFinalize
<1> QED
  BY <1>1, <1>2 DEF ControlInv

\* Handlers complete probes, receives and sends.
LEMMA HandlerCompletes ==
  ASSUME TypeOK, FlowInv, NEW r \in Rank, NEW m \in SentMessage, HandlePt2ptMessage(r, m)
  PROVE  Completes
<1>1. \A q \in probelist \cup SendReq \cup RecvReq : CallOf(q).op # "finalize"
  BY DEF FlowInv, ProbeOps, SendReq, SendOps, RecvReq, RecvOps
<1>2. ASSUME complete \subseteq complete',
             complete' \subseteq complete \cup probelist \cup SendReq \cup RecvReq
      PROVE  Completes
  BY <1>1, <1>2 DEF Completes
<1>3. ASSUME NEW probes \in SUBSET probelist, FindMatchingRecv(r, m, probes) PROVE Completes
  <2>1. need_send_match \subseteq RecvReq
    BY DEF TypeOK
  <2>2. /\ complete \subseteq complete'
        /\ complete' \subseteq complete \cup probes \cup need_send_match
    BY <1>3 DEF FindMatchingRecv, HandlerAbort, IncomingMatched, postedFor
  <2> QED
    BY <1>2, <2>1, <2>2
<1>4. notifyProbes(r, m) \in SUBSET probelist /\ {} \in SUBSET probelist
  BY DEF notifyProbes
<1>5. ASSUME IncomingSendAck(m) PROVE Completes
  <2>1. m.flow \in SendReq
    BY MessageEnds
  <2>2. complete' = complete \/ complete' = complete \cup {m.flow}
    BY <1>5 DEF IncomingSendAck, HandlerAbort
  <2> QED
    BY <1>2, <2>1, <2>2
<1>6. ASSUME RendezvousIncomingPayload(m) PROVE Completes
  <2>1. \A x \in recv_flows : x[2] \in RecvReq
    BY DEF TypeOK
  <2>2. /\ complete \subseteq complete'
        /\ \A q \in complete' : q \in complete \/ \E x \in recv_flows : q = x[2]
    <3> DEFINE found == {x \in recv_flows : x[1] = m.flow}
    <3>1. complete' = complete \/ complete' = complete \cup {x[2] : x \in found}
      BY <1>6 DEF RendezvousIncomingPayload, HandlerAbort
    <3> QED
      BY <3>1
  <2> QED
    BY <1>2, <2>1, <2>2
<1>7. ASSUME complete' = complete PROVE Completes
  BY <1>2, <1>7
<1> QED
  BY <1>3, <1>4, <1>5, <1>6, <1>7
  DEF HandlePt2ptMessage, Eager0Incoming, Eager1Incoming, RendezvousIncoming, DirectPutIncoming, Drop

LEMMA ControlStep ==
  TypeOK /\ SequenceInv /\ OrderInv /\ FlowInv /\ ControlInv /\ [Next]_vars => ControlInv'
<1> SUFFICES ASSUME TypeOK, SequenceInv, OrderInv, FlowInv, ControlInv, [Next]_vars PROVE ControlInv'
  OBVIOUS
<1>1. ASSUME complete' = complete PROVE Completes
  BY <1>1 DEF Completes
<1>2. CASE UNCHANGED vars
  BY <1>1, <1>2, ControlKept DEF vars
<1>3. ASSUME NEW r \in Rank, AppCall(r) PROVE ControlInv'
  <2>r. PICK req : req = <<r, pc[r]>>
    OBVIOUS
  <2>1. ASSUME complete \subseteq complete', complete' \subseteq complete \cup {req} \cup probelist,
               CallOf(req).op # "finalize"
        PROVE  Completes
    BY <2>1 DEF Completes, FlowInv, ProbeOps
  <2>2. CASE ProcNullCall(r)
    <3>1. Calls(r, SendOps \cup RecvOps) /\ Return(r) /\ complete' = complete \cup {req}
      BY <2>2, <2>r DEF ProcNullCall
    <3>2. CallOf(req).op # "finalize"
      BY <3>1, <2>r DEF Calls, CallOf, SendOps, RecvOps
    <3> QED
      BY <2>1, <2>r, <3>1, <3>2, ControlCall DEF CallOf
  <2>3. CASE Send(r)
    <3>1. /\ Calls(r, SendOps) /\ (Return(r) \/ Enter(r, "loop"))
          /\ complete \subseteq complete' /\ complete' \subseteq complete \cup {req}
      BY <2>3, <2>r DEF Send, ReturnOrLoop
    <3>2. CallOf(req).op # "finalize"
      BY <3>1, <2>r DEF Calls, CallOf, SendOps
    <3> QED
      BY <2>1, <2>r, <3>1, <3>2, ControlCall DEF CallOf
  <2>4. CASE Recv(r)
    <3>1. /\ Calls(r, RecvOps) /\ (Return(r) \/ Enter(r, "loop") \/ UNCHANGED appVars)
          /\ complete \subseteq complete' /\ complete' \subseteq complete \cup {req} \cup probelist
      BY <2>4, <2>r DEF Recv, ReturnOrLoop, HandlerAbort, IncomingMatched, notifyProbes
    <3>2. CallOf(req).op # "finalize"
      BY <3>1, <2>r DEF Calls, CallOf, RecvOps
    <3>3. Completes
      BY <2>1, <3>1, <3>2
    <3>4. CASE UNCHANGED appVars
      BY <3>3, <3>4, ControlKept DEF appVars
    <3> QED
      BY <2>r, <3>1, <3>2, <3>3, <3>4, ControlCall DEF CallOf
  <2>5. CASE Probe(r)
    <3>1. /\ Calls(r, {"probe"}) /\ Enter(r, "loop")
          /\ complete \subseteq complete' /\ complete' \subseteq complete \cup {req}
      BY <2>5, <2>r DEF Probe
    <3>2. CallOf(req).op # "finalize"
      BY <3>1, <2>r DEF Calls, CallOf
    <3> QED
      BY <2>1, <3>1, <3>2, ControlCall
  <2>6. CASE Iprobe(r) \/ Test(r)
    <3>1. /\ Calls(r, {"iprobe", "test"}) /\ (Return(r) \/ Enter(r, "poll"))
          /\ complete' = complete
      BY <2>6 DEF Iprobe, Test, Calls
    <3>2. program[r][pc[r]].op \in {"iprobe", "test"}
      BY <3>1 DEF Calls
    <3> QED
      BY <1>1, <3>1, <3>2, ControlCall
  <2>7. CASE Wait(r)
    BY <1>1, <2>7, ControlCall DEF Wait
  <2> QED
    BY <1>3, <2>2, <2>3, <2>4, <2>5, <2>6, <2>7 DEF AppCall
<1>4. ASSUME NEW r \in Rank, EndLoop(r) PROVE ControlInv'
  BY <1>4, ControlEnd
<1>5. ASSUME NEW r \in Rank, FinalizeBarrier(r) PROVE ControlInv'
  BY <1>5, ControlBarrier
<1>6. ASSUME NEW r \in Rank, DrainHeld(r) PROVE ControlInv'
  <2>1. UNCHANGED <<program, pc, mode>>
    BY <1>6 DEF DrainHeld
  <2>2. Completes
    BY <1>6, DrainHandles, HandlerCompletes DEF TypeOK
  <2> QED
    BY <2>1, <2>2, ControlKept
<1>7. ASSUME NEW m \in net, NicGet(m) PROVE ControlInv'
  BY <1>1, <1>7, ControlKept DEF NicGet, appVars
<1>8. ASSUME NEW r \in Rank, NEW m \in net, Incoming(r, m) PROVE ControlInv'
  <2>1. Taken(r, m) /\ m \in SentMessage
    BY <1>8 DEF Incoming, IncomingStaged, IncomingInOrder, IncomingOutOfOrder, TypeOK
  <2>2. /\ UNCHANGED <<program, pc>>
        /\ mode' = [mode EXCEPT ![r] = IF @ = "poll" THEN "polled" ELSE @]
        /\ mode \in [Rank -> {"run", "loop", "poll", "polled"}]
    BY <2>1 DEF Taken, TypeOK
  <2>3. \A s \in Rank : mode'[s] = mode[s] \/ (mode[s] = "poll" /\ mode'[s] = "polled")
    BY <2>2
  <2>4. HandlePt2ptMessage(r, m) \/ complete' = complete
    BY <1>8 DEF Incoming, IncomingStaged, IncomingInOrder, IncomingOutOfOrder, HandlerAbort
  <2>5. Completes
    BY <1>1, <2>1, <2>4, HandlerCompletes
  <2> QED
    BY <2>2, <2>3, <2>5, ControlKept
<1> QED
  BY <1>2, <1>3, <1>4, <1>5, <1>6, <1>7, <1>8 DEF Next

(***************************************************************************)
(* What is filed is awaited                                                *)
(***************************************************************************)

\* What a step has to show: who is filed is awaited, or was and still is.
AwaitsStill ==
  /\ aborted' = "no" => aborted = "no"
  /\ aborted' = "no" => \A x \in recv_flows' :
       \/ x \in recv_flows /\ (RecvDue(x[1]) => RecvDue(x[1])')
       \/ RecvDue(x[1])'
  /\ aborted' = "no" => \A f \in send_flows' : WaitsForAck(f) =>
       \/ f \in send_flows /\ (SendDue(f) => SendDue(f)')
       \/ SendDue(f)'
RecordsStill ==
  /\ complete \subseteq complete'
  /\ \A x \in match' : x \in match \/ x[2] \in complete' \/ x \in recv_flows'
  /\ \A x \in recv_flows : x \in recv_flows' \/ x[2] \in complete'
  /\ \A f \in send_flows : f \in send_flows' \/ f \in complete'
StartsRecorded ==
  /\ \A f \in SendReq : Started(f)' =>
       Started(f) \/ f \in complete' \/ (f \in send_flows' /\ WaitsForAck(f))
  /\ \A q \in NullReq : Started(q)' => Started(q) \/ q \in complete'

LEMMA AwaitKept ==
  ASSUME AwaitInv, program' = program, AwaitsStill, RecordsStill, StartsRecorded
  PROVE  AwaitInv'
<1>1. /\ SendReq' = SendReq /\ NullReq' = NullReq /\ \A f : WaitsForAck(f)' = WaitsForAck(f)
  BY StableSets, StableOrder DEF NullReq, WaitsForAck, ProtocolFor, CallOf
<1>2. Awaits'
  BY <1>1 DEF Awaits, AwaitInv, AwaitsStill
<1>3. Recorded'
  BY <1>1 DEF Recorded, AwaitInv, RecordsStill, StartsRecorded
<1> QED
  BY <1>2, <1>3 DEF AwaitInv

\* Everything but m stays where it can be found.
Leaves(m) ==
  /\ net \ {m} \subseteq net'
  /\ \A o \in net \cup held \cup Listed : o \in net' \cup held' \cup Listed' \/ o = m

LEMMA DueKept ==
  ASSUME program' = program, NEW f
  PROVE  /\ (\A o \in net : o.flow = f /\ Fetching(o) => o \in net') => (RecvDue(f) => RecvDue(f)')
         /\ (\A o \in net \cup held \cup Listed : o.flow = f /\ AckDue(o) => o \in net' \cup held' \cup Listed')
              => (SendDue(f) => SendDue(f)')
<1>1. \A o : Fetching(o)' = Fetching(o) /\ AckDue(o)' = AckDue(o)
  BY StableOrder, StableFlows DEF Fetching
<1> QED
  BY <1>1 DEF RecvDue, SendDue

\* Nothing is filed, and nothing that is awaited goes.
LEMMA AwaitQuiet ==
  ASSUME AwaitInv, program' = program, UNCHANGED <<send_flows, recv_flows>>,
         \A o \in net : Fetching(o) => o \in net',
         \A o \in net \cup held \cup Listed : AckDue(o) => o \in net' \cup held' \cup Listed',
         aborted' = "no" => aborted = "no",
         complete \subseteq complete',
         \A x \in match' : x \in match \/ x[2] \in complete',
         StartsRecorded
  PROVE  AwaitInv'
<1>1. \A f : (RecvDue(f) => RecvDue(f)') /\ (SendDue(f) => SendDue(f)')
  BY DueKept
<1>2. AwaitsStill
  BY <1>1 DEF AwaitsStill
<1>3. RecordsStill
  BY DEF RecordsStill
<1> QED
  BY <1>2, <1>3, AwaitKept

\* An abort ends the run.
LEMMA AwaitAbort ==
  ASSUME AwaitInv, program' = program, aborted' # "no", StartsRecorded,
         UNCHANGED <<send_flows, recv_flows, match, complete>>
  PROVE  AwaitInv'
<1>1. AwaitsStill /\ RecordsStill
  BY DEF AwaitsStill, RecordsStill
<1> QED
  BY <1>1, AwaitKept

\* A send is complete, or filed with its header or its ack on the way.
LEMMA AwaitSend ==
  ASSUME TypeOK, AwaitInv, NEW r \in Rank, Send(r)
  PROVE  AwaitInv'
<1>r. PICK req : req = <<r, pc[r]>>
  OBVIOUS
<1>p. PICK prot : prot = ProtocolFor(CallOf(req))
  OBVIOUS
<1>m. PICK m : m = [flow |-> req, stage |-> 0, seqnum |-> next_outbound[r][CallOf(req).peer],
                    type |-> IF prot = DIRECT_PUT THEN "rdma_put_payload" ELSE "smsg_send"]
  OBVIOUS
<1>a. PICK ack : ack = Ack(m, "rdma_put_sent_ack")
  OBVIOUS
<1>1. /\ Calls(r, SendOps) /\ CallOf(req).peer # ProcNull
      /\ net \cup {m} \subseteq net' /\ (prot = DIRECT_PUT => ack \in net')
      /\ send_flows' = IF KeepsSendFlow(prot) THEN send_flows \cup {req} ELSE send_flows
      /\ complete' = IF CompletesAtStart(prot) THEN complete \cup {req} ELSE complete
      /\ ReturnOrLoop(r, CallOf(req).op = "send")
      /\ UNCHANGED <<held, need_recv_match, match, recv_flows, aborted>>
  BY <1>r, <1>p, <1>m, <1>a DEF Send, matchVars, EAGER0, DIRECT_PUT
<1>2. program' = program /\ Listed' = Listed
  BY <1>1 DEF ReturnOrLoop, Return, Enter, Listed
<1>3. prot \in {EAGER0, EAGER1, RENDEZVOUS_GET, DIRECT_PUT}
  BY <1>p DEF ProtocolFor
<1>4. \A o : AckDue(o)' = AckDue(o) /\ Fetching(o)' = Fetching(o)
  BY <1>2, StableOrder, StableFlows DEF Fetching
<1>5. \A f : (RecvDue(f) => RecvDue(f)') /\ (SendDue(f) => SendDue(f)')
  BY <1>1, <1>2, <1>4 DEF RecvDue, SendDue
<1>6. WaitsForAck(req) <=> prot \in {RENDEZVOUS_GET, DIRECT_PUT}
  BY <1>p DEF WaitsForAck
<1>7. WaitsForAck(req) => SendDue(req)'
  <2>1. CASE prot = RENDEZVOUS_GET
    <3>1. m.flow = req /\ AckDue(m) /\ m \in net'
      BY <1>1, <1>m, <1>p, <2>1 DEF AckDue, Prot, RENDEZVOUS_GET, DIRECT_PUT
    <3> QED
      BY <1>4, <3>1 DEF SendDue
  <2>2. CASE prot = DIRECT_PUT
    <3>1. ack.flow = req /\ AckDue(ack) /\ ack \in net'
      BY <1>1, <1>m, <1>a, <1>p, <2>2 DEF AckDue, Prot, Ack, Reuse
    <3> QED
      BY <1>4, <3>1 DEF SendDue
  <2> QED
    BY <1>6, <2>1, <2>2
<1>8. AwaitsStill
  <2>1. \A f \in send_flows' : f \in send_flows \/ f = req
    BY <1>1
  <2> QED
    BY <1>1, <1>5, <1>7, <2>1 DEF AwaitsStill
<1>9. RecordsStill
  BY <1>1 DEF RecordsStill
<1>10. req \in complete' \/ (req \in send_flows' /\ WaitsForAck(req))
  BY <1>1, <1>3, <1>6 DEF CompletesAtStart, KeepsSendFlow, EAGER0, EAGER1, RENDEZVOUS_GET, DIRECT_PUT
<1>11. \A q \in Request : Started(q)' <=> Started(q) \/ q = req
  BY <1>1, <1>r, StartsCall DEF Calls
<1>12. SendReq \subseteq Request /\ NullReq \subseteq Request /\ req \notin NullReq
  BY <1>1 DEF SendReq, NullReq
<1>13. StartsRecorded
  BY <1>10, <1>11, <1>12 DEF StartsRecorded
<1> QED
  BY <1>2, <1>8, <1>9, <1>13, AwaitKept

\* A rendezvous header meets its receive: the get is on the way.
LEMMA AwaitFetch ==
  ASSUME AwaitInv, program' = program, NEW m \in SentMessage, Prot(m) = RENDEZVOUS_GET, Sequenced(m),
         NEW req, NEW probes, IncomingMatched(m, req, probes), StartsRecorded, Leaves(m)
  PROVE  AwaitInv'
<1>f. PICK f : f = m.flow
  OBVIOUS
<1>g. PICK g : g = GetRequest(m)
  OBVIOUS
<1>1. /\ match' = match \cup {<<f, req>>} /\ recv_flows' = recv_flows \cup {<<f, req>>}
      /\ net' = (net \ {m}) \cup {g} /\ complete' = complete \cup probes
      /\ UNCHANGED <<send_flows, aborted>>
  BY <1>f, <1>g DEF IncomingMatched
<1>2. m.type \notin {"rdma_get_request", "rdma_get_payload"}
  BY DEF Sequenced, SentMessage, WellStaged
<1>3. g.flow = f /\ g.type = "rdma_get_request" /\ Prot(g) = RENDEZVOUS_GET
  BY <1>f, <1>g DEF GetRequest, Reuse, Prot
<1>4. Fetching(g)' /\ AckDue(g)'
  <2>1. Fetching(g) /\ AckDue(g)
    BY <1>3 DEF Fetching, AckDue
  <2> QED
    BY <2>1, StableOrder, StableFlows DEF Fetching
<1>5. RecvDue(f)' /\ SendDue(f)'
  BY <1>1, <1>3, <1>4 DEF RecvDue, SendDue
<1>6. \A h : (RecvDue(h) => RecvDue(h)') /\ (SendDue(h) => SendDue(h)')
  <2>1. ~Fetching(m)
    BY <1>2 DEF Fetching
  <2>2. \A h : h # f => (RecvDue(h) => RecvDue(h)') /\ (SendDue(h) => SendDue(h)')
    BY <1>f, <2>1, DueKept DEF Leaves
  <2> QED
    BY <1>5, <2>2
<1>7. AwaitsStill
  <2>1. \A x \in recv_flows' : x \in recv_flows \/ x[1] = f
    BY <1>1
  <2> QED
    BY <1>1, <1>5, <1>6, <2>1 DEF AwaitsStill
<1>8. RecordsStill
  BY <1>1 DEF RecordsStill
<1> QED
  BY <1>7, <1>8, AwaitKept

LEMMA StartsSame ==
  ASSUME \A q \in Request : Started(q)' <=> Started(q)
  PROVE  StartsRecorded
BY DEF StartsRecorded, SendReq, NullReq

\* The list of unexpected messages only grows when a message is handled.
LEMMA ListedStays ==
  ASSUME TypeOK, NEW r \in Rank, NEW m,
         \/ need_recv_match' = need_recv_match
         \/ need_recv_match' = [need_recv_match EXCEPT ![r] = Append(@, m)]
  PROVE  /\ Listed \subseteq Listed'
         /\ need_recv_match' = [need_recv_match EXCEPT ![r] = Append(@, m)] => m \in Listed'
<1>1. need_recv_match \in [Rank -> Seq(Unexpected)]
  BY DEF TypeOK
<1>2. CASE need_recv_match' = need_recv_match
  <2>1. Listed' = Listed
    BY <1>2 DEF Listed
  <2>2. need_recv_match' # [need_recv_match EXCEPT ![r] = Append(@, m)]
    <3>1. need_recv_match[r] \in Seq(Unexpected)
      BY <1>1
    <3>2. Len(Append(need_recv_match[r], m)) # Len(need_recv_match[r])
      BY <3>1
    <3> QED
      BY <1>1, <1>2, <3>2
  <2> QED
    BY <2>1, <2>2
<1>3. CASE need_recv_match' = [need_recv_match EXCEPT ![r] = Append(@, m)]
  <2>1. need_recv_match[r] \in Seq(Unexpected)
    BY <1>1
  <2>2. /\ need_recv_match'[r] = Append(need_recv_match[r], m)
        /\ \A x \in Rank : x # r => need_recv_match'[x] = need_recv_match[x]
    BY <1>1, <1>3
  <2>3. /\ \A k \in DOMAIN need_recv_match[r] :
             k \in DOMAIN need_recv_match'[r] /\ need_recv_match'[r][k] = need_recv_match[r][k]
        /\ \E k \in DOMAIN need_recv_match'[r] : need_recv_match'[r][k] = m
    <3>1. Len(need_recv_match[r]) + 1 \in DOMAIN Append(need_recv_match[r], m)
      BY <2>1
    <3>2. Append(need_recv_match[r], m)[Len(need_recv_match[r]) + 1] = m
      BY <2>1
    <3> QED
      BY <2>1, <2>2, <3>1, <3>2
  <2>4. \A x \in Rank : \A k \in DOMAIN need_recv_match[x] :
          k \in DOMAIN need_recv_match'[x] /\ need_recv_match'[x][k] = need_recv_match[x][k]
    BY <2>2, <2>3
  <2>5. m \in Listed'
    BY <2>3 DEF Listed
  <2>6. Listed \subseteq Listed'
    <3> SUFFICES ASSUME NEW o \in Listed PROVE o \in Listed'
      OBVIOUS
    <3>1. PICK x \in Rank : \E k \in DOMAIN need_recv_match[x] : o = need_recv_match[x][k]
      BY ListedEntry
    <3> QED
      BY <2>4, <3>1 DEF Listed
  <2> QED
    BY <2>5, <2>6
<1> QED
  BY <1>2, <1>3

\* The NIC answers a get with the payload, and with the ack if it is asked to.
LEMMA AwaitNicGet ==
  ASSUME TypeOK, AwaitInv, NEW m \in net, NicGet(m)
  PROVE  AwaitInv'
<1>p. PICK payload : payload = Reuse(m, "rdma_get_payload", m.stage)
  OBVIOUS
<1>a. PICK ack : ack = Ack(m, "rdma_get_sent_ack")
  OBVIOUS
<1>1. /\ m.type = "rdma_get_request" /\ UNCHANGED <<program, pc, mode>>
      /\ net' = (net \ {m}) \cup {payload} \cup (IF AcksGet(m) THEN {ack} ELSE {})
      /\ UNCHANGED <<held, need_recv_match, match, send_flows, recv_flows, complete, aborted>>
  BY <1>p, <1>a DEF NicGet, appVars, seqVars, matchVars, flowVars
<1>2. StartsRecorded /\ Listed' = Listed
  BY <1>1, StartsSame DEF Started, Listed
<1>3. /\ payload.flow = m.flow /\ payload.type = "rdma_get_payload" /\ Prot(payload) = Prot(m)
      /\ ack.flow = m.flow /\ ack.type = "rdma_get_sent_ack" /\ Prot(ack) = Prot(m)
  BY <1>p, <1>a DEF Ack, Reuse, Prot
<1>4. CASE Prot(m) # RENDEZVOUS_GET
  <2>1. ~Fetching(m) /\ ~AckDue(m)
    BY <1>1, <1>4 DEF Fetching, AckDue
  <2> QED
    BY <1>1, <1>2, <2>1, AwaitQuiet
<1>5. CASE Prot(m) = RENDEZVOUS_GET
  <2>1. \A o : Fetching(o)' = Fetching(o) /\ AckDue(o)' = AckDue(o)
    BY <1>1, StableOrder, StableFlows DEF Fetching
  <2>2. RecvDue(m.flow)'
    <3>1. Fetching(payload) /\ payload \in net'
      BY <1>1, <1>3, <1>5 DEF Fetching
    <3> QED
      BY <1>3, <2>1, <3>1 DEF RecvDue
  <2>3. SendDue(m.flow)'
    <3>1. CASE SoftwareAck
      <4>1. AckDue(payload) /\ payload \in net'
        BY <1>1, <1>3, <1>5, <3>1 DEF AckDue
      <4> QED
        BY <1>3, <2>1, <4>1 DEF SendDue
    <3>2. CASE ~SoftwareAck
      <4>1. AckDue(ack) /\ ack \in net'
        BY <1>1, <1>3, <1>5, <3>2 DEF AckDue, AcksGet
      <4> QED
        BY <1>3, <2>1, <4>1 DEF SendDue
    <3> QED
      BY <3>1, <3>2
  <2>4. \A f : f # m.flow => (RecvDue(f) => RecvDue(f)') /\ (SendDue(f) => SendDue(f)')
    BY <1>1, <1>2, DueKept
  <2>5. \A f : (RecvDue(f) => RecvDue(f)') /\ (SendDue(f) => SendDue(f)')
    BY <2>2, <2>3, <2>4
  <2>6. AwaitsStill /\ RecordsStill
    BY <1>1, <2>5 DEF AwaitsStill, RecordsStill
  <2> QED
    BY <1>1, <1>2, <2>6, AwaitKept
<1> QED
  BY <1>4, <1>5

\* The payload completes the receive, and with software acks tells the sender.
LEMMA AwaitPayload ==
  ASSUME AwaitInv, program' = program, NEW m \in net, StartsRecorded,
         Prot(m) = RENDEZVOUS_GET, m.type = "rdma_get_payload",
         RendezvousIncomingPayload(m), held' = held, aborted = "no"
  PROVE  AwaitInv'
<1>f. PICK found : found = {p \in recv_flows : p[1] = m.flow}
  OBVIOUS
<1>a. PICK ack : ack = Reuse(m, "smsg_send", m.stage + 1)
  OBVIOUS
<1>1. CASE found = {}
  BY <1>1, <1>f, AwaitAbort DEF RendezvousIncomingPayload, HandlerAbort, matchVars, flowVars
<1>2. CASE found # {}
  <2>1. /\ recv_flows' = recv_flows \ found /\ complete' = complete \cup {p[2] : p \in found}
        /\ net' = (net \ {m}) \cup (IF SoftwareAck THEN {ack} ELSE {})
        /\ UNCHANGED <<need_recv_match, match, send_flows, aborted>>
    BY <1>2, <1>f, <1>a DEF RendezvousIncomingPayload, matchVars
  <2>2. Listed' = Listed
    BY <2>1 DEF Listed
  <2>3. \A f : f # m.flow => (RecvDue(f) => RecvDue(f)') /\ (SendDue(f) => SendDue(f)')
    BY <2>1, <2>2, DueKept
  <2>4. SendDue(m.flow) => SendDue(m.flow)'
    <3>1. CASE SoftwareAck
      <4>1. ack.flow = m.flow /\ ack.type = "smsg_send" /\ Prot(ack) = RENDEZVOUS_GET /\ ack \in net'
        BY <1>a, <2>1, <3>1 DEF Reuse, Prot
      <4>2. AckDue(ack)'
        <5>1. AckDue(ack)
          BY <4>1 DEF AckDue
        <5> QED
          BY <5>1, StableFlows
      <4> QED
        BY <4>1, <4>2 DEF SendDue
    <3>2. CASE ~SoftwareAck
      <4>1. ~AckDue(m)
        BY <3>2 DEF AckDue, RENDEZVOUS_GET, DIRECT_PUT
      <4> QED
        BY <2>1, <2>2, <4>1, DueKept
    <3> QED
      BY <3>1, <3>2
  <2>5. \A x \in recv_flows' : x \in recv_flows /\ x[1] # m.flow
    BY <1>f, <2>1
  <2>6. AwaitsStill
    BY <2>1, <2>3, <2>4, <2>5 DEF AwaitsStill
  <2>7. RecordsStill
    BY <2>1 DEF RecordsStill
  <2> QED
    BY <2>6, <2>7, AwaitKept
<1> QED
  BY <1>1, <1>2

\* An ack completes the send it is for.
LEMMA AwaitAck ==
  ASSUME AwaitInv, program' = program, NEW m \in net, StartsRecorded, ~Fetching(m),
         IncomingSendAck(m), held' = held, aborted = "no"
  PROVE  AwaitInv'
<1>1. CASE m.flow \notin send_flows
  BY <1>1, AwaitAbort DEF IncomingSendAck, HandlerAbort, matchVars, flowVars
<1>2. CASE m.flow \in send_flows
  <2>1. /\ send_flows' = send_flows \ {m.flow} /\ complete' = complete \cup {m.flow}
        /\ net' = net \ {m}
        /\ UNCHANGED <<need_recv_match, match, recv_flows, aborted>>
    BY <1>2 DEF IncomingSendAck, matchVars
  <2>2. Listed' = Listed
    BY <2>1 DEF Listed
  <2>3. \A f : (RecvDue(f) => RecvDue(f)') /\ (f # m.flow => (SendDue(f) => SendDue(f)'))
    BY <2>1, <2>2, DueKept
  <2>4. AwaitsStill
    BY <2>1, <2>3 DEF AwaitsStill
  <2>5. RecordsStill
    BY <2>1 DEF RecordsStill
  <2> QED
    BY <2>4, <2>5, AwaitKept
<1> QED
  BY <1>1, <1>2

\* A message looks for its receive: it is filed, fetched, or has its data.
LEMMA AwaitFind ==
  ASSUME TypeOK, AwaitInv, program' = program, StartsRecorded, aborted = "no",
         NEW r \in Rank, NEW m \in net \cup held, NEW probes,
         FindMatchingRecv(r, m, probes), held' = held \ {m},
         Prot(m) = RENDEZVOUS_GET => Sequenced(m), m.type # "rdma_put_sent_ack"
  PROVE  AwaitInv'
<1>1. m \in SentMessage
  BY DEF TypeOK
<1>2. ~Fetching(m)
  BY <1>1 DEF Fetching, Sequenced, SentMessage, WellStaged
<1>3. ASSUME HandlerAbort(m, "truncated") PROVE AwaitInv'
  BY <1>3, AwaitAbort DEF HandlerAbort, matchVars, flowVars
<1>4. ASSUME need_recv_match' = [need_recv_match EXCEPT ![r] = Append(@, m)],
             complete \subseteq complete', net' = net \ {m},
             UNCHANGED <<match, send_flows, recv_flows, aborted>>
      PROVE  AwaitInv'
  <2>1. Listed \subseteq Listed' /\ m \in Listed'
    BY <1>4, ListedStays
  <2> QED
    BY <1>2, <1>4, <2>1, AwaitQuiet
<1>5. ASSUME NEW req, IncomingMatched(m, req, probes), need_recv_match' = need_recv_match
      PROVE  AwaitInv'
  <2>1. Listed' = Listed
    BY <1>5 DEF Listed
  <2>2. CASE Prot(m) = RENDEZVOUS_GET
    <3>1. Leaves(m)
      BY <1>5, <2>1, <2>2 DEF Leaves, IncomingMatched
    <3> QED
      BY <1>1, <1>5, <2>2, <3>1, AwaitFetch
  <2>3. CASE Prot(m) # RENDEZVOUS_GET
    <3>1. /\ net' = net \ {m} /\ complete' = complete \cup probes \cup {req}
          /\ match' = match \cup {<<m.flow, req>>}
          /\ UNCHANGED <<send_flows, recv_flows, aborted>>
      BY <1>5, <2>3 DEF IncomingMatched
    <3>2. ~AckDue(m)
      BY <2>3 DEF AckDue
    <3> QED
      BY <1>2, <2>1, <3>1, <3>2, AwaitQuiet
  <2> QED
    BY <2>2, <2>3
<1> QED
  BY <1>3, <1>4, <1>5 DEF FindMatchingRecv, flowVars

LEMMA AwaitHandled ==
  ASSUME TypeOK, SequenceInv, OrderInv, AwaitInv, NEW r \in Rank, NEW m,
         Handles(r, m), HandlePt2ptMessage(r, m)
  PROVE  AwaitInv'
<1>1. /\ m \in net \cup held /\ held' = held \ {m} /\ program' = program /\ aborted = "no"
      /\ StartsRecorded
  BY StartsSame DEF Handles
<1>2. m \in SentMessage /\ WellStaged(m) /\ m.stage \in 0 .. 2
  BY <1>1, MessageEnds DEF TypeOK, SentMessage
<1>3. ASSUME Prot(m) \in {RENDEZVOUS_GET, DIRECT_PUT}, ~Sequenced(m)
      PROVE  m \in net /\ held' = held
  <2>1. AtOnce(m.flow)
    BY <1>3 DEF AtOnce, Prot, EAGER1, RENDEZVOUS_GET, DIRECT_PUT
  <2> QED
    BY <1>1, <1>3, <2>1, LaterInNet
<1>4. ASSUME Prot(m) \in {EAGER0, EAGER1},
             net \ {m} \subseteq net', UNCHANGED <<matchVars, flowVars, complete, aborted>>
      PROVE  AwaitInv'
  <2>1. ~Fetching(m) /\ ~AckDue(m)
    BY <1>4 DEF Fetching, AckDue, EAGER0, EAGER1, RENDEZVOUS_GET, DIRECT_PUT
  <2>2. Listed' = Listed
    BY <1>4 DEF Listed, matchVars
  <2> QED
    BY <1>1, <1>4, <2>1, <2>2, AwaitQuiet DEF matchVars, flowVars
<1>5. CASE Prot(m) = EAGER0 /\ Eager0Incoming(r, m)
  <2>1. CASE m.type = "smsg_send" /\ FindMatchingRecv(r, m, notifyProbes(r, m))
    BY <1>1, <1>5, <2>1, AwaitFind DEF EAGER0, RENDEZVOUS_GET
  <2>2. CASE Drop(m)
    BY <1>4, <1>5, <2>2 DEF Drop
  <2> QED
    BY <1>5, <2>1, <2>2 DEF Eager0Incoming
<1>6. CASE Prot(m) = EAGER1 /\ Eager1Incoming(r, m)
  <2>1. CASE m.type = "rdma_get_payload" /\ FindMatchingRecv(r, m, {})
    BY <1>1, <1>6, <2>1, AwaitFind DEF EAGER1, RENDEZVOUS_GET
  <2>2. CASE net \ {m} \subseteq net' /\ UNCHANGED <<matchVars, flowVars, complete, aborted>>
    BY <1>4, <1>6, <2>2
  <2> QED
    BY <1>6, <2>1, <2>2 DEF Eager1Incoming, Drop
<1>7. CASE Prot(m) = RENDEZVOUS_GET /\ RendezvousIncoming(r, m)
  <2>1. CASE m.type = "smsg_send" /\ m.stage = 0 /\ FindMatchingRecv(r, m, notifyProbes(r, m))
    <3>1. Sequenced(m)
      BY <2>1 DEF Sequenced, isNicAck, NicAcks
    <3> QED
      BY <1>1, <2>1, <3>1, AwaitFind
  <2>2. CASE m.type \in {"smsg_send", "rdma_get_sent_ack"} /\ m.stage > 0 /\ IncomingSendAck(m)
    <3>1. ~Sequenced(m) /\ ~Fetching(m)
      BY <1>2, <2>2 DEF Sequenced, Fetching
    <3> QED
      BY <1>1, <1>3, <1>7, <2>2, <3>1, AwaitAck
  <2>3. CASE m.type = "rdma_get_payload" /\ RendezvousIncomingPayload(m)
    <3>1. ~Sequenced(m)
      BY <1>2, <2>3 DEF WellStaged, Sequenced
    <3> QED
      BY <1>1, <1>3, <1>7, <2>3, <3>1, AwaitPayload
  <2>4. m.type = "rdma_get_sent_ack" => m.stage > 0
    BY <1>2 DEF WellStaged
  <2> QED
    BY <1>7, <2>1, <2>2, <2>3, <2>4 DEF RendezvousIncoming
<1>8. CASE Prot(m) = DIRECT_PUT /\ DirectPutIncoming(r, m)
  <2>1. CASE m.type = "rdma_put_payload" /\ FindMatchingRecv(r, m, {})
    BY <1>1, <1>8, <2>1, AwaitFind DEF DIRECT_PUT, RENDEZVOUS_GET
  <2>2. CASE m.type = "rdma_put_sent_ack" /\ IncomingSendAck(m)
    <3>1. ~Sequenced(m) /\ ~Fetching(m)
      BY <2>2 DEF Sequenced, isNicAck, NicAcks, Fetching
    <3> QED
      BY <1>1, <1>3, <1>8, <2>2, <3>1, AwaitAck
  <2> QED
    BY <1>8, <2>1, <2>2 DEF DirectPutIncoming
<1> QED
  BY <1>5, <1>6, <1>7, <1>8 DEF HandlePt2ptMessage

\* MPI_Recv posts its request, or takes the oldest unexpected message.
LEMMA AwaitRecv ==
  ASSUME TypeOK, SequenceInv, OrderInv, AwaitInv, NEW r \in Rank, Recv(r)
  PROVE  AwaitInv'
<1>r. PICK req : req = <<r, pc[r]>>
  OBVIOUS
<1>1. /\ program' = program /\ held' = held /\ aborted = "no"
      /\ Calls(r, RecvOps) /\ CallOf(req).peer # ProcNull
  BY <1>r DEF Recv, Calls, appVars, seqVars, ReturnOrLoop, Return, Enter
<1>2. req \notin SendReq /\ req \notin NullReq
  BY <1>1, <1>r DEF Calls, SendReq, NullReq, SendOps, RecvOps, CallOf
<1>3. ASSUME ReturnOrLoop(r, CallOf(req).op = "recv") PROVE StartsRecorded
  <2>1. \A q \in Request : Started(q)' <=> Started(q) \/ q = req
    BY <1>1, <1>3, <1>r, StartsCall DEF Calls
  <2>2. SendReq \subseteq Request /\ NullReq \subseteq Request
    BY DEF SendReq, NullReq
  <2> QED
    BY <1>2, <2>1, <2>2 DEF StartsRecorded
<1>4. CASE /\ UNCHANGED <<need_recv_match, probelist, match, flowVars, complete, net, aborted>>
           /\ ReturnOrLoop(r, CallOf(req).op = "recv")
  <2>1. Listed' = Listed
    BY <1>4 DEF Listed
  <2> QED
    BY <1>1, <1>3, <1>4, <2>1, AwaitQuiet DEF flowVars
<1>5. ASSUME NEW m, HandlerAbort(m, "truncated"), UNCHANGED appVars PROVE AwaitInv'
  <2>1. StartsRecorded
    BY <1>5, StartsSame DEF appVars, Started
  <2> QED
    BY <1>1, <1>5, <2>1, AwaitAbort DEF HandlerAbort, matchVars, flowVars
<1>6. ASSUME NEW k \in unexpectedFor(req), NEW probes,
             need_recv_match' = [need_recv_match EXCEPT ![r] = RemoveNth(@, k)],
             IncomingMatched(need_recv_match[r][k], req, probes),
             ReturnOrLoop(r, CallOf(req).op = "recv")
      PROVE  AwaitInv'
  <2>1. PICK m : m = need_recv_match[r][k]
    OBVIOUS
  <2>2. k \in DOMAIN need_recv_match[r]
    BY <1>6, <1>r DEF unexpectedFor
  <2>3. m \in Listed /\ \A o \in Listed : o \in Listed' \/ o = m
    BY <1>1, <1>6, <2>1, <2>2, ListWithout, ListedEntry
  <2>4. StartsRecorded /\ m \in SentMessage /\ (AtOnce(m.flow) => Sequenced(m))
    BY <1>3, <1>6, <2>3, RecordTypes DEF OrderInv, FitInv
  <2>5. CASE Prot(m) = RENDEZVOUS_GET
    <3>1. Sequenced(m)
      BY <2>4, <2>5 DEF AtOnce, Prot, EAGER1, RENDEZVOUS_GET
    <3>2. Leaves(m)
      BY <1>1, <1>6, <2>1, <2>3, <2>5 DEF Leaves, IncomingMatched
    <3> QED
      BY <1>1, <1>6, <2>1, <2>4, <2>5, <3>1, <3>2, AwaitFetch
  <2>6. CASE Prot(m) # RENDEZVOUS_GET
    <3>1. /\ net' = net \ {m} /\ complete' = complete \cup probes \cup {req}
          /\ match' = match \cup {<<m.flow, req>>}
          /\ UNCHANGED <<send_flows, recv_flows, aborted>>
      BY <1>6, <2>1, <2>6 DEF IncomingMatched
    <3>2. ~AckDue(m) /\ ~Fetching(m)
      <4>1. Prot(m) = DIRECT_PUT => ~isNicAck(m)
        BY <2>4 DEF AtOnce, Prot, Sequenced, EAGER1, DIRECT_PUT
      <4> QED
        BY <2>6, <4>1 DEF AckDue, Fetching, isNicAck, NicAcks
    <3> QED
      BY <1>1, <2>3, <2>4, <3>1, <3>2, AwaitQuiet
  <2> QED
    BY <2>5, <2>6
<1>7. \/ /\ UNCHANGED <<need_recv_match, probelist, match, flowVars, complete, net, aborted>>
         /\ ReturnOrLoop(r, CallOf(req).op = "recv")
      \/ \E k \in unexpectedFor(req) :
           \/ HandlerAbort(need_recv_match[r][k], "truncated") /\ UNCHANGED appVars
           \/ \E probes :
                /\ need_recv_match' = [need_recv_match EXCEPT ![r] = RemoveNth(@, k)]
                /\ IncomingMatched(need_recv_match[r][k], req, probes)
                /\ ReturnOrLoop(r, CallOf(req).op = "recv")
  BY <1>r DEF Recv
<1> QED
  BY <1>4, <1>5, <1>6, <1>7

LEMMA AwaitStep ==
  TypeOK /\ SequenceInv /\ OrderInv /\ FlowInv /\ AwaitInv /\ [Next]_vars => AwaitInv'
<1> SUFFICES ASSUME TypeOK, SequenceInv, OrderInv, FlowInv, AwaitInv, [Next]_vars PROVE AwaitInv'
  OBVIOUS
<1>1. ASSUME program' = program, StartsRecorded, complete \subseteq complete',
             UNCHANGED <<net, held, need_recv_match, send_flows, recv_flows, match, aborted>>
      PROVE  AwaitInv'
  <2>1. Listed' = Listed
    BY <1>1 DEF Listed
  <2> QED
    BY <1>1, <2>1, AwaitQuiet
<1>2. CASE UNCHANGED vars
  <2>1. StartsRecorded
    BY <1>2, StartsSame DEF vars, Started
  <2> QED
    BY <1>1, <1>2, <2>1 DEF vars
<1>3. ASSUME NEW r \in Rank, AppCall(r) PROVE AwaitInv'
  <2>1. CASE Send(r)
    BY <2>1, AwaitSend
  <2>2. CASE Recv(r)
    BY <2>2, AwaitRecv
  <2>3. CASE ProcNullCall(r) \/ Probe(r) \/ Iprobe(r) \/ Test(r) \/ Wait(r)
    <3>1. mode[r] = "run" /\ (Return(r) \/ Enter(r, "loop") \/ Enter(r, "poll"))
      BY <2>3 DEF ProcNullCall, Probe, Iprobe, Test, Wait, Calls
    <3>2. \A q \in Request : Started(q)' <=> Started(q) \/ q = <<r, pc[r]>>
      BY <3>1, StartsCall
    <3>3. /\ <<r, pc[r]>> \notin SendReq
          /\ <<r, pc[r]>> \in NullReq => <<r, pc[r]>> \in complete'
      <4>1. CASE ProcNullCall(r)
        BY <4>1, WildcardAssumption DEF ProcNullCall, SendReq, CallOf
      <4>2. CASE Probe(r) \/ Iprobe(r) \/ Test(r) \/ Wait(r)
        BY <4>2 DEF Probe, Iprobe, Test, Wait, Calls, CallOf, SendReq, NullReq, SendOps, RecvOps
      <4> QED
        BY <2>3, <4>1, <4>2
    <3>4. SendReq \subseteq Request /\ NullReq \subseteq Request
      BY DEF SendReq, NullReq
    <3>5. StartsRecorded
      BY <3>2, <3>3, <3>4 DEF StartsRecorded
    <3>6. /\ program' = program /\ complete \subseteq complete'
          /\ UNCHANGED <<net, held, need_recv_match, send_flows, recv_flows, match, aborted>>
      BY <2>3 DEF ProcNullCall, Probe, Iprobe, Test, Wait, Return, Enter, seqVars, matchVars, flowVars
    <3> QED
      BY <1>1, <3>5, <3>6
  <2> QED
    BY <1>3, <2>1, <2>2, <2>3 DEF AppCall
<1>4. ASSUME NEW r \in Rank, EndLoop(r) PROVE AwaitInv'
  <2>1. StartsRecorded
    BY <1>4, EndsCall, StartsSame
  <2> QED
    BY <1>1, <1>4, <2>1 DEF EndLoop, seqVars, matchVars, flowVars
<1>5. ASSUME NEW r \in Rank, FinalizeBarrier(r) PROVE AwaitInv'
  <2>1. StartsRecorded
    BY <1>5, StartsSame DEF FinalizeBarrier, appVars, Started
  <2> QED
    BY <1>1, <1>5, <2>1 DEF FinalizeBarrier, appVars, seqVars, matchVars, flowVars
<1>6. ASSUME NEW r \in Rank, DrainHeld(r) PROVE AwaitInv'
  BY <1>6, DrainHandles, AwaitHandled
<1>7. ASSUME NEW m \in net, NicGet(m) PROVE AwaitInv'
  BY <1>7, AwaitNicGet
<1>8. ASSUME NEW r \in Rank, NEW m \in net, Incoming(r, m) PROVE AwaitInv'
  <2>1. Taken(r, m)
    BY <1>8 DEF Incoming, IncomingStaged, IncomingInOrder, IncomingOutOfOrder
  <2>2. CASE IncomingStaged(r, m) \/ IncomingInOrder(r, m)
    <3>1. HandlePt2ptMessage(r, m) /\ Handles(r, m)
      BY <2>1, <2>2, IncomingHandles DEF IncomingStaged, IncomingInOrder
    <3> QED
      BY <3>1, AwaitHandled
  <2>3. CASE IncomingOutOfOrder(r, m)
    <3>1. /\ net' = net \ {m} /\ held \subseteq held' /\ Sequenced(m) /\ aborted = "no"
          /\ UNCHANGED <<need_recv_match, match, send_flows, recv_flows, complete>>
          /\ ((held' = held \cup {m} /\ aborted' = aborted) \/ aborted' = "sequence")
      BY <2>1, <2>3 DEF IncomingOutOfOrder, HandlerAbort, matchVars, flowVars, Taken, Polling
    <3>2. StartsRecorded /\ program' = program /\ Listed' = Listed
      <4>1. StartsRecorded
        BY <2>1, TakesMessage, StartsSame
      <4> QED
        BY <2>1, <3>1, <4>1 DEF Taken, Listed
    <3>3. ~Fetching(m)
      <4>1. m \in SentMessage
        BY DEF TypeOK
      <4> QED
        BY <3>1, <4>1 DEF Fetching, Sequenced, SentMessage, WellStaged
    <3>4. CASE aborted' = "sequence"
      BY <3>1, <3>2, <3>4, AwaitAbort
    <3>5. CASE held' = held \cup {m} /\ aborted' = aborted
      BY <3>1, <3>2, <3>3, <3>5, AwaitQuiet
    <3> QED
      BY <3>1, <3>4, <3>5
  <2> QED
    BY <1>8, <2>2, <2>3 DEF Incoming
<1> QED
  BY <1>2, <1>3, <1>4, <1>5, <1>6, <1>7, <1>8 DEF Next

LEMMA WaitsInit ==
  ASSUME ProgramsFinalize, Init
  PROVE  ControlInv /\ NoGaps /\ AwaitInv
<1>1. /\ program \in Programs /\ net = {} /\ held = {} /\ recv_flows = {} /\ send_flows = {}
      /\ complete = {} /\ match = {} /\ aborted = "no"
      /\ \A r \in Rank : pc[r] = 1 /\ mode[r] = "run"
      /\ \A r, s \in Rank : next_inbound[r][s] = 0 /\ next_outbound[r][s] = 0
  BY DEF Init
<1>2. ControlInv
  <2>1. EndsInFinalize(program) /\ program \in [Rank -> Seq(Call)]
    BY <1>1, ProgramAssumption DEF ProgramsFinalize
  <2>2. ASSUME NEW r \in Rank PROVE pc[r] <= Len(program[r]) + 1 /\ ~(pc[r] > Len(program[r]))
    <3>1. program[r] \in Seq(Call)
      BY <2>1
    <3>2. Len(program[r]) \in Nat /\ Len(program[r]) > 0
      BY <2>1, <3>1 DEF EndsInFinalize
    <3> QED
      BY <1>1, <3>2
  <2> QED
    BY <1>1, <2>1, <2>2 DEF ControlInv
<1>3. NoGaps
  BY <1>1 DEF NoGaps
<1>4. \A q \in Request : q[2] \in DOMAIN program[q[1]] => ~Started(q)
  <2> SUFFICES ASSUME NEW q \in Request, q[2] \in DOMAIN program[q[1]] PROVE ~Started(q)
    OBVIOUS
  <2>1. q[1] \in Rank /\ program[q[1]] \in Seq(Call)
    BY <1>1, ProgramAssumption DEF Request
  <2>2. q[2] \in Nat /\ q[2] >= 1
    BY <2>1 DEF Request
  <2> QED
    BY <1>1, <2>1, <2>2 DEF Started
<1>5. AwaitInv
  BY <1>1, <1>4 DEF AwaitInv, Awaits, Recorded, SendReq, NullReq
<1> QED
  BY <1>2, <1>3, <1>5

(***************************************************************************)
(* The library never wedges a job: for all programs that end with          *)
(* MPI_Finalize, when nothing can happen any more, no message is held      *)
(* back, no receive is matched and incomplete, and whoever waits for a     *)
(* request waits for a partner that never came.                            *)
(***************************************************************************)
THEOREM NeverWedged ==
  ASSUME ProgramsFinalize
  PROVE  Spec => []StuckOnlyIfUnmatched
<1>1. Init => NoMatchablePair /\ FlowInv /\ ControlInv /\ NoGaps /\ AwaitInv
  BY WaitsInit, FlowInit DEF Init, NoMatchablePair
<1>2. TypeOK /\ SequenceInv /\ OrderInv /\ ControlInv /\ NoGaps /\ AwaitInv => StuckOnlyIfUnmatched
  BY StuckSafe
<1> QED
  BY <1>1, <1>2, TypeInit, TypeStep, SequenceInit, SequenceStep, NoPairStep, OrderInit, OrderStep,
     FlowStep, ControlStep, GapsStep, AwaitStep, PTL DEF Spec
============================================================================
