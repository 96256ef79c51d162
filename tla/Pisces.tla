------------------------------- MODULE Pisces -------------------------------
(***************************************************************************)
(* The pisces network on a torus: NICs cut messages into packets, switches *)
(* move them from a crossbar to the buffer of an output port and on to the *)
(* next switch, and every move needs credits that come back when the next  *)
(* stage lets the packet go (PiscesNIC, PiscesSwitch, PiscesNtoMQueue,     *)
(* PiscesBuffer, PayloadQueue, RecvCQ).                                    *)
(*                                                                         *)
(* Links carry packets one way and credits the other.  Their delays are    *)
(* left open: what is on a link may come in at any time, in any order.     *)
(*                                                                         *)
(* Every port has portScaleFactor 1, as on a torus without redundant       *)
(* links: all links have the same credits.  The ack that tells the sender  *)
(* that its message has left the node is not modelled; nothing in the      *)
(* network waits for it.                                                   *)
(***************************************************************************)
EXTENDS TorusRouting, SequencesExt

CONSTANTS
  Jobs,         \* the traffic: functions from Message to [src, dst, bytes]
  Message,
  Mtu,          \* packet_size_, mtu_
  InjCredits,   \* inj_credits_
  LinkCredits   \* link_credits_, for the crossbar and for the link

NumVC == Cardinality(VC)
CreditsPerVC == LinkCredits \div NumVC

ASSUME PiscesAssumption ==
  /\ Mtu \in Nat \ {0}
  /\ InjCredits \in Nat
  /\ LinkCredits \in Nat
  /\ LinkCredits >= Mtu     \* "MTU is larger than credits" otherwise
  /\ \A j \in Jobs :
       j \in [Message -> [src : Switch, dst : Switch, bytes : Nat \ {0}]]

VARIABLES
  job,          \* the traffic of this run
  sent,         \* messages that were given to their NIC
  injCredits,   \* credits of the injection buffers
  pendingInject,\* pending_inject_ of the NICs
  xbarCredits,  \* credits_ of the crossbars
  xbarQueue,    \* queues_ of the crossbars
  bufCredits,   \* credits_ of the output buffers
  bufQueue,     \* queues_ of the output buffers
  payloads,     \* packets on the links
  credits,      \* credits on the links
  recved,       \* bytes_recved_ of the completion queues
  delivered,    \* how often a message was delivered
  arrived       \* history: the bytes of a message that reached the NIC

nicVars == <<sent, injCredits, pendingInject>>
recvVars == <<recved, delivered, arrived>>
xbarVars == <<xbarCredits, xbarQueue>>
bufVars == <<bufCredits, bufQueue>>
vars == <<job, nicVars, recvVars, xbarVars, bufVars, payloads, credits>>

Init ==
  /\ job \in Jobs
  /\ sent = {}
  /\ injCredits = [s \in Switch |-> InjCredits]
  /\ pendingInject = [s \in Switch |-> <<>>]
  /\ xbarCredits = [c \in Channel |-> CreditsPerVC]
  /\ xbarQueue = [c \in Channel |-> <<>>]
  /\ bufCredits = [c \in Channel |-> CreditsPerVC]
  /\ bufQueue = [c \in Channel |-> <<>>]
  /\ payloads = {}
  /\ credits = {}
  /\ recved = [m \in Message |-> [arrived |-> 0, total |-> 0]]
  /\ delivered = [m \in Message |-> 0]
  /\ arrived = [m \in Message |-> 0]

(***************************************************************************)
(* Links.  A packet is on its way to a switch (through an input port), to  *)
(* an output buffer or to a NIC; a credit to a crossbar, an output buffer  *)
(* or a NIC.                                                               *)
(***************************************************************************)
To(at, s, port) == [at |-> at, sw |-> s, port |-> port]

Chan(s, port, vc) == [sw |-> s, port |-> port, vc |-> vc]

\* The channel a packet was sent on last, and the one it needs next, when it
\* is in the crossbar of switch s.
HeldBy(s, p) == Chan(Neighbor(s, p.inport), Opposite(p.inport), p.vc)
Needed(s, p) == Chan(s, p.hdr.port, p.hdr.vc)

\* sendCredit: what the packet took, on the virtual channel it came in on.
CreditFor_Mut(p, to) ==     \* on the channel it leaves on
  [to |-> to, vc |-> p.hdr.vc, bytes |-> p.bytes, id |-> p.id]
CreditFor(p, to) == [to |-> to, vc |-> p.vc, bytes |-> p.bytes, id |-> p.id]

\* Where a crossbar returns the credit of a packet: to the output buffer at
\* the other end of its input port, or to the NIC.
Upstream(s, inport) ==
  IF inport = NodePort THEN To("nic", s, NodePort)
  ELSE To("buffer", Neighbor(s, inport), Opposite(inport))

Downstream(s, port) ==
  IF port = NodePort THEN To("nic", s, NodePort)
  ELSE To("switch", Neighbor(s, port), Opposite(port))

UpdateVC(p) == [p EXCEPT !.vc = p.hdr.vc]

\* The bytes that packets, or the credits for them, stand for, one by one: the
\* packets of a message do not overlap.
BytesIn(X) == UNION {{x.id[1]} \X ((x.id[2] + 1) .. (x.id[2] + x.bytes)) : x \in X}
BytesOf(X) == Cardinality(BytesIn(X))

\* The first packet that fits, if any does.
FirstFit(q, n) == {k \in DOMAIN q : q[k].bytes <= n /\ \A i \in 1 .. (k - 1) : q[i].bytes > n}

(***************************************************************************)
(* PiscesNIC.  inject sends packets while there is room for a full one.    *)
(***************************************************************************)
spaceToSend(n) == n >= Mtu

MinOf(x, y) == IF x < y THEN x ELSE y

\* The packets of m from an offset on that n credits let go; the loop checks
\* for a full packet every time round.
Packets(m, offset, n) ==
  { LET bytes == MinOf(Mtu, job[m].bytes - (offset + k * Mtu)) IN
    [id |-> <<m, offset + k * Mtu>>, bytes |-> bytes,
     tail |-> offset + k * Mtu + bytes = job[m].bytes,
     dst |-> job[m].dst, vc |-> 0, inport |-> NodePort, hdr |-> InitHeader] :
    k \in {i \in 0 .. job[m].bytes : spaceToSend(n - i * Mtu) /\ offset + i * Mtu < job[m].bytes} }

Injected(s, P) == {[to |-> To("switch", s, NodePort), pkt |-> p] : p \in P}

\* What a node sends to itself does not use the network (injectSend).
Internode(m) == job[m].src # job[m].dst

\* doSend
DoSend(m) ==
  LET s == job[m].src
      P == Packets(m, 0, injCredits[s])
  IN
  /\ m \notin sent
  /\ Internode(m)
  /\ sent' = sent \cup {m}
  /\ injCredits' = [injCredits EXCEPT ![s] = @ - BytesOf(P)]
  /\ payloads' = payloads \cup Injected(s, P)
  /\ pendingInject' = IF BytesOf(P) = job[m].bytes THEN pendingInject
                      ELSE [pendingInject EXCEPT ![s] = Append(@, [msg |-> m, sent |-> BytesOf(P)])]
  /\ UNCHANGED <<job, recvVars, xbarVars, bufVars, credits>>

\* packetSent: the pending messages of q go on with n credits, the first one
\* first, until one cannot be sent to its end.  Those ahead of the k-th have
\* used up what they had left to send when its turn comes.
Unsent(w) == {w.msg} \X ((w.sent + 1) .. job[w.msg].bytes)
Ahead(q, k) == Cardinality(UNION {Unsent(q[i]) : i \in 1 .. (k - 1)})

Going(q, n, k) == Packets(q[k].msg, q[k].sent, n - Ahead(q, k))
SentBy(q, n, k) == q[k].sent + BytesOf(Going(q, n, k))
Finished(q, n) ==
  {k \in DOMAIN q : \A i \in 1 .. k : SentBy(q, n, i) = job[q[i].msg].bytes}

\* What goes out of the first k, the credits left then, and the messages left
\* when the first f are finished.
ResumeUpTo(q, n, k, f) ==
  LET out == UNION {Going(q, n, i) : i \in 1 .. k} IN
  [n |-> n - BytesOf(out), out |-> out,
   left |-> IF f = Len(q) THEN <<>>
            ELSE <<[q[f + 1] EXCEPT !.sent = SentBy(q, n, f + 1)]>> \o SubSeq(q, f + 2, Len(q))]

ResumeAll_Mut(q, n) ==     \* the first one only
  LET k == MinOf(1, Len(q)) IN ResumeUpTo(q, n, k, Cardinality(Finished(q, n) \cap {1}))
ResumeAll(q, n) ==
  LET f == Cardinality(Finished(q, n)) IN ResumeUpTo(q, n, MinOf(f + 1, Len(q)), f)

PacketSent(c) ==
  LET s == c.to.sw
      r == ResumeAll(pendingInject[s], injCredits[s] + c.bytes)
  IN
  /\ c.to.at = "nic"
  /\ injCredits' = [injCredits EXCEPT ![s] = r.n]
  /\ pendingInject' = [pendingInject EXCEPT ![s] = r.left]
  /\ payloads' = payloads \cup Injected(s, r.out)
  /\ credits' = credits \ {c}
  /\ UNCHANGED <<job, sent, recvVars, xbarVars, bufVars>>

\* RecvCQ: complete when as many bytes came in as the tail said.
Complete_Mut(p, r) == p.tail     \* the tail comes last
Complete(p, r) == r.arrived = r.total

\* What has come in of the message of p; the tail carries its size.
Received(p) ==
  LET r == recved[p.id[1]] IN
  [arrived |-> r.arrived + p.bytes,
   total |-> IF p.tail THEN job[p.id[1]].bytes ELSE r.total]

\* packetArrived: the credit goes back to the buffer of the node's port.
PacketArrived(e) ==
  LET p == e.pkt
      m == p.id[1]
      r == Received(p)
  IN
  /\ e.to.at = "nic"
  /\ recved' = [recved EXCEPT ![m] = IF Complete(p, r) THEN [arrived |-> 0, total |-> 0] ELSE r]
  /\ delivered' = [delivered EXCEPT ![m] = IF Complete(p, r) THEN @ + 1 ELSE @]
  /\ arrived' = [arrived EXCEPT ![m] = @ + p.bytes]
  /\ payloads' = payloads \ {e}
  /\ credits' = credits \cup {CreditFor(p, To("buffer", e.to.sw, NodePort))}
  /\ UNCHANGED <<job, nicVars, xbarVars, bufVars>>

(***************************************************************************)
(* PiscesSwitch: a packet comes in, is routed and handed to the crossbar,  *)
(* which sends it to the output buffer or queues it.                       *)
(***************************************************************************)
\* The crossbar of s sends p: credit upstream, new virtual channel.
XbarSend(s, p) == [to |-> To("buffer", s, p.hdr.port), pkt |-> UpdateVC(p)]

\* The packet with its next port and virtual channel.
Routed(e) == [e.pkt EXCEPT !.hdr = route(e.to.sw, e.pkt.dst, e.pkt.hdr), !.inport = e.to.port]

SwitchPayload(e) ==
  LET s == e.to.sw
      p == Routed(e)
      c == Needed(s, p)
  IN
  /\ e.to.at = "switch"
  /\ \/ /\ xbarCredits[c] >= p.bytes
        /\ xbarCredits' = [xbarCredits EXCEPT ![c] = @ - p.bytes]
        /\ payloads' = (payloads \ {e}) \cup {XbarSend(s, p)}
        /\ credits' = credits \cup {CreditFor(p, Upstream(s, p.inport))}
        /\ UNCHANGED xbarQueue
     \/ /\ xbarCredits[c] < p.bytes
        /\ xbarQueue' = [xbarQueue EXCEPT ![c] = Append(@, p)]
        /\ payloads' = payloads \ {e}
        /\ UNCHANGED <<xbarCredits, credits>>
  /\ UNCHANGED <<job, nicVars, recvVars, bufVars>>

\* PiscesNtoMQueue::handleCredit sends one packet.
XbarCredit(cr) ==
  LET s == cr.to.sw
      c == Chan(s, cr.to.port, cr.vc)
      n == xbarCredits[c] + cr.bytes
      fit == FirstFit(xbarQueue[c], n)
  IN
  /\ cr.to.at = "xbar"
  /\ \/ /\ fit = {}
        /\ xbarCredits' = [xbarCredits EXCEPT ![c] = n]
        /\ credits' = credits \ {cr}
        /\ UNCHANGED <<xbarQueue, payloads>>
     \/ \E k \in fit :
          LET p == xbarQueue[c][k] IN
          /\ xbarCredits' = [xbarCredits EXCEPT ![c] = n - p.bytes]
          /\ xbarQueue' = [xbarQueue EXCEPT ![c] = RemoveAt(@, k)]
          /\ payloads' = payloads \cup {XbarSend(s, p)}
          /\ credits' = (credits \ {cr}) \cup {CreditFor(p, Upstream(s, p.inport))}
  /\ UNCHANGED <<job, nicVars, recvVars, bufVars>>

(***************************************************************************)
(* PiscesBuffer at an output port.                                         *)
(***************************************************************************)
BufferSend(s, port, p) == [to |-> Downstream(s, port), pkt |-> p]

\* The buffer credits the crossbar it got the packet from.
BufferCredit(s, port, p) == CreditFor(p, To("xbar", s, port))

BufferPayload(e) ==
  LET s == e.to.sw
      port == e.to.port
      c == Chan(s, port, e.pkt.vc)
  IN
  /\ e.to.at = "buffer"
  /\ \/ /\ bufCredits[c] >= e.pkt.bytes
        /\ bufCredits' = [bufCredits EXCEPT ![c] = @ - e.pkt.bytes]
        /\ payloads' = (payloads \ {e}) \cup {BufferSend(s, port, e.pkt)}
        /\ credits' = credits \cup {BufferCredit(s, port, e.pkt)}
        /\ UNCHANGED bufQueue
     \/ /\ bufCredits[c] < e.pkt.bytes
        /\ bufQueue' = [bufQueue EXCEPT ![c] = Append(@, e.pkt)]
        /\ payloads' = payloads \ {e}
        /\ UNCHANGED <<bufCredits, credits>>
  /\ UNCHANGED <<job, nicVars, recvVars, xbarVars>>

\* PiscesBuffer::handleCredit sends all that fit: the places of a queue whose
\* packet fits into what those before it have left of n credits.
Fitting(q, n) ==
  {go \in SUBSET DOMAIN q :
     \A k \in DOMAIN q : k \in go <=> q[k].bytes <= n - BytesOf({q[i] : i \in {j \in go : j < k}})}

\* A set of places in ascending order.
InOrder(S) ==
  {f \in [1 .. Cardinality(S) -> S] : \A i, k \in 1 .. Cardinality(S) : i < k => f[i] < f[k]}

BufferCredited(cr) ==
  LET s == cr.to.sw
      port == cr.to.port
      c == Chan(s, port, cr.vc)
      q == bufQueue[c]
      n == bufCredits[c] + cr.bytes
  IN
  /\ cr.to.at = "buffer"
  /\ \E go \in Fitting(q, n) :
       LET out == {q[k] : k \in go} IN
       /\ bufCredits' = [bufCredits EXCEPT ![c] = n - BytesOf(out)]
       /\ \E stay \in InOrder(DOMAIN q \ go) :
            bufQueue' = [bufQueue EXCEPT ![c] = [i \in DOMAIN stay |-> q[stay[i]]]]
       /\ payloads' = payloads \cup {BufferSend(s, port, p) : p \in out}
       /\ credits' = (credits \ {cr}) \cup {BufferCredit(s, port, p) : p \in out}
  /\ UNCHANGED <<job, nicVars, recvVars, xbarVars>>

Next ==
  \/ \E m \in Message : DoSend(m)
  \/ \E e \in payloads : PacketArrived(e) \/ SwitchPayload(e) \/ BufferPayload(e)
  \/ \E c \in credits : PacketSent(c) \/ XbarCredit(c) \/ BufferCredited(c)

Spec == Init /\ [][Next]_vars

\* Messages are sent, and events are handled as long as there are any.
Fairness == WF_vars(Next)

FairSpec == Spec /\ Fairness

-----------------------------------------------------------------------------
(***************************************************************************)
(* Credits are neither lost nor made: what a crossbar or buffer may still  *)
(* send, what it has sent and the next stage still holds, and the credits  *)
(* on their way back always add up to what it started with.  So no stage   *)
(* ever holds more than it has room for, and the aborts for credits above  *)
(* the initial ones are never reached.                                     *)
(***************************************************************************)
OnLink(at, c) ==
  LET to == To(at, c.sw, c.port)
  IN BytesOf({e.pkt : e \in {x \in payloads : x.pkt.vc = c.vc /\ x.to = to}})
CreditsTo(at, c) ==
  LET to == To(at, c.sw, c.port)
  IN BytesOf({x \in credits : x.vc = c.vc /\ x.to = to})
Queued(q) == BytesOf(ToSet(q))

\* The packets in the crossbar of s, and those among them that came in from
\* a place on channel vc.
InXbar(s) == UNION {ToSet(xbarQueue[Chan(s, port, vc)]) : port \in Port, vc \in VC}
CameFrom(P, inport, vc) == BytesOf({p \in P : p.inport = inport /\ p.vc = vc})

XbarConserved ==
  \A c \in Channel :
    xbarCredits[c] + OnLink("buffer", c) + Queued(bufQueue[c]) + CreditsTo("xbar", c) = CreditsPerVC

\* The buffer at the other end of every input port.
LinkConserved ==
  \A s \in Switch : LET P == InXbar(s) IN
    \A inport \in LinkPort, vc \in VC :
      LET c == Chan(Neighbor(s, inport), Opposite(inport), vc) IN
      bufCredits[c] + OnLink("switch", Chan(s, inport, vc)) + CameFrom(P, inport, vc)
        + CreditsTo("buffer", c) = CreditsPerVC

\* The buffer at the port of a node.
EjectionConserved ==
  \A s \in Switch, vc \in VC :
    LET c == Chan(s, NodePort, vc) IN
    bufCredits[c] + OnLink("nic", c) + CreditsTo("buffer", c) = CreditsPerVC

InjectionConserved ==
  \A s \in Switch :
    LET c == Chan(s, NodePort, 0) IN
    injCredits[s] + OnLink("switch", c) + CameFrom(InXbar(s), NodePort, 0) + CreditsTo("nic", c)
      = InjCredits

CreditsConserved ==
  /\ XbarConserved /\ LinkConserved /\ EjectionConserved /\ InjectionConserved
  /\ \A c \in Channel : xbarCredits[c] >= 0 /\ bufCredits[c] >= 0
  /\ \A s \in Switch : injCredits[s] >= 0

(***************************************************************************)
(* A packet or message that waits for credits is woken: some are still to  *)
(* come back to the queue it is in, although a crossbar sends only one     *)
(* packet for every credit it gets.  Not so a packet that is larger than   *)
(* all the credits of its channel: the constructor of PiscesSwitch only    *)
(* compares the MTU with those of the whole link.                          *)
(***************************************************************************)
NoLostWakeup ==
  /\ \A c \in Channel :
       /\ \A k \in DOMAIN xbarQueue[c] :
            xbarQueue[c][k].bytes <= CreditsPerVC => xbarCredits[c] < CreditsPerVC
       /\ \A k \in DOMAIN bufQueue[c] : bufQueue[c][k].bytes > bufCredits[c]
  /\ \A s \in Switch : pendingInject[s] # <<>> => injCredits[s] < Mtu

(***************************************************************************)
(* Packets take channels in one fixed order: one that holds a place behind *)
(* a link and waits for another only ever waits for a later one, so no     *)
(* ring of packets can wait for each other.  This is what the two virtual  *)
(* channels and the dateline of the torus are for.                         *)
(***************************************************************************)
ChannelsOrdered ==
  /\ \A e \in payloads : (e.to.at = "switch" /\ e.to.port # NodePort) =>
       Before(HeldBy(e.to.sw, Routed(e)), Needed(e.to.sw, Routed(e)))
  /\ \A c \in Channel : \A k \in DOMAIN xbarQueue[c] :
       xbarQueue[c][k].inport # NodePort => Before(HeldBy(c.sw, xbarQueue[c][k]), c)

(***************************************************************************)
(* The nodes see a network that delivers every message, once, when all its *)
(* packets are there, whatever order they come in.                         *)
(***************************************************************************)
Net == INSTANCE Fabric WITH size <- [m \in Message |-> job[m].bytes]

ImplementsFabric == Net!FabricSpec
=============================================================================
