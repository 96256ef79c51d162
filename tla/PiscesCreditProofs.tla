------------------------- MODULE PiscesCreditProofs -------------------------
(***************************************************************************)
(* The credits of the pisces network are conserved, and no queue waits for *)
(* credits that do not come, on every torus and for any traffic.           *)
(*                                                                         *)
(* A packet in the network owes a credit to the stage that let it go, and  *)
(* pays it when it goes on.  What is owed and what is on its way back are  *)
(* the dues; a packet that goes on adds one, a credit that comes in takes  *)
(* one away.  Every stage keeps an account: what it may still send and its *)
(* dues add up to what it started with.  That a due is never counted twice *)
(* rests on the order of the channels: a packet comes to every stage once. *)
(***************************************************************************)
EXTENDS PiscesProofs

\* A packet, or the credit for it, as a NIC cuts a message.
Multiple(n) == \E j \in Nat : n = j * Mtu
IsCut(x) ==
  /\ x.id = <<x.id[1], x.id[2]>>
  /\ x.id[1] \in Message
  /\ x.id[2] \in Nat /\ Multiple(x.id[2])
  /\ x.id[2] < job[x.id[1]].bytes
  /\ x.bytes = MinOf(Mtu, job[x.id[1]].bytes - x.id[2])

\* The packets in the network and where they are: on a link, in a crossbar or
\* in an output buffer.
Spot(at, c, p) == [to |-> To(at, c.sw, c.port), pkt |-> p]
Waiting(at, queue) == UNION {{Spot(at, c, p) : p \in ToSet(queue[c])} : c \in Channel}
InNet == payloads \cup Waiting("inXbar", xbarQueue) \cup Waiting("inBuffer", bufQueue)

\* The credit a packet owes, and all dues of packets N and credits C.
Creditor(x) ==
  IF x.to.at = "switch" THEN Upstream(x.to.sw, x.to.port)
  ELSE IF x.to.at = "inXbar" THEN Upstream(x.to.sw, x.pkt.inport)
  ELSE IF x.to.at = "nic" THEN To("buffer", x.to.sw, NodePort)
  ELSE To("xbar", x.to.sw, x.to.port)
Debt(x) == CreditFor(x.pkt, Creditor(x))
Debts(N) == {Debt(x) : x \in N}
DuesOf(N, C) == Debts(N) \cup C

IsCredit(d) ==
  /\ d = [to |-> d.to, vc |-> d.vc, bytes |-> d.bytes, id |-> d.id]
  /\ d.to = To(d.to.at, d.to.sw, d.to.port)
  /\ d.to.sw \in Switch /\ d.to.port \in Port /\ d.vc \in VC
  /\ d.to.at \in {"xbar", "buffer", "nic"}
  /\ d.to.at = "nic" => d.to.port = NodePort /\ d.vc = 0

\* The accounts of the stages, and what is left in them.
ChannelOf(d) == Chan(d.to.sw, d.to.port, d.vc)
AccountOf(d) == <<d.to.at, ChannelOf(d)>>
NicAccount(s) == <<"nic", Chan(s, NodePort, 0)>>
Account == ({"xbar", "buffer"} \X Channel) \cup {NicAccount(s) : s \in Switch}
DuesTo(D, a) == {d \in D : AccountOf(d) = a}

Capacity(a) == IF a[1] = "nic" THEN InjCredits ELSE CreditsPerVC
Ledger ==
  [a \in Account |-> IF a[1] = "nic" THEN injCredits[a[2].sw]
                     ELSE IF a[1] = "xbar" THEN xbarCredits[a[2]] ELSE bufCredits[a[2]]]
LedgerInv ==
  /\ injCredits = [s \in Switch |-> injCredits[s]]
  /\ xbarCredits = [c \in Channel |-> xbarCredits[c]]
  /\ bufCredits = [c \in Channel |-> bufCredits[c]]

Balanced(n, due, all) == n \in Nat /\ IsFiniteSet(BytesIn(due)) /\ n + BytesOf(due) = all
Books(L, D) ==
  /\ L \in [Account -> Nat]
  /\ \A a \in Account : Balanced(L[a], DuesTo(D, a), Capacity(a))

\* Stages in the order a packet takes them.
Precedes(d, e) ==
  /\ e.to.at # "nic"
  /\ \/ d.to.at = "nic"
     \/ d.to.port # NodePort /\ Before(ChannelOf(d), ChannelOf(e))
     \/ ChannelOf(d) = ChannelOf(e) /\ d.to.at = "xbar" /\ e.to.at = "buffer"

\* A packet is in one place; its dues are of different stages, the debt last.
Placed(N, C) ==
  /\ \A x, y \in N : x.pkt.id = y.pkt.id => x = y
  /\ \A x \in N : \A d \in DuesOf(N, C) :
       d.id = x.pkt.id => d = Debt(x) \/ Precedes(d, Debt(x))
  /\ \A x \in N : Debt(x) \notin C
  /\ \A d \in DuesOf(N, C) : IsCredit(d) /\ IsCut(d)

Accounted(N, C, L) == Placed(N, C) /\ Books(L, DuesOf(N, C))

\* What is on the links and in the queues.
IsPayload(e) ==
  /\ e = [to |-> e.to, pkt |-> e.pkt]
  /\ e.to = To(e.to.at, e.to.sw, e.to.port)
  /\ e.to.at \in {"switch", "buffer", "nic"}
  /\ e.to.at = "nic" => e.to.port = NodePort
  /\ e.to.at = "switch" /\ e.to.port = NodePort => e.pkt.vc = 0
NoRepeat(q) == \A i, j \in DOMAIN q : q[i].id = q[j].id => i = j
ShapeInv ==
  /\ \A e \in payloads : IsPayload(e)
  /\ \A c \in Channel : NoRepeat(xbarQueue[c]) /\ NoRepeat(bufQueue[c])
  /\ \A c \in Channel : \A p \in ToSet(xbarQueue[c]) : p.inport = NodePort => p.vc = 0

\* Pending messages, and which of their packets are not out yet.
PendingMessage(s, w, D) ==
  /\ w = [msg |-> w.msg, sent |-> w.sent]
  /\ w.msg \in sent /\ job[w.msg].src = s
  /\ w.sent \in Nat /\ Multiple(w.sent) /\ w.sent < job[w.msg].bytes
  /\ \A d \in D : d.id[1] = w.msg => d.id[2] < w.sent
FreshInv ==
  /\ sent \subseteq Message
  /\ \A d \in DuesOf(InNet, credits) : d.id[1] \in sent
  /\ \A s \in Switch :
       /\ \A w \in ToSet(pendingInject[s]) : PendingMessage(s, w, DuesOf(InNet, credits))
       /\ \A i, j \in DOMAIN pendingInject[s] :
            pendingInject[s][i].msg = pendingInject[s][j].msg => i = j

CreditsInv == ShapeInv /\ LedgerInv /\ Accounted(InNet, credits, Ledger) /\ FreshInv

-----------------------------------------------------------------------------
(***************************************************************************)
(* Bytes.                                                                  *)
(***************************************************************************)
LEMMA Products ==
  /\ Mtu \in Nat /\ Mtu >= 1
  /\ \A i \in Nat : i * Mtu \in Nat /\ i <= i * Mtu /\ (i + 1) * Mtu = i * Mtu + Mtu
  /\ \A i, j \in Nat : i < j => i * Mtu + Mtu <= j * Mtu
  /\ \A i, j \in Nat : (i + j) * Mtu = i * Mtu + j * Mtu
<1>1. Mtu \in Nat /\ Mtu >= 1
  BY PiscesAssumption
<1>2. ASSUME NEW i \in Nat PROVE i * Mtu \in Nat /\ i <= i * Mtu /\ (i + 1) * Mtu = i * Mtu + Mtu
  <2>1. i * Mtu \in Nat /\ (i + 1) * Mtu = i * Mtu + Mtu
    BY <1>1
  <2>2. i * Mtu - i = i * (Mtu - 1) /\ i * (Mtu - 1) >= 0
    BY <1>1
  <2> QED BY <2>1, <2>2, <1>1
<1>3. ASSUME NEW i \in Nat, NEW j \in Nat PROVE (i + j) * Mtu = i * Mtu + j * Mtu
  BY <1>1
<1>4. ASSUME NEW i \in Nat, NEW j \in Nat, i < j PROVE i * Mtu + Mtu <= j * Mtu
  <2> DEFINE k == j - (i + 1)
  <2>1. k \in Nat /\ j = (i + 1) + k
    BY <1>4
  <2> HIDE DEF k
  <2>2. j * Mtu = (i + 1) * Mtu + k * Mtu /\ k * Mtu \in Nat
    BY <1>2, <1>3, <2>1
  <2>3. i * Mtu \in Nat /\ (i + 1) * Mtu = i * Mtu + Mtu
    BY <1>2
  <2> QED
    BY <1>1, <2>2, <2>3
<1> QED
  BY <1>1, <1>2, <1>3, <1>4

LEMMA CutSize ==
  ASSUME JobInv, NEW x, IsCut(x)
  PROVE  /\ x.bytes \in Nat /\ x.bytes >= 1 /\ x.bytes <= Mtu /\ x.id[2] \in Nat
         /\ job[x.id[1]].bytes \in Nat /\ x.id[2] + x.bytes <= job[x.id[1]].bytes
<1>1. job[x.id[1]].bytes \in Nat
  BY PiscesAssumption DEF JobInv, IsCut
<1>2. x.bytes = MinOf(Mtu, job[x.id[1]].bytes - x.id[2]) /\ x.id[2] \in Nat /\ x.id[2] < job[x.id[1]].bytes
  BY DEF IsCut
<1> QED
  BY <1>1, <1>2, Products DEF MinOf

\* A row of bytes of one message.
Row(m, i, j) == {m} \X ((i + 1) .. j)

LEMMA RowSize ==
  ASSUME NEW m, NEW i \in Nat, NEW j \in Nat, i <= j
  PROVE  IsFiniteSet(Row(m, i, j)) /\ Cardinality(Row(m, i, j)) = j - i
<1> DEFINE I == (i + 1) .. j
           n == j - i
<1>1. IsFiniteSet({m}) /\ Cardinality({m}) = 1
  BY FS_Singleton
<1>2. IsFiniteSet(I) /\ Cardinality(I) = IF i + 1 > j THEN 0 ELSE j - (i + 1) + 1
  BY FS_Interval
<1>3. Cardinality(I) = n /\ n \in Nat
  BY <1>2
<1>4. IsFiniteSet({m} \X I) /\ Cardinality({m} \X I) = Cardinality({m}) * Cardinality(I)
  BY <1>1, <1>2, FS_Product
<1> HIDE DEF I, n
<1>5. Cardinality({m} \X I) = 1 * n
  BY <1>1, <1>3, <1>4, Zenon
<1>6. Cardinality({m} \X I) = n
  BY <1>3, <1>5
<1> QED
  BY <1>4, <1>6 DEF I, n, Row

LEMMA BytesUnion ==
  ASSUME NEW X, NEW Y
  PROVE  BytesIn(X \cup Y) = BytesIn(X) \cup BytesIn(Y)
BY DEF BytesIn

LEMMA BytesMember ==
  ASSUME NEW X, NEW b
  PROVE  b \in BytesIn(X) <=> \E x \in X : b \in BytesIn({x})
BY DEF BytesIn

\* The bytes of one packet.
LEMMA BytesOfOne ==
  ASSUME JobInv, NEW x, IsCut(x)
  PROVE  /\ BytesIn({x}) = {x.id[1]} \X ((x.id[2] + 1) .. (x.id[2] + x.bytes))
         /\ IsFiniteSet(BytesIn({x})) /\ BytesOf({x}) = x.bytes
         /\ BytesIn({x}) # {}
<1>1. BytesIn({x}) = {x.id[1]} \X ((x.id[2] + 1) .. (x.id[2] + x.bytes))
  BY DEF BytesIn
<1>2. x.bytes \in Nat /\ x.bytes >= 1 /\ x.id[2] \in Nat
  BY CutSize
<1>3. IsFiniteSet(BytesIn({x})) /\ Cardinality(BytesIn({x})) = x.bytes
  <2> DEFINE m == x.id[1]
             i == x.id[2]
             j == i + x.bytes
  <2>1. i \in Nat /\ j \in Nat /\ i <= j /\ j - i = x.bytes /\ BytesIn({x}) = Row(m, i, j)
    BY <1>1, <1>2 DEF Row
  <2> HIDE DEF m, i, j
  <2>2. IsFiniteSet(Row(m, i, j)) /\ Cardinality(Row(m, i, j)) = j - i
    BY <2>1, RowSize
  <2> QED
    BY <2>1, <2>2
<1>4. <<x.id[1], x.id[2] + 1>> \in {x.id[1]} \X ((x.id[2] + 1) .. (x.id[2] + x.bytes))
  BY <1>2
<1> QED
  BY <1>1, <1>3, <1>4 DEF BytesOf

\* Different packets have no byte in common.
LEMMA BytesApart ==
  ASSUME JobInv, NEW x, NEW y, IsCut(x), IsCut(y), x.id # y.id
  PROVE  BytesIn({x}) \cap BytesIn({y}) = {}
<1>1. /\ BytesIn({x}) = {x.id[1]} \X ((x.id[2] + 1) .. (x.id[2] + x.bytes))
      /\ BytesIn({y}) = {y.id[1]} \X ((y.id[2] + 1) .. (y.id[2] + y.bytes))
  BY BytesOfOne
<1>2. /\ x.bytes \in Nat /\ x.bytes <= Mtu /\ x.id[2] \in Nat
      /\ y.bytes \in Nat /\ y.bytes <= Mtu /\ y.id[2] \in Nat
  BY CutSize
<1>3. x.id[1] # y.id[1] \/ x.id[2] # y.id[2]
  BY DEF IsCut
<1>4. CASE x.id[1] # y.id[1]
  BY <1>1, <1>4
<1>5. CASE x.id[2] # y.id[2]
  <2>1. PICK i \in Nat, j \in Nat : x.id[2] = i * Mtu /\ y.id[2] = j * Mtu
    BY DEF IsCut, Multiple
  <2>2. i < j \/ j < i
    BY <1>5, <2>1
  <2>3. x.id[2] + Mtu <= y.id[2] \/ y.id[2] + Mtu <= x.id[2]
    BY <2>1, <2>2, Products
  <2>4. Mtu \in Nat
    BY Products
  <2>5. \A b : ~(b \in (x.id[2] + 1) .. (x.id[2] + x.bytes) /\ b \in (y.id[2] + 1) .. (y.id[2] + y.bytes))
    BY <1>2, <2>3, <2>4
  <2> QED
    BY <1>1, <2>5
<1> QED
  BY <1>3, <1>4, <1>5

LEMMA SetsApart ==
  ASSUME JobInv, NEW X, NEW Y, \A x \in X \cup Y : IsCut(x), \A x \in X, y \in Y : x.id # y.id
  PROVE  BytesIn(X) \cap BytesIn(Y) = {}
<1> SUFFICES ASSUME NEW b \in BytesIn(X), b \in BytesIn(Y) PROVE FALSE
  OBVIOUS
<1>1. PICK x \in X : b \in BytesIn({x})
  BY BytesMember
<1>2. PICK y \in Y : b \in BytesIn({y})
  BY BytesMember
<1>3. BytesIn({x}) \cap BytesIn({y}) = {}
  BY BytesApart
<1> QED
  BY <1>1, <1>2, <1>3

\* Adding and taking away what has no byte in common with the rest.
LEMMA DisjointUnion ==
  ASSUME NEW S, NEW T, IsFiniteSet(S), IsFiniteSet(T), S \cap T = {}
  PROVE  /\ IsFiniteSet(S \cup T) /\ Cardinality(S \cup T) = Cardinality(S) + Cardinality(T)
         /\ Cardinality(S) \in Nat /\ Cardinality(T) \in Nat
<1>1. Cardinality(S \cap T) = 0
  BY FS_EmptySet
<1>2. Cardinality(S) \in Nat /\ Cardinality(T) \in Nat
  BY FS_CardinalityType
<1>3. /\ IsFiniteSet(S \cup T)
      /\ Cardinality(S \cup T) = Cardinality(S) + Cardinality(T) - Cardinality(S \cap T)
  BY FS_Union
<1> QED
  BY <1>1, <1>2, <1>3

LEMMA BalancedAdd ==
  ASSUME NEW n, NEW D, NEW all \in Nat, Balanced(n, D, all),
         NEW E, IsFiniteSet(BytesIn(E)), BytesIn(D) \cap BytesIn(E) = {}, BytesOf(E) <= n
  PROVE  Balanced(n - BytesOf(E), D \cup E, all)
<1>1. /\ IsFiniteSet(BytesIn(D) \cup BytesIn(E))
      /\ Cardinality(BytesIn(D) \cup BytesIn(E)) = BytesOf(D) + BytesOf(E)
      /\ BytesOf(D) \in Nat /\ BytesOf(E) \in Nat
  BY DisjointUnion DEF Balanced, BytesOf
<1>2. n \in Nat /\ n + BytesOf(D) = all
  BY DEF Balanced
<1>3. n - BytesOf(E) \in Nat /\ (n - BytesOf(E)) + (BytesOf(D) + BytesOf(E)) = all
  BY <1>1, <1>2
<1> QED
  BY <1>1, <1>3, BytesUnion DEF Balanced, BytesOf

LEMMA BalancedRemove ==
  ASSUME NEW n, NEW D, NEW all \in Nat, Balanced(n, D, all),
         NEW E \in SUBSET D, BytesIn(D \ E) \cap BytesIn(E) = {}
  PROVE  Balanced(n + BytesOf(E), D \ E, all)
<1>1. D = (D \ E) \cup E
  OBVIOUS
<1>2. BytesIn(D) = BytesIn(D \ E) \cup BytesIn(E)
  BY <1>1, BytesUnion
<1>3. IsFiniteSet(BytesIn(D))
  BY DEF Balanced
<1>4. IsFiniteSet(BytesIn(D \ E)) /\ IsFiniteSet(BytesIn(E))
  BY <1>2, <1>3, FS_Subset
<1>5. /\ BytesOf(D) = BytesOf(D \ E) + BytesOf(E)
      /\ BytesOf(D \ E) \in Nat /\ BytesOf(E) \in Nat
  BY <1>2, <1>4, DisjointUnion DEF BytesOf
<1>6. n \in Nat /\ n + BytesOf(D) = all
  BY DEF Balanced
<1> QED
  BY <1>4, <1>5, <1>6 DEF Balanced

-----------------------------------------------------------------------------
(***************************************************************************)
(* Stages and their books.                                                 *)
(***************************************************************************)
LEMMA AccountType ==
  ASSUME NEW d, IsCredit(d)
  PROVE  AccountOf(d) \in Account /\ ChannelOf(d) \in Channel
<1>1. ChannelOf(d) \in Channel
  BY DEF IsCredit, ChannelOf, Chan, Channel
<1>2. CASE d.to.at = "nic"
  <2>1. AccountOf(d) = NicAccount(d.to.sw) /\ d.to.sw \in Switch
    BY <1>2 DEF IsCredit, AccountOf, ChannelOf, NicAccount
  <2> QED
    BY <1>1, <2>1 DEF Account
<1>3. CASE d.to.at \in {"xbar", "buffer"}
  BY <1>1, <1>3 DEF AccountOf, Account
<1> QED
  BY <1>2, <1>3 DEF IsCredit

LEMMA SameChannel ==
  ASSUME NEW d, NEW e, ChannelOf(d) = ChannelOf(e)
  PROVE  d.to.sw = e.to.sw /\ d.to.port = e.to.port /\ d.vc = e.vc
<1>1. /\ ChannelOf(d).sw = d.to.sw /\ ChannelOf(d).port = d.to.port /\ ChannelOf(d).vc = d.vc
      /\ ChannelOf(e).sw = e.to.sw /\ ChannelOf(e).port = e.to.port /\ ChannelOf(e).vc = e.vc
  BY DEF ChannelOf, Chan
<1> QED
  BY <1>1

LEMMA ChannelPort == ASSUME NEW d PROVE ChannelOf(d).port = d.to.port
BY DEF ChannelOf, Chan

LEMMA PrecedesOther ==
  ASSUME NEW d, NEW e, IsCredit(d), IsCredit(e), Precedes(d, e)
  PROVE  AccountOf(d) # AccountOf(e)
<1> SUFFICES ASSUME AccountOf(d) = AccountOf(e) PROVE FALSE
  OBVIOUS
<1>1. d.to.at = e.to.at /\ ChannelOf(d) = ChannelOf(e)
  BY DEF AccountOf
<1>2. ~Before(ChannelOf(d), ChannelOf(d)) \/ d.to.port = NodePort
  BY AccountType, ChannelOrder, ChannelPort
<1> QED
  BY <1>1, <1>2 DEF Precedes

LEMMA PrecedesOn ==
  ASSUME NEW d, NEW e, NEW g, IsCredit(d), IsCredit(e), IsCredit(g), Precedes(d, e), Precedes(e, g)
  PROVE  Precedes(d, g)
<1>1. e.to.at # "nic" /\ g.to.at # "nic"
  BY DEF Precedes
<1>2. ChannelOf(d) \in Channel /\ ChannelOf(e) \in Channel /\ ChannelOf(g) \in Channel
  BY AccountType
<1>3. CASE d.to.at = "nic"
  BY <1>1, <1>3 DEF Precedes
<1>4. CASE d.to.port # NodePort /\ Before(ChannelOf(d), ChannelOf(e))
  <2>1. CASE e.to.port # NodePort /\ Before(ChannelOf(e), ChannelOf(g))
    <3>1. Before(ChannelOf(d), ChannelOf(g))
      BY <1>2, <1>4, <2>1, ChannelOrder, ChannelPort
    <3> QED
      BY <1>1, <1>4, <3>1 DEF Precedes
  <2>2. CASE ChannelOf(e) = ChannelOf(g)
    <3>1. Before(ChannelOf(d), ChannelOf(g))
      BY <1>4, <2>2
    <3> QED
      BY <1>1, <1>4, <3>1 DEF Precedes
  <2> QED
    BY <1>1, <2>1, <2>2 DEF Precedes
<1>5. CASE ChannelOf(d) = ChannelOf(e) /\ d.to.at = "xbar" /\ e.to.at = "buffer"
  <2>1. e.to.port # NodePort /\ Before(ChannelOf(e), ChannelOf(g))
    BY <1>5 DEF Precedes
  <2>2. d.to.port # NodePort /\ Before(ChannelOf(d), ChannelOf(g))
    BY <1>5, <2>1, SameChannel
  <2> QED
    BY <1>1, <2>2 DEF Precedes
<1> QED
  BY <1>3, <1>4, <1>5 DEF Precedes

\* There is one credit for a packet in an account.
LEMMA SameCredit ==
  ASSUME JobInv, NEW d, NEW e, IsCredit(d), IsCredit(e), IsCut(d), IsCut(e),
         AccountOf(d) = AccountOf(e), d.id = e.id
  PROVE  d = e
<1>1. d.to.at = e.to.at /\ ChannelOf(d) = ChannelOf(e)
  BY DEF AccountOf
<1>2. d.to.sw = e.to.sw /\ d.to.port = e.to.port /\ d.vc = e.vc
  BY <1>1, SameChannel
<1>3. d.to = e.to
  BY <1>1, <1>2, Zenon DEF IsCredit
<1>4. d.bytes = e.bytes
  BY Zenon DEF IsCut
<1> QED
  BY <1>2, <1>3, <1>4, Zenon DEF IsCredit

LEMMA CapacityType == ASSUME NEW a PROVE Capacity(a) \in Nat
<1>1. CreditsPerVC \in Nat
  <2>1. NumVC = 2
    <3>1. VC = 0 .. 1
      BY DEF VC
    <3> DEFINE i == 0
               j == 1
    <3>2. i \in Int /\ j \in Int
      OBVIOUS
    <3> HIDE DEF i, j
    <3>3. Cardinality(i .. j) = IF i > j THEN 0 ELSE j - i + 1
      BY <3>2, FS_Interval
    <3> QED
      BY <3>1, <3>3 DEF NumVC, i, j
  <2>2. LinkCredits \in Nat
    BY PiscesAssumption
  <2> QED
    BY <2>1, <2>2 DEF CreditsPerVC
<1> QED
  BY <1>1, PiscesAssumption DEF Capacity

\* A stage lets packets go: it has credits for all of them, and none of them
\* owes it already.
LEMMA BooksGrow ==
  ASSUME JobInv, NEW L, NEW D, Books(L, D), \A d \in D : IsCut(d),
         NEW E, \A d \in E : IsCut(d), IsFiniteSet(BytesIn(E)),
         NEW a \in Account, \A d \in E : AccountOf(d) = a,
         \A d \in D, e \in E : AccountOf(d) = a => d.id # e.id,
         BytesOf(E) <= L[a]
  PROVE  Books([L EXCEPT ![a] = @ - BytesOf(E)], D \cup E)
<1> DEFINE M == [L EXCEPT ![a] = @ - BytesOf(E)]
<1>1. L \in [Account -> Nat] /\ \A b \in Account : Balanced(L[b], DuesTo(D, b), Capacity(b))
  BY DEF Books
<1>2. DuesTo(D \cup E, a) = DuesTo(D, a) \cup E
  BY DEF DuesTo
<1>3. BytesIn(DuesTo(D, a)) \cap BytesIn(E) = {}
  <2>1. DuesTo(D, a) \subseteq D /\ \A d \in DuesTo(D, a) : AccountOf(d) = a
    BY DEF DuesTo
  <2> HIDE DEF Account
  <2>2. \A d \in DuesTo(D, a) \cup E : IsCut(d)
    BY <2>1
  <2>3. \A d \in DuesTo(D, a), e \in E : d.id # e.id
    BY <2>1
  <2> QED
    BY <2>2, <2>3, SetsApart
<1>4. Balanced(L[a] - BytesOf(E), DuesTo(D \cup E, a), Capacity(a))
  <2>1. Balanced(L[a], DuesTo(D, a), Capacity(a)) /\ Capacity(a) \in Nat
    BY <1>1, CapacityType
  <2> DEFINE X == DuesTo(D, a)
             all == Capacity(a)
             n == L[a]
  <2> HIDE DEF X, all, n
  <2>2. Balanced(n - BytesOf(E), X \cup E, all)
    BY <1>3, <2>1, BalancedAdd DEF X, all, n
  <2> QED
    BY <1>2, <2>2 DEF X, all, n
<1>5. L[a] - BytesOf(E) \in Nat
  BY <1>4 DEF Balanced
<1>6. M \in [Account -> Nat] /\ M[a] = L[a] - BytesOf(E) /\ \A b \in Account : b # a => M[b] = L[b]
  BY <1>1, <1>5
<1>7. ASSUME NEW b \in Account PROVE Balanced(M[b], DuesTo(D \cup E, b), Capacity(b))
  <2>1. CASE b = a
    BY <1>4, <1>6, <2>1
  <2>2. CASE b # a
    <3>1. DuesTo(D \cup E, b) = DuesTo(D, b)
      BY <2>2 DEF DuesTo
    <3> QED
      BY <1>1, <1>6, <2>2, <3>1
  <2> QED
    BY <2>1, <2>2
<1> HIDE DEF M
<1>8. Books(M, D \cup E)
  BY <1>6, <1>7 DEF Books
<1> QED
  BY <1>8 DEF M

\* A credit comes back.
LEMMA BooksShrink ==
  ASSUME JobInv, NEW L, NEW D, Books(L, D), \A d \in D : IsCut(d) /\ IsCredit(d), NEW cr \in D
  PROVE  Books([L EXCEPT ![AccountOf(cr)] = @ + cr.bytes], D \ {cr})
<1> DEFINE a == AccountOf(cr)
           M == [L EXCEPT ![a] = @ + cr.bytes]
<1>0. a \in Account
  BY AccountType
<1>1. L \in [Account -> Nat] /\ \A b \in Account : Balanced(L[b], DuesTo(D, b), Capacity(b))
  BY DEF Books
<1>2. DuesTo(D \ {cr}, a) = DuesTo(D, a) \ {cr} /\ cr \in DuesTo(D, a)
  BY DEF DuesTo
<1>3. BytesIn(DuesTo(D, a) \ {cr}) \cap BytesIn({cr}) = {}
  <2>1. DuesTo(D, a) \subseteq D /\ \A d \in DuesTo(D, a) : AccountOf(d) = a
    BY DEF DuesTo
  <2>2. \A d \in (DuesTo(D, a) \ {cr}) \cup {cr} : IsCut(d)
    BY <2>1
  <2>3. \A d \in DuesTo(D, a) \ {cr}, e \in {cr} : d.id # e.id
    BY <2>1, SameCredit
  <2> QED
    BY <2>2, <2>3, SetsApart
<1>4. BytesOf({cr}) = cr.bytes
  BY BytesOfOne
<1>5. Balanced(L[a] + cr.bytes, DuesTo(D \ {cr}, a), Capacity(a))
  <2>1. Balanced(L[a], DuesTo(D, a), Capacity(a)) /\ Capacity(a) \in Nat
    BY <1>0, <1>1, CapacityType
  <2>2. {cr} \in SUBSET DuesTo(D, a)
    BY <1>2
  <2>3. Balanced(L[a] + BytesOf({cr}), DuesTo(D, a) \ {cr}, Capacity(a))
    BY <1>3, <2>1, <2>2, BalancedRemove
  <2> QED
    BY <1>2, <1>4, <2>3
<1> HIDE DEF a
<1>6. L[a] + cr.bytes \in Nat
  BY <1>5 DEF Balanced
<1>7. M \in [Account -> Nat] /\ M[a] = L[a] + cr.bytes /\ \A b \in Account : b # a => M[b] = L[b]
  BY <1>0, <1>1, <1>6
<1>8. ASSUME NEW b \in Account PROVE Balanced(M[b], DuesTo(D \ {cr}, b), Capacity(b))
  <2>1. CASE b = a
    BY <1>5, <1>7, <2>1
  <2>2. CASE b # a
    <3>1. DuesTo(D \ {cr}, b) = DuesTo(D, b)
      BY <2>2 DEF DuesTo, a
    <3> QED
      BY <1>1, <1>7, <2>2, <3>1
  <2> QED
    BY <2>1, <2>2
<1> HIDE DEF M
<1>9. Books(M, D \ {cr})
  BY <1>7, <1>8 DEF Books
<1> QED
  BY <1>9 DEF M, a

-----------------------------------------------------------------------------
(***************************************************************************)
(* What the steps do to packets, credits and books.                        *)
(***************************************************************************)
\* Every due of D is for a packet that had one in B.
SameIds(D, B) == \A d \in D : \E b \in B : b.id = d.id

LEMMA DebtId == ASSUME NEW x PROVE Debt(x).id = x.pkt.id /\ Debt(x).bytes = x.pkt.bytes
BY DEF Debt, CreditFor

LEMMA PlacedFacts ==
  ASSUME NEW N, NEW C, Placed(N, C), NEW x \in N
  PROVE  /\ Debt(x) \in DuesOf(N, C) /\ IsCredit(Debt(x)) /\ IsCut(Debt(x)) /\ Debt(x) \notin C
         /\ \A y \in N : x.pkt.id = y.pkt.id => x = y
         /\ \A d \in DuesOf(N, C) : d.id = x.pkt.id => d = Debt(x) \/ Precedes(d, Debt(x))
<1>1. Debt(x) \in DuesOf(N, C)
  BY DEF DuesOf, Debts
<1> QED
  BY <1>1 DEF Placed

\* A packet's next stage is new to it.
LEMMA NextStage ==
  ASSUME NEW N, NEW C, Placed(N, C), NEW x \in N,
         NEW n, IsCredit(n), Precedes(Debt(x), n),
         NEW d \in DuesOf(N, C), d.id = x.pkt.id
  PROVE  Precedes(d, n) /\ AccountOf(d) # AccountOf(n) /\ d # n
<1>1. IsCredit(d) /\ IsCredit(Debt(x)) /\ (d = Debt(x) \/ Precedes(d, Debt(x)))
  BY PlacedFacts DEF Placed
<1>2. Precedes(d, n)
  BY <1>1, PrecedesOn
<1>3. AccountOf(d) # AccountOf(n)
  BY <1>1, <1>2, PrecedesOther
<1> QED
  BY <1>2, <1>3

\* Packets X go on to f[x], out of account a.
Onward(X, f, a) ==
  \A x \in X : /\ f[x].pkt.id = x.pkt.id /\ f[x].pkt.bytes = x.pkt.bytes
               /\ IsCredit(Debt(f[x])) /\ AccountOf(Debt(f[x])) = a
               /\ Precedes(Debt(x), Debt(f[x]))
Gone(X, f) == {f[x] : x \in X}

LEMMA Hop ==
  ASSUME JobInv, NEW N, NEW C, NEW L, Accounted(N, C, L), NEW X \in SUBSET N, NEW f, NEW a \in Account,
         Onward(X, f, a),
         NEW E, E = Debts(Gone(X, f)), IsFiniteSet(BytesIn(E)), BytesOf(E) <= L[a],
         NEW N2, N2 = (N \ X) \cup Gone(X, f)
  PROVE  /\ Accounted(N2, C \cup Debts(X), [L EXCEPT ![a] = @ - BytesOf(E)])
         /\ SameIds(DuesOf(N2, C \cup Debts(X)), DuesOf(N, C))
<1> DEFINE D == DuesOf(N, C)
           C2 == C \cup Debts(X)
           D2 == DuesOf(N2, C2)
<1> HIDE DEF Account
<1>1. Placed(N, C) /\ Books(L, D)
  BY DEF Accounted
<1>2. D2 = D \cup E
  BY DEF DuesOf, Debts, Gone
<1>3. \A d \in D : IsCredit(d) /\ IsCut(d)
  BY <1>1 DEF Placed
<1>4. ASSUME NEW x \in X
      PROVE  /\ x \in N /\ Debt(f[x]).id = x.pkt.id /\ IsCredit(Debt(f[x])) /\ IsCut(Debt(f[x]))
             /\ AccountOf(Debt(f[x])) = a /\ Debt(f[x]) \notin D
             /\ \A d \in D : d.id = x.pkt.id => Precedes(d, Debt(f[x])) /\ AccountOf(d) # a
  <2>1. x \in N /\ IsCredit(Debt(f[x])) /\ Precedes(Debt(x), Debt(f[x])) /\ AccountOf(Debt(f[x])) = a
    BY DEF Onward
  <2>2. Debt(f[x]).id = x.pkt.id /\ Debt(f[x]).bytes = Debt(x).bytes /\ Debt(x).id = x.pkt.id
    BY DebtId DEF Onward
  <2>3. IsCut(Debt(f[x]))
    <3>1. IsCut(Debt(x))
      BY <1>1, <2>1, PlacedFacts
    <3> QED
      BY <2>2, <3>1 DEF IsCut
  <2>4. ASSUME NEW d \in D, d.id = x.pkt.id
        PROVE  Precedes(d, Debt(f[x])) /\ AccountOf(d) # a /\ d # Debt(f[x])
    <3> HIDE DEF Account
    <3>1. Precedes(d, Debt(f[x])) /\ AccountOf(d) # AccountOf(Debt(f[x])) /\ d # Debt(f[x])
      BY <1>1, <2>1, <2>4, NextStage
    <3> QED
      BY <2>1, <3>1
  <2> HIDE DEF D
  <2> QED
    BY <2>1, <2>2, <2>3, <2>4
<1> HIDE DEF D, D2, C2
<1>5. \A e \in E : \E x \in X : e = Debt(f[x])
  BY DEF Debts, Gone
<1>6. SameIds(D2, D)
  <2>1. ASSUME NEW d \in E PROVE \E b \in D : b.id = d.id
    <3>1. PICK x \in X : d = Debt(f[x])
      BY <1>5
    <3>2. Debt(x) \in D /\ Debt(x).id = x.pkt.id
      BY <1>1, <1>4, PlacedFacts, DebtId DEF D
    <3> QED
      BY <1>4, <3>1, <3>2
  <2> QED
    BY <1>2, <2>1 DEF SameIds
<1>7. Placed(N2, C2)
  <2>1. \A y \in N2 : (y \in N /\ y \notin X) \/ \E x \in X : y = f[x]
    BY DEF Gone
  <2>2. \A x, y \in N2 : x.pkt.id = y.pkt.id => x = y
    <3>1. \A x, y \in N : x.pkt.id = y.pkt.id => x = y
      BY <1>1 DEF Placed
    <3> QED
      BY <2>1, <3>1 DEF Onward
  <2>3. ASSUME NEW y \in N2, NEW d \in D2, d.id = y.pkt.id PROVE d = Debt(y) \/ Precedes(d, Debt(y))
    <3>1. CASE y \in N /\ y \notin X
      <4>1. CASE d \in D
        BY <1>1, <2>3, <3>1, <4>1, PlacedFacts DEF D
      <4>2. CASE d \in E
        <5>1. PICK x \in X : d = Debt(f[x])
          BY <1>5, <4>2
        <5>2. x \in N /\ x.pkt.id = y.pkt.id
          BY <1>4, <2>3, <5>1
        <5> QED
          BY <1>1, <3>1, <5>2, PlacedFacts
      <4> QED
        BY <1>2, <4>1, <4>2
    <3>2. ASSUME NEW x \in X, y = f[x] PROVE d = Debt(y) \/ Precedes(d, Debt(y))
      <4>1. d.id = x.pkt.id
        BY <2>3, <3>2 DEF Onward
      <4>2. CASE d \in D
        BY <1>4, <3>2, <4>1, <4>2
      <4>3. CASE d \in E
        <5>1. PICK z \in X : d = Debt(f[z])
          BY <1>5, <4>3
        <5>2. z \in N /\ x \in N /\ x.pkt.id = z.pkt.id
          BY <1>4, <4>1, <5>1
        <5>3. x = z
          BY <1>1, <5>2, PlacedFacts
        <5> QED
          BY <3>2, <5>1, <5>3
      <4> QED
        BY <1>2, <4>2, <4>3
    <3> QED
      BY <2>1, <3>1, <3>2
  <2>4. ASSUME NEW y \in N2 PROVE Debt(y) \notin C2
    <3>1. C2 \subseteq D /\ \A d \in C2 : d \in C \/ \E x \in X : d = Debt(x)
      BY DEF C2, D, DuesOf, Debts
    <3>2. CASE y \in N /\ y \notin X
      <4>1. ASSUME NEW x \in X PROVE Debt(y) # Debt(x)
        <5>1. x \in N /\ x.pkt.id # y.pkt.id
          BY <1>1, <3>2, PlacedFacts
        <5> QED
          BY <5>1, DebtId
      <4> QED
        BY <1>1, <3>1, <3>2, <4>1, PlacedFacts
    <3>3. ASSUME NEW x \in X, y = f[x] PROVE Debt(y) \notin C2
      BY <1>4, <3>1, <3>3
    <3> QED
      BY <2>1, <3>2, <3>3
  <2>5. \A d \in D2 : IsCredit(d) /\ IsCut(d)
    BY <1>2, <1>3, <1>4, <1>5
  <2> QED
    BY <2>2, <2>3, <2>4, <2>5 DEF Placed, D2
<1>8. Books([L EXCEPT ![a] = @ - BytesOf(E)], D \cup E)
  <2>1. \A d \in E : IsCut(d) /\ AccountOf(d) = a
    BY <1>4, <1>5
  <2>2. \A d \in D, e \in E : AccountOf(d) = a => d.id # e.id
    BY <1>4, <1>5
  <2>3. IsFiniteSet(BytesIn(E)) /\ BytesOf(E) <= L[a]
    OBVIOUS
  <2>4. (\A d \in D : IsCut(d)) /\ (\A d \in E : IsCut(d)) /\ (\A d \in E : AccountOf(d) = a)
    BY <1>3, <2>1
  <2> QED
    BY <1>1, <2>2, <2>3, <2>4, BooksGrow
<1>9. Accounted(N2, C2, [L EXCEPT ![a] = @ - BytesOf(E)])
  BY <1>2, <1>7, <1>8, Zenon DEF Accounted, D2
<1> QED
  BY <1>6, <1>9 DEF C2, D, D2

\* One packet goes on.
LEMMA HopOne ==
  ASSUME JobInv, NEW N, NEW C, NEW L, Accounted(N, C, L), NEW x \in N, NEW y, NEW a \in Account,
         y.pkt.id = x.pkt.id, y.pkt.bytes = x.pkt.bytes, IsCredit(Debt(y)), AccountOf(Debt(y)) = a,
         Precedes(Debt(x), Debt(y)), x.pkt.bytes <= L[a]
  PROVE  /\ Accounted((N \ {x}) \cup {y}, C \cup {Debt(x)}, [L EXCEPT ![a] = @ - x.pkt.bytes])
         /\ SameIds(DuesOf((N \ {x}) \cup {y}, C \cup {Debt(x)}), DuesOf(N, C))
<1> DEFINE X == {x}
           f == [z \in X |-> y]
           E == Debts(Gone(X, f))
           N2 == (N \ X) \cup Gone(X, f)
<1> HIDE DEF Account
<1>1. E = {Debt(y)} /\ N2 = (N \ {x}) \cup {y} /\ Debts(X) = {Debt(x)} /\ f[x] = y
  BY DEF Debts, Gone
<1>2. IsCut(Debt(y))
  <2>1. IsCut(Debt(x))
    BY PlacedFacts DEF Accounted
  <2>2. Debt(y).id = Debt(x).id /\ Debt(y).bytes = Debt(x).bytes
    BY DebtId
  <2> QED
    BY <2>1, <2>2 DEF IsCut
<1>3. IsFiniteSet(BytesIn({Debt(y)})) /\ BytesOf({Debt(y)}) = x.pkt.bytes
  BY <1>2, BytesOfOne, DebtId
<1>4. Onward(X, f, a)
  BY <1>1 DEF Onward
<1>5. X \in SUBSET N
  OBVIOUS
<1>6. IsFiniteSet(BytesIn(E)) /\ BytesOf(E) = x.pkt.bytes /\ BytesOf(E) <= L[a]
  BY <1>1, <1>3
<1> HIDE DEF f, X
<1>7. E = Debts(Gone(X, f)) /\ N2 = (N \ X) \cup Gone(X, f)
  OBVIOUS
<1> HIDE DEF E, N2
<1>8. /\ Accounted(N2, C \cup Debts(X), [L EXCEPT ![a] = @ - BytesOf(E)])
      /\ SameIds(DuesOf(N2, C \cup Debts(X)), DuesOf(N, C))
  BY <1>4, <1>5, <1>6, <1>7, Hop
<1> QED
  BY <1>1, <1>6, <1>8

\* A credit comes in.
LEMMA Paid ==
  ASSUME JobInv, NEW N, NEW C, NEW L, Accounted(N, C, L), NEW cr \in C
  PROVE  /\ Accounted(N, C \ {cr}, [L EXCEPT ![AccountOf(cr)] = @ + cr.bytes])
         /\ SameIds(DuesOf(N, C \ {cr}), DuesOf(N, C))
         /\ AccountOf(cr) \in Account
<1>1. Placed(N, C) /\ Books(L, DuesOf(N, C))
  BY DEF Accounted
<1>2. cr \notin Debts(N) /\ cr \in DuesOf(N, C)
  BY <1>1 DEF Placed, Debts, DuesOf
<1>3. DuesOf(N, C \ {cr}) = DuesOf(N, C) \ {cr}
  BY <1>2 DEF DuesOf
<1>4. Placed(N, C \ {cr})
  BY <1>1, <1>3 DEF Placed
<1>5. \A d \in DuesOf(N, C) : IsCut(d) /\ IsCredit(d)
  BY <1>1 DEF Placed
<1>6. Books([L EXCEPT ![AccountOf(cr)] = @ + cr.bytes], DuesOf(N, C) \ {cr})
  <2> DEFINE D == DuesOf(N, C)
  <2> HIDE DEF D
  <2> QED
    BY <1>1, <1>2, <1>5, BooksShrink DEF D
<1>7. SameIds(DuesOf(N, C) \ {cr}, DuesOf(N, C))
  BY DEF SameIds
<1>8. AccountOf(cr) \in Account
  BY <1>2, <1>5, AccountType
<1> QED
  BY <1>3, <1>4, <1>6, <1>7, <1>8, Zenon DEF Accounted

\* A packet moves within a stage.
LEMMA Stay ==
  ASSUME NEW N, NEW C, NEW L, Accounted(N, C, L), NEW x \in N, NEW y,
         y.pkt.id = x.pkt.id, Debt(y) = Debt(x)
  PROVE  /\ Accounted((N \ {x}) \cup {y}, C, L)
         /\ SameIds(DuesOf((N \ {x}) \cup {y}, C), DuesOf(N, C))
<1> DEFINE M == (N \ {x}) \cup {y}
<1>1. Placed(N, C) /\ Books(L, DuesOf(N, C))
  BY DEF Accounted
<1>2. DuesOf(M, C) = DuesOf(N, C)
  BY DEF DuesOf, Debts
<1>3. \A z \in M : \E w \in N : z.pkt.id = w.pkt.id /\ Debt(z) = Debt(w)
  OBVIOUS
<1>4. \A z, w \in M : z.pkt.id = w.pkt.id => z = w
  BY <1>1 DEF Placed
<1> HIDE DEF M
<1>5. Placed(M, C)
  BY <1>1, <1>2, <1>3, <1>4 DEF Placed
<1>6. SameIds(DuesOf(N, C), DuesOf(N, C))
  BY DEF SameIds
<1> QED
  BY <1>1, <1>2, <1>5, <1>6 DEF Accounted, M

\* A packet leaves the network.
LEMMA Leave ==
  ASSUME NEW N, NEW C, NEW L, Accounted(N, C, L), NEW x \in N
  PROVE  /\ Accounted(N \ {x}, C \cup {Debt(x)}, L)
         /\ SameIds(DuesOf(N \ {x}, C \cup {Debt(x)}), DuesOf(N, C))
<1> DEFINE M == N \ {x}
           C2 == C \cup {Debt(x)}
<1>1. Placed(N, C) /\ Books(L, DuesOf(N, C))
  BY DEF Accounted
<1>2. DuesOf(M, C2) = DuesOf(N, C)
  BY DEF DuesOf, Debts
<1>3. ASSUME NEW y \in M PROVE Debt(y) \notin C2
  <2>1. y \in N /\ y.pkt.id # x.pkt.id
    BY <1>1, PlacedFacts
  <2> QED
    BY <1>1, <2>1, DebtId, PlacedFacts
<1>4. Placed(M, C2)
  <2>1. M \subseteq N
    OBVIOUS
  <2> HIDE DEF M, C2
  <2> QED
    BY <1>1, <1>2, <1>3, <2>1 DEF Placed
<1>5. SameIds(DuesOf(N, C), DuesOf(N, C))
  BY DEF SameIds
<1> HIDE DEF M, C2
<1>6. Accounted(M, C2, L)
  BY <1>1, <1>2, <1>4 DEF Accounted
<1>7. SameIds(DuesOf(M, C2), DuesOf(N, C))
  BY <1>2, <1>5
<1> QED
  BY <1>6, <1>7 DEF M, C2

\* New packets come in, out of account a.
LEMMA Enter ==
  ASSUME JobInv, NEW N, NEW C, NEW L, Accounted(N, C, L), NEW Y, NEW a \in Account,
         \A y \in Y : IsCredit(Debt(y)) /\ IsCut(Debt(y)) /\ AccountOf(Debt(y)) = a,
         \A y, z \in Y : y.pkt.id = z.pkt.id => y = z,
         \A y \in Y : \A d \in DuesOf(N, C) : d.id # y.pkt.id,
         IsFiniteSet(BytesIn(Debts(Y))), BytesOf(Debts(Y)) <= L[a]
  PROVE  Accounted(N \cup Y, C, [L EXCEPT ![a] = @ - BytesOf(Debts(Y))])
<1> DEFINE D == DuesOf(N, C)
           E == Debts(Y)
           M == N \cup Y
<1> HIDE DEF Account
<1>1. Placed(N, C) /\ Books(L, D)
  BY DEF Accounted
<1>2. DuesOf(M, C) = D \cup E
  BY DEF DuesOf, Debts
<1>3. \A e \in E : \E y \in Y : e = Debt(y) /\ e.id = y.pkt.id
  BY DebtId DEF Debts
<1>4. \A x \in N : \E d \in D : d.id = x.pkt.id
  BY DebtId DEF DuesOf, Debts
<1>5. C \subseteq D /\ \A d \in D : IsCredit(d) /\ IsCut(d)
  BY <1>1 DEF Placed, DuesOf
<1>6. \A e \in E : IsCredit(e) /\ IsCut(e) /\ AccountOf(e) = a
  BY <1>3
<1> HIDE DEF D, E
<1>7. \A y \in Y : \A d \in D : d.id # y.pkt.id
  BY DEF D
<1>8. \A x \in N, y \in Y : x.pkt.id # y.pkt.id
  BY <1>4, <1>7
<1>9. Placed(M, C)
  <2>1. \A x, y \in M : x.pkt.id = y.pkt.id => x = y
    BY <1>1, <1>8 DEF Placed
  <2>2. ASSUME NEW x \in M, NEW d \in D \cup E, d.id = x.pkt.id PROVE d = Debt(x) \/ Precedes(d, Debt(x))
    <3>1. CASE x \in N
      <4>1. d \in D
        BY <1>3, <1>8, <2>2, <3>1
      <4> QED
        BY <1>1, <2>2, <3>1, <4>1, PlacedFacts DEF D
    <3>2. CASE x \in Y
      <4>1. d \in E
        BY <1>7, <2>2, <3>2
      <4> QED
        BY <1>3, <2>2, <3>2, <4>1
    <3> QED
      BY <3>1, <3>2
  <2>3. ASSUME NEW x \in M PROVE Debt(x) \notin C
    <3>1. CASE x \in N
      BY <1>1, <3>1, PlacedFacts
    <3>2. CASE x \in Y
      BY <1>5, <1>7, <3>2, DebtId
    <3> QED
      BY <3>1, <3>2
  <2> HIDE DEF M
  <2> QED
    BY <1>2, <1>5, <1>6, <2>1, <2>2, <2>3 DEF Placed
<1>10. Books([L EXCEPT ![a] = @ - BytesOf(E)], D \cup E)
  <2>1. \A d \in D, e \in E : AccountOf(d) = a => d.id # e.id
    BY <1>3, <1>7
  <2>2. (\A d \in D : IsCut(d)) /\ (\A d \in E : IsCut(d)) /\ (\A d \in E : AccountOf(d) = a)
    BY <1>5, <1>6
  <2>3. IsFiniteSet(BytesIn(E)) /\ BytesOf(E) <= L[a]
    BY DEF E
  <2> QED
    BY <1>1, <2>1, <2>2, <2>3, BooksGrow
<1> HIDE DEF M
<1>11. Accounted(M, C, [L EXCEPT ![a] = @ - BytesOf(E)])
  BY <1>2, <1>9, <1>10, Zenon DEF Accounted
<1> QED
  BY <1>11 DEF M, E

-----------------------------------------------------------------------------
(***************************************************************************)
(* Queues, by the packets in them.                                         *)
(***************************************************************************)
LEMMA AppendSet ==
  ASSUME NEW q, IsQueue(q), NEW x
  PROVE  /\ ToSet(Append(q, x)) = ToSet(q) \cup {x}
         /\ NoRepeat(q) /\ (\A y \in ToSet(q) : y.id # x.id) => NoRepeat(Append(q, x))
<1> DEFINE r == Append(q, x)
<1>1. q \in Seq(ToSet(q))
  BY DEF IsQueue
<1>2. /\ Len(q) \in Nat /\ DOMAIN q = 1 .. Len(q) /\ DOMAIN r = 1 .. (Len(q) + 1)
      /\ r[Len(q) + 1] = x /\ \A i \in 1 .. Len(q) : r[i] = q[i]
  BY <1>1
<1> HIDE DEF r
<1>3. \A i \in DOMAIN r : i \in DOMAIN q \/ i = Len(q) + 1
  BY <1>2
<1>4. ToSet(r) = ToSet(q) \cup {x}
  <2>1. ToSet(r) \subseteq ToSet(q) \cup {x}
    BY <1>2, <1>3 DEF ToSet
  <2>2. \A i \in DOMAIN q : q[i] \in ToSet(r)
    BY <1>2 DEF ToSet
  <2>3. x \in ToSet(r)
    BY <1>2 DEF ToSet
  <2> QED
    BY <2>1, <2>2, <2>3 DEF ToSet
<1>5. ASSUME NoRepeat(q), \A y \in ToSet(q) : y.id # x.id PROVE NoRepeat(r)
  <2>1. \A i \in DOMAIN q : q[i].id # x.id
    BY <1>5 DEF ToSet
  <2> SUFFICES ASSUME NEW i \in DOMAIN r, NEW j \in DOMAIN r, r[i].id = r[j].id PROVE i = j
    BY DEF NoRepeat
  <2> QED
    BY <1>2, <1>3, <1>5, <2>1 DEF NoRepeat
<1> QED
  BY <1>4, <1>5 DEF r

\* Queue r has what is at places S of q, each once.
Others(q, S) == {q[k] : k \in DOMAIN q \ S}
Picks(r, f, n, q, S) ==
  /\ n \in Nat
  /\ DOMAIN r = 1 .. n
  /\ \A i \in 1 .. n : r[i] = q[f[i]]
  /\ f \in [1 .. n -> S]
  /\ S \subseteq DOMAIN q
  /\ \A i, j \in 1 .. n : f[i] = f[j] => i = j
  /\ \A k \in S : \E i \in 1 .. n : f[i] = k

LEMMA PickedSet ==
  ASSUME NEW q, NoRepeat(q), NEW n, NEW S, NEW f, NEW r, Picks(r, f, n, q, S)
  PROVE  ToSet(r) = ToSet(q) \ Others(q, S) /\ NoRepeat(r)
<1>0. DOMAIN r = 1 .. n /\ \A i \in 1 .. n : r[i] = q[f[i]]
  BY DEF Picks
<1>1. \A i \in 1 .. n : f[i] \in S /\ f[i] \in DOMAIN q
  BY DEF Picks
<1>2. NoRepeat(r)
  BY <1>0, <1>1 DEF NoRepeat, Picks
<1>3. ASSUME NEW x \in ToSet(r) PROVE x \in ToSet(q) /\ x \notin Others(q, S)
  <2>1. PICK i \in 1 .. n : x = r[i]
    BY <1>0 DEF ToSet
  <2>2. x = q[f[i]] /\ f[i] \in S /\ f[i] \in DOMAIN q
    BY <1>0, <1>1, <2>1
  <2>3. \A k \in DOMAIN q : q[k] = x => k = f[i]
    BY <2>2 DEF NoRepeat
  <2> QED
    BY <2>2, <2>3 DEF ToSet, Others
<1>4. ASSUME NEW x \in ToSet(q), x \notin Others(q, S) PROVE x \in ToSet(r)
  <2>1. PICK k \in DOMAIN q : x = q[k]
    BY DEF ToSet
  <2>2. k \in S
    BY <1>4, <2>1 DEF Others
  <2>3. PICK i \in 1 .. n : f[i] = k
    BY <2>2 DEF Picks
  <2> QED
    BY <1>0, <2>1, <2>3 DEF ToSet
<1> QED
  BY <1>2, <1>3, <1>4

LEMMA RemoveSet ==
  ASSUME NEW q, IsQueue(q), NoRepeat(q), NEW k \in DOMAIN q
  PROVE  ToSet(RemoveAt(q, k)) = ToSet(q) \ {q[k]} /\ NoRepeat(RemoveAt(q, k))
<1> DEFINE n == Len(q) - 1
           S == DOMAIN q \ {k}
           f == [i \in 1 .. n |-> IF i < k THEN i ELSE i + 1]
           r == RemoveAt(q, k)
           T == ToSet(q)
<1>1. q \in Seq(T) /\ Len(q) \in Nat /\ DOMAIN q = 1 .. Len(q) /\ k \in 1 .. Len(q)
  BY DEF IsQueue
<1>2. n \in Nat
  BY <1>1
<1>3a. DOMAIN r = 1 .. n /\ \A i \in 1 .. n : r[i] = q[f[i]]
  <2> HIDE DEF T
  <2>1. /\ SubSeq(q, 1, k - 1) \in Seq(T) /\ SubSeq(q, k + 1, Len(q)) \in Seq(T)
        /\ Len(SubSeq(q, 1, k - 1)) = k - 1 /\ Len(SubSeq(q, k + 1, Len(q))) = Len(q) - k
        /\ \A i \in 1 .. (k - 1) : SubSeq(q, 1, k - 1)[i] = q[i]
        /\ \A i \in 1 .. (Len(q) - k) : SubSeq(q, k + 1, Len(q))[i] = q[i + k]
    BY <1>1
  <2> DEFINE a == SubSeq(q, 1, k - 1)
             b == SubSeq(q, k + 1, Len(q))
  <2> HIDE DEF a, b
  <2>2. r = a \o b
    BY DEF RemoveAt, a, b
  <2>3. a \in Seq(T) /\ b \in Seq(T) /\ Len(a) = k - 1 /\ Len(b) = Len(q) - k
    BY <2>1 DEF a, b
  <2>4. Len(r) = n /\ DOMAIN r = 1 .. n
    <3>1. a \o b \in Seq(T) /\ Len(a \o b) = Len(a) + Len(b)
      BY <2>3
    <3>2. Len(r) = n /\ r \in Seq(T)
      BY <1>1, <2>2, <2>3, <3>1
    <3> HIDE DEF r
    <3> QED
      BY <3>2
  <2>5. ASSUME NEW i \in 1 .. n PROVE r[i] = q[f[i]]
    <3>1. CASE i < k
      <4>1. r[i] = a[i] /\ i \in 1 .. (k - 1)
        BY <1>1, <2>2, <2>3, <3>1
      <4>2. a[i] = q[i]
        BY <2>1, <4>1 DEF a
      <4> QED
        BY <3>1, <4>1, <4>2
    <3>2. CASE i >= k
      <4> DEFINE j == i - (k - 1)
      <4>1. r[i] = b[j] /\ j \in 1 .. (Len(q) - k) /\ j + k = i + 1
        BY <1>1, <2>2, <2>3, <3>2
      <4> HIDE DEF j
      <4>2. b[j] = q[j + k]
        BY <2>1, <4>1 DEF b
      <4>3. f[i] = i + 1
        BY <1>1, <3>2
      <4> QED
        BY <4>1, <4>2, <4>3
    <3> QED
      BY <1>1, <3>1, <3>2
  <2> QED
    BY <2>4, <2>5
<1>3. Picks(r, f, n, q, S)
  <2>1. f \in [1 .. n -> S] /\ S \subseteq DOMAIN q
    BY <1>1, <1>2
  <2>2. \A i, j \in 1 .. n : f[i] = f[j] => i = j
    BY <1>1, <1>2
  <2>3. ASSUME NEW j \in S PROVE \E i \in 1 .. n : f[i] = j
    <3>1. CASE j < k
      <4>1. j \in 1 .. n /\ f[j] = j
        BY <1>1, <1>2, <3>1
      <4> QED
        BY <4>1
    <3>2. CASE j > k
      <4>1. j - 1 \in 1 .. n /\ f[j - 1] = j
        BY <1>1, <1>2, <3>2
      <4> QED
        BY <4>1
    <3> QED
      BY <1>1, <3>1, <3>2
  <2> HIDE DEF f, n, S, r
  <2> QED
    BY <1>2, <1>3a, <2>1, <2>2, <2>3 DEF Picks
<1>5. Others(q, S) = {q[k]}
  BY <1>1 DEF Others
<1> HIDE DEF n, S, f, r
<1>6. ToSet(r) = ToSet(q) \ Others(q, S) /\ NoRepeat(r)
  BY <1>3, PickedSet
<1> QED
  BY <1>5, <1>6 DEF r

LEMMA SelectSet ==
  ASSUME NEW q, IsQueue(q), NoRepeat(q), NEW go \in SUBSET DOMAIN q,
         NEW stay \in InOrder(DOMAIN q \ go)
  PROVE  LET r == [i \in DOMAIN stay |-> q[stay[i]]] IN
         ToSet(r) = ToSet(q) \ {q[k] : k \in go} /\ NoRepeat(r)
<1> DEFINE S == DOMAIN q \ go
           n == Cardinality(S)
           r == [i \in DOMAIN stay |-> q[stay[i]]]
<1>1. IsFiniteSet(S) /\ n \in Nat
  <2>1. DOMAIN q = 1 .. Len(q) /\ Len(q) \in Nat
    BY DEF IsQueue
  <2>2. IsFiniteSet(DOMAIN q)
    BY <2>1, FS_Interval
  <2>3. IsFiniteSet(S)
    BY <2>2, FS_Subset
  <2> QED
    BY <2>3, FS_CardinalityType
<1>2. stay \in [1 .. n -> S] /\ \A i, j \in 1 .. n : i < j => stay[i] < stay[j]
  BY DEF InOrder
<1>3. S \subseteq DOMAIN q /\ DOMAIN q \subseteq Nat
  BY DEF IsQueue
<1>3a. DOMAIN q \ S = go
  OBVIOUS
<1> HIDE DEF S, n
<1>4. \A i, j \in 1 .. n : stay[i] = stay[j] => i = j
  <2> SUFFICES ASSUME NEW i \in 1 .. n, NEW j \in 1 .. n, stay[i] = stay[j], i # j PROVE FALSE
    OBVIOUS
  <2>1. i < j \/ j < i
    BY <1>1
  <2>2. stay[i] \in Nat /\ stay[j] \in Nat
    BY <1>2, <1>3
  <2>3. stay[i] < stay[j] \/ stay[j] < stay[i]
    BY <1>2, <2>1
  <2> QED
    BY <2>2, <2>3
<1>5. \A k \in S : \E i \in 1 .. n : stay[i] = k
  <2>1. stay \in Injection(1 .. n, S)
    BY <1>2, <1>4 DEF Injection, IsInjective
  <2>2. Cardinality(1 .. n) = n
    <3> DEFINE one == 1
    <3>1. one \in Int /\ n \in Int
      BY <1>1
    <3> HIDE DEF one
    <3>2. Cardinality(one .. n) = IF one > n THEN 0 ELSE n - one + 1
      BY <3>1, FS_Interval
    <3> QED
      BY <1>1, <3>2 DEF one
  <2>3. stay \in Surjection(1 .. n, S)
    <3>1. Cardinality(1 .. n) = Cardinality(S)
      BY <2>2 DEF n
    <3> QED
      BY <1>1, <2>1, <3>1, FS_Injection
  <2> QED
    BY <2>3 DEF Surjection
<1>6. DOMAIN r = 1 .. n /\ \A i \in 1 .. n : r[i] = q[stay[i]]
  BY <1>2
<1> HIDE DEF r
<1>7. Picks(r, stay, n, q, S)
  BY <1>1, <1>2, <1>3, <1>4, <1>5, <1>6 DEF Picks
<1>8. ToSet(r) = ToSet(q) \ Others(q, S) /\ NoRepeat(r)
  BY <1>7, PickedSet
<1> QED
  BY <1>3a, <1>8 DEF r, Others

-----------------------------------------------------------------------------
(***************************************************************************)
(* Where packets wait, and the stages they pass.                           *)
(***************************************************************************)
LEMMA WaitingMember ==
  ASSUME NEW at, NEW queue, NEW x
  PROVE  x \in Waiting(at, queue) <=> \E c \in Channel : \E p \in ToSet(queue[c]) : x = Spot(at, c, p)
BY DEF Waiting

LEMMA SpotFacts ==
  ASSUME NEW at, NEW c, NEW p
  PROVE  /\ Spot(at, c, p).pkt = p /\ Spot(at, c, p).to = To(at, c.sw, c.port)
         /\ Spot(at, c, p).to.at = at /\ Spot(at, c, p).to.sw = c.sw /\ Spot(at, c, p).to.port = c.port
BY DEF Spot, To

\* Queue c now holds r instead.
LEMMA WaitingAppend ==
  ASSUME NEW at, NEW queue, queue = [c \in Channel |-> queue[c]], NEW c \in Channel, NEW p,
         NEW r, ToSet(r) = ToSet(queue[c]) \cup {p}
  PROVE  Waiting(at, [queue EXCEPT ![c] = r]) = Waiting(at, queue) \cup {Spot(at, c, p)}
<1> DEFINE new == [queue EXCEPT ![c] = r]
<1>1. new[c] = r /\ \A b \in Channel : b # c => new[b] = queue[b]
  OBVIOUS
<1> HIDE DEF new
<1>2. ASSUME NEW x \in Waiting(at, new) PROVE x \in Waiting(at, queue) \cup {Spot(at, c, p)}
  <2>0. PICK b \in Channel : \E z \in ToSet(new[b]) : x = Spot(at, b, z)
    BY WaitingMember
  <2>1. PICK z \in ToSet(new[b]) : x = Spot(at, b, z)
    BY <2>0
  <2>2. z \in ToSet(queue[b]) \/ (b = c /\ z = p)
    BY <1>1, <2>1
  <2> QED
    BY <2>1, <2>2, WaitingMember
<1>3. ASSUME NEW x \in Waiting(at, queue) PROVE x \in Waiting(at, new)
  <2>0. PICK b \in Channel : \E z \in ToSet(queue[b]) : x = Spot(at, b, z)
    BY WaitingMember
  <2>1. PICK z \in ToSet(queue[b]) : x = Spot(at, b, z)
    BY <2>0
  <2>2. z \in ToSet(new[b])
    BY <1>1, <2>1
  <2> QED
    BY <2>1, <2>2, WaitingMember
<1>4. Spot(at, c, p) \in Waiting(at, new)
  <2>1. p \in ToSet(new[c])
    BY <1>1
  <2> QED
    BY <2>1, WaitingMember
<1> QED
  BY <1>2, <1>3, <1>4 DEF new

\* A packet waits at one queue of its port.
OneQueue(queue, c, P) ==
  \A b \in Channel : \A p \in P :
    b.sw = c.sw /\ b.port = c.port /\ p \in ToSet(queue[b]) => b = c
Spots(at, c, P) == {Spot(at, c, p) : p \in P}

LEMMA WaitingRemove ==
  ASSUME NEW at, NEW queue, queue = [c \in Channel |-> queue[c]], NEW c \in Channel,
         NEW P, OneQueue(queue, c, P), NEW r, ToSet(r) = ToSet(queue[c]) \ P
  PROVE  Waiting(at, [queue EXCEPT ![c] = r]) = Waiting(at, queue) \ Spots(at, c, P)
<1> DEFINE new == [queue EXCEPT ![c] = r]
<1>1. new[c] = r /\ \A b \in Channel : b # c => new[b] = queue[b]
  OBVIOUS
<1> HIDE DEF new
<1>2. ASSUME NEW x \in Waiting(at, new) PROVE x \in Waiting(at, queue) \ Spots(at, c, P)
  <2>0. PICK b \in Channel : \E z \in ToSet(new[b]) : x = Spot(at, b, z)
    BY WaitingMember
  <2>1. PICK z \in ToSet(new[b]) : x = Spot(at, b, z)
    BY <2>0
  <2>2. z \in ToSet(queue[b]) /\ (b = c => z \notin P)
    BY <1>1, <2>1
  <2>3. ASSUME NEW p \in P, x = Spot(at, c, p) PROVE FALSE
    <3>0. /\ Spot(at, b, z).pkt = z /\ Spot(at, b, z).to.sw = b.sw /\ Spot(at, b, z).to.port = b.port
          /\ Spot(at, c, p).pkt = p /\ Spot(at, c, p).to.sw = c.sw /\ Spot(at, c, p).to.port = c.port
      BY SpotFacts
    <3>1. p = z /\ b.sw = c.sw /\ b.port = c.port
      BY <2>1, <2>3, <3>0
    <3>2. b = c
      BY <2>2, <3>1 DEF OneQueue
    <3> QED
      BY <2>2, <3>1, <3>2
  <2>4. x \in Waiting(at, queue)
    BY <2>1, <2>2, WaitingMember
  <2> QED
    BY <2>3, <2>4 DEF Spots
<1>3. ASSUME NEW x \in Waiting(at, queue), x \notin Spots(at, c, P) PROVE x \in Waiting(at, new)
  <2>0. PICK b \in Channel : \E z \in ToSet(queue[b]) : x = Spot(at, b, z)
    BY WaitingMember
  <2>1. PICK z \in ToSet(queue[b]) : x = Spot(at, b, z)
    BY <2>0
  <2>2. b = c => z \notin P
    BY <1>3, <2>1 DEF Spots
  <2>3. z \in ToSet(new[b])
    BY <1>1, <2>1, <2>2
  <2> QED
    BY <2>1, <2>3, WaitingMember
<1> QED
  BY <1>2, <1>3 DEF new

LEMMA CreditFields ==
  ASSUME NEW p, NEW to
  PROVE  /\ CreditFor(p, to).to = to /\ CreditFor(p, to).vc = p.vc
         /\ CreditFor(p, to).bytes = p.bytes /\ CreditFor(p, to).id = p.id
         /\ CreditFor(p, to) = [to |-> to, vc |-> p.vc, bytes |-> p.bytes, id |-> p.id]
BY DEF CreditFor

LEMMA ToFields ==
  ASSUME NEW at, NEW s, NEW port
  PROVE  To(at, s, port).at = at /\ To(at, s, port).sw = s /\ To(at, s, port).port = port
BY DEF To

\* The credit of a stage at channel c.
LEMMA StageCredit ==
  ASSUME NEW c \in Channel, NEW at \in {"xbar", "buffer"}, NEW p, p.vc = c.vc
  PROVE  LET d == CreditFor(p, To(at, c.sw, c.port)) IN
         /\ IsCredit(d) /\ ChannelOf(d) = c /\ AccountOf(d) = <<at, c>> /\ <<at, c>> \in Account
         /\ d.to.at = at /\ d.to.port = c.port
<1> DEFINE d == CreditFor(p, To(at, c.sw, c.port))
<1>1. /\ d.to = To(at, c.sw, c.port) /\ d.vc = c.vc
      /\ d = [to |-> d.to, vc |-> d.vc, bytes |-> d.bytes, id |-> d.id]
  BY CreditFields
<1>2. d.to.at = at /\ d.to.sw = c.sw /\ d.to.port = c.port
  BY <1>1, ToFields
<1>3. c.sw \in Switch /\ c.port \in Port /\ c.vc \in VC /\ c = [sw |-> c.sw, port |-> c.port, vc |-> c.vc]
  BY DEF Channel
<1> HIDE DEF d
<1>4. ChannelOf(d) = c
  BY <1>1, <1>2, <1>3 DEF ChannelOf, Chan
<1>5. IsCredit(d)
  BY <1>1, <1>2, <1>3 DEF IsCredit
<1>6. AccountOf(d) = <<at, c>> /\ <<at, c>> \in Account
  BY <1>2, <1>4 DEF AccountOf, Account
<1> QED
  BY <1>2, <1>4, <1>5, <1>6 DEF d

\* What a packet in a crossbar owes, and what it owes when it goes on.
LEMMA CrossbarHop ==
  ASSUME NEW c \in Channel, NEW p, InCrossbar(c, p), p.inport = NodePort => p.vc = 0
  PROVE  LET y == XbarSend(c.sw, p)
             d == CreditFor(p, Upstream(c.sw, p.inport))
         IN
         /\ y.pkt.id = p.id /\ y.pkt.bytes = p.bytes /\ IsPayload(y)
         /\ IsCredit(Debt(y)) /\ AccountOf(Debt(y)) = <<"xbar", c>> /\ <<"xbar", c>> \in Account
         /\ Precedes(d, Debt(y))
<1> DEFINE y == XbarSend(c.sw, p)
           d == CreditFor(p, Upstream(c.sw, p.inport))
           u == UpdateVC(p)
<1>1. IsPacket(p) /\ p.hdr.port = c.port /\ p.hdr.vc = c.vc /\ p.inport \in Port
  BY DEF InCrossbar, LeavesBy, IsPacket
<1>2. u.vc = c.vc /\ u.id = p.id /\ u.bytes = p.bytes
  BY <1>1, UpdatedPacket
<1>3. y = [to |-> To("buffer", c.sw, c.port), pkt |-> u]
  BY <1>1 DEF XbarSend
<1>4. y.pkt = u /\ y.to = To("buffer", c.sw, c.port) /\ y.to.at = "buffer" /\ y.to.sw = c.sw /\ y.to.port = c.port
  BY <1>3, ToFields
<1>5. IsPayload(y)
  <2> HIDE DEF y, u
  <2> QED
    BY <1>3, <1>4 DEF IsPayload
<1>6. Debt(y) = CreditFor(u, To("xbar", c.sw, c.port))
  BY <1>4 DEF Debt, Creditor
<1> HIDE DEF y, u
<1>7. /\ IsCredit(Debt(y)) /\ ChannelOf(Debt(y)) = c /\ AccountOf(Debt(y)) = <<"xbar", c>>
      /\ <<"xbar", c>> \in Account /\ Debt(y).to.at = "xbar"
  <2> DEFINE v == CreditFor(u, To("xbar", c.sw, c.port))
  <2>1. "xbar" \in {"xbar", "buffer"}
    OBVIOUS
  <2>2. /\ IsCredit(v) /\ ChannelOf(v) = c /\ AccountOf(v) = <<"xbar", c>>
        /\ <<"xbar", c>> \in Account /\ v.to.at = "xbar"
    BY <1>2, <2>1, StageCredit, Zenon
  <2> QED
    BY <1>6, <2>2
<1>8. Precedes(d, Debt(y))
  <2>1. d.to = Upstream(c.sw, p.inport) /\ d.vc = p.vc
    BY CreditFields
  <2> HIDE DEF d
  <2>2. CASE p.inport = NodePort
    <3>1. d.to.at = "nic"
      BY <2>1, <2>2, ToFields DEF Upstream
    <3> QED
      BY <1>7, <3>1 DEF Precedes
  <2>3. CASE p.inport # NodePort
    <3>1. d.to.sw = Neighbor(c.sw, p.inport) /\ d.to.port = Opposite(p.inport)
      BY <2>1, <2>3, ToFields DEF Upstream
    <3>2. ChannelOf(d) = HeldBy(c.sw, p)
      BY <2>1, <3>1 DEF ChannelOf, HeldBy
    <3>3. Before(ChannelOf(d), ChannelOf(Debt(y)))
      BY <1>7, <2>3, <3>2 DEF InCrossbar
    <3>4. d.to.port # NodePort
      BY <1>1, <2>3, <3>1, OppositePort, PortKinds
    <3> QED
      BY <1>7, <3>3, <3>4 DEF Precedes
  <2> QED
    BY <2>2, <2>3
<1> QED
  BY <1>2, <1>4, <1>5, <1>7, <1>8 DEF y, d

\* A packet that comes in at a switch owes the same before and after routing.
LEMMA RoutedDebt ==
  ASSUME NEW e, GoodPayload(e), e.to.at = "switch"
  PROVE  Debt(e) = CreditFor(Routed(e), Upstream(e.to.sw, Routed(e).inport))
<1>1. /\ Routed(e).inport = e.to.port /\ Routed(e).vc = e.pkt.vc
      /\ Routed(e).id = e.pkt.id /\ Routed(e).bytes = e.pkt.bytes
  BY RoutedPacket
<1>2. Debt(e) = CreditFor(e.pkt, Upstream(e.to.sw, e.to.port))
  BY DEF Debt, Creditor
<1>3. \A to : CreditFor(e.pkt, to) = CreditFor(Routed(e), to)
  BY <1>1 DEF CreditFor
<1> QED
  BY <1>1, <1>2, <1>3

LEMMA SpotDebt ==
  ASSUME NEW c, NEW p
  PROVE  /\ Debt(Spot("inXbar", c, p)) = CreditFor(p, Upstream(c.sw, p.inport))
         /\ Debt(Spot("inBuffer", c, p)) = BufferCredit(c.sw, c.port, p)
BY SpotFacts DEF Debt, Creditor, BufferCredit

\* What a packet in an output buffer owes, and what it owes on the link.
LEMMA BufferHop ==
  ASSUME NEW c \in Channel, NEW p, InBuffer(c, p)
  PROVE  LET y == BufferSend(c.sw, c.port, p)
             d == BufferCredit(c.sw, c.port, p)
         IN
         /\ y.pkt.id = p.id /\ y.pkt.bytes = p.bytes /\ IsPayload(y)
         /\ IsCredit(Debt(y)) /\ AccountOf(Debt(y)) = <<"buffer", c>> /\ <<"buffer", c>> \in Account
         /\ Precedes(d, Debt(y)) /\ AccountOf(d) = <<"xbar", c>> /\ <<"xbar", c>> \in Account
<1> DEFINE y == BufferSend(c.sw, c.port, p)
           d == BufferCredit(c.sw, c.port, p)
<1>1. p.vc = c.vc /\ c.sw \in Switch /\ c.port \in Port
  BY DEF InBuffer, Channel
<1>2. y = [to |-> Downstream(c.sw, c.port), pkt |-> p] /\ y.pkt = p /\ y.to = Downstream(c.sw, c.port)
  BY DEF BufferSend
<1>3. d = CreditFor(p, To("xbar", c.sw, c.port))
  BY DEF BufferCredit
<1> HIDE DEF y, d
<1>4. IsPayload(y) /\ Debt(y) = CreditFor(p, To("buffer", c.sw, c.port))
  <2>1. CASE c.port = NodePort
    <3>1. y.to = To("nic", c.sw, NodePort) /\ y.to.at = "nic" /\ y.to.sw = c.sw /\ y.to.port = NodePort
      BY <1>2, <2>1, ToFields DEF Downstream
    <3>2. Debt(y) = CreditFor(p, To("buffer", c.sw, c.port))
      BY <1>2, <2>1, <3>1 DEF Debt, Creditor
    <3> QED
      BY <1>2, <3>1, <3>2 DEF IsPayload
  <2>2. CASE c.port # NodePort
    <3> DEFINE t == Neighbor(c.sw, c.port)
               port == Opposite(c.port)
    <3>1. y.to = To("switch", t, port) /\ y.to.at = "switch" /\ y.to.sw = t /\ y.to.port = port
      BY <1>2, <2>2, ToFields DEF Downstream
    <3>2. c.port \in LinkPort
      BY <1>1, <2>2, PortKinds
    <3>3. port # NodePort /\ Neighbor(t, port) = c.sw /\ Opposite(port) = c.port
      BY <1>1, <3>2, ThereAndBack, OppositePort, PortKinds
    <3> HIDE DEF t, port
    <3>4. Debt(y) = CreditFor(p, To("buffer", c.sw, c.port))
      BY <1>2, <3>1, <3>3 DEF Debt, Creditor, Upstream
    <3> QED
      BY <1>2, <3>1, <3>3, <3>4 DEF IsPayload
  <2> QED
    BY <2>1, <2>2
<1>5. /\ IsCredit(Debt(y)) /\ ChannelOf(Debt(y)) = c /\ AccountOf(Debt(y)) = <<"buffer", c>>
      /\ <<"buffer", c>> \in Account /\ Debt(y).to.at = "buffer"
  <2> DEFINE v == CreditFor(p, To("buffer", c.sw, c.port))
  <2>1. "buffer" \in {"xbar", "buffer"}
    OBVIOUS
  <2>2. /\ IsCredit(v) /\ ChannelOf(v) = c /\ AccountOf(v) = <<"buffer", c>>
        /\ <<"buffer", c>> \in Account /\ v.to.at = "buffer"
    BY <1>1, <2>1, StageCredit, Zenon
  <2> QED
    BY <1>4, <2>2
<1>6. /\ IsCredit(d) /\ ChannelOf(d) = c /\ AccountOf(d) = <<"xbar", c>>
      /\ <<"xbar", c>> \in Account /\ d.to.at = "xbar"
  BY <1>1, <1>3, StageCredit
<1>7. Precedes(d, Debt(y))
  BY <1>5, <1>6 DEF Precedes
<1> QED
  BY <1>2, <1>4, <1>5, <1>6, <1>7 DEF y, d

-----------------------------------------------------------------------------
(***************************************************************************)
(* The packets a NIC cuts.                                                 *)
(***************************************************************************)
\* How many packets go.
LEMMA HowMany ==
  ASSUME NEW offset \in Nat, NEW size \in Nat, offset < size, NEW n \in Int
  PROVE  \E l \in Nat :
           /\ \A i \in Nat :
                (i \in 0 .. size /\ spaceToSend(n - i * Mtu) /\ offset + i * Mtu < size) <=> i < l
           /\ l * Mtu > n - Mtu \/ offset + l * Mtu >= size
<1> DEFINE T(i) == i * Mtu
           Go(i) == i <= size /\ n - T(i) >= Mtu /\ offset + T(i) < size
           S == {i \in Nat : ~Go(i)}
<1>0. /\ Mtu \in Nat /\ Mtu >= 1
      /\ \A i \in Nat : T(i) \in Nat /\ i <= T(i)
      /\ \A i, j \in Nat : i < j => T(i) <= T(j)
  <2>1. \A i, j \in Nat : i < j => i * Mtu + Mtu <= j * Mtu
    BY Products
  <2> QED
    BY <2>1, Products
<1>1. \A i \in Nat : (i \in 0 .. size /\ spaceToSend(n - i * Mtu) /\ offset + i * Mtu < size) <=> Go(i)
  BY <1>0 DEF spaceToSend
<1>2. S \subseteq Nat /\ size + 1 \in S
  OBVIOUS
<1>3. PICK l \in S : \A y \in S : l <= y
  BY <1>2, LeastElement
<1>4. l \in Nat /\ ~Go(l)
  BY <1>3
<1> HIDE DEF T
<1>5. ASSUME NEW i \in Nat PROVE Go(i) <=> i < l
  <2>1. CASE i < l
    BY <1>3, <1>4, <2>1
  <2>2. CASE i >= l
    <3>1. T(l) <= T(i)
      BY <1>0, <1>4, <2>2
    <3>2. T(l) \in Nat /\ T(i) \in Nat /\ l <= T(l) /\ Mtu \in Nat
      BY <1>0, <1>4
    <3>3. n - T(l) < Mtu \/ offset + T(l) >= size
      BY <1>4, <3>2
    <3> QED
      BY <1>4, <2>2, <3>1, <3>2, <3>3
  <2> QED
    BY <1>4, <2>1, <2>2
<1>6. T(l) > n - Mtu \/ offset + T(l) >= size
  <2>1. T(l) \in Nat /\ l <= T(l) /\ Mtu \in Nat
    BY <1>0, <1>4
  <2> QED
    BY <1>4, <2>1
<1>7. \A i \in Nat : (i \in 0 .. size /\ spaceToSend(n - i * Mtu) /\ offset + i * Mtu < size) <=> i < l
  BY <1>1, <1>5
<1> QED
  BY <1>4, <1>6, <1>7 DEF T

\* Where a byte is.
LEMMA WhichPacket ==
  ASSUME NEW l \in Nat, NEW b \in Nat, b > 0, b <= l * Mtu
  PROVE  \E i \in Nat : i < l /\ i * Mtu < b /\ b <= i * Mtu + Mtu
<1> DEFINE T(i) == i * Mtu
           S == {i \in Nat : b <= T(i)}
<1>0. /\ Mtu \in Nat /\ Mtu >= 1 /\ T(0) = 0
      /\ \A i \in Nat : T(i) \in Nat /\ T(i + 1) = T(i) + Mtu
  BY Products
<1>1. S \subseteq Nat /\ l \in S
  OBVIOUS
<1>2. PICK k \in S : \A y \in S : k <= y
  BY <1>1, LeastElement
<1> HIDE DEF T
<1>3. k \in Nat /\ b <= T(k) /\ k <= l
  BY <1>1, <1>2
<1>4. k # 0
  BY <1>0, <1>3
<1>5. PICK i \in Nat : k = i + 1
  <2>1. k - 1 \in Nat /\ k = (k - 1) + 1
    BY <1>3, <1>4
  <2> QED
    BY <2>1
<1>6. i < l /\ i < k
  BY <1>3, <1>5
<1>7. T(i) < b
  <2>1. i \notin S
    BY <1>2, <1>3, <1>6
  <2>2. T(i) \in Nat
    BY <1>0
  <2> QED
    BY <2>1, <2>2
<1>8. b <= T(i) + Mtu
  BY <1>0, <1>3, <1>5
<1> QED
  BY <1>6, <1>7, <1>8 DEF T

\* Packets of m with the bytes from i to j, when n credits are there.
CutFrom(m, i, j, n, P) ==
  /\ j \in Nat /\ i <= j /\ j <= job[m].bytes
  /\ BytesIn(P) = Row(m, i, j)
  /\ j # i => j - i <= n
  /\ j # job[m].bytes => Multiple(j) /\ n - (j - i) < Mtu
  /\ \A p \in P : IsCut(p) /\ p.id[1] = m /\ i <= p.id[2] /\ p.id[2] < j
  /\ \A p, r \in P : p.id = r.id => p = r
  /\ \A p \in P : p.vc = 0

LEMMA MultipleSum == ASSUME NEW i, Multiple(i), NEW k \in Nat PROVE Multiple(i + k * Mtu) /\ i \in Nat
<1>1. PICK j \in Nat : i = j * Mtu
  BY DEF Multiple
<1>2. (j + k) * Mtu = i + k * Mtu /\ j + k \in Nat
  BY <1>1, Products
<1> QED
  BY <1>1, <1>2, Products DEF Multiple

LEMMA PacketsCut ==
  ASSUME JobInv, NEW m \in Message, NEW offset, Multiple(offset), offset < job[m].bytes, NEW n \in Int
  PROVE  \E j : CutFrom(m, offset, j, n, Packets(m, offset, n))
<1> DEFINE size == job[m].bytes
           P == Packets(m, offset, n)
           Pkt(k) == LET bytes == MinOf(Mtu, size - (offset + k * Mtu)) IN
                     [id |-> <<m, offset + k * Mtu>>, bytes |-> bytes,
                      tail |-> offset + k * Mtu + bytes = size,
                      dst |-> job[m].dst, vc |-> 0, inport |-> NodePort, hdr |-> InitHeader]
           K == {i \in 0 .. size : spaceToSend(n - i * Mtu) /\ offset + i * Mtu < size}
<1>1. size \in Nat /\ Mtu \in Nat /\ Mtu >= 1
  BY PiscesAssumption DEF JobInv
<1>2. offset \in Nat /\ offset < size
  BY Products DEF Multiple
<1>3. P = {Pkt(k) : k \in K}
  BY DEF Packets
<1>4. PICK l \in Nat :
        /\ \A i \in Nat :
             (i \in 0 .. size /\ spaceToSend(n - i * Mtu) /\ offset + i * Mtu < size) <=> i < l
        /\ l * Mtu > n - Mtu \/ offset + l * Mtu >= size
  <2> HIDE DEF size
  <2> QED
    BY <1>1, <1>2, HowMany DEF size
<1>5. \A i : i \in K <=> i \in Nat /\ i < l
  BY <1>1, <1>4
<1>6. \A k \in Nat : k < l => spaceToSend(n - k * Mtu) /\ offset + k * Mtu < size
  BY <1>4
<1> DEFINE T(i) == i * Mtu
           j == MinOf(offset + T(l), size)
<1>7. /\ \A i \in Nat : T(i) \in Nat /\ T(i + 1) = T(i) + Mtu
      /\ \A i, k \in Nat : i < k => T(i) + Mtu <= T(k)
  BY Products
<1>8. ASSUME NEW k \in K
      PROVE  /\ k \in Nat /\ T(k) \in Nat /\ T(k) + Mtu <= T(l)
             /\ offset + T(k) < size /\ n - T(k) >= Mtu
             /\ Pkt(k).id = <<m, offset + T(k)>> /\ Pkt(k).vc = 0
             /\ Pkt(k).id[1] = m /\ Pkt(k).id[2] = offset + T(k)
             /\ Pkt(k).bytes = MinOf(Mtu, size - (offset + T(k)))
             /\ IsCut(Pkt(k))
  <2>1. k \in Nat /\ k < l
    BY <1>5
  <2>2. offset + T(k) < size /\ n - T(k) >= Mtu
    BY <1>6, <2>1 DEF spaceToSend
  <2>3. T(k) \in Nat /\ T(k) + Mtu <= T(l)
    BY <1>7, <2>1
  <2>4. /\ Pkt(k).id = <<m, offset + T(k)>> /\ Pkt(k).bytes = MinOf(Mtu, size - (offset + T(k)))
        /\ Pkt(k).vc = 0
    OBVIOUS
  <2>5. Multiple(offset + T(k))
    BY <2>1, MultipleSum
  <2> HIDE DEF Pkt, T
  <2>6. Pkt(k).id[1] = m /\ Pkt(k).id[2] = offset + T(k) /\ offset + T(k) \in Nat
    BY <1>2, <2>3, <2>4
  <2>7. IsCut(Pkt(k))
    BY <2>2, <2>4, <2>5, <2>6 DEF IsCut
  <2> QED
    BY <2>1, <2>2, <2>3, <2>4, <2>6, <2>7
<1>9. T(l) \in Nat /\ j \in Nat /\ offset <= j /\ j <= size /\ j <= offset + T(l)
  <2>1. T(l) \in Nat
    BY <1>7
  <2> HIDE DEF T, size
  <2> QED
    BY <1>1, <1>2, <2>1 DEF MinOf
<1>10. T(l) > n - Mtu \/ offset + T(l) >= size
  BY <1>4
<1>11. Multiple(offset + T(l))
  BY MultipleSum
<1> HIDE DEF T, Pkt
<1>12. \A x : x \in P <=> \E k \in K : x = Pkt(k)
  BY <1>3
<1> HIDE DEF P, K
<1>13. j = offset + T(l) \/ j = size
  BY DEF MinOf
<1> HIDE DEF j, size
<1>14. ASSUME NEW p \in P
       PROVE  IsCut(p) /\ p.id[1] = m /\ offset <= p.id[2] /\ p.id[2] < j /\ p.vc = 0
                /\ BytesIn({p}) \subseteq Row(m, offset, j)
  <2>1. PICK k \in K : p = Pkt(k)
    BY <1>12
  <2>2. /\ IsCut(p) /\ p.id[1] = m /\ p.id[2] = offset + T(k) /\ p.vc = 0
        /\ T(k) \in Nat /\ T(k) + Mtu <= T(l) /\ offset + T(k) < size
        /\ p.bytes = MinOf(Mtu, size - (offset + T(k)))
    BY <1>8, <2>1
  <2>3. p.bytes \in Nat /\ p.bytes <= Mtu /\ p.bytes <= size - (offset + T(k))
    BY <1>1, <1>2, <2>2 DEF MinOf
  <2>4. offset + T(k) + p.bytes <= j /\ offset + T(k) < j
    BY <1>1, <1>2, <1>9, <1>13, <2>2, <2>3
  <2>5. BytesIn({p}) = {m} \X ((offset + T(k) + 1) .. (offset + T(k) + p.bytes))
    BY <2>2, BytesOfOne
  <2>6. ((offset + T(k) + 1) .. (offset + T(k) + p.bytes)) \subseteq ((offset + 1) .. j)
    BY <1>2, <1>9, <2>2, <2>3, <2>4
  <2>7. BytesIn({p}) \subseteq Row(m, offset, j)
    BY <2>5, <2>6 DEF Row
  <2>8. offset <= p.id[2] /\ p.id[2] < j
    BY <1>2, <2>2, <2>4
  <2> QED
    BY <2>2, <2>7, <2>8
<1>15. ASSUME NEW b \in (offset + 1) .. j PROVE <<m, b>> \in BytesIn(P)
  <2>1. b - offset \in Nat /\ b - offset > 0 /\ b - offset <= T(l)
    BY <1>2, <1>9
  <2> DEFINE c == b - offset
  <2> HIDE DEF c
  <2>2. PICK k \in Nat : k < l /\ k * Mtu < c /\ c <= k * Mtu + Mtu
    BY <2>1, WhichPacket DEF c, T
  <2>3. k \in K /\ T(k) < c /\ c <= T(k) + Mtu
    BY <1>5, <2>2 DEF T, K
  <2> DEFINE p == Pkt(k)
  <2>4. /\ p \in P /\ IsCut(p) /\ p.id[1] = m /\ p.id[2] = offset + T(k) /\ T(k) \in Nat
        /\ p.bytes = MinOf(Mtu, size - (offset + T(k))) /\ offset + T(k) < size
    BY <1>8, <1>12, <2>3
  <2> HIDE DEF p
  <2>5. b \in (offset + T(k) + 1) .. (offset + T(k) + p.bytes)
    BY <1>1, <1>2, <1>9, <2>3, <2>4 DEF MinOf, c
  <2>6. BytesIn({p}) = {m} \X ((offset + T(k) + 1) .. (offset + T(k) + p.bytes))
    BY <2>4, BytesOfOne
  <2>7. <<m, b>> \in BytesIn({p})
    BY <2>5, <2>6
  <2> QED
    BY <2>4, <2>7, BytesMember
<1>16. BytesIn(P) = Row(m, offset, j)
  <2>1. BytesIn(P) \subseteq Row(m, offset, j)
    BY <1>14, BytesMember
  <2>2. Row(m, offset, j) \subseteq BytesIn(P)
    BY <1>15 DEF Row
  <2> QED
    BY <2>1, <2>2
<1>17. j # offset => j - offset <= n
  <2> SUFFICES ASSUME j # offset PROVE j - offset <= n
    OBVIOUS
  <2>1. l # 0
    <3>1. T(0) = 0
      BY <1>1 DEF T
    <3> QED
      BY <1>2, <1>9, <3>1
  <2>2. l - 1 \in Nat /\ l - 1 < l
    BY <2>1
  <2> DEFINE k == l - 1
  <2>3. k \in K /\ l = k + 1
    BY <1>5, <2>2
  <2> HIDE DEF k
  <2>4. n - T(k) >= Mtu /\ T(l) = T(k) + Mtu /\ T(k) \in Nat
    BY <1>7, <1>8, <2>3
  <2> QED
    BY <1>1, <1>2, <1>9, <2>4
<1>18. j # size => Multiple(j) /\ n - (j - offset) < Mtu
  <2> SUFFICES ASSUME j # size PROVE Multiple(j) /\ n - (j - offset) < Mtu
    OBVIOUS
  <2>1. j = offset + T(l)
    BY <1>13
  <2>2. n - T(l) < Mtu
    BY <1>1, <1>2, <1>9, <1>10, <2>1
  <2> QED
    BY <1>1, <1>2, <1>9, <1>11, <2>1, <2>2
<1>19. ASSUME NEW p \in P, NEW r \in P, p.id = r.id PROVE p = r
  <2>1. PICK k \in K : p = Pkt(k)
    BY <1>12
  <2>2. PICK i \in K : r = Pkt(i)
    BY <1>12
  <2>3. /\ p.id[2] = offset + T(k) /\ T(k) \in Nat /\ k \in Nat
        /\ r.id[2] = offset + T(i) /\ T(i) \in Nat /\ i \in Nat
    BY <1>8, <2>1, <2>2
  <2>4. T(k) = T(i)
    BY <1>2, <1>19, <2>3
  <2>5. k = i
    <3>1. ASSUME k < i PROVE FALSE
      <4>1. T(k) + Mtu <= T(i)
        BY <1>7, <2>3, <3>1
      <4> QED
        BY <1>1, <2>3, <2>4, <4>1
    <3>2. ASSUME i < k PROVE FALSE
      <4>1. T(i) + Mtu <= T(k)
        BY <1>7, <2>3, <3>2
      <4> QED
        BY <1>1, <2>3, <2>4, <4>1
    <3> QED
      BY <2>3, <3>1, <3>2
  <2> QED
    BY <2>1, <2>2, <2>5
<1>20. CutFrom(m, offset, j, n, P)
  BY <1>9, <1>14, <1>16, <1>17, <1>18, <1>19 DEF CutFrom, size
<1> QED
  BY <1>20 DEF P

\* How many bytes that is.
LEMMA CutBytes ==
  ASSUME NEW m, NEW i \in Nat, NEW j, NEW n, NEW P, CutFrom(m, i, j, n, P)
  PROVE  IsFiniteSet(BytesIn(P)) /\ BytesOf(P) = j - i
<1>1. j \in Nat /\ i <= j /\ BytesIn(P) = Row(m, i, j)
  BY DEF CutFrom
<1>2. IsFiniteSet(Row(m, i, j)) /\ Cardinality(Row(m, i, j)) = j - i
  BY <1>1, RowSize
<1> QED
  BY <1>1, <1>2 DEF BytesOf

-----------------------------------------------------------------------------
(***************************************************************************)
(* The loop of packetSent, by the bytes it sends.                          *)
(***************************************************************************)
PendingQueue(q) ==
  /\ IsQueue(q)
  /\ \A k \in DOMAIN q : /\ q[k] = [msg |-> q[k].msg, sent |-> q[k].sent]
                         /\ q[k].msg \in Message /\ q[k].sent \in Nat /\ Multiple(q[k].sent)
                         /\ q[k].sent < job[q[k].msg].bytes
  /\ \A i, k \in DOMAIN q : q[i].msg = q[k].msg => i = k

UnsentBefore(q, k) == UNION {Unsent(q[i]) : i \in 1 .. (k - 1)}
OutUpTo(q, n, k) == UNION {Going(q, n, i) : i \in 1 .. k}

LEMMA JobBytes == ASSUME JobInv, NEW m \in Message PROVE job[m].bytes \in Nat /\ job[m].src \in Switch
BY PiscesAssumption DEF JobInv

LEMMA UnsentFinite ==
  ASSUME JobInv, NEW q, PendingQueue(q), NEW k \in 1 .. (Len(q) + 1)
  PROVE  IsFiniteSet(UnsentBefore(q, k)) /\ Ahead(q, k) = Cardinality(UnsentBefore(q, k)) /\ Ahead(q, k) \in Nat
<1> DEFINE I == 1 .. (k - 1)
           S == {Unsent(q[i]) : i \in I}
           f == [i \in I |-> Unsent(q[i])]
<1>1. Len(q) \in Nat /\ DOMAIN q = 1 .. Len(q)
  BY DEF PendingQueue, IsQueue
<1>2. IsFiniteSet(I)
  BY <1>1, FS_Interval
<1>3. I \subseteq DOMAIN q
  BY <1>1
<1>4. f \in Surjection(I, S)
  <2> HIDE DEF I
  <2> QED
    BY DEF Surjection
<1>5. IsFiniteSet(S)
  BY <1>2, <1>4, FS_Surjection
<1>6. ASSUME NEW T \in S PROVE IsFiniteSet(T)
  <2>1. PICK i \in I : T = Unsent(q[i])
    OBVIOUS
  <2> HIDE DEF I
  <2> DEFINE m == q[i].msg
             a == q[i].sent
             b == job[m].bytes
  <2>2. a \in Nat /\ b \in Nat /\ a <= b
    BY <1>3, JobBytes DEF PendingQueue
  <2>3. T = Row(m, a, b)
    BY <2>1 DEF Unsent, Row
  <2> HIDE DEF m, a, b
  <2> QED
    BY <2>2, <2>3, RowSize
<1>7. IsFiniteSet(UNION S)
  <2> HIDE DEF S
  <2> QED
    BY <1>5, <1>6, FS_UNION
<1> QED
  BY <1>7, FS_CardinalityType DEF UnsentBefore, Ahead

\* Messages that wait have no byte in common.
LEMMA UnsentApart ==
  ASSUME NEW q, PendingQueue(q), NEW k \in DOMAIN q
  PROVE  /\ UnsentBefore(q, k + 1) = UnsentBefore(q, k) \cup Unsent(q[k])
         /\ \A i, j : UnsentBefore(q, k) \cap Row(q[k].msg, i, j) = {}
<1>1. Len(q) \in Nat /\ DOMAIN q = 1 .. Len(q)
  BY DEF PendingQueue, IsQueue
<1>2. UnsentBefore(q, k + 1) = UnsentBefore(q, k) \cup Unsent(q[k])
  <2>1. 1 .. (k + 1 - 1) = (1 .. (k - 1)) \cup {k}
    BY <1>1
  <2> QED
    BY <2>1 DEF UnsentBefore
<1>3. ASSUME NEW i, NEW j, NEW x \in UnsentBefore(q, k), x \in Row(q[k].msg, i, j) PROVE FALSE
  <2>1. PICK r \in 1 .. (k - 1) : x \in Unsent(q[r])
    BY DEF UnsentBefore
  <2>2. x[1] = q[r].msg
    BY <2>1 DEF Unsent
  <2>3. x[1] = q[k].msg
    BY <1>3 DEF Row
  <2>4. r \in DOMAIN q /\ r # k
    BY <1>1
  <2> QED
    BY <2>2, <2>3, <2>4 DEF PendingQueue
<1> QED
  BY <1>2, <1>3

LEMMA GoingCut ==
  ASSUME JobInv, NEW q, PendingQueue(q), NEW n \in Nat, NEW k \in DOMAIN q
  PROVE  /\ CutFrom(q[k].msg, q[k].sent, SentBy(q, n, k), n - Ahead(q, k), Going(q, n, k))
         /\ IsFiniteSet(BytesIn(Going(q, n, k)))
         /\ BytesOf(Going(q, n, k)) = SentBy(q, n, k) - q[k].sent
         /\ SentBy(q, n, k) \in Nat /\ q[k].sent \in Nat /\ q[k].sent <= SentBy(q, n, k)
<1> DEFINE m == q[k].msg
           a == q[k].sent
           c == n - Ahead(q, k)
           P == Going(q, n, k)
<1>1. m \in Message /\ a \in Nat /\ Multiple(a) /\ a < job[m].bytes
  BY DEF PendingQueue
<1>2. c \in Int
  <2>1. k \in 1 .. (Len(q) + 1)
    BY DEF PendingQueue, IsQueue
  <2> QED
    BY <2>1, UnsentFinite
<1>3. P = Packets(m, a, c)
  BY DEF Going
<1> HIDE DEF m, a, c, P
<1>4. PICK j : CutFrom(m, a, j, c, P)
  BY <1>1, <1>2, <1>3, PacketsCut
<1>5. IsFiniteSet(BytesIn(P)) /\ BytesOf(P) = j - a
  BY <1>1, <1>4, CutBytes
<1>6. j \in Nat /\ a <= j
  BY <1>4 DEF CutFrom
<1>7. SentBy(q, n, k) = j
  <2>1. SentBy(q, n, k) = a + BytesOf(P)
    BY DEF SentBy, P, a
  <2> QED
    BY <1>1, <1>5, <1>6, <2>1
<1> QED
  BY <1>1, <1>4, <1>5, <1>6, <1>7 DEF m, a, c, P

LEMMA FinishedSends ==
  ASSUME JobInv, NEW q, PendingQueue(q), NEW n \in Nat, NEW k \in 1 .. FinishedBy(q, n)
  PROVE  /\ k \in DOMAIN q /\ SentBy(q, n, k) = job[q[k].msg].bytes
         /\ BytesIn(Going(q, n, k)) = Unsent(q[k])
<1>1. IsQueue(q)
  BY DEF PendingQueue
<1>2. k \in Finished(q, n) /\ k \in Nat
  BY <1>1, ResumeLoop
<1>3. k \in DOMAIN q /\ SentBy(q, n, k) = job[q[k].msg].bytes
  <2>1. k \in 1 .. k
    BY <1>2
  <2> QED
    BY <1>2, <2>1 DEF Finished
<1>4. BytesIn(Going(q, n, k)) = Row(q[k].msg, q[k].sent, SentBy(q, n, k))
  BY <1>3, GoingCut DEF CutFrom
<1> QED
  BY <1>3, <1>4 DEF Row, Unsent

\* What those that are finished send is what they had left.
LEMMA FinishedBytes ==
  ASSUME JobInv, NEW q, PendingQueue(q), NEW n \in Nat, NEW k \in 0 .. FinishedBy(q, n)
  PROVE  BytesIn(OutUpTo(q, n, k)) = UnsentBefore(q, k + 1) /\ Ahead(q, k + 1) <= n
<1>1. IsQueue(q)
  BY DEF PendingQueue
<1>2. Len(q) \in Nat /\ DOMAIN q = 1 .. Len(q) /\ FinishedBy(q, n) \in 0 .. Len(q)
  BY <1>1, ResumeLoop
<1>3. \A i \in 1 .. k : i \in 1 .. FinishedBy(q, n)
  BY <1>2
<1>4. BytesIn(OutUpTo(q, n, k)) = UnsentBefore(q, k + 1)
  <2>1. k + 1 - 1 = k
    BY <1>2
  <2>2. ASSUME NEW b PROVE b \in BytesIn(OutUpTo(q, n, k)) <=> \E i \in 1 .. k : b \in BytesIn(Going(q, n, i))
    <3>1. ASSUME b \in BytesIn(OutUpTo(q, n, k)) PROVE \E i \in 1 .. k : b \in BytesIn(Going(q, n, i))
      <4>1. PICK p \in OutUpTo(q, n, k) : b \in BytesIn({p})
        BY <3>1, BytesMember
      <4>2. PICK i \in 1 .. k : p \in Going(q, n, i)
        BY DEF OutUpTo
      <4> QED
        BY <4>1, <4>2, BytesMember
    <3>2. ASSUME NEW i \in 1 .. k, b \in BytesIn(Going(q, n, i)) PROVE b \in BytesIn(OutUpTo(q, n, k))
      <4>1. PICK p \in Going(q, n, i) : b \in BytesIn({p})
        BY <3>2, BytesMember
      <4>2. p \in OutUpTo(q, n, k)
        BY DEF OutUpTo
      <4> QED
        BY <4>1, <4>2, BytesMember
    <3> QED
      BY <3>1, <3>2
  <2>3. \A i \in 1 .. k : BytesIn(Going(q, n, i)) = Unsent(q[i])
    BY <1>3, FinishedSends
  <2>4. \A b : b \in UnsentBefore(q, k + 1) <=> \E i \in 1 .. k : b \in Unsent(q[i])
    BY <2>1 DEF UnsentBefore
  <2> QED
    BY <2>2, <2>3, <2>4
<1>5. CASE k = 0
  <2>1. UnsentBefore(q, k + 1) = {}
    BY <1>5 DEF UnsentBefore
  <2>2. Ahead(q, k + 1) = 0
    <3>1. k + 1 \in 1 .. (Len(q) + 1)
      BY <1>2, <1>5
    <3> QED
      BY <2>1, <3>1, UnsentFinite, FS_EmptySet
  <2> QED
    BY <1>4, <2>2
<1>6. CASE k # 0
  <2>1. k \in 1 .. FinishedBy(q, n) /\ k \in DOMAIN q
    BY <1>2, <1>6
  <2> DEFINE m == q[k].msg
             a == q[k].sent
             b == job[m].bytes
  <2>2. SentBy(q, n, k) = b /\ a < b /\ a \in Nat /\ b \in Nat
    BY <2>1, FinishedSends, JobBytes DEF PendingQueue
  <2>3. CutFrom(m, a, SentBy(q, n, k), n - Ahead(q, k), Going(q, n, k))
    BY <2>1, GoingCut
  <2> HIDE DEF m, a, b
  <2>4. b - a <= n - Ahead(q, k)
    BY <2>2, <2>3 DEF CutFrom
  <2>5. UnsentBefore(q, k + 1) = UnsentBefore(q, k) \cup Row(m, a, b)
    BY <2>1, UnsentApart DEF Unsent, Row, m, a, b
  <2>6. UnsentBefore(q, k) \cap Row(m, a, b) = {}
    BY <2>1, UnsentApart DEF m
  <2>7. IsFiniteSet(Row(m, a, b)) /\ Cardinality(Row(m, a, b)) = b - a
    BY <2>2, RowSize
  <2>8. k \in 1 .. (Len(q) + 1) /\ k + 1 \in 1 .. (Len(q) + 1)
    BY <1>2, <2>1
  <2>9. /\ IsFiniteSet(UnsentBefore(q, k)) /\ Ahead(q, k) = Cardinality(UnsentBefore(q, k)) /\ Ahead(q, k) \in Nat
        /\ Ahead(q, k + 1) = Cardinality(UnsentBefore(q, k + 1))
    BY <2>8, UnsentFinite
  <2>10. Cardinality(UnsentBefore(q, k) \cup Row(m, a, b)) = Cardinality(UnsentBefore(q, k)) + Cardinality(Row(m, a, b))
    BY <2>6, <2>7, <2>9, DisjointUnion
  <2>11. Ahead(q, k + 1) = Ahead(q, k) + (b - a)
    BY <2>5, <2>7, <2>9, <2>10
  <2>12. Ahead(q, k + 1) <= n
    BY <2>2, <2>4, <2>9, <2>11
  <2> QED
    BY <1>4, <2>12
<1> QED
  BY <1>5, <1>6

\* The loop sends no more than it has credits for, and stops short of the end
\* only without credits for a packet.
LEMMA ResumeBytes ==
  ASSUME JobInv, NEW q, PendingQueue(q), NEW n \in Nat
  PROVE  LET out == ResumeAll(q, n).out IN
         /\ IsFiniteSet(BytesIn(out)) /\ BytesOf(out) \in Nat /\ BytesOf(out) <= n
         /\ FinishedBy(q, n) # Len(q) => n - BytesOf(out) < Mtu
<1> DEFINE f == FinishedBy(q, n)
           out == ResumeAll(q, n).out
<1>0. IsQueue(q)
  BY DEF PendingQueue
<1>1. /\ Len(q) \in Nat /\ DOMAIN q = 1 .. Len(q) /\ f \in 0 .. Len(q)
      /\ Finished(q, n) = 1 .. f
      /\ f = Len(q) => TriedBy(q, n) = f
      /\ f # Len(q) => TriedBy(q, n) = f + 1
  BY <1>0, ResumeLoop
<1>2. out = OutUpTo(q, n, TriedBy(q, n))
  BY ResumeOut DEF OutUpTo
<1>3. f + 1 \in 1 .. (Len(q) + 1) /\ f \in 0 .. FinishedBy(q, n)
  BY <1>1
<1>4. /\ BytesIn(OutUpTo(q, n, f)) = UnsentBefore(q, f + 1) /\ Ahead(q, f + 1) <= n
      /\ IsFiniteSet(UnsentBefore(q, f + 1)) /\ Ahead(q, f + 1) = Cardinality(UnsentBefore(q, f + 1))
      /\ Ahead(q, f + 1) \in Nat
  BY <1>3, FinishedBytes, UnsentFinite
<1> HIDE DEF out
<1>5. CASE f = Len(q)
  <2>1. out = OutUpTo(q, n, f)
    BY <1>1, <1>2, <1>5
  <2> HIDE DEF f
  <2> QED
    BY <1>4, <1>5, <2>1 DEF BytesOf, out, f
<1>6. CASE f # Len(q)
  <2> DEFINE k == f + 1
             m == q[k].msg
             a == q[k].sent
             j == SentBy(q, n, k)
             P == Going(q, n, k)
  <2>1. k \in DOMAIN q /\ out = OutUpTo(q, n, f) \cup P
    <3>1. k \in DOMAIN q /\ 1 .. k = (1 .. f) \cup {k}
      BY <1>1, <1>6
    <3>2. out = OutUpTo(q, n, k)
      BY <1>1, <1>2, <1>6
    <3> HIDE DEF k
    <3>3. OutUpTo(q, n, k) = OutUpTo(q, n, f) \cup Going(q, n, k)
      BY <3>1 DEF OutUpTo
    <3> QED
      BY <3>1, <3>2, <3>3
  <2>2. /\ CutFrom(m, a, j, n - Ahead(q, k), P) /\ IsFiniteSet(BytesIn(P)) /\ BytesOf(P) = j - a
        /\ j \in Nat /\ a \in Nat /\ a <= j
    <3> HIDE DEF k
    <3> QED
      BY <2>1, GoingCut
  <2>3. BytesIn(P) = Row(m, a, j) /\ UnsentBefore(q, k) \cap Row(m, a, j) = {}
    <3> HIDE DEF k
    <3> QED
      BY <2>1, <2>2, UnsentApart DEF CutFrom
  <2>4. j # job[m].bytes
    <3>1. k \notin Finished(q, n)
      BY <1>1
    <3>2. k \in Nat /\ k \in DOMAIN q /\ \A i \in 1 .. k : i = k \/ i \in 1 .. f
      BY <1>1, <2>1
    <3> HIDE DEF k
    <3>3. \A i \in 1 .. f : SentBy(q, n, i) = job[q[i].msg].bytes
      BY FinishedSends
    <3> QED
      BY <3>1, <3>2, <3>3 DEF Finished
  <2> DEFINE U == UnsentBefore(q, k)
  <2>5. BytesIn(OutUpTo(q, n, f)) = U /\ IsFiniteSet(U) /\ Ahead(q, k) = Cardinality(U)
          /\ Ahead(q, k) \in Nat /\ Ahead(q, k) <= n
    BY <1>4
  <2> HIDE DEF U, k, f, m, a, j, P
  <2>6. BytesIn(out) = U \cup BytesIn(P)
    BY <2>1, <2>5, BytesUnion
  <2>7. IsFiniteSet(BytesIn(out)) /\ BytesOf(out) = Ahead(q, k) + (j - a)
    <3>1. U \cap BytesIn(P) = {}
      BY <2>3 DEF U
    <3>2. /\ IsFiniteSet(U \cup BytesIn(P))
          /\ Cardinality(U \cup BytesIn(P)) = Cardinality(U) + Cardinality(BytesIn(P))
      BY <2>2, <2>5, <3>1, DisjointUnion
    <3> QED
      BY <2>2, <2>5, <2>6, <3>2 DEF BytesOf
  <2>8. /\ j # a => j - a <= n - Ahead(q, k)
        /\ n - Ahead(q, k) - (j - a) < Mtu
    BY <2>2, <2>4 DEF CutFrom
  <2>9. Mtu \in Nat
    BY Products
  <2>10. BytesOf(out) \in Nat /\ BytesOf(out) <= n /\ n - BytesOf(out) < Mtu
    BY <2>2, <2>5, <2>7, <2>8, <2>9
  <2> QED
    BY <2>7, <2>10 DEF out
<1> QED
  BY <1>5, <1>6

\* The packets that go are new ones.
LEMMA ResumePackets ==
  ASSUME JobInv, NEW q, PendingQueue(q), NEW n \in Nat
  PROVE  LET out == ResumeAll(q, n).out IN
         /\ \A p \in out : /\ IsCut(p) /\ p.vc = 0
                           /\ \E k \in 1 .. TriedBy(q, n) :
                                /\ k \in DOMAIN q /\ p.id[1] = q[k].msg
                                /\ q[k].sent <= p.id[2] /\ p.id[2] < SentBy(q, n, k)
         /\ \A p, r \in out : p.id = r.id => p = r
<1> DEFINE out == ResumeAll(q, n).out
           T == TriedBy(q, n)
<1>0. IsQueue(q)
  BY DEF PendingQueue
<1>1. 1 .. T \subseteq DOMAIN q
  BY <1>0, ResumeLoop
<1>2. out = UNION {Going(q, n, i) : i \in 1 .. T}
  BY ResumeOut
<1> HIDE DEF out, T
<1>3. \A p \in out : \E k \in 1 .. T : p \in Going(q, n, k)
  BY <1>2
<1>4. \A k \in 1 .. T : \A p \in Going(q, n, k) :
        /\ IsCut(p) /\ p.vc = 0 /\ k \in DOMAIN q /\ p.id[1] = q[k].msg
        /\ q[k].sent <= p.id[2] /\ p.id[2] < SentBy(q, n, k)
  BY <1>1, GoingCut DEF CutFrom
<1>5. \A k \in 1 .. T : \A p, r \in Going(q, n, k) : p.id = r.id => p = r
  BY <1>1, GoingCut DEF CutFrom
<1>6. ASSUME NEW p \in out, NEW r \in out, p.id = r.id PROVE p = r
  <2>1. PICK k \in 1 .. T : p \in Going(q, n, k)
    BY <1>3
  <2>2. PICK i \in 1 .. T : r \in Going(q, n, i)
    BY <1>3
  <2>3. q[k].msg = q[i].msg /\ k \in DOMAIN q /\ i \in DOMAIN q
    BY <1>4, <1>6, <2>1, <2>2
  <2>4. k = i
    BY <2>3 DEF PendingQueue
  <2> QED
    BY <1>5, <1>6, <2>1, <2>2, <2>4
<1>7. \A p \in out : /\ IsCut(p) /\ p.vc = 0
                     /\ \E k \in 1 .. T :
                          /\ k \in DOMAIN q /\ p.id[1] = q[k].msg
                          /\ q[k].sent <= p.id[2] /\ p.id[2] < SentBy(q, n, k)
  BY <1>3, <1>4
<1> QED
  BY <1>6, <1>7 DEF out, T

LEMMA RestOf ==
  ASSUME NEW T, NEW q \in Seq(T), NEW k \in 1 .. Len(q)
  PROVE  /\ SubSeq(q, k + 1, Len(q)) \in Seq(T)
         /\ Len(SubSeq(q, k + 1, Len(q))) = Len(q) - k
         /\ \A i \in 1 .. (Len(q) - k) : SubSeq(q, k + 1, Len(q))[i] = q[i + k]
OBVIOUS

\* The messages that stay are the rest of the queue, the first one with what
\* it has sent by now.
LEMMA ResumeLeft ==
  ASSUME JobInv, NEW q, PendingQueue(q), NEW n \in Nat, FinishedBy(q, n) # Len(q)
  PROVE  LET left == ResumeAll(q, n).left
             f == FinishedBy(q, n)
         IN
         /\ f + 1 \in DOMAIN q
         /\ DOMAIN left = 1 .. (Len(q) - f)
         /\ left[1] = [msg |-> q[f + 1].msg, sent |-> SentBy(q, n, f + 1)]
         /\ \A i \in 2 .. (Len(q) - f) : left[i] = q[f + i]
         /\ Multiple(SentBy(q, n, f + 1)) /\ SentBy(q, n, f + 1) < job[q[f + 1].msg].bytes
<1> DEFINE f == FinishedBy(q, n)
           left == ResumeAll(q, n).left
           T == ToSet(q)
           w == [q[f + 1] EXCEPT !.sent = SentBy(q, n, f + 1)]
           v == [msg |-> q[f + 1].msg, sent |-> SentBy(q, n, f + 1)]
           b == SubSeq(q, f + 2, Len(q))
<1>0. IsQueue(q)
  BY DEF PendingQueue
<1>1. q \in Seq(T) /\ Len(q) \in Nat /\ DOMAIN q = 1 .. Len(q) /\ f \in 0 .. Len(q)
  BY <1>0, ResumeLoop DEF IsQueue
<1>2. f + 1 \in DOMAIN q
  BY <1>1
<1>3. left = <<w>> \o b
  BY ResumeOut
<1>4. w = v
  <2> DEFINE k == f + 1
  <2> HIDE DEF k
  <2>1. PICK msg, sn : q[k] = [msg |-> msg, sent |-> sn]
    BY <1>2, Zenon DEF PendingQueue, k
  <2>2. [q[k] EXCEPT !.sent = SentBy(q, n, k)] = [msg |-> q[k].msg, sent |-> SentBy(q, n, k)]
    BY <2>1
  <2> QED
    BY <2>2 DEF k
<1>5. /\ b \in Seq(T) /\ Len(b) = Len(q) - (f + 1) /\ DOMAIN b = 1 .. (Len(q) - (f + 1))
      /\ \A i \in 1 .. (Len(q) - (f + 1)) : b[i] = q[i + (f + 1)]
  <2> DEFINE k == f + 1
  <2> HIDE DEF T, f
  <2>1. k \in 1 .. Len(q) /\ Len(q) \in Nat /\ k + 1 = f + 2
    BY <1>1, <1>2
  <2> HIDE DEF k
  <2>2. /\ SubSeq(q, k + 1, Len(q)) \in Seq(T)
        /\ Len(SubSeq(q, k + 1, Len(q))) = Len(q) - k
        /\ \A i \in 1 .. (Len(q) - k) : SubSeq(q, k + 1, Len(q))[i] = q[i + k]
    BY <1>1, <2>1, RestOf
  <2> QED
    BY <2>1, <2>2 DEF k
<1> HIDE DEF T, w, v, b
<1>6. <<v>> \o b \in Seq(T \cup {v}) /\ Len(<<v>> \o b) = 1 + Len(b)
  <2>1. b \in Seq(T \cup {v}) /\ <<v>> \in Seq(T \cup {v})
    BY <1>5
  <2> QED
    BY <2>1
<1> HIDE DEF left, f
<1>7. DOMAIN left = 1 .. (Len(q) - f)
  <2>1. Len(left) = Len(q) - f /\ left \in Seq(T \cup {v})
    <3>1. left = <<v>> \o b
      BY <1>3, <1>4
    <3>2. left \in Seq(T \cup {v}) /\ Len(left) = 1 + Len(b)
      BY <1>6, <3>1, Zenon
    <3>3. 1 + (Len(q) - (f + 1)) = Len(q) - f
      BY <1>1
    <3> QED
      BY <1>5, <3>2, <3>3, Zenon
  <2> QED
    BY <2>1
<1>8. left[1] = v
  BY <1>3, <1>4, <1>5
<1>9. ASSUME NEW i \in 2 .. (Len(q) - f) PROVE left[i] = q[f + i]
  <2> DEFINE j == i - 1
  <2>1. j \in 1 .. (Len(q) - (f + 1)) /\ j \in 1 .. Len(b) /\ i = 1 + j /\ j + (f + 1) = f + i
    BY <1>1, <1>5
  <2> HIDE DEF j
  <2>2. left[1 + j] = b[j]
    BY <1>3, <1>4, <1>5, <2>1
  <2> QED
    BY <1>5, <2>1, <2>2
<1>10. Multiple(SentBy(q, n, f + 1)) /\ SentBy(q, n, f + 1) < job[q[f + 1].msg].bytes
  <2> DEFINE k == f + 1
  <2>1. k \in Nat /\ k \in DOMAIN q /\ k \notin 1 .. f /\ \A i \in 1 .. k : i = k \/ i \in 1 .. f
    BY <1>1, <1>2
  <2> HIDE DEF k
  <2>2. CutFrom(q[k].msg, q[k].sent, SentBy(q, n, k), n - Ahead(q, k), Going(q, n, k))
    BY <2>1, GoingCut
  <2>3. SentBy(q, n, k) # job[q[k].msg].bytes
    <3>1. k \notin Finished(q, n)
      BY <1>0, <2>1, ResumeLoop DEF f
    <3>2. \A i \in 1 .. f : SentBy(q, n, i) = job[q[i].msg].bytes
      BY FinishedSends DEF f
    <3> QED
      BY <2>1, <3>1, <3>2 DEF Finished
  <2>4. job[q[k].msg].bytes \in Nat
    BY <2>1, JobBytes DEF PendingQueue
  <2>5. Multiple(SentBy(q, n, k)) /\ SentBy(q, n, k) < job[q[k].msg].bytes
    BY <2>2, <2>3, <2>4 DEF CutFrom
  <2> QED
    BY <2>5 DEF k
<1> QED
  BY <1>2, <1>7, <1>8, <1>9, <1>10 DEF left, f, v

-----------------------------------------------------------------------------
(***************************************************************************)
(* The network and the ledger from one state to the next.                  *)
(***************************************************************************)
LEMMA NetApart ==
  ASSUME ShapeInv
  PROVE  /\ \A e \in payloads : e.to.at \in {"switch", "buffer", "nic"}
         /\ \A x \in Waiting("inXbar", xbarQueue) : x.to.at = "inXbar"
         /\ \A x \in Waiting("inBuffer", bufQueue) : x.to.at = "inBuffer"
<1>1. \A e \in payloads : e.to.at \in {"switch", "buffer", "nic"}
  BY DEF ShapeInv, IsPayload
<1>2. ASSUME NEW at, NEW queue, NEW x \in Waiting(at, queue) PROVE x.to.at = at
  BY WaitingMember, SpotFacts
<1> QED
  BY <1>1, <1>2

LEMMA NetMoves ==
  ASSUME ShapeInv, UNCHANGED <<xbarQueue, bufQueue>>
  PROVE  /\ \A Y : payloads' = payloads \cup Y => InNet' = InNet \cup Y
         /\ \A e \in payloads : payloads' = payloads \ {e} => InNet' = InNet \ {e}
         /\ \A e \in payloads : \A y : payloads' = (payloads \ {e}) \cup {y} => InNet' = (InNet \ {e}) \cup {y}
<1> DEFINE W == Waiting("inXbar", xbarQueue) \cup Waiting("inBuffer", bufQueue)
<1>1. InNet = payloads \cup W /\ InNet' = payloads' \cup W
  BY DEF InNet
<1>2. \A e \in payloads : e \notin W
  BY NetApart
<1> HIDE DEF W
<1> QED
  BY <1>1, <1>2

\* A packet goes from a link into a queue.
LEMMA NetWaits ==
  ASSUME ShapeInv, NEW e \in payloads, payloads' = payloads \ {e}, NEW x,
         \/ /\ Waiting("inXbar", xbarQueue') = Waiting("inXbar", xbarQueue) \cup {x}
            /\ bufQueue' = bufQueue
         \/ /\ Waiting("inBuffer", bufQueue') = Waiting("inBuffer", bufQueue) \cup {x}
            /\ xbarQueue' = xbarQueue
  PROVE  InNet' = (InNet \ {e}) \cup {x}
<1> DEFINE V == Waiting("inXbar", xbarQueue)
           W == Waiting("inBuffer", bufQueue)
           V2 == Waiting("inXbar", xbarQueue')
           W2 == Waiting("inBuffer", bufQueue')
<1>1. InNet = payloads \cup V \cup W /\ InNet' = payloads' \cup V2 \cup W2
  BY DEF InNet
<1>2. e \notin V /\ e \notin W
  BY NetApart
<1>3. V2 \cup W2 = V \cup W \cup {x}
  <2>1. CASE V2 = V \cup {x} /\ bufQueue' = bufQueue
    BY <2>1
  <2>2. CASE W2 = W \cup {x} /\ xbarQueue' = xbarQueue
    BY <2>2
  <2> QED
    BY <2>1, <2>2
<1> HIDE DEF V, W, V2, W2
<1> QED
  BY <1>1, <1>2, <1>3

\* Packets go from a queue onto the links.
LEMMA NetResumes ==
  ASSUME ShapeInv, NEW Y, payloads' = payloads \cup Y, NEW c, NEW P,
         NEW X, \/ /\ X = Spots("inXbar", c, P)
                   /\ Waiting("inXbar", xbarQueue') = Waiting("inXbar", xbarQueue) \ X
                   /\ bufQueue' = bufQueue
                \/ /\ X = Spots("inBuffer", c, P)
                   /\ Waiting("inBuffer", bufQueue') = Waiting("inBuffer", bufQueue) \ X
                   /\ xbarQueue' = xbarQueue
  PROVE  InNet' = (InNet \ X) \cup Y
<1> DEFINE V == Waiting("inXbar", xbarQueue)
           W == Waiting("inBuffer", bufQueue)
           V2 == Waiting("inXbar", xbarQueue')
           W2 == Waiting("inBuffer", bufQueue')
<1>1. InNet = payloads \cup V \cup W /\ InNet' = payloads' \cup V2 \cup W2
  BY DEF InNet
<1>2. /\ \A e \in payloads : e.to.at \in {"switch", "buffer", "nic"}
      /\ \A x \in V : x.to.at = "inXbar"
      /\ \A x \in W : x.to.at = "inBuffer"
  BY NetApart
<1>3. \A at : \A x \in Spots(at, c, P) : x.to.at = at
  BY SpotFacts DEF Spots
<1>4. CASE X = Spots("inXbar", c, P) /\ V2 = V \ X /\ bufQueue' = bufQueue
  <2>1. W2 = W /\ V2 = V \ X
    BY <1>4
  <2>2. \A x \in X : x \notin payloads /\ x \notin W
    BY <1>2, <1>3, <1>4
  <2> HIDE DEF V, W, V2, W2
  <2> QED
    BY <1>1, <2>1, <2>2
<1>5. CASE X = Spots("inBuffer", c, P) /\ W2 = W \ X /\ xbarQueue' = xbarQueue
  <2>1. W2 = W \ X /\ V2 = V
    BY <1>5
  <2>2. \A x \in X : x \notin payloads /\ x \notin V
    BY <1>2, <1>3, <1>5
  <2> HIDE DEF V, W, V2, W2
  <2> QED
    BY <1>1, <2>1, <2>2
<1> QED
  BY <1>4, <1>5

LEMMA LedgerOf ==
  /\ \A s \in Switch : NicAccount(s) \in Account /\ Ledger[NicAccount(s)] = injCredits[s]
  /\ \A c \in Channel : /\ <<"xbar", c>> \in Account /\ Ledger[<<"xbar", c>>] = xbarCredits[c]
                        /\ <<"buffer", c>> \in Account /\ Ledger[<<"buffer", c>>] = bufCredits[c]
<1>1. ASSUME NEW s \in Switch PROVE NicAccount(s) \in Account /\ Ledger[NicAccount(s)] = injCredits[s]
  <2>1. NicAccount(s) \in Account /\ NicAccount(s)[1] = "nic" /\ NicAccount(s)[2].sw = s
    BY DEF Account, NicAccount, Chan
  <2> QED
    BY <2>1 DEF Ledger
<1>2. ASSUME NEW c \in Channel
      PROVE  /\ <<"xbar", c>> \in Account /\ Ledger[<<"xbar", c>>] = xbarCredits[c]
             /\ <<"buffer", c>> \in Account /\ Ledger[<<"buffer", c>>] = bufCredits[c]
  <2>1. <<"xbar", c>> \in Account /\ <<"buffer", c>> \in Account
    BY DEF Account
  <2> QED
    BY <2>1 DEF Ledger
<1> QED
  BY <1>1, <1>2

LEMMA AccountCases ==
  ASSUME NEW a \in Account
  PROVE  \/ \E s \in Switch : a = NicAccount(s)
         \/ \E c \in Channel : a = <<"xbar", c>>
         \/ \E c \in Channel : a = <<"buffer", c>>
BY DEF Account

LEMMA LedgerNext ==
  /\ Ledger' = [a \in Account |-> IF a[1] = "nic" THEN injCredits'[a[2].sw]
                                  ELSE IF a[1] = "xbar" THEN xbarCredits'[a[2]] ELSE bufCredits'[a[2]]]
BY DEF Ledger

LEMMA LedgerSame ==
  ASSUME LedgerInv, UNCHANGED <<injCredits, xbarCredits, bufCredits>>
  PROVE  Ledger' = Ledger /\ LedgerInv'
BY DEF Ledger, LedgerInv

LEMMA LedgerXbar ==
  ASSUME LedgerInv, NEW c \in Channel, NEW v, xbarCredits' = [xbarCredits EXCEPT ![c] = v],
         UNCHANGED <<injCredits, bufCredits>>
  PROVE  Ledger' = [Ledger EXCEPT ![<<"xbar", c>>] = v] /\ LedgerInv'
<1>1. xbarCredits'[c] = v /\ \A b \in Channel : b # c => xbarCredits'[b] = xbarCredits[b]
  BY DEF LedgerInv
<1>2. ASSUME NEW a \in Account PROVE Ledger'[a] = [Ledger EXCEPT ![<<"xbar", c>>] = v][a]
  <2>1. CASE a[1] = "xbar"
    <3>1. PICK b \in Channel : a = <<"xbar", b>>
      BY <2>1, AccountCases DEF NicAccount
    <3>2. Ledger'[a] = xbarCredits'[b] /\ Ledger[a] = xbarCredits[b]
      BY <3>1, LedgerNext DEF Ledger
    <3>3. a = <<"xbar", c>> <=> b = c
      BY <3>1
    <3>4. DOMAIN Ledger = Account
      BY DEF Ledger
    <3> HIDE DEF Account
    <3> QED
      BY <1>1, <3>2, <3>3, <3>4
  <2>2. CASE a[1] # "xbar"
    <3>1. Ledger'[a] = Ledger[a]
      BY <2>2, LedgerNext DEF Ledger
    <3>2. a # <<"xbar", c>>
      BY <2>2
    <3>4. DOMAIN Ledger = Account
      BY DEF Ledger
    <3> QED
      BY <3>1, <3>2, <3>4
  <2> QED
    BY <2>1, <2>2
<1>3. Ledger' = [a \in Account |-> Ledger'[a]] /\ Ledger = [a \in Account |-> Ledger[a]]
  BY DEF Ledger
<1>4. LedgerInv'
  BY DEF LedgerInv
<1> QED
  BY <1>2, <1>3, <1>4

LEMMA LedgerBuffer ==
  ASSUME LedgerInv, NEW c \in Channel, NEW v, bufCredits' = [bufCredits EXCEPT ![c] = v],
         UNCHANGED <<injCredits, xbarCredits>>
  PROVE  Ledger' = [Ledger EXCEPT ![<<"buffer", c>>] = v] /\ LedgerInv'
<1>1. bufCredits'[c] = v /\ \A b \in Channel : b # c => bufCredits'[b] = bufCredits[b]
  BY DEF LedgerInv
<1>2. ASSUME NEW a \in Account PROVE Ledger'[a] = [Ledger EXCEPT ![<<"buffer", c>>] = v][a]
  <2>0. DOMAIN Ledger = Account
    BY DEF Ledger
  <2>1. CASE a[1] # "nic" /\ a[1] # "xbar"
    <3>1. PICK b \in Channel : a = <<"buffer", b>>
      BY <2>1, AccountCases DEF NicAccount
    <3>2. Ledger'[a] = bufCredits'[b] /\ Ledger[a] = bufCredits[b]
      BY <3>1, LedgerNext DEF Ledger
    <3>3. a = <<"buffer", c>> <=> b = c
      BY <3>1
    <3> QED
      BY <1>1, <2>0, <3>2, <3>3
  <2>2. CASE a[1] = "nic" \/ a[1] = "xbar"
    <3>1. Ledger'[a] = Ledger[a]
      BY <2>2, LedgerNext DEF Ledger
    <3>2. a # <<"buffer", c>>
      BY <2>2
    <3> QED
      BY <2>0, <3>1, <3>2
  <2> QED
    BY <2>1, <2>2
<1>3. Ledger' = [a \in Account |-> Ledger'[a]] /\ Ledger = [a \in Account |-> Ledger[a]]
  BY DEF Ledger
<1>4. LedgerInv'
  BY DEF LedgerInv
<1> QED
  BY <1>2, <1>3, <1>4

LEMMA LedgerNic ==
  ASSUME LedgerInv, NEW s \in Switch, NEW v, injCredits' = [injCredits EXCEPT ![s] = v],
         UNCHANGED <<xbarCredits, bufCredits>>
  PROVE  Ledger' = [Ledger EXCEPT ![NicAccount(s)] = v] /\ LedgerInv'
<1>1. injCredits'[s] = v /\ \A t \in Switch : t # s => injCredits'[t] = injCredits[t]
  BY DEF LedgerInv
<1>2. ASSUME NEW a \in Account PROVE Ledger'[a] = [Ledger EXCEPT ![NicAccount(s)] = v][a]
  <2>0. DOMAIN Ledger = Account
    BY DEF Ledger
  <2>1. CASE a[1] = "nic"
    <3>1. PICK t \in Switch : a = NicAccount(t)
      BY <2>1, AccountCases
    <3>2. Ledger'[a] = injCredits'[t] /\ Ledger[a] = injCredits[t]
      BY <3>1, LedgerNext DEF Ledger, NicAccount, Chan
    <3>3. a = NicAccount(s) <=> t = s
      BY <3>1 DEF NicAccount, Chan
    <3> QED
      BY <1>1, <2>0, <3>2, <3>3
  <2>2. CASE a[1] # "nic"
    <3>1. Ledger'[a] = Ledger[a]
      BY <2>2, LedgerNext DEF Ledger
    <3>2. a # NicAccount(s)
      BY <2>2 DEF NicAccount
    <3> QED
      BY <2>0, <3>1, <3>2
  <2> QED
    BY <2>1, <2>2
<1>3. Ledger' = [a \in Account |-> Ledger'[a]] /\ Ledger = [a \in Account |-> Ledger[a]]
  BY DEF Ledger
<1>4. LedgerInv'
  BY DEF LedgerInv
<1> QED
  BY <1>2, <1>3, <1>4

\* First a credit comes in, then some are used.
LEMMA TwiceExcept ==
  ASSUME NEW L \in [Account -> Nat], NEW a \in Account, NEW x, NEW y
  PROVE  LET M == [L EXCEPT ![a] = @ + x] IN
         M[a] = L[a] + x /\ [M EXCEPT ![a] = @ - y] = [L EXCEPT ![a] = (L[a] + x) - y]
<1> HIDE DEF Account
<1> QED
  OBVIOUS

LEMMA AccountedNext ==
  ASSUME job' = job, Accounted(InNet', credits', Ledger')
  PROVE  Accounted(InNet, credits, Ledger)'
BY DEF Accounted, Placed, IsCut

LEMMA FreshNext ==
  ASSUME FreshInv, UNCHANGED <<job, sent, pendingInject>>,
         SameIds(DuesOf(InNet', credits'), DuesOf(InNet, credits))
  PROVE  FreshInv'
<1> DEFINE D == DuesOf(InNet, credits)
           D2 == DuesOf(InNet', credits')
<1>1. \A d \in D2 : \E b \in D : b.id = d.id
  BY DEF SameIds
<1>2. D' = D2
  OBVIOUS
<1>3. \A d \in D : d.id[1] \in sent
  BY DEF FreshInv
<1>4. \A s \in Switch : \A w \in ToSet(pendingInject[s]) : PendingMessage(s, w, D)
  BY DEF FreshInv
<1> HIDE DEF D, D2
<1>5. \A d \in D2 : d.id[1] \in sent
  BY <1>1, <1>3
<1>6. \A s \in Switch : \A w \in ToSet(pendingInject[s]) : PendingMessage(s, w, D2)
  BY <1>1, <1>4 DEF PendingMessage
<1>7. \A s \in Switch : \A w \in ToSet(pendingInject[s]) : PendingMessage(s, w, D)'
  BY <1>2, <1>6 DEF PendingMessage
<1>8. \A d \in D' : d.id[1] \in sent'
  BY <1>2, <1>5
<1> QED
  BY <1>7, <1>8 DEF FreshInv, D

-----------------------------------------------------------------------------
(***************************************************************************)
(* Every step keeps the books.                                             *)
(***************************************************************************)
LEMMA InNetFacts ==
  ASSUME CreditsInv
  PROVE  /\ payloads \subseteq InNet
         /\ \A c \in Channel : \A p \in ToSet(xbarQueue[c]) : Spot("inXbar", c, p) \in InNet
         /\ \A c \in Channel : \A p \in ToSet(bufQueue[c]) : Spot("inBuffer", c, p) \in InNet
         /\ \A x, y \in InNet : x.pkt.id = y.pkt.id => x = y
         /\ \A x \in InNet : IsCut(Debt(x))
<1>1. /\ \A x, y \in InNet : x.pkt.id = y.pkt.id => x = y
      /\ \A x \in InNet : IsCut(Debt(x))
  BY PlacedFacts DEF CreditsInv, Accounted
<1>2. /\ \A c \in Channel : \A p \in ToSet(xbarQueue[c]) : Spot("inXbar", c, p) \in InNet
      /\ \A c \in Channel : \A p \in ToSet(bufQueue[c]) : Spot("inBuffer", c, p) \in InNet
  BY WaitingMember DEF InNet
<1> QED
  BY <1>1, <1>2 DEF InNet

LEMMA PacketArrivedCredits ==
  ASSUME IInv, CreditsInv, NEW e \in payloads, PacketArrived(e)
  PROVE  CreditsInv'
<1>1. e.to.at = "nic" /\ payloads' = payloads \ {e}
  BY DEF PacketArrived
<1>2. UNCHANGED <<job, sent, pendingInject, injCredits, xbarCredits, xbarQueue, bufCredits, bufQueue>>
  BY DEF PacketArrived, nicVars, xbarVars, bufVars
<1>3. credits' = credits \cup {Debt(e)}
  <2>1. Debt(e) = CreditFor(e.pkt, To("buffer", e.to.sw, NodePort))
    BY <1>1 DEF Debt, Creditor
  <2> QED
    BY <2>1 DEF PacketArrived
<1>4. ShapeInv /\ LedgerInv /\ FreshInv /\ Accounted(InNet, credits, Ledger)
  BY DEF CreditsInv
<1>5. InNet' = InNet \ {e}
  BY <1>1, <1>2, <1>4, NetMoves
<1>6. Ledger' = Ledger /\ LedgerInv'
  BY <1>2, <1>4, LedgerSame
<1>7. e \in InNet
  BY InNetFacts
<1>8. /\ Accounted(InNet', credits', Ledger')
      /\ SameIds(DuesOf(InNet', credits'), DuesOf(InNet, credits))
  BY <1>3, <1>4, <1>5, <1>6, <1>7, Leave
<1>9. ShapeInv'
  BY <1>1, <1>2, <1>4 DEF ShapeInv
<1>10. FreshInv'
  BY <1>2, <1>4, <1>8, FreshNext
<1>11. Accounted(InNet, credits, Ledger)'
  BY <1>2, <1>8, AccountedNext
<1> QED
  BY <1>6, <1>9, <1>10, <1>11 DEF CreditsInv

LEMMA SwitchPayloadCredits ==
  ASSUME IInv, CreditsInv, NEW e \in payloads, SwitchPayload(e)
  PROVE  CreditsInv'
<1> DEFINE s == e.to.sw
           p == Routed(e)
           c == Needed(s, p)
           y == XbarSend(s, p)
<1>0. JobInv /\ GoodPayload(e) /\ e.to.at = "switch" /\ IsPayload(e)
  BY DEF IInv, PayloadInv, SwitchPayload, CreditsInv, ShapeInv
<1>1. c \in Channel /\ InCrossbar(c, p) /\ c.sw = s
  BY <1>0, RoutedInCrossbar DEF Needed, Chan
<1>2. p.inport = e.to.port /\ p.id = e.pkt.id /\ p.bytes = e.pkt.bytes /\ p.vc = e.pkt.vc
  BY <1>0, RoutedPacket
<1>3. p.inport = NodePort => p.vc = 0
  BY <1>0, <1>2 DEF IsPayload
<1>4. Debt(e) = CreditFor(p, Upstream(s, p.inport))
  BY <1>0, RoutedDebt
<1>5. UNCHANGED <<job, sent, pendingInject, injCredits, bufCredits, bufQueue>>
  BY DEF SwitchPayload, nicVars, bufVars
<1>6. ShapeInv /\ LedgerInv /\ FreshInv /\ Accounted(InNet, credits, Ledger)
  BY DEF CreditsInv
<1>7. e \in InNet
  BY InNetFacts
<1>8. CASE /\ xbarCredits[c] >= p.bytes
           /\ xbarCredits' = [xbarCredits EXCEPT ![c] = @ - p.bytes]
           /\ payloads' = (payloads \ {e}) \cup {y}
           /\ credits' = credits \cup {CreditFor(p, Upstream(s, p.inport))}
           /\ UNCHANGED xbarQueue
  <2> HIDE DEF c, p, s
  <2>1. /\ y.pkt.id = e.pkt.id /\ y.pkt.bytes = e.pkt.bytes /\ IsPayload(y)
        /\ IsCredit(Debt(y)) /\ AccountOf(Debt(y)) = <<"xbar", c>> /\ <<"xbar", c>> \in Account
        /\ Precedes(Debt(e), Debt(y))
    BY <1>1, <1>2, <1>3, <1>4, CrossbarHop
  <2> HIDE DEF y
  <2>2. InNet' = (InNet \ {e}) \cup {y}
    BY <1>5, <1>6, <1>8, NetMoves
  <2>3. Ledger[<<"xbar", c>>] = xbarCredits[c]
    BY <1>1, LedgerOf
  <2>4. Ledger' = [Ledger EXCEPT ![<<"xbar", c>>] = xbarCredits[c] - p.bytes] /\ LedgerInv'
    BY <1>1, <1>5, <1>6, <1>8, LedgerXbar
  <2>5. p.bytes <= xbarCredits[c]
    <3>1. Ledger \in [Account -> Nat] /\ IsCut(Debt(e))
      BY <1>6, <1>7, PlacedFacts DEF Accounted, Books
    <3>2. xbarCredits[c] \in Nat
      BY <2>1, <2>3, <3>1
    <3>3. p.bytes \in Nat
      BY <1>0, <1>2, <3>1, CutSize, DebtId
    <3> QED
      BY <1>8, <3>2, <3>3
  <2>6. /\ Accounted((InNet \ {e}) \cup {y}, credits \cup {Debt(e)},
                     [Ledger EXCEPT ![<<"xbar", c>>] = @ - e.pkt.bytes])
        /\ SameIds(DuesOf((InNet \ {e}) \cup {y}, credits \cup {Debt(e)}), DuesOf(InNet, credits))
    <3> DEFINE a == <<"xbar", c>>
               N == InNet
               L == Ledger
    <3>1. a \in Account /\ AccountOf(Debt(y)) = a /\ e.pkt.bytes <= L[a] /\ Accounted(N, credits, L) /\ e \in N
      BY <1>2, <1>6, <1>7, <2>1, <2>3, <2>5
    <3> HIDE DEF a, N, L
    <3>2. /\ Accounted((N \ {e}) \cup {y}, credits \cup {Debt(e)}, [L EXCEPT ![a] = @ - e.pkt.bytes])
          /\ SameIds(DuesOf((N \ {e}) \cup {y}, credits \cup {Debt(e)}), DuesOf(N, credits))
      BY <1>0, <2>1, <3>1, HopOne
    <3> QED
      BY <3>2 DEF a, N, L
  <2>7. /\ Accounted(InNet', credits', Ledger')
        /\ SameIds(DuesOf(InNet', credits'), DuesOf(InNet, credits))
    BY <1>2, <1>4, <1>8, <2>2, <2>3, <2>4, <2>6
  <2>8. ShapeInv'
    BY <1>5, <1>6, <1>8, <2>1 DEF ShapeInv
  <2>9. FreshInv'
    BY <1>5, <1>6, <2>7, FreshNext
  <2>10. Accounted(InNet, credits, Ledger)'
    BY <1>5, <2>7, AccountedNext
  <2> QED
    BY <2>4, <2>8, <2>9, <2>10 DEF CreditsInv
<1>9. CASE /\ xbarQueue' = [xbarQueue EXCEPT ![c] = Append(@, p)]
           /\ payloads' = payloads \ {e}
           /\ UNCHANGED <<xbarCredits, credits>>
  <2> DEFINE x == Spot("inXbar", c, p)
             r == Append(xbarQueue[c], p)
  <2> HIDE DEF c, p, s
  <2>1. /\ xbarQueue = [b \in Channel |-> xbarQueue[b]] /\ IsQueue(xbarQueue[c])
    BY <1>1 DEF IInv, XbarInv
  <2>2. ToSet(r) = ToSet(xbarQueue[c]) \cup {p} /\ NoRepeat(r)
    <3>1. NoRepeat(xbarQueue[c])
      BY <1>1, <1>6 DEF ShapeInv
    <3>2. ASSUME NEW z \in ToSet(xbarQueue[c]) PROVE z.id # p.id
      <4>1. /\ Spot("inXbar", c, z) \in InNet /\ Spot("inXbar", c, z).pkt = z
            /\ Spot("inXbar", c, z).to.at = "inXbar"
        BY <1>1, InNetFacts, SpotFacts
      <4>2. Spot("inXbar", c, z) # e
        BY <1>0, <4>1
      <4> QED
        BY <1>2, <1>7, <4>1, <4>2, InNetFacts
    <3> QED
      BY <2>1, <3>1, <3>2, AppendSet
  <2>3. xbarQueue' = [xbarQueue EXCEPT ![c] = r]
    BY <1>9
  <2> HIDE DEF r
  <2>4. Waiting("inXbar", xbarQueue') = Waiting("inXbar", xbarQueue) \cup {x}
    BY <1>1, <2>1, <2>2, <2>3, WaitingAppend
  <2>5. x.pkt.id = e.pkt.id /\ Debt(x) = Debt(e)
    BY <1>1, <1>2, <1>4, SpotFacts, SpotDebt
  <2> HIDE DEF x
  <2>6. InNet' = (InNet \ {e}) \cup {x}
    BY <1>5, <1>6, <1>9, <2>4, NetWaits
  <2>7. Ledger' = Ledger /\ LedgerInv'
    BY <1>5, <1>6, <1>9, LedgerSame
  <2>8. /\ Accounted(InNet', credits', Ledger')
        /\ SameIds(DuesOf(InNet', credits'), DuesOf(InNet, credits))
    BY <1>6, <1>7, <1>9, <2>5, <2>6, <2>7, Stay
  <2>9. ShapeInv'
    <3>1. xbarQueue'[c] = r /\ \A b \in Channel : b # c => xbarQueue'[b] = xbarQueue[b]
      BY <1>1, <2>1, <2>3
    <3>2. \A b \in Channel : NoRepeat(xbarQueue'[b]) /\ NoRepeat(bufQueue'[b])
      BY <1>5, <1>6, <2>2, <3>1 DEF ShapeInv
    <3>3. \A b \in Channel : \A z \in ToSet(xbarQueue'[b]) : z.inport = NodePort => z.vc = 0
      BY <1>3, <1>6, <2>2, <3>1 DEF ShapeInv
    <3> QED
      BY <1>6, <1>9, <3>2, <3>3 DEF ShapeInv
  <2>10. FreshInv'
    BY <1>5, <1>6, <2>8, FreshNext
  <2>11. Accounted(InNet, credits, Ledger)'
    BY <1>5, <2>8, AccountedNext
  <2> QED
    BY <2>7, <2>9, <2>10, <2>11 DEF CreditsInv
<1> QED
  BY <1>8, <1>9, Zenon DEF SwitchPayload

LEMMA BufferPayloadCredits ==
  ASSUME IInv, CreditsInv, NEW e \in payloads, BufferPayload(e)
  PROVE  CreditsInv'
<1> DEFINE s == e.to.sw
           port == e.to.port
           p == e.pkt
           c == Chan(s, port, p.vc)
           y == BufferSend(s, port, p)
<1>0. JobInv /\ GoodPayload(e) /\ e.to.at = "buffer" /\ IsPayload(e)
  BY DEF IInv, PayloadInv, BufferPayload, CreditsInv, ShapeInv
<1>1. c \in Channel /\ InBuffer(c, p) /\ c.sw = s /\ c.port = port
  BY <1>0 DEF GoodPayload, IsPacket, Chan, Channel, InBuffer
<1>4. Debt(e) = BufferCredit(s, port, p)
  BY <1>0 DEF Debt, Creditor, BufferCredit
<1>5. UNCHANGED <<job, sent, pendingInject, injCredits, xbarCredits, xbarQueue>>
  BY DEF BufferPayload, nicVars, xbarVars
<1>6. ShapeInv /\ LedgerInv /\ FreshInv /\ Accounted(InNet, credits, Ledger)
  BY DEF CreditsInv
<1>7. e \in InNet
  BY InNetFacts
<1>8. CASE /\ bufCredits[c] >= p.bytes
           /\ bufCredits' = [bufCredits EXCEPT ![c] = @ - p.bytes]
           /\ payloads' = (payloads \ {e}) \cup {y}
           /\ credits' = credits \cup {BufferCredit(s, port, p)}
           /\ UNCHANGED bufQueue
  <2> HIDE DEF c, s, port
  <2>1. /\ y.pkt.id = e.pkt.id /\ y.pkt.bytes = e.pkt.bytes /\ IsPayload(y)
        /\ IsCredit(Debt(y)) /\ AccountOf(Debt(y)) = <<"buffer", c>> /\ <<"buffer", c>> \in Account
        /\ Precedes(Debt(e), Debt(y))
    BY <1>1, <1>4, BufferHop
  <2> HIDE DEF y
  <2>2. InNet' = (InNet \ {e}) \cup {y}
    BY <1>5, <1>6, <1>8, NetMoves
  <2>3. Ledger[<<"buffer", c>>] = bufCredits[c]
    BY <1>1, LedgerOf
  <2>4. Ledger' = [Ledger EXCEPT ![<<"buffer", c>>] = bufCredits[c] - p.bytes] /\ LedgerInv'
    BY <1>1, <1>5, <1>6, <1>8, LedgerBuffer
  <2>5. p.bytes <= bufCredits[c]
    <3>1. Ledger \in [Account -> Nat] /\ IsCut(Debt(e))
      BY <1>6, <1>7, PlacedFacts DEF Accounted, Books
    <3>2. bufCredits[c] \in Nat
      BY <2>1, <2>3, <3>1
    <3>3. p.bytes \in Nat
      BY <1>0, <3>1, CutSize, DebtId
    <3> QED
      BY <1>8, <3>2, <3>3
  <2>6. /\ Accounted((InNet \ {e}) \cup {y}, credits \cup {Debt(e)},
                     [Ledger EXCEPT ![<<"buffer", c>>] = @ - e.pkt.bytes])
        /\ SameIds(DuesOf((InNet \ {e}) \cup {y}, credits \cup {Debt(e)}), DuesOf(InNet, credits))
    <3> DEFINE a == <<"buffer", c>>
               N == InNet
               L == Ledger
    <3>1. a \in Account /\ AccountOf(Debt(y)) = a /\ e.pkt.bytes <= L[a] /\ Accounted(N, credits, L) /\ e \in N
      BY <1>6, <1>7, <2>1, <2>3, <2>5
    <3> HIDE DEF a, N, L
    <3>2. /\ Accounted((N \ {e}) \cup {y}, credits \cup {Debt(e)}, [L EXCEPT ![a] = @ - e.pkt.bytes])
          /\ SameIds(DuesOf((N \ {e}) \cup {y}, credits \cup {Debt(e)}), DuesOf(N, credits))
      BY <1>0, <2>1, <3>1, HopOne
    <3> QED
      BY <3>2 DEF a, N, L
  <2>7. /\ Accounted(InNet', credits', Ledger')
        /\ SameIds(DuesOf(InNet', credits'), DuesOf(InNet, credits))
    BY <1>4, <1>8, <2>2, <2>3, <2>4, <2>6
  <2>8. ShapeInv'
    BY <1>5, <1>6, <1>8, <2>1 DEF ShapeInv
  <2>9. FreshInv'
    BY <1>5, <1>6, <2>7, FreshNext
  <2>10. Accounted(InNet, credits, Ledger)'
    BY <1>5, <2>7, AccountedNext
  <2> QED
    BY <2>4, <2>8, <2>9, <2>10 DEF CreditsInv
<1>9. CASE /\ bufQueue' = [bufQueue EXCEPT ![c] = Append(@, p)]
           /\ payloads' = payloads \ {e}
           /\ UNCHANGED <<bufCredits, credits>>
  <2> DEFINE x == Spot("inBuffer", c, p)
             r == Append(bufQueue[c], p)
  <2> HIDE DEF c, s, port
  <2>1. /\ bufQueue = [b \in Channel |-> bufQueue[b]] /\ IsQueue(bufQueue[c])
    BY <1>1 DEF IInv, BufferInv
  <2>2. ToSet(r) = ToSet(bufQueue[c]) \cup {p} /\ NoRepeat(r)
    <3>1. NoRepeat(bufQueue[c])
      BY <1>1, <1>6 DEF ShapeInv
    <3>2. ASSUME NEW z \in ToSet(bufQueue[c]) PROVE z.id # p.id
      <4>1. /\ Spot("inBuffer", c, z) \in InNet /\ Spot("inBuffer", c, z).pkt = z
            /\ Spot("inBuffer", c, z).to.at = "inBuffer"
        BY <1>1, InNetFacts, SpotFacts
      <4>2. Spot("inBuffer", c, z) # e
        BY <1>0, <4>1
      <4> QED
        BY <1>7, <4>1, <4>2, InNetFacts
    <3> QED
      BY <2>1, <3>1, <3>2, AppendSet
  <2>3. bufQueue' = [bufQueue EXCEPT ![c] = r]
    BY <1>9
  <2> HIDE DEF r
  <2>4. Waiting("inBuffer", bufQueue') = Waiting("inBuffer", bufQueue) \cup {x}
    BY <1>1, <2>1, <2>2, <2>3, WaitingAppend
  <2>5. x.pkt.id = e.pkt.id /\ Debt(x) = Debt(e)
    BY <1>1, <1>4, SpotFacts, SpotDebt
  <2> HIDE DEF x
  <2>6. InNet' = (InNet \ {e}) \cup {x}
    BY <1>5, <1>6, <1>9, <2>4, NetWaits
  <2>7. Ledger' = Ledger /\ LedgerInv'
    BY <1>5, <1>6, <1>9, LedgerSame
  <2>8. /\ Accounted(InNet', credits', Ledger')
        /\ SameIds(DuesOf(InNet', credits'), DuesOf(InNet, credits))
    BY <1>6, <1>7, <1>9, <2>5, <2>6, <2>7, Stay
  <2>9. ShapeInv'
    <3>1. bufQueue'[c] = r /\ \A b \in Channel : b # c => bufQueue'[b] = bufQueue[b]
      BY <1>1, <2>1, <2>3
    <3>2. \A b \in Channel : NoRepeat(xbarQueue'[b]) /\ NoRepeat(bufQueue'[b])
      BY <1>5, <1>6, <2>2, <3>1 DEF ShapeInv
    <3> QED
      BY <1>5, <1>6, <1>9, <3>2 DEF ShapeInv
  <2>10. FreshInv'
    BY <1>5, <1>6, <2>8, FreshNext
  <2>11. Accounted(InNet, credits, Ledger)'
    BY <1>5, <2>8, AccountedNext
  <2> QED
    BY <2>7, <2>9, <2>10, <2>11 DEF CreditsInv
<1> QED
  BY <1>8, <1>9, Zenon DEF BufferPayload

\* A credit of a channel's stage.
LEMMA CreditTaken ==
  ASSUME IInv, CreditsInv, NEW cr \in credits, cr.to.at \in {"xbar", "buffer"}
  PROVE  LET c == Chan(cr.to.sw, cr.to.port, cr.vc)
             a == <<cr.to.at, c>>
             M == [Ledger EXCEPT ![a] = @ + cr.bytes]
         IN
         /\ c \in Channel /\ a \in Account /\ AccountOf(cr) = a
         /\ Accounted(InNet, credits \ {cr}, M)
         /\ SameIds(DuesOf(InNet, credits \ {cr}), DuesOf(InNet, credits))
         /\ M[a] = Ledger[a] + cr.bytes /\ M[a] \in Nat /\ M[a] <= CreditsPerVC
<1> DEFINE c == Chan(cr.to.sw, cr.to.port, cr.vc)
           a == <<cr.to.at, c>>
           M == [Ledger EXCEPT ![a] = @ + cr.bytes]
<1>1. JobInv /\ GoodCredit(cr) /\ Accounted(InNet, credits, Ledger)
  BY DEF IInv, CreditInv, CreditsInv
<1>2. c \in Channel
  BY <1>1 DEF GoodCredit, Chan, Channel
<1>3. AccountOf(cr) = a
  BY DEF AccountOf, ChannelOf
<1>4. /\ Accounted(InNet, credits \ {cr}, [Ledger EXCEPT ![AccountOf(cr)] = @ + cr.bytes])
      /\ SameIds(DuesOf(InNet, credits \ {cr}), DuesOf(InNet, credits))
      /\ AccountOf(cr) \in Account
  <2> DEFINE N == InNet
             L == Ledger
  <2> HIDE DEF N, L
  <2>1. Accounted(N, credits, L)
    BY <1>1 DEF N, L
  <2>2. /\ Accounted(N, credits \ {cr}, [L EXCEPT ![AccountOf(cr)] = @ + cr.bytes])
        /\ SameIds(DuesOf(N, credits \ {cr}), DuesOf(N, credits))
        /\ AccountOf(cr) \in Account
    BY <1>1, <2>1, Paid
  <2> QED
    BY <2>2 DEF N, L
<1>5. Ledger \in [Account -> Nat]
  BY <1>1 DEF Accounted, Books
<1>6. M[a] = Ledger[a] + cr.bytes
  <2> HIDE DEF a
  <2> QED
    BY <1>3, <1>4, <1>5
<1>7. Balanced(M[a], DuesTo(DuesOf(InNet, credits \ {cr}), a), Capacity(a))
  <2> HIDE DEF a
  <2> QED
    BY <1>3, <1>4 DEF Accounted, Books
<1>8. Capacity(a) = CreditsPerVC /\ CreditsPerVC \in Nat
  <2>1. a[1] # "nic"
    OBVIOUS
  <2> HIDE DEF a
  <2> QED
    BY <2>1, CapacityType DEF Capacity
<1> HIDE DEF a, M
<1>9. M[a] \in Nat /\ M[a] <= CreditsPerVC
  <2> DEFINE D == DuesTo(DuesOf(InNet, credits \ {cr}), a)
  <2>1. BytesOf(D) \in Nat
    BY <1>7, FS_CardinalityType DEF Balanced, BytesOf
  <2> HIDE DEF D
  <2> QED
    BY <1>7, <1>8, <2>1 DEF Balanced, D
<1> QED
  BY <1>2, <1>3, <1>4, <1>6, <1>9 DEF a, M

LEMMA XbarCreditCredits ==
  ASSUME IInv, CreditsInv, NEW cr \in credits, XbarCredit(cr)
  PROVE  CreditsInv'
<1> DEFINE s == cr.to.sw
           c == Chan(s, cr.to.port, cr.vc)
           n == xbarCredits[c] + cr.bytes
           fit == FirstFit(xbarQueue[c], n)
           a == <<"xbar", c>>
           M == [Ledger EXCEPT ![a] = @ + cr.bytes]
           C == credits \ {cr}
<1>0. JobInv /\ cr.to.at = "xbar"
  BY DEF IInv, XbarCredit
<1>1. /\ c \in Channel /\ a \in Account
      /\ Accounted(InNet, C, M) /\ SameIds(DuesOf(InNet, C), DuesOf(InNet, credits))
      /\ M[a] = Ledger[a] + cr.bytes /\ M[a] \in Nat
  <2>1. cr.to.at \in {"xbar", "buffer"}
    BY <1>0
  <2> QED
    BY <1>0, <2>1, CreditTaken
<1>2. c.sw = s /\ Ledger[a] = xbarCredits[c] /\ M[a] = n
  BY <1>1, LedgerOf DEF Chan
<1>3. UNCHANGED <<job, sent, pendingInject, injCredits, bufCredits, bufQueue>>
  BY DEF XbarCredit, nicVars, bufVars
<1>4. ShapeInv /\ LedgerInv /\ FreshInv
  BY DEF CreditsInv
<1>5. CASE /\ xbarCredits' = [xbarCredits EXCEPT ![c] = n]
           /\ credits' = credits \ {cr}
           /\ UNCHANGED <<xbarQueue, payloads>>
  <2> HIDE DEF c, n
  <2>1. InNet' = InNet
    BY <1>3, <1>5 DEF InNet
  <2>2. Ledger' = [Ledger EXCEPT ![a] = n] /\ LedgerInv'
    BY <1>1, <1>3, <1>4, <1>5, LedgerXbar
  <2>3. M = [Ledger EXCEPT ![a] = n]
    BY <1>1, <1>2
  <2> HIDE DEF a, M
  <2>4. Accounted(InNet', credits', Ledger') /\ SameIds(DuesOf(InNet', credits'), DuesOf(InNet, credits))
    BY <1>1, <1>5, <2>1, <2>2, <2>3
  <2>5. ShapeInv'
    BY <1>3, <1>4, <1>5 DEF ShapeInv
  <2>6. FreshInv' /\ Accounted(InNet, credits, Ledger)'
    BY <1>3, <1>4, <2>4, FreshNext, AccountedNext
  <2> QED
    BY <2>2, <2>5, <2>6 DEF CreditsInv
<1>6. ASSUME NEW k \in fit,
             xbarCredits' = [xbarCredits EXCEPT ![c] = n - xbarQueue[c][k].bytes],
             xbarQueue' = [xbarQueue EXCEPT ![c] = RemoveAt(@, k)],
             payloads' = payloads \cup {XbarSend(s, xbarQueue[c][k])},
             credits' = (credits \ {cr})
               \cup {CreditFor(xbarQueue[c][k], Upstream(s, xbarQueue[c][k].inport))}
      PROVE  CreditsInv'
  <2> DEFINE q == xbarQueue[c]
             p == q[k]
             x == Spot("inXbar", c, p)
             y == XbarSend(s, p)
             r == RemoveAt(q, k)
             L2 == [M EXCEPT ![a] = @ - x.pkt.bytes]
  <2>1. k \in DOMAIN q /\ p.bytes <= n
    BY DEF FirstFit
  <2> HIDE DEF n, fit, s, c
  <2>2. /\ xbarQueue = [b \in Channel |-> xbarQueue[b]] /\ IsQueue(q) /\ NoRepeat(q)
        /\ \A b \in Channel : \A z \in ToSet(xbarQueue[b]) : InCrossbar(b, z)
        /\ \A z \in ToSet(q) : z.inport = NodePort => z.vc = 0
    BY <1>1, <1>4 DEF IInv, XbarInv, ShapeInv
  <2>3. p \in ToSet(q) /\ InCrossbar(c, p) /\ (p.inport = NodePort => p.vc = 0)
    BY <1>1, <2>1, <2>2 DEF ToSet
  <2>4. x \in InNet /\ x.pkt = p /\ Debt(x) = CreditFor(p, Upstream(s, p.inport))
    BY <1>1, <1>2, <2>3, InNetFacts, SpotFacts, SpotDebt
  <2>5. /\ y.pkt.id = x.pkt.id /\ y.pkt.bytes = x.pkt.bytes /\ IsPayload(y)
        /\ IsCredit(Debt(y)) /\ AccountOf(Debt(y)) = a
        /\ Precedes(Debt(x), Debt(y))
    <3> HIDE DEF p
    <3> QED
      BY <1>1, <1>2, <2>3, <2>4, CrossbarHop
  <2>6. x.pkt.bytes <= M[a]
    BY <1>2, <2>1, <2>4
  <2>7. /\ Accounted((InNet \ {x}) \cup {y}, C \cup {Debt(x)}, L2)
        /\ SameIds(DuesOf((InNet \ {x}) \cup {y}, C \cup {Debt(x)}), DuesOf(InNet, C))
    <3> DEFINE N == InNet
    <3>1. x \in N /\ Accounted(N, C, M) /\ a \in Account
      BY <1>1, <2>4
    <3> HIDE DEF N, a, M, x, y, C
    <3> QED
      BY <1>0, <2>5, <2>6, <3>1, HopOne DEF N
  <2>8. ToSet(r) = ToSet(q) \ {p} /\ NoRepeat(r)
    <3> HIDE DEF q
    <3> QED
      BY <2>1, <2>2, RemoveSet
  <2>9. xbarQueue' = [xbarQueue EXCEPT ![c] = r]
    BY <1>6
  <2>10. OneQueue(xbarQueue, c, {p})
    <3>1. ASSUME NEW b \in Channel, b.sw = c.sw, b.port = c.port, p \in ToSet(xbarQueue[b]) PROVE b = c
      <4>1. p.hdr.vc = b.vc /\ p.hdr.vc = c.vc
        BY <2>2, <2>3, <3>1 DEF InCrossbar, LeavesBy
      <4>2. /\ b = [sw |-> b.sw, port |-> b.port, vc |-> b.vc]
            /\ c = [sw |-> c.sw, port |-> c.port, vc |-> c.vc]
        BY <1>1 DEF Channel
      <4> QED
        BY <3>1, <4>1, <4>2, Zenon
    <3> QED
      BY <3>1 DEF OneQueue
  <2> HIDE DEF r
  <2>11. Waiting("inXbar", xbarQueue') = Waiting("inXbar", xbarQueue) \ Spots("inXbar", c, {p})
    <3> HIDE DEF p
    <3> QED
      BY <1>1, <2>2, <2>8, <2>9, <2>10, WaitingRemove
  <2>12. Spots("inXbar", c, {p}) = {x}
    BY DEF Spots
  <2>13. InNet' = (InNet \ {x}) \cup {y}
    <3>1. payloads' = payloads \cup {y}
      BY <1>6
    <3> HIDE DEF x, y, p
    <3>2. InNet' = (InNet \ Spots("inXbar", c, {p})) \cup {y}
      BY <1>3, <1>4, <2>11, <3>1, NetResumes
    <3> QED
      BY <2>12, <3>2
  <2>14. Ledger' = [Ledger EXCEPT ![a] = n - p.bytes] /\ LedgerInv'
    <3> DEFINE v == n - p.bytes
    <3>1. xbarCredits' = [xbarCredits EXCEPT ![c] = v]
      BY <1>6
    <3> HIDE DEF v
    <3>2. Ledger' = [Ledger EXCEPT ![<<"xbar", c>>] = v] /\ LedgerInv'
      BY <1>1, <1>3, <1>4, <3>1, LedgerXbar
    <3> QED
      BY <3>2 DEF v
  <2>15. L2 = [Ledger EXCEPT ![a] = n - p.bytes]
    <3>1. Ledger \in [Account -> Nat]
      BY DEF CreditsInv, Accounted, Books
    <3> HIDE DEF a, p, x
    <3> QED
      BY <1>1, <1>2, <2>4, <3>1, TwiceExcept
  <2>16. credits' = C \cup {Debt(x)}
    BY <1>6, <2>4
  <2> HIDE DEF L2, C, x, y, p, q, a, M
  <2>17. Accounted(InNet', credits', Ledger')
    BY <2>7, <2>13, <2>14, <2>15, <2>16
  <2>18. SameIds(DuesOf(InNet', credits'), DuesOf(InNet, credits))
    <3>1. SameIds(DuesOf(InNet', credits'), DuesOf(InNet, C))
      BY <2>7, <2>13, <2>16
    <3> QED
      BY <1>1, <3>1 DEF SameIds
  <2>19. ShapeInv'
    <3>1. xbarQueue'[c] = r /\ \A b \in Channel : b # c => xbarQueue'[b] = xbarQueue[b]
      BY <1>1, <2>2, <2>9
    <3>2. \A b \in Channel : NoRepeat(xbarQueue'[b]) /\ NoRepeat(bufQueue'[b])
      BY <1>3, <1>4, <2>8, <3>1 DEF ShapeInv
    <3>3. \A b \in Channel : \A z \in ToSet(xbarQueue'[b]) : z.inport = NodePort => z.vc = 0
      BY <1>4, <2>2, <2>8, <3>1 DEF ShapeInv
    <3>4. \A e \in payloads' : IsPayload(e)
      BY <1>4, <1>6, <2>5 DEF ShapeInv, y, p, q
    <3> QED
      BY <3>2, <3>3, <3>4 DEF ShapeInv
  <2>20. FreshInv' /\ Accounted(InNet, credits, Ledger)'
    BY <1>3, <1>4, <2>17, <2>18, FreshNext, AccountedNext
  <2> QED
    BY <2>14, <2>19, <2>20 DEF CreditsInv
<1> QED
  BY <1>5, <1>6, Zenon DEF XbarCredit

\* What is in a set with the same bytes.
LEMMA SameBytes ==
  ASSUME NEW X, NEW Y,
         \A x \in X : \E y \in Y : x.id = y.id /\ x.bytes = y.bytes,
         \A y \in Y : \E x \in X : x.id = y.id /\ x.bytes = y.bytes
  PROVE  BytesIn(X) = BytesIn(Y) /\ BytesOf(X) = BytesOf(Y)
<1>1. ASSUME NEW U, NEW V, \A u \in U : \E v \in V : u.id = v.id /\ u.bytes = v.bytes
      PROVE  BytesIn(U) \subseteq BytesIn(V)
  BY <1>1 DEF BytesIn
<1>2. BytesIn(X) \subseteq BytesIn(Y) /\ BytesIn(Y) \subseteq BytesIn(X)
  <2>1. BytesIn(X) \subseteq BytesIn(Y)
    BY <1>1
  <2>2. \A y \in Y : \E x \in X : y.id = x.id /\ y.bytes = x.bytes
    OBVIOUS
  <2> QED
    BY <1>1, <2>1, <2>2
<1> QED
  BY <1>2 DEF BytesOf

\* The last of some places of a queue.
LEMMA LastPlace ==
  ASSUME NEW L \in Nat, NEW S \in SUBSET (1 .. L), S # {}
  PROVE  \E k \in S : \A i \in S : i <= k
<1> DEFINE T == {m \in Nat : \A i \in S : i <= m}
<1>1. T \subseteq Nat /\ L \in T
  OBVIOUS
<1>2. PICK k \in T : \A y \in T : k <= y
  BY <1>1, LeastElement
<1>3. k \in Nat /\ \A i \in S : i <= k
  OBVIOUS
<1>4. k \in S
  <2> SUFFICES ASSUME k \notin S PROVE FALSE
    OBVIOUS
  <2>1. \A i \in S : i \in Nat /\ i >= 1 /\ i < k
    BY <1>3
  <2>1a. k > 0
    <3>1. PICK i \in S : TRUE
      OBVIOUS
    <3> QED
      BY <1>3, <2>1, <3>1
  <2>2. k - 1 \in Nat /\ \A i \in S : i <= k - 1
    BY <1>3, <2>1, <2>1a
  <2>3. k - 1 \in T
    BY <2>2
  <2> QED
    BY <1>2, <1>3, <2>3
<1> QED
  BY <1>3, <1>4

\* Packets that can be told apart.
LEMMA QueueBytes ==
  ASSUME JobInv, NEW q, NoRepeat(q), \A k \in DOMAIN q : IsCut(q[k]),
         IsFiniteSet(BytesIn(ToSet(q))),
         NEW S \in SUBSET DOMAIN q, NEW k \in DOMAIN q, k \notin S
  PROVE  /\ IsFiniteSet(BytesIn({q[i] : i \in S})) /\ BytesOf({q[i] : i \in S}) \in Nat
         /\ BytesOf({q[i] : i \in S \cup {k}}) = BytesOf({q[i] : i \in S}) + q[k].bytes
         /\ q[k].bytes \in Nat
<1> DEFINE X == {q[i] : i \in S}
<1>1. {q[i] : i \in S \cup {k}} = X \cup {q[k]}
  OBVIOUS
<1>2. X \subseteq ToSet(q)
  BY DEF ToSet
<1>3. BytesIn(X) \subseteq BytesIn(ToSet(q))
  BY <1>2 DEF BytesIn
<1>4. IsFiniteSet(BytesIn(X))
  BY <1>3, FS_Subset
<1>5. IsFiniteSet(BytesIn({q[k]})) /\ BytesOf({q[k]}) = q[k].bytes /\ q[k].bytes \in Nat
  BY BytesOfOne, CutSize
<1>6. BytesIn(X) \cap BytesIn({q[k]}) = {}
  <2>1. \A x \in X \cup {q[k]} : IsCut(x)
    OBVIOUS
  <2>2. \A x \in X, y \in {q[k]} : x.id # y.id
    BY DEF NoRepeat
  <2> HIDE DEF X
  <2> QED
    BY <2>1, <2>2, SetsApart
<1> HIDE DEF X
<1>7. /\ Cardinality(BytesIn(X) \cup BytesIn({q[k]})) = BytesOf(X) + BytesOf({q[k]})
      /\ BytesOf(X) \in Nat
  BY <1>4, <1>5, <1>6, DisjointUnion DEF BytesOf
<1>8. BytesOf(X \cup {q[k]}) = BytesOf(X) + q[k].bytes
  BY <1>5, <1>7, BytesUnion DEF BytesOf
<1> QED
  BY <1>1, <1>4, <1>5, <1>7, <1>8 DEF X

\* What a buffer sends, it has credits for.
LEMMA FittingBytes ==
  ASSUME JobInv, NEW q, IsQueue(q), NoRepeat(q), \A k \in DOMAIN q : IsCut(q[k]),
         IsFiniteSet(BytesIn(ToSet(q))), NEW n \in Nat, NEW go \in Fitting(q, n)
  PROVE  /\ go \in SUBSET DOMAIN q
         /\ IsFiniteSet(BytesIn({q[k] : k \in go})) /\ BytesOf({q[k] : k \in go}) \in Nat
         /\ BytesOf({q[k] : k \in go}) <= n
         /\ \A k \in DOMAIN q \ go : q[k].bytes > n - BytesOf({q[i] : i \in go})
<1>1. /\ go \in SUBSET DOMAIN q
      /\ \A k \in DOMAIN q : k \in go <=> q[k].bytes <= n - BytesOf({q[i] : i \in {j \in go : j < k}})
  BY DEF Fitting
<1>2. Len(q) \in Nat /\ DOMAIN q = 1 .. Len(q)
  BY DEF IsQueue
<1>3. ASSUME NEW S \in SUBSET DOMAIN q
      PROVE  IsFiniteSet(BytesIn({q[i] : i \in S})) /\ BytesOf({q[i] : i \in S}) \in Nat
  <2>1. {q[i] : i \in S} \subseteq ToSet(q)
    BY DEF ToSet
  <2>2. BytesIn({q[i] : i \in S}) \subseteq BytesIn(ToSet(q))
    BY <2>1 DEF BytesIn
  <2> QED
    BY <2>2, FS_Subset, FS_CardinalityType DEF BytesOf
<1>4. BytesOf({q[k] : k \in go}) <= n
  <2>1. CASE go = {}
    <3>1. BytesIn({q[k] : k \in go}) = {}
      BY <2>1 DEF BytesIn
    <3> QED
      BY <3>1, FS_EmptySet DEF BytesOf
  <2>2. CASE go # {}
    <3>1. PICK k \in go : \A i \in go : i <= k
      BY <1>1, <1>2, <2>2, LastPlace
    <3> DEFINE S == {j \in go : j < k}
    <3>2. S \in SUBSET DOMAIN q /\ k \in DOMAIN q /\ k \notin S /\ go = S \cup {k}
      BY <1>1, <1>2, <3>1
    <3>3. q[k].bytes <= n - BytesOf({q[i] : i \in S})
      BY <1>1, <3>1, <3>2
    <3> HIDE DEF S
    <3>4. /\ BytesOf({q[i] : i \in S}) \in Nat /\ q[k].bytes \in Nat
          /\ BytesOf({q[i] : i \in S \cup {k}}) = BytesOf({q[i] : i \in S}) + q[k].bytes
      BY <3>2, QueueBytes
    <3>5. BytesOf({q[i] : i \in go}) = BytesOf({q[i] : i \in S}) + q[k].bytes
      BY <3>2, <3>4
    <3> QED
      BY <3>3, <3>4, <3>5
  <2> QED
    BY <2>1, <2>2
<1>5. ASSUME NEW k \in DOMAIN q \ go PROVE q[k].bytes > n - BytesOf({q[i] : i \in go})
  <2> DEFINE S == {j \in go : j < k}
             X == {q[i] : i \in S}
             Y == {q[i] : i \in go}
  <2>1. q[k].bytes \in Nat
    BY CutSize
  <2>2. S \in SUBSET DOMAIN q /\ X \subseteq Y
    BY <1>1
  <2>3. ~(q[k].bytes <= n - BytesOf(X))
    BY <1>1
  <2>4. BytesIn(X) \subseteq BytesIn(Y)
    BY <2>2 DEF BytesIn
  <2>5. IsFiniteSet(BytesIn(Y)) /\ BytesOf(Y) \in Nat /\ BytesOf(X) \in Nat
    BY <1>1, <1>3, <2>2
  <2> HIDE DEF X, Y
  <2>6. BytesOf(X) <= BytesOf(Y)
    BY <2>4, <2>5, FS_Subset DEF BytesOf
  <2>7. q[k].bytes > n - BytesOf(Y)
    BY <2>1, <2>3, <2>5, <2>6
  <2> QED
    BY <2>7 DEF Y
<1> QED
  BY <1>1, <1>3, <1>4, <1>5

\* The packets of a buffer's queue owe its crossbar.
LEMMA BufferQueueCut ==
  ASSUME IInv, CreditsInv, NEW c \in Channel
  PROVE  LET q == bufQueue[c] IN
         /\ IsQueue(q) /\ NoRepeat(q) /\ \A k \in DOMAIN q : IsCut(q[k]) /\ InBuffer(c, q[k])
         /\ IsFiniteSet(BytesIn(ToSet(q)))
<1> DEFINE q == bufQueue[c]
           D == DuesOf(InNet, credits)
           a == <<"xbar", c>>
<1>1. IsQueue(q) /\ NoRepeat(q) /\ \A p \in ToSet(q) : InBuffer(c, p)
  BY DEF IInv, BufferInv, CreditsInv, ShapeInv
<1>2. \A k \in DOMAIN q : q[k] \in ToSet(q)
  BY DEF ToSet
<1>3. ASSUME NEW p \in ToSet(q)
      PROVE  /\ IsCut(p) /\ \E d \in DuesTo(D, a) : d.id = p.id /\ d.bytes = p.bytes
  <2> DEFINE x == Spot("inBuffer", c, p)
  <2>1. x \in InNet /\ x.pkt = p /\ Debt(x) = BufferCredit(c.sw, c.port, p)
    BY InNetFacts, SpotFacts, SpotDebt
  <2>2. AccountOf(Debt(x)) = a
    BY <1>1, <2>1, BufferHop
  <2>3. IsCut(Debt(x)) /\ Debt(x) \in D
    BY <2>1, PlacedFacts DEF CreditsInv, Accounted
  <2>4. Debt(x).id = p.id /\ Debt(x).bytes = p.bytes
    BY <2>1, DebtId
  <2> HIDE DEF x, D, a, q
  <2>5. IsCut(p)
    BY <2>3, <2>4 DEF IsCut
  <2> QED
    BY <2>2, <2>3, <2>4, <2>5 DEF DuesTo
<1>4. IsFiniteSet(BytesIn(DuesTo(D, a)))
  <2>1. a \in Account
    BY DEF Account
  <2> HIDE DEF a, D
  <2> QED
    BY <2>1 DEF CreditsInv, Accounted, Books, Balanced, D
<1>5. BytesIn(ToSet(q)) \subseteq BytesIn(DuesTo(D, a))
  <2> HIDE DEF a, D, q
  <2> QED
    BY <1>3 DEF BytesIn
<1>6. IsFiniteSet(BytesIn(ToSet(q)))
  <2> HIDE DEF a, D, q
  <2> QED
    BY <1>4, <1>5, FS_Subset
<1> QED
  BY <1>1, <1>2, <1>3, <1>6

LEMMA BufferCreditedCredits ==
  ASSUME IInv, CreditsInv, NEW cr \in credits, BufferCredited(cr)
  PROVE  CreditsInv'
<1> DEFINE s == cr.to.sw
           port == cr.to.port
           c == Chan(s, port, cr.vc)
           q == bufQueue[c]
           n == bufCredits[c] + cr.bytes
           a == <<"buffer", c>>
           M == [Ledger EXCEPT ![a] = @ + cr.bytes]
           C == credits \ {cr}
<1>0. JobInv /\ cr.to.at = "buffer"
  BY DEF IInv, BufferCredited
<1>1. /\ c \in Channel /\ a \in Account
      /\ Accounted(InNet, C, M) /\ SameIds(DuesOf(InNet, C), DuesOf(InNet, credits))
      /\ M[a] = Ledger[a] + cr.bytes /\ M[a] \in Nat
  <2>1. cr.to.at \in {"xbar", "buffer"}
    BY <1>0
  <2> QED
    BY <1>0, <2>1, CreditTaken
<1>2. c.sw = s /\ c.port = port /\ Ledger[a] = bufCredits[c] /\ M[a] = n /\ n \in Nat
  BY <1>1, LedgerOf DEF Chan
<1>3. UNCHANGED <<job, sent, pendingInject, injCredits, xbarCredits, xbarQueue>>
  BY DEF BufferCredited, nicVars, xbarVars
<1>4. ShapeInv /\ LedgerInv /\ FreshInv
  BY DEF CreditsInv
<1>5. PICK go \in Fitting(q, n) :
        /\ bufCredits' = [bufCredits EXCEPT ![c] = n - BytesOf({q[k] : k \in go})]
        /\ \E stay \in InOrder(DOMAIN q \ go) :
             bufQueue' = [bufQueue EXCEPT ![c] = [i \in DOMAIN stay |-> q[stay[i]]]]
        /\ payloads' = payloads \cup {BufferSend(s, port, p) : p \in {q[k] : k \in go}}
        /\ credits' = (credits \ {cr}) \cup {BufferCredit(s, port, p) : p \in {q[k] : k \in go}}
  BY Zenon DEF BufferCredited
<1>6. PICK stay \in InOrder(DOMAIN q \ go) :
        bufQueue' = [bufQueue EXCEPT ![c] = [i \in DOMAIN stay |-> q[stay[i]]]]
  BY <1>5, Zenon
<1> DEFINE out == {q[k] : k \in go}
           r == [i \in DOMAIN stay |-> q[stay[i]]]
           X == Spots("inBuffer", c, out)
           f == [x \in X |-> BufferSend(s, port, x.pkt)]
           E == Debts(Gone(X, f))
           N2 == (InNet \ X) \cup Gone(X, f)
<1> HIDE DEF s, port, c, n
<1>7. /\ IsQueue(q) /\ NoRepeat(q) /\ (\A k \in DOMAIN q : IsCut(q[k]) /\ InBuffer(c, q[k]))
      /\ IsFiniteSet(BytesIn(ToSet(q)))
  BY <1>1, BufferQueueCut
<1>8. /\ go \in SUBSET DOMAIN q /\ IsFiniteSet(BytesIn(out)) /\ BytesOf(out) \in Nat /\ BytesOf(out) <= n
  <2>1. go \in Fitting(q, n) /\ n \in Nat
    BY <1>2, <1>5
  <2>2. \A k \in DOMAIN q : IsCut(q[k])
    BY <1>7
  <2> HIDE DEF q
  <2>3. /\ go \in SUBSET DOMAIN q
        /\ IsFiniteSet(BytesIn({q[k] : k \in go})) /\ BytesOf({q[k] : k \in go}) \in Nat
        /\ BytesOf({q[k] : k \in go}) <= n
    BY <1>0, <1>7, <2>1, <2>2, FittingBytes
  <2> QED
    BY <2>3
<1>9. ToSet(r) = ToSet(q) \ out /\ NoRepeat(r)
  <2> HIDE DEF q
  <2> QED
    BY <1>7, <1>8, SelectSet
<1>10. bufQueue' = [bufQueue EXCEPT ![c] = r] /\ bufQueue = [b \in Channel |-> bufQueue[b]]
  BY <1>6 DEF IInv, BufferInv
<1>11. out \subseteq ToSet(q) /\ \A p \in out : InBuffer(c, p)
  BY <1>7, <1>8 DEF ToSet
<1> HIDE DEF r
<1>11a. /\ bufCredits' = [bufCredits EXCEPT ![c] = n - BytesOf(out)]
        /\ payloads' = payloads \cup {BufferSend(s, port, p) : p \in out}
        /\ credits' = C \cup {BufferCredit(s, port, p) : p \in out}
  BY <1>5
<1> HIDE DEF out
<1>12. OneQueue(bufQueue, c, out)
  <2>1. ASSUME NEW b \in Channel, NEW p \in out, b.sw = c.sw, b.port = c.port, p \in ToSet(bufQueue[b]) PROVE b = c
    <3>1. p.vc = b.vc /\ p.vc = c.vc
      BY <1>11, <2>1 DEF InBuffer, IInv, BufferInv
    <3>2. /\ b = [sw |-> b.sw, port |-> b.port, vc |-> b.vc]
          /\ c = [sw |-> c.sw, port |-> c.port, vc |-> c.vc]
      BY <1>1 DEF Channel
    <3> QED
      BY <2>1, <3>1, <3>2, Zenon
  <2> QED
    BY <2>1 DEF OneQueue
<1>13. Waiting("inBuffer", bufQueue') = Waiting("inBuffer", bufQueue) \ X
  <2> DEFINE bq == bufQueue
  <2>1. ToSet(r) = ToSet(bq[c]) \ out /\ bq = [b \in Channel |-> bq[b]] /\ OneQueue(bq, c, out)
    BY <1>9, <1>10, <1>12
  <2> HIDE DEF bq
  <2>2. Waiting("inBuffer", [bq EXCEPT ![c] = r]) = Waiting("inBuffer", bq) \ Spots("inBuffer", c, out)
    BY <1>1, <2>1, WaitingRemove
  <2> QED
    BY <1>10, <2>2 DEF bq
<1>14. ASSUME NEW p \in out
       PROVE  LET x == Spot("inBuffer", c, p) IN
              /\ x \in X /\ x \in InNet /\ x.pkt = p /\ f[x] = BufferSend(s, port, p)
              /\ Debt(x) = BufferCredit(s, port, p)
              /\ f[x].pkt.id = x.pkt.id /\ f[x].pkt.bytes = x.pkt.bytes /\ IsPayload(f[x])
              /\ IsCredit(Debt(f[x])) /\ AccountOf(Debt(f[x])) = a /\ Precedes(Debt(x), Debt(f[x]))
  <2> DEFINE x == Spot("inBuffer", c, p)
  <2>1. x \in X /\ x \in InNet /\ x.pkt = p
    BY <1>1, <1>11, InNetFacts, SpotFacts DEF Spots
  <2>2. f[x] = BufferSend(s, port, p)
    BY <2>1
  <2>3. Debt(x) = BufferCredit(s, port, p)
    BY <1>2, SpotDebt
  <2> DEFINE y == BufferSend(c.sw, c.port, p)
             d == BufferCredit(c.sw, c.port, p)
  <2>3a. /\ y.pkt.id = p.id /\ y.pkt.bytes = p.bytes /\ IsPayload(y)
         /\ IsCredit(Debt(y)) /\ AccountOf(Debt(y)) = <<"buffer", c>> /\ Precedes(d, Debt(y))
    BY <1>1, <1>11, BufferHop
  <2>3b. f[x] = y /\ Debt(x) = d
    BY <1>2, <2>2, <2>3
  <2> HIDE DEF x, f, y, d
  <2>4. /\ f[x].pkt.id = x.pkt.id /\ f[x].pkt.bytes = x.pkt.bytes /\ IsPayload(f[x])
        /\ IsCredit(Debt(f[x])) /\ AccountOf(Debt(f[x])) = a /\ Precedes(Debt(x), Debt(f[x]))
    BY <2>1, <2>3a, <2>3b
  <2> QED
    BY <2>1, <2>2, <2>3, <2>4 DEF x
<1>15. \A x \in X : \E p \in out : x = Spot("inBuffer", c, p)
  BY DEF Spots
<1> HIDE DEF f, X
<1>16. X \in SUBSET InNet /\ Onward(X, f, a) /\ (\A x \in X : IsPayload(f[x]))
  BY <1>14, <1>15 DEF Onward
<1>17. Gone(X, f) = {BufferSend(s, port, p) : p \in out}
  <2>1. \A x \in X : \E p \in out : f[x] = BufferSend(s, port, p)
    BY <1>14, <1>15
  <2>2. \A p \in out : \E x \in X : f[x] = BufferSend(s, port, p)
    BY <1>14
  <2> QED
    BY <2>1, <2>2 DEF Gone
<1>18. Debts(X) = {BufferCredit(s, port, p) : p \in out}
  <2>1. \A x \in X : \E p \in out : Debt(x) = BufferCredit(s, port, p)
    BY <1>14, <1>15
  <2>2. \A p \in out : \E x \in X : Debt(x) = BufferCredit(s, port, p)
    BY <1>14
  <2> QED
    BY <2>1, <2>2 DEF Debts
<1>19. BytesIn(E) = BytesIn(out) /\ BytesOf(E) = BytesOf(out)
  <2>1. \A x \in X : \E p \in out : Debt(f[x]).id = p.id /\ Debt(f[x]).bytes = p.bytes
    BY <1>14, <1>15, DebtId
  <2>2. \A p \in out : \E x \in X : Debt(f[x]).id = p.id /\ Debt(f[x]).bytes = p.bytes
    BY <1>14, DebtId
  <2>3. \A d \in E : \E x \in X : d = Debt(f[x])
    BY DEF Debts, Gone
  <2>4. \A x \in X : Debt(f[x]) \in E
    BY DEF Debts, Gone
  <2> HIDE DEF E
  <2>5. \A d \in E : \E p \in out : d.id = p.id /\ d.bytes = p.bytes
    BY <2>1, <2>3
  <2>6. \A p \in out : \E d \in E : d.id = p.id /\ d.bytes = p.bytes
    BY <2>2, <2>4
  <2> QED
    BY <2>5, <2>6, SameBytes
<1>20. /\ Accounted(N2, C \cup Debts(X), [M EXCEPT ![a] = @ - BytesOf(E)])
       /\ SameIds(DuesOf(N2, C \cup Debts(X)), DuesOf(InNet, C))
  <2> DEFINE N == InNet
  <2>1. E = Debts(Gone(X, f)) /\ N2 = (N \ X) \cup Gone(X, f)
    OBVIOUS
  <2>2. X \in SUBSET N /\ Accounted(N, C, M) /\ a \in Account
    BY <1>1, <1>16
  <2>3. IsFiniteSet(BytesIn(E)) /\ BytesOf(E) <= M[a]
    BY <1>2, <1>8, <1>19
  <2> HIDE DEF E, N2, N, C, M, a
  <2> QED
    BY <1>0, <1>16, <2>1, <2>2, <2>3, Hop DEF N
<1>21. InNet' = N2 /\ credits' = C \cup Debts(X)
  <2>1. payloads' = payloads \cup Gone(X, f) /\ credits' = C \cup Debts(X)
    BY <1>11a, <1>17, <1>18
  <2>2. InNet' = (InNet \ X) \cup Gone(X, f)
    BY <1>3, <1>4, <1>13, <2>1, NetResumes DEF X
  <2> QED
    BY <2>1, <2>2
<1>22. Ledger' = [Ledger EXCEPT ![a] = n - BytesOf(out)] /\ LedgerInv'
  <2> DEFINE v == n - BytesOf(out)
  <2>1. bufCredits' = [bufCredits EXCEPT ![c] = v]
    BY <1>11a
  <2> HIDE DEF v
  <2>2. Ledger' = [Ledger EXCEPT ![<<"buffer", c>>] = v] /\ LedgerInv'
    BY <1>1, <1>3, <1>4, <2>1, LedgerBuffer
  <2> QED
    BY <2>2 DEF v
<1>23. [M EXCEPT ![a] = @ - BytesOf(E)] = [Ledger EXCEPT ![a] = n - BytesOf(out)]
  <2>1. Ledger \in [Account -> Nat]
    BY DEF CreditsInv, Accounted, Books
  <2> HIDE DEF a, E
  <2> QED
    BY <1>1, <1>2, <1>19, <2>1, TwiceExcept
<1> HIDE DEF C, a, M, q, N2, E
<1>24. Accounted(InNet', credits', Ledger')
  BY <1>20, <1>21, <1>22, <1>23
<1>25. SameIds(DuesOf(InNet', credits'), DuesOf(InNet, credits))
  <2>1. SameIds(DuesOf(InNet', credits'), DuesOf(InNet, C))
    BY <1>20, <1>21
  <2> QED
    BY <1>1, <2>1 DEF SameIds
<1>26. ShapeInv'
  <2>1. bufQueue'[c] = r /\ \A b \in Channel : b # c => bufQueue'[b] = bufQueue[b]
    BY <1>1, <1>10
  <2>2. \A b \in Channel : NoRepeat(xbarQueue'[b]) /\ NoRepeat(bufQueue'[b])
    BY <1>3, <1>4, <1>9, <2>1 DEF ShapeInv
  <2>3. \A e \in payloads' : IsPayload(e)
    BY <1>4, <1>11a, <1>14 DEF ShapeInv
  <2> QED
    BY <1>3, <1>4, <2>2, <2>3 DEF ShapeInv
<1>27. FreshInv' /\ Accounted(InNet, credits, Ledger)'
  BY <1>3, <1>4, <1>24, <1>25, FreshNext, AccountedNext
<1> QED
  BY <1>22, <1>26, <1>27 DEF CreditsInv

\* A NIC's credits.
LEMMA NicTaken ==
  ASSUME IInv, CreditsInv, NEW cr \in credits, cr.to.at = "nic"
  PROVE  LET a == NicAccount(cr.to.sw)
             M == [Ledger EXCEPT ![a] = @ + cr.bytes]
         IN
         /\ cr.to.sw \in Switch /\ a \in Account
         /\ Accounted(InNet, credits \ {cr}, M)
         /\ M[a] = injCredits[cr.to.sw] + cr.bytes /\ M[a] \in Nat
<1> DEFINE a == NicAccount(cr.to.sw)
           M == [Ledger EXCEPT ![a] = @ + cr.bytes]
<1>1. JobInv /\ GoodCredit(cr) /\ Accounted(InNet, credits, Ledger)
  BY DEF IInv, CreditInv, CreditsInv
<1>2. cr.to.sw \in Switch
  BY <1>1 DEF GoodCredit
<1>3. AccountOf(cr) = a
  <2>1. IsCredit(cr)
    BY <1>1 DEF Accounted, Placed, DuesOf
  <2> QED
    BY <2>1 DEF AccountOf, ChannelOf, NicAccount, IsCredit
<1>4. Accounted(InNet, credits \ {cr}, M)
  <2> DEFINE N == InNet
             L == Ledger
  <2> HIDE DEF N, L, a
  <2>1. Accounted(N, credits, L)
    BY <1>1 DEF N, L
  <2>2. Accounted(N, credits \ {cr}, [L EXCEPT ![AccountOf(cr)] = @ + cr.bytes])
    BY <1>1, <2>1, Paid
  <2> QED
    BY <1>3, <2>2 DEF N, L
<1>5. Ledger \in [Account -> Nat] /\ M \in [Account -> Nat]
  <2>1. Ledger \in [Account -> Nat]
    BY <1>1 DEF Accounted, Books
  <2> HIDE DEF M
  <2>2. M \in [Account -> Nat]
    BY <1>4 DEF Accounted, Books
  <2> QED
    BY <2>1, <2>2
<1>6. a \in Account /\ Ledger[a] = injCredits[cr.to.sw]
  BY <1>2, LedgerOf
<1> HIDE DEF a
<1>7. M[a] = injCredits[cr.to.sw] + cr.bytes
  BY <1>5, <1>6
<1>8. M[a] \in Nat
  <2> HIDE DEF M
  <2> QED
    BY <1>5, <1>6
<1> QED
  BY <1>2, <1>4, <1>6, <1>7, <1>8 DEF a

\* Packets that a NIC made and nobody has seen yet.
NewPackets(P, D) ==
  /\ \A p \in P : IsCut(p) /\ p.vc = 0
  /\ \A p \in P : \A d \in D : d.id # p.id
  /\ \A p, r \in P : p.id = r.id => p = r
  /\ IsFiniteSet(BytesIn(P))

LEMMA InjectedDebt ==
  ASSUME NEW s \in Switch, NEW p, IsCut(p), p.vc = 0
  PROVE  LET y == [to |-> To("switch", s, NodePort), pkt |-> p] IN
         /\ IsPayload(y) /\ IsCredit(Debt(y)) /\ IsCut(Debt(y)) /\ AccountOf(Debt(y)) = NicAccount(s)
         /\ Debt(y).id = p.id /\ Debt(y).bytes = p.bytes
<1> DEFINE to == To("switch", s, NodePort)
           y == [to |-> to, pkt |-> p]
<1>1. y.to = to /\ y.pkt = p /\ y = [to |-> y.to, pkt |-> y.pkt]
  OBVIOUS
<1>2. to.at = "switch" /\ to.sw = s /\ to.port = NodePort
  BY DEF To
<1>3. IsPayload(y)
  BY <1>1, <1>2 DEF IsPayload, To
<1> HIDE DEF y, to
<1>4. Debt(y) = [to |-> To("nic", s, NodePort), vc |-> 0, bytes |-> p.bytes, id |-> p.id]
  BY <1>1, <1>2 DEF Debt, Creditor, Upstream, CreditFor
<1> DEFINE d == Debt(y)
           u == To("nic", s, NodePort)
<1>5. u.at = "nic" /\ u.sw = s /\ u.port = NodePort /\ u = To(u.at, u.sw, u.port)
  BY DEF To
<1>6. d.to = u /\ d.vc = 0 /\ d.bytes = p.bytes /\ d.id = p.id /\ d = [to |-> d.to, vc |-> d.vc, bytes |-> d.bytes, id |-> d.id]
  BY <1>4
<1> HIDE DEF d, u
<1>7. IsCredit(d)
  BY <1>5, <1>6, PortKinds DEF IsCredit, VC
<1>8. IsCut(d)
  BY <1>6 DEF IsCut
<1>9. AccountOf(d) = NicAccount(s)
  BY <1>5, <1>6 DEF AccountOf, ChannelOf, NicAccount
<1> QED
  BY <1>3, <1>6, <1>7, <1>8, <1>9 DEF y, d, to

\* New packets enter the network.
LEMMA InjectedSet ==
  ASSUME JobInv, NEW s \in Switch, NEW P, NEW D, NewPackets(P, D)
  PROVE  LET Y == Injected(s, P) IN
         /\ \A y \in Y : /\ IsPayload(y) /\ IsCredit(Debt(y)) /\ IsCut(Debt(y))
                         /\ AccountOf(Debt(y)) = NicAccount(s) /\ y.pkt \in P /\ Debt(y).id = y.pkt.id
         /\ \A y, z \in Y : y.pkt.id = z.pkt.id => y = z
         /\ BytesIn(Debts(Y)) = BytesIn(P) /\ BytesOf(Debts(Y)) = BytesOf(P)
<1> DEFINE Y == Injected(s, P)
           in(p) == [to |-> To("switch", s, NodePort), pkt |-> p]
<1>1. ASSUME NEW p \in P
      PROVE  /\ in(p) \in Y /\ in(p).pkt = p
             /\ IsPayload(in(p)) /\ IsCredit(Debt(in(p))) /\ IsCut(Debt(in(p)))
             /\ AccountOf(Debt(in(p))) = NicAccount(s)
             /\ Debt(in(p)).id = p.id /\ Debt(in(p)).bytes = p.bytes
  <2>1. in(p) \in Y /\ in(p).pkt = p
    BY DEF Injected
  <2>2. IsCut(p) /\ p.vc = 0
    BY DEF NewPackets
  <2> QED
    BY <2>1, <2>2, InjectedDebt
<1>2. \A y \in Y : \E p \in P : y = in(p)
  BY DEF Injected
<1> HIDE DEF Y, in
<1>3. \A y, z \in Y : y.pkt.id = z.pkt.id => y = z
  BY <1>1, <1>2 DEF NewPackets
<1>4. \A y \in Y : /\ IsPayload(y) /\ IsCredit(Debt(y)) /\ IsCut(Debt(y))
                   /\ AccountOf(Debt(y)) = NicAccount(s) /\ y.pkt \in P /\ Debt(y).id = y.pkt.id
  BY <1>1, <1>2
<1>5. BytesIn(Debts(Y)) = BytesIn(P) /\ BytesOf(Debts(Y)) = BytesOf(P)
  <2> DEFINE E == Debts(Y)
  <2>1. \A d \in E : \E y \in Y : d = Debt(y)
    BY DEF Debts
  <2>2. \A y \in Y : Debt(y) \in E
    BY DEF Debts
  <2> HIDE DEF E
  <2>3. \A d \in E : \E p \in P : d.id = p.id /\ d.bytes = p.bytes
    BY <1>1, <1>2, <2>1
  <2>4. \A p \in P : \E d \in E : d.id = p.id /\ d.bytes = p.bytes
    BY <1>1, <2>2
  <2>5. BytesIn(E) = BytesIn(P) /\ BytesOf(E) = BytesOf(P)
    BY <2>3, <2>4, SameBytes
  <2> QED
    BY <2>5 DEF E
<1> QED
  BY <1>3, <1>4, <1>5 DEF Y

OnlyNew(D2, D, P) == \A d \in D2 : d \in D \/ \E p \in P : d.id = p.id

LEMMA Inject ==
  ASSUME JobInv, NEW s \in Switch, NEW N, NEW C, NEW L, Accounted(N, C, L), NEW P,
         NewPackets(P, DuesOf(N, C)), BytesOf(P) <= L[NicAccount(s)]
  PROVE  /\ Accounted(N \cup Injected(s, P), C, [L EXCEPT ![NicAccount(s)] = @ - BytesOf(P)])
         /\ OnlyNew(DuesOf(N \cup Injected(s, P), C), DuesOf(N, C), P)
<1> DEFINE Y == Injected(s, P)
           D == DuesOf(N, C)
           a == NicAccount(s)
<1>1. /\ \A y \in Y : /\ IsPayload(y) /\ IsCredit(Debt(y)) /\ IsCut(Debt(y))
                      /\ AccountOf(Debt(y)) = a /\ y.pkt \in P /\ Debt(y).id = y.pkt.id
      /\ \A y, z \in Y : y.pkt.id = z.pkt.id => y = z
      /\ BytesIn(Debts(Y)) = BytesIn(P) /\ BytesOf(Debts(Y)) = BytesOf(P)
  <2> HIDE DEF Y, a, D
  <2>1. NewPackets(P, D)
    BY DEF D
  <2> QED
    BY <2>1, InjectedSet DEF Y, a
<1>2. a \in Account
  BY LedgerOf
<1> HIDE DEF Y, a
<1>3. \A y \in Y : \A d \in D : d.id # y.pkt.id
  BY <1>1 DEF NewPackets
<1>4. IsFiniteSet(BytesIn(Debts(Y))) /\ BytesOf(Debts(Y)) <= L[a]
  BY <1>1 DEF NewPackets, a
<1>5. \A y \in Y : IsCredit(Debt(y)) /\ IsCut(Debt(y)) /\ AccountOf(Debt(y)) = a
  BY <1>1
<1>6. Accounted(N \cup Y, C, [L EXCEPT ![a] = @ - BytesOf(Debts(Y))])
  BY <1>1, <1>2, <1>3, <1>4, <1>5, Enter
<1>7. \A d \in DuesOf(N \cup Y, C) : d \in D \/ \E y \in Y : d = Debt(y)
  BY DEF DuesOf, Debts
<1>8. \A d \in DuesOf(N \cup Y, C) : d \in D \/ \E p \in P : d.id = p.id
  <2> HIDE DEF D
  <2> QED
    BY <1>1, <1>7
<1>9. Accounted(N \cup Y, C, [L EXCEPT ![a] = @ - BytesOf(P)])
  BY <1>1, <1>6
<1> QED
  BY <1>8, <1>9 DEF Y, a, D, OnlyNew

\* The books when a NIC injects.
LEMMA InjectNext ==
  ASSUME JobInv, ShapeInv, LedgerInv, NEW s \in Switch, NEW C, NEW L, Accounted(InNet, C, L), NEW P,
         NewPackets(P, DuesOf(InNet, C)), BytesOf(P) <= L[NicAccount(s)],
         Ledger' = [L EXCEPT ![NicAccount(s)] = @ - BytesOf(P)],
         payloads' = payloads \cup Injected(s, P), credits' = C,
         UNCHANGED <<job, xbarQueue, bufQueue>>
  PROVE  /\ ShapeInv' /\ Accounted(InNet, credits, Ledger)'
         /\ OnlyNew(DuesOf(InNet', credits'), DuesOf(InNet, C), P)
<1>1. InNet' = InNet \cup Injected(s, P)
  BY NetMoves
<1>2. /\ Accounted(InNet \cup Injected(s, P), C, [L EXCEPT ![NicAccount(s)] = @ - BytesOf(P)])
      /\ OnlyNew(DuesOf(InNet \cup Injected(s, P), C), DuesOf(InNet, C), P)
  <2> DEFINE N == InNet
             a == NicAccount(s)
  <2>1. Accounted(N, C, L) /\ NewPackets(P, DuesOf(N, C)) /\ a = NicAccount(s) /\ BytesOf(P) <= L[a]
    OBVIOUS
  <2> HIDE DEF N, a
  <2>2. /\ Accounted(N \cup Injected(s, P), C, [L EXCEPT ![a] = @ - BytesOf(P)])
        /\ OnlyNew(DuesOf(N \cup Injected(s, P), C), DuesOf(N, C), P)
    BY <2>1, Inject
  <2> QED
    BY <2>2 DEF N, a
<1>3. Accounted(InNet', credits', Ledger')
  BY <1>1, <1>2
<1>4. Accounted(InNet, credits, Ledger)'
  BY <1>3, AccountedNext
<1>5. OnlyNew(DuesOf(InNet', credits'), DuesOf(InNet, C), P)
  BY <1>1, <1>2
<1>6. \A y \in Injected(s, P) : IsPayload(y)
  <2> DEFINE D == DuesOf(InNet, C)
  <2>1. NewPackets(P, D)
    OBVIOUS
  <2> HIDE DEF D
  <2> QED
    BY <2>1, InjectedSet
<1>7. ShapeInv'
  BY <1>6 DEF ShapeInv
<1> QED
  BY <1>4, <1>5, <1>7

LEMMA PendingFacts ==
  ASSUME IInv, CreditsInv, NEW s \in Switch
  PROVE  /\ PendingQueue(pendingInject[s])
         /\ \A k \in DOMAIN pendingInject[s] :
              /\ pendingInject[s][k] \in ToSet(pendingInject[s])
              /\ PendingMessage(s, pendingInject[s][k], DuesOf(InNet, credits))
<1> DEFINE q == pendingInject[s]
           D == DuesOf(InNet, credits)
<1>1. IsQueue(q)
  BY DEF IInv, PendingInv
<1>2. /\ sent \subseteq Message
      /\ \A w \in ToSet(q) : PendingMessage(s, w, D)
      /\ \A i, j \in DOMAIN q : q[i].msg = q[j].msg => i = j
  BY DEF CreditsInv, FreshInv
<1>3. \A k \in DOMAIN q : q[k] \in ToSet(q)
  BY DEF ToSet
<1> HIDE DEF q, D
<1>4. \A k \in DOMAIN q : PendingMessage(s, q[k], D)
  BY <1>2, <1>3
<1>5. PendingQueue(q)
  BY <1>1, <1>2, <1>4 DEF PendingQueue, PendingMessage
<1> QED
  BY <1>3, <1>4, <1>5 DEF q, D

LEMMA DoSendCredits ==
  ASSUME IInv, CreditsInv, NEW m \in Message, DoSend(m)
  PROVE  CreditsInv'
<1>0. JobInv /\ ShapeInv /\ LedgerInv /\ FreshInv /\ Accounted(InNet, credits, Ledger)
  BY DEF IInv, CreditsInv
<1>1. PICK s \in Switch : s = job[m].src /\ job[m].bytes \in Nat /\ 0 < job[m].bytes
  BY <1>0, PiscesAssumption DEF JobInv
<1> DEFINE n == injCredits[s]
           P == Packets(m, 0, n)
           D == DuesOf(InNet, credits)
           a == NicAccount(s)
<1>2. a \in Account /\ Ledger[a] = n /\ Ledger \in [Account -> Nat]
  BY <1>0, <1>1, LedgerOf DEF Accounted, Books
<1>3. n \in Nat
  <2> HIDE DEF a, n
  <2> QED
    BY <1>2
<1>4. /\ m \notin sent /\ sent' = sent \cup {m}
      /\ injCredits' = [injCredits EXCEPT ![s] = n - BytesOf(P)]
      /\ payloads' = payloads \cup Injected(s, P)
      /\ pendingInject' = IF BytesOf(P) = job[m].bytes THEN pendingInject
                          ELSE [pendingInject EXCEPT ![s] = Append(@, [msg |-> m, sent |-> BytesOf(P)])]
      /\ UNCHANGED <<job, xbarCredits, xbarQueue, bufCredits, bufQueue, credits>>
  BY <1>1 DEF DoSend, xbarVars, bufVars
<1>5. PICK j : CutFrom(m, 0, j, n, P)
  <2>1. Multiple(0) /\ n \in Int
    BY <1>3, Products DEF Multiple
  <2> HIDE DEF n
  <2> QED
    BY <1>0, <1>1, <2>1, PacketsCut
<1> HIDE DEF n, P, a
<1>6. IsFiniteSet(BytesIn(P)) /\ BytesOf(P) = j /\ j \in Nat
  <2>1. j \in Nat /\ j - 0 = j /\ 0 \in Nat
    BY <1>5 DEF CutFrom
  <2>2. IsFiniteSet(BytesIn(P)) /\ BytesOf(P) = j - 0
    BY <1>5, <2>1, CutBytes
  <2> QED
    BY <2>1, <2>2
<1>7. j <= n
  BY <1>3, <1>5, <1>6 DEF CutFrom
<1>8. \A d \in D : d.id[1] \in sent
  BY <1>0 DEF FreshInv
<1>9. \A p \in P : IsCut(p) /\ p.vc = 0 /\ p.id[1] = m /\ p.id[2] < j
  BY <1>5 DEF CutFrom
<1>10. NewPackets(P, D)
  <2> HIDE DEF D
  <2>1. \A p, r \in P : p.id = r.id => p = r
    BY <1>5 DEF CutFrom
  <2>2. \A p \in P : \A d \in D : d.id # p.id
    BY <1>4, <1>8, <1>9
  <2> QED
    BY <1>6, <1>9, <2>1, <2>2 DEF NewPackets
<1>11. Ledger' = [Ledger EXCEPT ![a] = @ - BytesOf(P)] /\ LedgerInv'
  <2> DEFINE v == n - BytesOf(P)
  <2>1. injCredits' = [injCredits EXCEPT ![s] = v]
    BY <1>4
  <2>2. v = Ledger[a] - BytesOf(P)
    BY <1>2
  <2> HIDE DEF v
  <2>3. Ledger' = [Ledger EXCEPT ![NicAccount(s)] = v] /\ LedgerInv'
    BY <1>0, <1>1, <1>4, <2>1, LedgerNic
  <2> QED
    BY <2>2, <2>3 DEF a
<1>12. /\ ShapeInv' /\ Accounted(InNet, credits, Ledger)'
       /\ OnlyNew(D', D, P)
  <2> DEFINE L == Ledger
             C == credits
  <2>1. /\ Accounted(InNet, C, L) /\ BytesOf(P) <= L[NicAccount(s)] /\ NewPackets(P, DuesOf(InNet, C))
        /\ Ledger' = [L EXCEPT ![NicAccount(s)] = @ - BytesOf(P)]
    BY <1>0, <1>2, <1>6, <1>7, <1>10, <1>11 DEF a
  <2>2. /\ payloads' = payloads \cup Injected(s, P) /\ credits' = C
        /\ UNCHANGED <<job, xbarQueue, bufQueue>>
    BY <1>4
  <2> HIDE DEF L, C
  <2>3. /\ ShapeInv' /\ Accounted(InNet, credits, Ledger)'
        /\ OnlyNew(DuesOf(InNet', credits'), DuesOf(InNet, C), P)
    BY <1>0, <1>1, <2>1, <2>2, InjectNext
  <2> QED
    BY <2>3 DEF C
<1> DEFINE D2 == D'
           pi == pendingInject
           pj == pendingInject'
           w == [msg |-> m, sent |-> j]
<1>13. /\ \A d \in D2 : d \in D \/ (d.id[1] = m /\ d.id[2] < j)
  <2> HIDE DEF D
  <2> QED
    BY <1>9, <1>12 DEF OnlyNew
<1>14. \A d \in D2 : d.id[1] \in sent'
  <2> HIDE DEF D, D2
  <2> QED
    BY <1>4, <1>8, <1>13
<1>15. ASSUME NEW t \in Switch, NEW v, PendingMessage(t, v, D)
       PROVE  PendingMessage(t, v, D)'
  <2>1. v.msg \in sent /\ v.msg # m
    BY <1>4, <1>15 DEF PendingMessage
  <2>2. \A d \in D2 : d.id[1] = v.msg => d.id[2] < v.sent
    <3> HIDE DEF D, D2
    <3> QED
      BY <1>13, <1>15, <2>1 DEF PendingMessage
  <2> QED
    BY <1>4, <1>15, <2>1, <2>2 DEF PendingMessage
<1>16. \A t \in Switch : \A v \in ToSet(pi[t]) : PendingMessage(t, v, D)
  BY <1>0 DEF FreshInv
<1>17. \A t \in Switch : \A i, k \in DOMAIN pi[t] : pi[t][i].msg = pi[t][k].msg => i = k
  BY <1>0 DEF FreshInv
<1>18. sent' \subseteq Message
  BY <1>0, <1>4 DEF FreshInv
<1>19. /\ \A t \in Switch : \A v \in ToSet(pj[t]) : PendingMessage(t, v, D)'
       /\ \A t \in Switch : \A i, k \in DOMAIN pj[t] : pj[t][i].msg = pj[t][k].msg => i = k
  <2>1. CASE j = job[m].bytes
    <3>1. pj = pi
      BY <1>4, <1>6, <2>1
    <3> HIDE DEF D, pi, pj
    <3> QED
      BY <3>1, <1>15, <1>16, <1>17
  <2>2. CASE j # job[m].bytes
    <3>1. pj = [pi EXCEPT ![s] = Append(@, w)]
      BY <1>4, <1>6, <2>2
    <3>2. pi = [t \in Switch |-> pi[t]] /\ IsQueue(pi[s])
      BY <1>1 DEF IInv, PendingInv
    <3>3. pj[s] = Append(pi[s], w) /\ \A t \in Switch : t # s => pj[t] = pi[t]
      BY <1>1, <3>1, <3>2
    <3> HIDE DEF pi, pj
    <3>4. ToSet(pj[s]) \subseteq ToSet(pi[s]) \cup {w}
      BY <3>2, <3>3, AppendQueue
    <3>5. PendingMessage(s, w, D)'
      <4>1. w.msg = m /\ w.sent = j /\ w = [msg |-> w.msg, sent |-> w.sent]
        OBVIOUS
      <4>2. Multiple(j) /\ j < job[m].bytes
        BY <1>1, <1>5, <1>6, <2>2 DEF CutFrom
      <4>3. \A d \in D2 : d.id[1] = m => d.id[2] < j
        <5> HIDE DEF D, D2
        <5> QED
          BY <1>4, <1>8, <1>13
      <4> HIDE DEF w, D
      <4>4. w.msg \in sent' /\ job'[w.msg].src = s /\ job' = job
        BY <1>1, <1>4, <4>1
      <4> QED
        BY <1>4, <1>6, <4>1, <4>2, <4>3, <4>4 DEF PendingMessage
    <3>6. \A t \in Switch : \A v \in ToSet(pj[t]) : PendingMessage(t, v, D)'
      <4> HIDE DEF D, w
      <4>1. \A t \in Switch : \A v \in ToSet(pi[t]) : PendingMessage(t, v, D)'
        BY <1>15, <1>16
      <4> QED
        BY <3>3, <3>4, <3>5, <4>1
    <3>7. \A i, k \in DOMAIN pj[s] : pj[s][i].msg = pj[s][k].msg => i = k
      <4> DEFINE q == pi[s]
                 l == Len(q)
      <4>1. l \in Nat /\ DOMAIN q = 1 .. l /\ DOMAIN Append(q, w) = 1 .. (l + 1)
        BY <3>2 DEF IsQueue
      <4>2. \A i \in 1 .. l : Append(q, w)[i] = q[i]
        BY <3>2 DEF IsQueue
      <4>3. Append(q, w)[l + 1] = w
        BY <3>2 DEF IsQueue
      <4>4. \A i \in 1 .. l : q[i].msg # m
        <5>1. \A i \in 1 .. l : q[i] \in ToSet(q)
          BY <4>1 DEF ToSet
        <5> HIDE DEF D
        <5> QED
          BY <1>1, <1>4, <1>16, <5>1 DEF PendingMessage
      <4>5. w.msg = m
        OBVIOUS
      <4>6. \A i, k \in 1 .. l : q[i].msg = q[k].msg => i = k
        BY <1>1, <1>17, <4>1
      <4> HIDE DEF q, l, w
      <4>7. \A i \in 1 .. (l + 1) : i \in 1 .. l \/ i = l + 1
        BY <4>1
      <4>8. \A i, k \in DOMAIN Append(q, w) : Append(q, w)[i].msg = Append(q, w)[k].msg => i = k
        BY <4>1, <4>2, <4>3, <4>4, <4>5, <4>6, <4>7
      <4> QED
        BY <3>3, <4>8 DEF q
    <3> QED
      BY <1>17, <3>3, <3>6, <3>7
  <2> QED
    BY <2>1, <2>2
<1>20. FreshInv'
  <2>1. \A d \in DuesOf(InNet, credits)' : d.id[1] \in sent'
    BY <1>14
  <2>2. \A t \in Switch : \A v \in ToSet(pendingInject'[t]) : PendingMessage(t, v, DuesOf(InNet, credits))'
    BY <1>19
  <2>3. \A t \in Switch : \A i, k \in DOMAIN pendingInject'[t] : pendingInject'[t][i].msg = pendingInject'[t][k].msg => i = k
    BY <1>19
  <2> QED
    BY <1>18, <2>1, <2>2, <2>3 DEF FreshInv
<1> QED
  BY <1>11, <1>12, <1>20 DEF CreditsInv

LEMMA PacketSentCredits ==
  ASSUME IInv, CreditsInv, NEW cr \in credits, PacketSent(cr)
  PROVE  CreditsInv'
<1>0. /\ JobInv /\ ShapeInv /\ LedgerInv /\ FreshInv /\ cr.to.at = "nic"
      /\ Ledger \in [Account -> Nat]
  BY DEF IInv, CreditsInv, Accounted, Books, PacketSent
<1> DEFINE C == credits \ {cr}
<1>1. /\ cr.to.sw \in Switch
      /\ LET a == NicAccount(cr.to.sw)
             M == [Ledger EXCEPT ![a] = @ + cr.bytes]
         IN  /\ a \in Account /\ Accounted(InNet, C, M)
             /\ M[a] = injCredits[cr.to.sw] + cr.bytes /\ M[a] \in Nat
  BY <1>0, NicTaken
<1>2. PICK s \in Switch : s = cr.to.sw
  BY <1>1
<1> DEFINE a == NicAccount(s)
           L == [Ledger EXCEPT ![a] = @ + cr.bytes]
           n == injCredits[s] + cr.bytes
           q == pendingInject[s]
           P == ResumeAll(q, n).out
           left == ResumeAll(q, n).left
           f == FinishedBy(q, n)
           D == DuesOf(InNet, credits)
<1>3. /\ a \in Account /\ Accounted(InNet, C, L) /\ L[a] = n /\ n \in Nat
      /\ Ledger[a] = injCredits[s]
  BY <1>1, <1>2, LedgerOf
<1>4. /\ injCredits' = [injCredits EXCEPT ![s] = ResumeAll(q, n).n]
      /\ pendingInject' = [pendingInject EXCEPT ![s] = left]
      /\ payloads' = payloads \cup Injected(s, P)
      /\ credits' = C
      /\ UNCHANGED <<job, sent, xbarCredits, xbarQueue, bufCredits, bufQueue>>
  BY <1>2 DEF PacketSent, xbarVars, bufVars
<1>5. ResumeAll(q, n).n = n - BytesOf(P)
  BY DEF ResumeAll, ResumeUpTo
<1>6. /\ PendingQueue(q) /\ \A k \in DOMAIN q : PendingMessage(s, q[k], D)
  BY PendingFacts
<1> HIDE DEF n, q, a
<1>7. /\ IsFiniteSet(BytesIn(P)) /\ BytesOf(P) \in Nat /\ BytesOf(P) <= n
  BY <1>0, <1>3, <1>6, ResumeBytes
<1>8. /\ \A p \in P : /\ IsCut(p) /\ p.vc = 0
                      /\ \E k \in 1 .. TriedBy(q, n) :
                           /\ k \in DOMAIN q /\ p.id[1] = q[k].msg
                           /\ q[k].sent <= p.id[2] /\ p.id[2] < SentBy(q, n, k)
      /\ \A p, r \in P : p.id = r.id => p = r
  BY <1>0, <1>3, <1>6, ResumePackets
<1> HIDE DEF P, D
<1>9. \A k \in DOMAIN q : q[k].sent \in Nat /\ SentBy(q, n, k) \in Nat /\ q[k].sent <= SentBy(q, n, k)
  BY <1>0, <1>3, <1>6, GoingCut
<1>10. \A p \in P : p.id[2] \in Nat
  BY <1>0, <1>8, CutSize
<1>11. \A p \in P : \A d \in D : d.id # p.id
  <2> SUFFICES ASSUME NEW p \in P, NEW d \in D, d.id = p.id PROVE FALSE
    OBVIOUS
  <2>1. PICK k \in DOMAIN q : p.id[1] = q[k].msg /\ q[k].sent <= p.id[2]
    BY <1>8
  <2>2. d.id[2] < q[k].sent
    BY <1>6, <2>1 DEF PendingMessage
  <2> QED
    BY <1>9, <1>10, <2>1, <2>2
<1>12. NewPackets(P, DuesOf(InNet, C))
  <2>1. \A d \in DuesOf(InNet, C) : d \in D
    BY DEF DuesOf, D
  <2> QED
    BY <1>7, <1>8, <1>11, <2>1 DEF NewPackets
<1>13. Ledger' = [L EXCEPT ![a] = @ - BytesOf(P)] /\ LedgerInv'
  <2> DEFINE v == n - BytesOf(P)
  <2>1. injCredits' = [injCredits EXCEPT ![s] = v]
    BY <1>4, <1>5
  <2> HIDE DEF v, L
  <2>2. Ledger' = [Ledger EXCEPT ![NicAccount(s)] = v] /\ LedgerInv'
    BY <1>0, <1>4, <2>1, LedgerNic
  <2>3. [L EXCEPT ![a] = @ - BytesOf(P)] = [Ledger EXCEPT ![a] = (Ledger[a] + cr.bytes) - BytesOf(P)]
    BY <1>0, <1>3, TwiceExcept DEF L
  <2> QED
    BY <1>3, <2>2, <2>3 DEF v, a, n
<1>14. /\ ShapeInv' /\ Accounted(InNet, credits, Ledger)'
       /\ OnlyNew(D', D, P)
  <2>1. /\ Accounted(InNet, C, L) /\ BytesOf(P) <= L[NicAccount(s)]
        /\ Ledger' = [L EXCEPT ![NicAccount(s)] = @ - BytesOf(P)]
    BY <1>3, <1>7, <1>13 DEF a
  <2>2. /\ payloads' = payloads \cup Injected(s, P) /\ credits' = C
        /\ UNCHANGED <<job, xbarQueue, bufQueue>>
    BY <1>4 DEF P
  <2> HIDE DEF L, C
  <2>3. /\ ShapeInv' /\ Accounted(InNet, credits, Ledger)'
        /\ OnlyNew(DuesOf(InNet', credits'), DuesOf(InNet, C), P)
    BY <1>0, <1>12, <2>1, <2>2, InjectNext
  <2>4. \A d \in DuesOf(InNet, C) : d \in D
    BY DEF DuesOf, D, C
  <2> QED
    BY <2>3, <2>4 DEF OnlyNew, D
<1> DEFINE D2 == D'
           pi == pendingInject
           pj == pendingInject'
<1>15. \A d \in D2 : d \in D \/ \E p \in P : d.id = p.id
  BY <1>14 DEF OnlyNew
<1> HIDE DEF D2
<1>16. \A d \in D2 : \/ d \in D
                     \/ \E k \in 1 .. TriedBy(q, n) : /\ k \in DOMAIN q /\ d.id[1] = q[k].msg
                                                      /\ d.id[2] < SentBy(q, n, k)
  BY <1>8, <1>15
<1>17. \A d \in D2 : d.id[1] \in sent
  <2>1. \A d \in D : d.id[1] \in sent
    BY <1>0 DEF FreshInv, D
  <2> QED
    BY <1>6, <1>16, <2>1 DEF PendingMessage
<1>18. \A t \in Switch : \A v \in ToSet(pi[t]) : PendingMessage(t, v, D)
  BY <1>0 DEF FreshInv, D
<1>19. \A t \in Switch : \A i, k \in DOMAIN pi[t] : pi[t][i].msg = pi[t][k].msg => i = k
  BY <1>0 DEF FreshInv
<1>20. ASSUME NEW t \in Switch, NEW v, PendingMessage(t, v, D2)
       PROVE  PendingMessage(t, v, D)'
  BY <1>4, <1>20 DEF PendingMessage, D2
<1>21. /\ pj[s] = left /\ \A t \in Switch : t # s => pj[t] = pi[t]
  BY <1>4 DEF IInv, PendingInv
<1>22. ASSUME NEW t \in Switch, t # s, NEW v \in ToSet(pi[t])
       PROVE  PendingMessage(t, v, D2)
  <2>1. PendingMessage(t, v, D)
    BY <1>18
  <2>2. job[v.msg].src = t
    BY <2>1 DEF PendingMessage
  <2>3. \A k \in DOMAIN q : job[q[k].msg].src = s
    BY <1>6 DEF PendingMessage
  <2>4. \A k \in DOMAIN q : q[k].msg # v.msg
    BY <1>22, <2>2, <2>3
  <2> QED
    BY <1>16, <2>1, <2>4 DEF PendingMessage
<1>23. /\ \A v \in ToSet(left) : PendingMessage(s, v, D2)
       /\ \A i, k \in DOMAIN left : left[i].msg = left[k].msg => i = k
  <2>1. CASE f = Len(q)
    <3>1. left = <<>>
      BY <2>1 DEF ResumeAll, ResumeUpTo, FinishedBy
    <3> QED
      BY <3>1, EmptyQueue
  <2>2. CASE f # Len(q)
    <3>1. /\ f + 1 \in DOMAIN q
          /\ DOMAIN left = 1 .. (Len(q) - f)
          /\ left[1] = [msg |-> q[f + 1].msg, sent |-> SentBy(q, n, f + 1)]
          /\ \A i \in 2 .. (Len(q) - f) : left[i] = q[f + i]
          /\ Multiple(SentBy(q, n, f + 1)) /\ SentBy(q, n, f + 1) < job[q[f + 1].msg].bytes
      BY <1>0, <1>3, <1>6, <2>2, ResumeLeft
    <3>2. Len(q) \in Nat /\ DOMAIN q = 1 .. Len(q) /\ f \in Nat /\ f <= Len(q) /\ TriedBy(q, n) <= f + 1 /\ TriedBy(q, n) \in Nat
      <4>1. Len(q) \in Nat /\ DOMAIN q = 1 .. Len(q)
        BY <1>6 DEF PendingQueue, IsQueue
      <4>2. f \in Nat /\ f <= Len(q)
        BY <1>6, ResumeLoop DEF PendingQueue
      <4> HIDE DEF f
      <4>3. TriedBy(q, n) = MinOf(f + 1, Len(q))
        BY DEF TriedBy, f
      <4> QED
        BY <4>1, <4>2, <4>3 DEF MinOf
    <3> HIDE DEF left, f
    <3>3. \A i \in DOMAIN left : i \in Nat /\ i >= 1 /\ f + i \in DOMAIN q /\ left[i].msg = q[f + i].msg
      <4> SUFFICES ASSUME NEW i \in DOMAIN left
                   PROVE  i \in Nat /\ i >= 1 /\ f + i \in DOMAIN q /\ left[i].msg = q[f + i].msg
        OBVIOUS
      <4>1. i \in Nat /\ i >= 1 /\ f + i \in DOMAIN q
        BY <3>1, <3>2
      <4>2. CASE i = 1
        BY <3>1, <3>2, <4>1, <4>2
      <4>3. CASE i # 1
        <5>1. i \in 2 .. (Len(q) - f)
          BY <3>1, <3>2, <4>1, <4>3
        <5> QED
          BY <3>1, <4>1, <5>1
      <4> QED
        BY <4>2, <4>3
    <3>4. \A i, k \in DOMAIN q : q[i].msg = q[k].msg => i = k
      BY <1>6 DEF PendingQueue
    <3>5. \A i, k \in DOMAIN left : left[i].msg = left[k].msg => i = k
      BY <3>2, <3>3, <3>4
    <3>6. PendingMessage(s, left[1], D2)
      <4> DEFINE k == f + 1
                 w == left[1]
      <4>1. w = [msg |-> w.msg, sent |-> w.sent] /\ w.msg = q[k].msg /\ w.sent = SentBy(q, n, k)
        BY <3>1
      <4>2. PendingMessage(s, q[k], D) /\ k \in DOMAIN q
        BY <1>6, <3>1
      <4>3. Multiple(w.sent) /\ w.sent < job[w.msg].bytes
        BY <3>1, <4>1
      <4> HIDE DEF k, w
      <4>4. ASSUME NEW d \in D2, d.id[1] = w.msg PROVE d.id[2] < w.sent
        <5>1. CASE d \in D
          <6>1. d.id[2] < q[k].sent
            BY <4>1, <4>2, <4>4, <5>1 DEF PendingMessage
          <6>2. IsCut(d)
            BY <5>1 DEF CreditsInv, Accounted, Placed, D
          <6>3. d.id[2] \in Nat
            BY <6>2 DEF IsCut
          <6> QED
            BY <1>9, <4>1, <4>2, <6>1, <6>3
        <5>2. CASE \E i \in 1 .. TriedBy(q, n) : /\ i \in DOMAIN q /\ d.id[1] = q[i].msg
                                                 /\ d.id[2] < SentBy(q, n, i)
          BY <3>4, <4>1, <4>2, <4>4, <5>2
        <5> QED
          BY <1>16, <5>1, <5>2
      <4>5. PendingMessage(s, w, D2)
        BY <1>9, <4>1, <4>2, <4>3, <4>4 DEF PendingMessage
      <4> QED
        BY <4>5 DEF w
    <3>7. ASSUME NEW i \in 2 .. (Len(q) - f) PROVE PendingMessage(s, left[i], D2)
      <4> DEFINE k == f + i
      <4>1. left[i] = q[k] /\ k \in DOMAIN q /\ k \in Nat /\ k > f + 1
        BY <3>1, <3>2
      <4> HIDE DEF k
      <4>2. PendingMessage(s, q[k], D)
        BY <1>6, <4>1
      <4>3. \A j \in 1 .. TriedBy(q, n) : j \in DOMAIN q => q[j].msg # q[k].msg
        BY <3>2, <3>4, <4>1
      <4>4. \A d \in D2 : d.id[1] = q[k].msg => d \in D
        BY <1>16, <4>3
      <4>5. PendingMessage(s, q[k], D2)
        BY <4>2, <4>4 DEF PendingMessage
      <4> QED
        BY <4>1, <4>5
    <3>8. \A i \in DOMAIN left : PendingMessage(s, left[i], D2)
      <4>1. \A i \in DOMAIN left : i = 1 \/ i \in 2 .. (Len(q) - f)
        BY <3>1, <3>2
      <4> QED
        BY <3>6, <3>7, <4>1
    <3>9. \A v \in ToSet(left) : PendingMessage(s, v, D2)
      BY <3>8 DEF ToSet
    <3> QED
      BY <3>5, <3>9
  <2> QED
    BY <2>1, <2>2
<1> HIDE DEF left
<1>24. \A t \in Switch : \A v \in ToSet(pj[t]) : PendingMessage(t, v, D)'
  <2> HIDE DEF pi, pj
  <2>1. \A t \in Switch : \A v \in ToSet(pj[t]) : PendingMessage(t, v, D2)
    BY <1>21, <1>22, <1>23
  <2> QED
    BY <1>20, <2>1
<1>25. \A t \in Switch : \A i, k \in DOMAIN pj[t] : pj[t][i].msg = pj[t][k].msg => i = k
  <2> HIDE DEF pi, pj
  <2> QED
    BY <1>19, <1>21, <1>23
<1>26. FreshInv'
  <2>1. \A d \in DuesOf(InNet, credits)' : d.id[1] \in sent'
    BY <1>4, <1>17 DEF D2, D
  <2>2. \A t \in Switch : \A v \in ToSet(pendingInject'[t]) : PendingMessage(t, v, DuesOf(InNet, credits))'
    BY <1>24 DEF D
  <2>3. \A t \in Switch : \A i, k \in DOMAIN pendingInject'[t] : pendingInject'[t][i].msg = pendingInject'[t][k].msg => i = k
    BY <1>25
  <2>4. sent' \subseteq Message
    BY <1>0, <1>4 DEF FreshInv
  <2> QED
    BY <2>1, <2>2, <2>3, <2>4 DEF FreshInv
<1> QED
  BY <1>13, <1>14, <1>26 DEF CreditsInv

LEMMA InitCredits == Init => CreditsInv
<1> SUFFICES ASSUME Init PROVE CreditsInv
  OBVIOUS
<1>1. /\ payloads = {} /\ credits = {} /\ sent = {} /\ job \in Jobs
      /\ (\A c \in Channel : xbarQueue[c] = <<>> /\ bufQueue[c] = <<>>)
      /\ (\A s \in Switch : pendingInject[s] = <<>>)
  BY DEF Init
<1>2. InNet = {}
  <2>1. Waiting("inXbar", xbarQueue) = {} /\ Waiting("inBuffer", bufQueue) = {}
    BY <1>1, EmptyQueue DEF Waiting
  <2> QED
    BY <1>1, <2>1 DEF InNet
<1>3. DuesOf(InNet, credits) = {}
  BY <1>1, <1>2 DEF DuesOf, Debts
<1>4. ShapeInv
  BY <1>1, EmptyQueue DEF ShapeInv, NoRepeat
<1>5. LedgerInv
  BY DEF Init, LedgerInv
<1>6. FreshInv
  <2>1. \A s \in Switch : ToSet(pendingInject[s]) = {} /\ DOMAIN pendingInject[s] = {}
    BY <1>1, EmptyQueue
  <2> QED
    BY <1>1, <1>3, <2>1 DEF FreshInv
<1>7. Placed(InNet, credits)
  BY <1>2, <1>3 DEF Placed
<1>8. \A a \in Account : Ledger[a] = Capacity(a)
  <2> SUFFICES ASSUME NEW a \in Account PROVE Ledger[a] = Capacity(a)
    OBVIOUS
  <2>1. CASE \E s \in Switch : a = NicAccount(s)
    <3>1. PICK s \in Switch : a = NicAccount(s)
      BY <2>1
    <3>2. Ledger[a] = injCredits[s] /\ a[1] = "nic"
      BY <3>1, LedgerOf DEF NicAccount
    <3> QED
      BY <3>2 DEF Init, Capacity
  <2>2. CASE \E c \in Channel : a = <<"xbar", c>>
    <3>1. PICK c \in Channel : a = <<"xbar", c>>
      BY <2>2
    <3>2. Ledger[a] = xbarCredits[c] /\ a[1] # "nic"
      BY <3>1, LedgerOf
    <3> QED
      BY <3>2 DEF Init, Capacity
  <2>3. CASE \E c \in Channel : a = <<"buffer", c>>
    <3>1. PICK c \in Channel : a = <<"buffer", c>>
      BY <2>3
    <3>2. Ledger[a] = bufCredits[c] /\ a[1] # "nic"
      BY <3>1, LedgerOf
    <3> QED
      BY <3>2 DEF Init, Capacity
  <2> QED
    BY <2>1, <2>2, <2>3, AccountCases
<1>9. Books(Ledger, {})
  <2>1. \A a \in Account : Ledger[a] = Capacity(a) /\ Capacity(a) \in Nat
    BY <1>8, CapacityType
  <2>2. \A a : DuesTo({}, a) = {}
    BY DEF DuesTo
  <2>3. IsFiniteSet(BytesIn({})) /\ BytesOf({}) = 0
    <3>1. BytesIn({}) = {}
      BY DEF BytesIn
    <3> QED
      BY <3>1, FS_EmptySet DEF BytesOf
  <2>4. Ledger = [a \in Account |-> Ledger[a]]
    BY DEF Ledger
  <2> DEFINE L == Ledger
  <2> HIDE DEF L
  <2>5. L \in [Account -> Nat]
    BY <2>1, <2>4 DEF L
  <2> QED
    BY <2>1, <2>2, <2>3, <2>5 DEF Books, Balanced, L
<1> QED
  BY <1>3, <1>4, <1>5, <1>6, <1>7, <1>9 DEF CreditsInv, Accounted

LEMMA SameCredits ==
  ASSUME CreditsInv, UNCHANGED vars
  PROVE  CreditsInv'
<1>1. /\ UNCHANGED <<job, sent, injCredits, pendingInject, xbarCredits, xbarQueue, bufCredits, bufQueue, payloads, credits>>
  BY DEF vars, nicVars, xbarVars, bufVars
<1>2. InNet' = InNet
  BY <1>1 DEF InNet
<1>3. ShapeInv /\ LedgerInv /\ FreshInv /\ Accounted(InNet, credits, Ledger)
  BY DEF CreditsInv
<1>4. Ledger' = Ledger /\ LedgerInv'
  BY <1>1, <1>3, LedgerSame
<1>5. Accounted(InNet, credits, Ledger)'
  BY <1>1, <1>2, <1>3, <1>4, AccountedNext
<1>6. FreshInv'
  <2>1. SameIds(DuesOf(InNet', credits'), DuesOf(InNet, credits))
    BY <1>1, <1>2 DEF SameIds
  <2> QED
    BY <1>1, <1>3, <2>1, FreshNext
<1>7. ShapeInv'
  BY <1>1, <1>3 DEF ShapeInv
<1> QED
  BY <1>4, <1>5, <1>6, <1>7 DEF CreditsInv

LEMMA CreditsStep == IInv /\ CreditsInv /\ [Next]_vars => CreditsInv'
<1> SUFFICES ASSUME IInv, CreditsInv, [Next]_vars PROVE CreditsInv'
  OBVIOUS
<1>1. ASSUME NEW m \in Message, DoSend(m) PROVE CreditsInv'
  BY <1>1, DoSendCredits
<1>2. ASSUME NEW e \in payloads, PacketArrived(e) \/ SwitchPayload(e) \/ BufferPayload(e) PROVE CreditsInv'
  BY <1>2, PacketArrivedCredits, SwitchPayloadCredits, BufferPayloadCredits
<1>3. ASSUME NEW c \in credits, PacketSent(c) \/ XbarCredit(c) \/ BufferCredited(c) PROVE CreditsInv'
  BY <1>3, PacketSentCredits, XbarCreditCredits, BufferCreditedCredits
<1>4. CASE UNCHANGED vars
  BY <1>4, SameCredits
<1> QED
  BY <1>1, <1>2, <1>3, <1>4 DEF Next

-----------------------------------------------------------------------------
(***************************************************************************)
(* What the books say about links and queues.                              *)
(***************************************************************************)
LEMMA ToEqual ==
  ASSUME NEW at, NEW s, NEW port
  PROVE  /\ To(at, s, port).at = at /\ To(at, s, port).sw = s /\ To(at, s, port).port = port
         /\ \A b, t, q : To(at, s, port) = To(b, t, q) => at = b /\ s = t /\ port = q
BY DEF To

\* Those of N that owe u on virtual channel v, and the credits for it.
Debtors(N, u, v) == {x \in N : Creditor(x) = u /\ x.pkt.vc = v}
CreditsFor(C, u, v) == {d \in C : d.vc = v /\ d.to = u}
PacketsOf(X) == {x.pkt : x \in X}

LEMMA DebtorsBytes ==
  ASSUME NEW X
  PROVE  BytesIn(PacketsOf(X)) = BytesIn(Debts(X)) /\ BytesOf(PacketsOf(X)) = BytesOf(Debts(X))
<1> DEFINE P == PacketsOf(X)
           E == Debts(X)
<1>1. \A p \in P : \E x \in X : p = x.pkt
  BY DEF PacketsOf
<1>2. \A d \in E : \E x \in X : d = Debt(x)
  BY DEF Debts
<1>3. \A x \in X : x.pkt \in P /\ Debt(x) \in E /\ Debt(x).id = x.pkt.id /\ Debt(x).bytes = x.pkt.bytes
  BY DebtId DEF PacketsOf, Debts
<1> HIDE DEF P, E
<1>4. \A p \in P : \E d \in E : p.id = d.id /\ p.bytes = d.bytes
  BY <1>1, <1>3
<1>5. \A d \in E : \E p \in P : p.id = d.id /\ p.bytes = d.bytes
  BY <1>2, <1>3
<1>6. BytesIn(P) = BytesIn(E) /\ BytesOf(P) = BytesOf(E)
  BY <1>4, <1>5, SameBytes
<1> QED
  BY <1>6 DEF P, E

LEMMA DueAt ==
  ASSUME NEW d, IsCredit(d), NEW at, NEW s, NEW port, NEW v
  PROVE  AccountOf(d) = <<at, Chan(s, port, v)>> <=> d.vc = v /\ d.to = To(at, s, port)
<1>1. d.to = To(d.to.at, d.to.sw, d.to.port)
  BY DEF IsCredit
<1>2. AccountOf(d) = <<d.to.at, Chan(d.to.sw, d.to.port, d.vc)>>
  BY DEF AccountOf, ChannelOf
<1>3. Chan(d.to.sw, d.to.port, d.vc) = Chan(s, port, v) <=> d.to.sw = s /\ d.to.port = port /\ d.vc = v
  BY DEF Chan
<1> QED
  BY <1>1, <1>2, <1>3, ToEqual

\* An account is what packets in two places owe, and what is on its way back.
StageAccount(u, v) == <<u.at, Chan(u.sw, u.port, v)>>
InTwoPlaces(N, u, v, X, Y) ==
  u = To(u.at, u.sw, u.port) /\ X \cap Y = {} /\ Debtors(N, u, v) = X \cup Y
AddsUp(n, X, Y, K, all) ==
  n \in Nat /\ n + BytesOf(PacketsOf(X)) + BytesOf(PacketsOf(Y)) + BytesOf(K) = all

LEMMA AccountParts ==
  ASSUME JobInv, NEW N, NEW C, NEW L, Accounted(N, C, L),
         NEW u, NEW v, StageAccount(u, v) \in Account, NEW X, NEW Y, InTwoPlaces(N, u, v, X, Y)
  PROVE  LET a == StageAccount(u, v) IN AddsUp(L[a], X, Y, CreditsFor(C, u, v), Capacity(a))
<1> DEFINE a == StageAccount(u, v)
<1>0. /\ u = To(u.at, u.sw, u.port) /\ X \cap Y = {} /\ Debtors(N, u, v) = X \cup Y
      /\ a = <<u.at, Chan(u.sw, u.port, v)>> /\ a \in Account
  BY DEF InTwoPlaces, StageAccount
<1> HIDE DEF a
<1> DEFINE D == DuesOf(N, C)
           K == CreditsFor(C, u, v)
           T == DuesTo(D, a)
<1>1. \A d \in D : IsCredit(d) /\ IsCut(d)
  BY DEF Accounted, Placed
<1>2. X \subseteq N /\ Y \subseteq N
  BY <1>0 DEF Debtors
<1>3. \A x \in N : /\ Debt(x) \in D /\ Debt(x) \notin C /\ Debt(x).to = Creditor(x) /\ Debt(x).vc = x.pkt.vc
                   /\ Debt(x).id = x.pkt.id
  BY DEF DuesOf, Debts, Accounted, Placed, Debt, CreditFor
<1>4. C \subseteq D
  BY DEF DuesOf
<1>5. T = Debts(X) \cup Debts(Y) \cup K
  <2>1. \A d \in D : d \in T <=> d.vc = v /\ d.to = u
    BY <1>0, <1>1, DueAt DEF DuesTo
  <2>2. \A x \in N : Debt(x) \in T <=> x \in X \cup Y
    BY <1>0, <1>3, <2>1 DEF Debtors
  <2>3. \A d \in D : d \in C \/ \E x \in N : d = Debt(x)
    BY DEF DuesOf, Debts
  <2>4. T \subseteq D
    BY DEF DuesTo
  <2>5. \A d \in C : d \in T <=> d \in K
    BY <1>4, <2>1 DEF CreditsFor
  <2>6. K \subseteq C
    BY DEF CreditsFor
  <2> HIDE DEF T, D, K
  <2>7. ASSUME NEW d \in T PROVE d \in Debts(X) \cup Debts(Y) \cup K
    <3>1. CASE d \in C
      BY <2>5, <3>1
    <3>2. CASE \E x \in N : d = Debt(x)
      BY <2>2, <3>2 DEF Debts
    <3> QED
      BY <2>3, <2>4, <3>1, <3>2
  <2>8. ASSUME NEW d \in Debts(X) \cup Debts(Y) \cup K PROVE d \in T
    <3>1. CASE d \in K
      BY <2>5, <2>6, <3>1
    <3>2. CASE \E x \in X \cup Y : d = Debt(x)
      BY <1>2, <2>2, <3>2
    <3> QED
      BY <3>1, <3>2 DEF Debts
  <2> QED
    BY <2>7, <2>8
<1>6. \A x \in X, y \in Y : Debt(x).id # Debt(y).id
  <2> SUFFICES ASSUME NEW x \in X, NEW y \in Y, Debt(x).id = Debt(y).id PROVE FALSE
    OBVIOUS
  <2>1. x \in N /\ y \in N /\ x # y /\ x.pkt.id = y.pkt.id
    BY <1>0, <1>2, <1>3
  <2> QED
    BY <2>1 DEF Accounted, Placed
<1>7. \A x \in X \cup Y, d \in K : Debt(x).id # d.id
  <2> SUFFICES ASSUME NEW x \in X \cup Y, NEW d \in K, Debt(x).id = d.id PROVE FALSE
    OBVIOUS
  <2>1. x \in N /\ d \in C /\ d \in D /\ Debt(x) \in D
    BY <1>2, <1>3, <1>4 DEF CreditsFor
  <2>2. AccountOf(d) = a /\ AccountOf(Debt(x)) = a
    BY <1>5 DEF DuesTo, Debts
  <2>3. Debt(x) = d
    BY <1>1, <2>1, <2>2, SameCredit
  <2> QED
    BY <1>3, <2>1, <2>3
<1>8. Balanced(L[a], T, Capacity(a))
  BY <1>0 DEF Accounted, Books
<1> DEFINE A == Debts(X)
           B == Debts(Y)
<1>9. /\ \A d \in A \cup B \cup K : IsCut(d)
      /\ \A d \in A, e \in B : d.id # e.id
      /\ \A d \in A \cup B, e \in K : d.id # e.id
  <2>1. A \cup B \cup K \subseteq D
    BY <1>5 DEF DuesTo
  <2>2. (\A d \in A : \E x \in X : d = Debt(x)) /\ (\A d \in B : \E x \in Y : d = Debt(x))
    BY DEF Debts
  <2> HIDE DEF A, B, K, D
  <2> QED
    BY <1>1, <1>6, <1>7, <2>1, <2>2
<1>10. BytesOf(PacketsOf(X)) = BytesOf(A) /\ BytesOf(PacketsOf(Y)) = BytesOf(B)
  BY DebtorsBytes
<1> HIDE DEF A, B, K, T, D
<1>11. BytesIn(A) \cap BytesIn(B) = {} /\ BytesIn(A \cup B) \cap BytesIn(K) = {}
  <2>1. \A d \in A \cup B : IsCut(d)
    BY <1>9
  <2> QED
    BY <1>9, <2>1, SetsApart
<1>12. IsFiniteSet(BytesIn(T)) /\ L[a] \in Nat /\ L[a] + BytesOf(T) = Capacity(a)
  BY <1>8 DEF Balanced
<1>13. T = (A \cup B) \cup K
  BY <1>5 DEF A, B
<1>14. /\ BytesIn(T) = BytesIn(A \cup B) \cup BytesIn(K)
       /\ BytesIn(A \cup B) = BytesIn(A) \cup BytesIn(B)
  BY <1>13, BytesUnion
<1>15. IsFiniteSet(BytesIn(A)) /\ IsFiniteSet(BytesIn(B)) /\ IsFiniteSet(BytesIn(K)) /\ IsFiniteSet(BytesIn(A \cup B))
  BY <1>12, <1>14, FS_Subset
<1>16. BytesOf(T) = BytesOf(A \cup B) + BytesOf(K)
  BY <1>11, <1>14, <1>15, DisjointUnion DEF BytesOf
<1>17. BytesOf(A \cup B) = BytesOf(A) + BytesOf(B)
  BY <1>11, <1>14, <1>15, DisjointUnion DEF BytesOf
<1>18. BytesOf(A) \in Nat /\ BytesOf(B) \in Nat /\ BytesOf(K) \in Nat
  BY <1>15, FS_CardinalityType DEF BytesOf
<1>19. L[a] + BytesOf(A) + BytesOf(B) + BytesOf(K) = Capacity(a)
  BY <1>12, <1>16, <1>17, <1>18
<1> QED
  BY <1>10, <1>12, <1>19 DEF K, AddsUp, a

\* Whom the packets owe, by where they are.
LEMMA CreditorOf ==
  ASSUME IInv, CreditsInv, NEW x \in InNet
  PROVE  \/ /\ x \in payloads /\ x.to = To("switch", x.to.sw, x.to.port)
            /\ x.to.sw \in Switch /\ x.to.port \in Port
            /\ Creditor(x) = Upstream(x.to.sw, x.to.port)
         \/ /\ x \in payloads /\ x.to = To("nic", x.to.sw, NodePort) /\ x.to.sw \in Switch
            /\ Creditor(x) = To("buffer", x.to.sw, NodePort)
         \/ /\ x \in payloads /\ x.to = To("buffer", x.to.sw, x.to.port)
            /\ Creditor(x) = To("xbar", x.to.sw, x.to.port)
         \/ /\ \E c \in Channel : \E p \in ToSet(xbarQueue[c]) : x = Spot("inXbar", c, p)
            /\ x.to.sw \in Switch /\ x.pkt.inport \in Port
            /\ Creditor(x) = Upstream(x.to.sw, x.pkt.inport)
         \/ /\ \E c \in Channel : \E p \in ToSet(bufQueue[c]) : x = Spot("inBuffer", c, p) /\ p.vc = c.vc
            /\ Creditor(x) = To("xbar", x.to.sw, x.to.port)
<1>1. CASE x \in payloads
  <2>1. IsPayload(x) /\ GoodPayload(x)
    BY <1>1 DEF CreditsInv, ShapeInv, IInv, PayloadInv
  <2>2. /\ x.to = To(x.to.at, x.to.sw, x.to.port) /\ x.to.at \in {"switch", "buffer", "nic"}
        /\ x.to.at = "nic" => x.to.port = NodePort
    BY <2>1 DEF IsPayload
  <2>3. x.to.sw \in Switch /\ x.to.port \in Port
    BY <2>1 DEF GoodPayload
  <2>4. CASE x.to.at = "switch"
    BY <1>1, <2>2, <2>3, <2>4 DEF Creditor
  <2>5. CASE x.to.at = "nic"
    BY <1>1, <2>2, <2>3, <2>5 DEF Creditor
  <2>6. CASE x.to.at = "buffer"
    BY <1>1, <2>2, <2>3, <2>6 DEF Creditor
  <2> QED
    BY <2>2, <2>4, <2>5, <2>6
<1>2. CASE x \in Waiting("inXbar", xbarQueue)
  <2>1. \E c \in Channel : \E p \in ToSet(xbarQueue[c]) : x = Spot("inXbar", c, p)
    BY <1>2, WaitingMember
  <2>2. PICK c \in Channel : \E p \in ToSet(xbarQueue[c]) : x = Spot("inXbar", c, p)
    BY <2>1
  <2>3. PICK p \in ToSet(xbarQueue[c]) : x = Spot("inXbar", c, p)
    BY <2>2
  <2>4. x.to.at = "inXbar" /\ x.to.sw = c.sw /\ x.pkt = p
    BY <2>3, SpotFacts
  <2>5. c.sw \in Switch /\ p.inport \in Port
    BY <2>2, <2>3 DEF IInv, XbarInv, InCrossbar, IsPacket, Channel
  <2>6. Creditor(x) = Upstream(x.to.sw, x.pkt.inport)
    BY <2>4 DEF Creditor
  <2> QED
    BY <2>1, <2>4, <2>5, <2>6
<1>3. CASE x \in Waiting("inBuffer", bufQueue)
  <2>1. \E c \in Channel : \E p \in ToSet(bufQueue[c]) : x = Spot("inBuffer", c, p)
    BY <1>3, WaitingMember
  <2>2. PICK c \in Channel : \E p \in ToSet(bufQueue[c]) : x = Spot("inBuffer", c, p)
    BY <2>1
  <2>3. PICK p \in ToSet(bufQueue[c]) : x = Spot("inBuffer", c, p)
    BY <2>2
  <2>4. x.to.at = "inBuffer"
    BY <2>3, SpotFacts
  <2>5. p.vc = c.vc
    BY <2>2, <2>3 DEF IInv, BufferInv, InBuffer
  <2>6. Creditor(x) = To("xbar", x.to.sw, x.to.port)
    BY <2>4 DEF Creditor
  <2> QED
    BY <2>3, <2>5, <2>6
<1> QED
  BY <1>1, <1>2, <1>3 DEF InNet

\* Every input port has its own stage at the other end.
LEMMA UpstreamOf ==
  ASSUME NEW s \in Switch, NEW port \in Port
  PROVE  /\ Upstream(s, port).at = (IF port = NodePort THEN "nic" ELSE "buffer")
         /\ port # NodePort => Upstream(s, port).port # NodePort
         /\ \A t \in Switch, q \in Port : Upstream(s, port) = Upstream(t, q) => s = t /\ port = q
<1>1. ASSUME NEW t \in Switch, NEW q \in Port
      PROVE  /\ q = NodePort => Upstream(t, q) = To("nic", t, NodePort)
             /\ q # NodePort => /\ Upstream(t, q) = To("buffer", Neighbor(t, q), Opposite(q))
                                /\ q \in LinkPort /\ Opposite(q) # NodePort
                                /\ Neighbor(Neighbor(t, q), Opposite(q)) = t /\ Opposite(Opposite(q)) = q
  BY PortKinds, OppositePort, ThereAndBack DEF Upstream
<1>2. ASSUME NEW t \in Switch, NEW q \in Port, Upstream(s, port) = Upstream(t, q)
      PROVE  s = t /\ port = q
  <2>1. CASE port = NodePort
    <3>1. q = NodePort
      BY <1>1, <1>2, <2>1, ToEqual
    <3> QED
      BY <1>1, <1>2, <2>1, <3>1, ToEqual
  <2>2. CASE port # NodePort
    <3>1. q # NodePort
      BY <1>1, <1>2, <2>2, ToEqual
    <3>2. Neighbor(s, port) = Neighbor(t, q) /\ Opposite(port) = Opposite(q)
      BY <1>1, <1>2, <2>2, <3>1, ToEqual
    <3> QED
      BY <1>1, <2>2, <3>1, <3>2
  <2> QED
    BY <2>1, <2>2
<1> QED
  BY <1>1, <1>2, ToEqual

LEMMA XbarBalance ==
  ASSUME IInv, CreditsInv, NEW c \in Channel
  PROVE  /\ xbarCredits[c] \in Nat
         /\ xbarCredits[c] + OnLink("buffer", c) + Queued(bufQueue[c]) + CreditsTo("xbar", c) = CreditsPerVC
<1> DEFINE u == To("xbar", c.sw, c.port)
           to == To("buffer", c.sw, c.port)
           v == c.vc
           X == {x \in payloads : x.pkt.vc = v /\ x.to = to}
           Y == Spots("inBuffer", c, ToSet(bufQueue[c]))
           a == <<"xbar", c>>
           N == InNet
           L == Ledger
<1>0. JobInv /\ Accounted(N, credits, L) /\ c = Chan(c.sw, c.port, v) /\ ShapeInv
  BY DEF IInv, CreditsInv, Channel, Chan
<1>1. a \in Account /\ L[a] = xbarCredits[c]
  BY LedgerOf
<1>2. a = <<"xbar", Chan(c.sw, c.port, v)>>
  BY <1>0
<1>3. ASSUME NEW x \in X \cup Y PROVE x \in N /\ Creditor(x) = u /\ x.pkt.vc = v
  <2>1. CASE x \in X
    <3>1. x \in N /\ x.pkt.vc = v /\ x.to.at = "buffer" /\ x.to.sw = c.sw /\ x.to.port = c.port
      BY <2>1, InNetFacts, ToEqual
    <3> QED
      BY <3>1 DEF Creditor
  <2>2. CASE x \in Y
    <3>1. PICK p \in ToSet(bufQueue[c]) : x = Spot("inBuffer", c, p)
      BY <2>2 DEF Spots
    <3>2. x \in N /\ x.pkt = p /\ x.to.at = "inBuffer" /\ x.to.sw = c.sw /\ x.to.port = c.port
      BY <3>1, InNetFacts, SpotFacts
    <3>3. p.vc = c.vc
      BY <3>1 DEF IInv, BufferInv, InBuffer
    <3> QED
      BY <3>2, <3>3 DEF Creditor
  <2> QED
    BY <2>1, <2>2
<1>4. ASSUME NEW x \in N, Creditor(x) = u, x.pkt.vc = v PROVE x \in X \cup Y
  <2>1. CASE x \in payloads /\ x.to = To("buffer", x.to.sw, x.to.port) /\ Creditor(x) = To("xbar", x.to.sw, x.to.port)
    <3>1. x.to.sw = c.sw /\ x.to.port = c.port
      BY <1>4, <2>1, ToEqual
    <3> QED
      BY <1>4, <2>1, <3>1
  <2>2. CASE /\ \E b \in Channel : \E p \in ToSet(bufQueue[b]) : x = Spot("inBuffer", b, p) /\ p.vc = b.vc
             /\ Creditor(x) = To("xbar", x.to.sw, x.to.port)
    <3>1. PICK b \in Channel : \E p \in ToSet(bufQueue[b]) : x = Spot("inBuffer", b, p) /\ p.vc = b.vc
      BY <2>2
    <3>2. PICK p \in ToSet(bufQueue[b]) : x = Spot("inBuffer", b, p) /\ p.vc = b.vc
      BY <3>1
    <3>3. x.to.sw = c.sw /\ x.to.port = c.port
      BY <1>4, <2>2, ToEqual
    <3>4. b.sw = c.sw /\ b.port = c.port /\ b.vc = c.vc
      BY <1>4, <3>2, <3>3, SpotFacts
    <3>5. b = c
      BY <3>4 DEF Channel
    <3> QED
      BY <3>2, <3>5 DEF Spots
  <2>3. Creditor(x).at = "xbar"
    BY <1>4, ToEqual
  <2>4. \A t \in Switch, q \in Port : Upstream(t, q).at # "xbar"
    BY UpstreamOf
  <2>5. \A t : To("buffer", t, NodePort).at # "xbar"
    BY ToEqual
  <2> QED
    BY <2>1, <2>2, <2>3, <2>4, <2>5, CreditorOf
<1>5. X \cap Y = {}
  <2>1. \A x \in X : x.to.at = "buffer"
    BY ToEqual
  <2>2. \A x \in Y : x.to.at = "inBuffer"
    BY SpotFacts DEF Spots
  <2> HIDE DEF X, Y
  <2> QED
    BY <2>1, <2>2
<1>6. PacketsOf(Y) = ToSet(bufQueue[c])
  BY SpotFacts DEF PacketsOf, Spots
<1> HIDE DEF X, Y, N
<1>7. Debtors(N, u, v) = X \cup Y
  BY <1>3, <1>4 DEF Debtors
<1>8. AddsUp(L[a], X, Y, CreditsFor(credits, u, v), CreditsPerVC)
  <2>1. u.at = "xbar" /\ u.sw = c.sw /\ u.port = c.port
    BY ToEqual
  <2>2. StageAccount(u, v) = a /\ InTwoPlaces(N, u, v, X, Y)
    BY <1>2, <1>5, <1>7, <2>1 DEF StageAccount, InTwoPlaces
  <2>3. Capacity(a) = CreditsPerVC
    BY DEF Capacity
  <2> HIDE DEF u, v, a, L
  <2>4. AddsUp(L[StageAccount(u, v)], X, Y, CreditsFor(credits, u, v), Capacity(StageAccount(u, v)))
    BY <1>0, <1>1, <2>2, AccountParts
  <2> QED
    BY <2>2, <2>3, <2>4
<1>9. /\ OnLink("buffer", c) = BytesOf(PacketsOf(X)) /\ CreditsTo("xbar", c) = BytesOf(CreditsFor(credits, u, v))
      /\ Queued(bufQueue[c]) = BytesOf(PacketsOf(Y))
  BY <1>6 DEF OnLink, PacketsOf, X, CreditsTo, CreditsFor, Queued
<1> QED
  BY <1>1, <1>8, <1>9 DEF AddsUp

\* What came in through an input port: on the link and in the crossbar.
OnInput(s, inport, v) == {x \in payloads : x.pkt.vc = v /\ x.to = To("switch", s, inport)}
InQueue(s, inport, v) ==
  {x \in Waiting("inXbar", xbarQueue) : x.to.sw = s /\ x.pkt.inport = inport /\ x.pkt.vc = v}

LEMMA InputBalance ==
  ASSUME IInv, CreditsInv, NEW s \in Switch, NEW inport \in Port, NEW v \in VC,
         NEW u, u = Upstream(s, inport), StageAccount(u, v) \in Account
  PROVE  LET a == StageAccount(u, v)
             Y == InQueue(s, inport, v)
         IN  /\ AddsUp(Ledger[a], OnInput(s, inport, v), Y, CreditsFor(credits, u, v), Capacity(a))
             /\ PacketsOf(Y) = {p \in InXbar(s) : p.inport = inport /\ p.vc = v}
<1> DEFINE X == {x \in payloads : x.pkt.vc = v /\ x.to = To("switch", s, inport)}
           Y == {x \in Waiting("inXbar", xbarQueue) : x.to.sw = s /\ x.pkt.inport = inport /\ x.pkt.vc = v}
           N == InNet
           L == Ledger
<1>0. JobInv /\ Accounted(N, credits, L) /\ ShapeInv
  BY DEF IInv, CreditsInv
<1>1. \A x \in Waiting("inXbar", xbarQueue) : x.to.at = "inXbar"
  BY <1>0, NetApart
<1>2. ASSUME NEW x \in X \cup Y PROVE x \in N /\ Creditor(x) = u /\ x.pkt.vc = v
  <2>1. CASE x \in X
    <3>1. x \in N /\ x.pkt.vc = v /\ x.to.at = "switch" /\ x.to.sw = s /\ x.to.port = inport
      BY <2>1, InNetFacts, ToEqual
    <3> QED
      BY <3>1 DEF Creditor
  <2>2. CASE x \in Y
    <3>1. x \in N /\ x.to.at = "inXbar"
      BY <1>1, <2>2 DEF InNet
    <3> QED
      BY <2>2, <3>1 DEF Creditor
  <2> QED
    BY <2>1, <2>2
<1>3. ASSUME NEW x \in N, Creditor(x) = u, x.pkt.vc = v PROVE x \in X \cup Y
  <2>0. \A t \in Switch, q \in Port : u = Upstream(t, q) => s = t /\ inport = q
    <3>1. \A t \in Switch, q \in Port : Upstream(s, inport) = Upstream(t, q) => s = t /\ inport = q
      BY UpstreamOf, Zenon
    <3> QED
      BY <3>1
  <2>1. CASE /\ x \in payloads /\ x.to = To("switch", x.to.sw, x.to.port)
             /\ x.to.sw \in Switch /\ x.to.port \in Port /\ Creditor(x) = Upstream(x.to.sw, x.to.port)
    <3>1. x.to.sw = s /\ x.to.port = inport
      BY <1>3, <2>0, <2>1
    <3> QED
      BY <1>3, <2>1, <3>1
  <2>2. CASE /\ \E c \in Channel : \E p \in ToSet(xbarQueue[c]) : x = Spot("inXbar", c, p)
             /\ x.to.sw \in Switch /\ x.pkt.inport \in Port
             /\ Creditor(x) = Upstream(x.to.sw, x.pkt.inport)
    <3>1. x.to.sw = s /\ x.pkt.inport = inport
      BY <1>3, <2>2, UpstreamOf
    <3>2. x \in Waiting("inXbar", xbarQueue)
      BY <2>2, WaitingMember
    <3> QED
      BY <1>3, <3>1, <3>2
  <2>3. u.at # "xbar" /\ (u.at = "buffer" => u.port # NodePort)
    BY UpstreamOf
  <2>4. \A t, q : To("xbar", t, q).at = "xbar" /\ To("buffer", t, NodePort).at = "buffer" /\ To("buffer", t, NodePort).port = NodePort
    BY ToEqual
  <2> QED
    BY <1>3, <2>1, <2>2, <2>3, <2>4, CreditorOf
<1>4. X \cap Y = {}
  <2>1. \A x \in X : x.to.at = "switch"
    BY ToEqual
  <2>2. \A x \in Y : x.to.at = "inXbar"
    BY <1>1
  <2> HIDE DEF X, Y
  <2> QED
    BY <2>1, <2>2
<1>5. PacketsOf(Y) = {p \in InXbar(s) : p.inport = inport /\ p.vc = v}
  <2> DEFINE W == Waiting("inXbar", xbarQueue)
             Z == InXbar(s)
  <2>1. ASSUME NEW x \in W, x.to.sw = s PROVE x.pkt \in Z
    <3>1. PICK c \in Channel : \E p \in ToSet(xbarQueue[c]) : x = Spot("inXbar", c, p)
      BY WaitingMember
    <3>2. PICK p \in ToSet(xbarQueue[c]) : x = Spot("inXbar", c, p)
      BY <3>1
    <3>3. c.sw = s /\ x.pkt = p
      BY <2>1, <3>2, SpotFacts
    <3>4. c = Chan(s, c.port, c.vc) /\ c.port \in Port /\ c.vc \in VC
      BY <3>3 DEF Channel, Chan
    <3> QED
      BY <3>2, <3>3, <3>4 DEF InXbar
  <2>2. ASSUME NEW p \in Z PROVE \E x \in W : x.to.sw = s /\ x.pkt = p
    <3>0. \E port \in Port, vc \in VC : p \in ToSet(xbarQueue[Chan(s, port, vc)])
      BY DEF InXbar
    <3>1. \A port \in Port, vc \in VC : Chan(s, port, vc) \in Channel /\ Chan(s, port, vc).sw = s
      BY DEF Channel, Chan
    <3>2. PICK c \in Channel : c.sw = s /\ p \in ToSet(xbarQueue[c])
      BY <3>0, <3>1
    <3>3. Spot("inXbar", c, p) \in W
      BY <3>2, WaitingMember
    <3> QED
      BY <3>2, <3>3, SpotFacts
  <2> HIDE DEF W, Z
  <2>3. Y = {x \in W : x.to.sw = s /\ x.pkt.inport = inport /\ x.pkt.vc = v}
    BY DEF W
  <2> HIDE DEF Y
  <2>4. PacketsOf(Y) = {p \in Z : p.inport = inport /\ p.vc = v}
    BY <2>1, <2>2, <2>3 DEF PacketsOf
  <2> QED
    BY <2>4 DEF Z
<1>6. u = To(u.at, u.sw, u.port)
  BY ToEqual DEF Upstream
<1> HIDE DEF X, Y, N, L
<1>7. InTwoPlaces(N, u, v, X, Y)
  BY <1>2, <1>3, <1>4, <1>6 DEF Debtors, InTwoPlaces
<1>8. AddsUp(L[StageAccount(u, v)], X, Y, CreditsFor(credits, u, v), Capacity(StageAccount(u, v)))
  BY <1>0, <1>7, AccountParts
<1> QED
  BY <1>5, <1>8 DEF X, Y, L, OnInput, InQueue

LEMMA LinkBalance ==
  ASSUME IInv, CreditsInv, NEW s \in Switch, NEW inport \in LinkPort, NEW v \in VC
  PROVE  LET c == Chan(Neighbor(s, inport), Opposite(inport), v) IN
         bufCredits[c] + OnLink("switch", Chan(s, inport, v)) + CameFrom(InXbar(s), inport, v)
           + CreditsTo("buffer", c) = CreditsPerVC
<1> DEFINE c == Chan(Neighbor(s, inport), Opposite(inport), v)
           u == Upstream(s, inport)
           X == OnInput(s, inport, v)
           Y == InQueue(s, inport, v)
           a == <<"buffer", c>>
<1>1. u = To("buffer", Neighbor(s, inport), Opposite(inport)) /\ inport \in Port
  BY PortKinds DEF Upstream
<1>2. u.at = "buffer" /\ u.sw = Neighbor(s, inport) /\ u.port = Opposite(inport)
  BY <1>1, ToEqual
<1>3. c \in Channel
  BY NeighborMoves, OppositePort, PortKinds DEF Channel, Chan
<1>4. StageAccount(u, v) = a /\ a \in Account /\ Ledger[a] = bufCredits[c] /\ Capacity(a) = CreditsPerVC
  BY <1>2, <1>3, LedgerOf DEF StageAccount, Capacity
<1> HIDE DEF u
<1>5. /\ AddsUp(Ledger[a], X, Y, CreditsFor(credits, u, v), Capacity(a))
      /\ PacketsOf(Y) = {p \in InXbar(s) : p.inport = inport /\ p.vc = v}
  <2> HIDE DEF a, X, Y
  <2>1. u = Upstream(s, inport) /\ StageAccount(u, v) \in Account
    BY <1>4 DEF u
  <2>2. LET b == StageAccount(u, v) IN
        /\ AddsUp(Ledger[b], OnInput(s, inport, v), InQueue(s, inport, v), CreditsFor(credits, u, v), Capacity(b))
        /\ PacketsOf(InQueue(s, inport, v)) = {p \in InXbar(s) : p.inport = inport /\ p.vc = v}
    BY <1>1, <2>1, InputBalance
  <2> QED
    BY <1>4, <2>2 DEF X, Y
<1>6. OnLink("switch", Chan(s, inport, v)) = BytesOf(PacketsOf(X))
  BY DEF OnLink, PacketsOf, Chan, OnInput
<1>7. CameFrom(InXbar(s), inport, v) = BytesOf(PacketsOf(Y))
  BY <1>5 DEF CameFrom
<1>8. CreditsTo("buffer", c) = BytesOf(CreditsFor(credits, u, v))
  BY <1>1 DEF CreditsTo, CreditsFor, Chan
<1> HIDE DEF X, Y, c, a
<1>9. bufCredits[c] + OnLink("switch", Chan(s, inport, v)) + CameFrom(InXbar(s), inport, v)
        + CreditsTo("buffer", c) = CreditsPerVC
  BY <1>4, <1>5, <1>6, <1>7, <1>8 DEF AddsUp
<1> QED
  BY <1>9 DEF c

LEMMA InjectionBalance ==
  ASSUME IInv, CreditsInv, NEW s \in Switch
  PROVE  LET c == Chan(s, NodePort, 0) IN
         /\ injCredits[s] \in Nat
         /\ injCredits[s] + OnLink("switch", c) + CameFrom(InXbar(s), NodePort, 0) + CreditsTo("nic", c) = InjCredits
<1> DEFINE c == Chan(s, NodePort, 0)
           u == Upstream(s, NodePort)
           X == OnInput(s, NodePort, 0)
           Y == InQueue(s, NodePort, 0)
           a == NicAccount(s)
<1>1. u = To("nic", s, NodePort) /\ NodePort \in Port /\ 0 \in VC
  BY PortKinds DEF Upstream, VC
<1>2. u.at = "nic" /\ u.sw = s /\ u.port = NodePort
  BY <1>1, ToEqual
<1>4. StageAccount(u, 0) = a /\ a \in Account /\ Ledger[a] = injCredits[s] /\ Capacity(a) = InjCredits
  BY <1>2, LedgerOf DEF StageAccount, Capacity, NicAccount
<1> HIDE DEF u
<1>5. /\ AddsUp(Ledger[a], X, Y, CreditsFor(credits, u, 0), Capacity(a))
      /\ PacketsOf(Y) = {p \in InXbar(s) : p.inport = NodePort /\ p.vc = 0}
  <2> HIDE DEF a, X, Y
  <2>1. u = Upstream(s, NodePort) /\ StageAccount(u, 0) \in Account
    BY <1>4 DEF u
  <2>2. LET b == StageAccount(u, 0) IN
        /\ AddsUp(Ledger[b], OnInput(s, NodePort, 0), InQueue(s, NodePort, 0), CreditsFor(credits, u, 0), Capacity(b))
        /\ PacketsOf(InQueue(s, NodePort, 0)) = {p \in InXbar(s) : p.inport = NodePort /\ p.vc = 0}
    BY <1>1, <2>1, InputBalance
  <2> QED
    BY <1>4, <2>2 DEF X, Y
<1>6. OnLink("switch", c) = BytesOf(PacketsOf(X))
  BY DEF OnLink, PacketsOf, Chan, OnInput
<1>7. CameFrom(InXbar(s), NodePort, 0) = BytesOf(PacketsOf(Y))
  BY <1>5 DEF CameFrom
<1>8. CreditsTo("nic", c) = BytesOf(CreditsFor(credits, u, 0))
  BY <1>1 DEF CreditsTo, CreditsFor, Chan
<1> HIDE DEF X, Y, c, a
<1>9. /\ injCredits[s] \in Nat
      /\ injCredits[s] + OnLink("switch", c) + CameFrom(InXbar(s), NodePort, 0) + CreditsTo("nic", c) = InjCredits
  BY <1>4, <1>5, <1>6, <1>7, <1>8 DEF AddsUp
<1> QED
  BY <1>9 DEF c

LEMMA EjectionBalance ==
  ASSUME IInv, CreditsInv, NEW s \in Switch, NEW v \in VC
  PROVE  LET c == Chan(s, NodePort, v) IN
         bufCredits[c] + OnLink("nic", c) + CreditsTo("buffer", c) = CreditsPerVC
<1> DEFINE c == Chan(s, NodePort, v)
           u == To("buffer", s, NodePort)
           X == {x \in payloads : x.pkt.vc = v /\ x.to = To("nic", s, NodePort)}
           a == <<"buffer", c>>
           N == InNet
           L == Ledger
<1>0. JobInv /\ Accounted(N, credits, L)
  BY DEF IInv, CreditsInv
<1>1. c \in Channel /\ u.at = "buffer" /\ u.sw = s /\ u.port = NodePort /\ u = To(u.at, u.sw, u.port)
  BY PortKinds, ToEqual DEF Channel, Chan
<1>2. StageAccount(u, v) = a /\ a \in Account /\ Ledger[a] = bufCredits[c] /\ Capacity(a) = CreditsPerVC
  BY <1>1, LedgerOf DEF StageAccount, Capacity
<1>3. ASSUME NEW x \in X PROVE x \in N /\ Creditor(x) = u /\ x.pkt.vc = v
  <2>1. x \in N /\ x.pkt.vc = v /\ x.to.at = "nic" /\ x.to.sw = s
    BY InNetFacts, ToEqual
  <2> QED
    BY <2>1 DEF Creditor
<1>4. ASSUME NEW x \in N, Creditor(x) = u, x.pkt.vc = v PROVE x \in X
  <2>1. CASE /\ x \in payloads /\ x.to = To("nic", x.to.sw, NodePort)
             /\ Creditor(x) = To("buffer", x.to.sw, NodePort)
    <3>1. x.to.sw = s
      BY <1>4, <2>1, ToEqual
    <3> QED
      BY <1>4, <2>1, <3>1
  <2>2. \A t \in Switch, q \in Port : Upstream(t, q).at = "buffer" => Upstream(t, q).port # NodePort
    BY UpstreamOf
  <2>3. \A t, q : To("xbar", t, q).at = "xbar"
    BY ToEqual
  <2> QED
    BY <1>1, <1>4, <2>1, <2>2, <2>3, CreditorOf
<1>5. OnLink("nic", c) = BytesOf(PacketsOf(X))
  BY DEF OnLink, PacketsOf, Chan, OnInput
<1>6. CreditsTo("buffer", c) = BytesOf(CreditsFor(credits, u, v))
  BY DEF CreditsTo, CreditsFor, Chan
<1>7. BytesOf(PacketsOf({})) = 0
  <2>1. BytesIn(PacketsOf({})) = {}
    BY DEF BytesIn, PacketsOf
  <2> QED
    BY <2>1, FS_EmptySet DEF BytesOf
<1> HIDE DEF X, N, L, u, a, c
<1>8. InTwoPlaces(N, u, v, X, {})
  BY <1>1, <1>3, <1>4 DEF Debtors, InTwoPlaces
<1>9. AddsUp(L[a], X, {}, CreditsFor(credits, u, v), Capacity(a))
  BY <1>0, <1>2, <1>8, AccountParts
<1>10. bufCredits[c] \in Nat /\ BytesOf(PacketsOf(X)) \in Nat
  <2>1. bufCredits[c] \in Nat
    BY <1>2, <1>9 DEF AddsUp, L
  <2>2. IsFiniteSet(BytesIn(PacketsOf(X)))
    <3>1. Debts(X) \subseteq DuesTo(DuesOf(N, credits), a)
      <4>1. \A x \in X : Debt(x) \in DuesOf(N, credits) /\ IsCredit(Debt(x)) /\ Debt(x).to = u /\ Debt(x).vc = v
        <5>1. \A x : Debt(x).to = Creditor(x) /\ Debt(x).vc = x.pkt.vc
          BY DEF Debt, CreditFor
        <5> QED
          BY <1>0, <1>3, <5>1, PlacedFacts DEF Accounted
      <4>2. \A x \in X : AccountOf(Debt(x)) = a
        BY <1>2, <4>1 DEF AccountOf, ChannelOf, StageAccount
      <4> QED
        BY <4>1, <4>2 DEF Debts, DuesTo
    <3>2. BytesIn(Debts(X)) \subseteq BytesIn(DuesTo(DuesOf(N, credits), a))
      BY <3>1 DEF BytesIn
    <3>3. IsFiniteSet(BytesIn(DuesTo(DuesOf(N, credits), a)))
      BY <1>0, <1>2 DEF Accounted, Books, Balanced
    <3>4. IsFiniteSet(BytesIn(Debts(X)))
      BY <3>2, <3>3, FS_Subset
    <3> QED
      BY <3>4, DebtorsBytes
  <2> QED
    BY <2>1, <2>2, FS_CardinalityType DEF BytesOf
<1>11. bufCredits[c] + OnLink("nic", c) + CreditsTo("buffer", c) = CreditsPerVC
  BY <1>2, <1>5, <1>6, <1>7, <1>9, <1>10 DEF AddsUp, L
<1> QED
  BY <1>11 DEF c

LEMMA ConservedByInvariant == IInv /\ CreditsInv => CreditsConserved
<1> SUFFICES ASSUME IInv, CreditsInv PROVE CreditsConserved
  OBVIOUS
<1>1. XbarConserved
  BY XbarBalance DEF XbarConserved
<1>2. LinkConserved
  BY LinkBalance DEF LinkConserved
<1>3. EjectionConserved
  BY EjectionBalance DEF EjectionConserved
<1>4. InjectionConserved /\ \A s \in Switch : injCredits[s] \in Nat
  BY InjectionBalance DEF InjectionConserved
<1>5. \A c \in Channel : xbarCredits[c] \in Nat /\ bufCredits[c] \in Nat
  <2>1. Ledger \in [Account -> Nat]
    BY DEF CreditsInv, Accounted, Books
  <2> DEFINE L == Ledger
  <2>2. \A c \in Channel : /\ <<"xbar", c>> \in Account /\ L[<<"xbar", c>>] = xbarCredits[c]
                           /\ <<"buffer", c>> \in Account /\ L[<<"buffer", c>>] = bufCredits[c]
    BY LedgerOf
  <2>3. L \in [Account -> Nat]
    BY <2>1
  <2> HIDE DEF L
  <2> QED
    BY <2>2, <2>3
<1> QED
  BY <1>1, <1>2, <1>3, <1>4, <1>5 DEF CreditsConserved

-----------------------------------------------------------------------------
(***************************************************************************)
(* Whoever waits is woken.                                                 *)
(***************************************************************************)
XbarWakes ==
  \A c \in Channel : \A k \in DOMAIN xbarQueue[c] :
    xbarQueue[c][k].bytes <= CreditsPerVC => xbarCredits[c] < CreditsPerVC
BufferWakes == \A c \in Channel : \A k \in DOMAIN bufQueue[c] : bufQueue[c][k].bytes > bufCredits[c]
NicWakes == \A s \in Switch : pendingInject[s] # <<>> => injCredits[s] < Mtu

LEMMA WakeupParts == NoLostWakeup <=> XbarWakes /\ BufferWakes /\ NicWakes
BY DEF NoLostWakeup, XbarWakes, BufferWakes, NicWakes

LEMMA Room == Mtu \in Nat /\ CreditsPerVC \in Nat
<1>1. CreditsPerVC = Capacity(<<"xbar">>)
  BY DEF Capacity
<1>2. CreditsPerVC \in Nat
  BY <1>1, CapacityType
<1> QED
  BY <1>2, PiscesAssumption

\* What the counters and the packets can be.
LEMMA Sizes ==
  ASSUME IInv, CreditsInv
  PROVE  /\ \A c \in Channel : xbarCredits[c] \in Nat /\ bufCredits[c] \in Nat
         /\ \A s \in Switch : injCredits[s] \in Nat
         /\ \A x \in InNet : x.pkt.bytes \in Nat /\ x.pkt.bytes >= 1 /\ x.pkt.bytes <= Mtu
<1>1. JobInv /\ Ledger \in [Account -> Nat]
  BY DEF IInv, CreditsInv, Accounted, Books
<1>2. /\ \A c \in Channel : xbarCredits[c] \in Nat /\ bufCredits[c] \in Nat
      /\ \A s \in Switch : injCredits[s] \in Nat
  <2> DEFINE L == Ledger
  <2>1. /\ \A c \in Channel : /\ <<"xbar", c>> \in Account /\ L[<<"xbar", c>>] = xbarCredits[c]
                              /\ <<"buffer", c>> \in Account /\ L[<<"buffer", c>>] = bufCredits[c]
        /\ \A s \in Switch : NicAccount(s) \in Account /\ L[NicAccount(s)] = injCredits[s]
    BY LedgerOf
  <2>2. L \in [Account -> Nat]
    BY <1>1
  <2> HIDE DEF L
  <2> QED
    BY <2>1, <2>2
<1>3. ASSUME NEW x \in InNet
      PROVE  x.pkt.bytes \in Nat /\ x.pkt.bytes >= 1 /\ x.pkt.bytes <= Mtu
  <2>1. IsCut(Debt(x))
    BY InNetFacts
  <2>2. Debt(x).bytes \in Nat /\ Debt(x).bytes >= 1 /\ Debt(x).bytes <= Mtu
    BY <1>1, <2>1, CutSize
  <2> QED
    BY <2>2, DebtId
<1> QED
  BY <1>2, <1>3

LEMMA WaitingSizes ==
  ASSUME IInv, CreditsInv, NEW c \in Channel
  PROVE  /\ \A k \in DOMAIN xbarQueue[c] :
              xbarQueue[c][k].bytes \in Nat /\ xbarQueue[c][k].bytes >= 1 /\ xbarQueue[c][k].bytes <= Mtu
         /\ \A k \in DOMAIN bufQueue[c] :
              bufQueue[c][k].bytes \in Nat /\ bufQueue[c][k].bytes >= 1 /\ bufQueue[c][k].bytes <= Mtu
<1>1. /\ \A p \in ToSet(xbarQueue[c]) : Spot("inXbar", c, p) \in InNet /\ Spot("inXbar", c, p).pkt = p
      /\ \A p \in ToSet(bufQueue[c]) : Spot("inBuffer", c, p) \in InNet /\ Spot("inBuffer", c, p).pkt = p
  BY InNetFacts, SpotFacts
<1>2. /\ \A p \in ToSet(xbarQueue[c]) : p.bytes \in Nat /\ p.bytes >= 1 /\ p.bytes <= Mtu
      /\ \A p \in ToSet(bufQueue[c]) : p.bytes \in Nat /\ p.bytes >= 1 /\ p.bytes <= Mtu
  BY <1>1, Sizes
<1>3. /\ \A k \in DOMAIN xbarQueue[c] : xbarQueue[c][k] \in ToSet(xbarQueue[c])
      /\ \A k \in DOMAIN bufQueue[c] : bufQueue[c][k] \in ToSet(bufQueue[c])
  BY DEF ToSet
<1> QED
  BY <1>2, <1>3

\* If no packet of a queue fits, all are too large.
LEMMA NothingFits ==
  ASSUME NEW q, IsQueue(q), NEW n \in Nat, \A k \in DOMAIN q : q[k].bytes \in Nat, FirstFit(q, n) = {}
  PROVE  \A k \in DOMAIN q : q[k].bytes > n
<1> DEFINE T == {k \in DOMAIN q : q[k].bytes <= n}
<1>1. DOMAIN q = 1 .. Len(q) /\ Len(q) \in Nat
  BY DEF IsQueue
<1>2. T = {}
  <2> SUFFICES ASSUME T # {} PROVE FALSE
    OBVIOUS
  <2>1. T \subseteq Nat
    BY <1>1
  <2> HIDE DEF T
  <2>2. PICK k \in T : \A y \in T : k <= y
    BY <2>1, LeastElement
  <2>3. k \in DOMAIN q /\ q[k].bytes <= n /\ k \in 1 .. Len(q)
    BY <1>1, <2>2 DEF T
  <2>4. \A i \in 1 .. (k - 1) : q[i].bytes > n
    <3> SUFFICES ASSUME NEW i \in 1 .. (k - 1) PROVE q[i].bytes > n
      OBVIOUS
    <3>1. i \in DOMAIN q /\ i \in Nat /\ i < k
      BY <1>1, <2>3
    <3>2. i \notin T
      BY <2>2, <2>3, <3>1
    <3>3. ~(q[i].bytes <= n) /\ q[i].bytes \in Nat
      BY <3>1, <3>2 DEF T
    <3> QED
      BY <3>3
  <2>5. k \in FirstFit(q, n)
    BY <2>3, <2>4 DEF FirstFit
  <2> QED
    BY <2>5
<1>3. \A k \in DOMAIN q : ~(q[k].bytes <= n) /\ q[k].bytes \in Nat
  BY <1>2
<1> QED
  BY <1>3

LEMMA SwitchPayloadWakes ==
  ASSUME IInv, CreditsInv, XbarWakes, NEW e \in payloads, SwitchPayload(e)
  PROVE  XbarWakes'
<1> DEFINE s == e.to.sw
           p == Routed(e)
           c == Needed(s, p)
<1>1. p.bytes \in Nat /\ p.bytes >= 1 /\ p.bytes <= Mtu
  <2>1. e \in InNet
    BY InNetFacts
  <2>2. p.bytes = e.pkt.bytes
    <3>1. GoodPayload(e)
      BY DEF IInv, PayloadInv
    <3> QED
      BY <3>1, RoutedPacket DEF GoodPayload
  <2> QED
    BY <2>1, <2>2, Sizes
<1>2. /\ \A b \in Channel : xbarCredits[b] \in Nat
      /\ xbarCredits = [b \in Channel |-> xbarCredits[b]] /\ xbarQueue = [b \in Channel |-> xbarQueue[b]]
  BY Sizes DEF CreditsInv, LedgerInv, IInv, XbarInv
<1> HIDE DEF p, c
<1>3. CASE /\ xbarCredits' = [xbarCredits EXCEPT ![c] = @ - p.bytes]
           /\ UNCHANGED xbarQueue
  <2>1. \A b \in Channel : xbarCredits'[b] <= xbarCredits[b] /\ xbarCredits'[b] \in Int
    BY <1>1, <1>2, <1>3
  <2> QED
    BY <1>2, <1>3, <2>1, Room DEF XbarWakes
<1>4. CASE /\ xbarCredits[c] < p.bytes
           /\ xbarQueue' = [xbarQueue EXCEPT ![c] = Append(@, p)]
           /\ UNCHANGED xbarCredits
  <2> SUFFICES ASSUME NEW b \in Channel, NEW k \in DOMAIN xbarQueue'[b],
                      xbarQueue'[b][k].bytes <= CreditsPerVC
               PROVE  xbarCredits'[b] < CreditsPerVC
    BY DEF XbarWakes
  <2>1. CASE b # c
    <3>1. xbarQueue'[b] = xbarQueue[b]
      BY <1>2, <1>4, <2>1
    <3> QED
      BY <1>4, <3>1 DEF XbarWakes
  <2>2. CASE b = c
    <3> DEFINE q == xbarQueue[b]
    <3>1. xbarQueue'[b] = Append(q, p) /\ IsQueue(q)
      BY <1>2, <1>4, <2>2 DEF IInv, XbarInv
    <3>2. Append(q, p)[k] = p \/ (k \in DOMAIN q /\ Append(q, p)[k] = q[k])
      BY <3>1 DEF IsQueue
    <3> HIDE DEF q
    <3>3. CASE Append(q, p)[k] = p
      BY <1>1, <1>2, <1>4, <2>2, <3>1, <3>3, Room
    <3>4. CASE k \in DOMAIN q /\ Append(q, p)[k] = q[k]
      BY <1>4, <3>1, <3>4 DEF q, XbarWakes
    <3> QED
      BY <3>2, <3>3, <3>4
  <2> QED
    BY <2>1, <2>2
<1> QED
  BY <1>3, <1>4 DEF SwitchPayload, s, p, c

LEMMA XbarCreditWakes ==
  ASSUME IInv, CreditsInv, XbarWakes, NEW cr \in credits, XbarCredit(cr)
  PROVE  XbarWakes'
<1> DEFINE s == cr.to.sw
           c == Chan(s, cr.to.port, cr.vc)
           n == xbarCredits[c] + cr.bytes
           q == xbarQueue[c]
<1>1. c \in Channel /\ n \in Nat /\ n <= CreditsPerVC
  <2>1. "xbar" \in {"xbar", "buffer"} /\ cr.to.at = "xbar"
    BY DEF XbarCredit
  <2> DEFINE a == <<cr.to.at, c>>
             M == [Ledger EXCEPT ![a] = @ + cr.bytes]
  <2>2. /\ c \in Channel /\ M[a] = Ledger[a] + cr.bytes /\ M[a] \in Nat /\ M[a] <= CreditsPerVC
    BY <2>1, CreditTaken
  <2>3. Ledger[a] = xbarCredits[c]
    BY <2>1, <2>2, LedgerOf
  <2> HIDE DEF M, a
  <2> QED
    BY <2>2, <2>3
<1>2. IsQueue(q) /\ xbarCredits = [b \in Channel |-> xbarCredits[b]] /\ xbarQueue = [b \in Channel |-> xbarQueue[b]]
  BY <1>1 DEF CreditsInv, LedgerInv, IInv, XbarInv
<1>3. \A k \in DOMAIN q : q[k].bytes \in Nat /\ q[k].bytes >= 1 /\ q[k].bytes <= Mtu
  BY <1>1, WaitingSizes
<1>4. ASSUME NEW v, xbarCredits' = [xbarCredits EXCEPT ![c] = v],
             \A b \in Channel : b # c => xbarQueue'[b] = xbarQueue[b],
             \A k \in DOMAIN xbarQueue'[c] : xbarQueue'[c][k].bytes <= CreditsPerVC => v < CreditsPerVC
      PROVE  XbarWakes'
  <2> HIDE DEF c
  <2>1. \A b \in Channel : xbarCredits'[b] = IF b = c THEN v ELSE xbarCredits[b]
    BY <1>2, <1>4
  <2> QED
    BY <1>1, <1>4, <2>1 DEF XbarWakes
<1>5. CASE /\ FirstFit(q, n) = {} /\ xbarCredits' = [xbarCredits EXCEPT ![c] = n] /\ UNCHANGED xbarQueue
  <2>1. \A k \in DOMAIN q : q[k].bytes <= CreditsPerVC => n < CreditsPerVC
    <3> HIDE DEF q, n
    <3>1. \A k \in DOMAIN q : q[k].bytes > n
      BY <1>1, <1>2, <1>3, <1>5, NothingFits
    <3> QED
      BY <1>1, <1>3, <3>1, Room
  <2> HIDE DEF n
  <2> QED
    BY <1>4, <1>5, <2>1
<1>6. CASE \E k \in FirstFit(q, n) :
             /\ xbarCredits' = [xbarCredits EXCEPT ![c] = n - q[k].bytes]
             /\ xbarQueue' = [xbarQueue EXCEPT ![c] = RemoveAt(@, k)]
  <2>1. PICK k \in FirstFit(q, n) :
             /\ xbarCredits' = [xbarCredits EXCEPT ![c] = n - q[k].bytes]
             /\ xbarQueue' = [xbarQueue EXCEPT ![c] = RemoveAt(@, k)]
    BY <1>6
  <2>2. k \in DOMAIN q
    BY DEF FirstFit
  <2> DEFINE v == n - q[k].bytes
  <2>3. v < CreditsPerVC
    <3> HIDE DEF q, n
    <3> QED
      BY <1>1, <1>3, <2>2, Room
  <2>4. \A b \in Channel : b # c => xbarQueue'[b] = xbarQueue[b]
    <3> HIDE DEF c
    <3> QED
      BY <1>2, <2>1
  <2>5. xbarCredits' = [xbarCredits EXCEPT ![c] = v]
    BY <2>1
  <2> HIDE DEF v
  <2> QED
    BY <1>4, <2>3, <2>4, <2>5
<1> QED
  BY <1>5, <1>6 DEF XbarCredit

LEMMA BufferPayloadWakes ==
  ASSUME IInv, CreditsInv, BufferWakes, NEW e \in payloads, BufferPayload(e)
  PROVE  BufferWakes'
<1> SUFFICES \A b \in Channel : \A k \in DOMAIN bufQueue'[b] : bufQueue'[b][k].bytes > bufCredits'[b]
  BY DEF BufferWakes
<1> DEFINE c == Chan(e.to.sw, e.to.port, e.pkt.vc)
           p == e.pkt
<1>1. p.bytes \in Nat /\ p.bytes >= 1 /\ p.bytes <= Mtu
  BY InNetFacts, Sizes
<1>2. /\ \A b \in Channel : bufCredits[b] \in Nat
      /\ bufCredits = [b \in Channel |-> bufCredits[b]] /\ bufQueue = [b \in Channel |-> bufQueue[b]]
  BY Sizes DEF CreditsInv, LedgerInv, IInv, BufferInv
<1>3. \A b \in Channel : \A k \in DOMAIN bufQueue[b] : bufQueue[b][k].bytes > bufCredits[b]
  BY DEF BufferWakes
<1>4. \A b \in Channel : \A k \in DOMAIN bufQueue[b] : bufQueue[b][k].bytes \in Nat
  BY WaitingSizes
<1> HIDE DEF c, p
<1>5. CASE /\ bufCredits' = [bufCredits EXCEPT ![c] = @ - p.bytes]
           /\ UNCHANGED bufQueue
  <2>1. \A b \in Channel : bufCredits'[b] <= bufCredits[b] /\ bufCredits'[b] \in Int
    BY <1>1, <1>2, <1>5
  <2> QED
    BY <1>2, <1>3, <1>4, <1>5, <2>1
<1>6. CASE /\ bufCredits[c] < p.bytes
           /\ bufQueue' = [bufQueue EXCEPT ![c] = Append(@, p)]
           /\ UNCHANGED bufCredits
  <2> SUFFICES ASSUME NEW b \in Channel, NEW k \in DOMAIN bufQueue'[b]
               PROVE  bufQueue'[b][k].bytes > bufCredits'[b]
    OBVIOUS
  <2>1. CASE b # c
    <3>1. bufQueue'[b] = bufQueue[b]
      BY <1>2, <1>6, <2>1
    <3> QED
      BY <1>3, <1>6, <3>1
  <2>2. CASE b = c
    <3> DEFINE q == bufQueue[b]
    <3>1. bufQueue'[b] = Append(q, p) /\ IsQueue(q)
      BY <1>2, <1>6, <2>2 DEF IInv, BufferInv
    <3>2. Append(q, p)[k] = p \/ (k \in DOMAIN q /\ Append(q, p)[k] = q[k])
      BY <3>1 DEF IsQueue
    <3> HIDE DEF q
    <3>3. CASE Append(q, p)[k] = p
      BY <1>1, <1>2, <1>6, <2>2, <3>1, <3>3
    <3>4. CASE k \in DOMAIN q /\ Append(q, p)[k] = q[k]
      BY <1>3, <1>6, <3>1, <3>4 DEF q
    <3> QED
      BY <3>2, <3>3, <3>4
  <2> QED
    BY <2>1, <2>2
<1> QED
  BY <1>5, <1>6 DEF BufferPayload, c, p

LEMMA BufferCreditedWakes ==
  ASSUME IInv, CreditsInv, BufferWakes, NEW cr \in credits, BufferCredited(cr)
  PROVE  BufferWakes'
<1> DEFINE c == Chan(cr.to.sw, cr.to.port, cr.vc)
           n == bufCredits[c] + cr.bytes
           q == bufQueue[c]
<1>1. c \in Channel /\ n \in Nat /\ JobInv
  <2>1. "buffer" \in {"xbar", "buffer"} /\ cr.to.at = "buffer"
    BY DEF BufferCredited
  <2> DEFINE a == <<cr.to.at, c>>
             M == [Ledger EXCEPT ![a] = @ + cr.bytes]
  <2>2. c \in Channel /\ M[a] = Ledger[a] + cr.bytes /\ M[a] \in Nat
    BY <2>1, CreditTaken
  <2>3. Ledger[a] = bufCredits[c]
    BY <2>1, <2>2, LedgerOf
  <2> HIDE DEF M, a
  <2> QED
    BY <2>2, <2>3 DEF IInv
<1>2. /\ bufCredits = [b \in Channel |-> bufCredits[b]] /\ bufQueue = [b \in Channel |-> bufQueue[b]]
  BY DEF CreditsInv, LedgerInv, IInv, BufferInv
<1>3. \A b \in Channel : \A k \in DOMAIN bufQueue[b] : bufQueue[b][k].bytes > bufCredits[b]
  BY DEF BufferWakes
<1>4. PICK go \in Fitting(q, n) :
        /\ bufCredits' = [bufCredits EXCEPT ![c] = n - BytesOf({q[k] : k \in go})]
        /\ \E stay \in InOrder(DOMAIN q \ go) :
             bufQueue' = [bufQueue EXCEPT ![c] = [i \in DOMAIN stay |-> q[stay[i]]]]
  BY Zenon DEF BufferCredited
<1>5. PICK stay \in InOrder(DOMAIN q \ go) :
        bufQueue' = [bufQueue EXCEPT ![c] = [i \in DOMAIN stay |-> q[stay[i]]]]
  BY <1>4, Zenon
<1>6. /\ IsQueue(q) /\ NoRepeat(q) /\ (\A k \in DOMAIN q : IsCut(q[k])) /\ IsFiniteSet(BytesIn(ToSet(q)))
  BY <1>1, BufferQueueCut
<1> DEFINE v == n - BytesOf({q[k] : k \in go})
<1>7. \A k \in DOMAIN q \ go : q[k].bytes > v
  <2>1. go \in Fitting(q, n) /\ n \in Nat
    BY <1>1, <1>4
  <2> HIDE DEF q, n
  <2>2. \A k \in DOMAIN q \ go : q[k].bytes > n - BytesOf({q[i] : i \in go})
    BY <1>1, <1>6, <2>1, FittingBytes
  <2> QED
    BY <2>2
<1>8. \A i \in DOMAIN stay : stay[i] \in DOMAIN q \ go
  BY DEF InOrder
<1> DEFINE r == [i \in DOMAIN stay |-> q[stay[i]]]
<1>9. \A i \in DOMAIN r : r[i].bytes > v
  <2> HIDE DEF q, v
  <2> QED
    BY <1>7, <1>8
<1>10. bufQueue' = [bufQueue EXCEPT ![c] = r] /\ bufCredits' = [bufCredits EXCEPT ![c] = v]
  BY <1>4, <1>5
<1> HIDE DEF r, v, c
<1>11. /\ bufQueue'[c] = r /\ bufCredits'[c] = v
       /\ \A b \in Channel : b # c => bufQueue'[b] = bufQueue[b] /\ bufCredits'[b] = bufCredits[b]
  BY <1>1, <1>2, <1>10
<1> QED
  BY <1>3, <1>9, <1>11 DEF BufferWakes

LEMMA DoSendWakes ==
  ASSUME IInv, CreditsInv, NicWakes, NEW m \in Message, DoSend(m)
  PROVE  NicWakes'
<1>0. JobInv
  BY DEF IInv
<1>1. PICK s \in Switch : s = job[m].src /\ job[m].bytes \in Nat /\ 0 < job[m].bytes
  BY <1>0, PiscesAssumption DEF JobInv
<1> DEFINE n == injCredits[s]
           P == Packets(m, 0, n)
<1>2. /\ \A t \in Switch : injCredits[t] \in Nat
      /\ injCredits = [t \in Switch |-> injCredits[t]] /\ pendingInject = [t \in Switch |-> pendingInject[t]]
  BY Sizes DEF CreditsInv, LedgerInv, IInv, PendingInv
<1>3. /\ injCredits' = [injCredits EXCEPT ![s] = n - BytesOf(P)]
      /\ pendingInject' = IF BytesOf(P) = job[m].bytes THEN pendingInject
                          ELSE [pendingInject EXCEPT ![s] = Append(@, [msg |-> m, sent |-> BytesOf(P)])]
  BY <1>1 DEF DoSend
<1>4. PICK j : CutFrom(m, 0, j, n, P)
  <2>1. Multiple(0)
    BY Products DEF Multiple
  <2>2. n \in Int
    BY <1>2
  <2> HIDE DEF n
  <2> QED
    BY <1>0, <1>1, <2>1, <2>2, PacketsCut
<1> HIDE DEF P
<1>5. BytesOf(P) = j /\ j \in Nat
  <2>1. j \in Nat /\ j - 0 = j /\ 0 \in Nat
    BY <1>4 DEF CutFrom
  <2>2. BytesOf(P) = j - 0
    BY <1>4, <2>1, CutBytes
  <2> QED
    BY <2>1, <2>2
<1>6. /\ injCredits'[s] = n - j
      /\ \A t \in Switch : t # s => injCredits'[t] = injCredits[t] /\ pendingInject'[t] = pendingInject[t]
  BY <1>2, <1>3, <1>5
<1>7. pendingInject'[s] # <<>> => n - j < Mtu
  <2>1. CASE j = job[m].bytes
    <3>1. pendingInject'[s] = pendingInject[s]
      BY <1>3, <1>5, <2>1
    <3>2. n \in Nat /\ (pendingInject[s] # <<>> => n < Mtu)
      BY <1>2 DEF NicWakes
    <3> HIDE DEF n
    <3> QED
      BY <1>5, <3>1, <3>2, Room
  <2>2. CASE j # job[m].bytes
    <3>1. n - (j - 0) < Mtu
      BY <1>4, <2>2 DEF CutFrom
    <3>2. n \in Nat
      BY <1>2
    <3> HIDE DEF n
    <3> QED
      BY <1>5, <3>1, <3>2
  <2> QED
    BY <2>1, <2>2
<1> HIDE DEF n
<1> QED
  BY <1>6, <1>7 DEF NicWakes

LEMMA PacketSentWakes ==
  ASSUME IInv, CreditsInv, NicWakes, NEW cr \in credits, PacketSent(cr)
  PROVE  NicWakes'
<1>0. JobInv /\ cr.to.at = "nic"
  BY DEF IInv, PacketSent
<1> DEFINE s == cr.to.sw
           n == injCredits[s] + cr.bytes
           q == pendingInject[s]
           r == ResumeAll(q, n)
<1>1. s \in Switch /\ n \in Nat
  <2> DEFINE a == NicAccount(cr.to.sw)
             M == [Ledger EXCEPT ![a] = @ + cr.bytes]
  <2>1. cr.to.sw \in Switch /\ M[a] = injCredits[cr.to.sw] + cr.bytes /\ M[a] \in Nat
    BY <1>0, NicTaken
  <2> HIDE DEF M, a
  <2> QED
    BY <2>1
<1>2. injCredits = [t \in Switch |-> injCredits[t]] /\ pendingInject = [t \in Switch |-> pendingInject[t]]
  BY DEF CreditsInv, LedgerInv, IInv, PendingInv
<1>3. injCredits' = [injCredits EXCEPT ![s] = r.n] /\ pendingInject' = [pendingInject EXCEPT ![s] = r.left]
  BY Zenon DEF PacketSent
<1>4. r.n = n - BytesOf(r.out)
  BY DEF ResumeAll, ResumeUpTo
<1>5. PendingQueue(q)
  BY <1>1, PendingFacts
<1>6. FinishedBy(q, n) = Len(q) => r.left = <<>>
  BY DEF ResumeAll, ResumeUpTo, FinishedBy
<1>7. FinishedBy(q, n) # Len(q) => n - BytesOf(r.out) < Mtu
  <2> HIDE DEF q, n
  <2> QED
    BY <1>0, <1>1, <1>5, ResumeBytes
<1> HIDE DEF r, s, q, n
<1>8. /\ injCredits'[s] = r.n /\ pendingInject'[s] = r.left
      /\ \A t \in Switch : t # s => injCredits'[t] = injCredits[t] /\ pendingInject'[t] = pendingInject[t]
  BY <1>1, <1>2, <1>3
<1>9. r.left # <<>> => r.n < Mtu
  BY <1>4, <1>6, <1>7
<1> QED
  BY <1>8, <1>9 DEF NicWakes

LEMMA WakeupStep ==
  IInv /\ CreditsInv /\ NoLostWakeup /\ [Next]_vars /\ IInv' /\ CreditsInv' => NoLostWakeup'
<1> SUFFICES ASSUME IInv, CreditsInv, NoLostWakeup, [Next]_vars, IInv', CreditsInv' PROVE NoLostWakeup'
  OBVIOUS
<1>1. XbarWakes /\ BufferWakes /\ NicWakes
  BY WakeupParts
<1>2. UNCHANGED xbarVars => XbarWakes'
  BY <1>1 DEF xbarVars, XbarWakes
<1>3. UNCHANGED bufVars => BufferWakes'
  BY <1>1 DEF bufVars, BufferWakes
<1>4. UNCHANGED nicVars => NicWakes'
  BY <1>1 DEF nicVars, NicWakes
<1>5. XbarWakes'
  <2>1. ASSUME NEW e \in payloads, SwitchPayload(e) PROVE XbarWakes'
    BY <1>1, <2>1, SwitchPayloadWakes
  <2>2. ASSUME NEW cr \in credits, XbarCredit(cr) PROVE XbarWakes'
    BY <1>1, <2>2, XbarCreditWakes
  <2>3. ASSUME NEW m \in Message, DoSend(m) PROVE UNCHANGED xbarVars
    BY <2>3 DEF DoSend
  <2>4. ASSUME NEW e \in payloads, PacketArrived(e) \/ BufferPayload(e) PROVE UNCHANGED xbarVars
    BY <2>4 DEF PacketArrived, BufferPayload
  <2>5. ASSUME NEW cr \in credits, PacketSent(cr) \/ BufferCredited(cr) PROVE UNCHANGED xbarVars
    BY <2>5 DEF PacketSent, BufferCredited
  <2>6. UNCHANGED vars => UNCHANGED xbarVars
    BY DEF vars
  <2> QED
    BY <1>2, <2>1, <2>2, <2>3, <2>4, <2>5, <2>6 DEF Next
<1>6. BufferWakes'
  <2>1. ASSUME NEW e \in payloads, BufferPayload(e) PROVE BufferWakes'
    BY <1>1, <2>1, BufferPayloadWakes
  <2>2. ASSUME NEW cr \in credits, BufferCredited(cr) PROVE BufferWakes'
    BY <1>1, <2>2, BufferCreditedWakes
  <2>3. ASSUME NEW m \in Message, DoSend(m) PROVE UNCHANGED bufVars
    BY <2>3 DEF DoSend
  <2>4. ASSUME NEW e \in payloads, PacketArrived(e) \/ SwitchPayload(e) PROVE UNCHANGED bufVars
    BY <2>4 DEF PacketArrived, SwitchPayload
  <2>5. ASSUME NEW cr \in credits, PacketSent(cr) \/ XbarCredit(cr) PROVE UNCHANGED bufVars
    BY <2>5 DEF PacketSent, XbarCredit
  <2>6. UNCHANGED vars => UNCHANGED bufVars
    BY DEF vars
  <2> QED
    BY <1>3, <2>1, <2>2, <2>3, <2>4, <2>5, <2>6 DEF Next
<1>7. NicWakes'
  <2>1. ASSUME NEW m \in Message, DoSend(m) PROVE NicWakes'
    BY <1>1, <2>1, DoSendWakes
  <2>2. ASSUME NEW cr \in credits, PacketSent(cr) PROVE NicWakes'
    BY <1>1, <2>2, PacketSentWakes
  <2>3. ASSUME NEW e \in payloads, PacketArrived(e) \/ SwitchPayload(e) \/ BufferPayload(e) PROVE UNCHANGED nicVars
    BY <2>3 DEF PacketArrived, SwitchPayload, BufferPayload
  <2>4. ASSUME NEW cr \in credits, XbarCredit(cr) \/ BufferCredited(cr) PROVE UNCHANGED nicVars
    BY <2>4 DEF XbarCredit, BufferCredited
  <2>5. UNCHANGED vars => UNCHANGED nicVars
    BY DEF vars
  <2> QED
    BY <1>4, <2>1, <2>2, <2>3, <2>4, <2>5 DEF Next
<1>8. NoLostWakeup' <=> (XbarWakes /\ BufferWakes /\ NicWakes)'
  BY DEF NoLostWakeup, XbarWakes, BufferWakes, NicWakes
<1> QED
  BY <1>5, <1>6, <1>7, <1>8

LEMMA InitWakes == Init => NoLostWakeup
BY DEF Init, NoLostWakeup

(***************************************************************************)
(* Credits are neither lost nor made, on every torus, with any credits and *)
(* packet size and for any traffic: what a crossbar, a buffer or a NIC may *)
(* still send, what it sent and the next stage holds, and what is on its   *)
(* way back add up to what it started with.                                *)
(***************************************************************************)
THEOREM CreditsAreConserved == Spec => []CreditsConserved
<1>1. Init => IInv /\ CreditsInv
  BY InitHolds, InitCredits
<1>2. (IInv /\ CreditsInv) /\ [Next]_vars => (IInv /\ CreditsInv)'
  BY StepHolds, CreditsStep
<1> QED
  BY <1>1, <1>2, ConservedByInvariant, PTL DEF Spec

(***************************************************************************)
(* No packet and no message waits in a queue to which no credit comes back *)
(* (handleCredit of the crossbar sends one packet for each credit, that of *)
(* a buffer all that fit, packetSent messages until one is not finished).  *)
(***************************************************************************)
THEOREM NobodyMissesCredits == Spec => []NoLostWakeup
<1>1. Init => IInv /\ CreditsInv /\ NoLostWakeup
  BY InitHolds, InitCredits, InitWakes
<1>2. (IInv /\ CreditsInv /\ NoLostWakeup) /\ [Next]_vars => (IInv /\ CreditsInv /\ NoLostWakeup)'
  BY StepHolds, CreditsStep, WakeupStep
<1> QED
  BY <1>1, <1>2, PTL DEF Spec
=============================================================================
