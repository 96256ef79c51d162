--------------------------- MODULE CollectiveDag ---------------------------
(***************************************************************************)
(* The communication DAGs of the SUMI collectives: what initDag of every   *)
(* actor class builds, as a set of actions with their precursors.  Ranks   *)
(* are 0 .. n-1, buffers are counted in elements.                          *)
(***************************************************************************)
EXTENDS CollectiveAction, FiniteSets, FiniteSetsExt

\* RecursiveDoubling::computeTree: log2nproc, with pow2nproc = 2^log2nproc.
Log2(n) == CHOOSE k \in 0 .. n : 2^k >= n /\ \A j \in 0 .. (k - 1) : 2^j < n

DivUp(x) == (x \div 2) + (x % 2)
DivDown(x) == x \div 2

(***************************************************************************)
(* BruckActor: round i sends everything gathered so far to the rank 2^i    *)
(* below and receives as much from the rank 2^i above; if n is no power of *)
(* two, a last round exchanges the rest.  A barrier is the same with no    *)
(* elements.  A round waits for the send and the receive before it.        *)
(***************************************************************************)
BruckRounds(n) == IF 2^Log2(n) = n THEN Log2(n) ELSE Log2(n) - 1

BruckExtra(n) == n - 2^BruckRounds(n)

BruckExchange(n, me, round, gap, offset, nelems, pre) ==
  {SendAction(round, (me + n - gap) % n, 0, nelems, pre),
   RecvAction(round, (me + gap) % n, offset, nelems, pre)}

BruckIds(n, me, i) ==
  IF i < 0 THEN {}
  ELSE Ids(BruckExchange(n, me, i, 2^i, 0, 0, {}))

\* Mutant: no last round.
BruckDag_Mut(n, me, nelems) ==
  UNION { BruckExchange(n, me, i, 2^i, nelems * 2^i, nelems * 2^i,
                        BruckIds(n, me, i - 1)) :
          i \in 0 .. (BruckRounds(n) - 1) }

BruckDag(n, me, nelems) ==
  LET rounds == BruckRounds(n)
      main == UNION { BruckExchange(n, me, i, 2^i, nelems * 2^i,
                                    nelems * 2^i, BruckIds(n, me, i - 1)) :
                      i \in 0 .. (rounds - 1) }
      extra == BruckExchange(n, me, rounds + 1, 2^rounds,
                             nelems * 2^rounds, BruckExtra(n) * nelems,
                             BruckIds(n, me, rounds - 1))
  IN  IF BruckExtra(n) = 0 THEN main ELSE main \cup extra

(***************************************************************************)
(* RingAllgatherActor: n - 1 rounds; every rank hands the block it         *)
(* received last on to the rank above.                                     *)
(***************************************************************************)
RingDag(n, me, nelems) ==
  LET up == (me + 1) % n
      down == (me + n - 1) % n
      \* last_recved before round i
      chunk(i) == (me + n - (i - 1)) % n
      before(i) == IF i = 1 THEN {}
                   ELSE {messageId(SEND, i - 1, up),
                         messageId(RECV, i - 1, down)}
  IN  UNION { {SendAction(i, up, chunk(i) * nelems, nelems, before(i)),
               RecvAction(i, down, chunk(i + 1) * nelems, nelems, before(i))} :
              i \in 1 .. (n - 1) }

(***************************************************************************)
(* BinaryTreeBcastActor.  A child finds its parent by halving the window   *)
(* of ranks it lies in; offsets are relative to the root.                  *)
(***************************************************************************)
BcastWindow(n, offsetMe) ==
  LET top == 2^Log2(n)
      w[k \in 0 .. Log2(n)] ==
        IF k = 0
        THEN [start |-> 0, split |-> top \div 2, size |-> top \div 2]
        ELSE LET v == w[k - 1]
                 start == IF offsetMe > v.split THEN v.split ELSE v.start
                 size == v.size \div 2
             IN  IF v.size > 0 /\ offsetMe # v.split
                 THEN [start |-> start, split |-> start + size, size |-> size]
                 ELSE v
  IN  w[Log2(n)]

\* The strides size, size / 2, ..., 1 of a loop that halves.
Strides(size) == {size \div 2^k : k \in 0 .. size} \ {0}

BcastDag(n, me, root, nelems) ==
  LET offsetMe == (me - root + n) % n
      w == BcastWindow(n, offsetMe)
      stop == Min({n, w.split + w.size})
      parent == (w.start + root) % n
      recv == RecvAction(0, parent, 0, nelems, {})
      below == {stride \in Strides(w.size) : offsetMe + stride < stop}
  IN  IF me = root
      THEN { SendAction(0, (root + gap) % n, 0, nelems, {}) :
             gap \in {g \in Strides(2^Log2(n) \div 2) : g < n} }
      ELSE {recv} \cup
           { SendAction(0, (offsetMe + stride + root) % n, 0, nelems,
                        {recv.id}) :
             stride \in IF offsetMe % 2 = 0 THEN below ELSE {} }

(***************************************************************************)
(* VirtualRankMap: the lowest 2^log2 - n ranks play two virtual ranks.     *)
(***************************************************************************)
TwoRoles(n) == 2^Log2(n) - n

realToVirtual(n, rank) ==
  IF rank >= TwoRoles(n) THEN {TwoRoles(n) + rank}
  ELSE {2 * rank, 2 * rank + 1}

virtualToReal(n, v) ==
  IF v >= 2 * TwoRoles(n) THEN v - TwoRoles(n) ELSE v \div 2

isLowerPartner(v, gap) == (v \div gap) % 2 = 0

VirtualPartner(v, i) ==
  IF isLowerPartner(v, 2^i) THEN v + 2^i ELSE v - 2^i

(***************************************************************************)
(* The fan-out of WilkeAllreduceActor and WilkeReduceActor: in round i a   *)
(* virtual rank sends one half of the segment it still owns and keeps the  *)
(* other, reducing what its partner sends into it.                         *)
(***************************************************************************)
\* Mutant: both partners round down.
Halving_Mut(v, i, segment) ==
  LET low == isLowerPartner(v, 2^i)
      sent == DivDown(segment.nelems)
      kept == segment.nelems - sent
  IN  [send |-> [offset |-> IF low THEN segment.offset + kept
                            ELSE segment.offset,
                 nelems |-> sent],
       recv |-> [offset |-> IF low THEN segment.offset
                            ELSE segment.offset + sent,
                 nelems |-> kept]]

Halving(v, i, segment) ==
  LET low == isLowerPartner(v, 2^i)
      sent == IF low THEN DivDown(segment.nelems) ELSE DivUp(segment.nelems)
      kept == segment.nelems - sent
  IN  [send |-> [offset |-> IF low THEN segment.offset + kept
                            ELSE segment.offset,
                 nelems |-> sent],
       recv |-> [offset |-> IF low THEN segment.offset
                            ELSE segment.offset + sent,
                 nelems |-> kept]]

FanOut(v, rounds, nelems) ==
  LET h[i \in 0 .. (rounds - 1)] ==
        Halving(v, i, IF i = 0 THEN [offset |-> 0, nelems |-> nelems]
                      ELSE h[i - 1].recv)
  IN  h

\* The wire round of step j of a role: the rounds of an odd virtual rank are
\* shifted, or the two roles of a rank would use one id for two actions.
WilkeRound(v, rounds, j, mirror) ==
  IF mirror = 0 \/ v % 2 = 0 THEN j ELSE j + 2 * rounds

(***************************************************************************)
(* One role of the fan-out and the fan-in: step j < rounds is fan-out      *)
(* round j, step j >= rounds mirrors round 2 * rounds - 1 - j, sending     *)
(* what was received and receiving what was sent.  A round whose partner   *)
(* is this rank's other role has no actions.                               *)
(***************************************************************************)
WilkeMirror(rounds, j) == IF j < rounds THEN j ELSE 2 * rounds - 1 - j

WilkeSteps(n, me, v, steps) ==
  {j \in 0 .. (steps - 1) :
     VirtualPartner(v, WilkeMirror(Log2(n), j)) \notin realToVirtual(n, me)}

WilkeIds(n, v, j) ==
  LET i == WilkeMirror(Log2(n), j)
      partner == virtualToReal(n, VirtualPartner(v, i))
      round == WilkeRound(v, Log2(n), j, i)
  IN  {messageId(SEND, round, partner), messageId(RECV, round, partner)}

\* Mutant: waits for nothing.
WilkePrev_Mut(n, me, v, j) == {}

\* The last pair of actions before step j of a role.
WilkePrev(n, me, v, j) ==
  LET earlier == WilkeSteps(n, me, v, j)
  IN  IF earlier = {} THEN {} ELSE WilkeIds(n, v, Max(earlier))

WilkeRole(n, me, v, nelems, steps) ==
  LET rounds == Log2(n)
      segments == FanOut(v, rounds, nelems)
      pair(j) ==
        LET i == WilkeMirror(rounds, j)
            partner == virtualToReal(n, VirtualPartner(v, i))
            round == WilkeRound(v, rounds, j, i)
            pre == WilkePrev(n, me, v, j)
            s == segments[i].send
            k == segments[i].recv
        IN  IF j < rounds
            THEN {SendAction(round, partner, s.offset, s.nelems, pre),
                  ReduceAction(round, partner, k.offset, k.nelems, pre)}
            ELSE {SendAction(round, partner, k.offset, k.nelems, pre),
                  RecvAction(round, partner, s.offset, s.nelems, pre)}
  IN  UNION {pair(j) : j \in WilkeSteps(n, me, v, steps)}

\* WilkeAllreduceActor::initDag.
AllreduceDag(n, me, nelems) ==
  UNION {WilkeRole(n, me, v, nelems, 2 * Log2(n)) : v \in realToVirtual(n, me)}

(***************************************************************************)
(* WilkeReduceActor::initDag.  A virtual rank leaves the fan-in when the   *)
(* ranks still active are below it.  The roles meet in a join; if the root *)
(* is not rank 0, the last fan-in round is skipped and ranks 0 and 1 send  *)
(* the halves to the root.                                                 *)
(***************************************************************************)
ReduceHalvings(n, root) == IF root = 0 THEN Log2(n) ELSE Log2(n) - 1

ReduceSteps(n, v, root) ==
  Log2(n) + Cardinality({i \in 0 .. (ReduceHalvings(n, root) - 1) :
                           v < 2^(Log2(n) - i)})

ReduceLast(n, me, root, nelems, join) ==
  LET round == 4 * Log2(n) - 1
      half == DivUp(nelems)
  IN  {SendAction(round, root, 0, half, {join}) : x \in {0} \cap {me}}
      \cup {SendAction(round, root, half, nelems - half, {join}) :
              x \in ({1} \cap {me}) \ {root}}
      \cup {RecvAction(round, 0, 0, half, {join}) : x \in {root} \cap {me}}
      \cup {RecvAction(round, 1, half, nelems - half, {join}) :
              x \in ({root} \cap {me}) \ {1}}

ReduceDag(n, me, root, nelems) ==
  LET roles == realToVirtual(n, me)
      join == Action(JOIN, 0, 0, 0, 0, FALSE,
                     UNION {WilkePrev(n, me, v, ReduceSteps(n, v, root)) :
                              v \in roles})
  IN  {join}
      \cup UNION {WilkeRole(n, me, v, nelems, ReduceSteps(n, v, root)) :
                    v \in roles}
      \cup (IF root = 0 THEN {} ELSE ReduceLast(n, me, root, nelems, join.id))

(***************************************************************************)
(* BtreeGatherActor::initDag.  Up a binomial tree to rank 0; for another   *)
(* root the last round is replaced by transfers from rank 0 and from the   *)
(* midpoint, and a root that is the midpoint first shuffles its half up.   *)
(***************************************************************************)
GatherMidpoint(n) == 2^Log2(n) \div 2

GatherMaxGap(n, root) ==
  IF root = 0 THEN GatherMidpoint(n) ELSE GatherMidpoint(n) \div 2

\* The rounds in which a rank takes part: it receives until it sends.
GatherRounds(n, me, root) ==
  {i \in 0 .. Log2(n) : 2^i <= GatherMaxGap(n, root) /\ me % 2^i = 0}

GatherStep(n, me, nelems, i, pre) ==
  LET gap == 2^i
      chunk(start) == Min({start + gap, n}) - start
  IN  IF me % (2 * gap) = 0
      THEN {RecvAction(i, me + gap, gap * nelems, nelems * chunk(me + gap),
                       pre) : x \in {y \in {me + gap} : y < n}}
      ELSE {SendAction(i, me - gap, 0, nelems * chunk(me), pre)}

\* The action before round i: the receive or send of the last round that had
\* one.
GatherPrev(n, me, root, i) ==
  LET acs(j) == GatherStep(n, me, 1, j, {})
      earlier == {j \in GatherRounds(n, me, root) : j < i /\ acs(j) # {}}
  IN  IF earlier = {} THEN {} ELSE Ids(acs(Max(earlier)))

GatherDag(n, me, root, nelems) ==
  LET mid == GatherMidpoint(n)
      last == Log2(n)
      tree == UNION {GatherStep(n, me, nelems, i, GatherPrev(n, me, root, i)) :
                       i \in GatherRounds(n, me, root)}
      prev == GatherPrev(n, me, root, last + 1)
      shuffle == Action(SHUFFLE, last, me, mid * nelems, (n - mid) * nelems,
                        FALSE, prev)
      shuffled == IF me = root /\ root = mid THEN {shuffle} ELSE {}
      after == IF shuffled = {} THEN prev ELSE {shuffle.id}
      fromZero == {RecvAction(last, 0, 0, nelems * mid, after) :
                     x \in {me} \cap {root}}
      fromMid == {RecvAction(last, mid, mid * nelems, nelems * (n - mid),
                             after) : x \in ({me} \cap {root}) \ {mid}}
      zero == {SendAction(last, root, 0, nelems * mid, after) :
                 x \in {me} \cap {0}}
      half == {SendAction(last, root, 0, nelems * (n - mid), after) :
                 x \in ({me} \cap {mid}) \ {root}}
  IN  IF root = 0 THEN tree
      ELSE tree \cup shuffled \cup fromZero \cup fromMid \cup zero \cup half

(***************************************************************************)
(* BruckAllgathervActor::initDag: the rounds of BruckActor with a number   *)
(* of elements for every rank.                                             *)
(***************************************************************************)
\* nelems_to_recv: what the gap ranks from p on contribute.
CountsFrom(counts, n, p, gap) ==
  MapThenSumSet(LAMBDA j : counts[(p + j) % n], 0 .. (gap - 1))

AllgathervExchange(n, me, counts, i, sent, nelems) ==
  LET gap == 2^i
      pre == BruckIds(n, me, i - 1)
  IN  {SendAction(i, (me + n - gap) % n, 0, sent, pre),
       RecvAction(i, (me + gap) % n, CountsFrom(counts, n, me, gap), nelems, pre)}

AllgathervDag(n, me, counts) ==
  LET rounds == BruckRounds(n)
      recvd(p, i) == CountsFrom(counts, n, p, 2^i)
      total == CountsFrom(counts, n, 0, n)
  IN  UNION { AllgathervExchange(n, me, counts, i, recvd(me, i),
                                 recvd((me + 2^i) % n, i)) :
              i \in 0 .. (rounds - 1) }
      \cup (IF BruckExtra(n) = 0 THEN {}
            ELSE AllgathervExchange(n, me, counts, rounds,
                                    total - recvd((me + n - 2^rounds) % n, rounds),
                                    total - recvd(me, rounds)))

(***************************************************************************)
(* SimultaneousBtreeScanActor::initDag.  In round i a rank sends from its  *)
(* send buffer, which lies behind the result, to 2^i ranks up and adds     *)
(* what comes from 2^i below.  The action that would copy the sum into the *)
(* send buffer between rounds asks for recv_buffer_, which initBuffers     *)
(* allocates after initDag: it is never built.                             *)
(***************************************************************************)
ScanExchange(n, me, nelems, i, pre) ==
  {SendAction(i, p, nelems, nelems, pre) : p \in {me + 2^i} \cap (0 .. (n - 1))}
  \cup {ReduceAction(i, p, 0, nelems, pre) : p \in {me - 2^i} \cap (0 .. (n - 1))}

ScanDag(n, me, nelems) ==
  LET before(i) == IF i = 0 THEN {} ELSE Ids(ScanExchange(n, me, nelems, i - 1, {}))
  IN  UNION {ScanExchange(n, me, nelems, i, before(i)) : i \in 0 .. Log2(n)}

(***************************************************************************)
(* BtreeScatterActor::initDag.  The root hands the lower half of the       *)
(* blocks to rank 0 and the upper half to the midpoint, and from there     *)
(* they go down a binomial tree.  The last hop lands in the result; the    *)
(* others land in recv_buffer_, which lies behind the result here, with    *)
(* the send buffer of the root behind it.                                  *)
(***************************************************************************)
ScatterRecvBuffer(nelems) == nelems
ScatterSendBuffer(n, nelems) == nelems + GatherMidpoint(n) * nelems

ScatterToMidpoint(n, me, root, nelems) ==
  LET mid == GatherMidpoint(n)
      size == nelems * Min({n - mid, mid})
  IN  {SendAction(0, mid, ScatterSendBuffer(n, nelems) + nelems * mid, size, {}) :
         x \in ({me} \cap {root}) \ {mid}}
      \cup {RecvAction(0, root, ScatterRecvBuffer(nelems), size, {}) :
              x \in ({me} \cap {mid}) \ {root}}

ScatterToZero(n, me, root, nelems) ==
  LET size == nelems * GatherMidpoint(n)
      pre == Ids(ScatterToMidpoint(n, me, root, nelems))
  IN  {SendAction(0, 0, ScatterSendBuffer(n, nelems), size, pre) :
         x \in ({me} \cap {root}) \ {0}}
      \cup {RecvAction(0, root, ScatterRecvBuffer(nelems), size, pre) :
              x \in ({me} \cap {0}) \ {root}}

ScatterStep(n, me, root, nelems, i, pre) ==
  LET gap == GatherMidpoint(n) \div 2^i
      from == IF me = root THEN ScatterSendBuffer(n, nelems) ELSE ScatterRecvBuffer(nelems)
  IN  IF me % gap # 0 THEN {}
      ELSE IF (me \div gap) % 2 = 0
      THEN {SendAction(i, p, from + gap * nelems, Min({n - p, gap}) * nelems, pre) :
              p \in {me + gap} \cap (0 .. (n - 1))}
      ELSE {RecvAction(i, me - gap, IF gap = 1 THEN 0 ELSE ScatterRecvBuffer(nelems),
                       Min({n - me, gap}) * nelems, pre)}

\* The action before step i: that of the last step that had one, or the
\* transfer from the root (its send to rank 0 holds nobody up).
ScatterPrev(n, me, root, i) ==
  LET acs(j) == ScatterStep(n, me, root, 1, j, {})
      earlier == {j \in 1 .. (i - 1) : acs(j) # {}}
  IN  IF earlier # {} THEN Ids(acs(Max(earlier)))
      ELSE Ids(ScatterToMidpoint(n, me, root, 1)
                 \cup IF me = root THEN {} ELSE ScatterToZero(n, me, root, 1))

ScatterDag(n, me, root, nelems) ==
  ScatterToMidpoint(n, me, root, nelems)
  \cup ScatterToZero(n, me, root, nelems)
  \cup UNION {ScatterStep(n, me, root, nelems, i, ScatterPrev(n, me, root, i)) :
                i \in 1 .. (Log2(n) - 1)}

(***************************************************************************)
(* BruckAlltoallActor::initDag.  Block b is to travel b ranks up: in round *)
(* i every block with bit i set goes 2^i ranks.  The blocks are packed     *)
(* into the send buffer, received into the receive buffer and unpacked;    *)
(* both lie behind the result here.                                        *)
(***************************************************************************)
SEND_SHUFFLE == 0
RECV_SHUFFLE == 1

AlltoallSendBuffer(n, nelems) == n * nelems
AlltoallRecvBuffer(n, nelems) == (n + GatherMidpoint(n)) * nelems

AlltoallBlocks(n, gap) ==
  ((n - gap) \div (2 * gap)) * gap + Min({gap, (n - gap) % (2 * gap)})

AlltoallRound(n, me, nelems, i) ==
  LET gap == 2^i
      size == AlltoallBlocks(n, gap) * nelems
      shuffle(which, pre) == Action(SHUFFLE, i, which, gap, size, FALSE, pre)
      pack == shuffle(SEND_SHUFFLE,
                      IF i = 0 THEN {} ELSE {messageId(SHUFFLE, i - 1, RECV_SHUFFLE)})
      transfers ==
        {SendAction(i, (me + gap) % n, AlltoallSendBuffer(n, nelems), size, {pack.id}),
         RecvAction(i, (me - gap + n) % n, AlltoallRecvBuffer(n, nelems), size, {pack.id})}
  IN  {pack} \cup transfers \cup {shuffle(RECV_SHUFFLE, Ids(transfers))}

AlltoallDag(n, me, nelems) ==
  LET rounds == BruckRounds(n) + (IF BruckExtra(n) = 0 THEN 0 ELSE 1)
  IN  UNION {AlltoallRound(n, me, nelems, i) : i \in 0 .. (rounds - 1)}

\* BruckAlltoallActor::shuffle: the blocks it moves.
\* Mutant: forgets the last interval if it is a shorter one.
AlltoallMoved_Mut(n, gap) ==
  {b \in 0 .. (n - 1) : (b \div gap) % 2 = 1 /\ ((b \div gap) + 1) * gap <= n}
AlltoallMoved(n, gap) == {b \in 0 .. (n - 1) : (b \div gap) % 2 = 1}

\* Its copies, as pairs of places from and to.
AlltoallMoves(n, nelems, ac) ==
  LET gap == ac.offset
      moved == AlltoallMoved(n, gap)
      place(b) == (b \div (2 * gap)) * gap + (b % gap)
      pairs == {<<b * nelems + e, place(b) * nelems + e>> : b \in moved, e \in 0 .. (nelems - 1)}
  IN  IF ac.partner = SEND_SHUFFLE
      THEN {<<p[1], AlltoallSendBuffer(n, nelems) + p[2]>> : p \in pairs}
      ELSE {<<AlltoallRecvBuffer(n, nelems) + p[2], p[1]>> : p \in pairs}

\* startShuffle of the actors that have shuffles.
Moves(call, n, ac) ==
  IF call.type = "alltoall" THEN AlltoallMoves(n, call.nelems, ac)
  ELSE {<<i, ac.offset + i>> : i \in 0 .. (ac.nelems - 1)}

(***************************************************************************)
(* The calls of CollectiveEngine: the actor each one builds, the result    *)
(* buffer its initBuffers prepares, and how far finalize rotates it.       *)
(***************************************************************************)
RootedDagOf(call, n, me) ==
  CASE call.type = "bcast"     -> BcastDag(n, me, call.root, call.nelems)
    [] call.type = "reduce"    -> ReduceDag(n, me, call.root, call.nelems)
    [] call.type = "gather"    -> GatherDag(n, me, call.root, call.nelems)
    [] call.type = "scatter"   -> ScatterDag(n, me, call.root, call.nelems)

DagOf(call, n, me) ==
  CASE call.type = "barrier"   -> BruckDag(n, me, 0)
    [] call.type = "allgather" -> BruckDag(n, me, call.nelems)
    [] call.type = "ring"      -> RingDag(n, me, call.nelems)
    [] call.type = "allreduce" -> AllreduceDag(n, me, call.nelems)
    [] call.type = "allgatherv" -> AllgathervDag(n, me, call.counts)
    [] call.type = "scan"      -> ScanDag(n, me, call.nelems)
    [] call.type = "alltoall"  -> AlltoallDag(n, me, call.nelems)
    [] OTHER                   -> RootedDagOf(call, n, me)

\* What an element holds: how often each rank contributed to it.
Nothing(n) == [r \in 0 .. (n - 1) |-> 0]
From(n, me) == [r \in 0 .. (n - 1) |-> IF r = me THEN 1 ELSE 0]

\* A buffer of size elements with the caller's own in the first filled.
Filled(n, me, size, filled) ==
  [i \in 0 .. (size - 1) |-> IF i < filled THEN From(n, me) ELSE Nothing(n)]

\* The result, receive and send buffers of a scatter.  Here the contents of
\* an element name the rank the root has it for.
ScatterBuffer(call, n, me) ==
  LET k == call.nelems
      mid == GatherMidpoint(n)
      mine == me = call.root
      at(i) == i \div k
  IN  [i \in 0 .. ((1 + mid + n) * k - 1) |->
         IF mine /\ at(i) = 0 /\ call.root = 0 THEN From(n, 0)
         ELSE IF mine /\ at(i) \in 1 .. (n - mid) /\ call.root = mid
         THEN From(n, mid + at(i) - 1)
         ELSE IF mine /\ at(i) > mid THEN From(n, at(i) - mid - 1)
         ELSE Nothing(n)]

\* Every block of an alltoall is known by the ranks it goes from and to; it
\* starts as many blocks from the front as it has ranks to travel.
AlltoallBuffer(call, n, me) ==
  LET k == call.nelems
  IN  [i \in 0 .. (AlltoallRecvBuffer(n, k) + GatherMidpoint(n) * k - 1) |->
         IF i < n * k THEN <<me, (me + i \div k) % n>> ELSE <<>>]

BufferOf(call, n, me) ==
  CASE call.type = "barrier"   -> Filled(n, me, 0, 0)
    [] call.type = "allgather" -> Filled(n, me, n * call.nelems, call.nelems)
    [] call.type = "ring"      -> Filled(n, me, n * call.nelems, 0)
    [] call.type = "bcast" ->
         Filled(n, me, call.nelems, IF me = call.root THEN call.nelems ELSE 0)
    [] call.type \in {"allreduce", "reduce"} ->
         Filled(n, me, call.nelems, call.nelems)
    [] call.type = "gather" ->
         Filled(n, me, call.nelems * (IF me = call.root THEN n
                                      ELSE GatherMidpoint(n)), call.nelems)
    [] call.type = "allgatherv" ->
         Filled(n, me, CountsFrom(call.counts, n, 0, n), call.counts[me])
    [] call.type = "scan" -> Filled(n, me, 2 * call.nelems, 2 * call.nelems)
    [] call.type = "scatter" -> ScatterBuffer(call, n, me)
    [] call.type = "alltoall" -> AlltoallBuffer(call, n, me)

ShiftOf(call, n, me) ==
  CASE call.type = "allgather"  -> call.nelems * me
    [] call.type = "allgatherv" -> CountsFrom(call.counts, n, 0, me)
    [] OTHER                    -> 0

\* What finalize and finalizeBuffers leave in the result buffer.
ResultOf(call, n, me, buffer) ==
  LET k == call.nelems
  IN  CASE call.type = "scan" -> Read(buffer, 0, k)
        [] call.type = "scatter" ->
             Read(buffer, IF me # call.root /\ me % 2 = 0 THEN ScatterRecvBuffer(k) ELSE 0, k)
        [] call.type = "alltoall" ->
             [i \in 0 .. (n * k - 1) |-> buffer[((me + n - i \div k) % n) * k + (i % k)]]
        [] OTHER -> Rotate(buffer, ShiftOf(call, n, me))

(***************************************************************************)
(* What the calls promise, stated without any algorithm: the contents of   *)
(* the result buffer, the ranks that get one, and the ranks whose call it  *)
(* depends on.                                                             *)
(***************************************************************************)
ExpectedOf(call, n, me) ==
  CASE call.type \in {"allgather", "ring", "gather"} ->
         [i \in 0 .. (n * call.nelems - 1) |-> From(n, i \div call.nelems)]
    [] call.type = "allgatherv" ->
         [i \in 0 .. (CountsFrom(call.counts, n, 0, n) - 1) |->
            From(n, CHOOSE r \in 0 .. (n - 1) :
                      i - CountsFrom(call.counts, n, 0, r) \in 0 .. (call.counts[r] - 1))]
    [] call.type = "bcast" ->
         [i \in 0 .. (call.nelems - 1) |-> From(n, call.root)]
    [] call.type \in {"allreduce", "reduce"} ->
         [i \in 0 .. (call.nelems - 1) |-> [r \in 0 .. (n - 1) |-> 1]]
    [] call.type = "scan" ->
         [i \in 0 .. (call.nelems - 1) |->
            [r \in 0 .. (n - 1) |-> IF r <= me THEN 1 ELSE 0]]
    [] call.type = "scatter" -> [i \in 0 .. (call.nelems - 1) |-> From(n, me)]
    [] call.type = "alltoall" ->
         [i \in 0 .. (n * call.nelems - 1) |-> <<i \div call.nelems, me>>]
    [] OTHER -> <<>>

HasResult(call, me) ==
  /\ call.type # "barrier"
  /\ call.type \in {"reduce", "gather"} => me = call.root

NeededBy(call, n, me) ==
  CASE call.type \in {"bcast", "scatter"} -> {call.root}
    [] call.type = "scan" -> 0 .. me
    [] HasResult(call, me) \/ call.type = "barrier" -> 0 .. (n - 1)
    [] OTHER -> {me}
=============================================================================
