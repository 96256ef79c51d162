------------------------- MODULE EventManagerInv --------------------------
(***************************************************************************)
(* The inductive invariant of the epoch loop: where the threads of a       *)
(* process are in an epoch, what has been sent in it and what is left from *)
(* the one before.  It holds initially, and with it come the facts that    *)
(* the steps share: the tree of threads, the types, and what a step leaves *)
(* alone.                                                                  *)
(***************************************************************************)
EXTENDS EventManager, FiniteSetTheorems, WellFoundedInduction, TLAPS

MainOf(m) == Main(m[1])

\* Process p runs the events of an epoch, and it exchanges what it sent.
InEpoch(p) == pc[Main(p)] \in {"register", "run", "join"}
Exchanging(p) == pc[Main(p)] \in {"vote", "reduce"}

\* The last epoch that was agreed on has been opened by p.
Opened(p) == InEpoch(p) \/ Exchanging(p) \/ stopped[Main(p)]

\* Where that epoch begins.
Bound(p) == IF Opened(p) THEN horizon[Main(p)] - Lookahead ELSE lowerBound[p]

\* The thread of m runs up to the same horizon as its main thread, and it
\* has registered what was pending.
Current(m) == horizon[m] = horizon[MainOf(m)]
Registered(m) == Current(m) /\ pc[m] # "register"

(***************************************************************************)
(* Types.  Only a queue holds stop events.                                 *)
(***************************************************************************)
AnyEvent == [time : 0 .. NoEvents - 1, src : Mgr, dst : Mgr, seqnum : Nat, stop : BOOLEAN]
SentEvent == {e \in AnyEvent : ~e.stop}

PC == {"start", "register", "run", "join", "vote", "reduce", "recv", "done", "abort", "wait"}

ManagerTypes ==
  /\ pc \in [Mgr -> PC]
  /\ now \in [Mgr -> Nat]
  /\ queue \in [Mgr -> SUBSET AnyEvent]
  /\ slot \in [Mgr -> Slot]
  /\ pending \in [Mgr -> [Slot -> SUBSET SentEvent]]
  /\ serialized \in [Mgr -> SUBSET SentEvent]
  /\ minIpc \in [Mgr -> 0 .. NoEvents]
  /\ minTime \in [Mgr -> 0 .. NoEvents]
  /\ horizon \in [Mgr -> Nat]
  /\ stopped \in [Mgr -> BOOLEAN]
  /\ delta \in [WorkerMgr -> Nat]
  /\ seqnum \in Nat

ProcessTypes ==
  /\ lowerBound \in [Proc -> 0 .. NoEvents]
  /\ lastHorizon \in [Proc -> Nat]
  /\ sendBuf \in [Proc -> [Proc -> SUBSET SentEvent]]
  /\ votes \in [Proc -> [time : 0 .. NoEvents, to : SUBSET Proc]]
  /\ net \subseteq [src : Proc, dst : Proc, tag : {0, 1}, evs : SUBSET SentEvent]
  /\ tag \in [Proc -> {0, 1}]

TypeInv == ManagerTypes /\ ProcessTypes

(***************************************************************************)
(* A worker waits for the next epoch with the horizon of its main thread,  *)
(* or it has not heard of this epoch yet, was called, is busy in it, or    *)
(* was told to end.                                                        *)
(***************************************************************************)
Growth(p) == horizon[Main(p)] - lastHorizon[p]

Idle(m) == pc[m] = "wait" /\ delta[m] = 0 /\ Current(m)
Behind(m) ==
  InEpoch(m[1]) /\ pc[m] = "wait" /\ delta[m] = 0 /\ horizon[m] = lastHorizon[m[1]]
Called(m) ==
  InEpoch(m[1]) /\ pc[m] = "wait" /\ delta[m] = Growth(m[1]) /\ horizon[m] = lastHorizon[m[1]]
Busy(m) ==
  /\ InEpoch(m[1])
  /\ pc[m] \in {"register", "run", "join"}
  /\ delta[m] = Growth(m[1])
  /\ Current(m)
Ended(m) ==
  /\ pc[MainOf(m)] = "done"
  /\ (pc[m] = "wait" /\ delta[m] = NoEvents) \/ pc[m] = "done"
  /\ Current(m)

WorkerOk(m) == Idle(m) \/ Behind(m) \/ Called(m) \/ Busy(m) \/ Ended(m)

WorkerInv == \A m \in WorkerMgr : WorkerOk(m)

\* A thread is never ahead of its parent in the tree, and done before it.
TreeOk(m) ==
  \A c \in Children(m) :
    /\ Behind(m) \/ Called(m) => Behind(c)
    /\ Busy(m) => ~Behind(c)
    /\ Idle(m) \/ (Ended(m) /\ pc[m] = "wait") => Idle(c)
RootOk(p) == InEpoch(p) => \A c \in Children(Main(p)) : ~Behind(c)

TreeInv == (\A m \in WorkerMgr : TreeOk(m)) /\ (\A p \in Proc : RootOk(p))

(***************************************************************************)
(* What a thread votes for once it has run its events.                     *)
(***************************************************************************)
Finished(m) ==
  /\ Current(m)
  /\ pc[m] \in {"join", "wait", "vote", "reduce"}
  /\ InEpoch(m[1]) \/ Exchanging(m[1])

VoteOk(m) ==
  /\ Registered(m) => minIpc[m] = NoEvents \/ horizon[m] <= minIpc[m]
  /\ Finished(m) =>
       /\ minTime[m] <= minIpc[m]
       /\ minTime[m] = NoEvents \/ horizon[m] <= minTime[m]
       /\ \A e \in queue[m] : minTime[m] <= e.time /\ horizon[m] <= e.time
  /\ Finished(m) /\ pc[m] # "join" => \A c \in Children(m) : minTime[m] <= minTime[c]

VoteInv == \A m \in Mgr : VoteOk(m)

(***************************************************************************)
(* All processes agree where the last epoch begins.                        *)
(***************************************************************************)
EpochOk(p) ==
  /\ InEpoch(p) \/ Exchanging(p) =>
       lowerBound[p] # NoEvents /\ horizon[Main(p)] = lowerBound[p] + Lookahead
  /\ InEpoch(p) =>
       lastHorizon[p] < horizon[Main(p)] /\ horizon[Main(p)] < lastHorizon[p] + NoEvents
  /\ pc[Main(p)] = "start" =>
       lastHorizon[p] = horizon[Main(p)] /\ (stopped[Main(p)] => lowerBound[p] = NoEvents)
  /\ Opened(p) => Lookahead <= horizon[Main(p)]
  /\ ~Opened(p) /\ lowerBound[p] # NoEvents =>
       /\ horizon[Main(p)] <= lowerBound[p]
       /\ (lowerBound[p] = 0 /\ horizon[Main(p)] = 0) \/ Lookahead <= horizon[Main(p)]
  /\ pc[Main(p)] = "done" => lowerBound[p] = NoEvents
  /\ pc[Main(p)] # "wait"
  /\ pc[Main(p)] = "abort" => ~Multithreaded /\ stopped[Main(p)]

EpochInv == \A p \in Proc : EpochOk(p)

SameBound == \A p, q \in Proc : Bound(p) = Bound(q)

\* Nothing that is still to happen lies before it.
NotBefore ==
  \A e \in Unhandled : e.seqnum < seqnum /\ \A p \in Proc : Bound(p) <= e.time

(***************************************************************************)
(* All managers stop at the same time.                                     *)
(***************************************************************************)
StopsFor(u, m) ==
  /\ \A e \in queue[m] : e.dst = m /\ (e.stop => u > 0 /\ e = StopEvent(u, m))
  /\ stopped[m] => u > 0 /\ u < horizon[m] /\ now[m] = u /\ queue[m] = {}
  /\ u > 0 /\ ~stopped[m] => StopEvent(u, m) \in queue[m]
StopsAt(u) == \A m \in Mgr : StopsFor(u, m)

StoppedOk(m) ==
  /\ stopped[m] =>
       /\ Registered(m)
       /\ InEpoch(m[1]) \/ (stopped[MainOf(m)] /\ pc[MainOf(m)] \in {"start", "done", "abort"})
  /\ stopped[MainOf(m)] /\ ~InEpoch(m[1]) => stopped[m]

StopInv == (\E u \in StopTimes : StopsAt(u)) /\ (\A m \in Mgr : StoppedOk(m))

(***************************************************************************)
(* Where the events are that were sent in this epoch: in the slot that the *)
(* owner takes in the next one, in the send buffers, in messages.          *)
(***************************************************************************)
SendSlot(m) == IF Registered(m) THEN slot[m] ELSE NextSlot(slot[m])

SlotInv == \A m, n \in Mgr : m[1] = n[1] => SendSlot(m) = SendSlot(n)

\* The vote of its sender covers event f.
Covered(f) == Registered(f.src) /\ (stopped[f.src] \/ minIpc[f.src] <= f.time)

PendingOk(n) ==
  \A s \in Slot : \A f \in pending[n][s] :
    /\ f.dst = n /\ f.src[1] = n[1]
    /\ s = SendSlot(n) => horizon[MainOf(n)] <= f.time /\ Covered(f)
    /\ s # SendSlot(n) => s = slot[n]

PendingInv == \A n \in Mgr : PendingOk(n)

SerializedOk(n) ==
  /\ \A f \in serialized[n] : f.dst = n
  /\ serialized[n] # {} => (pc[MainOf(n)] = "start" /\ ~stopped[MainOf(n)]) \/ ~Registered(n)

SerializedInv == \A n \in Mgr : SerializedOk(n)

BufferOk(p) ==
  \A q \in Proc : \A f \in sendBuf[p][q] :
    /\ f.dst[1] = q /\ f.src[1] = p
    /\ Covered(f) /\ horizon[Main(p)] <= f.time
    /\ InEpoch(p) \/ pc[Main(p)] = "vote" \/ stopped[Main(p)]

BufferInv == \A p \in Proc : BufferOk(p)

(***************************************************************************)
(* A message is of the epoch its sender brings to the reduction, or of the *)
(* one its receiver comes from; the tags tell them apart.                  *)
(***************************************************************************)
EpochTag(p) == IF pc[Main(p)] = "recv" THEN NextTag(tag[p]) ELSE tag[p]

TagInv == \A p, q \in Proc : EpochTag(p) = EpochTag(q)

Fresh(x) ==
  /\ pc[Main(x.src)] = "reduce" /\ x.tag = tag[x.src] /\ x.dst \in votes[x.src].to
  /\ \A f \in x.evs : horizon[Main(x.src)] <= f.time /\ votes[x.src].time <= f.time
Awaited(x) == pc[Main(x.dst)] = "recv" /\ x.tag = tag[x.dst]

Matching(p) == {x \in net : x.dst = p /\ x.tag = tag[p]}

NetInv ==
  /\ \A x \in net :
       /\ Fresh(x) \/ Awaited(x)
       /\ \A f \in x.evs : f.dst[1] = x.dst /\ horizon[Main(x.dst)] <= f.time
  /\ \A x, y \in net : x.src = y.src /\ x.dst = y.dst /\ x.tag = y.tag => x = y

ReduceInv ==
  \A p \in Proc : pc[Main(p)] = "reduce" =>
    /\ votes[p].time = minTime[Main(p)]
    /\ \A r \in votes[p].to : \E x \in net : x.src = p /\ x.dst = r /\ x.tag = tag[p]

RecvInv ==
  \A p \in Proc : pc[Main(p)] = "recv" =>
    IsFiniteSet(Matching(p)) /\ Cardinality(Matching(p)) = numSent[p]

ThreadInv == WorkerInv /\ TreeInv /\ VoteInv
TimeInv == EpochInv /\ SameBound /\ NotBefore /\ StopInv
FlightInv == SlotInv /\ PendingInv /\ SerializedInv /\ BufferInv
MessageInv == TagInv /\ NetInv /\ ReduceInv /\ RecvInv

IInv == TypeInv /\ ThreadInv /\ TimeInv /\ FlightInv /\ MessageInv

-----------------------------------------------------------------------------
(***************************************************************************)
(* Managers and the tree of threads.                                       *)
(***************************************************************************)
LEMMA MgrFacts ==
  /\ \A p \in Proc : Main(p) \in Mgr /\ Main(p)[1] = p /\ Main(p) \notin WorkerMgr /\ Main(p) \in Mains
  /\ \A m \in Mgr : m[1] \in Proc /\ (m \in WorkerMgr \/ m = Main(m[1]))
  /\ \A m \in WorkerMgr : m \in Mgr
  /\ \A m \in Mains : \E p \in Proc : m = Main(p)
<1>1. NThread \in Nat \ {0}
  BY ConstantAssumption
<1>2. \A i \in 0 .. NThread - 1 : i \in 0 .. NThread - 2 \/ i = NThread - 1
  BY <1>1
<1>3. NThread - 1 \notin 0 .. NThread - 2 /\ NThread - 1 \in 0 .. NThread - 1
  BY <1>1
<1>4. 0 .. NThread - 2 \subseteq 0 .. NThread - 1
  BY <1>1
<1> QED
  BY <1>2, <1>3, <1>4 DEF Mgr, Main, Mains, WorkerMgr, Worker, MainThread

LEMMA ConstantFacts ==
  /\ NoEvents \in Nat /\ Lookahead \in Nat /\ 0 < Lookahead /\ Lookahead < NoEvents
  /\ MaxDelay \in Nat
  /\ StopTimes \subseteq Nat /\ \A u \in StopTimes : u < NoEvents
  /\ \A m \in Mgr : InitialTime[m] \in Nat /\ InitialTime[m] < NoEvents
  /\ \A m, n \in Mgr : m # n => Latency[<<m, n>>] \in Nat /\ Lookahead <= Latency[<<m, n>>]
BY ConstantAssumption

LEMMA ChildFacts ==
  ASSUME NEW m \in Mgr, NEW c \in Children(m)
  PROVE  /\ c \in WorkerMgr /\ c \in Mgr /\ c[1] = m[1] /\ c # m
         /\ \A n \in Mgr : c \in Children(n) => n = m
<1>1. NThread \in Nat \ {0}
  BY ConstantAssumption
<1>2. PICK p \in Proc, i \in 0 .. NThread - 1 : m = <<p, i>>
  BY DEF Mgr
<1>3. PICK w \in Worker :
        /\ c = <<p, w>>
        /\ w \in IF i = NThread - 1 THEN {0, 1} ELSE {2 * i + 2, 2 * i + 3}
  BY <1>2 DEF Children, MainThread
<1>4. w \in 0 .. NThread - 2 /\ w \in Nat /\ i \in Nat /\ w # i
  BY <1>1, <1>3 DEF Worker
<1>5. ASSUME NEW n \in Mgr, c \in Children(n)
      PROVE  n = m
  <2>1. PICK q \in Proc, j \in 0 .. NThread - 1 : n = <<q, j>>
    BY DEF Mgr
  <2>2. q = p /\ w \in IF j = NThread - 1 THEN {0, 1} ELSE {2 * j + 2, 2 * j + 3}
    BY <1>3, <1>5, <2>1 DEF Children, MainThread
  <2>3. j = i
    BY <1>1, <1>3, <1>4, <2>2
  <2> QED
    BY <1>2, <2>1, <2>2, <2>3
<1>6. c \in WorkerMgr
  BY <1>3 DEF WorkerMgr
<1> QED
  BY <1>2, <1>3, <1>4, <1>5, <1>6, MgrFacts

\* A worker is the child of the main thread or of a worker before it.
LEMMA HasParent ==
  ASSUME NEW c \in WorkerMgr
  PROVE  \E m \in Mgr :
           /\ c \in Children(m)
           /\ m = Main(c[1]) \/ (m \in WorkerMgr /\ m[1] = c[1] /\ m[2] \in Nat /\ m[2] < c[2])
<1>1. NThread \in Nat \ {0}
  BY ConstantAssumption
<1>2. PICK p \in Proc, w \in 0 .. NThread - 2 : c = <<p, w>>
  BY DEF WorkerMgr, Worker
<1>3. w \in Nat
  BY <1>1
<1>4. CASE w \in {0, 1}
  <2>1. c \in Children(<<p, NThread - 1>>)
    BY <1>2, <1>4 DEF Children, MainThread, Worker
  <2>2. Main(c[1]) = <<p, NThread - 1>> /\ Main(c[1]) \in Mgr
    BY <1>2, MgrFacts DEF Main, MainThread
  <2> QED
    BY <2>1, <2>2
<1>5. CASE w \notin {0, 1}
  <2>1. PICK i \in Nat : w \in {2 * i + 2, 2 * i + 3}
    <3>1. w >= 2
      BY <1>3, <1>5
    <3>2. w = 2 * ((w - 2) \div 2) + 2 \/ w = 2 * ((w - 2) \div 2) + 3
      BY <1>3, <3>1
    <3>3. (w - 2) \div 2 \in Nat
      BY <1>3, <3>1
    <3> QED
      BY <3>2, <3>3
  <2>2. i \in 0 .. NThread - 2 /\ i # NThread - 1 /\ i < w
    BY <1>1, <1>2, <2>1
  <2>3. <<p, i>> \in WorkerMgr /\ c \in Children(<<p, i>>)
    BY <1>2, <2>1, <2>2 DEF WorkerMgr, Worker, Children, MainThread
  <2> QED
    BY <1>2, <2>2, <2>3, MgrFacts
<1> QED
  BY <1>4, <1>5

\* Every set of natural numbers that is not empty has a least element.
LEMMA LeastElement ==
  ASSUME NEW T, T \subseteq Nat, T # {}
  PROVE  Least(T) \in T /\ \A y \in T : Least(T) <= y
<1> DEFINE R == OpToRel(<, Nat)
<1>1. IsWellFoundedOn(R, Nat)
  BY NatLessThanWellFounded, Zenon
<1>2. \A x, y \in Nat : x < y => <<x, y>> \in R
  BY DEF OpToRel
<1> HIDE DEF R
<1>3. PICK x \in T : \A y \in T : ~ (<<y, x>> \in R)
  BY <1>1, WFMin
<1>4. ASSUME NEW y \in T PROVE x <= y
  <2>1. x \in Nat /\ y \in Nat
    OBVIOUS
  <2>2. ~(y < x)
    BY <1>2, <1>3, <2>1
  <2> QED
    BY <2>1, <2>2
<1> QED
  BY <1>4 DEF Least

(***************************************************************************)
(* Whatever holds of the children of the main thread, and of the children  *)
(* of a worker that has it, holds of all workers of the process.           *)
(***************************************************************************)
LEMMA DownTheTree ==
  ASSUME NEW p \in Proc, NEW Good,
         \A c \in Children(Main(p)) : c \in Good,
         \A m \in WorkerMgr : m[1] = p /\ m \in Good => \A c \in Children(m) : c \in Good
  PROVE  \A m \in WorkerMgr : m[1] = p => m \in Good
<1> DEFINE Bad == {m[2] : m \in {n \in WorkerMgr : n[1] = p /\ n \notin Good}}
<1> SUFFICES ASSUME NEW m \in WorkerMgr, m[1] = p, m \notin Good PROVE FALSE
  OBVIOUS
<1>1. \A n \in WorkerMgr : n[2] \in Nat
  BY ConstantAssumption DEF WorkerMgr, Worker
<1>2. Bad \subseteq Nat /\ Bad # {}
  BY <1>1
<1> HIDE DEF Bad
<1>3. Least(Bad) \in Bad /\ \A y \in Bad : Least(Bad) <= y
  BY <1>2, LeastElement
<1>4. PICK n \in WorkerMgr : n[1] = p /\ n \notin Good /\ n[2] = Least(Bad)
  BY <1>3 DEF Bad
<1>5. PICK q \in Mgr :
        /\ n \in Children(q)
        /\ q = Main(p) \/ (q \in WorkerMgr /\ q[1] = p /\ q[2] \in Nat /\ q[2] < n[2])
  BY <1>4, HasParent
<1>6. q # Main(p)
  BY <1>4, <1>5
<1>7. q \in WorkerMgr /\ q[1] = p /\ q \notin Good
  BY <1>4, <1>5, <1>6
<1>8. q[2] \in Bad
  BY <1>7 DEF Bad
<1>9. n[2] <= q[2] /\ q[2] < n[2] /\ n[2] \in Nat /\ q[2] \in Nat
  BY <1>1, <1>3, <1>4, <1>5, <1>6, <1>8
<1> QED
  BY <1>9

-----------------------------------------------------------------------------
(***************************************************************************)
(* The initial states.                                                     *)
(***************************************************************************)
LEMMA Initially ==
  Init => IInv
<1> SUFFICES ASSUME Init PROVE IInv
  OBVIOUS
<1>0. PICK first \in SUBSET Mgr, until \in StopTimes :
        queue = [m \in Mgr |->
                  (IF m \in first THEN {Event(InitialTime[m], m, m, 0)} ELSE {}) \cup
                  (IF until > 0 THEN {StopEvent(until, m)} ELSE {})]
  BY DEF Init
<1>1. \A m \in Mgr : \A e \in queue[m] :
        /\ e \in AnyEvent
        /\ e.dst = m
        /\ e.seqnum = 0
        /\ e.stop => until > 0 /\ e = StopEvent(until, m)
  <2> SUFFICES ASSUME NEW m \in Mgr, NEW e \in queue[m]
               PROVE  /\ e \in AnyEvent
                      /\ e.dst = m
                      /\ e.seqnum = 0
                      /\ e.stop => until > 0 /\ e = StopEvent(until, m)
    OBVIOUS
  <2>1. CASE e = Event(InitialTime[m], m, m, 0)
    BY <2>1, ConstantFacts DEF Event, AnyEvent
  <2>2. CASE until > 0 /\ e = StopEvent(until, m)
    BY <2>2, ConstantFacts DEF StopEvent, AnyEvent
  <2> QED
    BY <1>0, <2>1, <2>2
<1>2. /\ \A p \in Proc : /\ pc[Main(p)] = "start" /\ ~stopped[Main(p)]
                         /\ horizon[Main(p)] = 0 /\ lowerBound[p] = 0 /\ lastHorizon[p] = 0
      /\ \A m \in WorkerMgr : pc[m] = "wait" /\ delta[m] = 0
      /\ \A m \in Mgr : pc[m] \in {"start", "wait"} /\ horizon[m] = 0 /\ minIpc[m] = NoEvents
  BY MgrFacts DEF Init, WorkerMgr, Worker, Main, MainThread
<1>3. \A p \in Proc : ~InEpoch(p) /\ ~Exchanging(p) /\ ~Opened(p) /\ Bound(p) = 0
  BY <1>2 DEF InEpoch, Exchanging, Opened, Bound
<1>4. \A m \in Mgr : Current(m) /\ Registered(m)
  BY <1>2, MgrFacts DEF Current, Registered, MainOf
<1>5. Unhandled = UNION {queue[m] : m \in Mgr}
  <2>1. \A m \in Mgr : Held(m) = queue[m]
    BY DEF Held, Init
  <2>2. Packed = {}
    BY DEF Packed, Init
  <2> QED
    BY <2>1, <2>2 DEF Unhandled
<1>6. ManagerTypes
  <2>1. pc \in [Mgr -> PC]
    BY DEF Init, PC
  <2>2. queue \in [Mgr -> SUBSET AnyEvent]
    BY <1>0, <1>1
  <2>3. slot \in [Mgr -> Slot]
    BY DEF Init, Slot, SLOTS
  <2> QED
    BY <2>1, <2>2, <2>3, ConstantFacts DEF Init, ManagerTypes
<1>7. ProcessTypes
  BY ConstantFacts DEF Init, ProcessTypes
<1>8. ThreadInv
  <2>1. \A m \in WorkerMgr : Idle(m)
    BY <1>2, <1>4, MgrFacts DEF Idle
  <2>2. WorkerInv
    BY <2>1 DEF WorkerInv, WorkerOk
  <2>3. TreeInv
    BY <1>3, <2>1, ChildFacts, MgrFacts DEF TreeInv, TreeOk, RootOk, Behind, Called, Busy
  <2>4. VoteInv
    BY <1>2, <1>3, MgrFacts DEF VoteInv, VoteOk, Finished
  <2> QED
    BY <2>2, <2>3, <2>4 DEF ThreadInv
<1>9. TimeInv
  <2>1. EpochInv
    BY <1>2, <1>3, ConstantFacts DEF EpochInv, EpochOk
  <2>2. SameBound
    BY <1>3 DEF SameBound
  <2>3. NotBefore
    <3>1. seqnum = 1
      BY DEF Init
    <3> QED
      BY <1>1, <1>3, <1>5, <3>1 DEF NotBefore, AnyEvent
  <2>4. StopInv
    <3>1. \A m \in Mgr : ~stopped[m] /\ (until > 0 => StopEvent(until, m) \in queue[m])
      BY <1>0 DEF Init
    <3>2. StopsAt(until)
      BY <1>1, <3>1 DEF StopsAt, StopsFor
    <3> QED
      BY <3>1, <3>2, MgrFacts DEF StopInv, StoppedOk, MainOf
  <2> QED
    BY <2>1, <2>2, <2>3, <2>4 DEF TimeInv
<1>10. FlightInv
  <2>1. SlotInv
    BY <1>4 DEF SlotInv, SendSlot, Init
  <2> QED
    BY <2>1 DEF FlightInv, PendingInv, PendingOk, SerializedInv, SerializedOk, BufferInv, BufferOk, Init
<1>11. MessageInv
  <2>1. TagInv
    BY <1>2 DEF TagInv, EpochTag, Init
  <2>2. NetInv /\ ReduceInv /\ RecvInv
    BY <1>2 DEF NetInv, ReduceInv, RecvInv, Init
  <2> QED
    BY <2>1, <2>2 DEF MessageInv
<1> QED
  BY <1>6, <1>7, <1>8, <1>9, <1>10, <1>11 DEF IInv, TypeInv

-----------------------------------------------------------------------------
(***************************************************************************)
(* Types are kept.                                                         *)
(***************************************************************************)
LEMMA SignalType ==
  ASSUME ManagerTypes, NEW m \in Mgr, NEW d \in Nat
  PROVE  Signal(m, d) \in [WorkerMgr -> Nat]
BY DEF Signal, ManagerTypes

LEMMA NextSlotType ==
  /\ \A s \in Slot : NextSlot(s) \in Slot /\ NextSlot(s) # s
  /\ \A s, t \in Slot : NextSlot(s) = NextSlot(t) => s = t
BY DEF Slot, SLOTS, NextSlot

\* The event that a handler sends while it handles e.
LEMMA NewEvent ==
  ASSUME TypeInv, NEW m \in Mgr, NEW e \in AnyEvent, NEW n \in Mgr, NEW delay \in 0 .. MaxDelay,
         Arrival(m, n, e.time, delay) < NoEvents,
         NEW f, f = Event(Arrival(m, n, e.time, delay), m, n, seqnum)
  PROVE  /\ f \in SentEvent
         /\ f.src = m /\ f.dst = n /\ f.seqnum = seqnum
         /\ e.time <= f.time /\ (n # m => e.time + Lookahead <= f.time)
<1>1. e.time \in Nat /\ delay \in Nat
  BY ConstantFacts DEF AnyEvent
<1>2. /\ Arrival(m, n, e.time, delay) \in Nat
      /\ e.time <= Arrival(m, n, e.time, delay)
      /\ n # m => e.time + Lookahead <= Arrival(m, n, e.time, delay)
  BY <1>1, ConstantFacts DEF Arrival
<1>3. seqnum \in Nat
  BY DEF TypeInv, ManagerTypes
<1> QED
  BY <1>2, <1>3, ConstantFacts DEF Event, SentEvent, AnyEvent

\* What Execute does: handle the next event, and perhaps send another one.
Quiet(m, e) ==
  /\ queue' = [queue EXCEPT ![m] = @ \ {e}]
  /\ UNCHANGED <<seqnum, minIpc, pending, sendBuf>>

LEMMA ExecuteCases ==
  ASSUME TypeInv, NEW m \in Mgr, Execute(m)
  PROVE  \E e \in queue[m] :
           /\ e \in AnyEvent /\ e.time < horizon[m] /\ IsNext(e, m) /\ ~e.stop
           /\ now' = [now EXCEPT ![m] = e.time]
           /\ \/ Quiet(m, e)
              \/ \E n \in Mgr : \E f \in SentEvent :
                   /\ Send(m, e, f)
                   /\ f.src = m /\ f.dst = n /\ f.seqnum = seqnum
                   /\ e.time <= f.time /\ (n # m => e.time + Lookahead <= f.time)
<1>1. PICK e \in Due(m) :
        /\ IsNext(e, m)
        /\ ~e.stop
        /\ now' = [now EXCEPT ![m] = e.time]
        /\ \/ Quiet(m, e)
           \/ \E n \in Mgr, delay \in 0 .. MaxDelay :
                /\ Arrival(m, n, e.time, delay) < NoEvents
                /\ Send(m, e, Event(Arrival(m, n, e.time, delay), m, n, seqnum))
  BY DEF Execute, Quiet
<1>2. e \in queue[m] /\ e.time < horizon[m] /\ e \in AnyEvent
  BY <1>1 DEF Due, TypeInv, ManagerTypes
<1>3. ASSUME NEW n \in Mgr, NEW delay \in 0 .. MaxDelay,
             Arrival(m, n, e.time, delay) < NoEvents,
             Send(m, e, Event(Arrival(m, n, e.time, delay), m, n, seqnum))
      PROVE  \E f \in SentEvent :
               /\ Send(m, e, f)
               /\ f.src = m /\ f.dst = n /\ f.seqnum = seqnum
               /\ e.time <= f.time /\ (n # m => e.time + Lookahead <= f.time)
  <2> DEFINE f == Event(Arrival(m, n, e.time, delay), m, n, seqnum)
  <2>1. /\ f \in SentEvent
        /\ f.src = m /\ f.dst = n /\ f.seqnum = seqnum
        /\ e.time <= f.time /\ (n # m => e.time + Lookahead <= f.time)
    BY <1>2, <1>3, NewEvent
  <2>2. Send(m, e, f)
    BY <1>3
  <2> HIDE DEF f
  <2> QED
    BY <2>1, <2>2
<1> QED
  BY <1>1, <1>2, <1>3

LEMMA ExecuteTypes ==
  ASSUME TypeInv, NEW m \in Mgr, Execute(m)
  PROVE  TypeInv'
<1>1. PICK e \in queue[m] :
        /\ e \in AnyEvent
        /\ now' = [now EXCEPT ![m] = e.time]
        /\ Quiet(m, e) \/ \E f \in SentEvent : f.dst \in Mgr /\ Send(m, e, f)
  BY ExecuteCases, Zenon
<1>2. now' \in [Mgr -> Nat]
  BY <1>1, ConstantFacts DEF TypeInv, ManagerTypes, AnyEvent
<1>3. UNCHANGED <<pc, slot, serialized, stopped, treeVars, procVars, net>>
  BY DEF Execute
<1>4. CASE Quiet(m, e)
  BY <1>2, <1>3, <1>4 DEF Quiet, TypeInv, ManagerTypes, ProcessTypes, treeVars, procVars
<1>5. ASSUME NEW f \in SentEvent, f.dst \in Mgr, Send(m, e, f)
      PROVE  TypeInv'
  <2>1. f \in AnyEvent /\ f.time \in 0 .. NoEvents
    BY ConstantFacts DEF SentEvent, AnyEvent
  <2>2. queue' \in [Mgr -> SUBSET AnyEvent] /\ seqnum' \in Nat
    BY <1>5, <2>1 DEF Send, TypeInv, ManagerTypes
  <2>3. minIpc' \in [Mgr -> 0 .. NoEvents]
    <3>1. MinIpcAfter(m, f) \in 0 .. NoEvents
      BY <2>1 DEF MinIpcAfter, Min, TypeInv, ManagerTypes
    <3> QED
      BY <1>5, <3>1 DEF Send, TypeInv, ManagerTypes
  <2>4. pending' \in [Mgr -> [Slot -> SUBSET SentEvent]]
    BY <1>5 DEF Send, TypeInv, ManagerTypes
  <2>5. sendBuf' \in [Proc -> [Proc -> SUBSET SentEvent]]
    <3>1. m[1] \in Proc /\ f.dst[1] \in Proc
      BY <1>5, MgrFacts
    <3> QED
      BY <1>5, <3>1 DEF Send, TypeInv, ProcessTypes
  <2>6. ManagerTypes'
    BY <1>2, <1>3, <2>2, <2>3, <2>4 DEF TypeInv, ManagerTypes, treeVars
  <2>7. ProcessTypes'
    BY <1>3, <2>5 DEF TypeInv, ProcessTypes, procVars
  <2> QED
    BY <2>6, <2>7 DEF TypeInv
<1> QED
  BY <1>1, <1>4, <1>5

LEMMA ThreadTypes ==
  ASSUME TypeInv, NEW m \in Mgr,
         registerPending(m) \/ Stop(m) \/ FinishRun(m) \/ (m \in WorkerMgr /\ (Wake(m) \/ JoinWorker(m)))
  PROVE  TypeInv'
<1>1. CASE registerPending(m)
  <2>1. NextSlot(slot[m]) \in Slot
    BY NextSlotType DEF TypeInv, ManagerTypes
  <2>2. SentEvent \subseteq AnyEvent
    BY DEF SentEvent
  <2>3. queue' \in [Mgr -> SUBSET AnyEvent]
    BY <1>1, <2>2 DEF registerPending, TypeInv, ManagerTypes
  <2>4. pending' \in [Mgr -> [Slot -> SUBSET SentEvent]] /\ serialized' \in [Mgr -> SUBSET SentEvent]
    BY <1>1 DEF registerPending, TypeInv, ManagerTypes
  <2>5. slot' \in [Mgr -> Slot] /\ minIpc' \in [Mgr -> 0 .. NoEvents] /\ pc' \in [Mgr -> PC]
    BY <1>1, <2>1, ConstantFacts DEF registerPending, TypeInv, ManagerTypes, PC
  <2>6. UNCHANGED <<now, stopped, seqnum, treeVars, procVars, sendBuf, net>>
    BY <1>1 DEF registerPending
  <2>7. ManagerTypes'
    BY <2>3, <2>4, <2>5, <2>6 DEF TypeInv, ManagerTypes, treeVars
  <2>8. ProcessTypes'
    BY <2>6 DEF TypeInv, ProcessTypes, procVars
  <2> QED
    BY <2>7, <2>8 DEF TypeInv
<1>2. CASE Stop(m)
  <2>1. PICK e \in queue[m] : now' = [now EXCEPT ![m] = e.time]
    BY <1>2 DEF Stop, Due
  <2>2. e.time \in Nat
    BY ConstantFacts DEF TypeInv, ManagerTypes, AnyEvent
  <2> QED
    BY <1>2, <2>1, <2>2, ConstantFacts DEF Stop, TypeInv, ManagerTypes, ProcessTypes, treeVars, procVars
<1>3. CASE FinishRun(m)
  <2>1. MinEventTime(m) \in 0 .. NoEvents
    <3>1. CASE queue[m] = {}
      BY <3>1, ConstantFacts DEF MinEventTime
    <3>2. CASE queue[m] # {}
      <4>1. \A e \in queue[m] : e.time \in 0 .. NoEvents
        BY ConstantFacts DEF TypeInv, ManagerTypes, AnyEvent
      <4>2. {e.time : e \in queue[m]} \subseteq Nat /\ {e.time : e \in queue[m]} # {}
        BY <3>2, <4>1, ConstantFacts
      <4>3. Least({e.time : e \in queue[m]}) \in {e.time : e \in queue[m]}
        BY <4>2, LeastElement
      <4> QED
        BY <3>2, <4>1, <4>3 DEF MinEventTime
    <3> QED
      BY <3>1, <3>2
  <2>2. Min(minIpc[m], MinEventTime(m)) \in 0 .. NoEvents
    BY <2>1 DEF Min, TypeInv, ManagerTypes
  <2> QED
    BY <1>3, <2>2 DEF FinishRun, TypeInv, ManagerTypes, ProcessTypes, mgrVars, procVars, PC
<1>4. CASE m \in WorkerMgr /\ Wake(m)
  <2>1. delta[m] \in Nat
    BY <1>4 DEF TypeInv, ManagerTypes
  <2>2. delta' \in [WorkerMgr -> Nat]
    BY <1>4, <2>1, SignalType DEF Wake, TypeInv
  <2>3. pc' \in [Mgr -> PC] /\ horizon' \in [Mgr -> Nat]
    <3>1. CASE delta[m] = terminate_sentinel
      BY <1>4, <3>1 DEF Wake, TypeInv, ManagerTypes, PC
    <3>2. CASE delta[m] # terminate_sentinel
      <4>1. horizon[m] + delta[m] \in Nat
        BY <2>1 DEF TypeInv, ManagerTypes
      <4>2. /\ pc' = [pc EXCEPT ![m] = "register"]
            /\ horizon' = [horizon EXCEPT ![m] = horizon[m] + delta[m]]
        BY <1>4, <3>2 DEF Wake
      <4> QED
        BY <4>1, <4>2 DEF TypeInv, ManagerTypes, PC
    <3> QED
      BY <3>1, <3>2
  <2> QED
    BY <1>4, <2>2, <2>3 DEF Wake, TypeInv, ManagerTypes, ProcessTypes, mgrVars, procVars
<1>5. CASE m \in WorkerMgr /\ JoinWorker(m)
  <2>1. JoinedTime(m) \in 0 .. NoEvents
    <3> DEFINE T == {minTime[m]} \cup {minTime[c] : c \in Children(m)}
    <3>1. T \subseteq 0 .. NoEvents
      BY ChildFacts DEF TypeInv, ManagerTypes
    <3>2. T \subseteq Nat /\ T # {}
      BY <3>1, ConstantFacts
    <3>3. JoinedTime(m) = Least(T)
      BY DEF JoinedTime
    <3> HIDE DEF T
    <3> QED
      BY <3>1, <3>2, <3>3, LeastElement
  <2> QED
    BY <1>5, <2>1 DEF JoinWorker, TypeInv, ManagerTypes, ProcessTypes, mgrVars, procVars, PC
<1> QED
  BY <1>1, <1>2, <1>3, <1>4, <1>5

LEMMA JoinMainTypes ==
  ASSUME TypeInv, NEW p \in Proc, JoinMain(p)
  PROVE  TypeInv'
<1> DEFINE m == Main(p)
           T == {minTime[m]} \cup {minTime[c] : c \in Children(m)}
<1>0. m \in Mgr
  BY MgrFacts
<1> HIDE DEF m
<1>1. T \subseteq 0 .. NoEvents
  BY <1>0, ChildFacts DEF TypeInv, ManagerTypes
<1>2. T \subseteq Nat /\ T # {}
  BY <1>1, ConstantFacts
<1>3. JoinedTime(m) = Least(T)
  BY DEF JoinedTime
<1> HIDE DEF T
<1>4. JoinedTime(m) \in 0 .. NoEvents
  BY <1>1, <1>2, <1>3, LeastElement
<1>5. minTime' \in [Mgr -> 0 .. NoEvents]
  BY <1>0, <1>4 DEF JoinMain, m, TypeInv, ManagerTypes
<1>6. UNCHANGED <<mgrVars, horizon, delta, votes, numSent, tag, sendBuf, net>>
  BY DEF JoinMain
<1>7. CASE stopped[m] /\ Multithreaded
  <2>1. /\ pc' = [pc EXCEPT ![m] = "start"]
        /\ lowerBound' = [lowerBound EXCEPT ![p] = NoEvents]
        /\ lastHorizon' = [lastHorizon EXCEPT ![p] = horizon[m]]
    BY <1>7 DEF JoinMain, m
  <2>2. /\ pc' \in [Mgr -> PC]
        /\ lowerBound' \in [Proc -> 0 .. NoEvents]
        /\ lastHorizon' \in [Proc -> Nat]
    BY <1>0, <2>1, ConstantFacts DEF TypeInv, ManagerTypes, ProcessTypes, PC
  <2> QED
    BY <1>5, <1>6, <2>2 DEF TypeInv, ManagerTypes, ProcessTypes, mgrVars
<1>8. CASE ~(stopped[m] /\ Multithreaded)
  <2>1. /\ pc' = [pc EXCEPT ![m] = IF stopped[m] THEN "abort" ELSE "vote"]
        /\ UNCHANGED <<lowerBound, lastHorizon>>
    BY <1>8 DEF JoinMain, m
  <2>2. pc' \in [Mgr -> PC]
    BY <1>0, <2>1 DEF TypeInv, ManagerTypes, PC
  <2> QED
    BY <1>5, <1>6, <2>1, <2>2 DEF TypeInv, ManagerTypes, ProcessTypes, mgrVars
<1> QED
  BY <1>7, <1>8

LEMMA StartTypes ==
  ASSUME TypeInv, EpochInv, NEW p \in Proc, StartEpoch(p) \/ EndRun(p)
  PROVE  TypeInv'
<1> DEFINE m == Main(p)
           h == lowerBound[p] + Lookahead
<1>0. m \in Mgr
  BY MgrFacts
<1>1. CASE StartEpoch(p)
  <2>1. pc[m] = "start" /\ lowerBound[p] # NoEvents
    BY <1>1 DEF StartEpoch
  <2>2. h \in Nat /\ lastHorizon[p] \in Nat /\ lastHorizon[p] <= h /\ h - lastHorizon[p] \in Nat
    <3>1. lastHorizon[p] = horizon[m] /\ ~stopped[m] /\ horizon[m] \in Nat /\ lowerBound[p] \in Nat
      BY <1>0, <2>1, ConstantFacts DEF EpochInv, EpochOk, TypeInv, ManagerTypes, ProcessTypes
    <3>2. ~Opened(p)
      BY <2>1, <3>1 DEF Opened, InEpoch, Exchanging
    <3>3. horizon[m] <= lowerBound[p]
      BY <2>1, <3>2 DEF EpochInv, EpochOk
    <3> QED
      BY <3>1, <3>3, ConstantFacts
  <2>3. Horizon(p) = h
    BY DEF Horizon
  <2>4. \/ pc' = [pc EXCEPT ![m] = "abort"] /\ UNCHANGED <<horizon, delta>>
        \/ /\ pc' = [pc EXCEPT ![m] = "register"]
           /\ horizon' = [horizon EXCEPT ![m] = h]
           /\ delta' = Signal(m, h - lastHorizon[p])
    BY <1>1, <2>3 DEF StartEpoch
  <2>5. UNCHANGED <<mgrVars, minTime, procVars, sendBuf, net>>
    BY <1>1 DEF StartEpoch
  <2>6. Signal(m, h - lastHorizon[p]) \in [WorkerMgr -> Nat]
    BY <1>0, <2>2, SignalType DEF TypeInv
  <2> HIDE DEF m, h
  <2>7. pc' \in [Mgr -> PC] /\ horizon' \in [Mgr -> Nat] /\ delta' \in [WorkerMgr -> Nat]
    <3>1. pc \in [Mgr -> PC] /\ horizon \in [Mgr -> Nat] /\ delta \in [WorkerMgr -> Nat]
      BY DEF TypeInv, ManagerTypes
    <3>2. "abort" \in PC /\ "register" \in PC
      BY DEF PC
    <3> QED
      BY <1>0, <2>2, <2>4, <2>6, <3>1, <3>2
  <2> QED
    BY <2>5, <2>7 DEF TypeInv, ManagerTypes, ProcessTypes, mgrVars, procVars
<1>2. CASE EndRun(p)
  <2>1. Signal(m, terminate_sentinel) \in [WorkerMgr -> Nat]
    BY <1>0, SignalType, ConstantFacts DEF TypeInv, terminate_sentinel
  <2>2. pc' \in [Mgr -> PC] /\ delta' \in [WorkerMgr -> Nat]
    BY <1>0, <1>2, <2>1 DEF EndRun, TypeInv, ManagerTypes, PC
  <2> QED
    BY <1>2, <2>2 DEF EndRun, TypeInv, ManagerTypes, ProcessTypes, mgrVars, procVars
<1> QED
  BY <1>1, <1>2

LEMMA ExchangeTypes ==
  ASSUME TypeInv, NEW p \in Proc, SendMessages(p) \/ ReceiveMessages(p)
  PROVE  TypeInv'
<1> DEFINE m == Main(p)
<1>0. m \in Mgr
  BY MgrFacts
<1>1. CASE SendMessages(p)
  <2>1. Filled(p) \subseteq Proc
    BY DEF Filled
  <2>2. \A q \in Proc : Message(p, q) \in [src : Proc, dst : Proc, tag : {0, 1}, evs : SUBSET SentEvent]
    BY DEF Message, TypeInv, ProcessTypes
  <2>3. net' \subseteq [src : Proc, dst : Proc, tag : {0, 1}, evs : SUBSET SentEvent]
    BY <1>1, <2>1, <2>2 DEF SendMessages, TypeInv, ProcessTypes
  <2>4. minTime[m] \in 0 .. NoEvents
    BY <1>0 DEF TypeInv, ManagerTypes
  <2>5. votes' \in [Proc -> [time : 0 .. NoEvents, to : SUBSET Proc]]
    BY <1>1, <2>1, <2>4 DEF SendMessages, TypeInv, ProcessTypes
  <2>6. sendBuf' \in [Proc -> [Proc -> SUBSET SentEvent]]
    BY <1>1 DEF SendMessages, TypeInv, ProcessTypes
  <2>7. pc' \in [Mgr -> PC]
    BY <1>0, <1>1 DEF SendMessages, TypeInv, ManagerTypes, PC
  <2>8. UNCHANGED <<mgrVars, treeVars, lowerBound, lastHorizon, numSent, tag>>
    BY <1>1 DEF SendMessages
  <2> QED
    BY <2>3, <2>5, <2>6, <2>7, <2>8 DEF TypeInv, ManagerTypes, ProcessTypes, mgrVars, treeVars
<1>2. CASE ReceiveMessages(p)
  <2>1. PICK R \in SUBSET {x \in net : x.dst = p /\ x.tag = tag[p]} :
          /\ net' = net \ R
          /\ IF Multithreaded
             THEN /\ serialized' = [n \in Mgr |-> serialized[n] \cup
                                      IF n[1] = p THEN EventsFor(n, R) ELSE {}]
                  /\ UNCHANGED queue
             ELSE /\ queue' = [queue EXCEPT ![m] = @ \cup EventsFor(m, R)]
                  /\ UNCHANGED serialized
    BY <1>2 DEF ReceiveMessages
  <2>2. \A n \in Mgr : EventsFor(n, R) \subseteq SentEvent
    BY <2>1 DEF EventsFor, TypeInv, ProcessTypes
  <2>3. SentEvent \subseteq AnyEvent
    BY DEF SentEvent
  <2> HIDE DEF m
  <2>4. serialized' \in [Mgr -> SUBSET SentEvent] /\ queue' \in [Mgr -> SUBSET AnyEvent]
    <3>1. CASE Multithreaded
      BY <2>1, <2>2, <3>1 DEF TypeInv, ManagerTypes
    <3>2. CASE ~Multithreaded
      <4>1. EventsFor(m, R) \subseteq AnyEvent
        BY <1>0, <2>2, <2>3
      <4>2. queue' = [queue EXCEPT ![m] = queue[m] \cup EventsFor(m, R)] /\ serialized' = serialized
        BY <2>1, <3>2
      <4> QED
        BY <1>0, <4>1, <4>2 DEF TypeInv, ManagerTypes
    <3> QED
      BY <3>1, <3>2
  <2>5. tag' \in [Proc -> {0, 1}]
    <3>0. tag[p] = 0 \/ tag[p] = 1
      BY DEF TypeInv, ProcessTypes
    <3>1. 1 - tag[p] \in {0, 1}
      BY <3>0
    <3>2. tag' = [tag EXCEPT ![p] = 1 - tag[p]]
      BY <1>2 DEF ReceiveMessages, NextTag
    <3> QED
      BY <3>1, <3>2 DEF TypeInv, ProcessTypes
  <2>6. pc' \in [Mgr -> PC] /\ lastHorizon' \in [Proc -> Nat]
    BY <1>0, <1>2 DEF ReceiveMessages, TypeInv, ManagerTypes, ProcessTypes, PC, m
  <2>7. UNCHANGED <<now, slot, pending, minIpc, stopped, seqnum, treeVars, lowerBound,
                    votes, numSent, sendBuf>>
    BY <1>2 DEF ReceiveMessages
  <2>8. net' \subseteq net
    BY <2>1
  <2> QED
    BY <2>4, <2>5, <2>6, <2>7, <2>8 DEF TypeInv, ManagerTypes, ProcessTypes, treeVars
<1> QED
  BY <1>1, <1>2

\* The reduction gives every process the earliest vote.
LEMMA ReduceTypes ==
  ASSUME TypeInv, Reduce
  PROVE  /\ TypeInv'
         /\ \A p \in Proc :
              /\ \E q \in Proc : lowerBound'[p] = votes[q].time
              /\ \A q \in Proc : lowerBound'[p] <= votes[q].time
              /\ \A q \in Proc : lowerBound'[p] = lowerBound'[q]
<1> DEFINE T == {votes[q].time : q \in Proc}
<1>1. T \subseteq 0 .. NoEvents
  BY DEF TypeInv, ProcessTypes
<1>2. T \subseteq Nat
  BY <1>1, ConstantFacts
<1>3. lowerBound' = [p \in Proc |-> Least(T)]
  BY DEF Reduce
<1>4. ASSUME NEW p \in Proc
      PROVE  Least(T) \in T /\ \A y \in T : Least(T) <= y
  <2>1. T # {}
    BY <1>4
  <2> HIDE DEF T
  <2> QED
    BY <1>2, <2>1, LeastElement
<1>5. lowerBound' \in [Proc -> 0 .. NoEvents]
  <2> HIDE DEF T
  <2> QED
    BY <1>1, <1>3, <1>4
<1>6. pc' \in [Mgr -> PC]
  BY DEF Reduce, TypeInv, ManagerTypes, PC
<1>7. UNCHANGED <<mgrVars, treeVars, lastHorizon, votes, tag, sendBuf, net>>
  BY DEF Reduce
<1>8. TypeInv'
  BY <1>5, <1>6, <1>7 DEF TypeInv, ManagerTypes, ProcessTypes, mgrVars, treeVars
<1> QED
  BY <1>3, <1>4, <1>8

-----------------------------------------------------------------------------
(***************************************************************************)
(* What a step leaves alone.                                               *)
(***************************************************************************)
LEMMA UnhandledMembers ==
  \A e : e \in Unhandled <=>
    \/ \E m \in Mgr : \/ e \in queue[m]
                      \/ e \in serialized[m]
                      \/ \E s \in Slot : e \in pending[m][s]
    \/ \E p, q \in Proc : e \in sendBuf[p][q]
    \/ \E x \in net : e \in x.evs
<1> TAKE e
<1>1. ASSUME NEW m \in Mgr
      PROVE  e \in Held(m) <=> \/ e \in queue[m]
                                \/ e \in serialized[m]
                                \/ \E s \in Slot : e \in pending[m][s]
  BY DEF Held
<1> DEFINE Buffered(p) == UNION {sendBuf[p][q] : q \in Proc}
           AllBuffered == UNION {Buffered(p) : p \in Proc}
           AllSent == UNION {x.evs : x \in net}
           AllHeld == UNION {Held(m) : m \in Mgr}
<1>2. Unhandled = AllHeld \cup (AllBuffered \cup AllSent)
  BY Zenon DEF Unhandled, Packed
<1>3. \A p \in Proc : e \in Buffered(p) <=> \E q \in Proc : e \in sendBuf[p][q]
  BY Zenon
<1> HIDE DEF Buffered
<1>4. e \in AllBuffered <=> \E p \in Proc : e \in Buffered(p)
  BY Zenon
<1>5. e \in AllSent <=> \E x \in net : e \in x.evs
  BY Zenon
<1>6. e \in AllHeld <=> \E m \in Mgr : e \in Held(m)
  BY Zenon
<1> HIDE DEF AllBuffered, AllSent, AllHeld
<1> QED
  BY <1>1, <1>2, <1>3, <1>4, <1>5, <1>6

LEMMA UnhandledMembersNext ==
  \A e : e \in Unhandled' <=>
    \/ \E m \in Mgr : \/ e \in queue'[m]
                      \/ e \in serialized'[m]
                      \/ \E s \in Slot : e \in pending'[m][s]
    \/ \E p, q \in Proc : e \in sendBuf'[p][q]
    \/ \E x \in net' : e \in x.evs
<1> TAKE e
<1>1. ASSUME NEW m \in Mgr
      PROVE  e \in Held(m)' <=> \/ e \in queue'[m]
                                \/ e \in serialized'[m]
                                \/ \E s \in Slot : e \in pending'[m][s]
  BY DEF Held
<1> DEFINE Buffered(p) == UNION {sendBuf'[p][q] : q \in Proc}
           AllBuffered == UNION {Buffered(p) : p \in Proc}
           AllSent == UNION {x.evs : x \in net'}
           AllHeld == UNION {Held(m)' : m \in Mgr}
<1>2. Unhandled' = AllHeld \cup (AllBuffered \cup AllSent)
  BY Zenon DEF Unhandled, Packed
<1>3. \A p \in Proc : e \in Buffered(p) <=> \E q \in Proc : e \in sendBuf'[p][q]
  BY Zenon
<1> HIDE DEF Buffered
<1>4. e \in AllBuffered <=> \E p \in Proc : e \in Buffered(p)
  BY Zenon
<1>5. e \in AllSent <=> \E x \in net' : e \in x.evs
  BY Zenon
<1>6. e \in AllHeld <=> \E m \in Mgr : e \in Held(m)'
  BY Zenon
<1> HIDE DEF AllBuffered, AllSent, AllHeld
<1> QED
  BY <1>1, <1>2, <1>3, <1>4, <1>5, <1>6

LEMMA UnhandledTypes ==
  ASSUME TypeInv, NEW e \in Unhandled
  PROVE  e \in AnyEvent /\ e.time \in Nat /\ e.time < NoEvents /\ e.dst \in Mgr /\ e.src \in Mgr
<1>1. SentEvent \subseteq AnyEvent
  BY DEF SentEvent
<1>2. e \in AnyEvent
  <2>1. ASSUME NEW m \in Mgr
        PROVE  /\ queue[m] \subseteq AnyEvent
               /\ serialized[m] \subseteq SentEvent
               /\ \A s \in Slot : pending[m][s] \subseteq SentEvent
    BY DEF TypeInv, ManagerTypes
  <2>2. \A p, q \in Proc : sendBuf[p][q] \subseteq SentEvent
    BY DEF TypeInv, ProcessTypes
  <2>3. \A x \in net : x.evs \subseteq SentEvent
    BY DEF TypeInv, ProcessTypes
  <2> QED
    BY <1>1, <2>1, <2>2, <2>3, UnhandledMembers
<1> QED
  BY <1>2, ConstantFacts DEF AnyEvent

\* The main threads stay where they are, or in the same epoch.
SameEpochs ==
  \A p \in Proc :
    /\ InEpoch(p)' <=> InEpoch(p)
    /\ ~InEpoch(p) => pc'[Main(p)] = pc[Main(p)]
    /\ horizon'[Main(p)] = horizon[Main(p)]
    /\ stopped'[Main(p)] = stopped[Main(p)] \/ (InEpoch(p) /\ stopped'[Main(p)])

LEMMA EpochFrame ==
  ASSUME IInv, SameEpochs, UNCHANGED <<lowerBound, lastHorizon, votes, numSent, tag, net>>
  PROVE  /\ \A p \in Proc : Opened(p)' = Opened(p) /\ Bound(p)' = Bound(p)
         /\ EpochInv' /\ SameBound' /\ TagInv' /\ NetInv' /\ RecvInv'
<1>1. \A p \in Proc : InEpoch(p)' = InEpoch(p) /\ Exchanging(p)' = Exchanging(p)
  BY DEF SameEpochs, InEpoch, Exchanging
<1>2. \A p \in Proc : Opened(p)' = Opened(p) /\ Bound(p)' = Bound(p)
  BY <1>1 DEF SameEpochs, Opened, Bound
<1>3. \A p \in Proc : \A l \in {"start", "recv", "reduce", "vote", "done", "abort", "wait"} :
        pc'[Main(p)] = l <=> pc[Main(p)] = l
  BY DEF SameEpochs, InEpoch
<1>4. \A p \in Proc : pc[Main(p)] \in {"start", "abort"} => stopped'[Main(p)] = stopped[Main(p)]
  BY DEF SameEpochs, InEpoch
<1>5. EpochInv'
  <2>1. EpochInv
    BY DEF IInv, TimeInv
  <2> QED
    BY <1>1, <1>2, <1>3, <1>4, <2>1 DEF EpochInv, EpochOk, SameEpochs
<1>6. SameBound'
  BY <1>2 DEF SameBound, IInv, TimeInv
<1>7. TagInv'
  BY <1>3 DEF TagInv, EpochTag, NextTag, IInv, MessageInv
<1>8. \A x \in net : x.src \in Proc /\ x.dst \in Proc
  BY DEF IInv, TypeInv, ProcessTypes
<1>9. NetInv'
  <2>1. NetInv
    BY DEF IInv, MessageInv
  <2>2. \A x \in net : (Fresh(x) => Fresh(x)') /\ (Awaited(x) => Awaited(x)')
    BY <1>3, <1>8 DEF Fresh, Awaited, SameEpochs
  <2> QED
    BY <1>8, <2>1, <2>2 DEF NetInv, SameEpochs
<1>10. RecvInv'
  BY <1>3 DEF RecvInv, Matching, IInv, MessageInv
<1> QED
  BY <1>2, <1>5, <1>6, <1>7, <1>9, <1>10

\* A step that leaves alone what was sent in this epoch.
SameRegistered ==
  /\ \A m \in Mgr : Registered(m)' = Registered(m)
  /\ \A p \in Proc : horizon'[Main(p)] = horizon[Main(p)]
  /\ UNCHANGED <<slot, pending, minIpc, stopped>>

LEMMA FlightFrame ==
  ASSUME IInv, SameRegistered
  PROVE  /\ SlotInv' /\ PendingInv'
         /\ \A f \in SentEvent : Covered(f)' = Covered(f)
<1>1. \A m \in Mgr : SendSlot(m)' = SendSlot(m)
  BY DEF SameRegistered, SendSlot, NextSlot
<1>2. \A f \in SentEvent : Covered(f)' = Covered(f)
  BY DEF SameRegistered, Covered, SentEvent, AnyEvent
<1>3. SlotInv'
  BY <1>1 DEF SlotInv, IInv, FlightInv
<1>4. \A n \in Mgr : \A s \in Slot : pending[n][s] \subseteq SentEvent
  BY DEF IInv, TypeInv, ManagerTypes
<1>5. \A n \in Mgr : horizon'[MainOf(n)] = horizon[MainOf(n)]
  BY MgrFacts DEF MainOf, SameRegistered
<1>6. PendingInv
  BY DEF IInv, FlightInv
<1>7. PendingInv'
  BY <1>1, <1>2, <1>4, <1>5, <1>6 DEF PendingInv, PendingOk, SameRegistered
<1> QED
  BY <1>2, <1>3, <1>7

\* A step that moves no event either.
SameEvents == UNCHANGED <<queue, serialized, sendBuf, net, now, seqnum>>

LEMMA EventFrame ==
  ASSUME IInv, SameRegistered, SameEvents, SameEpochs, UNCHANGED lowerBound,
         \A m \in Mgr : stopped[m] => horizon[m] <= horizon'[m], TypeInv'
  PROVE  NotBefore' /\ StopInv' /\ SerializedInv' /\ BufferInv' /\ Unhandled' = Unhandled
<1>1. Unhandled' = Unhandled
  BY DEF SameRegistered, SameEvents, Unhandled, Held, Packed
<1>2. \A m \in Mgr : m[1] \in Proc /\ MainOf(m) \in Mgr /\ MainOf(m) = Main(m[1])
  BY MgrFacts DEF MainOf
<1>3. \A p \in Proc : InEpoch(p)' = InEpoch(p) /\ Exchanging(p)' = Exchanging(p)
  BY DEF SameEpochs, InEpoch, Exchanging
<1>4. \A p \in Proc : Bound(p)' = Bound(p)
  BY <1>3 DEF SameEpochs, SameRegistered, Opened, Bound
<1>5. \A p \in Proc : \A l \in {"start", "vote", "done", "abort"} :
        pc'[Main(p)] = l <=> pc[Main(p)] = l
  BY DEF SameEpochs, InEpoch
<1>6. NotBefore'
  BY <1>1, <1>4 DEF NotBefore, SameEvents, IInv, TimeInv
<1>7. StopInv'
  <2>1. PICK u \in StopTimes : StopsAt(u)
    BY DEF IInv, TimeInv, StopInv, StoppedOk
  <2>2. u \in Nat /\ \A m \in Mgr : horizon[m] \in Nat /\ horizon'[m] \in Nat
    BY ConstantFacts DEF IInv, TypeInv, ManagerTypes
  <2>3. StopsAt(u)'
    BY <2>1, <2>2 DEF StopsAt, StopsFor, SameEvents, SameRegistered, StopEvent
  <2>4. StopInv
    BY DEF IInv, TimeInv
  <2> QED
    BY <1>2, <1>3, <1>5, <2>3, <2>4 DEF StopInv, StoppedOk, SameRegistered
<1>8. SerializedInv'
  BY <1>2, <1>5 DEF SerializedInv, SerializedOk, SameEvents, SameRegistered, IInv, FlightInv
<1>9. BufferInv'
  <2>1. \A p, q \in Proc : sendBuf[p][q] \subseteq SentEvent
    BY DEF IInv, TypeInv, ProcessTypes
  <2>2. \A f \in SentEvent : Covered(f)' = Covered(f)
    BY FlightFrame
  <2>3. BufferInv
    BY DEF IInv, FlightInv
  <2> QED
    BY <1>3, <1>5, <2>1, <2>2, <2>3 DEF BufferInv, BufferOk, SameEvents, SameRegistered
<1> QED
  BY <1>1, <1>6, <1>7, <1>8, <1>9
=============================================================================
