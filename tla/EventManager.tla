--------------------------- MODULE EventManager ---------------------------
(***************************************************************************)
(* The event managers of a parallel simulation (EventManager,              *)
(* ClockCycleEventMap, MultithreadedEventContainer and MpiRuntime).        *)
(*                                                                         *)
(* Every process of the simulator runs NThread threads, and every thread   *)
(* has an event manager with a queue of its own.  Time goes in epochs: all *)
(* managers run their events up to a common horizon, the earliest time any *)
(* of them voted for plus the lookahead of the links between them.  An     *)
(* event for another thread is left in one of the slots of its manager, an *)
(* event for another process in a send buffer; both are picked up at the   *)
(* start of the next epoch.  The threads of a process meet in a binary     *)
(* tree of counters, the processes in an MPI reduction.                    *)
(*                                                                         *)
(* A manager holds one component; what its handlers do is left open: an    *)
(* event may send one event on, to the component itself with any delay or  *)
(* over a link (a handler that sends several is a chain of events without  *)
(* delay).  The handler of a component in Terminators may also end the     *)
(* simulation.  Profiling loops (num_profile_loops) are not modelled.      *)
(***************************************************************************)
EXTENDS Integers, FiniteSets

CONSTANTS
  Proc,            \* the processes (ranks of the parallel runtime)
  NThread,         \* nthread_
  Lookahead,       \* lookahead_
  Latency,         \* the latency of the link from one manager to another
  LinkId,          \* the id of that link
  MaxLinkId,       \* the largest link id (uint32_t)
  Multithreaded,   \* event manager "multithread"; "clock_cycle" otherwise
  StopTimes,       \* the stop_time parameter; 0 is no stop time
  Terminators,     \* managers with a job launcher whose app has "terminate" set
  InitialTime,     \* when the event is due that a component schedules in setup
  MaxDelay,        \* bound: the delay a handler adds to the latency
  MaxInitial,      \* bound: components with an event from setup
  MaxSends,        \* bound: events sent by handlers
  NoEvents         \* no_events_left_time

MainThread == NThread - 1
Worker == 0 .. NThread - 2
Mgr == Proc \X (0 .. NThread - 1)
Main(p) == <<p, MainThread>>
Mains == {Main(p) : p \in Proc}
WorkerMgr == Proc \X Worker
SLOTS == 4                          \* num_pendingSlots
Slot == 0 .. SLOTS - 1

\* delta_t that tells a worker to end; larger than any step of the horizon.
terminate_sentinel == NoEvents

ASSUME ConstantAssumption ==
  /\ IsFiniteSet(Proc)
  /\ NThread \in Nat \ {0}
  /\ Lookahead \in Nat \ {0}
  /\ Latency \in [Mgr \X Mgr -> Nat]
  /\ \A m, n \in Mgr : m # n => Latency[<<m, n>>] >= Lookahead
  /\ MaxLinkId \in Nat
  /\ LinkId \in [Mgr \X Mgr -> 0 .. MaxLinkId]
  /\ \A x, y \in Mgr \X Mgr : x # y /\ x[2] = y[2] => LinkId[x] # LinkId[y]
  /\ Multithreaded \in BOOLEAN
  /\ ~Multithreaded => NThread = 1
  /\ StopTimes \subseteq Nat
  /\ InitialTime \in [Mgr -> Nat]
  /\ Terminators \subseteq Mgr
  /\ \A m \in Mgr, u \in StopTimes :
       u > 0 /\ InitialTime[m] = u => LinkId[<<m, m>>] < MaxLinkId
  /\ MaxDelay \in Nat
  /\ MaxInitial \in Nat
  /\ MaxSends \in Nat
  /\ NoEvents \in Nat
  /\ Lookahead < NoEvents
  /\ \A m \in Mgr : InitialTime[m] < NoEvents
  /\ \A u \in StopTimes : u < NoEvents

VARIABLES
  pc,           \* where the thread of a manager is
  now,          \* now_
  queue,        \* event_queue_
  slot,         \* pendingSlot_
  pending,      \* pending_events_: per manager and slot
  serialized,   \* pending_serialization_
  minIpc,       \* min_ipc_time_
  minTime,      \* the time a thread votes for (min_time)
  horizon,      \* up to where a thread runs its events
  stopped,      \* stopped_
  delta,        \* delta_t of a worker's threadQueue
  lowerBound,   \* lower_bound of a process
  lastHorizon,  \* last_horizon of a process
  sendBuf,      \* send_buffers_
  votes,        \* what a process brought to the reduction
  numSent,      \* incoming.num_sent
  net,          \* MPI messages with packed events
  tag,          \* payload_tag
  seqnum        \* seqnum_ of the links; one counter, it grows on every link

mgrVars == <<now, queue, slot, pending, serialized, minIpc, stopped, seqnum>>
treeVars == <<minTime, horizon, delta>>
procVars == <<lowerBound, lastHorizon, votes, numSent, tag>>
vars == <<pc, mgrVars, treeVars, procVars, sendBuf, net>>

Min(a, b) == IF a <= b THEN a ELSE b
Least(S) == CHOOSE t \in S : \A u \in S : t <= u

(***************************************************************************)
(* Events and their order (EventCompare): by time, then by link, then in   *)
(* the order of sending.  The ids of self links count down from the        *)
(* largest number, which is also what a StopEvent has: the first component *)
(* of a process shares it, and what it does at the stop time comes after.  *)
(* (Its very first event has number 0 as well and would compare equal to   *)
(* the StopEvent: it is assumed not to be due at the stop time.)           *)
(***************************************************************************)
Event(t, m, n, i) == [time |-> t, src |-> m, dst |-> n, seqnum |-> i, stop |-> FALSE]
StopEvent(t, m) == [time |-> t, src |-> m, dst |-> m, seqnum |-> 0, stop |-> TRUE]

Link(e) == IF e.stop THEN MaxLinkId ELSE LinkId[<<e.src, e.dst>>]

EventCompare(e, f) ==
  \/ e.time < f.time
  \/ e.time = f.time /\ Link(e) < Link(f)
  \/ e.time = f.time /\ Link(e) = Link(f) /\ e.seqnum < f.seqnum

\* The event at the head of the queue of m.
IsNext_Mut(e, m) ==     \* by time only
  e \in queue[m] /\ \A f \in queue[m] : e.time <= f.time
IsNext(e, m) == e \in queue[m] /\ \A f \in queue[m] \ {e} : EventCompare(e, f)
Due(m) == {e \in queue[m] : e.time < horizon[m]}

(***************************************************************************)
(* The tree of threads: the main thread has workers 0 and 1 under it, and  *)
(* worker w has 2w+2 and 2w+3, as far as there are that many.              *)
(***************************************************************************)
Children(m) ==
  {<<m[1], w>> : w \in
     (IF m[2] = MainThread THEN {0, 1} ELSE {2 * m[2] + 2, 2 * m[2] + 3}) \cap Worker}

Init ==
  /\ \E first \in SUBSET Mgr, until \in StopTimes :
       /\ Cardinality(first) <= MaxInitial
       /\ queue = [m \in Mgr |->
                  (IF m \in first THEN {Event(InitialTime[m], m, m, 0)} ELSE {}) \cup
                  (IF until > 0 THEN {StopEvent(until, m)} ELSE {})]
  /\ pc = [m \in Mgr |-> IF m[2] = MainThread THEN "start" ELSE "wait"]
  /\ now = [m \in Mgr |-> 0]
  /\ slot = [m \in Mgr |-> 0]
  /\ pending = [m \in Mgr |-> [s \in Slot |-> {}]]
  /\ serialized = [m \in Mgr |-> {}]
  /\ minIpc = [m \in Mgr |-> NoEvents]
  /\ minTime = [m \in Mgr |-> NoEvents]
  /\ horizon = [m \in Mgr |-> 0]
  /\ stopped = [m \in Mgr |-> FALSE]
  /\ delta = [m \in WorkerMgr |-> 0]
  /\ lowerBound = [p \in Proc |-> 0]
  /\ lastHorizon = [p \in Proc |-> 0]
  /\ sendBuf = [p \in Proc |-> [q \in Proc |-> {}]]
  /\ votes = [p \in Proc |-> [time |-> NoEvents, to |-> {}]]
  /\ numSent = [p \in Proc |-> 0]
  /\ net = {}
  /\ tag = [p \in Proc |-> 0]
  /\ seqnum = 1

(***************************************************************************)
(* The loop of the main thread: runWork, and ClockCycleEventMap::run.      *)
(***************************************************************************)
Signal(m, d) == [c \in WorkerMgr |-> IF c \in Children(m) THEN delta[c] + d ELSE delta[c]]

\* An event at the lower bound reaches another manager at the horizon.
Horizon_Mut(p) == lowerBound[p] + 2 * Lookahead     \* counts the lookahead twice
Horizon(p) == lowerBound[p] + Lookahead

\* The next epoch: the horizon, and how much it grew for the children.
StartEpoch(p) ==
  LET m == Main(p)
      h == Horizon(p) IN
  /\ pc[m] = "start"
  /\ lowerBound[p] # NoEvents
  /\ IF Multithreaded /\ h = lastHorizon[p]   \* "Time did not advance"
     THEN /\ pc' = [pc EXCEPT ![m] = "abort"]
          /\ UNCHANGED <<horizon, delta>>
     ELSE /\ pc' = [pc EXCEPT ![m] = "register"]
          /\ horizon' = [horizon EXCEPT ![m] = h]
          /\ delta' = Signal(m, h - lastHorizon[p])
  /\ UNCHANGED <<mgrVars, minTime, procVars, sendBuf, net>>

EndRun_Mut(p) ==     \* forgets the workers
  LET m == Main(p) IN
  /\ pc[m] = "start"
  /\ lowerBound[p] = NoEvents
  /\ pc' = [pc EXCEPT ![m] = "done"]
  /\ UNCHANGED <<mgrVars, treeVars, procVars, sendBuf, net>>

\* No events left anywhere, or stopped: tell the workers to end.
EndRun(p) ==
  LET m == Main(p) IN
  /\ pc[m] = "start"
  /\ lowerBound[p] = NoEvents
  /\ pc' = [pc EXCEPT ![m] = "done"]
  /\ delta' = Signal(m, terminate_sentinel)
  /\ UNCHANGED <<mgrVars, minTime, horizon, procVars, sendBuf, net>>

(***************************************************************************)
(* pthread_run_worker_thread: a worker sees delta_t and passes it on.      *)
(***************************************************************************)
Wake(m) ==
  /\ pc[m] = "wait"
  /\ delta[m] # 0
  /\ delta' = Signal(m, delta[m])
  /\ IF delta[m] = terminate_sentinel
     THEN /\ pc' = [pc EXCEPT ![m] = "done"]
          /\ UNCHANGED horizon
     ELSE /\ pc' = [pc EXCEPT ![m] = "register"]
          /\ horizon' = [horizon EXCEPT ![m] = @ + delta[m]]
  /\ UNCHANGED <<mgrVars, minTime, procVars, sendBuf, net>>

(***************************************************************************)
(* runEvents.  First registerPending takes what other threads and other    *)
(* processes sent in the last epoch, and moves on to the next slot.        *)
(***************************************************************************)
NextSlot_Mut(s) == s     \* one slot
NextSlot(s) == (s + 1) % SLOTS

registerPending_Mut(m) ==     \* keeps min_ipc_time_
  /\ pc[m] = "register"
  /\ queue' = [queue EXCEPT ![m] = @ \cup serialized[m] \cup pending[m][slot[m]]]
  /\ serialized' = [serialized EXCEPT ![m] = {}]
  /\ pending' = [pending EXCEPT ![m][slot[m]] = {}]
  /\ slot' = [slot EXCEPT ![m] = NextSlot(@)]
  /\ pc' = [pc EXCEPT ![m] = "run"]
  /\ UNCHANGED <<now, minIpc, stopped, seqnum, treeVars, procVars, sendBuf, net>>

registerPending(m) ==
  /\ pc[m] = "register"
  /\ queue' = [queue EXCEPT ![m] = @ \cup serialized[m] \cup pending[m][slot[m]]]
  /\ serialized' = [serialized EXCEPT ![m] = {}]
  /\ pending' = [pending EXCEPT ![m][slot[m]] = {}]
  /\ slot' = [slot EXCEPT ![m] = NextSlot(@)]
  /\ minIpc' = [minIpc EXCEPT ![m] = NoEvents]
  /\ pc' = [pc EXCEPT ![m] = "run"]
  /\ UNCHANGED <<now, stopped, seqnum, treeVars, procVars, sendBuf, net>>

\* setMinIpcTime: the earliest event sent to another manager in this epoch.
MinIpcAfter_Mut(m, f) == minIpc[m]     \* the vote misses it
MinIpcAfter(m, f) == IF f.dst = m THEN minIpc[m] ELSE Min(minIpc[m], f.time)

\* Where an event sent by m goes: its own queue (sendExecutionEvent), a slot
\* of another thread (MultithreadLink::send) or the send buffer for another
\* process (IpcLink::send).  e is the event m handles.
Send(m, e, f) ==
  /\ seqnum' = seqnum + 1
  /\ minIpc' = [minIpc EXCEPT ![m] = MinIpcAfter(m, f)]
  /\ queue' = [queue EXCEPT ![m] = (@ \ {e}) \cup (IF f.dst = m THEN {f} ELSE {})]
  /\ pending' = IF f.dst # m /\ f.dst[1] = m[1]
                THEN [pending EXCEPT ![f.dst][slot[m]] = @ \cup {f}]
                ELSE pending
  /\ sendBuf' = IF f.dst[1] # m[1]
                THEN [sendBuf EXCEPT ![m[1]][f.dst[1]] = @ \cup {f}]
                ELSE sendBuf

Arrival(m, n, t, delay) == t + delay + (IF m = n THEN 0 ELSE Latency[<<m, n>>])

\* The next event before the horizon is handled; its handler may send one.
Execute(m) ==
  /\ pc[m] = "run"
  /\ \E e \in Due(m) :
       /\ IsNext(e, m)
       /\ ~e.stop
       /\ now' = [now EXCEPT ![m] = e.time]
       /\ \/ /\ queue' = [queue EXCEPT ![m] = @ \ {e}]
             /\ UNCHANGED <<seqnum, minIpc, pending, sendBuf>>
          \/ /\ seqnum <= MaxSends
             /\ \E n \in Mgr, delay \in 0 .. MaxDelay :
                  /\ Arrival(m, n, e.time, delay) < NoEvents
                  /\ Send(m, e, Event(Arrival(m, n, e.time, delay), m, n, seqnum))
  /\ UNCHANGED <<pc, slot, serialized, stopped, treeVars, procVars, net>>

\* EventManager::stop is called by the StopEvent of the stop time, and by
\* endSimulation when the launcher handles the end of such an application.
CallsStop(m, e) == e.stop \/ m \in Terminators

\* stop drops the queue and the vote of this manager, and of no other.
Stop(m) ==
  /\ pc[m] = "run"
  /\ \E e \in Due(m) :
       /\ IsNext(e, m)
       /\ CallsStop(m, e)
       /\ now' = [now EXCEPT ![m] = e.time]
  /\ queue' = [queue EXCEPT ![m] = {}]
  /\ minIpc' = [minIpc EXCEPT ![m] = NoEvents]
  /\ stopped' = [stopped EXCEPT ![m] = TRUE]
  /\ UNCHANGED <<pc, slot, pending, serialized, seqnum, treeVars, procVars, sendBuf, net>>

\* Nothing left before the horizon: vote for the time of the next event, own
\* or sent.
MinEventTime(m) ==
  IF queue[m] = {} THEN NoEvents ELSE Least({e.time : e \in queue[m]})

FinishRun(m) ==
  /\ pc[m] = "run"
  /\ Due(m) = {}
  /\ minTime' = [minTime EXCEPT ![m] = Min(minIpc[m], MinEventTime(m))]
  /\ pc' = [pc EXCEPT ![m] = "join"]
  /\ UNCHANGED <<mgrVars, horizon, delta, procVars, sendBuf, net>>

(***************************************************************************)
(* wait_on_child_completion: a thread waits until its children have set    *)
(* their counters back to zero, and takes over their votes.                *)
(***************************************************************************)
ChildrenDone(m) == \A c \in Children(m) : delta[c] = 0

JoinedTime(m) == Least({minTime[m]} \cup {minTime[c] : c \in Children(m)})

\* A worker gives back what it was signalled.
JoinWorker(m) ==
  /\ pc[m] = "join"
  /\ m[2] # MainThread
  /\ ChildrenDone(m)
  /\ minTime' = [minTime EXCEPT ![m] = JoinedTime(m)]
  /\ delta' = [delta EXCEPT ![m] = 0]
  /\ pc' = [pc EXCEPT ![m] = "wait"]
  /\ UNCHANGED <<mgrVars, horizon, procVars, sendBuf, net>>

\* The main thread: a stopped process ends; the others exchange events and
\* votes (receiveIncomingEvents, which must not be called once stopped).
JoinMain(p) ==
  LET m == Main(p) IN
  /\ pc[m] = "join"
  /\ ChildrenDone(m)
  /\ minTime' = [minTime EXCEPT ![m] = JoinedTime(m)]
  /\ IF stopped[m] /\ Multithreaded
     THEN /\ pc' = [pc EXCEPT ![m] = "start"]
          /\ lowerBound' = [lowerBound EXCEPT ![p] = NoEvents]
          /\ lastHorizon' = [lastHorizon EXCEPT ![p] = horizon[m]]
     ELSE /\ pc' = [pc EXCEPT ![m] = IF stopped[m] THEN "abort" ELSE "vote"]
          /\ UNCHANGED <<lowerBound, lastHorizon>>
  /\ UNCHANGED <<mgrVars, horizon, delta, votes, numSent, tag, sendBuf, net>>

(***************************************************************************)
(* MpiRuntime::sendRecvMessages.  One message for every process there is   *)
(* something for, then the reduction, then as many receives from any       *)
(* source as the reduction says.                                           *)
(***************************************************************************)
Message(p, q) == [src |-> p, dst |-> q, tag |-> tag[p], evs |-> sendBuf[p][q]]
Filled(p) == {q \in Proc : sendBuf[p][q] # {}}

SendMessages(p) ==
  LET m == Main(p) IN
  /\ pc[m] = "vote"
  /\ net' = net \cup {Message(p, q) : q \in Filled(p)}
  /\ votes' = [votes EXCEPT ![p] = [time |-> minTime[m], to |-> Filled(p)]]
  /\ sendBuf' = [sendBuf EXCEPT ![p] = [q \in Proc |-> {}]]
  /\ pc' = [pc EXCEPT ![m] = "reduce"]
  /\ UNCHANGED <<mgrVars, treeVars, lowerBound, lastHorizon, numSent, tag>>

\* MPI_Reduce_scatter_block with voteReduceFunction: decided once every
\* process takes part (external; a process that is slow to leave it is one
\* that is slow to receive).
Reduce ==
  /\ \A p \in Proc : pc[Main(p)] = "reduce"
  /\ lowerBound' = [p \in Proc |-> Least({votes[q].time : q \in Proc})]
  /\ numSent' = [p \in Proc |-> Cardinality({q \in Proc : p \in votes[q].to})]
  /\ pc' = [m \in Mgr |-> IF m \in Mains THEN "recv" ELSE pc[m]]
  /\ UNCHANGED <<mgrVars, treeVars, lastHorizon, votes, tag, sendBuf, net>>

\* payload_tag and next_payload_tag change places.
NextTag_Mut(t) == t     \* no swap
NextTag(t) == 1 - t

EventsFor(m, R) == {e \in UNION {x.evs : x \in R} : e.dst = m}

\* Waitall, then handleIncoming for every event, and the tag of the next epoch.
ReceiveMessages(p) ==
  LET m == Main(p) IN
  /\ pc[m] = "recv"
  /\ \E R \in SUBSET {x \in net : x.dst = p /\ x.tag = tag[p]} :
       /\ Cardinality(R) = numSent[p]
       /\ net' = net \ R
       /\ IF Multithreaded
          THEN /\ serialized' = [n \in Mgr |-> serialized[n] \cup
                                   IF n[1] = p THEN EventsFor(n, R) ELSE {}]
               /\ UNCHANGED queue
          ELSE /\ queue' = [queue EXCEPT ![m] = @ \cup EventsFor(m, R)]
               /\ UNCHANGED serialized
  /\ tag' = [tag EXCEPT ![p] = NextTag(@)]
  /\ lastHorizon' = [lastHorizon EXCEPT ![p] = horizon[m]]
  /\ pc' = [pc EXCEPT ![m] = "start"]
  /\ UNCHANGED <<now, slot, pending, minIpc, stopped, seqnum, treeVars, lowerBound,
                 votes, numSent, sendBuf>>

MainStep(p) ==
  \/ StartEpoch(p)
  \/ EndRun(p)
  \/ JoinMain(p)
  \/ SendMessages(p)
  \/ ReceiveMessages(p)

WorkerStep(m) ==
  \/ Wake(m)
  \/ JoinWorker(m)

RunStep(m) ==
  \/ registerPending(m)
  \/ Execute(m)
  \/ Stop(m)
  \/ FinishRun(m)

Next ==
  \/ \E p \in Proc : MainStep(p)
  \/ \E m \in WorkerMgr : WorkerStep(m)
  \/ \E m \in Mgr : RunStep(m)
  \/ Reduce

Spec == Init /\ [][Next]_vars

\* Every thread keeps running (busy_loop polls), and MPI makes progress.
Fairness ==
  /\ \A p \in Proc : WF_vars(MainStep(p))
  /\ \A m \in WorkerMgr : WF_vars(WorkerStep(m))
  /\ \A m \in Mgr : WF_vars(RunStep(m))
  /\ WF_vars(Reduce)

FairSpec == Spec /\ Fairness

(***************************************************************************)
(* Where an event can be before it is handled.                             *)
(***************************************************************************)
Held(m) == queue[m] \cup serialized[m] \cup (UNION {pending[m][s] : s \in Slot})
Packed == (UNION {UNION {sendBuf[p][q] : q \in Proc} : p \in Proc}) \cup (UNION {x.evs : x \in net})
Unhandled == (UNION {Held(m) : m \in Mgr}) \cup Packed

----------------------------------------------------------------------------
\* No application ends the simulation: only a StopEvent calls stop, on every
\* manager for the same time.
NoTerminator == Terminators = {}

(***************************************************************************)
(* No event is ever in the past of the manager it is for, wherever it is   *)
(* on its way: in the queue, in a slot, packed, or in a message.  It is    *)
(* what "Time went backwards" and "scheduling event in the past" check     *)
(* when an event is taken (schedule, registerPending, scheduleIncoming).   *)
(***************************************************************************)
NoTimeTravel == \A e \in Unhandled : now[e.dst] <= e.time

(***************************************************************************)
(* A slot is never filled by one thread while its owner empties it: the    *)
(* vectors of pending_events_ have no lock, only the barrier and the four  *)
(* slots keep registerPending and MultithreadLink::send apart.             *)
(***************************************************************************)
SlotRaceFree ==
  \A p \in Proc : \A i, j \in 0 .. NThread - 1 :
    pc[<<p, i>>] = "register" /\ pc[<<p, j>>] = "run" => slot[<<p, i>>] # slot[<<p, j>>]

(***************************************************************************)
(* The receives of an epoch match the messages of that epoch and no        *)
(* others, though they take any source and a fast process may already be   *)
(* sending for the next epoch: the two tags suffice.                       *)
(***************************************************************************)
MessagesOfThisEpoch ==
  \A p \in Proc : pc[Main(p)] = "recv" =>
    Cardinality({x \in net : x.dst = p /\ x.tag = tag[p]}) = numSent[p]

(***************************************************************************)
(* A process that ends leaves no event behind: none for any of its         *)
(* managers is on its way anywhere, or the manager reached the stop time   *)
(* and what remains lies after it.                                         *)
(***************************************************************************)
NothingLeftBehind ==
  \A p \in Proc : pc[Main(p)] = "done" =>
    \A e \in Unhandled : e.dst[1] = p => stopped[e.dst] /\ now[e.dst] < e.time

(***************************************************************************)
(* None of the aborts of the epoch loop is reached: the horizon moves on   *)
(* ("Time did not advance"), and events are not exchanged any more once a  *)
(* process has stopped.                                                    *)
(***************************************************************************)
NoAbort == \A m \in Mgr : pc[m] # "abort"

\* Every thread of every process ends.
Termination == <>(\A m \in Mgr : pc[m] = "done")

(***************************************************************************)
(* Together the managers are one conservative simulation: each handles its *)
(* events in order, and none that something elsewhere could still precede. *)
(***************************************************************************)
Sim == INSTANCE ConservativeSim WITH events <- Unhandled, clock <- now
ImplementsSim == Sim!Spec
===========================================================================
