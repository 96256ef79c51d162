# A TLA+ verification project for SST/macro

SST/macro simulates a parallel machine: applications linked against a simulated
MPI run as user-level threads on simulated nodes, and everything below them, from
the MPI library to the network, is a discrete-event model that may itself run in
parallel. This project models the parts a simulation result rests on, checks them
with TLC on small instances, and proves the central properties with TLAPS for all
instances. Five layers are modelled:

* **point to point**: the MPI queue of `sumi-mpi` with its wire protocols;
* **collectives**: the collective engine of `sumi`, the actors that execute
  a collective as a DAG of sends and receives, and the DAGs themselves;
* **operating system**: threads, cores, timeouts, progress queues and pthreads of a node;
* **network**: the pisces model with its credits, on a torus with its router;
* **simulator**: event managers on several threads and processes.

## 1. The system

### 1.1 Components, their state and operations

| Component | State | Operations | Interaction |
|---|---|---|---|
| MPI queue (`sumi-mpi/mpi_queue`) | sequence numbers per peer, `held_`, `need_recv_match_`, `need_send_match_`, `probelist_` | send, recv, probe, iprobe, progress loop, timed poll, incoming message | called by the MPI API; polls a completion queue of the transport; delegates to the protocols |
| wire protocols (`sumi-mpi/mpi_protocol`) | `send_flows_`, `recv_flows_` | start, incoming(message), incoming(message, request) | Eager0, Eager1, RendezvousGet, DirectPut; post RDMA operations and acks |
| MPI API (`sumi-mpi/mpi_api*.cc`) | requests, communicators | all MPI calls | builds requests and hands them to queue or engine |
| collective engine (`sumi/sim_transport.cc`) | `collectives_`, `pending_collective_msgs_`, `todel_` | one call per collective, incoming message, delivery of early messages | owned by the transport of a rank |
| DAG actor (`sumi/collective_actor.cc`) | initial, pending, active and completed actions, queued headers, buffers | start, start/clear an action, incoming header, ack or payload | exchanges messages with the actors of the other ranks by eager, get or put |
| collective algorithms (`sumi/allgather.cc`, ...) | none (they build the DAG) | `initDag`, `initBuffers`, `startShuffle`, `finalize` | called by the actor |
| transport (`sumi/sim_transport.cc`) | completion queues, held messages, memory pins | post send/get/put, poll, allocate a queue | between NIC and both layers above |
| NIC (`sstmac/hardware/nic`) | queues of messages | inject, receive, ack, answer gets | reads and writes user buffers |
| operating system (`sstmac/software/process`) | threads, cores, blocked lists, timers | block, unblock, timeouts, start, join and cancel threads, compute | runs one thread at a time between events |
| pthread / OpenMP (`sstmac/libraries`) | mutexes, conditions, keys | the POSIX calls | on the operating system |
| launcher (`sstmac/software/launch`) | free nodes, job queue | allocate, map tasks, start and end jobs | starts applications on nodes |
| pisces (`sstmac/hardware/pisces`) | credits and queues of NICs, crossbars and output buffers | packets and credits | delivers what the NICs inject |
| other networks (`snappr`, `sculpin`, `logp`, `merlin`) | buffers, arbitration | packets | as pisces |
| routers, topologies (`sstmac/hardware/router`, `topology`) | header of a packet, routing tables | choose port and virtual channel | called by switches |
| event managers (`sstmac/common`, `sstmac/backends`) | event queues, slots, send buffers, horizons | run events, vote, exchange between threads or processes | under everything |
| sprockit, skeletons, trace replay, clang tool, docs | - | utilities and applications | - |

`PROJECT.json` lists each with its status and the reason if it is not modelled.

### 1.2 What is hard here

* **Nobody makes progress but the application.** A message that has arrived
  waits until its rank is inside an MPI call that polls.
* **The fabric reorders.** Small messages bypass large ones, payloads and acks of
  an RDMA race each other. MPI order is restored by sequence numbers.
* **Matching has two sides.** A message may arrive before or after its receive
  is posted, while other messages are being held back, and wildcards compete.
* **Collectives are asynchronous.** A partner may be rounds, or whole collectives,
  ahead; its messages arrive before the action, or the actor, exists.
* **Handlers recurse.** Finishing one action starts others, which take up queued
  messages, which finish further actions, all before the first handler returns;
  the test for "collective done" sits in the middle.
* **Buffers are shared with the NIC**, which reads them late and writes them at any
  time.
* **Sizes are irregular.** Communicators that are no power of two are mapped to
  virtual ranks, some ranks playing two; lengths are halved until nothing is left.
* **Waking is not running.** An unblock from a running thread is an event for later;
  until then the thread is on no list, or still on one, and a timeout may come first.
* **Credits hold packets up.** A packet keeps its place behind one link until the
  next stage has room, around rings of switches.
* **Events cross threads and processes** without locks: slots, tags and the votes for
  the next horizon keep epochs apart.

`PROJECT.json` lists these hazards at their lines, with the property that
guards each, or a note where none does.

### 1.3 What makes each modelled component correct

* Queue: first-stage messages handled in the sender's order; no message and
  receive that fit left waiting for each other; matching without
  overtaking; probes not slept through; nothing stuck unless the application is.
* Protocols: every ack and payload finds the request it belongs to; a rendezvous send
  does not complete before its buffer was read.
* Engine and actors: actions in dependency order; "done" reported exactly when
  everything is done and nothing that concerns the actor is still under way;
  every collective ends; no rank leaves before the ranks it depends on have entered.
* Algorithms: the DAGs that ranks build independently fit together, are free
  of races on the buffers, and compute the right result.
* Operating system: one holder per mutex; cores neither lost nor made, nor idle while
  somebody waits; a blocked thread has exactly one thing that will wake it.
* Network: credits conserved; whoever waits for credits is woken; no circle of waiting
  packets; every message delivered once, when all of it is there.
* Event managers: no event in the past of its manager, none forgotten, no race on a slot, no
  message taken for another epoch, everybody ends.

## 2. Modules

| Module | Content |
|---|---|
| `MpiQueue` | MPI calls, queue, protocols, NICs of a job; properties |
| `MpiMatching` | abstract: MPI's matching rules, no queues, no protocols |
| `MCMpiQueue` | programs for TLC |
| `MpiQueueProofs` | theorems about `MpiQueue`: types, sequencing, the two lists |
| `MpiOrderProofs` | theorems about `MpiQueue`: order of matching, `MpiMatching`, probes, flows, no wedged jobs |
| `CollectiveAction` | the `Action` structs, message ids, operations on buffers |
| `CollectiveDag` | what every `initDag` builds; what the calls promise |
| `MCCollectiveDag` | DAGs on communicators of up to 16 ranks, executed once; properties |
| `DagCollective` | collective engines, DAG actors and NICs of a job; properties |
| `CollectiveSync` | abstract: who must have entered before whom may leave |
| `MCDagCollective` | jobs for TLC; result and refinement properties |
| `DagCollectiveProofs` | theorems about `DagCollective` |
| `OperatingSystem` | threads, scheduler, pthreads, progress queue of a node; properties |
| `MCOperatingSystem` | programs for TLC |
| `OperatingSystemProofs` | theorems about `OperatingSystem`: cores, wake-ups, mutexes |
| `TorusRouting` | wiring of a torus, the minimal router, the order of its channels |
| `Pisces` | NICs, crossbars, output buffers and links; properties |
| `Fabric` | abstract: messages arrive piece by piece and are delivered once |
| `MCPisces` | traffic for TLC |
| `PiscesProofs` | theorems about routes and the order of channels |
| `PiscesCreditProofs` | theorems about the credits of `Pisces` |
| `EventManager` | event managers of several threads and processes; properties |
| `ConservativeSim` | abstract: one set of events, and when one may be handled |
| `MCEventManager` | links and initial events for TLC |
| `EventManagerInv` | the inductive invariant of the epoch loop, and what its steps share |
| `EventManagerProofs` | every action keeps it; theorems about `EventManager`; why `ConservativeSim` never runs backwards |

Definitions keep the names of the code. `PROJECT.json` ("map") gives the source lines
of each. Definitions ending in `_Mut` (or, for `checkCollectiveDone`, `_Pending` and
`_Active`) are deliberately wrong variants of the definition that follows
them; no specification uses them. Each property was seen to fail with
one of them ("mutants" in `PROJECT.json`).

### 2.1 MpiQueue

A rank runs a *program*, a sequence of MPI calls (isend, send, irecv, recv, probe, iprobe,
wait, test, finalize). A request is named by rank and position; the flow of
a message is the name of its send, so a message carries only flow, wire type, stage
and sequence number. `mode` says whether the rank runs application code, is in a progress
loop, or polls with a timeout. The actions are

* the calls: `Send`, `Recv`, `Probe`, `Iprobe`, `Test`, `Wait`, `ProcNullCall`;
* `IncomingInOrder`, `IncomingOutOfOrder`, `IncomingStaged`: the three ways through
  `incomingPt2ptMessage`, with the protocol handlers (`Eager0Incoming` etc.) inlined;
* `DrainHeld`: one turn of the loop over `held_`;
* `EndLoop`: the progress loop or poll returns; `FinalizeBarrier`: the barrier of
  `MPI_Finalize` is over (an abstraction; the barrier itself is modelled by the other layer);
* `NicGet`: the source NIC answers an RDMA get.

The fabric and the completion queues are one set, `net`, from which anything may be
delivered next. That is more than the networks of the simulator do, which is
the point: no property depends on the network model. Message data, delays, statistics
and quality of service are left out; sizes matter only by protocol and against the
receive buffer. The four `spkt_abort_printf` that a message can run into
end the run with a reason in `aborted`.

`MpiMatching` knows only which sends and receives were started and which are matched; a
match takes the oldest receive and the oldest message of a sender. `ImplementsMatching`
states that `MpiQueue` implements it under the mapping that reads "started" off `pc` and
`mode`.

### 2.2 DagCollective

All ranks call the same sequence of collectives (`job`), collective *i* under tag *i*; an
actor is a pair of tag and rank. The actions are `startCollective` (with `initActors`),
`incoming` (a message taken from the completion queue: to its actor, or kept in `early`),
and the loops a rank can be inside: `startLoop`, `clearDependencies`, `deliverPending`,
`recv`. Since these call each other, each rank has a call `stack`; one step is one turn of
the innermost loop. While a rank is in a handler no other rank takes a step: a rank's
handlers run without yielding and share only `net` with other ranks, to which they only
add. NIC actions (`injectSend`, `answerGet`, `takeOffWire`) do come in between, because
they touch the rank's buffers. `completed` records an action as soon as it is over, where
the code appends it to `completed_actions_` after its successors; the list is only used to
free memory. The messages an actor keeps are sets: headers are in multimaps, and `early` is a list in
order of arrival, which the network does not determine. Nothing is lost by it: no message is ever added that is there
already (`MessageInv` below).

Buffers are modelled by content: an element counts how often each rank's
contribution went into it. A copy replaces, a reduction adds, memory nobody wrote has
zero of everything. That distinguishes missing, duplicated and misplaced contributions.

A call carries what the actors of all ranks build for it, its fields `dag`, `buffer` and
`shift`. For TLC, `MCDagCollective` takes them from `CollectiveDag`; for the proofs they are
arbitrary (`DagAssumption`: finite, distinct ids, precursors within the DAG; `MatchAssumption`: sends and receives have
the id that `messageId` makes of round and partner, and the partner's DAG has the other end, of the same length, which is what
`DagsMatch` shows of the DAGs of `CollectiveDag`).

`CollectiveSync` has two actions, entering and leaving; a rank may leave once the ranks it
needs have entered. For a barrier that is everybody, for a broadcast the root.

### 2.3 CollectiveDag

One operator per `initDag`: Bruck allgather and barrier, ring allgather, Bruck allgatherv,
binary-tree broadcast, Wilke allreduce and reduce (with virtual ranks), binary-tree gather and
scatter, scan, Bruck alltoall. Loops that carry state (segments halved round by round, the
window a broadcast child lies in) are recursive functions; a precursor is found as "the last
earlier step that has actions". Actors with several buffers have them one behind the other
in one function, so that a race or an overrun between them shows. Shuffles are the set of copies
they make (`Moves`). A scan has none: `initDag` would add a copy after every round if `recv_buffer_` were set, but
`init` calls it before `initBuffers` (section 6). Only contiguous types are modelled, and no in-place calls. `ExpectedOf`,
`HasResult` and `NeededBy` state what the calls promise, without reference to any algorithm.

### 2.4 OperatingSystem

At most one thread is `active`; it runs until it blocks, and only then does the next of the
`events` of the node happen. A thread is described by where it is in its call (`at`) and its next
call (`ip`). Calls are actions, split where the thread may block: `Lock`/`LockDone`,
`Wait`/`WaitDone` (plain and timed), `Execute`/`ExecuteRun`/`ExecuteDone`,
`QueueFront`/`QueueFrontDone`; `ReserveCores` is one turn of the loop that asks the scheduler again
after every wake-up: a thread goes through it when its routine starts, before it computes, and when it comes back from a sleep
or a join. `Cleanup`
is what happens after a thread's function returned: the fate of subthreads of an application that ended, deletion; `Complete` then
wakes the joiners one by one and gives the node back to the DES thread. `RunEvent` handles an event of the DES thread (`Handle`): start, switch, unblock, timeout,
deletion, and the deferred hand-over of a mutex. Events that fall on the same tick are handled in the order
they were scheduled. `holds` is a history variable: who was told that it has a mutex. A join of a thread the application does
not know throws, and the thread that called stays where it is (`"threw"`). `failed` is set when an event or a wake-up reaches a deleted thread, or a join
deletes a thread for the second time. `setCpumask`, which `pthread_create` calls for a thread with attributes, is left out: it gives back and reserves
the cores of the new thread, of which there are none, and may by that wake a thread that waits for cores.

### 2.5 TorusRouting, Pisces, Fabric

`TorusRouting` is pure: `Neighbor` is the wiring, `route` the minimal router, with the header it carries (last
dimension, whether the dateline was crossed). `Before` orders the channels (switch, port, virtual channel) by dimension, virtual
channel and position on the way; it occurs in no code and is what the two virtual channels are there for.

`Pisces` has one action per handler: `DoSend` and `PacketSent` (NIC, with `inject` and its list of
pending messages), `SwitchPayload` and `XbarCredit` (crossbar), `BufferPayload` and `BufferCredited` (output
buffer), `PacketArrived` (receive queue). A handler that finds enough credits sends packets on and
returns credits in the same step; one that does not queues. Links are sets: anything on them may come in
next. That covers every arbitration and delay, and more reordering than the simulator's links do.

`Fabric` promises what the upper layers assume of a network: messages arrive piece by piece, and are delivered once,
when the last byte is there. It includes that every message that was sent arrives. That is where the
hazard of a deadlock ends: a circle of waiting packets would violate the fairness of `Fabric`.

### 2.6 EventManager and ConservativeSim

A manager is a pair of process and thread. Actions are the steps a thread makes between points where
others see its state: `StartEpoch`, `Wake` (a worker finds its `delta`), `registerPending` (empty a slot), `Execute` and
`Stop` (one event), `FinishRun`, `JoinWorker` and `JoinMain` (the tree of counters), `SendMessages`, `Reduce` and
`ReceiveMessages` (the processes), `EndRun`. `Stop` is a StopEvent or a handler that calls `endSimulation` (`CallsStop`): the job launcher of
an application with `terminate` does, for its own manager (`Terminators`). `Execute` may send one event on, with any delay up to `MaxDelay` on top of the latency of
the link.

`ConservativeSim` has one set of events and a clock per manager. A manager handles its earliest event, and only when
no event of another manager could still cause an earlier one. `ImplementsSim` maps the set to every event
anywhere: in queues, slots, buffers and messages.

## 3. Runs

All bounds are constants of the configurations. "Violation" runs document disagreements
between code and its own documentation (section 6).

| Run | Instance | Shows |
|---|---|---|
| `pt2pt_order` | 2 tasks, 3 messages, all tag mixes, Eager0, rendezvous and put window, receives posted first or one by one; programs with probe, iprobe, test, `MPI_PROC_NULL`, short buffers | types, sequencing, matching, completion of rendezvous, no missed probe, nobody stuck, refinement of `MpiMatching` |
| `pt2pt_live` | 3 tasks: exchange, blocking ring, wildcard race; 9 + 27 + 27 size mixes; `software_ack=false` | every such job ends; no overtaking (but by Eager1); an ack that overtakes the payload does no harm |
| `pt2pt_eager1_overtaking` | as `pt2pt_order`, with Eager1 | violation, finding 1 |
| `coll_dags` | every communicator of 2-16 ranks, every root, lengths 1 and 5; allgatherv with lengths 0, 1 and 2 | DAGs fit, are race free, synchronise, and compute the result but for the calls of section 6 that the code gets wrong (ring, some scatters, scan from 4 ranks, some reductions) |
| `coll_overlap` | 2 ranks, every pair of barrier, allgather and bcast, and an allreduce followed by a barrier, two outstanding, eager and RDMA put | the engine keeps them apart |
| `coll_get` | 3 ranks, every collective and root, eager and over RDMA get, and two eager barriers in a row | results, order, completion; messages of the next collective wait |
| `coll_reduce_root` | reduce to rank 2 of 3 | violation, finding 2 |
| `parallel_epochs` | 2 processes of 2 threads, links of latency 2 and 3, up to 2 initial events and 2 sent, without a stop time and with stop time 3; no application ends the simulation | no time travel, slots and tags, nothing left behind, termination, refinement of `ConservativeSim` |
| `parallel_stop` | 2 processes of 1 thread, a stop time | violation, finding 3 |
| `os_threads` | 4 threads of 2 applications on 2 cores, a mutex and its condition, applications that end before their threads, joins of a thread signalled early and of one joined before | mutual exclusion, cores, wake-ups, termination |
| `os_timeout` | a timed wait and a signal | violation, finding 4 |
| `pisces` | torus of 4 by 2 switches, MTU 2, messages of up to 4 bytes, two packets in one queue | credits, wake-ups, order of channels, refinement of `Fabric` |

*Why the bounds are enough to be interesting.*

* Three messages of one sender are the fewest with a middle one, so that the held queue can hold two and drain in
  a chain; two tags plus both wildcards give every overlap of receive patterns.
* Three ranks are the smallest communicator that is no power of two: it has a rank with two roles, an extra Bruck round and a
  truncated tree. A length of 3 splits unevenly, a length of 1 on three ranks gives empty segments.
  DAG structure depends on the communicator size in ways three ranks do not show, hence
  `coll_dags`: it needs no interleavings, since `RaceFree` shows, DAG by DAG, that
  unordered actions never touch the same data, and so one execution order yields the result of all.
* Two processes of two threads have all three ways an event can take (own queue, slot, message), and links between
  processes are slower, so that what is sent later may be due earlier. Two sends suffice for an event that answers
  one from elsewhere.
* Durations 0, 1 and 2 make events of different threads fall on the same tick in either order. The timeout (3) is longer
  than any of them in `os_threads`: a signal on the very tick of the timeout is finding 4. A
  signal is given only while nobody has the mutex, since `pthread_cond_signal` takes the mutex for the
  woken thread whoever has it (section 6).
* A ring of four switches has a link that closes it and routes of two hops that cross it; with two bytes of MTU and three credits
  per virtual channel a second packet has to wait; in one of the jobs two packets wait in the same queue of a crossbar. `PiscesAssumption` is the
  check of the code, that the credits of a link cover the MTU; that they are then divided among the channels is described in section 6. In the run a full packet fits into the share of a channel.
  Every switch has one node; the credits of a link are not scaled (`scale_factor` 1); the injection ack is left out.
  Messages below `negligible_size` take the logp shortcut past this network.

Deadlock checking is off everywhere because finished jobs stop. Being stuck is covered by
`StuckOnlyIfUnmatched`, `Termination` and the fairness in `Fabric`.

*Fairness.* Liveness needs that the simulator executes every event it has scheduled, which
its event loop does: it runs until the queue is empty. `FairSpec` of `MpiQueue` has weak fairness
of every rank's calls, handlers and of the NICs. `DagCollective`, `OperatingSystem` and `Pisces` have weak fairness of `Next`, which is
enough because every behaviour is finite. `EventManager` has weak fairness of every thread (workers spin until
they find work) and of the MPI reduction. No fairness is assumed of any delivery order.
`Termination` of `OperatingSystem` excepts nodes that are `Starved` of cores (the code lets threads keep their cores
while they wait for a mutex or for more), nodes where a join threw, and threads that are `Stranded` because a canceled thread was woken in their place (section 6).

## 4. Proofs

All for arbitrary constants under the named assumptions (`WildcardAssumption`,
`ProgramAssumption`, `SizeAssumption`, `SwitchAssumption`; `OutstandingAssumption`, `JobAssumption`,
`DagAssumption`, `MatchAssumption`; `PiscesAssumption` and `TorusAssumption`; `ConstantAssumption`), which TLC evaluates in every run.

**MpiQueueProofs** (any number of tasks, any programs, any thresholds)

* `TypeCorrect`: `Spec => []TypeOK`. Types here include that every message belongs to a
  send of the program and that stage and wire type agree. That is what rules out the missing
  cases of the protocol handlers.
* `SequenceCorrect`: `Spec => []SequenceInv`. Inductive together with `TypeOK`. Its parts: a receiver
  counts no more than its sender numbered; messages under way have numbers from
  `next_inbound_` up to `next_outbound_`, all different; a held message that is due is
  being drained. "Different" is what makes "due" mean one message; "held implies not due
  or draining" is what makes the loop over `held_` complete.
* `HandledInSequence`: `Spec => SequencedHandling`, the action property that follows: a first-stage
  message is handled only as the next of its sender, although the fabric is a set.
* `NoPairMissed`: `Spec => []NoMatchablePair`. Inductive with `TypeOK`: whoever comes second looks
  at the whole list of the other side.

**MpiOrderProofs** (the same)

Three further groups of invariants carry what the lists alone do not say.

`OrderInv` is about order. Everything recorded belongs to a call that was made (`StartedInv`); of the sequenced messages between two tasks the order
of the numbers is the order of the program (`NumberInv`), and `need_recv_match_` keeps it (`ListInv`); a send that was
started is under way, unexpected or matched, and not both (`SendInv`), a receive is posted or matched, and not both (`RecvInv`); and a
receive that is still posted is younger than every matched one whose message it would take (`YoungerInv`).

* `MessagesDoNotOvertake`: `Spec => []NonOvertaking`. There are two places where a match is made: when a message is handled (all older ones of its
  sender were handled before, by `SequenceInv`, and those still unexpected do not fit the receive, by `NoMatchablePair`) and
  when a receive is posted (it takes the first of the list). In both no older message and no older receive is passed by (`MeetsInOrder`).
* `MatchingImplemented`: `Spec => ImplementsMatching` for jobs that satisfy `MatchedAtOnce`: no send uses Eager1. Without the
  hypothesis the statement is false (finding 1). Each action starts one send or receive, adds one match, or changes nothing that
  `MpiMatching` sees; that the match is one the rules allow needs `OrderInv` before the step and `NoMatchablePair`.
* `ProbesAreNotified`: `Spec => []ProbeNotified`. Inductive with `TypeOK`: a probe is put on the list only when it found
  nothing, and the protocols call `notifyProbes` in the step that lists the message.

`FlowInv` is about the stages of a flow: they come one by one, and only the payload and the ack of the NIC are under way together
(`StepByStep`); a send is in `send_flows_` as long as its ack is due (`SendFiled`), a receive in `recv_flows_` as long as its payload is
(`RecvFiled`); an ack under way proves a match (`AckEarned`), and a complete rendezvous send expects nothing more (`SendDone`).

* `ProtocolsNeverAbort`: `Spec => []NoProtocolAbort`. Handlers abort when they miss a flow; by `FlowInv` it is there.
* `RendezvousCompletesLate`: `Spec => []RendezvousCompletion`, by `AckEarned` and `SendDone`.

The third group says that whatever is waited for is on its way. A task is done only after its barrier, and then everybody is in
`MPI_Finalize` (`ControlInv`); every number between `next_inbound_` and `next_outbound_` belongs to a message that is under way or held
(`NoGaps`); a receive filed in `recv_flows_` has its data on the way, and a send filed in `send_flows_` that waits for an ack has it on the way or its
message still unmatched; a matched receive, and every send that was started, is complete or so filed (`AwaitInv`).

* `NeverWedged`: `Spec => []StuckOnlyIfUnmatched` for jobs that satisfy `ProgramsFinalize`: every task calls `MPI_Finalize`, last and
  once. When nothing can happen the network is empty (a task that waits or sits in `MPI_Finalize` polls, so whatever is under way can
  be handled); then `NoGaps` leaves nothing to be held back, and `AwaitInv` nothing that is matched and incomplete. The hypothesis is needed:
  nobody polls for a task that stopped without `MPI_Finalize`. All the programs of `MCMpiQueue` satisfy it.

**DagCollectiveProofs** (any communicator, any job, any DAGs)

The inductive invariant `IInv` has six parts: the sets are made of ids of the DAG; before the
call they are empty; *every action of a called collective is initial, waiting for something, active
or completed* (`AccountInv`); *a precursor of an action is completed or still filed as pending*
(`WaitInv`); a complete collective has nothing left; and every frame on a stack belongs to a called
collective, with the successors of an action visited only once it is over (`StackInv`).

* `DoneMeansAllHolds`: `checkCollectiveDone` sits between erasing an action and starting its
  successors. The invariant shows why that is right: the successors are in `pending_comms_`
  until then.
* `PrecursorsFirstHolds`: when the join counter of an action reaches 0 no pair for it is
  pending, so by `WaitInv` all its precursors are completed.

The second invariant, `MessageInv`, is about messages and needs DAGs that match. Every message belongs to a *flow*, the send of one actor
and the receive of another (`Known`; a put header runs from the receive to the send). It is inductive together with `IInv`; its parts:

* an action is in one phase (`PhaseInv`): initial, waiting, active or completed;
* a message is in one place, and off the network that is with its target (`SpotsOK`). Places are the network, the boxes of an actor
  (`early`, `sendHeaders`, `recvHeaders`) and the frames of the stacks, which are told apart by their height;
* the stage of a message says how far both ends are (`Stage`): an ack finds its send active, a get request both ends, a payload its receive,
  an eager message or a header a receive (for a put header a send) that is not over;
* of one flow there is at most one ack and one other message, and none while the other is still to be acked (`FlowsOK`);
* a receive that is over had its send started, and for a put the send that is over its receive (`Linked`). Without this part a send that starts might
  send to a receive that is over.

There is one lemma for what happens to the flows when an action starts or is over, when a message gives way to the next and when the NIC acks it, one for what
happens to the places, and one per action that puts the two together.

* `ActionsAreFound`: `Spec => []NoProtocolAbort`. An ack or a payload is handled only while its action is active, by its stage.
* `NothingComesLate`: `Spec => []DoneIsFinal`. When a collective is complete its actions are all completed and none is active, but every message for its actor, and every
  one the NIC has still to read from its buffers, is at a stage that has an end of the flow active or not yet over.

**OperatingSystemProofs** (any programs, any finite set of threads, any number of cores)

* `SchedulerConservesCores`: `Spec => []CoresConserved`. The counter of the scheduler is compared with the set of single cores that the
  threads hold (`CoresOf`), whose cardinality a reservation of *n* cores raises by *n*. The invariant adds that a thread that
  computes has the cores it asked for (`WantInv`), which is what it releases.

The other theorems have hypotheses about the programs, since for arbitrary ones the statements are false (section 6). `Simple`: no condition variable and no progress
queue, applications are not created by others, and a thread is created by one call. A signal locks a mutex that somebody has, a signal on the
tick of a timeout wakes twice (finding 4), and `pthread_create` of a running thread would start it again. `Disciplined`: threads unlock only
what they locked, and `trylock`, which reports a lock it does not take, is not used. `OneMore`: a computation takes at most one
core besides its thread's own, as `releaseCores` wakes one thread for all the cores it frees. `ProgramAssumption` of `MCOperatingSystem` states that
the programs of the run with mutexes, computations and canceled threads satisfy all three.

`ThreadInv` says where a thread is. One that sleeps has one *home* (`HomeInv`): an event, the list of the scheduler, the waiters of one mutex or the
joiners of one thread, and it is there once (`ListInv`). Whatever wakes it takes it out of its home and puts it into an event. What makes this
inductive is about the ends of threads: a thread that joins is in the list of the thread it joins, or that one is over (`JoinInv`); a thread whose
deletion is scheduled has ended (`EndInv`); who created a thread is past that call (`CreatedInv`), so it is started once. A canceled
thread leaves its home only when somebody wakes it; then it is deleted and is in no list any more.

* `NoThreadIsResumedAfterItsEnd`: `Spec /\ Simple(prog) /\ JoinedOnce(prog) => []~failed /\ NoFailure`. Every event is for a thread at home in it, which has not ended.
  That nobody is deleted twice is `DeleteInv`, and takes `JoinedOnce` (no application and no detached thread is joined, every other thread by at most one
  call): a canceled thread is deleted by the `unblock` that wakes it, an application or a detached thread by the event of its own end, and
  any other by the one thread that joins it; the invariant says for each who of the three it is, and that it has not happened as long as it can still happen.
* `EachSleeperHasOneWaker`: `Spec /\ Simple(prog) => []OneWaker`: the homes, counted.
* `MutexesExclude`: `Spec /\ Simple(prog) /\ Disciplined(prog) => []MutualExclusion`. A thread *claims* a mutex when it was told it has it, or
  is in the call of lock and no longer in the list of waiters, so was woken for it (`Claim`). No two threads claim a mutex, and nobody does, or waits, if it is not locked
  (`ClaimInv`). An unlock comes from the one that claims (`HeldInv`: a thread has what its program has locked so far).
* `NoCoreStaysIdle`: `Spec /\ Simple(prog) /\ OneMore(prog) => []WorkConserving`. That some thread is on its way is not inductive, since it may take one core of
  two, or find that another thread took it. The invariant counts: while threads wait, at least as many are woken or running and about to ask
  for a core as there are idle ones (`SpareInv`). It needs what each thread has and asks for at each place (`ShareInv`, `PendInv`).
  The exception, `Swallowed`, came out of the proof: a core offered to a canceled thread is offered to nobody else.

**PiscesProofs** (any torus with dimensions of at least 2, any traffic and injection credits, link credits that cover the MTU)

* `FirstHop`: the first hop of a packet leaves it with a header that fits where it is going (`Heading`): it has not crossed the
  dateline unless the link it is on is the one that does.
* `HopAscends`: from such a header, the next hop is one step nearer along the ring or the first of a later dimension,
  leaves such a header, and takes a channel after the one it holds. The hard case is the ring: the direction
  must not change on the way (`KeepsDirection`), or the dateline would be crossed twice.
* `ChannelOrder`: `Before` is irreflexive and transitive.

The dimension a router works on is the *least* one in which the coordinates differ; that there is a least
one is the least-number principle, taken from the library's well-foundedness of the natural numbers.

* `ChannelsAreOrdered`: `Spec => []ChannelsOrdered`. What a packet waits for depends on its header, and the header was
  written some stages earlier. `IInv` carries the facts about it (`LeavesBy`, with `Heading`) through every link, crossbar and
  buffer; credits and pending messages are in it only with their types. Each action then preserves it because
  what it moves was in a good place before, and `HopAscends` covers the one action that routes.
  With `ChannelOrder` no circle of packets can wait for each other.

**PiscesCreditProofs** (the same constants)

The conservation laws of `Pisces` name, for every stage, three places where its credits can be: on the link, in the next queue and on the
way back. None is inductive: a handler takes a packet out of one law and into another, and that nothing is counted twice is about
packets, not about sums. `CreditsInv` speaks of single packets instead:

* A packet in the network is in one place and has one *debt*, the credit for the stage that let it go (`Creditor`, `Debt`). The
  debts and the credits on the links are the *dues* (`DuesOf`).
* Every stage has an *account* (`Account`): a crossbar and an output buffer one per virtual channel, a NIC one. `Books`: what is left
  in it and the bytes of the dues to it add up to what it started with.
* `Placed`: all dues for one packet are to different accounts, in the order of the stages, and its debt is the last one
  (`Precedes`). A packet that goes on therefore adds a due where there was none for it. That a packet never comes to a stage twice is
  `ChannelsOrdered`, which is why this proof needs `IInv`.
* `FreshInv`: of a message that is pending, only packets below the offset it has sent have dues, so those that are cut next are new.

Sums are the cardinality of a set of bytes (`BytesIn`): packets of a message do not overlap, because each starts at a multiple
of the MTU (`IsCut`). So the theorems need no induction over the packets of a queue, and the two loops are
characterised by what they leave: the loop of `handleCredit` no packet that fits (`FittingBytes`), that of `packetSent` no
room for a packet unless it finished every message (`ResumeBytes`).

* `CreditsAreConserved`: `Spec => []CreditsConserved`. Every action is one of five moves on the books: packets go on (`Hop`), a credit comes in
  (`Paid`), a packet moves within a stage (`Stay`), leaves (`Leave`), or new ones enter (`Enter`). The laws then follow because the
  dues of an account lie in exactly the places they name (`AccountParts`).
* `NobodyMissesCredits`: `Spec => []NoLostWakeup`. Inductive with `CreditsInv`: a counter never exceeds what it started with, so after a
  packet went it is below, although the crossbar sends one packet for each credit. The property is about each packet that
  fits into the share of its channel, also when others in the same queue do not; one that does not fit waits for credits that will never be there.

**EventManagerInv, EventManagerProofs** (any number of processes and threads, any links, lookahead,
initial events and stop times; no application that ends the simulation, `NoTerminator`)

None of the properties of the epoch loop is inductive, and none can be proved without most of the others: an event is in
time because the horizon is the least vote, the vote covers what was sent because the sender had registered, it had registered
because the slots rotate once per epoch, and they do because no thread is ahead of its parent in the tree. `IInv` says this in four parts:

* `ThreadInv`: a worker is idle, has not heard of the epoch yet, was called, is busy or was told to end, and its
  children are never ahead of it (`WorkerOk`, `TreeOk`); a thread that is finished voted for no later than anything in its queue, its own
  events under way and its children's votes (`VoteOk`).
* `TimeInv`: all processes agree where the last epoch they agreed on begins, whether they have opened it or not
  (`Bound`, `SameBound`); nothing unhandled lies before it; all managers stop at one time.
* `FlightInv`: what threads send goes to one slot (`SlotInv`), which is the one its owner takes next; what is in a slot,
  a send buffer or `pending_serialization_` is for its owner, not before the horizon, and covered by its sender's vote.
* `MessageInv`: a message is of the epoch its sender brings to the reduction or of the one its receiver comes from, the tags
  tell them apart, and a receiving process has as many of its own as the reduction counted.

`EventManagerProofs` has one lemma per action; facts about all workers of a process follow down the tree from those about the children of
the main thread (`DownTheTree`, the least-number principle on thread ids). The theorems:

* `EpochsImplementSim`: `Spec => ImplementsSim`. A handled event is the first of its queue, and every other manager's events
  are at or after the bound, so below the horizon it is safe; the other actions leave events and clocks alone.
* `EpochsAreOnTime`: `Spec => []NoTimeTravel`, from the refinement and `ConservativeIsOnTime`, whose strengthening is
  `WithinLookahead`: no manager is a whole lookahead ahead of an event for somebody else.
* `SlotsNeverRace`, `TagsSuffice`, `EndsEmpty`: `SlotRaceFree`, `MessagesOfThisEpoch` and `NothingLeftBehind` are read off `IInv`.
* `NeverAborts`: `NoAbort` if `NoTerminator` and the manager is multithreaded or there is no stop time. A stop of the single-threaded manager does abort
  (finding 3), whoever asked for it.

`NoTerminator` is needed by all of them: `endSimulation` stops one manager and tells no other. It drops its vote, so that what it had
sent in this epoch may be jumped over; with the single-threaded manager it aborts as in finding 3, and processes that have not stopped
wait for it in the reduction (section 6).

The assumptions on the constants are those of `ConstantAssumption`: links are no faster than the lookahead, link ids differ at a receiver, and
times of setup events, stop times and the lookahead are below `no_events_left_time`, the largest time there is
(`event_manager.cc:70`). Setup events may be due at any time, also after the stop time. One case is left out: the first event of the
first self link of a process has the link id and the number of its StopEvent (`sst_event.h:82`,
`event_manager.cc:419-425`), so if it is due exactly at the stop time the two are equal and the queue, a `std::set`, keeps only one of them.

**Only model-checked**: liveness (`Termination`); the refinements `ImplementsSync`, which rests on the concrete DAGs, and `ImplementsFabric`, which includes liveness;
everything about results and concrete DAGs
(`ResultCorrect`, `DagsMatch`, `RaceFree`, `DagsCompute`, `Synchronises`); the invariants of the operating system for programs with condition
variables and progress queues. Liveness and properties of recursively defined functions over all inputs are beyond the prover.

## 5. Running the checks

    tlc -workers 2 -config MpiQueue_order.cfg MCMpiQueue
    tlc -workers 2 -config DagCollective_get.cfg MCDagCollective
    tlc -workers 2 -config CollectiveDag.cfg MCCollectiveDag
    tlc -workers 2 -config OperatingSystem.cfg MCOperatingSystem
    tlc -workers 2 -config Pisces.cfg MCPisces
    tlc -workers 2 -config EventManager.cfg MCEventManager
    tlapm MpiQueueProofs.tla          (MpiOrderProofs, DagCollectiveProofs,
                                       OperatingSystemProofs, PiscesProofs,
                                       PiscesCreditProofs, EventManagerInv, EventManagerProofs)

The other runs are in `PROJECT.json`. The longest take two to three minutes.

## 6. Findings

With a run each:

1. **Eager1 messages can be overtaken** (`pt2pt_eager1_overtaking`). Only the header of an Eager1
   message is sequenced; it is matched when its RDMA payload comes back, which
   `incomingPt2ptMessage` passes straight through. `mpi_queue.h` says the handler's message "is
   guaranteed to satisfy sequencing constraints".
2. **Reduce to a root other than 0 on 3, 7, 15, ... ranks** (`coll_reduce_root`). The upper half is
   taken from real rank 1, which in these communicators is virtual rank 2 and has not reduced it.
   `coll_dags` therefore leaves these roots out; for all others up to 16 ranks reduce is correct.
3. **A stop time aborts the single-threaded parallel manager** (`parallel_stop`). A manager that has stopped calls
   `receiveIncomingEvents` in the same round (`clock_cycle_event_container.cc:175-177`), which aborts after a stop. `endSimulation` is the second way
   to get there.
4. **A signal on the tick of the timeout** (`os_timeout`). The signal only schedules the switch to the thread; the timeout
   still finds the old block counter, reports a timeout and wakes the thread a second time.

Seen while modelling, without a run of their own; the passing runs state their properties for what the code does
support:

* `sumi-mpi/mpi_protocol/eager1.cc:100`: an Eager1 payload never calls `notifyProbes` (`ProbeNotified` leaves it out);
  `rendezvous_rdma.cc:197`: probes are notified although the message was already matched;
  `mpi_queue_recv_request.cc:106`: the truncation check compares the size of the header for rendezvous messages.
* `mpi_api_test.cc:71` and `:125`: `MPI_Test` frees persistent requests; `MPI_Testall` consumes some requests before it finds one that is not
  done. `mpi_comm.cc:203`: the tag of a collective has 16 bits.
* `sumi/allgather.cc:211`: the ring allgather never loads its own block into the buffer it sends from.
* `sumi/scatter.cc:149`: a root other than 0 that is an inner node of the tree forwards from its send buffer at offsets meant
  for the receive buffer, and an even root never copies its own block; on two ranks the midpoint is odd and keeps its
  block in `recv_buffer_`. TLC finds each if `RightResult` is relaxed. (`tests/api/mpi/coll/scattern.cc` scatters from every root of 4.)
* `sumi/scan.cc:128`: the copy that makes the next round send the sum so far ("we need to memcpy the result buffer into the send buffer for the next
  round") is built only if `recv_buffer_` is set, and `initDag` runs before `initBuffers` sets it (`collective_actor.h:365-369`, `:387`). Every round
  sends the rank's own contribution: on 4 ranks rank 3 misses that of rank 0. Two and three ranks need no such copy. TLC shows it if `RightResult` is relaxed.
* `sumi/alltoall.cc:281`: the direct alltoall multiplies lengths by the partner's rank; `alltoallv.cc` never advances its offsets.
* `sumi/sim_transport.cc:292`: `allocateCq` replays held messages through a moved-from function; `:656` and
  `communicator.cc:124`: SMP communicators; `:1000`: `waitBarrier`; `collective_actor.h:109`: message ids take the round modulo 500.
* `sstmac/software/process/operating_system.cc:744` with `thread.cc:90`: a canceled thread whose start was put off runs after all;
  `operating_system.cc:357`: `execute` holds cores while it asks for more; `thread.cc:309`: canceled threads keep their cores.
* `sstmac/software/process/simple_compute_scheduler.cc:118` with `operating_system.cc:517`: `releaseCores` takes a thread off its list and wakes it; if it was
  canceled `unblock` deletes it instead, and the core stays idle though others wait for it (`Swallowed`). `:103`: one release wakes one thread, also when it
  frees cores for two: with three cores, `execute` on all three can leave a thread waiting next to an idle core. The proof of `NoCoreStaysIdle` failed for both; TLC shows them
  when `WorkConserving` is stated without the exception, or for such programs.
* `sstmac/libraries/pthread/sstmac_pthread.cc:496`: a signal locks the mutex for the woken thread even if somebody
  has it; `:458`: a timed wait that times out returns without it; `:303`: `trylock` succeeds without locking. Programs with two waiters and
  two signals (`tests/test_pthread.cc:80-141`) have two threads inside and are left out of `os_threads`.
* `sstmac/software/libraries/unblock_event.cc:73`: the TimeoutEvent of a timed wait that was signalled early is not canceled. If the
  thread has ended and was joined by then, it reads the block counter of a deleted thread. `os_threads` has this program; `NoFailure` states that this (`LateTimeout`) is the
  only way an event reaches a deleted thread.
* `sstmac/software/process/app.cc:578-586`: `getSubthread` throws for a thread it does not know, where `pthread_join` expects a null pointer for one that
  "has already finished" (`sstmac_pthread.cc:149`): a second join throws. Two threads that wait in a join of the same thread both delete it.
* `sstmac/software/process/progress_queue.cc:69`: a thread that was woken stays on the list until it runs; a second item posted by a running
  thread before that unblocks it again, and the second switch meets it in some later block. The model has it; the programs of `os_threads` post once.
* `sstmac/hardware/pisces/pisces_switch.cc:144`: the MTU is compared with the credits of a link, which are divided by the number of virtual
  channels. With an MTU above a channel's share a full packet is accepted, queued and never sent; `:173`: the credits parameter of the crossbar is read, `link_credits_` is used.
* `sstmac/hardware/router/torus_routing.cc:245`: Valiant routing keeps `crossed_timeline` at the intermediate switch;
  `topology/torus.cc:163`: dimensions of size 1; `:115`: `minimalDistance` overwrites the sum.
* `sstmac/backends/mpi/mpi_runtime.cc:281`: votes carry ticks only; `common/event_scheduler.h:429`: a self link has the id of the
  StopEvent; `software/launch/job_launcher.cc:180`: the launcher of an application with `terminate` ends the simulation of its own
  manager only. The others go on: a single-threaded manager that stopped aborts at `clock_cycle_event_container.cc:119`, after which other processes
  wait for it in the reduction, and a worker that stopped no longer votes for what it sent.

## 7. Not modelled, and the plan

Left out of the modelled components: waits over several requests and persistent requests;
SMP communicators, whose collectives are chains; several actors per collective; non-contiguous types; QoS; the
cpuset scheduler, the polling progress queues, keys and OpenMP; muxers and tiled switches; Valiant and adaptive routing;
profiling loops of the event managers; the timing model everywhere. Most of the repository by lines is not
protocol code and stays outside: vendored libraries (JSON, XML), skeleton applications, the source-to-source compiler,
replacement headers, trace parsing, parameter plumbing and delay arithmetic. They have no state that several actors
share, and a model of them would repeat the code.

Order of work:

1. Requests: nonblocking and persistent requests under wait, waitany,
   waitall, test, testall, checked against an abstract request.
2. SMP chains in `DagCollective`; completion queues and `allocateCq` of the transport.
3. Credits of snappr; the other routers, each with its own order of channels.
4. Launcher: no node given to two jobs.

Proofs to come: mutual exclusion for programs that signal only while the
mutex is free.
