-------------------------- MODULE OperatingSystem --------------------------
(***************************************************************************)
(* The operating system of a simulated node: user-space threads on cores,  *)
(* with mutexes, conditions, joins, sleeps and a progress queue            *)
(* (OperatingSystem, Thread, SimpleComputeScheduler, the pthread library   *)
(* and SingleProgressQueue).                                               *)
(*                                                                         *)
(* At most one thread runs at a time; it runs until it blocks, and only    *)
(* then does the event queue of the simulator (the DES thread) go on.  An  *)
(* unblock from a running thread is therefore an event for later, one from *)
(* the DES thread switches at once.  Threads run programs, sequences of    *)
(* calls; how long a call takes is left open within bounds.                *)
(***************************************************************************)
EXTENDS Integers, FiniteSetsExt, SequencesExt

CONSTANTS
  Thread,       \* all threads of the node
  App,          \* the main threads of applications
  Parent,       \* parent_app_ of every thread
  Detached,     \* subthreads created with PTHREAD_CREATE_DETACHED
  Mutex,        \* mutexes, each with one condition that is used with it
  NCores,       \* ncores_
  Programs,     \* what the threads may do: functions from Thread to calls
  Durations,    \* bound: the ticks a computation or a sleep may take
  Timeout,      \* the ticks of a timed wait
  NoThread

Ops == {"create", "join", "compute", "execute", "sleep", "lock", "trylock", "unlock",
        "wait", "timedwait", "signal", "front", "post"}
Call == [op : Ops, thr : Thread \cup {NoThread}, mut : Mutex, n : Nat]

ASSUME ConstantAssumption ==
  /\ IsFiniteSet(Thread)
  /\ App \subseteq Thread
  /\ Parent \in [Thread -> App]
  /\ \A a \in App : Parent[a] = a
  /\ Detached \subseteq Thread \ App
  /\ NCores \in Nat \ {0}
  /\ \A p \in Programs : p \in [Thread -> Seq(Call)]
  /\ Durations \subseteq Nat
  /\ Timeout \in Nat \ {0}
  /\ NoThread \notin Thread

VARIABLES
  prog,         \* the program that was chosen
  arrivals,     \* messages of the network that are still to come
  active,       \* active_thread_; NoThread on the DES thread
  events,       \* the events of the node, in the order they are due
  state,        \* state_ of a thread
  at,           \* where it is in its call
  ip,           \* its next call
  want,         \* the cores a reserveCores asks for
  cores,        \* active_cores_
  ncoreActive,  \* ncore_active_
  pending,      \* pending_threads_ of the scheduler
  locked,       \* mutex_t::locked
  waiters,      \* mutex_t::waiters
  conditionals, \* mutex_t::conditionals
  signalled,    \* mutexes in the condition's map of pending mutexes
  subthreads,   \* subthreads_ of the applications
  joiners,      \* joiners_
  items,        \* number of items in the progress queue
  pendingQ,     \* pending_threads of the progress queue
  blockCounter, \* block_counter_
  timedOut,     \* timed_out_
  deleted,      \* threads that were deleted
  holds,        \* ghost: mutexes a thread was told it has
  failed        \* a deleted or finished thread was used, or an abort

schedVars == <<cores, ncoreActive, pending>>
mutexVars == <<locked, waiters, conditionals, signalled, holds>>
queueVars == <<items, pendingQ, arrivals>>
lifeVars == <<state, subthreads, joiners, deleted>>
vars == <<prog, active, events, at, ip, want, schedVars, mutexVars, queueVars,
          lifeVars, blockCounter, timedOut, failed>>

(***************************************************************************)
(* The event queue: events in the order they are due, those due together   *)
(* in the order they were sent.  "wait" counts from the present.           *)
(***************************************************************************)
Event(wait, kind, t, n) == [wait |-> wait, kind |-> kind, thr |-> t, n |-> n]

sendDelayed(q, e) ==
  LET i == Cardinality({k \in DOMAIN q : q[k].wait <= e.wait}) IN InsertAt(q, i + 1, e)

sendNow(q, kind, t) == sendDelayed(q, Event(0, kind, t, 0))

Later(q, d) == [k \in DOMAIN q |-> [q[k] EXCEPT !.wait = @ - d]]

NumCalls(op) ==
  Cardinality(UNION {{<<t, i>> : i \in {k \in DOMAIN prog[t] : prog[t][k].op = op}} : t \in Thread})

Init ==
  /\ prog \in Programs
  /\ arrivals = NumCalls("front") - NumCalls("post")
  /\ active = NoThread
  /\ events = <<>>
  /\ state = [t \in Thread |-> "PENDING"]
  /\ at = [t \in Thread |-> "off"]
  /\ ip = [t \in Thread |-> 1]
  /\ want = [t \in Thread |-> 0]
  /\ cores = [t \in Thread |-> 0]
  /\ ncoreActive = 0
  /\ pending = <<>>
  /\ locked = [m \in Mutex |-> FALSE]
  /\ waiters = [m \in Mutex |-> <<>>]
  /\ conditionals = [m \in Mutex |-> <<>>]
  /\ signalled = {}
  /\ subthreads = {}
  /\ joiners = [t \in Thread |-> <<>>]
  /\ items = 0
  /\ pendingQ = <<>>
  /\ blockCounter = [t \in Thread |-> 0]
  /\ timedOut = [t \in Thread |-> FALSE]
  /\ deleted = {}
  /\ holds = [t \in Thread |-> {}]
  /\ failed = FALSE

(***************************************************************************)
(* Calls of a running thread.                                              *)
(***************************************************************************)
Running(t, label) == active = t /\ at[t] = label /\ ~failed
Calling(t) == prog[t][ip[t]]
Calls(t, op) == Running(t, "ready") /\ ip[t] <= Len(prog[t]) /\ Calling(t).op = op

Return(t) == at' = [at EXCEPT ![t] = "ready"] /\ ip' = [ip EXCEPT ![t] = @ + 1]

\* block: the DES thread goes on; the thread continues at label.
Block(t, label) ==
  /\ active' = NoThread
  /\ at' = [at EXCEPT ![t] = label]
  /\ timedOut' = [timedOut EXCEPT ![t] = FALSE]

\* unblock, called by a running thread: a canceled thread is deleted.
Canceled(t) == state[t] = "CANCELED"
Unblock(q, t) == IF Canceled(t) THEN q ELSE sendNow(q, "switch", t)
Delete(T) == deleted' = deleted \cup T

\* The end of a join: the thread is forgotten and deleted; the last of two that
\* join the same thread deletes it once more.
DeleteJoined(u) ==
  /\ subthreads' = subthreads \ {u}
  /\ Delete({u})
  /\ failed' = (u \in deleted)
  /\ UNCHANGED <<state, joiners>>

(***************************************************************************)
(* SimpleComputeScheduler.                                                 *)
(***************************************************************************)
Free == NCores - ncoreActive

\* The cores a thread asks for are there.
Enough(t) == want[t] <= Free

\* The pending threads that fit into n free cores.
Fitting_Mut(n) == {k \in DOMAIN pending : pending[k].n < n}     \* off by one
Fitting(n) == {k \in DOMAIN pending : pending[k].n <= n}

\* The loop of reserveCores: one round.
reserveCores(t) ==
  \/ /\ ~Enough(t)
     /\ pending' = Append(pending, [n |-> want[t], thr |-> t])
     /\ Block(t, at[t])
     /\ UNCHANGED <<ip, cores, ncoreActive, lifeVars, failed>>
  \/ /\ Enough(t)
     /\ cores' = [cores EXCEPT ![t] = @ + want[t]]
     /\ ncoreActive' = ncoreActive + want[t]
     /\ CASE at[t] = "guard" -> at' = [at EXCEPT ![t] = "ready"] /\ UNCHANGED <<ip, lifeVars, failed>>
          [] at[t] = "execute" -> at' = [at EXCEPT ![t] = "run"] /\ UNCHANGED <<ip, lifeVars, failed>>
          [] at[t] = "sleep" -> Return(t) /\ UNCHANGED <<lifeVars, failed>>
          [] at[t] = "join" -> Return(t) /\ DeleteJoined(Calling(t).thr)
     /\ UNCHANGED <<active, timedOut, pending>>

ReserveCores(t) ==
  /\ \E label \in {"guard", "execute", "sleep", "join"} : Running(t, label)
  /\ reserveCores(t)
  /\ UNCHANGED <<prog, events, want, mutexVars, queueVars, blockCounter>>

\* A woken thread is no longer pending.
Erase_Mut(k) == pending     \* left to the thread
Erase(k) == RemoveAt(pending, k)

\* The cores a thread keeps when it gives n back.
Kept_Mut(t, n) == 0     \* gives all back
Kept(t, n) == cores[t] - n

\* releaseCores: the first pending thread that fits is woken, with the
\* events of q sent before.
releaseCores(n, t, q) ==
  LET fit == Fitting(Free + n) IN
  /\ cores' = [cores EXCEPT ![t] = Kept(t, n)]
  /\ ncoreActive' = ncoreActive - n
  /\ IF fit = {}
     THEN events' = q /\ UNCHANGED <<pending, deleted>>
     ELSE LET u == pending[Min(fit)].thr IN
          /\ pending' = Erase(Min(fit))
          /\ events' = Unblock(q, u)
          /\ Delete({v \in {u} : Canceled(v)})

(***************************************************************************)
(* Threads: pthread_create, join, compute, execute, sleep.  pthread_create *)
(* without attributes: with them it also calls setCpumask, which releases  *)
(* and reserves the cores of the new thread, none as yet.                  *)
(***************************************************************************)
Create(t) ==
  /\ Calls(t, "create")
  /\ subthreads' = subthreads \cup {Calling(t).thr}
  /\ events' = sendNow(events, "start", Calling(t).thr)
  /\ Return(t)
  /\ UNCHANGED <<prog, active, want, schedVars, mutexVars, queueVars, state, joiners,
                 deleted, blockCounter, timedOut, failed>>

\* getSubthread: the application of t has a subthread u.
Known(t, u) == u \in subthreads /\ Parent[u] = Parent[t]

\* pthread_join: an unknown thread throws, which ends the run.  joinThread: a
\* thread that waits gives up its cores.
Join(t) ==
  LET u == Calling(t).thr IN
  /\ Calls(t, "join")
  /\ \/ /\ ~Known(t, u)
        /\ at' = [at EXCEPT ![t] = "threw"]
        /\ UNCHANGED <<active, events, ip, want, schedVars, lifeVars, timedOut, failed>>
     \/ /\ Known(t, u)
        /\ state[u] = "DONE"
        /\ DeleteJoined(u)
        /\ Return(t)
        /\ UNCHANGED <<active, events, want, schedVars, timedOut>>
     \/ /\ Known(t, u)
        /\ state[u] # "DONE"
        /\ joiners' = [joiners EXCEPT ![u] = Append(@, t)]
        /\ want' = [want EXCEPT ![t] = cores[t]]
        /\ releaseCores(cores[t], t, events)
        /\ Block(t, "join")
        /\ UNCHANGED <<ip, state, subthreads, failed>>
  /\ UNCHANGED <<prog, mutexVars, queueVars, blockCounter>>

\* compute keeps the core.
Compute(t) ==
  /\ Calls(t, "compute")
  /\ \E d \in Durations : events' = sendDelayed(events, Event(d, "unblock", t, 0))
  /\ Block(t, "return")
  /\ UNCHANGED <<prog, ip, want, schedVars, mutexVars, queueVars, lifeVars, blockCounter, failed>>

Sleep(t) ==
  /\ Calls(t, "sleep")
  /\ want' = [want EXCEPT ![t] = cores[t]]
  /\ \E d \in Durations :
       releaseCores(cores[t], t, sendDelayed(events, Event(d, "unblock", t, 0)))
  /\ Block(t, "sleep")
  /\ UNCHANGED <<prog, ip, mutexVars, queueVars, state, subthreads, joiners, blockCounter, failed>>

\* execute on n cores: reserve the missing ones, run, release them.
Execute(t) ==
  /\ Calls(t, "execute")
  /\ want' = [want EXCEPT ![t] = Calling(t).n - cores[t]]
  /\ at' = [at EXCEPT ![t] = IF Calling(t).n > cores[t] THEN "execute" ELSE "run"]
  /\ UNCHANGED <<prog, active, events, ip, schedVars, mutexVars, queueVars, lifeVars,
                 blockCounter, timedOut, failed>>

ExecuteRun(t) ==
  /\ Running(t, "run")
  /\ \E d \in Durations : events' = sendDelayed(events, Event(d, "unblock", t, 0))
  /\ Block(t, "ran")
  /\ UNCHANGED <<prog, ip, want, schedVars, mutexVars, queueVars, lifeVars, blockCounter, failed>>

ExecuteDone(t) ==
  /\ Running(t, "ran")
  /\ IF want[t] > 0
     THEN releaseCores(want[t], t, events)
     ELSE UNCHANGED <<schedVars, events, deleted>>
  /\ Return(t)
  /\ UNCHANGED <<prog, active, want, mutexVars, queueVars, state, subthreads, joiners,
                 blockCounter, timedOut, failed>>

\* A call that has nothing left to do when its block returns.
AfterBlock(t) ==
  /\ Running(t, "return")
  /\ Return(t)
  /\ UNCHANGED <<prog, active, events, want, schedVars, mutexVars, queueVars, lifeVars,
                 blockCounter, timedOut, failed>>

(***************************************************************************)
(* Mutexes and conditions.  unlock hands a locked mutex to the first       *)
(* waiter; holds records what a thread was told it has.                    *)
(***************************************************************************)
frameVars == <<prog, want, schedVars, queueVars, lifeVars, blockCounter, failed>>

Take(t, m) == holds' = [holds EXCEPT ![t] = @ \cup {m}]
Give(t, m) == holds' = [holds EXCEPT ![t] = @ \ {m}]

\* A mutex that others wait for stays locked when it is given up.
StaysLocked_Mut(m) == FALSE     \* unlocked for the waiter to lock again
StaysLocked(m) == locked[m] /\ waiters[m] # <<>>

Lock(t) ==
  LET m == Calling(t).mut IN
  /\ Calls(t, "lock")
  /\ \/ /\ locked[m]
        /\ waiters' = [waiters EXCEPT ![m] = Append(@, t)]
        /\ Block(t, "lock")
        /\ UNCHANGED <<ip, locked, holds>>
     \/ /\ ~locked[m]
        /\ locked' = [locked EXCEPT ![m] = TRUE]
        /\ Take(t, m)
        /\ Return(t)
        /\ UNCHANGED <<active, waiters, timedOut>>
  /\ UNCHANGED <<frameVars, events, conditionals, signalled>>

LockDone(t) ==
  /\ Running(t, "lock")
  /\ Take(t, Calling(t).mut)
  /\ Return(t)
  /\ UNCHANGED <<frameVars, active, events, locked, waiters, conditionals, signalled, timedOut>>

\* pthread_mutex_trylock does not lock.
Trylock(t) ==
  LET m == Calling(t).mut IN
  /\ Calls(t, "trylock")
  /\ IF locked[m] THEN UNCHANGED holds ELSE Take(t, m)
  /\ Return(t)
  /\ UNCHANGED <<frameVars, active, events, locked, waiters, conditionals, signalled, timedOut>>

Unlock(t) ==
  LET m == Calling(t).mut IN
  /\ Calls(t, "unlock")
  /\ Give(t, m)
  /\ locked' = [locked EXCEPT ![m] = StaysLocked(m)]
  /\ IF locked[m] /\ waiters[m] # <<>>
     THEN /\ waiters' = [waiters EXCEPT ![m] = Tail(@)]
          /\ events' = Unblock(events, Head(waiters[m]))
          /\ Delete({u \in {Head(waiters[m])} : Canceled(u)})
     ELSE UNCHANGED <<waiters, events, deleted>>
  /\ Return(t)
  /\ UNCHANGED <<prog, active, want, schedVars, queueVars, state, subthreads, joiners,
                 conditionals, signalled, blockCounter, timedOut, failed>>

\* pthread_cond_wait and pthread_cond_timedwait.  A waiter of the mutex is
\* woken by an event of its own.
Wait(t) ==
  LET m == Calling(t).mut
      q == IF waiters[m] = <<>> THEN events
           ELSE sendDelayed(events, Event(0, "mutex", NoThread, m)) IN
  /\ Calls(t, "wait") \/ Calls(t, "timedwait")
  /\ signalled' = signalled \cup {m}
  /\ Give(t, m)
  /\ locked' = [locked EXCEPT ![m] = StaysLocked(m)]
  /\ conditionals' = [conditionals EXCEPT ![m] = Append(@, t)]
  /\ events' = IF Calling(t).op = "wait" THEN q
               ELSE sendDelayed(q, Event(Timeout, "timeout", t, blockCounter[t]))
  /\ Block(t, "wait")
  /\ UNCHANGED <<frameVars, ip, waiters>>

\* The wait returns; after a timeout the thread leaves the condition.  The
\* mutex is not taken again.
WaitDone(t) ==
  LET m == Calling(t).mut IN
  /\ Running(t, "wait")
  /\ Take(t, m)
  /\ conditionals' = IF Calling(t).op = "timedwait" /\ timedOut[t]
                     THEN [conditionals EXCEPT ![m] = SelectSeq(@, LAMBDA u : u # t)]
                     ELSE conditionals
  /\ Return(t)
  /\ UNCHANGED <<frameVars, active, events, locked, waiters, signalled, timedOut>>

\* pthread_cond_signal: the mutex is locked for the thread that is woken,
\* whoever has it now; a condition without threads aborts.
Signal(t) ==
  LET m == Calling(t).mut IN
  /\ Calls(t, "signal")
  /\ \/ /\ m \in signalled
        /\ conditionals[m] # <<>>
        /\ conditionals' = [conditionals EXCEPT ![m] = Tail(@)]
        /\ locked' = [locked EXCEPT ![m] = TRUE]
        /\ events' = Unblock(events, Head(conditionals[m]))
        /\ Delete({u \in {Head(conditionals[m])} : Canceled(u)})
     \/ /\ m \notin signalled \/ conditionals[m] = <<>>
        /\ UNCHANGED <<conditionals, locked, events, deleted>>
  /\ failed' = (m \in signalled /\ conditionals[m] = <<>>)
  /\ Return(t)
  /\ UNCHANGED <<prog, active, want, schedVars, queueVars, state, subthreads, joiners,
                 waiters, signalled, holds, blockCounter, timedOut>>

(***************************************************************************)
(* SingleProgressQueue: front and pop, and an item left by a thread.  The  *)
(* waiting thread stays listed until it runs again.                        *)
(***************************************************************************)
QueueFront(t) ==
  /\ Calls(t, "front")
  /\ \/ /\ items > 0
        /\ items' = items - 1
        /\ Return(t)
        /\ UNCHANGED <<active, pendingQ, timedOut>>
     \/ /\ items = 0
        /\ pendingQ' = Append(pendingQ, t)
        /\ Block(t, "front")
        /\ UNCHANGED <<ip, items>>
  /\ UNCHANGED <<prog, events, want, schedVars, mutexVars, arrivals, lifeVars, blockCounter, failed>>

QueueFrontDone(t) ==
  /\ Running(t, "front")
  /\ pendingQ' = SelectSeq(pendingQ, LAMBDA u : u # t)
  /\ failed' = (items = 0)
  /\ items' = IF items = 0 THEN 0 ELSE items - 1
  /\ Return(t)
  /\ UNCHANGED <<prog, active, events, want, schedVars, mutexVars, arrivals, lifeVars,
                 blockCounter, timedOut>>

Post(t) ==
  /\ Calls(t, "post")
  /\ items' = items + 1
  /\ events' = IF pendingQ = <<>> THEN events ELSE Unblock(events, Head(pendingQ))
  /\ Delete({u \in ToSet(pendingQ) : u = Head(pendingQ) /\ Canceled(u)})
  /\ Return(t)
  /\ UNCHANGED <<prog, active, want, schedVars, mutexVars, pendingQ, arrivals, state,
                 subthreads, joiners, blockCounter, timedOut, failed>>

(***************************************************************************)
(* The end of a thread: the core is released, an application cancels its   *)
(* subthreads, whoever deletes itself sends the event for it, and those    *)
(* that wait for the thread are woken.                                     *)
(***************************************************************************)
Cancels(t) == IF t \in App THEN {u \in subthreads : Parent[u] = t} ELSE {}
DeletesItself(t) == t \in App \/ (t \in Detached /\ ~Canceled(t))

\* The guard of runRoutine gives the core back.
Exit(t) ==
  /\ Running(t, "ready")
  /\ ip[t] > Len(prog[t])
  /\ releaseCores(cores[t], t, events)
  /\ at' = [at EXCEPT ![t] = "cleanup"]
  /\ UNCHANGED <<prog, active, ip, want, mutexVars, queueVars, state, subthreads, joiners,
                 blockCounter, timedOut, failed>>

\* App::cleanup and Thread::cleanup.
Cleanup(t) ==
  /\ Running(t, "cleanup")
  /\ state' = [u \in Thread |-> IF u = t THEN "DONE"
                               ELSE IF u \in Cancels(t) THEN "CANCELED" ELSE state[u]]
  /\ subthreads' = subthreads \ (Cancels(t) \cup {u \in Detached : u = t})
  /\ events' = IF DeletesItself(t) THEN sendNow(events, "delete", t) ELSE events
  /\ at' = [at EXCEPT ![t] = "complete"]
  /\ UNCHANGED <<prog, active, ip, want, schedVars, mutexVars, queueVars, joiners, deleted,
                 blockCounter, timedOut, failed>>

\* completeActiveThread: one joiner after the other, then the context ends.
JoinersLeft_Mut(t) == <<>>     \* forgets the joiners
JoinersLeft(t) == joiners[t]

Complete(t) ==
  /\ Running(t, "complete")
  /\ \/ /\ JoinersLeft(t) # <<>>
        /\ events' = Unblock(events, Head(joiners[t]))
        /\ Delete({u \in {Head(joiners[t])} : Canceled(u)})
        /\ joiners' = [joiners EXCEPT ![t] = Tail(@)]
        /\ UNCHANGED <<active, at>>
     \/ /\ JoinersLeft(t) = <<>>
        /\ active' = NoThread
        /\ at' = [at EXCEPT ![t] = "end"]
        /\ UNCHANGED <<events, deleted, joiners>>
  /\ UNCHANGED <<prog, ip, want, schedVars, mutexVars, queueVars, state, subthreads,
                 blockCounter, timedOut, failed>>

(***************************************************************************)
(* The DES thread.                                                         *)
(***************************************************************************)
Idle == active = NoThread /\ ~failed

\* startThread and initThread: the thread runs, whatever its state was.
Start(t) ==
  /\ active' = t
  /\ state' = [state EXCEPT ![t] = "ACTIVE"]
  /\ at' = [at EXCEPT ![t] = "guard"]
  /\ want' = [want EXCEPT ![t] = 1]
  /\ UNCHANGED <<deleted, blockCounter, failed>>

\* switchToThread: the thread returns from its block.  A thread that was
\* deleted or has ended has nothing to return to.
Switch(t) ==
  /\ IF t \in deleted \/ at[t] = "end"
     THEN failed' = TRUE /\ UNCHANGED <<active, blockCounter>>
     ELSE /\ active' = t
          /\ blockCounter' = [blockCounter EXCEPT ![t] = @ + 1]
          /\ UNCHANGED failed
  /\ UNCHANGED <<at, want, state, deleted>>

\* unblock, on the DES thread.
UnblockNow(t) ==
  IF t \notin deleted /\ Canceled(t)
  THEN Delete({t}) /\ UNCHANGED <<active, at, want, state, blockCounter, failed>>
  ELSE Switch(t)

Expire_Mut(e) ==     \* wakes the thread from any block
  UnblockNow(e.thr) /\ timedOut' = [timedOut EXCEPT ![e.thr] = TRUE]

\* TimeoutEvent: nothing, if the thread was woken in the meantime.
Expire(e) ==
  IF e.thr \notin deleted /\ blockCounter[e.thr] # e.n
  THEN UNCHANGED <<active, at, want, state, deleted, blockCounter, timedOut, failed>>
  ELSE UnblockNow(e.thr) /\ timedOut' = [timedOut EXCEPT ![e.thr] = TRUE]

Handle(e) ==
  \/ e.kind = "start" /\ Start(e.thr) /\ UNCHANGED <<waiters, timedOut>>
  \/ e.kind = "switch" /\ Switch(e.thr) /\ UNCHANGED <<waiters, timedOut>>
  \/ e.kind = "unblock" /\ UnblockNow(e.thr) /\ UNCHANGED <<waiters, timedOut>>
  \/ e.kind = "timeout" /\ Expire(e) /\ UNCHANGED waiters
  \/ /\ e.kind = "delete"
     /\ Delete({e.thr})
     /\ UNCHANGED <<active, at, want, state, blockCounter, waiters, timedOut, failed>>
  \/ /\ e.kind = "mutex"                 \* UnblockEvent of the pthread library
     /\ IF waiters[e.n] = <<>>
        THEN /\ failed' = TRUE
             /\ UNCHANGED <<active, at, want, state, deleted, blockCounter, waiters>>
        ELSE /\ UnblockNow(Head(waiters[e.n]))
             /\ waiters' = [waiters EXCEPT ![e.n] = Tail(@)]
     /\ UNCHANGED timedOut

RunEvent ==
  /\ Idle
  /\ events # <<>>
  /\ events' = Later(Tail(events), Head(events).wait)
  /\ Handle(Head(events))
  /\ UNCHANGED <<prog, ip, schedVars, locked, conditionals, signalled, holds, queueVars,
                 subthreads, joiners>>

\* The application manager starts an application (StartAppRequest).
StartApp(a) ==
  /\ Idle
  /\ at[a] = "off"
  /\ prog[a] # <<>>
  /\ Start(a)
  /\ UNCHANGED <<prog, events, ip, schedVars, mutexVars, queueVars, subthreads, joiners, timedOut>>

\* An item comes in from the network, at any time (external).
Incoming ==
  /\ Idle
  /\ arrivals > 0
  /\ arrivals' = arrivals - 1
  /\ items' = items + 1
  /\ IF pendingQ = <<>>
     THEN UNCHANGED <<active, at, want, state, deleted, blockCounter, failed>>
     ELSE UnblockNow(Head(pendingQ))
  /\ UNCHANGED <<prog, events, ip, schedVars, mutexVars, pendingQ, subthreads, joiners, timedOut>>

ThreadStep(t) ==
  \/ ReserveCores(t)
  \/ Create(t)
  \/ Join(t)
  \/ Compute(t)
  \/ Sleep(t)
  \/ Execute(t)
  \/ ExecuteRun(t)
  \/ ExecuteDone(t)
  \/ AfterBlock(t)
  \/ Lock(t)
  \/ LockDone(t)
  \/ Trylock(t)
  \/ Unlock(t)
  \/ Wait(t)
  \/ WaitDone(t)
  \/ Signal(t)
  \/ QueueFront(t)
  \/ QueueFrontDone(t)
  \/ Post(t)
  \/ Exit(t)
  \/ Cleanup(t)
  \/ Complete(t)

Next ==
  \/ \E t \in Thread : ThreadStep(t)
  \/ \E a \in App : StartApp(a)
  \/ RunEvent
  \/ Incoming

Spec == Init /\ [][Next]_vars

\* The simulator runs on as long as there is anything to do.
Fairness == WF_vars(Next)

FairSpec == Spec /\ Fairness

----------------------------------------------------------------------------
(***************************************************************************)
(* Programs without conditions and progress queues: they create each       *)
(* subthread once, and join threads that exist.                            *)
(***************************************************************************)
Creates(p, t, i, u) == i \in DOMAIN p[t] /\ p[t][i].op = "create" /\ p[t][i].thr = u
Joins(p, t, i, u) == i \in DOMAIN p[t] /\ p[t][i].op = "join" /\ p[t][i].thr = u

Simple(p) ==
  /\ \A t \in Thread : \A i \in DOMAIN p[t] :
       /\ p[t][i].op \notin {"wait", "timedwait", "front"}
       /\ p[t][i].op = "create" => p[t][i].thr \in Thread \ App
       /\ p[t][i].op = "join" => p[t][i].thr \in Thread
  /\ \A t1, t2, u \in Thread : \A i \in DOMAIN p[t1], j \in DOMAIN p[t2] :
       Creates(p, t1, i, u) /\ Creates(p, t2, j, u) => t1 = t2 /\ i = j

\* ... by one call each, and neither applications nor detached threads.
JoinedOnce(p) ==
  /\ \A t \in Thread : \A i \in DOMAIN p[t] :
       p[t][i].op = "join" => p[t][i].thr \notin App \cup Detached
  /\ \A t1, t2, u \in Thread : \A i \in DOMAIN p[t1], j \in DOMAIN p[t2] :
       Joins(p, t1, i, u) /\ Joins(p, t2, j, u) => t1 = t2 /\ i = j

\* ... that never take more than one core in addition to their own,
OneMore(p) == \A t \in Thread : \A i \in DOMAIN p[t] : p[t][i].op = "execute" => p[t][i].n <= 2

\* ... and whose threads only unlock what they have locked.
Locked(p, t, i, m) ==
  \E j \in 1 .. (i - 1) :
    /\ p[t][j].op = "lock" /\ p[t][j].mut = m
    /\ \A k \in (j + 1) .. (i - 1) : ~(p[t][k].op = "unlock" /\ p[t][k].mut = m)

Disciplined(p) ==
  \A t \in Thread : \A i \in DOMAIN p[t] :
    /\ p[t][i].op # "trylock"
    /\ p[t][i].op = "unlock" => Locked(p, t, i, p[t][i].mut)

----------------------------------------------------------------------------
(***************************************************************************)
(* At most one thread was told it has a mutex: a mutex that is handed over *)
(* by unlock stays locked until the thread it is for has run.              *)
(***************************************************************************)
MutualExclusion ==
  \A m \in Mutex : Cardinality({t \in Thread : m \in holds[t]}) <= 1

\* The cores that threads with c[t] cores each have, one by one.
CoresOf(c) == {x \in Thread \X (1 .. NCores) : x[2] <= c[x[1]]}

(***************************************************************************)
(* ncore_active_ counts the cores the threads have, through every reserve, *)
(* release and retry of the scheduler, and never more than the node has.   *)
(***************************************************************************)
CoresConserved ==
  /\ \A t \in Thread : cores[t] \in 0 .. NCores
  /\ ncoreActive = Cardinality(CoresOf(cores))
  /\ ncoreActive <= NCores

(***************************************************************************)
(* A blocked thread has exactly one reason to run again: one event, or one *)
(* place in one list.  Two would wake it out of some later block, none     *)
(* would leave it asleep.  Timed waits have their timeout besides.         *)
(***************************************************************************)
Wakers(t) ==
  Cardinality({k \in DOMAIN events : events[k].thr = t /\ events[k].kind \in {"switch", "start", "unblock"}})
  + Cardinality({k \in DOMAIN pending : pending[k].thr = t})
  + Cardinality({x \in Mutex \X (1 .. Cardinality(Thread)) :
                   \/ x[2] \in DOMAIN waiters[x[1]] /\ waiters[x[1]][x[2]] = t
                   \/ x[2] \in DOMAIN conditionals[x[1]] /\ conditionals[x[1]][x[2]] = t})
  + Cardinality({u \in Thread : t \in ToSet(joiners[u])})

Asleep(t) == active # t /\ at[t] \notin {"off", "end", "front"} /\ t \notin deleted

OneWaker == \A t \in Thread : Asleep(t) => Wakers(t) = 1

\* A canceled thread was woken: unblock deleted it, and the cores it was
\* woken for are offered to no other thread.
Swallowed == \E t \in deleted : Canceled(t)

(***************************************************************************)
(* No core is idle while a thread that would fit waits for one, unless a   *)
(* thread that was woken to take it is on its way, or was canceled.        *)
(* (releaseCores wakes one thread for all the cores it frees: this is for  *)
(* programs that free one core at a time.)                                 *)
(***************************************************************************)
WorkConserving ==
  (\E k \in DOMAIN pending : pending[k].n <= Free) =>
    \/ active # NoThread
    \/ \E k \in DOMAIN events :
         events[k].kind \in {"switch", "unblock"} /\ at[events[k].thr] \in {"guard", "execute", "sleep", "join"}
    \/ Swallowed

\* The timeout of a thread that was signalled in time, has ended and is deleted
\* by now: TimeoutEvent reads its block counter all the same.
LateTimeout ==
  events # <<>> /\ Head(events).kind = "timeout" /\ Head(events).thr \in deleted

(***************************************************************************)
(* No event reaches a thread that was deleted or has ended, no thread is   *)
(* deleted by two joins, and no queue or condition is found empty by the   *)
(* thread that was woken for it.  The one exception is the timeout of a    *)
(* timed wait that was signalled early, if its thread is gone by then.     *)
(***************************************************************************)
NoFailure == [][failed' => failed \/ LateTimeout]_vars

(***************************************************************************)
(* A timed wait that reports a timeout was not signalled: "the cond signal *)
(* never fired, remove myself from the list"                               *)
(* (pthread_cond_timedwait).                                               *)
(***************************************************************************)
TimedOutNotSignalled ==
  \A t \in Thread : (at[t] = "wait" /\ timedOut[t]) => t \in ToSet(conditionals[Calling(t).mut])

(***************************************************************************)
(* Every application ends, unless its node is starved of cores: a thread   *)
(* that waits for a mutex, or for more cores, keeps those it has, a thread *)
(* that is canceled never gives them back, or is woken in the place of one *)
(* that waits; or a join threw.                                            *)
(***************************************************************************)
Starved ==
  /\ pending # <<>>
  /\ \A k \in DOMAIN pending : pending[k].n > Free
  /\ \A t \in Thread : cores[t] > 0 =>
       \/ at[t] = "lock"
       \/ \E k \in DOMAIN pending : pending[k].thr = t
       \/ Canceled(t)

Stranded == pending # <<>> /\ Swallowed

\* A join of a thread that was joined before threw.
Threw == \E t \in Thread : at[t] = "threw"

Termination ==
  \A a \in App : prog[a] # <<>> => <>[](state[a] = "DONE" \/ Starved \/ Stranded \/ Threw)
============================================================================
