------------------------- MODULE MCOperatingSystem -------------------------
(***************************************************************************)
(* Programs for model checking OperatingSystem: an application a with two  *)
(* subthreads and another application b on the same node.                  *)
(***************************************************************************)
EXTENDS OperatingSystem

CONSTANTS a, b, s1, s2, mtx

MCThread == {a, b, s1, s2}
MCParent == (a :> a) @@ (b :> b) @@ (s1 :> a) @@ (s2 :> a)

Op(op, t, n) == [op |-> op, thr |-> t, mut |-> mtx, n |-> n]
Do(op) == Op(op, NoThread, 0)
Create_(t) == Op("create", t, 0)
Join_(t) == Op("join", t, 0)
OnCores(n) == Op("execute", NoThread, n)

Job(pa, pb, p1, p2) == (a :> pa) @@ (b :> pb) @@ (s1 :> p1) @@ (s2 :> p2)

Blocking == {"compute", "sleep"}

\* Three threads compete for the mutex, and with b for the two cores.
Mutexes ==
  { Job(<<Create_(s1), Create_(s2), Do("lock"), Do(x), Do("unlock"), Join_(s1)>>, <<Do(w)>>,
        <<Do("lock"), Do(y), Do("unlock")>>, <<Do(z), Do("lock"), Do("unlock")>>) :
    w, x, y, z \in Blocking }

\* Waits on the condition: signalled while nobody has the mutex, signalled
\* before the timeout, never signalled, and with a thread behind the mutex.
Conditions ==
  { Job(<<Create_(s1), Do("sleep"), Do("trylock"), Do("unlock"), Do("signal"), Join_(s1)>>, <<>>,
        <<Do("lock"), Do("wait"), Do("unlock")>>, <<>>),
    Job(<<Create_(s1), Create_(s2), Join_(s1)>>, <<Do("compute")>>,
        <<Do("lock"), Do("compute"), Do("unlock")>>, <<Do("compute"), Do("trylock"), Do("compute")>>),
    Job(<<Create_(s1), Do("signal"), Join_(s1)>>, <<>>,
        <<Do("lock"), Do("timedwait"), Do("unlock"), Do("compute")>>, <<>>),
    Job(<<Create_(s1), Create_(s2), Join_(s1)>>, <<>>,
        <<Do("lock"), Do("compute"), Do("timedwait"), Do("unlock")>>, <<Do("lock"), Do("unlock")>>) }

\* Joins: of a thread whose timed wait may be signalled early, and the same
\* thread a second time.
Joined ==
  { Job(<<Create_(s1), Do("sleep"), Do("signal"), Join_(s1)>>, <<>>,
        <<Do("lock"), Do("timedwait"), Do("unlock")>>, <<>>),
    Job(<<Create_(s1), Do("compute"), Join_(s1), Join_(s1)>>, <<Do("sleep")>>, <<Do("compute")>>, <<>>) }

\* A signal that may come in time for a timed wait.
TimedWaits ==
  { Job(<<Create_(s1), Do("sleep"), Do("signal"), Do("compute")>>, <<>>,
        <<Do("lock"), Do("timedwait"), Do("unlock")>>, <<>>) }

\* Threads that need both cores at a time, next to b and a detached thread.
Cores ==
  { Job(<<Create_(s2), OnCores(2), Do(x), OnCores(1)>>, <<Do(y), OnCores(2)>>,
        <<>>, <<Do(z)>>) : x, y, z \in Blocking }

\* An application that ends while its subthreads wait for cores with b.
Cancellations ==
  { Job(<<Create_(s1), Create_(s2), Do(x)>>, <<Do(y), OnCores(2)>>, <<>>, <<>>) : x, y \in Blocking }

\* Items for two threads, from the network and from another thread.
Queues ==
  { Job(<<Create_(s1), Do("front"), Do(x), Join_(s1)>>, <<Do(y)>>, <<Do("front"), Do("compute")>>, <<>>) :
    x, y \in Blocking } \cup
  { Job(<<Create_(s1), Do(x), Do("post"), Join_(s1)>>, <<>>, <<Do("front"), Do(x)>>, <<>>) :
    x \in Blocking }

MCPrograms == Mutexes \cup Conditions \cup Joined \cup TimedWaits \cup Cores \cup Cancellations \cup Queues

\* What is proved of programs is about these too.
ASSUME ProgramAssumption ==
  \A p \in Mutexes \cup Cores \cup Cancellations : Simple(p) /\ JoinedOnce(p) /\ Disciplined(p) /\ OneMore(p)
============================================================================
