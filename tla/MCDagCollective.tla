-------------------------- MODULE MCDagCollective --------------------------
(***************************************************************************)
(* Instances of DagCollective for model checking: jobs of one or two       *)
(* collectives on N ranks, with the DAGs the code builds for them.         *)
(***************************************************************************)
EXTENDS DagCollective, CollectiveDag

CONSTANT N

MCRank == 0 .. (N - 1)

CallTo(type, root, nelems) ==
  [type |-> type, root |-> root, nelems |-> nelems]

\* A call with what the actors of all ranks build for it.
Prepared(call) ==
  [type |-> call.type, root |-> call.root, nelems |-> call.nelems,
   dag |-> [r \in MCRank |-> DagOf(call, N, r)],
   buffer |-> [r \in MCRank |-> BufferOf(call, N, r)],
   shift |-> [r \in MCRank |-> ShiftOf(call, N, r)]]

Barrier == CallTo("barrier", 0, 0)
Allgather(k) == CallTo("allgather", 0, k)
Allreduce(k) == CallTo("allreduce", 0, k)
Bcasts(k) == {CallTo("bcast", root, k) : root \in MCRank}
Reduces(k, roots) == {CallTo("reduce", root, k) : root \in roots}
Gathers(k) == {CallTo("gather", root, k) : root \in MCRank}

\* Every collective, alone, with every root.
AllCalls ==
  {Allgather(2), Allreduce(3)} \cup Bcasts(2) \cup Gathers(2)
    \cup Reduces(3, {0})

\* Collectives that may run side by side.
ShortCalls == {Barrier, Allgather(1), CallTo("bcast", 1, 1)}

LastRootReduce == Reduces(2, {N - 1})

JobsOf(plans) == {[t \in DOMAIN plan |-> Prepared(plan[t])] : plan \in plans}

DataAndBarrierJobs ==
  JobsOf({<<call>> : call \in AllCalls} \cup {<<Barrier, Barrier>>})

\* Two collectives, the shorter ones in both orders.
PairJobs ==
  JobsOf({<<first, second>> : first, second \in ShortCalls}
           \cup {<<Allreduce(2), Barrier>>})

ReduceJobs == JobsOf({<<call>> : call \in LastRootReduce})

MCCall ==
  {Prepared(call) :
     call \in AllCalls \cup LastRootReduce \cup ShortCalls
              \cup {Allreduce(2)}}

(***************************************************************************)
(* The results and the synchronisation of the calls                        *)
(***************************************************************************)

\* When a rank is told that a collective is over, its result buffer holds what
\* the call promises: every contribution, once, in its place.
ResultCorrect ==
  \A a \in complete :
    HasResult(CallOf(a), a[2]) => result[a] = ExpectedOf(CallOf(a), N, a[2])

Sync == INSTANCE CollectiveSync WITH
  needed <- [t \in 1 .. Len(job) |->
               [r \in Rank |-> NeededBy(job[t], N, r)]],
  entered <- [t \in 1 .. Len(job) |-> {r \in Rank : calls[r] >= t}],
  left <- [t \in 1 .. Len(job) |-> {r \in Rank : <<t, r>> \in complete}]

\* No rank leaves a barrier, or any collective, before the ranks it depends on
\* have entered it: the engine implements CollectiveSync.
ImplementsSync == Sync!SyncSpec
=============================================================================
