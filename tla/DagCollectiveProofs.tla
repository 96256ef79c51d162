------------------------ MODULE DagCollectiveProofs ------------------------
(***************************************************************************)
(* Proofs about DagCollective, for every communicator, every job and every *)
(* family of DAGs that satisfies DagAssumption: the engine reports a       *)
(* collective as over only when every action of the DAG was done, and      *)
(* starts an action only when everything it waits for was done.            *)
(***************************************************************************)
EXTENDS DagCollective, FiniteSetTheorems, TLAPS

AllIds == UNION {Ids(p[1].dag[p[2]]) : p \in Call \X Rank}

Called(a) == a[1] <= calls[a[2]]

\* The frames on the stack of a rank belong to collectives it has called, and
\* the successors of an action are gone through when it is over.
FrameOK(f, r, actors, over) ==
  /\ f.actor \in actors /\ f.actor[2] = r
  /\ f.op = "deps" => f.id \in over[f.actor]

Stacked(s, r, actors, over) ==
  \E S : s \in Seq(S) /\ \A f \in S : FrameOK(f, r, actors, over)

CalledActors == {a \in Actor : Called(a)}

StateInv ==
  /\ job \in Jobs
  /\ calls \in [Rank -> Nat]
  /\ initial \in [Actor -> SUBSET AllIds]
  /\ active \in [Actor -> SUBSET AllIds]
  /\ completed \in [Actor -> SUBSET AllIds]
  /\ pending \in [Actor -> SUBSET (AllIds \X AllIds)]
  /\ registered \subseteq Actor /\ \A a \in registered : Called(a)
  /\ complete \subseteq Actor /\ \A a \in complete : Called(a)

StackInv ==
  /\ stack = [r \in Rank |-> stack[r]]
  /\ \A r \in Rank : Stacked(stack[r], r, CalledActors, completed)

\* Before the call nothing is in the sets of an actor.
FreshInv ==
  \A a \in Actor :
    ~Called(a) => /\ initial[a] = {} /\ pending[a] = {}
                  /\ active[a] = {} /\ completed[a] = {}

Waiting(a) == {p[2] : p \in pending[a]}

\* Every action of a collective is somewhere.
AccountInv ==
  \A a \in Actor :
    Called(a) =>
      Ids(Actions(a)) = initial[a] \cup Waiting(a) \cup active[a]
                          \cup completed[a]

\* A precursor of an action is over, or filed as one it waits for.
WaitInv ==
  \A a \in Actor :
    Called(a) =>
      /\ IsFiniteSet(pending[a])
      /\ \A ac \in Actions(a) :
           /\ ac.id \in initial[a] => ac.pre = {}
           /\ \A q \in ac.pre : <<q, ac.id>> \in pending[a]
                                \/ q \in completed[a]

\* A collective that is over has nothing left to do.
DoneInv ==
  \A a \in complete : initial[a] = {} /\ pending[a] = {} /\ active[a] = {}

\* All but the stacks: the part that is about the sets of actions.
DagInv == StateInv /\ FreshInv /\ AccountInv /\ WaitInv /\ DoneInv

IInv == DagInv /\ StackInv

(***************************************************************************)
(* Jobs, actors and actions                                                *)
(***************************************************************************)

\* An actor has a call of the job and a rank.
LEMMA ActorParts ==
  ASSUME job \in Jobs, NEW a \in Actor
  PROVE  /\ a = <<a[1], a[2]>>
         /\ a[1] \in 1 .. Len(job) /\ a[2] \in Rank
         /\ a[1] \in Nat
         /\ Len(job) \in Nat
         /\ CallOf(a) \in Call
         /\ Ids(Actions(a)) \subseteq AllIds
<1>1. job \in Seq(Call)
  BY JobAssumption
<1>2. /\ a = <<a[1], a[2]>> /\ a[1] \in 1 .. Len(job) /\ a[2] \in Rank
  BY DEF Actor
<1>3. Len(job) \in Nat /\ job[a[1]] \in Call
  BY <1>1, <1>2
<1>4. <<job[a[1]], a[2]>> \in Call \X Rank
  BY <1>2, <1>3
<1>5. Ids(job[a[1]].dag[a[2]]) \subseteq AllIds
  BY <1>4 DEF AllIds
<1> QED
  BY <1>2, <1>3, <1>5 DEF CallOf, Actions

\* The action with a given id is an action of the actor, the only one.
LEMMA ActionOfId ==
  ASSUME job \in Jobs, NEW a \in Actor, NEW id \in Ids(Actions(a))
  PROVE  ActionOf(a, id) \in Actions(a) /\ ActionOf(a, id).id = id
<1>1. PICK ac \in Actions(a) : ac.id = id
  BY DEF Ids
<1> QED
  BY <1>1 DEF ActionOf

\* Actions with one id are one action.
LEMMA IdsUnique ==
  ASSUME job \in Jobs, NEW a \in Actor,
         NEW ac \in Actions(a), NEW other \in Actions(a), ac.id = other.id
  PROVE  ac = other
<1>1. CallOf(a) \in Call /\ a[2] \in Rank
  BY ActorParts
<1> QED
  BY <1>1, DagAssumption DEF Actions

(***************************************************************************)
(* Stacks                                                                  *)
(***************************************************************************)

\* The top of a stack, and what is below it.
LEMMA StackedTop ==
  ASSUME NEW s, NEW r, NEW actors, NEW over, Stacked(s, r, actors, over),
         s # <<>>
  PROVE  FrameOK(Head(s), r, actors, over) /\ Stacked(Tail(s), r, actors, over)
<1>1. PICK S : s \in Seq(S) /\ \A f \in S : FrameOK(f, r, actors, over)
  BY DEF Stacked
<1>2. Head(s) \in S /\ Tail(s) \in Seq(S)
  BY <1>1
<1> QED
  BY <1>1, <1>2 DEF Stacked

\* A good frame on top of a good stack makes a good stack.
LEMMA StackedPush ==
  ASSUME NEW s, NEW r, NEW actors, NEW over, NEW f,
         Stacked(s, r, actors, over), FrameOK(f, r, actors, over)
  PROVE  Stacked(<<f>> \o s, r, actors, over)
<1>1. PICK S : s \in Seq(S) /\ \A g \in S : FrameOK(g, r, actors, over)
  BY DEF Stacked
<1>2. <<f>> \o s \in Seq(S \cup {f})
  <2>1. s \in Seq(S \cup {f})
    BY <1>1
  <2>2. <<f>> \in Seq(S \cup {f})
    OBVIOUS
  <2> QED
    BY <2>1, <2>2
<1>3. \A g \in S \cup {f} : FrameOK(g, r, actors, over)
  BY <1>1
<1> QED
  BY <1>2, <1>3 DEF Stacked

\* The empty stack is good.
LEMMA StackedEmpty ==
  ASSUME NEW r, NEW actors, NEW over
  PROVE  Stacked(<<>>, r, actors, over)
<1>1. PICK S : S = {}
  OBVIOUS
<1>2. <<>> \in Seq(S) /\ \A f \in S : FrameOK(f, r, actors, over)
  BY <1>1
<1> QED
  BY <1>2 DEF Stacked

\* A good stack stays good while actors and what is over only grow.
LEMMA StackedStays ==
  ASSUME NEW s, NEW r, NEW actors, NEW over, NEW actors2, NEW over2,
         Stacked(s, r, actors, over),
         actors \subseteq actors2,
         \A a \in actors : over[a] \subseteq over2[a]
  PROVE  Stacked(s, r, actors2, over2)
<1>1. PICK S : s \in Seq(S) /\ \A f \in S : FrameOK(f, r, actors, over)
  BY DEF Stacked
<1>2. \A f \in S : FrameOK(f, r, actors2, over2)
  BY <1>1 DEF FrameOK
<1> QED
  BY <1>1, <1>2 DEF Stacked

\* A step that replaces the stack of one rank by a good one.
LEMMA StackStep ==
  ASSUME StackInv, CalledActors \subseteq CalledActors',
         \A a \in CalledActors : completed[a] \subseteq completed'[a],
         NEW r \in Rank, NEW s, Stacked(s, r, CalledActors', completed'),
         stack' = [stack EXCEPT ![r] = s]
  PROVE  StackInv'
<1>1. stack' = [q \in Rank |-> stack'[q]]
  BY DEF StackInv
<1>2. ASSUME NEW q \in Rank
      PROVE  Stacked(stack'[q], q, CalledActors', completed')
  <2>1. CASE q = r
    BY <2>1 DEF StackInv
  <2>2. CASE q # r
    <3>1. stack'[q] = stack[q] /\ Stacked(stack[q], q, CalledActors, completed)
      BY <2>2 DEF StackInv
    <3> QED
      BY <3>1, StackedStays
  <2> QED
    BY <2>1, <2>2
<1> QED
  BY <1>1, <1>2 DEF StackInv

(***************************************************************************)
(* One actor moves on: actions leave initial and pending for active, and   *)
(* active for completed.                                                   *)
(***************************************************************************)
ActorMove(a, I, P, A, C) ==
  /\ a \notin complete
  /\ UNCHANGED <<job, calls>>
  /\ initial' = [initial EXCEPT ![a] = I]
  /\ pending' = [pending EXCEPT ![a] = P]
  /\ active' = [active EXCEPT ![a] = A]
  /\ completed' = [completed EXCEPT ![a] = C]
  /\ I \subseteq initial[a] /\ P \subseteq pending[a]
  /\ completed[a] \subseteq C
  /\ Ids(Actions(a)) = I \cup {p[2] : p \in P} \cup A \cup C
  /\ \A ac \in Actions(a) : \A q \in ac.pre :
       <<q, ac.id>> \in P \/ q \in C
  /\ registered' \subseteq registered
  /\ complete' \subseteq complete \cup {a}
  /\ a \in complete' => I = {} /\ P = {} /\ A = {}

\* Such a move keeps the invariant of the sets.
LEMMA ActorStep ==
  ASSUME DagInv, NEW a \in Actor, Called(a),
         NEW I, NEW P, NEW A, NEW C, ActorMove(a, I, P, A, C)
  PROVE  DagInv'
<1> USE DEF DagInv, ActorMove
<1>0. Actor' = Actor /\ \A b : Called(b)' = Called(b) /\ Actions(b)' = Actions(b)
  BY DEF Actor, Called, Actions, CallOf
<1>1. A \subseteq AllIds /\ C \subseteq AllIds
  BY ActorParts DEF StateInv
<1>2. StateInv'
  BY <1>0, <1>1 DEF StateInv
<1>3. FreshInv'
  BY <1>0 DEF FreshInv, StateInv
<1>4. AccountInv'
  <2> SUFFICES ASSUME NEW b \in Actor, Called(b)
               PROVE  Ids(Actions(b)) = initial'[b] \cup {p[2] : p \in pending'[b]}
                                          \cup active'[b] \cup completed'[b]
    BY <1>0 DEF AccountInv, Waiting
  <2>1. CASE b = a
    BY <2>1 DEF StateInv
  <2>2. CASE b # a
    BY <2>2 DEF StateInv, AccountInv, Waiting
  <2> QED
    BY <2>1, <2>2
<1>5. WaitInv'
  <2> SUFFICES ASSUME NEW b \in Actor, Called(b)
               PROVE  /\ IsFiniteSet(pending'[b])
                      /\ \A ac \in Actions(b) :
                           /\ ac.id \in initial'[b] => ac.pre = {}
                           /\ \A q \in ac.pre : <<q, ac.id>> \in pending'[b]
                                                \/ q \in completed'[b]
    BY <1>0 DEF WaitInv
  <2>1. CASE b = a
    <3>1. IsFiniteSet(pending'[b])
      BY <2>1, FS_Subset DEF StateInv, WaitInv
    <3> QED
      BY <2>1, <3>1 DEF StateInv, WaitInv
  <2>2. CASE b # a
    BY <2>2 DEF StateInv, WaitInv
  <2> QED
    BY <2>1, <2>2
<1>6. DoneInv'
  BY DEF DoneInv, StateInv
<1> QED
  BY <1>2, <1>3, <1>4, <1>5, <1>6
(***************************************************************************)
(* What startAction and clearAction do to the sets and to the stack        *)
(***************************************************************************)
Cleared(a, id) ==
  /\ active' = [active EXCEPT ![a] = active[a] \ {id}]
  /\ completed' = [completed EXCEPT ![a] = completed[a] \cup {id}]
  /\ registered' \subseteq registered
  /\ \/ complete' = complete
     \/ /\ complete' = complete \cup {a}
        /\ active'[a] = {} /\ pending'[a] = {} /\ initial'[a] = {}

Activated(a, id) ==
  /\ active' = [active EXCEPT ![a] = active[a] \cup {id}]
  /\ UNCHANGED <<completed, registered, complete>>

Pushed(a, id, frames) ==
  \E s :
    /\ stack' = [stack EXCEPT ![a[2]] = s]
    /\ \/ s = frames
       \/ \E msgs : s = <<RecvFrame(a, msgs)>> \o frames
       \/ s = <<DepsFrame(a, id)>> \o frames /\ id \in completed'[a]

\* clearAction moves an action to completed and, when nothing is left, sets
\* complete_.
LEMMA ClearEffect ==
  ASSUME StateInv, NEW a \in Actor, NEW id, NEW buffer, NEW frames,
         clearAction(a, id, buffer, frames)
  PROVE  Cleared(a, id) /\ Pushed(a, id, frames)
<1>1. Cleared(a, id)
  BY DEF clearAction, Finish, checkCollectiveDone, Cleared
<1>2. id \in completed'[a]
  BY DEF clearAction, StateInv
<1>3. PICK s : s = IF Successors(pending', a, id) = {} THEN frames
                   ELSE <<DepsFrame(a, id)>> \o frames
  OBVIOUS
<1>4. stack' = [stack EXCEPT ![a[2]] = s]
  BY <1>3 DEF clearAction, SetStack
<1>5. Pushed(a, id, frames)
  BY <1>2, <1>3, <1>4 DEF Pushed
<1> QED
  BY <1>1, <1>5

\* startAction activates a send or a receive and clears a join or a shuffle.
LEMMA StartEffect ==
  ASSUME StateInv, NEW a \in Actor, NEW id, NEW frames,
         ActionOf(a, id).id = id, startAction(a, id, frames)
  PROVE  (Cleared(a, id) \/ Activated(a, id)) /\ Pushed(a, id, frames)
<1> DEFINE ac == ActionOf(a, id)
<1>1. CASE startSend(a, ac, frames)
  <2>1. PICK s : s = PushRecv(a, HeadersOf(sendHeaders, a, ac), frames)
    OBVIOUS
  <2>2. stack' = [stack EXCEPT ![a[2]] = s]
    BY <1>1, <2>1 DEF startSend, SetStack
  <2>3. Pushed(a, id, frames)
    BY <2>1, <2>2 DEF PushRecv, Pushed
  <2>4. Activated(a, id)
    BY <1>1 DEF startSend, Activated
  <2> QED
    BY <2>3, <2>4
<1>2. CASE startRecv(a, ac, frames)
  <2>1. PICK s : s = PushRecv(a, HeadersOf(recvHeaders, a, ac), frames)
    OBVIOUS
  <2>2. stack' = [stack EXCEPT ![a[2]] = s]
    BY <1>2, <2>1 DEF startRecv, SetStack
  <2>3. Pushed(a, id, frames)
    BY <2>1, <2>2 DEF PushRecv, Pushed
  <2>4. Activated(a, id)
    BY <1>2 DEF startRecv, Activated
  <2> QED
    BY <2>3, <2>4
<1>3. CASE startShuffle(a, ac, frames)
  <2>1. PICK buffer : clearAction(a, id, buffer, frames)
    BY <1>3 DEF startShuffle
  <2> QED
    BY <2>1, ClearEffect
<1>4. CASE startJoin(a, ac, frames)
  <2>1. PICK buffer : clearAction(a, id, buffer, frames)
    BY <1>4 DEF startJoin
  <2> QED
    BY <2>1, ClearEffect
<1> QED
  BY <1>1, <1>2, <1>3, <1>4 DEF startAction

\* What is pushed are good frames.
LEMMA PushedStack ==
  ASSUME StackInv, NEW a \in Actor, NEW id, NEW frames,
         a \in CalledActors, a[2] \in Rank, Pushed(a, id, frames),
         CalledActors \subseteq CalledActors',
         \A b \in CalledActors : completed[b] \subseteq completed'[b],
         Stacked(frames, a[2], CalledActors, completed)
  PROVE  StackInv'
<1>1. PICK s :
        /\ stack' = [stack EXCEPT ![a[2]] = s]
        /\ \/ s = frames
           \/ \E msgs : s = <<RecvFrame(a, msgs)>> \o frames
           \/ s = <<DepsFrame(a, id)>> \o frames /\ id \in completed'[a]
  BY DEF Pushed
<1>2. Stacked(frames, a[2], CalledActors', completed')
  BY StackedStays
<1>3. Stacked(s, a[2], CalledActors', completed')
  <2>1. CASE s = frames
    BY <1>2, <2>1
  <2>2. ASSUME NEW msgs, s = <<RecvFrame(a, msgs)>> \o frames
        PROVE  Stacked(s, a[2], CalledActors', completed')
    <3>1. FrameOK(RecvFrame(a, msgs), a[2], CalledActors', completed')
      BY DEF FrameOK, RecvFrame, Frame
    <3> QED
      BY <1>2, <2>2, <3>1, StackedPush
  <2>3. CASE s = <<DepsFrame(a, id)>> \o frames /\ id \in completed'[a]
    <3>1. FrameOK(DepsFrame(a, id), a[2], CalledActors', completed')
      BY <2>3 DEF FrameOK, DepsFrame, Frame
    <3> QED
      BY <1>2, <2>3, <3>1, StackedPush
  <2> QED
    BY <1>1, <2>1, <2>2, <2>3
<1> QED
  BY <1>1, <1>3, StackStep
\* An action that leaves initial or pending and is started keeps IInv.
LEMMA StartStep ==
  ASSUME IInv, NEW a \in CalledActors, NEW id \in Ids(Actions(a)), NEW frames,
         a \notin complete, job' = job, calls' = calls,
         NEW I, NEW P,
         initial' = [initial EXCEPT ![a] = I],
         pending' = [pending EXCEPT ![a] = P],
         I \subseteq initial[a], P \subseteq pending[a],
         Ids(Actions(a)) = I \cup {p[2] : p \in P} \cup active[a]
                             \cup completed[a] \cup {id},
         \A ac \in Actions(a) : \A q \in ac.pre :
            <<q, ac.id>> \in P \/ q \in completed[a],
         Stacked(frames, a[2], CalledActors, completed),
         startAction(a, id, frames)
  PROVE  IInv'
<1>0. /\ a \in Actor /\ Called(a) /\ job \in Jobs /\ StateInv /\ DagInv
      /\ StackInv
  BY DEF IInv, DagInv, StateInv, CalledActors
<1>1. a[2] \in Rank
  BY <1>0, ActorParts
<1>2. ActionOf(a, id).id = id
  BY <1>0, ActionOfId
<1>3. (Cleared(a, id) \/ Activated(a, id)) /\ Pushed(a, id, frames)
  BY <1>0, <1>2, StartEffect
<1>4. /\ CalledActors' = CalledActors
      /\ \A b \in CalledActors : completed[b] \subseteq completed'[b]
  <2>1. CalledActors' = CalledActors
    BY DEF CalledActors, Called, Actor
  <2> QED
    BY <1>0, <1>3, <2>1 DEF Cleared, Activated, CalledActors, StateInv
<1>5. StackInv'
  BY <1>0, <1>1, <1>3, <1>4, PushedStack
<1>6. CASE Activated(a, id)
  <2>1. PICK A : A = active[a] \cup {id}
    OBVIOUS
  <2>2. active' = [active EXCEPT ![a] = A]
    BY <1>6, <2>1 DEF Activated
  <2>3. completed' = [completed EXCEPT ![a] = completed[a]]
    BY <1>0, <1>6 DEF Activated, StateInv
  <2>4. Ids(Actions(a)) = I \cup {p[2] : p \in P} \cup A \cup completed[a]
    BY <2>1
  <2>5. DagInv'
    <3>1. /\ registered' \subseteq registered
          /\ complete' \subseteq complete \cup {a} /\ a \notin complete'
      BY <1>6 DEF Activated
    <3>2. completed[a] \subseteq completed[a]
      OBVIOUS
    <3>3. ActorMove(a, I, P, A, completed[a])
      BY <2>2, <2>3, <2>4, <3>1, <3>2 DEF ActorMove
    <3> QED
      BY <1>0, <3>3, ActorStep
  <2> QED
    BY <1>5, <2>5 DEF IInv
<1>7. CASE Cleared(a, id)
  <2>1. PICK A : A = active[a] \ {id}
    OBVIOUS
  <2>2. PICK C : C = completed[a] \cup {id}
    OBVIOUS
  <2>3. /\ active' = [active EXCEPT ![a] = A]
        /\ completed' = [completed EXCEPT ![a] = C]
    BY <1>7, <2>1, <2>2 DEF Cleared
  <2>4. Ids(Actions(a)) = I \cup {p[2] : p \in P} \cup A \cup C
    BY <2>1, <2>2
  <2>5. /\ complete' \subseteq complete \cup {a}
        /\ a \in complete' => I = {} /\ P = {} /\ A = {}
    BY <1>0, <1>7, <2>3 DEF Cleared, StateInv
  <2>6. \A ac \in Actions(a) : \A q \in ac.pre :
           <<q, ac.id>> \in P \/ q \in C
    BY <2>2
  <2>7. DagInv'
    <3>1. registered' \subseteq registered
      BY <1>7 DEF Cleared
    <3>2. completed[a] \subseteq C
      BY <2>2
    <3>3. ActorMove(a, I, P, A, C)
      BY <2>3, <2>4, <2>5, <2>6, <3>1, <3>2 DEF ActorMove
    <3> QED
      BY <1>0, <3>3, ActorStep
  <2> QED
    BY <1>5, <2>7 DEF IInv
<1> QED
  BY <1>3, <1>6, <1>7

\* An active action that is over keeps IInv.
LEMMA ClearStep ==
  ASSUME IInv, NEW a \in CalledActors, NEW id \in active[a], NEW frames,
         NEW buffer, job' = job, calls' = calls,
         UNCHANGED <<initial, pending>>,
         Stacked(frames, a[2], CalledActors, completed),
         clearAction(a, id, buffer, frames)
  PROVE  IInv'
<1>0. /\ a \in Actor /\ Called(a) /\ job \in Jobs /\ StateInv /\ DagInv
      /\ StackInv
  BY DEF IInv, DagInv, StateInv, CalledActors
<1>1. a[2] \in Rank
  BY <1>0, ActorParts
<1>2. Cleared(a, id) /\ Pushed(a, id, frames)
  BY <1>0, ClearEffect
<1>3. a \notin complete
  BY <1>0 DEF DagInv, DoneInv
<1>4. /\ CalledActors' = CalledActors
      /\ \A b \in CalledActors : completed[b] \subseteq completed'[b]
  <2>1. CalledActors' = CalledActors
    BY DEF CalledActors, Called, Actor
  <2> QED
    BY <1>0, <1>2, <2>1 DEF Cleared, CalledActors, StateInv
<1>5. StackInv'
  BY <1>0, <1>1, <1>2, <1>4, PushedStack
<1>6. PICK A : A = active[a] \ {id}
  OBVIOUS
<1>7. PICK C : C = completed[a] \cup {id}
  OBVIOUS
<1>8. /\ active' = [active EXCEPT ![a] = A]
      /\ completed' = [completed EXCEPT ![a] = C]
      /\ initial' = [initial EXCEPT ![a] = initial[a]]
      /\ pending' = [pending EXCEPT ![a] = pending[a]]
  BY <1>0, <1>2, <1>6, <1>7 DEF Cleared, StateInv
<1>9. Ids(Actions(a)) = initial[a] \cup {p[2] : p \in pending[a]} \cup A \cup C
  BY <1>0, <1>6, <1>7 DEF DagInv, AccountInv, Waiting
<1>10. /\ complete' \subseteq complete \cup {a}
       /\ a \in complete' => initial[a] = {} /\ pending[a] = {} /\ A = {}
  BY <1>0, <1>2, <1>3, <1>8 DEF Cleared, StateInv
<1>11. \A ac \in Actions(a) : \A q \in ac.pre :
          <<q, ac.id>> \in pending[a] \/ q \in C
  BY <1>0, <1>7 DEF DagInv, WaitInv
<1>12. DagInv'
  <2>1. registered' \subseteq registered
    BY <1>2 DEF Cleared
  <2>2. /\ completed[a] \subseteq C
        /\ initial[a] \subseteq initial[a] /\ pending[a] \subseteq pending[a]
    BY <1>7
  <2>3. ActorMove(a, initial[a], pending[a], A, C)
    BY <1>3, <1>8, <1>9, <1>10, <1>11, <2>1, <2>2 DEF ActorMove
  <2> QED
    BY <1>0, <2>3, ActorStep
<1> QED
  BY <1>5, <1>12 DEF IInv
(***************************************************************************)
(* The steps of the specification                                          *)
(***************************************************************************)

\* The handler a rank is in.
LEMMA TopFrame ==
  ASSUME IInv, NEW r \in Rank, ~Idle(r)
  PROVE  /\ Top(r).actor \in CalledActors /\ Top(r).actor \in Actor
         /\ Called(Top(r).actor) /\ Top(r).actor[2] = r
         /\ Top(r).op = "deps" => Top(r).id \in completed[Top(r).actor]
         /\ Stacked(stack[r], r, CalledActors, completed)
         /\ Stacked(Tail(stack[r]), r, CalledActors, completed)
<1>1. Stacked(stack[r], r, CalledActors, completed) /\ stack[r] # <<>>
  BY DEF IInv, StackInv, Idle
<1>2. /\ FrameOK(Head(stack[r]), r, CalledActors, completed)
      /\ Stacked(Tail(stack[r]), r, CalledActors, completed)
  BY <1>1, StackedTop
<1> QED
  BY <1>1, <1>2 DEF FrameOK, Top, CalledActors

\* A step that leaves the sets alone keeps their invariant.
LEMMA QuietStep ==
  ASSUME DagInv, UNCHANGED <<job, calls, registered, dagVars, complete>>
  PROVE  DagInv' /\ CalledActors' = CalledActors
<1>1. Actor' = Actor /\ \A b : Called(b)' = Called(b) /\ Actions(b)' = Actions(b)
  BY DEF Actor, Called, Actions, CallOf
<1>2. StateInv' /\ FreshInv' /\ DoneInv'
  BY <1>1 DEF DagInv, StateInv, FreshInv, DoneInv, dagVars
<1>3. AccountInv'
  BY <1>1 DEF DagInv, AccountInv, Waiting, dagVars
<1>4. WaitInv'
  BY <1>1 DEF DagInv, WaitInv, dagVars
<1> QED
  BY <1>1, <1>2, <1>3, <1>4 DEF DagInv, CalledActors

\* Such a step that replaces one stack by a good one keeps IInv.
LEMMA QuietStack ==
  ASSUME IInv, UNCHANGED <<job, calls, registered, dagVars, complete>>,
         NEW r \in Rank, NEW s, Stacked(s, r, CalledActors, completed),
         stack' = [stack EXCEPT ![r] = s]
  PROVE  IInv'
<1>1. DagInv' /\ CalledActors' = CalledActors /\ completed' = completed
  BY QuietStep DEF IInv, dagVars
<1>2. StackInv'
  BY <1>1, StackStep DEF IInv
<1> QED
  BY <1>1, <1>2 DEF IInv

\* ... or that leaves the stacks alone too.
LEMMA QuietAll ==
  ASSUME IInv, UNCHANGED <<job, calls, registered, dagVars, complete, stack>>
  PROVE  IInv'
<1>1. DagInv' /\ CalledActors' = CalledActors /\ completed' = completed
  BY QuietStep DEF IInv, dagVars
<1>2. StackInv'
  BY <1>1 DEF IInv, StackInv
<1> QED
  BY <1>1, <1>2 DEF IInv

\* A message frame on a good stack.
LEMMA PushRecvStacked ==
  ASSUME NEW a \in CalledActors, NEW msgs, NEW frames,
         Stacked(frames, a[2], CalledActors, completed)
  PROVE  Stacked(PushRecv(a, msgs, frames), a[2], CalledActors, completed)
<1>1. FrameOK(RecvFrame(a, msgs), a[2], CalledActors, completed)
  BY DEF FrameOK, RecvFrame, Frame
<1>2. Stacked(<<RecvFrame(a, msgs)>> \o frames, a[2], CalledActors, completed)
  BY <1>1, StackedPush
<1> QED
  BY <1>2 DEF PushRecv

\* DagCollectiveActor::start.
LEMMA StartLoopStep ==
  ASSUME IInv, NEW r \in Rank, startLoop(r)
  PROVE  IInv'
<1> DEFINE a == Top(r).actor
<1>1. ~Idle(r)
  BY DEF startLoop, OnTop
<1>2. /\ a \in CalledActors /\ a \in Actor /\ Called(a) /\ a[2] = r
      /\ Stacked(stack[r], r, CalledActors, completed)
      /\ Stacked(Tail(stack[r]), r, CalledActors, completed)
  BY <1>1, TopFrame
<1> HIDE DEF a
<1>3. PICK id \in initial[a] :
        /\ initial' = [initial EXCEPT ![a] = initial[a] \ {id}]
        /\ startAction(a, id, IF initial[a] = {id} THEN Tail(stack[r])
                              ELSE stack[r])
  BY DEF startLoop, a
<1>4. PICK frames : frames = IF initial[a] = {id} THEN Tail(stack[r])
                             ELSE stack[r]
  OBVIOUS
<1>5. Stacked(frames, a[2], CalledActors, completed)
  BY <1>2, <1>4
<1>6. a \notin complete
  BY <1>3 DEF IInv, DagInv, DoneInv
<1>7. /\ Ids(Actions(a)) = initial[a] \cup {p[2] : p \in pending[a]}
                             \cup active[a] \cup completed[a]
      /\ \A ac \in Actions(a) : \A q \in ac.pre :
           <<q, ac.id>> \in pending[a] \/ q \in completed[a]
  BY <1>2 DEF IInv, DagInv, AccountInv, WaitInv, Waiting
<1>8. PICK I : I = initial[a] \ {id}
  OBVIOUS
<1>9. /\ id \in Ids(Actions(a))
      /\ Ids(Actions(a)) = I \cup {p[2] : p \in pending[a]}
                             \cup active[a] \cup completed[a] \cup {id}
      /\ I \subseteq initial[a] /\ pending[a] \subseteq pending[a]
      /\ initial' = [initial EXCEPT ![a] = I]
  BY <1>3, <1>7, <1>8
<1>10. pending' = [pending EXCEPT ![a] = pending[a]]
  BY <1>2 DEF startLoop, IInv, DagInv, StateInv
<1>11. job' = job /\ calls' = calls
  BY DEF startLoop
<1>12. startAction(a, id, frames)
  BY <1>3, <1>4
<1> QED
  BY <1>2, <1>5, <1>6, <1>7, <1>9, <1>10, <1>11, <1>12, StartStep

\* DagCollectiveActor::clearDependencies.
LEMMA ClearDependenciesStep ==
  ASSUME IInv, NEW r \in Rank, clearDependencies(r)
  PROVE  IInv'
<1> DEFINE a == Top(r).actor
           waiting == Successors(pending, a, Top(r).id)
<1>1. ~Idle(r) /\ Top(r).op = "deps"
  BY DEF clearDependencies, OnTop
<1>2. /\ a \in CalledActors /\ a \in Actor /\ Called(a) /\ a[2] = r
      /\ Top(r).id \in completed[a]
      /\ Stacked(stack[r], r, CalledActors, completed)
      /\ Stacked(Tail(stack[r]), r, CalledActors, completed)
  BY <1>1, TopFrame
<1>3. PICK p \in waiting :
        LET frames == IF waiting = {p} THEN Tail(stack[r]) ELSE stack[r]
        IN  /\ pending' = [pending EXCEPT ![a] = pending[a] \ {p}]
            /\ IF joinCounter(a, p[2]) = 0
               THEN startAction(a, p[2], frames)
               ELSE /\ SetStack(r, frames)
                    /\ UNCHANGED <<registered, early, active, completed,
                                   headerVars, complete, result, net>>
  BY DEF clearDependencies
<1>4. p \in pending[a] /\ p[1] = Top(r).id
  BY DEF Successors
<1>5. PICK frames : frames = IF waiting = {p} THEN Tail(stack[r]) ELSE stack[r]
  OBVIOUS
<1>6. Stacked(frames, a[2], CalledActors, completed)
  BY <1>2, <1>5
<1>7. a \notin complete
  BY <1>4 DEF IInv, DagInv, DoneInv
<1>8. /\ Ids(Actions(a)) = initial[a] \cup {q[2] : q \in pending[a]}
                             \cup active[a] \cup completed[a]
      /\ \A ac \in Actions(a) : \A q \in ac.pre :
           <<q, ac.id>> \in pending[a] \/ q \in completed[a]
  BY <1>2 DEF IInv, DagInv, AccountInv, WaitInv, Waiting
<1>9. PICK P : P = pending[a] \ {p}
  OBVIOUS
<1>10. /\ job' = job /\ calls' = calls /\ initial' = initial
  BY DEF clearDependencies
<1>11. /\ pending' = [pending EXCEPT ![a] = P] /\ pending'[a] = P
       /\ initial' = [initial EXCEPT ![a] = initial[a]]
  BY <1>2, <1>3, <1>9, <1>10 DEF IInv, DagInv, StateInv
<1>12. /\ P \subseteq pending[a] /\ initial[a] \subseteq initial[a]
       /\ p[2] \in Ids(Actions(a))
       /\ Ids(Actions(a)) = initial[a] \cup {q[2] : q \in P}
                              \cup active[a] \cup completed[a] \cup {p[2]}
  BY <1>4, <1>8, <1>9
<1>13. \A ac \in Actions(a) : \A q \in ac.pre :
          <<q, ac.id>> \in P \/ q \in completed[a]
  <2> SUFFICES ASSUME NEW ac \in Actions(a), NEW q \in ac.pre,
                      q \notin completed[a]
               PROVE  <<q, ac.id>> \in P
    OBVIOUS
  <2>1. <<q, ac.id>> \in pending[a]
    BY <1>8
  <2>2. <<q, ac.id>>[1] # p[1]
    BY <1>2, <1>4
  <2> QED
    BY <1>9, <2>1, <2>2
<1> HIDE DEF a, waiting
<1>14. CASE joinCounter(a, p[2]) = 0
  <2>1. startAction(a, p[2], frames)
    BY <1>3, <1>5, <1>14
  <2> QED
    BY <1>2, <1>6, <1>7, <1>10, <1>11, <1>12, <1>13, <2>1, StartStep
<1>15. CASE joinCounter(a, p[2]) # 0
  <2>1. /\ stack' = [stack EXCEPT ![r] = frames]
        /\ UNCHANGED <<registered, active, completed, complete>>
    BY <1>3, <1>5, <1>15 DEF SetStack
  <2>2. {q \in pending'[a] : q[2] = p[2]} # {}
    BY <1>15, FS_EmptySet DEF joinCounter
  <2>3. p[2] \in {q[2] : q \in P}
    BY <1>11, <2>2
  <2>4. /\ active' = [active EXCEPT ![a] = active[a]]
        /\ completed' = [completed EXCEPT ![a] = completed[a]]
    BY <1>2, <2>1 DEF IInv, DagInv, StateInv
  <2>5. Ids(Actions(a)) = initial[a] \cup {q[2] : q \in P} \cup active[a]
                            \cup completed[a]
    BY <1>12, <2>3
  <2>6. ActorMove(a, initial[a], P, active[a], completed[a])
    BY <1>7, <1>10, <1>11, <1>12, <1>13, <2>1, <2>4, <2>5 DEF ActorMove
  <2>7. DagInv'
    BY <1>2, <2>6, ActorStep DEF IInv
  <2>8. CalledActors' = CalledActors
    BY <1>10 DEF CalledActors, Called, Actor
  <2>9. StackInv'
    BY <1>2, <1>6, <2>1, <2>8, StackStep DEF IInv
  <2> QED
    BY <2>7, <2>9 DEF IInv
<1> QED
  BY <1>14, <1>15

\* CollectiveEngine::deliverPending.
LEMMA DeliverPendingStep ==
  ASSUME IInv, NEW r \in Rank, deliverPending(r)
  PROVE  IInv'
<1> DEFINE a == Top(r).actor
<1>1. ~Idle(r)
  BY DEF deliverPending, OnTop
<1>2. /\ a \in CalledActors /\ a[2] = r
      /\ Stacked(Tail(stack[r]), r, CalledActors, completed)
  BY <1>1, TopFrame
<1>3. PICK s : s = PushRecv(a, early[a], Tail(stack[r]))
  OBVIOUS
<1>4. Stacked(s, r, CalledActors, completed)
  BY <1>2, <1>3, PushRecvStacked
<1>5. /\ stack' = [stack EXCEPT ![r] = s]
      /\ UNCHANGED <<job, calls, registered, dagVars, complete>>
  BY <1>3 DEF deliverPending, SetStack
<1> QED
  BY <1>4, <1>5, QuietStack

\* CollectiveEngine::incoming.
LEMMA IncomingStep ==
  ASSUME IInv, NEW r \in Rank, incoming(r)
  PROVE  IInv'
<1>1. PICK m \in net :
        /\ domTargetRank(m) = r
        /\ IF Target(m) \in registered
           THEN SetStack(r, <<RecvFrame(Target(m), {m})>>)
           ELSE UNCHANGED stack
        /\ UNCHANGED <<job, calls, registered, dagVars, complete>>
  BY DEF incoming
<1>2. CASE Target(m) \in registered
  <2>1. Target(m) \in CalledActors /\ Target(m)[2] = r
    BY <1>1, <1>2 DEF IInv, DagInv, StateInv, CalledActors, Target
  <2>2. FrameOK(RecvFrame(Target(m), {m}), r, CalledActors, completed)
    BY <2>1 DEF FrameOK, RecvFrame, Frame
  <2>3. PICK f : f = RecvFrame(Target(m), {m})
    OBVIOUS
  <2>4. Stacked(<<f>>, r, CalledActors, completed)
    <3>1. PICK S : S = {f}
      OBVIOUS
    <3>2. <<f>> \in Seq(S) /\ \A g \in S : FrameOK(g, r, CalledActors, completed)
      BY <2>2, <2>3, <3>1
    <3> QED
      BY <3>2 DEF Stacked
  <2>5. stack' = [stack EXCEPT ![r] = <<f>>]
    BY <1>1, <1>2, <2>3 DEF SetStack
  <2> QED
    BY <1>1, <2>4, <2>5, QuietStack
<1>3. CASE Target(m) \notin registered
  BY <1>1, <1>3, QuietAll
<1> QED
  BY <1>2, <1>3

\* DagCollectiveActor::recv.
LEMMA RecvStep ==
  ASSUME IInv, NEW r \in Rank, recv(r)
  PROVE  IInv'
<1> DEFINE a == Top(r).actor
<1>1. ~Idle(r)
  BY DEF recv, OnTop
<1>2. /\ a \in CalledActors /\ a[2] = r
      /\ Stacked(Tail(stack[r]), r, CalledActors, completed)
  BY <1>1, TopFrame
<1>3. PICK m \in Top(r).msgs :
        \/ recvAck(a, m, Rest(r, m))
        \/ recvPayload(a, m, Rest(r, m))
        \/ incomingHeader(a, m, Rest(r, m))
  BY DEF recv
<1>3a. PICK frames : frames = Rest(r, m)
  OBVIOUS
<1>4. Stacked(frames, a[2], CalledActors, completed)
  BY <1>2, <1>3a, PushRecvStacked DEF Rest
<1>5. UNCHANGED <<job, calls, initial, pending>>
  BY DEF recv
<1>6. \/ recvAck(a, m, frames)
      \/ recvPayload(a, m, frames)
      \/ incomingHeader(a, m, frames)
  BY <1>3, <1>3a
<1> HIDE DEF a
<1>7. ASSUME NEW what, Abort(what)
      PROVE  IInv'
  BY <1>5, <1>7, QuietAll DEF Abort, dagVars
<1>8. ASSUME SetStack(a[2], frames),
             UNCHANGED <<active, completed, complete, registered>>
      PROVE  IInv'
  BY <1>2, <1>4, <1>5, <1>8, QuietStack DEF SetStack, dagVars
<1>9. ASSUME NEW id \in active[a], NEW buffer, clearAction(a, id, buffer, frames)
      PROVE  IInv'
  BY <1>2, <1>4, <1>5, <1>9, ClearStep
<1>10. CASE recvAck(a, m, frames)
  BY <1>7, <1>9, <1>10 DEF recvAck, isActive
<1>11. ASSUME isActive(a, RECV, m, m.from), dataRecved(a, m, frames)
       PROVE  IInv'
  <2>1. PICK id : id = messageId(RECV, m.round, m.from)
    OBVIOUS
  <2>2. id \in active[a]
    BY <1>11, <2>1 DEF isActive
  <2>3. \E buffer : clearAction(a, id, buffer, frames)
    BY <1>11, <2>1 DEF dataRecved
  <2> QED
    BY <1>9, <2>2, <2>3
<1>12. CASE recvPayload(a, m, frames)
  BY <1>7, <1>11, <1>12 DEF recvPayload
<1>13. CASE incomingHeader(a, m, frames)
  BY <1>8, <1>11, <1>13 DEF incomingHeader
<1> QED
  BY <1>6, <1>10, <1>12, <1>13

\* The NICs only move messages and data.
LEMMA NicStepQuiet ==
  ASSUME IInv, NicStep
  PROVE  IInv'
<1>1. UNCHANGED nicVars
  BY DEF NicStep, injectSend, answerGet, takeOffWire
<1> QED
  BY <1>1, QuietAll DEF nicVars, engineVars, dagVars

\* CollectiveEngine::startCollective: the actions without precursors are
\* initial, all others wait.
LEMMA StartCollectiveStep ==
  ASSUME IInv, NEW r \in Rank, startCollective(r)
  PROVE  IInv'
<1>0. PICK a : a = <<calls[r] + 1, r>>
  OBVIOUS
<1> DEFINE acs == Actions(a)
           I == Ids({ac \in acs : ac.pre = {}})
           P == UNION {ac.pre \X {ac.id} : ac \in acs}
<1>1. /\ job \in Jobs /\ calls \in [Rank -> Nat] /\ job \in Seq(Call)
  BY JobAssumption DEF IInv, DagInv, StateInv
<1>2. a \in Actor /\ ~Called(a) /\ a[2] = r /\ a[1] = calls[r] + 1
  BY <1>0, <1>1 DEF startCollective, MayCall, Actor, Called
<1>3. /\ calls' = [calls EXCEPT ![r] = calls[r] + 1]
      /\ registered' = registered \cup {a}
      /\ initial' = [initial EXCEPT ![a] = I]
      /\ pending' = [pending EXCEPT ![a] = P]
      /\ stack' = [stack EXCEPT ![r] = StartFrames(a)]
      /\ UNCHANGED <<job, active, completed, complete>>
  BY <1>0 DEF startCollective, SetStack
<1>4. /\ Actor' = Actor /\ Called(a)' /\ \A b : Actions(b)' = Actions(b)
      /\ \A b \in Actor : Called(b)' = (Called(b) \/ b = a)
  <2>1. Actor' = Actor /\ \A b : Actions(b)' = Actions(b)
    BY <1>3 DEF Actor, Actions, CallOf
  <2>2. Called(a)'
    BY <1>1, <1>2, <1>3 DEF Called
  <2>3. ASSUME NEW b \in Actor
        PROVE  Called(b)' = (Called(b) \/ b = a)
    <3>1. b = <<b[1], b[2]>> /\ b[1] \in Nat /\ b[2] \in Rank
      BY <1>1, ActorParts
    <3>2. CASE b[2] = r
      BY <1>0, <1>1, <1>2, <1>3, <3>1, <3>2 DEF Called
    <3>3. CASE b[2] # r
      BY <1>0, <1>1, <1>2, <1>3, <3>1, <3>3 DEF Called
    <3> QED
      BY <3>2, <3>3
  <2> QED
    BY <2>1, <2>2, <2>3
<1>5. /\ CallOf(a) \in Call /\ r \in Rank /\ Ids(acs) \subseteq AllIds
  BY <1>1, <1>2, ActorParts
<1>6. /\ IsFiniteSet(acs)
      /\ \A ac \in acs : ac.pre \subseteq Ids(acs)
  BY <1>2, <1>5, DagAssumption DEF Actions
<1>7. /\ I \subseteq AllIds /\ P \subseteq AllIds \X AllIds
  <2>1. I \subseteq Ids(acs)
    BY DEF Ids
  <2>2. \A ac \in acs : ac.id \in Ids(acs)
    BY DEF Ids
  <2>3. P \subseteq Ids(acs) \X Ids(acs)
    BY <1>6, <2>2
  <2> QED
    BY <1>5, <2>1, <2>3
<1>8. /\ Ids(acs) = I \cup {p[2] : p \in P}
  <2>1. ASSUME NEW ac \in acs
        PROVE  ac.id \in I \cup {p[2] : p \in P}
    <3>1. CASE ac.pre = {}
      BY <3>1 DEF Ids
    <3>2. CASE ac.pre # {}
      <4>1. PICK q \in ac.pre : TRUE
        BY <3>2
      <4>2. <<q, ac.id>> \in P
        BY <4>1
      <4>3. <<q, ac.id>>[2] = ac.id
        OBVIOUS
      <4> QED
        BY <4>2, <4>3
    <3> QED
      BY <3>1, <3>2
  <2>2. ASSUME NEW p \in P
        PROVE  p[2] \in Ids(acs)
    BY DEF Ids
  <2>3. I \subseteq Ids(acs)
    BY DEF Ids
  <2>4. Ids(acs) \subseteq I \cup {p[2] : p \in P}
    BY <2>1 DEF Ids
  <2> QED
    BY <2>2, <2>3, <2>4
<1>9. IsFiniteSet(P)
  <2>1. IsFiniteSet(Ids(acs))
    <3>1. PICK f : f = [ac \in acs |-> ac.id]
      OBVIOUS
    <3>2. f \in Surjection(acs, Ids(acs))
      BY <3>1 DEF Surjection, Ids
    <3> QED
      BY <1>6, <3>2, FS_Surjection
  <2>2. IsFiniteSet(Ids(acs) \X Ids(acs))
    BY <2>1, FS_Product
  <2>3. P \subseteq Ids(acs) \X Ids(acs)
    BY <1>6 DEF Ids
  <2> QED
    BY <2>2, <2>3, FS_Subset
<1>10. \A ac \in acs : /\ ac.id \in I => ac.pre = {}
                      /\ \A q \in ac.pre : <<q, ac.id>> \in P
  <2>1. ASSUME NEW ac \in acs, ac.id \in I
        PROVE  ac.pre = {}
    <3>1. PICK other \in acs : other.pre = {} /\ other.id = ac.id
      BY <2>1 DEF Ids
    <3> QED
      BY <1>1, <1>2, <3>1, IdsUnique
  <2> QED
    BY <2>1
<1>11. /\ initial'[a] = I /\ pending'[a] = P
       /\ active'[a] = {} /\ completed'[a] = {}
       /\ \A b \in Actor : b # a => /\ initial'[b] = initial[b]
                                    /\ pending'[b] = pending[b]
  BY <1>2, <1>3 DEF IInv, DagInv, StateInv, FreshInv
<1> HIDE DEF I, P, acs
<1>12. StateInv'
  <2>1. calls' \in [Rank -> Nat]
    BY <1>1, <1>3
  <2>2. /\ registered' \subseteq Actor /\ \A b \in registered' : Called(b)'
    BY <1>2, <1>3, <1>4 DEF IInv, DagInv, StateInv
  <2>3. /\ complete' \subseteq Actor /\ \A b \in complete' : Called(b)'
    BY <1>3, <1>4 DEF IInv, DagInv, StateInv
  <2>4. /\ initial' \in [Actor -> SUBSET AllIds]
        /\ pending' \in [Actor -> SUBSET (AllIds \X AllIds)]
    BY <1>3, <1>7 DEF IInv, DagInv, StateInv
  <2> QED
    BY <1>1, <1>3, <1>4, <2>1, <2>2, <2>3, <2>4 DEF IInv, DagInv, StateInv
<1>13. FreshInv'
  BY <1>3, <1>4, <1>11 DEF IInv, DagInv, FreshInv
<1>14. AccountInv'
  <2> SUFFICES ASSUME NEW b \in Actor, Called(b) \/ b = a
               PROVE  Ids(Actions(b)) = initial'[b] \cup {p[2] : p \in pending'[b]}
                                          \cup active'[b] \cup completed'[b]
    BY <1>4 DEF AccountInv, Waiting
  <2>1. CASE b = a
    BY <1>8, <1>11, <2>1 DEF acs
  <2>2. CASE b # a
    BY <1>3, <1>11, <2>2 DEF IInv, DagInv, AccountInv, Waiting
  <2> QED
    BY <2>1, <2>2
<1>15. WaitInv'
  <2> SUFFICES ASSUME NEW b \in Actor, Called(b) \/ b = a
               PROVE  /\ IsFiniteSet(pending'[b])
                      /\ \A ac \in Actions(b) :
                           /\ ac.id \in initial'[b] => ac.pre = {}
                           /\ \A q \in ac.pre : <<q, ac.id>> \in pending'[b]
                                                \/ q \in completed'[b]
    BY <1>4 DEF WaitInv
  <2>1. CASE b = a
    BY <1>9, <1>10, <1>11, <2>1 DEF acs
  <2>2. CASE b # a
    BY <1>3, <1>11, <2>2 DEF IInv, DagInv, WaitInv
  <2> QED
    BY <2>1, <2>2
<1>16. DoneInv'
  <2>1. a \notin complete
    BY <1>2 DEF IInv, DagInv, StateInv
  <2> QED
    BY <1>3, <1>11, <2>1 DEF IInv, DagInv, DoneInv, StateInv
<1>17. StackInv'
  <2>1. CalledActors \subseteq CalledActors' /\ a \in CalledActors'
    BY <1>2, <1>4 DEF CalledActors
  <2>2. PICK f, g, s : f = StartFrame(a) /\ g = DeliverFrame(a)
                        /\ s = StartFrames(a)
    OBVIOUS
  <2>3. /\ FrameOK(f, r, CalledActors', completed')
        /\ FrameOK(g, r, CalledActors', completed')
    BY <1>2, <2>1, <2>2 DEF FrameOK, StartFrame, DeliverFrame, Frame
  <2>4. PICK S : S = {f, g}
    OBVIOUS
  <2>5. s \in Seq(S)
    <3>1. PICK x, y : /\ x = IF initial'[a] = {} THEN <<>> ELSE <<f>>
                      /\ y = IF early[a] = {} THEN <<>> ELSE <<g>>
      OBVIOUS
    <3>2. s = x \o y
      BY <2>2, <3>1 DEF StartFrames
    <3>3. <<>> \in Seq(S) /\ <<f>> \in Seq(S) /\ <<g>> \in Seq(S)
      BY <2>4
    <3>4. x \in Seq(S) /\ y \in Seq(S)
      BY <3>1, <3>3
    <3> QED
      BY <3>2, <3>4
  <2>6. s \in Seq(S) /\ \A h \in S : FrameOK(h, r, CalledActors', completed')
    BY <2>3, <2>4, <2>5
  <2>7. Stacked(s, r, CalledActors', completed')
    BY <2>6 DEF Stacked
  <2>8. stack' = [stack EXCEPT ![r] = s] /\ completed' = completed
    BY <1>3, <2>2
  <2> QED
    BY <2>1, <2>7, <2>8, StackStep DEF IInv
<1> QED
  BY <1>12, <1>13, <1>14, <1>15, <1>16, <1>17 DEF IInv, DagInv
(***************************************************************************)
(* The invariant                                                           *)
(***************************************************************************)

\* IInv holds at the start.
LEMMA IInvInit == Init => IInv
<1> SUFFICES ASSUME Init
             PROVE  IInv
  OBVIOUS
<1>1. job \in Jobs /\ \A a \in Actor : a[1] \in Nat /\ a[1] # 0 /\ a[2] \in Rank
  <2>1. job \in Jobs
    BY DEF Init
  <2> QED
    BY <2>1, ActorParts
<1>2. \A a \in Actor : ~Called(a)
  BY <1>1 DEF Init, Called
<1>3. StateInv
  BY <1>1 DEF Init, StateInv
<1>4. FreshInv /\ AccountInv /\ WaitInv /\ DoneInv
  BY <1>2 DEF Init, FreshInv, AccountInv, WaitInv, DoneInv
<1>5. StackInv
  BY StackedEmpty DEF Init, StackInv
<1> QED
  BY <1>3, <1>4, <1>5 DEF IInv, DagInv

\* Every step keeps IInv.
LEMMA IInvStep == IInv /\ [Next]_vars => IInv'
<1> SUFFICES ASSUME IInv, [Next]_vars
             PROVE  IInv'
  OBVIOUS
<1>1. CASE UNCHANGED vars
  BY <1>1, QuietAll DEF vars, dagVars
<1>2. CASE NicStep
  BY <1>2, NicStepQuiet
<1>3. ASSUME NEW r \in Rank, RankStep(r)
      PROVE  IInv'
  <2>1. CASE startCollective(r)
    BY <2>1, StartCollectiveStep
  <2>2. CASE incoming(r)
    BY <2>2, IncomingStep
  <2>3. CASE startLoop(r)
    BY <2>3, StartLoopStep
  <2>4. CASE clearDependencies(r)
    BY <2>4, ClearDependenciesStep
  <2>5. CASE deliverPending(r)
    BY <2>5, DeliverPendingStep
  <2>6. CASE recv(r)
    BY <2>6, RecvStep
  <2> QED
    BY <1>3, <2>1, <2>2, <2>3, <2>4, <2>5, <2>6 DEF RankStep
<1> QED
  BY <1>1, <1>2, <1>3 DEF Next

\* When the engine reports a collective as over (putDoneNotification), every
\* action of its DAG was done and nothing is left in initial_actions_,
\* pending_comms_ and active_comms_, although clearAction asks before it has
\* gone through the successors of the action it clears.
THEOREM DoneMeansAllHolds == Spec => []DoneMeansAll
<1>1. IInv => DoneMeansAll
  <2> SUFFICES ASSUME IInv, NEW a \in complete
               PROVE  /\ completed[a] = Ids(Actions(a))
                      /\ initial[a] = {} /\ pending[a] = {} /\ active[a] = {}
    BY DEF DoneMeansAll
  <2>1. initial[a] = {} /\ pending[a] = {} /\ active[a] = {}
    BY DEF IInv, DagInv, DoneInv
  <2>2. a \in Actor /\ Called(a)
    BY DEF IInv, DagInv, StateInv
  <2>3. completed[a] = Ids(Actions(a))
    BY <2>1, <2>2 DEF IInv, DagInv, AccountInv, Waiting
  <2> QED
    BY <2>1, <2>3
<1> QED
  BY <1>1, IInvInit, IInvStep, PTL DEF Spec

(***************************************************************************)
(* Precursors                                                              *)
(***************************************************************************)
StartsInOrder ==
  \A a \in Actor : \A id \in active'[a] \ active[a] :
    ActionOf(a, id).pre \subseteq completed[a]

\* A step that activates at most one action, whose precursors are over.
LEMMA OneStarted ==
  ASSUME IInv, NEW a \in Actor, NEW id,
         Cleared(a, id) \/ Activated(a, id),
         ActionOf(a, id).pre \subseteq completed[a]
  PROVE  StartsInOrder
BY DEF StartsInOrder, Cleared, Activated, IInv, DagInv, StateInv

\* start begins with the actions that wait for nothing.
LEMMA StartLoopInOrder ==
  ASSUME IInv, NEW r \in Rank, startLoop(r)
  PROVE  StartsInOrder
<1> DEFINE a == Top(r).actor
<1>1. a \in Actor /\ Called(a)
  BY TopFrame DEF startLoop, OnTop
<1>2. PICK id \in initial[a] : \E frames : startAction(a, id, frames)
  BY DEF startLoop
<1>3. id \in Ids(Actions(a))
  BY <1>1, <1>2 DEF IInv, DagInv, AccountInv
<1>4. ActionOf(a, id) \in Actions(a) /\ ActionOf(a, id).id = id
  BY <1>1, <1>3, ActionOfId DEF IInv, DagInv, StateInv
<1>5. ActionOf(a, id).pre = {}
  BY <1>1, <1>2, <1>4 DEF IInv, DagInv, WaitInv
<1>6. PICK frames : startAction(a, id, frames)
  BY <1>2
<1>7. Cleared(a, id) \/ Activated(a, id)
  BY <1>1, <1>4, <1>6, StartEffect DEF IInv, DagInv
<1> QED
  BY <1>1, <1>5, <1>7, OneStarted

\* clearDependencies starts an action with its last precursor.
LEMMA ClearDependenciesInOrder ==
  ASSUME IInv, NEW r \in Rank, clearDependencies(r)
  PROVE  StartsInOrder
<1> DEFINE a == Top(r).actor
<1>1. ~Idle(r) /\ Top(r).op = "deps"
  BY DEF clearDependencies, OnTop
<1>2. a \in Actor /\ Called(a) /\ Top(r).id \in completed[a]
  BY <1>1, TopFrame
<1>3. PICK p \in Successors(pending, a, Top(r).id) :
        /\ pending' = [pending EXCEPT ![a] = pending[a] \ {p}]
        /\ IF joinCounter(a, p[2]) = 0
           THEN \E frames : startAction(a, p[2], frames)
           ELSE UNCHANGED active
  BY DEF clearDependencies
<1>4. p \in pending[a] /\ p[1] = Top(r).id
  BY DEF Successors
<1>5. CASE joinCounter(a, p[2]) = 0
  <2>1. p[2] \in Ids(Actions(a))
    BY <1>2, <1>4 DEF IInv, DagInv, AccountInv, Waiting
  <2>2. ActionOf(a, p[2]) \in Actions(a) /\ ActionOf(a, p[2]).id = p[2]
    BY <1>2, <2>1, ActionOfId DEF IInv, DagInv, StateInv
  <2>3. pending'[a] = pending[a] \ {p} /\ IsFiniteSet(pending'[a])
    <3>1. pending'[a] = pending[a] \ {p}
      BY <1>2, <1>3 DEF IInv, DagInv, StateInv
    <3>2. IsFiniteSet(pending[a])
      BY <1>2 DEF IInv, DagInv, WaitInv
    <3> QED
      BY <3>1, <3>2, FS_Subset
  <2>4. {q \in pending'[a] : q[2] = p[2]} = {}
    <3>1. IsFiniteSet({q \in pending'[a] : q[2] = p[2]})
      BY <2>3, FS_Subset
    <3> QED
      BY <1>5, <3>1, FS_EmptySet DEF joinCounter
  <2>5. ASSUME NEW q \in ActionOf(a, p[2]).pre
        PROVE  q \in completed[a]
    <3>1. <<q, p[2]>> \in pending[a] \/ q \in completed[a]
      BY <1>2, <2>2 DEF IInv, DagInv, WaitInv
    <3>2. CASE <<q, p[2]>> \in pending[a]
      <4>1. <<q, p[2]>>[2] = p[2] /\ <<q, p[2]>>[1] = q
        OBVIOUS
      <4>2. <<q, p[2]>> = p
        BY <2>3, <2>4, <3>2, <4>1
      <4> QED
        BY <1>2, <1>4, <4>1, <4>2
    <3> QED
      BY <3>1, <3>2
  <2>6. PICK frames : startAction(a, p[2], frames)
    BY <1>3, <1>5
  <2>7. Cleared(a, p[2]) \/ Activated(a, p[2])
    BY <1>2, <2>2, <2>6, StartEffect DEF IInv, DagInv
  <2>8. ActionOf(a, p[2]).pre \subseteq completed[a]
    BY <2>5
  <2> QED
    BY <1>2, <2>7, <2>8, OneStarted
<1>6. CASE joinCounter(a, p[2]) # 0
  BY <1>3, <1>6 DEF StartsInOrder
<1> QED
  BY <1>5, <1>6

\* Handling a message only clears actions.
LEMMA RecvInOrder ==
  ASSUME IInv, NEW r \in Rank, recv(r)
  PROVE  StartsInOrder
<1> DEFINE a == Top(r).actor
<1>1. a \in Actor
  BY TopFrame DEF recv, OnTop
<1>2. UNCHANGED active \/ \E id : active' = [active EXCEPT ![a] = active[a] \ {id}]
  <2>1. PICK m, frames : \/ recvAck(a, m, frames)
                         \/ recvPayload(a, m, frames)
                         \/ incomingHeader(a, m, frames)
    BY DEF recv
  <2> HIDE DEF a
  <2>2. CASE recvAck(a, m, frames)
    BY <2>2 DEF recvAck, Abort, clearAction
  <2>3. CASE recvPayload(a, m, frames)
    BY <2>3 DEF recvPayload, dataRecved, Abort, clearAction
  <2>4. CASE incomingHeader(a, m, frames)
    BY <2>4 DEF incomingHeader, dataRecved, clearAction
  <2> QED
    BY <2>1, <2>2, <2>3, <2>4
<1>3. \A b \in Actor : active'[b] \subseteq active[b]
  BY <1>1, <1>2 DEF IInv, DagInv, StateInv
<1> QED
  BY <1>3 DEF StartsInOrder

\* startAction is reached only for an action whose precursors are all over:
\* initial actions have none, and join_counter reaches 0 with the last one,
\* however acks, payloads, headers and early messages interleave.
THEOREM PrecursorsFirstHolds == Spec => PrecursorsFirst
<1>1. IInv /\ [Next]_vars => [StartsInOrder]_vars
  <2> SUFFICES ASSUME IInv, Next
               PROVE  StartsInOrder
    OBVIOUS
  <2>1. ASSUME UNCHANGED active
        PROVE  StartsInOrder
    BY <2>1 DEF StartsInOrder
  <2>2. CASE NicStep
    BY <2>1, <2>2 DEF NicStep, injectSend, answerGet, takeOffWire, nicVars,
                      dagVars
  <2>3. ASSUME NEW r \in Rank, RankStep(r)
        PROVE  StartsInOrder
    <3>1. CASE startCollective(r)
      BY <2>1, <3>1 DEF startCollective
    <3>2. CASE incoming(r) \/ deliverPending(r)
      BY <2>1, <3>2 DEF incoming, deliverPending, dagVars
    <3>3. CASE startLoop(r)
      BY <3>3, StartLoopInOrder
    <3>4. CASE clearDependencies(r)
      BY <3>4, ClearDependenciesInOrder
    <3>5. CASE recv(r)
      BY <3>5, RecvInOrder
    <3> QED
      BY <2>3, <3>1, <3>2, <3>3, <3>4, <3>5 DEF RankStep
  <2> QED
    BY <2>2, <2>3 DEF Next
<1> QED
  BY <1>1, IInvInit, IInvStep, PTL DEF Spec, PrecursorsFirst, StartsInOrder

(***************************************************************************)
(* Messages.  Every message belongs to the send of one actor and the       *)
(* receive of another, its flow.  Of a flow there is at most one ack       *)
(* around, and one message that is not an ack.                             *)
(***************************************************************************)
IsAck(m) == m.type \in NicAcks
IsPutHeader(m) == m.type = "smsg_send" /\ m.proto = "put"

\* The ends of the flow: a put header goes from the receive to the send.
Source(m) == <<m.tag, IF IsPutHeader(m) THEN m.to ELSE m.from>>
Sink(m) == <<m.tag, IF IsPutHeader(m) THEN m.from ELSE m.to>>
Flow(m) == <<Source(m), Sink(m), m.round>>
SendId(m) == messageId(SEND, m.round, Sink(m)[2])
RecvId(m) == messageId(RECV, m.round, Source(m)[2])

\* The action at an end of the flow.
EndOf(ac, type, m, partner) ==
  /\ ac.type = type /\ ac.id = messageId(type, m.round, partner)
  /\ ac.round = m.round /\ ac.partner = partner
  /\ protocolForAction(ac) = m.proto

Known(m) ==
  /\ m = Msg(m.type, m.proto, m.at, m.tag, m.from, m.to, m.round, m.data)
  /\ Source(m) \in Actor /\ Sink(m) \in Actor
  /\ \E ac \in Actions(Source(m)) : EndOf(ac, SEND, m, Sink(m)[2])
  /\ \E ac \in Actions(Sink(m)) : EndOf(ac, RECV, m, Source(m)[2])

\* How far the two actions are, by the message: act has the active actions,
\* over those that are completed.
SendStarted(m, act, over) == SendId(m) \in act[Source(m)] \cup over[Source(m)]
RecvStarted(m, act, over) == RecvId(m) \in act[Sink(m)] \cup over[Sink(m)]
SendActive(m, act) == SendId(m) \in act[Source(m)]
RecvActive(m, act) == RecvId(m) \in act[Sink(m)]
SendOpen(m, over) == SendId(m) \notin over[Source(m)]
RecvOpen(m, over) == RecvId(m) \notin over[Sink(m)]

AckStage(m, act, over) ==
  /\ IsAck(m) /\ m.at = "cq" /\ SendActive(m, act)
  /\ m.proto = "put" => RecvStarted(m, act, over)
EagerStage(m, act, over) ==
  /\ m.type = "smsg_send" /\ m.proto = "eager" /\ m.at \in {"nic", "cq"}
  /\ SendStarted(m, act, over) /\ RecvOpen(m, over)
  /\ m.at = "nic" => SendActive(m, act)
GetStage(m, act, over) ==
  /\ m.proto = "get" /\ SendStarted(m, act, over) /\ RecvOpen(m, over)
  /\ \/ m.type = "smsg_send" /\ m.at = "cq" /\ SendActive(m, act)
     \/ m.type = "rdma_get_request" /\ m.at = "wire" /\ SendActive(m, act) /\ RecvActive(m, act)
     \/ m.type = "rdma_get_payload" /\ m.at \in {"wire", "cq"} /\ RecvActive(m, act)
PutStage(m, act, over) ==
  /\ m.proto = "put" /\ RecvActive(m, act)
  /\ \/ m.type = "smsg_send" /\ m.at = "cq" /\ SendOpen(m, over)
     \/ m.type = "rdma_put_payload" /\ m.at = "nic" /\ SendActive(m, act)
     \/ m.type = "rdma_put_payload" /\ m.at \in {"wire", "cq"}

Stage(m, act, over) ==
  \/ AckStage(m, act, over) \/ EagerStage(m, act, over)
  \/ GetStage(m, act, over) \/ PutStage(m, act, over)

\* The ack of the NIC is still to come.
Unacked(m) ==
  \/ m.type = "smsg_send" /\ (m.at = "nic" \/ m.proto # "eager")
  \/ m.type = "rdma_get_request"
  \/ m.type = "rdma_put_payload" /\ m.at = "nic"

FlowsOK(msgs, act, over) ==
  /\ \A m \in msgs : Known(m) /\ Stage(m, act, over)
  /\ \A m, n \in msgs :
       Flow(m) = Flow(n) =>
         /\ (IsAck(m) <=> IsAck(n)) => m = n
         /\ Unacked(m) => ~IsAck(n)

\* Between messages: of any flow, a receive that is over had its send started
\* before it, or the other way round for a put, where the receive is first.
Linked(act, over) ==
  \A n : Known(n) =>
    /\ n.proto # "put" /\ ~RecvOpen(n, over) => SendStarted(n, act, over)
    /\ n.proto = "put" /\ ~SendOpen(n, over) => RecvStarted(n, act, over)

(***************************************************************************)
(* Where messages are: on the network, in a box of an actor, or in a frame *)
(* of a stack, whose height counts from the bottom.  A message that is not *)
(* on the network is where its target keeps it.                            *)
(***************************************************************************)
AtHeight(s, h) == s[Len(s) + 1 - h]
In(place, owner, h, msgs) == {<<place, owner, h, m>> : m \in msgs}
InFrames(s) == UNION {In("frame", AtHeight(s, h).actor, h, AtHeight(s, h).msgs) : h \in 1 .. Len(s)}
Boxed(place, box) == UNION {In(place, a, 0, box[a]) : a \in Actor}
Framed(st) == UNION {InFrames(st[r]) : r \in Rank}

Spotted(n, e, s, v, st) ==
  In("net", 0, 0, n) \cup Boxed("early", e) \cup Boxed("send", s) \cup Boxed("recv", v)
    \cup Framed(st)
Spots == Spotted(net, early, sendHeaders, recvHeaders, stack)

Contents(spots) == {x[4] : x \in spots}

SpotsOK(spots) ==
  /\ \A x, y \in spots : x[4] = y[4] => x = y
  /\ \A x \in spots : x[1] # "net" => x[2] = Target(x[4]) /\ x[4].at = "cq"

\* An action is in one phase.
PhaseInv ==
  \A a \in Actor :
    /\ initial[a] \cap (active[a] \cup completed[a]) = {}
    /\ Waiting(a) \cap (initial[a] \cup active[a] \cup completed[a]) = {}
    /\ active[a] \cap completed[a] = {}

BoxInv ==
  /\ early = [a \in Actor |-> early[a]]
  /\ sendHeaders = [a \in Actor |-> sendHeaders[a]]
  /\ recvHeaders = [a \in Actor |-> recvHeaders[a]]

MessageInv ==
  /\ BoxInv /\ PhaseInv
  /\ SpotsOK(Spots)
  /\ FlowsOK(Contents(Spots), active, completed)
  /\ Linked(active, completed)
  /\ NoProtocolAbort

(***************************************************************************)
(* Flows                                                                   *)
(***************************************************************************)

\* Flows that share one of their actions are one flow, and no action is at
\* both ends.
LEMMA SameFlow ==
  ASSUME job \in Jobs, NEW m, NEW n, Known(m), Known(n)
  PROVE  /\ Source(m) = Source(n) /\ SendId(m) = SendId(n) => Flow(m) = Flow(n)
         /\ Sink(m) = Sink(n) /\ RecvId(m) = RecvId(n) => Flow(m) = Flow(n)
         /\ ~(Source(m) = Sink(n) /\ SendId(m) = RecvId(n))
         /\ Flow(m) = Flow(n) => m.proto = n.proto
<1>1. PICK s \in Actions(Source(m)) : EndOf(s, SEND, m, Sink(m)[2])
  BY DEF Known
<1>2. PICK v \in Actions(Sink(m)) : EndOf(v, RECV, m, Source(m)[2])
  BY DEF Known
<1>3. PICK t \in Actions(Source(n)) : EndOf(t, SEND, n, Sink(n)[2])
  BY DEF Known
<1>4. PICK w \in Actions(Sink(n)) : EndOf(w, RECV, n, Source(n)[2])
  BY DEF Known
<1>5. /\ Source(m) = <<m.tag, Source(m)[2]>> /\ Sink(m) = <<m.tag, Sink(m)[2]>>
      /\ Source(n) = <<n.tag, Source(n)[2]>> /\ Sink(n) = <<n.tag, Sink(n)[2]>>
  BY DEF Source, Sink
<1>6. /\ Source(m) \in Actor /\ Source(n) \in Actor
      /\ Sink(m) \in Actor /\ Sink(n) \in Actor
  BY DEF Known
<1>7. ASSUME Source(m) = Source(n), SendId(m) = SendId(n)
      PROVE  Flow(m) = Flow(n)
  <2>1. s = t
    BY <1>1, <1>3, <1>6, <1>7, IdsUnique DEF EndOf, SendId
  <2>2. m.round = n.round /\ Sink(m)[2] = Sink(n)[2] /\ m.tag = n.tag
    BY <1>1, <1>3, <1>5, <1>7, <2>1 DEF EndOf
  <2> QED
    BY <1>5, <1>7, <2>2 DEF Flow
<1>8. ASSUME Sink(m) = Sink(n), RecvId(m) = RecvId(n)
      PROVE  Flow(m) = Flow(n)
  <2>1. v = w
    BY <1>2, <1>4, <1>6, <1>8, IdsUnique DEF EndOf, RecvId
  <2>2. m.round = n.round /\ Source(m)[2] = Source(n)[2] /\ m.tag = n.tag
    BY <1>2, <1>4, <1>5, <1>8, <2>1 DEF EndOf
  <2> QED
    BY <1>5, <1>8, <2>2 DEF Flow
<1>9. ASSUME Source(m) = Sink(n), SendId(m) = RecvId(n)
      PROVE  FALSE
  <2>1. s = w
    BY <1>1, <1>4, <1>6, <1>9, IdsUnique DEF EndOf, SendId, RecvId
  <2> QED
    BY <1>1, <1>4, <2>1 DEF EndOf, SEND, RECV
<1>10. ASSUME Flow(m) = Flow(n)
       PROVE  m.proto = n.proto
  <2>1. Source(m) = Source(n) /\ Sink(m) = Sink(n) /\ m.round = n.round
    BY <1>10 DEF Flow
  <2>2. s = t
    BY <1>1, <1>3, <1>6, <2>1, IdsUnique DEF EndOf
  <2> QED
    BY <1>1, <1>3, <2>2 DEF EndOf
<1> QED
  BY <1>7, <1>8, <1>9, <1>10

\* Messages that are gone do no harm.
LEMMA FewerFlows ==
  ASSUME NEW M, NEW M2, NEW act, NEW over, FlowsOK(M, act, over), M2 \subseteq M
  PROVE  FlowsOK(M2, act, over)
BY DEF FlowsOK

\* A message gives way to the next of its flow.
LEMMA NextOfFlow ==
  ASSUME NEW M, NEW M2, NEW act, NEW over, FlowsOK(M, act, over),
         NEW m \in M, NEW n, M2 \subseteq (M \ {m}) \cup {n},
         Known(n), Stage(n, act, over), Flow(n) = Flow(m),
         ~IsAck(m), ~IsAck(n), Unacked(n) => Unacked(m)
  PROVE  FlowsOK(M2, act, over)
BY DEF FlowsOK

\* The NIC sends a message on, and acks it.
LEMMA AckedFlow ==
  ASSUME NEW M, NEW M2, NEW act, NEW over, FlowsOK(M, act, over),
         NEW m \in M, NEW n, NEW k, M2 \subseteq (M \ {m}) \cup {n, k},
         Known(n), Known(k), Stage(n, act, over), Stage(k, act, over),
         Flow(n) = Flow(m), Flow(k) = Flow(m),
         Unacked(m), ~IsAck(m), ~IsAck(n), ~Unacked(n), IsAck(k), ~Unacked(k)
  PROVE  FlowsOK(M2, act, over)
BY DEF FlowsOK

\* An action that starts holds no message up.
LEMMA StartedFlow ==
  ASSUME NEW M, NEW M2, NEW act, NEW act2, NEW over, FlowsOK(M, act, over),
         M2 \subseteq M, NEW a \in Actor, NEW id,
         act = [b \in Actor |-> act[b]],
         act2 = [act EXCEPT ![a] = act[a] \cup {id}]
  PROVE  FlowsOK(M2, act2, over)
<1>1. ASSUME NEW m \in M2
      PROVE  Known(m) /\ Stage(m, act2, over)
  <2>1. Known(m) /\ Stage(m, act, over) /\ Source(m) \in Actor /\ Sink(m) \in Actor
    BY <1>1 DEF FlowsOK, Known
  <2>2. act[Source(m)] \subseteq act2[Source(m)] /\ act[Sink(m)] \subseteq act2[Sink(m)]
    BY <2>1
  <2>3. /\ SendStarted(m, act, over) => SendStarted(m, act2, over)
        /\ RecvStarted(m, act, over) => RecvStarted(m, act2, over)
        /\ SendActive(m, act) => SendActive(m, act2)
        /\ RecvActive(m, act) => RecvActive(m, act2)
    BY <2>2 DEF SendStarted, RecvStarted, SendActive, RecvActive
  <2> QED
    BY <2>1, <2>3 DEF Stage, AckStage, EagerStage, GetStage, PutStage
<1> QED
  BY <1>1 DEF FlowsOK

\* A message of a flow that had none.
LEMMA NewFlow ==
  ASSUME NEW M, NEW M2, NEW act, NEW over, FlowsOK(M, act, over), NEW n,
         M2 \subseteq M \cup {n}, Known(n), Stage(n, act, over), ~IsAck(n),
         \A m \in M : Flow(m) # Flow(n)
  PROVE  FlowsOK(M2, act, over)
BY DEF FlowsOK

\* An action is over.  Messages of its flow may be left that are past it:
\* for a send neither an ack nor one that is still to be acked, for a
\* receive only an ack.
Past(msgs, a, id) ==
  \A m \in msgs :
    /\ Source(m) = a /\ SendId(m) = id => ~IsAck(m) /\ ~Unacked(m)
    /\ Sink(m) = a /\ RecvId(m) = id => IsAck(m)

Clears(a, id, act, over, act2, over2) ==
  /\ act = [b \in Actor |-> act[b]] /\ over = [b \in Actor |-> over[b]]
  /\ act2 = [act EXCEPT ![a] = act[a] \ {id}]
  /\ over2 = [over EXCEPT ![a] = over[a] \cup {id}]

\* The flows when an action is over.
LEMMA ClearedFlow ==
  ASSUME NEW M, NEW M2, NEW act, NEW act2, NEW over, NEW over2,
         FlowsOK(M, act, over), M2 \subseteq M, NEW a \in Actor, NEW id,
         Clears(a, id, act, over, act2, over2), Past(M2, a, id)
  PROVE  FlowsOK(M2, act2, over2)
<1> USE DEF Clears, Past
<1>1. ASSUME NEW m \in M2
      PROVE  Known(m) /\ Stage(m, act2, over2)
  <2>1. Known(m) /\ Stage(m, act, over) /\ Source(m) \in Actor /\ Sink(m) \in Actor
    BY <1>1 DEF FlowsOK, Known
  <2>2. /\ SendStarted(m, act, over) => SendStarted(m, act2, over2)
        /\ RecvStarted(m, act, over) => RecvStarted(m, act2, over2)
    BY <2>1 DEF SendStarted, RecvStarted
  <2>3. ~(Source(m) = a /\ SendId(m) = id) =>
          /\ SendActive(m, act) => SendActive(m, act2)
          /\ SendOpen(m, over) => SendOpen(m, over2)
    BY <2>1 DEF SendActive, SendOpen
  <2>4. ~(Sink(m) = a /\ RecvId(m) = id) =>
          /\ RecvActive(m, act) => RecvActive(m, act2)
          /\ RecvOpen(m, over) => RecvOpen(m, over2)
    BY <2>1 DEF RecvActive, RecvOpen
  <2>5. CASE AckStage(m, act, over)
    BY <1>1, <2>1, <2>2, <2>3, <2>5 DEF Stage, AckStage
  <2>6. CASE EagerStage(m, act, over)
    <3>1. ~IsAck(m) /\ (m.at = "nic" => Unacked(m))
      BY <2>6 DEF EagerStage, IsAck, NicAcks, Unacked
    <3> QED
      BY <1>1, <2>1, <2>2, <2>3, <2>4, <2>6, <3>1 DEF Stage, EagerStage
  <2>7. CASE GetStage(m, act, over)
    <3>1. ~IsAck(m) /\ (m.type # "rdma_get_payload" => Unacked(m))
      BY <2>7 DEF GetStage, IsAck, NicAcks, Unacked
    <3> QED
      BY <1>1, <2>1, <2>2, <2>3, <2>4, <2>7, <3>1 DEF Stage, GetStage
  <2>8. CASE PutStage(m, act, over)
    <3>1. ~IsAck(m) /\ (m.type = "smsg_send" \/ m.at = "nic" => Unacked(m))
      BY <2>8 DEF PutStage, IsAck, NicAcks, Unacked
    <3> QED
      BY <1>1, <2>1, <2>2, <2>3, <2>4, <2>8, <3>1 DEF Stage, PutStage
  <2> QED
    BY <2>1, <2>5, <2>6, <2>7, <2>8 DEF Stage
<1> QED
  BY <1>1 DEF FlowsOK

\* The links between the two ends of a flow.
LEMMA StartedLink ==
  ASSUME NEW act, NEW act2, NEW over, Linked(act, over), NEW a \in Actor, NEW id,
         act = [b \in Actor |-> act[b]],
         act2 = [act EXCEPT ![a] = act[a] \cup {id}]
  PROVE  Linked(act2, over)
<1> SUFFICES ASSUME NEW n, Known(n)
             PROVE  /\ n.proto # "put" /\ ~RecvOpen(n, over) => SendStarted(n, act2, over)
                    /\ n.proto = "put" /\ ~SendOpen(n, over) => RecvStarted(n, act2, over)
  BY DEF Linked
<1>1. Source(n) \in Actor /\ Sink(n) \in Actor
  BY DEF Known
<1>2. /\ n.proto # "put" /\ ~RecvOpen(n, over) => SendStarted(n, act, over)
      /\ n.proto = "put" /\ ~SendOpen(n, over) => RecvStarted(n, act, over)
  BY DEF Linked
<1>3. /\ SendStarted(n, act, over) => SendStarted(n, act2, over)
      /\ RecvStarted(n, act, over) => RecvStarted(n, act2, over)
  BY <1>1 DEF SendStarted, RecvStarted
<1> QED
  BY <1>2, <1>3

\* ... and those of an action that is over.
LEMMA ClearedLink ==
  ASSUME NEW act, NEW act2, NEW over, NEW over2, Linked(act, over), NEW a \in Actor, NEW id,
         act = [b \in Actor |-> act[b]], over = [b \in Actor |-> over[b]],
         act2 = [act EXCEPT ![a] = act[a] \ {id}],
         over2 = [over EXCEPT ![a] = over[a] \cup {id}],
         \A n : Known(n) =>
           /\ n.proto # "put" /\ Sink(n) = a /\ RecvId(n) = id => SendStarted(n, act, over)
           /\ n.proto = "put" /\ Source(n) = a /\ SendId(n) = id => RecvStarted(n, act, over)
  PROVE  Linked(act2, over2)
<1> SUFFICES ASSUME NEW n, Known(n)
             PROVE  /\ n.proto # "put" /\ ~RecvOpen(n, over2) => SendStarted(n, act2, over2)
                    /\ n.proto = "put" /\ ~SendOpen(n, over2) => RecvStarted(n, act2, over2)
  BY DEF Linked
<1>1. Source(n) \in Actor /\ Sink(n) \in Actor
  BY DEF Known
<1>2. /\ n.proto # "put" /\ ~RecvOpen(n, over) => SendStarted(n, act, over)
      /\ n.proto = "put" /\ ~SendOpen(n, over) => RecvStarted(n, act, over)
  BY DEF Linked
<1>3. /\ SendStarted(n, act, over) => SendStarted(n, act2, over2)
      /\ RecvStarted(n, act, over) => RecvStarted(n, act2, over2)
  BY <1>1 DEF SendStarted, RecvStarted
<1>4. /\ ~RecvOpen(n, over2) => ~RecvOpen(n, over) \/ (Sink(n) = a /\ RecvId(n) = id)
      /\ ~SendOpen(n, over2) => ~SendOpen(n, over) \/ (Source(n) = a /\ SendId(n) = id)
  BY <1>1 DEF RecvOpen, SendOpen
<1> QED
  BY <1>2, <1>3, <1>4

\* ... when the message that says so was the last that waited for it.
LEMMA AckTaken ==
  ASSUME job \in Jobs, NEW M, NEW act, NEW over, FlowsOK(M, act, over),
         NEW m \in M, IsAck(m), NEW n \in M \ {m}
  PROVE  /\ Source(n) = Source(m) /\ SendId(n) = SendId(m) => ~IsAck(n) /\ ~Unacked(n)
         /\ ~(Sink(n) = Source(m) /\ RecvId(n) = SendId(m))
<1>1. Known(m) /\ Known(n)
  BY DEF FlowsOK
<1>2. /\ Source(n) = Source(m) /\ SendId(n) = SendId(m) => Flow(n) = Flow(m)
      /\ ~(Sink(n) = Source(m) /\ RecvId(n) = SendId(m))
  BY <1>1, SameFlow
<1> QED
  BY <1>2 DEF FlowsOK

\* ... for a receive.
LEMMA DataTaken ==
  ASSUME job \in Jobs, NEW M, NEW act, NEW over, FlowsOK(M, act, over),
         NEW m \in M, ~IsAck(m), NEW n \in M \ {m}
  PROVE  /\ Sink(n) = Sink(m) /\ RecvId(n) = RecvId(m) => IsAck(n)
         /\ ~(Source(n) = Sink(m) /\ SendId(n) = RecvId(m))
<1>1. Known(m) /\ Known(n)
  BY DEF FlowsOK
<1>2. /\ Sink(n) = Sink(m) /\ RecvId(n) = RecvId(m) => Flow(n) = Flow(m)
      /\ ~(Source(n) = Sink(m) /\ SendId(n) = RecvId(m))
  BY <1>1, SameFlow
<1> QED
  BY <1>2 DEF FlowsOK

\* The first message of a flow.
LEMMA FlowOfAction ==
  ASSUME job \in Jobs, NEW a \in Actor, NEW ac \in Actions(a), NEW n,
         ac.type \in {SEND, RECV}, protocolForAction(ac) = n.proto, n.round = ac.round,
         n = Msg(n.type, n.proto, n.at, n.tag, n.from, n.to, n.round, n.data),
         \/ ac.type = SEND /\ Source(n) = a /\ Sink(n) = <<a[1], ac.partner>>
         \/ ac.type = RECV /\ Sink(n) = a /\ Source(n) = <<a[1], ac.partner>>
  PROVE  /\ Known(n)
         /\ ac.type = SEND => SendId(n) = ac.id
         /\ ac.type = RECV => RecvId(n) = ac.id
<1>1. /\ CallOf(a) \in Call /\ a[2] \in Rank /\ a = <<a[1], a[2]>>
      /\ a[1] \in 1 .. Len(job)
  BY ActorParts
<1>2. /\ ac.id = messageId(ac.type, ac.round, ac.partner)
      /\ ac.partner \in Rank
      /\ \E other \in CallOf(a).dag[ac.partner] : Matches(ac, a[2], other, ac.partner)
  BY <1>1, MatchAssumption DEF Actions
<1>3. PICK b : b = <<a[1], ac.partner>>
  OBVIOUS
<1>4. b \in Actor /\ b[2] = ac.partner /\ CallOf(b) = CallOf(a)
  BY <1>1, <1>2, <1>3 DEF Actor, CallOf
<1>5. PICK other \in Actions(b) : Matches(ac, a[2], other, ac.partner)
  BY <1>2, <1>4 DEF Actions
<1>6. /\ other.type \in {SEND, RECV} /\ other.type # ac.type
      /\ other.round = ac.round /\ other.nelems = ac.nelems /\ other.partner = a[2]
  BY <1>5 DEF Matches, SEND, RECV
<1>7. other.id = messageId(other.type, other.round, other.partner)
  <2>1. CallOf(b) \in Call /\ b[2] \in Rank
    BY <1>1, <1>2, <1>4
  <2> QED
    BY <1>6, <2>1, MatchAssumption DEF Actions
<1>8. protocolForAction(other) = protocolForAction(ac)
  BY <1>6 DEF protocolForAction
<1>9. CASE ac.type = SEND
  <2>1. /\ Source(n) = a /\ Sink(n) = b
    BY <1>3, <1>9 DEF SEND, RECV
  <2>2. EndOf(ac, SEND, n, Sink(n)[2])
    BY <1>2, <1>4, <1>9, <2>1 DEF EndOf
  <2>3. EndOf(other, RECV, n, Source(n)[2])
    BY <1>6, <1>7, <1>8, <1>9, <2>1 DEF EndOf
  <2>4. Known(n)
    BY <1>4, <1>5, <2>1, <2>2, <2>3 DEF Known
  <2> QED
    BY <1>9, <2>2, <2>4 DEF EndOf, SendId, SEND, RECV
<1>10. CASE ac.type = RECV
  <2>1. /\ Sink(n) = a /\ Source(n) = b
    BY <1>3, <1>10 DEF SEND, RECV
  <2>2. EndOf(ac, RECV, n, Source(n)[2])
    BY <1>2, <1>4, <1>10, <2>1 DEF EndOf
  <2>3. EndOf(other, SEND, n, Sink(n)[2])
    BY <1>6, <1>7, <1>8, <1>10, <2>1 DEF EndOf
  <2>4. Known(n)
    BY <1>4, <1>5, <2>1, <2>2, <2>3 DEF Known
  <2> QED
    BY <1>10, <2>2, <2>4 DEF EndOf, RecvId, SEND, RECV
<1> QED
  BY <1>9, <1>10

(***************************************************************************)
(* Places                                                                  *)
(***************************************************************************)

\* Messages leave the places gone and come to the places new, each from
\* one of those or for the first time.
LEMMA SpotsMove ==
  ASSUME NEW S, NEW S2, NEW gone, NEW new, SpotsOK(S), gone \subseteq S,
         \A y \in S2 : (y \in S /\ y \notin gone) \/ y \in new,
         \A y \in new : y[4] \in Contents(gone) \/ y[4] \notin Contents(S),
         \A y, z \in new : y[4] = z[4] => y = z,
         \A y \in new : y[1] # "net" => y[2] = Target(y[4]) /\ y[4].at = "cq"
  PROVE  /\ SpotsOK(S2)
         /\ Contents(S2) \subseteq (Contents(S) \ Contents(gone)) \cup Contents(new)
<1>1. ASSUME NEW y \in S2, y \in S, y \notin gone
      PROVE  y[4] \notin Contents(gone)
  BY <1>1 DEF SpotsOK, Contents
<1>2. Contents(S2) \subseteq (Contents(S) \ Contents(gone)) \cup Contents(new)
  BY <1>1 DEF Contents
<1>3. ASSUME NEW y \in S2, NEW z \in S2, y[4] = z[4]
      PROVE  y = z
  <2>1. CASE y \in S /\ y \notin gone
    <3>1. y[4] \notin Contents(gone) /\ y[4] \in Contents(S)
      BY <1>1, <2>1 DEF Contents
    <3> QED
      BY <1>3, <2>1, <3>1 DEF SpotsOK
  <2>2. CASE y \in new
    <3>1. z \in new
      BY <1>1, <1>3, <2>2 DEF Contents
    <3> QED
      BY <1>3, <2>2, <3>1
  <2> QED
    BY <2>1, <2>2
<1> QED
  BY <1>2, <1>3 DEF SpotsOK

\* The members of the places,
LEMMA InPlace ==
  ASSUME NEW place, NEW owner, NEW h, NEW msgs
  PROVE  /\ \A m \in msgs : <<place, owner, h, m>> \in In(place, owner, h, msgs)
         /\ \A y \in In(place, owner, h, msgs) :
              y[1] = place /\ y[2] = owner /\ y[3] = h /\ y[4] \in msgs /\ y = <<place, owner, h, y[4]>>
BY DEF In

\* ... of the boxes,
LEMMA InBox ==
  ASSUME NEW place, NEW box
  PROVE  /\ \A a \in Actor : \A m \in box[a] : <<place, a, 0, m>> \in Boxed(place, box)
         /\ \A y \in Boxed(place, box) :
              /\ y[1] = place /\ y[2] \in Actor /\ y[4] \in box[y[2]]
              /\ y = <<place, y[2], 0, y[4]>>
<1>1. ASSUME NEW a \in Actor, NEW m \in box[a]
      PROVE  <<place, a, 0, m>> \in Boxed(place, box)
  <2>1. <<place, a, 0, m>> \in In(place, a, 0, box[a])
    BY InPlace
  <2> QED
    BY <2>1 DEF Boxed
<1>2. ASSUME NEW y \in Boxed(place, box)
      PROVE  /\ y[1] = place /\ y[2] \in Actor /\ y[4] \in box[y[2]]
             /\ y = <<place, y[2], 0, y[4]>>
  <2>1. PICK a \in Actor : y \in In(place, a, 0, box[a])
    BY DEF Boxed
  <2>2. y[1] = place /\ y[2] = a /\ y[4] \in box[a] /\ y = <<place, a, 0, y[4]>>
    BY <2>1, InPlace
  <2> QED
    BY <2>2
<1> QED
  BY <1>1, <1>2

\* ... and of the frames of a stack.
LEMMA InStack ==
  ASSUME NEW s
  PROVE  \A y : y \in InFrames(s) <=>
           \E h \in 1 .. Len(s) : y \in In("frame", AtHeight(s, h).actor, h, AtHeight(s, h).msgs)
BY DEF InFrames

\* A stack is the one below its top, with the messages of the top frame.
LEMMA PushedFrames ==
  ASSUME NEW S, NEW s \in Seq(S), NEW f
  PROVE  /\ Len(<<f>> \o s) = Len(s) + 1
         /\ \A y : y \in InFrames(<<f>> \o s) <=>
              y \in InFrames(s) \/ y \in In("frame", f.actor, Len(s) + 1, f.msgs)
<1>1. PICK t : t = <<f>> \o s
  OBVIOUS
<1>2. Len(s) \in Nat /\ Len(t) = Len(s) + 1 /\ t[1] = f
      /\ \A i \in 1 .. Len(s) : t[i + 1] = s[i]
  <2>1. s \in Seq(S \cup {f}) /\ <<f>> \in Seq(S \cup {f})
    OBVIOUS
  <2> QED
    BY <1>1, <2>1
<1>3. /\ AtHeight(t, Len(t)) = f
      /\ \A h \in 1 .. Len(s) : AtHeight(t, h) = AtHeight(s, h)
  <2>1. Len(t) + 1 - Len(t) = 1
    BY <1>2
  <2>2. ASSUME NEW h \in 1 .. Len(s)
        PROVE  t[Len(t) + 1 - h] = s[Len(s) + 1 - h]
    <3>1. Len(s) + 1 - h \in 1 .. Len(s) /\ Len(t) + 1 - h = (Len(s) + 1 - h) + 1
      BY <1>2
    <3> QED
      BY <1>2, <3>1
  <2> QED
    BY <1>2, <2>1, <2>2 DEF AtHeight
<1>4. 1 .. Len(t) = (1 .. Len(s)) \cup {Len(t)}
  BY <1>2
<1>5. ASSUME NEW y
      PROVE  y \in InFrames(t) <=>
               y \in InFrames(s) \/ y \in In("frame", f.actor, Len(s) + 1, f.msgs)
  <2>1. y \in InFrames(t) <=>
          \E h \in 1 .. Len(t) : y \in In("frame", AtHeight(t, h).actor, h, AtHeight(t, h).msgs)
    BY InStack
  <2>2. y \in InFrames(s) <=>
          \E h \in 1 .. Len(s) : y \in In("frame", AtHeight(s, h).actor, h, AtHeight(s, h).msgs)
    BY InStack
  <2> QED
    BY <1>2, <1>3, <1>4, <2>1, <2>2
<1> QED
  BY <1>1, <1>2, <1>5

\* The frames below the top, and the top.
LEMMA TailFrames ==
  ASSUME NEW S, NEW s \in Seq(S), s # <<>>
  PROVE  /\ Len(Tail(s)) + 1 = Len(s) /\ Tail(s) \in Seq(S)
         /\ \A y : y \in InFrames(s) <=>
              y \in InFrames(Tail(s)) \/ y \in In("frame", Head(s).actor, Len(s), Head(s).msgs)
         /\ \A y \in InFrames(Tail(s)) : y[3] # Len(s)
<1>1. s = <<Head(s)>> \o Tail(s) /\ Tail(s) \in Seq(S) /\ Len(Tail(s)) \in Nat
  OBVIOUS
<1>2. PICK f, t : f = Head(s) /\ t = Tail(s)
  OBVIOUS
<1>3. /\ Len(s) = Len(t) + 1
      /\ \A y : y \in InFrames(s) <=>
           y \in InFrames(t) \/ y \in In("frame", f.actor, Len(t) + 1, f.msgs)
  BY <1>1, <1>2, PushedFrames
<1>4. ASSUME NEW y \in InFrames(t)
      PROVE  y[3] # Len(s)
  <2>1. PICK h \in 1 .. Len(t) : y \in In("frame", AtHeight(t, h).actor, h, AtHeight(t, h).msgs)
    BY InStack
  <2>2. y[3] = h
    BY <2>1, InPlace
  <2>3. Len(t) \in Nat /\ Len(s) = Len(t) + 1
    BY <1>1, <1>2, <1>3
  <2>4. h # Len(s)
    BY <2>3
  <2> QED
    BY <2>2, <2>4
<1> QED
  BY <1>1, <1>2, <1>3, <1>4

\* The frames of a stack are those of its rank.
LEMMA FrameOwner ==
  ASSUME NEW s, NEW r, NEW actors, NEW over, Stacked(s, r, actors, over),
         NEW y \in InFrames(s)
  PROVE  y[1] = "frame" /\ y[2] \in actors /\ y[2][2] = r
<1>1. PICK S : s \in Seq(S) /\ \A f \in S : FrameOK(f, r, actors, over)
  BY DEF Stacked
<1>2. PICK h \in 1 .. Len(s) : y \in In("frame", AtHeight(s, h).actor, h, AtHeight(s, h).msgs)
  BY InStack
<1>3. AtHeight(s, h) \in S
  <2>1. Len(s) + 1 - h \in 1 .. Len(s)
    BY <1>1
  <2> QED
    BY <1>1, <2>1 DEF AtHeight
<1> QED
  BY <1>1, <1>2, <1>3, InPlace DEF FrameOK

\* The places after a change of the stack of one rank.
LEMMA FramedStep ==
  ASSUME StackInv, NEW r \in Rank, NEW s, NEW st, st = [stack EXCEPT ![r] = s]
  PROVE  /\ \A y \in Framed(st) : y \in InFrames(s) \/ (y \in Framed(stack) /\ y \notin InFrames(stack[r]))
         /\ InFrames(stack[r]) \subseteq Framed(stack)
<1>1. ASSUME NEW y \in Framed(st), y \notin InFrames(s)
      PROVE  y \in Framed(stack) /\ y \notin InFrames(stack[r])
  <2>1. PICK q \in Rank : y \in InFrames(st[q])
    BY DEF Framed
  <2>2. q # r /\ st[q] = stack[q]
    BY <1>1, <2>1 DEF StackInv
  <2>3. y \in Framed(stack)
    BY <2>1, <2>2 DEF Framed
  <2>4. y[2][2] = q
    BY <2>1, <2>2, FrameOwner DEF StackInv
  <2>5. y \in InFrames(stack[r]) => y[2][2] = r
    BY FrameOwner DEF StackInv
  <2> QED
    BY <2>2, <2>3, <2>4, <2>5
<1> QED
  BY <1>1 DEF Framed

\* ... and of the box of one actor.
LEMMA BoxedStep ==
  ASSUME NEW place, NEW box, NEW box2, NEW a \in Actor, NEW T,
         box = [b \in Actor |-> box[b]], box2 = [box EXCEPT ![a] = T]
  PROVE  \A y \in Boxed(place, box2) : y \in In(place, a, 0, T) \/ (y \in Boxed(place, box) /\ y[2] # a)
<1> SUFFICES ASSUME NEW y \in Boxed(place, box2)
             PROVE  y \in In(place, a, 0, T) \/ (y \in Boxed(place, box) /\ y[2] # a)
  OBVIOUS
<1>1. /\ y[2] \in Actor /\ y[4] \in box2[y[2]] /\ y = <<place, y[2], 0, y[4]>>
  BY InBox
<1>2. CASE y[2] = a
  <2>1. y[4] \in T
    BY <1>1, <1>2
  <2>2. <<place, a, 0, y[4]>> \in In(place, a, 0, T)
    BY <2>1, InPlace
  <2> QED
    BY <1>1, <1>2, <2>2
<1>3. CASE y[2] # a
  <2>1. y[4] \in box[y[2]]
    BY <1>1, <1>3
  <2> QED
    BY <1>1, <1>3, <2>1, InBox
<1> QED
  BY <1>2, <1>3

\* Places are told apart by their names.
LEMMA SpotNames ==
  ASSUME NEW n, NEW e, NEW s, NEW v, NEW st, NEW y
  PROVE  /\ y \in Spotted(n, e, s, v, st) <=>
              \/ y \in In("net", 0, 0, n) \/ y \in Boxed("early", e) \/ y \in Boxed("send", s)
              \/ y \in Boxed("recv", v) \/ y \in Framed(st)
         /\ y \in In("net", 0, 0, n) => y[1] = "net"
         /\ y \in Boxed("early", e) => y[1] = "early"
         /\ y \in Boxed("send", s) => y[1] = "send"
         /\ y \in Boxed("recv", v) => y[1] = "recv"
         /\ y \in Framed(st) => y[1] = "frame"
<1>1. y \in Framed(st) => y[1] = "frame"
  <2> SUFFICES ASSUME y \in Framed(st)
               PROVE  y[1] = "frame"
    OBVIOUS
  <2>1. PICK r \in Rank : y \in InFrames(st[r])
    BY DEF Framed
  <2>2. PICK h \in 1 .. Len(st[r]) :
          y \in In("frame", AtHeight(st[r], h).actor, h, AtHeight(st[r], h).msgs)
    BY <2>1, InStack
  <2> QED
    BY <2>2, InPlace
<1>2. y \in In("net", 0, 0, n) => y[1] = "net"
  BY InPlace
<1>3. /\ y \in Boxed("early", e) => y[1] = "early"
      /\ y \in Boxed("send", s) => y[1] = "send"
      /\ y \in Boxed("recv", v) => y[1] = "recv"
  BY InBox
<1> QED
  BY <1>1, <1>2, <1>3 DEF Spotted

\* The places in the next state.
LEMMA NextSpots ==
  ASSUME job' = job
  PROVE  /\ Actor' = Actor
         /\ Spots' = Spotted(net', early', sendHeaders', recvHeaders', stack')
         /\ \A m : Known(m)' <=> Known(m)
         /\ FlowsOK(Contents(Spots), active, completed)' <=>
              FlowsOK(Contents(Spots'), active', completed')
<1>1. Actor' = Actor /\ \A b : Actions(b)' = Actions(b)
  BY DEF Actor, Actions, CallOf
<1>2. ASSUME NEW m
      PROVE  Known(m)' <=> Known(m)
  BY <1>1 DEF Known
<1>3. Spots' = Spotted(net', early', sendHeaders', recvHeaders', stack')
  BY <1>1 DEF Spots, Spotted, Boxed, Framed
<1>4. FlowsOK(Contents(Spots), active, completed)' <=>
        FlowsOK(Contents(Spots'), active', completed')
  BY <1>2 DEF FlowsOK
<1> QED
  BY <1>1, <1>2, <1>3, <1>4

\* The parts of a step.
LEMMA MessageStep ==
  ASSUME job' = job, BoxInv', PhaseInv', SpotsOK(Spots'),
         FlowsOK(Contents(Spots'), active', completed'), Linked(active', completed'),
         aborted' = "no"
  PROVE  MessageInv'
<1>1. Linked(active, completed)'
  BY NextSpots DEF Linked
<1> QED
  BY <1>1, NextSpots DEF MessageInv, NoProtocolAbort

\* What happens to the places: to the network, to the boxes, and to the stack
\* of one rank.
LEMMA SpotsNow ==
  ASSUME IInv, job' = job, NEW r \in Rank, NEW s, stack' = [stack EXCEPT ![r] = s],
         NEW gone, NEW new,
         \A y \in gone : y[1] = "frame" => y \in InFrames(stack[r]),
         \A y \in InFrames(s) : (y \in InFrames(stack[r]) /\ y \notin gone) \/ y \in new,
         \A y \in In("net", 0, 0, net') : (y \in In("net", 0, 0, net) /\ y \notin gone) \/ y \in new,
         \A y \in Boxed("early", early') : (y \in Boxed("early", early) /\ y \notin gone) \/ y \in new,
         \A y \in Boxed("send", sendHeaders') : (y \in Boxed("send", sendHeaders) /\ y \notin gone) \/ y \in new,
         \A y \in Boxed("recv", recvHeaders') : (y \in Boxed("recv", recvHeaders) /\ y \notin gone) \/ y \in new
  PROVE  \A y \in Spots' : (y \in Spots /\ y \notin gone) \/ y \in new
<1> SUFFICES ASSUME NEW y \in Spots', y \notin new
             PROVE  y \in Spots /\ y \notin gone
  OBVIOUS
<1>1. y \in Spotted(net', early', sendHeaders', recvHeaders', stack')
  BY NextSpots
<1>2. \/ y \in In("net", 0, 0, net') \/ y \in Boxed("early", early') \/ y \in Boxed("send", sendHeaders')
      \/ y \in Boxed("recv", recvHeaders') \/ y \in Framed(stack')
  BY <1>1, SpotNames
<1>3. CASE y \in Framed(stack')
  <2>1. /\ y \in InFrames(s) \/ (y \in Framed(stack) /\ y \notin InFrames(stack[r]))
        /\ InFrames(stack[r]) \subseteq Framed(stack)
    BY <1>3, FramedStep DEF IInv
  <2>2. y \in Framed(stack) /\ y \notin gone
    BY <2>1, SpotNames
  <2> QED
    BY <2>2, SpotNames DEF Spots
<1>4. CASE y \notin Framed(stack')
  <2>1. /\ y \notin gone
        /\ \/ y \in In("net", 0, 0, net) \/ y \in Boxed("early", early)
           \/ y \in Boxed("send", sendHeaders) \/ y \in Boxed("recv", recvHeaders)
    BY <1>2, <1>4
  <2> QED
    BY <2>1, SpotNames DEF Spots
<1> QED
  BY <1>3, <1>4

\* The phases when an action starts.
LEMMA PhaseStart ==
  ASSUME StateInv, PhaseInv, NEW a \in Actor, NEW id, NEW I, NEW P, job' = job,
         initial' = [initial EXCEPT ![a] = I], pending' = [pending EXCEPT ![a] = P],
         I \subseteq initial[a], P \subseteq pending[a], id \notin I, id \notin {p[2] : p \in P},
         id \notin active[a] \cup completed[a],
         Cleared(a, id) \/ Activated(a, id)
  PROVE  PhaseInv'
<1>1. Actor' = Actor
  BY DEF Actor
<1> SUFFICES ASSUME NEW b \in Actor
             PROVE  /\ initial'[b] \cap (active'[b] \cup completed'[b]) = {}
                    /\ {p[2] : p \in pending'[b]} \cap (initial'[b] \cup active'[b] \cup completed'[b]) = {}
                    /\ active'[b] \cap completed'[b] = {}
  BY <1>1 DEF PhaseInv, Waiting
<1>2. /\ initial[b] \cap (active[b] \cup completed[b]) = {}
      /\ {p[2] : p \in pending[b]} \cap (initial[b] \cup active[b] \cup completed[b]) = {}
      /\ active[b] \cap completed[b] = {}
  BY DEF PhaseInv, Waiting
<1>3. CASE b # a
  <2>1. /\ initial'[b] = initial[b] /\ pending'[b] = pending[b]
        /\ active'[b] = active[b] /\ completed'[b] = completed[b]
    BY <1>3 DEF StateInv, Cleared, Activated
  <2> QED
    BY <1>2, <2>1
<1>4. CASE b = a
  <2>1. initial'[b] = I /\ pending'[b] = P
    BY <1>4 DEF StateInv
  <2>2. active'[b] \cup completed'[b] \subseteq active[b] \cup completed[b] \cup {id}
    BY <1>4 DEF StateInv, Cleared, Activated
  <2>3. active'[b] \cap completed'[b] = {}
    BY <1>2, <1>4 DEF StateInv, Cleared, Activated
  <2>4. {p[2] : p \in P} \subseteq {p[2] : p \in pending[b]}
    BY <1>4
  <2> QED
    BY <1>2, <1>4, <2>1, <2>2, <2>3, <2>4
<1> QED
  BY <1>3, <1>4

\* ... and of one that is over.
LEMMA PhaseClear ==
  ASSUME StateInv, PhaseInv, NEW a \in Actor, NEW id \in active[a], job' = job,
         UNCHANGED <<initial, pending>>, Cleared(a, id)
  PROVE  PhaseInv'
<1>1. Actor' = Actor
  BY DEF Actor
<1> SUFFICES ASSUME NEW b \in Actor
             PROVE  /\ initial'[b] \cap (active'[b] \cup completed'[b]) = {}
                    /\ {p[2] : p \in pending'[b]} \cap (initial'[b] \cup active'[b] \cup completed'[b]) = {}
                    /\ active'[b] \cap completed'[b] = {}
  BY <1>1 DEF PhaseInv, Waiting
<1>2. /\ initial[b] \cap (active[b] \cup completed[b]) = {}
      /\ {p[2] : p \in pending[b]} \cap (initial[b] \cup active[b] \cup completed[b]) = {}
      /\ active[b] \cap completed[b] = {}
  BY DEF PhaseInv, Waiting
<1>3. active'[b] \cup completed'[b] \subseteq active[b] \cup completed[b]
  BY DEF StateInv, Cleared
<1>4. active'[b] \cap completed'[b] = {}
  BY <1>2 DEF StateInv, Cleared
<1> QED
  BY <1>2, <1>3, <1>4

\* clearAction adds no message.
LEMMA ClearSpots ==
  ASSUME IInv, BoxInv, job' = job, NEW a \in Actor, NEW id, NEW buffer,
         NEW S, NEW frames \in Seq(S), clearAction(a, id, buffer, frames),
         UNCHANGED <<headerVars, net>>, NEW gone, gone \subseteq InFrames(stack[a[2]]),
         \A y \in InFrames(frames) : y \in InFrames(stack[a[2]]) /\ y \notin gone
  PROVE  BoxInv' /\ \A y \in Spots' : y \in Spots /\ y \notin gone
<1>1. a[2] \in Rank
  BY ActorParts DEF IInv, DagInv, StateInv
<1>2. PICK s : s = IF Successors(pending', a, id) = {} THEN frames
                   ELSE <<DepsFrame(a, id)>> \o frames
  OBVIOUS
<1>3. stack' = [stack EXCEPT ![a[2]] = s]
  BY <1>2 DEF clearAction, SetStack
<1>4. \A y \in InFrames(s) : y \in InFrames(frames)
  <2>1. CASE s = frames
    BY <2>1
  <2>2. CASE s = <<DepsFrame(a, id)>> \o frames
    <3>1. PICK f : f = DepsFrame(a, id)
      OBVIOUS
    <3>2. f.msgs = {}
      BY <3>1 DEF DepsFrame, Frame
    <3>3. \A y : y \notin In("frame", f.actor, Len(frames) + 1, f.msgs)
      BY <3>2, InPlace
    <3> QED
      BY <2>2, <3>1, <3>3, PushedFrames
  <2> QED
    BY <1>2, <2>1, <2>2
<1>5. early' = early \/ early' = [early EXCEPT ![a] = {}]
  BY DEF clearAction, Finish
<1>6. BoxInv'
  <2>1. Actor' = Actor
    BY DEF Actor
  <2> QED
    BY <1>5, <2>1 DEF BoxInv, headerVars
<1>7. \A y \in gone : y[1] = "frame"
  BY <1>1, FrameOwner DEF IInv, StackInv
<1>8. \A y \in Boxed("early", early') : y \in Boxed("early", early)
  <2>1. CASE early' = early
    BY <2>1
  <2>2. CASE early' = [early EXCEPT ![a] = {}]
    <3>1. \A y : y \notin In("early", a, 0, {})
      BY InPlace
    <3> QED
      BY <2>2, <3>1, BoxedStep DEF BoxInv
  <2> QED
    BY <1>5, <2>1, <2>2
<1>9. UNCHANGED <<sendHeaders, recvHeaders, net>>
  BY DEF headerVars
<1>10. \A y \in Spots' : (y \in Spots /\ y \notin gone) \/ y \in {}
  <2>1. \A y \in gone : y[1] = "frame" => y \in InFrames(stack[a[2]])
    OBVIOUS
  <2>2. \A y \in InFrames(s) : (y \in InFrames(stack[a[2]]) /\ y \notin gone) \/ y \in {}
    BY <1>4
  <2>3. \A y \in In("net", 0, 0, net') : (y \in In("net", 0, 0, net) /\ y \notin gone) \/ y \in {}
    BY <1>7, <1>9, InPlace
  <2>4. \A y \in Boxed("early", early') : (y \in Boxed("early", early) /\ y \notin gone) \/ y \in {}
    BY <1>7, <1>8, InBox
  <2>5. /\ \A y \in Boxed("send", sendHeaders') : (y \in Boxed("send", sendHeaders) /\ y \notin gone) \/ y \in {}
        /\ \A y \in Boxed("recv", recvHeaders') : (y \in Boxed("recv", recvHeaders) /\ y \notin gone) \/ y \in {}
    BY <1>7, <1>9, InBox
  <2> QED
    BY <1>1, <1>3, <2>1, <2>2, <2>3, <2>4, <2>5, SpotsNow
<1> QED
  BY <1>6, <1>10

\* What is in a place,
LEMMA ContentsIn ==
  ASSUME NEW place, NEW owner, NEW h, NEW msgs
  PROVE  Contents(In(place, owner, h, msgs)) = msgs
<1>1. ASSUME NEW m \in msgs
      PROVE  m \in Contents(In(place, owner, h, msgs))
  <2>1. PICK x : x = <<place, owner, h, m>>
    OBVIOUS
  <2>2. x \in In(place, owner, h, msgs) /\ x[4] = m
    BY <2>1, InPlace
  <2> QED
    BY <2>2 DEF Contents
<1>2. ASSUME NEW m \in Contents(In(place, owner, h, msgs))
      PROVE  m \in msgs
  BY <1>2, InPlace DEF Contents
<1> QED
  BY <1>1, <1>2

\* ... and in two.
LEMMA ContentsCup ==
  ASSUME NEW S, NEW T
  PROVE  Contents(S \cup T) = Contents(S) \cup Contents(T)
BY DEF Contents

\* Messages put on top of a stack.
LEMMA PushRecvFrames ==
  ASSUME NEW S, NEW frames \in Seq(S), NEW a, NEW msgs
  PROVE  \A y \in InFrames(PushRecv(a, msgs, frames)) :
           y \in InFrames(frames) \/ y \in In("frame", a, Len(frames) + 1, msgs)
<1>1. PICK f, s : f = RecvFrame(a, msgs) /\ s = PushRecv(a, msgs, frames)
  OBVIOUS
<1>2. f.msgs = msgs /\ f.actor = a
  BY <1>1 DEF RecvFrame, Frame
<1>3. CASE s = frames
  BY <1>1, <1>3
<1>4. CASE s = <<f>> \o frames
  BY <1>1, <1>2, <1>4, PushedFrames
<1> QED
  BY <1>1, <1>3, <1>4 DEF PushRecv

\* A message that is put into a box.
LEMMA BoxedMore ==
  ASSUME NEW place, NEW box, NEW box2, NEW a \in Actor, NEW m,
         box = [b \in Actor |-> box[b]], box2 = [box EXCEPT ![a] = box[a] \cup {m}]
  PROVE  \A y \in Boxed(place, box2) : y \in Boxed(place, box) \/ y \in In(place, a, 0, {m})
<1> SUFFICES ASSUME NEW y \in Boxed(place, box2)
             PROVE  y \in Boxed(place, box) \/ y \in In(place, a, 0, {m})
  OBVIOUS
<1>1. PICK T : T = box[a] \cup {m} /\ box2 = [box EXCEPT ![a] = T]
  OBVIOUS
<1>2. y \in In(place, a, 0, T) \/ y \in Boxed(place, box)
  BY <1>1, BoxedStep
<1>3. CASE y \in In(place, a, 0, T)
  <2>1. y[4] \in T /\ y = <<place, a, 0, y[4]>>
    BY <1>3, InPlace
  <2>2. CASE y[4] \in box[a]
    BY <2>1, <2>2, InBox
  <2>3. CASE y[4] = m
    BY <2>1, <2>3, InPlace
  <2> QED
    BY <1>1, <2>1, <2>2, <2>3
<1> QED
  BY <1>2, <1>3

(***************************************************************************)
(* Actions that start                                                      *)
(***************************************************************************)

\* The first message of the flow of an action: of a send that is eager or
\* got, of a receive that is put.
FirstOfFlow(n, a, ac) ==
  /\ ac.type \in {SEND, RECV} /\ protocolForAction(ac) = n.proto /\ n.round = ac.round
  /\ n = Msg(n.type, n.proto, n.at, n.tag, n.from, n.to, n.round, n.data)
  /\ n.type = "smsg_send"
  /\ \/ /\ ac.type = SEND /\ Source(n) = a /\ Sink(n) = <<a[1], ac.partner>>
        /\ <<n.proto, n.at>> \in {<<"eager", "nic">>, <<"get", "cq">>}
     \/ /\ ac.type = RECV /\ Sink(n) = a /\ Source(n) = <<a[1], ac.partner>>
        /\ n.proto = "put" /\ n.at = "cq"

\* doSend sends at most that message,
LEMMA SendsFirst ==
  ASSUME IInv, NEW a \in Actor, NEW ac, ac.type = SEND
  PROVE  doSend(a, ac) = {} \/ \E n : doSend(a, ac) = {n} /\ FirstOfFlow(n, a, ac)
<1>0. a = <<a[1], a[2]>>
  BY ActorParts DEF IInv, DagInv, StateInv
<1>1. CASE protocolForAction(ac) = "eager"
  <2>1. PICK n : n = Msg("smsg_send", "eager", "nic", a[1], a[2], ac.partner, ac.round, NoData)
    OBVIOUS
  <2>2. doSend(a, ac) = {n}
    BY <1>1, <2>1 DEF doSend
  <2>3. /\ n.type = "smsg_send" /\ n.proto = "eager" /\ n.at = "nic" /\ n.tag = a[1]
        /\ n.from = a[2] /\ n.to = ac.partner /\ n.round = ac.round
        /\ n = Msg(n.type, n.proto, n.at, n.tag, n.from, n.to, n.round, n.data)
    BY <2>1 DEF Msg
  <2>4. Source(n) = a /\ Sink(n) = <<a[1], ac.partner>>
    BY <1>0, <2>3 DEF Source, Sink, IsPutHeader
  <2>5. FirstOfFlow(n, a, ac)
    BY <1>1, <2>3, <2>4 DEF FirstOfFlow
  <2> QED
    BY <2>2, <2>5
<1>2. CASE protocolForAction(ac) = "get"
  <2>1. PICK n : n = Msg("smsg_send", "get", "cq", a[1], a[2], ac.partner, ac.round, NoData)
    OBVIOUS
  <2>2. doSend(a, ac) = {n}
    BY <1>2, <2>1 DEF doSend
  <2>3. /\ n.type = "smsg_send" /\ n.proto = "get" /\ n.at = "cq" /\ n.tag = a[1]
        /\ n.from = a[2] /\ n.to = ac.partner /\ n.round = ac.round
        /\ n = Msg(n.type, n.proto, n.at, n.tag, n.from, n.to, n.round, n.data)
    BY <2>1 DEF Msg
  <2>4. Source(n) = a /\ Sink(n) = <<a[1], ac.partner>>
    BY <1>0, <2>3 DEF Source, Sink, IsPutHeader
  <2>5. FirstOfFlow(n, a, ac)
    BY <1>2, <2>3, <2>4 DEF FirstOfFlow
  <2> QED
    BY <2>2, <2>5
<1>3. CASE protocolForAction(ac) = "put"
  BY <1>3 DEF doSend
<1> QED
  BY <1>1, <1>2, <1>3 DEF protocolForAction

\* ... and so does doRecv.
LEMMA RecvsFirst ==
  ASSUME IInv, NEW a \in Actor, NEW ac, ac.type = RECV
  PROVE  doRecv(a, ac) = {} \/ \E n : doRecv(a, ac) = {n} /\ FirstOfFlow(n, a, ac)
<1>0. a = <<a[1], a[2]>>
  BY ActorParts DEF IInv, DagInv, StateInv
<1>1. CASE protocolForAction(ac) = "put"
  <2>1. PICK n : n = Msg("smsg_send", "put", "cq", a[1], a[2], ac.partner, ac.round, NoData)
    OBVIOUS
  <2>2. doRecv(a, ac) = {n}
    BY <1>1, <2>1 DEF doRecv
  <2>3. /\ n.type = "smsg_send" /\ n.proto = "put" /\ n.at = "cq" /\ n.tag = a[1]
        /\ n.from = a[2] /\ n.to = ac.partner /\ n.round = ac.round
        /\ n = Msg(n.type, n.proto, n.at, n.tag, n.from, n.to, n.round, n.data)
    BY <2>1 DEF Msg
  <2>4. Sink(n) = a /\ Source(n) = <<a[1], ac.partner>>
    BY <1>0, <2>3 DEF Source, Sink, IsPutHeader
  <2>5. FirstOfFlow(n, a, ac)
    BY <1>1, <2>3, <2>4 DEF FirstOfFlow
  <2> QED
    BY <2>2, <2>5
<1>2. CASE protocolForAction(ac) # "put"
  BY <1>2 DEF doRecv
<1> QED
  BY <1>1, <1>2

\* No message of the flow is around before its action starts.
LEMMA FreshFlow ==
  ASSUME job \in Jobs, NEW a \in Actor, NEW ac \in Actions(a),
         ac.id \notin active[a] \cup completed[a],
         NEW M, FlowsOK(M, active, completed), NEW n, FirstOfFlow(n, a, ac)
  PROVE  n \notin M /\ \A m \in M : Flow(m) # Flow(n)
<1>1. ASSUME NEW m \in M, Flow(m) = Flow(n)
      PROVE  FALSE
  <2>1. Known(m) /\ Stage(m, active, completed)
    BY DEF FlowsOK
  <2>2. /\ ac.type = SEND => SendId(n) = ac.id
        /\ ac.type = RECV => RecvId(n) = ac.id
    BY FlowOfAction DEF FirstOfFlow
  <2>3. Source(m) = Source(n) /\ Sink(m) = Sink(n) /\ m.round = n.round
    BY <1>1 DEF Flow
  <2>4. SendId(m) = SendId(n) /\ RecvId(m) = RecvId(n)
    BY <2>3 DEF SendId, RecvId
  <2>5. CASE ac.type = SEND
    <3>1. Source(m) = a /\ SendId(m) = ac.id /\ n.proto \in {"eager", "get"}
      BY <2>2, <2>3, <2>4, <2>5 DEF FirstOfFlow, SEND, RECV
    <3>2. PICK t \in Actions(a) : EndOf(t, SEND, m, Sink(m)[2])
      BY <2>1, <3>1 DEF Known
    <3>3. t = ac
      BY <3>1, <3>2, IdsUnique DEF EndOf, SendId
    <3>4. m.proto = n.proto
      BY <3>2, <3>3 DEF EndOf, FirstOfFlow
    <3>5. ~SendActive(m, active) /\ ~SendStarted(m, active, completed)
      BY <3>1 DEF SendActive, SendStarted
    <3> QED
      BY <2>1, <3>1, <3>4, <3>5 DEF Stage, AckStage, EagerStage, GetStage, PutStage
  <2>6. CASE ac.type = RECV
    <3>1. Sink(m) = a /\ RecvId(m) = ac.id /\ n.proto = "put"
      BY <2>2, <2>3, <2>4, <2>6 DEF FirstOfFlow, SEND, RECV
    <3>2. PICK t \in Actions(a) : EndOf(t, RECV, m, Source(m)[2])
      BY <2>1, <3>1 DEF Known
    <3>3. t = ac
      BY <3>1, <3>2, IdsUnique DEF EndOf, RecvId
    <3>4. m.proto = n.proto
      BY <3>2, <3>3 DEF EndOf, FirstOfFlow
    <3>5. ~RecvActive(m, active) /\ ~RecvStarted(m, active, completed)
      BY <3>1 DEF RecvActive, RecvStarted
    <3> QED
      BY <2>1, <3>1, <3>4, <3>5 DEF Stage, AckStage, EagerStage, GetStage, PutStage
  <2> QED
    BY <2>5, <2>6 DEF FirstOfFlow
<1> QED
  BY <1>1

\* The first message fits an action that has just started.
LEMMA FirstStage ==
  ASSUME IInv, MessageInv, NEW a \in Actor, NEW ac \in Actions(a), NEW n, FirstOfFlow(n, a, ac),
         ac.id \notin active[a] \cup completed[a],
         NEW act, act = [active EXCEPT ![a] = active[a] \cup {ac.id}]
  PROVE  Known(n) /\ ~IsAck(n) /\ Stage(n, act, completed)
<1>1. /\ Known(n)
      /\ ac.type = SEND => SendId(n) = ac.id
      /\ ac.type = RECV => RecvId(n) = ac.id
  BY FlowOfAction DEF FirstOfFlow, IInv, DagInv, StateInv
<1>2. ~IsAck(n)
  BY DEF FirstOfFlow, IsAck, NicAcks
<1>3. ac.id \in act[a]
  BY DEF IInv, DagInv, StateInv
<1>4. CASE ac.type = SEND
  <2>1. Source(n) = a /\ SendId(n) = ac.id
    BY <1>1, <1>4 DEF FirstOfFlow, SEND, RECV
  <2>2. SendActive(n, act) /\ SendStarted(n, act, completed)
    BY <1>3, <2>1 DEF SendActive, SendStarted
  <2>3. RecvOpen(n, completed)
    <3>1. n.proto # "put"
      BY <1>4 DEF FirstOfFlow, SEND, RECV
    <3>2. ~SendStarted(n, active, completed)
      BY <2>1 DEF SendStarted
    <3> QED
      BY <1>1, <3>1, <3>2 DEF MessageInv, Linked
  <2> QED
    BY <1>1, <1>2, <1>4, <2>2, <2>3 DEF FirstOfFlow, Stage, EagerStage, GetStage, SEND, RECV
<1>5. CASE ac.type = RECV
  <2>1. Sink(n) = a /\ RecvId(n) = ac.id
    BY <1>1, <1>5 DEF FirstOfFlow, SEND, RECV
  <2>2. RecvActive(n, act)
    BY <1>3, <2>1 DEF RecvActive
  <2>3. SendOpen(n, completed)
    <3>1. n.proto = "put"
      BY <1>5 DEF FirstOfFlow, SEND, RECV
    <3>2. ~RecvStarted(n, active, completed)
      BY <2>1 DEF RecvStarted
    <3> QED
      BY <1>1, <3>1, <3>2 DEF MessageInv, Linked
  <2> QED
    BY <1>1, <1>2, <1>5, <2>2, <2>3 DEF FirstOfFlow, Stage, PutStage, SEND, RECV
<1> QED
  BY <1>4, <1>5 DEF FirstOfFlow

\* startSend takes up the headers that came before it, and sends.
LEMMA StartSendMessages ==
  ASSUME IInv, MessageInv, PhaseInv', job' = job, aborted' = aborted,
         NEW a \in Actor, NEW ac \in Actions(a), ac.id \notin active[a] \cup completed[a],
         NEW S, NEW frames \in Seq(S), InFrames(frames) \subseteq InFrames(stack[a[2]]),
         startSend(a, ac, frames)
  PROVE  MessageInv'
<1>0. job \in Jobs /\ a[2] \in Rank /\ BoxInv /\ SpotsOK(Spots)
      /\ FlowsOK(Contents(Spots), active, completed)
  BY ActorParts DEF MessageInv, IInv, DagInv, StateInv
<1>1. PICK H : H = HeadersOf(sendHeaders, a, ac)
  OBVIOUS
<1>2. PICK s : s = PushRecv(a, H, frames)
  OBVIOUS
<1>3. PICK sent : sent = doSend(a, ac)
  OBVIOUS
<1>4. /\ ac.type = SEND
      /\ stack' = [stack EXCEPT ![a[2]] = s]
      /\ sendHeaders' = [sendHeaders EXCEPT ![a] = sendHeaders[a] \ H]
      /\ net' = net \cup sent
      /\ active' = [active EXCEPT ![a] = active[a] \cup {ac.id}]
      /\ UNCHANGED <<recvHeaders, completed, early>>
  BY <1>1, <1>2, <1>3 DEF startSend, HeadersExcept, SetStack
<1>5. H \subseteq sendHeaders[a]
  BY <1>1 DEF HeadersOf
<1>6. PICK gone : gone = In("send", a, 0, H)
  OBVIOUS
<1>7. PICK new : new = In("frame", a, Len(frames) + 1, H) \cup In("net", 0, 0, sent)
  OBVIOUS
<1>8. BoxInv'
  <2>1. Actor' = Actor
    BY DEF Actor
  <2> QED
    BY <1>0, <1>4, <2>1 DEF BoxInv
<1>9. \A y \in InFrames(s) : y \in InFrames(frames) \/ y \in In("frame", a, Len(frames) + 1, H)
  BY <1>2, PushRecvFrames
<1>10. \A y \in gone : y[1] = "send" /\ y[2] = a /\ y[4] \in H
  BY <1>6, InPlace
<1>11. \A y \in Spots' : (y \in Spots /\ y \notin gone) \/ y \in new
  <2>1. \A y \in gone : y[1] = "frame" => y \in InFrames(stack[a[2]])
    BY <1>10
  <2>2. \A y \in InFrames(s) : (y \in InFrames(stack[a[2]]) /\ y \notin gone) \/ y \in new
    <3>1. \A y \in InFrames(stack[a[2]]) : y[1] = "frame"
      BY <1>0, FrameOwner DEF IInv, StackInv
    <3> QED
      BY <1>7, <1>9, <1>10, <3>1
  <2>3. \A y \in In("net", 0, 0, net') : (y \in In("net", 0, 0, net) /\ y \notin gone) \/ y \in new
    BY <1>4, <1>7, <1>10, InPlace DEF In
  <2>4. \A y \in Boxed("early", early') : (y \in Boxed("early", early) /\ y \notin gone) \/ y \in new
    BY <1>4, <1>10, InBox
  <2>5. \A y \in Boxed("recv", recvHeaders') : (y \in Boxed("recv", recvHeaders) /\ y \notin gone) \/ y \in new
    BY <1>4, <1>10, InBox
  <2>6. ASSUME NEW y \in Boxed("send", sendHeaders')
        PROVE  y \in Boxed("send", sendHeaders) /\ y \notin gone
    <3>0. PICK T : T = sendHeaders[a] \ H
      OBVIOUS
    <3>1. \/ y \in In("send", a, 0, sendHeaders[a] \ H)
          \/ y \in Boxed("send", sendHeaders) /\ y[2] # a
      <4>1. sendHeaders = [b \in Actor |-> sendHeaders[b]] /\ sendHeaders' = [sendHeaders EXCEPT ![a] = T]
        BY <1>0, <1>4, <3>0 DEF BoxInv
      <4> QED
        BY <3>0, <4>1, BoxedStep
    <3>2. CASE y \in In("send", a, 0, sendHeaders[a] \ H)
      <4>1. y[4] \in sendHeaders[a] /\ y[4] \notin H /\ y = <<"send", a, 0, y[4]>>
        BY <3>2, InPlace
      <4> QED
        BY <1>10, <4>1, InBox
    <3> QED
      BY <1>10, <3>1, <3>2
  <2> QED
    BY <1>0, <1>4, <2>1, <2>2, <2>3, <2>4, <2>5, <2>6, SpotsNow
<1>12. gone \subseteq Spots /\ Contents(gone) = H
  <2>1. gone \subseteq Boxed("send", sendHeaders)
    BY <1>5, <1>6, InBox DEF In
  <2>2. Contents(gone) = H
    BY <1>6, ContentsIn
  <2> QED
    BY <2>1, <2>2, SpotNames DEF Spots
<1>13. H \subseteq Contents(Spots) /\ \A m \in H : Target(m) = a /\ m.at = "cq"
  <2>1. ASSUME NEW m \in H
        PROVE  Target(m) = a /\ m.at = "cq" /\ m \in Contents(Spots)
    <3>1. PICK x \in gone : x[4] = m
      BY <1>12 DEF Contents
    <3> QED
      BY <1>0, <1>10, <1>12, <3>1 DEF SpotsOK, Contents
  <2> QED
    BY <2>1
<1>14. Contents(new) = H \cup sent
  BY <1>7, ContentsIn, ContentsCup
<1>15. FlowsOK(Contents(Spots), active', completed)
  BY <1>0, <1>4, StartedFlow DEF IInv, DagInv, StateInv
<1>16. sent = {} \/ \E n : sent = {n} /\ FirstOfFlow(n, a, ac)
  BY <1>3, <1>4, SendsFirst DEF IInv
<1>17. \A n \in sent : FirstOfFlow(n, a, ac)
  BY <1>16
<1>18. \A n \in sent : n \notin Contents(Spots) /\ \A m \in Contents(Spots) : Flow(m) # Flow(n)
  BY <1>0, <1>17, FreshFlow
<1>19. SpotsOK(Spots') /\ Contents(Spots') \subseteq Contents(Spots) \cup sent
  <2>1. \A y \in new : y[4] \in Contents(gone) \/ y[4] \notin Contents(Spots)
    BY <1>7, <1>12, <1>18, InPlace
  <2>2. \A y, z \in new : y[4] = z[4] => y = z
    <3>1. \A m \in H : m \notin sent
      BY <1>13, <1>18
    <3> QED
      BY <1>7, <3>1, InPlace
  <2>3. \A y \in new : y[1] # "net" => y[2] = Target(y[4]) /\ y[4].at = "cq"
    BY <1>7, <1>13, InPlace
  <2>4. /\ SpotsOK(Spots')
        /\ Contents(Spots') \subseteq (Contents(Spots) \ Contents(gone)) \cup Contents(new)
    BY <1>0, <1>11, <1>12, <2>1, <2>2, <2>3, SpotsMove
  <2> QED
    BY <1>13, <1>14, <2>4
<1>20. FlowsOK(Contents(Spots'), active', completed')
  <2>1. CASE sent = {}
    <3>1. Contents(Spots') \subseteq Contents(Spots)
      BY <1>19, <2>1
    <3> QED
      BY <1>4, <1>15, <3>1, FewerFlows
  <2>2. ASSUME NEW n, sent = {n}, FirstOfFlow(n, a, ac)
        PROVE  FlowsOK(Contents(Spots'), active', completed')
    <3>1. Known(n) /\ ~IsAck(n) /\ Stage(n, active', completed)
      BY <1>4, <2>2, FirstStage
    <3>2. /\ Contents(Spots') \subseteq Contents(Spots) \cup {n}
          /\ \A m \in Contents(Spots) : Flow(m) # Flow(n)
      BY <1>18, <1>19, <2>2
    <3> QED
      BY <1>4, <1>15, <3>1, <3>2, NewFlow
  <2> QED
    BY <1>16, <2>1, <2>2
<1>21. Linked(active', completed')
  BY <1>4, StartedLink DEF MessageInv, IInv, DagInv, StateInv
<1> QED
  BY <1>8, <1>19, <1>20, <1>21, MessageStep DEF MessageInv, NoProtocolAbort

\* startRecv takes up the headers that came before it, and sends.
LEMMA StartRecvMessages ==
  ASSUME IInv, MessageInv, PhaseInv', job' = job, aborted' = aborted,
         NEW a \in Actor, NEW ac \in Actions(a), ac.id \notin active[a] \cup completed[a],
         NEW S, NEW frames \in Seq(S), InFrames(frames) \subseteq InFrames(stack[a[2]]),
         startRecv(a, ac, frames)
  PROVE  MessageInv'
<1>0. job \in Jobs /\ a[2] \in Rank /\ BoxInv /\ SpotsOK(Spots)
      /\ FlowsOK(Contents(Spots), active, completed)
  BY ActorParts DEF MessageInv, IInv, DagInv, StateInv
<1>1. PICK H : H = HeadersOf(recvHeaders, a, ac)
  OBVIOUS
<1>2. PICK s : s = PushRecv(a, H, frames)
  OBVIOUS
<1>3. PICK sent : sent = doRecv(a, ac)
  OBVIOUS
<1>4. /\ ac.type = RECV
      /\ stack' = [stack EXCEPT ![a[2]] = s]
      /\ recvHeaders' = [recvHeaders EXCEPT ![a] = recvHeaders[a] \ H]
      /\ net' = net \cup sent
      /\ active' = [active EXCEPT ![a] = active[a] \cup {ac.id}]
      /\ UNCHANGED <<sendHeaders, completed, early>>
  BY <1>1, <1>2, <1>3 DEF startRecv, HeadersExcept, SetStack
<1>5. H \subseteq recvHeaders[a]
  BY <1>1 DEF HeadersOf
<1>6. PICK gone : gone = In("recv", a, 0, H)
  OBVIOUS
<1>7. PICK new : new = In("frame", a, Len(frames) + 1, H) \cup In("net", 0, 0, sent)
  OBVIOUS
<1>8. BoxInv'
  <2>1. Actor' = Actor
    BY DEF Actor
  <2> QED
    BY <1>0, <1>4, <2>1 DEF BoxInv
<1>9. \A y \in InFrames(s) : y \in InFrames(frames) \/ y \in In("frame", a, Len(frames) + 1, H)
  BY <1>2, PushRecvFrames
<1>10. \A y \in gone : y[1] = "recv" /\ y[2] = a /\ y[4] \in H
  BY <1>6, InPlace
<1>11. \A y \in Spots' : (y \in Spots /\ y \notin gone) \/ y \in new
  <2>1. \A y \in gone : y[1] = "frame" => y \in InFrames(stack[a[2]])
    BY <1>10
  <2>2. \A y \in InFrames(s) : (y \in InFrames(stack[a[2]]) /\ y \notin gone) \/ y \in new
    <3>1. \A y \in InFrames(stack[a[2]]) : y[1] = "frame"
      BY <1>0, FrameOwner DEF IInv, StackInv
    <3> QED
      BY <1>7, <1>9, <1>10, <3>1
  <2>3. \A y \in In("net", 0, 0, net') : (y \in In("net", 0, 0, net) /\ y \notin gone) \/ y \in new
    BY <1>4, <1>7, <1>10, InPlace DEF In
  <2>4. \A y \in Boxed("early", early') : (y \in Boxed("early", early) /\ y \notin gone) \/ y \in new
    BY <1>4, <1>10, InBox
  <2>5. \A y \in Boxed("send", sendHeaders') : (y \in Boxed("send", sendHeaders) /\ y \notin gone) \/ y \in new
    BY <1>4, <1>10, InBox
  <2>6. ASSUME NEW y \in Boxed("recv", recvHeaders')
        PROVE  y \in Boxed("recv", recvHeaders) /\ y \notin gone
    <3>0. PICK T : T = recvHeaders[a] \ H
      OBVIOUS
    <3>1. \/ y \in In("recv", a, 0, recvHeaders[a] \ H)
          \/ y \in Boxed("recv", recvHeaders) /\ y[2] # a
      <4>1. recvHeaders = [b \in Actor |-> recvHeaders[b]] /\ recvHeaders' = [recvHeaders EXCEPT ![a] = T]
        BY <1>0, <1>4, <3>0 DEF BoxInv
      <4> QED
        BY <3>0, <4>1, BoxedStep
    <3>2. CASE y \in In("recv", a, 0, recvHeaders[a] \ H)
      <4>1. y[4] \in recvHeaders[a] /\ y[4] \notin H /\ y = <<"recv", a, 0, y[4]>>
        BY <3>2, InPlace
      <4> QED
        BY <1>10, <4>1, InBox
    <3> QED
      BY <1>10, <3>1, <3>2
  <2> QED
    BY <1>0, <1>4, <2>1, <2>2, <2>3, <2>4, <2>5, <2>6, SpotsNow
<1>12. gone \subseteq Spots /\ Contents(gone) = H
  <2>1. gone \subseteq Boxed("recv", recvHeaders)
    BY <1>5, <1>6, InBox DEF In
  <2>2. Contents(gone) = H
    BY <1>6, ContentsIn
  <2> QED
    BY <2>1, <2>2, SpotNames DEF Spots
<1>13. H \subseteq Contents(Spots) /\ \A m \in H : Target(m) = a /\ m.at = "cq"
  <2>1. ASSUME NEW m \in H
        PROVE  Target(m) = a /\ m.at = "cq" /\ m \in Contents(Spots)
    <3>1. PICK x \in gone : x[4] = m
      BY <1>12 DEF Contents
    <3> QED
      BY <1>0, <1>10, <1>12, <3>1 DEF SpotsOK, Contents
  <2> QED
    BY <2>1
<1>14. Contents(new) = H \cup sent
  BY <1>7, ContentsIn, ContentsCup
<1>15. FlowsOK(Contents(Spots), active', completed)
  BY <1>0, <1>4, StartedFlow DEF IInv, DagInv, StateInv
<1>16. sent = {} \/ \E n : sent = {n} /\ FirstOfFlow(n, a, ac)
  BY <1>3, <1>4, RecvsFirst DEF IInv
<1>17. \A n \in sent : FirstOfFlow(n, a, ac)
  BY <1>16
<1>18. \A n \in sent : n \notin Contents(Spots) /\ \A m \in Contents(Spots) : Flow(m) # Flow(n)
  BY <1>0, <1>17, FreshFlow
<1>19. SpotsOK(Spots') /\ Contents(Spots') \subseteq Contents(Spots) \cup sent
  <2>1. \A y \in new : y[4] \in Contents(gone) \/ y[4] \notin Contents(Spots)
    BY <1>7, <1>12, <1>18, InPlace
  <2>2. \A y, z \in new : y[4] = z[4] => y = z
    <3>1. \A m \in H : m \notin sent
      BY <1>13, <1>18
    <3> QED
      BY <1>7, <3>1, InPlace
  <2>3. \A y \in new : y[1] # "net" => y[2] = Target(y[4]) /\ y[4].at = "cq"
    BY <1>7, <1>13, InPlace
  <2>4. /\ SpotsOK(Spots')
        /\ Contents(Spots') \subseteq (Contents(Spots) \ Contents(gone)) \cup Contents(new)
    BY <1>0, <1>11, <1>12, <2>1, <2>2, <2>3, SpotsMove
  <2> QED
    BY <1>13, <1>14, <2>4
<1>20. FlowsOK(Contents(Spots'), active', completed')
  <2>1. CASE sent = {}
    <3>1. Contents(Spots') \subseteq Contents(Spots)
      BY <1>19, <2>1
    <3> QED
      BY <1>4, <1>15, <3>1, FewerFlows
  <2>2. ASSUME NEW n, sent = {n}, FirstOfFlow(n, a, ac)
        PROVE  FlowsOK(Contents(Spots'), active', completed')
    <3>1. Known(n) /\ ~IsAck(n) /\ Stage(n, active', completed)
      BY <1>4, <2>2, FirstStage
    <3>2. /\ Contents(Spots') \subseteq Contents(Spots) \cup {n}
          /\ \A m \in Contents(Spots) : Flow(m) # Flow(n)
      BY <1>18, <1>19, <2>2
    <3> QED
      BY <1>4, <1>15, <3>1, <3>2, NewFlow
  <2> QED
    BY <1>16, <2>1, <2>2
<1>21. Linked(active', completed')
  BY <1>4, StartedLink DEF MessageInv, IInv, DagInv, StateInv
<1> QED
  BY <1>8, <1>19, <1>20, <1>21, MessageStep DEF MessageInv, NoProtocolAbort

\* An action is over, and the messages gone with it.
LEMMA ClearMessages ==
  ASSUME IInv, MessageInv, PhaseInv', job' = job, aborted' = aborted,
         NEW a \in Actor, NEW id, NEW buffer, NEW S, NEW frames \in Seq(S),
         clearAction(a, id, buffer, frames), UNCHANGED <<headerVars, net>>,
         NEW gone, gone \subseteq InFrames(stack[a[2]]),
         \A y \in InFrames(frames) : y \in InFrames(stack[a[2]]) /\ y \notin gone,
         Past(Contents(Spots) \ Contents(gone), a, id),
         \A n : Known(n) =>
           /\ n.proto # "put" /\ Sink(n) = a /\ RecvId(n) = id => SendStarted(n, active, completed)
           /\ n.proto = "put" /\ Source(n) = a /\ SendId(n) = id => RecvStarted(n, active, completed)
  PROVE  MessageInv'
<1>0. /\ job \in Jobs /\ a[2] \in Rank /\ BoxInv /\ SpotsOK(Spots)
      /\ FlowsOK(Contents(Spots), active, completed) /\ Linked(active, completed)
  BY ActorParts DEF MessageInv, IInv, DagInv, StateInv
<1>1. /\ active = [b \in Actor |-> active[b]] /\ completed = [b \in Actor |-> completed[b]]
  BY DEF IInv, DagInv, StateInv
<1>2. /\ active' = [active EXCEPT ![a] = active[a] \ {id}]
      /\ completed' = [completed EXCEPT ![a] = completed[a] \cup {id}]
  BY DEF clearAction
<1>3. BoxInv' /\ \A y \in Spots' : y \in Spots /\ y \notin gone
  BY <1>0, ClearSpots
<1>4. gone \subseteq Spots
  <2>1. InFrames(stack[a[2]]) \subseteq Framed(stack)
    BY <1>0 DEF Framed
  <2> QED
    BY <2>1, SpotNames DEF Spots
<1>5. /\ SpotsOK(Spots')
      /\ Contents(Spots') \subseteq (Contents(Spots) \ Contents(gone)) \cup Contents({})
  BY <1>0, <1>3, <1>4, SpotsMove
<1>6. Contents(Spots') \subseteq Contents(Spots) \ Contents(gone)
  BY <1>5 DEF Contents
<1>7. FlowsOK(Contents(Spots'), active', completed')
  <2>1. PICK M, M2 : M = Contents(Spots) /\ M2 = Contents(Spots')
    OBVIOUS
  <2>2. FlowsOK(M, active, completed) /\ M2 \subseteq M
    BY <1>0, <1>6, <2>1
  <2>3. Past(M2, a, id)
    BY <1>6, <2>1 DEF Past
  <2>4. PICK act, over : act = active' /\ over = completed'
    OBVIOUS
  <2>5. Clears(a, id, active, completed, act, over)
    BY <1>1, <1>2, <2>4 DEF Clears
  <2>6. FlowsOK(M2, act, over)
    BY <2>2, <2>3, <2>5, ClearedFlow
  <2> QED
    BY <2>1, <2>4, <2>6
<1>8. Linked(active', completed')
  BY <1>0, <1>1, <1>2, ClearedLink
<1> QED
  BY <1>3, <1>5, <1>7, <1>8, MessageStep DEF MessageInv, NoProtocolAbort

\* Joins and shuffles are at no end of a flow.
LEMMA NoFlow ==
  ASSUME job \in Jobs, NEW a \in Actor, NEW ac \in Actions(a), ac.type \notin {SEND, RECV},
         NEW n, Known(n)
  PROVE  ~(Source(n) = a /\ SendId(n) = ac.id) /\ ~(Sink(n) = a /\ RecvId(n) = ac.id)
<1>1. ASSUME Source(n) = a, SendId(n) = ac.id
      PROVE  FALSE
  <2>1. PICK t \in Actions(a) : EndOf(t, SEND, n, Sink(n)[2])
    BY <1>1 DEF Known
  <2>2. t = ac
    BY <1>1, <2>1, IdsUnique DEF EndOf, SendId
  <2> QED
    BY <2>1, <2>2 DEF EndOf
<1>2. ASSUME Sink(n) = a, RecvId(n) = ac.id
      PROVE  FALSE
  <2>1. PICK t \in Actions(a) : EndOf(t, RECV, n, Source(n)[2])
    BY <1>2 DEF Known
  <2>2. t = ac
    BY <1>2, <2>1, IdsUnique DEF EndOf, RecvId
  <2> QED
    BY <2>1, <2>2 DEF EndOf
<1> QED
  BY <1>1, <1>2

\* startAction.
LEMMA StartMessages ==
  ASSUME IInv, MessageInv, PhaseInv', job' = job, aborted' = aborted,
         NEW a \in Actor, NEW id \in Ids(Actions(a)), id \notin active[a] \cup completed[a],
         NEW S, NEW frames \in Seq(S), InFrames(frames) \subseteq InFrames(stack[a[2]]),
         startAction(a, id, frames)
  PROVE  MessageInv'
<1>1. PICK ac : ac = ActionOf(a, id)
  OBVIOUS
<1>2. job \in Jobs /\ ac \in Actions(a) /\ ac.id = id
  BY <1>1, ActionOfId DEF IInv, DagInv, StateInv
<1>3. CASE startSend(a, ac, frames)
  BY <1>2, <1>3, StartSendMessages
<1>4. CASE startRecv(a, ac, frames)
  BY <1>2, <1>4, StartRecvMessages
<1>5. ASSUME ac.type \notin {SEND, RECV}, UNCHANGED <<headerVars, net>>,
             NEW buffer, clearAction(a, ac.id, buffer, frames)
      PROVE  MessageInv'
  <2>1. PICK gone : gone = {}
    OBVIOUS
  <2>2. /\ gone \subseteq InFrames(stack[a[2]])
        /\ \A y \in InFrames(frames) : y \in InFrames(stack[a[2]]) /\ y \notin gone
    BY <2>1
  <2>3. \A n : Known(n) => /\ ~(Source(n) = a /\ SendId(n) = ac.id)
                           /\ ~(Sink(n) = a /\ RecvId(n) = ac.id)
    BY <1>2, <1>5, NoFlow
  <2>4. \A m \in Contents(Spots) : Known(m)
    BY DEF MessageInv, FlowsOK
  <2> QED
    BY <1>5, <2>2, <2>3, <2>4, ClearMessages DEF Past
<1>6. CASE startShuffle(a, ac, frames)
  BY <1>5, <1>6 DEF startShuffle, SHUFFLE, SEND, RECV
<1>7. CASE startJoin(a, ac, frames)
  BY <1>5, <1>7 DEF startJoin, JOIN, SEND, RECV
<1> QED
  BY <1>1, <1>3, <1>4, <1>6, <1>7 DEF startAction

\* The stack of a rank, and what is below its top.
LEMMA BelowTop ==
  ASSUME IInv, NEW r \in Rank, ~Idle(r), NEW frames,
         frames = stack[r] \/ frames = Tail(stack[r])
  PROVE  \E S : frames \in Seq(S) /\ InFrames(frames) \subseteq InFrames(stack[r])
<1>1. PICK S : stack[r] \in Seq(S)
  BY DEF IInv, StackInv, Stacked
<1>2. CASE frames = stack[r]
  BY <1>1, <1>2
<1>3. CASE frames = Tail(stack[r])
  <2>1. stack[r] # <<>>
    BY DEF Idle
  <2>2. frames \in Seq(S) /\ InFrames(frames) \subseteq InFrames(stack[r])
    BY <1>1, <1>3, <2>1, TailFrames
  <2> QED
    BY <2>2
<1> QED
  BY <1>2, <1>3

\* DagCollectiveActor::start.
LEMMA StartLoopMessages ==
  ASSUME IInv, MessageInv, NEW r \in Rank, startLoop(r)
  PROVE  MessageInv'
<1>0. PICK a : a = Top(r).actor
  OBVIOUS
<1>1. ~Idle(r)
  BY DEF startLoop, OnTop
<1>2. a \in Actor /\ Called(a) /\ a[2] = r /\ job \in Jobs /\ StateInv
  BY <1>0, <1>1, TopFrame DEF IInv, DagInv, StateInv
<1>3. PICK id \in initial[a] :
        /\ initial' = [initial EXCEPT ![a] = initial[a] \ {id}]
        /\ startAction(a, id, IF initial[a] = {id} THEN Tail(stack[r])
                              ELSE stack[r])
  BY <1>0 DEF startLoop
<1>4. PICK frames : frames = IF initial[a] = {id} THEN Tail(stack[r])
                             ELSE stack[r]
  OBVIOUS
<1>5. PICK S : frames \in Seq(S) /\ InFrames(frames) \subseteq InFrames(stack[a[2]])
  BY <1>1, <1>2, <1>4, BelowTop
<1>6. startAction(a, id, frames)
  BY <1>3, <1>4
<1>7. id \in Ids(Actions(a))
  BY <1>2 DEF IInv, DagInv, AccountInv
<1>8. id \notin active[a] \cup completed[a] /\ id \notin {p[2] : p \in pending[a]}
  BY <1>2 DEF MessageInv, PhaseInv, Waiting
<1>9. Cleared(a, id) \/ Activated(a, id)
  <2>1. ActionOf(a, id).id = id
    BY <1>2, <1>7, ActionOfId
  <2> QED
    BY <1>2, <1>6, <2>1, StartEffect
<1>10. PICK I : I = initial[a] \ {id}
  OBVIOUS
<1>11. /\ initial' = [initial EXCEPT ![a] = I] /\ pending' = [pending EXCEPT ![a] = pending[a]]
       /\ I \subseteq initial[a] /\ id \notin I /\ job' = job /\ aborted' = aborted
  BY <1>2, <1>3, <1>10 DEF startLoop, StateInv
<1>12. PhaseInv'
  BY <1>2, <1>8, <1>9, <1>11, PhaseStart DEF MessageInv
<1> QED
  BY <1>2, <1>5, <1>6, <1>7, <1>8, <1>11, <1>12, StartMessages

\* The messages of gone leave their places, those of new come to theirs.
Moves(r, s, gone, new) ==
  /\ stack' = [stack EXCEPT ![r] = s]
  /\ gone \subseteq Spots
  /\ \A y \in gone : y[1] = "frame" => y \in InFrames(stack[r])
  /\ \A y \in InFrames(s) : (y \in InFrames(stack[r]) /\ y \notin gone) \/ y \in new
  /\ \A y \in In("net", 0, 0, net') : (y \in In("net", 0, 0, net) /\ y \notin gone) \/ y \in new
  /\ \A y \in Boxed("early", early') : (y \in Boxed("early", early) /\ y \notin gone) \/ y \in new
  /\ \A y \in Boxed("send", sendHeaders') : (y \in Boxed("send", sendHeaders) /\ y \notin gone) \/ y \in new
  /\ \A y \in Boxed("recv", recvHeaders') : (y \in Boxed("recv", recvHeaders) /\ y \notin gone) \/ y \in new

\* The messages fit their new places, and each other.
Fits(gone, new) ==
  /\ \A y \in new : y[4] \in Contents(gone) \/ y[4] \notin Contents(Spots)
  /\ \A y, z \in new : y[4] = z[4] => y = z
  /\ \A y \in new : y[1] # "net" => y[2] = Target(y[4]) /\ y[4].at = "cq"
  /\ FlowsOK((Contents(Spots) \ Contents(gone)) \cup Contents(new), active, completed)

\* Messages move, no action starts or ends.
LEMMA MovedMessages ==
  ASSUME IInv, MessageInv, PhaseInv', BoxInv', job' = job, aborted' = aborted,
         UNCHANGED <<active, completed>>,
         NEW r \in Rank, NEW s, NEW gone, NEW new, Moves(r, s, gone, new), Fits(gone, new)
  PROVE  MessageInv'
<1>1. \A y \in Spots' : (y \in Spots /\ y \notin gone) \/ y \in new
  BY SpotsNow DEF Moves
<1>2. SpotsOK(Spots) /\ Linked(active, completed) /\ aborted' = "no"
  BY DEF MessageInv, NoProtocolAbort
<1>3. /\ SpotsOK(Spots')
      /\ Contents(Spots') \subseteq (Contents(Spots) \ Contents(gone)) \cup Contents(new)
  BY <1>1, <1>2, SpotsMove DEF Moves, Fits
<1>4. FlowsOK(Contents(Spots'), active, completed)
  BY <1>3, FewerFlows DEF Fits
<1> QED
  BY <1>2, <1>3, <1>4, MessageStep

\* Only places of messages change, not the messages.
LEMMA SameMessages ==
  ASSUME MessageInv, NEW gone, NEW new, gone \subseteq Spots, Contents(new) = Contents(gone)
  PROVE  /\ FlowsOK((Contents(Spots) \ Contents(gone)) \cup Contents(new), active, completed)
         /\ \A y \in new : y[4] \in Contents(gone) \/ y[4] \notin Contents(Spots)
<1>1. Contents(gone) \subseteq Contents(Spots)
  BY DEF Contents
<1>2. \A y \in new : y[4] \in Contents(gone)
  BY DEF Contents
<1>3. PICK M : M = (Contents(Spots) \ Contents(gone)) \cup Contents(new)
  OBVIOUS
<1>4. M \subseteq Contents(Spots)
  BY <1>1, <1>3
<1>5. FlowsOK(M, active, completed)
  BY <1>4, FewerFlows DEF MessageInv
<1> QED
  BY <1>2, <1>3, <1>5

\* No action changes its phase.
LEMMA PhaseSame ==
  ASSUME PhaseInv, job' = job, UNCHANGED dagVars
  PROVE  PhaseInv'
BY DEF PhaseInv, Waiting, Actor, dagVars

\* A place that keeps its messages.
LEMMA StillThere ==
  ASSUME NEW gone, NEW place, \A y \in gone : y[1] # place
  PROVE  /\ \A box : \A y \in Boxed(place, box) : y \notin gone
         /\ \A owner, h, msgs : \A y \in In(place, owner, h, msgs) : y \notin gone
BY InBox, InPlace

\* clearDependencies.
LEMMA ClearDependenciesMessages ==
  ASSUME IInv, MessageInv, NEW r \in Rank, clearDependencies(r)
  PROVE  MessageInv'
<1>0. PICK a, waiting : a = Top(r).actor /\ waiting = Successors(pending, a, Top(r).id)
  OBVIOUS
<1>1. ~Idle(r)
  BY DEF clearDependencies, OnTop
<1>2. a \in Actor /\ Called(a) /\ a[2] = r /\ job \in Jobs /\ StateInv
  BY <1>0, <1>1, TopFrame DEF IInv, DagInv, StateInv
<1>3. PICK p \in waiting :
        LET frames == IF waiting = {p} THEN Tail(stack[r]) ELSE stack[r]
        IN  /\ pending' = [pending EXCEPT ![a] = pending[a] \ {p}]
            /\ IF joinCounter(a, p[2]) = 0
               THEN startAction(a, p[2], frames)
               ELSE /\ SetStack(r, frames)
                    /\ UNCHANGED <<registered, early, active, completed,
                                   headerVars, complete, result, net>>
  BY <1>0 DEF clearDependencies
<1>4. p \in pending[a] /\ p[1] = Top(r).id
  BY <1>0 DEF Successors
<1>5. PICK frames : frames = IF waiting = {p} THEN Tail(stack[r]) ELSE stack[r]
  OBVIOUS
<1>6. PICK S : frames \in Seq(S) /\ InFrames(frames) \subseteq InFrames(stack[a[2]])
  BY <1>1, <1>2, <1>5, BelowTop
<1>7. PICK id, P : id = p[2] /\ P = pending[a] \ {p}
  OBVIOUS
<1>8. /\ pending' = [pending EXCEPT ![a] = P] /\ pending'[a] = P
      /\ initial' = [initial EXCEPT ![a] = initial[a]] /\ initial' = initial
      /\ P \subseteq pending[a] /\ job' = job /\ aborted' = aborted
  BY <1>2, <1>3, <1>7 DEF clearDependencies, StateInv
<1>9. id \in {q[2] : q \in pending[a]}
  BY <1>4, <1>7
<1>10. id \notin initial[a] /\ id \notin active[a] \cup completed[a] /\ id \in Ids(Actions(a))
  BY <1>2, <1>9 DEF MessageInv, PhaseInv, Waiting, IInv, DagInv, AccountInv
<1>11. CASE joinCounter(a, id) = 0
  <2>1. startAction(a, id, frames)
    BY <1>3, <1>5, <1>7, <1>11
  <2>2. Cleared(a, id) \/ Activated(a, id)
    <3>1. ActionOf(a, id).id = id
      BY <1>2, <1>10, ActionOfId
    <3> QED
      BY <1>2, <2>1, <3>1, StartEffect
  <2>3. id \notin {q[2] : q \in P}
    <3>1. IsFiniteSet({q \in P : q[2] = id})
      <4>1. IsFiniteSet(pending[a])
        BY <1>2 DEF IInv, DagInv, WaitInv
      <4> QED
        BY <1>8, <4>1, FS_Subset
    <3>2. {q \in P : q[2] = id} = {}
      BY <1>8, <1>11, <3>1, FS_EmptySet DEF joinCounter
    <3> QED
      BY <3>2
  <2>4. PhaseInv'
    BY <1>2, <1>8, <1>10, <2>2, <2>3, PhaseStart DEF MessageInv
  <2> QED
    BY <1>2, <1>6, <1>8, <1>10, <2>1, <2>4, StartMessages
<1>12. CASE joinCounter(a, id) # 0
  <2>1. /\ stack' = [stack EXCEPT ![r] = frames]
        /\ UNCHANGED <<early, active, completed, sendHeaders, recvHeaders, net>>
    BY <1>3, <1>5, <1>7, <1>12 DEF SetStack, headerVars
  <2>2. BoxInv'
    BY <1>8, <2>1 DEF MessageInv, BoxInv, Actor
  <2>3. PhaseInv'
    <3> SUFFICES ASSUME NEW b \in Actor
                 PROVE  /\ initial[b] \cap (active[b] \cup completed[b]) = {}
                        /\ {q[2] : q \in pending'[b]} \cap (initial[b] \cup active[b] \cup completed[b]) = {}
                        /\ active[b] \cap completed[b] = {}
      BY <1>8, <2>1 DEF PhaseInv, Waiting, Actor
    <3>1. /\ initial[b] \cap (active[b] \cup completed[b]) = {}
          /\ {q[2] : q \in pending[b]} \cap (initial[b] \cup active[b] \cup completed[b]) = {}
          /\ active[b] \cap completed[b] = {}
      BY DEF MessageInv, PhaseInv, Waiting
    <3>2. pending'[b] \subseteq pending[b]
      BY <1>2, <1>8 DEF StateInv
    <3> QED
      BY <3>1, <3>2
  <2>4. PICK gone, new : gone = {} /\ new = {}
    OBVIOUS
  <2>5. gone \subseteq Spots /\ Contents(new) = Contents(gone)
    BY <2>4
  <2>6. \A y \in InFrames(frames) : (y \in InFrames(stack[r]) /\ y \notin gone) \/ y \in new
    BY <1>2, <1>6, <2>4
  <2>7. FlowsOK((Contents(Spots) \ Contents(gone)) \cup Contents(new), active, completed)
    BY <2>5, SameMessages
  <2>8. Moves(r, frames, gone, new) /\ Fits(gone, new)
    BY <2>1, <2>4, <2>5, <2>6, <2>7 DEF Moves, Fits
  <2> QED
    BY <1>8, <2>1, <2>2, <2>3, <2>8, MovedMessages
<1> QED
  BY <1>11, <1>12

\* A message on its way: who it is for, and how far it is.
LEMMA SpotFacts ==
  ASSUME MessageInv, NEW x \in Spots
  PROVE  /\ x[4] \in Contents(Spots) /\ Known(x[4]) /\ Stage(x[4], active, completed)
         /\ Target(x[4]) \in Actor
         /\ x[1] # "net" => x[2] = Target(x[4]) /\ x[4].at = "cq"
<1>1. x[4] \in Contents(Spots)
  BY DEF Contents
<1>2. PICK m : m = x[4]
  OBVIOUS
<1>3. Known(m) /\ Stage(m, active, completed)
  BY <1>1, <1>2 DEF MessageInv, FlowsOK
<1>4. Target(m) \in Actor
  BY <1>3 DEF Known, Source, Sink, Target, domTargetRank
<1> QED
  BY <1>1, <1>2, <1>3, <1>4 DEF MessageInv, SpotsOK

\* CollectiveEngine::deliverPending.
LEMMA DeliverPendingMessages ==
  ASSUME IInv, MessageInv, NEW r \in Rank, deliverPending(r)
  PROVE  MessageInv'
<1>0. PICK a, E : a = Top(r).actor /\ E = early[a]
  OBVIOUS
<1>1. ~Idle(r)
  BY DEF deliverPending, OnTop
<1>2. a \in Actor /\ a[2] = r
  BY <1>0, <1>1, TopFrame
<1>3. PICK frames : frames = Tail(stack[r])
  OBVIOUS
<1>4. PICK S : frames \in Seq(S) /\ InFrames(frames) \subseteq InFrames(stack[r])
  BY <1>1, <1>3, BelowTop
<1>5. PICK s : s = PushRecv(a, E, frames)
  OBVIOUS
<1>6. /\ stack' = [stack EXCEPT ![r] = s] /\ early' = [early EXCEPT ![a] = {}]
      /\ UNCHANGED <<sendHeaders, recvHeaders, net, active, completed, job, aborted, dagVars>>
  BY <1>0, <1>3, <1>5 DEF deliverPending, SetStack, headerVars, dagVars
<1>7. PICK gone, new : gone = In("early", a, 0, E) /\ new = In("frame", a, Len(frames) + 1, E)
  OBVIOUS
<1>8. /\ \A y \in gone : y[1] = "early" /\ y[2] = a
      /\ \A y \in new : y[1] = "frame" /\ y[2] = a /\ y[4] \in E
      /\ \A y, z \in new : y[4] = z[4] => y = z
  BY <1>7, InPlace
<1>9. gone \subseteq Spots
  <2>1. gone \subseteq Boxed("early", early)
    BY <1>0, <1>2, <1>7, InBox DEF In
  <2> QED
    BY <2>1, SpotNames DEF Spots
<1>10. Contents(gone) = E /\ Contents(new) = E
  BY <1>7, ContentsIn
<1>11. \A y \in new : y[2] = Target(y[4]) /\ y[4].at = "cq"
  <2> SUFFICES ASSUME NEW y \in new
               PROVE  y[2] = Target(y[4]) /\ y[4].at = "cq"
    OBVIOUS
  <2>1. PICK x \in gone : x[4] = y[4]
    BY <1>8, <1>10 DEF Contents
  <2> QED
    BY <1>8, <1>9, <2>1, SpotFacts
<1>12. BoxInv'
  BY <1>6 DEF MessageInv, BoxInv, Actor
<1>13. PhaseInv'
  BY <1>6, PhaseSame DEF MessageInv
<1>14. \A y \in InFrames(s) : (y \in InFrames(stack[r]) /\ y \notin gone) \/ y \in new
  <2>1. \A y \in InFrames(stack[r]) : y[1] = "frame"
    BY FrameOwner DEF IInv, StackInv
  <2> QED
    BY <1>4, <1>5, <1>7, <1>8, <2>1, PushRecvFrames
<1>15. \A y \in Boxed("early", early') : y \in Boxed("early", early) /\ y \notin gone
  <2>1. \A y : y \notin In("early", a, 0, {})
    BY InPlace
  <2>2. early = [b \in Actor |-> early[b]]
    BY DEF MessageInv, BoxInv
  <2>3. \A y \in Boxed("early", early') : y \in Boxed("early", early) /\ y[2] # a
    BY <1>2, <1>6, <2>1, <2>2, BoxedStep
  <2> QED
    BY <1>8, <2>3
<1>16. /\ \A y \in In("net", 0, 0, net') : y \in In("net", 0, 0, net) /\ y \notin gone
       /\ \A y \in Boxed("send", sendHeaders') : y \in Boxed("send", sendHeaders) /\ y \notin gone
       /\ \A y \in Boxed("recv", recvHeaders') : y \in Boxed("recv", recvHeaders) /\ y \notin gone
  BY <1>6, <1>8, StillThere
<1>17. /\ FlowsOK((Contents(Spots) \ Contents(gone)) \cup Contents(new), active, completed)
       /\ \A y \in new : y[4] \in Contents(gone) \/ y[4] \notin Contents(Spots)
  BY <1>9, <1>10, SameMessages
<1>18. \A y \in gone : y[1] = "frame" => y \in InFrames(stack[r])
  BY <1>8
<1>19. Moves(r, s, gone, new)
  BY <1>6, <1>9, <1>14, <1>15, <1>16, <1>18 DEF Moves
<1>20. Fits(gone, new)
  BY <1>8, <1>11, <1>17 DEF Fits
<1> QED
  BY <1>6, <1>12, <1>13, <1>19, <1>20, MovedMessages

\* CollectiveEngine::startCollective.
LEMMA StartCollectiveMessages ==
  ASSUME IInv, MessageInv, NEW r \in Rank, startCollective(r)
  PROVE  MessageInv'
<1>0. PICK a : a = <<calls[r] + 1, r>>
  OBVIOUS
<1>1. /\ job \in Jobs /\ calls \in [Rank -> Nat] /\ job \in Seq(Call)
  BY JobAssumption DEF IInv, DagInv, StateInv
<1>2. a \in Actor /\ ~Called(a)
  BY <1>0, <1>1 DEF startCollective, MayCall, Actor, Called
<1>3. PICK s, I, P : /\ s = StartFrames(a) /\ I = Ids({ac \in Actions(a) : ac.pre = {}})
                     /\ P = UNION {ac.pre \X {ac.id} : ac \in Actions(a)}
  OBVIOUS
<1>4. /\ stack' = [stack EXCEPT ![r] = s]
      /\ initial' = [initial EXCEPT ![a] = I] /\ pending' = [pending EXCEPT ![a] = P]
      /\ UNCHANGED <<job, aborted, active, completed, early, sendHeaders, recvHeaders, net>>
  BY <1>0, <1>3 DEF startCollective, SetStack, headerVars
<1>5. I \cap {p[2] : p \in P} = {}
  <2> SUFFICES ASSUME NEW p \in P, p[2] \in I
               PROVE  FALSE
    OBVIOUS
  <2>1. PICK ac \in Actions(a) : p \in ac.pre \X {ac.id}
    BY <1>3
  <2>2. PICK other \in Actions(a) : other.pre = {} /\ other.id = p[2]
    BY <1>3 DEF Ids
  <2>3. p[2] = ac.id /\ ac.pre # {}
    BY <2>1
  <2> QED
    BY <1>1, <1>2, <2>2, <2>3, IdsUnique
<1>6. PhaseInv'
  <2> SUFFICES ASSUME NEW b \in Actor
               PROVE  /\ initial'[b] \cap (active[b] \cup completed[b]) = {}
                      /\ {p[2] : p \in pending'[b]} \cap (initial'[b] \cup active[b] \cup completed[b]) = {}
                      /\ active[b] \cap completed[b] = {}
    BY <1>4 DEF PhaseInv, Waiting, Actor
  <2>1. /\ initial[b] \cap (active[b] \cup completed[b]) = {}
        /\ {p[2] : p \in pending[b]} \cap (initial[b] \cup active[b] \cup completed[b]) = {}
        /\ active[b] \cap completed[b] = {}
    BY DEF MessageInv, PhaseInv, Waiting
  <2>2. CASE b # a
    BY <1>4, <2>1, <2>2 DEF IInv, DagInv, StateInv
  <2>3. CASE b = a
    <3>1. active[b] = {} /\ completed[b] = {} /\ initial'[b] = I /\ pending'[b] = P
      BY <1>2, <1>4, <2>3 DEF IInv, DagInv, FreshInv, StateInv
    <3> QED
      BY <1>5, <3>1
  <2> QED
    BY <2>2, <2>3
<1>7. BoxInv'
  BY <1>4 DEF MessageInv, BoxInv, Actor
<1>8. \A y : y \notin InFrames(s)
  <2>1. PICK f, g, S : f = StartFrame(a) /\ g = DeliverFrame(a) /\ S = {f, g}
    OBVIOUS
  <2>2. f.msgs = {} /\ g.msgs = {}
    BY <2>1 DEF StartFrame, DeliverFrame, Frame
  <2>3. s \in Seq(S)
    <3>1. PICK x, y : /\ x = IF initial'[a] = {} THEN <<>> ELSE <<f>>
                      /\ y = IF early[a] = {} THEN <<>> ELSE <<g>>
      OBVIOUS
    <3>2. s = x \o y
      BY <1>3, <2>1, <3>1 DEF StartFrames
    <3>3. <<>> \in Seq(S) /\ <<f>> \in Seq(S) /\ <<g>> \in Seq(S)
      BY <2>1
    <3>4. x \in Seq(S) /\ y \in Seq(S)
      BY <3>1, <3>3
    <3> QED
      BY <3>2, <3>4
  <2>4. ASSUME NEW h \in 1 .. Len(s)
        PROVE  AtHeight(s, h).msgs = {}
    <3>1. Len(s) + 1 - h \in 1 .. Len(s)
      BY <2>3
    <3>2. AtHeight(s, h) \in S
      BY <2>3, <3>1 DEF AtHeight
    <3> QED
      BY <2>1, <2>2, <3>2
  <2> QED
    BY <2>4, InStack, InPlace
<1>9. PICK gone, new : gone = {} /\ new = {}
  OBVIOUS
<1>10. gone \subseteq Spots /\ Contents(new) = Contents(gone)
  BY <1>9
<1>11. FlowsOK((Contents(Spots) \ Contents(gone)) \cup Contents(new), active, completed)
  BY <1>10, SameMessages
<1>12. Moves(r, s, gone, new) /\ Fits(gone, new)
  BY <1>4, <1>8, <1>9, <1>10, <1>11 DEF Moves, Fits
<1> QED
  BY <1>4, <1>6, <1>7, <1>12, MovedMessages

\* CollectiveEngine::incoming.
LEMMA IncomingMessages ==
  ASSUME IInv, MessageInv, NEW r \in Rank, incoming(r)
  PROVE  MessageInv'
<1>1. PICK m \in net :
        /\ m.at = "cq" /\ domTargetRank(m) = r
        /\ net' = net \ {m}
        /\ IF Target(m) \in registered
           THEN /\ SetStack(r, <<RecvFrame(Target(m), {m})>>)
                /\ UNCHANGED early
           ELSE /\ early' = [early EXCEPT ![Target(m)] = early[Target(m)] \cup {m}]
                /\ UNCHANGED stack
        /\ UNCHANGED <<job, dagVars, headerVars, aborted>>
  BY DEF incoming
<1>2. PICK a, gone : a = Target(m) /\ gone = In("net", 0, 0, {m})
  OBVIOUS
<1>3. UNCHANGED <<job, aborted, active, completed, sendHeaders, recvHeaders>>
  BY <1>1 DEF dagVars, headerVars
<1>4. /\ gone = {<<"net", 0, 0, m>>} /\ Contents(gone) = {m}
      /\ \A y \in gone : y[1] = "net" /\ y[4] = m
  <2>1. gone = {<<"net", 0, 0, m>>}
    BY <1>2 DEF In
  <2>2. Contents(gone) = {m}
    BY <1>2, ContentsIn
  <2> QED
    BY <1>2, <2>1, <2>2, InPlace
<1>5. gone \subseteq Spots
  <2>1. gone \subseteq In("net", 0, 0, net)
    BY <1>2 DEF In
  <2> QED
    BY <2>1, SpotNames DEF Spots
<1>6. a \in Actor
  <2>1. PICK x \in gone : x[4] = m
    BY <1>4
  <2> QED
    BY <1>2, <1>5, <2>1, SpotFacts
<1>7. PhaseInv'
  BY <1>1, PhaseSame DEF MessageInv
<1>8. /\ \A y \in gone : y[1] = "frame" => y \in InFrames(stack[r])
      /\ \A y \in Boxed("send", sendHeaders') : y \in Boxed("send", sendHeaders) /\ y \notin gone
      /\ \A y \in Boxed("recv", recvHeaders') : y \in Boxed("recv", recvHeaders) /\ y \notin gone
  BY <1>3, <1>4, StillThere
<1>9. \A y \in In("net", 0, 0, net') : y \in In("net", 0, 0, net) /\ y \notin gone
  BY <1>1, <1>4, InPlace
<1>10. CASE a \in registered
  <2>1. PICK f, s : f = RecvFrame(a, {m}) /\ s = <<f>>
    OBVIOUS
  <2>2. stack' = [stack EXCEPT ![r] = s] /\ UNCHANGED early
    BY <1>1, <1>2, <1>10, <2>1 DEF SetStack
  <2>3. PICK new : new = In("frame", a, 1, {m})
    OBVIOUS
  <2>4. /\ \A y \in new : y[1] = "frame" /\ y[2] = a /\ y[4] = m
        /\ \A y, z \in new : y[4] = z[4] => y = z
        /\ Contents(new) = {m}
    BY <2>3, InPlace, ContentsIn
  <2>5. BoxInv'
    BY <1>3, <2>2 DEF MessageInv, BoxInv, Actor
  <2>6. \A y \in InFrames(s) : y \in new
    <3>1. f.msgs = {m} /\ f.actor = a
      BY <2>1 DEF RecvFrame, Frame
    <3>2. Len(s) = 1 /\ AtHeight(s, 1) = f
      BY <2>1 DEF AtHeight
    <3>3. 1 .. Len(s) = {1}
      BY <3>2
    <3> QED
      BY <2>3, <3>1, <3>2, <3>3, InStack
  <2>7. \A y \in Boxed("early", early') : y \in Boxed("early", early) /\ y \notin gone
    BY <1>4, <2>2, StillThere
  <2>8. Moves(r, s, gone, new)
    BY <1>5, <1>8, <1>9, <2>2, <2>6, <2>7 DEF Moves
  <2>9. Fits(gone, new)
    BY <1>1, <1>2, <1>4, <1>5, <2>4, SameMessages DEF Fits
  <2> QED
    BY <1>3, <1>7, <2>5, <2>8, <2>9, MovedMessages
<1>11. CASE a \notin registered
  <2>1. PICK T, s : T = early[a] \cup {m} /\ s = stack[r]
    OBVIOUS
  <2>2. early' = [early EXCEPT ![a] = T] /\ stack' = [stack EXCEPT ![r] = s]
    BY <1>1, <1>2, <1>11, <2>1 DEF IInv, StackInv
  <2>3. PICK new : new = In("early", a, 0, {m})
    OBVIOUS
  <2>4. /\ \A y \in new : y[1] = "early" /\ y[2] = a /\ y[4] = m
        /\ \A y, z \in new : y[4] = z[4] => y = z
        /\ Contents(new) = {m}
    BY <2>3, InPlace, ContentsIn
  <2>5. BoxInv'
    BY <1>3, <2>2 DEF MessageInv, BoxInv, Actor
  <2>6. \A y \in InFrames(s) : y \in InFrames(stack[r]) /\ y \notin gone
    <3>1. \A y \in InFrames(stack[r]) : y[1] = "frame"
      BY FrameOwner DEF IInv, StackInv
    <3> QED
      BY <1>4, <2>1, <3>1
  <2>7. \A y \in Boxed("early", early') : (y \in Boxed("early", early) /\ y \notin gone) \/ y \in new
    <3>1. PICK box : box = early'
      OBVIOUS
    <3>2. /\ early = [b \in Actor |-> early[b]]
          /\ box = [early EXCEPT ![a] = early[a] \cup {m}]
      BY <2>1, <2>2, <3>1 DEF MessageInv, BoxInv
    <3>3. \A y \in Boxed("early", box) : y \in Boxed("early", early) \/ y \in new
      BY <1>6, <2>3, <3>2, BoxedMore
    <3> QED
      BY <1>4, <3>1, <3>3, StillThere
  <2>8. Moves(r, s, gone, new)
    BY <1>5, <1>8, <1>9, <2>2, <2>6, <2>7 DEF Moves
  <2>9. Fits(gone, new)
    BY <1>1, <1>2, <1>4, <1>5, <2>4, SameMessages DEF Fits
  <2> QED
    BY <1>3, <1>7, <2>5, <2>8, <2>9, MovedMessages
<1> QED
  BY <1>10, <1>11

(***************************************************************************)
(* Messages that are handled                                               *)
(***************************************************************************)

\* Messages of one flow are about the same actions.
LEMMA SameEnds ==
  ASSUME NEW m, Known(m), NEW n, Flow(n) = Flow(m)
  PROVE  /\ Source(n) = Source(m) /\ Sink(n) = Sink(m) /\ n.round = m.round
         /\ SendId(n) = SendId(m) /\ RecvId(n) = RecvId(m)
         /\ n = Msg(n.type, n.proto, n.at, n.tag, n.from, n.to, n.round, n.data)
              /\ n.proto = m.proto => Known(n)
         /\ \A act, over :
              /\ SendStarted(n, act, over) = SendStarted(m, act, over)
              /\ RecvStarted(n, act, over) = RecvStarted(m, act, over)
              /\ SendActive(n, act) = SendActive(m, act)
              /\ RecvActive(n, act) = RecvActive(m, act)
              /\ SendOpen(n, over) = SendOpen(m, over)
              /\ RecvOpen(n, over) = RecvOpen(m, over)
<1>1. Source(n) = Source(m) /\ Sink(n) = Sink(m) /\ n.round = m.round
  BY DEF Flow
<1>2. SendId(n) = SendId(m) /\ RecvId(n) = RecvId(m)
  BY <1>1 DEF SendId, RecvId
<1>3. ASSUME n = Msg(n.type, n.proto, n.at, n.tag, n.from, n.to, n.round, n.data),
             n.proto = m.proto
      PROVE  Known(n)
  BY <1>1, <1>3 DEF Known, EndOf
<1> QED
  BY <1>1, <1>2, <1>3 DEF SendStarted, RecvStarted, SendActive, RecvActive, SendOpen, RecvOpen

\* The place of a message of the top frame.
AtTop(r, m) == In("frame", Top(r).actor, Len(stack[r]), {m})

\* The message of a frame that is handled leaves it.
LEMMA RestFrames ==
  ASSUME IInv, NEW r \in Rank, ~Idle(r), NEW m \in Top(r).msgs
  PROVE  /\ \E S : Rest(r, m) \in Seq(S)
         /\ AtTop(r, m) \subseteq InFrames(stack[r]) /\ AtTop(r, m) \subseteq Spots
         /\ Contents(AtTop(r, m)) = {m}
         /\ \A y \in InFrames(Rest(r, m)) : y \in InFrames(stack[r]) /\ y \notin AtTop(r, m)
         /\ \A y \in AtTop(r, m) : y[1] = "frame" /\ y[2] = Top(r).actor /\ y[4] = m
<1>0. PICK frames, gone : /\ frames = Rest(r, m) /\ gone = AtTop(r, m)
                          /\ gone = In("frame", Top(r).actor, Len(stack[r]), {m})
  BY DEF AtTop
<1>1. PICK S : stack[r] \in Seq(S)
  BY DEF IInv, StackInv, Stacked
<1>2. PICK a, f, t, s, rest :
        a = Top(r).actor /\ f = Head(stack[r]) /\ t = Tail(stack[r]) /\ s = stack[r]
        /\ rest = f.msgs \ {m}
  OBVIOUS
<1>3. s # <<>> /\ f = Top(r) /\ f.actor = a /\ m \in f.msgs /\ s \in Seq(S)
  BY <1>1, <1>2 DEF Idle, Top
<1>4. /\ Len(t) + 1 = Len(s) /\ t \in Seq(S)
      /\ \A y : y \in InFrames(s) <=> y \in InFrames(t) \/ y \in In("frame", a, Len(s), f.msgs)
      /\ \A y \in InFrames(t) : y[3] # Len(s)
  BY <1>2, <1>3, TailFrames
<1>5. frames = PushRecv(a, rest, t)
  BY <1>0, <1>2, <1>3 DEF Rest
<1>6. \A y \in InFrames(frames) : y \in InFrames(t) \/ y \in In("frame", a, Len(s), rest)
  <2>1. \A y \in InFrames(frames) : y \in InFrames(t) \/ y \in In("frame", a, Len(t) + 1, rest)
    BY <1>4, <1>5, PushRecvFrames
  <2> QED
    BY <1>4, <2>1
<1>7. \A y \in gone : y[1] = "frame" /\ y[2] = a /\ y[3] = Len(s) /\ y[4] = m
                      /\ y = <<"frame", a, Len(s), m>>
  BY <1>0, <1>2, InPlace
<1>8. gone \subseteq InFrames(s)
  BY <1>3, <1>4, <1>7, InPlace
<1>9. ASSUME NEW y \in InFrames(frames)
      PROVE  y \in InFrames(s) /\ y \notin gone
  <2>1. CASE y \in InFrames(t)
    BY <1>4, <1>7, <2>1
  <2>2. CASE y \in In("frame", a, Len(s), rest)
    <3>1. y[4] \in f.msgs /\ y[4] # m /\ y = <<"frame", a, Len(s), y[4]>>
      BY <1>2, <2>2, InPlace
    <3>2. y \in In("frame", a, Len(s), f.msgs)
      BY <3>1, InPlace
    <3> QED
      BY <1>4, <1>7, <3>1, <3>2
  <2> QED
    BY <1>6, <2>1, <2>2
<1>10. \E S2 : frames \in Seq(S2)
  <2>1. CASE frames = t
    BY <1>4, <2>1
  <2>2. CASE frames = <<RecvFrame(a, rest)>> \o t
    <3>1. PICK g : g = RecvFrame(a, rest)
      OBVIOUS
    <3>2. t \in Seq(S \cup {g}) /\ <<g>> \in Seq(S \cup {g})
      BY <1>4
    <3>3. frames \in Seq(S \cup {g})
      BY <2>2, <3>1, <3>2
    <3> QED
      BY <3>3
  <2> QED
    BY <1>5, <2>1, <2>2 DEF PushRecv
<1>11. gone \subseteq Spots
  <2>1. gone \subseteq Framed(stack)
    BY <1>2, <1>8 DEF Framed
  <2> QED
    BY <2>1, SpotNames DEF Spots
<1>12. Contents(gone) = {m}
  BY <1>0, ContentsIn
<1> QED
  BY <1>0, <1>2, <1>7, <1>8, <1>9, <1>10, <1>11, <1>12

\* A message with its target.
Handled(r, m, a) ==
  /\ a = Top(r).actor /\ a \in Actor /\ a[2] = r
  /\ m \in Contents(Spots) /\ Known(m) /\ Stage(m, active, completed)
  /\ Target(m) = a /\ m.at = "cq"

\* A message of the top frame is for the actor of the frame.
LEMMA HandledFacts ==
  ASSUME IInv, MessageInv, NEW r \in Rank, ~Idle(r), NEW m \in Top(r).msgs
  PROVE  Handled(r, m, Top(r).actor)
<1>1. PICK gone : gone = AtTop(r, m)
  OBVIOUS
<1>2. /\ gone \subseteq Spots /\ Contents(gone) = {m}
      /\ \A y \in gone : y[1] = "frame" /\ y[2] = Top(r).actor /\ y[4] = m
  BY <1>1, RestFrames
<1>3. PICK x \in gone : x[4] = m
  BY <1>2 DEF Contents
<1>4. /\ m \in Contents(Spots) /\ Known(m) /\ Stage(m, active, completed)
      /\ Top(r).actor = Target(m) /\ m.at = "cq"
  BY <1>2, <1>3, SpotFacts
<1> QED
  BY <1>4, TopFrame DEF Handled

\* The ends of the flow, seen from the target of an ack,
LEMMA AckEnds ==
  ASSUME NEW r, NEW m, NEW a, Handled(r, m, a), m.type \in NicAcks
  PROVE  /\ IsAck(m) /\ Source(m) = a /\ SendId(m) = messageId(SEND, m.round, m.to)
         /\ SendActive(m, active) /\ isActive(a, SEND, m, m.to)
         /\ m.proto = "put" => RecvStarted(m, active, completed)
<1>1. IsAck(m) /\ ~IsPutHeader(m)
  BY DEF IsAck, IsPutHeader, NicAcks
<1>2. Source(m) = a /\ Sink(m)[2] = m.to
  BY <1>1 DEF Handled, Target, domTargetRank, Source, Sink
<1>3. AckStage(m, active, completed)
  BY DEF Handled, Stage, NicAcks, EagerStage, GetStage, PutStage
<1> QED
  BY <1>1, <1>2, <1>3 DEF AckStage, SendActive, SendId, isActive

\* ... of data for a receive.
LEMMA DataEnds ==
  ASSUME NEW r, NEW m, NEW a, Handled(r, m, a),
         m.type \in Payloads \/ (m.type = "smsg_send" /\ m.proto \in {"eager", "get"})
  PROVE  /\ ~IsAck(m) /\ Sink(m) = a /\ RecvId(m) = messageId(RECV, m.round, m.from)
         /\ m.proto # "put" => SendStarted(m, active, completed)
         /\ m.type \in Payloads => isActive(a, RECV, m, m.from)
         /\ isActive(a, RECV, m, m.from) = RecvActive(m, active)
<1>1. ~IsAck(m) /\ ~IsPutHeader(m)
  BY DEF IsAck, IsPutHeader, NicAcks, Payloads
<1>2. Sink(m) = a /\ Source(m)[2] = m.from
  BY <1>1 DEF Handled, Target, domTargetRank, Source, Sink, IsAck
<1>3. RecvId(m) = messageId(RECV, m.round, m.from)
  BY <1>2 DEF RecvId
<1>4. isActive(a, RECV, m, m.from) = RecvActive(m, active)
  BY <1>2, <1>3 DEF RecvActive, isActive
<1>5. /\ m.proto # "put" => SendStarted(m, active, completed)
      /\ m.type \in Payloads => RecvActive(m, active)
  BY <1>1 DEF Handled, Stage, AckStage, EagerStage, GetStage, PutStage, Payloads
<1> QED
  BY <1>1, <1>2, <1>3, <1>4, <1>5

\* commActionDone after an ack: the action is there.
LEMMA AckMessages ==
  ASSUME IInv, MessageInv, NEW r \in Rank, NEW m, NEW a, Handled(r, m, a), ~Idle(r),
         m \in Top(r).msgs, UNCHANGED <<job, initial, pending>>,
         recvAck(a, m, Rest(r, m))
  PROVE  MessageInv'
<1>1. /\ IsAck(m) /\ Source(m) = a /\ SendId(m) = messageId(SEND, m.round, m.to)
      /\ SendActive(m, active) /\ isActive(a, SEND, m, m.to)
      /\ m.proto = "put" => RecvStarted(m, active, completed)
  BY AckEnds DEF recvAck
<1>2. PICK id, frames, gone :
        /\ id = SendId(m) /\ frames = Rest(r, m)
        /\ gone = AtTop(r, m)
  OBVIOUS
<1>3. clearAction(a, id, result[a], frames) /\ UNCHANGED <<headerVars, net, aborted>>
  BY <1>1, <1>2 DEF recvAck
<1>4. /\ a \in Actor /\ a[2] = r /\ id \in active[a] /\ StateInv /\ job \in Jobs
      /\ m \in Contents(Spots) /\ Known(m) /\ FlowsOK(Contents(Spots), active, completed)
  BY <1>1, <1>2 DEF Handled, SendActive, IInv, DagInv, StateInv, MessageInv
<1>5. PhaseInv'
  BY <1>3, <1>4, ClearEffect, PhaseClear DEF MessageInv
<1>6. /\ \E S : frames \in Seq(S)
      /\ gone \subseteq InFrames(stack[a[2]]) /\ Contents(gone) = {m}
      /\ \A y \in InFrames(frames) : y \in InFrames(stack[a[2]]) /\ y \notin gone
  BY <1>2, <1>4, RestFrames
<1>7. PICK S : frames \in Seq(S)
  BY <1>6
<1>8. Past(Contents(Spots) \ Contents(gone), a, id)
  BY <1>1, <1>2, <1>4, <1>6, AckTaken DEF Past
<1>9. ASSUME NEW n, Known(n)
      PROVE  /\ ~(Sink(n) = a /\ RecvId(n) = id)
             /\ n.proto = "put" /\ Source(n) = a /\ SendId(n) = id =>
                  RecvStarted(n, active, completed)
  <2>1. ~(Sink(n) = a /\ RecvId(n) = id)
    BY <1>1, <1>2, <1>4, <1>9, SameFlow
  <2>2. ASSUME n.proto = "put", Source(n) = a, SendId(n) = id
        PROVE  RecvStarted(n, active, completed)
    <3>1. Flow(n) = Flow(m) /\ n.proto = m.proto
      BY <1>1, <1>2, <1>4, <1>9, <2>2, SameFlow
    <3> QED
      BY <1>1, <1>4, <2>2, <3>1, SameEnds
  <2> QED
    BY <2>1, <2>2
<1> QED
  BY <1>3, <1>4, <1>5, <1>6, <1>7, <1>8, <1>9, ClearMessages

\* dataRecved: the receive is there.
LEMMA DataMessages ==
  ASSUME IInv, MessageInv, NEW r \in Rank, NEW m, NEW a, Handled(r, m, a), ~Idle(r),
         m \in Top(r).msgs, UNCHANGED <<job, initial, pending, headerVars, net, aborted>>,
         m.type \in Payloads \/ (m.type = "smsg_send" /\ m.proto \in {"eager", "get"}),
         isActive(a, RECV, m, m.from), dataRecved(a, m, Rest(r, m))
  PROVE  MessageInv'
<1>1. /\ ~IsAck(m) /\ Sink(m) = a /\ RecvId(m) = messageId(RECV, m.round, m.from)
      /\ m.proto # "put" => SendStarted(m, active, completed)
  BY DataEnds
<1>2. PICK id, frames, gone :
        /\ id = RecvId(m) /\ frames = Rest(r, m)
        /\ gone = AtTop(r, m)
  OBVIOUS
<1>3. PICK buffer : clearAction(a, id, buffer, frames)
  BY <1>1, <1>2 DEF dataRecved
<1>4. /\ a \in Actor /\ a[2] = r /\ id \in active[a] /\ StateInv /\ job \in Jobs
      /\ m \in Contents(Spots) /\ Known(m) /\ FlowsOK(Contents(Spots), active, completed)
  BY <1>1, <1>2 DEF Handled, isActive, IInv, DagInv, StateInv, MessageInv
<1>5. PhaseInv'
  BY <1>3, <1>4, ClearEffect, PhaseClear DEF MessageInv
<1>6. /\ \E S : frames \in Seq(S)
      /\ gone \subseteq InFrames(stack[a[2]]) /\ Contents(gone) = {m}
      /\ \A y \in InFrames(frames) : y \in InFrames(stack[a[2]]) /\ y \notin gone
  BY <1>2, <1>4, RestFrames
<1>7. PICK S : frames \in Seq(S)
  BY <1>6
<1>8. Past(Contents(Spots) \ Contents(gone), a, id)
  BY <1>1, <1>2, <1>4, <1>6, DataTaken DEF Past
<1>9. ASSUME NEW n, Known(n)
      PROVE  /\ ~(Source(n) = a /\ SendId(n) = id)
             /\ n.proto # "put" /\ Sink(n) = a /\ RecvId(n) = id =>
                  SendStarted(n, active, completed)
  <2>1. ~(Source(n) = a /\ SendId(n) = id)
    BY <1>1, <1>2, <1>4, <1>9, SameFlow
  <2>2. ASSUME n.proto # "put", Sink(n) = a, RecvId(n) = id
        PROVE  SendStarted(n, active, completed)
    <3>1. Flow(n) = Flow(m) /\ n.proto = m.proto
      BY <1>1, <1>2, <1>4, <1>9, <2>2, SameFlow
    <3> QED
      BY <1>1, <1>4, <2>2, <3>1, SameEnds
  <2> QED
    BY <2>1, <2>2
<1> QED
  BY <1>3, <1>4, <1>5, <1>6, <1>7, <1>8, <1>9, ClearMessages

\* A header for an action that has not started is kept.
LEMMA QueuedMessages ==
  ASSUME IInv, MessageInv, NEW r \in Rank, NEW m, NEW a, Handled(r, m, a), ~Idle(r),
         m \in Top(r).msgs, UNCHANGED <<job, dagVars, early, net, aborted>>,
         SetStack(r, Rest(r, m)),
         \/ recvHeaders' = Queue(recvHeaders, a, m) /\ sendHeaders' = sendHeaders
         \/ sendHeaders' = Queue(sendHeaders, a, m) /\ recvHeaders' = recvHeaders
  PROVE  MessageInv'
<1>1. PICK place, frames, gone, new :
        /\ frames = Rest(r, m) /\ gone = AtTop(r, m)
        /\ \/ place = "recv" /\ recvHeaders' = Queue(recvHeaders, a, m) /\ sendHeaders' = sendHeaders
           \/ place = "send" /\ sendHeaders' = Queue(sendHeaders, a, m) /\ recvHeaders' = recvHeaders
        /\ new = In(place, a, 0, {m})
  OBVIOUS
<1>2. /\ a \in Actor /\ a[2] = r /\ Target(m) = a /\ m.at = "cq"
      /\ sendHeaders = [b \in Actor |-> sendHeaders[b]]
      /\ recvHeaders = [b \in Actor |-> recvHeaders[b]]
  BY DEF Handled, MessageInv, BoxInv
<1>3. /\ gone \subseteq InFrames(stack[r]) /\ gone \subseteq Spots /\ Contents(gone) = {m}
      /\ \A y \in InFrames(frames) : y \in InFrames(stack[r]) /\ y \notin gone
      /\ \A y \in gone : y[1] = "frame"
  BY <1>1, RestFrames
<1>4. /\ \A y \in new : y[2] = a /\ y[4] = m
      /\ \A y, z \in new : y[4] = z[4] => y = z
      /\ Contents(new) = {m}
  BY <1>1, InPlace, ContentsIn
<1>5. PhaseInv'
  BY PhaseSame DEF MessageInv
<1>6. BoxInv'
  BY <1>1, <1>2 DEF MessageInv, BoxInv, Actor, Queue
<1>7. \A y \in Boxed("recv", recvHeaders') : y \in Boxed("recv", recvHeaders) \/ y \in new
  <2>1. CASE recvHeaders' = recvHeaders
    BY <2>1
  <2>2. CASE place = "recv" /\ recvHeaders' = Queue(recvHeaders, a, m)
    <3>1. PICK box : box = recvHeaders'
      OBVIOUS
    <3>2. box = [recvHeaders EXCEPT ![a] = recvHeaders[a] \cup {m}] /\ new = In("recv", a, 0, {m})
      BY <1>1, <2>2, <3>1 DEF Queue
    <3> QED
      BY <1>2, <3>1, <3>2, BoxedMore
  <2> QED
    BY <1>1, <2>1, <2>2
<1>8. \A y \in Boxed("send", sendHeaders') : y \in Boxed("send", sendHeaders) \/ y \in new
  <2>1. CASE sendHeaders' = sendHeaders
    BY <2>1
  <2>2. CASE place = "send" /\ sendHeaders' = Queue(sendHeaders, a, m)
    <3>1. PICK box : box = sendHeaders'
      OBVIOUS
    <3>2. box = [sendHeaders EXCEPT ![a] = sendHeaders[a] \cup {m}] /\ new = In("send", a, 0, {m})
      BY <1>1, <2>2, <3>1 DEF Queue
    <3> QED
      BY <1>2, <3>1, <3>2, BoxedMore
  <2> QED
    BY <1>1, <2>1, <2>2
<1>9. Moves(r, frames, gone, new)
  <2>1. /\ \A y \in Boxed("recv", recvHeaders') : y \notin gone
        /\ \A y \in Boxed("send", sendHeaders') : y \notin gone
        /\ \A y \in Boxed("early", early') : y \in Boxed("early", early) /\ y \notin gone
        /\ \A y \in In("net", 0, 0, net') : y \in In("net", 0, 0, net) /\ y \notin gone
    BY <1>3, StillThere
  <2> QED
    BY <1>1, <1>3, <1>7, <1>8, <2>1 DEF Moves, SetStack
<1>10. Fits(gone, new)
  BY <1>2, <1>3, <1>4, SameMessages DEF Fits
<1> QED
  BY <1>5, <1>6, <1>9, <1>10, MovedMessages DEF dagVars

\* A header for an action that has is answered.
LEMMA AnsweredMessages ==
  ASSUME IInv, MessageInv, NEW r \in Rank, NEW m, NEW a, Handled(r, m, a), ~Idle(r),
         m \in Top(r).msgs, UNCHANGED <<job, dagVars, headerVars, early, aborted>>,
         SetStack(r, Rest(r, m)), NEW n, net' = net \cup {n}, n # m,
         Known(n), Stage(n, active, completed), Flow(n) = Flow(m),
         ~IsAck(m), ~IsAck(n), Unacked(n) => Unacked(m)
  PROVE  MessageInv'
<1>1. PICK frames, gone, new : /\ frames = Rest(r, m) /\ gone = AtTop(r, m)
                               /\ new = In("net", 0, 0, {n})
  OBVIOUS
<1>2. m \in Contents(Spots) /\ FlowsOK(Contents(Spots), active, completed)
  BY DEF Handled, MessageInv
<1>3. /\ gone \subseteq InFrames(stack[r]) /\ gone \subseteq Spots /\ Contents(gone) = {m}
      /\ \A y \in InFrames(frames) : y \in InFrames(stack[r]) /\ y \notin gone
      /\ \A y \in gone : y[1] = "frame"
  BY <1>1, RestFrames
<1>4. /\ \A y \in new : y[1] = "net" /\ y[4] = n
      /\ \A y, z \in new : y[4] = z[4] => y = z
      /\ Contents(new) = {n}
  BY <1>1, InPlace, ContentsIn
<1>5. PhaseInv'
  BY PhaseSame DEF MessageInv
<1>6. BoxInv'
  BY DEF MessageInv, BoxInv, Actor, headerVars
<1>7. Moves(r, frames, gone, new)
  <2>1. /\ \A y \in Boxed("recv", recvHeaders') : y \in Boxed("recv", recvHeaders) /\ y \notin gone
        /\ \A y \in Boxed("send", sendHeaders') : y \in Boxed("send", sendHeaders) /\ y \notin gone
        /\ \A y \in Boxed("early", early') : y \in Boxed("early", early) /\ y \notin gone
    BY <1>3, StillThere DEF headerVars
  <2>2. \A y \in In("net", 0, 0, net') : (y \in In("net", 0, 0, net) /\ y \notin gone) \/ y \in new
    BY <1>1, <1>3, InPlace
  <2> QED
    BY <1>1, <1>3, <2>1, <2>2 DEF Moves, SetStack
<1>8. Fits(gone, new)
  <2>1. n \notin Contents(Spots)
    BY <1>2 DEF FlowsOK
  <2>2. FlowsOK((Contents(Spots) \ {m}) \cup {n}, active, completed)
    BY <1>2, NextOfFlow
  <2> QED
    BY <1>3, <1>4, <2>1, <2>2 DEF Fits
<1> QED
  BY <1>5, <1>6, <1>7, <1>8, MovedMessages DEF dagVars

\* DagCollectiveActor::recv.
LEMMA RecvMessages ==
  ASSUME IInv, MessageInv, NEW r \in Rank, recv(r)
  PROVE  MessageInv'
<1>0. PICK a : a = Top(r).actor
  OBVIOUS
<1>1. ~Idle(r) /\ UNCHANGED <<job, initial, pending>>
  BY DEF recv, OnTop
<1>2. PICK m \in Top(r).msgs :
        \/ recvAck(a, m, Rest(r, m))
        \/ recvPayload(a, m, Rest(r, m))
        \/ incomingHeader(a, m, Rest(r, m))
  BY <1>0 DEF recv
<1>3. Handled(r, m, a) /\ a[2] = r /\ Known(m) /\ Stage(m, active, completed)
  BY <1>0, <1>1, HandledFacts DEF Handled
<1>4. CASE recvAck(a, m, Rest(r, m))
  BY <1>1, <1>3, <1>4, AckMessages
<1>5. CASE recvPayload(a, m, Rest(r, m))
  <2>1. isActive(a, RECV, m, m.from)
    BY <1>3, <1>5, DataEnds DEF recvPayload
  <2> QED
    BY <1>1, <1>3, <1>5, <2>1, DataMessages DEF recvPayload
<1>6. CASE incomingHeader(a, m, Rest(r, m))
  <2>1. m.type = "smsg_send" /\ UNCHANGED aborted /\ ~IsAck(m)
    BY <1>6 DEF incomingHeader, IsAck, NicAcks
  <2>2. ASSUME SetStack(r, Rest(r, m)), UNCHANGED <<net, active, completed, early>>,
               \/ recvHeaders' = Queue(recvHeaders, a, m) /\ sendHeaders' = sendHeaders
               \/ sendHeaders' = Queue(sendHeaders, a, m) /\ recvHeaders' = recvHeaders
        PROVE  MessageInv'
    BY <1>1, <1>3, <2>1, <2>2, QueuedMessages DEF dagVars
  <2>3. CASE m.proto = "eager" /\ isActive(a, RECV, m, m.from) /\ dataRecved(a, m, Rest(r, m))
             /\ UNCHANGED <<headerVars, net>>
    BY <1>1, <1>3, <2>1, <2>3, DataMessages
  <2>4. CASE /\ m.proto = "get" /\ isActive(a, RECV, m, m.from)
             /\ net' = net \cup {readyToGet(m)} /\ SetStack(r, Rest(r, m))
             /\ UNCHANGED <<headerVars, active, completed, early>>
    <3>1. PICK n : n = readyToGet(m)
      OBVIOUS
    <3>2. /\ n.type = "rdma_get_request" /\ n.proto = "get" /\ n.at = "wire" /\ n.tag = m.tag
          /\ n.from = m.from /\ n.to = m.to /\ n.round = m.round
          /\ n = Msg(n.type, n.proto, n.at, n.tag, n.from, n.to, n.round, n.data)
      BY <3>1 DEF readyToGet, Msg
    <3>3. Flow(n) = Flow(m) /\ ~IsAck(n) /\ n # m /\ Unacked(m)
      BY <2>1, <2>4, <3>2 DEF Flow, Source, Sink, IsPutHeader, IsAck, NicAcks, Unacked
    <3>4. RecvActive(m, active)
      BY <1>3, <2>1, <2>4, DataEnds
    <3>5. GetStage(m, active, completed)
      BY <1>3, <2>1, <2>4 DEF Stage, AckStage, EagerStage, PutStage
    <3>6. Known(n) /\ GetStage(n, active, completed)
      BY <1>3, <2>1, <2>4, <3>2, <3>3, <3>4, <3>5, SameEnds DEF GetStage
    <3> QED
      BY <1>1, <1>3, <2>1, <2>4, <3>1, <3>3, <3>6, AnsweredMessages DEF Stage, dagVars
  <2>5. CASE /\ m.proto = "put" /\ isActive(a, SEND, m, m.from)
             /\ net' = net \cup {readyToPut(m)} /\ SetStack(r, Rest(r, m))
             /\ UNCHANGED <<headerVars, active, completed, early>>
    <3>1. PICK n : n = readyToPut(m)
      OBVIOUS
    <3>2. /\ n.type = "rdma_put_payload" /\ n.proto = "put" /\ n.at = "nic" /\ n.tag = m.tag
          /\ n.from = m.to /\ n.to = m.from /\ n.round = m.round
          /\ n = Msg(n.type, n.proto, n.at, n.tag, n.from, n.to, n.round, n.data)
      BY <3>1 DEF readyToPut, Msg
    <3>3. Flow(n) = Flow(m) /\ ~IsAck(n) /\ n # m /\ Unacked(m)
      BY <2>1, <2>5, <3>2 DEF Flow, Source, Sink, IsPutHeader, IsAck, NicAcks, Unacked
    <3>4. SendActive(m, active)
      <4>1. Source(m) = a /\ Sink(m)[2] = m.from
        BY <1>3, <2>1, <2>5 DEF Handled, Target, domTargetRank, Source, Sink, IsPutHeader, IsAck
      <4> QED
        BY <2>5, <4>1 DEF SendActive, SendId, isActive
    <3>5. PutStage(m, active, completed)
      BY <1>3, <2>1, <2>5 DEF Stage, AckStage, EagerStage, GetStage
    <3>6. Known(n) /\ PutStage(n, active, completed)
      BY <1>3, <2>1, <2>5, <3>2, <3>3, <3>4, <3>5, SameEnds DEF PutStage
    <3> QED
      BY <1>1, <1>3, <2>1, <2>5, <3>1, <3>3, <3>6, AnsweredMessages DEF Stage, dagVars
  <2> QED
    BY <1>3, <1>6, <2>2, <2>3, <2>4, <2>5 DEF incomingHeader
<1> QED
  BY <1>2, <1>4, <1>5, <1>6

(***************************************************************************)
(* The NICs                                                                *)
(***************************************************************************)

\* A message on the network gives way to others of its flow.
LEMMA NetMessages ==
  ASSUME IInv, MessageInv, UNCHANGED nicVars, NEW m \in net, NEW sent,
         net' = (net \ {m}) \cup sent, \A n \in sent : n \notin Contents(Spots),
         FlowsOK((Contents(Spots) \ {m}) \cup sent, active, completed)
  PROVE  MessageInv'
<1>1. /\ UNCHANGED <<job, dagVars, early, sendHeaders, recvHeaders, stack, aborted>>
      /\ UNCHANGED <<active, completed>>
  BY DEF nicVars, engineVars, headerVars, dagVars
<1>2. PICK gone, new : gone = In("net", 0, 0, {m}) /\ new = In("net", 0, 0, sent)
  OBVIOUS
<1>3. /\ \A y \in gone : y[1] = "net" /\ y[4] = m
      /\ \A y \in new : y[1] = "net" /\ y[4] \in sent
      /\ \A y, z \in new : y[4] = z[4] => y = z
      /\ Contents(gone) = {m} /\ Contents(new) = sent
  <2>1. Contents(gone) = {m} /\ Contents(new) = sent
    BY <1>2, ContentsIn
  <2>2. \A y \in gone : y[1] = "net" /\ y[4] = m
    BY <1>2, InPlace
  <2>3. \A y \in new : y[1] = "net" /\ y[4] \in sent /\ y = <<"net", 0, 0, y[4]>>
    BY <1>2, InPlace
  <2> QED
    BY <2>1, <2>2, <2>3
<1>4. gone \subseteq Spots
  <2>1. gone \subseteq In("net", 0, 0, net)
    BY <1>2 DEF In
  <2> QED
    BY <2>1, SpotNames DEF Spots
<1>5. PICK r \in Rank : TRUE
  <2>1. PICK x \in gone : x[4] = m
    BY <1>3 DEF Contents
  <2>2. Target(m) \in Actor
    BY <1>4, <2>1, SpotFacts
  <2> QED
    BY <2>2, ActorParts DEF IInv, DagInv, StateInv
<1>6. PICK s : s = stack[r]
  OBVIOUS
<1>7. PhaseInv' /\ BoxInv'
  BY <1>1, PhaseSame DEF MessageInv, BoxInv, Actor
<1>8. Moves(r, s, gone, new)
  <2>1. /\ \A y \in Boxed("recv", recvHeaders') : y \in Boxed("recv", recvHeaders) /\ y \notin gone
        /\ \A y \in Boxed("send", sendHeaders') : y \in Boxed("send", sendHeaders) /\ y \notin gone
        /\ \A y \in Boxed("early", early') : y \in Boxed("early", early) /\ y \notin gone
    BY <1>1, <1>3, StillThere
  <2>2. \A y \in In("net", 0, 0, net') : (y \in In("net", 0, 0, net) /\ y \notin gone) \/ y \in new
    BY <1>2, <1>3, InPlace
  <2>3. stack' = [stack EXCEPT ![r] = s]
    BY <1>1, <1>6 DEF IInv, StackInv
  <2>4. \A y \in InFrames(s) : y \in InFrames(stack[r]) /\ y \notin gone
    <3>1. \A y \in InFrames(stack[r]) : y[1] = "frame"
      BY FrameOwner DEF IInv, StackInv
    <3> QED
      BY <1>3, <1>6, <3>1
  <2> QED
    BY <1>3, <1>4, <2>1, <2>2, <2>3, <2>4 DEF Moves
<1>9. Fits(gone, new)
  BY <1>3 DEF Fits
<1> QED
  BY <1>1, <1>7, <1>8, <1>9, MovedMessages

\* What is known of a message on the network.
LEMMA OnNet ==
  ASSUME MessageInv, NEW m \in net
  PROVE  /\ m \in Contents(Spots) /\ Known(m) /\ Stage(m, active, completed)
         /\ FlowsOK(Contents(Spots), active, completed)
<1>1. PICK x : x = <<"net", 0, 0, m>>
  OBVIOUS
<1>2. x \in Spots /\ x[4] = m
  <2>1. x \in In("net", 0, 0, net)
    BY <1>1, InPlace
  <2> QED
    BY <1>1, <2>1, SpotNames DEF Spots
<1> QED
  BY <1>2, SpotFacts DEF MessageInv

\* The NIC sends a message on and acks it.
LEMMA AckedMessages ==
  ASSUME IInv, MessageInv, UNCHANGED nicVars, NEW m \in net, NEW n, NEW k,
         net' = (net \ {m}) \cup {n, k}, Flow(n) = Flow(m), Flow(k) = Flow(m), n # m,
         Known(n), Known(k), Stage(n, active, completed), Stage(k, active, completed),
         Unacked(m), ~IsAck(m), ~IsAck(n), ~Unacked(n), IsAck(k), ~Unacked(k)
  PROVE  MessageInv'
<1>1. m \in Contents(Spots) /\ FlowsOK(Contents(Spots), active, completed)
  BY OnNet
<1>2. n \notin Contents(Spots) /\ k \notin Contents(Spots)
  BY <1>1 DEF FlowsOK
<1>3. FlowsOK((Contents(Spots) \ {m}) \cup {n, k}, active, completed)
  BY <1>1, AckedFlow
<1>4. PICK sent : sent = {n, k}
  OBVIOUS
<1> QED
  BY <1>2, <1>3, <1>4, NetMessages

\* The ack of a message, and the message as it is sent on.
LEMMA AckOf ==
  ASSUME NEW m, Known(m), NEW type \in NicAcks, m.at # "cq", m.type # "smsg_send" \/ m.proto = "eager",
         SendActive(m, active), m.proto = "put" => RecvActive(m, active),
         NEW k, k = Ack(m, type)
  PROVE  /\ Known(k) /\ Flow(k) = Flow(m) /\ IsAck(k) /\ ~Unacked(k)
         /\ Stage(k, active, completed)
<1>1. /\ k.type = type /\ k.at = "cq" /\ k.proto = m.proto /\ k.tag = m.tag /\ k.from = m.from
      /\ k.to = m.to /\ k.round = m.round
      /\ k = Msg(k.type, k.proto, k.at, k.tag, k.from, k.to, k.round, k.data)
  BY DEF Ack, Known, Msg
<1>2. IsAck(k) /\ ~Unacked(k) /\ Flow(k) = Flow(m)
  BY <1>1 DEF IsAck, NicAcks, Unacked, Flow, Source, Sink, IsPutHeader
<1>3. Known(k)
  BY <1>1, <1>2, SameEnds
<1>4. SendActive(k, active) /\ (k.proto = "put" => RecvStarted(k, active, completed))
  <2>1. RecvActive(m, active) => RecvStarted(m, active, completed)
    BY DEF RecvActive, RecvStarted
  <2> QED
    BY <1>1, <1>2, <2>1, SameEnds
<1> QED
  BY <1>1, <1>2, <1>3, <1>4 DEF Stage, AckStage

\* What the NIC makes of a message it sends on.
SentAs(m, type, at, data) == [m EXCEPT !.type = type, !.at = at, !.data = data]

\* A message the NIC sends on stays in its flow.
LEMMA SentOn ==
  ASSUME NEW m, Known(m), NEW type, NEW at, NEW data, NEW n,
         n = SentAs(m, type, at, data),
         ~IsPutHeader(m), type # "smsg_send" \/ m.proto # "put"
  PROVE  /\ n.type = type /\ n.at = at /\ n.proto = m.proto /\ Known(n) /\ Flow(n) = Flow(m)
<1>1. /\ n.type = type /\ n.at = at /\ n.proto = m.proto /\ n.tag = m.tag /\ n.from = m.from
      /\ n.to = m.to /\ n.round = m.round
      /\ n = Msg(n.type, n.proto, n.at, n.tag, n.from, n.to, n.round, n.data)
  BY DEF Known, Msg, SentAs
<1>2. Flow(n) = Flow(m)
  BY <1>1 DEF Flow, Source, Sink, IsPutHeader
<1>3. Known(n)
  BY <1>1, <1>2, SameEnds
<1> QED
  BY <1>1, <1>2, <1>3

\* injectSend: an eager message goes to the completion queue, a put to the
\* wire.
LEMMA InjectMessages ==
  ASSUME IInv, MessageInv, injectSend
  PROVE  MessageInv'
<1>1. PICK m \in net :
        /\ m.at = "nic"
        /\ LET data == SourceData(m, SendOf(m).nelems)
               sent == IF m.type = "smsg_send"
                       THEN {[m EXCEPT !.at = "cq", !.data = data],
                             Ack(m, "payload_sent_ack")}
                       ELSE {[m EXCEPT !.at = "wire", !.data = data],
                             Ack(m, "rdma_put_sent_ack")}
           IN  net' = (net \ {m}) \cup sent
        /\ UNCHANGED nicVars
  BY DEF injectSend
<1>2. PICK data : data = SourceData(m, SendOf(m).nelems)
  OBVIOUS
<1>3. Known(m) /\ Stage(m, active, completed) /\ m \in Contents(Spots)
  BY OnNet
<1>4. \/ EagerStage(m, active, completed) /\ SendActive(m, active)
      \/ /\ PutStage(m, active, completed) /\ m.type = "rdma_put_payload"
         /\ SendActive(m, active) /\ RecvActive(m, active)
  BY <1>1, <1>3 DEF Stage, AckStage, EagerStage, GetStage, PutStage
<1>5. CASE EagerStage(m, active, completed) /\ SendActive(m, active)
  <2>1. m.type = "smsg_send" /\ m.proto = "eager" /\ ~IsAck(m) /\ ~IsPutHeader(m) /\ Unacked(m)
    BY <1>1, <1>5 DEF EagerStage, IsAck, NicAcks, IsPutHeader, Unacked
  <2>2. PICK n, k : /\ n = SentAs(m, "smsg_send", "cq", data)
                    /\ k = Ack(m, "payload_sent_ack")
    OBVIOUS
  <2>3. n = [m EXCEPT !.at = "cq", !.data = data]
    BY <1>3, <2>1, <2>2 DEF Known, Msg, SentAs
  <2>4. net' = (net \ {m}) \cup {n, k}
    BY <1>1, <1>2, <2>1, <2>2, <2>3
  <2>5. /\ Known(k) /\ Flow(k) = Flow(m) /\ IsAck(k) /\ ~Unacked(k)
        /\ Stage(k, active, completed)
    BY <1>1, <1>3, <1>5, <2>1, <2>2, AckOf DEF NicAcks
  <2>6. n.type = "smsg_send" /\ n.at = "cq" /\ n.proto = "eager" /\ Known(n) /\ Flow(n) = Flow(m)
    BY <1>3, <2>1, <2>2, SentOn
  <2>7. ~IsAck(n) /\ ~Unacked(n) /\ n # m
    BY <1>1, <2>6 DEF IsAck, NicAcks, Unacked
  <2>8. EagerStage(n, active, completed)
    BY <1>3, <1>5, <2>6, SameEnds DEF EagerStage
  <2> QED
    BY <1>1, <2>1, <2>4, <2>5, <2>6, <2>7, <2>8, AckedMessages DEF Stage
<1>6. CASE /\ PutStage(m, active, completed) /\ m.type = "rdma_put_payload"
           /\ SendActive(m, active) /\ RecvActive(m, active)
  <2>1. m.proto = "put" /\ ~IsAck(m) /\ ~IsPutHeader(m) /\ Unacked(m)
    BY <1>1, <1>6 DEF PutStage, IsAck, NicAcks, IsPutHeader, Unacked
  <2>2. PICK n, k : /\ n = SentAs(m, "rdma_put_payload", "wire", data)
                    /\ k = Ack(m, "rdma_put_sent_ack")
    OBVIOUS
  <2>3. n = [m EXCEPT !.at = "wire", !.data = data]
    BY <1>3, <1>6, <2>2 DEF Known, Msg, SentAs
  <2>4. net' = (net \ {m}) \cup {n, k}
    BY <1>1, <1>2, <1>6, <2>2, <2>3
  <2>5. /\ Known(k) /\ Flow(k) = Flow(m) /\ IsAck(k) /\ ~Unacked(k)
        /\ Stage(k, active, completed)
    BY <1>1, <1>3, <1>6, <2>1, <2>2, AckOf DEF NicAcks
  <2>6. n.type = "rdma_put_payload" /\ n.at = "wire" /\ n.proto = "put" /\ Known(n) /\ Flow(n) = Flow(m)
    BY <1>3, <2>1, <2>2, SentOn
  <2>7. ~IsAck(n) /\ ~Unacked(n) /\ n # m
    BY <1>1, <2>6 DEF IsAck, NicAcks, Unacked
  <2>8. PutStage(n, active, completed)
    BY <1>3, <1>6, <2>6, SameEnds DEF PutStage
  <2> QED
    BY <1>1, <2>1, <2>4, <2>5, <2>6, <2>7, <2>8, AckedMessages DEF Stage
<1> QED
  BY <1>4, <1>5, <1>6

\* The NIC of the source answers a get.
LEMMA AnswerMessages ==
  ASSUME IInv, MessageInv, answerGet
  PROVE  MessageInv'
<1>1. PICK m \in net :
        /\ m.type = "rdma_get_request"
        /\ net' = (net \ {m}) \cup
                  {[m EXCEPT !.type = "rdma_get_payload",
                             !.data = SourceData(m, RecvOf(m).nelems)],
                   Ack(m, "rdma_get_sent_ack")}
        /\ UNCHANGED nicVars
  BY DEF answerGet
<1>2. PICK data : data = SourceData(m, RecvOf(m).nelems)
  OBVIOUS
<1>3. Known(m) /\ Stage(m, active, completed)
  BY OnNet
<1>4. /\ GetStage(m, active, completed) /\ m.at = "wire" /\ m.proto = "get"
      /\ SendActive(m, active) /\ RecvActive(m, active)
  BY <1>1, <1>3 DEF Stage, AckStage, EagerStage, GetStage, PutStage, IsAck, NicAcks
<1>5. ~IsAck(m) /\ ~IsPutHeader(m) /\ Unacked(m)
  BY <1>1 DEF IsAck, NicAcks, IsPutHeader, Unacked
<1>6. PICK n, k : /\ n = SentAs(m, "rdma_get_payload", "wire", data)
                  /\ k = Ack(m, "rdma_get_sent_ack")
  OBVIOUS
<1>7. n = [m EXCEPT !.type = "rdma_get_payload", !.data = data]
  BY <1>3, <1>4, <1>6 DEF Known, Msg, SentAs
<1>8. net' = (net \ {m}) \cup {n, k}
  BY <1>1, <1>2, <1>6, <1>7
<1>9. /\ Known(k) /\ Flow(k) = Flow(m) /\ IsAck(k) /\ ~Unacked(k)
      /\ Stage(k, active, completed)
  BY <1>1, <1>3, <1>4, <1>6, AckOf DEF NicAcks
<1>10. n.type = "rdma_get_payload" /\ n.at = "wire" /\ n.proto = "get" /\ Known(n) /\ Flow(n) = Flow(m)
  BY <1>3, <1>4, <1>5, <1>6, SentOn
<1>11. ~IsAck(n) /\ ~Unacked(n) /\ n # m
  BY <1>1, <1>10 DEF IsAck, NicAcks, Unacked
<1>12. GetStage(n, active, completed)
  BY <1>3, <1>4, <1>10, SameEnds DEF GetStage
<1> QED
  BY <1>1, <1>5, <1>8, <1>9, <1>10, <1>11, <1>12, AckedMessages DEF Stage

\* An RDMA payload lands.
LEMMA WireMessages ==
  ASSUME IInv, MessageInv, takeOffWire
  PROVE  MessageInv'
<1>1. PICK m \in net :
        /\ m.type \in Payloads /\ m.at = "wire"
        /\ net' = (net \ {m}) \cup {[m EXCEPT !.at = "cq", !.data = NoData]}
        /\ UNCHANGED nicVars
  BY DEF takeOffWire
<1>2. /\ Known(m) /\ Stage(m, active, completed) /\ m \in Contents(Spots)
      /\ FlowsOK(Contents(Spots), active, completed)
  BY OnNet
<1>3. ~IsAck(m) /\ ~IsPutHeader(m) /\ m.type # "smsg_send"
  BY <1>1 DEF IsAck, NicAcks, IsPutHeader, Payloads
<1>4. GetStage(m, active, completed) \/ PutStage(m, active, completed)
  BY <1>1, <1>2, <1>3 DEF Stage, AckStage, EagerStage
<1>5. PICK n : n = SentAs(m, m.type, "cq", NoData)
  OBVIOUS
<1>6. n = [m EXCEPT !.at = "cq", !.data = NoData]
  BY <1>2, <1>5 DEF Known, Msg, SentAs
<1>7. n.type = m.type /\ n.at = "cq" /\ n.proto = m.proto /\ Known(n) /\ Flow(n) = Flow(m)
  BY <1>2, <1>3, <1>5, SentOn
<1>8. ~IsAck(n) /\ ~Unacked(n) /\ n # m
  BY <1>1, <1>7 DEF IsAck, NicAcks, Unacked, Payloads
<1>9. Stage(n, active, completed)
  <2>1. CASE GetStage(m, active, completed)
    BY <1>1, <1>2, <1>7, <2>1, SameEnds DEF GetStage, Payloads, Stage
  <2>2. CASE PutStage(m, active, completed)
    BY <1>1, <1>2, <1>7, <2>2, SameEnds DEF PutStage, Payloads, Stage
  <2> QED
    BY <1>4, <2>1, <2>2
<1>10. n \notin Contents(Spots)
  BY <1>2, <1>3, <1>7, <1>8 DEF FlowsOK
<1>11. PICK sent : sent = {n}
  OBVIOUS
<1>12. FlowsOK((Contents(Spots) \ {m}) \cup sent, active, completed)
  BY <1>2, <1>3, <1>7, <1>8, <1>9, <1>11, NextOfFlow
<1> QED
  BY <1>1, <1>6, <1>10, <1>11, <1>12, NetMessages

(***************************************************************************)
(* The invariant of the messages                                           *)
(***************************************************************************)

\* MessageInv holds at the start.
LEMMA MessageInvInit == Init => MessageInv
<1> SUFFICES ASSUME Init
             PROVE  MessageInv
  OBVIOUS
<1>1. BoxInv /\ PhaseInv /\ NoProtocolAbort
  BY DEF Init, BoxInv, PhaseInv, Waiting, NoProtocolAbort
<1>2. \A y : y \notin Spots
  <2>1. \A y : y \notin In("net", 0, 0, net)
    BY InPlace DEF Init
  <2>2. \A y : /\ y \notin Boxed("early", early) /\ y \notin Boxed("send", sendHeaders)
               /\ y \notin Boxed("recv", recvHeaders)
    BY InBox DEF Init
  <2>3. ASSUME NEW y \in Framed(stack)
        PROVE  FALSE
    <3>1. PICK r \in Rank : y \in InFrames(stack[r])
      BY <2>3 DEF Framed
    <3>2. PICK s : s = stack[r] /\ Len(s) = 0
      BY DEF Init
    <3>3. \E h \in 1 .. Len(s) : TRUE
      BY <3>1, <3>2, InStack
    <3> QED
      BY <3>2, <3>3
  <2> QED
    BY <2>1, <2>2, <2>3, SpotNames DEF Spots
<1>3. SpotsOK(Spots) /\ FlowsOK(Contents(Spots), active, completed)
  BY <1>2 DEF SpotsOK, FlowsOK, Contents
<1>4. Linked(active, completed)
  BY DEF Init, Linked, Known, RecvOpen, SendOpen
<1> QED
  BY <1>1, <1>3, <1>4 DEF MessageInv

\* Every step keeps it.
LEMMA MessageInvStep == IInv /\ MessageInv /\ [Next]_vars => MessageInv'
<1> SUFFICES ASSUME IInv, MessageInv, [Next]_vars
             PROVE  MessageInv'
  OBVIOUS
<1>1. CASE UNCHANGED vars
  <2>1. /\ UNCHANGED <<early, sendHeaders, recvHeaders, stack, net, active, completed, job, aborted>>
        /\ UNCHANGED dagVars
    BY <1>1 DEF vars, dagVars
  <2>2. BoxInv' /\ PhaseInv'
    BY <2>1, PhaseSame DEF MessageInv, BoxInv, Actor
  <2>3. Spots' = Spots
    BY <2>1, NextSpots DEF Spots
  <2> QED
    BY <2>1, <2>2, <2>3, MessageStep DEF MessageInv, NoProtocolAbort
<1>2. CASE NicStep
  BY <1>2, InjectMessages, AnswerMessages, WireMessages DEF NicStep
<1>3. ASSUME NEW r \in Rank, RankStep(r)
      PROVE  MessageInv'
  BY <1>3, StartCollectiveMessages, IncomingMessages, StartLoopMessages,
     ClearDependenciesMessages, DeliverPendingMessages, RecvMessages DEF RankStep
<1> QED
  BY <1>1, <1>2, <1>3 DEF Next

\* commActionDone never aborts with "invalid action" and dataRecved never with
\* "unknown receive": whatever DAGs match, the action a message is about is
\* active when the message is handled, under every protocol and however
\* calls, deliveries and NICs interleave.
THEOREM ActionsAreFound == Spec => []NoProtocolAbort
<1>1. MessageInv => NoProtocolAbort
  BY DEF MessageInv
<1> QED
  BY <1>1, IInvInit, IInvStep, MessageInvInit, MessageInvStep, PTL DEF Spec

\* When a collective is reported as over, none of its messages is left that
\* would reach its deleted actor, and none that would read or write the
\* buffers its caller has back: no queued header, no early message, no ack,
\* no transfer from or to it.
THEOREM NothingComesLate == Spec => []DoneIsFinal
<1>1. ASSUME IInv, MessageInv
      PROVE  DoneIsFinal
  <2> SUFFICES ASSUME NEW a \in complete
               PROVE  /\ early[a] = {} /\ sendHeaders[a] = {} /\ recvHeaders[a] = {}
                      /\ \A m \in net :
                           /\ Target(m) # a
                           /\ <<m.tag, m.from>> = a =>
                                m.type # "rdma_get_request" /\ m.at # "nic"
    BY DEF DoneIsFinal
  <2>1. a \in Actor /\ Called(a) /\ initial[a] = {} /\ pending[a] = {} /\ active[a] = {}
    BY <1>1 DEF IInv, DagInv, StateInv, DoneInv
  <2>2. completed[a] = Ids(Actions(a))
    BY <1>1, <2>1 DEF IInv, DagInv, AccountInv, Waiting
  <2>3. ASSUME NEW m, Known(m)
        PROVE  /\ Source(m) = a => ~SendActive(m, active) /\ ~SendOpen(m, completed)
               /\ Sink(m) = a => ~RecvActive(m, active) /\ ~RecvOpen(m, completed)
    <3>1. /\ Source(m) = a => SendId(m) \in Ids(Actions(a))
          /\ Sink(m) = a => RecvId(m) \in Ids(Actions(a))
      BY <2>3 DEF Known, EndOf, SendId, RecvId, Ids
    <3> QED
      BY <2>1, <2>2, <3>1 DEF SendActive, SendOpen, RecvActive, RecvOpen
  <2>4. ASSUME NEW x \in Spots
        PROVE  /\ Target(x[4]) # a
               /\ <<x[4].tag, x[4].from>> = a => x[4].type # "rdma_get_request" /\ x[4].at # "nic"
    <3>1. PICK m : m = x[4]
      OBVIOUS
    <3>2. Known(m) /\ Stage(m, active, completed)
      BY <1>1, <2>4, <3>1, SpotFacts
    <3>3. CASE AckStage(m, active, completed)
      <4>1. IsAck(m) /\ ~IsPutHeader(m) /\ m.type # "rdma_get_request" /\ m.at = "cq"
        BY <3>3 DEF AckStage, IsAck, NicAcks, IsPutHeader
      <4>2. Source(m) = Target(m)
        BY <4>1 DEF Source, Target, domTargetRank, IsAck
      <4> QED
        BY <2>3, <3>1, <3>2, <3>3, <4>1, <4>2 DEF AckStage
    <3>4. CASE EagerStage(m, active, completed) \/ GetStage(m, active, completed)
      <4>1. ~IsAck(m) /\ ~IsPutHeader(m) /\ RecvOpen(m, completed)
        BY <3>4 DEF EagerStage, GetStage, IsAck, NicAcks, IsPutHeader
      <4>2. m.type = "rdma_get_request" \/ m.at = "nic" => SendActive(m, active)
        BY <3>4 DEF EagerStage, GetStage
      <4>3. Sink(m) = Target(m) /\ Source(m) = <<m.tag, m.from>>
        BY <4>1 DEF Source, Sink, Target, domTargetRank, IsAck
      <4> QED
        BY <2>3, <3>1, <3>2, <4>1, <4>2, <4>3
    <3>5. CASE PutStage(m, active, completed) /\ IsPutHeader(m)
      <4>1. ~IsAck(m) /\ SendOpen(m, completed) /\ m.at = "cq" /\ m.type = "smsg_send"
        BY <3>5 DEF PutStage, IsAck, NicAcks, IsPutHeader
      <4>2. Source(m) = Target(m)
        BY <3>5, <4>1 DEF Source, Target, domTargetRank, IsAck
      <4> QED
        BY <2>3, <3>1, <3>2, <4>1, <4>2
    <3>6. CASE PutStage(m, active, completed) /\ ~IsPutHeader(m)
      <4>1. /\ ~IsAck(m) /\ RecvActive(m, active) /\ m.type = "rdma_put_payload"
            /\ m.at = "nic" => SendActive(m, active)
        BY <3>6 DEF PutStage, IsAck, NicAcks, IsPutHeader
      <4>2. Sink(m) = Target(m) /\ Source(m) = <<m.tag, m.from>>
        BY <3>6, <4>1 DEF Source, Sink, Target, domTargetRank, IsAck
      <4> QED
        BY <2>3, <3>1, <3>2, <4>1, <4>2
    <3> QED
      BY <3>2, <3>3, <3>4, <3>5, <3>6 DEF Stage
  <2>5. ASSUME NEW place \in {"early", "send", "recv"}, NEW box, Boxed(place, box) \subseteq Spots
        PROVE  box[a] = {}
    <3> SUFFICES ASSUME NEW m \in box[a]
                 PROVE  FALSE
      OBVIOUS
    <3>1. PICK x : x = <<place, a, 0, m>>
      OBVIOUS
    <3>2. x \in Spots /\ x[1] # "net" /\ x[2] = a
      BY <2>1, <2>5, <3>1, InBox
    <3> QED
      BY <1>1, <2>4, <3>2, SpotFacts
  <2>6. /\ Boxed("early", early) \subseteq Spots /\ Boxed("send", sendHeaders) \subseteq Spots
        /\ Boxed("recv", recvHeaders) \subseteq Spots
    BY SpotNames DEF Spots
  <2>7. ASSUME NEW m \in net
        PROVE  /\ Target(m) # a
               /\ <<m.tag, m.from>> = a => m.type # "rdma_get_request" /\ m.at # "nic"
    <3>1. PICK x : x = <<"net", 0, 0, m>>
      OBVIOUS
    <3>2. x \in Spots /\ x[4] = m
      <4>1. x \in In("net", 0, 0, net)
        BY <3>1, InPlace
      <4> QED
        BY <3>1, <4>1, SpotNames DEF Spots
    <3> QED
      BY <2>4, <3>2
  <2> QED
    BY <2>5, <2>6, <2>7
<1> QED
  BY <1>1, IInvInit, IInvStep, MessageInvInit, MessageInvStep, PTL DEF Spec
=============================================================================
