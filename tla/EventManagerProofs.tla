------------------------ MODULE EventManagerProofs ------------------------
(***************************************************************************)
(* The event managers of any number of processes and threads, with any     *)
(* links, are one conservative simulation, and never run backwards.  Every *)
(* action of the epoch loop keeps the invariant: first the steps of a      *)
(* thread inside an epoch, then those of the main thread between two.  A   *)
(* handler that runs, and a stop, is a step of the conservative            *)
(* simulation; the others leave its events and clocks as they are.         *)
(***************************************************************************)
EXTENDS EventManagerInv

LEMMA StatusFrame ==
  ASSUME SameEpochs, UNCHANGED lastHorizon,
         NEW n \in WorkerMgr, pc'[n] = pc[n], delta'[n] = delta[n], horizon'[n] = horizon[n]
  PROVE  /\ Idle(n)' = Idle(n) /\ Behind(n)' = Behind(n) /\ Called(n)' = Called(n)
         /\ Busy(n)' = Busy(n) /\ Ended(n)' = Ended(n)
<1>1. n[1] \in Proc /\ MainOf(n) = Main(n[1])
  BY MgrFacts DEF MainOf
<1>2. /\ InEpoch(n[1])' = InEpoch(n[1])
      /\ (pc'[Main(n[1])] = "done") = (pc[Main(n[1])] = "done")
      /\ horizon'[Main(n[1])] = horizon[Main(n[1])]
  BY <1>1 DEF SameEpochs, InEpoch
<1>3. Current(n)' = Current(n) /\ Growth(n[1])' = Growth(n[1])
  BY <1>1, <1>2 DEF Current, Growth, MainOf
<1> QED
  BY <1>1, <1>2, <1>3 DEF Idle, Behind, Called, Busy, Ended, MainOf

LEMMA VoteFrame ==
  ASSUME SameEpochs, NEW n \in Mgr, VoteInv,
         queue'[n] = queue[n], minIpc'[n] = minIpc[n], pc'[n] = pc[n], horizon'[n] = horizon[n], minTime'[n] = minTime[n],
         Finished(n) /\ pc[n] # "join" => \A c \in Children(n) : minTime'[c] = minTime[c]
  PROVE  /\ Registered(n)' => minIpc'[n] = NoEvents \/ horizon'[n] <= minIpc'[n]
         /\ Finished(n)' =>
              /\ minTime'[n] <= minIpc'[n]
              /\ minTime'[n] = NoEvents \/ horizon'[n] <= minTime'[n]
              /\ \A e \in queue'[n] : minTime'[n] <= e.time /\ horizon'[n] <= e.time
         /\ Finished(n)' /\ pc'[n] # "join" => \A c \in Children(n) : minTime'[n] <= minTime'[c]
<1>1. n[1] \in Proc /\ MainOf(n) = Main(n[1])
  BY MgrFacts DEF MainOf
<1>2. /\ InEpoch(n[1])' = InEpoch(n[1]) /\ Exchanging(n[1])' = Exchanging(n[1])
      /\ horizon'[Main(n[1])] = horizon[Main(n[1])]
  BY <1>1 DEF SameEpochs, InEpoch, Exchanging
<1>3. Registered(n)' = Registered(n) /\ Finished(n)' = Finished(n)
  BY <1>1, <1>2 DEF Registered, Finished, Current, MainOf
<1> QED
  BY <1>3 DEF VoteInv, VoteOk

\* The growth of the horizon never looks like the sign to end.
LEMMA GrowthFacts ==
  ASSUME IInv, NEW p \in Proc, InEpoch(p)
  PROVE  /\ Growth(p) \in Nat /\ Growth(p) # 0 /\ Growth(p) # NoEvents
         /\ lastHorizon[p] + Growth(p) = horizon[Main(p)] /\ lastHorizon[p] # horizon[Main(p)]
<1>1. lastHorizon[p] < horizon[Main(p)] /\ horizon[Main(p)] < lastHorizon[p] + NoEvents
  BY DEF IInv, TimeInv, EpochInv, EpochOk
<1>2. lastHorizon[p] \in Nat /\ horizon[Main(p)] \in Nat
  BY MgrFacts DEF IInv, TypeInv, ManagerTypes, ProcessTypes
<1> QED
  BY <1>1, <1>2, ConstantFacts DEF Growth

\* The states of a worker exclude each other.
LEMMA StatusFacts ==
  ASSUME IInv, NEW m \in WorkerMgr
  PROVE  /\ Idle(m) => ~Behind(m) /\ ~Called(m) /\ ~Busy(m) /\ (pc[m] = "wait" => ~Ended(m))
         /\ Behind(m) => ~Called(m) /\ ~Busy(m) /\ ~Ended(m)
         /\ Called(m) => ~Busy(m) /\ ~Ended(m)
         /\ Busy(m) => ~Ended(m)
<1>1. m[1] \in Proc /\ MainOf(m) = Main(m[1])
  BY MgrFacts DEF MainOf
<1>2. InEpoch(m[1]) => /\ Growth(m[1]) # 0 /\ lastHorizon[m[1]] # horizon[Main(m[1])]
                       /\ pc[Main(m[1])] # "done"
  BY <1>1, GrowthFacts DEF InEpoch
<1> QED
  BY <1>1, <1>2, ConstantFacts DEF Idle, Behind, Called, Busy, Ended, Current

(***************************************************************************)
(* A worker that is called, or told to end.                                *)
(***************************************************************************)
LEMMA WakeStep ==
  ASSUME IInv, NEW m \in WorkerMgr, Wake(m)
  PROVE  IInv' /\ UNCHANGED <<Unhandled, now>>
<1> DEFINE p == m[1]
<1>0. m \in Mgr /\ p \in Proc /\ MainOf(m) = Main(p) /\ Main(p) \in Mgr /\ m # Main(p)
  BY MgrFacts DEF MainOf
<1>1. TypeInv'
  BY <1>0, ThreadTypes DEF IInv
<1>2. pc[m] = "wait" /\ delta[m] # 0
  BY DEF Wake
<1>3. Called(m) \/ (Ended(m) /\ delta[m] = NoEvents)
  BY <1>2 DEF IInv, ThreadInv, WorkerInv, WorkerOk, Idle, Behind, Busy, Called, Ended
<1>4. UNCHANGED <<mgrVars, minTime, procVars, sendBuf, net>>
  BY DEF Wake
<1>5. \A n \in Mgr \ {m} : pc'[n] = pc[n] /\ horizon'[n] = horizon[n]
  BY <1>0, <1>2 DEF Wake, IInv, TypeInv, ManagerTypes
<1>6. SameEpochs
  <2>1. \A q \in Proc : Main(q) \in Mgr \ {m}
    BY MgrFacts
  <2> QED
    BY <1>4, <1>5, <2>1 DEF SameEpochs, InEpoch, mgrVars
<1>7. \A c \in WorkerMgr : delta'[c] = IF c \in Children(m) THEN delta[c] + delta[m] ELSE delta[c]
  BY DEF Wake, Signal
<1>8. \A c \in Children(m) : c \in WorkerMgr /\ c \in Mgr /\ c[1] = p /\ c # m /\ MainOf(c) = Main(p)
  BY <1>0, ChildFacts DEF MainOf
<1>9. pc'[m] \in {"register", "done"} /\ pc'[m] # "wait" /\ (pc'[m] = "register" <=> Called(m))
  <2>1. pc'[m] = IF delta[m] = NoEvents THEN "done" ELSE "register"
    BY <1>0 DEF Wake, terminate_sentinel, IInv, TypeInv, ManagerTypes
  <2>2. Called(m) => delta[m] # NoEvents
    BY <1>0, GrowthFacts DEF Called
  <2> QED
    BY <1>3, <2>1, <2>2
<1>10. Called(m) => InEpoch(p) /\ horizon[m] = lastHorizon[p] /\ horizon'[m] = horizon[Main(p)]
  <2> SUFFICES ASSUME Called(m) PROVE InEpoch(p) /\ horizon[m] = lastHorizon[p] /\ horizon'[m] = horizon[Main(p)]
    OBVIOUS
  <2>1. InEpoch(p) /\ delta[m] = Growth(p) /\ horizon[m] = lastHorizon[p]
    BY DEF Called
  <2>2. Growth(p) # NoEvents /\ lastHorizon[p] + Growth(p) = horizon[Main(p)]
    BY <1>0, <2>1, GrowthFacts
  <2>3. horizon'[m] = horizon[m] + delta[m]
    BY <1>0, <2>1, <2>2 DEF Wake, terminate_sentinel, IInv, TypeInv, ManagerTypes
  <2> QED
    BY <2>1, <2>2, <2>3
<1>11. Ended(m) => horizon'[m] = horizon[m]
  BY <1>0, <1>2, <1>3, StatusFacts DEF Wake, Ended, terminate_sentinel, IInv, TypeInv, ManagerTypes
<1>12. SameRegistered
  <2>1. Called(m) => ~Registered(m) /\ ~Registered(m)'
    <3>1. Called(m) => lastHorizon[p] # horizon[Main(p)]
      BY <1>0, <1>10, GrowthFacts
    <3> QED
      BY <1>0, <1>9, <1>10, <3>1 DEF Registered, Current
  <2>2. Ended(m) => Registered(m) /\ Registered(m)'
    <3>1. ~Called(m) \/ ~Ended(m)
      BY StatusFacts
    <3> QED
      BY <1>0, <1>2, <1>3, <1>5, <1>9, <1>11, <3>1 DEF Registered, Current, Ended, MainOf
  <2>3. ASSUME NEW n \in Mgr, n # m
        PROVE  Registered(n)' = Registered(n)
    <3>1. MainOf(n) \in Mgr \ {m}
      BY MgrFacts DEF MainOf
    <3> QED
      BY <1>5, <2>3, <3>1 DEF Registered, Current, MainOf
  <2>4. \A q \in Proc : horizon'[Main(q)] = horizon[Main(q)]
    BY <1>6 DEF SameEpochs
  <2> QED
    <3>1. \A n \in Mgr : Registered(n)' = Registered(n)
      BY <1>3, <2>1, <2>2, <2>3 DEF Registered
    <3>2. slot' = slot /\ pending' = pending /\ minIpc' = minIpc /\ stopped' = stopped
      BY <1>4 DEF mgrVars
    <3> QED
      BY <2>4, <3>1, <3>2 DEF SameRegistered
<1>13. SameEvents /\ UNCHANGED <<lowerBound, lastHorizon, votes, numSent, tag, net>>
  BY <1>4 DEF SameEvents, mgrVars, procVars
<1>14. \A n \in Mgr : stopped[n] => horizon[n] <= horizon'[n]
  <2>1. \A n \in Mgr : stopped[n] => Registered(n)
    BY DEF IInv, TimeInv, StopInv, StoppedOk
  <2>2. Called(m) => ~Registered(m)
    <3>1. Called(m) => lastHorizon[p] # horizon[Main(p)]
      BY <1>0, <1>10, GrowthFacts
    <3> QED
      BY <1>0, <1>10, <3>1 DEF Registered, Current
  <2>3. \A n \in Mgr : horizon[n] \in Nat
    BY DEF IInv, TypeInv, ManagerTypes
  <2> QED
    BY <1>0, <1>3, <1>5, <1>11, <2>1, <2>2, <2>3
<1> HIDE DEF p
<1>15. \A n \in WorkerMgr : n # m /\ n \notin Children(m) =>
         /\ Idle(n)' = Idle(n) /\ Behind(n)' = Behind(n) /\ Called(n)' = Called(n)
         /\ Busy(n)' = Busy(n) /\ Ended(n)' = Ended(n) /\ pc'[n] = pc[n]
  <2> SUFFICES ASSUME NEW n \in WorkerMgr, n # m, n \notin Children(m)
               PROVE  /\ Idle(n)' = Idle(n) /\ Behind(n)' = Behind(n) /\ Called(n)' = Called(n)
                      /\ Busy(n)' = Busy(n) /\ Ended(n)' = Ended(n) /\ pc'[n] = pc[n]
    OBVIOUS
  <2>1. pc'[n] = pc[n] /\ horizon'[n] = horizon[n] /\ delta'[n] = delta[n]
    BY <1>5, <1>7, MgrFacts
  <2> QED
    BY <1>6, <1>13, <2>1, StatusFrame
<1>16. \A c \in Children(m) :
         /\ Called(m) => Behind(c) /\ Called(c)'
         /\ Ended(m) => Idle(c) /\ Ended(c)' /\ pc'[c] = "wait"
  <2> SUFFICES ASSUME NEW c \in Children(m)
               PROVE  /\ Called(m) => Behind(c) /\ Called(c)'
                      /\ Ended(m) => Idle(c) /\ Ended(c)' /\ pc'[c] = "wait"
    OBVIOUS
  <2>1. /\ pc'[c] = pc[c] /\ horizon'[c] = horizon[c] /\ delta'[c] = delta[c] + delta[m]
        /\ InEpoch(p)' = InEpoch(p) /\ Growth(p)' = Growth(p) /\ lastHorizon' = lastHorizon
        /\ horizon'[Main(p)] = horizon[Main(p)]
        /\ (pc[Main(p)] = "done" => pc'[Main(p)] = "done")
        /\ delta[m] \in Nat
    BY <1>0, <1>5, <1>6, <1>7, <1>8, <1>13 DEF SameEpochs, Growth, InEpoch, IInv, TypeInv, ManagerTypes
  <2>2. Called(m) => Behind(c)
    BY DEF IInv, ThreadInv, TreeInv, TreeOk, RootOk
  <2>3. Ended(m) => Idle(c)
    BY <1>2 DEF IInv, ThreadInv, TreeInv, TreeOk, RootOk
  <2>4. Called(m) => Called(c)'
    <3> SUFFICES ASSUME Called(m) PROVE Called(c)'
      OBVIOUS
    <3>1. delta[m] = Growth(p) /\ InEpoch(p)
      BY DEF Called, p
    <3>2. pc[c] = "wait" /\ delta[c] = 0 /\ horizon[c] = lastHorizon[p]
      BY <1>8, <2>2 DEF Behind
    <3>3. delta'[c] = Growth(p)
      BY <2>1, <3>1, <3>2
    <3> QED
      BY <1>8, <2>1, <3>1, <3>2, <3>3 DEF Called
  <2>5. Ended(m) => Ended(c)' /\ pc'[c] = "wait"
    <3>1. Ended(m) => delta[m] = NoEvents
      BY <1>3, StatusFacts
    <3> QED
      BY <1>0, <1>8, <2>1, <2>3, <3>1 DEF Idle, Ended, Current, MainOf
  <2> QED
    BY <2>2, <2>3, <2>4, <2>5
<1>17. Called(m) => Busy(m)'
  <2> SUFFICES ASSUME Called(m) PROVE Busy(m)'
    OBVIOUS
  <2>1. delta'[m] = delta[m]
    BY <1>7, <1>8
  <2>2. InEpoch(p)' /\ Growth(p)' = Growth(p) /\ horizon'[Main(p)] = horizon[Main(p)]
    BY <1>0, <1>6, <1>10, <1>13 DEF SameEpochs, Growth
  <2> QED
    BY <1>0, <1>9, <1>10, <2>1, <2>2 DEF Busy, Called, Current, MainOf, p
<1>18. Ended(m) => Ended(m)' /\ pc'[m] = "done"
  <2> SUFFICES ASSUME Ended(m) PROVE Ended(m)' /\ pc'[m] = "done"
    OBVIOUS
  <2>1. pc'[m] = "done"
    BY <1>9, StatusFacts
  <2>2. pc'[Main(p)] = "done" /\ horizon'[Main(p)] = horizon[Main(p)]
    BY <1>0, <1>5 DEF Ended
  <2> QED
    BY <1>0, <1>11, <2>1, <2>2 DEF Ended, Current, MainOf
<1>19. WorkerInv'
  BY <1>3, <1>15, <1>16, <1>17, <1>18 DEF WorkerInv, WorkerOk, IInv, ThreadInv
<1>20. TreeInv'
  <2>0. TreeInv /\ WorkerInv
    BY DEF IInv, ThreadInv
  <2>1. ASSUME NEW n \in WorkerMgr, NEW c \in Children(n)
        PROVE  /\ (Behind(n) \/ Called(n))' => Behind(c)'
               /\ Busy(n)' => ~Behind(c)'
               /\ (Idle(n) \/ (Ended(n) /\ pc[n] = "wait"))' => Idle(c)'
    <3>0. n \in Mgr /\ c \in WorkerMgr /\ c # n
      BY MgrFacts, ChildFacts
    <3>1. /\ Behind(n) \/ Called(n) => Behind(c)
          /\ Busy(n) => ~Behind(c)
          /\ Idle(n) \/ (Ended(n) /\ pc[n] = "wait") => Idle(c)
      BY <2>0 DEF TreeInv, TreeOk, RootOk
    <3>2. CASE n = m
      <4>1. CASE Called(m)
        <5>1. Called(c)' /\ Busy(m)'
          BY <1>16, <1>17, <3>2, <4>1
        <5>2. ~Behind(c)' /\ ~Idle(c)'
          <6>1. delta'[c] # 0
            <7>1. delta[m] \in Nat /\ delta[c] \in Nat
              BY <3>0 DEF IInv, TypeInv, ManagerTypes
            <7> QED
              BY <1>2, <1>7, <3>0, <3>2, <7>1
          <6> QED
            BY <6>1 DEF Behind, Idle
        <5> QED
          BY <1>9, <3>2, <4>1, <5>1, <5>2 DEF Behind, Called, Idle, Ended
      <4>2. CASE Ended(m)
        BY <1>18, <3>2, <4>2 DEF Behind, Called, Busy, Idle
      <4> QED
        BY <1>3, <4>1, <4>2
    <3>3. CASE n # m /\ n \in Children(m)
      <4>1. c # m /\ c \notin Children(m)
        <5>1. c \notin Children(m)
          BY <1>0, <3>0, <3>3, ChildFacts
        <5>2. ASSUME c = m PROVE FALSE
          <6>1. Called(m) => Behind(n) /\ Behind(m)
            BY <1>16, <3>1, <3>3, <5>2
          <6>2. Ended(m) => Idle(n) /\ Idle(m)
            BY <1>16, <3>1, <3>3, <5>2
          <6> QED
            BY <1>2, <1>3, <6>1, <6>2 DEF Behind, Idle
        <5> QED
          BY <5>1, <5>2
      <4>2. Idle(c)' = Idle(c) /\ Behind(c)' = Behind(c)
        BY <1>15, <3>0, <4>1
      <4>3. CASE Called(m)
        <5>1. Behind(n) /\ Called(n)'
          BY <1>16, <3>3, <4>3
        <5>2. ~Busy(n)' /\ ~Idle(n)' /\ ~Ended(n)'
          <6>1. InEpoch(n[1])' /\ pc'[n] = "wait" /\ delta'[n] # 0
            <7>1. delta[m] \in Nat /\ delta[n] \in Nat
              BY DEF IInv, TypeInv, ManagerTypes
            <7> QED
              BY <1>2, <1>7, <3>3, <5>1, <7>1 DEF Called
          <6>2. pc'[MainOf(n)] # "done"
            BY <6>1 DEF InEpoch, MainOf
          <6> QED
            BY <6>1, <6>2 DEF Busy, Idle, Ended
        <5> QED
          BY <3>1, <4>2, <5>1, <5>2
      <4>4. CASE Ended(m)
        <5>1. Idle(n) /\ Ended(n)' /\ pc'[n] = "wait"
          BY <1>16, <3>3, <4>4
        <5>2. ~InEpoch(n[1])'
          BY <5>1 DEF InEpoch, Ended, MainOf
        <5> QED
          BY <3>1, <4>2, <5>1, <5>2 DEF Behind, Called, Busy
      <4> QED
        BY <1>3, <4>3, <4>4
    <3>4. CASE n # m /\ n \notin Children(m)
      <4>0. /\ Idle(n)' = Idle(n) /\ Behind(n)' = Behind(n) /\ Called(n)' = Called(n)
            /\ Busy(n)' = Busy(n) /\ Ended(n)' = Ended(n) /\ pc'[n] = pc[n]
        BY <1>15, <3>4
      <4>1. CASE c = m
        <5>1. ~Behind(m) /\ ~Idle(m) /\ ~Behind(m)' /\ ~Idle(m)'
          BY <1>2, <1>9 DEF Behind, Idle
        <5> QED
          BY <3>1, <4>0, <4>1, <5>1
      <4>2. CASE c # m
        <5>1. c \notin Children(m)
          BY <1>0, <3>0, <3>4, ChildFacts
        <5>2. Idle(c)' = Idle(c) /\ Behind(c)' = Behind(c)
          BY <1>15, <3>0, <4>2, <5>1
        <5> QED
          BY <3>1, <4>0, <5>2
      <4> QED
        BY <4>1, <4>2
    <3> QED
      BY <3>2, <3>3, <3>4
  <2>2. ASSUME NEW q \in Proc, InEpoch(q)', NEW c \in Children(Main(q))
        PROVE  ~Behind(c)'
    <3>1. InEpoch(q)
      BY <1>6, <2>2 DEF SameEpochs
    <3>2. ~Behind(c) /\ c \in WorkerMgr /\ c \notin Children(m)
      BY <1>0, <2>0, <2>2, <3>1, ChildFacts, MgrFacts DEF TreeInv, TreeOk, RootOk
    <3>3. CASE c = m
      BY <1>9, <3>3 DEF Behind
    <3>4. CASE c # m
      BY <1>15, <3>2, <3>4
    <3> QED
      BY <3>3, <3>4
  <2> QED
    BY <2>1, <2>2 DEF TreeInv, TreeOk, RootOk
<1>21. VoteInv'
  <2>1. VoteInv /\ UNCHANGED <<queue, minIpc, minTime>>
    BY <1>4 DEF IInv, ThreadInv, mgrVars
  <2>2. Registered(m)' => minIpc'[m] = NoEvents \/ horizon'[m] <= minIpc'[m]
    <3>1. Registered(m)' = Registered(m)
      BY <1>0, <1>12 DEF SameRegistered
    <3>2. Registered(m) => Ended(m)
      BY <1>0, <1>3, <1>10, GrowthFacts DEF Registered, Current
    <3> QED
      BY <1>0, <1>11, <2>1, <3>1, <3>2 DEF VoteInv, VoteOk
  <2>3. ~Finished(m)'
    BY <1>9 DEF Finished
  <2> QED
    BY <1>5, <1>6, <2>1, <2>2, <2>3, VoteFrame DEF VoteInv, VoteOk
<1>22. ThreadInv'
  BY <1>19, <1>20, <1>21 DEF ThreadInv
<1>23. ReduceInv'
  BY <1>4, <1>6 DEF ReduceInv, SameEpochs, InEpoch, procVars, IInv, MessageInv
<1>24. EpochInv' /\ SameBound' /\ TagInv' /\ NetInv' /\ RecvInv'
  BY <1>6, <1>13, EpochFrame
<1>25. NotBefore' /\ StopInv' /\ SerializedInv' /\ BufferInv' /\ Unhandled' = Unhandled
  BY <1>1, <1>6, <1>12, <1>13, <1>14, EventFrame
<1>26. SlotInv' /\ PendingInv'
  BY <1>12, FlightFrame
<1> QED
  BY <1>1, <1>13, <1>22, <1>23, <1>24, <1>25, <1>26
  DEF IInv, TimeInv, FlightInv, MessageInv, SameEvents

(***************************************************************************)
(* The steps of runEvents: the thread stays in its epoch.                  *)
(***************************************************************************)
LEMMA RunningThread ==
  ASSUME IInv, NEW m \in Mgr, pc[m] \in {"register", "run", "join"}
  PROVE  /\ m[1] \in Proc /\ MainOf(m) = Main(m[1]) /\ Main(m[1]) \in Mgr
         /\ InEpoch(m[1]) /\ Current(m) /\ horizon[m] = horizon[Main(m[1])]
         /\ m \in WorkerMgr => Busy(m)
<1>1. m[1] \in Proc /\ MainOf(m) = Main(m[1]) /\ Main(m[1]) \in Mgr
  BY MgrFacts DEF MainOf
<1>2. CASE m \in WorkerMgr
  <2>1. Busy(m)
    BY <1>2 DEF IInv, ThreadInv, WorkerInv, WorkerOk, Idle, Behind, Called, Ended
  <2> QED
    BY <1>1, <2>1 DEF Busy, Current
<1>3. CASE m = Main(m[1])
  BY <1>1, <1>3, MgrFacts DEF InEpoch, Current
<1> QED
  BY <1>2, <1>3, MgrFacts

\* A thread that others wait for is not under one that has given its vote.
LEMMA VoteIsFinal ==
  ASSUME IInv, NEW m \in Mgr, pc[m] \in {"register", "run", "join"},
         NEW n \in Mgr, Finished(n), pc[n] # "join", NEW c \in Children(n)
  PROVE  c # m
<1>1. c \in WorkerMgr /\ c \in Mgr /\ c[1] = n[1] /\ n[1] \in Proc
  BY ChildFacts, MgrFacts
<1>2. CASE n \in WorkerMgr
  <2>1. Idle(n) \/ Ended(n)
    BY <1>2, GrowthFacts, MgrFacts
    DEF IInv, ThreadInv, WorkerInv, WorkerOk, Finished, Behind, Called, Busy, Current, MainOf
  <2>2. ~Ended(n)
    BY DEF Finished, InEpoch, Exchanging, Ended, MainOf
  <2>3. Idle(c)
    BY <1>2, <2>1, <2>2 DEF IInv, ThreadInv, TreeInv, TreeOk, RootOk
  <2> QED
    BY <2>3 DEF Idle
<1>3. CASE n = Main(n[1])
  <2>1. ~InEpoch(n[1])
    BY <1>1, <1>3 DEF Finished, InEpoch, IInv, TimeInv, EpochInv, EpochOk
  <2>2. InEpoch(m[1])
    BY RunningThread
  <2> QED
    BY <1>1, <2>1, <2>2
<1> QED
  BY <1>2, <1>3, MgrFacts

LEMMA RunFrame ==
  ASSUME IInv, NEW m \in Mgr, pc[m] \in {"register", "run", "join"},
         NEW l \in {"register", "run", "join"}, pc' = [pc EXCEPT ![m] = l],
         UNCHANGED <<horizon, delta, lastHorizon>>,
         UNCHANGED stopped \/ stopped' = [stopped EXCEPT ![m] = TRUE]
  PROVE  /\ SameEpochs /\ WorkerInv' /\ TreeInv'
         /\ \A n \in Mgr : n # m => (Registered(n)' <=> Registered(n))
         /\ \A n \in Mgr : n # m => (Finished(n)' <=> Finished(n))
<1>0. pc \in [Mgr -> PC] /\ stopped \in [Mgr -> BOOLEAN]
  BY DEF IInv, TypeInv, ManagerTypes
<1>1. InEpoch(m[1])
  BY RunningThread
<1>2. \A n \in Mgr : pc'[n] = IF n = m THEN l ELSE pc[n]
  BY <1>0
<1>3. SameEpochs
  <2> SUFFICES ASSUME NEW p \in Proc
               PROVE  /\ InEpoch(p)' <=> InEpoch(p)
                      /\ ~InEpoch(p) => pc'[Main(p)] = pc[Main(p)]
                      /\ horizon'[Main(p)] = horizon[Main(p)]
                      /\ stopped'[Main(p)] = stopped[Main(p)] \/ (InEpoch(p) /\ stopped'[Main(p)])
    BY DEF SameEpochs
  <2>1. Main(p) \in Mgr /\ Main(p)[1] = p
    BY MgrFacts
  <2>2. CASE Main(p) = m
    BY <1>0, <1>1, <1>2, <2>1, <2>2 DEF InEpoch
  <2>3. CASE Main(p) # m
    BY <1>0, <1>2, <2>1, <2>3 DEF InEpoch
  <2> QED
    BY <2>2, <2>3
<1>4. \A n \in WorkerMgr :
        /\ Idle(n)' = Idle(n) /\ Behind(n)' = Behind(n) /\ Called(n)' = Called(n)
        /\ (Busy(n)' <=> Busy(n)) /\ Ended(n)' = Ended(n) /\ (pc'[n] = "wait" => pc[n] = "wait")
  <2> SUFFICES ASSUME NEW n \in WorkerMgr
               PROVE  /\ Idle(n)' = Idle(n) /\ Behind(n)' = Behind(n) /\ Called(n)' = Called(n)
                      /\ (Busy(n)' <=> Busy(n)) /\ Ended(n)' = Ended(n)
                      /\ (pc'[n] = "wait" => pc[n] = "wait")
    OBVIOUS
  <2>1. CASE n # m
    BY <1>2, <1>3, <2>1, StatusFrame, MgrFacts
  <2>2. CASE n = m
    <3>1. Busy(m)
      BY <2>2, RunningThread
    <3>2. pc'[m] \in {"register", "run", "join"}
      BY <1>2
    <3>3. InEpoch(m[1])' /\ Current(m)' = Current(m) /\ Growth(m[1])' = Growth(m[1])
      BY <1>1, <1>3, MgrFacts DEF SameEpochs, Current, Growth
    <3>4. Busy(m)'
      BY <3>1, <3>2, <3>3 DEF Busy
    <3> QED
      BY <2>2, <3>1, <3>2, <3>4 DEF Idle, Behind, Called, Ended
  <2> QED
    BY <2>1, <2>2
<1>5. WorkerInv'
  BY <1>4 DEF WorkerInv, WorkerOk, IInv, ThreadInv
<1>6. TreeInv'
  <2>1. TreeInv
    BY DEF IInv, ThreadInv
  <2>2. \A n \in Mgr : \A c \in Children(n) : c \in WorkerMgr
    BY ChildFacts
  <2>3. \A p \in Proc : InEpoch(p)' = InEpoch(p) /\ Main(p) \in Mgr
    BY <1>3, MgrFacts DEF SameEpochs, InEpoch
  <2>4. \A n \in WorkerMgr : \A c \in Children(n) :
          /\ (Behind(n) \/ Called(n))' => Behind(c)'
          /\ Busy(n)' => ~Behind(c)'
          /\ (Idle(n) \/ (Ended(n) /\ pc[n] = "wait"))' => Idle(c)'
    BY <1>4, <2>1, <2>2, MgrFacts DEF TreeInv, TreeOk, RootOk
  <2>5. \A p \in Proc : InEpoch(p)' => \A c \in Children(Main(p)) : ~Behind(c)'
    BY <1>4, <2>1, <2>2, <2>3 DEF TreeInv, TreeOk, RootOk
  <2> QED
    BY <2>4, <2>5 DEF TreeInv, TreeOk, RootOk
<1>7. ASSUME NEW n \in Mgr, n # m
      PROVE  (Registered(n)' <=> Registered(n)) /\ (Finished(n)' <=> Finished(n))
  <2>1. n[1] \in Proc /\ pc'[n] = pc[n]
    BY <1>2, <1>7, MgrFacts
  <2>2. InEpoch(n[1])' = InEpoch(n[1]) /\ Exchanging(n[1])' = Exchanging(n[1])
    BY <1>3, <2>1 DEF SameEpochs, InEpoch, Exchanging
  <2> QED
    BY <2>1, <2>2 DEF Registered, Finished, Current, MainOf
<1> QED
  BY <1>3, <1>5, <1>6, <1>7

\* A thread that has run its events votes for the next one.
LEMMA FinishRunStep ==
  ASSUME IInv, NEW m \in Mgr, FinishRun(m)
  PROVE  IInv' /\ UNCHANGED <<Unhandled, now>>
<1> DEFINE p == m[1]
<1>1. TypeInv'
  BY ThreadTypes DEF IInv
<1>2. /\ pc[m] = "run" /\ Due(m) = {}
      /\ minTime' = [minTime EXCEPT ![m] = Min(minIpc[m], MinEventTime(m))]
      /\ pc' = [pc EXCEPT ![m] = "join"]
      /\ UNCHANGED <<mgrVars, horizon, delta, procVars, sendBuf, net>>
  BY DEF FinishRun
<1>3. /\ p \in Proc /\ MainOf(m) = Main(p) /\ Main(p) \in Mgr
      /\ InEpoch(p) /\ Current(m) /\ horizon[m] = horizon[Main(p)]
  BY <1>2, RunningThread
<1>4. UNCHANGED <<horizon, delta, lastHorizon>> /\ UNCHANGED stopped
  BY <1>2 DEF mgrVars, procVars
<1>5. /\ SameEpochs /\ WorkerInv' /\ TreeInv'
      /\ \A n \in Mgr : n # m => (Registered(n)' <=> Registered(n))
      /\ \A n \in Mgr : n # m => (Finished(n)' <=> Finished(n))
  BY <1>2, <1>4, RunFrame
<1>6. Registered(m) /\ Registered(m)'
  <2>1. pc'[m] = "join"
    BY <1>2 DEF IInv, TypeInv, ManagerTypes
  <2> QED
    BY <1>2, <1>3, <1>4, <2>1 DEF Registered, Current, MainOf
<1>7. SameRegistered
  <2>1. \A n \in Mgr : Registered(n)' = Registered(n)
    BY <1>5, <1>6 DEF Registered
  <2>2. slot' = slot /\ pending' = pending /\ minIpc' = minIpc /\ stopped' = stopped
    BY <1>2 DEF mgrVars
  <2> QED
    BY <1>4, <2>1, <2>2 DEF SameRegistered
<1>8. SameEvents /\ UNCHANGED <<lowerBound, lastHorizon, votes, numSent, tag, net>>
  BY <1>2 DEF SameEvents, mgrVars, procVars
<1>9. VoteInv'
  <2>0. VoteInv
    BY DEF IInv, ThreadInv
  <2>1. ASSUME NEW e \in queue[m]
        PROVE  e.time \in Nat /\ horizon[m] <= e.time /\ e.time <= NoEvents
    <3>1. e.time \in Nat /\ e.time <= NoEvents /\ horizon[m] \in Nat
      BY ConstantFacts DEF IInv, TypeInv, ManagerTypes, AnyEvent
    <3>2. ~(e.time < horizon[m])
      BY <1>2 DEF Due
    <3> QED
      BY <3>1, <3>2
  <2>2. /\ \A e \in queue[m] : MinEventTime(m) <= e.time
        /\ MinEventTime(m) = NoEvents \/ horizon[m] <= MinEventTime(m)
        /\ MinEventTime(m) \in Nat
    <3>1. CASE queue[m] = {}
      BY <3>1, ConstantFacts DEF MinEventTime
    <3>2. CASE queue[m] # {}
      <4> DEFINE T == {e.time : e \in queue[m]}
      <4>1. T \subseteq Nat /\ T # {} /\ (\A t \in T : horizon[m] <= t) /\ MinEventTime(m) = Least(T)
        BY <2>1, <3>2 DEF MinEventTime
      <4>2. \A e \in queue[m] : e.time \in T
        OBVIOUS
      <4> HIDE DEF T
      <4>3. Least(T) \in T /\ \A t \in T : Least(T) <= t
        BY <4>1, LeastElement
      <4> QED
        BY <4>1, <4>2, <4>3
    <3> QED
      BY <3>1, <3>2
  <2>3. minIpc[m] \in Nat /\ (minIpc[m] = NoEvents \/ horizon[m] <= minIpc[m])
    BY <1>6, <2>0, ConstantFacts DEF VoteInv, VoteOk, IInv, TypeInv, ManagerTypes
  <2>4. /\ minTime'[m] = Min(minIpc[m], MinEventTime(m)) /\ pc'[m] = "join"
        /\ queue' = queue /\ minIpc' = minIpc
    BY <1>2 DEF IInv, TypeInv, ManagerTypes, mgrVars
  <2>5. /\ minTime'[m] <= minIpc[m] /\ minTime'[m] <= MinEventTime(m) /\ minTime'[m] \in Nat
        /\ minTime'[m] = NoEvents \/ horizon[m] <= minTime'[m]
    BY <2>2, <2>3, <2>4 DEF Min
  <2>6. \A e \in queue[m] : minTime'[m] <= e.time
    BY <2>1, <2>2, <2>5
  <2>7. /\ Registered(m)' => minIpc'[m] = NoEvents \/ horizon'[m] <= minIpc'[m]
        /\ Finished(m)' =>
              /\ minTime'[m] <= minIpc'[m]
              /\ minTime'[m] = NoEvents \/ horizon'[m] <= minTime'[m]
              /\ \A e \in queue'[m] : minTime'[m] <= e.time /\ horizon'[m] <= e.time
        /\ Finished(m)' /\ pc'[m] # "join" => \A c \in Children(m) : minTime'[m] <= minTime'[c]
    BY <1>4, <2>1, <2>3, <2>4, <2>5, <2>6
  <2>8. ASSUME NEW n \in Mgr, n # m
        PROVE  /\ Registered(n)' => minIpc'[n] = NoEvents \/ horizon'[n] <= minIpc'[n]
               /\ Finished(n)' =>
                    /\ minTime'[n] <= minIpc'[n]
                    /\ minTime'[n] = NoEvents \/ horizon'[n] <= minTime'[n]
                    /\ \A e \in queue'[n] : minTime'[n] <= e.time /\ horizon'[n] <= e.time
               /\ Finished(n)' /\ pc'[n] # "join" => \A c \in Children(n) : minTime'[n] <= minTime'[c]
    <3>1. pc'[n] = pc[n] /\ minTime'[n] = minTime[n] /\ horizon'[n] = horizon[n]
      BY <1>2, <2>8 DEF IInv, TypeInv, ManagerTypes
    <3>2. ASSUME Finished(n), pc[n] # "join", NEW c \in Children(n)
          PROVE  minTime'[c] = minTime[c]
      <4>1. c # m /\ c \in Mgr
        BY <1>2, <3>2, VoteIsFinal, ChildFacts
      <4> QED
        BY <1>2, <4>1 DEF IInv, TypeInv, ManagerTypes
    <3> QED
      BY <1>5, <2>0, <2>4, <2>8, <3>1, <3>2, VoteFrame
  <2> QED
    BY <2>7, <2>8 DEF VoteInv, VoteOk
<1>10. ThreadInv'
  BY <1>5, <1>9 DEF ThreadInv
<1>11. ReduceInv'
  <2>1. ASSUME NEW q \in Proc, pc'[Main(q)] = "reduce"
        PROVE  pc[Main(q)] = "reduce" /\ minTime'[Main(q)] = minTime[Main(q)]
    <3>1. Main(q) \in Mgr /\ Main(q) # m /\ pc[Main(q)] = "reduce"
      BY <1>2, <2>1, MgrFacts DEF IInv, TypeInv, ManagerTypes
    <3> QED
      BY <1>2, <3>1 DEF IInv, TypeInv, ManagerTypes
  <2> QED
    BY <1>8, <2>1 DEF ReduceInv, IInv, MessageInv
<1>12. EpochInv' /\ SameBound' /\ TagInv' /\ NetInv' /\ RecvInv'
  BY <1>5, <1>8, EpochFrame
<1>13. NotBefore' /\ StopInv' /\ SerializedInv' /\ BufferInv' /\ Unhandled' = Unhandled
  <2>1. \A n \in Mgr : horizon[n] <= horizon'[n]
    BY <1>4 DEF IInv, TypeInv, ManagerTypes
  <2> QED
    BY <1>1, <1>5, <1>7, <1>8, <2>1, EventFrame
<1>14. SlotInv' /\ PendingInv'
  BY <1>7, FlightFrame
<1> QED
  BY <1>1, <1>8, <1>10, <1>11, <1>12, <1>13, <1>14
  DEF IInv, TimeInv, FlightInv, MessageInv, SameEvents

(***************************************************************************)
(* A worker whose children are done gives its vote to its parent.          *)
(***************************************************************************)
LEMMA JoinWorkerStep ==
  ASSUME IInv, NEW m \in WorkerMgr, JoinWorker(m)
  PROVE  IInv' /\ UNCHANGED <<Unhandled, now>>
<1> DEFINE p == m[1]
<1>0. m \in Mgr /\ p \in Proc /\ MainOf(m) = Main(p) /\ Main(p) \in Mgr /\ m # Main(p)
  BY MgrFacts DEF MainOf
<1>1. TypeInv'
  BY <1>0, ThreadTypes DEF IInv
<1>2. /\ pc[m] = "join" /\ ChildrenDone(m)
      /\ minTime' = [minTime EXCEPT ![m] = JoinedTime(m)]
      /\ delta' = [delta EXCEPT ![m] = 0]
      /\ pc' = [pc EXCEPT ![m] = "wait"]
      /\ UNCHANGED <<mgrVars, horizon, procVars, sendBuf, net>>
  BY DEF JoinWorker
<1>3. /\ \A n \in Mgr : n # m => pc'[n] = pc[n] /\ minTime'[n] = minTime[n]
      /\ \A n \in WorkerMgr : n # m => delta'[n] = delta[n]
      /\ pc'[m] = "wait" /\ minTime'[m] = JoinedTime(m) /\ delta'[m] = 0
  BY <1>0, <1>2 DEF IInv, TypeInv, ManagerTypes
<1>4. Busy(m) /\ InEpoch(p) /\ Current(m) /\ horizon[m] = horizon[Main(p)]
  BY <1>0, <1>2, RunningThread
<1>5. UNCHANGED <<queue, minIpc, stopped, slot, pending, horizon, lastHorizon>>
  BY <1>2 DEF mgrVars, procVars
<1>6. SameEpochs
  <2>1. \A q \in Proc : Main(q) \in Mgr /\ Main(q) # m
    BY MgrFacts
  <2> QED
    BY <1>3, <1>5, <2>1 DEF SameEpochs, InEpoch
<1>7. SameEvents /\ UNCHANGED <<lowerBound, lastHorizon, votes, numSent, tag, net>>
  BY <1>2 DEF SameEvents, mgrVars, procVars
<1>8. SameRegistered
  <2>1. ASSUME NEW n \in Mgr PROVE Registered(n)' = Registered(n)
    <3>1. Current(n)' = Current(n)
      BY <1>5 DEF Current, MainOf
    <3>2. (pc'[n] = "register") = (pc[n] = "register")
      BY <1>2, <1>3
    <3> QED
      BY <3>1, <3>2 DEF Registered
  <2> QED
    BY <1>5, <2>1 DEF SameRegistered
<1>9. \A c \in Children(m) : c \in WorkerMgr /\ c \in Mgr /\ c[1] = p /\ c # m /\ MainOf(c) = Main(p) /\ Idle(c)
  <2> SUFFICES ASSUME NEW c \in Children(m)
               PROVE  c \in WorkerMgr /\ c \in Mgr /\ c[1] = p /\ c # m /\ MainOf(c) = Main(p) /\ Idle(c)
    OBVIOUS
  <2>1. c \in WorkerMgr /\ c \in Mgr /\ c[1] = p /\ c # m /\ MainOf(c) = Main(p)
    BY <1>0, ChildFacts DEF MainOf
  <2>2. delta[c] = 0
    BY <1>2 DEF ChildrenDone
  <2>3. ~Behind(c)
    BY <1>4 DEF IInv, ThreadInv, TreeInv, TreeOk, RootOk
  <2>4. Growth(p) # 0 /\ pc[Main(p)] # "done"
    BY <1>0, <1>4, GrowthFacts DEF InEpoch
  <2>5. ~Called(c) /\ ~Busy(c) /\ ~Ended(c)
    BY <2>1, <2>2, <2>4 DEF Called, Busy, Ended
  <2> QED
    BY <2>1, <2>3, <2>5 DEF IInv, ThreadInv, WorkerInv, WorkerOk
<1>10. Idle(m)' /\ ~Behind(m)' /\ ~Called(m)' /\ ~Busy(m)' /\ ~Ended(m)'
  <2>1. Growth(p) # 0 /\ lastHorizon[p] # horizon[Main(p)]
    BY <1>0, <1>4, GrowthFacts
  <2>2. InEpoch(p)' /\ pc'[Main(p)] # "done" /\ Growth(p)' = Growth(p)
    BY <1>0, <1>4, <1>5, <1>6 DEF SameEpochs, InEpoch, Growth
  <2>3. Idle(m)'
    BY <1>0, <1>3, <1>4, <1>5 DEF Idle, Current, MainOf
  <2> QED
    BY <1>0, <1>3, <1>4, <1>5, <2>1, <2>2, <2>3 DEF Behind, Called, Busy, Ended
<1>11. \A n \in WorkerMgr : n # m =>
         /\ Idle(n)' = Idle(n) /\ Behind(n)' = Behind(n) /\ Called(n)' = Called(n)
         /\ Busy(n)' = Busy(n) /\ Ended(n)' = Ended(n) /\ pc'[n] = pc[n]
  <2> SUFFICES ASSUME NEW n \in WorkerMgr, n # m
               PROVE  /\ Idle(n)' = Idle(n) /\ Behind(n)' = Behind(n) /\ Called(n)' = Called(n)
                      /\ Busy(n)' = Busy(n) /\ Ended(n)' = Ended(n) /\ pc'[n] = pc[n]
    OBVIOUS
  <2>1. pc'[n] = pc[n] /\ horizon'[n] = horizon[n] /\ delta'[n] = delta[n]
    BY <1>3, <1>5, MgrFacts
  <2> QED
    BY <1>5, <1>6, <2>1, StatusFrame
<1> HIDE DEF p
<1>12. WorkerInv'
  BY <1>10, <1>11 DEF WorkerInv, WorkerOk, IInv, ThreadInv
<1>13. TreeInv'
  <2>0. TreeInv
    BY DEF IInv, ThreadInv
  <2>1. ASSUME NEW n \in WorkerMgr, NEW c \in Children(n)
        PROVE  /\ (Behind(n) \/ Called(n))' => Behind(c)'
               /\ Busy(n)' => ~Behind(c)'
               /\ (Idle(n) \/ (Ended(n) /\ pc[n] = "wait"))' => Idle(c)'
    <3>0. n \in Mgr /\ c \in WorkerMgr /\ c # n
      BY MgrFacts, ChildFacts
    <3>1. /\ Behind(n) \/ Called(n) => Behind(c)
          /\ Busy(n) => ~Behind(c)
          /\ Idle(n) \/ (Ended(n) /\ pc[n] = "wait") => Idle(c)
      BY <2>0 DEF TreeInv, TreeOk, RootOk
    <3>2. CASE n = m
      BY <1>9, <1>10, <1>11, <3>2
    <3>3. CASE n # m /\ c = m
      <4>1. ~Behind(m)
        BY <1>4, StatusFacts
      <4> QED
        BY <1>10, <1>11, <3>1, <3>3, <4>1
    <3>4. CASE n # m /\ c # m
      BY <1>11, <3>0, <3>1, <3>4
    <3> QED
      BY <3>2, <3>3, <3>4
  <2>2. ASSUME NEW q \in Proc, InEpoch(q)', NEW c \in Children(Main(q))
        PROVE  ~Behind(c)'
    <3>1. InEpoch(q)
      BY <1>6, <2>2 DEF SameEpochs
    <3>2. ~Behind(c) /\ c \in WorkerMgr
      BY <2>0, <2>2, <3>1, ChildFacts, MgrFacts DEF TreeInv, TreeOk, RootOk
    <3> QED
      BY <1>10, <1>11, <3>2
  <2> QED
    BY <2>1, <2>2 DEF TreeInv, TreeOk, RootOk
<1>14. VoteInv'
  <2>0. VoteInv
    BY DEF IInv, ThreadInv
  <2> DEFINE T == {minTime[m]} \cup {minTime[c] : c \in Children(m)}
  <2>1. \A n \in Mgr : minTime[n] \in Nat /\ minIpc[n] \in Nat /\ horizon[n] \in Nat
    BY ConstantFacts DEF IInv, TypeInv, ManagerTypes
  <2>2. T \subseteq Nat /\ T # {} /\ JoinedTime(m) = Least(T)
    BY <1>0, <1>9, <2>1 DEF JoinedTime
  <2>3. \A c \in Children(m) : Finished(c) /\ horizon[c] = horizon[m]
    BY <1>4, <1>9, <1>0 DEF Idle, Finished, Current
  <2>4. Finished(m) /\ Registered(m)
    BY <1>2, <1>4 DEF Finished, Registered, p
  <2>5. \A t \in T : t = NoEvents \/ horizon[m] <= t
    BY <1>0, <1>9, <2>0, <2>3, <2>4 DEF VoteInv, VoteOk
  <2>6. minTime[m] \in T /\ \A c \in Children(m) : minTime[c] \in T
    OBVIOUS
  <2> HIDE DEF T
  <2>7. Least(T) \in T /\ \A t \in T : Least(T) <= t
    BY <2>2, LeastElement
  <2>8. /\ minTime'[m] \in Nat /\ minTime'[m] <= minTime[m]
        /\ minTime'[m] = NoEvents \/ horizon[m] <= minTime'[m]
        /\ \A c \in Children(m) : minTime'[m] <= minTime'[c]
    BY <1>3, <1>9, <2>2, <2>5, <2>6, <2>7
  <2>9. /\ Registered(m)' => minIpc'[m] = NoEvents \/ horizon'[m] <= minIpc'[m]
        /\ Finished(m)' =>
              /\ minTime'[m] <= minIpc'[m]
              /\ minTime'[m] = NoEvents \/ horizon'[m] <= minTime'[m]
              /\ \A e \in queue'[m] : minTime'[m] <= e.time /\ horizon'[m] <= e.time
        /\ Finished(m)' /\ pc'[m] # "join" => \A c \in Children(m) : minTime'[m] <= minTime'[c]
    <3>1. /\ minIpc[m] = NoEvents \/ horizon[m] <= minIpc[m]
          /\ minTime[m] <= minIpc[m]
          /\ \A e \in queue[m] : minTime[m] <= e.time /\ horizon[m] <= e.time
      BY <1>0, <2>0, <2>4 DEF VoteInv, VoteOk
    <3>2. \A e \in queue[m] : e.time \in Nat
      BY <1>0 DEF IInv, TypeInv, ManagerTypes, AnyEvent
    <3>3. minTime'[m] <= minIpc[m] /\ \A e \in queue[m] : minTime'[m] <= e.time
      BY <1>0, <2>1, <2>8, <3>1, <3>2
    <3> QED
      BY <1>5, <2>8, <3>1, <3>3
  <2>10. ASSUME NEW n \in Mgr, n # m
        PROVE  /\ Registered(n)' => minIpc'[n] = NoEvents \/ horizon'[n] <= minIpc'[n]
               /\ Finished(n)' =>
                    /\ minTime'[n] <= minIpc'[n]
                    /\ minTime'[n] = NoEvents \/ horizon'[n] <= minTime'[n]
                    /\ \A e \in queue'[n] : minTime'[n] <= e.time /\ horizon'[n] <= e.time
               /\ Finished(n)' /\ pc'[n] # "join" => \A c \in Children(n) : minTime'[n] <= minTime'[c]
    <3>1. ASSUME Finished(n), pc[n] # "join", NEW c \in Children(n)
          PROVE  minTime'[c] = minTime[c]
      <4>1. c # m /\ c \in Mgr
        BY <1>0, <1>2, <3>1, VoteIsFinal, ChildFacts
      <4> QED
        BY <1>3, <4>1
    <3>2. /\ queue'[n] = queue[n] /\ minIpc'[n] = minIpc[n] /\ pc'[n] = pc[n]
          /\ horizon'[n] = horizon[n] /\ minTime'[n] = minTime[n]
      BY <1>3, <1>5, <2>10
    <3> QED
      BY <1>6, <2>0, <3>1, <3>2, VoteFrame
  <2> QED
    BY <2>9, <2>10 DEF VoteInv, VoteOk
<1>15. ThreadInv'
  BY <1>12, <1>13, <1>14 DEF ThreadInv
<1>16. ReduceInv'
  <2>1. ASSUME NEW q \in Proc, pc'[Main(q)] = "reduce"
        PROVE  pc[Main(q)] = "reduce" /\ minTime'[Main(q)] = minTime[Main(q)]
    BY <1>3, <2>1, MgrFacts
  <2> QED
    BY <1>7, <2>1 DEF ReduceInv, IInv, MessageInv
<1>17. EpochInv' /\ SameBound' /\ TagInv' /\ NetInv' /\ RecvInv'
  BY <1>6, <1>7, EpochFrame
<1>18. NotBefore' /\ StopInv' /\ SerializedInv' /\ BufferInv' /\ Unhandled' = Unhandled
  <2>1. \A n \in Mgr : horizon[n] <= horizon'[n]
    BY <1>5 DEF IInv, TypeInv, ManagerTypes
  <2> QED
    BY <1>1, <1>6, <1>7, <1>8, <2>1, EventFrame
<1>19. SlotInv' /\ PendingInv'
  BY <1>8, FlightFrame
<1> QED
  BY <1>1, <1>7, <1>15, <1>16, <1>17, <1>18, <1>19
  DEF IInv, TimeInv, FlightInv, MessageInv, SameEvents

(***************************************************************************)
(* A thread takes over what was sent to it in the last epoch.  Nothing     *)
(* that was sent in this epoch is its own: it has not run yet.             *)
(***************************************************************************)
LEMMA registerPendingStep ==
  ASSUME IInv, NEW m \in Mgr, registerPending(m)
  PROVE  IInv' /\ UNCHANGED <<Unhandled, now>>
<1> DEFINE p == m[1]
<1>1. TypeInv' /\ TypeInv
  BY ThreadTypes DEF IInv
<1>2. /\ pc[m] = "register"
      /\ queue' = [queue EXCEPT ![m] = queue[m] \cup serialized[m] \cup pending[m][slot[m]]]
      /\ serialized' = [serialized EXCEPT ![m] = {}]
      /\ pending' = [pending EXCEPT ![m][slot[m]] = {}]
      /\ slot' = [slot EXCEPT ![m] = NextSlot(slot[m])]
      /\ minIpc' = [minIpc EXCEPT ![m] = NoEvents]
      /\ pc' = [pc EXCEPT ![m] = "run"]
      /\ UNCHANGED <<now, stopped, seqnum, treeVars, procVars, sendBuf, net>>
  BY DEF registerPending
<1>3. /\ p \in Proc /\ MainOf(m) = Main(p) /\ Main(p) \in Mgr
      /\ InEpoch(p) /\ Current(m) /\ horizon[m] = horizon[Main(p)]
  BY <1>2, RunningThread
<1>4. UNCHANGED <<now, horizon, delta, minTime, stopped, seqnum, sendBuf>>
      /\ UNCHANGED <<lowerBound, lastHorizon, votes, numSent, tag, net>>
  BY <1>2 DEF treeVars, procVars
<1>5. /\ SameEpochs /\ WorkerInv' /\ TreeInv'
      /\ \A n \in Mgr : n # m => (Registered(n)' <=> Registered(n))
      /\ \A n \in Mgr : n # m => (Finished(n)' <=> Finished(n))
  BY <1>2, <1>4, RunFrame
<1>6. /\ \A n \in Mgr : n # m =>
           /\ queue'[n] = queue[n] /\ serialized'[n] = serialized[n] /\ pending'[n] = pending[n]
           /\ slot'[n] = slot[n] /\ minIpc'[n] = minIpc[n] /\ pc'[n] = pc[n]
      /\ queue'[m] = queue[m] \cup serialized[m] \cup pending[m][slot[m]]
      /\ serialized'[m] = {} /\ slot'[m] = NextSlot(slot[m]) /\ minIpc'[m] = NoEvents
      /\ pc'[m] = "run"
  BY <1>1, <1>2 DEF TypeInv, ManagerTypes
<1>7. /\ slot[m] \in Slot
      /\ \A s \in Slot : pending'[m][s] = IF s = slot[m] THEN {} ELSE pending[m][s]
  BY <1>1, <1>2 DEF TypeInv, ManagerTypes
<1>8. ~Registered(m) /\ Registered(m)' /\ ~stopped[m]
  <2>1. ~Registered(m)
    BY <1>2 DEF Registered
  <2>2. Registered(m)'
    BY <1>3, <1>4, <1>6 DEF Registered, Current, MainOf
  <2> QED
    BY <2>1, <2>2 DEF IInv, TimeInv, StopInv, StoppedOk
<1> HIDE DEF p
<1>9. \A n \in Mgr : SendSlot(n)' = SendSlot(n)
  <2>1. SendSlot(m)' = SendSlot(m)
    BY <1>6, <1>8 DEF SendSlot
  <2>2. ASSUME NEW n \in Mgr, n # m PROVE SendSlot(n)' = SendSlot(n)
    BY <1>5, <1>6, <2>2 DEF SendSlot, NextSlot
  <2> QED
    BY <2>1, <2>2
<1>10. \A f \in SentEvent : Covered(f) => Covered(f)'
  <2> SUFFICES ASSUME NEW f \in SentEvent, Covered(f) PROVE Covered(f)'
    OBVIOUS
  <2>1. f.src \in Mgr /\ f.src # m
    BY <1>8 DEF Covered, SentEvent, AnyEvent
  <2> QED
    BY <1>4, <1>5, <1>6, <2>1 DEF Covered
<1>11. \A n \in Mgr : serialized[n] \subseteq SentEvent /\ \A s \in Slot : pending[n][s] \subseteq SentEvent
  BY <1>1 DEF TypeInv, ManagerTypes
<1>12. \A n \in Mgr : n[1] \in Proc /\ MainOf(n) \in Mgr /\ MainOf(n) = Main(n[1])
  BY MgrFacts DEF MainOf
<1>13. \A q \in Proc :
         /\ InEpoch(q)' = InEpoch(q)
         /\ \A l \in {"start", "vote", "reduce", "done", "abort"} : pc'[Main(q)] = l <=> pc[Main(q)] = l
  BY <1>5 DEF SameEpochs, InEpoch
<1>14. SlotInv'
  BY <1>9 DEF SlotInv, IInv, FlightInv
<1>15. PendingInv'
  <2> SUFFICES ASSUME NEW n \in Mgr, NEW s \in Slot, NEW f \in pending'[n][s]
               PROVE  /\ f.dst = n /\ f.src[1] = n[1]
                      /\ s = SendSlot(n)' => horizon'[MainOf(n)] <= f.time /\ Covered(f)'
                      /\ s # SendSlot(n)' => s = slot'[n]
    BY DEF PendingInv, PendingOk, MainOf, Main
  <2>1. f \in pending[n][s]
    BY <1>6, <1>7
  <2>2. f \in SentEvent
    BY <1>11, <2>1
  <2>3. /\ f.dst = n /\ f.src[1] = n[1]
        /\ s = SendSlot(n) => horizon[MainOf(n)] <= f.time /\ Covered(f)
        /\ s # SendSlot(n) => s = slot[n]
    BY <2>1 DEF IInv, FlightInv, PendingInv, PendingOk
  <2>4. n = m => s # slot[m]
    BY <1>7
  <2> QED
    BY <1>4, <1>6, <1>9, <1>10, <2>2, <2>3, <2>4
<1>16. SerializedInv'
  <2> SUFFICES ASSUME NEW n \in Mgr
               PROVE  /\ \A f \in serialized'[n] : f.dst = n
                      /\ serialized'[n] # {} =>
                           (pc'[MainOf(n)] = "start" /\ ~stopped'[MainOf(n)]) \/ ~Registered(n)'
    BY DEF SerializedInv, SerializedOk, MainOf, Main
  <2>1. CASE n = m
    BY <1>6, <2>1
  <2>2. CASE n # m
    <3>1. /\ \A f \in serialized[n] : f.dst = n
          /\ serialized[n] # {} => (pc[MainOf(n)] = "start" /\ ~stopped[MainOf(n)]) \/ ~Registered(n)
      BY DEF IInv, FlightInv, SerializedInv, SerializedOk
    <3> QED
      BY <1>4, <1>5, <1>6, <1>12, <1>13, <2>2, <3>1
  <2> QED
    BY <2>1, <2>2
<1>17. BufferInv'
  <2>1. \A q, r \in Proc : sendBuf[q][r] \subseteq SentEvent
    BY <1>1 DEF TypeInv, ProcessTypes
  <2>2. BufferInv
    BY DEF IInv, FlightInv
  <2> QED
    BY <1>4, <1>10, <1>13, <2>1, <2>2 DEF BufferInv, BufferOk
<1>18. Unhandled' = Unhandled
  <2>1. ASSUME NEW e PROVE e \in Unhandled' <=> e \in Unhandled
    <3> DEFINE At(n) == \/ e \in queue[n]
                        \/ e \in serialized[n]
                        \/ \E s \in Slot : e \in pending[n][s]
               AtNext(n) == \/ e \in queue'[n]
                            \/ e \in serialized'[n]
                            \/ \E s \in Slot : e \in pending'[n][s]
    <3>1. \A n \in Mgr : At(n) <=> AtNext(n)
      BY <1>6, <1>7
    <3>2. e \in Unhandled <=> \/ \E n \in Mgr : At(n)
                              \/ \E q, r \in Proc : e \in sendBuf[q][r]
                              \/ \E x \in net : e \in x.evs
      BY UnhandledMembers
    <3>3. e \in Unhandled' <=> \/ \E n \in Mgr : AtNext(n)
                               \/ \E q, r \in Proc : e \in sendBuf'[q][r]
                               \/ \E x \in net' : e \in x.evs
      BY UnhandledMembersNext
    <3> HIDE DEF At, AtNext
    <3> QED
      BY <1>4, <3>1, <3>2, <3>3
  <2> QED
    BY <2>1
<1>19. /\ \A q \in Proc : Bound(q)' = Bound(q)
       /\ EpochInv' /\ SameBound' /\ TagInv' /\ NetInv' /\ RecvInv'
  BY <1>4, <1>5, EpochFrame
<1>20. NotBefore'
  BY <1>4, <1>18, <1>19 DEF NotBefore, IInv, TimeInv
<1>21. StopInv'
  <2>1. PICK u \in StopTimes : StopsAt(u)
    BY DEF IInv, TimeInv, StopInv, StoppedOk
  <2>2. StopsAt(u)'
    <3> SUFFICES ASSUME NEW n \in Mgr
                 PROVE  /\ \A e \in queue'[n] : e.dst = n /\ (e.stop => u > 0 /\ e = StopEvent(u, n))
                        /\ stopped'[n] => u > 0 /\ u < horizon'[n] /\ now'[n] = u /\ queue'[n] = {}
                        /\ u > 0 /\ ~stopped'[n] => StopEvent(u, n) \in queue'[n]
      BY DEF StopsAt, StopsFor, StopEvent
    <3>1. /\ \A e \in queue[n] : e.dst = n /\ (e.stop => u > 0 /\ e = StopEvent(u, n))
          /\ stopped[n] => u > 0 /\ u < horizon[n] /\ now[n] = u /\ queue[n] = {}
          /\ u > 0 /\ ~stopped[n] => StopEvent(u, n) \in queue[n]
      BY <2>1 DEF StopsAt, StopsFor
    <3>2. CASE n = m
      <4>1. \A f \in serialized[m] \cup pending[m][slot[m]] : f.dst = m /\ ~f.stop
        BY <1>7, <1>11 DEF IInv, FlightInv, SerializedInv, SerializedOk, PendingInv, PendingOk, SentEvent
      <4> QED
        BY <1>4, <1>6, <1>8, <3>1, <3>2, <4>1
    <3>3. CASE n # m
      BY <1>4, <1>6, <3>1, <3>3
    <3> QED
      BY <3>2, <3>3
  <2>3. \A n \in Mgr :
          /\ stopped[n] =>
               /\ Registered(n)
               /\ InEpoch(n[1]) \/ (stopped[MainOf(n)] /\ pc[MainOf(n)] \in {"start", "done", "abort"})
          /\ stopped[MainOf(n)] /\ ~InEpoch(n[1]) => stopped[n]
    BY DEF IInv, TimeInv, StopInv, StoppedOk
  <2>4. \A n \in Mgr : stopped[n] => Registered(n)'
    BY <1>5, <1>8, <2>3
  <2> QED
    BY <1>4, <1>12, <1>13, <2>2, <2>3, <2>4 DEF StopInv, StoppedOk
<1>22. VoteInv'
  <2>0. VoteInv
    BY DEF IInv, ThreadInv
  <2>1. minIpc'[m] = NoEvents /\ ~Finished(m)'
    BY <1>6 DEF Finished
  <2>2. ASSUME NEW n \in Mgr, n # m
        PROVE  /\ Registered(n)' => minIpc'[n] = NoEvents \/ horizon'[n] <= minIpc'[n]
               /\ Finished(n)' =>
                    /\ minTime'[n] <= minIpc'[n]
                    /\ minTime'[n] = NoEvents \/ horizon'[n] <= minTime'[n]
                    /\ \A e \in queue'[n] : minTime'[n] <= e.time /\ horizon'[n] <= e.time
               /\ Finished(n)' /\ pc'[n] # "join" => \A c \in Children(n) : minTime'[n] <= minTime'[c]
    BY <1>4, <1>5, <1>6, <2>0, <2>2, VoteFrame
  <2> QED
    BY <2>1, <2>2 DEF VoteInv, VoteOk
<1>23. ThreadInv'
  BY <1>5, <1>22 DEF ThreadInv
<1>24. ReduceInv'
  BY <1>4, <1>13 DEF ReduceInv, IInv, MessageInv
<1> QED
  BY <1>1, <1>4, <1>14, <1>15, <1>16, <1>17, <1>18, <1>19, <1>20, <1>21, <1>23, <1>24
  DEF IInv, TimeInv, FlightInv, MessageInv

(***************************************************************************)
(* A thread that runs its events has in its queue all that is for it       *)
(* before the horizon, so the next one is the earliest anywhere; and it is *)
(* less than the lookahead away from any other event.                      *)
(***************************************************************************)
LEMMA Elsewhere ==
  ASSUME IInv, NEW m \in Mgr, pc[m] = "run"
  PROVE  /\ \A n \in Mgr : \A f \in queue[n] : f.dst = n
         /\ \A n \in Mgr : \A f \in serialized[n] : f.dst # m
         /\ \A n \in Mgr : \A s \in Slot : \A f \in pending[n][s] : f.dst = m => horizon[m] <= f.time
         /\ \A q, r \in Proc : \A f \in sendBuf[q][r] : f.dst = m => horizon[m] <= f.time
         /\ \A x \in net : \A f \in x.evs : f.dst = m => horizon[m] <= f.time
<1> DEFINE p == m[1]
<1>1. /\ p \in Proc /\ MainOf(m) = Main(p) /\ Main(p) \in Mgr
      /\ InEpoch(p) /\ Current(m) /\ horizon[m] = horizon[Main(p)]
  BY RunningThread
<1>2. Registered(m) /\ pc[Main(p)] # "start" /\ SendSlot(m) = slot[m]
  BY <1>1 DEF Registered, InEpoch, SendSlot
<1>3. \A n \in Mgr : \A f \in queue[n] : f.dst = n
  BY DEF IInv, TimeInv, StopInv, StoppedOk, StopsAt, StopsFor
<1>4. \A n \in Mgr : \A f \in serialized[n] : f.dst # m
  BY <1>1, <1>2 DEF IInv, FlightInv, SerializedInv, SerializedOk
<1>5. \A n \in Mgr : \A s \in Slot : \A f \in pending[n][s] : f.dst = m => horizon[m] <= f.time
  BY <1>1, <1>2 DEF IInv, FlightInv, PendingInv, PendingOk
<1>6. ASSUME NEW q \in Proc, NEW r \in Proc, NEW f \in sendBuf[q][r], f.dst = m
      PROVE  horizon[m] <= f.time
  <2>1. /\ horizon[Main(q)] <= f.time
        /\ InEpoch(q) \/ pc[Main(q)] = "vote" \/ stopped[Main(q)]
    BY <1>6 DEF IInv, FlightInv, BufferInv, BufferOk
  <2>2. Opened(q) /\ Opened(p)
    BY <1>1, <2>1 DEF Opened, Exchanging
  <2>3. Bound(q) = Bound(p)
    BY <1>1 DEF IInv, TimeInv, SameBound
  <2>4. horizon[Main(q)] \in Nat /\ horizon[Main(p)] \in Nat
    BY MgrFacts, <1>1 DEF IInv, TypeInv, ManagerTypes
  <2>5. horizon[Main(q)] = horizon[Main(p)]
    BY <2>2, <2>3, <2>4, ConstantFacts DEF Bound
  <2> QED
    BY <1>1, <2>1, <2>5
<1>7. \A x \in net : \A f \in x.evs : f.dst = m => horizon[m] <= f.time
  BY <1>1 DEF IInv, MessageInv, NetInv
<1> QED
  BY <1>3, <1>4, <1>5, <1>6, <1>7

LEMMA NextEvent ==
  ASSUME IInv, NEW m \in Mgr, pc[m] = "run",
         NEW e \in queue[m], e.time < horizon[m], IsNext(e, m)
  PROVE  /\ e \in Unhandled /\ e \in AnyEvent /\ e.time \in Nat /\ e.dst = m
         /\ Sim!Earliest(e) /\ Sim!Safe(e)
         /\ \A q \in Proc : Bound(q) <= e.time
         /\ horizon[m] <= e.time + Lookahead
         /\ \A n \in Mgr : e \in queue[n] => n = m
         /\ \A n \in Mgr : e \notin serialized[n] /\ \A s \in Slot : e \notin pending[n][s]
         /\ \A q, r \in Proc : e \notin sendBuf[q][r]
         /\ \A x \in net : e \notin x.evs
<1> DEFINE p == m[1]
<1>1. /\ p \in Proc /\ InEpoch(p) /\ horizon[m] = horizon[Main(p)] /\ horizon[m] \in Nat
  BY RunningThread DEF IInv, TypeInv, ManagerTypes
<1>2. e \in Unhandled
  BY UnhandledMembers
<1>3. e \in AnyEvent /\ e.time \in Nat
  BY <1>2, UnhandledTypes DEF IInv
<1>4. /\ \A n \in Mgr : \A f \in queue[n] : f.dst = n
      /\ \A n \in Mgr : \A f \in serialized[n] : f.dst # m
      /\ \A n \in Mgr : \A s \in Slot : \A f \in pending[n][s] : f.dst = m => horizon[m] <= f.time
      /\ \A q, r \in Proc : \A f \in sendBuf[q][r] : f.dst = m => horizon[m] <= f.time
      /\ \A x \in net : \A f \in x.evs : f.dst = m => horizon[m] <= f.time
  BY Elsewhere
<1>5. e.dst = m /\ ~(horizon[m] <= e.time)
  BY <1>1, <1>3, <1>4
<1>6. ASSUME NEW f \in Unhandled, f.dst = m, f # e
      PROVE  EventCompare(e, f)
  <2>1. CASE f \in queue[m]
    BY <1>6, <2>1 DEF IsNext
  <2>2. CASE f \notin queue[m]
    <3>1. horizon[m] <= f.time
      BY <1>4, <1>6, <2>2, UnhandledMembers
    <3>2. f.time \in Nat
      BY UnhandledTypes DEF IInv
    <3>3. e.time < f.time
      BY <1>1, <1>3, <3>1, <3>2
    <3> QED
      BY <3>3 DEF EventCompare
  <2> QED
    BY <2>1, <2>2
<1>7. Sim!Earliest(e)
  BY <1>2, <1>5, <1>6 DEF Sim!Earliest
<1>8. ASSUME NEW f \in Unhandled
      PROVE  horizon[m] <= f.time + Lookahead /\ \A q \in Proc : Bound(q) <= f.time
  <2>1. \A q \in Proc : Bound(q) <= f.time
    BY DEF IInv, TimeInv, NotBefore
  <2>2. Bound(p) = horizon[m] - Lookahead
    BY <1>1 DEF Bound, Opened
  <2>3. f.time \in Nat
    BY UnhandledTypes DEF IInv
  <2> QED
    BY <1>1, <2>1, <2>2, <2>3, ConstantFacts
<1>9. Sim!Safe(e)
  <2>1. ASSUME NEW f \in Unhandled PROVE e.time < f.time + Lookahead
    <3>1. f.time \in Nat
      BY UnhandledTypes DEF IInv
    <3> QED
      BY <1>1, <1>3, <1>8, <3>1, ConstantFacts
  <2> QED
    BY <2>1 DEF Sim!Safe
<1> QED
  BY <1>2, <1>3, <1>4, <1>5, <1>7, <1>8, <1>9

(***************************************************************************)
(* The stop time is reached.                                               *)
(***************************************************************************)
LEMMA StopStep ==
  ASSUME IInv, NoTerminator, NEW m \in Mgr, Stop(m)
  PROVE  IInv' /\ \E e \in Unhandled : Sim!Stop(e)
<1> DEFINE p == m[1]
<1>1. TypeInv' /\ TypeInv
  BY ThreadTypes DEF IInv
<1>2. /\ pc[m] = "run"
      /\ queue' = [queue EXCEPT ![m] = {}]
      /\ minIpc' = [minIpc EXCEPT ![m] = NoEvents]
      /\ stopped' = [stopped EXCEPT ![m] = TRUE]
      /\ UNCHANGED <<pc, slot, pending, serialized, seqnum, treeVars, procVars, sendBuf, net>>
  BY DEF Stop
<1>3. PICK e \in queue[m] :
        /\ e.time < horizon[m] /\ IsNext(e, m) /\ e.stop
        /\ now' = [now EXCEPT ![m] = e.time]
  BY DEF Stop, Due, CallsStop, NoTerminator
<1>4. /\ p \in Proc /\ MainOf(m) = Main(p) /\ Main(p) \in Mgr
      /\ InEpoch(p) /\ Current(m) /\ horizon[m] = horizon[Main(p)]
  BY <1>2, RunningThread
<1>5. /\ UNCHANGED <<pc, horizon, delta, minTime, slot, pending, serialized, seqnum, sendBuf>>
      /\ UNCHANGED <<lowerBound, lastHorizon, votes, numSent, tag, net>>
  BY <1>2 DEF treeVars, procVars
<1>6. /\ \A n \in Mgr : n # m =>
           /\ queue'[n] = queue[n] /\ minIpc'[n] = minIpc[n] /\ stopped'[n] = stopped[n] /\ now'[n] = now[n]
      /\ queue'[m] = {} /\ minIpc'[m] = NoEvents /\ stopped'[m] /\ now'[m] = e.time
  BY <1>1, <1>2, <1>3 DEF TypeInv, ManagerTypes
<1>7. SameEpochs /\ WorkerInv' /\ TreeInv'
  <2>1. pc' = [pc EXCEPT ![m] = "run"]
    BY <1>1, <1>2 DEF TypeInv, ManagerTypes
  <2> QED
    BY <1>2, <1>5, <2>1, RunFrame
<1>8. /\ e \in Unhandled /\ e \in AnyEvent /\ e.time \in Nat /\ e.dst = m
      /\ Sim!Earliest(e) /\ Sim!Safe(e)
      /\ \A n \in Mgr : e \in queue[n] => n = m
      /\ \A n \in Mgr : e \notin serialized[n] /\ \A s \in Slot : e \notin pending[n][s]
      /\ \A q, r \in Proc : e \notin sendBuf[q][r]
      /\ \A x \in net : e \notin x.evs
  BY <1>2, <1>3, NextEvent
<1>9. \A n \in Mgr : Registered(n)' = Registered(n) /\ Finished(n)' = Finished(n) /\ SendSlot(n)' = SendSlot(n)
  BY <1>5 DEF Registered, Current, Finished, InEpoch, Exchanging, SendSlot, NextSlot, MainOf
<1>10. Registered(m) /\ ~Finished(m)
  BY <1>2, <1>4 DEF Registered, Finished
<1> HIDE DEF p
<1>11. \A f \in SentEvent : Covered(f) => Covered(f)'
  <2> SUFFICES ASSUME NEW f \in SentEvent, Covered(f) PROVE Covered(f)'
    OBVIOUS
  <2>1. f.src \in Mgr
    BY DEF SentEvent, AnyEvent
  <2> QED
    BY <1>6, <1>9, <2>1 DEF Covered
<1>12. \A n \in Mgr : n[1] \in Proc /\ MainOf(n) \in Mgr /\ MainOf(n) = Main(n[1])
  BY MgrFacts DEF MainOf
<1>13. \A q \in Proc :
         /\ InEpoch(q)' = InEpoch(q)
         /\ stopped[Main(q)] => stopped'[Main(q)]
         /\ ~InEpoch(q) => stopped'[Main(q)] = stopped[Main(q)]
  BY <1>5, <1>7, <1>6, MgrFacts DEF SameEpochs, InEpoch
<1>14. SlotInv'
  BY <1>9 DEF SlotInv, IInv, FlightInv
<1>15. PendingInv'
  <2>1. \A n \in Mgr : \A s \in Slot : pending[n][s] \subseteq SentEvent
    BY <1>1 DEF TypeInv, ManagerTypes
  <2>2. PendingInv
    BY DEF IInv, FlightInv
  <2> QED
    BY <1>5, <1>9, <1>11, <2>1, <2>2 DEF PendingInv, PendingOk, MainOf
<1>16. SerializedInv'
  <2>1. \A n \in Mgr : pc[MainOf(n)] = "start" /\ ~stopped[MainOf(n)] => ~stopped'[MainOf(n)]
    BY <1>12, <1>13 DEF InEpoch
  <2> QED
    BY <1>5, <1>9, <2>1 DEF SerializedInv, SerializedOk, MainOf, IInv, FlightInv
<1>17. BufferInv'
  <2>1. \A q, r \in Proc : sendBuf[q][r] \subseteq SentEvent
    BY <1>1 DEF TypeInv, ProcessTypes
  <2>2. BufferInv
    BY DEF IInv, FlightInv
  <2> QED
    BY <1>5, <1>11, <1>13, <2>1, <2>2 DEF BufferInv, BufferOk
<1>18. /\ Unhandled' \subseteq Unhandled \ {e}
       /\ \A f \in Unhandled \ Unhandled' : f.dst = m
  <2>1. \A n \in Mgr : queue'[n] \subseteq queue[n] \ {e}
    BY <1>6, <1>8
  <2>2. ASSUME NEW f \in Unhandled' PROVE f \in Unhandled /\ f # e
    <3>1. \/ \E n \in Mgr : f \in queue[n] /\ f # e
          \/ \E n \in Mgr : f \in serialized[n]
          \/ \E n \in Mgr : \E s \in Slot : f \in pending[n][s]
          \/ \E q, r \in Proc : f \in sendBuf[q][r]
          \/ \E x \in net : f \in x.evs
      BY <1>5, <2>1, UnhandledMembersNext
    <3> QED
      BY <1>8, <3>1, UnhandledMembers
  <2>3. ASSUME NEW f \in Unhandled, f \notin Unhandled' PROVE f.dst = m
    <3>1. PICK n \in Mgr : f \in queue[n] /\ f \notin queue'[n]
      BY <1>5, <2>3, UnhandledMembers, UnhandledMembersNext
    <3>2. n = m /\ \A g \in queue[m] : g.dst = m
      BY <1>2, <1>6, <3>1, Elsewhere
    <3> QED
      BY <3>1, <3>2
  <2> QED
    BY <2>2, <2>3
<1>19. Sim!Stop(e)
  BY <1>3, <1>8, <1>18 DEF Sim!Stop, Sim!Handle
<1>20. /\ \A q \in Proc : Bound(q)' = Bound(q)
       /\ EpochInv' /\ SameBound' /\ TagInv' /\ NetInv' /\ RecvInv'
  BY <1>5, <1>7, EpochFrame
<1>21. NotBefore'
  BY <1>5, <1>18, <1>20 DEF NotBefore, IInv, TimeInv
<1>22. StopInv'
  <2>1. PICK u \in StopTimes : StopsAt(u)
    BY DEF IInv, TimeInv, StopInv, StoppedOk
  <2>2. StopsAt(u)'
    <3> SUFFICES ASSUME NEW n \in Mgr
                 PROVE  /\ \A f \in queue'[n] : f.dst = n /\ (f.stop => u > 0 /\ f = StopEvent(u, n))
                        /\ stopped'[n] => u > 0 /\ u < horizon'[n] /\ now'[n] = u /\ queue'[n] = {}
                        /\ u > 0 /\ ~stopped'[n] => StopEvent(u, n) \in queue'[n]
      BY DEF StopsAt, StopsFor, StopEvent
    <3>1. /\ \A f \in queue[n] : f.dst = n /\ (f.stop => u > 0 /\ f = StopEvent(u, n))
          /\ stopped[n] => u > 0 /\ u < horizon[n] /\ now[n] = u /\ queue[n] = {}
          /\ u > 0 /\ ~stopped[n] => StopEvent(u, n) \in queue[n]
      BY <2>1 DEF StopsAt, StopsFor
    <3>2. CASE n = m
      <4>1. u > 0 /\ e = StopEvent(u, m)
        BY <1>3, <3>1, <3>2
      <4>2. e.time = u
        BY <4>1 DEF StopEvent
      <4> QED
        BY <1>3, <1>5, <1>6, <3>2, <4>1, <4>2
    <3>3. CASE n # m
      BY <1>5, <1>6, <3>1, <3>3
    <3> QED
      BY <3>2, <3>3
  <2>3. \A n \in Mgr :
          /\ stopped[n] =>
               /\ Registered(n)
               /\ InEpoch(n[1]) \/ (stopped[MainOf(n)] /\ pc[MainOf(n)] \in {"start", "done", "abort"})
          /\ stopped[MainOf(n)] /\ ~InEpoch(n[1]) => stopped[n]
    BY DEF IInv, TimeInv, StopInv, StoppedOk
  <2>4. ASSUME NEW n \in Mgr
        PROVE  /\ stopped'[n] =>
                    /\ Registered(n)'
                    /\ InEpoch(n[1])' \/ (stopped'[MainOf(n)] /\ pc'[MainOf(n)] \in {"start", "done", "abort"})
               /\ stopped'[MainOf(n)] /\ ~InEpoch(n[1])' => stopped'[n]
    <3>1. CASE n = m
      BY <1>4, <1>6, <1>9, <1>10, <1>13, <3>1 DEF p
    <3>2. CASE n # m
      BY <1>5, <1>6, <1>9, <1>12, <1>13, <2>3, <3>2
    <3> QED
      BY <3>1, <3>2
  <2> QED
    BY <2>2, <2>4 DEF StopInv, StoppedOk, MainOf
<1>23. VoteInv'
  <2>0. VoteInv
    BY DEF IInv, ThreadInv
  <2>1. minIpc'[m] = NoEvents /\ ~Finished(m)'
    BY <1>6, <1>9, <1>10
  <2>2. ASSUME NEW n \in Mgr, n # m
        PROVE  /\ Registered(n)' => minIpc'[n] = NoEvents \/ horizon'[n] <= minIpc'[n]
               /\ Finished(n)' =>
                    /\ minTime'[n] <= minIpc'[n]
                    /\ minTime'[n] = NoEvents \/ horizon'[n] <= minTime'[n]
                    /\ \A f \in queue'[n] : minTime'[n] <= f.time /\ horizon'[n] <= f.time
               /\ Finished(n)' /\ pc'[n] # "join" => \A c \in Children(n) : minTime'[n] <= minTime'[c]
    BY <1>5, <1>6, <1>7, <2>0, <2>2, VoteFrame
  <2> QED
    BY <2>1, <2>2 DEF VoteInv, VoteOk
<1>24. ThreadInv'
  BY <1>7, <1>23 DEF ThreadInv
<1>25. ReduceInv'
  BY <1>5 DEF ReduceInv, IInv, MessageInv
<1>26. IInv'
  BY <1>1, <1>14, <1>15, <1>16, <1>17, <1>20, <1>21, <1>22, <1>24, <1>25
  DEF IInv, TimeInv, FlightInv, MessageInv
<1> QED
  BY <1>8, <1>19, <1>26

(***************************************************************************)
(* What handling e leaves: e is gone, and the events New that it sent (one *)
(* or none) are in the queue, in the slot or in the send buffer they       *)
(* belong to.  One that crosses to another manager is due at the horizon   *)
(* or later, and the vote knows of it.                                     *)
(***************************************************************************)
Sends(m, e, New) ==
  /\ \A f \in New :
       /\ f \in SentEvent /\ f.src = m /\ f.seqnum = seqnum /\ seqnum < seqnum'
       /\ e.time <= f.time
       /\ f.dst # m => /\ horizon[m] <= f.time /\ minIpc'[m] <= f.time
                       /\ e.time + Lookahead <= f.time
  /\ \A n \in Mgr : queue'[n] =
       IF n = m THEN (queue[m] \ {e}) \cup {f \in New : f.dst = m} ELSE queue[n]
  /\ \A n \in Mgr : \A s \in Slot : pending'[n][s] =
       pending[n][s] \cup {f \in New : f.dst = n /\ n # m /\ n[1] = m[1] /\ s = slot[m]}
  /\ \A q, r \in Proc : sendBuf'[q][r] =
       sendBuf[q][r] \cup {f \in New : q = m[1] /\ r # q /\ f.dst[1] = r}
  /\ \A n \in Mgr : n # m => minIpc'[n] = minIpc[n] /\ now'[n] = now[n]
  /\ minIpc'[m] <= minIpc[m] /\ (minIpc'[m] = NoEvents \/ horizon[m] <= minIpc'[m])
  /\ seqnum <= seqnum'
  /\ now' = [now EXCEPT ![m] = e.time]
  /\ UNCHANGED <<pc, slot, serialized, stopped, horizon, delta, minTime>>
  /\ UNCHANGED <<lowerBound, lastHorizon, votes, numSent, tag, net>>

LEMMA ExecuteEffect ==
  ASSUME IInv, NEW m \in Mgr, Execute(m)
  PROVE  \E e \in queue[m] : \E New :
           e.time < horizon[m] /\ IsNext(e, m) /\ ~e.stop /\ Sends(m, e, New)
<1>1. PICK e \in queue[m] :
        /\ e \in AnyEvent /\ e.time < horizon[m] /\ IsNext(e, m) /\ ~e.stop
        /\ now' = [now EXCEPT ![m] = e.time]
        /\ \/ Quiet(m, e)
           \/ \E n \in Mgr : \E f \in SentEvent :
                /\ Send(m, e, f)
                /\ f.src = m /\ f.dst = n /\ f.seqnum = seqnum
                /\ e.time <= f.time /\ (n # m => e.time + Lookahead <= f.time)
  BY ExecuteCases DEF IInv
<1>2. pc[m] = "run" /\ UNCHANGED <<pc, slot, serialized, stopped, treeVars, procVars, net>>
  BY DEF Execute
<1>3. /\ UNCHANGED <<pc, slot, serialized, stopped, horizon, delta, minTime>>
      /\ UNCHANGED <<lowerBound, lastHorizon, votes, numSent, tag, net>>
  BY <1>2 DEF treeVars, procVars
<1>4. TypeInv
  BY DEF IInv
<1>5. \A n \in Mgr : n # m => now'[n] = now[n]
  BY <1>1, <1>4 DEF TypeInv, ManagerTypes
<1>6. /\ minIpc[m] \in Nat /\ horizon[m] \in Nat /\ seqnum \in Nat /\ e.time \in Nat
      /\ minIpc[m] = NoEvents \/ horizon[m] <= minIpc[m]
  <2>1. Registered(m)
    BY <1>2, RunningThread DEF Registered
  <2> QED
    BY <1>1, <1>4, <2>1, ConstantFacts DEF TypeInv, ManagerTypes, AnyEvent, IInv, ThreadInv, VoteInv, VoteOk
<1>7. horizon[m] <= e.time + Lookahead
  BY <1>1, <1>2, NextEvent
<1>8. ASSUME Quiet(m, e)
      PROVE  Sends(m, e, {})
  <2>1. \A n \in Mgr : queue'[n] = IF n = m THEN queue[m] \ {e} ELSE queue[n]
    BY <1>4, <1>8 DEF Quiet, TypeInv, ManagerTypes
  <2>2. UNCHANGED <<seqnum, minIpc, pending, sendBuf>>
    BY <1>8 DEF Quiet
  <2> QED
    BY <1>1, <1>3, <1>5, <1>6, <2>1, <2>2 DEF Sends
<1>9. ASSUME NEW n \in Mgr, NEW f \in SentEvent, Send(m, e, f),
             f.src = m, f.dst = n, f.seqnum = seqnum,
             e.time <= f.time, n # m => e.time + Lookahead <= f.time
      PROVE  Sends(m, e, {f})
  <2>1. f.time \in Nat
    BY DEF SentEvent, AnyEvent
  <2>2. n # m => horizon[m] <= f.time
    BY <1>6, <1>7, <1>9, <2>1, ConstantFacts
  <2>3. seqnum' = seqnum + 1
    BY <1>9 DEF Send
  <2>4. \A k \in Mgr : queue'[k] = IF k = m THEN (queue[m] \ {e}) \cup (IF f.dst = m THEN {f} ELSE {})
                                            ELSE queue[k]
    BY <1>4, <1>9 DEF Send, TypeInv, ManagerTypes
  <2>5. \A k \in Mgr : minIpc'[k] = IF k = m THEN MinIpcAfter(m, f) ELSE minIpc[k]
    BY <1>4, <1>9 DEF Send, TypeInv, ManagerTypes
  <2>6. /\ MinIpcAfter(m, f) <= minIpc[m]
        /\ MinIpcAfter(m, f) = NoEvents \/ horizon[m] <= MinIpcAfter(m, f)
        /\ n # m => MinIpcAfter(m, f) <= f.time
    BY <1>6, <1>9, <2>1, <2>2 DEF MinIpcAfter, Min
  <2>7. \A k \in Mgr : \A s \in Slot : pending'[k][s] =
          pending[k][s] \cup {g \in {f} : g.dst = k /\ k # m /\ k[1] = m[1] /\ s = slot[m]}
    <3>1. CASE f.dst # m /\ f.dst[1] = m[1]
      <4>1. pending' = [pending EXCEPT ![n][slot[m]] = pending[n][slot[m]] \cup {f}]
        BY <1>9, <3>1 DEF Send
      <4>2. pending \in [Mgr -> [Slot -> SUBSET SentEvent]] /\ slot[m] \in Slot
        BY <1>4 DEF TypeInv, ManagerTypes
      <4>3. \A k \in Mgr : \A s \in Slot : pending'[k][s] =
              IF k = n /\ s = slot[m] THEN pending[k][s] \cup {f} ELSE pending[k][s]
        BY <4>1, <4>2
      <4>4. \A k \in Mgr : \A s \in Slot :
              {g \in {f} : g.dst = k /\ k # m /\ k[1] = m[1] /\ s = slot[m]} =
              IF k = n /\ s = slot[m] THEN {f} ELSE {}
        BY <1>9, <3>1
      <4> SUFFICES ASSUME NEW k \in Mgr, NEW s \in Slot
                   PROVE  pending'[k][s] = pending[k][s] \cup
                            {g \in {f} : g.dst = k /\ k # m /\ k[1] = m[1] /\ s = slot[m]}
        OBVIOUS
      <4>5. CASE k = n /\ s = slot[m]
        BY <4>3, <4>4, <4>5
      <4>6. CASE ~(k = n /\ s = slot[m])
        <5>1. pending'[k][s] = pending[k][s]
          BY <4>3, <4>6
        <5>2. {g \in {f} : g.dst = k /\ k # m /\ k[1] = m[1] /\ s = slot[m]} = {}
          BY <4>4, <4>6
        <5> QED
          BY <5>1, <5>2
      <4> QED
        BY <4>5, <4>6
    <3>2. CASE ~(f.dst # m /\ f.dst[1] = m[1])
      <4>1. pending' = pending
        BY <1>9, <3>2 DEF Send
      <4>2. \A k \in Mgr : \A s \in Slot :
              {g \in {f} : g.dst = k /\ k # m /\ k[1] = m[1] /\ s = slot[m]} = {}
        BY <3>2
      <4> QED
        BY <4>1, <4>2
    <3> QED
      BY <3>1, <3>2
  <2>8. \A q, r \in Proc : sendBuf'[q][r] =
          sendBuf[q][r] \cup {g \in {f} : q = m[1] /\ r # q /\ g.dst[1] = r}
    <3>0. m[1] \in Proc /\ n[1] \in Proc
      BY MgrFacts
    <3>1. CASE f.dst[1] # m[1]
      <4>1. sendBuf' = [sendBuf EXCEPT ![m[1]][n[1]] = sendBuf[m[1]][n[1]] \cup {f}]
        BY <1>9, <3>1 DEF Send
      <4>2. sendBuf \in [Proc -> [Proc -> SUBSET SentEvent]]
        BY <1>4 DEF TypeInv, ProcessTypes
      <4>3. \A q, r \in Proc : sendBuf'[q][r] =
              IF q = m[1] /\ r = n[1] THEN sendBuf[q][r] \cup {f} ELSE sendBuf[q][r]
        BY <3>0, <4>1, <4>2
      <4>4. \A q, r \in Proc :
              {g \in {f} : q = m[1] /\ r # q /\ g.dst[1] = r} =
              IF q = m[1] /\ r = n[1] THEN {f} ELSE {}
        BY <1>9, <3>1
      <4> QED
        BY <4>3, <4>4, ZenonT(30)
    <3>2. CASE f.dst[1] = m[1]
      <4>1. sendBuf' = sendBuf
        BY <1>9, <3>2 DEF Send
      <4>2. \A q, r \in Proc : {g \in {f} : q = m[1] /\ r # q /\ g.dst[1] = r} = {}
        BY <3>2
      <4> QED
        BY <4>1, <4>2
    <3> QED
      BY <3>1, <3>2
  <2>9. \A g \in {f} :
          /\ g \in SentEvent /\ g.src = m /\ g.seqnum = seqnum /\ seqnum < seqnum'
          /\ e.time <= g.time
          /\ g.dst # m => /\ horizon[m] <= g.time /\ minIpc'[m] <= g.time
                          /\ e.time + Lookahead <= g.time
    BY <1>6, <1>9, <2>2, <2>3, <2>5, <2>6
  <2>10. \A k \in Mgr : queue'[k] =
           IF k = m THEN (queue[m] \ {e}) \cup {g \in {f} : g.dst = m} ELSE queue[k]
    <3>1. {g \in {f} : g.dst = m} = IF f.dst = m THEN {f} ELSE {}
      OBVIOUS
    <3> QED
      BY <2>4, <3>1
  <2>11. seqnum <= seqnum'
    BY <1>6, <2>3
  <2> QED
    BY <1>1, <1>3, <1>5, <2>5, <2>6, <2>7, <2>8, <2>9, <2>10, <2>11 DEF Sends
<1> QED
  BY <1>1, <1>8, <1>9

LEMMA ExecuteStep ==
  ASSUME IInv, NEW m \in Mgr, Execute(m)
  PROVE  IInv' /\ \E e \in Unhandled : Sim!Execute(e)
<1> DEFINE p == m[1]
<1>1. TypeInv' /\ TypeInv
  BY ExecuteTypes DEF IInv
<1>2. pc[m] = "run"
  BY DEF Execute
<1>3. PICK e \in queue[m] : \E New :
        e.time < horizon[m] /\ IsNext(e, m) /\ ~e.stop /\ Sends(m, e, New)
  BY ExecuteEffect
<1>4. PICK New : Sends(m, e, New)
  BY <1>3
<1>5. /\ p \in Proc /\ MainOf(m) = Main(p) /\ Main(p) \in Mgr
      /\ InEpoch(p) /\ Current(m) /\ horizon[m] = horizon[Main(p)]
  BY <1>2, RunningThread
<1>6. /\ UNCHANGED <<pc, slot, serialized, stopped, horizon, delta, minTime>>
      /\ UNCHANGED <<lowerBound, lastHorizon, votes, numSent, tag, net>>
  BY <1>4 DEF Sends
<1>7. SameEpochs /\ WorkerInv' /\ TreeInv'
  <2>1. pc' = [pc EXCEPT ![m] = "run"]
    BY <1>1, <1>2, <1>6 DEF TypeInv, ManagerTypes
  <2> QED
    BY <1>2, <1>6, <2>1, RunFrame
<1>8. /\ e \in Unhandled /\ e \in AnyEvent /\ e.time \in Nat /\ e.dst = m
      /\ Sim!Earliest(e) /\ Sim!Safe(e)
      /\ \A q \in Proc : Bound(q) <= e.time
      /\ \A n \in Mgr : e \in queue[n] => n = m
      /\ \A n \in Mgr : e \notin serialized[n] /\ \A s \in Slot : e \notin pending[n][s]
      /\ \A q, r \in Proc : e \notin sendBuf[q][r]
      /\ \A x \in net : e \notin x.evs
  BY <1>2, <1>3, NextEvent
<1>9. \A n \in Mgr : Registered(n)' = Registered(n) /\ Finished(n)' = Finished(n) /\ SendSlot(n)' = SendSlot(n)
  BY <1>6 DEF Registered, Current, Finished, InEpoch, Exchanging, SendSlot, NextSlot, MainOf
<1>10. Registered(m) /\ ~Finished(m) /\ SendSlot(m) = slot[m]
  BY <1>2, <1>5 DEF Registered, Finished, SendSlot
<1> HIDE DEF p
<1>11. \A f \in New :
         /\ f \in SentEvent /\ f \in AnyEvent /\ f.src = m /\ f.dst \in Mgr /\ f.time \in Nat
         /\ f.seqnum = seqnum /\ f.seqnum < seqnum' /\ e.time <= f.time /\ f # e
         /\ f.dst # m => horizon[m] <= f.time /\ minIpc'[m] <= f.time /\ e.time + Lookahead <= f.time
  <2>1. e.seqnum < seqnum /\ seqnum \in Nat
    BY <1>1, <1>8 DEF IInv, TimeInv, NotBefore, TypeInv, ManagerTypes
  <2> SUFFICES ASSUME NEW f \in New
               PROVE  /\ f \in SentEvent /\ f \in AnyEvent /\ f.src = m /\ f.dst \in Mgr /\ f.time \in Nat
                      /\ f.seqnum = seqnum /\ f.seqnum < seqnum' /\ e.time <= f.time /\ f # e
                      /\ f.dst # m => horizon[m] <= f.time /\ minIpc'[m] <= f.time
                                      /\ e.time + Lookahead <= f.time
    OBVIOUS
  <2>2. /\ f \in SentEvent /\ f.src = m /\ f.seqnum = seqnum /\ seqnum < seqnum'
        /\ e.time <= f.time
        /\ f.dst # m => /\ horizon[m] <= f.time /\ minIpc'[m] <= f.time
                        /\ e.time + Lookahead <= f.time
    BY <1>4 DEF Sends
  <2>3. f \in AnyEvent /\ f.dst \in Mgr /\ f.time \in Nat
    BY <2>2 DEF SentEvent, AnyEvent
  <2>4. f # e
    BY <2>1, <2>2
  <2> QED
    BY <2>2, <2>3, <2>4
<1>12. \A f \in SentEvent : Covered(f) => Covered(f)'
  <2> SUFFICES ASSUME NEW f \in SentEvent, Covered(f) PROVE Covered(f)'
    OBVIOUS
  <2>1. f.src \in Mgr /\ f.time \in Nat
    BY DEF SentEvent, AnyEvent
  <2>2. minIpc'[f.src] <= minIpc[f.src] /\ minIpc[f.src] \in Nat /\ minIpc'[f.src] \in Nat
    <3>1. \A n \in Mgr : minIpc[n] \in Nat /\ minIpc'[n] \in Nat
      BY <1>1, ConstantFacts DEF TypeInv, ManagerTypes
    <3>2. \A n \in Mgr : n # m => minIpc'[n] = minIpc[n]
      BY <1>4 DEF Sends
    <3>3. minIpc'[m] <= minIpc[m]
      BY <1>4 DEF Sends
    <3> QED
      BY <2>1, <3>1, <3>2, <3>3
  <2>3. Registered(f.src) /\ (stopped[f.src] \/ minIpc[f.src] <= f.time)
    BY DEF Covered
  <2> QED
    BY <1>6, <1>9, <2>1, <2>2, <2>3 DEF Covered
<1>13. \A f \in New : f.dst # m => Covered(f)'
  BY <1>9, <1>10, <1>11 DEF Covered
<1>14. SlotInv'
  BY <1>9 DEF SlotInv, IInv, FlightInv
<1>15. PendingInv'
  <2> SUFFICES ASSUME NEW n \in Mgr, NEW s \in Slot, NEW f \in pending'[n][s]
               PROVE  /\ f.dst = n /\ f.src[1] = n[1]
                      /\ s = SendSlot(n)' => horizon'[MainOf(n)] <= f.time /\ Covered(f)'
                      /\ s # SendSlot(n)' => s = slot'[n]
    BY DEF PendingInv, PendingOk, MainOf, Main
  <2>1. CASE f \in pending[n][s]
    <3>1. f \in SentEvent
      BY <1>1, <2>1 DEF TypeInv, ManagerTypes
    <3>2. /\ f.dst = n /\ f.src[1] = n[1]
          /\ s = SendSlot(n) => horizon[MainOf(n)] <= f.time /\ Covered(f)
          /\ s # SendSlot(n) => s = slot[n]
      BY <2>1 DEF IInv, FlightInv, PendingInv, PendingOk
    <3> QED
      BY <1>6, <1>9, <1>12, <3>1, <3>2
  <2>2. CASE f \notin pending[n][s]
    <3>1. f \in New /\ f.dst = n /\ n # m /\ n[1] = m[1] /\ s = slot[m]
      BY <1>4, <2>2 DEF Sends
    <3>2. SendSlot(n) = s
      BY <1>10, <3>1 DEF IInv, FlightInv, SlotInv
    <3>3. horizon[MainOf(n)] <= f.time /\ Covered(f)' /\ f.src[1] = n[1]
      BY <1>5, <1>11, <1>13, <3>1 DEF MainOf
    <3> QED
      BY <1>6, <1>9, <3>1, <3>2, <3>3
  <2> QED
    BY <2>1, <2>2
<1>16. SerializedInv'
  BY <1>6, <1>9 DEF SerializedInv, SerializedOk, MainOf, IInv, FlightInv
<1>17. BufferInv'
  <2> SUFFICES ASSUME NEW q \in Proc, NEW r \in Proc, NEW f \in sendBuf'[q][r]
               PROVE  /\ f.dst[1] = r /\ f.src[1] = q
                      /\ Covered(f)' /\ horizon'[Main(q)] <= f.time
                      /\ InEpoch(q)' \/ pc'[Main(q)] = "vote" \/ stopped'[Main(q)]
    BY DEF BufferInv, BufferOk, Main
  <2>1. CASE f \in sendBuf[q][r]
    <3>1. f \in SentEvent
      BY <1>1, <2>1 DEF TypeInv, ProcessTypes
    <3>2. /\ f.dst[1] = r /\ f.src[1] = q
          /\ Covered(f) /\ horizon[Main(q)] <= f.time
          /\ InEpoch(q) \/ pc[Main(q)] = "vote" \/ stopped[Main(q)]
      BY <2>1 DEF IInv, FlightInv, BufferInv, BufferOk
    <3> QED
      BY <1>6, <1>12, <3>1, <3>2 DEF InEpoch
  <2>2. CASE f \notin sendBuf[q][r]
    <3>1. f \in New /\ q = p /\ r # q /\ f.dst[1] = r
      BY <1>4, <2>2 DEF Sends, p
    <3>2. f.dst # m /\ f.src = m
      BY <1>11, <3>1 DEF p
    <3>3. horizon[m] <= f.time /\ Covered(f)'
      BY <1>11, <1>13, <3>1, <3>2
    <3> QED
      BY <1>5, <1>6, <3>1, <3>2, <3>3 DEF p, InEpoch
  <2> QED
    BY <2>1, <2>2
<1>18. /\ Unhandled' \ Unhandled \subseteq New
       /\ Unhandled \ {e} \subseteq Unhandled' /\ e \notin Unhandled'
  <2>1. \A n \in Mgr : queue[n] \ {e} \subseteq queue'[n]
    BY <1>4 DEF Sends
  <2>2. \A n \in Mgr : e \notin queue'[n] /\ queue'[n] \subseteq queue[n] \cup New
    <3>1. \A n \in Mgr : queue'[n] =
            IF n = m THEN (queue[m] \ {e}) \cup {f \in New : f.dst = m} ELSE queue[n]
      BY <1>4 DEF Sends
    <3>2. e \notin New
      BY <1>11
    <3> QED
      BY <1>8, <3>1, <3>2
  <2>3. \A n \in Mgr : \A s \in Slot : pending[n][s] \subseteq pending'[n][s]
                                       /\ pending'[n][s] \subseteq pending[n][s] \cup New
    BY <1>4 DEF Sends
  <2>4. \A q, r \in Proc : sendBuf[q][r] \subseteq sendBuf'[q][r]
                           /\ sendBuf'[q][r] \subseteq sendBuf[q][r] \cup New
    BY <1>4 DEF Sends
  <2>5. e \notin New
    BY <1>11
  <2>6. ASSUME NEW f \in Unhandled' PROVE f # e /\ (f \in Unhandled \/ f \in New)
    <3>1. CASE \E n \in Mgr : f \in queue'[n]
      BY <2>2, <3>1, UnhandledMembers
    <3>2. CASE \E n \in Mgr : f \in serialized[n] \/ \E s \in Slot : f \in pending'[n][s]
      BY <1>8, <2>3, <2>5, <3>2, UnhandledMembers
    <3>3. CASE \E q, r \in Proc : f \in sendBuf'[q][r]
      BY <1>8, <2>4, <2>5, <3>3, UnhandledMembers
    <3>4. CASE \E x \in net : f \in x.evs
      BY <1>8, <3>4, UnhandledMembers
    <3> QED
      BY <1>6, <3>1, <3>2, <3>3, <3>4, UnhandledMembersNext
  <2>7. ASSUME NEW f \in Unhandled, f # e PROVE f \in Unhandled'
    <3>1. \/ \E n \in Mgr : \/ f \in queue'[n]
                            \/ f \in serialized'[n]
                            \/ \E s \in Slot : f \in pending'[n][s]
          \/ \E q, r \in Proc : f \in sendBuf'[q][r]
          \/ \E x \in net' : f \in x.evs
      BY <1>6, <2>1, <2>3, <2>4, <2>7, UnhandledMembers
    <3> QED
      BY <3>1, UnhandledMembersNext
  <2> QED
    BY <2>6, <2>7
<1>19. Sim!Execute(e)
  <2>1. Unhandled' \subseteq Sim!Event
    <3>1. Unhandled \subseteq AnyEvent
      BY <1>1, UnhandledTypes
    <3>2. AnyEvent \subseteq Sim!Event
      BY ConstantFacts DEF AnyEvent, Sim!Event
    <3> QED
      BY <1>11, <1>18, <3>1, <3>2
  <2>2. \A f \in Unhandled' \ Unhandled : Sim!CausedBy(f, e)
    <3> SUFFICES ASSUME NEW f \in New PROVE Sim!CausedBy(f, e)
      BY <1>18
    <3> QED
      BY <1>8, <1>11 DEF Sim!CausedBy
  <2>3. now' = [now EXCEPT ![e.dst] = e.time]
    BY <1>4, <1>8 DEF Sends
  <2> QED
    BY <1>3, <1>8, <1>18, <2>1, <2>2, <2>3 DEF Sim!Execute, Sim!Handle
<1>20. /\ \A q \in Proc : Bound(q)' = Bound(q)
       /\ EpochInv' /\ SameBound' /\ TagInv' /\ NetInv' /\ RecvInv'
  BY <1>6, <1>7, EpochFrame
<1>21. NotBefore'
  <2> SUFFICES ASSUME NEW f \in Unhandled'
               PROVE  f.seqnum < seqnum' /\ \A q \in Proc : Bound(q)' <= f.time
    BY DEF NotBefore
  <2>1. CASE f \in Unhandled
    <3>1. f.seqnum < seqnum /\ \A q \in Proc : Bound(q) <= f.time
      BY <2>1 DEF IInv, TimeInv, NotBefore
    <3>2. f.seqnum \in Nat /\ seqnum \in Nat /\ seqnum' \in Nat /\ seqnum <= seqnum'
      BY <1>1, <1>4, <2>1, UnhandledTypes DEF TypeInv, ManagerTypes, AnyEvent, Sends
    <3> QED
      BY <1>20, <3>1, <3>2
  <2>2. CASE f \notin Unhandled
    <3>1. f \in New
      BY <1>18, <2>2
    <3>2. \A q \in Proc : Bound(q) \in Int
      BY <1>1, MgrFacts, ConstantFacts DEF Bound, TypeInv, ManagerTypes, ProcessTypes
    <3> QED
      BY <1>8, <1>11, <1>20, <3>1, <3>2
  <2> QED
    BY <2>1, <2>2
<1>22. StopInv'
  <2>1. PICK u \in StopTimes : StopsAt(u)
    BY DEF IInv, TimeInv, StopInv, StoppedOk
  <2>2. StopsAt(u)'
    <3> SUFFICES ASSUME NEW n \in Mgr
                 PROVE  /\ \A f \in queue'[n] : f.dst = n /\ (f.stop => u > 0 /\ f = StopEvent(u, n))
                        /\ stopped'[n] => u > 0 /\ u < horizon'[n] /\ now'[n] = u /\ queue'[n] = {}
                        /\ u > 0 /\ ~stopped'[n] => StopEvent(u, n) \in queue'[n]
      BY DEF StopsAt, StopsFor, StopEvent
    <3>1. /\ \A f \in queue[n] : f.dst = n /\ (f.stop => u > 0 /\ f = StopEvent(u, n))
          /\ stopped[n] => u > 0 /\ u < horizon[n] /\ now[n] = u /\ queue[n] = {}
          /\ u > 0 /\ ~stopped[n] => StopEvent(u, n) \in queue[n]
      BY <2>1 DEF StopsAt, StopsFor
    <3>2. CASE n = m
      <4>1. ~stopped[m]
        BY <3>1, <3>2
      <4>2. queue'[m] = (queue[m] \ {e}) \cup {f \in New : f.dst = m}
        BY <1>4 DEF Sends
      <4>3. \A f \in New : ~f.stop
        BY <1>11 DEF SentEvent
      <4>4. StopEvent(u, m) # e
        BY <1>3 DEF StopEvent
      <4> QED
        BY <1>6, <3>1, <3>2, <4>1, <4>2, <4>3, <4>4
    <3>3. CASE n # m
      <4>1. queue'[n] = queue[n] /\ now'[n] = now[n]
        BY <1>4, <3>3 DEF Sends
      <4> QED
        BY <1>6, <3>1, <4>1
    <3> QED
      BY <3>2, <3>3
  <2> QED
    BY <1>6, <1>9, <2>2 DEF StopInv, StoppedOk, MainOf, InEpoch, IInv, TimeInv
<1>23. VoteInv'
  <2>0. VoteInv
    BY DEF IInv, ThreadInv
  <2>1. ~Finished(m)' /\ (minIpc'[m] = NoEvents \/ horizon'[m] <= minIpc'[m])
    BY <1>4, <1>6, <1>9, <1>10 DEF Sends
  <2>2. ASSUME NEW n \in Mgr, n # m
        PROVE  /\ Registered(n)' => minIpc'[n] = NoEvents \/ horizon'[n] <= minIpc'[n]
               /\ Finished(n)' =>
                    /\ minTime'[n] <= minIpc'[n]
                    /\ minTime'[n] = NoEvents \/ horizon'[n] <= minTime'[n]
                    /\ \A f \in queue'[n] : minTime'[n] <= f.time /\ horizon'[n] <= f.time
               /\ Finished(n)' /\ pc'[n] # "join" => \A c \in Children(n) : minTime'[n] <= minTime'[c]
    <3>1. queue'[n] = queue[n] /\ minIpc'[n] = minIpc[n]
      BY <1>4, <2>2 DEF Sends
    <3> QED
      BY <1>6, <1>7, <2>0, <2>2, <3>1, VoteFrame
  <2> QED
    BY <2>1, <2>2 DEF VoteInv, VoteOk
<1>24. ThreadInv'
  BY <1>7, <1>23 DEF ThreadInv
<1>25. ReduceInv'
  BY <1>6 DEF ReduceInv, IInv, MessageInv
<1>26. IInv'
  BY <1>1, <1>14, <1>15, <1>16, <1>17, <1>20, <1>21, <1>22, <1>24, <1>25
  DEF IInv, TimeInv, FlightInv, MessageInv
<1> QED
  BY <1>8, <1>19, <1>26

-----------------------------------------------------------------------------
(***************************************************************************)
(* The steps of a main thread change its own process, and what is on the   *)
(* way between processes.                                                  *)
(***************************************************************************)
ProcessOk(p) ==
  /\ \A m \in WorkerMgr : m[1] = p => WorkerOk(m) /\ TreeOk(m)
  /\ RootOk(p) /\ EpochOk(p) /\ BufferOk(p)
  /\ \A m \in Mgr : m[1] = p => VoteOk(m) /\ StoppedOk(m) /\ PendingOk(m) /\ SerializedOk(m)
  /\ \A m, n \in Mgr : m[1] = p /\ n[1] = p => SendSlot(m) = SendSlot(n)

LEMMA ByProcess ==
  ASSUME IInv
  PROVE  \A p \in Proc : ProcessOk(p)
BY DEF ProcessOk, IInv, ThreadInv, TimeInv, FlightInv, WorkerInv, TreeInv, VoteInv, EpochInv,
       StopInv, SlotInv, PendingInv, SerializedInv, BufferInv

LEMMA FromProcesses ==
  ASSUME \A p \in Proc : ProcessOk(p)',
         TypeInv', SameBound', NotBefore', \E u \in StopTimes : StopsAt(u)', MessageInv'
  PROVE  IInv'
<1>0. \A m \in Mgr : m[1] \in Proc
  BY MgrFacts
<1>1. \A m \in WorkerMgr : m[1] \in Proc
  BY MgrFacts
<1>2. ThreadInv'
  BY <1>0, <1>1 DEF ProcessOk, ThreadInv, WorkerInv, TreeInv, VoteInv
<1>3. TimeInv'
  BY <1>0 DEF ProcessOk, TimeInv, EpochInv, StopInv
<1>4. FlightInv'
  BY <1>0 DEF ProcessOk, FlightInv, SlotInv, PendingInv, SerializedInv, BufferInv
<1> QED
  BY <1>2, <1>3, <1>4 DEF IInv

\* A process that takes no part in a step.
SameProcess(q) ==
  /\ \A n \in Mgr : n[1] = q =>
       /\ pc'[n] = pc[n] /\ horizon'[n] = horizon[n] /\ stopped'[n] = stopped[n]
       /\ minTime'[n] = minTime[n] /\ minIpc'[n] = minIpc[n] /\ slot'[n] = slot[n]
       /\ queue'[n] = queue[n] /\ pending'[n] = pending[n] /\ serialized'[n] = serialized[n]
  /\ \A n \in WorkerMgr : n[1] = q => delta'[n] = delta[n]
  /\ lowerBound'[q] = lowerBound[q] /\ lastHorizon'[q] = lastHorizon[q]
  /\ sendBuf'[q] = sendBuf[q]

LEMMA SameStates ==
  ASSUME NEW q \in Proc, SameProcess(q)
  PROVE  /\ InEpoch(q)' = InEpoch(q) /\ Exchanging(q)' = Exchanging(q) /\ Opened(q)' = Opened(q)
         /\ Bound(q)' = Bound(q) /\ Growth(q)' = Growth(q)
         /\ pc'[Main(q)] = pc[Main(q)] /\ horizon'[Main(q)] = horizon[Main(q)]
         /\ stopped'[Main(q)] = stopped[Main(q)] /\ minTime'[Main(q)] = minTime[Main(q)]
         /\ \A n \in Mgr : n[1] = q =>
              /\ Current(n)' = Current(n) /\ Registered(n)' = Registered(n)
              /\ Finished(n)' = Finished(n) /\ SendSlot(n)' = SendSlot(n)
         /\ \A n \in WorkerMgr : n[1] = q =>
              /\ Idle(n)' = Idle(n) /\ Behind(n)' = Behind(n) /\ Called(n)' = Called(n)
              /\ Busy(n)' = Busy(n) /\ Ended(n)' = Ended(n)
<1>1. Main(q) \in Mgr /\ Main(q)[1] = q /\ \A n \in WorkerMgr : n \in Mgr
  BY MgrFacts
<1>2. /\ pc'[Main(q)] = pc[Main(q)] /\ horizon'[Main(q)] = horizon[Main(q)]
      /\ stopped'[Main(q)] = stopped[Main(q)] /\ minTime'[Main(q)] = minTime[Main(q)]
      /\ lowerBound'[q] = lowerBound[q] /\ lastHorizon'[q] = lastHorizon[q]
  BY <1>1 DEF SameProcess
<1>3. InEpoch(q)' = InEpoch(q) /\ Exchanging(q)' = Exchanging(q)
  BY <1>2 DEF InEpoch, Exchanging
<1>4. Opened(q)' = Opened(q) /\ Bound(q)' = Bound(q) /\ Growth(q)' = Growth(q)
  BY <1>2, <1>3 DEF Opened, Bound, Growth
<1>5. ASSUME NEW n \in Mgr, n[1] = q
      PROVE  /\ Current(n)' = Current(n) /\ Registered(n)' = Registered(n)
             /\ Finished(n)' = Finished(n) /\ SendSlot(n)' = SendSlot(n)
  <2>1. pc'[n] = pc[n] /\ horizon'[n] = horizon[n] /\ slot'[n] = slot[n] /\ MainOf(n) = Main(q)
    BY <1>5 DEF SameProcess, MainOf
  <2>2. Current(n)' = Current(n)
    BY <1>2, <1>5, <2>1 DEF Current, MainOf
  <2>3. Registered(n)' = Registered(n)
    BY <2>1, <2>2 DEF Registered
  <2>4. Finished(n)' = Finished(n)
    BY <1>3, <1>5, <2>1, <2>2 DEF Finished
  <2> QED
    BY <2>1, <2>2, <2>3, <2>4 DEF SendSlot, NextSlot
<1>6. ASSUME NEW n \in WorkerMgr, n[1] = q
      PROVE  /\ Idle(n)' = Idle(n) /\ Behind(n)' = Behind(n) /\ Called(n)' = Called(n)
             /\ Busy(n)' = Busy(n) /\ Ended(n)' = Ended(n)
  <2>1. /\ pc'[n] = pc[n] /\ horizon'[n] = horizon[n] /\ delta'[n] = delta[n]
        /\ MainOf(n) = Main(q) /\ Current(n)' = Current(n)
    BY <1>1, <1>5, <1>6 DEF SameProcess, MainOf
  <2> QED
    BY <1>2, <1>3, <1>4, <1>6, <2>1 DEF Idle, Behind, Called, Busy, Ended, MainOf
<1> QED
  BY <1>2, <1>3, <1>4, <1>5, <1>6

LEMMA ProcessFrame ==
  ASSUME IInv, NEW q \in Proc, SameProcess(q)
  PROVE  ProcessOk(q)'
<1>0. ProcessOk(q)
  BY ByProcess
<1>1. /\ InEpoch(q)' = InEpoch(q) /\ Exchanging(q)' = Exchanging(q) /\ Opened(q)' = Opened(q)
      /\ pc'[Main(q)] = pc[Main(q)] /\ horizon'[Main(q)] = horizon[Main(q)]
      /\ stopped'[Main(q)] = stopped[Main(q)]
      /\ \A n \in Mgr : n[1] = q =>
           /\ Current(n)' = Current(n) /\ Registered(n)' = Registered(n)
           /\ Finished(n)' = Finished(n) /\ SendSlot(n)' = SendSlot(n)
      /\ \A n \in WorkerMgr : n[1] = q =>
           /\ Idle(n)' = Idle(n) /\ Behind(n)' = Behind(n) /\ Called(n)' = Called(n)
           /\ Busy(n)' = Busy(n) /\ Ended(n)' = Ended(n)
  BY SameStates
<1>2. Main(q) \in Mgr /\ \A n \in WorkerMgr : n \in Mgr
  BY MgrFacts
<1>3. \A n \in Mgr : \A c \in Children(n) : c \in WorkerMgr /\ c \in Mgr /\ c[1] = n[1]
  BY ChildFacts
<1>4. \A f \in SentEvent : f.src[1] = q => Covered(f)' = Covered(f)
  <2> SUFFICES ASSUME NEW f \in SentEvent, f.src[1] = q PROVE Covered(f)' = Covered(f)
    OBVIOUS
  <2>1. f.src \in Mgr
    BY DEF SentEvent, AnyEvent
  <2> QED
    BY <1>1, <2>1 DEF Covered, SameProcess
<1>5. \A m \in WorkerMgr : m[1] = q => WorkerOk(m)' /\ TreeOk(m)'
  <2> SUFFICES ASSUME NEW m \in WorkerMgr, m[1] = q PROVE WorkerOk(m)' /\ TreeOk(m)'
    OBVIOUS
  <2>1. WorkerOk(m) /\ TreeOk(m) /\ pc'[m] = pc[m]
    BY <1>0, <1>2 DEF ProcessOk, SameProcess
  <2>2. \A c \in Children(m) : c \in WorkerMgr /\ c[1] = q
    BY <1>2, <1>3
  <2> QED
    BY <1>1, <2>1, <2>2 DEF WorkerOk, TreeOk
<1>6. RootOk(q)'
  <2>1. \A c \in Children(Main(q)) : c \in WorkerMgr /\ c[1] = q
    BY <1>2, <1>3, MgrFacts
  <2> QED
    BY <1>0, <1>1, <2>1 DEF ProcessOk, RootOk
<1>7. EpochOk(q)'
  <2>1. lowerBound'[q] = lowerBound[q] /\ lastHorizon'[q] = lastHorizon[q]
    BY DEF SameProcess
  <2> QED
    BY <1>0, <1>1, <2>1 DEF ProcessOk, EpochOk
<1>8. BufferOk(q)'
  <2>1. \A r \in Proc : sendBuf[q][r] \subseteq SentEvent /\ sendBuf'[q][r] = sendBuf[q][r]
    BY DEF IInv, TypeInv, ProcessTypes, SameProcess
  <2>2. BufferOk(q)
    BY <1>0 DEF ProcessOk
  <2> QED
    BY <1>1, <1>4, <2>1, <2>2 DEF BufferOk
<1>9. ASSUME NEW m \in Mgr, m[1] = q
      PROVE  VoteOk(m)' /\ StoppedOk(m)' /\ PendingOk(m)' /\ SerializedOk(m)'
  <2>1. VoteOk(m) /\ StoppedOk(m) /\ PendingOk(m) /\ SerializedOk(m) /\ MainOf(m) = Main(q)
    BY <1>0, <1>9 DEF ProcessOk, MainOf
  <2>2. /\ pc'[m] = pc[m] /\ horizon'[m] = horizon[m] /\ stopped'[m] = stopped[m]
        /\ minTime'[m] = minTime[m] /\ minIpc'[m] = minIpc[m] /\ slot'[m] = slot[m]
        /\ queue'[m] = queue[m] /\ pending'[m] = pending[m] /\ serialized'[m] = serialized[m]
    BY <1>9 DEF SameProcess
  <2>3. \A c \in Children(m) : minTime'[c] = minTime[c]
    BY <1>3, <1>9 DEF SameProcess
  <2>4. VoteOk(m)'
    BY <1>1, <1>9, <2>1, <2>2, <2>3 DEF VoteOk
  <2>5. StoppedOk(m)'
    BY <1>1, <1>9, <2>1, <2>2 DEF StoppedOk, MainOf
  <2>6. PendingOk(m)'
    <3>1. \A s \in Slot : pending[m][s] \subseteq SentEvent
      BY DEF IInv, TypeInv, ManagerTypes
    <3> QED
      BY <1>1, <1>4, <1>9, <2>1, <2>2, <3>1 DEF PendingOk, MainOf
  <2>7. SerializedOk(m)'
    BY <1>1, <1>9, <2>1, <2>2 DEF SerializedOk, MainOf
  <2> QED
    BY <2>4, <2>5, <2>6, <2>7
<1>10. \A m, n \in Mgr : m[1] = q /\ n[1] = q => SendSlot(m)' = SendSlot(n)'
  BY <1>0, <1>1 DEF ProcessOk
<1> QED
  BY <1>5, <1>6, <1>7, <1>8, <1>9, <1>10 DEF ProcessOk

(***************************************************************************)
(* Between two epochs all threads of a process have registered what was    *)
(* pending, and nothing is in its send buffers unless it stopped.          *)
(***************************************************************************)
LEMMA BetweenEpochs ==
  ASSUME IInv, NEW p \in Proc, ~InEpoch(p), pc[Main(p)] # "done"
  PROVE  /\ \A n \in WorkerMgr : n[1] = p => Idle(n)
         /\ \A n \in Mgr : n[1] = p => Registered(n) /\ Current(n) /\ MainOf(n) = Main(p)
                                       /\ horizon[n] = horizon[Main(p)] /\ SendSlot(n) = slot[n]
         /\ ~stopped[Main(p)] => \A n \in Mgr : n[1] = p => ~stopped[n]
         /\ ~stopped[Main(p)] /\ pc[Main(p)] # "vote" => \A q \in Proc : sendBuf[p][q] = {}
<1>1. ProcessOk(p)
  BY ByProcess
<1>2. \A n \in WorkerMgr : n[1] = p => Idle(n)
  <2> SUFFICES ASSUME NEW n \in WorkerMgr, n[1] = p PROVE Idle(n)
    OBVIOUS
  <2>1. WorkerOk(n)
    BY <1>1 DEF ProcessOk
  <2> QED
    BY <2>1 DEF WorkerOk, Behind, Called, Busy, Ended, MainOf
<1>3. ASSUME NEW n \in Mgr, n[1] = p
      PROVE  Registered(n) /\ Current(n) /\ MainOf(n) = Main(p)
             /\ horizon[n] = horizon[Main(p)] /\ SendSlot(n) = slot[n]
  <2>1. CASE n \in WorkerMgr
    BY <1>2, <1>3, <2>1 DEF Idle, Registered, Current, MainOf, SendSlot
  <2>2. CASE n = Main(p)
    BY <1>3, <2>2 DEF InEpoch, Registered, Current, MainOf, SendSlot
  <2> QED
    BY <1>3, <2>1, <2>2, MgrFacts
<1>4. ~stopped[Main(p)] => \A n \in Mgr : n[1] = p => ~stopped[n]
  BY <1>1, <1>3 DEF ProcessOk, StoppedOk
<1>5. ~stopped[Main(p)] /\ pc[Main(p)] # "vote" => \A q \in Proc : sendBuf[p][q] = {}
  BY <1>1 DEF ProcessOk, BufferOk
<1> QED
  BY <1>2, <1>3, <1>4, <1>5

LEMMA MessageFrame ==
  ASSUME IInv, NEW p \in Proc, \A q \in Proc \ {p} : SameProcess(q),
         UNCHANGED <<net, votes, tag, numSent>>,
         pc[Main(p)] \notin {"reduce", "recv"}, pc'[Main(p)] \notin {"reduce", "recv"},
         \A x \in net : x.dst = p => \A f \in x.evs : horizon'[Main(p)] <= f.time
  PROVE  MessageInv'
<1>1. \A q \in Proc \ {p} :
        /\ pc'[Main(q)] = pc[Main(q)] /\ horizon'[Main(q)] = horizon[Main(q)]
        /\ minTime'[Main(q)] = minTime[Main(q)]
  BY SameStates
<1>2. \A q \in Proc : \A l \in {"reduce", "recv"} : pc'[Main(q)] = l <=> pc[Main(q)] = l
  BY <1>1
<1>3. MessageInv /\ \A x \in net : x.src \in Proc /\ x.dst \in Proc
  BY DEF IInv, TypeInv, ProcessTypes
<1>4. TagInv'
  BY <1>2, <1>3 DEF MessageInv, TagInv, EpochTag, NextTag
<1>5. NetInv'
  <2>1. \A x \in net : Fresh(x) => Fresh(x)'
    BY <1>1, <1>2, <1>3 DEF Fresh
  <2>2. \A x \in net : Awaited(x) => Awaited(x)'
    BY <1>2, <1>3 DEF Awaited
  <2>3. \A x \in net : \A f \in x.evs : horizon'[Main(x.dst)] <= f.time
    BY <1>1, <1>3 DEF MessageInv, NetInv
  <2> QED
    BY <1>3, <2>1, <2>2, <2>3 DEF MessageInv, NetInv
<1>6. ReduceInv'
  BY <1>1, <1>2, <1>3 DEF MessageInv, ReduceInv
<1>7. RecvInv'
  BY <1>2, <1>3 DEF MessageInv, RecvInv, Matching
<1> QED
  BY <1>4, <1>5, <1>6, <1>7 DEF MessageInv

LEMMA MainFrame ==
  ASSUME IInv, NEW p \in Proc, \A q \in Proc \ {p} : SameProcess(q),
         TypeInv', ProcessOk(p)', MessageInv', Bound(p)' = Bound(p),
         Unhandled' = Unhandled, UNCHANGED <<now, seqnum, stopped>>,
         \A n \in Mgr : n[1] = p =>
           /\ queue[n] \subseteq queue'[n]
           /\ stopped[n] => queue'[n] = queue[n] /\ horizon'[n] = horizon[n]
           /\ \A f \in queue'[n] \ queue[n] : f.dst = n /\ ~f.stop
  PROVE  IInv'
<1>1. \A q \in Proc : ProcessOk(q)'
  BY ProcessFrame
<1>2. \A q \in Proc : Bound(q)' = Bound(q)
  BY SameStates
<1>3. SameBound'
  BY <1>2 DEF IInv, TimeInv, SameBound
<1>4. NotBefore'
  BY <1>2 DEF IInv, TimeInv, NotBefore
<1>5. PICK u \in StopTimes : StopsAt(u)
  BY DEF IInv, TimeInv, StopInv
<1>6. StopsAt(u)'
  <2> SUFFICES ASSUME NEW n \in Mgr PROVE StopsFor(u, n)'
    BY DEF StopsAt
  <2>1. StopsFor(u, n) /\ n[1] \in Proc
    BY <1>5, MgrFacts DEF StopsAt
  <2>2. CASE n[1] = p
    BY <2>1, <2>2 DEF StopsFor, StopEvent
  <2>3. CASE n[1] # p
    <3>1. queue'[n] = queue[n] /\ horizon'[n] = horizon[n]
      BY <2>1, <2>3 DEF SameProcess
    <3> QED
      BY <2>1, <3>1 DEF StopsFor, StopEvent
  <2> QED
    BY <2>2, <2>3
<1> QED
  BY <1>1, <1>3, <1>4, <1>6, FromProcesses

(***************************************************************************)
(* The main thread opens the next epoch: it is late enough, everybody has  *)
(* registered the slots of the one before, and messages that are already   *)
(* there come from processes which opened the same epoch.                  *)
(***************************************************************************)
LEMMA StartEpochStep ==
  ASSUME IInv, NEW p \in Proc, StartEpoch(p)
  PROVE  IInv' /\ UNCHANGED <<Unhandled, now>>
<1> DEFINE m == Main(p)
           h == lowerBound[p] + Lookahead
<1>0. m \in Mgr /\ m[1] = p /\ m \notin WorkerMgr
  BY MgrFacts
<1>1. TypeInv' /\ TypeInv /\ EpochOk(p)
  BY StartTypes DEF IInv, TimeInv, EpochInv
<1>2. pc[m] = "start" /\ lowerBound[p] # NoEvents
  BY DEF StartEpoch
<1>3. ~InEpoch(p) /\ ~Exchanging(p) /\ ~stopped[m] /\ ~Opened(p) /\ lastHorizon[p] = horizon[m]
  <2>1. ~InEpoch(p) /\ ~Exchanging(p) /\ ~stopped[m] /\ lastHorizon[p] = horizon[m]
    BY <1>1, <1>2 DEF EpochOk, InEpoch, Exchanging
  <2> QED
    BY <2>1 DEF Opened
<1>4. /\ \A n \in WorkerMgr : n[1] = p => Idle(n)
      /\ \A n \in Mgr : n[1] = p => Registered(n) /\ Current(n) /\ MainOf(n) = m
                                    /\ horizon[n] = horizon[m] /\ SendSlot(n) = slot[n]
      /\ \A n \in Mgr : n[1] = p => ~stopped[n]
      /\ \A q \in Proc : sendBuf[p][q] = {}
  BY <1>2, <1>3, BetweenEpochs
<1>5. /\ h \in Nat /\ lastHorizon[p] \in Nat /\ lowerBound[p] \in Nat /\ lowerBound[p] < NoEvents
      /\ lastHorizon[p] < h /\ h < lastHorizon[p] + NoEvents /\ Lookahead <= h
      /\ h - Lookahead = lowerBound[p]
  <2>1. /\ horizon[m] \in Nat /\ lowerBound[p] \in Nat /\ lowerBound[p] < NoEvents
    <3>1. horizon[m] \in Nat
      BY <1>0, <1>1 DEF TypeInv, ManagerTypes
    <3>2. lowerBound[p] \in 0 .. NoEvents
      BY <1>1 DEF TypeInv, ProcessTypes
    <3> QED
      BY <1>2, <3>1, <3>2, ConstantFacts
  <2>2. /\ horizon[m] <= lowerBound[p]
        /\ (lowerBound[p] = 0 /\ horizon[m] = 0) \/ Lookahead <= horizon[m]
    BY <1>1, <1>2, <1>3 DEF EpochOk
  <2> QED
    BY <1>3, <2>1, <2>2, ConstantFacts
<1>6. /\ pc' = [pc EXCEPT ![m] = "register"]
      /\ horizon' = [horizon EXCEPT ![m] = h]
      /\ delta' = Signal(m, h - lastHorizon[p])
      /\ UNCHANGED <<mgrVars, minTime, procVars, sendBuf, net>>
  <2>1. Horizon(p) = h /\ h # lastHorizon[p]
    BY <1>5 DEF Horizon
  <2> QED
    BY <2>1 DEF StartEpoch
<1>7. /\ UNCHANGED <<now, queue, slot, pending, serialized, minIpc, stopped, seqnum, minTime>>
      /\ UNCHANGED <<lowerBound, lastHorizon, votes, numSent, tag, sendBuf, net>>
  BY <1>6 DEF mgrVars, procVars
<1> HIDE DEF m, h
<1>8. /\ pc'[m] = "register" /\ horizon'[m] = h
      /\ \A n \in Mgr : n # m => pc'[n] = pc[n] /\ horizon'[n] = horizon[n]
  BY <1>0, <1>1, <1>6 DEF TypeInv, ManagerTypes
<1>9. \A n \in WorkerMgr : delta'[n] = IF n \in Children(m) THEN delta[n] + (h - lastHorizon[p]) ELSE delta[n]
  BY <1>6 DEF Signal
<1>10. \A c \in Children(m) : c \in WorkerMgr /\ c[1] = p
  BY <1>0, ChildFacts
<1>11. \A q \in Proc \ {p} : SameProcess(q)
  <2> SUFFICES ASSUME NEW q \in Proc \ {p} PROVE SameProcess(q)
    OBVIOUS
  <2>1. \A n \in Mgr : n[1] = q => n # m /\ n \notin Children(m)
    BY <1>0, <1>10
  <2>2. \A n \in WorkerMgr : n \in Mgr
    BY MgrFacts
  <2> QED
    BY <1>7, <1>8, <1>9, <2>1, <2>2 DEF SameProcess
<1>12. /\ InEpoch(p)' /\ Opened(p)' /\ ~Exchanging(p)'
       /\ Bound(p) = lowerBound[p] /\ Bound(p)' = lowerBound[p] /\ Growth(p)' = h - lastHorizon[p]
  <2>1. InEpoch(p)' /\ ~Exchanging(p)'
    BY <1>8 DEF InEpoch, Exchanging, m
  <2>2. Opened(p)'
    BY <2>1 DEF Opened
  <2>3. Bound(p) = lowerBound[p] /\ Bound(p)' = lowerBound[p]
    BY <1>3, <1>5, <1>8, <2>2 DEF Bound, m
  <2> QED
    BY <1>7, <1>8, <2>1, <2>2, <2>3 DEF Growth, m
<1>13. \A n \in Mgr : n[1] = p =>
         /\ ~Registered(n)' /\ ~Finished(n)' /\ SendSlot(n)' = NextSlot(slot[n])
         /\ n # m => ~Current(n)'
  <2> SUFFICES ASSUME NEW n \in Mgr, n[1] = p
               PROVE  /\ ~Registered(n)' /\ ~Finished(n)' /\ SendSlot(n)' = NextSlot(slot[n])
                      /\ n # m => ~Current(n)'
    OBVIOUS
  <2>1. CASE n = m
    BY <1>7, <1>8, <2>1 DEF Registered, Finished, SendSlot
  <2>2. CASE n # m
    <3>1. horizon'[n] = lastHorizon[p] /\ horizon'[MainOf(n)] = h /\ MainOf(n)' = MainOf(n)
      BY <1>3, <1>4, <1>8, <2>2 DEF MainOf
    <3>2. ~Current(n)'
      BY <1>5, <3>1 DEF Current
    <3> QED
      BY <1>7, <3>2 DEF Registered, Finished, SendSlot
  <2> QED
    BY <2>1, <2>2
<1>14. \A n \in WorkerMgr : n[1] = p =>
         /\ n \in Children(m) => Called(n)' /\ delta'[n] # 0
         /\ n \notin Children(m) => Behind(n)'
         /\ ~Idle(n)' /\ ~Busy(n)' /\ ~Ended(n)' /\ (Called(n)' => delta'[n] # 0)
  <2> SUFFICES ASSUME NEW n \in WorkerMgr, n[1] = p
               PROVE  /\ n \in Children(m) => Called(n)' /\ delta'[n] # 0
                      /\ n \notin Children(m) => Behind(n)'
                      /\ ~Idle(n)' /\ ~Busy(n)' /\ ~Ended(n)' /\ (Called(n)' => delta'[n] # 0)
    OBVIOUS
  <2>1. n \in Mgr /\ n # m
    BY <1>0, MgrFacts
  <2>2. Idle(n) /\ horizon[n] = lastHorizon[p]
    BY <1>3, <1>4, <2>1
  <2>3. /\ pc'[n] = "wait" /\ horizon'[n] = lastHorizon'[p] /\ delta[n] = 0
        /\ ~Current(n)' /\ MainOf(n)' = m
    BY <1>4, <1>7, <1>8, <1>13, <2>1, <2>2 DEF Idle, MainOf, m
  <2>4. h - lastHorizon[p] # 0 /\ 0 + (h - lastHorizon[p]) = h - lastHorizon[p]
    BY <1>5
  <2>5. delta'[n] = IF n \in Children(m) THEN h - lastHorizon[p] ELSE 0
    BY <1>9, <2>3, <2>4
  <2> QED
    BY <1>12, <2>3, <2>4, <2>5 DEF Called, Behind, Idle, Busy, Ended
<1>15. ProcessOk(p)'
  <2>1. \A n \in WorkerMgr : n[1] = p => WorkerOk(n)'
    BY <1>14 DEF WorkerOk
  <2>2. ASSUME NEW n \in WorkerMgr, n[1] = p PROVE TreeOk(n)'
    <3>1. \A c \in Children(n) : c \in WorkerMgr /\ c[1] = p /\ c \notin Children(m)
      BY <1>0, <2>2, ChildFacts, MgrFacts
    <3> QED
      BY <1>14, <2>2, <3>1 DEF TreeOk
  <2>3. RootOk(p)'
    <3>1. \A c \in Children(m) : ~Behind(c)'
      BY <1>10, <1>14 DEF Behind
    <3> QED
      BY <3>1 DEF RootOk, m
  <2>4. EpochOk(p)'
    BY <1>2, <1>5, <1>7, <1>8, <1>12 DEF EpochOk, m, h
  <2>5. BufferOk(p)'
    BY <1>4, <1>7 DEF BufferOk
  <2>6. ASSUME NEW n \in Mgr, n[1] = p
        PROVE  VoteOk(n)' /\ StoppedOk(n)' /\ PendingOk(n)' /\ SerializedOk(n)'
    <3>1. VoteOk(n)'
      BY <1>13, <2>6 DEF VoteOk
    <3>2. StoppedOk(n)'
      BY <1>4, <1>7, <1>12, <2>6 DEF StoppedOk
    <3>3. PendingOk(n)'
      <4>1. PendingOk(n) /\ SendSlot(n) = slot[n] /\ slot[n] \in Slot
        BY <1>1, <1>4, <2>6 DEF IInv, FlightInv, PendingInv, TypeInv, ManagerTypes
      <4>2. SendSlot(n)' # slot[n]
        BY <1>13, <2>6, <4>1, NextSlotType
      <4> QED
        BY <1>7, <4>1, <4>2 DEF PendingOk
    <3>4. SerializedOk(n)'
      BY <1>7, <1>13, <2>6 DEF SerializedOk, IInv, FlightInv, SerializedInv
    <3> QED
      BY <3>1, <3>2, <3>3, <3>4
  <2>7. ASSUME NEW n \in Mgr, NEW k \in Mgr, n[1] = p, k[1] = p
        PROVE  SendSlot(n)' = SendSlot(k)'
    <3>1. slot[n] = slot[k]
      BY <1>4, <2>7 DEF IInv, FlightInv, SlotInv
    <3> QED
      BY <1>13, <2>7, <3>1
  <2> QED
    BY <2>1, <2>2, <2>3, <2>4, <2>5, <2>6, <2>7 DEF ProcessOk
<1>16. MessageInv'
  <2>1. ASSUME NEW x \in net, x.dst = p, NEW f \in x.evs
        PROVE  horizon'[m] <= f.time
    <3>1. Fresh(x)
      BY <1>2, <2>1 DEF IInv, MessageInv, NetInv, Awaited, m
    <3>2. x.src \in Proc /\ horizon[Main(x.src)] <= f.time /\ Opened(x.src)
      BY <1>1, <3>1 DEF Fresh, Opened, Exchanging, TypeInv, ProcessTypes
    <3>3. horizon[Main(x.src)] \in Nat /\ horizon[Main(x.src)] - Lookahead = lowerBound[p]
      BY <1>1, <1>12, <3>2, MgrFacts DEF Bound, TypeInv, ManagerTypes, IInv, TimeInv, SameBound
    <3>4. horizon[Main(x.src)] = h
      BY <1>5, <3>3, ConstantFacts DEF h
    <3> QED
      BY <1>8, <3>2, <3>4
  <2> QED
    BY <1>2, <1>7, <1>8, <1>11, <2>1, MessageFrame DEF m
<1>17. Unhandled' = Unhandled
  BY <1>7 DEF Unhandled, Held, Packed
<1>18. IInv'
  BY <1>1, <1>4, <1>7, <1>11, <1>12, <1>15, <1>16, <1>17, MainFrame
<1> QED
  BY <1>7, <1>17, <1>18

(***************************************************************************)
(* The run is over: the workers are told, and nothing is left in the       *)
(* buffers of a process that has not stopped.                              *)
(***************************************************************************)
LEMMA EndRunStep ==
  ASSUME IInv, NEW p \in Proc, EndRun(p)
  PROVE  IInv' /\ UNCHANGED <<Unhandled, now>>
<1> DEFINE m == Main(p)
<1>0. m \in Mgr /\ m[1] = p /\ m \notin WorkerMgr
  BY MgrFacts
<1>1. TypeInv' /\ TypeInv /\ EpochOk(p)
  BY StartTypes DEF IInv, TimeInv, EpochInv
<1>2. /\ pc[m] = "start" /\ lowerBound[p] = NoEvents
      /\ pc' = [pc EXCEPT ![m] = "done"]
      /\ delta' = Signal(m, NoEvents)
      /\ UNCHANGED <<mgrVars, minTime, horizon, procVars, sendBuf, net>>
  BY DEF EndRun, terminate_sentinel
<1>3. ~InEpoch(p) /\ ~Exchanging(p) /\ Opened(p) = stopped[m]
  BY <1>1, <1>0, <1>2 DEF InEpoch, Exchanging, Opened, TypeInv, ManagerTypes
<1>4. /\ \A n \in WorkerMgr : n[1] = p => Idle(n)
      /\ \A n \in Mgr : n[1] = p => Registered(n) /\ Current(n) /\ MainOf(n) = m
      /\ ~stopped[m] => \A q \in Proc : sendBuf[p][q] = {}
  BY <1>2, <1>3, BetweenEpochs
<1>5. /\ UNCHANGED <<now, queue, slot, pending, serialized, minIpc, stopped, seqnum, minTime, horizon>>
      /\ UNCHANGED <<lowerBound, lastHorizon, votes, numSent, tag, sendBuf, net>>
  BY <1>2 DEF mgrVars, procVars
<1> HIDE DEF m
<1>6. pc'[m] = "done" /\ \A n \in Mgr : n # m => pc'[n] = pc[n]
  BY <1>0, <1>1, <1>2 DEF TypeInv, ManagerTypes
<1>7. \A n \in WorkerMgr : delta'[n] = IF n \in Children(m) THEN delta[n] + NoEvents ELSE delta[n]
  BY <1>2 DEF Signal
<1>8. \A c \in Children(m) : c \in WorkerMgr /\ c[1] = p
  BY <1>0, ChildFacts
<1>9. \A q \in Proc \ {p} : SameProcess(q)
  <2> SUFFICES ASSUME NEW q \in Proc \ {p} PROVE SameProcess(q)
    OBVIOUS
  <2>1. \A n \in Mgr : n[1] = q => n # m /\ n \notin Children(m)
    BY <1>0, <1>8
  <2>2. \A n \in WorkerMgr : n \in Mgr
    BY MgrFacts
  <2> QED
    BY <1>5, <1>6, <1>7, <2>1, <2>2 DEF SameProcess
<1>10. /\ ~InEpoch(p)' /\ ~Exchanging(p)' /\ Opened(p)' = Opened(p) /\ Bound(p)' = Bound(p)
  <2>1. ~InEpoch(p)' /\ ~Exchanging(p)'
    BY <1>6 DEF InEpoch, Exchanging, m
  <2>2. Opened(p)' = Opened(p)
    BY <1>3, <1>5, <2>1 DEF Opened, m
  <2> QED
    BY <1>5, <2>1, <2>2 DEF Bound
<1>11. \A n \in Mgr : n[1] = p =>
         Registered(n)' /\ Current(n)' /\ ~Finished(n)' /\ SendSlot(n)' = SendSlot(n)
  <2> SUFFICES ASSUME NEW n \in Mgr, n[1] = p
               PROVE  Registered(n)' /\ Current(n)' /\ ~Finished(n)' /\ SendSlot(n)' = SendSlot(n)
    OBVIOUS
  <2>1. Registered(n) /\ Current(n) /\ pc'[n] # "register"
    BY <1>4, <1>6 DEF Registered
  <2>2. Current(n)'
    BY <1>5, <2>1 DEF Current, MainOf
  <2>3. ~Finished(n)'
    BY <1>10 DEF Finished
  <2> QED
    BY <1>5, <2>1, <2>2, <2>3 DEF Registered, SendSlot
<1>12. \A n \in WorkerMgr : n[1] = p =>
         /\ n \in Children(m) => Ended(n)'
         /\ n \notin Children(m) => Idle(n)' /\ ~Ended(n)'
         /\ ~Behind(n)' /\ ~Called(n)' /\ ~Busy(n)'
         /\ n \in Children(m) => ~Idle(n)'
  <2> SUFFICES ASSUME NEW n \in WorkerMgr, n[1] = p
               PROVE  /\ n \in Children(m) => Ended(n)'
                      /\ n \notin Children(m) => Idle(n)' /\ ~Ended(n)'
                      /\ ~Behind(n)' /\ ~Called(n)' /\ ~Busy(n)'
                      /\ n \in Children(m) => ~Idle(n)'
    OBVIOUS
  <2>1. n \in Mgr /\ n # m
    BY <1>0, MgrFacts
  <2>2. /\ pc'[n] = "wait" /\ delta[n] = 0 /\ Current(n)' /\ pc'[MainOf(n)] = "done"
        /\ MainOf(n)' = MainOf(n)
    BY <1>4, <1>6, <1>11, <2>1 DEF Idle, MainOf
  <2>3. NoEvents # 0 /\ 0 + NoEvents = NoEvents
    BY ConstantFacts
  <2>4. delta'[n] = IF n \in Children(m) THEN NoEvents ELSE 0
    BY <1>7, <2>2, <2>3
  <2> QED
    BY <1>10, <2>2, <2>3, <2>4 DEF Called, Behind, Idle, Busy, Ended
<1>13. ProcessOk(p)'
  <2>1. \A n \in WorkerMgr : n[1] = p => WorkerOk(n)'
    BY <1>12 DEF WorkerOk
  <2>2. ASSUME NEW n \in WorkerMgr, n[1] = p PROVE TreeOk(n)'
    <3>1. \A c \in Children(n) : c \in WorkerMgr /\ c[1] = p /\ c \notin Children(m)
      BY <1>0, <2>2, ChildFacts, MgrFacts
    <3> QED
      BY <1>12, <2>2, <3>1 DEF TreeOk
  <2>3. RootOk(p)'
    BY <1>10 DEF RootOk
  <2>4. EpochOk(p)'
    BY <1>1, <1>2, <1>5, <1>6, <1>10 DEF EpochOk, m
  <2>5. BufferOk(p)'
    <3>1. CASE stopped[m]
      <4>1. BufferOk(p)
        BY DEF IInv, FlightInv, BufferInv
      <4>2. ASSUME NEW q \in Proc, NEW f \in sendBuf[p][q]
            PROVE  Covered(f)'
        <5>1. Covered(f) /\ f.src[1] = p /\ f.src \in Mgr
          BY <1>1, <4>1 DEF BufferOk, TypeInv, ProcessTypes, SentEvent, AnyEvent
        <5> QED
          BY <1>5, <1>11, <5>1 DEF Covered
      <4> QED
        BY <1>5, <3>1, <4>1, <4>2 DEF BufferOk, m
    <3>2. CASE ~stopped[m]
      BY <1>4, <1>5, <3>2 DEF BufferOk
    <3> QED
      BY <3>1, <3>2
  <2>6. ASSUME NEW n \in Mgr, n[1] = p
        PROVE  VoteOk(n)' /\ StoppedOk(n)' /\ PendingOk(n)' /\ SerializedOk(n)'
    <3>0. MainOf(n) = m
      BY <1>4, <2>6
    <3>1. VoteOk(n)'
      BY <1>4, <1>5, <1>11, <2>6 DEF VoteOk, IInv, ThreadInv, VoteInv
    <3>2. StoppedOk(n)'
      BY <1>3, <1>5, <1>6, <1>11, <2>6, <3>0 DEF StoppedOk, MainOf, IInv, TimeInv, StopInv
    <3>3. PendingOk(n)'
      <4>1. PendingOk(n)
        BY DEF IInv, FlightInv, PendingInv
      <4>2. ASSUME NEW s \in Slot, NEW f \in pending[n][s]
            PROVE  Covered(f) => Covered(f)'
        <5>1. f.src[1] = p /\ f.src \in Mgr
          BY <1>1, <2>6, <4>1 DEF PendingOk, TypeInv, ManagerTypes, SentEvent, AnyEvent
        <5> QED
          BY <1>5, <1>11, <5>1 DEF Covered
      <4> QED
        BY <1>5, <1>11, <2>6, <4>1, <4>2 DEF PendingOk, MainOf
    <3>4. SerializedOk(n)'
      <4>1. SerializedOk(n)
        BY DEF IInv, FlightInv, SerializedInv
      <4>2. ASSUME NEW f \in serialized[n] PROVE FALSE
        <5>1. ~stopped[m]
          BY <1>4, <2>6, <3>0, <4>1, <4>2 DEF SerializedOk
        <5>2. Bound(p) = NoEvents
          BY <1>2, <1>3, <5>1 DEF Bound
        <5>3. f \in Unhandled
          BY <4>2, UnhandledMembers
        <5>4. f.time \in Nat /\ f.time < NoEvents
          BY <1>1, <5>3, UnhandledTypes
        <5>5. Bound(p) <= f.time
          BY <5>3 DEF IInv, TimeInv, NotBefore
        <5> QED
          BY <5>2, <5>4, <5>5, ConstantFacts
      <4> QED
        BY <1>5, <4>2 DEF SerializedOk
    <3> QED
      BY <3>1, <3>2, <3>3, <3>4
  <2>7. \A n, k \in Mgr : n[1] = p /\ k[1] = p => SendSlot(n)' = SendSlot(k)'
    BY <1>11 DEF IInv, FlightInv, SlotInv
  <2> QED
    BY <2>1, <2>2, <2>3, <2>4, <2>5, <2>6, <2>7 DEF ProcessOk
<1>14. MessageInv'
  <2>1. \A x \in net : x.dst = p => \A f \in x.evs : horizon'[m] <= f.time
    BY <1>5 DEF IInv, MessageInv, NetInv, m
  <2> QED
    BY <1>2, <1>5, <1>6, <1>9, <2>1, MessageFrame DEF m
<1>15. Unhandled' = Unhandled
  BY <1>5 DEF Unhandled, Held, Packed
<1>16. IInv'
  BY <1>1, <1>5, <1>9, <1>10, <1>13, <1>14, <1>15, MainFrame
<1> QED
  BY <1>5, <1>15, <1>16

(***************************************************************************)
(* The main thread has the votes of all threads of its process.  They all  *)
(* ran to the same horizon, so either all of them stopped or none did.     *)
(***************************************************************************)
LEMMA JoinMainStep ==
  ASSUME IInv, NEW p \in Proc, JoinMain(p)
  PROVE  IInv' /\ UNCHANGED <<Unhandled, now>>
<1> DEFINE m == Main(p)
<1>0. m \in Mgr /\ m[1] = p /\ m \notin WorkerMgr
  BY MgrFacts
<1>1. TypeInv' /\ TypeInv /\ ProcessOk(p)
  BY JoinMainTypes, ByProcess DEF IInv
<1>2. /\ pc[m] = "join" /\ ChildrenDone(m)
      /\ minTime' = [minTime EXCEPT ![m] = JoinedTime(m)]
      /\ UNCHANGED <<mgrVars, horizon, delta, votes, numSent, tag, sendBuf, net>>
  BY DEF JoinMain
<1>3. \/ /\ stopped[m] /\ Multithreaded /\ pc' = [pc EXCEPT ![m] = "start"]
         /\ lowerBound' = [lowerBound EXCEPT ![p] = NoEvents]
         /\ lastHorizon' = [lastHorizon EXCEPT ![p] = horizon[m]]
      \/ /\ stopped[m] /\ ~Multithreaded /\ pc' = [pc EXCEPT ![m] = "abort"]
         /\ UNCHANGED <<lowerBound, lastHorizon>>
      \/ /\ ~stopped[m] /\ pc' = [pc EXCEPT ![m] = "vote"]
         /\ UNCHANGED <<lowerBound, lastHorizon>>
  BY DEF JoinMain
<1>4. /\ InEpoch(p) /\ Growth(p) # 0 /\ pc[m] # "done" /\ Opened(p)
      /\ EpochOk(p) /\ RootOk(p)
  BY <1>1, <1>2, GrowthFacts DEF InEpoch, Opened, ProcessOk
<1>5. /\ UNCHANGED <<now, queue, slot, pending, serialized, minIpc, stopped, seqnum, horizon, delta>>
      /\ UNCHANGED <<votes, numSent, tag, sendBuf, net>>
  BY <1>2 DEF mgrVars
<1>6. \A n \in WorkerMgr : n[1] = p => Idle(n)
  <2> DEFINE Good == {n \in WorkerMgr : Idle(n)}
  <2>1. ASSUME NEW c \in Children(m) PROVE c \in Good
    <3>1. c \in WorkerMgr /\ c[1] = p
      BY <1>0, ChildFacts
    <3>2. WorkerOk(c) /\ ~Behind(c) /\ delta[c] = 0
      BY <1>1, <1>2, <1>4, <3>1 DEF ProcessOk, RootOk, ChildrenDone
    <3>3. Idle(c)
      BY <1>4, <3>1, <3>2 DEF WorkerOk, Called, Busy, Ended, MainOf
    <3> QED
      BY <3>1, <3>3
  <2>2. ASSUME NEW n \in WorkerMgr, n[1] = p, n \in Good, NEW c \in Children(n) PROVE c \in Good
    <3>1. TreeOk(n) /\ c \in WorkerMgr
      BY <1>1, <2>2, ChildFacts, MgrFacts DEF ProcessOk
    <3> QED
      BY <2>2, <3>1 DEF TreeOk
  <2> HIDE DEF Good
  <2>3. \A n \in WorkerMgr : n[1] = p => n \in Good
    BY <2>1, <2>2, DownTheTree
  <2> QED
    BY <2>3 DEF Good
<1>7. \A n \in Mgr : n[1] = p =>
        /\ MainOf(n) = m /\ Registered(n) /\ Current(n) /\ Finished(n) /\ horizon[n] = horizon[m]
        /\ VoteOk(n) /\ StoppedOk(n) /\ PendingOk(n) /\ SerializedOk(n) /\ serialized[n] = {}
  <2> SUFFICES ASSUME NEW n \in Mgr, n[1] = p
               PROVE  /\ MainOf(n) = m /\ Registered(n) /\ Current(n) /\ Finished(n)
                      /\ horizon[n] = horizon[m]
                      /\ VoteOk(n) /\ StoppedOk(n) /\ PendingOk(n) /\ SerializedOk(n)
                      /\ serialized[n] = {}
    OBVIOUS
  <2>1. MainOf(n) = m /\ VoteOk(n) /\ StoppedOk(n) /\ PendingOk(n) /\ SerializedOk(n)
    BY <1>1 DEF ProcessOk, MainOf
  <2>2. Current(n) /\ pc[n] \in {"join", "wait"}
    <3>1. CASE n \in WorkerMgr
      BY <1>6, <3>1 DEF Idle
    <3>2. CASE n = m
      BY <1>2, <2>1, <3>2 DEF Current
    <3> QED
      BY <3>1, <3>2, MgrFacts
  <2>3. Registered(n) /\ Finished(n) /\ horizon[n] = horizon[m]
    BY <1>4, <2>1, <2>2 DEF Registered, Finished, Current
  <2> QED
    BY <1>2, <2>1, <2>2, <2>3 DEF SerializedOk
<1>8. \A n, k \in Mgr : n[1] = p /\ k[1] = p /\ stopped[n] => stopped[k]
  <2> SUFFICES ASSUME NEW n \in Mgr, NEW k \in Mgr, n[1] = p, k[1] = p, stopped[n], ~stopped[k]
               PROVE  FALSE
    OBVIOUS
  <2>1. PICK u \in StopTimes : StopsFor(u, n) /\ StopsFor(u, k)
    BY DEF IInv, TimeInv, StopInv, StopsAt
  <2>2. u > 0 /\ u < horizon[n] /\ StopEvent(u, k) \in queue[k]
    BY <2>1 DEF StopsFor
  <2>3. horizon[k] <= StopEvent(u, k).time
    BY <1>7, <2>2 DEF VoteOk
  <2>4. horizon[k] <= u /\ u \in Nat /\ horizon[k] \in Nat /\ horizon[n] = horizon[k]
    BY <1>1, <1>7, <2>3, ConstantFacts DEF StopEvent, TypeInv, ManagerTypes
  <2> QED
    BY <2>2, <2>4
<1> HIDE DEF m
<1>9. /\ \A n \in Mgr : n # m => pc'[n] = pc[n] /\ minTime'[n] = minTime[n]
      /\ minTime'[m] = JoinedTime(m)
      /\ \A q \in Proc : q # p => lowerBound'[q] = lowerBound[q] /\ lastHorizon'[q] = lastHorizon[q]
      /\ \/ /\ stopped[m] /\ pc'[m] = "start" /\ lowerBound'[p] = NoEvents /\ lastHorizon'[p] = horizon[m]
         \/ /\ stopped[m] /\ ~Multithreaded /\ pc'[m] = "abort"
            /\ lowerBound'[p] = lowerBound[p] /\ lastHorizon'[p] = lastHorizon[p]
         \/ /\ ~stopped[m] /\ pc'[m] = "vote"
            /\ lowerBound'[p] = lowerBound[p] /\ lastHorizon'[p] = lastHorizon[p]
  BY <1>0, <1>1, <1>2, <1>3 DEF TypeInv, ManagerTypes, ProcessTypes
<1>10. \A q \in Proc \ {p} : SameProcess(q)
  <2> SUFFICES ASSUME NEW q \in Proc \ {p} PROVE SameProcess(q)
    OBVIOUS
  <2>1. \A n \in Mgr : n[1] = q => n # m
    BY <1>0
  <2> QED
    BY <1>5, <1>9, <2>1 DEF SameProcess
<1>11. /\ ~InEpoch(p)' /\ (Exchanging(p)' <=> ~stopped[m]) /\ Opened(p)' /\ Bound(p)' = Bound(p)
  <2>1. ~InEpoch(p)' /\ (Exchanging(p)' <=> ~stopped[m])
    BY <1>9 DEF InEpoch, Exchanging, m
  <2>2. Opened(p)'
    BY <1>5, <2>1 DEF Opened, m
  <2> QED
    BY <1>4, <1>5, <2>1, <2>2 DEF Bound
<1>12. \A n \in Mgr : n[1] = p =>
         /\ Registered(n)' /\ Current(n)' /\ SendSlot(n)' = SendSlot(n)
         /\ (Finished(n)' => ~stopped[m])
  <2> SUFFICES ASSUME NEW n \in Mgr, n[1] = p
               PROVE  /\ Registered(n)' /\ Current(n)' /\ SendSlot(n)' = SendSlot(n)
                      /\ (Finished(n)' => ~stopped[m])
    OBVIOUS
  <2>1. Registered(n) /\ Current(n) /\ pc'[n] # "register"
    BY <1>7, <1>9 DEF Registered
  <2>2. Current(n)'
    BY <1>5, <2>1 DEF Current, MainOf
  <2>3. Finished(n)' => ~stopped[m]
    BY <1>11 DEF Finished
  <2> QED
    BY <1>5, <2>1, <2>2, <2>3 DEF Registered, SendSlot
<1>13. \A n \in WorkerMgr : n[1] = p =>
         Idle(n)' /\ ~Behind(n)' /\ ~Called(n)' /\ ~Busy(n)' /\ ~Ended(n)'
  <2> SUFFICES ASSUME NEW n \in WorkerMgr, n[1] = p
               PROVE  Idle(n)' /\ ~Behind(n)' /\ ~Called(n)' /\ ~Busy(n)' /\ ~Ended(n)'
    OBVIOUS
  <2>1. n \in Mgr /\ n # m
    BY <1>0, MgrFacts
  <2>2. pc'[n] = "wait" /\ delta'[n] = 0 /\ Current(n)' /\ MainOf(n) = m
    BY <1>5, <1>6, <1>7, <1>9, <1>12, <2>1 DEF Idle
  <2>3. pc'[m] # "done"
    BY <1>9
  <2> QED
    BY <1>11, <2>2, <2>3 DEF Called, Behind, Idle, Busy, Ended, MainOf, m
<1>14. /\ minTime'[m] \in Nat /\ minTime'[m] <= minTime[m]
       /\ minTime'[m] = NoEvents \/ horizon[m] <= minTime'[m]
       /\ \A c \in Children(m) : minTime'[m] <= minTime'[c]
  <2> DEFINE T == {minTime[m]} \cup {minTime[c] : c \in Children(m)}
  <2>1. \A c \in Children(m) : c \in Mgr /\ c # m /\ c[1] = p
    BY <1>0, ChildFacts
  <2>2. T \subseteq Nat /\ T # {} /\ JoinedTime(m) = Least(T)
    BY <1>0, <1>1, <2>1, ConstantFacts DEF JoinedTime, TypeInv, ManagerTypes
  <2>3. \A t \in T : t = NoEvents \/ horizon[m] <= t
    BY <1>0, <1>7, <2>1 DEF VoteOk
  <2>4. minTime[m] \in T /\ \A c \in Children(m) : minTime[c] \in T
    OBVIOUS
  <2> HIDE DEF T
  <2>5. Least(T) \in T /\ \A t \in T : Least(T) <= t
    BY <2>2, LeastElement
  <2> QED
    BY <1>9, <2>1, <2>2, <2>3, <2>4, <2>5
<1>15. ProcessOk(p)'
  <2>1. \A n \in WorkerMgr : n[1] = p => WorkerOk(n)'
    BY <1>13 DEF WorkerOk
  <2>2. ASSUME NEW n \in WorkerMgr, n[1] = p PROVE TreeOk(n)'
    <3>1. \A c \in Children(n) : c \in WorkerMgr /\ c[1] = p
      BY <2>2, ChildFacts, MgrFacts
    <3> QED
      BY <1>13, <2>2, <3>1 DEF TreeOk
  <2>3. RootOk(p)'
    BY <1>11 DEF RootOk
  <2>4. EpochOk(p)'
    <3>1. /\ Lookahead <= horizon[m] /\ lowerBound[p] # NoEvents
          /\ horizon[m] = lowerBound[p] + Lookahead
      BY <1>4 DEF EpochOk, m
    <3> QED
      BY <1>5, <1>9, <1>11, <3>1 DEF EpochOk, m
  <2>5. \A f \in SentEvent : f.src[1] = p /\ Covered(f) => Covered(f)'
    <3> SUFFICES ASSUME NEW f \in SentEvent, f.src[1] = p, Covered(f) PROVE Covered(f)'
      OBVIOUS
    <3>1. f.src \in Mgr
      BY DEF SentEvent, AnyEvent
    <3> QED
      BY <1>5, <1>12, <3>1 DEF Covered
  <2>6. BufferOk(p)'
    <3>1. \A q \in Proc : sendBuf[p][q] \subseteq SentEvent
      BY <1>1 DEF TypeInv, ProcessTypes
    <3>2. BufferOk(p)
      BY <1>1 DEF ProcessOk
    <3>3. pc'[m] = "vote" \/ stopped[m]
      BY <1>9
    <3> QED
      BY <1>5, <2>5, <3>1, <3>2, <3>3 DEF BufferOk, m
  <2>7. ASSUME NEW n \in Mgr, n[1] = p
        PROVE  VoteOk(n)' /\ StoppedOk(n)' /\ PendingOk(n)' /\ SerializedOk(n)'
    <3>0. /\ MainOf(n) = m /\ VoteOk(n) /\ StoppedOk(n) /\ PendingOk(n) /\ SerializedOk(n)
          /\ serialized[n] = {} /\ Registered(n) /\ Finished(n)
      BY <1>7, <2>7
    <3>1. VoteOk(n)'
      <4>1. CASE n = m
        <5>1. \A e \in queue[m] : e.time \in Nat
          BY <1>0, <1>1 DEF TypeInv, ManagerTypes, AnyEvent
        <5>2. minIpc[m] \in Nat /\ minTime[m] \in Nat
          BY <1>0, <1>1, ConstantFacts DEF TypeInv, ManagerTypes
        <5>3. minTime'[m] <= minIpc[m] /\ \A e \in queue[m] : minTime'[m] <= e.time
          BY <1>14, <3>0, <4>1, <5>1, <5>2 DEF VoteOk
        <5> QED
          BY <1>5, <1>14, <3>0, <4>1, <5>3 DEF VoteOk
      <4>2. CASE n # m
        <5>1. n \in WorkerMgr /\ minTime'[n] = minTime[n] /\ pc[n] # "join"
          BY <1>6, <1>9, <2>7, <4>2, MgrFacts DEF Idle, m
        <5>2. \A c \in Children(n) : minTime'[c] = minTime[c]
          BY <1>0, <1>9, ChildFacts
        <5> QED
          BY <1>5, <3>0, <5>1, <5>2 DEF VoteOk
      <4> QED
        BY <4>1, <4>2
    <3>2. StoppedOk(n)'
      <4>1. stopped[n] <=> stopped[m]
        BY <1>0, <1>8, <2>7
      <4>2. stopped[m] => pc'[m] \in {"start", "done", "abort"}
        BY <1>9
      <4> QED
        BY <1>5, <1>12, <2>7, <3>0, <4>1, <4>2 DEF StoppedOk, MainOf
    <3>3. PendingOk(n)'
      <4>1. \A s \in Slot : pending[n][s] \subseteq SentEvent
        BY <1>1 DEF TypeInv, ManagerTypes
      <4> QED
        BY <1>5, <1>12, <2>5, <2>7, <3>0, <4>1 DEF PendingOk, MainOf
    <3>4. SerializedOk(n)'
      BY <1>5, <3>0 DEF SerializedOk
    <3> QED
      BY <3>1, <3>2, <3>3, <3>4
  <2>8. \A n, k \in Mgr : n[1] = p /\ k[1] = p => SendSlot(n)' = SendSlot(k)'
    BY <1>1, <1>12 DEF ProcessOk
  <2> QED
    BY <2>1, <2>2, <2>3, <2>4, <2>6, <2>7, <2>8 DEF ProcessOk
<1>16. MessageInv'
  <2>1. \A x \in net : x.dst = p => \A f \in x.evs : horizon'[m] <= f.time
    BY <1>5 DEF IInv, MessageInv, NetInv, m
  <2>2. pc[m] \notin {"reduce", "recv"} /\ pc'[m] \notin {"reduce", "recv"}
    BY <1>2, <1>9
  <2> QED
    BY <1>5, <1>10, <2>1, <2>2, MessageFrame DEF m
<1>17. Unhandled' = Unhandled
  BY <1>5 DEF Unhandled, Held, Packed
<1>18. IInv'
  BY <1>1, <1>5, <1>10, <1>11, <1>15, <1>16, <1>17, MainFrame
<1> QED
  BY <1>5, <1>17, <1>18

(***************************************************************************)
(* The vote of a process is not later than any event it has or has sent in *)
(* this epoch.                                                             *)
(***************************************************************************)
LEMMA VoteCovers ==
  ASSUME IInv, NEW p \in Proc, Exchanging(p)
  PROVE  /\ ~stopped[Main(p)] /\ Opened(p) /\ ~InEpoch(p) /\ pc[Main(p)] # "done"
         /\ minTime[Main(p)] = NoEvents \/ horizon[Main(p)] <= minTime[Main(p)]
         /\ \A n \in Mgr : n[1] = p => ~stopped[n] /\ serialized[n] = {}
         /\ \A n \in Mgr : n[1] = p => \A e \in queue[n] : minTime[Main(p)] <= e.time
         /\ \A f \in SentEvent : f.src[1] = p /\ Covered(f) => minTime[Main(p)] <= f.time
<1> DEFINE m == Main(p)
<1>0. m \in Mgr /\ m[1] = p /\ MainOf(m) = m
  BY MgrFacts DEF MainOf
<1>1. ProcessOk(p) /\ TypeInv
  BY ByProcess DEF IInv
<1>2. ~InEpoch(p) /\ pc[m] \in {"vote", "reduce"} /\ pc[m] # "done" /\ Opened(p)
  BY DEF Exchanging, InEpoch, Opened
<1>3. ~stopped[m]
  BY <1>0, <1>1, <1>2 DEF ProcessOk, StoppedOk
<1>4. /\ \A n \in WorkerMgr : n[1] = p => Idle(n)
      /\ \A n \in Mgr : n[1] = p => Registered(n) /\ Current(n) /\ MainOf(n) = m
      /\ \A n \in Mgr : n[1] = p => ~stopped[n]
  BY <1>2, <1>3, BetweenEpochs
<1>5. \A n \in Mgr : n[1] = p =>
        Finished(n) /\ pc[n] # "join" /\ VoteOk(n) /\ serialized[n] = {}
  <2> SUFFICES ASSUME NEW n \in Mgr, n[1] = p
               PROVE  Finished(n) /\ pc[n] # "join" /\ VoteOk(n) /\ serialized[n] = {}
    OBVIOUS
  <2>1. pc[n] \in {"wait", "vote", "reduce"}
    BY <1>2, <1>4, MgrFacts DEF Idle
  <2> QED
    BY <1>1, <1>2, <1>4, <2>1 DEF Finished, ProcessOk, SerializedOk
<1> HIDE DEF m
<1>6. \A n \in Mgr : minTime[n] \in Nat /\ minIpc[n] \in Nat
  BY <1>1, ConstantFacts DEF TypeInv, ManagerTypes
<1>7. ASSUME NEW n \in Mgr, n[1] = p PROVE minTime[m] <= minTime[n]
  <2> DEFINE Good == {k \in WorkerMgr : minTime[m] <= minTime[k]}
  <2>1. ASSUME NEW c \in Children(m) PROVE c \in Good
    <3>1. c \in WorkerMgr
      BY <1>0, ChildFacts
    <3> QED
      BY <1>0, <1>5, <3>1 DEF VoteOk
  <2>2. ASSUME NEW k \in WorkerMgr, k[1] = p, k \in Good, NEW c \in Children(k) PROVE c \in Good
    <3>1. k \in Mgr /\ c \in WorkerMgr /\ c \in Mgr
      BY ChildFacts, MgrFacts
    <3>2. minTime[k] <= minTime[c] /\ minTime[m] <= minTime[k]
      BY <1>5, <2>2, <3>1 DEF VoteOk
    <3> QED
      BY <1>0, <1>6, <3>1, <3>2
  <2> HIDE DEF Good
  <2>3. \A k \in WorkerMgr : k[1] = p => k \in Good
    BY <2>1, <2>2, DownTheTree DEF m
  <2>4. CASE n \in WorkerMgr
    BY <1>7, <2>3, <2>4 DEF Good
  <2>5. CASE n = m
    BY <1>0, <1>6, <2>5
  <2> QED
    BY <1>7, <2>4, <2>5, MgrFacts DEF m
<1>8. ASSUME NEW n \in Mgr, n[1] = p, NEW e \in queue[n] PROVE minTime[m] <= e.time
  <2>1. minTime[n] <= e.time /\ e.time \in Nat
    BY <1>1, <1>5, <1>8 DEF VoteOk, TypeInv, ManagerTypes, AnyEvent
  <2> QED
    BY <1>0, <1>6, <1>7, <1>8, <2>1
<1>9. ASSUME NEW f \in SentEvent, f.src[1] = p, Covered(f) PROVE minTime[m] <= f.time
  <2>1. f.src \in Mgr /\ f.time \in Nat
    BY DEF SentEvent, AnyEvent
  <2>2. minIpc[f.src] <= f.time /\ minTime[f.src] <= minIpc[f.src]
    BY <1>4, <1>5, <1>9, <2>1 DEF Covered, VoteOk
  <2> QED
    BY <1>0, <1>6, <1>7, <1>9, <2>1, <2>2
<1>10. minTime[m] = NoEvents \/ horizon[m] <= minTime[m]
  BY <1>0, <1>5 DEF VoteOk
<1> QED
  BY <1>2, <1>3, <1>4, <1>5, <1>8, <1>9, <1>10 DEF m

LEMMA SameHorizon ==
  ASSUME IInv, NEW p \in Proc, NEW q \in Proc, Opened(p)
  PROVE  /\ Opened(q) => horizon[Main(q)] = horizon[Main(p)]
         /\ Exchanging(p) => horizon[Main(q)] <= horizon[Main(p)]
<1>1. horizon[Main(p)] \in Nat /\ horizon[Main(q)] \in Nat /\ lowerBound[p] \in Nat
  BY MgrFacts, ConstantFacts DEF IInv, TypeInv, ManagerTypes, ProcessTypes
<1>2. Bound(p) = Bound(q) /\ EpochOk(p) /\ EpochOk(q)
  BY DEF IInv, TimeInv, SameBound, EpochInv
<1>3. Opened(q) => horizon[Main(q)] = horizon[Main(p)]
  BY <1>1, <1>2, ConstantFacts DEF Bound
<1>4. ASSUME Exchanging(p), ~Opened(q) PROVE horizon[Main(q)] <= horizon[Main(p)]
  <2>1. lowerBound[p] # NoEvents /\ horizon[Main(p)] = lowerBound[p] + Lookahead
    BY <1>2, <1>4 DEF EpochOk
  <2>2. lowerBound[q] = lowerBound[p]
    BY <1>1, <1>2, <1>4, <2>1, ConstantFacts DEF Bound
  <2>3. horizon[Main(q)] <= lowerBound[p]
    BY <1>2, <1>4, <2>1, <2>2 DEF EpochOk
  <2> QED
    BY <1>1, <2>1, <2>3, ConstantFacts
<1> QED
  BY <1>1, <1>3, <1>4

\* The tag a process receives with is not the one the others send with.
LEMMA OtherTag ==
  ASSUME IInv, NEW p \in Proc, NEW q \in Proc, pc[Main(p)] = "recv", pc[Main(q)] # "recv"
  PROVE  tag[q] = NextTag(tag[p]) /\ tag[q] # tag[p]
<1>1. EpochTag(p) = EpochTag(q)
  BY DEF IInv, MessageInv, TagInv
<1>2. tag[q] = 1 - tag[p] /\ (tag[p] = 0 \/ tag[p] = 1)
  BY <1>1 DEF EpochTag, NextTag, IInv, TypeInv, ProcessTypes
<1> QED
  BY <1>2 DEF NextTag

(***************************************************************************)
(* The packed events go out with the vote.                                 *)
(***************************************************************************)
LEMMA SendMessagesStep ==
  ASSUME IInv, NEW p \in Proc, SendMessages(p)
  PROVE  IInv' /\ UNCHANGED <<Unhandled, now>>
<1> DEFINE m == Main(p)
<1>0. m \in Mgr /\ m[1] = p /\ m \notin WorkerMgr
  BY MgrFacts
<1>1. TypeInv' /\ TypeInv /\ ProcessOk(p)
  BY ExchangeTypes, ByProcess DEF IInv
<1>2. /\ pc[m] = "vote"
      /\ net' = net \cup {Message(p, q) : q \in Filled(p)}
      /\ votes' = [votes EXCEPT ![p] = [time |-> minTime[m], to |-> Filled(p)]]
      /\ sendBuf' = [sendBuf EXCEPT ![p] = [q \in Proc |-> {}]]
      /\ pc' = [pc EXCEPT ![m] = "reduce"]
      /\ UNCHANGED <<mgrVars, treeVars, lowerBound, lastHorizon, numSent, tag>>
  BY DEF SendMessages
<1>3. /\ UNCHANGED <<now, queue, slot, pending, serialized, minIpc, stopped, seqnum>>
      /\ UNCHANGED <<minTime, horizon, delta, lowerBound, lastHorizon, numSent, tag>>
  BY <1>2 DEF mgrVars, treeVars
<1> HIDE DEF m
<1>4. /\ pc'[m] = "reduce" /\ \A n \in Mgr : n # m => pc'[n] = pc[n]
      /\ votes'[p].time = minTime[m] /\ votes'[p].to = Filled(p)
      /\ \A q \in Proc : q # p => votes'[q] = votes[q] /\ sendBuf'[q] = sendBuf[q]
      /\ \A q \in Proc : sendBuf'[p][q] = {}
  BY <1>0, <1>1, <1>2 DEF TypeInv, ManagerTypes, ProcessTypes
<1>5. /\ Exchanging(p) /\ Exchanging(p)' /\ ~InEpoch(p) /\ ~InEpoch(p)'
      /\ Opened(p) /\ Opened(p)' /\ Bound(p)' = Bound(p)
  <2>1. Exchanging(p) /\ Exchanging(p)' /\ ~InEpoch(p) /\ ~InEpoch(p)'
    BY <1>2, <1>4 DEF Exchanging, InEpoch, m
  <2>2. Opened(p) /\ Opened(p)'
    BY <2>1 DEF Opened
  <2> QED
    BY <1>3, <2>1, <2>2 DEF Bound
<1>6. /\ ~stopped[m] /\ \A n \in Mgr : n[1] = p => ~stopped[n] /\ serialized[n] = {}
      /\ \A f \in SentEvent : f.src[1] = p /\ Covered(f) => minTime[m] <= f.time
  BY <1>5, VoteCovers DEF m
<1>7. \A q \in Proc \ {p} : SameProcess(q)
  <2> SUFFICES ASSUME NEW q \in Proc \ {p} PROVE SameProcess(q)
    OBVIOUS
  <2>1. \A n \in Mgr : n[1] = q => n # m
    BY <1>0
  <2> QED
    BY <1>3, <1>4, <2>1 DEF SameProcess
<1>8. \A n \in Mgr : n[1] = p =>
        /\ Registered(n)' = Registered(n) /\ Current(n)' = Current(n) /\ MainOf(n) = m
        /\ (Finished(n)' <=> Finished(n)) /\ SendSlot(n)' = SendSlot(n)
        /\ pc'[n] = pc[n] \/ (pc[n] = "vote" /\ pc'[n] = "reduce")
  <2> SUFFICES ASSUME NEW n \in Mgr, n[1] = p
               PROVE  /\ Registered(n)' = Registered(n) /\ Current(n)' = Current(n) /\ MainOf(n) = m
                      /\ (Finished(n)' <=> Finished(n)) /\ SendSlot(n)' = SendSlot(n)
                      /\ pc'[n] = pc[n] \/ (pc[n] = "vote" /\ pc'[n] = "reduce")
    OBVIOUS
  <2>1. pc'[n] = pc[n] \/ (pc[n] = "vote" /\ pc'[n] = "reduce")
    BY <1>2, <1>4 DEF m
  <2>2. Current(n)' = Current(n) /\ MainOf(n) = m
    BY <1>3 DEF Current, MainOf, m
  <2>3. Registered(n)' = Registered(n)
    BY <2>1, <2>2 DEF Registered
  <2>4. Finished(n)' <=> Finished(n)
    BY <1>5, <2>1, <2>2 DEF Finished
  <2> QED
    BY <1>3, <2>1, <2>2, <2>3, <2>4 DEF SendSlot, NextSlot
<1>9. \A n \in WorkerMgr : n[1] = p =>
         /\ Idle(n) /\ Idle(n)' /\ ~Behind(n)' /\ ~Called(n)' /\ ~Busy(n)' /\ ~Ended(n)'
  <2> SUFFICES ASSUME NEW n \in WorkerMgr, n[1] = p
               PROVE  Idle(n) /\ Idle(n)' /\ ~Behind(n)' /\ ~Called(n)' /\ ~Busy(n)' /\ ~Ended(n)'
    OBVIOUS
  <2>1. Idle(n) /\ n \in Mgr /\ n # m
    BY <1>0, <1>2, <1>5, BetweenEpochs, MgrFacts DEF m
  <2>2. pc'[n] = "wait" /\ delta'[n] = 0 /\ Current(n)'
    BY <1>3, <1>4, <1>8, <2>1 DEF Idle
  <2>3. pc'[m] # "done" /\ MainOf(n) = m
    BY <1>4, <1>8, <2>1
  <2> QED
    BY <1>5, <2>1, <2>2, <2>3 DEF Called, Behind, Idle, Busy, Ended, MainOf, m
<1>10. ProcessOk(p)'
  <2>1. \A n \in WorkerMgr : n[1] = p => WorkerOk(n)'
    BY <1>9 DEF WorkerOk
  <2>2. ASSUME NEW n \in WorkerMgr, n[1] = p PROVE TreeOk(n)'
    <3>1. \A c \in Children(n) : c \in WorkerMgr /\ c[1] = p
      BY <2>2, ChildFacts, MgrFacts
    <3> QED
      BY <1>9, <2>2, <3>1 DEF TreeOk
  <2>3. RootOk(p)'
    BY <1>5 DEF RootOk
  <2>4. EpochOk(p)'
    <3>1. EpochOk(p)
      BY <1>1 DEF ProcessOk
    <3> QED
      BY <1>3, <1>4, <1>5, <3>1 DEF EpochOk, m
  <2>5. BufferOk(p)'
    BY <1>4 DEF BufferOk
  <2>6. ASSUME NEW n \in Mgr, n[1] = p
        PROVE  VoteOk(n)' /\ StoppedOk(n)' /\ PendingOk(n)' /\ SerializedOk(n)'
    <3>0. VoteOk(n) /\ PendingOk(n)
      BY <1>1, <2>6 DEF ProcessOk
    <3>1. VoteOk(n)'
      BY <1>3, <1>8, <2>6, <3>0 DEF VoteOk
    <3>2. StoppedOk(n)'
      BY <1>3, <1>6, <1>8, <2>6 DEF StoppedOk, MainOf
    <3>3. PendingOk(n)'
      <4>1. ASSUME NEW s \in Slot, NEW f \in pending[n][s]
            PROVE  Covered(f) => Covered(f)'
        <5>1. f.src[1] = p /\ f.src \in Mgr
          BY <1>1, <2>6, <3>0 DEF PendingOk, TypeInv, ManagerTypes, SentEvent, AnyEvent
        <5> QED
          BY <1>3, <1>8, <5>1 DEF Covered
      <4> QED
        BY <1>3, <1>8, <2>6, <3>0, <4>1 DEF PendingOk, MainOf
    <3>4. SerializedOk(n)'
      BY <1>3, <1>6, <2>6 DEF SerializedOk
    <3> QED
      BY <3>1, <3>2, <3>3, <3>4
  <2>7. \A n, k \in Mgr : n[1] = p /\ k[1] = p => SendSlot(n)' = SendSlot(k)'
    BY <1>1, <1>8 DEF ProcessOk
  <2> QED
    BY <2>1, <2>2, <2>3, <2>4, <2>5, <2>6, <2>7 DEF ProcessOk
<1>11. \A q \in Proc :
         /\ q # p => pc'[Main(q)] = pc[Main(q)]
         /\ pc'[Main(q)] = "recv" <=> pc[Main(q)] = "recv"
  BY <1>2, <1>4, <1>7, SameStates DEF m
<1>12. MessageInv /\ \A x \in net : x.src \in Proc /\ x.dst \in Proc
  BY <1>1 DEF IInv, TypeInv, ProcessTypes
<1> DEFINE New == {Message(p, q) : q \in Filled(p)}
<1>13. \A x \in New :
         /\ x.src = p /\ x.dst \in Filled(p) /\ x.dst \in Proc /\ x.tag = tag[p]
         /\ x.evs = sendBuf[p][x.dst] /\ x = Message(p, x.dst)
  BY DEF Message, Filled
<1>14. \A x \in New : \A f \in x.evs :
         /\ f.dst[1] = x.dst /\ f \in SentEvent /\ f.src[1] = p /\ Covered(f)
         /\ horizon[m] <= f.time /\ horizon[Main(x.dst)] <= f.time
  <2> SUFFICES ASSUME NEW x \in New, NEW f \in x.evs
               PROVE  /\ f.dst[1] = x.dst /\ f \in SentEvent /\ f.src[1] = p /\ Covered(f)
                      /\ horizon[m] <= f.time /\ horizon[Main(x.dst)] <= f.time
    OBVIOUS
  <2>1. x.dst \in Proc /\ f \in sendBuf[p][x.dst]
    BY <1>13
  <2>2. f \in SentEvent /\ f.time \in Nat
    BY <1>1, <2>1 DEF TypeInv, ProcessTypes, SentEvent, AnyEvent
  <2>3. f.dst[1] = x.dst /\ f.src[1] = p /\ Covered(f) /\ horizon[m] <= f.time
    BY <1>1, <2>1 DEF ProcessOk, BufferOk, m
  <2>4. horizon[Main(x.dst)] <= horizon[m]
    BY <1>5, <2>1, SameHorizon DEF m
  <2>5. horizon[m] \in Nat /\ horizon[Main(x.dst)] \in Nat
    BY <1>0, <1>1, <2>1, MgrFacts DEF TypeInv, ManagerTypes
  <2> QED
    BY <2>2, <2>3, <2>4, <2>5
<1> HIDE DEF New
<1>15. net' = net \cup New
  BY <1>2 DEF New
<1>16. MessageInv'
  <2>1. TagInv'
    BY <1>3, <1>11, <1>12 DEF MessageInv, TagInv, EpochTag, NextTag
  <2>2. \A x \in net : (Fresh(x) \/ Awaited(x))'
    <3> SUFFICES ASSUME NEW x \in net PROVE (Fresh(x) \/ Awaited(x))'
      OBVIOUS
    <3>1. CASE Fresh(x)
      <4>1. x.src # p /\ x.src \in Proc
        BY <1>2, <1>12, <3>1 DEF Fresh, m
      <4>2. Fresh(x)'
        BY <1>3, <1>4, <1>11, <3>1, <4>1 DEF Fresh
      <4> QED
        BY <4>2
    <3>2. CASE Awaited(x)
      BY <1>3, <1>11, <1>12, <3>2 DEF Awaited
    <3> QED
      BY <1>12, <3>1, <3>2 DEF MessageInv, NetInv
  <2>3. \A x \in New : Fresh(x)'
    <3> SUFFICES ASSUME NEW x \in New PROVE Fresh(x)'
      OBVIOUS
    <3>1. pc'[Main(x.src)] = "reduce" /\ x.tag = tag'[x.src] /\ x.dst \in votes'[x.src].to
      BY <1>3, <1>4, <1>13 DEF m
    <3>2. \A f \in x.evs : horizon'[Main(x.src)] <= f.time /\ votes'[x.src].time <= f.time
      BY <1>3, <1>4, <1>6, <1>13, <1>14 DEF m
    <3> QED
      BY <3>1, <3>2 DEF Fresh
  <2>4. \A x \in net' : \A f \in x.evs : f.dst[1] = x.dst /\ horizon'[Main(x.dst)] <= f.time
    BY <1>3, <1>12, <1>14, <1>15 DEF MessageInv, NetInv
  <2>5. ASSUME NEW x \in New, NEW y \in net, x.src = y.src, x.dst = y.dst, x.tag = y.tag
        PROVE  FALSE
    <3>1. ~Fresh(y)
      BY <1>2, <1>13, <2>5 DEF Fresh, m
    <3>2. pc[Main(y.dst)] = "recv" /\ y.tag = tag[y.dst] /\ y.dst \in Proc
      BY <1>12, <3>1 DEF MessageInv, NetInv, Awaited
    <3>3. tag[p] # tag[y.dst]
      BY <1>2, <3>2, OtherTag DEF m
    <3> QED
      BY <1>13, <2>5, <3>2, <3>3
  <2>6. \A x, y \in New : x.dst = y.dst => x = y
    BY <1>13
  <2>7. \A x, y \in net' : x.src = y.src /\ x.dst = y.dst /\ x.tag = y.tag => x = y
    BY <1>12, <1>15, <2>5, <2>6 DEF MessageInv, NetInv
  <2>8. NetInv'
    BY <1>15, <2>2, <2>3, <2>4, <2>7 DEF NetInv
  <2>9. ReduceInv'
    <3> SUFFICES ASSUME NEW q \in Proc, pc'[Main(q)] = "reduce"
                 PROVE  /\ votes'[q].time = minTime'[Main(q)]
                        /\ \A r \in votes'[q].to : \E x \in net' : x.src = q /\ x.dst = r /\ x.tag = tag'[q]
      BY DEF ReduceInv, Main
    <3>1. CASE q = p
      <4>1. ASSUME NEW r \in Filled(p)
            PROVE  \E x \in net' : x.src = p /\ x.dst = r /\ x.tag = tag[p]
        <5>1. Message(p, r) \in net'
          BY <1>15 DEF New
        <5> QED
          BY <5>1 DEF Message
      <4> QED
        BY <1>3, <1>4, <3>1, <4>1 DEF m
    <3>2. CASE q # p
      BY <1>3, <1>4, <1>11, <1>12, <1>15, <3>2 DEF MessageInv, ReduceInv
    <3> QED
      BY <3>1, <3>2
  <2>10. RecvInv'
    <3> SUFFICES ASSUME NEW q \in Proc, pc'[Main(q)] = "recv"
                 PROVE  IsFiniteSet(Matching(q)') /\ Cardinality(Matching(q)') = numSent'[q]
      BY DEF RecvInv, Main
    <3>1. pc[Main(q)] = "recv"
      BY <1>11
    <3>2. tag[p] # tag[q]
      BY <1>2, <3>1, OtherTag DEF m
    <3>3. Matching(q)' = Matching(q)
      BY <1>3, <1>13, <1>15, <3>2 DEF Matching
    <3> QED
      BY <1>3, <1>12, <3>1, <3>3 DEF MessageInv, RecvInv
  <2> QED
    BY <2>1, <2>8, <2>9, <2>10 DEF MessageInv
<1>17. Unhandled' = Unhandled
  <2>1. ASSUME NEW e
        PROVE  (\E q, r \in Proc : e \in sendBuf'[q][r]) \/ (\E x \in net' : e \in x.evs)
               <=> (\E q, r \in Proc : e \in sendBuf[q][r]) \/ (\E x \in net : e \in x.evs)
    <3>1. ASSUME NEW q \in Proc, NEW r \in Proc, e \in sendBuf[q][r]
          PROVE  (\E i, j \in Proc : e \in sendBuf'[i][j]) \/ (\E x \in net' : e \in x.evs)
      <4>1. CASE q # p
        BY <1>4, <3>1, <4>1
      <4>2. CASE q = p
        <5>1. r \in Filled(p)
          BY <3>1, <4>2 DEF Filled
        <5>2. Message(p, r) \in net' /\ Message(p, r).evs = sendBuf[p][r]
          BY <1>15, <5>1 DEF New, Message
        <5> QED
          BY <3>1, <4>2, <5>2
      <4> QED
        BY <4>1, <4>2
    <3>2. ASSUME NEW q \in Proc, NEW r \in Proc, e \in sendBuf'[q][r]
          PROVE  e \in sendBuf[q][r]
      BY <1>4, <3>2
    <3>3. ASSUME NEW x \in New, e \in x.evs
          PROVE  \E q, r \in Proc : e \in sendBuf[q][r]
      BY <1>13, <3>3
    <3> QED
      BY <1>15, <3>1, <3>2, <3>3
  <2>2. ASSUME NEW e PROVE e \in Unhandled' <=> e \in Unhandled
    BY <1>3, <2>1, UnhandledMembers, UnhandledMembersNext
  <2> QED
    BY <2>2
<1>18. IInv'
  BY <1>1, <1>3, <1>5, <1>7, <1>10, <1>16, <1>17, MainFrame
<1> QED
  BY <1>3, <1>17, <1>18

(***************************************************************************)
(* The reduction.  All processes ran to the same horizon and sent what     *)
(* they had; the least of their votes is where the next epoch begins, and  *)
(* every process learns how many messages there are for it.                *)
(***************************************************************************)
LEMMA ReduceStep ==
  ASSUME IInv, Reduce
  PROVE  IInv' /\ UNCHANGED <<Unhandled, now>>
<1>1. /\ TypeInv' /\ TypeInv
      /\ \A p \in Proc :
           /\ \E q \in Proc : lowerBound'[p] = votes[q].time
           /\ \A q \in Proc : lowerBound'[p] <= votes[q].time
           /\ \A q \in Proc : lowerBound'[p] = lowerBound'[q]
  BY ReduceTypes DEF IInv
<1>2. /\ \A p \in Proc : pc[Main(p)] = "reduce"
      /\ numSent' = [p \in Proc |-> Cardinality({q \in Proc : p \in votes[q].to})]
      /\ pc' = [n \in Mgr |-> IF n \in Mains THEN "recv" ELSE pc[n]]
      /\ UNCHANGED <<mgrVars, treeVars, lastHorizon, votes, tag, sendBuf, net>>
  BY DEF Reduce
<1>3. /\ UNCHANGED <<now, queue, slot, pending, serialized, minIpc, stopped, seqnum>>
      /\ UNCHANGED <<minTime, horizon, delta, lastHorizon, votes, tag, sendBuf, net>>
  BY <1>2 DEF mgrVars, treeVars
<1>4. /\ \A p \in Proc : pc'[Main(p)] = "recv"
      /\ \A n \in WorkerMgr : pc'[n] = pc[n]
  <2>1. \A n \in WorkerMgr : n \in Mgr /\ n \notin Mains
    BY MgrFacts
  <2> QED
    BY <1>2, <2>1, MgrFacts
<1>5. \A p \in Proc :
        /\ Exchanging(p) /\ ~InEpoch(p) /\ Opened(p) /\ ~stopped[Main(p)]
        /\ \A n \in WorkerMgr : n[1] = p => Idle(n)
        /\ \A n \in Mgr : n[1] = p => Registered(n) /\ Current(n) /\ MainOf(n) = Main(p)
                                      /\ SendSlot(n) = slot[n]
        /\ \A n \in Mgr : n[1] = p => ~stopped[n] /\ serialized[n] = {}
        /\ \A q \in Proc : sendBuf[p][q] = {}
        /\ minTime[Main(p)] = NoEvents \/ horizon[Main(p)] <= minTime[Main(p)]
        /\ votes[p].time = minTime[Main(p)]
  <2> SUFFICES ASSUME NEW p \in Proc
               PROVE
        /\ Exchanging(p) /\ ~InEpoch(p) /\ Opened(p) /\ ~stopped[Main(p)]
        /\ \A n \in WorkerMgr : n[1] = p => Idle(n)
        /\ \A n \in Mgr : n[1] = p => Registered(n) /\ Current(n) /\ MainOf(n) = Main(p)
                                      /\ SendSlot(n) = slot[n]
        /\ \A n \in Mgr : n[1] = p => ~stopped[n] /\ serialized[n] = {}
        /\ \A q \in Proc : sendBuf[p][q] = {}
        /\ minTime[Main(p)] = NoEvents \/ horizon[Main(p)] <= minTime[Main(p)]
        /\ votes[p].time = minTime[Main(p)]
    OBVIOUS
  <2>1. Exchanging(p) /\ pc[Main(p)] # "vote"
    BY <1>2 DEF Exchanging
  <2>2. /\ ~stopped[Main(p)] /\ Opened(p) /\ ~InEpoch(p) /\ pc[Main(p)] # "done"
        /\ minTime[Main(p)] = NoEvents \/ horizon[Main(p)] <= minTime[Main(p)]
        /\ \A n \in Mgr : n[1] = p => ~stopped[n] /\ serialized[n] = {}
    BY <2>1, VoteCovers
  <2>3. votes[p].time = minTime[Main(p)]
    BY <1>2 DEF IInv, MessageInv, ReduceInv
  <2> QED
    BY <2>1, <2>2, <2>3, BetweenEpochs
<1>6. \A p \in Proc : ~InEpoch(p)' /\ ~Exchanging(p)' /\ ~Opened(p)' /\ Bound(p)' = lowerBound'[p]
  <2> SUFFICES ASSUME NEW p \in Proc
               PROVE  ~InEpoch(p)' /\ ~Exchanging(p)' /\ ~Opened(p)' /\ Bound(p)' = lowerBound'[p]
    OBVIOUS
  <2>1. ~InEpoch(p)' /\ ~Exchanging(p)'
    BY <1>4 DEF InEpoch, Exchanging
  <2>2. ~Opened(p)'
    BY <1>3, <1>5, <2>1 DEF Opened
  <2> QED
    BY <2>1, <2>2 DEF Bound
<1>7. \A n \in Mgr :
        /\ n[1] \in Proc /\ Registered(n) /\ Registered(n)' /\ Current(n)' /\ ~Finished(n)'
        /\ SendSlot(n) = slot[n] /\ SendSlot(n)' = slot[n] /\ ~stopped[n]
  <2> SUFFICES ASSUME NEW n \in Mgr
               PROVE  /\ n[1] \in Proc /\ Registered(n) /\ Registered(n)' /\ Current(n)' /\ ~Finished(n)'
                      /\ SendSlot(n) = slot[n] /\ SendSlot(n)' = slot[n] /\ ~stopped[n]
    OBVIOUS
  <2>1. n[1] \in Proc
    BY MgrFacts
  <2>2. Registered(n) /\ Current(n) /\ SendSlot(n) = slot[n] /\ ~stopped[n]
    BY <1>5, <2>1
  <2>3. Current(n)' /\ pc'[n] # "register"
    BY <1>2, <1>3, <2>2 DEF Current, MainOf, Registered
  <2>4. ~Finished(n)'
    BY <1>6, <2>1 DEF Finished
  <2> QED
    BY <1>3, <2>1, <2>2, <2>3, <2>4 DEF Registered, SendSlot
<1>8. \A n \in WorkerMgr : Idle(n)' /\ ~Behind(n)' /\ ~Called(n)' /\ ~Busy(n)' /\ ~Ended(n)'
  <2> SUFFICES ASSUME NEW n \in WorkerMgr
               PROVE  Idle(n)' /\ ~Behind(n)' /\ ~Called(n)' /\ ~Busy(n)' /\ ~Ended(n)'
    OBVIOUS
  <2>1. n \in Mgr /\ n[1] \in Proc
    BY MgrFacts
  <2>2. Idle(n) /\ Current(n)' /\ ~InEpoch(n[1])' /\ pc'[Main(n[1])] # "done"
    BY <1>4, <1>5, <1>6, <1>7, <2>1
  <2> QED
    BY <1>3, <1>4, <2>2 DEF Called, Behind, Idle, Busy, Ended, MainOf
<1>9. \A f \in SentEvent : Covered(f) => Covered(f)'
  <2> SUFFICES ASSUME NEW f \in SentEvent, Covered(f) PROVE Covered(f)'
    OBVIOUS
  <2>1. f.src \in Mgr
    BY DEF SentEvent, AnyEvent
  <2> QED
    BY <1>3, <1>7, <2>1 DEF Covered
<1>10. ASSUME NEW p \in Proc PROVE ProcessOk(p)'
  <2>1. \A n \in WorkerMgr : WorkerOk(n)'
    BY <1>8 DEF WorkerOk
  <2>2. \A n \in WorkerMgr : TreeOk(n)'
    <3>1. \A n \in WorkerMgr : \A c \in Children(n) : c \in WorkerMgr
      BY ChildFacts, MgrFacts
    <3> QED
      BY <1>8, <3>1 DEF TreeOk
  <2>3. RootOk(p)'
    BY <1>6 DEF RootOk
  <2>4. EpochOk(p)'
    <3>1. PICK q \in Proc : lowerBound'[p] = votes[q].time
      BY <1>1
    <3>2. horizon[Main(q)] = horizon[Main(p)]
      BY <1>5, SameHorizon
    <3>3. lowerBound'[p] = NoEvents \/ horizon[Main(p)] <= lowerBound'[p]
      BY <1>5, <3>1, <3>2
    <3>4. Lookahead <= horizon[Main(p)]
      BY <1>5 DEF IInv, TimeInv, EpochInv, EpochOk
    <3> QED
      BY <1>3, <1>4, <1>6, <3>3, <3>4 DEF EpochOk
  <2>5. BufferOk(p)'
    BY <1>3, <1>5 DEF BufferOk
  <2>6. ASSUME NEW n \in Mgr
        PROVE  VoteOk(n)' /\ StoppedOk(n)' /\ PendingOk(n)' /\ SerializedOk(n)'
    <3>1. VoteOk(n)'
      BY <1>3, <1>7 DEF VoteOk, IInv, ThreadInv, VoteInv
    <3>2. StoppedOk(n)'
      <4>1. MainOf(n) \in Mgr
        BY MgrFacts DEF MainOf
      <4> QED
        BY <1>3, <1>7, <4>1 DEF StoppedOk, MainOf
    <3>3. PendingOk(n)'
      <4>1. PendingOk(n) /\ \A s \in Slot : pending[n][s] \subseteq SentEvent
        BY <1>1 DEF IInv, FlightInv, PendingInv, TypeInv, ManagerTypes
      <4> QED
        BY <1>3, <1>7, <1>9, <4>1 DEF PendingOk, MainOf
    <3>4. SerializedOk(n)'
      BY <1>3, <1>5, <1>7 DEF SerializedOk
    <3> QED
      BY <3>1, <3>2, <3>3, <3>4
  <2>7. \A n, k \in Mgr : n[1] = p /\ k[1] = p => SendSlot(n)' = SendSlot(k)'
    BY <1>7 DEF IInv, FlightInv, SlotInv
  <2> QED
    BY <2>1, <2>2, <2>3, <2>4, <2>5, <2>6, <2>7 DEF ProcessOk
<1>11. SameBound'
  BY <1>1, <1>6 DEF SameBound
<1>12. MessageInv /\ \A x \in net : x.src \in Proc /\ x.dst \in Proc /\ Fresh(x)
  <2>1. \A x \in net : x.src \in Proc /\ x.dst \in Proc
    BY <1>1 DEF TypeInv, ProcessTypes
  <2>2. \A x \in net : ~Awaited(x)
    BY <1>2, <2>1 DEF Awaited
  <2> QED
    BY <2>1, <2>2 DEF IInv, MessageInv, NetInv
<1>13. Unhandled' = Unhandled
  BY <1>3 DEF Unhandled, Held, Packed
<1>14. NotBefore'
  <2> SUFFICES ASSUME NEW e \in Unhandled, NEW p \in Proc
               PROVE  lowerBound'[p] <= e.time
    BY <1>3, <1>6, <1>13 DEF NotBefore, IInv, TimeInv
  <2>1. PICK q \in Proc : votes[q].time <= e.time
    <3>1. ASSUME NEW n \in Mgr, e \in queue[n]
          PROVE  votes[n[1]].time <= e.time /\ n[1] \in Proc
      BY <1>5, <1>7, <3>1, VoteCovers
    <3>2. \A n \in Mgr : e \notin serialized[n]
      BY <1>5, <1>7
    <3>3. ASSUME NEW n \in Mgr, NEW s \in Slot, e \in pending[n][s]
          PROVE  votes[n[1]].time <= e.time /\ n[1] \in Proc
      <4>1. e \in SentEvent
        BY <1>1, <3>3 DEF TypeInv, ManagerTypes
      <4>2. e.src[1] = n[1] /\ Covered(e)
        BY <1>7, <3>3 DEF IInv, FlightInv, PendingInv, PendingOk
      <4> QED
        BY <1>5, <1>7, <4>1, <4>2, VoteCovers
    <3>4. \A r, s \in Proc : e \notin sendBuf[r][s]
      BY <1>5
    <3>5. ASSUME NEW x \in net, e \in x.evs
          PROVE  votes[x.src].time <= e.time /\ x.src \in Proc
      BY <1>12, <3>5 DEF Fresh
    <3> QED
      BY <3>1, <3>2, <3>3, <3>4, <3>5, UnhandledMembers
  <2>2. lowerBound'[p] <= votes[q].time
    BY <1>1
  <2>3. lowerBound'[p] \in Nat /\ votes[q].time \in Nat /\ e.time \in Nat
    <3>1. lowerBound'[p] \in 0 .. NoEvents
      BY <1>1 DEF TypeInv, ProcessTypes
    <3>2. votes[q].time \in 0 .. NoEvents
      BY <1>1 DEF TypeInv, ProcessTypes
    <3>3. e.time \in Nat
      BY <1>1, UnhandledTypes
    <3> QED
      BY <3>1, <3>2, <3>3, ConstantFacts
  <2> QED
    BY <2>1, <2>2, <2>3
<1>15. \E u \in StopTimes : StopsAt(u)'
  <2>1. PICK u \in StopTimes : StopsAt(u)
    BY DEF IInv, TimeInv, StopInv
  <2>2. StopsAt(u)'
    BY <1>3, <2>1 DEF StopsAt, StopsFor, StopEvent
  <2> QED
    BY <2>2
<1>16. \A p, q \in Proc : tag[p] = tag[q]
  <2>1. \A p \in Proc : EpochTag(p) = tag[p]
    BY <1>2 DEF EpochTag
  <2> QED
    BY <1>12, <2>1 DEF MessageInv, TagInv
<1>17. TagInv'
  <2>1. \A p \in Proc : EpochTag(p)' = NextTag(tag[p])
    BY <1>3, <1>4 DEF EpochTag, NextTag
  <2> QED
    BY <1>16, <2>1 DEF TagInv
<1>18. NetInv'
  <2>1. \A x \in net : Awaited(x)'
    <3> SUFFICES ASSUME NEW x \in net PROVE Awaited(x)'
      OBVIOUS
    <3>1. x.tag = tag[x.src] /\ tag[x.src] = tag[x.dst] /\ pc'[Main(x.dst)] = "recv"
      BY <1>4, <1>12, <1>16 DEF Fresh
    <3> QED
      BY <1>3, <3>1 DEF Awaited
  <2> QED
    BY <1>3, <1>12, <2>1 DEF MessageInv, NetInv
<1>19. ReduceInv'
  BY <1>4 DEF ReduceInv
<1>20. RecvInv'
  <2> SUFFICES ASSUME NEW p \in Proc
               PROVE  IsFiniteSet(Matching(p)') /\ Cardinality(Matching(p)') = numSent'[p]
    BY DEF RecvInv
  <2> DEFINE S == Matching(p)
             T == {q \in Proc : p \in votes[q].to}
             src == [x \in S |-> x.src]
  <2>1. Matching(p)' = S /\ numSent'[p] = Cardinality(T)
    BY <1>2, <1>3 DEF Matching
  <2>2. IsFiniteSet(T)
    BY ConstantAssumption, FS_Subset
  <2>3. \A x \in S : x \in net /\ x.dst = p /\ x.tag = tag[p] /\ x.src \in T
    BY <1>12 DEF Matching, Fresh
  <2>4. \A x, y \in S : x.src = y.src => x = y
    BY <1>12, <2>3 DEF MessageInv, NetInv
  <2>5. ASSUME NEW q \in T PROVE \E x \in S : x.src = q
    <3>1. PICK x \in net : x.src = q /\ x.dst = p /\ x.tag = tag[q]
      BY <1>2, <1>12 DEF MessageInv, ReduceInv
    <3> QED
      BY <1>16, <3>1 DEF Matching
  <2> HIDE DEF S, T
  <2>6. src \in [S -> T]
    BY <2>3
  <2>7. src \in Injection(S, T)
    BY <2>4, <2>6 DEF Injection, IsInjective
  <2>8. src \in Surjection(S, T)
    BY <2>5, <2>6 DEF Surjection
  <2> HIDE DEF src
  <2>9. IsFiniteSet(S) /\ Cardinality(S) = Cardinality(T)
    BY <2>2, <2>7, <2>8, FS_Injection
  <2> QED
    BY <2>1, <2>9
<1>21. IInv'
  BY <1>1, <1>10, <1>11, <1>14, <1>15, <1>17, <1>18, <1>19, <1>20, FromProcesses DEF MessageInv
<1> QED
  BY <1>3, <1>13, <1>21

(***************************************************************************)
(* The messages of the epoch are received: exactly those, since there are  *)
(* as many as the reduction said.                                          *)
(***************************************************************************)
LEMMA ReceiveMessagesStep ==
  ASSUME IInv, NEW p \in Proc, ReceiveMessages(p)
  PROVE  IInv' /\ UNCHANGED <<Unhandled, now>>
<1> DEFINE m == Main(p)
           R == Matching(p)
<1>0. m \in Mgr /\ m[1] = p /\ m \notin WorkerMgr
  BY MgrFacts
<1>1. TypeInv' /\ TypeInv /\ ProcessOk(p) /\ MessageInv
  BY ExchangeTypes, ByProcess DEF IInv
<1>2. /\ pc[m] = "recv"
      /\ net' = net \ R
      /\ IF Multithreaded
         THEN /\ serialized' = [n \in Mgr |-> serialized[n] \cup
                                  IF n[1] = p THEN EventsFor(n, R) ELSE {}]
              /\ queue' = queue
         ELSE /\ queue' = [queue EXCEPT ![m] = @ \cup EventsFor(m, R)]
              /\ serialized' = serialized
      /\ tag' = [tag EXCEPT ![p] = NextTag(@)]
      /\ lastHorizon' = [lastHorizon EXCEPT ![p] = horizon[m]]
      /\ pc' = [pc EXCEPT ![m] = "start"]
  <2>1. pc[m] = "recv" /\ IsFiniteSet(R) /\ Cardinality(R) = numSent[p]
    BY <1>1 DEF ReceiveMessages, MessageInv, RecvInv
  <2>2. ASSUME NEW S \in SUBSET R, Cardinality(S) = numSent[p] PROVE S = R
    BY <2>1, <2>2, FS_Subset
  <2>3. {x \in net : x.dst = p /\ x.tag = tag[p]} = R
    BY DEF Matching
  <2> HIDE DEF R
  <2> QED
    BY <2>1, <2>2, <2>3 DEF ReceiveMessages
<1>3. /\ UNCHANGED <<now, slot, pending, minIpc, stopped, seqnum>>
      /\ UNCHANGED <<minTime, horizon, delta, lowerBound, votes, numSent, sendBuf>>
  BY DEF ReceiveMessages, treeVars
<1>4. \A x \in R :
        /\ x \in net /\ x.dst = p /\ x.tag = tag[p]
        /\ \A f \in x.evs : f \in SentEvent /\ f.dst[1] = p
  BY <1>1 DEF Matching, MessageInv, NetInv, TypeInv, ProcessTypes
<1>5. ASSUME NEW n, NEW f
      PROVE  f \in EventsFor(n, R) <=> \E x \in R : f \in x.evs /\ f.dst = n
  BY DEF EventsFor
<1>6. \A n \in Mgr : n[1] = p /\ ~Multithreaded => n = m
  <2>1. ~Multithreaded => NThread = 1
    BY ConstantAssumption
  <2> QED
    BY <2>1 DEF Mgr, Main, MainThread, m
<1> HIDE DEF m, R
<1>7. /\ pc'[m] = "start" /\ \A n \in Mgr : n # m => pc'[n] = pc[n]
      /\ tag'[p] = NextTag(tag[p]) /\ lastHorizon'[p] = horizon[m]
      /\ \A q \in Proc : q # p => tag'[q] = tag[q] /\ lastHorizon'[q] = lastHorizon[q]
  BY <1>0, <1>1, <1>2 DEF TypeInv, ManagerTypes, ProcessTypes
<1>8. /\ \A n \in Mgr : n[1] # p => queue'[n] = queue[n] /\ serialized'[n] = serialized[n]
      /\ \A n \in Mgr : queue[n] \subseteq queue'[n] /\ serialized[n] \subseteq serialized'[n]
      /\ \A n \in Mgr : \A f \in queue'[n] \ queue[n] : f \in EventsFor(n, R)
      /\ \A n \in Mgr : \A f \in serialized'[n] \ serialized[n] : f \in EventsFor(n, R)
      /\ \A n \in Mgr : n[1] = p => EventsFor(n, R) \subseteq queue'[n] \cup serialized'[n]
  <2>1. CASE Multithreaded
    <3>1. queue' = queue
      BY <1>2, <2>1
    <3>2. \A n \in Mgr : serialized'[n] = serialized[n] \cup IF n[1] = p THEN EventsFor(n, R) ELSE {}
      BY <1>2, <2>1
    <3> QED
      BY <3>1, <3>2
  <2>2. CASE ~Multithreaded
    <3>1. queue'[m] = queue[m] \cup EventsFor(m, R) /\ \A n \in Mgr : n # m => queue'[n] = queue[n]
      BY <1>0, <1>1, <1>2, <2>2 DEF TypeInv, ManagerTypes
    <3> QED
      BY <1>0, <1>2, <1>6, <2>2, <3>1
  <2> QED
    BY <2>1, <2>2
<1>9. /\ ~InEpoch(p) /\ ~InEpoch(p)' /\ ~Exchanging(p) /\ ~Exchanging(p)' /\ ~stopped[m]
      /\ ~Opened(p) /\ ~Opened(p)' /\ Bound(p)' = Bound(p)
  <2>1. ~InEpoch(p) /\ ~InEpoch(p)' /\ ~Exchanging(p) /\ ~Exchanging(p)'
    BY <1>2, <1>7 DEF InEpoch, Exchanging, m
  <2>2. ~stopped[m]
    BY <1>0, <1>1, <1>2, <2>1 DEF ProcessOk, StoppedOk, MainOf, m
  <2>3. ~Opened(p) /\ ~Opened(p)'
    BY <1>3, <2>1, <2>2 DEF Opened, m
  <2> QED
    BY <1>3, <2>1, <2>2, <2>3 DEF Bound
<1>10. /\ \A n \in WorkerMgr : n[1] = p => Idle(n)
       /\ \A n \in Mgr : n[1] = p => Registered(n) /\ Current(n) /\ MainOf(n) = m
       /\ \A n \in Mgr : n[1] = p => ~stopped[n]
       /\ \A q \in Proc : sendBuf[p][q] = {}
  BY <1>2, <1>9, BetweenEpochs DEF m
<1>11. \A q \in Proc \ {p} : SameProcess(q)
  <2> SUFFICES ASSUME NEW q \in Proc \ {p} PROVE SameProcess(q)
    OBVIOUS
  <2>1. \A n \in Mgr : n[1] = q => n # m /\ n[1] # p
    BY <1>0
  <2> QED
    BY <1>3, <1>7, <1>8, <2>1 DEF SameProcess
<1>12. \A n \in Mgr : n[1] = p =>
         /\ Registered(n)' /\ Current(n)' /\ ~Finished(n)' /\ SendSlot(n)' = SendSlot(n)
  <2> SUFFICES ASSUME NEW n \in Mgr, n[1] = p
               PROVE  /\ Registered(n)' /\ Current(n)' /\ ~Finished(n)' /\ SendSlot(n)' = SendSlot(n)
    OBVIOUS
  <2>1. Registered(n) /\ Current(n) /\ MainOf(n) = m
    BY <1>10
  <2>2. Current(n)' /\ pc'[n] # "register"
    BY <1>3, <1>7, <2>1 DEF Current, MainOf, Registered
  <2>3. ~Finished(n)'
    BY <1>9 DEF Finished
  <2> QED
    BY <1>3, <2>1, <2>2, <2>3 DEF Registered, SendSlot
<1>13. \A n \in WorkerMgr : n[1] = p =>
         /\ Idle(n)' /\ ~Behind(n)' /\ ~Called(n)' /\ ~Busy(n)' /\ ~Ended(n)'
  <2> SUFFICES ASSUME NEW n \in WorkerMgr, n[1] = p
               PROVE  Idle(n)' /\ ~Behind(n)' /\ ~Called(n)' /\ ~Busy(n)' /\ ~Ended(n)'
    OBVIOUS
  <2>1. Idle(n) /\ n \in Mgr /\ n # m
    BY <1>0, <1>10, MgrFacts
  <2>2. pc'[n] = "wait" /\ delta'[n] = 0 /\ Current(n)' /\ MainOf(n) = m
    BY <1>3, <1>7, <1>10, <1>12, <2>1 DEF Idle
  <2> QED
    BY <1>7, <1>9, <2>1, <2>2 DEF Called, Behind, Idle, Busy, Ended, MainOf, m
<1>14. ProcessOk(p)'
  <2>1. \A n \in WorkerMgr : n[1] = p => WorkerOk(n)'
    BY <1>13 DEF WorkerOk
  <2>2. ASSUME NEW n \in WorkerMgr, n[1] = p PROVE TreeOk(n)'
    <3>1. \A c \in Children(n) : c \in WorkerMgr /\ c[1] = p
      BY <2>2, ChildFacts, MgrFacts
    <3> QED
      BY <1>13, <2>2, <3>1 DEF TreeOk
  <2>3. RootOk(p)'
    BY <1>9 DEF RootOk
  <2>4. EpochOk(p)'
    <3>1. EpochOk(p)
      BY <1>1 DEF ProcessOk
    <3> QED
      BY <1>3, <1>7, <1>9, <3>1 DEF EpochOk, m
  <2>5. BufferOk(p)'
    BY <1>3, <1>10 DEF BufferOk
  <2>6. ASSUME NEW n \in Mgr, n[1] = p
        PROVE  VoteOk(n)' /\ StoppedOk(n)' /\ PendingOk(n)' /\ SerializedOk(n)'
    <3>0. VoteOk(n) /\ PendingOk(n) /\ SerializedOk(n) /\ Registered(n) /\ MainOf(n) = m
      BY <1>1, <1>10, <2>6 DEF ProcessOk
    <3>1. VoteOk(n)'
      BY <1>3, <1>12, <2>6, <3>0 DEF VoteOk
    <3>2. StoppedOk(n)'
      BY <1>3, <1>9, <1>10, <2>6 DEF StoppedOk, MainOf
    <3>3. PendingOk(n)'
      <4>1. ASSUME NEW s \in Slot, NEW f \in pending[n][s]
            PROVE  Covered(f) => Covered(f)'
        <5>1. f.src[1] = p /\ f.src \in Mgr
          BY <1>1, <2>6, <3>0 DEF PendingOk, TypeInv, ManagerTypes, SentEvent, AnyEvent
        <5> QED
          BY <1>3, <1>12, <5>1 DEF Covered
      <4> QED
        BY <1>3, <1>12, <2>6, <3>0, <4>1 DEF PendingOk, MainOf
    <3>4. SerializedOk(n)'
      <4>1. \A f \in serialized'[n] : f.dst = n
        BY <1>5, <1>8, <3>0 DEF SerializedOk
      <4>2. pc'[MainOf(n)] = "start" /\ ~stopped'[MainOf(n)]
        BY <1>3, <1>7, <1>9, <3>0
      <4> QED
        BY <4>1, <4>2 DEF SerializedOk, MainOf
    <3> QED
      BY <3>1, <3>2, <3>3, <3>4
  <2>7. \A n, k \in Mgr : n[1] = p /\ k[1] = p => SendSlot(n)' = SendSlot(k)'
    BY <1>1, <1>12 DEF ProcessOk
  <2> QED
    BY <2>1, <2>2, <2>3, <2>4, <2>5, <2>6, <2>7 DEF ProcessOk
<1>15. \A q \in Proc \ {p} : pc'[Main(q)] = pc[Main(q)] /\ minTime'[Main(q)] = minTime[Main(q)]
  BY <1>11, SameStates
<1>16. \A x \in net : x.src \in Proc /\ x.dst \in Proc
  BY <1>1 DEF TypeInv, ProcessTypes
<1>17. MessageInv'
  <2>1. TagInv'
    <3>1. EpochTag(p)' = EpochTag(p)
      BY <1>2, <1>7 DEF EpochTag, NextTag, m
    <3>2. \A q \in Proc \ {p} : EpochTag(q)' = EpochTag(q)
      BY <1>7, <1>15 DEF EpochTag, NextTag
    <3> QED
      BY <1>1, <3>1, <3>2 DEF MessageInv, TagInv
  <2>2. NetInv'
    <3>1. ASSUME NEW x \in net' PROVE (Fresh(x) \/ Awaited(x))'
      <4>0. x \in net /\ x.src \in Proc /\ x.dst \in Proc /\ x \notin R
        BY <1>2, <1>16, <3>1
      <4>1. CASE Fresh(x)
        <5>1. x.src # p
          BY <1>2, <4>1 DEF Fresh, m
        <5>2. Fresh(x)'
          BY <1>3, <1>7, <1>15, <4>0, <4>1, <5>1 DEF Fresh
        <5> QED
          BY <5>2
      <4>2. CASE Awaited(x)
        <5>1. x.dst # p
          BY <4>0, <4>2 DEF Awaited, R, Matching
        <5>2. Awaited(x)'
          BY <1>7, <1>15, <4>0, <4>2, <5>1 DEF Awaited
        <5> QED
          BY <5>2
      <4> QED
        BY <1>1, <4>0, <4>1, <4>2 DEF MessageInv, NetInv
    <3> QED
      BY <1>1, <1>2, <1>3, <3>1 DEF MessageInv, NetInv
  <2>3. ReduceInv'
    <3> SUFFICES ASSUME NEW q \in Proc, pc'[Main(q)] = "reduce"
                 PROVE  /\ votes'[q].time = minTime'[Main(q)]
                        /\ \A r \in votes'[q].to : \E x \in net' : x.src = q /\ x.dst = r /\ x.tag = tag'[q]
      BY DEF ReduceInv, Main
    <3>1. q # p /\ pc[Main(q)] = "reduce"
      BY <1>7, <1>15 DEF m
    <3>2. tag[q] # tag[p]
      BY <1>2, <3>1, OtherTag DEF m
    <3>3. \A x \in net : x.tag = tag[q] => x \in net'
      BY <1>2, <1>4, <3>2
    <3> QED
      BY <1>1, <1>3, <1>7, <3>1, <3>3 DEF MessageInv, ReduceInv
  <2>4. RecvInv'
    <3> SUFFICES ASSUME NEW q \in Proc, pc'[Main(q)] = "recv"
                 PROVE  IsFiniteSet(Matching(q)') /\ Cardinality(Matching(q)') = numSent'[q]
      BY DEF RecvInv
    <3>1. q # p /\ pc[Main(q)] = "recv"
      BY <1>7, <1>15 DEF m
    <3>2. Matching(q)' = Matching(q)
      BY <1>2, <1>4, <1>7, <3>1 DEF Matching
    <3> QED
      BY <1>1, <1>3, <3>1, <3>2 DEF MessageInv, RecvInv
  <2> QED
    BY <2>1, <2>2, <2>3, <2>4 DEF MessageInv
<1>18. Unhandled' = Unhandled
  <2>1. ASSUME NEW e, NEW x \in net, e \in x.evs
        PROVE  (\E n \in Mgr : e \in queue'[n] \/ e \in serialized'[n]) \/ (\E y \in net' : e \in y.evs)
    <3>1. CASE x \in R
      <4>1. e \in SentEvent /\ e.dst[1] = p
        BY <1>4, <2>1, <3>1
      <4>2. e.dst \in Mgr /\ e \in EventsFor(e.dst, R)
        BY <1>5, <2>1, <3>1, <4>1 DEF SentEvent, AnyEvent
      <4> QED
        BY <1>8, <4>1, <4>2
    <3>2. CASE x \notin R
      BY <1>2, <2>1, <3>2
    <3> QED
      BY <3>1, <3>2
  <2>2. ASSUME NEW e, NEW n \in Mgr, e \in queue'[n] \/ e \in serialized'[n]
        PROVE  e \in queue[n] \/ e \in serialized[n] \/ \E x \in net : e \in x.evs
    <3>1. e \in queue[n] \/ e \in serialized[n] \/ e \in EventsFor(n, R)
      BY <1>8, <2>2
    <3> QED
      BY <1>4, <1>5, <3>1
  <2>3. ASSUME NEW e PROVE e \in Unhandled => e \in Unhandled'
    BY <1>3, <1>8, <2>1, UnhandledMembers, UnhandledMembersNext
  <2>4. ASSUME NEW e PROVE e \in Unhandled' => e \in Unhandled
    BY <1>2, <1>3, <2>2, UnhandledMembers, UnhandledMembersNext
  <2> QED
    BY <2>3, <2>4
<1>19. \A n \in Mgr : n[1] = p =>
         /\ queue[n] \subseteq queue'[n] /\ ~stopped[n]
         /\ \A f \in queue'[n] \ queue[n] : f.dst = n /\ ~f.stop
  <2>1. \A n \in Mgr : \A f \in EventsFor(n, R) : f.dst = n /\ ~f.stop
    BY <1>4, <1>5 DEF SentEvent
  <2> QED
    BY <1>8, <1>10, <2>1
<1>20. IInv'
  BY <1>1, <1>3, <1>9, <1>11, <1>14, <1>17, <1>18, <1>19, MainFrame
<1> QED
  BY <1>3, <1>18, <1>20

-----------------------------------------------------------------------------
(***************************************************************************)
(* Every step keeps the invariant, and is a step of the conservative       *)
(* simulation or one that it does not see.                                 *)
(***************************************************************************)
LEMMA StepInv ==
  ASSUME IInv, NoTerminator, [Next]_vars
  PROVE  IInv' /\ [Sim!Next]_<<Unhandled, now>>
<1>1. ASSUME NEW p \in Proc, MainStep(p)
      PROVE  IInv' /\ UNCHANGED <<Unhandled, now>>
  BY <1>1, StartEpochStep, EndRunStep, JoinMainStep, SendMessagesStep, ReceiveMessagesStep
  DEF MainStep
<1>2. ASSUME NEW m \in WorkerMgr, WorkerStep(m)
      PROVE  IInv' /\ UNCHANGED <<Unhandled, now>>
  BY <1>2, WakeStep, JoinWorkerStep DEF WorkerStep
<1>3. ASSUME NEW m \in Mgr, RunStep(m)
      PROVE  IInv' /\ [Sim!Next]_<<Unhandled, now>>
  <2>1. CASE registerPending(m) \/ FinishRun(m)
    BY <2>1, registerPendingStep, FinishRunStep
  <2>2. CASE Execute(m)
    BY <2>2, ExecuteStep DEF Sim!Next
  <2>3. CASE Stop(m)
    BY <2>3, StopStep DEF Sim!Next
  <2> QED
    BY <1>3, <2>1, <2>2, <2>3 DEF RunStep
<1>4. CASE Reduce
  BY <1>4, ReduceStep
<1>5. CASE UNCHANGED vars
  <2>1. /\ UNCHANGED <<pc, now, queue, slot, pending, serialized, minIpc, stopped, seqnum>>
        /\ UNCHANGED <<minTime, horizon, delta, lowerBound, lastHorizon, votes, numSent, tag>>
        /\ UNCHANGED <<sendBuf, net>>
    BY <1>5 DEF vars, mgrVars, treeVars, procVars
  <2>2. Unhandled' = Unhandled
    BY <2>1 DEF Unhandled, Held, Packed
  <2>3. IInv'
    <3>1. TypeInv'
      BY <2>1 DEF IInv, TypeInv, ManagerTypes, ProcessTypes
    <3>2. \A p \in Proc : SameProcess(p)
      BY <2>1 DEF SameProcess
    <3>3. \A p \in Proc : ProcessOk(p)' /\ Bound(p)' = Bound(p)
      BY <3>2, ProcessFrame, SameStates
    <3>4. SameBound' /\ NotBefore'
      BY <2>1, <2>2, <3>3 DEF IInv, TimeInv, SameBound, NotBefore
    <3>5. \E u \in StopTimes : StopsAt(u)'
      BY <2>1 DEF IInv, TimeInv, StopInv, StopsAt, StopsFor, StopEvent
    <3>6. MessageInv'
      <4>1. TagInv' /\ ReduceInv'
        BY <2>1 DEF IInv, MessageInv, TagInv, ReduceInv, EpochTag, NextTag, Main
      <4>2. NetInv'
        BY <2>1 DEF IInv, MessageInv, NetInv, EpochTag, NextTag, Fresh, Awaited, Main
      <4>3. RecvInv'
        BY <2>1 DEF IInv, MessageInv, RecvInv, Matching, Main
      <4> QED
        BY <4>1, <4>2, <4>3 DEF MessageInv
    <3> QED
      BY <3>1, <3>3, <3>4, <3>5, <3>6, FromProcesses
  <2> QED
    BY <2>1, <2>2, <2>3
<1> QED
  BY <1>1, <1>2, <1>3, <1>4, <1>5 DEF Next

LEMMA SimStarts ==
  ASSUME Init
  PROVE  Sim!Init
<1>1. PICK first \in SUBSET Mgr, until \in StopTimes :
        queue = [m \in Mgr |->
                  (IF m \in first THEN {Event(InitialTime[m], m, m, 0)} ELSE {}) \cup
                  (IF until > 0 THEN {StopEvent(until, m)} ELSE {})]
  BY DEF Init
<1>2. ASSUME NEW e \in Unhandled PROVE e \in Sim!Event /\ e.src = e.dst
  <2>1. PICK m \in Mgr : e \in queue[m]
    BY <1>2, UnhandledMembers DEF Init
  <2>2. CASE e = Event(InitialTime[m], m, m, 0)
    BY <2>2, ConstantFacts DEF Event, Sim!Event
  <2>3. CASE until > 0 /\ e = StopEvent(until, m)
    BY <2>3, ConstantFacts DEF StopEvent, Sim!Event
  <2> QED
    BY <1>1, <2>1, <2>2, <2>3
<1>3. now = [m \in Mgr |-> 0]
  BY DEF Init
<1> QED
  BY <1>2, <1>3 DEF Sim!Init

(***************************************************************************)
(* IInv holds of the epoch loop: in particular the threads of a process    *)
(* are never in different epochs unless their parent has just been told,   *)
(* and all processes agree where an epoch begins.                          *)
(***************************************************************************)
THEOREM Inductive ==
  ASSUME NoTerminator
  PROVE  Spec => []IInv
<1>1. IInv /\ [Next]_vars => IInv'
  BY StepInv
<1> QED
  BY <1>1, Initially, PTL DEF Spec

(***************************************************************************)
(* Whatever the number of processes and threads, the lookahead and the     *)
(* links, what runs in epochs, slots, send buffers and messages is one     *)
(* conservative simulation: no manager handles an event that something     *)
(* elsewhere could still precede.                                          *)
(***************************************************************************)
THEOREM EpochsImplementSim ==
  ASSUME NoTerminator
  PROVE  Spec => ImplementsSim
<1>1. Init => Sim!Init
  BY SimStarts
<1>2. IInv /\ [Next]_vars => [Sim!Next]_<<Unhandled, now>>
  BY StepInv
<1>3. Spec => []IInv
  BY Inductive
<1> QED
  BY <1>1, <1>2, <1>3, PTL DEF Spec, ImplementsSim, Sim!Spec

(***************************************************************************)
(* registerPending never empties a slot that MultithreadLink::send of      *)
(* another thread fills: a thread that registers is one slot behind those  *)
(* of its process which run (four slots are more than it takes).           *)
(***************************************************************************)
THEOREM SlotsNeverRace ==
  ASSUME NoTerminator
  PROVE  Spec => []SlotRaceFree
<1>1. ASSUME IInv PROVE SlotRaceFree
  <2> SUFFICES ASSUME NEW p \in Proc, NEW i \in 0 .. NThread - 1, NEW j \in 0 .. NThread - 1,
                      pc[<<p, i>>] = "register", pc[<<p, j>>] = "run"
               PROVE  slot[<<p, i>>] # slot[<<p, j>>]
    BY DEF SlotRaceFree
  <2> DEFINE m == <<p, i>>
             n == <<p, j>>
  <2>1. m \in Mgr /\ n \in Mgr /\ m[1] = p /\ n[1] = p
    BY DEF Mgr
  <2>2. ~Registered(m)
    BY DEF Registered
  <2>3. Registered(n)
    <3>1. Current(n)
      <4>1. CASE n \in WorkerMgr
        BY <1>1, <4>1 DEF IInv, ThreadInv, WorkerInv, WorkerOk, Idle, Behind, Called, Busy, Ended
      <4>2. CASE n = Main(p)
        BY <2>1, <4>2 DEF Current, MainOf
      <4> QED
        BY <2>1, <4>1, <4>2, MgrFacts
    <3> QED
      BY <3>1 DEF Registered
  <2>4. slot[n] = NextSlot(slot[m])
    BY <1>1, <2>1, <2>2, <2>3 DEF IInv, FlightInv, SlotInv, SendSlot
  <2>5. slot[m] \in 0 .. 3
    BY <1>1, <2>1 DEF IInv, TypeInv, ManagerTypes, Slot, SLOTS
  <2> HIDE DEF m, n
  <2>6. NextSlot(slot[m]) # slot[m]
    BY <2>5 DEF NextSlot, SLOTS
  <2> QED
    BY <2>4, <2>6 DEF m, n
<1>2. Spec => []IInv
  BY Inductive
<1> QED
  BY <1>1, <1>2, PTL

(***************************************************************************)
(* The receives of sendRecvMessages, though they take any source, match    *)
(* exactly the messages of their epoch: there are as many with the tag of  *)
(* the epoch as the reduction says.                                        *)
(***************************************************************************)
THEOREM TagsSuffice ==
  ASSUME NoTerminator
  PROVE  Spec => []MessagesOfThisEpoch
<1>1. IInv => MessagesOfThisEpoch
  BY DEF IInv, MessageInv, RecvInv, MessagesOfThisEpoch, Matching
<1>2. Spec => []IInv
  BY Inductive
<1> QED
  BY <1>1, <1>2, PTL

(***************************************************************************)
(* If no application ends the simulation (NoTerminator), and with the      *)
(* multithreaded manager or without a stop time, the epoch loop never      *)
(* aborts: the horizon always moves on, and no events are exchanged after  *)
(* a stop.                                                                 *)
(***************************************************************************)
THEOREM NeverAborts ==
  ASSUME NoTerminator, Multithreaded \/ StopTimes \subseteq {0}
  PROVE  Spec => []NoAbort
<1>1. ASSUME IInv PROVE NoAbort
  <2> SUFFICES ASSUME NEW m \in Mgr, pc[m] = "abort" PROVE FALSE
    BY DEF NoAbort
  <2>1. CASE m \in WorkerMgr
    BY <1>1, <2>1 DEF IInv, ThreadInv, WorkerInv, WorkerOk, Idle, Behind, Called, Busy, Ended
  <2>2. CASE m = Main(m[1])
    <3>1. ~Multithreaded /\ stopped[m]
      BY <1>1, <2>2, MgrFacts DEF IInv, TimeInv, EpochInv, EpochOk
    <3>2. PICK u \in StopTimes : u > 0
      BY <1>1, <3>1 DEF IInv, TimeInv, StopInv, StopsAt, StopsFor
    <3> QED
      BY <3>1, <3>2
  <2> QED
    BY <2>1, <2>2, MgrFacts
<1>2. Spec => []IInv
  BY Inductive
<1> QED
  BY <1>1, <1>2, PTL

(***************************************************************************)
(* A process that ends leaves no event behind, neither in its queues nor   *)
(* on the way to it, except those a stopped manager has after its stop     *)
(* time: no events left is agreed on by all processes.                     *)
(***************************************************************************)
THEOREM EndsEmpty ==
  ASSUME NoTerminator
  PROVE  Spec => []NothingLeftBehind
<1>1. ASSUME IInv PROVE NothingLeftBehind
  <2> SUFFICES ASSUME NEW p \in Proc, pc[Main(p)] = "done", NEW e \in Unhandled, e.dst[1] = p
               PROVE  stopped[e.dst] /\ now[e.dst] < e.time
    BY DEF NothingLeftBehind
  <2>1. /\ e.time \in Nat /\ e.time < NoEvents /\ e.dst \in Mgr /\ MainOf(e.dst) = Main(p)
    BY <1>1, UnhandledTypes DEF IInv, MainOf
  <2>2. ProcessOk(p) /\ ~InEpoch(p) /\ Bound(p) <= e.time
    BY <1>1, ByProcess DEF IInv, TimeInv, NotBefore, InEpoch
  <2>3. lowerBound[p] = NoEvents
    BY <2>2 DEF ProcessOk, EpochOk
  <2>4. stopped[Main(p)]
    <3>1. ~stopped[Main(p)] => Bound(p) = NoEvents
      BY <2>2, <2>3 DEF Bound, Opened, Exchanging
    <3> QED
      BY <2>1, <2>2, <3>1, ConstantFacts
  <2>5. stopped[e.dst]
    BY <2>1, <2>2, <2>4 DEF ProcessOk, StoppedOk
  <2>6. PICK u \in StopTimes : StopsFor(u, e.dst)
    BY <1>1, <2>1 DEF IInv, TimeInv, StopInv, StopsAt
  <2>7. now[e.dst] = u /\ u < horizon[e.dst] /\ u \in Nat
    BY <2>5, <2>6, ConstantFacts DEF StopsFor
  <2>8. horizon[Main(p)] <= e.time
    <3>1. Registered(e.dst) /\ pc[MainOf(e.dst)] = "done" /\ Opened(p)
      BY <2>1, <2>2, <2>4, <2>5 DEF ProcessOk, StoppedOk, Opened
    <3>2. \A n \in Mgr : e \notin queue[n]
      BY <1>1, <2>5, <2>6 DEF StopsFor, IInv, TimeInv, StopInv, StopsAt
    <3>3. \A n \in Mgr : e \notin serialized[n]
      BY <1>1, <3>1 DEF IInv, FlightInv, SerializedInv, SerializedOk
    <3>4. ASSUME NEW n \in Mgr, NEW s \in Slot, e \in pending[n][s]
          PROVE  horizon[Main(p)] <= e.time
      <4>1. e.dst = n /\ PendingOk(n)
        BY <1>1, <3>4 DEF IInv, FlightInv, PendingInv, PendingOk
      <4> QED
        BY <2>1, <3>1, <3>4, <4>1 DEF PendingOk, SendSlot
    <3>5. ASSUME NEW q \in Proc, NEW r \in Proc, e \in sendBuf[q][r]
          PROVE  horizon[Main(p)] <= e.time
      <4>1. horizon[Main(q)] <= e.time /\ Opened(q)
        BY <1>1, <3>5 DEF IInv, FlightInv, BufferInv, BufferOk, Opened, Exchanging
      <4> QED
        BY <1>1, <3>1, <4>1, SameHorizon
    <3>6. ASSUME NEW x \in net, e \in x.evs
          PROVE  horizon[Main(p)] <= e.time
      BY <1>1, <3>6 DEF IInv, MessageInv, NetInv
    <3> QED
      BY <3>2, <3>3, <3>4, <3>5, <3>6, UnhandledMembers
  <2>9. horizon[e.dst] = horizon[Main(p)] /\ horizon[Main(p)] \in Nat
    BY <1>1, <2>1, <2>2, <2>5, MgrFacts
    DEF ProcessOk, StoppedOk, Registered, Current, IInv, TypeInv, ManagerTypes
  <2> QED
    BY <2>1, <2>5, <2>7, <2>8, <2>9
<1>2. Spec => []IInv
  BY Inductive
<1> QED
  BY <1>1, <1>2, PTL

-----------------------------------------------------------------------------
(***************************************************************************)
(* Why a conservative simulation never runs backwards.                     *)
(*                                                                         *)
(* An event is not in the past of its own manager, and no other manager is *)
(* a whole lookahead ahead of it: whatever it causes there comes in time.  *)
(***************************************************************************)
SimType ==
  /\ Unhandled \subseteq Sim!Event
  /\ now \in [Mgr -> Nat]

WithinLookahead ==
  \A e \in Unhandled : \A m \in Mgr : m # e.dst => now[m] < e.time + Lookahead

SimInv == SimType /\ NoTimeTravel /\ WithinLookahead

LEMMA SimInitially ==
  Sim!Init => SimInv
<1> SUFFICES ASSUME Sim!Init PROVE SimInv
  OBVIOUS
<1>1. SimType
  BY DEF Sim!Init, SimType
<1>2. Lookahead \in Nat \ {0}
  BY ConstantAssumption
<1>3. ASSUME NEW e \in Unhandled
      PROVE  e.time \in Nat /\ e.dst \in Mgr
  BY <1>1, <1>3 DEF SimType, Sim!Event
<1>4. \A m \in Mgr : now[m] = 0
  BY DEF Sim!Init
<1>5. NoTimeTravel
  BY <1>3, <1>4 DEF NoTimeTravel
<1>6. WithinLookahead
  BY <1>2, <1>3, <1>4 DEF WithinLookahead
<1> QED
  BY <1>1, <1>5, <1>6 DEF SimInv

\* What a manager handles first is not later than the rest of its events.
LEMMA CompareByTime ==
  ASSUME NEW e \in Sim!Event, NEW f \in Sim!Event, EventCompare(e, f)
  PROVE  e.time <= f.time
<1>1. e.time \in Nat /\ f.time \in Nat
  BY DEF Sim!Event
<1>2. e.time < f.time \/ e.time = f.time
  BY DEF EventCompare
<1> QED
  BY <1>1, <1>2

(***************************************************************************)
(* Handling e moves the clock of its manager to e.time, and leaves only    *)
(* events that were there before or that e caused.                         *)
(***************************************************************************)
LEMMA HandleKeepsTime ==
  ASSUME SimInv, NEW e \in Unhandled, Sim!Handle(e),
         Unhandled' \subseteq Sim!Event,
         e \notin Unhandled',
         \A f \in Unhandled' \ Unhandled : Sim!CausedBy(f, e)
  PROVE  SimInv'
<1> DEFINE d == e.dst
           t == e.time
<1>1. /\ Unhandled \subseteq Sim!Event
      /\ now \in [Mgr -> Nat]
      /\ Lookahead \in Nat \ {0}
  BY ConstantAssumption DEF SimInv, SimType
<1>2. e \in Sim!Event /\ d \in Mgr /\ t \in Nat
  BY <1>1 DEF Sim!Event
<1>3. now' = [now EXCEPT ![d] = t]
  BY DEF Sim!Handle
<1>4. now' \in [Mgr -> Nat] /\ now'[d] = t /\ \A m \in Mgr \ {d} : now'[m] = now[m]
  BY <1>1, <1>2, <1>3
<1>5. \A m \in Mgr \ {d} : now[m] < t + Lookahead
  BY DEF SimInv, WithinLookahead
<1>6. ASSUME NEW f \in Unhandled'
      PROVE  /\ now'[f.dst] <= f.time
             /\ \A m \in Mgr : m # f.dst => now'[m] < f.time + Lookahead
  <2>1. f.dst \in Mgr /\ f.time \in Nat
    BY <1>6 DEF Sim!Event
  <2>2. CASE f \in Unhandled
    <3>1. f # e /\ f \in Sim!Event
      BY <1>1, <1>6, <2>2
    <3>2. now[f.dst] <= f.time
      BY <2>2 DEF SimInv, NoTimeTravel
    <3>3. \A m \in Mgr : m # f.dst => now[m] < f.time + Lookahead
      BY <2>2 DEF SimInv, WithinLookahead
    <3>4. CASE f.dst = d
      <4>1. EventCompare(e, f)
        BY <2>2, <3>1, <3>4 DEF Sim!Handle, Sim!Earliest
      <4>2. t <= f.time
        BY <4>1, <3>1, <1>2, CompareByTime
      <4> QED
        BY <4>2, <3>3, <3>4, <1>4, <2>1
    <3>5. CASE f.dst # d
      <4>1. t < f.time + Lookahead
        BY <2>2, <3>5 DEF Sim!Handle, Sim!Safe
      <4> QED
        BY <4>1, <3>2, <3>3, <3>5, <1>4, <2>1
    <3> QED
      BY <3>4, <3>5
  <2>3. CASE f \notin Unhandled
    <3>1. t + (IF f.dst = d THEN 0 ELSE Lookahead) <= f.time
      BY <1>6, <2>3 DEF Sim!CausedBy
    <3>2. t <= f.time
      BY <3>1, <1>1, <1>2, <2>1
    <3>3. CASE f.dst = d
      BY <3>2, <3>3, <1>1, <1>2, <1>4, <1>5, <2>1
    <3>4. CASE f.dst # d
      <4>1. t + Lookahead <= f.time
        BY <3>1, <3>4
      <4>2. now'[f.dst] = now[f.dst] /\ now[f.dst] < t + Lookahead
        BY <3>4, <1>4, <1>5, <2>1
      <4> QED
        BY <4>1, <4>2, <3>2, <1>1, <1>2, <1>4, <1>5, <2>1
    <3> QED
      BY <3>3, <3>4
  <2> QED
    BY <2>2, <2>3
<1>7. SimType'
  BY <1>4 DEF SimType, Sim!Event
<1>8. NoTimeTravel'
  BY <1>6 DEF NoTimeTravel
<1>9. WithinLookahead'
  BY <1>6 DEF WithinLookahead
<1> QED
  BY <1>7, <1>8, <1>9 DEF SimInv

LEMMA SimStep ==
  SimInv /\ [Sim!Next]_<<Unhandled, now>> => SimInv'
<1> SUFFICES ASSUME SimInv, [Sim!Next]_<<Unhandled, now>>
             PROVE  SimInv'
  OBVIOUS
<1>1. ASSUME NEW e \in Unhandled, Sim!Execute(e)
      PROVE  SimInv'
  BY <1>1, HandleKeepsTime DEF Sim!Execute
<1>2. ASSUME NEW e \in Unhandled, Sim!Stop(e)
      PROVE  SimInv'
  <2>1. Unhandled' \subseteq Unhandled \ {e} /\ Sim!Handle(e)
    BY <1>2 DEF Sim!Stop
  <2>2. Unhandled' \subseteq Sim!Event
    BY <2>1 DEF SimInv, SimType
  <2> QED
    BY <1>2, <2>1, <2>2, HandleKeepsTime
<1>3. ASSUME UNCHANGED <<Unhandled, now>>
      PROVE  SimInv'
  BY <1>3 DEF SimInv, SimType, NoTimeTravel, WithinLookahead, Sim!Event
<1> QED
  BY <1>1, <1>2, <1>3 DEF Sim!Next

(***************************************************************************)
(* Managers that keep to the rule of the conservative simulation (handle   *)
(* the earliest event, and only below the lookahead of everybody else's)   *)
(* never meet "Time went backwards" or "scheduling event in the past": no  *)
(* event, on whatever way, is due before the time of its manager.          *)
(***************************************************************************)
THEOREM ConservativeIsOnTime ==
  ImplementsSim => []NoTimeTravel
<1>1. SimInv => NoTimeTravel
  BY DEF SimInv
<1> QED
  BY <1>1, SimInitially, SimStep, PTL DEF ImplementsSim, Sim!Spec

(***************************************************************************)
(* The event managers never meet "Time went backwards" or "scheduling      *)
(* event in the past", whatever the interleaving of threads and messages:  *)
(* no event, in a queue, a slot, a buffer or a message, is due before the  *)
(* time of its manager.                                                    *)
(***************************************************************************)
THEOREM EpochsAreOnTime ==
  ASSUME NoTerminator
  PROVE  Spec => []NoTimeTravel
<1>1. Spec => ImplementsSim
  BY EpochsImplementSim
<1> QED
  BY <1>1, ConservativeIsOnTime, PTL
=============================================================================
