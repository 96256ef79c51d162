----------------------- MODULE OperatingSystemProofs -----------------------
(***************************************************************************)
(* For any number of threads, cores and mutexes: the scheduler never hands *)
(* out more cores than the node has and never loses one, whatever the      *)
(* programs do.  In programs without conditions and progress queues every  *)
(* thread that sleeps is woken by exactly one event or list, none is       *)
(* resumed after its end or deleted twice, mutexes exclude and cores do    *)
(* not stay idle.                                                          *)
(***************************************************************************)
EXTENDS OperatingSystem, FiniteSetTheorems, WellFoundedInduction, TLAPS

(***************************************************************************)
(* Counting the cores.                                                     *)
(***************************************************************************)
LEMMA CoresOfFinite ==
  ASSUME NEW c
  PROVE  IsFiniteSet(CoresOf(c)) /\ Cardinality(CoresOf(c)) \in Nat
<1>1. IsFiniteSet(Thread) /\ IsFiniteSet(1 .. NCores)
  BY ConstantAssumption, FS_Interval DEF ConstantAssumption
<1>2. IsFiniteSet(Thread \X (1 .. NCores))
  BY <1>1, FS_Product
<1> QED
  BY <1>2, FS_Subset, FS_CardinalityType DEF CoresOf

\* A row of cores of one thread.
LEMMA RowCardinality ==
  ASSUME NEW t, NEW i \in Nat, NEW j \in Nat, i <= j
  PROVE  IsFiniteSet({t} \X (i + 1 .. j)) /\ Cardinality({t} \X (i + 1 .. j)) = j - i
<1>1. IsFiniteSet({t}) /\ Cardinality({t}) = 1
  BY FS_Singleton
<1>2. IsFiniteSet(i + 1 .. j) /\ Cardinality(i + 1 .. j) = IF i + 1 > j THEN 0 ELSE j - (i + 1) + 1
  BY FS_Interval
<1>3. Cardinality(i + 1 .. j) = j - i
  BY <1>2
<1>4. /\ IsFiniteSet({t} \X (i + 1 .. j))
      /\ Cardinality({t} \X (i + 1 .. j)) = Cardinality({t}) * Cardinality(i + 1 .. j)
  BY <1>1, <1>2, FS_Product
<1>5. Cardinality({t} \X (i + 1 .. j)) = 1 * (j - i)
  BY <1>1, <1>3, <1>4, Zenon
<1> QED
  BY <1>4, <1>5

\* A thread that gets n more cores adds n to the count.
LEMMA CoresAdd ==
  ASSUME NEW c \in [Thread -> Nat], NEW t \in Thread, NEW n \in Nat, c[t] + n <= NCores
  PROVE  Cardinality(CoresOf([c EXCEPT ![t] = c[t] + n])) = Cardinality(CoresOf(c)) + n
<1> DEFINE d == [c EXCEPT ![t] = c[t] + n]
           row == {t} \X (c[t] + 1 .. c[t] + n)
<1>1. IsFiniteSet(row) /\ Cardinality(row) = n
  <2>1. c[t] \in Nat /\ c[t] + n \in Nat /\ c[t] <= c[t] + n /\ (c[t] + n) - c[t] = n
    OBVIOUS
  <2> QED
    BY <2>1, RowCardinality
<1>2. CoresOf(d) = CoresOf(c) \cup row
  <2>1. NCores \in Nat
    BY ConstantAssumption DEF ConstantAssumption
  <2>2. ASSUME NEW u \in Thread, NEW k \in 1 .. NCores
        PROVE  <<u, k>> \in CoresOf(d) <=> <<u, k>> \in CoresOf(c) \cup row
    BY <2>1, <2>2 DEF CoresOf
  <2>3. CoresOf(d) \subseteq Thread \X (1 .. NCores) /\ CoresOf(c) \subseteq Thread \X (1 .. NCores)
    BY DEF CoresOf
  <2>4. row \subseteq Thread \X (1 .. NCores)
    BY <2>1
  <2>5. \A x \in Thread \X (1 .. NCores) : x = <<x[1], x[2]>> /\ x[1] \in Thread /\ x[2] \in 1 .. NCores
    OBVIOUS
  <2> HIDE DEF d, row
  <2>6. ASSUME NEW x \in Thread \X (1 .. NCores)
        PROVE  x \in CoresOf(d) <=> x \in CoresOf(c) \cup row
    <3>1. x[1] \in Thread /\ x[2] \in 1 .. NCores /\ x = <<x[1], x[2]>>
      BY <2>5, Zenon
    <3>2. <<x[1], x[2]>> \in CoresOf(d) <=> <<x[1], x[2]>> \in CoresOf(c) \cup row
      BY <2>2, <3>1, Zenon
    <3> QED
      BY <3>1, <3>2, Zenon
  <2> QED
    BY <2>3, <2>4, <2>6, Zenon
<1>3. CoresOf(c) \cap row = {}
  BY DEF CoresOf
<1>4. Cardinality(CoresOf(c) \cap row) = 0
  BY <1>3, FS_EmptySet
<1>5. IsFiniteSet(CoresOf(c)) /\ Cardinality(CoresOf(c)) \in Nat
  BY CoresOfFinite
<1>6. Cardinality(CoresOf(c) \cup row) = Cardinality(CoresOf(c)) + Cardinality(row)
                                         - Cardinality(CoresOf(c) \cap row)
  BY <1>1, <1>5, FS_Union
<1>7. Cardinality(CoresOf(c) \cup row) = Cardinality(CoresOf(c)) + n - 0
  BY <1>1, <1>4, <1>6, Zenon
<1>8. Cardinality(CoresOf(c) \cup row) = Cardinality(CoresOf(c)) + n
  <2> DEFINE x == Cardinality(CoresOf(c))
             y == Cardinality(CoresOf(c) \cup row)
  <2>1. x \in Nat /\ y = x + n - 0
    BY <1>5, <1>7
  <2> HIDE DEF x, y
  <2>2. y = x + n
    BY <2>1
  <2> QED
    BY <2>2 DEF x, y
<1> QED
  BY <1>2, <1>8, Zenon

\* A thread has no more cores than all threads together.
LEMMA CoresBound ==
  ASSUME NEW c \in [Thread -> 0 .. NCores], NEW t \in Thread
  PROVE  c[t] <= Cardinality(CoresOf(c))
<1> DEFINE row == {t} \X (0 + 1 .. c[t])
<1>1. NCores \in Nat /\ c[t] \in Nat /\ c[t] <= NCores
  BY ConstantAssumption DEF ConstantAssumption
<1>2. IsFiniteSet(row) /\ Cardinality(row) = c[t]
  <2>1. 0 \in Nat /\ 0 <= c[t] /\ c[t] - 0 = c[t]
    BY <1>1
  <2> QED
    BY <1>1, <2>1, RowCardinality
<1>3. row \subseteq CoresOf(c)
  BY <1>1 DEF CoresOf
<1> HIDE DEF row
<1> QED
  BY <1>1, <1>2, <1>3, CoresOfFinite, FS_Subset

(***************************************************************************)
(* The invariant: what a thread asks for is a number, what it gives back   *)
(* it has, and the count is right.                                         *)
(***************************************************************************)
Reserving == {"guard", "execute", "sleep", "join"}
Places == Reserving \cup {"off", "ready", "run", "ran", "return", "lock", "wait", "front",
                        "threw", "cleanup", "complete", "end"}

CoreTypes ==
  /\ prog \in Programs
  /\ at \in [Thread -> Places]
  /\ ip \in [Thread -> Nat \ {0}]
  /\ want \in [Thread -> Int]
  /\ cores \in [Thread -> 0 .. NCores]
  /\ ncoreActive \in Int

WantInv ==
  \A t \in Thread :
    /\ at[t] \in Reserving => want[t] >= 0
    /\ at[t] \in {"run", "ran"} => want[t] <= cores[t]

CoreInv == CoreTypes /\ WantInv /\ CoresConserved

\* Threads that neither reserve nor release keep what the invariant is about.
KeepsCores == UNCHANGED <<prog, want, schedVars>>

LEMMA ConservedKeeps ==
  ASSUME CoresConserved, UNCHANGED <<cores, ncoreActive>>
  PROVE  CoresConserved'
<1>1. CoresOf(cores)' = CoresOf(cores)
  BY DEF CoresOf
<1> QED
  BY <1>1 DEF CoresConserved

LEMMA ReturnKeeps ==
  ASSUME CoreInv, NEW t \in Thread, Return(t), KeepsCores
  PROVE  CoreInv'
<1>1. CoreTypes'
  <2>1. at' \in [Thread -> Places]
    BY DEF CoreInv, CoreTypes, Return, Places
  <2>2. ip' \in [Thread -> Nat \ {0}]
    BY DEF CoreInv, CoreTypes, Return
  <2> QED
    BY <2>1, <2>2 DEF CoreInv, CoreTypes, KeepsCores, schedVars
<1>2. WantInv'
  BY DEF CoreInv, CoreTypes, WantInv, Return, KeepsCores, schedVars, Reserving
<1>3. CoresConserved'
  BY ConservedKeeps DEF CoreInv, KeepsCores, schedVars
<1> QED
  BY <1>1, <1>2, <1>3 DEF CoreInv

\* The new place neither reserves nor is about to release.
LEMMA PlaceKeeps ==
  ASSUME CoreInv, NEW t, NEW label \in Places \ (Reserving \cup {"run", "ran"}),
         at' = [at EXCEPT ![t] = label], ip' = ip, KeepsCores
  PROVE  CoreInv'
<1>1. CoreTypes'
  BY DEF CoreInv, CoreTypes, KeepsCores, schedVars
<1>2. WantInv'
  BY DEF CoreInv, CoreTypes, WantInv, KeepsCores, schedVars, Reserving
<1>3. CoresConserved'
  BY ConservedKeeps DEF CoreInv, KeepsCores, schedVars
<1> QED
  BY <1>1, <1>2, <1>3 DEF CoreInv

\* A round of reserveCores: the cores that were free are the thread's.
LEMMA ReserveKeeps ==
  ASSUME CoreInv, NEW t \in Thread, ReserveCores(t)
  PROVE  CoreInv'
<1>0. at[t] \in Reserving /\ at[t] \in Places /\ want[t] \in Nat /\ NCores \in Nat
  BY ConstantAssumption DEF ReserveCores, Running, CoreInv, CoreTypes, WantInv, Reserving, ConstantAssumption, Places
<1>1. CASE ~Enough(t)
  <2>1. UNCHANGED <<prog, at, ip, want, cores, ncoreActive>>
    BY <1>1 DEF ReserveCores, reserveCores, Block, CoreInv, CoreTypes
  <2>2. CoresConserved'
    BY <2>1, ConservedKeeps DEF CoreInv
  <2> QED
    BY <2>1, <2>2 DEF CoreInv, CoreTypes, WantInv
<1>2. CASE Enough(t)
  <2>1. /\ cores' = [cores EXCEPT ![t] = cores[t] + want[t]]
        /\ ncoreActive' = ncoreActive + want[t]
        /\ UNCHANGED <<prog, want>>
    BY <1>2 DEF ReserveCores, reserveCores
  <2>2. /\ at[t] = "guard" => at' = [at EXCEPT ![t] = "ready"] /\ ip' = ip
        /\ at[t] = "execute" => at' = [at EXCEPT ![t] = "run"] /\ ip' = ip
        /\ at[t] \in {"sleep", "join"} => Return(t)
    BY <1>2 DEF ReserveCores, reserveCores
  <2>3. cores \in [Thread -> Nat] /\ cores[t] \in Nat /\ cores[t] <= ncoreActive
    BY CoresBound, <1>0 DEF CoreInv, CoreTypes, CoresConserved
  <2>4. cores[t] + want[t] <= NCores /\ ncoreActive + want[t] <= NCores
    BY <1>0, <1>2, <2>3 DEF Enough, Free, CoreInv, CoreTypes
  <2>5. cores' \in [Thread -> 0 .. NCores] /\ ncoreActive' \in Int
    BY <1>0, <2>1, <2>3, <2>4 DEF CoreInv, CoreTypes
  <2>6. Cardinality(CoresOf(cores')) = Cardinality(CoresOf(cores)) + want[t]
    BY <1>0, <2>1, <2>3, <2>4, CoresAdd
  <2>7. CoresConserved'
    <3>1. CoresOf(cores)' = CoresOf(cores')
      BY DEF CoresOf
    <3>2. ncoreActive' = Cardinality(CoresOf(cores'))
      BY <2>1, <2>6 DEF CoreInv, CoresConserved
    <3> QED
      BY <2>1, <2>4, <2>5, <3>1, <3>2 DEF CoresConserved
  <2>8. at' \in [Thread -> Places] /\ ip' \in [Thread -> Nat \ {0}]
    BY <1>0, <2>2 DEF Return, CoreInv, CoreTypes, Places, Reserving
  <2>9. WantInv'
    BY <1>0, <2>1, <2>2, <2>3 DEF Return, CoreInv, CoreTypes, WantInv, Places, Reserving
  <2> QED
    BY <2>1, <2>5, <2>7, <2>8, <2>9 DEF CoreInv, CoreTypes
<1> QED
  BY <1>1, <1>2

\* releaseCores of no more than the thread has.
LEMMA ReleaseKeeps ==
  ASSUME CoreInv, NEW t \in Thread, NEW n \in Nat, n <= cores[t], NEW q, releaseCores(n, t, q)
  PROVE  /\ CoresConserved'
         /\ cores' \in [Thread -> 0 .. NCores]
         /\ ncoreActive' \in Int
         /\ cores' = [cores EXCEPT ![t] = cores[t] - n]
<1>0. NCores \in Nat /\ cores[t] \in 0 .. NCores
  BY ConstantAssumption DEF CoreInv, CoreTypes, ConstantAssumption
<1>1. cores' = [cores EXCEPT ![t] = cores[t] - n] /\ ncoreActive' = ncoreActive - n
  BY DEF releaseCores, Kept
<1>2. cores' \in [Thread -> 0 .. NCores] /\ ncoreActive' \in Int /\ cores' \in [Thread -> Nat]
  BY <1>0, <1>1 DEF CoreInv, CoreTypes
<1>3. cores = [cores' EXCEPT ![t] = cores'[t] + n] /\ cores'[t] + n <= NCores
  <2>1. cores \in [Thread -> 0 .. NCores]
    BY DEF CoreInv, CoreTypes
  <2>2. cores'[t] + n = cores[t]
    BY <1>0, <1>1, <2>1
  <2>3. \A u \in Thread : cores[u] = [cores' EXCEPT ![t] = cores'[t] + n][u]
    BY <1>1, <1>2, <2>1, <2>2
  <2> QED
    BY <1>0, <1>2, <2>1, <2>2, <2>3
<1>4. Cardinality(CoresOf(cores)) = Cardinality(CoresOf(cores')) + n
  BY <1>2, <1>3, CoresAdd
<1>5. CoresOf(cores)' = CoresOf(cores')
  BY DEF CoresOf
<1>6. Cardinality(CoresOf(cores')) \in Nat
  BY CoresOfFinite
<1>7. CoresConserved'
  BY <1>0, <1>1, <1>2, <1>4, <1>5, <1>6 DEF CoreInv, CoresConserved
<1> QED
  BY <1>1, <1>2, <1>7

LEMMA CoreInit == Init => CoreInv
<1> SUFFICES ASSUME Init PROVE CoreInv
  OBVIOUS
<1>0. NCores \in Nat
  BY ConstantAssumption DEF ConstantAssumption
<1>1. CoreTypes /\ WantInv
  BY <1>0 DEF Init, CoreTypes, WantInv, Places, Reserving
<1>2. CoresOf(cores) = {}
  BY DEF CoresOf, Init
<1>3. Cardinality(CoresOf(cores)) = 0
  BY <1>2, FS_EmptySet
<1>4. CoresConserved
  BY <1>0, <1>3 DEF CoresConserved, Init
<1> QED
  BY <1>1, <1>4 DEF CoreInv

\* The call a thread is at.
LEMMA CallType ==
  ASSUME CoreInv, NEW t \in Thread, ip[t] <= Len(prog[t])
  PROVE  Calling(t) \in Call /\ Calling(t).n \in Nat
<1>1. prog[t] \in Seq(Call) /\ ip[t] \in Nat \ {0}
  BY ConstantAssumption DEF CoreInv, CoreTypes, ConstantAssumption
<1>2. Calling(t) \in Call
  BY <1>1 DEF Calling
<1> QED
  BY <1>2 DEF Call

LEMMA JoinKeeps ==
  ASSUME CoreInv, NEW t \in Thread, Join(t)
  PROVE  CoreInv'
<1>1. CASE Return(t) /\ KeepsCores
  BY <1>1, ReturnKeeps
<1>2. CASE /\ want' = [want EXCEPT ![t] = cores[t]]
           /\ releaseCores(cores[t], t, events)
           /\ Block(t, "join")
           /\ UNCHANGED <<prog, ip>>
  <2>1. cores[t] \in Nat
    BY DEF CoreInv, CoreTypes
  <2>2. /\ CoresConserved' /\ cores' \in [Thread -> 0 .. NCores] /\ ncoreActive' \in Int
        /\ cores' = [cores EXCEPT ![t] = cores[t] - cores[t]]
    BY <1>2, <2>1, ReleaseKeeps
  <2>3. CoreTypes'
    BY <1>2, <2>1, <2>2 DEF CoreInv, CoreTypes, Block, Places, Reserving
  <2>4. WantInv'
    BY <1>2, <2>1, <2>2 DEF CoreInv, CoreTypes, WantInv, Block, Reserving
  <2> QED
    BY <2>2, <2>3, <2>4 DEF CoreInv
<1>3. CASE at' = [at EXCEPT ![t] = "threw"] /\ ip' = ip /\ KeepsCores
  <2>1. "threw" \in Places \ (Reserving \cup {"run", "ran"})
    BY DEF Places, Reserving
  <2> QED
    BY <1>3, <2>1, PlaceKeeps
<1> QED
  BY <1>1, <1>2, <1>3 DEF Join, KeepsCores

LEMMA SleepKeeps ==
  ASSUME CoreInv, NEW t \in Thread, Sleep(t)
  PROVE  CoreInv'
<1>1. cores[t] \in Nat
  BY DEF CoreInv, CoreTypes
<1>2. PICK d \in Durations : releaseCores(cores[t], t, sendDelayed(events, Event(d, "unblock", t, 0)))
  BY DEF Sleep
<1>3. /\ CoresConserved' /\ cores' \in [Thread -> 0 .. NCores] /\ ncoreActive' \in Int
      /\ cores' = [cores EXCEPT ![t] = cores[t] - cores[t]]
  BY <1>1, <1>2, ReleaseKeeps
<1>4. want' = [want EXCEPT ![t] = cores[t]] /\ Block(t, "sleep") /\ UNCHANGED <<prog, ip>>
  BY DEF Sleep
<1>5. CoreTypes'
  BY <1>1, <1>3, <1>4 DEF CoreInv, CoreTypes, Block, Places, Reserving
<1>6. WantInv'
  BY <1>1, <1>3, <1>4 DEF CoreInv, CoreTypes, WantInv, Block, Reserving
<1> QED
  BY <1>3, <1>5, <1>6 DEF CoreInv

LEMMA ExecuteKeeps ==
  ASSUME CoreInv, NEW t \in Thread, Execute(t)
  PROVE  CoreInv'
<1>1. Calling(t).n \in Nat /\ cores[t] \in Nat
  BY CallType DEF Execute, Calls, CoreInv, CoreTypes
<1>2. /\ want' = [want EXCEPT ![t] = Calling(t).n - cores[t]]
      /\ at' = [at EXCEPT ![t] = IF Calling(t).n > cores[t] THEN "execute" ELSE "run"]
      /\ UNCHANGED <<prog, ip, cores, ncoreActive>>
  BY DEF Execute, schedVars
<1>3. CoreTypes'
  BY <1>1, <1>2 DEF CoreInv, CoreTypes, Places, Reserving
<1>4. WantInv'
  BY <1>1, <1>2 DEF CoreInv, CoreTypes, WantInv, Reserving
<1>5. CoresConserved'
  BY <1>2, ConservedKeeps DEF CoreInv
<1> QED
  BY <1>3, <1>4, <1>5 DEF CoreInv

LEMMA ExecuteDoneKeeps ==
  ASSUME CoreInv, NEW t \in Thread, ExecuteDone(t)
  PROVE  CoreInv'
<1>0. at[t] = "ran" /\ Return(t) /\ UNCHANGED <<prog, want>>
  BY DEF ExecuteDone, Running
<1>1. CASE want[t] > 0
  <2>1. want[t] \in Nat /\ want[t] <= cores[t] /\ cores[t] \in Nat
    BY <1>0, <1>1 DEF CoreInv, CoreTypes, WantInv
  <2>2. /\ CoresConserved' /\ cores' \in [Thread -> 0 .. NCores] /\ ncoreActive' \in Int
        /\ cores' = [cores EXCEPT ![t] = cores[t] - want[t]]
    BY <1>1, <2>1, ReleaseKeeps DEF ExecuteDone
  <2>3. at' \in [Thread -> Places] /\ ip' \in [Thread -> Nat \ {0}]
    BY <1>0 DEF CoreInv, CoreTypes, Return, Places
  <2>4. WantInv'
    BY <1>0, <2>1, <2>2 DEF CoreInv, CoreTypes, WantInv, Return, Reserving
  <2> QED
    BY <1>0, <2>2, <2>3, <2>4 DEF CoreInv, CoreTypes
<1>2. CASE ~(want[t] > 0)
  BY <1>0, <1>2, ReturnKeeps DEF ExecuteDone, KeepsCores
<1> QED
  BY <1>1, <1>2

LEMMA ExitKeeps ==
  ASSUME CoreInv, NEW t \in Thread, Exit(t)
  PROVE  CoreInv'
<1>1. cores[t] \in Nat
  BY DEF CoreInv, CoreTypes
<1>2. /\ CoresConserved' /\ cores' \in [Thread -> 0 .. NCores] /\ ncoreActive' \in Int
      /\ cores' = [cores EXCEPT ![t] = cores[t] - cores[t]]
  BY <1>1, ReleaseKeeps DEF Exit
<1>3. at' = [at EXCEPT ![t] = "cleanup"] /\ UNCHANGED <<prog, ip, want>>
  BY DEF Exit
<1>4. CoreTypes'
  BY <1>2, <1>3 DEF CoreInv, CoreTypes, Places, Reserving
<1>5. WantInv'
  BY <1>1, <1>2, <1>3 DEF CoreInv, CoreTypes, WantInv, Reserving
<1> QED
  BY <1>2, <1>4, <1>5 DEF CoreInv

LEMMA ExecuteRunKeeps ==
  ASSUME CoreInv, NEW t \in Thread, ExecuteRun(t)
  PROVE  CoreInv'
<1>1. at[t] = "run" /\ at' = [at EXCEPT ![t] = "ran"] /\ UNCHANGED <<prog, ip, want, cores, ncoreActive>>
  BY DEF ExecuteRun, Running, Block, schedVars
<1>2. CoreTypes'
  BY <1>1 DEF CoreInv, CoreTypes, Places
<1>3. WantInv'
  BY <1>1 DEF CoreInv, CoreTypes, WantInv, Reserving
<1>4. CoresConserved'
  BY <1>1, ConservedKeeps DEF CoreInv
<1> QED
  BY <1>2, <1>3, <1>4 DEF CoreInv

\* startThread, also of a thread that has cores: it asks for one more.
LEMMA StartKeeps ==
  ASSUME CoreInv, NEW t, Start(t), UNCHANGED <<prog, ip, schedVars>>
  PROVE  CoreInv'
<1>1. at' = [at EXCEPT ![t] = "guard"] /\ want' = [want EXCEPT ![t] = 1]
      /\ UNCHANGED <<prog, ip, cores, ncoreActive>>
  BY DEF Start, schedVars
<1>2. CoreTypes'
  <2>1. at' \in [Thread -> Places]
    BY <1>1 DEF CoreInv, CoreTypes, Places, Reserving
  <2>2. want' \in [Thread -> Int]
    <3>1. want \in [Thread -> Int] /\ want' = [want EXCEPT ![t] = 1] /\ 1 \in Int
      BY <1>1 DEF CoreInv, CoreTypes
    <3> QED
      BY <3>1, Zenon
  <2> QED
    BY <1>1, <2>1, <2>2 DEF CoreInv, CoreTypes
<1>3. WantInv'
  BY <1>1 DEF CoreInv, CoreTypes, WantInv, Reserving
<1>4. CoresConserved'
  BY <1>1, ConservedKeeps DEF CoreInv
<1> QED
  BY <1>2, <1>3, <1>4 DEF CoreInv

LEMMA NothingKeeps ==
  ASSUME CoreInv, UNCHANGED <<prog, at, ip, want, cores, ncoreActive>>
  PROVE  CoreInv'
<1>1. CoresConserved'
  BY ConservedKeeps DEF CoreInv
<1> QED
  BY <1>1 DEF CoreInv, CoreTypes, WantInv

\* Waking a thread changes no cores and leaves it where it is.
LEMMA UnblockNowKeeps ==
  ASSUME NEW t, UnblockNow(t)
  PROVE  UNCHANGED <<at, want>>
  BY DEF UnblockNow, Switch

LEMMA RunEventKeeps ==
  ASSUME CoreInv, RunEvent
  PROVE  CoreInv'
<1> DEFINE e == Head(events)
<1>0. Handle(e) /\ UNCHANGED <<prog, ip, schedVars>>
  BY DEF RunEvent
<1> HIDE DEF e
<1>1. CASE Start(e.thr)
  BY <1>0, <1>1, StartKeeps
<1>2. CASE UNCHANGED <<at, want>>
  BY <1>0, <1>2, NothingKeeps DEF schedVars
<1>3. Start(e.thr) \/ UNCHANGED <<at, want>>
  BY <1>0, UnblockNowKeeps DEF Handle, Switch, Expire
<1> QED
  BY <1>1, <1>2, <1>3

LEMMA CoreStep ==
  ASSUME CoreInv, [Next]_vars
  PROVE  CoreInv'
<1>1. ASSUME NEW t \in Thread, ThreadStep(t)
      PROVE  CoreInv'
  <2>1. CASE ReserveCores(t)
    BY <2>1, ReserveKeeps
  <2>2. CASE Join(t)
    BY <2>2, JoinKeeps
  <2>3. CASE Sleep(t)
    BY <2>3, SleepKeeps
  <2>4. CASE Execute(t)
    BY <2>4, ExecuteKeeps
  <2>5. CASE ExecuteRun(t)
    BY <2>5, ExecuteRunKeeps
  <2>6. CASE ExecuteDone(t)
    BY <2>6, ExecuteDoneKeeps
  <2>7. CASE Exit(t)
    BY <2>7, ExitKeeps
  <2>8. CASE Compute(t) \/ Wait(t) \/ Cleanup(t)
    <3>1. PICK label \in {"return", "wait", "complete"} :
            at' = [at EXCEPT ![t] = label] /\ ip' = ip /\ KeepsCores
      BY <2>8 DEF Compute, Wait, Cleanup, Block, KeepsCores, frameVars
    <3>2. label \in Places \ (Reserving \cup {"run", "ran"})
      BY DEF Places, Reserving
    <3> QED
      BY <3>1, <3>2, PlaceKeeps
  <2>9. CASE Create(t) \/ AfterBlock(t) \/ LockDone(t) \/ Trylock(t) \/ Unlock(t) \/ WaitDone(t)
             \/ Signal(t) \/ QueueFrontDone(t) \/ Post(t)
    <3>1. Return(t) /\ KeepsCores
      BY <2>9 DEF Create, AfterBlock, LockDone, Trylock, Unlock, WaitDone, Signal, QueueFrontDone,
                  Post, KeepsCores, frameVars
    <3> QED
      BY <3>1, ReturnKeeps
  <2>10. CASE Lock(t)
    <3>1. KeepsCores /\ (Return(t) \/ (Block(t, "lock") /\ ip' = ip))
      BY <2>10 DEF Lock, KeepsCores, frameVars
    <3>2. "lock" \in Places \ (Reserving \cup {"run", "ran"})
      BY DEF Places, Reserving
    <3> QED
      BY <3>1, <3>2, ReturnKeeps, PlaceKeeps DEF Block
  <2>11. CASE QueueFront(t)
    <3>1. KeepsCores /\ (Return(t) \/ (Block(t, "front") /\ ip' = ip))
      BY <2>11 DEF QueueFront, KeepsCores
    <3>2. "front" \in Places \ (Reserving \cup {"run", "ran"})
      BY DEF Places, Reserving
    <3> QED
      BY <3>1, <3>2, ReturnKeeps, PlaceKeeps DEF Block
  <2>12. CASE Complete(t)
    <3>1. KeepsCores /\ ip' = ip /\ (at' = at \/ at' = [at EXCEPT ![t] = "end"])
      BY <2>12 DEF Complete, KeepsCores
    <3>2. "end" \in Places \ (Reserving \cup {"run", "ran"})
      BY DEF Places, Reserving
    <3> QED
      BY <3>1, <3>2, NothingKeeps, PlaceKeeps DEF KeepsCores, schedVars
  <2> QED
    BY <1>1, <2>1, <2>2, <2>3, <2>4, <2>5, <2>6, <2>7, <2>8, <2>9, <2>10, <2>11, <2>12 DEF ThreadStep
<1>2. ASSUME NEW t \in App, StartApp(t)
      PROVE  CoreInv'
  BY <1>2, StartKeeps DEF StartApp
<1>3. CASE RunEvent
  BY <1>3, RunEventKeeps
<1>4. CASE Incoming
  <2>1. UNCHANGED <<prog, at, ip, want, cores, ncoreActive>>
    BY <1>4, UnblockNowKeeps DEF Incoming, schedVars
  <2> QED
    BY <2>1, NothingKeeps
<1>5. CASE UNCHANGED vars
  BY <1>5, NothingKeeps DEF vars, schedVars
<1> QED
  BY <1>1, <1>2, <1>3, <1>4, <1>5 DEF Next

(***************************************************************************)
(* ncore_active_ is the number of cores the threads have, and never more   *)
(* than the node has: reserveCores and releaseCores of                     *)
(* SimpleComputeScheduler lose and invent no core, whatever the threads    *)
(* call, in whatever order the events wake them.                           *)
(***************************************************************************)
THEOREM SchedulerConservesCores == Spec => []CoresConserved
<1>1. CoreInv => CoresConserved
  BY DEF CoreInv
<1>2. CoreInv /\ [Next]_vars => CoreInv'
  BY CoreStep
<1> QED
  BY CoreInit, <1>1, <1>2, PTL DEF Spec
-----------------------------------------------------------------------------
(***************************************************************************)
(* Taking an element out of a sequence and putting one in.                 *)
(***************************************************************************)
LEMMA Joint ==
  \A S : \A a, b \in Seq(S) :
    /\ a \o b \in Seq(S) /\ Len(a \o b) = Len(a) + Len(b)
    /\ \A k \in 1 .. Len(a) : (a \o b)[k] = a[k]
    /\ \A k \in Len(a) + 1 .. Len(a) + Len(b) : (a \o b)[k] = b[k - Len(a)]
  OBVIOUS

LEMMA Inserted ==
  ASSUME NEW S, NEW s \in Seq(S), NEW e \in S, NEW i \in 1 .. Len(s) + 1
  PROVE  /\ InsertAt(s, i, e) \in Seq(S)
         /\ Len(InsertAt(s, i, e)) = Len(s) + 1
         /\ \A k \in 1 .. Len(s) + 1 :
              InsertAt(s, i, e)[k] = IF k < i THEN s[k] ELSE IF k = i THEN e ELSE s[k - 1]
<1> DEFINE a == SubSeq(s, 1, i - 1)
           b == <<e>>
           c == SubSeq(s, i, Len(s))
<1>1. a \in Seq(S) /\ Len(a) = i - 1 /\ \A k \in 1 .. i - 1 : a[k] = s[k]
  OBVIOUS
<1>2. b \in Seq(S) /\ Len(b) = 1 /\ b[1] = e
  OBVIOUS
<1>3. c \in Seq(S) /\ Len(c) = Len(s) - i + 1 /\ \A k \in 1 .. Len(s) - i + 1 : c[k] = s[k + i - 1]
  OBVIOUS
<1>4. InsertAt(s, i, e) = (a \o b) \o c
  BY DEF InsertAt
<1> HIDE DEF a, b, c
<1>5. /\ a \o b \in Seq(S) /\ Len(a \o b) = i
      /\ \A k \in 1 .. i - 1 : (a \o b)[k] = s[k]
      /\ (a \o b)[i] = e
  <2>1. a \o b \in Seq(S) /\ Len(a \o b) = Len(a) + Len(b)
    BY <1>1, <1>2, Joint
  <2>2. ASSUME NEW k \in 1 .. i - 1 PROVE (a \o b)[k] = s[k]
    <3>1. (a \o b)[k] = a[k]
      BY <1>1, <1>2, Joint
    <3> QED
      BY <1>1, <3>1
  <2>3. (a \o b)[i] = b[i - (i - 1)] /\ i - (i - 1) = 1
    BY <1>1, <1>2, Joint
  <2>4. (a \o b)[i] = e
    BY <1>2, <2>3
  <2> QED
    BY <1>1, <1>2, <2>1, <2>2, <2>4
<1> DEFINE d == a \o b
<1> HIDE DEF d
<1>6. d \in Seq(S) /\ Len(d) = i /\ (\A k \in 1 .. i - 1 : d[k] = s[k]) /\ d[i] = e
  BY <1>5 DEF d
<1>7. d \o c \in Seq(S) /\ Len(d \o c) = Len(s) + 1
  <2>1. d \o c \in Seq(S) /\ Len(d \o c) = Len(d) + Len(c)
    BY <1>3, <1>6, Joint
  <2> QED
    BY <1>3, <1>6, <2>1
<1>8. ASSUME NEW k \in 1 .. Len(s) + 1
      PROVE  (d \o c)[k] = IF k < i THEN s[k] ELSE IF k = i THEN e ELSE s[k - 1]
  <2>1. CASE k <= i
    <3>1. (d \o c)[k] = d[k]
      BY <1>3, <1>6, <2>1, Joint
    <3> QED
      BY <1>6, <2>1, <3>1
  <2>2. CASE k > i
    <3>1. (d \o c)[k] = c[k - i] /\ k - i \in 1 .. Len(s) - i + 1
      BY <1>3, <1>6, <2>2, Joint
    <3>2. c[k - i] = s[(k - i) + i - 1]
      BY <1>3, <3>1
    <3>3. (k - i) + i - 1 = k - 1 /\ ~(k < i) /\ k # i
      BY <2>2
    <3>4. c[k - i] = s[k - 1]
      BY <3>2, <3>3, Zenon
    <3> QED
      BY <3>1, <3>3, <3>4, Zenon
  <2>3. k <= i \/ k > i
    OBVIOUS
  <2> QED
    BY <2>1, <2>2, <2>3, Zenon
<1> QED
  BY <1>4, <1>7, <1>8 DEF d

LEMMA Removed ==
  ASSUME NEW S, NEW s \in Seq(S), NEW i \in 1 .. Len(s)
  PROVE  /\ RemoveAt(s, i) \in Seq(S)
         /\ Len(RemoveAt(s, i)) = Len(s) - 1
         /\ \A k \in 1 .. Len(s) - 1 : RemoveAt(s, i)[k] = IF k < i THEN s[k] ELSE s[k + 1]
<1> DEFINE a == SubSeq(s, 1, i - 1)
           c == SubSeq(s, i + 1, Len(s))
<1>1. a \in Seq(S) /\ Len(a) = i - 1 /\ \A k \in 1 .. i - 1 : a[k] = s[k]
  OBVIOUS
<1>3. c \in Seq(S) /\ Len(c) = Len(s) - i /\ \A k \in 1 .. Len(s) - i : c[k] = s[k + i]
  OBVIOUS
<1>4. RemoveAt(s, i) = a \o c
  BY DEF RemoveAt
<1> HIDE DEF a, c
<1>7. a \o c \in Seq(S) /\ Len(a \o c) = Len(s) - 1
  <2>1. a \o c \in Seq(S) /\ Len(a \o c) = Len(a) + Len(c)
    BY <1>1, <1>3, Joint
  <2> QED
    BY <1>1, <1>3, <2>1
<1>8. ASSUME NEW k \in 1 .. Len(s) - 1
      PROVE  (a \o c)[k] = IF k < i THEN s[k] ELSE s[k + 1]
  <2>1. CASE k < i
    <3>1. (a \o c)[k] = a[k]
      BY <1>1, <1>3, <2>1, Joint
    <3> QED
      BY <1>1, <2>1, <3>1
  <2>2. CASE k >= i
    <3>1. (a \o c)[k] = c[k - (i - 1)] /\ k - (i - 1) \in 1 .. Len(s) - i
      BY <1>1, <1>3, <2>2, Joint
    <3>2. c[k - (i - 1)] = s[(k - (i - 1)) + i]
      BY <1>3, <3>1
    <3>3. (k - (i - 1)) + i = k + 1 /\ ~(k < i)
      BY <2>2
    <3>4. c[k - (i - 1)] = s[k + 1]
      BY <3>2, <3>3, Zenon
    <3> QED
      BY <3>1, <3>3, <3>4, Zenon
  <2>3. k < i \/ k >= i
    OBVIOUS
  <2> QED
    BY <2>1, <2>2, <2>3, Zenon
<1> QED
  BY <1>4, <1>7, <1>8

(***************************************************************************)
(* The events: which threads they wake, start and delete.                  *)
(***************************************************************************)
WakeKinds == {"switch", "start", "unblock"}
EventType == [wait : Int, kind : WakeKinds \cup {"delete"}, thr : Thread, n : Nat]

Of(q, kinds) == {q[k].thr : k \in {i \in DOMAIN q : q[i].kind \in kinds}}

\* No thread is woken by two events.
OneEach(q) ==
  \A i, j \in DOMAIN q :
    q[i].kind \in WakeKinds /\ q[j].kind \in WakeKinds /\ q[i].thr = q[j].thr => i = j

Queue(q) == q \in Seq(EventType) /\ OneEach(q)

LEMMA SentTo ==
  ASSUME NEW q \in Seq(EventType), NEW e \in EventType
  PROVE  /\ sendDelayed(q, e) \in Seq(EventType)
         /\ \A kinds : Of(sendDelayed(q, e), kinds) =
                       IF e.kind \in kinds THEN Of(q, kinds) \cup {e.thr} ELSE Of(q, kinds)
         /\ OneEach(q) /\ (e.kind \in WakeKinds => e.thr \notin Of(q, WakeKinds)) => OneEach(sendDelayed(q, e))
<1> DEFINE early == {k \in DOMAIN q : q[k].wait <= e.wait}
           i == Cardinality(early) + 1
           r == InsertAt(q, i, e)
           n == Len(q)
<1>0. q \in Seq(EventType) /\ n \in Nat /\ DOMAIN q = 1 .. n
  OBVIOUS
<1>1. i \in 1 .. n + 1
  <2>1. IsFiniteSet(1 .. n) /\ Cardinality(1 .. n) = n
    BY <1>0, FS_Interval
  <2>2. early \in SUBSET (1 .. n)
    BY <1>0
  <2> HIDE DEF early
  <2>3. IsFiniteSet(early) /\ Cardinality(early) <= n
    BY <2>1, <2>2, FS_Subset
  <2>4. Cardinality(early) \in Nat
    BY <2>3, FS_CardinalityType
  <2> QED
    BY <1>0, <2>3, <2>4
<1>2. sendDelayed(q, e) = r
  BY DEF sendDelayed
<1> HIDE DEF i, n, early
<1>3. /\ r \in Seq(EventType) /\ Len(r) = n + 1
      /\ \A k \in 1 .. n + 1 : r[k] = IF k < i THEN q[k] ELSE IF k = i THEN e ELSE q[k - 1]
  BY <1>0, <1>1, Inserted DEF n
<1> HIDE DEF r
<1>4. DOMAIN r = 1 .. n + 1
  BY <1>0, <1>3
<1>5. ASSUME OneEach(q), e.kind \in WakeKinds => e.thr \notin Of(q, WakeKinds) PROVE OneEach(r)
  <2> SUFFICES ASSUME NEW j \in DOMAIN r, NEW k \in DOMAIN r, r[j].kind \in WakeKinds, r[k].kind \in WakeKinds,
                      r[j].thr = r[k].thr
               PROVE  j = k
    BY DEF OneEach
  <2>0. j \in 1 .. n + 1 /\ k \in 1 .. n + 1
    BY <1>4
  <2> DEFINE old(l) == IF l < i THEN l ELSE l - 1
  <2>1. \A l \in 1 .. n + 1 : l # i => old(l) \in DOMAIN q /\ r[l] = q[old(l)]
    BY <1>0, <1>1, <1>3
  <2>2. \A l \in DOMAIN q : q[l].kind \in WakeKinds => q[l].thr \in Of(q, WakeKinds)
    BY DEF Of
  <2>3. r[i] = e
    BY <1>0, <1>1, <1>3
  <2>4. CASE j = i /\ k # i
    BY <1>5, <2>0, <2>1, <2>2, <2>3, <2>4
  <2>5. CASE k = i /\ j # i
    BY <1>5, <2>0, <2>1, <2>2, <2>3, <2>5
  <2>6. CASE k # i /\ j # i
    <3>1. old(j) = old(k)
      BY <1>5, <2>0, <2>1, <2>6 DEF OneEach
    <3> QED
      BY <1>0, <1>1, <2>0, <2>6, <3>1
  <2> QED
    BY <2>4, <2>5, <2>6
<1>6. ASSUME NEW kinds
      PROVE  Of(r, kinds) = IF e.kind \in kinds THEN Of(q, kinds) \cup {e.thr} ELSE Of(q, kinds)
  <2>1. ASSUME NEW k \in DOMAIN r, r[k].kind \in kinds
        PROVE  r[k].thr \in Of(q, kinds) \/ (e.kind \in kinds /\ r[k].thr = e.thr)
    <3>1. CASE k = i
      BY <1>0, <1>1, <1>3, <2>1, <3>1
    <3>2. CASE k # i
      <4>1. \E j \in DOMAIN q : r[k] = q[j]
        <5>1. CASE k < i
          BY <1>0, <1>1, <1>3, <1>4, <5>1
        <5>2. CASE k > i
          <6>1. k - 1 \in DOMAIN q /\ r[k] = q[k - 1]
            BY <1>0, <1>1, <1>3, <1>4, <5>2
          <6> QED
            BY <6>1
        <5> QED
          BY <1>1, <1>4, <3>2, <5>1, <5>2
      <4> QED
        BY <2>1, <4>1 DEF Of
    <3> QED
      BY <3>1, <3>2
  <2>2. ASSUME NEW k \in DOMAIN q, q[k].kind \in kinds
        PROVE  q[k].thr \in Of(r, kinds)
    <3>1. \E j \in DOMAIN r : r[j] = q[k]
      <4>1. CASE k < i
        BY <1>0, <1>1, <1>3, <1>4, <4>1
      <4>2. CASE k >= i
        <5>1. k + 1 \in DOMAIN r /\ r[k + 1] = q[k]
          BY <1>0, <1>1, <1>3, <1>4, <4>2
        <5> QED
          BY <5>1
      <4> QED
        BY <1>0, <1>1, <4>1, <4>2
    <3> QED
      BY <2>2, <3>1 DEF Of
  <2>3. e.kind \in kinds => e.thr \in Of(r, kinds)
    <3>1. i \in DOMAIN r /\ r[i] = e
      BY <1>0, <1>1, <1>3, <1>4
    <3> QED
      BY <3>1 DEF Of
  <2>4. \A x : x \in Of(r, kinds) <=> x \in Of(q, kinds) \/ (e.kind \in kinds /\ x = e.thr)
    BY <2>1, <2>2, <2>3 DEF Of
  <2> QED
    BY <2>4
<1> QED
  BY <1>2, <1>3, <1>5, <1>6

\* A waking event for a thread that has none, or the event that deletes one.
LEMMA Sent ==
  ASSUME NEW q, Queue(q), NEW e \in EventType, e.kind \in WakeKinds => e.thr \notin Of(q, WakeKinds)
  PROVE  /\ Queue(sendDelayed(q, e))
         /\ \A kinds : Of(sendDelayed(q, e), kinds) =
                       IF e.kind \in kinds THEN Of(q, kinds) \cup {e.thr} ELSE Of(q, kinds)
  BY SentTo DEF Queue

\* The first event is gone.
LEMMA Popped ==
  ASSUME NEW q, Queue(q), q # <<>>, NEW d \in Int
  PROVE  /\ Queue(Later(Tail(q), d))
         /\ \A kinds : Of(Later(Tail(q), d), kinds) \subseteq Of(q, kinds)
         /\ \A kinds : \A x \in Of(q, kinds) : x # Head(q).thr => x \in Of(Later(Tail(q), d), kinds)
         /\ Head(q).kind \in WakeKinds => Head(q).thr \notin Of(Later(Tail(q), d), WakeKinds)
         /\ Head(q).kind = "delete" => Of(q, WakeKinds) = Of(Later(Tail(q), d), WakeKinds)
         /\ Head(q).kind # "start" => Of(q, {"start"}) = Of(Later(Tail(q), d), {"start"})
         /\ Head(q) \in EventType
         /\ \A kinds : Head(q).kind \in kinds => Head(q).thr \in Of(q, kinds)
         /\ Head(q).kind \in {"switch", "unblock"} => Head(q).thr \notin Of(q, {"start"})
<1> DEFINE r == Later(Tail(q), d)
           n == Len(q)
<1>0. q \in Seq(EventType) /\ n \in Nat \ {0} /\ DOMAIN q = 1 .. n
  BY DEF Queue
<1>1. Tail(q) \in Seq(EventType) /\ DOMAIN Tail(q) = 1 .. n - 1 /\ \A k \in 1 .. n - 1 : Tail(q)[k] = q[k + 1]
  BY <1>0
<1>2. Head(q) = q[1] /\ Head(q) \in EventType
  BY <1>0
<1>3. r = [k \in 1 .. n - 1 |-> [q[k + 1] EXCEPT !.wait = @ - d]]
  BY <1>1 DEF Later
<1>4. \A k \in 1 .. n - 1 : q[k + 1] \in EventType
  BY <1>0
<1>5. ASSUME NEW k \in 1 .. n - 1
      PROVE  r[k] \in EventType /\ r[k].kind = q[k + 1].kind /\ r[k].thr = q[k + 1].thr
  <2>1. q[k + 1] \in EventType /\ r[k] = [q[k + 1] EXCEPT !.wait = @ - d]
    BY <1>3, <1>4
  <2> QED
    BY <2>1 DEF EventType
<1> HIDE DEF r
<1>6. r \in Seq(EventType) /\ DOMAIN r = 1 .. n - 1
  <2>1. r \in [1 .. n - 1 -> EventType] /\ n - 1 \in Nat
    BY <1>0, <1>3, <1>5
  <2> QED
    BY <2>1
<1>7. OneEach(r)
  <2> SUFFICES ASSUME NEW j \in 1 .. n - 1, NEW k \in 1 .. n - 1, r[j].kind \in WakeKinds, r[k].kind \in WakeKinds,
                      r[j].thr = r[k].thr
               PROVE  j = k
    BY <1>6 DEF OneEach
  <2>1. j + 1 \in DOMAIN q /\ k + 1 \in DOMAIN q
    BY <1>0
  <2>2. j + 1 = k + 1
    BY <1>5, <2>1 DEF OneEach, Queue
  <2> QED
    BY <2>2
<1>8. ASSUME NEW kinds PROVE Of(r, kinds) \subseteq Of(q, kinds)
  <2>1. \A k \in 1 .. n - 1 : k + 1 \in DOMAIN q
    BY <1>0
  <2> QED
    BY <1>5, <1>6, <2>1 DEF Of
<1>9. ASSUME NEW kinds, NEW k \in DOMAIN q, q[k].kind \in kinds, k # 1
      PROVE  q[k].thr \in Of(r, kinds)
  <2>1. k - 1 \in 1 .. n - 1 /\ (k - 1) + 1 = k
    BY <1>0, <1>9
  <2>2. r[k - 1].kind = q[k].kind /\ r[k - 1].thr = q[k].thr /\ k - 1 \in DOMAIN r
    BY <1>5, <1>6, <2>1
  <2> QED
    BY <1>9, <2>2 DEF Of
<1>10. ASSUME NEW kinds, NEW x \in Of(q, kinds), x # Head(q).thr \/ Head(q).kind \notin kinds
       PROVE  x \in Of(r, kinds)
  <2>1. PICK k \in DOMAIN q : q[k].kind \in kinds /\ x = q[k].thr
    BY DEF Of
  <2>2. k # 1
    BY <1>2, <1>10, <2>1
  <2> QED
    BY <1>9, <2>1, <2>2
<1>11. ASSUME Head(q).kind \in WakeKinds PROVE Head(q).thr \notin Of(r, WakeKinds)
  <2> SUFFICES ASSUME NEW k \in 1 .. n - 1, r[k].kind \in WakeKinds, r[k].thr = Head(q).thr
               PROVE  FALSE
    BY <1>6 DEF Of
  <2>1. q[k + 1].kind \in WakeKinds /\ q[k + 1].thr = q[1].thr /\ k + 1 \in DOMAIN q /\ 1 \in DOMAIN q
    BY <1>0, <1>2, <1>5
  <2>2. k + 1 = 1
    BY <1>2, <1>11, <2>1 DEF Queue, OneEach
  <2> QED
    BY <2>2
<1>12. Head(q).kind = "delete" => Of(q, WakeKinds) = Of(r, WakeKinds)
  <2> SUFFICES ASSUME Head(q).kind \notin WakeKinds PROVE Of(q, WakeKinds) \subseteq Of(r, WakeKinds)
    BY <1>8 DEF WakeKinds
  <2> QED
    BY <1>10
<1>13. Head(q).kind # "start" => Of(q, {"start"}) = Of(r, {"start"})
  <2> SUFFICES ASSUME Head(q).kind \notin {"start"} PROVE Of(q, {"start"}) \subseteq Of(r, {"start"})
    BY <1>8
  <2> QED
    BY <1>10
<1>14. Queue(r)
  BY <1>6, <1>7 DEF Queue
<1>15. ASSUME NEW kinds, Head(q).kind \in kinds PROVE Head(q).thr \in Of(q, kinds)
  BY <1>0, <1>2, <1>15 DEF Of
<1>16. ASSUME Head(q).kind \in {"switch", "unblock"} PROVE Head(q).thr \notin Of(q, {"start"})
  <2>1. q[1].kind \in WakeKinds /\ q[1].kind # "start" /\ 1 \in DOMAIN q
    BY <1>0, <1>2, <1>16 DEF WakeKinds
  <2>2. \A k \in DOMAIN q : q[k].kind = "start" => q[k].thr # q[1].thr
    BY <2>1 DEF Queue, OneEach, WakeKinds
  <2> QED
    BY <1>2, <2>2 DEF Of
<1> QED
  BY <1>2, <1>8, <1>10, <1>11, <1>12, <1>13, <1>14, <1>15, <1>16 DEF r

(***************************************************************************)
(* Lists of threads.                                                       *)
(***************************************************************************)
NoTwice(s) == \A i, j \in DOMAIN s : s[i] = s[j] => i = j

LEMMA AppendList ==
  ASSUME NEW s \in Seq(Thread), NoTwice(s), NEW t \in Thread, t \notin ToSet(s)
  PROVE  Append(s, t) \in Seq(Thread) /\ NoTwice(Append(s, t)) /\ ToSet(Append(s, t)) = ToSet(s) \cup {t}
<1> DEFINE r == Append(s, t)
           n == Len(s)
<1>1. n \in Nat /\ DOMAIN s = 1 .. n /\ DOMAIN r = 1 .. n + 1 /\ r \in Seq(Thread)
  OBVIOUS
<1>2. r[n + 1] = t /\ \A k \in 1 .. n : r[k] = s[k]
  OBVIOUS
<1> HIDE DEF r, n
<1>3. \A k \in 1 .. n : s[k] \in ToSet(s)
  BY <1>1 DEF ToSet
<1>4. NoTwice(r)
  BY <1>1, <1>2, <1>3 DEF NoTwice
<1>5. ToSet(r) = ToSet(s) \cup {t}
  <2>1. \A x : x \in ToSet(r) <=> \E k \in 1 .. n + 1 : r[k] = x
    BY <1>1 DEF ToSet
  <2>2. \A x : x \in ToSet(s) <=> \E k \in 1 .. n : s[k] = x
    BY <1>1 DEF ToSet
  <2>3. \A k : k \in 1 .. n + 1 <=> k \in 1 .. n \/ k = n + 1
    BY <1>1
  <2> QED
    BY <1>2, <2>1, <2>2, <2>3
<1> QED
  BY <1>1, <1>4, <1>5 DEF r

LEMMA TailList ==
  ASSUME NEW s \in Seq(Thread), NoTwice(s), s # <<>>
  PROVE  /\ Head(s) \in Thread /\ Head(s) \in ToSet(s)
         /\ Tail(s) \in Seq(Thread) /\ NoTwice(Tail(s))
         /\ ToSet(Tail(s)) = ToSet(s) \ {Head(s)}
<1> DEFINE r == Tail(s)
           n == Len(s)
<1>1. n \in Nat \ {0} /\ DOMAIN s = 1 .. n /\ DOMAIN r = 1 .. n - 1 /\ r \in Seq(Thread)
  OBVIOUS
<1>2. Head(s) = s[1] /\ Head(s) \in Thread /\ \A k \in 1 .. n - 1 : r[k] = s[k + 1]
  OBVIOUS
<1> HIDE DEF r, n
<1>4. NoTwice(r)
  <2> SUFFICES ASSUME NEW i \in 1 .. n - 1, NEW j \in 1 .. n - 1, r[i] = r[j] PROVE i = j
    BY <1>1 DEF NoTwice
  <2>1. s[i + 1] = s[j + 1] /\ i + 1 \in DOMAIN s /\ j + 1 \in DOMAIN s
    BY <1>1, <1>2
  <2>2. i + 1 = j + 1
    BY <2>1 DEF NoTwice
  <2> QED
    BY <2>2
<1>5. ToSet(r) = ToSet(s) \ {Head(s)}
  <2>1. \A x : x \in ToSet(r) <=> \E k \in 1 .. n - 1 : r[k] = x
    BY <1>1 DEF ToSet
  <2>2. \A x : x \in ToSet(s) <=> \E k \in 1 .. n : s[k] = x
    BY <1>1 DEF ToSet
  <2>3. ASSUME NEW x \in ToSet(r) PROVE x \in ToSet(s) /\ x # Head(s)
    <3>1. PICK k \in 1 .. n - 1 : r[k] = x
      BY <2>1
    <3>2. x = s[k + 1] /\ k + 1 \in 1 .. n /\ 1 \in 1 .. n /\ k + 1 # 1
      BY <1>1, <1>2, <3>1
    <3> QED
      BY <1>1, <1>2, <2>2, <3>2 DEF NoTwice
  <2>4. ASSUME NEW x \in ToSet(s), x # Head(s) PROVE x \in ToSet(r)
    <3>1. PICK k \in 1 .. n : s[k] = x
      BY <2>2
    <3>2. k # 1
      BY <1>2, <2>4, <3>1
    <3>3. k - 1 \in 1 .. n - 1 /\ (k - 1) + 1 = k
      BY <1>1, <3>2
    <3>4. r[k - 1] = x
      BY <1>2, <3>1, <3>3
    <3> QED
      BY <2>1, <3>3, <3>4
  <2> QED
    BY <2>3, <2>4
<1>6. Head(s) \in ToSet(s)
  <2>1. 1 \in DOMAIN s
    BY <1>1
  <2> QED
    BY <1>2, <2>1 DEF ToSet
<1> QED
  BY <1>1, <1>2, <1>4, <1>5, <1>6 DEF r

\* The threads that wait for cores, each once.
Entry == [n : Int, thr : Thread]
Threads(p) == {p[k].thr : k \in DOMAIN p}
EachOnce(p) == p \in Seq(Entry) /\ \A i, j \in DOMAIN p : p[i].thr = p[j].thr => i = j

LEMMA AppendEntry ==
  ASSUME NEW p, EachOnce(p), NEW e \in Entry, e.thr \notin Threads(p)
  PROVE  EachOnce(Append(p, e)) /\ Threads(Append(p, e)) = Threads(p) \cup {e.thr}
<1> DEFINE r == Append(p, e)
           n == Len(p)
<1>0. p \in Seq(Entry)
  BY DEF EachOnce
<1>1. n \in Nat /\ DOMAIN p = 1 .. n /\ DOMAIN r = 1 .. n + 1 /\ r \in Seq(Entry)
  BY <1>0
<1>2. r[n + 1] = e /\ \A k \in 1 .. n : r[k] = p[k]
  BY <1>0
<1> HIDE DEF r, n
<1>3. \A k \in 1 .. n : p[k].thr \in Threads(p)
  BY <1>1 DEF Threads
<1>4. EachOnce(r)
  BY <1>1, <1>2, <1>3 DEF EachOnce
<1>5. Threads(r) = Threads(p) \cup {e.thr}
  <2>1. \A x : x \in Threads(r) <=> \E k \in 1 .. n + 1 : r[k].thr = x
    BY <1>1 DEF Threads
  <2>2. \A x : x \in Threads(p) <=> \E k \in 1 .. n : p[k].thr = x
    BY <1>1 DEF Threads
  <2>3. \A k : k \in 1 .. n + 1 <=> k \in 1 .. n \/ k = n + 1
    BY <1>1
  <2> QED
    BY <1>2, <2>1, <2>2, <2>3
<1> QED
  BY <1>4, <1>5 DEF r

LEMMA RemoveEntry ==
  ASSUME NEW p, EachOnce(p), NEW i \in DOMAIN p
  PROVE  /\ p[i].thr \in Thread /\ p[i].thr \in Threads(p)
         /\ EachOnce(RemoveAt(p, i))
         /\ Threads(RemoveAt(p, i)) = Threads(p) \ {p[i].thr}
<1> DEFINE r == RemoveAt(p, i)
           n == Len(p)
<1>0. p \in Seq(Entry) /\ n \in Nat /\ DOMAIN p = 1 .. n
  BY DEF EachOnce
<1>1. p[i] \in Entry /\ p[i].thr \in Thread /\ p[i].thr \in Threads(p)
  <2>1. p[i] \in Entry
    BY <1>0
  <2> QED
    BY <2>1 DEF Entry, Threads
<1>2. r \in Seq(Entry) /\ Len(r) = n - 1 /\ \A k \in 1 .. n - 1 : r[k] = IF k < i THEN p[k] ELSE p[k + 1]
  BY <1>0, Removed
<1> HIDE DEF r, n
<1>3. DOMAIN r = 1 .. n - 1
  BY <1>0, <1>2
<1> DEFINE old(k) == IF k < i THEN k ELSE k + 1
<1>4. \A k \in 1 .. n - 1 : r[k] = p[old(k)] /\ old(k) \in DOMAIN p /\ old(k) # i
  BY <1>0, <1>2
<1>5. \A k, l \in 1 .. n - 1 : old(k) = old(l) => k = l
  BY <1>0
<1>6. \A k \in DOMAIN p : k # i => \E l \in 1 .. n - 1 : old(l) = k
  <2> SUFFICES ASSUME NEW k \in DOMAIN p, k # i PROVE \E l \in 1 .. n - 1 : old(l) = k
    OBVIOUS
  <2>1. CASE k < i
    <3>1. k \in 1 .. n - 1 /\ old(k) = k
      BY <1>0, <2>1
    <3> QED
      BY <3>1
  <2>2. CASE k > i
    <3>1. k - 1 \in 1 .. n - 1 /\ old(k - 1) = k
      BY <1>0, <2>2
    <3> QED
      BY <3>1
  <2> QED
    BY <1>0, <2>1, <2>2
<1> HIDE DEF old
<1>7. EachOnce(r)
  BY <1>2, <1>3, <1>4, <1>5 DEF EachOnce
<1>8. \A x : x \in Threads(r) <=> \E k \in 1 .. n - 1 : p[old(k)].thr = x
  BY <1>3, <1>4 DEF Threads
<1>9. ASSUME NEW x PROVE x \in Threads(r) <=> x \in Threads(p) \ {p[i].thr}
  <2>1. ASSUME x \in Threads(r) PROVE x \in Threads(p) /\ x # p[i].thr
    <3>1. PICK k \in 1 .. n - 1 : p[old(k)].thr = x
      BY <1>8, <2>1
    <3>2. old(k) \in DOMAIN p /\ old(k) # i
      BY <1>4
    <3> QED
      BY <3>1, <3>2 DEF EachOnce, Threads
  <2>2. ASSUME x \in Threads(p), x # p[i].thr PROVE x \in Threads(r)
    <3>1. PICK k \in DOMAIN p : p[k].thr = x
      BY <2>2 DEF Threads
    <3>2. PICK l \in 1 .. n - 1 : old(l) = k
      BY <1>6, <2>2, <3>1
    <3> QED
      BY <1>8, <3>1, <3>2
  <2> QED
    BY <2>1, <2>2
<1> QED
  BY <1>1, <1>7, <1>9 DEF r

\* The first of the threads that fit is one of them.
LEMMA FirstFitting ==
  ASSUME NEW T, T \subseteq Nat, T # {}
  PROVE  Min(T) \in T
<1> DEFINE R == OpToRel(<, Nat)
<1>1. IsWellFoundedOn(R, Nat)
  BY NatLessThanWellFounded, Zenon
<1>2. \A x, y \in Nat : x < y => <<x, y>> \in R
  BY DEF OpToRel
<1> HIDE DEF R
<1>3. PICK x \in T : \A y \in T : ~ (<<y, x>> \in R)
  BY <1>1, WFMin
<1>4. ASSUME NEW y \in T PROVE x <= y
  <2>1. x \in Nat /\ y \in Nat /\ ~(y < x)
    BY <1>2, <1>3
  <2> QED
    BY <2>1
<1>5. \E z \in T : \A y \in T : z <= y
  BY <1>4
<1> QED
  BY <1>5 DEF Min

-----------------------------------------------------------------------------
(***************************************************************************)
(* The threads of a simple program.  Every thread that sleeps is in one    *)
(* place: an event wakes it, or it waits for cores, a mutex or the end of  *)
(* another thread.                                                         *)
(***************************************************************************)
Woken == Of(events, WakeKinds)
Starting == Of(events, {"start"})
Deleting == Of(events, {"delete"})
CoreWaiters == Threads(pending)
LockWaiters == UNION {ToSet(waiters[m]) : m \in Mutex}
JoinWaiters == UNION {ToSet(joiners[u]) : u \in Thread}
Waiting == CoreWaiters \cup LockWaiters \cup JoinWaiters

ThreadTypes ==
  /\ active \in Thread \cup {NoThread}
  /\ waiters \in [Mutex -> Seq(Thread)]
  /\ joiners \in [Thread -> Seq(Thread)]
  /\ state \in [Thread -> {"PENDING", "ACTIVE", "DONE", "CANCELED"}]
  /\ deleted \subseteq Thread

\* What simple programs do not use.
Unused ==
  /\ Simple(prog)
  /\ conditionals = [m \in Mutex |-> <<>>]
  /\ signalled = {}
  /\ pendingQ = <<>>
  /\ \A t \in Thread : at[t] \notin {"wait", "front"}

ListInv ==
  /\ Queue(events)
  /\ EachOnce(pending)
  /\ \A m \in Mutex : NoTwice(waiters[m])
  /\ \A u \in Thread : NoTwice(joiners[u])

Homed(u) ==
  /\ u \in Woken => u \notin Waiting
  /\ u \in CoreWaiters => u \notin LockWaiters \cup JoinWaiters
  /\ u \in LockWaiters => u \notin JoinWaiters
  /\ active # u /\ at[u] \notin {"off", "end"} /\ u \notin deleted => u \in Woken \cup Waiting
  /\ u \in Woken \cup Waiting =>
       active # u /\ at[u] # "end" /\ u \notin deleted /\ (at[u] = "off" <=> u \in Starting)
  /\ u \in Starting => u \in Woken
  /\ active = u => at[u] \notin {"off", "end"} /\ u \notin deleted
  /\ u \in deleted => at[u] # "off"

HomeInv == \A u \in Thread : Homed(u)

\* A thread in a call is at that call.
CallInv ==
  \A t \in Thread : at[t] \in {"join", "lock"} => ip[t] \in DOMAIN prog[t] /\ Calling(t).op = at[t]

\* A thread that joins is in the list of the other one, which has ended
\* otherwise.
JoinInv ==
  \A t \in Thread :
    /\ \A u \in Thread : t \in ToSet(joiners[u]) => at[t] = "join" /\ Calling(t).thr = u
    /\ at[t] = "join" => \/ t \in ToSet(joiners[Calling(t).thr])
                         \/ at[Calling(t).thr] \in {"complete", "end"}

LockInv ==
  \A m \in Mutex : \A t \in ToSet(waiters[m]) : at[t] = "lock" /\ Calling(t).mut = m

EndInv ==
  \A t \in Thread :
    /\ at[t] = "complete" => active = t
    /\ state[t] = "DONE" \/ t \in Deleting => at[t] \in {"complete", "end"}

\* A subthread is started once: whoever created it is past that call.
CreatedInv ==
  \A u \in Thread :
    u \in Starting \/ (u \notin App /\ at[u] # "off") =>
      \E t \in Thread : \E i \in 1 .. (ip[t] - 1) : Creates(prog, t, i, u)

ThreadInv ==
  /\ CoreInv /\ ThreadTypes /\ Unused /\ ListInv /\ HomeInv
  /\ CallInv /\ JoinInv /\ LockInv /\ EndInv /\ CreatedInv

\* unblock from a running thread.
LEMMA Unblocked ==
  ASSUME NEW q, Queue(q), NEW t \in Thread, t \notin Of(q, WakeKinds)
  PROVE  /\ Queue(Unblock(q, t))
         /\ Of(Unblock(q, t), WakeKinds) = Of(q, WakeKinds) \cup {u \in {t} : ~Canceled(u)}
         /\ Of(Unblock(q, t), {"start"}) = Of(q, {"start"})
         /\ Of(Unblock(q, t), {"delete"}) = Of(q, {"delete"})
<1> DEFINE e == Event(0, "switch", t, 0)
<1>1. e \in EventType /\ e.kind = "switch" /\ e.thr = t /\ "switch" \in WakeKinds
  BY DEF Event, EventType, WakeKinds
<1> HIDE DEF e
<1>2. CASE Canceled(t)
  BY <1>2 DEF Unblock
<1>3. CASE ~Canceled(t)
  <2>1. Unblock(q, t) = sendDelayed(q, e)
    BY <1>3 DEF Unblock, sendNow, e
  <2>2. "switch" \notin {"start"} /\ "switch" \notin {"delete"}
    OBVIOUS
  <2>3. /\ Queue(sendDelayed(q, e))
        /\ \A kinds : Of(sendDelayed(q, e), kinds) =
                       IF e.kind \in kinds THEN Of(q, kinds) \cup {e.thr} ELSE Of(q, kinds)
    BY <1>1, Sent
  <2>4. /\ Of(sendDelayed(q, e), WakeKinds) = Of(q, WakeKinds) \cup {t}
        /\ Of(sendDelayed(q, e), {"start"}) = Of(q, {"start"})
        /\ Of(sendDelayed(q, e), {"delete"}) = Of(q, {"delete"})
    BY <1>1, <2>2, <2>3
  <2> QED
    BY <1>3, <2>1, <2>3, <2>4
<1> QED
  BY <1>2, <1>3

\* releaseCores: a thread that waits for cores is woken, or deleted if it
\* was canceled, or nothing happens.
LEMMA Released ==
  ASSUME EachOnce(pending), deleted \subseteq Thread, NEW q, Queue(q), Of(q, WakeKinds) \cap CoreWaiters = {},
         NEW n, NEW t, releaseCores(n, t, q)
  PROVE  /\ EachOnce(pending)' /\ Queue(events') /\ deleted' \subseteq Thread
         /\ Starting' = Of(q, {"start"}) /\ Deleting' = Of(q, {"delete"})
         /\ \/ CoreWaiters' = CoreWaiters /\ Woken' = Of(q, WakeKinds) /\ deleted' = deleted
            \/ \E u \in CoreWaiters :
                 /\ CoreWaiters' = CoreWaiters \ {u}
                 /\ Woken' = Of(q, WakeKinds) \cup {v \in {u} : ~Canceled(v)}
                 /\ deleted' = deleted \cup {v \in {u} : Canceled(v)}
<1> DEFINE fit == Fitting(Free + n)
           k == Min(fit)
           u == pending[k].thr
<1>0. pending \in Seq(Entry)
  BY DEF EachOnce
<1>1. fit \subseteq DOMAIN pending /\ fit \subseteq Nat
  BY <1>0 DEF Fitting
<1>2. CASE fit = {}
  <2>1. events' = q /\ UNCHANGED <<pending, deleted>>
    BY <1>2 DEF releaseCores
  <2> QED
    BY <2>1 DEF CoreWaiters, Woken, Starting, Deleting
<1>3. CASE fit # {}
  <2>1. pending' = RemoveAt(pending, k) /\ events' = Unblock(q, u)
        /\ deleted' = deleted \cup {v \in {u} : Canceled(v)}
    BY <1>3 DEF releaseCores, Erase, Delete
  <2>2. k \in DOMAIN pending
    <3> HIDE DEF fit
    <3>1. k \in fit
      BY <1>1, <1>3, FirstFitting
    <3> QED
      BY <1>1, <3>1
  <2> HIDE DEF k, fit
  <2>3. /\ u \in Thread /\ u \in CoreWaiters /\ EachOnce(pending')
        /\ Threads(pending') = CoreWaiters \ {u}
    BY <2>1, <2>2, RemoveEntry DEF CoreWaiters
  <2>4. u \notin Of(q, WakeKinds)
    BY <2>3
  <2> HIDE DEF u
  <2>5. /\ Queue(events')
        /\ Of(events', WakeKinds) = Of(q, WakeKinds) \cup {v \in {u} : ~Canceled(v)}
        /\ Of(events', {"start"}) = Of(q, {"start"})
        /\ Of(events', {"delete"}) = Of(q, {"delete"})
    BY <2>1, <2>3, <2>4, Unblocked
  <2>6. /\ CoreWaiters' = CoreWaiters \ {u}
        /\ Woken' = Of(q, WakeKinds) \cup {v \in {u} : ~Canceled(v)}
        /\ Starting' = Of(q, {"start"}) /\ Deleting' = Of(q, {"delete"})
    BY <2>3, <2>5 DEF CoreWaiters, Woken, Starting, Deleting, Threads
  <2>7. deleted' \subseteq Thread
    BY <2>1, <2>3
  <2>8. EachOnce(pending)'
    BY <2>3 DEF EachOnce
  <2> QED
    BY <2>1, <2>3, <2>5, <2>6, <2>7, <2>8
<1> QED
  BY <1>2, <1>3

(***************************************************************************)
(* A step of thread t, part by part.                                       *)
(***************************************************************************)
Moved(t) ==
  /\ prog' = prog
  /\ at' \in [Thread -> Places] /\ ip' \in [Thread -> Nat \ {0}]
  /\ \A u \in Thread \ {t} : at'[u] = at[u] /\ ip'[u] = ip[u]
  /\ ip'[t] \in {ip[t], ip[t] + 1}

LEMMA KeepsUnused ==
  ASSUME Unused, NEW t \in Thread, Moved(t), UNCHANGED <<conditionals, signalled, pendingQ>>,
         at'[t] \notin {"wait", "front"}
  PROVE  Unused'
  BY DEF Unused, Moved

LEMMA KeepsCall ==
  ASSUME CallInv, NEW t \in Thread, Moved(t),
         at'[t] \in {"join", "lock"} => /\ ip'[t] = ip[t]
                                        /\ \/ at'[t] = at[t]
                                           \/ ip[t] \in DOMAIN prog[t] /\ Calling(t).op = at'[t]
  PROVE  CallInv'
  BY DEF CallInv, Moved, Calling

\* What a thread that joins waits for is a thread.
LEMMA JoinedThread ==
  ASSUME Unused, CallInv, NEW t \in Thread, at[t] = "join"
  PROVE  Calling(t).thr \in Thread /\ Calling(t).op = "join"
  BY DEF Unused, CallInv, Calling, Simple

LEMMA KeepsJoin ==
  ASSUME Unused, CallInv, JoinInv, NEW t \in Thread, Moved(t), t \notin JoinWaiters, joiners' = joiners,
         at'[t] = "join" => at[t] = "join" /\ ip'[t] = ip[t],
         at[t] \in {"complete", "end"} => at'[t] \in {"complete", "end"}
  PROVE  JoinInv'
<1>1. \A u \in Thread : t \notin ToSet(joiners[u])
  BY DEF JoinWaiters
<1>2. \A v \in Thread : at[v] \in {"complete", "end"} => at'[v] \in {"complete", "end"}
  BY DEF Moved
<1>3. \A v \in Thread : ip'[v] = ip[v] => Calling(v)' = Calling(v)
  BY DEF Moved, Calling
<1> SUFFICES ASSUME NEW v \in Thread
             PROVE  /\ \A u \in Thread : v \in ToSet(joiners[u]) => at'[v] = "join" /\ Calling(v).thr' = u
                    /\ at'[v] = "join" => \/ v \in ToSet(joiners[Calling(v).thr'])
                                          \/ at'[Calling(v).thr'] \in {"complete", "end"}
  BY DEF JoinInv
<1>4. v # t => at'[v] = at[v] /\ Calling(v)' = Calling(v)
  BY <1>3 DEF Moved
<1>5. ASSUME NEW u \in Thread, v \in ToSet(joiners[u]) PROVE at'[v] = "join" /\ Calling(v).thr' = u
  BY <1>1, <1>4, <1>5 DEF JoinInv
<1>6. ASSUME at'[v] = "join" PROVE \/ v \in ToSet(joiners[Calling(v).thr'])
                                   \/ at'[Calling(v).thr'] \in {"complete", "end"}
  <2>1. at[v] = "join" /\ Calling(v)' = Calling(v)
    BY <1>3, <1>4, <1>6
  <2>2. Calling(v).thr \in Thread
    BY <2>1, JoinedThread
  <2> QED
    BY <1>2, <2>1, <2>2 DEF JoinInv
<1> QED
  BY <1>5, <1>6

LEMMA KeepsLock ==
  ASSUME LockInv, ThreadTypes, NEW t \in Thread, Moved(t), t \notin LockWaiters,
         \A m \in Mutex : ToSet(waiters'[m]) \subseteq ToSet(waiters[m]) /\ ToSet(waiters[m]) \subseteq Thread
  PROVE  LockInv'
<1> SUFFICES ASSUME NEW m \in Mutex, NEW v \in ToSet(waiters'[m]) PROVE at'[v] = "lock" /\ Calling(v).mut' = m
  BY DEF LockInv
<1>1. v \in ToSet(waiters[m]) /\ v \in Thread
  OBVIOUS
<1>2. v # t
  BY <1>1 DEF LockWaiters
<1> QED
  BY <1>1, <1>2 DEF LockInv, Moved, Calling

LEMMA KeepsEnd ==
  ASSUME EndInv, NEW t \in Thread, Moved(t), active \in {t, NoThread}, at'[t] # "complete",
         NoThread \notin Thread,
         at[t] \in {"complete", "end"} => at'[t] = "end",
         \A v \in Thread : state'[v] = "DONE" => state[v] = "DONE",
         Deleting' \subseteq Deleting
  PROVE  EndInv'
  BY DEF EndInv, Moved

LEMMA KeepsCreated ==
  ASSUME CoreTypes, CreatedInv, NEW t \in Thread, Moved(t), Starting' \subseteq Starting,
         at[t] = "off" => at'[t] = "off"
  PROVE  CreatedInv'
<1> SUFFICES ASSUME NEW u \in Thread, u \in Starting' \/ (u \notin App /\ at'[u] # "off")
             PROVE  \E v \in Thread : \E i \in 1 .. (ip'[v] - 1) : Creates(prog', v, i, u)
  BY DEF CreatedInv
<1>1. u \in Starting \/ (u \notin App /\ at[u] # "off")
  BY DEF Moved
<1>2. PICK v \in Thread : \E i \in 1 .. (ip[v] - 1) : Creates(prog, v, i, u)
  BY <1>1 DEF CreatedInv
<1>3. PICK i \in 1 .. (ip[v] - 1) : Creates(prog, v, i, u)
  BY <1>2
<1>4. ip[v] \in Nat /\ (ip'[v] = ip[v] \/ ip'[v] = ip[v] + 1)
  BY DEF Moved, CoreTypes
<1>5. i \in 1 .. (ip'[v] - 1)
  BY <1>4
<1> QED
  BY <1>3, <1>5 DEF Moved

(***************************************************************************)
(* The places of the threads.                                              *)
(***************************************************************************)
Stays(u) ==
  /\ u \in Woken' <=> u \in Woken
  /\ u \in CoreWaiters' <=> u \in CoreWaiters
  /\ u \in LockWaiters' <=> u \in LockWaiters
  /\ u \in JoinWaiters' <=> u \in JoinWaiters
  /\ u \in Starting' <=> u \in Starting
  /\ u \in deleted => u \in deleted'
  /\ u \in deleted' => u \in deleted \/ at[u] = "end"

\* A thread that waited is woken or deleted.
Freed(u) ==
  /\ u \in Waiting /\ u \notin CoreWaiters' \cup LockWaiters' \cup JoinWaiters'
  /\ u \notin Starting' \/ u \in Starting
  /\ u \in Woken' <=> u \notin deleted'

\* A thread that never ran is started.
Born(u) ==
  /\ at[u] = "off" /\ u \in Woken' /\ u \in Starting'
  /\ u \notin CoreWaiters' \cup LockWaiters' \cup JoinWaiters' \cup deleted'

RunsOn(t) ==
  /\ active' = t
  /\ t \notin Woken' \cup CoreWaiters' \cup LockWaiters' \cup JoinWaiters' \cup Starting' \cup deleted'

Rests(t) ==
  /\ active' = NoThread
  /\ t \notin Starting' /\ t \notin deleted'
  /\ \/ t \in Woken' /\ t \notin CoreWaiters' \cup LockWaiters' \cup JoinWaiters'
     \/ t \in CoreWaiters' /\ t \notin Woken' \cup LockWaiters' \cup JoinWaiters'
     \/ t \in LockWaiters' /\ t \notin Woken' \cup CoreWaiters' \cup JoinWaiters'
     \/ t \in JoinWaiters' /\ t \notin Woken' \cup CoreWaiters' \cup LockWaiters'

\* Waiting threads have started.
LEMMA WaitingStarted ==
  ASSUME ThreadInv, NEW u \in Thread, u \in Waiting
  PROVE  u \notin Starting /\ at[u] # "off"
  BY DEF ThreadInv, HomeInv, Homed

LEMMA HomeStep ==
  ASSUME ThreadInv, NEW t \in Thread, Moved(t), active = t, at'[t] \notin {"off", "end"},
         \A u \in Thread \ {t} : Stays(u) \/ Freed(u) \/ Born(u),
         RunsOn(t) \/ Rests(t)
  PROVE  HomeInv'
<1>0. NoThread \notin Thread
  BY ConstantAssumption DEF ConstantAssumption
<1> SUFFICES ASSUME NEW u \in Thread PROVE Homed(u)'
  BY DEF HomeInv
<1>1. Homed(u)
  BY DEF ThreadInv, HomeInv
<1>2. CASE u = t
  BY <1>0, <1>2 DEF Homed, Waiting, RunsOn, Rests
<1>3. CASE u # t /\ Stays(u)
  <2>1. at'[u] = at[u] /\ active # u /\ active' # u
    BY <1>0, <1>3 DEF Moved, RunsOn, Rests
  <2> QED
    BY <1>1, <1>3, <2>1 DEF Homed, Waiting, Stays
<1>4. CASE u # t /\ Freed(u)
  <2>1. at'[u] = at[u] /\ active # u /\ active' # u
    BY <1>0, <1>4 DEF Moved, RunsOn, Rests
  <2>2. u \notin Starting /\ at[u] # "off"
    BY <1>4, WaitingStarted DEF Freed
  <2> QED
    BY <1>1, <1>4, <2>1, <2>2 DEF Homed, Waiting, Freed
<1>5. CASE u # t /\ Born(u)
  <2>1. at'[u] = at[u] /\ active' # u
    BY <1>0, <1>5 DEF Moved, RunsOn, Rests
  <2> QED
    BY <1>5, <2>1 DEF Homed, Waiting, Born
<1> QED
  BY <1>2, <1>3, <1>4, <1>5

\* The running thread is nowhere else.
LEMMA ActiveThread ==
  ASSUME ThreadInv, NEW t \in Thread, active = t
  PROVE  /\ t \notin Woken \cup CoreWaiters \cup LockWaiters \cup JoinWaiters
         /\ t \notin Starting /\ t \notin deleted /\ at[t] \notin {"off", "end"}
  BY DEF ThreadInv, HomeInv, Homed, Waiting

\* Who waits for cores has no event.
LEMMA WokenApart ==
  ASSUME ThreadInv
  PROVE  /\ Woken \subseteq Thread /\ CoreWaiters \subseteq Thread
         /\ LockWaiters \subseteq Thread /\ JoinWaiters \subseteq Thread
         /\ Woken \cap CoreWaiters = {} /\ Woken \cap LockWaiters = {} /\ Woken \cap JoinWaiters = {}
         /\ \A m \in Mutex : ToSet(waiters[m]) \subseteq Thread
         /\ \A u \in Thread : ToSet(joiners[u]) \subseteq Thread
<1>1. Woken \subseteq Thread
  <2>1. \A k \in DOMAIN events : events[k].thr \in Thread
    <3>1. events \in Seq(EventType)
      BY DEF ThreadInv, ListInv, Queue
    <3>2. \A k \in DOMAIN events : events[k] \in EventType
      BY <3>1
    <3> QED
      BY <3>2 DEF EventType
  <2> QED
    BY <2>1 DEF Woken, Of
<1>2. CoreWaiters \subseteq Thread
  <2>1. pending \in Seq(Entry)
    BY DEF ThreadInv, ListInv, EachOnce
  <2>2. \A k \in DOMAIN pending : pending[k] \in Entry
    BY <2>1
  <2> QED
    BY <2>2 DEF CoreWaiters, Threads, Entry
<1>3. ASSUME NEW s \in Seq(Thread) PROVE ToSet(s) \subseteq Thread
  BY DEF ToSet
<1>4. \A m \in Mutex : ToSet(waiters[m]) \subseteq Thread
  BY <1>3 DEF ThreadInv, ThreadTypes
<1>5. \A u \in Thread : ToSet(joiners[u]) \subseteq Thread
  BY <1>3 DEF ThreadInv, ThreadTypes
<1>6. LockWaiters \subseteq Thread /\ JoinWaiters \subseteq Thread
  BY <1>4, <1>5 DEF LockWaiters, JoinWaiters
<1>7. \A u \in Thread : u \in Woken => u \notin CoreWaiters /\ u \notin LockWaiters /\ u \notin JoinWaiters
  BY DEF ThreadInv, HomeInv, Homed, Waiting
<1> QED
  BY <1>1, <1>2, <1>4, <1>5, <1>6, <1>7

(***************************************************************************)
(* Steps of a running thread that leave the lists of mutexes and joins.    *)
(***************************************************************************)
LEMMA CalmStep ==
  ASSUME ThreadInv, CoreInv', NEW t \in Thread, Moved(t), active = t,
         UNCHANGED <<waiters, joiners, state, conditionals, signalled, pendingQ>>,
         active' \in {t, NoThread}, deleted' \subseteq Thread,
         at[t] # "complete", at'[t] \notin {"off", "end", "complete", "wait", "front"},
         at'[t] \in {"join", "lock"} => at'[t] = at[t] /\ ip'[t] = ip[t],
         Queue(events'), EachOnce(pending'), Starting' = Starting, Deleting' = Deleting,
         \A u \in Thread \ {t} : Stays(u) \/ Freed(u),
         RunsOn(t) \/ Rests(t)
  PROVE  ThreadInv'
<1> USE DEF ThreadInv
<1>0. NoThread \notin Thread
  BY ConstantAssumption DEF ConstantAssumption
<1>1. /\ t \notin Woken \cup CoreWaiters \cup LockWaiters \cup JoinWaiters
      /\ at[t] \notin {"off", "end"}
  BY ActiveThread
<1>2. ThreadTypes'
  BY DEF ThreadTypes
<1>3. Unused'
  BY KeepsUnused
<1>4. ListInv'
  <2>1. Queue(events)' /\ EachOnce(pending)'
    BY DEF Queue, EachOnce, OneEach
  <2> QED
    BY <2>1 DEF ListInv, NoTwice
<1>5. HomeInv'
  BY HomeStep
<1>6. CallInv'
  BY KeepsCall
<1>7. JoinInv'
  BY <1>1, KeepsJoin
<1>8. LockInv'
  BY <1>1, KeepsLock, WokenApart
<1>9. EndInv'
  BY <1>0, <1>1, KeepsEnd
<1>10. CreatedInv'
  BY <1>1, KeepsCreated DEF CoreInv
<1> QED
  BY <1>2, <1>3, <1>4, <1>5, <1>6, <1>7, <1>8, <1>9, <1>10

\* ... and wake nobody.
LEMMA StillStep ==
  ASSUME ThreadInv, CoreInv', NEW t \in Thread, Moved(t), active = t,
         UNCHANGED <<active, events, pending, waiters, joiners, state, conditionals, signalled,
                     pendingQ>>,
         deleted' \subseteq Thread, deleted \subseteq deleted', \A u \in deleted' \ deleted : at[u] = "end",
         at[t] # "complete", at'[t] \notin {"off", "end", "complete", "wait", "front"},
         at'[t] \in {"join", "lock"} => at'[t] = at[t] /\ ip'[t] = ip[t]
  PROVE  ThreadInv'
<1>1. /\ t \notin Woken \cup CoreWaiters \cup LockWaiters \cup JoinWaiters
      /\ t \notin Starting /\ t \notin deleted /\ at[t] \notin {"off", "end"}
  BY ActiveThread
<1>2. /\ Woken' = Woken /\ CoreWaiters' = CoreWaiters /\ LockWaiters' = LockWaiters
      /\ JoinWaiters' = JoinWaiters /\ Starting' = Starting /\ Deleting' = Deleting
  BY DEF Woken, CoreWaiters, LockWaiters, JoinWaiters, Starting, Deleting
<1>3. \A u \in Thread \ {t} : Stays(u)
  BY <1>2 DEF Stays
<1>4. RunsOn(t)
  BY <1>1, <1>2 DEF RunsOn
<1>5. Queue(events') /\ EachOnce(pending')
  BY DEF ThreadInv, ListInv
<1> QED
  BY <1>2, <1>3, <1>4, <1>5, CalmStep

LEMMA MovedBy ==
  ASSUME CoreInv, CoreInv', NEW t \in Thread, prog' = prog, NEW label, at' = [at EXCEPT ![t] = label], ip' = ip
  PROVE  Moved(t) /\ at'[t] = label /\ ip'[t] = ip[t]
  BY DEF CoreInv, CoreTypes, Moved

LEMMA ReturnMoves ==
  ASSUME CoreInv, CoreInv', NEW t \in Thread, prog' = prog, Return(t)
  PROVE  Moved(t) /\ at'[t] = "ready"
  BY DEF CoreInv, CoreTypes, Moved, Return

LEMMA BlockMoves ==
  ASSUME CoreInv, CoreInv', NEW t \in Thread, prog' = prog, NEW label, Block(t, label), ip' = ip
  PROVE  Moved(t) /\ at'[t] = label /\ ip'[t] = ip[t] /\ active' = NoThread
  BY DEF CoreInv, CoreTypes, Moved, Block

\* Calls that only return, and parts of calls after which the thread goes on.
LEMMA ReturnStep ==
  ASSUME ThreadInv, CoreInv', NEW t \in Thread, active = t, at[t] # "complete", prog' = prog, Return(t),
         UNCHANGED <<active, events, pending, waiters, joiners, state, conditionals, signalled,
                     pendingQ, deleted>>
  PROVE  ThreadInv'
<1>1. Moved(t) /\ at'[t] = "ready"
  BY ReturnMoves DEF ThreadInv
<1>2. deleted \subseteq Thread
  BY DEF ThreadInv, ThreadTypes
<1> QED
  BY <1>1, <1>2, StillStep

LEMMA ExecuteStep ==
  ASSUME ThreadInv, CoreInv', NEW t \in Thread, Execute(t)
  PROVE  ThreadInv'
<1>1. PICK label \in {"execute", "run"} : at' = [at EXCEPT ![t] = label]
  BY DEF Execute
<1>2. Moved(t) /\ at'[t] = label
  BY <1>1, MovedBy DEF ThreadInv, Execute
<1>3. deleted \subseteq Thread
  BY DEF ThreadInv, ThreadTypes
<1>4. active = t /\ at[t] = "ready"
  BY DEF Execute, Calls, Running
<1>5. UNCHANGED <<active, events, pending, waiters, joiners, state, conditionals, signalled,
                  pendingQ, deleted>>
  BY DEF Execute, schedVars, mutexVars, queueVars, lifeVars
<1> QED
  BY <1>2, <1>3, <1>4, <1>5, StillStep

\* A thread that was woken to end its join finds the other one at its end.
LEMMA JoinedEnded ==
  ASSUME ThreadInv, NEW t \in Thread, active = t, at[t] = "join"
  PROVE  Calling(t).thr \in Thread /\ at[Calling(t).thr] = "end"
<1>1. Calling(t).thr \in Thread
  BY JoinedThread DEF ThreadInv
<1>2. t \notin ToSet(joiners[Calling(t).thr])
  BY <1>1, ActiveThread DEF JoinWaiters
<1>3. at[Calling(t).thr] \in {"complete", "end"}
  BY <1>2 DEF ThreadInv, JoinInv
<1>4. at[Calling(t).thr] # "complete"
  BY <1>1 DEF ThreadInv, EndInv
<1> QED
  BY <1>1, <1>3, <1>4

LEMMA ReserveStep ==
  ASSUME ThreadInv, CoreInv', NEW t \in Thread, ReserveCores(t)
  PROVE  ThreadInv'
<1>0. /\ active = t /\ at[t] \in Reserving
      /\ UNCHANGED <<prog, events, waiters, conditionals, signalled, pendingQ>>
  BY DEF ReserveCores, Running, Reserving, mutexVars, queueVars
<1>1. deleted \subseteq Thread
  BY DEF ThreadInv, ThreadTypes
<1>2. CASE ~Enough(t)
  <2> DEFINE e == [n |-> want[t], thr |-> t]
  <2>1. /\ pending' = Append(pending, e)
        /\ Block(t, at[t])
        /\ UNCHANGED <<ip, joiners, state, deleted>>
    BY <1>2 DEF ReserveCores, reserveCores, lifeVars
  <2>2. e \in Entry /\ e.thr = t
    BY DEF Entry, ThreadInv, CoreInv, CoreTypes
  <2> HIDE DEF e
  <2>3. /\ t \notin Woken \cup CoreWaiters \cup LockWaiters \cup JoinWaiters
        /\ t \notin Starting /\ t \notin deleted
    BY <1>0, ActiveThread
  <2>4. EachOnce(pending') /\ Threads(pending') = CoreWaiters \cup {t}
    BY <2>1, <2>2, <2>3, AppendEntry DEF ThreadInv, ListInv, CoreWaiters
  <2>5. /\ Woken' = Woken /\ LockWaiters' = LockWaiters /\ CoreWaiters' = CoreWaiters \cup {t}
        /\ JoinWaiters' = JoinWaiters /\ Starting' = Starting /\ Deleting' = Deleting
    BY <1>0, <2>1, <2>4 DEF Woken, CoreWaiters, LockWaiters, JoinWaiters, Starting, Deleting, Threads
  <2>6. \A u \in Thread \ {t} : Stays(u)
    BY <2>1, <2>5 DEF Stays
  <2>7. Moved(t) /\ at'[t] = at[t] /\ ip'[t] = ip[t] /\ active' = NoThread
    BY <1>0, <2>1, BlockMoves DEF ThreadInv
  <2>8. Rests(t)
    BY <2>1, <2>3, <2>5, <2>7 DEF Rests
  <2>9. Queue(events')
    BY <1>0 DEF ThreadInv, ListInv
  <2>10. at[t] \notin {"off", "end", "complete", "wait", "front"}
    BY <1>0 DEF Reserving
  <2> QED
    BY <1>0, <1>1, <2>1, <2>4, <2>5, <2>6, <2>7, <2>8, <2>9, <2>10, CalmStep
<1>3. CASE Enough(t)
  <2>1. UNCHANGED <<active, pending, state, joiners>>
    BY <1>0, <1>3 DEF ReserveCores, reserveCores, DeleteJoined, lifeVars, Reserving
  <2>2. /\ at[t] = "guard" => at' = [at EXCEPT ![t] = "ready"] /\ UNCHANGED <<ip, deleted>>
        /\ at[t] = "execute" => at' = [at EXCEPT ![t] = "run"] /\ UNCHANGED <<ip, deleted>>
        /\ at[t] = "sleep" => Return(t) /\ UNCHANGED deleted
        /\ at[t] = "join" => Return(t) /\ deleted' = deleted \cup {Calling(t).thr}
    BY <1>3 DEF ReserveCores, reserveCores, DeleteJoined, lifeVars, Delete
  <2>3. Moved(t) /\ at'[t] \in {"ready", "run"}
    BY <1>0, <2>2, ReturnMoves, MovedBy DEF ThreadInv, Reserving
  <2>4. deleted' \subseteq Thread /\ deleted \subseteq deleted' /\ \A u \in deleted' \ deleted : at[u] = "end"
    BY <1>0, <1>1, <2>2, JoinedEnded DEF Reserving
  <2>5. at[t] # "complete"
    BY <1>0 DEF Reserving
  <2> QED
    BY <1>0, <2>1, <2>3, <2>4, <2>5, StillStep
<1> QED
  BY <1>2, <1>3

\* compute, and a computation on several cores: an event wakes the thread.
LEMMA TimedStep ==
  ASSUME ThreadInv, CoreInv', NEW t \in Thread, Compute(t) \/ ExecuteRun(t)
  PROVE  ThreadInv'
<1>0. /\ active = t /\ at[t] \in {"ready", "run"}
      /\ UNCHANGED <<prog, ip, pending, waiters, joiners, state, deleted, conditionals, signalled,
                     pendingQ>>
  BY DEF Compute, ExecuteRun, Calls, Running, schedVars, mutexVars, queueVars, lifeVars
<1>1. PICK label \in {"return", "ran"} : Block(t, label)
  BY DEF Compute, ExecuteRun
<1>2. PICK d \in Durations : events' = sendDelayed(events, Event(d, "unblock", t, 0))
  BY DEF Compute, ExecuteRun
<1> DEFINE e == Event(d, "unblock", t, 0)
<1>3. e \in EventType /\ e.kind = "unblock" /\ e.thr = t /\ "unblock" \in WakeKinds
  BY ConstantAssumption DEF Event, EventType, WakeKinds, ConstantAssumption
<1> HIDE DEF e
<1>4. /\ t \notin Woken \cup CoreWaiters \cup LockWaiters \cup JoinWaiters
      /\ t \notin Starting /\ t \notin deleted
  BY <1>0, ActiveThread
<1>5. /\ Queue(events')
      /\ \A kinds : Of(events', kinds) = IF e.kind \in kinds THEN Of(events, kinds) \cup {e.thr} ELSE Of(events, kinds)
  <2>1. Queue(events) /\ e.thr \notin Of(events, WakeKinds) /\ events' = sendDelayed(events, e)
    BY <1>2, <1>3, <1>4 DEF ThreadInv, ListInv, Woken, e
  <2> QED
    BY <1>3, <2>1, Sent
<1>6. /\ Woken' = Woken \cup {t} /\ CoreWaiters' = CoreWaiters /\ LockWaiters' = LockWaiters
      /\ JoinWaiters' = JoinWaiters /\ Starting' = Starting /\ Deleting' = Deleting
  <2>1. "unblock" \notin {"start"} /\ "unblock" \notin {"delete"}
    OBVIOUS
  <2>2. Of(events', WakeKinds) = Woken \cup {t} /\ Of(events', {"start"}) = Starting /\ Of(events', {"delete"}) = Deleting
    BY <1>3, <1>5, <2>1 DEF Woken, Starting, Deleting
  <2> QED
    BY <1>0, <2>2 DEF Woken, CoreWaiters, LockWaiters, JoinWaiters, Starting, Deleting
<1>7. \A u \in Thread \ {t} : Stays(u)
  BY <1>0, <1>6 DEF Stays
<1>8. Moved(t) /\ at'[t] = label /\ ip'[t] = ip[t] /\ active' = NoThread
  BY <1>0, <1>1, BlockMoves DEF ThreadInv
<1>9. Rests(t)
  BY <1>0, <1>4, <1>6, <1>8 DEF Rests
<1>10. EachOnce(pending') /\ deleted' \subseteq Thread
  BY <1>0 DEF ThreadInv, ListInv, ThreadTypes
<1> QED
  BY <1>0, <1>5, <1>6, <1>7, <1>8, <1>9, <1>10, CalmStep

\* A release wakes one thread that waits for cores, or none.
LEMMA ReleaseFrees ==
  ASSUME ThreadInv, NEW t \in Thread, active = t, NEW n, NEW q, Queue(q), Of(q, WakeKinds) \cap CoreWaiters = {},
         releaseCores(n, t, q), UNCHANGED waiters
  PROVE  /\ EachOnce(pending') /\ Queue(events') /\ deleted' \subseteq Thread
         /\ Starting' = Of(q, {"start"}) /\ Deleting' = Of(q, {"delete"})
         /\ t \in Woken' <=> t \in Of(q, WakeKinds)
         /\ t \notin CoreWaiters' /\ t \notin LockWaiters' /\ t \notin deleted'
         /\ \A u \in Thread \ {t} :
              (/\ u \in Of(q, WakeKinds) <=> u \in Woken
               /\ u \in Of(q, {"start"}) <=> u \in Starting
               /\ u \in JoinWaiters' <=> u \in JoinWaiters) => Stays(u) \/ Freed(u)
<1>0. EachOnce(pending) /\ deleted \subseteq Thread
  BY DEF ThreadInv, ListInv, ThreadTypes
<1>1. /\ EachOnce(pending)' /\ Queue(events') /\ deleted' \subseteq Thread
      /\ Starting' = Of(q, {"start"}) /\ Deleting' = Of(q, {"delete"})
      /\ \/ CoreWaiters' = CoreWaiters /\ Woken' = Of(q, WakeKinds) /\ deleted' = deleted
         \/ \E u \in CoreWaiters :
              /\ CoreWaiters' = CoreWaiters \ {u}
              /\ Woken' = Of(q, WakeKinds) \cup {v \in {u} : ~Canceled(v)}
              /\ deleted' = deleted \cup {v \in {u} : Canceled(v)}
  BY <1>0, Released
<1>2. /\ t \notin Woken \cup CoreWaiters \cup LockWaiters \cup JoinWaiters
      /\ t \notin Starting /\ t \notin deleted
  BY ActiveThread
<1>3. LockWaiters' = LockWaiters
  BY DEF LockWaiters
<1>4. EachOnce(pending')
  BY <1>1 DEF EachOnce
<1>5. CASE CoreWaiters' = CoreWaiters /\ Woken' = Of(q, WakeKinds) /\ deleted' = deleted
  BY <1>1, <1>2, <1>3, <1>4, <1>5 DEF Stays
<1>6. ASSUME NEW v \in CoreWaiters,
             CoreWaiters' = CoreWaiters \ {v},
             Woken' = Of(q, WakeKinds) \cup {w \in {v} : ~Canceled(w)},
             deleted' = deleted \cup {w \in {v} : Canceled(w)}
      PROVE  /\ t \in Woken' <=> t \in Of(q, WakeKinds)
             /\ t \notin CoreWaiters' /\ t \notin LockWaiters' /\ t \notin deleted'
             /\ \A u \in Thread \ {t} :
                  (/\ u \in Of(q, WakeKinds) <=> u \in Woken
                   /\ u \in Of(q, {"start"}) <=> u \in Starting
                   /\ u \in JoinWaiters' <=> u \in JoinWaiters) => Stays(u) \/ Freed(u)
  <2>1. v # t
    BY <1>2
  <2>2. ASSUME NEW u \in Thread \ {t}, u \in Of(q, WakeKinds) <=> u \in Woken,
               u \in Of(q, {"start"}) <=> u \in Starting, u \in JoinWaiters' <=> u \in JoinWaiters
        PROVE  Stays(u) \/ Freed(u)
    <3>1. CASE u = v
      <4>1. u \notin Woken \cup LockWaiters \cup JoinWaiters /\ u \notin deleted
        BY <1>6, <3>1 DEF ThreadInv, HomeInv, Homed, Waiting
      <4>2. Freed(u)
        BY <1>1, <1>3, <1>6, <2>2, <3>1, <4>1 DEF Freed, Waiting
      <4> QED
        BY <4>2
    <3>2. CASE u # v
      BY <1>1, <1>3, <1>6, <2>2, <3>2 DEF Stays
    <3> QED
      BY <3>1, <3>2
  <2> QED
    BY <1>2, <1>3, <1>6, <2>1, <2>2
<1> QED
  BY <1>1, <1>4, <1>5, <1>6

\* The end of execute, and the end of the thread's function.
LEMMA ReleaseStep ==
  ASSUME ThreadInv, CoreInv', NEW t \in Thread, ExecuteDone(t) \/ Exit(t)
  PROVE  ThreadInv'
<1>0. /\ active = t /\ at[t] \in {"ran", "ready"}
      /\ UNCHANGED <<prog, active, waiters, joiners, state, conditionals, signalled, pendingQ>>
  BY DEF ExecuteDone, Exit, Running, mutexVars, queueVars
<1>1. Moved(t) /\ at'[t] \in {"ready", "cleanup"}
  <2>1. CASE ExecuteDone(t)
    BY <1>0, <2>1, ReturnMoves DEF ExecuteDone, ThreadInv
  <2>2. CASE Exit(t)
    BY <1>0, <2>2, MovedBy DEF Exit, ThreadInv
  <2> QED
    BY <2>1, <2>2
<1>2. CASE \E n : releaseCores(n, t, events)
  <2>1. PICK n : releaseCores(n, t, events)
    BY <1>2
  <2>2. Queue(events) /\ Of(events, WakeKinds) \cap CoreWaiters = {}
    BY WokenApart DEF ThreadInv, ListInv, Woken
  <2>3. /\ EachOnce(pending') /\ Queue(events') /\ deleted' \subseteq Thread
        /\ Starting' = Of(events, {"start"}) /\ Deleting' = Of(events, {"delete"})
        /\ t \in Woken' <=> t \in Of(events, WakeKinds)
        /\ t \notin CoreWaiters' /\ t \notin LockWaiters' /\ t \notin deleted'
        /\ \A u \in Thread \ {t} :
             (/\ u \in Of(events, WakeKinds) <=> u \in Woken
              /\ u \in Of(events, {"start"}) <=> u \in Starting
              /\ u \in JoinWaiters' <=> u \in JoinWaiters) => Stays(u) \/ Freed(u)
    BY <1>0, <2>1, <2>2, ReleaseFrees
  <2>4. JoinWaiters' = JoinWaiters /\ Starting' = Starting /\ Deleting' = Deleting
    BY <1>0, <2>3 DEF JoinWaiters, Starting, Deleting
  <2>5. \A u \in Thread \ {t} : Stays(u) \/ Freed(u)
    BY <2>3, <2>4 DEF Woken, Starting
  <2>6. RunsOn(t)
    <3>1. t \notin Woken /\ t \notin JoinWaiters /\ t \notin Starting
      BY <1>0, ActiveThread
    <3> QED
      BY <1>0, <2>3, <2>4, <3>1 DEF RunsOn, Woken
  <2> QED
    BY <1>0, <1>1, <2>3, <2>4, <2>5, <2>6, CalmStep
<1>3. CASE ExecuteDone(t) /\ ~(want[t] > 0)
  <2>1. UNCHANGED <<pending, events, deleted>> /\ Return(t) /\ at[t] # "complete"
    BY <1>0, <1>3 DEF ExecuteDone, schedVars
  <2> QED
    BY <1>0, <2>1, ReturnStep
<1> QED
  BY <1>2, <1>3 DEF ExecuteDone, Exit

LEMMA SleepStep ==
  ASSUME ThreadInv, CoreInv', NEW t \in Thread, Sleep(t)
  PROVE  ThreadInv'
<1>0. /\ active = t /\ at[t] = "ready" /\ Block(t, "sleep")
      /\ UNCHANGED <<prog, ip, waiters, joiners, state, conditionals, signalled, pendingQ>>
  BY DEF Sleep, Calls, Running, mutexVars, queueVars
<1>1. PICK d \in Durations : releaseCores(cores[t], t, sendDelayed(events, Event(d, "unblock", t, 0)))
  BY DEF Sleep
<1> DEFINE e == Event(d, "unblock", t, 0)
           q == sendDelayed(events, e)
<1>2. e \in EventType /\ e.kind = "unblock" /\ e.thr = t /\ "unblock" \in WakeKinds
  BY ConstantAssumption DEF Event, EventType, WakeKinds, ConstantAssumption
<1> HIDE DEF e
<1>3. /\ t \notin Woken \cup CoreWaiters \cup LockWaiters \cup JoinWaiters
      /\ t \notin Starting /\ t \notin deleted
  BY <1>0, ActiveThread
<1>4. /\ Queue(q)
      /\ \A kinds : Of(q, kinds) = IF e.kind \in kinds THEN Of(events, kinds) \cup {e.thr} ELSE Of(events, kinds)
  <2>1. Queue(events) /\ e.thr \notin Of(events, WakeKinds)
    BY <1>2, <1>3 DEF ThreadInv, ListInv, Woken
  <2> QED
    BY <1>2, <2>1, Sent
<1> HIDE DEF q
<1>5. Of(q, WakeKinds) = Woken \cup {t} /\ Of(q, {"start"}) = Starting /\ Of(q, {"delete"}) = Deleting
  <2>1. "unblock" \notin {"start"} /\ "unblock" \notin {"delete"}
    OBVIOUS
  <2> QED
    BY <1>2, <1>4, <2>1 DEF Woken, Starting, Deleting
<1>6. Of(q, WakeKinds) \cap CoreWaiters = {}
  BY <1>3, <1>5, WokenApart
<1>7. releaseCores(cores[t], t, q)
  BY <1>1 DEF q, e
<1>8. /\ EachOnce(pending') /\ Queue(events') /\ deleted' \subseteq Thread
      /\ Starting' = Of(q, {"start"}) /\ Deleting' = Of(q, {"delete"})
      /\ t \in Woken' <=> t \in Of(q, WakeKinds)
      /\ t \notin CoreWaiters' /\ t \notin LockWaiters' /\ t \notin deleted'
      /\ \A u \in Thread \ {t} :
           (/\ u \in Of(q, WakeKinds) <=> u \in Woken
            /\ u \in Of(q, {"start"}) <=> u \in Starting
            /\ u \in JoinWaiters' <=> u \in JoinWaiters) => Stays(u) \/ Freed(u)
  BY <1>0, <1>4, <1>6, <1>7, ReleaseFrees
<1>9. JoinWaiters' = JoinWaiters /\ Starting' = Starting /\ Deleting' = Deleting
  BY <1>0, <1>5, <1>8 DEF JoinWaiters
<1>10. \A u \in Thread \ {t} : Stays(u) \/ Freed(u)
  BY <1>5, <1>8, <1>9
<1>11. Moved(t) /\ at'[t] = "sleep" /\ ip'[t] = ip[t] /\ active' = NoThread
  BY <1>0, BlockMoves DEF ThreadInv
<1>12. Rests(t)
  BY <1>3, <1>5, <1>8, <1>9, <1>11 DEF Rests
<1> QED
  BY <1>0, <1>8, <1>9, <1>10, <1>11, <1>12, CalmStep

(***************************************************************************)
(* Joins.                                                                  *)
(***************************************************************************)
LEMMA JoinCall ==
  ASSUME ThreadInv, NEW t \in Thread, Calls(t, "join")
  PROVE  /\ active = t /\ at[t] = "ready" /\ Calling(t).thr \in Thread
         /\ ip[t] \in DOMAIN prog[t] /\ Calling(t).op = "join"
<1>1. active = t /\ at[t] = "ready" /\ ip[t] <= Len(prog[t]) /\ Calling(t).op = "join"
  BY DEF Calls, Running
<1>2. prog[t] \in Seq(Call) /\ ip[t] \in Nat \ {0}
  BY ConstantAssumption DEF ThreadInv, CoreInv, CoreTypes, ConstantAssumption
<1>3. ip[t] \in DOMAIN prog[t]
  BY <1>1, <1>2
<1> QED
  BY <1>1, <1>3 DEF ThreadInv, Unused, Simple, Calling

LEMMA JoinStep ==
  ASSUME ThreadInv, CoreInv', NEW t \in Thread, Join(t)
  PROVE  ThreadInv'
<1> DEFINE u == Calling(t).thr
<1>0. /\ active = t /\ at[t] = "ready" /\ u \in Thread
      /\ ip[t] \in DOMAIN prog[t] /\ Calling(t).op = "join"
  BY JoinCall DEF Join
<1>1. UNCHANGED <<prog, waiters, conditionals, signalled, pendingQ, state>>
  BY DEF Join, DeleteJoined, mutexVars, queueVars, lifeVars
<1>2. CASE Known(t, u) /\ state[u] = "DONE"
  <2>1. deleted' = deleted \cup {u} /\ Return(t) /\ UNCHANGED <<active, events, pending, joiners>>
    BY <1>2 DEF Join, DeleteJoined, Delete, schedVars
  <2>2. at[u] = "end"
    BY <1>0, <1>2 DEF ThreadInv, EndInv
  <2>3. Moved(t) /\ at'[t] = "ready"
    BY <1>1, <2>1, ReturnMoves DEF ThreadInv
  <2>4. deleted' \subseteq Thread
    BY <1>0, <2>1 DEF ThreadInv, ThreadTypes
  <2> HIDE DEF u
  <2>5. deleted \subseteq deleted' /\ \A v \in deleted' \ deleted : at[v] = "end"
    BY <2>1, <2>2
  <2> QED
    BY <1>0, <1>1, <2>1, <2>3, <2>4, <2>5, StillStep
<1>3. CASE Known(t, u) /\ state[u] # "DONE"
  <2>1. /\ joiners' = [joiners EXCEPT ![u] = Append(@, t)]
        /\ releaseCores(cores[t], t, events)
        /\ Block(t, "join")
        /\ ip' = ip
    BY <1>3 DEF Join
  <2>2. /\ t \notin Woken \cup CoreWaiters \cup LockWaiters \cup JoinWaiters
        /\ t \notin Starting /\ t \notin deleted
    BY <1>0, ActiveThread
  <2>3. joiners \in [Thread -> Seq(Thread)] /\ NoTwice(joiners[u]) /\ t \notin ToSet(joiners[u])
    BY <1>0, <2>2 DEF ThreadInv, ThreadTypes, ListInv, JoinWaiters
  <2>4. Calling(t)' = Calling(t)
    BY <1>1, <2>1 DEF Calling
  <2> HIDE DEF u
  <2>5. /\ joiners'[u] \in Seq(Thread) /\ NoTwice(joiners'[u]) /\ ToSet(joiners'[u]) = ToSet(joiners[u]) \cup {t}
    BY <1>0, <2>1, <2>3, AppendList
  <2>6. joiners' \in [Thread -> Seq(Thread)] /\ \A v \in Thread \ {u} : joiners'[v] = joiners[v]
    BY <1>0, <2>1, <2>3, <2>5
  <2>7. JoinWaiters' = JoinWaiters \cup {t}
    <3>1. \A x : x \in JoinWaiters <=> \E v \in Thread : x \in ToSet(joiners[v])
      BY DEF JoinWaiters
    <3>2. \A x : x \in JoinWaiters' <=> \E v \in Thread : x \in ToSet(joiners'[v])
      BY DEF JoinWaiters
    <3>3. \A x : x \in JoinWaiters' <=> x \in JoinWaiters \/ x = t
      BY <1>0, <2>5, <2>6, <3>1, <3>2
    <3> QED
      BY <3>3
  <2>8. Queue(events) /\ Of(events, WakeKinds) \cap CoreWaiters = {}
    BY WokenApart DEF ThreadInv, ListInv, Woken
  <2>9. /\ EachOnce(pending') /\ Queue(events') /\ deleted' \subseteq Thread
        /\ Starting' = Of(events, {"start"}) /\ Deleting' = Of(events, {"delete"})
        /\ t \in Woken' <=> t \in Of(events, WakeKinds)
        /\ t \notin CoreWaiters' /\ t \notin LockWaiters' /\ t \notin deleted'
        /\ \A v \in Thread \ {t} :
             (/\ v \in Of(events, WakeKinds) <=> v \in Woken
              /\ v \in Of(events, {"start"}) <=> v \in Starting
              /\ v \in JoinWaiters' <=> v \in JoinWaiters) => Stays(v) \/ Freed(v)
    BY <1>0, <1>1, <2>1, <2>8, ReleaseFrees
  <2>10. Starting' = Starting /\ Deleting' = Deleting
    BY <2>9 DEF Starting, Deleting
  <2>11. \A v \in Thread \ {t} : Stays(v) \/ Freed(v)
    BY <2>7, <2>9 DEF Woken, Starting
  <2>12. Moved(t) /\ at'[t] = "join" /\ ip'[t] = ip[t] /\ active' = NoThread
    BY <1>1, <2>1, BlockMoves DEF ThreadInv
  <2>13. Rests(t)
    BY <2>2, <2>7, <2>9, <2>10, <2>12 DEF Rests, Woken
  <2>14. HomeInv'
    BY <1>0, <2>11, <2>12, <2>13, HomeStep
  <2>15. ThreadTypes'
    BY <1>1, <2>6, <2>9, <2>12 DEF ThreadInv, ThreadTypes
  <2>16. Unused'
    BY <1>1, <2>12, KeepsUnused DEF ThreadInv
  <2>17. ListInv'
    <3>1. Queue(events)' /\ EachOnce(pending)'
      BY <2>9 DEF Queue, EachOnce, OneEach
    <3>2. \A v \in Thread : NoTwice(joiners'[v])
      BY <2>5, <2>6 DEF ThreadInv, ListInv
    <3> QED
      BY <1>1, <3>1, <3>2 DEF ThreadInv, ListInv, NoTwice
  <2>18. CallInv'
    BY <1>0, <2>12, KeepsCall DEF ThreadInv
  <2>19. JoinInv'
    <3> SUFFICES ASSUME NEW v \in Thread
                 PROVE  /\ \A w \in Thread : v \in ToSet(joiners'[w]) => at'[v] = "join" /\ Calling(v).thr' = w
                        /\ at'[v] = "join" => \/ v \in ToSet(joiners'[Calling(v).thr'])
                                              \/ at'[Calling(v).thr'] \in {"complete", "end"}
      BY DEF JoinInv
    <3>1. CASE v = t
      <4>1. Calling(v).thr' = u
        BY <2>4, <3>1 DEF u
      <4>2. \A w \in Thread : v \in ToSet(joiners'[w]) => w = u
        BY <2>2, <2>6, <3>1 DEF JoinWaiters
      <4> QED
        BY <2>5, <2>12, <3>1, <4>1, <4>2
    <3>2. CASE v # t
      <4>1. at'[v] = at[v] /\ Calling(v)' = Calling(v)
        BY <1>1, <2>12, <3>2 DEF Moved, Calling
      <4>2. \A w \in Thread : v \in ToSet(joiners'[w]) <=> v \in ToSet(joiners[w])
        BY <2>5, <2>6, <3>2
      <4>3. at[v] = "join" => Calling(v).thr \in Thread
        BY JoinedThread DEF ThreadInv
      <4>4. \A w \in Thread : at[w] \in {"complete", "end"} => at'[w] \in {"complete", "end"}
        BY <1>0, <2>12 DEF Moved
      <4> QED
        BY <4>1, <4>2, <4>3, <4>4 DEF ThreadInv, JoinInv
    <3> QED
      BY <3>1, <3>2
  <2>20. LockInv'
    BY <1>1, <2>2, <2>12, KeepsLock, WokenApart DEF ThreadInv
  <2>21. EndInv'
    <3>1. NoThread \notin Thread
      BY ConstantAssumption DEF ConstantAssumption
    <3> QED
      BY <1>0, <1>1, <2>10, <2>12, <3>1, KeepsEnd DEF ThreadInv
  <2>22. CreatedInv'
    BY <1>0, <2>10, <2>12, KeepsCreated DEF ThreadInv, CoreInv
  <2> QED
    BY <2>14, <2>15, <2>16, <2>17, <2>18, <2>19, <2>20, <2>21, <2>22 DEF ThreadInv
<1>4. CASE ~Known(t, u)
  <2>1. at' = [at EXCEPT ![t] = "threw"] /\ UNCHANGED <<ip, active, events, pending, joiners, deleted>>
    BY <1>4 DEF Join, schedVars, lifeVars
  <2>2. Moved(t) /\ at'[t] = "threw"
    BY <1>1, <2>1, MovedBy DEF ThreadInv
  <2>3. deleted \subseteq Thread
    BY DEF ThreadInv, ThreadTypes
  <2> QED
    BY <1>0, <1>1, <2>1, <2>2, <2>3, StillStep
<1> QED
  BY <1>2, <1>3, <1>4

(***************************************************************************)
(* Mutexes.                                                                *)
(***************************************************************************)
LEMMA MutexCall ==
  ASSUME ThreadInv, NEW t \in Thread, NEW op \in {"lock", "trylock", "unlock"}, Calls(t, op)
  PROVE  /\ active = t /\ at[t] = "ready" /\ Calling(t).mut \in Mutex
         /\ ip[t] \in DOMAIN prog[t] /\ Calling(t).op = op
<1>1. active = t /\ at[t] = "ready" /\ ip[t] <= Len(prog[t]) /\ Calling(t).op = op
  BY DEF Calls, Running
<1>2. prog[t] \in Seq(Call) /\ ip[t] \in Nat \ {0}
  BY ConstantAssumption DEF ThreadInv, CoreInv, CoreTypes, ConstantAssumption
<1>3. ip[t] \in DOMAIN prog[t]
  BY <1>1, <1>2
<1>4. Calling(t) \in Call
  BY <1>1, CallType DEF ThreadInv
<1> QED
  BY <1>1, <1>3, <1>4 DEF Call

LEMMA InLockWaiters ==
  /\ \A x : x \in LockWaiters <=> \E m \in Mutex : x \in ToSet(waiters[m])
  /\ \A x : x \in LockWaiters' <=> \E m \in Mutex : x \in ToSet(waiters'[m])
  BY DEF LockWaiters

LEMMA LockStep ==
  ASSUME ThreadInv, CoreInv', NEW t \in Thread, Lock(t)
  PROVE  ThreadInv'
<1> DEFINE m == Calling(t).mut
<1>0. /\ active = t /\ at[t] = "ready" /\ m \in Mutex
      /\ ip[t] \in DOMAIN prog[t] /\ Calling(t).op = "lock"
  BY MutexCall DEF Lock
<1>1. UNCHANGED <<prog, pending, events, deleted, conditionals, signalled, pendingQ, state, joiners>>
  BY DEF Lock, frameVars, schedVars, queueVars, lifeVars
<1>2. CASE ~locked[m]
  <2>1. Return(t) /\ UNCHANGED <<active, waiters>>
    BY <1>2 DEF Lock
  <2> QED
    BY <1>0, <1>1, <2>1, ReturnStep
<1>3. CASE locked[m]
  <2>1. waiters' = [waiters EXCEPT ![m] = Append(@, t)] /\ Block(t, "lock") /\ ip' = ip
    BY <1>3 DEF Lock
  <2>2. /\ t \notin Woken \cup CoreWaiters \cup LockWaiters \cup JoinWaiters
        /\ t \notin Starting /\ t \notin deleted
    BY <1>0, ActiveThread
  <2>3. waiters \in [Mutex -> Seq(Thread)] /\ NoTwice(waiters[m]) /\ t \notin ToSet(waiters[m])
    BY <1>0, <2>2, InLockWaiters DEF ThreadInv, ThreadTypes, ListInv
  <2>4. Calling(t).mut' = m
    BY <1>1, <2>1 DEF Calling
  <2> HIDE DEF m
  <2>5. /\ waiters'[m] \in Seq(Thread) /\ NoTwice(waiters'[m]) /\ ToSet(waiters'[m]) = ToSet(waiters[m]) \cup {t}
    BY <1>0, <2>1, <2>3, AppendList
  <2>6. waiters' \in [Mutex -> Seq(Thread)] /\ \A n \in Mutex \ {m} : waiters'[n] = waiters[n]
    BY <1>0, <2>1, <2>3, <2>5
  <2>7. \A x : x \in LockWaiters' <=> x \in LockWaiters \/ x = t
    BY <1>0, <2>5, <2>6, InLockWaiters
  <2>8. /\ Woken' = Woken /\ CoreWaiters' = CoreWaiters
        /\ JoinWaiters' = JoinWaiters /\ Starting' = Starting /\ Deleting' = Deleting
    BY <1>1 DEF Woken, CoreWaiters, JoinWaiters, Starting, Deleting
  <2>9. \A u \in Thread \ {t} : Stays(u)
    BY <1>1, <2>7, <2>8 DEF Stays
  <2>10. Moved(t) /\ at'[t] = "lock" /\ ip'[t] = ip[t] /\ active' = NoThread
    BY <1>1, <2>1, BlockMoves DEF ThreadInv
  <2>11. Rests(t)
    BY <1>1, <2>2, <2>7, <2>8, <2>10 DEF Rests
  <2>12. HomeInv'
    BY <1>0, <2>9, <2>10, <2>11, HomeStep
  <2>13. ThreadTypes'
    BY <1>1, <2>6, <2>10 DEF ThreadInv, ThreadTypes
  <2>14. Unused'
    BY <1>1, <2>10, KeepsUnused DEF ThreadInv
  <2>15. ListInv'
    <3>1. \A n \in Mutex : NoTwice(waiters'[n])
      BY <2>5, <2>6 DEF ThreadInv, ListInv
    <3>2. Queue(events)' /\ EachOnce(pending)'
      BY <1>1 DEF ThreadInv, ListInv, Queue, EachOnce, OneEach
    <3> QED
      BY <1>1, <3>1, <3>2 DEF ThreadInv, ListInv, NoTwice
  <2>16. CallInv'
    BY <1>0, <2>10, KeepsCall DEF ThreadInv
  <2>17. JoinInv'
    BY <1>0, <1>1, <2>2, <2>10, KeepsJoin DEF ThreadInv
  <2>18. LockInv'
    <3> SUFFICES ASSUME NEW n \in Mutex, NEW v \in ToSet(waiters'[n]) PROVE at'[v] = "lock" /\ Calling(v).mut' = n
      BY DEF LockInv
    <3>1. CASE v = t
      <4>1. n = m
        BY <2>2, <2>6, <3>1, InLockWaiters
      <4> QED
        BY <2>4, <2>10, <3>1, <4>1
    <3>2. CASE v # t
      <4>1. v \in ToSet(waiters[n]) /\ v \in Thread
        BY <2>5, <2>6, <3>2, WokenApart
      <4>2. at'[v] = at[v] /\ Calling(v)' = Calling(v)
        BY <1>1, <2>10, <3>2, <4>1 DEF Moved, Calling
      <4> QED
        BY <4>1, <4>2 DEF ThreadInv, LockInv
    <3> QED
      BY <3>1, <3>2
  <2>19. EndInv'
    <3>1. NoThread \notin Thread
      BY ConstantAssumption DEF ConstantAssumption
    <3> QED
      BY <1>0, <1>1, <2>8, <2>10, <3>1, KeepsEnd DEF ThreadInv
  <2>20. CreatedInv'
    BY <1>0, <2>8, <2>10, KeepsCreated DEF ThreadInv, CoreInv
  <2> QED
    BY <2>12, <2>13, <2>14, <2>15, <2>16, <2>17, <2>18, <2>19, <2>20 DEF ThreadInv
<1> QED
  BY <1>2, <1>3

\* A mutex is handed to the first that waits for it.
LEMMA UnlockStep ==
  ASSUME ThreadInv, CoreInv', NEW t \in Thread, Unlock(t)
  PROVE  ThreadInv'
<1> DEFINE m == Calling(t).mut
<1>0. /\ active = t /\ at[t] = "ready" /\ m \in Mutex
  BY MutexCall DEF Unlock
<1>1. /\ UNCHANGED <<prog, active, pending, conditionals, signalled, pendingQ, state, joiners>>
      /\ Return(t)
  BY DEF Unlock, schedVars, queueVars
<1>2. CASE ~(locked[m] /\ waiters[m] # <<>>)
  <2>1. UNCHANGED <<events, waiters, deleted>>
    BY <1>2 DEF Unlock
  <2> QED
    BY <1>0, <1>1, <2>1, ReturnStep
<1>3. CASE locked[m] /\ waiters[m] # <<>>
  <2> DEFINE h == Head(waiters[m])
  <2>1. /\ waiters' = [waiters EXCEPT ![m] = Tail(@)]
        /\ events' = Unblock(events, h)
        /\ deleted' = deleted \cup {u \in {h} : Canceled(u)}
    BY <1>3 DEF Unlock, Delete
  <2>2. /\ t \notin Woken \cup CoreWaiters \cup LockWaiters \cup JoinWaiters
        /\ t \notin Starting /\ t \notin deleted
    BY <1>0, ActiveThread
  <2> HIDE DEF m
  <2>3. waiters \in [Mutex -> Seq(Thread)] /\ NoTwice(waiters[m]) /\ waiters[m] # <<>> /\ waiters[m] \in Seq(Thread)
    BY <1>0, <1>3 DEF ThreadInv, ThreadTypes, ListInv
  <2>4. /\ h \in Thread /\ h \in ToSet(waiters[m])
        /\ waiters'[m] \in Seq(Thread) /\ NoTwice(waiters'[m])
        /\ ToSet(waiters'[m]) = ToSet(waiters[m]) \ {h}
    BY <1>0, <2>1, <2>3, TailList
  <2> HIDE DEF h
  <2>5. waiters' \in [Mutex -> Seq(Thread)] /\ \A n \in Mutex \ {m} : waiters'[n] = waiters[n]
    BY <1>0, <2>1, <2>3, <2>4
  <2>6. \A n \in Mutex \ {m} : h \notin ToSet(waiters[n])
    <3>1. Calling(h).mut = m
      BY <1>0, <2>4 DEF ThreadInv, LockInv
    <3>2. \A n \in Mutex : h \in ToSet(waiters[n]) => Calling(h).mut = n
      BY DEF ThreadInv, LockInv
    <3> QED
      BY <3>1, <3>2
  <2>7. \A x : x \in LockWaiters' <=> x \in LockWaiters /\ x # h
    BY <1>0, <2>4, <2>5, <2>6, InLockWaiters
  <2>8. h \in LockWaiters /\ h # t
    BY <1>0, <2>2, <2>4, InLockWaiters
  <2>9. h \notin Woken \cup CoreWaiters \cup JoinWaiters /\ h \notin Starting /\ h \notin deleted
    BY <2>4, <2>8 DEF ThreadInv, HomeInv, Homed, Waiting
  <2>10. /\ Queue(events')
         /\ Of(events', WakeKinds) = Woken \cup {u \in {h} : ~Canceled(u)}
         /\ Of(events', {"start"}) = Starting
         /\ Of(events', {"delete"}) = Deleting
    BY <2>1, <2>4, <2>9, Unblocked DEF ThreadInv, ListInv, Woken, Starting, Deleting
  <2>11. /\ Woken' = Woken \cup {u \in {h} : ~Canceled(u)} /\ CoreWaiters' = CoreWaiters
         /\ JoinWaiters' = JoinWaiters /\ Starting' = Starting /\ Deleting' = Deleting
    BY <1>1, <2>10 DEF Woken, CoreWaiters, JoinWaiters, Starting, Deleting
  <2>12. ASSUME NEW u \in Thread \ {t} PROVE Stays(u) \/ Freed(u)
    <3>1. CASE u = h
      <4>1. Freed(u)
        BY <2>1, <2>7, <2>8, <2>9, <2>11, <3>1 DEF Freed, Waiting
      <4> QED
        BY <4>1
    <3>2. CASE u # h
      BY <2>1, <2>7, <2>11, <3>2 DEF Stays
    <3> QED
      BY <3>1, <3>2
  <2>13. Moved(t) /\ at'[t] = "ready" /\ active' = t
    BY <1>0, <1>1, ReturnMoves DEF ThreadInv
  <2>14. RunsOn(t)
    BY <2>1, <2>2, <2>7, <2>8, <2>11, <2>13 DEF RunsOn
  <2>15. HomeInv'
    BY <1>0, <2>12, <2>13, <2>14, HomeStep
  <2>16. ThreadTypes'
    BY <1>1, <2>1, <2>4, <2>5 DEF ThreadInv, ThreadTypes
  <2>17. Unused'
    BY <1>1, <2>13, KeepsUnused DEF ThreadInv
  <2>18. ListInv'
    <3>1. \A n \in Mutex : NoTwice(waiters'[n])
      BY <2>4, <2>5 DEF ThreadInv, ListInv
    <3>2. Queue(events)' /\ EachOnce(pending)'
      BY <1>1, <2>10 DEF ThreadInv, ListInv, Queue, EachOnce, OneEach
    <3> QED
      BY <1>1, <3>1, <3>2 DEF ThreadInv, ListInv, NoTwice
  <2>19. CallInv'
    BY <1>0, <2>13, KeepsCall DEF ThreadInv
  <2>20. JoinInv'
    BY <1>0, <1>1, <2>2, <2>13, KeepsJoin DEF ThreadInv
  <2>21. LockInv'
    <3>1. \A n \in Mutex : ToSet(waiters'[n]) \subseteq ToSet(waiters[n]) /\ ToSet(waiters[n]) \subseteq Thread
      BY <2>4, <2>5, WokenApart
    <3> QED
      BY <2>2, <2>13, <3>1, KeepsLock DEF ThreadInv
  <2>22. EndInv'
    <3>1. NoThread \notin Thread
      BY ConstantAssumption DEF ConstantAssumption
    <3> QED
      BY <1>0, <1>1, <2>11, <2>13, <3>1, KeepsEnd DEF ThreadInv
  <2>23. CreatedInv'
    BY <1>0, <2>11, <2>13, KeepsCreated DEF ThreadInv, CoreInv
  <2> QED
    BY <2>15, <2>16, <2>17, <2>18, <2>19, <2>20, <2>21, <2>22, <2>23 DEF ThreadInv
<1> QED
  BY <1>2, <1>3

(***************************************************************************)
(* The begin and the end of a thread.                                      *)
(***************************************************************************)
LEMMA CreateStep ==
  ASSUME ThreadInv, CoreInv', NEW t \in Thread, Create(t)
  PROVE  ThreadInv'
<1> DEFINE u == Calling(t).thr
           e == Event(0, "start", u, 0)
<1>0. /\ active = t /\ at[t] = "ready" /\ u \in Thread \ App
      /\ ip[t] \in DOMAIN prog[t] /\ ip[t] \in Nat \ {0} /\ Creates(prog, t, ip[t], u)
  <2>1. active = t /\ at[t] = "ready" /\ ip[t] <= Len(prog[t]) /\ Calling(t).op = "create"
    BY DEF Create, Calls, Running
  <2>2. prog[t] \in Seq(Call) /\ ip[t] \in Nat \ {0}
    BY ConstantAssumption DEF ThreadInv, CoreInv, CoreTypes, ConstantAssumption
  <2>3. ip[t] \in DOMAIN prog[t]
    BY <2>1, <2>2
  <2> QED
    BY <2>1, <2>2, <2>3 DEF ThreadInv, Unused, Simple, Calling, Creates
<1>1. /\ UNCHANGED <<prog, active, pending, waiters, deleted, conditionals, signalled, pendingQ, state,
                     joiners>>
      /\ Return(t) /\ events' = sendDelayed(events, e)
  BY DEF Create, schedVars, mutexVars, queueVars, sendNow
<1> HIDE DEF u
<1>2. u \notin Starting /\ at[u] = "off"
  <2> SUFFICES ASSUME u \in Starting \/ at[u] # "off" PROVE FALSE
    OBVIOUS
  <2>1. PICK v \in Thread : \E i \in 1 .. (ip[v] - 1) : Creates(prog, v, i, u)
    BY <1>0 DEF ThreadInv, CreatedInv
  <2>2. PICK i \in 1 .. (ip[v] - 1) : Creates(prog, v, i, u)
    BY <2>1
  <2>3. v = t /\ i = ip[t]
    BY <1>0, <2>2 DEF ThreadInv, Unused, Simple, Creates
  <2> QED
    BY <1>0, <2>2, <2>3
<1>3. u \notin Woken \cup CoreWaiters \cup LockWaiters \cup JoinWaiters /\ u \notin deleted /\ u # t
  BY <1>0, <1>2 DEF ThreadInv, HomeInv, Homed, Waiting
<1>4. e \in EventType /\ e.kind = "start" /\ e.thr = u /\ "start" \in WakeKinds
  BY <1>0 DEF Event, EventType, WakeKinds
<1> HIDE DEF e
<1>5. /\ Queue(events')
      /\ \A kinds : Of(events', kinds) = IF e.kind \in kinds THEN Of(events, kinds) \cup {e.thr} ELSE Of(events, kinds)
  <2>1. Queue(events) /\ e.thr \notin Of(events, WakeKinds)
    BY <1>3, <1>4 DEF ThreadInv, ListInv, Woken
  <2> QED
    BY <1>1, <1>4, <2>1, Sent
<1>6. /\ Woken' = Woken \cup {u} /\ CoreWaiters' = CoreWaiters /\ LockWaiters' = LockWaiters
      /\ JoinWaiters' = JoinWaiters /\ Starting' = Starting \cup {u} /\ Deleting' = Deleting
  <2>1. "start" \in {"start"} /\ "start" \notin {"delete"}
    OBVIOUS
  <2>2. Of(events', WakeKinds) = Woken \cup {u} /\ Of(events', {"start"}) = Starting \cup {u}
        /\ Of(events', {"delete"}) = Deleting
    BY <1>4, <1>5, <2>1 DEF Woken, Starting, Deleting
  <2> QED
    BY <1>1, <2>2 DEF Woken, CoreWaiters, LockWaiters, JoinWaiters, Starting, Deleting
<1>7. ASSUME NEW v \in Thread \ {t} PROVE Stays(v) \/ Born(v)
  <2>1. CASE v = u
    BY <1>1, <1>2, <1>3, <1>6, <2>1 DEF Born
  <2>2. CASE v # u
    BY <1>1, <1>6, <2>2 DEF Stays
  <2> QED
    BY <2>1, <2>2
<1>8. Moved(t) /\ at'[t] = "ready" /\ active' = t
  BY <1>0, <1>1, ReturnMoves DEF ThreadInv
<1>9. /\ t \notin Woken \cup CoreWaiters \cup LockWaiters \cup JoinWaiters
      /\ t \notin Starting /\ t \notin deleted
  BY <1>0, ActiveThread
<1>10. RunsOn(t)
  BY <1>1, <1>3, <1>6, <1>8, <1>9 DEF RunsOn
<1>11. HomeInv'
  BY <1>0, <1>7, <1>8, <1>10, HomeStep
<1>12. ThreadTypes'
  BY <1>1 DEF ThreadInv, ThreadTypes
<1>13. Unused'
  BY <1>1, <1>8, KeepsUnused DEF ThreadInv
<1>14. ListInv'
  <2>1. Queue(events)' /\ EachOnce(pending)'
    BY <1>1, <1>5 DEF ThreadInv, ListInv, Queue, EachOnce, OneEach
  <2> QED
    BY <1>1, <2>1 DEF ThreadInv, ListInv, NoTwice
<1>15. CallInv'
  BY <1>0, <1>8, KeepsCall DEF ThreadInv
<1>16. JoinInv'
  BY <1>0, <1>1, <1>8, <1>9, KeepsJoin DEF ThreadInv
<1>17. LockInv'
  BY <1>1, <1>8, <1>9, KeepsLock, WokenApart DEF ThreadInv
<1>18. EndInv'
  <2>1. NoThread \notin Thread
    BY ConstantAssumption DEF ConstantAssumption
  <2> QED
    BY <1>0, <1>1, <1>6, <1>8, <2>1, KeepsEnd DEF ThreadInv
<1>19. CreatedInv'
  <2> SUFFICES ASSUME NEW v \in Thread, v \in Starting' \/ (v \notin App /\ at'[v] # "off")
               PROVE  \E w \in Thread : \E i \in 1 .. (ip'[w] - 1) : Creates(prog', w, i, v)
    BY DEF CreatedInv
  <2>0. ip'[t] = ip[t] + 1
    BY <1>1 DEF Return, ThreadInv, CoreInv, CoreTypes
  <2>1. CASE v = u
    <3>1. ip[t] \in 1 .. (ip'[t] - 1)
      BY <1>0, <2>0
    <3> QED
      BY <1>0, <1>1, <2>1, <3>1
  <2>2. CASE v # u
    <3>1. v \in Starting \/ (v \notin App /\ at[v] # "off")
      BY <1>0, <1>6, <1>8, <2>2 DEF Moved
    <3>2. PICK w \in Thread : \E i \in 1 .. (ip[w] - 1) : Creates(prog, w, i, v)
      BY <3>1 DEF ThreadInv, CreatedInv
    <3>3. PICK i \in 1 .. (ip[w] - 1) : Creates(prog, w, i, v)
      BY <3>2
    <3>4. ip[w] \in Nat /\ (ip'[w] = ip[w] \/ ip'[w] = ip[w] + 1)
      BY <1>8 DEF Moved, ThreadInv, CoreInv, CoreTypes
    <3>5. i \in 1 .. (ip'[w] - 1)
      BY <3>4
    <3> QED
      BY <1>1, <3>3, <3>5
  <2> QED
    BY <2>1, <2>2
<1> QED
  BY <1>11, <1>12, <1>13, <1>14, <1>15, <1>16, <1>17, <1>18, <1>19 DEF ThreadInv

LEMMA CleanupStep ==
  ASSUME ThreadInv, CoreInv', NEW t \in Thread, Cleanup(t)
  PROVE  ThreadInv'
<1> DEFINE e == Event(0, "delete", t, 0)
<1>0. /\ active = t /\ at[t] = "cleanup" /\ at' = [at EXCEPT ![t] = "complete"]
      /\ UNCHANGED <<prog, active, ip, pending, waiters, deleted, conditionals, signalled, pendingQ, joiners>>
  BY DEF Cleanup, Running, schedVars, mutexVars, queueVars
<1>1. state' = [u \in Thread |-> IF u = t THEN "DONE"
                                 ELSE IF u \in Cancels(t) THEN "CANCELED" ELSE state[u]]
  BY DEF Cleanup
<1>2. events' = events \/ events' = sendDelayed(events, e)
  BY DEF Cleanup, sendNow
<1>3. e \in EventType /\ e.kind = "delete" /\ e.thr = t /\ "delete" \notin WakeKinds
  BY DEF Event, EventType, WakeKinds
<1> HIDE DEF e
<1>4. Queue(events) /\ Queue(events') /\ Of(events', WakeKinds) = Woken /\ Of(events', {"start"}) = Starting
      /\ Of(events', {"delete"}) \subseteq Deleting \cup {t}
  <2>1. Queue(events)
    BY DEF ThreadInv, ListInv
  <2>2. CASE events' = events
    BY <2>1, <2>2 DEF Woken, Starting, Deleting
  <2>3. CASE events' = sendDelayed(events, e)
    <3>1. /\ Queue(events')
          /\ \A kinds : Of(events', kinds) = IF e.kind \in kinds THEN Of(events, kinds) \cup {e.thr} ELSE Of(events, kinds)
      BY <1>3, <2>1, <2>3, Sent
    <3>2. "delete" \notin {"start"} /\ "delete" \in {"delete"}
      OBVIOUS
    <3> QED
      BY <1>3, <2>1, <3>1, <3>2 DEF Woken, Starting, Deleting
  <2> QED
    BY <1>2, <2>2, <2>3
<1>5. /\ Woken' = Woken /\ CoreWaiters' = CoreWaiters /\ LockWaiters' = LockWaiters
      /\ JoinWaiters' = JoinWaiters /\ Starting' = Starting /\ Deleting' \subseteq Deleting \cup {t}
  BY <1>0, <1>4 DEF Woken, CoreWaiters, LockWaiters, JoinWaiters, Starting, Deleting
<1>6. \A v \in Thread \ {t} : Stays(v)
  BY <1>0, <1>5 DEF Stays
<1>7. Moved(t) /\ at'[t] = "complete" /\ active' = t /\ ip'[t] = ip[t]
  BY <1>0, MovedBy DEF ThreadInv
<1>8. /\ t \notin Woken \cup CoreWaiters \cup LockWaiters \cup JoinWaiters
      /\ t \notin Starting /\ t \notin deleted
  BY <1>0, ActiveThread
<1>9. RunsOn(t)
  BY <1>0, <1>5, <1>7, <1>8 DEF RunsOn
<1>10. HomeInv'
  BY <1>0, <1>6, <1>7, <1>9, HomeStep
<1>11. ThreadTypes'
  <2>1. state' \in [Thread -> {"PENDING", "ACTIVE", "DONE", "CANCELED"}]
    BY <1>1 DEF ThreadInv, ThreadTypes
  <2> QED
    BY <1>0, <2>1 DEF ThreadInv, ThreadTypes
<1>12. Unused'
  BY <1>0, <1>7, KeepsUnused DEF ThreadInv
<1>13. ListInv'
  <2>1. Queue(events)' /\ EachOnce(pending)'
    BY <1>0, <1>4 DEF ThreadInv, ListInv, Queue, EachOnce, OneEach
  <2> QED
    BY <1>0, <2>1 DEF ThreadInv, ListInv, NoTwice
<1>14. CallInv'
  BY <1>7, KeepsCall DEF ThreadInv
<1>15. JoinInv'
  BY <1>0, <1>7, <1>8, KeepsJoin DEF ThreadInv
<1>16. LockInv'
  BY <1>0, <1>7, <1>8, KeepsLock, WokenApart DEF ThreadInv
<1>17. EndInv'
  <2> SUFFICES ASSUME NEW v \in Thread
               PROVE  /\ at'[v] = "complete" => active' = v
                      /\ state'[v] = "DONE" \/ v \in Deleting' => at'[v] \in {"complete", "end"}
    BY DEF EndInv
  <2>1. CASE v = t
    BY <1>7, <2>1
  <2>2. CASE v # t
    <3>1. at'[v] = at[v] /\ (state'[v] = "DONE" => state[v] = "DONE") /\ (v \in Deleting' => v \in Deleting)
      BY <1>1, <1>5, <1>7, <2>2 DEF Moved
    <3> QED
      BY <1>0, <2>2, <3>1 DEF ThreadInv, EndInv
  <2> QED
    BY <2>1, <2>2
<1>18. CreatedInv'
  BY <1>0, <1>5, <1>7, KeepsCreated DEF ThreadInv, CoreInv
<1> QED
  BY <1>10, <1>11, <1>12, <1>13, <1>14, <1>15, <1>16, <1>17, <1>18 DEF ThreadInv

LEMMA InJoinWaiters ==
  /\ \A x : x \in JoinWaiters <=> \E u \in Thread : x \in ToSet(joiners[u])
  /\ \A x : x \in JoinWaiters' <=> \E u \in Thread : x \in ToSet(joiners'[u])
  BY DEF JoinWaiters

\* completeActiveThread wakes one that waits for the end of the thread.
LEMMA JoinerStep ==
  ASSUME ThreadInv, CoreInv', NEW t \in Thread, Complete(t), joiners[t] # <<>>
  PROVE  ThreadInv'
<1> DEFINE h == Head(joiners[t])
<1>0. /\ active = t /\ at[t] = "complete"
      /\ UNCHANGED <<prog, active, at, ip, pending, waiters, state, conditionals, signalled, pendingQ>>
      /\ events' = Unblock(events, h)
      /\ deleted' = deleted \cup {u \in {h} : Canceled(u)}
      /\ joiners' = [joiners EXCEPT ![t] = Tail(@)]
  BY DEF Complete, JoinersLeft, Running, schedVars, mutexVars, queueVars, Delete
<1>1. /\ t \notin Woken \cup CoreWaiters \cup LockWaiters \cup JoinWaiters
      /\ t \notin Starting /\ t \notin deleted
  BY <1>0, ActiveThread
<1>2. joiners \in [Thread -> Seq(Thread)] /\ NoTwice(joiners[t]) /\ joiners[t] \in Seq(Thread)
  BY DEF ThreadInv, ThreadTypes, ListInv
<1>3. /\ h \in Thread /\ h \in ToSet(joiners[t])
      /\ joiners'[t] \in Seq(Thread) /\ NoTwice(joiners'[t])
      /\ ToSet(joiners'[t]) = ToSet(joiners[t]) \ {h}
  BY <1>0, <1>2, TailList
<1> HIDE DEF h
<1>4. joiners' \in [Thread -> Seq(Thread)] /\ \A v \in Thread \ {t} : joiners'[v] = joiners[v]
  BY <1>0, <1>2, <1>3
<1>5. at[h] = "join" /\ Calling(h).thr = t
  BY <1>3 DEF ThreadInv, JoinInv
<1>6. \A v \in Thread \ {t} : h \notin ToSet(joiners[v])
  <2>1. \A v \in Thread : h \in ToSet(joiners[v]) => Calling(h).thr = v
    BY <1>3 DEF ThreadInv, JoinInv
  <2> QED
    BY <1>5, <2>1
<1>7. \A x : x \in JoinWaiters' <=> x \in JoinWaiters /\ x # h
  <2>1. \A v \in Thread : \A x : x \in ToSet(joiners'[v]) <=> x \in ToSet(joiners[v]) /\ x # h
    BY <1>3, <1>4, <1>6
  <2> QED
    BY <2>1, InJoinWaiters
<1>8. h \in JoinWaiters /\ h # t
  BY <1>1, <1>3, InJoinWaiters
<1>9. h \notin Woken \cup CoreWaiters \cup LockWaiters /\ h \notin Starting /\ h \notin deleted
  BY <1>3, <1>8 DEF ThreadInv, HomeInv, Homed, Waiting
<1>10. /\ Queue(events')
       /\ Of(events', WakeKinds) = Woken \cup {u \in {h} : ~Canceled(u)}
       /\ Of(events', {"start"}) = Starting
       /\ Of(events', {"delete"}) = Deleting
  BY <1>0, <1>3, <1>9, Unblocked DEF ThreadInv, ListInv, Woken, Starting, Deleting
<1>11. /\ Woken' = Woken \cup {u \in {h} : ~Canceled(u)} /\ CoreWaiters' = CoreWaiters
       /\ LockWaiters' = LockWaiters /\ Starting' = Starting /\ Deleting' = Deleting
  BY <1>0, <1>10 DEF Woken, CoreWaiters, LockWaiters, Starting, Deleting
<1>12. ASSUME NEW u \in Thread \ {t} PROVE Stays(u) \/ Freed(u)
  <2>1. CASE u = h
    <3>1. Freed(u)
      BY <1>0, <1>7, <1>8, <1>9, <1>11, <2>1 DEF Freed, Waiting
    <3> QED
      BY <3>1
  <2>2. CASE u # h
    BY <1>0, <1>7, <1>11, <2>2 DEF Stays
  <2> QED
    BY <2>1, <2>2
<1>13. Moved(t) /\ at'[t] = "complete" /\ active' = t /\ ip'[t] = ip[t]
  BY <1>0 DEF Moved, ThreadInv, CoreInv, CoreTypes
<1>14. RunsOn(t)
  BY <1>0, <1>1, <1>7, <1>8, <1>11, <1>13 DEF RunsOn
<1>15. HomeInv'
  BY <1>0, <1>12, <1>13, <1>14, HomeStep
<1>16. ThreadTypes'
  BY <1>0, <1>3, <1>4 DEF ThreadInv, ThreadTypes
<1>17. Unused'
  BY <1>0, <1>13, KeepsUnused DEF ThreadInv
<1>18. ListInv'
  <2>1. \A v \in Thread : NoTwice(joiners'[v])
    BY <1>3, <1>4 DEF ThreadInv, ListInv
  <2>2. Queue(events)' /\ EachOnce(pending)'
    BY <1>0, <1>10 DEF ThreadInv, ListInv, Queue, EachOnce, OneEach
  <2> QED
    BY <1>0, <2>1, <2>2 DEF ThreadInv, ListInv, NoTwice
<1>19. CallInv'
  BY <1>0, <1>13, KeepsCall DEF ThreadInv
<1>20. JoinInv'
  <2> SUFFICES ASSUME NEW v \in Thread
               PROVE  /\ \A w \in Thread : v \in ToSet(joiners'[w]) => at'[v] = "join" /\ Calling(v).thr' = w
                      /\ at'[v] = "join" => \/ v \in ToSet(joiners'[Calling(v).thr'])
                                            \/ at'[Calling(v).thr'] \in {"complete", "end"}
    BY DEF JoinInv
  <2>1. at' = at /\ Calling(v)' = Calling(v)
    BY <1>0 DEF Calling
  <2>2. \A w \in Thread : v \in ToSet(joiners'[w]) => v \in ToSet(joiners[w])
    BY <1>3, <1>4
  <2>3. CASE v = h
    BY <1>0, <1>3, <1>5, <2>1, <2>2, <2>3 DEF ThreadInv, JoinInv
  <2>4. CASE v # h
    <3>1. \A w \in Thread : v \in ToSet(joiners'[w]) <=> v \in ToSet(joiners[w])
      BY <1>3, <1>4, <2>4
    <3>2. at[v] = "join" => Calling(v).thr \in Thread
      BY JoinedThread DEF ThreadInv
    <3> QED
      BY <2>1, <3>1, <3>2 DEF ThreadInv, JoinInv
  <2> QED
    BY <2>3, <2>4
<1>21. LockInv'
  BY <1>0, <1>1, <1>13, KeepsLock, WokenApart DEF ThreadInv
<1>22. EndInv'
  BY <1>0, <1>11 DEF ThreadInv, EndInv
<1>23. CreatedInv'
  BY <1>0, <1>11, <1>13, KeepsCreated DEF ThreadInv, CoreInv
<1> QED
  BY <1>15, <1>16, <1>17, <1>18, <1>19, <1>20, <1>21, <1>22, <1>23 DEF ThreadInv

\* ... and its context ends.
LEMMA EndStep ==
  ASSUME ThreadInv, CoreInv', NEW t \in Thread, Complete(t), joiners[t] = <<>>
  PROVE  ThreadInv'
<1>0. /\ active = t /\ at[t] = "complete" /\ at' = [at EXCEPT ![t] = "end"] /\ active' = NoThread
      /\ UNCHANGED <<prog, ip, events, deleted, joiners, pending, waiters, state, conditionals, signalled,
                     pendingQ>>
  BY DEF Complete, JoinersLeft, Running, schedVars, mutexVars, queueVars
<1>1. /\ t \notin Woken \cup CoreWaiters \cup LockWaiters \cup JoinWaiters
      /\ t \notin Starting /\ t \notin deleted
  BY <1>0, ActiveThread
<1>2. /\ Woken' = Woken /\ CoreWaiters' = CoreWaiters /\ LockWaiters' = LockWaiters
      /\ JoinWaiters' = JoinWaiters /\ Starting' = Starting /\ Deleting' = Deleting
  BY <1>0 DEF Woken, CoreWaiters, LockWaiters, JoinWaiters, Starting, Deleting
<1>3. Moved(t) /\ at'[t] = "end" /\ ip'[t] = ip[t]
  BY <1>0, MovedBy DEF ThreadInv
<1>4. NoThread \notin Thread
  BY ConstantAssumption DEF ConstantAssumption
<1>5. HomeInv'
  <2> SUFFICES ASSUME NEW u \in Thread PROVE Homed(u)'
    BY DEF HomeInv
  <2>1. CASE u = t
    BY <1>0, <1>1, <1>2, <1>3, <1>4, <2>1 DEF Homed, Waiting
  <2>2. CASE u # t
    <3>1. Homed(u) /\ at'[u] = at[u] /\ active # u /\ active' # u
      BY <1>0, <1>3, <1>4, <2>2 DEF Moved, ThreadInv, HomeInv
    <3> QED
      BY <1>0, <1>2, <3>1 DEF Homed, Waiting
  <2> QED
    BY <2>1, <2>2
<1>6. ThreadTypes'
  BY <1>0 DEF ThreadInv, ThreadTypes
<1>7. Unused'
  BY <1>0, <1>3, KeepsUnused DEF ThreadInv
<1>8. ListInv'
  BY <1>0 DEF ThreadInv, ListInv, NoTwice, Queue, EachOnce, OneEach
<1>9. CallInv'
  BY <1>3, KeepsCall DEF ThreadInv
<1>10. JoinInv'
  BY <1>0, <1>1, <1>3, KeepsJoin DEF ThreadInv
<1>11. LockInv'
  BY <1>0, <1>1, <1>3, KeepsLock, WokenApart DEF ThreadInv
<1>12. EndInv'
  BY <1>0, <1>2, <1>3, <1>4, KeepsEnd DEF ThreadInv
<1>13. CreatedInv'
  BY <1>0, <1>2, <1>3, KeepsCreated DEF ThreadInv, CoreInv
<1> QED
  BY <1>5, <1>6, <1>7, <1>8, <1>9, <1>10, <1>11, <1>12, <1>13 DEF ThreadInv

\* Calls that simple programs make of conditions and queues find nothing.
LEMMA EmptyCalls ==
  ASSUME ThreadInv, CoreInv', NEW t \in Thread, Signal(t) \/ Post(t)
  PROVE  ThreadInv'
<1>1. active = t /\ at[t] = "ready"
  BY DEF Signal, Post, Calls, Running
<1>2. CASE Signal(t)
  <2>1. signalled = {}
    BY DEF ThreadInv, Unused
  <2>2. /\ Return(t)
        /\ UNCHANGED <<prog, active, events, pending, waiters, joiners, state, conditionals, signalled,
                       pendingQ, deleted>>
    BY <1>2, <2>1 DEF Signal, schedVars, queueVars
  <2> QED
    BY <1>1, <2>2, ReturnStep
<1>3. CASE Post(t)
  <2>1. pendingQ = <<>>
    BY DEF ThreadInv, Unused
  <2>2. ToSet(pendingQ) = {}
    BY <2>1 DEF ToSet
  <2>3. /\ Return(t)
        /\ UNCHANGED <<prog, active, events, pending, waiters, joiners, state, conditionals, signalled,
                       pendingQ>>
    BY <1>3, <2>1 DEF Post, schedVars, mutexVars
  <2>4. deleted' = deleted
    BY <1>3, <2>2 DEF Post, Delete
  <2> QED
    BY <1>1, <2>3, <2>4, ReturnStep
<1> QED
  BY <1>2, <1>3

\* The call a thread makes is one of its program.
LEMMA SimpleCall ==
  ASSUME ThreadInv, NEW t \in Thread, NEW op, Calls(t, op)
  PROVE  op \notin {"wait", "timedwait", "front"}
<1>1. ip[t] <= Len(prog[t]) /\ Calling(t).op = op
  BY DEF Calls
<1>2. prog[t] \in Seq(Call) /\ ip[t] \in Nat \ {0}
  BY ConstantAssumption DEF ThreadInv, CoreInv, CoreTypes, ConstantAssumption
<1>3. ip[t] \in DOMAIN prog[t]
  BY <1>1, <1>2
<1> QED
  BY <1>1, <1>3 DEF ThreadInv, Unused, Simple, Calling

LEMMA RunningStep ==
  ASSUME ThreadInv, CoreInv', NEW t \in Thread, ThreadStep(t)
  PROVE  ThreadInv'
<1>1. CASE ReserveCores(t)
  BY <1>1, ReserveStep
<1>2. CASE Create(t)
  BY <1>2, CreateStep
<1>3. CASE Join(t)
  BY <1>3, JoinStep
<1>4. CASE Compute(t) \/ ExecuteRun(t)
  BY <1>4, TimedStep
<1>5. CASE Sleep(t)
  BY <1>5, SleepStep
<1>6. CASE Execute(t)
  BY <1>6, ExecuteStep
<1>7. CASE ExecuteDone(t) \/ Exit(t)
  BY <1>7, ReleaseStep
<1>8. CASE AfterBlock(t) \/ LockDone(t) \/ Trylock(t)
  <2>1. /\ active = t /\ at[t] \in {"return", "lock", "ready"} /\ Return(t)
        /\ UNCHANGED <<prog, active, events, pending, waiters, joiners, state, conditionals, signalled,
                       pendingQ, deleted>>
    BY <1>8 DEF AfterBlock, LockDone, Trylock, Calls, Running, frameVars, schedVars, mutexVars, queueVars, lifeVars
  <2> QED
    BY <2>1, ReturnStep
<1>9. CASE Lock(t)
  BY <1>9, LockStep
<1>10. CASE Unlock(t)
  BY <1>10, UnlockStep
<1>11. CASE Signal(t) \/ Post(t)
  BY <1>11, EmptyCalls
<1>12. CASE Cleanup(t)
  BY <1>12, CleanupStep
<1>13. CASE Complete(t)
  BY <1>13, JoinerStep, EndStep
<1>14. CASE Wait(t) \/ QueueFront(t)
  BY <1>14, SimpleCall DEF Wait, QueueFront
<1>15. CASE WaitDone(t) \/ QueueFrontDone(t)
  BY <1>15 DEF WaitDone, QueueFrontDone, Running, ThreadInv, Unused
<1> QED
  BY <1>1, <1>2, <1>3, <1>4, <1>5, <1>6, <1>7, <1>8, <1>9, <1>10, <1>11, <1>12, <1>13, <1>14, <1>15 DEF ThreadStep

(***************************************************************************)
(* The DES thread: the event that is due wakes, starts or deletes.         *)
(***************************************************************************)
LEMMA StartedStep ==
  ASSUME ThreadInv, CoreInv', NEW u \in Thread, active = NoThread, Start(u),
         at[u] = "off", u \notin deleted, u \notin Waiting, u \in App \/ u \in Starting,
         UNCHANGED <<prog, ip, pending, waiters, joiners, conditionals, signalled, pendingQ>>,
         Queue(events'), u \notin Woken', u \notin Starting',
         \A v \in Thread \ {u} : /\ v \in Woken' <=> v \in Woken
                                 /\ v \in Starting' <=> v \in Starting,
         Deleting' \subseteq Deleting
  PROVE  ThreadInv'
<1>0. /\ active' = u /\ at' = [at EXCEPT ![u] = "guard"] /\ state' = [state EXCEPT ![u] = "ACTIVE"]
      /\ UNCHANGED <<deleted>>
  BY DEF Start
<1>1. Moved(u) /\ at'[u] = "guard" /\ ip'[u] = ip[u]
  BY <1>0, MovedBy DEF ThreadInv
<1>2. CoreWaiters' = CoreWaiters /\ LockWaiters' = LockWaiters /\ JoinWaiters' = JoinWaiters
  BY DEF CoreWaiters, LockWaiters, JoinWaiters
<1>3. NoThread \notin Thread
  BY ConstantAssumption DEF ConstantAssumption
<1>4. HomeInv'
  <2> SUFFICES ASSUME NEW v \in Thread PROVE Homed(v)'
    BY DEF HomeInv
  <2>1. CASE v = u
    BY <1>0, <1>1, <1>2, <2>1 DEF Homed, Waiting
  <2>2. CASE v # u
    <3>1. Homed(v) /\ at'[v] = at[v] /\ active # v /\ active' # v
      BY <1>0, <1>1, <1>3, <2>2 DEF Moved, ThreadInv, HomeInv
    <3> QED
      BY <1>0, <1>2, <2>2, <3>1 DEF Homed, Waiting
  <2> QED
    BY <2>1, <2>2
<1>5. ThreadTypes'
  BY <1>0 DEF ThreadInv, ThreadTypes
<1>6. Unused'
  BY <1>1, KeepsUnused DEF ThreadInv
<1>7. ListInv'
  <2>1. Queue(events)' /\ EachOnce(pending)'
    BY DEF ThreadInv, ListInv, Queue, EachOnce, OneEach
  <2> QED
    BY <2>1 DEF ThreadInv, ListInv, NoTwice
<1>8. CallInv'
  BY <1>1, KeepsCall DEF ThreadInv
<1>9. JoinInv'
  BY <1>1, KeepsJoin DEF ThreadInv, Waiting
<1>10. LockInv'
  BY <1>1, KeepsLock, WokenApart DEF ThreadInv, Waiting
<1>11. EndInv'
  <2>1. \A v \in Thread : state'[v] = "DONE" => state[v] = "DONE"
    BY <1>0 DEF ThreadInv, ThreadTypes
  <2> QED
    BY <1>1, <1>3, <2>1, KeepsEnd DEF ThreadInv
<1>12. CreatedInv'
  <2> SUFFICES ASSUME NEW v \in Thread, v \in Starting' \/ (v \notin App /\ at'[v] # "off")
               PROVE  \E w \in Thread : \E i \in 1 .. (ip[w] - 1) : Creates(prog, w, i, v)
    BY DEF CreatedInv
  <2>1. v \in Starting \/ (v \notin App /\ at[v] # "off")
    BY <1>1 DEF Moved
  <2> QED
    BY <2>1 DEF ThreadInv, CreatedInv
<1> QED
  BY <1>4, <1>5, <1>6, <1>7, <1>8, <1>9, <1>10, <1>11, <1>12 DEF ThreadInv

LEMMA WokenStep ==
  ASSUME ThreadInv, CoreInv', NEW u \in Thread, active = NoThread,
         UNCHANGED <<prog, at, ip, pending, waiters, joiners, state, conditionals, signalled, pendingQ>>,
         Queue(events'),
         \A v \in Thread \ {u} : v \in Woken' <=> v \in Woken,
         Starting' = Starting, Deleting' \subseteq Deleting,
         \/ u \in Woken /\ u \notin Starting /\ u \notin Woken' /\ active' = u /\ deleted' = deleted
         \/ u \in Woken /\ u \notin Starting /\ u \notin Woken' /\ active' = NoThread /\ deleted' = deleted \cup {u}
         \/ at[u] = "end" /\ (u \in Woken' => u \in Woken) /\ active' = NoThread /\ deleted' = deleted \cup {u}
  PROVE  ThreadInv'
<1>1. Moved(u) /\ at'[u] = at[u] /\ ip'[u] = ip[u]
  BY DEF Moved, ThreadInv, CoreInv, CoreTypes
<1>2. CoreWaiters' = CoreWaiters /\ LockWaiters' = LockWaiters /\ JoinWaiters' = JoinWaiters
  BY DEF CoreWaiters, LockWaiters, JoinWaiters
<1>3. NoThread \notin Thread
  BY ConstantAssumption DEF ConstantAssumption
<1>4. HomeInv'
  <2> SUFFICES ASSUME NEW v \in Thread PROVE Homed(v)'
    BY DEF HomeInv
  <2>0. Homed(v)
    BY DEF ThreadInv, HomeInv
  <2>1. CASE v = u
    BY <1>2, <1>3, <2>0, <2>1 DEF Homed, Waiting
  <2>2. CASE v # u
    BY <1>2, <1>3, <2>0, <2>2 DEF Homed, Waiting
  <2> QED
    BY <2>1, <2>2
<1>5. ThreadTypes'
  BY DEF ThreadInv, ThreadTypes
<1>6. Unused'
  BY DEF ThreadInv, Unused
<1>7. ListInv'
  <2>1. Queue(events)' /\ EachOnce(pending)'
    BY DEF ThreadInv, ListInv, Queue, EachOnce, OneEach
  <2> QED
    BY <2>1 DEF ThreadInv, ListInv, NoTwice
<1>8. CallInv'
  BY DEF ThreadInv, CallInv, Calling
<1>9. JoinInv'
  BY DEF ThreadInv, JoinInv, Calling
<1>10. LockInv'
  BY DEF ThreadInv, LockInv, Calling
<1>11. EndInv'
  BY <1>3 DEF ThreadInv, EndInv
<1>12. CreatedInv'
  BY DEF ThreadInv, CreatedInv
<1> QED
  BY <1>4, <1>5, <1>6, <1>7, <1>8, <1>9, <1>10, <1>11, <1>12 DEF ThreadInv

LEMMA RunEventStep ==
  ASSUME ThreadInv, CoreInv', RunEvent
  PROVE  ThreadInv'
<1> DEFINE e == Head(events)
           u == e.thr
<1>0. /\ active = NoThread /\ events # <<>> /\ events' = Later(Tail(events), e.wait) /\ Handle(e)
      /\ UNCHANGED <<prog, ip, pending, joiners, conditionals, signalled, pendingQ>>
  BY DEF RunEvent, Idle, schedVars, queueVars
<1>1. e \in EventType /\ e.wait \in Int /\ u \in Thread /\ e.kind \in WakeKinds \cup {"delete"}
  <2>1. events \in Seq(EventType)
    BY DEF ThreadInv, ListInv, Queue
  <2>2. e \in EventType
    BY <1>0, <2>1
  <2> QED
    BY <2>2 DEF EventType
<1>2. /\ Queue(events')
      /\ \A kinds : Of(events', kinds) \subseteq Of(events, kinds)
      /\ \A kinds : \A x \in Of(events, kinds) : x # u => x \in Of(events', kinds)
      /\ e.kind \in WakeKinds => u \notin Of(events', WakeKinds)
      /\ e.kind = "delete" => Of(events, WakeKinds) = Of(events', WakeKinds)
      /\ e.kind # "start" => Of(events, {"start"}) = Of(events', {"start"})
      /\ \A kinds : e.kind \in kinds => u \in Of(events, kinds)
      /\ e.kind \in {"switch", "unblock"} => u \notin Of(events, {"start"})
  BY <1>0, <1>1, Popped DEF ThreadInv, ListInv
<1> HIDE DEF e, u
<1>3. /\ Woken' = Of(events', WakeKinds) /\ Starting' = Of(events', {"start"}) /\ Deleting' = Of(events', {"delete"})
      /\ Woken = Of(events, WakeKinds) /\ Starting = Of(events, {"start"}) /\ Deleting = Of(events, {"delete"})
  BY DEF Woken, Starting, Deleting
<1>4. /\ \A v \in Thread \ {u} : /\ v \in Woken' <=> v \in Woken
                                 /\ v \in Starting' <=> v \in Starting
      /\ Deleting' \subseteq Deleting
  BY <1>2, <1>3
<1>5. Homed(u)
  BY <1>1 DEF ThreadInv, HomeInv
<1>6. CASE e.kind = "start"
  <2>1. Start(u) /\ UNCHANGED waiters
    BY <1>0, <1>6 DEF Handle, u
  <2>2. u \in Woken /\ u \in Starting /\ u \notin Woken'
    BY <1>2, <1>3, <1>6 DEF WakeKinds
  <2>3. u \notin Starting'
    <3>1. Starting' \subseteq Woken'
      BY <1>3 DEF Of, WakeKinds
    <3> QED
      BY <2>2, <3>1
  <2>4. at[u] = "off" /\ u \notin deleted /\ u \notin Waiting
    BY <1>5, <2>2 DEF Homed
  <2> QED
    BY <1>0, <1>1, <1>2, <1>4, <2>1, <2>2, <2>3, <2>4, StartedStep
<1>7. CASE e.kind \in {"switch", "unblock"}
  <2>1. (Switch(u) \/ UnblockNow(u)) /\ UNCHANGED waiters
    BY <1>0, <1>7 DEF Handle, u
  <2>2. u \in Woken /\ u \notin Starting /\ u \notin Woken' /\ Starting' = Starting
    BY <1>2, <1>3, <1>7 DEF WakeKinds
  <2>3. u \notin deleted /\ at[u] # "end"
    BY <1>5, <2>2 DEF Homed
  <2>4. \/ active' = u /\ UNCHANGED <<at, state, deleted>>
        \/ active' = NoThread /\ deleted' = deleted \cup {u} /\ UNCHANGED <<at, state>>
    BY <1>0, <2>1, <2>3 DEF UnblockNow, Switch, Delete
  <2> QED
    BY <1>0, <1>1, <1>2, <1>4, <2>1, <2>2, <2>4, WokenStep
<1>8. CASE e.kind = "delete"
  <2>1. active' = NoThread /\ deleted' = deleted \cup {u} /\ UNCHANGED <<at, state, waiters>>
    BY <1>0, <1>8 DEF Handle, Delete, u
  <2>2. u \in Deleting /\ Woken' = Woken /\ Starting' = Starting
    BY <1>2, <1>3, <1>8
  <2>3. at[u] = "end"
    <3>1. NoThread \notin Thread
      BY ConstantAssumption DEF ConstantAssumption
    <3> QED
      BY <1>0, <1>1, <2>2, <3>1 DEF ThreadInv, EndInv
  <2> QED
    BY <1>0, <1>1, <1>2, <1>4, <2>1, <2>2, <2>3, WokenStep
<1> QED
  BY <1>1, <1>6, <1>7, <1>8 DEF WakeKinds

LEMMA StartAppStep ==
  ASSUME ThreadInv, CoreInv', NEW a \in App, StartApp(a)
  PROVE  ThreadInv'
<1>0. /\ active = NoThread /\ at[a] = "off" /\ Start(a)
      /\ UNCHANGED <<prog, ip, events, pending, waiters, joiners, conditionals, signalled, pendingQ>>
  BY DEF StartApp, Idle, schedVars, mutexVars, queueVars
<1>1. a \in Thread
  BY ConstantAssumption DEF ConstantAssumption
<1>2. a \notin Starting
  <2> SUFFICES ASSUME a \in Starting PROVE FALSE
    OBVIOUS
  <2>1. PICK t \in Thread : \E i \in 1 .. (ip[t] - 1) : Creates(prog, t, i, a)
    BY <1>1 DEF ThreadInv, CreatedInv
  <2>2. PICK i \in 1 .. (ip[t] - 1) : Creates(prog, t, i, a)
    BY <2>1
  <2> QED
    BY <2>2 DEF ThreadInv, Unused, Simple, Creates
<1>3. a \notin Woken /\ a \notin Waiting /\ a \notin deleted
  BY <1>0, <1>1, <1>2 DEF ThreadInv, HomeInv, Homed
<1>4. Woken' = Woken /\ Starting' = Starting /\ Deleting' = Deleting
  BY <1>0 DEF Woken, Starting, Deleting
<1>5. Queue(events')
  BY <1>0 DEF ThreadInv, ListInv
<1> QED
  BY <1>0, <1>1, <1>2, <1>3, <1>4, <1>5, StartedStep

LEMMA NothingStep ==
  ASSUME ThreadInv, CoreInv',
         UNCHANGED <<prog, active, events, at, ip, pending, waiters, joiners, state, conditionals,
                     signalled, pendingQ, deleted>>
  PROVE  ThreadInv'
<1>1. /\ Woken' = Woken /\ CoreWaiters' = CoreWaiters /\ LockWaiters' = LockWaiters
      /\ JoinWaiters' = JoinWaiters /\ Starting' = Starting /\ Deleting' = Deleting
  BY DEF Woken, CoreWaiters, LockWaiters, JoinWaiters, Starting, Deleting
<1>2. ThreadTypes' /\ Unused'
  BY DEF ThreadInv, ThreadTypes, Unused
<1>3. ListInv'
  BY DEF ThreadInv, ListInv, Queue, EachOnce, OneEach, NoTwice
<1>4. HomeInv'
  BY <1>1 DEF ThreadInv, HomeInv, Homed, Waiting
<1>5. CallInv' /\ JoinInv' /\ LockInv'
  BY DEF ThreadInv, CallInv, JoinInv, LockInv, Calling
<1>6. EndInv' /\ CreatedInv'
  BY <1>1 DEF ThreadInv, EndInv, CreatedInv
<1> QED
  BY <1>2, <1>3, <1>4, <1>5, <1>6 DEF ThreadInv

LEMMA ThreadInvStep == ThreadInv /\ [Next]_vars => ThreadInv'
<1> SUFFICES ASSUME ThreadInv, [Next]_vars PROVE ThreadInv'
  OBVIOUS
<1>0. CoreInv'
  BY CoreStep DEF ThreadInv
<1>1. ASSUME NEW t \in Thread, ThreadStep(t) PROVE ThreadInv'
  BY <1>0, <1>1, RunningStep
<1>2. ASSUME NEW a \in App, StartApp(a) PROVE ThreadInv'
  BY <1>0, <1>2, StartAppStep
<1>3. CASE RunEvent
  BY <1>0, <1>3, RunEventStep
<1>4. CASE Incoming
  <2>1. UNCHANGED <<prog, active, events, at, ip, pending, waiters, joiners, state, conditionals,
                    signalled, pendingQ, deleted>>
    BY <1>4 DEF Incoming, ThreadInv, Unused, schedVars, mutexVars
  <2> QED
    BY <1>0, <2>1, NothingStep
<1>5. CASE UNCHANGED vars
  <2>1. UNCHANGED <<prog, active, events, at, ip, pending, waiters, joiners, state, conditionals,
                    signalled, pendingQ, deleted>>
    BY <1>5 DEF vars, schedVars, mutexVars, queueVars, lifeVars
  <2> QED
    BY <1>0, <2>1, NothingStep
<1> QED
  BY <1>1, <1>2, <1>3, <1>4, <1>5 DEF Next

LEMMA ThreadInit == Init /\ Simple(prog) => ThreadInv
<1> SUFFICES ASSUME Init, Simple(prog) PROVE ThreadInv
  OBVIOUS
<1> USE DEF Init
<1>0. CoreInv
  BY CoreInit
<1>1. /\ Woken = {} /\ Starting = {} /\ Deleting = {} /\ CoreWaiters = {}
      /\ LockWaiters = {} /\ JoinWaiters = {}
  BY DEF Woken, Starting, Deleting, Of, CoreWaiters, Threads, LockWaiters, JoinWaiters, ToSet
<1>2. NoThread \notin Thread
  BY ConstantAssumption DEF ConstantAssumption
<1>3. ThreadTypes /\ Unused
  <2>1. waiters \in [Mutex -> Seq(Thread)] /\ joiners \in [Thread -> Seq(Thread)]
    OBVIOUS
  <2>2. ThreadTypes
    BY <2>1 DEF ThreadTypes
  <2>3. Unused
    BY DEF Unused
  <2> QED
    BY <2>2, <2>3
<1>4. ListInv
  BY DEF ListInv, Queue, OneEach, EachOnce, NoTwice
<1>5. HomeInv
  BY <1>1, <1>2 DEF HomeInv, Homed, Waiting
<1>6. CallInv
  BY DEF CallInv
<1>7. JoinInv
  BY DEF JoinInv, ToSet
<1>8. LockInv
  BY DEF LockInv, ToSet
<1>9. EndInv
  BY <1>1 DEF EndInv
<1>10. CreatedInv
  BY <1>1 DEF CreatedInv
<1> QED
  BY <1>0, <1>3, <1>4, <1>5, <1>6, <1>7, <1>8, <1>9, <1>10 DEF ThreadInv

-----------------------------------------------------------------------------
(***************************************************************************)
(* Who deletes a thread: unblock if it was canceled, its own event if it   *)
(* is an application or detached, else the one that joins it.              *)
(***************************************************************************)
Made(u) == \E t \in Thread : \E i \in 1 .. (ip[t] - 1) : Creates(prog, t, i, u)

SubthreadInv ==
  \A u \in subthreads : u \in Thread /\ Made(u) /\ ~Canceled(u) /\ u \notin deleted /\ u \notin Deleting

CanceledInv == \A u \in Thread : Canceled(u) => Made(u)

DeletingInv == Deleting \subseteq App \cup Detached

\* A thread that ends its join finds the other one.
JoinedInv ==
  \A t, u \in Thread : at[t] = "join" /\ Calling(t).thr = u /\ t \notin ToSet(joiners[u]) => u \notin deleted

DeleteInv == JoinedOnce(prog) /\ SubthreadInv /\ CanceledInv /\ DeletingInv /\ JoinedInv

Advance == prog' = prog /\ \A t \in Thread : ip'[t] \in {ip[t], ip[t] + 1}

LEMMA MadeStays ==
  ASSUME CoreTypes, Advance, NEW u, Made(u)
  PROVE  Made(u)'
<1>1. PICK t \in Thread : \E i \in 1 .. (ip[t] - 1) : Creates(prog, t, i, u)
  BY DEF Made
<1>2. PICK i \in 1 .. (ip[t] - 1) : Creates(prog, t, i, u)
  BY <1>1
<1>3. ip[t] \in Nat /\ (ip'[t] = ip[t] \/ ip'[t] = ip[t] + 1)
  BY DEF CoreTypes, Advance
<1>4. i \in 1 .. (ip'[t] - 1)
  BY <1>3
<1> QED
  BY <1>2, <1>4 DEF Made, Advance

\* Only subthreads are created.
LEMMA MadeThreads ==
  ASSUME Unused, NEW u, Made(u)
  PROVE  u \in Thread \ App
<1>1. PICK t \in Thread : \E i \in 1 .. (ip[t] - 1) : Creates(prog, t, i, u)
  BY DEF Made
<1>2. PICK i \in 1 .. (ip[t] - 1) : Creates(prog, t, i, u)
  BY <1>1
<1> QED
  BY <1>2 DEF Unused, Simple, Creates

\* Who is woken or waits has not come to its end.
LEMMA WaitingLives ==
  ASSUME ThreadInv, NEW u \in Thread, u \in Woken \cup Waiting
  PROVE  at[u] \notin {"complete", "end"}
<1>1. active # u /\ at[u] # "end"
  BY DEF ThreadInv, HomeInv, Homed
<1> QED
  BY <1>1 DEF ThreadInv, EndInv

\* A step that deletes nobody who is or will be joined.
Spared(u) == u \in subthreads \/ (u \notin App \cup Detached /\ u \notin Woken \cup Waiting)

LEMMA JoinedKeeps ==
  ASSUME ThreadInv, DeleteInv, Advance,
         \A u \in deleted' : u \in deleted \/ ~Spared(u),
         \A t \in Thread : at'[t] = "join" =>
           \/ at[t] = "join" /\ ip'[t] = ip[t]
           \/ \A u \in Thread : Calling(t).thr' = u => t \in ToSet(joiners'[u]),
         \A t, u \in Thread : t \in ToSet(joiners[u]) /\ t \notin ToSet(joiners'[u]) => u \notin deleted'
  PROVE  JoinedInv'
<1> SUFFICES ASSUME NEW t \in Thread, NEW u \in Thread, at'[t] = "join", Calling(t).thr' = u,
                    t \notin ToSet(joiners'[u]), u \in deleted'
             PROVE  FALSE
  BY DEF JoinedInv
<1>1. at[t] = "join" /\ ip'[t] = ip[t] /\ t \notin ToSet(joiners[u])
  OBVIOUS
<1>2. Calling(t)' = Calling(t)
  BY <1>1 DEF Calling, Advance
<1>3. u \notin deleted
  BY <1>1, <1>2 DEF DeleteInv, JoinedInv
<1>4. ip[t] \in DOMAIN prog[t] /\ Calling(t).op = "join"
  BY <1>1 DEF ThreadInv, CallInv
<1>5. u \notin App \cup Detached
  BY <1>2, <1>4 DEF DeleteInv, JoinedOnce, Calling
<1>6. at[u] \in {"complete", "end"}
  BY <1>1, <1>2 DEF ThreadInv, JoinInv
<1>7. u \notin Woken \cup Waiting
  BY <1>6, WaitingLives
<1> QED
  BY <1>3, <1>5, <1>7 DEF Spared

LEMMA DeleteKeeps ==
  ASSUME ThreadInv, DeleteInv, Advance, subthreads' = subthreads,
         \A u \in Thread : Canceled(u)' => Canceled(u),
         Deleting' \subseteq Deleting,
         \A u \in deleted' : u \in deleted \/ ~Spared(u),
         JoinedInv'
  PROVE  DeleteInv'
<1>1. JoinedOnce(prog)'
  BY DEF DeleteInv, JoinedOnce, Advance, Joins
<1>2. SubthreadInv'
  <2> SUFFICES ASSUME NEW u \in subthreads
               PROVE  u \in Thread /\ Made(u)' /\ ~Canceled(u)' /\ u \notin deleted' /\ u \notin Deleting'
    BY DEF SubthreadInv
  <2>1. u \in Thread /\ Made(u) /\ ~Canceled(u) /\ u \notin deleted /\ u \notin Deleting
    BY DEF DeleteInv, SubthreadInv
  <2>2. Made(u)'
    BY <2>1, MadeStays DEF ThreadInv, CoreInv
  <2> QED
    BY <2>1, <2>2 DEF Spared
<1>3. CanceledInv'
  <2> SUFFICES ASSUME NEW u \in Thread, Canceled(u)' PROVE Made(u)'
    BY DEF CanceledInv
  <2>1. Made(u)
    BY DEF DeleteInv, CanceledInv
  <2> QED
    BY <2>1, MadeStays DEF ThreadInv, CoreInv
<1>4. DeletingInv'
  BY DEF DeleteInv, DeletingInv
<1> QED
  BY <1>1, <1>2, <1>3, <1>4 DEF DeleteInv

LEMMA MovedAdvances ==
  ASSUME NEW t \in Thread, Moved(t)
  PROVE  Advance
  BY DEF Moved, Advance

\* Steps of a thread that wake others, or none.
LEMMA QuietDelete ==
  ASSUME ThreadInv, DeleteInv, NEW t \in Thread, Moved(t),
         at'[t] = "join" => at[t] = "join" /\ ip'[t] = ip[t],
         UNCHANGED <<subthreads, state, joiners>>, Deleting' = Deleting,
         \A u \in deleted' : u \in deleted \/ (u \in Waiting /\ Canceled(u))
  PROVE  DeleteInv'
<1>1. Advance
  BY MovedAdvances
<1>2. ASSUME NEW u \in deleted', u \notin deleted PROVE ~Spared(u)
  <2>1. u \in Waiting /\ Canceled(u)
    BY <1>2
  <2>2. u \notin subthreads
    BY <2>1 DEF DeleteInv, SubthreadInv
  <2> QED
    BY <2>1, <2>2 DEF Spared
<1>3. \A v \in Thread : at'[v] = "join" => at[v] = "join" /\ ip'[v] = ip[v]
  BY DEF Moved
<1>4. JoinedInv'
  BY <1>1, <1>2, <1>3, JoinedKeeps
<1>5. \A u \in Thread : Canceled(u)' => Canceled(u)
  BY DEF Canceled
<1> QED
  BY <1>1, <1>2, <1>4, <1>5, DeleteKeeps

\* ... that leave the events and the deleted threads.
LEMMA SilentDelete ==
  ASSUME ThreadInv, DeleteInv, NEW t \in Thread, Moved(t),
         at'[t] = "join" => at[t] = "join" /\ ip'[t] = ip[t],
         UNCHANGED <<subthreads, state, joiners, events, deleted>>
  PROVE  DeleteInv'
<1>1. Deleting' = Deleting
  BY DEF Deleting
<1> QED
  BY <1>1, QuietDelete

\* The end of a join.
LEMMA JoinDeletes ==
  ASSUME ThreadInv, DeleteInv, NEW t \in Thread, Moved(t), ip[t] \in DOMAIN prog[t],
         Calling(t).op = "join", Calling(t).thr \in Thread, at'[t] = "ready",
         DeleteJoined(Calling(t).thr), events' = events
  PROVE  DeleteInv'
<1> DEFINE w == Calling(t).thr
<1>0. /\ subthreads' = subthreads \ {w} /\ deleted' = deleted \cup {w}
      /\ UNCHANGED <<state, joiners>> /\ Deleting' = Deleting
  BY DEF DeleteJoined, Delete, Deleting
<1>1. Advance
  BY MovedAdvances
<1>2. JoinedOnce(prog)'
  BY <1>1 DEF DeleteInv, JoinedOnce, Advance, Joins
<1>3. w \in Thread /\ Joins(prog, t, ip[t], w)
  BY DEF Joins, Calling
<1> HIDE DEF w
<1>4. SubthreadInv'
  <2> SUFFICES ASSUME NEW u \in subthreads, u # w
               PROVE  u \in Thread /\ Made(u)' /\ ~Canceled(u)' /\ u \notin deleted' /\ u \notin Deleting'
    BY <1>0 DEF SubthreadInv
  <2>1. u \in Thread /\ Made(u) /\ ~Canceled(u) /\ u \notin deleted /\ u \notin Deleting
    BY DEF DeleteInv, SubthreadInv
  <2>2. Made(u)'
    BY <1>1, <2>1, MadeStays DEF ThreadInv, CoreInv
  <2> QED
    BY <1>0, <2>1, <2>2 DEF Canceled
<1>5. CanceledInv'
  <2> SUFFICES ASSUME NEW u \in Thread, Canceled(u)' PROVE Made(u)'
    BY DEF CanceledInv
  <2>1. Made(u)
    BY <1>0 DEF DeleteInv, CanceledInv, Canceled
  <2> QED
    BY <1>1, <2>1, MadeStays DEF ThreadInv, CoreInv
<1>6. DeletingInv'
  BY <1>0 DEF DeleteInv, DeletingInv
<1>7. JoinedInv'
  <2> SUFFICES ASSUME NEW v \in Thread, NEW u \in Thread, at'[v] = "join", Calling(v).thr' = u,
                      v \notin ToSet(joiners[u])
               PROVE  u \notin deleted'
    BY <1>0 DEF JoinedInv
  <2>1. v # t /\ at[v] = "join" /\ Calling(v)' = Calling(v)
    BY DEF Moved, Calling
  <2>2. u \notin deleted
    BY <2>1 DEF DeleteInv, JoinedInv
  <2>3. ip[v] \in DOMAIN prog[v] /\ Joins(prog, v, ip[v], u)
    BY <2>1 DEF ThreadInv, CallInv, Joins, Calling
  <2>4. u # w
    BY <1>3, <2>1, <2>3 DEF DeleteInv, JoinedOnce
  <2> QED
    BY <1>0, <2>2, <2>4
<1> QED
  BY <1>2, <1>4, <1>5, <1>6, <1>7 DEF DeleteInv

LEMMA ReserveDeletes ==
  ASSUME ThreadInv, CoreInv', DeleteInv, NEW t \in Thread, ReserveCores(t)
  PROVE  DeleteInv'
<1>0. active = t /\ at[t] \in Reserving /\ UNCHANGED <<prog, events>>
  BY DEF ReserveCores, Running, Reserving
<1>1. CASE ~Enough(t)
  <2>1. Block(t, at[t]) /\ UNCHANGED <<ip, state, subthreads, joiners, deleted>>
    BY <1>1 DEF ReserveCores, reserveCores, lifeVars
  <2>2. Moved(t) /\ at'[t] = at[t] /\ ip'[t] = ip[t]
    BY <1>0, <2>1, BlockMoves DEF ThreadInv
  <2> QED
    BY <1>0, <2>1, <2>2, SilentDelete
<1>2. CASE Enough(t) /\ at[t] # "join"
  <2>1. /\ UNCHANGED <<state, subthreads, joiners, deleted>>
        /\ \/ Return(t)
           \/ ip' = ip /\ \E label \in {"ready", "run"} : at' = [at EXCEPT ![t] = label]
    BY <1>0, <1>2 DEF ReserveCores, reserveCores, lifeVars, Reserving
  <2>2. Moved(t) /\ at'[t] # "join"
    BY <1>0, <2>1, ReturnMoves, MovedBy DEF ThreadInv
  <2> QED
    BY <1>0, <2>1, <2>2, SilentDelete
<1>3. CASE Enough(t) /\ at[t] = "join"
  <2>1. Return(t) /\ DeleteJoined(Calling(t).thr)
    BY <1>3 DEF ReserveCores, reserveCores
  <2>2. Moved(t) /\ at'[t] = "ready"
    BY <1>0, <2>1, ReturnMoves DEF ThreadInv
  <2>3. ip[t] \in DOMAIN prog[t] /\ Calling(t).op = "join" /\ Calling(t).thr \in Thread
    BY <1>3, JoinedThread DEF ThreadInv, CallInv
  <2> QED
    BY <1>0, <2>1, <2>2, <2>3, JoinDeletes
<1> QED
  BY <1>1, <1>2, <1>3

\* releaseCores deletes a canceled thread that waits for cores, if any.
LEMMA ReleaseDeletes ==
  ASSUME ThreadInv, NEW q, Queue(q), Of(q, WakeKinds) \cap CoreWaiters = {}, NEW n, NEW t, releaseCores(n, t, q)
  PROVE  /\ Deleting' = Of(q, {"delete"})
         /\ \A u \in deleted' : u \in deleted \/ (u \in Waiting /\ Canceled(u))
<1>1. EachOnce(pending) /\ deleted \subseteq Thread
  BY DEF ThreadInv, ListInv, ThreadTypes
<1>2. /\ Deleting' = Of(q, {"delete"})
      /\ \/ deleted' = deleted
         \/ \E u \in CoreWaiters : deleted' = deleted \cup {v \in {u} : Canceled(v)}
  BY <1>1, Released
<1> QED
  BY <1>2 DEF Waiting

\* A timer is set before the cores are given back.
LEMMA TimerSent ==
  ASSUME ThreadInv, NEW t \in Thread, active = t, NEW d \in Durations
  PROVE  LET q == sendDelayed(events, Event(d, "unblock", t, 0)) IN
           Queue(q) /\ Of(q, WakeKinds) \cap CoreWaiters = {} /\ Of(q, {"delete"}) = Deleting
<1> DEFINE e == Event(d, "unblock", t, 0)
           q == sendDelayed(events, e)
<1>1. e \in EventType /\ e.kind = "unblock" /\ e.thr = t /\ "unblock" \in WakeKinds /\ "unblock" \notin {"delete"}
  BY ConstantAssumption DEF Event, EventType, WakeKinds, ConstantAssumption
<1> HIDE DEF e
<1>2. t \notin Woken \cup CoreWaiters
  BY ActiveThread
<1>3. /\ Queue(q)
      /\ \A kinds : Of(q, kinds) = IF e.kind \in kinds THEN Of(events, kinds) \cup {e.thr} ELSE Of(events, kinds)
  <2>1. Queue(events) /\ e.thr \notin Of(events, WakeKinds)
    BY <1>1, <1>2 DEF ThreadInv, ListInv, Woken
  <2> QED
    BY <1>1, <2>1, Sent
<1> HIDE DEF q
<1>4. Of(q, WakeKinds) = Woken \cup {t} /\ Of(q, {"delete"}) = Deleting
  BY <1>1, <1>3 DEF Woken, Deleting
<1>5. Of(q, WakeKinds) \cap CoreWaiters = {}
  BY <1>2, <1>4, WokenApart
<1> QED
  BY <1>3, <1>4, <1>5 DEF q, e

LEMMA TimedDeletes ==
  ASSUME ThreadInv, CoreInv', DeleteInv, NEW t \in Thread, Compute(t) \/ ExecuteRun(t)
  PROVE  DeleteInv'
<1>0. active = t /\ UNCHANGED <<prog, ip, joiners, state, subthreads, deleted>>
  BY DEF Compute, ExecuteRun, Calls, Running, lifeVars
<1>1. PICK label \in {"return", "ran"} : Block(t, label)
  BY DEF Compute, ExecuteRun
<1>2. PICK d \in Durations : events' = sendDelayed(events, Event(d, "unblock", t, 0))
  BY DEF Compute, ExecuteRun
<1>3. Deleting' = Deleting
  BY <1>0, <1>2, TimerSent DEF Deleting
<1>4. Moved(t) /\ at'[t] = label
  BY <1>0, <1>1, BlockMoves DEF ThreadInv
<1> QED
  BY <1>0, <1>3, <1>4, QuietDelete

LEMMA SleepDeletes ==
  ASSUME ThreadInv, CoreInv', DeleteInv, NEW t \in Thread, Sleep(t)
  PROVE  DeleteInv'
<1>0. active = t /\ Block(t, "sleep") /\ UNCHANGED <<prog, ip, joiners, state, subthreads>>
  BY DEF Sleep, Calls, Running
<1>1. PICK d \in Durations : releaseCores(cores[t], t, sendDelayed(events, Event(d, "unblock", t, 0)))
  BY DEF Sleep
<1> DEFINE q == sendDelayed(events, Event(d, "unblock", t, 0))
<1>2. Queue(q) /\ Of(q, WakeKinds) \cap CoreWaiters = {} /\ Of(q, {"delete"}) = Deleting
  BY <1>0, TimerSent
<1>3. releaseCores(cores[t], t, q)
  BY <1>1
<1> HIDE DEF q
<1>4. Deleting' = Deleting /\ \A u \in deleted' : u \in deleted \/ (u \in Waiting /\ Canceled(u))
  BY <1>2, <1>3, ReleaseDeletes
<1>5. Moved(t) /\ at'[t] = "sleep"
  BY <1>0, BlockMoves DEF ThreadInv
<1> QED
  BY <1>0, <1>4, <1>5, QuietDelete

\* The events as they are.
LEMMA EventsApart ==
  ASSUME ThreadInv
  PROVE  Queue(events) /\ Of(events, WakeKinds) \cap CoreWaiters = {} /\ Of(events, {"delete"}) = Deleting
  BY WokenApart DEF ThreadInv, ListInv, Woken, Deleting

LEMMA ExecutedDeletes ==
  ASSUME ThreadInv, CoreInv', DeleteInv, NEW t \in Thread, ExecuteDone(t) \/ Exit(t)
  PROVE  DeleteInv'
<1>0. UNCHANGED <<prog, joiners, state, subthreads>>
  BY DEF ExecuteDone, Exit
<1>1. Moved(t) /\ at'[t] \in {"ready", "cleanup"}
  <2>1. CASE ExecuteDone(t)
    BY <1>0, <2>1, ReturnMoves DEF ExecuteDone, ThreadInv
  <2>2. CASE Exit(t)
    BY <1>0, <2>2, MovedBy DEF Exit, ThreadInv
  <2> QED
    BY <2>1, <2>2
<1>2. CASE \E n : releaseCores(n, t, events)
  <2>1. Deleting' = Deleting /\ \A u \in deleted' : u \in deleted \/ (u \in Waiting /\ Canceled(u))
    BY <1>2, EventsApart, ReleaseDeletes
  <2> QED
    BY <1>0, <1>1, <2>1, QuietDelete
<1>3. CASE UNCHANGED <<events, deleted>>
  BY <1>0, <1>1, <1>3, SilentDelete
<1> QED
  BY <1>2, <1>3 DEF ExecuteDone, Exit

\* An unlock deletes a canceled thread that it would wake.
LEMMA UnlockDeletes ==
  ASSUME ThreadInv, CoreInv', DeleteInv, NEW t \in Thread, Unlock(t)
  PROVE  DeleteInv'
<1> DEFINE m == Calling(t).mut
<1>0. m \in Mutex
  BY MutexCall DEF Unlock
<1>1. Return(t) /\ UNCHANGED <<prog, joiners, state, subthreads>>
  BY DEF Unlock
<1>2. Moved(t) /\ at'[t] = "ready"
  BY <1>1, ReturnMoves DEF ThreadInv
<1>3. CASE ~(locked[m] /\ waiters[m] # <<>>)
  <2>1. UNCHANGED <<events, deleted>>
    BY <1>3 DEF Unlock
  <2> QED
    BY <1>1, <1>2, <2>1, SilentDelete
<1>4. CASE locked[m] /\ waiters[m] # <<>>
  <2> DEFINE h == Head(waiters[m])
  <2>1. events' = Unblock(events, h) /\ deleted' = deleted \cup {u \in {h} : Canceled(u)}
    BY <1>4 DEF Unlock, Delete
  <2>2. h \in Thread /\ h \in LockWaiters
    <3> HIDE DEF m
    <3>1. waiters[m] \in Seq(Thread) /\ waiters[m] # <<>>
      BY <1>0, <1>4 DEF ThreadInv, ThreadTypes
    <3>2. h \in ToSet(waiters[m]) /\ h \in Thread
      BY <3>1 DEF ToSet
    <3> QED
      BY <1>0, <3>2, InLockWaiters
  <2> HIDE DEF h
  <2>3. h \notin Woken
    BY <2>2, WokenApart
  <2>4. Of(events', {"delete"}) = Deleting
    BY <2>1, <2>2, <2>3, Unblocked DEF ThreadInv, ListInv, Woken, Deleting
  <2>5. Deleting' = Deleting /\ \A u \in deleted' : u \in deleted \/ (u \in Waiting /\ Canceled(u))
    BY <2>1, <2>2, <2>4 DEF Deleting, Waiting
  <2> QED
    BY <1>1, <1>2, <2>5, QuietDelete
<1> QED
  BY <1>3, <1>4

LEMMA OtherDeletes ==
  ASSUME ThreadInv, CoreInv', DeleteInv, NEW t \in Thread,
         Execute(t) \/ AfterBlock(t) \/ Lock(t) \/ LockDone(t) \/ Trylock(t) \/ Signal(t) \/ Post(t)
  PROVE  DeleteInv'
<1>0. UNCHANGED <<prog, joiners, state, subthreads>>
  BY DEF Execute, AfterBlock, Lock, LockDone, Trylock, Signal, Post, frameVars, lifeVars
<1>1. CASE Execute(t)
  <2>1. ip' = ip /\ UNCHANGED <<events, deleted>> /\ \E label \in {"execute", "run"} : at' = [at EXCEPT ![t] = label]
    BY <1>1 DEF Execute, lifeVars
  <2>2. Moved(t) /\ at'[t] # "join"
    BY <1>0, <2>1, MovedBy DEF ThreadInv
  <2> QED
    BY <1>0, <2>1, <2>2, SilentDelete
<1>2. CASE Lock(t)
  <2>1. UNCHANGED <<events, deleted>> /\ (Return(t) \/ (Block(t, "lock") /\ ip' = ip))
    BY <1>2 DEF Lock, frameVars, lifeVars
  <2>2. Moved(t) /\ at'[t] # "join"
    BY <1>0, <2>1, ReturnMoves, BlockMoves DEF ThreadInv
  <2> QED
    BY <1>0, <2>1, <2>2, SilentDelete
<1>3. CASE AfterBlock(t) \/ LockDone(t) \/ Trylock(t) \/ Signal(t) \/ Post(t)
  <2>1. signalled = {} /\ pendingQ = <<>> /\ ToSet(pendingQ) = {}
    BY DEF ThreadInv, Unused, ToSet
  <2>2. Return(t) /\ UNCHANGED <<events, deleted>>
    BY <1>3, <2>1 DEF AfterBlock, LockDone, Trylock, Signal, Post, Delete, frameVars, lifeVars
  <2>3. Moved(t) /\ at'[t] = "ready"
    BY <1>0, <2>2, ReturnMoves DEF ThreadInv
  <2> QED
    BY <1>0, <2>2, <2>3, SilentDelete
<1> QED
  BY <1>1, <1>2, <1>3

\* A thread is created once, so it was neither canceled nor deleted before.
LEMMA CreateDeletes ==
  ASSUME ThreadInv, CoreInv', DeleteInv, NEW t \in Thread, Create(t)
  PROVE  DeleteInv'
<1>c. PICK w : w = Calling(t).thr
  OBVIOUS
<1> DEFINE e == Event(0, "start", w, 0)
<1>0. /\ active = t /\ at[t] = "ready" /\ w \in Thread \ App
      /\ ip[t] \in DOMAIN prog[t] /\ ip[t] \in Nat \ {0} /\ Creates(prog, t, ip[t], w)
  <2>1. active = t /\ at[t] = "ready" /\ ip[t] <= Len(prog[t]) /\ Calling(t).op = "create"
    BY DEF Create, Calls, Running
  <2>2. prog[t] \in Seq(Call) /\ ip[t] \in Nat \ {0}
    BY ConstantAssumption DEF ThreadInv, CoreInv, CoreTypes, ConstantAssumption
  <2>3. ip[t] \in DOMAIN prog[t]
    BY <2>1, <2>2
  <2> QED
    BY <1>c, <2>1, <2>2, <2>3 DEF ThreadInv, Unused, Simple, Calling, Creates
<1>1. /\ Return(t) /\ events' = sendDelayed(events, e) /\ subthreads' = subthreads \cup {w}
      /\ UNCHANGED <<prog, state, joiners, deleted>>
  BY <1>c DEF Create, sendNow
<1>2. ~Made(w)
  <2> SUFFICES ASSUME Made(w) PROVE FALSE
    OBVIOUS
  <2>1. PICK v \in Thread : \E i \in 1 .. (ip[v] - 1) : Creates(prog, v, i, w)
    BY DEF Made
  <2>2. PICK i \in 1 .. (ip[v] - 1) : Creates(prog, v, i, w)
    BY <2>1
  <2>3. v = t /\ i = ip[t]
    BY <1>0, <2>2 DEF ThreadInv, Unused, Simple, Creates
  <2> QED
    BY <1>0, <2>2, <2>3
<1>3. w \notin Starting /\ at[w] = "off"
  BY <1>0, <1>2 DEF ThreadInv, CreatedInv, Made
<1>4. w \notin Woken /\ w \notin deleted /\ w \notin Deleting
  BY <1>0, <1>3 DEF ThreadInv, HomeInv, Homed, EndInv
<1>5. ~Canceled(w)
  BY <1>0, <1>2 DEF DeleteInv, CanceledInv
<1>6. e \in EventType /\ e.kind = "start" /\ e.thr = w /\ "start" \in WakeKinds /\ "start" \notin {"delete"}
  BY <1>0 DEF Event, EventType, WakeKinds
<1> HIDE DEF e
<1>7. Deleting' = Deleting
  <2>1. Queue(events) /\ e.thr \notin Of(events, WakeKinds)
    BY <1>4, <1>6 DEF ThreadInv, ListInv, Woken
  <2>2. Of(events', {"delete"}) = Of(events, {"delete"})
    BY <1>1, <1>6, <2>1, Sent
  <2> QED
    BY <2>2 DEF Deleting
<1>8. Moved(t) /\ at'[t] = "ready"
  BY <1>1, ReturnMoves DEF ThreadInv
<1>9. Advance
  BY <1>8, MovedAdvances
<1>10. Made(w)'
  <2>1. ip'[t] = ip[t] + 1
    BY <1>1 DEF Return, ThreadInv, CoreInv, CoreTypes
  <2>2. ip[t] \in 1 .. (ip'[t] - 1)
    BY <1>0, <2>1
  <2> QED
    BY <1>0, <1>1, <2>2 DEF Made
<1>11. SubthreadInv'
  <2> SUFFICES ASSUME NEW u \in subthreads \cup {w}
               PROVE  u \in Thread /\ Made(u)' /\ ~Canceled(u)' /\ u \notin deleted' /\ u \notin Deleting'
    BY <1>1 DEF SubthreadInv
  <2>1. CASE u = w
    BY <1>0, <1>1, <1>4, <1>5, <1>7, <1>10, <2>1 DEF Canceled
  <2>2. CASE u \in subthreads
    <3>1. u \in Thread /\ Made(u) /\ ~Canceled(u) /\ u \notin deleted /\ u \notin Deleting
      BY <2>2 DEF DeleteInv, SubthreadInv
    <3>2. Made(u)'
      BY <1>9, <3>1, MadeStays DEF ThreadInv, CoreInv
    <3> QED
      BY <1>1, <1>7, <3>1, <3>2 DEF Canceled
  <2> QED
    BY <2>1, <2>2
<1>12. CanceledInv'
  <2> SUFFICES ASSUME NEW u \in Thread, Canceled(u)' PROVE Made(u)'
    BY DEF CanceledInv
  <2>1. Made(u)
    BY <1>1 DEF DeleteInv, CanceledInv, Canceled
  <2> QED
    BY <1>9, <2>1, MadeStays DEF ThreadInv, CoreInv
<1>13. JoinedInv'
  <2>1. \A v \in Thread : at'[v] = "join" => at[v] = "join" /\ ip'[v] = ip[v]
    BY <1>8 DEF Moved
  <2> QED
    BY <1>1, <1>9, <2>1, JoinedKeeps
<1>14. JoinedOnce(prog)' /\ DeletingInv'
  BY <1>1, <1>7 DEF DeleteInv, JoinedOnce, Joins, DeletingInv
<1> QED
  BY <1>11, <1>12, <1>13, <1>14 DEF DeleteInv

LEMMA JoinCallDeletes ==
  ASSUME ThreadInv, CoreInv', DeleteInv, NEW t \in Thread, Join(t)
  PROVE  DeleteInv'
<1> DEFINE w == Calling(t).thr
<1>0. /\ active = t /\ at[t] = "ready" /\ w \in Thread
      /\ ip[t] \in DOMAIN prog[t] /\ Calling(t).op = "join" /\ prog' = prog
  BY JoinCall DEF Join
<1>1. CASE ~Known(t, w)
  <2>1. at' = [at EXCEPT ![t] = "threw"] /\ UNCHANGED <<ip, events, state, subthreads, joiners, deleted>>
    BY <1>1 DEF Join, lifeVars
  <2>2. Moved(t) /\ at'[t] = "threw"
    BY <1>0, <2>1, MovedBy DEF ThreadInv
  <2> QED
    BY <2>1, <2>2, SilentDelete
<1>2. CASE Known(t, w) /\ state[w] = "DONE"
  <2>1. DeleteJoined(w) /\ Return(t) /\ events' = events
    BY <1>2 DEF Join
  <2>2. Moved(t) /\ at'[t] = "ready"
    BY <1>0, <2>1, ReturnMoves DEF ThreadInv
  <2>3. DeleteJoined(Calling(t).thr)
    BY <2>1
  <2> QED
    BY <1>0, <2>1, <2>2, <2>3, JoinDeletes
<1>3. CASE Known(t, w) /\ state[w] # "DONE"
  <2>1. /\ joiners' = [joiners EXCEPT ![w] = Append(@, t)]
        /\ releaseCores(cores[t], t, events) /\ Block(t, "join")
        /\ UNCHANGED <<ip, state, subthreads>>
    BY <1>3 DEF Join
  <2>2. Moved(t) /\ at'[t] = "join" /\ ip'[t] = ip[t]
    BY <1>0, <2>1, BlockMoves DEF ThreadInv
  <2>3. Deleting' = Deleting /\ \A u \in deleted' : u \in deleted \/ (u \in Waiting /\ Canceled(u))
    BY <2>1, EventsApart, ReleaseDeletes
  <2>4. Calling(t).thr' = w
    BY <1>0, <2>1 DEF Calling
  <2> HIDE DEF w
  <2>5. /\ ToSet(joiners'[w]) = ToSet(joiners[w]) \cup {t}
        /\ \A u \in Thread : ToSet(joiners[u]) \subseteq ToSet(joiners'[u])
    <3>1. joiners \in [Thread -> Seq(Thread)] /\ NoTwice(joiners[w]) /\ t \notin ToSet(joiners[w])
      BY <1>0, ActiveThread, InJoinWaiters DEF ThreadInv, ThreadTypes, ListInv
    <3>2. ToSet(joiners'[w]) = ToSet(joiners[w]) \cup {t}
      BY <1>0, <2>1, <3>1, AppendList
    <3>3. \A u \in Thread \ {w} : joiners'[u] = joiners[u]
      BY <2>1, <3>1
    <3> QED
      BY <1>0, <3>2, <3>3
  <2>6. \A v \in Thread : at'[v] = "join" =>
          \/ at[v] = "join" /\ ip'[v] = ip[v]
          \/ \A u \in Thread : Calling(v).thr' = u => v \in ToSet(joiners'[u])
    BY <2>2, <2>4, <2>5 DEF Moved
  <2>7. ASSUME NEW u \in deleted', u \notin deleted PROVE ~Spared(u)
    BY <2>3, <2>7 DEF DeleteInv, SubthreadInv, Spared
  <2>8. Advance
    BY <2>2, MovedAdvances
  <2>9. JoinedInv'
    BY <2>5, <2>6, <2>7, <2>8, JoinedKeeps
  <2> QED
    BY <2>1, <2>3, <2>7, <2>8, <2>9, DeleteKeeps DEF Canceled
<1> QED
  BY <1>1, <1>2, <1>3

\* An application forgets the threads it cancels, a detached thread itself.
LEMMA CleanupDeletes ==
  ASSUME ThreadInv, CoreInv', DeleteInv, NEW t \in Thread, Cleanup(t)
  PROVE  DeleteInv'
<1> DEFINE e == Event(0, "delete", t, 0)
<1>0. /\ active = t /\ at[t] = "cleanup" /\ at' = [at EXCEPT ![t] = "complete"]
      /\ state' = [u \in Thread |-> IF u = t THEN "DONE"
                                   ELSE IF u \in Cancels(t) THEN "CANCELED" ELSE state[u]]
      /\ subthreads' = subthreads \ (Cancels(t) \cup {u \in Detached : u = t})
      /\ UNCHANGED <<prog, ip, joiners, deleted>>
  BY DEF Cleanup, Running
<1>1. \/ events' = events
      \/ events' = sendDelayed(events, e) /\ t \in App \cup Detached
  BY DEF Cleanup, sendNow, DeletesItself
<1>2. e \in EventType /\ e.kind = "delete" /\ e.thr = t /\ "delete" \notin WakeKinds
  BY DEF Event, EventType, WakeKinds
<1> HIDE DEF e
<1>3. \A u \in Deleting' : u \in Deleting \/ (u = t /\ t \in App \cup Detached)
  <2>1. Queue(events)
    BY DEF ThreadInv, ListInv
  <2>2. CASE events' = events
    BY <2>2 DEF Deleting
  <2>3. CASE events' = sendDelayed(events, e) /\ t \in App \cup Detached
    <3>1. \A kinds : Of(events', kinds) = IF e.kind \in kinds THEN Of(events, kinds) \cup {e.thr} ELSE Of(events, kinds)
      BY <1>2, <2>1, <2>3, Sent
    <3>2. Of(events', {"delete"}) \subseteq Of(events, {"delete"}) \cup {t}
      BY <1>2, <3>1
    <3> QED
      BY <2>3, <3>2 DEF Deleting
  <2> QED
    BY <1>1, <2>2, <2>3
<1>4. Moved(t) /\ at'[t] = "complete"
  BY <1>0, MovedBy DEF ThreadInv
<1>5. Advance
  BY <1>4, MovedAdvances
<1>6. t \notin App \/ t \notin subthreads
  BY MadeThreads DEF ThreadInv, DeleteInv, SubthreadInv
<1>7. SubthreadInv'
  <2> SUFFICES ASSUME NEW u \in subthreads'
               PROVE  u \in Thread /\ Made(u)' /\ ~Canceled(u)' /\ u \notin deleted' /\ u \notin Deleting'
    BY DEF SubthreadInv
  <2>1. u \in subthreads /\ u \notin Cancels(t) /\ (u = t => t \notin App \cup Detached)
    BY <1>0, <1>6
  <2>2. u \in Thread /\ Made(u) /\ ~Canceled(u) /\ u \notin deleted /\ u \notin Deleting
    BY <2>1 DEF DeleteInv, SubthreadInv
  <2>3. Made(u)'
    BY <1>5, <2>2, MadeStays DEF ThreadInv, CoreInv
  <2>4. ~Canceled(u)'
    BY <1>0, <2>1, <2>2 DEF Canceled
  <2> QED
    BY <1>0, <1>3, <2>1, <2>2, <2>3, <2>4
<1>8. CanceledInv'
  <2> SUFFICES ASSUME NEW u \in Thread, Canceled(u)' PROVE Made(u)'
    BY DEF CanceledInv
  <2>1. Canceled(u) \/ u \in subthreads
    BY <1>0 DEF Canceled, Cancels
  <2>2. Made(u)
    BY <2>1 DEF DeleteInv, CanceledInv, SubthreadInv
  <2> QED
    BY <1>5, <2>2, MadeStays DEF ThreadInv, CoreInv
<1>9. DeletingInv'
  BY <1>3 DEF DeleteInv, DeletingInv
<1>10. JoinedInv'
  <2>1. \A v \in Thread : at'[v] = "join" => at[v] = "join" /\ ip'[v] = ip[v]
    BY <1>4 DEF Moved
  <2> QED
    BY <1>0, <1>5, <2>1, JoinedKeeps
<1>11. JoinedOnce(prog)'
  BY <1>0 DEF DeleteInv, JoinedOnce, Joins
<1> QED
  BY <1>7, <1>8, <1>9, <1>10, <1>11 DEF DeleteInv

\* A thread that wakes those that join it is not deleted yet.
LEMMA CompleteDeletes ==
  ASSUME ThreadInv, CoreInv', DeleteInv, NEW t \in Thread, Complete(t)
  PROVE  DeleteInv'
<1>0. active = t /\ at[t] = "complete" /\ UNCHANGED <<prog, ip, state, subthreads>>
  BY DEF Complete, Running
<1>1. CASE joiners[t] = <<>>
  <2>1. at' = [at EXCEPT ![t] = "end"] /\ UNCHANGED <<events, deleted, joiners>>
    BY <1>1 DEF Complete, JoinersLeft
  <2>2. Moved(t) /\ at'[t] = "end"
    BY <1>0, <2>1, MovedBy DEF ThreadInv
  <2> QED
    BY <1>0, <2>1, <2>2, SilentDelete
<1>2. CASE joiners[t] # <<>>
  <2> DEFINE h == Head(joiners[t])
  <2>1. /\ at' = at /\ events' = Unblock(events, h)
        /\ deleted' = deleted \cup {u \in {h} : Canceled(u)}
        /\ joiners' = [joiners EXCEPT ![t] = Tail(@)]
    BY <1>2 DEF Complete, JoinersLeft, Delete
  <2>2. joiners \in [Thread -> Seq(Thread)] /\ NoTwice(joiners[t]) /\ joiners[t] \in Seq(Thread)
    BY DEF ThreadInv, ThreadTypes, ListInv
  <2>3. h \in Thread /\ h \in ToSet(joiners[t])
    BY <1>2, <2>2 DEF ToSet
  <2> HIDE DEF h
  <2>4. h \in JoinWaiters /\ h \notin Woken /\ h # t /\ t \notin deleted
    BY <1>0, <2>3, ActiveThread, InJoinWaiters, WokenApart
  <2>5. Of(events', {"delete"}) = Deleting
    BY <2>1, <2>3, <2>4, Unblocked DEF ThreadInv, ListInv, Woken, Deleting
  <2>6. Deleting' = Deleting /\ \A u \in deleted' : u \in deleted \/ (u \in Waiting /\ Canceled(u))
    BY <2>1, <2>4, <2>5 DEF Deleting, Waiting
  <2>7. \A u \in Thread \ {t} : joiners'[u] = joiners[u]
    BY <2>1, <2>2
  <2>8. \A v, u \in Thread : v \in ToSet(joiners[u]) /\ v \notin ToSet(joiners'[u]) => u \notin deleted'
    BY <2>1, <2>4, <2>7
  <2>9. ASSUME NEW u \in deleted', u \notin deleted PROVE ~Spared(u)
    BY <2>6, <2>9 DEF DeleteInv, SubthreadInv, Spared
  <2>10. Advance
    BY <1>0 DEF Advance
  <2>11. JoinedInv'
    BY <1>0, <2>1, <2>8, <2>9, <2>10, JoinedKeeps
  <2> QED
    BY <1>0, <2>6, <2>9, <2>10, <2>11, DeleteKeeps DEF Canceled
<1> QED
  BY <1>1, <1>2

\* The DES thread deletes who was canceled when it is woken, and who asked
\* for it; a thread that is started is no longer canceled.
LEMMA EventDeletes ==
  ASSUME ThreadInv, DeleteInv, RunEvent
  PROVE  DeleteInv'
<1> DEFINE e == Head(events)
           u == e.thr
<1>0. /\ events # <<>> /\ events' = Later(Tail(events), e.wait) /\ Handle(e)
      /\ UNCHANGED <<prog, ip, subthreads, joiners>>
  BY DEF RunEvent
<1>1. e \in EventType /\ e.wait \in Int /\ u \in Thread /\ e.kind \in WakeKinds \cup {"delete"}
  <2>1. events \in Seq(EventType)
    BY DEF ThreadInv, ListInv, Queue
  <2>2. e \in EventType
    BY <1>0, <2>1
  <2> QED
    BY <2>2 DEF EventType
<1>2. /\ \A kinds : Of(events', kinds) \subseteq Of(events, kinds)
      /\ \A kinds : e.kind \in kinds => u \in Of(events, kinds)
  BY <1>0, <1>1, Popped DEF ThreadInv, ListInv
<1>3. Deleting' \subseteq Deleting
  BY <1>2 DEF Deleting
<1>4. Advance
  BY <1>0 DEF Advance
<1> HIDE DEF e, u
<1>5. CASE e.kind = "start"
  <2>1. Start(u)
    BY <1>0, <1>5 DEF Handle, u
  <2>2. at' = [at EXCEPT ![u] = "guard"] /\ state' = [state EXCEPT ![u] = "ACTIVE"] /\ deleted' = deleted
    BY <2>1 DEF Start
  <2>3. \A v \in Thread : (Canceled(v)' => Canceled(v)) /\ (at'[v] = "join" => at[v] = "join")
    BY <2>2 DEF Canceled, ThreadInv, ThreadTypes, CoreInv, CoreTypes
  <2>4. JoinedInv'
    BY <1>0, <1>4, <2>2, <2>3, JoinedKeeps
  <2> QED
    BY <1>0, <1>3, <1>4, <2>2, <2>3, <2>4, DeleteKeeps
<1>6. CASE e.kind # "start"
  <2>1. \/ (Switch(u) \/ UnblockNow(u)) /\ e.kind \in WakeKinds
        \/ Delete({u}) /\ UNCHANGED <<at, state>> /\ e.kind = "delete"
    BY <1>0, <1>1, <1>6 DEF Handle, WakeKinds, u
  <2>2. /\ UNCHANGED <<at, state>>
        /\ \A v \in deleted' : \/ v \in deleted
                               \/ v = u /\ Canceled(u) /\ e.kind \in WakeKinds
                               \/ v = u /\ e.kind = "delete"
    BY <2>1 DEF Switch, UnblockNow, Delete
  <2>3. ASSUME NEW v \in deleted', v \notin deleted PROVE ~Spared(v)
    <3>1. CASE v = u /\ Canceled(u) /\ e.kind \in WakeKinds
      <4>1. u \in Woken
        BY <1>2, <3>1 DEF Woken
      <4> QED
        BY <3>1, <4>1 DEF DeleteInv, SubthreadInv, Spared
    <3>2. CASE v = u /\ e.kind = "delete"
      <4>1. u \in Deleting
        BY <1>2, <3>2 DEF Deleting
      <4> QED
        BY <3>2, <4>1 DEF DeleteInv, DeletingInv, SubthreadInv, Spared
    <3> QED
      BY <2>2, <2>3, <3>1, <3>2
  <2>4. JoinedInv'
    BY <1>0, <1>4, <2>2, <2>3, JoinedKeeps
  <2> QED
    BY <1>0, <1>3, <1>4, <2>2, <2>3, <2>4, DeleteKeeps DEF Canceled
<1> QED
  BY <1>5, <1>6

LEMMA StartAppDeletes ==
  ASSUME ThreadInv, DeleteInv, NEW a \in App, StartApp(a)
  PROVE  DeleteInv'
<1>1. /\ at' = [at EXCEPT ![a] = "guard"] /\ state' = [state EXCEPT ![a] = "ACTIVE"]
      /\ UNCHANGED <<prog, ip, events, deleted, subthreads, joiners>>
  BY DEF StartApp, Start
<1>2. \A v \in Thread : (Canceled(v)' => Canceled(v)) /\ (at'[v] = "join" => at[v] = "join")
  BY <1>1 DEF Canceled, ThreadInv, ThreadTypes, CoreInv, CoreTypes
<1>3. Advance /\ Deleting' = Deleting
  BY <1>1 DEF Advance, Deleting
<1>4. JoinedInv'
  BY <1>1, <1>2, <1>3, JoinedKeeps
<1> QED
  BY <1>1, <1>2, <1>3, <1>4, DeleteKeeps

LEMMA NothingDeletes ==
  ASSUME ThreadInv, DeleteInv, UNCHANGED <<prog, at, ip, events, state, deleted, subthreads, joiners>>
  PROVE  DeleteInv'
<1>1. Advance /\ Deleting' = Deleting
  BY DEF Advance, Deleting
<1>2. JoinedInv'
  BY <1>1, JoinedKeeps
<1> QED
  BY <1>1, <1>2, DeleteKeeps DEF Canceled

LEMMA DeleteInvStep == ThreadInv /\ DeleteInv /\ [Next]_vars => DeleteInv'
<1> SUFFICES ASSUME ThreadInv, DeleteInv, [Next]_vars PROVE DeleteInv'
  OBVIOUS
<1>0. CoreInv'
  BY CoreStep DEF ThreadInv
<1>1. ASSUME NEW t \in Thread, ThreadStep(t) PROVE DeleteInv'
  <2>1. CASE ReserveCores(t)
    BY <1>0, <2>1, ReserveDeletes
  <2>2. CASE Create(t)
    BY <1>0, <2>2, CreateDeletes
  <2>3. CASE Join(t)
    BY <1>0, <2>3, JoinCallDeletes
  <2>4. CASE Compute(t) \/ ExecuteRun(t)
    BY <1>0, <2>4, TimedDeletes
  <2>5. CASE Sleep(t)
    BY <1>0, <2>5, SleepDeletes
  <2>6. CASE ExecuteDone(t) \/ Exit(t)
    BY <1>0, <2>6, ExecutedDeletes
  <2>7. CASE Unlock(t)
    BY <1>0, <2>7, UnlockDeletes
  <2>8. CASE Execute(t) \/ AfterBlock(t) \/ Lock(t) \/ LockDone(t) \/ Trylock(t) \/ Signal(t) \/ Post(t)
    BY <1>0, <2>8, OtherDeletes
  <2>9. CASE Cleanup(t)
    BY <1>0, <2>9, CleanupDeletes
  <2>10. CASE Complete(t)
    BY <1>0, <2>10, CompleteDeletes
  <2>11. CASE Wait(t) \/ QueueFront(t)
    BY <2>11, SimpleCall DEF Wait, QueueFront
  <2>12. CASE WaitDone(t) \/ QueueFrontDone(t)
    BY <2>12 DEF WaitDone, QueueFrontDone, Running, ThreadInv, Unused
  <2> QED
    BY <1>1, <2>1, <2>2, <2>3, <2>4, <2>5, <2>6, <2>7, <2>8, <2>9, <2>10, <2>11, <2>12 DEF ThreadStep
<1>2. ASSUME NEW a \in App, StartApp(a) PROVE DeleteInv'
  BY <1>2, StartAppDeletes
<1>3. CASE RunEvent
  BY <1>3, EventDeletes
<1>4. CASE Incoming
  <2>1. UNCHANGED <<prog, at, ip, events, state, deleted, subthreads, joiners>>
    BY <1>4 DEF Incoming, ThreadInv, Unused
  <2> QED
    BY <2>1, NothingDeletes
<1>5. CASE UNCHANGED vars
  <2>1. UNCHANGED <<prog, at, ip, events, state, deleted, subthreads, joiners>>
    BY <1>5 DEF vars, lifeVars
  <2> QED
    BY <2>1, NothingDeletes
<1> QED
  BY <1>1, <1>2, <1>3, <1>4, <1>5 DEF Next

\* No step of a thread or of the DES thread fails.
LEMMA NeverFails ==
  ASSUME ThreadInv, DeleteInv, ~failed, [Next]_vars
  PROVE  ~failed'
<1>1. ASSUME NEW t \in Thread, ThreadStep(t) PROVE ~failed'
  <2>1. CASE ReserveCores(t)
    <3>1. CASE Enough(t) /\ at[t] = "join"
      <4>1. active = t /\ failed' = (Calling(t).thr \in deleted)
        BY <2>1, <3>1 DEF ReserveCores, Running, reserveCores, DeleteJoined
      <4>2. Calling(t).thr \in Thread
        BY <3>1, JoinedThread DEF ThreadInv
      <4>3. t \notin ToSet(joiners[Calling(t).thr])
        BY <4>1, <4>2, ActiveThread, InJoinWaiters
      <4>4. Calling(t).thr \notin deleted
        BY <3>1, <4>2, <4>3 DEF DeleteInv, JoinedInv
      <4> QED
        BY <4>1, <4>4
    <3>2. CASE ~(Enough(t) /\ at[t] = "join")
      <4>1. failed' = failed
        BY <2>1, <3>2 DEF ReserveCores, Running, reserveCores
      <4> QED
        BY <4>1
    <3> QED
      BY <3>1, <3>2
  <2>2. CASE Join(t)
    <3>1. CASE Known(t, Calling(t).thr) /\ state[Calling(t).thr] = "DONE"
      <4>1. failed' = (Calling(t).thr \in deleted) /\ Calling(t).thr \in subthreads
        BY <2>2, <3>1 DEF Join, DeleteJoined, Known
      <4>2. Calling(t).thr \notin deleted
        BY <4>1 DEF DeleteInv, SubthreadInv
      <4> QED
        BY <4>1, <4>2
    <3>2. CASE ~(Known(t, Calling(t).thr) /\ state[Calling(t).thr] = "DONE")
      <4>1. failed' = failed
        BY <2>2, <3>2 DEF Join
      <4> QED
        BY <4>1
    <3> QED
      BY <3>1, <3>2
  <2>3. CASE Signal(t)
    <3>1. signalled = {} /\ failed' = (Calling(t).mut \in signalled /\ conditionals[Calling(t).mut] = <<>>)
      BY <2>3 DEF Signal, ThreadInv, Unused
    <3> QED
      BY <3>1
  <2>4. CASE \/ Create(t) \/ Compute(t) \/ Sleep(t) \/ Execute(t) \/ ExecuteRun(t) \/ ExecuteDone(t)
             \/ AfterBlock(t) \/ Lock(t) \/ LockDone(t) \/ Trylock(t) \/ Unlock(t) \/ Post(t)
             \/ Exit(t) \/ Cleanup(t) \/ Complete(t)
    <3>1. failed' = failed
      BY <2>4 DEF Create, Compute, Sleep, Execute, ExecuteRun, ExecuteDone, AfterBlock, Lock, LockDone,
                  Trylock, Unlock, Post, Exit, Cleanup, Complete, frameVars
    <3> QED
      BY <3>1
  <2>5. CASE Wait(t) \/ QueueFront(t)
    BY <2>5, SimpleCall DEF Wait, QueueFront
  <2>6. CASE WaitDone(t) \/ QueueFrontDone(t)
    BY <2>6 DEF WaitDone, QueueFrontDone, Running, ThreadInv, Unused
  <2> QED
    BY <1>1, <2>1, <2>2, <2>3, <2>4, <2>5, <2>6 DEF ThreadStep
<1>2. ASSUME NEW a \in App, StartApp(a) PROVE ~failed'
  BY <1>2 DEF StartApp, Start
<1>3. CASE RunEvent
  <2> DEFINE e == Head(events)
             u == e.thr
  <2>0. events # <<>> /\ events' = Later(Tail(events), e.wait) /\ Handle(e)
    BY <1>3 DEF RunEvent
  <2>1. e \in EventType /\ e.wait \in Int /\ u \in Thread /\ e.kind \in WakeKinds \cup {"delete"}
    <3>1. events \in Seq(EventType)
      BY DEF ThreadInv, ListInv, Queue
    <3>2. e \in EventType
      BY <2>0, <3>1
    <3> QED
      BY <3>2 DEF EventType
  <2>2. \A kinds : e.kind \in kinds => u \in Of(events, kinds)
    BY <2>0, <2>1, Popped DEF ThreadInv, ListInv
  <2> HIDE DEF e, u
  <2>3. CASE e.kind \in {"start", "delete"}
    <3>1. failed' = failed
      BY <2>0, <2>3 DEF Handle, Start
    <3> QED
      BY <3>1
  <2>4. CASE e.kind \in {"switch", "unblock"}
    <3>1. u \in Woken
      BY <2>2, <2>4 DEF Woken, WakeKinds
    <3>2. u \notin deleted /\ at[u] # "end"
      BY <2>1, <3>1 DEF ThreadInv, HomeInv, Homed
    <3>3. Switch(u) \/ UnblockNow(u)
      BY <2>0, <2>4 DEF Handle, u
    <3>4. failed' = failed
      BY <3>2, <3>3 DEF Switch, UnblockNow
    <3> QED
      BY <3>4
  <2> QED
    BY <2>1, <2>3, <2>4 DEF WakeKinds
<1>4. CASE Incoming
  BY <1>4 DEF Incoming, ThreadInv, Unused
<1>5. CASE UNCHANGED vars
  BY <1>5 DEF vars
<1> QED
  BY <1>1, <1>2, <1>3, <1>4, <1>5 DEF Next

LEMMA DeleteInit == Init /\ JoinedOnce(prog) => DeleteInv /\ ~failed
<1> SUFFICES ASSUME Init, JoinedOnce(prog) PROVE DeleteInv /\ ~failed
  OBVIOUS
<1>1. Deleting = {}
  BY DEF Init, Deleting, Of
<1>2. SubthreadInv /\ CanceledInv /\ DeletingInv
  BY <1>1 DEF Init, SubthreadInv, CanceledInv, DeletingInv, Canceled
<1>3. JoinedInv
  BY DEF Init, JoinedInv
<1> QED
  BY <1>2, <1>3 DEF DeleteInv, Init

(***************************************************************************)
(* In a program without condition variables and progress queues, in which  *)
(* no detached thread and no application is joined, and no thread by two   *)
(* calls: no event, scheduler, mutex or join resumes a thread that was     *)
(* deleted or has ended, whatever is canceled or detached on the way, and  *)
(* no join deletes a thread that was deleted before                        *)
(* (OperatingSystem::switchToThread, unblock and joinThread,               *)
(* Thread::cleanup, pthread_join).  A join of a thread that its            *)
(* application does not know throws: that is not a failure here.           *)
(***************************************************************************)
THEOREM NoThreadIsResumedAfterItsEnd ==
  Spec /\ Simple(prog) /\ JoinedOnce(prog) => []~failed /\ NoFailure
<1> DEFINE Inv == ThreadInv /\ DeleteInv /\ ~failed
<1>1. Init /\ Simple(prog) /\ JoinedOnce(prog) => Inv
  BY ThreadInit, DeleteInit
<1>2. Inv /\ [Next]_vars => Inv'
  BY ThreadInvStep, DeleteInvStep, NeverFails
<1>3. Inv' => [failed' => failed \/ LateTimeout]_vars
  OBVIOUS
<1>4. Inv => ~failed
  OBVIOUS
<1> QED
  BY <1>1, <1>2, <1>3, <1>4, PTL DEF Spec, NoFailure

(***************************************************************************)
(* The wakers of a thread, counted.                                        *)
(***************************************************************************)
LEMMA Single ==
  ASSUME NEW S, NEW x \in S, \A y \in S : y = x
  PROVE  Cardinality(S) = 1
<1>1. S = {x}
  OBVIOUS
<1> QED
  BY <1>1, FS_Singleton

LEMMA None ==
  ASSUME NEW S, \A x \in S : FALSE
  PROVE  Cardinality(S) = 0
<1>1. S = {}
  OBVIOUS
<1> QED
  BY <1>1, FS_EmptySet

\* A list in which no thread is twice is no longer than there are threads.
LEMMA ListBound ==
  ASSUME NEW s \in Seq(Thread), NoTwice(s), NEW i \in DOMAIN s
  PROVE  i \in 1 .. Cardinality(Thread)
<1>1. IsFiniteSet(Thread)
  BY ConstantAssumption DEF ConstantAssumption
<1>2. Len(s) \in Nat /\ DOMAIN s = 1 .. Len(s) /\ s \in [1 .. Len(s) -> Thread]
  OBVIOUS
<1>3. s \in Injection(1 .. Len(s), Thread)
  BY <1>2 DEF Injection, IsInjective, NoTwice
<1>4. Cardinality(1 .. Len(s)) <= Cardinality(Thread)
  BY <1>1, <1>3, FS_Injection
<1>5. Cardinality(1 .. Len(s)) = IF 1 > Len(s) THEN 0 ELSE Len(s) - 1 + 1
  BY <1>2, FS_Interval
<1>6. Cardinality(Thread) \in Nat
  BY <1>1, FS_CardinalityType
<1> DEFINE c == Cardinality(Thread)
           n == Len(s)
<1>7. c \in Nat /\ n <= c /\ n \in Nat /\ i \in 1 .. n
  BY <1>2, <1>4, <1>5, <1>6
<1> HIDE DEF c, n
<1>8. i \in 1 .. c
  BY <1>7
<1> QED
  BY <1>8 DEF c

ByEvent(t) == {k \in DOMAIN events : events[k].thr = t /\ events[k].kind \in {"switch", "start", "unblock"}}
ByCores(t) == {k \in DOMAIN pending : pending[k].thr = t}
ByMutex(t) == {x \in Mutex \X (1 .. Cardinality(Thread)) :
                 \/ x[2] \in DOMAIN waiters[x[1]] /\ waiters[x[1]][x[2]] = t
                 \/ x[2] \in DOMAIN conditionals[x[1]] /\ conditionals[x[1]][x[2]] = t}
ByJoin(t) == {u \in Thread : t \in ToSet(joiners[u])}

LEMMA EventWakers ==
  ASSUME ThreadInv, NEW t \in Thread
  PROVE  Cardinality(ByEvent(t)) = IF t \in Woken THEN 1 ELSE 0
<1>1. ASSUME NEW k \in ByEvent(t) PROVE k \in DOMAIN events /\ events[k].thr = t /\ events[k].kind \in WakeKinds
  BY DEF ByEvent, WakeKinds
<1>2. CASE t \in Woken
  <2>1. PICK k \in DOMAIN events : events[k].thr = t /\ events[k].kind \in WakeKinds
    BY <1>2 DEF Woken, Of
  <2>2. k \in ByEvent(t)
    BY <2>1 DEF ByEvent, WakeKinds
  <2>3. \A j \in ByEvent(t) : j = k
    BY <1>1, <2>1 DEF ThreadInv, ListInv, Queue, OneEach
  <2> QED
    BY <1>2, <2>2, <2>3, Single
<1>3. CASE t \notin Woken
  <2>1. \A k \in ByEvent(t) : FALSE
    BY <1>1, <1>3 DEF Woken, Of
  <2> QED
    BY <1>3, <2>1, None
<1> QED
  BY <1>2, <1>3

LEMMA CoreWakers ==
  ASSUME ThreadInv, NEW t \in Thread
  PROVE  Cardinality(ByCores(t)) = IF t \in CoreWaiters THEN 1 ELSE 0
<1>1. CASE t \in CoreWaiters
  <2>1. PICK k \in DOMAIN pending : pending[k].thr = t
    BY <1>1 DEF CoreWaiters, Threads
  <2>2. k \in ByCores(t)
    BY <2>1 DEF ByCores
  <2>3. \A j \in ByCores(t) : j = k
    BY <2>1 DEF ByCores, ThreadInv, ListInv, EachOnce
  <2> QED
    BY <1>1, <2>2, <2>3, Single
<1>2. CASE t \notin CoreWaiters
  <2>1. \A k \in ByCores(t) : FALSE
    BY <1>2 DEF ByCores, CoreWaiters, Threads
  <2> QED
    BY <1>2, <2>1, None
<1> QED
  BY <1>1, <1>2

LEMMA MutexWakers ==
  ASSUME ThreadInv, NEW t \in Thread
  PROVE  Cardinality(ByMutex(t)) = IF t \in LockWaiters THEN 1 ELSE 0
<1>0. waiters \in [Mutex -> Seq(Thread)] /\ \A m \in Mutex : NoTwice(waiters[m])
  BY DEF ThreadInv, ThreadTypes, ListInv
<1>1. \A m \in Mutex : DOMAIN conditionals[m] = {}
  <2>1. \A m \in Mutex : conditionals[m] = <<>>
    BY DEF ThreadInv, Unused
  <2> QED
    BY <2>1
<1>2. ASSUME NEW x \in ByMutex(t)
      PROVE  /\ x[1] \in Mutex /\ x = <<x[1], x[2]>>
             /\ x[2] \in DOMAIN waiters[x[1]] /\ waiters[x[1]][x[2]] = t
  <2>1. /\ x \in Mutex \X (1 .. Cardinality(Thread))
        /\ \/ x[2] \in DOMAIN waiters[x[1]] /\ waiters[x[1]][x[2]] = t
           \/ x[2] \in DOMAIN conditionals[x[1]]
    BY DEF ByMutex
  <2>2. x[1] \in Mutex /\ x = <<x[1], x[2]>>
    BY <2>1
  <2> QED
    BY <1>1, <2>1, <2>2
<1>3. \A x \in ByMutex(t) : t \in ToSet(waiters[x[1]]) /\ x[1] \in Mutex
  BY <1>2 DEF ToSet
<1>4. CASE t \in LockWaiters
  <2>1. PICK m \in Mutex : t \in ToSet(waiters[m])
    BY <1>4, InLockWaiters
  <2>2. PICK i \in DOMAIN waiters[m] : waiters[m][i] = t
    BY <2>1 DEF ToSet
  <2>3. i \in 1 .. Cardinality(Thread)
    BY <1>0, ListBound
  <2>4. <<m, i>> \in ByMutex(t)
    BY <2>2, <2>3 DEF ByMutex
  <2>5. ASSUME NEW x \in ByMutex(t) PROVE x = <<m, i>>
    <3>1. x[1] = m
      <4>1. Calling(t).mut = m
        BY <2>1 DEF ThreadInv, LockInv
      <4>2. Calling(t).mut = x[1]
        BY <1>3 DEF ThreadInv, LockInv
      <4> QED
        BY <4>1, <4>2
    <3>2. x[2] \in DOMAIN waiters[m] /\ waiters[m][x[2]] = t
      BY <1>2, <3>1
    <3>3. x[2] = i
      BY <1>0, <2>2, <3>2 DEF NoTwice
    <3>4. x = <<x[1], x[2]>>
      BY <1>2
    <3> QED
      BY <3>1, <3>3, <3>4, Zenon
  <2> QED
    BY <1>4, <2>4, <2>5, Single
<1>5. CASE t \notin LockWaiters
  <2>1. \A x \in ByMutex(t) : FALSE
    BY <1>3, <1>5, InLockWaiters
  <2> QED
    BY <1>5, <2>1, None
<1> QED
  BY <1>4, <1>5

LEMMA JoinWakers ==
  ASSUME ThreadInv, NEW t \in Thread
  PROVE  Cardinality(ByJoin(t)) = IF t \in JoinWaiters THEN 1 ELSE 0
<1>1. CASE t \in JoinWaiters
  <2>1. PICK u \in Thread : t \in ToSet(joiners[u])
    BY <1>1, InJoinWaiters
  <2>2. u \in ByJoin(t)
    BY <2>1 DEF ByJoin
  <2>3. \A v \in Thread : t \in ToSet(joiners[v]) => Calling(t).thr = v
    BY DEF ThreadInv, JoinInv
  <2>4. \A v \in ByJoin(t) : v = u
    BY <2>1, <2>3 DEF ByJoin
  <2> QED
    BY <1>1, <2>2, <2>4, Single
<1>2. CASE t \notin JoinWaiters
  <2>1. \A u \in ByJoin(t) : FALSE
    BY <1>2, InJoinWaiters DEF ByJoin
  <2> QED
    BY <1>2, <2>1, None
<1> QED
  BY <1>1, <1>2

LEMMA WakerCount ==
  ASSUME ThreadInv, NEW t \in Thread, Asleep(t)
  PROVE  Wakers(t) = 1
<1>1. Wakers(t) = Cardinality(ByEvent(t)) + Cardinality(ByCores(t))
                  + Cardinality(ByMutex(t)) + Cardinality(ByJoin(t))
  BY DEF Wakers, ByEvent, ByCores, ByMutex, ByJoin
<1> DEFINE a == IF t \in Woken THEN 1 ELSE 0
           b == IF t \in CoreWaiters THEN 1 ELSE 0
           c == IF t \in LockWaiters THEN 1 ELSE 0
           d == IF t \in JoinWaiters THEN 1 ELSE 0
<1>2. Wakers(t) = a + b + c + d
  <2>1. Cardinality(ByEvent(t)) = a /\ Cardinality(ByCores(t)) = b
    BY EventWakers, CoreWakers
  <2>2. Cardinality(ByMutex(t)) = c /\ Cardinality(ByJoin(t)) = d
    BY MutexWakers, JoinWakers
  <2> QED
    BY <1>1, <2>1, <2>2
<1>3. Homed(t) /\ active # t /\ at[t] \notin {"off", "end"} /\ t \notin deleted
  BY DEF ThreadInv, HomeInv, Asleep
<1>4. a + b + c + d = 1
  BY <1>3 DEF Homed, Waiting
<1> QED
  BY <1>2, <1>4

(***************************************************************************)
(* In such a program every thread that sleeps is woken by exactly one      *)
(* event, core release, unlock or end of a thread: block and unblock never *)
(* lose a thread, and never wake it out of a later block, for any number   *)
(* of threads, cores and mutexes (OperatingSystem::block, unblock,         *)
(* SimpleComputeScheduler, pthread_mutex_unlock, completeActiveThread).    *)
(***************************************************************************)
THEOREM EachSleeperHasOneWaker == Spec /\ Simple(prog) => []OneWaker
<1>1. Init /\ Simple(prog) => ThreadInv
  BY ThreadInit
<1>2. ThreadInv /\ [Next]_vars => ThreadInv'
  BY ThreadInvStep
<1>3. ThreadInv => OneWaker
  BY WakerCount DEF OneWaker
<1> QED
  BY <1>1, <1>2, <1>3, PTL DEF Spec

(***************************************************************************)
(* Who has a mutex.  Whoever was told so, or was woken for it and has not  *)
(* run yet, claims it: no two threads do, and none if it is not locked.    *)
(***************************************************************************)
Claim(t, m) ==
  \/ m \in holds[t]
  \/ at[t] = "lock" /\ Calling(t).mut = m /\ t \notin ToSet(waiters[m])

MutexTypes == holds \in [Thread -> SUBSET Mutex] /\ locked \in [Mutex -> BOOLEAN]

ClaimInv ==
  \A m \in Mutex :
    /\ \A t, u \in Thread : Claim(t, m) /\ Claim(u, m) => t = u
    /\ ~locked[m] => waiters[m] = <<>> /\ \A t \in Thread : ~Claim(t, m)

\* A thread has what its program has locked so far.
HeldInv == \A t \in Thread : \A m \in Mutex : Locked(prog, t, ip[t], m) => m \in holds[t]

\* The calls that take time are not those of the mutexes.
Inside == {"sleep", "return", "execute", "run", "ran"}
Long == {"sleep", "compute", "execute"}
PlaceInv == \A t \in Thread : at[t] \in Inside => Calling(t).op \in Long

MutexInv == MutexTypes /\ Disciplined(prog) /\ ClaimInv /\ HeldInv /\ PlaceInv

\* One more call locks its mutex, or keeps what was locked.
LEMMA LockedNext ==
  ASSUME NEW p, NEW t, NEW m, NEW i \in Nat \ {0}, Locked(p, t, i + 1, m)
  PROVE  \/ p[t][i].op = "lock" /\ p[t][i].mut = m
         \/ Locked(p, t, i, m) /\ ~(p[t][i].op = "unlock" /\ p[t][i].mut = m)
<1>1. PICK j \in 1 .. i : /\ p[t][j].op = "lock" /\ p[t][j].mut = m
                          /\ \A k \in (j + 1) .. i : ~(p[t][k].op = "unlock" /\ p[t][k].mut = m)
  <2>1. (i + 1) - 1 = i
    OBVIOUS
  <2> QED
    BY <2>1 DEF Locked
<1>2. CASE j = i
  BY <1>1, <1>2
<1>3. CASE j # i
  <2>1. j \in 1 .. (i - 1) /\ i \in (j + 1) .. i /\ \A k \in (j + 1) .. (i - 1) : k \in (j + 1) .. i
    BY <1>3
  <2>2. Locked(p, t, i, m)
    BY <1>1, <2>1 DEF Locked
  <2> QED
    BY <1>1, <2>1, <2>2
<1> QED
  BY <1>2, <1>3

\* A step that leaves the mutexes alone.
Quiet ==
  /\ UNCHANGED <<prog, holds, locked, waiters>>
  /\ \A u \in Thread :
       /\ at'[u] = "lock" => at[u] = "lock" /\ ip'[u] = ip[u]
       /\ ip'[u] = ip[u] \/ (ip'[u] = ip[u] + 1 /\ Calling(u).op # "lock")
       /\ at'[u] \in Inside => ip'[u] = ip[u] /\ (at[u] \in Inside \/ Calling(u).op \in Long)

LEMMA QuietStep ==
  ASSUME ThreadInv, MutexInv, Quiet
  PROVE  MutexInv'
<1>0. prog' = prog /\ holds' = holds /\ locked' = locked /\ waiters' = waiters
  BY DEF Quiet
<1>1. MutexTypes' /\ Disciplined(prog)'
  BY <1>0 DEF MutexInv, MutexTypes, Disciplined, Locked
<1>2. \A u \in Thread : \A m \in Mutex : Claim(u, m)' => Claim(u, m)
  BY <1>0 DEF Quiet, Claim, Calling
<1>3. ClaimInv'
  BY <1>0, <1>2 DEF MutexInv, ClaimInv
<1>4. HeldInv'
  <2> SUFFICES ASSUME NEW u \in Thread, NEW m \in Mutex, Locked(prog, u, ip'[u], m) PROVE m \in holds[u]
    BY <1>0 DEF HeldInv, Locked
  <2>1. CASE ip'[u] = ip[u]
    BY <2>1 DEF MutexInv, HeldInv
  <2>2. CASE ip'[u] = ip[u] + 1 /\ Calling(u).op # "lock"
    <3>1. ip[u] \in Nat \ {0}
      BY DEF ThreadInv, CoreInv, CoreTypes
    <3>2. Locked(prog, u, ip[u], m)
      BY <2>2, <3>1, LockedNext DEF Calling
    <3> QED
      BY <3>2 DEF MutexInv, HeldInv
  <2> QED
    BY <2>1, <2>2 DEF Quiet
<1>5. PlaceInv'
  BY <1>0 DEF MutexInv, PlaceInv, Quiet, Calling
<1> QED
  BY <1>1, <1>3, <1>4, <1>5 DEF MutexInv

\* A call of a disciplined program.
LEMMA DisciplinedCall ==
  ASSUME ThreadInv, MutexInv, NEW t \in Thread, ip[t] \in DOMAIN prog[t]
  PROVE  /\ Calling(t).op # "trylock"
         /\ Calling(t).op = "unlock" => Calling(t).mut \in holds[t] \/ Calling(t).mut \notin Mutex
<1>1. /\ Calling(t).op # "trylock"
      /\ Calling(t).op = "unlock" => Locked(prog, t, ip[t], Calling(t).mut)
  BY DEF MutexInv, Disciplined, Calling
<1> QED
  BY <1>1 DEF MutexInv, HeldInv

\* The parts of a step of thread t on mutexes.
LEMMA KeepsHeld ==
  ASSUME ThreadInv, MutexInv, NEW t \in Thread, prog' = prog, Return(t),
         NEW m \in Mutex, Calling(t).mut = m,
         \/ Calling(t).op = "lock" /\ holds' = [holds EXCEPT ![t] = @ \cup {m}]
         \/ Calling(t).op = "unlock" /\ holds' = [holds EXCEPT ![t] = @ \ {m}]
  PROVE  HeldInv' /\ PlaceInv' /\ Disciplined(prog)'
<1>0. /\ at \in [Thread -> Places] /\ ip \in [Thread -> Nat \ {0}]
      /\ holds \in [Thread -> SUBSET Mutex]
  BY DEF ThreadInv, CoreInv, CoreTypes, MutexInv, MutexTypes
<1>1. at'[t] = "ready" /\ ip'[t] = ip[t] + 1 /\ \A u \in Thread \ {t} : at'[u] = at[u] /\ ip'[u] = ip[u]
  BY <1>0 DEF Return
<1>2. \A u \in Thread \ {t} : holds'[u] = holds[u]
  BY <1>0
<1>3. ASSUME NEW u \in Thread, NEW n \in Mutex, Locked(prog, u, ip'[u], n) PROVE n \in holds'[u]
  <2>1. CASE u # t
    BY <1>1, <1>2, <1>3, <2>1 DEF MutexInv, HeldInv
  <2>2. CASE u = t
    <3>1. ip[t] \in Nat \ {0} /\ Locked(prog, t, ip[t] + 1, n)
      BY <1>0, <1>1, <1>3, <2>2
    <3>2. \/ Calling(t).op = "lock" /\ Calling(t).mut = n
          \/ Locked(prog, t, ip[t], n) /\ ~(Calling(t).op = "unlock" /\ Calling(t).mut = n)
      BY <3>1, LockedNext DEF Calling
    <3>3. Locked(prog, t, ip[t], n) => n \in holds[t]
      BY DEF MutexInv, HeldInv
    <3> QED
      BY <1>0, <2>2, <3>2, <3>3
  <2> QED
    BY <2>1, <2>2
<1>4. HeldInv'
  BY <1>3 DEF HeldInv, Locked
<1>5. PlaceInv'
  BY <1>1 DEF MutexInv, PlaceInv, Inside, Calling
<1>6. Disciplined(prog)'
  BY DEF MutexInv, Disciplined, Locked
<1> QED
  BY <1>4, <1>5, <1>6

LEMMA LockClaims ==
  ASSUME ThreadInv, MutexInv, NEW t \in Thread, Lock(t)
  PROVE  MutexInv'
<1> DEFINE m == Calling(t).mut
<1>0. /\ active = t /\ at[t] = "ready" /\ m \in Mutex /\ Calling(t).op = "lock" /\ prog' = prog
  BY MutexCall DEF Lock, frameVars
<1>1. /\ at \in [Thread -> Places] /\ ip \in [Thread -> Nat \ {0}]
      /\ holds \in [Thread -> SUBSET Mutex] /\ locked \in [Mutex -> BOOLEAN]
      /\ waiters \in [Mutex -> Seq(Thread)]
  BY DEF ThreadInv, CoreInv, CoreTypes, ThreadTypes, MutexInv, MutexTypes
<1>2. CASE ~locked[m]
  <2>1. /\ locked' = [locked EXCEPT ![m] = TRUE] /\ holds' = [holds EXCEPT ![t] = @ \cup {m}]
        /\ Return(t) /\ waiters' = waiters
    BY <1>2 DEF Lock, Take
  <2>2. HeldInv' /\ PlaceInv' /\ Disciplined(prog)'
    BY <1>0, <2>1, KeepsHeld
  <2>3. at'[t] = "ready" /\ \A u \in Thread \ {t} : at'[u] = at[u] /\ Calling(u)' = Calling(u)
    BY <1>0, <1>1, <2>1 DEF Return, Calling
  <2> HIDE DEF m
  <2>4. MutexTypes'
    BY <1>0, <1>1, <2>1 DEF MutexTypes
  <2>5. \A u \in Thread : \A n \in Mutex : Claim(u, n)' => Claim(u, n) \/ (u = t /\ n = m)
    BY <1>1, <2>1, <2>3 DEF Claim
  <2>6. ClaimInv'
    BY <1>0, <1>1, <1>2, <2>1, <2>5 DEF MutexInv, ClaimInv
  <2> QED
    BY <2>2, <2>4, <2>6 DEF MutexInv
<1>3. CASE locked[m]
  <2>1. /\ waiters' = [waiters EXCEPT ![m] = Append(@, t)] /\ Block(t, "lock")
        /\ UNCHANGED <<ip, locked, holds>>
    BY <1>3 DEF Lock
  <2>2. at'[t] = "lock" /\ \A u \in Thread \ {t} : at'[u] = at[u]
    BY <1>1, <2>1 DEF Block
  <2>3. \A u \in Thread : Calling(u)' = Calling(u)
    BY <1>0, <2>1 DEF Calling
  <2> HIDE DEF m
  <2>4. NoTwice(waiters[m]) /\ t \notin ToSet(waiters[m]) /\ waiters[m] \in Seq(Thread)
    BY <1>0, <1>1, ActiveThread, InLockWaiters DEF ThreadInv, ListInv
  <2>5. /\ ToSet(waiters'[m]) = ToSet(waiters[m]) \cup {t}
        /\ \A n \in Mutex \ {m} : waiters'[n] = waiters[n]
    <3>1. ToSet(Append(waiters[m], t)) = ToSet(waiters[m]) \cup {t}
      BY <2>4, AppendList
    <3> QED
      BY <1>0, <1>1, <2>1, <3>1
  <2>6. Calling(t).mut = m
    BY DEF m
  <2>7. ASSUME NEW u \in Thread, NEW n \in Mutex, Claim(u, n)' PROVE Claim(u, n)
    <3>1. n \in holds[u] \/ (at'[u] = "lock" /\ Calling(u).mut = n /\ u \notin ToSet(waiters'[n]))
      BY <2>1, <2>3, <2>7 DEF Claim
    <3>2. CASE u = t
      BY <1>0, <2>5, <2>6, <3>1, <3>2 DEF Claim
    <3>3. CASE u # t
      BY <1>0, <2>2, <2>5, <3>1, <3>3 DEF Claim
    <3> QED
      BY <3>2, <3>3
  <2>8. ClaimInv'
    BY <1>3, <2>1, <2>5, <2>7 DEF MutexInv, ClaimInv
  <2>9. MutexTypes' /\ Disciplined(prog)'
    BY <1>0, <2>1 DEF MutexInv, MutexTypes, Disciplined, Locked
  <2>10. HeldInv'
    BY <1>0, <2>1 DEF MutexInv, HeldInv, Locked
  <2>11. PlaceInv'
    BY <2>2, <2>3 DEF MutexInv, PlaceInv, Inside
  <2> QED
    BY <2>8, <2>9, <2>10, <2>11 DEF MutexInv
<1> QED
  BY <1>2, <1>3

\* A thread that was woken for its mutex claimed it already.
LEMMA LockDoneClaims ==
  ASSUME ThreadInv, MutexInv, NEW t \in Thread, LockDone(t)
  PROVE  MutexInv'
<1> DEFINE m == Calling(t).mut
<1>0. /\ active = t /\ at[t] = "lock" /\ prog' = prog /\ Return(t) /\ UNCHANGED <<locked, waiters>>
      /\ holds' = [holds EXCEPT ![t] = @ \cup {m}]
  BY DEF LockDone, Running, Take, frameVars
<1>1. /\ at \in [Thread -> Places] /\ ip \in [Thread -> Nat \ {0}]
      /\ holds \in [Thread -> SUBSET Mutex] /\ locked \in [Mutex -> BOOLEAN]
  BY DEF ThreadInv, CoreInv, CoreTypes, MutexInv, MutexTypes
<1>2. Calling(t).op = "lock" /\ m \in Mutex
  <2>1. ip[t] \in DOMAIN prog[t] /\ Calling(t).op = "lock"
    BY <1>0 DEF ThreadInv, CallInv
  <2>2. prog[t] \in Seq(Call)
    BY ConstantAssumption DEF ThreadInv, CoreInv, CoreTypes, ConstantAssumption
  <2>3. Calling(t) \in Call
    BY <2>1, <2>2 DEF Calling
  <2> QED
    BY <2>1, <2>3 DEF Call
<1>3. HeldInv' /\ PlaceInv' /\ Disciplined(prog)'
  BY <1>0, <1>2, KeepsHeld
<1>4. at'[t] = "ready" /\ \A u \in Thread \ {t} : at'[u] = at[u] /\ Calling(u)' = Calling(u)
  BY <1>0, <1>1 DEF Return, Calling
<1>5. Claim(t, m)
  BY <1>0, <1>2, ActiveThread, InLockWaiters DEF Claim
<1> HIDE DEF m
<1>6. MutexTypes'
  BY <1>0, <1>1, <1>2 DEF MutexTypes
<1>7. \A u \in Thread : \A n \in Mutex : Claim(u, n)' => Claim(u, n)
  BY <1>0, <1>1, <1>4, <1>5 DEF Claim
<1>8. ClaimInv'
  BY <1>0, <1>7 DEF MutexInv, ClaimInv
<1> QED
  BY <1>3, <1>6, <1>8 DEF MutexInv

\* The claim of the thread that unlocks goes to the first that waits.
LEMMA UnlockClaims ==
  ASSUME ThreadInv, MutexInv, NEW t \in Thread, Unlock(t)
  PROVE  MutexInv'
<1>0. /\ active = t /\ at[t] = "ready" /\ Calling(t).mut \in Mutex /\ Calling(t).op = "unlock"
      /\ ip[t] \in DOMAIN prog[t] /\ prog' = prog
  BY MutexCall DEF Unlock
<1> PICK m \in Mutex : Calling(t).mut = m
  BY <1>0
<1>1. /\ at \in [Thread -> Places] /\ ip \in [Thread -> Nat \ {0}]
      /\ holds \in [Thread -> SUBSET Mutex] /\ locked \in [Mutex -> BOOLEAN]
      /\ waiters \in [Mutex -> Seq(Thread)]
  BY DEF ThreadInv, CoreInv, CoreTypes, ThreadTypes, MutexInv, MutexTypes
<1>2. /\ holds' = [holds EXCEPT ![t] = @ \ {m}] /\ Return(t)
      /\ locked' = [locked EXCEPT ![m] = locked[m] /\ waiters[m] # <<>>]
      /\ IF locked[m] /\ waiters[m] # <<>>
         THEN waiters' = [waiters EXCEPT ![m] = Tail(@)]
         ELSE waiters' = waiters
  BY DEF Unlock, Give, StaysLocked
<1>3. m \in holds[t]
  BY <1>0, DisciplinedCall
<1>4. Claim(t, m) /\ locked[m]
  BY <1>0, <1>3 DEF Claim, MutexInv, ClaimInv
<1>5. HeldInv' /\ PlaceInv' /\ Disciplined(prog)'
  BY <1>0, <1>2, KeepsHeld
<1>6. at'[t] = "ready" /\ \A u \in Thread \ {t} : at'[u] = at[u] /\ Calling(u)' = Calling(u)
  BY <1>0, <1>1, <1>2 DEF Return, Calling
<1>7. MutexTypes'
  BY <1>0, <1>1, <1>2 DEF MutexTypes
<1>8. \A u \in Thread \ {t} : ~Claim(u, m)
  BY <1>0, <1>4 DEF MutexInv, ClaimInv
<1>9. \A n \in Mutex : n # m => locked'[n] = locked[n] /\ waiters'[n] = waiters[n]
  BY <1>0, <1>1, <1>2
<1>10. \A u \in Thread : \A n \in Mutex : n # m /\ Claim(u, n)' => Claim(u, n)
  BY <1>1, <1>2, <1>6, <1>9 DEF Claim
<1>11. ~Claim(t, m)'
  BY <1>1, <1>2, <1>6 DEF Claim
<1>12. CASE waiters[m] = <<>>
  <2>1. waiters' = waiters
    BY <1>2, <1>12
  <2>2. \A u \in Thread : ~Claim(u, m)'
    BY <1>1, <1>2, <1>6, <1>8, <1>11, <2>1 DEF Claim
  <2>3. ClaimInv'
    BY <1>9, <1>10, <1>12, <2>1, <2>2 DEF MutexInv, ClaimInv
  <2> QED
    BY <1>5, <1>7, <2>3 DEF MutexInv
<1>13. CASE waiters[m] # <<>>
  <2>1. waiters' = [waiters EXCEPT ![m] = Tail(@)] /\ locked'[m]
    BY <1>0, <1>1, <1>2, <1>4, <1>13
  <2>2. NoTwice(waiters[m]) /\ waiters[m] \in Seq(Thread)
    BY <1>0, <1>1 DEF ThreadInv, ListInv
  <2>3. ToSet(waiters'[m]) = ToSet(waiters[m]) \ {Head(waiters[m])}
    <3>1. ToSet(Tail(waiters[m])) = ToSet(waiters[m]) \ {Head(waiters[m])}
      BY <1>13, <2>2, TailList
    <3> QED
      BY <1>0, <1>1, <2>1, <3>1
  <2>4. \A u \in Thread : Claim(u, m)' => u = Head(waiters[m])
    BY <1>1, <1>2, <1>6, <1>8, <1>11, <2>3 DEF Claim
  <2>5. ClaimInv'
    BY <1>9, <1>10, <2>1, <2>4 DEF MutexInv, ClaimInv
  <2> QED
    BY <1>5, <1>7, <2>5 DEF MutexInv
<1> QED
  BY <1>12, <1>13

\* A call that is not of a mutex returns, or its thread is elsewhere in it.
LEMMA QuietReturn ==
  ASSUME ThreadInv, NEW t \in Thread, UNCHANGED <<prog, holds, locked, waiters>>, Return(t),
         Calling(t).op # "lock"
  PROVE  Quiet
<1>1. at \in [Thread -> Places] /\ ip \in [Thread -> Nat \ {0}]
  BY DEF ThreadInv, CoreInv, CoreTypes
<1>2. at'[t] = "ready" /\ ip'[t] = ip[t] + 1 /\ \A u \in Thread \ {t} : at'[u] = at[u] /\ ip'[u] = ip[u]
  BY <1>1 DEF Return
<1> QED
  BY <1>2 DEF Quiet, Inside

LEMMA QuietMove ==
  ASSUME ThreadInv, NEW t \in Thread, UNCHANGED <<prog, holds, locked, waiters, ip>>, NEW label,
         at' = [at EXCEPT ![t] = label], label # "lock",
         label \in Inside => at[t] \in Inside \/ Calling(t).op \in Long
  PROVE  Quiet
<1>1. at \in [Thread -> Places]
  BY DEF ThreadInv, CoreInv, CoreTypes
<1>2. at'[t] = label /\ \A u \in Thread \ {t} : at'[u] = at[u]
  BY <1>1
<1> QED
  BY <1>2 DEF Quiet

LEMMA QuietReserve ==
  ASSUME ThreadInv, MutexInv, NEW t \in Thread, ReserveCores(t)
  PROVE  Quiet
<1>1. at[t] \in {"guard", "execute", "sleep", "join"} /\ reserveCores(t) /\ UNCHANGED <<prog, holds, locked, waiters>>
  BY DEF ReserveCores, Running, mutexVars
<1>2. CASE ~Enough(t)
  <2>1. at' = [at EXCEPT ![t] = at[t]] /\ ip' = ip
    BY <1>1, <1>2 DEF reserveCores, Block
  <2> QED
    BY <1>1, <2>1, QuietMove
<1>3. CASE Enough(t) /\ at[t] \in {"guard", "execute"}
  <2>1. at' = [at EXCEPT ![t] = IF at[t] = "guard" THEN "ready" ELSE "run"] /\ ip' = ip
    BY <1>1, <1>3 DEF reserveCores
  <2> QED
    BY <1>1, <1>3, <2>1, QuietMove DEF Inside
<1>4. CASE Enough(t) /\ at[t] \in {"sleep", "join"}
  <2>1. Return(t)
    BY <1>1, <1>4 DEF reserveCores
  <2>2. Calling(t).op # "lock"
    BY <1>4 DEF ThreadInv, CallInv, MutexInv, PlaceInv, Inside, Long
  <2> QED
    BY <1>1, <2>1, <2>2, QuietReturn
<1> QED
  BY <1>1, <1>2, <1>3, <1>4

LEMMA QuietCall ==
  ASSUME ThreadInv, MutexInv, NEW t \in Thread,
         \/ Create(t) \/ Join(t) \/ Compute(t) \/ Sleep(t) \/ Execute(t)
         \/ ExecuteRun(t) \/ ExecuteDone(t) \/ AfterBlock(t)
  PROVE  Quiet
<1>1. CASE Create(t)
  <2>1. Return(t) /\ Calling(t).op = "create" /\ UNCHANGED <<prog, holds, locked, waiters>>
    BY <1>1 DEF Create, Calls, mutexVars
  <2> QED
    BY <2>1, QuietReturn
<1>2. CASE Join(t)
  <2>1. Calling(t).op = "join" /\ UNCHANGED <<prog, holds, locked, waiters>>
    BY <1>2 DEF Join, Calls, mutexVars
  <2>2. CASE Return(t)
    BY <2>1, <2>2, QuietReturn
  <2>3. CASE Block(t, "join") /\ ip' = ip
    BY <2>1, <2>3, QuietMove DEF Block, Inside
  <2>4. CASE at' = [at EXCEPT ![t] = "threw"] /\ ip' = ip
    BY <2>1, <2>4, QuietMove DEF Inside
  <2> QED
    BY <1>2, <2>2, <2>3, <2>4 DEF Join
<1>3. CASE Compute(t)
  <2>1. /\ at' = [at EXCEPT ![t] = "return"] /\ Calling(t).op = "compute"
        /\ UNCHANGED <<prog, holds, locked, waiters, ip>>
    BY <1>3 DEF Compute, Calls, Block, mutexVars
  <2> QED
    BY <2>1, QuietMove DEF Long
<1>4. CASE Sleep(t)
  <2>1. /\ at' = [at EXCEPT ![t] = "sleep"] /\ Calling(t).op = "sleep"
        /\ UNCHANGED <<prog, holds, locked, waiters, ip>>
    BY <1>4 DEF Sleep, Calls, Block, mutexVars
  <2> QED
    BY <2>1, QuietMove DEF Long
<1>5. CASE Execute(t)
  <2>1. /\ at' = [at EXCEPT ![t] = IF Calling(t).n > cores[t] THEN "execute" ELSE "run"]
        /\ Calling(t).op = "execute" /\ UNCHANGED <<prog, holds, locked, waiters, ip>>
    BY <1>5 DEF Execute, Calls, mutexVars
  <2> QED
    BY <2>1, QuietMove DEF Long
<1>6. CASE ExecuteRun(t)
  <2>1. /\ at[t] = "run" /\ at' = [at EXCEPT ![t] = "ran"]
        /\ UNCHANGED <<prog, holds, locked, waiters, ip>>
    BY <1>6 DEF ExecuteRun, Running, Block, mutexVars
  <2> QED
    BY <2>1, QuietMove DEF Inside
<1>7. CASE ExecuteDone(t) \/ AfterBlock(t)
  <2>1. at[t] \in {"ran", "return"} /\ Return(t) /\ UNCHANGED <<prog, holds, locked, waiters>>
    BY <1>7 DEF ExecuteDone, AfterBlock, Running, mutexVars
  <2>2. Calling(t).op # "lock"
    BY <2>1 DEF MutexInv, PlaceInv, Inside, Long
  <2> QED
    BY <2>1, <2>2, QuietReturn
<1> QED
  BY <1>1, <1>2, <1>3, <1>4, <1>5, <1>6, <1>7

LEMMA QuietEnd ==
  ASSUME ThreadInv, NEW t \in Thread, Signal(t) \/ Post(t) \/ Exit(t) \/ Cleanup(t) \/ Complete(t)
  PROVE  Quiet
<1>1. CASE Signal(t) \/ Post(t)
  <2>1. signalled = {}
    BY DEF ThreadInv, Unused
  <2>2. Return(t) /\ Calling(t).op \in {"signal", "post"} /\ UNCHANGED <<prog, holds, locked, waiters>>
    BY <1>1, <2>1 DEF Signal, Post, Calls, mutexVars
  <2> QED
    BY <2>2, QuietReturn
<1>2. CASE Exit(t) \/ Cleanup(t)
  <2>1. \/ at' = [at EXCEPT ![t] = "cleanup"]
        \/ at' = [at EXCEPT ![t] = "complete"]
    BY <1>2 DEF Exit, Cleanup
  <2>2. UNCHANGED <<prog, holds, locked, waiters, ip>>
    BY <1>2 DEF Exit, Cleanup, mutexVars
  <2> QED
    BY <2>1, <2>2, QuietMove DEF Inside
<1>3. CASE Complete(t)
  <2>1. \/ at' = at
        \/ at' = [at EXCEPT ![t] = "end"]
    BY <1>3 DEF Complete
  <2>2. UNCHANGED <<prog, holds, locked, waiters, ip>>
    BY <1>3 DEF Complete, mutexVars
  <2>3. CASE at' = at
    BY <2>2, <2>3 DEF Quiet
  <2>4. CASE at' = [at EXCEPT ![t] = "end"]
    BY <2>2, <2>4, QuietMove DEF Inside
  <2> QED
    BY <2>1, <2>3, <2>4
<1> QED
  BY <1>1, <1>2, <1>3

\* What the DES thread does.
LEMMA QuietRunEvent ==
  ASSUME ThreadInv, RunEvent
  PROVE  Quiet
<1> DEFINE e == Head(events)
           u == e.thr
<1>0. events # <<>> /\ Handle(e) /\ UNCHANGED <<prog, ip, holds, locked>>
  BY DEF RunEvent
<1>1. u \in Thread /\ e.kind \in {"switch", "start", "unblock", "delete"}
  <2>1. events \in Seq(EventType)
    BY DEF ThreadInv, ListInv, Queue
  <2>2. e \in EventType
    BY <1>0, <2>1
  <2> QED
    BY <2>2 DEF EventType, WakeKinds
<1> HIDE DEF e, u
<1>2. waiters' = waiters /\ (at' = at \/ at' = [at EXCEPT ![u] = "guard"])
  BY <1>0, <1>1 DEF Handle, Start, Switch, UnblockNow, u
<1>3. CASE at' = at
  BY <1>0, <1>2, <1>3 DEF Quiet
<1>4. CASE at' = [at EXCEPT ![u] = "guard"]
  <2> PICK v \in Thread : v = u
    BY <1>1
  <2>1. at' = [at EXCEPT ![v] = "guard"]
    BY <1>4
  <2> QED
    BY <1>0, <1>2, <2>1, QuietMove DEF Inside
<1> QED
  BY <1>2, <1>3, <1>4

LEMMA MutexInvStep == ThreadInv /\ MutexInv /\ [Next]_vars => MutexInv'
<1> SUFFICES ASSUME ThreadInv, MutexInv, [Next]_vars PROVE MutexInv'
  OBVIOUS
<1>1. ASSUME NEW t \in Thread, ThreadStep(t) PROVE MutexInv'
  <2>1. CASE \/ ReserveCores(t)
             \/ Create(t) \/ Join(t) \/ Compute(t) \/ Sleep(t) \/ Execute(t)
             \/ ExecuteRun(t) \/ ExecuteDone(t) \/ AfterBlock(t)
             \/ Signal(t) \/ Post(t) \/ Exit(t) \/ Cleanup(t) \/ Complete(t)
    BY <2>1, QuietReserve, QuietCall, QuietEnd, QuietStep
  <2>2. CASE Lock(t)
    BY <2>2, LockClaims
  <2>3. CASE LockDone(t)
    BY <2>3, LockDoneClaims
  <2>4. CASE Unlock(t)
    BY <2>4, UnlockClaims
  <2>5. CASE Trylock(t)
    BY <2>5, MutexCall, DisciplinedCall DEF Trylock
  <2>6. CASE Wait(t) \/ QueueFront(t)
    BY <2>6, SimpleCall DEF Wait, QueueFront
  <2>7. CASE WaitDone(t) \/ QueueFrontDone(t)
    BY <2>7 DEF WaitDone, QueueFrontDone, Running, ThreadInv, Unused
  <2> QED
    BY <1>1, <2>1, <2>2, <2>3, <2>4, <2>5, <2>6, <2>7 DEF ThreadStep
<1>2. ASSUME NEW a \in App, StartApp(a) PROVE MutexInv'
  <2>1. a \in Thread
    BY ConstantAssumption DEF ConstantAssumption
  <2>2. at' = [at EXCEPT ![a] = "guard"] /\ UNCHANGED <<prog, holds, locked, waiters, ip>>
    BY <1>2 DEF StartApp, Start, mutexVars
  <2> QED
    BY <2>1, <2>2, QuietMove, QuietStep DEF Inside
<1>3. CASE RunEvent
  BY <1>3, QuietRunEvent, QuietStep
<1>4. CASE Incoming
  <2>1. UNCHANGED <<prog, holds, locked, waiters, ip, at>>
    BY <1>4 DEF Incoming, ThreadInv, Unused, mutexVars
  <2>2. Quiet
    BY <2>1 DEF Quiet
  <2> QED
    BY <2>2, QuietStep
<1>5. CASE UNCHANGED vars
  <2>1. UNCHANGED <<prog, holds, locked, waiters, ip, at>>
    BY <1>5 DEF vars, mutexVars
  <2>2. Quiet
    BY <2>1 DEF Quiet
  <2> QED
    BY <2>2, QuietStep
<1> QED
  BY <1>1, <1>2, <1>3, <1>4, <1>5 DEF Next

LEMMA MutexInit == Init /\ Disciplined(prog) => MutexInv
<1> SUFFICES ASSUME Init, Disciplined(prog) PROVE MutexInv
  OBVIOUS
<1> USE DEF Init
<1>1. MutexTypes
  BY DEF MutexTypes
<1>2. ClaimInv
  BY DEF ClaimInv, Claim
<1>3. HeldInv
  <2>1. 1 .. (1 - 1) = {}
    OBVIOUS
  <2> QED
    BY <2>1 DEF HeldInv, Locked
<1>4. PlaceInv
  BY DEF PlaceInv, Inside
<1> QED
  BY <1>1, <1>2, <1>3, <1>4 DEF MutexInv

(***************************************************************************)
(* If moreover no thread unlocks a mutex it has not locked, and none calls *)
(* pthread_mutex_trylock (which reports a lock it does not take), at most  *)
(* one thread has a mutex: pthread_mutex_unlock leaves it locked for the   *)
(* waiter it wakes, so nobody takes it before that thread runs.            *)
(***************************************************************************)
THEOREM MutexesExclude == Spec /\ Simple(prog) /\ Disciplined(prog) => []MutualExclusion
<1>1. Init /\ Simple(prog) /\ Disciplined(prog) => ThreadInv /\ MutexInv
  BY ThreadInit, MutexInit
<1>2. ThreadInv /\ MutexInv /\ [Next]_vars => ThreadInv' /\ MutexInv'
  BY ThreadInvStep, MutexInvStep
<1>3. ThreadInv /\ MutexInv => MutualExclusion
  <2> SUFFICES ASSUME MutexInv, NEW m \in Mutex
               PROVE  Cardinality({t \in Thread : m \in holds[t]}) <= 1
    BY DEF MutualExclusion
  <2> DEFINE S == {t \in Thread : m \in holds[t]}
  <2>1. \A t, u \in S : t = u
    BY DEF MutexInv, ClaimInv, Claim
  <2> HIDE DEF S
  <2>2. CASE \E t : t \in S
    <3>1. PICK t \in S : TRUE
      BY <2>2
    <3>2. Cardinality(S) = 1
      BY <2>1, <3>1, Single
    <3> QED
      BY <3>2 DEF S
  <2>3. CASE ~\E t : t \in S
    <3>1. Cardinality(S) = 0
      BY <2>3, None
    <3> QED
      BY <3>1 DEF S
  <2> QED
    BY <2>2, <2>3
<1> QED
  BY <1>1, <1>2, <1>3, PTL DEF Spec

(***************************************************************************)
(* The cores of programs that free one at a time.  Every idle core is for  *)
(* a thread that was woken or runs, and is about to take one.              *)
(***************************************************************************)
Retrying == {t \in Thread : (t \in Woken \/ active = t) /\ at[t] \in Reserving}

\* The cores a thread has and asks for, by the place it is at.
Share(label, has, asks) ==
  /\ label = "off" => has = 0
  /\ label \in {"ready", "return", "lock"} => has = 1
  /\ label \in {"guard", "sleep", "join"} => has = 0 /\ asks = 1
  /\ label = "execute" => has = 1 /\ asks = 1
  /\ label \in {"run", "ran"} => asks <= 1 /\ has = IF asks > 0 THEN 2 ELSE 1

ShareInv == \A t \in Thread : Share(at[t], cores[t], want[t])
PendInv == \A k \in DOMAIN pending : pending[k].n = 1 /\ at[pending[k].thr] \in Reserving
SpareInv == pending # <<>> => Cardinality(Retrying) >= Free \/ Swallowed
WorkInv == OneMore(prog) /\ ShareInv /\ PendInv /\ SpareInv

LEMMA RetryingFinite ==
  /\ IsFiniteSet(Retrying) /\ Cardinality(Retrying) \in Nat
  /\ IsFiniteSet(Retrying') /\ Cardinality(Retrying') \in Nat
<1>1. IsFiniteSet(Thread)
  BY ConstantAssumption DEF ConstantAssumption
<1>2. Retrying \in SUBSET Thread /\ Retrying' \in SUBSET Thread
  BY DEF Retrying
<1> QED
  BY <1>1, <1>2, FS_Subset, FS_CardinalityType

LEMMA FreeCores ==
  ASSUME ThreadInv
  PROVE  Free \in Nat /\ NCores \in Nat /\ ncoreActive \in Int
  BY ConstantAssumption DEF ConstantAssumption, ThreadInv, CoreInv, CoreTypes, CoresConserved, Free

\* Nothing is freed, and who was about to take a core still is.
LEMMA SpareKeeps ==
  ASSUME ThreadInv, SpareInv, Swallowed => Swallowed', UNCHANGED <<pending, ncoreActive>>,
         Retrying \subseteq Retrying' \/ Swallowed'
  PROVE  SpareInv'
<1>1. CASE Swallowed'
  BY <1>1 DEF SpareInv
<1>2. CASE Retrying \subseteq Retrying' /\ ~Swallowed'
  <2> DEFINE r == Cardinality(Retrying)
             s == Cardinality(Retrying')
  <2>1. r \in Nat /\ s \in Nat /\ r <= s
    BY <1>2, RetryingFinite, FS_Subset
  <2>2. pending' # <<>> => r >= Free
    BY <1>2 DEF SpareInv
  <2>3. Free' = Free /\ Free \in Nat
    BY FreeCores DEF Free
  <2> HIDE DEF r, s
  <2>4. pending' # <<>> => s >= Free'
    BY <2>1, <2>2, <2>3
  <2> QED
    BY <2>4 DEF SpareInv, s
<1> QED
  BY <1>1, <1>2

\* One core is taken by a thread that was about to.
LEMMA SpareTaken ==
  ASSUME ThreadInv, SpareInv, Swallowed => Swallowed', pending' = pending, ncoreActive' = ncoreActive + 1,
         NEW t \in Retrying, Retrying \ {t} \subseteq Retrying'
  PROVE  SpareInv'
<1>1. CASE Swallowed'
  BY <1>1 DEF SpareInv
<1>2. CASE ~Swallowed'
  <2> DEFINE r == Cardinality(Retrying)
             s == Cardinality(Retrying')
  <2>1. /\ IsFiniteSet(Retrying \ {t}) /\ Cardinality(Retrying \ {t}) = r - 1
    BY RetryingFinite, FS_RemoveElement
  <2>2. Cardinality(Retrying \ {t}) <= s
    BY RetryingFinite, FS_Subset
  <2>3. r \in Nat /\ s \in Nat /\ r - 1 <= s
    BY <2>1, <2>2, RetryingFinite
  <2>4. pending' # <<>> => r >= Free
    BY <1>2 DEF SpareInv
  <2>5. Free' = Free - 1 /\ Free \in Nat
    BY FreeCores DEF Free
  <2> HIDE DEF r, s
  <2>6. pending' # <<>> => s >= Free'
    BY <2>3, <2>4, <2>5
  <2> QED
    BY <2>6 DEF SpareInv, s
<1> QED
  BY <1>1, <1>2

\* One core is freed, for a thread that is woken.
LEMMA SpareFreed ==
  ASSUME ThreadInv, SpareInv, Swallowed => Swallowed', pending # <<>>, ncoreActive' = ncoreActive - 1,
         NEW u \in Thread \ Retrying, Retrying \cup {u} \subseteq Retrying'
  PROVE  SpareInv'
<1>1. CASE Swallowed'
  BY <1>1 DEF SpareInv
<1>2. CASE ~Swallowed'
  <2> DEFINE r == Cardinality(Retrying)
             s == Cardinality(Retrying')
  <2>1. /\ IsFiniteSet(Retrying \cup {u}) /\ Cardinality(Retrying \cup {u}) = r + 1
    BY RetryingFinite, FS_AddElement
  <2>2. Cardinality(Retrying \cup {u}) <= s
    BY RetryingFinite, FS_Subset
  <2>3. r \in Nat /\ s \in Nat /\ r + 1 <= s
    BY <2>1, <2>2, RetryingFinite
  <2>4. r >= Free
    BY <1>2 DEF SpareInv
  <2>5. Free' = Free + 1 /\ Free \in Nat
    BY FreeCores DEF Free
  <2> HIDE DEF r, s
  <2>6. s >= Free'
    BY <2>3, <2>4, <2>5
  <2> QED
    BY <2>6 DEF SpareInv, s
<1> QED
  BY <1>1, <1>2

LEMMA ShareStep ==
  ASSUME ThreadInv, ShareInv, NEW t \in Thread,
         \A u \in Thread \ {t} : at'[u] = at[u] /\ cores'[u] = cores[u] /\ want'[u] = want[u],
         Share(at'[t], cores'[t], want'[t])
  PROVE  ShareInv'
<1> SUFFICES ASSUME NEW u \in Thread PROVE Share(at'[u], cores'[u], want'[u])
  BY DEF ShareInv
<1> QED
  BY DEF ShareInv

\* Who waits for cores does not move.
LEMMA PendKeeps ==
  ASSUME ThreadInv, PendInv, NEW t \in Thread, t \notin CoreWaiters,
         \A u \in Thread \ {t} : at'[u] = at[u],
         \A k \in DOMAIN pending' : \E l \in DOMAIN pending : pending'[k] = pending[l]
  PROVE  PendInv'
<1>1. ASSUME NEW l \in DOMAIN pending
      PROVE  pending[l].n = 1 /\ pending[l].thr \in Thread /\ at'[pending[l].thr] \in Reserving
  <2>1. pending[l].thr \in CoreWaiters
    BY DEF CoreWaiters, Threads
  <2>2. pending[l].thr \in Thread \ {t}
    BY <2>1, WokenApart
  <2> QED
    BY <2>2 DEF PendInv
<1> QED
  BY <1>1 DEF PendInv

\* The running thread was not about to take a core, and no event is lost.
LEMMA RetryingGrows ==
  ASSUME ThreadInv, NEW t \in Thread, active = t, at[t] \notin Reserving, Woken \subseteq Woken',
         \A u \in Thread \ {t} : at'[u] = at[u]
  PROVE  Retrying \subseteq Retrying'
  BY DEF Retrying

LEMMA SwallowedKeeps ==
  ASSUME deleted \subseteq deleted', \A u \in deleted : Canceled(u) => Canceled(u)'
  PROVE  Swallowed => Swallowed'
  BY DEF Swallowed

\* A step of the running thread that neither takes nor frees cores.
LEMMA PlainStep ==
  ASSUME ThreadInv, WorkInv, NEW t \in Thread, active = t, at[t] \notin Reserving,
         prog' = prog, UNCHANGED <<pending, ncoreActive, cores>>, Woken \subseteq Woken',
         \A u \in Thread \ {t} : at'[u] = at[u] /\ want'[u] = want[u],
         Share(at'[t], cores'[t], want'[t]),
         deleted \subseteq deleted', \A u \in deleted : Canceled(u) => Canceled(u)'
  PROVE  WorkInv'
<1>1. ShareInv'
  BY ShareStep DEF WorkInv
<1>2. PendInv'
  <2>1. t \notin CoreWaiters
    BY ActiveThread
  <2> QED
    BY <2>1, PendKeeps DEF WorkInv
<1>3. SpareInv'
  <2>1. Retrying \subseteq Retrying'
    BY RetryingGrows
  <2> QED
    BY <2>1, SpareKeeps, SwallowedKeeps DEF WorkInv
<1>4. OneMore(prog)'
  BY DEF WorkInv, OneMore
<1> QED
  BY <1>1, <1>2, <1>3, <1>4 DEF WorkInv

LEMMA EventsType ==
  ASSUME ThreadInv
  PROVE  events \in Seq(EventType)
  BY DEF ThreadInv, ListInv, Queue

\* An event more loses none.
LEMMA WokenSent ==
  ASSUME ThreadInv, NEW e \in EventType, events' = sendDelayed(events, e)
  PROVE  Woken \subseteq Woken'
<1>1. Of(sendDelayed(events, e), WakeKinds) =
        IF e.kind \in WakeKinds THEN Of(events, WakeKinds) \cup {e.thr} ELSE Of(events, WakeKinds)
  BY EventsType, SentTo
<1>2. Woken' = Of(sendDelayed(events, e), WakeKinds)
  BY DEF Woken
<1> QED
  BY <1>1, <1>2 DEF Woken

LEMMA WokenUnblocked ==
  ASSUME ThreadInv, NEW u \in Thread, events' = Unblock(events, u)
  PROVE  Woken \subseteq Woken'
<1> DEFINE e == Event(0, "switch", u, 0)
<1>1. e \in EventType
  BY DEF Event, EventType, WakeKinds
<1>2. events' = events \/ events' = sendDelayed(events, e)
  BY DEF Unblock, sendNow
<1> HIDE DEF e
<1>3. CASE events' = events
  BY <1>3 DEF Woken
<1> QED
  BY <1>1, <1>2, <1>3, WokenSent

LEMMA RemovedFrom ==
  ASSUME NEW S, NEW s \in Seq(S), NEW i \in DOMAIN s
  PROVE  \A k \in DOMAIN RemoveAt(s, i) : \E l \in DOMAIN s : RemoveAt(s, i)[k] = s[l]
<1> DEFINE r == RemoveAt(s, i)
           n == Len(s)
<1>0. n \in Nat /\ DOMAIN s = 1 .. n
  OBVIOUS
<1>1. r \in Seq(S) /\ Len(r) = n - 1 /\ \A k \in 1 .. n - 1 : r[k] = IF k < i THEN s[k] ELSE s[k + 1]
  BY <1>0, Removed
<1> HIDE DEF r, n
<1>2. DOMAIN r = 1 .. n - 1
  BY <1>0, <1>1
<1> SUFFICES ASSUME NEW k \in 1 .. n - 1 PROVE \E l \in DOMAIN s : r[k] = s[l]
  BY <1>2 DEF r
<1>3. k \in DOMAIN s /\ k + 1 \in DOMAIN s
  BY <1>0
<1> QED
  BY <1>1, <1>3

\* releaseCores of one core, with the events of q sent before.
LEMMA FreeStep ==
  ASSUME ThreadInv, WorkInv, NEW t \in Thread, active = t, at[t] \notin Reserving,
         NEW q \in Seq(EventType), Woken \subseteq Of(q, WakeKinds),
         NEW n, n = 1, releaseCores(n, t, q), prog' = prog, state' = state,
         \A u \in Thread \ {t} : at'[u] = at[u] /\ want'[u] = want[u],
         Share(at'[t], cores[t] - 1, want'[t])
  PROVE  WorkInv'
<1> DEFINE fit == Fitting(Free + 1)
           k == Min(fit)
           u == pending[k].thr
<1>0. /\ cores' = [cores EXCEPT ![t] = cores[t] - 1] /\ ncoreActive' = ncoreActive - 1
      /\ IF fit = {}
         THEN events' = q /\ UNCHANGED <<pending, deleted>>
         ELSE /\ pending' = RemoveAt(pending, k) /\ events' = Unblock(q, u)
              /\ deleted' = deleted \cup {v \in {u} : Canceled(v)}
  BY DEF releaseCores, Kept, Erase, Delete
<1>1. /\ at \in [Thread -> Places] /\ cores \in [Thread -> 0 .. NCores] /\ pending \in Seq(Entry)
  BY DEF ThreadInv, CoreInv, CoreTypes, ListInv, EachOnce
<1>2. t \notin CoreWaiters
  BY ActiveThread
<1>3. ShareInv'
  BY <1>0, <1>1, ShareStep DEF WorkInv
<1>4. OneMore(prog)'
  BY DEF WorkInv, OneMore
<1>5. deleted \subseteq deleted' /\ \A v \in deleted : Canceled(v) => Canceled(v)'
  BY <1>0 DEF Canceled
<1>6. Swallowed => Swallowed'
  BY <1>5, SwallowedKeeps
<1>7. fit = DOMAIN pending
  <2>1. Free \in Nat
    BY FreeCores
  <2>2. \A l \in DOMAIN pending : pending[l].n = 1
    BY DEF WorkInv, PendInv
  <2> DEFINE m == Free + 1
  <2>3. 1 <= m
    BY <2>1
  <2> HIDE DEF m
  <2>4. Fitting(m) = {l \in DOMAIN pending : pending[l].n <= m}
    BY DEF Fitting
  <2>5. \A l \in DOMAIN pending : pending[l].n <= m
    BY <2>2, <2>3
  <2>6. Fitting(m) = DOMAIN pending
    BY <2>4, <2>5, Zenon
  <2> QED
    BY <2>6 DEF m
<1>8. CASE pending = <<>>
  <2>1. pending' = <<>>
    BY <1>0, <1>7, <1>8
  <2>2. PendInv' /\ SpareInv'
    BY <2>1 DEF PendInv, SpareInv
  <2> QED
    BY <1>3, <1>4, <2>2 DEF WorkInv
<1>9. CASE pending # <<>>
  <2>1. fit # {} /\ fit \subseteq Nat
    <3>1. DOMAIN pending # {} /\ DOMAIN pending \subseteq Nat
      <4> DEFINE d == DOMAIN pending
                 l == Len(pending)
      <4>1. l \in Nat \ {0} /\ d = 1 .. l
        BY <1>1, <1>9
      <4> HIDE DEF d, l
      <4>2. 1 \in d /\ d \subseteq Nat
        BY <4>1
      <4> QED
        BY <4>2 DEF d
    <3> QED
      BY <1>7, <3>1, Zenon
  <2>2. k \in DOMAIN pending
    <3> HIDE DEF fit
    <3>1. k \in fit
      BY <2>1, FirstFitting
    <3> QED
      BY <1>7, <3>1
  <2>3. /\ pending' = RemoveAt(pending, k) /\ events' = Unblock(q, u)
        /\ deleted' = deleted \cup {v \in {u} : Canceled(v)}
    BY <1>0, <2>1
  <2> HIDE DEF k, fit
  <2>4. u \in CoreWaiters /\ u \in Thread /\ at[u] \in Reserving
    <3>1. u \in CoreWaiters
      BY <2>2 DEF CoreWaiters, Threads
    <3> QED
      BY <2>2, <3>1, WokenApart DEF WorkInv, PendInv
  <2>5. u # t /\ at'[u] = at[u] /\ u \notin Woken
    BY <1>2, <2>4, WokenApart
  <2>6. PendInv'
    <3>1. \A j \in DOMAIN pending' : \E l \in DOMAIN pending : pending'[j] = pending[l]
      BY <1>1, <2>2, <2>3, RemovedFrom
    <3> QED
      BY <1>2, <3>1, PendKeeps DEF WorkInv
  <2> HIDE DEF u
  <2>7. CASE Canceled(u)
    <3>1. Swallowed'
      BY <2>3, <2>7 DEF Swallowed, Canceled
    <3>2. SpareInv'
      BY <3>1 DEF SpareInv
    <3> QED
      BY <1>3, <1>4, <2>6, <3>2 DEF WorkInv
  <2>8. CASE ~Canceled(u)
    <3> DEFINE e == Event(0, "switch", u, 0)
    <3>1. e \in EventType /\ e.kind \in WakeKinds /\ e.thr = u
      BY <2>4 DEF Event, EventType, WakeKinds
    <3>2. events' = sendDelayed(q, e)
      BY <2>3, <2>8 DEF Unblock, sendNow
    <3> HIDE DEF e
    <3>3. Of(sendDelayed(q, e), WakeKinds) = Of(q, WakeKinds) \cup {u}
      BY <3>1, SentTo
    <3>4. Woken \subseteq Woken' /\ u \in Woken'
      BY <3>2, <3>3 DEF Woken
    <3>5. Retrying \subseteq Retrying'
      BY <3>4, RetryingGrows
    <3>6. u \in Retrying' /\ u \notin Retrying
      BY <2>4, <2>5, <3>4 DEF Retrying
    <3>7. SpareInv'
      BY <1>0, <1>6, <1>9, <2>4, <3>5, <3>6, SpareFreed DEF WorkInv
    <3> QED
      BY <1>3, <1>4, <2>6, <3>7 DEF WorkInv
  <2> QED
    BY <2>7, <2>8
<1> QED
  BY <1>8, <1>9

\* A round of reserveCores.
LEMMA TakeStep ==
  ASSUME ThreadInv, WorkInv, NEW t \in Thread, ReserveCores(t)
  PROVE  WorkInv'
<1>0. /\ active = t /\ at[t] \in Reserving /\ reserveCores(t) /\ UNCHANGED <<prog, events, want>>
  BY DEF ReserveCores, Running, Reserving
<1>1. /\ at \in [Thread -> Places] /\ cores \in [Thread -> 0 .. NCores] /\ pending \in Seq(Entry)
      /\ ip \in [Thread -> Nat \ {0}]
  BY DEF ThreadInv, CoreInv, CoreTypes, ListInv, EachOnce
<1>2. t \notin CoreWaiters
  BY <1>0, ActiveThread
<1>3. OneMore(prog)'
  BY <1>0 DEF WorkInv, OneMore
<1>4. want[t] = 1 /\ Share(at[t], cores[t], want[t])
  BY <1>0 DEF WorkInv, ShareInv, Share, Reserving
<1>5. Free \in Nat
  BY FreeCores
<1>6. CASE ~Enough(t)
  <2>1. /\ pending' = Append(pending, [n |-> want[t], thr |-> t]) /\ at' = at
        /\ UNCHANGED <<cores, ncoreActive>>
    BY <1>0, <1>1, <1>6 DEF reserveCores, Block
  <2>2. ShareInv'
    BY <1>0, <2>1 DEF WorkInv, ShareInv
  <2>3. PendInv'
    <3> SUFFICES ASSUME NEW j \in DOMAIN pending'
                 PROVE  pending'[j].n = 1 /\ at[pending'[j].thr] \in Reserving
      BY <2>1 DEF PendInv
    <3>1. CASE j = Len(pending) + 1
      <4>1. pending'[j] = [n |-> want[t], thr |-> t]
        BY <1>1, <2>1, <3>1
      <4> QED
        BY <1>0, <1>4, <4>1
    <3>2. CASE j # Len(pending) + 1
      <4>1. j \in DOMAIN pending /\ pending'[j] = pending[j]
        BY <1>1, <2>1, <3>2
      <4> QED
        BY <4>1 DEF WorkInv, PendInv
    <3> QED
      BY <3>1, <3>2
  <2>4. SpareInv'
    <3>1. Free' = Free /\ Free = 0
      BY <1>4, <1>5, <1>6, <2>1 DEF Enough, Free
    <3>2. Cardinality(Retrying') >= 0
      <4> DEFINE s == Cardinality(Retrying')
      <4>1. s \in Nat
        BY RetryingFinite
      <4> HIDE DEF s
      <4>2. s >= 0
        BY <4>1
      <4> QED
        BY <4>2 DEF s
    <3> QED
      BY <3>1, <3>2 DEF SpareInv
  <2> QED
    BY <1>3, <2>2, <2>3, <2>4 DEF WorkInv
<1>7. CASE Enough(t)
  <2>1. /\ cores' = [cores EXCEPT ![t] = cores[t] + 1] /\ ncoreActive' = ncoreActive + 1
        /\ UNCHANGED <<active, pending>>
    BY <1>0, <1>4, <1>7 DEF reserveCores
  <2>2. /\ at'[t] = IF at[t] = "execute" THEN "run" ELSE "ready"
        /\ \A u \in Thread \ {t} : at'[u] = at[u]
    BY <1>0, <1>1, <1>7 DEF reserveCores, Return, Reserving
  <2>3. state' = state /\ deleted \subseteq deleted'
    BY <1>0, <1>7 DEF reserveCores, DeleteJoined, Delete, lifeVars, Reserving
  <2>4. ShareInv'
    <3>1. Share(at'[t], cores'[t], want'[t])
      BY <1>0, <1>1, <1>4, <2>1, <2>2 DEF Share, Reserving
    <3> QED
      BY <1>0, <1>1, <2>1, <2>2, <3>1, ShareStep DEF WorkInv
  <2>5. PendInv'
    BY <1>2, <2>1, <2>2, PendKeeps DEF WorkInv
  <2>6. Swallowed => Swallowed'
    BY <2>3, SwallowedKeeps DEF Canceled
  <2>7. t \in Retrying
    BY <1>0 DEF Retrying
  <2>8. Woken' = Woken
    BY <1>0 DEF Woken
  <2>9. Retrying \ {t} \subseteq Retrying'
    BY <2>1, <2>2, <2>8 DEF Retrying
  <2>10. SpareInv'
    BY <2>1, <2>6, <2>7, <2>9, SpareTaken DEF WorkInv
  <2> QED
    BY <1>3, <2>4, <2>5, <2>10 DEF WorkInv
<1> QED
  BY <1>6, <1>7

\* Calls and returns that neither take nor free cores.
LEMMA PlainMove ==
  ASSUME ThreadInv, WorkInv, NEW t \in Thread, active = t, at[t] \notin Reserving,
         UNCHANGED <<prog, want, pending, ncoreActive, cores, state>>, deleted \subseteq deleted',
         Woken \subseteq Woken', NEW label, at' = [at EXCEPT ![t] = label], Share(label, cores[t], want[t])
  PROVE  WorkInv'
<1>1. at \in [Thread -> Places]
  BY DEF ThreadInv, CoreInv, CoreTypes
<1>2. at'[t] = label /\ \A u \in Thread \ {t} : at'[u] = at[u]
  BY <1>1
<1>3. Share(at'[t], cores'[t], want'[t])
  BY <1>2
<1>4. \A u \in deleted : Canceled(u) => Canceled(u)'
  BY DEF Canceled
<1> QED
  BY <1>2, <1>3, <1>4, PlainStep

LEMMA PlainReturn ==
  ASSUME ThreadInv, WorkInv, NEW t \in Thread, active = t, at[t] \in {"ready", "return", "lock"}, Return(t),
         UNCHANGED <<prog, want, pending, ncoreActive, cores, state>>, deleted \subseteq deleted',
         Woken \subseteq Woken'
  PROVE  WorkInv'
<1>1. Share("ready", cores[t], want[t]) /\ at[t] \notin Reserving
  BY DEF WorkInv, ShareInv, Share, Reserving
<1>2. at' = [at EXCEPT ![t] = "ready"]
  BY DEF Return
<1> QED
  BY <1>1, <1>2, PlainMove

LEMMA CallWork ==
  ASSUME ThreadInv, WorkInv, NEW t \in Thread, Create(t) \/ AfterBlock(t) \/ Compute(t) \/ ExecuteRun(t)
  PROVE  WorkInv'
<1>1. CASE Create(t)
  <2>0. /\ active = t /\ at[t] = "ready" /\ Return(t) /\ Calling(t).op = "create" /\ ip[t] <= Len(prog[t])
        /\ UNCHANGED <<prog, want, pending, ncoreActive, cores, state, deleted>>
        /\ events' = sendDelayed(events, Event(0, "start", Calling(t).thr, 0))
    BY <1>1 DEF Create, Calls, Running, schedVars, sendNow
  <2>1. Calling(t).thr \in Thread
    <3>1. prog[t] \in Seq(Call) /\ ip[t] \in Nat \ {0}
      BY ConstantAssumption DEF ThreadInv, CoreInv, CoreTypes, ConstantAssumption
    <3>2. ip[t] \in DOMAIN prog[t]
      BY <2>0, <3>1
    <3> QED
      BY <2>0, <3>2 DEF ThreadInv, Unused, Simple, Calling
  <2>2. Event(0, "start", Calling(t).thr, 0) \in EventType
    BY <2>1 DEF Event, EventType, WakeKinds
  <2>3. Woken \subseteq Woken'
    BY <2>0, <2>2, WokenSent
  <2> QED
    BY <2>0, <2>3, PlainReturn
<1>2. CASE AfterBlock(t)
  <2>0. /\ active = t /\ at[t] = "return" /\ Return(t)
        /\ UNCHANGED <<prog, want, pending, ncoreActive, cores, state, deleted, events>>
    BY <1>2 DEF AfterBlock, Running, schedVars, lifeVars
  <2>1. Woken' = Woken
    BY <2>0 DEF Woken
  <2> QED
    BY <2>0, <2>1, PlainReturn
<1>3. CASE Compute(t) \/ ExecuteRun(t)
  <2>0. PICK d \in Durations : events' = sendDelayed(events, Event(d, "unblock", t, 0))
    BY <1>3 DEF Compute, ExecuteRun
  <2>1. Event(d, "unblock", t, 0) \in EventType
    BY ConstantAssumption DEF Event, EventType, WakeKinds, ConstantAssumption
  <2>2. Woken \subseteq Woken'
    BY <2>0, <2>1, WokenSent
  <2>3. active = t /\ UNCHANGED <<prog, want, pending, ncoreActive, cores, state, deleted>>
    BY <1>3 DEF Compute, ExecuteRun, Calls, Running, schedVars, lifeVars
  <2>4. \/ at[t] = "ready" /\ at' = [at EXCEPT ![t] = "return"]
        \/ at[t] = "run" /\ at' = [at EXCEPT ![t] = "ran"]
    BY <1>3 DEF Compute, ExecuteRun, Calls, Running, Block
  <2>5. /\ at[t] \notin Reserving
        /\ at[t] = "ready" => Share("return", cores[t], want[t])
        /\ at[t] = "run" => Share("ran", cores[t], want[t])
    BY <2>4 DEF WorkInv, ShareInv, Share, Reserving
  <2> QED
    BY <2>2, <2>3, <2>4, <2>5, PlainMove
<1> QED
  BY <1>1, <1>2, <1>3

LEMMA ExecuteWork ==
  ASSUME ThreadInv, WorkInv, NEW t \in Thread, Execute(t)
  PROVE  WorkInv'
<1> DEFINE n == Calling(t).n
<1>0. /\ active = t /\ at[t] = "ready" /\ ip[t] <= Len(prog[t]) /\ Calling(t).op = "execute"
      /\ want' = [want EXCEPT ![t] = n - cores[t]]
      /\ at' = [at EXCEPT ![t] = IF n > cores[t] THEN "execute" ELSE "run"]
      /\ UNCHANGED <<prog, events, pending, ncoreActive, cores, state, deleted>>
  BY DEF Execute, Calls, Running, schedVars, lifeVars
<1>1. at \in [Thread -> Places] /\ want \in [Thread -> Int]
  BY DEF ThreadInv, CoreInv, CoreTypes
<1>2. n \in Nat /\ n <= 2
  <2>1. prog[t] \in Seq(Call) /\ ip[t] \in Nat \ {0}
    BY ConstantAssumption DEF ThreadInv, CoreInv, CoreTypes, ConstantAssumption
  <2>2. ip[t] \in DOMAIN prog[t]
    BY <1>0, <2>1
  <2>3. n <= 2
    BY <1>0, <2>2 DEF WorkInv, OneMore, Calling
  <2> QED
    BY <1>0, <2>3, CallType DEF ThreadInv
<1> HIDE DEF n
<1>3. cores[t] = 1 /\ at[t] \notin Reserving
  BY <1>0 DEF WorkInv, ShareInv, Share, Reserving
<1>4. /\ at'[t] = IF n > cores[t] THEN "execute" ELSE "run"
      /\ want'[t] = n - 1 /\ cores'[t] = 1
      /\ \A u \in Thread \ {t} : at'[u] = at[u] /\ want'[u] = want[u]
  BY <1>0, <1>1, <1>3
<1>5. Share(at'[t], cores'[t], want'[t])
  BY <1>2, <1>3, <1>4 DEF Share
<1>6. Woken' = Woken /\ \A u \in deleted : Canceled(u) => Canceled(u)'
  BY <1>0 DEF Woken, Canceled
<1> QED
  BY <1>0, <1>3, <1>4, <1>5, <1>6, PlainStep

LEMMA MutexWork ==
  ASSUME ThreadInv, WorkInv, NEW t \in Thread,
         Lock(t) \/ LockDone(t) \/ Trylock(t) \/ Unlock(t) \/ Signal(t) \/ Post(t)
  PROVE  WorkInv'
<1>0. /\ active = t /\ at[t] \in {"ready", "lock"}
      /\ UNCHANGED <<prog, want, pending, ncoreActive, cores, state>>
  BY DEF Lock, LockDone, Trylock, Unlock, Signal, Post, Calls, Running, frameVars, schedVars, lifeVars
<1>1. CASE Lock(t) \/ LockDone(t) \/ Trylock(t)
  <2>1. UNCHANGED <<events, deleted>>
    BY <1>1 DEF Lock, LockDone, Trylock, frameVars, lifeVars
  <2>2. Woken' = Woken
    BY <2>1 DEF Woken
  <2>3. CASE Return(t)
    BY <1>0, <2>1, <2>2, <2>3, PlainReturn
  <2>4. CASE at' = [at EXCEPT ![t] = "lock"]
    <3>1. at[t] \notin Reserving /\ Share("lock", cores[t], want[t])
      BY <1>0 DEF WorkInv, ShareInv, Share, Reserving
    <3> QED
      BY <1>0, <2>1, <2>2, <2>4, <3>1, PlainMove
  <2> QED
    BY <1>1, <2>3, <2>4 DEF Lock, LockDone, Trylock, Block
<1>2. CASE Unlock(t)
  <2> DEFINE m == Calling(t).mut
  <2>1. m \in Mutex
    BY <1>2, MutexCall DEF Unlock
  <2>2. Return(t) /\ deleted \subseteq deleted'
    BY <1>2 DEF Unlock, Delete
  <2>3. CASE events' = events
    BY <1>0, <2>2, <2>3, PlainReturn DEF Woken
  <2>4. CASE waiters[m] # <<>> /\ events' = Unblock(events, Head(waiters[m]))
    <3>1. Head(waiters[m]) \in Thread
      BY <2>1, <2>4, TailList DEF ThreadInv, ThreadTypes, ListInv
    <3>2. Woken \subseteq Woken'
      BY <2>4, <3>1, WokenUnblocked
    <3> QED
      BY <1>0, <2>2, <3>2, PlainReturn
  <2> QED
    BY <1>2, <2>3, <2>4 DEF Unlock
<1>3. CASE Signal(t) \/ Post(t)
  <2>1. signalled = {} /\ pendingQ = <<>>
    BY DEF ThreadInv, Unused
  <2>2. Return(t) /\ events' = events /\ deleted \subseteq deleted'
    BY <1>3, <2>1 DEF Signal, Post, Delete
  <2> QED
    BY <1>0, <2>2, PlainReturn DEF Woken
<1> QED
  BY <1>1, <1>2, <1>3

LEMMA EndWork ==
  ASSUME ThreadInv, WorkInv, NEW t \in Thread, Cleanup(t) \/ Complete(t)
  PROVE  WorkInv'
<1>0. /\ active = t /\ at[t] \in {"cleanup", "complete"} /\ at[t] \notin Reserving
      /\ UNCHANGED <<prog, want, pending, ncoreActive, cores>>
  BY DEF Cleanup, Complete, Running, schedVars, Reserving
<1>1. at \in [Thread -> Places]
  BY DEF ThreadInv, CoreInv, CoreTypes
<1>2. CASE Cleanup(t)
  <2>0. /\ at' = [at EXCEPT ![t] = "complete"] /\ deleted' = deleted
        /\ state' = [u \in Thread |-> IF u = t THEN "DONE"
                                      ELSE IF u \in Cancels(t) THEN "CANCELED" ELSE state[u]]
        /\ events' = events \/ events' = sendDelayed(events, Event(0, "delete", t, 0))
    BY <1>2 DEF Cleanup, sendNow
  <2>1. Event(0, "delete", t, 0) \in EventType
    BY DEF Event, EventType
  <2>2. Woken \subseteq Woken'
    <3>1. CASE events' = events
      BY <3>1 DEF Woken
    <3> QED
      BY <2>0, <2>1, <3>1, WokenSent
  <2>3. \A u \in deleted : Canceled(u) => Canceled(u)'
    <3>1. t \notin deleted /\ deleted \subseteq Thread
      BY <1>0, ActiveThread DEF ThreadInv, ThreadTypes
    <3> QED
      BY <2>0, <3>1 DEF Canceled
  <2>4. at'[t] = "complete" /\ \A u \in Thread \ {t} : at'[u] = at[u]
    BY <1>1, <2>0
  <2>5. Share(at'[t], cores'[t], want'[t])
    BY <2>4 DEF Share
  <2> QED
    BY <1>0, <2>0, <2>2, <2>3, <2>4, <2>5, PlainStep
<1>3. CASE Complete(t)
  <2>0. state' = state /\ deleted \subseteq deleted' /\ at[t] = "complete"
    BY <1>3 DEF Complete, Running, Delete
  <2>1. at' = [at EXCEPT ![t] = at'[t]] /\ at'[t] \in {"complete", "end"}
    BY <1>1, <1>3, <2>0 DEF Complete, JoinersLeft
  <2>2. Share(at'[t], cores[t], want[t])
    BY <2>1 DEF Share
  <2>3. CASE events' = events
    BY <1>0, <2>0, <2>1, <2>2, <2>3, PlainMove DEF Woken
  <2>4. CASE joiners[t] # <<>> /\ events' = Unblock(events, Head(joiners[t]))
    <3>1. Head(joiners[t]) \in Thread
      BY <2>4, TailList DEF ThreadInv, ThreadTypes, ListInv
    <3>2. Woken \subseteq Woken'
      BY <2>4, <3>1, WokenUnblocked
    <3> QED
      BY <1>0, <2>0, <2>1, <2>2, <3>2, PlainMove
  <2> QED
    BY <1>3, <2>3, <2>4 DEF Complete, JoinersLeft
<1> QED
  BY <1>2, <1>3

\* Calls that free a core.
LEMMA SleepWork ==
  ASSUME ThreadInv, WorkInv, NEW t \in Thread, Sleep(t)
  PROVE  WorkInv'
<1>0. PICK d \in Durations : releaseCores(cores[t], t, sendDelayed(events, Event(d, "unblock", t, 0)))
  BY DEF Sleep
<1>1. /\ active = t /\ at[t] = "ready" /\ want' = [want EXCEPT ![t] = cores[t]]
      /\ at' = [at EXCEPT ![t] = "sleep"] /\ UNCHANGED <<prog, state>>
  BY DEF Sleep, Calls, Running, Block
<1>2. at \in [Thread -> Places] /\ want \in [Thread -> Int]
  BY DEF ThreadInv, CoreInv, CoreTypes
<1>3. cores[t] = 1 /\ at[t] \notin Reserving
  BY <1>1 DEF WorkInv, ShareInv, Share, Reserving
<1> DEFINE e == Event(d, "unblock", t, 0)
           q == sendDelayed(events, e)
<1>4. e \in EventType /\ e.kind \in WakeKinds
  BY ConstantAssumption DEF Event, EventType, WakeKinds, ConstantAssumption
<1> HIDE DEF e
<1>5. q \in Seq(EventType) /\ Woken \subseteq Of(q, WakeKinds)
  BY <1>4, EventsType, SentTo DEF Woken
<1>6. releaseCores(cores[t], t, q)
  BY <1>0 DEF e
<1> HIDE DEF q
<1>7. at'[t] = "sleep" /\ want'[t] = 1 /\ \A u \in Thread \ {t} : at'[u] = at[u] /\ want'[u] = want[u]
  BY <1>1, <1>2, <1>3
<1>8. Share(at'[t], cores[t] - 1, want'[t])
  BY <1>3, <1>7 DEF Share
<1> QED
  BY <1>1, <1>3, <1>5, <1>6, <1>7, <1>8, FreeStep

LEMMA JoinWork ==
  ASSUME ThreadInv, WorkInv, NEW t \in Thread, Join(t)
  PROVE  WorkInv'
<1>1. active = t /\ at[t] = "ready" /\ UNCHANGED <<prog, state>>
  BY DEF Join, DeleteJoined, Calls, Running, lifeVars
<1>2. at \in [Thread -> Places] /\ want \in [Thread -> Int]
  BY DEF ThreadInv, CoreInv, CoreTypes
<1>3. cores[t] = 1 /\ at[t] \notin Reserving
  BY <1>1 DEF WorkInv, ShareInv, Share, Reserving
<1>4. CASE Known(t, Calling(t).thr) /\ state[Calling(t).thr] = "DONE"
  <2>1. Return(t) /\ deleted \subseteq deleted' /\ UNCHANGED <<want, events, pending, ncoreActive, cores>>
    BY <1>4 DEF Join, DeleteJoined, Delete, schedVars
  <2> QED
    BY <1>1, <2>1, PlainReturn DEF Woken
<1>5. CASE Known(t, Calling(t).thr) /\ state[Calling(t).thr] # "DONE"
  <2>1. /\ want' = [want EXCEPT ![t] = cores[t]] /\ releaseCores(cores[t], t, events)
        /\ at' = [at EXCEPT ![t] = "join"]
    BY <1>5 DEF Join, Block
  <2>2. at'[t] = "join" /\ want'[t] = 1 /\ \A u \in Thread \ {t} : at'[u] = at[u] /\ want'[u] = want[u]
    BY <1>2, <1>3, <2>1
  <2>3. Share(at'[t], cores[t] - 1, want'[t])
    BY <1>3, <2>2 DEF Share
  <2>4. events \in Seq(EventType) /\ Woken \subseteq Of(events, WakeKinds)
    BY EventsType DEF Woken
  <2> QED
    BY <1>1, <1>3, <2>1, <2>2, <2>3, <2>4, FreeStep
<1>6. CASE ~Known(t, Calling(t).thr)
  <2>1. at' = [at EXCEPT ![t] = "threw"] /\ UNCHANGED <<want, events, pending, ncoreActive, cores, deleted>>
    BY <1>6 DEF Join, schedVars, lifeVars
  <2>2. Share("threw", cores[t], want[t])
    BY <1>1 DEF WorkInv, ShareInv, Share, Reserving
  <2> QED
    BY <1>1, <1>3, <2>1, <2>2, PlainMove DEF Woken
<1> QED
  BY <1>4, <1>5, <1>6

LEMMA ReleaseWork ==
  ASSUME ThreadInv, WorkInv, NEW t \in Thread, ExecuteDone(t) \/ Exit(t)
  PROVE  WorkInv'
<1>0. events \in Seq(EventType) /\ Woken \subseteq Of(events, WakeKinds)
  BY EventsType DEF Woken
<1>1. at \in [Thread -> Places] /\ want \in [Thread -> Int]
  BY DEF ThreadInv, CoreInv, CoreTypes
<1>2. active = t /\ at[t] \in {"ran", "ready"} /\ at[t] \notin Reserving /\ UNCHANGED <<prog, state, want>>
  BY DEF ExecuteDone, Exit, Running, Reserving
<1>3. CASE ExecuteDone(t)
  <2>1. at[t] = "ran" /\ at' = [at EXCEPT ![t] = "ready"]
    BY <1>3 DEF ExecuteDone, Running, Return
  <2>2. want[t] <= 1 /\ cores[t] = IF want[t] > 0 THEN 2 ELSE 1
    BY <2>1 DEF WorkInv, ShareInv, Share
  <2>3. at'[t] = "ready" /\ \A u \in Thread \ {t} : at'[u] = at[u] /\ want'[u] = want[u]
    BY <1>1, <1>2, <2>1
  <2>4. CASE want[t] > 0
    <3>1. want[t] = 1 /\ cores[t] = 2 /\ releaseCores(want[t], t, events)
      BY <1>1, <1>3, <2>2, <2>4 DEF ExecuteDone
    <3>2. Share(at'[t], cores[t] - 1, want'[t])
      BY <2>3, <3>1 DEF Share
    <3> QED
      BY <1>0, <1>2, <2>3, <3>1, <3>2, FreeStep
  <2>5. CASE ~(want[t] > 0)
    <3>1. UNCHANGED <<events, deleted, pending, ncoreActive, cores>>
      BY <1>3, <2>5 DEF ExecuteDone, schedVars
    <3>2. Share("ready", cores[t], want[t])
      BY <2>2, <2>5 DEF Share
    <3>3. Woken' = Woken
      BY <3>1 DEF Woken
    <3> QED
      BY <1>2, <2>1, <3>1, <3>2, <3>3, PlainMove
  <2> QED
    BY <2>4, <2>5
<1>4. CASE Exit(t)
  <2>1. at[t] = "ready" /\ at' = [at EXCEPT ![t] = "cleanup"] /\ releaseCores(cores[t], t, events)
    BY <1>4 DEF Exit, Running
  <2>2. cores[t] = 1
    BY <2>1 DEF WorkInv, ShareInv, Share
  <2>3. at'[t] = "cleanup" /\ \A u \in Thread \ {t} : at'[u] = at[u] /\ want'[u] = want[u]
    BY <1>1, <1>2, <2>1
  <2>4. Share(at'[t], cores[t] - 1, want'[t])
    BY <2>3 DEF Share
  <2> QED
    BY <1>0, <1>2, <2>1, <2>2, <2>3, <2>4, FreeStep
<1> QED
  BY <1>3, <1>4

\* The DES thread wakes or starts u.
LEMMA DesWork ==
  ASSUME ThreadInv, WorkInv, NEW u \in Thread, active = NoThread, prog' = prog,
         UNCHANGED <<pending, ncoreActive, cores>>, Woken \ {u} \subseteq Woken',
         deleted \subseteq deleted', \A v \in deleted : Canceled(v) => Canceled(v)',
         \/ at' = at /\ want' = want /\ (active' = u \/ u \in Woken' \/ u \notin Woken \/ Swallowed')
         \/ /\ at[u] = "off" /\ at' = [at EXCEPT ![u] = "guard"] /\ want' = [want EXCEPT ![u] = 1]
            /\ u \notin CoreWaiters
  PROVE  WorkInv'
<1>0. at \in [Thread -> Places] /\ want \in [Thread -> Int] /\ NoThread \notin Thread
  BY ConstantAssumption DEF ConstantAssumption, ThreadInv, CoreInv, CoreTypes
<1>1. OneMore(prog)'
  BY DEF WorkInv, OneMore
<1>2. Swallowed => Swallowed'
  BY SwallowedKeeps
<1>3. CASE at' = at /\ want' = want /\ (active' = u \/ u \in Woken' \/ u \notin Woken \/ Swallowed')
  <2>1. ShareInv' /\ PendInv'
    BY <1>3 DEF WorkInv, ShareInv, PendInv
  <2>2. Retrying \subseteq Retrying' \/ Swallowed'
    BY <1>0, <1>3 DEF Retrying
  <2>3. SpareInv'
    BY <1>2, <2>2, SpareKeeps DEF WorkInv
  <2> QED
    BY <1>1, <2>1, <2>3 DEF WorkInv
<1>4. CASE /\ at[u] = "off" /\ at' = [at EXCEPT ![u] = "guard"] /\ want' = [want EXCEPT ![u] = 1]
           /\ u \notin CoreWaiters
  <2>1. at'[u] = "guard" /\ want'[u] = 1 /\ \A v \in Thread \ {u} : at'[v] = at[v] /\ want'[v] = want[v]
    BY <1>0, <1>4
  <2>2. cores[u] = 0
    BY <1>4 DEF WorkInv, ShareInv, Share
  <2>3. ShareInv'
    <3>1. Share(at'[u], cores'[u], want'[u])
      BY <2>1, <2>2 DEF Share
    <3> QED
      BY <2>1, <3>1, ShareStep DEF WorkInv
  <2>4. PendInv'
    BY <1>4, <2>1, PendKeeps DEF WorkInv
  <2>5. Retrying \subseteq Retrying'
    BY <1>0, <1>4, <2>1 DEF Retrying, Reserving
  <2>6. SpareInv'
    BY <1>2, <2>5, SpareKeeps DEF WorkInv
  <2> QED
    BY <1>1, <2>3, <2>4, <2>6 DEF WorkInv
<1> QED
  BY <1>3, <1>4

LEMMA RunEventWork ==
  ASSUME ThreadInv, WorkInv, RunEvent
  PROVE  WorkInv'
<1> DEFINE e == Head(events)
           v == e.thr
<1>0. /\ active = NoThread /\ events # <<>> /\ events' = Later(Tail(events), e.wait) /\ Handle(e)
      /\ UNCHANGED <<prog, pending, ncoreActive, cores>>
  BY DEF RunEvent, Idle, schedVars
<1>1. e \in EventType /\ e.wait \in Int /\ v \in Thread /\ e.kind \in {"switch", "start", "unblock", "delete"}
  <2>1. e \in EventType
    BY <1>0, EventsType
  <2> QED
    BY <2>1 DEF EventType, WakeKinds
<1>2. /\ \A x \in Of(events, WakeKinds) : x # v => x \in Of(events', WakeKinds)
      /\ e.kind = "delete" => Of(events, WakeKinds) = Of(events', WakeKinds)
      /\ e.kind \in WakeKinds => v \in Of(events, WakeKinds)
      /\ e.kind = "start" => v \in Of(events, {"start"})
  <2>1. /\ \A kinds : \A x \in Of(events, kinds) : x # v => x \in Of(events', kinds)
        /\ e.kind = "delete" => Of(events, WakeKinds) = Of(events', WakeKinds)
        /\ \A kinds : e.kind \in kinds => v \in Of(events, kinds)
    BY <1>0, <1>1, Popped DEF ThreadInv, ListInv
  <2> QED
    BY <2>1
<1>3. PICK u \in Thread : u = v
  BY <1>1
<1> HIDE DEF v
<1>4. Woken \ {u} \subseteq Woken' /\ (e.kind = "delete" => Woken' = Woken)
  BY <1>2, <1>3 DEF Woken
<1>5. Homed(u)
  BY DEF ThreadInv, HomeInv
<1>6. CASE e.kind = "start"
  <2>1. Start(u)
    BY <1>0, <1>3, <1>6 DEF Handle, v
  <2>2. u \in Starting /\ u \in Woken
    BY <1>2, <1>3, <1>6 DEF Starting, Woken, WakeKinds
  <2>3. at[u] = "off" /\ u \notin deleted /\ u \notin CoreWaiters
    BY <1>5, <2>2 DEF Homed, Waiting
  <2>4. /\ at' = [at EXCEPT ![u] = "guard"] /\ want' = [want EXCEPT ![u] = 1] /\ deleted' = deleted
        /\ \A w \in deleted : Canceled(w) => Canceled(w)'
    <3>1. state \in [Thread -> {"PENDING", "ACTIVE", "DONE", "CANCELED"}] /\ deleted \subseteq Thread
      BY DEF ThreadInv, ThreadTypes
    <3> QED
      BY <2>1, <2>3, <3>1 DEF Start, Canceled
  <2> QED
    BY <1>0, <1>4, <2>3, <2>4, DesWork
<1>7. CASE e.kind \in {"switch", "unblock"}
  <2>1. Switch(u) \/ UnblockNow(u)
    BY <1>0, <1>3, <1>7 DEF Handle, v
  <2>2. u \notin deleted /\ at[u] # "end"
    BY <1>2, <1>3, <1>5, <1>7 DEF Homed, Woken, WakeKinds
  <2>3. /\ UNCHANGED <<at, want, state>>
        /\ \/ active' = u /\ deleted' = deleted
           \/ Canceled(u) /\ deleted' = deleted \cup {u}
    BY <2>1, <2>2 DEF UnblockNow, Switch, Delete
  <2>4. active' = u \/ Swallowed'
    BY <2>3 DEF Swallowed, Canceled
  <2>5. deleted \subseteq deleted' /\ \A w \in deleted : Canceled(w) => Canceled(w)'
    BY <2>3 DEF Canceled
  <2> QED
    BY <1>0, <1>4, <2>3, <2>4, <2>5, DesWork
<1>8. CASE e.kind = "delete"
  <2>1. UNCHANGED <<at, want, state>> /\ deleted \subseteq deleted'
    BY <1>0, <1>8 DEF Handle, Delete
  <2>2. \A w \in deleted : Canceled(w) => Canceled(w)'
    BY <2>1 DEF Canceled
  <2>3. u \in Woken' \/ u \notin Woken
    BY <1>4, <1>8
  <2> QED
    BY <1>0, <1>4, <2>1, <2>2, <2>3, DesWork
<1> QED
  BY <1>1, <1>6, <1>7, <1>8

LEMMA StartAppWork ==
  ASSUME ThreadInv, WorkInv, NEW a \in App, StartApp(a)
  PROVE  WorkInv'
<1>0. /\ active = NoThread /\ at[a] = "off" /\ Start(a) /\ UNCHANGED <<prog, events, pending, ncoreActive, cores>>
  BY DEF StartApp, Idle, schedVars
<1>1. a \in Thread
  BY ConstantAssumption DEF ConstantAssumption
<1>2. a \notin CoreWaiters /\ a \notin deleted
  BY <1>0, <1>1, WaitingStarted DEF Waiting, ThreadInv, HomeInv, Homed
<1>3. /\ at' = [at EXCEPT ![a] = "guard"] /\ want' = [want EXCEPT ![a] = 1] /\ deleted' = deleted
      /\ \A w \in deleted : Canceled(w) => Canceled(w)'
  <2>1. state \in [Thread -> {"PENDING", "ACTIVE", "DONE", "CANCELED"}] /\ deleted \subseteq Thread
    BY DEF ThreadInv, ThreadTypes
  <2> QED
    BY <1>0, <1>2, <2>1 DEF Start, Canceled
<1>4. Woken' = Woken
  BY <1>0 DEF Woken
<1> QED
  BY <1>0, <1>1, <1>2, <1>3, <1>4, DesWork

LEMMA NothingWork ==
  ASSUME ThreadInv, WorkInv,
         UNCHANGED <<prog, active, events, at, want, pending, ncoreActive, cores, state, deleted>>
  PROVE  WorkInv'
<1>1. Woken' = Woken /\ (Swallowed => Swallowed')
  BY DEF Woken, Swallowed, Canceled
<1>2. Retrying \subseteq Retrying'
  BY <1>1 DEF Retrying
<1>3. SpareInv'
  BY <1>1, <1>2, SpareKeeps DEF WorkInv
<1>4. ShareInv' /\ PendInv' /\ OneMore(prog)'
  BY DEF WorkInv, ShareInv, PendInv, OneMore
<1> QED
  BY <1>3, <1>4 DEF WorkInv

LEMMA WorkInvStep == ThreadInv /\ WorkInv /\ [Next]_vars => WorkInv'
<1> SUFFICES ASSUME ThreadInv, WorkInv, [Next]_vars PROVE WorkInv'
  OBVIOUS
<1>1. ASSUME NEW t \in Thread, ThreadStep(t) PROVE WorkInv'
  <2>1. CASE ReserveCores(t)
    BY <2>1, TakeStep
  <2>2. CASE Create(t) \/ AfterBlock(t) \/ Compute(t) \/ ExecuteRun(t)
    BY <2>2, CallWork
  <2>3. CASE Join(t)
    BY <2>3, JoinWork
  <2>4. CASE Sleep(t)
    BY <2>4, SleepWork
  <2>5. CASE Execute(t)
    BY <2>5, ExecuteWork
  <2>6. CASE ExecuteDone(t) \/ Exit(t)
    BY <2>6, ReleaseWork
  <2>7. CASE Lock(t) \/ LockDone(t) \/ Trylock(t) \/ Unlock(t) \/ Signal(t) \/ Post(t)
    BY <2>7, MutexWork
  <2>8. CASE Cleanup(t) \/ Complete(t)
    BY <2>8, EndWork
  <2>9. CASE Wait(t) \/ QueueFront(t)
    BY <2>9, SimpleCall DEF Wait, QueueFront
  <2>10. CASE WaitDone(t) \/ QueueFrontDone(t)
    BY <2>10 DEF WaitDone, QueueFrontDone, Running, ThreadInv, Unused
  <2> QED
    BY <1>1, <2>1, <2>2, <2>3, <2>4, <2>5, <2>6, <2>7, <2>8, <2>9, <2>10 DEF ThreadStep
<1>2. ASSUME NEW a \in App, StartApp(a) PROVE WorkInv'
  BY <1>2, StartAppWork
<1>3. CASE RunEvent
  BY <1>3, RunEventWork
<1>4. CASE Incoming
  <2>1. UNCHANGED <<prog, active, events, at, want, pending, ncoreActive, cores, state, deleted>>
    BY <1>4 DEF Incoming, ThreadInv, Unused, schedVars
  <2> QED
    BY <2>1, NothingWork
<1>5. CASE UNCHANGED vars
  <2>1. UNCHANGED <<prog, active, events, at, want, pending, ncoreActive, cores, state, deleted>>
    BY <1>5 DEF vars, schedVars, lifeVars
  <2> QED
    BY <2>1, NothingWork
<1> QED
  BY <1>1, <1>2, <1>3, <1>4, <1>5 DEF Next

LEMMA WorkInit == Init /\ OneMore(prog) => WorkInv
<1> SUFFICES ASSUME Init, OneMore(prog) PROVE WorkInv
  OBVIOUS
<1>1. ShareInv
  BY DEF Init, ShareInv, Share
<1>2. PendInv /\ SpareInv
  BY DEF Init, PendInv, SpareInv
<1> QED
  BY <1>1, <1>2 DEF WorkInv

\* Who is about to take a core runs, or has an event.
LEMMA WorkConserved ==
  ASSUME ThreadInv, WorkInv
  PROVE  WorkConserving
<1> SUFFICES ASSUME NEW k \in DOMAIN pending, pending[k].n <= Free, active = NoThread, ~Swallowed
             PROVE  \E j \in DOMAIN events :
                      /\ events[j].kind \in {"switch", "unblock"}
                      /\ at[events[j].thr] \in {"guard", "execute", "sleep", "join"}
  BY DEF WorkConserving
<1>0. NoThread \notin Thread
  BY ConstantAssumption DEF ConstantAssumption
<1>1. pending # <<>> /\ Free \in Nat /\ 1 <= Free
  BY FreeCores DEF WorkInv, PendInv
<1>2. Cardinality(Retrying) >= Free
  BY <1>1 DEF WorkInv, SpareInv
<1>3. Retrying # {}
  <2> SUFFICES ASSUME Retrying = {} PROVE FALSE
    OBVIOUS
  <2>1. Cardinality(Retrying) = 0
    BY FS_EmptySet
  <2> QED
    BY <1>1, <1>2, <2>1
<1>4. PICK t \in Retrying : TRUE
  BY <1>3
<1>5. t \in Thread /\ t \in Woken /\ at[t] \in Reserving
  BY <1>0 DEF Retrying
<1>6. PICK j \in DOMAIN events : events[j].thr = t /\ events[j].kind \in WakeKinds
  BY <1>5 DEF Woken, Of
<1>7. events[j].kind # "start"
  <2> SUFFICES ASSUME events[j].kind = "start" PROVE FALSE
    OBVIOUS
  <2>1. t \in Starting
    BY <1>6 DEF Starting, Of
  <2> QED
    BY <1>5, <2>1 DEF ThreadInv, HomeInv, Homed, Reserving
<1> QED
  BY <1>5, <1>6, <1>7 DEF WakeKinds, Reserving

(***************************************************************************)
(* In such a program, if no computation takes more than one core besides   *)
(* its thread's own, no core stays idle while a thread waits for one: the  *)
(* release that wakes a thread, the thread that retries, and the others    *)
(* that take the core before it, never leave one behind                    *)
(* (SimpleComputeScheduler::releaseCores and reserveCores).  What is lost  *)
(* is a core offered to a canceled thread.                                 *)
(***************************************************************************)
THEOREM NoCoreStaysIdle == Spec /\ Simple(prog) /\ OneMore(prog) => []WorkConserving
<1>1. Init /\ Simple(prog) /\ OneMore(prog) => ThreadInv /\ WorkInv
  BY ThreadInit, WorkInit
<1>2. ThreadInv /\ WorkInv /\ [Next]_vars => ThreadInv' /\ WorkInv'
  BY ThreadInvStep, WorkInvStep
<1>3. ThreadInv /\ WorkInv => WorkConserving
  BY WorkConserved
<1> QED
  BY <1>1, <1>2, <1>3, PTL DEF Spec

=============================================================================
