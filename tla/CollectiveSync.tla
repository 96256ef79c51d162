--------------------------- MODULE CollectiveSync ---------------------------
(***************************************************************************)
(* What a collective promises about who has to wait for whom: a rank       *)
(* leaves it only when every rank whose data its result depends on has     *)
(* entered.  For a barrier that is everybody.  Collectives are numbered by *)
(* tag; a rank enters them in order.  Which collectives they are is        *)
(* settled when the job starts.                                            *)
(***************************************************************************)
EXTENDS Naturals

CONSTANT
  Rank      \* the ranks of the communicator

VARIABLES
  needed,   \* needed[t][r]: the ranks r waits for in collective t; fixed
  entered,  \* entered[t]: the ranks that have called collective t
  left      \* left[t]: the ranks that were told it is over

syncVars == <<needed, entered, left>>

Tag == DOMAIN needed

SyncInit ==
  /\ entered = [t \in Tag |-> {}]
  /\ left = [t \in Tag |-> {}]

Enter(t, r) ==
  /\ r \notin entered[t]
  /\ \A u \in Tag : u < t => r \in entered[u]
  /\ entered' = [entered EXCEPT ![t] = @ \cup {r}]
  /\ UNCHANGED <<needed, left>>

Leave(t, r) ==
  /\ r \in entered[t] \ left[t]
  /\ needed[t][r] \subseteq entered[t]
  /\ left' = [left EXCEPT ![t] = @ \cup {r}]
  /\ UNCHANGED <<needed, entered>>

SyncNext == \E t \in Tag, r \in Rank : Enter(t, r) \/ Leave(t, r)

SyncSpec == SyncInit /\ [][SyncNext]_syncVars
=============================================================================
