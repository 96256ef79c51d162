-------------------------- MODULE CollectiveAction --------------------------
(***************************************************************************)
(* The actions of a SUMI collective (struct Action and its subclasses).    *)
(*                                                                         *)
(* An action is a send, a receive, a join or a shuffle.  Its id encodes    *)
(* type, round and partner; pre holds the ids of the actions it has to     *)
(* wait for.  Offsets and lengths count elements.  A receive either lands  *)
(* in the result buffer in place or is reduced into it.                    *)
(***************************************************************************)
EXTENDS Integers, FiniteSets

SEND    == 0
RECV    == 1
SHUFFLE == 2
JOIN    == 5

MaxRound == 500
NumEnums == 6

messageId(type, round, partner) ==
  partner * MaxRound * NumEnums + round * NumEnums + type

Action(type, round, partner, offset, nelems, reduce, pre) ==
  [id |-> messageId(type, round, partner), type |-> type, round |-> round,
   partner |-> partner, offset |-> offset, nelems |-> nelems,
   reduce |-> reduce, pre |-> pre]

SendAction(round, partner, offset, nelems, pre) ==
  Action(SEND, round, partner, offset, nelems, FALSE, pre)
RecvAction(round, partner, offset, nelems, pre) ==
  Action(RECV, round, partner, offset, nelems, FALSE, pre)
ReduceAction(round, partner, offset, nelems, pre) ==
  Action(RECV, round, partner, offset, nelems, TRUE, pre)

Ids(acs) == {ac.id : ac \in acs}

(***************************************************************************)
(* Buffers.  An element is a function that says how often the contribution *)
(* of every rank is in it: a copy replaces, a reduction adds.  Memory that *)
(* nobody wrote holds no contribution.                                     *)
(***************************************************************************)
Read(buffer, offset, nelems) ==
  [i \in 0 .. (nelems - 1) |-> buffer[offset + i]]

Region(offset, nelems) == offset .. (offset + nelems - 1)

Write(buffer, offset, data) ==
  LET region == Region(offset, Cardinality(DOMAIN data))
  IN  [i \in DOMAIN buffer |->
         IF i \in region THEN data[i - offset] ELSE buffer[i]]

\* Mutant: overwrites.
Reduce_Mut(buffer, offset, data) == Write(buffer, offset, data)

Reduce(buffer, offset, data) ==
  LET region == Region(offset, Cardinality(DOMAIN data))
  IN  [i \in DOMAIN buffer |->
         IF i \in region
         THEN [r \in DOMAIN buffer[i] |-> buffer[i][r] + data[i - offset][r]]
         ELSE buffer[i]]

Rotate(buffer, shift) ==
  LET size == Cardinality(DOMAIN buffer)
  IN  [i \in DOMAIN buffer |-> buffer[(i + size - shift) % size]]
=============================================================================
