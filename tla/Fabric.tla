------------------------------ MODULE Fabric ------------------------------
(***************************************************************************)
(* What a network promises its nodes: a message that was sent arrives,     *)
(* piece by piece, and is delivered once, when all of it is there.         *)
(***************************************************************************)
EXTENDS Integers

CONSTANT Message

VARIABLES
  size,         \* bytes of the messages
  sent,         \* messages the sender gave to the network
  arrived,      \* bytes of a message that have arrived
  delivered     \* how often the receiver was given the message

fabricVars == <<size, sent, arrived, delivered>>

FabricInit ==
  /\ size \in [Message -> Nat \ {0}]
  /\ sent = {}
  /\ arrived = [m \in Message |-> 0]
  /\ delivered = [m \in Message |-> 0]

Send(m) ==
  /\ m \in Message \ sent
  /\ sent' = sent \cup {m}
  /\ UNCHANGED <<size, arrived, delivered>>

\* n more bytes of a message; the last ones deliver it.
Arrive(m, n) ==
  /\ m \in sent
  /\ arrived[m] + n <= size[m]
  /\ arrived' = [arrived EXCEPT ![m] = @ + n]
  /\ delivered' = [delivered EXCEPT ![m] = IF arrived[m] + n = size[m] THEN @ + 1 ELSE @]
  /\ UNCHANGED <<size, sent>>

SendStep == \E m \in Message : Send(m)
ArriveStep(m) == \E n \in 1 .. size[m] : Arrive(m, n)

FabricNext == SendStep \/ \E m \in Message : ArriveStep(m)

FabricSpec ==
  /\ FabricInit
  /\ [][FabricNext]_fabricVars
  /\ \A m \in Message : WF_fabricVars(ArriveStep(m))
===========================================================================
