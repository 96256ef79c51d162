------------------------------ MODULE MCPisces ------------------------------
(***************************************************************************)
(* Traffic for model checking Pisces on a torus of 4 by 2 switches.        *)
(***************************************************************************)
EXTENDS Pisces

MCDims == <<4, 2>>

At(x, y) == <<x, y>>
From(src, dst, bytes) == [src |-> src, dst |-> dst, bytes |-> bytes]
Nothing == From(At(0, 0), At(0, 0), 1)

\* One message between any two switches.
Single == { <<From(src, dst, 1), Nothing>> : src, dst \in Switch }

\* A message of two packets, and pairs of messages that meet on the link that
\* closes the ring (with two packets waiting in one queue of the crossbar), on
\* the port of a node, and at one NIC.
Meeting ==
  { <<From(At(3, 0), At(0, 0), 3), Nothing>>,
    <<From(At(2, 0), At(0, 0), 2), From(At(3, 0), At(0, 0), 4)>>,
    <<From(At(3, 0), At(0, 1), 2), From(At(3, 1), At(0, 1), 2)>>,
    <<From(At(0, 0), At(1, 0), 3), From(At(0, 0), At(1, 0), 2)>> }

MCJobs == Single \cup Meeting
=============================================================================
