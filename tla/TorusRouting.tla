---------------------------- MODULE TorusRouting ----------------------------
(***************************************************************************)
(* Minimal routing on a torus with two virtual channels (Torus and         *)
(* TorusMinimalRouter).  A switch is given by its coordinates, which the   *)
(* code computes from the switch id.  Dimensions count from 1.             *)
(***************************************************************************)
EXTENDS Integers, FiniteSets

CONSTANTS
  NDim,         \* number of dimensions
  Dims          \* dimensions_: the switches along every dimension

Dim == 1 .. NDim

ASSUME TorusAssumption ==
  /\ NDim \in Nat \ {0}
  /\ Dims \in [Dim -> Nat \ {0, 1}]

\* The coordinates along one dimension, and those of a switch.
Coord(d) == 0 .. (Dims[d] - 1)
Switch == {s \in [Dim -> UNION {Coord(d) : d \in Dim}] : \A d \in Dim : s[d] \in Coord(d)}

\* Ports: two for every dimension, and the one of the node (concentration 1).
NodePort == <<0, "node">>
LinkPort == Dim \X {"pos", "neg"}
Port == LinkPort \cup {NodePort}
VC == {0, 1}

Opposite(port) == <<port[1], IF port[2] = "pos" THEN "neg" ELSE "pos">>

(***************************************************************************)
(* Torus: wiring and distances along one dimension.                        *)
(***************************************************************************)
\* The switch at the other end of a port (connectedOutports).
Neighbor(s, port) ==
  LET d == port[1] IN
  [s EXCEPT ![d] = IF port[2] = "pos" THEN (IF @ = Dims[d] - 1 THEN 0 ELSE @ + 1)
                                      ELSE (IF @ = 0 THEN Dims[d] - 1 ELSE @ - 1)]

UpDistance(d, src, dst) == IF dst > src THEN dst - src ELSE dst + (Dims[d] - src)
DownDistance(d, src, dst) == IF dst > src THEN src + (Dims[d] - dst) ELSE src - dst

shortestPathPositive(d, src, dst) == UpDistance(d, src, dst) <= DownDistance(d, src, dst)

(***************************************************************************)
(* TorusMinimalRouter.  The header of a packet: the port and virtual       *)
(* channel it needs next, whether it crossed the dateline of the dimension *)
(* it is in, and that dimension.                                           *)
(***************************************************************************)
Header == [port : Port, vc : VC, crossed : BOOLEAN, lastDim : Dim]

InitHeader == [port |-> NodePort, vc |-> 0, crossed |-> FALSE, lastDim |-> 1]

\* The link that closes the ring.
AtDateline_Mut(d, dir, x) == FALSE     \* no dateline
AtDateline(d, dir, x) == IF dir = "pos" THEN x = Dims[d] - 1 ELSE x = 0

\* upPath and downPath.
Path(d, dir, x, hdr) ==
  LET crossed == AtDateline(d, dir, x) \/ (d = hdr.lastDim /\ hdr.crossed) IN
  [port |-> <<d, dir>>, vc |-> IF crossed THEN 1 ELSE 0, crossed |-> crossed, lastDim |-> d]

\* The first dimension in which the packet is not there yet.
NextDim(s, dst) == CHOOSE d \in Dim : s[d] # dst[d] /\ \A e \in Dim : e < d => s[e] = dst[e]

route(s, dst, hdr) ==
  IF s = dst THEN [hdr EXCEPT !.port = NodePort, !.vc = 0]
  ELSE LET d == NextDim(s, dst)
           dir == IF shortestPathPositive(d, s[d], dst[d]) THEN "pos" ELSE "neg"
       IN Path(d, dir, s[d], hdr)

(***************************************************************************)
(* An order of the channels, dimension by dimension and along every ring:  *)
(* first those before the dateline, then the link that closes the ring,    *)
(* then those behind it.                                                   *)
(***************************************************************************)
Place(d, dir, x, vc) ==
  LET steps == IF dir = "pos" THEN x ELSE Dims[d] - 1 - x     \* 0 .. Dims[d] - 1
  IN IF vc = 0 THEN steps
     ELSE IF steps = Dims[d] - 1 THEN steps ELSE Dims[d] + steps

Channel == [sw : Switch, port : Port, vc : VC]

Before(c1, c2) ==
  \/ c2.port = NodePort /\ c1.port # NodePort
  \/ c1.port # NodePort /\ c1.port[1] < c2.port[1]
  \/ /\ c1.port = c2.port
     /\ Place(c1.port[1], c1.port[2], c1.sw[c1.port[1]], c1.vc)
          < Place(c2.port[1], c2.port[2], c2.sw[c2.port[1]], c2.vc)
=============================================================================
