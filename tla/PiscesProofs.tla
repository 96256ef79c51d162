---------------------------- MODULE PiscesProofs ----------------------------
(***************************************************************************)
(* Minimal torus routing takes the channels in one order, and the packets  *)
(* of the pisces network hold and need them in that order, on every torus  *)
(* and for any traffic.                                                    *)
(***************************************************************************)
EXTENDS Pisces, FiniteSetTheorems, SequenceTheorems, WellFoundedInduction, TLAPS

(***************************************************************************)
(* Routing.                                                                *)
(***************************************************************************)
LEMMA SwitchCoord ==
  ASSUME NEW s \in Switch, NEW d \in Dim
  PROVE  /\ s[d] \in Int /\ 0 <= s[d] /\ s[d] < Dims[d]
         /\ Dims[d] \in Int /\ Dims[d] >= 2
         /\ d \in Int /\ d >= 1
<1>1. s[d] \in Coord(d)
  BY DEF Switch
<1>2. Dims[d] \in Nat \ {0, 1} /\ d \in Int /\ d >= 1
  BY TorusAssumption DEF Dim
<1> QED
  BY <1>1, <1>2 DEF Coord

LEMMA SwitchEqual ==
  ASSUME NEW s \in Switch, NEW t \in Switch, \A d \in Dim : s[d] = t[d]
  PROVE  s = t
BY DEF Switch

\* A step along a ring, from x to what Neighbor makes of it.
Step(d, dir, x) ==
  IF dir = "pos" THEN (IF x = Dims[d] - 1 THEN 0 ELSE x + 1)
                 ELSE (IF x = 0 THEN Dims[d] - 1 ELSE x - 1)

LEMMA StepCoord ==
  ASSUME NEW d \in Dim, NEW dir \in {"pos", "neg"}, NEW s \in Switch
  PROVE  Step(d, dir, s[d]) \in Coord(d)
BY SwitchCoord DEF Step, Coord

LEMMA NeighborMoves ==
  ASSUME NEW s \in Switch, NEW port \in LinkPort
  PROVE  /\ port[1] \in Dim /\ port[2] \in {"pos", "neg"}
         /\ Neighbor(s, port) \in Switch
         /\ Neighbor(s, port)[port[1]] = Step(port[1], port[2], s[port[1]])
         /\ \A e \in Dim : e # port[1] => Neighbor(s, port)[e] = s[e]
<1> DEFINE d == port[1]
           U == UNION {Coord(e) : e \in Dim}
           x == Step(d, port[2], s[d])
<1>1. d \in Dim /\ port[2] \in {"pos", "neg"}
  BY DEF LinkPort
<1>2. s \in [Dim -> U] /\ \A e \in Dim : s[e] \in Coord(e)
  BY DEF Switch
<1>3. x \in Coord(d)
  BY <1>1, StepCoord
<1>4. Neighbor(s, port) = [s EXCEPT ![d] = x]
  BY DEF Neighbor, Step
<1>5. x \in U
  BY <1>1, <1>3
<1>6. [s EXCEPT ![d] = x] \in [Dim -> U]
  BY <1>2, <1>5, <1>1
<1>7. /\ [s EXCEPT ![d] = x][d] = x
      /\ \A e \in Dim : e # d => [s EXCEPT ![d] = x][e] = s[e]
  BY <1>2, <1>1
<1>8. [s EXCEPT ![d] = x] \in Switch
  <2> HIDE DEF x, d
  <2>1. \A e \in Dim : [s EXCEPT ![d] = x][e] \in Coord(e)
    BY <1>2, <1>3, <1>7
  <2> QED
    BY <1>6, <2>1 DEF Switch, U
<1> QED
  BY <1>1, <1>4, <1>7, <1>8

LEMMA OppositePort ==
  ASSUME NEW port \in LinkPort
  PROVE  /\ Opposite(port) \in LinkPort
         /\ Opposite(Opposite(port)) = port
         /\ Opposite(port)[1] = port[1]
         /\ Opposite(port)[2] = (IF port[2] = "pos" THEN "neg" ELSE "pos")
BY DEF Opposite, LinkPort

\* A link leads back to where it came from.
LEMMA ThereAndBack ==
  ASSUME NEW s \in Switch, NEW port \in LinkPort
  PROVE  Neighbor(Neighbor(s, port), Opposite(port)) = s
<1> DEFINE t == Neighbor(s, port)
           d == port[1]
           u == Neighbor(t, Opposite(port))
<1>1. /\ d \in Dim /\ port[2] \in {"pos", "neg"}
      /\ t \in Switch
      /\ t[d] = Step(d, port[2], s[d])
      /\ \A e \in Dim : e # d => t[e] = s[e]
  BY NeighborMoves
<1>2. /\ u \in Switch
      /\ u[d] = Step(d, IF port[2] = "pos" THEN "neg" ELSE "pos", t[d])
      /\ \A e \in Dim : e # d => u[e] = t[e]
  <2> DEFINE r == Opposite(port)
  <2>1. r \in LinkPort /\ r[1] = d /\ r[2] = (IF port[2] = "pos" THEN "neg" ELSE "pos")
    BY OppositePort
  <2> HIDE DEF t, r
  <2>2. /\ Neighbor(t, r) \in Switch
        /\ Neighbor(t, r)[r[1]] = Step(r[1], r[2], t[r[1]])
        /\ \A e \in Dim : e # r[1] => Neighbor(t, r)[e] = t[e]
    BY <1>1, <2>1, NeighborMoves
  <2> HIDE DEF d
  <2> QED
    BY <2>1, <2>2 DEF r
<1>3. u[d] = s[d]
  <2> HIDE DEF t, u, d
  <2> QED BY <1>1, <1>2, SwitchCoord DEF Step
<1> QED
  <2> HIDE DEF t, u, d
  <2>1. \A e \in Dim : u[e] = s[e]
    BY <1>1, <1>2, <1>3
  <2> QED
    BY <2>1, <1>2, SwitchEqual DEF u, t

-----------------------------------------------------------------------------
\* Every set of natural numbers that is not empty has a least element.
LEMMA LeastElement ==
  ASSUME NEW T, T \subseteq Nat, T # {}
  PROVE  \E x \in T : \A y \in T : x <= y
<1> DEFINE R == OpToRel(<, Nat)
<1>1. IsWellFoundedOn(R, Nat)
  BY NatLessThanWellFounded, Zenon
<1>2. \A x, y \in Nat : x < y => <<x, y>> \in R
  BY DEF OpToRel
<1> HIDE DEF R
<1>3. PICK x \in T : \A y \in T : ~ (<<y, x>> \in R)
  BY <1>1, WFMin
<1>4. ASSUME NEW y \in T PROVE x <= y
  <2>1. x \in Nat /\ y \in Nat
    OBVIOUS
  <2>2. ~(y < x)
    BY <1>2, <1>3, <2>1
  <2> QED
    BY <2>1, <2>2
<1> QED
  BY <1>4

\* The loop of minimalRoute finds a dimension.
LEMMA NextDimFound ==
  ASSUME NEW s \in Switch, NEW dst \in Switch, s # dst
  PROVE  /\ NextDim(s, dst) \in Dim
         /\ s[NextDim(s, dst)] # dst[NextDim(s, dst)]
         /\ \A e \in Dim : e < NextDim(s, dst) => s[e] = dst[e]
<1> DEFINE T == {d \in Dim : s[d] # dst[d]}
<1>1. T # {}
  BY SwitchEqual
<1>2. T \subseteq Nat
  BY TorusAssumption DEF Dim
<1>3. PICK d \in T : \A e \in T : d <= e
  <2> HIDE DEF T
  <2> QED BY <1>1, <1>2, LeastElement
<1>4. \A e \in Dim : e < d => s[e] = dst[e]
  <2> SUFFICES ASSUME NEW e \in Dim, e < d, s[e] # dst[e] PROVE FALSE
    OBVIOUS
  <2>1. e \in T
    OBVIOUS
  <2>2. d <= e /\ d \in Nat /\ e \in Nat
    <3> HIDE DEF T
    <3> QED BY <2>1, <1>2, <1>3
  <2> QED
    BY <2>2
<1>5. d \in Dim /\ s[d] # dst[d] /\ \A e \in Dim : e < d => s[e] = dst[e]
  BY <1>4
<1> QED
  BY <1>5 DEF NextDim

-----------------------------------------------------------------------------
\* The direction minimalRoute takes from x to y along dimension d.
Toward(d, x, y) == IF shortestPathPositive(d, x, y) THEN "pos" ELSE "neg"

\* The hops that lie between x and y.
Distance(d, x, y) ==
  IF shortestPathPositive(d, x, y) THEN UpDistance(d, x, y) ELSE DownDistance(d, x, y)

\* A ring is followed in one direction, every hop one step nearer.
LEMMA KeepsDirection ==
  ASSUME NEW d \in Dim, NEW x \in Coord(d), NEW y \in Coord(d), x # y
  PROVE  LET z == Step(d, Toward(d, x, y), x) IN
         /\ z \in Coord(d)
         /\ z # y => Toward(d, z, y) = Toward(d, x, y)
         /\ Distance(d, z, y) = Distance(d, x, y) - 1
<1>1. Dims[d] \in Int /\ Dims[d] >= 2
  BY TorusAssumption
<1>2. x \in Int /\ y \in Int /\ 0 <= x /\ x < Dims[d] /\ 0 <= y /\ y < Dims[d]
  BY <1>1 DEF Coord
<1>3. CASE UpDistance(d, x, y) <= DownDistance(d, x, y)
  BY <1>1, <1>2, <1>3
  DEF Toward, Distance, Step, shortestPathPositive, UpDistance, DownDistance, Coord
<1>4. CASE ~(UpDistance(d, x, y) <= DownDistance(d, x, y))
  BY <1>1, <1>2, <1>4
  DEF Toward, Distance, Step, shortestPathPositive, UpDistance, DownDistance, Coord
<1> QED
  BY <1>3, <1>4

-----------------------------------------------------------------------------
\* The rest of the way lies behind the link that closes the ring.
Behind(dir, x, y) == IF dir = "pos" THEN x < y ELSE x > y

\* What routing at switch s leaves in the header of a packet for dst that
\* goes on over a link.
Heading(s, dst, h) ==
  /\ h.port \in LinkPort
  /\ h.lastDim = h.port[1]
  /\ h.crossed \in BOOLEAN
  /\ s[h.port[1]] # dst[h.port[1]]
  /\ \A e \in Dim : e < h.port[1] => s[e] = dst[e]
  /\ h.port[2] = Toward(h.port[1], s[h.port[1]], dst[h.port[1]])
  /\ h.vc = IF h.crossed THEN 1 ELSE 0
  /\ AtDateline(h.port[1], h.port[2], s[h.port[1]]) => h.crossed
  /\ h.crossed => \/ AtDateline(h.port[1], h.port[2], s[h.port[1]])
                  \/ Behind(h.port[2], s[h.port[1]], dst[h.port[1]])

\* A packet that did not come over a link of the dimension it takes.
LEMMA NewDimension ==
  ASSUME NEW s \in Switch, NEW dst \in Switch, s # dst, NEW h,
         ~(NextDim(s, dst) = h.lastDim /\ h.crossed)
  PROVE  Heading(s, dst, route(s, dst, h))
<1> DEFINE d == NextDim(s, dst)
           dir == Toward(d, s[d], dst[d])
           r == route(s, dst, h)
           line == AtDateline(d, dir, s[d])
<1>1. /\ d \in Dim /\ s[d] # dst[d]
      /\ \A e \in Dim : e < d => s[e] = dst[e]
  BY NextDimFound
<1>2. r = Path(d, dir, s[d], h)
  BY DEF route, Toward
<1>3. /\ r.port = <<d, dir>> /\ r.lastDim = d
      /\ r.crossed = (line \/ (d = h.lastDim /\ h.crossed))
      /\ r.vc = IF line \/ (d = h.lastDim /\ h.crossed) THEN 1 ELSE 0
  BY <1>2 DEF Path
<1>4. r.crossed \in BOOLEAN /\ (r.crossed <=> line) /\ r.vc = IF line THEN 1 ELSE 0
  <2>1. ~(d = h.lastDim /\ h.crossed)
    OBVIOUS
  <2> HIDE DEF d, dir, r, line
  <2> QED
    BY <1>3, <2>1
<1>5. dir \in {"pos", "neg"}
  BY DEF Toward
<1>6. r.port \in LinkPort /\ r.port[1] = d /\ r.port[2] = dir
  BY <1>1, <1>3, <1>5 DEF LinkPort
<1> HIDE DEF d, dir, r, line
<1> QED
  BY <1>1, <1>3, <1>4, <1>6 DEF Heading, r, line, dir

\* A hop stays in the ring it is in, or ends there.
LEMMA StaysInRing ==
  ASSUME NEW p \in Switch, NEW dst \in Switch, NEW h, Heading(p, dst, h),
         NEW d, d = h.port[1], NEW s, s = Neighbor(p, h.port)
  PROVE  /\ d \in Dim /\ s \in Switch
         /\ s[d] = Step(d, h.port[2], p[d])
         /\ \A e \in Dim : e < d => s[e] = dst[e]
         /\ s[d] # dst[d] => h.port[2] = Toward(d, s[d], dst[d])
         /\ Distance(d, s[d], dst[d]) = Distance(d, p[d], dst[d]) - 1
<1>1. /\ h.port \in LinkPort /\ p[d] # dst[d] /\ h.port[2] = Toward(d, p[d], dst[d])
      /\ \A e \in Dim : e < d => p[e] = dst[e]
  BY DEF Heading
<1>2. /\ d \in Dim /\ s \in Switch
      /\ s[d] = Step(d, h.port[2], p[d])
      /\ \A e \in Dim : e # d => s[e] = p[e]
  BY <1>1, NeighborMoves
<1>3. p[d] \in Coord(d) /\ dst[d] \in Coord(d)
  BY <1>2 DEF Switch
<1>4. /\ s[d] # dst[d] => Toward(d, s[d], dst[d]) = Toward(d, p[d], dst[d])
      /\ Distance(d, s[d], dst[d]) = Distance(d, p[d], dst[d]) - 1
  BY <1>1, <1>2, <1>3, KeepsDirection
<1>5. ASSUME NEW e \in Dim, e < d PROVE s[e] = dst[e]
  <2>1. e # d
    BY <1>2, <1>5 DEF Dim
  <2> QED
    BY <1>1, <1>2, <1>5, <2>1
<1> QED
  BY <1>1, <1>2, <1>4, <1>5

\* Along a ring: once behind the dateline a packet stays there, and the places
\* of the channels it takes ascend.
LEMMA RingAscends ==
  ASSUME NEW d \in Dim, NEW dir \in {"pos", "neg"},
         NEW x \in Coord(d), NEW y \in Coord(d), NEW z, z = Step(d, dir, x), z # y,
         NEW v1 \in VC, NEW v2 \in VC,
         AtDateline(d, dir, x) => v1 = 1,
         v1 = 1 => AtDateline(d, dir, x) \/ Behind(dir, x, y),
         v2 = 1 <=> AtDateline(d, dir, z) \/ v1 = 1
  PROVE  /\ v1 = 1 => Behind(dir, z, y)
         /\ Place(d, dir, x, v1) < Place(d, dir, z, v2)
<1>1. Dims[d] \in Int /\ Dims[d] >= 2
  BY TorusAssumption
<1>2. x \in Int /\ y \in Int /\ 0 <= x /\ x < Dims[d] /\ 0 <= y /\ y < Dims[d]
  BY <1>1 DEF Coord
<1>3. CASE dir = "pos"
  <2>1. z = (IF x = Dims[d] - 1 THEN 0 ELSE x + 1) /\ z \in Int
    BY <1>1, <1>2, <1>3 DEF Step
  <2>2. (x = Dims[d] - 1 => v1 = 1) /\ (v1 = 1 => x = Dims[d] - 1 \/ x < y) /\ (v2 = 1 <=> z = Dims[d] - 1 \/ v1 = 1)
    BY <1>3 DEF AtDateline, Behind
  <2>3. v1 = 1 => z < y
    BY <1>1, <1>2, <2>1, <2>2
  <2>4. CASE v1 = 1
    BY <1>1, <1>2, <1>3, <2>1, <2>2, <2>3, <2>4 DEF Place, Behind, VC
  <2>5. CASE v1 # 1
    BY <1>1, <1>2, <1>3, <2>1, <2>2, <2>3, <2>5 DEF Place, Behind, VC
  <2> QED
    BY <2>4, <2>5
<1>4. CASE dir = "neg"
  <2>1. z = (IF x = 0 THEN Dims[d] - 1 ELSE x - 1) /\ z \in Int
    BY <1>1, <1>2, <1>4 DEF Step
  <2>2. (x = 0 => v1 = 1) /\ (v1 = 1 => x = 0 \/ x > y) /\ (v2 = 1 <=> z = 0 \/ v1 = 1)
    BY <1>4 DEF AtDateline, Behind
  <2>3. v1 = 1 => z > y
    BY <1>1, <1>2, <2>1, <2>2
  <2>4. CASE v1 = 1
    BY <1>1, <1>2, <1>4, <2>1, <2>2, <2>3, <2>4 DEF Place, Behind, VC
  <2>5. CASE v1 # 1
    BY <1>1, <1>2, <1>4, <2>1, <2>2, <2>3, <2>5 DEF Place, Behind, VC
  <2> QED
    BY <2>4, <2>5
<1> QED
  BY <1>3, <1>4

\* A packet that goes on in the dimension it came in.
LEMMA SameDimension ==
  ASSUME NEW p \in Switch, NEW dst \in Switch, NEW h, Heading(p, dst, h),
         NEW d, d = h.port[1], NEW s, s = Neighbor(p, h.port), s[d] # dst[d]
  PROVE  /\ Heading(s, dst, route(s, dst, h))
         /\ route(s, dst, h).port = h.port
         /\ Place(d, h.port[2], p[d], h.vc) < Place(d, h.port[2], s[d], route(s, dst, h).vc)
<1> DEFINE r == route(s, dst, h)
           dir == h.port[2]
           c2 == AtDateline(d, dir, s[d]) \/ h.crossed
<1>1. /\ d \in Dim /\ s \in Switch
      /\ s[d] = Step(d, dir, p[d])
      /\ \A e \in Dim : e < d => s[e] = dst[e]
      /\ dir = Toward(d, s[d], dst[d])
  BY StaysInRing
<1>2. s # dst
  OBVIOUS
<1>3. NextDim(s, dst) = d
  <2>1. /\ NextDim(s, dst) \in Dim
        /\ s[NextDim(s, dst)] # dst[NextDim(s, dst)]
        /\ \A e \in Dim : e < NextDim(s, dst) => s[e] = dst[e]
    BY <1>1, <1>2, NextDimFound
  <2>2. NextDim(s, dst) \in Int /\ d \in Int
    BY <1>1, <2>1 DEF Dim
  <2>3. ~(d < NextDim(s, dst)) /\ ~(NextDim(s, dst) < d)
    BY <1>1, <2>1
  <2> QED
    BY <2>2, <2>3
<1>4. /\ h.port \in LinkPort /\ h.lastDim = d /\ h.crossed \in BOOLEAN
      /\ h.vc = IF h.crossed THEN 1 ELSE 0
      /\ AtDateline(d, dir, p[d]) => h.crossed
      /\ h.crossed => AtDateline(d, dir, p[d]) \/ Behind(dir, p[d], dst[d])
  BY DEF Heading
<1>4a. h.port = <<d, dir>> /\ dir \in {"pos", "neg"}
  BY <1>4 DEF LinkPort
<1>5. r = Path(d, dir, s[d], h)
  BY <1>1, <1>2, <1>3 DEF route, Toward
<1>6. /\ r.port = <<d, dir>> /\ r.lastDim = d /\ r.crossed = c2
      /\ r.vc = IF c2 THEN 1 ELSE 0
  <2>1. c2 = (AtDateline(d, dir, s[d]) \/ (d = h.lastDim /\ h.crossed))
    BY <1>4
  <2> HIDE DEF c2, r, dir
  <2> QED
    BY <1>5, <2>1 DEF Path
<1>7. c2 \in BOOLEAN /\ c2 = (AtDateline(d, dir, s[d]) \/ h.crossed)
  OBVIOUS
<1>8. p[d] \in Coord(d) /\ dst[d] \in Coord(d)
  BY <1>1 DEF Switch
<1> HIDE DEF r, c2, dir
<1>9. /\ h.crossed => Behind(dir, s[d], dst[d])
      /\ Place(d, dir, p[d], h.vc) < Place(d, dir, s[d], r.vc)
  <2>1. h.vc \in VC /\ (h.vc = 1 <=> h.crossed)
    BY <1>4 DEF VC
  <2>2. r.vc \in VC /\ (r.vc = 1 <=> AtDateline(d, dir, s[d]) \/ h.vc = 1)
    BY <1>6, <1>7, <2>1 DEF VC
  <2> QED
    BY <1>1, <1>4, <1>4a, <1>8, <2>1, <2>2, RingAscends
<1>10. Heading(s, dst, r)
  <2>1. r.port = h.port /\ r.port[1] = d /\ r.port[2] = dir
    BY <1>4a, <1>6
  <2>2. AtDateline(d, dir, s[d]) => r.crossed
    BY <1>6, <1>7
  <2>3. r.crossed => AtDateline(d, dir, s[d]) \/ Behind(dir, s[d], dst[d])
    BY <1>6, <1>7, <1>9
  <2>4. r.vc = IF r.crossed THEN 1 ELSE 0
    BY <1>6
  <2>5. r.crossed \in BOOLEAN
    BY <1>6, <1>7
  <2> QED
    BY <1>1, <1>4, <1>6, <2>1, <2>2, <2>3, <2>4, <2>5 DEF Heading
<1> QED
  BY <1>4, <1>4a, <1>6, <1>9, <1>10 DEF r, dir

-----------------------------------------------------------------------------
(***************************************************************************)
(* A packet that comes from a node leaves its first switch with a header   *)
(* that leads it on the shortest way (TorusMinimalRouter::route).          *)
(***************************************************************************)
THEOREM FirstHop ==
  ASSUME NEW s \in Switch, NEW dst \in Switch, s # dst
  PROVE  Heading(s, dst, route(s, dst, InitHeader))
BY NewDimension DEF InitHeader

(***************************************************************************)
(* One hop of minimal routing, on every torus: the packet comes one step   *)
(* nearer, is routed on with a header of the same kind or to the port of   *)
(* its node, and the channel it needs comes after the one it holds.        *)
(***************************************************************************)
THEOREM HopAscends ==
  ASSUME NEW p \in Switch, NEW dst \in Switch, NEW h, Heading(p, dst, h),
         NEW s, s = Neighbor(p, h.port), NEW r, r = route(s, dst, h)
  PROVE  /\ s \in Switch
         /\ Distance(h.port[1], s[h.port[1]], dst[h.port[1]])
              = Distance(h.port[1], p[h.port[1]], dst[h.port[1]]) - 1
         /\ s # dst => Heading(s, dst, r)
         /\ s = dst => r.port = NodePort
         /\ Before([sw |-> p, port |-> h.port, vc |-> h.vc],
                   [sw |-> s, port |-> r.port, vc |-> r.vc])
<1> DEFINE d == h.port[1]
<1>1. /\ d \in Dim /\ s \in Switch
      /\ \A e \in Dim : e < d => s[e] = dst[e]
      /\ Distance(d, s[d], dst[d]) = Distance(d, p[d], dst[d]) - 1
  BY StaysInRing
<1>2. h.port \in LinkPort /\ h.lastDim = d
  BY DEF Heading
<1>3. h.port # NodePort /\ d \in Int
  BY <1>1, <1>2, TorusAssumption DEF LinkPort, NodePort, Dim
<1>4. CASE s = dst
  <2>1. r.port = NodePort
    BY <1>4 DEF route
  <2> QED
    BY <1>1, <1>3, <1>4, <2>1 DEF Before
<1>5. CASE s # dst /\ s[d] # dst[d]
  <2>1. /\ Heading(s, dst, r) /\ r.port = h.port
        /\ Place(d, h.port[2], p[d], h.vc) < Place(d, h.port[2], s[d], r.vc)
    BY <1>5, SameDimension
  <2> QED
    BY <1>1, <1>5, <2>1 DEF Before
<1>6. CASE s # dst /\ s[d] = dst[d]
  <2>1. /\ NextDim(s, dst) \in Dim
        /\ s[NextDim(s, dst)] # dst[NextDim(s, dst)]
    BY <1>1, <1>6, NextDimFound
  <2>2. d < NextDim(s, dst)
    <3>1. NextDim(s, dst) \in Int /\ d \in Int
      BY <1>1, <2>1 DEF Dim
    <3>2. ~(NextDim(s, dst) < d) /\ NextDim(s, dst) # d
      BY <1>1, <1>6, <2>1
    <3> QED
      BY <3>1, <3>2
  <2>3. NextDim(s, dst) # h.lastDim
    BY <1>2, <2>2, <1>3
  <2>4. Heading(s, dst, r)
    BY <1>1, <1>6, <2>3, NewDimension
  <2>5. r.port[1] = NextDim(s, dst)
    BY <1>6 DEF route, Path
  <2> QED
    BY <1>1, <1>3, <1>6, <2>2, <2>4, <2>5 DEF Before
<1> QED
  BY <1>4, <1>5, <1>6

(***************************************************************************)
(* The order of the channels of links has no cycles: packets that each     *)
(* hold one and wait for the next cannot wait for each other.              *)
(***************************************************************************)
THEOREM ChannelOrder ==
  ASSUME NEW c1 \in Channel, NEW c2 \in Channel, NEW c3 \in Channel,
         c1.port # NodePort, c2.port # NodePort
  PROVE  /\ ~Before(c1, c1)
         /\ Before(c1, c2) /\ Before(c2, c3) => Before(c1, c3)
<1> DEFINE place(c) == Place(c.port[1], c.port[2], c.sw[c.port[1]], c.vc)
<1>1. ASSUME NEW c \in Channel, c.port # NodePort
      PROVE  c.port \in LinkPort /\ c.port[1] \in Int /\ c.port[1] > 0 /\ place(c) \in Int
  <2>1. c.port \in LinkPort /\ c.sw \in Switch
    BY <1>1 DEF Channel, Port
  <2>2. c.port[1] \in Dim
    BY <2>1 DEF LinkPort
  <2> QED
    BY <2>1, <2>2, SwitchCoord DEF Place
<1>2. /\ c1.port[1] \in Int /\ c1.port[1] > 0 /\ place(c1) \in Int
      /\ c2.port[1] \in Int /\ c2.port[1] > 0 /\ place(c2) \in Int
  BY <1>1
<1>3. ~Before(c1, c1)
  BY <1>2 DEF Before
<1>4. ASSUME Before(c1, c2), Before(c2, c3) PROVE Before(c1, c3)
  <2>1. CASE c3.port = NodePort
    BY <2>1 DEF Before
  <2>2. CASE c3.port # NodePort
    <3>1. c3.port[1] \in Int /\ c3.port[1] > 0 /\ place(c3) \in Int
      BY <1>1, <2>2
    <3>2. c1.port[1] < c2.port[1] \/ (c1.port = c2.port /\ place(c1) < place(c2))
      BY <1>4 DEF Before
    <3>3. c2.port[1] < c3.port[1] \/ (c2.port = c3.port /\ place(c2) < place(c3))
      BY <1>4, <2>2 DEF Before
    <3>4. c1.port[1] < c3.port[1] \/ (c1.port = c3.port /\ place(c1) < place(c3))
      <4> HIDE DEF place
      <4> QED BY <1>2, <3>1, <3>2, <3>3
    <3> QED
      BY <3>4 DEF Before
  <2> QED
    BY <2>1, <2>2
<1> QED
  BY <1>3, <1>4

-----------------------------------------------------------------------------
(***************************************************************************)
(* Packets on the links and in the queues.                                 *)
(***************************************************************************)

\* A packet as the NICs make it.
IsPacket(p) ==
  /\ p = [id |-> p.id, bytes |-> p.bytes, tail |-> p.tail,
          dst |-> p.dst, vc |-> p.vc, inport |-> p.inport, hdr |-> p.hdr]
  /\ p.dst \in Switch
  /\ p.vc \in VC
  /\ p.inport \in Port
  /\ p.hdr \in Header

\* A packet that was routed to channel c.
LeavesBy(c, p) ==
  /\ p.hdr.port = c.port
  /\ p.hdr.vc = c.vc
  /\ c.port # NodePort => Heading(c.sw, p.dst, p.hdr)

\* A packet on a link: it comes from a node, or over the channel it was routed to.
GoodPayload(e) ==
  /\ IsPacket(e.pkt)
  /\ e.to.sw \in Switch
  /\ e.to.port \in Port
  /\ (e.to.at = "switch" /\ e.to.port = NodePort) => e.pkt.hdr = InitHeader
  /\ (e.to.at = "switch" /\ e.to.port # NodePort) =>
       LeavesBy(Chan(Neighbor(e.to.sw, e.to.port), Opposite(e.to.port), e.pkt.vc), e.pkt)
  /\ e.to.at = "buffer" => LeavesBy(Chan(e.to.sw, e.to.port, e.pkt.vc), e.pkt)

GoodCredit(cr) == cr.to.sw \in Switch /\ cr.to.port \in Port /\ cr.vc \in VC

\* A packet that waits in a crossbar, and in an output buffer, for channel c.
InCrossbar(c, p) ==
  /\ IsPacket(p)
  /\ LeavesBy(c, p)
  /\ p.inport # NodePort => Before(HeldBy(c.sw, p), c)
InBuffer(c, p) ==
  /\ IsPacket(p)
  /\ LeavesBy(c, p)
  /\ p.vc = c.vc

GoodMessage(w) == w = [msg |-> w.msg, sent |-> w.sent] /\ w.msg \in Message

IsQueue(q) == q \in Seq(ToSet(q))

PayloadInv == \A e \in payloads : GoodPayload(e)
CreditInv == \A cr \in credits : GoodCredit(cr)
XbarInv ==
  /\ xbarQueue = [c \in Channel |-> xbarQueue[c]]
  /\ \A c \in Channel : IsQueue(xbarQueue[c]) /\ \A p \in ToSet(xbarQueue[c]) : InCrossbar(c, p)
BufferInv ==
  /\ bufQueue = [c \in Channel |-> bufQueue[c]]
  /\ \A c \in Channel : IsQueue(bufQueue[c]) /\ \A p \in ToSet(bufQueue[c]) : InBuffer(c, p)
PendingInv ==
  /\ pendingInject = [s \in Switch |-> pendingInject[s]]
  /\ \A s \in Switch : IsQueue(pendingInject[s]) /\ \A w \in ToSet(pendingInject[s]) : GoodMessage(w)
JobInv == job \in Jobs

IInv == JobInv /\ PendingInv /\ PayloadInv /\ CreditInv /\ XbarInv /\ BufferInv

-----------------------------------------------------------------------------
(***************************************************************************)
(* Queues.                                                                 *)
(***************************************************************************)
LEMMA QueueOf ==
  ASSUME NEW S, NEW q \in Seq(S)
  PROVE  IsQueue(q) /\ ToSet(q) \subseteq S
<1>1. ToSet(q) \subseteq S
  BY DEF ToSet
<1>2. q \in [1 .. Len(q) -> S] /\ Len(q) \in Nat
  OBVIOUS
<1>3. q \in [1 .. Len(q) -> ToSet(q)]
  BY <1>2 DEF ToSet
<1> QED
  BY <1>1, <1>2, <1>3 DEF IsQueue

LEMMA EmptyQueue == IsQueue(<<>>) /\ ToSet(<<>>) = {}
BY DEF IsQueue, ToSet

LEMMA AppendQueue ==
  ASSUME NEW q, IsQueue(q), NEW x
  PROVE  IsQueue(Append(q, x)) /\ ToSet(Append(q, x)) \subseteq ToSet(q) \cup {x}
<1> DEFINE S == ToSet(q) \cup {x}
<1>1. q \in Seq(S)
  BY DEF IsQueue
<1>2. Append(q, x) \in Seq(S)
  BY <1>1
<1> QED
  BY <1>2, QueueOf

LEMMA RemoveQueue ==
  ASSUME NEW q, IsQueue(q), NEW k \in DOMAIN q
  PROVE  IsQueue(RemoveAt(q, k)) /\ ToSet(RemoveAt(q, k)) \subseteq ToSet(q)
<1> DEFINE S == ToSet(q)
<1>1. q \in Seq(S) /\ k \in 1 .. Len(q)
  BY DEF IsQueue
<1>2. RemoveAt(q, k) \in Seq(S)
  <2> HIDE DEF S
  <2>1. SubSeq(q, 1, k - 1) \in Seq(S) /\ SubSeq(q, k + 1, Len(q)) \in Seq(S)
    BY <1>1
  <2> QED
    BY <2>1 DEF RemoveAt
<1> QED
  BY <1>2, QueueOf

LEMMA SelectQueue ==
  ASSUME NEW q, IsQueue(q), NEW n \in Nat, NEW f \in [1 .. n -> DOMAIN q]
  PROVE  LET r == [i \in DOMAIN f |-> q[f[i]]] IN IsQueue(r) /\ ToSet(r) \subseteq ToSet(q)
<1> DEFINE r == [i \in DOMAIN f |-> q[f[i]]]
           S == ToSet(q)
<1>1. \A k \in DOMAIN q : q[k] \in S
  BY DEF ToSet
<1>2. r \in [1 .. n -> S]
  <2> HIDE DEF S
  <2> QED BY <1>1
<1>3. r \in Seq(S)
  <2> HIDE DEF S, r
  <2> QED BY <1>2
<1> QED
  BY <1>3, QueueOf

-----------------------------------------------------------------------------
(***************************************************************************)
(* Packets.                                                                *)
(***************************************************************************)
LEMMA PortKinds ==
  /\ NodePort \notin LinkPort
  /\ \A port \in Port : port # NodePort => port \in LinkPort
  /\ LinkPort \subseteq Port
  /\ NodePort \in Port
BY TorusAssumption DEF NodePort, LinkPort, Port, Dim

LEMMA InitHeaderType == InitHeader \in Header
<1>1. 1 \in Dim
  BY TorusAssumption DEF Dim
<1> QED
  BY <1>1 DEF InitHeader, Header, Port, VC

LEMMA RouteType ==
  ASSUME NEW s \in Switch, NEW dst \in Switch, NEW h \in Header
  PROVE  route(s, dst, h) \in Header
<1>1. CASE s = dst
  <2> DEFINE g == [h EXCEPT !.port = NodePort]
             r == [g EXCEPT !.vc = 0]
  <2>1. g \in Header
    BY DEF Header, Port
  <2>2. r \in Header
    <3> HIDE DEF g
    <3> QED BY <2>1 DEF Header, VC
  <2>3. route(s, dst, h) = r
    BY <1>1, Zenon DEF route
  <2> QED
    BY <2>2, <2>3
<1>2. CASE s # dst
  <2> DEFINE d == NextDim(s, dst)
             dir == IF shortestPathPositive(d, s[d], dst[d]) THEN "pos" ELSE "neg"
             line == AtDateline(d, dir, s[d]) \/ (d = h.lastDim /\ h.crossed)
  <2>1. d \in Dim
    BY <1>2, NextDimFound
  <2>2. <<d, dir>> \in Port
    BY <2>1 DEF Port, LinkPort
  <2>3. route(s, dst, h)
          = [port |-> <<d, dir>>, vc |-> IF line THEN 1 ELSE 0, crossed |-> line, lastDim |-> d]
    BY <1>2, Zenon DEF route, Path
  <2>4. line \in BOOLEAN /\ (IF line THEN 1 ELSE 0) \in VC
    BY DEF VC
  <2> HIDE DEF d, dir, line
  <2> QED
    BY <2>1, <2>2, <2>3, <2>4 DEF Header
<1> QED
  BY <1>1, <1>2

LEMMA UpdatedPacket ==
  ASSUME NEW p, IsPacket(p)
  PROVE  /\ IsPacket(UpdateVC(p))
         /\ UpdateVC(p).vc = p.hdr.vc
         /\ UpdateVC(p).hdr = p.hdr
         /\ UpdateVC(p).dst = p.dst
         /\ UpdateVC(p).id = p.id /\ UpdateVC(p).bytes = p.bytes
<1>1. p.hdr.vc \in VC
  BY DEF IsPacket, Header
<1>2. UpdateVC(p) = [id |-> p.id, bytes |-> p.bytes, tail |-> p.tail, dst |-> p.dst,
                     vc |-> p.hdr.vc, inport |-> p.inport, hdr |-> p.hdr]
  <2>1. PICK id, bytes, tail, dst, vc, inport, hdr :
          p = [id |-> id, bytes |-> bytes, tail |-> tail,
               dst |-> dst, vc |-> vc, inport |-> inport, hdr |-> hdr]
    BY Zenon DEF IsPacket
  <2> QED
    BY <2>1 DEF UpdateVC
<1> QED
  BY <1>1, <1>2 DEF IsPacket

LEMMA RoutedPacket ==
  ASSUME NEW e, GoodPayload(e)
  PROVE  /\ IsPacket(Routed(e))
         /\ Routed(e).hdr = route(e.to.sw, e.pkt.dst, e.pkt.hdr)
         /\ Routed(e).inport = e.to.port
         /\ Routed(e).dst = e.pkt.dst
         /\ Routed(e).vc = e.pkt.vc
         /\ Routed(e).id = e.pkt.id /\ Routed(e).bytes = e.pkt.bytes
<1> DEFINE p == e.pkt
           h == route(e.to.sw, p.dst, p.hdr)
           g == [p EXCEPT !.hdr = h]
<1>1. IsPacket(p) /\ e.to.sw \in Switch /\ e.to.port \in Port
  BY DEF GoodPayload
<1>2. h \in Header
  BY <1>1, RouteType DEF IsPacket
<1>3. PICK id, bytes, tail, dst, vc, inport, hdr :
        p = [id |-> id, bytes |-> bytes, tail |-> tail,
             dst |-> dst, vc |-> vc, inport |-> inport, hdr |-> hdr]
  BY <1>1, Zenon DEF IsPacket
<1>4. g = [id |-> p.id, bytes |-> p.bytes, tail |-> p.tail, dst |-> p.dst,
           vc |-> p.vc, inport |-> p.inport, hdr |-> h]
  <2> HIDE DEF h, p
  <2> QED BY <1>3
<1>5. Routed(e) = [g EXCEPT !.inport = e.to.port]
  BY Zenon DEF Routed
<1>6. Routed(e) = [id |-> p.id, bytes |-> p.bytes, tail |-> p.tail, dst |-> p.dst,
                   vc |-> p.vc, inport |-> e.to.port, hdr |-> h]
  <2> HIDE DEF g, h, p
  <2> QED BY <1>4, <1>5
<1> HIDE DEF h
<1> QED
  BY <1>1, <1>2, <1>6 DEF IsPacket, h

\* What a packet needs after routing comes after what it holds.
LEMMA RoutedInCrossbar ==
  ASSUME NEW e, GoodPayload(e), e.to.at = "switch"
  PROVE  /\ Needed(e.to.sw, Routed(e)) \in Channel
         /\ InCrossbar(Needed(e.to.sw, Routed(e)), Routed(e))
<1> DEFINE s == e.to.sw
           p == Routed(e)
           dst == e.pkt.dst
           h == e.pkt.hdr
           r == route(s, dst, h)
           c == Needed(s, p)
<1>1. /\ IsPacket(p) /\ p.hdr = r /\ p.inport = e.to.port /\ p.dst = dst /\ p.vc = e.pkt.vc
  BY RoutedPacket
<1>2. s \in Switch /\ dst \in Switch /\ e.to.port \in Port
  BY DEF GoodPayload, IsPacket
<1>3. r \in Header
  BY <1>1 DEF IsPacket
<1>4. c = [sw |-> s, port |-> r.port, vc |-> r.vc]
  BY <1>1 DEF Needed, Chan
<1>5. c \in Channel /\ c.sw = s /\ c.port = r.port /\ c.vc = r.vc
  BY <1>2, <1>3, <1>4 DEF Channel, Header
<1>6. CASE e.to.port = NodePort
  <2>1. h = InitHeader
    BY <1>6 DEF GoodPayload
  <2>2. c.port # NodePort => Heading(s, dst, r)
    <3>1. CASE s = dst
      <4>1. r.port = NodePort
        BY <3>1, <2>1 DEF route, InitHeader
      <4> QED
        BY <4>1, <1>5
    <3>2. CASE s # dst
      BY <3>2, <1>2, <2>1, FirstHop
    <3> QED
      BY <3>1, <3>2
  <2>3. InCrossbar(c, p)
    <3> HIDE DEF c, r, p
    <3> QED
      BY <1>1, <1>5, <1>6, <2>2 DEF InCrossbar, LeavesBy
  <2> QED
    BY <1>5, <2>3
<1>7. CASE e.to.port # NodePort
  <2> DEFINE port == e.to.port
             t == Neighbor(s, port)
  <2>1. port \in LinkPort /\ Opposite(port) \in LinkPort /\ t \in Switch
    BY <1>2, <1>7, PortKinds, OppositePort, NeighborMoves
  <2>2. LeavesBy(Chan(t, Opposite(port), e.pkt.vc), e.pkt)
    BY <1>7 DEF GoodPayload
  <2>3. h.port = Opposite(port) /\ h.vc = e.pkt.vc /\ Heading(t, dst, h)
    BY <2>1, <2>2, PortKinds DEF LeavesBy, Chan
  <2>4. Neighbor(t, h.port) = s
    BY <1>2, <2>1, <2>3, ThereAndBack
  <2>5. HeldBy(s, p) = [sw |-> t, port |-> h.port, vc |-> h.vc]
    BY <1>1, <2>3 DEF HeldBy, Chan
  <2> HIDE DEF t, h, r, dst, s, p, c, port
  <2>6. /\ s # dst => Heading(s, dst, r)
        /\ s = dst => r.port = NodePort
        /\ Before([sw |-> t, port |-> h.port, vc |-> h.vc], [sw |-> s, port |-> r.port, vc |-> r.vc])
    BY <1>2, <2>1, <2>3, <2>4, HopAscends DEF r
  <2>7. c.port # NodePort => Heading(c.sw, p.dst, p.hdr)
    BY <1>1, <1>5, <2>6
  <2>8. Before(HeldBy(c.sw, p), c)
    BY <1>4, <1>5, <2>5, <2>6
  <2> QED
    BY <1>1, <1>5, <2>7, <2>8 DEF InCrossbar, LeavesBy, s, c, p
<1> QED
  BY <1>5, <1>6, <1>7

LEMMA SentToBuffer ==
  ASSUME NEW c \in Channel, NEW p, InCrossbar(c, p)
  PROVE  GoodPayload(XbarSend(c.sw, p))
<1> DEFINE e == XbarSend(c.sw, p)
           q == UpdateVC(p)
<1>1. IsPacket(q) /\ q.vc = p.hdr.vc /\ q.hdr = p.hdr /\ q.dst = p.dst
  BY UpdatedPacket DEF InCrossbar
<1>2. c.sw \in Switch /\ c.port \in Port /\ LeavesBy(c, p)
  BY DEF Channel, InCrossbar
<1>3. /\ e.to.at = "buffer" /\ e.to.sw = c.sw /\ e.to.port = p.hdr.port /\ e.pkt = q
  BY DEF XbarSend, To
<1>4. p.hdr.port = c.port /\ p.hdr.vc = c.vc /\ (c.port # NodePort => Heading(c.sw, p.dst, p.hdr))
  BY <1>2 DEF LeavesBy
<1> HIDE DEF e, q
<1>5. LeavesBy(Chan(e.to.sw, e.to.port, q.vc), q)
  BY <1>1, <1>3, <1>4 DEF LeavesBy, Chan
<1> QED
  BY <1>1, <1>2, <1>3, <1>4, <1>5 DEF GoodPayload, e

LEMMA SentOverLink ==
  ASSUME NEW c \in Channel, NEW p, InBuffer(c, p)
  PROVE  GoodPayload(BufferSend(c.sw, c.port, p))
<1> DEFINE e == BufferSend(c.sw, c.port, p)
<1>1. c.sw \in Switch /\ c.port \in Port /\ c = Chan(c.sw, c.port, c.vc)
  BY DEF Channel, Chan
<1>2. IsPacket(p) /\ LeavesBy(c, p) /\ p.vc = c.vc
  BY DEF InBuffer
<1>3. e.to = Downstream(c.sw, c.port) /\ e.pkt = p
  BY DEF BufferSend
<1> HIDE DEF e
<1>4. CASE c.port = NodePort
  <2>1. e.to.at = "nic" /\ e.to.sw = c.sw /\ e.to.port = NodePort
    BY <1>3, <1>4 DEF Downstream, To
  <2> QED
    BY <1>1, <1>2, <1>3, <1>4, <2>1 DEF GoodPayload, e
<1>5. CASE c.port # NodePort
  <2>1. c.port \in LinkPort
    BY <1>1, <1>5, PortKinds
  <2>2. e.to.at = "switch" /\ e.to.sw = Neighbor(c.sw, c.port) /\ e.to.port = Opposite(c.port)
    BY <1>3, <1>5 DEF Downstream, To
  <2>3. e.to.sw \in Switch /\ e.to.port \in LinkPort
    BY <1>1, <2>1, <2>2, NeighborMoves, OppositePort
  <2>4. Neighbor(e.to.sw, e.to.port) = c.sw /\ Opposite(e.to.port) = c.port
    BY <1>1, <2>1, <2>2, ThereAndBack, OppositePort
  <2>5. LeavesBy(Chan(Neighbor(e.to.sw, e.to.port), Opposite(e.to.port), e.pkt.vc), e.pkt)
    BY <1>1, <1>2, <1>3, <2>4
  <2> QED
    BY <1>2, <1>3, <2>2, <2>3, <2>5, PortKinds DEF GoodPayload, e
<1> QED
  BY <1>4, <1>5

LEMMA CreditUpstream ==
  ASSUME NEW s \in Switch, NEW p, IsPacket(p)
  PROVE  GoodCredit(CreditFor(p, Upstream(s, p.inport)))
<1>1. p.inport \in Port /\ p.vc \in VC
  BY DEF IsPacket
<1>2. CASE p.inport = NodePort
  BY <1>1, <1>2 DEF GoodCredit, CreditFor, Upstream, To
<1>3. CASE p.inport # NodePort
  <2>1. Neighbor(s, p.inport) \in Switch /\ Opposite(p.inport) \in Port
    BY <1>1, <1>3, PortKinds, NeighborMoves, OppositePort
  <2> QED
    BY <1>1, <1>3, <2>1 DEF GoodCredit, CreditFor, Upstream, To
<1> QED
  BY <1>2, <1>3

LEMMA CreditTo ==
  ASSUME NEW s \in Switch, NEW port \in Port, NEW at, NEW p, IsPacket(p)
  PROVE  GoodCredit(CreditFor(p, To(at, s, port)))
BY DEF GoodCredit, CreditFor, To, IsPacket

\* The packets a NIC makes.
LEMMA InjectedGood ==
  ASSUME JobInv, NEW m \in Message, NEW offset, NEW n, NEW s \in Switch,
         NEW p \in Packets(m, offset, n)
  PROVE  GoodPayload([to |-> To("switch", s, NodePort), pkt |-> p])
<1>1. job[m].dst \in Switch
  BY PiscesAssumption DEF JobInv
<1>2. PICK id, bytes, tail :
        p = [id |-> id, bytes |-> bytes, tail |-> tail, dst |-> job[m].dst,
             vc |-> 0, inport |-> NodePort, hdr |-> InitHeader]
  <2>1. PICK k : p = LET bytes == MinOf(Mtu, job[m].bytes - (offset + k * Mtu)) IN
                     [id |-> <<m, offset + k * Mtu>>, bytes |-> bytes,
                      tail |-> offset + k * Mtu + bytes = job[m].bytes,
                      dst |-> job[m].dst, vc |-> 0, inport |-> NodePort, hdr |-> InitHeader]
    BY DEF Packets
  <2> QED
    BY <2>1, Zenon
<1>3. IsPacket(p) /\ p.hdr = InitHeader
  BY <1>1, <1>2, InitHeaderType, PortKinds DEF IsPacket, VC
<1> QED
  BY <1>3, PortKinds DEF GoodPayload, To

\* The loop of packetSent: how many of the pending messages it finishes, and
\* how many it tries.
FinishedBy(q, n) == Cardinality(Finished(q, n))
TriedBy(q, n) == MinOf(FinishedBy(q, n) + 1, Len(q))

\* A set of numbers with all the smaller ones is an interval.
LEMMA InitialSegment ==
  ASSUME NEW L \in Nat, NEW S \in SUBSET (1 .. L), \A k \in S : \A i \in 1 .. k : i \in S
  PROVE  Cardinality(S) \in 0 .. L /\ S = 1 .. Cardinality(S)
<1> DEFINE T == {k \in 1 .. (L + 1) : k \notin S}
<1>1. T \subseteq Nat /\ L + 1 \in T
  OBVIOUS
<1>2. PICK x \in T : \A y \in T : x <= y
  BY <1>1, LeastElement
<1>3. x \in 1 .. (L + 1) /\ x \notin S
  OBVIOUS
<1>4. S = 1 .. (x - 1)
  <2>1. ASSUME NEW k \in S PROVE k \in 1 .. (x - 1)
    <3>1. k \in 1 .. L
      OBVIOUS
    <3>2. ~(x \in 1 .. k)
      BY <1>3
    <3> QED
      BY <1>3, <3>1, <3>2
  <2>2. ASSUME NEW k \in 1 .. (x - 1) PROVE k \in S
    <3>1. k \in 1 .. (L + 1) /\ ~(x <= k)
      BY <1>3
    <3> QED
      BY <1>2, <3>1
  <2> QED
    BY <2>1, <2>2
<1>5. Cardinality(1 .. (x - 1)) = x - 1
  <2>1. x - 1 \in Nat
    BY <1>3
  <2>2. Cardinality(1 .. (x - 1)) = IF 1 > x - 1 THEN 0 ELSE (x - 1) - 1 + 1
    BY <2>1, FS_Interval
  <2> QED
    BY <2>1, <2>2
<1>6. Cardinality(S) = x - 1
  BY <1>4, <1>5
<1> HIDE DEF T
<1> QED
  BY <1>3, <1>4, <1>6

LEMMA ResumeLoop ==
  ASSUME NEW q, IsQueue(q), NEW n
  PROVE  /\ Len(q) \in Nat /\ DOMAIN q = 1 .. Len(q)
         /\ FinishedBy(q, n) \in 0 .. Len(q) /\ TriedBy(q, n) \in 0 .. Len(q)
         /\ Finished(q, n) = 1 .. FinishedBy(q, n)
         /\ FinishedBy(q, n) = Len(q) => TriedBy(q, n) = FinishedBy(q, n)
         /\ FinishedBy(q, n) # Len(q) => TriedBy(q, n) = FinishedBy(q, n) + 1
<1> DEFINE S == Finished(q, n)
           L == Len(q)
<1>1. L \in Nat /\ DOMAIN q = 1 .. L
  BY DEF IsQueue
<1>2. S \in SUBSET (1 .. L) /\ \A k \in S : \A i \in 1 .. k : i \in S
  <2>1. \A i, k, j \in Nat : i <= k /\ j <= i => j <= k
    OBVIOUS
  <2> QED BY <1>1, <2>1 DEF Finished
<1> HIDE DEF S, L
<1>3. Cardinality(S) \in 0 .. L /\ S = 1 .. Cardinality(S)
  BY <1>1, <1>2, InitialSegment
<1> QED
  BY <1>1, <1>3 DEF FinishedBy, TriedBy, MinOf, S, L

LEMMA ResumeOut ==
  ASSUME NEW q, NEW n
  PROVE  /\ ResumeAll(q, n).out = UNION {Going(q, n, i) : i \in 1 .. TriedBy(q, n)}
         /\ ResumeAll(q, n).n = n - BytesOf(ResumeAll(q, n).out)
         /\ FinishedBy(q, n) = Len(q) => ResumeAll(q, n).left = <<>>
         /\ FinishedBy(q, n) # Len(q) =>
              ResumeAll(q, n).left
                = <<[q[FinishedBy(q, n) + 1] EXCEPT !.sent = SentBy(q, n, FinishedBy(q, n) + 1)]>>
                    \o SubSeq(q, FinishedBy(q, n) + 2, Len(q))
BY DEF ResumeAll, ResumeUpTo, FinishedBy, TriedBy

\* What resumes: packets of messages that wait, and the messages that stay.
LEMMA Resumed ==
  ASSUME NEW q, IsQueue(q), \A w \in ToSet(q) : GoodMessage(w), NEW n
  PROVE  /\ \A p \in ResumeAll(q, n).out : \E m \in Message : \E i, j : p \in Packets(m, i, j)
         /\ IsQueue(ResumeAll(q, n).left)
         /\ \A w \in ToSet(ResumeAll(q, n).left) : GoodMessage(w)
<1> DEFINE f == FinishedBy(q, n)
           out == ResumeAll(q, n).out
           left == ResumeAll(q, n).left
<1>1. q \in Seq(ToSet(q)) /\ Len(q) \in Nat /\ DOMAIN q = 1 .. Len(q)
  BY DEF IsQueue
<1>2. \A k \in DOMAIN q : GoodMessage(q[k])
  BY DEF ToSet
<1>3. f \in 0 .. Len(q) /\ 1 .. TriedBy(q, n) \subseteq DOMAIN q
  BY <1>1, ResumeLoop
<1>4. \A k \in DOMAIN q : \A p \in Going(q, n, k) : \E m \in Message : \E i, j : p \in Packets(m, i, j)
  BY <1>2, Zenon DEF Going, GoodMessage
<1>5. \A p \in out : \E m \in Message : \E i, j : p \in Packets(m, i, j)
  <2>1. out = UNION {Going(q, n, i) : i \in 1 .. TriedBy(q, n)}
    BY ResumeOut
  <2> HIDE DEF out
  <2>2. ASSUME NEW p \in out PROVE \E m \in Message : \E i, j : p \in Packets(m, i, j)
    <3>1. PICK k \in 1 .. TriedBy(q, n) : p \in Going(q, n, k)
      BY <2>1
    <3> QED
      BY <1>3, <1>4, <3>1
  <2> QED
    BY <2>2
<1>6. CASE f = Len(q)
  <2>1. left = <<>>
    BY <1>6, ResumeOut
  <2> QED
    BY <1>5, <2>1, EmptyQueue
<1>7. CASE f # Len(q)
  <2> DEFINE w == [q[f + 1] EXCEPT !.sent = SentBy(q, n, f + 1)]
             T == ToSet(q) \cup {w}
  <2>1. left = <<w>> \o SubSeq(q, f + 2, Len(q))
    BY <1>7, ResumeOut
  <2>2. f + 1 \in DOMAIN q
    BY <1>1, <1>3, <1>7
  <2>3. GoodMessage(w)
    <3>1. PICK msg, sn : q[f + 1] = [msg |-> msg, sent |-> sn] /\ msg \in Message
      <4>1. GoodMessage(q[f + 1])
        BY <1>2, <2>2
      <4> QED
        BY <4>1, Zenon DEF GoodMessage
    <3> QED
      BY <3>1 DEF GoodMessage
  <2> HIDE DEF w, f, out, left
  <2>4. q \in Seq(T) /\ <<w>> \in Seq(T)
    BY <1>1
  <2>5. SubSeq(q, f + 2, Len(q)) \in Seq(T)
    <3> HIDE DEF T
    <3> QED BY <1>1, <1>3, <2>4
  <2>6. left \in Seq(T)
    <3> HIDE DEF T
    <3> QED BY <2>1, <2>4, <2>5
  <2>7. IsQueue(left) /\ ToSet(left) \subseteq T
    <3> HIDE DEF T
    <3> QED BY <2>6, QueueOf
  <2>8. \A v \in ToSet(left) : GoodMessage(v)
    BY <2>3, <2>7
  <2> QED
    BY <1>5, <2>7, <2>8 DEF out, left
<1> QED
  BY <1>6, <1>7

-----------------------------------------------------------------------------
(***************************************************************************)
(* Steps.                                                                  *)
(***************************************************************************)
LEMMA InitHolds == Init => IInv
<1> SUFFICES ASSUME Init PROVE IInv
  OBVIOUS
<1>1. JobInv /\ PayloadInv /\ CreditInv
  BY DEF Init, JobInv, PayloadInv, CreditInv
<1>2. PendingInv
  BY EmptyQueue DEF Init, PendingInv
<1>3. XbarInv /\ BufferInv
  BY EmptyQueue DEF Init, XbarInv, BufferInv
<1> QED
  BY <1>1, <1>2, <1>3 DEF IInv

LEMMA DoSendStep ==
  ASSUME IInv, NEW m \in Message, DoSend(m)
  PROVE  IInv'
<1> DEFINE s == job[m].src
           P == Packets(m, 0, injCredits[s])
           w == [msg |-> m, sent |-> BytesOf(P)]
<1>1. s \in Switch
  BY PiscesAssumption DEF IInv, JobInv
<1>2. UNCHANGED <<job, xbarQueue, bufQueue, credits>>
  BY DEF DoSend, xbarVars, bufVars
<1>3. PayloadInv'
  <2>1. payloads' = payloads \cup Injected(s, P)
    BY DEF DoSend
  <2>2. \A e \in Injected(s, P) : GoodPayload(e)
    <3> HIDE DEF s
    <3> QED BY <1>1, InjectedGood DEF IInv, Injected
  <2> QED
    BY <2>1, <2>2 DEF IInv, PayloadInv
<1>4. PendingInv'
  <2>1. GoodMessage(w)
    BY DEF GoodMessage
  <2>2. \/ pendingInject' = pendingInject
        \/ pendingInject' = [pendingInject EXCEPT ![s] = Append(@, w)]
    BY Zenon DEF DoSend
  <2> HIDE DEF w, s
  <2>3. IsQueue(pendingInject[s]) /\ \A v \in ToSet(pendingInject[s]) : GoodMessage(v)
    BY <1>1 DEF IInv, PendingInv
  <2>4. /\ IsQueue(Append(pendingInject[s], w))
        /\ \A v \in ToSet(Append(pendingInject[s], w)) : GoodMessage(v)
    BY <2>1, <2>3, AppendQueue
  <2> QED
    BY <2>2, <2>4 DEF IInv, PendingInv
<1> QED
  BY <1>2, <1>3, <1>4 DEF IInv, JobInv, CreditInv, XbarInv, BufferInv

LEMMA PacketSentStep ==
  ASSUME IInv, NEW c \in credits, PacketSent(c)
  PROVE  IInv'
<1> DEFINE s == c.to.sw
           n == injCredits[s] + c.bytes
           r == ResumeAll(pendingInject[s], n)
<1>1. s \in Switch
  BY DEF IInv, CreditInv, GoodCredit
<1>2. UNCHANGED <<job, xbarQueue, bufQueue>> /\ credits' \subseteq credits
  BY DEF PacketSent, xbarVars, bufVars
<1>3. IsQueue(pendingInject[s]) /\ \A v \in ToSet(pendingInject[s]) : GoodMessage(v)
  BY <1>1 DEF IInv, PendingInv
<1>4. /\ \A p \in r.out : \E m \in Message : \E i, j : p \in Packets(m, i, j)
      /\ IsQueue(r.left)
      /\ \A w \in ToSet(r.left) : GoodMessage(w)
  <2> HIDE DEF n, s
  <2> QED BY <1>3, Resumed
<1>5. /\ payloads' = payloads \cup Injected(s, r.out)
      /\ pendingInject' = [pendingInject EXCEPT ![s] = r.left]
  BY Zenon DEF PacketSent
<1> HIDE DEF r, s
<1>6. PayloadInv'
  <2>1. \A e \in Injected(s, r.out) : GoodPayload(e)
    BY <1>1, <1>4, InjectedGood DEF IInv, Injected
  <2> QED
    BY <1>5, <2>1 DEF IInv, PayloadInv
<1>7. PendingInv'
  BY <1>4, <1>5 DEF IInv, PendingInv
<1> QED
  BY <1>2, <1>6, <1>7 DEF IInv, JobInv, CreditInv, XbarInv, BufferInv

LEMMA PacketArrivedStep ==
  ASSUME IInv, NEW e \in payloads, PacketArrived(e)
  PROVE  IInv'
<1>1. GoodPayload(e)
  BY DEF IInv, PayloadInv
<1>2. UNCHANGED <<job, pendingInject, xbarQueue, bufQueue>> /\ payloads' \subseteq payloads
  BY DEF PacketArrived, nicVars, xbarVars, bufVars
<1>3. CreditInv'
  <2>1. GoodCredit(CreditFor(e.pkt, To("buffer", e.to.sw, NodePort)))
    BY <1>1, CreditTo, PortKinds DEF GoodPayload
  <2>2. credits' = credits \cup {CreditFor(e.pkt, To("buffer", e.to.sw, NodePort))}
    BY DEF PacketArrived
  <2> QED
    BY <2>1, <2>2 DEF IInv, CreditInv
<1> QED
  BY <1>2, <1>3 DEF IInv, JobInv, PendingInv, PayloadInv, XbarInv, BufferInv

LEMMA SwitchPayloadStep ==
  ASSUME IInv, NEW e \in payloads, SwitchPayload(e)
  PROVE  IInv'
<1> DEFINE s == e.to.sw
           p == Routed(e)
           c == Needed(s, p)
<1>1. GoodPayload(e) /\ e.to.at = "switch"
  BY DEF IInv, PayloadInv, SwitchPayload
<1>2. c \in Channel /\ InCrossbar(c, p) /\ IsPacket(p) /\ s \in Switch /\ c.sw = s
  BY <1>1, RoutedInCrossbar DEF InCrossbar, GoodPayload, Needed, Chan
<1>3. UNCHANGED <<job, pendingInject, bufQueue>>
  BY DEF SwitchPayload, nicVars, bufVars
<1>4. CASE /\ payloads' = (payloads \ {e}) \cup {XbarSend(s, p)}
           /\ credits' = credits \cup {CreditFor(p, Upstream(s, p.inport))}
           /\ UNCHANGED xbarQueue
  <2> HIDE DEF s, p, c
  <2>1. GoodPayload(XbarSend(s, p)) /\ GoodCredit(CreditFor(p, Upstream(s, p.inport)))
    BY <1>2, SentToBuffer, CreditUpstream
  <2> QED
    BY <1>3, <1>4, <2>1 DEF IInv, JobInv, PendingInv, PayloadInv, CreditInv, XbarInv, BufferInv
<1>5. CASE /\ xbarQueue' = [xbarQueue EXCEPT ![c] = Append(@, p)]
           /\ payloads' = payloads \ {e}
           /\ UNCHANGED credits
  <2> HIDE DEF s, p, c
  <2>1. /\ IsQueue(Append(xbarQueue[c], p))
        /\ \A v \in ToSet(Append(xbarQueue[c], p)) : InCrossbar(c, v)
    BY <1>2, AppendQueue DEF IInv, XbarInv
  <2>2. XbarInv'
    BY <1>5, <2>1 DEF IInv, XbarInv
  <2> QED
    BY <1>3, <1>5, <2>2 DEF IInv, JobInv, PendingInv, PayloadInv, CreditInv, BufferInv
<1> QED
  BY <1>4, <1>5, Zenon DEF SwitchPayload

LEMMA XbarCreditStep ==
  ASSUME IInv, NEW cr \in credits, XbarCredit(cr)
  PROVE  IInv'
<1> DEFINE s == cr.to.sw
           c == Chan(s, cr.to.port, cr.vc)
           n == xbarCredits[c] + cr.bytes
           fit == FirstFit(xbarQueue[c], n)
<1>1. GoodCredit(cr)
  BY DEF IInv, CreditInv
<1>2. c \in Channel /\ s \in Switch /\ c.sw = s
  BY <1>1 DEF GoodCredit, Chan, Channel
<1>3. UNCHANGED <<job, pendingInject, bufQueue>>
  BY DEF XbarCredit, nicVars, bufVars
<1>4. CASE credits' = credits \ {cr} /\ UNCHANGED <<xbarQueue, payloads>>
  BY <1>3, <1>4 DEF IInv, JobInv, PendingInv, PayloadInv, CreditInv, XbarInv, BufferInv
<1>5. ASSUME NEW k \in fit,
             xbarQueue' = [xbarQueue EXCEPT ![c] = RemoveAt(@, k)],
             payloads' = payloads \cup {XbarSend(s, xbarQueue[c][k])},
             credits' = (credits \ {cr})
               \cup {CreditFor(xbarQueue[c][k], Upstream(s, xbarQueue[c][k].inport))}
      PROVE  IInv'
  <2> DEFINE q == xbarQueue[c]
             p == q[k]
  <2>1. k \in DOMAIN q
    BY DEF FirstFit
  <2> HIDE DEF s, c, n, fit
  <2>2. IsQueue(q) /\ \A v \in ToSet(q) : InCrossbar(c, v)
    BY <1>2 DEF IInv, XbarInv
  <2>3. InCrossbar(c, p) /\ IsPacket(p)
    BY <2>1, <2>2 DEF ToSet, InCrossbar
  <2>4. IsQueue(RemoveAt(q, k)) /\ \A v \in ToSet(RemoveAt(q, k)) : InCrossbar(c, v)
    <3> HIDE DEF q
    <3> QED BY <2>1, <2>2, RemoveQueue
  <2>5. XbarInv'
    BY <1>5, <2>4 DEF IInv, XbarInv
  <2>6. GoodPayload(XbarSend(s, p)) /\ GoodCredit(CreditFor(p, Upstream(s, p.inport)))
    <3> HIDE DEF p
    <3> QED BY <1>2, <2>3, SentToBuffer, CreditUpstream
  <2> QED
    BY <1>3, <1>5, <2>5, <2>6 DEF IInv, JobInv, PendingInv, PayloadInv, CreditInv, BufferInv
<1> QED
  BY <1>4, <1>5, Zenon DEF XbarCredit

LEMMA BufferPayloadStep ==
  ASSUME IInv, NEW e \in payloads, BufferPayload(e)
  PROVE  IInv'
<1> DEFINE s == e.to.sw
           port == e.to.port
           p == e.pkt
           c == Chan(s, port, p.vc)
<1>1. GoodPayload(e) /\ e.to.at = "buffer"
  BY DEF IInv, PayloadInv, BufferPayload
<1>2. /\ s \in Switch /\ port \in Port /\ IsPacket(p) /\ LeavesBy(c, p)
      /\ c \in Channel /\ c.sw = s /\ c.port = port /\ c.vc = p.vc
  BY <1>1 DEF GoodPayload, IsPacket, Chan, Channel
<1>3. UNCHANGED <<job, pendingInject, xbarQueue>>
  BY DEF BufferPayload, nicVars, xbarVars
<1>4. CASE /\ payloads' = (payloads \ {e}) \cup {BufferSend(s, port, p)}
           /\ credits' = credits \cup {BufferCredit(s, port, p)}
           /\ UNCHANGED bufQueue
  <2> HIDE DEF s, port, p, c
  <2>1. GoodPayload(BufferSend(s, port, p)) /\ GoodCredit(BufferCredit(s, port, p))
    BY <1>2, SentOverLink, CreditTo DEF InBuffer, BufferCredit
  <2> QED
    BY <1>3, <1>4, <2>1 DEF IInv, JobInv, PendingInv, PayloadInv, CreditInv, XbarInv, BufferInv
<1>5. CASE /\ bufQueue' = [bufQueue EXCEPT ![c] = Append(@, p)]
           /\ payloads' = payloads \ {e}
           /\ UNCHANGED credits
  <2> HIDE DEF s, port, p, c
  <2>1. /\ IsQueue(Append(bufQueue[c], p))
        /\ \A v \in ToSet(Append(bufQueue[c], p)) : InBuffer(c, v)
    BY <1>2, AppendQueue DEF IInv, BufferInv, InBuffer
  <2>2. BufferInv'
    BY <1>5, <2>1 DEF IInv, BufferInv
  <2> QED
    BY <1>3, <1>5, <2>2 DEF IInv, JobInv, PendingInv, PayloadInv, CreditInv, XbarInv
<1> QED
  BY <1>4, <1>5, Zenon DEF BufferPayload

LEMMA BufferCreditedStep ==
  ASSUME IInv, NEW cr \in credits, BufferCredited(cr)
  PROVE  IInv'
<1> DEFINE s == cr.to.sw
           port == cr.to.port
           c == Chan(s, port, cr.vc)
           q == bufQueue[c]
           n == bufCredits[c] + cr.bytes
<1>1. GoodCredit(cr)
  BY DEF IInv, CreditInv
<1>2. c \in Channel /\ s \in Switch /\ port \in Port /\ c.sw = s /\ c.port = port
  BY <1>1 DEF GoodCredit, Chan, Channel
<1>3. UNCHANGED <<job, pendingInject, xbarQueue>>
  BY DEF BufferCredited, nicVars, xbarVars
<1>4. PICK go \in Fitting(q, n) : \E stay \in InOrder(DOMAIN q \ go) :
        /\ bufQueue' = [bufQueue EXCEPT ![c] = [i \in DOMAIN stay |-> q[stay[i]]]]
        /\ payloads' = payloads \cup {BufferSend(s, port, p) : p \in {q[k] : k \in go}}
        /\ credits' = (credits \ {cr}) \cup {BufferCredit(s, port, p) : p \in {q[k] : k \in go}}
  BY Zenon DEF BufferCredited
<1>4a. PICK stay \in InOrder(DOMAIN q \ go) :
        /\ bufQueue' = [bufQueue EXCEPT ![c] = [i \in DOMAIN stay |-> q[stay[i]]]]
        /\ payloads' = payloads \cup {BufferSend(s, port, p) : p \in {q[k] : k \in go}}
        /\ credits' = (credits \ {cr}) \cup {BufferCredit(s, port, p) : p \in {q[k] : k \in go}}
  BY <1>4, Zenon
<1> HIDE DEF s, port, c, n
<1>5. IsQueue(q) /\ \A v \in ToSet(q) : InBuffer(c, v)
  BY <1>2 DEF IInv, BufferInv
<1>6. BufferInv'
  <2> DEFINE S == DOMAIN q \ go
             r == [i \in DOMAIN stay |-> q[stay[i]]]
  <2>1. Cardinality(S) \in Nat
    <3>1. DOMAIN q = 1 .. Len(q) /\ Len(q) \in Nat
      BY <1>5 DEF IsQueue
    <3>2. IsFiniteSet(DOMAIN q)
      BY <3>1, FS_Interval
    <3> HIDE DEF q
    <3>3. IsFiniteSet(S)
      BY <3>2, FS_Subset
    <3> QED
      BY <3>3, FS_CardinalityType
  <2>2. stay \in [1 .. Cardinality(S) -> DOMAIN q]
    BY DEF InOrder
  <2>3. IsQueue(r) /\ ToSet(r) \subseteq ToSet(q)
    <3> HIDE DEF q, S
    <3> QED BY <1>5, <2>1, <2>2, SelectQueue
  <2>4. bufQueue' = [bufQueue EXCEPT ![c] = r]
    BY <1>4a
  <2> HIDE DEF r
  <2> QED
    BY <1>5, <2>3, <2>4 DEF IInv, BufferInv
<1>7. \A k \in go : /\ GoodPayload(BufferSend(s, port, q[k]))
                   /\ GoodCredit(BufferCredit(s, port, q[k]))
  <2> SUFFICES ASSUME NEW k \in go
               PROVE  /\ GoodPayload(BufferSend(s, port, q[k]))
                      /\ GoodCredit(BufferCredit(s, port, q[k]))
    OBVIOUS
  <2>1. k \in DOMAIN q
    BY DEF Fitting
  <2>2. InBuffer(c, q[k]) /\ IsPacket(q[k])
    BY <1>5, <2>1 DEF ToSet, InBuffer
  <2> HIDE DEF q
  <2> QED
    BY <1>2, <2>2, SentOverLink, CreditTo DEF BufferCredit
<1> HIDE DEF q
<1>8. PayloadInv' /\ CreditInv'
  BY <1>4a, <1>7 DEF IInv, PayloadInv, CreditInv
<1> QED
  BY <1>3, <1>6, <1>8 DEF IInv, JobInv, PendingInv, XbarInv

LEMMA StepHolds == IInv /\ [Next]_vars => IInv'
<1> SUFFICES ASSUME IInv, [Next]_vars PROVE IInv'
  OBVIOUS
<1>1. CASE UNCHANGED vars
  BY <1>1 DEF vars, nicVars, recvVars, xbarVars, bufVars, IInv, JobInv, PendingInv, PayloadInv,
              CreditInv, XbarInv, BufferInv
<1>2. CASE Next
  BY <1>2, DoSendStep, PacketArrivedStep, SwitchPayloadStep, BufferPayloadStep,
     PacketSentStep, XbarCreditStep, BufferCreditedStep DEF Next
<1> QED
  BY <1>1, <1>2

LEMMA OrderedByInvariant == IInv => ChannelsOrdered
<1> SUFFICES ASSUME IInv PROVE ChannelsOrdered
  OBVIOUS
<1>1. ASSUME NEW e \in payloads, e.to.at = "switch", e.to.port # NodePort
      PROVE  Before(HeldBy(e.to.sw, Routed(e)), Needed(e.to.sw, Routed(e)))
  <2>1. GoodPayload(e)
    BY DEF IInv, PayloadInv
  <2>2. InCrossbar(Needed(e.to.sw, Routed(e)), Routed(e))
    BY <1>1, <2>1, RoutedInCrossbar
  <2>3. Routed(e).inport # NodePort
    BY <1>1, <2>1, RoutedPacket
  <2>4. Needed(e.to.sw, Routed(e)).sw = e.to.sw
    BY DEF Needed, Chan
  <2> QED
    BY <2>2, <2>3, <2>4 DEF InCrossbar
<1>2. ASSUME NEW c \in Channel, NEW k \in DOMAIN xbarQueue[c], xbarQueue[c][k].inport # NodePort
      PROVE  Before(HeldBy(c.sw, xbarQueue[c][k]), c)
  <2>1. InCrossbar(c, xbarQueue[c][k])
    BY DEF IInv, XbarInv, ToSet
  <2> QED
    BY <1>2, <2>1 DEF InCrossbar
<1> QED
  BY <1>1, <1>2 DEF ChannelsOrdered

(***************************************************************************)
(* On every torus, for any traffic, credits and MTU: a packet that holds a *)
(* place behind a link waits only for a later channel.  With ChannelOrder  *)
(* no set of packets can wait for each other in a circle.                  *)
(***************************************************************************)
THEOREM ChannelsAreOrdered == Spec => []ChannelsOrdered
BY InitHolds, StepHolds, OrderedByInvariant, PTL DEF Spec
=============================================================================
