--------------------------- MODULE MCCollectiveDag ---------------------------
(***************************************************************************)
(* The DAGs of CollectiveDag on every communicator of up to MaxN ranks.    *)
(* DagCollective explores every interleaving on two or three ranks; here   *)
(* what holds of a DAG whatever the interleaving is checked as it stands,  *)
(* and one run of it, pair of send and receive after pair, must compute    *)
(* what the call promises.  That no two actions which may overlap touch    *)
(* the same elements (RaceFree) is why one run is enough.                  *)
(***************************************************************************)
EXTENDS CollectiveDag, TLC

CONSTANTS
  MaxN,      \* the largest communicator
  Lengths    \* the nelems of the calls

CallsOn(n) ==
  {[type |-> type, root |-> 0, nelems |-> k] :
     type \in {"allgather", "ring", "allreduce", "scan", "alltoall"}, k \in Lengths}
  \cup {[type |-> type, root |-> root, nelems |-> k] :
          type \in {"bcast", "gather", "scatter"}, root \in 0 .. (n - 1), k \in Lengths}
  \cup {[type |-> "barrier", root |-> 0, nelems |-> 0]}
  \cup {[type |-> "reduce", root |-> root, nelems |-> k] :
          root \in IF TwoRoles(n) = 1 THEN {0} ELSE 0 .. (n - 1),
          k \in Lengths}
  \cup {[type |-> "allgatherv", root |-> 0, nelems |-> 0,
          counts |-> [r \in 0 .. (n - 1) |-> (r + k) % 3]] : k \in Lengths}

VARIABLES
  n,       \* size of the communicator
  call,    \* the collective
  dag,     \* its actions, by rank
  past,    \* by rank and action that is over: the ranks it depends on
  buffer   \* the result buffers

vars == <<n, call, dag, past, buffer>>

Ranks == 0 .. (n - 1)

Done(r) == DOMAIN past[r]

Ready(r) ==
  {ac \in dag[r] : ac.id \notin Done(r) /\ ac.pre \subseteq Done(r)}

\* The ranks that have called the collective if ac may start.
PastOf(r, ac) == {r} \cup UNION {past[r][id] : id \in ac.pre}

\* The receive that a send is for, among a set of actions.
Receives(r, ac, acs) ==
  {other \in acs : /\ other.type = RECV /\ other.partner = r
                   /\ other.round = ac.round}

ReadySends ==
  {p \in UNION {{r} \X Ready(r) : r \in Ranks} :
     /\ p[2].type = SEND
     /\ Receives(p[1], p[2], Ready(p[2].partner)) # {}}

Local == {p \in UNION {{r} \X Ready(r) : r \in Ranks} :
            p[2].type \in {JOIN, SHUFFLE}}

\* A buffer after a shuffle: what lies where after the copies.
Moved(data, moves) ==
  [i \in DOMAIN data |->
     IF \E m \in moves : m[2] = i
     THEN data[(CHOOSE m \in moves : m[2] = i)[1]] ELSE data[i]]

Init ==
  /\ n \in 2 .. MaxN
  /\ call \in CallsOn(n)
  /\ dag = [r \in 0 .. (n - 1) |-> DagOf(call, n, r)]
  /\ past = [r \in 0 .. (n - 1) |-> <<>>]
  /\ buffer = [r \in 0 .. (n - 1) |-> BufferOf(call, n, r)]

Transfer ==
  /\ Local = {} /\ ReadySends # {}
  /\ LET p == CHOOSE q \in ReadySends : TRUE
         r == p[1]
         to == p[2].partner
         ac == CHOOSE other \in Receives(r, p[2], Ready(to)) : TRUE
         data == Read(buffer[r], p[2].offset, p[2].nelems)
         sent == PastOf(r, p[2])
     IN  /\ past' = [past EXCEPT
                       ![r] = (p[2].id :> sent) @@ @,
                       ![to] = (ac.id :> (sent \cup PastOf(to, ac))) @@ @]
         /\ buffer' = [buffer EXCEPT ![to] =
                         IF ac.reduce THEN Reduce(@, ac.offset, data)
                         ELSE Write(@, ac.offset, data)]
  /\ UNCHANGED <<n, call, dag>>

LocalStep ==
  /\ Local # {}
  /\ LET p == CHOOSE q \in Local : TRUE
         r == p[1]
         ac == p[2]
     IN  /\ past' = [past EXCEPT ![r] = (ac.id :> PastOf(r, ac)) @@ @]
         /\ buffer' = IF ac.type = JOIN THEN buffer
                      ELSE [buffer EXCEPT ![r] = Moved(@, Moves(call, n, ac))]
  /\ UNCHANGED <<n, call, dag>>

Next == Transfer \/ LocalStep

Spec == Init /\ [][Next]_vars

Over == Local = {} /\ ReadySends = {}

(***************************************************************************)
(* Properties                                                              *)
(***************************************************************************)
AtStart == \A r \in Ranks : Done(r) = {}

Writes(ac) ==
  CASE ac.type = RECV -> Region(ac.offset, ac.nelems)
    [] ac.type = SHUFFLE -> {m[2] : m \in Moves(call, n, ac)}
    [] OTHER -> {}
Reads(ac) ==
  CASE ac.type = SEND -> Region(ac.offset, ac.nelems)
    [] ac.type = SHUFFLE -> {m[1] : m \in Moves(call, n, ac)}
    [] OTHER -> {}

InBounds(r, ac) == Reads(ac) \cup Writes(ac) \subseteq DOMAIN buffer[r]

Sends(r, ac, acs) ==
  {other \in acs : /\ other.type = SEND /\ other.partner = r
                   /\ other.round = ac.round}

\* What initDag of the ranks build apart from each other fits together: the
\* sends and the receives of a collective pair up one to one, with equal
\* lengths, between different ranks, in bounds of both buffers, and no two
\* actions of a rank share the id their messages are matched by.
DagsMatch ==
  AtStart =>
    \A r \in Ranks :
      /\ Cardinality(Ids(dag[r])) = Cardinality(dag[r])
      /\ \A ac \in dag[r] :
           /\ InBounds(r, ac)
           /\ ac.type \in {SEND, RECV} =>
                /\ ac.partner \in Ranks \ {r}
                /\ LET peers == dag[ac.partner]
                       matching == IF ac.type = SEND THEN Receives(r, ac, peers)
                                   ELSE Sends(r, ac, peers)
                   IN  /\ Cardinality(matching) = 1
                       /\ \A other \in matching : other.nelems = ac.nelems

\* A set of actions with all that are over before one of them starts.
RECURSIVE WithBefore(_, _)
WithBefore(acs, some) ==
  LET more == {other \in acs \ some : \E ac \in some : other.id \in ac.pre}
  IN  IF more = {} THEN some ELSE WithBefore(acs, some \cup more)

Before(acs, ac) == WithBefore(acs, {ac}) \ {ac}

Conflict(a, b) ==
  \/ Writes(a) \cap (Writes(b) \cup Reads(b)) # {}
  \/ Writes(b) \cap Reads(a) # {}

\* Two actions of a rank that nothing orders never touch the same elements if
\* one of them writes: transfers may overlap in any way, a send may be read
\* late, and the result is the same.
RaceFree ==
  AtStart =>
    \A r \in Ranks : \A a \in dag[r] :
      LET earlier == Before(dag[r], a)
      IN  \A b \in dag[r] \ (earlier \cup {a}) :
            Conflict(a, b) => a \in Before(dag[r], b)

\* The calls whose result is right.  The ring allgather passes blocks round
\* that initBuffers never put into the result buffer.  A scatter on two ranks,
\* or from an even root but 0, forwards from the wrong buffer or leaves a block
\* in recv_buffer_.  A scan of four ranks or more sends its own contribution in
\* every round instead of the sum so far: rank 3 misses that of rank 0.
RightResult ==
  /\ call.type # "ring"
  /\ call.type = "scan" => n < 4
  /\ call.type = "scatter" => n > 2 /\ (call.root = 0 \/ call.root % 2 = 1)

\* The DAGs run to the end, and leave in the result buffers, after finalize,
\* what the call promises, but for the calls RightResult leaves out and for
\* reductions to a root other than 0 where one rank plays two roles (CallsOn).
DagsCompute ==
  Over =>
    \A r \in Ranks :
      /\ Done(r) = Ids(dag[r])
      /\ HasResult(call, r) /\ RightResult =>
           ResultOf(call, n, r, buffer[r]) = ExpectedOf(call, n, r)

\* A rank is through a collective only when its actions depend on the call of
\* every rank it must wait for: nobody leaves a barrier that somebody has not
\* entered, whatever the size of the communicator.
Synchronises ==
  Over => \A r \in Ranks :
            NeededBy(call, n, r) \subseteq
              ({r} \cup UNION {past[r][id] : id \in Done(r)})
=============================================================================
