-------------------------- MODULE MCEventManager --------------------------
(***************************************************************************)
(* Instances of EventManager: links within a process have the least        *)
(* latency, links between processes one tick more, so that events sent     *)
(* later may arrive earlier.                                               *)
(***************************************************************************)
EXTENDS EventManager

MCLatency ==
  [x \in Mgr \X Mgr |->
     IF x[1] = x[2] THEN 0
     ELSE IF x[1][1] = x[2][1] THEN Lookahead ELSE Lookahead + 1]

\* Links count up in the order of their ends, the self links of a process
\* count down.
MgrNumber(m) == NThread * m[1] + m[2]
MCLinkId ==
  [x \in Mgr \X Mgr |->
     IF x[1] = x[2] THEN MaxLinkId - x[1][2]
     ELSE 20 * MgrNumber(x[1]) + MgrNumber(x[2])]

MCInitialTime == [m \in Mgr |-> (3 * MgrNumber(m)) % 4]
===========================================================================
