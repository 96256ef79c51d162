------------------------- MODULE ConservativeSim --------------------------
(***************************************************************************)
(* A conservative simulation: what the event managers promise together.    *)
(* There is one set of events and a clock for every manager.  A manager    *)
(* handles its earliest event, and only when no event of another manager   *)
(* could still cause an earlier one.                                       *)
(***************************************************************************)
EXTENDS Integers

CONSTANTS
  Mgr,                  \* the managers
  Lookahead,            \* the least time from a cause to an effect elsewhere
  EventCompare(_, _)    \* the order of events

VARIABLES
  events,               \* events that were not handled yet
  clock                 \* the time of the last event a manager handled

Event == [time : Nat, src : Mgr, dst : Mgr, seqnum : Nat, stop : BOOLEAN]

Init ==
  /\ events \subseteq Event
  /\ clock = [m \in Mgr |-> 0]
  /\ \A e \in events : e.src = e.dst

Earliest(e) ==
  /\ e \in events
  /\ \A f \in events \ {e} : f.dst = e.dst => EventCompare(e, f)

Safe(e) == \A f \in events : f.dst # e.dst => e.time < f.time + Lookahead

CausedBy(f, e) ==
  /\ f.src = e.dst
  /\ e.time + (IF f.dst = e.dst THEN 0 ELSE Lookahead) <= f.time

Handle(e) ==
  /\ Earliest(e)
  /\ Safe(e)
  /\ clock' = [clock EXCEPT ![e.dst] = e.time]

Execute(e) ==
  /\ Handle(e)
  /\ ~e.stop
  /\ events' \subseteq Event
  /\ e \notin events'
  /\ events \ {e} \subseteq events'
  /\ \A f \in events' \ events : CausedBy(f, e)

\* A stop event also drops the other events its manager has.
Stop(e) ==
  /\ Handle(e)
  /\ e.stop
  /\ events' \subseteq events \ {e}
  /\ \A f \in events \ events' : f.dst = e.dst

Next == \E e \in events : Execute(e) \/ Stop(e)

Spec == Init /\ [][Next]_<<events, clock>>
===========================================================================
