------------------------------ MODULE EventSetup ------------------------------
(***************************************************************************)
(* What organizers are promised of an event's setup: every change happens  *)
(* in one instant, judged by the activities and checkpoints of that        *)
(* instant.  A checkpoint belongs to an activity of its own cycle or to    *)
(* none, slugs are unique in a cycle, an activity in use stays.            *)
(***************************************************************************)
CONSTANTS Cycles, Activities, Checkpoints, Slugs, None

VARIABLES open,    \* the active cycle, or None
          acts,    \* activities: [id, cycle]
          points   \* checkpoints: [id, cycle, activity, slug]

vars == <<open, acts, points>>

Acts == [id : Activities, cycle : Cycles]
Points == [id : Checkpoints, cycle : Cycles, activity : Activities \cup {None}, slug : Slugs]

\* p may stand beside the others.
Fits(p, others) ==
  /\ \A q \in others : <<q.cycle, q.slug>> # <<p.cycle, p.slug>>
  /\ p.activity # None => [id |-> p.activity, cycle |-> p.cycle] \in acts

Switch == open' \in Cycles \cup {None} /\ UNCHANGED <<acts, points>>

AddActivity ==
  /\ \E a \in Acts : (\A b \in acts : b.id # a.id) /\ acts' = acts \cup {a}
  /\ UNCHANGED <<open, points>>

RemoveActivity ==
  /\ \E a \in acts : (\A p \in points : p.activity # a.id) /\ acts' = acts \ {a}
  /\ UNCHANGED <<open, points>>

AddPoint ==
  /\ \E p \in Points :
       (\A q \in points : q.id # p.id) /\ Fits(p, points) /\ points' = points \cup {p}
  /\ UNCHANGED <<open, acts>>

ChangePoint ==
  /\ \E q \in points, p \in Points :
       /\ p.id = q.id /\ p.cycle = q.cycle
       /\ Fits(p, points \ {q})
       /\ points' = (points \ {q}) \cup {p}
  /\ UNCHANGED <<open, acts>>

RemovePoint ==
  /\ \E p \in points : points' = points \ {p}
  /\ UNCHANGED <<open, acts>>

Init == open \in Cycles \cup {None} /\ acts = {} /\ points = {}

Next == Switch \/ AddActivity \/ RemoveActivity \/ AddPoint \/ ChangePoint \/ RemovePoint

Spec == Init /\ [][Next]_vars

===============================================================================
