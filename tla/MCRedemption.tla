---------------------------- MODULE MCRedemption ----------------------------
(***************************************************************************)
(* Small instances of Redemption: an attendee with up to two passes, one   *)
(* of another cycle where a run asks for it, rules that allow none, one or *)
(* two redemptions, checkpoints that open or close in between.             *)
(***************************************************************************)
EXTENDS Redemption, TLC

CONSTANTS k1, k2, p1, p2, p3, a1, a2, c1, s1, s2, o1

OneOwner == [p \in Passes |-> a1]
TwoAndOne == (p1 :> a1) @@ (p2 :> a1) @@ (p3 :> a2)
OneCycle == [x \in Attendees \cup Checkpoints |-> "atlantic"]
\* a2 is of another cycle than the checkpoint.
TwoCycles == [x \in Attendees \cup Checkpoints |-> IF x = a2 THEN "other" ELSE "atlantic"]

Allow(n) == [allowed |-> TRUE, max |-> n]
Deny == [allowed |-> FALSE, max |-> 0]
Always(rule) == [active |-> TRUE, opens |-> 0, closes |-> MaxTime + 1, rule |-> rule]
Inactive == [Always(Allow(1)) EXCEPT !.active = FALSE]

SomeRules == {Deny, Allow(1)}
SomeSettings == {Always(Allow(1)), Inactive}
OneOrTwo == {Allow(1), Allow(2)}
OpenOneOrTwo == {Always(Allow(1)), Always(Allow(2))}
WindowRules == {Allow(1)}
\* Open at the first instant only, or from the second on.
Early == [Always(Allow(1)) EXCEPT !.closes = 1]
Late == [Always(Allow(1)) EXCEPT !.opens = 1]
WindowSettings == {Early, Late}

KeyScannerSymmetry == Permutations(Keys) \cup Permutations(Scanners)
TwoPassSymmetry == Permutations({p1, p2})
===============================================================================
