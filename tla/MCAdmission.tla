----------------------------- MODULE MCAdmission -----------------------------
(* Small instances of Admission.                                           *)
EXTENDS Admission, TLC

CONSTANTS d1, d2, d3, p1, p2, p3, o1, o2, t1, t2

Symmetry == Permutations(Decisions) \cup Permutations(Passes)
            \cup Permutations(Organizers) \cup Permutations(Tabs)
===============================================================================
