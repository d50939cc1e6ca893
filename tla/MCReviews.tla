------------------------------ MODULE MCReviews ------------------------------
(* Small instances of Reviews.                                             *)
EXTENDS Reviews, TLC

CONSTANTS r1, r2, t1, t2, o1, o2, a, b

Symmetry == Permutations(Reviewers) \cup Permutations(Tabs)
            \cup Permutations(Organizers) \cup Permutations(Contents)
===============================================================================
