----------------------------- MODULE MCOperations -----------------------------
EXTENDS Operations, TLC
CONSTANTS y1, y2, a1, a2, c1, c2, c3, main, other, o1, o2

Symmetry == Permutations(Cycles) \cup Permutations(Sessions)
            \cup Permutations(Activities) \cup Permutations(Checkpoints)
===============================================================================
