---------------------------- MODULE MCStaffAccess ----------------------------
(* u1 runs the desk; u2 volunteers, and may become an admin or cease to be.  *)
EXTENDS StaffAccess, TLC
CONSTANTS u1, u2, s1, s2, p1, p2

Symmetry == Permutations(Sessions) \cup Permutations(Passes)

Desk(requests) == {r \in requests : r.actor = u1 /\ r.target = u2}
Asks == Desk(RoleRequests \cup ReviewRequests) \cup BootstrapRequests
        \cup {r \in VolunteerRequests \cup PassRequests : r.actor = u2}
===============================================================================
