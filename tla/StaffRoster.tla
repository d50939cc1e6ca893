------------------------------ MODULE StaffRoster ------------------------------
(***************************************************************************)
(* What the staff is promised of its roles and passes: each change happens *)
(* in one instant, is made to people who have signed in, by somebody else  *)
(* than the one it is about, is judged by what is so at that instant, and  *)
(* is told of once.  There are no requests, transactions or locks here.    *)
(***************************************************************************)
EXTENDS Naturals

CONSTANTS Users, Passes, None

VARIABLES
  stored,      \* user -> signed in last as an admin; None before that
  scanners,    \* the users with the scanner role
  organizers,  \* the users with the organizer role
  status,      \* user -> status of the volunteer request, None without one
  passes,      \* user -> id of the staff pass, None without one
  audit,       \* event and user -> how often it was told of
  shown        \* user -> the staff credentials the user was ever handed

vars == <<stored, scanners, organizers, status, passes, audit, shown>>

Verdicts == {"approved", "rejected", "revoked"}
Events == {"role_assigned", "role_revoked", "bootstrapped", "pass_issued"} \cup Verdicts

Known(u) == stored[u] # None
KnownBeside(u) == Known(u) /\ \E v \in Users \ {u} : Known(v)

Told(es, u) == [e \in Events |-> IF e \in es THEN [audit[e] EXCEPT ![u] = @ + 1] ELSE audit[e]]

SignIn(u) ==
  /\ \E admin \in BOOLEAN : stored' = [stored EXCEPT ![u] = admin]
  /\ UNCHANGED <<scanners, organizers, status, passes, audit, shown>>

Grant(u) ==
  /\ KnownBeside(u) /\ u \notin scanners
  /\ scanners' = scanners \cup {u}
  /\ audit' = Told({"role_assigned"}, u)
  /\ UNCHANGED <<stored, organizers, status, passes, shown>>

Revoke(u) ==
  /\ KnownBeside(u) /\ u \in scanners
  /\ scanners' = scanners \ {u}
  /\ audit' = Told({"role_revoked"}, u)
  /\ UNCHANGED <<stored, organizers, status, passes, shown>>

Volunteer(u) ==
  /\ Known(u) /\ status[u] = None
  /\ status' = [status EXCEPT ![u] = "pending"]
  /\ UNCHANGED <<stored, scanners, organizers, passes, audit, shown>>

\* Approval gives the role and revocation takes it.  The role may have been
\* that way already while the verdict was written; then the verdict leaves it
\* to whoever changes it next.
Review(u, verdict) ==
  /\ KnownBeside(u)
  /\ status[u] = IF verdict = "revoked" THEN "approved" ELSE "pending"
  /\ status' = [status EXCEPT ![u] = verdict]
  /\ \/ /\ verdict = "approved" /\ u \notin scanners
        /\ scanners' = scanners \cup {u}
        /\ audit' = Told({"role_assigned", verdict}, u)
     \/ /\ verdict = "revoked" /\ u \in scanners
        /\ scanners' = scanners \ {u}
        /\ audit' = Told({"role_revoked", verdict}, u)
     \/ /\ audit' = Told({verdict}, u)
        /\ UNCHANGED scanners
  /\ UNCHANGED <<stored, organizers, passes, shown>>

Eligible(u) == stored[u] = TRUE \/ (status[u] = "approved" /\ u \in scanners)

Issue(u) ==
  /\ Eligible(u) /\ passes[u] = None
  /\ \E id \in Passes \ {passes[v] : v \in Users} : passes' = [passes EXCEPT ![u] = id]
  /\ audit' = Told({"pass_issued"}, u)
  /\ UNCHANGED <<stored, scanners, organizers, status, shown>>

Show(u) ==
  /\ Eligible(u) /\ passes[u] # None
  /\ shown' = [shown EXCEPT ![u] = @ \cup {passes[u]}]
  /\ UNCHANGED <<stored, scanners, organizers, status, passes, audit>>

\* The first organizer is made while there is none.
Bootstrap(u) ==
  /\ Known(u) /\ organizers = {}
  /\ organizers' = {u}
  /\ audit' = Told({"bootstrapped"}, u)
  /\ UNCHANGED <<stored, scanners, status, passes, shown>>

Init ==
  /\ stored = [u \in Users |-> None]
  /\ scanners = {} /\ organizers = {}
  /\ status = [u \in Users |-> None]
  /\ passes = [u \in Users |-> None]
  /\ audit = [e \in Events |-> [u \in Users |-> 0]]
  /\ shown = [u \in Users |-> {}]

Next ==
  \E u \in Users :
    \/ SignIn(u)
    \/ Grant(u) \/ Revoke(u)
    \/ Volunteer(u) \/ \E verdict \in Verdicts : Review(u, verdict)
    \/ Issue(u) \/ Show(u)
    \/ Bootstrap(u)

Spec == Init /\ [][Next]_vars

===============================================================================
