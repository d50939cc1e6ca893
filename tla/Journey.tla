-------------------------------- MODULE Journey --------------------------------
(***************************************************************************)
(* What an applicant and the organizers are promised of the way from the   *)
(* decision to the pass: each change happens in one instant and is judged  *)
(* by the decisions, the response and the passes of that instant.  There   *)
(* are no sessions, locks, stale pages or copies of a decision here.       *)
(***************************************************************************)
EXTENDS Naturals

CONSTANTS Decisions, Passes, None

VARIABLES current,    \* the decision in force, or None
          decisions,  \* decision -> what it says, None before it is recorded
          responses,  \* decision -> the answer to it, or None
          passes      \* pass -> its status and the pass that replaced it

vars == <<current, decisions, responses, passes>>

\* The applicant may take part: the decision in force is a published acceptance.
Admitted ==
  current # None /\ decisions[current].outcome = "accepted" /\ decisions[current].released

Response == IF responses[current] = None THEN [status |-> "pending", version |-> 0]
            ELSE responses[current]

Confirmed == Admitted /\ Response.status = "confirmed"

Active == {p \in Passes : passes[p].status = "active"}
Unused == {p \in Passes : passes[p].status = "absent"}
Fresh == [status |-> "active", by |-> None]

\* A new decision supersedes the one in force and is not published.
Record ==
  /\ \E d \in Decisions, outcome \in {"accepted", "waitlisted", "rejected"} :
       /\ decisions[d] = None
       /\ decisions' = [decisions EXCEPT ![d] =
            [outcome |-> outcome, supersedes |-> current, released |-> FALSE]]
       /\ current' = d
  /\ UNCHANGED <<responses, passes>>

\* Only the decision in force is ever published, and it is once.
Release ==
  /\ current # None /\ ~decisions[current].released
  /\ decisions' = [decisions EXCEPT ![current].released = TRUE]
  /\ UNCHANGED <<current, responses, passes>>

\* Only another choice than the stored one counts.
Respond ==
  /\ Admitted
  /\ \E choice \in {"confirmed", "declined"} \ {Response.status} :
       responses' = [responses EXCEPT ![current] =
                       [status |-> choice, version |-> Response.version + 1]]
  /\ UNCHANGED <<current, decisions, passes>>

Issue ==
  /\ Confirmed /\ Active = {}
  /\ \E p \in Unused : passes' = [passes EXCEPT ![p] = Fresh]
  /\ UNCHANGED <<current, decisions, responses>>

Reissue ==
  /\ Confirmed
  /\ \E old \in Active, p \in Unused :
       passes' = [passes EXCEPT ![old] = [status |-> "replaced", by |-> p], ![p] = Fresh]
  /\ UNCHANGED <<current, decisions, responses>>

\* What was declined since may still be revoked.
Revoke ==
  /\ Admitted
  /\ \E p \in Active : passes' = [passes EXCEPT ![p] = [status |-> "revoked", by |-> None]]
  /\ UNCHANGED <<current, decisions, responses>>

Init ==
  /\ current = None
  /\ decisions = [d \in Decisions |-> None]
  /\ responses = [d \in Decisions |-> None]
  /\ passes = [p \in Passes |-> [status |-> "absent", by |-> None]]

Next == Record \/ Release \/ Respond \/ Issue \/ Reissue \/ Revoke

Spec == Init /\ [][Next]_vars

===============================================================================
