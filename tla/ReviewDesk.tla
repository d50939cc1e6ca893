------------------------------- MODULE ReviewDesk -------------------------------
(***************************************************************************)
(* What reviewers and organizers are promised of the reviews of one        *)
(* application: each change happens in one instant, is judged by the       *)
(* roles, the reviews and the decision of that instant, replaces nothing   *)
(* that its page does not show, and is told of once.  There are no         *)
(* versions, transactions or locks here.                                   *)
(***************************************************************************)
EXTENDS Naturals

CONSTANTS Reviewers, Tabs, Contents, None

VARIABLES decided,   \* the application has a decision
          roles,     \* the users with the reviewer role
          assigned,  \* the users the application is assigned to
          review,    \* reviewer -> the review, "new" before there is one
          shown,     \* page -> the review it shows
          audit      \* event -> how often it was told of

vars == <<decided, roles, assigned, review, shown, audit>>

Pages == Reviewers \X Tabs

Unwritten == [status |-> "new", content |-> None]
Draft(c) == [status |-> "draft", content |-> c]

Tell(event, r) == audit' = [audit EXCEPT ![<<event, r>>] = @ + 1]

\* Only reviewers see the application, and only while it awaits a decision.
Show(p) ==
  /\ p[1] \in roles /\ ~decided
  /\ shown' = [shown EXCEPT ![p] = review[p[1]]]
  /\ UNCHANGED <<decided, roles, assigned, review, audit>>

\* A draft may still be saved after the decision, a review not be started.
Save(p) ==
  /\ p[1] \in roles
  /\ shown[p] = review[p[1]]
  /\ \/ review[p[1]] = Unwritten /\ ~decided
     \/ review[p[1]].status = "draft"
  /\ \E c \in Contents :
       /\ review' = [review EXCEPT ![p[1]] = Draft(c)]
       /\ shown' \in {shown, [shown EXCEPT ![p] = Draft(c)]}
  /\ UNCHANGED <<decided, roles, assigned, audit>>

\* What is submitted is what the page shows, for good.
Submit(p) ==
  LET final == [review[p[1]] EXCEPT !.status = "submitted"]
  IN  /\ p[1] \in roles
      /\ shown[p] = review[p[1]] /\ review[p[1]].status = "draft"
      /\ review' = [review EXCEPT ![p[1]] = final]
      /\ shown' \in {shown, [shown EXCEPT ![p] = final]}
      /\ Tell("submitted", p[1])
      /\ UNCHANGED <<decided, roles, assigned>>

Grant(r) ==
  /\ r \notin roles
  /\ roles' = roles \cup {r}
  /\ Tell("role", r)
  /\ UNCHANGED <<decided, assigned, review, shown>>

Assign(r) ==
  /\ r \in roles \ assigned
  /\ assigned' = assigned \cup {r}
  /\ Tell("assigned", r)
  /\ UNCHANGED <<decided, roles, review, shown>>

Decide ==
  /\ decided' = TRUE
  /\ UNCHANGED <<roles, assigned, review, shown, audit>>

Init ==
  /\ ~decided
  /\ roles \in SUBSET Reviewers
  /\ assigned = {}
  /\ review \in [Reviewers -> {Draft(c) : c \in Contents} \cup {Unwritten}]
  /\ shown = [p \in Pages |-> [status |-> "closed", content |-> None]]
  /\ audit = [e \in {"role", "assigned", "submitted"} \X Reviewers |->
                IF e[1] = "role" /\ e[2] \in roles THEN 1 ELSE 0]

Next ==
  \/ \E p \in Pages : Show(p) \/ Save(p) \/ Submit(p)
  \/ \E r \in Reviewers : Grant(r) \/ Assign(r)
  \/ Decide

Spec == Init /\ [][Next]_vars

===============================================================================
