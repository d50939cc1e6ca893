------------------------------ MODULE StaffAccess ------------------------------
(***************************************************************************)
(* Who may work at the event: local users kept in step with Clerk, the     *)
(* scanner role that organizers and reviewed volunteer requests give and   *)
(* take, the first organizer, and the staff passes that follow from all of *)
(* it (api/internal/users, api/internal/passes/staff.go).  A request       *)
(* fetches its caller's Clerk profile, reconciles the user in one          *)
(* transaction, and then runs its handler with the roles found there.      *)
(* Passes have not expired and Clerk answers in time; when not, the        *)
(* request is refused.                                                     *)
(***************************************************************************)
EXTENDS Naturals, FiniteSets, RowLocks

CONSTANTS Users,     \* Clerk subjects
          Sessions,  \* requests, or runs of bootstrap-organizer, under way at once
          Passes,    \* ids that staff passes may get
          Asked,     \* the requests this instance lets arrive
          Movers,    \* users who change their primary email
          MaxGrants, \* bound on how often a user is granted the scanner role
          None

VARIABLES
  clerk,       \* user -> the verified primary email is on the admin allowlist
  stored,      \* user -> the same of users.primary_email, None without a row
  scanners,    \* the users with the scanner role
  organizers,  \* the users with the organizer role
  status,      \* user -> status of the volunteer request, None without one
  passes,      \* user -> id of the staff pass, None without one
  audit,       \* event and user -> how many audit_events rows tell of it
  shown,       \* user -> the staff credentials the user was ever handed
  job,         \* session -> the request it serves, or None
  held         \* session -> the locks its transaction holds

tables == <<scanners, organizers, status, passes, audit>>
vars == <<clerk, stored, scanners, organizers, status, passes, audit, shown, job, held>>

Verdicts == {"approved", "rejected", "revoked"}
Events == {"role_assigned", "role_revoked", "bootstrapped", "pass_issued"} \cup Verdicts

RoleRequests == [kind : {"grant", "revoke"}, actor : Users, target : Users]
ReviewRequests == [kind : {"review"}, actor : Users, target : Users, verdict : Verdicts]
VolunteerRequests == [kind : {"volunteer"}, actor : Users]
PassRequests == [kind : {"staff_pass"}, actor : Users]
BootstrapRequests == [kind : {"bootstrap"}, target : Users]
Requests ==
  RoleRequests \cup ReviewRequests \cup VolunteerRequests \cup PassRequests \cup BootstrapRequests

ASSUME AskedAssumption == Asked \subseteq Requests
ASSUME MoversAssumption == Movers \subseteq Users
ASSUME MaxGrantsAssumption == MaxGrants \in Nat

Stages == {"resolve", "read", "write", "commit", "show"}

\* changed: the role statement wrote; saw: the organizers of the snapshot.
Jobs == [req : Requests, stage : Stages, admin : BOOLEAN, changed : BOOLEAN,
         saw : SUBSET Users]

ASSUME NoneAssumption ==
  None \notin Jobs \cup Passes \cup Verdicts \cup {"pending"} \cup BOOLEAN

RequestRow(u) == <<"volunteer_request", u>>
RoleRow(u) == <<"scanner_role", u>>
BootstrapLock == <<"advisory">>

At(s, kinds, stage) ==
  job[s] # None /\ job[s].req.kind \in kinds /\ job[s].stage = stage
Target(s) == job[s].req.target
Actor(s) == job[s].req.actor
Move(s, stage) == job' = [job EXCEPT ![s].stage = stage]
Acquire(s, row) ==
  /\ Grantable(held, s, row, "update")
  /\ held' = [held EXCEPT ![s] = @ \cup {<<row, "update">>}]
End(s) == job' = [job EXCEPT ![s] = None] /\ held' = [held EXCEPT ![s] = {}]

Count(e, u) == audit[e][u]
Told(es, u) == [e \in Events |-> IF e \in es THEN [audit[e] EXCEPT ![u] = @ + 1] ELSE audit[e]]

-------------------------------------------------------------------------------
(* A request arrives and is resolved.                                      *)

\* The profile is fetched before the transaction that writes it: `admin' is
\* what Clerk said then.
Arrive(s) ==
  /\ job[s] = None
  /\ \E req \in Asked :
       /\ req.kind # "bootstrap"
       /\ req.kind = "grant" => Count("role_assigned", req.target) < MaxGrants
       /\ job' = [job EXCEPT ![s] =
            [req |-> req, stage |-> "resolve", admin |-> clerk[req.actor],
             changed |-> FALSE, saw |-> {}]]
  /\ UNCHANGED <<clerk, stored, tables, shown, held>>

\* A user picks another primary email.
ChangeEmail(u) ==
  /\ u \in Movers
  /\ clerk' = [clerk EXCEPT ![u] = ~@]
  /\ UNCHANGED <<stored, tables, shown, job, held>>

\* What the handler asks of the roles resolved for the caller, and of itself:
\* nobody manages their own access.
Permitted(s) ==
  LET req == job[s].req
      organizer == job[s].admin \/ req.actor \in organizers  \* HasRole
  IN  CASE req.kind \in {"grant", "revoke"} -> organizer /\ req.actor # req.target
        [] req.kind = "review" -> job[s].admin /\ req.actor # req.target
        [] OTHER -> TRUE

\* The row takes the fetched profile, whatever a request that fetched later
\* has stored meanwhile.
UpsertClerkUser(s) == stored' = [stored EXCEPT ![Actor(s)] = job[s].admin]

\* One transaction upserts the user and reads the roles.
Resolve(s) ==
  /\ job[s] # None /\ job[s].stage = "resolve"
  /\ UpsertClerkUser(s)
  /\ IF Permitted(s) THEN Move(s, "read") ELSE job' = [job EXCEPT ![s] = None]
  /\ UNCHANGED <<clerk, tables, shown, held>>

-------------------------------------------------------------------------------
(* The scanner role, granted and revoked.                                  *)

CheckTarget(s) ==
  /\ At(s, {"grant", "revoke"}, "read")
  /\ stored[Target(s)] # None
  /\ Move(s, "write")
  /\ UNCHANGED <<clerk, stored, tables, shown, held>>

\* The status a verdict is for (validVolunteerReview, `expected').
Expected(verdict) == IF verdict = "revoked" THEN "approved" ELSE "pending"

\* Faulty: the request is read without FOR UPDATE.
LockRequestUnlocked(s) ==
  /\ At(s, {"review"}, "read")
  /\ status[Target(s)] = Expected(job[s].req.verdict)
  /\ stored[Target(s)] # TRUE
  /\ Move(s, IF job[s].req.verdict = "rejected" THEN "commit" ELSE "write")
  /\ UNCHANGED <<clerk, stored, tables, shown, held>>

\* SELECT status ... FOR UPDATE, then the checks: the status is the one the
\* admin's page showed, the volunteer is no admin.
LockRequest(s) ==
  /\ At(s, {"review"}, "read")
  /\ Acquire(s, RequestRow(Target(s)))
  /\ status[Target(s)] = Expected(job[s].req.verdict)
  /\ stored[Target(s)] # TRUE
  /\ Move(s, IF job[s].req.verdict = "rejected" THEN "commit" ELSE "write")
  /\ UNCHANGED <<clerk, stored, tables, shown>>

Grants(s) == \/ job[s].req.kind = "grant"
             \/ job[s].req.kind = "review" /\ job[s].req.verdict = "approved"

\* Faulty: the statement reports a change without looking.
ChangeRoleAlways(s) ==
  /\ At(s, {"grant", "revoke", "review"}, "write")
  /\ Acquire(s, RoleRow(Target(s)))
  /\ job' = [job EXCEPT ![s].stage = "commit", ![s].changed = TRUE]
  /\ UNCHANGED <<clerk, stored, tables, shown>>

\* INSERT ... ON CONFLICT DO NOTHING waits for whoever is inserting or
\* deleting the role; DELETE waits only for the deletion of a role it can
\* see.  Whether the statement wrote decides what is audited.
ChangeRole(s) ==
  LET has == Target(s) \in scanners
  IN  /\ At(s, {"grant", "revoke", "review"}, "write")
      /\ Grants(s) \/ has => Grantable(held, s, RoleRow(Target(s)), "update")
      /\ IF has = Grants(s)
         THEN UNCHANGED held
         ELSE Acquire(s, RoleRow(Target(s)))
      /\ job' = [job EXCEPT ![s].stage = "commit", ![s].changed = has # Grants(s)]
      /\ UNCHANGED <<clerk, stored, tables, shown>>

RoleEvents(s) == IF ~job[s].changed THEN {}
                 ELSE IF Grants(s) THEN {"role_assigned"} ELSE {"role_revoked"}

GrantScannerRole(u) == scanners' = scanners \cup {u}
RevokeScannerRole(u) == scanners' = scanners \ {u}
WriteRole(s) == IF ~job[s].changed THEN UNCHANGED scanners
                ELSE IF Grants(s) THEN GrantScannerRole(Target(s))
                ELSE RevokeScannerRole(Target(s))

ChangeScannerRole(s) ==
  /\ At(s, {"grant", "revoke"}, "commit")
  /\ WriteRole(s)
  /\ audit' = Told(RoleEvents(s), Target(s))
  /\ End(s)
  /\ UNCHANGED <<clerk, stored, organizers, status, passes, shown>>

\* The verdict, the role and both audit events commit together.
ReviewVolunteerRequest(s) ==
  /\ At(s, {"review"}, "commit")
  /\ WriteRole(s)
  /\ status' = [status EXCEPT ![Target(s)] = job[s].req.verdict]
  /\ audit' = Told(RoleEvents(s) \cup {job[s].req.verdict}, Target(s))
  /\ End(s)
  /\ UNCHANGED <<clerk, stored, organizers, passes, shown>>

-------------------------------------------------------------------------------
(* What users ask for themselves: single statements.                       *)

\* INSERT ... ON CONFLICT DO NOTHING: one request per account, for good.
RequestVolunteerAccess(s) ==
  /\ At(s, {"volunteer"}, "read")
  /\ status' = [status EXCEPT ![Actor(s)] = IF @ = None THEN "pending" ELSE @]
  /\ End(s)
  /\ UNCHANGED <<clerk, stored, scanners, organizers, passes, audit, shown>>

\* staffEligibility
Eligible(u) == stored[u] = TRUE \/ (status[u] = "approved" /\ u \in scanners)

\* Faulty: ON CONFLICT DO UPDATE SET id.
IssueStaffPassAnew(s) ==
  /\ At(s, {"staff_pass"}, "read")
  /\ IF Eligible(Actor(s))
     THEN /\ \E id \in Passes \ {passes[u] : u \in Users} :
               passes' = [passes EXCEPT ![Actor(s)] = id]
          /\ audit' = Told({"pass_issued"}, Actor(s))
     ELSE UNCHANGED <<passes, audit>>
  /\ Move(s, "show")
  /\ UNCHANGED <<clerk, stored, scanners, organizers, status, shown, held>>

\* Eligibility, the insert and its audit event are one statement; a pass that
\* exists is left alone.
IssueStaffPass(s) ==
  /\ At(s, {"staff_pass"}, "read")
  /\ IF Eligible(Actor(s)) /\ passes[Actor(s)] = None
     THEN /\ \E id \in Passes \ {passes[u] : u \in Users} :
               passes' = [passes EXCEPT ![Actor(s)] = id]
          /\ audit' = Told({"pass_issued"}, Actor(s))
     ELSE UNCHANGED <<passes, audit>>
  /\ Move(s, "show")
  /\ UNCHANGED <<clerk, stored, scanners, organizers, status, shown, held>>

\* Faulty: the second statement LEFT JOINs the pass.
ShowStaffPassOuterJoin(s) ==
  /\ At(s, {"staff_pass"}, "show")
  /\ shown' = [shown EXCEPT ![Actor(s)] = @ \cup {passes[Actor(s)]}]
  /\ End(s)
  /\ UNCHANGED <<clerk, stored, tables>>

\* The second statement looks at eligibility again.
ShowStaffPass(s) ==
  /\ At(s, {"staff_pass"}, "show")
  /\ Eligible(Actor(s)) /\ passes[Actor(s)] # None
  /\ shown' = [shown EXCEPT ![Actor(s)] = @ \cup {passes[Actor(s)]}]
  /\ End(s)
  /\ UNCHANGED <<clerk, stored, tables>>

-------------------------------------------------------------------------------
(* bootstrap-organizer: SERIALIZABLE, and its first statement takes an     *)
(* advisory lock, so its snapshot is from before the wait.                 *)

StartBootstrap(s) ==
  /\ job[s] = None
  /\ \E req \in Asked :
       /\ req.kind = "bootstrap"
       /\ stored[req.target] # None
       /\ job' = [job EXCEPT ![s] =
            [req |-> req, stage |-> "read", admin |-> FALSE, changed |-> FALSE,
             saw |-> organizers]]
  /\ UNCHANGED <<clerk, stored, tables, shown, held>>

AcquireBootstrapLock(s) ==
  /\ At(s, {"bootstrap"}, "read")
  /\ Acquire(s, BootstrapLock)
  /\ Move(s, "commit")
  /\ UNCHANGED <<clerk, stored, tables, shown>>

\* Faulty: the isolation level is left at its default of READ COMMITTED, with
\* the count read before the lock.
SerializableNever(s) == TRUE

\* Two bootstraps that overlap and both write cannot both commit: the later
\* one fails with 40001.
Serializable(s) == job[s].saw = organizers

BootstrapFirstOrganizer(s) ==
  /\ At(s, {"bootstrap"}, "commit")
  /\ \/ /\ job[s].saw # {}
        /\ UNCHANGED <<organizers, audit>>
     \/ /\ job[s].saw = {} /\ Serializable(s)
        /\ organizers' = organizers \cup {Target(s)}
        /\ audit' = Told({"bootstrapped"}, Target(s))
  /\ End(s)
  /\ UNCHANGED <<clerk, stored, scanners, status, passes, shown>>

-------------------------------------------------------------------------------

\* Every refusal (403, 404, 409), a timeout, a crash: rolled back.
Refuse(s) ==
  /\ job[s] # None
  /\ End(s)
  /\ UNCHANGED <<clerk, stored, tables, shown>>

\* Nobody has signed in yet, or only people without any role have.
Init ==
  /\ clerk \in [Users -> BOOLEAN]
  /\ stored = [u \in Users |-> None]
  /\ scanners = {} /\ organizers = {}
  /\ status = [u \in Users |-> None]
  /\ passes = [u \in Users |-> None]
  /\ audit = [e \in Events |-> [u \in Users |-> 0]]
  /\ shown = [u \in Users |-> {}]
  /\ job = [s \in Sessions |-> None]
  /\ held = [s \in Sessions |-> {}]

Next ==
  \/ \E u \in Users : ChangeEmail(u)
  \/ \E s \in Sessions :
       \/ Arrive(s) \/ Resolve(s) \/ Refuse(s)
       \/ CheckTarget(s) \/ LockRequest(s) \/ ChangeRole(s)
       \/ ChangeScannerRole(s) \/ ReviewVolunteerRequest(s)
       \/ RequestVolunteerAccess(s) \/ IssueStaffPass(s) \/ ShowStaffPass(s)
       \/ StartBootstrap(s) \/ AcquireBootstrapLock(s) \/ BootstrapFirstOrganizer(s)

Spec == Init /\ [][Next]_vars

-------------------------------------------------------------------------------
(* Properties.                                                             *)

\* Every variable has its type: the rows that migrations 000001, 000015 and
\* 000016 allow, the requests of users, staff and volunteers.
TypeOK ==
  /\ clerk \in [Users -> BOOLEAN]
  /\ stored \in [Users -> BOOLEAN \cup {None}]
  /\ scanners \subseteq Users /\ organizers \subseteq Users
  /\ status \in [Users -> Verdicts \cup {"pending", None}]
  /\ passes \in [Users -> Passes \cup {None}]
  /\ audit \in [Events -> [Users -> Nat]]
  /\ shown \in [Users -> SUBSET Passes]
  /\ job \in [Sessions -> Jobs \cup {None}]

\* The audit trail tells the whole story of the scanner role: grants and
\* revocations alternate, whoever made them and however they raced, and their
\* balance is the role itself (changeScannerRole, ReviewVolunteerRequest).
RoleTrail ==
  \A u \in Users :
    Count("role_assigned", u) = Count("role_revoked", u) + IF u \in scanners THEN 1 ELSE 0

\* "Expected status rejects stale approvals, including a replay after
\* revocation" (users/volunteers.go:128): a request is approved or rejected
\* once, revoked at most once after its approval, each with one audit event.
ReviewTrail ==
  \A u \in Users :
    /\ Count("approved", u) = IF status[u] \in {"approved", "revoked"} THEN 1 ELSE 0
    /\ Count("rejected", u) = IF status[u] = "rejected" THEN 1 ELSE 0
    /\ Count("revoked", u) = IF status[u] = "revoked" THEN 1 ELSE 0

\* Only one organizer is ever made by bootstrapping, however many runs of
\* bootstrap-organizer overlap, and exactly that one is audited.
OneBootstrap ==
  /\ \A u, v \in organizers : u = v
  /\ \A u \in Users : Count("bootstrapped", u) = IF u \in organizers THEN 1 ELSE 0

\* "A unique user/event constraint makes concurrent page loads share one
\* credential" (passes/staff.go:36): what a user was ever shown is the row
\* that is stored, so a saved screenshot scans as long as its holder is
\* eligible; and its issue is audited once.
OneCredential ==
  \A u \in Users :
    /\ shown[u] \subseteq {passes[u]}
    /\ Count("pass_issued", u) = IF passes[u] = None THEN 0 ELSE 1

\* Every change of a role, a request or a pass is one that StaffRoster allows
\* at the instant of its commit: about people who have signed in, by another
\* one of them, a verdict on a request in the status it is for, the first
\* organizer while there is none, though a handler found all of this out
\* statements or a wait earlier (users.changeScannerRole,
\* ReviewVolunteerRequest, BootstrapFirstOrganizer).
Roster == INSTANCE StaffRoster
RosterSpec == Roster!Spec

-------------------------------------------------------------------------------
(* Why they hold.                                                          *)

\* A row is locked by one transaction at most, always FOR UPDATE.
LocksExclude ==
  /\ held \in [Sessions -> SUBSET (({"volunteer_request", "scanner_role"} \X Users
                                    \cup {BootstrapLock}) \X {"update"})]
  /\ \A s, t \in Sessions : s # t => held[s] \cap held[t] = {}

\* What the statement on the role found is still so at the commit, and
\* nothing is to be written where it wrote nothing.
RoleStands(s) ==
  (job[s] # None /\ job[s].changed) =>
    /\ At(s, {"grant", "revoke", "review"}, "commit")
    /\ <<RoleRow(Target(s)), "update">> \in held[s]
    /\ (Target(s) \in scanners) # Grants(s)

\* The request under review has the status the verdict is for.
ReviewStands(s) ==
  At(s, {"review"}, "write") \/ At(s, {"review"}, "commit") =>
    /\ <<RequestRow(Target(s)), "update">> \in held[s]
    /\ status[Target(s)] = Expected(job[s].req.verdict)
    /\ job[s].req.verdict = "rejected" => job[s].stage = "commit" /\ ~job[s].changed

\* The inductive invariant.
IInv ==
  /\ TypeOK /\ LocksExclude
  /\ RoleTrail /\ ReviewTrail /\ OneBootstrap /\ OneCredential
  /\ \A s \in Sessions : RoleStands(s) /\ ReviewStands(s)

===============================================================================
