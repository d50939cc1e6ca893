------------------------------- MODULE Reviews -------------------------------
(***************************************************************************)
(* The reviews of one application: the drafts a reviewer's pages save and  *)
(* submit, the roles and assignments organizers grant, and the decision    *)
(* that ends it all, each a READ COMMITTED transaction of                  *)
(* api/internal/reviews (decisions for the last).  A page remembers the    *)
(* review it last showed and sends that lock_version                       *)
(* (components/reviewer-review-form.tsx).                                  *)
(***************************************************************************)
EXTENDS Naturals, FiniteSets, RowLocks

CONSTANTS Reviewers,   \* users who hold or may get the reviewer role
          Tabs,        \* browser tabs each of them has
          Organizers,  \* sessions of organizers, none of them a reviewer
          Contents,    \* the scores, recommendations and notes to choose from
          Kinds,       \* the operations this instance lets happen
          None

AllKinds == {"save", "submit", "grant", "assign", "decide"}
Pages == Reviewers \X Tabs
Sessions == Pages \cup Organizers

ASSUME PagesAssumption == Organizers \cap Pages = {}
ASSUME ReviewKindsAssumption == Kinds \subseteq AllKinds
ASSUME NoContentAssumption == None \notin Contents

VARIABLES
  status,    \* applications.status, every outcome as "decided"
  roles,     \* the users with the reviewer role
  assigned,  \* the users with a review_assignments row
  review,    \* reviewer -> the reviews row, None before it is inserted
  audit,     \* event -> how many audit_events rows tell of it
  page,      \* page -> the review it shows
  job,       \* session -> the request its transaction serves, or None
  held       \* session -> the row locks it holds

stored == <<status, roles, assigned, review, audit>>
vars == <<status, roles, assigned, review, audit, page, job, held>>

\* A draft gets past version 0 once, and only such a draft is submitted.
Rows == [status : {"draft"}, version : 0 .. 1, content : Contents]
        \cup [status : {"submitted"}, version : {2}, content : Contents]

Events == {"role", "assigned", "submitted"} \X Reviewers

\* What a page shows before it is opened, and where there is no review yet.
Closed == [status |-> "closed", version |-> 0, content |-> None]
New == [status |-> "new", version |-> 0, content |-> None]

\* What the queries read: the application if it awaits a decision, with the
\* reviewer's own review where there is one; the application's status; a role.
Submitted == status = "submitted"
GetReviewerApplication(r) == IF review[r] = None THEN New ELSE review[r]
UserHasReviewerRole(r) == r \in roles

-------------------------------------------------------------------------------
(* Requests.  A transaction that saves or submits reads the review, runs   *)
(* its one writing statement (which sees the rows of its start, then waits *)
(* for the row it writes), reads the application once more and commits.    *)

SaveRequests == [kind : {"save"}, version : 0 .. 2, content : Contents, submits : BOOLEAN]
SubmitRequests == [kind : {"submit"}, version : 0 .. 2]
GrantRequests == [kind : {"grant"}, reviewer : Reviewers]
AssignRequests == [kind : {"assign"}, reviewer : Reviewers]
DecideRequests == [kind : {"decide"}]
OrganizerRequests == GrantRequests \cup AssignRequests \cup DecideRequests
Requests == SaveRequests \cup SubmitRequests \cup OrganizerRequests

Stages == {"read", "look", "write", "link", "check", "commit", "conflict"}

Jobs == [req : Requests, stage : Stages, wrote : BOOLEAN]

ASSUME NoRowAssumption == None \notin Rows \cup Jobs

FirstStage(req) == CASE req.kind \in {"save", "submit", "assign"} -> "read"
                     [] req.kind = "grant" -> "write"
                     [] req.kind = "decide" -> "link"

Started(req) == [req |-> req, stage |-> FirstStage(req), wrote |-> FALSE]

At(s, stage) == job[s] # None /\ job[s].stage = stage
Kind(s) == job[s].req.kind
Subject(s) == IF s \in Pages THEN s[1] ELSE job[s].req.reviewer

ApplicationRow == <<"application">>
Key(s) == CASE Kind(s) \in {"save", "submit"} -> <<"review", Subject(s)>>
            [] Kind(s) = "grant" -> <<"role", Subject(s)>>
            [] Kind(s) = "assign" -> <<"assignment", Subject(s)>>

Move(s, stage) == job' = [job EXCEPT ![s].stage = stage]
Acquire(s, row, mode) ==
  /\ Grantable(held, s, row, mode)
  /\ held' = [held EXCEPT ![s] = @ \cup {<<row, mode>>}]

\* (User.HasRole lets admins review without the role's row; they would act on
\* reviews of their own exactly as the reviewers here do.)
\* GET of the application and of the caller's own review: opening the page,
\* or the router.refresh() that follows a 409.
Open(p) ==
  /\ job[p] = None
  /\ UserHasReviewerRole(p[1]) /\ Submitted
  /\ page' = [page EXCEPT ![p] = GetReviewerApplication(p[1])]
  /\ UNCHANGED <<stored, job, held>>

\* Save draft, or Submit review, which saves first.  The fields may hold
\* anything valid, whatever the page loaded.
Fill(p) ==
  /\ job[p] = None
  /\ "save" \in Kinds
  /\ UserHasReviewerRole(p[1]) /\ page[p].status \in {"new", "draft"}
  /\ \E content \in Contents, submits \in {b \in BOOLEAN : b => "submit" \in Kinds} :
       job' = [job EXCEPT ![p] =
                 Started([kind |-> "save", version |-> page[p].version,
                          content |-> content, submits |-> submits])]
  /\ UNCHANGED <<stored, page, held>>

Ask(o) ==
  /\ job[o] = None
  /\ \E req \in OrganizerRequests :
       /\ req.kind \in Kinds
       /\ job' = [job EXCEPT ![o] = Started(req)]
  /\ UNCHANGED <<stored, page, held>>

\* Faulty: a draft is the caller's to write whatever its version.
UpdatableAnyVersion(row, version) == row.status = "draft"

Updatable(row, version) == row.status = "draft" /\ row.version = version

\* The checks each handler makes on what it reads first.
ReadBefore(s) ==
  /\ At(s, "read")
  /\ Submitted
  /\ CASE Kind(s) = "save" -> IF review[Subject(s)] = None
                              THEN job[s].req.version = 0
                              ELSE Updatable(review[Subject(s)], job[s].req.version)
       [] Kind(s) = "submit" -> /\ review[Subject(s)] # None
                                /\ Updatable(review[Subject(s)], job[s].req.version)
       [] Kind(s) = "assign" -> UserHasReviewerRole(Subject(s))
  /\ Move(s, "look")
  /\ UNCHANGED <<stored, page, held>>

\* What the statement selects from the rows of its snapshot: a draft is only
\* ever selected for version 0.
Selected(req) ==
  /\ Submitted
  /\ req.kind = "save" => req.version = 0
  /\ req.kind = "assign" => UserHasReviewerRole(req.reviewer)

\* Where a statement that wrote nothing leaves the handler.
Without(kind) == IF kind \in {"save", "submit"} THEN "conflict" ELSE "commit"

Look(s) ==
  /\ At(s, "look")
  /\ Move(s, IF Selected(job[s].req) THEN "write" ELSE Without(Kind(s)))
  /\ UNCHANGED <<stored, page, held>>

\* The WHERE on the row itself, or ON CONFLICT DO NOTHING, seen once the
\* transactions that had the row are over.
Inserted(s) ==
  CASE Kind(s) = "save" -> review[Subject(s)] = None
    [] Kind(s) = "grant" -> Subject(s) \notin roles
    [] Kind(s) = "assign" -> Subject(s) \notin assigned
    [] Kind(s) = "submit" -> FALSE

Writable(s) ==
  \/ Inserted(s)
  \/ /\ Kind(s) \in {"save", "submit"}
     /\ Updatable(review[Subject(s)], job[s].req.version)

\* A row that is inserted refers to the application.
Links(s) == Kind(s) \in {"save", "assign"} /\ Inserted(s)

Write(s) ==
  /\ At(s, "write")
  /\ Acquire(s, Key(s), "update")
  /\ LET next == IF ~Writable(s) THEN Without(Kind(s))
                 ELSE IF Links(s) THEN "link"
                 ELSE IF Kind(s) = "grant" THEN "commit" ELSE "check"
     IN  job' = [job EXCEPT ![s].stage = next, ![s].wrote = Writable(s)]
  /\ UNCHANGED <<stored, page>>

\* The foreign key's lock on the application; for a decision, FOR UPDATE.
Link(s) ==
  /\ At(s, "link")
  /\ Acquire(s, ApplicationRow, IF Kind(s) = "decide" THEN "update" ELSE "key_share")
  /\ Move(s, IF Kind(s) = "save" THEN "check" ELSE "commit")
  /\ UNCHANGED <<stored, page>>

\* Faulty: the application is not read again.
CheckNothing(s) ==
  /\ At(s, "check")
  /\ Move(s, "commit")
  /\ UNCHANGED <<stored, page, held>>

\* reviewerApplication, read for the answer, only finds submitted ones.
Check(s) ==
  /\ At(s, "check")
  /\ Submitted
  /\ Move(s, "commit")
  /\ UNCHANGED <<stored, page, held>>

-------------------------------------------------------------------------------
(* Commits.                                                                *)

Tell(event, r) == audit' = [audit EXCEPT ![<<event, r>>] = @ + 1]
Unlock(s) == held' = [held EXCEPT ![s] = {}]
End(s) == job' = [job EXCEPT ![s] = None] /\ Unlock(s)

\* The row UpdateReviewDraft leaves where there was row (None: there was none).
UpdateReviewDraft(row, req) ==
  IF row = None
  THEN [status |-> "draft", version |-> 1, content |-> req.content]
  ELSE [row EXCEPT !.version = @ + 1, !.content = req.content]

SubmitReview(row) == [row EXCEPT !.status = "submitted", !.version = @ + 1]

\* The answer sets the page's review, and the page goes on to submit what it
\* saved; or the answer is lost.
SaveDraft(p) ==
  LET row == UpdateReviewDraft(review[p[1]], job[p].req)
      submit == Started([kind |-> "submit", version |-> row.version])
  IN  /\ At(p, "commit") /\ Kind(p) = "save"
      /\ review' = [review EXCEPT ![p[1]] = row]
      /\ \/ /\ page' = [page EXCEPT ![p] = row]
            /\ job' = [job EXCEPT ![p] = IF job[p].req.submits THEN submit ELSE None]
         \/ /\ job' = [job EXCEPT ![p] = None]
            /\ UNCHANGED page
      /\ Unlock(p)
      /\ UNCHANGED <<status, roles, assigned, audit>>

Submit(p) ==
  LET row == SubmitReview(review[p[1]])
  IN  /\ At(p, "commit") /\ Kind(p) = "submit"
      /\ review' = [review EXCEPT ![p[1]] = row]
      /\ Tell("submitted", p[1])
      /\ page' \in {page, [page EXCEPT ![p] = row]}
      /\ End(p)
      /\ UNCHANGED <<status, roles, assigned>>

\* Faulty: the grant is audited whether or not it inserted.
GrantReviewerRoleAlways(o) ==
  /\ At(o, "commit") /\ Kind(o) = "grant"
  /\ roles' = roles \cup {Subject(o)}
  /\ Tell("role", Subject(o))
  /\ End(o)
  /\ UNCHANGED <<status, assigned, review, page>>

GrantReviewerRole(o) ==
  /\ At(o, "commit") /\ Kind(o) = "grant"
  /\ IF job[o].wrote
     THEN roles' = roles \cup {Subject(o)} /\ Tell("role", Subject(o))
     ELSE UNCHANGED <<roles, audit>>
  /\ End(o)
  /\ UNCHANGED <<status, assigned, review, page>>

AssignReviewer(o) ==
  /\ At(o, "commit") /\ Kind(o) = "assign"
  /\ IF job[o].wrote
     THEN assigned' = assigned \cup {Subject(o)} /\ Tell("assigned", Subject(o))
     ELSE UNCHANGED <<assigned, audit>>
  /\ End(o)
  /\ UNCHANGED <<status, roles, review, page>>

\* decisions.Record, as far as reviews can tell.
Decide(o) ==
  /\ At(o, "commit") /\ Kind(o) = "decide"
  /\ status' = "decided"
  /\ End(o)
  /\ UNCHANGED <<roles, assigned, review, audit, page>>

\* Every early return (404, 409, 422), a timeout, a crash: rolled back.
Refuse(s) ==
  /\ job[s] # None
  /\ End(s)
  /\ UNCHANGED <<stored, page>>

\* A draft older than migration 000004 has its column default, version 0.
Init ==
  /\ status = "submitted"
  /\ roles \in SUBSET Reviewers
  /\ assigned = {}
  /\ review \in [Reviewers -> {[status |-> "draft", version |-> 0, content |-> c] :
                                 c \in Contents} \cup {None}]
  /\ audit = [e \in Events |-> IF e[1] = "role" /\ e[2] \in roles THEN 1 ELSE 0]
  /\ page = [p \in Pages |-> Closed]
  /\ job = [s \in Sessions |-> None]
  /\ held = [s \in Sessions |-> {}]

Next ==
  \/ \E p \in Pages : Open(p) \/ Fill(p) \/ SaveDraft(p) \/ Submit(p)
  \/ \E o \in Organizers :
       Ask(o) \/ GrantReviewerRole(o) \/ AssignReviewer(o) \/ Decide(o)
  \/ \E s \in Sessions :
       ReadBefore(s) \/ Look(s) \/ Write(s) \/ Link(s) \/ Check(s) \/ Refuse(s)

Spec == Init /\ [][Next]_vars

-------------------------------------------------------------------------------
(* Properties.                                                             *)

\* Every row is one the CHECK constraints of 000001 and 000004 allow and the
\* statements of queries/reviews.sql can have left.
TypeOK ==
  /\ status \in {"submitted", "decided"}
  /\ roles \subseteq Reviewers /\ assigned \subseteq Reviewers
  /\ review \in [Reviewers -> Rows \cup {None}]
  /\ audit \in [Events -> Nat]
  /\ page \in [Pages -> Rows \cup {Closed, New}]
  /\ job \in [Sessions -> Jobs \cup {None}]

\* Each role, assignment and submitted review is told of by one audit event,
\* however many organizers and tabs repeat the call (GrantReviewerRole,
\* AssignReviewer, Submit).
AuditExact ==
  \A r \in Reviewers :
    /\ audit[<<"role", r>>] = IF r \in roles THEN 1 ELSE 0
    /\ audit[<<"assigned", r>>] = IF r \in assigned THEN 1 ELSE 0
    /\ audit[<<"submitted", r>>] =
         IF review[r] # None /\ review[r].status = "submitted" THEN 1 ELSE 0

\* What a step that changes or starts a review finds.
ReplacesShown ==
  \A r \in Reviewers :
    review'[r] # review[r] =>
      /\ \E p \in Pages : /\ p[1] = r /\ job[p] # None
                          /\ page[p] = GetReviewerApplication(r)
      /\ review[r] # None => review[r].status = "draft"
      /\ review'[r].status = "submitted" => review'[r].content = review[r].content

StartsUndecided ==
  \A r \in Reviewers :
    review[r] = None /\ review'[r] # None => status = "submitted"

\* A page only ever replaces the review it was showing, and submits exactly
\* the content it showed: the lock_version of SaveDraft and Submit does what
\* it is for, whichever tab or lost answer came between.
NoBlindOverwrite == [][ReplacesShown]_vars

\* A review is started only while the application awaits a decision, at the
\* instant of the commit and not only when SaveDraft looked.
StartedBeforeDecision == [][StartsUndecided]_vars

\* Every change of a role, an assignment or a review is one that ReviewDesk
\* allows at the instant of its commit, from a page that shows what it replaces:
\* the lock_version comparisons, the foreign key's lock and the second read of
\* the application amount to that (SaveDraft, Submit, GrantReviewerRole,
\* AssignReviewer).
Plain(row) == [status |-> row.status, content |-> row.content]
Desk == INSTANCE ReviewDesk WITH
  decided <- status = "decided",
  review <- [r \in Reviewers |-> Plain(GetReviewerApplication(r))],
  shown <- [p \in Pages |-> Plain(page[p])]
DeskSpec == Desk!Spec

\* "SaveDraft atomically creates or updates a caller-owned review draft when
\* its lockVersion matches" (reviews/service.go:333): its statement never comes
\* back without a row while the application is submitted and the draft has
\* the version that was sent.
MatchingDraftSaves ==
  \A p \in Pages :
    (At(p, "conflict") /\ Kind(p) = "save" /\ status = "submitted" /\ review[p[1]] # None) =>
      ~Updatable(review[p[1]], job[p].req.version)

-------------------------------------------------------------------------------
(* Why they hold.                                                          *)

LockRows == {ApplicationRow} \cup ({"review", "role", "assignment"} \X Reviewers)

\* No two transactions hold one row in modes that exclude each other.
LocksExclude ==
  /\ DOMAIN held = Sessions
  /\ \A s, u \in Sessions, row \in LockRows, m, n \in Modes :
       s # u /\ <<row, m>> \in held[s] /\ <<row, n>> \in held[u] => Compatible(m, n)

\* A page shows the present review or an earlier one, never another of the
\* same version.
PagesStand ==
  \A p \in Pages :
    LET row == review[p[1]]
    IN  /\ page[p].status = "new" /\ row # None => row.version > 0
        /\ page[p] \in Rows => row # None /\ (row = page[p] \/ row.version > page[p].version)

\* A page's request carries the version it shows; a save gets past its SELECT
\* only at version 0, so what is submitted is at version 1.
RequestStands(s) ==
  job[s] # None =>
    /\ s \in Pages <=> Kind(s) \in {"save", "submit"}
    /\ s \in Pages => page[s].version = job[s].req.version
    /\ Kind(s) = "save" =>
         /\ page[s].status \in {"new", "draft"}
         /\ job[s].stage \notin {"read", "look", "conflict"} => job[s].req.version = 0
    /\ Kind(s) = "submit" => page[s].status = "draft" /\ page[s].version = 1
    /\ Kind(s) = "decide" => job[s].stage \in {"link", "commit"} /\ ~job[s].wrote

\* What a statement found on the row it wrote stays so, for it holds the row.
WriteStands(s) ==
  job[s] # None =>
    /\ job[s].wrote => <<Key(s), "update">> \in held[s] /\ Writable(s)
    /\ s \in Pages /\ job[s].stage \in {"link", "check", "commit"} => job[s].wrote

\* A review that is being inserted holds the application against decisions.
StartStands(s) ==
  job[s] # None =>
    /\ Kind(s) = "save" /\ job[s].stage \in {"check", "commit"} /\ Inserted(s)
         => /\ <<ApplicationRow, "key_share">> \in held[s]
            /\ job[s].stage = "commit" => Submitted
    /\ Kind(s) = "decide" /\ job[s].stage = "commit"
         => <<ApplicationRow, "update">> \in held[s]

\* The inductive invariant.
IInv ==
  /\ TypeOK /\ LocksExclude /\ PagesStand /\ AuditExact
  /\ \A s \in Sessions : RequestStands(s) /\ WriteStands(s) /\ StartStands(s)

===============================================================================
