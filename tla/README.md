# HackAtlantic ATS: a TLA+ verification project

HackAtlantic's applicant tracking system takes hackathon applications, has them
reviewed and decided, asks the accepted for an RSVP, issues them passes and
checks them in at the doors. It is a Next.js web client (`app/`, `components/`,
`lib/`), a Go API (`api/internal/*`) and one PostgreSQL schema (`ats`,
`api/migrations`, `api/queries`). Nothing runs in the background: every change
of state is one request served by one database transaction, and many requests
are served at once. What can go wrong is therefore what can happen between the
statements of concurrent transactions, between a commit and its answer, and
between what a page showed and what it later asks for. That is what these
modules model.

## Inventory

All server transactions run at READ COMMITTED (only the organizer bootstrap is
serializable): a statement sees what is committed when it runs, `FOR UPDATE`
and `FOR SHARE` rows stay locked to the end of the transaction, writes appear
with the commit. `statement_timeout` and `lock_timeout` are both 5 s
(`internal/database/pool.go`), so no wait is forever; a deadlock is broken by
PostgreSQL.

| Component | State it keeps | Operations that change it | What is hard | What makes it correct |
| --- | --- | --- | --- | --- |
| redemptions | `redemption_requests` (idempotency ledger), `redemptions` | `Redeem` (up to 3 attempts) | equal keys at once, lost answers, policy changing under a scan, several passes of one attendee | one outcome per key, the one the committed state calls for; the maximum is never exceeded |
| entitlements | none (pure) | `Resolve` | precedence, negative maxima | override replaces both defaults |
| operations | `checkpoints`, `attendee_entitlements`, `activities` | overrides, checkpoints, activities, `EnableEntrance` | changes under scans, foreign keys, unique slugs, lock order | nothing in use is deleted; scans never deadlock with policy changes; one default entrance, only in an empty cycle |
| passes | `passes`, `email_outbox` | `Issue`, `Reissue`, `Revoke` | decline or new decision while waiting, two organizers at once | one active pass, only for a confirmed acceptance |
| staff passes | `staff_passes` | `EnsureStaffPass` | two page loads at once, eligibility changing between the two statements | one credential per staff member and event |
| decisions | `decisions` (append-only), `applications` cache, `attendees`, outbox | `Record`, `Release` | two organizers, stale pages, repeats | linear history, cache agrees with it, one email per release |
| rsvps | `attendance_responses` | `Respond` | several tabs, superseded acceptances | no blind overwrite, answers only the current acceptance |
| reviews | `review_assignments`, `reviews` | grant role, assign, `SaveDraft`, `Submit` | versions, repeats, submission racing a draft or a decision | no blind overwrite, a submitted review is final |
| applications, resumes | `applications`, answers, `application_resumes`, object storage | `Create`, `SaveDraft`, `Submit`, `Upload` | versions, conditional questions, upload racing submission, two stores | what is submitted is what was asked and checked, and does not change |
| users, volunteers, bootstrap | `users`, `user_roles`, `volunteer_requests` | resolve, grants, reviews, bootstrap | two organizers at once, replays after revocation, overlapping bootstraps | one first organizer, the audit trail accounts for every role and verdict |
| authentication | JWKS cache in memory | refresh | refreshes finishing out of order | a good token is not refused for good |
| scanner client | the retryable request of a page | scan, retry | lost answers, edited payload | a retry re-sends the same key and payload |
| migrations | `schema_migrations` | run | two servers starting | each migration once |

Components interact through rows: a decision makes an attendee and gates the
RSVP; the RSVP gates the pass; pass, acceptance, checkpoint and override gate
the redemption. Where two of them race, one row lock decides: the application
for decisions, RSVPs and pass issuance; the checkpoint, pass, attendee and
application for redemptions; the cycle, activity and checkpoint for the event's
setup; the volunteer request and the role for access.

## Modules

| Module | Models |
| --- | --- |
| `RowLocks` | PostgreSQL's four row lock modes: who waits for whom, wait cycles |
| `CheckInPolicy` | the data a redemption is judged by: `Resolve`, the window, outcomes |
| `RedemptionLedger` | the promise of check-in, with no transactions: each scan judged in one instant |
| `Redemption` | the redeem transaction of every scanner, statement by statement, with the organizer transactions that change what it reads |
| `Journey` | the promise from decision to pass, with no transactions: each change judged in one instant |
| `Admission` | one application from submission on: decisions, releases, RSVPs, passes, outbox, audit |
| `ReviewDesk` | the promise to reviewers and organizers, with no transactions or versions: each change judged in one instant |
| `Reviews` | the reviews of one application: role grants, assignments, the reviewers' pages, their drafts and submissions |
| `FormRules` | the application form: which forms can be published, which answers are accepted, which questions are asked |
| `Filing` | the promise to an applicant, with no transactions, versions or lost answers: each change made in one instant |
| `Intake` | one application before it is decided: drafts, submission, resume uploads, the applicant's dashboards |
| `Submission` | `Intake` filled in on a form of `FormRules` |
| `EventSetup` | the promise of setting up the event, with no transactions: every change judged in one instant |
| `Operations` | the transactions on activities, checkpoints and the default entrance, lock by lock |
| `StaffRoster` | the promise of roles, volunteer requests and staff passes, with no transactions: each change judged in one instant |
| `StaffAccess` | users, the scanner role, volunteer requests, the first organizer, staff passes |
| `RedemptionProofs`, `AdmissionProofs`, `ReviewsProofs`, `IntakeProofs`, `StaffAccessProofs`, `OperationsProofs` | theorems about the module each is named after, proved with TLAPS |
| `RedemptionDeadlocks`, `AdmissionDeadlocks` | theorems about who can wait for whom in `Redemption` and in `Admission` |
| `MCRedemption`, `MCAdmission`, `MCReviews`, `MCIntake`, `MCOperations`, `MCStaffAccess` | small instances for TLC |

The six promises (`RedemptionLedger`, `Journey`, `ReviewDesk`, `Filing`,
`EventSetup`, `StaffRoster`) and the two modules of pure rules stand alone; all
the others use `RowLocks`. `Redemption` implements `RedemptionLedger`, `Admission`
implements `Journey`, `Reviews` implements `ReviewDesk`, `Intake` implements
`Filing`, `Operations` implements `EventSetup` and `StaffAccess` implements
`StaffRoster`, each by an `INSTANCE` with a refinement mapping. A few operators named after what a plausible mistake would make of the
code (`Acquire...AtOnce`, `...Never`, "Faulty" in their comments) stand beside
the ones they would replace; no specification uses them.

### Redemption

`scan[s]` is the transaction state of the scanner session `s`: what
`redeemAttempt` has in its local variables and, in `pc`, the statement it will
run next; `held[s]` are its row locks. `FindRequest` .. `Commit` follow
`redeemAttempt` in order: the ledger lookup (which answers a retry), the
checkpoint `FOR SHARE`, the three rows of `lockPassByQRHash` one after another,
the refusals in the order the code tries them (`Refusal`), the effective
entitlement, the count, the inserts, the commit. The inserts of one attempt are
one step, because only their unique indexes can make them wait or fail; what
they wrote shows with `Commit`. A unique violation starts a new attempt, up to
`Attempts` (`transactionRetries`). `Tell` lets every answer be lost.
`Abort` stands for everything that ends a transaction early: a deadlock, a
timeout, a dropped connection, a killed server.

An organizer's request is a `job`: `LockPlan` is the order in which its handler
locks rows, `Matches` the `WHERE` of the locking statement, and the write
happens with all locks held (`Ready`), as in the code. From passes and
decisions only what check-in can see is kept here; their own rules are in
`Admission`. QR tokens are abstract: a pass, `Forged` (no such hash) or
`Malformed` (rejected by `QRTokenHash`). The clock moves in steps, and an
attempt's `began` is PostgreSQL's `CURRENT_TIMESTAMP`, fixed when its
transaction starts.

`RedemptionLedger` has no sessions, locks or retries. `Redeem` looks at the
state of one instant, writes the single row of the key, with `Justified`
stating for each outcome, on its own, when a scan deserves it. `Redemption`
implements it under the identity mapping: `Commit` is `Redeem`, an organizer's
write is `ChangePolicy`, the rest is invisible. It allows a scan to be received
earlier than it is judged (`t <= now`), because the code judges the window at
the start of the transaction.

The scan locks pass, attendee, application; `Reissue`, `Revoke` and an `Issue`
that finds a pass lock attendee, application, pass. These two orders can meet in a deadlock, which
costs the scan one refused attempt. `PassDeadlocksOnly` says that this is the
only one: every wait cycle is a scanner that has the pass and waits for the
attendee, and a change of that very pass waiting for it.

### Admission

A request runs as lock, read, lock what the reads call for, write and commit.
`FirstLocks` are the rows of the locking statement (`LockApplicationForDecision`,
`LockCurrentDecisionForRelease`, `LockAdmittedApplication`,
`LockAcceptedAttendee`), `Accepts` its `WHERE` and the checks right after it,
`Seen` the reads whose results the writes use (`saw`), `LaterLocks` the active
pass and the foreign-key `KEY SHARE` locks. Organizers may name any decision or
pass that ever existed (a stale page); a tab answers with the decision and
version it last displayed. `audit` counts the audit events each change writes
in its transaction. One application is enough: requests about different
applications share no lock and no row.

`Journey` has the decision in force, the decisions, the responses and the
passes, and nothing else. Its actions are judged by these alone: admitted is
who has a published acceptance in force, whatever the application's copy says,
and a response or a pass answers to the state of its instant, whatever a page
showed. `Admission` implements it under the identity mapping: the write of a
request is the change, its locks and reads are invisible, and so is a repeat
that finds its work done.

`Release` locks the decision, then the application. `Record` and `Respond` have
the application when their foreign keys want the decision `KEY SHARE`: these
can deadlock, and nothing else in this module can. `ReleaseDeadlocksOnly` says so and names
the row, the decision in force. The attendee that a second acceptance finds is
not among the rows waited for, because `UpsertAcceptedAttendee` and
`SeedAttendeeHackerRole` do nothing on a conflict, and all pass requests take
the attendee before the application.

### Reviews

A session is a page of a reviewer or an organizer; `job[s].stage` is how far
its transaction has come. `ReadBefore` is the checks a handler makes on what it
reads first, `Look` the rows the writing statement selects from its snapshot,
`Write` the row it then waits for and compares again (or the unique index that
makes it `DO NOTHING`), `Link` the foreign key's `KEY SHARE` lock on the
application that an insert takes (a decision takes it `FOR UPDATE`), `Check`
the second read of the application before the commit. `Selected` keeps the
peculiarity of `UpdateReviewDraft`: its `SELECT` yields a row for version 0
only, so `ON CONFLICT DO UPDATE` is reached only for a draft at version 0. Such
drafts are older than migration 000004, whose column default is 0; `Init` has
them. `page` is what `ReviewerReviewForm` shows: its Submit button saves first
and submits with the version the save was answered with. Any answer may be
lost.

The trigger `reviews_submitted_immutable` does not appear: the `WHERE` of both
statements keeps it from ever firing. Organizers are taken to be other people
than the reviewers, so `GrantReviewerRole`'s refusal of a grant to oneself does
not arise. The code lets a review be submitted in the instant before a decision
commits, and so does the model.

`ReviewDesk` has no versions. A page may save or submit when it shows the review
as it is, compared by content and status; a save of a review nobody has begun
also needs the application undecided, a save of a draft and a submission do not,
because only the first insert looks at the application again while it holds it
locked. An assignment is made to a reviewer who has the role and is not assigned,
a grant to a user without it, and each is told of once. `Reviews` implements it
by a mapping that drops versions, locks and sessions (`Plain`).

### FormRules and Intake

`FormRules` has no state. `Publishable` is what `parsePublishedForm` accepts,
`validateAnswers` what a draft and a submission must pass, with JSON values
told apart as far as the code does. `Asked` is written from the page's side:
the questions an applicant who starts from nothing comes to be asked, which is
the least set that leaves out none it calls for. `validateAnswers` looks at one condition at a time and at whatever
answers were sent, so that the two agree on what is submitted is a property
(`SubmittedAsAsked`), not a definition.

A dashboard has one request at a time. `Fill` is the Save and the Submit
button: a submission is a save, then, with the version of its answer, a submit
request. The stages of a request follow the handler: the reads and their checks
(`ReadBefore`, `CheckResume`), the statement that locks the row and compares
status and version (`UpdateApplication`), the commit (`SaveDraft`, `Submit`).
The answers are checked in one statement and submitted by a later one; only
`lock_version` ties the two together. The window is compared with the
transaction's start (`began`), as `CURRENT_TIMESTAMP` is. `Intake` takes the
accepted answers as two sets, `Answers` (a draft) and `Complete` (a
submission); `Submission` takes them from a form, with `validateAnswers`.
`Upload` has no transaction: `Put` stores an object under a key of its own,
`UpsertResume` names it in a row, and anything may end the request in between.
`Lossy` says whether answers may be lost; the run that refutes the dashboard's
message switches it off, so that nothing but the program is to blame.

`Filing` has no versions, requests or storage. A dashboard saves over what it
shows; it submits what it was the last to save (`author`), complete and with the
resume the form requires, under a time in the window that has come. An upload
may still end after the submission (the run `frozen`), so `Attach` asks only
that there is an application. `Intake` implements it by a mapping that drops
versions from the row and from what the dashboards show (`Filed`, `Shown`).

### Operations and EventSetup

`job[s].stage` is the next lock or check of an organizer's request, and `Needs`
the locks that it asks for. Every handler goes through the same order: the
cycle (`FOR KEY SHARE`; `EnableEntrance` `FOR UPDATE`), the activity the
checkpoint is to refer to (`FOR KEY SHARE`, with the cycle in its `WHERE`), the
checkpoint (`FOR UPDATE`), the entry of the unique index on (cycle, slug) that
an insert or a rename claims. An entry that a rename or a deletion takes out of
use belongs to its transaction until the commit (`OldKey`), so others wait for
it. `CheckReferences` is the `ON DELETE RESTRICT` of an activity: it waits for
every referring checkpoint that is being changed and refuses while one still
refers. `LookForEntrance` and `RecheckEntrance` are the one
`SELECT ... FOR UPDATE` of `EnableEntrance`: what the snapshot found, and what
is left of it once the row is locked. `SwitchCycle` stands for the database's
operators, who open and close cycles.

`EventSetup` has no sessions and no locks: every change happens in one instant
and is judged by the activities and checkpoints of that instant. The mapping
keeps the rows that exist, as sets of records, and hides jobs, locks and audit
rows. Checks made before the last wait are thus held against what is there at
the commit.

### StaffAccess

A request is resolved first: the caller's Clerk profile is fetched (`Arrive`),
then one transaction writes it and reads the roles (`Resolve`), then the
handler runs with what was found there. The fetch comes before the transaction,
so an older profile can replace a newer one; the model keeps that. A change of
the scanner role or a review of a volunteer request then runs in stages: the
request's row `FOR UPDATE` with its expected status, the `INSERT ... ON
CONFLICT DO NOTHING` or `DELETE` on the role (whether it wrote decides what is
audited), the commit. `RequestVolunteerAccess` and `IssueStaffPass` are single
statements; `ShowStaffPass` is the second statement of a staff pass page, which
looks at eligibility again. `bootstrap-organizer` is the one `SERIALIZABLE`
transaction: its first statement waits for an advisory lock, so its snapshot is
from before the wait (`saw`), and `Serializable` is what PostgreSQL then
guarantees of two runs that read and write the same rows.

`StaffRoster` has the tables and nothing of requests. Roles change and requests
are reviewed for people who have signed in and by somebody else who has; a
verdict is on a request in the status it is for; the first organizer is made
while there is none; a staff pass is made and shown to who is eligible then.
`StaffAccess` implements it under the identity mapping. One choice it leaves open
is the code's: an approval whose `INSERT` finds the role takes no lock on it, so
a revocation that commits before the approval does leaves an approved volunteer
without the role, until an organizer grants it again.

## Runs

| Run | Instance | Shows |
| --- | --- | --- |
| `contention` | 2 scanners, 2 keys, 1 pass, 1 or 2 redemptions allowed, weak fairness | equal keys, lost answers, aborts and retries never redeem twice; ordinals are dense; answers are durable; the second attempt settles; every request ends |
| `policy` | 2 scanners, 2 keys, 1 organizer on overrides and the checkpoint | no change of policy slips between a scan's reads and its commit; a checkpoint in use stays; these transactions never deadlock; the inductive invariant of the proofs |
| `passes` | 1 scanner, 1 organizer, 3 passes of two attendees in two cycles, clock 0..1 | the same against changes of passes and decisions, with windows that open and close and passes of a foreign cycle; the only deadlocks; `Redemption` implements `RedemptionLedger` |
| `decisions` | 2 organizers, 2 decisions, 2 tabs, RSVP versions up to 3 | linear history, coherent cache, no tab overwrites a choice it did not show |
| `admission_passes` | 2 organizers, 2 decisions, 2 passes, 1 tab, RSVP versions up to 2 | `Admission` implements `Journey` (no stale release, no stale answer); pass chain, exact outbox and audit trail, a pass only for a confirmed acceptance; the only deadlocks; the inductive invariant of the proofs |
| `review` | 1 reviewer with 2 pages, 2 organizers, 2 contents | `Reviews` implements `ReviewDesk` (no review begun after the decision, no assignment without the role); no page overwrites a draft it does not show; the inductive invariant |
| `dashboards` | 2 dashboards, a form with a chain of 3 questions, 2 objects, clock 0..2 with the window [1, 2), versions up to 2 | `Intake` implements `Filing` (what is submitted is what was checked, and the sender's own); it is what was asked, and it does not change; no dashboard overwrites answers it does not show; the inductive invariant |
| `staff` | 2 requests at a time, 2 users, 2 credentials, up to 2 grants of a role | `StaffAccess` implements `StaffRoster` (one first organizer, no change about oneself or a stranger); roles and verdicts are what the audit trail says; one credential; the inductive invariant |
| `setup` | 2 organizers, 2 cycles, 2 activities, 2 checkpoints, 2 slugs | `Operations` implements `EventSetup`; the entrance is made in an empty active cycle only; only two renames that swap slugs deadlock; the inductive invariant |
| `matching` | 1 reviewer, 1 page | **refuted**: a draft can be saved again with its version |
| `frozen` | 2 dashboards, 2 resumes | **refuted**: the resume of a submitted application does not change |
| `elsewhere` | 1 dashboard, no answer lost | **refuted**: "changed elsewhere" is only said when another dashboard wrote |

The three refuted properties quote the repository, and TLC's counterexamples
are short:

- `matching` (`MatchingDraftSaves`): `SaveDraft` promises an update "when its
  lockVersion matches", but `UpdateReviewDraft` selects nothing to insert
  unless the version is 0, so the conflict branch that would update is never
  reached for a saved draft. The reviewer gets a 409 naming the version that
  was sent, and because the page saves before it submits, a review saved once
  cannot be submitted from the page.
- `frozen` (`ResumeFrozen`): an upload reads that the application is a draft,
  stores the object, and writes its row without looking again; a submission in
  between is followed by a change of resume.
- `elsewhere` (`ChangedElsewhere`): a submit whose save succeeded and whose
  second half failed leaves the page with the version from before its own save.
  Its next save is answered with a 409 and the fetched row replaces what was
  typed.

**Bounds.** Conflicts are pairwise: a lock has a holder and a waiter, a key two
users, a decision a predecessor, so two sessions of a kind reach every
conflict. In `contention` a maximum of 2 makes `redeemed` and
`already_exhausted` both follow an earlier redemption, a maximum of 1 makes the
second key meet an exhausted one, and `Attempts` is the 3 of the code. `passes`
has a pass that replaces another and one of somebody else, and a clock whose
one tick opens one window and closes another. `MaxVersion` bounds
`lock_version`: 3 lets an RSVP go confirm, decline, confirm, and 2 lets both
dashboards save before one submits. In `review` two contents tell apart what a
page shows from what is stored. The form of `dashboards` has a question asked
because of an answer to another one that is itself conditional, the shortest
chain in which an answer that is no longer asked for can reveal a question. In
`staff`, `MaxGrants` bounds how often a role changes (a repeat of a grant after
a revocation is the interesting case), `Asked` and `Movers` are the requests
and the users whose email changes. In `setup` a row id is never used again, so
two checkpoints are what an activity deleted, a slug claimed and an entrance
repeated can meet over. What the runs show at these sizes, the theorems prove
for all; the properties left to TLC alone are listed below.

Symmetry is used for passes, keys, sessions, decisions and objects that the
specification treats alike, never in the one run with a liveness property
(`contention`).

**Fairness** is assumed in `contention` only: weak fairness of each session's
next step, where a wait may be cut off (`Timeout`). The code justifies it: a
running transaction's next statement is sent by a live goroutine, each
statement ends within `statement_timeout`, each wait within `lock_timeout`, and
the whole request within the 15 s of `transactionTimeout`. No fairness is
assumed of new requests, of organizers' choices or of answers being received.

**Deadlock** (in TLC's sense) is checked in every run but `dashboards`, where
the system really may stop: after the window has closed a dashboard without a
draft can load nothing. Deadlocks of the database, wait cycles that PostgreSQL
breaks, are properties of their own (`NoDeadlock`, `PassDeadlocksOnly`,
`ReleaseDeadlocksOnly`, `OnlyRenamesDeadlock`).

## Proofs

The theorems hold for every number of sessions, rows and keys. None of the
properties is inductive as it stands: whether a comparison is still right when
a transaction writes depends on who could have written since. Each `IInv` says
why nobody could, and is itself checked by TLC in a run. All assumptions are
named in the modules and evaluated by TLC in the runs: that sentinels (`None`,
`Gone`) differ from real values, that sessions of different kinds are
different, that bounds are natural numbers.

Every proof is laid out alike: what small operators do; each action preserves
`IInv` (one lemma per action, one step per conjunct it can disturb);
`Invariance`; then the other properties from it.

### Redemption

| Theorem | States |
| --- | --- |
| `Invariance` | `Spec => []IInv` |
| `TypeCorrect`, `Coherence`, `Density`, `Kept`, `Standing` | `TypeOK`, `LedgerCoherent`, `OrdinalsDense`, `CheckpointsKept`, `VerdictsStand` |
| `Lawfulness` | `RedeemedLawfully` |
| `Refinement` | `Spec => LedgerSpec` |
| `Durability` | answers are committed rows (`AnswersDurable`) |
| `Settled` | the retry loop ends by its second attempt (`SecondAttemptSettles`) |
| `PassDeadlocks` | `PassDeadlocksOnly` |
| `NoDeadlocks` | `NoDeadlock`, where organizers ask only for what `EntitlementKinds` lists |

1. `LocksExclude`: two sessions never hold conflicting locks on a row.
2. `ScanPlaced`: how far a scan has come tells which locks it holds: the
   checkpoint `FOR SHARE`, pass, attendee and application `FOR UPDATE`, and at
   the end its entry of the key's unique index.
3. `VerdictsStand`: what a scan has read is still committed, and its verdict and
   ordinal are the ones the present state calls for.
4. `JobStands`: a row an organizer has locked is still as the lock found it.

3 is preserved by an organizer's write because it holds one of the scan's rows
`FOR UPDATE` (`ReadyHolds`, `UpdateExcludes`, `StaffKeeps`), and by another
scan's commit because both would hold the attendee (`CommitKeeps`). `ViolatedKey`
is a fact about the schema that testing would hardly give: the unique
constraint on (attendee, checkpoint, ordinal) never fires, only the one on the
key does.

The two theorems about deadlocks, in `RedemptionDeadlocks`, rest on a second
invariant, `LockOrder`: a session holds nothing but the rows its steps so far
have locked, so whoever holds an application holds its attendee
(`ApplicationHolder`), whoever wants a checkpoint holds nothing
(`CheckpointFirst`), and whoever holds an idempotency key waits for nothing
(`KeyLast`). Between scans and entitlement changes every wait leads to a row
later in the order checkpoint, pass, attendee, application, key, so no set of
them can wait within itself (`NoCycle`). Pass changes take the pass last and
break that order. `StuckShape` then goes through what the members of a set that
waits for itself can want: only the attendee, by a scan, and the scanned pass,
by an organizer, are left.

### Admission

| Theorem | States |
| --- | --- |
| `Invariance`, `TypeCorrect` | `Spec => []IInv`, `TypeOK` |
| `Coherence`, `Linear`, `Outbox`, `Audited`, `Chain` | `CacheCoherent`, `HistoryLinear`, `OutboxExact`, `AuditExact`, `PassChain` |
| `NoStaleRelease`, `AnswersTheCurrent`, `NoOverwrite`, `OnlyConfirmed` | `ReleaseOnlyCurrent`, `ResponsesToCurrent`, `NoBlindOverwrite`, `PassNeedsConfirmation` |
| `Refinement` | `Spec => JourneySpec` |
| `PlanInvariance`, `Deadlocks` | `LocksInPlan`, `ReleaseDeadlocksOnly` (in `AdmissionDeadlocks`) |

Everything rests on the application's row: `OneHolder` says that one
transaction has it, `ReadsStand` that whoever is about to write has it, that
its request would still be accepted and that what it read (`saw`) is still
there. `PassLocks`: only such a transaction locks a pass, and the pass it is to
replace or revoke is still active. `TabsStand` is about the pages: a tab that shows the present version of a response shows the present
choice, so an answer compared by version overwrites nothing unseen. Cache,
history, outbox, audit rows and pass chain are conjuncts because each write
keeps them only together.

`Refinement` has one lemma per kind of request. `CopyTells` and `PassAllowed`
turn what the code tests, the copy on the application row, into what `Journey`
tests, the decision in force; `ReadsStand` makes the tests as good at the commit
as they were before the last wait. What a decision superseded is never
published (`NoStaleRelease`) and never answered (`AnswersTheCurrent`) follow
from it, too, and are proved on their own.

`Deadlocks` needs to know what a session that waits can have. `LocksInPlan`: a
session has no lock but those its request has come to, in the order of its
statements. So a session that still waits for the first of them has nothing, and
nobody waits for it (`LockStage`); a pass request that waits for the
application has only the attendee, which is wanted by sessions that have
nothing (`AttendeeFirst`); and who waits after its reads has the application,
so no other session can have the pass it wants (`WriteStage`). A release that
waits for the application, and a decision or an RSVP that waits for the
decision in force, are all that is left for a circle.

### Reviews

| Theorem | States |
| --- | --- |
| `Invariance`, `TypeCorrect`, `Audited` | `Spec => []IInv`, `TypeOK`, `AuditExact` |
| `NoOverwrite` | a draft is replaced only from a page that shows it (`NoBlindOverwrite`) |
| `NoLateStart` | no review begins after a decision (`StartedBeforeDecision`) |
| `RoleInvariance` | who sees or asks anything has the role, and so has whom an assignment is to (`RolesStand`) |
| `Refinement` | `Spec => DeskSpec` |

`WriteStands`: a statement that wrote still holds its row, and the row is as
the comparison found it. `StartStands`: an insert holds the application
`KEY SHARE` through its foreign key and a decision holds it `FOR UPDATE`, so
what the check before the commit read is so at the commit. `PagesStand`: a page
shows the present review or an older version, never another review of the same
version. `RequestStands`: a request carries what its page shows.

`Refinement` needs one thing more. The handlers check the reviewer role before
their transactions and never again, while `ReviewDesk` asks for it at the
instant of the change. `RolesStand` closes the gap: roles are only ever granted,
so who once had the role has it still. The rest is comparing without versions:
`SaveFinds` and `SubmitFinds` show that a statement whose version matches finds
what its page shows, so the page may be compared with the review itself.
`StartedBeforeDecision` follows from `DeskSpec`, too, and is proved on its own.

### Intake

| Theorem | States |
| --- | --- |
| `Invariance`, `TypeCorrect` | `Spec => []IInv`, `TypeOK` |
| `Soundness`, `Stored` | `SubmissionSound`, `ResumeStored` |
| `AsAsked` | `Grounded` implies `Spec => []SubmittedAsAsked` |
| `Stable` | no step changes what was submitted (`SubmittedStable`) |
| `NoOverwrite` | a step replaces answers only from a dashboard that shows them (`NoBlindOverwrite`) |
| `WriterInvariance` | a submission that can still succeed sends its own dashboard's save (`WritesStand`) |
| `Refinement` | `Spec => FilingSpec` |

`SubmissionSound` is not inductive, because the answers are checked statements
before they are submitted. `SubmitStands` says that what a submission found
complete is complete as long as the row still has the version it names;
`OneWriter` that between the comparison and the commit nobody else writes;
`TabsStand` that a dashboard showing the present version of a draft shows the
present answers, from which `NoOverwrite` follows. A save raises the version
past every version another request compares with, which is why it cannot make
a check stale without the comparison noticing.

`Refinement` adds that a dashboard sends nobody else's draft. No statement
compares authors: `WritesStand` says that while the row has the version a
submission names, its own dashboard wrote the row last. A save hands its
version on to the submission in the same instant as it writes, and any other
writer raises the version past it (`WritesRow`). `SubmissionSound` follows from
`FilingSpec` as far as the answers, the resume and the window go, and is proved on
its own.

`AsAsked` is about `Submission`. That an answered question was asked cannot be
proved by following the chain of conditions down, which is an induction over
data; but the questions that were answered and never asked would be a set in which
each waits for another of the set, and `Grounded` says that there is no such
circle. It is a hypothesis of the theorem and no assumption on forms:
`parsePublishedForm` lets two boolean questions depend on each other. On such a
form `validateAnswers` would accept an answer to either that no page ever asks
for.

### StaffAccess

| Theorem | States |
| --- | --- |
| `Invariance`, `TypeCorrect` | `Spec => []IInv`, `TypeOK` |
| `RolesTold`, `ReviewsTold` | the audit trail accounts for every role and every verdict (`RoleTrail`, `ReviewTrail`) |
| `FirstOrganizer` | `OneBootstrap` |
| `Credential` | `OneCredential` |
| `KnownInvariance` | requests under way are about people who have signed in, and not about their callers (`KnownStand`) |
| `Refinement` | `Spec => RosterSpec` |

`RoleStands`: a transaction whose statement changed a role has the role's row,
and the role is still the opposite of what it will be; a statement that changed
nothing audits nothing. `ReviewStands`: the request under review has the status
its verdict expects until the commit. `OneBootstrap` follows from serializability, not
from the advisory lock: a run that counted no organizer and finds one committed
cannot be serialized.

`Refinement` moves each handler's checks to the instant of its commit.
`RoleStands` and `ReviewStands` do so for the role and the request, whose rows
stay locked. Nothing is locked of the caller and, for a grant, of the target:
`KnownStand` carries what was found of them, because a user's row is never
deleted.

### Operations

| Theorem | States |
| --- | --- |
| `Invariance`, `TypeCorrect`, `Audit` | `Spec => []IInv`, `TypeOK`, `AuditExact` |
| `Alone` | EnableEntrance makes an entrance in an empty active cycle only (`EntranceAlone`) |
| `Refinement` | `Spec => SetupSpec` |
| `Deadlocks` | transactions that wait for each other are renames (`OnlyRenamesDeadlock`) |

`PathStands`: a checkpoint never changes its cycle, so the cycle that
`UpdateCheckpoint` read without a lock is right for as long as the checkpoint
exists. `CycleStands`: who sets up the entrance has the cycle's row to itself,
so the cycle stays active and, once found empty, empty. `ActivityStands`: an
activity that is to be referred to is held `KEY SHARE`, one that is to be
deleted `FOR UPDATE`, and the second finds no reference that could come back.
`CheckpointStands`, `ClaimStands` and `KeysStand`: the checkpoint to change is
there and locked, a claimed slug is free, and an index entry belongs to who
claims it or to who has the row it is for. With these, `CreatedFits`,
`EntranceFits` and `ChangedFits` give what `EventSetup` asks of each change at
the instant of its commit.

`Deadlocks` comes from `LocksInOrder`: rows are locked in the order cycle,
activity, checkpoint, and who waits for an index entry of a slug has all its
rows. Only a transaction that changes a slug holds an entry while it waits for
another.

### Only model-checked

`RequestsEnd`: liveness under fairness is beyond the prover. That the retry
loop settles at its second attempt (`Settled`), and that scans and changes of
entitlements never wait in a circle (`NoDeadlocks`), are proved.

## Not modelled

- Authentication. A process keeps Clerk's signing keys in a cache behind one
  lock; a slow refresh may replace a newer set by an older one until the next
  refresh (`internal/auth/clerk.go:186`). It touches no table. Signature and
  claim checks belong to a library.
- The limiter before a pass claim, routing, middleware, health checks and error
  texts of the HTTP layer; how credentials are derived and hashed.
- `checkpoints`, lists, counts, reports and exports: they only read.
- The migrations runner: one transaction under one advisory lock, with nothing
  to interleave.
- `sqlc/passes.sql.go` and `sqlc/redemptions.sql.go`: nothing calls them.
- The camera and the page of the scanner: every sequence of keys they can send
  is among those of `Redemption`'s callers.
- The packages notifications, wallet, activities and attendees hold no code
  yet, and no worker empties the outbox: a row in it stays queued.
- Logging, metrics and Terraform.

An email that `Resolve` reads from Clerk may be older than the one stored; the
model keeps that, and no property of roles depends on it.

## What is left

1. `JwksCache`: that a key which Clerk publishes is accepted in the end,
   whatever the order in which refreshes finish.
2. The scanner page over `RedemptionLedger`: a retry sends the key and payload
   of the scan it repeats.
