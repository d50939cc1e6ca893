------------------------------ MODULE Redemption ------------------------------
(***************************************************************************)
(* Check-in: the redeem transactions of the scanners, statement by         *)
(* statement, against the organizer transactions that change what they     *)
(* read.  Every transaction is READ COMMITTED: a statement sees what is    *)
(* committed when it runs, a row lock is held until the transaction ends,  *)
(* and writes become visible when it commits.  A session that cannot get   *)
(* a lock waits (its action is disabled); a deadlock victim, a lock or     *)
(* statement timeout, a lost connection and a killed server all show as    *)
(* Abort: the transaction's locks and writes are gone.                     *)
(***************************************************************************)
EXTENDS CheckInPolicy, RowLocks

CONSTANTS Scanners,   \* sessions that serve POST /v1/redemptions
          Staff,      \* sessions that serve organizer and admin requests
          Kinds,      \* the organizer operations this instance lets happen
          Attempts,   \* transactionRetries
          MaxTime     \* bound on the clock

AllKinds == {"put_entitlement", "delete_entitlement", "update_checkpoint",
             "delete_checkpoint", "issue", "reissue", "revoke",
             "record_decision", "release_decision"}

ASSUME SessionsAssumption == Scanners \cap Staff = {}
ASSUME KindsAssumption == Kinds \subseteq AllKinds
ASSUME AttemptsAssumption == Attempts \in Nat \ {0}
ASSUME MaxTimeAssumption == MaxTime \in Nat

VARIABLES
  passes,       \* pass row -> its status, "absent" before it is inserted
  eligible,     \* attendee -> the application is accepted and released
  checkpoints,  \* checkpoint row -> its settings, None when there is no row
  overrides,    \* attendee_entitlements: attendee -> checkpoint -> rule or None
  requests,     \* redemption_requests: the idempotency ledger
  redemptions,  \* redemptions: the successful ones
  answers,      \* the results callers have received
  now,          \* the database clock
  scan,         \* scanner session -> its request and the transaction's state
  job,          \* staff session -> the operation it is in, or None
  held          \* session -> the row locks its transaction holds

ledger == <<requests, redemptions>>
policy == <<passes, eligible, checkpoints, overrides>>
vars == <<passes, eligible, checkpoints, overrides, requests, redemptions,
          answers, now, scan, job, held>>

Sessions == Scanners \cup Staff

-------------------------------------------------------------------------------
(* Rows that are locked.                                                   *)

CheckpointRow(c) == <<"checkpoint", c>>
PassRow(p) == <<"pass", p>>
AttendeeRow(a) == <<"attendee", a>>
ApplicationRow(a) == <<"application", a>>
KeyRow(k) == <<"idempotency_key", k>>  \* an entry of the unique index

\* Faulty: FOR UPDATE / FOR SHARE dropped, nobody waits.
LockNobodyWaits(s, row, mode) ==
  held' = [held EXCEPT ![s] = @ \cup {<<row, mode>>}]

\* s gets the lock; the action is disabled while another session is in the way.
Lock(s, row, mode) ==
  /\ Grantable(held, s, row, mode)
  /\ held' = [held EXCEPT ![s] = @ \cup {<<row, mode>>}]

Unlock(s) == held' = [held EXCEPT ![s] = {}]

-------------------------------------------------------------------------------
(* A scanner's request.                                                    *)

Steps == {"idle", "find", "checkpoint", "pass", "attendee", "application",
          "entitlement", "count", "insert", "commit"}

Idle == [pc |-> "idle", key |-> None, qr |-> None, checkpoint |-> None,
         attempt |-> 0, began |-> 0, settings |-> None, rule |-> None,
         outcome |-> None, ordinal |-> 0]

\* The transaction of an attempt begins: CURRENT_TIMESTAMP is fixed here.
Attempt(key, qr, checkpoint, n) ==
  [pc |-> "find", key |-> key, qr |-> qr, checkpoint |-> checkpoint,
   attempt |-> n, began |-> now, settings |-> None, rule |-> None,
   outcome |-> None, ordinal |-> 0]

At(s, step) == scan[s].pc = step
Go(s, step) == scan' = [scan EXCEPT ![s].pc = step]
Decide(s, outcome, ordinal) ==
  scan' = [scan EXCEPT ![s] = [@ EXCEPT !.pc = "insert", !.outcome = outcome,
                                        !.ordinal = ordinal]]
Finish(s) == scan' = [scan EXCEPT ![s] = Idle] /\ Unlock(s)

\* The row of redemption_requests (and the result it replays).
RequestOf(c) == [key |-> c.key, checkpoint |-> c.checkpoint, qr |-> c.qr,
                 outcome |-> c.outcome, ordinal |-> c.ordinal]
\* The row of redemptions; redeemed_at is now(), the transaction's start.
RedemptionOf(c) ==
  [key |-> c.key, pass |-> c.qr, attendee |-> Owner[c.qr],
   checkpoint |-> c.checkpoint, ordinal |-> c.ordinal, at |-> c.began]

Redeemed(a, c) == {r \in redemptions : r.attendee = a /\ r.checkpoint = c}

\* A result reaches its caller, or the answer is lost on the way.
Tell(r) == answers' \in {answers, answers \cup {r}}

\* A scan arrives, the first time or as a retry with the same key.
Begin(s) ==
  /\ At(s, "idle")
  /\ \E key \in Keys, qr \in Credentials, c \in Checkpoints :
       /\ qr \in Passes => passes[qr] # "absent"
       /\ scan' = [scan EXCEPT ![s] = Attempt(key, qr, c, 1)]
  /\ UNCHANGED <<policy, ledger, answers, now, job, held>>

\* Faulty: the ledger is never consulted before judging.
FindRequestNever(s) ==
  /\ At(s, "find")
  /\ Go(s, "checkpoint")
  /\ UNCHANGED <<policy, ledger, answers, now, job, held>>

\* SELECT ... WHERE idempotency_key = $1: a new key, a key used for another
\* scan (ErrIdempotencyConflict), or a retry, which is answered from the row.
FindRequest(s) ==
  LET c == scan[s]
      prior == {r \in requests : r.key = c.key}
      same(r) == r.checkpoint = c.checkpoint /\ r.qr = c.qr
  IN  /\ At(s, "find")
      /\ \/ /\ prior = {}
            /\ Go(s, "checkpoint")
            /\ UNCHANGED <<answers, held>>
         \/ /\ \E r \in prior : ~same(r)
            /\ Finish(s)
            /\ UNCHANGED answers
         \/ \E r \in prior : same(r) /\ Finish(s) /\ Tell(r)
      /\ UNCHANGED <<policy, ledger, now, job>>

\* The scan goes on with the settings it has read.  A malformed credential is
\* refused before any pass is looked up.
Configure(s, settings) ==
  scan' = [scan EXCEPT ![s] =
    IF @.qr = Malformed
    THEN [@ EXCEPT !.pc = "insert", !.settings = settings, !.outcome = "invalid_pass"]
    ELSE [@ EXCEPT !.pc = "pass", !.settings = settings]]

\* Faulty: a plain SELECT of the checkpoint.
LockCheckpointUnlocked(s) ==
  LET c == scan[s]
  IN  /\ At(s, "checkpoint")
      /\ checkpoints[c.checkpoint] # None
      /\ Configure(s, checkpoints[c.checkpoint])
      /\ UNCHANGED <<policy, ledger, answers, now, job, held>>

\* The checkpoint row, FOR SHARE.  No row: ErrCheckpointNotFound, nothing is
\* recorded.
LockCheckpoint(s) ==
  LET c == scan[s]
  IN  /\ At(s, "checkpoint")
      /\ \/ /\ checkpoints[c.checkpoint] = None
            /\ Finish(s)
         \/ /\ checkpoints[c.checkpoint] # None
            /\ Lock(s, CheckpointRow(c.checkpoint), "share")
            /\ Configure(s, checkpoints[c.checkpoint])
      /\ UNCHANGED <<policy, ledger, answers, now, job>>

\* Faulty: a credential without a row is recorded with no outcome.
LockPassNoOutcome(s) ==
  /\ At(s, "pass")
  /\ \/ scan[s].qr = Forged /\ Go(s, "insert") /\ UNCHANGED held
     \/ /\ scan[s].qr \in Passes
        /\ Lock(s, PassRow(scan[s].qr), "update")
        /\ Go(s, "attendee")
  /\ UNCHANGED <<policy, ledger, answers, now, job>>

\* SELECT ... FOR UPDATE OF pass, attendee, application locks the three rows
\* one after another, in that order.
LockPass(s) ==
  /\ At(s, "pass")
  /\ \/ /\ scan[s].qr = Forged
        /\ Decide(s, "invalid_pass", 0)
        /\ UNCHANGED held
     \/ /\ scan[s].qr \in Passes
        /\ Lock(s, PassRow(scan[s].qr), "update")
        /\ Go(s, "attendee")
  /\ UNCHANGED <<policy, ledger, answers, now, job>>

LockAttendee(s) ==
  /\ At(s, "attendee")
  /\ Lock(s, AttendeeRow(Owner[scan[s].qr]), "update")
  /\ Go(s, "application")
  /\ UNCHANGED <<policy, ledger, answers, now, job>>

\* Faulty: closes_at still belongs to the window.
RefusalClosesLate(c) ==
  LET a == Owner[c.qr]
  IN  IF passes[c.qr] = "revoked" /\ eligible[a] THEN "revoked_pass"
      ELSE IF passes[c.qr] # "active" \/ ~eligible[a] THEN "invalid_pass"
      ELSE IF ~c.settings.active THEN "outside_window"
      ELSE IF CycleOf[c.checkpoint] # CycleOf[a] THEN "not_entitled"
      ELSE IF c.began < c.settings.opens \/ c.began > c.settings.closes
           THEN "outside_window"
      ELSE None

\* The refusals that need no further query, in the order they are tried.
Refusal(c) ==
  LET a == Owner[c.qr]
  IN  IF passes[c.qr] = "revoked" /\ eligible[a] THEN "revoked_pass"
      ELSE IF passes[c.qr] # "active" \/ ~eligible[a] THEN "invalid_pass"
      ELSE IF ~c.settings.active THEN "outside_window"
      ELSE IF CycleOf[c.checkpoint] # CycleOf[a] THEN "not_entitled"
      ELSE IF ~InWindow(c.settings, c.began) THEN "outside_window"
      ELSE None

\* Faulty: FOR UPDATE OF pass, attendee.
LockApplicationUnlocked(s) ==
  LET c == scan[s]
  IN  /\ At(s, "application")
      /\ IF Refusal(c) = None THEN Go(s, "entitlement")
                              ELSE Decide(s, Refusal(c), 0)
      /\ UNCHANGED <<policy, ledger, answers, now, job, held>>

\* With the last of the three rows locked the statement returns the pass.
LockApplication(s) ==
  LET c == scan[s]
  IN  /\ At(s, "application")
      /\ Lock(s, ApplicationRow(Owner[c.qr]), "update")
      /\ IF Refusal(c) = None THEN Go(s, "entitlement")
                              ELSE Decide(s, Refusal(c), 0)
      /\ UNCHANGED <<policy, ledger, answers, now, job>>

\* The override row if there is one, else the defaults read with the
\* checkpoint.  The override is only ever written under the checkpoint's lock,
\* so its own FOR UPDATE never waits.
EffectiveEntitlement(s) ==
  LET c == scan[s]
      rule == Resolve(c.settings.rule, overrides[Owner[c.qr]][c.checkpoint])
  IN  /\ At(s, "entitlement")
      /\ IF rule.allowed
         THEN scan' = [scan EXCEPT ![s] = [@ EXCEPT !.pc = "count", !.rule = rule]]
         ELSE Decide(s, "not_entitled", 0)
      /\ UNCHANGED <<policy, ledger, answers, now, job, held>>

CountRedemptions(s) ==
  LET c == scan[s]
      committed == Cardinality(Redeemed(Owner[c.qr], c.checkpoint))
  IN  /\ At(s, "count")
      /\ IF committed >= c.rule.max THEN Decide(s, "already_exhausted", 0)
                                    ELSE Decide(s, "redeemed", committed + 1)
      /\ UNCHANGED <<policy, ledger, answers, now, job, held>>

\* Faulty: neither unique constraint exists.
UniqueViolationNever(c) == FALSE

\* A committed row has the idempotency key or the attendee's ordinal.
UniqueViolation(c) ==
  \/ \E r \in requests : r.key = c.key
  \/ /\ c.outcome = "redeemed"
     /\ \E r \in Redeemed(Owner[c.qr], c.checkpoint) : r.ordinal = c.ordinal

\* Faulty: the result is sent before the transaction commits.
InsertRequestTells(s) ==
  LET c == scan[s]
  IN  /\ At(s, "insert")
      /\ ~UniqueViolation(c)
      /\ Lock(s, KeyRow(c.key), "update")
      /\ Go(s, "commit")
      /\ Tell(RequestOf(c))
      /\ UNCHANGED <<policy, ledger, now, job>>

\* INSERT into the ledger (and redemptions): waits for a transaction that has
\* inserted the same key and not ended.
InsertRequest(s) ==
  LET c == scan[s]
  IN  /\ At(s, "insert")
      /\ ~UniqueViolation(c)
      /\ Lock(s, KeyRow(c.key), "update")
      /\ Go(s, "commit")
      /\ UNCHANGED <<policy, ledger, answers, now, job>>

\* Faulty: the insert is repeated instead of re-reading the ledger.
RetryAttemptInPlace(s) ==
  LET c == scan[s]
  IN  /\ At(s, "insert")
      /\ Grantable(held, s, KeyRow(c.key), "update")
      /\ UniqueViolation(c)
      /\ scan' = [scan EXCEPT ![s].attempt = (@ % Attempts) + 1]
      /\ UNCHANGED <<policy, ledger, answers, now, job, held>>

\* 23505 is retried in a new transaction, three attempts in all.
RetryAttempt(s) ==
  LET c == scan[s]
  IN  /\ At(s, "insert")
      /\ Grantable(held, s, KeyRow(c.key), "update")
      /\ UniqueViolation(c)
      /\ scan' = [scan EXCEPT ![s] =
                    IF c.attempt < Attempts
                    THEN Attempt(c.key, c.qr, c.checkpoint, c.attempt + 1)
                    ELSE Idle]
      /\ Unlock(s)
      /\ UNCHANGED <<policy, ledger, answers, now, job>>

\* The request row, the redemption and the audit event become visible
\* together; the response may still be lost.
Commit(s) ==
  LET c == scan[s]
  IN  /\ At(s, "commit")
      /\ requests' = requests \cup {RequestOf(c)}
      /\ redemptions' = IF c.outcome = "redeemed"
                        THEN redemptions \cup {RedemptionOf(c)}
                        ELSE redemptions
      /\ Tell(RequestOf(c))
      /\ Finish(s)
      /\ UNCHANGED <<policy, now, job>>

Abort(s) ==
  /\ ~At(s, "idle")
  /\ Finish(s)
  /\ UNCHANGED <<policy, ledger, answers, now, job>>

ScannerStep(s) ==
  \/ FindRequest(s) \/ LockCheckpoint(s) \/ LockPass(s) \/ LockAttendee(s)
  \/ LockApplication(s) \/ EffectiveEntitlement(s) \/ CountRedemptions(s)
  \/ InsertRequest(s) \/ RetryAttempt(s) \/ Commit(s)

-------------------------------------------------------------------------------
(* Organizer transactions: locks in the order of the code, then the checks *)
(* under them, the writes and the commit.                                  *)

Jobs ==
  [kind : {"put_entitlement"}, attendee : Attendees, checkpoint : Checkpoints,
   rule : {r \in Rules : r.max >= 0}]
  \cup [kind : {"delete_entitlement"}, attendee : Attendees,
        checkpoint : Checkpoints]
  \cup [kind : {"update_checkpoint"}, checkpoint : Checkpoints,
        settings : Settings]
  \cup [kind : {"delete_checkpoint"}, checkpoint : Checkpoints]
  \cup [kind : {"reissue", "revoke"}, pass : Passes]
  \cup [kind : {"issue", "record_decision", "release_decision"},
        attendee : Attendees]

OfPass(op) == op.kind \in {"reissue", "revoke"}
OfCheckpoint(op) == op.kind \in {"put_entitlement", "delete_entitlement",
                                 "update_checkpoint", "delete_checkpoint"}
OfDecision(op) == op.kind \in {"record_decision", "release_decision"}
Subject(op) == IF OfPass(op) THEN Owner[op.pass] ELSE op.attendee

ActivePasses(a) == {p \in Passes : Owner[p] = a /\ passes[p] = "active"}

\* Faulty: entitlement changes lock the attendee before the checkpoint.
LockPlanAttendeeFirst(op) ==
  LET a == Subject(op)
  IN  CASE op.kind \in {"update_checkpoint", "delete_checkpoint"} ->
             <<CheckpointRow(op.checkpoint)>>
        [] op.kind \in {"put_entitlement", "delete_entitlement"} ->
             <<AttendeeRow(a), ApplicationRow(a), CheckpointRow(op.checkpoint)>>
        [] OTHER -> <<ApplicationRow(a)>>

\* Faulty: the query of an issue names the application before the attendee.
LockPlanApplicationFirst(op) ==
  LET a == Subject(op)
  IN  CASE op.kind \in {"update_checkpoint", "delete_checkpoint"} ->
             <<CheckpointRow(op.checkpoint)>>
        [] op.kind \in {"put_entitlement", "delete_entitlement"} ->
             <<CheckpointRow(op.checkpoint), AttendeeRow(a), ApplicationRow(a)>>
        [] OfDecision(op) -> <<ApplicationRow(a)>>
        [] OTHER -> <<ApplicationRow(a), AttendeeRow(a)>>

\* The rows the handler locks, all FOR UPDATE, in order.  Issue looks for an
\* active pass with FOR UPDATE too.
LockPlan(op) ==
  LET a == Subject(op)
  IN  CASE op.kind \in {"update_checkpoint", "delete_checkpoint"} ->
             <<CheckpointRow(op.checkpoint)>>
        [] op.kind \in {"put_entitlement", "delete_entitlement"} ->
             <<CheckpointRow(op.checkpoint), AttendeeRow(a), ApplicationRow(a)>>
        [] OfPass(op) ->
             <<AttendeeRow(a), ApplicationRow(a), PassRow(op.pass)>>
        [] op.kind = "issue" /\ ActivePasses(a) # {} ->
             <<AttendeeRow(a), ApplicationRow(a),
               PassRow(CHOOSE p \in ActivePasses(a) : TRUE)>>
        [] op.kind = "issue" /\ ActivePasses(a) = {} ->
             <<AttendeeRow(a), ApplicationRow(a)>>
        [] OfDecision(op) -> <<ApplicationRow(a)>>

\* The locking statement still finds its row: otherwise the handler answers
\* ErrNotFound and rolls back, which is AbortJob.
Matches(op, row) ==
  CASE row[1] = "checkpoint" -> checkpoints[op.checkpoint] # None
    [] row[1] = "pass" -> /\ eligible[Subject(op)]
                          /\ OfPass(op) => passes[op.pass] = "active"
    [] OTHER -> OfDecision(op) \/ eligible[Subject(op)]

Unlocked(s) == {i \in DOMAIN LockPlan(job[s]) :
                  <<LockPlan(job[s])[i], "update">> \notin held[s]}

BeginJob(s) ==
  /\ job[s] = None
  /\ \E op \in Jobs :
       /\ op.kind \in Kinds
       /\ OfPass(op) => passes[op.pass] # "absent"
       /\ job' = [job EXCEPT ![s] = op]
  /\ UNCHANGED <<policy, ledger, answers, now, scan, held>>

LockNext(s) ==
  /\ job[s] # None
  /\ \E i \in Unlocked(s) :
       /\ \A j \in Unlocked(s) : i <= j
       /\ Matches(job[s], LockPlan(job[s])[i])
       /\ Lock(s, LockPlan(job[s])[i], "update")
  /\ UNCHANGED <<policy, ledger, answers, now, scan, job>>

\* Every row of the plan is locked and the rows are still what was asked for.
Ready(s, kind) ==
  /\ job[s] # None
  /\ job[s].kind = kind
  /\ Unlocked(s) = {}

EndJob(s) == job' = [job EXCEPT ![s] = None] /\ Unlock(s)

\* PUT of an override: both subjects must belong to one cycle.
PutEntitlement(s) ==
  LET op == job[s]
  IN  /\ Ready(s, "put_entitlement")
      /\ CycleOf[op.attendee] = CycleOf[op.checkpoint]
      /\ overrides' = [overrides EXCEPT ![op.attendee][op.checkpoint] = op.rule]
      /\ EndJob(s)
      /\ UNCHANGED <<passes, eligible, checkpoints, ledger, answers, now, scan>>

DeleteEntitlement(s) ==
  LET op == job[s]
  IN  /\ Ready(s, "delete_entitlement")
      /\ CycleOf[op.attendee] = CycleOf[op.checkpoint]
      /\ overrides' = [overrides EXCEPT ![op.attendee][op.checkpoint] = None]
      /\ EndJob(s)
      /\ UNCHANGED <<passes, eligible, checkpoints, ledger, answers, now, scan>>

UpdateCheckpoint(s) ==
  LET op == job[s]
  IN  /\ Ready(s, "update_checkpoint")
      /\ checkpoints' = [checkpoints EXCEPT ![op.checkpoint] = op.settings]
      /\ EndJob(s)
      /\ UNCHANGED <<passes, eligible, overrides, ledger, answers, now, scan>>

\* A foreign key from a request, a redemption or an override refuses the
\* DELETE (ErrInUse).
InUse(c) ==
  \/ \E r \in requests : r.checkpoint = c
  \/ \E r \in redemptions : r.checkpoint = c
  \/ \E a \in Attendees : overrides[a][c] # None

DeleteCheckpoint(s) ==
  LET op == job[s]
  IN  /\ Ready(s, "delete_checkpoint")
      /\ ~InUse(op.checkpoint)
      /\ checkpoints' = [checkpoints EXCEPT ![op.checkpoint] = None]
      /\ EndJob(s)
      /\ UNCHANGED <<passes, eligible, overrides, ledger, answers, now, scan>>

\* A new pass row for the attendee; the RSVP check of Issue and Reissue is
\* left open here (either may be refused, see AbortJob).
Issue(s) ==
  LET a == job[s].attendee
  IN  /\ Ready(s, "issue")
      /\ ActivePasses(a) = {}
      /\ \E p \in Passes :
           /\ Owner[p] = a /\ passes[p] = "absent"
           /\ passes' = [passes EXCEPT ![p] = "active"]
      /\ EndJob(s)
      /\ UNCHANGED <<eligible, checkpoints, overrides, ledger, answers, now, scan>>

Reissue(s) ==
  LET old == job[s].pass
  IN  /\ Ready(s, "reissue")
      /\ \E new \in Passes :
           /\ Owner[new] = Owner[old] /\ passes[new] = "absent"
           /\ passes' = [passes EXCEPT ![old] = "replaced", ![new] = "active"]
      /\ EndJob(s)
      /\ UNCHANGED <<eligible, checkpoints, overrides, ledger, answers, now, scan>>

Revoke(s) ==
  /\ Ready(s, "revoke")
  /\ passes' = [passes EXCEPT ![job[s].pass] = "revoked"]
  /\ EndJob(s)
  /\ UNCHANGED <<eligible, checkpoints, overrides, ledger, answers, now, scan>>

\* What check-in sees of decisions: recording one hides the application's
\* acceptance until a release, releasing an acceptance shows it.
RecordDecision(s) ==
  /\ Ready(s, "record_decision")
  /\ eligible' = [eligible EXCEPT ![job[s].attendee] = FALSE]
  /\ EndJob(s)
  /\ UNCHANGED <<passes, checkpoints, overrides, ledger, answers, now, scan>>

ReleaseDecision(s) ==
  /\ Ready(s, "release_decision")
  /\ eligible' = [eligible EXCEPT ![job[s].attendee] = TRUE]
  /\ EndJob(s)
  /\ UNCHANGED <<passes, checkpoints, overrides, ledger, answers, now, scan>>

AbortJob(s) ==
  /\ job[s] # None
  /\ EndJob(s)
  /\ UNCHANGED <<policy, ledger, answers, now, scan>>

StaffStep(s) ==
  \/ LockNext(s)
  \/ PutEntitlement(s) \/ DeleteEntitlement(s)
  \/ UpdateCheckpoint(s) \/ DeleteCheckpoint(s)
  \/ Issue(s) \/ Reissue(s) \/ Revoke(s)
  \/ RecordDecision(s) \/ ReleaseDecision(s)

-------------------------------------------------------------------------------

Tick ==
  /\ now < MaxTime
  /\ now' = now + 1
  /\ UNCHANGED <<policy, ledger, answers, scan, job, held>>

\* The doors open: nothing is redeemed yet, passes may be out, an acceptance
\* may since have been withdrawn, and checkpoints are configured or not yet.
Init ==
  /\ passes \in [Passes -> {"absent", "active"}]
  /\ \A p, q \in Passes :
       Owner[p] = Owner[q] /\ passes[p] = "active" /\ passes[q] = "active"
         => p = q
  /\ eligible \in [Attendees -> BOOLEAN]
  /\ checkpoints \in [Checkpoints -> Settings \cup {None}]
  /\ overrides = [a \in Attendees |-> [c \in Checkpoints |-> None]]
  /\ requests = {} /\ redemptions = {} /\ answers = {}
  /\ now = 0
  /\ scan = [s \in Scanners |-> Idle]
  /\ job = [s \in Staff |-> None]
  /\ held = [s \in Sessions |-> {}]

Next ==
  \/ Tick
  \/ \E s \in Scanners : Begin(s) \/ ScannerStep(s) \/ Abort(s)
  \/ \E s \in Staff : BeginJob(s) \/ StaffStep(s) \/ AbortJob(s)

Spec == Init /\ [][Next]_vars

-------------------------------------------------------------------------------
(* Properties.                                                             *)

Request == [key : Keys, checkpoint : Checkpoints, qr : Credentials,
            outcome : Outcomes, ordinal : Nat]
Redemption == [key : Keys, pass : Passes, attendee : Attendees,
               checkpoint : Checkpoints, ordinal : Nat, at : Nat]
ScanState == [pc : Steps, key : Keys \cup {None}, qr : Credentials \cup {None},
              checkpoint : Checkpoints \cup {None}, attempt : Nat, began : Nat,
              settings : Settings \cup {None},
              rule : [allowed : BOOLEAN, max : Nat] \cup {None},
              outcome : Outcomes \cup {None}, ordinal : Nat]
LockRows == {CheckpointRow(c) : c \in Checkpoints} \cup {PassRow(p) : p \in Passes}
            \cup {AttendeeRow(a) : a \in Attendees}
            \cup {ApplicationRow(a) : a \in Attendees}
            \cup {KeyRow(k) : k \in Keys}

\* Every variable has its type: the rows, the sessions and the locks of
\* redemptions/service.go and migrations/000007.
TypeOK ==
  /\ passes \in [Passes -> {"absent", "active", "revoked", "replaced"}]
  /\ eligible \in [Attendees -> BOOLEAN]
  /\ checkpoints \in [Checkpoints -> Settings \cup {None}]
  /\ overrides \in [Attendees -> [Checkpoints -> Rules \cup {None}]]
  /\ requests \subseteq Request
  /\ redemptions \subseteq Redemption /\ IsFiniteSet(redemptions)
  /\ answers \subseteq Request
  /\ now \in Nat
  /\ scan \in [Scanners -> ScanState]
  /\ job \in [Staff -> Jobs \cup {None}]
  /\ held \in [Sessions -> SUBSET (LockRows \X Modes)]

\* One row per idempotency key, and exactly the redeemed rows have a
\* redemption, of the same pass and checkpoint and with the same ordinal:
\* two concurrent attempts with one key, or a retry after a lost commit,
\* never redeem twice (redemptions/service.go: Redeem, recordOutcome).
LedgerCoherent ==
  /\ \A q, r \in requests : q.key = r.key => q = r
  /\ \A q, r \in redemptions : q.key = r.key => q = r
  /\ {<<r.key, r.qr, r.checkpoint, r.ordinal>> :
         r \in {q \in requests : q.outcome = "redeemed"}}
       = {<<r.key, r.pass, r.checkpoint, r.ordinal>> : r \in redemptions}

\* An attendee's redemptions at a checkpoint are numbered 1, 2, ... without a
\* gap or a repeat, whatever passes and scanners they came from
\* (redeemAttempt counts, then inserts count + 1).
OrdinalsDense ==
  \A a \in Attendees, c \in Checkpoints :
    {r.ordinal : r \in Redeemed(a, c)} = 1 .. Cardinality(Redeemed(a, c))

\* A result a caller was told, first answer or replay, is the committed row of
\* its key: no answer is ever taken back, and a retry gets the same one.
AnswersDurable == answers \subseteq requests

\* The row a 23505 was about is committed, so the next attempt replays it: the
\* loop of Redeem never reaches its third attempt.
SecondAttemptSettles == \A s \in Scanners : scan[s].attempt <= 2

\* No request, redemption or override outlives its checkpoint: DeleteCheckpoint
\* cannot slip between a scan's lookup and its insert.
CheckpointsKept ==
  \A c \in Checkpoints : checkpoints[c] = None => ~InUse(c)

\* A redemption that becomes visible is allowed by everything that is committed
\* at that instant, not only by what the transaction read: the pass is active,
\* the acceptance released, the checkpoint active and of the attendee's cycle,
\* and the effective maximum not reached.  The window is judged at the start
\* of the transaction.
RedeemedLawfully ==
  [][\A r \in redemptions' \ redemptions :
       LET rule == Resolve(checkpoints[r.checkpoint].rule,
                           overrides[r.attendee][r.checkpoint])
       IN  /\ passes[r.pass] = "active" /\ eligible[r.attendee]
           /\ checkpoints[r.checkpoint] # None
           /\ checkpoints[r.checkpoint].active
           /\ CycleOf[r.attendee] = CycleOf[r.checkpoint]
           /\ InWindow(checkpoints[r.checkpoint], r.at)
           /\ rule.allowed
           /\ Cardinality(Redeemed(r.attendee, r.checkpoint)) < rule.max]_vars

\* Every outcome, refusals included, is the one the state at the instant of its
\* commit calls for: the transactions implement the atomic ledger.
L == INSTANCE RedemptionLedger
LedgerSpec == L!Spec

-------------------------------------------------------------------------------
(* Why: the argument that the locks suffice.                               *)

\* No two sessions hold locks on a row that PostgreSQL would not grant both.
LocksExclude ==
  \A s, t \in Sessions : s # t =>
    \A row \in LockRows, m, n \in Modes :
      <<row, m>> \in held[s] /\ <<row, n>> \in held[t] => Compatible(m, n)

PastCheckpoint == Steps \ {"idle", "find", "checkpoint"}
PastPass == PastCheckpoint \ {"pass"}
PastAttendee == PastPass \ {"attendee"}
PastApplication == PastAttendee \ {"application"}

\* How far a transaction has come says what it was asked and what it holds.
ScanPlaced(s) ==
  LET c == scan[s]
  IN  /\ c.pc # "idle" =>
           c.key \in Keys /\ c.qr \in Credentials /\ c.checkpoint \in Checkpoints
      /\ c.pc = "pass" => c.qr # Malformed
      /\ c.pc \in Steps \ {"idle", "find", "checkpoint", "pass", "insert", "commit"}
           => c.qr \in Passes
      /\ c.pc \notin {"insert", "commit"} => c.ordinal = 0
      /\ c.began <= now
      /\ c.pc \in PastCheckpoint =>
           <<CheckpointRow(c.checkpoint), "share">> \in held[s]
      /\ c.qr \in Passes =>
           /\ c.pc \in PastPass => <<PassRow(c.qr), "update">> \in held[s]
           /\ c.pc \in PastAttendee =>
                <<AttendeeRow(Owner[c.qr]), "update">> \in held[s]
           /\ c.pc \in PastApplication =>
                <<ApplicationRow(Owner[c.qr]), "update">> \in held[s]
      /\ c.pc = "commit" => <<KeyRow(c.key), "update">> \in held[s]

\* What a transaction has read and decided is still so: the checkpoint, the
\* refusals ruled out, the rule, and at last the verdict with its ordinal.
ScanStands(s) ==
  LET c == scan[s]
      a == Owner[c.qr]
  IN  /\ c.pc \in PastCheckpoint =>
           c.settings = checkpoints[c.checkpoint] /\ c.settings # None
      /\ c.pc \in {"entitlement", "count"} => Refusal(c) = None
      /\ c.pc = "count" =>
           /\ c.rule = Resolve(c.settings.rule, overrides[a][c.checkpoint])
           /\ c.rule.allowed
      /\ c.pc \in {"insert", "commit"} =>
           /\ L!Justified(c.outcome, c.qr, c.checkpoint, c.began)
           /\ c.ordinal = IF c.outcome = "redeemed"
                          THEN Cardinality(Redeemed(a, c.checkpoint)) + 1 ELSE 0
      /\ c.pc = "commit" => \A r \in requests : r.key # c.key

\* A verdict, once reached, stays the one the committed state calls for until
\* the transaction ends, whatever else commits in between: every statement of
\* redeemAttempt reads under a lock that keeps what it read true.
VerdictsStand == \A s \in Scanners : ScanStands(s)

\* What an organizer's request wants of a row stays true once it is locked: a
\* checkpoint still exists, a pass to reissue or revoke is still active.
JobStands(s) ==
  LET op == job[s]
  IN  IF op = None
      THEN held[s] = {}
      ELSE /\ OfCheckpoint(op)
                /\ <<CheckpointRow(op.checkpoint), "update">> \in held[s]
                => checkpoints[op.checkpoint] # None
           /\ OfPass(op) /\ <<PassRow(op.pass), "update">> \in held[s]
                => passes[op.pass] = "active"

IInv == /\ TypeOK
        /\ LocksExclude
        /\ \A s \in Scanners : ScanPlaced(s)
        /\ VerdictsStand
        /\ \A s \in Staff : JobStands(s)
        /\ LedgerCoherent
        /\ OrdinalsDense
        /\ CheckpointsKept

-------------------------------------------------------------------------------
(* Waiting.                                                                *)

\* What a session that waits is waiting for.
ScannerWants(s) ==
  LET c == scan[s]
  IN  CASE c.pc = "checkpoint" /\ checkpoints[c.checkpoint] # None ->
             {<<CheckpointRow(c.checkpoint), "share">>}
        [] c.pc = "pass" /\ c.qr \in Passes -> {<<PassRow(c.qr), "update">>}
        [] c.pc = "attendee" -> {<<AttendeeRow(Owner[c.qr]), "update">>}
        [] c.pc = "application" -> {<<ApplicationRow(Owner[c.qr]), "update">>}
        [] c.pc = "insert" -> {<<KeyRow(c.key), "update">>}
        [] OTHER -> {}
StaffWants(s) ==
  IF job[s] = None THEN {}
  ELSE {<<LockPlan(job[s])[i], "update">> :
          i \in {i \in Unlocked(s) : \A j \in Unlocked(s) : i <= j}}
Wants(s) == IF s \in Scanners THEN ScannerWants(s) ELSE StaffWants(s)
Waits == [s \in Sessions |->
            UNION {Blockers(held, s, w[1], w[2]) : w \in Wants(s)}]

\* No two transactions of this instance ever wait for each other: entitlement
\* and checkpoint changes take their locks in the scanners' order
\* ("matching the redemption checkpoint-first order", PutEntitlement).
NoDeadlock == ~WaitCycle(Waits)

\* A scan locks the pass before the attendee and Issue, Reissue and Revoke
\* after it, so they can deadlock, and 40P01 is not retried
\* (isRetryableTransactionError).  But only over the very pass that is
\* scanned, and before the scan has judged anything: whoever is refused has
\* lost a race with a change of that pass.
PassDeadlocksOnly ==
  \A S \in SUBSET Sessions :
    (S # {} /\ \A s \in S : Waits[s] \cap S # {} /\ \E t \in S : s \in Waits[t])
      => \A s \in S :
           IF s \in Scanners THEN scan[s].pc = "attendee"
           ELSE \E t \in S \cap Scanners :
                  Wants(s) = {<<PassRow(scan[t].qr), "update">>}

\* lock_timeout (5 s) ends every wait, the deadlock detector every cycle.
Timeout(s) == Waits[s] # {} /\ IF s \in Scanners THEN Abort(s) ELSE AbortJob(s)

\* The server and the database run every open transaction: its next statement
\* proceeds, or its wait is cut off.
Progress(s) ==
  \/ Timeout(s)
  \/ s \in Scanners /\ ScannerStep(s)
  \/ s \in Staff /\ (StaffStep(s) \/ AbortJob(s))

FairSpec == Spec /\ \A s \in Sessions : WF_vars(Progress(s))

\* Every redeem request ends: waits, retries and lost races are all finite.
RequestsEnd == \A s \in Scanners : scan[s].pc # "idle" ~> scan[s].pc = "idle"

===============================================================================
