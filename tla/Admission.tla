------------------------------- MODULE Admission -------------------------------
(***************************************************************************)
(* One application from its submission on: decisions recorded and          *)
(* released, the applicant's RSVP, and the attendee's passes, each a       *)
(* READ COMMITTED transaction of api/internal/decisions, rsvps or passes.  *)
(* Transactions on different applications lock disjoint rows, so one       *)
(* application is the unit of every race here.  Organizers act on ids      *)
(* their page showed them (stale ones included), applicants through        *)
(* browser tabs that remember the response they last saw.                  *)
(***************************************************************************)
EXTENDS Naturals, FiniteSets, RowLocks

CONSTANTS Decisions,   \* rows of ats.decisions that may come to exist
          Passes,      \* rows of ats.passes that may come to exist
          Organizers,  \* sessions of organizers
          Tabs,        \* the applicant's tabs, one session each
          Kinds,       \* the operations this instance lets happen
          MaxVersion,  \* bound on a response's lock_version
          None

AllKinds == {"record", "release", "respond", "issue", "reissue", "revoke"}

ASSUME TabsAssumption == Organizers \cap Tabs = {}
ASSUME OperationsAssumption == Kinds \subseteq AllKinds
ASSUME VersionAssumption == MaxVersion \in Nat
ASSUME NoneAssumption == None \notin Decisions /\ None \notin Passes

VARIABLES
  status,     \* applications.status
  current,    \* applications.current_decision_id
  visible,    \* applications.decision_released_at IS NOT NULL
  decisions,  \* decision -> its row, None before it is inserted
  attendee,   \* the attendees row exists
  responses,  \* decision -> its attendance_responses row or None (pending)
  passes,     \* pass -> its status and replaced_by_pass_id
  outbox,     \* dedupe keys of the emails queued
  audit,      \* event -> how many audit_events rows tell of it
  tab,        \* tab -> the response it last showed
  job,        \* session -> the request its transaction serves, or None
  held        \* session -> the row locks it holds

admission == <<status, current, visible, decisions, attendee>>
vars == <<status, current, visible, decisions, attendee, responses, passes,
          outbox, audit, tab, job, held>>

Sessions == Organizers \cup Tabs
Outcomes == {"accepted", "waitlisted", "rejected"}
Answers == {"confirmed", "declined"}

ApplicationRow == <<"application">>
AttendeeRow == <<"attendee">>
DecisionRow(d) == <<"decision", d>>
PassRow(p) == <<"pass", p>>

Recorded == {d \in Decisions : decisions[d] # None}
Existing == {p \in Passes : passes[p].status # "absent"}
Active == {p \in Passes : passes[p].status = "active"}

\* Accepted and released: the condition every later step of the journey tests,
\* on the application's copy and, where a query joins it, on the decision.
Admitted == status = "accepted" /\ visible
CurrentAccepted == decisions[current].outcome = "accepted" /\ decisions[current].released

\* responseQuery: no row means pending, at version 0.
ResponseStatus(d) == IF responses[d] = None THEN "pending" ELSE responses[d].status
ResponseVersion(d) == IF responses[d] = None THEN 0 ELSE responses[d].version

\* The rows the tables take.
DecisionRows == [outcome : Outcomes, supersedes : Decisions \cup {None}, released : BOOLEAN]
ResponseRows == [status : Answers, version : 1 .. MaxVersion]
PassRows == [status : {"absent", "active", "revoked", "replaced"}, by : Passes \cup {None}]
Emails == ({"decision_release"} \X Decisions) \cup ({"pass_link"} \X Passes)

\* What audit_events rows tell of.
RecordedAudit(d) == <<"decision_recorded", d>>
ReleasedAudit(d) == <<"decision_released", d>>
ResponseAudit(d) == <<"attendance.rsvp_changed", d>>
PassAudit(event, p) == <<event, p>>
AttendeeAudit == <<"attendee_created", ApplicationRow>>
Events == {RecordedAudit(d) : d \in Decisions} \cup {ReleasedAudit(d) : d \in Decisions}
          \cup {ResponseAudit(d) : d \in Decisions} \cup {AttendeeAudit}
          \cup {PassAudit(e, p) : e \in {"pass_issued", "pass_reissued", "pass_revoked"},
                                  p \in Passes}

-------------------------------------------------------------------------------
(* A request runs in three stages: the statement that locks the application *)
(* (with what it is joined to) and the reads under that lock; the locks     *)
(* taken after those reads; the writes and the commit, which use what was   *)
(* read.                                                                    *)

RecordRequests == [kind : {"record"}, outcome : Outcomes]
ReleaseRequests == [kind : {"release"}, decision : Decisions]
ResponseRequests == [kind : {"respond"}, decision : Decisions, status : Answers,
                     version : 0 .. MaxVersion]
IssueRequests == [kind : {"issue"}]
ReissueRequests == [kind : {"reissue"}, pass : Passes]
RevokeRequests == [kind : {"revoke"}, pass : Passes]
Operations == RecordRequests \cup ReleaseRequests \cup ResponseRequests
              \cup IssueRequests \cup ReissueRequests \cup RevokeRequests

\* What the reads of a request found, as far as its kind is interested.
Findings == [prior : Decisions \cup {None}, released : BOOLEAN,
             status : Answers \cup {"pending"}, version : 0 .. MaxVersion]
Nothing == [prior |-> None, released |-> FALSE, status |-> "pending", version |-> 0]

Jobs == [op : Operations, stage : {"lock", "write"}, saw : Findings]

\* What a tab has of a response.
Shown == [decision : Decisions, status : Answers \cup {"pending"},
          version : 0 .. MaxVersion]

ASSUME AbsentAssumption == None \notin DecisionRows \cup ResponseRows \cup Jobs \cup Shown

ForPass(op) == op.kind \in {"issue", "reissue", "revoke"}

\* The rows of each locking statement, in the order of its FOR UPDATE OF.
LockApplicationForDecision == <<ApplicationRow>>
LockCurrentDecisionForRelease(d) == <<DecisionRow(d), ApplicationRow>>
LockAdmittedApplication == <<ApplicationRow>>

\* Faulty: FOR UPDATE OF attendees only.
LockAttendeeOnly == <<AttendeeRow>>

LockAcceptedAttendee == <<AttendeeRow, ApplicationRow>>

\* Faulty: the RSVP reads the application without FOR UPDATE.
FirstLocksRespondReads(op) ==
  CASE op.kind = "record" -> LockApplicationForDecision
    [] op.kind = "release" -> LockCurrentDecisionForRelease(op.decision)
    [] op.kind = "respond" -> <<>>
    [] ForPass(op) -> LockAcceptedAttendee

\* Faulty: Issue's query names the application before the attendee.
FirstLocksIssueReversed(op) ==
  CASE op.kind = "record" -> LockApplicationForDecision
    [] op.kind = "release" -> LockCurrentDecisionForRelease(op.decision)
    [] op.kind = "respond" -> LockAdmittedApplication
    [] op.kind = "issue" -> <<ApplicationRow, AttendeeRow>>
    [] op.kind \in {"reissue", "revoke"} -> LockAcceptedAttendee

FirstLocks(op) ==
  CASE op.kind = "record" -> LockApplicationForDecision
    [] op.kind = "release" -> LockCurrentDecisionForRelease(op.decision)
    [] op.kind = "respond" -> LockAdmittedApplication
    [] ForPass(op) -> LockAcceptedAttendee

\* Locks taken after the reads: lockActivePass, and the KEY SHARE with which
\* the foreign keys of a new decision (supersedes_id) and of a new response
\* (decision_id) hold the row they refer to.
LaterLocks(op, saw) ==
  CASE op.kind = "record" /\ saw.prior # None ->
         {<<DecisionRow(saw.prior), "key_share">>}
    [] op.kind = "respond" /\ saw.version = 0 ->
         {<<DecisionRow(op.decision), "key_share">>}
    [] op.kind \in {"reissue", "revoke"} -> {<<PassRow(op.pass), "update">>}
    [] OTHER -> {}

\* An organizer's request names ids that exist; a tab answers what it shows.
Begin(s) ==
  /\ job[s] = None
  /\ \E op \in Operations :
       /\ op.kind \in Kinds
       /\ op.kind = "respond" <=> s \in Tabs
       /\ op.kind = "release" => op.decision \in Recorded
       /\ op.kind \in {"reissue", "revoke"} => op.pass \in Existing
       /\ op.kind = "respond" =>
            /\ tab[s] # None
            /\ op.decision = tab[s].decision /\ op.version = tab[s].version
       /\ job' = [job EXCEPT ![s] = [op |-> op, stage |-> "lock", saw |-> Nothing]]
  /\ UNCHANGED <<admission, responses, passes, outbox, audit, tab, held>>

\* Faulty: FOR UPDATE dropped everywhere, nobody waits.
AcquireAtOnce(s, row, mode) ==
  held' = [held EXCEPT ![s] = @ \cup {<<row, mode>>}]

Acquire(s, row, mode) ==
  /\ Grantable(held, s, row, mode)
  /\ held' = [held EXCEPT ![s] = @ \cup {<<row, mode>>}]

Missing(s) == {i \in DOMAIN FirstLocks(job[s].op) :
                 <<FirstLocks(job[s].op)[i], "update">> \notin held[s]}

LockRow(s) ==
  /\ job[s] # None /\ job[s].stage = "lock"
  /\ \E i \in Missing(s) :
       /\ \A j \in Missing(s) : i <= j
       /\ Acquire(s, FirstLocks(job[s].op)[i], "update")
  /\ UNCHANGED <<admission, responses, passes, outbox, audit, tab, job>>

\* requireConfirmedRSVP
Confirmed == CurrentAccepted /\ ResponseStatus(current) = "confirmed"

\* Faulty: any recorded decision can be released.
AcceptsStaleRelease(op) ==
  CASE op.kind \in {"record", "release"} -> TRUE
    [] op.kind = "respond" -> Admitted /\ current = op.decision /\ CurrentAccepted
    [] ForPass(op) -> attendee /\ Admitted /\ (op.kind # "revoke" => Confirmed)

\* The WHERE of the locking statement, and the checks right after it.
Accepts(op) ==
  CASE op.kind = "record" -> TRUE
    [] op.kind = "release" -> current = op.decision
    [] op.kind = "respond" -> Admitted /\ current = op.decision /\ CurrentAccepted
    [] ForPass(op) -> attendee /\ Admitted /\ (op.kind # "revoke" => Confirmed)

GetLatestDecisionForApplication == current

\* What the handler reads on under the locks: GetLatestDecisionForApplication,
\* released_at, the stored response.
Seen(op) ==
  CASE op.kind = "record" -> [Nothing EXCEPT !.prior = GetLatestDecisionForApplication]
    [] op.kind = "release" -> [Nothing EXCEPT !.released = decisions[op.decision].released]
    [] op.kind = "respond" -> [Nothing EXCEPT !.status = ResponseStatus(op.decision),
                                              !.version = ResponseVersion(op.decision)]
    [] ForPass(op) -> Nothing

\* The locking statement returns its row.
ReadUnderLock(s) ==
  LET op == job[s].op
  IN  /\ job[s] # None /\ job[s].stage = "lock"
      /\ Missing(s) = {}
      /\ Accepts(op)
      /\ job' = [job EXCEPT ![s] = [op |-> op, stage |-> "write", saw |-> Seen(op)]]
      /\ UNCHANGED <<admission, responses, passes, outbox, audit, tab, held>>

Unlocked(s) == LaterLocks(job[s].op, job[s].saw) \ held[s]

\* lockActivePass wants the pass still active.
LockLater(s) ==
  /\ job[s] # None /\ job[s].stage = "write"
  /\ \E lock \in Unlocked(s) : Acquire(s, lock[1], lock[2])
  /\ ForPass(job[s].op) => passes[job[s].op.pass].status = "active"
  /\ UNCHANGED <<admission, responses, passes, outbox, audit, tab, job>>

Ready(s, kind) ==
  /\ job[s] # None /\ job[s].stage = "write" /\ job[s].op.kind = kind
  /\ Unlocked(s) = {}

Done(s) == /\ job' = [job EXCEPT ![s] = None]
           /\ held' = [held EXCEPT ![s] = {}]

\* ErrNotFound, ErrConflict, ErrRSVPRequired, ErrActivePass, a deadlock, a
\* timeout or a crash: the transaction rolls back.
Refuse(s) ==
  /\ job[s] # None
  /\ Done(s)
  /\ UNCHANGED <<admission, responses, passes, outbox, audit, tab>>

-------------------------------------------------------------------------------
(* What the requests write.                                                *)

Tell(events) ==
  audit' = [e \in Events |-> IF e \in events THEN audit[e] + 1 ELSE audit[e]]

\* ON CONFLICT (dedupe_key) DO NOTHING
Queue(template, row) == outbox' = outbox \cup {<<template, row>>}

InsertDecision(d, outcome, prior) ==
  decisions' = [decisions EXCEPT
                  ![d] = [outcome |-> outcome, supersedes |-> prior, released |-> FALSE]]

\* Faulty: the release of the previous decision stays in the cache.
UpdateApplicationDecisionCacheOnly(d, outcome) ==
  status' = outcome /\ current' = d /\ visible' = visible

UpdateApplicationDecisionCache(d, outcome) ==
  status' = outcome /\ current' = d /\ visible' = FALSE

\* Faulty: every acceptance tells of a new attendee.
AttendeeCreatedAlways(outcome) == outcome = "accepted"

\* UpsertAcceptedAttendee: the row it found was there, or it made it.
AttendeeCreated(outcome) == outcome = "accepted" /\ ~attendee
UpsertAcceptedAttendee(outcome) == attendee' = (attendee \/ outcome = "accepted")

\* The decision is appended, the application's cache follows it and is hidden
\* again, and the first acceptance makes the attendee.  Every status an
\* application has after submission is eligible.
Record(s) ==
  LET outcome == job[s].op.outcome
  IN  /\ Ready(s, "record")
      /\ \E d \in Decisions \ Recorded :
           /\ InsertDecision(d, outcome, job[s].saw.prior)
           /\ UpdateApplicationDecisionCache(d, outcome)
           /\ Tell({RecordedAudit(d)}
                   \cup (IF AttendeeCreated(outcome) THEN {AttendeeAudit} ELSE {}))
      /\ UpsertAcceptedAttendee(outcome)
      /\ Done(s)
      /\ UNCHANGED <<responses, passes, outbox, tab>>

ReleaseDecision(d) == decisions' = [decisions EXCEPT ![d].released = TRUE]
UpdateApplicationDecisionRelease == visible' = TRUE

\* Repeating a release changes nothing; the first one queues one email.
Release(s) ==
  LET d == job[s].op.decision
  IN  /\ Ready(s, "release")
      /\ \/ job[s].saw.released /\ UNCHANGED <<decisions, visible, outbox, audit>>
         \/ /\ ~job[s].saw.released
            /\ ReleaseDecision(d)
            /\ UpdateApplicationDecisionRelease
            /\ Queue("decision_release", d)
            /\ Tell({ReleasedAudit(d)})
      /\ Done(s)
      /\ UNCHANGED <<status, current, attendee, responses, passes, tab>>

\* Faulty: the version the tab was shown is not compared.
MaySaveAnyVersion(op, saw) == saw.status # op.status /\ saw.version < MaxVersion

\* Another choice than the stored one needs the version the tab was shown.
MaySave(op, saw) ==
  /\ saw.status # op.status
  /\ saw.version = op.version
  /\ saw.version < MaxVersion

\* The upsert: a new row has version 1, an old one counts from its own.
Saved(d, choice) == [status |-> choice, version |-> ResponseVersion(d) + 1]

\* The choice already stored is accepted whatever the version.  The answer may
\* not reach the tab.
Respond(s) ==
  LET op == job[s].op
      d == op.decision
      saved == Saved(d, op.status)
      shown(r) == [decision |-> d, status |-> r.status, version |-> r.version]
  IN  /\ Ready(s, "respond")
      /\ \/ /\ job[s].saw.status = op.status
            /\ tab' \in {tab, [tab EXCEPT ![s] = shown(job[s].saw)]}
            /\ UNCHANGED <<responses, audit>>
         \/ /\ MaySave(op, job[s].saw)
            /\ responses' = [responses EXCEPT ![d] = saved]
            /\ Tell({ResponseAudit(d)})
            /\ tab' \in {tab, [tab EXCEPT ![s] = shown(saved)]}
      /\ Done(s)
      /\ UNCHANGED <<admission, passes, outbox>>

NewPass == [status |-> "active", by |-> None]

\* Faulty: no email is queued.
IssueUnannounced(s) ==
  /\ Ready(s, "issue")
  /\ Active = {}
  /\ \E p \in Passes \ Existing :
       /\ passes' = [passes EXCEPT ![p] = NewPass]
       /\ Tell({PassAudit("pass_issued", p)})
  /\ Done(s)
  /\ UNCHANGED <<admission, responses, outbox, tab>>

\* No pass of the attendee may be active; the row FOR UPDATE that says so is
\* behind the attendee's lock, so it never waits for another organizer.
Issue(s) ==
  /\ Ready(s, "issue")
  /\ Active = {}
  /\ \E p \in Passes \ Existing :
       /\ passes' = [passes EXCEPT ![p] = NewPass]
       /\ Tell({PassAudit("pass_issued", p)})
       /\ Queue("pass_link", p)
  /\ Done(s)
  /\ UNCHANGED <<admission, responses, tab>>

\* Faulty: the old pass is left as it is.
ReissueKeepsOld(s) ==
  /\ Ready(s, "reissue")
  /\ \E p \in Passes \ Existing :
       /\ passes' = [passes EXCEPT ![p] = NewPass]
       /\ Tell({PassAudit("pass_reissued", job[s].op.pass)})
       /\ Queue("pass_link", p)
  /\ Done(s)
  /\ UNCHANGED <<admission, responses, tab>>

Reissue(s) ==
  LET old == job[s].op.pass
  IN  /\ Ready(s, "reissue")
      /\ \E p \in Passes \ Existing :
           /\ passes' = [passes EXCEPT
                ![old] = [status |-> "replaced", by |-> p], ![p] = NewPass]
           /\ Queue("pass_link", p)
      /\ Tell({PassAudit("pass_reissued", old)})
      /\ Done(s)
      /\ UNCHANGED <<admission, responses, tab>>

Revoke(s) ==
  /\ Ready(s, "revoke")
  /\ passes' = [passes EXCEPT ![job[s].op.pass] = [status |-> "revoked", by |-> None]]
  /\ Tell({PassAudit("pass_revoked", job[s].op.pass)})
  /\ Done(s)
  /\ UNCHANGED <<admission, responses, outbox, tab>>

\* GET of the RSVP: only the current, released acceptance is shown.
View(t) ==
  /\ job[t] = None
  /\ Admitted /\ CurrentAccepted
  /\ tab' = [tab EXCEPT ![t] = [decision |-> current,
                                status |-> ResponseStatus(current),
                                version |-> ResponseVersion(current)]]
  /\ UNCHANGED <<admission, responses, passes, outbox, audit, job, held>>

Init ==
  /\ status = "submitted" /\ current = None /\ visible = FALSE
  /\ decisions = [d \in Decisions |-> None]
  /\ attendee = FALSE
  /\ responses = [d \in Decisions |-> None]
  /\ passes = [p \in Passes |-> [status |-> "absent", by |-> None]]
  /\ outbox = {}
  /\ audit = [e \in Events |-> 0]
  /\ tab = [t \in Tabs |-> None]
  /\ job = [s \in Sessions |-> None]
  /\ held = [s \in Sessions |-> {}]

Next ==
  \/ \E s \in Sessions :
       \/ Begin(s) \/ LockRow(s) \/ ReadUnderLock(s) \/ LockLater(s)
       \/ Refuse(s)
       \/ Record(s) \/ Release(s) \/ Respond(s)
       \/ Issue(s) \/ Reissue(s) \/ Revoke(s)
  \/ \E t \in Tabs : View(t)

Spec == Init /\ [][Next]_vars

-------------------------------------------------------------------------------
(* Properties.                                                             *)

\* Every column has a value its CHECK constraints allow (migrations 000005,
\* 000006, 000014), every lock is one the plans mention.
TypeOK ==
  /\ status \in Outcomes \cup {"submitted"}
  /\ current \in Decisions \cup {None}
  /\ visible \in BOOLEAN /\ attendee \in BOOLEAN
  /\ decisions \in [Decisions -> DecisionRows \cup {None}]
  /\ responses \in [Decisions -> ResponseRows \cup {None}]
  /\ passes \in [Passes -> PassRows]
  /\ outbox \subseteq Emails
  /\ audit \in [Events -> Nat]
  /\ tab \in [Tabs -> Shown \cup {None}]
  /\ job \in [Sessions -> Jobs \cup {None}]

\* The copy of the decision an application row keeps agrees with the decision:
\* what an applicant is shown never comes from one decision and its release
\* from another (UpdateApplicationDecisionCache, UpdateApplicationDecisionRelease).
CacheCoherent ==
  IF current = None
  THEN status = "submitted" /\ ~visible /\ Recorded = {}
  ELSE /\ current \in Recorded
       /\ status = decisions[current].outcome
       /\ visible = decisions[current].released

\* The decisions form one line of history that ends in the current one: two
\* organizers who decide at once never both supersede the same decision.
HistoryLinear ==
  /\ \A d, e \in Recorded : decisions[d].supersedes = decisions[e].supersedes => d = e
  /\ \A d \in Recorded : decisions[d].supersedes \in Recorded \cup {None}
  /\ \A d \in Recorded :
       d = current <=> \A e \in Recorded : decisions[e].supersedes # d

\* Each release and each pass has its one email, and nothing else has: the
\* write and its outbox row commit together or not at all.
OutboxExact ==
  outbox = {<<"decision_release", d>> : d \in {e \in Recorded : decisions[e].released}}
           \cup {<<"pass_link", p>> : p \in Existing}

\* Every change of the journey has its audit rows, once: a decision and its
\* release, each change of an RSVP (as many as its lock_version counts), a pass
\* and what became of it, and the attendee, whom a second acceptance finds.
AuditExact ==
  /\ \A d \in Decisions :
       /\ audit[RecordedAudit(d)] = IF d \in Recorded THEN 1 ELSE 0
       /\ audit[ReleasedAudit(d)] =
            IF d \in Recorded /\ decisions[d].released THEN 1 ELSE 0
       /\ audit[ResponseAudit(d)] = ResponseVersion(d)
  /\ \A p \in Passes :
       /\ audit[PassAudit("pass_issued", p)] =
            IF p \in Existing /\ \A q \in Passes : passes[q].by # p THEN 1 ELSE 0
       /\ audit[PassAudit("pass_reissued", p)] =
            IF passes[p].status = "replaced" THEN 1 ELSE 0
       /\ audit[PassAudit("pass_revoked", p)] =
            IF passes[p].status = "revoked" THEN 1 ELSE 0
  /\ audit[AttendeeAudit] = IF attendee THEN 1 ELSE 0

\* At most one pass is active, and following replaced_by_pass_id from any
\* replaced pass gives passes that exist, each replacing only one.
PassChain ==
  /\ Cardinality(Active) <= 1
  /\ \A p \in Passes : passes[p].status = "replaced" <=> passes[p].by # None
  /\ \A p \in Existing : passes[p].by # None =>
       passes[p].by \in Existing \ {p}
  /\ \A p, q \in Existing : passes[p].by = passes[q].by /\ passes[p].by # None => p = q

\* What a step that publishes, activates or answers finds.
ReleasesCurrent ==
  \A d \in Decisions :
    LET was == d \in Recorded /\ decisions[d].released
    IN  (~was /\ decisions'[d] # None /\ decisions'[d].released)
          => current = d /\ current' = d

ActivatesConfirmed ==
  \A p \in Passes :
    (passes[p].status # "active" /\ passes'[p].status = "active") =>
      /\ attendee /\ status = "accepted" /\ visible
      /\ ResponseStatus(current) = "confirmed"

AnswersShown ==
  \A d \in Decisions :
    responses'[d] # responses[d] =>
      \E t \in Tabs : /\ job[t] # None /\ tab[t] # None
                      /\ tab[t].decision = d
                      /\ tab[t].status = ResponseStatus(d)

AnswersCurrent ==
  \A d \in Decisions : responses'[d] # responses[d] => current = d /\ Admitted

\* A decision that was superseded before its release is never released: a
\* stale organizer page cannot publish it.
ReleaseOnlyCurrent == [][ReleasesCurrent]_vars

\* A pass becomes active only for an attendee whose current, released
\* acceptance is confirmed at that instant, however long the organizer waited
\* for the locks ("preventing a concurrent decline from being ignored by a
\* waiting issuer", docs/PRODUCT_LIFECYCLE.md:170).
PassNeedsConfirmation == [][ActivatesConfirmed]_vars

\* A tab only ever replaces the choice it was showing: another tab's later
\* choice is not overwritten, not even after confirm, decline, confirm.
NoBlindOverwrite == [][AnswersShown]_vars

\* A response belongs to a decision that was current when it was given: what a
\* tab shows of an earlier acceptance never answers a later one.
ResponsesToCurrent == [][AnswersCurrent]_vars

\* Every change of the journey is one that Journey allows at the instant of its
\* commit: judged by the decision in force and the response stored then, though
\* the transactions read the application's copy, before they waited, on behalf
\* of pages that show something older (decisions, rsvps, passes).
Promised == INSTANCE Journey
JourneySpec == Promised!Spec

-------------------------------------------------------------------------------
(* Why they hold.                                                          *)

AppLock == <<ApplicationRow, "update">>
Writing(s) == job[s] # None /\ job[s].stage = "write"

\* One transaction at a time has the application locked.
OneHolder ==
  /\ DOMAIN held = Sessions
  /\ \A s, u \in Sessions : AppLock \in held[s] /\ AppLock \in held[u] => s = u

\* A request that is past its locks has the application's, and everything it
\* read and compared before it waited for later locks it would read again.
ReadsStand ==
  \A s \in Sessions : Writing(s) =>
    AppLock \in held[s] /\ Accepts(job[s].op) /\ job[s].saw = Seen(job[s].op)

\* lockActivePass comes last, and the pass it found active stays so.
PassLocks ==
  \A s \in Sessions, p \in Passes : <<PassRow(p), "update">> \in held[s] =>
    /\ Writing(s)
    /\ job[s].op.kind \in {"reissue", "revoke"} /\ job[s].op.pass = p
         => passes[p].status = "active"

OneActive == \A p, q \in Active : p = q

\* A tab shows the stored response or an earlier one, and answers what it shows.
TabsStand ==
  /\ \A t \in Tabs : tab[t] # None =>
       LET d == tab[t].decision
       IN  /\ tab[t].version <= ResponseVersion(d)
           /\ tab[t].version = ResponseVersion(d) => tab[t].status = ResponseStatus(d)
  /\ \A s \in Sessions : (job[s] # None /\ job[s].op.kind = "respond") =>
       /\ s \in Tabs /\ tab[s] # None
       /\ tab[s].decision = job[s].op.decision /\ tab[s].version = job[s].op.version

\* The inductive invariant: every write happens behind the application's row,
\* so what its transaction read is still what the tables say.
IInv ==
  /\ TypeOK /\ OneHolder /\ ReadsStand /\ PassLocks /\ OneActive /\ TabsStand
  /\ CacheCoherent /\ HistoryLinear /\ OutboxExact /\ AuditExact /\ PassChain

-------------------------------------------------------------------------------
(* Waiting.                                                                *)

\* What a session that waits is waiting for.
Wants(s) ==
  IF job[s] = None THEN {}
  ELSE IF job[s].stage = "write" THEN Unlocked(s)
  ELSE {<<FirstLocks(job[s].op)[i], "update">> :
          i \in {k \in Missing(s) : \A j \in Missing(s) : k <= j}}
Waits == [s \in Sessions |->
            UNION {Blockers(held, s, w[1], w[2]) : w \in Wants(s)}]

\* Release locks the decision before the application; Record and Respond have
\* the application and then need the decision for a foreign key, so these can
\* deadlock, over the decision in force.  Nothing else can: passes lock the
\* attendee first, and what a new decision does to an attendee who exists
\* waits for nobody (UpsertAcceptedAttendee, DO NOTHING).
ReleaseDeadlocksOnly ==
  \A S \in SUBSET Sessions :
    (S # {} /\ \A s \in S : Waits[s] \cap S # {} /\ \E t \in S : s \in Waits[t])
      => \A s \in S :
           \/ job[s].op.kind = "release" /\ Wants(s) = {AppLock}
           \/ /\ job[s].op.kind \in {"record", "respond"}
              /\ Wants(s) = {<<DecisionRow(current), "key_share">>}

===============================================================================
