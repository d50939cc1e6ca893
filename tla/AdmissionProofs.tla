---------------------------- MODULE AdmissionProofs ----------------------------
(***************************************************************************)
(* Theorems about Admission, for any number of organizers, tabs, decisions *)
(* and passes: whoever writes has the application's row locked, so what a  *)
(* transaction compared before it waited is what the tables still say when *)
(* it writes, and the journey's tables, emails and audit rows agree.       *)
(***************************************************************************)
EXTENDS Admission, FiniteSetTheorems, TLAPS

tables == <<admission, responses, passes, outbox, audit>>
JobsTyped == job \in [Sessions -> Jobs \cup {None}]

\* The tab that asked is the tab that is answered.
AskedByTab ==
  \A s \in Sessions : (job[s] # None /\ job[s].op.kind = "respond") =>
    /\ s \in Tabs /\ tab[s] # None
    /\ tab[s].decision = job[s].op.decision /\ tab[s].version = job[s].op.version

ShownStand ==
  \A t \in Tabs : tab[t] # None =>
    LET d == tab[t].decision
    IN  /\ tab[t].version <= ResponseVersion(d)
        /\ tab[t].version = ResponseVersion(d) => tab[t].status = ResponseStatus(d)

-------------------------------------------------------------------------------
(* What the small operators do.                                            *)

LEMMA NoneIsNothing ==
  None \notin DecisionRows /\ None \notin ResponseRows /\ None \notin Jobs /\ None \notin Shown
BY AbsentAssumption

LEMMA TabsSplit == TabsStand <=> ShownStand /\ AskedByTab
BY DEF TabsStand, ShownStand, AskedByTab

\* Which fields a request has.
LEMMA OperationTypes ==
  ASSUME NEW op \in Operations
  PROVE  /\ op.kind \in AllKinds
         /\ op.kind = "record" => op.outcome \in Outcomes
         /\ op.kind = "release" => op.decision \in Decisions
         /\ op.kind = "respond" => /\ op.decision \in Decisions /\ op.status \in Answers
                                   /\ op.version \in 0 .. MaxVersion
         /\ op.kind \in {"reissue", "revoke"} => op.pass \in Passes
BY DEF Operations, RecordRequests, ReleaseRequests, ResponseRequests, IssueRequests,
       ReissueRequests, RevokeRequests, AllKinds

\* Every plan has the application's row, and no plan a pass.
LEMMA FirstLocksHold ==
  ASSUME NEW op \in Operations
  PROVE  /\ \E i \in DOMAIN FirstLocks(op) : FirstLocks(op)[i] = ApplicationRow
         /\ \A i \in DOMAIN FirstLocks(op), p \in Passes : FirstLocks(op)[i] # PassRow(p)
<1>1. op.kind \in AllKinds
  BY OperationTypes
<1>2. CASE op.kind \in {"record", "respond"}
  <2>1. FirstLocks(op) = <<ApplicationRow>>
    BY <1>2 DEF FirstLocks, LockApplicationForDecision, LockAdmittedApplication, ForPass
  <2> QED
    BY <2>1 DEF ApplicationRow, PassRow
<1>3. CASE op.kind = "release"
  <2>1. FirstLocks(op) = <<DecisionRow(op.decision), ApplicationRow>>
    BY <1>3 DEF FirstLocks, LockCurrentDecisionForRelease, ForPass
  <2> QED
    BY <2>1 DEF ApplicationRow, PassRow, DecisionRow
<1>4. CASE ForPass(op)
  <2>1. FirstLocks(op) = <<AttendeeRow, ApplicationRow>>
    BY <1>4 DEF FirstLocks, LockAcceptedAttendee, ForPass
  <2> QED
    BY <2>1 DEF ApplicationRow, PassRow, AttendeeRow
<1> QED
  BY <1>1, <1>2, <1>3, <1>4 DEF AllKinds, ForPass

\* A request that misses no lock of its first statement has the application.
LEMMA AppLocked ==
  ASSUME NEW s \in Sessions, job[s] \in Jobs, Missing(s) = {}
  PROVE  AppLock \in held[s]
<1>1. job[s].op \in Operations
  BY DEF Jobs
<1>2. PICK i \in DOMAIN FirstLocks(job[s].op) : FirstLocks(job[s].op)[i] = ApplicationRow
  BY <1>1, FirstLocksHold
<1> QED
  BY <1>2 DEF Missing, AppLock

\* What a request sees, while it may go on.
LEMMA SeenTypes ==
  ASSUME TypeOK, CacheCoherent, NEW op \in Operations, Accepts(op)
  PROVE  /\ Seen(op) \in Findings
         /\ op.kind = "record" => Seen(op).prior = current
         /\ op.kind = "release" => Seen(op).released = decisions[op.decision].released
         /\ op.kind = "respond" => /\ Seen(op).status = ResponseStatus(op.decision)
                                   /\ Seen(op).version = ResponseVersion(op.decision)
<1>1. op.kind \in AllKinds
  BY OperationTypes
<1>2. CASE op.kind = "record"
  <2>1. Seen(op) = [Nothing EXCEPT !.prior = current]
    BY <1>2 DEF Seen, GetLatestDecisionForApplication, ForPass
  <2>2. current \in Decisions \cup {None}
    BY DEF TypeOK
  <2>3. Seen(op) = [prior |-> current, released |-> FALSE, status |-> "pending", version |-> 0]
    BY <2>1 DEF Nothing
  <2>4. Seen(op) \in Findings
    BY <2>2, <2>3, VersionAssumption DEF Findings
  <2> QED
    BY <1>2, <2>3, <2>4
<1>3. CASE op.kind = "release"
  <2>1. Seen(op) = [Nothing EXCEPT !.released = decisions[op.decision].released]
    BY <1>3 DEF Seen, ForPass
  <2>2. current = op.decision /\ op.decision \in Decisions
    BY <1>3, OperationTypes DEF Accepts, ForPass
  <2>3. decisions[op.decision] \in DecisionRows
    BY <2>2, NoneAssumption DEF CacheCoherent, Recorded, TypeOK
  <2>4. decisions[op.decision].released \in BOOLEAN
    BY <2>3 DEF DecisionRows
  <2> QED
    BY <1>3, <2>1, <2>4, VersionAssumption DEF Nothing, Findings
<1>4. CASE op.kind = "respond"
  <2> DEFINE d == op.decision
  <2>1. Seen(op) = [Nothing EXCEPT !.status = ResponseStatus(d), !.version = ResponseVersion(d)]
    BY <1>4 DEF Seen, ForPass
  <2>2. d \in Decisions /\ responses[d] \in ResponseRows \cup {None}
    BY <1>4, OperationTypes DEF TypeOK
  <2>3. /\ ResponseStatus(d) \in Answers \cup {"pending"}
        /\ ResponseVersion(d) \in 0 .. MaxVersion
    BY <2>2, VersionAssumption DEF ResponseStatus, ResponseVersion, ResponseRows
  <2> QED
    BY <1>4, <2>1, <2>3 DEF Nothing, Findings
<1>5. CASE ForPass(op)
  <2>1. Seen(op) = Nothing
    BY <1>5 DEF Seen, ForPass
  <2>2. Nothing \in Findings
    BY VersionAssumption DEF Nothing, Findings
  <2> QED
    BY <1>5, <2>1, <2>2 DEF ForPass
<1> QED
  BY <1>1, <1>2, <1>3, <1>4, <1>5 DEF AllKinds, ForPass

-------------------------------------------------------------------------------
(* Steps that change no table.                                             *)

\* One session's request and locks change, and nothing else.
LEMMA QuietKeeps ==
  ASSUME IInv, UNCHANGED <<tables, tab>>, NEW s \in Sessions,
         JobsTyped', OneHolder',
         \A u \in Sessions \ {s} : job'[u] = job[u] /\ held'[u] = held[u],
         Writing(s)' => /\ AppLock \in held'[s]
                        /\ Accepts(job'[s].op) /\ job'[s].saw = Seen(job'[s].op),
         \A p \in Passes : <<PassRow(p), "update">> \in held'[s] =>
           /\ Writing(s)'
           /\ job'[s].op.kind \in {"reissue", "revoke"} /\ job'[s].op.pass = p
                => passes[p].status = "active",
         (job'[s] # None /\ job'[s].op.kind = "respond") =>
           /\ s \in Tabs /\ tab[s] # None
           /\ tab[s].decision = job'[s].op.decision /\ tab[s].version = job'[s].op.version
  PROVE  IInv'
<1>1. TypeOK'
  BY DEF IInv, TypeOK, JobsTyped, tables, admission
<1>2. ReadsStand'
  <2> SUFFICES ASSUME NEW u \in Sessions, Writing(u)'
               PROVE  AppLock \in held'[u] /\ Accepts(job[u].op)' /\ job'[u].saw = Seen(job[u].op)'
    BY DEF ReadsStand
  <2>1. job'[u] \in Jobs
    BY DEF Writing, JobsTyped
  <2>2. job'[u].op \in Operations
    BY <2>1 DEF Jobs
  <2>3. AppLock \in held'[u] /\ Accepts(job'[u].op) /\ job'[u].saw = Seen(job'[u].op)
    <3>1. CASE u = s
      BY <3>1
    <3>2. CASE u # s
      BY <3>2 DEF IInv, ReadsStand, Writing
    <3> QED
      BY <3>1, <3>2
  <2> DEFINE op == job'[u].op
  <2>4. (Accepts(job[u].op)' <=> Accepts(op)) /\ Seen(job[u].op)' = Seen(op)
    BY <2>2 DEF tables, admission, Accepts, Seen, Admitted, CurrentAccepted, Confirmed,
       ResponseStatus, ResponseVersion, GetLatestDecisionForApplication
  <2> QED
    BY <2>3, <2>4
<1>3. PassLocks'
  BY DEF IInv, PassLocks, Writing, tables
<1>4. TabsStand'
  BY DEF IInv, TabsStand, ResponseVersion, ResponseStatus, tables
<1>5. OneActive' /\ CacheCoherent' /\ HistoryLinear' /\ OutboxExact' /\ AuditExact' /\ PassChain'
  BY DEF IInv, OneActive, CacheCoherent, HistoryLinear, OutboxExact, AuditExact, PassChain,
     Recorded, Existing, Active, ResponseVersion, tables, admission
<1> QED
  BY <1>1, <1>2, <1>3, <1>4, <1>5 DEF IInv

\* A request that ends has no locks left, and takes nobody else's away.
LEMMA DoneChanges ==
  ASSUME JobsTyped, OneHolder, NEW s \in Sessions, Done(s)
  PROVE  /\ JobsTyped' /\ OneHolder'
         /\ job'[s] = None /\ held'[s] = {}
         /\ \A u \in Sessions \ {s} : job'[u] = job[u] /\ held'[u] = held[u]
BY DEF JobsTyped, OneHolder, Done

LEMMA AcquireChanges ==
  ASSUME OneHolder, NEW s \in Sessions, NEW row, NEW mode, Acquire(s, row, mode)
  PROVE  /\ OneHolder'
         /\ held'[s] = held[s] \cup {<<row, mode>>}
         /\ \A u \in Sessions \ {s} : held'[u] = held[u]
<1>1. /\ held'[s] = held[s] \cup {<<row, mode>>} /\ DOMAIN held' = Sessions
      /\ \A u \in Sessions \ {s} : held'[u] = held[u]
  BY DEF OneHolder, Acquire
<1>2. <<row, mode>> = AppLock => \A u \in Sessions \ {s} : AppLock \notin held[u]
  <2> SUFFICES ASSUME <<row, mode>> = AppLock, NEW u \in Sessions \ {s}, AppLock \in held[u]
               PROVE  FALSE
    OBVIOUS
  <2>1. row = ApplicationRow /\ mode = "update"
    BY DEF AppLock
  <2>2. ~Compatible("update", "update") /\ "update" \in Modes
    BY DEF Compatible, Modes
  <2>3. u \in Blockers(held, s, row, mode)
    BY <2>1, <2>2 DEF Blockers, OneHolder, AppLock
  <2> QED
    BY <2>3 DEF Acquire, Grantable
<1>3. OneHolder'
  <2> SUFFICES ASSUME NEW u \in Sessions, NEW v \in Sessions,
                      AppLock \in held'[u], AppLock \in held'[v]
               PROVE  u = v
    BY <1>1 DEF OneHolder
  <2> QED
    BY <1>1, <1>2 DEF OneHolder
<1> QED
  BY <1>1, <1>3

LEMMA BeginKeeps ==
  ASSUME IInv, NEW s \in Sessions, Begin(s)
  PROVE  IInv'
<1>1. PICK op \in Operations :
        /\ op.kind = "respond" <=> s \in Tabs
        /\ op.kind = "respond" => /\ tab[s] # None
                                  /\ op.decision = tab[s].decision
                                  /\ op.version = tab[s].version
        /\ job' = [job EXCEPT ![s] = [op |-> op, stage |-> "lock", saw |-> Nothing]]
  BY DEF Begin
<1>2. UNCHANGED <<tables, tab>> /\ held' = held /\ job[s] = None
  BY DEF Begin, tables
<1> DEFINE new == [op |-> op, stage |-> "lock", saw |-> Nothing]
<1>3. new \in Jobs /\ new # None
  <2>1. Nothing \in Findings
    BY VersionAssumption DEF Nothing, Findings
  <2> QED
    BY <2>1, NoneIsNothing DEF Jobs
<1>4. /\ JobsTyped' /\ job'[s] = new
      /\ \A u \in Sessions \ {s} : job'[u] = job[u]
  BY <1>1, <1>3 DEF JobsTyped, IInv, TypeOK
<1>5. OneHolder' /\ ~Writing(s)'
  BY <1>2, <1>4 DEF IInv, OneHolder, Writing
<1>6. \A p \in Passes : <<PassRow(p), "update">> \notin held'[s]
  BY <1>2 DEF IInv, PassLocks, Writing
<1> QED
  BY <1>1, <1>2, <1>4, <1>5, <1>6, QuietKeeps

LEMMA LockRowKeeps ==
  ASSUME IInv, NEW s \in Sessions, LockRow(s)
  PROVE  IInv'
<1>1. PICK i \in Missing(s) : Acquire(s, FirstLocks(job[s].op)[i], "update")
  BY DEF LockRow
<1>2. /\ UNCHANGED <<tables, tab>> /\ job' = job
      /\ job[s] # None /\ job[s].stage = "lock"
  BY DEF LockRow, tables
<1> DEFINE row == FirstLocks(job[s].op)[i]
<1>3. /\ OneHolder' /\ held'[s] = held[s] \cup {<<row, "update">>}
      /\ \A u \in Sessions \ {s} : held'[u] = held[u]
  BY <1>1, AcquireChanges DEF IInv
<1>4. JobsTyped' /\ ~Writing(s)' /\ ~Writing(s)
  BY <1>2 DEF IInv, TypeOK, JobsTyped, Writing
<1>5. \A p \in Passes : <<PassRow(p), "update">> \notin held'[s]
  <2>1. job[s].op \in Operations
    BY <1>2 DEF IInv, TypeOK, Jobs
  <2>2. \A p \in Passes : row # PassRow(p)
    BY <2>1, FirstLocksHold DEF Missing
  <2>3. \A p \in Passes : <<PassRow(p), "update">> \notin held[s]
    BY <1>4 DEF IInv, PassLocks
  <2> QED
    BY <1>3, <2>2, <2>3
<1>6. AskedByTab
  BY TabsSplit DEF IInv
<1> QED
  BY <1>2, <1>3, <1>4, <1>5, <1>6, QuietKeeps DEF AskedByTab

LEMMA ReadUnderLockKeeps ==
  ASSUME IInv, NEW s \in Sessions, ReadUnderLock(s)
  PROVE  IInv'
<1> DEFINE op == job[s].op
           new == [op |-> op, stage |-> "write", saw |-> Seen(op)]
<1>1. /\ job[s] # None /\ job[s].stage = "lock" /\ job[s] \in Jobs
      /\ Missing(s) = {} /\ Accepts(op)
      /\ job' = [job EXCEPT ![s] = new]
      /\ UNCHANGED <<tables, tab>> /\ held' = held
  BY DEF ReadUnderLock, tables, IInv, TypeOK
<1>2. op \in Operations
  BY <1>1 DEF Jobs
<1>3. Seen(op) \in Findings
  BY <1>1, <1>2, SeenTypes DEF IInv
<1>4. new \in Jobs /\ new # None
  BY <1>2, <1>3, NoneIsNothing DEF Jobs
<1>5. /\ JobsTyped' /\ job'[s] = new
      /\ \A u \in Sessions \ {s} : job'[u] = job[u]
  BY <1>1, <1>4 DEF JobsTyped, IInv, TypeOK
<1>6. new.op = op /\ new.saw = Seen(op)
  OBVIOUS
<1> HIDE DEF new
<1>7. OneHolder'
  BY <1>1 DEF IInv, OneHolder
<1>8. AppLock \in held'[s]
  BY <1>1, AppLocked
<1>9. \A p \in Passes : <<PassRow(p), "update">> \notin held'[s]
  BY <1>1 DEF IInv, PassLocks, Writing
<1>10. AskedByTab
  BY TabsSplit DEF IInv
<1> QED
  BY <1>1, <1>5, <1>6, <1>7, <1>8, <1>9, <1>10, QuietKeeps DEF AskedByTab

LEMMA LockLaterKeeps ==
  ASSUME IInv, NEW s \in Sessions, LockLater(s)
  PROVE  IInv'
<1>1. PICK lock \in Unlocked(s) : Acquire(s, lock[1], lock[2])
  BY DEF LockLater
<1>2. /\ UNCHANGED <<tables, tab>> /\ job' = job /\ Writing(s) /\ Writing(s)'
      /\ ForPass(job[s].op) => passes[job[s].op.pass].status = "active"
  BY DEF LockLater, tables, Writing
<1>3. /\ OneHolder' /\ held'[s] = held[s] \cup {<<lock[1], lock[2]>>}
      /\ \A u \in Sessions \ {s} : held'[u] = held[u]
  BY <1>1, AcquireChanges DEF IInv
<1>4. JobsTyped'
  BY <1>2 DEF IInv, TypeOK, JobsTyped
<1>5. AppLock \in held'[s] /\ Accepts(job'[s].op) /\ job'[s].saw = Seen(job'[s].op)
  BY <1>2, <1>3 DEF IInv, ReadsStand
<1>6. \A p \in Passes : job'[s].op.kind \in {"reissue", "revoke"} /\ job'[s].op.pass = p
                        => passes[p].status = "active"
  BY <1>2 DEF ForPass
<1>7. AskedByTab
  BY TabsSplit DEF IInv
<1> QED
  BY <1>2, <1>3, <1>4, <1>5, <1>6, <1>7, QuietKeeps DEF AskedByTab

LEMMA RefuseKeeps ==
  ASSUME IInv, NEW s \in Sessions, Refuse(s)
  PROVE  IInv'
<1>1. /\ JobsTyped' /\ OneHolder' /\ job'[s] = None /\ held'[s] = {}
      /\ \A u \in Sessions \ {s} : job'[u] = job[u] /\ held'[u] = held[u]
  BY DoneChanges DEF Refuse, IInv, TypeOK, JobsTyped
<1>2. UNCHANGED <<tables, tab>>
  BY DEF Refuse, tables
<1>3. ~Writing(s)'
  BY <1>1 DEF Writing
<1> QED
  BY <1>1, <1>2, <1>3, QuietKeeps

-------------------------------------------------------------------------------
(* Steps that write.                                                       *)

TablesTyped ==
  /\ status \in Outcomes \cup {"submitted"}
  /\ current \in Decisions \cup {None}
  /\ visible \in BOOLEAN /\ attendee \in BOOLEAN
  /\ decisions \in [Decisions -> DecisionRows \cup {None}]
  /\ responses \in [Decisions -> ResponseRows \cup {None}]
  /\ passes \in [Passes -> PassRows]
  /\ outbox \subseteq Emails
  /\ audit \in [Events -> Nat]

DecisionAudited(d) ==
  /\ audit[RecordedAudit(d)] = IF d \in Recorded THEN 1 ELSE 0
  /\ audit[ReleasedAudit(d)] = IF d \in Recorded /\ decisions[d].released THEN 1 ELSE 0

ResponseAudited(d) == audit[ResponseAudit(d)] = ResponseVersion(d)

PassAudited(p) ==
  /\ audit[PassAudit("pass_issued", p)] =
       IF p \in Existing /\ \A q \in Passes : passes[q].by # p THEN 1 ELSE 0
  /\ audit[PassAudit("pass_reissued", p)] = IF passes[p].status = "replaced" THEN 1 ELSE 0
  /\ audit[PassAudit("pass_revoked", p)] = IF passes[p].status = "revoked" THEN 1 ELSE 0

AttendeeAudited == audit[AttendeeAudit] = IF attendee THEN 1 ELSE 0

LEMMA AuditSplit ==
  AuditExact <=> /\ \A d \in Decisions : DecisionAudited(d) /\ ResponseAudited(d)
                 /\ \A p \in Passes : PassAudited(p)
                 /\ AttendeeAudited
BY DEF AuditExact, DecisionAudited, ResponseAudited, PassAudited, AttendeeAudited

\* Tell adds one row for each event, and no other.
LEMMA TellChanges ==
  ASSUME audit \in [Events -> Nat], NEW events \in SUBSET Events, Tell(events)
  PROVE  /\ audit' \in [Events -> Nat]
         /\ \A e \in Events : audit'[e] = IF e \in events THEN audit[e] + 1 ELSE audit[e]
BY DEF Tell

\* Whoever writes is the only one to have the application, and writes alone.
LEMMA Alone ==
  ASSUME IInv, NEW s \in Sessions, Writing(s)
  PROVE  \A u \in Sessions \ {s} : ~Writing(u)
BY DEF IInv, ReadsStand, OneHolder

\* A commit leaves no half of a request behind.
LEMMA WriteKeeps ==
  ASSUME IInv, NEW s \in Sessions, Writing(s), Done(s),
         TablesTyped', tab' \in [Tabs -> Shown \cup {None}], ShownStand',
         \A t \in Tabs \ {s} : tab'[t] = tab[t],
         OneActive', CacheCoherent', HistoryLinear', OutboxExact', AuditExact', PassChain'
  PROVE  IInv'
<1>1. /\ JobsTyped' /\ OneHolder' /\ job'[s] = None /\ held'[s] = {}
      /\ \A u \in Sessions \ {s} : job'[u] = job[u] /\ held'[u] = held[u]
  BY DoneChanges DEF IInv, TypeOK, JobsTyped
<1>2. TypeOK'
  BY <1>1 DEF TypeOK, TablesTyped, JobsTyped
<1>3. \A u \in Sessions : ~Writing(u)'
  BY <1>1, Alone DEF Writing
<1>4. ReadsStand'
  BY <1>3 DEF ReadsStand
<1>5. PassLocks'
  <2> SUFFICES ASSUME NEW u \in Sessions, NEW p \in Passes, <<PassRow(p), "update">> \in held'[u]
               PROVE  FALSE
    BY DEF PassLocks
  <2>1. u # s /\ <<PassRow(p), "update">> \in held[u]
    BY <1>1
  <2> QED
    BY <2>1, Alone DEF IInv, PassLocks
<1>6. AskedByTab'
  <2>1. AskedByTab
    BY TabsSplit DEF IInv
  <2> QED
    BY <1>1, <2>1 DEF AskedByTab
<1>7. TabsStand'
  BY <1>6 DEF TabsStand, ShownStand, AskedByTab
<1> QED
  BY <1>1, <1>2, <1>4, <1>5, <1>7 DEF IInv

LEMMA RecordKeeps ==
  ASSUME IInv, NEW s \in Sessions, Record(s)
  PROVE  IInv'
<1> DEFINE outcome == job[s].op.outcome
           new(d) == [outcome |-> outcome, supersedes |-> current, released |-> FALSE]
<1>1. /\ Writing(s) /\ job[s].op.kind = "record" /\ Done(s)
      /\ job[s] \in Jobs
  BY DEF Record, Ready, Writing, IInv, TypeOK
<1>2. job[s].op \in Operations /\ outcome \in Outcomes
  BY <1>1, OperationTypes DEF Jobs
<1>3. job[s].saw.prior = current
  BY <1>1, <1>2, SeenTypes DEF IInv, ReadsStand
<1>4. PICK d \in Decisions \ Recorded :
        /\ InsertDecision(d, outcome, job[s].saw.prior)
        /\ UpdateApplicationDecisionCache(d, outcome)
        /\ Tell({RecordedAudit(d)}
                \cup (IF AttendeeCreated(outcome) THEN {AttendeeAudit} ELSE {}))
  BY DEF Record
<1> DEFINE row == [outcome |-> outcome, supersedes |-> current, released |-> FALSE]
           events == {RecordedAudit(d)} \cup (IF AttendeeCreated(outcome) THEN {AttendeeAudit} ELSE {})
<1>5. /\ decisions' = [decisions EXCEPT ![d] = row]
      /\ status' = outcome /\ current' = d /\ visible' = FALSE
      /\ attendee' = (attendee \/ outcome = "accepted")
      /\ UNCHANGED <<responses, passes, outbox, tab>>
  BY <1>3, <1>4
  DEF Record, InsertDecision, UpdateApplicationDecisionCache, UpsertAcceptedAttendee
<1>6. row \in DecisionRows /\ row # None
  <2>1. current \in Decisions \cup {None}
    BY DEF IInv, TypeOK
  <2>2. row \in DecisionRows
    BY <1>2, <2>1 DEF DecisionRows
  <2> QED
    BY <2>2, NoneIsNothing
<1>7. row.outcome = outcome /\ row.supersedes = current /\ row.released = FALSE
  OBVIOUS
<1> HIDE DEF row
<1>8. /\ decisions' \in [Decisions -> DecisionRows \cup {None}]
      /\ decisions'[d] = row
      /\ \A e \in Decisions \ {d} : decisions'[e] = decisions[e]
  BY <1>5, <1>6 DEF IInv, TypeOK
<1>9. Recorded' = Recorded \cup {d} /\ d \notin Recorded
  BY <1>6, <1>8 DEF Recorded
<1>10. events \in SUBSET Events
  BY DEF Events
<1>11. /\ audit' \in [Events -> Nat]
       /\ \A e \in Events : audit'[e] = IF e \in events THEN audit[e] + 1 ELSE audit[e]
  BY <1>4, <1>10, TellChanges DEF IInv, TypeOK
<1>12. TablesTyped'
  BY <1>2, <1>5, <1>8, <1>11 DEF TablesTyped, IInv, TypeOK
<1>13. CacheCoherent'
  BY <1>5, <1>7, <1>8, <1>9, NoneAssumption DEF CacheCoherent
<1>14. HistoryLinear'
  <2>1. \A e \in Recorded : decisions[e].supersedes # current
    BY NoneAssumption DEF IInv, HistoryLinear, CacheCoherent
  <2>2. current \in Recorded \cup {None}
    BY DEF IInv, CacheCoherent
  <2>3. \A e \in Recorded : decisions'[e] = decisions[e] /\ e # d
    BY <1>8, <1>9 DEF Recorded
  <2>4. \A e, f \in Recorded' : decisions'[e].supersedes = decisions'[f].supersedes => e = f
    BY <1>7, <1>8, <1>9, <2>1, <2>3 DEF IInv, HistoryLinear
  <2>5. \A e \in Recorded' : decisions'[e].supersedes \in Recorded' \cup {None}
    BY <1>7, <1>8, <1>9, <2>2, <2>3 DEF IInv, HistoryLinear
  <2>6. \A e \in Recorded' : e = current' <=> \A f \in Recorded' : decisions'[f].supersedes # e
    <3>1. \A f \in Recorded' : decisions'[f].supersedes # d
      BY <1>7, <1>8, <1>9, <2>2, <2>3, NoneAssumption DEF IInv, HistoryLinear
    <3>2. ASSUME NEW e \in Recorded PROVE \E f \in Recorded' : decisions'[f].supersedes = e
      <4>1. CASE e = current
        BY <1>7, <1>8, <1>9, <4>1
      <4>2. CASE e # current
        BY <1>9, <2>3, <4>2 DEF IInv, HistoryLinear
      <4> QED
        BY <4>1, <4>2
    <3> QED
      BY <1>5, <1>9, <3>1, <3>2
  <2> QED
    BY <2>4, <2>5, <2>6 DEF HistoryLinear
<1>15. OutboxExact'
  <2>1. {e \in Recorded' : decisions'[e].released} = {e \in Recorded : decisions[e].released}
    BY <1>7, <1>8, <1>9 DEF Recorded
  <2>2. Existing' = Existing
    BY <1>5 DEF Existing
  <2> QED
    BY <1>5, <2>1, <2>2 DEF IInv, OutboxExact
<1>16. AuditExact'
  <2>1. AuditExact
    BY DEF IInv
  <2>2. ASSUME NEW e \in Decisions PROVE DecisionAudited(e)' /\ ResponseAudited(e)'
    <3>1. /\ RecordedAudit(e) \in Events /\ ReleasedAudit(e) \in Events
          /\ ResponseAudit(e) \in Events
      BY DEF Events
    <3>2. /\ RecordedAudit(e) \in events <=> e = d
          /\ ReleasedAudit(e) \notin events /\ ResponseAudit(e) \notin events
      BY DEF RecordedAudit, ReleasedAudit, ResponseAudit, AttendeeAudit
    <3>3. DecisionAudited(e) /\ ResponseAudited(e)
      BY <2>1, AuditSplit
    <3> HIDE DEF events
    <3>4. ResponseAudited(e)'
      BY <1>5, <1>11, <3>1, <3>2, <3>3 DEF ResponseAudited, ResponseVersion
    <3>5. CASE e = d
      <4>1. audit'[RecordedAudit(e)] = audit[RecordedAudit(e)] + 1
        BY <1>11, <3>1, <3>2, <3>5
      <4>2. audit'[ReleasedAudit(e)] = audit[ReleasedAudit(e)]
        BY <1>11, <3>1, <3>2
      <4> QED
        BY <1>7, <1>8, <1>9, <3>3, <3>4, <3>5, <4>1, <4>2 DEF DecisionAudited
    <3>6. CASE e # d
      BY <1>8, <1>9, <1>11, <3>1, <3>2, <3>3, <3>4, <3>6 DEF DecisionAudited
    <3> QED
      BY <3>5, <3>6
  <2>3. ASSUME NEW p \in Passes PROVE PassAudited(p)'
    <3>1. \A k \in {"pass_issued", "pass_reissued", "pass_revoked"} :
            PassAudit(k, p) \in Events /\ PassAudit(k, p) \notin events
      BY DEF Events, PassAudit, RecordedAudit, AttendeeAudit
    <3>2. PassAudited(p)
      BY <2>1, AuditSplit
    <3> HIDE DEF events
    <3> QED
      BY <1>5, <1>11, <3>1, <3>2 DEF PassAudited, Existing
  <2>4. AttendeeAudited'
    <3>1. AttendeeAudit \in Events
      BY DEF Events
    <3>2. AttendeeAudit \in events <=> AttendeeCreated(outcome)
      BY DEF RecordedAudit, AttendeeAudit
    <3>3. AttendeeAudited
      BY <2>1, AuditSplit
    <3>4. attendee \in BOOLEAN /\ attendee' \in BOOLEAN
      BY <1>12 DEF TablesTyped, IInv, TypeOK
    <3>5. attendee' <=> attendee \/ AttendeeCreated(outcome)
      BY <1>5 DEF AttendeeCreated
    <3>6. AttendeeCreated(outcome) => ~attendee
      BY DEF AttendeeCreated
    <3> HIDE DEF events
    <3>7. audit'[AttendeeAudit] = IF AttendeeCreated(outcome) THEN audit[AttendeeAudit] + 1
                                                              ELSE audit[AttendeeAudit]
      BY <1>11, <3>1, <3>2
    <3> QED
      BY <3>3, <3>4, <3>5, <3>6, <3>7 DEF AttendeeAudited
  <2>5. AuditExact' <=> /\ \A e \in Decisions : DecisionAudited(e)' /\ ResponseAudited(e)'
                        /\ \A p \in Passes : PassAudited(p)'
                        /\ AttendeeAudited'
    BY DEF AuditExact, DecisionAudited, ResponseAudited, PassAudited, AttendeeAudited
  <2> QED
    BY <2>2, <2>3, <2>4, <2>5
<1>17. OneActive' /\ PassChain' /\ ShownStand'
  BY <1>5, TabsSplit DEF IInv, OneActive, PassChain, Active, Existing, ShownStand, ResponseVersion,
     ResponseStatus
<1>18. tab' \in [Tabs -> Shown \cup {None}] /\ \A t \in Tabs \ {s} : tab'[t] = tab[t]
  BY <1>5 DEF IInv, TypeOK
<1> QED
  BY <1>1, <1>12, <1>13, <1>14, <1>15, <1>16, <1>17, <1>18, WriteKeeps

\* A request that finds nothing to change keeps every table's promise.
LEMMA SameTables ==
  ASSUME IInv, UNCHANGED tables
  PROVE  /\ TablesTyped' /\ OneActive' /\ CacheCoherent' /\ HistoryLinear'
         /\ OutboxExact' /\ AuditExact' /\ PassChain'
<1>1. TablesTyped'
  BY DEF IInv, TypeOK, TablesTyped, tables, admission
<1>2. OneActive' /\ CacheCoherent' /\ HistoryLinear' /\ OutboxExact' /\ AuditExact' /\ PassChain'
  BY DEF IInv, OneActive, CacheCoherent, HistoryLinear, OutboxExact, AuditExact, PassChain,
     Recorded, Existing, Active, ResponseVersion, tables, admission
<1> QED
  BY <1>1, <1>2

\* What the release found: the application's present decision, and whether
\* it was released already.
LEMMA ReleaseFinds ==
  ASSUME IInv, NEW s \in Sessions, Release(s)
  PROVE  LET d == job[s].op.decision
         IN  /\ Writing(s) /\ Done(s) /\ d \in Recorded /\ current = d
             /\ decisions[d] \in DecisionRows
             /\ job[s].saw.released = decisions[d].released
<1> DEFINE d == job[s].op.decision
<1>1. /\ Writing(s) /\ job[s].op.kind = "release" /\ Done(s) /\ job[s] \in Jobs
  BY DEF Release, Ready, Writing, IInv, TypeOK
<1>2. job[s].op \in Operations /\ d \in Decisions
  BY <1>1, OperationTypes DEF Jobs
<1>3. Accepts(job[s].op) /\ job[s].saw = Seen(job[s].op)
  BY <1>1 DEF IInv, ReadsStand
<1>4. current = d
  BY <1>1, <1>3 DEF Accepts, ForPass
<1>5. d \in Recorded
  BY <1>2, <1>4, NoneAssumption DEF IInv, CacheCoherent
<1>6. decisions[d] \in DecisionRows
  BY <1>5 DEF Recorded, IInv, TypeOK
<1>7. job[s].saw.released = decisions[d].released
  BY <1>1, <1>2, <1>3, SeenTypes DEF IInv
<1> QED
  BY <1>1, <1>4, <1>5, <1>6, <1>7

LEMMA ReleaseKeeps ==
  ASSUME IInv, NEW s \in Sessions, Release(s)
  PROVE  IInv'
<1> DEFINE d == job[s].op.decision
<1>1. /\ Writing(s) /\ Done(s) /\ d \in Recorded /\ current = d
      /\ decisions[d] \in DecisionRows
      /\ job[s].saw.released = decisions[d].released
  BY ReleaseFinds
<1>2. UNCHANGED <<status, current, attendee, responses, passes, tab>>
  BY DEF Release
<1>3. /\ tab' \in [Tabs -> Shown \cup {None}] /\ ShownStand'
      /\ \A t \in Tabs \ {s} : tab'[t] = tab[t]
  BY <1>2, TabsSplit DEF IInv, TypeOK, ShownStand, ResponseVersion, ResponseStatus
<1>4. CASE job[s].saw.released /\ UNCHANGED <<decisions, visible, outbox, audit>>
  <2>1. UNCHANGED tables
    BY <1>2, <1>4 DEF tables, admission
  <2> QED
    BY <1>1, <1>3, <2>1, SameTables, WriteKeeps
<1>5. CASE /\ ~job[s].saw.released
           /\ ReleaseDecision(d)
           /\ UpdateApplicationDecisionRelease
           /\ Queue("decision_release", d)
           /\ Tell({ReleasedAudit(d)})
  <2> DEFINE row == [decisions[d] EXCEPT !.released = TRUE]
  <2>1. /\ decisions' = [decisions EXCEPT ![d] = row] /\ visible' = TRUE
        /\ outbox' = outbox \cup {<<"decision_release", d>>}
    BY <1>5 DEF ReleaseDecision, UpdateApplicationDecisionRelease, Queue
  <2>2. ASSUME NEW r \in DecisionRows
        PROVE  LET q == [r EXCEPT !.released = TRUE]
               IN  /\ q \in DecisionRows /\ q.released = TRUE
                   /\ q.outcome = r.outcome /\ q.supersedes = r.supersedes
    BY DEF DecisionRows
  <2>3. /\ row \in DecisionRows /\ row.released = TRUE
        /\ row.outcome = decisions[d].outcome /\ row.supersedes = decisions[d].supersedes
    BY <1>1, <2>2
  <2>4. row # None /\ d \in Decisions
    BY <1>1, <2>3, NoneIsNothing DEF Recorded
  <2> HIDE DEF row
  <2>5. /\ decisions' \in [Decisions -> DecisionRows \cup {None}]
        /\ decisions'[d] = row
        /\ \A e \in Decisions \ {d} : decisions'[e] = decisions[e]
    BY <2>1, <2>3, <2>4 DEF IInv, TypeOK
  <2>6. Recorded' = Recorded
    BY <1>1, <2>4, <2>5 DEF Recorded
  <2>7. decisions[d].released = FALSE
    BY <1>1, <1>5 DEF DecisionRows
  <2>8. /\ audit' \in [Events -> Nat]
        /\ \A e \in Events : audit'[e] = IF e \in {ReleasedAudit(d)} THEN audit[e] + 1 ELSE audit[e]
    <3>1. {ReleasedAudit(d)} \in SUBSET Events
      BY <2>4 DEF Events
    <3> QED
      BY <1>5, <3>1, TellChanges DEF IInv, TypeOK
  <2>9. TablesTyped'
    <3>1. outbox' \subseteq Emails
      BY <2>1, <2>4 DEF IInv, TypeOK, Emails
    <3> QED
      BY <1>2, <2>1, <2>5, <2>8, <3>1 DEF TablesTyped, IInv, TypeOK
  <2>10. CacheCoherent'
    BY <1>1, <1>2, <2>1, <2>3, <2>4, <2>5, <2>6, NoneAssumption DEF IInv, CacheCoherent
  <2>11. HistoryLinear'
    <3>1. \A e \in Recorded : decisions'[e].supersedes = decisions[e].supersedes
      BY <2>3, <2>5 DEF Recorded
    <3> QED
      BY <1>2, <2>6, <3>1 DEF IInv, HistoryLinear
  <2>12. OutboxExact'
    <3>1. {e \in Recorded' : decisions'[e].released}
            = {e \in Recorded : decisions[e].released} \cup {d}
      BY <1>1, <2>3, <2>5, <2>6 DEF Recorded
    <3>2. Existing' = Existing
      BY <1>2 DEF Existing
    <3> QED
      BY <2>1, <3>1, <3>2 DEF IInv, OutboxExact
  <2>13. AuditExact'
    <3>1. ASSUME NEW e \in Decisions PROVE DecisionAudited(e)' /\ ResponseAudited(e)'
      <4>1. /\ RecordedAudit(e) \in Events /\ ReleasedAudit(e) \in Events
            /\ ResponseAudit(e) \in Events
        BY DEF Events
      <4>2. /\ ReleasedAudit(e) = ReleasedAudit(d) <=> e = d
            /\ RecordedAudit(e) # ReleasedAudit(d) /\ ResponseAudit(e) # ReleasedAudit(d)
        BY DEF RecordedAudit, ReleasedAudit, ResponseAudit
      <4>3. DecisionAudited(e) /\ ResponseAudited(e)
        BY AuditSplit DEF IInv
      <4>4. ResponseAudited(e)'
        BY <1>2, <2>8, <4>1, <4>2, <4>3 DEF ResponseAudited, ResponseVersion
      <4>5. audit'[RecordedAudit(e)] = audit[RecordedAudit(e)]
        BY <2>8, <4>1, <4>2
      <4>6. CASE e = d
        <5>1. audit'[ReleasedAudit(e)] = audit[ReleasedAudit(e)] + 1
          BY <2>8, <4>1, <4>6
        <5> QED
          BY <1>1, <2>3, <2>5, <2>6, <2>7, <4>3, <4>4, <4>5, <4>6, <5>1 DEF DecisionAudited
      <4>7. CASE e # d
        <5>1. audit'[ReleasedAudit(e)] = audit[ReleasedAudit(e)]
          BY <2>8, <4>1, <4>2, <4>7
        <5> QED
          BY <2>5, <2>6, <4>3, <4>4, <4>5, <4>7, <5>1 DEF DecisionAudited
      <4> QED
        BY <4>6, <4>7
    <3>2. ASSUME NEW p \in Passes PROVE PassAudited(p)'
      <4>1. \A k \in {"pass_issued", "pass_reissued", "pass_revoked"} :
              PassAudit(k, p) \in Events /\ PassAudit(k, p) # ReleasedAudit(d)
        BY DEF Events, PassAudit, ReleasedAudit
      <4>2. PassAudited(p)
        BY AuditSplit DEF IInv
      <4> QED
        BY <1>2, <2>8, <4>1, <4>2 DEF PassAudited, Existing
    <3>3. AttendeeAudited'
      <4>1. AttendeeAudit \in Events /\ AttendeeAudit # ReleasedAudit(d)
        BY DEF Events, AttendeeAudit, ReleasedAudit
      <4>2. AttendeeAudited
        BY AuditSplit DEF IInv
      <4> QED
        BY <1>2, <2>8, <4>1, <4>2 DEF AttendeeAudited
    <3> QED
      BY <3>1, <3>2, <3>3
      DEF AuditExact, DecisionAudited, ResponseAudited, PassAudited, AttendeeAudited
  <2>14. OneActive' /\ PassChain'
    BY <1>2 DEF IInv, OneActive, PassChain, Active, Existing
  <2> QED
    BY <1>1, <1>3, <2>9, <2>10, <2>11, <2>12, <2>13, <2>14, WriteKeeps
<1> QED
  BY <1>4, <1>5 DEF Release

\* What the RSVP found: the present, released acceptance and its response.
LEMMA RespondFinds ==
  ASSUME IInv, NEW s \in Sessions, Respond(s)
  PROVE  LET op == job[s].op
         IN  /\ Writing(s) /\ Done(s) /\ op.kind = "respond" /\ s \in Tabs /\ tab[s] # None
             /\ op.decision \in Decisions /\ op.status \in Answers
             /\ current = op.decision /\ Admitted
             /\ tab[s].decision = op.decision /\ tab[s].version = op.version
             /\ job[s].saw.status = ResponseStatus(op.decision)
             /\ job[s].saw.version = ResponseVersion(op.decision)
<1> DEFINE op == job[s].op
<1>1. /\ Writing(s) /\ op.kind = "respond" /\ Done(s) /\ job[s] \in Jobs /\ job[s] # None
  BY DEF Respond, Ready, Writing, IInv, TypeOK
<1>2. op \in Operations
  BY <1>1 DEF Jobs
<1>3. op.decision \in Decisions /\ op.status \in Answers
  BY <1>1, <1>2, OperationTypes
<1>4. Accepts(op) /\ job[s].saw = Seen(op)
  BY <1>1 DEF IInv, ReadsStand
<1>5. current = op.decision /\ Admitted
  BY <1>1, <1>4 DEF Accepts, ForPass
<1>6. job[s].saw.status = ResponseStatus(op.decision) /\ job[s].saw.version = ResponseVersion(op.decision)
  BY <1>1, <1>2, <1>4, SeenTypes DEF IInv
<1>7. s \in Tabs /\ tab[s] # None /\ tab[s].decision = op.decision /\ tab[s].version = op.version
  BY <1>1 DEF IInv, TabsStand
<1> QED
  BY <1>1, <1>3, <1>5, <1>6, <1>7

LEMMA RespondKeeps ==
  ASSUME IInv, NEW s \in Sessions, Respond(s)
  PROVE  IInv'
<1> DEFINE op == job[s].op
<1>0. PICK d \in Decisions : d = job[s].op.decision
  BY RespondFinds
<1> DEFINE saved == Saved(d, op.status)
           shown(r) == [decision |-> d, status |-> r.status, version |-> r.version]
<1>1. /\ Writing(s) /\ Done(s) /\ s \in Tabs
      /\ d \in Decisions /\ op.status \in Answers
      /\ job[s].saw.status = ResponseStatus(d)
      /\ job[s].saw.version = ResponseVersion(d)
  BY <1>0, RespondFinds
<1>2. UNCHANGED <<admission, passes, outbox>>
  BY DEF Respond
<1>3. responses[d] \in ResponseRows \cup {None}
  BY <1>1 DEF IInv, TypeOK
<1>4. /\ ResponseStatus(d) \in Answers \cup {"pending"}
      /\ ResponseVersion(d) \in 0 .. MaxVersion
  BY <1>3, VersionAssumption DEF ResponseStatus, ResponseVersion, ResponseRows
<1>5. CASE /\ job[s].saw.status = op.status
           /\ tab' \in {tab, [tab EXCEPT ![s] = shown(job[s].saw)]}
           /\ UNCHANGED <<responses, audit>>
  <2>1. UNCHANGED tables
    BY <1>2, <1>5 DEF tables
  <2>2. /\ shown(job[s].saw) \in Shown
        /\ shown(job[s].saw).decision = d
        /\ shown(job[s].saw).version = ResponseVersion(d)
        /\ shown(job[s].saw).status = ResponseStatus(d)
    BY <1>1, <1>4 DEF Shown
  <2>3. ShownStand
    BY TabsSplit DEF IInv
  <2>4. /\ tab' \in [Tabs -> Shown \cup {None}]
        /\ \A t \in Tabs \ {s} : tab'[t] = tab[t]
        /\ tab'[s] \in {tab[s], shown(job[s].saw)}
    BY <1>1, <1>5, <2>2 DEF IInv, TypeOK
  <2> HIDE DEF shown
  <2>5. ShownStand'
    BY <1>4, <1>5, <2>2, <2>3, <2>4 DEF ShownStand, ResponseVersion, ResponseStatus
  <2> QED
    BY <1>1, <2>1, <2>4, <2>5, SameTables, WriteKeeps
<1>6. CASE /\ MaySave(op, job[s].saw)
           /\ responses' = [responses EXCEPT ![d] = saved]
           /\ Tell({ResponseAudit(d)})
           /\ tab' \in {tab, [tab EXCEPT ![s] = shown(saved)]}
  <2>1. /\ saved \in ResponseRows /\ saved.status = op.status
        /\ saved.version = ResponseVersion(d) + 1
    BY <1>1, <1>4, <1>6, VersionAssumption DEF Saved, ResponseRows, MaySave
  <2>2. saved # None
    BY <2>1, NoneIsNothing
  <2>3. /\ shown(saved) \in Shown
        /\ shown(saved).decision = d
        /\ shown(saved).version = ResponseVersion(d) + 1
        /\ shown(saved).status = op.status
    BY <1>1, <2>1, VersionAssumption DEF Shown, ResponseRows
  <2> HIDE DEF saved, shown
  <2>4. /\ responses' \in [Decisions -> ResponseRows \cup {None}]
        /\ responses'[d] = saved
        /\ \A e \in Decisions \ {d} : responses'[e] = responses[e]
    BY <1>1, <1>6, <2>1 DEF IInv, TypeOK
  <2>5. /\ ResponseVersion(d)' = ResponseVersion(d) + 1 /\ ResponseStatus(d)' = op.status
        /\ \A e \in Decisions \ {d} : /\ ResponseVersion(e)' = ResponseVersion(e)
                                      /\ ResponseStatus(e)' = ResponseStatus(e)
    <3>1. ResponseVersion(d)' = ResponseVersion(d) + 1 /\ ResponseStatus(d)' = op.status
      BY <2>1, <2>2, <2>4 DEF ResponseVersion, ResponseStatus
    <3>2. ASSUME NEW e \in Decisions \ {d}
          PROVE  ResponseVersion(e)' = ResponseVersion(e) /\ ResponseStatus(e)' = ResponseStatus(e)
      BY <2>4 DEF ResponseVersion, ResponseStatus
    <3> QED
      BY <3>1, <3>2
  <2>6. /\ audit' \in [Events -> Nat]
        /\ \A e \in Events : audit'[e] = IF e \in {ResponseAudit(d)} THEN audit[e] + 1 ELSE audit[e]
    <3>1. {ResponseAudit(d)} \in SUBSET Events
      BY <1>1 DEF Events
    <3> QED
      BY <1>6, <3>1, TellChanges DEF IInv, TypeOK
  <2>7. TablesTyped'
    BY <1>2, <2>4, <2>6 DEF TablesTyped, IInv, TypeOK, admission
  <2>8. OneActive' /\ CacheCoherent' /\ HistoryLinear' /\ OutboxExact' /\ PassChain'
    BY <1>2 DEF IInv, OneActive, CacheCoherent, HistoryLinear, OutboxExact, PassChain,
       Recorded, Existing, Active, admission
  <2>9. AuditExact'
    <3>1. ASSUME NEW e \in Decisions PROVE DecisionAudited(e)'
      <4>1. /\ RecordedAudit(e) \in Events /\ ReleasedAudit(e) \in Events
            /\ RecordedAudit(e) # ResponseAudit(d) /\ ReleasedAudit(e) # ResponseAudit(d)
        BY DEF Events, RecordedAudit, ReleasedAudit, ResponseAudit
      <4>2. DecisionAudited(e)
        BY AuditSplit DEF IInv
      <4> QED
        BY <1>2, <2>6, <4>1, <4>2 DEF DecisionAudited, Recorded, admission
    <3>2. ASSUME NEW e \in Decisions PROVE audit'[ResponseAudit(e)] = ResponseVersion(e)'
      <4>1. ResponseAudit(e) \in Events /\ (ResponseAudit(e) = ResponseAudit(d) <=> e = d)
        BY DEF Events, ResponseAudit
      <4>2. audit[ResponseAudit(e)] = ResponseVersion(e)
        BY AuditSplit DEF IInv, ResponseAudited
      <4>3. CASE e = d
        BY <2>5, <2>6, <4>1, <4>2, <4>3
      <4>4. CASE e # d
        BY <2>5, <2>6, <4>1, <4>2, <4>4
      <4> QED
        BY <4>3, <4>4
    <3>3. ASSUME NEW p \in Passes PROVE PassAudited(p)'
      <4>1. \A k \in {"pass_issued", "pass_reissued", "pass_revoked"} :
              PassAudit(k, p) \in Events /\ PassAudit(k, p) # ResponseAudit(d)
        BY DEF Events, PassAudit, ResponseAudit
      <4>2. PassAudited(p)
        BY AuditSplit DEF IInv
      <4> QED
        BY <1>2, <2>6, <4>1, <4>2 DEF PassAudited, Existing
    <3>4. AttendeeAudited'
      <4>1. AttendeeAudit \in Events /\ AttendeeAudit # ResponseAudit(d)
        BY DEF Events, AttendeeAudit, ResponseAudit
      <4>2. AttendeeAudited
        BY AuditSplit DEF IInv
      <4> QED
        BY <1>2, <2>6, <4>1, <4>2 DEF AttendeeAudited, admission
    <3> QED
      BY <3>1, <3>2, <3>3, <3>4 DEF AuditExact, DecisionAudited, PassAudited, AttendeeAudited
  <2>10. /\ tab' \in [Tabs -> Shown \cup {None}]
         /\ \A t \in Tabs \ {s} : tab'[t] = tab[t]
         /\ tab'[s] \in {tab[s], shown(saved)}
    BY <1>1, <1>6, <2>3 DEF IInv, TypeOK
  <2>11. ShownStand'
    <3> SUFFICES ASSUME NEW t \in Tabs, tab'[t] # None
                 PROVE  /\ tab'[t].version <= ResponseVersion(tab[t].decision)'
                        /\ tab'[t].version = ResponseVersion(tab[t].decision)'
                             => tab'[t].status = ResponseStatus(tab[t].decision)'
      BY DEF ShownStand
    <3>1. CASE t = s /\ tab'[s] = shown(saved)
      <4>1. /\ ResponseVersion(tab[t].decision)' = ResponseVersion(d) + 1
            /\ ResponseStatus(tab[t].decision)' = op.status
        BY <2>3, <2>4, <2>1, <2>2, <3>1 DEF ResponseVersion, ResponseStatus
      <4> QED
        BY <1>4, <2>3, <3>1, <4>1
    <3>2. CASE tab'[t] = tab[t]
      <4>1. tab[t] \in Shown
        BY <3>2 DEF IInv, TypeOK
      <4>2. tab[t].decision \in Decisions /\ tab[t].version \in Nat
        BY <4>1 DEF Shown
      <4>3. /\ tab[t].version <= ResponseVersion(tab[t].decision)
            /\ tab[t].version = ResponseVersion(tab[t].decision)
                 => tab[t].status = ResponseStatus(tab[t].decision)
        BY <3>2 DEF IInv, TabsStand
      <4>4. CASE tab[t].decision = d
        <5>1. ResponseVersion(tab[t].decision)' = ResponseVersion(d) + 1
          BY <2>1, <2>2, <2>4, <3>2, <4>4 DEF ResponseVersion
        <5> QED
          BY <1>4, <3>2, <4>2, <4>3, <4>4, <5>1
      <4>5. CASE tab[t].decision # d
        <5>1. /\ ResponseVersion(tab[t].decision)' = ResponseVersion(tab[t].decision)
              /\ ResponseStatus(tab[t].decision)' = ResponseStatus(tab[t].decision)
          BY <2>4, <3>2, <4>2, <4>5 DEF ResponseVersion, ResponseStatus
        <5> QED
          BY <3>2, <4>3, <5>1
      <4> QED
        BY <4>4, <4>5
    <3> QED
      BY <2>10, <3>1, <3>2
  <2> QED
    BY <1>1, <2>7, <2>8, <2>9, <2>10, <2>11, WriteKeeps
<1> QED
  BY <1>0, <1>5, <1>6 DEF Respond

-------------------------------------------------------------------------------
(* The passes.                                                             *)

\* A set whose members are all the same has at most one.
LEMMA AtMostOne ==
  ASSUME NEW S, \A p, q \in S : p = q
  PROVE  Cardinality(S) <= 1
<1>1. CASE S = {}
  BY <1>1, FS_EmptySet
<1>2. CASE S # {}
  <2>1. PICK p \in S : TRUE
    BY <1>2
  <2>2. S = {p}
    BY <2>1
  <2>3. Cardinality({p}) = 1
    BY FS_Singleton
  <2> QED
    BY <2>2, <2>3
<1> QED
  BY <1>1, <1>2

\* A pass that does not exist replaces none and is replaced by none.
LEMMA PassFacts ==
  ASSUME IInv, NEW p \in Passes \ Existing
  PROVE  /\ passes[p].status = "absent" /\ passes[p].by = None
         /\ \A q \in Passes : passes[q].by # p
<1>1. passes[p].status = "absent" /\ \A q \in Passes \ Existing : passes[q].by = None
  BY DEF IInv, PassChain, Existing
<1>2. \A q \in Existing : passes[q].by # p
  BY NoneAssumption DEF IInv, PassChain, Existing
<1> QED
  BY <1>1, <1>2, NoneAssumption

\* The links between passes, as PassChain has them.
Linked ==
  /\ \A p \in Passes : passes[p].status = "replaced" <=> passes[p].by # None
  /\ \A p \in Existing : passes[p].by # None => passes[p].by \in Existing \ {p}
  /\ \A p, q \in Existing : passes[p].by = passes[q].by /\ passes[p].by # None => p = q

\* A commit that writes passes.
LEMMA PassesKeep ==
  ASSUME IInv, NEW s \in Sessions, Writing(s), Done(s), UNCHANGED <<admission, responses, tab>>,
         passes' \in [Passes -> PassRows], outbox' \subseteq Emails,
         NEW k \in {"pass_issued", "pass_reissued", "pass_revoked"}, NEW p \in Passes,
         Tell({PassAudit(k, p)}),
         OneActive', Linked', OutboxExact',
         \A q \in Passes : (audit' \in [Events -> Nat]
            /\ \A e \in {"pass_issued", "pass_reissued", "pass_revoked"} :
                 audit'[PassAudit(e, q)] = IF e = k /\ q = p THEN audit[PassAudit(e, q)] + 1
                                                             ELSE audit[PassAudit(e, q)])
           => PassAudited(q)'
  PROVE  IInv'
<1>1. /\ audit' \in [Events -> Nat]
      /\ \A e \in Events : audit'[e] = IF e \in {PassAudit(k, p)} THEN audit[e] + 1 ELSE audit[e]
  <2>1. {PassAudit(k, p)} \in SUBSET Events
    BY DEF Events
  <2> QED
    BY <2>1, TellChanges DEF IInv, TypeOK
<1>2. TablesTyped'
  BY <1>1 DEF TablesTyped, IInv, TypeOK, admission
<1>3. CacheCoherent' /\ HistoryLinear'
  BY DEF IInv, CacheCoherent, HistoryLinear, Recorded, admission
<1>4. PassChain'
  <2>1. Cardinality(Active') <= 1
    BY AtMostOne DEF OneActive
  <2> QED
    BY <2>1 DEF PassChain, Linked
<1>5. AuditExact'
  <2>1. ASSUME NEW d \in Decisions PROVE DecisionAudited(d)' /\ ResponseAudited(d)'
    <3>1. /\ RecordedAudit(d) \in Events /\ ReleasedAudit(d) \in Events
          /\ ResponseAudit(d) \in Events
      BY DEF Events
    <3>2. /\ RecordedAudit(d) # PassAudit(k, p) /\ ReleasedAudit(d) # PassAudit(k, p)
          /\ ResponseAudit(d) # PassAudit(k, p)
      BY DEF RecordedAudit, ReleasedAudit, ResponseAudit, PassAudit
    <3>3. DecisionAudited(d) /\ ResponseAudited(d)
      BY AuditSplit DEF IInv
    <3>4. DecisionAudited(d)'
      BY <1>1, <3>1, <3>2, <3>3 DEF DecisionAudited, Recorded, admission
    <3>5. ResponseAudited(d)'
      BY <1>1, <3>1, <3>2, <3>3 DEF ResponseAudited, ResponseVersion
    <3> QED
      BY <3>4, <3>5
  <2>2. ASSUME NEW q \in Passes PROVE PassAudited(q)'
    <3>1. ASSUME NEW e \in {"pass_issued", "pass_reissued", "pass_revoked"}
          PROVE  audit'[PassAudit(e, q)] = IF e = k /\ q = p THEN audit[PassAudit(e, q)] + 1
                                                             ELSE audit[PassAudit(e, q)]
      <4>1. PassAudit(e, q) \in Events
        BY DEF Events
      <4>2. PassAudit(e, q) = PassAudit(k, p) <=> e = k /\ q = p
        BY DEF PassAudit
      <4> QED
        BY <1>1, <4>1, <4>2
    <3> QED
      BY <1>1, <3>1
  <2>3. AttendeeAudited'
    <3>1. AttendeeAudit \in Events /\ AttendeeAudit # PassAudit(k, p)
      BY DEF Events, AttendeeAudit, PassAudit, ApplicationRow
    <3>2. AttendeeAudited
      BY AuditSplit DEF IInv
    <3> QED
      BY <1>1, <3>1, <3>2 DEF AttendeeAudited, admission
  <2> QED
    BY <2>1, <2>2, <2>3
    DEF AuditExact, DecisionAudited, ResponseAudited, PassAudited, AttendeeAudited
<1>6. /\ tab' \in [Tabs -> Shown \cup {None}] /\ ShownStand'
      /\ \A t \in Tabs \ {s} : tab'[t] = tab[t]
  BY TabsSplit DEF IInv, TypeOK, ShownStand, ResponseVersion, ResponseStatus
<1> QED
  BY <1>2, <1>3, <1>4, <1>5, <1>6, WriteKeeps

LEMMA IssueKeeps ==
  ASSUME IInv, NEW s \in Sessions, Issue(s)
  PROVE  IInv'
<1>1. PICK p \in Passes \ Existing :
        /\ passes' = [passes EXCEPT ![p] = NewPass]
        /\ Tell({PassAudit("pass_issued", p)})
        /\ Queue("pass_link", p)
  BY DEF Issue
<1>2. /\ Writing(s) /\ Done(s) /\ Active = {}
      /\ UNCHANGED <<admission, responses, tab>>
  BY DEF Issue, Ready, Writing
<1>3. /\ passes[p].status = "absent" /\ passes[p].by = None
      /\ \A q \in Passes : passes[q].by # p
  BY PassFacts
<1>4. NewPass \in PassRows /\ NewPass.status = "active" /\ NewPass.by = None
  BY DEF NewPass, PassRows
<1>5. /\ passes' \in [Passes -> PassRows] /\ passes'[p] = NewPass
      /\ \A q \in Passes \ {p} : passes'[q] = passes[q]
  BY <1>1, <1>4 DEF IInv, TypeOK
<1>6. Existing' = Existing \cup {p} /\ Active' = {p}
  BY <1>2, <1>4, <1>5 DEF Existing, Active
<1>7. OneActive'
  BY <1>6 DEF OneActive
<1>8. Linked'
  <2>1. \A q \in Passes : passes'[q].by = passes[q].by
    BY <1>3, <1>4, <1>5
  <2>2. \A q \in Passes : passes'[q].status = "replaced" <=> passes[q].status = "replaced"
    BY <1>3, <1>4, <1>5
  <2>3. Existing \subseteq Passes /\ passes[p].by = None
    BY <1>3 DEF Existing
  <2> QED
    BY <1>6, <2>1, <2>2, <2>3 DEF Linked, IInv, PassChain
<1>9. outbox' \subseteq Emails /\ OutboxExact'
  <2>1. outbox' = outbox \cup {<<"pass_link", p>>}
    BY <1>1 DEF Queue
  <2>2. Recorded' = Recorded /\ decisions' = decisions
    BY <1>2 DEF Recorded, admission
  <2>3. OutboxExact'
    BY <1>6, <2>1, <2>2 DEF IInv, OutboxExact
  <2> QED
    BY <2>1, <2>3 DEF IInv, TypeOK, Emails
<1>10. ASSUME NEW q \in Passes, audit' \in [Events -> Nat],
              \A e \in {"pass_issued", "pass_reissued", "pass_revoked"} :
                audit'[PassAudit(e, q)] = IF e = "pass_issued" /\ q = p
                                          THEN audit[PassAudit(e, q)] + 1
                                          ELSE audit[PassAudit(e, q)]
       PROVE  PassAudited(q)'
  <2>1. PassAudited(q)
    BY AuditSplit DEF IInv
  <2>2. \A r \in Passes : passes'[r].by = passes[r].by
    BY <1>3, <1>4, <1>5
  <2>3. CASE q = p
    BY <1>3, <1>4, <1>5, <1>6, <1>10, <2>1, <2>2, <2>3 DEF PassAudited
  <2>4. CASE q # p
    BY <1>5, <1>6, <1>10, <2>1, <2>2, <2>4 DEF PassAudited
  <2> QED
    BY <2>3, <2>4
<1> QED
  BY <1>1, <1>2, <1>5, <1>7, <1>8, <1>9, <1>10, PassesKeep

\* What lockActivePass found: the pass is still active.
LEMMA OldActive ==
  ASSUME IInv, NEW s \in Sessions, NEW kind \in {"reissue", "revoke"}, Ready(s, kind)
  PROVE  job[s].op.pass \in Active
<1>1. job[s] \in Jobs /\ Writing(s) /\ job[s].op.kind = kind
  BY DEF Ready, Writing, IInv, TypeOK
<1>2. job[s].op.pass \in Passes
  BY <1>1, OperationTypes DEF Jobs
<1>3. LaterLocks(job[s].op, job[s].saw) = {<<PassRow(job[s].op.pass), "update">>}
  BY <1>1 DEF LaterLocks
<1>4. <<PassRow(job[s].op.pass), "update">> \in held[s]
  BY <1>3 DEF Ready, Unlocked
<1> QED
  BY <1>1, <1>2, <1>4 DEF IInv, PassLocks, Active

LEMMA ReissueKeeps ==
  ASSUME IInv, NEW s \in Sessions, Reissue(s)
  PROVE  IInv'
<1>0. PICK old \in Active : old = job[s].op.pass
  BY OldActive DEF Reissue
<1>1. PICK p \in Passes \ Existing :
        /\ passes' = [passes EXCEPT ![old] = [status |-> "replaced", by |-> p], ![p] = NewPass]
        /\ Queue("pass_link", p)
  BY <1>0 DEF Reissue
<1>2. /\ Writing(s) /\ Done(s) /\ Tell({PassAudit("pass_reissued", old)})
      /\ UNCHANGED <<admission, responses, tab>>
  BY <1>0 DEF Reissue, Ready, Writing
<1>3. /\ passes[p].status = "absent" /\ passes[p].by = None
      /\ \A q \in Passes : passes[q].by # p
  BY PassFacts
<1>4. NewPass \in PassRows /\ NewPass.status = "active" /\ NewPass.by = None
  BY DEF NewPass, PassRows
<1>5. /\ old \in Passes /\ old \in Existing /\ old # p
      /\ passes[old].status = "active" /\ passes[old].by = None
  BY DEF Active, Existing, IInv, PassChain
<1> DEFINE row == [status |-> "replaced", by |-> p]
<1>6. row \in PassRows /\ row.status = "replaced" /\ row.by = p
  BY DEF PassRows
<1> HIDE DEF row
<1>7. /\ passes' \in [Passes -> PassRows] /\ passes'[p] = NewPass /\ passes'[old] = row
      /\ \A q \in Passes \ {old, p} : passes'[q] = passes[q]
  BY <1>1, <1>4, <1>5, <1>6 DEF IInv, TypeOK, row
<1>8. Existing' = Existing \cup {p}
  BY <1>4, <1>5, <1>6, <1>7 DEF Existing
<1>9. Active' = {p}
  BY <1>4, <1>5, <1>6, <1>7 DEF IInv, OneActive, Active
<1>10. OneActive'
  BY <1>9 DEF OneActive
<1>11. Linked'
  <2>1. \A q \in Passes : passes'[q].status = "replaced" <=> passes'[q].by # None
    <3>1. \A q \in Passes \ {old, p} :
            passes'[q].status = "replaced" <=> passes'[q].by # None
      BY <1>7 DEF IInv, PassChain
    <3>2. row.by # None
      BY <1>6, NoneAssumption
    <3>3. \A q \in {old, p} : passes'[q].status = "replaced" <=> passes'[q].by # None
      BY <1>4, <1>6, <1>7, <3>2
    <3> QED
      BY <3>1, <3>3
  <2>2. \A q \in Existing' : passes'[q].by # None => passes'[q].by \in Existing' \ {q}
    <3>1. ASSUME NEW q \in Existing \ {old, p}, passes'[q].by # None
          PROVE  passes'[q].by \in Existing' \ {q}
      <4>1. passes'[q] = passes[q]
        BY <1>7 DEF Existing
      <4>2. passes[q].by \in Existing \ {q}
        BY <3>1, <4>1 DEF IInv, PassChain
      <4> QED
        BY <1>8, <4>1, <4>2
    <3>2. row.by \in Existing' \ {old}
      BY <1>5, <1>6, <1>8
    <3>3. NewPass.by = None
      BY <1>4
    <3> QED
      BY <1>7, <1>8, <3>1, <3>2, <3>3
  <2>3. \A q, r \in Existing' : passes'[q].by = passes'[r].by /\ passes'[q].by # None => q = r
    BY <1>3, <1>4, <1>6, <1>7, <1>8 DEF IInv, PassChain, Existing
  <2> QED
    BY <2>1, <2>2, <2>3 DEF Linked
<1>12. outbox' \subseteq Emails /\ OutboxExact'
  <2>1. outbox' = outbox \cup {<<"pass_link", p>>}
    BY <1>1 DEF Queue
  <2>2. Recorded' = Recorded /\ decisions' = decisions
    BY <1>2 DEF Recorded, admission
  <2>3. OutboxExact'
    BY <1>8, <2>1, <2>2 DEF IInv, OutboxExact
  <2> QED
    BY <2>1, <2>3 DEF IInv, TypeOK, Emails
<1>13. ASSUME NEW q \in Passes, audit' \in [Events -> Nat],
              \A e \in {"pass_issued", "pass_reissued", "pass_revoked"} :
                audit'[PassAudit(e, q)] = IF e = "pass_reissued" /\ q = old
                                          THEN audit[PassAudit(e, q)] + 1
                                          ELSE audit[PassAudit(e, q)]
       PROVE  PassAudited(q)'
  <2>1. PassAudited(q)
    BY AuditSplit DEF IInv
  <2>2. \A r \in Passes \ {old} : passes'[r].by = passes[r].by
    BY <1>3, <1>4, <1>7
  <2>3. CASE q = p
    <3>1. ~ \A r \in Passes : passes'[r].by # q
      BY <1>5, <1>6, <1>7, <2>3
    <3>2. /\ audit[PassAudit("pass_issued", q)] = 0 /\ audit[PassAudit("pass_reissued", q)] = 0
          /\ audit[PassAudit("pass_revoked", q)] = 0
      BY <1>3, <2>1, <2>3 DEF PassAudited
    <3>3. \A e \in {"pass_issued", "pass_reissued", "pass_revoked"} :
            audit'[PassAudit(e, q)] = audit[PassAudit(e, q)]
      BY <1>5, <1>13, <2>3
    <3>4. passes'[q].status = "active"
      BY <1>4, <1>7, <2>3
    <3> QED
      BY <3>1, <3>2, <3>3, <3>4 DEF PassAudited
  <2>4. CASE q # p
    <3>1. (\A r \in Passes : passes'[r].by # q) <=> (\A r \in Passes : passes[r].by # q)
      <4>1. passes'[old].by # q /\ passes[old].by # q
        BY <1>5, <1>6, <1>7, <2>4, NoneAssumption
      <4> QED
        BY <2>2, <4>1
    <3>2. q \in Existing' <=> q \in Existing
      BY <1>8, <2>4
    <3>3. CASE q = old
      BY <1>5, <1>6, <1>7, <1>13, <2>1, <3>1, <3>2, <3>3 DEF PassAudited
    <3>4. CASE q # old
      BY <1>7, <1>13, <2>1, <2>4, <3>1, <3>2, <3>4 DEF PassAudited
    <3> QED
      BY <3>3, <3>4
  <2> QED
    BY <2>3, <2>4
<1> QED
  BY <1>2, <1>5, <1>7, <1>10, <1>11, <1>12, <1>13, PassesKeep

LEMMA RevokeKeeps ==
  ASSUME IInv, NEW s \in Sessions, Revoke(s)
  PROVE  IInv'
<1>0. PICK old \in Active : old = job[s].op.pass
  BY OldActive DEF Revoke
<1>1. /\ Writing(s) /\ Done(s) /\ Tell({PassAudit("pass_revoked", old)})
      /\ passes' = [passes EXCEPT ![old] = [status |-> "revoked", by |-> None]]
      /\ UNCHANGED <<admission, responses, outbox, tab>>
  BY <1>0 DEF Revoke, Ready, Writing
<1>2. /\ old \in Passes /\ old \in Existing
      /\ passes[old].status = "active" /\ passes[old].by = None
  BY DEF Active, Existing, IInv, PassChain
<1> DEFINE row == [status |-> "revoked", by |-> None]
<1>3. row \in PassRows /\ row.status = "revoked" /\ row.by = None
  BY DEF PassRows
<1> HIDE DEF row
<1>4. /\ passes' \in [Passes -> PassRows] /\ passes'[old] = row
      /\ \A q \in Passes \ {old} : passes'[q] = passes[q]
  BY <1>1, <1>2, <1>3 DEF IInv, TypeOK, row
<1>5. Existing' = Existing /\ Active' \subseteq Active
  BY <1>2, <1>3, <1>4 DEF Existing, Active
<1>6. OneActive'
  BY <1>5 DEF IInv, OneActive
<1>7. \A r \in Passes : passes'[r].by = passes[r].by
  BY <1>2, <1>3, <1>4
<1>8. Linked'
  <2>1. \A q \in Passes : passes'[q].status = "replaced" <=> passes[q].status = "replaced"
    BY <1>2, <1>3, <1>4
  <2> QED
    BY <1>5, <1>7, <2>1 DEF Linked, IInv, PassChain, Existing
<1>9. outbox' \subseteq Emails /\ OutboxExact'
  BY <1>1, <1>5 DEF IInv, TypeOK, OutboxExact, Recorded, admission
<1>10. ASSUME NEW q \in Passes, audit' \in [Events -> Nat],
              \A e \in {"pass_issued", "pass_reissued", "pass_revoked"} :
                audit'[PassAudit(e, q)] = IF e = "pass_revoked" /\ q = old
                                          THEN audit[PassAudit(e, q)] + 1
                                          ELSE audit[PassAudit(e, q)]
       PROVE  PassAudited(q)'
  <2>1. PassAudited(q)
    BY AuditSplit DEF IInv
  <2>2. CASE q = old
    BY <1>2, <1>3, <1>4, <1>5, <1>7, <1>10, <2>1, <2>2 DEF PassAudited
  <2>3. CASE q # old
    BY <1>4, <1>5, <1>7, <1>10, <2>1, <2>3 DEF PassAudited
  <2> QED
    BY <2>2, <2>3
<1> QED
  BY <1>1, <1>2, <1>4, <1>6, <1>8, <1>9, <1>10, PassesKeep

-------------------------------------------------------------------------------
(* The whole.                                                              *)

LEMMA ViewKeeps ==
  ASSUME IInv, NEW t \in Tabs, View(t)
  PROVE  IInv'
<1>1. /\ job[t] = None /\ Admitted /\ UNCHANGED <<tables, job, held>>
      /\ tab' = [tab EXCEPT ![t] = [decision |-> current, status |-> ResponseStatus(current),
                                    version |-> ResponseVersion(current)]]
  BY DEF View, tables
<1>2. current \in Decisions
  BY <1>1 DEF Admitted, IInv, CacheCoherent, Recorded
<1>3. responses[current] \in ResponseRows \cup {None}
  BY <1>2 DEF IInv, TypeOK
<1>4. /\ ResponseStatus(current) \in Answers \cup {"pending"}
      /\ ResponseVersion(current) \in 0 .. MaxVersion
  BY <1>3, VersionAssumption DEF ResponseStatus, ResponseVersion, ResponseRows
<1> DEFINE shown == [decision |-> current, status |-> ResponseStatus(current),
                     version |-> ResponseVersion(current)]
<1>5. /\ shown \in Shown /\ shown.decision = current
      /\ shown.status = ResponseStatus(current) /\ shown.version = ResponseVersion(current)
  BY <1>2, <1>4 DEF Shown
<1>6. PICK r \in Shown : r = shown
  BY <1>5
<1> HIDE DEF shown
<1>7. /\ tab' \in [Tabs -> Shown \cup {None}] /\ tab'[t] = r
      /\ \A u \in Tabs \ {t} : tab'[u] = tab[u]
  BY <1>1, <1>6 DEF IInv, TypeOK, shown
<1>8. TypeOK'
  BY <1>1, <1>7 DEF IInv, TypeOK, tables, admission
<1>9. OneHolder' /\ PassLocks'
  BY <1>1 DEF IInv, OneHolder, PassLocks, Writing, tables
<1>10. ReadsStand'
  BY <1>1 DEF IInv, ReadsStand, Writing, tables, admission, Accepts, Seen, Admitted,
     CurrentAccepted, Confirmed, ResponseStatus, ResponseVersion, GetLatestDecisionForApplication
<1>11. TabsStand'
  <2>1. AskedByTab
    BY TabsSplit DEF IInv
  <2>2. AskedByTab'
    BY <1>1, <1>7, <2>1 DEF AskedByTab
  <2>3. ShownStand
    BY TabsSplit DEF IInv
  <2>4. ShownStand'
    BY <1>1, <1>4, <1>5, <1>6, <1>7, <2>3
    DEF ShownStand, ResponseVersion, ResponseStatus, tables
  <2> QED
    BY <2>2, <2>4 DEF TabsStand, AskedByTab, ShownStand
<1>12. /\ TablesTyped' /\ OneActive' /\ CacheCoherent' /\ HistoryLinear'
       /\ OutboxExact' /\ AuditExact' /\ PassChain'
  BY <1>1, SameTables
<1> QED
  BY <1>8, <1>9, <1>10, <1>11, <1>12 DEF IInv

LEMMA InitHolds == Init => IInv
<1> SUFFICES ASSUME Init PROVE IInv
  OBVIOUS
<1>1. TypeOK
  BY DEF Init, TypeOK, PassRows
<1>2. OneHolder /\ ReadsStand /\ PassLocks /\ TabsStand
  BY DEF Init, OneHolder, ReadsStand, PassLocks, TabsStand, Writing, Sessions
<1>3. Recorded = {} /\ Existing = {} /\ Active = {}
  BY DEF Init, Recorded, Existing, Active
<1>4. OneActive /\ CacheCoherent /\ HistoryLinear
  BY <1>3 DEF OneActive, CacheCoherent, HistoryLinear, Init
<1>5. OutboxExact
  BY <1>3 DEF OutboxExact, Init
<1>6. AuditExact
  <2>1. \A e \in Events : audit[e] = 0
    BY DEF Init
  <2>2. ASSUME NEW d \in Decisions PROVE DecisionAudited(d) /\ ResponseAudited(d)
    <3>1. /\ RecordedAudit(d) \in Events /\ ReleasedAudit(d) \in Events
          /\ ResponseAudit(d) \in Events
      BY DEF Events
    <3>2. responses[d] = None
      BY DEF Init
    <3> QED
      BY <1>3, <2>1, <3>1, <3>2 DEF DecisionAudited, ResponseAudited, ResponseVersion
  <2>3. ASSUME NEW p \in Passes PROVE PassAudited(p)
    <3>1. \A k \in {"pass_issued", "pass_reissued", "pass_revoked"} : PassAudit(k, p) \in Events
      BY DEF Events
    <3>2. passes[p].status = "absent"
      BY DEF Init
    <3> QED
      BY <1>3, <2>1, <3>1, <3>2 DEF PassAudited
  <2>4. AttendeeAudited
    <3>1. AttendeeAudit \in Events
      BY DEF Events
    <3> QED
      BY <2>1, <3>1 DEF AttendeeAudited, Init
  <2> QED
    BY <2>2, <2>3, <2>4, AuditSplit
<1>7. PassChain
  <2>1. Cardinality(Active) <= 1
    BY <1>3, FS_EmptySet
  <2>2. \A p \in Passes : passes[p].status = "absent" /\ passes[p].by = None
    BY DEF Init
  <2> QED
    BY <1>3, <2>1, <2>2 DEF PassChain
<1> QED
  BY <1>1, <1>2, <1>4, <1>5, <1>6, <1>7 DEF IInv

LEMMA StutterKeeps == IInv /\ UNCHANGED vars => IInv'
<1> SUFFICES ASSUME IInv, UNCHANGED vars PROVE IInv'
  OBVIOUS
<1>1. UNCHANGED <<tables, tab, job, held>>
  BY DEF vars, tables, admission
<1>2. TypeOK'
  BY <1>1 DEF IInv, TypeOK, tables, admission
<1>3. OneHolder' /\ PassLocks'
  BY <1>1 DEF IInv, OneHolder, PassLocks, Writing, tables
<1>4. ReadsStand'
  BY <1>1 DEF IInv, ReadsStand, Writing, tables, admission, Accepts, Seen, Admitted,
     CurrentAccepted, Confirmed, ResponseStatus, ResponseVersion, GetLatestDecisionForApplication
<1>5. TabsStand'
  BY <1>1 DEF IInv, TabsStand, ResponseVersion, ResponseStatus, tables
<1> QED
  BY <1>1, <1>2, <1>3, <1>4, <1>5, SameTables DEF IInv

LEMMA NextKeeps == IInv /\ [Next]_vars => IInv'
<1> SUFFICES ASSUME IInv, [Next]_vars PROVE IInv'
  OBVIOUS
<1>1. ASSUME NEW s \in Sessions, Begin(s) PROVE IInv'
  BY <1>1, BeginKeeps
<1>2. ASSUME NEW s \in Sessions, LockRow(s) PROVE IInv'
  BY <1>2, LockRowKeeps
<1>3. ASSUME NEW s \in Sessions, ReadUnderLock(s) PROVE IInv'
  BY <1>3, ReadUnderLockKeeps
<1>4. ASSUME NEW s \in Sessions, LockLater(s) PROVE IInv'
  BY <1>4, LockLaterKeeps
<1>5. ASSUME NEW s \in Sessions, Refuse(s) PROVE IInv'
  BY <1>5, RefuseKeeps
<1>6. ASSUME NEW s \in Sessions, Record(s) PROVE IInv'
  BY <1>6, RecordKeeps
<1>7. ASSUME NEW s \in Sessions, Release(s) PROVE IInv'
  BY <1>7, ReleaseKeeps
<1>8. ASSUME NEW s \in Sessions, Respond(s) PROVE IInv'
  BY <1>8, RespondKeeps
<1>9. ASSUME NEW s \in Sessions, Issue(s) PROVE IInv'
  BY <1>9, IssueKeeps
<1>10. ASSUME NEW s \in Sessions, Reissue(s) PROVE IInv'
  BY <1>10, ReissueKeeps
<1>11. ASSUME NEW s \in Sessions, Revoke(s) PROVE IInv'
  BY <1>11, RevokeKeeps
<1>12. ASSUME NEW t \in Tabs, View(t) PROVE IInv'
  BY <1>12, ViewKeeps
<1> QED
  BY <1>1, <1>2, <1>3, <1>4, <1>5, <1>6, <1>7, <1>8, <1>9, <1>10, <1>11, <1>12, StutterKeeps
  DEF Next

\* Every reachable state satisfies the inductive invariant: the tables agree
\* with each other, and what a request read under the application's lock is
\* what the tables say when it writes.
THEOREM Invariance == Spec => []IInv
BY InitHolds, NextKeeps, PTL DEF Spec

\* Types of the columns, the requests, the tabs.
THEOREM TypeCorrect == Spec => []TypeOK
<1>1. IInv => TypeOK
  BY DEF IInv
<1> QED
  BY <1>1, Invariance, PTL

\* The application's copy of its decision is that decision.
THEOREM Coherence == Spec => []CacheCoherent
<1>1. IInv => CacheCoherent
  BY DEF IInv
<1> QED
  BY <1>1, Invariance, PTL

\* However many organizers decide at once, the history is one line.
THEOREM Linear == Spec => []HistoryLinear
<1>1. IInv => HistoryLinear
  BY DEF IInv
<1> QED
  BY <1>1, Invariance, PTL

\* One email for each release and each pass, none for anything else.
THEOREM Outbox == Spec => []OutboxExact
<1>1. IInv => OutboxExact
  BY DEF IInv
<1> QED
  BY <1>1, Invariance, PTL

\* One audit row for each change of the journey.
THEOREM Audited == Spec => []AuditExact
<1>1. IInv => AuditExact
  BY DEF IInv
<1> QED
  BY <1>1, Invariance, PTL

\* One active pass at most, and a chain of replacements that never branches.
THEOREM Chain == Spec => []PassChain
<1>1. IInv => PassChain
  BY DEF IInv
<1> QED
  BY <1>1, Invariance, PTL

-------------------------------------------------------------------------------
(* What a step may never do.                                               *)

\* Which actions write decisions, responses and passes.
LEMMA Writers ==
  ASSUME [Next]_vars
  PROVE  /\ decisions' = decisions \/ \E s \in Sessions : Record(s) \/ Release(s)
         /\ responses' = responses \/ \E s \in Sessions : Respond(s)
         /\ passes' = passes \/ \E s \in Sessions : Issue(s) \/ Reissue(s) \/ Revoke(s)
<1>1. CASE UNCHANGED vars
  BY <1>1 DEF vars, admission
<1>2. ASSUME NEW s \in Sessions,
             Begin(s) \/ LockRow(s) \/ ReadUnderLock(s) \/ LockLater(s) \/ Refuse(s)
      PROVE  UNCHANGED <<decisions, responses, passes>>
  BY <1>2 DEF Begin, LockRow, ReadUnderLock, LockLater, Refuse, admission
<1>3. ASSUME NEW s \in Sessions, Record(s) \/ Release(s)
      PROVE  UNCHANGED <<responses, passes>>
  BY <1>3 DEF Record, Release
<1>4. ASSUME NEW s \in Sessions, Respond(s)
      PROVE  UNCHANGED <<decisions, passes>>
  BY <1>4 DEF Respond, admission
<1>5. ASSUME NEW s \in Sessions, Issue(s) \/ Reissue(s) \/ Revoke(s)
      PROVE  UNCHANGED <<decisions, responses>>
  BY <1>5 DEF Issue, Reissue, Revoke, admission
<1>6. ASSUME NEW t \in Tabs, View(t)
      PROVE  UNCHANGED <<decisions, responses, passes>>
  BY <1>6 DEF View, admission
<1> QED
  BY <1>1, <1>2, <1>3, <1>4, <1>5, <1>6 DEF Next

\* A new decision is not released.
LEMMA RecordHides ==
  ASSUME IInv, NEW s \in Sessions, Record(s), NEW e \in Decisions,
         decisions'[e] # None, decisions'[e].released
  PROVE  e \in Recorded /\ decisions[e].released
<1>1. \E d \in Decisions, row \in [outcome : {job[s].op.outcome}, supersedes : {job[s].saw.prior},
                                   released : {FALSE}] :
        decisions' = [decisions EXCEPT ![d] = row] /\ row.released = FALSE
  <2>1. PICK d \in Decisions \ Recorded : InsertDecision(d, job[s].op.outcome, job[s].saw.prior)
    BY DEF Record
  <2> DEFINE row == [outcome |-> job[s].op.outcome, supersedes |-> job[s].saw.prior,
                     released |-> FALSE]
  <2>2. decisions' = [decisions EXCEPT ![d] = row] /\ row.released = FALSE
    BY <2>1 DEF InsertDecision
  <2> QED
    BY <2>2
<1>2. decisions'[e] = decisions[e]
  BY <1>1 DEF IInv, TypeOK
<1> QED
  BY <1>2 DEF Recorded

\* A release publishes its decision, the present one, and no other.
LEMMA ReleaseShows ==
  ASSUME IInv, NEW s \in Sessions, Release(s), NEW e \in Decisions, decisions'[e] # decisions[e]
  PROVE  current = e /\ current' = e
<1>1. current = job[s].op.decision /\ current' = current
  BY ReleaseFinds DEF Release
<1>2. decisions' = decisions \/ ReleaseDecision(job[s].op.decision)
  BY DEF Release
<1> QED
  BY <1>1, <1>2 DEF ReleaseDecision, IInv, TypeOK

\* No superseded decision is published, however stale the page that asks.
THEOREM NoStaleRelease == Spec => ReleaseOnlyCurrent
<1>1. ASSUME IInv, [Next]_vars, NEW e \in Decisions,
             ~(e \in Recorded /\ decisions[e].released),
             decisions'[e] # None, decisions'[e].released
      PROVE  current = e /\ current' = e
  <2>1. decisions'[e] # decisions[e]
    BY <1>1 DEF Recorded
  <2>2. PICK s \in Sessions : Record(s) \/ Release(s)
    BY <1>1, <2>1, Writers
  <2>3. ~Record(s)
    BY <1>1, RecordHides
  <2> QED
    BY <1>1, <2>1, <2>2, <2>3, ReleaseShows
<1>2. IInv /\ [Next]_vars => [ReleasesCurrent]_vars
  BY <1>1 DEF ReleasesCurrent
<1> QED
  BY <1>2, Invariance, PTL DEF Spec, ReleaseOnlyCurrent

\* An answer is to the decision that is current, and replaces what its tab shows.
LEMMA RespondAnswers ==
  ASSUME IInv, NEW s \in Sessions, Respond(s), NEW e \in Decisions, responses'[e] # responses[e]
  PROVE  /\ current = e /\ Admitted
         /\ s \in Tabs /\ job[s] # None /\ tab[s] # None
         /\ tab[s].decision = e /\ tab[s].status = ResponseStatus(e)
<1> DEFINE op == job[s].op
<1>1. /\ Writing(s) /\ s \in Tabs /\ tab[s] # None /\ op.decision \in Decisions
      /\ current = op.decision /\ Admitted
      /\ tab[s].decision = op.decision /\ tab[s].version = op.version
      /\ job[s].saw.version = ResponseVersion(op.decision)
  BY RespondFinds
<1>2. /\ MaySave(op, job[s].saw)
      /\ responses' = [responses EXCEPT ![op.decision] = Saved(op.decision, op.status)]
  BY DEF Respond
<1>3. e = op.decision
  BY <1>2 DEF IInv, TypeOK
<1>4. tab[s].version = ResponseVersion(e)
  BY <1>1, <1>2, <1>3 DEF MaySave
<1>5. tab[s].status = ResponseStatus(e)
  BY <1>1, <1>3, <1>4 DEF IInv, TabsStand
<1> QED
  BY <1>1, <1>3, <1>5 DEF Writing

\* A stale tab never answers a later acceptance.
THEOREM AnswersTheCurrent == Spec => ResponsesToCurrent
<1>1. IInv /\ [Next]_vars => [AnswersCurrent]_vars
  BY Writers, RespondAnswers DEF AnswersCurrent
<1> QED
  BY <1>1, Invariance, PTL DEF Spec, ResponsesToCurrent

\* lock_version: no tab overwrites a choice it did not show.
THEOREM NoOverwrite == Spec => NoBlindOverwrite
<1>1. IInv /\ [Next]_vars => [AnswersShown]_vars
  <2> SUFFICES ASSUME IInv, [Next]_vars, NEW e \in Decisions, responses'[e] # responses[e]
               PROVE  \E t \in Tabs : /\ job[t] # None /\ tab[t] # None
                                      /\ tab[t].decision = e
                                      /\ tab[t].status = ResponseStatus(e)
    BY DEF AnswersShown
  <2>1. PICK s \in Sessions : Respond(s)
    BY Writers
  <2> QED
    BY <2>1, RespondAnswers
<1> QED
  BY <1>1, Invariance, PTL DEF Spec, NoBlindOverwrite

\* An organizer who waited for the locks activates a pass only while the
\* attendee's acceptance is current, released and confirmed.
THEOREM OnlyConfirmed == Spec => PassNeedsConfirmation
<1>1. ASSUME IInv, [Next]_vars, NEW p \in Passes,
             passes[p].status # "active", passes'[p].status = "active"
      PROVE  attendee /\ status = "accepted" /\ visible /\ ResponseStatus(current) = "confirmed"
  <2>1. PICK s \in Sessions : Issue(s) \/ Reissue(s) \/ Revoke(s)
    BY <1>1, Writers
  <2>2. ~Revoke(s)
    BY <1>1 DEF Revoke, IInv, TypeOK
  <2>3. Writing(s) /\ job[s].op.kind \in {"issue", "reissue"}
    BY <2>1, <2>2 DEF Issue, Reissue, Ready, Writing
  <2>4. Accepts(job[s].op)
    BY <1>1, <2>3 DEF IInv, ReadsStand
  <2>5. attendee /\ Admitted /\ Confirmed
    BY <2>3, <2>4 DEF Accepts, ForPass
  <2> QED
    BY <2>5 DEF Admitted, Confirmed
<1>2. IInv /\ [Next]_vars => [ActivatesConfirmed]_vars
  BY <1>1 DEF ActivatesConfirmed
<1> QED
  BY <1>2, Invariance, PTL DEF Spec, PassNeedsConfirmation

-------------------------------------------------------------------------------
(* The transactions implement the journey that was promised.               *)

\* The application's copy of its decision says whether Journey admits it.
LEMMA CopyTells ==
  ASSUME IInv, Admitted
  PROVE  current \in Decisions /\ Promised!Admitted
<1>1. current # None
  BY DEF IInv, CacheCoherent, Admitted
<1>2. current \in Recorded /\ decisions[current].outcome = "accepted" /\ decisions[current].released
  BY <1>1 DEF IInv, CacheCoherent, Admitted
<1> QED
  BY <1>1, <1>2 DEF Promised!Admitted, Recorded

\* The response a query finds is the one Journey has.
LEMMA SameResponse ==
  ASSUME NEW d \in Decisions, d = current
  PROVE  /\ Promised!Response.status = ResponseStatus(d)
         /\ Promised!Response.version = ResponseVersion(d)
BY DEF Promised!Response, ResponseStatus, ResponseVersion

\* requireConfirmedRSVP, still right at the commit.
LEMMA PassAllowed ==
  ASSUME IInv, NEW s \in Sessions, Writing(s), ForPass(job[s].op)
  PROVE  /\ Promised!Admitted
         /\ job[s].op.kind # "revoke" => Promised!Confirmed
<1>1. Accepts(job[s].op)
  BY DEF IInv, ReadsStand
<1>2. Admitted /\ (job[s].op.kind # "revoke" => Confirmed)
  BY <1>1 DEF Accepts, ForPass
<1>3. current \in Decisions /\ Promised!Admitted
  BY <1>2, CopyTells
<1>4. job[s].op.kind # "revoke" => Promised!Response.status = "confirmed"
  <2>1. PICK d \in Decisions : d = current
    BY <1>3
  <2> QED
    BY <1>2, <2>1, SameResponse DEF Confirmed
<1> QED
  BY <1>3, <1>4 DEF Promised!Confirmed

\* The decision that was read as the latest is in force at the commit.
LEMMA RecordPromised ==
  ASSUME IInv, NEW s \in Sessions, Record(s)
  PROVE  Promised!Record
<1>1. /\ Writing(s) /\ job[s].op.kind = "record" /\ job[s] \in Jobs
  BY DEF Record, Ready, Writing, IInv, TypeOK
<1>2. job[s].op \in Operations /\ job[s].op.outcome \in Outcomes
  BY <1>1, OperationTypes DEF Jobs
<1>3. job[s].saw.prior = current
  BY <1>1, <1>2, SeenTypes DEF IInv, ReadsStand
<1>4. PICK d \in Decisions \ Recorded :
        /\ InsertDecision(d, job[s].op.outcome, job[s].saw.prior)
        /\ UpdateApplicationDecisionCache(d, job[s].op.outcome)
  BY DEF Record
<1>5. decisions[d] = None
  BY DEF Recorded
<1>6. UNCHANGED <<responses, passes>>
  BY DEF Record
<1> QED
  BY <1>2, <1>3, <1>4, <1>5, <1>6
  DEF Promised!Record, InsertDecision, UpdateApplicationDecisionCache, Outcomes

LEMMA ReleasePromised ==
  ASSUME IInv, NEW s \in Sessions, Release(s)
  PROVE  Promised!Release \/ UNCHANGED Promised!vars
<1>1. PICK d \in Decisions : d = job[s].op.decision
  BY ReleaseFinds DEF Recorded
<1>2. current = d /\ current # None /\ job[s].saw.released = decisions[d].released
  BY <1>1, ReleaseFinds, NoneAssumption
<1>3. UNCHANGED <<current, responses, passes>>
  BY DEF Release
<1>4. CASE job[s].saw.released /\ UNCHANGED decisions
  BY <1>3, <1>4 DEF Promised!vars
<1>5. CASE ~job[s].saw.released /\ ReleaseDecision(d)
  BY <1>2, <1>3, <1>5 DEF Promised!Release, ReleaseDecision
<1> QED
  BY <1>1, <1>4, <1>5 DEF Release

\* The choice replaced is the one that was compared with the tab's.
LEMMA RespondPromised ==
  ASSUME IInv, NEW s \in Sessions, Respond(s)
  PROVE  Promised!Respond \/ UNCHANGED Promised!vars
<1>1. PICK d \in Decisions : d = job[s].op.decision
  BY RespondFinds
<1>2. /\ d = current /\ Admitted /\ job[s].op.status \in Answers
      /\ job[s].saw.status = ResponseStatus(d)
  BY <1>1, RespondFinds
<1>3. UNCHANGED <<current, decisions, passes>>
  BY DEF Respond, admission
<1>4. CASE UNCHANGED responses
  BY <1>3, <1>4 DEF Promised!vars
<1>5. CASE /\ MaySave(job[s].op, job[s].saw)
           /\ responses' = [responses EXCEPT ![d] = Saved(d, job[s].op.status)]
  <2>1. job[s].op.status \in {"confirmed", "declined"} \ {Promised!Response.status}
    BY <1>2, <1>5, SameResponse DEF MaySave, Answers
  <2>2. Saved(d, job[s].op.status)
          = [status |-> job[s].op.status, version |-> Promised!Response.version + 1]
    BY <1>2, SameResponse DEF Saved
  <2> QED
    BY <1>2, <1>3, <1>5, <2>1, <2>2, CopyTells DEF Promised!Respond
<1> QED
  BY <1>1, <1>4, <1>5 DEF Respond

LEMMA IssuePromised ==
  ASSUME IInv, NEW s \in Sessions, Issue(s)
  PROVE  Promised!Issue
<1>1. Writing(s) /\ ForPass(job[s].op) /\ job[s].op.kind # "revoke"
  BY DEF Issue, Ready, Writing, ForPass
<1>2. PICK p \in Passes \ Existing : passes' = [passes EXCEPT ![p] = NewPass]
  BY DEF Issue
<1>3. Promised!Active = {} /\ p \in Promised!Unused
  BY DEF Issue, Active, Existing, Promised!Active, Promised!Unused
<1> QED
  BY <1>1, <1>2, <1>3, PassAllowed
  DEF Promised!Issue, Promised!Fresh, NewPass, Issue, admission

\* The pass that is replaced is still the active one.
LEMMA ReissuePromised ==
  ASSUME IInv, NEW s \in Sessions, Reissue(s)
  PROVE  Promised!Reissue
<1>1. Writing(s) /\ ForPass(job[s].op) /\ job[s].op.kind # "revoke"
  BY DEF Reissue, Ready, Writing, ForPass
<1>2. PICK old \in Active : old = job[s].op.pass
  BY OldActive DEF Reissue
<1>3. PICK p \in Passes \ Existing :
        passes' = [passes EXCEPT ![old] = [status |-> "replaced", by |-> p], ![p] = NewPass]
  BY <1>2 DEF Reissue
<1>4. old \in Promised!Active /\ p \in Promised!Unused
  BY DEF Active, Existing, Promised!Active, Promised!Unused
<1> QED
  BY <1>1, <1>3, <1>4, PassAllowed
  DEF Promised!Reissue, Promised!Fresh, NewPass, Reissue, admission

LEMMA RevokePromised ==
  ASSUME IInv, NEW s \in Sessions, Revoke(s)
  PROVE  Promised!Revoke
<1>1. Writing(s) /\ ForPass(job[s].op)
  BY DEF Revoke, Ready, Writing, ForPass
<1>2. PICK old \in Active : old = job[s].op.pass
  BY OldActive DEF Revoke
<1>3. passes' = [passes EXCEPT ![old] = [status |-> "revoked", by |-> None]]
  BY <1>2 DEF Revoke
<1>4. old \in Promised!Active
  BY DEF Active, Promised!Active
<1> QED
  BY <1>1, <1>3, <1>4, PassAllowed DEF Promised!Revoke, Revoke, admission

\* Every step of a transaction is invisible or a step of the journey.
LEMMA StepPromised ==
  ASSUME IInv, [Next]_vars
  PROVE  [Promised!Next]_Promised!vars
<1>1. CASE UNCHANGED vars
  BY <1>1 DEF vars, admission, Promised!vars
<1>2. ASSUME NEW s \in Sessions,
             Begin(s) \/ LockRow(s) \/ ReadUnderLock(s) \/ LockLater(s) \/ Refuse(s)
      PROVE  UNCHANGED Promised!vars
  BY <1>2 DEF Begin, LockRow, ReadUnderLock, LockLater, Refuse, admission, Promised!vars
<1>3. ASSUME NEW t \in Tabs, View(t)
      PROVE  UNCHANGED Promised!vars
  BY <1>3 DEF View, admission, Promised!vars
<1>4. ASSUME NEW s \in Sessions,
             \/ Record(s) \/ Release(s) \/ Respond(s)
             \/ Issue(s) \/ Reissue(s) \/ Revoke(s)
      PROVE  Promised!Next \/ UNCHANGED Promised!vars
  BY <1>4, RecordPromised, ReleasePromised, RespondPromised,
     IssuePromised, ReissuePromised, RevokePromised DEF Promised!Next
<1> QED
  BY <1>1, <1>2, <1>3, <1>4 DEF Next

\* However many organizers and tabs act at once, what they bring about is one
\* line of changes, each allowed at the instant it is committed.
THEOREM Refinement == Spec => JourneySpec
<1>1. Init => Promised!Init
  BY DEF Init, Promised!Init
<1>2. IInv /\ [Next]_vars => [Promised!Next]_Promised!vars
  BY StepPromised
<1> QED
  BY <1>1, <1>2, Invariance, PTL DEF Spec, JourneySpec, Promised!Spec

===============================================================================
