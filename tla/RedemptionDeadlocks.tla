-------------------------- MODULE RedemptionDeadlocks --------------------------
(***************************************************************************)
(* Who can wait for whom in Redemption, for any number of sessions.  A     *)
(* scan locks checkpoint, pass, attendee, application; organizers lock     *)
(* checkpoint, attendee, application, pass.  The one place where the two   *)
(* orders disagree is the one place of a deadlock.                         *)
(***************************************************************************)
EXTENDS RedemptionProofs

\* The requests that lock the attendee.
Admits(op) == OfPass(op) \/ op.kind \in {"issue", "put_entitlement", "delete_entitlement"}

\* A row that a request may lock, given those it already has.
Ordered(op, locks, row) ==
  LET a == Subject(op)
      first == OfCheckpoint(op) => <<CheckpointRow(op.checkpoint), "update">> \in locks
  IN  \/ OfCheckpoint(op) /\ row = CheckpointRow(op.checkpoint)
      \/ Admits(op) /\ row = AttendeeRow(a) /\ first
      \/ /\ Admits(op) \/ OfDecision(op)
         /\ row = ApplicationRow(a) /\ first
         /\ Admits(op) => <<AttendeeRow(a), "update">> \in locks
      \/ /\ OfPass(op) \/ op.kind = "issue"
         /\ <<AttendeeRow(a), "update">> \in locks /\ <<ApplicationRow(a), "update">> \in locks
         /\ \E p \in Passes : Owner[p] = a /\ row = PassRow(p)

\* An organizer's locks, in order.
StaffOrdered(s) ==
  \A l \in held[s] : l[2] = "update" /\ job[s] # None /\ Ordered(job[s], held[s], l[1])

\* A row that a scan has locked by the step it is at.
Behind(c, row) ==
  \/ row = CheckpointRow(c.checkpoint) /\ c.pc \in PastCheckpoint
  \/ /\ c.qr \in Passes
     /\ \/ row = PassRow(c.qr) /\ c.pc \in PastPass
        \/ row = AttendeeRow(Owner[c.qr]) /\ c.pc \in PastAttendee
        \/ row = ApplicationRow(Owner[c.qr]) /\ c.pc \in PastApplication
  \/ row = KeyRow(c.key) /\ c.pc = "commit"

\* A scan has no locks but those of the steps behind it.
ScanOrdered(s) == \A l \in held[s] : Behind(scan[s], l[1])

\* Requests are of the kinds that are asked for.
JobsAsked == \A s \in Staff : job[s] # None => job[s].kind \in Kinds

LockOrder == /\ \A s \in Scanners : ScanOrdered(s)
             /\ \A s \in Staff : StaffOrdered(s)
             /\ JobsAsked

-------------------------------------------------------------------------------
(* The plan of a request.                                                  *)

LEMMA PlanDomain ==
  ASSUME NEW op \in Jobs
  PROVE  DOMAIN LockPlan(op) \subseteq Nat
<1>1. CASE op.kind \in {"update_checkpoint", "delete_checkpoint"}
  <2>1. LockPlan(op) = <<CheckpointRow(op.checkpoint)>>
    BY <1>1 DEF LockPlan, OfPass, OfDecision
  <2> QED BY <2>1
<1>2. CASE op.kind \in {"put_entitlement", "delete_entitlement"}
  <2>1. LockPlan(op) = <<CheckpointRow(op.checkpoint), AttendeeRow(Subject(op)),
                         ApplicationRow(Subject(op))>>
    BY <1>2 DEF LockPlan, OfPass, OfDecision
  <2> QED BY <2>1
<1>3. CASE OfPass(op)
  <2>1. LockPlan(op) = <<AttendeeRow(Subject(op)), ApplicationRow(Subject(op)),
                         PassRow(op.pass)>>
    BY <1>3 DEF LockPlan, OfPass, OfDecision
  <2> QED BY <2>1
<1>4. CASE op.kind = "issue" /\ ActivePasses(Subject(op)) # {}
  <2>1. LockPlan(op) = <<AttendeeRow(Subject(op)), ApplicationRow(Subject(op)),
                         PassRow(CHOOSE p \in ActivePasses(Subject(op)) : TRUE)>>
    BY <1>4 DEF LockPlan, OfPass, OfDecision
  <2> QED BY <2>1
<1>5. CASE op.kind = "issue" /\ ActivePasses(Subject(op)) = {}
  <2>1. LockPlan(op) = <<AttendeeRow(Subject(op)), ApplicationRow(Subject(op))>>
    BY <1>5 DEF LockPlan, OfPass, OfDecision
  <2> QED BY <2>1
<1>6. CASE OfDecision(op)
  <2>1. LockPlan(op) = <<ApplicationRow(Subject(op))>>
    BY <1>6 DEF LockPlan, OfPass, OfDecision
  <2> QED BY <2>1
<1> QED BY <1>1, <1>2, <1>3, <1>4, <1>5, <1>6, JobFields DEF AllKinds, OfPass, OfDecision

\* The next row of the plan may be locked.
LEMMA NextOrdered ==
  ASSUME TypeOK, NEW s \in Staff, job[s] # None,
         NEW i \in Unlocked(s), \A j \in Unlocked(s) : i <= j
  PROVE  /\ <<LockPlan(job[s])[i], "update">> \notin held[s]
         /\ Ordered(job[s], held[s], LockPlan(job[s])[i])
<1> DEFINE op == job[s]
           a == Subject(op)
<1>1. /\ op \in Jobs /\ i \in DOMAIN LockPlan(op)
      /\ <<LockPlan(op)[i], "update">> \notin held[s]
      /\ \A j \in DOMAIN LockPlan(op) : <<LockPlan(op)[j], "update">> \notin held[s] => i <= j
  BY DEF TypeOK, Unlocked
<1>2. CASE op.kind \in {"update_checkpoint", "delete_checkpoint"}
  <2>1. LockPlan(op) = <<CheckpointRow(op.checkpoint)>>
    BY <1>2 DEF LockPlan, OfPass, OfDecision
  <2> QED BY <1>1, <1>2, <2>1 DEF Ordered, OfCheckpoint
<1>3. CASE op.kind \in {"put_entitlement", "delete_entitlement"}
  <2>1. LockPlan(op) = <<CheckpointRow(op.checkpoint), AttendeeRow(a), ApplicationRow(a)>>
    BY <1>3 DEF LockPlan, OfPass, OfDecision
  <2> QED BY <1>1, <1>3, <2>1 DEF Ordered, OfCheckpoint, Admits
<1>4. CASE OfPass(op)
  <2>1. LockPlan(op) = <<AttendeeRow(a), ApplicationRow(a), PassRow(op.pass)>>
    BY <1>4 DEF LockPlan, OfPass, OfDecision
  <2>2. op.pass \in Passes /\ Owner[op.pass] = a /\ ~OfCheckpoint(op)
    BY <1>1, <1>4, JobFields DEF Subject, OfPass, OfCheckpoint
  <2> QED BY <1>1, <1>4, <2>1, <2>2 DEF Ordered, Admits
<1>5. CASE op.kind = "issue" /\ ActivePasses(a) # {}
  <2>1. PICK p \in ActivePasses(a) : p = CHOOSE q \in ActivePasses(a) : TRUE
    BY <1>5
  <2>2. LockPlan(op) = <<AttendeeRow(a), ApplicationRow(a), PassRow(p)>>
    BY <1>5, <2>1 DEF LockPlan, OfPass, OfDecision
  <2>3. p \in Passes /\ Owner[p] = a /\ ~OfCheckpoint(op)
    BY <1>5 DEF ActivePasses, OfCheckpoint
  <2> QED BY <1>1, <1>5, <2>2, <2>3 DEF Ordered, Admits
<1>6. CASE op.kind = "issue" /\ ActivePasses(a) = {}
  <2>1. LockPlan(op) = <<AttendeeRow(a), ApplicationRow(a)>>
    BY <1>6 DEF LockPlan, OfPass, OfDecision
  <2> QED BY <1>1, <1>6, <2>1 DEF Ordered, Admits, OfCheckpoint
<1>7. CASE OfDecision(op)
  <2>1. LockPlan(op) = <<ApplicationRow(a)>>
    BY <1>7 DEF LockPlan, OfPass, OfDecision
  <2> QED BY <1>1, <1>7, <2>1 DEF Ordered, Admits, OfCheckpoint, OfDecision, OfPass
<1> QED BY <1>1, <1>2, <1>3, <1>4, <1>5, <1>6, <1>7, JobFields
        DEF AllKinds, OfPass, OfDecision

-------------------------------------------------------------------------------
(* Every step keeps the order.                                             *)

\* More locks never break the order, and a scan that goes on leaves what it
\* has locked behind.
LEMMA OrderedGrows ==
  ASSUME NEW op, NEW few, NEW locks, few \subseteq locks, NEW row, Ordered(op, few, row)
  PROVE  Ordered(op, locks, row)
BY DEF Ordered

LEMMA BehindGrows ==
  ASSUME NEW c, NEW d, NEW row, Behind(c, row),
         d.key = c.key, d.qr = c.qr, d.checkpoint = c.checkpoint,
         c.pc \in PastCheckpoint => d.pc \in PastCheckpoint,
         c.pc \in PastPass => d.pc \in PastPass,
         c.pc \in PastAttendee => d.pc \in PastAttendee,
         c.pc \in PastApplication => d.pc \in PastApplication,
         c.pc # "commit"
  PROVE  Behind(d, row)
BY DEF Behind

LEMMA InitOrder == Init => LockOrder
<1> SUFFICES ASSUME Init PROVE LockOrder
  OBVIOUS
<1>1. \A s \in Sessions : held[s] = {}
  BY DEF Init
<1>2. \A s \in Staff : job[s] = None
  BY DEF Init
<1> QED BY <1>1, <1>2 DEF LockOrder, ScanOrdered, StaffOrdered, JobsAsked, Sessions

LEMMA OwnScanOrdered ==
  ASSUME IInv, NEW s \in Scanners, ScanOrdered(s),
         Begin(s) \/ ScannerStep(s) \/ Abort(s)
  PROVE  ScanOrdered(s)'
<1> DEFINE c == scan[s]
           d == scan'[s]
<1>1. /\ scan \in [Scanners -> ScanState] /\ s \in Sessions
      /\ held \in [Sessions -> SUBSET (LockRows \X Modes)]
      /\ ScanPlaced(s)
  BY DEF IInv, TypeOK, Sessions
<1>2. ASSUME held'[s] = {}
      PROVE  ScanOrdered(s)'
  BY <1>2 DEF ScanOrdered
<1>3. ASSUME d.key = c.key, d.qr = c.qr, d.checkpoint = c.checkpoint,
             c.pc \in PastCheckpoint => d.pc \in PastCheckpoint,
             c.pc \in PastPass => d.pc \in PastPass,
             c.pc \in PastAttendee => d.pc \in PastAttendee,
             c.pc \in PastApplication => d.pc \in PastApplication,
             c.pc # "commit",
             \/ held' = held
             \/ \E row \in LockRows, mode \in Modes :
                  Lock(s, row, mode) /\ Behind(d, row)
      PROVE  ScanOrdered(s)'
  <2>1. \A l \in held[s] : Behind(d, l[1])
    BY <1>3, BehindGrows DEF ScanOrdered
  <2>2. \A l \in held'[s] \ held[s] : Behind(d, l[1])
    BY <1>1, <1>3 DEF Lock
  <2> QED BY <2>1, <2>2 DEF ScanOrdered
<1>4. CASE Begin(s)
  <2>1. c.pc = "idle" /\ held' = held
    BY <1>4 DEF Begin, At
  <2>2. held[s] = {}
    BY <2>1 DEF ScanOrdered, Behind, PastCheckpoint, PastPass, PastAttendee,
                PastApplication, Steps
  <2> QED BY <1>2, <2>1, <2>2
<1>5. CASE Abort(s) \/ Commit(s) \/ RetryAttempt(s)
  BY <1>1, <1>2, <1>5 DEF Abort, Commit, RetryAttempt, Finish, Unlock
<1>6. CASE FindRequest(s)
  <2>1. CASE Finish(s)
    BY <1>1, <1>2, <2>1 DEF Finish, Unlock
  <2>2. CASE ~Finish(s)
    <3>1. c.pc = "find" /\ Go(s, "checkpoint") /\ held' = held
      BY <1>6, <2>2 DEF FindRequest, At
    <3>2. d.key = c.key /\ d.qr = c.qr /\ d.checkpoint = c.checkpoint
      BY <1>1, <3>1, GoEffect DEF Steps
    <3> QED BY <1>3, <3>1, <3>2 DEF PastCheckpoint, PastPass, PastAttendee, PastApplication
  <2> QED BY <2>1, <2>2
<1>7. CASE LockCheckpoint(s)
  <2>1. CASE Finish(s)
    BY <1>1, <1>2, <2>1 DEF Finish, Unlock
  <2>2. CASE ~Finish(s)
    <3>1. /\ c.pc = "checkpoint" /\ Lock(s, CheckpointRow(c.checkpoint), "share")
          /\ Configure(s, checkpoints[c.checkpoint])
      BY <1>7, <2>2 DEF LockCheckpoint, At
    <3>2. /\ d.key = c.key /\ d.qr = c.qr /\ d.checkpoint = c.checkpoint
          /\ d.pc \in {"insert", "pass"}
      BY <1>1, <3>1, ConfigureEffect
    <3>3. c.checkpoint \in Checkpoints
      BY <1>1, <3>1 DEF ScanPlaced
    <3>4. Behind(d, CheckpointRow(c.checkpoint))
      BY <3>2 DEF Behind, PastCheckpoint, Steps
    <3>5. CheckpointRow(c.checkpoint) \in LockRows /\ "share" \in Modes
      BY <3>3, RowTypes DEF Modes
    <3> QED BY <1>3, <3>1, <3>2, <3>4, <3>5
            DEF PastCheckpoint, PastPass, PastAttendee, PastApplication, Steps
  <2> QED BY <2>1, <2>2
<1>8. CASE LockPass(s)
  <2>1. CASE Decide(s, "invalid_pass", 0) /\ c.pc = "pass" /\ held' = held
    <3>1. /\ d.key = c.key /\ d.qr = c.qr /\ d.checkpoint = c.checkpoint
          /\ d.pc = "insert"
      BY <1>1, <2>1, DecideEffect
    <3> QED BY <1>3, <2>1, <3>1
            DEF PastCheckpoint, PastPass, PastAttendee, PastApplication, Steps
  <2>2. CASE /\ c.qr \in Passes /\ c.pc = "pass" /\ Go(s, "attendee")
             /\ Lock(s, PassRow(c.qr), "update")
    <3>1. /\ d.key = c.key /\ d.qr = c.qr /\ d.checkpoint = c.checkpoint
          /\ d.pc = "attendee"
      BY <1>1, <2>2, GoEffect DEF Steps
    <3>2. Behind(d, PassRow(c.qr))
      BY <2>2, <3>1 DEF Behind, PastCheckpoint, PastPass, Steps
    <3>3. PassRow(c.qr) \in LockRows /\ "update" \in Modes
      BY <2>2, RowTypes DEF Modes
    <3> QED BY <1>3, <2>2, <3>1, <3>2, <3>3
            DEF PastCheckpoint, PastPass, PastAttendee, PastApplication, Steps
  <2> QED BY <1>8, <2>1, <2>2 DEF LockPass, At
<1>9. CASE LockAttendee(s)
  <2>1. /\ c.pc = "attendee" /\ Go(s, "application")
        /\ Lock(s, AttendeeRow(Owner[c.qr]), "update")
    BY <1>9 DEF LockAttendee, At
  <2>2. /\ d.key = c.key /\ d.qr = c.qr /\ d.checkpoint = c.checkpoint
        /\ d.pc = "application"
    BY <1>1, <2>1, GoEffect DEF Steps
  <2>3. c.qr \in Passes /\ Owner[c.qr] \in Attendees
    BY <1>1, <2>1, OwnerAssumption DEF ScanPlaced, Steps
  <2>4. Behind(d, AttendeeRow(Owner[c.qr]))
    BY <2>2, <2>3 DEF Behind, PastCheckpoint, PastPass, PastAttendee, Steps
  <2>5. AttendeeRow(Owner[c.qr]) \in LockRows /\ "update" \in Modes
    BY <2>3, RowTypes DEF Modes
  <2> QED BY <1>3, <2>1, <2>2, <2>4, <2>5
          DEF PastCheckpoint, PastPass, PastAttendee, PastApplication, Steps
<1>10. CASE LockApplication(s)
  <2>1. /\ c.pc = "application" /\ Lock(s, ApplicationRow(Owner[c.qr]), "update")
        /\ Go(s, "entitlement") \/ Decide(s, Refusal(c), 0)
    BY <1>10 DEF LockApplication, At
  <2>2. /\ d.key = c.key /\ d.qr = c.qr /\ d.checkpoint = c.checkpoint
        /\ d.pc \in {"entitlement", "insert"}
    BY <1>1, <2>1, GoEffect, DecideEffect DEF Steps
  <2>3. c.qr \in Passes /\ Owner[c.qr] \in Attendees
    BY <1>1, <2>1, OwnerAssumption DEF ScanPlaced, Steps
  <2>4. Behind(d, ApplicationRow(Owner[c.qr]))
    BY <2>2, <2>3 DEF Behind, PastCheckpoint, PastPass, PastAttendee,
                      PastApplication, Steps
  <2>5. ApplicationRow(Owner[c.qr]) \in LockRows /\ "update" \in Modes
    BY <2>3, RowTypes DEF Modes
  <2> QED BY <1>3, <2>1, <2>2, <2>4, <2>5
          DEF PastCheckpoint, PastPass, PastAttendee, PastApplication, Steps
<1>11. CASE EffectiveEntitlement(s) \/ CountRedemptions(s)
  <2>1. c.pc \in {"entitlement", "count"} /\ held' = held
    BY <1>11 DEF EffectiveEntitlement, CountRedemptions, At
  <2>2. \/ \E o, n : Decide(s, o, n)
        \/ \E r : scan' = [scan EXCEPT ![s] = [@ EXCEPT !.pc = "count", !.rule = r]]
    BY <1>11 DEF EffectiveEntitlement, CountRedemptions
  <2>3. ASSUME NEW r,
               scan' = [scan EXCEPT ![s] = [@ EXCEPT !.pc = "count", !.rule = r]]
        PROVE  /\ d.key = c.key /\ d.qr = c.qr /\ d.checkpoint = c.checkpoint
               /\ d.pc = "count"
    BY <1>1, <2>3 DEF ScanState
  <2>4. /\ d.key = c.key /\ d.qr = c.qr /\ d.checkpoint = c.checkpoint
        /\ d.pc \in {"count", "insert"}
    BY <1>1, <2>2, <2>3, DecideEffect
  <2> QED BY <1>3, <2>1, <2>4
          DEF PastCheckpoint, PastPass, PastAttendee, PastApplication, Steps
<1>12. CASE InsertRequest(s)
  <2>1. /\ c.pc = "insert" /\ Go(s, "commit") /\ Lock(s, KeyRow(c.key), "update")
    BY <1>12 DEF InsertRequest, At
  <2>2. /\ d.key = c.key /\ d.qr = c.qr /\ d.checkpoint = c.checkpoint
        /\ d.pc = "commit"
    BY <1>1, <2>1, GoEffect DEF Steps
  <2>3. Behind(d, KeyRow(c.key))
    BY <2>2 DEF Behind
  <2>4. KeyRow(c.key) \in LockRows /\ "update" \in Modes
    BY <1>1, <2>1, RowTypes DEF ScanPlaced, Modes
  <2> QED BY <1>3, <2>1, <2>2, <2>3, <2>4
          DEF PastCheckpoint, PastPass, PastAttendee, PastApplication, Steps
<1> QED BY <1>4, <1>5, <1>6, <1>7, <1>8, <1>9, <1>10, <1>11, <1>12 DEF ScannerStep

LEMMA OwnStaffOrdered ==
  ASSUME IInv, NEW s \in Staff, StaffOrdered(s),
         BeginJob(s) \/ StaffStep(s) \/ AbortJob(s)
  PROVE  StaffOrdered(s)'
<1>1. /\ TypeOK /\ JobStands(s) /\ s \in Sessions
      /\ held \in [Sessions -> SUBSET (LockRows \X Modes)]
  BY DEF IInv, TypeOK, Sessions
<1>2. ASSUME held'[s] = {}
      PROVE  StaffOrdered(s)'
  BY <1>2 DEF StaffOrdered
<1>3. CASE BeginJob(s)
  BY <1>1, <1>2, <1>3 DEF BeginJob, JobStands
<1>4. CASE LockNext(s)
  <2> DEFINE op == job[s]
  <2>1. PICK i \in Unlocked(s) : /\ \A j \in Unlocked(s) : i <= j
                                 /\ Lock(s, LockPlan(op)[i], "update")
    BY <1>4 DEF LockNext
  <2>2. op # None /\ job' = job
    BY <1>4 DEF LockNext
  <2>3. Ordered(op, held[s], LockPlan(op)[i])
    BY <1>1, <2>1, <2>2, NextOrdered
  <2>4. held'[s] = held[s] \cup {<<LockPlan(op)[i], "update">>}
    BY <1>1, <2>1 DEF Lock
  <2> DEFINE row == LockPlan(op)[i]
  <2>5. ASSUME NEW l \in held'[s]
        PROVE  l[2] = "update" /\ Ordered(op, held[s], l[1])
    <3>1. CASE l \in held[s]
      BY <3>1 DEF StaffOrdered
    <3>2. CASE l = <<row, "update">>
      <4> HIDE DEF row
      <4>1. l[1] = row /\ l[2] = "update"
        BY <3>2
      <4> QED BY <2>3, <4>1 DEF row
    <3> QED BY <2>4, <2>5, <3>1, <3>2
  <2>6. \A l \in held'[s] : Ordered(op, held'[s], l[1])
    BY <2>4, <2>5, OrderedGrows
  <2> QED BY <2>2, <2>5, <2>6 DEF StaffOrdered
<1>5. CASE EndJob(s)
  BY <1>1, <1>2, <1>5 DEF EndJob, Unlock
<1> QED BY <1>3, <1>4, <1>5
        DEF StaffStep, AbortJob, PutEntitlement, DeleteEntitlement, UpdateCheckpoint,
            DeleteCheckpoint, Issue, Reissue, Revoke, RecordDecision, ReleaseDecision

LEMMA AskedStep ==
  ASSUME TypeOK, JobsAsked, NEW s \in Staff, BeginJob(s) \/ StaffStep(s) \/ AbortJob(s)
  PROVE  job'[s] # None => job'[s].kind \in Kinds
<1>1. job \in [Staff -> Jobs \cup {None}]
  BY DEF TypeOK
<1>2. CASE BeginJob(s)
  BY <1>1, <1>2 DEF BeginJob
<1>3. CASE job' = job
  BY <1>3 DEF JobsAsked
<1>4. CASE EndJob(s)
  BY <1>1, <1>4 DEF EndJob
<1> QED BY <1>2, <1>3, <1>4
        DEF StaffStep, AbortJob, LockNext, PutEntitlement, DeleteEntitlement,
            UpdateCheckpoint, DeleteCheckpoint, Issue, Reissue, Revoke,
            RecordDecision, ReleaseDecision

LEMMA OrderStep ==
  ASSUME IInv, LockOrder, [Next]_vars
  PROVE  LockOrder'
<1>1. TypeOK
  BY DEF IInv
<1>2. CASE UNCHANGED <<scan, job, held>>
  BY <1>2 DEF LockOrder, ScanOrdered, StaffOrdered, JobsAsked
<1>3. ASSUME NEW s \in Scanners, Begin(s) \/ ScannerStep(s) \/ Abort(s)
      PROVE  LockOrder'
  <2>1. ScanOrdered(s)'
    BY <1>3, OwnScanOrdered DEF LockOrder
  <2>2. /\ \A t \in Scanners \ {s} : scan'[t] = scan[t] /\ held'[t] = held[t]
        /\ \A t \in Staff : held'[t] = held[t]
        /\ job' = job
    BY <1>1, <1>3, ScannerLocal
  <2>3. \A t \in Scanners \ {s} : ScanOrdered(t)'
    BY <2>2 DEF LockOrder, ScanOrdered
  <2>4. \A t \in Staff : StaffOrdered(t)'
    BY <2>2 DEF LockOrder, StaffOrdered
  <2> QED BY <2>1, <2>2, <2>3, <2>4 DEF LockOrder, JobsAsked
<1>4. ASSUME NEW s \in Staff, BeginJob(s) \/ StaffStep(s) \/ AbortJob(s)
      PROVE  LockOrder'
  <2>1. StaffOrdered(s)'
    BY <1>4, OwnStaffOrdered DEF LockOrder
  <2>2. /\ scan' = scan
        /\ \A t \in Sessions \ {s} : held'[t] = held[t]
        /\ \A t \in Staff \ {s} : job'[t] = job[t]
    BY <1>1, <1>4, StaffLocal
  <2>3. \A t \in Scanners : ScanOrdered(t)'
    BY <2>2, SessionsAssumption DEF LockOrder, ScanOrdered, Sessions
  <2>4. \A t \in Staff \ {s} : StaffOrdered(t)'
    BY <2>2 DEF LockOrder, StaffOrdered, Sessions
  <2>5. job'[s] # None => job'[s].kind \in Kinds
    BY <1>1, <1>4, AskedStep DEF LockOrder
  <2> QED BY <2>1, <2>2, <2>3, <2>4, <2>5 DEF LockOrder, JobsAsked
<1> QED BY <1>2, <1>3, <1>4 DEF Next, Tick, vars

\* At every moment all locks are in order.
LEMMA Order == Spec => [](IInv /\ LockOrder)
BY InitOrder, OrderStep, Invariance, PTL DEF Spec

-------------------------------------------------------------------------------
(* Who waits for what.                                                     *)

LEMMA RowsDiffer ==
  ASSUME NEW x, NEW y
  PROVE  /\ CheckpointRow(x) # PassRow(y) /\ CheckpointRow(x) # AttendeeRow(y)
         /\ CheckpointRow(x) # ApplicationRow(y) /\ CheckpointRow(x) # KeyRow(y)
         /\ PassRow(x) # AttendeeRow(y) /\ PassRow(x) # ApplicationRow(y)
         /\ PassRow(x) # KeyRow(y) /\ AttendeeRow(x) # ApplicationRow(y)
         /\ AttendeeRow(x) # KeyRow(y) /\ ApplicationRow(x) # KeyRow(y)
         /\ CheckpointRow(x) = CheckpointRow(y) => x = y
         /\ PassRow(x) = PassRow(y) => x = y
         /\ AttendeeRow(x) = AttendeeRow(y) => x = y
         /\ ApplicationRow(x) = ApplicationRow(y) => x = y
         /\ KeyRow(x) = KeyRow(y) => x = y
BY DEF CheckpointRow, PassRow, AttendeeRow, ApplicationRow, KeyRow

\* Whoever waits, waits for a row some session has locked.
LEMMA WaitsFor ==
  ASSUME TypeOK, NEW s \in Sessions, NEW t \in Sessions, t \in Waits[s]
  PROVE  /\ t # s
         /\ \E w \in Wants(s) : \E m \in Modes : <<w[1], m>> \in held[t]
BY DEF Waits, Blockers, TypeOK

\* A scan waits for the row of its next step and for no other.
LEMMA ScannerWait ==
  ASSUME NEW s \in Scanners, NEW w \in Wants(s)
  PROVE  LET c == scan[s]
         IN  \/ c.pc = "checkpoint" /\ w = <<CheckpointRow(c.checkpoint), "share">>
             \/ c.pc = "pass" /\ w = <<PassRow(c.qr), "update">>
             \/ c.pc = "attendee" /\ w = <<AttendeeRow(Owner[c.qr]), "update">>
             \/ c.pc = "application" /\ w = <<ApplicationRow(Owner[c.qr]), "update">>
             \/ c.pc = "insert" /\ w = <<KeyRow(c.key), "update">>
BY DEF Wants, ScannerWants

\* An organizer waits for one row, the next that may be locked.
LEMMA StaffWait ==
  ASSUME TypeOK, NEW s \in Staff, NEW w \in Wants(s)
  PROVE  /\ job[s] \in Jobs /\ job[s] # None
         /\ w \notin held[s] /\ w = <<w[1], "update">>
         /\ Ordered(job[s], held[s], w[1])
         /\ Wants(s) = {w}
         /\ \E i \in Unlocked(s) : w[1] = LockPlan(job[s])[i]
<1>1. s \notin Scanners
  BY SessionsAssumption
<1>2. job[s] # None /\ job[s] \in Jobs
  BY <1>1 DEF Wants, StaffWants, TypeOK
<1>3. DOMAIN LockPlan(job[s]) \subseteq Nat
  BY <1>2, PlanDomain
<1>4. Wants(s) = {<<LockPlan(job[s])[i], "update">> :
                    i \in {i \in Unlocked(s) : \A j \in Unlocked(s) : i <= j}}
  BY <1>1, <1>2 DEF Wants, StaffWants
<1>5. PICK i \in Unlocked(s) : /\ \A j \in Unlocked(s) : i <= j
                               /\ w = <<LockPlan(job[s])[i], "update">>
  BY <1>4
<1>6. \A k \in Unlocked(s) : (\A j \in Unlocked(s) : k <= j) => k = i
  BY <1>3, <1>5 DEF Unlocked
<1>7. Wants(s) = {w}
  BY <1>4, <1>5, <1>6
<1> DEFINE row == LockPlan(job[s])[i]
<1>8. <<row, "update">> \notin held[s] /\ Ordered(job[s], held[s], row)
  BY <1>2, <1>5, NextOrdered
<1>9. w = <<row, "update">>
  BY <1>5
<1> HIDE DEF row
<1>10. w[1] = row
  BY <1>9
<1> QED BY <1>2, <1>5, <1>7, <1>8, <1>9, <1>10

\* Two sessions never both hold a row for update.
LEMMA OneUpdates ==
  ASSUME IInv, NEW s \in Sessions, NEW t \in Sessions, s # t,
         NEW row \in LockRows, NEW m \in Modes,
         <<row, "update">> \in held[s], <<row, m>> \in held[t]
  PROVE  FALSE
BY DEF IInv, LocksExclude, Compatible, Modes

\* Whoever has an attendee's application has the attendee too, unless it
\* changes a decision, which locks nothing else.
LEMMA ApplicationHolder ==
  ASSUME IInv, LockOrder, NEW t \in Sessions, Wants(t) # {},
         NEW a \in Attendees, NEW m \in Modes, <<ApplicationRow(a), m>> \in held[t]
  PROVE  <<AttendeeRow(a), "update">> \in held[t]
<1> DEFINE l == <<ApplicationRow(a), m>>
<1>1. l[1] = ApplicationRow(a) /\ l \in held[t]
  OBVIOUS
<1>2. CASE t \in Scanners
  <2>1. Behind(scan[t], ApplicationRow(a)) /\ ScanPlaced(t)
    BY <1>1, <1>2 DEF LockOrder, ScanOrdered, IInv
  <2>2. /\ scan[t].qr \in Passes /\ scan[t].pc \in PastApplication
        /\ a = Owner[scan[t].qr]
    BY <2>1, RowsDiffer DEF Behind
  <2>3. scan[t].pc \in PastAttendee
    BY <2>2 DEF PastApplication
  <2> QED BY <2>1, <2>2, <2>3 DEF ScanPlaced
<1>3. CASE t \in Staff
  <2> DEFINE op == job[t]
  <2>1. op # None /\ Ordered(op, held[t], ApplicationRow(a)) /\ l[2] = "update"
    BY <1>1, <1>3 DEF LockOrder, StaffOrdered
  <2>2. /\ Admits(op) \/ OfDecision(op)
        /\ a = Subject(op)
        /\ Admits(op) => <<AttendeeRow(a), "update">> \in held[t]
    BY <2>1, RowsDiffer DEF Ordered
  <2>3. CASE OfDecision(op)
    <3>1. LockPlan(op) = <<ApplicationRow(a)>>
      BY <2>2, <2>3 DEF LockPlan, OfDecision, OfPass
    <3>2. PICK w \in Wants(t) : TRUE
      OBVIOUS
    <3>3. TypeOK
      BY DEF IInv
    <3>4. PICK i \in Unlocked(t) : w[1] = LockPlan(op)[i]
      BY <1>3, <3>3, StaffWait
    <3>5. w[1] = ApplicationRow(a)
      BY <3>1, <3>4 DEF Unlocked
    <3>6. w \notin held[t] /\ w = <<ApplicationRow(a), "update">>
      BY <1>3, <3>3, <3>5, StaffWait
    <3>7. m = "update"
      BY <2>1
    <3> QED BY <3>6, <3>7
  <2> QED BY <2>2, <2>3
<1> QED BY <1>2, <1>3 DEF Sessions

\* Whatever session holds a row came by it in the order of the code.
LEMMA ScannerHolds ==
  ASSUME LockOrder, NEW t \in Scanners, NEW row, NEW m, <<row, m>> \in held[t]
  PROVE  Behind(scan[t], row)
BY DEF LockOrder, ScanOrdered

LEMMA StaffHolds ==
  ASSUME LockOrder, NEW t \in Staff, NEW row, NEW m, <<row, m>> \in held[t]
  PROVE  m = "update" /\ job[t] # None /\ Ordered(job[t], held[t], row)
BY DEF LockOrder, StaffOrdered

\* A session waits for one row at a time.
LEMMA OneWant ==
  ASSUME TypeOK, NEW s \in Sessions, NEW v \in Wants(s), NEW w \in Wants(s)
  PROVE  v = w
<1>1. CASE s \in Scanners
  BY <1>1, ScannerWait
<1>2. CASE s \in Staff
  BY <1>2, StaffWait
<1> QED BY <1>1, <1>2 DEF Sessions

\* The kinds of requests are told apart.
LEMMA KindsDiffer ==
  ASSUME NEW op
  PROVE  /\ OfCheckpoint(op) => ~OfPass(op) /\ ~OfDecision(op) /\ op.kind # "issue"
         /\ OfDecision(op) => ~OfPass(op) /\ ~Admits(op) /\ op.kind # "issue"
         /\ OfPass(op) \/ op.kind = "issue" => Admits(op)
BY DEF OfCheckpoint, OfPass, OfDecision, Admits

LEMMA SubjectType ==
  ASSUME NEW op \in Jobs, Admits(op) \/ OfDecision(op)
  PROVE  Subject(op) \in Attendees
<1>1. CASE OfPass(op)
  BY <1>1, JobFields, OwnerAssumption DEF Subject
<1>2. CASE ~OfPass(op)
  <2>1. op.kind \notin {"update_checkpoint", "delete_checkpoint"}
    BY <1>2 DEF Admits, OfDecision, OfPass
  <2> QED BY <1>2, <2>1, JobFields DEF Subject
<1> QED BY <1>1, <1>2

\* A session that waits for a checkpoint row has no lock at all.
LEMMA CheckpointFirst ==
  ASSUME IInv, LockOrder, NEW s \in Sessions, NEW c,
         NEW w \in Wants(s), w[1] = CheckpointRow(c)
  PROVE  \A row, m : <<row, m>> \notin held[s]
<1> SUFFICES ASSUME NEW row, NEW m, <<row, m>> \in held[s]
             PROVE  FALSE
  OBVIOUS
<1>1. TypeOK
  BY DEF IInv
<1>2. CASE s \in Scanners
  <2>1. scan[s].pc = "checkpoint"
    BY <1>2, ScannerWait, RowsDiffer
  <2>2. Behind(scan[s], row)
    BY <1>2, ScannerHolds
  <2> QED BY <2>1, <2>2
          DEF Behind, PastCheckpoint, PastPass, PastAttendee, PastApplication, Steps
<1>3. CASE s \in Staff
  <2> DEFINE op == job[s]
  <2>1. /\ Ordered(op, held[s], CheckpointRow(c))
        /\ <<CheckpointRow(c), "update">> \notin held[s]
    BY <1>1, <1>3, StaffWait
  <2>2. OfCheckpoint(op) /\ c = op.checkpoint
    BY <2>1, RowsDiffer DEF Ordered
  <2>3. m = "update" /\ Ordered(op, held[s], row)
    BY <1>3, StaffHolds
  <2>4. row = CheckpointRow(c)
    BY <2>1, <2>2, <2>3, KindsDiffer DEF Ordered
  <2> QED BY <2>1, <2>3, <2>4
<1> QED BY <1>2, <1>3 DEF Sessions

\* A scan that waits for its pass has only the checkpoint; an organizer that
\* waits for an attendee has only the checkpoint; one that waits for an
\* application without having locked the attendee has nothing.
LEMMA ScanPassNext ==
  ASSUME LockOrder, NEW s \in Scanners, scan[s].pc = "pass",
         NEW row, NEW m, <<row, m>> \in held[s]
  PROVE  \E c : row = CheckpointRow(c)
<1>1. Behind(scan[s], row)
  BY ScannerHolds
<1> QED BY <1>1 DEF Behind, PastPass, PastAttendee, PastApplication, Steps

LEMMA StaffAttendeeNext ==
  ASSUME IInv, LockOrder, NEW s \in Staff, NEW a,
         NEW w \in Wants(s), w[1] = AttendeeRow(a),
         NEW row, NEW m, <<row, m>> \in held[s]
  PROVE  \E c : row = CheckpointRow(c)
<1> DEFINE op == job[s]
<1>1. /\ Ordered(op, held[s], AttendeeRow(a))
      /\ <<AttendeeRow(a), "update">> \notin held[s]
  BY StaffWait DEF IInv
<1>2. Admits(op) /\ a = Subject(op)
  BY <1>1, RowsDiffer DEF Ordered
<1>3. m = "update" /\ Ordered(op, held[s], row)
  BY StaffHolds
<1> QED BY <1>1, <1>2, <1>3 DEF Ordered

LEMMA ApplicationNext ==
  ASSUME IInv, LockOrder, NEW s \in Sessions, NEW a,
         NEW w \in Wants(s), w[1] = ApplicationRow(a)
  PROVE  /\ a \in Attendees
         /\ \/ <<AttendeeRow(a), "update">> \in held[s]
            \/ \A row, m : <<row, m>> \notin held[s]
<1>1. TypeOK
  BY DEF IInv
<1>2. CASE s \in Scanners
  <2>1. scan[s].pc = "application" /\ a = Owner[scan[s].qr] /\ ScanPlaced(s)
    BY <1>2, ScannerWait, RowsDiffer DEF IInv
  <2>2. scan[s].qr \in Passes
    BY <2>1 DEF ScanPlaced, Steps
  <2> QED BY <2>1, <2>2, OwnerAssumption
          DEF ScanPlaced, PastAttendee, PastPass, PastCheckpoint, Steps
<1>3. CASE s \in Staff
  <2> DEFINE op == job[s]
  <2>1. /\ Ordered(op, held[s], ApplicationRow(a)) /\ op \in Jobs
        /\ <<ApplicationRow(a), "update">> \notin held[s]
    BY <1>1, <1>3, StaffWait
  <2>2. /\ Admits(op) \/ OfDecision(op)
        /\ a = Subject(op)
        /\ Admits(op) => <<AttendeeRow(a), "update">> \in held[s]
    BY <2>1, RowsDiffer DEF Ordered
  <2>3. a \in Attendees
    BY <2>1, <2>2, SubjectType
  <2>4. ASSUME OfDecision(op), NEW row, NEW m, <<row, m>> \in held[s]
        PROVE  FALSE
    <3>1. m = "update" /\ Ordered(op, held[s], row)
      BY <1>3, <2>4, StaffHolds
    <3>2. row = ApplicationRow(a)
      BY <2>2, <2>4, <3>1, KindsDiffer DEF Ordered
    <3> QED BY <2>1, <2>4, <3>1, <3>2
  <2> QED BY <2>2, <2>3, <2>4
<1> QED BY <1>2, <1>3 DEF Sessions

\* Only scans that are about to commit have an idempotency key, and they wait
\* for nothing.
LEMMA KeyLast ==
  ASSUME LockOrder, NEW t \in Sessions, NEW k, NEW m, <<KeyRow(k), m>> \in held[t]
  PROVE  Wants(t) = {}
<1>1. CASE t \in Scanners
  <2>1. Behind(scan[t], KeyRow(k))
    BY <1>1, ScannerHolds
  <2>2. scan[t].pc = "commit"
    BY <2>1, RowsDiffer DEF Behind
  <2> QED BY <1>1, <2>2 DEF Wants, ScannerWants
<1>2. CASE t \in Staff
  <2>1. Ordered(job[t], held[t], KeyRow(k))
    BY <1>2, StaffHolds
  <2> QED BY <2>1, RowsDiffer DEF Ordered
<1> QED BY <1>1, <1>2 DEF Sessions

-------------------------------------------------------------------------------
(* Where deadlocks are possible.                                           *)

\* The sessions of S are in a deadlock: each waits for one of them, and holds
\* what one of them waits for.
Stuck(S) ==
  \A s \in S : Waits[s] \cap S # {} /\ \E t \in S : s \in Waits[t]

LEMMA StuckShape ==
  ASSUME IInv, LockOrder, NEW S \in SUBSET Sessions, Stuck(S), NEW s \in S
  PROVE  IF s \in Scanners THEN scan[s].pc = "attendee"
         ELSE \E t \in S \cap Scanners :
                Wants(s) = {<<PassRow(scan[t].qr), "update">>}
<1>1. TypeOK
  BY DEF IInv
<1>2. ASSUME NEW u \in S
      PROVE  \E t \in S : t # u /\ \E w \in Wants(u) : \E m \in Modes :
                                      <<w[1], m>> \in held[t]
  <2>1. PICK t \in S : t \in Waits[u]
    BY DEF Stuck
  <2> QED BY <1>1, <2>1, WaitsFor
<1>3. ASSUME NEW u \in S
      PROVE  \E t \in S : \E w \in Wants(t) : \E m \in Modes : <<w[1], m>> \in held[u]
  <2>1. PICK t \in S : u \in Waits[t]
    BY DEF Stuck
  <2> QED BY <1>1, <2>1, WaitsFor
<1>4. ASSUME NEW u \in S, NEW w \in Wants(u), NEW c
      PROVE  w[1] # CheckpointRow(c)
  BY <1>3, <1>4, CheckpointFirst
<1>5. ASSUME NEW u \in S, u \in Scanners
      PROVE  scan[u].pc # "pass"
  <2>1. PICK t \in S : \E w \in Wants(t) : \E m \in Modes : <<w[1], m>> \in held[u]
    BY <1>3
  <2>2. PICK w \in Wants(t) : \E m \in Modes : <<w[1], m>> \in held[u]
    BY <2>1
  <2>3. scan[u].pc = "pass" => \E c : w[1] = CheckpointRow(c)
    BY <1>5, <2>2, ScanPassNext
  <2> QED BY <1>4, <2>2, <2>3
<1>6. ASSUME NEW u \in S, u \in Staff, NEW w \in Wants(u), NEW a
      PROVE  w[1] # AttendeeRow(a)
  <2>1. PICK t \in S : \E v \in Wants(t) : \E m \in Modes : <<v[1], m>> \in held[u]
    BY <1>3
  <2>2. PICK v \in Wants(t) : \E m \in Modes : <<v[1], m>> \in held[u]
    BY <2>1
  <2>3. w[1] = AttendeeRow(a) => \E c : v[1] = CheckpointRow(c)
    BY <1>6, <2>2, StaffAttendeeNext
  <2> QED BY <1>4, <2>2, <2>3
<1>7. ASSUME NEW u \in S, NEW w \in Wants(u), NEW a
      PROVE  w[1] # ApplicationRow(a)
  <2> SUFFICES ASSUME w[1] = ApplicationRow(a) PROVE FALSE
    OBVIOUS
  <2>1. a \in Attendees /\ <<AttendeeRow(a), "update">> \in held[u]
    BY <1>3, ApplicationNext
  <2>2. PICK t \in S : t # u /\ \E v \in Wants(u) : \E m \in Modes :
                                     <<v[1], m>> \in held[t]
    BY <1>2
  <2>3. PICK m \in Modes : <<ApplicationRow(a), m>> \in held[t]
    BY <1>1, <2>2, OneWant
  <2>4. Wants(t) # {}
    BY <1>2
  <2>5. <<AttendeeRow(a), "update">> \in held[t]
    BY <2>1, <2>3, <2>4, ApplicationHolder
  <2> QED BY <2>1, <2>2, <2>5, OneUpdates, RowTypes DEF Modes
<1>8. ASSUME NEW u \in S, NEW w \in Wants(u), NEW k
      PROVE  w[1] # KeyRow(k)
  <2> SUFFICES ASSUME w[1] = KeyRow(k) PROVE FALSE
    OBVIOUS
  <2>1. PICK t \in S : \E v \in Wants(u) : \E m \in Modes : <<v[1], m>> \in held[t]
    BY <1>2
  <2>2. PICK m \in Modes : <<KeyRow(k), m>> \in held[t]
    BY <1>1, <2>1, OneWant
  <2>3. Wants(t) # {}
    BY <1>2
  <2> QED BY <2>2, <2>3, KeyLast
<1>9. PICK w \in Wants(s) : TRUE
  BY <1>2
<1>10. CASE s \in Scanners
  BY <1>4, <1>5, <1>7, <1>8, <1>9, <1>10, ScannerWait
<1>11. CASE s \in Staff
  <2> DEFINE op == job[s]
  <2>1. /\ Ordered(op, held[s], w[1]) /\ op \in Jobs /\ op # None
        /\ w = <<w[1], "update">> /\ Wants(s) = {w}
    BY <1>1, <1>9, <1>11, StaffWait
  <2>2. /\ OfPass(op) \/ op.kind = "issue"
        /\ <<AttendeeRow(Subject(op)), "update">> \in held[s]
        /\ \E p \in Passes : Owner[p] = Subject(op) /\ w[1] = PassRow(p)
    BY <1>4, <1>6, <1>7, <1>9, <1>11, <2>1 DEF Ordered
  <2>3. PICK p \in Passes : Owner[p] = Subject(op) /\ w[1] = PassRow(p)
    BY <2>2
  <2>4. PICK t \in S : t # s /\ \E v \in Wants(s) : \E m \in Modes :
                                     <<v[1], m>> \in held[t]
    BY <1>2
  <2>5. PICK m \in Modes : <<PassRow(p), m>> \in held[t]
    BY <2>1, <2>3, <2>4
  <2>6. CASE t \in Staff
    <3>1. Ordered(job[t], held[t], PassRow(p))
      BY <2>5, <2>6, StaffHolds
    <3>2. <<AttendeeRow(Owner[p]), "update">> \in held[t]
      BY <3>1, RowsDiffer DEF Ordered
    <3>3. <<AttendeeRow(Owner[p]), "update">> \in held[s] /\ Owner[p] \in Attendees
      BY <2>2, <2>3, OwnerAssumption
    <3> QED BY <2>4, <3>2, <3>3, OneUpdates, RowTypes DEF Modes
  <2>7. CASE t \in Scanners
    <3>1. Behind(scan[t], PassRow(p))
      BY <2>5, <2>7, ScannerHolds
    <3>2. scan[t].qr = p
      BY <3>1, RowsDiffer DEF Behind
    <3>3. Wants(s) = {<<PassRow(scan[t].qr), "update">>}
      BY <2>1, <2>3, <3>2
    <3>4. s \notin Scanners
      BY <1>11, SessionsAssumption
    <3> QED BY <2>7, <3>3, <3>4
  <2> QED BY <2>6, <2>7 DEF Sessions
<1> QED BY <1>10, <1>11 DEF Sessions

\* However many scans and pass changes run at once, those that ever wait for
\* each other are scans that have locked their pass and want its attendee, and
\* organizers that have locked the attendee and want that very pass.
THEOREM PassDeadlocks == Spec => []PassDeadlocksOnly
<1>1. IInv /\ LockOrder => PassDeadlocksOnly
  BY StuckShape DEF PassDeadlocksOnly, Stuck
<1> QED BY <1>1, Order, PTL

\* The requests that take the checkpoint first, as a scan does.
EntitlementKinds == {"put_entitlement", "delete_entitlement",
                     "update_checkpoint", "delete_checkpoint"}

\* Where organizers only change entitlements and checkpoints, no set of sessions
\* waits within itself: by turns nobody in it can want an idempotency key, an
\* application, an attendee, a pass or a checkpoint.
LEMMA NoCycle ==
  ASSUME IInv, LockOrder, Kinds \subseteq EntitlementKinds,
         NEW S \in SUBSET Sessions, \A s \in S : Waits[s] \cap S # {}
  PROVE  S = {}
<1>1. TypeOK
  BY DEF IInv
<1>2. ASSUME NEW u \in S, NEW w \in Wants(u)
      PROVE  \E t \in S : /\ \E m \in Modes : <<w[1], m>> \in held[t]
                          /\ Wants(t) # {}
  <2>1. PICK t \in S : t \in Waits[u]
    OBVIOUS
  <2>2. \E v \in Wants(u) : \E m \in Modes : <<v[1], m>> \in held[t]
    BY <1>1, <2>1, WaitsFor
  <2>3. Waits[t] # {}
    OBVIOUS
  <2>4. Wants(t) # {}
    BY <2>3 DEF Waits
  <2> QED BY <1>1, <2>2, <2>4, OneWant
<1>3. ASSUME NEW t \in Staff, job[t] # None
      PROVE  OfCheckpoint(job[t]) /\ ~OfPass(job[t]) /\ job[t].kind # "issue"
             /\ ~OfDecision(job[t])
  <2>1. job[t].kind \in EntitlementKinds
    BY <1>3 DEF LockOrder, JobsAsked
  <2>2. OfCheckpoint(job[t])
    BY <2>1 DEF OfCheckpoint, EntitlementKinds
  <2> QED BY <2>2, KindsDiffer
<1>4. ASSUME NEW u \in S, NEW w \in Wants(u), NEW k
      PROVE  w[1] # KeyRow(k)
  BY <1>2, <1>4, KeyLast
<1>5. ASSUME NEW u \in S, NEW w \in Wants(u), NEW a
      PROVE  w[1] # ApplicationRow(a)
  <2> SUFFICES ASSUME w[1] = ApplicationRow(a) PROVE FALSE
    OBVIOUS
  <2>1. PICK t \in S : /\ \E m \in Modes : <<ApplicationRow(a), m>> \in held[t]
                       /\ Wants(t) # {}
    BY <1>2
  <2>2. PICK m \in Modes : <<ApplicationRow(a), m>> \in held[t]
    BY <2>1
  <2>3. PICK v \in Wants(t) : TRUE
    BY <2>1
  <2>4. CASE t \in Scanners
    <3>1. Behind(scan[t], ApplicationRow(a))
      BY <2>2, <2>4, ScannerHolds
    <3>2. scan[t].pc \in PastApplication
      BY <3>1, RowsDiffer DEF Behind
    <3> QED BY <1>4, <2>3, <2>4, <3>2, ScannerWait
            DEF PastCheckpoint, PastPass, PastAttendee, PastApplication
  <2>5. CASE t \in Staff
    <3>1. /\ m = "update" /\ job[t] # None
          /\ Ordered(job[t], held[t], ApplicationRow(a))
      BY <2>2, <2>5, StaffHolds
    <3>2. /\ a = Subject(job[t])
          /\ <<AttendeeRow(a), "update">> \in held[t]
          /\ <<CheckpointRow(job[t].checkpoint), "update">> \in held[t]
      BY <1>3, <2>5, <3>1, RowsDiffer DEF Ordered
    <3>3. v \notin held[t] /\ v = <<v[1], "update">> /\ Ordered(job[t], held[t], v[1])
      BY <1>1, <2>3, <2>5, StaffWait
    <3> QED BY <1>3, <2>2, <2>5, <3>1, <3>2, <3>3 DEF Ordered
  <2> QED BY <2>4, <2>5 DEF Sessions
<1>6. ASSUME NEW u \in S, NEW w \in Wants(u), NEW a
      PROVE  w[1] # AttendeeRow(a)
  <2> SUFFICES ASSUME w[1] = AttendeeRow(a) PROVE FALSE
    OBVIOUS
  <2>1. PICK t \in S : /\ \E m \in Modes : <<AttendeeRow(a), m>> \in held[t]
                       /\ Wants(t) # {}
    BY <1>2
  <2>2. PICK m \in Modes : <<AttendeeRow(a), m>> \in held[t]
    BY <2>1
  <2>3. PICK v \in Wants(t) : TRUE
    BY <2>1
  <2>4. CASE t \in Scanners
    <3>1. Behind(scan[t], AttendeeRow(a))
      BY <2>2, <2>4, ScannerHolds
    <3>2. scan[t].pc \in PastAttendee
      BY <3>1, RowsDiffer DEF Behind
    <3> QED BY <1>4, <1>5, <2>3, <2>4, <3>2, ScannerWait
            DEF PastCheckpoint, PastPass, PastAttendee
  <2>5. CASE t \in Staff
    <3>1. /\ m = "update" /\ job[t] # None
          /\ Ordered(job[t], held[t], AttendeeRow(a))
      BY <2>2, <2>5, StaffHolds
    <3>2. /\ a = Subject(job[t])
          /\ <<CheckpointRow(job[t].checkpoint), "update">> \in held[t]
      BY <1>3, <2>5, <3>1, RowsDiffer DEF Ordered
    <3>3. v \notin held[t] /\ v = <<v[1], "update">> /\ Ordered(job[t], held[t], v[1])
      BY <1>1, <2>3, <2>5, StaffWait
    <3> QED BY <1>3, <1>5, <2>2, <2>3, <2>5, <3>1, <3>2, <3>3 DEF Ordered
  <2> QED BY <2>4, <2>5 DEF Sessions
<1>7. ASSUME NEW u \in S, NEW w \in Wants(u), NEW p
      PROVE  w[1] # PassRow(p)
  <2> SUFFICES ASSUME w[1] = PassRow(p) PROVE FALSE
    OBVIOUS
  <2>1. PICK t \in S : /\ \E m \in Modes : <<PassRow(p), m>> \in held[t]
                       /\ Wants(t) # {}
    BY <1>2
  <2>2. PICK m \in Modes : <<PassRow(p), m>> \in held[t]
    BY <2>1
  <2>3. PICK v \in Wants(t) : TRUE
    BY <2>1
  <2>4. CASE t \in Scanners
    <3>1. Behind(scan[t], PassRow(p))
      BY <2>2, <2>4, ScannerHolds
    <3>2. scan[t].pc \in PastPass
      BY <3>1, RowsDiffer DEF Behind
    <3> QED BY <1>4, <1>5, <1>6, <2>3, <2>4, <3>2, ScannerWait
            DEF PastCheckpoint, PastPass
  <2>5. CASE t \in Staff
    <3>1. job[t] # None /\ Ordered(job[t], held[t], PassRow(p))
      BY <2>2, <2>5, StaffHolds
    <3> QED BY <1>3, <2>5, <3>1, RowsDiffer DEF Ordered
  <2> QED BY <2>4, <2>5 DEF Sessions
<1>8. ASSUME NEW u \in S, NEW w \in Wants(u), NEW c
      PROVE  w[1] # CheckpointRow(c)
  <2> SUFFICES ASSUME w[1] = CheckpointRow(c) PROVE FALSE
    OBVIOUS
  <2>1. PICK t \in S : /\ \E m \in Modes : <<CheckpointRow(c), m>> \in held[t]
                       /\ Wants(t) # {}
    BY <1>2
  <2>2. PICK v \in Wants(t) : TRUE
    BY <2>1
  <2>3. t \in Scanners
    <3>1. CASE t \in Staff
      <4>1. Ordered(job[t], held[t], v[1])
        BY <1>1, <2>2, <3>1, StaffWait
      <4>2. \E d : v[1] = CheckpointRow(d)
        BY <1>5, <1>6, <1>7, <2>2, <4>1 DEF Ordered
      <4> QED BY <2>1, <2>2, <4>2, CheckpointFirst
    <3> QED BY <3>1 DEF Sessions
  <2>4. v[1] = CheckpointRow(scan[t].checkpoint)
    BY <1>4, <1>5, <1>6, <1>7, <2>2, <2>3, ScannerWait
  <2> QED BY <2>1, <2>2, <2>4, CheckpointFirst
<1>9. ASSUME NEW u \in S
      PROVE  FALSE
  <2>1. PICK w \in Wants(u) : TRUE
    BY DEF Waits
  <2>2. CASE u \in Scanners
    BY <1>4, <1>5, <1>6, <1>7, <1>8, <2>1, <2>2, ScannerWait
  <2>3. CASE u \in Staff
    <3>1. Ordered(job[u], held[u], w[1])
      BY <1>1, <2>1, <2>3, StaffWait
    <3> QED BY <1>5, <1>6, <1>7, <1>8, <2>1, <3>1 DEF Ordered
  <2> QED BY <2>2, <2>3 DEF Sessions
<1> QED BY <1>9

\* The order "checkpoint first" that PutEntitlement shares with the scanners is
\* enough: no deadlock between any number of scans and entitlement changes.
THEOREM NoDeadlocks ==
  ASSUME Kinds \subseteq EntitlementKinds
  PROVE  Spec => []NoDeadlock
<1>1. IInv /\ LockOrder => NoDeadlock
  <2> SUFFICES ASSUME IInv, LockOrder, NEW S \in SUBSET Sessions, S # {},
                      \A s \in S : Waits[s] \cap S # {}
               PROVE  FALSE
    BY DEF NoDeadlock, WaitCycle, Waits
  <2> QED BY NoCycle
<1> QED BY <1>1, Order, PTL

===============================================================================
