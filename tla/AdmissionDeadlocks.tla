--------------------------- MODULE AdmissionDeadlocks ---------------------------
(***************************************************************************)
(* Who can wait for whom in Admission, for any number of organizers and    *)
(* tabs.  Every request locks the application; what it may have before     *)
(* that, and what it may still want then, leaves one way to a deadlock: a  *)
(* release against a decision or an RSVP.                                  *)
(***************************************************************************)
EXTENDS AdmissionProofs

AttendeeLock == <<AttendeeRow, "update">>
DecisionLock(d) == <<DecisionRow(d), "update">>

\* A lock that a request may have, given all it has.
Planned(j, locks, l) ==
  \/ /\ l = AppLock
     /\ j.op.kind = "release" => DecisionLock(j.op.decision) \in locks
     /\ ForPass(j.op) => AttendeeLock \in locks
  \/ j.op.kind = "release" /\ l = DecisionLock(j.op.decision)
  \/ ForPass(j.op) /\ l = AttendeeLock
  \/ j.stage = "write" /\ l \in LaterLocks(j.op, j.saw)

\* A session has only locks its request has come to, in order.
InPlan(s) ==
  \A l \in held[s] : job[s] # None /\ Planned(job[s], held[s], l)

LocksInPlan == \A s \in Sessions : InPlan(s)

-------------------------------------------------------------------------------
(* The plans.                                                              *)

LEMMA PlannedGrows ==
  ASSUME NEW j, NEW few, NEW locks, few \subseteq locks, NEW l, Planned(j, few, l)
  PROVE  Planned(j, locks, l)
BY DEF Planned

\* The lock a request asks for next in its first stage.
LEMMA FirstWanted ==
  ASSUME TypeOK, NEW s \in Sessions, job[s] # None, NEW i \in Missing(s),
         \A k \in Missing(s) : i <= k
  PROVE  LET op == job[s].op
             l == <<FirstLocks(op)[i], "update">>
         IN  /\ i \in Nat /\ l \notin held[s]
             /\ \/ op.kind \in {"record", "respond"} /\ l = AppLock
                \/ op.kind = "release" /\ l = DecisionLock(op.decision)
                \/ op.kind = "release" /\ l = AppLock /\ DecisionLock(op.decision) \in held[s]
                \/ ForPass(op) /\ l = AttendeeLock
                \/ ForPass(op) /\ l = AppLock /\ AttendeeLock \in held[s]
<1> DEFINE op == job[s].op
<1>1. /\ op \in Operations /\ op.kind \in AllKinds
      /\ i \in DOMAIN FirstLocks(op)
      /\ <<FirstLocks(op)[i], "update">> \notin held[s]
      /\ \A k \in DOMAIN FirstLocks(op) : <<FirstLocks(op)[k], "update">> \notin held[s] => i <= k
  BY OperationTypes DEF TypeOK, Jobs, Missing
<1>2. CASE op.kind \in {"record", "respond"}
  <2>1. FirstLocks(op) = <<ApplicationRow>>
    BY <1>2 DEF FirstLocks, LockApplicationForDecision, LockAdmittedApplication, ForPass
  <2> QED
    BY <1>1, <1>2, <2>1 DEF AppLock
<1>3. CASE op.kind = "release"
  <2>1. FirstLocks(op) = <<DecisionRow(op.decision), ApplicationRow>>
    BY <1>3 DEF FirstLocks, LockCurrentDecisionForRelease, ForPass
  <2> QED
    BY <1>1, <1>3, <2>1 DEF AppLock, DecisionLock
<1>4. CASE ForPass(op)
  <2>1. FirstLocks(op) = <<AttendeeRow, ApplicationRow>>
    BY <1>4 DEF FirstLocks, LockAcceptedAttendee, ForPass
  <2> QED
    BY <1>1, <1>4, <2>1 DEF AppLock, AttendeeLock
<1> QED
  BY <1>1, <1>2, <1>3, <1>4 DEF AllKinds, ForPass

-------------------------------------------------------------------------------
(* Every step keeps to the plans.                                          *)

LEMMA InPlanInit == Init => LocksInPlan
BY DEF Init, LocksInPlan, InPlan

\* Only the session that steps matters.
LEMMA OthersInPlan ==
  ASSUME LocksInPlan, NEW s \in Sessions, InPlan(s)',
         \A u \in Sessions \ {s} : job'[u] = job[u] /\ held'[u] = held[u]
  PROVE  LocksInPlan'
<1> SUFFICES ASSUME NEW u \in Sessions \ {s}
             PROVE  InPlan(u)'
  BY DEF LocksInPlan
<1>1. InPlan(u) /\ job'[u] = job[u] /\ held'[u] = held[u]
  BY DEF LocksInPlan
<1> QED
  BY <1>1 DEF InPlan

LEMMA BeginInPlan ==
  ASSUME IInv, LocksInPlan, NEW s \in Sessions, Begin(s)
  PROVE  LocksInPlan'
<1>1. held[s] = {}
  BY DEF LocksInPlan, InPlan, Begin
<1>2. held' = held /\ \A u \in Sessions \ {s} : job'[u] = job[u]
  BY DEF Begin, IInv, TypeOK
<1>3. InPlan(s)'
  BY <1>1, <1>2 DEF InPlan
<1> QED
  BY <1>2, <1>3, OthersInPlan

LEMMA LockRowInPlan ==
  ASSUME IInv, LocksInPlan, NEW s \in Sessions, LockRow(s)
  PROVE  LocksInPlan'
<1>0. TypeOK
  BY DEF IInv
<1>1. PICK i \in Missing(s) : /\ \A k \in Missing(s) : i <= k
                              /\ Acquire(s, FirstLocks(job[s].op)[i], "update")
  BY DEF LockRow
<1>2. job[s] # None /\ job' = job
  BY DEF LockRow
<1> DEFINE l == <<FirstLocks(job[s].op)[i], "update">>
<1>3. /\ held'[s] = held[s] \cup {l}
      /\ \A u \in Sessions \ {s} : held'[u] = held[u]
  BY <1>1, AcquireChanges DEF IInv
<1>4. Planned(job[s], held'[s], l)
  <2>1. LET op == job[s].op
        IN  \/ op.kind \in {"record", "respond"} /\ l = AppLock
            \/ op.kind = "release" /\ l = DecisionLock(op.decision)
            \/ op.kind = "release" /\ l = AppLock /\ DecisionLock(op.decision) \in held[s]
            \/ ForPass(op) /\ l = AttendeeLock
            \/ ForPass(op) /\ l = AppLock /\ AttendeeLock \in held[s]
    BY <1>0, <1>1, <1>2, FirstWanted
  <2> HIDE DEF l
  <2> QED
    BY <1>3, <2>1 DEF Planned, ForPass
<1>5. ASSUME NEW k \in held[s]
      PROVE  Planned(job[s], held'[s], k)
  <2>1. Planned(job[s], held[s], k)
    BY DEF LocksInPlan, InPlan
  <2> QED
    BY <1>3, <2>1, PlannedGrows
<1>6. InPlan(s)'
  BY <1>2, <1>3, <1>4, <1>5 DEF InPlan
<1> QED
  BY <1>2, <1>3, <1>6, OthersInPlan

LEMMA ReadUnderLockInPlan ==
  ASSUME IInv, LocksInPlan, NEW s \in Sessions, ReadUnderLock(s)
  PROVE  LocksInPlan'
<1> DEFINE new == [op |-> job[s].op, stage |-> "write", saw |-> Seen(job[s].op)]
<1>1. /\ job[s] \in Jobs /\ job[s].stage = "lock" /\ held' = held
      /\ job' = [job EXCEPT ![s] = new]
  BY DEF ReadUnderLock, IInv, TypeOK
<1>2. job'[s] # None /\ job'[s].op = job[s].op
  <2>1. job[s].op \in Operations /\ Accepts(job[s].op)
    BY <1>1 DEF Jobs, ReadUnderLock
  <2>2. Seen(job[s].op) \in Findings
    BY <2>1, SeenTypes DEF IInv
  <2>3. new \in Jobs
    BY <2>1, <2>2 DEF Jobs
  <2>4. job'[s] = new
    BY <1>1 DEF IInv, TypeOK
  <2> QED
    BY <2>3, <2>4, NoneIsNothing
<1>3. ASSUME NEW l \in held[s]
      PROVE  Planned(job'[s], held[s], l)
  <2>1. Planned(job[s], held[s], l)
    BY DEF LocksInPlan, InPlan
  <2> QED
    BY <1>1, <1>2, <2>1 DEF Planned
<1>4. InPlan(s)'
  BY <1>1, <1>2, <1>3 DEF InPlan
<1>5. \A u \in Sessions \ {s} : job'[u] = job[u]
  BY <1>1 DEF IInv, TypeOK
<1> QED
  BY <1>1, <1>4, <1>5, OthersInPlan

\* The locks taken last are pairs of a row and a mode.
LEMMA LaterPairs ==
  ASSUME NEW op, NEW saw, NEW l \in LaterLocks(op, saw)
  PROVE  l = <<l[1], l[2]>>
BY DEF LaterLocks

LEMMA LockLaterInPlan ==
  ASSUME IInv, LocksInPlan, NEW s \in Sessions, LockLater(s)
  PROVE  LocksInPlan'
<1>1. PICK l \in Unlocked(s) : Acquire(s, l[1], l[2])
  BY DEF LockLater
<1>2. job[s] # None /\ job[s].stage = "write" /\ job' = job
  BY DEF LockLater
<1>3. l \in LaterLocks(job[s].op, job[s].saw) /\ l = <<l[1], l[2]>>
  BY LaterPairs DEF Unlocked
<1>4. /\ held'[s] = held[s] \cup {l}
      /\ \A u \in Sessions \ {s} : held'[u] = held[u]
  BY <1>1, <1>3, AcquireChanges DEF IInv
<1>5. ASSUME NEW k \in held[s]
      PROVE  Planned(job[s], held'[s], k)
  <2>1. Planned(job[s], held[s], k)
    BY DEF LocksInPlan, InPlan
  <2> QED
    BY <1>4, <2>1, PlannedGrows
<1>6. Planned(job[s], held'[s], l)
  BY <1>2, <1>3 DEF Planned
<1>7. InPlan(s)'
  BY <1>2, <1>4, <1>5, <1>6 DEF InPlan
<1> QED
  BY <1>2, <1>4, <1>7, OthersInPlan

LEMMA DoneInPlan ==
  ASSUME IInv, LocksInPlan, NEW s \in Sessions, Done(s)
  PROVE  LocksInPlan'
<1>1. /\ held'[s] = {}
      /\ \A u \in Sessions \ {s} : job'[u] = job[u] /\ held'[u] = held[u]
  BY DoneChanges DEF IInv, TypeOK, JobsTyped
<1>2. InPlan(s)'
  BY <1>1 DEF InPlan
<1> QED
  BY <1>1, <1>2, OthersInPlan

LEMMA StepInPlan ==
  ASSUME IInv, LocksInPlan, [Next]_vars
  PROVE  LocksInPlan'
<1>1. CASE UNCHANGED <<job, held>>
  BY <1>1 DEF LocksInPlan, InPlan
<1>2. ASSUME NEW s \in Sessions,
             \/ Refuse(s) \/ Record(s) \/ Release(s) \/ Respond(s)
             \/ Issue(s) \/ Reissue(s) \/ Revoke(s)
      PROVE  LocksInPlan'
  <2>1. Done(s)
    BY <1>2 DEF Refuse, Record, Release, Respond, Issue, Reissue, Revoke
  <2> QED
    BY <2>1, DoneInPlan
<1>3. ASSUME NEW t \in Tabs, View(t)
      PROVE  UNCHANGED <<job, held>>
  BY <1>3 DEF View
<1>4. UNCHANGED vars => UNCHANGED <<job, held>>
  BY DEF vars
<1> QED
  BY <1>1, <1>2, <1>3, <1>4, BeginInPlan, LockRowInPlan, ReadUnderLockInPlan, LockLaterInPlan
  DEF Next

\* A session has no locks but those its request has come to.
THEOREM PlanInvariance == Spec => []LocksInPlan
<1>1. IInv /\ LocksInPlan /\ [Next]_vars => LocksInPlan'
  BY StepInPlan
<1> QED
  BY <1>1, InPlanInit, Invariance, PTL DEF Spec

-------------------------------------------------------------------------------
(* Who waits.                                                              *)

\* A wait names a lock that is wanted and a row that is held.
LEMMA WaitsFor ==
  ASSUME IInv, NEW s \in Sessions, NEW u \in Waits[s]
  PROVE  /\ u \in Sessions \ {s}
         /\ \E w \in Wants(s) : \E m \in Modes : <<w[1], m>> \in held[u]
<1>1. PICK w \in Wants(s) : u \in Blockers(held, s, w[1], w[2])
  BY DEF Waits
<1>2. u \in DOMAIN held \ {s} /\ \E m \in Modes : <<w[1], m>> \in held[u]
  BY <1>1 DEF Blockers
<1>3. DOMAIN held = Sessions
  BY DEF IInv, OneHolder
<1> QED
  BY <1>1, <1>2, <1>3

\* Before its reads a session wants one lock, and has no other but the one its
\* statement names first.
LEMMA LockStage ==
  ASSUME TypeOK, LocksInPlan, NEW s \in Sessions, job[s] # None,
         job[s].stage # "write", NEW w \in Wants(s)
  PROVE  \/ held[s] = {} /\ w \in {AppLock, AttendeeLock, DecisionLock(job[s].op.decision)}
         \/ job[s].op.kind = "release" /\ w = AppLock
         \/ /\ ForPass(job[s].op)
            /\ w = AppLock
            /\ held[s] \subseteq {AttendeeLock}
<1> DEFINE op == job[s].op
<1>1. PICK i \in Missing(s) : /\ \A k \in Missing(s) : i <= k
                              /\ w = <<FirstLocks(op)[i], "update">>
  BY DEF Wants
<1>2. /\ w \notin held[s]
      /\ \/ op.kind \in {"record", "respond"} /\ w = AppLock
         \/ op.kind = "release" /\ w = DecisionLock(op.decision)
         \/ op.kind = "release" /\ w = AppLock /\ DecisionLock(op.decision) \in held[s]
         \/ ForPass(op) /\ w = AttendeeLock
         \/ ForPass(op) /\ w = AppLock /\ AttendeeLock \in held[s]
  BY <1>1, FirstWanted
<1>3. \A l \in held[s] :
        \/ /\ l = AppLock
           /\ op.kind = "release" => DecisionLock(op.decision) \in held[s]
           /\ ForPass(op) => AttendeeLock \in held[s]
        \/ op.kind = "release" /\ l = DecisionLock(op.decision)
        \/ ForPass(op) /\ l = AttendeeLock
  BY DEF LocksInPlan, InPlan, Planned
<1> HIDE DEF op
<1>4. CASE op.kind \in {"record", "respond"} /\ w = AppLock
  BY <1>2, <1>3, <1>4 DEF ForPass, op
<1>5. CASE op.kind = "release" /\ w = DecisionLock(op.decision)
  BY <1>2, <1>3, <1>5 DEF ForPass, op
<1>6. CASE ForPass(op) /\ w = AttendeeLock
  BY <1>2, <1>3, <1>6 DEF ForPass, op
<1>7. CASE ForPass(op) /\ w = AppLock /\ AttendeeLock \in held[s]
  BY <1>2, <1>3, <1>7 DEF ForPass, op
<1> QED
  BY <1>2, <1>4, <1>5, <1>6, <1>7 DEF op

\* After its reads a session has the application.
LEMMA WriteStage ==
  ASSUME IInv, LocksInPlan, NEW s \in Sessions, job[s] # None,
         job[s].stage = "write", NEW u \in Waits[s]
  PROVE  /\ job[s].op.kind \in {"record", "respond"}
         /\ Wants(s) = {<<DecisionRow(current), "key_share">>}
<1> DEFINE op == job[s].op
<1>1. /\ Writing(s) /\ AppLock \in held[s] /\ Accepts(op) /\ job[s].saw = Seen(op)
  BY DEF IInv, ReadsStand, Writing
<1>2. op \in Operations /\ op.kind \in AllKinds
  BY OperationTypes DEF IInv, TypeOK, Jobs
<1>3. Wants(s) = LaterLocks(op, job[s].saw) \ held[s]
  BY DEF Wants, Unlocked
<1>4. /\ u \in Sessions \ {s}
      /\ \E w \in Wants(s) : \E m \in Modes : <<w[1], m>> \in held[u]
  BY WaitsFor
<1>5. PICK w \in Wants(s) : \E m \in Modes : <<w[1], m>> \in held[u]
  BY <1>4
<1>6. PICK m \in Modes : <<w[1], m>> \in held[u]
  BY <1>5
<1>7. CASE op.kind \in {"release", "issue"}
  <2>1. LaterLocks(op, job[s].saw) = {}
    BY <1>7 DEF LaterLocks
  <2> QED
    BY <1>3, <1>5, <2>1
<1>8. CASE op.kind = "record"
  <2>1. job[s].saw.prior = current
    BY <1>1, <1>8 DEF Seen, Nothing, GetLatestDecisionForApplication, ForPass
  <2>2. LaterLocks(op, job[s].saw) \subseteq {<<DecisionRow(current), "key_share">>}
    BY <1>8, <2>1 DEF LaterLocks, ForPass
  <2> QED
    BY <1>3, <1>5, <1>8, <2>2
<1>9. CASE op.kind = "respond"
  <2>1. op.decision = current
    BY <1>1, <1>9 DEF Accepts, ForPass
  <2>2. LaterLocks(op, job[s].saw) \subseteq {<<DecisionRow(current), "key_share">>}
    BY <1>9, <2>1 DEF LaterLocks, ForPass
  <2> QED
    BY <1>3, <1>5, <1>9, <2>2
<1>10. CASE op.kind \in {"reissue", "revoke"}
  <2>1. w = <<PassRow(op.pass), "update">>
    BY <1>3, <1>5, <1>10 DEF LaterLocks
  <2>2. <<PassRow(op.pass), m>> \in held[u]
    BY <1>6, <2>1
  <2>3. job[u] # None /\ Planned(job[u], held[u], <<PassRow(op.pass), m>>)
    BY <1>4, <2>2 DEF LocksInPlan, InPlan
  <2>4. Writing(u)
    BY <2>3 DEF Planned, Writing, AppLock, ApplicationRow, PassRow, DecisionLock,
                DecisionRow, AttendeeLock, AttendeeRow
  <2>5. AppLock \in held[u]
    BY <1>4, <2>4 DEF IInv, ReadsStand
  <2>6. s = u
    BY <1>1, <1>4, <2>5 DEF IInv, OneHolder
  <2> QED
    BY <1>4, <2>6
<1> QED
  BY <1>2, <1>7, <1>8, <1>9, <1>10 DEF AllKinds

\* Whoever wants the attendee has nothing yet.
LEMMA AttendeeFirst ==
  ASSUME IInv, LocksInPlan, NEW t \in Sessions, NEW s \in Waits[t],
         \A l \in held[s] : l = AttendeeLock
  PROVE  held[t] = {}
<1>0. TypeOK
  BY DEF IInv
<1>1. PICK w \in Wants(t) : \E m \in Modes : <<w[1], m>> \in held[s]
  BY WaitsFor
<1>2. w[1] = AttendeeRow
  BY <1>1 DEF AttendeeLock
<1>3. job[t] # None
  BY <1>1 DEF Wants
<1>4. job[t].stage # "write"
  <2> SUFFICES ASSUME job[t].stage = "write" PROVE FALSE
    OBVIOUS
  <2>1. w = <<DecisionRow(current), "key_share">>
    BY <1>1, <1>3, WriteStage
  <2> QED
    BY <1>2, <2>1 DEF AttendeeRow, DecisionRow
<1>5. w # AppLock
  BY <1>2 DEF AppLock, ApplicationRow, AttendeeRow
<1> QED
  BY <1>0, <1>1, <1>3, <1>4, <1>5, LockStage

LEMMA DeadlockOverDecision == IInv /\ LocksInPlan => ReleaseDeadlocksOnly
<1> SUFFICES ASSUME IInv, LocksInPlan,
                    NEW S \in SUBSET Sessions,
                    \A s \in S : Waits[s] \cap S # {} /\ \E t \in S : s \in Waits[t],
                    NEW s \in S
             PROVE  \/ job[s].op.kind = "release" /\ Wants(s) = {AppLock}
                    \/ /\ job[s].op.kind \in {"record", "respond"}
                       /\ Wants(s) = {<<DecisionRow(current), "key_share">>}
  BY DEF ReleaseDeadlocksOnly
<1>0. TypeOK
  BY DEF IInv
<1>1. \A t \in S : held[t] # {}
  <2> TAKE t \in S
  <2>1. PICK r \in S : t \in Waits[r]
    OBVIOUS
  <2>2. \E w \in Wants(r) : \E m \in Modes : <<w[1], m>> \in held[t]
    BY <2>1, WaitsFor
  <2> QED
    BY <2>2
<1>2. PICK u \in S : u \in Waits[s]
  OBVIOUS
<1>3. PICK t \in S : s \in Waits[t]
  OBVIOUS
<1>4. PICK w \in Wants(s) : TRUE
  BY <1>2, WaitsFor
<1>5. job[s] # None
  BY <1>4 DEF Wants
<1>6. CASE job[s].stage = "write"
  BY <1>2, <1>5, <1>6, WriteStage
<1>7. CASE job[s].stage # "write"
  <2>1. ASSUME ForPass(job[s].op), held[s] \subseteq {AttendeeLock}
        PROVE  FALSE
    <3>1. held[t] = {}
      BY <1>3, <2>1, AttendeeFirst
    <3> QED
      BY <1>1, <3>1
  <2>2. \A l \in Wants(s) : job[s].op.kind = "release" /\ l = AppLock
    <3> TAKE l \in Wants(s)
    <3> QED
      BY <1>0, <1>1, <1>5, <1>7, <2>1, LockStage
  <2> QED
    BY <1>4, <2>2
<1> QED
  BY <1>6, <1>7

\* Requests on an application deadlock only as a release against a decision or
\* an RSVP over the decision in force (LockCurrentDecisionForRelease against
\* the foreign keys of CreateDecision and the RSVP's upsert).
THEOREM Deadlocks == Spec => []ReleaseDeadlocksOnly
BY DeadlockOverDecision, Invariance, PlanInvariance, PTL

===============================================================================
