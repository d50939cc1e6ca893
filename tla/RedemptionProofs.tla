--------------------------- MODULE RedemptionProofs ---------------------------
(***************************************************************************)
(* Theorems about Redemption, for any number of scanners, organizers,      *)
(* keys, passes, attendees and checkpoints.                                *)
(***************************************************************************)
EXTENDS Redemption, FiniteSetTheorems, TLAPS

-------------------------------------------------------------------------------
(* The helpers.                                                            *)

\* An effective entitlement has a maximum that is a natural number.
LEMMA ResolveType ==
  ASSUME NEW default \in Rules, NEW override \in Rules \cup {None}
  PROVE  Resolve(default, override) \in [allowed : BOOLEAN, max : Nat]
BY RulesAssumption DEF Resolve

\* A session that gets a lock excludes nobody who already holds one.
LEMMA LockExcludes ==
  ASSUME held \in [Sessions -> SUBSET (LockRows \X Modes)],
         LocksExclude,
         NEW s \in Sessions, NEW row \in LockRows, NEW mode \in Modes,
         Lock(s, row, mode)
  PROVE  /\ held' \in [Sessions -> SUBSET (LockRows \X Modes)]
         /\ LocksExclude'
<1>1. held' = [held EXCEPT ![s] = @ \cup {<<row, mode>>}]
  BY DEF Lock
<1>2. held' \in [Sessions -> SUBSET (LockRows \X Modes)]
  BY <1>1
<1>3. ASSUME NEW t \in Sessions, t # s, NEW m \in Modes, <<row, m>> \in held[t]
      PROVE  Compatible(m, mode) /\ Compatible(mode, m)
  BY <1>3 DEF Lock, Grantable, Blockers, Compatible
<1>4. LocksExclude'
  BY <1>1, <1>3 DEF LocksExclude
<1> QED BY <1>2, <1>4

\* A transaction that ends frees its rows and no others.
LEMMA UnlockExcludes ==
  ASSUME held \in [Sessions -> SUBSET (LockRows \X Modes)],
         LocksExclude,
         NEW s \in Sessions,
         Unlock(s)
  PROVE  /\ held' \in [Sessions -> SUBSET (LockRows \X Modes)]
         /\ LocksExclude'
BY DEF Unlock, LocksExclude

-------------------------------------------------------------------------------
(* Types.                                                                  *)

\* Shorthand for what the type proofs of the scanners' steps start from.
Placed == /\ TypeOK
          /\ \A s \in Scanners : ScanPlaced(s)
          /\ VerdictsStand

LEMMA RowTypes ==
  /\ \A c \in Checkpoints : CheckpointRow(c) \in LockRows
  /\ \A p \in Passes : PassRow(p) \in LockRows
  /\ \A a \in Attendees : AttendeeRow(a) \in LockRows
  /\ \A a \in Attendees : ApplicationRow(a) \in LockRows
  /\ \A k \in Keys : KeyRow(k) \in LockRows
BY DEF LockRows

LEMMA LockType ==
  ASSUME held \in [Sessions -> SUBSET (LockRows \X Modes)],
         NEW s \in Sessions, NEW row \in LockRows, NEW mode \in Modes,
         Lock(s, row, mode)
  PROVE  held' \in [Sessions -> SUBSET (LockRows \X Modes)]
BY DEF Lock

LEMMA IdleType == Idle \in ScanState
BY DEF Idle, ScanState, Steps

LEMMA FinishType ==
  ASSUME scan \in [Scanners -> ScanState],
         held \in [Sessions -> SUBSET (LockRows \X Modes)],
         NEW s \in Scanners, Finish(s)
  PROVE  /\ scan' \in [Scanners -> ScanState]
         /\ held' \in [Sessions -> SUBSET (LockRows \X Modes)]
BY IdleType DEF Finish, Unlock

LEMMA GoType ==
  ASSUME scan \in [Scanners -> ScanState],
         NEW s \in Scanners, NEW step \in Steps, Go(s, step)
  PROVE  scan' \in [Scanners -> ScanState]
BY DEF Go, ScanState

LEMMA DecideType ==
  ASSUME scan \in [Scanners -> ScanState],
         NEW s \in Scanners, NEW outcome \in Outcomes, NEW n \in Nat,
         Decide(s, outcome, n)
  PROVE  scan' \in [Scanners -> ScanState]
<1>1. ASSUME NEW c \in ScanState, NEW step \in Steps
      PROVE  [c EXCEPT !.pc = step, !.outcome = outcome, !.ordinal = n] \in ScanState
  BY DEF ScanState
<1> QED BY <1>1 DEF Decide, Steps

LEMMA ConfigureType ==
  ASSUME scan \in [Scanners -> ScanState],
         NEW s \in Scanners, NEW settings \in Settings, Configure(s, settings)
  PROVE  scan' \in [Scanners -> ScanState]
<1>1. ASSUME NEW c \in ScanState, NEW step \in Steps, NEW outcome \in Outcomes
      PROVE  [c EXCEPT !.pc = step, !.settings = settings, !.outcome = outcome]
               \in ScanState
  BY DEF ScanState
<1>2. ASSUME NEW c \in ScanState, NEW step \in Steps
      PROVE  [c EXCEPT !.pc = step, !.settings = settings] \in ScanState
  BY DEF ScanState
<1> QED BY <1>1, <1>2 DEF Configure, Steps, Outcomes

LEMMA AttemptType ==
  ASSUME now \in Nat, NEW key \in Keys, NEW qr \in Credentials,
         NEW c \in Checkpoints, NEW n \in Nat
  PROVE  Attempt(key, qr, c, n) \in ScanState
BY DEF Attempt, ScanState, Steps

LEMMA RefusalType ==
  ASSUME NEW c
  PROVE  Refusal(c) \in Outcomes \cup {None}
BY DEF Refusal, Outcomes

LEMMA BeginType ==
  ASSUME Placed, NEW s \in Scanners, Begin(s)
  PROVE  TypeOK'
<1>1. scan' \in [Scanners -> ScanState]
  <2>1. PICK key \in Keys, qr \in Credentials, c \in Checkpoints :
          scan' = [scan EXCEPT ![s] = Attempt(key, qr, c, 1)]
    BY DEF Begin
  <2>2. Attempt(key, qr, c, 1) \in ScanState
    BY AttemptType DEF Placed, TypeOK
  <2> QED BY <2>1, <2>2 DEF Placed, TypeOK
<1> QED BY <1>1 DEF Placed, TypeOK, Begin, policy, ledger

LEMMA FindRequestType ==
  ASSUME Placed, NEW s \in Scanners, FindRequest(s)
  PROVE  TypeOK'
<1>1. scan' \in [Scanners -> ScanState] /\ held' \in [Sessions -> SUBSET (LockRows \X Modes)]
  BY FinishType, GoType DEF Placed, FindRequest, Steps, TypeOK
<1>2. answers' \subseteq Request
  BY DEF Placed, TypeOK, FindRequest, Tell
<1> QED BY <1>1, <1>2 DEF Placed, TypeOK, FindRequest, policy, ledger

LEMMA LockCheckpointType ==
  ASSUME Placed, NEW s \in Scanners, LockCheckpoint(s)
  PROVE  TypeOK'
<1>1. scan' \in [Scanners -> ScanState] /\ held' \in [Sessions -> SUBSET (LockRows \X Modes)]
  <2>1. CASE Finish(s)
    BY <2>1, FinishType DEF Placed, TypeOK
  <2>2. CASE ~Finish(s)
    <3>1. scan[s].checkpoint \in Checkpoints
      BY DEF Placed, ScanPlaced, LockCheckpoint, At
    <3>2. scan' \in [Scanners -> ScanState]
      BY <2>2, <3>1, ConfigureType DEF LockCheckpoint, Placed, TypeOK
    <3>3. held' \in [Sessions -> SUBSET (LockRows \X Modes)]
      BY <2>2, <3>1, LockType, RowTypes DEF LockCheckpoint, Placed, TypeOK, Sessions, Modes
    <3> QED BY <3>2, <3>3
  <2> QED BY <2>1, <2>2
<1> QED BY <1>1 DEF Placed, TypeOK, LockCheckpoint, policy, ledger

LEMMA LockPassType ==
  ASSUME Placed, NEW s \in Scanners, LockPass(s)
  PROVE  TypeOK'
<1>1. scan' \in [Scanners -> ScanState]
  BY GoType, DecideType DEF Placed, TypeOK, LockPass, Steps, Outcomes
<1>2. held' \in [Sessions -> SUBSET (LockRows \X Modes)]
  BY LockType, RowTypes DEF LockPass, Placed, TypeOK, Sessions, Modes
<1> QED BY <1>1, <1>2 DEF Placed, TypeOK, LockPass, policy, ledger

LEMMA LockAttendeeType ==
  ASSUME Placed, NEW s \in Scanners, LockAttendee(s)
  PROVE  TypeOK'
<1>1. Owner[scan[s].qr] \in Attendees
  BY OwnerAssumption DEF Placed, ScanPlaced, LockAttendee, At, Steps
<1>2. scan' \in [Scanners -> ScanState]
  BY GoType DEF Placed, TypeOK, LockAttendee, Steps
<1>3. held' \in [Sessions -> SUBSET (LockRows \X Modes)]
  BY <1>1, LockType, RowTypes DEF LockAttendee, Placed, TypeOK, Sessions, Modes
<1> QED BY <1>2, <1>3 DEF Placed, TypeOK, LockAttendee, policy, ledger

LEMMA LockApplicationType ==
  ASSUME Placed, NEW s \in Scanners, LockApplication(s)
  PROVE  TypeOK'
<1>1. Owner[scan[s].qr] \in Attendees
  BY OwnerAssumption DEF Placed, ScanPlaced, LockApplication, At, Steps
<1>2. scan' \in [Scanners -> ScanState]
  BY GoType, DecideType, RefusalType DEF Placed, TypeOK, LockApplication, Steps
<1>3. held' \in [Sessions -> SUBSET (LockRows \X Modes)]
  BY <1>1, LockType, RowTypes DEF LockApplication, Placed, TypeOK, Sessions, Modes
<1> QED BY <1>2, <1>3 DEF Placed, TypeOK, LockApplication, policy, ledger

LEMMA RedeemedType ==
  ASSUME TypeOK, NEW a \in Attendees, NEW c \in Checkpoints
  PROVE  /\ IsFiniteSet(Redeemed(a, c))
         /\ Cardinality(Redeemed(a, c)) \in Nat
<1>1. Redeemed(a, c) \subseteq redemptions /\ IsFiniteSet(redemptions)
  BY DEF TypeOK, Redeemed
<1> QED BY <1>1, FS_Subset, FS_CardinalityType

LEMMA EffectiveEntitlementType ==
  ASSUME Placed, NEW s \in Scanners, EffectiveEntitlement(s)
  PROVE  TypeOK'
<1> DEFINE c == scan[s]
           rule == Resolve(c.settings.rule, overrides[Owner[c.qr]][c.checkpoint])
<1>1. c.qr \in Passes /\ c.checkpoint \in Checkpoints /\ c.settings \in Settings
  <2>1. c.pc = "entitlement"
    BY DEF EffectiveEntitlement, At
  <2>2. c.qr \in Passes /\ c.checkpoint \in Checkpoints
    BY <2>1 DEF Placed, ScanPlaced, Steps
  <2>3. c.settings = checkpoints[c.checkpoint] /\ c.settings # None
    BY <2>1 DEF Placed, VerdictsStand, ScanStands, PastCheckpoint, Steps
  <2> QED BY <2>2, <2>3 DEF Placed, TypeOK
<1>2. rule \in [allowed : BOOLEAN, max : Nat]
  <2>1. c.settings.rule \in Rules
    BY <1>1, SettingsAssumption
  <2>2. overrides[Owner[c.qr]][c.checkpoint] \in Rules \cup {None}
    BY <1>1, OwnerAssumption DEF Placed, TypeOK
  <2> QED BY <2>1, <2>2, ResolveType
<1>3. ASSUME scan' = [scan EXCEPT ![s] = [@ EXCEPT !.pc = "count", !.rule = rule]]
      PROVE  scan' \in [Scanners -> ScanState]
  <2>1. ASSUME NEW q \in ScanState, NEW step \in Steps,
               NEW r \in [allowed : BOOLEAN, max : Nat]
        PROVE  [q EXCEPT !.pc = step, !.rule = r] \in ScanState
    BY DEF ScanState
  <2> HIDE DEF rule
  <2> QED BY <1>2, <1>3, <2>1 DEF Steps, Placed, TypeOK
<1>4. scan' \in [Scanners -> ScanState]
  BY <1>3, DecideType DEF EffectiveEntitlement, Outcomes, Placed, TypeOK
<1> QED BY <1>4 DEF Placed, TypeOK, EffectiveEntitlement, policy, ledger

LEMMA CountRedemptionsType ==
  ASSUME Placed, NEW s \in Scanners, CountRedemptions(s)
  PROVE  TypeOK'
<1>1. scan[s].checkpoint \in Checkpoints /\ Owner[scan[s].qr] \in Attendees
  BY OwnerAssumption DEF Placed, ScanPlaced, CountRedemptions, At, Steps
<1>2. Cardinality(Redeemed(Owner[scan[s].qr], scan[s].checkpoint)) \in Nat
  BY <1>1, RedeemedType DEF Placed
<1>3. scan' \in [Scanners -> ScanState]
  BY <1>2, DecideType DEF CountRedemptions, Outcomes, Placed, TypeOK
<1> QED BY <1>3 DEF Placed, TypeOK, CountRedemptions, policy, ledger

LEMMA InsertRequestType ==
  ASSUME Placed, NEW s \in Scanners, InsertRequest(s)
  PROVE  TypeOK'
<1>1. scan' \in [Scanners -> ScanState]
  BY GoType DEF Placed, TypeOK, InsertRequest, Steps
<1>2. scan[s].key \in Keys
  BY DEF Placed, ScanPlaced, InsertRequest, At
<1>3. held' \in [Sessions -> SUBSET (LockRows \X Modes)]
  BY <1>2, LockType, RowTypes DEF InsertRequest, Placed, TypeOK, Sessions, Modes
<1> QED BY <1>1, <1>3 DEF Placed, TypeOK, InsertRequest, policy, ledger

LEMMA RetryAttemptType ==
  ASSUME Placed, NEW s \in Scanners, RetryAttempt(s)
  PROVE  TypeOK'
<1> DEFINE c == scan[s]
<1>1. /\ c.key \in Keys /\ c.qr \in Credentials /\ c.checkpoint \in Checkpoints
      /\ c.attempt + 1 \in Nat /\ now \in Nat
  <2>1. c \in ScanState /\ now \in Nat
    BY DEF Placed, TypeOK
  <2>2. c.key \in Keys /\ c.qr \in Credentials /\ c.checkpoint \in Checkpoints
    BY DEF Placed, ScanPlaced, RetryAttempt, At
  <2>3. c.attempt + 1 \in Nat
    BY <2>1 DEF ScanState
  <2> QED BY <2>1, <2>2, <2>3
<1>2. Attempt(c.key, c.qr, c.checkpoint, c.attempt + 1) \in ScanState
  BY <1>1, AttemptType
<1>3. scan' \in [Scanners -> ScanState]
  BY <1>2, IdleType DEF RetryAttempt, Placed, TypeOK
<1>4. held' \in [Sessions -> SUBSET (LockRows \X Modes)]
  BY DEF RetryAttempt, Unlock, Placed, TypeOK
<1> QED BY <1>3, <1>4 DEF Placed, TypeOK, RetryAttempt, policy, ledger

\* A justified verdict is one of the six, and redeems a pass that admits.
LEMMA JustifiedShape ==
  ASSUME NEW outcome, NEW qr, NEW c, NEW t, L!Justified(outcome, qr, c, t)
  PROVE  /\ outcome \in Outcomes
         /\ outcome = "redeemed" => qr \in Passes
BY DEF L!Justified, L!Admits, Outcomes

LEMMA CommitType ==
  ASSUME Placed, NEW s \in Scanners, Commit(s)
  PROVE  TypeOK'
<1> DEFINE c == scan[s]
<1>1. /\ c.pc = "commit"
      /\ c.key \in Keys /\ c.qr \in Credentials /\ c.checkpoint \in Checkpoints
  BY DEF Placed, ScanPlaced, Commit, At
<1>2. c \in ScanState
  BY DEF Placed, TypeOK
<1>3. c.ordinal \in Nat /\ c.began \in Nat
  BY <1>2 DEF ScanState
<1>4. c.outcome \in Outcomes /\ (c.outcome = "redeemed" => c.qr \in Passes)
  BY <1>1, JustifiedShape DEF Placed, VerdictsStand, ScanStands
<1>5. RequestOf(c) \in Request
  BY <1>1, <1>3, <1>4 DEF RequestOf, Request
<1>6. c.outcome = "redeemed" => RedemptionOf(c) \in Redemption
  BY <1>1, <1>3, <1>4, OwnerAssumption DEF RedemptionOf, Redemption
<1>7. /\ scan' \in [Scanners -> ScanState]
      /\ held' \in [Sessions -> SUBSET (LockRows \X Modes)]
  BY FinishType DEF Commit, Placed, TypeOK
<1>8. requests' \subseteq Request /\ answers' \subseteq Request
  BY <1>5 DEF Commit, Tell, Placed, TypeOK
<1>9. redemptions' \subseteq Redemption /\ IsFiniteSet(redemptions')
  BY <1>6, FS_AddElement DEF Commit, Placed, TypeOK
<1> QED BY <1>7, <1>8, <1>9 DEF Placed, TypeOK, Commit, policy

LEMMA AbortType ==
  ASSUME Placed, NEW s \in Scanners, Abort(s)
  PROVE  TypeOK'
<1>1. /\ scan' \in [Scanners -> ScanState]
      /\ held' \in [Sessions -> SUBSET (LockRows \X Modes)]
  BY FinishType DEF Abort, Placed, TypeOK
<1> QED BY <1>1 DEF Placed, TypeOK, Abort, policy, ledger

-------------------------------------------------------------------------------
(* The organizers' steps.                                                  *)

LEMMA JobFields ==
  ASSUME NEW op \in Jobs
  PROVE  /\ op.kind \in AllKinds
         /\ OfPass(op) => op.pass \in Passes
         /\ ~OfPass(op) /\ op.kind \notin {"update_checkpoint", "delete_checkpoint"}
              => op.attendee \in Attendees
         /\ op.kind \in {"put_entitlement", "delete_entitlement",
                         "update_checkpoint", "delete_checkpoint"}
              => op.checkpoint \in Checkpoints
         /\ op.kind = "put_entitlement" => op.rule \in Rules
         /\ op.kind = "update_checkpoint" => op.settings \in Settings
BY DEF Jobs, AllKinds, OfPass

\* The plan of a request names rows.
LEMMA LockPlanType ==
  ASSUME TypeOK, NEW op \in Jobs, NEW i \in DOMAIN LockPlan(op)
  PROVE  LockPlan(op)[i] \in LockRows
<1>1. CASE op.kind \in {"update_checkpoint", "delete_checkpoint"}
  <2>1. LockPlan(op) = <<CheckpointRow(op.checkpoint)>>
    BY <1>1 DEF LockPlan, OfPass, OfDecision
  <2>2. CheckpointRow(op.checkpoint) \in LockRows
    BY <1>1, JobFields, RowTypes
  <2> QED BY <2>1, <2>2
<1>2. CASE op.kind \in {"put_entitlement", "delete_entitlement"}
  BY <1>2, JobFields, RowTypes DEF LockPlan, Subject, OfPass
<1>3. CASE OfPass(op)
  BY <1>3, JobFields, RowTypes, OwnerAssumption DEF LockPlan, Subject, OfPass
<1>4. CASE op.kind = "issue"
  <2>1. ActivePasses(Subject(op)) # {} =>
          (CHOOSE p \in ActivePasses(Subject(op)) : TRUE) \in Passes
    BY DEF ActivePasses
  <2> QED BY <1>4, <2>1, JobFields, RowTypes DEF LockPlan, Subject, OfPass
<1>5. CASE OfDecision(op)
  BY <1>5, JobFields, RowTypes DEF LockPlan, Subject, OfPass, OfDecision
<1> QED BY <1>1, <1>2, <1>3, <1>4, <1>5, JobFields DEF AllKinds, OfPass, OfDecision

LEMMA EndJobType ==
  ASSUME TypeOK, NEW s \in Staff, EndJob(s)
  PROVE  /\ job' \in [Staff -> Jobs \cup {None}]
         /\ held' \in [Sessions -> SUBSET (LockRows \X Modes)]
BY DEF TypeOK, EndJob, Unlock

LEMMA BeginJobType ==
  ASSUME TypeOK, NEW s \in Staff, BeginJob(s)
  PROVE  TypeOK'
<1>1. job' \in [Staff -> Jobs \cup {None}]
  BY DEF TypeOK, BeginJob
<1> QED BY <1>1 DEF TypeOK, BeginJob, policy, ledger

LEMMA LockNextType ==
  ASSUME TypeOK, NEW s \in Staff, LockNext(s)
  PROVE  TypeOK'
<1>1. job[s] \in Jobs
  BY DEF TypeOK, LockNext
<1>2. PICK i \in DOMAIN LockPlan(job[s]) : Lock(s, LockPlan(job[s])[i], "update")
  BY DEF LockNext, Unlocked
<1>3. held' \in [Sessions -> SUBSET (LockRows \X Modes)]
  BY <1>1, <1>2, LockPlanType, LockType DEF TypeOK, Sessions, Modes
<1> QED BY <1>3 DEF TypeOK, LockNext, policy, ledger

LEMMA StaffWriteType ==
  ASSUME TypeOK, NEW s \in Staff, StaffStep(s), ~LockNext(s)
  PROVE  TypeOK'
<1>1. CASE PutEntitlement(s)
  <2>1. /\ job[s].attendee \in Attendees /\ job[s].checkpoint \in Checkpoints
        /\ job[s].rule \in Rules
    BY <1>1, JobFields DEF TypeOK, PutEntitlement, Ready, OfPass
  <2>2. overrides' \in [Attendees -> [Checkpoints -> Rules \cup {None}]]
    BY <1>1, <2>1 DEF TypeOK, PutEntitlement
  <2> QED BY <1>1, <2>2, EndJobType DEF TypeOK, PutEntitlement, ledger
<1>2. CASE DeleteEntitlement(s)
  <2>1. overrides' \in [Attendees -> [Checkpoints -> Rules \cup {None}]]
    BY <1>2 DEF TypeOK, DeleteEntitlement
  <2> QED BY <1>2, <2>1, EndJobType DEF TypeOK, DeleteEntitlement, ledger
<1>3. CASE UpdateCheckpoint(s)
  <2>1. job[s].settings \in Settings
    BY <1>3, JobFields DEF TypeOK, UpdateCheckpoint, Ready
  <2> QED BY <1>3, <2>1, EndJobType DEF TypeOK, UpdateCheckpoint, ledger
<1>4. CASE DeleteCheckpoint(s)
  BY <1>4, EndJobType DEF TypeOK, DeleteCheckpoint, ledger
<1>5. CASE Issue(s)
  BY <1>5, EndJobType DEF TypeOK, Issue, ledger
<1>6. CASE Reissue(s)
  BY <1>6, EndJobType DEF TypeOK, Reissue, ledger
<1>7. CASE Revoke(s)
  BY <1>7, EndJobType DEF TypeOK, Revoke, ledger
<1>8. CASE RecordDecision(s)
  BY <1>8, EndJobType DEF TypeOK, RecordDecision, ledger
<1>9. CASE ReleaseDecision(s)
  BY <1>9, EndJobType DEF TypeOK, ReleaseDecision, ledger
<1> QED BY <1>1, <1>2, <1>3, <1>4, <1>5, <1>6, <1>7, <1>8, <1>9 DEF StaffStep

LEMMA AbortJobType ==
  ASSUME TypeOK, NEW s \in Staff, AbortJob(s)
  PROVE  TypeOK'
BY EndJobType DEF TypeOK, AbortJob, policy, ledger

\* Every step of the system keeps the types.
LEMMA TypeStep ==
  ASSUME Placed, [Next]_vars
  PROVE  TypeOK'
<1>1. CASE Tick
  BY <1>1 DEF Tick, Placed, TypeOK, policy, ledger
<1>2. ASSUME NEW s \in Scanners, Begin(s) \/ ScannerStep(s) \/ Abort(s)
      PROVE  TypeOK'
  BY <1>2, BeginType, FindRequestType, LockCheckpointType, LockPassType,
     LockAttendeeType, LockApplicationType, EffectiveEntitlementType,
     CountRedemptionsType, InsertRequestType, RetryAttemptType, CommitType,
     AbortType DEF ScannerStep
<1>3. ASSUME NEW s \in Staff, BeginJob(s) \/ StaffStep(s) \/ AbortJob(s)
      PROVE  TypeOK'
  BY <1>3, BeginJobType, LockNextType, StaffWriteType, AbortJobType DEF Placed
<1>4. CASE UNCHANGED vars
  BY <1>4 DEF vars, Placed, TypeOK
<1> QED BY <1>1, <1>2, <1>3, <1>4 DEF Next

-------------------------------------------------------------------------------
(* Locks.                                                                  *)

\* A step takes one lock, frees all of one session's, or touches none.
LEMMA HeldStep ==
  ASSUME Placed, [Next]_vars
  PROVE  \/ held' = held
         \/ \E s \in Sessions : Unlock(s)
         \/ \E s \in Sessions, row \in LockRows, mode \in Modes : Lock(s, row, mode)
<1> DEFINE Goal == \/ held' = held
                   \/ \E s \in Sessions : Unlock(s)
                   \/ \E s \in Sessions, row \in LockRows, mode \in Modes :
                        Lock(s, row, mode)
<1>1. ASSUME NEW s \in Sessions, NEW row \in LockRows, Lock(s, row, "update")
      PROVE  Goal
  BY <1>1 DEF Modes
<1>2. ASSUME NEW s \in Scanners, ScannerStep(s)
      PROVE  Goal
  <2>1. s \in Sessions
    BY DEF Sessions
  <2>2. CASE FindRequest(s)
    BY <2>1, <2>2 DEF FindRequest, Finish
  <2>3. CASE LockCheckpoint(s)
    <3>1. scan[s].checkpoint \in Checkpoints
      BY <2>3 DEF Placed, ScanPlaced, LockCheckpoint, At
    <3> QED BY <2>1, <2>3, <3>1, RowTypes DEF LockCheckpoint, Finish, Modes
  <2>4. CASE LockPass(s)
    BY <1>1, <2>1, <2>4, RowTypes DEF LockPass
  <2>5. CASE LockAttendee(s) \/ LockApplication(s)
    <3>1. Owner[scan[s].qr] \in Attendees
      BY <2>5, OwnerAssumption
      DEF Placed, ScanPlaced, LockAttendee, LockApplication, At, Steps
    <3> QED BY <1>1, <2>1, <2>5, <3>1, RowTypes DEF LockAttendee, LockApplication
  <2>6. CASE EffectiveEntitlement(s) \/ CountRedemptions(s)
    BY <2>6 DEF EffectiveEntitlement, CountRedemptions
  <2>7. CASE InsertRequest(s)
    <3>1. scan[s].key \in Keys
      BY <2>7 DEF Placed, ScanPlaced, InsertRequest, At
    <3> QED BY <1>1, <2>1, <2>7, <3>1, RowTypes DEF InsertRequest
  <2>8. CASE RetryAttempt(s) \/ Commit(s)
    BY <2>1, <2>8 DEF RetryAttempt, Commit, Finish
  <2> QED BY <1>2, <2>2, <2>3, <2>4, <2>5, <2>6, <2>7, <2>8 DEF ScannerStep
<1>3. ASSUME NEW s \in Staff, StaffStep(s) \/ AbortJob(s)
      PROVE  Goal
  <2>1. s \in Sessions
    BY DEF Sessions
  <2>2. CASE LockNext(s)
    <3>1. job[s] \in Jobs
      BY <2>2 DEF Placed, TypeOK, LockNext
    <3>2. PICK i \in DOMAIN LockPlan(job[s]) : Lock(s, LockPlan(job[s])[i], "update")
      BY <2>2 DEF LockNext, Unlocked
    <3> QED BY <1>1, <2>1, <3>1, <3>2, LockPlanType DEF Placed
  <2>3. CASE ~LockNext(s)
    BY <1>3, <2>1, <2>3
    DEF StaffStep, AbortJob, EndJob, PutEntitlement, DeleteEntitlement,
        UpdateCheckpoint, DeleteCheckpoint, Issue, Reissue, Revoke,
        RecordDecision, ReleaseDecision
  <2> QED BY <2>2, <2>3
<1>4. CASE Tick \/ \E s \in Scanners : Begin(s)
  BY <1>4 DEF Tick, Begin
<1>5. CASE \E s \in Scanners : Abort(s)
  BY <1>5 DEF Abort, Finish, Sessions
<1>6. CASE \E s \in Staff : BeginJob(s)
  BY <1>6 DEF BeginJob
<1>7. CASE UNCHANGED vars
  BY <1>7 DEF vars
<1> QED BY <1>2, <1>3, <1>4, <1>5, <1>6, <1>7 DEF Next

LEMMA ExcludeStep ==
  ASSUME Placed, LocksExclude, [Next]_vars
  PROVE  LocksExclude'
<1>1. held \in [Sessions -> SUBSET (LockRows \X Modes)]
  BY DEF Placed, TypeOK
<1>2. CASE held' = held
  BY <1>2 DEF LocksExclude
<1> QED BY <1>1, <1>2, HeldStep, LockExcludes, UnlockExcludes

-------------------------------------------------------------------------------
(* Where a scan is.                                                        *)

\* What the updates of a scan's record do, field by field.
LEMMA GoEffect ==
  ASSUME scan \in [Scanners -> ScanState],
         NEW s \in Scanners, NEW step \in Steps, Go(s, step)
  PROVE  /\ scan'[s].pc = step
         /\ scan'[s].key = scan[s].key /\ scan'[s].qr = scan[s].qr
         /\ scan'[s].checkpoint = scan[s].checkpoint
         /\ scan'[s].began = scan[s].began
         /\ scan'[s].settings = scan[s].settings /\ scan'[s].rule = scan[s].rule
         /\ scan'[s].outcome = scan[s].outcome /\ scan'[s].ordinal = scan[s].ordinal
         /\ \A t \in Scanners \ {s} : scan'[t] = scan[t]
BY DEF Go, ScanState

LEMMA DecideEffect ==
  ASSUME scan \in [Scanners -> ScanState],
         NEW s \in Scanners, NEW outcome, NEW n, Decide(s, outcome, n)
  PROVE  /\ scan'[s].pc = "insert"
         /\ scan'[s].key = scan[s].key /\ scan'[s].qr = scan[s].qr
         /\ scan'[s].checkpoint = scan[s].checkpoint
         /\ scan'[s].began = scan[s].began
         /\ scan'[s].settings = scan[s].settings
         /\ scan'[s].outcome = outcome /\ scan'[s].ordinal = n
         /\ \A t \in Scanners \ {s} : scan'[t] = scan[t]
BY DEF Decide, ScanState

LEMMA ConfigureEffect ==
  ASSUME scan \in [Scanners -> ScanState],
         NEW s \in Scanners, NEW settings, Configure(s, settings)
  PROVE  /\ scan'[s].pc = IF scan[s].qr = Malformed THEN "insert" ELSE "pass"
         /\ scan'[s].key = scan[s].key /\ scan'[s].qr = scan[s].qr
         /\ scan'[s].checkpoint = scan[s].checkpoint
         /\ scan'[s].began = scan[s].began
         /\ scan'[s].settings = settings
         /\ scan'[s].outcome = IF scan[s].qr = Malformed THEN "invalid_pass"
                                                         ELSE scan[s].outcome
         /\ scan'[s].ordinal = scan[s].ordinal
         /\ \A t \in Scanners \ {s} : scan'[t] = scan[t]
BY DEF Configure, ScanState

LEMMA LockEffect ==
  ASSUME held \in [Sessions -> SUBSET (LockRows \X Modes)],
         NEW s \in Sessions, NEW row, NEW mode, Lock(s, row, mode)
  PROVE  /\ held[s] \subseteq held'[s] /\ <<row, mode>> \in held'[s]
         /\ \A t \in Sessions \ {s} : held'[t] = held[t]
BY DEF Lock

LEMMA UnlockEffect ==
  ASSUME held \in [Sessions -> SUBSET (LockRows \X Modes)],
         NEW s \in Sessions, Unlock(s)
  PROVE  \A t \in Sessions \ {s} : held'[t] = held[t]
BY DEF Unlock

\* A scan that ends or starts over is placed whatever it holds.
LEMMA IdlePlaced ==
  ASSUME TypeOK, now' = now, NEW s \in Scanners, Finish(s)
  PROVE  ScanPlaced(s)'
<1>1. scan'[s] = Idle
  BY DEF Finish, TypeOK
<1> QED BY <1>1 DEF ScanPlaced, Idle, PastCheckpoint, PastPass, PastAttendee,
                    PastApplication, Steps, TypeOK

LEMMA AttemptPlaced ==
  ASSUME TypeOK, now' = now, NEW s \in Scanners,
         NEW key \in Keys, NEW qr \in Credentials, NEW c \in Checkpoints, NEW n,
         scan' = [scan EXCEPT ![s] = Attempt(key, qr, c, n)]
  PROVE  ScanPlaced(s)'
<1>1. scan'[s] = Attempt(key, qr, c, n)
  BY DEF TypeOK
<1> QED BY <1>1 DEF ScanPlaced, Attempt, PastCheckpoint, PastPass, PastAttendee,
                    PastApplication, Steps, TypeOK

\* The scan that moves.
LEMMA OwnPlaced ==
  ASSUME Placed, NEW s \in Scanners, ScannerStep(s)
  PROVE  ScanPlaced(s)'
<1> USE DEF PastCheckpoint, PastPass, PastAttendee, PastApplication, Steps
<1>1. /\ scan \in [Scanners -> ScanState] /\ now \in Nat /\ s \in Sessions
      /\ held \in [Sessions -> SUBSET (LockRows \X Modes)]
      /\ ScanPlaced(s)
  BY DEF Placed, TypeOK, Sessions
<1>2. CASE FindRequest(s)
  <2>1. CASE Finish(s)
    BY <1>2, <2>1, IdlePlaced DEF Placed, FindRequest
  <2>2. CASE Go(s, "checkpoint") /\ held' = held
    BY <1>1, <1>2, <2>2, GoEffect DEF ScanPlaced, FindRequest, At
  <2> QED BY <1>2, <2>1, <2>2 DEF FindRequest
<1>3. CASE LockCheckpoint(s)
  <2>1. CASE Finish(s)
    BY <1>3, <2>1, IdlePlaced DEF Placed, LockCheckpoint
  <2>2. CASE /\ Lock(s, CheckpointRow(scan[s].checkpoint), "share")
             /\ Configure(s, checkpoints[scan[s].checkpoint])
    <3>1. scan[s].pc = "checkpoint" /\ now' = now
      BY <1>3 DEF LockCheckpoint, At
    <3>2. /\ scan[s].key \in Keys /\ scan[s].qr \in Credentials
          /\ scan[s].checkpoint \in Checkpoints
      BY <1>1, <3>1 DEF ScanPlaced
    <3> QED BY <1>1, <2>2, <3>1, <3>2, ConfigureEffect, LockEffect, SentinelAssumption
            DEF ScanPlaced
  <2> QED BY <1>3, <2>1, <2>2 DEF LockCheckpoint
<1>4. CASE LockPass(s)
  BY <1>1, <1>4, DecideEffect, GoEffect, LockEffect, SentinelAssumption
  DEF ScanPlaced, LockPass, At
<1>5. CASE LockAttendee(s)
  BY <1>1, <1>5, GoEffect, LockEffect DEF ScanPlaced, LockAttendee, At
<1>6. CASE LockApplication(s)
  BY <1>1, <1>6, DecideEffect, GoEffect, LockEffect
  DEF ScanPlaced, LockApplication, At
<1>7. CASE EffectiveEntitlement(s)
  <2> DEFINE rule == Resolve(scan[s].settings.rule,
                             overrides[Owner[scan[s].qr]][scan[s].checkpoint])
  <2>1. CASE Decide(s, "not_entitled", 0)
    BY <1>1, <1>7, <2>1, DecideEffect DEF ScanPlaced, EffectiveEntitlement, At
  <2>2. CASE scan' = [scan EXCEPT ![s] = [@ EXCEPT !.pc = "count", !.rule = rule]]
    <3>1. /\ scan'[s].pc = "count"
          /\ scan'[s].key = scan[s].key /\ scan'[s].qr = scan[s].qr
          /\ scan'[s].checkpoint = scan[s].checkpoint
          /\ scan'[s].began = scan[s].began /\ scan'[s].ordinal = scan[s].ordinal
      BY <1>1, <2>2 DEF ScanState
    <3> QED BY <1>1, <1>7, <3>1 DEF ScanPlaced, EffectiveEntitlement, At
  <2> QED BY <1>7, <2>1, <2>2 DEF EffectiveEntitlement
<1>8. CASE CountRedemptions(s)
  BY <1>1, <1>8, DecideEffect DEF ScanPlaced, CountRedemptions, At
<1>9. CASE InsertRequest(s)
  BY <1>1, <1>9, GoEffect, LockEffect DEF ScanPlaced, InsertRequest, At
<1>10. CASE RetryAttempt(s)
  <2>1. CASE scan' = [scan EXCEPT ![s] = Idle]
    BY <1>10, <2>1, IdlePlaced DEF Placed, RetryAttempt, Finish
  <2>2. CASE scan' = [scan EXCEPT ![s] = Attempt(scan[s].key, scan[s].qr,
                              scan[s].checkpoint, scan[s].attempt + 1)]
    <3>1. /\ scan[s].key \in Keys /\ scan[s].qr \in Credentials
          /\ scan[s].checkpoint \in Checkpoints
      BY <1>1, <1>10 DEF ScanPlaced, RetryAttempt, At
    <3>2. TypeOK /\ now' = now
      BY <1>10 DEF Placed, RetryAttempt
    <3> QED BY <2>2, <3>1, <3>2, AttemptPlaced
  <2> QED BY <1>10, <2>1, <2>2 DEF RetryAttempt
<1>11. CASE Commit(s)
  BY <1>11, IdlePlaced DEF Placed, Commit
<1> QED BY <1>2, <1>3, <1>4, <1>5, <1>6, <1>7, <1>8, <1>9, <1>10, <1>11 DEF ScannerStep

\* A session's step leaves the records and the locks of the others alone.
LEMMA ScannerLocal ==
  ASSUME TypeOK, NEW s \in Scanners, Begin(s) \/ ScannerStep(s) \/ Abort(s)
  PROVE  /\ \A t \in Scanners \ {s} : scan'[t] = scan[t] /\ held'[t] = held[t]
         /\ \A t \in Staff : held'[t] = held[t]
         /\ job' = job
<1>1. /\ scan \in [Scanners -> ScanState] /\ s \in Sessions
      /\ held \in [Sessions -> SUBSET (LockRows \X Modes)]
  BY DEF TypeOK, Sessions
<1>2. \A t \in Scanners \ {s} : scan'[t] = scan[t]
  <2>1. CASE Begin(s)
    BY <1>1, <2>1 DEF Begin
  <2>2. CASE Abort(s) \/ Commit(s)
    BY <1>1, <2>2 DEF Abort, Commit, Finish
  <2>3. CASE FindRequest(s) \/ LockPass(s) \/ LockAttendee(s) \/ LockApplication(s)
    BY <1>1, <2>3 DEF FindRequest, LockPass, LockAttendee, LockApplication,
                      Finish, Go, Decide
  <2>4. CASE LockCheckpoint(s)
    BY <1>1, <2>4, ConfigureEffect DEF LockCheckpoint, Finish
  <2>5. CASE EffectiveEntitlement(s)
    BY <1>1, <2>5, DecideEffect DEF EffectiveEntitlement
  <2>6. CASE CountRedemptions(s)
    BY <1>1, <2>6, DecideEffect DEF CountRedemptions
  <2>7. CASE InsertRequest(s)
    BY <1>1, <2>7, GoEffect DEF InsertRequest, Steps
  <2>8. CASE RetryAttempt(s)
    BY <1>1, <2>8 DEF RetryAttempt
  <2> QED BY <2>1, <2>2, <2>3, <2>4, <2>5, <2>6, <2>7, <2>8 DEF ScannerStep
<1>3. \A t \in Sessions \ {s} : held'[t] = held[t]
  BY <1>1, LockEffect, UnlockEffect
  DEF Begin, ScannerStep, Abort, FindRequest, LockCheckpoint, LockPass, LockAttendee,
      LockApplication, EffectiveEntitlement, CountRedemptions, InsertRequest,
      RetryAttempt, Commit, Finish
<1>4. job' = job
  BY DEF Begin, ScannerStep, Abort, FindRequest, LockCheckpoint, LockPass, LockAttendee,
      LockApplication, EffectiveEntitlement, CountRedemptions, InsertRequest,
      RetryAttempt, Commit
<1> QED BY <1>2, <1>3, <1>4, SessionsAssumption DEF Sessions

LEMMA StaffLocal ==
  ASSUME TypeOK, NEW s \in Staff, BeginJob(s) \/ StaffStep(s) \/ AbortJob(s)
  PROVE  /\ scan' = scan /\ now' = now /\ ledger' = ledger
         /\ \A t \in Sessions \ {s} : held'[t] = held[t]
         /\ \A t \in Staff \ {s} : job'[t] = job[t]
<1>1. s \in Sessions /\ held \in [Sessions -> SUBSET (LockRows \X Modes)]
  BY DEF TypeOK, Sessions
<1> USE DEF BeginJob, StaffStep, AbortJob, LockNext, PutEntitlement, DeleteEntitlement,
            UpdateCheckpoint, DeleteCheckpoint, Issue, Reissue, Revoke,
            RecordDecision, ReleaseDecision, EndJob
<1>2. scan' = scan /\ now' = now /\ ledger' = ledger
  BY DEF ledger
<1>3. \A t \in Sessions \ {s} : held'[t] = held[t]
  BY <1>1, LockEffect, UnlockEffect
<1>4. \A t \in Staff \ {s} : job'[t] = job[t]
  BY DEF TypeOK
<1> QED BY <1>2, <1>3, <1>4

LEMMA SamePlaced ==
  ASSUME NEW t \in Scanners, ScanPlaced(t),
         scan'[t] = scan[t], held'[t] = held[t],
         now \in Nat, scan[t].began \in Nat, now' = now \/ now' = now + 1
  PROVE  ScanPlaced(t)'
BY DEF ScanPlaced

LEMMA PlacedStep ==
  ASSUME Placed, [Next]_vars
  PROVE  \A t \in Scanners : ScanPlaced(t)'
<1> SUFFICES ASSUME NEW t \in Scanners
             PROVE  ScanPlaced(t)'
  OBVIOUS
<1>1. TypeOK /\ ScanPlaced(t) /\ now \in Nat
  BY DEF Placed, TypeOK
<1>2. scan[t] \in ScanState
  BY DEF Placed, TypeOK
<1>3. scan[t].began \in Nat
  BY <1>2 DEF ScanState
<1>4. CASE Tick \/ UNCHANGED vars
  BY <1>1, <1>3, <1>4, SamePlaced DEF Tick, vars
<1>5. ASSUME NEW s \in Scanners, Begin(s) \/ ScannerStep(s) \/ Abort(s)
      PROVE  ScanPlaced(t)'
  <2>1. now' = now
    BY <1>5 DEF Begin, ScannerStep, Abort, FindRequest, LockCheckpoint, LockPass,
       LockAttendee, LockApplication, EffectiveEntitlement, CountRedemptions,
       InsertRequest, RetryAttempt, Commit
  <2>2. CASE t # s
    BY <1>1, <1>3, <1>5, <2>1, <2>2, SamePlaced, ScannerLocal
  <2>3. CASE t = s /\ ScannerStep(s)
    BY <2>3, OwnPlaced
  <2>4. CASE t = s /\ Begin(s)
    BY <1>1, <2>1, <2>4, AttemptPlaced DEF Begin
  <2>5. CASE t = s /\ Abort(s)
    BY <1>1, <2>1, <2>5, IdlePlaced DEF Abort
  <2> QED BY <1>5, <2>2, <2>3, <2>4, <2>5
<1>6. ASSUME NEW s \in Staff, BeginJob(s) \/ StaffStep(s) \/ AbortJob(s)
      PROVE  ScanPlaced(t)'
  <2>1. t \in Sessions /\ t # s
    BY SessionsAssumption DEF Sessions
  <2> QED BY <1>1, <1>3, <1>6, <2>1, SamePlaced, StaffLocal
<1> QED BY <1>4, <1>5, <1>6 DEF Next

-------------------------------------------------------------------------------
(* What a lock protects.                                                   *)

LEMMA UpdateExcludes ==
  ASSUME LocksExclude, NEW s \in Sessions, NEW t \in Sessions, NEW row \in LockRows,
         NEW m \in {"share", "update"},
         <<row, m>> \in held[t], <<row, "update">> \in held[s]
  PROVE  s = t
BY DEF LocksExclude, Modes, Compatible

\* An organizer's write happens under the locks of its plan.
LEMMA ReadyHolds ==
  ASSUME TypeOK, NEW s \in Staff, NEW kind, Ready(s, kind)
  PROVE  LET op == job[s]
             a == Subject(op)
         IN  /\ op \in Jobs /\ op.kind = kind
             /\ kind \in {"put_entitlement", "delete_entitlement",
                          "update_checkpoint", "delete_checkpoint"}
                  => <<CheckpointRow(op.checkpoint), "update">> \in held[s]
             /\ kind \in {"issue", "reissue", "revoke"}
                  => <<AttendeeRow(a), "update">> \in held[s]
             /\ kind \in {"reissue", "revoke"}
                  => <<PassRow(op.pass), "update">> \in held[s]
             /\ kind \in {"record_decision", "release_decision"}
                  => <<ApplicationRow(a), "update">> \in held[s]
<1> DEFINE op == job[s]
           a == Subject(op)
<1>1. op \in Jobs /\ op.kind = kind
  BY DEF Ready, TypeOK
<1>2. \A i \in DOMAIN LockPlan(op) : <<LockPlan(op)[i], "update">> \in held[s]
  BY DEF Ready, Unlocked
<1> USE DEF LockPlan, OfPass, OfDecision
<1>3. CASE kind \in {"update_checkpoint", "delete_checkpoint"}
  <2>1. LockPlan(op) = <<CheckpointRow(op.checkpoint)>>
    BY <1>1, <1>3
  <2> QED BY <1>1, <1>2, <1>3, <2>1
<1>4. CASE kind \in {"put_entitlement", "delete_entitlement"}
  <2>1. LockPlan(op) = <<CheckpointRow(op.checkpoint), AttendeeRow(a), ApplicationRow(a)>>
    BY <1>1, <1>4
  <2> QED BY <1>1, <1>2, <1>4, <2>1
<1>5. CASE kind \in {"reissue", "revoke"}
  <2>1. LockPlan(op) = <<AttendeeRow(a), ApplicationRow(a), PassRow(op.pass)>>
    BY <1>1, <1>5
  <2> QED BY <1>1, <1>2, <1>5, <2>1
<1>6. CASE kind = "issue"
  <2>1. 1 \in DOMAIN LockPlan(op) /\ LockPlan(op)[1] = AttendeeRow(a)
    BY <1>1, <1>6
  <2> QED BY <1>1, <1>2, <1>6, <2>1
<1>7. CASE kind \in {"record_decision", "release_decision"}
  <2>1. LockPlan(op) = <<ApplicationRow(a)>>
    BY <1>1, <1>7
  <2> QED BY <1>1, <1>2, <1>7, <2>1
<1> QED BY <1>1, <1>3, <1>4, <1>5, <1>6, <1>7

\* No organizer changes what a scan in flight has read.
LEMMA StaffKeeps ==
  ASSUME Placed, LocksExclude, NEW s \in Staff, StaffStep(s),
         NEW t \in Scanners
  PROVE  LET c == scan[t]
         IN  /\ c.pc \in PastCheckpoint =>
                  /\ checkpoints'[c.checkpoint] = checkpoints[c.checkpoint]
                  /\ \A a \in Attendees :
                       overrides'[a][c.checkpoint] = overrides[a][c.checkpoint]
             /\ c.pc \in PastApplication /\ c.qr \in Passes =>
                  /\ passes'[c.qr] = passes[c.qr]
                  /\ eligible'[Owner[c.qr]] = eligible[Owner[c.qr]]
<1> DEFINE c == scan[t]
           op == job[s]
<1>1. TypeOK /\ s \in Sessions /\ t \in Sessions /\ s # t /\ ScanPlaced(t)
  BY SessionsAssumption DEF Placed, Sessions
<1>2. ASSUME c.pc \in PastCheckpoint
      PROVE  /\ checkpoints'[c.checkpoint] = checkpoints[c.checkpoint]
             /\ \A a \in Attendees :
                  overrides'[a][c.checkpoint] = overrides[a][c.checkpoint]
  <2>1. /\ c.checkpoint \in Checkpoints
        /\ <<CheckpointRow(c.checkpoint), "share">> \in held[t]
    BY <1>1, <1>2 DEF ScanPlaced, PastCheckpoint, Steps
  <2>2. <<CheckpointRow(c.checkpoint), "update">> \notin held[s]
    BY <1>1, <2>1, RowTypes, UpdateExcludes, LocksExclude
  <2>3. CASE PutEntitlement(s) \/ DeleteEntitlement(s)
    <3>1. op.checkpoint # c.checkpoint
      BY <1>1, <2>2, <2>3, ReadyHolds DEF PutEntitlement, DeleteEntitlement
    <3>2. \A a \in Attendees : overrides'[a][c.checkpoint] = overrides[a][c.checkpoint]
      <4>1. overrides \in [Attendees -> [Checkpoints -> Rules \cup {None}]]
        BY <1>1 DEF TypeOK
      <4>2. CASE PutEntitlement(s)
        BY <2>1, <3>1, <4>1, <4>2 DEF PutEntitlement
      <4>3. CASE DeleteEntitlement(s)
        BY <2>1, <3>1, <4>1, <4>3 DEF DeleteEntitlement
      <4> QED BY <2>3, <4>2, <4>3
    <3> QED BY <2>3, <3>2 DEF PutEntitlement, DeleteEntitlement
  <2>4. CASE UpdateCheckpoint(s) \/ DeleteCheckpoint(s)
    <3>1. op.checkpoint # c.checkpoint
      BY <1>1, <2>2, <2>4, ReadyHolds DEF UpdateCheckpoint, DeleteCheckpoint
    <3>2. checkpoints \in [Checkpoints -> Settings \cup {None}]
      BY <1>1 DEF TypeOK
    <3> QED BY <2>1, <2>4, <3>1, <3>2 DEF UpdateCheckpoint, DeleteCheckpoint
  <2>5. CASE LockNext(s) \/ Issue(s) \/ Reissue(s) \/ Revoke(s)
             \/ RecordDecision(s) \/ ReleaseDecision(s)
    BY <2>5 DEF LockNext, Issue, Reissue, Revoke, RecordDecision, ReleaseDecision, policy
  <2> QED BY <2>3, <2>4, <2>5 DEF StaffStep
<1>3. ASSUME c.pc \in PastApplication, c.qr \in Passes
      PROVE  /\ passes'[c.qr] = passes[c.qr]
             /\ eligible'[Owner[c.qr]] = eligible[Owner[c.qr]]
  <2>1. /\ <<AttendeeRow(Owner[c.qr]), "update">> \in held[t]
        /\ <<ApplicationRow(Owner[c.qr]), "update">> \in held[t]
        /\ Owner[c.qr] \in Attendees
    BY <1>1, <1>3, OwnerAssumption DEF ScanPlaced, PastAttendee, PastApplication
  <2>2. /\ <<AttendeeRow(Owner[c.qr]), "update">> \notin held[s]
        /\ <<ApplicationRow(Owner[c.qr]), "update">> \notin held[s]
    BY <1>1, <2>1, RowTypes, UpdateExcludes, LocksExclude
  <2>3. CASE Issue(s)
    <3>1. op.attendee # Owner[c.qr]
      <4>1. op.kind = "issue" /\ <<AttendeeRow(Subject(op)), "update">> \in held[s]
        BY <1>1, <2>3, ReadyHolds DEF Issue
      <4>2. Subject(op) = op.attendee
        BY <4>1 DEF Subject, OfPass
      <4> QED BY <2>2, <4>1, <4>2
    <3> QED BY <1>1, <1>3, <2>3, <3>1 DEF Issue, TypeOK
  <2>4. CASE Reissue(s)
    <3>1. Owner[op.pass] # Owner[c.qr]
      BY <1>1, <2>2, <2>4, ReadyHolds DEF Reissue, Subject, OfPass
    <3> QED BY <1>1, <1>3, <2>4, <3>1 DEF Reissue, TypeOK
  <2>5. CASE Revoke(s)
    <3>1. Owner[op.pass] # Owner[c.qr]
      BY <1>1, <2>2, <2>5, ReadyHolds DEF Revoke, Subject, OfPass
    <3> QED BY <1>1, <1>3, <2>5, <3>1 DEF Revoke, TypeOK
  <2>6. CASE RecordDecision(s) \/ ReleaseDecision(s)
    <3>1. op.attendee # Owner[c.qr]
      <4>1. /\ op.kind \in {"record_decision", "release_decision"}
            /\ <<ApplicationRow(Subject(op)), "update">> \in held[s]
        BY <1>1, <2>6, ReadyHolds DEF RecordDecision, ReleaseDecision
      <4>2. Subject(op) = op.attendee
        BY <4>1 DEF Subject, OfPass
      <4> QED BY <2>2, <4>1, <4>2
    <3>2. eligible \in [Attendees -> BOOLEAN]
      BY <1>1 DEF TypeOK
    <3> QED BY <2>1, <2>6, <3>1, <3>2 DEF RecordDecision, ReleaseDecision
  <2>7. CASE LockNext(s) \/ PutEntitlement(s) \/ DeleteEntitlement(s)
             \/ UpdateCheckpoint(s) \/ DeleteCheckpoint(s)
    BY <2>7 DEF LockNext, PutEntitlement, DeleteEntitlement, UpdateCheckpoint,
                DeleteCheckpoint, policy
  <2> QED BY <2>3, <2>4, <2>5, <2>6, <2>7 DEF StaffStep
<1> QED BY <1>2, <1>3

-------------------------------------------------------------------------------
(* Verdicts.                                                               *)

\* A verdict about one attendee at one checkpoint survives what changes others.
LEMMA JustifiedStable ==
  ASSUME NEW outcome, NEW qr, NEW c, NEW t,
         L!Justified(outcome, qr, c, t),
         checkpoints'[c] = checkpoints[c],
         qr \in Passes => /\ passes'[qr] = passes[qr]
                          /\ eligible'[Owner[qr]] = eligible[Owner[qr]]
                          /\ overrides'[Owner[qr]][c] = overrides[Owner[qr]][c]
                          /\ Redeemed(Owner[qr], c)' = Redeemed(Owner[qr], c)
  PROVE  L!Justified(outcome, qr, c, t)'
<1>1. qr \in Passes => L!Redeemed(Owner[qr], c)' = L!Redeemed(Owner[qr], c)
  BY DEF Redeemed, L!Redeemed
<1>2. qr \in Passes => /\ L!Admits(qr)' = L!Admits(qr)
                       /\ L!Allowed(qr, c)' = L!Allowed(qr, c)
                       /\ L!Exhausted(qr, c)' = L!Exhausted(qr, c)
  BY <1>1 DEF L!Admits, L!Allowed, L!Exhausted, L!RuleFor
<1>3. qr \notin Passes => ~L!Admits(qr) /\ ~L!Admits(qr)'
  BY DEF L!Admits
<1>4. L!Open(qr, c, t)' = L!Open(qr, c, t)
  BY DEF L!Open
<1> QED BY <1>1, <1>2, <1>3, <1>4 DEF L!Justified

\* Every refusal LockApplication comes to is justified.
LEMMA RefusalJustified ==
  ASSUME NEW c, c.qr \in Passes, c.settings = checkpoints[c.checkpoint],
         Refusal(c) # None
  PROVE  L!Justified(Refusal(c), c.qr, c.checkpoint, c.began) /\ Refusal(c) # "redeemed"
<1> DEFINE a == Owner[c.qr]
<1>1. CASE passes[c.qr] = "revoked" /\ eligible[a]
  <2>1. Refusal(c) = "revoked_pass"
    BY <1>1 DEF Refusal
  <2> QED BY <1>1, <2>1 DEF L!Justified
<1>2. CASE /\ ~(passes[c.qr] = "revoked" /\ eligible[a])
           /\ passes[c.qr] # "active" \/ ~eligible[a]
  <2>1. Refusal(c) = "invalid_pass"
    BY <1>2 DEF Refusal
  <2> QED BY <1>2, <2>1 DEF L!Justified
<1>3. CASE passes[c.qr] = "active" /\ eligible[a]
  <2>1. L!Admits(c.qr)
    BY <1>3 DEF L!Admits
  <2>2. CASE ~c.settings.active
    <3>1. Refusal(c) = "outside_window"
      BY <1>3, <2>2 DEF Refusal
    <3> QED BY <2>1, <2>2, <3>1 DEF L!Justified
  <2>3. CASE c.settings.active /\ CycleOf[c.checkpoint] # CycleOf[a]
    <3>1. Refusal(c) = "not_entitled"
      BY <1>3, <2>3 DEF Refusal
    <3> QED BY <2>1, <2>3, <3>1 DEF L!Justified, L!SameCycle
  <2>4. CASE c.settings.active /\ CycleOf[c.checkpoint] = CycleOf[a]
    <3>1. Refusal(c) = "outside_window" /\ ~InWindow(c.settings, c.began)
      BY <1>3, <2>4 DEF Refusal
    <3>2. ~L!Open(c.qr, c.checkpoint, c.began)
      BY <3>1 DEF L!Open, InWindow, L!InWindow
    <3> QED BY <2>1, <2>4, <3>1, <3>2 DEF L!Justified, L!SameCycle
  <2> QED BY <2>2, <2>3, <2>4
<1> QED BY <1>1, <1>2, <1>3

\* What is left when nothing was refused.
LEMMA NotRefused ==
  ASSUME NEW c, c.qr \in Passes, c.settings = checkpoints[c.checkpoint],
         Refusal(c) = None
  PROVE  L!Admits(c.qr) /\ L!Open(c.qr, c.checkpoint, c.began)
<1>1. \A o \in Outcomes : Refusal(c) # o
  BY SentinelAssumption
<1>2. /\ passes[c.qr] = "active" /\ eligible[Owner[c.qr]]
      /\ c.settings.active /\ CycleOf[c.checkpoint] = CycleOf[Owner[c.qr]]
      /\ InWindow(c.settings, c.began)
  BY <1>1 DEF Refusal, Outcomes
<1> QED BY <1>2 DEF L!Admits, L!Open, L!SameCycle, InWindow, L!InWindow

\* The promise counts with the same Cardinality.
LEMMA SameCardinality ==
  ASSUME NEW S
  PROVE  L!Cardinality(S) = Cardinality(S)
BY DEF Cardinality, L!Cardinality

\* The verdicts of the effective entitlement and of the count.
LEMMA RuleJustified ==
  ASSUME NEW c, c.qr \in Passes, c.settings = checkpoints[c.checkpoint],
         Refusal(c) = None
  PROVE  LET a == Owner[c.qr]
             rule == Resolve(c.settings.rule, overrides[a][c.checkpoint])
             taken == Cardinality(Redeemed(a, c.checkpoint))
             justified(o) == L!Justified(o, c.qr, c.checkpoint, c.began)
         IN  /\ ~rule.allowed => justified("not_entitled")
             /\ rule.allowed /\ taken >= rule.max => justified("already_exhausted")
             /\ rule.allowed /\ ~(taken >= rule.max) => justified("redeemed")
<1> DEFINE a == Owner[c.qr]
           rule == Resolve(c.settings.rule, overrides[a][c.checkpoint])
           taken == Cardinality(Redeemed(a, c.checkpoint))
<1>1. L!Admits(c.qr) /\ L!Open(c.qr, c.checkpoint, c.began)
  BY NotRefused
<1>2. /\ L!Allowed(c.qr, c.checkpoint) <=> rule.allowed
      /\ L!Exhausted(c.qr, c.checkpoint) <=> taken >= rule.max
  <2>1. L!RuleFor(a, c.checkpoint) = rule
    BY DEF L!RuleFor, L!Resolve, Resolve
  <2>2. L!Redeemed(a, c.checkpoint) = Redeemed(a, c.checkpoint)
    BY DEF L!Redeemed, Redeemed
  <2> HIDE DEF a, rule
  <2>3. L!Allowed(c.qr, c.checkpoint) <=> rule.allowed
    BY <2>1 DEF L!Allowed, a
  <2>4. L!Exhausted(c.qr, c.checkpoint) <=> taken >= rule.max
    BY <2>1, <2>2, SameCardinality DEF L!Exhausted, a
  <2> QED BY <2>3, <2>4
<1>3. checkpoints[c.checkpoint].active
  BY <1>1 DEF L!Open
<1> QED BY <1>1, <1>2, <1>3 DEF L!Justified

\* A scan that is not moving, while what it has read is left alone.
LEMMA SameStands ==
  ASSUME NEW t \in Scanners, ScanPlaced(t), ScanStands(t),
         scan'[t] = scan[t],
         LET c == scan[t]
         IN  /\ c.pc \in PastCheckpoint =>
                  /\ checkpoints'[c.checkpoint] = checkpoints[c.checkpoint]
                  /\ \A a \in Attendees :
                       overrides'[a][c.checkpoint] = overrides[a][c.checkpoint]
             /\ c.pc \in PastApplication /\ c.qr \in Passes =>
                  /\ passes'[c.qr] = passes[c.qr]
                  /\ eligible'[Owner[c.qr]] = eligible[Owner[c.qr]]
             /\ c.pc \in {"insert", "commit"} /\ c.qr \in Passes =>
                  Redeemed(Owner[c.qr], c.checkpoint)'
                    = Redeemed(Owner[c.qr], c.checkpoint)
             /\ c.pc = "commit" => \A r \in requests' : r.key # c.key
  PROVE  ScanStands(t)'
<1> DEFINE c == scan[t]
<1> USE DEF PastCheckpoint, PastPass, PastAttendee, PastApplication, Steps
<1>1. c.pc \in PastCheckpoint =>
        c.settings = checkpoints'[c.checkpoint] /\ c.settings # None
  BY DEF ScanStands
<1>2. ASSUME c.pc \in {"entitlement", "count"}
      PROVE  Refusal(c)' = None
  <2>1. c.qr \in Passes /\ Refusal(c) = None
    BY <1>2 DEF ScanPlaced, ScanStands
  <2> QED BY <1>2, <2>1 DEF Refusal
<1>3. ASSUME c.pc = "count"
      PROVE  /\ c.rule = Resolve(c.settings.rule, overrides'[Owner[c.qr]][c.checkpoint])
             /\ c.rule.allowed
  <2>1. Owner[c.qr] \in Attendees
    BY <1>3, OwnerAssumption DEF ScanPlaced
  <2> QED BY <1>3, <2>1 DEF ScanStands
<1>4. ASSUME c.pc \in {"insert", "commit"}
      PROVE  /\ L!Justified(c.outcome, c.qr, c.checkpoint, c.began)'
             /\ c.ordinal = IF c.outcome = "redeemed"
                  THEN Cardinality(Redeemed(Owner[c.qr], c.checkpoint)') + 1 ELSE 0
  <2>1. L!Justified(c.outcome, c.qr, c.checkpoint, c.began)
    BY <1>4 DEF ScanStands
  <2>2. c.qr \in Passes => Owner[c.qr] \in Attendees
    BY OwnerAssumption
  <2>3. L!Justified(c.outcome, c.qr, c.checkpoint, c.began)'
    <3>1. ASSUME NEW o, NEW qr, NEW k, NEW b, o = c.outcome, qr = c.qr,
                 k = c.checkpoint, b = c.began
          PROVE  L!Justified(o, qr, k, b)'
      BY <1>4, <2>1, <2>2, <3>1, JustifiedStable
    <3> QED BY <3>1
  <2>4. c.outcome = "redeemed" => c.qr \in Passes
    BY <2>1, JustifiedShape
  <2> QED BY <1>4, <2>3, <2>4 DEF ScanStands
<1>5. c.pc = "commit" => \A r \in requests' : r.key # c.key
  OBVIOUS
<1> QED BY <1>1, <1>2, <1>3, <1>4, <1>5 DEF ScanStands

LEMMA IdleStands ==
  ASSUME TypeOK, NEW s \in Scanners, Finish(s)
  PROVE  ScanStands(s)'
<1>1. scan'[s].pc = "idle"
  BY DEF Finish, TypeOK, Idle
<1> QED BY <1>1 DEF ScanStands, PastCheckpoint

LEMMA AttemptStands ==
  ASSUME TypeOK, NEW s \in Scanners, NEW key, NEW qr, NEW c, NEW n,
         scan' = [scan EXCEPT ![s] = Attempt(key, qr, c, n)]
  PROVE  ScanStands(s)'
<1>1. scan'[s].pc = "find"
  BY DEF TypeOK, Attempt
<1> QED BY <1>1 DEF ScanStands, PastCheckpoint

\* A scan decides what the state calls for, and its ordinal is 0.
LEMMA DecideStands ==
  ASSUME TypeOK, NEW s \in Scanners, NEW outcome, NEW n,
         Decide(s, outcome, n), policy' = policy, ledger' = ledger,
         LET c == scan[s]
         IN  /\ c.settings = checkpoints[c.checkpoint] /\ c.settings # None
             /\ L!Justified(outcome, c.qr, c.checkpoint, c.began)
             /\ n = IF outcome = "redeemed"
                    THEN Cardinality(Redeemed(Owner[c.qr], c.checkpoint)) + 1 ELSE 0
  PROVE  ScanStands(s)'
<1> DEFINE c == scan[s]
<1>1. /\ scan'[s].pc = "insert" /\ scan'[s].settings = c.settings
      /\ scan'[s].qr = c.qr /\ scan'[s].checkpoint = c.checkpoint
      /\ scan'[s].began = c.began
      /\ scan'[s].outcome = outcome /\ scan'[s].ordinal = n
  BY DecideEffect DEF TypeOK
<1>2. /\ passes' = passes /\ eligible' = eligible
      /\ checkpoints' = checkpoints /\ overrides' = overrides
      /\ redemptions' = redemptions
  BY DEF policy, ledger
<1>3. ASSUME NEW a, NEW k
      PROVE  Redeemed(a, k)' = Redeemed(a, k)
  BY <1>2 DEF Redeemed
<1>4. ASSUME NEW o, NEW qr, NEW k, NEW b,
             o = outcome, qr = c.qr, k = c.checkpoint, b = c.began
      PROVE  L!Justified(o, qr, k, b)'
  BY <1>2, <1>3, <1>4, JustifiedStable
<1>5. ASSUME NEW a, NEW k, a = Owner[c.qr], k = c.checkpoint
      PROVE  n = IF outcome = "redeemed"
                 THEN Cardinality(Redeemed(a, k)') + 1 ELSE 0
  BY <1>3, <1>5
<1>6. L!Justified(scan[s].outcome, scan[s].qr, scan[s].checkpoint, scan[s].began)'
  BY <1>1, <1>4
<1>7. (scan[s].ordinal = IF scan[s].outcome = "redeemed"
         THEN Cardinality(Redeemed(Owner[scan[s].qr], scan[s].checkpoint)) + 1 ELSE 0)'
  BY <1>1, <1>5
<1> QED BY <1>1, <1>2, <1>6, <1>7 DEF ScanStands

\* A scan that goes on without a verdict.
LEMMA GoStands ==
  ASSUME TypeOK, NEW s \in Scanners, NEW step \in {"attendee", "application"},
         Go(s, step), checkpoints' = checkpoints,
         scan[s].settings = checkpoints[scan[s].checkpoint],
         scan[s].settings # None
  PROVE  ScanStands(s)'
<1>1. step \in Steps
  BY DEF Steps
<1>2. /\ scan'[s].pc = step /\ scan'[s].settings = scan[s].settings
      /\ scan'[s].checkpoint = scan[s].checkpoint
  BY <1>1, GoEffect DEF TypeOK
<1> QED BY <1>2 DEF ScanStands

\* The scan that moves.
LEMMA OwnStands ==
  ASSUME Placed, NEW s \in Scanners, ScannerStep(s)
  PROVE  ScanStands(s)'
<1> DEFINE c == scan[s]
<1> USE DEF PastCheckpoint, PastPass, PastAttendee, PastApplication, Steps
<1>1. TypeOK /\ ScanPlaced(s) /\ ScanStands(s)
  BY DEF Placed, VerdictsStand
<1>2. CASE FindRequest(s)
  <2>1. CASE Finish(s)
    BY <1>1, <2>1, IdleStands
  <2>2. CASE Go(s, "checkpoint")
    <3>1. scan'[s].pc = "checkpoint"
      BY <1>1, <2>2, GoEffect DEF TypeOK
    <3> QED BY <3>1 DEF ScanStands
  <2> QED BY <1>2, <2>1, <2>2 DEF FindRequest
<1>3. CASE LockCheckpoint(s)
  <2>1. CASE Finish(s)
    BY <1>1, <2>1, IdleStands
  <2>2. CASE /\ checkpoints[c.checkpoint] # None
             /\ Configure(s, checkpoints[c.checkpoint])
    <3>1. /\ checkpoints' = checkpoints /\ c.ordinal = 0
      BY <1>1, <1>3 DEF LockCheckpoint, policy, ScanPlaced, At
    <3>2. /\ scan'[s].pc = IF c.qr = Malformed THEN "insert" ELSE "pass"
          /\ scan'[s].settings = checkpoints[c.checkpoint]
          /\ scan'[s].checkpoint = c.checkpoint /\ scan'[s].qr = c.qr
          /\ scan'[s].outcome = IF c.qr = Malformed THEN "invalid_pass" ELSE c.outcome
          /\ scan'[s].ordinal = 0
      BY <1>1, <2>2, <3>1, ConfigureEffect DEF TypeOK
    <3>3. ASSUME c.qr = Malformed
          PROVE  L!Justified(scan[s].outcome, scan[s].qr, scan[s].checkpoint,
                             scan[s].began)'
      BY <3>2, <3>3, SentinelAssumption DEF L!Justified
    <3> QED BY <2>2, <3>1, <3>2, <3>3 DEF ScanStands
  <2> QED BY <1>3, <2>1, <2>2 DEF LockCheckpoint
<1>4. CASE LockPass(s)
  <2>1. /\ c.pc = "pass" /\ policy' = policy /\ ledger' = ledger
        /\ c.settings = checkpoints[c.checkpoint] /\ c.settings # None
    BY <1>1, <1>4 DEF LockPass, At, ScanStands, policy, ledger
  <2>2. CASE c.qr = Forged /\ Decide(s, "invalid_pass", 0)
    <3>1. L!Justified("invalid_pass", c.qr, c.checkpoint, c.began)
      BY <2>2, SentinelAssumption DEF L!Justified
    <3> QED BY <1>1, <2>1, <2>2, <3>1, DecideStands
  <2>3. CASE Go(s, "attendee")
    BY <1>1, <2>1, <2>3, GoStands DEF policy
  <2> QED BY <1>4, <2>2, <2>3 DEF LockPass
<1>5. CASE LockAttendee(s)
  BY <1>1, <1>5, GoStands DEF LockAttendee, At, ScanStands, policy
<1>6. CASE LockApplication(s)
  <2>1. /\ c.pc = "application" /\ policy' = policy /\ ledger' = ledger
        /\ c.settings = checkpoints[c.checkpoint] /\ c.settings # None
        /\ c.qr \in Passes
    BY <1>1, <1>6 DEF LockApplication, At, ScanStands, ScanPlaced, policy, ledger
  <2>2. CASE Refusal(c) # None
    <3>1. L!Justified(Refusal(c), c.qr, c.checkpoint, c.began) /\ Refusal(c) # "redeemed"
      BY <2>1, <2>2, RefusalJustified
    <3>2. Decide(s, Refusal(c), 0)
      BY <1>6, <2>2 DEF LockApplication
    <3> QED BY <1>1, <2>1, <3>1, <3>2, DecideStands
  <2>3. CASE Refusal(c) = None
    <3>1. Go(s, "entitlement")
      BY <1>6, <2>3 DEF LockApplication
    <3>2. /\ scan'[s].pc = "entitlement" /\ scan'[s].settings = c.settings
          /\ scan'[s].checkpoint = c.checkpoint /\ scan'[s].qr = c.qr
          /\ scan'[s].began = c.began
      BY <1>1, <3>1, GoEffect DEF TypeOK
    <3>3. Refusal(scan[s])' = None
      BY <2>1, <2>3, <3>2 DEF Refusal, policy
    <3> QED BY <2>1, <3>2, <3>3 DEF ScanStands, policy
  <2> QED BY <2>2, <2>3
<1>7. CASE EffectiveEntitlement(s)
  <2> DEFINE rule == Resolve(c.settings.rule, overrides[Owner[c.qr]][c.checkpoint])
  <2>1. /\ c.pc = "entitlement" /\ policy' = policy /\ ledger' = ledger
        /\ c.settings = checkpoints[c.checkpoint] /\ c.settings # None
        /\ c.qr \in Passes /\ Refusal(c) = None
    BY <1>1, <1>7 DEF EffectiveEntitlement, At, ScanStands, ScanPlaced, policy, ledger
  <2>2. CASE ~rule.allowed
    <3>1. L!Justified("not_entitled", c.qr, c.checkpoint, c.began)
      BY <2>1, <2>2, RuleJustified
    <3>2. Decide(s, "not_entitled", 0)
      BY <1>7, <2>2 DEF EffectiveEntitlement
    <3> QED BY <1>1, <2>1, <3>1, <3>2, DecideStands
  <2>3. CASE rule.allowed
    <3>1. scan' = [scan EXCEPT ![s] = [@ EXCEPT !.pc = "count", !.rule = rule]]
      BY <1>7, <2>3 DEF EffectiveEntitlement
    <3> HIDE DEF rule
    <3>2. /\ scan'[s].pc = "count" /\ scan'[s].settings = c.settings
          /\ scan'[s].checkpoint = c.checkpoint /\ scan'[s].qr = c.qr
          /\ scan'[s].began = c.began /\ scan'[s].rule = rule
      BY <1>1, <3>1 DEF TypeOK, ScanState
    <3>3. Refusal(scan[s])' = None
      BY <2>1, <3>2 DEF Refusal, policy
    <3>4. (scan[s].rule = Resolve(scan[s].settings.rule,
                                  overrides[Owner[scan[s].qr]][scan[s].checkpoint]))'
      BY <2>1, <3>2 DEF Resolve, rule, policy
    <3> QED BY <2>1, <2>3, <3>2, <3>3, <3>4 DEF ScanStands, policy
  <2> QED BY <2>2, <2>3
<1>8. CASE CountRedemptions(s)
  <2> DEFINE taken == Cardinality(Redeemed(Owner[c.qr], c.checkpoint))
  <2>1. /\ c.pc = "count" /\ policy' = policy /\ ledger' = ledger
        /\ c.settings = checkpoints[c.checkpoint] /\ c.settings # None
        /\ c.qr \in Passes /\ Refusal(c) = None
        /\ c.rule = Resolve(c.settings.rule, overrides[Owner[c.qr]][c.checkpoint])
        /\ c.rule.allowed
    BY <1>1, <1>8 DEF CountRedemptions, At, ScanStands, ScanPlaced, policy, ledger
  <2>2. CASE taken >= c.rule.max
    <3>1. L!Justified("already_exhausted", c.qr, c.checkpoint, c.began)
      BY <2>1, <2>2, RuleJustified
    <3>2. Decide(s, "already_exhausted", 0)
      BY <1>8, <2>2 DEF CountRedemptions
    <3> QED BY <1>1, <2>1, <3>1, <3>2, DecideStands
  <2>3. CASE ~(taken >= c.rule.max)
    <3>1. L!Justified("redeemed", c.qr, c.checkpoint, c.began)
      BY <2>1, <2>3, RuleJustified
    <3>2. Decide(s, "redeemed", taken + 1)
      BY <1>8, <2>3 DEF CountRedemptions
    <3> QED BY <1>1, <2>1, <3>1, <3>2, DecideStands
  <2> QED BY <2>2, <2>3
<1>9. CASE InsertRequest(s)
  <2>1. /\ c.pc = "insert" /\ policy' = policy /\ ledger' = ledger
        /\ Go(s, "commit") /\ \A r \in requests : r.key # c.key
    BY <1>9 DEF InsertRequest, At, UniqueViolation, policy, ledger
  <2>2. /\ scan'[s].pc = "commit" /\ scan'[s].settings = c.settings
        /\ scan'[s].checkpoint = c.checkpoint /\ scan'[s].qr = c.qr
        /\ scan'[s].began = c.began /\ scan'[s].key = c.key
        /\ scan'[s].outcome = c.outcome /\ scan'[s].ordinal = c.ordinal
    BY <1>1, <2>1, GoEffect DEF TypeOK
  <2>3. /\ passes' = passes /\ eligible' = eligible
        /\ checkpoints' = checkpoints /\ overrides' = overrides
        /\ redemptions' = redemptions /\ requests' = requests
    BY <2>1 DEF policy, ledger
  <2>4. ASSUME NEW a, NEW k
        PROVE  Redeemed(a, k)' = Redeemed(a, k)
    BY <2>3 DEF Redeemed
  <2>5. ASSUME NEW o, NEW qr, NEW k, NEW b,
               o = c.outcome, qr = c.qr, k = c.checkpoint, b = c.began
        PROVE  L!Justified(o, qr, k, b)'
    BY <1>1, <2>1, <2>3, <2>4, <2>5, JustifiedStable DEF ScanStands
  <2>6. L!Justified(scan[s].outcome, scan[s].qr, scan[s].checkpoint, scan[s].began)'
    BY <2>2, <2>5
  <2>7. ASSUME NEW a, NEW k, a = Owner[c.qr], k = c.checkpoint
        PROVE  c.ordinal = IF c.outcome = "redeemed"
                           THEN Cardinality(Redeemed(a, k)') + 1 ELSE 0
    BY <1>1, <2>1, <2>4, <2>7 DEF ScanStands
  <2>8. (scan[s].ordinal = IF scan[s].outcome = "redeemed"
           THEN Cardinality(Redeemed(Owner[scan[s].qr], scan[s].checkpoint)) + 1 ELSE 0)'
    BY <2>2, <2>7
  <2> QED BY <1>1, <2>1, <2>2, <2>3, <2>6, <2>8 DEF ScanStands
<1>10. CASE RetryAttempt(s)
  BY <1>1, <1>10, IdleStands, AttemptStands DEF RetryAttempt, Finish
<1>11. CASE Commit(s)
  BY <1>1, <1>11, IdleStands DEF Commit
<1> QED BY <1>2, <1>3, <1>4, <1>5, <1>6, <1>7, <1>8, <1>9, <1>10, <1>11 DEF ScannerStep

\* A commit touches no attendee another scan has locked and no key another
\* scan is about to commit.
LEMMA CommitKeeps ==
  ASSUME Placed, LocksExclude, NEW s \in Scanners, Commit(s),
         NEW t \in Scanners \ {s}
  PROVE  LET c == scan[t]
         IN  /\ c.pc \in {"insert", "commit"} /\ c.qr \in Passes =>
                  Redeemed(Owner[c.qr], c.checkpoint)'
                    = Redeemed(Owner[c.qr], c.checkpoint)
             /\ c.pc = "commit" => \A r \in requests' : r.key # c.key
<1> USE DEF PastCheckpoint, PastPass, PastAttendee, PastApplication, Steps
<1> DEFINE c == scan[t]
           d == scan[s]
<1>1. /\ s \in Sessions /\ t \in Sessions /\ s # t
      /\ ScanPlaced(s) /\ ScanPlaced(t) /\ ScanStands(s) /\ ScanStands(t)
      /\ d.pc = "commit"
  BY DEF Placed, VerdictsStand, Sessions, Commit, At
<1>2. ASSUME c.pc \in {"insert", "commit"}, c.qr \in Passes
      PROVE  Redeemed(Owner[c.qr], c.checkpoint)' = Redeemed(Owner[c.qr], c.checkpoint)
  <2>1. CASE d.outcome # "redeemed"
    <3>1. redemptions' = redemptions
      BY <2>1 DEF Commit
    <3>2. scan'[t] = scan[t]
      BY ScannerLocal DEF ScannerStep, Placed
    <3> QED BY <3>1, <3>2 DEF Redeemed
  <2>2. CASE d.outcome = "redeemed"
    <3>1. d.qr \in Passes
      BY <1>1, <2>2, JustifiedShape DEF ScanStands
    <3>2. /\ <<AttendeeRow(Owner[c.qr]), "update">> \in held[t]
          /\ <<AttendeeRow(Owner[d.qr]), "update">> \in held[s]
          /\ Owner[c.qr] \in Attendees
      BY <1>1, <1>2, <3>1, OwnerAssumption DEF ScanPlaced
    <3>3. Owner[c.qr] # Owner[d.qr]
      BY <1>1, <3>2, RowTypes, UpdateExcludes
    <3>4. redemptions' = redemptions \cup {RedemptionOf(d)}
      BY <2>2 DEF Commit
    <3>5. RedemptionOf(d).attendee = Owner[d.qr]
      BY DEF RedemptionOf
    <3>6. scan'[t] = scan[t]
      BY ScannerLocal DEF ScannerStep, Placed
    <3> HIDE DEF d
    <3> QED BY <3>3, <3>4, <3>5, <3>6 DEF Redeemed
  <2> QED BY <2>1, <2>2
<1>3. ASSUME c.pc = "commit"
      PROVE  \A r \in requests' : r.key # c.key
  <2>1. /\ <<KeyRow(c.key), "update">> \in held[t] /\ c.key \in Keys
        /\ <<KeyRow(d.key), "update">> \in held[s]
    BY <1>1, <1>3 DEF ScanPlaced
  <2>2. c.key # d.key
    BY <1>1, <2>1, RowTypes, UpdateExcludes
  <2>3. requests' = requests \cup {RequestOf(d)} /\ RequestOf(d).key = d.key
    BY DEF Commit, RequestOf
  <2>4. \A r \in requests : r.key # c.key
    BY <1>1, <1>3 DEF ScanStands
  <2> QED BY <2>2, <2>3, <2>4
<1> QED BY <1>2, <1>3

LEMMA StandsStep ==
  ASSUME Placed, LocksExclude, [Next]_vars
  PROVE  VerdictsStand'
<1> SUFFICES ASSUME NEW t \in Scanners
             PROVE  ScanStands(t)'
  BY DEF VerdictsStand
<1>1. TypeOK /\ ScanPlaced(t) /\ ScanStands(t)
  BY DEF Placed, VerdictsStand
<1>2. ASSUME scan'[t] = scan[t], policy' = policy, ledger' = ledger
      PROVE  ScanStands(t)'
  <2>1. \A a \in Attendees, k \in Checkpoints : Redeemed(a, k)' = Redeemed(a, k)
    BY <1>2 DEF Redeemed, ledger
  <2>2. scan[t].qr \in Passes /\ scan[t].pc \in {"insert", "commit"} =>
          Redeemed(Owner[scan[t].qr], scan[t].checkpoint)'
            = Redeemed(Owner[scan[t].qr], scan[t].checkpoint)
    BY <1>2 DEF Redeemed, ledger
  <2>3. scan[t].pc = "commit" => \A r \in requests' : r.key # scan[t].key
    BY <1>1, <1>2 DEF ScanStands, ledger
  <2> QED BY <1>1, <1>2, <2>2, <2>3, SameStands DEF policy
<1>3. CASE Tick \/ UNCHANGED vars
  BY <1>2, <1>3 DEF Tick, vars, policy, ledger
<1>4. ASSUME NEW s \in Scanners, Begin(s) \/ ScannerStep(s) \/ Abort(s)
      PROVE  ScanStands(t)'
  <2>1. CASE t # s
    <3>1. scan'[t] = scan[t]
      BY <1>1, <1>4, <2>1, ScannerLocal
    <3>2. CASE ~Commit(s)
      <4>1. policy' = policy /\ ledger' = ledger
        BY <1>4, <3>2 DEF Begin, ScannerStep, Abort, FindRequest, LockCheckpoint,
           LockPass, LockAttendee, LockApplication, EffectiveEntitlement,
           CountRedemptions, InsertRequest, RetryAttempt
      <4> QED BY <1>2, <3>1, <4>1
    <3>3. CASE Commit(s)
      <4>1. policy' = policy
        BY <3>3 DEF Commit
      <4>2. t \in Scanners \ {s}
        BY <2>1
      <4> QED BY <1>1, <3>1, <3>3, <4>1, <4>2, CommitKeeps, SameStands DEF policy
    <3> QED BY <3>2, <3>3
  <2>2. CASE t = s /\ ScannerStep(s)
    BY <2>2, OwnStands
  <2>3. CASE t = s /\ Begin(s)
    BY <1>1, <2>3, AttemptStands DEF Begin
  <2>4. CASE t = s /\ Abort(s)
    BY <1>1, <2>4, IdleStands DEF Abort
  <2> QED BY <1>4, <2>1, <2>2, <2>3, <2>4
<1>5. ASSUME NEW s \in Staff, StaffStep(s)
      PROVE  ScanStands(t)'
  <2>1. scan'[t] = scan[t] /\ ledger' = ledger
    BY <1>1, <1>5, StaffLocal
  <2>2. /\ scan[t].pc \in {"insert", "commit"} /\ scan[t].qr \in Passes =>
             Redeemed(Owner[scan[t].qr], scan[t].checkpoint)'
               = Redeemed(Owner[scan[t].qr], scan[t].checkpoint)
        /\ scan[t].pc = "commit" => \A r \in requests' : r.key # scan[t].key
    BY <1>1, <2>1 DEF Redeemed, ledger, ScanStands
  <2> QED BY <1>1, <1>5, <2>1, <2>2, StaffKeeps, SameStands
<1>6. ASSUME NEW s \in Staff, BeginJob(s) \/ AbortJob(s)
      PROVE  ScanStands(t)'
  BY <1>1, <1>2, <1>6, StaffLocal DEF BeginJob, AbortJob
<1> QED BY <1>3, <1>4, <1>5, <1>6 DEF Next

-------------------------------------------------------------------------------
(* What an organizer has locked.                                           *)

LEMMA JobsStep ==
  ASSUME Placed, LocksExclude, \A s \in Staff : JobStands(s), [Next]_vars
  PROVE  \A s \in Staff : JobStands(s)'
<1> SUFFICES ASSUME NEW t \in Staff
             PROVE  JobStands(t)'
  OBVIOUS
<1> DEFINE op == job[t]
<1>1. TypeOK /\ JobStands(t) /\ t \in Sessions
  BY DEF Placed, Sessions
<1>2. ASSUME job'[t] = job[t], held'[t] = held[t], policy' = policy
      PROVE  JobStands(t)'
  BY <1>1, <1>2 DEF JobStands, policy
<1>3. CASE Tick \/ UNCHANGED vars
  BY <1>2, <1>3 DEF Tick, vars, policy
<1>4. ASSUME NEW s \in Scanners, Begin(s) \/ ScannerStep(s) \/ Abort(s)
      PROVE  JobStands(t)'
  <2>1. policy' = policy
    BY <1>4 DEF Begin, ScannerStep, Abort, FindRequest, LockCheckpoint,
       LockPass, LockAttendee, LockApplication, EffectiveEntitlement,
       CountRedemptions, InsertRequest, RetryAttempt, Commit
  <2> QED BY <1>1, <1>2, <1>4, <2>1, ScannerLocal
<1>5. ASSUME NEW s \in Staff, s # t, BeginJob(s) \/ StaffStep(s) \/ AbortJob(s)
      PROVE  JobStands(t)'
  <2>1. job'[t] = job[t] /\ held'[t] = held[t] /\ s \in Sessions
    BY <1>1, <1>5, StaffLocal DEF Sessions
  <2>2. ASSUME op # None, OfCheckpoint(op),
               <<CheckpointRow(op.checkpoint), "update">> \in held[t]
        PROVE  checkpoints'[op.checkpoint] # None
    <3>1. op.checkpoint \in Checkpoints /\ checkpoints[op.checkpoint] # None
      BY <1>1, <2>2, JobFields DEF TypeOK, OfCheckpoint, JobStands
    <3>2. <<CheckpointRow(op.checkpoint), "update">> \notin held[s]
      BY <1>1, <1>5, <2>1, <2>2, <3>1, RowTypes, UpdateExcludes
    <3>3. CASE DeleteCheckpoint(s) \/ UpdateCheckpoint(s)
      <4>1. job[s].checkpoint # op.checkpoint
        BY <1>1, <3>2, <3>3, ReadyHolds DEF DeleteCheckpoint, UpdateCheckpoint
      <4>2. checkpoints \in [Checkpoints -> Settings \cup {None}]
        BY <1>1 DEF TypeOK
      <4> QED BY <3>1, <3>3, <4>1, <4>2 DEF DeleteCheckpoint, UpdateCheckpoint
    <3>4. CASE checkpoints' = checkpoints
      BY <3>1, <3>4
    <3> QED BY <1>5, <3>3, <3>4
        DEF BeginJob, StaffStep, AbortJob, LockNext, PutEntitlement,
            DeleteEntitlement, Issue, Reissue, Revoke, RecordDecision,
            ReleaseDecision, policy
  <2>3. ASSUME op # None, OfPass(op),
               <<PassRow(op.pass), "update">> \in held[t]
        PROVE  passes'[op.pass] = "active"
    <3>1. op.pass \in Passes /\ passes[op.pass] = "active"
      BY <1>1, <2>3, JobFields DEF TypeOK, JobStands
    <3>2. <<PassRow(op.pass), "update">> \notin held[s]
      BY <1>1, <1>5, <2>1, <2>3, <3>1, RowTypes, UpdateExcludes
    <3>3. passes \in [Passes -> {"absent", "active", "revoked", "replaced"}]
      BY <1>1 DEF TypeOK
    <3>4. CASE Issue(s)
      BY <3>1, <3>3, <3>4 DEF Issue
    <3>5. CASE Reissue(s) \/ Revoke(s)
      <4>1. job[s].pass # op.pass
        BY <1>1, <3>2, <3>5, ReadyHolds DEF Reissue, Revoke
      <4> QED BY <3>1, <3>3, <3>5, <4>1 DEF Reissue, Revoke
    <3>6. CASE passes' = passes
      BY <3>1, <3>6
    <3> QED BY <1>5, <3>4, <3>5, <3>6
        DEF BeginJob, StaffStep, AbortJob, LockNext, PutEntitlement,
            DeleteEntitlement, UpdateCheckpoint, DeleteCheckpoint, RecordDecision,
            ReleaseDecision, policy
  <2>4. op = None => held'[t] = {}
    BY <1>1, <2>1 DEF JobStands
  <2> QED BY <2>1, <2>2, <2>3, <2>4 DEF JobStands
<1>6. CASE BeginJob(t)
  <2>1. held'[t] = {}
    BY <1>1, <1>6 DEF BeginJob, JobStands
  <2> QED BY <2>1 DEF JobStands
<1>7. CASE LockNext(t)
  <2>1. PICK i \in Unlocked(t) :
          /\ Matches(op, LockPlan(op)[i])
          /\ Lock(t, LockPlan(op)[i], "update")
    BY <1>7 DEF LockNext
  <2> DEFINE row == LockPlan(op)[i]
  <2>2. /\ op # None /\ job' = job
        /\ checkpoints' = checkpoints /\ passes' = passes
        /\ held'[t] = held[t] \cup {<<row, "update">>}
    BY <1>1, <1>7, <2>1 DEF LockNext, policy, Lock, TypeOK
  <2> HIDE DEF row
  <2>3. ASSUME OfCheckpoint(op), row = CheckpointRow(op.checkpoint)
        PROVE  checkpoints[op.checkpoint] # None
    BY <2>1, <2>3 DEF Matches, CheckpointRow, row
  <2>4. ASSUME OfPass(op), row = PassRow(op.pass)
        PROVE  passes[op.pass] = "active"
    BY <2>1, <2>4 DEF Matches, PassRow, row
  <2> QED BY <1>1, <2>2, <2>3, <2>4 DEF JobStands
<1>8. CASE AbortJob(t) \/ (StaffStep(t) /\ ~LockNext(t))
  <2>1. EndJob(t)
    BY <1>8 DEF AbortJob, StaffStep, PutEntitlement, DeleteEntitlement,
       UpdateCheckpoint, DeleteCheckpoint, Issue, Reissue, Revoke, RecordDecision,
       ReleaseDecision
  <2>2. job'[t] = None /\ held'[t] = {}
    BY <1>1, <2>1 DEF EndJob, Unlock, TypeOK
  <2> QED BY <2>2 DEF JobStands
<1> QED BY <1>3, <1>4, <1>5, <1>6, <1>7, <1>8 DEF Next

-------------------------------------------------------------------------------
(* The ledger.                                                             *)

\* The transaction that commits has a key nobody has used.
LEMMA FreshKey ==
  ASSUME Placed, LedgerCoherent, NEW s \in Scanners, Commit(s)
  PROVE  /\ \A r \in requests : r.key # scan[s].key
         /\ \A r \in redemptions : r.key # scan[s].key
<1>1. \A r \in requests : r.key # scan[s].key
  BY DEF Placed, VerdictsStand, ScanStands, Commit, At
<1>2. ASSUME NEW r \in redemptions
      PROVE  \E q \in requests : q.key = r.key
  <2>1. <<r.key, r.pass, r.checkpoint, r.ordinal>>
          \in {<<q.key, q.qr, q.checkpoint, q.ordinal>> :
                 q \in {q \in requests : q.outcome = "redeemed"}}
    BY DEF LedgerCoherent
  <2> QED BY <2>1
<1> QED BY <1>1, <1>2

LEMMA CommitCoherent ==
  ASSUME Placed, LedgerCoherent, NEW s \in Scanners, Commit(s)
  PROVE  LedgerCoherent'
<1> DEFINE c == scan[s]
           new == <<c.key, c.qr, c.checkpoint, c.ordinal>>
           AsRequest(S) == {<<r.key, r.qr, r.checkpoint, r.ordinal>> :
                              r \in {q \in S : q.outcome = "redeemed"}}
           AsRedemption(S) == {<<r.key, r.pass, r.checkpoint, r.ordinal>> : r \in S}
<1>1. /\ RequestOf(c).key = c.key /\ RequestOf(c).qr = c.qr
      /\ RequestOf(c).checkpoint = c.checkpoint
      /\ RequestOf(c).ordinal = c.ordinal /\ RequestOf(c).outcome = c.outcome
      /\ RedemptionOf(c).key = c.key /\ RedemptionOf(c).pass = c.qr
      /\ RedemptionOf(c).checkpoint = c.checkpoint
      /\ RedemptionOf(c).ordinal = c.ordinal
  BY DEF RequestOf, RedemptionOf
<1>2. requests' = requests \cup {RequestOf(c)}
  BY DEF Commit
<1>3. AsRequest(requests) = AsRedemption(redemptions)
  BY DEF LedgerCoherent
<1>4. /\ \A r \in requests : r.key # c.key
      /\ \A r \in redemptions : r.key # c.key
  BY FreshKey
<1>5. redemptions' = IF c.outcome = "redeemed"
                     THEN redemptions \cup {RedemptionOf(c)} ELSE redemptions
  BY DEF Commit
<1> HIDE DEF c
<1>6. \A q, r \in requests' : q.key = r.key => q = r
  BY <1>1, <1>2, <1>4 DEF LedgerCoherent
<1>7. \A q, r \in redemptions' : q.key = r.key => q = r
  BY <1>1, <1>4, <1>5 DEF LedgerCoherent
<1>8. CASE c.outcome = "redeemed"
  <2>1. AsRequest(requests') = AsRequest(requests) \cup {new}
    BY <1>1, <1>2, <1>8
  <2>2. AsRedemption(redemptions') = AsRedemption(redemptions) \cup {new}
    BY <1>1, <1>5, <1>8
  <2>3. AsRequest(requests') = AsRedemption(redemptions')
    BY <1>3, <2>1, <2>2
  <2> QED BY <1>6, <1>7, <2>3 DEF LedgerCoherent
<1>9. CASE c.outcome # "redeemed"
  <2>1. AsRequest(requests') = AsRequest(requests)
    BY <1>1, <1>2, <1>9
  <2>2. AsRequest(requests') = AsRedemption(redemptions')
    BY <1>3, <1>5, <1>9, <2>1
  <2> QED BY <1>6, <1>7, <2>2 DEF LedgerCoherent
<1> QED BY <1>8, <1>9

LEMMA CommitDense ==
  ASSUME Placed, LedgerCoherent, OrdinalsDense, NEW s \in Scanners, Commit(s)
  PROVE  OrdinalsDense'
<1> DEFINE c == scan[s]
<1> SUFFICES ASSUME NEW a \in Attendees, NEW k \in Checkpoints
             PROVE  {r.ordinal : r \in Redeemed(a, k)'}
                      = 1 .. Cardinality(Redeemed(a, k)')
  BY DEF OrdinalsDense
<1>1. {r.ordinal : r \in Redeemed(a, k)} = 1 .. Cardinality(Redeemed(a, k))
  BY DEF OrdinalsDense
<1>2. /\ IsFiniteSet(Redeemed(a, k)) /\ Cardinality(Redeemed(a, k)) \in Nat
  BY RedeemedType DEF Placed
<1>3. CASE c.outcome = "redeemed" /\ Owner[c.qr] = a /\ c.checkpoint = k
  <2>1. Redeemed(a, k)' = Redeemed(a, k) \cup {RedemptionOf(c)}
    BY <1>3 DEF Redeemed, Commit, RedemptionOf
  <2>2. RedemptionOf(c) \notin Redeemed(a, k)
    BY FreshKey DEF Redeemed, RedemptionOf
  <2>3. RedemptionOf(c).ordinal = Cardinality(Redeemed(a, k)) + 1
    BY <1>3 DEF RedemptionOf, Placed, VerdictsStand, ScanStands, Commit, At
  <2>4. Cardinality(Redeemed(a, k)') = Cardinality(Redeemed(a, k)) + 1
    BY <1>2, <2>1, <2>2, FS_AddElement
  <2>5. {r.ordinal : r \in Redeemed(a, k)'}
          = {r.ordinal : r \in Redeemed(a, k)} \cup {Cardinality(Redeemed(a, k)) + 1}
    BY <2>1, <2>3
  <2> QED BY <1>1, <1>2, <2>4, <2>5
<1>4. CASE ~(c.outcome = "redeemed" /\ Owner[c.qr] = a /\ c.checkpoint = k)
  <2>1. Redeemed(a, k)' = Redeemed(a, k)
    BY <1>4 DEF Redeemed, Commit, RedemptionOf
  <2> QED BY <1>1, <2>1
<1> QED BY <1>3, <1>4

LEMMA CommitKept ==
  ASSUME Placed, CheckpointsKept, NEW s \in Scanners, Commit(s)
  PROVE  CheckpointsKept'
<1> DEFINE c == scan[s]
<1>1. checkpoints[c.checkpoint] # None
  BY DEF Placed, VerdictsStand, ScanStands, Commit, At, PastCheckpoint, Steps
<1>2. /\ requests' = requests \cup {RequestOf(c)}
      /\ redemptions' \subseteq redemptions \cup {RedemptionOf(c)}
      /\ RequestOf(c).checkpoint = c.checkpoint
      /\ RedemptionOf(c).checkpoint = c.checkpoint
      /\ checkpoints' = checkpoints /\ overrides' = overrides
  BY DEF Commit, RequestOf, RedemptionOf, policy
<1> QED BY <1>1, <1>2 DEF CheckpointsKept, InUse

\* Every write of an organizer leaves the ledger alone and each checkpoint in
\* use where it is.
LEMMA StaffKept ==
  ASSUME TypeOK, CheckpointsKept, NEW s \in Staff, JobStands(s), StaffStep(s)
  PROVE  CheckpointsKept'
<1> DEFINE op == job[s]
<1>1. requests' = requests /\ redemptions' = redemptions
  BY StaffLocal DEF ledger
<1>2. /\ checkpoints \in [Checkpoints -> Settings \cup {None}]
      /\ overrides \in [Attendees -> [Checkpoints -> Rules \cup {None}]]
  BY DEF TypeOK
<1>3. CASE PutEntitlement(s)
  <2>1. Ready(s, "put_entitlement")
    BY <1>3 DEF PutEntitlement
  <2>2. /\ op \in Jobs /\ op.kind = "put_entitlement"
        /\ <<CheckpointRow(op.checkpoint), "update">> \in held[s]
    BY <2>1, ReadyHolds
  <2>3. op # None /\ OfCheckpoint(op)
    BY <2>1, <2>2 DEF Ready, OfCheckpoint
  <2>4. checkpoints[op.checkpoint] # None
    BY <2>2, <2>3 DEF JobStands
  <2>5. \A a \in Attendees, k \in Checkpoints :
          overrides'[a][k] # overrides[a][k] => k = op.checkpoint
    BY <1>2, <1>3 DEF PutEntitlement
  <2> QED BY <1>1, <1>3, <2>4, <2>5 DEF CheckpointsKept, InUse, PutEntitlement
<1>4. CASE DeleteEntitlement(s)
  <2>1. \A a \in Attendees, k \in Checkpoints :
          overrides'[a][k] = overrides[a][k] \/ overrides'[a][k] = None
    BY <1>2, <1>4 DEF DeleteEntitlement
  <2> QED BY <1>1, <1>4, <2>1 DEF CheckpointsKept, InUse, DeleteEntitlement
<1>5. CASE UpdateCheckpoint(s)
  <2>1. op.settings \in Settings
    BY <1>5, ReadyHolds, JobFields DEF UpdateCheckpoint
  <2>2. op.settings # None
    BY <2>1, SentinelAssumption
  <2> QED BY <1>1, <1>2, <1>5, <2>2 DEF CheckpointsKept, InUse, UpdateCheckpoint
<1>6. CASE DeleteCheckpoint(s)
  BY <1>1, <1>2, <1>6 DEF CheckpointsKept, InUse, DeleteCheckpoint
<1>7. CASE checkpoints' = checkpoints /\ overrides' = overrides
  BY <1>1, <1>7 DEF CheckpointsKept, InUse
<1> QED BY <1>3, <1>4, <1>5, <1>6, <1>7
    DEF StaffStep, LockNext, Issue, Reissue, Revoke, RecordDecision,
        ReleaseDecision, policy

LEMMA LedgerStep ==
  ASSUME IInv, [Next]_vars
  PROVE  LedgerCoherent' /\ OrdinalsDense' /\ CheckpointsKept'
<1>1. /\ Placed /\ LedgerCoherent /\ OrdinalsDense /\ CheckpointsKept
      /\ TypeOK /\ \A s \in Staff : JobStands(s)
  BY DEF IInv, Placed
<1>2. ASSUME ledger' = ledger
      PROVE  LedgerCoherent' /\ OrdinalsDense'
  BY <1>1, <1>2 DEF ledger, LedgerCoherent, OrdinalsDense, Redeemed
<1>3. ASSUME ledger' = ledger, checkpoints' = checkpoints, overrides' = overrides
      PROVE  CheckpointsKept'
  BY <1>1, <1>3 DEF ledger, CheckpointsKept, InUse
<1>4. ASSUME NEW s \in Scanners, Commit(s)
      PROVE  LedgerCoherent' /\ OrdinalsDense' /\ CheckpointsKept'
  BY <1>1, <1>4, CommitCoherent, CommitDense, CommitKept
<1>5. ASSUME NEW s \in Staff, StaffStep(s)
      PROVE  LedgerCoherent' /\ OrdinalsDense' /\ CheckpointsKept'
  BY <1>1, <1>2, <1>5, StaffKept, StaffLocal
<1>6. CASE \/ Tick \/ UNCHANGED vars
           \/ \E s \in Scanners : Begin(s) \/ Abort(s) \/ (ScannerStep(s) /\ ~Commit(s))
           \/ \E s \in Staff : BeginJob(s) \/ AbortJob(s)
  <2>1. ledger' = ledger /\ checkpoints' = checkpoints /\ overrides' = overrides
    BY <1>6 DEF vars, ledger, policy, Tick, Begin, Abort, ScannerStep, FindRequest,
       LockCheckpoint, LockPass, LockAttendee, LockApplication,
       EffectiveEntitlement, CountRedemptions, InsertRequest, RetryAttempt,
       BeginJob, AbortJob
  <2> QED BY <1>2, <1>3, <2>1
<1> QED BY <1>4, <1>5, <1>6 DEF Next, ScannerStep

-------------------------------------------------------------------------------
(* The theorems.                                                           *)

LEMMA InitIInv == Init => IInv
<1> SUFFICES ASSUME Init PROVE IInv
  OBVIOUS
<1>1. IsFiniteSet({}) /\ Cardinality({}) = 0
  BY FS_EmptySet
<1>2. \A a \in Attendees, c \in Checkpoints : Redeemed(a, c) = {}
  BY DEF Init, Redeemed
<1>3. TypeOK
  BY <1>1, IdleType DEF Init, TypeOK
<1>4. LocksExclude
  BY DEF Init, LocksExclude
<1>5. \A s \in Scanners : scan[s] = Idle /\ Idle.pc = "idle"
  BY DEF Init, Idle
<1>6. \A s \in Scanners : ScanPlaced(s)
  <2> SUFFICES ASSUME NEW s \in Scanners PROVE ScanPlaced(s)
    OBVIOUS
  <2>1. /\ Idle.qr = None /\ Idle.ordinal = 0 /\ Idle.began = 0 /\ now = 0
        /\ None \notin Passes
    BY SentinelAssumption DEF Idle, Init, Credentials
  <2> QED BY <1>5, <2>1
      DEF ScanPlaced, PastCheckpoint, PastPass, PastAttendee, PastApplication
<1>7. VerdictsStand
  BY <1>5 DEF VerdictsStand, ScanStands, PastCheckpoint
<1>8. \A s \in Staff : JobStands(s)
  BY DEF Init, JobStands, Sessions
<1>9. LedgerCoherent /\ OrdinalsDense
  <2>1. LedgerCoherent
    BY DEF Init, LedgerCoherent
  <2>2. 1 .. 0 = {}
    OBVIOUS
  <2>3. {r.ordinal : r \in {}} = {}
    OBVIOUS
  <2>4. OrdinalsDense
    BY <1>1, <1>2, <2>2, <2>3 DEF OrdinalsDense
  <2> QED BY <2>1, <2>4
<1>10. CheckpointsKept
  BY DEF Init, CheckpointsKept, InUse
<1> QED BY <1>3, <1>4, <1>6, <1>7, <1>8, <1>9, <1>10 DEF IInv

LEMMA StepIInv == IInv /\ [Next]_vars => IInv'
<1> SUFFICES ASSUME IInv, [Next]_vars PROVE IInv'
  OBVIOUS
<1>1. Placed /\ LocksExclude
  BY DEF IInv, Placed
<1>2. \A s \in Staff : JobStands(s)
  BY DEF IInv
<1> QED BY <1>1, <1>2, TypeStep, ExcludeStep, PlacedStep, StandsStep, JobsStep,
           LedgerStep DEF IInv

\* The inductive invariant: the locks exclude each other, every scan holds the
\* locks its progress implies, and what it has read under them still stands.
THEOREM Invariance == Spec => []IInv
<1>1. Init => IInv
  BY InitIInv
<1>2. IInv /\ [Next]_vars => IInv'
  BY StepIInv
<1> QED BY <1>1, <1>2, PTL DEF Spec

\* Rows, sessions and locks keep their types.
THEOREM TypeCorrect == Spec => []TypeOK
<1>1. IInv => TypeOK
  BY DEF IInv
<1> QED BY <1>1, Invariance, PTL

\* One ledger row per idempotency key and one redemption per redeemed row.
THEOREM Coherence == Spec => []LedgerCoherent
<1>1. IInv => LedgerCoherent
  BY DEF IInv
<1> QED BY <1>1, Invariance, PTL

\* The ordinals of an attendee at a checkpoint are 1, 2, ... without a gap.
THEOREM Density == Spec => []OrdinalsDense
<1>1. IInv => OrdinalsDense
  BY DEF IInv
<1> QED BY <1>1, Invariance, PTL

\* No checkpoint is deleted under a request, a redemption or an override.
THEOREM Kept == Spec => []CheckpointsKept
<1>1. IInv => CheckpointsKept
  BY DEF IInv
<1> QED BY <1>1, Invariance, PTL

\* What a redeem transaction has read under its locks is still so.
THEOREM Standing == Spec => []VerdictsStand
<1>1. IInv => VerdictsStand
  BY DEF IInv
<1> QED BY <1>1, Invariance, PTL

-------------------------------------------------------------------------------
(* What a redemption that commits is worth.                                *)

\* The action of RedeemedLawfully.
Lawful ==
  \A r \in redemptions' \ redemptions :
    LET rule == Resolve(checkpoints[r.checkpoint].rule,
                        overrides[r.attendee][r.checkpoint])
    IN  /\ passes[r.pass] = "active" /\ eligible[r.attendee]
        /\ checkpoints[r.checkpoint] # None
        /\ checkpoints[r.checkpoint].active
        /\ CycleOf[r.attendee] = CycleOf[r.checkpoint]
        /\ InWindow(checkpoints[r.checkpoint], r.at)
        /\ rule.allowed
        /\ Cardinality(Redeemed(r.attendee, r.checkpoint)) < rule.max

\* A verdict "redeemed" spelt out.
LEMMA RedeemedMeans ==
  ASSUME NEW qr \in Passes, NEW c, NEW t, L!Justified("redeemed", qr, c, t)
  PROVE  LET a == Owner[qr]
             rule == Resolve(checkpoints[c].rule, overrides[a][c])
         IN  /\ passes[qr] = "active" /\ eligible[a]
             /\ checkpoints[c].active /\ CycleOf[a] = CycleOf[c]
             /\ InWindow(checkpoints[c], t)
             /\ rule.allowed
             /\ ~(Cardinality(Redeemed(a, c)) >= rule.max)
<1>1. /\ L!Admits(qr) /\ L!Open(qr, c, t) /\ L!Allowed(qr, c) /\ ~L!Exhausted(qr, c)
  BY DEF L!Justified
<1>2. L!RuleFor(Owner[qr], c) = Resolve(checkpoints[c].rule, overrides[Owner[qr]][c])
  BY DEF L!RuleFor, L!Resolve, Resolve
<1>3. L!Redeemed(Owner[qr], c) = Redeemed(Owner[qr], c)
  BY DEF L!Redeemed, Redeemed
<1>4. /\ passes[qr] = "active" /\ eligible[Owner[qr]]
      /\ checkpoints[c].active /\ CycleOf[Owner[qr]] = CycleOf[c]
      /\ InWindow(checkpoints[c], t)
  BY <1>1 DEF L!Admits, L!Open, L!SameCycle, L!InWindow, InWindow
<1>5. ~(Cardinality(Redeemed(Owner[qr], c))
          >= Resolve(checkpoints[c].rule, overrides[Owner[qr]][c]).max)
  BY <1>1, <1>2, <1>3, SameCardinality DEF L!Exhausted
<1>6. Resolve(checkpoints[c].rule, overrides[Owner[qr]][c]).allowed
  BY <1>1, <1>2 DEF L!Allowed
<1> QED BY <1>4, <1>5, <1>6

LEMMA CommitLawful ==
  ASSUME Placed, NEW s \in Scanners, Commit(s)
  PROVE  Lawful
<1> DEFINE c == scan[s]
           a == Owner[c.qr]
           rule == Resolve(checkpoints[c.checkpoint].rule, overrides[a][c.checkpoint])
<1> SUFFICES ASSUME c.outcome = "redeemed"
             PROVE  /\ passes[c.qr] = "active" /\ eligible[a]
                    /\ checkpoints[c.checkpoint] # None
                    /\ checkpoints[c.checkpoint].active
                    /\ CycleOf[a] = CycleOf[c.checkpoint]
                    /\ InWindow(checkpoints[c.checkpoint], c.began)
                    /\ rule.allowed
                    /\ Cardinality(Redeemed(a, c.checkpoint)) < rule.max
  BY DEF Lawful, Commit, RedemptionOf
<1>1. /\ L!Justified("redeemed", c.qr, c.checkpoint, c.began)
      /\ checkpoints[c.checkpoint] # None
  BY DEF Placed, VerdictsStand, ScanStands, Commit, At, PastCheckpoint, Steps
<1>2. c.qr \in Passes /\ c.checkpoint \in Checkpoints
  BY <1>1, JustifiedShape DEF Placed, ScanPlaced, Commit, At
<1>3. /\ passes[c.qr] = "active" /\ eligible[a]
      /\ checkpoints[c.checkpoint].active
      /\ CycleOf[a] = CycleOf[c.checkpoint]
      /\ InWindow(checkpoints[c.checkpoint], c.began)
      /\ rule.allowed
      /\ ~(Cardinality(Redeemed(a, c.checkpoint)) >= rule.max)
  BY <1>1, <1>2, RedeemedMeans
<1>4. a \in Attendees
  BY <1>2, OwnerAssumption
<1>5. checkpoints[c.checkpoint] \in Settings
  BY <1>1, <1>2 DEF Placed, TypeOK
<1>6. overrides[a][c.checkpoint] \in Rules \cup {None}
  BY <1>2, <1>4 DEF Placed, TypeOK
<1>7. rule.max \in Nat
  <2>1. checkpoints[c.checkpoint].rule \in Rules
    BY <1>5, SettingsAssumption
  <2>2. rule \in [allowed : BOOLEAN, max : Nat]
    BY <1>6, <2>1, ResolveType
  <2> QED BY <2>2
<1>8. Cardinality(Redeemed(a, c.checkpoint)) \in Nat
  BY <1>2, <1>4, RedeemedType DEF Placed
<1>9. Cardinality(Redeemed(a, c.checkpoint)) < rule.max
  <2> HIDE DEF rule
  <2> QED BY <1>3, <1>7, <1>8
<1> QED BY <1>1, <1>3, <1>9

\* A redemption becomes visible only while the pass, the acceptance, the
\* checkpoint and the effective maximum committed at that instant allow it.
THEOREM Lawfulness == Spec => RedeemedLawfully
<1>1. IInv /\ [Next]_vars => [Lawful]_vars
  <2> SUFFICES ASSUME IInv, Next PROVE Lawful
    BY DEF Lawful
  <2>1. Placed
    BY DEF IInv, Placed
  <2>2. ASSUME NEW s \in Scanners, Commit(s)
        PROVE  Lawful
    BY <2>1, <2>2, CommitLawful
  <2>3. CASE redemptions' = redemptions
    BY <2>3 DEF Lawful
  <2>4. \/ redemptions' = redemptions
        \/ \E s \in Scanners : Commit(s)
    BY DEF Next, ScannerStep, ledger, Tick, Begin, Abort, FindRequest,
       LockCheckpoint, LockPass, LockAttendee, LockApplication,
       EffectiveEntitlement, CountRedemptions, InsertRequest, RetryAttempt,
       BeginJob, AbortJob, StaffStep, LockNext, PutEntitlement, DeleteEntitlement,
       UpdateCheckpoint, DeleteCheckpoint, Issue, Reissue, Revoke,
       RecordDecision, ReleaseDecision
  <2> QED BY <2>2, <2>3, <2>4
<1>2. RedeemedLawfully <=> [][Lawful]_vars
  BY DEF RedeemedLawfully, Lawful
<1> QED BY <1>1, <1>2, Invariance, PTL DEF Spec

-------------------------------------------------------------------------------
(* The transactions implement the atomic ledger.                           *)

LEMMA CommitRedeems ==
  ASSUME IInv, NEW s \in Scanners, Commit(s)
  PROVE  L!Next
<1> DEFINE c == scan[s]
<1>1. Placed /\ TypeOK /\ LedgerCoherent /\ ScanPlaced(s) /\ ScanStands(s)
  BY DEF IInv, Placed, VerdictsStand
<1>2. /\ c.pc = "commit" /\ c.key \in Keys /\ c.qr \in Credentials
      /\ c.checkpoint \in Checkpoints /\ c.began <= now
  BY <1>1 DEF ScanPlaced, Commit, At
<1>3. c.began \in 0 .. now
  <2>1. c \in ScanState /\ now \in Nat
    BY <1>1 DEF TypeOK
  <2>2. c.began \in Nat
    BY <2>1 DEF ScanState
  <2> QED BY <1>2, <2>1, <2>2
<1>4. /\ L!Justified(c.outcome, c.qr, c.checkpoint, c.began)
      /\ checkpoints[c.checkpoint] # None
      /\ c.ordinal = IF c.outcome = "redeemed"
                     THEN Cardinality(Redeemed(Owner[c.qr], c.checkpoint)) + 1 ELSE 0
  BY <1>1, <1>2 DEF ScanStands, PastCheckpoint, Steps
<1>5. c.outcome \in Outcomes
  BY <1>4, JustifiedShape
<1>6. \A r \in requests : r.key # c.key
  BY <1>1, FreshKey
<1>7. L!Cardinality(L!Redeemed(Owner[c.qr], c.checkpoint))
        = Cardinality(Redeemed(Owner[c.qr], c.checkpoint))
  BY SameCardinality DEF L!Redeemed, Redeemed
<1>8. /\ requests' = requests \cup
           {[key |-> c.key, checkpoint |-> c.checkpoint, qr |-> c.qr,
             outcome |-> c.outcome, ordinal |-> c.ordinal]}
      /\ redemptions' = IF c.outcome = "redeemed"
           THEN redemptions \cup
                  {[key |-> c.key, pass |-> c.qr, attendee |-> Owner[c.qr],
                    checkpoint |-> c.checkpoint, ordinal |-> c.ordinal,
                    at |-> c.began]}
           ELSE redemptions
      /\ policy' = policy /\ now' = now
  BY DEF Commit, RequestOf, RedemptionOf, policy
<1> HIDE DEF c
<1>9. L!Redeem(c.key, c.qr, c.checkpoint, c.began, c.outcome)
  BY <1>2, <1>4, <1>6, <1>7, <1>8 DEF L!Redeem, L!policy, policy
<1>10. c.qr \in L!Credentials /\ c.outcome \in L!Outcomes
  BY <1>2, <1>5 DEF Credentials, Outcomes, L!Credentials, L!Outcomes
<1> QED BY <1>2, <1>3, <1>9, <1>10 DEF L!Next

LEMMA StaffChanges ==
  ASSUME IInv, IInv', NEW s \in Staff, StaffStep(s)
  PROVE  L!ChangePolicy
<1> DEFINE op == job[s]
<1>1. TypeOK /\ TypeOK' /\ JobStands(s) /\ CheckpointsKept'
  BY DEF IInv
<1>2. ledger' = ledger /\ now' = now
  BY <1>1, StaffLocal
<1>3. \A r \in requests : checkpoints'[r.checkpoint] # None
  <2>1. \A r \in requests : r.checkpoint \in Checkpoints
    BY <1>1 DEF TypeOK, Request
  <2> QED BY <1>1, <1>2, <2>1 DEF CheckpointsKept, InUse, ledger
<1>4. passes \in [Passes -> {"absent", "active", "revoked", "replaced"}]
  BY <1>1 DEF TypeOK
<1>5. \A p \in Passes : passes'[p] # passes[p] =>
        passes[p] = "absent" \/ (passes[p] = "active" /\ passes'[p] # "absent")
  <2>1. CASE Issue(s)
    BY <1>4, <2>1 DEF Issue
  <2>2. ASSUME Reissue(s) \/ Revoke(s)
        PROVE  op.pass \in Passes /\ passes[op.pass] = "active"
    <3>1. /\ op \in Jobs /\ op # None
          /\ op.kind \in {"reissue", "revoke"}
          /\ <<PassRow(op.pass), "update">> \in held[s]
      BY <1>1, <2>2, ReadyHolds DEF Reissue, Revoke, Ready
    <3> QED BY <1>1, <3>1, JobFields DEF OfPass, JobStands
  <2>3. CASE Reissue(s)
    BY <1>4, <2>2, <2>3 DEF Reissue
  <2>4. CASE Revoke(s)
    BY <1>4, <2>2, <2>4 DEF Revoke
  <2>5. CASE passes' = passes
    BY <2>5
  <2> QED BY <2>1, <2>3, <2>4, <2>5
      DEF StaffStep, LockNext, PutEntitlement, DeleteEntitlement, UpdateCheckpoint,
          DeleteCheckpoint, RecordDecision, ReleaseDecision, policy
<1> QED BY <1>2, <1>3, <1>5 DEF L!ChangePolicy, L!ledger, ledger

LEMMA StepImplements ==
  ASSUME IInv, IInv', [Next]_vars
  PROVE  [L!Next]_(L!vars)
<1>1. CASE UNCHANGED vars
  BY <1>1 DEF vars, L!vars
<1>2. CASE Tick
  BY <1>2 DEF Tick, L!Next, L!Tick, L!policy, L!ledger, policy, ledger
<1>3. ASSUME NEW s \in Scanners, Commit(s)
      PROVE  L!Next
  BY <1>3, CommitRedeems
<1>4. ASSUME NEW s \in Staff, StaffStep(s)
      PROVE  L!Next
  BY <1>4, StaffChanges DEF L!Next
<1>5. CASE \/ \E s \in Scanners : Begin(s) \/ Abort(s) \/ (ScannerStep(s) /\ ~Commit(s))
           \/ \E s \in Staff : BeginJob(s) \/ AbortJob(s)
  <2>1. policy' = policy /\ ledger' = ledger /\ now' = now
    BY <1>5 DEF Begin, Abort, ScannerStep, FindRequest, LockCheckpoint, LockPass,
       LockAttendee, LockApplication, EffectiveEntitlement, CountRedemptions,
       InsertRequest, RetryAttempt, BeginJob, AbortJob
  <2> QED BY <2>1 DEF policy, ledger, L!vars
<1> QED BY <1>1, <1>2, <1>3, <1>4, <1>5 DEF Next, ScannerStep

\* Every behaviour of the transactions is one of RedemptionLedger, in which a
\* scan is judged in a single instant: a commit is its Redeem, an organizer's
\* write its ChangePolicy, and everything else is invisible.
THEOREM Refinement == Spec => LedgerSpec
<1>1. Init => L!Init
  BY DEF Init, L!Init
<1>2. IInv /\ IInv' /\ [Next]_vars => [L!Next]_(L!vars)
  BY StepImplements
<1> QED BY <1>1, <1>2, Invariance, PTL DEF Spec, LedgerSpec, L!Spec

-------------------------------------------------------------------------------
(* Answers and retries.                                                    *)

LEMMA AnswersStep ==
  ASSUME AnswersDurable, [Next]_vars
  PROVE  AnswersDurable'
<1>1. ASSUME NEW s \in Scanners, FindRequest(s)
      PROVE  AnswersDurable'
  BY <1>1 DEF FindRequest, Tell, AnswersDurable, ledger
<1>2. ASSUME NEW s \in Scanners, Commit(s)
      PROVE  AnswersDurable'
  BY <1>2 DEF Commit, Tell, AnswersDurable
<1>3. CASE answers' = answers /\ ledger' = ledger
  BY <1>3 DEF AnswersDurable, ledger
<1>4. \/ answers' = answers /\ ledger' = ledger
      \/ \E s \in Scanners : FindRequest(s) \/ Commit(s)
  BY DEF Next, ScannerStep, ledger, vars, Tick, Begin, Abort,
     LockCheckpoint, LockPass, LockAttendee, LockApplication,
     EffectiveEntitlement, CountRedemptions, InsertRequest, RetryAttempt,
     BeginJob, AbortJob, StaffStep, LockNext, PutEntitlement, DeleteEntitlement,
     UpdateCheckpoint, DeleteCheckpoint, Issue, Reissue, Revoke,
     RecordDecision, ReleaseDecision
<1> QED BY <1>1, <1>2, <1>3, <1>4

\* Whatever a caller was told is the committed row of its key.
THEOREM Durability == Spec => []AnswersDurable
<1>1. Init => AnswersDurable
  BY DEF Init, AnswersDurable
<1>2. AnswersDurable /\ [Next]_vars => AnswersDurable'
  BY AnswersStep
<1> QED BY <1>1, <1>2, PTL DEF Spec

\* A second attempt starts only when the key is already in the ledger, and ends
\* with the lookup that finds it.
Settling(s) ==
  \/ scan[s].attempt <= 1
  \/ /\ scan[s].attempt = 2 /\ scan[s].pc = "find"
     /\ \E r \in requests : r.key = scan[s].key

\* The ordinal is never what a 23505 is about: the count is taken under the
\* attendee's lock, and no ordinal above it exists.
LEMMA ViolatedKey ==
  ASSUME IInv, NEW s \in Scanners, scan[s].pc = "insert", UniqueViolation(scan[s])
  PROVE  \E r \in requests : r.key = scan[s].key
<1> DEFINE c == scan[s]
           R == Redeemed(Owner[c.qr], c.checkpoint)
<1> SUFFICES ASSUME c.outcome = "redeemed",
                    NEW r \in R, r.ordinal = c.ordinal
             PROVE  FALSE
  BY DEF UniqueViolation
<1>1. /\ L!Justified(c.outcome, c.qr, c.checkpoint, c.began)
      /\ c.ordinal = Cardinality(R) + 1
  BY DEF IInv, VerdictsStand, ScanStands
<1>2. c.qr \in Passes /\ c.checkpoint \in Checkpoints
  BY <1>1, JustifiedShape DEF IInv, ScanPlaced
<1>3. Owner[c.qr] \in Attendees
  BY <1>2, OwnerAssumption
<1>4. Cardinality(R) \in Nat
  BY <1>2, <1>3, RedeemedType DEF IInv
<1>5. {q.ordinal : q \in R} = 1 .. Cardinality(R)
  BY <1>2, <1>3 DEF IInv, OrdinalsDense
<1>6. r.ordinal \in 1 .. Cardinality(R)
  BY <1>5
<1> HIDE DEF R
<1> QED BY <1>1, <1>4, <1>6

\* Within a transaction the attempt is the same.
LEMMA SameAttempt ==
  ASSUME scan \in [Scanners -> ScanState], NEW s \in Scanners
  PROVE  /\ \A step \in Steps : Go(s, step) => scan'[s].attempt = scan[s].attempt
         /\ \A o, n : Decide(s, o, n) => scan'[s].attempt = scan[s].attempt
         /\ \A x : Configure(s, x) => scan'[s].attempt = scan[s].attempt
BY DEF Go, Decide, Configure, ScanState

LEMMA SettlingStep ==
  ASSUME IInv, \A s \in Scanners : Settling(s), [Next]_vars
  PROVE  \A s \in Scanners : Settling(s)'
<1> SUFFICES ASSUME NEW t \in Scanners
             PROVE  Settling(t)'
  OBVIOUS
<1>1. /\ Settling(t) /\ TypeOK /\ scan \in [Scanners -> ScanState]
      /\ scan[t] \in ScanState
  BY DEF IInv, TypeOK
<1>2. scan[t].attempt \in Nat
  BY <1>1 DEF ScanState
<1>3. requests \subseteq requests'
  BY DEF Next, ScannerStep, ledger, vars, Tick, Begin, Abort, FindRequest,
     LockCheckpoint, LockPass, LockAttendee, LockApplication,
     EffectiveEntitlement, CountRedemptions, InsertRequest, RetryAttempt, Commit,
     BeginJob, AbortJob, StaffStep, LockNext, PutEntitlement, DeleteEntitlement,
     UpdateCheckpoint, DeleteCheckpoint, Issue, Reissue, Revoke,
     RecordDecision, ReleaseDecision
<1>4. ASSUME scan'[t] = scan[t]
      PROVE  Settling(t)'
  BY <1>1, <1>3, <1>4 DEF Settling
<1>5. ASSUME scan'[t] = Idle
      PROVE  Settling(t)'
  BY <1>5 DEF Settling, Idle
<1>6. ASSUME scan[t].pc # "find", scan'[t].attempt = scan[t].attempt
      PROVE  Settling(t)'
  BY <1>1, <1>6 DEF Settling
<1>7. CASE Begin(t)
  BY <1>1, <1>7 DEF Begin, Attempt, Settling
<1>8. CASE FindRequest(t)
  <2>1. CASE scan[t].attempt <= 1
    <3>1. scan'[t] = Idle \/ Go(t, "checkpoint")
      BY <1>1, <1>8 DEF FindRequest, Finish
    <3>2. Go(t, "checkpoint") => scan'[t].attempt = scan[t].attempt
      BY <1>1, SameAttempt DEF Steps
    <3> QED BY <1>5, <2>1, <3>1, <3>2 DEF Settling
  <2>2. CASE \E r \in requests : r.key = scan[t].key
    BY <1>1, <1>5, <1>8, <2>2 DEF FindRequest, Finish
  <2> QED BY <1>1, <2>1, <2>2 DEF Settling
<1>9. CASE RetryAttempt(t)
  <2>1. scan[t].pc = "insert" /\ UniqueViolation(scan[t])
    BY <1>9 DEF RetryAttempt, At
  <2>2. \E r \in requests : r.key = scan[t].key
    BY <2>1, ViolatedKey
  <2>3. scan[t].attempt <= 1
    BY <1>1, <2>1 DEF Settling
  <2>4. scan'[t] = IF scan[t].attempt < Attempts
                   THEN Attempt(scan[t].key, scan[t].qr, scan[t].checkpoint,
                                scan[t].attempt + 1)
                   ELSE Idle
    BY <1>1, <1>9 DEF RetryAttempt
  <2> DEFINE n == scan[t].attempt + 1
  <2>5. n \in Nat /\ (n <= 1 \/ n = 2)
    BY <1>2, <2>3
  <2> HIDE DEF n
  <2>6. CASE scan'[t] = Attempt(scan[t].key, scan[t].qr, scan[t].checkpoint, n)
    <3>1. /\ scan'[t].attempt = n /\ scan'[t].pc = "find"
          /\ scan'[t].key = scan[t].key
      BY <2>6 DEF Attempt
    <3> QED BY <1>3, <2>2, <2>5, <3>1 DEF Settling
  <2> QED BY <1>5, <2>4, <2>6 DEF n
<1>10. CASE LockCheckpoint(t)
  <2>1. scan'[t] = Idle \/ scan'[t].attempt = scan[t].attempt
    BY <1>1, <1>10, SameAttempt DEF LockCheckpoint, Finish
  <2> QED BY <1>5, <1>6, <1>10, <2>1 DEF LockCheckpoint, At
<1>11. CASE \/ LockPass(t) \/ LockAttendee(t) \/ LockApplication(t)
            \/ EffectiveEntitlement(t) \/ CountRedemptions(t) \/ InsertRequest(t)
  <2>1. \/ \E step \in Steps : Go(t, step)
        \/ \E o, n : Decide(t, o, n)
        \/ EffectiveEntitlement(t)
    BY <1>11 DEF LockPass, LockAttendee, LockApplication, CountRedemptions,
                 InsertRequest, Steps
  <2>3. ASSUME NEW rule,
               scan' = [scan EXCEPT ![t] = [@ EXCEPT !.pc = "count", !.rule = rule]]
        PROVE  scan'[t].attempt = scan[t].attempt
    BY <1>1, <2>3 DEF ScanState
  <2>4. EffectiveEntitlement(t) => scan'[t].attempt = scan[t].attempt
    BY <1>1, <2>3, SameAttempt DEF EffectiveEntitlement
  <2>5. scan'[t].attempt = scan[t].attempt
    BY <1>1, <2>1, <2>4, SameAttempt
  <2>2. scan[t].pc # "find"
    BY <1>11 DEF LockPass, LockAttendee, LockApplication, EffectiveEntitlement,
       CountRedemptions, InsertRequest, At
  <2> QED BY <1>6, <2>2, <2>5
<1>12. CASE Commit(t) \/ Abort(t)
  BY <1>1, <1>5, <1>12 DEF Commit, Abort, Finish
<1>13. CASE scan' = scan
  BY <1>4, <1>13
<1>14. ASSUME NEW s \in Scanners, s # t, Begin(s) \/ ScannerStep(s) \/ Abort(s)
       PROVE  Settling(t)'
  BY <1>1, <1>4, <1>14, ScannerLocal
<1>15. ASSUME NEW s \in Staff, BeginJob(s) \/ StaffStep(s) \/ AbortJob(s)
       PROVE  Settling(t)'
  BY <1>1, <1>13, <1>15, StaffLocal
<1> QED BY <1>7, <1>8, <1>9, <1>10, <1>11, <1>12, <1>13, <1>14, <1>15
        DEF Next, ScannerStep, Tick, vars

\* The retry loop of Redeem never needs its third attempt.
THEOREM Settled == Spec => []SecondAttemptSettles
<1>1. Init => \A s \in Scanners : Settling(s)
  BY DEF Init, Settling, Idle
<1>2. IInv /\ (\A s \in Scanners : Settling(s)) /\ [Next]_vars
        => \A s \in Scanners : Settling(s)'
  BY SettlingStep
<1>3. IInv /\ (\A s \in Scanners : Settling(s)) => SecondAttemptSettles
  <2> SUFFICES ASSUME IInv, \A s \in Scanners : Settling(s), NEW s \in Scanners
               PROVE  scan[s].attempt <= 2
    BY DEF SecondAttemptSettles
  <2>1. scan[s] \in ScanState
    BY DEF IInv, TypeOK
  <2>2. scan[s].attempt \in Nat
    BY <2>1 DEF ScanState
  <2> QED BY <2>2 DEF Settling
<1> DEFINE S == \A s \in Scanners : Settling(s)
<1>4. Init => S
  BY <1>1
<1>5. IInv /\ S /\ [Next]_vars => S'
  BY <1>2
<1>6. IInv /\ S => SecondAttemptSettles
  BY <1>3
<1> HIDE DEF S
<1> QED BY <1>4, <1>5, <1>6, Invariance, PTL DEF Spec

===============================================================================
