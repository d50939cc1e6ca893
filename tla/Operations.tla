------------------------------ MODULE Operations ------------------------------
(***************************************************************************)
(* Setting up the event: the transactions in which organizers create,      *)
(* change and delete activities and checkpoints and enable the entrance    *)
(* (api/internal/operations), READ COMMITTED, lock by lock.  A row id is   *)
(* never used again.  What a row says besides its cycle, its activity and  *)
(* its slug does not matter here; slugs of activities are left out, so a   *)
(* unique violation of theirs is Refuse.                                   *)
(***************************************************************************)
EXTENDS Naturals, FiniteSets, RowLocks

CONSTANTS Cycles,       \* application cycles
          Activities,   \* rows of ats.activities that may come to exist
          Checkpoints,  \* rows of ats.checkpoints that may come to exist
          Slugs,        \* the slugs a checkpoint may get
          Entrance,     \* 'main-entrance'
          Sessions,     \* sessions of organizers
          None, Gone

ASSUME EntranceAssumption == Entrance \in Slugs
ASSUME RowsAssumption == Activities \cap Checkpoints = {}
ASSUME AbsentAssumption ==
  /\ None # Gone
  /\ \A x \in {None, Gone} :
       x \notin Cycles \cup Activities \cup Checkpoints \cup Sessions

VARIABLES
  active,       \* the active cycle, or None
  activities,   \* activity -> its cycle, None before it exists, then Gone
  checkpoints,  \* checkpoint -> its row, None before it exists, then Gone
  audit,        \* row -> its "..._created" and "..._deleted" events
  job,          \* session -> the request it serves, or None
  held          \* session -> the row locks its transaction holds

vars == <<active, activities, checkpoints, audit, job, held>>

Rows == [cycle : Cycles, activity : Activities \cup {None}, slug : Slugs]
Existing == {c \in Checkpoints : checkpoints[c] \notin {None, Gone}}
InCycle(cy) == {c \in Existing : checkpoints[c].cycle = cy}

CycleRow(cy) == <<"cycle", cy>>
ActivityRow(a) == <<"activity", a>>
CheckpointRow(c) == <<"checkpoint", c>>
SlugKey(cy, slug) == <<"slug", cy, slug>>  \* an entry of the unique index

-------------------------------------------------------------------------------
(* Requests, and the stages their transactions go through.                 *)

ActivityRequests ==
  [kind : {"create_activity"}, cycle : Cycles]
  \cup [kind : {"update_activity", "delete_activity"}, activity : Activities]
CheckpointRequests ==
  [kind : {"create_checkpoint"}, cycle : Cycles,
   activity : Activities \cup {None}, slug : Slugs]
  \cup [kind : {"update_checkpoint"}, checkpoint : Checkpoints,
        activity : Activities \cup {None}, slug : Slugs]
  \cup [kind : {"delete_checkpoint"}, checkpoint : Checkpoints]
EntranceRequests == [kind : {"enable_entrance"}, cycle : Cycles]
Requests == ActivityRequests \cup CheckpointRequests \cup EntranceRequests

Stages == {"cycle", "read", "activity", "references", "checkpoint", "entrance",
           "recheck", "configured", "slug", "commit"}

\* cycle: of the request, or read from its checkpoint; found: the entrance
\* that EnableEntrance's SELECT came across.
Jobs == [req : Requests, stage : Stages, cycle : Cycles \cup {None},
         found : Checkpoints \cup {None}]

ASSUME NoRowAssumption == None \notin Rows \cup Jobs /\ Gone \notin Rows

Req(s) == job[s].req
At(s, stage) == job[s] # None /\ job[s].stage = stage
Kind(s) == Req(s).kind
Move(s, stage) == job' = [job EXCEPT ![s].stage = stage]

OfCycle(req) == req.kind \in {"create_activity", "create_checkpoint", "enable_entrance"}

First(req) == CASE OfCycle(req) -> "cycle"
                [] req.kind \in {"update_activity", "delete_activity"} -> "activity"
                [] req.kind = "update_checkpoint" -> "read"
                [] req.kind = "delete_checkpoint" -> "checkpoint"

Slug(s) == IF Kind(s) = "enable_entrance" THEN Entrance ELSE Req(s).slug

\* Faulty: setting up the entrance shares the cycle with other changes.
CycleModeShared(s) == "key_share"

\* lockCycle: FOR KEY SHARE; EnableEntrance: FOR UPDATE.
CycleMode(s) == IF Kind(s) = "enable_entrance" THEN "update" ELSE "key_share"

\* The locks a stage asks for.
Needs(s) ==
  CASE job[s].stage = "cycle" -> {<<CycleRow(Req(s).cycle), CycleMode(s)>>}
    [] job[s].stage = "activity" ->
         {<<ActivityRow(Req(s).activity),
            IF Kind(s) \in {"update_activity", "delete_activity"}
            THEN "update" ELSE "key_share">>}
    [] job[s].stage = "references" ->
         {<<CheckpointRow(c), "key_share">> :
            c \in {d \in Existing : checkpoints[d].activity = Req(s).activity}}
    [] job[s].stage = "checkpoint" -> {<<CheckpointRow(Req(s).checkpoint), "update">>}
    [] job[s].stage = "recheck" -> {<<CheckpointRow(job[s].found), "update">>}
    [] job[s].stage = "slug" ->
         {<<SlugKey(job[s].cycle, Slug(s)), "update">>}
    [] OTHER -> {}

\* Faulty: nobody waits.
AcquireAtOnce(s) == held' = [held EXCEPT ![s] = @ \cup Needs(s)]

\* s gets what its stage asks for, or waits.
Acquire(s) ==
  /\ \A need \in Needs(s) : Grantable(held, s, need[1], need[2])
  /\ held' = [held EXCEPT ![s] = @ \cup Needs(s)]

Ask(s) ==
  /\ job[s] = None
  /\ \E req \in Requests :
       job' = [job EXCEPT ![s] = [req |-> req, stage |-> First(req), found |-> None,
                                cycle |-> IF OfCycle(req) THEN req.cycle ELSE None]]
  /\ UNCHANGED <<active, activities, checkpoints, audit, held>>

-------------------------------------------------------------------------------
(* Locks and checks.                                                       *)

AfterCycle(s) == CASE Kind(s) = "create_activity" -> "commit"
                   [] Kind(s) = "enable_entrance" -> "entrance"
                   [] Kind(s) = "create_checkpoint" ->
                        IF Req(s).activity = None THEN "slug" ELSE "activity"

\* EnableEntrance wants the cycle active.
LockCycle(s) ==
  /\ At(s, "cycle")
  /\ Acquire(s)
  /\ Kind(s) = "enable_entrance" => active = Req(s).cycle
  /\ Move(s, AfterCycle(s))
  /\ UNCHANGED <<active, activities, checkpoints, audit>>

Renames(s) == /\ Kind(s) = "update_checkpoint"
              /\ Req(s).slug # checkpoints[Req(s).checkpoint].slug

\* Faulty: the checkpoint is locked before the activity it is to refer to.
UpdateOrderReversed(s, stage) ==
  CASE stage = "read" -> "checkpoint"
    [] stage = "checkpoint" /\ Req(s).activity # None -> "activity"
    [] OTHER -> IF Renames(s) THEN "slug" ELSE "commit"

\* "This preserves a single activity-to-checkpoint order" (UpdateCheckpoint).
UpdateOrder(s, stage) ==
  CASE stage = "read" -> IF Req(s).activity = None THEN "checkpoint" ELSE "activity"
    [] stage = "activity" -> "checkpoint"
    [] stage = "checkpoint" -> IF Renames(s) THEN "slug" ELSE "commit"

\* UpdateCheckpoint reads the checkpoint's cycle without a lock.
ReadCycle(s) ==
  /\ At(s, "read")
  /\ Req(s).checkpoint \in Existing
  /\ job' = [job EXCEPT ![s].cycle = checkpoints[Req(s).checkpoint].cycle,
                        ![s].stage = UpdateOrder(s, "read")]
  /\ UNCHANGED <<active, activities, checkpoints, audit, held>>

AfterActivity(s) == CASE Kind(s) = "update_activity" -> "commit"
                      [] Kind(s) = "delete_activity" -> "references"
                      [] Kind(s) = "create_checkpoint" -> "slug"
                      [] Kind(s) = "update_checkpoint" -> UpdateOrder(s, "activity")

\* lockActivityInCycle says AND cycle_id = $2, as the composite foreign key
\* does; changes of an activity itself name it whatever its cycle.
CyclesWanted(s) == IF Kind(s) \in {"update_activity", "delete_activity"}
                   THEN Cycles ELSE {job[s].cycle}

LockActivity(s) ==
  /\ At(s, "activity")
  /\ Acquire(s)
  /\ activities[Req(s).activity] \in CyclesWanted(s)
  /\ Move(s, AfterActivity(s))
  /\ UNCHANGED <<active, activities, checkpoints, audit>>

\* Faulty: deleting an activity leaves its checkpoints pointing at it.
CheckReferencesNever(s) ==
  /\ At(s, "references")
  /\ Move(s, "commit")
  /\ UNCHANGED <<active, activities, checkpoints, audit, held>>

\* ON DELETE RESTRICT looks for checkpoints of the activity, waiting for
\* those that are being changed: one that still refers to it is ErrInUse.
CheckReferences(s) ==
  /\ At(s, "references")
  /\ Needs(s) = {}
  /\ Move(s, "commit")
  /\ UNCHANGED <<active, activities, checkpoints, audit, held>>

\* The index entry that the UPDATE or DELETE to come takes out of use.
OldKey(s) ==
  LET row == checkpoints[Req(s).checkpoint]
  IN  IF Renames(s) \/ Kind(s) = "delete_checkpoint"
      THEN {<<SlugKey(row.cycle, row.slug), "update">>} ELSE {}

\* SELECT id ... FOR UPDATE, in UpdateCheckpoint and DeleteCheckpoint.
LockCheckpoint(s) ==
  /\ At(s, "checkpoint")
  /\ \A need \in Needs(s) : Grantable(held, s, need[1], need[2])
  /\ Req(s).checkpoint \in Existing
  /\ held' = [held EXCEPT ![s] = @ \cup Needs(s) \cup OldKey(s)]
  /\ Move(s, IF Kind(s) = "update_checkpoint" THEN UpdateOrder(s, "checkpoint") ELSE "commit")
  /\ UNCHANGED <<active, activities, checkpoints, audit>>

\* Another row of the cycle has the slug: ErrConflict.
SlugFree(s) ==
  \A c \in InCycle(job[s].cycle) : checkpoints[c].slug # Slug(s)

ClaimSlug(s) ==
  /\ At(s, "slug")
  /\ Acquire(s)
  /\ SlugFree(s)
  /\ Move(s, "commit")
  /\ UNCHANGED <<active, activities, checkpoints, audit>>

\* EnableEntrance: is there an entrance already?
LookForEntrance(s) ==
  LET entrances == {c \in InCycle(Req(s).cycle) : checkpoints[c].slug = Entrance}
  IN  /\ At(s, "entrance")
      /\ \/ /\ entrances = {}
            /\ Move(s, "configured")
         \/ \E c \in entrances :
              job' = [job EXCEPT ![s].stage = "recheck", ![s].found = c]
      /\ UNCHANGED <<active, activities, checkpoints, audit, held>>

\* Its row FOR UPDATE: once it is locked it may have been renamed or deleted,
\* and the SELECT comes back without it.
RecheckEntrance(s) ==
  LET c == job[s].found
      stays == c \in Existing /\ checkpoints[c].slug = Entrance
  IN  /\ At(s, "recheck")
      /\ Acquire(s)
      /\ job' = [job EXCEPT ![s].stage = IF stays THEN "commit" ELSE "configured",
                            ![s].found = IF stays THEN c ELSE None]
      /\ UNCHANGED <<active, activities, checkpoints, audit>>

\* SELECT EXISTS: a cycle with any checkpoint is left to its organizers.
CheckUnconfigured(s) ==
  /\ At(s, "configured")
  /\ InCycle(Req(s).cycle) = {}
  /\ Move(s, "slug")
  /\ UNCHANGED <<active, activities, checkpoints, audit, held>>

-------------------------------------------------------------------------------
(* Commits.                                                                *)

End(s) == job' = [job EXCEPT ![s] = None] /\ held' = [held EXCEPT ![s] = {}]
Committing(s, kind) == At(s, "commit") /\ Kind(s) = kind
Audited(row, event) == audit' = [audit EXCEPT ![row][event] = @ + 1]

CreateActivity(s) ==
  /\ Committing(s, "create_activity")
  /\ \E a \in Activities :
       /\ activities[a] = None
       /\ activities' = [activities EXCEPT ![a] = Req(s).cycle]
       /\ Audited(a, "created")
  /\ End(s)
  /\ UNCHANGED <<active, checkpoints>>

\* Names and times only: nothing the model keeps.
UpdateActivity(s) ==
  /\ Committing(s, "update_activity")
  /\ End(s)
  /\ UNCHANGED <<active, activities, checkpoints, audit>>

DeleteActivity(s) ==
  /\ Committing(s, "delete_activity")
  /\ activities' = [activities EXCEPT ![Req(s).activity] = Gone]
  /\ Audited(Req(s).activity, "deleted")
  /\ End(s)
  /\ UNCHANGED <<active, checkpoints>>

Insert(row) ==
  \E c \in Checkpoints :
    /\ checkpoints[c] = None
    /\ checkpoints' = [checkpoints EXCEPT ![c] = row]
    /\ Audited(c, "created")

CreateCheckpoint(s) ==
  /\ Committing(s, "create_checkpoint")
  /\ Insert([cycle |-> Req(s).cycle, activity |-> Req(s).activity, slug |-> Req(s).slug])
  /\ End(s)
  /\ UNCHANGED <<active, activities>>

UpdateCheckpoint(s) ==
  /\ Committing(s, "update_checkpoint")
  /\ checkpoints' = [checkpoints EXCEPT ![Req(s).checkpoint] =
       [@ EXCEPT !.activity = Req(s).activity, !.slug = Req(s).slug]]
  /\ End(s)
  /\ UNCHANGED <<active, activities, audit>>

\* (A checkpoint with redemptions or overrides is refused: module Redemption.)
DeleteCheckpoint(s) ==
  /\ Committing(s, "delete_checkpoint")
  /\ checkpoints' = [checkpoints EXCEPT ![Req(s).checkpoint] = Gone]
  /\ Audited(Req(s).checkpoint, "deleted")
  /\ End(s)
  /\ UNCHANGED <<active, activities>>

\* Faulty: the entrance that is there is audited like a new one.
EnableEntranceAudits(s) ==
  /\ Committing(s, "enable_entrance")
  /\ IF job[s].found # None
     THEN Audited(job[s].found, "created") /\ UNCHANGED checkpoints
     ELSE Insert([cycle |-> Req(s).cycle, activity |-> None, slug |-> Entrance])
  /\ End(s)
  /\ UNCHANGED <<active, activities>>

\* Replays return the entrance as it is.
EnableEntrance(s) ==
  /\ Committing(s, "enable_entrance")
  /\ IF job[s].found # None
     THEN UNCHANGED <<checkpoints, audit>>
     ELSE Insert([cycle |-> Req(s).cycle, activity |-> None, slug |-> Entrance])
  /\ End(s)
  /\ UNCHANGED <<active, activities>>

\* Every refusal (404, 409, 422), a deadlock, a timeout, a crash.
Refuse(s) ==
  /\ job[s] # None
  /\ End(s)
  /\ UNCHANGED <<active, activities, checkpoints, audit>>

\* Operators of the database close the active cycle or open another: there is
\* at most one (application_cycles_one_active_idx).
SwitchCycle(cy) ==
  /\ cy # active
  /\ \A x \in {active, cy} \ {None} : Grantable(held, None, CycleRow(x), "no_key_update")
  /\ active' = cy
  /\ UNCHANGED <<activities, checkpoints, audit, job, held>>

Init ==
  /\ active \in Cycles \cup {None}
  /\ activities = [a \in Activities |-> None]
  /\ checkpoints = [c \in Checkpoints |-> None]
  /\ audit = [r \in Activities \cup Checkpoints |-> [created |-> 0, deleted |-> 0]]
  /\ job = [s \in Sessions |-> None]
  /\ held = [s \in Sessions |-> {}]

Next ==
  \/ \E cy \in Cycles \cup {None} : SwitchCycle(cy)
  \/ \E s \in Sessions :
       \/ Ask(s) \/ LockCycle(s) \/ ReadCycle(s) \/ LockActivity(s)
       \/ CheckReferences(s) \/ LockCheckpoint(s) \/ ClaimSlug(s)
       \/ LookForEntrance(s) \/ RecheckEntrance(s) \/ CheckUnconfigured(s)
       \/ CreateActivity(s) \/ UpdateActivity(s) \/ DeleteActivity(s)
       \/ CreateCheckpoint(s) \/ UpdateCheckpoint(s) \/ DeleteCheckpoint(s)
       \/ EnableEntrance(s) \/ Refuse(s)

Spec == Init /\ [][Next]_vars

-------------------------------------------------------------------------------
(* Properties.                                                             *)

\* Every variable has its type, and no two transactions hold locks that
\* PostgreSQL would not grant both.
TypeOK ==
  /\ active \in Cycles \cup {None}
  /\ activities \in [Activities -> Cycles \cup {None, Gone}]
  /\ checkpoints \in [Checkpoints -> Rows \cup {None, Gone}]
  /\ audit \in [Activities \cup Checkpoints -> [created : Nat, deleted : Nat]]
  /\ job \in [Sessions -> Jobs \cup {None}]
  /\ \A s, t \in Sessions : s # t =>
       \A l \in held[s], k \in held[t] : l[1] = k[1] => Compatible(l[2], k[2])

\* Every change an organizer makes is one step of EventSetup: at the instant of
\* its commit the slug is unique in the cycle, the activity exists and is of
\* the checkpoint's cycle, and a deleted activity has no checkpoint left,
\* whatever the checks before the last wait found.
Setup == INSTANCE EventSetup WITH
  open <- active,
  acts <- {[id |-> a, cycle |-> activities[a]] :
             a \in {b \in Activities : activities[b] \notin {None, Gone}}},
  points <- {[id |-> c, cycle |-> checkpoints[c].cycle,
              activity |-> checkpoints[c].activity, slug |-> checkpoints[c].slug] :
                c \in Existing}
SetupSpec == Setup!Spec

\* "EnableEntrance creates a default entrance only for an otherwise
\* unconfigured active event. A cycle lock serializes concurrent setup and
\* cycle changes" (operations/checkin.go:41): so it is when it commits.
EntranceAlone ==
  [][\A s \in Sessions, c \in Checkpoints :
       (/\ job[s] # None /\ Kind(s) = "enable_entrance" /\ job'[s] = None
        /\ checkpoints[c] = None /\ checkpoints'[c] # None)
         => /\ active = Req(s).cycle
            /\ InCycle(Req(s).cycle) = {}]_vars

\* A row that exists was audited as created once, one that is gone as deleted
\* once too, however often setting up the entrance was repeated.
AuditExact ==
  \A r \in Activities \cup Checkpoints :
    LET row == IF r \in Activities THEN activities[r] ELSE checkpoints[r]
    IN  /\ audit[r].created = IF row = None THEN 0 ELSE 1
        /\ audit[r].deleted = IF row = Gone THEN 1 ELSE 0

Waits == [s \in Sessions |->
            IF job[s] = None THEN {}
            ELSE UNION {Blockers(held, s, n[1], n[2]) : n \in Needs(s)}]

\* The only transactions that ever wait for each other are two renames that
\* swap slugs: rows are locked cycle, activity, checkpoint ("a single
\* activity-to-checkpoint order", UpdateCheckpoint).
OnlyRenamesDeadlock ==
  \A S \in SUBSET Sessions :
    (S # {} /\ \A s \in S : /\ Waits[s] \cap S # {}
                           /\ \E t \in S : s \in Waits[t])
      => \A s \in S : At(s, "slug") /\ Kind(s) = "update_checkpoint"

-------------------------------------------------------------------------------
(* Why they hold.                                                          *)

LockRows == {CycleRow(cy) : cy \in Cycles} \cup {ActivityRow(a) : a \in Activities}
            \cup {CheckpointRow(c) : c \in Checkpoints}
            \cup {SlugKey(cy, slug) : cy \in Cycles, slug \in Slugs}
HeldTyped == held \in [Sessions -> SUBSET (LockRows \X Modes)]

\* The stages each kind of request goes through.
Path(kind) ==
  CASE kind = "create_activity" -> {"cycle", "commit"}
    [] kind = "update_activity" -> {"activity", "commit"}
    [] kind = "delete_activity" -> {"activity", "references", "commit"}
    [] kind = "create_checkpoint" -> {"cycle", "activity", "slug", "commit"}
    [] kind = "update_checkpoint" -> {"read", "activity", "checkpoint", "slug", "commit"}
    [] kind = "delete_checkpoint" -> {"checkpoint", "commit"}
    [] kind = "enable_entrance" ->
         {"cycle", "entrance", "recheck", "configured", "slug", "commit"}

RefersTo == {"create_checkpoint", "update_checkpoint"}

\* A checkpoint never changes its cycle, so the one that UpdateCheckpoint read
\* without a lock is right for as long as the checkpoint exists.
PathStands(s) ==
  /\ job[s].stage \in Path(Kind(s))
  /\ OfCycle(Req(s)) => job[s].cycle = Req(s).cycle
  /\ Kind(s) \in RefersTo /\ job[s].stage = "activity" => Req(s).activity # None
  /\ Kind(s) = "update_checkpoint" /\ job[s].stage # "read" =>
       /\ job[s].cycle \in Cycles
       /\ checkpoints[Req(s).checkpoint] # None
       /\ Req(s).checkpoint \in Existing => checkpoints[Req(s).checkpoint].cycle = job[s].cycle
  /\ job[s].stage = "recheck" => job[s].found # None
  /\ job[s].found # None => job[s].stage \in {"recheck", "commit"}

\* The cycle of an entrance stays active, and without checkpoints once it was
\* found to have none: whoever makes one shares the cycle's row.
CycleStands(s) ==
  job[s].stage # "cycle" =>
    /\ Kind(s) = "create_checkpoint" => <<CycleRow(Req(s).cycle), "key_share">> \in held[s]
    /\ Kind(s) = "enable_entrance" =>
         /\ <<CycleRow(Req(s).cycle), "update">> \in held[s]
         /\ active = Req(s).cycle
         /\ job[s].stage \in {"slug", "commit"} /\ job[s].found = None
              => InCycle(Req(s).cycle) = {}

\* An activity that is to be referred to stays, one that is to be deleted gets
\* no new checkpoint.
ActivityStands(s) ==
  /\ Kind(s) \in RefersTo /\ Req(s).activity # None
     /\ job[s].stage \in {"checkpoint", "slug", "commit"} =>
       /\ <<ActivityRow(Req(s).activity), "key_share">> \in held[s]
       /\ activities[Req(s).activity] = job[s].cycle
  /\ Kind(s) = "delete_activity" /\ job[s].stage \in {"references", "commit"} =>
       /\ <<ActivityRow(Req(s).activity), "update">> \in held[s]
       /\ activities[Req(s).activity] \in Cycles
       /\ job[s].stage = "commit" =>
            \A c \in Existing : checkpoints[c].activity # Req(s).activity

\* The checkpoint that is to be changed is there and is its transaction's.
HasCheckpoint(s) ==
  \/ Kind(s) = "update_checkpoint" /\ job[s].stage \in {"slug", "commit"}
  \/ Kind(s) = "delete_checkpoint" /\ job[s].stage = "commit"
CheckpointStands(s) ==
  HasCheckpoint(s) =>
    /\ <<CheckpointRow(Req(s).checkpoint), "update">> \in held[s]
    /\ Req(s).checkpoint \in Existing
    /\ job[s].stage = "slug" => Renames(s)

\* A slug that was claimed is still free.
Claims(s) ==
  /\ job[s].stage = "commit"
  /\ \/ Kind(s) = "create_checkpoint"
     \/ Kind(s) = "enable_entrance" /\ job[s].found = None
     \/ Kind(s) = "update_checkpoint" /\ Renames(s)
ClaimStands(s) ==
  Claims(s) => <<SlugKey(job[s].cycle, Slug(s)), "update">> \in held[s] /\ SlugFree(s)

\* An entry of the unique index is held by who claims it or by who has the
\* checkpoint that it is for.
KeysStand(s) ==
  \A cy \in Cycles, slug \in Slugs, m \in Modes :
    <<SlugKey(cy, slug), m>> \in held[s] =>
      /\ job[s] # None
      /\ \/ Claims(s) /\ cy = job[s].cycle /\ slug = Slug(s)
         \/ /\ HasCheckpoint(s)
            /\ cy = checkpoints[Req(s).checkpoint].cycle
            /\ slug = checkpoints[Req(s).checkpoint].slug

Stands(s) ==
  job[s] # None => /\ PathStands(s) /\ CycleStands(s) /\ ActivityStands(s)
                   /\ CheckpointStands(s) /\ ClaimStands(s)

UniqueSlugs ==
  \A c, d \in Existing :
    checkpoints[c].cycle = checkpoints[d].cycle /\ checkpoints[c].slug = checkpoints[d].slug
      => c = d

\* The inductive invariant.
IInv ==
  /\ TypeOK /\ HeldTyped /\ AuditExact /\ UniqueSlugs
  /\ \A s \in Sessions : Stands(s) /\ KeysStand(s)

===============================================================================
