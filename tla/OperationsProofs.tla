--------------------------- MODULE OperationsProofs ---------------------------
(***************************************************************************)
(* Theorems about Operations, for any number of organizers, cycles,        *)
(* activities and checkpoints: what a transaction found under its locks is *)
(* so at its commit, and every commit is a step of EventSetup.             *)
(***************************************************************************)
EXTENDS Operations, TLAPS

tables == <<active, activities, checkpoints, audit>>
LocksExclude ==
  \A s, t \in Sessions : s # t =>
    \A l \in held[s], k \in held[t] : l[1] = k[1] => Compatible(l[2], k[2])
JobsTyped == job \in [Sessions -> Jobs \cup {None}]
OnActivity == {"update_activity", "delete_activity"}
OnCheckpoint == {"update_checkpoint", "delete_checkpoint"}
NoKeys(s) ==
  \A cy \in Cycles, slug \in Slugs, m \in Modes : <<SlugKey(cy, slug), m>> \notin held[s]

-------------------------------------------------------------------------------
(* What the small operators do.                                            *)

\* Which fields a request has.
LEMMA RequestTypes ==
  ASSUME NEW req \in Requests
  PROVE  /\ req.kind \in {"create_activity", "create_checkpoint", "enable_entrance"}
                         \cup OnActivity \cup OnCheckpoint
         /\ OfCycle(req) => req.cycle \in Cycles
         /\ req.kind \in OnActivity => req.activity \in Activities
         /\ req.kind \in RefersTo =>
              req.activity \in Activities \cup {None} /\ req.slug \in Slugs
         /\ req.kind \in OnCheckpoint => req.checkpoint \in Checkpoints
BY DEF Requests, ActivityRequests, CheckpointRequests, EntranceRequests,
       OnActivity, OnCheckpoint, OfCycle, RefersTo

LEMMA JobTypes ==
  ASSUME JobsTyped, NEW s \in Sessions, job[s] # None
  PROVE  /\ job[s] \in Jobs /\ job[s].req \in Requests /\ job[s].stage \in Stages
         /\ job[s].cycle \in Cycles \cup {None} /\ job[s].found \in Checkpoints \cup {None}
BY DEF JobsTyped, Jobs

LEMMA Typed ==
  ASSUME IInv
  PROVE  /\ active \in Cycles \cup {None} /\ JobsTyped /\ HeldTyped /\ LocksExclude
         /\ activities \in [Activities -> Cycles \cup {None, Gone}]
         /\ checkpoints \in [Checkpoints -> Rows \cup {None, Gone}]
         /\ audit \in [Activities \cup Checkpoints -> [created : Nat, deleted : Nat]]
         /\ AuditExact /\ UniqueSlugs /\ \A s \in Sessions : Stands(s) /\ KeysStand(s)
BY DEF IInv, TypeOK, JobsTyped, LocksExclude

LEMMA InvParts ==
  /\ IInv <=> /\ TypeOK /\ HeldTyped /\ AuditExact /\ UniqueSlugs
              /\ \A s \in Sessions : Stands(s) /\ KeysStand(s)
  /\ TypeOK <=> /\ active \in Cycles \cup {None}
                /\ activities \in [Activities -> Cycles \cup {None, Gone}]
                /\ checkpoints \in [Checkpoints -> Rows \cup {None, Gone}]
                /\ audit \in [Activities \cup Checkpoints -> [created : Nat, deleted : Nat]]
                /\ JobsTyped /\ LocksExclude
BY DEF IInv, TypeOK, JobsTyped, LocksExclude

\* The rows of a checkpoint that exists.
LEMMA RowTypes ==
  ASSUME IInv, NEW c \in Existing
  PROVE  /\ c \in Checkpoints /\ checkpoints[c] \in Rows
         /\ checkpoints[c].cycle \in Cycles
         /\ checkpoints[c].activity \in Activities \cup {None}
         /\ checkpoints[c].slug \in Slugs
BY Typed DEF Existing, Rows

LEMMA Absent ==
  /\ None \notin Rows /\ None \notin Jobs /\ Gone \notin Rows /\ None # Gone
  /\ None \notin Cycles /\ Gone \notin Cycles
  /\ None \notin Activities /\ None \notin Checkpoints /\ None \notin Sessions
  /\ Gone \notin Activities
BY NoRowAssumption, AbsentAssumption

\* A request with a new stage, maybe another cycle or entrance.
LEMMA NewJob ==
  ASSUME JobsTyped, NEW s \in Sessions, NEW j \in Jobs, job' = [job EXCEPT ![s] = j]
  PROVE  /\ JobsTyped' /\ job'[s] = j /\ job'[s] # None
         /\ \A u \in Sessions \ {s} : job'[u] = job[u]
BY Absent DEF JobsTyped

LEMMA MoveTypes ==
  ASSUME JobsTyped, NEW s \in Sessions, job[s] # None, NEW stage \in Stages, Move(s, stage)
  PROVE  /\ JobsTyped' /\ job'[s] # None
         /\ job'[s].req = job[s].req /\ job'[s].stage = stage
         /\ job'[s].cycle = job[s].cycle /\ job'[s].found = job[s].found
         /\ \A u \in Sessions \ {s} : job'[u] = job[u]
<1> DEFINE j == [job[s] EXCEPT !.stage = stage]
<1>1. /\ j \in Jobs /\ j.req = job[s].req /\ j.stage = stage
      /\ j.cycle = job[s].cycle /\ j.found = job[s].found
  BY JobTypes DEF Jobs
<1>2. job' = [job EXCEPT ![s] = j]
  BY DEF Move
<1> HIDE DEF j
<1> QED
  BY <1>1, <1>2, NewJob

-------------------------------------------------------------------------------
(* Locks.                                                                  *)

LEMMA Conflict ==
  ASSUME LocksExclude, NEW s \in Sessions, NEW u \in Sessions, s # u,
         NEW row, NEW m, <<row, m>> \in held[s], <<row, "update">> \in held[u]
  PROVE  FALSE
<1>1. Compatible(m, "update")
  <2>1. \A l \in held[s], k \in held[u] : l[1] = k[1] => Compatible(l[2], k[2])
    BY DEF LocksExclude
  <2>2. Compatible(<<row, m>>[2], <<row, "update">>[2])
    BY <2>1
  <2> QED
    BY <2>2
<1> QED
  BY <1>1 DEF Compatible

LEMMA Granted ==
  ASSUME HeldTyped, NEW s, NEW u \in Sessions, u # s, NEW row, NEW mode,
         NEW l \in held[u], l[1] = row, Grantable(held, s, row, mode)
  PROVE  Compatible(l[2], mode)
<1>1. l = <<row, l[2]>> /\ l[2] \in Modes
  BY DEF HeldTyped
<1>2. u \in DOMAIN held \ {s}
  BY DEF HeldTyped
<1> QED
  BY <1>1, <1>2 DEF Grantable, Blockers

LEMMA Symmetric ==
  ASSUME NEW m, NEW n, Compatible(m, n)
  PROVE  Compatible(n, m)
BY DEF Compatible

\* Locks that nobody else's exclude can be taken.
LEMMA Take ==
  ASSUME HeldTyped, LocksExclude, NEW s \in Sessions, NEW S \in SUBSET (LockRows \X Modes),
         \A u \in Sessions \ {s} : \A l \in held[u], k \in S :
           l[1] = k[1] => Compatible(l[2], k[2]),
         held' = [held EXCEPT ![s] = @ \cup S]
  PROVE  /\ HeldTyped' /\ LocksExclude' /\ held'[s] = held[s] \cup S
         /\ \A u \in Sessions \ {s} : held'[u] = held[u]
<1>1. /\ HeldTyped' /\ held'[s] = held[s] \cup S
      /\ \A u \in Sessions \ {s} : held'[u] = held[u]
  BY DEF HeldTyped
<1>2. ASSUME NEW t \in Sessions, NEW u \in Sessions, t # u,
             NEW l \in held'[t], NEW k \in held'[u], l[1] = k[1]
      PROVE  Compatible(l[2], k[2])
  <2>1. CASE l \in held[t] /\ k \in held[u]
    BY <1>2, <2>1 DEF LocksExclude
  <2>2. CASE t # s /\ u = s /\ k \in S
    BY <1>1, <1>2, <2>2
  <2>3. CASE t = s /\ u # s /\ l \in S
    BY <1>1, <1>2, <2>3, Symmetric
  <2> QED
    BY <1>1, <1>2, <2>1, <2>2, <2>3
<1> QED
  BY <1>1, <1>2 DEF LocksExclude

\* Acquire: one row, or several.
LEMMA AcquireTakes ==
  ASSUME HeldTyped, LocksExclude, NEW s \in Sessions, Acquire(s),
         Needs(s) \in SUBSET (LockRows \X Modes)
  PROVE  /\ HeldTyped' /\ LocksExclude' /\ held'[s] = held[s] \cup Needs(s)
         /\ \A u \in Sessions \ {s} : held'[u] = held[u]
<1>1. ASSUME NEW u \in Sessions \ {s}, NEW l \in held[u], NEW k \in Needs(s), l[1] = k[1]
      PROVE  Compatible(l[2], k[2])
  BY <1>1, Granted DEF Acquire
<1> QED
  BY <1>1, Take DEF Acquire

LEMMA EndFrees ==
  ASSUME JobsTyped, HeldTyped, LocksExclude, NEW s \in Sessions, End(s)
  PROVE  /\ JobsTyped' /\ HeldTyped' /\ LocksExclude'
         /\ job'[s] = None /\ held'[s] = {}
         /\ \A u \in Sessions \ {s} : job'[u] = job[u] /\ held'[u] = held[u]
<1>1. /\ JobsTyped' /\ HeldTyped' /\ job'[s] = None /\ held'[s] = {}
      /\ \A u \in Sessions \ {s} : job'[u] = job[u] /\ held'[u] = held[u]
  BY DEF JobsTyped, HeldTyped, End
<1> QED
  BY <1>1 DEF LocksExclude

\* Rows of different kinds are different rows.
LEMMA RowsDiffer ==
  /\ \A cy \in Cycles, cz \in Cycles : CycleRow(cy) = CycleRow(cz) => cy = cz
  /\ \A c \in Cycles, slug \in Slugs :
       /\ \A x : CycleRow(x) # SlugKey(c, slug)
       /\ \A x : ActivityRow(x) # SlugKey(c, slug)
       /\ \A x : CheckpointRow(x) # SlugKey(c, slug)
  /\ \A c, d \in Cycles, x, y \in Slugs : SlugKey(c, x) = SlugKey(d, y) => c = d /\ x = y
<1>1. \A c, x, y : /\ <<"cycle", y>> # <<"slug", c, x>>
                   /\ <<"activity", y>> # <<"slug", c, x>>
                   /\ <<"checkpoint", y>> # <<"slug", c, x>>
  <2> SUFFICES ASSUME NEW c, NEW x, NEW y
               PROVE  /\ <<"cycle", y>> # <<"slug", c, x>>
                      /\ <<"activity", y>> # <<"slug", c, x>>
                      /\ <<"checkpoint", y>> # <<"slug", c, x>>
    OBVIOUS
  <2>1. /\ <<"cycle", y>>[1] = "cycle" /\ <<"slug", c, x>>[1] = "slug"
        /\ <<"activity", y>>[1] = "activity" /\ <<"checkpoint", y>>[1] = "checkpoint"
    OBVIOUS
  <2> QED
    BY <2>1
<1> QED
  BY <1>1 DEF CycleRow, ActivityRow, CheckpointRow, SlugKey

\* The modes and rows a stage asks for are ones there are.
LEMMA ModesKnown == {"key_share", "update", "no_key_update", "share"} \subseteq Modes
BY DEF Modes

-------------------------------------------------------------------------------
(* Sessions that do not move, while the tables stay as they are.           *)

LEMMA Same ==
  ASSUME UNCHANGED tables
  PROVE  /\ Existing' = Existing
         /\ \A cy : InCycle(cy)' = InCycle(cy)
         /\ UniqueSlugs <=> UniqueSlugs'
         /\ AuditExact <=> AuditExact'
BY DEF tables, Existing, InCycle, UniqueSlugs, AuditExact

LEMMA SameStands ==
  ASSUME UNCHANGED tables, NEW u \in Sessions, job'[u] = job[u], held'[u] = held[u],
         Stands(u), KeysStand(u)
  PROVE  Stands(u)' /\ KeysStand(u)'
<1>1. /\ active' = active /\ activities' = activities /\ checkpoints' = checkpoints
      /\ Existing' = Existing
  BY DEF tables, Existing
<1>2. Renames(u)' <=> Renames(u)
  BY <1>1 DEF Renames, Kind, Req
<1>3. HasCheckpoint(u)' <=> HasCheckpoint(u)
  BY DEF HasCheckpoint, Kind, Req
<1>4. Claims(u)' <=> Claims(u)
  BY <1>2 DEF Claims, Kind, Req
<1>5. Slug(u)' = Slug(u)
  BY DEF Slug, Kind, Req
<1>6. SlugFree(u)' <=> SlugFree(u)
  BY <1>1, <1>5 DEF SlugFree, InCycle
<1>7. PathStands(u)' <=> PathStands(u)
  BY <1>1 DEF PathStands, Kind, Req, OfCycle
<1>8. CycleStands(u)' <=> CycleStands(u)
  BY <1>1 DEF CycleStands, Kind, Req, InCycle
<1>9. ActivityStands(u)' <=> ActivityStands(u)
  BY <1>1 DEF ActivityStands, Kind, Req
<1>10. CheckpointStands(u)' <=> CheckpointStands(u)
  BY <1>1, <1>2, <1>3 DEF CheckpointStands, Req
<1>11. ClaimStands(u)' <=> ClaimStands(u)
  BY <1>4, <1>5, <1>6 DEF ClaimStands, SlugKey
<1>12. KeysStand(u)' <=> KeysStand(u)
  BY <1>1, <1>3, <1>4, <1>5 DEF KeysStand, SlugKey, Req
<1> QED
  BY <1>7, <1>8, <1>9, <1>10, <1>11, <1>12 DEF Stands

\* A step of one session that writes no table.
LEMMA Quiet ==
  ASSUME IInv, UNCHANGED tables, NEW s \in Sessions,
         JobsTyped', HeldTyped', LocksExclude',
         \A u \in Sessions \ {s} : job'[u] = job[u] /\ held'[u] = held[u],
         Stands(s)', KeysStand(s)'
  PROVE  IInv'
<1>1. \A u \in Sessions \ {s} : Stands(u)' /\ KeysStand(u)'
  BY Typed, SameStands
<1>2. TypeOK' <=> /\ active' \in Cycles \cup {None}
                  /\ activities' \in [Activities -> Cycles \cup {None, Gone}]
                  /\ checkpoints' \in [Checkpoints -> Rows \cup {None, Gone}]
                  /\ audit' \in [Activities \cup Checkpoints -> [created : Nat, deleted : Nat]]
                  /\ JobsTyped' /\ LocksExclude'
  BY DEF TypeOK, JobsTyped, LocksExclude
<1>3. TypeOK'
  BY <1>2, Typed DEF tables
<1>4. AuditExact' /\ UniqueSlugs'
  BY Same, Typed
<1>5. IInv' <=> /\ TypeOK' /\ HeldTyped' /\ AuditExact' /\ UniqueSlugs'
                /\ \A t \in Sessions : Stands(t)' /\ KeysStand(t)'
  BY DEF IInv
<1> QED
  BY <1>1, <1>3, <1>4, <1>5

\* Before its stages of the slug and the commit a request holds no entry of
\* the index.
LEMMA NoKeysYet ==
  ASSUME NEW s \in Sessions, KeysStand(s),
         job[s] = None \/ job[s].stage \notin {"slug", "commit"}
  PROVE  NoKeys(s)
BY DEF KeysStand, NoKeys, Claims, HasCheckpoint

LEMMA NoKeysStand ==
  ASSUME NEW s \in Sessions, NoKeys(s)'
  PROVE  KeysStand(s)'
BY DEF KeysStand, NoKeys

LEMMA KeepsNoKeys ==
  ASSUME NEW s \in Sessions, NoKeys(s), NEW S, held'[s] = held[s] \cup S,
         \A k \in S, cy \in Cycles, slug \in Slugs : k[1] # SlugKey(cy, slug)
  PROVE  NoKeys(s)'
<1> SUFFICES ASSUME NEW cy \in Cycles, NEW slug \in Slugs, NEW m \in Modes,
                    <<SlugKey(cy, slug), m>> \in held'[s]
             PROVE  FALSE
  BY DEF NoKeys, SlugKey
<1>1. <<SlugKey(cy, slug), m>> \in S
  BY DEF NoKeys
<1> QED
  BY <1>1

-------------------------------------------------------------------------------
(* Steps that write no table.                                              *)

\* What a job stands on, from its fields alone.
LEMMA StandsParts ==
  ASSUME NEW s \in Sessions, job'[s] # None, PathStands(s)', CycleStands(s)',
         ActivityStands(s)', CheckpointStands(s)', ClaimStands(s)'
  PROVE  Stands(s)'
BY DEF Stands

LEMMA AskKeeps ==
  ASSUME IInv, NEW s \in Sessions, Ask(s)
  PROVE  IInv'
<1>1. PICK req \in Requests :
        job' = [job EXCEPT ![s] = [req |-> req, stage |-> First(req), found |-> None,
                                   cycle |-> IF OfCycle(req) THEN req.cycle ELSE None]]
  BY DEF Ask
<1>2. job[s] = None /\ UNCHANGED tables /\ held' = held
  BY DEF Ask, tables
<1>3. /\ req.kind \in {"create_activity", "create_checkpoint", "enable_entrance"}
                      \cup OnActivity \cup OnCheckpoint
      /\ OfCycle(req) => req.cycle \in Cycles
  BY RequestTypes
<1>4. /\ First(req) \in Stages /\ First(req) \in Path(req.kind)
      /\ First(req) \in {"cycle", "activity", "read", "checkpoint"}
      /\ OfCycle(req) => First(req) = "cycle"
      /\ First(req) = "activity" => req.kind \in OnActivity
      /\ First(req) = "checkpoint" => req.kind = "delete_checkpoint"
      /\ req.kind = "update_checkpoint" => First(req) = "read"
  BY <1>3 DEF First, Path, Stages, OfCycle, OnActivity, OnCheckpoint
<1> DEFINE j == [req |-> req, stage |-> First(req), found |-> None,
                 cycle |-> IF OfCycle(req) THEN req.cycle ELSE None]
<1>5. /\ j \in Jobs /\ j.req = req /\ j.stage = First(req) /\ j.found = None
      /\ OfCycle(req) => j.cycle = req.cycle
  BY <1>3, <1>4 DEF Jobs
<1>6. job' = [job EXCEPT ![s] = j]
  BY <1>1
<1> HIDE DEF j
<1>7. /\ JobsTyped' /\ job'[s] = j /\ job'[s] # None
      /\ \A u \in Sessions \ {s} : job'[u] = job[u] /\ held'[u] = held[u]
  BY <1>2, <1>5, <1>6, Typed, NewJob
<1>8. Stands(s)'
  <2>1. PathStands(s)'
    BY <1>3, <1>4, <1>5, <1>7 DEF PathStands, Kind, Req, OnActivity, RefersTo
  <2>2. CycleStands(s)'
    BY <1>3, <1>4, <1>5, <1>7 DEF CycleStands, Kind, Req, OfCycle
  <2>3. ActivityStands(s)' /\ CheckpointStands(s)' /\ ClaimStands(s)'
    BY <1>3, <1>4, <1>5, <1>7 DEF ActivityStands, CheckpointStands, ClaimStands,
       HasCheckpoint, Claims, Kind, Req, RefersTo, OfCycle
  <2> QED
    BY <1>7, <2>1, <2>2, <2>3, StandsParts
<1>9. KeysStand(s)'
  <2>1. NoKeys(s)
    BY <1>2, Typed, NoKeysYet
  <2> QED
    BY <1>2, <2>1, NoKeysStand DEF NoKeys
<1>10. HeldTyped' /\ LocksExclude'
  BY <1>2, Typed DEF HeldTyped, LocksExclude
<1> QED
  BY <1>2, <1>7, <1>8, <1>9, <1>10, Quiet

LEMMA FreedStands ==
  ASSUME NEW s \in Sessions, job'[s] = None, held'[s] = {}
  PROVE  Stands(s)' /\ KeysStand(s)'
BY DEF Stands, KeysStand

\* A transaction that ends without a write.
LEMMA EndKeeps ==
  ASSUME IInv, NEW s \in Sessions, End(s), UNCHANGED tables
  PROVE  IInv'
<1>1. /\ JobsTyped' /\ HeldTyped' /\ LocksExclude' /\ job'[s] = None /\ held'[s] = {}
      /\ \A u \in Sessions \ {s} : job'[u] = job[u] /\ held'[u] = held[u]
  BY Typed, EndFrees
<1> QED
  BY <1>1, FreedStands, Quiet

LEMMA RefuseKeeps ==
  ASSUME IInv, NEW s \in Sessions, Refuse(s)
  PROVE  IInv'
BY EndKeeps DEF Refuse, tables

LEMMA UpdateActivityKeeps ==
  ASSUME IInv, NEW s \in Sessions, UpdateActivity(s)
  PROVE  IInv'
BY EndKeeps DEF UpdateActivity, tables

\* lockCycle, and EnableEntrance's FOR UPDATE of the cycle.
LEMMA LockCycleKeeps ==
  ASSUME IInv, NEW s \in Sessions, LockCycle(s)
  PROVE  IInv'
<1>1. /\ job[s] # None /\ job[s].stage = "cycle" /\ UNCHANGED tables /\ Acquire(s)
      /\ Kind(s) = "enable_entrance" => active = Req(s).cycle
      /\ Move(s, AfterCycle(s))
  BY DEF LockCycle, At, tables
<1>2. /\ JobsTyped /\ HeldTyped /\ LocksExclude /\ PathStands(s) /\ NoKeys(s)
  BY <1>1, Typed, NoKeysYet DEF Stands
<1>3. /\ Kind(s) \in {"create_activity", "create_checkpoint", "enable_entrance"}
      /\ job[s].cycle = Req(s).cycle /\ Req(s).cycle \in Cycles
      /\ Kind(s) = "create_checkpoint" => Req(s).activity \in Activities \cup {None}
  BY <1>1, <1>2, JobTypes, RequestTypes
     DEF PathStands, Path, Kind, Req, OfCycle, OnActivity, OnCheckpoint, RefersTo
<1>4. Needs(s) = {<<CycleRow(Req(s).cycle), CycleMode(s)>>}
  BY <1>1 DEF Needs
<1>5. CycleMode(s) \in Modes /\ CycleRow(Req(s).cycle) \in LockRows
  BY <1>3, ModesKnown DEF CycleMode, LockRows
<1>6. /\ HeldTyped' /\ LocksExclude' /\ held'[s] = held[s] \cup Needs(s)
      /\ \A u \in Sessions \ {s} : held'[u] = held[u]
  BY <1>1, <1>2, <1>4, <1>5, AcquireTakes
<1>7. /\ AfterCycle(s) \in Stages /\ AfterCycle(s) \in Path(Kind(s))
      /\ AfterCycle(s) # "cycle"
      /\ Kind(s) = "create_activity" => AfterCycle(s) = "commit"
      /\ Kind(s) = "enable_entrance" => AfterCycle(s) = "entrance"
      /\ Kind(s) = "create_checkpoint" =>
           AfterCycle(s) = IF Req(s).activity = None THEN "slug" ELSE "activity"
  BY <1>3 DEF AfterCycle, Stages, Path
<1>8. /\ JobsTyped' /\ job'[s] # None /\ job'[s].req = job[s].req
      /\ job'[s].stage = AfterCycle(s)
      /\ job'[s].cycle = job[s].cycle /\ job'[s].found = job[s].found
      /\ \A u \in Sessions \ {s} : job'[u] = job[u]
  BY <1>1, <1>2, <1>7, MoveTypes
<1>9. job[s].found = None
  BY <1>1, <1>2 DEF PathStands
<1>10. <<CycleRow(Req(s).cycle), CycleMode(s)>> \in held'[s]
  BY <1>4, <1>6
<1>11. Stands(s)'
  <2>1. PathStands(s)'
    BY <1>2, <1>3, <1>7, <1>8, <1>9 DEF PathStands, Kind, Req, OfCycle, RefersTo
  <2>2. CycleStands(s)'
    BY <1>1, <1>3, <1>7, <1>8, <1>10 DEF CycleStands, CycleMode, Kind, Req, tables, CycleRow
  <2>3. ActivityStands(s)' /\ CheckpointStands(s)' /\ ClaimStands(s)'
    BY <1>3, <1>7, <1>8 DEF ActivityStands, CheckpointStands, ClaimStands,
       HasCheckpoint, Claims, Kind, Req, RefersTo
  <2> QED
    BY <1>8, <2>1, <2>2, <2>3, StandsParts
<1>12. KeysStand(s)'
  <2>1. \A k \in Needs(s), cy \in Cycles, slug \in Slugs : k[1] # SlugKey(cy, slug)
    BY <1>4, RowsDiffer
  <2> QED
    BY <1>2, <1>6, <2>1, KeepsNoKeys, NoKeysStand
<1> QED
  BY <1>1, <1>6, <1>8, <1>11, <1>12, Quiet

\* UpdateCheckpoint's read of the cycle.
LEMMA ReadCycleKeeps ==
  ASSUME IInv, NEW s \in Sessions, ReadCycle(s)
  PROVE  IInv'
<1> DEFINE c == Req(s).checkpoint
           j == [job[s] EXCEPT !.cycle = checkpoints[c].cycle, !.stage = UpdateOrder(s, "read")]
<1>1. /\ job[s] # None /\ job[s].stage = "read" /\ c \in Existing
      /\ UNCHANGED tables /\ held' = held
      /\ job' = [job EXCEPT ![s] = j]
  BY Typed DEF ReadCycle, At, tables, JobsTyped
<1>2. JobsTyped /\ HeldTyped /\ LocksExclude /\ PathStands(s) /\ NoKeys(s)
  BY <1>1, Typed, NoKeysYet DEF Stands
<1>3. Kind(s) = "update_checkpoint" /\ Req(s).activity \in Activities \cup {None}
  BY <1>1, <1>2, JobTypes, RequestTypes
     DEF PathStands, Path, Kind, Req, OnActivity, OnCheckpoint, RefersTo
<1>4. UpdateOrder(s, "read") = IF Req(s).activity = None THEN "checkpoint" ELSE "activity"
  BY DEF UpdateOrder
<1>5. checkpoints[c].cycle \in Cycles /\ checkpoints[c] # None
  BY <1>1, RowTypes, Absent
<1>6. /\ j \in Jobs /\ j.req = job[s].req /\ j.stage = UpdateOrder(s, "read")
      /\ j.cycle = checkpoints[c].cycle /\ j.found = job[s].found
  BY <1>1, <1>2, <1>4, <1>5, JobTypes DEF Jobs, Stages
<1> HIDE DEF j
<1>7. /\ JobsTyped' /\ job'[s] = j /\ job'[s] # None
      /\ \A u \in Sessions \ {s} : job'[u] = job[u]
  BY <1>1, <1>2, <1>6, NewJob
<1>8. job[s].found = None
  BY <1>1, <1>2 DEF PathStands
<1>9. Stands(s)'
  <2>1. PathStands(s)'
    BY <1>1, <1>3, <1>4, <1>5, <1>6, <1>7, <1>8
       DEF PathStands, Path, Kind, Req, OfCycle, RefersTo, tables
  <2>2. CycleStands(s)'
    BY <1>3, <1>6, <1>7 DEF CycleStands, Kind, Req
  <2>3. job'[s].req = job[s].req /\ job'[s].stage \in {"checkpoint", "activity"}
        /\ (job'[s].stage = "checkpoint" => Req(s).activity = None)
    BY <1>4, <1>6, <1>7
  <2>4. ActivityStands(s)' /\ CheckpointStands(s)' /\ ClaimStands(s)'
    BY <1>3, <2>3 DEF ActivityStands, CheckpointStands, ClaimStands,
       HasCheckpoint, Claims, Kind, Req
  <2> QED
    BY <1>7, <2>1, <2>2, <2>4, StandsParts
<1>10. KeysStand(s)'
  BY <1>1, <1>2, NoKeysStand DEF NoKeys
<1>11. HeldTyped' /\ LocksExclude'
  BY <1>1, <1>2 DEF HeldTyped, LocksExclude
<1> QED
  BY <1>1, <1>7, <1>9, <1>10, <1>11, Quiet

\* lockActivityInCycle, and the FOR UPDATE of an activity that is changed.
LEMMA LockActivityKeeps ==
  ASSUME IInv, NEW s \in Sessions, LockActivity(s)
  PROVE  IInv'
<1> DEFINE a == Req(s).activity
<1>1. /\ job[s] # None /\ job[s].stage = "activity" /\ UNCHANGED tables /\ Acquire(s)
      /\ activities[a] \in CyclesWanted(s)
      /\ Move(s, AfterActivity(s))
  BY DEF LockActivity, At, tables
<1>2. /\ JobsTyped /\ HeldTyped /\ LocksExclude
      /\ PathStands(s) /\ CycleStands(s) /\ NoKeys(s)
  BY <1>1, Typed, NoKeysYet DEF Stands
<1>3. /\ Kind(s) \in OnActivity \cup RefersTo /\ a \in Activities
      /\ Kind(s) \in RefersTo => a # None
  BY <1>1, <1>2, JobTypes, RequestTypes
     DEF PathStands, Path, Kind, Req, OnActivity, OnCheckpoint, RefersTo
<1> DEFINE mode == IF Kind(s) \in OnActivity THEN "update" ELSE "key_share"
<1>4. Needs(s) = {<<ActivityRow(a), mode>>}
  BY <1>1 DEF Needs, OnActivity
<1>5. mode \in Modes /\ ActivityRow(a) \in LockRows
  BY <1>3, ModesKnown DEF LockRows
<1>6. /\ HeldTyped' /\ LocksExclude' /\ held'[s] = held[s] \cup Needs(s)
      /\ \A u \in Sessions \ {s} : held'[u] = held[u]
  BY <1>1, <1>2, <1>4, <1>5, AcquireTakes
<1>7. /\ AfterActivity(s) \in Stages /\ AfterActivity(s) \in Path(Kind(s))
      /\ AfterActivity(s) \notin {"activity", "cycle", "read", "recheck"}
      /\ Kind(s) = "update_activity" => AfterActivity(s) = "commit"
      /\ Kind(s) = "delete_activity" => AfterActivity(s) = "references"
      /\ Kind(s) = "create_checkpoint" => AfterActivity(s) = "slug"
      /\ Kind(s) = "update_checkpoint" => AfterActivity(s) = "checkpoint"
  BY <1>3 DEF AfterActivity, UpdateOrder, Stages, Path, OnActivity, RefersTo
<1>8. /\ JobsTyped' /\ job'[s] # None /\ job'[s].req = job[s].req
      /\ job'[s].stage = AfterActivity(s)
      /\ job'[s].cycle = job[s].cycle /\ job'[s].found = job[s].found
      /\ \A u \in Sessions \ {s} : job'[u] = job[u]
  BY <1>1, <1>2, <1>7, MoveTypes
<1>9. job[s].found = None
  BY <1>1, <1>2 DEF PathStands
<1>10. <<ActivityRow(a), mode>> \in held'[s] /\ held[s] \subseteq held'[s]
  BY <1>4, <1>6
<1>11. Stands(s)'
  <2>1. PathStands(s)'
    BY <1>1, <1>2, <1>3, <1>7, <1>8, <1>9
       DEF PathStands, Kind, Req, OfCycle, RefersTo, OnActivity, tables, Existing
  <2>2. CycleStands(s)'
    BY <1>1, <1>2, <1>3, <1>7, <1>8, <1>10 DEF CycleStands, Kind, Req, CycleRow, OnActivity, RefersTo
  <2>3. ActivityStands(s)'
    BY <1>1, <1>3, <1>7, <1>8, <1>10
       DEF ActivityStands, CyclesWanted, Kind, Req, OnActivity, RefersTo, tables, ActivityRow
  <2>4. CheckpointStands(s)' /\ ClaimStands(s)'
    BY <1>3, <1>7, <1>8 DEF CheckpointStands, ClaimStands, HasCheckpoint, Claims, Kind, Req,
       OnActivity, RefersTo
  <2> QED
    BY <1>8, <2>1, <2>2, <2>3, <2>4, StandsParts
<1>12. KeysStand(s)'
  <2>1. \A k \in Needs(s), cy \in Cycles, slug \in Slugs : k[1] # SlugKey(cy, slug)
    BY <1>4, RowsDiffer
  <2> QED
    BY <1>2, <1>6, <2>1, KeepsNoKeys, NoKeysStand
<1> QED
  BY <1>1, <1>6, <1>8, <1>11, <1>12, Quiet

\* ON DELETE RESTRICT.
LEMMA CheckReferencesKeeps ==
  ASSUME IInv, NEW s \in Sessions, CheckReferences(s)
  PROVE  IInv'
<1> DEFINE a == Req(s).activity
<1>1. /\ job[s] # None /\ job[s].stage = "references" /\ UNCHANGED tables /\ held' = held
      /\ Needs(s) = {} /\ Move(s, "commit")
  BY DEF CheckReferences, At, tables
<1>2. /\ JobsTyped /\ HeldTyped /\ LocksExclude /\ PathStands(s) /\ ActivityStands(s) /\ NoKeys(s)
  BY <1>1, Typed, NoKeysYet DEF Stands
<1>3. Kind(s) = "delete_activity" /\ a \in Activities
  BY <1>1, <1>2, JobTypes, RequestTypes
     DEF PathStands, Path, Kind, Req, OnActivity, OnCheckpoint, RefersTo
<1>4. \A c \in Existing : checkpoints[c].activity # a
  <2>1. Needs(s) = {<<CheckpointRow(c), "key_share">> :
                      c \in {d \in Existing : checkpoints[d].activity = a}}
    BY <1>1 DEF Needs
  <2> QED
    BY <1>1, <2>1
<1>5. /\ JobsTyped' /\ job'[s] # None /\ job'[s].req = job[s].req
      /\ job'[s].stage = "commit"
      /\ job'[s].cycle = job[s].cycle /\ job'[s].found = job[s].found
      /\ \A u \in Sessions \ {s} : job'[u] = job[u]
  BY <1>1, <1>2, MoveTypes DEF Stages
<1>6. job[s].found = None
  BY <1>1, <1>2 DEF PathStands
<1>7. Stands(s)'
  <2>1. PathStands(s)' /\ CycleStands(s)'
    BY <1>3, <1>5, <1>6 DEF PathStands, CycleStands, Path, Kind, Req, OfCycle, RefersTo
  <2>2. ActivityStands(s)'
    BY <1>1, <1>2, <1>3, <1>4, <1>5
       DEF ActivityStands, Kind, Req, RefersTo, tables, Existing, ActivityRow
  <2>3. CheckpointStands(s)' /\ ClaimStands(s)'
    BY <1>3, <1>5 DEF CheckpointStands, ClaimStands, HasCheckpoint, Claims, Kind, Req
  <2> QED
    BY <1>5, <2>1, <2>2, <2>3, StandsParts
<1>8. KeysStand(s)'
  BY <1>1, <1>2, NoKeysStand DEF NoKeys
<1>9. HeldTyped' /\ LocksExclude'
  BY <1>1, <1>2 DEF HeldTyped, LocksExclude
<1> QED
  BY <1>1, <1>5, <1>7, <1>8, <1>9, Quiet

\* Who may hold the index entry of a checkpoint that exists: only who has that
\* checkpoint locked.
LEMMA KeyOfRow ==
  ASSUME IInv, NEW u \in Sessions, NEW c \in Existing, NEW m \in Modes,
         <<SlugKey(checkpoints[c].cycle, checkpoints[c].slug), m>> \in held[u]
  PROVE  <<CheckpointRow(c), "update">> \in held[u]
<1>1. /\ checkpoints[c].cycle \in Cycles /\ checkpoints[c].slug \in Slugs
  BY RowTypes
<1>2. job[u] # None /\ KeysStand(u) /\ ClaimStands(u) /\ CheckpointStands(u)
  <2>1. KeysStand(u) /\ Stands(u)
    BY Typed
  <2>2. job[u] # None
    BY <1>1, <2>1 DEF KeysStand
  <2> QED
    BY <2>1, <2>2 DEF Stands
<1>3. CASE /\ Claims(u) /\ checkpoints[c].cycle = job[u].cycle
           /\ checkpoints[c].slug = Slug(u)
  BY <1>2, <1>3 DEF ClaimStands, SlugFree, InCycle
<1>4. CASE /\ HasCheckpoint(u)
           /\ checkpoints[c].cycle = checkpoints[Req(u).checkpoint].cycle
           /\ checkpoints[c].slug = checkpoints[Req(u).checkpoint].slug
  <2>1. /\ <<CheckpointRow(Req(u).checkpoint), "update">> \in held[u]
        /\ Req(u).checkpoint \in Existing
    BY <1>2, <1>4 DEF CheckpointStands
  <2>2. Req(u).checkpoint = c
    BY <1>4, <2>1, Typed DEF UniqueSlugs
  <2> QED
    BY <2>1, <2>2
<1> QED
  BY <1>1, <1>2, <1>3, <1>4 DEF KeysStand

\* SELECT ... FOR UPDATE of the checkpoint, and the index entry that goes with
\* what is to become of it.
LEMMA LockCheckpointKeeps ==
  ASSUME IInv, NEW s \in Sessions, LockCheckpoint(s)
  PROVE  IInv'
<1> DEFINE c == Req(s).checkpoint
           row == checkpoints[c]
           next == IF Kind(s) = "update_checkpoint" THEN UpdateOrder(s, "checkpoint") ELSE "commit"
           S == Needs(s) \cup OldKey(s)
<1>1. /\ job[s] # None /\ job[s].stage = "checkpoint" /\ UNCHANGED tables
      /\ \A need \in Needs(s) : Grantable(held, s, need[1], need[2])
      /\ c \in Existing
      /\ held' = [held EXCEPT ![s] = @ \cup Needs(s) \cup OldKey(s)]
      /\ Move(s, next)
  BY DEF LockCheckpoint, At, tables
<1>2. /\ JobsTyped /\ HeldTyped /\ LocksExclude
      /\ PathStands(s) /\ CycleStands(s) /\ ActivityStands(s) /\ NoKeys(s)
  BY <1>1, Typed, NoKeysYet DEF Stands
<1>3. /\ Kind(s) \in OnCheckpoint /\ c \in Checkpoints
      /\ Kind(s) = "update_checkpoint" => Req(s).slug \in Slugs
  BY <1>1, <1>2, JobTypes, RequestTypes
     DEF PathStands, Path, Kind, Req, OnActivity, OnCheckpoint, RefersTo
<1>4. row \in Rows /\ row.cycle \in Cycles /\ row.slug \in Slugs
  BY <1>1, RowTypes
<1>5. Needs(s) = {<<CheckpointRow(c), "update">>}
  BY <1>1 DEF Needs
<1>6. OldKey(s) \subseteq {<<SlugKey(row.cycle, row.slug), "update">>}
  BY DEF OldKey
<1>7. S \in SUBSET (LockRows \X Modes)
  <2>1. /\ CheckpointRow(c) \in LockRows /\ SlugKey(row.cycle, row.slug) \in LockRows
    BY <1>3, <1>4 DEF LockRows
  <2> QED
    BY <1>5, <1>6, <2>1, ModesKnown
<1>8. ASSUME NEW u \in Sessions \ {s}, NEW l \in held[u], NEW k \in S, l[1] = k[1]
      PROVE  Compatible(l[2], k[2])
  <2>1. CASE k \in Needs(s)
    BY <1>1, <1>2, <1>8, <2>1, Granted
  <2>2. CASE k = <<SlugKey(row.cycle, row.slug), "update">>
    <3>1. l[2] \in Modes /\ l = <<SlugKey(row.cycle, row.slug), l[2]>>
      BY <1>2, <1>8, <2>2 DEF HeldTyped
    <3>2. <<CheckpointRow(c), "update">> \in held[u]
      BY <1>1, <3>1, KeyOfRow
    <3>3. Grantable(held, s, CheckpointRow(c), "update")
      BY <1>1, <1>5
    <3>4. Compatible("update", "update")
      <4> DEFINE h == <<CheckpointRow(c), "update">>
      <4>1. h \in held[u] /\ h[1] = CheckpointRow(c) /\ h[2] = "update"
        BY <3>2
      <4> HIDE DEF h
      <4> QED
        BY <1>2, <3>3, <4>1, Granted
    <3> QED
      BY <3>4 DEF Compatible
  <2> QED
    BY <1>6, <2>1, <2>2
<1>9. /\ HeldTyped' /\ LocksExclude' /\ held'[s] = held[s] \cup S
      /\ \A u \in Sessions \ {s} : held'[u] = held[u]
  <2>1. held' = [held EXCEPT ![s] = @ \cup S]
    BY <1>1, <1>2 DEF HeldTyped
  <2> HIDE DEF S
  <2> QED
    BY <1>2, <1>7, <1>8, <2>1, Take
<1>10. next = IF Kind(s) = "update_checkpoint" /\ Renames(s) THEN "slug" ELSE "commit"
  BY DEF UpdateOrder
<1>11. next \in Stages
  BY <1>10 DEF Stages
<1>12. /\ JobsTyped' /\ job'[s] # None /\ job'[s].req = job[s].req
       /\ job'[s].stage = next
       /\ job'[s].cycle = job[s].cycle /\ job'[s].found = job[s].found
       /\ \A u \in Sessions \ {s} : job'[u] = job[u]
  <2> HIDE DEF next
  <2> QED
    BY <1>1, <1>2, <1>11, MoveTypes
<1> HIDE DEF next
<1>13. job[s].found = None
  BY <1>1, <1>2 DEF PathStands
<1>14. /\ <<CheckpointRow(c), "update">> \in held'[s] /\ held[s] \subseteq held'[s]
  BY <1>5, <1>9
<1>15. Renames(s)' <=> Renames(s)
  BY <1>1, <1>12 DEF Renames, Kind, Req, tables
<1>16. Stands(s)'
  <2>1. PathStands(s)'
    BY <1>1, <1>2, <1>3, <1>10, <1>12, <1>13
       DEF PathStands, Path, Kind, Req, OfCycle, OnCheckpoint, tables, Existing
  <2>2. CycleStands(s)'
    BY <1>3, <1>12 DEF CycleStands, Kind, Req, OnCheckpoint
  <2>3. ActivityStands(s)'
    BY <1>1, <1>2, <1>3, <1>10, <1>12, <1>14
       DEF ActivityStands, Kind, Req, OnCheckpoint, tables, ActivityRow
  <2>4. CheckpointStands(s)'
    BY <1>1, <1>3, <1>10, <1>12, <1>14, <1>15
       DEF CheckpointStands, Kind, Req, OnCheckpoint, tables, Existing, CheckpointRow
  <2>5. ClaimStands(s)'
    BY <1>3, <1>10, <1>12, <1>15 DEF ClaimStands, Claims, Kind, Req, OnCheckpoint
  <2> QED
    BY <1>12, <2>1, <2>2, <2>3, <2>4, <2>5, StandsParts
<1>17. KeysStand(s)'
  <2> SUFFICES ASSUME NEW cy \in Cycles, NEW slug \in Slugs, NEW m \in Modes,
                      <<SlugKey(cy, slug), m>> \in held'[s]
               PROVE  /\ HasCheckpoint(s)' /\ cy = row.cycle /\ slug = row.slug
    BY <1>1, <1>12 DEF KeysStand, SlugKey, Req, tables
  <2>1. <<SlugKey(cy, slug), m>> \in S
    BY <1>2, <1>9 DEF NoKeys
  <2>2. <<SlugKey(cy, slug), m>> \notin Needs(s)
    BY <1>5, RowsDiffer
  <2>3. cy = row.cycle /\ slug = row.slug
    BY <1>4, <1>6, <2>1, <2>2, RowsDiffer
  <2>4. HasCheckpoint(s)'
    BY <1>3, <1>10, <1>12 DEF HasCheckpoint, Kind, Req, OnCheckpoint
  <2> QED
    BY <2>3, <2>4
<1> QED
  BY <1>1, <1>9, <1>12, <1>16, <1>17, Quiet

\* The unique index on (cycle, slug).
LEMMA ClaimSlugKeeps ==
  ASSUME IInv, NEW s \in Sessions, ClaimSlug(s)
  PROVE  IInv'
<1> DEFINE key == SlugKey(job[s].cycle, Slug(s))
<1>1. /\ job[s] # None /\ job[s].stage = "slug" /\ UNCHANGED tables /\ Acquire(s)
      /\ SlugFree(s) /\ Move(s, "commit")
  BY DEF ClaimSlug, At, tables
<1>2. /\ JobsTyped /\ HeldTyped /\ LocksExclude /\ KeysStand(s)
      /\ PathStands(s) /\ CycleStands(s) /\ ActivityStands(s) /\ CheckpointStands(s)
  BY <1>1, Typed DEF Stands
<1>3. /\ Kind(s) \in {"create_checkpoint", "update_checkpoint", "enable_entrance"}
      /\ job[s].cycle \in Cycles /\ job[s].found = None
  BY <1>1, <1>2, JobTypes, RequestTypes
     DEF PathStands, Path, Kind, Req, OnActivity, OnCheckpoint, RefersTo, OfCycle
<1>4. Slug(s) \in Slugs
  BY <1>1, <1>2, <1>3, JobTypes, RequestTypes, EntranceAssumption DEF Slug, Kind, Req, RefersTo
<1>5. Needs(s) = {<<key, "update">>}
  BY <1>1 DEF Needs
<1>6. key \in LockRows
  BY <1>3, <1>4 DEF LockRows
<1>7. /\ HeldTyped' /\ LocksExclude' /\ held'[s] = held[s] \cup Needs(s)
      /\ \A u \in Sessions \ {s} : held'[u] = held[u]
  <2>1. Needs(s) \in SUBSET (LockRows \X Modes)
    BY <1>5, <1>6, ModesKnown
  <2> QED
    BY <1>1, <1>2, <2>1, AcquireTakes
<1>8. /\ JobsTyped' /\ job'[s] # None /\ job'[s].req = job[s].req
      /\ job'[s].stage = "commit"
      /\ job'[s].cycle = job[s].cycle /\ job'[s].found = job[s].found
      /\ \A u \in Sessions \ {s} : job'[u] = job[u]
  BY <1>1, <1>2, MoveTypes DEF Stages
<1>9. <<key, "update">> \in held'[s] /\ held[s] \subseteq held'[s]
  BY <1>5, <1>7
<1>10. /\ Renames(s)' <=> Renames(s)
       /\ Slug(s)' = Slug(s) /\ SlugFree(s)' /\ Existing' = Existing
  BY <1>1, <1>8 DEF Renames, Slug, SlugFree, InCycle, Existing, Kind, Req, tables
<1>11. Kind(s) = "update_checkpoint" => HasCheckpoint(s) /\ Renames(s)
  BY <1>1, <1>2 DEF CheckpointStands, HasCheckpoint
<1>12. Claims(s)'
  BY <1>3, <1>8, <1>10, <1>11 DEF Claims, Kind, Req
<1>13. Stands(s)'
  <2>1. PathStands(s)'
    BY <1>1, <1>2, <1>3, <1>8, <1>10 DEF PathStands, Path, Kind, Req, OfCycle, tables
  <2>2. CycleStands(s)'
    BY <1>1, <1>2, <1>3, <1>8, <1>9, <1>10
       DEF CycleStands, Kind, Req, CycleRow, InCycle, tables
  <2>3. ActivityStands(s)'
    BY <1>1, <1>2, <1>3, <1>8, <1>9 DEF ActivityStands, Kind, Req, tables, ActivityRow
  <2>4. CheckpointStands(s)'
    BY <1>1, <1>2, <1>3, <1>8, <1>9, <1>10, <1>11
       DEF CheckpointStands, HasCheckpoint, Kind, Req, CheckpointRow
  <2>5. ClaimStands(s)'
    BY <1>8, <1>9, <1>10 DEF ClaimStands, SlugKey
  <2> QED
    BY <1>8, <2>1, <2>2, <2>3, <2>4, <2>5, StandsParts
<1>14. KeysStand(s)'
  <2> SUFFICES ASSUME NEW cy \in Cycles, NEW slug \in Slugs, NEW m \in Modes,
                      <<SlugKey(cy, slug), m>> \in held'[s]
               PROVE  \/ cy = job[s].cycle /\ slug = Slug(s)
                      \/ /\ HasCheckpoint(s)'
                         /\ cy = checkpoints[Req(s).checkpoint].cycle
                         /\ slug = checkpoints[Req(s).checkpoint].slug
    BY <1>1, <1>8, <1>10, <1>12 DEF KeysStand, SlugKey, Req, tables
  <2>1. CASE <<SlugKey(cy, slug), m>> \in Needs(s)
    BY <1>3, <1>4, <1>5, <2>1, RowsDiffer
  <2>2. CASE <<SlugKey(cy, slug), m>> \in held[s]
    <3>1. /\ HasCheckpoint(s)
          /\ cy = checkpoints[Req(s).checkpoint].cycle
          /\ slug = checkpoints[Req(s).checkpoint].slug
      BY <1>1, <1>2, <2>2 DEF KeysStand, Claims
    <3> QED
      BY <1>1, <1>8, <3>1 DEF HasCheckpoint, Kind, Req
  <2> QED
    BY <1>7, <2>1, <2>2
<1> QED
  BY <1>1, <1>7, <1>8, <1>13, <1>14, Quiet

\* EnableEntrance moves on without a lock of the index.
LEMMA EntranceMoves ==
  ASSUME IInv, NEW s \in Sessions, job[s] # None, Kind(s) = "enable_entrance",
         job[s].stage \in {"entrance", "recheck", "configured"}, UNCHANGED tables,
         JobsTyped', HeldTyped', LocksExclude',
         \A u \in Sessions \ {s} : job'[u] = job[u] /\ held'[u] = held[u],
         NoKeys(s)', held[s] \subseteq held'[s],
         job'[s] # None, job'[s].req = job[s].req, job'[s].cycle = job[s].cycle,
         job'[s].stage \in {"recheck", "configured", "slug", "commit"},
         job'[s].stage = "recheck" => job'[s].found # None,
         job'[s].found # None => job'[s].stage \in {"recheck", "commit"},
         job'[s].stage = "commit" => job'[s].found # None,
         job'[s].stage = "slug" => InCycle(Req(s).cycle) = {}
  PROVE  IInv'
<1>1. PathStands(s) /\ CycleStands(s)
  BY Typed DEF Stands
<1>2. PathStands(s)'
  BY <1>1 DEF PathStands, Path, Kind, Req, OfCycle, RefersTo
<1>3. CycleStands(s)'
  BY <1>1 DEF CycleStands, Kind, Req, CycleRow, InCycle, Existing, tables
<1>4. ActivityStands(s)' /\ CheckpointStands(s)' /\ ClaimStands(s)'
  BY DEF ActivityStands, CheckpointStands, ClaimStands, HasCheckpoint, Claims, Kind, Req, RefersTo
<1>5. Stands(s)'
  BY <1>2, <1>3, <1>4, StandsParts
<1> QED
  BY <1>5, NoKeysStand, Quiet

\* Stages that only requests for the entrance have.
LEMMA OfEntrance ==
  ASSUME IInv, NEW s \in Sessions, job[s] # None,
         job[s].stage \in {"entrance", "recheck", "configured"}
  PROVE  /\ Kind(s) = "enable_entrance" /\ NoKeys(s)
         /\ job[s].stage = "recheck" => job[s].found \in Checkpoints
         /\ job[s].stage # "recheck" => job[s].found = None
<1>1. PathStands(s) /\ KeysStand(s) /\ JobsTyped
  BY Typed DEF Stands
<1>2. Kind(s) = "enable_entrance"
  BY <1>1, JobTypes, RequestTypes DEF PathStands, Path, Kind, Req, OnActivity, OnCheckpoint
<1> QED
  BY <1>1, <1>2, JobTypes, NoKeysYet DEF PathStands

LEMMA LookForEntranceKeeps ==
  ASSUME IInv, NEW s \in Sessions, LookForEntrance(s)
  PROVE  IInv'
<1>1. /\ job[s] # None /\ job[s].stage = "entrance" /\ UNCHANGED tables /\ held' = held
      /\ \/ Move(s, "configured")
         \/ \E c \in Existing :
              job' = [job EXCEPT ![s].stage = "recheck", ![s].found = c]
  BY DEF LookForEntrance, At, tables, InCycle
<1>2. JobsTyped /\ HeldTyped /\ LocksExclude
  BY Typed
<1>3. Kind(s) = "enable_entrance" /\ NoKeys(s) /\ job[s].found = None
  BY <1>1, OfEntrance
<1>4. NoKeys(s)' /\ HeldTyped' /\ LocksExclude'
  BY <1>1, <1>2, <1>3 DEF NoKeys, HeldTyped, LocksExclude
<1>5. CASE Move(s, "configured")
  <2>1. /\ JobsTyped' /\ job'[s] # None /\ job'[s].req = job[s].req
        /\ job'[s].stage = "configured"
        /\ job'[s].cycle = job[s].cycle /\ job'[s].found = job[s].found
        /\ \A u \in Sessions \ {s} : job'[u] = job[u]
    BY <1>1, <1>2, <1>5, MoveTypes DEF Stages
  <2> QED
    BY <1>1, <1>3, <1>4, <2>1, EntranceMoves
<1>6. ASSUME NEW c \in Existing, job' = [job EXCEPT ![s].stage = "recheck", ![s].found = c]
      PROVE  IInv'
  <2> DEFINE j == [job[s] EXCEPT !.stage = "recheck", !.found = c]
  <2>1. c \in Checkpoints /\ c # None
    BY RowTypes, Absent
  <2>2. /\ j \in Jobs /\ j.req = job[s].req /\ j.stage = "recheck"
        /\ j.cycle = job[s].cycle /\ j.found = c
    BY <1>1, <1>2, <2>1, JobTypes DEF Jobs, Stages
  <2>3. job' = [job EXCEPT ![s] = j]
    BY <1>2, <1>6 DEF JobsTyped
  <2> HIDE DEF j
  <2>4. /\ JobsTyped' /\ job'[s] = j /\ job'[s] # None
        /\ \A u \in Sessions \ {s} : job'[u] = job[u]
    BY <1>2, <2>2, <2>3, NewJob
  <2> QED
    BY <1>1, <1>3, <1>4, <2>1, <2>2, <2>4, EntranceMoves
<1> QED
  BY <1>1, <1>5, <1>6

LEMMA RecheckEntranceKeeps ==
  ASSUME IInv, NEW s \in Sessions, RecheckEntrance(s)
  PROVE  IInv'
<1> DEFINE c == job[s].found
           stays == c \in Existing /\ checkpoints[c].slug = Entrance
           j == [job[s] EXCEPT !.stage = IF stays THEN "commit" ELSE "configured",
                               !.found = IF stays THEN c ELSE None]
<1>1. /\ job[s] # None /\ job[s].stage = "recheck" /\ UNCHANGED tables /\ Acquire(s)
      /\ job' = [job EXCEPT ![s] = j]
  BY Typed DEF RecheckEntrance, At, tables, JobsTyped
<1>2. JobsTyped /\ HeldTyped /\ LocksExclude
  BY Typed
<1>3. Kind(s) = "enable_entrance" /\ NoKeys(s) /\ c \in Checkpoints
  BY <1>1, OfEntrance
<1>4. Needs(s) = {<<CheckpointRow(c), "update">>}
  BY <1>1 DEF Needs
<1>5. Needs(s) \in SUBSET (LockRows \X Modes)
  BY <1>3, <1>4, ModesKnown DEF LockRows
<1>6. /\ HeldTyped' /\ LocksExclude' /\ held'[s] = held[s] \cup Needs(s)
      /\ \A u \in Sessions \ {s} : held'[u] = held[u]
  BY <1>1, <1>2, <1>5, AcquireTakes
<1>7. NoKeys(s)'
  <2>1. \A k \in Needs(s), cy \in Cycles, slug \in Slugs : k[1] # SlugKey(cy, slug)
    BY <1>4, RowsDiffer
  <2> QED
    BY <1>3, <1>6, <2>1, KeepsNoKeys
<1>8. /\ j \in Jobs /\ j.req = job[s].req /\ j.cycle = job[s].cycle
      /\ j.stage = IF stays THEN "commit" ELSE "configured"
      /\ j.found = IF stays THEN c ELSE None
  BY <1>1, <1>2, <1>3, JobTypes DEF Jobs, Stages
<1>9. c # None
  BY <1>3, Absent
<1> HIDE DEF j
<1>10. /\ JobsTyped' /\ job'[s] = j /\ job'[s] # None
       /\ \A u \in Sessions \ {s} : job'[u] = job[u]
  BY <1>1, <1>2, <1>8, NewJob
<1> QED
  BY <1>1, <1>3, <1>6, <1>7, <1>8, <1>9, <1>10, EntranceMoves

LEMMA CheckUnconfiguredKeeps ==
  ASSUME IInv, NEW s \in Sessions, CheckUnconfigured(s)
  PROVE  IInv'
<1>1. /\ job[s] # None /\ job[s].stage = "configured" /\ UNCHANGED tables /\ held' = held
      /\ InCycle(Req(s).cycle) = {} /\ Move(s, "slug")
  BY DEF CheckUnconfigured, At, tables
<1>2. JobsTyped /\ HeldTyped /\ LocksExclude
  BY Typed
<1>3. Kind(s) = "enable_entrance" /\ NoKeys(s) /\ job[s].found = None
  BY <1>1, OfEntrance
<1>4. NoKeys(s)' /\ HeldTyped' /\ LocksExclude'
  BY <1>1, <1>2, <1>3 DEF NoKeys, HeldTyped, LocksExclude
<1>5. /\ JobsTyped' /\ job'[s] # None /\ job'[s].req = job[s].req
      /\ job'[s].stage = "slug"
      /\ job'[s].cycle = job[s].cycle /\ job'[s].found = job[s].found
      /\ \A u \in Sessions \ {s} : job'[u] = job[u]
  BY <1>1, <1>2, MoveTypes DEF Stages
<1> QED
  BY <1>1, <1>3, <1>4, <1>5, EntranceMoves

-------------------------------------------------------------------------------
(* Commits: what a change of the tables leaves standing in others.         *)

\* s changes only activities that are new or that it has locked.
ActivitiesChange(s) ==
  \A a \in Activities :
    \/ activities'[a] = activities[a]
    \/ activities[a] = None
    \/ <<ActivityRow(a), "update">> \in held[s]

\* s makes a checkpoint of a cycle that it shares or has, or changes one that
\* it has locked; the activity it names is locked, the slug it gets claimed.
Arrives(s, c) ==
  /\ checkpoints[c] = None
  /\ \E m \in {"key_share", "update"} : <<CycleRow(checkpoints'[c].cycle), m>> \in held[s]
  /\ <<SlugKey(checkpoints'[c].cycle, checkpoints'[c].slug), "update">> \in held[s]
Stays(s, c) ==
  /\ <<CheckpointRow(c), "update">> \in held[s] /\ checkpoints[c] \in Rows
  /\ checkpoints'[c].cycle = checkpoints[c].cycle
  /\ \/ checkpoints'[c].slug = checkpoints[c].slug
     \/ <<SlugKey(checkpoints'[c].cycle, checkpoints'[c].slug), "update">> \in held[s]
Leaves(s, c) ==
  /\ <<CheckpointRow(c), "update">> \in held[s] /\ checkpoints[c] \in Rows
  /\ checkpoints'[c] = Gone
Named(s, c) ==
  /\ checkpoints'[c] \in Rows
  /\ checkpoints'[c].activity # None =>
       <<ActivityRow(checkpoints'[c].activity), "key_share">> \in held[s]
CheckpointsChange(s) ==
  \A c \in Checkpoints :
    \/ checkpoints'[c] = checkpoints[c]
    \/ Named(s, c) /\ (Arrives(s, c) \/ Stays(s, c))
    \/ Leaves(s, c)

\* Faces of a change: what is there afterwards and was not before.
LEMMA Afterwards ==
  ASSUME IInv, NEW s \in Sessions, CheckpointsChange(s), NEW c \in Existing'
  PROVE  /\ c \in Checkpoints
         /\ \/ checkpoints'[c] = checkpoints[c] /\ c \in Existing
            \/ Named(s, c) /\ Arrives(s, c)
            \/ Named(s, c) /\ Stays(s, c) /\ c \in Existing
<1>1. c \in Checkpoints /\ checkpoints'[c] \notin {None, Gone}
  BY DEF Existing
<1> QED
  BY <1>1, Absent DEF CheckpointsChange, Leaves, Stays, Existing

\* A checkpoint that another session has locked does not change.
LEMMA LockedStays ==
  ASSUME IInv, NEW s \in Sessions, NEW u \in Sessions, u # s, CheckpointsChange(s),
         NEW c \in Existing, <<CheckpointRow(c), "update">> \in held[u]
  PROVE  checkpoints'[c] = checkpoints[c] /\ c \in Existing'
<1>1. c \in Checkpoints /\ checkpoints[c] \notin {None, Gone}
  BY DEF Existing
<1>2. <<CheckpointRow(c), "update">> \notin held[s]
  BY Typed, Conflict
<1>3. checkpoints'[c] = checkpoints[c]
  BY <1>1, <1>2 DEF CheckpointsChange, Arrives, Stays, Leaves
<1> QED
  BY <1>1, <1>3 DEF Existing

\* A checkpoint keeps its cycle, and is never there again once it is gone.
LEMMA CycleKept ==
  ASSUME IInv, NEW s \in Sessions, CheckpointsChange(s), NEW c \in Checkpoints,
         checkpoints[c] # None
  PROVE  /\ checkpoints'[c] # None
         /\ c \in Existing' => c \in Existing /\ checkpoints'[c].cycle = checkpoints[c].cycle
<1>1. checkpoints'[c] # None
  BY Absent DEF CheckpointsChange, Named, Arrives, Stays, Leaves
<1> QED
  BY <1>1, Afterwards DEF Arrives, Stays

\* What a session needs of its own request while others commit.
LEMMA SlugStaysFree ==
  ASSUME IInv, NEW s \in Sessions, NEW u \in Sessions, u # s, CheckpointsChange(s),
         job[u] # None, job'[u] = job[u], SlugFree(u),
         <<SlugKey(job[u].cycle, Slug(u)), "update">> \in held[u]
  PROVE  SlugFree(u)'
<1>1. Slug(u)' = Slug(u)
  BY DEF Slug, Kind, Req
<1> SUFFICES ASSUME NEW c \in Existing', checkpoints'[c].cycle = job[u].cycle,
                    checkpoints'[c].slug = Slug(u)
             PROVE  FALSE
  BY <1>1 DEF SlugFree, InCycle, Existing
<1>2. <<SlugKey(checkpoints'[c].cycle, checkpoints'[c].slug), "update">> \notin held[s]
  BY Typed, Conflict
<1>3. c \in Existing /\ checkpoints[c].cycle = job[u].cycle /\ checkpoints[c].slug = Slug(u)
  BY <1>2, Afterwards DEF Arrives, Stays
<1> QED
  BY <1>3 DEF SlugFree, InCycle

LEMMA CycleStaysEmpty ==
  ASSUME IInv, NEW s \in Sessions, NEW u \in Sessions, u # s, CheckpointsChange(s),
         NEW cy \in Cycles, InCycle(cy) = {}, <<CycleRow(cy), "update">> \in held[u]
  PROVE  InCycle(cy)' = {}
<1> SUFFICES ASSUME NEW c \in Existing', checkpoints'[c].cycle = cy
             PROVE  FALSE
  BY DEF InCycle, Existing
<1>1. \A m : <<CycleRow(cy), m>> \notin held[s]
  BY Typed, Conflict
<1>2. c \in Existing /\ checkpoints[c].cycle = cy
  BY <1>1, Afterwards DEF Arrives, Stays
<1> QED
  BY <1>2 DEF InCycle

LEMMA ActivityStays ==
  ASSUME IInv, NEW s \in Sessions, NEW u \in Sessions, u # s, ActivitiesChange(s),
         NEW a \in Activities, activities[a] \in Cycles,
         NEW m, <<ActivityRow(a), m>> \in held[u]
  PROVE  activities'[a] = activities[a]
<1>1. <<ActivityRow(a), "update">> \notin held[s]
  BY Typed, Conflict
<1> QED
  BY <1>1, Absent DEF ActivitiesChange

LEMMA UnreferredStays ==
  ASSUME IInv, NEW s \in Sessions, NEW u \in Sessions, u # s, CheckpointsChange(s),
         NEW a \in Activities, <<ActivityRow(a), "update">> \in held[u],
         \A c \in Existing : checkpoints[c].activity # a
  PROVE  \A c \in Existing' : checkpoints'[c].activity # a
<1> SUFFICES ASSUME NEW c \in Existing', checkpoints'[c].activity = a
             PROVE  FALSE
  OBVIOUS
<1>1. <<ActivityRow(a), "key_share">> \notin held[s]
  BY Typed, Conflict
<1>2. ~Named(s, c)
  BY <1>1, Absent DEF Named
<1>3. c \in Existing /\ checkpoints[c].activity = a
  BY <1>2, Afterwards
<1> QED
  BY <1>3

LEMMA OthersStand ==
  ASSUME IInv, NEW s \in Sessions, NEW u \in Sessions, u # s, active' = active,
         job'[u] = job[u], held'[u] = held[u], ActivitiesChange(s), CheckpointsChange(s)
  PROVE  Stands(u)' /\ KeysStand(u)'
<1>1. JobsTyped /\ LocksExclude /\ Stands(u) /\ KeysStand(u)
  BY Typed
<1>2. CASE job[u] = None
  <2>1. NoKeys(u)'
    BY <1>1, <1>2, NoKeysYet DEF NoKeys
  <2>2. KeysStand(u)'
    BY <2>1, NoKeysStand
  <2>3. Stands(u)'
    BY <1>2 DEF Stands
  <2> QED
    BY <2>2, <2>3
<1>3. CASE job[u] # None
  <2> DEFINE c == Req(u).checkpoint
             a == Req(u).activity
  <2>1. /\ PathStands(u) /\ CycleStands(u) /\ ActivityStands(u)
        /\ CheckpointStands(u) /\ ClaimStands(u)
    BY <1>1, <1>3 DEF Stands
  <2>2. /\ Kind(u)' = Kind(u) /\ Req(u)' = Req(u) /\ Slug(u)' = Slug(u)
        /\ HasCheckpoint(u)' <=> HasCheckpoint(u)
    BY DEF Kind, Req, Slug, HasCheckpoint
  <2>3. /\ OfCycle(Req(u)) => Req(u).cycle \in Cycles
        /\ Kind(u) \in OnActivity => a \in Activities
        /\ Kind(u) \in RefersTo => a \in Activities \cup {None}
        /\ Kind(u) \in OnCheckpoint => c \in Checkpoints
    BY <1>1, <1>3, JobTypes, RequestTypes DEF Kind, Req
  <2>4. PathStands(u)'
    <3>1. Kind(u) = "update_checkpoint" /\ job[u].stage # "read" =>
            /\ c \in Checkpoints /\ checkpoints[c] # None
            /\ checkpoints'[c] # None
            /\ c \in Existing' => c \in Existing /\ checkpoints'[c].cycle = checkpoints[c].cycle
      BY <2>1, <2>3, CycleKept DEF PathStands, OnCheckpoint
    <3> QED
      BY <2>1, <2>2, <3>1 DEF PathStands
  <2>5. CycleStands(u)'
    <3>1. (/\ Kind(u) = "enable_entrance" /\ job[u].stage \in {"slug", "commit"}
           /\ job[u].found = None)
            => InCycle(Req(u).cycle)' = {}
      <4> SUFFICES ASSUME Kind(u) = "enable_entrance", job[u].stage \in {"slug", "commit"},
                          job[u].found = None
                   PROVE  InCycle(Req(u).cycle)' = {}
        OBVIOUS
      <4>1. /\ Req(u).cycle \in Cycles /\ InCycle(Req(u).cycle) = {}
            /\ <<CycleRow(Req(u).cycle), "update">> \in held[u]
        BY <2>1, <2>3 DEF CycleStands, OfCycle, Kind
      <4>2. PICK cy \in Cycles : cy = Req(u).cycle
        BY <4>1
      <4>3. InCycle(cy)' = {}
        BY <4>1, <4>2, CycleStaysEmpty
      <4> QED
        BY <2>2, <4>2, <4>3 DEF InCycle
    <3> QED
      BY <2>1, <2>2, <3>1 DEF CycleStands, CycleRow
  <2>6. ActivityStands(u)'
    <3>1. (/\ Kind(u) \in RefersTo /\ a # None
           /\ job[u].stage \in {"checkpoint", "slug", "commit"})
            => activities'[a] = job[u].cycle
      <4> SUFFICES ASSUME Kind(u) \in RefersTo, a # None,
                          job[u].stage \in {"checkpoint", "slug", "commit"}
                   PROVE  activities'[a] = job[u].cycle
        OBVIOUS
      <4>1. /\ <<ActivityRow(a), "key_share">> \in held[u] /\ activities[a] = job[u].cycle
            /\ a \in Activities
        BY <2>1, <2>3 DEF ActivityStands
      <4>2. job[u].cycle \in Cycles
        BY <2>1, <2>3 DEF PathStands, RefersTo, OfCycle, Kind
      <4> QED
        BY <4>1, <4>2, ActivityStays
    <3>2. (Kind(u) = "delete_activity" /\ job[u].stage \in {"references", "commit"})
            => /\ activities'[a] \in Cycles
               /\ job[u].stage = "commit" => \A d \in Existing' : checkpoints'[d].activity # a
      <4> SUFFICES ASSUME Kind(u) = "delete_activity", job[u].stage \in {"references", "commit"}
                   PROVE  /\ activities'[a] \in Cycles
                          /\ job[u].stage = "commit" =>
                               \A d \in Existing' : checkpoints'[d].activity # a
        OBVIOUS
      <4>1. /\ <<ActivityRow(a), "update">> \in held[u] /\ activities[a] \in Cycles
            /\ a \in Activities
            /\ job[u].stage = "commit" => \A d \in Existing : checkpoints[d].activity # a
        BY <2>1, <2>3 DEF ActivityStands, OnActivity
      <4>2. activities'[a] = activities[a]
        BY <4>1, ActivityStays
      <4> QED
        BY <4>1, <4>2, UnreferredStays
    <3> QED
      BY <2>1, <2>2, <3>1, <3>2 DEF ActivityStands, ActivityRow
  <2>7. HasCheckpoint(u) => /\ c \in Existing /\ c \in Existing' /\ checkpoints'[c] = checkpoints[c]
                            /\ Renames(u)' <=> Renames(u)
    <3>1. HasCheckpoint(u) => c \in Existing /\ <<CheckpointRow(c), "update">> \in held[u]
      BY <2>1 DEF CheckpointStands
    <3>2. HasCheckpoint(u) => c \in Existing' /\ checkpoints'[c] = checkpoints[c]
      BY <3>1, LockedStays
    <3> QED
      BY <2>2, <3>1, <3>2 DEF Renames
  <2>8. CheckpointStands(u)'
    BY <2>1, <2>2, <2>7 DEF CheckpointStands, CheckpointRow
  <2>9. Claims(u)' <=> Claims(u)
    BY <2>2, <2>7 DEF Claims, HasCheckpoint
  <2>10. ClaimStands(u)'
    <3>1. Claims(u) => SlugFree(u)'
      BY <1>3, <2>1, SlugStaysFree DEF ClaimStands
    <3> QED
      BY <2>1, <2>2, <2>9, <3>1 DEF ClaimStands, SlugKey
  <2>11. KeysStand(u)'
    BY <1>1, <2>2, <2>7, <2>9 DEF KeysStand, SlugKey
  <2>12. Stands(u)'
    BY <1>3, <2>4, <2>5, <2>6, <2>8, <2>10, StandsParts
  <2> QED
    BY <2>11, <2>12
<1> QED
  BY <1>2, <1>3

\* A commit keeps the invariant if it keeps what is said of the tables alone.
LEMMA Compose ==
  ASSUME IInv, NEW s \in Sessions, End(s), active' = active,
         activities' \in [Activities -> Cycles \cup {None, Gone}],
         checkpoints' \in [Checkpoints -> Rows \cup {None, Gone}],
         audit' \in [Activities \cup Checkpoints -> [created : Nat, deleted : Nat]],
         AuditExact', UniqueSlugs', ActivitiesChange(s), CheckpointsChange(s)
  PROVE  IInv'
<1>1. /\ JobsTyped' /\ HeldTyped' /\ LocksExclude' /\ job'[s] = None /\ held'[s] = {}
      /\ \A u \in Sessions \ {s} : job'[u] = job[u] /\ held'[u] = held[u]
  BY Typed, EndFrees
<1>2. \A u \in Sessions \ {s} : Stands(u)' /\ KeysStand(u)'
  BY <1>1, OthersStand
<1>3. Stands(s)' /\ KeysStand(s)'
  BY <1>1, FreedStands
<1>4. active \in Cycles \cup {None}
  BY Typed
<1>5. TypeOK' <=> /\ active' \in Cycles \cup {None}
                  /\ activities' \in [Activities -> Cycles \cup {None, Gone}]
                  /\ checkpoints' \in [Checkpoints -> Rows \cup {None, Gone}]
                  /\ audit' \in [Activities \cup Checkpoints -> [created : Nat, deleted : Nat]]
                  /\ JobsTyped' /\ LocksExclude'
  BY DEF TypeOK, JobsTyped, LocksExclude
<1>6. IInv' <=> /\ TypeOK' /\ HeldTyped' /\ AuditExact' /\ UniqueSlugs'
                /\ \A t \in Sessions : Stands(t)' /\ KeysStand(t)'
  BY DEF IInv
<1> QED
  BY <1>1, <1>2, <1>3, <1>4, <1>5, <1>6

-------------------------------------------------------------------------------
(* The audit rows.                                                         *)

LEMMA AuditTold ==
  ASSUME IInv
  PROVE  /\ \A a \in Activities : /\ activities[a] = None => audit[a].created = 0
                                  /\ activities[a] # None => audit[a].created = 1
                                  /\ activities[a] # Gone => audit[a].deleted = 0
                                  /\ activities[a] = Gone => audit[a].deleted = 1
         /\ \A c \in Checkpoints : /\ checkpoints[c] = None => audit[c].created = 0
                                   /\ checkpoints[c] # None => audit[c].created = 1
                                   /\ checkpoints[c] # Gone => audit[c].deleted = 0
                                   /\ checkpoints[c] = Gone => audit[c].deleted = 1
BY Typed, RowsAssumption DEF AuditExact

LEMMA AuditTells ==
  ASSUME \A a \in Activities : /\ activities'[a] = None => audit'[a].created = 0
                               /\ activities'[a] # None => audit'[a].created = 1
                               /\ activities'[a] # Gone => audit'[a].deleted = 0
                               /\ activities'[a] = Gone => audit'[a].deleted = 1,
         \A c \in Checkpoints : /\ checkpoints'[c] = None => audit'[c].created = 0
                                /\ checkpoints'[c] # None => audit'[c].created = 1
                                /\ checkpoints'[c] # Gone => audit'[c].deleted = 0
                                /\ checkpoints'[c] = Gone => audit'[c].deleted = 1
  PROVE  AuditExact'
BY RowsAssumption DEF AuditExact

\* One event more, of one row.
LEMMA EventCreated ==
  ASSUME NEW f \in [created : Nat, deleted : Nat], NEW e, e = "created"
  PROVE  [f EXCEPT ![e] = @ + 1] = [created |-> f.created + 1, deleted |-> f.deleted]
<1>1. [f EXCEPT ![e] = @ + 1] = [f EXCEPT !.created = f.created + 1]
  BY Zenon
<1>2. [f EXCEPT !.created = f.created + 1] = [created |-> f.created + 1, deleted |-> f.deleted]
  OBVIOUS
<1> QED
  BY <1>1, <1>2, Zenon

LEMMA EventDeleted ==
  ASSUME NEW f \in [created : Nat, deleted : Nat], NEW e, e = "deleted"
  PROVE  [f EXCEPT ![e] = @ + 1] = [created |-> f.created, deleted |-> f.deleted + 1]
<1>1. [f EXCEPT ![e] = @ + 1] = [f EXCEPT !.deleted = f.deleted + 1]
  BY Zenon
<1>2. [f EXCEPT !.deleted = f.deleted + 1] = [created |-> f.created, deleted |-> f.deleted + 1]
  OBVIOUS
<1> QED
  BY <1>1, <1>2, Zenon

LEMMA OneEvent ==
  ASSUME IInv, NEW r \in Activities \cup Checkpoints, NEW e \in {"created", "deleted"},
         Audited(r, e)
  PROVE  /\ audit' \in [Activities \cup Checkpoints -> [created : Nat, deleted : Nat]]
         /\ \A q \in Activities \cup Checkpoints : q # r => audit'[q] = audit[q]
         /\ e = "created" => /\ audit'[r].created = audit[r].created + 1
                             /\ audit'[r].deleted = audit[r].deleted
         /\ e = "deleted" => /\ audit'[r].created = audit[r].created
                             /\ audit'[r].deleted = audit[r].deleted + 1
<1>1. audit \in [Activities \cup Checkpoints -> [created : Nat, deleted : Nat]]
  BY Typed
<1>2. PICK f \in [created : Nat, deleted : Nat] : f = audit[r]
  BY <1>1
<1>3. PICK g : g = [f EXCEPT ![e] = @ + 1]
  OBVIOUS
<1>4. audit' = [audit EXCEPT ![r] = g]
  <2>1. audit' = [audit EXCEPT ![r] = [audit[r] EXCEPT ![e] = audit[r][e] + 1]]
    BY Zenon DEF Audited
  <2>2. g = [audit[r] EXCEPT ![e] = audit[r][e] + 1]
    BY <1>2, <1>3, Zenon
  <2> QED
    BY <2>1, <2>2, Zenon
<1>5. /\ g \in [created : Nat, deleted : Nat]
      /\ e = "created" => g.created = f.created + 1 /\ g.deleted = f.deleted
      /\ e = "deleted" => g.created = f.created /\ g.deleted = f.deleted + 1
  <2>1. CASE e = "created"
    <3>1. g = [created |-> f.created + 1, deleted |-> f.deleted]
      BY <1>3, <2>1, EventCreated, Zenon
    <3> QED
      BY <2>1, <3>1
  <2>2. CASE e = "deleted"
    <3>1. g = [created |-> f.created, deleted |-> f.deleted + 1]
      BY <1>3, <2>2, EventDeleted, Zenon
    <3> QED
      BY <2>2, <3>1
  <2> QED
    BY <2>1, <2>2
<1> QED
  BY <1>1, <1>2, <1>4, <1>5

-------------------------------------------------------------------------------
(* Commits, one by one.                                                    *)

LEMMA CreateActivityKeeps ==
  ASSUME IInv, NEW s \in Sessions, CreateActivity(s)
  PROVE  IInv'
<1>1. /\ End(s) /\ active' = active /\ checkpoints' = checkpoints
      /\ job[s] # None /\ Kind(s) = "create_activity"
  BY DEF CreateActivity, Committing, At
<1>2. PICK a \in Activities :
        /\ activities[a] = None /\ activities' = [activities EXCEPT ![a] = Req(s).cycle]
        /\ Audited(a, "created")
  BY DEF CreateActivity
<1>3. Req(s).cycle \in Cycles
  BY <1>1, Typed, JobTypes, RequestTypes DEF Kind, Req, OfCycle
<1>4. /\ activities' \in [Activities -> Cycles \cup {None, Gone}]
      /\ activities'[a] = Req(s).cycle /\ \A b \in Activities : b # a => activities'[b] = activities[b]
  BY <1>2, <1>3, Typed
<1>5. AuditExact' /\ audit' \in [Activities \cup Checkpoints -> [created : Nat, deleted : Nat]]
  <2>1. /\ audit' \in [Activities \cup Checkpoints -> [created : Nat, deleted : Nat]]
        /\ \A q \in Activities \cup Checkpoints : q # a => audit'[q] = audit[q]
        /\ audit'[a].created = audit[a].created + 1 /\ audit'[a].deleted = audit[a].deleted
    BY <1>2, OneEvent
  <2>2. audit[a].created = 0 /\ audit[a].deleted = 0
    BY <1>2, AuditTold, Absent
  <2>3. activities'[a] # None /\ activities'[a] # Gone
    BY <1>3, <1>4, Absent
  <2> QED
    BY <1>1, <1>4, <2>1, <2>2, <2>3, AuditTold, AuditTells, RowsAssumption
<1>6. ActivitiesChange(s) /\ CheckpointsChange(s)
  BY <1>1, <1>2, <1>4 DEF ActivitiesChange, CheckpointsChange
<1>7. UniqueSlugs' /\ checkpoints' \in [Checkpoints -> Rows \cup {None, Gone}]
  BY <1>1, Typed DEF UniqueSlugs, Existing
<1> QED
  BY <1>1, <1>4, <1>5, <1>6, <1>7, Compose

LEMMA DeleteActivityKeeps ==
  ASSUME IInv, NEW s \in Sessions, DeleteActivity(s)
  PROVE  IInv'
<1> DEFINE a == Req(s).activity
<1>1. /\ End(s) /\ active' = active /\ checkpoints' = checkpoints
      /\ job[s] # None /\ Kind(s) = "delete_activity" /\ job[s].stage = "commit"
      /\ activities' = [activities EXCEPT ![a] = Gone] /\ Audited(a, "deleted")
  BY DEF DeleteActivity, Committing, At
<1>2. /\ a \in Activities /\ <<ActivityRow(a), "update">> \in held[s] /\ activities[a] \in Cycles
  BY <1>1, Typed, JobTypes, RequestTypes DEF Kind, Req, OnActivity, Stands, ActivityStands
<1>4. /\ activities' \in [Activities -> Cycles \cup {None, Gone}]
      /\ activities'[a] = Gone /\ \A b \in Activities : b # a => activities'[b] = activities[b]
  BY <1>1, <1>2, Typed
<1>5. AuditExact' /\ audit' \in [Activities \cup Checkpoints -> [created : Nat, deleted : Nat]]
  <2>1. /\ audit' \in [Activities \cup Checkpoints -> [created : Nat, deleted : Nat]]
        /\ \A q \in Activities \cup Checkpoints : q # a => audit'[q] = audit[q]
        /\ audit'[a].created = audit[a].created /\ audit'[a].deleted = audit[a].deleted + 1
    BY <1>1, <1>2, OneEvent
  <2>2. audit[a].created = 1 /\ audit[a].deleted = 0
    BY <1>2, AuditTold, Absent
  <2> HIDE DEF a
  <2> QED
    BY <1>1, <1>2, <1>4, <2>1, <2>2, AuditTold, AuditTells, RowsAssumption, Absent
<1>6. ActivitiesChange(s) /\ CheckpointsChange(s)
  BY <1>1, <1>2, <1>4 DEF ActivitiesChange, CheckpointsChange
<1>7. UniqueSlugs' /\ checkpoints' \in [Checkpoints -> Rows \cup {None, Gone}]
  BY <1>1, Typed DEF UniqueSlugs, Existing
<1> QED
  BY <1>1, <1>4, <1>5, <1>6, <1>7, Compose

\* A checkpoint that is new, with a slug that was claimed.
LEMMA InsertKeeps ==
  ASSUME IInv, NEW s \in Sessions, End(s), active' = active, activities' = activities,
         NEW row \in Rows, Insert(row),
         \E m \in {"key_share", "update"} : <<CycleRow(row.cycle), m>> \in held[s],
         row.activity # None => <<ActivityRow(row.activity), "key_share">> \in held[s],
         <<SlugKey(row.cycle, row.slug), "update">> \in held[s],
         \A c \in InCycle(row.cycle) : checkpoints[c].slug # row.slug
  PROVE  IInv'
<1>1. PICK c \in Checkpoints :
        /\ checkpoints[c] = None /\ checkpoints' = [checkpoints EXCEPT ![c] = row]
        /\ Audited(c, "created")
  BY DEF Insert
<1>2. /\ checkpoints' \in [Checkpoints -> Rows \cup {None, Gone}]
      /\ checkpoints'[c] = row /\ \A d \in Checkpoints : d # c => checkpoints'[d] = checkpoints[d]
  BY <1>1, Typed
<1>3. AuditExact' /\ audit' \in [Activities \cup Checkpoints -> [created : Nat, deleted : Nat]]
  <2>1. /\ audit' \in [Activities \cup Checkpoints -> [created : Nat, deleted : Nat]]
        /\ \A q \in Activities \cup Checkpoints : q # c => audit'[q] = audit[q]
        /\ audit'[c].created = audit[c].created + 1 /\ audit'[c].deleted = audit[c].deleted
    BY <1>1, OneEvent
  <2>2. audit[c].created = 0 /\ audit[c].deleted = 0
    BY <1>1, AuditTold, Absent
  <2>3. checkpoints'[c] # None /\ checkpoints'[c] # Gone
    BY <1>2, Absent
  <2> QED
    BY <1>2, <2>1, <2>2, <2>3, AuditTold, AuditTells, RowsAssumption
<1>4. ActivitiesChange(s) /\ CheckpointsChange(s)
  <2>1. Named(s, c) /\ Arrives(s, c)
    BY <1>1, <1>2 DEF Named, Arrives, CycleRow, SlugKey, ActivityRow
  <2> QED
    BY <1>2, <2>1 DEF ActivitiesChange, CheckpointsChange
<1>5. UniqueSlugs'
  <2>1. Existing' = Existing \cup {c}
    BY <1>1, <1>2, Absent DEF Existing
  <2>2. \A d \in Existing : /\ d # c /\ checkpoints'[d] = checkpoints[d]
                            /\ ~(checkpoints[d].cycle = row.cycle /\ checkpoints[d].slug = row.slug)
    BY <1>1, <1>2 DEF Existing, InCycle
  <2> QED
    BY <1>2, <2>1, <2>2, Typed DEF UniqueSlugs
<1>6. activities' \in [Activities -> Cycles \cup {None, Gone}]
  BY Typed
<1> QED
  BY <1>2, <1>3, <1>4, <1>5, <1>6, Compose

\* At its commit a new checkpoint has its slug, its activity and its cycle.
LEMMA CommitStands ==
  ASSUME IInv, NEW s \in Sessions, job[s] # None, job[s].stage = "commit"
  PROVE  /\ PathStands(s) /\ CycleStands(s) /\ ActivityStands(s)
         /\ CheckpointStands(s) /\ ClaimStands(s) /\ job[s].req \in Requests
BY Typed, JobTypes DEF Stands

LEMMA CreatedFits ==
  ASSUME IInv, NEW s \in Sessions, job[s] # None, job[s].stage = "commit",
         Kind(s) = "create_checkpoint"
  PROVE  /\ Req(s).cycle \in Cycles /\ Req(s).activity \in Activities \cup {None}
         /\ Req(s).slug \in Slugs
         /\ <<CycleRow(Req(s).cycle), "key_share">> \in held[s]
         /\ Req(s).activity # None =>
              /\ <<ActivityRow(Req(s).activity), "key_share">> \in held[s]
              /\ activities[Req(s).activity] = Req(s).cycle
         /\ <<SlugKey(Req(s).cycle, Req(s).slug), "update">> \in held[s]
         /\ \A c \in InCycle(Req(s).cycle) : checkpoints[c].slug # Req(s).slug
<1>1. /\ Req(s).cycle \in Cycles /\ Req(s).activity \in Activities \cup {None}
      /\ Req(s).slug \in Slugs /\ job[s].cycle = Req(s).cycle /\ Slug(s) = Req(s).slug
  BY CommitStands, RequestTypes DEF PathStands, Kind, Req, OfCycle, RefersTo, Slug
<1>2. Claims(s)
  BY DEF Claims
<1> QED
  BY <1>1, <1>2, CommitStands DEF CycleStands, ActivityStands, ClaimStands, SlugFree, RefersTo

LEMMA CreateCheckpointKeeps ==
  ASSUME IInv, NEW s \in Sessions, CreateCheckpoint(s)
  PROVE  IInv'
<1> DEFINE new == [cycle |-> Req(s).cycle, activity |-> Req(s).activity, slug |-> Req(s).slug]
<1>1. /\ job[s] # None /\ job[s].stage = "commit" /\ Kind(s) = "create_checkpoint"
      /\ End(s) /\ active' = active /\ activities' = activities /\ Insert(new)
  BY DEF CreateCheckpoint, Committing, At
<1>2. /\ new \in Rows /\ new.cycle = Req(s).cycle /\ new.activity = Req(s).activity
      /\ new.slug = Req(s).slug
  BY <1>1, CreatedFits DEF Rows
<1> HIDE DEF new
<1>3. PICK row \in Rows : row = new
  BY <1>2
<1>4. /\ \E m \in {"key_share", "update"} : <<CycleRow(row.cycle), m>> \in held[s]
      /\ row.activity # None => <<ActivityRow(row.activity), "key_share">> \in held[s]
      /\ <<SlugKey(row.cycle, row.slug), "update">> \in held[s]
      /\ \A c \in InCycle(row.cycle) : checkpoints[c].slug # row.slug
  BY <1>1, <1>2, <1>3, CreatedFits
<1>5. Insert(row)
  BY <1>1, <1>3
<1> QED
  BY <1>1, <1>4, <1>5, InsertKeeps

\* The entrance that is created.
LEMMA EntranceFits ==
  ASSUME IInv, NEW s \in Sessions, job[s] # None, job[s].stage = "commit",
         Kind(s) = "enable_entrance", job[s].found = None
  PROVE  /\ Req(s).cycle \in Cycles /\ active = Req(s).cycle
         /\ <<CycleRow(Req(s).cycle), "update">> \in held[s]
         /\ <<SlugKey(Req(s).cycle, Entrance), "update">> \in held[s]
         /\ InCycle(Req(s).cycle) = {}
<1>1. /\ Req(s).cycle \in Cycles /\ job[s].cycle = Req(s).cycle /\ Slug(s) = Entrance
  BY CommitStands, RequestTypes DEF PathStands, Kind, Req, OfCycle, Slug
<1>2. Claims(s)
  BY DEF Claims
<1> QED
  BY <1>1, <1>2, CommitStands DEF CycleStands, ClaimStands

LEMMA EnableEntranceKeeps ==
  ASSUME IInv, NEW s \in Sessions, EnableEntrance(s)
  PROVE  IInv'
<1> DEFINE new == [cycle |-> Req(s).cycle, activity |-> None, slug |-> Entrance]
<1>1. /\ job[s] # None /\ job[s].stage = "commit" /\ Kind(s) = "enable_entrance"
      /\ End(s) /\ active' = active /\ activities' = activities
      /\ job[s].found # None => UNCHANGED <<checkpoints, audit>>
      /\ job[s].found = None => Insert(new)
  BY DEF EnableEntrance, Committing, At
<1>2. CASE job[s].found # None
  BY <1>1, <1>2, EndKeeps DEF tables
<1>3. CASE job[s].found = None
  <2>1. /\ new \in Rows /\ new.cycle = Req(s).cycle /\ new.activity = None
        /\ new.slug = Entrance
    BY <1>1, <1>3, EntranceFits, EntranceAssumption DEF Rows
  <2> HIDE DEF new
  <2>2. PICK row \in Rows : row = new
    BY <2>1
  <2>3. /\ <<CycleRow(row.cycle), "update">> \in held[s] /\ row.activity = None
        /\ <<SlugKey(row.cycle, row.slug), "update">> \in held[s]
        /\ InCycle(row.cycle) = {}
    BY <1>1, <1>3, <2>1, <2>2, EntranceFits
  <2>4. Insert(row)
    BY <1>1, <1>3, <2>2
  <2> QED
    BY <1>1, <2>3, <2>4, InsertKeeps
<1> QED
  BY <1>2, <1>3

\* A checkpoint that is changed.
LEMMA ChangedFits ==
  ASSUME IInv, NEW s \in Sessions, job[s] # None, job[s].stage = "commit",
         Kind(s) = "update_checkpoint"
  PROVE  /\ Req(s).checkpoint \in Existing /\ Req(s).checkpoint \in Checkpoints
         /\ Req(s).activity \in Activities \cup {None} /\ Req(s).slug \in Slugs
         /\ <<CheckpointRow(Req(s).checkpoint), "update">> \in held[s]
         /\ Req(s).activity # None =>
              /\ <<ActivityRow(Req(s).activity), "key_share">> \in held[s]
              /\ activities[Req(s).activity] = checkpoints[Req(s).checkpoint].cycle
         /\ Req(s).slug # checkpoints[Req(s).checkpoint].slug =>
              /\ <<SlugKey(checkpoints[Req(s).checkpoint].cycle, Req(s).slug), "update">> \in held[s]
              /\ \A c \in InCycle(checkpoints[Req(s).checkpoint].cycle) :
                   checkpoints[c].slug # Req(s).slug
<1>1. /\ Req(s).checkpoint \in Existing
      /\ <<CheckpointRow(Req(s).checkpoint), "update">> \in held[s]
  BY CommitStands DEF CheckpointStands, HasCheckpoint
<1>2. /\ Req(s).activity \in Activities \cup {None} /\ Req(s).slug \in Slugs
      /\ Req(s).checkpoint \in Checkpoints /\ Slug(s) = Req(s).slug
      /\ job[s].cycle = checkpoints[Req(s).checkpoint].cycle
  BY <1>1, CommitStands, RequestTypes
     DEF PathStands, Kind, Req, OfCycle, RefersTo, OnCheckpoint, Slug
<1>3. Req(s).slug # checkpoints[Req(s).checkpoint].slug => Claims(s)
  BY DEF Claims, Renames
<1> QED
  BY <1>1, <1>2, <1>3, CommitStands DEF ActivityStands, ClaimStands, SlugFree, RefersTo

LEMMA UpdateCheckpointKeeps ==
  ASSUME IInv, NEW s \in Sessions, UpdateCheckpoint(s)
  PROVE  IInv'
<1> DEFINE c == Req(s).checkpoint
           row == [checkpoints[c] EXCEPT !.activity = Req(s).activity, !.slug = Req(s).slug]
<1>1. /\ job[s] # None /\ job[s].stage = "commit" /\ Kind(s) = "update_checkpoint"
      /\ End(s) /\ active' = active /\ activities' = activities /\ audit' = audit
  BY DEF UpdateCheckpoint, Committing, At
<1>2. /\ c \in Existing /\ c \in Checkpoints /\ checkpoints[c] \in Rows
      /\ Req(s).activity \in Activities \cup {None} /\ Req(s).slug \in Slugs
  BY <1>1, ChangedFits, RowTypes
<1>3. /\ row \in Rows /\ row.cycle = checkpoints[c].cycle
      /\ row.activity = Req(s).activity /\ row.slug = Req(s).slug
  BY <1>2 DEF Rows
<1>4. checkpoints' = [checkpoints EXCEPT ![c] = row]
  BY DEF UpdateCheckpoint
<1> HIDE DEF row
<1>5. /\ checkpoints' \in [Checkpoints -> Rows \cup {None, Gone}]
      /\ checkpoints'[c] = row /\ \A d \in Checkpoints : d # c => checkpoints'[d] = checkpoints[d]
  BY <1>2, <1>3, <1>4, Typed
<1>6. Existing' = Existing
  BY <1>2, <1>3, <1>5, Absent DEF Existing
<1>7. AuditExact'
  <2>1. /\ checkpoints[c] # None /\ checkpoints[c] # Gone
        /\ checkpoints'[c] # None /\ checkpoints'[c] # Gone
    BY <1>2, <1>3, <1>5, Absent
  <2> HIDE DEF c
  <2> QED
    BY <1>1, <1>5, <2>1, AuditTold, AuditTells
<1>8. ActivitiesChange(s) /\ CheckpointsChange(s)
  <2>1. Named(s, c)
    BY <1>1, <1>3, <1>5, ChangedFits DEF Named, ActivityRow
  <2>2. Stays(s, c)
    BY <1>1, <1>2, <1>3, <1>5, ChangedFits DEF Stays, SlugKey
  <2> HIDE DEF c
  <2> QED
    BY <1>1, <1>5, <2>1, <2>2 DEF ActivitiesChange, CheckpointsChange
<1>9. UniqueSlugs'
  <2>1. \A d \in Existing : d # c =>
          ~(checkpoints[d].cycle = row.cycle /\ checkpoints[d].slug = row.slug)
    <3> SUFFICES ASSUME NEW d \in Existing, d # c, checkpoints[d].cycle = row.cycle,
                        checkpoints[d].slug = row.slug
                 PROVE  FALSE
      OBVIOUS
    <3>1. d \in InCycle(checkpoints[c].cycle)
      BY <1>3 DEF InCycle
    <3>2. row.slug = checkpoints[c].slug
      BY <1>1, <1>3, <3>1, ChangedFits
    <3> QED
      BY <1>2, <1>3, <3>2, Typed DEF UniqueSlugs
  <2>2. \A d \in Existing : d \in Checkpoints
    BY DEF Existing
  <2>3. UniqueSlugs
    BY Typed
  <2>4. \A d, e \in Existing :
          checkpoints'[d].cycle = checkpoints'[e].cycle
          /\ checkpoints'[d].slug = checkpoints'[e].slug => d = e
    <3> HIDE DEF c
    <3> QED
      BY <1>5, <2>1, <2>2, <2>3 DEF UniqueSlugs
  <2> QED
    BY <1>6, <2>4 DEF UniqueSlugs
<1>10. /\ activities' \in [Activities -> Cycles \cup {None, Gone}]
       /\ audit' \in [Activities \cup Checkpoints -> [created : Nat, deleted : Nat]]
  BY <1>1, Typed
<1> QED
  BY <1>1, <1>5, <1>7, <1>8, <1>9, <1>10, Compose

LEMMA DeleteCheckpointKeeps ==
  ASSUME IInv, NEW s \in Sessions, DeleteCheckpoint(s)
  PROVE  IInv'
<1> DEFINE c == Req(s).checkpoint
<1>1. /\ job[s] # None /\ job[s].stage = "commit" /\ Kind(s) = "delete_checkpoint"
      /\ End(s) /\ active' = active /\ activities' = activities
      /\ checkpoints' = [checkpoints EXCEPT ![c] = Gone] /\ Audited(c, "deleted")
  BY DEF DeleteCheckpoint, Committing, At
<1>2. /\ c \in Existing /\ c \in Checkpoints /\ checkpoints[c] \in Rows
      /\ <<CheckpointRow(c), "update">> \in held[s]
  BY <1>1, CommitStands, RowTypes DEF CheckpointStands, HasCheckpoint
<1>3. /\ checkpoints' \in [Checkpoints -> Rows \cup {None, Gone}]
      /\ checkpoints'[c] = Gone /\ \A d \in Checkpoints : d # c => checkpoints'[d] = checkpoints[d]
  BY <1>1, <1>2, Typed
<1>4. AuditExact' /\ audit' \in [Activities \cup Checkpoints -> [created : Nat, deleted : Nat]]
  <2>1. /\ audit' \in [Activities \cup Checkpoints -> [created : Nat, deleted : Nat]]
        /\ \A q \in Activities \cup Checkpoints : q # c => audit'[q] = audit[q]
        /\ audit'[c].created = audit[c].created /\ audit'[c].deleted = audit[c].deleted + 1
    BY <1>1, <1>2, OneEvent
  <2>2. audit[c].created = 1 /\ audit[c].deleted = 0
    BY <1>2, AuditTold, Absent
  <2> HIDE DEF c
  <2> QED
    BY <1>1, <1>2, <1>3, <2>1, <2>2, AuditTold, AuditTells, RowsAssumption, Absent
<1>5. ActivitiesChange(s) /\ CheckpointsChange(s)
  <2>1. Leaves(s, c)
    BY <1>2, <1>3 DEF Leaves
  <2> HIDE DEF c
  <2> QED
    BY <1>1, <1>3, <2>1 DEF ActivitiesChange, CheckpointsChange
<1>6. UniqueSlugs'
  <2>1. \A d \in Existing' : d \in Existing /\ checkpoints'[d] = checkpoints[d]
    <3> HIDE DEF c
    <3> QED
      BY <1>3 DEF Existing
  <2> QED
    BY <2>1, Typed DEF UniqueSlugs
<1>7. activities' \in [Activities -> Cycles \cup {None, Gone}]
  BY <1>1, Typed
<1> QED
  BY <1>1, <1>3, <1>4, <1>5, <1>6, <1>7, Compose

\* Another active cycle: not while somebody sets up this one's entrance.
LEMMA SwitchKeeps ==
  ASSUME IInv, NEW cy \in Cycles \cup {None}, SwitchCycle(cy)
  PROVE  IInv'
<1>1. /\ active' = cy /\ job' = job /\ held' = held
      /\ activities' = activities /\ checkpoints' = checkpoints /\ audit' = audit
      /\ active # None => Grantable(held, None, CycleRow(active), "no_key_update")
  BY DEF SwitchCycle
<1>2. \A s \in Sessions : <<CycleRow(active), "update">> \notin held[s] \/ active = None
  <2> SUFFICES ASSUME NEW s \in Sessions, <<CycleRow(active), "update">> \in held[s],
                      active # None
               PROVE  FALSE
    OBVIOUS
  <2> DEFINE l == <<CycleRow(active), "update">>
  <2>1. l \in held[s] /\ l[1] = CycleRow(active) /\ l[2] = "update"
    OBVIOUS
  <2> HIDE DEF l
  <2>2. Compatible(l[2], "no_key_update")
    BY <1>1, <2>1, Typed, Absent, Granted
  <2> QED
    BY <2>1, <2>2 DEF Compatible
<1>3. ASSUME NEW s \in Sessions
      PROVE  Stands(s)' /\ KeysStand(s)'
  <2>1. Stands(s) /\ KeysStand(s) /\ JobsTyped
    BY Typed
  <2>2. CycleStands(s) /\ job[s] # None => CycleStands(s)'
    <3> SUFFICES ASSUME CycleStands(s), job[s] # None
                 PROVE  CycleStands(s)'
      OBVIOUS
    <3>1. CASE Kind(s) = "enable_entrance" /\ job[s].stage # "cycle"
      <4>1. <<CycleRow(active), "update">> \in held[s] /\ active = Req(s).cycle
        BY <3>1 DEF CycleStands
      <4>2. active # None
        BY <2>1, <3>1, <4>1, Absent, JobTypes, RequestTypes DEF Kind, Req, OfCycle
      <4> QED
        BY <1>2, <4>1, <4>2
    <3>2. CASE ~(Kind(s) = "enable_entrance" /\ job[s].stage # "cycle")
      BY <1>1, <3>2 DEF CycleStands, Kind, Req
    <3> QED
      BY <3>1, <3>2
  <2>3. /\ PathStands(s)' <=> PathStands(s)
        /\ ActivityStands(s)' <=> ActivityStands(s)
        /\ CheckpointStands(s)' <=> CheckpointStands(s)
    BY <1>1 DEF PathStands, ActivityStands, CheckpointStands, HasCheckpoint, Renames,
       Kind, Req, Existing
  <2>4. /\ Claims(s)' <=> Claims(s)
        /\ ClaimStands(s)' <=> ClaimStands(s)
        /\ KeysStand(s)' <=> KeysStand(s)
    BY <1>1 DEF ClaimStands, KeysStand, Claims, HasCheckpoint, Renames, SlugFree, InCycle,
       Slug, Kind, Req, Existing
  <2> QED
    BY <1>1, <2>1, <2>2, <2>3, <2>4 DEF Stands
<1>4. AuditExact' /\ UniqueSlugs'
  BY <1>1, Typed DEF AuditExact, UniqueSlugs, Existing
<1>5. JobsTyped' /\ LocksExclude' /\ HeldTyped'
  BY <1>1, Typed DEF JobsTyped, LocksExclude, HeldTyped
<1>6. TypeOK' <=> /\ active' \in Cycles \cup {None}
                  /\ activities' \in [Activities -> Cycles \cup {None, Gone}]
                  /\ checkpoints' \in [Checkpoints -> Rows \cup {None, Gone}]
                  /\ audit' \in [Activities \cup Checkpoints -> [created : Nat, deleted : Nat]]
                  /\ JobsTyped' /\ LocksExclude'
  BY DEF TypeOK, JobsTyped, LocksExclude
<1>7. TypeOK'
  BY <1>1, <1>5, <1>6, Typed
<1>8. IInv' <=> /\ TypeOK' /\ HeldTyped' /\ AuditExact' /\ UniqueSlugs'
                /\ \A t \in Sessions : Stands(t)' /\ KeysStand(t)'
  BY DEF IInv
<1> QED
  BY <1>3, <1>4, <1>5, <1>7, <1>8

-------------------------------------------------------------------------------
(* The theorems.                                                           *)

LEMMA InitHolds ==
  ASSUME Init
  PROVE  IInv
<1>1. /\ active \in Cycles \cup {None} /\ JobsTyped /\ HeldTyped /\ LocksExclude
      /\ \A s \in Sessions : job[s] = None /\ held[s] = {}
      /\ activities \in [Activities -> Cycles \cup {None, Gone}]
      /\ checkpoints \in [Checkpoints -> Rows \cup {None, Gone}]
      /\ audit \in [Activities \cup Checkpoints -> [created : Nat, deleted : Nat]]
  BY DEF Init, JobsTyped, HeldTyped, LocksExclude
<1>2. AuditExact
  BY Absent DEF Init, AuditExact
<1>3. UniqueSlugs
  BY DEF Init, UniqueSlugs, Existing
<1>4. \A s \in Sessions : Stands(s) /\ KeysStand(s)
  BY <1>1 DEF Stands, KeysStand
<1> QED
  BY <1>1, <1>2, <1>3, <1>4, InvParts

LEMMA StutterKeeps ==
  ASSUME IInv, UNCHANGED vars
  PROVE  IInv'
<1>1. /\ UNCHANGED tables /\ job' = job /\ held' = held
  BY DEF vars, tables
<1>2. \A s \in Sessions : Stands(s)' /\ KeysStand(s)'
  BY <1>1, Typed, SameStands
<1>3. TypeOK' /\ HeldTyped' /\ AuditExact' /\ UniqueSlugs'
  BY <1>1 DEF IInv, TypeOK, HeldTyped, AuditExact, UniqueSlugs, Existing, tables
<1> QED
  BY <1>2, <1>3 DEF IInv

LEMMA NextKeeps ==
  ASSUME IInv, [Next]_vars
  PROVE  IInv'
<1>1. ASSUME NEW s \in Sessions,
             \/ Ask(s) \/ LockCycle(s) \/ ReadCycle(s) \/ LockActivity(s)
             \/ CheckReferences(s) \/ LockCheckpoint(s) \/ ClaimSlug(s)
      PROVE  IInv'
  BY <1>1, AskKeeps, LockCycleKeeps, ReadCycleKeeps, LockActivityKeeps, CheckReferencesKeeps,
     LockCheckpointKeeps, ClaimSlugKeeps
<1>2. ASSUME NEW s \in Sessions,
             \/ LookForEntrance(s) \/ RecheckEntrance(s) \/ CheckUnconfigured(s) \/ Refuse(s)
      PROVE  IInv'
  BY <1>2, LookForEntranceKeeps, RecheckEntranceKeeps, CheckUnconfiguredKeeps, RefuseKeeps
<1>3. ASSUME NEW s \in Sessions,
             \/ CreateActivity(s) \/ UpdateActivity(s) \/ DeleteActivity(s)
             \/ CreateCheckpoint(s) \/ UpdateCheckpoint(s) \/ DeleteCheckpoint(s)
             \/ EnableEntrance(s)
      PROVE  IInv'
  BY <1>3, CreateActivityKeeps, UpdateActivityKeeps, DeleteActivityKeeps, CreateCheckpointKeeps,
     UpdateCheckpointKeeps, DeleteCheckpointKeeps, EnableEntranceKeeps
<1> QED
  BY <1>1, <1>2, <1>3, SwitchKeeps, StutterKeeps DEF Next

\* The inductive invariant: what a transaction found under its locks is so
\* until it commits (lockCycle, lockActivityInCycle, the FOR UPDATE of the
\* checkpoint and the unique index on its slug).
THEOREM Invariance == Spec => []IInv
BY InitHolds, NextKeeps, PTL DEF Spec

\* Every row is one the migrations allow, and locks exclude each other.
THEOREM TypeCorrect == Spec => []TypeOK
<1>1. IInv => TypeOK
  BY DEF IInv
<1> QED
  BY <1>1, Invariance, PTL

\* Each activity and checkpoint was created once in the audit trail, and
\* deleted once if it is gone, however often EnableEntrance was repeated.
THEOREM Audit == Spec => []AuditExact
<1>1. IInv => AuditExact
  BY DEF IInv
<1> QED
  BY <1>1, Invariance, PTL

\* What a step that commits EnableEntrance does.
EntranceStep ==
  \A s \in Sessions, c \in Checkpoints :
    (/\ job[s] # None /\ Kind(s) = "enable_entrance" /\ job'[s] = None
     /\ checkpoints[c] = None /\ checkpoints'[c] # None)
      => /\ active = Req(s).cycle
         /\ InCycle(Req(s).cycle) = {}

\* EnableEntrance makes the entrance of the active cycle, while that cycle has
\* no checkpoint.
THEOREM Alone == Spec => EntranceAlone
<1> DEFINE Step(s, c) ==
      (/\ job[s] # None /\ Kind(s) = "enable_entrance" /\ job'[s] = None
       /\ checkpoints[c] = None /\ checkpoints'[c] # None)
        => active = Req(s).cycle /\ InCycle(Req(s).cycle) = {}
<1>1. ASSUME IInv, [Next]_vars, NEW s \in Sessions, NEW c \in Checkpoints
      PROVE  Step(s, c)
  <2> SUFFICES ASSUME job[s] # None, Kind(s) = "enable_entrance", job'[s] = None,
                      checkpoints'[c] # checkpoints[c]
               PROVE  active = Req(s).cycle /\ InCycle(Req(s).cycle) = {}
    OBVIOUS
  <2>1. JobsTyped
    BY <1>1, Typed
  <2>2. ASSUME NEW u \in Sessions, End(u)
        PROVE  u = s
    BY <2>1, <2>2 DEF End, JobsTyped
  <2>3. PICK u \in Sessions : \/ CreateCheckpoint(u) \/ UpdateCheckpoint(u)
                              \/ DeleteCheckpoint(u) \/ EnableEntrance(u)
    BY <1>1 DEF Next, vars, SwitchCycle, Ask, LockCycle, ReadCycle, LockActivity,
       CheckReferences, LockCheckpoint, ClaimSlug, LookForEntrance, RecheckEntrance,
       CheckUnconfigured, CreateActivity, UpdateActivity, DeleteActivity, Refuse
  <2>4. u = s
    BY <2>2, <2>3 DEF CreateCheckpoint, UpdateCheckpoint, DeleteCheckpoint, EnableEntrance
  <2>5. EnableEntrance(s)
    BY <2>3, <2>4 DEF CreateCheckpoint, UpdateCheckpoint, DeleteCheckpoint, Committing
  <2>6. job[s].stage = "commit" /\ job[s].found = None
    BY <2>5 DEF EnableEntrance, Committing, At
  <2> QED
    BY <1>1, <2>6, EntranceFits
<1>2. IInv /\ [Next]_vars => [EntranceStep]_vars
  <2> SUFFICES ASSUME IInv, [Next]_vars
               PROVE  EntranceStep
    OBVIOUS
  <2>1. \A s \in Sessions, c \in Checkpoints : Step(s, c)
    BY <1>1
  <2> QED
    BY <2>1 DEF EntranceStep
<1>3. Spec => [][EntranceStep]_vars
  BY <1>2, Invariance, PTL DEF Spec
<1>4. EntranceAlone <=> [][EntranceStep]_vars
  BY DEF EntranceAlone, EntranceStep
<1> QED
  BY <1>3, <1>4

-------------------------------------------------------------------------------
(* Every commit is a step of EventSetup.                                   *)

ActsOf == {[id |-> a, cycle |-> activities[a]] :
             a \in {b \in Activities : activities[b] \notin {None, Gone}}}
PointsOf == {[id |-> c, cycle |-> checkpoints[c].cycle,
              activity |-> checkpoints[c].activity, slug |-> checkpoints[c].slug] :
                c \in Existing}

LEMMA Invisible ==
  ASSUME active' = active, activities' = activities, checkpoints' = checkpoints
  PROVE  UNCHANGED Setup!vars
BY DEF Setup!vars, Existing

LEMMA ActsSame ==
  ASSUME activities' = activities
  PROVE  ActsOf' = ActsOf
BY DEF ActsOf

LEMMA PointsSame ==
  ASSUME checkpoints' = checkpoints
  PROVE  PointsOf' = PointsOf
BY DEF PointsOf, Existing

\* A point is a checkpoint that exists.
LEMMA PointOf ==
  ASSUME IInv, NEW q \in PointsOf
  PROVE  /\ q.id \in Existing /\ q.id \in Checkpoints
         /\ q.cycle = checkpoints[q.id].cycle /\ q.slug = checkpoints[q.id].slug
         /\ q.activity = checkpoints[q.id].activity
BY DEF PointsOf, Existing

LEMMA ActOf ==
  ASSUME NEW a \in Activities, activities[a] \notin {None, Gone}
  PROVE  [id |-> a, cycle |-> activities[a]] \in ActsOf
BY DEF ActsOf

LEMMA CreateActivityMaps ==
  ASSUME IInv, NEW s \in Sessions, CreateActivity(s)
  PROVE  Setup!AddActivity
<1>1. /\ active' = active /\ checkpoints' = checkpoints
      /\ job[s] # None /\ Kind(s) = "create_activity"
  BY DEF CreateActivity, Committing, At
<1>2. PICK a \in Activities :
        activities[a] = None /\ activities' = [activities EXCEPT ![a] = Req(s).cycle]
  BY DEF CreateActivity
<1>3. Req(s).cycle \in Cycles
  BY <1>1, Typed, JobTypes, RequestTypes DEF Kind, Req, OfCycle
<1> DEFINE x == [id |-> a, cycle |-> Req(s).cycle]
<1>4. ActsOf' = ActsOf \cup {x}
  <2>1. /\ activities'[a] = Req(s).cycle
        /\ \A b \in Activities : b # a => activities'[b] = activities[b]
    BY <1>2, Typed
  <2>2. Req(s).cycle # None /\ Req(s).cycle # Gone
    BY <1>3, Absent
  <2> QED
    BY <1>2, <2>1, <2>2 DEF ActsOf
<1>5. x \in Setup!Acts /\ \A b \in ActsOf : b.id # x.id
  BY <1>2, <1>3 DEF Setup!Acts, ActsOf
<1>6. ActsOf' = ActsOf \cup {x} /\ PointsOf' = PointsOf /\ active' = active
  BY <1>1, <1>4, PointsSame
<1> QED
  BY <1>5, <1>6 DEF Setup!AddActivity, ActsOf, PointsOf

LEMMA DeleteActivityMaps ==
  ASSUME IInv, NEW s \in Sessions, DeleteActivity(s)
  PROVE  Setup!RemoveActivity
<1> DEFINE a == Req(s).activity
           x == [id |-> a, cycle |-> activities[a]]
<1>1. /\ active' = active /\ checkpoints' = checkpoints
      /\ job[s] # None /\ Kind(s) = "delete_activity" /\ job[s].stage = "commit"
      /\ activities' = [activities EXCEPT ![a] = Gone]
  BY DEF DeleteActivity, Committing, At
<1>2. /\ a \in Activities /\ activities[a] \in Cycles
      /\ \A c \in Existing : checkpoints[c].activity # a
  BY <1>1, CommitStands, RequestTypes DEF Kind, Req, OnActivity, ActivityStands
<1>3. x \in ActsOf /\ \A p \in PointsOf : p.activity # x.id
  BY <1>2, ActOf, PointOf, Absent
<1>4. ActsOf' = ActsOf \ {x}
  <2>1. /\ activities'[a] = Gone
        /\ \A b \in Activities : b # a => activities'[b] = activities[b]
    BY <1>1, <1>2, Typed
  <2> HIDE DEF a
  <2> QED
    BY <1>2, <2>1 DEF ActsOf
<1>5. PointsOf' = PointsOf /\ active' = active
  BY <1>1, PointsSame
<1> HIDE DEF x
<1> QED
  BY <1>3, <1>4, <1>5 DEF Setup!RemoveActivity, ActsOf, PointsOf

\* A new checkpoint whose slug is free and whose activity is of its cycle.
LEMMA InsertMaps ==
  ASSUME IInv, active' = active, activities' = activities, NEW row \in Rows, Insert(row),
         row.activity # None =>
           row.activity \in Activities /\ activities[row.activity] = row.cycle,
         \A c \in InCycle(row.cycle) : checkpoints[c].slug # row.slug
  PROVE  Setup!AddPoint
<1>1. PICK c \in Checkpoints :
        checkpoints[c] = None /\ checkpoints' = [checkpoints EXCEPT ![c] = row]
  BY DEF Insert
<1> DEFINE p == [id |-> c, cycle |-> row.cycle, activity |-> row.activity, slug |-> row.slug]
<1>2. /\ row.cycle \in Cycles /\ row.activity \in Activities \cup {None} /\ row.slug \in Slugs
      /\ row \notin {None, Gone}
  BY Absent DEF Rows
<1>3. p \in Setup!Points /\ \A q \in PointsOf : q.id # p.id
  BY <1>1, <1>2, PointOf DEF Setup!Points, Existing
<1>4. PointsOf' = PointsOf \cup {p}
  <2>1. checkpoints'[c] = row /\ \A d \in Checkpoints : d # c => checkpoints'[d] = checkpoints[d]
    BY <1>1, Typed
  <2>2. Existing' = Existing \cup {c} /\ c \notin Existing /\ \A d \in Existing : d \in Checkpoints
    BY <1>1, <1>2, <2>1 DEF Existing
  <2>3. \A d \in Existing : checkpoints'[d] = checkpoints[d]
    BY <2>1, <2>2
  <2> QED
    BY <2>1, <2>2, <2>3 DEF PointsOf
<1>5. Setup!Fits(p, PointsOf)
  <2>1. \A q \in PointsOf : <<q.cycle, q.slug>> # <<p.cycle, p.slug>>
    BY PointOf DEF InCycle
  <2>2. p.activity # None => [id |-> p.activity, cycle |-> p.cycle] \in ActsOf
    BY <1>2, Absent, ActOf
  <2> HIDE DEF p
  <2> QED
    BY <2>1, <2>2 DEF Setup!Fits, ActsOf
<1>6. ActsOf' = ActsOf
  BY ActsSame
<1> HIDE DEF p
<1> QED
  BY <1>3, <1>4, <1>5, <1>6 DEF Setup!AddPoint, ActsOf, PointsOf

LEMMA CreateCheckpointMaps ==
  ASSUME IInv, NEW s \in Sessions, CreateCheckpoint(s)
  PROVE  Setup!AddPoint
<1> DEFINE new == [cycle |-> Req(s).cycle, activity |-> Req(s).activity, slug |-> Req(s).slug]
<1>1. /\ job[s] # None /\ job[s].stage = "commit" /\ Kind(s) = "create_checkpoint"
      /\ active' = active /\ activities' = activities /\ Insert(new)
  BY DEF CreateCheckpoint, Committing, At
<1>2. /\ new \in Rows /\ new.cycle = Req(s).cycle /\ new.activity = Req(s).activity
      /\ new.slug = Req(s).slug
  BY <1>1, CreatedFits DEF Rows
<1>3. Req(s).activity # None => Req(s).activity \in Activities
  BY <1>1, CreatedFits
<1> HIDE DEF new
<1>4. PICK row \in Rows : row = new
  BY <1>2
<1>5. /\ row.activity # None =>
           row.activity \in Activities /\ activities[row.activity] = row.cycle
      /\ \A c \in InCycle(row.cycle) : checkpoints[c].slug # row.slug
  BY <1>1, <1>2, <1>3, <1>4, CreatedFits
<1> QED
  BY <1>1, <1>4, <1>5, InsertMaps

LEMMA EnableEntranceMaps ==
  ASSUME IInv, NEW s \in Sessions, EnableEntrance(s)
  PROVE  Setup!AddPoint \/ UNCHANGED Setup!vars
<1> DEFINE new == [cycle |-> Req(s).cycle, activity |-> None, slug |-> Entrance]
<1>1. /\ job[s] # None /\ job[s].stage = "commit" /\ Kind(s) = "enable_entrance"
      /\ active' = active /\ activities' = activities
      /\ job[s].found # None => checkpoints' = checkpoints
      /\ job[s].found = None => Insert(new)
  BY DEF EnableEntrance, Committing, At
<1>2. CASE job[s].found # None
  BY <1>1, <1>2, Invisible
<1>3. CASE job[s].found = None
  <2>1. /\ new \in Rows /\ new.cycle = Req(s).cycle /\ new.activity = None
        /\ new.slug = Entrance
    BY <1>1, <1>3, EntranceFits, EntranceAssumption DEF Rows
  <2> HIDE DEF new
  <2>2. PICK row \in Rows : row = new
    BY <2>1
  <2>3. row.activity = None /\ InCycle(row.cycle) = {}
    BY <1>1, <1>3, <2>1, <2>2, EntranceFits
  <2> QED
    BY <1>1, <1>3, <2>2, <2>3, InsertMaps
<1> QED
  BY <1>2, <1>3

LEMMA UpdateCheckpointMaps ==
  ASSUME IInv, NEW s \in Sessions, UpdateCheckpoint(s)
  PROVE  Setup!ChangePoint
<1> DEFINE c == Req(s).checkpoint
           row == [checkpoints[c] EXCEPT !.activity = Req(s).activity, !.slug = Req(s).slug]
           q == [id |-> c, cycle |-> checkpoints[c].cycle,
                 activity |-> checkpoints[c].activity, slug |-> checkpoints[c].slug]
           p == [id |-> c, cycle |-> checkpoints[c].cycle,
                 activity |-> Req(s).activity, slug |-> Req(s).slug]
<1>1. /\ job[s] # None /\ job[s].stage = "commit" /\ Kind(s) = "update_checkpoint"
      /\ active' = active /\ activities' = activities
  BY DEF UpdateCheckpoint, Committing, At
<1>2. /\ c \in Existing /\ c \in Checkpoints /\ checkpoints[c] \in Rows
      /\ checkpoints[c].cycle \in Cycles
      /\ Req(s).activity \in Activities \cup {None} /\ Req(s).slug \in Slugs
  BY <1>1, ChangedFits, RowTypes
<1>3. /\ row \notin {None, Gone} /\ row.cycle = checkpoints[c].cycle
      /\ row.activity = Req(s).activity /\ row.slug = Req(s).slug
  BY <1>2, Absent DEF Rows
<1>4. checkpoints' = [checkpoints EXCEPT ![c] = row]
  BY DEF UpdateCheckpoint
<1>5. /\ checkpoints'[c] = row
      /\ \A d \in Checkpoints : d # c => checkpoints'[d] = checkpoints[d]
  <2> HIDE DEF row
  <2> QED
    BY <1>2, <1>4, Typed
<1>6. q \in PointsOf /\ p \in Setup!Points /\ p.id = q.id /\ p.cycle = q.cycle
  BY <1>2 DEF PointsOf, Setup!Points
<1>7. PointsOf' = (PointsOf \ {q}) \cup {p}
  <2>1. \A d \in Existing : d \in Checkpoints
    BY DEF Existing
  <2> HIDE DEF row, c
  <2>2. Existing' = Existing
    BY <1>2, <1>3, <1>5 DEF Existing
  <2> QED
    BY <1>2, <1>3, <1>5, <2>1, <2>2 DEF PointsOf
<1>8. Setup!Fits(p, PointsOf \ {q})
  <2>1. \A o \in PointsOf \ {q} : <<o.cycle, o.slug>> # <<p.cycle, p.slug>>
    <3> SUFFICES ASSUME NEW o \in PointsOf, o # q, o.cycle = p.cycle, o.slug = p.slug
                 PROVE  FALSE
      OBVIOUS
    <3>1. /\ o.id \in Existing /\ o.cycle = checkpoints[o.id].cycle
          /\ o.slug = checkpoints[o.id].slug
      BY PointOf
    <3>2. o.id # c
      BY DEF PointsOf
    <3>3. o.id \in InCycle(checkpoints[c].cycle)
      BY <3>1 DEF InCycle
    <3>4. Req(s).slug = checkpoints[c].slug
      BY <1>1, <3>1, <3>3, ChangedFits
    <3> QED
      BY <1>2, <3>1, <3>2, <3>4, Typed DEF UniqueSlugs
  <2>2. p.activity # None => [id |-> p.activity, cycle |-> p.cycle] \in ActsOf
    <3> SUFFICES ASSUME Req(s).activity # None
                 PROVE  [id |-> Req(s).activity, cycle |-> checkpoints[c].cycle] \in ActsOf
      OBVIOUS
    <3>1. Req(s).activity \in Activities /\ activities[Req(s).activity] = checkpoints[c].cycle
      BY <1>1, <1>2, ChangedFits
    <3> QED
      BY <1>2, <3>1, Absent, ActOf
  <2> HIDE DEF p, q
  <2> QED
    BY <2>1, <2>2 DEF Setup!Fits, ActsOf
<1>9. ActsOf' = ActsOf
  BY <1>1, ActsSame
<1> HIDE DEF p, q
<1> QED
  BY <1>1, <1>6, <1>7, <1>8, <1>9 DEF Setup!ChangePoint, ActsOf, PointsOf

LEMMA DeleteCheckpointMaps ==
  ASSUME IInv, NEW s \in Sessions, DeleteCheckpoint(s)
  PROVE  Setup!RemovePoint
<1> DEFINE c == Req(s).checkpoint
           p == [id |-> c, cycle |-> checkpoints[c].cycle,
                 activity |-> checkpoints[c].activity, slug |-> checkpoints[c].slug]
<1>1. /\ job[s] # None /\ job[s].stage = "commit" /\ Kind(s) = "delete_checkpoint"
      /\ active' = active /\ activities' = activities
      /\ checkpoints' = [checkpoints EXCEPT ![c] = Gone]
  BY DEF DeleteCheckpoint, Committing, At
<1>2. c \in Existing /\ c \in Checkpoints
  BY <1>1, CommitStands, RowTypes DEF CheckpointStands, HasCheckpoint
<1>3. p \in PointsOf
  BY <1>2 DEF PointsOf
<1>4. PointsOf' = PointsOf \ {p}
  <2>1. \A d \in Existing : d \in Checkpoints
    BY DEF Existing
  <2>2. checkpoints'[c] = Gone /\ \A d \in Checkpoints : d # c => checkpoints'[d] = checkpoints[d]
    BY <1>1, <1>2, Typed
  <2> HIDE DEF c
  <2>3. Existing' = Existing \ {c}
    BY <2>1, <2>2 DEF Existing
  <2> QED
    BY <1>2, <2>1, <2>2, <2>3 DEF PointsOf
<1>5. ActsOf' = ActsOf
  BY <1>1, ActsSame
<1> HIDE DEF p
<1> QED
  BY <1>1, <1>3, <1>4, <1>5 DEF Setup!RemovePoint, ActsOf, PointsOf

\* What is not committed is invisible.
LEMMA StepImplements ==
  ASSUME IInv, [Next]_vars
  PROVE  [Setup!Next]_(Setup!vars)
<1>1. ASSUME NEW cy \in Cycles \cup {None}, SwitchCycle(cy)
      PROVE  Setup!Switch
  <2>1. ActsOf' = ActsOf /\ PointsOf' = PointsOf /\ active' = cy
    BY <1>1, ActsSame, PointsSame DEF SwitchCycle
  <2> QED
    BY <2>1 DEF Setup!Switch, ActsOf, PointsOf
<1>2. ASSUME NEW s \in Sessions,
             \/ Ask(s) \/ LockCycle(s) \/ ReadCycle(s) \/ LockActivity(s)
             \/ CheckReferences(s) \/ LockCheckpoint(s) \/ ClaimSlug(s)
             \/ LookForEntrance(s) \/ RecheckEntrance(s) \/ CheckUnconfigured(s)
             \/ UpdateActivity(s) \/ Refuse(s)
      PROVE  UNCHANGED Setup!vars
  <2>1. active' = active /\ activities' = activities /\ checkpoints' = checkpoints
    BY <1>2 DEF Ask, LockCycle, ReadCycle, LockActivity, CheckReferences,
       LockCheckpoint, ClaimSlug, LookForEntrance, RecheckEntrance, CheckUnconfigured,
       UpdateActivity, Refuse
  <2> QED
    BY <2>1, Invisible
<1>3. ASSUME UNCHANGED vars
      PROVE  UNCHANGED Setup!vars
  BY <1>3, Invisible DEF vars
<1> QED
  BY <1>1, <1>2, <1>3, CreateActivityMaps, DeleteActivityMaps, CreateCheckpointMaps,
     EnableEntranceMaps, UpdateCheckpointMaps, DeleteCheckpointMaps DEF Next, Setup!Next

\* Every behaviour of the transactions is one of EventSetup, in which a change
\* happens in a single instant: the commits of CreateActivity, DeleteActivity,
\* CreateCheckpoint, EnableEntrance, UpdateCheckpoint and DeleteCheckpoint are
\* its steps, and everything before them is invisible.
THEOREM Refinement == Spec => SetupSpec
<1>1. Init => Setup!Init
  <2>1. Init => ActsOf = {} /\ PointsOf = {}
    BY DEF Init, ActsOf, PointsOf, Existing
  <2> QED
    BY <2>1 DEF Init, Setup!Init, ActsOf, PointsOf
<1>2. IInv /\ [Next]_vars => [Setup!Next]_(Setup!vars)
  BY StepImplements
<1> QED
  BY <1>1, <1>2, Invariance, PTL DEF Spec, SetupSpec, Setup!Spec

-------------------------------------------------------------------------------
(* Deadlocks.                                                              *)

\* The kinds of rows a request may have locked before each stage: cycles, then
\* activities, then checkpoints, then slugs.
Behind(stage) ==
  CASE stage \in {"cycle", "read"} -> {}
    [] stage \in {"activity", "entrance"} -> {"cycle"}
    [] stage \in {"references", "checkpoint", "recheck"} -> {"cycle", "activity"}
    [] stage = "configured" -> {"cycle", "activity", "checkpoint"}
    [] OTHER -> {"cycle", "activity", "checkpoint", "slug"}

LocksInOrder ==
  \A s \in Sessions : \A l \in held[s] : job[s] # None /\ l[1][1] \in Behind(job[s].stage)

LEMMA RowKinds ==
  /\ \A x : CycleRow(x)[1] = "cycle" /\ ActivityRow(x)[1] = "activity"
            /\ CheckpointRow(x)[1] = "checkpoint"
  /\ \A x, y : SlugKey(x, y)[1] = "slug"
BY DEF CycleRow, ActivityRow, CheckpointRow, SlugKey

\* What a stage waits for.
LEMMA NeedKinds ==
  ASSUME NEW s \in Sessions, NEW n \in Needs(s)
  PROVE  \/ job[s].stage = "cycle" /\ n[1][1] = "cycle"
         \/ job[s].stage = "activity" /\ n[1][1] = "activity"
         \/ job[s].stage \in {"references", "checkpoint", "recheck"} /\ n[1][1] = "checkpoint"
         \/ job[s].stage = "slug" /\ n[1][1] = "slug"
<1>1. \/ job[s].stage = "cycle" /\ n = <<CycleRow(Req(s).cycle), CycleMode(s)>>
      \/ job[s].stage = "activity" /\ n[1] = ActivityRow(Req(s).activity)
      \/ job[s].stage = "references" /\ \E c \in Existing : n[1] = CheckpointRow(c)
      \/ job[s].stage = "checkpoint" /\ n[1] = CheckpointRow(Req(s).checkpoint)
      \/ job[s].stage = "recheck" /\ n[1] = CheckpointRow(job[s].found)
      \/ job[s].stage = "slug" /\ n[1] = SlugKey(job[s].cycle, Slug(s))
  BY DEF Needs
<1>2. job[s].stage = "cycle" => n[1] = CycleRow(Req(s).cycle)
  BY <1>1
<1> QED
  BY <1>1, <1>2, RowKinds

\* A session that goes on with some more locks.
LEMMA OrderGoesOn ==
  ASSUME LocksInOrder, NEW s \in Sessions, NEW S, held'[s] = held[s] \cup S,
         \A u \in Sessions \ {s} : job'[u] = job[u] /\ held'[u] = held[u],
         job'[s] # None,
         Behind(job[s].stage) \subseteq Behind(job'[s].stage),
         \A l \in S : l[1][1] \in Behind(job'[s].stage)
  PROVE  LocksInOrder'
<1>1. \A l \in held'[s] : job'[s] # None /\ l[1][1] \in Behind(job'[s].stage)
  BY DEF LocksInOrder
<1>2. \A u \in Sessions \ {s} : \A l \in held'[u] :
        job'[u] # None /\ l[1][1] \in Behind(job'[u].stage)
  BY DEF LocksInOrder
<1> QED
  BY <1>1, <1>2 DEF LocksInOrder

\* The stage that a step leads to, and what it adds to the locks.
LEMMA Moves ==
  ASSUME JobsTyped, HeldTyped, NEW s \in Sessions, job[s] # None, NEW stage \in Stages,
         Move(s, stage)
  PROVE  /\ job'[s] # None /\ job'[s].stage = stage
         /\ \A u \in Sessions \ {s} : job'[u] = job[u]
BY MoveTypes DEF JobsTyped

\* Everything but an end keeps the order.
LEMMA LockCycleInOrder ==
  ASSUME IInv, LocksInOrder, NEW s \in Sessions, LockCycle(s)
  PROVE  LocksInOrder'
<1>1. /\ job[s] # None /\ job[s].stage = "cycle" /\ Acquire(s) /\ Move(s, AfterCycle(s))
      /\ JobsTyped /\ HeldTyped /\ PathStands(s)
  BY Typed DEF LockCycle, At, Stands
<1>2. AfterCycle(s) \in {"commit", "entrance", "slug", "activity"}
  BY <1>1, JobTypes, RequestTypes
     DEF AfterCycle, PathStands, Path, Kind, Req, OnActivity, OnCheckpoint
<1>3. PICK stage \in Stages : stage = AfterCycle(s)
  BY <1>2 DEF Stages
<1>4. /\ job'[s] # None /\ job'[s].stage = stage
      /\ \A u \in Sessions \ {s} : job'[u] = job[u]
  BY <1>1, <1>3, Moves
<1>5. /\ Behind(job[s].stage) \subseteq Behind(job'[s].stage) /\ "cycle" \in Behind(job'[s].stage)
  BY <1>1, <1>2, <1>3, <1>4 DEF Behind
<1>6. \A l \in Needs(s) : l[1][1] \in Behind(job'[s].stage)
  BY <1>1, <1>5, NeedKinds
<1>7. held'[s] = held[s] \cup Needs(s) /\ \A u \in Sessions \ {s} : held'[u] = held[u]
  BY <1>1 DEF Acquire, HeldTyped
<1> QED
  BY <1>4, <1>5, <1>6, <1>7, OrderGoesOn

LEMMA LockActivityInOrder ==
  ASSUME IInv, LocksInOrder, NEW s \in Sessions, LockActivity(s)
  PROVE  LocksInOrder'
<1>1. /\ job[s] # None /\ job[s].stage = "activity" /\ Acquire(s) /\ Move(s, AfterActivity(s))
      /\ JobsTyped /\ HeldTyped /\ PathStands(s)
  BY Typed DEF LockActivity, At, Stands
<1>2. AfterActivity(s) \in {"commit", "references", "slug", "checkpoint"}
  BY <1>1, JobTypes, RequestTypes
     DEF AfterActivity, UpdateOrder, PathStands, Path, Kind, Req, OnActivity, OnCheckpoint
<1>3. PICK stage \in Stages : stage = AfterActivity(s)
  BY <1>2 DEF Stages
<1>4. /\ job'[s] # None /\ job'[s].stage = stage
      /\ \A u \in Sessions \ {s} : job'[u] = job[u]
  BY <1>1, <1>3, Moves
<1>5. /\ Behind(job[s].stage) \subseteq Behind(job'[s].stage)
      /\ "activity" \in Behind(job'[s].stage)
  BY <1>1, <1>2, <1>3, <1>4 DEF Behind
<1>6. \A l \in Needs(s) : l[1][1] \in Behind(job'[s].stage)
  BY <1>1, <1>5, NeedKinds
<1>7. held'[s] = held[s] \cup Needs(s) /\ \A u \in Sessions \ {s} : held'[u] = held[u]
  BY <1>1 DEF Acquire, HeldTyped
<1> QED
  BY <1>4, <1>5, <1>6, <1>7, OrderGoesOn

LEMMA LockCheckpointInOrder ==
  ASSUME IInv, LocksInOrder, NEW s \in Sessions, LockCheckpoint(s)
  PROVE  LocksInOrder'
<1> DEFINE next == IF Kind(s) = "update_checkpoint" THEN UpdateOrder(s, "checkpoint") ELSE "commit"
<1>1. /\ job[s] # None /\ job[s].stage = "checkpoint" /\ Move(s, next)
      /\ JobsTyped /\ HeldTyped
      /\ held' = [held EXCEPT ![s] = @ \cup Needs(s) \cup OldKey(s)]
  BY Typed DEF LockCheckpoint, At
<1>2. next \in {"slug", "commit"}
  BY DEF UpdateOrder
<1> HIDE DEF next
<1>3. PICK stage \in Stages : stage = next
  BY <1>2 DEF Stages
<1>4. /\ job'[s] # None /\ job'[s].stage = stage
      /\ \A u \in Sessions \ {s} : job'[u] = job[u]
  BY <1>1, <1>3, Moves
<1>5. Behind(job[s].stage) \subseteq Behind(job'[s].stage)
      /\ {"checkpoint", "slug"} \subseteq Behind(job'[s].stage)
  BY <1>1, <1>2, <1>3, <1>4 DEF Behind
<1>6. \A l \in OldKey(s) : l[1][1] = "slug"
  BY RowKinds DEF OldKey
<1>7. \A l \in Needs(s) \cup OldKey(s) : l[1][1] \in Behind(job'[s].stage)
  BY <1>1, <1>5, <1>6, NeedKinds
<1>8. /\ held'[s] = held[s] \cup (Needs(s) \cup OldKey(s))
      /\ \A u \in Sessions \ {s} : held'[u] = held[u]
  BY <1>1 DEF HeldTyped
<1> QED
  BY <1>4, <1>5, <1>7, <1>8, OrderGoesOn

LEMMA ClaimSlugInOrder ==
  ASSUME IInv, LocksInOrder, NEW s \in Sessions, ClaimSlug(s)
  PROVE  LocksInOrder'
<1>1. /\ job[s] # None /\ job[s].stage = "slug" /\ Acquire(s) /\ Move(s, "commit")
      /\ JobsTyped /\ HeldTyped
  BY Typed DEF ClaimSlug, At
<1>2. /\ job'[s] # None /\ job'[s].stage = "commit"
      /\ \A u \in Sessions \ {s} : job'[u] = job[u]
  BY <1>1, Moves DEF Stages
<1>3. Behind(job[s].stage) \subseteq Behind(job'[s].stage) /\ "slug" \in Behind(job'[s].stage)
  BY <1>1, <1>2 DEF Behind
<1>4. \A l \in Needs(s) : l[1][1] \in Behind(job'[s].stage)
  BY <1>1, <1>3, NeedKinds
<1>5. held'[s] = held[s] \cup Needs(s) /\ \A u \in Sessions \ {s} : held'[u] = held[u]
  BY <1>1 DEF Acquire, HeldTyped
<1> QED
  BY <1>2, <1>3, <1>4, <1>5, OrderGoesOn

LEMMA RecheckEntranceInOrder ==
  ASSUME IInv, LocksInOrder, NEW s \in Sessions, RecheckEntrance(s)
  PROVE  LocksInOrder'
<1>1. /\ job[s] # None /\ job[s].stage = "recheck" /\ Acquire(s) /\ JobsTyped /\ HeldTyped
  BY Typed DEF RecheckEntrance, At
<1>2. /\ job'[s] # None /\ job'[s].stage \in {"commit", "configured"}
      /\ \A u \in Sessions \ {s} : job'[u] = job[u]
  <2>1. PICK stage \in {"commit", "configured"}, found \in Checkpoints \cup {None} :
          job' = [job EXCEPT ![s].stage = stage, ![s].found = found]
    BY <1>1, JobTypes DEF RecheckEntrance
  <2> DEFINE j == [job[s] EXCEPT !.stage = stage, !.found = found]
  <2>2. j \in Jobs /\ j.stage = stage
    BY <1>1, JobTypes DEF Jobs, Stages
  <2>3. job' = [job EXCEPT ![s] = j]
    BY <2>1
  <2> HIDE DEF j
  <2> QED
    BY <1>1, <2>2, <2>3, NewJob
<1>3. Behind(job[s].stage) \subseteq Behind(job'[s].stage) /\ "checkpoint" \in Behind(job'[s].stage)
  BY <1>1, <1>2 DEF Behind
<1>4. \A l \in Needs(s) : l[1][1] \in Behind(job'[s].stage)
  BY <1>1, <1>3, NeedKinds
<1>5. held'[s] = held[s] \cup Needs(s) /\ \A u \in Sessions \ {s} : held'[u] = held[u]
  BY <1>1 DEF Acquire, HeldTyped
<1> QED
  BY <1>2, <1>3, <1>4, <1>5, OrderGoesOn

\* Steps that lock nothing.
LEMMA UnlockedInOrder ==
  ASSUME IInv, LocksInOrder, NEW s \in Sessions,
         ReadCycle(s) \/ CheckReferences(s) \/ LookForEntrance(s) \/ CheckUnconfigured(s)
  PROVE  LocksInOrder'
<1>1. JobsTyped /\ HeldTyped /\ job[s] # None /\ held' = held
  BY Typed DEF ReadCycle, CheckReferences, LookForEntrance, CheckUnconfigured, At
<1>2. /\ job'[s] # None /\ Behind(job[s].stage) \subseteq Behind(job'[s].stage)
      /\ \A u \in Sessions \ {s} : job'[u] = job[u]
  <2>1. CASE ReadCycle(s)
    <3>1. /\ job[s].stage = "read" /\ \A u \in Sessions \ {s} : job'[u] = job[u]
          /\ job'[s] = [job[s] EXCEPT !.cycle = checkpoints[Req(s).checkpoint].cycle,
                                      !.stage = UpdateOrder(s, "read")]
      BY <1>1, <2>1 DEF ReadCycle, At, JobsTyped
    <3>2. job'[s] \in Jobs
      <4>1. Req(s).checkpoint \in Existing
        BY <2>1 DEF ReadCycle
      <4>2. checkpoints[Req(s).checkpoint].cycle \in Cycles
        BY <4>1, RowTypes
      <4>3. UpdateOrder(s, "read") \in Stages
        BY DEF UpdateOrder, Stages
      <4> QED
        BY <1>1, <3>1, <4>2, <4>3, JobTypes DEF Jobs
    <3> QED
      BY <3>1, <3>2, Absent DEF Behind
  <2>2. CASE CheckReferences(s)
    <3>1. Move(s, "commit") /\ "commit" \in Stages
      BY <2>2 DEF CheckReferences, Stages
    <3> QED
      BY <1>1, <3>1, Moves, JobTypes DEF Behind, Stages
  <2>3. CASE LookForEntrance(s)
    <3>1. job[s].stage = "entrance"
      BY <2>3 DEF LookForEntrance, At
    <3>2. PICK stage \in {"configured", "recheck"}, found \in Checkpoints \cup {None} :
            job' = [job EXCEPT ![s].stage = stage, ![s].found = found]
      <4>1. CASE Move(s, "configured")
        <5>1. job[s] = [job[s] EXCEPT !.found = job[s].found]
          BY <1>1, JobTypes DEF Jobs
        <5>2. job' = [job EXCEPT ![s].stage = "configured", ![s].found = job[s].found]
          BY <1>1, <4>1, <5>1 DEF Move, JobsTyped
        <5> QED
          BY <1>1, <5>2, JobTypes
      <4> QED
        BY <2>3, <4>1 DEF LookForEntrance, InCycle, Existing
    <3> DEFINE j == [job[s] EXCEPT !.stage = stage, !.found = found]
    <3>3. j \in Jobs /\ j.stage = stage
      BY <1>1, JobTypes DEF Jobs, Stages
    <3>4. job' = [job EXCEPT ![s] = j]
      BY <3>2
    <3> HIDE DEF j
    <3>5. /\ job'[s] # None /\ job'[s].stage = stage
          /\ \A u \in Sessions \ {s} : job'[u] = job[u]
      BY <1>1, <3>3, <3>4, NewJob
    <3> QED
      BY <3>1, <3>2, <3>5 DEF Behind
  <2>4. CASE CheckUnconfigured(s)
    <3>1. Move(s, "slug") /\ "slug" \in Stages /\ job[s].stage = "configured"
      BY <2>4 DEF CheckUnconfigured, At, Stages
    <3> QED
      BY <1>1, <3>1, Moves DEF Behind
  <2> QED
    BY <2>1, <2>2, <2>3, <2>4
<1> QED
  BY <1>1, <1>2 DEF LocksInOrder

LEMMA NextInOrder ==
  ASSUME IInv, LocksInOrder, [Next]_vars
  PROVE  LocksInOrder'
<1>1. ASSUME NEW s \in Sessions, End(s)
      PROVE  LocksInOrder'
  <2>1. /\ held'[s] = {} /\ \A u \in Sessions \ {s} : job'[u] = job[u] /\ held'[u] = held[u]
    BY <1>1, Typed, EndFrees
  <2> QED
    BY <2>1 DEF LocksInOrder
<1>2. ASSUME NEW s \in Sessions, Ask(s)
      PROVE  LocksInOrder'
  <2>1. /\ held' = held /\ held[s] = {} /\ \A u \in Sessions \ {s} : job'[u] = job[u]
    BY <1>2, Typed DEF Ask, LocksInOrder, JobsTyped
  <2> QED
    BY <2>1 DEF LocksInOrder
<1>3. ASSUME job' = job /\ held' = held
      PROVE  LocksInOrder'
  BY <1>3 DEF LocksInOrder
<1>4. \/ job' = job /\ held' = held
      \/ \E s \in Sessions :
           \/ Ask(s) \/ LockCycle(s) \/ LockActivity(s) \/ LockCheckpoint(s) \/ ClaimSlug(s)
           \/ RecheckEntrance(s) \/ End(s)
           \/ ReadCycle(s) \/ CheckReferences(s) \/ LookForEntrance(s) \/ CheckUnconfigured(s)
  BY DEF Next, vars, SwitchCycle, CreateActivity, UpdateActivity, DeleteActivity,
     CreateCheckpoint, UpdateCheckpoint, DeleteCheckpoint, EnableEntrance, Refuse
<1> QED
  BY <1>1, <1>2, <1>3, <1>4, LockCycleInOrder, LockActivityInOrder, LockCheckpointInOrder,
     ClaimSlugInOrder, RecheckEntranceInOrder, UnlockedInOrder

\* Who waits for another has a need that the other's lock stands in the way of.
LEMMA WaitsFor ==
  ASSUME IInv, LocksInOrder, NEW s \in Sessions, NEW u \in Sessions, u \in Waits[s]
  PROVE  /\ job[s] # None /\ job[u] # None
         /\ \E n \in Needs(s), l \in held[u] :
              l[1] = n[1] /\ l[1][1] \in Behind(job[u].stage)
<1>1. job[s] # None /\ \E n \in Needs(s) : u \in Blockers(held, s, n[1], n[2])
  BY DEF Waits
<1>2. PICK n \in Needs(s), m \in Modes : <<n[1], m>> \in held[u]
  BY <1>1 DEF Blockers
<1>3. job[u] # None /\ <<n[1], m>>[1][1] \in Behind(job[u].stage)
  BY <1>2 DEF LocksInOrder
<1> QED
  BY <1>1, <1>2, <1>3

\* Rows are locked cycle, activity, checkpoint, so whoever waits for one of
\* these can be waited for only by somebody who waits for an earlier one; and
\* only a rename holds an entry of the unique index while it waits for another.
THEOREM Deadlocks == Spec => []OnlyRenamesDeadlock
<1>1. IInv /\ LocksInOrder => OnlyRenamesDeadlock
  <2> SUFFICES ASSUME IInv, LocksInOrder, NEW S \in SUBSET Sessions,
                      \A s \in S : Waits[s] \cap S # {} /\ \E t \in S : s \in Waits[t],
                      NEW s \in S
               PROVE  At(s, "slug") /\ Kind(s) = "update_checkpoint"
    BY DEF OnlyRenamesDeadlock
  <2>1. \A u \in S : /\ job[u] # None
                     /\ job[u].stage \in {"cycle", "activity", "references", "checkpoint",
                                          "recheck", "slug"}
    BY WaitsFor, NeedKinds
  <2>2. \A u \in S : \E t \in S : \E n \in Needs(t), l \in held[u] :
          l[1] = n[1] /\ l[1][1] \in Behind(job[u].stage)
    BY WaitsFor
  <2>3. /\ Behind("cycle") = {} /\ Behind("activity") = {"cycle"}
        /\ \A stage \in {"references", "checkpoint", "recheck"} :
             Behind(stage) = {"cycle", "activity"}
    BY DEF Behind
  <2>4. \A u \in S : job[u].stage # "cycle"
    BY <2>2, <2>3
  <2>5. \A u \in S : job[u].stage # "activity"
    <3> SUFFICES ASSUME NEW u \in S, job[u].stage = "activity"
                 PROVE  FALSE
      OBVIOUS
    <3>1. PICK t \in S : \E n \in Needs(t) : n[1][1] = "cycle"
      BY <2>2, <2>3
    <3>2. PICK n \in Needs(t) : n[1][1] = "cycle"
      BY <3>1
    <3> QED
      BY <2>4, <3>2, NeedKinds
  <2>6. \A u \in S : job[u].stage \notin {"references", "checkpoint", "recheck"}
    <3> SUFFICES ASSUME NEW u \in S, job[u].stage \in {"references", "checkpoint", "recheck"}
                 PROVE  FALSE
      OBVIOUS
    <3>1. PICK t \in S : \E n \in Needs(t) : n[1][1] \in {"cycle", "activity"}
      BY <2>2, <2>3
    <3>2. PICK n \in Needs(t) : n[1][1] \in {"cycle", "activity"}
      BY <3>1
    <3> QED
      BY <2>4, <2>5, <3>2, NeedKinds
  <2>7. \A u \in S : job[u].stage = "slug"
    BY <2>1, <2>4, <2>5, <2>6
  <2>8. PICK l \in held[s] : l[1][1] = "slug"
    BY <2>2, <2>7, NeedKinds
  <2>9. PICK cy \in Cycles, slug \in Slugs, m \in Modes : l = <<SlugKey(cy, slug), m>>
    <3>1. l \in LockRows \X Modes
      BY Typed DEF HeldTyped
    <3> QED
      BY <2>8, <3>1, RowKinds DEF LockRows
  <2>10. HasCheckpoint(s)
    BY <2>7, <2>9, Typed DEF KeysStand, Claims
  <2> QED
    BY <2>1, <2>7, <2>10 DEF HasCheckpoint, At
<1>2. Init => LocksInOrder
  BY DEF Init, LocksInOrder
<1>3. IInv /\ LocksInOrder /\ [Next]_vars => LocksInOrder'
  BY NextInOrder
<1> QED
  BY <1>1, <1>2, <1>3, Invariance, PTL DEF Spec

===============================================================================
