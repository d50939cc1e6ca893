-------------------------- MODULE StaffAccessProofs --------------------------
(***************************************************************************)
(* Theorems about StaffAccess, for any number of users, requests under way *)
(* and staff passes: whoever changes a role or reviews a request holds its *)
(* row until the commit, and a bootstrap commits only over the organizers  *)
(* it counted.                                                             *)
(***************************************************************************)
EXTENDS StaffAccess, TLAPS

RoleKinds == {"grant", "revoke", "review"}

-------------------------------------------------------------------------------
(* What the small operators do.                                            *)

\* Which fields a request has.
LEMMA RequestTypes ==
  ASSUME NEW req \in Requests
  PROVE  /\ req.kind \in RoleKinds \cup {"volunteer", "staff_pass", "bootstrap"}
         /\ req.kind # "bootstrap" => req.actor \in Users
         /\ req.kind \in RoleKinds \cup {"bootstrap"} => req.target \in Users
         /\ req.kind = "review" => req.verdict \in Verdicts
BY DEF Requests, RoleRequests, ReviewRequests, VolunteerRequests, PassRequests,
       BootstrapRequests, RoleKinds

LEMMA JobTypes ==
  ASSUME TypeOK, NEW s \in Sessions, job[s] # None
  PROVE  /\ job[s] \in Jobs /\ job[s].req \in Requests /\ job[s].stage \in Stages
         /\ job[s].admin \in BOOLEAN /\ job[s].changed \in BOOLEAN
BY DEF TypeOK, Jobs

\* A request that starts.
LEMMA StartTypes ==
  ASSUME TypeOK, NEW s \in Sessions, NEW req \in Requests, NEW stage \in Stages,
         NEW admin \in BOOLEAN, NEW saw \in SUBSET Users,
         job' = [job EXCEPT ![s] = [req |-> req, stage |-> stage, admin |-> admin,
                                    changed |-> FALSE, saw |-> saw]]
  PROVE  /\ job' \in [Sessions -> Jobs \cup {None}]
         /\ job'[s].req = req /\ job'[s].stage = stage /\ job'[s].changed = FALSE
         /\ \A u \in Sessions \ {s} : job'[u] = job[u]
<1>1. [req |-> req, stage |-> stage, admin |-> admin, changed |-> FALSE, saw |-> saw] \in Jobs
  BY DEF Jobs
<1> QED
  BY <1>1 DEF TypeOK

\* A request that moves on, maybe with what its statement wrote.
LEMMA MoveTypes ==
  ASSUME TypeOK, NEW s \in Sessions, job[s] # None, NEW stage \in Stages,
         NEW changed \in BOOLEAN,
         job' = [job EXCEPT ![s].stage = stage, ![s].changed = changed]
  PROVE  /\ job' \in [Sessions -> Jobs \cup {None}]
         /\ job'[s].req = job[s].req /\ job'[s].stage = stage
         /\ job'[s].changed = changed /\ job'[s] # None
         /\ \A u \in Sessions \ {s} : job'[u] = job[u]
<1> DEFINE new == [job[s] EXCEPT !.stage = stage, !.changed = changed]
<1>1. /\ new \in Jobs /\ new.req = job[s].req /\ new.stage = stage /\ new.changed = changed
  BY JobTypes DEF Jobs
<1>2. new # None
  BY <1>1, NoneAssumption
<1>3. job' = [job EXCEPT ![s] = new]
  BY DEF TypeOK
<1> HIDE DEF new
<1> QED
  BY <1>1, <1>2, <1>3 DEF TypeOK

LEMMA PlainMove ==
  ASSUME TypeOK, NEW s \in Sessions, job[s] # None, NEW stage \in Stages, Move(s, stage)
  PROVE  /\ job' \in [Sessions -> Jobs \cup {None}]
         /\ job'[s].req = job[s].req /\ job'[s].stage = stage
         /\ job'[s].changed = job[s].changed /\ job'[s] # None
         /\ \A u \in Sessions \ {s} : job'[u] = job[u]
<1> DEFINE new == [job[s] EXCEPT !.stage = stage]
<1>1. /\ new \in Jobs /\ new.req = job[s].req /\ new.stage = stage
      /\ new.changed = job[s].changed
  BY JobTypes DEF Jobs
<1>2. new # None
  BY <1>1, NoneAssumption
<1>3. job' = [job EXCEPT ![s] = new]
  BY DEF Move
<1> HIDE DEF new
<1> QED
  BY <1>1, <1>2, <1>3 DEF TypeOK

\* Locks that are taken and given up.
LEMMA AcquireChanges ==
  ASSUME LocksExclude, NEW s \in Sessions,
         NEW row \in {"volunteer_request", "scanner_role"} \X Users \cup {BootstrapLock},
         Acquire(s, row)
  PROVE  /\ LocksExclude' /\ held'[s] = held[s] \cup {<<row, "update">>}
         /\ \A u \in Sessions \ {s} : held'[u] = held[u]
<1>1. /\ held'[s] = held[s] \cup {<<row, "update">>}
      /\ \A u \in Sessions \ {s} : held'[u] = held[u]
  BY DEF LocksExclude, Acquire
<1>2. ASSUME NEW u \in Sessions \ {s}, <<row, "update">> \in held[u]
      PROVE  FALSE
  <2>1. "update" \in Modes /\ ~Compatible("update", "update")
    BY DEF Modes, Compatible
  <2>2. u \in DOMAIN held \ {s}
    BY DEF LocksExclude
  <2>3. u \in Blockers(held, s, row, "update")
    BY <1>2, <2>1, <2>2 DEF Blockers
  <2> QED
    BY <2>3 DEF Acquire, Grantable
<1>3. \A t, u \in Sessions : t # u => held'[t] \cap held'[u] = {}
  BY <1>1, <1>2 DEF LocksExclude
<1>4. held' \in [Sessions -> SUBSET (({"volunteer_request", "scanner_role"} \X Users
                                        \cup {BootstrapLock}) \X {"update"})]
  BY DEF LocksExclude, Acquire
<1> QED
  BY <1>1, <1>3, <1>4 DEF LocksExclude

LEMMA EndChanges ==
  ASSUME TypeOK, LocksExclude, NEW s \in Sessions, End(s)
  PROVE  /\ LocksExclude' /\ job' \in [Sessions -> Jobs \cup {None}]
         /\ job'[s] = None /\ held'[s] = {}
         /\ \A u \in Sessions \ {s} : job'[u] = job[u] /\ held'[u] = held[u]
BY DEF TypeOK, LocksExclude, End

\* What Told adds to the trail.
LEMMA ToldCounts ==
  ASSUME TypeOK, NEW es \in SUBSET Events, NEW u \in Users, audit' = Told(es, u)
  PROVE  /\ audit' \in [Events -> [Users -> Nat]]
         /\ \A e \in es : audit'[e][u] = audit[e][u] + 1
         /\ \A e \in Events, v \in Users : e \notin es \/ v # u => audit'[e][v] = audit[e][v]
<1>1. audit \in [Events -> [Users -> Nat]]
  BY DEF TypeOK
<1>2. /\ DOMAIN audit' = Events /\ audit' = [e \in Events |-> audit'[e]]
      /\ \A e \in Events :
           audit'[e] = IF e \in es THEN [audit[e] EXCEPT ![u] = @ + 1] ELSE audit[e]
  BY DEF Told
<1>3. \A e \in es : audit'[e] \in [Users -> Nat] /\ audit'[e][u] = audit[e][u] + 1
  BY <1>1, <1>2
<1>4. \A e \in Events \ es : audit'[e] = audit[e]
  BY <1>2
<1>5. \A e \in es, v \in Users : v # u => audit'[e][v] = audit[e][v]
  BY <1>1, <1>2
<1>6. audit' \in [Events -> [Users -> Nat]]
  BY <1>1, <1>2, <1>3, <1>4
<1> QED
  BY <1>3, <1>4, <1>5, <1>6

-------------------------------------------------------------------------------
(* Sessions that do not move.                                              *)

LEMMA StandsOn ==
  ASSUME IInv, NEW u \in Sessions, job'[u] = job[u], held'[u] = held[u],
         \A v \in Users : \/ status'[v] = status[v] \/ status[v] = None
                          \/ <<RequestRow(v), "update">> \notin held[u],
         \A v \in Users : \/ v \in scanners' <=> v \in scanners
                          \/ <<RoleRow(v), "update">> \notin held[u]
  PROVE  RoleStands(u)' /\ ReviewStands(u)'
<1>1. /\ TypeOK /\ RoleStands(u) /\ ReviewStands(u)
  BY DEF IInv
<1>2. RoleStands(u)'
  <2> SUFFICES ASSUME job[u] # None, job[u].changed
               PROVE  /\ At(u, RoleKinds, "commit")'
                      /\ <<RoleRow(Target(u))', "update">> \in held'[u]
                      /\ (Target(u)' \in scanners') # Grants(u)'
    BY DEF RoleStands, RoleKinds, RoleRow
  <2>1. /\ At(u, RoleKinds, "commit") /\ <<RoleRow(Target(u)), "update">> \in held[u]
        /\ (Target(u) \in scanners) # Grants(u)
    BY <1>1 DEF RoleStands, RoleKinds
  <2>2. Target(u)' = Target(u) /\ Grants(u)' = Grants(u) /\ At(u, RoleKinds, "commit")'
    BY <2>1 DEF Target, Grants, At
  <2>3. Target(u) \in Users
    BY <1>1, <2>1, JobTypes, RequestTypes DEF Target, At
  <2> QED
    BY <2>1, <2>2, <2>3 DEF RoleRow
<1>3. ReviewStands(u)'
  <2> SUFFICES ASSUME At(u, {"review"}, "write") \/ At(u, {"review"}, "commit")
               PROVE  /\ <<RequestRow(Target(u))', "update">> \in held'[u]
                      /\ status'[Target(u)'] = Expected(job[u].req.verdict)
                      /\ job[u].req.verdict = "rejected" => job[u].stage = "commit" /\ ~job[u].changed
    BY DEF ReviewStands, At, RequestRow, Expected
  <2>1. /\ <<RequestRow(Target(u)), "update">> \in held[u]
        /\ status[Target(u)] = Expected(job[u].req.verdict)
        /\ job[u].req.verdict = "rejected" => job[u].stage = "commit" /\ ~job[u].changed
    BY <1>1 DEF ReviewStands
  <2>2. Target(u)' = Target(u)
    BY DEF Target
  <2>3. Target(u) \in Users
    BY <1>1, JobTypes, RequestTypes DEF Target, At, RoleKinds
  <2>4. status[Target(u)] # None
    BY <2>1, NoneAssumption DEF Expected, Verdicts
  <2> QED
    BY <2>1, <2>2, <2>3, <2>4 DEF RequestRow
<1> QED
  BY <1>2, <1>3

LEMMA OthersStand ==
  ASSUME IInv, NEW s \in Sessions, NEW u \in Sessions, u # s,
         job'[u] = job[u], held'[u] = held[u],
         \A v \in Users : \/ status'[v] = status[v] \/ status[v] = None
                          \/ <<RequestRow(v), "update">> \in held[s],
         \A v \in Users : \/ v \in scanners' <=> v \in scanners
                          \/ <<RoleRow(v), "update">> \in held[s]
  PROVE  RoleStands(u)' /\ ReviewStands(u)'
<1>1. held[s] \cap held[u] = {}
  BY DEF IInv, LocksExclude
<1> QED
  BY <1>1, StandsOn

\* One session's step, whatever it is, keeps the invariant if it keeps these.
LEMMA Compose ==
  ASSUME IInv, NEW s \in Sessions,
         TypeOK', LocksExclude', RoleTrail', ReviewTrail', OneBootstrap', OneCredential',
         \A u \in Sessions \ {s} : job'[u] = job[u] /\ held'[u] = held[u],
         \A v \in Users : \/ status'[v] = status[v] \/ status[v] = None
                          \/ <<RequestRow(v), "update">> \in held[s],
         \A v \in Users : \/ v \in scanners' <=> v \in scanners
                          \/ <<RoleRow(v), "update">> \in held[s],
         RoleStands(s)', ReviewStands(s)'
  PROVE  IInv'
<1>1. \A u \in Sessions \ {s} : RoleStands(u)' /\ ReviewStands(u)'
  BY OthersStand
<1>2. IInv' <=> /\ TypeOK' /\ LocksExclude'
                /\ RoleTrail' /\ ReviewTrail' /\ OneBootstrap' /\ OneCredential'
                /\ \A u \in Sessions : RoleStands(u)' /\ ReviewStands(u)'
  BY DEF IInv, RoleStands, ReviewStands
<1> QED
  BY <1>1, <1>2

\* A step that leaves the tables as they are.
LEMMA QuietKeeps ==
  ASSUME IInv, NEW s \in Sessions, UNCHANGED <<tables, shown>>, LocksExclude',
         clerk' \in [Users -> BOOLEAN], stored' \in [Users -> BOOLEAN \cup {None}],
         job' \in [Sessions -> Jobs \cup {None}],
         \A u \in Sessions \ {s} : job'[u] = job[u] /\ held'[u] = held[u],
         RoleStands(s)', ReviewStands(s)'
  PROVE  IInv'
<1>1. TypeOK' /\ RoleTrail' /\ ReviewTrail' /\ OneBootstrap' /\ OneCredential'
  BY DEF IInv, TypeOK, RoleTrail, ReviewTrail, OneBootstrap, OneCredential, Count, tables
<1> QED
  BY <1>1, Compose DEF tables

\* A session that is done has nothing to keep.
LEMMA Standing ==
  ASSUME NEW s \in Sessions, job'[s] = None
  PROVE  RoleStands(s)' /\ ReviewStands(s)'
BY DEF RoleStands, ReviewStands, At

-------------------------------------------------------------------------------
(* Steps that change no table.                                             *)

LEMMA TypesNow ==
  ASSUME IInv
  PROVE  /\ TypeOK /\ LocksExclude
         /\ clerk \in [Users -> BOOLEAN] /\ stored \in [Users -> BOOLEAN \cup {None}]
BY DEF IInv, TypeOK

LEMMA ChangeEmailKeeps ==
  ASSUME IInv, NEW u \in Users, ChangeEmail(u)
  PROVE  IInv'
<1>1. /\ clerk' \in [Users -> BOOLEAN] /\ UNCHANGED <<stored, tables, shown, job, held>>
  BY TypesNow DEF ChangeEmail
<1>2. TypeOK' /\ RoleTrail' /\ ReviewTrail' /\ OneBootstrap' /\ OneCredential' /\ LocksExclude'
  BY <1>1 DEF IInv, TypeOK, RoleTrail, ReviewTrail, OneBootstrap, OneCredential, Count, tables,
              LocksExclude
<1>3. ASSUME NEW s \in Sessions
      PROVE  RoleStands(s)' /\ ReviewStands(s)'
  <2>1. job'[s] = job[s] /\ held'[s] = held[s] /\ status' = status /\ scanners' = scanners
    BY <1>1 DEF tables
  <2> QED
    BY <2>1, StandsOn
<1>4. IInv' <=> /\ TypeOK' /\ LocksExclude'
                /\ RoleTrail' /\ ReviewTrail' /\ OneBootstrap' /\ OneCredential'
                /\ \A t \in Sessions : RoleStands(t)' /\ ReviewStands(t)'
  BY DEF IInv, RoleStands, ReviewStands
<1> QED
  BY <1>2, <1>3, <1>4

\* A request, or a bootstrap, that starts has written nothing.
LEMMA StartKeeps ==
  ASSUME IInv, NEW s \in Sessions, UNCHANGED <<clerk, stored, tables, shown, held>>,
         NEW req \in Requests, NEW stage \in {"resolve", "read"},
         NEW admin \in BOOLEAN, NEW saw \in SUBSET Users,
         job' = [job EXCEPT ![s] = [req |-> req, stage |-> stage, admin |-> admin,
                                    changed |-> FALSE, saw |-> saw]]
  PROVE  IInv'
<1>1. stage \in Stages
  BY DEF Stages
<1>2. /\ job' \in [Sessions -> Jobs \cup {None}]
      /\ job'[s].stage = stage /\ job'[s].changed = FALSE
      /\ \A u \in Sessions \ {s} : job'[u] = job[u] /\ held'[u] = held[u]
  BY <1>1, TypesNow, StartTypes
<1>3. LocksExclude'
  BY TypesNow DEF LocksExclude
<1>4. RoleStands(s)' /\ ReviewStands(s)'
  BY <1>2 DEF RoleStands, ReviewStands, At
<1> QED
  BY <1>2, <1>3, <1>4, TypesNow, QuietKeeps

LEMMA ArriveKeeps ==
  ASSUME IInv, NEW s \in Sessions, Arrive(s)
  PROVE  IInv'
<1>1. PICK req \in Asked :
        /\ req.kind # "bootstrap"
        /\ job' = [job EXCEPT ![s] = [req |-> req, stage |-> "resolve",
                     admin |-> clerk[req.actor], changed |-> FALSE, saw |-> {}]]
  BY DEF Arrive
<1>2. req \in Requests /\ req.actor \in Users
  BY <1>1, AskedAssumption, RequestTypes
<1>3. clerk[req.actor] \in BOOLEAN
  BY <1>2, TypesNow
<1>4. UNCHANGED <<clerk, stored, tables, shown, held>>
  BY DEF Arrive
<1>5. PICK admin \in BOOLEAN : admin = clerk[req.actor]
  BY <1>3
<1>6. PICK saw \in SUBSET Users : saw = {}
  OBVIOUS
<1>7. job' = [job EXCEPT ![s] = [req |-> req, stage |-> "resolve", admin |-> admin,
                                 changed |-> FALSE, saw |-> saw]]
  BY <1>1, <1>5, <1>6
<1> QED
  BY <1>2, <1>4, <1>7, StartKeeps

LEMMA StartBootstrapKeeps ==
  ASSUME IInv, NEW s \in Sessions, StartBootstrap(s)
  PROVE  IInv'
<1>1. PICK req \in Asked :
        job' = [job EXCEPT ![s] = [req |-> req, stage |-> "read", admin |-> FALSE,
                                   changed |-> FALSE, saw |-> organizers]]
  BY DEF StartBootstrap
<1>2. req \in Requests /\ organizers \in SUBSET Users
  BY AskedAssumption DEF IInv, TypeOK
<1>3. UNCHANGED <<clerk, stored, tables, shown, held>>
  BY DEF StartBootstrap
<1> QED
  BY <1>1, <1>2, <1>3, StartKeeps

\* A request that ends and leaves the tables as they are.
LEMMA EndKeeps ==
  ASSUME IInv, NEW s \in Sessions, End(s), UNCHANGED <<clerk, stored, tables, shown>>
  PROVE  IInv'
BY TypesNow, EndChanges, Standing, QuietKeeps

LEMMA RefuseKeeps ==
  ASSUME IInv, NEW s \in Sessions, Refuse(s)
  PROVE  IInv'
BY EndKeeps DEF Refuse

\* A step without a lock, to a stage where nothing has been written.
LEMMA MoveKeeps ==
  ASSUME IInv, NEW s \in Sessions, job[s] # None, UNCHANGED <<clerk, tables, shown, held>>,
         stored' \in [Users -> BOOLEAN \cup {None}],
         NEW stage \in Stages, Move(s, stage), ~job[s].changed,
         job[s].req.kind = "review" => stage \notin {"write", "commit"}
  PROVE  IInv'
<1>1. /\ job' \in [Sessions -> Jobs \cup {None}]
      /\ job'[s].req = job[s].req /\ job'[s].stage = stage /\ ~job'[s].changed
      /\ \A u \in Sessions \ {s} : job'[u] = job[u] /\ held'[u] = held[u]
  BY TypesNow, PlainMove
<1>2. LocksExclude'
  BY TypesNow DEF LocksExclude
<1>3. RoleStands(s)' /\ ReviewStands(s)'
  BY <1>1 DEF RoleStands, ReviewStands, At
<1> QED
  BY <1>1, <1>2, <1>3, TypesNow, QuietKeeps

LEMMA ResolveKeeps ==
  ASSUME IInv, NEW s \in Sessions, Resolve(s)
  PROVE  IInv'
<1>1. /\ job[s] # None /\ job[s].stage = "resolve" /\ UNCHANGED <<clerk, tables, shown, held>>
      /\ stored' = [stored EXCEPT ![Actor(s)] = job[s].admin]
  BY DEF Resolve, UpsertClerkUser
<1>2. stored' \in [Users -> BOOLEAN \cup {None}] /\ ~job[s].changed /\ "read" \in Stages
  <2>1. job[s].admin \in BOOLEAN
    BY <1>1, TypesNow, JobTypes
  <2>2. ~job[s].changed
    BY <1>1 DEF IInv, RoleStands, At
  <2> QED
    BY <1>1, <2>1, <2>2, TypesNow DEF Stages
<1>3. CASE Move(s, "read")
  BY <1>1, <1>2, <1>3, MoveKeeps
<1>4. CASE job' = [job EXCEPT ![s] = None]
  <2>1. /\ job' \in [Sessions -> Jobs \cup {None}] /\ job'[s] = None /\ LocksExclude'
        /\ \A u \in Sessions \ {s} : job'[u] = job[u] /\ held'[u] = held[u]
    BY <1>1, <1>4, TypesNow DEF TypeOK, LocksExclude
  <2> QED
    BY <1>1, <1>2, <2>1, TypesNow, Standing, QuietKeeps
<1> QED
  BY <1>3, <1>4 DEF Resolve

LEMMA CheckTargetKeeps ==
  ASSUME IInv, NEW s \in Sessions, CheckTarget(s)
  PROVE  IInv'
<1>1. /\ job[s] # None /\ job[s].req.kind \in {"grant", "revoke"} /\ job[s].stage = "read"
      /\ Move(s, "write") /\ UNCHANGED <<clerk, stored, tables, shown, held>>
  BY DEF CheckTarget, At
<1>2. ~job[s].changed /\ "write" \in Stages
  BY <1>1 DEF IInv, RoleStands, At, Stages
<1> QED
  BY <1>1, <1>2, TypesNow, MoveKeeps

\* A step that takes a lock and leaves the tables as they are.
LEMMA LockKeeps ==
  ASSUME IInv, NEW s \in Sessions, UNCHANGED <<clerk, stored, tables, shown>>,
         NEW row \in {"volunteer_request", "scanner_role"} \X Users \cup {BootstrapLock},
         Acquire(s, row), job' \in [Sessions -> Jobs \cup {None}],
         \A u \in Sessions \ {s} : job'[u] = job[u],
         RoleStands(s)', ReviewStands(s)'
  PROVE  IInv'
BY TypesNow, AcquireChanges, QuietKeeps

LEMMA LockRequestKeeps ==
  ASSUME IInv, NEW s \in Sessions, LockRequest(s)
  PROVE  IInv'
<1> DEFINE stage == IF job[s].req.verdict = "rejected" THEN "commit" ELSE "write"
<1>1. /\ job[s] # None /\ job[s].req.kind = "review" /\ job[s].stage = "read"
      /\ Acquire(s, RequestRow(Target(s)))
      /\ status[Target(s)] = Expected(job[s].req.verdict)
      /\ Move(s, stage) /\ UNCHANGED <<clerk, stored, tables, shown>>
  BY DEF LockRequest, At
<1>2. /\ ~job[s].changed /\ stage \in Stages
      /\ job[s].req.verdict = "rejected" => stage = "commit"
  BY <1>1 DEF IInv, RoleStands, At, Stages
<1> HIDE DEF stage
<1>3. Target(s) \in Users
  BY <1>1, TypesNow, JobTypes, RequestTypes DEF Target, RoleKinds
<1>4. RequestRow(Target(s)) \in {"volunteer_request", "scanner_role"} \X Users \cup {BootstrapLock}
  BY <1>3 DEF RequestRow
<1>5. /\ job' \in [Sessions -> Jobs \cup {None}]
      /\ job'[s].req = job[s].req /\ job'[s].stage = stage /\ ~job'[s].changed
      /\ \A u \in Sessions \ {s} : job'[u] = job[u]
  BY <1>1, <1>2, TypesNow, PlainMove
<1>6. Target(s)' = Target(s) /\ <<RequestRow(Target(s)), "update">> \in held'[s]
  BY <1>1, <1>4, <1>5, TypesNow, AcquireChanges DEF Target
<1>7. RoleStands(s)' /\ ReviewStands(s)'
  BY <1>1, <1>2, <1>5, <1>6 DEF RoleStands, ReviewStands, RequestRow, tables
<1> QED
  BY <1>1, <1>4, <1>5, <1>7, LockKeeps

LEMMA ChangeRoleKeeps ==
  ASSUME IInv, NEW s \in Sessions, ChangeRole(s)
  PROVE  IInv'
<1> DEFINE has == Target(s) \in scanners
<1>1. /\ job[s] # None /\ job[s].req.kind \in RoleKinds /\ job[s].stage = "write"
      /\ IF has = Grants(s) THEN UNCHANGED held ELSE Acquire(s, RoleRow(Target(s)))
      /\ job' = [job EXCEPT ![s].stage = "commit", ![s].changed = has # Grants(s)]
      /\ UNCHANGED <<clerk, stored, tables, shown>>
  BY DEF ChangeRole, At, RoleKinds
<1>2. (has # Grants(s)) \in BOOLEAN /\ "commit" \in Stages
  BY DEF Stages
<1>3. Target(s) \in Users
  BY <1>1, TypesNow, JobTypes, RequestTypes DEF Target
<1>4. /\ job' \in [Sessions -> Jobs \cup {None}]
      /\ job'[s].req = job[s].req /\ job'[s].stage = "commit" /\ job'[s] # None
      /\ job'[s].changed = (has # Grants(s))
      /\ \A u \in Sessions \ {s} : job'[u] = job[u]
  BY <1>1, <1>2, TypesNow, MoveTypes
<1>5. RoleRow(Target(s)) \in {"volunteer_request", "scanner_role"} \X Users \cup {BootstrapLock}
  BY <1>3 DEF RoleRow
<1>6. /\ Target(s)' = Target(s) /\ Grants(s)' = Grants(s) /\ scanners' = scanners
      /\ status' = status
  BY <1>1, <1>4 DEF Target, Grants, tables
<1>7. /\ LocksExclude' /\ held[s] \subseteq held'[s]
      /\ \A u \in Sessions \ {s} : held'[u] = held[u]
      /\ has # Grants(s) => <<RoleRow(Target(s)), "update">> \in held'[s]
  <2>1. CASE has = Grants(s)
    BY <1>1, <2>1, TypesNow DEF LocksExclude
  <2>2. CASE has # Grants(s)
    BY <1>1, <1>5, <2>2, TypesNow, AcquireChanges
  <2> QED
    BY <2>1, <2>2
<1>8. RoleStands(s)'
  <2> SUFFICES ASSUME job'[s].changed
               PROVE  /\ At(s, {"grant", "revoke", "review"}, "commit")'
                      /\ <<RoleRow(Target(s))', "update">> \in held'[s]
                      /\ (Target(s)' \in scanners') # Grants(s)'
    BY DEF RoleStands
  <2>1. has # Grants(s)
    BY <1>4
  <2> QED
    BY <1>1, <1>4, <1>6, <1>7, <2>1 DEF At, RoleKinds, RoleRow
<1>9. ReviewStands(s)'
  <2> SUFFICES ASSUME job'[s].req.kind = "review"
               PROVE  /\ <<RequestRow(Target(s))', "update">> \in held'[s]
                      /\ status'[Target(s)'] = Expected(job'[s].req.verdict)
                      /\ job'[s].req.verdict = "rejected" => job'[s].stage = "commit" /\ ~job'[s].changed
    BY DEF ReviewStands, At
  <2>1. /\ <<RequestRow(Target(s)), "update">> \in held[s]
        /\ status[Target(s)] = Expected(job[s].req.verdict)
    BY <1>1, <1>4 DEF IInv, ReviewStands, At
  <2>2. job[s].req.verdict # "rejected"
    BY <1>1, <1>4 DEF IInv, ReviewStands, At
  <2> QED
    BY <1>4, <1>6, <1>7, <2>1, <2>2 DEF RequestRow
<1> QED
  BY <1>1, <1>4, <1>7, <1>8, <1>9, TypesNow, QuietKeeps

LEMMA AcquireBootstrapLockKeeps ==
  ASSUME IInv, NEW s \in Sessions, AcquireBootstrapLock(s)
  PROVE  IInv'
<1>1. /\ job[s] # None /\ job[s].req.kind = "bootstrap" /\ job[s].stage = "read"
      /\ Acquire(s, BootstrapLock)
      /\ Move(s, "commit") /\ UNCHANGED <<clerk, stored, tables, shown>>
  BY DEF AcquireBootstrapLock, At
<1>2. ~job[s].changed /\ "commit" \in Stages
  BY <1>1 DEF IInv, RoleStands, At, Stages
<1>3. /\ job' \in [Sessions -> Jobs \cup {None}]
      /\ job'[s].req = job[s].req /\ ~job'[s].changed
      /\ \A u \in Sessions \ {s} : job'[u] = job[u]
  BY <1>1, <1>2, TypesNow, PlainMove
<1>4. RoleStands(s)' /\ ReviewStands(s)'
  BY <1>1, <1>3 DEF RoleStands, ReviewStands, At
<1> QED
  BY <1>1, <1>3, <1>4, LockKeeps

-------------------------------------------------------------------------------
(* Commits.                                                                *)

\* The events of the role that a commit tells of, and what it makes of it.
LEMMA RoleWritten ==
  ASSUME IInv, NEW s \in Sessions, At(s, RoleKinds, "commit"), WriteRole(s),
         NEW es \in SUBSET Verdicts, audit' = Told(RoleEvents(s) \cup es, Target(s))
  PROVE  /\ Target(s) \in Users /\ RoleTrail'
         /\ scanners' \subseteq Users /\ audit' \in [Events -> [Users -> Nat]]
         /\ \A e \in es : audit'[e][Target(s)] = audit[e][Target(s)] + 1
         /\ \A e \in Verdicts \cup {"bootstrapped", "pass_issued"}, v \in Users :
              e \notin es \/ v # Target(s) => audit'[e][v] = audit[e][v]
         /\ \A v \in Users : \/ v \in scanners' <=> v \in scanners
                             \/ <<RoleRow(v), "update">> \in held[s]
<1> DEFINE u == Target(s)
           events == RoleEvents(s) \cup es
<1>1. /\ TypeOK /\ RoleTrail /\ RoleStands(s) /\ job[s] # None /\ job[s].req.kind \in RoleKinds
  BY DEF IInv, At
<1>2. u \in Users
  BY <1>1, JobTypes, RequestTypes DEF Target
<1>3. /\ RoleEvents(s) \subseteq {"role_assigned", "role_revoked"} /\ events \in SUBSET Events
      /\ Verdicts \cup {"bootstrapped", "pass_issued"} \subseteq Events
      /\ "role_assigned" \in Events /\ "role_revoked" \in Events
      /\ "role_assigned" \notin es /\ "role_revoked" \notin es
  BY DEF RoleEvents, Events, Verdicts
<1>4. /\ audit' \in [Events -> [Users -> Nat]]
      /\ \A e \in events : audit'[e][u] = audit[e][u] + 1
      /\ \A e \in Events, v \in Users : e \notin events \/ v # u => audit'[e][v] = audit[e][v]
  <2>1. PICK told \in SUBSET Events : told = events
    BY <1>3
  <2>2. PICK whom \in Users : whom = u
    BY <1>2
  <2>3. audit' = Told(told, whom)
    BY <2>1, <2>2
  <2>4. /\ audit' \in [Events -> [Users -> Nat]]
        /\ \A e \in told : audit'[e][whom] = audit[e][whom] + 1
        /\ \A e \in Events, v \in Users : e \notin told \/ v # whom => audit'[e][v] = audit[e][v]
    BY <1>1, <2>3, ToldCounts
  <2> HIDE DEF events, u
  <2> QED
    BY <2>1, <2>2, <2>4
<1>5. /\ "role_assigned" \in events <=> job[s].changed /\ Grants(s)
      /\ "role_revoked" \in events <=> job[s].changed /\ ~Grants(s)
  BY <1>3 DEF RoleEvents
<1>6. scanners' = IF ~job[s].changed THEN scanners
                  ELSE IF Grants(s) THEN scanners \cup {u} ELSE scanners \ {u}
  BY DEF WriteRole, GrantScannerRole, RevokeScannerRole
<1>7. job[s].changed => /\ <<RoleRow(u), "update">> \in held[s]
                        /\ Grants(s) => u \notin scanners
                        /\ ~Grants(s) => u \in scanners
  <2>1. job[s].changed => /\ <<RoleRow(u), "update">> \in held[s]
                          /\ (u \in scanners) # Grants(s)
    BY <1>1 DEF RoleStands
  <2>2. Grants(s) \in BOOLEAN /\ (u \in scanners) \in BOOLEAN
    BY DEF Grants
  <2> HIDE DEF u
  <2> QED
    BY <2>1, <2>2
<1> HIDE DEF u, events
<1>8. RoleTrail'
  <2> SUFFICES ASSUME NEW v \in Users
               PROVE  audit'["role_assigned"][v]
                        = audit'["role_revoked"][v] + IF v \in scanners' THEN 1 ELSE 0
    BY DEF RoleTrail, Count
  <2>1. /\ audit["role_assigned"][v] \in Nat /\ audit["role_revoked"][v] \in Nat
        /\ audit["role_assigned"][v] = audit["role_revoked"][v] + IF v \in scanners THEN 1 ELSE 0
    BY <1>1, <1>3 DEF TypeOK, Count, RoleTrail
  <2>2. /\ "role_assigned" \in events /\ v = u
             => audit'["role_assigned"][v] = audit["role_assigned"][v] + 1
        /\ "role_assigned" \notin events \/ v # u
             => audit'["role_assigned"][v] = audit["role_assigned"][v]
        /\ "role_revoked" \in events /\ v = u
             => audit'["role_revoked"][v] = audit["role_revoked"][v] + 1
        /\ "role_revoked" \notin events \/ v # u
             => audit'["role_revoked"][v] = audit["role_revoked"][v]
    BY <1>3, <1>4
  <2>3. CASE v # u
    <3>1. v \in scanners' <=> v \in scanners
      BY <1>6, <2>3
    <3> QED
      BY <2>1, <2>2, <2>3, <3>1
  <2>4. CASE v = u /\ ~job[s].changed
    BY <1>5, <1>6, <2>1, <2>2, <2>4
  <2>5. CASE v = u /\ job[s].changed /\ Grants(s)
    <3>1. v \in scanners' /\ v \notin scanners
      BY <1>6, <1>7, <2>5
    <3> QED
      BY <1>5, <2>1, <2>2, <2>5, <3>1
  <2>6. CASE v = u /\ job[s].changed /\ ~Grants(s)
    <3>1. v \notin scanners' /\ v \in scanners
      BY <1>6, <1>7, <2>6
    <3> QED
      BY <1>5, <2>1, <2>2, <2>6, <3>1
  <2> QED
    BY <2>3, <2>4, <2>5, <2>6
<1>9. /\ \A e \in es : audit'[e][u] = audit[e][u] + 1
      /\ \A e \in Verdicts \cup {"bootstrapped", "pass_issued"}, v \in Users :
           e \notin es \/ v # u => audit'[e][v] = audit[e][v]
  <2>1. es \subseteq events
    BY DEF events
  <2>2. \A e \in Verdicts \cup {"bootstrapped", "pass_issued"} : e \in events <=> e \in es
    BY <1>3 DEF events, Verdicts
  <2> QED
    BY <1>3, <1>4, <2>1, <2>2
<1>10. scanners' \subseteq Users
  BY <1>1, <1>2, <1>6 DEF TypeOK
<1> QED
  BY <1>2, <1>4, <1>6, <1>7, <1>8, <1>9, <1>10 DEF u

LEMMA ChangeScannerRoleKeeps ==
  ASSUME IInv, NEW s \in Sessions, ChangeScannerRole(s)
  PROVE  IInv'
<1>1. /\ At(s, RoleKinds, "commit") /\ WriteRole(s) /\ End(s)
      /\ audit' = Told(RoleEvents(s), Target(s))
      /\ UNCHANGED <<clerk, stored, organizers, status, passes, shown>>
  BY DEF ChangeScannerRole, At, RoleKinds
<1>2. /\ RoleTrail' /\ scanners' \subseteq Users /\ audit' \in [Events -> [Users -> Nat]]
      /\ \A e \in Verdicts \cup {"bootstrapped", "pass_issued"}, v \in Users :
           audit'[e][v] = audit[e][v]
      /\ \A v \in Users : \/ v \in scanners' <=> v \in scanners
                          \/ <<RoleRow(v), "update">> \in held[s]
  <2>1. PICK es \in SUBSET Verdicts : es = {}
    OBVIOUS
  <2>2. audit' = Told(RoleEvents(s) \cup es, Target(s))
    BY <1>1, <2>1
  <2>3. \A e : e \notin es
    BY <2>1
  <2> QED
    BY <1>1, <2>2, <2>3, RoleWritten
<1>4. ReviewTrail' /\ OneBootstrap' /\ OneCredential'
  <2>1. ReviewTrail'
    BY <1>1, <1>2 DEF IInv, ReviewTrail, Verdicts, Count
  <2>2. OneBootstrap'
    BY <1>1, <1>2 DEF IInv, OneBootstrap, Count
  <2>3. OneCredential'
    BY <1>1, <1>2 DEF IInv, OneCredential, Count
  <2> QED
    BY <2>1, <2>2, <2>3
<1>5. /\ LocksExclude' /\ job' \in [Sessions -> Jobs \cup {None}] /\ job'[s] = None
      /\ \A u \in Sessions \ {s} : job'[u] = job[u] /\ held'[u] = held[u]
  BY <1>1, TypesNow, EndChanges
<1>6. TypeOK'
  BY <1>1, <1>2, <1>5 DEF IInv, TypeOK
<1> QED
  BY <1>1, <1>2, <1>4, <1>5, <1>6, Standing, Compose

LEMMA ReviewVolunteerRequestKeeps ==
  ASSUME IInv, NEW s \in Sessions, ReviewVolunteerRequest(s)
  PROVE  IInv'
<1> DEFINE u == Target(s)
           verdict == job[s].req.verdict
<1>1. /\ At(s, {"review"}, "commit") /\ WriteRole(s) /\ End(s)
      /\ status' = [status EXCEPT ![u] = verdict]
      /\ audit' = Told(RoleEvents(s) \cup {verdict}, u)
      /\ UNCHANGED <<clerk, stored, organizers, passes, shown>>
  BY DEF ReviewVolunteerRequest
<1>2. At(s, RoleKinds, "commit")
  BY <1>1 DEF At, RoleKinds
<1>3. verdict \in Verdicts
  BY <1>1, TypesNow, JobTypes, RequestTypes DEF At
<1>4. /\ u \in Users /\ RoleTrail' /\ scanners' \subseteq Users
      /\ audit' \in [Events -> [Users -> Nat]]
      /\ \A e \in Verdicts \cup {"bootstrapped", "pass_issued"}, v \in Users :
           e # verdict \/ v # u => audit'[e][v] = audit[e][v]
      /\ audit'[verdict][u] = audit[verdict][u] + 1
      /\ \A v \in Users : \/ v \in scanners' <=> v \in scanners
                          \/ <<RoleRow(v), "update">> \in held[s]
  <2>1. PICK es \in SUBSET Verdicts : es = {verdict}
    BY <1>3
  <2>2. audit' = Told(RoleEvents(s) \cup es, Target(s))
    BY <1>1, <2>1
  <2>3. /\ u \in Users /\ RoleTrail' /\ scanners' \subseteq Users
        /\ audit' \in [Events -> [Users -> Nat]]
        /\ \A e \in Verdicts \cup {"bootstrapped", "pass_issued"}, v \in Users :
             e \notin es \/ v # u => audit'[e][v] = audit[e][v]
        /\ \A e \in es : audit'[e][u] = audit[e][u] + 1
        /\ \A v \in Users : \/ v \in scanners' <=> v \in scanners
                            \/ <<RoleRow(v), "update">> \in held[s]
    BY <1>1, <1>2, <2>2, RoleWritten
  <2> HIDE DEF u, verdict
  <2> QED
    BY <2>1, <2>3
<1>5. /\ <<RequestRow(u), "update">> \in held[s] /\ status[u] = Expected(verdict)
  BY <1>1 DEF IInv, ReviewStands
<1> HIDE DEF u, verdict
<1>6. /\ status' \in [Users -> Verdicts \cup {"pending", None}]
      /\ \A v \in Users : status'[v] = IF v = u THEN verdict ELSE status[v]
  BY <1>1, <1>3, <1>4 DEF IInv, TypeOK
<1>7. /\ \A v \in Users : \A e \in Verdicts \cup {"bootstrapped", "pass_issued"} :
           audit[e][v] \in Nat
  BY DEF IInv, TypeOK, Count, Events
<1>8. \A v \in Users : /\ audit'["bootstrapped"][v] = audit["bootstrapped"][v]
                       /\ audit'["pass_issued"][v] = audit["pass_issued"][v]
  BY <1>3, <1>4, <1>7 DEF Verdicts
<1>9. ReviewTrail'
  <2> SUFFICES ASSUME NEW v \in Users
               PROVE  /\ audit'["approved"][v] =
                           IF status'[v] \in {"approved", "revoked"} THEN 1 ELSE 0
                      /\ audit'["rejected"][v] = IF status'[v] = "rejected" THEN 1 ELSE 0
                      /\ audit'["revoked"][v] = IF status'[v] = "revoked" THEN 1 ELSE 0
    BY DEF ReviewTrail, Count
  <2>1. /\ audit["approved"][v] = IF status[v] \in {"approved", "revoked"} THEN 1 ELSE 0
        /\ audit["rejected"][v] = IF status[v] = "rejected" THEN 1 ELSE 0
        /\ audit["revoked"][v] = IF status[v] = "revoked" THEN 1 ELSE 0
    BY DEF IInv, ReviewTrail, Count
  <2>2. \A e \in Verdicts : IF e = verdict /\ v = u THEN audit'[e][v] = audit[e][v] + 1
                            ELSE audit'[e][v] = audit[e][v]
    BY <1>4
  <2>3. CASE v # u
    BY <1>6, <2>1, <2>2, <2>3 DEF Verdicts
  <2>4. CASE v = u /\ verdict = "revoked"
    BY <1>5, <1>6, <2>1, <2>2, <2>4 DEF Expected, Verdicts
  <2>5. CASE v = u /\ verdict # "revoked"
    BY <1>3, <1>5, <1>6, <2>1, <2>2, <2>5 DEF Expected, Verdicts
  <2> QED
    BY <2>3, <2>4, <2>5
<1>10. OneBootstrap' /\ OneCredential'
  BY <1>1, <1>8 DEF IInv, OneBootstrap, OneCredential, Count
<1>11. /\ LocksExclude' /\ job' \in [Sessions -> Jobs \cup {None}] /\ job'[s] = None
       /\ \A t \in Sessions \ {s} : job'[t] = job[t] /\ held'[t] = held[t]
  BY <1>1, TypesNow, EndChanges
<1>12. TypeOK'
  BY <1>1, <1>4, <1>6, <1>11 DEF IInv, TypeOK
<1>13. \A v \in Users : \/ status'[v] = status[v] \/ status[v] = None
                        \/ <<RequestRow(v), "update">> \in held[s]
  BY <1>5, <1>6
<1> QED
  BY <1>4, <1>9, <1>10, <1>11, <1>12, <1>13, Standing, Compose

-------------------------------------------------------------------------------
(* What users ask for themselves, and the first organizer.                 *)

LEMMA RequestVolunteerAccessKeeps ==
  ASSUME IInv, NEW s \in Sessions, RequestVolunteerAccess(s)
  PROVE  IInv'
<1> DEFINE u == Actor(s)
<1>1. /\ At(s, {"volunteer"}, "read") /\ End(s)
      /\ status' = [status EXCEPT ![u] = IF @ = None THEN "pending" ELSE @]
      /\ UNCHANGED <<clerk, stored, scanners, organizers, passes, audit, shown>>
  BY DEF RequestVolunteerAccess
<1> HIDE DEF u
<1>2. /\ status' \in [Users -> Verdicts \cup {"pending", None}]
      /\ \A v \in Users : \/ status'[v] = status[v]
                          \/ status[v] = None /\ status'[v] = "pending"
  BY <1>1 DEF IInv, TypeOK
<1>3. /\ LocksExclude' /\ job' \in [Sessions -> Jobs \cup {None}] /\ job'[s] = None
      /\ \A t \in Sessions \ {s} : job'[t] = job[t] /\ held'[t] = held[t]
  BY <1>1, TypesNow, EndChanges
<1>4. TypeOK'
  BY <1>1, <1>2, <1>3 DEF IInv, TypeOK
<1>5. RoleTrail' /\ OneBootstrap' /\ OneCredential'
  BY <1>1 DEF IInv, RoleTrail, OneBootstrap, OneCredential, Count
<1>6. ReviewTrail'
  <2> SUFFICES ASSUME NEW v \in Users
               PROVE  /\ audit'["approved"][v] =
                           IF status'[v] \in {"approved", "revoked"} THEN 1 ELSE 0
                      /\ audit'["rejected"][v] = IF status'[v] = "rejected" THEN 1 ELSE 0
                      /\ audit'["revoked"][v] = IF status'[v] = "revoked" THEN 1 ELSE 0
    BY DEF ReviewTrail, Count
  <2>1. None \notin {"approved", "rejected", "revoked"}
    BY NoneAssumption DEF Verdicts
  <2> QED
    BY <1>1, <1>2, <2>1 DEF IInv, ReviewTrail, Count
<1> QED
  BY <1>1, <1>2, <1>3, <1>4, <1>5, <1>6, Standing, Compose

\* The id that is drawn is nobody else's; whoever has one keeps it.
LEMMA IssueStaffPassKeeps ==
  ASSUME IInv, NEW s \in Sessions, IssueStaffPass(s)
  PROVE  IInv'
<1> DEFINE u == Actor(s)
<1>1. /\ job[s] # None /\ job[s].req.kind = "staff_pass" /\ job[s].stage = "read"
      /\ Move(s, "show")
      /\ UNCHANGED <<clerk, stored, scanners, organizers, status, shown, held>>
  BY DEF IssueStaffPass, At
<1>2. u \in Users
  BY <1>1, TypesNow, JobTypes, RequestTypes DEF Actor
<1>3. ~job[s].changed /\ "show" \in Stages
  BY <1>1 DEF IInv, RoleStands, At, Stages
<1>4. CASE UNCHANGED <<passes, audit>>
  BY <1>1, <1>3, <1>4, TypesNow, MoveKeeps DEF tables
<1>5. ASSUME NEW id \in Passes, passes[u] = None, passes' = [passes EXCEPT ![u] = id],
             audit' = Told({"pass_issued"}, u)
      PROVE  IInv'
  <2>1. PICK told \in SUBSET Events : told = {"pass_issued"}
    BY DEF Events
  <2>2. PICK whom \in Users : whom = u
    BY <1>2
  <2>3. audit' = Told(told, whom)
    BY <1>5, <2>1, <2>2
  <2>4. /\ audit' \in [Events -> [Users -> Nat]]
        /\ \A e \in told : audit'[e][whom] = audit[e][whom] + 1
        /\ \A e \in Events, v \in Users : e \notin told \/ v # whom => audit'[e][v] = audit[e][v]
    BY <2>3, TypesNow, ToldCounts
  <2> HIDE DEF u
  <2>5. /\ \A e \in Events \ {"pass_issued"}, v \in Users : audit'[e][v] = audit[e][v]
        /\ \A v \in Users : v # u => audit'["pass_issued"][v] = audit["pass_issued"][v]
        /\ audit'["pass_issued"][u] = audit["pass_issued"][u] + 1
    BY <2>1, <2>2, <2>4 DEF Events
  <2>6. id # None /\ None \notin Passes
    BY NoneAssumption
  <2>7. \A v \in Users : passes'[v] = IF v = u THEN id ELSE passes[v]
    BY <1>2, <1>5 DEF IInv, TypeOK
  <2>8. passes' \in [Users -> Passes \cup {None}]
    BY <1>2, <1>5 DEF IInv, TypeOK
  <2>9. RoleTrail' /\ ReviewTrail' /\ OneBootstrap'
    <3>1. /\ {"role_assigned", "role_revoked", "approved", "rejected", "revoked", "bootstrapped"}
               \subseteq Events \ {"pass_issued"}
      BY DEF Events, Verdicts
    <3>2. RoleTrail'
      BY <1>1, <2>5, <3>1 DEF IInv, RoleTrail, Count
    <3>3. ReviewTrail'
      BY <1>1, <2>5, <3>1 DEF IInv, ReviewTrail, Count
    <3>4. OneBootstrap'
      BY <1>1, <2>5, <3>1 DEF IInv, OneBootstrap, Count
    <3> QED
      BY <3>2, <3>3, <3>4
  <2>10. OneCredential'
    <3> SUFFICES ASSUME NEW v \in Users
                 PROVE  /\ shown'[v] \subseteq {passes'[v]}
                        /\ audit'["pass_issued"][v] = IF passes'[v] = None THEN 0 ELSE 1
      BY DEF OneCredential, Count
    <3>1. /\ shown[v] \subseteq {passes[v]} /\ shown[v] \subseteq Passes
          /\ audit["pass_issued"][v] = IF passes[v] = None THEN 0 ELSE 1
      BY DEF IInv, TypeOK, OneCredential, Count
    <3>2. CASE v # u
      BY <1>1, <2>5, <2>7, <3>1, <3>2
    <3>3. CASE v = u
      <4>1. shown[v] = {}
        BY <1>5, <2>6, <3>1, <3>3
      <4> QED
        BY <1>1, <1>5, <2>5, <2>6, <2>7, <3>1, <3>3, <4>1
    <3> QED
      BY <3>2, <3>3
  <2>11. /\ job' \in [Sessions -> Jobs \cup {None}]
         /\ job'[s].req = job[s].req /\ job'[s].stage = "show" /\ ~job'[s].changed
         /\ \A t \in Sessions \ {s} : job'[t] = job[t] /\ held'[t] = held[t]
    BY <1>1, <1>3, TypesNow, PlainMove
  <2>12. TypeOK' /\ LocksExclude'
    BY <1>1, <2>4, <2>8, <2>11 DEF IInv, TypeOK, LocksExclude
  <2>13. RoleStands(s)' /\ ReviewStands(s)'
    BY <2>11 DEF RoleStands, ReviewStands, At
  <2> QED
    BY <1>1, <2>9, <2>10, <2>11, <2>12, <2>13, Compose
<1> QED
  BY <1>4, <1>5 DEF IssueStaffPass

LEMMA ShowStaffPassKeeps ==
  ASSUME IInv, NEW s \in Sessions, ShowStaffPass(s)
  PROVE  IInv'
<1> DEFINE u == Actor(s)
<1>1. /\ At(s, {"staff_pass"}, "show") /\ passes[u] # None /\ End(s)
      /\ shown' = [shown EXCEPT ![u] = @ \cup {passes[u]}]
      /\ UNCHANGED <<clerk, stored, tables>>
  BY DEF ShowStaffPass
<1>2. u \in Users
  BY <1>1, TypesNow, JobTypes, RequestTypes DEF At, Actor
<1> HIDE DEF u
<1>3. shown' \in [Users -> SUBSET Passes] /\ \A v \in Users : shown'[v] \subseteq {passes[v]}
  <2>1. passes[u] \in Passes /\ shown \in [Users -> SUBSET Passes]
    BY <1>1, <1>2 DEF IInv, TypeOK
  <2>2. \A v \in Users : shown[v] \subseteq {passes[v]}
    BY DEF IInv, OneCredential
  <2> QED
    BY <1>1, <1>2, <2>1, <2>2
<1>4. /\ LocksExclude' /\ job' \in [Sessions -> Jobs \cup {None}] /\ job'[s] = None
      /\ \A t \in Sessions \ {s} : job'[t] = job[t] /\ held'[t] = held[t]
  BY <1>1, TypesNow, EndChanges
<1>5. TypeOK' /\ RoleTrail' /\ ReviewTrail' /\ OneBootstrap'
  BY <1>1, <1>3, <1>4 DEF IInv, TypeOK, RoleTrail, ReviewTrail, OneBootstrap, Count, tables
<1>6. OneCredential'
  BY <1>1, <1>3 DEF IInv, OneCredential, Count, tables
<1> QED
  BY <1>1, <1>4, <1>5, <1>6, Standing, Compose DEF tables

\* A bootstrap that writes counted no organizer, and there is none.
LEMMA BootstrapKeeps ==
  ASSUME IInv, NEW s \in Sessions, BootstrapFirstOrganizer(s)
  PROVE  IInv'
<1> DEFINE u == Target(s)
<1>1. /\ At(s, {"bootstrap"}, "commit") /\ End(s)
      /\ UNCHANGED <<clerk, stored, scanners, status, passes, shown>>
  BY DEF BootstrapFirstOrganizer
<1>2. u \in Users
  BY <1>1, TypesNow, JobTypes, RequestTypes DEF At, Target
<1>3. CASE UNCHANGED <<organizers, audit>>
  BY <1>1, <1>3, EndKeeps DEF tables
<1>4. ASSUME organizers = {}, organizers' = organizers \cup {u},
             audit' = Told({"bootstrapped"}, u)
      PROVE  IInv'
  <2>1. PICK told \in SUBSET Events : told = {"bootstrapped"}
    BY DEF Events
  <2>2. PICK whom \in Users : whom = u
    BY <1>2
  <2>3. audit' = Told(told, whom)
    BY <1>4, <2>1, <2>2
  <2>4. /\ audit' \in [Events -> [Users -> Nat]]
        /\ \A e \in told : audit'[e][whom] = audit[e][whom] + 1
        /\ \A e \in Events, v \in Users : e \notin told \/ v # whom => audit'[e][v] = audit[e][v]
    BY <2>3, TypesNow, ToldCounts
  <2> HIDE DEF u
  <2>5. /\ \A e \in Events \ {"bootstrapped"}, v \in Users : audit'[e][v] = audit[e][v]
        /\ \A v \in Users : v # u => audit'["bootstrapped"][v] = audit["bootstrapped"][v]
        /\ audit'["bootstrapped"][u] = audit["bootstrapped"][u] + 1
    BY <2>1, <2>2, <2>4 DEF Events
  <2>6. RoleTrail' /\ ReviewTrail' /\ OneCredential'
    <3>1. /\ {"role_assigned", "role_revoked", "approved", "rejected", "revoked", "pass_issued"}
               \subseteq Events \ {"bootstrapped"}
      BY DEF Events, Verdicts
    <3>2. RoleTrail'
      BY <1>1, <2>5, <3>1 DEF IInv, RoleTrail, Count
    <3>3. ReviewTrail'
      BY <1>1, <2>5, <3>1 DEF IInv, ReviewTrail, Count
    <3>4. OneCredential'
      BY <1>1, <2>5, <3>1 DEF IInv, OneCredential, Count
    <3> QED
      BY <3>2, <3>3, <3>4
  <2>7. OneBootstrap'
    <3>1. \A v \in Users : audit["bootstrapped"][v] = 0
      BY <1>4 DEF IInv, OneBootstrap, Count
    <3>2. organizers' = {u}
      BY <1>4
    <3> QED
      BY <1>2, <2>5, <3>1, <3>2 DEF OneBootstrap, Count
  <2>8. /\ LocksExclude' /\ job' \in [Sessions -> Jobs \cup {None}] /\ job'[s] = None
        /\ \A t \in Sessions \ {s} : job'[t] = job[t] /\ held'[t] = held[t]
    BY <1>1, TypesNow, EndChanges
  <2>9. TypeOK'
    BY <1>1, <1>2, <1>4, <2>4, <2>8 DEF IInv, TypeOK
  <2> QED
    BY <1>1, <2>6, <2>7, <2>8, <2>9, Standing, Compose
<1> QED
  BY <1>3, <1>4 DEF BootstrapFirstOrganizer, Serializable

-------------------------------------------------------------------------------
(* Every reachable state.                                                  *)

LEMMA InitHolds ==
  ASSUME Init
  PROVE  IInv
<1>1. TypeOK /\ LocksExclude
  BY DEF Init, TypeOK, LocksExclude
<1>2. \A e \in Events, u \in Users : audit[e][u] = 0
  BY DEF Init
<1>3. {"role_assigned", "role_revoked", "bootstrapped", "pass_issued",
       "approved", "rejected", "revoked"} \subseteq Events
  BY DEF Events, Verdicts
<1>4. RoleTrail /\ OneBootstrap /\ OneCredential
  BY <1>2, <1>3 DEF Init, RoleTrail, OneBootstrap, OneCredential, Count
<1>5. ReviewTrail
  <2>1. None \notin {"approved", "rejected", "revoked"}
    BY NoneAssumption DEF Verdicts
  <2> QED
    BY <1>2, <1>3, <2>1 DEF Init, ReviewTrail, Count
<1>6. \A s \in Sessions : RoleStands(s) /\ ReviewStands(s)
  BY DEF Init, RoleStands, ReviewStands, At
<1> QED
  BY <1>1, <1>4, <1>5, <1>6 DEF IInv

LEMMA StutterKeeps ==
  ASSUME IInv, UNCHANGED vars
  PROVE  IInv'
<1>1. /\ TypeOK' /\ LocksExclude'
      /\ RoleTrail' /\ ReviewTrail' /\ OneBootstrap' /\ OneCredential'
  BY DEF IInv, vars, tables, TypeOK, LocksExclude, RoleTrail, ReviewTrail, OneBootstrap,
         OneCredential, Count
<1>2. ASSUME NEW s \in Sessions
      PROVE  RoleStands(s)' /\ ReviewStands(s)'
  <2>1. job'[s] = job[s] /\ held'[s] = held[s] /\ status' = status /\ scanners' = scanners
    BY DEF vars, tables
  <2> QED
    BY <2>1, StandsOn
<1>3. IInv' <=> /\ TypeOK' /\ LocksExclude'
                /\ RoleTrail' /\ ReviewTrail' /\ OneBootstrap' /\ OneCredential'
                /\ \A t \in Sessions : RoleStands(t)' /\ ReviewStands(t)'
  BY DEF IInv, RoleStands, ReviewStands
<1> QED
  BY <1>1, <1>2, <1>3

LEMMA NextKeeps ==
  ASSUME IInv, [Next]_vars
  PROVE  IInv'
<1>1. ASSUME NEW s \in Sessions, Arrive(s) \/ Resolve(s) \/ Refuse(s)
      PROVE  IInv'
  BY <1>1, ArriveKeeps, ResolveKeeps, RefuseKeeps
<1>2. ASSUME NEW s \in Sessions, \/ CheckTarget(s) \/ LockRequest(s) \/ ChangeRole(s)
                                 \/ ChangeScannerRole(s) \/ ReviewVolunteerRequest(s)
      PROVE  IInv'
  BY <1>2, CheckTargetKeeps, LockRequestKeeps, ChangeRoleKeeps, ChangeScannerRoleKeeps,
     ReviewVolunteerRequestKeeps
<1>3. ASSUME NEW s \in Sessions,
             RequestVolunteerAccess(s) \/ IssueStaffPass(s) \/ ShowStaffPass(s)
      PROVE  IInv'
  BY <1>3, RequestVolunteerAccessKeeps, IssueStaffPassKeeps, ShowStaffPassKeeps
<1>4. ASSUME NEW s \in Sessions,
             StartBootstrap(s) \/ AcquireBootstrapLock(s) \/ BootstrapFirstOrganizer(s)
      PROVE  IInv'
  BY <1>4, StartBootstrapKeeps, AcquireBootstrapLockKeeps, BootstrapKeeps
<1> QED
  BY <1>1, <1>2, <1>3, <1>4, ChangeEmailKeeps, StutterKeeps DEF Next

\* The inductive invariant: what was found under a row's lock stays so until
\* the commit.
THEOREM Invariance == Spec => []IInv
BY InitHolds, NextKeeps, PTL DEF Spec

\* Every row is one the migrations allow.
THEOREM TypeCorrect == Spec => []TypeOK
<1>1. IInv => TypeOK
  BY DEF IInv
<1> QED
  BY <1>1, Invariance, PTL

\* Grants and revocations of the scanner role alternate in the audit trail,
\* and their balance is the role (changeScannerRole, ReviewVolunteerRequest).
THEOREM RolesTold == Spec => []RoleTrail
<1>1. IInv => RoleTrail
  BY DEF IInv
<1> QED
  BY <1>1, Invariance, PTL

\* A volunteer request gets each verdict once at most, told of once
\* (ReviewVolunteerRequest's expected status).
THEOREM ReviewsTold == Spec => []ReviewTrail
<1>1. IInv => ReviewTrail
  BY DEF IInv
<1> QED
  BY <1>1, Invariance, PTL

\* bootstrap-organizer makes one organizer at most, however many runs overlap.
THEOREM FirstOrganizer == Spec => []OneBootstrap
<1>1. IInv => OneBootstrap
  BY DEF IInv
<1> QED
  BY <1>1, Invariance, PTL

\* Whatever page loads raced, a user was only ever shown the stored staff pass.
THEOREM Credential == Spec => []OneCredential
<1>1. IInv => OneCredential
  BY DEF IInv
<1> QED
  BY <1>1, Invariance, PTL

-------------------------------------------------------------------------------
(* Who has signed in.                                                      *)

\* A handler runs for a caller who has a row, and beyond its checks it is about
\* somebody else who has one.
CallerStands(s) ==
  job[s] # None =>
    /\ job[s].req.kind = "bootstrap" => job[s].stage # "resolve" /\ stored[Target(s)] # None
    /\ job[s].stage # "resolve" =>
         /\ job[s].req.kind # "bootstrap" => stored[Actor(s)] # None
         /\ job[s].req.kind \in RoleKinds => Actor(s) # Target(s)
         /\ job[s].req.kind \in RoleKinds /\ job[s].stage # "read" => stored[Target(s)] # None

KnownStand ==
  /\ \A u \in Users : status[u] # None => stored[u] # None
  /\ \A s \in Sessions : CallerStands(s)

LEMMA KnownInit == Init => KnownStand
BY DEF Init, KnownStand, CallerStands

\* Users are never deleted, so what stood stands for the other sessions.
LEMMA KnownOn ==
  ASSUME IInv, KnownStand, NEW s \in Sessions,
         \A u \in Users : stored[u] # None => stored'[u] # None,
         \A u \in Users : status'[u] # None => stored'[u] # None,
         \A t \in Sessions \ {s} : job'[t] = job[t],
         CallerStands(s)'
  PROVE  KnownStand'
<1>1. ASSUME NEW t \in Sessions \ {s}
      PROVE  CallerStands(t)'
  <2>1. CASE job[t] = None
    BY <2>1 DEF CallerStands
  <2>2. CASE job[t] # None
    <3>1. /\ job[t].req.kind # "bootstrap" => job[t].req.actor \in Users
          /\ job[t].req.kind \in RoleKinds \cup {"bootstrap"} => job[t].req.target \in Users
      BY <2>2, TypesNow, JobTypes, RequestTypes
    <3> QED
      BY <2>2, <3>1 DEF KnownStand, CallerStands, Target, Actor
  <2> QED
    BY <2>1, <2>2
<1> QED
  BY <1>1 DEF KnownStand

\* The session goes on with a request that it knows enough about.
LEMMA KnownMoves ==
  ASSUME IInv, KnownStand, NEW s \in Sessions, job[s] # None, job[s].stage # "resolve",
         UNCHANGED <<stored, status>>,
         job'[s] # None, job'[s].req = job[s].req, job'[s].stage # "resolve",
         \A t \in Sessions \ {s} : job'[t] = job[t],
         job[s].req.kind \in RoleKinds => stored[Target(s)] # None
  PROVE  KnownStand'
<1>1. CallerStands(s)'
  BY DEF KnownStand, CallerStands, Target, Actor
<1> QED
  BY <1>1, KnownOn DEF KnownStand

LEMMA ResolveKnows ==
  ASSUME IInv, KnownStand, NEW s \in Sessions, Resolve(s)
  PROVE  KnownStand'
<1>1. /\ job[s] # None /\ job[s].stage = "resolve" /\ UNCHANGED status
      /\ stored' = [stored EXCEPT ![Actor(s)] = job[s].admin]
      /\ IF Permitted(s) THEN Move(s, "read") ELSE job' = [job EXCEPT ![s] = None]
  BY DEF Resolve, UpsertClerkUser, tables
<1>2. /\ job[s].admin # None /\ "read" \in Stages
      /\ job[s].req.kind # "bootstrap" => Actor(s) \in Users
      /\ job[s].req.kind \in RoleKinds => Target(s) \in Users
      /\ stored \in [Users -> BOOLEAN \cup {None}]
  BY <1>1, TypesNow, JobTypes, RequestTypes, NoneAssumption DEF Actor, Target, Stages
<1>3. \A u \in Users : stored'[u] = IF u = Actor(s) THEN job[s].admin ELSE stored[u]
  BY <1>1, <1>2
<1>4. \A t \in Sessions \ {s} : job'[t] = job[t]
  BY <1>1, TypesNow DEF Move, TypeOK
<1>5. job[s].req.kind # "bootstrap"
  BY <1>1 DEF KnownStand, CallerStands
<1>6. CallerStands(s)'
  <2>1. CASE Permitted(s) /\ Move(s, "read")
    <3>1. job'[s].req = job[s].req /\ job'[s].stage = "read" /\ job'[s] # None
      BY <1>1, <1>2, <2>1, TypesNow, PlainMove
    <3>2. Actor(s)' = Actor(s) /\ Target(s)' = Target(s)
      BY <3>1 DEF Actor, Target
    <3>3. job[s].req.kind \in RoleKinds => Actor(s) # Target(s)
      BY <2>1 DEF Permitted, Actor, Target, RoleKinds
    <3> QED
      BY <1>2, <1>3, <1>5, <3>1, <3>2, <3>3 DEF CallerStands
  <2>2. CASE job' = [job EXCEPT ![s] = None]
    BY <2>2, TypesNow DEF TypeOK, CallerStands
  <2> QED
    BY <1>1, <2>1, <2>2
<1> QED
  BY <1>1, <1>2, <1>3, <1>4, <1>6, KnownOn DEF KnownStand

LEMMA StartKnows ==
  ASSUME IInv, KnownStand, NEW s \in Sessions, Arrive(s) \/ StartBootstrap(s)
  PROVE  KnownStand'
<1>1. UNCHANGED <<stored, status>> /\ job[s] = None
  BY DEF Arrive, StartBootstrap, tables
<1>2. CASE Arrive(s)
  <2>1. PICK req \in Asked : /\ req.kind # "bootstrap"
                             /\ job' = [job EXCEPT ![s] =
                                   [req |-> req, stage |-> "resolve", admin |-> clerk[req.actor],
                                    changed |-> FALSE, saw |-> {}]]
    BY <1>2 DEF Arrive
  <2>2. /\ job'[s].req.kind # "bootstrap" /\ job'[s].stage = "resolve"
        /\ \A t \in Sessions \ {s} : job'[t] = job[t]
    BY <2>1, TypesNow DEF TypeOK
  <2> QED
    BY <1>1, <2>2, KnownOn DEF CallerStands, KnownStand
<1>3. CASE StartBootstrap(s)
  <2>1. PICK req \in Asked : /\ req.kind = "bootstrap" /\ stored[req.target] # None
                             /\ job' = [job EXCEPT ![s] =
                                   [req |-> req, stage |-> "read", admin |-> FALSE,
                                    changed |-> FALSE, saw |-> organizers]]
    BY <1>3 DEF StartBootstrap
  <2>2. /\ job'[s].req = req /\ job'[s].stage = "read"
        /\ \A t \in Sessions \ {s} : job'[t] = job[t]
    BY <2>1, TypesNow DEF TypeOK
  <2> QED
    BY <1>1, <2>1, <2>2, KnownOn DEF CallerStands, KnownStand, Target, RoleKinds
<1> QED
  BY <1>2, <1>3

LEMMA MovesKnow ==
  ASSUME IInv, KnownStand, NEW s \in Sessions,
         \/ CheckTarget(s) \/ LockRequest(s) \/ ChangeRole(s)
         \/ IssueStaffPass(s) \/ AcquireBootstrapLock(s)
  PROVE  KnownStand'
<1>1. /\ job[s] # None /\ job[s].stage # "resolve" /\ UNCHANGED <<stored, status>>
  BY DEF CheckTarget, LockRequest, ChangeRole, IssueStaffPass, AcquireBootstrapLock, At, tables
<1>2. /\ job'[s] # None /\ job'[s].req = job[s].req /\ job'[s].stage # "resolve"
      /\ \A t \in Sessions \ {s} : job'[t] = job[t]
  <2>1. CASE ChangeRole(s)
    BY <1>1, <2>1, TypesNow, MoveTypes DEF ChangeRole, Stages
  <2>2. CASE ~ChangeRole(s)
    <3>1. \E stage \in Stages \ {"resolve"} : Move(s, stage)
      BY <2>2 DEF CheckTarget, LockRequest, IssueStaffPass, AcquireBootstrapLock, Stages
    <3> QED
      BY <1>1, <3>1, TypesNow, PlainMove
  <2> QED
    BY <2>1, <2>2
<1>3. job[s].req.kind \in RoleKinds => stored[Target(s)] # None
  <2>1. CASE CheckTarget(s)
    BY <2>1 DEF CheckTarget
  <2>2. CASE LockRequest(s)
    <3>1. Target(s) \in Users /\ status[Target(s)] \in {"approved", "pending"}
      BY <1>1, <2>2, TypesNow, JobTypes, RequestTypes
      DEF LockRequest, At, Target, RoleKinds, Expected
    <3>2. status[Target(s)] # None
      BY <3>1, NoneAssumption DEF Verdicts
    <3> QED
      BY <3>1, <3>2 DEF KnownStand
  <2>3. CASE ChangeRole(s)
    BY <1>1, <2>3 DEF ChangeRole, At, KnownStand, CallerStands
  <2>4. CASE IssueStaffPass(s) \/ AcquireBootstrapLock(s)
    BY <2>4 DEF IssueStaffPass, AcquireBootstrapLock, At, RoleKinds
  <2> QED
    BY <2>1, <2>2, <2>3, <2>4
<1> QED
  BY <1>1, <1>2, <1>3, KnownMoves

LEMMA EndsKnow ==
  ASSUME IInv, KnownStand, NEW s \in Sessions,
         \/ ChangeScannerRole(s) \/ ReviewVolunteerRequest(s) \/ RequestVolunteerAccess(s)
         \/ ShowStaffPass(s) \/ BootstrapFirstOrganizer(s) \/ Refuse(s)
  PROVE  KnownStand'
<1>1. /\ job[s] # None /\ UNCHANGED stored
      /\ job'[s] = None /\ \A t \in Sessions \ {s} : job'[t] = job[t]
  BY TypesNow DEF ChangeScannerRole, ReviewVolunteerRequest, RequestVolunteerAccess,
                  ShowStaffPass, BootstrapFirstOrganizer, Refuse, At, End, TypeOK
<1>2. CASE UNCHANGED status
  BY <1>1, <1>2, KnownOn DEF KnownStand, CallerStands
<1>3. ASSUME NEW u \in Users, NEW new, status' = [status EXCEPT ![u] = new], stored[u] # None
      PROVE  KnownStand'
  <2>1. \A v \in Users : status'[v] # None => stored'[v] # None
    BY <1>1, <1>3, TypesNow DEF TypeOK, KnownStand
  <2> QED
    BY <1>1, <2>1, KnownOn DEF KnownStand, CallerStands
<1>4. CASE ReviewVolunteerRequest(s)
  <2>1. Target(s) \in Users /\ stored[Target(s)] # None
    BY <1>1, <1>4, TypesNow, JobTypes, RequestTypes
    DEF ReviewVolunteerRequest, At, Target, RoleKinds, KnownStand, CallerStands
  <2> QED
    BY <1>3, <1>4, <2>1 DEF ReviewVolunteerRequest
<1>5. CASE RequestVolunteerAccess(s)
  <2>1. Actor(s) \in Users /\ stored[Actor(s)] # None
    BY <1>1, <1>5, TypesNow, JobTypes, RequestTypes
    DEF RequestVolunteerAccess, At, Actor, KnownStand, CallerStands
  <2>2. status' = [status EXCEPT ![Actor(s)] =
                     IF status[Actor(s)] = None THEN "pending" ELSE status[Actor(s)]]
    BY <1>5 DEF RequestVolunteerAccess
  <2> QED
    BY <1>3, <2>1, <2>2
<1> QED
  BY <1>2, <1>4, <1>5 DEF ChangeScannerRole, ShowStaffPass, BootstrapFirstOrganizer, Refuse, tables

LEMMA KnownKept ==
  ASSUME IInv, KnownStand, [Next]_vars
  PROVE  KnownStand'
<1>1. CASE UNCHANGED vars \/ \E u \in Users : ChangeEmail(u)
  <2>1. UNCHANGED <<stored, status, job>>
    BY <1>1 DEF vars, ChangeEmail, tables
  <2> QED
    BY <2>1 DEF KnownStand, CallerStands, Target, Actor
<1> QED
  BY <1>1, ResolveKnows, StartKnows, MovesKnow, EndsKnow DEF Next

\* Requests, roles and staff passes belong to people who have signed in, and
\* nobody manages their own access.
THEOREM KnownInvariance == Spec => []KnownStand
<1>1. IInv /\ KnownStand /\ [Next]_vars => KnownStand'
  BY KnownKept
<1> QED
  BY <1>1, KnownInit, Invariance, PTL DEF Spec

-------------------------------------------------------------------------------
(* The promise of StaffRoster.                                             *)

People == <<stored, scanners, organizers, status, passes, audit, shown>>

LEMMA SameTold ==
  ASSUME NEW es, NEW u
  PROVE  Told(es, u) = Roster!Told(es, u)
BY DEF Told, Roster!Told, Events, Roster!Events, Verdicts, Roster!Verdicts

LEMMA ToldNothing ==
  ASSUME TypeOK, NEW u
  PROVE  Told({}, u) = audit
BY DEF Told, TypeOK

\* Who changes a role or reviews a request is somebody else, and both are known.
LEMMA BothKnown ==
  ASSUME IInv, KnownStand, NEW s \in Sessions, At(s, RoleKinds, "commit")
  PROVE  Target(s) \in Users /\ Roster!KnownBeside(Target(s))
<1>1. /\ job[s] # None /\ job[s].stage = "commit" /\ job[s].req.kind \in RoleKinds
      /\ job[s].req.kind # "bootstrap"
  BY DEF At, RoleKinds
<1>2. Target(s) \in Users /\ Actor(s) \in Users
  BY <1>1, TypesNow, JobTypes, RequestTypes DEF Target, Actor
<1>3. /\ stored[Target(s)] # None /\ stored[Actor(s)] # None
      /\ Actor(s) # Target(s)
  BY <1>1 DEF KnownStand, CallerStands
<1> QED
  BY <1>2, <1>3 DEF Roster!KnownBeside, Roster!Known

LEMMA ResolvePromised ==
  ASSUME IInv, KnownStand, NEW s \in Sessions, Resolve(s)
  PROVE  \E u \in Users : Roster!SignIn(u)
<1>1. /\ job[s] # None /\ job[s].stage = "resolve" /\ job[s].req.kind # "bootstrap"
      /\ stored' = [stored EXCEPT ![Actor(s)] = job[s].admin] /\ UNCHANGED <<tables, shown>>
  BY DEF Resolve, UpsertClerkUser, KnownStand, CallerStands
<1>2. Actor(s) \in Users /\ job[s].admin \in BOOLEAN
  BY <1>1, TypesNow, JobTypes, RequestTypes DEF Actor
<1> QED
  BY <1>1, <1>2 DEF Roster!SignIn, tables

\* A role that a statement changed is still as the statement found it.
LEMMA RoleDiffers ==
  ASSUME IInv, NEW s \in Sessions, job[s] # None, job[s].changed
  PROVE  Target(s) \in scanners <=> ~Grants(s)
<1>1. (Target(s) \in scanners) # Grants(s)
  BY DEF IInv, RoleStands
<1>2. Grants(s) \in BOOLEAN /\ (Target(s) \in scanners) \in BOOLEAN
  BY DEF Grants
<1> QED
  BY <1>1, <1>2

LEMMA RolePromised ==
  ASSUME IInv, KnownStand, NEW s \in Sessions, ChangeScannerRole(s)
  PROVE  \/ \E u \in Users : Roster!Grant(u) \/ Roster!Revoke(u)
         \/ UNCHANGED People
<1> DEFINE u == Target(s)
<1>1. /\ At(s, {"grant", "revoke"}, "commit") /\ WriteRole(s)
      /\ audit' = Told(RoleEvents(s), u)
      /\ UNCHANGED <<stored, organizers, status, passes, shown>>
  BY DEF ChangeScannerRole
<1>2. u \in Users /\ Roster!KnownBeside(u) /\ job[s] # None
  BY <1>1, BothKnown DEF At, RoleKinds
<1>3. CASE ~job[s].changed
  <2>1. UNCHANGED <<scanners, audit>>
    BY <1>1, <1>3, TypesNow, ToldNothing DEF WriteRole, RoleEvents
  <2> QED
    BY <1>1, <2>1 DEF People
<1>4. CASE job[s].changed
  <2>1. u \in scanners <=> ~Grants(s)
    BY <1>2, <1>4, RoleDiffers
  <2>2. CASE Grants(s)
    <3>1. /\ u \notin scanners /\ scanners' = scanners \cup {u}
          /\ audit' = Roster!Told({"role_assigned"}, u)
      BY <1>1, <1>4, <2>1, <2>2, SameTold DEF WriteRole, RoleEvents, GrantScannerRole
    <3> HIDE DEF u
    <3> QED
      BY <1>1, <1>2, <3>1 DEF Roster!Grant
  <2>3. CASE ~Grants(s)
    <3>1. /\ u \in scanners /\ scanners' = scanners \ {u}
          /\ audit' = Roster!Told({"role_revoked"}, u)
      BY <1>1, <1>4, <2>1, <2>3, SameTold DEF WriteRole, RoleEvents, RevokeScannerRole
    <3> HIDE DEF u
    <3> QED
      BY <1>1, <1>2, <3>1 DEF Roster!Revoke
  <2> QED
    BY <2>2, <2>3
<1> QED
  BY <1>3, <1>4

LEMMA ReviewPromised ==
  ASSUME IInv, KnownStand, NEW s \in Sessions, ReviewVolunteerRequest(s)
  PROVE  \E u \in Users : \E verdict \in Roster!Verdicts : Roster!Review(u, verdict)
<1> DEFINE u == Target(s)
           verdict == job[s].req.verdict
<1>1. /\ At(s, {"review"}, "commit") /\ WriteRole(s)
      /\ status' = [status EXCEPT ![u] = verdict]
      /\ audit' = Told(RoleEvents(s) \cup {verdict}, u)
      /\ UNCHANGED <<stored, organizers, passes, shown>>
  BY DEF ReviewVolunteerRequest
<1>2. /\ u \in Users /\ Roster!KnownBeside(u)
      /\ job[s] # None /\ job[s].req.kind = "review"
  BY <1>1, BothKnown DEF At, RoleKinds
<1>3. verdict \in Roster!Verdicts
  BY <1>2, TypesNow, JobTypes, RequestTypes DEF Verdicts, Roster!Verdicts
<1>4. /\ status[u] = Expected(verdict)
      /\ verdict = "rejected" => ~job[s].changed
  BY <1>1 DEF IInv, ReviewStands
<1>5. Grants(s) <=> verdict = "approved"
  BY <1>2 DEF Grants
<1>6. \/ /\ verdict = "approved" /\ u \notin scanners
         /\ scanners' = scanners \cup {u}
         /\ audit' = Roster!Told({"role_assigned", verdict}, u)
      \/ /\ verdict = "revoked" /\ u \in scanners
         /\ scanners' = scanners \ {u}
         /\ audit' = Roster!Told({"role_revoked", verdict}, u)
      \/ /\ audit' = Roster!Told({verdict}, u)
         /\ UNCHANGED scanners
  <2> HIDE DEF u, verdict
  <2>1. CASE ~job[s].changed
    <3>1. RoleEvents(s) \cup {verdict} = {verdict}
      BY <2>1 DEF RoleEvents
    <3> QED
      BY <1>1, <2>1, <3>1, SameTold DEF WriteRole
  <2>2. CASE job[s].changed
    <3>1. u \in scanners <=> ~Grants(s)
      BY <1>2, <2>2, RoleDiffers DEF u
    <3>2. CASE Grants(s)
      <4>1. RoleEvents(s) \cup {verdict} = {"role_assigned", verdict}
        BY <2>2, <3>2 DEF RoleEvents
      <4> QED
        BY <1>1, <1>5, <2>2, <3>1, <3>2, <4>1, SameTold DEF WriteRole, GrantScannerRole, u
    <3>3. CASE ~Grants(s)
      <4>1. RoleEvents(s) \cup {verdict} = {"role_revoked", verdict}
        BY <2>2, <3>3 DEF RoleEvents
      <4>2. verdict = "revoked" /\ u \in scanners
        BY <1>3, <1>4, <1>5, <2>2, <3>1, <3>3 DEF Roster!Verdicts
      <4> QED
        BY <1>1, <2>2, <3>3, <4>1, <4>2, SameTold DEF WriteRole, RevokeScannerRole, u
    <3> QED
      BY <3>2, <3>3
  <2> QED
    BY <2>1, <2>2
<1> HIDE DEF u, verdict
<1>7. Roster!Review(u, verdict)
  BY <1>1, <1>2, <1>4, <1>6 DEF Roster!Review, Expected
<1> QED
  BY <1>2, <1>3, <1>7

LEMMA OwnPromised ==
  ASSUME IInv, KnownStand, NEW s \in Sessions,
         RequestVolunteerAccess(s) \/ IssueStaffPass(s) \/ ShowStaffPass(s)
  PROVE  \/ \E u \in Users : Roster!Volunteer(u) \/ Roster!Issue(u) \/ Roster!Show(u)
         \/ UNCHANGED People
<1> DEFINE u == Actor(s)
<1>1. /\ job[s] # None /\ job[s].stage # "resolve"
      /\ job[s].req.kind \in {"volunteer", "staff_pass"}
  BY DEF RequestVolunteerAccess, IssueStaffPass, ShowStaffPass, At
<1>2. u \in Users /\ stored[u] # None
  BY <1>1, TypesNow, JobTypes, RequestTypes DEF KnownStand, CallerStands, Actor
<1>3. CASE RequestVolunteerAccess(s)
  <2>1. /\ status' = [status EXCEPT ![u] = IF status[u] = None THEN "pending" ELSE status[u]]
        /\ UNCHANGED <<stored, scanners, organizers, passes, audit, shown>>
    BY <1>3 DEF RequestVolunteerAccess
  <2>2. CASE status[u] = None
    BY <1>2, <2>1, <2>2 DEF Roster!Volunteer, Roster!Known
  <2>3. CASE status[u] # None
    <3>1. UNCHANGED status
      BY <1>2, <2>1, <2>3, TypesNow DEF TypeOK
    <3> QED
      BY <2>1, <3>1 DEF People
  <2> QED
    BY <2>2, <2>3
<1>4. CASE IssueStaffPass(s)
  <2>1. CASE Eligible(u) /\ passes[u] = None
    <3>1. /\ \E id \in Passes \ {passes[v] : v \in Users} : passes' = [passes EXCEPT ![u] = id]
          /\ audit' = Roster!Told({"pass_issued"}, u)
          /\ UNCHANGED <<stored, scanners, organizers, status, shown>>
      BY <1>4, <2>1, SameTold DEF IssueStaffPass
    <3>2. Roster!Eligible(u)
      BY <2>1 DEF Eligible, Roster!Eligible
    <3> HIDE DEF u
    <3>3. Roster!Issue(u)
      BY <2>1, <3>1, <3>2 DEF Roster!Issue
    <3> QED
      BY <1>2, <3>3
  <2>2. CASE ~(Eligible(u) /\ passes[u] = None)
    BY <1>4, <2>2 DEF IssueStaffPass, People
  <2> QED
    BY <2>1, <2>2
<1>5. CASE ShowStaffPass(s)
  <2>1. Roster!Show(u)
    BY <1>5 DEF ShowStaffPass, Eligible, Roster!Show, Roster!Eligible, tables
  <2> QED
    BY <1>2, <2>1
<1> QED
  BY <1>3, <1>4, <1>5

LEMMA BootstrapPromised ==
  ASSUME IInv, KnownStand, NEW s \in Sessions, BootstrapFirstOrganizer(s)
  PROVE  \/ \E u \in Users : Roster!Bootstrap(u)
         \/ UNCHANGED People
<1> DEFINE u == Target(s)
<1>1. /\ job[s] # None /\ job[s].req.kind = "bootstrap"
      /\ UNCHANGED <<stored, scanners, status, passes, shown>>
  BY DEF BootstrapFirstOrganizer, At
<1>2. u \in Users /\ stored[u] # None
  BY <1>1, TypesNow, JobTypes, RequestTypes DEF KnownStand, CallerStands, Target
<1>3. CASE UNCHANGED <<organizers, audit>>
  BY <1>1, <1>3 DEF People
<1>4. CASE /\ job[s].saw = {} /\ Serializable(s)
           /\ organizers' = organizers \cup {u}
           /\ audit' = Told({"bootstrapped"}, u)
  <2>1. organizers = {} /\ organizers' = {u} /\ audit' = Roster!Told({"bootstrapped"}, u)
    BY <1>4, SameTold DEF Serializable
  <2> HIDE DEF u
  <2>2. Roster!Bootstrap(u)
    BY <1>1, <1>2, <2>1 DEF Roster!Bootstrap, Roster!Known
  <2> QED
    BY <1>2, <2>2
<1> QED
  BY <1>3, <1>4 DEF BootstrapFirstOrganizer

LEMMA InitPromised == Init => Roster!Init
BY DEF Init, Roster!Init, Events, Roster!Events, Verdicts, Roster!Verdicts

LEMMA StepPromised ==
  ASSUME IInv, KnownStand, [Next]_vars
  PROVE  [Roster!Next]_(Roster!vars)
<1>1. UNCHANGED People => UNCHANGED Roster!vars
  BY DEF People, Roster!vars
<1>2. ASSUME NEW s \in Sessions,
             \/ Resolve(s) \/ ChangeScannerRole(s) \/ ReviewVolunteerRequest(s)
             \/ RequestVolunteerAccess(s) \/ IssueStaffPass(s) \/ ShowStaffPass(s)
             \/ BootstrapFirstOrganizer(s)
      PROVE  [Roster!Next]_(Roster!vars)
  <2>1. CASE Resolve(s)
    BY <2>1, ResolvePromised DEF Roster!Next
  <2>2. CASE ChangeScannerRole(s)
    BY <1>1, <2>2, RolePromised DEF Roster!Next
  <2>3. CASE ReviewVolunteerRequest(s)
    BY <2>3, ReviewPromised DEF Roster!Next
  <2>4. CASE RequestVolunteerAccess(s) \/ IssueStaffPass(s) \/ ShowStaffPass(s)
    BY <1>1, <2>4, OwnPromised DEF Roster!Next
  <2>5. CASE BootstrapFirstOrganizer(s)
    BY <1>1, <2>5, BootstrapPromised DEF Roster!Next
  <2> QED
    BY <1>2, <2>1, <2>2, <2>3, <2>4, <2>5
<1>3. ASSUME NEW s \in Sessions,
             \/ Arrive(s) \/ Refuse(s) \/ CheckTarget(s) \/ LockRequest(s) \/ ChangeRole(s)
             \/ StartBootstrap(s) \/ AcquireBootstrapLock(s)
      PROVE  UNCHANGED People
  BY <1>3 DEF Arrive, Refuse, CheckTarget, LockRequest, ChangeRole, StartBootstrap,
              AcquireBootstrapLock, tables, People
<1>4. UNCHANGED vars \/ (\E u \in Users : ChangeEmail(u)) => UNCHANGED People
  BY DEF vars, ChangeEmail, tables, People
<1> QED
  BY <1>1, <1>2, <1>3, <1>4 DEF Next

\* With profiles fetched earlier, checks before locks, and a snapshot from
\* before its wait, the requests of users and staff passes implement StaffRoster.
THEOREM Refinement == Spec => RosterSpec
<1>1. IInv /\ KnownStand /\ [Next]_vars => [Roster!Next]_(Roster!vars)
  BY StepPromised
<1> QED
  BY <1>1, InitPromised, Invariance, KnownInvariance, PTL DEF Spec, RosterSpec, Roster!Spec

==============================================================================
