----------------------------- MODULE IntakeProofs -----------------------------
(***************************************************************************)
(* Theorems about Intake, for every number of dashboards and objects,      *)
(* every set of answers, any window: what a submission checked still holds *)
(* when it commits, and no dashboard overwrites answers it has not seen.   *)
(***************************************************************************)
EXTENDS Submission, TLAPS

JobsTyped == job \in [Tabs -> Jobs \cup {None}]

-------------------------------------------------------------------------------
(* What the small operators do.                                            *)

LEMMA NoneIsNoJob == None \notin Jobs /\ None \notin Views /\ None \notin Objects
BY AbsentAssumption

LEMMA NoneIsNoRow == None \notin Drafts /\ None \notin Sent
BY AbsentAssumption

\* Moving on to the next statement changes a request's stage only.
LEMMA MoveChanges ==
  ASSUME JobsTyped, NEW t \in Tabs, job[t] # None, NEW stage \in Stages,
         Move(t, stage)
  PROVE  /\ JobsTyped'
         /\ job'[t] # None /\ job'[t].req = job[t].req
         /\ job'[t].stage = stage /\ job'[t].began = job[t].began
         /\ \A u \in Tabs \ {t} : job'[u] = job[u]
<1>1. ASSUME NEW j \in Jobs
      PROVE  LET k == [j EXCEPT !.stage = stage]
             IN  k \in Jobs /\ k.req = j.req /\ k.stage = stage /\ k.began = j.began
  BY DEF Jobs
<1>2. job[t] \in Jobs
  BY DEF JobsTyped
<1>3. job' = [job EXCEPT ![t] = [job[t] EXCEPT !.stage = stage]]
  BY DEF Move
<1> DEFINE next == [job[t] EXCEPT !.stage = stage]
<1>4. /\ next \in Jobs /\ next.req = job[t].req
      /\ next.stage = stage /\ next.began = job[t].began
  BY <1>1, <1>2
<1>5. next # None
  BY <1>4, NoneIsNoJob
<1> HIDE DEF next
<1> QED
  BY <1>3, <1>4, <1>5 DEF JobsTyped, next

\* A dashboard's new request.
LEMMA StartChanges ==
  ASSUME JobsTyped, now \in Time, NEW t \in Tabs, NEW req \in Requests,
         job' = [job EXCEPT ![t] = Started(req)]
  PROVE  /\ JobsTyped'
         /\ job'[t] # None /\ job'[t].req = req /\ job'[t].stage = "read"
         /\ \A u \in Tabs \ {t} : job'[u] = job[u]
<1>1. /\ Started(req) \in Jobs
      /\ Started(req).req = req /\ Started(req).stage = "read"
  BY DEF Started, Jobs, Stages
<1>2. Started(req) # None
  BY <1>1, NoneIsNoJob
<1> QED
  BY <1>1, <1>2 DEF JobsTyped

\* A request that ends is gone, and so are its locks.
LEMMA EndChanges ==
  ASSUME JobsTyped, OneWriter, NEW t \in Tabs, End(t)
  PROVE  /\ JobsTyped'
         /\ job'[t] = None /\ held'[t] = {}
         /\ \A u \in Tabs \ {t} : job'[u] = job[u] /\ held'[u] = held[u]
         /\ OneWriter'
<1>1. /\ JobsTyped'
      /\ job'[t] = None
      /\ \A u \in Tabs \ {t} : job'[u] = job[u]
  BY DEF JobsTyped, End
<1>2. /\ held'[t] = {}
      /\ \A u \in Tabs \ {t} : held'[u] = held[u]
      /\ held' \in [Tabs -> SUBSET {Lock}]
  BY DEF OneWriter, End, Lock, ApplicationRow
<1>3. OneWriter'
  BY <1>1, <1>2 DEF OneWriter, At, Lock, ApplicationRow
<1> QED
  BY <1>1, <1>2, <1>3

\* Whoever gets the row to write is alone with it.
LEMMA FreeIsAlone ==
  ASSUME OneWriter, NEW t \in Tabs, Free(t, "no_key_update")
  PROVE  \A u \in Tabs \ {t} : held[u] = {}
<1> SUFFICES ASSUME NEW u \in Tabs \ {t}, held[u] # {}
             PROVE  FALSE
  OBVIOUS
<1>1. Lock \in held[u] /\ DOMAIN held = Tabs
  BY DEF OneWriter
<1>2. ~Compatible("no_key_update", "no_key_update") /\ "no_key_update" \in Modes
  BY DEF Compatible, Modes
<1> QED
  BY <1>1, <1>2 DEF Free, Grantable, Blockers, Lock

\* What the kind of a request tells about its fields.
LEMMA RequestTypes ==
  ASSUME NEW j \in Jobs
  PROVE  /\ j.req.kind = "save" => j.req.version \in Nat /\ j.req.answers \in Answers
         /\ j.req.kind = "submit" => j.req.version \in Nat
BY DEF Jobs, Requests, Uploads

\* What a dashboard is shown of an application.
LEMMA ViewTypes ==
  ASSUME TypeOK, app # None
  PROVE  /\ View \in Views /\ View.version = app.version /\ View.answers = app.answers
         /\ View.status = "draft" <=> app.status = "draft"
<1>1. CASE app \in Drafts
  BY <1>1 DEF View, Views, Drafts
<1>2. CASE app \in Sent
  BY <1>2 DEF View, Views, Sent
<1> QED
  BY <1>1, <1>2 DEF TypeOK

-------------------------------------------------------------------------------
(* The invariant, action by action.                                        *)

\* A request stands while its own job, its dashboard and the row stay.
LEMMA OthersStand ==
  ASSUME NEW u \in Tabs, Stands(u),
         app' = app, job'[u] = job[u], tab'[u] = tab[u],
         store \subseteq store', resume # None => resume' # None
  PROVE  Stands(u)'
BY DEF Stands, RequestStands, SaveStands, SubmitStands, Kind, StillDraft, InWindow

\* One dashboard's job changes; no row does, nor what a dashboard shows.
LEMMA JobKeeps ==
  ASSUME IInv, NEW t \in Tabs,
         UNCHANGED <<app, resume, queued, author, now, tab>>,
         store \subseteq store', store' \subseteq Objects,
         notice' \in [Tabs -> BOOLEAN],
         JobsTyped', OneWriter',
         \A u \in Tabs \ {t} : job'[u] = job[u],
         Stands(t)'
  PROVE  IInv'
<1>1. TypeOK'
  BY DEF IInv, TypeOK, JobsTyped, Time
<1>2. TabsStand'
  BY DEF IInv, TabsStand
<1>3. JobsStand'
  <2>1. ASSUME NEW u \in Tabs \ {t} PROVE Stands(u)'
    BY <2>1, OthersStand DEF IInv, JobsStand
  <2> QED
    BY <2>1 DEF JobsStand
<1>4. SubmissionSound'
  BY DEF IInv, SubmissionSound
<1>5. ResumeStored'
  BY DEF IInv, ResumeStored
<1> QED
  BY <1>1, <1>2, <1>3, <1>4, <1>5 DEF IInv

\* A request ends, with at most a resume named and the application shown.
LEMMA EndKeeps ==
  ASSUME IInv, NEW t \in Tabs, End(t),
         UNCHANGED <<app, store, queued, author, now>>,
         resume' \in {resume} \cup store,
         notice' \in [Tabs -> BOOLEAN],
         tab' = tab \/ (app # None /\ tab' = [tab EXCEPT ![t] = View])
  PROVE  IInv'
<1>1. /\ JobsTyped' /\ OneWriter' /\ job'[t] = None
      /\ \A u \in Tabs \ {t} : job'[u] = job[u]
  BY EndChanges DEF IInv, TypeOK, JobsTyped
<1>2. /\ tab' \in [Tabs -> Views \cup {None}]
      /\ \A u \in Tabs \ {t} : tab'[u] = tab[u]
  BY ViewTypes DEF IInv, TypeOK
<1>3. TypeOK'
  BY <1>1, <1>2 DEF IInv, TypeOK, JobsTyped, Time
<1>4. TabsStand'
  <2>1. CASE tab' = tab
    BY <2>1 DEF IInv, TabsStand
  <2>2. CASE app # None /\ tab' = [tab EXCEPT ![t] = View]
    <3>1. /\ tab'[t].version = app.version /\ tab'[t].answers = app.answers
          /\ app.version \in Nat
      BY <2>2, ViewTypes DEF IInv, TypeOK, Views
    <3> QED
      BY <1>2, <2>2, <3>1 DEF IInv, TabsStand
  <2> QED
    BY <2>1, <2>2
<1>5. resume # None => resume' # None
  BY NoneIsNoJob DEF IInv, TypeOK
<1>6. JobsStand'
  <2>1. ASSUME NEW u \in Tabs \ {t} PROVE Stands(u)'
    BY <1>1, <1>2, <1>5, OthersStand DEF IInv, JobsStand
  <2> QED
    BY <1>1, <2>1 DEF JobsStand, Stands
<1>7. SubmissionSound'
  BY <1>5 DEF IInv, SubmissionSound
<1>8. ResumeStored'
  BY DEF IInv, ResumeStored
<1> QED
  BY <1>1, <1>3, <1>4, <1>6, <1>7, <1>8 DEF IInv

LEMMA LoadKeeps ==
  ASSUME IInv, NEW t \in Tabs, Load(t)
  PROVE  IInv'
<1>1. CASE app # None
  <2>1. /\ View \in Views /\ View.version = app.version /\ View.answers = app.answers
        /\ app.version \in Nat
    BY <1>1, ViewTypes DEF IInv, TypeOK, Views
  <2>2. /\ tab' = [tab EXCEPT ![t] = View] /\ notice' \in [Tabs -> BOOLEAN]
        /\ UNCHANGED <<stored, now, job, held>> /\ job[t] = None
    BY <1>1 DEF Load, IInv, TypeOK
  <2>3. /\ tab' \in [Tabs -> Views \cup {None}] /\ tab'[t] = View
        /\ \A u \in Tabs \ {t} : tab'[u] = tab[u]
    BY <2>1, <2>2 DEF IInv, TypeOK
  <2>4. TypeOK' /\ OneWriter' /\ SubmissionSound' /\ ResumeStored'
    BY <2>2, <2>3 DEF IInv, TypeOK, OneWriter, At, SubmissionSound, ResumeStored, stored, Time
  <2>5. TabsStand'
    BY <1>1, <2>1, <2>2, <2>3 DEF IInv, TabsStand, stored
  <2>6. ASSUME NEW u \in Tabs \ {t} PROVE Stands(u)'
    BY <2>2, <2>3, <2>6, OthersStand DEF IInv, JobsStand, stored
  <2>7. JobsStand'
    BY <2>2, <2>6 DEF JobsStand, Stands
  <2> QED
    BY <2>4, <2>5, <2>7 DEF IInv
<1>2. CASE app = None
  <2> DEFINE req == [kind |-> "create"]
  <2>1. /\ job' = [job EXCEPT ![t] = Started(req)] /\ req \in Requests
        /\ UNCHANGED <<stored, now, held, shown>>
    BY <1>2 DEF Load, Requests
  <2>2. JobsTyped /\ now \in Time
    BY DEF IInv, TypeOK, JobsTyped
  <2>3. /\ JobsTyped' /\ job'[t].req = req /\ job'[t].stage = "read"
        /\ \A u \in Tabs \ {t} : job'[u] = job[u]
    BY <2>1, <2>2, StartChanges
  <2>4. OneWriter'
    BY <2>1, <2>3 DEF IInv, OneWriter, At
  <2>5. Stands(t)'
    BY <2>3 DEF Stands, RequestStands, SaveStands, SubmitStands, Kind
  <2> QED
    BY <2>1, <2>3, <2>4, <2>5, JobKeeps DEF IInv, TypeOK, stored, shown
<1> QED
  BY <1>1, <1>2

LEMMA FillKeeps ==
  ASSUME IInv, NEW t \in Tabs, Fill(t)
  PROVE  IInv'
<1>1. PICK answers \in Answers, submits \in BOOLEAN :
        job' = [job EXCEPT ![t] =
                  Started([kind |-> "save", version |-> tab[t].version,
                           answers |-> answers, submits |-> submits])]
  BY DEF Fill
<1> DEFINE req == [kind |-> "save", version |-> tab[t].version,
                   answers |-> answers, submits |-> submits]
<1>2. tab[t] \in Views /\ tab[t] # None /\ tab[t].status = "draft"
  BY DEF Fill, Editable, IInv, TypeOK
<1>3. req \in Requests
  BY <1>2 DEF Requests, Views
<1>4. JobsTyped /\ now \in Time
  BY DEF IInv, TypeOK, JobsTyped
<1>5. /\ JobsTyped' /\ job'[t].req = req /\ job'[t].stage = "read"
      /\ \A u \in Tabs \ {t} : job'[u] = job[u]
  BY <1>1, <1>3, <1>4, StartChanges
<1>6. UNCHANGED <<stored, now, tab, held>> /\ notice' \in [Tabs -> BOOLEAN]
  BY DEF Fill, IInv, TypeOK
<1>7. OneWriter'
  BY <1>5, <1>6 DEF IInv, OneWriter, At
<1>8. Stands(t)'
  BY <1>2, <1>5, <1>6
  DEF Stands, RequestStands, SaveStands, SubmitStands, Kind, IInv, TabsStand, stored
<1> QED
  BY <1>5, <1>6, <1>7, <1>8, JobKeeps DEF IInv, TypeOK, stored

LEMMA AttachKeeps ==
  ASSUME IInv, NEW t \in Tabs, Attach(t)
  PROVE  IInv'
<1> DEFINE req == [kind |-> "upload"]
<1>1. /\ job' = [job EXCEPT ![t] = Started(req)] /\ req \in Requests
      /\ UNCHANGED <<stored, now, tab, held>> /\ notice' \in [Tabs -> BOOLEAN]
      /\ app # None
  BY DEF Attach, Editable, Requests, IInv, TypeOK, TabsStand
<1>2. JobsTyped /\ now \in Time
  BY DEF IInv, TypeOK, JobsTyped
<1>3. /\ JobsTyped' /\ job'[t].req = req /\ job'[t].stage = "read"
      /\ \A u \in Tabs \ {t} : job'[u] = job[u]
  BY <1>1, <1>2, StartChanges
<1>4. OneWriter'
  BY <1>1, <1>3 DEF IInv, OneWriter, At
<1>5. Stands(t)'
  BY <1>1, <1>3 DEF Stands, RequestStands, SaveStands, SubmitStands, Kind, stored
<1> QED
  BY <1>1, <1>3, <1>4, <1>5, JobKeeps DEF IInv, TypeOK, stored

\* The row is compared here and read again by the statement that writes it.
LEMMA ReadBeforeKeeps ==
  ASSUME IInv, NEW t \in Tabs, ReadBefore(t)
  PROVE  IInv'
<1> DEFINE req == job[t].req
           next == CASE req.kind = "create" -> "write"
                     [] req.kind = "upload" -> "put"
                     [] req.kind = "save" ->
                          IF StillDraft(req.version) THEN "write" ELSE "conflict"
                     [] req.kind = "submit" ->
                          IF StillDraft(req.version) THEN "resume" ELSE "conflict"
<1>1. /\ job[t] # None /\ job[t].stage = "read" /\ job[t] \in Jobs
      /\ job' = [job EXCEPT ![t] = [req |-> req, stage |-> next, began |-> now]]
      /\ next = "resume" => app.answers \in Complete
      /\ UNCHANGED <<stored, now, shown, held>>
  BY DEF ReadBefore, At, IInv, TypeOK
<1>2. req.kind \in {"create", "upload", "save", "submit"}
  BY <1>1 DEF Jobs, Requests, Uploads
<1>3. /\ next \in {"write", "put", "conflict", "resume"}
      /\ next = "resume" <=> req.kind = "submit" /\ StillDraft(req.version)
      /\ next = "put" => req.kind = "upload"
      /\ req.kind = "create" => next = "write"
      /\ next = "write" => req.kind \in {"create", "save"}
  BY <1>2
<1> HIDE DEF next
<1> DEFINE new == [req |-> req, stage |-> next, began |-> now]
<1>4. new \in Jobs /\ new.req = req /\ new.stage = next
  <2>1. req \in Requests \cup Uploads
    BY <1>1 DEF Jobs
  <2>2. next \in Stages /\ now \in Time
    BY <1>3 DEF Stages, IInv, TypeOK
  <2> QED
    BY <2>1, <2>2 DEF Jobs
<1>5. new # None
  BY <1>4, NoneIsNoJob
<1>6. job' = [job EXCEPT ![t] = new]
  BY <1>1
<1> HIDE DEF new
<1>7. /\ JobsTyped' /\ job'[t] = new
      /\ \A u \in Tabs \ {t} : job'[u] = job[u]
  BY <1>4, <1>6 DEF JobsTyped, IInv, TypeOK
<1>8. OneWriter'
  BY <1>1, <1>3, <1>4, <1>7 DEF IInv, OneWriter, At
<1>9. Stands(t)'
  BY <1>1, <1>2, <1>3, <1>4, <1>5, <1>7
  DEF Stands, RequestStands, SaveStands, SubmitStands, Kind, StillDraft,
      IInv, JobsStand, stored, shown
<1> QED
  BY <1>1, <1>7, <1>8, <1>9, JobKeeps DEF IInv, TypeOK, stored, shown

LEMMA CheckResumeKeeps ==
  ASSUME IInv, NEW t \in Tabs, CheckResume(t)
  PROVE  IInv'
<1>1. /\ job[t] # None /\ job[t].stage = "resume" /\ Move(t, "write")
      /\ ResumeRequired => resume # None
      /\ UNCHANGED <<stored, now, shown, held>>
  BY DEF CheckResume, At
<1>2. JobsTyped /\ "write" \in Stages
  BY DEF IInv, TypeOK, JobsTyped, Stages
<1>3. /\ JobsTyped' /\ job'[t] # None /\ job'[t].req = job[t].req
      /\ job'[t].stage = "write"
      /\ \A u \in Tabs \ {t} : job'[u] = job[u]
  BY <1>1, <1>2, MoveChanges
<1>4. OneWriter'
  BY <1>1, <1>3 DEF IInv, OneWriter, At
<1>5. Stands(t)'
  BY <1>1, <1>3
  DEF Stands, RequestStands, SaveStands, SubmitStands, Kind, StillDraft,
      IInv, JobsStand, stored, shown
<1> QED
  BY <1>1, <1>3, <1>4, <1>5, JobKeeps DEF IInv, TypeOK, stored, shown

\* The statement locks the row it has found as the request expects it.
LEMMA UpdateApplicationKeeps ==
  ASSUME IInv, NEW t \in Tabs, UpdateApplication(t)
  PROVE  IInv'
<1>1. /\ job[t] # None /\ job[t].stage = "write" /\ Kind(t) \in {"save", "submit"}
      /\ UNCHANGED <<stored, now, shown>> /\ Free(t, "no_key_update")
  BY DEF UpdateApplication, At
<1>2. JobsTyped /\ OneWriter /\ {"commit", "conflict"} \subseteq Stages
  BY DEF IInv, TypeOK, JobsTyped, Stages
<1>3. CASE /\ StillDraft(job[t].req.version)
           /\ Kind(t) = "submit" => InWindow(job[t].began)
  <2>1. /\ held' = [held EXCEPT ![t] = @ \cup {Lock}] /\ Move(t, "commit")
    BY <1>3 DEF UpdateApplication, Lock
  <2>2. /\ JobsTyped' /\ job'[t] # None /\ job'[t].req = job[t].req
        /\ job'[t].stage = "commit" /\ job'[t].began = job[t].began
        /\ \A u \in Tabs \ {t} : job'[u] = job[u]
    BY <1>1, <1>2, <2>1, MoveChanges
  <2>3. /\ held' \in [Tabs -> SUBSET {Lock}] /\ held'[t] = {Lock}
        /\ \A u \in Tabs \ {t} : held'[u] = held[u] /\ held[u] = {}
    BY <1>1, <1>2, <2>1, FreeIsAlone DEF OneWriter
  <2>4. OneWriter'
    BY <1>2, <2>2, <2>3 DEF OneWriter, At
  <2>5. Stands(t)'
    BY <1>1, <1>3, <2>2
    DEF Stands, RequestStands, SaveStands, SubmitStands, Kind, StillDraft, InWindow,
        IInv, JobsStand, stored, shown
  <2> QED
    BY <1>1, <2>2, <2>4, <2>5, JobKeeps DEF IInv, TypeOK, stored, shown
<1>4. CASE ~ (/\ StillDraft(job[t].req.version)
              /\ Kind(t) = "submit" => InWindow(job[t].began))
  <2>1. Move(t, "conflict") /\ held' = held
    BY <1>4 DEF UpdateApplication
  <2>2. /\ JobsTyped' /\ job'[t] # None /\ job'[t].req = job[t].req
        /\ job'[t].stage = "conflict"
        /\ \A u \in Tabs \ {t} : job'[u] = job[u]
    BY <1>1, <1>2, <2>1, MoveChanges
  <2>3. OneWriter'
    BY <1>2, <2>1, <2>2 DEF OneWriter, At
  <2>4. Stands(t)'
    BY <1>1, <2>2
    DEF Stands, RequestStands, SaveStands, SubmitStands, Kind, IInv, JobsStand,
        stored, shown
  <2> QED
    BY <1>1, <2>2, <2>3, <2>4, JobKeeps DEF IInv, TypeOK, stored, shown
<1> QED
  BY <1>3, <1>4

LEMMA PutKeeps ==
  ASSUME IInv, NEW t \in Tabs, Put(t)
  PROVE  IInv'
<1>1. PICK o \in Objects \ store :
        /\ store' = store \cup {o}
        /\ job' = [job EXCEPT ![t] = [req |-> [kind |-> "upload", key |-> o],
                                      stage |-> "upsert", began |-> @.began]]
  BY DEF Put
<1>2. /\ job[t] # None /\ job[t].stage = "put" /\ job[t] \in Jobs
      /\ UNCHANGED <<app, resume, queued, author, now, shown, held>>
  BY DEF Put, At, IInv, TypeOK
<1> DEFINE new == [req |-> [kind |-> "upload", key |-> o],
                   stage |-> "upsert", began |-> job[t].began]
<1>3. new \in Jobs
  BY <1>2 DEF Jobs, Uploads, Stages
<1>4. new # None
  BY <1>3, NoneIsNoJob
<1>5. /\ JobsTyped' /\ job'[t] = new
      /\ \A u \in Tabs \ {t} : job'[u] = job[u]
  BY <1>1, <1>3 DEF JobsTyped, IInv, TypeOK
<1>6. OneWriter'
  BY <1>2, <1>5 DEF IInv, OneWriter, At
<1>7. app # None
  BY <1>2 DEF IInv, JobsStand, Stands, RequestStands
<1>8. Stands(t)'
  BY <1>1, <1>2, <1>5, <1>7
  DEF Stands, RequestStands, SaveStands, SubmitStands, Kind, shown
<1> QED
  BY <1>1, <1>2, <1>5, <1>6, <1>8, JobKeeps DEF IInv, TypeOK, shown

\* A request that has an application to show.
LEMMA ApplicationExists ==
  ASSUME IInv, NEW t \in Tabs, job[t] # None, job[t].stage \notin {"read", "write"}
  PROVE  app # None
BY DEF IInv, JobsStand, Stands, RequestStands

LEMMA UpsertResumeKeeps ==
  ASSUME IInv, NEW t \in Tabs, UpsertResume(t)
  PROVE  IInv'
<1>1. job[t] # None /\ job[t].stage = "upsert" /\ End(t) /\ resume' = job[t].req.key
  BY DEF UpsertResume, At
<1>2. job[t].req.key \in store
  BY <1>1 DEF IInv, JobsStand, Stands, RequestStands
<1> QED
  BY <1>1, <1>2, EndKeeps DEF UpsertResume, shown, IInv, TypeOK

LEMMA EndingKeeps ==
  ASSUME IInv, NEW t \in Tabs,
         AlreadySubmitted(t) \/ ShowCreated(t) \/ Conflict(t) \/ Refuse(t)
  PROVE  IInv'
<1>1. CASE AlreadySubmitted(t)
  <2>1. job[t] # None /\ Kind(t) = "submit"
    BY <1>1 DEF AlreadySubmitted, At
  <2>2. app # None
    BY <2>1 DEF IInv, JobsStand, Stands, RequestStands, Kind
  <2> QED
    BY <1>1, <2>2, EndKeeps DEF AlreadySubmitted, stored, IInv, TypeOK
<1>2. CASE ShowCreated(t)
  <2>1. app # None
    BY <1>2, ApplicationExists DEF ShowCreated, At
  <2> QED
    BY <1>2, <2>1, EndKeeps DEF ShowCreated, stored, IInv, TypeOK
<1>3. CASE Conflict(t)
  <2>1. app # None
    BY <1>3, ApplicationExists DEF Conflict, At
  <2>2. notice' \in [Tabs -> BOOLEAN]
    BY <1>3 DEF Conflict, IInv, TypeOK
  <2> QED
    BY <1>3, <2>1, <2>2, EndKeeps DEF Conflict, stored
<1>4. CASE Refuse(t)
  BY <1>4, EndKeeps DEF Refuse, stored, shown, IInv, TypeOK
<1> QED
  BY <1>1, <1>2, <1>3, <1>4

LEMMA TickKeeps ==
  ASSUME IInv, Tick
  PROVE  IInv'
<1>1. now' \in Time /\ UNCHANGED <<stored, shown, job, held>>
  BY WindowAssumption DEF Tick, Time, IInv, TypeOK
<1>2. ASSUME NEW u \in Tabs PROVE Stands(u)'
  BY <1>1, OthersStand DEF IInv, JobsStand, stored, shown
<1> QED
  BY <1>1, <1>2
  DEF IInv, TypeOK, OneWriter, At, TabsStand, JobsStand, SubmissionSound,
      ResumeStored, stored, shown

-------------------------------------------------------------------------------
(* The four that write the applications row.                               *)

\* Before there is an application, every request is one that creates it.
LEMMA CreateApplicationKeeps ==
  ASSUME IInv, NEW t \in Tabs, CreateApplication(t)
  PROVE  IInv'
<1>1. /\ job[t] # None /\ job[t].stage = "write" /\ Kind(t) = "create"
      /\ Move(t, "answer")
      /\ UNCHANGED <<resume, store, queued, now, shown, held>>
  BY DEF CreateApplication, At
<1>2. JobsTyped /\ "answer" \in Stages
  BY DEF IInv, TypeOK, JobsTyped, Stages
<1>3. /\ JobsTyped' /\ job'[t] # None /\ job'[t].req = job[t].req
      /\ job'[t].stage = "answer"
      /\ \A u \in Tabs \ {t} : job'[u] = job[u]
  BY <1>1, <1>2, MoveChanges
<1>4. OneWriter'
  BY <1>1, <1>3 DEF IInv, OneWriter, At
<1> DEFINE row == [status |-> "draft", version |-> 0, answers |-> Blank, at |-> None]
<1>5. CASE app = None
  <2>1. app' = row /\ author' = t
    BY <1>5 DEF CreateApplication
  <2>2. row \in Drafts /\ row # None
    <3>1. row \in Drafts
      BY AnswersAssumption DEF Drafts
    <3> QED
      BY <3>1, NoneIsNoRow
  <2>3. TypeOK'
    BY <1>1, <1>3, <2>1, <2>2 DEF IInv, TypeOK, JobsTyped, Time, shown
  <2>4. TabsStand'
    BY <1>1, <1>5 DEF IInv, TabsStand, shown
  <2>5. ASSUME NEW u \in Tabs PROVE Stands(u)'
    <3>1. job[u] # None => Kind(u) = "create" /\ job[u].stage \in {"read", "write"}
      BY <1>5 DEF IInv, JobsStand, Stands, RequestStands
    <3> QED
      BY <1>1, <1>3, <2>1, <2>2, <3>1
      DEF Stands, RequestStands, SaveStands, SubmitStands, Kind
  <2>6. SubmissionSound' /\ ResumeStored'
    BY <1>1, <1>5, <2>1, <2>2 DEF IInv, SubmissionSound, ResumeStored
  <2> QED
    BY <1>4, <2>3, <2>4, <2>5, <2>6 DEF IInv, JobsStand
<1>6. CASE app # None
  <2>1. UNCHANGED <<app, author>>
    BY <1>6 DEF CreateApplication
  <2>2. Stands(t)'
    BY <1>1, <1>3, <1>6, <2>1 DEF Stands, RequestStands, SaveStands, SubmitStands, Kind
  <2> QED
    BY <1>1, <1>3, <1>4, <2>1, <2>2, JobKeeps DEF IInv, TypeOK, shown
<1> QED
  BY <1>5, <1>6

\* The holder of the row's lock is the only one about to commit a write of it.
LEMMA HolderIsAlone ==
  ASSUME IInv, NEW t \in Tabs, At(t, "commit")
  PROVE  /\ held[t] = {Lock}
         /\ \A u \in Tabs \ {t} : held[u] = {} /\ ~At(u, "commit")
BY DEF IInv, OneWriter

\* The row UpdateApplicationDraft leaves.
LEMMA SavedTypes ==
  ASSUME NEW row \in Drafts, NEW answers \in Answers
  PROVE  LET saved == [row EXCEPT !.version = @ + 1, !.answers = answers]
         IN  /\ saved \in Drafts /\ saved.status = "draft"
             /\ saved.version = row.version + 1
             /\ saved.answers = answers /\ row.version \in Nat
<1> DEFINE saved == [row EXCEPT !.version = @ + 1, !.answers = answers]
<1>1. row.version \in Nat /\ row.version + 1 \in Nat
  BY DEF Drafts
<1>2. ASSUME NEW version \in Nat
      PROVE  [row EXCEPT !.version = version, !.answers = answers] \in Drafts
  BY DEF Drafts
<1>3. saved \in Drafts
  BY <1>1, <1>2, Zenon
<1>4. saved.version = row.version + 1 /\ saved.answers = answers
  BY DEF Drafts
<1>5. saved.status = "draft"
  BY <1>3 DEF Drafts
<1> QED
  BY <1>1, <1>3, <1>4, <1>5

\* Others find the draft at a version past the one they compare with.
LEMMA SaveDraftKeeps ==
  ASSUME IInv, NEW t \in Tabs, SaveDraft(t)
  PROVE  IInv'
<1> DEFINE req == job[t].req
           saved == [app EXCEPT !.version = @ + 1, !.answers = req.answers]
           submit == [kind |-> "submit", version |-> saved.version]
           view == [status |-> "draft", version |-> saved.version,
                    answers |-> saved.answers]
<1>1. /\ job[t] # None /\ job[t].stage = "commit" /\ Kind(t) = "save"
      /\ At(t, "commit") /\ job[t] \in Jobs
      /\ app' = saved /\ author' = t
      /\ held' = [held EXCEPT ![t] = {}]
      /\ UNCHANGED <<resume, store, queued, now, notice>>
  BY DEF SaveDraft, At, IInv, TypeOK
<1>2. /\ app # None /\ app.status = "draft" /\ app.version = req.version
      /\ tab[t] # None /\ tab[t].status = "draft"
  BY <1>1 DEF IInv, JobsStand, Stands, RequestStands, SaveStands, StillDraft, Kind
<1>3. app \in Drafts /\ req.answers \in Answers
  BY <1>1, <1>2, RequestTypes DEF IInv, TypeOK, Sent, Kind
<1>4. /\ saved \in Drafts /\ saved.status = "draft" /\ saved.version = app.version + 1
      /\ saved.answers = req.answers /\ app.version \in Nat
  BY <1>3, SavedTypes
<1> HIDE DEF saved
<1>5. saved # None
  BY <1>4, NoneIsNoRow
<1>6. submit \in Requests /\ view \in Views /\ saved.version \in Nat
  BY <1>3, <1>4 DEF Requests, Views
<1>7. Started(submit) \in Jobs
  BY <1>6 DEF Started, Jobs, Stages, IInv, TypeOK
<1>8. \/ job' = [job EXCEPT ![t] = Started(submit)] /\ tab' = tab
      \/ job' = [job EXCEPT ![t] = None] /\ tab' = [tab EXCEPT ![t] = view]
      \/ job' = [job EXCEPT ![t] = None] /\ tab' = tab
  BY DEF SaveDraft, saved
<1>9. /\ JobsTyped' /\ tab' \in [Tabs -> Views \cup {None}]
      /\ job'[t] \in {None, Started(submit)}
      /\ tab'[t] \in {tab[t], view}
      /\ \A u \in Tabs \ {t} : job'[u] = job[u] /\ tab'[u] = tab[u]
  BY <1>6, <1>7, <1>8 DEF JobsTyped, IInv, TypeOK
<1>10. TypeOK'
  BY <1>1, <1>4, <1>9 DEF IInv, TypeOK, JobsTyped, Time
<1>11. OneWriter'
  <2>1. /\ held' \in [Tabs -> SUBSET {Lock}] /\ held'[t] = {}
        /\ \A u \in Tabs \ {t} : held'[u] = held[u]
    BY <1>1 DEF IInv, OneWriter
  <2>2. ~At(t, "commit")'
    BY <1>9 DEF At, Started
  <2> QED
    BY <1>9, <2>1, <2>2 DEF IInv, OneWriter, At
<1>12. TabsStand'
  <2>1. ASSUME NEW u \in Tabs, tab'[u] # None, tab'[u] = tab[u]
        PROVE  tab'[u].version < app'.version
    <3>1. tab[u] \in Views /\ tab[u].version <= app.version
      BY <2>1 DEF IInv, TypeOK, TabsStand
    <3> QED
      BY <1>1, <1>4, <2>1, <3>1 DEF Views
  <2>2. CASE tab'[t] = view
    BY <1>1, <1>4, <1>5, <1>9, <2>1, <2>2 DEF TabsStand, IInv, TypeOK, Views
  <2>3. CASE tab'[t] = tab[t]
    BY <1>1, <1>4, <1>5, <1>9, <2>1, <2>3 DEF TabsStand, IInv, TypeOK, Views
  <2> QED
    BY <1>9, <2>2, <2>3
<1>13. ASSUME NEW u \in Tabs \ {t} PROVE Stands(u)'
  <2> SUFFICES ASSUME job[u] # None PROVE Stands(u)'
    BY <1>9 DEF Stands
  <2>1. /\ job[u].stage # "commit" /\ job[u] \in Jobs
        /\ RequestStands(u) /\ SaveStands(u) /\ SubmitStands(u)
    BY <1>1, HolderIsAlone DEF At, IInv, TypeOK, JobsStand, Stands
  <2>2. RequestStands(u)'
    BY <1>1, <1>2, <1>5, <1>9, <2>1 DEF RequestStands, Kind
  <2>3. SaveStands(u)'
    BY <1>9, <2>1 DEF SaveStands, Kind
  <2>4. Kind(u) = "submit" => job[u].req.version \in Nat
    BY <2>1, RequestTypes DEF Kind
  <2>5. SubmitStands(u)'
    BY <1>1, <1>4, <1>9, <2>1, <2>4 DEF SubmitStands, Kind, StillDraft
  <2> QED
    BY <2>2, <2>3, <2>5 DEF Stands
<1>14. Stands(t)'
  BY <1>1, <1>5, <1>6, <1>9
  DEF Stands, RequestStands, SaveStands, SubmitStands, Kind, Started
<1>15. SubmissionSound' /\ ResumeStored'
  BY <1>1, <1>2, <1>4 DEF IInv, SubmissionSound, ResumeStored
<1> QED
  BY <1>10, <1>11, <1>12, <1>13, <1>14, <1>15 DEF IInv, JobsStand

\* The row UpdateApplicationSubmission leaves.
LEMMA SentTypes ==
  ASSUME NEW row \in Drafts, NEW time \in Time
  PROVE  LET sent == [row EXCEPT !.status = "submitted", !.version = @ + 1, !.at = time]
         IN  /\ sent \in Sent /\ sent.status = "submitted"
             /\ sent.version = row.version + 1
             /\ sent.answers = row.answers /\ sent.at = time
             /\ row.version \in Nat
<1> DEFINE sent == [row EXCEPT !.status = "submitted", !.version = @ + 1, !.at = time]
<1>1. row.version \in Nat /\ row.version + 1 \in Nat
  BY DEF Drafts
<1>2. ASSUME NEW version \in Nat
      PROVE  [row EXCEPT !.status = "submitted", !.version = version, !.at = time]
               \in Sent
  BY DEF Drafts, Sent
<1>3. sent \in Sent
  BY <1>1, <1>2, Zenon
<1>4. /\ sent.version = row.version + 1 /\ sent.answers = row.answers
      /\ sent.at = time /\ sent.status = "submitted"
  BY DEF Drafts
<1> QED
  BY <1>1, <1>3, <1>4

\* What the submission found complete is what it submits.
LEMMA SubmitKeeps ==
  ASSUME IInv, NEW t \in Tabs, Submit(t)
  PROVE  IInv'
<1> DEFINE sent == [app EXCEPT !.status = "submitted", !.version = @ + 1,
                               !.at = job[t].began]
           view == [status |-> "submitted", version |-> sent.version,
                    answers |-> sent.answers]
<1>1. /\ job[t] # None /\ job[t].stage = "commit" /\ Kind(t) = "submit"
      /\ At(t, "commit") /\ job[t] \in Jobs
      /\ app' = sent /\ author' = t /\ queued' = TRUE
      /\ End(t)
      /\ UNCHANGED <<resume, store, now, notice>>
  BY DEF Submit, At, IInv, TypeOK
<1>2. /\ app # None /\ app.status = "draft" /\ app.answers \in Complete
      /\ ResumeRequired => resume # None
      /\ InWindow(job[t].began)
  BY <1>1 DEF IInv, JobsStand, Stands, RequestStands, SubmitStands, StillDraft, Kind
<1>3. app \in Drafts /\ job[t].began \in Time
  BY <1>1, <1>2 DEF IInv, TypeOK, Sent, Jobs
<1>4. /\ sent \in Sent /\ sent.status = "submitted" /\ sent.version = app.version + 1
      /\ sent.answers = app.answers /\ sent.at = job[t].began /\ app.version \in Nat
  BY <1>3, SentTypes
<1>5. tab' \in {tab, [tab EXCEPT ![t] = view]}
  BY DEF Submit
<1> HIDE DEF sent
<1>6. sent # None
  BY <1>4, NoneIsNoRow
<1>7. view \in Views
  <2>1. sent.version \in Nat /\ sent.answers \in Answers
    BY <1>3, <1>4 DEF Drafts
  <2> QED
    BY <2>1 DEF Views
<1>8. /\ JobsTyped' /\ OneWriter' /\ job'[t] = None
      /\ \A u \in Tabs \ {t} : job'[u] = job[u]
  BY <1>1, EndChanges DEF IInv, TypeOK, JobsTyped
<1>9. /\ tab' \in [Tabs -> Views \cup {None}] /\ tab'[t] \in {tab[t], view}
      /\ \A u \in Tabs \ {t} : tab'[u] = tab[u]
  BY <1>5, <1>7 DEF IInv, TypeOK
<1>10. TypeOK'
  BY <1>1, <1>4, <1>8, <1>9 DEF IInv, TypeOK, JobsTyped, Time
<1>11. TabsStand'
  <2>1. ASSUME NEW u \in Tabs, tab'[u] # None, tab'[u] = tab[u]
        PROVE  tab'[u].version <= app'.version
    <3>1. tab[u] \in Views /\ tab[u].version <= app.version
      BY <2>1 DEF IInv, TypeOK, TabsStand
    <3> QED
      BY <1>1, <1>4, <2>1, <3>1 DEF Views
  <2>2. tab'[t] = view => tab'[t].version <= app'.version
    BY <1>1, <1>4
  <2> QED
    BY <1>1, <1>4, <1>6, <1>9, <2>1, <2>2 DEF TabsStand
<1>12. ASSUME NEW u \in Tabs \ {t} PROVE Stands(u)'
  <2> SUFFICES ASSUME job[u] # None PROVE Stands(u)'
    BY <1>8 DEF Stands
  <2>1. /\ job[u].stage # "commit" /\ job[u] \in Jobs
        /\ RequestStands(u) /\ SaveStands(u) /\ SubmitStands(u)
    BY <1>1, HolderIsAlone DEF At, IInv, TypeOK, JobsStand, Stands
  <2>2. RequestStands(u)'
    BY <1>1, <1>2, <1>6, <1>8, <2>1 DEF RequestStands, Kind
  <2>3. SaveStands(u)'
    BY <1>8, <1>9, <2>1 DEF SaveStands, Kind
  <2>4. Kind(u) = "submit" => job[u].req.version \in Nat
    BY <2>1, RequestTypes DEF Kind
  <2>5. SubmitStands(u)'
    BY <1>1, <1>4, <1>8, <2>1, <2>4 DEF SubmitStands, Kind, StillDraft
  <2> QED
    BY <2>2, <2>3, <2>5 DEF Stands
<1>13. Stands(t)'
  BY <1>8 DEF Stands
<1>14. SubmissionSound' /\ ResumeStored'
  BY <1>1, <1>2, <1>4, <1>6 DEF IInv, SubmissionSound, ResumeStored, InWindow
<1> QED
  BY <1>8, <1>10, <1>11, <1>12, <1>13, <1>14 DEF IInv, JobsStand

\* Nothing is under way that a decision could surprise.
LEMMA DecideKeeps ==
  ASSUME IInv, Decide
  PROVE  IInv'
<1> DEFINE decided == [app EXCEPT !.status = "decided"]
<1>1. /\ app # None /\ app.status # "draft" /\ app' = decided
      /\ \A t \in Tabs : held[t] = {}
      /\ UNCHANGED <<resume, store, queued, author, now, tab, notice, job, held>>
  BY DEF Decide, shown
<1>2. app \in Sent
  BY <1>1 DEF IInv, TypeOK, Drafts
<1>3. /\ decided \in Sent /\ decided.status = "decided"
      /\ decided.version = app.version /\ decided.answers = app.answers
      /\ decided.at = app.at
  BY <1>2 DEF Sent
<1> HIDE DEF decided
<1>4. decided # None
  BY <1>3, NoneIsNoRow
<1>5. TypeOK'
  BY <1>1, <1>3 DEF IInv, TypeOK, Time
<1>6. OneWriter'
  BY <1>1 DEF IInv, OneWriter, At
<1>7. TabsStand'
  BY <1>1, <1>3, <1>4 DEF IInv, TabsStand
<1>8. ASSUME NEW u \in Tabs PROVE Stands(u)'
  <2>1. ~At(u, "commit")
    BY <1>1 DEF IInv, OneWriter
  <2> QED
    BY <1>1, <1>3, <1>4, <2>1
    DEF IInv, JobsStand, Stands, RequestStands, SaveStands, SubmitStands, Kind,
        StillDraft, At
<1>9. SubmissionSound' /\ ResumeStored'
  BY <1>1, <1>3, <1>4 DEF IInv, SubmissionSound, ResumeStored
<1> QED
  BY <1>5, <1>6, <1>7, <1>8, <1>9 DEF IInv, JobsStand

-------------------------------------------------------------------------------
(* The theorems.                                                           *)

LEMMA InitHolds == Init => IInv
<1> SUFFICES ASSUME Init PROVE IInv
  OBVIOUS
<1>1. TypeOK
  <2>1. now \in Time
    BY WindowAssumption DEF Init, Time
  <2> QED
    BY <2>1 DEF Init, TypeOK
<1>2. OneWriter
  BY DEF Init, OneWriter, At
<1>3. TabsStand /\ JobsStand /\ SubmissionSound /\ ResumeStored
  BY DEF Init, TabsStand, JobsStand, Stands, SubmissionSound, ResumeStored
<1> QED
  BY <1>1, <1>2, <1>3 DEF IInv

LEMMA StutterKeeps ==
  ASSUME IInv, UNCHANGED vars
  PROVE  IInv'
<1>1. ASSUME NEW u \in Tabs PROVE Stands(u)'
  BY OthersStand DEF IInv, JobsStand, vars
<1> QED
  BY <1>1
  DEF IInv, TypeOK, Time, OneWriter, At, TabsStand, JobsStand, SubmissionSound,
      ResumeStored, vars

\* Every request, decision and tick keeps the invariant.
LEMMA NextKeeps ==
  ASSUME IInv, [Next]_vars
  PROVE  IInv'
<1>1. ASSUME NEW t \in Tabs, Load(t) \/ Fill(t) \/ Attach(t) PROVE IInv'
  BY <1>1, LoadKeeps, FillKeeps, AttachKeeps
<1>2. ASSUME NEW t \in Tabs, ReadBefore(t) \/ CheckResume(t) \/ UpdateApplication(t)
      PROVE  IInv'
  BY <1>2, ReadBeforeKeeps, CheckResumeKeeps, UpdateApplicationKeeps
<1>3. ASSUME NEW t \in Tabs, CreateApplication(t) \/ SaveDraft(t) \/ Submit(t)
      PROVE  IInv'
  BY <1>3, CreateApplicationKeeps, SaveDraftKeeps, SubmitKeeps
<1>4. ASSUME NEW t \in Tabs, Put(t) \/ UpsertResume(t) PROVE IInv'
  BY <1>4, PutKeeps, UpsertResumeKeeps
<1>5. ASSUME NEW t \in Tabs,
             AlreadySubmitted(t) \/ ShowCreated(t) \/ Conflict(t) \/ Refuse(t)
      PROVE  IInv'
  BY <1>5, EndingKeeps
<1> QED
  BY <1>1, <1>2, <1>3, <1>4, <1>5, DecideKeeps, TickKeeps, StutterKeeps DEF Next

\* The inductive invariant of applications.SaveDraft and Submit.
THEOREM Invariance == Spec => []IInv
BY InitHolds, NextKeeps, PTL DEF Spec

\* Every row satisfies the CHECK constraints of the applications table.
THEOREM TypeCorrect == Spec => []TypeOK
<1>1. IInv => TypeOK
  BY DEF IInv
<1> QED
  BY <1>1, Invariance, PTL

\* applications.Submit: complete answers, the required resume, the window and
\* the queued confirmation, for any number of dashboards saving meanwhile.
THEOREM Soundness == Spec => []SubmissionSound
<1>1. IInv => SubmissionSound
  BY DEF IInv
<1> QED
  BY <1>1, Invariance, PTL

\* resumes.Upload: the row never names an object that storage does not have.
THEOREM Stored == Spec => []ResumeStored
<1>1. IInv => ResumeStored
  BY DEF IInv
<1> QED
  BY <1>1, Invariance, PTL

-------------------------------------------------------------------------------
(* What a step may do to the application.                                  *)

LEMMA Writers ==
  ASSUME [Next]_vars
  PROVE  \/ app' = app
         \/ app = None
         \/ \E t \in Tabs : SaveDraft(t) \/ Submit(t)
         \/ Decide
<1>1. ASSUME NEW t \in Tabs,
             \/ Load(t) \/ Fill(t) \/ Attach(t)
             \/ ReadBefore(t) \/ AlreadySubmitted(t) \/ CheckResume(t)
             \/ ShowCreated(t) \/ UpdateApplication(t)
             \/ Put(t) \/ UpsertResume(t)
             \/ Conflict(t) \/ Refuse(t)
      PROVE  app' = app
  BY <1>1 DEF Load, Fill, Attach, ReadBefore, AlreadySubmitted, CheckResume,
              ShowCreated, UpdateApplication, Put, UpsertResume, Conflict, Refuse, stored
<1>2. ASSUME NEW t \in Tabs, CreateApplication(t)
      PROVE  app' = app \/ app = None
  BY <1>2 DEF CreateApplication
<1> QED
  BY <1>1, <1>2 DEF Next, Tick, stored, vars

\* A save is of a draft its dashboard shows as it is; the answers it leaves
\* are the only ones a step changes.
LEMMA SaveReplacesShown ==
  ASSUME IInv, NEW t \in Tabs, SaveDraft(t)
  PROVE  job[t] # None /\ app.status = "draft" /\ tab[t] = View
<1>1. job[t] # None /\ job[t].stage = "commit" /\ Kind(t) = "save"
  BY DEF SaveDraft, At
<1>2. /\ app # None /\ app.status = "draft" /\ app.version = job[t].req.version
      /\ tab[t] # None /\ tab[t].status = "draft" /\ tab[t].version = app.version
  BY <1>1 DEF IInv, JobsStand, Stands, RequestStands, SaveStands, StillDraft, Kind
<1>3. tab[t].answers = app.answers /\ tab[t] \in Views
  BY <1>2 DEF IInv, TabsStand, TypeOK
<1>4. tab[t] = View
  BY <1>2, <1>3 DEF Views, View
<1> QED
  BY <1>1, <1>2, <1>4

LEMMA SubmitKeepsAnswers ==
  ASSUME IInv, NEW t \in Tabs, Submit(t)
  PROVE  app # None /\ app.status = "draft" /\ app'.answers = app.answers
<1>1. /\ job[t] # None /\ job[t].stage = "commit" /\ job[t] \in Jobs
      /\ app' = [app EXCEPT !.status = "submitted", !.version = @ + 1,
                            !.at = job[t].began]
  BY DEF Submit, At, IInv, TypeOK
<1>2. app # None /\ app.status = "draft"
  BY <1>1 DEF IInv, JobsStand, Stands, RequestStands, StillDraft
<1>3. app \in Drafts /\ job[t].began \in Time
  BY <1>1, <1>2 DEF IInv, TypeOK, Sent, Jobs
<1> QED
  BY <1>1, <1>2, <1>3, SentTypes

LEMMA DecideKeepsAnswers ==
  ASSUME IInv, Decide
  PROVE  app'.answers = app.answers /\ app'.at = app.at /\ app'.status # "draft"
<1>1. app # None /\ app.status # "draft" /\ app' = [app EXCEPT !.status = "decided"]
  BY DEF Decide
<1>2. app \in Sent
  BY <1>1 DEF IInv, TypeOK, Drafts
<1> QED
  BY <1>1, <1>2 DEF Sent

\* Submitted answers are stable, whatever save, upload or decision is under way.
THEOREM Stable == Spec => SubmittedStable
<1>1. ASSUME IInv, [Next]_vars, app # None, app.status # "draft"
      PROVE  app'.answers = app.answers /\ app'.at = app.at /\ app'.status # "draft"
  BY <1>1, Writers, SaveReplacesShown, SubmitKeepsAnswers, DecideKeepsAnswers
<1> QED
  BY <1>1, Invariance, PTL DEF Spec, SubmittedStable

\* lock_version: a dashboard replaces only answers that it shows.
THEOREM NoOverwrite == Spec => NoBlindOverwrite
<1>1. IInv /\ [Next]_vars => [ReplacesShown]_vars
  BY Writers, SaveReplacesShown, SubmitKeepsAnswers, DecideKeepsAnswers
  DEF ReplacesShown
<1> QED
  BY <1>1, Invariance, PTL DEF Spec, NoBlindOverwrite

-------------------------------------------------------------------------------
(* Whose draft is sent.                                                    *)

\* A submission that would still find its draft finds its own dashboard's.
Writes(t) ==
  job[t] # None =>
    /\ job[t].began <= now
    /\ Kind(t) = "submit" /\ StillDraft(job[t].req.version) => author = t

WritesStand == \A t \in Tabs : Writes(t)

LEMMA WritesInit == Init => WritesStand
BY DEF Init, WritesStand, Writes

\* While the row and its author stay, a request that keeps what it is for, or
\* is for something else than sending, keeps the rest.
LEMMA WritesOn ==
  ASSUME IInv, WritesStand, NEW t \in Tabs, UNCHANGED <<app, author, now>>,
         \A u \in Tabs \ {t} : job'[u] = job[u],
         \/ job'[t] = None
         \/ /\ job'[t].began \in {now, job[t].began}
            /\ job[t] = None => job'[t].began = now
            /\ \/ job'[t].req.kind # "submit"
               \/ job[t] # None /\ job'[t].req = job[t].req
  PROVE  WritesStand'
<1>1. now \in Nat
  BY WindowAssumption DEF IInv, TypeOK, Time
<1>2. ASSUME NEW u \in Tabs \ {t}
      PROVE  Writes(u)'
  BY <1>2 DEF WritesStand, Writes, Kind, StillDraft
<1>3. Writes(t)'
  BY <1>1 DEF WritesStand, Writes, Kind, StillDraft
<1> QED
  BY <1>2, <1>3 DEF WritesStand

\* Those that write the row leave every other submission a version behind.
LEMMA WritesRow ==
  ASSUME IInv, IInv', WritesStand, NEW t \in Tabs, At(t, "commit"),
         app # None, app.version \in Nat,
         app'.version = app.version + 1, author' = t, now' = now,
         \A u \in Tabs \ {t} : job'[u] = job[u],
         job'[t] # None => job'[t].began = now
  PROVE  WritesStand'
<1>1. now \in Nat
  BY WindowAssumption DEF IInv, TypeOK, Time
<1>2. ASSUME NEW u \in Tabs \ {t}, job[u] # None
      PROVE  Writes(u)'
  <2>1. Kind(u) = "submit" => job[u].req.version \in Nat /\ job[u].req.version <= app.version
    BY <1>2, RequestTypes
    DEF IInv, TypeOK, JobsStand, Stands, SubmitStands, Kind
  <2>2. Kind(u) = "submit" => ~StillDraft(job[u].req.version)'
    BY <2>1 DEF StillDraft
  <2> QED
    BY <1>2, <2>2 DEF WritesStand, Writes, Kind
<1>3. Writes(t)'
  BY <1>1 DEF Writes
<1> QED
  BY <1>2, <1>3 DEF WritesStand, Writes

LEMMA WritesKept ==
  ASSUME IInv, WritesStand, [Next]_vars
  PROVE  WritesStand'
<1>1. IInv' /\ JobsTyped
  BY NextKeeps DEF IInv, TypeOK, JobsTyped
<1>2. CASE UNCHANGED vars
  BY <1>2 DEF vars, WritesStand, Writes, Kind, StillDraft
<1>3. ASSUME NEW t \in Tabs, NEW req, req.kind # "submit",
             job' = [job EXCEPT ![t] = Started(req)], UNCHANGED <<app, author, now>>
      PROVE  WritesStand'
  <2>1. job'[t].began = now /\ job'[t].req = req /\ \A u \in Tabs \ {t} : job'[u] = job[u]
    BY <1>1, <1>3 DEF JobsTyped, Started
  <2> QED
    BY <1>3, <2>1, WritesOn
<1>4. ASSUME NEW t \in Tabs, Load(t) \/ Fill(t) \/ Attach(t)
      PROVE  WritesStand'
  <2>1. CASE job' = job
    BY <1>4, <2>1 DEF Load, Fill, Attach, stored, WritesStand, Writes, Kind, StillDraft
  <2>2. UNCHANGED <<app, author, now>>
    BY <1>4 DEF Load, Fill, Attach, stored
  <2>3. CASE Load(t) /\ app = None
    BY <1>3, <2>2, <2>3 DEF Load
  <2>4. CASE Fill(t)
    <3>1. PICK answers \in Answers, submits \in BOOLEAN :
            job' = [job EXCEPT ![t] =
                      Started([kind |-> "save", version |-> tab[t].version,
                               answers |-> answers, submits |-> submits])]
      BY <2>4 DEF Fill
    <3> DEFINE req == [kind |-> "save", version |-> tab[t].version,
                       answers |-> answers, submits |-> submits]
    <3>2. job' = [job EXCEPT ![t] = Started(req)] /\ req.kind # "submit"
      BY <3>1
    <3> HIDE DEF req
    <3> QED
      BY <1>3, <2>2, <3>2
  <2>5. CASE Attach(t)
    <3> DEFINE req == [kind |-> "upload"]
    <3>1. job' = [job EXCEPT ![t] = Started(req)] /\ req.kind # "submit"
      BY <2>5 DEF Attach
    <3> HIDE DEF req
    <3> QED
      BY <1>3, <2>2, <3>1
  <2> QED
    BY <1>4, <2>1, <2>3, <2>4, <2>5 DEF Load
<1>5. ASSUME NEW t \in Tabs, ReadBefore(t)
      PROVE  WritesStand'
  <2>1. PICK next : /\ job[t] # None
                    /\ job' = [job EXCEPT ![t] = [req |-> job[t].req, stage |-> next, began |-> now]]
    BY <1>5 DEF ReadBefore, At
  <2>2. /\ job'[t].req = job[t].req /\ job'[t].began = now
        /\ \A u \in Tabs \ {t} : job'[u] = job[u]
    BY <1>1, <2>1 DEF JobsTyped
  <2> QED
    BY <1>5, <2>1, <2>2, WritesOn DEF ReadBefore, stored
<1>6. ASSUME NEW t \in Tabs, NEW stage \in Stages, job[t] # None, Move(t, stage),
             UNCHANGED <<app, author, now>>
      PROVE  WritesStand'
  BY <1>1, <1>6, MoveChanges, WritesOn
<1>7. ASSUME NEW t \in Tabs, CheckResume(t) \/ UpdateApplication(t)
      PROVE  WritesStand'
  <2>1. UNCHANGED <<app, author, now>> /\ job[t] # None
    BY <1>7 DEF CheckResume, UpdateApplication, At, stored
  <2>2. \E stage \in Stages : Move(t, stage)
    BY <1>7 DEF CheckResume, UpdateApplication, Stages
  <2> QED
    BY <1>6, <2>1, <2>2
<1>8. ASSUME NEW t \in Tabs, CreateApplication(t)
      PROVE  WritesStand'
  <2>1. job[t] # None /\ Kind(t) = "create" /\ Move(t, "answer") /\ "answer" \in Stages /\ now' = now
    BY <1>8 DEF CreateApplication, At, Stages
  <2>2. CASE app # None
    BY <1>6, <1>8, <2>1, <2>2 DEF CreateApplication
  <2>3. CASE app = None
    <3>1. /\ job'[t] # None /\ job'[t].req = job[t].req /\ job'[t].began = job[t].began
          /\ \A u \in Tabs \ {t} : job'[u] = job[u]
      BY <1>1, <2>1, MoveChanges
    <3>2. \A u \in Tabs : job[u] # None => Kind(u) = "create"
      BY <2>3 DEF IInv, JobsStand, Stands, RequestStands
    <3> QED
      BY <2>1, <3>1, <3>2 DEF WritesStand, Writes, Kind
  <2> QED
    BY <2>2, <2>3
<1>9. ASSUME NEW t \in Tabs, SaveDraft(t) \/ Submit(t)
      PROVE  WritesStand'
  <2>1. At(t, "commit") /\ author' = t /\ now' = now
    BY <1>9 DEF SaveDraft, Submit
  <2>2. job[t] # None /\ job[t].stage = "commit" /\ job[t] \in Jobs
    BY <2>1 DEF At, IInv, TypeOK
  <2>3. app # None /\ app.status = "draft"
    BY <2>2 DEF IInv, JobsStand, Stands, RequestStands, StillDraft
  <2>4. app \in Drafts /\ job[t].began \in Time
    BY <2>2, <2>3 DEF IInv, TypeOK, Sent, Jobs
  <2>5. app'.version = app.version + 1 /\ app.version \in Nat
    <3>1. CASE SaveDraft(t)
      <4>1. job[t].req.answers \in Answers
        BY <2>2, <3>1, RequestTypes DEF SaveDraft, Kind
      <4> QED
        BY <2>4, <3>1, <4>1, SavedTypes DEF SaveDraft
    <3>2. CASE Submit(t)
      BY <2>4, <3>2, SentTypes DEF Submit
    <3> QED
      BY <1>9, <3>1, <3>2
  <2>6. /\ job'[t] # None => job'[t].began = now
        /\ \A u \in Tabs \ {t} : job'[u] = job[u]
    BY <1>1, <1>9 DEF SaveDraft, Submit, End, JobsTyped, Started
  <2> QED
    BY <1>1, <2>1, <2>3, <2>5, <2>6, WritesRow
<1>10. ASSUME NEW t \in Tabs, Put(t)
       PROVE  WritesStand'
  <2>1. PICK o \in Objects \ store :
          job' = [job EXCEPT ![t] = [req |-> [kind |-> "upload", key |-> o],
                                     stage |-> "upsert", began |-> job[t].began]]
    BY <1>10 DEF Put
  <2>2. job[t] # None /\ UNCHANGED <<app, author, now>>
    BY <1>10 DEF Put, At
  <2>3. /\ job'[t].began = job[t].began /\ job'[t].req.kind = "upload"
        /\ \A u \in Tabs \ {t} : job'[u] = job[u]
    BY <1>1, <2>1 DEF JobsTyped
  <2> QED
    BY <2>2, <2>3, WritesOn
<1>11. ASSUME NEW t \in Tabs,
              AlreadySubmitted(t) \/ ShowCreated(t) \/ UpsertResume(t) \/ Conflict(t) \/ Refuse(t)
       PROVE  WritesStand'
  <2>1. End(t) /\ UNCHANGED <<app, author, now>>
    BY <1>11 DEF AlreadySubmitted, ShowCreated, UpsertResume, Conflict, Refuse, stored
  <2>2. job'[t] = None /\ \A u \in Tabs \ {t} : job'[u] = job[u]
    BY <1>1, <2>1 DEF End, JobsTyped
  <2> QED
    BY <2>1, <2>2, WritesOn
<1>12. CASE Decide
  <2>1. ~(app'.status = "draft") /\ UNCHANGED <<job, now>>
    BY <1>12, DecideKeepsAnswers DEF Decide
  <2> QED
    BY <2>1 DEF WritesStand, Writes, StillDraft
<1>13. CASE Tick
  <2>1. now \in Nat /\ now' = now + 1 /\ UNCHANGED <<app, author, job>>
    BY <1>13, WindowAssumption DEF Tick, IInv, TypeOK, Time, stored
  <2>2. \A t \in Tabs : job[t] # None => job[t].began \in Nat
    BY WindowAssumption DEF IInv, TypeOK, Jobs, Time
  <2> QED
    BY <2>1, <2>2 DEF WritesStand, Writes, Kind, StillDraft
<1> QED
  BY <1>2, <1>4, <1>5, <1>7, <1>8, <1>9, <1>10, <1>11, <1>12, <1>13 DEF Next

\* Whatever others saved or created meanwhile, what a dashboard's submission
\* would send is what the same dashboard saved.
THEOREM WriterInvariance == Spec => []WritesStand
<1>1. IInv /\ WritesStand /\ [Next]_vars => WritesStand'
  BY WritesKept
<1> QED
  BY <1>1, WritesInit, Invariance, PTL DEF Spec

-------------------------------------------------------------------------------
(* The promise of Filing.                                                  *)

TabsShown == [t \in Tabs |-> Shown(t)]

\* A decision is the only status that an application does not show.
Looks(row) == [status |-> row.status, answers |-> row.answers]

LEMMA FiledRow ==
  ASSUME app # None
  PROVE  Filed = [status |-> app.status, answers |-> app.answers, at |-> app.at]
BY DEF Filed

LEMMA FiledExists ==
  ASSUME TypeOK
  PROVE  /\ Filed = Promised!Absent <=> app = None
         /\ Filed.status = "draft" <=> app # None /\ app.status = "draft"
<1>1. app # None => app.status \in {"draft", "submitted", "decided"}
  BY DEF TypeOK, Drafts, Sent
<1> QED
  BY <1>1 DEF Filed, Promised!Absent

LEMMA FiledView ==
  ASSUME TypeOK, app # None
  PROVE  Looks(View) = Promised!View(Filed)
BY DEF Looks, View, Filed, Promised!View

LEMMA OneTab ==
  ASSUME TypeOK, NEW t \in Tabs, NEW view \in Views, tab' = [tab EXCEPT ![t] = view]
  PROVE  TabsShown' = [TabsShown EXCEPT ![t] = Looks(view)]
<1>1. view # None
  BY NoneIsNoJob
<1>2. \A u \in Tabs : tab'[u] = IF u = t THEN view ELSE tab[u]
  BY DEF TypeOK
<1> QED
  BY <1>1, <1>2 DEF TabsShown, Shown, Looks

LEMMA SameTabs == UNCHANGED tab => UNCHANGED TabsShown
BY DEF TabsShown, Shown

LEMMA FilingStutters ==
  UNCHANGED <<app, resume, queued, now, author, tab>> => UNCHANGED Promised!vars
<1> SUFFICES ASSUME UNCHANGED <<app, resume, queued, now, author, tab>>
             PROVE  UNCHANGED Promised!vars
  OBVIOUS
<1>1. UNCHANGED <<Filed, TabsShown>>
  BY SameTabs DEF Filed
<1> QED
  BY <1>1 DEF Promised!vars, TabsShown

LEMMA InitFiled == Init => Promised!Init
<1> SUFFICES ASSUME Init
             PROVE  Promised!Init
  OBVIOUS
<1>1. Filed = Promised!Absent
  BY DEF Init, Filed, Promised!Absent
<1>2. TabsShown = [t \in Tabs |-> None]
  BY DEF Init, TabsShown, Shown
<1> QED
  BY <1>1, <1>2 DEF Init, Promised!Init, TabsShown

LEMMA ShowPromised ==
  ASSUME TypeOK, NEW t \in Tabs, app # None, tab' = [tab EXCEPT ![t] = View],
         UNCHANGED <<app, resume, queued, now, author>>
  PROVE  Promised!Show(t)
<1>1. TabsShown' = [TabsShown EXCEPT ![t] = Promised!View(Filed)]
  BY ViewTypes, OneTab, FiledView
<1>2. UNCHANGED Filed
  BY DEF Filed
<1>3. Filed # Promised!Absent
  BY FiledExists
<1> QED
  BY <1>1, <1>2, <1>3 DEF Promised!Show, TabsShown

LEMMA CreatePromised ==
  ASSUME TypeOK, NEW t \in Tabs, CreateApplication(t)
  PROVE  Promised!Create(t) \/ UNCHANGED Promised!vars
<1>1. UNCHANGED <<resume, queued, now, tab>>
  BY DEF CreateApplication, shown
<1>2. CASE app # None
  BY <1>1, <1>2, FilingStutters DEF CreateApplication
<1>3. CASE app = None
  <2> DEFINE row == [status |-> "draft", version |-> 0, answers |-> Blank, at |-> None]
  <2>1. app' = row /\ author' = t /\ Opens <= now /\ now < Closes
    BY <1>3 DEF CreateApplication, InWindow
  <2>2. row # None
    <3>1. row \in Drafts
      BY AnswersAssumption DEF Drafts
    <3> QED
      BY <3>1, NoneIsNoRow
  <2>3. Filed' = Promised!Draft(Blank)
    BY <2>1, <2>2 DEF Filed, Promised!Draft
  <2>4. Filed = Promised!Absent
    BY <1>3 DEF Filed, Promised!Absent
  <2>5. UNCHANGED TabsShown
    BY <1>1, SameTabs
  <2> QED
    BY <1>1, <2>1, <2>3, <2>4, <2>5 DEF Promised!Create, Promised!InWindow, TabsShown
<1> QED
  BY <1>2, <1>3

LEMMA SavePromised ==
  ASSUME IInv, NEW t \in Tabs, SaveDraft(t)
  PROVE  Promised!Save(t)
<1> DEFINE answers == job[t].req.answers
           saved == [app EXCEPT !.version = @ + 1, !.answers = answers]
           view == [status |-> "draft", version |-> saved.version, answers |-> saved.answers]
<1>1. /\ job[t] # None /\ Kind(t) = "save" /\ job[t] \in Jobs
      /\ app' = saved /\ author' = t
      /\ tab' = tab \/ tab' = [tab EXCEPT ![t] = view]
      /\ UNCHANGED <<resume, queued, now>>
  BY DEF SaveDraft, At, IInv, TypeOK
<1>2. TypeOK /\ app.status = "draft" /\ tab[t] = View
  BY SaveReplacesShown DEF IInv
<1>3. app # None /\ tab[t] # None
  <2>1. tab[t] # None
    BY <1>1 DEF IInv, JobsStand, Stands, SaveStands
  <2> QED
    BY <2>1 DEF IInv, TabsStand
<1>4. app \in Drafts /\ answers \in Answers
  BY <1>1, <1>2, <1>3, RequestTypes DEF TypeOK, Sent, Kind
<1>5. /\ saved \in Drafts /\ saved.status = "draft" /\ saved.answers = answers
      /\ saved.version \in Nat /\ saved.at = None
  BY <1>4, SavedTypes DEF Drafts
<1> HIDE DEF saved
<1>6. saved # None
  BY <1>5, NoneIsNoRow
<1>7. Filed' = Promised!Draft(answers)
  BY <1>1, <1>5, <1>6 DEF Filed, Promised!Draft
<1>8. view \in Views /\ Looks(view) = Promised!View(Promised!Draft(answers))
  BY <1>4, <1>5 DEF Views, Looks, Promised!View, Promised!Draft
<1>9. TabsShown' \in {TabsShown, [TabsShown EXCEPT ![t] = Promised!View(Promised!Draft(answers))]}
  <2> HIDE DEF view
  <2> QED
    BY <1>1, <1>2, <1>8, OneTab, SameTabs
<1>10. TabsShown[t] = Promised!View(Filed)
  BY <1>2, <1>3, FiledView DEF TabsShown, Shown, Looks
<1>11. Filed.status = "draft"
  BY <1>2, <1>3, FiledExists
<1> HIDE DEF answers
<1> QED
  BY <1>1, <1>4, <1>7, <1>9, <1>10, <1>11 DEF Promised!Save, TabsShown

LEMMA SubmitPromised ==
  ASSUME IInv, WritesStand, NEW t \in Tabs, Submit(t)
  PROVE  Promised!Submit(t)
<1> DEFINE time == job[t].began
           sent == [app EXCEPT !.status = "submitted", !.version = @ + 1, !.at = time]
           view == [status |-> "submitted", version |-> sent.version, answers |-> sent.answers]
<1>1. /\ job[t] # None /\ job[t].stage = "commit" /\ Kind(t) = "submit" /\ job[t] \in Jobs
      /\ app' = sent /\ author' = t /\ queued' = TRUE
      /\ tab' \in {tab, [tab EXCEPT ![t] = view]}
      /\ UNCHANGED <<resume, now>>
  BY DEF Submit, At, IInv, TypeOK
<1>2. /\ app # None /\ app.status = "draft" /\ StillDraft(job[t].req.version)
      /\ app.answers \in Complete
      /\ ResumeRequired => resume # None
      /\ InWindow(time)
  BY <1>1 DEF IInv, JobsStand, Stands, RequestStands, SubmitStands, StillDraft, Kind
<1>3. TypeOK /\ app \in Drafts /\ time \in Time /\ now \in Time
  BY <1>1, <1>2 DEF IInv, TypeOK, Sent, Jobs
<1>4. author = t /\ time \in {moment \in 0 .. now : Promised!InWindow(moment)}
  <2>1. author = t /\ time <= now
    BY <1>1, <1>2 DEF WritesStand, Writes
  <2> QED
    BY <1>2, <1>3, <2>1, WindowAssumption DEF Time, InWindow, Promised!InWindow
<1>5. /\ sent \in Sent /\ sent.status = "submitted" /\ sent.at = time
      /\ sent.answers = app.answers /\ sent.version \in Nat
  BY <1>3, SentTypes DEF Sent
<1> HIDE DEF sent
<1>6. sent # None
  BY <1>5, NoneIsNoRow
<1>7. Filed' = [status |-> "submitted", answers |-> Filed.answers, at |-> time]
  BY <1>1, <1>2, <1>5, <1>6, FiledRow DEF Filed
<1>8. view \in Views /\ Looks(view) = Promised!View(Filed')
  <2>1. view \in Views
    BY <1>3, <1>5 DEF Views, Drafts
  <2>2. Filed'.status = "submitted" /\ Filed'.answers = sent.answers
    BY <1>1, <1>5, <1>6 DEF Filed
  <2> QED
    BY <2>1, <2>2 DEF Looks, Promised!View
<1>9. TabsShown' \in {TabsShown, [TabsShown EXCEPT ![t] = Promised!View(Filed')]}
  <2> HIDE DEF view
  <2> QED
    BY <1>1, <1>3, <1>8, OneTab, SameTabs
<1>10. Filed.status = "draft" /\ Filed.answers \in Complete
  BY <1>2, FiledRow
<1> HIDE DEF time
<1> QED
  BY <1>1, <1>2, <1>4, <1>7, <1>9, <1>10 DEF Promised!Submit, TabsShown

LEMMA AttachPromised ==
  ASSUME IInv, NEW t \in Tabs, UpsertResume(t)
  PROVE  Promised!Attach
<1>1. /\ job[t] # None /\ job[t].stage = "upsert" /\ resume' = job[t].req.key
      /\ UNCHANGED <<app, queued, author, now, tab>>
  BY DEF UpsertResume, At, shown
<1>2. job[t].req.key \in Objects
  BY <1>1 DEF IInv, TypeOK, JobsStand, Stands, RequestStands
<1>3. Filed # Promised!Absent
  BY <1>1, ApplicationExists, FiledExists DEF IInv
<1>4. UNCHANGED <<Filed, TabsShown>>
  BY <1>1, SameTabs DEF Filed
<1> QED
  BY <1>1, <1>2, <1>3, <1>4 DEF Promised!Attach, TabsShown

LEMMA DecidePromised ==
  ASSUME IInv, Decide
  PROVE  Promised!Decide
<1>1. /\ app # None /\ app.status # "draft" /\ app' = [app EXCEPT !.status = "decided"]
      /\ UNCHANGED <<resume, queued, author, now, tab>>
  BY DEF Decide, shown
<1>2. app \in Sent
  BY <1>1 DEF IInv, TypeOK, Drafts
<1>3. /\ app' \in Sent /\ app'.status = "decided"
      /\ app'.answers = app.answers /\ app'.at = app.at
      /\ app.status \in {"submitted", "decided"}
  BY <1>1, <1>2 DEF Sent
<1>4. app' # None
  BY <1>3, NoneIsNoRow
<1>5. Filed' = [Filed EXCEPT !.status = "decided"] /\ Filed.status \in {"submitted", "decided"}
  BY <1>1, <1>3, <1>4 DEF Filed
<1>6. UNCHANGED TabsShown
  BY <1>1, SameTabs
<1> QED
  BY <1>1, <1>5, <1>6 DEF Promised!Decide, TabsShown

LEMMA StepPromised ==
  ASSUME IInv, WritesStand, [Next]_vars
  PROVE  [Promised!Next]_(Promised!vars)
<1> DEFINE Visible == <<app, resume, queued, now, author, tab>>
<1>1. TypeOK
  BY DEF IInv
<1>2. ASSUME NEW t \in Tabs, Promised!Create(t) \/ Promised!Show(t) \/ Promised!Save(t) \/ Promised!Submit(t)
      PROVE  Promised!Next
  BY <1>2 DEF Promised!Next
<1>3. ASSUME NEW t \in Tabs, Load(t)
      PROVE  [Promised!Next]_(Promised!vars)
  <2>1. CASE app # None
    <3>1. Promised!Show(t)
      BY <1>1, <1>3, <2>1, ShowPromised DEF Load, stored
    <3> QED
      BY <1>2, <3>1
  <2>2. CASE app = None
    BY <1>3, <2>2, FilingStutters DEF Load, stored, shown
  <2> QED
    BY <2>1, <2>2
<1>4. ASSUME NEW t \in Tabs, AlreadySubmitted(t) \/ ShowCreated(t) \/ Conflict(t)
      PROVE  [Promised!Next]_(Promised!vars)
  <2>1. UNCHANGED <<app, resume, queued, now, author>>
    BY <1>4 DEF AlreadySubmitted, ShowCreated, Conflict, stored
  <2>2. app # None
    <3>1. CASE AlreadySubmitted(t)
      BY <3>1 DEF AlreadySubmitted, At, IInv, JobsStand, Stands, RequestStands, Kind
    <3>2. CASE ShowCreated(t) \/ Conflict(t)
      BY <3>2, ApplicationExists DEF ShowCreated, Conflict, At
    <3> QED
      BY <1>4, <3>1, <3>2
  <2>3. tab' = tab \/ tab' = [tab EXCEPT ![t] = View]
    BY <1>4 DEF AlreadySubmitted, ShowCreated, Conflict
  <2>4. CASE tab' = tab
    BY <2>1, <2>4, FilingStutters
  <2>5. CASE tab' = [tab EXCEPT ![t] = View]
    <3>1. Promised!Show(t)
      BY <1>1, <2>1, <2>2, <2>5, ShowPromised
    <3> QED
      BY <1>2, <3>1
  <2> QED
    BY <2>3, <2>4, <2>5
<1>5. ASSUME NEW t \in Tabs, CreateApplication(t) \/ SaveDraft(t) \/ Submit(t)
      PROVE  [Promised!Next]_(Promised!vars)
  BY <1>1, <1>2, <1>5, CreatePromised, SavePromised, SubmitPromised
<1>6. ASSUME NEW t \in Tabs, UpsertResume(t)
      PROVE  Promised!Next
  BY <1>6, AttachPromised DEF Promised!Next
<1>7. CASE Decide
  BY <1>7, DecidePromised DEF Promised!Next
<1>8. CASE Tick
  <2>1. UNCHANGED <<Filed, TabsShown>>
    BY <1>8, SameTabs DEF Tick, stored, shown, Filed
  <2>2. Promised!Tick
    BY <1>8, <2>1 DEF Tick, stored, Promised!Tick, TabsShown
  <2> QED
    BY <2>2 DEF Promised!Next
<1>9. ASSUME NEW t \in Tabs,
             \/ Fill(t) \/ Attach(t) \/ ReadBefore(t) \/ CheckResume(t)
             \/ UpdateApplication(t) \/ Put(t) \/ Refuse(t)
      PROVE  UNCHANGED Visible
  BY <1>9 DEF Fill, Attach, ReadBefore, CheckResume, UpdateApplication, Put, Refuse,
              stored, shown
<1>10. UNCHANGED vars => UNCHANGED Visible
  BY DEF vars
<1>11. UNCHANGED Visible => UNCHANGED Promised!vars
  BY FilingStutters
<1> HIDE DEF Visible
<1> QED
  BY <1>3, <1>4, <1>5, <1>6, <1>7, <1>8, <1>9, <1>10, <1>11 DEF Next

\* With their versions, reads before the transaction, locks and lost answers,
\* the requests of applications and resumes implement Filing.
THEOREM Refinement == Spec => FilingSpec
<1>1. IInv /\ WritesStand /\ [Next]_vars => [Promised!Next]_(Promised!vars)
  BY StepPromised
<1> QED
  BY <1>1, InitFiled, Invariance, WriterInvariance, PTL DEF Spec, FilingSpec, Promised!Spec

-------------------------------------------------------------------------------
(* What was asked of the applicant.                                        *)

\* What is asked is visible: the visible questions leave out none they call for.
LEMMA AskedIsVisible ==
  ASSUME NEW answers, NEW k \in Asked(answers)
  PROVE  k \in Keys /\ isApplicationQuestionVisible(k, answers)
<1> DEFINE visible == {q \in Keys : isApplicationQuestionVisible(q, answers)}
<1>1. visible \in SUBSET Keys
  OBVIOUS
<1>2. Settled(visible, answers)
  BY DEF Settled, isApplicationQuestionVisible
<1> QED
  BY <1>1, <1>2 DEF Asked

\* Conversely, when no question waits for itself: among the visible answers
\* that were not asked for, one would hang on no other of them.
LEMMA AnsweredIsAsked ==
  ASSUME Grounded, NEW answers \in AnswerMaps,
         \A k \in DOMAIN answers : isApplicationQuestionVisible(k, answers)
  PROVE  DOMAIN answers \subseteq Asked(answers)
<1>1. DOMAIN answers \subseteq Keys
  BY DEF AnswerMaps
<1> SUFFICES ASSUME NEW asked \in SUBSET Keys, Settled(asked, answers),
                    DOMAIN answers \ asked # {}
             PROVE  FALSE
  BY <1>1 DEF Asked
<1>2. PICK k \in DOMAIN answers \ asked : Question[k].showWhen \notin DOMAIN answers \ asked
  BY <1>1 DEF Grounded
<1>3. k \in Keys /\ isApplicationQuestionVisible(k, answers)
  BY <1>1
<1>4. CASE Question[k].showWhen = Always
  BY <1>2, <1>3, <1>4 DEF Settled
<1>5. CASE conditionMatches(k, answers)
  <2>1. Question[k].showWhen \in asked
    BY <1>2, <1>5 DEF conditionMatches
  <2> QED
    BY <1>2, <1>3, <1>5, <2>1 DEF Settled
<1> QED
  BY <1>3, <1>4, <1>5 DEF isApplicationQuestionVisible

\* What validateAnswers lets through for a submission is what a page that
\* starts empty would have asked, however deep the conditions are nested.
LEMMA CompleteIsAsAsked ==
  ASSUME Grounded, NEW answers \in CompleteAnswers
  PROVE  /\ DOMAIN answers \subseteq Asked(answers)
         /\ \A k \in Asked(answers) : Question[k].required =>
              k \in DOMAIN answers /\ answers[k] # "blank"
<1>1. answers \in AnswerMaps /\ validateAnswers(answers, TRUE)
  BY DEF CompleteAnswers
<1>2. \A k \in DOMAIN answers : isApplicationQuestionVisible(k, answers)
  BY <1>1 DEF validateAnswers
<1>3. DOMAIN answers \subseteq Asked(answers)
  BY <1>1, <1>2, AnsweredIsAsked
<1>4. ASSUME NEW k \in Asked(answers), Question[k].required
      PROVE  k \in DOMAIN answers /\ answers[k] # "blank"
  <2>1. k \in Keys /\ isApplicationQuestionVisible(k, answers)
    BY AskedIsVisible
  <2> QED
    BY <1>1, <1>4, <2>1 DEF validateAnswers
<1> QED
  BY <1>3, <1>4

\* What was submitted is what was asked for, on every form none of whose
\* questions waits for itself, whatever the dashboards saved in between.
THEOREM AsAsked ==
  ASSUME Grounded
  PROVE  Spec => []SubmittedAsAsked
<1>1. SubmissionSound => SubmittedAsAsked
  <2> SUFFICES ASSUME SubmissionSound, app # None, app.status # "draft"
               PROVE  /\ DOMAIN app.answers \subseteq Asked(app.answers)
                      /\ \A k \in Asked(app.answers) : Question[k].required =>
                           k \in DOMAIN app.answers /\ app.answers[k] # "blank"
    BY DEF SubmittedAsAsked
  <2>1. app.answers \in CompleteAnswers
    BY ValidatedAssumption DEF SubmissionSound
  <2> QED
    BY <2>1, CompleteIsAsAsked
<1> QED
  BY <1>1, Soundness, PTL

===============================================================================
