-------------------------------- MODULE Intake --------------------------------
(***************************************************************************)
(* One applicant's application until it is decided on: the draft the       *)
(* applicant's dashboards create, save and submit                          *)
(* (api/internal/applications), and the resume they upload                 *)
(* (api/internal/resumes), which no transaction ties to the draft.  A      *)
(* dashboard remembers the application it last showed and sends that       *)
(* lock_version (components/applicant-dashboard.tsx).                      *)
(***************************************************************************)
EXTENDS Naturals, FiniteSets, RowLocks

CONSTANTS Tabs,            \* dashboards the applicant has open
          Answers,         \* answer maps that pass validateAnswers for a draft
          Complete,        \* those that pass it for a submission
          Blank,           \* the empty answer map of a new application
          Objects,         \* keys an upload may be stored under
          ResumeRequired,  \* the form version's flag
          Opens, Closes,   \* the cycle's window [Opens, Closes)
          Horizon,         \* bound on the clock
          MaxVersion,      \* bound on the version a save starts from
          Lossy,           \* answers to dashboards may be lost
          None

ASSUME AnswersAssumption == Blank \in Answers \ Complete /\ Complete \subseteq Answers
ASSUME FlagsAssumption == ResumeRequired \in BOOLEAN /\ Lossy \in BOOLEAN
ASSUME WindowAssumption ==
  Opens \in Nat /\ Closes \in Nat /\ Horizon \in Nat /\ MaxVersion \in Nat
VARIABLES
  app,       \* the applications row with its answers, None before it exists
  resume,    \* object_key of the application_resumes row, or None
  store,     \* the keys the object storage has
  queued,    \* the submission confirmation is in the email outbox
  now,       \* the database clock
  author,    \* the dashboard whose request last wrote the row, or None
  tab,       \* tab -> the application it shows, or None
  notice,    \* tab -> it says that the draft "changed elsewhere"
  job,       \* tab -> the request being served, or None
  held       \* tab -> the row locks its transaction holds

stored == <<app, resume, store, queued, author>>
shown == <<tab, notice>>
vars == <<app, resume, store, queued, now, author, tab, notice, job, held>>

Time == 0 .. Horizon
Drafts == [status : {"draft"}, version : Nat, answers : Answers, at : {None}]
Sent == [status : {"submitted", "decided"}, version : Nat, answers : Answers, at : Time]

Started(req) == [req |-> req, stage |-> "read", began |-> now]

Requests == [kind : {"create", "upload"}]
            \cup [kind : {"save"}, version : Nat, answers : Answers, submits : BOOLEAN]
            \cup [kind : {"submit"}, version : Nat]

\* An upload's request gets the key its object was stored under.
Uploads == [kind : {"upload"}, key : Objects]

Stages == {"read", "resume", "put", "write", "commit", "upsert", "answer", "conflict"}

Jobs == [req : Requests \cup Uploads, stage : Stages, began : Time]

Views == [status : {"draft", "submitted"}, version : Nat, answers : Answers]

ASSUME AbsentAssumption ==
  None \notin Objects \cup Drafts \cup Sent \cup Jobs \cup Views

\* Applicants see a decided application as submitted.
View == [status |-> IF app.status = "draft" THEN "draft" ELSE "submitted",
         version |-> app.version, answers |-> app.answers]

ApplicationRow == <<"application">>
Free(t, mode) == Grantable(held, t, ApplicationRow, mode)
At(t, stage) == job[t] # None /\ job[t].stage = stage
Kind(t) == job[t].req.kind
Move(t, stage) == job' = [job EXCEPT ![t].stage = stage]
End(t) == job' = [job EXCEPT ![t] = None] /\ held' = [held EXCEPT ![t] = {}]

InWindow(time) == Opens <= time /\ time < Closes

-------------------------------------------------------------------------------
(* What a dashboard asks for.                                              *)

\* loadDashboard finds an application, or creates one.  Outside the window
\* there is no current form, and a dashboard without one edits nothing.
Load(t) ==
  /\ job[t] = None
  /\ InWindow(now)
  /\ IF app # None
     THEN /\ tab' = [tab EXCEPT ![t] = View]
          /\ notice' = [notice EXCEPT ![t] = FALSE]
          /\ UNCHANGED job
     ELSE /\ job' = [job EXCEPT ![t] = Started([kind |-> "create"])]
          /\ UNCHANGED shown
  /\ UNCHANGED <<stored, now, held>>

Editable(t) == job[t] = None /\ tab[t] # None /\ tab[t].status = "draft"

\* Save draft sends any answers; Submit sends complete ones, then submits.
Fill(t) ==
  /\ Editable(t)
  /\ tab[t].version < MaxVersion
  /\ \E answers \in Answers, submits \in BOOLEAN :
       /\ submits => answers \in Complete
       /\ job' = [job EXCEPT ![t] =
                    Started([kind |-> "save", version |-> tab[t].version,
                             answers |-> answers, submits |-> submits])]
  /\ notice' = [notice EXCEPT ![t] = FALSE]
  /\ UNCHANGED <<stored, now, tab, held>>

Attach(t) ==
  /\ Editable(t)
  /\ job' = [job EXCEPT ![t] = Started([kind |-> "upload"])]
  /\ notice' = [notice EXCEPT ![t] = FALSE]
  /\ UNCHANGED <<stored, now, tab, held>>

-------------------------------------------------------------------------------
(* How it is served.                                                       *)

\* Faulty: neither status nor version is compared.
StillDraftNever(version) == TRUE

\* Faulty: only the status is compared.
StillDraftAnyVersion(version) == app.status = "draft"

StillDraft(version) == app.status = "draft" /\ app.version = version

\* The reads a request starts with, and what they send it to.  Incomplete
\* answers, a missing resume, an application that is gone are refused.
ReadBefore(t) ==
  LET req == job[t].req
      next == CASE req.kind = "create" -> "write"
                [] req.kind = "upload" -> "put"
                [] req.kind = "save" ->
                     IF StillDraft(req.version) THEN "write" ELSE "conflict"
                [] req.kind = "submit" ->
                     IF StillDraft(req.version) THEN "resume" ELSE "conflict"
  IN  /\ At(t, "read")
      /\ req.kind = "create" => InWindow(now)
      /\ req.kind = "upload" => app.status = "draft"
      /\ req.kind = "submit" => app.status = "draft"
      /\ next = "resume" => app.answers \in Complete
      /\ job' = [job EXCEPT ![t] = [req |-> req, stage |-> next, began |-> now]]
      /\ UNCHANGED <<stored, now, shown, held>>

\* Submitting what is submitted already answers with the application.
AlreadySubmitted(t) ==
  /\ At(t, "read") /\ Kind(t) = "submit"
  /\ app.status # "draft"
  /\ tab' \in {tab, [tab EXCEPT ![t] = View]}
  /\ End(t)
  /\ UNCHANGED <<stored, now, notice>>

\* Faulty: ResumeRequired is left to the dashboard.
CheckResumeUnasked(t) ==
  /\ At(t, "resume")
  /\ Move(t, "write")
  /\ UNCHANGED <<stored, now, shown, held>>

\* ApplicationHasResume
CheckResume(t) ==
  /\ At(t, "resume")
  /\ ResumeRequired => resume # None
  /\ Move(t, "write")
  /\ UNCHANGED <<stored, now, shown, held>>

\* INSERT ... ON CONFLICT DO UPDATE, a transaction of its own: an application
\* another dashboard made meanwhile is the one that is returned.
CreateApplication(t) ==
  /\ At(t, "write") /\ Kind(t) = "create"
  /\ InWindow(now)
  /\ Free(t, "no_key_update")
  /\ IF app = None
     THEN /\ app' = [status |-> "draft", version |-> 0, answers |-> Blank, at |-> None]
          /\ author' = t
     ELSE UNCHANGED <<app, author>>
  /\ Move(t, "answer")
  /\ UNCHANGED <<resume, store, queued, now, shown, held>>

ShowCreated(t) ==
  /\ At(t, "answer")
  /\ tab' = [tab EXCEPT ![t] = View]
  /\ End(t)
  /\ UNCHANGED <<stored, now, notice>>

\* UpdateApplicationDraft and UpdateApplicationSubmission: the row is locked
\* and compared as the transactions before left it; the window is compared
\* with CURRENT_TIMESTAMP, when this transaction began.
UpdateApplication(t) ==
  /\ At(t, "write") /\ Kind(t) \in {"save", "submit"}
  /\ Free(t, "no_key_update")
  /\ IF StillDraft(job[t].req.version) /\ (Kind(t) = "submit" => InWindow(job[t].began))
     THEN /\ held' = [held EXCEPT ![t] = @ \cup {<<ApplicationRow, "no_key_update">>}]
          /\ Move(t, "commit")
     ELSE /\ Move(t, "conflict")
          /\ UNCHANGED held
  /\ UNCHANGED <<stored, now, shown>>

\* A dashboard that submits goes on with the version its save was answered
\* with, and does not keep the saved application.
SaveDraft(t) ==
  LET saved == [app EXCEPT !.version = @ + 1, !.answers = job[t].req.answers]
      submit == Started([kind |-> "submit", version |-> saved.version])
      view == [status |-> "draft", version |-> saved.version, answers |-> saved.answers]
  IN  /\ At(t, "commit") /\ Kind(t) = "save"
      /\ app' = saved /\ author' = t
      /\ held' = [held EXCEPT ![t] = {}]
      /\ \/ /\ job[t].req.submits
            /\ job' = [job EXCEPT ![t] = submit]
            /\ UNCHANGED tab
         \/ /\ ~job[t].req.submits
            /\ job' = [job EXCEPT ![t] = None]
            /\ tab' = [tab EXCEPT ![t] = view]
         \/ /\ Lossy
            /\ job' = [job EXCEPT ![t] = None]
            /\ UNCHANGED tab
      /\ UNCHANGED <<resume, store, queued, now, notice>>

Submit(t) ==
  LET sent == [app EXCEPT !.status = "submitted", !.version = @ + 1, !.at = job[t].began]
      view == [status |-> "submitted", version |-> sent.version, answers |-> sent.answers]
  IN  /\ At(t, "commit") /\ Kind(t) = "submit"
      /\ app' = sent /\ author' = t /\ queued' = TRUE
      /\ \/ tab' = [tab EXCEPT ![t] = view]
         \/ Lossy /\ UNCHANGED tab
      /\ End(t)
      /\ UNCHANGED <<resume, store, now, notice>>

\* Faulty: the storage's error is dropped.
PutUnchecked(t) ==
  /\ At(t, "put")
  /\ \E o \in Objects \ store :
       /\ store' \in {store, store \cup {o}}
       /\ job' = [job EXCEPT ![t] = [req |-> [kind |-> "upload", key |-> o],
                                   stage |-> "upsert", began |-> @.began]]
  /\ UNCHANGED <<app, resume, queued, author, now, shown, held>>

\* Every upload has a key of its own; a failure later leaves the object behind.
Put(t) ==
  /\ At(t, "put")
  /\ \E o \in Objects \ store :
       /\ store' = store \cup {o}
       /\ job' = [job EXCEPT ![t] = [req |-> [kind |-> "upload", key |-> o],
                                   stage |-> "upsert", began |-> @.began]]
  /\ UNCHANGED <<app, resume, queued, author, now, shown, held>>

\* The statement does not look at the application again.
UpsertResume(t) ==
  /\ At(t, "upsert")
  /\ Free(t, "key_share")
  /\ resume' = job[t].req.key
  /\ End(t)
  /\ UNCHANGED <<app, store, queued, author, now, shown>>

\* A 409 makes the dashboard fetch its applications and say why.
Conflict(t) ==
  /\ At(t, "conflict")
  /\ tab' = [tab EXCEPT ![t] = View]
  /\ notice' = [notice EXCEPT ![t] = TRUE]
  /\ End(t)
  /\ UNCHANGED <<stored, now>>

\* Any other error, a timeout or a crash: nothing of the transaction stays.
Refuse(t) ==
  /\ job[t] # None
  /\ End(t)
  /\ UNCHANGED <<stored, now, shown>>

\* decisions.Record, which waits for the application's row.
Decide ==
  /\ app # None /\ app.status # "draft"
  /\ \A t \in Tabs : held[t] = {}
  /\ app' = [app EXCEPT !.status = "decided"]
  /\ UNCHANGED <<resume, store, queued, author, now, shown, job, held>>

Tick ==
  /\ now < Horizon
  /\ now' = now + 1
  /\ UNCHANGED <<stored, shown, job, held>>

Init ==
  /\ app = None /\ resume = None /\ store = {} /\ queued = FALSE /\ author = None
  /\ now = 0
  /\ tab = [t \in Tabs |-> None]
  /\ notice = [t \in Tabs |-> FALSE]
  /\ job = [t \in Tabs |-> None]
  /\ held = [t \in Tabs |-> {}]

Next ==
  \/ \E t \in Tabs :
       \/ Load(t) \/ Fill(t) \/ Attach(t)
       \/ ReadBefore(t) \/ AlreadySubmitted(t) \/ CheckResume(t)
       \/ CreateApplication(t) \/ ShowCreated(t)
       \/ UpdateApplication(t) \/ SaveDraft(t) \/ Submit(t)
       \/ Put(t) \/ UpsertResume(t)
       \/ Conflict(t) \/ Refuse(t)
  \/ Decide
  \/ Tick

Spec == Init /\ [][Next]_vars

-------------------------------------------------------------------------------
(* Properties.                                                             *)

\* Every row is one the CHECK constraints of 000001 and 000010 allow, and
\* every request one that a dashboard makes.
TypeOK ==
  /\ app \in Drafts \cup Sent \cup {None}
  /\ resume \in Objects \cup {None} /\ store \subseteq Objects
  /\ queued \in BOOLEAN /\ now \in Time /\ author \in Tabs \cup {None}
  /\ tab \in [Tabs -> Views \cup {None}]
  /\ notice \in [Tabs -> BOOLEAN]
  /\ job \in [Tabs -> Jobs \cup {None}]

\* What was submitted is what passed the checks: the answers validateAnswers
\* saw were still there when the status changed, the required resume exists,
\* the time is inside the cycle's window, and the confirmation was queued by
\* the same commit (applications.Submit).
SubmissionSound ==
  IF app = None \/ app.status = "draft"
  THEN ~queued
  ELSE /\ app.answers \in Complete
       /\ ResumeRequired => resume # None
       /\ Opens <= app.at /\ app.at < Closes
       /\ queued

\* A resume's row only names an object that storage has, so that an admin can
\* always download what the applicant uploaded (resumes.Upload).
ResumeStored == resume # None => resume \in store

\* "Submitted answers are stable for review" (docs/PRODUCT_LIFECYCLE.md:71):
\* neither they nor submitted_at change, whatever was under way.
SubmittedStable ==
  [][(app # None /\ app.status # "draft") =>
       /\ app'.answers = app.answers /\ app'.at = app.at
       /\ app'.status # "draft"]_vars

ReplacesShown ==
  (app # None /\ app' # None /\ app'.answers # app.answers) =>
    \E t \in Tabs : job[t] # None /\ tab[t] = View

\* A dashboard replaces only answers that it, or the save it goes on from,
\* has seen: another tab's later save is never overwritten (lock_version).
NoBlindOverwrite == [][ReplacesShown]_vars

\* Every change of an application is one that Filing allows at the instant of
\* its commit: from the dashboard that shows what it replaces or saved what it
\* sends, though answers, resume and version are read statements, or for a
\* submission a whole request, earlier (applications.SaveDraft, Submit).
Filed == IF app = None THEN [status |-> "absent", answers |-> Blank, at |-> None]
         ELSE [status |-> app.status, answers |-> app.answers, at |-> app.at]
Shown(t) == IF tab[t] = None THEN None
            ELSE [status |-> tab[t].status, answers |-> tab[t].answers]
Promised == INSTANCE Filing WITH
  application <- Filed, page <- [t \in Tabs |-> Shown(t)]
FilingSpec == Promised!Spec

\* "An applicant can upload or replace a resume only while their application is
\* a draft" (docs/DOMAIN_MODEL.md:153), of the row resumes.Upload writes.
ResumeFrozen ==
  [][(app # None /\ app.status # "draft") => resume' = resume]_vars

\* "Your application state changed elsewhere" (applicant-dashboard.tsx:422),
\* said only when some other dashboard's request wrote the row last.
ChangedElsewhere ==
  [][\A t \in Tabs : (~notice[t] /\ notice'[t]) => author # t]_vars

-------------------------------------------------------------------------------
(* Why they hold.                                                          *)

Lock == <<ApplicationRow, "no_key_update">>

\* Only one transaction has written the row, and it has it locked.
OneWriter ==
  /\ held \in [Tabs -> SUBSET {Lock}]
  /\ \A t, u \in Tabs : held[t] # {} /\ held[u] # {} => t = u
  /\ \A t \in Tabs : At(t, "commit") => held[t] = {Lock}

\* What a dashboard shows as the present version is the present draft.
TabsStand ==
  \A t \in Tabs : tab[t] # None =>
    /\ app # None
    /\ tab[t].version <= app.version
    /\ (app.status = "draft" /\ tab[t].status = "draft" /\ tab[t].version = app.version)
         => tab[t].answers = app.answers

\* A request is about an application that exists, unless it creates it.
RequestStands(t) ==
  /\ app = None => Kind(t) = "create" /\ job[t].stage \in {"read", "write"}
  /\ job[t].stage = "resume" => Kind(t) = "submit"
  /\ job[t].stage = "put" => Kind(t) = "upload"
  /\ job[t].stage = "upsert" => job[t].req \in [kind : {"upload"}, key : store]
  /\ job[t].stage = "commit" =>
       Kind(t) \in {"save", "submit"} /\ StillDraft(job[t].req.version)

\* A save replaces what its dashboard shows.
SaveStands(t) ==
  Kind(t) = "save" =>
    /\ tab[t] # None /\ tab[t].status = "draft"
    /\ tab[t].version = job[t].req.version

\* What a submission has checked still holds as long as the version does.
SubmitStands(t) ==
  Kind(t) = "submit" =>
    /\ job[t].req.version <= app.version
    /\ (job[t].stage \in {"resume", "write", "commit"} /\ StillDraft(job[t].req.version))
         => app.answers \in Complete
    /\ job[t].stage \in {"write", "commit"} /\ ResumeRequired => resume # None
    /\ job[t].stage = "commit" => InWindow(job[t].began)

Stands(t) == job[t] # None => RequestStands(t) /\ SaveStands(t) /\ SubmitStands(t)

JobsStand == \A t \in Tabs : Stands(t)

\* The inductive invariant: what makes the checks of applications.SaveDraft and
\* Submit still true when their transactions commit.
IInv ==
  TypeOK /\ OneWriter /\ TabsStand /\ JobsStand /\ SubmissionSound /\ ResumeStored

===============================================================================
