---------------------------- MODULE ReviewsProofs ----------------------------
(***************************************************************************)
(* Theorems about Reviews, for any number of reviewers, pages and          *)
(* organizers: whoever writes a review, a role or an assignment holds its  *)
(* row, what the statement found there is still there at the commit, and   *)
(* a review that is being started holds the application against decisions. *)
(***************************************************************************)
EXTENDS Reviews, TLAPS

PagesTyped == page \in [Pages -> Rows \cup {Closed, New}]
JobsTyped == job \in [Sessions -> Jobs \cup {None}]
StoredTyped ==
  /\ status \in {"submitted", "decided"}
  /\ roles \subseteq Reviewers /\ assigned \subseteq Reviewers
  /\ review \in [Reviewers -> Rows \cup {None}]
  /\ audit \in [Events -> Nat]

-------------------------------------------------------------------------------
(* What the small operators do.                                            *)

LEMMA NoneIsNothing == None \notin Rows /\ None \notin Jobs
BY NoRowAssumption

\* The rows a review may have.
LEMMA RowTypes ==
  ASSUME NEW row \in Rows
  PROVE  /\ row.status \in {"draft", "submitted"} /\ row.version \in 0 .. 2
         /\ row.content \in Contents
         /\ row.status = "draft" => row.version \in 0 .. 1
         /\ row.status = "submitted" => row.version = 2
BY DEF Rows

\* What a page may show, and what the GET gives it.
LEMMA ShownTypes ==
  ASSUME NEW row \in Rows \cup {Closed, New}
  PROVE  /\ row.version \in 0 .. 2
         /\ row.status = "new" => row = New
         /\ row.status \in {"draft", "submitted"} => row \in Rows
         /\ row \in Rows => row.status \in {"draft", "submitted"}
BY RowTypes DEF Closed, New

\* Which fields a request has.
LEMMA RequestTypes ==
  ASSUME NEW req \in Requests
  PROVE  /\ req.kind \in AllKinds
         /\ req.kind = "save" => /\ req.version \in 0 .. 2 /\ req.content \in Contents
                                 /\ req.submits \in BOOLEAN
         /\ req.kind = "submit" => req.version \in 0 .. 2
         /\ req.kind \in {"grant", "assign"} => req.reviewer \in Reviewers
BY DEF Requests, SaveRequests, SubmitRequests, OrganizerRequests, GrantRequests,
       AssignRequests, DecideRequests, AllKinds

\* Whose review, role or assignment a request is about, and its row.
LEMMA SubjectTypes ==
  ASSUME NEW s \in Sessions, job[s] # None, JobsTyped, RequestStands(s), Kind(s) # "decide"
  PROVE  /\ Kind(s) \in {"save", "submit", "grant", "assign"}
         /\ Subject(s) \in Reviewers /\ Key(s) \in LockRows
<1>1. job[s].req \in Requests
  BY DEF JobsTyped, Jobs
<1>2. Kind(s) \in {"save", "submit", "grant", "assign"}
  BY <1>1, RequestTypes DEF Kind, AllKinds
<1>3. Subject(s) \in Reviewers
  <2>1. CASE s \in Pages
    BY <2>1 DEF Subject, Pages
  <2>2. CASE s \notin Pages
    <3>1. Kind(s) \in {"grant", "assign"}
      BY <1>2, <2>2 DEF RequestStands
    <3> QED
      BY <1>1, <2>2, <3>1, RequestTypes DEF Subject, Kind
  <2> QED
    BY <2>1, <2>2
<1>4. Key(s) \in {"review", "role", "assignment"} \X Reviewers
  BY <1>2, <1>3 DEF Key
<1> QED
  BY <1>2, <1>3, <1>4 DEF LockRows

\* Rows written under locks by different transactions are different rows.
LEMMA WritersApart ==
  ASSUME IInv, NEW s \in Sessions, NEW u \in Sessions, s # u,
         job[s] # None, job[u] # None, job[s].wrote, job[u].wrote
  PROVE  Key(s) # Key(u)
<1>1. /\ <<Key(s), "update">> \in held[s] /\ <<Key(u), "update">> \in held[u]
      /\ Kind(s) # "decide" /\ JobsTyped /\ RequestStands(s)
  BY DEF IInv, WriteStands, RequestStands, JobsTyped, TypeOK
<1>2. Key(s) \in LockRows
  BY <1>1, SubjectTypes
<1>3. ~Compatible("update", "update") /\ "update" \in Modes
  BY DEF Compatible, Modes
<1> QED
  BY <1>1, <1>2, <1>3 DEF IInv, LocksExclude

\* A lock that is granted excludes nobody who has one.
LEMMA AcquireChanges ==
  ASSUME LocksExclude, NEW s \in Sessions, NEW row \in LockRows, NEW mode \in Modes,
         Acquire(s, row, mode)
  PROVE  /\ LocksExclude' /\ held'[s] = held[s] \cup {<<row, mode>>}
         /\ \A u \in Sessions \ {s} : held'[u] = held[u]
<1>1. /\ held'[s] = held[s] \cup {<<row, mode>>} /\ DOMAIN held' = Sessions
      /\ \A u \in Sessions \ {s} : held'[u] = held[u]
  BY DEF LocksExclude, Acquire
<1>2. \A u \in Sessions \ {s}, m \in Modes :
        <<row, m>> \in held[u] => Compatible(m, mode) /\ Compatible(mode, m)
  BY DEF Acquire, Grantable, Blockers, Compatible, LocksExclude
<1>3. LocksExclude'
  <2> SUFFICES ASSUME NEW t \in Sessions, NEW u \in Sessions, NEW r \in LockRows,
                      NEW m \in Modes, NEW n \in Modes, t # u,
                      <<r, m>> \in held'[t], <<r, n>> \in held'[u]
               PROVE  Compatible(m, n)
    BY <1>1 DEF LocksExclude
  <2>1. CASE <<r, m>> \in held[t] /\ <<r, n>> \in held[u]
    BY <2>1 DEF LocksExclude
  <2>2. CASE <<r, m>> \notin held[t]
    <3>1. t = s /\ r = row /\ m = mode
      BY <1>1, <2>2
    <3> QED
      BY <1>1, <1>2, <3>1
  <2>3. CASE <<r, n>> \notin held[u]
    <3>1. u = s /\ r = row /\ n = mode
      BY <1>1, <2>3
    <3> QED
      BY <1>1, <1>2, <3>1
  <2> QED
    BY <2>1, <2>2, <2>3
<1> QED
  BY <1>1, <1>3

LEMMA UnlockChanges ==
  ASSUME LocksExclude, NEW s \in Sessions, Unlock(s)
  PROVE  /\ LocksExclude' /\ held'[s] = {}
         /\ \A u \in Sessions \ {s} : held'[u] = held[u]
BY DEF LocksExclude, Unlock

\* One session moves on, the others stay where they are.
LEMMA MoveChanges ==
  ASSUME JobsTyped, NEW s \in Sessions, job[s] # None, NEW stage \in Stages, Move(s, stage)
  PROVE  /\ JobsTyped' /\ job'[s] # None
         /\ job'[s].req = job[s].req /\ job'[s].stage = stage /\ job'[s].wrote = job[s].wrote
         /\ \A u \in Sessions \ {s} : job'[u] = job[u]
<1>1. job[s] \in Jobs
  BY DEF JobsTyped
<1> DEFINE new == [job[s] EXCEPT !.stage = stage]
<1>2. /\ new \in Jobs /\ new.req = job[s].req /\ new.stage = stage
      /\ new.wrote = job[s].wrote
  BY <1>1 DEF Jobs
<1>3. new # None
  BY <1>2, NoneIsNothing
<1>4. job' = [job EXCEPT ![s] = new]
  BY DEF Move
<1> HIDE DEF new
<1> QED
  BY <1>2, <1>3, <1>4 DEF JobsTyped

-------------------------------------------------------------------------------
(* Steps that change no table.                                             *)

\* Where the tables stay, a session that does not move stands as it stood.
LEMMA OthersStand ==
  ASSUME IInv, UNCHANGED stored, NEW u \in Sessions,
         job'[u] = job[u], held'[u] = held[u], u \in Pages => page'[u] = page[u]
  PROVE  RequestStands(u)' /\ WriteStands(u)' /\ StartStands(u)'
<1>1. RequestStands(u) /\ WriteStands(u) /\ StartStands(u)
  BY DEF IInv
<1>2. CASE job[u] = None
  BY <1>2 DEF RequestStands, WriteStands, StartStands
<1>3. CASE job[u] # None
  <2>1. JobsTyped /\ job[u].req \in Requests
    BY <1>3 DEF IInv, TypeOK, JobsTyped, Jobs
  <2>2. Kind(u)' = Kind(u) /\ Subject(u)' = Subject(u) /\ Key(u)' = Key(u)
    BY DEF Kind, Subject, Key
  <2>3. Inserted(u)' = Inserted(u)
    BY <2>2 DEF Inserted, stored
  <2>4. RequestStands(u)'
    BY <1>1, <2>2, RequestTypes DEF RequestStands, Pages, Sessions
  <2>5. Writable(u)' = Writable(u)
    BY <2>2, <2>3 DEF Writable, Updatable, stored
  <2>6. WriteStands(u)' /\ StartStands(u)'
    BY <1>1, <2>2, <2>3, <2>5 DEF WriteStands, StartStands, Submitted, stored
  <2> QED
    BY <2>4, <2>6
<1> QED
  BY <1>2, <1>3

\* One session's request and locks change, and maybe what its page shows.
LEMMA QuietKeeps ==
  ASSUME IInv, UNCHANGED stored, NEW s \in Sessions,
         JobsTyped', PagesTyped', LocksExclude', PagesStand',
         \A u \in Sessions \ {s} : job'[u] = job[u] /\ held'[u] = held[u],
         \A p \in Pages \ {s} : page'[p] = page[p],
         RequestStands(s)', WriteStands(s)', StartStands(s)'
  PROVE  IInv'
<1>1. TypeOK'
  BY DEF IInv, TypeOK, JobsTyped, PagesTyped, stored
<1>2. AuditExact'
  BY DEF IInv, AuditExact, stored
<1>3. \A u \in Sessions \ {s} : RequestStands(u)' /\ WriteStands(u)' /\ StartStands(u)'
  BY OthersStand
<1>4. IInv' <=> /\ TypeOK' /\ LocksExclude' /\ PagesStand' /\ AuditExact'
                /\ \A u \in Sessions : RequestStands(u)' /\ WriteStands(u)' /\ StartStands(u)'
  BY DEF IInv, RequestStands, WriteStands, StartStands
<1> QED
  BY <1>1, <1>2, <1>3, <1>4

\* The pages stay too.
LEMMA StillPages ==
  ASSUME IInv, UNCHANGED <<stored, page>>
  PROVE  PagesTyped' /\ PagesStand' /\ JobsTyped /\ LocksExclude
BY DEF IInv, TypeOK, PagesTyped, PagesStand, JobsTyped, stored

LEMMA OpenKeeps ==
  ASSUME IInv, NEW p \in Pages, Open(p)
  PROVE  IInv'
<1>1. /\ job[p] = None /\ UNCHANGED <<stored, job, held>>
      /\ page' = [page EXCEPT ![p] = GetReviewerApplication(p[1])]
  BY DEF Open
<1>2. p[1] \in Reviewers /\ p \in Sessions
  BY DEF Pages, Sessions
<1>3. review[p[1]] \in Rows \cup {None}
  BY <1>2 DEF IInv, TypeOK
<1> DEFINE row == review[p[1]]
           shown == GetReviewerApplication(p[1])
<1>4. (row = None => shown = New) /\ (row # None => shown = row /\ row \in Rows)
  BY <1>3 DEF GetReviewerApplication
<1>5. PICK r \in Rows \cup {New} : r = shown
  BY <1>4
<1>6. /\ page' \in [Pages -> Rows \cup {Closed, New}] /\ page'[p] = r
      /\ \A q \in Pages \ {p} : page'[q] = page[q]
  BY <1>1, <1>5 DEF IInv, TypeOK
<1>7. PagesStand'
  <2> SUFFICES ASSUME NEW q \in Pages
               PROVE  /\ page'[q].status = "new" /\ review[q[1]] # None => review[q[1]].version > 0
                      /\ page'[q] \in Rows => /\ review[q[1]] # None
                                              /\ \/ review[q[1]] = page'[q]
                                                 \/ review[q[1]].version > page'[q].version
    BY <1>1 DEF PagesStand, stored
  <2>1. CASE q = p
    <3>1. New.status = "new" /\ New \notin Rows
      BY RowTypes DEF New
    <3>2. row # None => row.status # "new"
      BY <1>4, RowTypes
    <3> QED
      BY <1>4, <1>5, <1>6, <2>1, <3>1, <3>2
  <2>2. CASE q # p
    BY <1>6, <2>2 DEF IInv, PagesStand
  <2> QED
    BY <2>1, <2>2
<1>8. JobsTyped' /\ LocksExclude' /\ PagesTyped'
  BY <1>1, <1>6 DEF IInv, TypeOK, JobsTyped, LocksExclude, PagesTyped
<1>9. RequestStands(p)' /\ WriteStands(p)' /\ StartStands(p)'
  BY <1>1 DEF RequestStands, WriteStands, StartStands
<1> QED
  BY <1>1, <1>2, <1>6, <1>7, <1>8, <1>9, QuietKeeps

\* A request that starts has written nothing and asks for no lock yet.
LEMMA StartKeeps ==
  ASSUME IInv, UNCHANGED <<stored, page, held>>, NEW s \in Sessions, NEW req \in Requests,
         job[s] = None, job' = [job EXCEPT ![s] = Started(req)],
         s \in Pages => /\ req.kind = "save" /\ page[s].status \in {"new", "draft"}
                        /\ req.version = page[s].version,
         s \notin Pages => req.kind \in {"grant", "assign", "decide"}
  PROVE  IInv'
<1>1. PagesTyped' /\ PagesStand' /\ JobsTyped /\ LocksExclude
  BY StillPages
<1> DEFINE new == Started(req)
<1>2. req.kind \in AllKinds
  BY RequestTypes
<1>3. /\ new.req = req /\ new.wrote = FALSE
      /\ new.stage = FirstStage(req) /\ new.stage \in {"read", "write", "link"}
      /\ req.kind \in {"save", "submit", "assign"} => new.stage = "read"
      /\ req.kind = "decide" => new.stage = "link"
      /\ new \in Jobs
  BY <1>2 DEF Started, FirstStage, Jobs, Stages, AllKinds
<1>4. PICK j \in Jobs : j = new
  BY <1>3
<1>5. j # None
  BY NoneIsNothing
<1> HIDE DEF new
<1>6. /\ JobsTyped' /\ job'[s] = j
      /\ \A u \in Sessions \ {s} : job'[u] = job[u] /\ held'[u] = held[u]
  BY <1>1, <1>4 DEF JobsTyped, new
<1>7. LocksExclude'
  BY <1>1 DEF LocksExclude
<1>8. RequestStands(s)'
  <2>1. s \in Pages => Kind(s)' = "save" /\ job'[s].stage = "read"
    BY <1>3, <1>4, <1>6 DEF Kind
  <2>2. s \notin Pages => Kind(s)' \in {"grant", "assign", "decide"}
    BY <1>3, <1>4, <1>6 DEF Kind
  <2>3. Kind(s)' = "decide" => job'[s].stage = "link"
    BY <1>3, <1>4, <1>6 DEF Kind
  <2> QED
    BY <1>3, <1>4, <1>6, <2>1, <2>2, <2>3 DEF RequestStands
<1>9. WriteStands(s)'
  <2>1. s \in Pages => job'[s].stage = "read"
    BY <1>3, <1>4, <1>6
  <2> QED
    BY <1>3, <1>4, <1>6, <2>1 DEF WriteStands
<1>10. StartStands(s)'
  BY <1>3, <1>4, <1>6 DEF StartStands
<1> QED
  BY <1>1, <1>6, <1>7, <1>8, <1>9, <1>10, QuietKeeps

LEMMA FillKeeps ==
  ASSUME IInv, NEW p \in Pages, Fill(p)
  PROVE  IInv'
<1>1. PICK content \in Contents, submits \in BOOLEAN :
        job' = [job EXCEPT ![p] = Started([kind |-> "save", version |-> page[p].version,
                                           content |-> content, submits |-> submits])]
  BY DEF Fill
<1> DEFINE req == [kind |-> "save", version |-> page[p].version, content |-> content,
                   submits |-> submits]
<1>2. page[p].version \in 0 .. 2
  BY ShownTypes DEF IInv, TypeOK
<1>3. req \in Requests
  BY <1>2 DEF Requests, SaveRequests
<1>4. /\ UNCHANGED <<stored, page, held>> /\ job[p] = None
      /\ page[p].status \in {"new", "draft"} /\ p \in Sessions
  BY DEF Fill, Sessions
<1> QED
  BY <1>1, <1>3, <1>4, StartKeeps

LEMMA AskKeeps ==
  ASSUME IInv, NEW o \in Organizers, Ask(o)
  PROVE  IInv'
<1>1. PICK req \in OrganizerRequests : job' = [job EXCEPT ![o] = Started(req)]
  BY DEF Ask
<1>2. req \in Requests /\ req.kind \in {"grant", "assign", "decide"}
  BY DEF Requests, OrganizerRequests, GrantRequests, AssignRequests, DecideRequests
<1>3. o \in Sessions /\ o \notin Pages
  BY PagesAssumption DEF Sessions
<1> QED
  BY <1>1, <1>2, <1>3, StartKeeps DEF Ask

\* A step that only moves its session, to a stage its request may be at.
LEMMA StagesKeep ==
  ASSUME IInv, UNCHANGED <<stored, page, held>>, NEW s \in Sessions, job[s] # None,
         NEW stage \in Stages, Move(s, stage),
         s \in Pages => stage \notin {"link", "check", "commit"} \/ job[s].wrote,
         Kind(s) = "save" => \/ stage \in {"read", "look", "conflict"}
                             \/ job[s].req.version = 0,
         Kind(s) = "save" /\ stage \in {"check", "commit"} /\ Inserted(s)
           => /\ <<ApplicationRow, "key_share">> \in held[s]
              /\ stage = "commit" => Submitted,
         Kind(s) # "decide"
  PROVE  IInv'
<1>1. PagesTyped' /\ PagesStand' /\ JobsTyped /\ LocksExclude
  BY StillPages
<1>2. /\ JobsTyped' /\ job'[s] # None
      /\ job'[s].req = job[s].req /\ job'[s].stage = stage /\ job'[s].wrote = job[s].wrote
      /\ \A u \in Sessions \ {s} : job'[u] = job[u] /\ held'[u] = held[u]
  BY <1>1, MoveChanges
<1>3. Kind(s)' = Kind(s) /\ Subject(s)' = Subject(s) /\ Key(s)' = Key(s)
  BY <1>2 DEF Kind, Subject, Key
<1>4. Inserted(s)' = Inserted(s) /\ Writable(s)' = Writable(s)
  BY <1>2, <1>3 DEF Inserted, Writable, Updatable, stored
<1>5. LocksExclude'
  BY <1>1 DEF LocksExclude
<1>6. RequestStands(s)'
  BY <1>2, <1>3 DEF IInv, RequestStands
<1>7. WriteStands(s)'
  BY <1>2, <1>3, <1>4 DEF IInv, WriteStands
<1>8. StartStands(s)'
  BY <1>2, <1>3, <1>4 DEF StartStands, Submitted, stored
<1> QED
  BY <1>1, <1>2, <1>5, <1>6, <1>7, <1>8, QuietKeeps

LEMMA ReadBeforeKeeps ==
  ASSUME IInv, NEW s \in Sessions, ReadBefore(s)
  PROVE  IInv'
<1>1. /\ job[s] # None /\ job[s].stage = "read" /\ Move(s, "look")
      /\ UNCHANGED <<stored, page, held>>
  BY DEF ReadBefore, At
<1>2. Kind(s) # "decide"
  BY <1>1 DEF IInv, RequestStands
<1>3. "look" \in Stages
  BY DEF Stages
<1> QED
  BY <1>1, <1>2, <1>3, StagesKeep

LEMMA LookKeeps ==
  ASSUME IInv, NEW s \in Sessions, Look(s)
  PROVE  IInv'
<1> DEFINE stage == IF Selected(job[s].req) THEN "write" ELSE Without(Kind(s))
<1>1. /\ job[s] # None /\ job[s].stage = "look" /\ Move(s, stage)
      /\ UNCHANGED <<stored, page, held>>
  BY DEF Look, At
<1>2. Kind(s) # "decide" /\ (s \in Pages <=> Kind(s) \in {"save", "submit"})
  BY <1>1 DEF IInv, RequestStands
<1>3. /\ stage \in {"write", "conflict", "commit"} /\ stage \in Stages
      /\ s \in Pages => stage # "commit"
      /\ Kind(s) = "save" => stage # "commit"
      /\ Kind(s) = "save" /\ stage = "write" => job[s].req.version = 0
  BY <1>2 DEF Selected, Without, Stages, Kind
<1> HIDE DEF stage
<1> QED
  BY <1>1, <1>2, <1>3, StagesKeep

LEMMA CheckKeeps ==
  ASSUME IInv, NEW s \in Sessions, Check(s)
  PROVE  IInv'
<1>1. /\ job[s] # None /\ job[s].stage = "check" /\ Move(s, "commit") /\ Submitted
      /\ UNCHANGED <<stored, page, held>>
  BY DEF Check, At
<1>2. /\ Kind(s) # "decide"
      /\ s \in Pages => job[s].wrote
      /\ Kind(s) = "save" => job[s].req.version = 0
      /\ Kind(s) = "save" /\ Inserted(s) => <<ApplicationRow, "key_share">> \in held[s]
  BY <1>1 DEF IInv, RequestStands, WriteStands, StartStands
<1>3. "commit" \in Stages
  BY DEF Stages
<1> QED
  BY <1>1, <1>2, <1>3, StagesKeep

LEMMA LinkKeeps ==
  ASSUME IInv, NEW s \in Sessions, Link(s)
  PROVE  IInv'
<1> DEFINE mode == IF Kind(s) = "decide" THEN "update" ELSE "key_share"
           stage == IF Kind(s) = "save" THEN "check" ELSE "commit"
<1>1. /\ job[s] # None /\ job[s].stage = "link" /\ Acquire(s, ApplicationRow, mode)
      /\ Move(s, stage) /\ UNCHANGED <<stored, page>>
  BY DEF Link, At
<1>2. PagesTyped' /\ PagesStand' /\ JobsTyped /\ LocksExclude
  BY <1>1, StillPages
<1>3. ApplicationRow \in LockRows /\ mode \in Modes /\ stage \in Stages
  BY DEF LockRows, Modes, Stages
<1>4. /\ LocksExclude' /\ held'[s] = held[s] \cup {<<ApplicationRow, mode>>}
      /\ \A u \in Sessions \ {s} : held'[u] = held[u]
  BY <1>1, <1>2, <1>3, AcquireChanges
<1>5. /\ JobsTyped' /\ job'[s] # None
      /\ job'[s].req = job[s].req /\ job'[s].stage = stage /\ job'[s].wrote = job[s].wrote
      /\ \A u \in Sessions \ {s} : job'[u] = job[u]
  BY <1>1, <1>2, <1>3, MoveChanges
<1>6. Kind(s)' = Kind(s) /\ Subject(s)' = Subject(s) /\ Key(s)' = Key(s)
  BY <1>5 DEF Kind, Subject, Key
<1>7. Inserted(s)' = Inserted(s) /\ Writable(s)' = Writable(s)
  BY <1>1, <1>5, <1>6 DEF Inserted, Writable, Updatable, stored
<1>8. RequestStands(s)'
  BY <1>1, <1>5, <1>6 DEF IInv, RequestStands
<1>9. WriteStands(s)'
  <2>1. WriteStands(s)
    BY DEF IInv
  <2> QED
    BY <1>1, <1>4, <1>5, <1>6, <1>7, <2>1 DEF WriteStands
<1>10. StartStands(s)'
  BY <1>4, <1>5, <1>6, <1>7 DEF StartStands
<1> QED
  BY <1>1, <1>2, <1>4, <1>5, <1>8, <1>9, <1>10, QuietKeeps

LEMMA WriteKeeps ==
  ASSUME IInv, NEW s \in Sessions, Write(s)
  PROVE  IInv'
<1> DEFINE next == IF ~Writable(s) THEN Without(Kind(s))
                   ELSE IF Links(s) THEN "link"
                   ELSE IF Kind(s) = "grant" THEN "commit" ELSE "check"
           new == [job[s] EXCEPT !.stage = next, !.wrote = Writable(s)]
<1>1. /\ job[s] # None /\ job[s].stage = "write" /\ Acquire(s, Key(s), "update")
      /\ job' = [job EXCEPT ![s].stage = next, ![s].wrote = Writable(s)]
      /\ UNCHANGED <<stored, page>>
  BY DEF Write, At
<1>2. PagesTyped' /\ PagesStand' /\ JobsTyped /\ LocksExclude
  BY <1>1, StillPages
<1>3. Kind(s) # "decide" /\ RequestStands(s)
  BY <1>1 DEF IInv, RequestStands
<1>4. Key(s) \in LockRows /\ Kind(s) \in {"save", "submit", "grant", "assign"} /\ Subject(s) \in Reviewers
  BY <1>1, <1>2, <1>3, SubjectTypes
<1>5. "update" \in Modes
  BY DEF Modes
<1>6. /\ LocksExclude' /\ held'[s] = held[s] \cup {<<Key(s), "update">>}
      /\ \A u \in Sessions \ {s} : held'[u] = held[u]
  BY <1>1, <1>2, <1>4, <1>5, AcquireChanges
<1>7. Writable(s) \in BOOLEAN /\ Links(s) \in BOOLEAN
  BY <1>4 DEF Writable, Inserted, Updatable, Links
<1>8. /\ next \in {"link", "check", "commit", "conflict"} /\ next \in Stages
      /\ s \in Pages /\ ~Writable(s) => next = "conflict"
      /\ Kind(s) = "save" /\ ~Writable(s) => next = "conflict"
      /\ Kind(s) = "save" /\ Inserted(s) => next = "link"
  <2>1. s \in Pages <=> Kind(s) \in {"save", "submit"}
    BY <1>1, <1>3 DEF RequestStands
  <2>2. Kind(s) = "save" /\ Inserted(s) => Writable(s) /\ Links(s)
    BY DEF Writable, Links
  <2>3. Kind(s) \in {"save", "submit"} => Without(Kind(s)) = "conflict"
    BY DEF Without
  <2>4. Without(Kind(s)) \in {"conflict", "commit"}
    BY DEF Without
  <2>5. CASE Writable(s)
    BY <2>2, <2>5 DEF Stages
  <2>6. CASE ~Writable(s)
    BY <2>1, <2>2, <2>3, <2>4, <2>6 DEF Stages
  <2> QED
    BY <2>5, <2>6
<1>9. job[s] \in Jobs
  BY <1>1, <1>2 DEF JobsTyped
<1>10. /\ new \in Jobs /\ new.req = job[s].req /\ new.stage = next /\ new.wrote = Writable(s)
  BY <1>7, <1>8, <1>9 DEF Jobs
<1>11. new # None
  BY <1>10, NoneIsNothing
<1>12. job' = [job EXCEPT ![s] = new]
  BY <1>1, <1>2, <1>9 DEF JobsTyped, Jobs
<1> HIDE DEF new, next
<1>13. /\ JobsTyped' /\ job'[s] = new
       /\ \A u \in Sessions \ {s} : job'[u] = job[u]
  BY <1>2, <1>10, <1>12 DEF JobsTyped
<1>14. Kind(s)' = Kind(s) /\ Subject(s)' = Subject(s) /\ Key(s)' = Key(s)
  BY <1>10, <1>13 DEF Kind, Subject, Key
<1>15. Inserted(s)' = Inserted(s) /\ Writable(s)' = Writable(s)
  BY <1>1, <1>10, <1>13, <1>14 DEF Inserted, Writable, Updatable, stored
<1>16. RequestStands(s)'
  <2>1. Kind(s) = "save" => job[s].req.version = 0
    BY <1>1, <1>3 DEF RequestStands
  <2> QED
    BY <1>1, <1>3, <1>10, <1>13, <1>14, <2>1 DEF RequestStands
<1>17. WriteStands(s)'
  BY <1>6, <1>8, <1>10, <1>13, <1>14, <1>15 DEF WriteStands
<1>18. StartStands(s)'
  BY <1>3, <1>8, <1>10, <1>13, <1>14, <1>15 DEF StartStands
<1> QED
  BY <1>1, <1>2, <1>6, <1>13, <1>16, <1>17, <1>18, QuietKeeps

\* A request that ends and leaves every table as it was.
LEMMA EndKeeps ==
  ASSUME IInv, NEW s \in Sessions, End(s), UNCHANGED <<stored, page>>
  PROVE  IInv'
<1>1. PagesTyped' /\ PagesStand' /\ JobsTyped /\ LocksExclude
  BY StillPages
<1>2. LocksExclude' /\ \A u \in Sessions \ {s} : held'[u] = held[u]
  BY <1>1, UnlockChanges DEF End
<1>3. JobsTyped' /\ job'[s] = None /\ \A u \in Sessions \ {s} : job'[u] = job[u]
  BY <1>1 DEF JobsTyped, End
<1>4. RequestStands(s)' /\ WriteStands(s)' /\ StartStands(s)'
  BY <1>3 DEF RequestStands, WriteStands, StartStands
<1> QED
  BY <1>1, <1>2, <1>3, <1>4, QuietKeeps

LEMMA RefuseKeeps ==
  ASSUME IInv, NEW s \in Sessions, Refuse(s)
  PROVE  IInv'
BY EndKeeps DEF Refuse

-------------------------------------------------------------------------------
(* Commits.                                                                *)

\* What a session that does not move needs of a commit to stand as it stood.
LEMMA StandsOn ==
  ASSUME IInv, NEW u \in Sessions,
         job'[u] = job[u], held'[u] = held[u], u \in Pages => page'[u] = page[u],
         job[u] # None /\ job[u].wrote => Writable(u)',
         job[u] # None /\ Kind(u) = "save" /\ Inserted(u)' => Inserted(u),
         job[u] # None /\ Kind(u) = "save" /\ job[u].stage = "commit" /\ Inserted(u) /\ Submitted
           => Submitted'
  PROVE  RequestStands(u)' /\ WriteStands(u)' /\ StartStands(u)'
<1>1. RequestStands(u) /\ WriteStands(u) /\ StartStands(u)
  BY DEF IInv
<1>2. CASE job[u] = None
  BY <1>2 DEF RequestStands, WriteStands, StartStands
<1>3. CASE job[u] # None
  <2>1. Kind(u)' = Kind(u) /\ Subject(u)' = Subject(u) /\ Key(u)' = Key(u)
    BY DEF Kind, Subject, Key
  <2>2. RequestStands(u)'
    BY <1>1, <2>1 DEF RequestStands
  <2>3. WriteStands(u)'
    BY <1>1, <1>3, <2>1 DEF WriteStands
  <2>4. StartStands(u)'
    BY <1>1, <1>3, <2>1 DEF StartStands
  <2> QED
    BY <2>2, <2>3, <2>4
<1> QED
  BY <1>2, <1>3

\* A commit that changes the row its transaction wrote, and no other.
LEMMA OtherRowsStand ==
  ASSUME IInv, NEW s \in Sessions, NEW u \in Sessions, s # u,
         job[s] # None, job[s].wrote, job'[u] = job[u], held'[u] = held[u],
         u \in Pages => page'[u] = page[u], status' = status,
         \A r \in Reviewers : <<"review", r>> # Key(s) => review'[r] = review[r],
         \A r \in Reviewers : <<"role", r>> # Key(s) => (r \in roles' <=> r \in roles),
         \A r \in Reviewers :
           <<"assignment", r>> # Key(s) => (r \in assigned' <=> r \in assigned),
         \A r \in Reviewers : review[r] # None => review'[r] # None
  PROVE  RequestStands(u)' /\ WriteStands(u)' /\ StartStands(u)'
<1>1. Kind(u)' = Kind(u) /\ Subject(u)' = Subject(u)
  BY DEF Kind, Subject
<1>2. job[u] # None /\ job[u].wrote => Writable(u)'
  <2> SUFFICES ASSUME job[u] # None, job[u].wrote
               PROVE  Writable(u)'
    OBVIOUS
  <2>1. Key(s) # Key(u)
    BY WritersApart
  <2>2. /\ Kind(u) # "decide" /\ RequestStands(u) /\ JobsTyped /\ Writable(u)
    BY DEF IInv, RequestStands, WriteStands, JobsTyped, TypeOK
  <2>3. Kind(u) \in {"save", "submit", "grant", "assign"} /\ Subject(u) \in Reviewers
    BY <2>2, SubjectTypes
  <2>4. CASE Kind(u) \in {"save", "submit"}
    <3>1. review'[Subject(u)] = review[Subject(u)]
      BY <2>1, <2>3, <2>4 DEF Key
    <3> QED
      BY <1>1, <2>2, <2>4, <3>1 DEF Writable, Inserted, Updatable
  <2>5. CASE Kind(u) = "grant"
    <3>1. Subject(u) \in roles' <=> Subject(u) \in roles
      BY <2>1, <2>3, <2>5 DEF Key
    <3> QED
      BY <1>1, <2>2, <2>5, <3>1 DEF Writable, Inserted
  <2>6. CASE Kind(u) = "assign"
    <3>1. Subject(u) \in assigned' <=> Subject(u) \in assigned
      BY <2>1, <2>3, <2>6 DEF Key
    <3> QED
      BY <1>1, <2>2, <2>6, <3>1 DEF Writable, Inserted
  <2> QED
    BY <2>3, <2>4, <2>5, <2>6
<1>3. job[u] # None /\ Kind(u) = "save" /\ Inserted(u)' => Inserted(u)
  <2> SUFFICES ASSUME job[u] # None, Kind(u) = "save", Inserted(u)'
               PROVE  Inserted(u)
    OBVIOUS
  <2>1. Subject(u) \in Reviewers
    BY SubjectTypes DEF IInv, JobsTyped, TypeOK
  <2> QED
    BY <1>1, <2>1 DEF Inserted
<1> QED
  BY <1>2, <1>3, StandsOn DEF Submitted

\* What such a commit leaves, given what becomes of the session itself.
LEMMA CommitKeeps ==
  ASSUME IInv, NEW s \in Sessions,
         job[s] # None, job[s].wrote, status' = status, StoredTyped', AuditExact',
         JobsTyped', PagesTyped', LocksExclude', PagesStand',
         \A u \in Sessions \ {s} : job'[u] = job[u] /\ held'[u] = held[u],
         \A p \in Pages \ {s} : page'[p] = page[p],
         \A r \in Reviewers : <<"review", r>> # Key(s) => review'[r] = review[r],
         \A r \in Reviewers : <<"role", r>> # Key(s) => (r \in roles' <=> r \in roles),
         \A r \in Reviewers :
           <<"assignment", r>> # Key(s) => (r \in assigned' <=> r \in assigned),
         \A r \in Reviewers : review[r] # None => review'[r] # None,
         RequestStands(s)', WriteStands(s)', StartStands(s)'
  PROVE  IInv'
<1>1. TypeOK'
  BY DEF TypeOK, StoredTyped, JobsTyped, PagesTyped
<1>2. \A u \in Sessions \ {s} : RequestStands(u)' /\ WriteStands(u)' /\ StartStands(u)'
  BY OtherRowsStand
<1>3. IInv' <=> /\ TypeOK' /\ LocksExclude' /\ PagesStand' /\ AuditExact'
                /\ \A u \in Sessions : RequestStands(u)' /\ WriteStands(u)' /\ StartStands(u)'
  BY DEF IInv, RequestStands, WriteStands, StartStands
<1> QED
  BY <1>1, <1>2, <1>3

\* What UpdateReviewDraft and SubmitReview leave of a draft.
LEMMA DraftRewritten ==
  ASSUME NEW old \in Rows, old.status = "draft", old.version = 0, NEW content \in Contents
  PROVE  LET row == [old EXCEPT !.version = @ + 1, !.content = content]
         IN  row \in Rows /\ row.version = 1 /\ row.status = "draft"
<1>1. old \in [status : {"draft"}, version : 0 .. 1, content : Contents]
  BY DEF Rows
<1>2. old.version + 1 = 1 /\ 1 \in 0 .. 1
  OBVIOUS
<1>3. PICK n \in 0 .. 1 : n = 1 /\ n = old.version + 1
  BY <1>2
<1> DEFINE row == [old EXCEPT !.version = n, !.content = content]
<1>4. /\ row \in [status : {"draft"}, version : 0 .. 1, content : Contents]
      /\ row.version = n /\ row.status = "draft"
  BY <1>1
<1>5. row = [old EXCEPT !.version = @ + 1, !.content = content]
  BY <1>3
<1> QED
  BY <1>3, <1>4, <1>5 DEF Rows

LEMMA DraftSubmitted ==
  ASSUME NEW old \in Rows, old.status = "draft", old.version = 1
  PROVE  LET row == SubmitReview(old)
         IN  /\ row \in Rows /\ row.status = "submitted" /\ row.version = 2
             /\ row.content = old.content
<1>1. old \in [status : {"draft"}, version : 0 .. 1, content : Contents]
  BY DEF Rows
<1>2. old.version + 1 = 2
  OBVIOUS
<1>3. PICK n \in {2} : n = old.version + 1
  BY <1>2
<1> DEFINE row == [old EXCEPT !.status = "submitted", !.version = n]
<1>4. /\ row \in [status : {"submitted"}, version : {2}, content : Contents]
      /\ row.version = n /\ row.status = "submitted" /\ row.content = old.content
  BY <1>1
<1>5. row = SubmitReview(old)
  BY <1>3 DEF SubmitReview
<1> QED
  BY <1>3, <1>4, <1>5 DEF Rows

\* What a save that commits finds: the review its page shows, and where there
\* is none, the application awaiting a decision.
LEMMA SaveFinds ==
  ASSUME IInv, NEW p \in Pages, At(p, "commit"), Kind(p) = "save"
  PROVE  LET old == review[p[1]]
             row == UpdateReviewDraft(old, job[p].req)
         IN  /\ p \in Sessions /\ p[1] \in Reviewers /\ Subject(p) = p[1]
             /\ job[p] # None /\ job[p].wrote
             /\ page[p] = GetReviewerApplication(p[1])
             /\ old = None => Submitted
             /\ old # None => old \in Rows /\ old.status = "draft"
             /\ old # None => row.version = old.version + 1
             /\ row \in Rows /\ row.status = "draft" /\ row.version = 1
<1>1. p \in Sessions /\ p[1] \in Reviewers /\ Subject(p) = p[1]
  BY DEF Sessions, Pages, Subject
<1>2. job[p] # None /\ job[p].stage = "commit"
  BY DEF At
<1>3. RequestStands(p) /\ WriteStands(p) /\ StartStands(p) /\ PagesStand /\ TypeOK
  BY <1>1 DEF IInv
<1>4. /\ job[p].req.version = 0 /\ page[p].version = 0 /\ page[p].status \in {"new", "draft"}
      /\ job[p].wrote /\ Writable(p)
  BY <1>2, <1>3 DEF RequestStands, WriteStands
<1>5. job[p].req \in Requests /\ job[p].req.kind = "save"
  BY <1>1, <1>2, <1>3 DEF TypeOK, Jobs, Kind
<1>6. job[p].req.content \in Contents
  BY <1>5, RequestTypes
<1> DEFINE old == review[p[1]]
           req == job[p].req
<1>7. old \in Rows \cup {None} /\ page[p] \in Rows \cup {Closed, New}
  BY <1>1, <1>3 DEF TypeOK
<1>8. CASE old = None
  <2>1. page[p] \notin Rows
    BY <1>3, <1>8 DEF PagesStand
  <2>2. page[p] = New
    BY <1>4, <1>7, <2>1, ShownTypes
  <2>3. Submitted
    BY <1>1, <1>2, <1>3, <1>8 DEF StartStands, Inserted
  <2>4. /\ UpdateReviewDraft(old, req) = [status |-> "draft", version |-> 1, content |-> req.content]
    BY <1>8 DEF UpdateReviewDraft
  <2>5. UpdateReviewDraft(old, req) \in Rows
    BY <1>6, <2>4 DEF Rows
  <2> QED
    BY <1>1, <1>2, <1>4, <1>8, <2>2, <2>3, <2>4, <2>5 DEF GetReviewerApplication
<1>9. CASE old # None
  <2>1. old \in Rows /\ old.version \in 0 .. 2 /\ old.status = "draft" /\ old.version = 0
    BY <1>1, <1>4, <1>7, <1>9, RowTypes DEF Writable, Inserted, Updatable
  <2>2. page[p].status # "new"
    BY <1>3, <1>9, <2>1 DEF PagesStand
  <2>3. page[p] \in Rows
    BY <1>4, <1>7, <2>2, ShownTypes
  <2>4. page[p] = old
    BY <1>3, <1>4, <2>1, <2>3 DEF PagesStand
  <2> DEFINE row == [old EXCEPT !.version = @ + 1, !.content = req.content]
  <2>5. UpdateReviewDraft(old, req) = row
    BY <1>9 DEF UpdateReviewDraft
  <2>6. row \in Rows /\ row.version = 1 /\ row.status = "draft"
    BY <1>6, <2>1, DraftRewritten
  <2> HIDE DEF row
  <2> QED
    BY <1>1, <1>2, <1>4, <1>9, <2>1, <2>4, <2>5, <2>6 DEF GetReviewerApplication
<1> QED
  BY <1>8, <1>9

\* What a submit that commits finds: the draft its page shows.
LEMMA SubmitFinds ==
  ASSUME IInv, NEW p \in Pages, At(p, "commit"), Kind(p) = "submit"
  PROVE  LET old == review[p[1]]
             row == SubmitReview(old)
         IN  /\ p \in Sessions /\ p[1] \in Reviewers /\ Subject(p) = p[1]
             /\ job[p] # None /\ job[p].wrote
             /\ page[p] = GetReviewerApplication(p[1])
             /\ old # None /\ old \in Rows /\ old.status = "draft"
             /\ row.content = old.content /\ row.version = old.version + 1
             /\ row \in Rows /\ row.status = "submitted"
<1>1. p \in Sessions /\ p[1] \in Reviewers /\ Subject(p) = p[1]
  BY DEF Sessions, Pages, Subject
<1>2. job[p] # None /\ job[p].stage = "commit"
  BY DEF At
<1>3. RequestStands(p) /\ WriteStands(p) /\ PagesStand /\ TypeOK
  BY <1>1 DEF IInv
<1>4. /\ page[p].status = "draft" /\ page[p].version = 1 /\ job[p].req.version = 1
      /\ job[p].wrote /\ Writable(p)
  BY <1>2, <1>3 DEF RequestStands, WriteStands
<1> DEFINE old == review[p[1]]
<1>5. old \in Rows \cup {None} /\ page[p] \in Rows
  <2>1. page[p] \in Rows \cup {Closed, New}
    BY <1>3 DEF TypeOK
  <2> QED
    BY <1>1, <1>3, <1>4, <2>1, ShownTypes DEF TypeOK
<1>6. old # None /\ (old = page[p] \/ old.version > 1)
  BY <1>3, <1>4, <1>5 DEF PagesStand
<1>7. old.status = "draft" /\ old.version = 1 /\ old \in Rows
  BY <1>1, <1>4, <1>5, <1>6 DEF Writable, Inserted, Updatable
<1>8. old = page[p]
  BY <1>6, <1>7
<1> DEFINE row == SubmitReview(old)
<1>9. /\ row \in Rows /\ row.status = "submitted" /\ row.version = old.version + 1
      /\ row.content = old.content
  BY <1>7, DraftSubmitted
<1> HIDE DEF row
<1> QED
  BY <1>1, <1>2, <1>4, <1>6, <1>7, <1>8, <1>9 DEF GetReviewerApplication, row

\* The page's review after its row was replaced by the next version.
LEMMA PagesFollow ==
  ASSUME IInv, NEW p \in Pages, NEW row \in Rows,
         review' = [review EXCEPT ![p[1]] = row],
         page' = page \/ page' = [page EXCEPT ![p] = row],
         row.version > 0, review[p[1]] # None => row.version = review[p[1]].version + 1
  PROVE  PagesTyped' /\ PagesStand' /\ \A q \in Pages \ {p} : page'[q] = page[q]
<1>1. PagesTyped /\ PagesStand /\ review \in [Reviewers -> Rows \cup {None}]
      /\ p[1] \in Reviewers
  BY DEF IInv, TypeOK, PagesTyped, Pages
<1>2. PagesTyped' /\ \A q \in Pages \ {p} : page'[q] = page[q]
  BY <1>1 DEF PagesTyped
<1>3. \A q \in Pages : page'[q] = page[q] \/ (q = p /\ page'[q] = row)
  BY <1>1 DEF PagesTyped
<1>4. row # None /\ row.status # "new"
  BY NoneIsNothing, RowTypes
<1>5. PagesStand'
  <2> SUFFICES ASSUME NEW q \in Pages
               PROVE  /\ page'[q].status = "new" /\ review'[q[1]] # None
                           => review'[q[1]].version > 0
                      /\ page'[q] \in Rows => /\ review'[q[1]] # None
                                              /\ \/ review'[q[1]] = page'[q]
                                                 \/ review'[q[1]].version > page'[q].version
    BY DEF PagesStand
  <2>1. q[1] \in Reviewers
    BY DEF Pages
  <2>2. CASE q[1] # p[1]
    <3>1. review'[q[1]] = review[q[1]] /\ page'[q] = page[q]
      BY <1>1, <1>3, <2>1, <2>2
    <3> QED
      BY <1>1, <3>1 DEF PagesStand
  <2>3. CASE q[1] = p[1]
    <3>1. review'[q[1]] = row
      BY <1>1, <2>3
    <3>2. CASE page'[q] = row
      BY <1>4, <3>1, <3>2
    <3>3. CASE page'[q] = page[q]
      <4>1. page[q] \in Rows => /\ review[p[1]] # None
                                /\ \/ review[p[1]] = page[q]
                                   \/ review[p[1]].version > page[q].version
        BY <1>1, <2>3 DEF PagesStand
      <4>2. page[q] \in Rows => page[q].version \in Nat /\ review[p[1]].version \in Nat
        BY <1>1, <4>1, RowTypes
      <4> QED
        BY <1>4, <3>1, <3>3, <4>1, <4>2
    <3> QED
      BY <1>3, <3>1, <3>2, <3>3
  <2> QED
    BY <2>2, <2>3
<1> QED
  BY <1>2, <1>5

\* The audit has nothing to tell of a draft that is replaced by a draft.
LEMMA ReviewTold ==
  ASSUME IInv, NEW r \in Reviewers, NEW row \in Rows, row.status = "draft",
         review' = [review EXCEPT ![r] = row], UNCHANGED <<roles, assigned, audit>>,
         review[r] # None => review[r].status = "draft"
  PROVE  AuditExact'
<1> SUFFICES ASSUME NEW q \in Reviewers
             PROVE  /\ audit'[<<"role", q>>] = IF q \in roles' THEN 1 ELSE 0
                    /\ audit'[<<"assigned", q>>] = IF q \in assigned' THEN 1 ELSE 0
                    /\ audit'[<<"submitted", q>>] =
                         IF review'[q] # None /\ review'[q].status = "submitted" THEN 1 ELSE 0
  BY DEF AuditExact
<1>1. AuditExact /\ review \in [Reviewers -> Rows \cup {None}]
  BY DEF IInv, TypeOK
<1>2. CASE q = r
  BY <1>1, <1>2 DEF AuditExact
<1>3. CASE q # r
  BY <1>1, <1>3 DEF AuditExact
<1> QED
  BY <1>2, <1>3

LEMMA SaveDraftKeeps ==
  ASSUME IInv, NEW p \in Pages, SaveDraft(p)
  PROVE  IInv'
<1> DEFINE old == review[p[1]]
           row == UpdateReviewDraft(old, job[p].req)
           submit == Started([kind |-> "submit", version |-> row.version])
<1>1. /\ At(p, "commit") /\ Kind(p) = "save" /\ Unlock(p)
      /\ review' = [review EXCEPT ![p[1]] = row]
      /\ UNCHANGED <<status, roles, assigned, audit>>
      /\ \/ /\ page' = [page EXCEPT ![p] = row]
            /\ job' = [job EXCEPT ![p] = IF job[p].req.submits THEN submit ELSE None]
         \/ job' = [job EXCEPT ![p] = None] /\ page' = page
  BY DEF SaveDraft
<1>2. /\ p \in Sessions /\ p[1] \in Reviewers /\ Subject(p) = p[1]
      /\ job[p] # None /\ job[p].wrote
      /\ old # None => old \in Rows /\ old.status = "draft"
      /\ old # None => row.version = old.version + 1
      /\ row \in Rows /\ row.status = "draft" /\ row.version = 1
  BY <1>1, SaveFinds
<1>3. Key(p) = <<"review", p[1]>>
  BY <1>1, <1>2 DEF Key
<1>4. /\ submit.req = [kind |-> "submit", version |-> 1] /\ submit.wrote = FALSE
      /\ submit.stage = "read" /\ submit \in Jobs
  <2>1. [kind |-> "submit", version |-> 1] \in Requests
    BY DEF Requests, SubmitRequests
  <2>2. submit = [req |-> [kind |-> "submit", version |-> 1], stage |-> "read", wrote |-> FALSE]
    BY <1>2 DEF Started, FirstStage
  <2>3. [req |-> [kind |-> "submit", version |-> 1], stage |-> "read", wrote |-> FALSE] \in Jobs
    BY <2>1 DEF Jobs, Stages
  <2> HIDE DEF submit
  <2> QED
    BY <2>2, <2>3
<1> HIDE DEF row, submit
<1>5. /\ PagesTyped' /\ PagesStand' /\ \A q \in Pages \ {p} : page'[q] = page[q]
  <2>1. page' = page \/ page' = [page EXCEPT ![p] = row]
    BY <1>1
  <2>2. row \in Rows /\ row.version > 0 /\ review' = [review EXCEPT ![p[1]] = row]
    BY <1>1, <1>2
  <2>3. review[p[1]] # None => row.version = review[p[1]].version + 1
    BY <1>2
  <2> HIDE DEF old
  <2> QED
    BY <2>1, <2>2, <2>3, PagesFollow
<1>6. LocksExclude /\ JobsTyped /\ PagesTyped /\ review \in [Reviewers -> Rows \cup {None}]
  BY DEF IInv, TypeOK, JobsTyped, PagesTyped
<1>7. LocksExclude' /\ \A u \in Sessions \ {p} : held'[u] = held[u]
  BY <1>1, <1>2, <1>6, UnlockChanges
<1>8. /\ JobsTyped' /\ \A u \in Sessions \ {p} : job'[u] = job[u]
      /\ \/ job'[p] = None
         \/ job'[p] = submit /\ page'[p] = row
  BY <1>1, <1>2, <1>4, <1>6 DEF JobsTyped, PagesTyped
<1>9. AuditExact'
  BY <1>1, <1>2, ReviewTold
<1>10. StoredTyped'
  BY <1>1, <1>2 DEF IInv, TypeOK, StoredTyped
<1>11. RequestStands(p)' /\ WriteStands(p)' /\ StartStands(p)'
  <2>1. CASE job'[p] = None
    BY <2>1 DEF RequestStands, WriteStands, StartStands
  <2>2. CASE job'[p] = submit /\ page'[p] = row
    <3>1. Kind(p)' = "submit" /\ job'[p].req.version = 1
      BY <1>4, <2>2 DEF Kind
    <3> QED
      BY <1>2, <1>4, <2>2, <3>1 DEF RequestStands, WriteStands, StartStands
  <2> QED
    BY <1>8, <2>1, <2>2
<1>12. \A r \in Reviewers : <<"review", r>> # Key(p) => review'[r] = review[r]
  BY <1>1, <1>3, <1>6
<1>13. \A r \in Reviewers : review[r] # None => review'[r] # None
  BY <1>1, <1>2, <1>6, NoneIsNothing
<1> QED
  BY <1>1, <1>2, <1>5, <1>7, <1>8, <1>9, <1>10, <1>11, <1>12, <1>13, CommitKeeps

LEMMA SubmitKeeps ==
  ASSUME IInv, NEW p \in Pages, Submit(p)
  PROVE  IInv'
<1> DEFINE old == review[p[1]]
           row == SubmitReview(old)
<1>1. /\ At(p, "commit") /\ Kind(p) = "submit" /\ Unlock(p) /\ job' = [job EXCEPT ![p] = None]
      /\ review' = [review EXCEPT ![p[1]] = row]
      /\ audit' = [audit EXCEPT ![<<"submitted", p[1]>>] = @ + 1]
      /\ UNCHANGED <<status, roles, assigned>>
      /\ page' = page \/ page' = [page EXCEPT ![p] = row]
  BY DEF Submit, End, Tell
<1>2. /\ p \in Sessions /\ p[1] \in Reviewers /\ Subject(p) = p[1]
      /\ job[p] # None /\ job[p].wrote
      /\ old # None /\ old \in Rows /\ old.status = "draft"
      /\ row.version = old.version + 1 /\ row \in Rows /\ row.status = "submitted"
  BY <1>1, SubmitFinds
<1>3. Key(p) = <<"review", p[1]>>
  BY <1>1, <1>2 DEF Key
<1> HIDE DEF row
<1>4. row # None /\ row.version = 2
  BY <1>2, RowTypes, NoneIsNothing
<1>5. PagesTyped' /\ PagesStand' /\ \A q \in Pages \ {p} : page'[q] = page[q]
  <2>1. page' = page \/ page' = [page EXCEPT ![p] = row]
    BY <1>1
  <2>2. row \in Rows /\ row.version > 0 /\ review' = [review EXCEPT ![p[1]] = row]
    BY <1>1, <1>2, <1>4
  <2>3. review[p[1]] # None => row.version = review[p[1]].version + 1
    BY <1>2
  <2> HIDE DEF old
  <2> QED
    BY <2>1, <2>2, <2>3, PagesFollow
<1>6. /\ LocksExclude /\ JobsTyped /\ review \in [Reviewers -> Rows \cup {None}]
      /\ AuditExact /\ audit \in [Events -> Nat]
  BY DEF IInv, TypeOK, JobsTyped
<1>7. LocksExclude' /\ \A u \in Sessions \ {p} : held'[u] = held[u]
  BY <1>1, <1>2, <1>6, UnlockChanges
<1>8. JobsTyped' /\ job'[p] = None /\ \A u \in Sessions \ {p} : job'[u] = job[u]
  BY <1>1, <1>2, <1>6 DEF JobsTyped
<1>9. \A r \in Reviewers : review'[r] = IF r = p[1] THEN row ELSE review[r]
  BY <1>1, <1>6
<1>10. /\ \A e \in Events : audit'[e] = IF e = <<"submitted", p[1]>> THEN audit[e] + 1 ELSE audit[e]
       /\ audit' \in [Events -> Nat]
  BY <1>1, <1>2, <1>6 DEF Events
<1>11. AuditExact'
  <2> SUFFICES ASSUME NEW q \in Reviewers
               PROVE  /\ audit'[<<"role", q>>] = IF q \in roles' THEN 1 ELSE 0
                      /\ audit'[<<"assigned", q>>] = IF q \in assigned' THEN 1 ELSE 0
                      /\ audit'[<<"submitted", q>>] =
                           IF review'[q] # None /\ review'[q].status = "submitted" THEN 1 ELSE 0
    BY DEF AuditExact
  <2>1. /\ <<"role", q>> \in Events /\ <<"assigned", q>> \in Events
        /\ <<"submitted", q>> \in Events
    BY DEF Events
  <2>2. audit'[<<"role", q>>] = audit[<<"role", q>>] /\ audit'[<<"assigned", q>>] = audit[<<"assigned", q>>]
    BY <1>10, <2>1
  <2>3. CASE q = p[1]
    <3>1. audit[<<"submitted", q>>] = 0
      BY <1>2, <1>6, <2>3 DEF AuditExact
    <3>2. audit'[<<"submitted", q>>] = 1
      BY <1>10, <2>1, <2>3, <3>1
    <3> QED
      BY <1>1, <1>2, <1>4, <1>6, <1>9, <2>2, <2>3, <3>2 DEF AuditExact
  <2>4. CASE q # p[1]
    <3>1. audit'[<<"submitted", q>>] = audit[<<"submitted", q>>]
      BY <1>10, <2>1, <2>4
    <3> QED
      BY <1>1, <1>6, <1>9, <2>2, <2>4, <3>1 DEF AuditExact
  <2> QED
    BY <2>3, <2>4
<1>12. StoredTyped'
  BY <1>1, <1>2, <1>10 DEF IInv, TypeOK, StoredTyped
<1>13. RequestStands(p)' /\ WriteStands(p)' /\ StartStands(p)'
  BY <1>8 DEF RequestStands, WriteStands, StartStands
<1>14. /\ \A r \in Reviewers : <<"review", r>> # Key(p) => review'[r] = review[r]
       /\ \A r \in Reviewers : review[r] # None => review'[r] # None
  BY <1>3, <1>4, <1>9
<1> QED
  BY <1>1, <1>2, <1>5, <1>7, <1>8, <1>11, <1>12, <1>13, <1>14, CommitKeeps

\* An organizer's transaction that inserts the row it wrote.
LEMMA TableKeeps ==
  ASSUME IInv, NEW o \in Organizers, job[o] # None, job[o].wrote, End(o),
         UNCHANGED <<status, review, page>>, StoredTyped', AuditExact',
         \A r \in Reviewers : <<"role", r>> # Key(o) => (r \in roles' <=> r \in roles),
         \A r \in Reviewers :
           <<"assignment", r>> # Key(o) => (r \in assigned' <=> r \in assigned)
  PROVE  IInv'
<1>1. /\ LocksExclude /\ JobsTyped /\ PagesTyped /\ PagesStand
      /\ o \in Sessions /\ o \notin Pages
  BY PagesAssumption DEF IInv, TypeOK, JobsTyped, PagesTyped, Sessions
<1>2. LocksExclude' /\ \A u \in Sessions \ {o} : held'[u] = held[u]
  BY <1>1, UnlockChanges DEF End
<1>3. JobsTyped' /\ job'[o] = None /\ \A u \in Sessions \ {o} : job'[u] = job[u]
  BY <1>1 DEF JobsTyped, End
<1>4. PagesTyped' /\ PagesStand'
  BY <1>1 DEF PagesTyped, PagesStand
<1>5. RequestStands(o)' /\ WriteStands(o)' /\ StartStands(o)'
  BY <1>3 DEF RequestStands, WriteStands, StartStands
<1> QED
  BY <1>1, <1>2, <1>3, <1>4, <1>5, CommitKeeps

LEMMA GrantKeeps ==
  ASSUME IInv, NEW o \in Organizers, GrantReviewerRole(o)
  PROVE  IInv'
<1>1. /\ job[o] # None /\ Kind(o) = "grant" /\ End(o) /\ UNCHANGED <<status, assigned, review, page>>
      /\ o \in Sessions /\ o \notin Pages
  BY PagesAssumption DEF GrantReviewerRole, At, Sessions
<1>2. CASE ~job[o].wrote
  BY <1>1, <1>2, EndKeeps DEF GrantReviewerRole, stored
<1>3. CASE job[o].wrote
  <2> DEFINE r == Subject(o)
  <2>1. /\ roles' = roles \cup {r} /\ audit' = [audit EXCEPT ![<<"role", r>>] = @ + 1]
    BY <1>3 DEF GrantReviewerRole, Tell
  <2>2. r \in Reviewers /\ RequestStands(o) /\ WriteStands(o) /\ TypeOK /\ AuditExact
    <3>1. RequestStands(o) /\ WriteStands(o) /\ TypeOK /\ AuditExact /\ JobsTyped
      BY <1>1 DEF IInv, TypeOK, JobsTyped
    <3>2. Kind(o) # "decide"
      BY <1>1
    <3> QED
      BY <1>1, <3>1, <3>2, SubjectTypes
  <2>3. r \notin roles
    BY <1>1, <1>3, <2>2 DEF WriteStands, Writable, Inserted
  <2>4. Key(o) = <<"role", r>>
    BY <1>1 DEF Key
  <2> HIDE DEF r
  <2>5. audit[<<"role", r>>] = 0 /\ audit'[<<"role", r>>] = 1
    <3>1. <<"role", r>> \in Events /\ audit \in [Events -> Nat]
      BY <2>2 DEF Events, TypeOK
    <3>2. audit[<<"role", r>>] = 0
      BY <2>2, <2>3 DEF AuditExact
    <3> QED
      BY <2>1, <3>1, <3>2
  <2>6. \A e \in Events : e # <<"role", r>> => audit'[e] = audit[e]
    BY <2>1, <2>2 DEF TypeOK
  <2>7. audit' \in [Events -> Nat]
    BY <2>1, <2>2, <2>5 DEF TypeOK
  <2>8. AuditExact'
    <3> SUFFICES ASSUME NEW q \in Reviewers
                 PROVE  /\ audit'[<<"role", q>>] = IF q \in roles' THEN 1 ELSE 0
                        /\ audit'[<<"assigned", q>>] = audit[<<"assigned", q>>]
                        /\ audit'[<<"submitted", q>>] = audit[<<"submitted", q>>]
      BY <1>1, <2>2 DEF AuditExact
    <3>1. <<"role", q>> \in Events /\ <<"assigned", q>> \in Events /\ <<"submitted", q>> \in Events
      BY DEF Events
    <3>2. CASE q = r
      BY <2>1, <2>5, <2>6, <3>1, <3>2
    <3>3. CASE q # r
      BY <2>1, <2>2, <2>6, <3>1, <3>3 DEF AuditExact
    <3> QED
      BY <3>2, <3>3
  <2>9. StoredTyped'
    BY <1>1, <2>1, <2>2, <2>7 DEF TypeOK, StoredTyped
  <2> QED
    BY <1>1, <1>3, <2>1, <2>4, <2>8, <2>9, TableKeeps
<1> QED
  BY <1>2, <1>3

LEMMA AssignKeeps ==
  ASSUME IInv, NEW o \in Organizers, AssignReviewer(o)
  PROVE  IInv'
<1>1. /\ job[o] # None /\ Kind(o) = "assign" /\ End(o) /\ UNCHANGED <<status, roles, review, page>>
      /\ o \in Sessions /\ o \notin Pages
  BY PagesAssumption DEF AssignReviewer, At, Sessions
<1>2. CASE ~job[o].wrote
  BY <1>1, <1>2, EndKeeps DEF AssignReviewer, stored
<1>3. CASE job[o].wrote
  <2> DEFINE r == Subject(o)
  <2>1. /\ assigned' = assigned \cup {r} /\ audit' = [audit EXCEPT ![<<"assigned", r>>] = @ + 1]
    BY <1>3 DEF AssignReviewer, Tell
  <2>2. r \in Reviewers /\ RequestStands(o) /\ WriteStands(o) /\ TypeOK /\ AuditExact
    <3>1. RequestStands(o) /\ WriteStands(o) /\ TypeOK /\ AuditExact /\ JobsTyped
      BY <1>1 DEF IInv, TypeOK, JobsTyped
    <3>2. Kind(o) # "decide"
      BY <1>1
    <3> QED
      BY <1>1, <3>1, <3>2, SubjectTypes
  <2>3. r \notin assigned
    BY <1>1, <1>3, <2>2 DEF WriteStands, Writable, Inserted
  <2>4. Key(o) = <<"assignment", r>>
    BY <1>1 DEF Key
  <2> HIDE DEF r
  <2>5. audit[<<"assigned", r>>] = 0 /\ audit'[<<"assigned", r>>] = 1
    <3>1. <<"assigned", r>> \in Events /\ audit \in [Events -> Nat]
      BY <2>2 DEF Events, TypeOK
    <3>2. audit[<<"assigned", r>>] = 0
      BY <2>2, <2>3 DEF AuditExact
    <3> QED
      BY <2>1, <3>1, <3>2
  <2>6. \A e \in Events : e # <<"assigned", r>> => audit'[e] = audit[e]
    BY <2>1, <2>2 DEF TypeOK
  <2>7. audit' \in [Events -> Nat]
    BY <2>1, <2>2, <2>5 DEF TypeOK
  <2>8. AuditExact'
    <3> SUFFICES ASSUME NEW q \in Reviewers
                 PROVE  /\ audit'[<<"role", q>>] = audit[<<"role", q>>]
                        /\ audit'[<<"assigned", q>>] = IF q \in assigned' THEN 1 ELSE 0
                        /\ audit'[<<"submitted", q>>] = audit[<<"submitted", q>>]
      BY <1>1, <2>2 DEF AuditExact
    <3>1. <<"role", q>> \in Events /\ <<"assigned", q>> \in Events /\ <<"submitted", q>> \in Events
      BY DEF Events
    <3>2. CASE q = r
      BY <2>1, <2>5, <2>6, <3>1, <3>2
    <3>3. CASE q # r
      BY <2>1, <2>2, <2>6, <3>1, <3>3 DEF AuditExact
    <3> QED
      BY <3>2, <3>3
  <2>9. StoredTyped'
    BY <1>1, <2>1, <2>2, <2>7 DEF TypeOK, StoredTyped
  <2> QED
    BY <1>1, <1>3, <2>1, <2>4, <2>8, <2>9, TableKeeps
<1> QED
  BY <1>2, <1>3

\* A decision has the application to itself, so no review of it is starting.
LEMMA DecideKeeps ==
  ASSUME IInv, NEW o \in Organizers, Decide(o)
  PROVE  IInv'
<1>1. /\ job[o] # None /\ Kind(o) = "decide" /\ job[o].stage = "commit" /\ End(o)
      /\ status' = "decided" /\ UNCHANGED <<roles, assigned, review, audit, page>>
      /\ o \in Sessions /\ o \notin Pages
  BY PagesAssumption DEF Decide, At, Sessions
<1>2. LocksExclude /\ JobsTyped /\ PagesTyped /\ PagesStand /\ StartStands(o) /\ AuditExact
  BY <1>1 DEF IInv, TypeOK, JobsTyped, PagesTyped
<1>3. LocksExclude' /\ \A u \in Sessions \ {o} : held'[u] = held[u]
  BY <1>1, <1>2, UnlockChanges DEF End
<1>4. JobsTyped' /\ job'[o] = None /\ \A u \in Sessions \ {o} : job'[u] = job[u]
  BY <1>1, <1>2 DEF JobsTyped, End
<1>5. TypeOK' /\ PagesStand' /\ AuditExact'
  BY <1>1, <1>2, <1>4 DEF IInv, TypeOK, JobsTyped, PagesStand, AuditExact
<1>6. RequestStands(o)' /\ WriteStands(o)' /\ StartStands(o)'
  BY <1>4 DEF RequestStands, WriteStands, StartStands
<1>7. ASSUME NEW u \in Sessions \ {o}
      PROVE  RequestStands(u)' /\ WriteStands(u)' /\ StartStands(u)'
  <2>1. job'[u] = job[u] /\ held'[u] = held[u] /\ page' = page
    BY <1>1, <1>3, <1>4
  <2>2. Kind(u)' = Kind(u) /\ Subject(u)' = Subject(u)
    BY <2>1 DEF Kind, Subject
  <2>3. Inserted(u)' = Inserted(u)
    BY <1>1, <2>2 DEF Inserted
  <2>4. Writable(u)' = Writable(u)
    BY <1>1, <2>1, <2>2, <2>3 DEF Writable, Updatable
  <2>5. job[u] # None /\ job[u].wrote => Writable(u)
    BY DEF IInv, WriteStands
  <2>6. ~(job[u] # None /\ Kind(u) = "save" /\ job[u].stage = "commit" /\ Inserted(u))
    <3> SUFFICES ASSUME job[u] # None, Kind(u) = "save", job[u].stage = "commit", Inserted(u)
                 PROVE  FALSE
      OBVIOUS
    <3>1. <<ApplicationRow, "key_share">> \in held[u] /\ <<ApplicationRow, "update">> \in held[o]
      BY <1>1, <1>2 DEF IInv, StartStands
    <3>2. ApplicationRow \in LockRows /\ "key_share" \in Modes /\ "update" \in Modes
      BY DEF LockRows, Modes
    <3>3. ~Compatible("key_share", "update")
      BY DEF Compatible
    <3> QED
      BY <1>1, <1>2, <3>1, <3>2, <3>3 DEF LocksExclude
  <2> QED
    BY <2>1, <2>3, <2>4, <2>5, <2>6, StandsOn
<1>8. IInv' <=> /\ TypeOK' /\ LocksExclude' /\ PagesStand' /\ AuditExact'
                /\ \A u \in Sessions : RequestStands(u)' /\ WriteStands(u)' /\ StartStands(u)'
  BY DEF IInv, RequestStands, WriteStands, StartStands
<1> QED
  BY <1>3, <1>5, <1>6, <1>7, <1>8

-------------------------------------------------------------------------------
(* Every reachable state.                                                  *)

LEMMA InitHolds ==
  ASSUME Init
  PROVE  IInv
<1> DEFINE olds == {[status |-> "draft", version |-> 0, content |-> c] : c \in Contents}
<1>1. \A row \in olds : row \in Rows /\ row.status = "draft"
  BY DEF Rows
<1>2. /\ review \in [Reviewers -> olds \cup {None}]
      /\ audit = [e \in Events |-> IF e[1] = "role" /\ e[2] \in roles THEN 1 ELSE 0]
      /\ page = [p \in Pages |-> Closed] /\ job = [s \in Sessions |-> None]
      /\ held = [s \in Sessions |-> {}] /\ assigned = {} /\ status = "submitted"
      /\ roles \subseteq Reviewers
  BY DEF Init
<1> HIDE DEF olds
<1>3. TypeOK
  <2>1. review \in [Reviewers -> Rows \cup {None}]
    BY <1>1, <1>2
  <2>2. audit \in [Events -> Nat]
    BY <1>2
  <2> QED
    BY <1>2, <2>1, <2>2 DEF TypeOK
<1>4. LocksExclude
  BY <1>2 DEF LocksExclude
<1>5. PagesStand
  <2>1. Closed.status # "new" /\ Closed \notin Rows
    BY RowTypes DEF Closed
  <2> QED
    BY <1>2, <2>1 DEF PagesStand
<1>6. AuditExact
  <2> SUFFICES ASSUME NEW r \in Reviewers
               PROVE  /\ audit[<<"role", r>>] = IF r \in roles THEN 1 ELSE 0
                      /\ audit[<<"assigned", r>>] = 0
                      /\ audit[<<"submitted", r>>] = 0
                      /\ review[r] = None \/ review[r].status # "submitted"
    BY <1>2 DEF AuditExact
  <2>1. <<"role", r>> \in Events /\ <<"assigned", r>> \in Events /\ <<"submitted", r>> \in Events
    BY DEF Events
  <2>2. review[r] = None \/ review[r].status = "draft"
    BY <1>1, <1>2
  <2> QED
    BY <1>2, <2>1, <2>2
<1>7. \A s \in Sessions : RequestStands(s) /\ WriteStands(s) /\ StartStands(s)
  BY <1>2 DEF RequestStands, WriteStands, StartStands
<1> QED
  BY <1>3, <1>4, <1>5, <1>6, <1>7 DEF IInv

LEMMA StutterKeeps ==
  ASSUME IInv, UNCHANGED vars
  PROVE  IInv'
<1>1. TypeOK' /\ LocksExclude' /\ PagesStand' /\ AuditExact'
  BY DEF IInv, vars, TypeOK, LocksExclude, PagesStand, AuditExact
<1>2. \A u \in Sessions : RequestStands(u)' /\ WriteStands(u)' /\ StartStands(u)'
  BY OthersStand DEF vars, stored
<1>3. IInv' <=> /\ TypeOK' /\ LocksExclude' /\ PagesStand' /\ AuditExact'
                /\ \A u \in Sessions : RequestStands(u)' /\ WriteStands(u)' /\ StartStands(u)'
  BY DEF IInv, RequestStands, WriteStands, StartStands
<1> QED
  BY <1>1, <1>2, <1>3

LEMMA NextKeeps ==
  ASSUME IInv, [Next]_vars
  PROVE  IInv'
<1>1. ASSUME NEW p \in Pages, Open(p) \/ Fill(p) \/ SaveDraft(p) \/ Submit(p)
      PROVE  IInv'
  BY <1>1, OpenKeeps, FillKeeps, SaveDraftKeeps, SubmitKeeps
<1>2. ASSUME NEW o \in Organizers,
             Ask(o) \/ GrantReviewerRole(o) \/ AssignReviewer(o) \/ Decide(o)
      PROVE  IInv'
  BY <1>2, AskKeeps, GrantKeeps, AssignKeeps, DecideKeeps
<1>3. ASSUME NEW s \in Sessions,
             ReadBefore(s) \/ Look(s) \/ Write(s) \/ Link(s) \/ Check(s) \/ Refuse(s)
      PROVE  IInv'
  BY <1>3, ReadBeforeKeeps, LookKeeps, WriteKeeps, LinkKeeps, CheckKeeps, RefuseKeeps
<1> QED
  BY <1>1, <1>2, <1>3, StutterKeeps DEF Next

\* The inductive invariant: every transaction that writes a row holds it, and
\* what its statement found stays so until it commits.
THEOREM Invariance == Spec => []IInv
BY InitHolds, NextKeeps, PTL DEF Spec

\* Every row is one the CHECK constraints allow.
THEOREM TypeCorrect == Spec => []TypeOK
<1>1. IInv => TypeOK
  BY DEF IInv
<1> QED
  BY <1>1, Invariance, PTL

\* GrantReviewerRole, AssignReviewer and Submit are each told of once,
\* however many organizers and tabs repeat the call.
THEOREM Audited == Spec => []AuditExact
<1>1. IInv => AuditExact
  BY DEF IInv
<1> QED
  BY <1>1, Invariance, PTL

\* Only SaveDraft and Submit change a review.
LEMMA Writers ==
  ASSUME [Next]_vars, NEW r \in Reviewers, review'[r] # review[r]
  PROVE  \E p \in Pages : SaveDraft(p) \/ Submit(p)
<1>1. CASE UNCHANGED vars
  BY <1>1 DEF vars
<1>2. ASSUME NEW p \in Pages, Open(p) \/ Fill(p) \/ SaveDraft(p) \/ Submit(p)
      PROVE  SaveDraft(p) \/ Submit(p)
  BY <1>2 DEF Open, Fill, stored
<1>3. ASSUME NEW o \in Organizers,
             Ask(o) \/ GrantReviewerRole(o) \/ AssignReviewer(o) \/ Decide(o)
      PROVE  FALSE
  BY <1>3 DEF Ask, GrantReviewerRole, AssignReviewer, Decide, stored
<1>4. ASSUME NEW s \in Sessions,
             ReadBefore(s) \/ Look(s) \/ Write(s) \/ Link(s) \/ Check(s) \/ Refuse(s)
      PROVE  FALSE
  BY <1>4 DEF ReadBefore, Look, Write, Link, Check, Refuse, stored
<1> QED
  BY <1>1, <1>2, <1>3, <1>4 DEF Next

\* What the two of them find and leave.
LEMMA WritersReplace ==
  ASSUME IInv, NEW r \in Reviewers, NEW p \in Pages, SaveDraft(p) \/ Submit(p),
         review'[r] # review[r]
  PROVE  /\ p[1] = r /\ job[p] # None /\ page[p] = GetReviewerApplication(r)
         /\ review[r] # None => review[r].status = "draft"
         /\ review'[r].status = "submitted" => review'[r].content = review[r].content
         /\ review[r] = None => status = "submitted"
<1>1. review \in [Reviewers -> Rows \cup {None}]
  BY DEF IInv, TypeOK
<1>2. CASE SaveDraft(p)
  <2> DEFINE row == UpdateReviewDraft(review[p[1]], job[p].req)
  <2>1. /\ At(p, "commit") /\ Kind(p) = "save" /\ review' = [review EXCEPT ![p[1]] = row]
    BY <1>2 DEF SaveDraft
  <2>2. p[1] = r /\ review'[r] = row
    BY <1>1, <2>1
  <2> QED
    BY <2>1, <2>2, SaveFinds DEF Submitted
<1>3. CASE Submit(p)
  <2> DEFINE row == SubmitReview(review[p[1]])
  <2>1. /\ At(p, "commit") /\ Kind(p) = "submit" /\ review' = [review EXCEPT ![p[1]] = row]
    BY <1>3 DEF Submit
  <2>2. p[1] = r /\ review'[r] = row
    BY <1>1, <2>1
  <2> QED
    BY <2>1, <2>2, SubmitFinds
<1> QED
  BY <1>2, <1>3

\* lock_version: a page replaces only the review it was showing.
THEOREM NoOverwrite == Spec => NoBlindOverwrite
<1>1. IInv /\ [Next]_vars => [ReplacesShown]_vars
  <2> SUFFICES ASSUME IInv, [Next]_vars, NEW r \in Reviewers, review'[r] # review[r]
               PROVE  /\ \E p \in Pages : /\ p[1] = r /\ job[p] # None
                                          /\ page[p] = GetReviewerApplication(r)
                      /\ review[r] # None => review[r].status = "draft"
                      /\ review'[r].status = "submitted" => review'[r].content = review[r].content
    BY DEF ReplacesShown
  <2>1. PICK p \in Pages : SaveDraft(p) \/ Submit(p)
    BY Writers
  <2> QED
    BY <2>1, WritersReplace
<1> QED
  BY <1>1, Invariance, PTL DEF Spec, NoBlindOverwrite

\* The foreign key's lock and the read before the answer keep a review from
\* starting once the decision is recorded.
THEOREM NoLateStart == Spec => StartedBeforeDecision
<1>1. IInv /\ [Next]_vars => [StartsUndecided]_vars
  <2> SUFFICES ASSUME IInv, [Next]_vars, NEW r \in Reviewers,
                      review[r] = None, review'[r] # None
               PROVE  status = "submitted"
    BY DEF StartsUndecided
  <2>1. PICK p \in Pages : SaveDraft(p) \/ Submit(p)
    BY Writers
  <2> QED
    BY <2>1, WritersReplace
<1> QED
  BY <1>1, Invariance, PTL DEF Spec, StartedBeforeDecision

-------------------------------------------------------------------------------
(* Who has the role.                                                       *)

\* A page that shows or asks anything is a reviewer's, and an assignment that
\* got past its checks is to one.
RolesStand ==
  /\ \A p \in Pages : page[p] # Closed \/ job[p] # None => p[1] \in roles
  /\ \A o \in Organizers :
       job[o] # None /\ Kind(o) = "assign" /\ job[o].stage # "read" => Subject(o) \in roles

LEMMA RolesInit == Init => RolesStand
BY PagesAssumption DEF Init, RolesStand, Sessions

\* A session that moves on keeps its request.
LEMMA MovesOn ==
  ASSUME JobsTyped, NEW s \in Sessions,
         ReadBefore(s) \/ Look(s) \/ Write(s) \/ Link(s) \/ Check(s)
  PROVE  /\ job[s] # None /\ job'[s].req = job[s].req
         /\ \A u \in Sessions \ {s} : job'[u] = job[u]
         /\ UNCHANGED <<stored, page>>
         /\ ReadBefore(s) \/ job[s].stage # "read"
<1>1. job[s] # None /\ job[s] \in Jobs
  BY DEF JobsTyped, ReadBefore, Look, Write, Link, Check, At
<1>2. \A stage : Move(s, stage) => /\ job'[s].req = job[s].req
                                   /\ \A u \in Sessions \ {s} : job'[u] = job[u]
  BY <1>1 DEF JobsTyped, Jobs, Move
<1>3. CASE ReadBefore(s)
  BY <1>1, <1>2, <1>3 DEF ReadBefore
<1>4. CASE Look(s)
  BY <1>1, <1>2, <1>4 DEF Look, At
<1>5. CASE Write(s)
  <2>1. PICK next : job' = [job EXCEPT ![s].stage = next, ![s].wrote = Writable(s)]
    BY <1>5 DEF Write
  <2>2. job'[s].req = job[s].req /\ \A u \in Sessions \ {s} : job'[u] = job[u]
    BY <1>1, <2>1 DEF JobsTyped, Jobs
  <2> QED
    BY <1>1, <1>5, <2>2 DEF Write, At
<1>6. CASE Link(s)
  BY <1>1, <1>2, <1>6 DEF Link, At
<1>7. CASE Check(s)
  BY <1>1, <1>2, <1>7 DEF Check, At
<1> QED
  BY <1>3, <1>4, <1>5, <1>6, <1>7

LEMMA RolesKept ==
  ASSUME IInv, RolesStand, [Next]_vars
  PROVE  RolesStand'
<1>1. JobsTyped /\ PagesTyped
  BY DEF IInv, TypeOK, JobsTyped, PagesTyped
<1>2. Pages \subseteq Sessions /\ Organizers \subseteq Sessions /\ Organizers \cap Pages = {}
  BY PagesAssumption DEF Sessions
<1>3. CASE UNCHANGED vars
  BY <1>3 DEF vars, RolesStand, Kind, Subject
<1>4. ASSUME NEW p \in Pages, Open(p)
      PROVE  RolesStand'
  <2>1. /\ UNCHANGED <<roles, job>> /\ p[1] \in roles
        /\ \A q \in Pages \ {p} : page'[q] = page[q]
    BY <1>1, <1>4 DEF Open, PagesTyped, UserHasReviewerRole, stored
  <2> QED
    BY <2>1 DEF RolesStand, Kind, Subject
<1>5. ASSUME NEW p \in Pages, Fill(p)
      PROVE  RolesStand'
  <2>1. /\ UNCHANGED <<roles, page>> /\ p[1] \in roles
        /\ \A u \in Sessions \ {p} : job'[u] = job[u]
    BY <1>1, <1>5 DEF Fill, JobsTyped, UserHasReviewerRole, stored
  <2> QED
    BY <1>2, <2>1 DEF RolesStand, Kind, Subject
<1>6. ASSUME NEW p \in Pages, SaveDraft(p) \/ Submit(p)
      PROVE  RolesStand'
  <2>1. job[p] # None /\ UNCHANGED roles
    BY <1>6 DEF SaveDraft, Submit, At
  <2>2. /\ \A q \in Pages \ {p} : page'[q] = page[q]
        /\ \A u \in Sessions \ {p} : job'[u] = job[u]
    BY <1>1, <1>6 DEF SaveDraft, Submit, End, JobsTyped, PagesTyped
  <2> QED
    BY <1>2, <2>1, <2>2 DEF RolesStand, Kind, Subject
<1>7. ASSUME NEW o \in Organizers, Ask(o)
      PROVE  RolesStand'
  <2>1. PICK req \in OrganizerRequests : job' = [job EXCEPT ![o] = Started(req)]
    BY <1>7 DEF Ask
  <2>2. UNCHANGED <<roles, page>>
    BY <1>7 DEF Ask, stored
  <2>3. /\ job'[o] = Started(req) /\ \A u \in Sessions \ {o} : job'[u] = job[u]
    BY <1>1, <1>2, <2>1 DEF JobsTyped
  <2>4. Kind(o)' = "assign" => job'[o].stage = "read"
    BY <2>3 DEF Kind, Started, FirstStage
  <2> QED
    BY <1>2, <2>2, <2>3, <2>4 DEF RolesStand, Kind, Subject
<1>8. ASSUME NEW s \in Sessions, End(s), page' = page, roles \subseteq roles'
      PROVE  RolesStand'
  <2>1. job'[s] = None /\ \A u \in Sessions \ {s} : job'[u] = job[u]
    BY <1>1, <1>8 DEF End, JobsTyped
  <2> QED
    BY <1>2, <1>8, <2>1 DEF RolesStand, Kind, Subject
<1>9. ASSUME NEW s \in Sessions, GrantReviewerRole(s) \/ AssignReviewer(s) \/ Decide(s) \/ Refuse(s)
      PROVE  RolesStand'
  BY <1>8, <1>9 DEF GrantReviewerRole, AssignReviewer, Decide, Refuse, stored
<1>10. ASSUME NEW s \in Sessions, ReadBefore(s) \/ Look(s) \/ Write(s) \/ Link(s) \/ Check(s)
       PROVE  RolesStand'
  <2>1. /\ job[s] # None /\ job'[s].req = job[s].req
        /\ \A u \in Sessions \ {s} : job'[u] = job[u]
        /\ UNCHANGED <<roles, page>>
        /\ ReadBefore(s) \/ job[s].stage # "read"
    BY <1>1, <1>10, MovesOn DEF stored
  <2>2. Kind(s)' = Kind(s) /\ Subject(s)' = Subject(s)
    BY <2>1 DEF Kind, Subject
  <2>3. s \in Organizers /\ Kind(s) = "assign" => Subject(s) \in roles
    <3>1. ReadBefore(s) /\ Kind(s) = "assign" => Subject(s) \in roles
      BY DEF ReadBefore, UserHasReviewerRole
    <3> QED
      BY <2>1, <3>1 DEF RolesStand
  <2>4. \A p \in Pages : page'[p] # Closed \/ job'[p] # None => p[1] \in roles'
    BY <1>2, <2>1 DEF RolesStand
  <2>5. ASSUME NEW o \in Organizers, o # s
        PROVE  (job[o] # None /\ Kind(o) = "assign" /\ job[o].stage # "read" => Subject(o) \in roles)'
    BY <1>2, <2>1, <2>5 DEF RolesStand, Kind, Subject
  <2> QED
    BY <2>1, <2>2, <2>3, <2>4, <2>5 DEF RolesStand
<1> QED
  BY <1>2, <1>3, <1>4, <1>5, <1>6, <1>7, <1>9, <1>10 DEF Next

\* Roles are never taken back, so what a reviewer could see he could still.
THEOREM RoleInvariance == Spec => []RolesStand
<1>1. IInv /\ RolesStand /\ [Next]_vars => RolesStand'
  BY RolesKept
<1> QED
  BY <1>1, RolesInit, Invariance, PTL DEF Spec

-------------------------------------------------------------------------------
(* The promise of ReviewDesk.                                              *)

ReviewsShown == [r \in Reviewers |-> Plain(GetReviewerApplication(r))]
PagesShown == [p \in Pages |-> Plain(page[p])]

\* A review or a page that changes changes on the desk, and nothing else does.
LEMMA OneReview ==
  ASSUME NEW r \in Reviewers, NEW row \in Rows, review \in [Reviewers -> Rows \cup {None}],
         review' = [review EXCEPT ![r] = row]
  PROVE  ReviewsShown' = [ReviewsShown EXCEPT ![r] = Plain(row)]
<1>1. row # None
  BY NoneIsNothing
<1>2. ReviewsShown' = [q \in Reviewers |-> Plain(IF review'[q] = None THEN New ELSE review'[q])]
  BY DEF ReviewsShown, GetReviewerApplication, Plain
<1>3. \A q \in Reviewers : review'[q] = IF q = r THEN row ELSE review[q]
  OBVIOUS
<1> QED
  BY <1>1, <1>2, <1>3 DEF ReviewsShown, GetReviewerApplication

LEMMA OnePage ==
  ASSUME PagesTyped, NEW p \in Pages, NEW row, page' = [page EXCEPT ![p] = row]
  PROVE  PagesShown' = [PagesShown EXCEPT ![p] = Plain(row)]
BY DEF PagesTyped, PagesShown, Plain

LEMMA SameReviews == UNCHANGED review => UNCHANGED ReviewsShown
BY DEF ReviewsShown, GetReviewerApplication, Plain

LEMMA SamePages == UNCHANGED page => UNCHANGED PagesShown
BY DEF PagesShown, Plain

LEMMA DeskStutters == UNCHANGED <<stored, page>> => UNCHANGED Desk!vars
<1> SUFFICES ASSUME UNCHANGED <<stored, page>>
             PROVE  UNCHANGED Desk!vars
  OBVIOUS
<1>1. UNCHANGED <<ReviewsShown, PagesShown>>
  BY SameReviews, SamePages DEF stored
<1> QED
  BY <1>1 DEF Desk!vars, stored, ReviewsShown, PagesShown

LEMMA InitPromised == Init => Desk!Init
<1> SUFFICES ASSUME Init
             PROVE  Desk!Init
  OBVIOUS
<1>1. ~(status = "decided") /\ roles \in SUBSET Reviewers /\ assigned = {}
  BY DEF Init
<1>2. ReviewsShown \in [Reviewers -> {Desk!Draft(c) : c \in Contents} \cup {Desk!Unwritten}]
  <2> SUFFICES ASSUME NEW r \in Reviewers
               PROVE  Plain(GetReviewerApplication(r))
                        \in {Desk!Draft(c) : c \in Contents} \cup {Desk!Unwritten}
    BY DEF ReviewsShown
  <2>1. CASE review[r] = None
    BY <2>1 DEF GetReviewerApplication, Plain, New, Desk!Unwritten
  <2>2. CASE review[r] # None
    <3>1. PICK c \in Contents : review[r] = [status |-> "draft", version |-> 0, content |-> c]
      BY <2>2 DEF Init
    <3> QED
      BY <2>2, <3>1 DEF GetReviewerApplication, Plain, Desk!Draft
  <2> QED
    BY <2>1, <2>2
<1>3. PagesShown = [p \in Pages |-> [status |-> "closed", content |-> None]]
  BY DEF Init, PagesShown, Plain, Closed
<1>4. audit = [e \in Events |-> IF e[1] = "role" /\ e[2] \in roles THEN 1 ELSE 0]
  BY DEF Init
<1> QED
  BY <1>1, <1>2, <1>3, <1>4
  DEF Desk!Init, Desk!Pages, Pages, Events, ReviewsShown, PagesShown

LEMMA ShowPromised ==
  ASSUME IInv, RolesStand, NEW p \in Pages, Open(p)
  PROVE  Desk!Show(p)
<1>1. /\ p[1] \in roles /\ status = "submitted" /\ p[1] \in Reviewers
      /\ page' = [page EXCEPT ![p] = GetReviewerApplication(p[1])]
      /\ UNCHANGED <<status, roles, assigned, review, audit>>
  BY DEF Open, UserHasReviewerRole, Submitted, stored, Pages
<1>2. PagesShown' = [PagesShown EXCEPT ![p] = ReviewsShown[p[1]]]
  BY <1>1, OnePage DEF IInv, TypeOK, PagesTyped, ReviewsShown
<1>3. UNCHANGED ReviewsShown
  BY <1>1, SameReviews
<1> QED
  BY <1>1, <1>2, <1>3 DEF Desk!Show, ReviewsShown, PagesShown

LEMMA SavePromised ==
  ASSUME IInv, RolesStand, NEW p \in Pages, SaveDraft(p)
  PROVE  Desk!Save(p)
<1> DEFINE r == p[1]
           old == review[r]
           row == UpdateReviewDraft(old, job[p].req)
           c == job[p].req.content
<1>1. /\ At(p, "commit") /\ Kind(p) = "save"
      /\ review' = [review EXCEPT ![r] = row]
      /\ page' = page \/ page' = [page EXCEPT ![p] = row]
      /\ UNCHANGED <<status, roles, assigned, audit>>
  BY DEF SaveDraft
<1>2. /\ p \in Sessions /\ r \in Reviewers /\ job[p] # None
      /\ page[p] = GetReviewerApplication(r)
      /\ old = None => Submitted
      /\ old # None => old \in Rows /\ old.status = "draft"
      /\ row \in Rows /\ row.status = "draft"
  BY <1>1, SaveFinds
<1>3. r \in roles
  BY <1>2 DEF RolesStand
<1>4. c \in Contents
  <2>1. job[p].req \in Requests /\ job[p].req.kind = "save"
    BY <1>1, <1>2 DEF IInv, TypeOK, Jobs, Kind
  <2> QED
    BY <2>1, RequestTypes
<1>5. row.content = c /\ Plain(row) = Desk!Draft(c)
  <2>1. row.content = c
    BY <1>2 DEF UpdateReviewDraft, Rows
  <2> QED
    BY <1>2, <2>1 DEF Plain, Desk!Draft
<1>6. PagesTyped /\ review \in [Reviewers -> Rows \cup {None}]
  BY DEF IInv, TypeOK, PagesTyped
<1>7. PagesShown[p] = ReviewsShown[r]
  BY <1>2 DEF PagesShown, ReviewsShown
<1>8. \/ ReviewsShown[r] = Desk!Unwritten /\ ~(status = "decided")
      \/ ReviewsShown[r].status = "draft"
  BY <1>2 DEF ReviewsShown, GetReviewerApplication, Plain, New, Desk!Unwritten, Submitted
<1> HIDE DEF row, c
<1>9. ReviewsShown' = [ReviewsShown EXCEPT ![r] = Desk!Draft(c)]
  <2>1. /\ r \in Reviewers /\ row \in Rows /\ review' = [review EXCEPT ![r] = row]
        /\ review \in [Reviewers -> Rows \cup {None}]
    BY <1>1, <1>2, <1>6
  <2>2. ReviewsShown' = [ReviewsShown EXCEPT ![r] = Plain(row)]
    BY <2>1, OneReview
  <2> QED
    BY <1>5, <2>2
<1>10. PagesShown' \in {PagesShown, [PagesShown EXCEPT ![p] = Desk!Draft(c)]}
  BY <1>1, <1>5, <1>6, OnePage, SamePages
<1> QED
  BY <1>1, <1>3, <1>4, <1>7, <1>8, <1>9, <1>10 DEF Desk!Save, ReviewsShown, PagesShown

LEMMA SubmitPromised ==
  ASSUME IInv, RolesStand, NEW p \in Pages, Submit(p)
  PROVE  Desk!Submit(p)
<1> DEFINE r == p[1]
           old == review[r]
           row == SubmitReview(old)
           final == [ReviewsShown[r] EXCEPT !.status = "submitted"]
<1>1. /\ At(p, "commit") /\ Kind(p) = "submit"
      /\ review' = [review EXCEPT ![r] = row]
      /\ page' \in {page, [page EXCEPT ![p] = row]}
      /\ audit' = [audit EXCEPT ![<<"submitted", r>>] = @ + 1]
      /\ UNCHANGED <<status, roles, assigned>>
  BY DEF Submit, Tell
<1>2. /\ p \in Sessions /\ r \in Reviewers /\ job[p] # None
      /\ page[p] = GetReviewerApplication(r)
      /\ old # None /\ old \in Rows /\ old.status = "draft"
      /\ row.content = old.content /\ row \in Rows /\ row.status = "submitted"
  BY <1>1, SubmitFinds
<1>3. r \in roles
  BY <1>2 DEF RolesStand
<1>4. ReviewsShown[r] = Plain(old) /\ PagesShown[p] = Plain(old)
  BY <1>2 DEF ReviewsShown, PagesShown, GetReviewerApplication
<1>5. ReviewsShown[r].status = "draft" /\ PagesShown[p] = ReviewsShown[r]
  BY <1>2, <1>4 DEF Plain
<1>6. Plain(row) = final
  BY <1>2, <1>4 DEF Plain
<1>7. PagesTyped /\ review \in [Reviewers -> Rows \cup {None}]
  BY DEF IInv, TypeOK, PagesTyped
<1> HIDE DEF row, final
<1>8. ReviewsShown' = [ReviewsShown EXCEPT ![r] = final]
  BY <1>1, <1>2, <1>6, <1>7, OneReview
<1>9. PagesShown' \in {PagesShown, [PagesShown EXCEPT ![p] = final]}
  BY <1>1, <1>6, <1>7, OnePage, SamePages
<1> QED
  BY <1>1, <1>3, <1>5, <1>8, <1>9 DEF Desk!Submit, Desk!Tell, ReviewsShown, PagesShown, final

\* A grant or an assignment that wrote found its row missing; one that did not
\* changes nothing.
LEMMA AskedPromised ==
  ASSUME IInv, RolesStand, NEW o \in Organizers, GrantReviewerRole(o) \/ AssignReviewer(o)
  PROVE  \/ \E r \in Reviewers : Desk!Grant(r) \/ Desk!Assign(r)
         \/ UNCHANGED <<stored, page>>
<1> DEFINE r == Subject(o)
<1>1. job[o] # None /\ o \in Sessions /\ job[o].stage = "commit" /\ Kind(o) \in {"grant", "assign"}
  BY DEF GrantReviewerRole, AssignReviewer, At, Sessions
<1>2. r \in Reviewers
  <2>1. JobsTyped /\ RequestStands(o)
    BY <1>1 DEF IInv, TypeOK, JobsTyped
  <2> QED
    BY <1>1, <2>1, SubjectTypes
<1>3. CASE ~job[o].wrote
  BY <1>3 DEF GrantReviewerRole, AssignReviewer, stored
<1>4. CASE job[o].wrote
  <2>1. Writable(o)
    BY <1>1, <1>4 DEF IInv, WriteStands
  <2>2. UNCHANGED <<review, page>> => UNCHANGED <<ReviewsShown, PagesShown>>
    BY SameReviews, SamePages
  <2>3. CASE GrantReviewerRole(o)
    <3>1. r \notin roles
      BY <2>1, <2>3 DEF GrantReviewerRole, Writable, Inserted
    <3>2. /\ roles' = roles \cup {r} /\ audit' = [audit EXCEPT ![<<"role", r>>] = @ + 1]
          /\ UNCHANGED <<status, assigned, review, page>>
      BY <1>4, <2>3 DEF GrantReviewerRole, Tell
    <3> HIDE DEF r
    <3>3. Desk!Grant(r)
      BY <2>2, <3>1, <3>2 DEF Desk!Grant, Desk!Tell, ReviewsShown, PagesShown
    <3> QED
      BY <1>2, <3>3
  <2>4. CASE AssignReviewer(o)
    <3>1. r \notin assigned /\ r \in roles
      BY <1>1, <2>1, <2>4 DEF AssignReviewer, Writable, Inserted, RolesStand
    <3>2. /\ assigned' = assigned \cup {r}
          /\ audit' = [audit EXCEPT ![<<"assigned", r>>] = @ + 1]
          /\ UNCHANGED <<status, roles, review, page>>
      BY <1>4, <2>4 DEF AssignReviewer, Tell
    <3> HIDE DEF r
    <3>3. Desk!Assign(r)
      BY <2>2, <3>1, <3>2 DEF Desk!Assign, Desk!Tell, ReviewsShown, PagesShown
    <3> QED
      BY <1>2, <3>3
  <2> QED
    BY <2>3, <2>4
<1> QED
  BY <1>3, <1>4

LEMMA DecidePromised ==
  ASSUME NEW o \in Organizers, Decide(o)
  PROVE  Desk!Decide
<1>1. status' = "decided" /\ UNCHANGED <<roles, assigned, review, audit, page>>
  BY DEF Decide
<1>2. UNCHANGED <<ReviewsShown, PagesShown>>
  BY <1>1, SameReviews, SamePages
<1> QED
  BY <1>1, <1>2 DEF Desk!Decide, ReviewsShown, PagesShown

LEMMA StepPromised ==
  ASSUME IInv, RolesStand, [Next]_vars
  PROVE  [Desk!Next]_(Desk!vars)
<1>1. ASSUME UNCHANGED <<stored, page>>
      PROVE  UNCHANGED Desk!vars
  BY <1>1, DeskStutters
<1>2. ASSUME NEW p \in Pages, Open(p) \/ SaveDraft(p) \/ Submit(p)
      PROVE  Desk!Next
  <2>1. Desk!Show(p) \/ Desk!Save(p) \/ Desk!Submit(p)
    BY <1>2, ShowPromised, SavePromised, SubmitPromised
  <2> QED
    BY <2>1 DEF Desk!Next, Desk!Pages, Pages
<1>3. ASSUME NEW p \in Pages, Fill(p)
      PROVE  UNCHANGED <<stored, page>>
  BY <1>3 DEF Fill
<1>4. ASSUME NEW o \in Organizers, GrantReviewerRole(o) \/ AssignReviewer(o)
      PROVE  [Desk!Next]_(Desk!vars)
  BY <1>1, <1>4, AskedPromised DEF Desk!Next
<1>5. ASSUME NEW o \in Organizers, Decide(o)
      PROVE  Desk!Next
  BY <1>5, DecidePromised DEF Desk!Next
<1>6. ASSUME NEW o \in Organizers, Ask(o)
      PROVE  UNCHANGED <<stored, page>>
  BY <1>6 DEF Ask
<1>7. ASSUME NEW s \in Sessions,
             ReadBefore(s) \/ Look(s) \/ Write(s) \/ Link(s) \/ Check(s) \/ Refuse(s)
      PROVE  UNCHANGED <<stored, page>>
  BY <1>7 DEF ReadBefore, Look, Write, Link, Check, Refuse
<1>8. UNCHANGED vars => UNCHANGED <<stored, page>>
  BY DEF vars, stored
<1> QED
  BY <1>1, <1>2, <1>3, <1>4, <1>5, <1>6, <1>7, <1>8 DEF Next

\* With their versions, late second looks and locks, the transactions of
\* reviews implement ReviewDesk.
THEOREM Refinement == Spec => DeskSpec
<1>1. IInv /\ RolesStand /\ [Next]_vars => [Desk!Next]_(Desk!vars)
  BY StepPromised
<1> QED
  BY <1>1, InitPromised, Invariance, RoleInvariance, PTL DEF Spec, DeskSpec, Desk!Spec

===============================================================================
