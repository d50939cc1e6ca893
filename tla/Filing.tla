--------------------------------- MODULE Filing ---------------------------------
(***************************************************************************)
(* What an applicant is promised of filling in and sending an application: *)
(* each change happens in one instant, a dashboard replaces only what it   *)
(* shows and sends only what it saved itself, and what is sent is complete *)
(* then.  There are no versions, transactions or lost answers here.        *)
(***************************************************************************)
EXTENDS Naturals

CONSTANTS Tabs, Answers, Complete, Blank, Objects, ResumeRequired, Opens, Closes,
          Horizon, None

VARIABLES application,  \* its status and answers, and when it was sent
          resume,       \* the uploaded object, or None
          queued,       \* the confirmation is on its way
          now,          \* the clock
          author,       \* the dashboard that last wrote the application
          page          \* dashboard -> what it shows

vars == <<application, resume, queued, now, author, page>>

Absent == [status |-> "absent", answers |-> Blank, at |-> None]
Draft(answers) == [status |-> "draft", answers |-> answers, at |-> None]

\* What a dashboard shows of an application; a decision does not show.
View(a) == [status |-> IF a.status = "draft" THEN "draft" ELSE "submitted",
            answers |-> a.answers]

InWindow(time) == Opens <= time /\ time < Closes

Create(t) ==
  /\ application = Absent /\ InWindow(now)
  /\ application' = Draft(Blank) /\ author' = t
  /\ UNCHANGED <<resume, queued, now, page>>

Show(t) ==
  /\ application # Absent
  /\ page' = [page EXCEPT ![t] = View(application)]
  /\ UNCHANGED <<application, resume, queued, now, author>>

\* Nothing is replaced that the dashboard does not show.
Save(t) ==
  /\ application.status = "draft" /\ page[t] = View(application)
  /\ \E answers \in Answers :
       /\ application' = Draft(answers) /\ author' = t
       /\ page' \in {page, [page EXCEPT ![t] = View(Draft(answers))]}
  /\ UNCHANGED <<resume, queued, now>>

\* A dashboard sends the answers it was the last to save, complete and with
\* the resume; that it asked in time is enough.
Submit(t) ==
  /\ application.status = "draft" /\ author = t
  /\ application.answers \in Complete
  /\ ResumeRequired => resume # None
  /\ \E time \in {moment \in 0 .. now : InWindow(moment)} :
       application' = [status |-> "submitted", answers |-> application.answers, at |-> time]
  /\ page' \in {page, [page EXCEPT ![t] = View(application')]}
  /\ queued' = TRUE
  /\ UNCHANGED <<resume, now, author>>

\* An upload that has begun may end after the application was sent.
Attach ==
  /\ application # Absent
  /\ resume' \in Objects
  /\ UNCHANGED <<application, queued, now, author, page>>

Decide ==
  /\ application.status \in {"submitted", "decided"}
  /\ application' = [application EXCEPT !.status = "decided"]
  /\ UNCHANGED <<resume, queued, now, author, page>>

Tick ==
  /\ now < Horizon /\ now' = now + 1
  /\ UNCHANGED <<application, resume, queued, author, page>>

Init ==
  /\ application = Absent /\ resume = None /\ queued = FALSE /\ now = 0 /\ author = None
  /\ page = [t \in Tabs |-> None]

Next ==
  \/ \E t \in Tabs : Create(t) \/ Show(t) \/ Save(t) \/ Submit(t)
  \/ Attach \/ Decide \/ Tick

Spec == Init /\ [][Next]_vars

===============================================================================
