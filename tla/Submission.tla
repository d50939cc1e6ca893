------------------------------ MODULE Submission ------------------------------
(***************************************************************************)
(* The application of Intake filled in on a form of FormRules: the answer  *)
(* maps a dashboard sends are those validateAnswers lets through.          *)
(***************************************************************************)
EXTENDS Intake, FormRules

ASSUME ValidatedAssumption ==
  Answers \subseteq DraftAnswers /\ Complete \subseteq CompleteAnswers

\* What is submitted answers the questions the applicant was asked and no
\* other, every required one of them with something, though validateAnswers
\* looks at each condition alone (applications.validateAnswers, SaveDraft, Submit).
SubmittedAsAsked ==
  (app # None /\ app.status # "draft") =>
    /\ DOMAIN app.answers \subseteq Asked(app.answers)
    /\ \A k \in Asked(app.answers) : Question[k].required =>
         k \in DOMAIN app.answers /\ app.answers[k] # "blank"

===============================================================================
