------------------------------- MODULE FormRules -------------------------------
(***************************************************************************)
(* A published application form and the answers it admits: what            *)
(* parsePublishedForm accepts as a form and validateAnswers as answers     *)
(* (api/internal/applications/service.go), and lib/application-form.ts,    *)
(* which decides what the page asks.  A question may be asked only when a  *)
(* boolean question has been answered in one way, and that question may    *)
(* itself depend on another.                                               *)
(***************************************************************************)
EXTENDS Naturals, FiniteSets

CONSTANTS Keys,      \* the keys of the form's questions
          Question,  \* key -> what the form says of it
          Always     \* in place of a condition: the question has no showWhen

\* JSON values, as far as validateAnswers tells them apart: "off" is a string
\* that is no option, no address or too long, "null" any value of another type.
Values == {"true", "false", "number", "text", "blank", "off", "null"}

Questions == [type : {"string", "number", "boolean"}, select : BOOLEAN,
              required : BOOLEAN, showWhen : Keys \cup {Always}, equals : {"true", "false"}]

\* A condition names another question of the form, a boolean one.  Nothing
\* keeps two questions from depending on each other.
Publishable ==
  /\ Question \in [Keys -> Questions] /\ Keys # {} /\ Always \notin Keys
  /\ \A k \in Keys :
       /\ Question[k].select => Question[k].type = "string"
       /\ Question[k].showWhen # Always =>
            /\ Question[k].showWhen # k
            /\ Question[Question[k].showWhen].type = "boolean"

ASSUME FormAssumption == IsFiniteSet(Keys) /\ Publishable

\* An answer map has some of the keys.
AnswerMaps == UNION {[asked -> Values] : asked \in SUBSET Keys}

\* The type switch: whitespace is a string, but never one of the options.
Admits(k, value) ==
  CASE Question[k].type = "string" ->
         value = "text" \/ (value = "blank" /\ ~Question[k].select)
    [] Question[k].type = "number" -> value = "number"
    [] Question[k].type = "boolean" -> value \in {"true", "false"}

conditionMatches(k, answers) ==
  LET by == Question[k].showWhen
  IN  by \in DOMAIN answers /\ answers[by] = Question[k].equals

isApplicationQuestionVisible(k, answers) ==
  Question[k].showWhen = Always \/ conditionMatches(k, answers)

\* Faulty: what is not visible may keep its answer.
validateAnswersKept(answers, requireRequired) ==
  /\ \A k \in DOMAIN answers : Admits(k, answers[k])
  /\ requireRequired =>
       \A k \in Keys : Question[k].required /\ isApplicationQuestionVisible(k, answers) =>
         k \in DOMAIN answers /\ answers[k] # "blank"

validateAnswers(answers, requireRequired) ==
  /\ \A k \in DOMAIN answers :
       Admits(k, answers[k]) /\ isApplicationQuestionVisible(k, answers)
  /\ requireRequired =>
       \A k \in Keys : Question[k].required /\ isApplicationQuestionVisible(k, answers) =>
         k \in DOMAIN answers /\ answers[k] # "blank"

DraftAnswers == {answers \in AnswerMaps : validateAnswers(answers, FALSE)}
CompleteAnswers == {answers \in AnswerMaps : validateAnswers(answers, TRUE)}
NoAnswers == [k \in {} |-> "null"]

\* A set of questions that leaves out none it calls for, given the answers.
Settled(asked, answers) ==
  \A k \in Keys :
    (\/ Question[k].showWhen = Always
     \/ Question[k].showWhen \in asked /\ conditionMatches(k, answers))
    => k \in asked

\* The questions a page that starts empty comes to ask, when it only ever asks
\* what the answers before call for: the reference that validateAnswers, which
\* looks at one condition at a time, is held against.
Asked(answers) ==
  {k \in Keys : \A asked \in SUBSET Keys : Settled(asked, answers) => k \in asked}

\* No question waits, through others, for itself.  A form may be published
\* that is not like this, and its circles of questions are never asked.
Grounded ==
  \A circle \in SUBSET Keys :
    circle # {} => \E k \in circle : Question[k].showWhen \notin circle

===============================================================================
