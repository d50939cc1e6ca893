------------------------------- MODULE MCIntake -------------------------------
(* Small instances of Intake, with the answers a small form admits.        *)
EXTENDS Submission, TLC

CONSTANTS t1, t2, o1, o2

Yes(by) == [type |-> "boolean", select |-> FALSE, required |-> TRUE,
            showWhen |-> by, equals |-> "true"]

\* Shaped like fixtureFormSchema's conditional equipment question, one deeper.
Chain == [hardware |-> Yes(Always),
          borrow |-> Yes("hardware"),
          equipment |-> [Yes("borrow") EXCEPT !.type = "string"]]

Single == [hardware |-> Yes(Always)]

\* What applicants try: nothing, no hardware, an equipment not named yet, one
\* that is, and one that was named before hardware or borrow changed to "No".
Tried ==
  LET named == [hardware |-> "true", borrow |-> "true", equipment |-> "text"]
  IN  {NoAnswers, named, [hardware |-> "false"],
       [named EXCEPT !.equipment = "blank"], [named EXCEPT !.borrow = "false"],
       [hardware |-> "true", equipment |-> "text"],
       [hardware |-> "false", equipment |-> "text"]}
Drafted == Tried \cap DraftAnswers
Completed == Tried \cap CompleteAnswers

Symmetry == Permutations(Tabs) \cup Permutations(Objects)
===============================================================================
