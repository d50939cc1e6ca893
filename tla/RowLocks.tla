------------------------------- MODULE RowLocks -------------------------------
(***************************************************************************)
(* Row-level locks as PostgreSQL grants them to the ATS transactions: the  *)
(* four modes of SELECT ... FOR KEY SHARE / SHARE / NO KEY UPDATE /        *)
(* UPDATE, held to the end of the transaction.  `held' maps a session to   *)
(* the set of <<row, mode>> pairs its open transaction holds.              *)
(***************************************************************************)

Modes == {"key_share", "share", "no_key_update", "update"}

Compatible(m, n) ==
  \/ m = "key_share" /\ n # "update"
  \/ n = "key_share" /\ m # "update"
  \/ m = "share" /\ n = "share"

\* The sessions whose locks make s wait when it asks for row in that mode.
Blockers(held, s, row, mode) ==
  {t \in DOMAIN held \ {s} :
     \E m \in Modes : <<row, m>> \in held[t] /\ ~Compatible(m, mode)}

Grantable(held, s, row, mode) == Blockers(held, s, row, mode) = {}

\* A set of sessions each of which waits for another of the set: what the
\* deadlock detector looks for.  `waits' maps a session to its blockers.
WaitCycle(waits) ==
  \E S \in SUBSET DOMAIN waits :
    S # {} /\ \A s \in S : waits[s] \cap S # {}

===============================================================================
