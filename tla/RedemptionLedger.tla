--------------------------- MODULE RedemptionLedger ---------------------------
(***************************************************************************)
(* What check-in promises, with no transactions in sight: every scan is    *)
(* judged in one instant, by the passes, admissions, checkpoint settings,  *)
(* overrides and earlier redemptions of that instant.  The first scan with *)
(* a key writes the one row of the ledger that key will ever have; what an *)
(* organizer changes never touches the ledger, and never removes a         *)
(* checkpoint the ledger speaks of.                                        *)
(***************************************************************************)
EXTENDS CheckInPolicy

VARIABLES passes, eligible, checkpoints, overrides, requests, redemptions, now

policy == <<passes, eligible, checkpoints, overrides>>
ledger == <<requests, redemptions>>
vars == <<passes, eligible, checkpoints, overrides, requests, redemptions, now>>

Redeemed(a, c) == {r \in redemptions : r.attendee = a /\ r.checkpoint = c}

RuleFor(a, c) == Resolve(checkpoints[c].rule, overrides[a][c])

\* The credential belongs to a pass that admits its holder.
Admits(qr) == qr \in Passes /\ passes[qr] = "active" /\ eligible[Owner[qr]]

SameCycle(qr, c) == CycleOf[c] = CycleOf[Owner[qr]]

Allowed(qr, c) == RuleFor(Owner[qr], c).allowed

Exhausted(qr, c) ==
  Cardinality(Redeemed(Owner[qr], c)) >= RuleFor(Owner[qr], c).max

\* A scan received at t at a checkpoint that takes its holder's redemptions.
Open(qr, c, t) ==
  checkpoints[c].active /\ SameCycle(qr, c) /\ InWindow(checkpoints[c], t)

\* The one outcome a scan received at t has.
Justified(outcome, qr, c, t) ==
  CASE outcome = "invalid_pass" ->
         qr \in Passes => \/ ~eligible[Owner[qr]]
                          \/ passes[qr] \notin {"active", "revoked"}
    [] outcome = "revoked_pass" ->
         qr \in Passes /\ passes[qr] = "revoked" /\ eligible[Owner[qr]]
    [] outcome = "outside_window" ->
         /\ Admits(qr)
         /\ checkpoints[c].active => SameCycle(qr, c) /\ ~Open(qr, c, t)
    [] outcome = "not_entitled" ->
         /\ Admits(qr) /\ checkpoints[c].active
         /\ SameCycle(qr, c) => Open(qr, c, t) /\ ~Allowed(qr, c)
    [] outcome = "already_exhausted" ->
         Admits(qr) /\ Open(qr, c, t) /\ Allowed(qr, c) /\ Exhausted(qr, c)
    [] outcome = "redeemed" ->
         Admits(qr) /\ Open(qr, c, t) /\ Allowed(qr, c) /\ ~Exhausted(qr, c)
    [] OTHER -> FALSE

Redeem(key, qr, c, t, outcome) ==
  /\ \A r \in requests : r.key # key
  /\ checkpoints[c] # None
  /\ t <= now
  /\ Justified(outcome, qr, c, t)
  /\ LET n == IF outcome = "redeemed"
              THEN Cardinality(Redeemed(Owner[qr], c)) + 1 ELSE 0
     IN  /\ requests' = requests \cup
              {[key |-> key, checkpoint |-> c, qr |-> qr,
                outcome |-> outcome, ordinal |-> n]}
         /\ redemptions' = IF outcome = "redeemed"
              THEN redemptions \cup
                     {[key |-> key, pass |-> qr, attendee |-> Owner[qr],
                       checkpoint |-> c, ordinal |-> n, at |-> t]}
              ELSE redemptions
  /\ UNCHANGED <<policy, now>>

\* Organizers change the policy; a replaced or revoked pass stays so.
ChangePolicy ==
  /\ \A r \in requests : checkpoints'[r.checkpoint] # None
  /\ \A p \in Passes : passes'[p] # passes[p] =>
       passes[p] = "absent" \/ (passes[p] = "active" /\ passes'[p] # "absent")
  /\ UNCHANGED <<ledger, now>>

Tick == now' = now + 1 /\ UNCHANGED <<policy, ledger>>

Init == requests = {} /\ redemptions = {} /\ now = 0

Next ==
  \/ Tick
  \/ ChangePolicy
  \/ \E key \in Keys, qr \in Credentials, c \in Checkpoints, t \in 0 .. now,
        outcome \in Outcomes : Redeem(key, qr, c, t, outcome)

Spec == Init /\ [][Next]_vars

===============================================================================
