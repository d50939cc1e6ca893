---------------------------- MODULE CheckInPolicy ----------------------------
(***************************************************************************)
(* The data a redemption is judged by, shared by the transaction model     *)
(* (Redemption) and by the promise it implements (RedemptionLedger).       *)
(*                                                                         *)
(*   Owner     the attendee a pass row belongs to (passes.attendee_id,     *)
(*             written once, on insert)                                    *)
(*   CycleOf   the cycle of an attendee or of a checkpoint                 *)
(*   Rules     entitlement rules: [allowed, max]                           *)
(*   Settings  what a checkpoint row may say: [active, opens, closes,      *)
(*             rule]; a missing bound of the window is 0 or past MaxTime   *)
(*   Malformed a scanned text QRTokenHash rejects                          *)
(*   Forged    a well-formed credential no pass row has                    *)
(***************************************************************************)
EXTENDS Integers, FiniteSets

CONSTANTS Keys, Passes, Attendees, Checkpoints, Owner, CycleOf,
          Rules, Settings, None, Malformed, Forged

Credentials == Passes \cup {Malformed, Forged}

Outcomes == {"redeemed", "already_exhausted", "not_entitled",
             "outside_window", "invalid_pass", "revoked_pass"}

ASSUME OwnerAssumption == Owner \in [Passes -> Attendees]
ASSUME RulesAssumption == Rules \subseteq [allowed : BOOLEAN, max : Int]
ASSUME SettingsAssumption ==
  Settings \subseteq [active : BOOLEAN, opens : Nat, closes : Nat, rule : Rules]
ASSUME SentinelAssumption ==
  /\ None \notin Rules /\ None \notin Settings /\ None \notin Keys
  /\ None \notin Credentials /\ None \notin Outcomes
  /\ Malformed \notin Passes
  /\ Forged \notin Passes
  /\ Malformed # Forged

\* An attendee's override replaces both checkpoint defaults; a negative
\* maximum counts as none.
Resolve(default, override) ==
  LET rule == IF override = None THEN default ELSE override
  IN  [allowed |-> rule.allowed, max |-> IF rule.max < 0 THEN 0 ELSE rule.max]

\* The window is closed on the left and open on the right.
InWindow(settings, t) == settings.opens <= t /\ t < settings.closes

===============================================================================
