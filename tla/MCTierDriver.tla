----------------------------- MODULE MCTierDriver -----------------------------
(***************************************************************************)
(* TierDriver for TLC.                                                     *)
(***************************************************************************)
EXTENDS TierDriver

AllTiers == Tier
OnlyT1 == {"T1"}
AllEdits == {"escalate", "override", "halt", "redispatch"}
Escalation == {"escalate"}
=============================================================================
