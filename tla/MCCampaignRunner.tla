-------------------------- MODULE MCCampaignRunner --------------------------
(* Small instances of CampaignRunner for TLC. *)
EXTENDS CampaignRunner, TLC

CONSTANTS r1, r2, o1, o2

MCRunners == {r1, r2}
MCOneOperator == {o1}
MCOperators == {o1, o2}

MCCalls == {"reset", "invalidate"}
MCOneNote == {"noon"}
MCWaits == {"WAITING_CI"}
MCOutcomes == {"CONTINUE", "COMPLETE"}
=============================================================================
