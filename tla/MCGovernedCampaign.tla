------------------------- MODULE MCGovernedCampaign -------------------------
\* Instances of GovernedCampaign for TLC.
EXTENDS GovernedCampaign, TLC

CONSTANTS t1, t2, c1, c2

OneTask == {t1}
TwoTasks == {t1, t2}
OneCampaign == {c1}
TwoCampaigns == {c1, c2}
=============================================================================
