SPECIFICATION GovernedSpec
CONSTANTS
  t1 = t1
  t2 = t2
  c1 = c1
  c2 = c2
  Nobody = Nobody
  Tasks <- OneTask
  Campaigns <- TwoCampaigns
  Retries = 1
  Limit = 1
  MaxChanges = 2
  MaxCrashes = 1
CHECK_DEADLOCK FALSE
PROPERTIES
  OneBudget
  BindingFollowsSession
  CompleteIsAccepted
  CampaignEnds
