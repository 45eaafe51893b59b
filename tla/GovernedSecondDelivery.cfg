SPECIFICATION GovernedSpec
CONSTANTS
  t1 = t1
  t2 = t2
  c1 = c1
  c2 = c2
  Nobody = Nobody
  Tasks <- TwoTasks
  Campaigns <- OneCampaign
  Retries = 1
  Limit = 1
  MaxChanges = 0
  MaxCrashes = 0
CHECK_DEADLOCK FALSE
INVARIANTS
  DeliveriesSurvive
