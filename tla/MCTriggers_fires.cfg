SPECIFICATION TriggerFairSpec
CONSTANTS
  TriggerIds = {t1}
  Scheduled = {t1}
  Dedicated = {}
  WithHandler = {}
  Seeded = {t1}
  Calls = {c1}
  Period = 2
  MaxWorkers = 0
  MaxBoots = 0
PROPERTY ScheduleFires
CHECK_DEADLOCK FALSE
