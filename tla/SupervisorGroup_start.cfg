SPECIFICATION GFairSpec
CONSTANTS
  a = a
  b = b
  c = c
  c1 = c1
  None = None
  Ids = {a, b}
  Seeds <- OneSeed
  Restart <- Permanent
  Shutdown <- Timeouts
  MaxRestarts = 1
  MaxSlides = 0
  MaxCalls = 1
  MaxTasks = 2
  Clients = {c1}
  Strategies = {"one_for_all", "rest_for_one"}
  Workload = {"crash", "start"}
PROPERTY GroupComesBack
CHECK_DEADLOCK FALSE
