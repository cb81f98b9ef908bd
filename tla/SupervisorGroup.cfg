SPECIFICATION GSpec
CONSTANTS
  a = a
  b = b
  c = c
  c1 = c1
  None = None
  Ids = {a, b, c}
  Seeds <- ThreeSeeds
  Restart <- EachKind
  Shutdown <- EachShutdown
  MaxRestarts = 1
  MaxSlides = 0
  MaxCalls = 1
  MaxTasks = 3
  Clients = {c1}
  Strategies = {"one_for_all", "rest_for_one"}
  Workload = {"crash", "start", "terminate", "restart", "delete", "start_fails"}
INVARIANTS RestartedTogether StopsInReverse
CHECK_DEADLOCK FALSE
