SPECIFICATION DFairSpec
CONSTANTS
  a = a
  b = b
  c1 = c1
  None = None
  Ids = {a}
  Seeds <- OneSeed
  Restart <- Transient
  Shutdown <- Timeouts
  MaxRestarts = 1
  MaxSlides = 0
  MaxTasks = 2
  MaxChildren = 1
  Classes = {"Supervisor", "DynamicSupervisor"}
  Clients = {c1}
  Workload = {"start", "terminate", "restart", "delete", "kill", "crash", "start_fails"}
INVARIANT ReturnsLast
PROPERTIES SupervisorEnds ChildReturns
