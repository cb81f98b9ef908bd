SPECIFICATION Spec
CONSTANTS
  a = a
  b = b
  c1 = c1
  None = None
  Ids = {a, b}
  Seeds <- OneSeed
  Restart <- EachKind
  Shutdown <- EachShutdown
  MaxRestarts = 1
  MaxSlides = 0
  MaxTasks = 2
  Clients = {c1}
  Workload = {"start", "terminate", "restart", "delete", "stop", "kill", "crash", "child_killed", "start_fails", "full_mailbox"}
INVARIANTS OneProcessPerId ShutdownInOrder
