SPECIFICATION FairSpec
CONSTANTS
  a = a
  b = b
  None = None
  Procs = {a, b}
  Trapping = {a}
  MailboxSize = 1
  MaxRefs = 1
  SendYields = TRUE
  StopReasons = {"crash"}
  Workload = {"info", "stop", "kill", "unlink", "link", "monitor", "demonitor", "raise", "call_stop", "call_closed"}
INVARIANTS TablesAgree DownAtMostOnce OnlyLateMonitorsSurvive DownTellsReason NoLostSender
PROPERTIES ShutdownCompletes
