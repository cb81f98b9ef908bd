SPECIFICATION FairSpec
CONSTANTS
  a = a
  b = b
  x = x
  y = y
  tick = tick
  None = None
  Other = Other
  Procs = {a, b}
  Owner = a
  Plain = {a}
  Timers = {x, y}
  Names = {tick}
  MailboxSize = 1
INVARIANTS TablesTrackTimers NoPileUp OnlyDueOnesLinger
PROPERTIES SilencedStaySilent IntervalGoesOn TimersEndWithOwner
