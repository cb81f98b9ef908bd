SPECIFICATION FairSpec
CONSTANTS
  p = p
  m = m
  c = c
  d = d
  s1 = s1
  s2 = s2
  s3 = s3
  Stages = {p, m, c, d}
  Source = p
  Subs = {s1, s2, s3}
  Up <- TreeUp
  Down <- TreeDown
  MaxDemand <- TwoThenOne
  MinDemand <- Zero
  Partition <- TreePartitions
  Hash <- EvenOdd
  Kinds = {"demand", "broadcast", "partition"}
  MailboxSize = 1
  MaxEvents = 2
  MaxBatch = 2
  Workload = {}
INVARIANTS InOrder EventsAccounted
PROPERTY EventsArrive
