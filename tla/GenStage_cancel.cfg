SPECIFICATION Spec
CONSTANTS
  p = p
  m = m
  c = c
  d = d
  s1 = s1
  s2 = s2
  s3 = s3
  Stages = {p, c, d}
  Source = p
  Subs = {s1, s2}
  Up <- FanUp
  Down <- FanDown
  MaxDemand <- TwoThenOne
  MinDemand <- Zero
  Partition <- Partitions
  Hash <- EvenOdd
  Kinds = {"demand", "broadcast", "partition"}
  MailboxSize = 1
  MaxEvents = 2
  MaxBatch = 2
  Workload = {"cancel", "stop"}
INVARIANTS DemandConserved MadeOnDemand
