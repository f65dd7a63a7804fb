\* Heartbeats in time, one fault, named locks may drop: leases are kept, jobs end.
SPECIFICATION FairSpec
CONSTANTS
  w1 = w1
  w2 = w2
  Workers = {w1, w2}
  NoWorker = NoWorker
  Jobs = {1, 2}
  Sources = {"contract_management"}
  SourceOf <- OneSource
  LegacyJobs = {}
  Scheduled = {}
  ListLimit = 10
  Lease = 3
  Beat = 1
  Skew <- NoSkew
  MaxClock = 0
  MaxFaults = 1
  Timely = TRUE
  SessionDrops = TRUE
INVARIANT HealthyRunKeepsItsLease
PROPERTY EveryJobEnds
