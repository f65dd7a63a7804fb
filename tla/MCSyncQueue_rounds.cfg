\* Scheduled rounds beside the queue, skewed host clocks, a legacy row; locks hold.
SPECIFICATION Spec
CONSTANTS
  w1 = w1
  w2 = w2
  Workers = {w1, w2}
  NoWorker = NoWorker
  Jobs = {1, 2}
  Sources = {"contract_management"}
  SourceOf <- OneSource
  LegacyJobs = {1}
  Scheduled = {"contract_management"}
  ListLimit = 10
  Lease = 3
  Beat = 1
  Skew <- SomeSkew
  MaxClock = 2
  MaxFaults = 1
  Timely = FALSE
  SessionDrops = FALSE
INVARIANTS OneWorkerPerSource LegacyNeedsAudit
PROPERTY WatermarkNeverRegresses
