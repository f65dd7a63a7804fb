\* Two jobs of one source; workers stall, crash and lose their named lock.
SPECIFICATION Spec
CONSTANTS
  w1 = w1
  w2 = w2
  Workers = {w1, w2}
  NoWorker = NoWorker
  Jobs = {1, 2}
  Sources = {"contract_management"}
  SourceOf <- OneSource
  LegacyJobs = {}
  Scheduled = {}
  ListLimit = 10
  Lease = 3
  Beat = 1
  Skew <- NoSkew
  MaxClock = 1
  MaxFaults = 2
  Timely = FALSE
  SessionDrops = TRUE
SYMMETRY Symmetric
INVARIANTS TypeOK OneOpenJobPerSource NoStrandedJob
PROPERTIES LateWriterNeverPublishes FinishedJobNeverPublishes TakeoverRaisesGeneration KeepsPromise
