\* Two dispatchers, two events, one crash or failed mark.
SPECIFICATION Spec
CONSTANTS
  w1 = w1
  w2 = w2
  e1 = e1
  e2 = e2
  Workers = {w1, w2}
  Events = {e1, e2}
  NoEntry = NoEntry
  Lease = 1
  MaxTries = 2
  BatchSize = 2
  MaxBackoff = 1
  Retention = 1
  MaxFaults = 1
  MaxRecords = 1
INVARIANT NothingLost
PROPERTIES NoOpenRowPurged LeaseHonoured EveryEventSettles
