\* One event; a late mark races a claim, and the claimer crashes.
SPECIFICATION Spec
CONSTANTS
  w1 = w1
  w2 = w2
  e1 = e1
  e2 = e2
  Workers = {w1, w2}
  Events = {e1}
  NoEntry = NoEntry
  Lease = 1
  MaxTries = 2
  BatchSize = 2
  MaxBackoff = 1
  Retention = 1
  MaxFaults = 1
  MaxRecords = 1
INVARIANT NeverShelved
