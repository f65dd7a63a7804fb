\* One worker, two contracts, a counter that is full after two rounds.
SPECIFICATION FairSpec
CONSTANTS
  Workers = {w1}
  Targets = {t1, t2}
  Editors = {}
  Ids = {i1}
  NoId = NoId
  ConfirmRounds = 2
  AutoResolve = TRUE
  AutoReopen = TRUE
  MaxStreak = 3
  MaxVersion = 1
  MaxHuman = 0
PROPERTIES ClearedAlertCloses
