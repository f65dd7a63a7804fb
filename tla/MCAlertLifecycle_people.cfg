\* Two workers, two contracts, two administrators.
SPECIFICATION Spec
CONSTANTS
  Workers = {w1, w2}
  Targets = {t1, t2}
  Editors = {a1, a2}
  Ids = {i1, i2}
  NoId = NoId
  ConfirmRounds = 2
  AutoResolve = TRUE
  AutoReopen = TRUE
  MaxStreak = 2
  MaxVersion = 3
  MaxHuman = 1
PROPERTIES HumanCloseStands AlertsHaveTheirRule EditsAreNotLost
SYMMETRY Symmetry
