\* Two workers, three runs, one fault; an item with three contents and an API-only one.
SPECIFICATION Spec
CONSTANTS
  w1 = w1
  w2 = w2
  i1 = i1
  i2 = i2
  Workers = {w1, w2}
  Items = {i1, i2}
  Offers <- MCOffers
  Absent = Absent
  MaxRuns = 3
  MaxFaults = 1
SYMMETRY Symmetry
INVARIANTS VerifiedWasMatched ReportedIsCurrent FreshPageIsVerified
PROPERTIES NewestWins
