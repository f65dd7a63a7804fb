\* Two workers, three rows, one change, one fault.
SPECIFICATION Spec
CONSTANTS
  w1 = w1
  w2 = w2
  c1 = c1
  a1 = a1
  u1 = u1
  Workers = {w1, w2}
  Contract <- MCContract
  Approval <- MCApproval
  CRM <- MCCRM
  Stale = 1
  NoSource = NoSource
  MaxAge = 1
  MaxChanges = 1
  MaxFaults = 1
PROPERTIES NeverRollsBack SuccessIsMirrored FactsCoverTheRound
SYMMETRY Symmetry
