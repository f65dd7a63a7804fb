\* Two requests at a time, in both deployments.
SPECIFICATION Spec
CONSTANTS
  Requests = {r1, r2}
  NoOne = NoOne
  Mixes <- AllMixes
  Idle = 2
  Absolute = 4
  CheckEvery = 1
  TokenLife = 2
  StateTimeout = 1
  CacheTTL = 2
  Patience = 2
  LoginTTL = 1
  TokenTTL = 1
INVARIANTS AcknowledgedLogoutHolds WithdrawnRightsGo EndedSessionIsNoticed
  RefreshTokenSpentOnce OneSessionPerLogin EmbedOpensOnce DashboardsAreAudited
PROPERTIES RevokedForGood
SYMMETRY Symmetry
