SPECIFICATION Spec
CONSTANTS
  Users = {u1, u2}
  Refreshers = {r1}
  Nobody = Nobody
  MaxDevice = 2
  NoToken = NoToken
  NoCall = NoCall
  Margin = 2
  Cooldown = 1
  UnknownTTL = 3
  Lifetime = 3
  MaxLatency = 1
  MaxTime = 4
INVARIANTS TypeOK FreshMeansAlive SingleFlight RefresherHoldsLock
PROPERTIES RefreshesAreSpaced UsableUnlessFailing
SYMMETRY Symmetry
