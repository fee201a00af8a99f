SPECIFICATION Spec
CONSTANTS
  Users = {u1}
  Refreshers = {r1}
  Nobody = Nobody
  MaxDevice = 2
  NoToken = NoToken
  NoCall = NoCall
  Margin = 2
  Cooldown = 1
  UnknownTTL = 3
  Lifetime = 4
  MaxLatency = 1
  MaxTime = 4
PROPERTIES NoInheritedToken
