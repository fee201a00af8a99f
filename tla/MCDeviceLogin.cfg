SPECIFICATION FairSpec
CONSTANTS
  first = first
  second = second
  former = former
  alice = alice
  Logins = {first, second}
  OldDevice = former
  Accounts = {alice}
  AccountOf <- MCAccountOf
  Polls = {1, 2}
  Lives <- MCLives
  MaxLife = 1
  DefaultLife = 1
  UserKeys = {"note"}
  LegacyBase = "legacy"
  Base = "base"
  HalfDay = "12h"
  UserValue = "set"
  NewValue = "changed"
  Edits <- MCEdits
  NoLogin = NoLogin
  Trips = {1}
  NoTrip = NoTrip
INVARIANTS TypeOK FileIsOneDevice
PROPERTIES SavesRespectFiles NothingGivenUp EveryLoginEnds
