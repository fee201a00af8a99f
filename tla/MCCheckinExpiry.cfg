SPECIFICATION Spec
CONSTANTS
  cred1 = cred1
  cred2 = cred2
  alice = alice
  bob = bob
  cookieA = cookieA
  cookieB = cookieB
  scheduler = scheduler
  panel = panel
  editor = editor
  Creds = {cred1, cred2}
  Paths = {cred1}
  HasEmail = {cred1}
  SiteNamesOwner = TRUE
  NoCred = NoCred
  Accounts = {alice, bob}
  AccountOf <- MCAccountOf
  Cookies = {cookieA, cookieB}
  OwnerOf <- MCOwnerOf
  NoCookie = NoCookie
  Runs <- MCRuns
  NoRun = NoRun
  Runners = {scheduler}
  Editors = {editor}
  MaxDay = 1
  DiskFaults = FALSE
INVARIANTS ExpiryReported
