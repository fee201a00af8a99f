SPECIFICATION FairSpec
CONSTANTS
  scheduler = scheduler
  panel = panel
  old = old
  new = new
  Procs = {scheduler, panel}
  NoProc = NoProc
  Instances = {new}
  InstanceOf <- OneInstance
  Paths = {f}
  Cookies = {c1, c2}
  NoCookie = NoCookie
  Runs = {r1}
  NoRun = NoRun
  Absent = Absent
  Torn = Torn
  Read = Read
  Asks <- Requests
  DiskFaults = TRUE
INVARIANTS TypeOK NoLostUpdate
PROPERTIES CookieOnlyFromSave CookieKept ImplementsRegister EveryCallReturns
