SPECIFICATION Spec
CONSTANTS
  scheduler = scheduler
  panel = panel
  old = old
  new = new
  Procs = {scheduler, panel}
  NoProc = NoProc
  Instances = {old, new}
  InstanceOf <- TwoInstances
  Paths = {f}
  Cookies = {c1}
  NoCookie = NoCookie
  Runs = {r1}
  NoRun = NoRun
  Absent = Absent
  Torn = Torn
  Read = Read
  Asks <- Requests
  DiskFaults = FALSE
PROPERTIES CookieOnlyFromSave
