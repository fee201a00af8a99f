SPECIFICATION Spec
CONSTANTS
  scheduler = scheduler
  panel = panel
  old = old
  new = new
  Procs = {scheduler, panel}
  NoProc = NoProc
  Instances = {old, new}
  InstanceOf <- TwoInstances
  Paths = {f, g}
  Cookies = {c1}
  NoCookie = NoCookie
  Runs = {}
  NoRun = NoRun
  Absent = Absent
  Torn = Torn
  Read = Read
  Asks <- Edits
  DiskFaults = TRUE
SYMMETRY Symmetry
PROPERTIES CookiesKeepToPath
