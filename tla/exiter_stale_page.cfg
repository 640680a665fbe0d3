\* A switch fails, then a status page is forced.
SPECIFICATION Spec
CONSTANTS
  h1 = h1
  h2 = h2
  v1 = v1
  v2 = v2
  e1 = e1
  e2 = e2
  Handlers = {h1}
  Vendors = {v1}
  Exits = {e1, e2}
  Konfs <- SshKonf
  WaitSeconds = 1
  Overlap = "none"
  Faults = {"copy"}
  Partial = Partial
  NoConfig = NoConfig
INVARIANTS
  PageNamesRunningExit
