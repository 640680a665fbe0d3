\* The temporary file cannot be opened for the copy.
SPECIFICATION VpnSpec
CONSTANTS
  h1 = h1
  h2 = h2
  v1 = v1
  v2 = v2
  e1 = e1
  e2 = e2
  Handlers = {h1}
  Vendors = {v1}
  Exits = {e1}
  Konfs <- SshKonf
  WaitSeconds = 1
  Overlap = "none"
  Faults = {"open"}
  Partial = Partial
  NoConfig = NoConfig
INVARIANTS
  RemoteConfigUpdated
