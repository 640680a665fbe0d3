\* IsUp and Status run next to UpdateConfig and Restart.
SPECIFICATION VpnSpec
CONSTANTS
  h1 = h1
  h2 = h2
  v1 = v1
  v2 = v2
  e1 = e1
  e2 = e2
  Handlers = {h1, h2}
  Vendors = {v1, v2}
  Exits = {e1}
  Konfs <- SshKonf
  WaitSeconds = 1
  Overlap = "readers"
  Faults = {"open", "copy", "command"}
  Partial = Partial
  NoConfig = NoConfig
SYMMETRY HandlerSymmetry
INVARIANTS
  WriterInv
  InstalledAsAsked
  OneVendorPerConfig
  RestartRunsFile
