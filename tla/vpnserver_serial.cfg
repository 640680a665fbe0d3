\* Callers take turns; every mode, every failure, crashes and drops.
SPECIFICATION VpnSpec
CONSTANTS
  h1 = h1
  h2 = h2
  v1 = v1
  v2 = v2
  e1 = e1
  e2 = e2
  Handlers = {h1, h2}
  Vendors = {v1, v2}
  Exits = {e1, e2}
  Konfs <- AllKonfs
  WaitSeconds = 2
  Overlap = "none"
  Faults <- AllFaults
  Partial = Partial
  NoConfig = NoConfig
SYMMETRY Symmetry
INVARIANTS
  VpnTypeOK
  InstalledAsAsked
  OneVendorPerConfig
  RestartRunsFile
  PositiveAnswer
