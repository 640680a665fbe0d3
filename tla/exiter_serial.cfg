\* Requests take turns; every mode, every failure, crashes and drops.
SPECIFICATION Spec
CONSTANTS
  h1 = h1
  h2 = h2
  v1 = v1
  v2 = v2
  e1 = e1
  e2 = e2
  Handlers = {h1}
  Vendors = {v1, v2}
  Exits = {e1, e2}
  Konfs <- AllKonfs
  WaitSeconds = 1
  Overlap = "none"
  Faults <- AllFaults
  Partial = Partial
  NoConfig = NoConfig
SYMMETRY Symmetry
INVARIANTS
  TypeOK
  SwitchInstalls
  SwitchReported
  UpNamesRunningVendor
  FailureNotShownUp
  LocateFindsVendor
  ReportInv
PROPERTY SwitcherSpec
