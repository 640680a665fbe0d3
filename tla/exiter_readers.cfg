\* Status pages are served while an exit is selected.
SPECIFICATION Spec
CONSTANTS
  h1 = h1
  h2 = h2
  v1 = v1
  v2 = v2
  e1 = e1
  e2 = e2
  Handlers = {h1, h2}
  Vendors = {v1}
  Exits = {e1, e2}
  Konfs <- SshKonf
  WaitSeconds = 1
  Overlap = "readers"
  Faults = {"open", "copy", "command"}
  Partial = Partial
  NoConfig = NoConfig
SYMMETRY HandlerSymmetry
INVARIANTS
  SwitchInstalls
  SwitchInv
PROPERTY SwitcherSpec
