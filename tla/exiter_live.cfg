\* Requests end, vendors load, and the handlers call the VpnServer as it allows.
SPECIFICATION FairSpec
CONSTANTS
  h1 = h1
  h2 = h2
  v1 = v1
  v2 = v2
  e1 = e1
  e2 = e2
  Handlers = {h1, h2}
  Vendors = {v1}
  Exits = {e1}
  Konfs <- SshKonf
  WaitSeconds = 1
  Overlap = "readers"
  Faults = {"dial"}
  Partial = Partial
  NoConfig = NoConfig
PROPERTIES
  VpnSpec
  EveryRequestEnds
