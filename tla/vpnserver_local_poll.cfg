\* Local mode with the documented keys only.
SPECIFICATION VpnSpec
CONSTANTS
  h1 = h1
  h2 = h2
  v1 = v1
  v2 = v2
  e1 = e1
  e2 = e2
  Handlers = {h1}
  Vendors = {v1}
  Exits = {e1}
  Konfs <- DocumentedKonf
  WaitSeconds = 2
  Overlap = "none"
  Faults = {}
  Partial = Partial
  NoConfig = NoConfig
PROPERTIES
  PollSeesTunnel
