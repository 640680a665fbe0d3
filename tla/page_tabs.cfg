\* Every order of clicks, keys, answers, failures and timers.
SPECIFICATION TabsSpec
CONSTANTS
  LastTab = 3
  MaxLoads = 4
INVARIANTS
  TabsTypeOK
  OneRequest
  LoadingSettles
  ActivePanelHonest
PROPERTIES
  LoadsEnd
  PanelsSpec
