SPECIFICATION Spec
CONSTANTS
  Agents = {a}
  Nameless = {}
  Clients = {}
  Keyed = {}
  NoAgent = NoAgent
  Broken = Broken
  MaxCalls = 1
  MaxFlows = 2
  Editors = {e1, e2, e3}
  Modals = {settings, validation, select}
  Bar = 15
  Margin = 8
INVARIANTS
  CodeHasPoller
PROPERTIES
  DeviceFlowEnds
  MountsSettle
CHECK_DEADLOCK FALSE
