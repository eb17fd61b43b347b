SPECIFICATION Spec
CONSTANTS
  Agents = {a, b}
  Nameless = {b}
  Clients = {b}
  Keyed = {a}
  NoAgent = NoAgent
  Broken = Broken
  MaxCalls = 2
  MaxFlows = 1
  Editors = {e1, e2, e3}
  Modals = {settings, validation, select}
  Bar = 15
  Margin = 8
INVARIANTS
  PageTypeOK
  MessagesFollowCard
  TokenOfThisSelection
  LockMatchesModals
  ContentKeepsWidth
PROPERTIES
  GoneStaysGone
CHECK_DEADLOCK FALSE
