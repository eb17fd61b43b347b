SPECIFICATION FairSpec
CONSTANTS
  MaxRequests = 2
  MaxEvents = 2
  Cap = 3
INVARIANTS
  TypeOK
  SpinnerHasStream
  GateMatchesRequests
  ControllerIsLive
  StoppedNeverCompletes
  BadNewsIsShown
  AtMostOneAnswer
PROPERTIES
  ChatUnlocks
CHECK_DEADLOCK FALSE
