SPECIFICATION Spec
CONSTANTS
  Parts <- ClientParts
  V1Parts <- ClientV1Parts
  MaxEvents = 3
INVARIANTS
  TypeOK
  ClientDialect
  OwnMessageComesBack
PROPERTIES
  RelaysEvents
CHECK_DEADLOCK FALSE
