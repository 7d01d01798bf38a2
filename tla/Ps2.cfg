CONSTANTS
  empty = empty
  plain = plain
  several = several
  headless = headless
  bridge = bridge
  Key <- MCKey
  Known <- MCKnown
  Stale <- MCStale
  MaxKeys = 2
  MaxReports = 2
  Prompt = TRUE
  NoDriver = NoDriver
  Buses = 2
  Devices = 2
  Slot <- MCSlot
  Vacant = empty
  Config <- MCConfig
  Function <- MCFunction
  Garbage <- MCGarbage
SPECIFICATION Spec
INVARIANTS
  TypeOK
  FunctionsListedOnce
  PortBaseIsOwn
  DevicesOn
  PacketsInOrder
  KeysInOrder
PROPERTY EverythingArrives
CHECK_DEADLOCK FALSE
