CONSTANTS
  empty = empty
  plain = plain
  several = several
  headless = headless
  bridge = bridge
  Key <- MCKey
  Known <- MCKnown
  Stale <- MCNoKeys
  MaxKeys = 1
  MaxReports = 2
  Prompt = FALSE
  NoDriver = NoDriver
  Buses = 1
  Devices = 1
  Slot <- MCNone
  Vacant = empty
  Config <- MCConfig
  Function <- MCFunction
  Garbage <- MCGarbage
SPECIFICATION Spec
INVARIANT BufferHoldsPacket
CHECK_DEADLOCK FALSE
