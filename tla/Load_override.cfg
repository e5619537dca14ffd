SPECIFICATION LoadSpec
CONSTANTS
  Columns = {"c", "d"}
  Records <- Zones
  MaxRows = 2
  Settings <- Given
  Bits <- MCBits
  ByteBits = 4
  Payloads <- MCPayloads
  Yields <- MCYields
  Frames <- MCFrames
  MaxSource = 2
  Stagings <- NoTables
  Inspected <- NoTables
CHECK_DEADLOCK FALSE
INVARIANTS
  OverridesAgree
