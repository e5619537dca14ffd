SPECIFICATION LoadSpec
CONSTANTS
  Columns = {"c", "d"}
  Records <- Wide
  MaxRows = 4
  Settings <- MCSettings
  Bits <- MCBits
  ByteBits = 4
  Payloads <- MCPayloads
  Yields <- MCYields
  Frames <- MCFrames
  MaxSource = 2
  Stagings <- MCStagings
  Inspected <- MCInspected
CHECK_DEADLOCK FALSE
INVARIANTS
  PathsAgree
  SampleErrsLoudly
  CopyTakesWhatItInferred
  LoadersAgree
  AcceptedIsExact
  SpoolReadsBack
  StagingIsRecognised
  GeneratedSchemaFits
