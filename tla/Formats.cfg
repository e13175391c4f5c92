SPECIFICATION FormatSpec
CONSTANTS
  PACKET_SIZE = 5
  PACKET_1K_SIZE = 7
  BlkMod = 4
  HeadSize = 1
  Sizes <- MCSizes
  Names <- MCNames
  MaxImage = 40
  Numbers <- MCNumbers
  MaxBurst = 12
  BufferSize = 3
  Data = {0, 16}
  MaxRecords = 2
  Tokens <- MCTokens
  Numerals <- MCNumerals
  OldAnswers <- MCOldAnswers
  MaxContent = 4
INVARIANT TransferArrives
INVARIANT DamageIsSeen
INVARIANT RowsAreRecords
INVARIANT LogArrives
CHECK_DEADLOCK FALSE
