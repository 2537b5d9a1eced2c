SPECIFICATION TerminalSpec
CONSTANTS
  p1 = p1
  p2 = p2
  w1 = w1
  w2 = w2
  MaxTyped = 2
  Readers <- MCReaders
  Users <- MCUsers
  Writers <- MCWriters
  Letters <- MCLetters
  INPUT_BUF_SIZE = 3
  UintMod = 6
  SerialKeys <- MCSerialKeys
  Counts <- MCCounts
  TxSize = 2
  TxMod = 4
  Bytes <- MCBytes
  Alpha <- MCAlpha
  Symbols <- MCSymbols
  Named <- MCNamed
  Silent <- MCSilent
  Lower <- MCLower
  Upper <- MCUpper
  Control <- MCControl
  MaxQueue = 2
SYMMETRY Sym
INVARIANTS Woken InOrder TextRight
PROPERTIES Implements
