CONSTANTS
  Words <- MCWords
  Keywords <- MCKeywords
  MaxDigits = 3
  MaxCount = 2
  MaxDepth = 6
  Bits <- MCBits
  Unit = 4
  Catalog <- MCCatalog
  MaxCalls = 4
  MaxOut = 9
  Sources <- MCForOverLong
SPECIFICATION Spec
INVARIANT OnlyTraps
CHECK_DEADLOCK FALSE
