CONSTANTS
  Words <- MCWords
  Keywords <- MCKeywords
  MaxDigits = 3
  MaxCount = 2
  MaxDepth = 6
  Bits <- MCBits
  Unit = 4
  Catalog <- MCCatalog
  MaxCalls = 4
  MaxOut = 9
  Sources <- MCSources
SPECIFICATION Spec
INVARIANTS
  VerifierAccepts
  RunsAsWritten
  TypesAgree
  OnlyTraps
  LossIsWarned
  BestOverload
CHECK_DEADLOCK FALSE
