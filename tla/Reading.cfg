CONSTANTS
  Words <- MCWords
  Keywords <- MCKeywords
  MaxDigits = 3
  MaxCount = 2
  MaxDepth = 4
  Files <- MCFiles
  Invocations <- MCInvocations
  Unreadable <- MCUnreadable
  ExitCodes <- MCExitCodes
  WellFormed <- MCWellFormed
SPECIFICATION Spec
INVARIANTS
  ReadsBack
  AcceptsTheManual
  LayoutFree
  PastesWhole
  IncludedComesFirst
  ErrorsReachTheExit
PROPERTY MovesOn
CHECK_DEADLOCK FALSE
