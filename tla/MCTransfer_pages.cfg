SPECIFICATION TransferSpec
CONSTANTS
  Page = 6
  Word = 2
  MemPages = 3
  MaxCaps = 2
  MaxData = 4
INVARIANTS CopiesMessage
CHECK_DEADLOCK FALSE
