CONSTANTS
  Word = 8
  Word32 = 4
  Data <- MCData
  MaxDepth = 4
  MaxTokens = 7
  Blobs <- MCBlobs
  Page = 4
  DefaultUart = 9
  StackSize = 3
  MaxAliases = 2
SPECIFICATION WalksSpec
CHECK_DEADLOCK FALSE
INVARIANT ReservedHonoured
