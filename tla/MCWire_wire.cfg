SPECIFICATION FairSpec
CONSTANTS
  KeyWidth = 4
  U64Width = 3
  U32Width = 2
  Formats <- MCFormats
  Lengths <- MCLengths
  MaxCount <- MCMaxCount
INVARIANTS
  TypeOK
  ReaderFollowsWriter
  AcceptedIsSent
  DamageIsNoticed
PROPERTY
  EveryBufferIsDecided
