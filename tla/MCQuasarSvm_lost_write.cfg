SPECIFICATION Spec
CONSTANTS
  payer = payer
  dest = dest
  prog = prog
  pdata = pdata
  loader = loader
  ixs = ixs
  clock = clock
  NoTx = NoTx
  Keys <- MCKeys
  InstructionsId = ixs
  SysvarIds = {clock}
  Programs = {prog, loader}
  LoaderV3 = loader
  ProgramData <- MCProgramData
  Kinds <- MCKinds
  Amounts = {0, 1}
  U64 = 3
  OverflowChecks = {TRUE, FALSE}
  MaxTrace = 2
  BuiltinLamports = 1
  RentBalances = {1}
  ClientKeys = {payer, dest}
  Supplied <- MCSupplied
  GivenLists <- MCGivenLists
  Written <- MCWritten
  Airdrops = {1}
  Chains <- MCChains
PROPERTY CommittedWritesStored
