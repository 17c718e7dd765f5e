SPECIFICATION Spec
CONSTANTS
  builtin = builtin
  p1 = p1
  p2 = p2
  d0 = d0
  d1 = d1
  d2 = d2
  Programs = {builtin, p1, p2}
  Builtins = {builtin}
  ProgramData <- MCProgramData
  Native = Native
  V2 = V2
  V3 = V3
  OtherLoaders = {V4}
  Elfs = {e1, e2}
  NoElf = NoElf
  Closed = Closed
  NoCall = NoCall
INVARIANT TypeOK
INVARIANT AccountsShowWhatRuns
