SPECIFICATION Spec
CONSTANTS
  ProgramLines <- PlainLines
  LogLimit = 99
  Units = {5, 7}
  MaxChain = 2
  MaxCalls = 4
  MaxHeight = 3
  MaxProgramLines = 1
INVARIANT FailuresHaveErrorCodes
