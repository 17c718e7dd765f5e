SPECIFICATION FairSpec
CONSTANTS
  Threads = {t1, t2}
  Objects = {o1, o2}
  Addresses = {a1, a2}
  Buffers = {b1, b2}
  Null = null
  Bundled = {token2022}
  Own = {program}
  Profiles = {"abort", "unwind"}
  Versions = {v1, v2}
INVARIANTS
  TypeOK
  RaisedIsOwn
  CallsOnOwnMachine
  MachinesAreHeld
  ResultsAreHeld
  FailedCallsChangeNothing
PROPERTY
  GarbageIsFreed
  ImplementsMachines
