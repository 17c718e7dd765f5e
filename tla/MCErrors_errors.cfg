SPECIFICATION Spec
CONSTANT HalfRange = 64
INVARIANTS
  TypeOK
  StatusTellsFailure
  NodeAgreesWithRust
  PythonAgreesOnFirstCodes
