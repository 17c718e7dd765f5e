SPECIFICATION Spec
CONSTANT HalfRange = 64
INVARIANT PythonNamesTheError
