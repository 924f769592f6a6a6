SPECIFICATION Spec
CONSTANT MaxDisturbances = 3
INVARIANT DisabledIsDurable
