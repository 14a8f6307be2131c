SPECIFICATION ApSpec
INVARIANT MatrixInverseOrError
CHECK_DEADLOCK FALSE
