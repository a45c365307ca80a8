CONSTANTS
    Request = {q1, q2}
    Grace = 2
SPECIFICATION Spec
INVARIANT GracefulExit
CHECK_DEADLOCK FALSE
