SPECIFICATION Spec
CONSTANTS
    Callers = {c1}
    Closers = {k1}
CHECK_DEADLOCK FALSE
INVARIANTS
    AnswersAreDelivered
