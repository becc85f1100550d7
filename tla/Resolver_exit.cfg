SPECIFICATION Spec
CONSTANTS
    Queries = {q1, q2}
    Modulus = 8
INVARIANT BlocksWhenIdle
