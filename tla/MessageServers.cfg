\* All four servers, with two clients of any labs.
SPECIFICATION Spec
\* clients end, and the server then waits for the next for ever
CHECK_DEADLOCK FALSE
CONSTANTS
    Clients = {c1, c2}
    None = None
    Operands = {x, z}
    ByZero = {z}
INVARIANTS OwnAnswer EndsOnlyExplained OwesOnlyUnknown
PROPERTIES Released Detached
