\* Both labs: two clients; a region of four pages is refused, one of a page
\* has no room for lab 24's response.
SPECIFICATION Spec
\* with every client dead the server waits for the next for ever
CHECK_DEADLOCK FALSE
CONSTANTS
    Clients = {c1, c2}
    NoClient = NoClient
    Sizes = {1, 2, 4}
    MaxPages = 3
INVARIANTS RegionValid LeakFree CrashExplained
PROPERTIES StraysDisturbedOnly RequestServed
