\* Each of the three is violated by itself: check one at a time.
SPECIFICATION Spec
CONSTANTS
    c1 = c1
    Conns = {c1}
    Scripts <- MCScripts
    MaxConnections = 1
    MaxRecords = 1
INVARIANT SessionCleansUp
\* INVARIANT ResultBeforeRecords
\* INVARIANT ErrorsAreFatal
CHECK_DEADLOCK FALSE
