SPECIFICATION FairSpec
CONSTANTS
    c1 = c1
    Conns = {c1, c2}
    Scripts <- MCScripts
    MaxConnections = 1
    MaxRecords = 2
INVARIANTS RepliesInOrder HandshakeFirst PermitsBalance PushesInOrder
PROPERTY SessionsEnd
CHECK_DEADLOCK FALSE
