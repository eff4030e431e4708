SPECIFICATION Spec
CONSTANTS
    good = good
    Daemons = {d1}
    Tools = {t1}
    Clients = {c1, c2}
    Tokens = {good}
    Blank = Blank
    Launches <- MCLaunches
    None = None
    Faults = FALSE
    MaxStarts = 3
    MaxLog = 3
PROPERTY StopsGracefully
CHECK_DEADLOCK FALSE
