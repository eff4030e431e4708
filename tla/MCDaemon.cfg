SPECIFICATION FairSpec
CONSTANTS
    good = good
    Daemons = {d1}
    Tools = {t1}
    Clients = {c1, c2}
    Tokens = {good}
    Blank = Blank
    Launches <- MCLaunches
    None = None
    Faults = TRUE
    MaxStarts = 3
    MaxLog = 3
INVARIANTS CommitsChain AnswersAreTrue ReadyMeansOpen CertificatesNeverIgnored
PROPERTY InterruptStops
CHECK_DEADLOCK FALSE
