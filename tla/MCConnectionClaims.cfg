\* Each of the four is violated by itself: check one at a time.
SPECIFICATION Spec
CONSTANTS
    Callers = {a, b}
    Kinds = {"Transition", "Current", "Subscribe"}
    None = None
    MaxRetries = 1
    MaxCalls = 1
    MaxPushes = 0
INVARIANT ReadAnswersArrive
\* INVARIANT ResultsDecode
\* INVARIANT OnlyTransientRetried
\* INVARIANT DisconnectClosesChannels
CHECK_DEADLOCK FALSE
