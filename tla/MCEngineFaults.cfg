SPECIFICATION FairSpec
CONSTANTS
    s1 = s1  s2 = s2  go = go  back = back  g1 = g1  f1 = f1  m1 = m1
    StateNames = {s1, s2}
    EventNames = {go, back}
    GuardNames = {g1}
    EffectNames = {f1}
    Workers = {w1, w2}
    Entities = {o1, o2}
    Machines = {m1}
    Keys = {k1}
    Definitions <- OneDefinition
    Stripes = {"stripe"}
    StripeOf <- OneStripe
    None = None
    Faults = TRUE
    Requests <- FewRequests
    MaxLog = 2
INVARIANT KeyCommitsOnce
PROPERTY CallsReturn
