SPECIFICATION Spec
CONSTANTS
    StateNames = {s1, s2}
    EventNames = {e1, e2}
    GuardNames = {g1}
    EffectNames = {f1}
    None = None
    FromLists <- MCFromLists
    GuardLists <- MCGuardLists
    MaxStates = 2
    MaxRules = 2
    MaxEffects = 1
SYMMETRY Symmetry
INVARIANTS WalksDeterministically AcceptsEveryPartialFunction
CHECK_DEADLOCK FALSE
