------------------------------ MODULE MCEngine ------------------------------
(* Constants for the engine: a two-state machine, its redefinition with    *)
(* another rule and other effects, and a definition validate() refuses.    *)
EXTENDS EngineRefinement, TLC

CONSTANTS s1, s2, go, back, g1, f1, m1

Arrow(e, from, to, gs) == [event |-> e, from_states |-> from, to_state |-> to, guards |-> gs]

Original == [version |-> 1, states |-> <<s1, s2>>, initial_state |-> s1,
             transitions |-> <<Arrow(go, <<s1>>, s2, <<>>), Arrow(back, <<s2>>, s1, <<g1>>)>>,
             effects |-> <<[on_event |-> go, effect |-> f1]>>]

Redefined == [version |-> 2, states |-> <<s1, s2>>, initial_state |-> s1,
              transitions |-> <<Arrow(go, <<s1, s2>>, s1, <<>>)>>,
              effects |-> <<>>]

Refused == [Original EXCEPT !.states = <<s1>>]

MCDefinitions == {Original, Redefined, Refused}

Ask(o, e, v, k) == [entity |-> o, machine |-> m1, event |-> e, expected_version |-> v, key |-> k]

(* Plain calls, a call that expects a version, and calls that carry a key. *)
MCRequests == UNION {{Ask(o, go, None, None), Ask(o, back, None, None), Ask(o, go, 0, None)}
                     \cup {Ask(o, go, None, k) : k \in Keys} : o \in Entities}

(* A call with a key and a guarded one per entity, for failing storage. *)
FewRequests == UNION {{Ask(o, back, None, None)} \cup {Ask(o, go, None, k) : k \in Keys} : o \in Entities}
OneDefinition == {Original}

(* One stripe per instance, and all instances on one stripe. *)
OwnStripe == [em \in Instances |-> em]
OneStripe == [em \in Instances |-> "stripe"]

Symmetry == Permutations(Workers) \cup Permutations(Entities)
=============================================================================
