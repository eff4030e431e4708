----------------------------- MODULE Lifecycle ------------------------------
(***************************************************************************)
(* What the engine promises a caller, with no workers, locks, projection,  *)
(* key table or restarts: one log, and one atomic step that moves one      *)
(* (entity, machine) along a rule from the state the log says it is in.    *)
(* A crash is a stuttering step: nothing committed is ever lost.           *)
(***************************************************************************)
EXTENDS StateMachine

CONSTANTS Entities, Machines, Keys, Definitions, None

VARIABLES transitions,  \* the log
          effects,      \* the outbox
          defined       \* definitions stored so far, per machine name

vars == <<transitions, effects, defined>>

Indices(o, m) ==
    {i \in DOMAIN transitions : transitions[i].entity = o /\ transitions[i].machine = m}

Latest(o, m) == {i \in Indices(o, m) : \A j \in Indices(o, m) : j <= i}

(* Where the log leaves an instance: one state and one version. *)
Positions(o, m, d) ==
    IF Indices(o, m) = {}
    THEN {[state |-> d.initial_state, version |-> 0]}
    ELSE {[state |-> transitions[i].to_state, version |-> transitions[i].version]
            : i \in Latest(o, m)}

FreshKey(k) == k # None => \A i \in DOMAIN transitions : transitions[i].key # k

Init == transitions = <<>> /\ effects = {} /\ defined = [m \in Machines |-> {}]

Commit(o, m, e, k, d) ==
    /\ d \in defined[m]
    /\ FreshKey(k)
    /\ \E at \in Positions(o, m, d) :
          /\ Planned(d, at.state, e)
          /\ transitions' = Append(transitions,
                [entity |-> o, machine |-> m, from_state |-> at.state,
                 to_state |-> plan_transition(d, at.state, e).to_state,
                 event |-> e, version |-> at.version + 1, key |-> k])
    /\ effects' = effects \cup
          {[transition |-> Len(transitions) + 1, index |-> i, effect |-> d.effects[i].effect]
              : i \in compute_effects(d, e)}
    /\ UNCHANGED defined

Define(m, d) ==
    /\ validate(d) = "Ok"
    /\ defined' = [defined EXCEPT ![m] = @ \cup {d}]
    /\ UNCHANGED <<transitions, effects>>

Next ==
    \E m \in Machines, d \in Definitions :
        \/ Define(m, d)
        \/ \E o \in Entities, e \in EventNames, k \in Keys \cup {None} : Commit(o, m, e, k, d)

Spec == Init /\ [][Next]_vars
=============================================================================
