--------------------------- MODULE MachineBuilder ---------------------------
(***************************************************************************)
(* The fluent builder of smdb-core, one action per builder method, build() *)
(* with its validation, and then an entity that walks the built machine    *)
(* along plan_transition.  The builder accepts anything; only validate()   *)
(* stands between a careless caller and a machine the planner cannot run.  *)
(***************************************************************************)
EXTENDS StateMachine

CONSTANTS None,          \* an Option that is not set
          FromLists,     \* the from_states lists a caller passes
          GuardLists,    \* the guard lists a caller passes
          MaxStates,     \* bound: entries of the states list
          MaxRules,      \* bound: transition rules
          MaxEffects     \* bound: effect rules

ASSUME BuilderAssumption ==
    /\ None \notin StateNames
    /\ FromLists \subseteq Seq(StateNames)
    /\ GuardLists \subseteq Seq(GuardNames)
    /\ {MaxStates, MaxRules, MaxEffects} \subseteq Nat

VARIABLES builder,    \* the MachineBuilder being filled
          outcome,    \* "building", or what build() returned
          current     \* state of an entity walking the built machine, or None

vars == <<builder, outcome, current>>

Definition == [version |-> builder.version, states |-> builder.states,
               initial_state |-> builder.initial_state,
               transitions |-> builder.transitions, effects |-> builder.effects]

(* The shape of the state; a definition build() refused has no entities. *)
TypeOK ==
    /\ builder \in [named: BOOLEAN, version: Nat, states: Seq(StateNames),
                    initial_state: StateNames \cup {None},
                    transitions: Seq(TransitionRule), effects: Seq(EffectRule)]
    /\ outcome \in {"building", "Ok", "DuplicateState", "InvalidDefinition"}
    /\ current \in StateNames \cup {None}
    /\ current # None <=> outcome = "Ok"

new == [named |-> FALSE, version |-> 0, states |-> <<>>, initial_state |-> None,
        transitions |-> <<>>, effects |-> <<>>]

Init == builder = new /\ outcome = "building" /\ current = None

Building(b) == /\ outcome = "building"
               /\ builder' = b
               /\ UNCHANGED <<outcome, current>>

name == ~builder.named /\ Building([builder EXCEPT !.named = TRUE])

version == builder.version = 0 /\ Building([builder EXCEPT !.version = 1])

state(s) == /\ Len(builder.states) < MaxStates
            /\ Building([builder EXCEPT !.states = Append(@, s)])

states(ss) == /\ Len(builder.states) + Len(ss) <= MaxStates
              /\ Building([builder EXCEPT !.states = @ \o ss])

initial_state(s) == Building([builder EXCEPT !.initial_state = s])

transition_with_guards(e, from, to, guards) ==
    /\ Len(builder.transitions) < MaxRules
    /\ Building([builder EXCEPT !.transitions =
            Append(@, [event |-> e, from_states |-> from, to_state |-> to, guards |-> guards])])

transition(e, from, to) == transition_with_guards(e, from, to, <<>>)

effect(e, f) ==
    /\ Len(builder.effects) < MaxEffects
    /\ Building([builder EXCEPT !.effects = Append(@, [on_event |-> e, effect |-> f])])

(* build(): the name and the initial state are required, then validate(). *)
build ==
    /\ outcome = "building"
    /\ outcome' = IF ~builder.named \/ builder.initial_state = None
                  THEN "InvalidDefinition" ELSE validate(Definition)
    /\ current' = IF outcome' = "Ok" THEN builder.initial_state ELSE None
    /\ UNCHANGED builder

(* An entity of the built machine fires an event the planner accepts. *)
walk(e) ==
    /\ outcome = "Ok"
    /\ Planned(Definition, current, e)
    /\ current' = plan_transition(Definition, current, e).to_state
    /\ UNCHANGED <<builder, outcome>>

Next ==
    \/ name \/ version \/ build
    \/ \E s \in StateNames : state(s) \/ initial_state(s)
    \/ \E ss \in FromLists : states(ss)
    \/ \E e \in EventNames :
          \/ walk(e)
          \/ \E f \in EffectNames : effect(e, f)
          \/ \E from \in FromLists, to \in StateNames :
                \/ transition(e, from, to)
                \/ \E guards \in GuardLists : transition_with_guards(e, from, to, guards)

Spec == Init /\ [][Next]_vars

-----------------------------------------------------------------------------
(* "this lookup is always deterministic" (plan_transition): whatever       *)
(* events are fired, an entity of a machine build() accepted stays in the  *)
(* declared states, and never has two rules for one event, so the order of *)
(* the rules decides nothing and no rule shadows another.                  *)
WalksDeterministically ==
    outcome = "Ok" =>
        /\ current \in RangeOf(builder.states)
        /\ \A e \in EventNames : Cardinality(Matching(Definition, current, e)) <= 1

(* build() refuses nothing it need not: a named definition whose table is  *)
(* a partial function over distinct declared states is accepted.  The      *)
(* reference is stated over the sets of states and of (event, state, rule) *)
(* triples, not over the scan validate() makes.                            *)
AcceptsEveryPartialFunction ==
    LET S == RangeOf(builder.states)
        triples == {<<Pair(Definition, x), x>> : x \in PairPositions(Definition)}
        wellFormed ==
            /\ builder.named
            /\ Cardinality(S) = Len(builder.states)
            /\ builder.initial_state \in S
            /\ Cardinality({t[1] : t \in triples}) = Cardinality(triples)
            /\ \A t \in triples : t[1][2] \in S
            /\ {r.to_state : r \in RangeOf(builder.transitions)} \subseteq S
    IN  outcome # "building" => (wellFormed <=> outcome = "Ok")
=============================================================================
