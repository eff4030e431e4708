---------------------------- MODULE StateMachine ----------------------------
(***************************************************************************)
(* The pure planner of smdb-core: machine definitions, their structural    *)
(* validation, and the lookup that turns (definition, state, event) into   *)
(* a rule.  No state, no I/O: the engine and the builder use these         *)
(* operators.  Names are opaque; payloads and timestamps are left out.     *)
(***************************************************************************)
EXTENDS Naturals, Sequences, FiniteSets

CONSTANTS StateNames,   \* names a definition may use for states
          EventNames,   \* names of events
          GuardNames,   \* names of guards
          EffectNames   \* names of effects

RangeOf(s) == {s[i] : i \in DOMAIN s}

(* TransitionRule, EffectRule and MachineDefinition. *)
TransitionRule == [event: EventNames, from_states: Seq(StateNames),
                   to_state: StateNames, guards: Seq(GuardNames)]

EffectRule == [on_event: EventNames, effect: EffectNames]

MachineDefinition == [version: Nat, states: Seq(StateNames), initial_state: StateNames,
                      transitions: Seq(TransitionRule), effects: Seq(EffectRule)]

-----------------------------------------------------------------------------
(* The positions of the (event, from_state) pairs of a definition, in the  *)
(* order validate() inserts them in pair_seen.                             *)
PairPositions(d) ==
    UNION {{<<i, p>> : p \in DOMAIN d.transitions[i].from_states} : i \in DOMAIN d.transitions}

Pair(d, pos) == <<d.transitions[pos[1]].event, d.transitions[pos[1]].from_states[pos[2]]>>

DuplicateState(d) == \E i, j \in DOMAIN d.states : i # j /\ d.states[i] = d.states[j]

UnknownState(d) ==
    \/ d.initial_state \notin RangeOf(d.states)
    \/ \E i \in DOMAIN d.transitions :
          \/ ~(RangeOf(d.transitions[i].from_states) \subseteq RangeOf(d.states))
          \/ d.transitions[i].to_state \notin RangeOf(d.states)

DuplicateInOneRule(d) ==
    \E x, y \in PairPositions(d) : x # y /\ x[1] = y[1] /\ Pair(d, x) = Pair(d, y)

DuplicateEvent(d) ==
    \E x, y \in PairPositions(d) : x # y /\ Pair(d, x)[1] = Pair(d, y)[1]

DuplicatePair(d) ==
    \E x, y \in PairPositions(d) : x # y /\ Pair(d, x) = Pair(d, y)

(* MachineDefinition::validate: the verdict is Ok, DuplicateState or       *)
(* InvalidDefinition; duplicate states are looked for first.               *)
validate(d) ==
    IF DuplicateState(d) THEN "DuplicateState"
    ELSE IF UnknownState(d) \/ DuplicatePair(d) THEN "InvalidDefinition"
    ELSE "Ok"

-----------------------------------------------------------------------------
(* FsmPlanner::plan_transition: the first rule, in table order, for the    *)
(* event whose from_states hold the current state.  Planned is the guard   *)
(* of the Ok case; without a match the planner answers IllegalTransition.  *)
Matching(d, s, e) ==
    {i \in DOMAIN d.transitions : /\ d.transitions[i].event = e
                                  /\ s \in RangeOf(d.transitions[i].from_states)}

Planned(d, s, e) == Matching(d, s, e) # {}

plan_transition(d, s, e) ==
    d.transitions[CHOOSE i \in Matching(d, s, e) : \A j \in Matching(d, s, e) : i <= j]

(* FsmPlanner::validate_guards over the results of the registry: a guard   *)
(* that has no result counts as failed.                                    *)
validate_guards(rule, results) ==
    \A g \in RangeOf(rule.guards) : g \in DOMAIN results /\ results[g]

(* FsmPlanner::compute_effects: the positions of the effect rules that     *)
(* fire on the event, each of which becomes one outbox row.                *)
compute_effects(d, e) == {i \in DOMAIN d.effects : d.effects[i].on_event = e}
=============================================================================
