---------------------------- MODULE MCRedbEngine ----------------------------
(* Two writers, up to three calls on two rows whose names run together     *)
(* without a separator.                                                    *)
EXTENDS StoreRefinement, RedbReads, TLC

MCDefinitions == [name: {"m"}, version: {1}, body: {"x", "y"}]
OneDefinition == {d \in MCDefinitions : d.body = "x"}

LOCAL Short == <<97>>
LOCAL Long == <<97, 97>>
RowA == <<Short, Long>>
RowAA == <<Long, Short>>
MCRows == {RowA, RowAA}

In(method, row, version, key, emits) ==
    [method |-> method, row |-> row, version |-> version, key |-> key, emits |-> emits]

(* First versions and second ones, with and without a key and effects. *)
MCInputs ==
    LET k == CHOOSE key \in Keys : TRUE IN
    {In("execute_transition", RowA, 1, None, 0), In("execute_transition", RowA, 1, k, 1),
     In("execute_transition", RowA, 2, k, 2), In("execute_transition", RowAA, 1, k, 0),
     In("append_transition", RowAA, 2, k, 0), In("append_transition", RowA, 1, None, 0),
     In("upsert_entity_state", RowA, 1, None, 0), In("upsert_entity_state", RowA, 2, None, 0),
     In("insert_effects", RowA, 1, None, 1), In("update_effect_status", RowA, 1, None, 0),
     In("store_machine", RowA, 1, None, 0)}

Only(method) == {i \in MCInputs : i.method = method}
MachineInputs == Only("store_machine")
UpsertInputs == Only("upsert_entity_state")
EffectInputs == {i \in Only("execute_transition") : i.emits = 2}
AppendInputs == Only("append_transition")

Symmetry == Permutations(Writers)
=============================================================================
