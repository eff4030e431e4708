-------------------------------- MODULE Store -------------------------------
(***************************************************************************)
(* What the StorageEngine trait promises its callers: one log, the         *)
(* projection, the outbox, the recorded keys and the machines, changed by  *)
(* atomic calls.  There is no counter, no index, no lock, no transaction   *)
(* and no crash here: a crash loses nothing and leaves nothing half done.  *)
(* Records keep their row, version and idempotency key.                    *)
(***************************************************************************)
EXTENDS Naturals, Sequences

CONSTANT None       \* an Option that is not set

VARIABLES log,      \* the transition log, in sequence order
          states,   \* row -> version of its projection
          outbox,   \* effect id -> [transition: its sequence, status]
          keys,     \* idempotency keys recorded
          machines  \* name -> definition

vars == <<log, states, outbox, keys, machines>>

Init ==
    /\ log = <<>>
    /\ states = [r \in {} |-> None]
    /\ outbox = [e \in {} |-> None]
    /\ keys = {}
    /\ machines = [n \in {} |-> None]

Set(table, key, value) ==
    [k \in DOMAIN table \cup {key} |-> IF k = key THEN value ELSE table[k]]

(* The new effects of transition t, and no others, are there and pending. *)
Emits(t, new) ==
    /\ DOMAIN outbox' = DOMAIN outbox \cup new
    /\ outbox' = [e \in DOMAIN outbox' |->
          IF e \in DOMAIN outbox THEN outbox[e] ELSE [transition |-> t, status |-> "Pending"]]

-----------------------------------------------------------------------------
execute_transition(r, new) ==
    /\ r.row \in DOMAIN states => states[r.row] + 1 = r.version
    /\ r.key \notin keys
    /\ log' = Append(log, r)
    /\ states' = Set(states, r.row, r.version)
    /\ Emits(Len(log) + 1, new)
    /\ keys' = keys \cup ({r.key} \ {None})
    /\ UNCHANGED machines

append_transition(r) ==
    /\ log' = Append(log, r)
    /\ UNCHANGED <<states, outbox, keys, machines>>

(* A row is replaced by its next version, or by version 1. *)
upsert_entity_state(row, version) ==
    /\ (row \in DOMAIN states /\ version > 1) => states[row] + 1 = version
    /\ states' = Set(states, row, version)
    /\ UNCHANGED <<log, outbox, keys, machines>>

insert_effects(t, new) ==
    /\ Emits(t, new)
    /\ UNCHANGED <<log, states, keys, machines>>

update_effect_status(e, status) ==
    /\ outbox' = [outbox EXCEPT ![e].status = status]
    /\ UNCHANGED <<log, states, keys, machines>>

store_machine(name, definition) ==
    /\ machines' = Set(machines, name, definition)
    /\ UNCHANGED <<log, states, outbox, keys>>

(* What is new in the next state says what the call was given. *)
NewEffects == DOMAIN outbox' \ DOMAIN outbox

Next ==
    \/ \E i \in DOMAIN log' \ DOMAIN log :
          execute_transition(log'[i], NewEffects) \/ append_transition(log'[i])
    \/ \E row \in DOMAIN states' : upsert_entity_state(row, states'[row])
    \/ \E t \in DOMAIN log : insert_effects(t, NewEffects)
    \/ \E e \in DOMAIN outbox, status \in {"Published", "Failed"} : update_effect_status(e, status)
    \/ \E name \in DOMAIN machines' : store_machine(name, machines'[name])

Spec == Init /\ [][Next]_vars
=============================================================================
