-------------------------- MODULE StoreRefinement ---------------------------
(* RedbEngine implements Store: the committed tables, read without their   *)
(* indexes and their counter, are the state of the abstract store.         *)
EXTENDS RedbEngine

(* A record and an effect as the trait's callers know them. *)
Bare(r) == [row |-> r.row, version |-> r.version, key |-> r.idempotency_key]

(* The abstract store's log, projection and outbox, read off tables d. *)
LogOf(d) == [s \in 1..d.meta |-> Bare(d.transitions[s])]

StoredIn(d) == {r \in Rows : StateKey(r) \in DOMAIN d.entity_states}
StatesOf(d) == [r \in StoredIn(d) |-> d.entity_states[StateKey(r)].version]

OutboxOf(d) ==
    [e \in DOMAIN d.effects |->
        [transition |-> d.transitions_by_id[d.effects[e].transition],
         status |-> d.effects[e].status]]

Abstract == INSTANCE Store WITH
    log <- LogOf(db),
    states <- StatesOf(db),
    outbox <- OutboxOf(db),
    keys <- DOMAIN db.idempotency,
    machines <- db.machines

(* The step is call o, with its own method and arguments, and all of it. *)
Performs(o) ==
    \/ /\ o.method = "execute_transition"
       /\ Abstract!execute_transition(Bare(o.record), Range(o.effects))
    \/ /\ o.method = "append_transition"
       /\ Abstract!append_transition(Bare(o.record))
    \/ /\ o.method = "upsert_entity_state"
       /\ Abstract!upsert_entity_state(o.row, o.version)
    \/ /\ o.method = "insert_effects"
       /\ Abstract!insert_effects(db.transitions_by_id[o.record.id], Range(o.effects))
    \/ /\ o.method = "update_effect_status"
       /\ Abstract!update_effect_status(o.effect, o.status)
    \/ /\ o.method = "store_machine"
       /\ Abstract!store_machine(o.machine.name, o.machine)

(* A writer is done with its call. *)
Returns(w) == pc[w] # "idle" /\ pc'[w] = "idle"

(* "Atomically, in a single write transaction" (execute_transition), and   *)
(* the same for the other writing methods: whatever calls overlap, fail or *)
(* die in between, the committed tables change only when a call returns,   *)
(* and then by the whole of that very call, judged against the tables as   *)
(* they are at that moment: no execute_transition leaves a log entry       *)
(* behind without its state, its effects and its key.  And a call that     *)
(* returns Ok has done all it was asked for.                               *)
ImplementsStore ==
    /\ Abstract!Spec
    /\ [][\E w \in Writers : Returns(w) /\ Performs(op[w])]_db
    /\ [][\A w \in Writers : Commit(w) => Performs(op[w])]_vars
=============================================================================
