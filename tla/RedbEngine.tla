----------------------------- MODULE RedbEngine -----------------------------
(***************************************************************************)
(* smdb-storage: RedbEngine, the embedded store.  A writing method takes   *)
(* write_lock, begins a redb write transaction (a private copy of the      *)
(* tables), changes one group of tables after the other and commits; an    *)
(* early return drops the transaction, a crash loses it.  Reading methods  *)
(* see one committed snapshot and are operators on it, in RedbReads.       *)
(*                                                                         *)
(* redb is external: a commit is atomic, durable and isolated.  The        *)
(* projection is reduced to its version.  Uuids are strings of one         *)
(* character, handed out in any order to effects.                          *)
(***************************************************************************)
EXTENDS StorageKeys, Functions

CONSTANTS Writers,      \* threads that call the store
          Rows,         \* (entity id, machine name) pairs
          Versions,     \* versions callers pass
          Keys,         \* idempotency keys
          EffectIds,    \* uuids of effects
          Definitions,  \* machine definitions: [name, version, body]
          Inputs,       \* what the methods are called with
          None,         \* an Option that is not set
          Faults,       \* whether calls into redb may fail and the process may die
          SeqModulus,   \* sequences are taken modulo this: 2^64
          MaxCalls      \* bound: writing calls

Methods == {"execute_transition", "append_transition", "upsert_entity_state",
            "insert_effects", "update_effect_status", "store_machine"}

(* A call as its caller sees it: emits is the number of effects. *)
Input == [method: Methods, row: Rows, version: Versions, key: Keys \cup {None}, emits: Nat]

ASSUME RedbAssumption ==
    /\ Inputs \subseteq Input
    /\ \A r \in Rows : r = <<r[1], r[2]>> /\ IsName(r[1]) /\ IsName(r[2])
    /\ Versions \subseteq Nat \ {0} /\ EffectIds \subseteq Nat \ {0}
    /\ Faults \in BOOLEAN /\ MaxCalls \in Nat
    /\ SeqModulus \in Nat /\ MaxCalls < SeqModulus /\ SeqModulus <= Weight[SeqWidth]
    /\ None \notin Writers \cup Keys

VARIABLES
    db,          \* the committed tables
    tx,          \* the tables as the open write transaction sees them, or NoTx
    write_lock,  \* the writer that holds it, or None
    pc, op,      \* per writer: the next step and the call being executed
    calls,       \* calls made so far
    used,        \* uuids of effects handed out
    replaced     \* history: the rows that acknowledged calls replaced

vars == <<db, tx, write_lock, pc, op, calls, used, replaced>>

-----------------------------------------------------------------------------
Put(table, key, value) ==
    [k \in DOMAIN table \cup {key} |-> IF k = key THEN value ELSE table[k]]

NoRows == [k \in {} |-> None]

(* No transaction is open: there are no tables to see. *)
NoTx == [table \in {} |-> None]

StateKey(row) == entity_state_key(row[1], row[2])
HistoryKey(row, seq) == entity_transition_key(row[1], row[2], seq)
EffectKey(transition, effect) == effect_by_txn_key(<<transition>>, <<effect>>)

(* ensure_tables on a new file; meta holds the sequence counter only. *)
ensure_tables ==
    [machines |-> NoRows, entity_states |-> NoRows, transitions |-> NoRows,
     transitions_by_id |-> NoRows, entity_transitions |-> NoRows, effects |-> NoRows,
     effects_by_txn |-> NoRows, idempotency |-> NoRows, meta |-> 0]

TransitionRecord == [id: Nat, sequence: Nat, row: Rows, version: Versions,
                     idempotency_key: Keys \cup {None}]
EntityState == [row: Rows, version: Versions]
Effect == [transition: Nat, created_at: Nat, status: {"Pending", "Published", "Failed"}]

IsTable(table, keys, values) == DOMAIN table \subseteq keys /\ \A k \in DOMAIN table : table[k] \in values

IsTables(d) ==
    /\ IsTable(d.machines, {m.name : m \in Definitions}, Definitions)
    /\ IsTable(d.entity_states, {StateKey(r) : r \in Rows}, EntityState)
    /\ IsTable(d.transitions, Nat, TransitionRecord)
    /\ IsTable(d.transitions_by_id, Nat, Nat)
    /\ IsTable(d.entity_transitions, Seq(Nat), Nat)
    /\ IsTable(d.effects, EffectIds, Effect)
    /\ IsTable(d.effects_by_txn, Seq(Nat), EffectIds)
    /\ IsTable(d.idempotency, Keys, Nat)
    /\ d.meta \in Nat

Steps == {"log", "state", "effects", "key", "machine", "status", "commit"}

(* Only the holder of write_lock is inside a transaction. *)
TypeOK ==
    /\ IsTables(db) /\ (tx # NoTx => IsTables(tx))
    /\ write_lock \in Writers \cup {None}
    /\ pc \in [Writers -> Steps \cup {"idle", "lock"}]
    /\ \A w \in Writers : pc[w] \in Steps <=> write_lock = w
    /\ write_lock = None <=> tx = NoTx
    /\ calls \in 0..MaxCalls /\ used \subseteq EffectIds

Init ==
    /\ db = ensure_tables
    /\ tx = NoTx /\ write_lock = None
    /\ pc = [w \in Writers |-> "idle"]
    /\ op = [w \in Writers |-> None]
    /\ calls = 0 /\ used = {} /\ replaced = {}

-----------------------------------------------------------------------------
(* Ids are new uuids; the record and the state passed to                   *)
(* execute_transition agree on row and version; effects are inserted for a *)
(* transition that is there, and marked by an id that was handed out.      *)
NewRecord(i) ==
    [id |-> calls + 1, sequence |-> 0, row |-> i.row, version |-> i.version,
     idempotency_key |-> i.key]

NewEffects(n) == {e \in [1..n -> EffectIds \ used] : IsInjective(e)}

CallsFor(i) ==
    CASE i.method = "execute_transition" ->
            {[method |-> i.method, record |-> NewRecord(i), effects |-> e] : e \in NewEffects(i.emits)}
      [] i.method = "append_transition" -> {[method |-> i.method, record |-> NewRecord(i)]}
      [] i.method = "upsert_entity_state" ->
            {[method |-> i.method, row |-> i.row, version |-> i.version]}
      [] i.method = "insert_effects" ->
            {[method |-> i.method, record |-> [id |-> t], effects |-> e] :
                t \in DOMAIN db.transitions_by_id, e \in NewEffects(i.emits)}
      [] i.method = "update_effect_status" ->
            {[method |-> i.method, effect |-> e, status |-> s] :
                e \in used, s \in {"Published", "Failed"}}
      [] i.method = "store_machine" -> {[method |-> i.method, machine |-> d] : d \in Definitions}

Calls == UNION {CallsFor(i) : i \in Inputs}

Call(w, o) ==
    /\ pc[w] = "idle" /\ calls < MaxCalls
    /\ calls' = calls + 1
    /\ op' = [op EXCEPT ![w] = o]
    /\ pc' = [pc EXCEPT ![w] = "lock"]
    /\ used' = used \cup IF "effects" \in DOMAIN o THEN Range(o.effects) ELSE {}
    /\ UNCHANGED <<db, tx, write_lock, replaced>>

-----------------------------------------------------------------------------
(* What each step writes.  They are stated on the tables d of the open     *)
(* transaction and the call o.                                             *)
FirstStep(o) ==
    CASE o.method \in {"execute_transition", "append_transition"} -> "log"
      [] o.method = "upsert_entity_state" -> "state"
      [] o.method = "insert_effects" -> "effects"
      [] o.method = "update_effect_status" -> "status"
      [] o.method = "store_machine" -> "machine"

CommitAfterTheLog(o, step) == "commit"

NextStep(o, step) ==
    IF o.method = "execute_transition" /\ step \in {"log", "state", "effects"}
    THEN [log |-> "state", state |-> "effects", effects |-> "key"][step]
    ELSE "commit"

next_sequence_in_tx(d) == d.meta + 1

(* The counter, the log entry and its two indexes. *)
WithoutCounting(d, r) ==
    LET seq == next_sequence_in_tx(d) IN
    [d EXCEPT !.transitions = Put(@, seq, [r EXCEPT !.sequence = seq]),
              !.transitions_by_id = Put(@, r.id, seq),
              !.entity_transitions = Put(@, HistoryKey(r.row, seq), seq)]

WithoutEntityIndex(d, r) ==
    LET seq == next_sequence_in_tx(d) IN
    [d EXCEPT !.meta = seq,
              !.transitions = Put(@, seq, [r EXCEPT !.sequence = seq]),
              !.transitions_by_id = Put(@, r.id, seq)]

WriteRecord(d, r) ==
    LET seq == next_sequence_in_tx(d) IN
    [d EXCEPT !.meta = seq,
              !.transitions = Put(@, seq, [r EXCEPT !.sequence = seq]),
              !.transitions_by_id = Put(@, r.id, seq),
              !.entity_transitions = Put(@, HistoryKey(r.row, seq), seq)]

RowOf(o) == IF o.method = "execute_transition" THEN o.record.row ELSE o.row
VersionOf(o) == IF o.method = "execute_transition" THEN o.record.version ELSE o.version

VersionConflict(d, o) ==
    /\ StateKey(RowOf(o)) \in DOMAIN d.entity_states
    /\ o.method = "upsert_entity_state" => VersionOf(o) > 1
    /\ d.entity_states[StateKey(RowOf(o))].version # VersionOf(o) - 1

WriteState(d, o) ==
    [d EXCEPT !.entity_states =
        Put(@, StateKey(RowOf(o)), [row |-> RowOf(o), version |-> VersionOf(o)])]

WriteEffects(d, o) ==
    [d EXCEPT !.effects = [e \in DOMAIN @ \cup Range(o.effects) |->
                 IF e \in Range(o.effects)
                 THEN [transition |-> o.record.id, status |-> "Pending",
                       created_at |-> CHOOSE i \in DOMAIN o.effects : o.effects[i] = e]
                 ELSE @[e]],
              !.effects_by_txn =
                 LET keys == {EffectKey(o.record.id, e) : e \in Range(o.effects)} IN
                 [k \in DOMAIN @ \cup keys |->
                     IF k \in keys
                     THEN CHOOSE e \in Range(o.effects) : EffectKey(o.record.id, e) = k
                     ELSE @[k]]]

AlreadyExists(d, o) == o.record.idempotency_key \in DOMAIN d.idempotency

WriteKey(d, o) ==
    IF o.record.idempotency_key = None THEN d
    ELSE [d EXCEPT !.idempotency = Put(@, o.record.idempotency_key, d.meta)]

WriteMachine(d, o) == [d EXCEPT !.machines = Put(@, o.machine.name, o.machine)]

NoSuchEffect(d, o) == o.effect \notin DOMAIN d.effects

WriteStatus(d, o) == [d EXCEPT !.effects[o.effect].status = o.status]

(* The step returns an error. *)
Fails(d, o, step) ==
    \/ step = "state" /\ VersionConflict(d, o)
    \/ step = "key" /\ AlreadyExists(d, o)
    \/ step = "status" /\ NoSuchEffect(d, o)

Written(d, o, step) ==
    CASE step = "log" -> WriteRecord(d, o.record)
      [] step = "state" -> WriteState(d, o)
      [] step = "effects" -> WriteEffects(d, o)
      [] step = "key" -> WriteKey(d, o)
      [] step = "machine" -> WriteMachine(d, o)
      [] step = "status" -> WriteStatus(d, o)

-----------------------------------------------------------------------------
(* write_lock.lock() and begin_write(). *)
Begin(w) ==
    /\ pc[w] = "lock"
    /\ write_lock = None
    /\ write_lock' = w
    /\ tx' = db
    /\ pc' = [pc EXCEPT ![w] = FirstStep(op[w])]
    /\ UNCHANGED <<db, op, calls, used, replaced>>

(* The method returns: the transaction and the guard are dropped. *)
ReturnHoldingTheLock(w) ==
    /\ tx' = NoTx /\ UNCHANGED write_lock
    /\ pc' = [pc EXCEPT ![w] = "idle"]
    /\ op' = [op EXCEPT ![w] = None]

Return(w) ==
    /\ tx' = NoTx /\ write_lock' = None
    /\ pc' = [pc EXCEPT ![w] = "idle"]
    /\ op' = [op EXCEPT ![w] = None]

Write(w) ==
    /\ pc[w] \in Steps \ {"commit"}
    /\ ~Fails(tx, op[w], pc[w])
    /\ tx' = Written(tx, op[w], pc[w])
    /\ pc' = [pc EXCEPT ![w] = NextStep(op[w], pc[w])]
    /\ UNCHANGED <<db, write_lock, op, calls, used, replaced>>

(* An early return: a conflict, or an error of redb. *)
Abort(w) ==
    /\ pc[w] \in Steps
    /\ Faults \/ (pc[w] # "commit" /\ Fails(tx, op[w], pc[w]))
    /\ Return(w)
    /\ UNCHANGED <<db, calls, used, replaced>>

(* The rows of db that the call replaces, with their new values. *)
Replaces(o) ==
    CASE o.method = "upsert_entity_state" ->
            {[old |-> db.entity_states[k].version, new |-> o.version] :
                k \in DOMAIN db.entity_states \cap {StateKey(o.row)}}
      [] o.method = "store_machine" ->
            {[old |-> db.machines[n], new |-> o.machine] :
                n \in DOMAIN db.machines \cap {o.machine.name}}
      [] OTHER -> {}

Commit(w) ==
    /\ pc[w] = "commit"
    /\ db' = tx
    /\ replaced' = Replaces(op[w])
    /\ Return(w)
    /\ UNCHANGED <<calls, used>>

(* The process dies; the file is opened again. *)
Crash ==
    /\ Faults
    /\ tx' = NoTx /\ write_lock' = None
    /\ pc' = [w \in Writers |-> "idle"]
    /\ op' = [w \in Writers |-> None]
    /\ UNCHANGED <<db, calls, used, replaced>>

WriterStep(w) == Begin(w) \/ Write(w) \/ Abort(w) \/ Commit(w)

Next ==
    \/ Crash
    \/ \E w \in Writers : WriterStep(w) \/ \E o \in Calls : Call(w, o)

Spec == Init /\ [][Next]_vars

-----------------------------------------------------------------------------
(* A reading method, on the committed tables.  RedbReads has the others. *)
get_transition(id) == db.transitions[db.transitions_by_id[id]]

-----------------------------------------------------------------------------
(* "monotonic, gap-free": the committed log is numbered 1, 2, ... up to    *)
(* the counter, whatever calls failed or died after taking a number.       *)
LogIsGapFree ==
    /\ DOMAIN db.transitions = 1..db.meta
    /\ \A s \in DOMAIN db.transitions : db.transitions[s].sequence = s

(* Every table that points into another points at the right row: the id    *)
(* and entity indexes cover the log exactly, an idempotency key leads to a *)
(* record committed under that key, and the effect index covers the outbox.*)
IndexesAgree ==
    /\ \A s \in DOMAIN db.transitions :
          LET r == db.transitions[s] IN
          r.id \in DOMAIN db.transitions_by_id /\ get_transition(r.id) = r
    /\ \A id \in DOMAIN db.transitions_by_id :
          /\ db.transitions_by_id[id] \in DOMAIN db.transitions
          /\ get_transition(id).id = id
    /\ db.entity_transitions =
          [k \in {HistoryKey(db.transitions[s].row, s) : s \in DOMAIN db.transitions} |->
              CHOOSE s \in DOMAIN db.transitions : HistoryKey(db.transitions[s].row, s) = k]
    /\ \A k \in DOMAIN db.idempotency :
          /\ db.idempotency[k] \in DOMAIN db.transitions
          /\ db.transitions[db.idempotency[k]].idempotency_key = k
    /\ \A e \in DOMAIN db.effects :
          LET k == EffectKey(db.effects[e].transition, e) IN
          k \in DOMAIN db.effects_by_txn /\ db.effects_by_txn[k] = e
    /\ \A k \in DOMAIN db.effects_by_txn :
          LET e == db.effects_by_txn[k] IN
          e \in DOMAIN db.effects /\ k = EffectKey(db.effects[e].transition, e)

(* "If a definition with the same (name, version) pair already exists the  *)
(* call returns StorageError::AlreadyExists" (store_machine).              *)
StoredOnce ==
    \A r \in replaced : r.new \in Definitions => r.new.version # r.old.version

(* "if a record already exists its version must equal state.version - 1,   *)
(* otherwise StorageError::VersionConflict" (upsert_entity_state).         *)
UpsertsAreNext == \A r \in replaced : r.new \in Versions => r.new = r.old + 1
=============================================================================
