------------------------------ MODULE RedbReads -----------------------------
(***************************************************************************)
(* smdb-storage: the reading methods of RedbEngine that scan a table.      *)
(* Each is an operator on the committed tables: a read transaction sees    *)
(* one snapshot of them.                                                   *)
(***************************************************************************)
EXTENDS RedbEngine, FiniteSets

(* A table's keys, in the order in which redb iterates over them: the n-th *)
(* has n - 1 before it.  InOrder is for strings, Ascending for numbers.    *)
InOrder(keys) ==
    [n \in 1..Cardinality(keys) |->
        CHOOSE k \in keys : Cardinality({j \in keys : Before(j, k)}) = n - 1]

Ascending(keys) ==
    [n \in 1..Cardinality(keys) |->
        CHOOSE k \in keys : Cardinality({j \in keys : j < k}) = n - 1]

(* Reading stops after limit rows; limit None is u32::MAX. *)
Limited(found, limit) ==
    IF limit = None \/ limit >= Len(found) THEN found ELSE SubSeq(found, 1, limit)

(* Iterates over the whole index. *)
get_history(row, limit, after) ==
    LET prefix == entity_transition_prefix(row[1], row[2])
        scan == InOrder({k \in DOMAIN db.entity_transitions :
                           starts_with(k, prefix) /\ db.entity_transitions[k] > after})
    IN Limited([n \in DOMAIN scan |-> db.entity_transitions[scan[n]]], limit)

(* The range scan from after_sequence + 1, which wraps. *)
get_transitions_after(after, limit) ==
    LET start == (after + 1) % SeqModulus
    IN Limited(Ascending({s \in DOMAIN db.transitions : s >= start}), limit)

(* The range scan from the prefix, up to the first key without it. *)
get_effects_for_transition(id) ==
    LET prefix == effect_by_txn_prefix(<<id>>)
        scan == InOrder({k \in DOMAIN db.effects_by_txn : k = prefix \/ Before(prefix, k)})
        found == {n \in DOMAIN scan : \A i \in 1..n : starts_with(scan[i], prefix)}
    IN [n \in found |-> db.effects_by_txn[scan[n]]]

(* Entities whose row has that machine and version (for its state). *)
list_entities_in_state(machine, version) ==
    {db.entity_states[k] : k \in {x \in DOMAIN db.entity_states :
        /\ contains(x, <<NUL>> \o machine)
        /\ db.entity_states[x].row[2] = machine
        /\ db.entity_states[x].version = version}}

-----------------------------------------------------------------------------
(* What the reading methods find through string keys is what the log and   *)
(* the tables hold.  A history is the records of that very row, in the     *)
(* order of the log, and its pages, each continued after the last sequence *)
(* of the one before, put together are the whole; a row's state is found   *)
(* under its key, and in the list of its machine; the tail of the log      *)
(* follows any position below the largest.                                 *)
ReadsMatchTheLog ==
    /\ \A r \in Rows, after \in 0..db.meta :
          LET own == Ascending({s \in DOMAIN db.transitions :
                                   s > after /\ db.transitions[s].row = r})
          IN /\ get_history(r, None, after) = own
             /\ \A n \in 1..MaxCalls :
                   LET page == get_history(r, n, after) IN
                   page # <<>> => page \o get_history(r, None, page[Len(page)]) = own
    /\ \A k \in DOMAIN db.entity_states :
          LET state == db.entity_states[k] IN
          k = StateKey(state.row) /\ state \in list_entities_in_state(state.row[2], state.version)
    /\ \A after \in 0..SeqModulus - 2 :
          get_transitions_after(after, MaxCalls) = Ascending(DOMAIN db.transitions \ 0..after)

(* "Return all effects emitted by a single transition, in insertion order" *)
(* (get_effects_for_transition).                                           *)
EffectsInInsertionOrder ==
    \A id \in DOMAIN db.transitions_by_id :
        LET effects == get_effects_for_transition(id) IN
        \A i, j \in DOMAIN effects :
            i < j => db.effects[effects[i]].created_at < db.effects[effects[j]].created_at

(* "Return transitions with a global sequence number strictly greater than *)
(* after_sequence" (get_transitions_after), the largest one included.      *)
TailOnly ==
    \A after \in 0..SeqModulus - 1 :
        LET tail == get_transitions_after(after, MaxCalls) IN
        \A i \in DOMAIN tail : tail[i] > after
=============================================================================
