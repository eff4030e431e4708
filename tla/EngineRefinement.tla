-------------------------- MODULE EngineRefinement --------------------------
(* The engine implements Lifecycle, what it promises its callers, and uses *)
(* its storage as Store, what the storage promises it.                     *)
EXTENDS Engine

L == INSTANCE Lifecycle WITH
    transitions <- transitions, effects <- effects, defined <- defined

(* Whatever the interleaving of workers, redefinitions, failures and       *)
(* restarts, each commit of Engine::transition is one atomic, legal step   *)
(* of the instance it moves, judged against the log at that very moment    *)
(* (not against what the worker read earlier), and nothing else changes    *)
(* the log or the outbox.                                                  *)
ImplementsLifecycle == L!Spec

(* The tables of the engine's storage as the trait shows them; an outbox   *)
(* row is known by the transition and the position of its effect.          *)
Logged(r) == [row |-> InstanceOf(r), version |-> r.version, key |-> r.key]
LogRows == [i \in DOMAIN transitions |-> Logged(transitions[i])]
StateRows == [em \in {x \in Instances : entity_states[x] # NoRow} |-> entity_states[em].version]
OutboxRows == [f \in effects |-> [transition |-> f.transition, status |-> "Pending"]]
KeyRows == {k \in Keys : idempotency[k] # 0}
MachineRows == [m \in {x \in Machines : machines[x] # None} |-> machines[m]]

St == INSTANCE Store WITH
    log <- LogRows, states <- StateRows, outbox <- OutboxRows, keys <- KeyRows,
    machines <- MachineRows

(* The storage calls of the engine: the execute_transition of a worker     *)
(* with its record and its effects, and store_machine.                     *)
StorageCall ==
    \/ \E w \in Workers :
          /\ pc[w] = "execute"
          /\ St!execute_transition(Logged(RecordOf(w)),
                EffectsOf(definition[w], req[w].event, Len(transitions) + 1))
    \/ \E m \in Machines, d \in Definitions : St!store_machine(m, d)

(* All the engine does to its storage are calls that Store allows, each in *)
(* one step: a commit is the whole execute_transition of the worker that   *)
(* makes it and passes both of its checks, a definition one store_machine. *)
(* RedbEngine implements the same Store with locks, transactions, indexes  *)
(* and crashes, so what holds of the engine over atomic storage holds of   *)
(* it over redb.                                                           *)
UsesStore == St!Spec /\ [][StorageCall]_(St!vars)
=============================================================================
