------------------------------- MODULE Engine -------------------------------
(***************************************************************************)
(* smdb-engine: Engine::transition run by concurrent blocking workers over *)
(* the storage trait, with machine (re)definition, guard registration,     *)
(* shutdown and a crash of the daemon.  A worker's step is one storage     *)
(* call or one lock operation, with the pure code that follows it; every   *)
(* storage call is one redb transaction, so it is atomic here (module      *)
(* RedbEngine opens execute_transition up).                                *)
(***************************************************************************)
EXTENDS StateMachine

CONSTANTS Workers,      \* threads that run Engine::transition
          Entities, Machines, Keys,
          Definitions,  \* definitions callers pass to define_machine
          Stripes,      \* the entity lock stripes
          StripeOf,     \* the hash of (entity, machine) modulo the stripes
          None,         \* an Option that is not set, a lock that is free
          Faults,       \* whether storage calls may fail with an I/O error
          Requests,     \* the requests callers make
          MaxLog        \* bound: no call starts once the log has this length

Instances == Entities \X Machines

Request == [entity: Entities, machine: Machines, event: EventNames,
            expected_version: Nat \cup {None}, key: Keys \cup {None}]

ASSUME EngineAssumption ==
    /\ Definitions \subseteq MachineDefinition
    /\ StripeOf \in [Instances -> Stripes]
    /\ None \notin Workers \cup Keys \cup Definitions \cup StateNames \cup Requests \cup Nat
    /\ Faults \in BOOLEAN
    /\ Requests \subseteq Request
    /\ MaxLog \in Nat

VARIABLES
    machines,       \* storage: the definition stored under each name
    entity_states,  \* storage: the projection
    transitions,    \* storage: the log, in sequence order
    effects,        \* storage: the outbox
    idempotency,    \* storage: key -> sequence, 0 when the key is unused
    defined,        \* history: every definition ever stored under a name
    entity_locks,   \* engine: the worker holding each stripe
    guards,         \* engine: names registered in the GuardRegistry
    shutdown,       \* engine: the shutdown watch
    commit_notify,  \* engine: the permit of the dispatcher's Notify
    pc, req, definition, current, reply   \* the workers

storage == <<machines, entity_states, transitions, effects, idempotency, defined>>
control == <<guards, shutdown>>
vars == <<storage, entity_locks, control, commit_notify, pc, req, definition, current, reply>>

-----------------------------------------------------------------------------
(* A row of the projection; NoRow (version 0) is the NotFound answer. *)
EntityState == [current_state: StateNames \cup {None}, version: Nat]
NoRow == [current_state |-> None, version |-> 0]

TransitionRecord == [entity: Entities, machine: Machines, from_state: StateNames,
                     to_state: StateNames, event: EventNames, version: Nat,
                     key: Keys \cup {None}]

Effect == [transition: Nat, index: Nat, effect: EffectNames]

TransitionResult == [entity: Entities, machine: Machines, from_state: StateNames,
                     to_state: StateNames, version: Nat, sequence: Nat]

Errors == {"ShuttingDown", "NotFound", "VersionConflict", "IllegalTransition",
           "GuardFailed", "StorageVersionConflict", "StorageAlreadyExists", "StorageError"}

(* What a worker's last call answered: nothing, an error, or a result. *)
Pending == [status |-> "Pending", result |-> None]
Ok(result) == [status |-> "Ok", result |-> result]
Err(e) == [status |-> e, result |-> None]
Replies == [status: Errors \cup {"Pending", "Ok"}, result: TransitionResult \cup {None}]

Inside == {"idempotency", "machine", "entity", "guards", "execute", "notify"}
Labels == Inside \cup {"idle", "lock"}

InstanceOf(r) == <<r.entity, r.machine>>
Stripe(w) == StripeOf[InstanceOf(req[w])]

(* The positions in a log of the records of one (entity, machine). *)
IndicesOf(log, em) == {i \in DOMAIN log : InstanceOf(log[i]) = em}

StorageType ==
    /\ machines \in [Machines -> Definitions \cup {None}]
    /\ entity_states \in [Instances -> EntityState]
    /\ transitions \in Seq(TransitionRecord)
    /\ effects \subseteq Effect
    /\ idempotency \in [Keys -> Nat]
    /\ defined \in [Machines -> SUBSET Definitions]

ControlType ==
    /\ guards \subseteq GuardNames
    /\ shutdown \in BOOLEAN
    /\ commit_notify \in BOOLEAN

WorkerType ==
    /\ entity_locks \in [Stripes -> Workers \cup {None}]
    /\ pc \in [Workers -> Labels]
    /\ req \in [Workers -> Requests \cup {None}]
    /\ definition \in [Workers -> Definitions \cup {None}]
    /\ current \in [Workers -> EntityState]
    /\ reply \in [Workers -> Replies]

(* A worker only computes with what it has read. *)
LocalsAreSet ==
    \A w \in Workers :
        /\ pc[w] # "idle" => req[w] # None
        /\ pc[w] \in {"entity", "guards", "execute"} => definition[w] # None
        /\ pc[w] \in {"guards", "execute"} => current[w].current_state # None
        /\ pc[w] = "notify" => reply[w].status = "Ok"
        /\ reply[w].status = "Ok" => reply[w].result \in TransitionResult

(* The shape of the state; and a worker only computes with what it has     *)
(* read: a request once called, a definition once loaded, a state once     *)
(* loaded (the Option and Result values transition() unwraps).             *)
TypeOK == StorageType /\ ControlType /\ WorkerType /\ LocalsAreSet

Init ==
    /\ machines = [m \in Machines |-> None]
    /\ entity_states = [em \in Instances |-> NoRow]
    /\ transitions = <<>>
    /\ effects = {}
    /\ idempotency = [k \in Keys |-> 0]
    /\ defined = [m \in Machines |-> {}]
    /\ entity_locks = [s \in Stripes |-> None]
    /\ guards = {}
    /\ shutdown = FALSE
    /\ commit_notify = FALSE
    /\ pc = [w \in Workers |-> "idle"]
    /\ req = [w \in Workers |-> None]
    /\ definition = [w \in Workers |-> None]
    /\ current = [w \in Workers |-> NoRow]
    /\ reply = [w \in Workers |-> Pending]

-----------------------------------------------------------------------------
(* Steps of Engine::transition.  Answer ends the call: the lock guard is   *)
(* dropped on every return path and the locals go out of scope.            *)
Goto(w, label) == pc' = [pc EXCEPT ![w] = label]

ForgetLocals(w) ==
    /\ definition' = [definition EXCEPT ![w] = None]
    /\ current' = [current EXCEPT ![w] = NoRow]

AnswerHoldingTheLock(w, answer) ==
    /\ reply' = [reply EXCEPT ![w] = answer]
    /\ Goto(w, "idle")
    /\ ForgetLocals(w)
    /\ UNCHANGED entity_locks

Answer(w, answer) ==
    /\ reply' = [reply EXCEPT ![w] = answer]
    /\ entity_locks' = [entity_locks EXCEPT ![Stripe(w)] = None]
    /\ Goto(w, "idle")
    /\ ForgetLocals(w)

ResultWithLiveVersion(i) ==
    [entity |-> transitions[i].entity, machine |-> transitions[i].machine,
     from_state |-> transitions[i].from_state, to_state |-> transitions[i].to_state,
     version |-> entity_states[InstanceOf(transitions[i])].version, sequence |-> i]

(* The TransitionResult of a recorded transition. *)
ResultOf(i) ==
    [entity |-> transitions[i].entity, machine |-> transitions[i].machine,
     from_state |-> transitions[i].from_state, to_state |-> transitions[i].to_state,
     version |-> transitions[i].version, sequence |-> i]

(* The call, and the shutdown check made before the lock is taken. *)
Call(w, r) ==
    /\ pc[w] = "idle"
    /\ Len(transitions) < MaxLog
    /\ req' = [req EXCEPT ![w] = r]
    /\ IF shutdown
       THEN reply' = [reply EXCEPT ![w] = Err("ShuttingDown")] /\ UNCHANGED pc
       ELSE reply' = [reply EXCEPT ![w] = Pending] /\ Goto(w, "lock")
    /\ UNCHANGED <<storage, entity_locks, control, commit_notify, definition, current>>

LockWithoutWaiting(w) ==
    /\ pc[w] = "lock"
    /\ entity_locks' = [entity_locks EXCEPT ![Stripe(w)] = w]
    /\ Goto(w, "idempotency")
    /\ UNCHANGED <<storage, control, commit_notify, req, definition, current, reply>>

Lock(w) ==
    /\ pc[w] = "lock"
    /\ entity_locks[Stripe(w)] = None
    /\ entity_locks' = [entity_locks EXCEPT ![Stripe(w)] = w]
    /\ Goto(w, "idempotency")
    /\ UNCHANGED <<storage, control, commit_notify, req, definition, current, reply>>

(* check_idempotency: a recorded key answers with the recorded transition; *)
(* no key, an unused key and a failed read all go on.                      *)
CheckIdempotency(w) ==
    LET key == req[w].key IN
    /\ pc[w] = "idempotency"
    /\ \/ /\ key # None /\ idempotency[key] # 0
          /\ Answer(w, Ok(ResultOf(idempotency[key])))
       \/ /\ key # None => (idempotency[key] = 0 \/ Faults)
          /\ Goto(w, "machine")
          /\ UNCHANGED <<entity_locks, definition, current, reply>>
    /\ UNCHANGED <<storage, control, commit_notify, req>>

LoadMachine(w) ==
    /\ pc[w] = "machine"
    /\ IF machines[req[w].machine] = None
       THEN Answer(w, Err("NotFound"))
       ELSE /\ definition' = [definition EXCEPT ![w] = machines[req[w].machine]]
            /\ Goto(w, "entity")
            /\ UNCHANGED <<entity_locks, current, reply>>
    /\ UNCHANGED <<storage, control, commit_notify, req>>

(* get_entity_state, then the expected_version check and plan_transition.  *)
(* An entity never seen is in the initial state with version 0.            *)
LoadedState(w) ==
    LET row == entity_states[InstanceOf(req[w])]
    IN  IF row = NoRow
        THEN [current_state |-> definition[w].initial_state, version |-> 0]
        ELSE row

OnlyFutureVersionsConflict(w) ==
    req[w].expected_version # None => req[w].expected_version <= LoadedState(w).version

ExpectedMatches(w) == req[w].expected_version \in {None, LoadedState(w).version}

LoadEntity(w) ==
    LET state == LoadedState(w)
        planned == Planned(definition[w], state.current_state, req[w].event)
    IN
    /\ pc[w] = "entity"
    /\ \/ ~ExpectedMatches(w) /\ Answer(w, Err("VersionConflict"))
       \/ ExpectedMatches(w) /\ ~planned /\ Answer(w, Err("IllegalTransition"))
       \/ /\ ExpectedMatches(w) /\ planned
          /\ current' = [current EXCEPT ![w] = state]
          /\ Goto(w, "guards")
          /\ UNCHANGED <<entity_locks, definition, reply>>
    /\ UNCHANGED <<storage, control, commit_notify, req>>

Rule(w) == plan_transition(definition[w], current[w].current_state, req[w].event)

(* GuardRegistry::evaluate on each guard of the rule: a registered guard   *)
(* answers either way, an unregistered one passes; then validate_guards.   *)
EvaluateGuards(w) ==
    /\ pc[w] = "guards"
    /\ \E results \in [RangeOf(Rule(w).guards) -> BOOLEAN] :
          /\ \A g \in DOMAIN results : g \notin guards => results[g]
          /\ IF validate_guards(Rule(w), results)
             THEN /\ Goto(w, "execute")
                  /\ UNCHANGED <<entity_locks, definition, current, reply>>
             ELSE Answer(w, Err("GuardFailed"))
    /\ UNCHANGED <<storage, control, commit_notify, req>>

(* The record, the outbox rows and the projection row that are handed to   *)
(* execute_transition.                                                     *)
RecordWithOldVersion(w) ==
    [entity |-> req[w].entity, machine |-> req[w].machine,
     from_state |-> current[w].current_state, to_state |-> Rule(w).to_state,
     event |-> req[w].event, version |-> current[w].version, key |-> req[w].key]

RecordOf(w) ==
    [entity |-> req[w].entity, machine |-> req[w].machine,
     from_state |-> current[w].current_state, to_state |-> Rule(w).to_state,
     event |-> req[w].event, version |-> current[w].version + 1, key |-> req[w].key]

EffectsOf(d, event, seq) ==
    {[transition |-> seq, index |-> i, effect |-> d.effects[i].effect]
        : i \in compute_effects(d, event)}

OutboxFromStoredMachine(w, seq) == EffectsOf(machines[req[w].machine], req[w].event, seq)

Outbox(w, seq) == EffectsOf(definition[w], req[w].event, seq)

StaleState(rec) == [current_state |-> rec.from_state, version |-> rec.version]

NewState(rec) == [current_state |-> rec.to_state, version |-> rec.version]

(* execute_transition: one write transaction, aborted by a row whose       *)
(* version is not the predecessor of the new one or by a recorded key.     *)
Conflict(rec) ==
    LET row == entity_states[InstanceOf(rec)]
    IN  row # NoRow /\ row.version + 1 # rec.version

KeyNeverClashes(key) == FALSE

KeyRecorded(key) == key # None /\ idempotency[key] # 0

Commit(w) ==
    LET rec == RecordOf(w)
        seq == Len(transitions) + 1
    IN
    /\ ~Conflict(rec)
    /\ ~KeyRecorded(rec.key)
    /\ transitions' = Append(transitions, rec)
    /\ entity_states' = [entity_states EXCEPT ![InstanceOf(rec)] = NewState(rec)]
    /\ effects' = effects \cup Outbox(w, seq)
    /\ idempotency' = [k \in Keys |-> IF k = rec.key THEN seq ELSE idempotency[k]]
    /\ reply' = [reply EXCEPT ![w] =
          Ok([entity |-> rec.entity, machine |-> rec.machine,
              from_state |-> rec.from_state, to_state |-> rec.to_state,
              version |-> rec.version, sequence |-> seq])]
    /\ Goto(w, "notify")
    /\ UNCHANGED <<machines, defined, entity_locks, definition, current>>

Abort(w) ==
    /\ \/ Conflict(RecordOf(w)) /\ Answer(w, Err("StorageVersionConflict"))
       \/ /\ ~Conflict(RecordOf(w)) /\ KeyRecorded(req[w].key)
          /\ Answer(w, Err("StorageAlreadyExists"))
    /\ UNCHANGED storage

Execute(w) ==
    /\ pc[w] = "execute"
    /\ Commit(w) \/ Abort(w)
    /\ UNCHANGED <<control, commit_notify, req>>

(* commit_notify.notify_one(), then the return that releases the lock. *)
Notify(w) ==
    /\ pc[w] = "notify"
    /\ commit_notify' = TRUE
    /\ Answer(w, reply[w])
    /\ UNCHANGED <<storage, control, req>>

(* A storage call returns an I/O error: the ? operator ends the call. *)
StorageFails(w) ==
    /\ Faults
    /\ pc[w] \in {"machine", "entity", "execute"}
    /\ Answer(w, Err("StorageError"))
    /\ UNCHANGED <<storage, control, commit_notify, req>>

-----------------------------------------------------------------------------
(* The other entry points of the engine, and the end of the process.       *)
define_machine(m, d) ==
    /\ validate(d) = "Ok"
    /\ machines' = [machines EXCEPT ![m] = d]
    /\ defined' = [defined EXCEPT ![m] = @ \cup {d}]
    /\ UNCHANGED <<entity_states, transitions, effects, idempotency, entity_locks, control,
                   commit_notify, pc, req, definition, current, reply>>

register_guard(g) ==
    /\ guards' = guards \cup {g}
    /\ UNCHANGED <<storage, entity_locks, shutdown, commit_notify,
                   pc, req, definition, current, reply>>

Shutdown ==
    /\ shutdown' = TRUE
    /\ UNCHANGED <<storage, entity_locks, guards, commit_notify,
                   pc, req, definition, current, reply>>

(* The daemon dies and Engine::new starts over the same database: locks,   *)
(* guards, permits, calls and their answers are gone, storage is not.      *)
Restart ==
    /\ entity_locks' = [s \in Stripes |-> None]
    /\ guards' = {}
    /\ shutdown' = FALSE
    /\ commit_notify' = FALSE
    /\ pc' = [w \in Workers |-> "idle"]
    /\ req' = [w \in Workers |-> None]
    /\ definition' = [w \in Workers |-> None]
    /\ current' = [w \in Workers |-> NoRow]
    /\ reply' = [w \in Workers |-> Pending]
    /\ UNCHANGED storage

WorkerStep(w) ==
    \/ Lock(w) \/ CheckIdempotency(w) \/ LoadMachine(w) \/ LoadEntity(w)
    \/ EvaluateGuards(w) \/ Execute(w) \/ Notify(w) \/ StorageFails(w)

Next ==
    \/ \E w \in Workers : WorkerStep(w) \/ \E r \in Requests : Call(w, r)
    \/ \E m \in Machines, d \in Definitions : define_machine(m, d)
    \/ \E g \in GuardNames : register_guard(g)
    \/ Shutdown
    \/ Restart

Spec == Init /\ [][Next]_vars

(* Threads keep running, and parking_lot hands a contended mutex on: a     *)
(* worker that waits for a stripe again and again free gets it in the end. *)
Fairness == \A w \in Workers : WF_vars(WorkerStep(w)) /\ SF_vars(Lock(w))

FairSpec == Spec /\ Fairness

-----------------------------------------------------------------------------
(* The projection is the log, folded: for every (entity, machine) the row  *)
(* is absent when the log has no record of it, and otherwise holds the     *)
(* target state and the version of the latest record, across aborted       *)
(* transactions and restarts (execute_transition writes both or none).     *)
ProjectionInLockstep ==
    \A em \in Instances :
        \/ IndicesOf(transitions, em) = {} /\ entity_states[em] = NoRow
        \/ \E i \in IndicesOf(transitions, em) :
              /\ \A j \in IndicesOf(transitions, em) : j <= i
              /\ entity_states[em] = [current_state |-> transitions[i].to_state,
                                      version |-> transitions[i].version]

(* The records of one (entity, machine) form a chain: the first has        *)
(* version 1, and each later one starts in the state its predecessor ended *)
(* in, with the next version.  Two workers that read the same row and both *)
(* commit would fork the chain.                                            *)
LifecycleIsAChain ==
    \A j \in DOMAIN transitions :
        LET earlier == {i \in IndicesOf(transitions, InstanceOf(transitions[j])) : i < j}
        IN  \/ earlier = {} /\ transitions[j].version = 1
            \/ \E i \in earlier :
                  /\ \A h \in earlier : h <= i
                  /\ transitions[j].version = transitions[i].version + 1
                  /\ transitions[j].from_state = transitions[i].to_state

(* At most one transition is ever committed under an idempotency key, by   *)
(* any mix of concurrent calls, failed reads, retries and restarts, and    *)
(* the key table points at exactly that transition, never past the log.    *)
KeyCommitsOnce ==
    \A k \in Keys :
        /\ idempotency[k] # 0 => idempotency[k] \in DOMAIN transitions
        /\ \A i \in DOMAIN transitions : transitions[i].key = k <=> idempotency[k] = i

(* Every record moved along a rule of one definition that was stored for   *)
(* its machine, and its outbox rows are exactly the effects that same      *)
(* definition declares for the event, even when the machine was redefined  *)
(* while the call was running; no outbox row is without its record.        *)
OneDefinitionPerRecord ==
    /\ \A f \in effects : f.transition \in DOMAIN transitions
    /\ \A i \in DOMAIN transitions :
          LET r == transitions[i] IN
          \E d \in defined[r.machine] :
              /\ \E n \in Matching(d, r.from_state, r.event) :
                    d.transitions[n].to_state = r.to_state
              /\ {f \in effects : f.transition = i} = EffectsOf(d, r.event, i)

(* An Ok answer describes a committed record, for a replayed key as well   *)
(* as for a fresh commit: the sequence it names is in the log and holds    *)
(* the instance, the states and the version it reports.                    *)
OkIsCommitted ==
    \A w \in Workers : reply[w].status = "Ok" =>
        LET res == reply[w].result IN
        /\ res.sequence \in DOMAIN transitions
        /\ LET r == transitions[res.sequence] IN
              /\ InstanceOf(r) = InstanceOf(res)
              /\ r.from_state = res.from_state
              /\ r.to_state = res.to_state
              /\ r.version = res.version

(* Optimistic concurrency: an Ok answer to a call without a key that gave  *)
(* an expected version is the very next version of that instance, so of    *)
(* the callers that read one version at most one succeeds.                 *)
ExpectedVersionHonoured ==
    \A w \in Workers :
        (reply[w].status = "Ok" /\ req[w].key = None /\ req[w].expected_version # None) =>
            /\ reply[w].result.version = req[w].expected_version + 1
            /\ InstanceOf(reply[w].result) = InstanceOf(req[w])

(* A worker past the lock holds its stripe, and every stripe held by a     *)
(* worker past the lock is held by that worker alone.                      *)
HoldsItsStripe == \A w \in Workers : pc[w] \in Inside => entity_locks[Stripe(w)] = w

(* Definitions come from the table: the stored one, and those in use. *)
DefinitionsWereStored ==
    /\ \A m \in Machines : machines[m] # None => machines[m] \in defined[m]
    /\ \A w \in Workers : pc[w] \in {"entity", "guards", "execute"} =>
          definition[w] \in defined[req[w].machine]

(* What a worker read under its stripe is still true when it commits: no   *)
(* other call moves the instance between get_entity_state and              *)
(* execute_transition, guards and redefinitions in between included.       *)
ReadsAreCurrent ==
    \A w \in Workers : pc[w] \in {"guards", "execute"} =>
        /\ current[w] = LoadedState(w)
        /\ Planned(definition[w], current[w].current_state, req[w].event)

(* The stripe lock makes the version check of the storage layer redundant: *)
(* no call is ever answered with the conflict of execute_transition.       *)
StripeLockSuffices == \A w \in Workers : reply[w].status # "StorageVersionConflict"

(* "two concurrent retries carrying the same key cannot both miss it": as  *)
(* long as reads do not fail, the storage layer refuses a key only to a    *)
(* call for another (entity, machine) than the one that recorded it.       *)
RetriesNeverCollide ==
    \A w \in Workers :
        (reply[w].status = "StorageAlreadyExists" /\ ~Faults) =>
            /\ idempotency[req[w].key] # 0
            /\ InstanceOf(transitions[idempotency[req[w].key]]) # InstanceOf(req[w])

(* No step, a restart included, rewrites or drops a committed record, a    *)
(* recorded key or an outbox row.                                          *)
CommittedStays ==
    [][/\ Len(transitions') >= Len(transitions)
       /\ \A i \in DOMAIN transitions : transitions'[i] = transitions[i]
       /\ \A k \in Keys : idempotency[k] # 0 => idempotency'[k] = idempotency[k]
       /\ effects \subseteq effects']_vars

(* Every call returns: no return path keeps a stripe locked, and no worker *)
(* waits for ever on one.                                                  *)
CallsReturn == \A w \in Workers : pc[w] # "idle" ~> pc[w] = "idle"

(* PROTOCOL.md, duplicate_idempotency_key: a key that matches a previous   *)
(* transition on a different entity and event is rejected.                 *)
KeyReuseRejected ==
    \A w \in Workers : (reply[w].status = "Ok" /\ pc[w] = "idle") =>
        InstanceOf(reply[w].result) = InstanceOf(req[w])
=============================================================================
