---------------------------- MODULE EngineProofs ----------------------------
(***************************************************************************)
(* Proofs that the engine keeps its storage consistent for any sets of     *)
(* workers, entities, machines, keys, definitions and requests, and any    *)
(* assignment of instances to lock stripes: the facts about sequences, the *)
(* planner and the values a worker computes, the preservation of the type  *)
(* invariant, then of each safety invariant, what is answered, and that    *)
(* the engine implements Lifecycle and uses its storage as Store.          *)
(***************************************************************************)
EXTENDS EngineRefinement, WellFoundedInduction, TLAPS

(* How a leaf that names no prover is tried; a leaf that needs SMT says so. *)
USE ZenonT(30), SMTT(30)

(* A non-empty set of naturals has a least element. *)
LEMMA LeastElement ==
    ASSUME NEW T, T \subseteq Nat, T # {}
    PROVE  \E x \in T : \A y \in T : x <= y
<1>1. PICK x \in T : \A y \in T : ~(<<y, x>> \in OpToRel(<, Nat))
  BY NatLessThanWellFounded, WFMin
<1>2. \A y \in T : ~(y < x)
  BY <1>1 DEF OpToRel
<1>3. QED
  BY <1>2, SMTT(30)

(* A sequence is a function on 1..Len; an index names one of its elements. *)
LEMMA SequenceDomain ==
    ASSUME NEW S, NEW s \in Seq(S)
    PROVE  Len(s) \in Nat /\ DOMAIN s = 1..Len(s)
OBVIOUS

LEMMA SequenceElement ==
    ASSUME NEW S, NEW s \in Seq(S), NEW i \in DOMAIN s
    PROVE  i \in Nat /\ i \in 1..Len(s) /\ s[i] \in S
OBVIOUS

(* Append keeps what was there and puts the new element last. *)
LEMMA SequenceAppend ==
    ASSUME NEW S, NEW s \in Seq(S), NEW x \in S
    PROVE  /\ Append(s, x) \in Seq(S) /\ Len(Append(s, x)) = Len(s) + 1
           /\ \A i \in 1..Len(s) : Append(s, x)[i] = s[i]
           /\ Append(s, x)[Len(s) + 1] = x
OBVIOUS

(* The planner answers with a rule of the table, for this state and event. *)
LEMMA PlanIsARule ==
    ASSUME NEW d \in MachineDefinition, NEW s, NEW e, Planned(d, s, e)
    PROVE  /\ \E n \in Matching(d, s, e) : plan_transition(d, s, e) = d.transitions[n]
           /\ plan_transition(d, s, e) \in TransitionRule
<1> DEFINE M == Matching(d, s, e)
<1>1. /\ d.transitions \in Seq(TransitionRule)
      /\ M \subseteq DOMAIN d.transitions
  BY DEF Matching, MachineDefinition
<1>2. M \subseteq Nat /\ M # {}
  BY <1>1, SequenceDomain, SMTT(30) DEF Planned
<1>3. \E i \in M : \A j \in M : i <= j
  BY <1>2, LeastElement
<1>4. PICK n \in M : plan_transition(d, s, e) = d.transitions[n]
  BY <1>3 DEF plan_transition
<1>5. d.transitions[n] \in TransitionRule
  BY <1>1, <1>4, SequenceElement, SequenceDomain
<1>6. QED
  BY <1>4, <1>5
-----------------------------------------------------------------------------
(* The strengthening that makes the safety invariants inductive: who holds *)
(* the stripes, and that what a worker read is still so.                   *)
Consistent ==
    /\ TypeOK
    /\ HoldsItsStripe
    /\ DefinitionsWereStored
    /\ ReadsAreCurrent
    /\ ProjectionInLockstep
    /\ LifecycleIsAChain
    /\ KeyCommitsOnce

(* Every way out of transition() leaves the worker well typed. *)
LEMMA AnswerTypes ==
    ASSUME WorkerType, LocalsAreSet, NEW w \in Workers, pc[w] # "idle", NEW a \in Replies,
           a.status = "Ok" => a.result \in TransitionResult, Answer(w, a), req' = req
    PROVE  WorkerType' /\ LocalsAreSet'
<1>1. InstanceOf(req[w]) \in Instances
  BY EngineAssumption DEF WorkerType, LocalsAreSet, InstanceOf, Instances, Request
<1>2. WorkerType'
  BY <1>1, EngineAssumption
  DEF WorkerType, Answer, ForgetLocals, Goto, Labels, Inside, EntityState, NoRow, Stripe
<1>3. LocalsAreSet'
  BY DEF WorkerType, LocalsAreSet, Answer, ForgetLocals, Goto
<1>4. QED
  BY <1>2, <1>3

(* Every error transition() returns is a well-typed reply. *)
LEMMA ErrIsAReply ==
    ASSUME NEW e \in Errors
    PROVE  Err(e) \in Replies /\ Err(e).status # "Ok"
BY DEF Err, Errors, Replies

(* The result replayed for a recorded key is a TransitionResult. *)
LEMMA ResultTypes ==
    ASSUME StorageType, NEW i \in DOMAIN transitions
    PROVE  /\ transitions[i] \in TransitionRecord
           /\ i \in Nat
           /\ ResultOf(i) \in TransitionResult
           /\ Ok(ResultOf(i)) \in Replies
           /\ Ok(ResultOf(i)).result = ResultOf(i)
<1>1. transitions[i] \in TransitionRecord /\ i \in Nat
  BY SequenceElement, SequenceDomain DEF StorageType
<1>2. ResultOf(i) \in TransitionResult
  BY <1>1 DEF ResultOf, TransitionResult, TransitionRecord
<1>3. QED
  BY <1>1, <1>2 DEF Ok, Replies

(* The state a worker loads is a declared one, and the record it builds    *)
(* from it is well typed.                                                  *)
LEMMA LoadedTypes ==
    ASSUME TypeOK, ProjectionInLockstep, NEW w \in Workers, pc[w] # "idle",
           definition[w] \in Definitions
    PROVE  /\ LoadedState(w) \in [current_state: StateNames, version: Nat]
           /\ InstanceOf(req[w]) \in Instances
           /\ definition[w] \in MachineDefinition
<1>1. /\ InstanceOf(req[w]) \in Instances
      /\ definition[w] \in MachineDefinition
  BY EngineAssumption DEF TypeOK, WorkerType, LocalsAreSet, InstanceOf, Instances, Request
<1> DEFINE em == InstanceOf(req[w])
<1>2. CASE entity_states[em] = NoRow
  BY <1>1, <1>2 DEF LoadedState, MachineDefinition
<1>3. CASE entity_states[em] # NoRow
  <2>1. PICK i \in DOMAIN transitions :
            entity_states[em] = [current_state |-> transitions[i].to_state,
                                 version |-> transitions[i].version]
    BY <1>1, <1>3 DEF ProjectionInLockstep, IndicesOf
  <2>2. transitions[i] \in TransitionRecord
    BY <2>1, ResultTypes DEF TypeOK
  <2>3. entity_states[em] \in [current_state: StateNames, version: Nat]
    BY <2>1, <2>2, SMTT(30) DEF TransitionRecord
  <2>4. QED
    BY <1>1, <1>3, <2>3 DEF LoadedState
<1>4. QED
  BY <1>1, <1>2, <1>3

(* The record a worker builds from what it read is well typed. *)
LEMMA RecordTypes ==
    ASSUME TypeOK, ProjectionInLockstep, ReadsAreCurrent, NEW w \in Workers, pc[w] = "execute"
    PROVE  /\ RecordOf(w) \in TransitionRecord
           /\ InstanceOf(RecordOf(w)) = InstanceOf(req[w])
           /\ InstanceOf(req[w]) \in Instances
           /\ definition[w] \in MachineDefinition
<1>1. definition[w] \in Definitions
  BY DEF TypeOK, WorkerType, LocalsAreSet
<1>2. /\ current[w] \in [current_state: StateNames, version: Nat]
      /\ InstanceOf(req[w]) \in Instances
      /\ definition[w] \in MachineDefinition
  BY <1>1, LoadedTypes DEF ReadsAreCurrent
<1>3. Rule(w) \in TransitionRule
  BY <1>2, PlanIsARule DEF Rule, ReadsAreCurrent
<1>4. req[w] \in Request
  BY EngineAssumption DEF TypeOK, WorkerType, LocalsAreSet
<1>5. RecordOf(w) \in TransitionRecord
  BY <1>2, <1>3, <1>4, SMTT(30) DEF RecordOf, TransitionRecord, TransitionRule, Request
<1>6. QED
  BY <1>2, <1>5 DEF RecordOf, InstanceOf

(* Every step of Engine preserves the type invariant. *)
LEMMA TypeStep ==
    ASSUME Consistent, [Next]_vars
    PROVE  TypeOK'
<1> USE DEF Consistent
<1>1. ASSUME UNCHANGED vars PROVE TypeOK'
  BY <1>1 DEF TypeOK, StorageType, ControlType, WorkerType, LocalsAreSet, vars, storage, control
<1>2. ASSUME NEW w \in Workers, NEW r \in Requests, Call(w, r) PROVE TypeOK'
  <2>1. StorageType' /\ ControlType'
    BY <1>2 DEF TypeOK, StorageType, ControlType, Call, storage, control
  <2>2. /\ reply' \in [Workers -> Replies] /\ pc' \in [Workers -> Labels]
        /\ reply'[w].status # "Ok"
        /\ \A v \in Workers \ {w} : reply'[v] = reply[v] /\ pc'[v] = pc[v] /\ req'[v] = req[v]
        /\ req'[w] = r /\ pc'[w] \in {"idle", "lock"}
    <3>1. PICK a \in Replies : a.status # "Ok" /\ reply' = [reply EXCEPT ![w] = a]
      <4>1. Pending \in Replies /\ Pending.status # "Ok"
        BY DEF Pending, Replies
      <4>2. Err("ShuttingDown") \in Replies /\ Err("ShuttingDown").status # "Ok"
        BY ErrIsAReply DEF Errors
      <4>3. QED
        BY <1>2, <4>1, <4>2 DEF Call
    <3>2. /\ pc' \in [Workers -> Labels] /\ pc'[w] \in {"idle", "lock"}
          /\ \A v \in Workers \ {w} : pc'[v] = pc[v]
      BY <1>2 DEF TypeOK, WorkerType, Call, Goto, Labels
    <3>3. req'[w] = r /\ \A v \in Workers \ {w} : req'[v] = req[v]
      BY <1>2 DEF TypeOK, WorkerType, Call
    <3>4. QED
      BY <3>1, <3>2, <3>3 DEF TypeOK, WorkerType
  <2>3. WorkerType'
    BY <1>2, <2>2 DEF TypeOK, WorkerType, Call
  <2>4. LocalsAreSet'
    BY <1>2, <2>2, EngineAssumption, SMTT(30) DEF TypeOK, LocalsAreSet, Call
  <2>5. QED
    BY <2>1, <2>3, <2>4 DEF TypeOK
<1>3. ASSUME NEW w \in Workers, WorkerStep(w) PROVE TypeOK'
  <2> DEFINE Rest == UNCHANGED <<storage, control, commit_notify, req>>
  <2>1. ASSUME Rest PROVE StorageType' /\ ControlType'
    BY <2>1 DEF TypeOK, StorageType, ControlType, storage, control
  <2>2. ASSUME Rest, pc[w] # "idle", NEW a \in Replies, Answer(w, a),
               a.status = "Ok" => a.result \in TransitionResult
        PROVE  TypeOK'
    BY <2>1, <2>2, AnswerTypes DEF TypeOK
  <2>3. ASSUME Rest, pc[w] # "idle", NEW e \in Errors, Answer(w, Err(e)) PROVE TypeOK'
    BY <2>2, <2>3, ErrIsAReply
  <2>4. CASE Lock(w)
    <3>1. InstanceOf(req[w]) \in Instances
      BY <2>4, EngineAssumption, SMTT(30)
      DEF Lock, TypeOK, WorkerType, LocalsAreSet, InstanceOf, Instances, Request
    <3>2. WorkerType'
      BY <2>4, <3>1, EngineAssumption
      DEF Lock, TypeOK, WorkerType, Goto, Labels, Inside, Stripe
    <3>3. LocalsAreSet'
      BY <2>4 DEF Lock, TypeOK, WorkerType, LocalsAreSet, Goto
    <3>4. StorageType' /\ ControlType'
      BY <2>1, <2>4 DEF Lock
    <3>5. QED
      BY <3>2, <3>3, <3>4 DEF TypeOK
  <2>5. CASE CheckIdempotency(w)
    <3>1. CASE /\ req[w].key # None /\ idempotency[req[w].key] # 0
               /\ Answer(w, Ok(ResultOf(idempotency[req[w].key])))
      <4>1. req[w].key \in Keys
        BY <2>5, <3>1, EngineAssumption
        DEF CheckIdempotency, TypeOK, WorkerType, LocalsAreSet, Request
      <4>2. idempotency[req[w].key] \in DOMAIN transitions
        BY <3>1, <4>1 DEF KeyCommitsOnce
      <4>3. QED
        BY <2>2, <2>5, <3>1, <4>2, ResultTypes DEF CheckIdempotency, TypeOK
    <3>2. CASE /\ Goto(w, "machine")
               /\ UNCHANGED <<entity_locks, definition, current, reply>>
      <4>1. WorkerType' /\ LocalsAreSet'
        BY <2>5, <3>2
        DEF CheckIdempotency, TypeOK, WorkerType, LocalsAreSet, Goto, Labels, Inside
      <4>2. QED
        BY <2>1, <2>5, <4>1 DEF CheckIdempotency, TypeOK
    <3>3. QED
      BY <2>5, <3>1, <3>2 DEF CheckIdempotency
  <2>6. CASE LoadMachine(w)
    <3>1. CASE machines[req[w].machine] = None
      BY <2>3, <2>6, <3>1 DEF LoadMachine, Errors
    <3>2. CASE machines[req[w].machine] # None
      <4>1. machines[req[w].machine] \in Definitions
        BY <2>6, <3>2, EngineAssumption
        DEF LoadMachine, TypeOK, StorageType, WorkerType, LocalsAreSet, Request
      <4>2. WorkerType' /\ LocalsAreSet'
        BY <2>6, <3>2, <4>1, SMTT(30)
        DEF LoadMachine, TypeOK, WorkerType, LocalsAreSet, Goto, Labels, Inside
      <4>3. QED
        BY <2>1, <2>6, <4>2 DEF LoadMachine, TypeOK
    <3>3. QED
      BY <3>1, <3>2
  <2>7. CASE LoadEntity(w)
    <3>1. CASE Answer(w, Err("VersionConflict"))
      BY <2>3, <2>7, <3>1 DEF LoadEntity, Errors
    <3>2. CASE Answer(w, Err("IllegalTransition"))
      BY <2>3, <2>7, <3>2 DEF LoadEntity, Errors
    <3>3. CASE /\ current' = [current EXCEPT ![w] = LoadedState(w)]
               /\ Goto(w, "guards")
               /\ UNCHANGED <<entity_locks, definition, reply>>
      <4>1. LoadedState(w) \in [current_state: StateNames, version: Nat]
        <5>1. pc[w] = "entity"
          BY <2>7 DEF LoadEntity
        <5>2. definition[w] \in Definitions
          BY <5>1 DEF TypeOK, WorkerType, LocalsAreSet
        <5>3. QED
          BY <5>1, <5>2, LoadedTypes
      <4>2. LoadedState(w) \in EntityState /\ LoadedState(w).current_state # None
        BY <4>1, EngineAssumption DEF EntityState
      <4>3. WorkerType' /\ LocalsAreSet'
        BY <2>7, <3>3, <4>2
        DEF LoadEntity, TypeOK, WorkerType, LocalsAreSet, Goto, Labels, Inside
      <4>4. QED
        BY <2>1, <2>7, <4>3 DEF LoadEntity, TypeOK
    <3>4. QED
      BY <2>7, <3>1, <3>2, <3>3 DEF LoadEntity
  <2>8. CASE EvaluateGuards(w)
    <3>1. CASE Answer(w, Err("GuardFailed"))
      BY <2>3, <2>8, <3>1 DEF EvaluateGuards, Errors
    <3>2. CASE /\ Goto(w, "execute")
               /\ UNCHANGED <<entity_locks, definition, current, reply>>
      <4>1. WorkerType' /\ LocalsAreSet'
        BY <2>8, <3>2
        DEF EvaluateGuards, TypeOK, WorkerType, LocalsAreSet, Goto, Labels, Inside
      <4>2. QED
        BY <2>1, <2>8, <4>1 DEF EvaluateGuards, TypeOK
    <3>3. QED
      BY <2>8, <3>1, <3>2 DEF EvaluateGuards
  <2>9. CASE Execute(w)
    <3>1. CASE Abort(w)
      <4>1. PICK e \in Errors : Answer(w, Err(e))
        BY <3>1 DEF Abort, Errors
      <4>2. QED
        BY <2>3, <2>9, <3>1, <4>1 DEF Execute, Abort
    <3>2. CASE Commit(w)
      <4>1. /\ RecordOf(w) \in TransitionRecord
            /\ InstanceOf(RecordOf(w)) \in Instances
            /\ definition[w] \in MachineDefinition
        BY <2>9, RecordTypes DEF Execute
      <4>2. Len(transitions) \in Nat /\ Append(transitions, RecordOf(w)) \in Seq(TransitionRecord)
        BY <4>1, SequenceAppend, SequenceDomain DEF TypeOK, StorageType
      <4>3. NewState(RecordOf(w)) \in EntityState
        BY <4>1 DEF NewState, EntityState, TransitionRecord
      <4>4. Outbox(w, Len(transitions) + 1) \subseteq Effect
        <5>1. definition[w].effects \in Seq(EffectRule)
          BY <4>1 DEF MachineDefinition
        <5>2. \A i \in DOMAIN definition[w].effects :
                  i \in Nat /\ definition[w].effects[i].effect \in EffectNames
          <6>1. \A i \in DOMAIN definition[w].effects :
                    i \in Nat /\ definition[w].effects[i] \in EffectRule
            BY <5>1, SequenceElement
          <6>2. QED
            BY <6>1 DEF EffectRule
        <5>3. ASSUME NEW f \in Outbox(w, Len(transitions) + 1) PROVE f \in Effect
          <6>1. PICK i \in DOMAIN definition[w].effects :
                    f = [transition |-> Len(transitions) + 1, index |-> i,
                         effect |-> definition[w].effects[i].effect]
            BY <5>3 DEF Outbox, EffectsOf, compute_effects
          <6>2. QED
            BY <4>2, <5>2, <6>1, SMTT(30) DEF Effect
        <5>4. QED
          BY <5>3
      <4>5. StorageType'
        BY <3>2, <4>1, <4>2, <4>3, <4>4, SMTT(30) DEF Commit, TypeOK, StorageType
      <4>6. ControlType'
        BY <2>9 DEF Execute, TypeOK, ControlType, control
      <4>7. reply'[w].status = "Ok" /\ reply'[w].result \in TransitionResult
        BY <3>2, <4>1, <4>2, SMTT(30)
        DEF Commit, TypeOK, WorkerType, Ok, TransitionRecord, TransitionResult
      <4>8. WorkerType' /\ LocalsAreSet'
        <5>1. reply' \in [Workers -> Replies] /\ \A v \in Workers \ {w} : reply'[v] = reply[v]
          BY <3>2, <4>1, <4>2, SMTT(30)
          DEF Commit, TypeOK, WorkerType, Ok, TransitionRecord, TransitionResult, Replies
        <5>2. QED
          BY <2>9, <3>2, <4>7, <5>1
          DEF Execute, Commit, TypeOK, WorkerType, LocalsAreSet, Goto, Labels, Inside
      <4>9. QED
        BY <4>5, <4>6, <4>8 DEF TypeOK
    <3>3. QED
      BY <2>9, <3>1, <3>2 DEF Execute
  <2>10. CASE Notify(w)
    <3>1. reply[w] \in Replies /\ (reply[w].status = "Ok" => reply[w].result \in TransitionResult)
      BY DEF TypeOK, WorkerType, LocalsAreSet
    <3>2. WorkerType' /\ LocalsAreSet'
      BY <2>10, <3>1, AnswerTypes DEF Notify, TypeOK
    <3>3. StorageType' /\ ControlType'
      BY <2>10 DEF Notify, TypeOK, StorageType, ControlType, storage, control
    <3>4. QED
      BY <3>2, <3>3 DEF TypeOK
  <2>11. CASE StorageFails(w)
    BY <2>3, <2>11 DEF StorageFails, Errors
  <2>12. QED
    BY <1>3, <2>4, <2>5, <2>6, <2>7, <2>8, <2>9, <2>10, <2>11 DEF WorkerStep
<1>4. ASSUME NEW m \in Machines, NEW d \in Definitions, define_machine(m, d) PROVE TypeOK'
  <2>1. StorageType'
    BY <1>4 DEF define_machine, TypeOK, StorageType
  <2>2. ControlType' /\ WorkerType' /\ LocalsAreSet'
    BY <1>4 DEF define_machine, TypeOK, ControlType, WorkerType, LocalsAreSet, control
  <2>3. QED
    BY <2>1, <2>2 DEF TypeOK
<1>5. ASSUME NEW g \in GuardNames, register_guard(g) PROVE TypeOK'
  BY <1>5 DEF register_guard, TypeOK, StorageType, ControlType, WorkerType, LocalsAreSet, storage
<1>6. ASSUME Shutdown PROVE TypeOK'
  BY <1>6 DEF Shutdown, TypeOK, StorageType, ControlType, WorkerType, LocalsAreSet, storage
<1>7. ASSUME Restart PROVE TypeOK'
  BY <1>7 DEF Restart, TypeOK, StorageType, ControlType, WorkerType, LocalsAreSet, storage,
              Labels, EntityState, NoRow, Pending, Replies
<1>8. QED
  BY <1>1, <1>2, <1>3, <1>4, <1>5, <1>6, <1>7 DEF Next
-----------------------------------------------------------------------------
(* What a worker's step may do to the locks, to the locals and to the      *)
(* storage.  The cases of the proof are the actions.                       *)
LockStep(w) ==
    \/ /\ pc[w] = "lock" /\ pc'[w] = "idempotency"
       /\ entity_locks[Stripe(w)] = None
       /\ entity_locks' = [entity_locks EXCEPT ![Stripe(w)] = w]
    \/ /\ pc[w] \in Inside /\ pc'[w] \in Inside
       /\ entity_locks' = entity_locks
    \/ /\ pc[w] \in Inside /\ pc'[w] = "idle"
       /\ entity_locks' = [entity_locks EXCEPT ![Stripe(w)] = None]

ReadStep(w) ==
    /\ pc'[w] = "entity" =>
          definition'[w] = machines[req[w].machine] /\ machines[req[w].machine] # None
    /\ pc'[w] \in {"guards", "execute"} => definition'[w] = definition[w]
    /\ pc'[w] = "guards" =>
          /\ pc[w] = "entity" /\ current'[w] = LoadedState(w)
          /\ Planned(definition[w], LoadedState(w).current_state, req[w].event)
    /\ pc'[w] = "execute" => pc[w] = "guards" /\ current'[w] = current[w]

OthersStay(w) ==
    \A v \in Workers \ {w} :
        pc'[v] = pc[v] /\ definition'[v] = definition[v] /\ current'[v] = current[v]
            /\ reply'[v] = reply[v]

StoreStep(w) ==
    \/ UNCHANGED <<entity_states, transitions, effects, idempotency>>
    \/ pc[w] = "execute" /\ Commit(w)

(* The steps of transition(), reduced to what they do to the storage. *)
LEMMA WorkerSteps ==
    ASSUME TypeOK, NEW w \in Workers, WorkerStep(w)
    PROVE  /\ LockStep(w) /\ ReadStep(w) /\ OthersStay(w) /\ StoreStep(w)
           /\ UNCHANGED <<machines, defined, req>>
<1> USE DEF TypeOK, WorkerType
<1>1. ASSUME NEW a, Answer(w, a), pc[w] \in Inside
      PROVE  LockStep(w) /\ ReadStep(w) /\ OthersStay(w)
  BY <1>1 DEF Answer, ForgetLocals, Goto, LockStep, ReadStep, OthersStay
<1>2. CASE Lock(w)
  BY <1>2 DEF Lock, Goto, LockStep, ReadStep, OthersStay, StoreStep, storage
<1>3. CASE CheckIdempotency(w)
  <2>1. CASE Answer(w, Ok(ResultOf(idempotency[req[w].key])))
    BY <1>1, <1>3, <2>1 DEF CheckIdempotency, Inside, StoreStep, storage
  <2>2. CASE Goto(w, "machine") /\ UNCHANGED <<entity_locks, definition, current, reply>>
    BY <1>3, <2>2
    DEF CheckIdempotency, Goto, Inside, LockStep, ReadStep, OthersStay, StoreStep, storage
  <2>3. QED
    BY <1>3, <2>1, <2>2 DEF CheckIdempotency
<1>4. CASE LoadMachine(w)
  <2>1. CASE machines[req[w].machine] = None
    BY <1>1, <1>4, <2>1 DEF LoadMachine, Inside, StoreStep, storage
  <2>2. CASE machines[req[w].machine] # None
    BY <1>4, <2>2
    DEF LoadMachine, Goto, Inside, LockStep, ReadStep, OthersStay, StoreStep, storage
  <2>3. QED
    BY <2>1, <2>2
<1>5. CASE LoadEntity(w)
  <2>1. CASE Answer(w, Err("VersionConflict")) \/ Answer(w, Err("IllegalTransition"))
    BY <1>1, <1>5, <2>1 DEF LoadEntity, Inside, StoreStep, storage
  <2>2. CASE /\ Planned(definition[w], LoadedState(w).current_state, req[w].event)
             /\ current' = [current EXCEPT ![w] = LoadedState(w)]
             /\ Goto(w, "guards")
             /\ UNCHANGED <<entity_locks, definition, reply>>
    BY <1>5, <2>2
    DEF LoadEntity, Goto, Inside, LockStep, ReadStep, OthersStay, StoreStep, storage
  <2>3. QED
    BY <1>5, <2>1, <2>2 DEF LoadEntity
<1>6. CASE EvaluateGuards(w)
  <2>1. CASE Answer(w, Err("GuardFailed"))
    BY <1>1, <1>6, <2>1 DEF EvaluateGuards, Inside, StoreStep, storage
  <2>2. CASE Goto(w, "execute") /\ UNCHANGED <<entity_locks, definition, current, reply>>
    BY <1>6, <2>2
    DEF EvaluateGuards, Goto, Inside, LockStep, ReadStep, OthersStay, StoreStep, storage
  <2>3. QED
    BY <1>6, <2>1, <2>2 DEF EvaluateGuards
<1>7. CASE Execute(w)
  <2>1. CASE Abort(w)
    BY <1>1, <1>7, <2>1 DEF Execute, Abort, Inside, StoreStep, storage
  <2>2. CASE Commit(w)
    BY <1>7, <2>2
    DEF Execute, Commit, Goto, Inside, LockStep, ReadStep, OthersStay, StoreStep
  <2>3. QED
    BY <1>7, <2>1, <2>2 DEF Execute
<1>8. CASE Notify(w)
  BY <1>1, <1>8 DEF Notify, Inside, StoreStep, storage
<1>9. CASE StorageFails(w)
  BY <1>1, <1>9 DEF StorageFails, Inside, StoreStep, storage
<1>10. QED
  BY <1>2, <1>3, <1>4, <1>5, <1>6, <1>7, <1>8, <1>9 DEF WorkerStep

(* Steps of callers, operators and the daemon leave the storage alone. *)
LEMMA OtherSteps ==
    ASSUME [Next]_vars
    PROVE  \/ \E w \in Workers : WorkerStep(w)
           \/ UNCHANGED <<entity_states, transitions, effects, idempotency>>
BY DEF Next, vars, storage, Call, define_machine, register_guard, Shutdown, Restart

(* No step lets a worker past the lock lose its stripe. *)
LEMMA LocksStep ==
    ASSUME Consistent, [Next]_vars
    PROVE  HoldsItsStripe'
<1> USE DEF Consistent
<1>1. ASSUME NEW w \in Workers, WorkerStep(w) PROVE HoldsItsStripe'
  <2>1. LockStep(w) /\ OthersStay(w) /\ req' = req
    BY <1>1, WorkerSteps
  <2>2. pc[w] # "idle"
    BY <2>1 DEF LockStep, Inside
  <2>3. Stripe(w) \in Stripes
    BY <2>2, EngineAssumption
    DEF TypeOK, WorkerType, LocalsAreSet, Stripe, InstanceOf, Instances, Request
  <2>4. \A v \in Workers : Stripe(v)' = Stripe(v)
    BY <2>1 DEF Stripe
  <2>5. ASSUME NEW v \in Workers, pc'[v] \in Inside PROVE entity_locks'[Stripe(v)] = v
    <3>1. CASE v = w
      BY <2>1, <2>3, <2>5, <3>1 DEF TypeOK, WorkerType, HoldsItsStripe, LockStep, Inside
    <3>2. CASE v # w
      <4>1. pc[v] \in Inside /\ entity_locks[Stripe(v)] = v
        BY <2>1, <2>5, <3>2 DEF OthersStay, HoldsItsStripe
      <4>2. Stripe(v) # Stripe(w)
        BY <2>1, <3>2, <4>1, EngineAssumption DEF HoldsItsStripe, LockStep
      <4>3. Stripe(v) \in Stripes
        BY <4>1, EngineAssumption
        DEF TypeOK, WorkerType, LocalsAreSet, Stripe, InstanceOf, Instances, Request, Inside
      <4>4. QED
        BY <2>1, <4>1, <4>2, <4>3 DEF TypeOK, WorkerType, LockStep
    <3>3. QED
      BY <3>1, <3>2
  <2>6. QED
    BY <2>4, <2>5 DEF HoldsItsStripe
<1>2. ASSUME NEW w \in Workers, NEW r \in Requests, Call(w, r) PROVE HoldsItsStripe'
  BY <1>2 DEF TypeOK, WorkerType, HoldsItsStripe, Call, Goto, Stripe, Inside
<1>3. ASSUME Restart PROVE HoldsItsStripe'
  BY <1>3 DEF HoldsItsStripe, Restart, Inside
<1>4. ASSUME UNCHANGED <<entity_locks, pc, req>> PROVE HoldsItsStripe'
  BY <1>4 DEF HoldsItsStripe, Stripe
<1>5. QED
  BY <1>1, <1>2, <1>3, <1>4 DEF Next, vars, define_machine, register_guard, Shutdown

(* Definitions in the table and in use stay ones that were stored. *)
LEMMA DefinitionsStep ==
    ASSUME Consistent, [Next]_vars
    PROVE  DefinitionsWereStored'
<1> USE DEF Consistent
<1> DEFINE InUse == {"entity", "guards", "execute"}
<1>1. ASSUME NEW w \in Workers, WorkerStep(w) PROVE DefinitionsWereStored'
  <2>1. ReadStep(w) /\ OthersStay(w) /\ LockStep(w) /\ UNCHANGED <<machines, defined, req>>
    BY <1>1, WorkerSteps
  <2>2. req[w].machine \in Machines
    BY <2>1, EngineAssumption DEF TypeOK, WorkerType, LocalsAreSet, LockStep, Inside, Request
  <2>3. pc'[w] \in InUse => definition'[w] \in defined[req[w].machine]
    BY <2>1, <2>2 DEF ReadStep, DefinitionsWereStored
  <2>4. QED
    BY <2>1, <2>3 DEF OthersStay, DefinitionsWereStored
<1>2. ASSUME NEW w \in Workers, NEW r \in Requests, Call(w, r) PROVE DefinitionsWereStored'
  <2>1. /\ pc'[w] \notin InUse
        /\ \A v \in Workers \ {w} : pc'[v] = pc[v] /\ req'[v] = req[v]
    BY <1>2 DEF TypeOK, WorkerType, Call, Goto
  <2>2. QED
    BY <1>2, <2>1 DEF DefinitionsWereStored, Call, storage
<1>3. ASSUME NEW m \in Machines, NEW d \in Definitions, define_machine(m, d)
      PROVE  DefinitionsWereStored'
  <2>1. \A n \in Machines : defined[n] \subseteq defined'[n]
    BY <1>3 DEF define_machine, TypeOK, StorageType
  <2>2. \A n \in Machines : machines'[n] # None => machines'[n] \in defined'[n]
    BY <1>3, <2>1 DEF define_machine, TypeOK, StorageType, DefinitionsWereStored
  <2>3. \A w \in Workers : pc[w] \in InUse => req[w].machine \in Machines
    BY EngineAssumption DEF TypeOK, WorkerType, LocalsAreSet, Request
  <2>4. QED
    BY <1>3, <2>1, <2>2, <2>3 DEF define_machine, DefinitionsWereStored
<1>4. ASSUME Restart PROVE DefinitionsWereStored'
  BY <1>4 DEF Restart, DefinitionsWereStored, storage
<1>5. ASSUME UNCHANGED <<machines, defined, pc, req, definition>> PROVE DefinitionsWereStored'
  BY <1>5 DEF DefinitionsWereStored
<1>6. QED
  BY <1>1, <1>2, <1>3, <1>4, <1>5 DEF Next, vars, storage, register_guard, Shutdown

(* No step of another worker moves the row a worker has read. *)
LEMMA ReadsStep ==
    ASSUME Consistent, [Next]_vars
    PROVE  ReadsAreCurrent'
<1> USE DEF Consistent
<1> DEFINE Late == {"guards", "execute"}
<1>1. ASSUME NEW w \in Workers, WorkerStep(w) PROVE ReadsAreCurrent'
  <2>1. /\ LockStep(w) /\ ReadStep(w) /\ OthersStay(w) /\ StoreStep(w)
        /\ req' = req
    BY <1>1, WorkerSteps
  <2>2. ASSUME NEW v \in Workers, pc'[v] \in Late
        PROVE  /\ current'[v] = LoadedState(v)'
               /\ Planned(definition'[v], current'[v].current_state, req'[v].event)
    <3>1. CASE v = w
      <4>1. UNCHANGED entity_states
        BY <2>1, <2>2, <3>1 DEF StoreStep, Commit, Goto, TypeOK, WorkerType
      <4>2. definition'[w] = definition[w] /\ LoadedState(w)' = LoadedState(w)
        BY <2>1, <2>2, <3>1, <4>1 DEF ReadStep, LoadedState
      <4>3. QED
        BY <2>1, <2>2, <3>1, <4>2 DEF ReadStep, ReadsAreCurrent
    <3>2. CASE v # w
      <4>1. /\ pc[v] \in Late /\ definition'[v] = definition[v] /\ current'[v] = current[v]
            /\ req'[v] = req[v]
        BY <2>1, <2>2, <3>2 DEF OthersStay
      <4>2. entity_states'[InstanceOf(req[v])] = entity_states[InstanceOf(req[v])]
        <5>1. CASE UNCHANGED entity_states
          BY <5>1
        <5>2. CASE pc[w] = "execute" /\ Commit(w)
          <6>1. Stripe(v) # Stripe(w)
            BY <3>2, <4>1, <5>2 DEF HoldsItsStripe, Inside
          <6>2. InstanceOf(req[v]) # InstanceOf(req[w])
            BY <6>1 DEF Stripe
          <6>3. /\ InstanceOf(RecordOf(w)) = InstanceOf(req[w])
                /\ InstanceOf(req[v]) \in Instances
            BY <4>1, EngineAssumption
            DEF RecordOf, InstanceOf, TypeOK, WorkerType, LocalsAreSet, Instances, Request
          <6>4. QED
            BY <5>2, <6>2, <6>3 DEF Commit, TypeOK, StorageType
        <5>3. QED
          BY <2>1, <5>1, <5>2 DEF StoreStep
      <4>3. LoadedState(v)' = LoadedState(v)
        BY <4>1, <4>2 DEF LoadedState
      <4>4. QED
        BY <4>1, <4>3 DEF ReadsAreCurrent
    <3>3. QED
      BY <3>1, <3>2
  <2>3. QED
    BY <2>2 DEF ReadsAreCurrent
<1>2. ASSUME NEW w \in Workers, NEW r \in Requests, Call(w, r) PROVE ReadsAreCurrent'
  <2>1. /\ pc'[w] \notin Late
        /\ \A v \in Workers \ {w} : pc'[v] = pc[v] /\ req'[v] = req[v]
        /\ UNCHANGED <<entity_states, definition, current>>
    BY <1>2 DEF TypeOK, WorkerType, Call, Goto, storage
  <2>2. \A v \in Workers \ {w} : LoadedState(v)' = LoadedState(v)
    BY <2>1 DEF LoadedState
  <2>3. QED
    BY <2>1, <2>2 DEF ReadsAreCurrent
<1>3. ASSUME Restart PROVE ReadsAreCurrent'
  BY <1>3 DEF Restart, ReadsAreCurrent
<1>4. ASSUME UNCHANGED <<entity_states, pc, req, definition, current>> PROVE ReadsAreCurrent'
  BY <1>4 DEF ReadsAreCurrent, LoadedState
<1>5. QED
  BY <1>1, <1>2, <1>3, <1>4 DEF Next, vars, storage, define_machine, register_guard, Shutdown

-----------------------------------------------------------------------------
(* What a commit appends, and where: one record for the instance of the    *)
(* request, after every other record, from the row the instance has now.   *)
LEMMA CommitAppends ==
    ASSUME Consistent, NEW w \in Workers, pc[w] = "execute", Commit(w)
    PROVE  LET rec == RecordOf(w)
               em  == InstanceOf(rec)
               n   == Len(transitions)
           IN  /\ n \in Nat /\ Len(transitions') = n + 1
               /\ DOMAIN transitions = 1..n /\ DOMAIN transitions' = 1..(n + 1)
               /\ \A i \in 1..n : transitions'[i] = transitions[i]
               /\ transitions'[n + 1] = rec
               /\ rec \in TransitionRecord
               /\ em = InstanceOf(req[w]) /\ em \in Instances
               /\ entity_states' = [entity_states EXCEPT ![em] = NewState(rec)]
               /\ rec.from_state = LoadedState(w).current_state
               /\ rec.version = LoadedState(w).version + 1
<1> USE DEF Consistent
<1>1. /\ RecordOf(w) \in TransitionRecord
      /\ InstanceOf(RecordOf(w)) = InstanceOf(req[w])
      /\ InstanceOf(req[w]) \in Instances
  BY RecordTypes
<1>2. transitions \in Seq(TransitionRecord) /\ transitions' = Append(transitions, RecordOf(w))
  BY DEF Commit, TypeOK, StorageType
<1>3. current[w] = LoadedState(w)
  BY DEF ReadsAreCurrent
<1>4. /\ RecordOf(w).from_state = LoadedState(w).current_state
      /\ RecordOf(w).version = LoadedState(w).version + 1
  BY <1>3 DEF RecordOf
<1>5. entity_states' = [entity_states EXCEPT ![InstanceOf(RecordOf(w))] = NewState(RecordOf(w))]
  BY DEF Commit
<1>6. transitions' \in Seq(TransitionRecord)
  BY <1>1, <1>2, SequenceAppend
<1>7. /\ Len(transitions) \in Nat /\ Len(transitions') = Len(transitions) + 1
      /\ \A i \in 1..Len(transitions) : transitions'[i] = transitions[i]
      /\ transitions'[Len(transitions) + 1] = RecordOf(w)
  BY <1>1, <1>2, SequenceAppend, SequenceDomain, SMTT(30)
<1>8. DOMAIN transitions = 1..Len(transitions) /\ DOMAIN transitions' = 1..(Len(transitions) + 1)
  BY <1>2, <1>6, <1>7, SequenceDomain
<1>9. QED
  BY <1>1, <1>4, <1>5, <1>7, <1>8

(* The records of an instance after a commit. *)
LEMMA CommitIndices ==
    ASSUME Consistent, NEW w \in Workers, pc[w] = "execute", Commit(w), NEW em
    PROVE  /\ em = InstanceOf(req[w]) =>
                 IndicesOf(transitions', em) = IndicesOf(transitions, em) \cup {Len(transitions) + 1}
           /\ em # InstanceOf(req[w]) =>
                 IndicesOf(transitions', em) = IndicesOf(transitions, em)
           /\ IndicesOf(transitions, em) \subseteq 1..Len(transitions)
<1> DEFINE n == Len(transitions)
<1>1. /\ n \in Nat /\ DOMAIN transitions = 1..n /\ DOMAIN transitions' = 1..(n + 1)
      /\ \A i \in 1..n : transitions'[i] = transitions[i]
      /\ InstanceOf(transitions'[n + 1]) = InstanceOf(req[w])
  BY CommitAppends
<1> HIDE DEF n
<1>2. 1..(n + 1) = 1..n \cup {n + 1} /\ n + 1 \notin 1..n
  BY <1>1, SMTT(30)
<1>3. IndicesOf(transitions, em) \subseteq 1..n
  BY <1>1 DEF IndicesOf
<1>4. IndicesOf(transitions', em) \subseteq 1..n \cup {n + 1}
  BY <1>1, <1>2 DEF IndicesOf
<1>5. ASSUME NEW i \in 1..n PROVE i \in IndicesOf(transitions', em) <=> i \in IndicesOf(transitions, em)
  <2>1. i \in DOMAIN transitions /\ i \in DOMAIN transitions' /\ transitions'[i] = transitions[i]
    BY <1>1, <1>2
  <2>2. QED
    BY <2>1 DEF IndicesOf
<1>6. n + 1 \in IndicesOf(transitions', em) <=> em = InstanceOf(req[w])
  BY <1>1, <1>2 DEF IndicesOf
<1>7. QED
  BY <1>2, <1>3, <1>4, <1>5, <1>6 DEF n

(* Every step keeps the projection equal to the fold of the log. *)
LEMMA ProjectionStep ==
    ASSUME Consistent, [Next]_vars
    PROVE  ProjectionInLockstep'
<1> USE DEF Consistent
<1>1. ASSUME UNCHANGED <<entity_states, transitions>> PROVE ProjectionInLockstep'
  BY <1>1 DEF ProjectionInLockstep, IndicesOf
<1>2. ASSUME NEW w \in Workers, pc[w] = "execute", Commit(w) PROVE ProjectionInLockstep'
  <2> DEFINE rec == RecordOf(w)
             n == Len(transitions)
  <2>1. /\ n \in Nat /\ InstanceOf(rec) = InstanceOf(req[w])
        /\ \A i \in 1..n : transitions'[i] = transitions[i]
        /\ transitions'[n + 1] = rec
        /\ entity_states' = [entity_states EXCEPT ![InstanceOf(rec)] = NewState(rec)]
    BY <1>2, CommitAppends
  <2>2. ASSUME NEW em \in Instances
        PROVE  \/ IndicesOf(transitions', em) = {} /\ entity_states'[em] = NoRow
               \/ \E i \in IndicesOf(transitions', em) :
                     /\ \A j \in IndicesOf(transitions', em) : j <= i
                     /\ entity_states'[em] = [current_state |-> transitions'[i].to_state,
                                              version |-> transitions'[i].version]
    <3>1. CASE em = InstanceOf(req[w])
      <4>1. /\ IndicesOf(transitions', em) = IndicesOf(transitions, em) \cup {n + 1}
            /\ IndicesOf(transitions, em) \subseteq 1..n
        BY <1>2, <3>1, CommitIndices
      <4>2. n + 1 \in IndicesOf(transitions', em)
            /\ \A j \in IndicesOf(transitions', em) : j <= n + 1
        BY <2>1, <4>1, SMTT(30)
      <4>3. entity_states'[em] = [current_state |-> transitions'[n + 1].to_state,
                                  version |-> transitions'[n + 1].version]
        BY <2>1, <3>1 DEF NewState, TypeOK, StorageType
      <4>4. QED
        BY <4>2, <4>3
    <3>2. CASE em # InstanceOf(req[w])
      <4>1. /\ IndicesOf(transitions', em) = IndicesOf(transitions, em)
            /\ IndicesOf(transitions, em) \subseteq 1..n
        BY <1>2, <3>2, CommitIndices
      <4>2. entity_states'[em] = entity_states[em]
        BY <2>1, <3>2 DEF TypeOK, StorageType
      <4>3. QED
        BY <2>1, <4>1, <4>2 DEF ProjectionInLockstep
    <3>3. QED
      BY <3>1, <3>2
  <2>3. QED
    BY <2>2 DEF ProjectionInLockstep
<1>3. QED
  BY <1>1, <1>2, OtherSteps, WorkerSteps DEF StoreStep

(* Every step keeps the records of an instance a chain of versions. *)
LEMMA ChainStep ==
    ASSUME Consistent, [Next]_vars
    PROVE  LifecycleIsAChain'
<1> USE DEF Consistent
<1>1. ASSUME UNCHANGED transitions PROVE LifecycleIsAChain'
  BY <1>1 DEF LifecycleIsAChain, IndicesOf
<1>2. ASSUME NEW w \in Workers, pc[w] = "execute", Commit(w) PROVE LifecycleIsAChain'
  <2> DEFINE rec == RecordOf(w)
             em == InstanceOf(req[w])
             n == Len(transitions)
             Earlier(log, j) == {i \in IndicesOf(log, InstanceOf(log[j])) : i < j}
             Linked(log, j) ==
                \/ Earlier(log, j) = {} /\ log[j].version = 1
                \/ \E i \in Earlier(log, j) :
                      /\ \A h \in Earlier(log, j) : h <= i
                      /\ log[j].version = log[i].version + 1
                      /\ log[j].from_state = log[i].to_state
  <2>1. /\ n \in Nat /\ em = InstanceOf(rec) /\ em \in Instances
        /\ DOMAIN transitions = 1..n /\ DOMAIN transitions' = 1..(n + 1)
        /\ \A i \in 1..n : transitions'[i] = transitions[i]
        /\ transitions'[n + 1] = rec
        /\ rec.from_state = LoadedState(w).current_state
        /\ rec.version = LoadedState(w).version + 1
    BY <1>2, CommitAppends
  <2>2. ASSUME NEW j \in 1..n PROVE Linked(transitions', j)
    <3>1. Linked(transitions, j)
      BY <2>1, <2>2 DEF LifecycleIsAChain
    <3>2. Earlier(transitions', j) = Earlier(transitions, j)
      BY <2>1, <2>2, SMTT(30) DEF IndicesOf
    <3>3. Earlier(transitions, j) \subseteq 1..n
      BY <2>1 DEF IndicesOf
    <3>4. QED
      BY <2>1, <2>2, <3>1, <3>2, <3>3
  <2>3. Linked(transitions', n + 1)
    <3>1. Earlier(transitions', n + 1) = IndicesOf(transitions, em)
      BY <2>1, SMTT(30) DEF IndicesOf
    <3>2. CASE IndicesOf(transitions, em) = {}
      <4>1. LoadedState(w).version = 0
        BY <2>1, <3>2 DEF ProjectionInLockstep, LoadedState, NoRow
      <4>2. QED
        BY <2>1, <3>1, <3>2, <4>1, SMTT(30)
    <3>3. CASE IndicesOf(transitions, em) # {}
      <4>1. PICK i \in IndicesOf(transitions, em) :
                /\ \A j \in IndicesOf(transitions, em) : j <= i
                /\ entity_states[em] = [current_state |-> transitions[i].to_state,
                                        version |-> transitions[i].version]
        BY <2>1, <3>3 DEF ProjectionInLockstep
      <4>2. i \in 1..n /\ transitions[i] \in TransitionRecord
        BY <2>1, ResultTypes DEF IndicesOf, TypeOK
      <4>3. entity_states[em] # NoRow
        BY <4>1, <4>2, EngineAssumption, SMTT(30) DEF NoRow, TransitionRecord
      <4>4. LoadedState(w) = entity_states[em]
        BY <4>3 DEF LoadedState
      <4>5. /\ rec.version = transitions[i].version + 1
            /\ rec.from_state = transitions[i].to_state
        BY <2>1, <4>1, <4>4, SMTT(30)
      <4>6. QED
        BY <2>1, <3>1, <4>1, <4>2, <4>5
    <3>4. QED
      BY <3>2, <3>3
  <2>4. ASSUME NEW j \in DOMAIN transitions' PROVE Linked(transitions', j)
    <3> HIDE DEF Linked, n
    <3>1. j \in 1..n \/ j = n + 1
      BY <2>1, SMTT(30)
    <3>2. QED
      BY <2>2, <2>3, <3>1
  <2>5. QED
    BY <2>4 DEF LifecycleIsAChain
<1>3. QED
  BY <1>1, <1>2, OtherSteps, WorkerSteps DEF StoreStep

(* Every step keeps the key table and the keys in the log in agreement. *)
LEMMA KeysStep ==
    ASSUME Consistent, [Next]_vars
    PROVE  KeyCommitsOnce'
<1> USE DEF Consistent
<1>1. ASSUME UNCHANGED <<transitions, idempotency>> PROVE KeyCommitsOnce'
  BY <1>1 DEF KeyCommitsOnce
<1>2. ASSUME NEW w \in Workers, pc[w] = "execute", Commit(w) PROVE KeyCommitsOnce'
  <2> DEFINE rec == RecordOf(w)
             n == Len(transitions)
  <2>1. /\ n \in Nat /\ rec \in TransitionRecord
        /\ DOMAIN transitions = 1..n /\ DOMAIN transitions' = 1..(n + 1)
        /\ \A i \in 1..n : transitions'[i] = transitions[i]
        /\ transitions'[n + 1] = rec
    BY <1>2, CommitAppends
  <2>2. /\ ~KeyRecorded(rec.key)
        /\ idempotency' = [k \in Keys |-> IF k = rec.key THEN n + 1 ELSE idempotency[k]]
    BY <1>2 DEF Commit
  <2>3. ASSUME NEW k \in Keys
        PROVE  /\ idempotency'[k] # 0 => idempotency'[k] \in DOMAIN transitions'
               /\ \A i \in DOMAIN transitions' : transitions'[i].key = k <=> idempotency'[k] = i
    <3>1. CASE k = rec.key
      <4>1. idempotency[k] = 0 /\ idempotency'[k] = n + 1
        BY <2>2, <3>1, EngineAssumption DEF KeyRecorded
      <4>2. \A i \in 1..n : transitions[i].key # k
        BY <2>1, <4>1, SMTT(30) DEF KeyCommitsOnce
      <4>3. QED
        BY <2>1, <3>1, <4>1, <4>2, SMTT(30)
    <3>2. CASE k # rec.key
      <4>1. idempotency'[k] = idempotency[k]
        BY <2>2, <3>2
      <4>2. /\ idempotency[k] # 0 => idempotency[k] \in 1..n
            /\ \A i \in 1..n : transitions[i].key = k <=> idempotency[k] = i
        BY <2>1 DEF KeyCommitsOnce
      <4>3. QED
        BY <2>1, <3>2, <4>1, <4>2, SMTT(30)
    <3>3. QED
      BY <3>1, <3>2
  <2>4. QED
    BY <2>3 DEF KeyCommitsOnce
<1>3. QED
  BY <1>1, <1>2, OtherSteps, WorkerSteps DEF StoreStep

(* A new engine over an empty database satisfies the invariant. *)
LEMMA InitConsistent == Init => Consistent
<1> SUFFICES ASSUME Init PROVE Consistent
  OBVIOUS
<1>1. StorageType
  BY SMTT(30) DEF Init, StorageType, EntityState, NoRow
<1>2. ControlType /\ WorkerType /\ LocalsAreSet
  BY DEF Init, ControlType, WorkerType, LocalsAreSet, Labels, EntityState, NoRow, Pending, Replies
<1>3. HoldsItsStripe /\ DefinitionsWereStored /\ ReadsAreCurrent
  BY DEF Init, HoldsItsStripe, DefinitionsWereStored, ReadsAreCurrent, Inside
<1>4. ProjectionInLockstep /\ LifecycleIsAChain /\ KeyCommitsOnce
  <2>1. DOMAIN transitions = {}
    BY SMTT(30) DEF Init
  <2>2. \A em : IndicesOf(transitions, em) = {}
    BY <2>1 DEF IndicesOf
  <2>3. ProjectionInLockstep
    BY <2>2 DEF Init, ProjectionInLockstep
  <2>4. LifecycleIsAChain
    BY <2>1 DEF LifecycleIsAChain
  <2>5. KeyCommitsOnce
    BY <2>1 DEF Init, KeyCommitsOnce
  <2>6. QED
    BY <2>3, <2>4, <2>5
<1>5. QED
  BY <1>1, <1>2, <1>3, <1>4 DEF Consistent, TypeOK

(* The storage and the workers of the engine stay consistent: types, lock  *)
(* ownership, freshness of what a worker read, projection, chain and keys  *)
(* form one inductive invariant.                                           *)
THEOREM AlwaysConsistent == Spec => []Consistent
<1>1. Consistent /\ [Next]_vars => Consistent'
  <2> SUFFICES ASSUME Consistent, [Next]_vars PROVE Consistent'
    OBVIOUS
  <2> QED
    BY TypeStep, LocksStep, DefinitionsStep, ReadsStep, ProjectionStep, ChainStep, KeysStep
    DEF Consistent
<1>2. QED
  BY InitConsistent, <1>1, PTL DEF Spec

(* TypeOK for every instance: in particular transition() never unwraps a   *)
(* local it has not set.                                                   *)
THEOREM TypeCorrect == Spec => []TypeOK
BY AlwaysConsistent, PTL DEF Consistent

(* The projection table is the fold of the log at every moment, whatever   *)
(* the number of workers and the striping.                                 *)
THEOREM ProjectionIsTheLog == Spec => []ProjectionInLockstep
BY AlwaysConsistent, PTL DEF Consistent

(* No interleaving forks or skips the life of an instance. *)
THEOREM ChainAlways == Spec => []LifecycleIsAChain
BY AlwaysConsistent, PTL DEF Consistent

(* A key commits at most once, failed idempotency reads included. *)
THEOREM KeysCommitOnce == Spec => []KeyCommitsOnce
BY AlwaysConsistent, PTL DEF Consistent

(* The row a worker decided on is the row it commits over. *)
THEOREM ReadsStayCurrent == Spec => []ReadsAreCurrent
BY AlwaysConsistent, PTL DEF Consistent

-----------------------------------------------------------------------------
(* What a step may put in a worker's answer. *)
ReplyStep(w) ==
    \/ reply'[w] = reply[w]
    \/ \E e \in Errors \ {"StorageVersionConflict", "StorageAlreadyExists"} : reply'[w] = Err(e)
    \/ /\ pc[w] = "execute" /\ Conflict(RecordOf(w))
       /\ reply'[w] = Err("StorageVersionConflict")
    \/ /\ pc[w] = "execute" /\ KeyRecorded(req[w].key)
       /\ reply'[w] = Err("StorageAlreadyExists")
    \/ /\ req[w].key # None /\ idempotency[req[w].key] # 0
       /\ pc[w] = "idempotency"
       /\ reply'[w] = Ok(ResultOf(idempotency[req[w].key]))
    \/ /\ pc[w] = "execute" /\ Commit(w)

(* The steps of transition(), reduced to the answers they give. *)
LEMMA ReplySteps ==
    ASSUME TypeOK, NEW w \in Workers, WorkerStep(w)
    PROVE  ReplyStep(w)
<1> USE DEF TypeOK, WorkerType
<1> DEFINE Plain == Errors \ {"StorageVersionConflict", "StorageAlreadyExists"}
<1>1. ASSUME NEW a, Answer(w, a) PROVE reply'[w] = a
  BY <1>1 DEF Answer
<1>2. ASSUME NEW e \in Plain, Answer(w, Err(e)) PROVE ReplyStep(w)
  BY <1>1, <1>2 DEF ReplyStep
<1>3. CASE Lock(w)
  BY <1>3 DEF Lock, ReplyStep
<1>4. CASE CheckIdempotency(w)
  BY <1>1, <1>4 DEF CheckIdempotency, ReplyStep
<1>5. CASE LoadMachine(w)
  <2>1. CASE Answer(w, Err("NotFound"))
    BY <1>2, <2>1 DEF Errors
  <2>2. CASE UNCHANGED reply
    BY <2>2 DEF ReplyStep
  <2>3. QED
    BY <1>5, <2>1, <2>2 DEF LoadMachine
<1>6. CASE LoadEntity(w)
  <2>1. CASE Answer(w, Err("VersionConflict"))
    BY <1>2, <2>1 DEF Errors
  <2>2. CASE Answer(w, Err("IllegalTransition"))
    BY <1>2, <2>2 DEF Errors
  <2>3. CASE UNCHANGED reply
    BY <2>3 DEF ReplyStep
  <2>4. QED
    BY <1>6, <2>1, <2>2, <2>3 DEF LoadEntity
<1>7. CASE EvaluateGuards(w)
  <2>1. CASE Answer(w, Err("GuardFailed"))
    BY <1>2, <2>1 DEF Errors
  <2>2. CASE UNCHANGED reply
    BY <2>2 DEF ReplyStep
  <2>3. QED
    BY <1>7, <2>1, <2>2 DEF EvaluateGuards
<1>8. CASE Execute(w)
  BY <1>1, <1>8 DEF Execute, Abort, ReplyStep
<1>9. CASE Notify(w)
  BY <1>1, <1>9 DEF Notify, ReplyStep
<1>10. CASE StorageFails(w)
  BY <1>2, <1>10 DEF StorageFails, Errors
<1>11. QED
  BY <1>3, <1>4, <1>5, <1>6, <1>7, <1>8, <1>9, <1>10 DEF WorkerStep

(* Every other step gives no answer but ShuttingDown, or forgets them all. *)
LEMMA OtherReplies ==
    ASSUME TypeOK, [Next]_vars, ~\E w \in Workers : WorkerStep(w), NEW v \in Workers
    PROVE  \/ reply'[v] = reply[v] /\ req'[v] = req[v]
           \/ reply'[v] = Pending \/ reply'[v] = Err("ShuttingDown")
BY DEF TypeOK, WorkerType, Next, vars, Call, define_machine, register_guard, Shutdown, Restart

(* The status of an answer that carries a result. *)
LEMMA OkStatus == \A result : Ok(result).status = "Ok"
BY DEF Ok

(* The version check of execute_transition never fires: while a worker     *)
(* holds its stripe the row it read cannot have moved.                     *)
THEOREM StripeLockAlwaysSuffices == Spec => []StripeLockSuffices
<1>1. Init => StripeLockSuffices
  BY SMTT(30) DEF Init, StripeLockSuffices, Pending
<1>2. Consistent /\ StripeLockSuffices /\ [Next]_vars => StripeLockSuffices'
  <2> SUFFICES ASSUME Consistent, StripeLockSuffices, [Next]_vars, NEW v \in Workers
               PROVE  reply'[v].status # "StorageVersionConflict"
    BY DEF StripeLockSuffices
  <2> USE DEF Consistent
  <2>1. reply[v].status # "StorageVersionConflict"
    BY DEF StripeLockSuffices
  <2>2. ASSUME NEW w \in Workers, WorkerStep(w)
        PROVE  reply'[v].status # "StorageVersionConflict"
    <3>1. CASE v # w
      BY <2>1, <2>2, <3>1, WorkerSteps DEF OthersStay
    <3>2. CASE v = w
      <4>1. pc[w] = "execute" => ~Conflict(RecordOf(w))
        <5> SUFFICES ASSUME pc[w] = "execute", Conflict(RecordOf(w)) PROVE FALSE
          OBVIOUS
        <5>1. current[w] = LoadedState(w)
          BY DEF ReadsAreCurrent
        <5>2. entity_states[InstanceOf(req[w])] # NoRow
          BY DEF Conflict, RecordOf, InstanceOf
        <5>3. QED
          BY <5>1, <5>2 DEF Conflict, RecordOf, InstanceOf, LoadedState
      <4>2. Commit(w) => reply'[w].status = "Ok"
        <5> SUFFICES ASSUME Commit(w) PROVE reply'[w].status = "Ok"
          OBVIOUS
        <5>1. reply \in [Workers -> Replies]
          BY DEF TypeOK, WorkerType
        <5>2. PICK result : reply' = [reply EXCEPT ![w] = Ok(result)]
          BY DEF Commit
        <5>3. reply'[w] = Ok(result)
          BY <5>1, <5>2
        <5>4. QED
          BY <5>3, OkStatus
      <4>3. ReplyStep(w)
        BY <2>2, ReplySteps
      <4>4. \A e \in Errors : Err(e).status = e
        BY DEF Err
      <4>5. Ok(ResultOf(idempotency[req[w].key])).status = "Ok"
        BY OkStatus
      <4>6. CASE \E e \in Errors \ {"StorageVersionConflict", "StorageAlreadyExists"} :
                    reply'[w] = Err(e)
        BY <3>2, <4>4, <4>6
      <4>7. CASE reply'[w] = Err("StorageAlreadyExists")
        BY <3>2, <4>4, <4>7 DEF Errors
      <4>8. CASE reply'[w] = Ok(ResultOf(idempotency[req[w].key]))
        BY <3>2, <4>5, <4>8
      <4>9. QED
        BY <2>1, <3>2, <4>1, <4>2, <4>3, <4>6, <4>7, <4>8 DEF ReplyStep
    <3>3. QED
      BY <3>1, <3>2
  <2>3. ASSUME ~\E w \in Workers : WorkerStep(w)
        PROVE  reply'[v].status # "StorageVersionConflict"
    BY <2>1, <2>3, OtherReplies, SMTT(30) DEF Pending, Err
  <2>4. QED
    BY <2>2, <2>3
<1>3. QED
  BY AlwaysConsistent, <1>1, <1>2, PTL DEF Spec

(* No step rewrites or drops what was committed. *)
LEMMA CommittedKept ==
    ASSUME Consistent, [Next]_vars
    PROVE  /\ Len(transitions') >= Len(transitions)
           /\ \A i \in DOMAIN transitions : transitions'[i] = transitions[i]
           /\ \A k \in Keys : idempotency[k] # 0 => idempotency'[k] = idempotency[k]
           /\ effects \subseteq effects'
<1>1. Len(transitions) \in Nat
  BY SequenceDomain DEF Consistent, TypeOK, StorageType
<1>2. CASE UNCHANGED <<transitions, effects, idempotency>>
  BY <1>1, <1>2, SMTT(30)
<1>3. ASSUME NEW w \in Workers, pc[w] = "execute", Commit(w)
      PROVE  /\ Len(transitions') >= Len(transitions)
             /\ \A i \in DOMAIN transitions : transitions'[i] = transitions[i]
             /\ \A k \in Keys : idempotency[k] # 0 => idempotency'[k] = idempotency[k]
             /\ effects \subseteq effects'
  <2>1. /\ Len(transitions') = Len(transitions) + 1
        /\ \A i \in DOMAIN transitions : transitions'[i] = transitions[i]
    BY <1>3, CommitAppends
  <2>2. \A k \in Keys : idempotency[k] # 0 => idempotency'[k] = idempotency[k]
    BY <1>3, EngineAssumption DEF Commit, KeyRecorded
  <2>3. effects \subseteq effects'
    BY <1>3 DEF Commit
  <2>4. QED
    BY <1>1, <2>1, <2>2, <2>3, SMTT(30)
<1>4. QED
  BY <1>2, <1>3, OtherSteps, WorkerSteps DEF StoreStep, Consistent

(* What was committed stays, across every interleaving and every restart. *)
THEOREM CommittedAlwaysStays == Spec => CommittedStays
<1>1. Consistent /\ [Next]_vars =>
        [/\ Len(transitions') >= Len(transitions)
         /\ \A i \in DOMAIN transitions : transitions'[i] = transitions[i]
         /\ \A k \in Keys : idempotency[k] # 0 => idempotency'[k] = idempotency[k]
         /\ effects \subseteq effects']_vars
  BY CommittedKept
<1>2. QED
  BY AlwaysConsistent, <1>1, PTL DEF Spec, CommittedStays

-----------------------------------------------------------------------------
(* What holds of a call while it runs, so that its answer will be right:   *)
(* no answer yet, the expected version is the one read, and the key is not *)
(* recorded for this instance.                                             *)
Missed(key, em) == idempotency[key] = 0 \/ InstanceOf(transitions[idempotency[key]]) # em

CallsAreSound ==
    \A w \in Workers :
        /\ pc[w] \notin {"idle", "notify"} => reply[w] = Pending
        /\ pc[w] \in {"guards", "execute"} =>
              req[w].expected_version \in {None, current[w].version}
        /\ (~Faults /\ pc[w] \in {"machine", "entity", "guards", "execute"} /\ req[w].key # None) =>
              Missed(req[w].key, InstanceOf(req[w]))

(* A refused key is one the call carried. *)
RefusedKeys == \A w \in Workers : reply[w].status = "StorageAlreadyExists" => req[w].key \in Keys

AnswersAreSound ==
    CallsAreSound /\ ExpectedVersionHonoured /\ RefusedKeys /\ RetriesNeverCollide

CallStep(w) ==
    /\ pc[w] # "idle"
    /\ pc'[w] \notin {"idle", "notify"} => pc[w] # "notify" /\ reply'[w] = reply[w]
    /\ pc'[w] = "guards" => ExpectedMatches(w)
    /\ pc'[w] = "machine" => (req[w].key # None => idempotency[req[w].key] = 0 \/ Faults)
    /\ pc'[w] \in {"entity", "guards", "execute"} => pc[w] \in {"machine", "entity", "guards"}

(* The steps of transition(), reduced to what they check. *)
LEMMA CallSteps ==
    ASSUME TypeOK, NEW w \in Workers, WorkerStep(w)
    PROVE  CallStep(w)
<1> USE DEF TypeOK, WorkerType
<1>1. ASSUME NEW a, Answer(w, a), pc[w] # "idle" PROVE CallStep(w)
  BY <1>1 DEF Answer, Goto, CallStep
<1>2. CASE Lock(w)
  BY <1>2 DEF Lock, Goto, CallStep
<1>3. CASE CheckIdempotency(w)
  BY <1>1, <1>3 DEF CheckIdempotency, Goto, CallStep
<1>4. CASE LoadMachine(w)
  BY <1>1, <1>4 DEF LoadMachine, Goto, CallStep
<1>5. CASE LoadEntity(w)
  BY <1>1, <1>5 DEF LoadEntity, Goto, CallStep
<1>6. CASE EvaluateGuards(w)
  BY <1>1, <1>6 DEF EvaluateGuards, Goto, CallStep
<1>7. CASE Execute(w)
  BY <1>1, <1>7 DEF Execute, Abort, Commit, Goto, CallStep
<1>8. CASE Notify(w)
  BY <1>1, <1>8 DEF Notify
<1>9. CASE StorageFails(w)
  BY <1>1, <1>9 DEF StorageFails
<1>10. QED
  BY <1>2, <1>3, <1>4, <1>5, <1>6, <1>7, <1>8, <1>9 DEF WorkerStep

(* A call that has read its key's absence stays the only one of its        *)
(* instance that can record it: another call holds another stripe.         *)
LEMMA CallsStep ==
    ASSUME Consistent, CallsAreSound, [Next]_vars
    PROVE  CallsAreSound'
<1> USE DEF Consistent
<1> DEFINE Past == {"machine", "entity", "guards", "execute"}
<1>1. ASSUME NEW v \in Workers, pc[v] # "idle"
      PROVE  /\ req[v] \in Request /\ InstanceOf(req[v]) \in Instances
             /\ req[v].key # None => req[v].key \in Keys
  BY <1>1, EngineAssumption
  DEF TypeOK, WorkerType, LocalsAreSet, InstanceOf, Instances, Request
<1>2. ASSUME NEW w \in Workers, WorkerStep(w), NEW v \in Workers
      PROVE  /\ pc'[v] \notin {"idle", "notify"} => reply'[v] = Pending
             /\ pc'[v] \in {"guards", "execute"} =>
                   req'[v].expected_version \in {None, current'[v].version}
             /\ (~Faults /\ pc'[v] \in Past /\ req'[v].key # None) =>
                   Missed(req[v].key, InstanceOf(req[v]))'
  <2>1. /\ LockStep(w) /\ ReadStep(w) /\ OthersStay(w) /\ StoreStep(w) /\ CallStep(w) /\ req' = req
    BY <1>2, WorkerSteps, CallSteps
  <2>2. CASE v = w
    <3>1. pc'[w] \notin {"idle", "notify"} => reply'[w] = Pending
      BY <2>1 DEF CallStep, CallsAreSound
    <3>2. pc'[w] \in {"guards", "execute"} => req[w].expected_version \in {None, current'[w].version}
      BY <2>1 DEF CallStep, ReadStep, CallsAreSound, ExpectedMatches
    <3>3. ASSUME ~Faults, pc'[w] \in Past, req[w].key # None
          PROVE  Missed(req[w].key, InstanceOf(req[w]))'
      <4>1. Missed(req[w].key, InstanceOf(req[w]))
        BY <2>1, <3>3 DEF CallStep, CallsAreSound, Missed
      <4>2. UNCHANGED <<transitions, idempotency, req>>
        BY <2>1, <3>3 DEF StoreStep, Commit, Goto, TypeOK, WorkerType
      <4>3. QED
        BY <4>1, <4>2 DEF Missed
    <3>4. QED
      BY <2>1, <2>2, <3>1, <3>2, <3>3
  <2>3. CASE v # w
    <3>1. pc'[v] = pc[v] /\ current'[v] = current[v] /\ reply'[v] = reply[v] /\ req'[v] = req[v]
      BY <2>1, <2>3 DEF OthersStay
    <3>2. ASSUME ~Faults, pc[v] \in Past, req[v].key # None
          PROVE  Missed(req[v].key, InstanceOf(req[v]))'
      <4> DEFINE key == req[v].key
      <4>1. Missed(key, InstanceOf(req[v])) /\ key \in Keys
        BY <1>1, <3>2 DEF CallsAreSound
      <4>2. CASE UNCHANGED <<transitions, idempotency>>
        BY <2>1, <4>1, <4>2 DEF Missed
      <4>3. CASE pc[w] = "execute" /\ Commit(w)
        <5>1. InstanceOf(req[v]) # InstanceOf(req[w])
          BY <2>3, <3>2, <4>3 DEF HoldsItsStripe, Inside, Stripe
        <5>2. CASE key = RecordOf(w).key
          <6>1. idempotency'[key] = Len(transitions) + 1
            BY <4>1, <4>3, <5>2 DEF Commit
          <6>2. InstanceOf(transitions'[Len(transitions) + 1]) = InstanceOf(req[w])
            BY <4>3, CommitAppends
          <6>3. QED
            BY <2>1, <5>1, <6>1, <6>2 DEF Missed
        <5>3. CASE key # RecordOf(w).key
          <6>1. idempotency'[key] = idempotency[key]
            BY <4>1, <4>3, <5>3 DEF Commit
          <6>2. idempotency[key] # 0 => transitions'[idempotency[key]] = transitions[idempotency[key]]
            BY <4>1, <4>3, CommitAppends, SMTT(30) DEF KeyCommitsOnce
          <6>3. QED
            BY <2>1, <4>1, <6>1, <6>2 DEF Missed
        <5>4. QED
          BY <5>2, <5>3
      <4>4. QED
        BY <2>1, <4>2, <4>3 DEF StoreStep
    <3>3. QED
      BY <3>1, <3>2 DEF CallsAreSound
  <2>4. QED
    BY <2>2, <2>3
<1>3. ASSUME NEW w \in Workers, NEW r \in Requests, Call(w, r) PROVE CallsAreSound'
  <2>1. /\ pc'[w] \in {"idle", "lock"} /\ (pc'[w] = "lock" => reply'[w] = Pending)
        /\ \A v \in Workers \ {w} : pc'[v] = pc[v] /\ req'[v] = req[v] /\ reply'[v] = reply[v]
        /\ UNCHANGED <<current, transitions, idempotency>>
    <3>1. pc[w] = "idle"
      BY <1>3 DEF Call
    <3>2. QED
      BY <1>3, <3>1 DEF Call, Goto, TypeOK, WorkerType, storage
  <2>2. QED
    BY <2>1, SMTT(30) DEF CallsAreSound, Missed
<1>4. ASSUME Restart PROVE CallsAreSound'
  BY <1>4 DEF Restart, CallsAreSound
<1>5. ASSUME UNCHANGED <<pc, req, current, reply, transitions, idempotency>> PROVE CallsAreSound'
  BY <1>5 DEF CallsAreSound, Missed
<1>6. ASSUME NEW w \in Workers, WorkerStep(w) PROVE CallsAreSound'
  BY <1>2, <1>6 DEF CallsAreSound
<1>7. QED
  BY <1>3, <1>4, <1>5, <1>6 DEF Next, vars, storage, define_machine, register_guard, Shutdown

(* An Ok answer is the commit of this call, or the replay of a key. *)
LEMMA ExpectedStep ==
    ASSUME Consistent, CallsAreSound, ExpectedVersionHonoured, [Next]_vars
    PROVE  ExpectedVersionHonoured'
<1> USE DEF Consistent
<1> DEFINE Honoured(a, r) ==
        (a.status = "Ok" /\ r.key = None /\ r.expected_version # None) =>
            a.result.version = r.expected_version + 1 /\ InstanceOf(a.result) = InstanceOf(r)
<1>1. \A v \in Workers : Honoured(reply[v], req[v])
  BY DEF ExpectedVersionHonoured
<1>2. /\ Pending.status # "Ok" /\ \A e \in Errors : Err(e).status # "Ok"
  BY ErrIsAReply, SMTT(30) DEF Pending
<1>3. ASSUME NEW w \in Workers, WorkerStep(w), NEW v \in Workers
      PROVE  Honoured(reply'[v], req[v])
  <2>1. CASE v # w
    BY <1>1, <1>3, <2>1, WorkerSteps DEF OthersStay
  <2>2. CASE v = w
    <3>1. ReplyStep(w)
      BY <1>3, ReplySteps
    <3>2. ASSUME pc[w] = "execute", Commit(w) PROVE Honoured(reply'[w], req[w])
      <4>1. /\ reply \in [Workers -> Replies]
            /\ req[w].expected_version \in {None, current[w].version}
        BY <3>2 DEF CallsAreSound, TypeOK, WorkerType
      <4> DEFINE res == [entity |-> RecordOf(w).entity, machine |-> RecordOf(w).machine,
                         from_state |-> RecordOf(w).from_state, to_state |-> RecordOf(w).to_state,
                         version |-> RecordOf(w).version, sequence |-> Len(transitions) + 1]
      <4>2. reply'[w] = Ok(res)
        BY <3>2, <4>1 DEF Commit
      <4>3. Ok(res).result = res
        BY DEF Ok
      <4>4. res.version = current[w].version + 1 /\ InstanceOf(res) = InstanceOf(req[w])
        BY DEF RecordOf, InstanceOf
      <4> HIDE DEF res
      <4>5. QED
        BY <4>1, <4>2, <4>3, <4>4
    <3>3. CASE \E e \in Errors : reply'[w] = Err(e)
      BY <1>2, <2>2, <3>3
    <3>4. QED
      BY <1>1, <2>2, <3>1, <3>2, <3>3 DEF ReplyStep, Errors
  <2>3. QED
    BY <2>1, <2>2
<1>4. ASSUME NEW w \in Workers, WorkerStep(w) PROVE ExpectedVersionHonoured'
  BY <1>3, <1>4, WorkerSteps DEF ExpectedVersionHonoured
<1>5. ASSUME ~\E w \in Workers : WorkerStep(w) PROVE ExpectedVersionHonoured'
  <2>1. "ShuttingDown" \in Errors
    BY DEF Errors
  <2>2. \A v \in Workers : Honoured(reply'[v], req'[v])
    BY <1>1, <1>2, <1>5, <2>1, OtherReplies
  <2>3. QED
    BY <2>2 DEF ExpectedVersionHonoured
<1>6. QED
  BY <1>4, <1>5

(* Storage refuses a key only for an instance that did not record it. *)
LEMMA RetriesStep ==
    ASSUME Consistent, CallsAreSound, RefusedKeys, RetriesNeverCollide, [Next]_vars
    PROVE  RefusedKeys' /\ RetriesNeverCollide'
<1> USE DEF Consistent
<1> DEFINE Exists == "StorageAlreadyExists"
           key(v) == req[v].key
           em(v) == InstanceOf(req[v])
<1>1. /\ Pending.status # Exists /\ \A e \in Errors : Err(e).status = e
      /\ \A r : Ok(r).status # Exists
  BY SMTT(30) DEF Pending, Err, Ok
<1>2. ASSUME NEW v \in Workers, reply'[v].status = Exists
      PROVE  /\ req'[v] = req[v]
             /\ \/ reply[v].status = Exists
                \/ pc[v] = "execute" /\ KeyRecorded(key(v))
  <2>1. ASSUME NEW w \in Workers, WorkerStep(w), v # w
        PROVE  reply'[v] = reply[v] /\ req' = req
    BY <2>1, WorkerSteps DEF OthersStay
  <2>2. ASSUME WorkerStep(v)
        PROVE  /\ req' = req
               /\ reply[v].status = Exists \/ (pc[v] = "execute" /\ KeyRecorded(key(v)))
    <3>1. ReplyStep(v) /\ req' = req
      BY <2>2, ReplySteps, WorkerSteps
    <3>2. ~(pc[v] = "execute" /\ Commit(v))
      <4> SUFFICES ASSUME Commit(v) PROVE FALSE
        OBVIOUS
      <4>1. PICK result : reply' = [reply EXCEPT ![v] = Ok(result)]
        BY DEF Commit
      <4>2. reply'[v] = Ok(result)
        BY <4>1 DEF TypeOK, WorkerType
      <4>3. QED
        BY <1>1, <1>2, <4>2
    <3>3. \A e \in Errors \ {Exists} : reply'[v] # Err(e)
      BY <1>1, <1>2
    <3>4. QED
      BY <1>1, <1>2, <3>1, <3>2, <3>3 DEF ReplyStep, Errors
  <2>3. CASE ~\E w \in Workers : WorkerStep(w)
    <3>1. "ShuttingDown" \in Errors /\ "ShuttingDown" # Exists
      BY SMTT(30) DEF Errors
    <3>2. QED
      BY <1>1, <1>2, <2>3, <3>1, OtherReplies
  <2>4. QED
    BY <1>2, <2>1, <2>2, <2>3
<1>3. ASSUME NEW v \in Workers, reply'[v].status = Exists
      PROVE  key(v) \in Keys /\ (~Faults => idempotency[key(v)] # 0
                                   /\ InstanceOf(transitions[idempotency[key(v)]]) # em(v))
  <2>1. CASE reply[v].status = Exists
    BY <2>1 DEF RefusedKeys, RetriesNeverCollide
  <2>2. CASE pc[v] = "execute" /\ KeyRecorded(key(v))
    <3>1. key(v) # None /\ idempotency[key(v)] # 0
      BY <2>2 DEF KeyRecorded
    <3>2. key(v) \in Keys
      BY <2>2, <3>1, EngineAssumption DEF TypeOK, WorkerType, LocalsAreSet, Request
    <3>3. QED
      BY <2>2, <3>1, <3>2 DEF CallsAreSound, Missed
  <2>3. QED
    BY <1>2, <1>3, <2>1, <2>2
<1>4. ASSUME NEW v \in Workers, reply'[v].status = Exists, ~Faults
      PROVE  /\ idempotency'[key(v)] # 0
             /\ InstanceOf(transitions'[idempotency'[key(v)]]) # em(v)
  <2>1. key(v) \in Keys /\ idempotency[key(v)] # 0
        /\ InstanceOf(transitions[idempotency[key(v)]]) # em(v)
    BY <1>3, <1>4
  <2>2. idempotency[key(v)] \in DOMAIN transitions
    BY <2>1 DEF KeyCommitsOnce
  <2>3. /\ idempotency'[key(v)] = idempotency[key(v)]
        /\ transitions'[idempotency[key(v)]] = transitions[idempotency[key(v)]]
    BY <2>1, <2>2, CommittedKept
  <2>4. QED
    BY <2>1, <2>3
<1>5. QED
  BY <1>2, <1>3, <1>4 DEF RefusedKeys, RetriesNeverCollide

LEMMA AnswersStay == Spec => []AnswersAreSound
<1>1. Init => AnswersAreSound
  <2>1. Pending.status = "Pending"
    BY DEF Pending
  <2>2. QED
    BY <2>1 DEF Init, AnswersAreSound, CallsAreSound, ExpectedVersionHonoured, RefusedKeys,
                RetriesNeverCollide
<1>2. Consistent /\ AnswersAreSound /\ [Next]_vars => AnswersAreSound'
  BY CallsStep, ExpectedStep, RetriesStep DEF AnswersAreSound
<1>3. QED
  BY AlwaysConsistent, <1>1, <1>2, PTL DEF Spec

(* Of the callers that read one version of an instance and say so, at most *)
(* one is answered Ok: the answer is the very next version.                *)
THEOREM ExpectedVersionAlwaysHonoured == Spec => []ExpectedVersionHonoured
BY AnswersStay, PTL DEF AnswersAreSound

(* While reads do not fail, no retry on the same instance runs into its    *)
(* own key at commit: check_idempotency is under the stripe.               *)
THEOREM RetriesAlwaysReplay == Spec => []RetriesNeverCollide
BY AnswersStay, PTL DEF AnswersAreSound

-----------------------------------------------------------------------------
(* What callers see: records and outbox rows come from one definition, Ok  *)
(* answers describe committed records, the two refinements.                *)
(* Definitions are only ever added to the history of a machine name. *)
LEMMA DefinedGrows ==
    ASSUME TypeOK, [Next]_vars, NEW m \in Machines
    PROVE  defined[m] \subseteq defined'[m]
<1>1. ASSUME NEW w \in Workers, WorkerStep(w) PROVE defined' = defined
  BY <1>1, WorkerSteps
<1>2. ASSUME NEW n \in Machines, NEW d \in Definitions, define_machine(n, d)
      PROVE  defined[m] \subseteq defined'[m]
  BY <1>2 DEF define_machine, TypeOK, StorageType
<1>3. QED
  BY <1>1, <1>2 DEF Next, vars, storage, Call, register_guard, Shutdown, Restart

(* The definition a committing worker uses was stored for its machine, has *)
(* a rule for the step, and is the source of the outbox rows.              *)
LEMMA CommitFollows ==
    ASSUME Consistent, NEW w \in Workers, pc[w] = "execute", Commit(w)
    PROVE  /\ definition[w] \in defined[req[w].machine]
           /\ definition[w] \in MachineDefinition
           /\ req[w] \in Request
           /\ Planned(definition[w], LoadedState(w).current_state, req[w].event)
           /\ RecordOf(w) =
                 [entity |-> req[w].entity, machine |-> req[w].machine,
                  from_state |-> LoadedState(w).current_state,
                  to_state |-> plan_transition(definition[w], LoadedState(w).current_state,
                                               req[w].event).to_state,
                  event |-> req[w].event, version |-> LoadedState(w).version + 1,
                  key |-> req[w].key]
           /\ effects' = effects \cup EffectsOf(definition[w], req[w].event, Len(transitions) + 1)
<1> USE DEF Consistent
<1>1. /\ current[w] = LoadedState(w)
      /\ Planned(definition[w], current[w].current_state, req[w].event)
  BY DEF ReadsAreCurrent
<1>2. definition[w] \in MachineDefinition
  BY RecordTypes
<1>3. req[w] \in Request
  BY EngineAssumption DEF TypeOK, WorkerType, LocalsAreSet
<1>4. definition[w] \in defined[req[w].machine]
  BY DEF DefinitionsWereStored
<1>5. QED
  BY <1>1, <1>2, <1>3, <1>4 DEF RecordOf, Rule, Commit, Outbox

(* Each record and its outbox rows come from one stored definition. *)
THEOREM OneDefinitionAlways == Spec => []OneDefinitionPerRecord
<1> DEFINE FromOne(log, out, stored, i) ==
        \E d \in stored[log[i].machine] :
            /\ \E n \in Matching(d, log[i].from_state, log[i].event) :
                  d.transitions[n].to_state = log[i].to_state
            /\ {f \in out : f.transition = i} = EffectsOf(d, log[i].event, i)
<1>1. Init => OneDefinitionPerRecord
  BY SMTT(30) DEF Init, OneDefinitionPerRecord
<1>2. Consistent /\ OneDefinitionPerRecord /\ [Next]_vars => OneDefinitionPerRecord'
  <2> SUFFICES ASSUME Consistent, OneDefinitionPerRecord, [Next]_vars
               PROVE  OneDefinitionPerRecord'
    OBVIOUS
  <2>0. /\ TypeOK
        /\ \A i \in DOMAIN transitions : transitions[i].machine \in Machines
    BY ResultTypes DEF Consistent, TypeOK, TransitionRecord
  <2>1. \A m \in Machines : defined[m] \subseteq defined'[m]
    BY <2>0, DefinedGrows
  <2>2. CASE UNCHANGED <<transitions, effects>>
    <3>1. \A i \in DOMAIN transitions : FromOne(transitions, effects, defined', i)
      BY <2>0, <2>1 DEF OneDefinitionPerRecord
    <3>2. QED
      BY <2>2, <3>1 DEF OneDefinitionPerRecord
  <2>3. ASSUME NEW w \in Workers, pc[w] = "execute", Commit(w), defined' = defined
        PROVE  OneDefinitionPerRecord'
    <3> DEFINE n == Len(transitions)
               rec == RecordOf(w)
               new == EffectsOf(definition[w], req[w].event, n + 1)
    <3>1. /\ n \in Nat
          /\ DOMAIN transitions = 1..n /\ DOMAIN transitions' = 1..(n + 1)
          /\ \A i \in 1..n : transitions'[i] = transitions[i]
          /\ transitions'[n + 1] = rec
      BY <2>3, CommitAppends
    <3>2. /\ definition[w] \in defined[req[w].machine]
          /\ effects' = effects \cup new
          /\ rec.machine = req[w].machine /\ rec.event = req[w].event
      BY <2>3, CommitFollows, SMTT(30)
    <3>3. \A f \in new : f.transition = n + 1
      BY SMTT(30) DEF EffectsOf
    <3>4. \A f \in effects : f.transition \in 1..n
      BY <3>1 DEF OneDefinitionPerRecord
    <3>5. \A f \in effects' : f.transition \in DOMAIN transitions'
      BY <3>1, <3>2, <3>3, <3>4, SMTT(30)
    <3>6. ASSUME NEW i \in 1..n PROVE FromOne(transitions', effects', defined', i)
      <4>1. FromOne(transitions, effects, defined, i)
        BY <3>1 DEF OneDefinitionPerRecord
      <4>2. {f \in effects' : f.transition = i} = {f \in effects : f.transition = i}
        BY <3>1, <3>2, <3>3, SMTT(30)
      <4>3. QED
        BY <2>3, <3>1, <4>1, <4>2
    <3>7. FromOne(transitions', effects', defined', n + 1)
      <4>1. {f \in effects' : f.transition = n + 1} = new
        BY <3>1, <3>2, <3>3, <3>4, SMTT(30)
      <4>2. PICK k \in Matching(definition[w], rec.from_state, rec.event) :
                definition[w].transitions[k].to_state = rec.to_state
        BY <2>3, CommitFollows, PlanIsARule, SMTT(30)
      <4>3. QED
        BY <2>3, <3>1, <3>2, <4>1, <4>2
    <3>8. \A i \in DOMAIN transitions' : FromOne(transitions', effects', defined', i)
      BY <3>1, <3>6, <3>7, SMTT(30)
    <3>9. QED
      BY <3>5, <3>8 DEF OneDefinitionPerRecord
  <2>4. QED
    BY <2>0, <2>2, <2>3, OtherSteps, WorkerSteps DEF StoreStep
<1>3. QED
  BY AlwaysConsistent, <1>1, <1>2, PTL DEF Spec

(* An Ok answer, fresh or replayed, describes a committed record. *)
THEOREM OkAlwaysCommitted == Spec => []OkIsCommitted
<1> DEFINE Describes(res, log) ==
        /\ res.sequence \in DOMAIN log
        /\ InstanceOf(log[res.sequence]) = InstanceOf(res)
        /\ log[res.sequence].from_state = res.from_state
        /\ log[res.sequence].to_state = res.to_state
        /\ log[res.sequence].version = res.version
<1>1. Init => OkIsCommitted
  BY SMTT(30) DEF Init, OkIsCommitted, Pending
<1>2. Consistent /\ OkIsCommitted /\ [Next]_vars => OkIsCommitted'
  <2> SUFFICES ASSUME Consistent, OkIsCommitted, [Next]_vars, NEW v \in Workers,
                      reply'[v].status = "Ok"
               PROVE  Describes(reply'[v].result, transitions')
    BY DEF OkIsCommitted
  <2>0. TypeOK
    BY DEF Consistent
  <2>1. \A i \in DOMAIN transitions : i \in DOMAIN transitions' /\ transitions'[i] = transitions[i]
    <3>1. ASSUME NEW w \in Workers, pc[w] = "execute", Commit(w)
          PROVE  \A i \in DOMAIN transitions :
                     i \in DOMAIN transitions' /\ transitions'[i] = transitions[i]
      BY <3>1, CommitAppends, SMTT(30)
    <3>2. QED
      BY <2>0, <3>1, OtherSteps, WorkerSteps DEF StoreStep
  <2>2. CASE reply'[v] = reply[v]
    <3>1. Describes(reply[v].result, transitions)
      BY <2>2 DEF OkIsCommitted
    <3>2. QED
      BY <2>1, <2>2, <3>1
  <2>3. ASSUME NEW w \in Workers, WorkerStep(w)
        PROVE  Describes(reply'[v].result, transitions')
    <3>1. CASE v # w
      BY <2>0, <2>2, <2>3, <3>1, WorkerSteps DEF OthersStay
    <3>2. CASE v = w /\ pc[w] = "execute" /\ Commit(w)
      <4>1. /\ Len(transitions) + 1 \in DOMAIN transitions'
            /\ transitions'[Len(transitions) + 1] = RecordOf(w)
        BY <3>2, CommitAppends, SMTT(30)
      <4>2. reply'[w].result =
              [entity |-> RecordOf(w).entity, machine |-> RecordOf(w).machine,
               from_state |-> RecordOf(w).from_state, to_state |-> RecordOf(w).to_state,
               version |-> RecordOf(w).version, sequence |-> Len(transitions) + 1]
        <5> DEFINE result ==
              [entity |-> RecordOf(w).entity, machine |-> RecordOf(w).machine,
               from_state |-> RecordOf(w).from_state, to_state |-> RecordOf(w).to_state,
               version |-> RecordOf(w).version, sequence |-> Len(transitions) + 1]
        <5>1. reply \in [Workers -> Replies]
          BY <2>0 DEF TypeOK, WorkerType
        <5>2. reply' = [reply EXCEPT ![w] = Ok(result)]
          BY <3>2 DEF Commit
        <5> HIDE DEF result
        <5>3. reply'[w] = Ok(result)
          BY <5>1, <5>2
        <5>4. reply'[w].result = result
          BY <5>3, SMTT(30) DEF Ok
        <5>5. QED
          BY <5>4 DEF result
      <4>3. QED
        BY <3>2, <4>1, <4>2, SMTT(30) DEF InstanceOf
    <3>3. CASE /\ v = w /\ req[w].key # None /\ idempotency[req[w].key] # 0
               /\ pc[w] = "idempotency"
               /\ reply'[w] = Ok(ResultOf(idempotency[req[w].key]))
      <4>1. req[w].key \in Keys
        BY <2>0, <3>3, EngineAssumption DEF TypeOK, WorkerType, LocalsAreSet, Request
      <4>2. idempotency[req[w].key] \in DOMAIN transitions
        BY <3>3, <4>1 DEF Consistent, KeyCommitsOnce
      <4>3. Describes(ResultOf(idempotency[req[w].key]), transitions)
        BY <4>2 DEF ResultOf, InstanceOf
      <4>4. reply'[v].result = ResultOf(idempotency[req[w].key])
        BY <3>3, SMTT(30) DEF Ok
      <4>5. QED
        BY <2>1, <4>2, <4>3, <4>4
    <3>4. \A e \in Errors : Err(e).status # "Ok"
      BY ErrIsAReply
    <3>5. "StorageVersionConflict" \in Errors /\ "StorageAlreadyExists" \in Errors
      BY DEF Errors
    <3>6. ReplyStep(w)
      BY <2>0, <2>3, ReplySteps
    <3>7. QED
      BY <2>2, <3>1, <3>2, <3>3, <3>4, <3>5, <3>6 DEF ReplyStep
  <2>4. ASSUME ~\E w \in Workers : WorkerStep(w)
        PROVE  Describes(reply'[v].result, transitions')
    <3>1. Pending.status # "Ok" /\ Err("ShuttingDown").status # "Ok"
      BY DEF Pending, Err
    <3>2. QED
      BY <2>0, <2>2, <2>4, <3>1, OtherReplies
  <2>5. QED
    BY <2>3, <2>4
<1>3. QED
  BY AlwaysConsistent, <1>1, <1>2, PTL DEF Spec

-----------------------------------------------------------------------------
(* Where the log leaves an instance is what its projection row says. *)
LEMMA PositionIsLoadedState ==
    ASSUME Consistent, NEW w \in Workers, pc[w] = "execute", Commit(w)
    PROVE  \E at \in L!Positions(req[w].entity, req[w].machine, definition[w]) :
              /\ at.state = LoadedState(w).current_state
              /\ at.version = LoadedState(w).version
<1> USE DEF Consistent
<1> DEFINE em == InstanceOf(req[w])
<1>1. em \in Instances
  BY CommitAppends
<1>2. L!Indices(req[w].entity, req[w].machine) = IndicesOf(transitions, em)
  BY DEF L!Indices, IndicesOf, InstanceOf
<1>3. CASE IndicesOf(transitions, em) = {}
  <2>1. /\ LoadedState(w).version = 0
        /\ LoadedState(w).current_state = definition[w].initial_state
    BY <1>1, <1>3 DEF ProjectionInLockstep, LoadedState, NoRow
  <2>2. QED
    BY <1>2, <1>3, <2>1 DEF L!Positions
<1>4. CASE IndicesOf(transitions, em) # {}
  <2>1. PICK i \in IndicesOf(transitions, em) :
            /\ \A j \in IndicesOf(transitions, em) : j <= i
            /\ entity_states[em] = [current_state |-> transitions[i].to_state,
                                    version |-> transitions[i].version]
    BY <1>1, <1>4 DEF ProjectionInLockstep
  <2>2. transitions[i] \in TransitionRecord
    BY <2>1, ResultTypes DEF IndicesOf, TypeOK
  <2>3. LoadedState(w) = entity_states[em]
    BY <2>1, <2>2, EngineAssumption, SMTT(30) DEF LoadedState, NoRow, TransitionRecord
  <2>4. [state |-> transitions[i].to_state, version |-> transitions[i].version]
            \in L!Positions(req[w].entity, req[w].machine, definition[w])
    BY <1>2, <1>4, <2>1 DEF L!Positions, L!Latest
  <2>5. QED
    BY <2>1, <2>3, <2>4, SMTT(30)
<1>5. QED
  BY <1>3, <1>4

(* The two instances of the planner are one. *)
LEMMA SamePlanner ==
    ASSUME NEW d, NEW s, NEW e
    PROVE  /\ L!Planned(d, s, e) <=> Planned(d, s, e)
           /\ L!plan_transition(d, s, e) = plan_transition(d, s, e)
           /\ L!compute_effects(d, e) = compute_effects(d, e)
           /\ L!validate(d) = validate(d)
BY DEF L!Planned, Planned, L!plan_transition, plan_transition, L!Matching, Matching, L!RangeOf,
       RangeOf, L!compute_effects, compute_effects, L!validate, validate, L!DuplicateState,
       DuplicateState, L!UnknownState, UnknownState, L!DuplicatePair, DuplicatePair, L!Pair, Pair,
       L!PairPositions, PairPositions

(* The engine implements Lifecycle: each commit is one atomic legal step,  *)
(* and no other step touches the log or the outbox.                        *)
THEOREM EngineImplementsLifecycle == Spec => ImplementsLifecycle
<1>1. Init => L!Init
  BY DEF Init, L!Init
<1>2. Consistent /\ [Next]_vars => [L!Next]_(L!vars)
  <2> SUFFICES ASSUME Consistent, [Next]_vars PROVE L!Next \/ UNCHANGED L!vars
    OBVIOUS
  <2>0. TypeOK
    BY DEF Consistent
  <2>1. ASSUME NEW w \in Workers, WorkerStep(w), pc[w] = "execute", Commit(w) PROVE L!Next
    <3> DEFINE o == req[w].entity
               m == req[w].machine
               e == req[w].event
               k == req[w].key
               d == definition[w]
               s == LoadedState(w).current_state
    <3>1. /\ d \in defined[m] /\ req[w] \in Request
          /\ Planned(d, s, e)
          /\ RecordOf(w) = [entity |-> o, machine |-> m, from_state |-> s,
                            to_state |-> plan_transition(d, s, e).to_state,
                            event |-> e, version |-> LoadedState(w).version + 1, key |-> k]
          /\ effects' = effects \cup EffectsOf(d, e, Len(transitions) + 1)
      BY <2>1, CommitFollows
    <3>2. /\ o \in Entities /\ m \in Machines /\ e \in EventNames /\ k \in Keys \cup {None}
      BY <3>1 DEF Request
    <3>3. d \in Definitions
      BY <2>0, <3>1, <3>2 DEF TypeOK, StorageType
    <3>4. L!FreshKey(k)
      <4>1. ~KeyRecorded(RecordOf(w).key) /\ RecordOf(w).key = k
        <5>1. ~KeyRecorded(RecordOf(w).key)
          BY <2>1 DEF Commit
        <5>2. RecordOf(w).key = k
          BY <3>1, SMTT(30)
        <5>3. QED
          BY <5>1, <5>2
      <4>2. 0 \notin DOMAIN transitions
        BY <2>1, CommitAppends, SMTT(30)
      <4>3. QED
        BY <3>2, <4>1, <4>2, SMTT(30) DEF L!FreshKey, KeyRecorded, Consistent, KeyCommitsOnce
    <3>5. PICK at \in L!Positions(o, m, d) : at.state = s /\ at.version = LoadedState(w).version
      BY <2>1, PositionIsLoadedState
    <3>6. /\ L!Planned(d, at.state, e)
          /\ transitions' = Append(transitions,
                [entity |-> o, machine |-> m, from_state |-> at.state,
                 to_state |-> L!plan_transition(d, at.state, e).to_state,
                 event |-> e, version |-> at.version + 1, key |-> k])
      BY <2>1, <3>1, <3>5, SamePlanner DEF Commit
    <3>7. effects' = effects \cup
              {[transition |-> Len(transitions) + 1, index |-> i, effect |-> d.effects[i].effect]
                  : i \in L!compute_effects(d, e)}
      BY <3>1, SamePlanner DEF EffectsOf
    <3>8. defined' = defined
      BY <2>0, <2>1, WorkerSteps
    <3>9. L!Commit(o, m, e, k, d)
      BY <3>1, <3>4, <3>5, <3>6, <3>7, <3>8 DEF L!Commit
    <3>10. QED
      BY <3>2, <3>3, <3>9 DEF L!Next
  <2>2. ASSUME NEW m \in Machines, NEW d \in Definitions, define_machine(m, d) PROVE L!Next
    <3>1. L!Define(m, d)
      BY <2>2, SamePlanner DEF define_machine, L!Define
    <3>2. QED
      BY <3>1 DEF L!Next
  <2>3. ASSUME NEW w \in Workers, WorkerStep(w) PROVE L!Next \/ UNCHANGED L!vars
    BY <2>0, <2>1, <2>3, WorkerSteps DEF StoreStep, L!vars
  <2>4. QED
    BY <2>2, <2>3 DEF Next, vars, L!vars, storage, Call, register_guard, Shutdown, Restart
<1>3. QED
  BY AlwaysConsistent, <1>1, <1>2, PTL DEF Spec, L!Spec, ImplementsLifecycle

-----------------------------------------------------------------------------
(* A sequence is the function of its elements. *)
LEMMA SequenceIsFunction ==
    ASSUME NEW S, NEW s \in Seq(S)
    PROVE  s = [i \in 1..Len(s) |-> s[i]]
OBVIOUS

(* A commit as the storage trait shows it. *)
LEMMA CommitRows ==
    ASSUME Consistent, NEW w \in Workers, pc[w] = "execute", Commit(w)
    PROVE  LET r == Logged(RecordOf(w)) IN
           /\ r.row \in DOMAIN StateRows => StateRows[r.row] + 1 = r.version
           /\ r.key \notin KeyRows
           /\ LogRows' = Append(LogRows, r)
           /\ Len(LogRows) = Len(transitions)
           /\ Len(LogRows) + 1 \in DOMAIN LogRows' \ DOMAIN LogRows
           /\ LogRows'[Len(LogRows) + 1] = r
           /\ StateRows' = St!Set(StateRows, r.row, r.version)
           /\ KeyRows' = KeyRows \cup ({r.key} \ {None})
<1> USE DEF Consistent
<1> DEFINE n == Len(transitions)
           rec == RecordOf(w)
           r == Logged(rec)
           em == InstanceOf(rec)
<1>1. /\ n \in Nat /\ Len(transitions') = n + 1
      /\ DOMAIN transitions = 1..n /\ DOMAIN transitions' = 1..(n + 1)
      /\ \A i \in 1..n : transitions'[i] = transitions[i]
      /\ transitions'[n + 1] = rec
      /\ rec \in TransitionRecord /\ em \in Instances
      /\ entity_states' = [entity_states EXCEPT ![em] = NewState(rec)]
  BY CommitAppends
<1>2. /\ ~Conflict(rec) /\ ~KeyRecorded(rec.key)
      /\ idempotency' = [k \in Keys |-> IF k = rec.key THEN n + 1 ELSE idempotency[k]]
  BY DEF Commit
<1>3. /\ rec.version \in Nat /\ rec.to_state # None /\ rec.key \in Keys \cup {None}
      /\ None \notin Keys
  BY <1>1, EngineAssumption DEF TransitionRecord
<1>4. /\ entity_states \in [Instances -> EntityState]
      /\ idempotency \in [Keys -> Nat]
      /\ transitions \in Seq(TransitionRecord)
  BY DEF TypeOK, StorageType
<1>5. r = [row |-> em, version |-> rec.version, key |-> rec.key]
  BY DEF Logged
<1> HIDE DEF n, rec, r, em
<1>6. em \in DOMAIN StateRows => StateRows[em] + 1 = rec.version
  BY <1>1, <1>2, <1>4 DEF StateRows, Conflict, em
<1>7. rec.key \notin KeyRows
  BY <1>2, <1>3 DEF KeyRows, KeyRecorded
<1>8. LogRows' = Append(LogRows, r) /\ Len(LogRows) = n
  <2> DEFINE T == [row: Instances, version: Nat, key: Keys \cup {None}]
  <2>1. \A x \in TransitionRecord : Logged(x) \in T
    BY DEF Logged, T, TransitionRecord, InstanceOf, Instances
  <2>2. LogRows = [i \in 1..n |-> Logged(transitions[i])]
    BY <1>1 DEF LogRows
  <2>3. LogRows' = [i \in 1..(n + 1) |-> Logged(transitions'[i])]
    BY <1>1 DEF LogRows
  <2>4. \A i \in 1..n : transitions[i] \in TransitionRecord
    BY <1>1, <1>4, SequenceElement
  <2> HIDE DEF T
  <2>5. LogRows \in Seq(T) /\ Len(LogRows) = n
    BY <1>1, <2>1, <2>2, <2>4, SMTT(30)
  <2>6. r \in T
    BY <1>1, <2>1 DEF r
  <2>7. /\ Append(LogRows, r) \in Seq(T) /\ Len(Append(LogRows, r)) = n + 1
        /\ \A i \in 1..n : Append(LogRows, r)[i] = LogRows[i]
        /\ Append(LogRows, r)[n + 1] = r
    BY <2>5, <2>6, SequenceAppend, SMTT(30)
  <2>8. Append(LogRows, r) = [i \in 1..(n + 1) |-> Append(LogRows, r)[i]]
    BY <2>7, SequenceIsFunction
  <2>9. \A i \in 1..(n + 1) : Append(LogRows, r)[i] = Logged(transitions'[i])
    BY <1>1, <2>2, <2>7, SMTT(30) DEF r
  <2>10. QED
    BY <2>3, <2>5, <2>8, <2>9
<1>9. /\ n + 1 \in DOMAIN LogRows' \ DOMAIN LogRows
      /\ LogRows'[n + 1] = r
  BY <1>1, SMTT(30) DEF LogRows, r
<1>10. StateRows' = St!Set(StateRows, em, rec.version)
  <2>1. NewState(rec) # NoRow /\ NewState(rec).version = rec.version
    BY <1>3 DEF NewState, NoRow
  <2>2. /\ entity_states' \in [Instances -> {entity_states'[x] : x \in Instances}]
        /\ entity_states'[em] = NewState(rec)
        /\ \A x \in Instances \ {em} : entity_states'[x] = entity_states[x]
    BY <1>1, <1>4
  <2>3. {x \in Instances : entity_states'[x] # NoRow} = DOMAIN StateRows \cup {em}
    BY <1>1, <2>1, <2>2 DEF StateRows
  <2>4. StateRows' = [x \in DOMAIN StateRows \cup {em} |-> entity_states'[x].version]
    BY <2>3 DEF StateRows
  <2>5. \A x \in DOMAIN StateRows \cup {em} :
            entity_states'[x].version = IF x = em THEN rec.version ELSE StateRows[x]
    BY <1>1, <2>1, <2>2 DEF StateRows
  <2>6. QED
    BY <2>4, <2>5 DEF St!Set
<1>11. KeyRows' = KeyRows \cup ({rec.key} \ {None})
  <2>1. n \in Nat
    BY <1>1
  <2>2. n + 1 # 0
    BY <2>1, SMTT(30)
  <2>3. \A k \in Keys : idempotency'[k] # 0 <=> k = rec.key \/ idempotency[k] # 0
    BY <1>2, <2>2
  <2>4. QED
    BY <1>3, <2>3 DEF KeyRows
<1>12. QED
  BY <1>5, <1>6, <1>7, <1>8, <1>9, <1>10, <1>11, SMTT(30) DEF n, rec, r, em

(* All the engine does to its storage are calls that Store allows. *)
THEOREM EngineUsesStore == Spec => UsesStore
<1>1. Init => St!Init
  BY SMTT(30) DEF Init, St!Init, LogRows, StateRows, OutboxRows, KeyRows, MachineRows
<1>2. Consistent /\ [Next]_vars => [St!Next /\ StorageCall]_(St!vars)
  <2> SUFFICES ASSUME Consistent, [Next]_vars PROVE (St!Next /\ StorageCall) \/ UNCHANGED St!vars
    OBVIOUS
  <2>0. TypeOK
    BY DEF Consistent
  <2>1. ASSUME NEW w \in Workers, WorkerStep(w), pc[w] = "execute", Commit(w)
        PROVE  St!Next /\ StorageCall
    <3> DEFINE n == Len(transitions)
               r == Logged(RecordOf(w))
               E == EffectsOf(definition[w], req[w].event, n + 1)
    <3>1. /\ r.row \in DOMAIN StateRows => StateRows[r.row] + 1 = r.version
          /\ r.key \notin KeyRows
          /\ LogRows' = Append(LogRows, r)
          /\ Len(LogRows) = n
          /\ n + 1 \in DOMAIN LogRows' \ DOMAIN LogRows
          /\ LogRows'[n + 1] = r
          /\ StateRows' = St!Set(StateRows, r.row, r.version)
          /\ KeyRows' = KeyRows \cup ({r.key} \ {None})
      BY <2>1, CommitRows
    <3>2. machines' = machines
      BY <2>0, <2>1, WorkerSteps
    <3>3. \A f \in E : f.transition = n + 1
      BY SMTT(30) DEF EffectsOf
    <3>4. effects' = effects \cup E
      BY <2>1, CommitFollows
    <3> HIDE DEF n, r, E
    <3>5. OutboxRows' = [f \in effects' |->
             IF f \in effects THEN OutboxRows[f] ELSE [transition |-> n + 1, status |-> "Pending"]]
      BY <3>3, <3>4 DEF OutboxRows
    <3>6. DOMAIN OutboxRows = effects /\ DOMAIN OutboxRows' = effects'
      BY DEF OutboxRows
    <3>7. St!Emits(Len(LogRows) + 1, E) /\ St!Emits(Len(LogRows) + 1, St!NewEffects)
      <4>1. DOMAIN OutboxRows' = DOMAIN OutboxRows \cup E
        BY <3>4, <3>6
      <4>2. DOMAIN OutboxRows' = DOMAIN OutboxRows \cup St!NewEffects
        BY <4>1 DEF St!NewEffects
      <4>3. QED
        BY <3>1, <3>5, <3>6, <4>1, <4>2 DEF St!Emits
    <3>8. UNCHANGED MachineRows
      BY <3>2 DEF MachineRows
    <3>9. St!execute_transition(LogRows'[n + 1], St!NewEffects) /\ St!execute_transition(r, E)
      BY <3>1, <3>7, <3>8 DEF St!execute_transition
    <3>10. StorageCall
      BY <2>1, <3>9 DEF StorageCall, n, r, E
    <3>11. QED
      BY <3>1, <3>9, <3>10 DEF St!Next
  <2>2. ASSUME NEW m \in Machines, NEW d \in Definitions, define_machine(m, d)
        PROVE  St!Next /\ StorageCall
    <3>1. /\ machines \in [Machines -> Definitions \cup {None}] /\ d # None
          /\ machines' = [machines EXCEPT ![m] = d]
      BY <2>0, <2>2, EngineAssumption DEF TypeOK, StorageType, define_machine
    <3>2. UNCHANGED <<LogRows, StateRows, OutboxRows, KeyRows>>
      BY <2>2 DEF define_machine, LogRows, StateRows, OutboxRows, KeyRows
    <3>3. {x \in Machines : machines'[x] # None} = DOMAIN MachineRows \cup {m}
      BY <3>1 DEF MachineRows
    <3>4. MachineRows' = [x \in DOMAIN MachineRows \cup {m} |-> machines'[x]]
      BY <3>3 DEF MachineRows
    <3>5. \A x \in DOMAIN MachineRows \cup {m} :
              machines'[x] = IF x = m THEN d ELSE MachineRows[x]
      BY <3>1 DEF MachineRows
    <3>6. MachineRows' = St!Set(MachineRows, m, d)
      BY <3>4, <3>5 DEF St!Set
    <3>7. m \in DOMAIN MachineRows' /\ MachineRows'[m] = d
      BY <3>4, <3>5
    <3>8. St!store_machine(m, MachineRows'[m])
      BY <3>2, <3>6, <3>7 DEF St!store_machine
    <3>9. QED
      BY <3>7, <3>8 DEF St!Next, StorageCall
  <2>3. ASSUME UNCHANGED <<machines, entity_states, transitions, effects, idempotency>>
        PROVE  UNCHANGED St!vars
    BY <2>3 DEF St!vars, LogRows, StateRows, OutboxRows, KeyRows, MachineRows
  <2>4. ASSUME NEW w \in Workers, WorkerStep(w)
        PROVE  (St!Next /\ StorageCall) \/ UNCHANGED St!vars
    BY <2>0, <2>1, <2>3, <2>4, WorkerSteps DEF StoreStep
  <2>5. QED
    BY <2>2, <2>3, <2>4 DEF Next, vars, storage, Call, register_guard, Shutdown, Restart
<1>3. Consistent /\ [Next]_vars => [St!Next]_(St!vars)
  BY <1>2
<1>4. Consistent /\ [Next]_vars => [StorageCall]_(St!vars)
  BY <1>2
<1>5. QED
  BY AlwaysConsistent, <1>1, <1>3, <1>4, PTL DEF Spec, St!Spec, UsesStore
=============================================================================
