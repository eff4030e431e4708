------------------------ MODULE MachineBuilderProofs ------------------------
(***************************************************************************)
(* Theorems about build() and the planner, for any names and any program   *)
(* of builder calls: what validate() accepts are exactly the partial       *)
(* functions over distinct states, and on those plan_transition never has  *)
(* two rules to choose from.                                               *)
(***************************************************************************)
EXTENDS MachineBuilder, FiniteSetTheorems, TLAPS

USE ZenonT(30), SMTT(30)

-----------------------------------------------------------------------------
(* The tables of a definition, as far as validate() reads them. *)
Tables(d) == d.states \in Seq(StateNames) /\ d.transitions \in Seq(TransitionRule)

LEMMA TableFacts ==
    ASSUME NEW d, Tables(d)
    PROVE  /\ Len(d.states) \in Nat /\ DOMAIN d.states = 1..Len(d.states)
           /\ Len(d.transitions) \in Nat /\ DOMAIN d.transitions = 1..Len(d.transitions)
           /\ \A i \in DOMAIN d.states : d.states[i] \in StateNames
           /\ \A i \in DOMAIN d.transitions :
                 /\ d.transitions[i].from_states \in Seq(StateNames)
                 /\ d.transitions[i].to_state \in StateNames
<1>1. d.states \in Seq(StateNames) /\ d.transitions \in Seq(TransitionRule)
  BY Zenon DEF Tables
<1>2. /\ Len(d.states) \in Nat /\ DOMAIN d.states = 1..Len(d.states)
      /\ Len(d.transitions) \in Nat /\ DOMAIN d.transitions = 1..Len(d.transitions)
      /\ \A i \in DOMAIN d.states : d.states[i] \in StateNames
      /\ \A i \in DOMAIN d.transitions : d.transitions[i] \in TransitionRule
  BY <1>1, SMTT(30)
<1>3. \A r \in TransitionRule : r.from_states \in Seq(StateNames) /\ r.to_state \in StateNames
  BY Zenon DEF TransitionRule
<1>4. QED
  BY <1>2, <1>3, Zenon

(* The image of a finite set is finite, and as large only when no two      *)
(* members have the same image.                                            *)
LEMMA ImageSize ==
    ASSUME NEW S, IsFiniteSet(S), NEW f, f = [x \in S |-> f[x]], NEW T, T = {f[x] : x \in S}
    PROVE  /\ IsFiniteSet(T)
           /\ Cardinality(T) = Cardinality(S) <=> \A x, y \in S : f[x] = f[y] => x = y
<1>1. f \in [S -> T]
  BY Zenon
<1>2. \A t \in T : \E x \in S : f[x] = t
  OBVIOUS
<1>3. f \in Surjection(S, T)
  BY <1>1, <1>2, Zenon DEF Surjection
<1>4. IsFiniteSet(T) /\ (Cardinality(T) = Cardinality(S) <=> f \in Injection(S, T))
  BY <1>3, FS_Surjection, Zenon
<1>5. f \in Injection(S, T) <=> \A x, y \in S : f[x] = f[y] => x = y
  BY <1>1, Zenon DEF Injection, IsInjective
<1>6. QED
  BY <1>4, <1>5, Zenon

LEMMA FiniteDomain ==
    ASSUME NEW T, NEW s \in Seq(T)
    PROVE  IsFiniteSet(DOMAIN s) /\ Cardinality(DOMAIN s) = Len(s)
<1>1. DOMAIN s = 1..Len(s) /\ Len(s) \in Nat /\ 1 \in Int /\ Len(s) \in Int
  BY SMTT(30)
<1>2. (IF 1 > Len(s) THEN 0 ELSE Len(s) - 1 + 1) = Len(s)
  BY <1>1, SMTT(30)
<1>3. QED
  BY <1>1, <1>2, FS_Interval, Zenon

(* The states are as many as their names exactly when none is twice there. *)
LEMMA DistinctStates ==
    ASSUME NEW d, Tables(d)
    PROVE  Cardinality(RangeOf(d.states)) = Len(d.states) <=> ~DuplicateState(d)
<1> DEFINE s == d.states
<1>1. s \in Seq(StateNames)
  BY Zenon DEF Tables
<1>2. IsFiniteSet(DOMAIN s) /\ Cardinality(DOMAIN s) = Len(s)
  BY <1>1, FiniteDomain, Zenon
<1>3. s = [i \in DOMAIN s |-> s[i]]
  BY <1>1, SMTT(30)
<1> HIDE DEF s
<1>4. Cardinality(RangeOf(s)) = Cardinality(DOMAIN s) <=> \A i, j \in DOMAIN s : s[i] = s[j] => i = j
  BY <1>2, <1>3, ImageSize, Zenon DEF RangeOf
<1>5. DuplicateState(d) <=> \E i, j \in DOMAIN s : i # j /\ s[i] = s[j]
  BY Zenon DEF DuplicateState, s
<1>6. QED
  BY <1>2, <1>4, <1>5, Zenon DEF s

LEMMA PositionsFinite ==
    ASSUME NEW d, Tables(d)
    PROVE  IsFiniteSet(PairPositions(d))
<1> DEFINE D == DOMAIN d.transitions
           Of(i) == {<<i, p>> : p \in DOMAIN d.transitions[i].from_states}
           f == [i \in D |-> Of(i)]
           T == {f[i] : i \in D}
<1>1. IsFiniteSet(D)
  BY FiniteDomain, Zenon DEF Tables
<1>2. ASSUME NEW i \in D PROVE IsFiniteSet(Of(i))
  <2> DEFINE P == DOMAIN d.transitions[i].from_states
             g == [p \in P |-> <<i, p>>]
             U == {g[p] : p \in P}
  <2>1. IsFiniteSet(P)
    BY TableFacts, FiniteDomain, Zenon
  <2>2. g = [p \in P |-> g[p]] /\ U = Of(i)
    OBVIOUS
  <2> HIDE DEF P, g
  <2>3. IsFiniteSet(U)
    BY <2>1, <2>2, ImageSize, Zenon
  <2>4. QED
    BY <2>2, <2>3, Zenon
<1>3. f = [i \in D |-> f[i]] /\ \A i \in D : f[i] = Of(i)
  OBVIOUS
<1>4. PairPositions(d) = UNION {Of(i) : i \in D}
  BY Zenon DEF PairPositions
<1> HIDE DEF D, f, Of
<1>a. T = {Of(i) : i \in D}
  BY <1>3
<1>5. IsFiniteSet(T)
  BY <1>1, <1>3, ImageSize, Zenon
<1>6. \A t \in T : IsFiniteSet(t)
  BY <1>2, <1>3, Zenon
<1>7. QED
  BY <1>4, <1>a, <1>5, <1>6, FS_UNION, Zenon

(* The triples of AcceptsEveryPartialFunction. *)
Triples(d) == {<<Pair(d, x), x>> : x \in PairPositions(d)}

LEMMA TriplesFinite ==
    ASSUME NEW d, Tables(d)
    PROVE  IsFiniteSet(Triples(d))
<1> DEFINE P == PairPositions(d)
           f == [x \in P |-> <<Pair(d, x), x>>]
<1>1. f = [x \in P |-> f[x]] /\ \A x \in P : f[x] = <<Pair(d, x), x>>
  OBVIOUS
<1>2. IsFiniteSet(P)
  BY PositionsFinite, Zenon
<1> HIDE DEF P, f
<1>3. IsFiniteSet({f[x] : x \in P})
  BY <1>1, <1>2, ImageSize, Zenon
<1>4. {f[x] : x \in P} = {<<Pair(d, x), x>> : x \in P}
  BY <1>1
<1>5. QED
  BY <1>3, <1>4, Zenon DEF Triples, P

(* The pairs are as many as the triples exactly when no pair has two rules. *)
LEMMA DistinctPairs ==
    ASSUME NEW d, Tables(d)
    PROVE  Cardinality({t[1] : t \in Triples(d)}) = Cardinality(Triples(d)) <=> ~DuplicatePair(d)
<1> DEFINE T == Triples(d)
           f == [t \in T |-> t[1]]
<1>1. f = [t \in T |-> f[t]]
  OBVIOUS
<1>11. \A t \in T : f[t] = t[1]
  OBVIOUS
<1>2. IsFiniteSet(T)
  BY TriplesFinite, Zenon
<1>3. \A t \in T : t[2] \in PairPositions(d) /\ t[1] = Pair(d, t[2])
  BY SMTT(30) DEF Triples
<1>10. \A t, u \in T : t[1] = u[1] /\ t[2] = u[2] => t = u
  BY SMTT(30) DEF Triples
<1>4. \A x \in PairPositions(d) : <<Pair(d, x), x>> \in T
  BY DEF Triples
<1> HIDE DEF T, f
<1>5. Cardinality({f[t] : t \in T}) = Cardinality(T) <=> \A t, u \in T : f[t] = f[u] => t = u
  BY <1>1, <1>2, ImageSize, Zenon
<1>6. {f[t] : t \in T} = {t[1] : t \in T}
  BY <1>11
<1>7. ASSUME DuplicatePair(d) PROVE \E t, u \in T : f[t] = f[u] /\ t # u
  <2>1. PICK x \in PairPositions(d), y \in PairPositions(d) : x # y /\ Pair(d, x) = Pair(d, y)
    BY <1>7, Zenon DEF DuplicatePair
  <2> DEFINE t == <<Pair(d, x), x>>
             u == <<Pair(d, y), y>>
  <2>2. t \in T /\ u \in T /\ t[1] = u[1] /\ t # u
    BY <1>4, <2>1
  <2> HIDE DEF t, u
  <2>3. QED
    BY <1>11, <2>2, SMTT(30)
<1>8. ASSUME ~DuplicatePair(d), NEW t \in T, NEW u \in T, f[t] = f[u] PROVE t = u
  <2>1. t[1] = u[1]
    <3>1. f[t] = t[1] /\ f[u] = u[1]
      BY <1>11, Zenon
    <3>2. QED
      BY <1>8, <3>1, Zenon
  <2>2. t[2] = u[2]
    BY <1>3, <1>8, <2>1, Zenon DEF DuplicatePair
  <2>3. QED
    BY <1>10, <2>1, <2>2, Zenon
<1>9. QED
  BY <1>5, <1>6, <1>7, <1>8, Zenon DEF T

(* A table without duplicate pairs leaves the planner at most one rule. *)
LEMMA SameMatch ==
    ASSUME NEW d, ~DuplicatePair(d), NEW s, NEW e,
           NEW i \in Matching(d, s, e), NEW j \in Matching(d, s, e)
    PROVE  i = j
<1>1. /\ i \in DOMAIN d.transitions /\ d.transitions[i].event = e
      /\ j \in DOMAIN d.transitions /\ d.transitions[j].event = e
      /\ s \in RangeOf(d.transitions[i].from_states)
      /\ s \in RangeOf(d.transitions[j].from_states)
  BY Zenon DEF Matching
<1>2. PICK p \in DOMAIN d.transitions[i].from_states : d.transitions[i].from_states[p] = s
  BY <1>1, Zenon DEF RangeOf
<1>3. PICK q \in DOMAIN d.transitions[j].from_states : d.transitions[j].from_states[q] = s
  BY <1>1, Zenon DEF RangeOf
<1>4. <<i, p>> \in PairPositions(d) /\ <<j, q>> \in PairPositions(d)
  BY <1>1, <1>2, <1>3, SMTT(30) DEF PairPositions
<1>5. Pair(d, <<i, p>>) = <<e, s>> /\ Pair(d, <<j, q>>) = <<e, s>>
  BY <1>1, <1>2, <1>3 DEF Pair
<1>6. <<i, p>> = <<j, q>>
  BY <1>4, <1>5, Zenon DEF DuplicatePair
<1>7. QED
  BY <1>6

LEMMA OneMatch ==
    ASSUME NEW d, ~DuplicatePair(d), NEW s, NEW e
    PROVE  Cardinality(Matching(d, s, e)) <= 1
<1> DEFINE M == Matching(d, s, e)
<1>1. \A i, j \in M : i = j
  BY SameMatch, Zenon
<1> HIDE DEF M
<1>2. CASE M = {}
  <2>1. Cardinality(M) = 0
    BY <1>2, FS_EmptySet, Zenon
  <2>2. Cardinality(M) <= 1
    BY <2>1, SMTT(30)
  <2>3. QED
    BY <2>2, Zenon DEF M
<1>3. CASE M # {}
  <2>1. PICK i \in M : TRUE
    BY <1>3, Zenon
  <2>2. M = {i}
    BY <1>1, <2>1, Zenon
  <2>3. Cardinality(M) = 1
    BY <2>2, FS_Singleton, Zenon
  <2>4. Cardinality(M) <= 1
    BY <2>3, SMTT(30)
  <2>5. QED
    BY <2>4, Zenon DEF M
<1>4. QED
  BY <1>2, <1>3, Zenon

-----------------------------------------------------------------------------
(* What build() accepts, over the sets of states and pairs. *)
WellFormed(d) ==
    /\ Cardinality(RangeOf(d.states)) = Len(d.states)
    /\ d.initial_state \in RangeOf(d.states)
    /\ Cardinality({t[1] : t \in Triples(d)}) = Cardinality(Triples(d))
    /\ \A t \in Triples(d) : t[1][2] \in RangeOf(d.states)
    /\ {r.to_state : r \in RangeOf(d.transitions)} \subseteq RangeOf(d.states)

LEMMA KnownStates ==
    ASSUME NEW d, Tables(d)
    PROVE  ~UnknownState(d) <=> /\ d.initial_state \in RangeOf(d.states)
                                /\ \A t \in Triples(d) : t[1][2] \in RangeOf(d.states)
                                /\ {r.to_state : r \in RangeOf(d.transitions)} \subseteq RangeOf(d.states)
<1> DEFINE S == RangeOf(d.states)
           D == DOMAIN d.transitions
<1> HIDE DEF S
<1>1. (\A t \in Triples(d) : t[1][2] \in S)
        <=> \A i \in D : \A p \in DOMAIN d.transitions[i].from_states :
               d.transitions[i].from_states[p] \in S
  <2>1. ASSUME \A t \in Triples(d) : t[1][2] \in S, NEW i \in D,
               NEW p \in DOMAIN d.transitions[i].from_states
        PROVE  d.transitions[i].from_states[p] \in S
    <3>1. <<i, p>> \in PairPositions(d)
      BY SMTT(30) DEF PairPositions
    <3>2. <<Pair(d, <<i, p>>), <<i, p>>>> \in Triples(d)
      BY <3>1, SMTT(30) DEF Triples
    <3>3. Pair(d, <<i, p>>)[2] \in S
      BY <2>1, <3>2, SMTT(30)
    <3>4. QED
      BY <3>3 DEF Pair
  <2>2. ASSUME NEW t \in Triples(d),
               \A i \in D : \A p \in DOMAIN d.transitions[i].from_states :
                  d.transitions[i].from_states[p] \in S
        PROVE  t[1][2] \in S
    <3>1. PICK x \in PairPositions(d) : t = <<Pair(d, x), x>>
      BY SMTT(30) DEF Triples
    <3>2. PICK i \in D : \E p \in DOMAIN d.transitions[i].from_states : x = <<i, p>>
      BY SMTT(30) DEF PairPositions
    <3>3. PICK p \in DOMAIN d.transitions[i].from_states : x = <<i, p>>
      BY <3>2, Zenon
    <3>4. t[1][2] = d.transitions[i].from_states[p]
      BY <3>1, <3>3, SMTT(30) DEF Pair
    <3>5. QED
      BY <2>2, <3>4, Zenon
  <2>3. QED
    BY <2>1, <2>2, Zenon
<1>2. ({r.to_state : r \in RangeOf(d.transitions)} \subseteq S)
        <=> \A i \in D : d.transitions[i].to_state \in S
  BY SMTT(30) DEF RangeOf
<1>3. \A i \in D : (RangeOf(d.transitions[i].from_states) \subseteq S)
        <=> \A p \in DOMAIN d.transitions[i].from_states : d.transitions[i].from_states[p] \in S
  BY SMTT(30) DEF RangeOf
<1>4. UnknownState(d) <=> \/ d.initial_state \notin S
                          \/ \E i \in D : \/ ~(RangeOf(d.transitions[i].from_states) \subseteq S)
                                          \/ d.transitions[i].to_state \notin S
  BY Zenon DEF UnknownState, S
<1>5. QED
  BY <1>1, <1>2, <1>3, <1>4, Zenon DEF S

(* validate() says Ok to the well-formed definitions and to no others. *)
LEMMA ValidatesWellFormed ==
    ASSUME NEW d, Tables(d)
    PROVE  validate(d) = "Ok" <=> WellFormed(d)
<1>1. validate(d) = "Ok" <=> ~DuplicateState(d) /\ ~UnknownState(d) /\ ~DuplicatePair(d)
  BY Zenon DEF validate
<1>2. QED
  BY <1>1, DistinctStates, DistinctPairs, KnownStates, Zenon DEF WellFormed

-----------------------------------------------------------------------------
Builder == [named: BOOLEAN, version: Nat, states: Seq(StateNames),
            initial_state: StateNames \cup {None},
            transitions: Seq(TransitionRule), effects: Seq(EffectRule)]

(* build() judged the definition as it stands, and an entity of a machine  *)
(* it accepted is in a declared state.                                     *)
Judged ==
    outcome # "building" =>
        (outcome = "Ok" <=> /\ builder.named /\ builder.initial_state # None
                            /\ validate(Definition) = "Ok")
InDeclaredState == outcome = "Ok" => current \in RangeOf(builder.states)

IInv == TypeOK /\ Judged /\ InDeclaredState

LEMMA DefinitionTables ==
    ASSUME TypeOK
    PROVE  /\ Tables(Definition) /\ Definition.states = builder.states
           /\ Definition.initial_state = builder.initial_state
           /\ Definition.transitions = builder.transitions
<1>1. /\ builder.states \in Seq(StateNames) /\ builder.transitions \in Seq(TransitionRule)
  BY Zenon DEF TypeOK
<1>2. /\ Definition.states = builder.states /\ Definition.transitions = builder.transitions
      /\ Definition.initial_state = builder.initial_state
  BY Zenon DEF Definition
<1>3. QED
  BY <1>1, <1>2, Zenon DEF Tables

LEMMA InitOK == Init => IInv
<1> SUFFICES ASSUME Init PROVE IInv
  OBVIOUS
<1>1. <<>> \in Seq(StateNames) /\ <<>> \in Seq(TransitionRule) /\ <<>> \in Seq(EffectRule) /\ 0 \in Nat
  BY SMTT(30)
<1>2. builder \in Builder
  BY <1>1, Zenon DEF Init, new, Builder
<1>3. TypeOK
  BY <1>2, Zenon DEF Init, TypeOK, Builder
<1>4. QED
  BY <1>3, Zenon DEF Init, IInv, Judged, InDeclaredState

(* A builder method: the outcome is open, so only the shape is at stake. *)
LEMMA BuildingOK ==
    ASSUME IInv, NEW b \in Builder, Building(b)
    PROVE  IInv'
<1>1. outcome = "building" /\ outcome' = outcome /\ current' = current /\ builder' = b
  BY Zenon DEF Building
<1>2. TypeOK'
  BY <1>1, Zenon DEF IInv, TypeOK, Builder
<1>3. QED
  BY <1>1, <1>2, Zenon DEF IInv, Judged, InDeclaredState

LEMMA BuilderFields ==
    ASSUME TypeOK
    PROVE  /\ builder \in Builder /\ builder.states \in Seq(StateNames)
           /\ builder.transitions \in Seq(TransitionRule) /\ builder.effects \in Seq(EffectRule)
           /\ builder.initial_state \in StateNames \cup {None}
BY Zenon DEF TypeOK, Builder

LEMMA StatesOK ==
    ASSUME IInv, NEW ss \in Seq(StateNames), Building([builder EXCEPT !.states = ss])
    PROVE  IInv'
<1>1. [builder EXCEPT !.states = ss] \in Builder
  <2>1. builder \in Builder
    BY BuilderFields, Zenon DEF IInv
  <2>2. QED
    BY <2>1, Zenon DEF Builder
<1>2. QED
  BY <1>1, BuildingOK, Zenon

LEMMA RuleOK ==
    ASSUME IInv, NEW e \in EventNames, NEW from \in FromLists, NEW to \in StateNames,
           NEW guards \in Seq(GuardNames), transition_with_guards(e, from, to, guards)
    PROVE  IInv'
<1> DEFINE r == [event |-> e, from_states |-> from, to_state |-> to, guards |-> guards]
           ts == Append(builder.transitions, r)
<1>1. from \in Seq(StateNames)
  BY BuilderAssumption, Zenon
<1>2. r \in TransitionRule
  BY <1>1, Zenon DEF TransitionRule
<1>3. builder \in Builder /\ builder.transitions \in Seq(TransitionRule)
  BY BuilderFields, Zenon DEF IInv
<1>4. Building([builder EXCEPT !.transitions = ts])
  BY Zenon DEF transition_with_guards
<1> HIDE DEF r
<1>5. ts \in Seq(TransitionRule)
  BY <1>2, <1>3, SMTT(30)
<1> HIDE DEF ts
<1>6. [builder EXCEPT !.transitions = ts] \in Builder
  BY <1>3, <1>5, Zenon DEF Builder
<1>7. QED
  BY <1>4, <1>6, BuildingOK, Zenon

LEMMA EffectOK ==
    ASSUME IInv, NEW e \in EventNames, NEW f \in EffectNames, effect(e, f)
    PROVE  IInv'
<1> DEFINE r == [on_event |-> e, effect |-> f]
           fs == Append(builder.effects, r)
<1>1. r \in EffectRule
  BY Zenon DEF EffectRule
<1>2. builder \in Builder /\ builder.effects \in Seq(EffectRule)
  BY BuilderFields, Zenon DEF IInv
<1>3. Building([builder EXCEPT !.effects = fs])
  BY Zenon DEF effect
<1> HIDE DEF r
<1>4. fs \in Seq(EffectRule)
  BY <1>1, <1>2, SMTT(30)
<1> HIDE DEF fs
<1>5. [builder EXCEPT !.effects = fs] \in Builder
  BY <1>2, <1>4, Zenon DEF Builder
<1>6. QED
  BY <1>3, <1>5, BuildingOK, Zenon

LEMMA BuildOK == ASSUME IInv, build PROVE IInv'
<1>1. /\ outcome = "building" /\ builder' = builder
      /\ outcome' = (IF ~builder.named \/ builder.initial_state = None
                     THEN "InvalidDefinition" ELSE validate(Definition))
      /\ current' = (IF outcome' = "Ok" THEN builder.initial_state ELSE None)
  BY Zenon DEF build
<1>2. validate(Definition) \in {"Ok", "DuplicateState", "InvalidDefinition"}
  BY Zenon DEF validate
<1>3. outcome' = "Ok" <=> /\ builder.named /\ builder.initial_state # None
                          /\ validate(Definition) = "Ok"
  BY <1>1, Zenon
<1>4. builder.initial_state \in StateNames \cup {None} /\ None \notin StateNames
  BY BuilderFields, BuilderAssumption, Zenon DEF IInv
<1>5. TypeOK'
  BY <1>1, <1>2, <1>3, <1>4, Zenon DEF IInv, TypeOK
<1>6. Judged'
  BY <1>1, <1>3, Zenon DEF Judged, Definition
<1>7. ASSUME validate(Definition) = "Ok" PROVE builder.initial_state \in RangeOf(builder.states)
  <2>1. ~UnknownState(Definition)
    BY <1>7, Zenon DEF validate
  <2>2. Definition.initial_state \in RangeOf(Definition.states)
    BY <2>1, Zenon DEF UnknownState
  <2>3. QED
    BY <2>2, DefinitionTables, Zenon DEF IInv
<1>8. InDeclaredState'
  BY <1>1, <1>3, <1>7, Zenon DEF InDeclaredState
<1>9. QED
  BY <1>5, <1>6, <1>8, Zenon DEF IInv

LEMMA AcceptedTables ==
    ASSUME IInv, outcome = "Ok"
    PROVE  ~DuplicatePair(Definition) /\ ~UnknownState(Definition)
<1>1. validate(Definition) = "Ok"
  BY Zenon DEF IInv, Judged
<1>2. QED
  BY <1>1, Zenon DEF validate

LEMMA WalkOK == ASSUME IInv, NEW e \in EventNames, walk(e) PROVE IInv'
<1> DEFINE d == Definition
           M == Matching(d, current, e)
           i == CHOOSE x \in M : \A y \in M : x <= y
<1>1. /\ outcome = "Ok" /\ builder' = builder /\ outcome' = outcome /\ M # {}
      /\ current' = d.transitions[i].to_state
  BY Zenon DEF walk, Planned, plan_transition
<1>2. Tables(d) /\ d.states = builder.states
  BY DefinitionTables, Zenon DEF IInv
<1>3. ~DuplicatePair(d) /\ ~UnknownState(d)
  BY <1>1, AcceptedTables, Zenon
<1>4. M \subseteq DOMAIN d.transitions
  BY Zenon DEF Matching
<1>5. \A x, y \in M : x = y
  BY <1>3, SameMatch, Zenon
<1>6. \A x \in DOMAIN d.transitions : x <= x
  <2>1. DOMAIN d.transitions = 1..Len(d.transitions) /\ Len(d.transitions) \in Nat
    BY <1>2, TableFacts, Zenon
  <2>2. QED
    BY <2>1, SMTT(30)
<1> HIDE DEF M, d
<1>7. \E x \in M : \A y \in M : x <= y
  BY <1>1, <1>4, <1>5, <1>6, Zenon
<1>8. i \in M
  BY <1>7, Zenon
<1> HIDE DEF i
<1>9. current' \in RangeOf(d.states)
  BY <1>1, <1>3, <1>4, <1>8, Zenon DEF UnknownState
<1>10. current' \in StateNames
  BY <1>1, <1>2, <1>4, <1>8, TableFacts, Zenon
<1>11. TypeOK'
  BY <1>1, <1>10, BuilderAssumption, Zenon DEF IInv, TypeOK
<1>12. Judged' /\ InDeclaredState'
  BY <1>1, <1>2, <1>9, Zenon DEF IInv, Judged, InDeclaredState, Definition
<1>13. QED
  BY <1>11, <1>12, Zenon DEF IInv

LEMMA NextOK == IInv /\ [Next]_vars => IInv'
<1> SUFFICES ASSUME IInv, [Next]_vars PROVE IInv'
  OBVIOUS
<1>1. /\ builder \in Builder /\ builder.states \in Seq(StateNames)
  BY BuilderFields, Zenon DEF IInv
<1>2. CASE name
  <2>1. [builder EXCEPT !.named = TRUE] \in Builder
    BY <1>1, Zenon DEF Builder
  <2>2. QED
    BY <1>2, <2>1, BuildingOK, Zenon DEF name
<1>3. CASE version
  <2>1. 1 \in Nat
    BY SMTT(30)
  <2>2. [builder EXCEPT !.version = 1] \in Builder
    BY <1>1, <2>1, Zenon DEF Builder
  <2>3. QED
    BY <1>3, <2>2, BuildingOK, Zenon DEF version
<1>4. CASE build
  BY <1>4, BuildOK, Zenon
<1>5. ASSUME NEW s \in StateNames, state(s) PROVE IInv'
  <2>1. Append(builder.states, s) \in Seq(StateNames)
    BY <1>1, SMTT(30)
  <2>2. QED
    BY <1>5, <2>1, StatesOK, Zenon DEF state
<1>6. ASSUME NEW s \in StateNames, initial_state(s) PROVE IInv'
  <2>1. [builder EXCEPT !.initial_state = s] \in Builder
    BY <1>1, Zenon DEF Builder
  <2>2. QED
    BY <1>6, <2>1, BuildingOK, Zenon DEF initial_state
<1>7. ASSUME NEW ss \in FromLists, states(ss) PROVE IInv'
  <2>1. ss \in Seq(StateNames)
    BY BuilderAssumption, Zenon
  <2>2. builder.states \o ss \in Seq(StateNames)
    BY <1>1, <2>1, SMTT(30)
  <2>3. QED
    BY <1>7, <2>2, StatesOK, Zenon DEF states
<1>8. ASSUME NEW e \in EventNames, walk(e) PROVE IInv'
  BY <1>8, WalkOK, Zenon
<1>9. ASSUME NEW e \in EventNames, NEW f \in EffectNames, effect(e, f) PROVE IInv'
  BY <1>9, EffectOK, Zenon
<1>10. ASSUME NEW e \in EventNames, NEW from \in FromLists, NEW to \in StateNames,
              transition(e, from, to)
       PROVE  IInv'
  <2>1. <<>> \in Seq(GuardNames)
    BY SMTT(30)
  <2>2. QED
    BY <1>10, <2>1, RuleOK, Zenon DEF transition
<1>11. ASSUME NEW e \in EventNames, NEW from \in FromLists, NEW to \in StateNames,
              NEW guards \in GuardLists, transition_with_guards(e, from, to, guards)
       PROVE  IInv'
  <2>1. guards \in Seq(GuardNames)
    BY BuilderAssumption, Zenon
  <2>2. QED
    BY <1>11, <2>1, RuleOK, Zenon
<1>12. CASE UNCHANGED vars
  BY <1>12, Zenon DEF vars, IInv, TypeOK, Judged, InDeclaredState, Definition
<1>13. QED
  BY <1>2, <1>3, <1>4, <1>5, <1>6, <1>7, <1>8, <1>9, <1>10, <1>11, <1>12, Zenon DEF Next

(* Whatever builder methods run, build() has said Ok exactly when name and *)
(* initial state are set and validate() accepts the tables, and an entity  *)
(* that walks the machine is in a declared state.                          *)
THEOREM AlwaysSound == Spec => []IInv
<1>1. QED
  BY InitOK, NextOK, PTL DEF Spec

LEMMA SoundWalks == IInv => WalksDeterministically
<1> SUFFICES ASSUME IInv, outcome = "Ok"
             PROVE  /\ current \in RangeOf(builder.states)
                    /\ \A e \in EventNames : Cardinality(Matching(Definition, current, e)) <= 1
  BY Zenon DEF WalksDeterministically
<1>1. ~DuplicatePair(Definition)
  BY AcceptedTables, Zenon
<1>2. QED
  BY <1>1, OneMatch, Zenon DEF IInv, InDeclaredState

(* "this lookup is always deterministic" (plan_transition): for every      *)
(* definition build() accepts, of any size, an entity stays in declared    *)
(* states and no event ever has two rules to choose from.                  *)
THEOREM AlwaysWalksDeterministically == Spec => []WalksDeterministically
<1>1. QED
  BY AlwaysSound, SoundWalks, PTL

LEMMA SoundVerdicts == IInv => AcceptsEveryPartialFunction
<1> SUFFICES ASSUME IInv PROVE AcceptsEveryPartialFunction
  OBVIOUS
<1> DEFINE d == Definition
<1>1. /\ Tables(d) /\ d.states = builder.states /\ d.initial_state = builder.initial_state
      /\ d.transitions = builder.transitions
  BY DefinitionTables, Zenon DEF IInv
<1>2. \A s \in RangeOf(d.states) : s # None
  BY <1>1, TableFacts, BuilderAssumption, Zenon DEF RangeOf
<1>3. validate(d) = "Ok" <=> WellFormed(d)
  BY <1>1, ValidatesWellFormed, Zenon
<1>4. outcome # "building" => (outcome = "Ok" <=> builder.named /\ WellFormed(d))
  <2>1. WellFormed(d) => builder.initial_state # None
    BY <1>1, <1>2, Zenon DEF WellFormed
  <2>2. QED
    BY <1>3, <2>1, Zenon DEF IInv, Judged
<1>5. QED
  BY <1>1, <1>4, Zenon DEF AcceptsEveryPartialFunction, WellFormed, Triples

(* build() accepts a named definition exactly when its table is a partial  *)
(* function over distinct declared states: validate() refuses nothing it   *)
(* need not, and lets nothing through, however long the lists are.         *)
THEOREM AlwaysAcceptsEveryPartialFunction == Spec => []AcceptsEveryPartialFunction
<1>1. QED
  BY AlwaysSound, SoundVerdicts, PTL

=============================================================================
