-------------------------- MODULE DispatcherProofs --------------------------
(***************************************************************************)
(* Theorems about the change stream, for any set of subscribers, filters,  *)
(* start positions and batch sizes, with failing reads, receivers that die *)
(* at any moment and restarts.  What a subscriber must satisfy is stated   *)
(* on the values of its variables: s is its record, p how far it has been  *)
(* served, and lg the log.                                                 *)
(***************************************************************************)
EXTENDS Dispatcher, FiniteSetTheorems, TLAPS

USE ZenonT(30), SMTT(30)

-----------------------------------------------------------------------------
Got(s) == {s.delivered[n] : n \in DOMAIN s.delivered}
Due(s, lg, i) == s.after < i /\ s.machine_filter \in {None, lg[i]}

Increasing(s) == \A m, n \in DOMAIN s.delivered : m < n => s.delivered[m] < s.delivered[n]
OnlyDue(s, p, lg) ==
    \A i \in Got(s) : i \in DOMAIN lg /\ i <= p /\ Due(s, lg, i)
NoGap(s, lg) ==
    \A g \in Got(s), i \in DOMAIN lg : i < g /\ Due(s, lg, i) => i \in Got(s)
Served(s, p, lg) ==
    s.alive => \A i \in DOMAIN lg : i <= p /\ Due(s, lg, i) => i \in Got(s)

(* A subscriber served through p; it is served past its start position     *)
(* only with records there are.                                            *)
StreamOK(s, p, lg) ==
    /\ s \in Subscriber /\ p \in Nat /\ s.after <= p /\ (p = s.after \/ p <= Len(lg))
    /\ s.delivered_through <= p
    /\ Increasing(s) /\ OnlyDue(s, p, lg) /\ NoGap(s, lg) /\ Served(s, p, lg)

(* How far a subscriber has been served: the pass has a cursor of its own. *)
Progress(h) ==
    IF pc \in Passing /\ subscribers[at] = h THEN cursor ELSE sub[h].delivered_through

StreamsOK == \A h \in Registered : StreamOK(sub[h], Progress(h), log)

(* The Vec holds a subscriber once, and a read begins where it was served. *)
Distinct == \A i, j \in DOMAIN subscribers : subscribers[i] = subscribers[j] => i = j
ReadsFromCursor == pc = "read" => cursor = sub[subscribers[at]].delivered_through

(* The inductive invariant behind delivery. *)
IInv == TypeOK /\ Distinct /\ ReadsFromCursor /\ StreamsOK

(* An id found dead is the id of a subscriber that lost its receiver. *)
DeadAreDead == \A x \in dead : \E g \in Registered : sub[g].id = x /\ ~sub[g].alive

LInv == DeadAreDead /\ PrunedSharesDeadId

-----------------------------------------------------------------------------
(* The record of a subscriber and the ways it changes. *)
LEMMA SubscriberFields ==
    ASSUME NEW s \in Subscriber
    PROVE  /\ s.id \in Ids /\ s.machine_filter \in Filters /\ s.after \in Nat
           /\ s.delivered_through \in Nat /\ s.alive \in BOOLEAN /\ s.left \in BOOLEAN
           /\ s.joined \in Nat /\ s.delivered \in Seq(Nat)
           /\ s # None
BY DispatcherAssumption DEF Subscriber

LEMMA NewSubscriber ==
    ASSUME NEW id \in Ids, NEW filter \in Filters, NEW after \in Nat, NEW joined \in Nat, NEW s,
           s = [id |-> id, machine_filter |-> filter, after |-> after, delivered_through |-> after,
                alive |-> TRUE, left |-> FALSE, joined |-> joined, delivered |-> <<>>]
    PROVE  /\ s \in Subscriber /\ s.id = id /\ s.after = after /\ s.delivered_through = after
           /\ s.alive = TRUE /\ s.left = FALSE /\ s.delivered = <<>>
<1>1. <<>> \in Seq(Nat) /\ TRUE \in BOOLEAN /\ FALSE \in BOOLEAN
  BY SMTT(30)
<1>2. QED
  BY <1>1 DEF Subscriber

LEMMA LeavingSubscriber ==
    ASSUME NEW s \in Subscriber, NEW d, d = [s EXCEPT !.left = TRUE]
    PROVE  /\ d \in Subscriber /\ d.id = s.id /\ d.machine_filter = s.machine_filter
           /\ d.after = s.after /\ d.delivered_through = s.delivered_through
           /\ d.alive = s.alive /\ d.delivered = s.delivered /\ d.left = TRUE
BY DEF Subscriber

LEMMA DeadSubscriber ==
    ASSUME NEW s \in Subscriber, NEW d, d = [s EXCEPT !.alive = FALSE]
    PROVE  /\ d \in Subscriber /\ d.id = s.id /\ d.machine_filter = s.machine_filter
           /\ d.after = s.after /\ d.delivered_through = s.delivered_through
           /\ d.left = s.left /\ d.delivered = s.delivered /\ d.alive = FALSE
BY DEF Subscriber

-----------------------------------------------------------------------------
(* What a stream that is in order survives. *)
LEMMA StreamFacts ==
    ASSUME NEW s, NEW p, NEW lg \in Seq(Machines), StreamOK(s, p, lg)
    PROVE  /\ s \in Subscriber /\ p \in Nat /\ s.after \in Nat /\ s.delivered_through \in Nat
           /\ s.delivered \in Seq(Nat) /\ s.delivered_through <= p /\ s.after <= p
           /\ \A i \in Got(s) : i \in Nat
<1>1. s \in Subscriber /\ p \in Nat /\ s.delivered_through <= p /\ s.after <= p
  BY Zenon DEF StreamOK
<1>2. s.after \in Nat /\ s.delivered_through \in Nat /\ s.delivered \in Seq(Nat)
  BY <1>1, SubscriberFields, Zenon
<1>3. \A i \in Got(s) : i \in Nat
  BY <1>2, SMTT(30) DEF Got
<1>4. QED
  BY <1>1, <1>2, <1>3, Zenon

(* The log grows: a record is new to those served up to its end. *)
LEMMA StreamAppend ==
    ASSUME NEW s, NEW p, NEW lg \in Seq(Machines), NEW m \in Machines, StreamOK(s, p, lg)
    PROVE  StreamOK(s, p, Append(lg, m))
<1> DEFINE l == Append(lg, m)
<1>1. /\ l \in Seq(Machines) /\ Len(l) = Len(lg) + 1 /\ Len(lg) \in Nat
      /\ DOMAIN lg = 1..Len(lg) /\ DOMAIN l = 1..(Len(lg) + 1)
      /\ \A i \in DOMAIN lg : i \in DOMAIN l /\ l[i] = lg[i]
  BY SMTT(30)
<1> HIDE DEF l
<1>2. /\ p \in Nat /\ s.after \in Nat /\ \A i \in Got(s) : i \in Nat
  BY StreamFacts, Zenon
<1>3. /\ s \in Subscriber /\ s.after <= p /\ (p = s.after \/ p <= Len(lg))
      /\ s.delivered_through <= p /\ Increasing(s)
      /\ OnlyDue(s, p, lg) /\ NoGap(s, lg) /\ Served(s, p, lg)
  BY Zenon DEF StreamOK
<1>4. \A i \in DOMAIN lg : Due(s, lg, i) <=> Due(s, l, i)
  BY <1>1, Zenon DEF Due
<1>5. OnlyDue(s, p, l)
  BY <1>1, <1>3, <1>4, Zenon DEF OnlyDue
<1>6. NoGap(s, l)
  <2>1. SUFFICES ASSUME NEW g \in Got(s), NEW i \in DOMAIN l, i < g, Due(s, l, i)
                 PROVE  i \in Got(s)
    BY Zenon DEF NoGap
  <2>2. g \in DOMAIN lg
    BY <1>3, Zenon DEF OnlyDue
  <2>3. i \in DOMAIN lg
    BY <1>1, <2>1, <2>2, SMTT(30)
  <2>4. QED
    BY <1>3, <1>4, <2>1, <2>3, Zenon DEF NoGap
<1>7. Served(s, p, l)
  <2>1. SUFFICES ASSUME s.alive, NEW i \in DOMAIN l, i <= p, Due(s, l, i)
                 PROVE  i \in Got(s)
    BY Zenon DEF Served
  <2>2. s.after < i
    BY <2>1, Zenon DEF Due
  <2>3. i \in DOMAIN lg
    BY <1>1, <1>2, <1>3, <2>1, <2>2, SMTT(30)
  <2>4. QED
    BY <1>3, <1>4, <2>1, <2>3, Zenon DEF Served
<1>8. p <= Len(lg) => p <= Len(l)
  BY <1>1, <1>2, SMTT(30)
<1>9. QED
  BY <1>2, <1>3, <1>5, <1>6, <1>7, <1>8, Zenon DEF StreamOK, l

(* The same subscription and the same records sent. *)
SameStream(s, d) ==
    /\ d \in Subscriber
    /\ d.after = s.after /\ d.machine_filter = s.machine_filter /\ d.delivered = s.delivered

LEMMA SameStreamFacts ==
    ASSUME NEW s, NEW d, SameStream(s, d), NEW p, NEW lg
    PROVE  /\ Got(d) = Got(s) /\ \A i : Due(d, lg, i) <=> Due(s, lg, i)
           /\ (Increasing(s) => Increasing(d))
           /\ (OnlyDue(s, p, lg) => OnlyDue(d, p, lg))
           /\ (NoGap(s, lg) => NoGap(d, lg))
           /\ (Served(s, p, lg) /\ (d.alive => s.alive) => Served(d, p, lg))
<1>1. Got(d) = Got(s)
  BY Zenon DEF SameStream, Got
<1>2. \A i : Due(d, lg, i) <=> Due(s, lg, i)
  BY Zenon DEF SameStream, Due
<1>3. Increasing(s) => Increasing(d)
  BY Zenon DEF SameStream, Increasing
<1>4. OnlyDue(s, p, lg) => OnlyDue(d, p, lg)
  BY <1>1, <1>2, Zenon DEF OnlyDue
<1>5. NoGap(s, lg) => NoGap(d, lg)
  BY <1>1, <1>2, Zenon DEF NoGap
<1>6. Served(s, p, lg) /\ (d.alive => s.alive) => Served(d, p, lg)
  BY <1>1, <1>2, Zenon DEF Served
<1>7. QED
  BY <1>1, <1>2, <1>3, <1>4, <1>5, <1>6, Zenon

(* The subscriber leaves, its receiver goes, or its cursor is stored. *)
LEMMA StreamKept ==
    ASSUME NEW s, NEW d, NEW p, NEW lg, StreamOK(s, p, lg), SameStream(s, d),
           d.alive => s.alive, d.delivered_through <= p
    PROVE  StreamOK(d, p, lg)
<1>1. /\ d \in Subscriber /\ d.after = s.after
  BY Zenon DEF SameStream
<1>2. QED
  BY <1>1, SameStreamFacts, Zenon DEF StreamOK

(* A record the filter leaves out, or one that a closed channel refuses. *)
LEMMA StreamPassed ==
    ASSUME NEW s, NEW d, NEW p, NEW lg \in Seq(Machines), StreamOK(s, p, lg), SameStream(s, d),
           p + 1 \in DOMAIN lg, d.delivered_through <= p + 1,
           d.alive => s.alive /\ s.machine_filter \notin {None, lg[p + 1]}
    PROVE  StreamOK(d, p + 1, lg)
<1> DEFINE q == p + 1
<1>1. /\ p \in Nat /\ s.after \in Nat /\ \A i \in Got(s) : i \in Nat
  BY StreamFacts, Zenon
<1>2. /\ s.after <= p /\ Increasing(s) /\ OnlyDue(s, p, lg) /\ NoGap(s, lg) /\ Served(s, p, lg)
  BY Zenon DEF StreamOK
<1>3. /\ q \in Nat /\ s.after <= q /\ q <= Len(lg) /\ \A i \in Nat : i <= q => i <= p \/ i = q
      /\ \A i \in Nat : i <= p => i <= q
  BY <1>1, <1>2, SMTT(30)
<1>a. DOMAIN lg \subseteq Nat
  BY SMTT(30)
<1>4. /\ d \in Subscriber /\ d.after = s.after /\ d.delivered_through <= q
      /\ (d.alive => s.alive /\ s.machine_filter \notin {None, lg[q]})
  BY Zenon DEF SameStream
<1> HIDE DEF q
<1>5. OnlyDue(s, q, lg)
  BY <1>1, <1>2, <1>3, Zenon DEF OnlyDue
<1>6. d.alive => Served(s, q, lg)
  <2>1. SUFFICES ASSUME d.alive, NEW i \in DOMAIN lg, i <= q, Due(s, lg, i)
                 PROVE  i \in Got(s)
    BY Zenon DEF Served
  <2>2. i # q
    BY <1>4, <2>1, Zenon DEF Due
  <2>3. i <= p
    BY <1>3, <1>a, <2>1, <2>2, Zenon
  <2>4. QED
    BY <1>2, <1>4, <2>1, <2>3, Zenon DEF Served
<1>7. /\ Increasing(d) /\ OnlyDue(d, q, lg) /\ NoGap(d, lg)
      /\ (d.alive => Served(d, q, lg))
  BY <1>2, <1>4, <1>5, <1>6, SameStreamFacts, Zenon
<1>8. Served(d, q, lg)
  BY <1>7, Zenon DEF Served
<1>9. QED
  BY <1>3, <1>4, <1>7, <1>8, Zenon DEF StreamOK, q

(* A record the subscriber asked for is sent to it. *)
LEMMA StreamSent ==
    ASSUME NEW s, NEW d \in Subscriber, NEW p, NEW lg \in Seq(Machines), StreamOK(s, p, lg),
           d.after = s.after, d.machine_filter = s.machine_filter,
           d.delivered = Append(s.delivered, p + 1),
           p + 1 \in DOMAIN lg, d.delivered_through <= p + 1,
           s.alive, s.machine_filter \in {None, lg[p + 1]}
    PROVE  StreamOK(d, p + 1, lg)
<1> DEFINE q == p + 1
           got == s.delivered
<1>1. /\ p \in Nat /\ s.after \in Nat /\ got \in Seq(Nat) /\ \A i \in Got(s) : i \in Nat
  BY StreamFacts, Zenon
<1>2. /\ s.after <= p /\ Increasing(s) /\ OnlyDue(s, p, lg) /\ NoGap(s, lg) /\ Served(s, p, lg)
  BY Zenon DEF StreamOK
<1>3. /\ q \in Nat /\ s.after <= q /\ s.after < q /\ q <= Len(lg)
      /\ \A i \in Nat : (i <= q => i <= p \/ i = q) /\ (i < q => i <= p) /\ (i <= p => i <= q /\ i < q)
  BY <1>1, <1>2, SMTT(30)
<1>a. DOMAIN lg \subseteq Nat
  BY SMTT(30)
<1>b. /\ d.delivered = Append(got, q) /\ d.after = s.after /\ d.machine_filter = s.machine_filter
      /\ q \in DOMAIN lg /\ d.delivered_through <= q
      /\ s.machine_filter \in {None, lg[q]}
  OBVIOUS
<1> HIDE DEF q
<1>4. /\ DOMAIN d.delivered = DOMAIN got \cup {Len(got) + 1} /\ d.delivered[Len(got) + 1] = q
      /\ \A n \in DOMAIN got : n < Len(got) + 1 /\ d.delivered[n] = got[n]
      /\ \A n \in DOMAIN got : ~(Len(got) + 1 < n)
      /\ ~(Len(got) + 1 < Len(got) + 1)
  BY <1>1, <1>3, <1>b, SMTT(30)
<1> HIDE DEF got
<1>5. Got(d) = Got(s) \cup {q}
  <2>1. ASSUME NEW i \in Got(d) PROVE i \in Got(s) \cup {q}
    <3>1. PICK n \in DOMAIN d.delivered : i = d.delivered[n]
      BY Zenon DEF Got
    <3>2. n \in DOMAIN got => i \in Got(s)
      BY <1>4, <3>1, Zenon DEF Got, got
    <3>3. QED
      BY <1>4, <3>1, <3>2, Zenon
  <2>2. q \in Got(d)
    BY <1>4, Zenon DEF Got
  <2>3. \A i \in Got(s) : i \in Got(d)
    BY <1>4, Zenon DEF Got, got
  <2>4. QED
    BY <2>1, <2>2, <2>3, Zenon
<1>6. \A i : Due(d, lg, i) <=> Due(s, lg, i)
  BY <1>b, Zenon DEF Due
<1>7. Due(s, lg, q)
  BY <1>3, <1>b, Zenon DEF Due
<1>8. \A i \in Got(s) : i <= p /\ i < q /\ i <= q
  BY <1>1, <1>2, <1>3, Zenon DEF OnlyDue
<1>9. Increasing(d)
  <2>1. \A n \in DOMAIN got : got[n] \in Got(s)
    BY Zenon DEF Got, got
  <2>2. \A m, n \in DOMAIN got : m < n => got[m] < got[n]
    BY <1>2, Zenon DEF Increasing, got
  <2>3. SUFFICES ASSUME NEW m \in DOMAIN d.delivered, NEW n \in DOMAIN d.delivered, m < n
                 PROVE  d.delivered[m] < d.delivered[n]
    BY Zenon DEF Increasing
  <2>4. m \in DOMAIN got
    BY <1>4, <2>3, Zenon
  <2>5. CASE n \in DOMAIN got
    BY <1>4, <2>2, <2>3, <2>4, <2>5, Zenon
  <2>6. CASE n = Len(got) + 1
    BY <1>4, <1>8, <2>1, <2>4, <2>6, Zenon
  <2>7. QED
    BY <1>4, <2>5, <2>6, Zenon
<1>10. q <= q
  BY <1>3, SMTT(30)
<1>11. OnlyDue(d, q, lg)
  BY <1>2, <1>b, <1>5, <1>6, <1>7, <1>8, <1>10, Zenon DEF OnlyDue
<1>12. \A i \in DOMAIN lg : i <= p /\ Due(s, lg, i) => i \in Got(s)
  BY <1>2, Zenon DEF Served
<1>13. Served(d, q, lg)
  BY <1>3, <1>a, <1>5, <1>6, <1>12, Zenon DEF Served
<1>14. NoGap(d, lg)
  <2>1. SUFFICES ASSUME NEW g \in Got(d), NEW i \in DOMAIN lg, i < g, Due(s, lg, i)
                 PROVE  i \in Got(s)
    BY <1>5, <1>6, Zenon DEF NoGap
  <2>2. CASE g = q
    BY <1>3, <1>a, <1>12, <2>1, <2>2, Zenon
  <2>3. CASE g \in Got(s)
    BY <1>2, <2>1, <2>3, Zenon DEF NoGap
  <2>4. QED
    BY <1>5, <2>2, <2>3, Zenon
<1>15. d.after <= q
  BY <1>3, <1>b, Zenon
<1>16. QED
  BY <1>3, <1>b, <1>9, <1>11, <1>13, <1>14, <1>15, Zenon DEF StreamOK, q

(* A new subscriber starts at its position, within the log or past it. *)
LEMMA StreamBegins ==
    ASSUME NEW s \in Subscriber, NEW lg \in Seq(Machines), s.delivered = <<>>, s.delivered_through = s.after
    PROVE  StreamOK(s, s.after, lg)
<1>1. s.after \in Nat /\ s.after <= s.after
  <2>1. s.after \in Nat
    BY SubscriberFields, Zenon
  <2>2. QED
    BY <2>1, SMTT(30)
<1>2. DOMAIN s.delivered = {}
  BY SMTT(30)
<1>3. Got(s) = {}
  BY <1>2, Zenon DEF Got
<1>4. Increasing(s) /\ OnlyDue(s, s.after, lg) /\ NoGap(s, lg)
  BY <1>2, <1>3, Zenon DEF Increasing, OnlyDue, NoGap
<1>5. \A i \in DOMAIN lg : ~(i <= s.after /\ s.after < i)
  BY <1>1, SMTT(30)
<1>6. Served(s, s.after, lg)
  BY <1>5, Zenon DEF Served, Due
<1>7. QED
  BY <1>1, <1>4, <1>6, Zenon DEF StreamOK

-----------------------------------------------------------------------------
(* Vec::retain: a position of K is numbered by how many of K it follows,   *)
(* and every number up to the size of K is that of one position.           *)
Rank(K, i) == Cardinality({j \in K : j <= i})

LEMMA RankRange ==
    ASSUME NEW K \in SUBSET Nat, IsFiniteSet(K), NEW i \in K
    PROVE  Rank(K, i) \in 1..Cardinality(K)
<1> DEFINE B == {j \in K : j <= i}
<1>1. B \in SUBSET K /\ i \in B
  BY SMTT(30)
<1> HIDE DEF B
<1>2. IsFiniteSet(B) /\ Cardinality(B) <= Cardinality(K)
  BY <1>1, FS_Subset, Zenon
<1>3. Cardinality(B) \in Nat /\ Cardinality(K) \in Nat
  BY <1>2, FS_CardinalityType, Zenon
<1>4. Cardinality(B) # 0
  BY <1>1, <1>2, FS_EmptySet, Zenon
<1>5. Cardinality(B) \in 1..Cardinality(K)
  BY <1>2, <1>3, <1>4, SMTT(30)
<1>6. QED
  BY <1>5, Zenon DEF Rank, B

LEMMA RankIncreases ==
    ASSUME NEW K \in SUBSET Nat, IsFiniteSet(K), NEW i \in K, NEW k \in K, i < k
    PROVE  Rank(K, i) < Rank(K, k)
<1> DEFINE B == {j \in K : j <= i}
           C == {j \in K : j <= k}
<1>1. C \in SUBSET K /\ B \in SUBSET C /\ k \in C /\ k \notin B
  <2>1. \A j \in K : j <= i => j <= k
    BY SMTT(30)
  <2>2. k <= k /\ ~(k <= i)
    BY SMTT(30)
  <2>3. QED
    BY <2>1, <2>2, Zenon
<1> HIDE DEF B, C
<1>2. IsFiniteSet(C)
  BY <1>1, FS_Subset, Zenon
<1>3. /\ IsFiniteSet(B) /\ Cardinality(B) <= Cardinality(C) /\ Cardinality(C) # Cardinality(B)
  BY <1>1, <1>2, FS_Subset, Zenon
<1>4. Cardinality(B) \in Nat /\ Cardinality(C) \in Nat
  BY <1>2, <1>3, FS_CardinalityType, Zenon
<1>5. Cardinality(B) < Cardinality(C)
  BY <1>3, <1>4, SMTT(30)
<1>6. QED
  BY <1>5, Zenon DEF Rank, B, C

LEMMA RankOnto ==
    ASSUME NEW K \in SUBSET Nat, IsFiniteSet(K), NEW n \in 1..Cardinality(K)
    PROVE  \E i \in K : Rank(K, i) = n
<1> DEFINE f == [i \in K |-> Rank(K, i)]
           N == 1..Cardinality(K)
<1>1. Cardinality(K) \in Nat
  BY FS_CardinalityType, Zenon
<1>2. IsFiniteSet(N) /\ Cardinality(N) = Cardinality(K)
  <2>1. /\ 1 \in Int /\ Cardinality(K) \in Int
        /\ (IF 1 > Cardinality(K) THEN 0 ELSE Cardinality(K) - 1 + 1) = Cardinality(K)
    BY <1>1, SMTT(30)
  <2>2. QED
    BY <2>1, FS_Interval, Zenon
<1>3. f \in [K -> N]
  BY RankRange, Zenon
<1>4. \A i, k \in K : i # k => i < k \/ k < i
  BY SMTT(30)
<1>5. \A i, k \in K : i < k => f[i] # f[k]
  <2>1. SUFFICES ASSUME NEW i \in K, NEW k \in K, i < k PROVE f[i] # f[k]
    OBVIOUS
  <2>2. Rank(K, i) < Rank(K, k)
    BY <2>1, RankIncreases, Zenon
  <2>3. Rank(K, i) \in N /\ Rank(K, k) \in N
    BY RankRange, Zenon
  <2>4. Rank(K, i) # Rank(K, k)
    BY <1>1, <2>2, <2>3, SMTT(30)
  <2>5. QED
    BY <2>4, Zenon
<1> HIDE DEF N, f
<1>6. f \in Injection(K, N)
  BY <1>3, <1>4, <1>5, Zenon DEF Injection, IsInjective
<1>7. f \in Surjection(K, N)
  BY <1>2, <1>6, FS_Injection, Zenon
<1>8. \E i \in K : f[i] = n
  BY <1>7, Zenon DEF Surjection, N
<1>9. QED
  BY <1>8, Zenon DEF f

LEMMA NthInOrder ==
    ASSUME NEW K \in SUBSET Nat, IsFiniteSet(K), NEW m \in 1..Cardinality(K),
           NEW n \in 1..Cardinality(K)
    PROVE  /\ Nth(K, n) \in K /\ Rank(K, Nth(K, n)) = n
           /\ (m < n => Nth(K, m) < Nth(K, n))
<1>1. \A k \in 1..Cardinality(K) : Nth(K, k) \in K /\ Rank(K, Nth(K, k)) = k
  BY RankOnto, Zenon DEF Nth, Rank
<1>2. ASSUME m < n PROVE Nth(K, m) < Nth(K, n)
  <2>1. Nth(K, m) # Nth(K, n)
    <3>1. m # n
      BY <1>2, SMTT(30)
    <3>2. QED
      BY <1>1, <3>1, Zenon
  <2>2. ~(Nth(K, n) < Nth(K, m))
    <3>1. ~(n < m)
      BY <1>2, SMTT(30)
    <3>2. QED
      BY <1>1, <3>1, RankIncreases, Zenon
  <2>3. Nth(K, m) \in Nat /\ Nth(K, n) \in Nat
    BY <1>1, Zenon
  <2>4. QED
    BY <2>1, <2>2, <2>3, SMTT(30)
<1>3. QED
  BY <1>1, <1>2, Zenon

(* What is kept are the elements at those positions, each as often as it   *)
(* was there.                                                              *)
LEMMA RetainedKeeps ==
    ASSUME subscribers \in Seq(Handles), Distinct, NEW K \in SUBSET DOMAIN subscribers
    PROVE  /\ Retained(K) \in Seq(Handles)
           /\ {Retained(K)[n] : n \in DOMAIN Retained(K)} = {subscribers[i] : i \in K}
           /\ \A m, n \in DOMAIN Retained(K) : Retained(K)[m] = Retained(K)[n] => m = n
<1> DEFINE N == Cardinality(K)
<1>1. K \in SUBSET Nat /\ DOMAIN subscribers = 1..Len(subscribers) /\ Len(subscribers) \in Nat
      /\ \A i \in DOMAIN subscribers : subscribers[i] \in Handles
  BY SMTT(30)
<1>2. IsFiniteSet(K)
  <2>1. \A k \in K : k <= Len(subscribers)
    BY <1>1, SMTT(30)
  <2>2. QED
    BY <1>1, <2>1, FS_BoundedSetOfNaturals, Zenon
<1>3. N \in Nat
  BY <1>2, FS_CardinalityType, Zenon
<1>4. \A n \in 1..N : Nth(K, n) \in K /\ Rank(K, Nth(K, n)) = n
  BY <1>1, <1>2, NthInOrder, Zenon
<1> HIDE DEF N
<1>5. DOMAIN Retained(K) = 1..N /\ \A n \in 1..N : Retained(K)[n] = subscribers[Nth(K, n)]
  BY Zenon DEF Retained, N
<1>6. Retained(K) \in [1..N -> Handles]
  <2>1. \A n \in 1..N : subscribers[Nth(K, n)] \in Handles
    BY <1>1, <1>4, Zenon
  <2>2. QED
    BY <2>1, Zenon DEF Retained, N
<1>7. Retained(K) \in Seq(Handles)
  BY <1>3, <1>6, SMTT(30)
<1>8. \A i \in K : \E n \in 1..N : Nth(K, n) = i
  <2>1. SUFFICES ASSUME NEW i \in K PROVE \E n \in 1..N : Nth(K, n) = i
    OBVIOUS
  <2>2. Rank(K, i) \in 1..N
    BY <1>1, <1>2, RankRange, Zenon DEF N
  <2>3. \A a, b \in K : a < b => Rank(K, a) < Rank(K, b)
    BY <1>1, <1>2, RankIncreases, Zenon
  <2>4. LET k == Nth(K, Rank(K, i)) IN k \in K /\ Rank(K, k) = Rank(K, i)
    BY <1>4, <2>2, Zenon
  <2>5. ~(Rank(K, i) < Rank(K, i))
    BY <2>2, SMTT(30)
  <2>6. Nth(K, Rank(K, i)) = i
    <3>1. \A a, b \in K : a # b => a < b \/ b < a
      BY <1>1, SMTT(30)
    <3>2. QED
      BY <2>3, <2>4, <2>5, <3>1, Zenon
  <2>7. QED
    BY <2>2, <2>6, Zenon
<1>9. {Retained(K)[n] : n \in DOMAIN Retained(K)} = {subscribers[i] : i \in K}
  <2>1. \A n \in 1..N : \E i \in K : Retained(K)[n] = subscribers[i]
    BY <1>4, <1>5, Zenon
  <2>2. \A i \in K : \E n \in 1..N : subscribers[i] = Retained(K)[n]
    BY <1>5, <1>8, Zenon
  <2> DEFINE A == {Retained(K)[n] : n \in DOMAIN Retained(K)}
             Z == {subscribers[i] : i \in K}
  <2>3. ASSUME NEW x \in A PROVE x \in Z
    <3>1. PICK n \in DOMAIN Retained(K) : x = Retained(K)[n]
      OBVIOUS
    <3>2. PICK i \in K : x = subscribers[i]
      BY <1>5, <2>1, <3>1, Zenon
    <3>3. QED
      BY <3>2
  <2>4. ASSUME NEW x \in Z PROVE x \in A
    <3>1. PICK i \in K : x = subscribers[i]
      OBVIOUS
    <3>2. PICK n \in DOMAIN Retained(K) : x = Retained(K)[n]
      BY <1>5, <2>2, <3>1, Zenon
    <3>3. QED
      BY <3>2
  <2> HIDE DEF A, Z
  <2>5. A = Z
    BY <2>3, <2>4, Zenon
  <2>6. QED
    BY <2>5, Zenon DEF A, Z
<1>10. ASSUME NEW m \in 1..N, NEW n \in 1..N, Retained(K)[m] = Retained(K)[n] PROVE m = n
  <2>1. Nth(K, m) = Nth(K, n)
    BY <1>4, <1>5, <1>10, Zenon DEF Distinct
  <2>2. QED
    BY <1>4, <2>1, Zenon
<1>11. QED
  BY <1>5, <1>7, <1>9, <1>10, Zenon

-----------------------------------------------------------------------------
(* Each step of the daemon keeps the invariant. *)
LEMMA InitOK == Init => IInv
<1> SUFFICES ASSUME Init PROVE IInv
  OBVIOUS
<1>1. /\ log \in Seq(Machines) /\ outbox \in Seq(Statuses) /\ Len(outbox) = Len(log)
      /\ calls \in 0..MaxCalls /\ wakeups \in Nat /\ at \in Nat /\ cursor \in Nat
      /\ subscribers \in Seq(Handles) /\ DOMAIN subscribers = {}
      /\ 0 \in Nat
  BY DispatcherAssumption, SMTT(30) DEF Init
<1>2. batch \in [last: Nat, full: BOOLEAN]
  BY <1>1, Zenon DEF Init, NoBatch
<1>3. sub \in [Handles -> Subscriber \cup {None}] /\ Registered = {} /\ Members = {}
  BY <1>1, Zenon DEF Init, Registered, Members
<1>4. /\ permit \in BOOLEAN /\ shutdown \in BOOLEAN /\ final \in BOOLEAN
      /\ pc = "select" /\ pc \in Labels /\ pc \notin Passing /\ pc # "send" /\ pc # "read"
      /\ dead \subseteq Ids /\ marks \subseteq DOMAIN log
  BY Zenon DEF Init, Labels, Passing
<1>5. TypeOK
  BY <1>1, <1>2, <1>3, <1>4, Zenon DEF TypeOK
<1>6. Distinct /\ ReadsFromCursor /\ StreamsOK
  BY <1>1, <1>3, <1>4, Zenon DEF Distinct, ReadsFromCursor, StreamsOK
<1>7. QED
  BY <1>5, <1>6 DEF IInv

(* No stream is touched: the same subscribers, records and cursors. *)
LEMMA StreamsUntouched ==
    ASSUME IInv, log' = log, subscribers' = subscribers, sub' = sub,
           \/ pc' = pc /\ at' = at /\ cursor' = cursor
           \/ pc \notin Passing /\ pc' \notin Passing
    PROVE  Distinct' /\ ReadsFromCursor' /\ StreamsOK'
<1>1. Distinct'
  BY Zenon DEF IInv, Distinct
<1>2. ReadsFromCursor'
  BY Zenon DEF IInv, ReadsFromCursor, Passing
<1>3. \A h \in Handles : Progress(h)' = Progress(h)
  BY Zenon DEF Progress
<1>4. StreamsOK'
  BY <1>3, Zenon DEF IInv, StreamsOK, Registered
<1>5. QED
  BY <1>1, <1>2, <1>4, Zenon

LEMMA BeginCallOK == ASSUME IInv, BeginCall PROVE IInv'
<1>1. /\ log' = log /\ outbox' = outbox /\ wakeups' = wakeups /\ permit' = permit
      /\ shutdown' = shutdown /\ subscribers' = subscribers /\ sub' = sub /\ pc' = pc
      /\ final' = final /\ at' = at /\ cursor' = cursor /\ batch' = batch /\ dead' = dead
      /\ marks' = marks /\ calls' = calls + 1 /\ calls < MaxCalls
  BY Zenon DEF BeginCall, storage, locals
<1>2. calls' \in 0..MaxCalls
  <2>1. calls \in 0..MaxCalls
    BY Zenon DEF IInv, TypeOK
  <2>2. QED
    BY <1>1, <2>1, DispatcherAssumption, SMTT(30)
<1>3. TypeOK'
  BY <1>1, <1>2, Zenon DEF IInv, TypeOK, Members, Registered
<1>4. QED
  BY <1>1, <1>3, StreamsUntouched, Zenon DEF IInv

LEMMA NotifyOneOK == ASSUME IInv, NotifyOne PROVE IInv'
<1>1. /\ log' = log /\ outbox' = outbox /\ calls' = calls /\ permit' = TRUE
      /\ shutdown' = shutdown /\ subscribers' = subscribers /\ sub' = sub /\ pc' = pc
      /\ final' = final /\ at' = at /\ cursor' = cursor /\ batch' = batch /\ dead' = dead
      /\ marks' = marks /\ wakeups' = wakeups - 1 /\ wakeups > 0
  BY Zenon DEF NotifyOne, storage, locals
<1>2. wakeups' \in Nat
  <2>1. wakeups \in Nat
    BY Zenon DEF IInv, TypeOK
  <2>2. QED
    BY <1>1, <2>1, SMTT(30)
<1>3. TypeOK'
  BY <1>1, <1>2, Zenon DEF IInv, TypeOK, Members, Registered
<1>4. QED
  BY <1>1, <1>3, StreamsUntouched, Zenon DEF IInv

LEMMA ShutdownOK == ASSUME IInv, Shutdown PROVE IInv'
<1>1. /\ log' = log /\ outbox' = outbox /\ calls' = calls /\ permit' = permit
      /\ shutdown' = TRUE /\ subscribers' = subscribers /\ sub' = sub /\ pc' = pc
      /\ final' = final /\ at' = at /\ cursor' = cursor /\ batch' = batch /\ dead' = dead
      /\ marks' = marks /\ wakeups' = wakeups
  BY Zenon DEF Shutdown, storage, locals
<1>2. TypeOK'
  BY <1>1, Zenon DEF IInv, TypeOK, Members, Registered
<1>3. QED
  BY <1>1, <1>2, StreamsUntouched, Zenon DEF IInv

(* Between two visits a subscriber is served through its stored cursor. *)
Settled(sb, lg) ==
    \A h \in Handles : sb[h] # None => StreamOK(sb[h], sb[h].delivered_through, lg)

LEMMA SettledBetween ==
    ASSUME IInv, pc \notin Passing \/ pc = "read"
    PROVE  Settled(sub, log)
<1>1. \A h \in Registered : Progress(h) = sub[h].delivered_through
  BY Zenon DEF IInv, ReadsFromCursor, Progress, Passing
<1>2. QED
  BY <1>1, Zenon DEF IInv, StreamsOK, Registered, Settled

LEMMA SettledAfter ==
    ASSUME Settled(sub', log'),
           \/ pc' \notin Passing
           \/ pc' = "read" /\ cursor' = sub'[subscribers'[at']].delivered_through
    PROVE  ReadsFromCursor' /\ StreamsOK'
<1>1. ReadsFromCursor'
  BY Zenon DEF ReadsFromCursor, Passing
<1>2. \A h \in Handles : Progress(h)' = sub'[h].delivered_through
  BY Zenon DEF Progress, Passing
<1>3. QED
  BY <1>1, <1>2, Zenon DEF Settled, StreamsOK, Registered

LEMMA CommitOK == ASSUME IInv, NEW m \in Machines, Commit(m) PROVE IInv'
<1>1. /\ log' = Append(log, m) /\ outbox' = Append(outbox, "Pending") /\ calls' = calls - 1
      /\ calls > 0 /\ permit' = permit
      /\ shutdown' = shutdown /\ subscribers' = subscribers /\ sub' = sub /\ pc' = pc
      /\ final' = final /\ at' = at /\ cursor' = cursor /\ batch' = batch /\ dead' = dead
      /\ marks' = marks /\ wakeups' = wakeups + 1
  BY Zenon DEF Commit, locals
<1>2. /\ log \in Seq(Machines) /\ outbox \in Seq(Statuses) /\ Len(outbox) = Len(log)
      /\ calls \in 0..MaxCalls /\ wakeups \in Nat
  BY Zenon DEF IInv, TypeOK
<1>3. "Pending" \in Statuses
  BY Zenon DEF Statuses
<1>4. /\ log' \in Seq(Machines) /\ outbox' \in Seq(Statuses) /\ Len(outbox') = Len(log')
      /\ calls' \in 0..MaxCalls /\ wakeups' \in Nat /\ DOMAIN log \subseteq DOMAIN log'
  BY <1>1, <1>2, <1>3, DispatcherAssumption, SMTT(30)
<1>5. /\ marks' \subseteq DOMAIN log'
      /\ (pc' = "send" => cursor' < batch'.last /\ batch'.last \in DOMAIN log')
  BY <1>1, <1>4, Zenon DEF IInv, TypeOK
<1>6. TypeOK'
  BY <1>1, <1>4, <1>5, Zenon DEF IInv, TypeOK, Members, Registered
<1>7. \A h \in Registered : StreamOK(sub[h], Progress(h), log')
  BY <1>1, <1>2, StreamAppend, Zenon DEF IInv, StreamsOK
<1>8. Registered' = Registered /\ \A h \in Handles : Progress(h)' = Progress(h)
  BY <1>1, Zenon DEF Progress, Registered
<1>9. Distinct' /\ ReadsFromCursor' /\ StreamsOK'
  BY <1>1, <1>7, <1>8, Zenon DEF IInv, Distinct, ReadsFromCursor, StreamsOK, Registered
<1>10. QED
  BY <1>6, <1>9, Zenon DEF IInv

LEMMA RestartOK == ASSUME IInv, Restart PROVE IInv'
<1>1. /\ log' = log /\ outbox' = outbox /\ calls' = 0 /\ wakeups' = 0 /\ permit' = FALSE
      /\ shutdown' = FALSE /\ subscribers' = <<>> /\ sub' = [h \in Handles |-> None]
      /\ pc' = "select" /\ final' = FALSE /\ at' = 0 /\ cursor' = 0 /\ batch' = NoBatch
      /\ dead' = {} /\ marks' = {}
  BY Zenon DEF Restart, storage
<1>2. /\ calls' \in 0..MaxCalls /\ wakeups' \in Nat /\ at' \in Nat /\ cursor' \in Nat
      /\ subscribers' \in Seq(Handles) /\ DOMAIN subscribers' = {} /\ 0 \in Nat
  BY <1>1, DispatcherAssumption, SMTT(30)
<1>3. batch' \in [last: Nat, full: BOOLEAN]
  BY <1>1, <1>2, Zenon DEF NoBatch
<1>4. /\ sub' \in [Handles -> Subscriber \cup {None}] /\ \A h \in Handles : sub'[h] = None
  BY <1>1, Zenon
<1>5. Registered' = {} /\ Members' = {}
  BY <1>2, <1>4, Zenon DEF Registered, Members
<1>6. pc' \in Labels /\ pc' \notin Passing /\ pc' # "send" /\ pc' # "read"
  BY <1>1, Zenon DEF Labels, Passing
<1>7. TypeOK'
  BY <1>1, <1>2, <1>3, <1>4, <1>5, <1>6, Zenon DEF IInv, TypeOK
<1>8. Distinct' /\ ReadsFromCursor' /\ StreamsOK'
  BY <1>2, <1>5, <1>6, Zenon DEF Distinct, ReadsFromCursor, StreamsOK
<1>9. QED
  BY <1>7, <1>8, Zenon DEF IInv

LEMMA SubscribeOK ==
    ASSUME IInv, NEW h \in Handles, NEW id \in Ids, NEW filter \in Filters,
           NEW after \in Positions, subscribe(h, id, filter, after)
    PROVE  IInv'
<1> DEFINE s == [id |-> id, machine_filter |-> filter, after |-> after,
                 delivered_through |-> after, alive |-> TRUE, left |-> FALSE,
                 joined |-> Len(log), delivered |-> <<>>]
<1>1. /\ log' = log /\ outbox' = outbox /\ calls' = calls /\ permit' = permit
      /\ shutdown' = shutdown /\ subscribers' = Append(subscribers, h)
      /\ sub' = [sub EXCEPT ![h] = s] /\ pc' = pc
      /\ final' = final /\ at' = at /\ cursor' = cursor /\ batch' = batch /\ dead' = dead
      /\ marks' = marks /\ wakeups' = wakeups + 1 /\ pc \notin Passing /\ sub[h] = None
  BY Zenon DEF subscribe, storage, locals
<1>2. /\ log \in Seq(Machines) /\ wakeups \in Nat /\ subscribers \in Seq(Handles)
      /\ sub \in [Handles -> Subscriber \cup {None}] /\ Members \subseteq Registered
  BY Zenon DEF IInv, TypeOK
<1>3. after \in Nat /\ Len(log) \in Nat /\ wakeups' \in Nat
  BY <1>1, <1>2, DispatcherAssumption, SMTT(30)
<1>4. /\ s \in Subscriber /\ s.delivered = <<>> /\ s.delivered_through = s.after
  BY <1>3, NewSubscriber, Zenon
<1> HIDE DEF s
<1>5. /\ s # None /\ sub' \in [Handles -> Subscriber \cup {None}]
      /\ sub'[h] = s /\ \A g \in Handles : g # h => sub'[g] = sub[g]
  BY <1>1, <1>2, <1>4, SubscriberFields, Zenon
<1>6. /\ subscribers' \in Seq(Handles) /\ Len(subscribers) \in Nat
      /\ DOMAIN subscribers' = DOMAIN subscribers \cup {Len(subscribers) + 1}
      /\ subscribers'[Len(subscribers) + 1] = h
      /\ \A i \in DOMAIN subscribers : subscribers'[i] = subscribers[i] /\ i # Len(subscribers) + 1
  BY <1>1, <1>2, SMTT(30)
<1>7. \A i \in DOMAIN subscribers : subscribers[i] # h /\ subscribers[i] \in Registered
  BY <1>1, <1>2, Zenon DEF Members, Registered
<1>8. \A i \in DOMAIN subscribers' : subscribers'[i] \in Registered'
  BY <1>5, <1>6, <1>7, Zenon DEF Registered
<1>9. Members' \subseteq Registered'
  BY <1>8, Zenon DEF Members
<1>10. TypeOK'
  BY <1>1, <1>3, <1>5, <1>6, <1>9, Zenon DEF IInv, TypeOK
<1>11. Distinct'
  BY <1>6, <1>7, Zenon DEF IInv, Distinct
<1>12. StreamOK(s, s.delivered_through, log)
  BY <1>2, <1>4, StreamBegins, Zenon
<1>13. Settled(sub', log')
  BY <1>1, <1>5, <1>12, SettledBetween, Zenon DEF Settled
<1>14. QED
  BY <1>1, <1>10, <1>11, <1>13, SettledAfter, Zenon DEF IInv

(* What unsubscribe() and the removal of the dead leave in the Vec. *)
LEMMA WithoutIdsKeeps ==
    ASSUME IInv, NEW ids, subscribers' = WithoutIds(ids)
    PROVE  /\ subscribers' \in Seq(Handles) /\ Distinct'
           /\ Members' = {h \in Members : sub[h].id \notin ids}
<1> DEFINE K == {i \in DOMAIN subscribers : sub[subscribers[i]].id \notin ids}
<1>1. subscribers \in Seq(Handles) /\ Distinct
  BY Zenon DEF IInv, TypeOK
<1>2. subscribers' = Retained(K) /\ K \in SUBSET DOMAIN subscribers
  BY Zenon DEF WithoutIds
<1>3. {subscribers[i] : i \in K} = {h \in Members : sub[h].id \notin ids}
  BY DEF Members
<1> HIDE DEF K
<1>4. /\ Retained(K) \in Seq(Handles)
      /\ {Retained(K)[n] : n \in DOMAIN Retained(K)} = {subscribers[i] : i \in K}
      /\ \A m, n \in DOMAIN Retained(K) : Retained(K)[m] = Retained(K)[n] => m = n
  BY <1>1, <1>2, RetainedKeeps, Zenon
<1>5. Distinct'
  BY <1>2, <1>4, Zenon DEF Distinct
<1>6. Members' = {Retained(K)[n] : n \in DOMAIN Retained(K)}
  BY <1>2, Zenon DEF Members
<1>7. QED
  BY <1>2, <1>3, <1>4, <1>5, <1>6, Zenon

LEMMA UnsubscribeOK == ASSUME IInv, NEW id \in Ids, unsubscribe(id) PROVE IInv'
<1>1. /\ log' = log /\ outbox' = outbox /\ calls' = calls /\ permit' = permit
      /\ shutdown' = shutdown /\ subscribers' = WithoutIds({id}) /\ pc' = pc
      /\ sub' = [h \in Handles |-> IF h \in Members /\ sub[h].id = id
                                   THEN [sub[h] EXCEPT !.left = TRUE] ELSE sub[h]]
      /\ final' = final /\ at' = at /\ cursor' = cursor /\ batch' = batch /\ dead' = dead
      /\ marks' = marks /\ wakeups' = wakeups /\ pc \notin Passing
  BY Zenon DEF unsubscribe, storage, callers, locals
<1>2. /\ sub \in [Handles -> Subscriber \cup {None}] /\ Members \subseteq Registered
      /\ Members \subseteq Handles /\ log \in Seq(Machines)
  BY Zenon DEF IInv, TypeOK, Registered
<1>3. /\ subscribers' \in Seq(Handles) /\ Distinct' /\ Members' \subseteq Members
  BY <1>1, WithoutIdsKeeps, Zenon
<1>4. ASSUME NEW h \in Handles, sub[h] # None
      PROVE  /\ sub'[h] \in Subscriber /\ sub'[h] # None
             /\ StreamOK(sub'[h], sub'[h].delivered_through, log)
  <2>1. sub[h] \in Subscriber
    BY <1>2, <1>4, Zenon
  <2>2. StreamOK(sub[h], sub[h].delivered_through, log)
    BY <1>1, <1>4, SettledBetween, Zenon DEF Settled
  <2>3. CASE h \in Members /\ sub[h].id = id
    <3>1. sub'[h] = [sub[h] EXCEPT !.left = TRUE]
      BY <1>1, <2>3, Zenon
    <3>2. /\ SameStream(sub[h], sub'[h]) /\ sub'[h].alive = sub[h].alive
          /\ sub'[h].delivered_through = sub[h].delivered_through /\ sub'[h] \in Subscriber
      BY <2>1, <3>1, LeavingSubscriber, Zenon DEF SameStream
    <3>3. sub[h].delivered_through <= sub[h].delivered_through
      BY <2>2, Zenon DEF StreamOK
    <3>4. StreamOK(sub'[h], sub[h].delivered_through, log)
      BY <2>2, <3>2, <3>3, StreamKept, Zenon
    <3>5. QED
      BY <3>2, <3>4, SubscriberFields, Zenon
  <2>4. CASE ~(h \in Members /\ sub[h].id = id)
    <3>1. sub'[h] = sub[h]
      BY <1>1, <2>4, Zenon
    <3>2. QED
      BY <1>4, <2>1, <2>2, <3>1, Zenon
  <2>5. QED
    BY <2>3, <2>4, Zenon
<1>5. \A h \in Handles : sub[h] = None => sub'[h] = None
  BY <1>1, <1>2, Zenon DEF Registered
<1>6. sub' \in [Handles -> Subscriber \cup {None}]
  <2>1. \A h \in Handles : sub'[h] \in Subscriber \cup {None}
    BY <1>4, <1>5, Zenon
  <2>2. DOMAIN sub' = Handles /\ sub' = [h \in Handles |-> sub'[h]]
    BY <1>1, Zenon
  <2>3. QED
    BY <2>1, <2>2, Zenon
<1>7. Members' \subseteq Registered'
  BY <1>2, <1>3, <1>4, Zenon DEF Registered
<1>8. TypeOK'
  BY <1>1, <1>3, <1>6, <1>7, Zenon DEF IInv, TypeOK
<1>9. Settled(sub', log')
  BY <1>1, <1>4, <1>5, Zenon DEF Settled
<1>10. QED
  BY <1>1, <1>3, <1>8, <1>9, SettledAfter, Zenon DEF IInv

LEMMA DropReceiverOK == ASSUME IInv, NEW h \in Handles, DropReceiver(h) PROVE IInv'
<1>1. /\ log' = log /\ outbox' = outbox /\ calls' = calls /\ permit' = permit
      /\ shutdown' = shutdown /\ subscribers' = subscribers /\ pc' = pc
      /\ sub' = [sub EXCEPT ![h] = [sub[h] EXCEPT !.alive = FALSE]]
      /\ final' = final /\ at' = at /\ cursor' = cursor /\ batch' = batch /\ dead' = dead
      /\ marks' = marks /\ wakeups' = wakeups /\ h \in Registered
  BY Zenon DEF DropReceiver, storage, callers, locals
<1>2. /\ sub \in [Handles -> Subscriber \cup {None}] /\ Members \subseteq Registered
      /\ \A i \in DOMAIN subscribers : subscribers[i] \in Handles
  <2>1. sub \in [Handles -> Subscriber \cup {None}] /\ Members \subseteq Registered
    BY Zenon DEF IInv, TypeOK
  <2>2. QED
    BY <2>1, Zenon DEF Members, Registered
<1>3. sub[h] \in Subscriber /\ sub[h] # None
  BY <1>1, <1>2, Zenon DEF Registered
<1>4. /\ sub'[h] = [sub[h] EXCEPT !.alive = FALSE] /\ \A g \in Handles : g # h => sub'[g] = sub[g]
  BY <1>1, <1>2, Zenon
<1>5. /\ sub'[h] \in Subscriber /\ SameStream(sub[h], sub'[h]) /\ sub'[h].alive = FALSE
      /\ sub'[h].delivered_through = sub[h].delivered_through
  BY <1>3, <1>4, DeadSubscriber, Zenon DEF SameStream
<1>6. sub'[h] # None /\ sub' \in [Handles -> Subscriber \cup {None}]
  BY <1>1, <1>2, <1>4, <1>5, SubscriberFields, Zenon
<1>7. Registered' = Registered /\ Members' = Members
  <2>1. \A g \in Handles : sub'[g] # None <=> sub[g] # None
    BY <1>3, <1>4, <1>6, Zenon
  <2>2. Registered' = Registered
    BY <2>1, Zenon DEF Registered
  <2>3. Members' = Members
    BY <1>1, Zenon DEF Members
  <2>4. QED
    BY <2>2, <2>3, Zenon
<1>8. TypeOK'
  BY <1>1, <1>6, <1>7, Zenon DEF IInv, TypeOK
<1>9. \A g \in Handles : sub[g] # None => sub'[g].delivered_through = sub[g].delivered_through
  BY <1>4, <1>5, Zenon
<1>10. \A g \in Registered : Progress(g)' = Progress(g)
  BY <1>1, <1>9, Zenon DEF Progress, Registered
<1>11. StreamOK(sub'[h], Progress(h), log)
  <2>1. StreamOK(sub[h], Progress(h), log)
    BY <1>1, Zenon DEF IInv, StreamsOK
  <2>2. sub[h].delivered_through <= Progress(h)
    BY <2>1, Zenon DEF StreamOK
  <2>3. QED
    BY <1>5, <2>1, <2>2, StreamKept, Zenon
<1>12. StreamsOK'
  BY <1>1, <1>4, <1>7, <1>10, <1>11, Zenon DEF IInv, StreamsOK, Registered
<1>13. ReadsFromCursor'
  <2>1. SUFFICES ASSUME pc = "read" PROVE cursor = sub'[subscribers[at]].delivered_through
    BY <1>1, Zenon DEF ReadsFromCursor
  <2>2. at \in DOMAIN subscribers /\ cursor = sub[subscribers[at]].delivered_through
    BY <2>1, Zenon DEF IInv, TypeOK, ReadsFromCursor, Passing
  <2>3. QED
    BY <1>2, <1>9, <2>2, Zenon DEF Members, Registered
<1>14. Distinct'
  BY <1>1, Zenon DEF IInv, Distinct
<1>15. QED
  BY <1>8, <1>12, <1>13, <1>14, Zenon DEF IInv

LEMMA PruneOK == ASSUME IInv, Prune PROVE IInv'
<1>1. /\ log' = log /\ outbox' = outbox /\ calls' = calls /\ permit' = permit
      /\ shutdown' = shutdown /\ subscribers' = WithoutIds(dead) /\ pc' = "effects"
      /\ sub' = sub /\ final' = final /\ at' = at /\ cursor' = cursor /\ batch' = batch
      /\ dead' = {} /\ marks' = marks /\ wakeups' = wakeups /\ pc = "prune"
  BY Zenon DEF Prune, storage, callers
<1>2. pc \notin Passing /\ pc' \notin Passing /\ pc' \in Labels /\ pc' # "send"
  BY <1>1, Zenon DEF Passing, Labels
<1>3. subscribers' \in Seq(Handles) /\ Distinct' /\ Members' \subseteq Members
  BY <1>1, WithoutIdsKeeps, Zenon
<1>4. Registered' = Registered
  BY <1>1, Zenon DEF Registered
<1>5. TypeOK'
  BY <1>1, <1>2, <1>3, <1>4, Zenon DEF IInv, TypeOK
<1>6. Settled(sub', log')
  BY <1>1, <1>2, SettledBetween, Zenon
<1>7. QED
  BY <1>2, <1>3, <1>5, <1>6, SettledAfter, Zenon DEF IInv

LEMMA FinishedFacts ==
    /\ Finished \in Labels /\ Finished \notin Passing /\ Finished # "send"
    /\ "mark" \in Labels /\ "mark" \notin Passing /\ "mark" # "send"
BY Zenon DEF Finished, Labels, Passing

LEMMA ReadEffectsOK == ASSUME IInv, ReadEffects PROVE IInv'
<1> DEFINE pending == {i \in DOMAIN outbox : outbox[i] = "Pending"}
<1>1. /\ log' = log /\ outbox' = outbox /\ calls' = calls /\ permit' = permit
      /\ shutdown' = shutdown /\ subscribers' = subscribers /\ sub' = sub
      /\ final' = final /\ at' = at /\ cursor' = cursor /\ batch' = batch
      /\ dead' = dead /\ wakeups' = wakeups /\ pc = "effects"
      /\ pc' \in {Finished, "mark"} /\ (marks' \in SUBSET pending \/ marks' = {})
  BY Zenon DEF ReadEffects, storage, callers
<1>2. pc \notin Passing /\ pc' \notin Passing /\ pc' \in Labels /\ pc' # "send"
  BY <1>1, FinishedFacts, Zenon DEF Passing
<1>3. DOMAIN outbox = DOMAIN log
  <2>1. log \in Seq(Machines) /\ outbox \in Seq(Statuses) /\ Len(outbox) = Len(log)
    BY Zenon DEF IInv, TypeOK
  <2>2. QED
    BY <2>1, SMTT(30)
<1>4. marks' \subseteq DOMAIN log'
  BY <1>1, <1>3, Zenon
<1>5. TypeOK'
  BY <1>1, <1>2, <1>4, Zenon DEF IInv, TypeOK, Members, Registered
<1>6. QED
  BY <1>1, <1>2, <1>5, StreamsUntouched, Zenon DEF IInv

LEMMA MarkEffectOK == ASSUME IInv, NEW i \in marks, MarkEffect(i) PROVE IInv'
<1>1. /\ log' = log /\ calls' = calls /\ permit' = permit
      /\ shutdown' = shutdown /\ subscribers' = subscribers /\ sub' = sub
      /\ final' = final /\ at' = at /\ cursor' = cursor /\ batch' = batch
      /\ dead' = dead /\ wakeups' = wakeups /\ pc = "mark"
      /\ pc' \in {Finished, "mark"} /\ marks' = marks \ {i}
  BY Zenon DEF MarkEffect, callers
<1>2. PICK status \in Statuses : outbox' = [outbox EXCEPT ![i] = status]
  BY Zenon DEF MarkEffect, Statuses
<1>3. pc \notin Passing /\ pc' \notin Passing /\ pc' \in Labels /\ pc' # "send"
  BY <1>1, FinishedFacts, Zenon DEF Passing
<1>4. log \in Seq(Machines) /\ outbox \in Seq(Statuses) /\ Len(outbox) = Len(log)
  BY Zenon DEF IInv, TypeOK
<1>5. outbox' \in Seq(Statuses) /\ Len(outbox') = Len(log')
  <2> DEFINE n == Len(log)
  <2>1. n \in Nat /\ outbox \in [1..n -> Statuses]
    BY <1>4, SMTT(30)
  <2> HIDE DEF n
  <2>2. outbox' \in [1..n -> Statuses]
    BY <1>2, <2>1, Zenon
  <2>3. outbox' \in Seq(Statuses) /\ Len(outbox') = n
    BY <2>1, <2>2, SMTT(30)
  <2>4. QED
    BY <1>1, <2>3, Zenon DEF n
<1>6. marks' \subseteq DOMAIN log'
  BY <1>1, Zenon DEF IInv, TypeOK
<1>7. TypeOK'
  BY <1>1, <1>3, <1>5, <1>6, Zenon DEF IInv, TypeOK, Members, Registered
<1>8. QED
  BY <1>1, <1>3, <1>7, StreamsUntouched, Zenon DEF IInv

-----------------------------------------------------------------------------
(* A pass: the next visit begins where its subscriber was served. *)
LEMMA VisitFacts ==
    ASSUME IInv, NEW k \in Nat \ {0}, Visit(k)
    PROVE  /\ batch' \in [last: Nat, full: BOOLEAN] /\ at' \in Nat /\ cursor' \in Nat
           /\ pc' \in Labels /\ pc' # "send" /\ (pc' \in Passing => pc' = "read")
           /\ (pc' = "read" => /\ k \in DOMAIN subscribers /\ at' = k
                               /\ cursor' = sub[subscribers[k]].delivered_through)
<1>1. /\ subscribers \in Seq(Handles) /\ sub \in [Handles -> Subscriber \cup {None}]
      /\ Members \subseteq Registered
  BY Zenon DEF IInv, TypeOK
<1>2. 0 \in Nat /\ (k <= Len(subscribers) => k \in DOMAIN subscribers)
  BY <1>1, SMTT(30)
<1>3. batch' \in [last: Nat, full: BOOLEAN]
  BY <1>2, Zenon DEF Visit, NoBatch
<1>4. CASE k <= Len(subscribers)
  <2>1. pc' = "read" /\ at' = k /\ cursor' = sub[subscribers[k]].delivered_through
    BY <1>4, Zenon DEF Visit
  <2>2. sub[subscribers[k]] \in Subscriber
    BY <1>1, <1>2, <1>4, Zenon DEF Members, Registered
  <2>3. cursor' \in Nat
    BY <2>1, <2>2, SubscriberFields, Zenon
  <2>4. QED
    BY <1>2, <1>3, <1>4, <2>1, <2>3, Zenon DEF Labels, Passing
<1>5. CASE ~(k <= Len(subscribers))
  BY <1>2, <1>3, <1>5, Zenon DEF Visit, Labels, Passing
<1>6. QED
  BY <1>4, <1>5, Zenon

(* A visit that begins while the streams are settled. *)
LEMMA VisitOK ==
    ASSUME IInv, NEW k \in Nat \ {0}, Visit(k), pc \notin Passing \/ pc = "read",
           log' = log, outbox' = outbox, calls' = calls, wakeups' = wakeups, shutdown' = shutdown,
           permit' \in BOOLEAN, final' \in BOOLEAN, subscribers' = subscribers, sub' = sub,
           dead' = dead, marks' = marks
    PROVE  IInv'
<1>1. /\ batch' \in [last: Nat, full: BOOLEAN] /\ at' \in Nat /\ cursor' \in Nat
      /\ pc' \in Labels /\ pc' # "send" /\ (pc' \in Passing => pc' = "read")
      /\ (pc' = "read" => /\ k \in DOMAIN subscribers /\ at' = k
                          /\ cursor' = sub[subscribers[k]].delivered_through)
  BY VisitFacts, Zenon
<1>2. pc' \in Passing => at' \in DOMAIN subscribers'
  BY <1>1, Zenon
<1>3. TypeOK'
  BY <1>1, <1>2, Zenon DEF IInv, TypeOK, Members, Registered
<1>4. Settled(sub', log')
  BY SettledBetween, Zenon
<1>5. Distinct'
  BY Zenon DEF IInv, Distinct
<1>6. QED
  BY <1>1, <1>3, <1>4, <1>5, SettledAfter, Zenon DEF IInv

LEMMA WakeOK ==
    ASSUME IInv, Wake, permit' \in BOOLEAN, final' \in BOOLEAN
    PROVE  IInv'
<1>1. /\ log' = log /\ outbox' = outbox /\ calls' = calls /\ wakeups' = wakeups
      /\ shutdown' = shutdown /\ subscribers' = subscribers /\ sub' = sub
      /\ dead' = dead /\ marks' = marks /\ Visit(1) /\ pc = "select"
  BY Zenon DEF Wake, storage, callers
<1>2. 1 \in Nat \ {0}
  BY SMTT(30)
<1>3. pc \notin Passing
  BY <1>1, Zenon DEF Passing
<1>4. QED
  BY <1>1, <1>2, <1>3, VisitOK, Zenon

LEMMA ReadBatchOK == ASSUME IInv, ReadBatch PROVE IInv'
<1>1. /\ log' = log /\ outbox' = outbox /\ calls' = calls /\ wakeups' = wakeups
      /\ shutdown' = shutdown /\ permit' = permit /\ subscribers' = subscribers /\ sub' = sub
      /\ final' = final /\ dead' = dead /\ marks' = marks /\ pc = "read"
  BY Zenon DEF ReadBatch, storage, callers
<1>2. /\ log \in Seq(Machines) /\ at \in Nat /\ cursor \in Nat /\ at \in DOMAIN subscribers
      /\ permit \in BOOLEAN /\ final \in BOOLEAN
  BY <1>1, Zenon DEF IInv, TypeOK, Passing
<1>3. CASE /\ cursor < Len(log)
           /\ batch' = [last |-> LastOfBatch, full |-> LastOfBatch - cursor = Batch]
           /\ pc' = "send" /\ at' = at /\ cursor' = cursor
  <2>1. LastOfBatch \in Nat /\ cursor < LastOfBatch /\ LastOfBatch \in DOMAIN log
    BY <1>2, <1>3, DispatcherAssumption, SMTT(30) DEF LastOfBatch
  <2>2. batch' \in [last: Nat, full: BOOLEAN] /\ batch'.last = LastOfBatch
    BY <1>3, <2>1, Zenon
  <2>3. /\ pc' \in Labels /\ pc' \in Passing /\ pc \in Passing /\ pc' # "read"
    BY <1>1, <1>3, Zenon DEF Labels, Passing
  <2>4. /\ (pc' = "send" => cursor' < batch'.last /\ batch'.last \in DOMAIN log')
        /\ at' \in DOMAIN subscribers'
    BY <1>1, <1>2, <1>3, <2>1, <2>2, Zenon
  <2>5. TypeOK'
    BY <1>1, <1>2, <1>3, <2>2, <2>3, <2>4, Zenon DEF IInv, TypeOK, Members, Registered
  <2>6. \A h \in Handles : Progress(h)' = Progress(h)
    BY <1>1, <1>3, <2>3, Zenon DEF Progress
  <2>7. StreamsOK'
    BY <1>1, <2>6, Zenon DEF IInv, StreamsOK, Registered
  <2>8. Distinct' /\ ReadsFromCursor'
    BY <1>1, <2>3, Zenon DEF IInv, Distinct, ReadsFromCursor
  <2>9. QED
    BY <2>5, <2>7, <2>8, Zenon DEF IInv
<1>4. CASE Visit(at + 1)
  <2>1. at + 1 \in Nat \ {0}
    BY <1>2, SMTT(30)
  <2>2. permit' \in BOOLEAN /\ final' \in BOOLEAN
    BY <1>1, <1>2, Zenon
  <2>3. QED
    BY <1>1, <1>4, <2>1, <2>2, VisitOK, Zenon
<1>5. QED
  BY <1>3, <1>4, Zenon DEF ReadBatch

LEMMA UpdateOne ==
    ASSUME NEW T, NEW f \in [Handles -> T], NEW x \in Handles, NEW v, NEW g,
           g = [f EXCEPT ![x] = v]
    PROVE  g[x] = v /\ \A y \in Handles : y # x => g[y] = f[y]
BY Zenon

(* One record: the subscriber that is visited has been served through it,  *)
(* and its cursor is stored with the last of a batch or a refused one.     *)
LEMMA SendServes ==
    ASSUME IInv, Send, NEW h, h = subscribers[at], NEW i, i = cursor + 1
    PROVE  /\ h \in Handles /\ at \in DOMAIN subscribers /\ sub[h] \in Subscriber /\ i \in Nat
           /\ i <= batch.last /\ i \in DOMAIN log
           /\ sub'[h] \in Subscriber /\ sub' \in [Handles -> Subscriber \cup {None}]
           /\ \A g \in Handles : g # h => sub'[g] = sub[g]
           /\ StreamOK(sub'[h], i, log) /\ sub'[h].id = sub[h].id
           /\ sub'[h].alive = sub[h].alive /\ sub'[h].left = sub[h].left
           /\ (Refused(h, i) \/ i = batch.last => sub'[h].delivered_through = i)
<1>1. pc = "send" /\ pc \in Passing /\ at \in DOMAIN subscribers
  BY Zenon DEF Send, Passing, IInv, TypeOK
<1>2. /\ sub \in [Handles -> Subscriber \cup {None}] /\ log \in Seq(Machines) /\ cursor \in Nat
      /\ cursor < batch.last /\ batch.last \in DOMAIN log /\ batch.last \in Nat
  BY <1>1, Zenon DEF IInv, TypeOK
<1>3. h \in Registered /\ h \in Handles
  BY <1>1, Zenon DEF IInv, TypeOK, Members, Registered
<1>4. sub[h] \in Subscriber
  BY <1>2, <1>3, Zenon DEF Registered
<1>5. StreamOK(sub[h], cursor, log)
  BY <1>1, <1>3, Zenon DEF IInv, StreamsOK, Progress
<1>6. i \in Nat /\ i <= batch.last /\ i \in DOMAIN log /\ cursor <= i
  BY <1>2, SMTT(30)
<1>7. CASE Refused(h, i) /\ sub' = [sub EXCEPT ![h] = [sub[h] EXCEPT !.delivered_through = i]]
  <2>1. /\ sub'[h] = [sub[h] EXCEPT !.delivered_through = i]
        /\ \A g \in Handles : g # h => sub'[g] = sub[g]
    BY <1>2, <1>3, <1>7, UpdateOne, Zenon
  <2>2. /\ SameStream(sub[h], sub'[h]) /\ sub'[h].alive = sub[h].alive
        /\ sub'[h].delivered_through = i /\ sub'[h] \in Subscriber
        /\ sub'[h].id = sub[h].id /\ sub'[h].left = sub[h].left
    <3> DEFINE s == sub[h]
               d == sub'[h]
    <3>1. s \in Subscriber /\ i \in Nat /\ d = [s EXCEPT !.delivered_through = i]
      BY <1>4, <1>6, <2>1, Zenon
    <3> HIDE DEF s, d
    <3>2. /\ d \in Subscriber /\ d.id = s.id /\ d.machine_filter = s.machine_filter
          /\ d.after = s.after /\ d.delivered_through = i
          /\ d.left = s.left /\ d.delivered = s.delivered /\ d.alive = s.alive
      BY <3>1, Zenon DEF Subscriber
    <3>3. QED
      BY <3>2, Zenon DEF SameStream, s, d
  <2>3. ~sub'[h].alive
    BY <1>7, <2>2, Zenon DEF Refused
  <2>4. i <= i
    BY <1>6, SMTT(30)
  <2>5. StreamOK(sub'[h], i, log)
    BY <1>2, <1>5, <1>6, <2>2, <2>3, <2>4, StreamPassed, Zenon
  <2>6. sub' \in [Handles -> Subscriber \cup {None}]
    BY <1>2, <1>7, <2>1, <2>2, Zenon
  <2>7. QED
    BY <1>1, <1>3, <1>4, <1>6, <2>1, <2>2, <2>5, <2>6, Zenon
<1>8. CASE ~Refused(h, i) /\ sub' = [sub EXCEPT ![h] = Advanced(h, i, Wants(h, i))]
  <2> DEFINE x == IF Wants(h, i) THEN Append(sub[h].delivered, i) ELSE sub[h].delivered
             y == IF i = batch.last THEN i ELSE sub[h].delivered_through
  <2>1. /\ sub[h].delivered \in Seq(Nat) /\ sub[h].delivered_through \in Nat
    BY <1>4, SubscriberFields, Zenon
  <2>2. x \in Seq(Nat) /\ y \in Nat
    <3>1. Append(sub[h].delivered, i) \in Seq(Nat)
      BY <1>6, <2>1, SMTT(30)
    <3>2. QED
      BY <1>6, <2>1, <3>1, Zenon
  <2>3. Advanced(h, i, Wants(h, i)) = [sub[h] EXCEPT !.delivered = x, !.delivered_through = y]
    BY <1>4 DEF Advanced, Subscriber
  <2> HIDE DEF x, y
  <2>4. /\ sub'[h] = [sub[h] EXCEPT !.delivered = x, !.delivered_through = y]
        /\ \A g \in Handles : g # h => sub'[g] = sub[g]
    BY <1>2, <1>3, <1>8, <2>3, UpdateOne, Zenon
  <2>5. /\ sub'[h] \in Subscriber /\ sub'[h].id = sub[h].id
        /\ sub'[h].machine_filter = sub[h].machine_filter /\ sub'[h].after = sub[h].after
        /\ sub'[h].delivered_through = y /\ sub'[h].left = sub[h].left
        /\ sub'[h].delivered = x /\ sub'[h].alive = sub[h].alive
    <3> DEFINE s == sub[h]
               d == sub'[h]
    <3>1. s \in Subscriber /\ d = [s EXCEPT !.delivered = x, !.delivered_through = y]
      BY <1>4, <2>4, Zenon
    <3> HIDE DEF s, d
    <3>2. /\ d \in Subscriber /\ d.id = s.id /\ d.machine_filter = s.machine_filter
          /\ d.after = s.after /\ d.delivered_through = y
          /\ d.left = s.left /\ d.delivered = x /\ d.alive = s.alive
      BY <2>2, <3>1, Zenon DEF Subscriber
    <3>3. QED
      BY <3>2, Zenon DEF s, d
  <2>6. y <= i
    <3>1. sub[h].delivered_through <= cursor
      BY <1>5, Zenon DEF StreamOK
    <3>2. QED
      BY <1>2, <1>6, <2>1, <3>1, SMTT(30) DEF y
  <2>7. StreamOK(sub'[h], i, log)
    <3>1. CASE Wants(h, i)
      <4>1. x = Append(sub[h].delivered, i) /\ sub[h].machine_filter \in {None, log[i]}
        BY <3>1, Zenon DEF x, Wants
      <4>2. sub[h].alive
        BY <1>8, <3>1, Zenon DEF Refused
      <4>3. QED
        BY <1>2, <1>5, <1>6, <2>5, <2>6, <4>1, <4>2, StreamSent, Zenon
    <3>2. CASE ~Wants(h, i)
      <4>1. x = sub[h].delivered /\ sub[h].machine_filter \notin {None, log[i]}
        BY <3>2, Zenon DEF x, Wants
      <4>2. SameStream(sub[h], sub'[h])
        BY <2>5, <4>1, Zenon DEF SameStream
      <4>3. QED
        BY <1>2, <1>5, <1>6, <2>5, <2>6, <4>1, <4>2, StreamPassed, Zenon
    <3>3. QED
      BY <3>1, <3>2, Zenon
  <2>8. i = batch.last => sub'[h].delivered_through = i
    BY <2>5, Zenon DEF y
  <2>9. sub' \in [Handles -> Subscriber \cup {None}]
    BY <1>2, <1>8, <2>4, <2>5, Zenon
  <2>10. QED
    BY <1>1, <1>3, <1>4, <1>6, <1>8, <2>4, <2>5, <2>7, <2>8, <2>9, Zenon
<1>9. QED
  BY <1>7, <1>8, Zenon DEF Send

LEMMA SendOK == ASSUME IInv, Send PROVE IInv'
<1>a. SUFFICES ASSUME NEW h, h = subscribers[at], NEW i, i = cursor + 1 PROVE IInv'
  OBVIOUS
<1>1. /\ log' = log /\ outbox' = outbox /\ calls' = calls /\ wakeups' = wakeups
      /\ shutdown' = shutdown /\ permit' = permit /\ subscribers' = subscribers
      /\ final' = final /\ marks' = marks /\ pc = "send"
  BY Zenon DEF Send, storage, callers
<1>2. /\ \/ /\ Refused(h, i) /\ Visit(at + 1)
            /\ dead' = dead \cup {sub[h].id}
         \/ /\ ~Refused(h, i) /\ AfterRecord(i) /\ dead' = dead
  BY <1>a, Zenon DEF Send
<1>3. /\ h \in Handles /\ at \in DOMAIN subscribers /\ sub[h] \in Subscriber /\ i \in Nat
      /\ i <= batch.last /\ i \in DOMAIN log
      /\ sub'[h] \in Subscriber /\ sub' \in [Handles -> Subscriber \cup {None}]
      /\ \A g \in Handles : g # h => sub'[g] = sub[g]
      /\ StreamOK(sub'[h], i, log) /\ sub'[h].id = sub[h].id
      /\ (Refused(h, i) \/ i = batch.last => sub'[h].delivered_through = i)
  BY <1>a, SendServes, Zenon
<1>4. /\ sub \in [Handles -> Subscriber \cup {None}] /\ Members \subseteq Registered
      /\ batch \in [last: Nat, full: BOOLEAN] /\ batch.last \in Nat /\ batch.last \in DOMAIN log
      /\ at \in Nat
  BY <1>1, Zenon DEF IInv, TypeOK
<1>5. sub' \in [Handles -> Subscriber \cup {None}]
  BY <1>3, Zenon
<1>6. Members' = Members /\ Members' \subseteq Registered' /\ Distinct'
  <2>1. sub'[h] # None
    BY <1>3, SubscriberFields, Zenon
  <2>2. \A g \in Handles : sub[g] # None => sub'[g] # None
    BY <1>3, <2>1, Zenon
  <2>3. Registered \subseteq Registered'
    BY <2>2, Zenon DEF Registered
  <2>4. Members' = Members
    BY <1>1, Zenon DEF Members
  <2>5. Distinct'
    BY <1>1, Zenon DEF IInv, Distinct
  <2>6. QED
    BY <1>4, <2>3, <2>4, <2>5, Zenon
<1>7. dead' \subseteq Ids
  <2>1. sub[h].id \in Ids /\ dead \subseteq Ids
    BY <1>3, SubscriberFields, Zenon DEF IInv, TypeOK
  <2>2. QED
    BY <1>2, <2>1, Zenon
<1>8. \A g \in Handles : g # h /\ sub[g] # None => StreamOK(sub[g], sub[g].delivered_through, log)
  BY <1>a, Zenon DEF IInv, StreamsOK, Registered, Progress
<1>9. (Refused(h, i) \/ i = batch.last) => Settled(sub', log')
  BY <1>1, <1>3, <1>8, Zenon DEF Settled
<1>10. ASSUME Visit(at + 1), Refused(h, i) \/ i = batch.last PROVE IInv'
  <2>1. at + 1 \in Nat \ {0} /\ at + 1 # at
    BY <1>4, SMTT(30)
  <2>2. /\ batch' \in [last: Nat, full: BOOLEAN] /\ at' \in Nat /\ cursor' \in Nat
        /\ pc' \in Labels /\ pc' # "send" /\ (pc' \in Passing => pc' = "read")
        /\ (pc' = "read" => /\ at + 1 \in DOMAIN subscribers /\ at' = at + 1
                            /\ cursor' = sub[subscribers[at + 1]].delivered_through)
    BY <1>10, <2>1, VisitFacts, Zenon
  <2>3. pc' = "read" => /\ at' \in DOMAIN subscribers'
                        /\ cursor' = sub'[subscribers'[at']].delivered_through
    <3>1. SUFFICES ASSUME pc' = "read"
                   PROVE  cursor' = sub'[subscribers[at + 1]].delivered_through
      BY <1>1, <2>2, Zenon
    <3>2. subscribers[at + 1] \in Handles
      BY <1>4, <2>2, <3>1, Zenon DEF Members, Registered
    <3>3. subscribers[at + 1] # h
      BY <1>a, <1>3, <2>1, <2>2, <3>1, Zenon DEF IInv, Distinct
    <3>4. QED
      BY <1>3, <2>2, <3>1, <3>2, <3>3, Zenon
  <2>4. TypeOK'
    BY <1>1, <1>5, <1>6, <1>7, <2>2, <2>3, Zenon DEF IInv, TypeOK
  <2>5. QED
    BY <1>6, <1>9, <1>10, <2>2, <2>3, <2>4, SettledAfter, Zenon DEF IInv
<1>11. ASSUME i = batch.last, pc' = "read", batch' = NoBatch, cursor' = i, at' = at PROVE IInv'
  <2>1. 0 \in Nat
    BY SMTT(30)
  <2>2. batch' \in [last: Nat, full: BOOLEAN]
    BY <1>11, <2>1, Zenon DEF NoBatch
  <2>3. pc' \in Labels /\ pc' # "send" /\ at' \in DOMAIN subscribers'
    BY <1>1, <1>3, <1>11, Zenon DEF Labels, Passing
  <2>4. TypeOK'
    BY <1>1, <1>3, <1>4, <1>5, <1>6, <1>7, <1>11, <2>2, <2>3, Zenon DEF IInv, TypeOK
  <2>5. cursor' = sub'[subscribers'[at']].delivered_through
    BY <1>a, <1>1, <1>3, <1>11, Zenon
  <2>6. QED
    BY <1>6, <1>9, <1>11, <2>4, <2>5, SettledAfter, Zenon DEF IInv
<1>12. ASSUME i # batch.last, pc' = "send", batch' = batch, cursor' = i, at' = at PROVE IInv'
  <2>1. i < batch.last
    BY <1>3, <1>4, <1>12, SMTT(30)
  <2>2. pc' \in Labels /\ pc' \in Passing /\ at' \in DOMAIN subscribers' /\ pc' # "read"
    BY <1>1, <1>3, <1>12, Zenon DEF Labels, Passing
  <2>3. TypeOK'
    BY <1>1, <1>3, <1>4, <1>5, <1>6, <1>7, <1>12, <2>1, <2>2, Zenon DEF IInv, TypeOK
  <2>4. Progress(h)' = i /\ \A g \in Handles : g # h => Progress(g)' = sub'[g].delivered_through
    BY <1>a, <1>1, <1>12, <2>2, Zenon DEF Progress
  <2>5. StreamsOK'
    <3>1. StreamOK(sub'[h], Progress(h)', log')
      BY <1>1, <1>3, <2>4, Zenon
    <3>2. \A g \in Handles : g # h /\ sub'[g] # None => StreamOK(sub'[g], Progress(g)', log')
      BY <1>1, <1>3, <1>8, <2>4, Zenon
    <3>3. QED
      BY <3>1, <3>2, Zenon DEF StreamsOK, Registered
  <2>6. QED
    BY <1>6, <2>2, <2>3, <2>5, Zenon DEF IInv, ReadsFromCursor
<1>13. QED
  BY <1>2, <1>10, <1>11, <1>12, Zenon DEF AfterRecord

LEMMA DispatcherStepOK == ASSUME IInv, DispatcherStep \/ WakeOnPoll PROVE IInv'
<1>1. permit \in BOOLEAN /\ final \in BOOLEAN
  BY Zenon DEF IInv, TypeOK
<1>2. CASE WakeOnNotify
  BY <1>1, <1>2, WakeOK, Zenon DEF WakeOnNotify
<1>3. CASE WakeOnShutdown
  BY <1>1, <1>3, WakeOK, Zenon DEF WakeOnShutdown
<1>4. CASE WakeOnPoll
  BY <1>1, <1>4, WakeOK, Zenon DEF WakeOnPoll
<1>5. CASE ReadBatch
  BY <1>5, ReadBatchOK, Zenon
<1>6. CASE Send
  BY <1>6, SendOK, Zenon
<1>7. CASE Prune
  BY <1>7, PruneOK, Zenon
<1>8. CASE ReadEffects
  BY <1>8, ReadEffectsOK, Zenon
<1>9. CASE \E i \in marks : MarkEffect(i)
  BY <1>9, MarkEffectOK, Zenon
<1>10. QED
  BY <1>2, <1>3, <1>4, <1>5, <1>6, <1>7, <1>8, <1>9, Zenon DEF DispatcherStep

LEMMA NextOK == IInv /\ [Next]_vars => IInv'
<1> SUFFICES ASSUME IInv, [Next]_vars PROVE IInv'
  OBVIOUS
<1>1. CASE DispatcherStep \/ WakeOnPoll
  BY <1>1, DispatcherStepOK, Zenon
<1>2. CASE BeginCall
  BY <1>2, BeginCallOK, Zenon
<1>3. CASE NotifyOne
  BY <1>3, NotifyOneOK, Zenon
<1>4. CASE Shutdown
  BY <1>4, ShutdownOK, Zenon
<1>5. CASE Restart
  BY <1>5, RestartOK, Zenon
<1>6. CASE \E m \in Machines : Commit(m)
  BY <1>6, CommitOK, Zenon
<1>7. CASE \E h \in Handles, id \in Ids, filter \in Filters, after \in Positions :
             subscribe(h, id, filter, after)
  BY <1>7, SubscribeOK, Zenon
<1>8. CASE \E id \in Ids : unsubscribe(id)
  BY <1>8, UnsubscribeOK, Zenon
<1>9. CASE \E h \in Handles : DropReceiver(h)
  BY <1>9, DropReceiverOK, Zenon
<1>10. CASE UNCHANGED vars
  <2>1. /\ log' = log /\ outbox' = outbox /\ calls' = calls /\ wakeups' = wakeups
        /\ shutdown' = shutdown /\ permit' = permit /\ subscribers' = subscribers /\ sub' = sub
        /\ pc' = pc /\ final' = final /\ at' = at /\ cursor' = cursor /\ batch' = batch
        /\ dead' = dead /\ marks' = marks
    BY <1>10, Zenon DEF vars, storage, callers, locals
  <2>2. TypeOK'
    BY <2>1, Zenon DEF IInv, TypeOK, Members, Registered
  <2>3. QED
    BY <2>1, <2>2, StreamsUntouched, Zenon DEF IInv
<1>11. QED
  BY <1>1, <1>2, <1>3, <1>4, <1>5, <1>6, <1>7, <1>8, <1>9, <1>10, Zenon DEF Next

(* In every reachable state the invariant holds: each subscriber has been  *)
(* sent what it asked for up to where it was served, and nothing else.     *)
THEOREM AlwaysSound == Spec => []IInv
<1>1. QED
  BY InitOK, NextOK, PTL DEF Spec

(* The state keeps its shape: dispatch_pass stays within the subscriber    *)
(* Vec and within the batch it read, for any number of subscribers.        *)
THEOREM AlwaysTyped == Spec => []TypeOK
<1>1. IInv => TypeOK
  BY Zenon DEF IInv
<1>2. QED
  BY <1>1, AlwaysSound, PTL

LEMMA SoundStreams == IInv => ExactlyOnceInOrder
<1> SUFFICES ASSUME IInv PROVE ExactlyOnceInOrder
  OBVIOUS
<1>1. SUFFICES ASSUME NEW h \in Registered
               PROVE  /\ Increasing(sub[h])
                      /\ \A g \in Got(sub[h]) : g \in DOMAIN log /\ Due(sub[h], log, g)
                      /\ NoGap(sub[h], log)
                      /\ Served(sub[h], sub[h].delivered_through, log)
  <2>1. ASSUME NEW h \in Registered, Increasing(sub[h]),
               \A g \in Got(sub[h]) : g \in DOMAIN log /\ Due(sub[h], log, g),
               NoGap(sub[h], log), Served(sub[h], sub[h].delivered_through, log)
        PROVE  LET got == sub[h].delivered
                   due(i) == sub[h].after < i /\ Wants(h, i)
               IN  /\ \A p, q \in DOMAIN got : p < q => got[p] < got[q]
                   /\ \A p \in DOMAIN got : got[p] \in DOMAIN log /\ due(got[p])
                   /\ \A p \in DOMAIN got, i \in DOMAIN log :
                         (i < got[p] /\ due(i)) => i \in Delivered(h)
                   /\ sub[h].alive => \A i \in DOMAIN log :
                         (i <= sub[h].delivered_through /\ due(i)) => i \in Delivered(h)
    <3>1. Delivered(h) = Got(sub[h]) /\ \A p \in DOMAIN sub[h].delivered :
                                           sub[h].delivered[p] \in Got(sub[h])
      BY Zenon DEF Delivered, Got
    <3>2. \A i : Due(sub[h], log, i) <=> sub[h].after < i /\ Wants(h, i)
      BY Zenon DEF Due, Wants
    <3>3. QED
      BY <2>1, <3>1, <3>2, Zenon DEF Increasing, NoGap, Served
  <2>2. QED
    BY <2>1, Zenon DEF ExactlyOnceInOrder
<1>2. StreamOK(sub[h], Progress(h), log) /\ log \in Seq(Machines)
  BY Zenon DEF IInv, StreamsOK, TypeOK
<1>3. /\ Progress(h) \in Nat /\ sub[h].delivered_through \in Nat
      /\ sub[h].delivered_through <= Progress(h)
  BY <1>2, StreamFacts, Zenon
<1>4. \A i \in DOMAIN log : i <= sub[h].delivered_through => i <= Progress(h)
  BY <1>2, <1>3, SMTT(30)
<1>5. Increasing(sub[h]) /\ OnlyDue(sub[h], Progress(h), log) /\ NoGap(sub[h], log)
      /\ Served(sub[h], Progress(h), log)
  BY <1>2, Zenon DEF StreamOK
<1>6. Served(sub[h], sub[h].delivered_through, log)
  BY <1>4, <1>5, Zenon DEF Served
<1>7. QED
  BY <1>5, <1>6, Zenon DEF OnlyDue

(* "in-order, gap-free delivery" (Subscriber): every subscriber gets each  *)
(* record it asked for once and in order, whatever commits, failed reads,  *)
(* dropped receivers and later passes come between two sends.              *)
THEOREM AlwaysExactlyOnceInOrder == Spec => []ExactlyOnceInOrder
<1>1. QED
  BY AlwaysSound, SoundStreams, PTL

-----------------------------------------------------------------------------
(* Who stays subscribed. *)
(* The same subscribers under the same ids, none of them alive again. *)
SameIds ==
    \A g \in Handles :
        /\ sub'[g] = None <=> sub[g] = None
        /\ sub[g] # None => sub'[g].id = sub[g].id /\ (sub'[g].alive => sub[g].alive)

LEMMA IdsKept ==
    ASSUME LInv, SameIds
    PROVE  \A x \in dead : \E g \in Registered' : sub'[g].id = x /\ ~sub'[g].alive
BY Zenon DEF LInv, DeadAreDead, SameIds, Registered

(* Members that stay, and dead ones that stay dead under their ids. *)
LEMMA PrunedKept ==
    ASSUME LInv, SameIds,
           \A g \in Registered' : sub'[g].alive /\ ~sub'[g].left =>
               /\ ~sub[g].left
               /\ g \in Members => g \in Members'
    PROVE  PrunedSharesDeadId'
<1>1. SUFFICES ASSUME NEW h \in Registered', sub'[h].alive, ~sub'[h].left, h \notin Members'
               PROVE  \E g \in Registered' : sub'[g].id = sub'[h].id /\ ~sub'[g].alive
  BY Zenon DEF PrunedSharesDeadId
<1>2. h \in Registered /\ sub'[h].id = sub[h].id /\ sub[h].alive /\ ~sub[h].left /\ h \notin Members
  BY <1>1, Zenon DEF SameIds, Registered
<1>3. PICK g \in Registered : sub[g].id = sub[h].id /\ ~sub[g].alive
  BY <1>2, Zenon DEF LInv, PrunedSharesDeadId
<1>4. g \in Registered' /\ sub'[g].id = sub[g].id /\ ~sub'[g].alive
  BY <1>3, Zenon DEF SameIds, Registered
<1>5. QED
  BY <1>2, <1>3, <1>4, Zenon

LEMMA LiveUntouched ==
    ASSUME LInv, sub' = sub, subscribers' = subscribers, dead' = dead
    PROVE  LInv'
<1>1. Registered' = Registered /\ Members' = Members
  BY Zenon DEF Registered, Members
<1>2. PrunedSharesDeadId'
  BY <1>1, Zenon DEF LInv, PrunedSharesDeadId
<1>3. DeadAreDead'
  BY <1>1, Zenon DEF LInv, DeadAreDead
<1>4. QED
  BY <1>2, <1>3, Zenon DEF LInv

LEMMA LiveRestart == ASSUME LInv, Restart PROVE LInv'
<1>1. \A h \in Handles : sub'[h] = None
  BY Zenon DEF Restart
<1>2. Registered' = {} /\ dead' = {}
  BY <1>1, Zenon DEF Restart, Registered
<1>3. QED
  BY <1>2, Zenon DEF LInv, DeadAreDead, PrunedSharesDeadId

LEMMA LiveSubscribe ==
    ASSUME IInv, LInv, NEW h \in Handles, NEW id \in Ids, NEW filter \in Filters,
           NEW after \in Positions, subscribe(h, id, filter, after)
    PROVE  LInv'
<1>1. /\ sub \in [Handles -> Subscriber \cup {None}] /\ subscribers \in Seq(Handles)
  BY Zenon DEF IInv, TypeOK
<1>2. /\ sub[h] = None /\ dead' = dead /\ subscribers' = Append(subscribers, h)
      /\ sub' = [sub EXCEPT ![h] =
           [id |-> id, machine_filter |-> filter, after |-> after, delivered_through |-> after,
            alive |-> TRUE, left |-> FALSE, joined |-> Len(log), delivered |-> <<>>]]
  BY Zenon DEF subscribe, locals
<1>3. sub'[h].id = id /\ \A g \in Handles : g # h => sub'[g] = sub[g]
  BY <1>1, <1>2, Zenon
<1>4. /\ \A i \in DOMAIN subscribers : i \in DOMAIN subscribers' /\ subscribers'[i] = subscribers[i]
      /\ Len(subscribers) + 1 \in DOMAIN subscribers' /\ subscribers'[Len(subscribers) + 1] = h
  BY <1>1, <1>2, SMTT(30)
<1>5. h \in Members' /\ \A g \in Members : g \in Members'
  BY <1>4, Zenon DEF Members
<1>6. h \notin Registered /\ \A g \in Registered' : g = h \/ g \in Registered
  BY <1>2, <1>3, Zenon DEF Registered
<1>7. \A g \in Registered : g \in Registered' /\ sub'[g] = sub[g]
  BY <1>2, <1>3, Zenon DEF Registered
<1>8. DeadAreDead'
  <2>1. SUFFICES ASSUME NEW x \in dead
                 PROVE  \E g \in Registered' : sub'[g].id = x /\ ~sub'[g].alive
    BY <1>2, Zenon DEF DeadAreDead
  <2>2. PICK g \in Registered : sub[g].id = x /\ ~sub[g].alive
    BY <2>1, Zenon DEF LInv, DeadAreDead
  <2>3. QED
    BY <1>7, <2>2, Zenon
<1>9. PrunedSharesDeadId'
  <2>1. SUFFICES ASSUME NEW f \in Registered', sub'[f].alive, ~sub'[f].left, f \notin Members'
                 PROVE  \E g \in Registered' : sub'[g].id = sub'[f].id /\ ~sub'[g].alive
    BY Zenon DEF PrunedSharesDeadId
  <2>2. f \in Registered /\ f \notin Members /\ sub'[f] = sub[f]
    BY <1>5, <1>6, <1>7, <2>1, Zenon
  <2>3. PICK g \in Registered : sub[g].id = sub[f].id /\ ~sub[g].alive
    BY <2>1, <2>2, Zenon DEF LInv, PrunedSharesDeadId
  <2>4. QED
    BY <1>7, <2>2, <2>3, Zenon
<1>10. QED
  BY <1>8, <1>9, Zenon DEF LInv

LEMMA LiveUnsubscribe ==
    ASSUME IInv, LInv, NEW id \in Ids, unsubscribe(id)
    PROVE  LInv'
<1>1. /\ sub \in [Handles -> Subscriber \cup {None}] /\ Members \subseteq Registered
  BY Zenon DEF IInv, TypeOK
<1>2. /\ subscribers' = WithoutIds({id}) /\ dead' = dead
      /\ sub' = [h \in Handles |-> IF h \in Members /\ sub[h].id = id
                                   THEN [sub[h] EXCEPT !.left = TRUE] ELSE sub[h]]
  BY Zenon DEF unsubscribe, locals
<1>3. Members' = {h \in Members : sub[h].id \notin {id}}
  BY <1>2, WithoutIdsKeeps, Zenon
<1>4. ASSUME NEW h \in Handles
      PROVE  /\ sub'[h] = None <=> sub[h] = None
             /\ sub[h] # None => /\ sub'[h].id = sub[h].id /\ sub'[h].alive = sub[h].alive
                                 /\ (~sub'[h].left => sub'[h] = sub[h] /\ ~(h \in Members /\ sub[h].id = id))
  <2>1. CASE h \in Members /\ sub[h].id = id
    <3>1. sub'[h] = [sub[h] EXCEPT !.left = TRUE]
      BY <1>2, <2>1, Zenon
    <3>2. sub[h] \in Subscriber /\ sub[h] # None
      BY <1>1, <2>1, Zenon DEF Registered
    <3>3. /\ sub'[h] \in Subscriber /\ sub'[h].id = sub[h].id /\ sub'[h].alive = sub[h].alive
          /\ sub'[h].left = TRUE
      BY <3>1, <3>2, LeavingSubscriber, Zenon
    <3>4. QED
      BY <3>2, <3>3, SubscriberFields, Zenon
  <2>2. CASE ~(h \in Members /\ sub[h].id = id)
    BY <1>2, <2>2, Zenon
  <2>3. QED
    BY <2>1, <2>2, Zenon
<1>5. SameIds
  BY <1>4, Zenon DEF SameIds
<1>6. DeadAreDead'
  BY <1>2, <1>5, IdsKept, Zenon DEF DeadAreDead
<1>7. PrunedSharesDeadId'
  <2>1. \A g \in Registered' : ~sub'[g].left =>
            ~sub[g].left /\ (g \in Members => g \in Members')
    BY <1>3, <1>4, Zenon DEF Registered
  <2>2. QED
    BY <1>5, <2>1, PrunedKept, Zenon
<1>8. QED
  BY <1>6, <1>7, Zenon DEF LInv

LEMMA LiveDropReceiver ==
    ASSUME IInv, LInv, NEW h \in Handles, DropReceiver(h)
    PROVE  LInv'
<1>1. sub \in [Handles -> Subscriber \cup {None}]
  BY Zenon DEF IInv, TypeOK
<1>2. /\ sub' = [sub EXCEPT ![h] = [sub[h] EXCEPT !.alive = FALSE]] /\ h \in Registered
      /\ subscribers' = subscribers /\ dead' = dead
  BY Zenon DEF DropReceiver, locals
<1>3. sub'[h] = [sub[h] EXCEPT !.alive = FALSE] /\ \A g \in Handles : g # h => sub'[g] = sub[g]
  BY <1>1, <1>2, Zenon
<1>4. sub[h] \in Subscriber /\ sub[h] # None
  BY <1>1, <1>2, Zenon DEF Registered
<1>5. sub'[h] \in Subscriber /\ sub'[h].id = sub[h].id /\ sub'[h].alive = FALSE
  BY <1>3, <1>4, DeadSubscriber, Zenon
<1>6. sub'[h] # None
  BY <1>5, SubscriberFields, Zenon
<1>7. SameIds
  BY <1>3, <1>4, <1>5, <1>6, Zenon DEF SameIds
<1>8. DeadAreDead'
  BY <1>2, <1>7, IdsKept, Zenon DEF DeadAreDead
<1>9. PrunedSharesDeadId'
  <2>1. Members' = Members
    BY <1>2, Zenon DEF Members
  <2>2. \A g \in Registered' : sub'[g].alive => g \in Registered /\ sub'[g] = sub[g]
    BY <1>3, <1>5, Zenon DEF Registered
  <2>3. QED
    BY <1>7, <2>1, <2>2, PrunedKept, Zenon
<1>10. QED
  BY <1>8, <1>9, Zenon DEF LInv

LEMMA LiveSend == ASSUME IInv, LInv, Send PROVE LInv'
<1>1. SUFFICES ASSUME NEW h, h = subscribers[at], NEW i, i = cursor + 1 PROVE LInv'
  OBVIOUS
<1>2. /\ h \in Handles /\ sub[h] \in Subscriber /\ sub'[h] \in Subscriber
      /\ \A g \in Handles : g # h => sub'[g] = sub[g]
      /\ sub'[h].id = sub[h].id /\ sub'[h].alive = sub[h].alive /\ sub'[h].left = sub[h].left
  BY <1>1, SendServes, Zenon
<1>3. sub[h] # None /\ sub'[h] # None
  BY <1>2, SubscriberFields, Zenon
<1>4. SameIds
  BY <1>2, <1>3, Zenon DEF SameIds
<1>5. subscribers' = subscribers /\ (dead' = dead \/ (dead' = dead \cup {sub[h].id} /\ ~sub[h].alive))
  BY <1>1, Zenon DEF Send, Refused
<1>6. \A x \in dead : \E g \in Registered' : sub'[g].id = x /\ ~sub'[g].alive
  BY <1>4, IdsKept, Zenon
<1>7. h \in Registered'
  BY <1>2, <1>3, Zenon DEF Registered
<1>8. DeadAreDead'
  <2>1. CASE dead' = dead
    BY <1>6, <2>1, Zenon DEF DeadAreDead
  <2>2. CASE dead' = dead \cup {sub[h].id} /\ ~sub[h].alive
    <3>1. SUFFICES ASSUME NEW x \in dead'
                   PROVE  \E g \in Registered' : sub'[g].id = x /\ ~sub'[g].alive
      BY Zenon DEF DeadAreDead
    <3>2. CASE x \in dead
      BY <1>6, <3>2, Zenon
    <3>3. CASE x = sub[h].id
      BY <1>2, <1>7, <2>2, <3>3, Zenon
    <3>4. QED
      BY <2>2, <3>2, <3>3, Zenon
  <2>3. QED
    BY <1>5, <2>1, <2>2, Zenon
<1>9. \A g \in Registered' : /\ g \in Registered /\ sub'[g].alive = sub[g].alive
                              /\ sub'[g].left = sub[g].left
  BY <1>2, <1>3, Zenon DEF Registered
<1>10. Members' = Members
  BY <1>5, Zenon DEF Members
<1>11. PrunedSharesDeadId'
  BY <1>4, <1>9, <1>10, PrunedKept, Zenon
<1>12. QED
  BY <1>8, <1>11, Zenon DEF LInv

(* Whoever is removed has an id found dead, and the one who left it there  *)
(* is still registered without a receiver.                                 *)
LEMMA LivePrune == ASSUME IInv, LInv, Prune PROVE LInv'
<1>1. subscribers' = WithoutIds(dead) /\ dead' = {} /\ sub' = sub
  BY Zenon DEF Prune
<1>2. Members' = {h \in Members : sub[h].id \notin dead} /\ Registered' = Registered
  BY <1>1, WithoutIdsKeeps, Zenon DEF Registered
<1>3. PrunedSharesDeadId'
  <2>1. SUFFICES ASSUME NEW h \in Registered, sub[h].alive, ~sub[h].left, h \notin Members'
                 PROVE  \E g \in Registered : sub[g].id = sub[h].id /\ ~sub[g].alive
    BY <1>1, <1>2, Zenon DEF PrunedSharesDeadId
  <2>2. CASE h \in Members
    BY <1>2, <2>1, <2>2, Zenon DEF LInv, DeadAreDead
  <2>3. CASE h \notin Members
    BY <2>1, <2>3, Zenon DEF LInv, PrunedSharesDeadId
  <2>4. QED
    BY <2>2, <2>3, Zenon
<1>4. DeadAreDead'
  BY <1>1, Zenon DEF DeadAreDead
<1>5. QED
  BY <1>3, <1>4, Zenon DEF LInv

LEMMA LiveNext == LInv /\ IInv /\ [Next]_vars => LInv'
<1> SUFFICES ASSUME LInv, IInv, [Next]_vars PROVE LInv'
  OBVIOUS
<1>1. CASE sub' = sub /\ subscribers' = subscribers /\ dead' = dead
  BY <1>1, LiveUntouched, Zenon
<1>2. CASE Restart
  BY <1>2, LiveRestart, Zenon
<1>3. CASE \E h \in Handles, id \in Ids, filter \in Filters, after \in Positions :
             subscribe(h, id, filter, after)
  BY <1>3, LiveSubscribe, Zenon
<1>4. CASE \E id \in Ids : unsubscribe(id)
  BY <1>4, LiveUnsubscribe, Zenon
<1>5. CASE \E h \in Handles : DropReceiver(h)
  BY <1>5, LiveDropReceiver, Zenon
<1>6. CASE Send
  BY <1>6, LiveSend, Zenon
<1>7. CASE Prune
  BY <1>7, LivePrune, Zenon
<1>8. CASE \/ WakeOnNotify \/ WakeOnShutdown \/ WakeOnPoll \/ ReadBatch \/ ReadEffects
           \/ \E i \in marks : MarkEffect(i)
  <2>1. sub' = sub /\ subscribers' = subscribers /\ dead' = dead
    BY <1>8, Zenon DEF WakeOnNotify, WakeOnShutdown, WakeOnPoll, Wake, ReadBatch, ReadEffects,
         MarkEffect
  <2>2. QED
    BY <1>1, <2>1, Zenon
<1>9. CASE \/ BeginCall \/ NotifyOne \/ Shutdown \/ (\E m \in Machines : Commit(m))
           \/ UNCHANGED vars
  <2>1. sub' = sub /\ subscribers' = subscribers /\ dead' = dead
    BY <1>9, Zenon DEF BeginCall, NotifyOne, Shutdown, Commit, vars, locals
  <2>2. QED
    BY <1>1, <2>1, Zenon
<1>10. QED
  BY <1>2, <1>3, <1>4, <1>5, <1>6, <1>7, <1>8, <1>9, Zenon DEF Next, DispatcherStep

LEMMA LiveInit == Init => LInv
<1> SUFFICES ASSUME Init PROVE LInv
  OBVIOUS
<1>1. Registered = {} /\ dead = {}
  BY Zenon DEF Init, Registered
<1>2. QED
  BY <1>1, Zenon DEF LInv, DeadAreDead, PrunedSharesDeadId

(* dispatch_pass collects the ids of refused sends under the read lock and *)
(* removes by id under the write lock.  Whatever happens between the two,  *)
(* a live subscriber that was not unsubscribed is removed only when        *)
(* another one under its id has lost its receiver.                         *)
THEOREM PrunedAlwaysSharesDeadId == Spec => []PrunedSharesDeadId
<1>1. Init => LInv
  BY LiveInit
<1>2. LInv /\ IInv /\ [Next]_vars => LInv'
  BY LiveNext
<1>3. LInv => PrunedSharesDeadId
  BY Zenon DEF LInv
<1>4. QED
  BY <1>1, <1>2, <1>3, AlwaysSound, PTL DEF Spec

=============================================================================
