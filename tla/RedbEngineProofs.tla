-------------------------- MODULE RedbEngineProofs --------------------------
(***************************************************************************)
(* Proofs about RedbEngine, for any writers, rows, keys and calls: the log *)
(* stays gap-free and the indexes agree whatever fails in between, the     *)
(* store implements Store, and reads find the log.  At the bottom of it, a *)
(* padded sequence number and a row are recovered from the string keys     *)
(* they are put into, and the keys of a history sort as its numbers do.    *)
(***************************************************************************)
EXTENDS StoreRefinement, RedbReads, FiniteSetTheorems, TLAPS

USE ZenonT(30), SMTT(30)

-----------------------------------------------------------------------------
(* A set of numbers has a least element. *)
LEMMA LeastElement ==
    ASSUME NEW T \in SUBSET Nat, T # {}
    PROVE  \E x \in T : \A y \in T : x <= y
<1> DEFINE R == OpToRel(<, Nat)
<1>1. IsWellFoundedOn(R, Nat)
  BY NatLessThanWellFounded
<1>2. \A x, y \in Nat : x < y => <<x, y>> \in R
  BY DEF OpToRel
<1> HIDE DEF R
<1>3. PICK x \in T : \A y \in T : ~(<<y, x>> \in R)
  BY <1>1, WFMin, Zenon
<1>4. \A y \in T : ~(y < x)
  BY <1>2, <1>3
<1>5. QED
  BY <1>4, SMTT(30)

(* Induction, about the set of the numbers for which the claim holds. *)
LEMMA InductionOverNat ==
    ASSUME NEW S, 0 \in S, \A n \in Nat : n \in S => n + 1 \in S
    PROVE  Nat \subseteq S
<1> DEFINE T == Nat \ S
<1> SUFFICES ASSUME T # {} PROVE FALSE
  OBVIOUS
<1>1. PICK x \in T : \A y \in T : x <= y
  BY LeastElement
<1>2. x # 0 /\ x \in Nat
  BY <1>1
<1>3. x - 1 \in Nat /\ x - 1 + 1 = x /\ ~(x <= x - 1)
  BY <1>2, SMTT(30)
<1>4. x - 1 \in S
  BY <1>1, <1>3
<1>5. QED
  BY <1>3, <1>4

(* The recursive definition of Weight defines it. *)
LEMMA WeightIs ==
    /\ Weight[0] = 1
    /\ \A p \in Nat : Weight[p] \in Nat \ {0} /\ Weight[p + 1] = SeqBase * Weight[p]
<1> DEFINE B == SeqBase
           Good(n) == {f \in [0..n -> Nat \ {0}] :
                          f[0] = 1 /\ \A p \in 1..n : f[p] = B * f[p - 1]}
           W == [p \in Nat |-> (CHOOSE f : f \in Good(p))[p]]
           IsWeight(f) == f = [p \in Nat |-> IF p = 0 THEN 1 ELSE SeqBase * f[p - 1]]
<1>0. B \in Nat \ {0}
  BY KeyAssumption
<1> HIDE DEF B
<1>1. \A n \in Nat : Good(n) # {}
  <2> DEFINE S == {n \in Nat : Good(n) # {}}
  <2>1. 0 \in S
    <3>1. [p \in 0..0 |-> 1] \in Good(0)
      BY SMTT(30)
    <3>2. QED
      BY <3>1, SMTT(30)
  <2>2. ASSUME NEW n \in Nat, n \in S PROVE n + 1 \in S
    <3>1. PICK f : f \in Good(n)
      BY <2>2
    <3>2. [p \in 0..n + 1 |-> IF p = n + 1 THEN B * f[n] ELSE f[p]] \in Good(n + 1)
      BY <1>0, <3>1, SMTT(90)
    <3>3. QED
      BY <3>2, SMTT(90)
  <2> HIDE DEF S
  <2>3. Nat \subseteq S
    BY <2>1, <2>2, InductionOverNat
  <2>4. QED
    BY <2>3 DEF S
<1>2. ASSUME NEW n \in Nat, NEW f \in Good(n), NEW g \in Good(n + 1)
      PROVE  f[n] = g[n]
  <2> DEFINE S == {p \in Nat : p <= n => f[p] = g[p]}
  <2>1. 0 \in S
    BY SMTT(30)
  <2>2. ASSUME NEW p \in Nat, p \in S PROVE p + 1 \in S
    <3>1. CASE p + 1 <= n
      <4>1. p + 1 \in 1..n /\ p + 1 \in 1..n + 1 /\ p + 1 - 1 = p /\ p <= n
        BY <3>1, SMTT(30)
      <4>2. f[p + 1] = B * f[p] /\ g[p + 1] = B * g[p]
        BY <4>1, SMTT(30)
      <4>3. QED
        BY <2>2, <4>1, <4>2, SMTT(30)
    <3>2. CASE ~(p + 1 <= n)
      BY <3>2, SMTT(30)
    <3>3. QED
      BY <3>1, <3>2
  <2> HIDE DEF S
  <2>3. n \in S
    BY <2>1, <2>2, InductionOverNat
  <2>4. QED
    BY <2>3, SMTT(30) DEF S
<1>3. W[0] = 1 /\ \A p \in Nat : W[p] \in Nat \ {0} /\ W[p + 1] = B * W[p]
  <2> DEFINE F(n) == CHOOSE f : f \in Good(n)
  <2>1. \A n \in Nat : F(n) \in Good(n)
    BY <1>1
  <2>2. \A n \in Nat : W[n] = F(n)[n]
    OBVIOUS
  <2> HIDE DEF F, W
  <2>3. ASSUME NEW n \in Nat
        PROVE  W[n] \in Nat \ {0} /\ W[n + 1] = B * W[n] /\ (n = 0 => W[n] = 1)
    <3>1. n + 1 \in Nat /\ n \in 0..n /\ n + 1 \in 1..n + 1 /\ n + 1 - 1 = n
      BY SMTT(30)
    <3>2. F(n) \in Good(n) /\ F(n + 1) \in Good(n + 1)
      BY <2>1, <3>1
    <3>3. F(n)[n] = F(n + 1)[n]
      BY <1>2, <3>2
    <3>4. F(n + 1)[n + 1] = B * F(n + 1)[n] /\ F(n)[n] \in Nat \ {0} /\ F(n)[0] = 1
      BY <3>1, <3>2, SMTT(30)
    <3>5. QED
      BY <2>2, <3>1, <3>3, <3>4
  <2>4. QED
    BY <2>3, SMTT(30)
<1>4. IsWeight(W)
  <2>1. DOMAIN W = Nat /\ W = [p \in Nat |-> W[p]]
    BY SMTT(30)
  <2> HIDE DEF W
  <2>2. \A p \in Nat : W[p] = IF p = 0 THEN 1 ELSE SeqBase * W[p - 1]
    BY <1>3, SMTT(30) DEF B
  <2>3. QED
    BY <2>1, <2>2
<1> HIDE DEF W
<1>5. IsWeight(Weight)
  <2>1. Weight = CHOOSE f : IsWeight(f)
    BY DEF Weight
  <2> HIDE DEF IsWeight
  <2>2. QED
    BY <1>4, <2>1
<1>6. Weight = W
  <2> DEFINE S == {p \in Nat : Weight[p] = W[p]}
  <2>1. 0 \in S
    BY <1>4, <1>5
  <2>2. ASSUME NEW p \in Nat, p \in S PROVE p + 1 \in S
    <3>1. p + 1 \in Nat /\ p + 1 # 0 /\ p + 1 - 1 = p
      BY SMTT(30)
    <3>2. Weight[p + 1] = SeqBase * Weight[p] /\ W[p + 1] = SeqBase * W[p]
      BY <1>4, <1>5, <3>1, SMTT(30)
    <3>3. QED
      BY <2>2, <3>1, <3>2
  <2> HIDE DEF S
  <2>3. \A p \in Nat : Weight[p] = W[p]
    BY <2>1, <2>2, InductionOverNat DEF S
  <2>4. QED
    BY <1>4, <1>5, <2>3
<1>7. QED
  BY <1>3, <1>6 DEF B

(* A quotient and a remainder make up the number again. *)
LEMMA DivMod ==
    ASSUME NEW x \in Nat, NEW b \in Nat \ {0}
    PROVE  /\ x \div b \in Nat /\ x % b \in 0..b - 1
           /\ (x \div b) * b + (x % b) = x
BY SMTT(30)

LEMMA SmallQuotient ==
    ASSUME NEW x \in Nat, NEW b \in Nat, x < b
    PROVE  x \div b = 0
BY SMTT(30)

(* Dividing twice. *)
LEMMA DivDiv ==
    ASSUME NEW x \in Nat, NEW a \in Nat \ {0}, NEW b \in Nat \ {0}
    PROVE  (x \div a) \div b = x \div (b * a)
<1> DEFINE q == x \div a
           r == x % a
           p == q \div b
           s == q % b
<1>1. q \in Nat /\ r \in 0..a - 1 /\ q * a + r = x
  BY DivMod
<1>2. p \in Nat /\ s \in 0..b - 1 /\ p * b + s = q
  BY <1>1, DivMod
<1> HIDE DEF q, r, p, s
<1> DEFINE t == s * a + r
<1>3. t \in Nat /\ t < b * a
  <2>1. s * a <= (b - 1) * a
    BY <1>2, SMTT(30)
  <2>2. QED
    BY <1>1, <1>2, <2>1, SMTT(30)
<1>4. p * (b * a) + t = x
  BY <1>1, <1>2, SMTT(30)
<1> HIDE DEF t
<1>5. x \div (b * a) = p
  <2> DEFINE c == b * a
  <2>1. c \in Nat \ {0} /\ t < c /\ p * c + t = x
    BY <1>3, <1>4, SMTT(30)
  <2> HIDE DEF c
  <2>2. x \div c = p
    BY <1>2, <1>3, <2>1, SMTT(30)
  <2>3. QED
    BY <2>2 DEF c
<1>6. QED
  BY <1>5 DEF p, q

(* Numbers whose first k digits agree differ only below. *)
LEMMA SameQuotient ==
    ASSUME NEW n \in Nat, NEW m \in Nat, n < Weight[SeqWidth], m < Weight[SeqWidth],
           NEW k \in 0..SeqWidth, \A i \in 1..k : Padded(n)[i] = Padded(m)[i]
    PROVE  n \div Weight[SeqWidth - k] = m \div Weight[SeqWidth - k]
<1> DEFINE w == SeqWidth
           B == SeqBase
           Same(p) == n \div Weight[p] = m \div Weight[p]
           S == {j \in Nat : j <= k => Same(w - j)}
<1>0. w \in Nat \ {0} /\ B \in Nat \ {0} /\ k \in Nat /\ k <= w
  BY KeyAssumption, SMTT(30)
<1>1. \A p \in Nat : Weight[p] \in Nat \ {0} /\ Weight[p + 1] = B * Weight[p]
  BY WeightIs
<1>2. \A p \in w - k..w - 1 : (n \div Weight[p]) % B = (m \div Weight[p]) % B
  <2> SUFFICES ASSUME NEW p \in w - k..w - 1
               PROVE  (n \div Weight[p]) % B = (m \div Weight[p]) % B
    OBVIOUS
  <2>1. w - p \in 1..k /\ w - p \in 1..w /\ w - (w - p) = p /\ p \in Nat
    BY <1>0, SMTT(30)
  <2>2. Digit(n, p) = Digit(m, p)
    BY <2>1 DEF Padded
  <2>3. /\ n \div Weight[p] \in Nat /\ m \div Weight[p] \in Nat
        /\ (n \div Weight[p]) % B \in Nat /\ (m \div Weight[p]) % B \in Nat
    <3>1. Weight[p] \in Nat \ {0}
      BY <1>1, <2>1
    <3>2. n \div Weight[p] \in Nat /\ m \div Weight[p] \in Nat
      BY <3>1, DivMod
    <3>3. (n \div Weight[p]) % B \in 0..B - 1 /\ (m \div Weight[p]) % B \in 0..B - 1
      BY <1>0, <3>2, DivMod
    <3>4. QED
      BY <1>0, <3>2, <3>3, SMTT(30)
  <2>4. QED
    BY <2>2, <2>3, SMTT(30) DEF Digit
<1>3. 0 \in S
  <2>1. n \div Weight[w] = 0 /\ m \div Weight[w] = 0
    BY <1>0, <1>1, SmallQuotient
  <2>2. QED
    BY <1>0, <2>1, SMTT(30)
<1>4. ASSUME NEW j \in Nat, j \in S, j + 1 <= k PROVE Same(w - (j + 1))
  <2> DEFINE p == w - (j + 1)
             x == n \div Weight[p]
             y == m \div Weight[p]
  <2>1. p \in w - k..w - 1 /\ p \in Nat /\ p + 1 = w - j /\ j <= k
    BY <1>0, <1>4, SMTT(30)
  <2>2. Same(p + 1)
    BY <1>4, <2>1
  <2>3. Weight[p] \in Nat \ {0} /\ Weight[p + 1] = B * Weight[p]
    BY <1>1, <2>1
  <2>4. x \div B = y \div B
    BY <1>0, <2>2, <2>3, DivDiv, SMTT(30)
  <2>5. x \in Nat /\ y \in Nat /\ x % B = y % B
    BY <1>2, <2>1, <2>3, DivMod
  <2> HIDE DEF x, y
  <2>6. x = y
    <3>1. (x \div B) * B + (x % B) = x /\ (y \div B) * B + (y % B) = y
      BY <1>0, <2>5, DivMod
    <3>2. QED
      BY <2>4, <2>5, <3>1
  <2>7. QED
    BY <2>6 DEF x, y
<1>5. k \in S
  <2>1. ASSUME NEW j \in Nat, j \in S PROVE j + 1 \in S
    <3>1. j + 1 \in Nat
      BY SMTT(30)
    <3>2. QED
      BY <1>4, <2>1, <3>1
  <2> HIDE DEF S
  <2>2. QED
    BY <1>0, <1>3, <2>1, InductionOverNat
<1>6. QED
  BY <1>0, <1>5, SMTT(30)

(* Numbers that fit have their own digits. *)
LEMMA PaddedInjective ==
    ASSUME NEW n \in Nat, NEW m \in Nat, n < Weight[SeqWidth], m < Weight[SeqWidth],
           Padded(n) = Padded(m)
    PROVE  n = m
<1>1. SeqWidth \in 0..SeqWidth /\ SeqWidth - SeqWidth = 0
  BY KeyAssumption, SMTT(30)
<1>2. n \div Weight[0] = m \div Weight[0]
  BY <1>1, SameQuotient
<1>3. n \div 1 = n /\ m \div 1 = m
  BY SMTT(30)
<1>4. QED
  BY <1>2, <1>3, WeightIs

-----------------------------------------------------------------------------
(* The characters of two strings, one after the other. *)
LEMMA Concatenation ==
    ASSUME NEW s \in Seq(Nat), NEW t \in Seq(Nat)
    PROVE  /\ s \o t \in Seq(Nat) /\ Len(s \o t) = Len(s) + Len(t)
           /\ Len(s) \in Nat /\ Len(t) \in Nat
           /\ \A i \in 1..Len(s) : (s \o t)[i] = s[i]
           /\ \A i \in 1..Len(t) : (s \o t)[Len(s) + i] = t[i]
BY SMTT(30)

LEMMA SameSequence ==
    ASSUME NEW s \in Seq(Nat), NEW t \in Seq(Nat), Len(s) = Len(t),
           \A i \in 1..Len(s) : s[i] = t[i]
    PROVE  s = t
BY SMTT(30)

(* The characters of an entity id, a NUL and a machine name. *)
LEMMA StateKeyIs ==
    ASSUME NEW a \in Seq(Nat), NEW b \in Seq(Nat)
    PROVE  LET k == entity_state_key(a, b) IN
           /\ k \in Seq(Nat) /\ Len(k) = Len(a) + 1 + Len(b)
           /\ Len(a) \in Nat /\ Len(b) \in Nat
           /\ \A i \in 1..Len(a) : k[i] = a[i]
           /\ k[Len(a) + 1] = NUL
           /\ \A i \in 1..Len(b) : k[Len(a) + 1 + i] = b[i]
<1> DEFINE n == <<NUL>>
           h == a \o n
<1>1. n \in Seq(Nat) /\ Len(n) = 1 /\ n[1] = NUL
  BY SMTT(30) DEF NUL
<1>2. entity_state_key(a, b) = h \o b
  BY DEF entity_state_key
<1> HIDE DEF n
<1>3. /\ h \in Seq(Nat) /\ Len(h) = Len(a) + 1 /\ Len(a) \in Nat
      /\ \A i \in 1..Len(a) : h[i] = a[i]
      /\ h[Len(a) + 1] = NUL
  <2>1. /\ h \in Seq(Nat) /\ Len(h) = Len(a) + Len(n) /\ Len(a) \in Nat
        /\ \A i \in 1..Len(a) : h[i] = a[i]
        /\ \A i \in 1..Len(n) : h[Len(a) + i] = n[i]
    BY <1>1, Concatenation
  <2> HIDE DEF h
  <2>2. QED
    BY <1>1, <2>1, SMTT(30)
<1> HIDE DEF h
<1>4. /\ h \o b \in Seq(Nat) /\ Len(h \o b) = Len(h) + Len(b) /\ Len(b) \in Nat
      /\ \A i \in 1..Len(h) : (h \o b)[i] = h[i]
      /\ \A i \in 1..Len(b) : (h \o b)[Len(h) + i] = b[i]
  BY <1>3, Concatenation
<1> DEFINE k == h \o b
<1> HIDE DEF k
<1>5. /\ k \in Seq(Nat) /\ Len(k) = Len(a) + 1 + Len(b)
      /\ Len(a) \in Nat /\ Len(b) \in Nat
      /\ \A i \in 1..Len(a) : k[i] = a[i]
      /\ k[Len(a) + 1] = NUL
      /\ \A i \in 1..Len(b) : k[Len(a) + 1 + i] = b[i]
  BY <1>3, <1>4, SMTT(30) DEF k
<1>6. QED
  BY <1>2, <1>5 DEF k

(* Names without a NUL are recovered from their key. *)
LEMMA StateKeyInjective ==
    ASSUME NEW r \in Rows, NEW q \in Rows, StateKey(r) = StateKey(q)
    PROVE  r = q
<1> DEFINE a == r[1]
           b == r[2]
           c == q[1]
           d == q[2]
           k == entity_state_key(a, b)
<1>1. /\ a \in Seq(Nat) /\ b \in Seq(Nat) /\ c \in Seq(Nat) /\ d \in Seq(Nat)
      /\ r = <<a, b>> /\ q = <<c, d>>
      /\ \A i \in DOMAIN a : a[i] # NUL
      /\ \A i \in DOMAIN c : c[i] # NUL
  BY RedbAssumption DEF IsName
<1>2. k = entity_state_key(c, d)
  BY DEF StateKey
<1>3. /\ Len(k) = Len(a) + 1 + Len(b)
      /\ Len(a) \in Nat /\ Len(b) \in Nat
      /\ \A i \in 1..Len(a) : k[i] = a[i]
      /\ k[Len(a) + 1] = NUL
      /\ \A i \in 1..Len(b) : k[Len(a) + 1 + i] = b[i]
  BY <1>1, StateKeyIs
<1>4. /\ Len(k) = Len(c) + 1 + Len(d)
      /\ Len(c) \in Nat /\ Len(d) \in Nat
      /\ \A i \in 1..Len(c) : k[i] = c[i]
      /\ k[Len(c) + 1] = NUL
      /\ \A i \in 1..Len(d) : k[Len(c) + 1 + i] = d[i]
  <2> DEFINE l == entity_state_key(c, d)
  <2>1. /\ Len(l) = Len(c) + 1 + Len(d)
        /\ Len(c) \in Nat /\ Len(d) \in Nat
        /\ \A i \in 1..Len(c) : l[i] = c[i]
        /\ l[Len(c) + 1] = NUL
        /\ \A i \in 1..Len(d) : l[Len(c) + 1 + i] = d[i]
    BY <1>1, StateKeyIs
  <2>2. k = l
    BY <1>2
  <2> HIDE DEF k, l
  <2>3. QED
    BY <2>1, <2>2
<1> HIDE DEF a, b, c, d, k
<1>5. DOMAIN a = 1..Len(a) /\ DOMAIN c = 1..Len(c)
  BY <1>1, SMTT(30)
<1>6. ~(Len(a) < Len(c)) /\ ~(Len(c) < Len(a))
  <2>1. ASSUME Len(a) < Len(c) PROVE FALSE
    <3>1. Len(a) + 1 \in 1..Len(c)
      BY <1>3, <1>4, <2>1, SMTT(30)
    <3>2. QED
      BY <1>1, <1>3, <1>4, <1>5, <3>1
  <2>2. ASSUME Len(c) < Len(a) PROVE FALSE
    <3>1. Len(c) + 1 \in 1..Len(a)
      BY <1>3, <1>4, <2>2, SMTT(30)
    <3>2. QED
      BY <1>1, <1>3, <1>4, <1>5, <3>1
  <2>3. QED
    BY <2>1, <2>2
<1>7. Len(a) = Len(c) /\ Len(b) = Len(d)
  BY <1>3, <1>4, <1>6, SMTT(30)
<1>8. a = c
  <2>1. \A i \in 1..Len(a) : a[i] = c[i]
    BY <1>3, <1>4, <1>7
  <2>2. QED
    BY <1>1, <1>7, <2>1, SameSequence
<1>9. b = d
  <2>1. \A i \in 1..Len(b) : b[i] = d[i]
    BY <1>3, <1>4, <1>7
  <2>2. QED
    BY <1>1, <1>7, <2>1, SameSequence
<1>10. QED
  BY <1>1, <1>8, <1>9

LEMMA PaddedIs ==
    ASSUME NEW n \in Nat
    PROVE  Padded(n) \in Seq(Nat) /\ Len(Padded(n)) = SeqWidth
<1>1. SeqWidth \in Nat /\ SeqBase \in Nat \ {0}
  BY KeyAssumption
<1>2. ASSUME NEW i \in 1..SeqWidth PROVE Digit(n, SeqWidth - i) \in Nat
  <2> DEFINE p == SeqWidth - i
  <2>1. p \in Nat
    BY <1>1, SMTT(30)
  <2> HIDE DEF p
  <2>2. Weight[p] \in Nat \ {0}
    BY <2>1, WeightIs
  <2>3. n \div Weight[p] \in Nat
    BY <2>2, DivMod
  <2>4. (n \div Weight[p]) % SeqBase \in 0..SeqBase - 1
    BY <1>1, <2>3, DivMod
  <2>5. Digit(n, p) \in Nat
    BY <1>1, <2>4, SMTT(30) DEF Digit
  <2>6. QED
    BY <2>5 DEF p
<1>3. QED
  BY <1>1, <1>2, SMTT(30) DEF Padded

LEMMA QuotientsOrdered ==
    ASSUME NEW x \in Nat, NEW y \in Nat, x < y, NEW b \in Nat \ {0}
    PROVE  x \div b <= y \div b
<1> DEFINE p == x \div b
           q == y \div b
<1>1. p \in Nat /\ x % b \in 0..b - 1 /\ p * b + (x % b) = x
  BY DivMod
<1>2. q \in Nat /\ y % b \in 0..b - 1 /\ q * b + (y % b) = y
  BY DivMod
<1> HIDE DEF p, q
<1>3. ASSUME q < p PROVE FALSE
  <2>1. (q + 1) * b <= p * b
    BY <1>1, <1>2, <1>3, SMTT(30)
  <2>2. (q + 1) * b = q * b + b
    BY <1>2, SMTT(30)
  <2>3. q * b \in Nat /\ p * b \in Nat
    BY <1>1, <1>2, SMTT(30)
  <2>4. QED
    BY <1>1, <1>2, <2>1, <2>2, <2>3, SMTT(30)
<1>4. QED
  BY <1>1, <1>2, <1>3, SMTT(30) DEF p, q

(* "Zero-pad to 20 digits for lexicographic ordering": of two numbers the  *)
(* smaller has the smaller character where they first differ.              *)
LEMMA PaddedOrdered ==
    ASSUME NEW n \in Nat, NEW m \in Nat, n < m, m < Weight[SeqWidth]
    PROVE  \E i \in 1..SeqWidth : /\ Padded(n)[i] < Padded(m)[i]
                                  /\ \A j \in 1..i - 1 : Padded(n)[j] = Padded(m)[j]
<1> DEFINE w == SeqWidth
           B == SeqBase
           D == {i \in 1..w : Padded(n)[i] # Padded(m)[i]}
<1>0. w \in Nat \ {0} /\ B \in Nat \ {0} /\ Weight[w] \in Nat /\ n < Weight[w] /\ n # m
  <2>1. w \in Nat \ {0} /\ B \in Nat \ {0}
    BY KeyAssumption
  <2>2. Weight[w] \in Nat
    BY <2>1, WeightIs
  <2>3. QED
    BY <2>1, <2>2, SMTT(30)
<1>1. D # {}
  <2> SUFFICES ASSUME \A i \in 1..w : Padded(n)[i] = Padded(m)[i] PROVE FALSE
    OBVIOUS
  <2>1. /\ Padded(n) \in Seq(Nat) /\ Len(Padded(n)) = w
        /\ Padded(m) \in Seq(Nat) /\ Len(Padded(m)) = w
    BY PaddedIs
  <2>2. Padded(n) = Padded(m)
    BY <2>1, SameSequence
  <2>3. QED
    BY <1>0, <2>2, PaddedInjective
<1>2. D \in SUBSET Nat
  BY <1>0, SMTT(30)
<1> HIDE DEF D
<1>3. PICK i \in D : \A j \in D : i <= j
  BY <1>1, <1>2, LeastElement
<1>4. i \in 1..w /\ Padded(n)[i] # Padded(m)[i]
  BY <1>3 DEF D
<1>5. \A j \in 1..i - 1 : j \in 1..w /\ ~(i <= j)
  BY <1>0, <1>4, SMTT(30)
<1>6. \A j \in 1..i - 1 : Padded(n)[j] = Padded(m)[j]
  BY <1>3, <1>5 DEF D
<1> DEFINE p == w - i
           x == n \div Weight[p]
           y == m \div Weight[p]
<1>7. p \in Nat /\ i - 1 \in 0..w /\ w - (i - 1) = p + 1
  BY <1>0, <1>4, SMTT(30)
<1>8. n \div Weight[p + 1] = m \div Weight[p + 1]
  BY SMTT(30), <1>0, <1>6, <1>7, SameQuotient
<1>9. Weight[p] \in Nat \ {0} /\ Weight[p + 1] = B * Weight[p]
  BY <1>7, WeightIs
<1>10. x \in Nat /\ y \in Nat /\ x <= y
  BY <1>9, DivMod, QuotientsOrdered
<1>11. x \div B = y \div B
  BY <1>0, <1>8, <1>9, DivDiv, SMTT(30)
<1>12. Padded(n)[i] = 48 + (x % B) /\ Padded(m)[i] = 48 + (y % B)
  BY <1>4 DEF Padded, Digit
<1> HIDE DEF x, y
<1>13. x % B \in 0..B - 1 /\ (x \div B) * B + (x % B) = x /\ x \div B \in Nat
  BY <1>0, <1>10, DivMod
<1>14. y % B \in 0..B - 1 /\ (y \div B) * B + (y % B) = y
  BY <1>0, <1>10, DivMod
<1>15. x % B <= y % B
  <2> DEFINE c == (x \div B) * B
             a == x % B
             b == y % B
  <2>1. c \in Nat /\ c + a = x /\ c + b = y /\ a \in Nat /\ b \in Nat
    BY <1>0, <1>11, <1>13, <1>14, SMTT(30)
  <2> HIDE DEF a, b, c
  <2>2. a <= b
    BY <1>10, <2>1, SMTT(30)
  <2>3. QED
    BY <2>2 DEF a, b
<1>16. Padded(n)[i] < Padded(m)[i]
  BY <1>0, <1>4, <1>12, <1>13, <1>14, <1>15, SMTT(30)
<1>17. QED
  BY <1>4, <1>6, <1>16

LEMMA PrefixIs ==
    ASSUME NEW r \in Rows
    PROVE  entity_transition_prefix(r[1], r[2]) \in Seq(Nat)
<1> DEFINE n == <<NUL>>
<1>1. r[1] \in Seq(Nat) /\ r[2] \in Seq(Nat) /\ n \in Seq(Nat)
  BY RedbAssumption, SMTT(30) DEF IsName, NUL
<1> HIDE DEF n
<1>2. r[1] \o n \in Seq(Nat)
  BY <1>1, Concatenation
<1>3. (r[1] \o n) \o r[2] \in Seq(Nat)
  BY <1>1, <1>2, Concatenation
<1>4. ((r[1] \o n) \o r[2]) \o n \in Seq(Nat)
  BY <1>1, <1>3, Concatenation
<1>5. QED
  BY <1>4 DEF entity_transition_prefix, n

(* A sequence number that fits is recovered from the key of the history. *)
LEMMA HistoryKeyInjective ==
    ASSUME NEW r \in Rows, NEW q \in Rows,
           NEW n \in Nat, NEW m \in Nat, n < Weight[SeqWidth], m < Weight[SeqWidth],
           HistoryKey(r, n) = HistoryKey(q, m)
    PROVE  n = m
<1> DEFINE g == entity_transition_prefix(r[1], r[2])
           h == entity_transition_prefix(q[1], q[2])
           x == Padded(n)
           y == Padded(m)
<1>1. g \in Seq(Nat) /\ h \in Seq(Nat)
  BY PrefixIs
<1>2. x \in Seq(Nat) /\ y \in Seq(Nat) /\ Len(x) = SeqWidth /\ Len(y) = SeqWidth
  BY PaddedIs
<1>3. g \o x = h \o y
  BY DEF HistoryKey, entity_transition_key
<1> HIDE DEF g, h, x, y
<1>4. /\ Len(g \o x) = Len(g) + Len(x) /\ Len(g) \in Nat
      /\ \A i \in 1..Len(x) : (g \o x)[Len(g) + i] = x[i]
  BY <1>1, <1>2, Concatenation
<1>5. /\ Len(h \o y) = Len(h) + Len(y) /\ Len(h) \in Nat
      /\ \A i \in 1..Len(y) : (h \o y)[Len(h) + i] = y[i]
  BY <1>1, <1>2, Concatenation
<1>6. SeqWidth \in Nat
  BY KeyAssumption
<1>7. Len(g) = Len(h)
  <2> DEFINE k == g \o x
  <2>1. Len(k) = Len(g) + SeqWidth /\ Len(k) = Len(h) + SeqWidth
    BY <1>2, <1>3, <1>4, <1>5
  <2> HIDE DEF k
  <2>2. QED
    BY <1>4, <1>5, <1>6, <2>1, SMTT(30)
<1>8. \A i \in 1..Len(x) : x[i] = y[i]
  BY <1>2, <1>3, <1>4, <1>5, <1>7
<1>9. x = y
  BY <1>2, <1>8, SameSequence
<1>10. QED
  BY <1>9, PaddedInjective DEF x, y

-----------------------------------------------------------------------------
(* The numbers of a set that come before one of them. *)
Below(S, x) == {t \in S : t < x}

LEMMA BelowSmaller ==
    ASSUME NEW S \in SUBSET Nat, IsFiniteSet(S), NEW x \in S
    PROVE  /\ IsFiniteSet(Below(S, x))
           /\ Cardinality(Below(S, x)) \in 0..Cardinality(S) - 1
<1>1. Below(S, x) \in SUBSET S /\ x \notin Below(S, x)
  BY SMTT(30) DEF Below
<1>2. /\ IsFiniteSet(Below(S, x)) /\ Cardinality(Below(S, x)) <= Cardinality(S)
      /\ Cardinality(S) # Cardinality(Below(S, x))
  BY <1>1, FS_Subset, Zenon
<1>3. Cardinality(Below(S, x)) \in Nat /\ Cardinality(S) \in Nat
  BY <1>2, FS_CardinalityType, Zenon
<1>4. QED
  BY <1>2, <1>3, SMTT(30)

LEMMA BelowIncreases ==
    ASSUME NEW S \in SUBSET Nat, IsFiniteSet(S), NEW x \in S, NEW y \in S, x < y
    PROVE  Cardinality(Below(S, x)) < Cardinality(Below(S, y))
<1>0. \A t \in S : t < x => t < y
  BY SMTT(30)
<1>1. x \in Below(S, y) /\ Below(Below(S, y), x) = Below(S, x)
  BY <1>0, Zenon DEF Below
<1>2. IsFiniteSet(Below(S, y)) /\ Below(S, y) \in SUBSET Nat
  BY BelowSmaller, Zenon DEF Below
<1>3. Cardinality(Below(S, x)) \in 0..Cardinality(Below(S, y)) - 1
  BY <1>1, <1>2, BelowSmaller, Zenon
<1>4. Cardinality(Below(S, y)) \in Nat
  BY <1>2, FS_CardinalityType, Zenon
<1>5. QED
  BY <1>3, <1>4, SMTT(30)

(* Every number of a finite set has its place, and every place is taken. *)
LEMMA EveryPlaceTaken ==
    ASSUME NEW S \in SUBSET Nat, IsFiniteSet(S), NEW n \in 1..Cardinality(S)
    PROVE  \E x \in S : Cardinality(Below(S, x)) = n - 1
<1> DEFINE f == [x \in S |-> Cardinality(Below(S, x)) + 1]
           N == 1..Cardinality(S)
<1>1. Cardinality(S) \in Nat
  BY FS_CardinalityType, Zenon
<1>2. IsFiniteSet(N) /\ Cardinality(N) = Cardinality(S)
  <2>1. /\ 1 \in Int /\ Cardinality(S) \in Int
        /\ (IF 1 > Cardinality(S) THEN 0 ELSE Cardinality(S) - 1 + 1) = Cardinality(S)
    BY <1>1, SMTT(30)
  <2>2. QED
    BY <2>1, FS_Interval, Zenon
<1>3. \A x \in S : Cardinality(Below(S, x)) \in Nat /\ Cardinality(Below(S, x)) + 1 \in N
  <2>1. \A x \in S : Cardinality(Below(S, x)) \in 0..Cardinality(S) - 1
    BY BelowSmaller, Zenon
  <2>2. QED
    BY <1>1, <2>1, SMTT(30)
<1>4. f \in [S -> N]
  BY <1>3, Zenon
<1>5. \A x, y \in S : x # y => x < y \/ y < x
  BY SMTT(30)
<1>6. \A x, y \in S : x < y => f[x] # f[y]
  <2> SUFFICES ASSUME NEW x \in S, NEW y \in S, x < y PROVE f[x] # f[y]
    OBVIOUS
  <2>1. Cardinality(Below(S, x)) < Cardinality(Below(S, y))
    BY BelowIncreases, Zenon
  <2>2. Cardinality(Below(S, x)) + 1 # Cardinality(Below(S, y)) + 1
    BY <1>3, <2>1, SMTT(30)
  <2>3. QED
    BY <2>2, Zenon
<1> HIDE DEF N, f
<1>7. f \in Injection(S, N)
  BY <1>4, <1>5, <1>6, Zenon DEF Injection, IsInjective
<1>8. f \in Surjection(S, N)
  BY <1>2, <1>7, FS_Injection, Zenon
<1>9. PICK x \in S : f[x] = n
  BY <1>8, Zenon DEF Surjection, N
<1>10. Cardinality(Below(S, x)) + 1 = n /\ Cardinality(Below(S, x)) \in Nat
  BY <1>3, <1>9, Zenon DEF f
<1>11. QED
  BY <1>10, SMTT(30)

(* Ascending puts each number of a finite set at its place. *)
LEMMA AscendingIs ==
    ASSUME NEW S \in SUBSET Nat, IsFiniteSet(S)
    PROVE  /\ Cardinality(S) \in Nat
           /\ Ascending(S) \in [1..Cardinality(S) -> S]
           /\ Ascending(S) \in Seq(Nat) /\ Len(Ascending(S)) = Cardinality(S)
           /\ \A n \in 1..Cardinality(S) : Cardinality(Below(S, Ascending(S)[n])) = n - 1
<1>1. Cardinality(S) \in Nat
  BY FS_CardinalityType, Zenon
<1>2. \A n \in 1..Cardinality(S) :
          Ascending(S)[n] \in S /\ Cardinality(Below(S, Ascending(S)[n])) = n - 1
  <2>1. \A n \in 1..Cardinality(S) :
            Ascending(S)[n] = CHOOSE k \in S : Cardinality(Below(S, k)) = n - 1
    BY Zenon DEF Ascending, Below
  <2>2. \A n \in 1..Cardinality(S) : \E k \in S : Cardinality(Below(S, k)) = n - 1
    BY EveryPlaceTaken, Zenon
  <2>3. QED
    BY <2>1, <2>2, Zenon
<1>4. Ascending(S) \in [1..Cardinality(S) -> S]
  <2> DEFINE At(n) == CHOOSE k \in S : Cardinality({j \in S : j < k}) = n - 1
  <2>1. \A n \in 1..Cardinality(S) : At(n) \in S
    BY <1>2, Zenon DEF Ascending
  <2>2. Ascending(S) = [n \in 1..Cardinality(S) |-> At(n)]
    BY Zenon DEF Ascending
  <2> HIDE DEF At
  <2>3. QED
    BY <2>1, <2>2, Zenon
<1>5. Ascending(S) \in Seq(Nat) /\ Len(Ascending(S)) = Cardinality(S)
  <2>1. Ascending(S) \in [1..Cardinality(S) -> Nat]
    BY <1>4, Zenon
  <2>2. QED
    BY <1>1, <2>1, SMTT(30)
<1>6. QED
  BY <1>1, <1>2, <1>4, <1>5, Zenon

(* A number is known by its place. *)
LEMMA PlaceIsUnique ==
    ASSUME NEW S \in SUBSET Nat, IsFiniteSet(S), NEW x \in S, NEW y \in S,
           Cardinality(Below(S, x)) = Cardinality(Below(S, y))
    PROVE  x = y
<1>1. Cardinality(Below(S, x)) \in Nat
  BY BelowSmaller, FS_CardinalityType, Zenon
<1>2. ~(Cardinality(Below(S, x)) < Cardinality(Below(S, y)))
      /\ ~(Cardinality(Below(S, y)) < Cardinality(Below(S, x)))
  BY <1>1, SMTT(30)
<1>3. ~(x < y) /\ ~(y < x)
  BY <1>2, BelowIncreases, Zenon
<1>4. QED
  BY <1>3, SMTT(30)

(* The order of string keys that stand for numbers and sort as they do. *)
LEMMA SameOrder ==
    ASSUME NEW S \in SUBSET Nat, IsFiniteSet(S), NEW K, NEW h \in Bijection(S, K),
           \A s, t \in S : Before(h[s], h[t]) <=> s < t
    PROVE  /\ Cardinality(K) = Cardinality(S)
           /\ \A n \in 1..Cardinality(S) : InOrder(K)[n] = h[Ascending(S)[n]]
<1>1. /\ h \in [S -> K] /\ \A k \in K : \E s \in S : h[s] = k
      /\ \A s, t \in S : h[s] = h[t] => s = t
  BY Zenon DEF Bijection, Injection, Surjection, IsInjective
<1>2. Cardinality(K) = Cardinality(S)
  BY FS_Bijection, Zenon DEF ExistsBijection
<1> DEFINE Earlier(k) == {j \in K : Before(j, k)}
<1>3. \A s \in S : Cardinality(Earlier(h[s])) = Cardinality(Below(S, s))
  <2> SUFFICES ASSUME NEW s \in S PROVE Cardinality(Earlier(h[s])) = Cardinality(Below(S, s))
    OBVIOUS
  <2> DEFINE A == Below(S, s)
             B == Earlier(h[s])
             g == [t \in A |-> h[t]]
  <2>1. A \in SUBSET S /\ \A t \in A : h[t] \in B
    BY <1>1, Zenon DEF Below
  <2>2. \A k \in B : \E t \in A : h[t] = k
    BY <1>1, Zenon DEF Below
  <2> HIDE DEF A, B
  <2>3. g \in Bijection(A, B)
    BY <1>1, <2>1, <2>2, Zenon DEF Bijection, Injection, Surjection, IsInjective
  <2>4. IsFiniteSet(A)
    BY BelowSmaller, Zenon DEF A
  <2>5. Cardinality(A) = Cardinality(B)
    BY <2>3, <2>4, FS_Bijection, Zenon DEF ExistsBijection
  <2>6. QED
    BY <2>5, Zenon DEF A, B
<1>4. \A n \in 1..Cardinality(S) :
          InOrder(K)[n] = CHOOSE k \in K : Cardinality(Earlier(k)) = n - 1
  BY <1>2, Zenon DEF InOrder
<1> HIDE DEF Earlier
<1>5. SUFFICES ASSUME NEW n \in 1..Cardinality(S) PROVE InOrder(K)[n] = h[Ascending(S)[n]]
  BY <1>2, Zenon
<1> DEFINE x == Ascending(S)[n]
<1>6. x \in S /\ Cardinality(Below(S, x)) = n - 1
  BY AscendingIs, Zenon
<1>7. h[x] \in K /\ Cardinality(Earlier(h[x])) = n - 1
  BY <1>1, <1>3, <1>6, Zenon
<1> HIDE DEF x
<1>8. ASSUME NEW k \in K, Cardinality(Earlier(k)) = n - 1 PROVE k = h[x]
  <2>1. PICK s \in S : h[s] = k
    BY <1>1, Zenon
  <2>2. Cardinality(Below(S, s)) = Cardinality(Below(S, x))
    BY <1>3, <1>6, <1>8, <2>1, Zenon
  <2>3. s = x
    BY <1>6, <2>2, PlaceIsUnique, Zenon
  <2>4. QED
    BY <2>1, <2>3, Zenon
<1>9. (CHOOSE k \in K : Cardinality(Earlier(k)) = n - 1) = h[x]
  BY <1>7, <1>8, Zenon
<1>10. QED
  BY <1>4, <1>9, Zenon DEF x

(* A sequence is its first page and what follows it. *)
LEMMA PageAndRest ==
    ASSUME NEW a \in Seq(Nat), NEW b \in Seq(Nat), NEW m \in 1..Len(a), Len(a) = m + Len(b),
           \A n \in 1..Len(b) : b[n] = a[m + n]
    PROVE  SubSeq(a, 1, m) \o b = a
<1> DEFINE p == SubSeq(a, 1, m)
<1>1. p \in Seq(Nat) /\ Len(p) = m /\ \A n \in 1..m : p[n] = a[n]
  BY SMTT(30)
<1> HIDE DEF p
<1> DEFINE c == p \o b
<1>2. /\ c \in Seq(Nat) /\ Len(c) = Len(p) + Len(b) /\ Len(p) \in Nat /\ Len(b) \in Nat
      /\ \A i \in 1..Len(p) : c[i] = p[i]
      /\ \A i \in 1..Len(b) : c[Len(p) + i] = b[i]
  BY <1>1, Concatenation, Zenon
<1> HIDE DEF c
<1>3. \A n \in 1..Len(c) : c[n] = a[n]
  <2> SUFFICES ASSUME NEW n \in 1..Len(c) PROVE c[n] = a[n]
    OBVIOUS
  <2>1. CASE n <= m
    BY <1>1, <1>2, <2>1, SMTT(30)
  <2>2. CASE ~(n <= m)
    <3>1. n - m \in 1..Len(b) /\ m + (n - m) = n
      BY <1>1, <1>2, <2>2, SMTT(30)
    <3>2. c[m + (n - m)] = b[n - m] /\ b[n - m] = a[m + (n - m)]
      BY <1>1, <1>2, <3>1, Zenon
    <3>3. QED
      BY <3>1, <3>2, Zenon
  <2>3. QED
    BY <2>1, <2>2, Zenon
<1>4. c = a
  BY <1>1, <1>2, <1>3, SMTT(30)
<1>5. QED
  BY <1>4, Zenon DEF c, p

(* What follows the m-th number of a set is what is greater. *)
LEMMA GreaterFollow ==
    ASSUME NEW S \in SUBSET Nat, IsFiniteSet(S), NEW m \in 1..Cardinality(S),
           NEW x, x = Ascending(S)[m], NEW G, G = {s \in S : s > x}
    PROVE  SubSeq(Ascending(S), 1, m) \o Ascending(G) = Ascending(S)
<1> DEFINE U == Below(S, x) \cup {x}
           a == Ascending(S)
           b == Ascending(G)
<1>1. Cardinality(S) \in Nat /\ x \in S /\ Cardinality(Below(S, x)) = m - 1
  BY AscendingIs, Zenon
<1>2. IsFiniteSet(U) /\ Cardinality(U) = m
  <2>1. x \notin Below(S, x) /\ IsFiniteSet(Below(S, x))
    <3>1. ~(x < x)
      BY <1>1, SMTT(30)
    <3>2. QED
      BY <1>1, <3>1, BelowSmaller, Zenon DEF Below
  <2>2. IsFiniteSet(U) /\ Cardinality(U) = Cardinality(Below(S, x)) + 1
    BY <2>1, FS_AddElement, Zenon
  <2>3. QED
    BY <1>1, <2>2, SMTT(30)
<1>3. G \in SUBSET S /\ G \in SUBSET Nat /\ IsFiniteSet(G)
  <2>1. G \in SUBSET S
    BY Zenon
  <2>2. QED
    BY <2>1, FS_Subset, Zenon
<1>4. \A s \in S : s \in U <=> ~(s \in G)
  <2>1. \A s \in S : (s < x \/ s = x) <=> ~(s > x)
    BY <1>1, SMTT(30)
  <2>2. QED
    BY <2>1, Zenon DEF Below
<1>5. U \in SUBSET S
  BY <1>1, Zenon DEF Below
<1>6. ASSUME NEW H \in SUBSET G PROVE Cardinality(U \cup H) = m + Cardinality(H)
  <2>1. U \cap H = {}
    BY <1>4, <1>3, Zenon
  <2>2. IsFiniteSet(H)
    BY <1>3, FS_Subset, Zenon
  <2> HIDE DEF U
  <2>3. Cardinality(U \cup H) = Cardinality(U) + Cardinality(H) - Cardinality(U \cap H)
    BY <1>2, <2>2, FS_Union, Zenon
  <2>4. Cardinality(U \cap H) = 0
    BY <2>1, FS_EmptySet, Zenon
  <2>5. Cardinality(H) \in Nat
    BY <2>2, FS_CardinalityType, Zenon
  <2>6. QED
    BY <1>1, <1>2, <2>3, <2>4, <2>5, SMTT(30)
<1> HIDE DEF U
<1>7. Cardinality(S) = m + Cardinality(G)
  <2>1. S = U \cup G
    BY <1>3, <1>4, <1>5, Zenon
  <2>2. QED
    BY <1>6, <2>1, Zenon
<1>8. /\ Cardinality(G) \in Nat /\ b \in Seq(Nat) /\ Len(b) = Cardinality(G)
      /\ \A n \in 1..Cardinality(G) : b[n] \in G /\ Cardinality(Below(G, b[n])) = n - 1
  BY <1>3, AscendingIs, Zenon
<1>9. /\ a \in Seq(Nat) /\ Len(a) = Cardinality(S)
      /\ \A n \in 1..Cardinality(S) : a[n] \in S /\ Cardinality(Below(S, a[n])) = n - 1
  BY AscendingIs, Zenon
<1> HIDE DEF a, b
<1>10. ASSUME NEW n \in 1..Cardinality(G) PROVE b[n] = a[m + n]
  <2> DEFINE y == b[n]
  <2>1. y \in G /\ Cardinality(Below(G, y)) = n - 1
    BY <1>8, Zenon
  <2> HIDE DEF y
  <2>2. Below(S, y) = U \cup Below(G, y)
    <3>1. \A s \in S : (s < x \/ s = x) => s < y
      <4>1. y \in Nat /\ y > x /\ x \in Nat
        BY <1>1, <1>3, <2>1, Zenon
      <4>2. QED
        BY <4>1, SMTT(30)
    <3>2. \A s \in U : s \in S /\ s < y
      BY <1>5, <3>1, Zenon DEF U, Below
    <3>3. \A s \in S : s < y => s \in U \/ s \in Below(G, y)
      BY <1>4, Zenon DEF Below
    <3>4. \A s \in Below(G, y) : s \in S /\ s < y
      BY <1>3, Zenon DEF Below
    <3>5. QED
      BY <3>2, <3>3, <3>4, Zenon DEF Below
  <2>3. Below(G, y) \in SUBSET G
    BY Zenon DEF Below
  <2>4. Cardinality(Below(S, y)) = m + (n - 1)
    BY <1>6, <2>1, <2>2, <2>3, Zenon
  <2> DEFINE i == m + n
  <2>5. i \in 1..Cardinality(S) /\ i - 1 = m + (n - 1)
    BY <1>1, <1>7, <1>8, SMTT(30)
  <2> HIDE DEF i
  <2>6. a[i] \in S /\ Cardinality(Below(S, a[i])) = Cardinality(Below(S, y))
    BY <1>9, <2>4, <2>5, Zenon
  <2>7. y = a[i]
    BY <1>3, <2>1, <2>6, PlaceIsUnique, Zenon
  <2>8. QED
    BY <2>7, Zenon DEF y, i
<1>11. SubSeq(a, 1, m) \o b = a
  BY <1>7, <1>8, <1>9, <1>10, PageAndRest, Zenon
<1>12. QED
  BY <1>11, Zenon DEF a, b

-----------------------------------------------------------------------------
(* The characters of an entity id, a NUL, a machine name and a NUL. *)
LEMMA PrefixCharacters ==
    ASSUME NEW a \in Seq(Nat), NEW b \in Seq(Nat)
    PROVE  LET p == entity_transition_prefix(a, b) IN
           /\ p \in Seq(Nat) /\ Len(p) = Len(a) + Len(b) + 2
           /\ Len(a) \in Nat /\ Len(b) \in Nat
           /\ \A i \in 1..Len(a) : p[i] = a[i]
           /\ p[Len(a) + 1] = NUL
           /\ \A i \in 1..Len(b) : p[Len(a) + 1 + i] = b[i]
           /\ p[Len(a) + Len(b) + 2] = NUL
<1> DEFINE n == <<NUL>>
           k == entity_state_key(a, b)
<1>1. n \in Seq(Nat) /\ Len(n) = 1 /\ n[1] = NUL
  BY SMTT(30) DEF NUL
<1>2. entity_transition_prefix(a, b) = k \o n
  BY Zenon DEF entity_transition_prefix, entity_state_key
<1>3. /\ k \in Seq(Nat) /\ Len(k) = Len(a) + 1 + Len(b)
      /\ Len(a) \in Nat /\ Len(b) \in Nat
      /\ \A i \in 1..Len(a) : k[i] = a[i]
      /\ k[Len(a) + 1] = NUL
      /\ \A i \in 1..Len(b) : k[Len(a) + 1 + i] = b[i]
  BY StateKeyIs, Zenon
<1> HIDE DEF n, k
<1> DEFINE p == k \o n
<1>4. /\ p \in Seq(Nat) /\ Len(p) = Len(k) + Len(n)
      /\ \A i \in 1..Len(k) : p[i] = k[i]
      /\ \A i \in 1..Len(n) : p[Len(k) + i] = n[i]
  BY <1>1, <1>3, Concatenation, Zenon
<1> HIDE DEF p
<1>5. /\ Len(p) = Len(a) + Len(b) + 2
      /\ \A i \in 1..Len(a) : i \in 1..Len(k)
      /\ Len(a) + 1 \in 1..Len(k)
      /\ \A i \in 1..Len(b) : Len(a) + 1 + i \in 1..Len(k)
      /\ 1 \in 1..Len(n) /\ Len(k) + 1 = Len(a) + Len(b) + 2
  BY <1>1, <1>3, <1>4, SMTT(30)
<1>6. /\ \A i \in 1..Len(a) : p[i] = a[i]
      /\ p[Len(a) + 1] = NUL
      /\ \A i \in 1..Len(b) : p[Len(a) + 1 + i] = b[i]
      /\ p[Len(a) + Len(b) + 2] = NUL
  BY <1>1, <1>3, <1>4, <1>5, Zenon
<1>7. QED
  BY <1>2, <1>3, <1>4, <1>5, <1>6, Zenon DEF p

(* A row's prefix and a number make the key of a history. *)
LEMMA HistoryKeyIs ==
    ASSUME NEW r \in Rows, NEW n \in Nat
    PROVE  LET k == HistoryKey(r, n)
               p == entity_transition_prefix(r[1], r[2])
           IN
           /\ p \in Seq(Nat) /\ k \in Seq(Nat) /\ Len(k) = Len(p) + SeqWidth /\ Len(p) \in Nat
           /\ \A i \in 1..Len(p) : k[i] = p[i]
           /\ \A i \in 1..SeqWidth : k[Len(p) + i] = Padded(n)[i]
<1> DEFINE d == Padded(n)
           p == entity_transition_prefix(r[1], r[2])
<1>1. p \in Seq(Nat) /\ d \in Seq(Nat) /\ Len(d) = SeqWidth
  BY PrefixIs, PaddedIs, Zenon
<1>2. HistoryKey(r, n) = p \o d
  BY Zenon DEF HistoryKey, entity_transition_key
<1> HIDE DEF d, p
<1>3. /\ p \o d \in Seq(Nat) /\ Len(p \o d) = Len(p) + Len(d) /\ Len(p) \in Nat
      /\ \A i \in 1..Len(p) : (p \o d)[i] = p[i]
      /\ \A i \in 1..Len(d) : (p \o d)[Len(p) + i] = d[i]
  BY <1>1, Concatenation, Zenon
<1>4. QED
  BY <1>1, <1>2, <1>3, Zenon DEF d, p

(* Keys of one length are ordered by the first character that differs. *)
LEMMA BeforeAsymmetric ==
    ASSUME NEW k \in Seq(Nat), NEW l \in Seq(Nat), Len(k) = Len(l), Before(k, l)
    PROVE  ~Before(l, k) /\ k # l
<1>1. Len(k) \in Nat /\ DOMAIN k = 1..Len(k) /\ DOMAIN l = 1..Len(k)
  BY SMTT(30)
<1>2. ASSUME NEW x \in Seq(Nat), NEW y \in Seq(Nat), Len(x) = Len(k), Len(y) = Len(k), Before(x, y)
      PROVE  \E n \in 1..Len(k) : x[n] < y[n] /\ \A i \in 1..n - 1 : x[i] = y[i]
  <2>1. DOMAIN x = 1..Len(k) /\ DOMAIN y = 1..Len(k)
    BY <1>2, SMTT(30)
  <2>2. ~(x # y /\ starts_with(y, x))
    <3>1. starts_with(y, x) => \A i \in 1..Len(x) : x[i] = y[i]
      BY <1>2, <2>1, Zenon DEF starts_with
    <3>2. QED
      BY <1>2, <3>1, SameSequence, Zenon
  <2>3. QED
    BY <1>2, <2>1, <2>2, Zenon DEF Before
<1>3. PICK n \in 1..Len(k) : k[n] < l[n] /\ \A i \in 1..n - 1 : k[i] = l[i]
  BY <1>2, Zenon
<1>4. k[n] \in Nat /\ l[n] \in Nat
  BY <1>1, SMTT(30)
<1>5. k # l
  <2> SUFFICES ASSUME k = l PROVE FALSE
    OBVIOUS
  <2>1. k[n] < k[n]
    BY <1>3, Zenon
  <2>2. QED
    BY <1>4, <2>1, SMTT(30)
<1>6. ASSUME Before(l, k) PROVE FALSE
  <2>1. PICK m \in 1..Len(k) : l[m] < k[m] /\ \A i \in 1..m - 1 : l[i] = k[i]
    BY <1>2, <1>6, Zenon
  <2>2. k[m] \in Nat /\ l[m] \in Nat
    BY <1>1, SMTT(30)
  <2>3. k[n] # l[n] /\ k[m] # l[m]
    BY <1>3, <1>4, <2>1, <2>2, SMTT(30)
  <2>4. n \in 1..m - 1 \/ m \in 1..n - 1 \/ n = m
    BY <1>1, SMTT(30)
  <2>5. n = m
    BY <1>3, <2>1, <2>3, <2>4, Zenon
  <2>6. k[n] < l[n] /\ l[n] < k[n]
    BY <1>3, <2>1, <2>5, Zenon
  <2>7. QED
    BY <1>4, <2>6, SMTT(30)
<1>7. QED
  BY <1>5, <1>6, Zenon

(* The keys of one row's history sort as their sequence numbers do. *)
LEMMA HistoryKeysAscend ==
    ASSUME NEW r \in Rows, NEW n \in Nat, NEW m \in Nat, n < m, m < Weight[SeqWidth]
    PROVE  Before(HistoryKey(r, n), HistoryKey(r, m))
<1> DEFINE p == entity_transition_prefix(r[1], r[2])
           k == HistoryKey(r, n)
           l == HistoryKey(r, m)
           w == SeqWidth
<1>1. /\ p \in Seq(Nat) /\ k \in Seq(Nat) /\ Len(k) = Len(p) + w /\ Len(p) \in Nat
      /\ \A i \in 1..Len(p) : k[i] = p[i]
      /\ \A i \in 1..w : k[Len(p) + i] = Padded(n)[i]
  BY HistoryKeyIs, Zenon
<1>2. /\ l \in Seq(Nat) /\ Len(l) = Len(p) + w
      /\ \A i \in 1..Len(p) : l[i] = p[i]
      /\ \A i \in 1..w : l[Len(p) + i] = Padded(m)[i]
  BY HistoryKeyIs, Zenon
<1> HIDE DEF p, k, l
<1>3. w \in Nat
  BY KeyAssumption, Zenon
<1>4. PICK i \in 1..w : Padded(n)[i] < Padded(m)[i]
                        /\ \A j \in 1..i - 1 : Padded(n)[j] = Padded(m)[j]
  BY PaddedOrdered, Zenon
<1> DEFINE at == Len(p) + i
<1>5. at \in DOMAIN k /\ at \in DOMAIN l
  BY <1>1, <1>2, <1>3, SMTT(30)
<1>6. k[at] < l[at]
  BY <1>1, <1>2, <1>4, Zenon
<1>7. ASSUME NEW j \in 1..at - 1 PROVE k[j] = l[j]
  <2>1. CASE j <= Len(p)
    <3>1. j \in 1..Len(p)
      BY <1>1, <1>3, <2>1, SMTT(30)
    <3>2. QED
      BY <1>1, <1>2, <3>1, Zenon
  <2>2. CASE ~(j <= Len(p))
    <3> DEFINE g == j - Len(p)
    <3>1. g \in 1..i - 1 /\ g \in 1..w /\ Len(p) + g = j
      BY <1>1, <1>3, <2>2, SMTT(30)
    <3> HIDE DEF g
    <3>2. Padded(n)[g] = Padded(m)[g]
      BY <1>4, <3>1, Zenon
    <3>3. k[Len(p) + g] = l[Len(p) + g]
      BY <1>1, <1>2, <3>1, <3>2, Zenon
    <3>4. QED
      BY <3>1, <3>3, Zenon
  <2>3. QED
    BY <2>1, <2>2, Zenon
<1> HIDE DEF at
<1>8. Before(k, l)
  BY <1>5, <1>6, <1>7, Zenon DEF Before
<1>9. QED
  BY <1>8, Zenon DEF k, l

LEMMA HistoryKeysOrdered ==
    ASSUME NEW r \in Rows, NEW n \in Nat, NEW m \in Nat,
           n < Weight[SeqWidth], m < Weight[SeqWidth]
    PROVE  Before(HistoryKey(r, n), HistoryKey(r, m)) <=> n < m
<1> DEFINE k == HistoryKey(r, n)
           l == HistoryKey(r, m)
<1>1. k \in Seq(Nat) /\ l \in Seq(Nat) /\ Len(k) = Len(l)
  BY HistoryKeyIs, Zenon
<1>2. n < m => Before(k, l)
  BY HistoryKeysAscend, Zenon
<1>3. m < n => Before(l, k)
  BY HistoryKeysAscend, Zenon
<1>4. n = m => k = l
  BY Zenon
<1> HIDE DEF k, l
<1>5. Before(k, l) => ~Before(l, k) /\ k # l
  BY <1>1, BeforeAsymmetric, Zenon
<1>6. n < m \/ m < n \/ n = m
  BY SMTT(30)
<1>7. Before(k, l) <=> n < m
  BY <1>2, <1>3, <1>4, <1>5, <1>6, Zenon
<1>8. QED
  BY <1>7, Zenon DEF k, l

(* Names without a NUL: a key of q's history starts with the prefix of r   *)
(* only if q is r, whatever names run together.                            *)
LEMMA PrefixIdentifies ==
    ASSUME NEW r \in Rows, NEW q \in Rows, NEW n \in Nat
    PROVE  starts_with(HistoryKey(q, n), entity_transition_prefix(r[1], r[2])) <=> q = r
<1> DEFINE a == r[1]
           b == r[2]
           c == q[1]
           d == q[2]
           p == entity_transition_prefix(a, b)
           g == entity_transition_prefix(c, d)
           k == HistoryKey(q, n)
<1>1. /\ a \in Seq(Nat) /\ b \in Seq(Nat) /\ c \in Seq(Nat) /\ d \in Seq(Nat)
      /\ r = <<a, b>> /\ q = <<c, d>>
      /\ \A i \in DOMAIN a : a[i] # NUL
      /\ \A i \in DOMAIN b : b[i] # NUL
      /\ \A i \in DOMAIN c : c[i] # NUL
      /\ \A i \in DOMAIN d : d[i] # NUL
  BY RedbAssumption, Zenon DEF IsName
<1>2. /\ p \in Seq(Nat) /\ Len(p) = Len(a) + Len(b) + 2
      /\ Len(a) \in Nat /\ Len(b) \in Nat
      /\ \A i \in 1..Len(a) : p[i] = a[i]
      /\ p[Len(a) + 1] = NUL
      /\ \A i \in 1..Len(b) : p[Len(a) + 1 + i] = b[i]
      /\ p[Len(a) + Len(b) + 2] = NUL
  BY <1>1, PrefixCharacters, Zenon
<1>3. /\ g \in Seq(Nat) /\ Len(g) = Len(c) + Len(d) + 2
      /\ Len(c) \in Nat /\ Len(d) \in Nat
      /\ \A i \in 1..Len(c) : g[i] = c[i]
      /\ g[Len(c) + 1] = NUL
      /\ \A i \in 1..Len(d) : g[Len(c) + 1 + i] = d[i]
      /\ g[Len(c) + Len(d) + 2] = NUL
  BY <1>1, PrefixCharacters, Zenon
<1>4. k \in Seq(Nat) /\ Len(k) = Len(g) + SeqWidth /\ \A i \in 1..Len(g) : k[i] = g[i]
  BY HistoryKeyIs, Zenon
<1>5. q = r => p = g
  BY Zenon
<1>6. starts_with(k, p) <=> Len(p) <= Len(k) /\ \A i \in DOMAIN p : k[i] = p[i]
  BY Zenon DEF starts_with
<1> HIDE DEF a, b, c, d, p, g, k
<1>7. /\ DOMAIN a = 1..Len(a) /\ DOMAIN b = 1..Len(b)
      /\ DOMAIN c = 1..Len(c) /\ DOMAIN d = 1..Len(d)
      /\ DOMAIN p = 1..Len(p) /\ DOMAIN g = 1..Len(g)
  BY <1>1, <1>2, <1>3, SMTT(30)
<1>8. SeqWidth \in Nat
  BY KeyAssumption, Zenon
<1>9. ASSUME q = r PROVE starts_with(k, p)
  <2>1. Len(g) <= Len(k)
    BY <1>3, <1>4, <1>8, SMTT(30)
  <2>2. QED
    BY <1>4, <1>5, <1>6, <1>7, <1>9, <2>1, Zenon
<1>10. ASSUME starts_with(k, p) PROVE q = r
  <2>0. /\ Len(p) = Len(a) + Len(b) + 2 /\ Len(a) \in Nat /\ Len(b) \in Nat
        /\ Len(g) = Len(c) + Len(d) + 2 /\ Len(c) \in Nat /\ Len(d) \in Nat
    BY <1>2, <1>3, Zenon
  <2>1. \A i \in 1..Len(p) : i \in 1..Len(g) => p[i] = g[i]
    BY <1>4, <1>6, <1>7, <1>10, Zenon
  <2>2. ~(Len(a) < Len(c))
    <3> SUFFICES ASSUME Len(a) < Len(c) PROVE FALSE
      OBVIOUS
    <3> DEFINE i == Len(a) + 1
    <3>1. i \in 1..Len(p) /\ i \in 1..Len(c) /\ i \in 1..Len(g)
      BY <2>0, SMTT(30)
    <3>2. p[i] = NUL /\ p[i] = g[i] /\ g[i] = c[i]
      BY <1>2, <1>3, <2>1, <3>1, Zenon
    <3> HIDE DEF i
    <3>3. QED
      BY <1>1, <1>7, <3>1, <3>2, Zenon
  <2>3. ~(Len(c) < Len(a))
    <3> SUFFICES ASSUME Len(c) < Len(a) PROVE FALSE
      OBVIOUS
    <3> DEFINE i == Len(c) + 1
    <3>1. i \in 1..Len(p) /\ i \in 1..Len(a) /\ i \in 1..Len(g)
      BY <2>0, SMTT(30)
    <3>2. g[i] = NUL /\ p[i] = g[i] /\ p[i] = a[i]
      BY <1>2, <1>3, <2>1, <3>1, Zenon
    <3> HIDE DEF i
    <3>3. QED
      BY <1>1, <1>7, <3>1, <3>2, Zenon
  <2>4. Len(a) = Len(c)
    BY <2>0, <2>2, <2>3, SMTT(30)
  <2>5. a = c
    <3>1. \A i \in 1..Len(a) : i \in 1..Len(p) /\ i \in 1..Len(g)
      BY <2>0, <2>4, SMTT(30)
    <3>2. \A i \in 1..Len(a) : a[i] = c[i]
      BY <1>2, <1>3, <2>1, <2>4, <3>1, Zenon
    <3>3. QED
      BY <1>1, <2>4, <3>2, SameSequence, Zenon
  <2>6. ~(Len(b) < Len(d))
    <3> SUFFICES ASSUME Len(b) < Len(d) PROVE FALSE
      OBVIOUS
    <3> DEFINE j == Len(b) + 1
               i == Len(c) + 1 + j
    <3>1. /\ j \in 1..Len(d) /\ i \in 1..Len(p) /\ i \in 1..Len(g)
          /\ i = Len(a) + Len(b) + 2
      BY <2>0, <2>4, SMTT(30)
    <3>2. g[i] = d[j]
      BY <1>3, <3>1, Zenon
    <3> HIDE DEF i, j
    <3>3. p[i] = NUL /\ p[i] = g[i] /\ d[j] # NUL
      BY <1>1, <1>2, <1>7, <2>1, <3>1, Zenon
    <3>4. QED
      BY <3>2, <3>3, Zenon
  <2>7. ~(Len(d) < Len(b))
    <3> SUFFICES ASSUME Len(d) < Len(b) PROVE FALSE
      OBVIOUS
    <3> DEFINE j == Len(d) + 1
               i == Len(a) + 1 + j
    <3>1. /\ j \in 1..Len(b) /\ i \in 1..Len(p) /\ i \in 1..Len(g)
          /\ i = Len(c) + Len(d) + 2
      BY <2>0, <2>4, SMTT(30)
    <3>2. p[i] = b[j]
      BY <1>2, <3>1, Zenon
    <3> HIDE DEF i, j
    <3>3. g[i] = NUL /\ p[i] = g[i] /\ b[j] # NUL
      BY <1>1, <1>3, <1>7, <2>1, <3>1, Zenon
    <3>4. QED
      BY <3>2, <3>3, Zenon
  <2>8. Len(b) = Len(d)
    BY <2>0, <2>6, <2>7, SMTT(30)
  <2>9. b = d
    <3>1. \A i \in 1..Len(b) : Len(a) + 1 + i \in 1..Len(p) /\ Len(a) + 1 + i \in 1..Len(g)
      BY <2>0, <2>4, <2>8, SMTT(30)
    <3>2. ASSUME NEW i \in 1..Len(b) PROVE b[i] = d[i]
      <4>1. p[Len(a) + 1 + i] = b[i]
        BY <1>2, Zenon
      <4>2. g[Len(a) + 1 + i] = d[i]
        BY <1>3, <2>4, <2>8, Zenon
      <4>3. p[Len(a) + 1 + i] = g[Len(a) + 1 + i]
        BY <2>1, <3>1, Zenon
      <4>4. QED
        BY <4>1, <4>2, <4>3, Zenon
    <3>3. QED
      BY <1>1, <2>8, <3>2, SameSequence, Zenon
  <2>10. QED
    BY <1>1, <2>5, <2>9, Zenon
<1>11. QED
  BY <1>9, <1>10, Zenon DEF k, p, a, b

(* A row's state has its machine in its key. *)
LEMMA KeyContainsMachine ==
    ASSUME NEW r \in Rows
    PROVE  contains(StateKey(r), <<NUL>> \o r[2])
<1> DEFINE a == r[1]
           b == r[2]
           k == entity_state_key(a, b)
           n == <<NUL>>
           t == SubSeq(k, Len(a) + 1, Len(k))
<1>1. a \in Seq(Nat) /\ b \in Seq(Nat) /\ n \in Seq(Nat) /\ Len(n) = 1 /\ n[1] = NUL
  BY RedbAssumption, SMTT(30) DEF IsName, NUL
<1>2. /\ k \in Seq(Nat) /\ Len(k) = Len(a) + 1 + Len(b)
      /\ Len(a) \in Nat /\ Len(b) \in Nat
      /\ k[Len(a) + 1] = NUL
      /\ \A i \in 1..Len(b) : k[Len(a) + 1 + i] = b[i]
  BY <1>1, StateKeyIs, Zenon
<1> HIDE DEF a, b, k, n
<1>3. /\ n \o b \in Seq(Nat) /\ Len(n \o b) = Len(n) + Len(b)
      /\ \A i \in 1..Len(n) : (n \o b)[i] = n[i]
      /\ \A i \in 1..Len(b) : (n \o b)[Len(n) + i] = b[i]
  BY <1>1, Concatenation, Zenon
<1> DEFINE m == n \o b
<1>4. Len(t) = 1 + Len(b) /\ \A i \in 1..Len(t) : t[i] = k[Len(a) + i]
  BY <1>2, SMTT(30)
<1> HIDE DEF m, t
<1>5. m \in Seq(Nat) /\ Len(m) = 1 + Len(b) /\ m[1] = NUL /\ \A i \in 1..Len(b) : m[1 + i] = b[i]
  <2>1. 1 \in 1..1
    BY SMTT(30)
  <2>2. QED
    BY <1>1, <1>3, <2>1, Zenon DEF m
<1>6. ASSUME NEW i \in DOMAIN m PROVE t[i] = m[i]
  <2>0. DOMAIN m = 1..Len(m) /\ Len(a) \in Nat /\ Len(b) \in Nat
        /\ Len(m) = 1 + Len(b) /\ Len(t) = 1 + Len(b)
    BY <1>2, <1>4, <1>5, SMTT(30)
  <2>1. i \in 1..Len(t) /\ (i = 1 \/ i - 1 \in 1..Len(b))
        /\ 1 + (i - 1) = i /\ Len(a) + i = Len(a) + 1 + (i - 1)
    BY <2>0, SMTT(30)
  <2>2. CASE i = 1
    BY <1>2, <1>4, <1>5, <2>1, <2>2, Zenon
  <2>3. CASE i - 1 \in 1..Len(b)
    BY <1>2, <1>4, <1>5, <2>1, <2>3, Zenon
  <2>4. QED
    BY <2>1, <2>2, <2>3, Zenon
<1>7. Len(a) \in 0..Len(k) /\ Len(m) <= Len(t)
  BY <1>2, <1>4, <1>5, SMTT(30)
<1>8. contains(k, m)
  BY <1>6, <1>7, Zenon DEF contains, starts_with, t
<1>9. QED
  BY <1>8, Zenon DEF k, m, n, a, b, StateKey

-----------------------------------------------------------------------------
TableNames == {"machines", "entity_states", "transitions", "transitions_by_id",
               "entity_transitions", "effects", "effects_by_txn", "idempotency", "meta"}

HasTables(d) == DOMAIN d = TableNames

(* The tables as they should be, one claim per table or index. *)
Numbered(d) ==
    /\ DOMAIN d.transitions = 1..d.meta
    /\ \A s \in DOMAIN d.transitions : d.transitions[s].sequence = s

FoundById(d) ==
    /\ \A s \in DOMAIN d.transitions :
          LET id == d.transitions[s].id IN
          id \in DOMAIN d.transitions_by_id /\ d.transitions_by_id[id] = s
    /\ \A id \in DOMAIN d.transitions_by_id :
          LET s == d.transitions_by_id[id] IN
          s \in DOMAIN d.transitions /\ d.transitions[s].id = id

HistoryKeys(d) == {HistoryKey(d.transitions[s].row, s) : s \in DOMAIN d.transitions}

FoundByEntity(d) ==
    /\ d.entity_transitions = [k \in HistoryKeys(d) |-> d.entity_transitions[k]]
    /\ \A s \in DOMAIN d.transitions :
          d.entity_transitions[HistoryKey(d.transitions[s].row, s)] = s

FoundByKey(d) ==
    \A k \in DOMAIN d.idempotency :
        /\ d.idempotency[k] \in DOMAIN d.transitions
        /\ d.transitions[d.idempotency[k]].idempotency_key = k

OutboxIndexed(d) ==
    /\ \A e \in DOMAIN d.effects :
          LET k == EffectKey(d.effects[e].transition, e) IN
          /\ d.effects[e].transition \in DOMAIN d.transitions_by_id
          /\ k \in DOMAIN d.effects_by_txn /\ d.effects_by_txn[k] = e
    /\ \A k \in DOMAIN d.effects_by_txn :
          LET e == d.effects_by_txn[k] IN
          e \in DOMAIN d.effects /\ k = EffectKey(d.effects[e].transition, e)

StatesFiled(d) == \A k \in DOMAIN d.entity_states : k = StateKey(d.entity_states[k].row)

Sound(d) ==
    /\ HasTables(d) /\ IsTables(d)
    /\ Numbered(d) /\ FoundById(d) /\ FoundByEntity(d) /\ FoundByKey(d)
    /\ OutboxIndexed(d) /\ StatesFiled(d)

-----------------------------------------------------------------------------
(* A call that was made and has not returned. *)
Logs(o) == o.method \in {"execute_transition", "append_transition"}
EmitsEffects(o) == o.method \in {"execute_transition", "insert_effects"}

(* Its arguments, and what is still new to the tables. *)
CallOK(o) ==
    /\ o.method \in Methods
    /\ Logs(o) => /\ o.record \in TransitionRecord
                  /\ o.record.id \in 1..calls \ DOMAIN db.transitions_by_id
    /\ EmitsEffects(o) => /\ DOMAIN o.effects \subseteq Nat
                          /\ Range(o.effects) \subseteq used \ DOMAIN db.effects
    /\ o.method = "upsert_entity_state" => o.row \in Rows /\ o.version \in Versions
    /\ o.method = "insert_effects" => o.record.id \in DOMAIN db.transitions_by_id
    /\ o.method = "update_effect_status" => o.status \in {"Published", "Failed"}
    /\ o.method = "store_machine" => o.machine \in Definitions

(* Uuids are not handed out twice. *)
Distinct(o1, o2) ==
    /\ Logs(o1) /\ Logs(o2) => o1.record.id # o2.record.id
    /\ EmitsEffects(o1) /\ EmitsEffects(o2) => Range(o1.effects) \cap Range(o2.effects) = {}

Busy == {w \in Writers : pc[w] # "idle"}

(* What the open transaction has written so far, and the checks it passed. *)
AfterLog(d, o) == WriteRecord(d, o.record)
AfterState(d, o) == WriteState(AfterLog(d, o), o)
AfterEffects(d, o) == WriteEffects(AfterState(d, o), o)

(* t is what call o, begun on tables d, sees before its step. *)
InTransaction(d, t, o, step) ==
    \/ step = FirstStep(o) /\ t = d
    \/ /\ o.method = "execute_transition"
       /\ \/ step = "state" /\ t = AfterLog(d, o)
          \/ /\ ~VersionConflict(AfterLog(d, o), o)
             /\ \/ step = "effects" /\ t = AfterState(d, o)
                \/ step = "key" /\ t = AfterEffects(d, o)
                \/ /\ step = "commit" /\ t = WriteKey(AfterEffects(d, o), o)
                   /\ ~AlreadyExists(AfterEffects(d, o), o)
    \/ /\ o.method # "execute_transition" /\ step = "commit"
       /\ t = Written(d, o, FirstStep(o))
       /\ ~Fails(d, o, FirstStep(o))

(* The inductive invariant. *)
IInv ==
    /\ TypeOK /\ Sound(db) /\ DOMAIN op = Writers
    /\ DOMAIN db.transitions_by_id \subseteq 1..calls /\ DOMAIN db.effects \subseteq used
    /\ \A w \in Busy : CallOK(op[w])
    /\ \A v, w \in Busy : v # w => Distinct(op[v], op[w])
    /\ \A w \in Writers : write_lock = w => InTransaction(db, tx, op[w], pc[w])

-----------------------------------------------------------------------------
(* What WriteRecord leaves in each table. *)
LEMMA RecordWritten ==
    ASSUME NEW d, HasTables(d), NEW r
    PROVE  LET n == WriteRecord(d, r) IN
           /\ HasTables(n)
           /\ n.transitions = Put(d.transitions, d.meta + 1, [r EXCEPT !.sequence = d.meta + 1])
           /\ n.transitions_by_id = Put(d.transitions_by_id, r.id, d.meta + 1)
           /\ n.entity_transitions = Put(d.entity_transitions, HistoryKey(r.row, d.meta + 1), d.meta + 1)
           /\ n.meta = d.meta + 1
           /\ n.machines = d.machines /\ n.entity_states = d.entity_states
           /\ n.effects = d.effects /\ n.effects_by_txn = d.effects_by_txn
           /\ n.idempotency = d.idempotency
BY SMTT(30) DEF HasTables, TableNames, WriteRecord, next_sequence_in_tx

(* What WriteState leaves in each table. *)
LEMMA StateWritten ==
    ASSUME NEW d, HasTables(d), NEW o
    PROVE  LET n == WriteState(d, o) IN
           /\ HasTables(n)
           /\ n.entity_states = Put(d.entity_states, StateKey(RowOf(o)),
                                   [row |-> RowOf(o), version |-> VersionOf(o)])
           /\ n.machines = d.machines /\ n.transitions = d.transitions
           /\ n.transitions_by_id = d.transitions_by_id /\ n.entity_transitions = d.entity_transitions
           /\ n.effects = d.effects /\ n.effects_by_txn = d.effects_by_txn
           /\ n.idempotency = d.idempotency /\ n.meta = d.meta
BY SMTT(30) DEF HasTables, TableNames, WriteState

(* What WriteKey leaves in each table. *)
LEMMA KeyWritten ==
    ASSUME NEW d, HasTables(d), NEW o
    PROVE  LET n == WriteKey(d, o) IN
           /\ HasTables(n)
           /\ n.idempotency = IF o.record.idempotency_key = None THEN d.idempotency
                               ELSE Put(d.idempotency, o.record.idempotency_key, d.meta)
           /\ n.machines = d.machines /\ n.entity_states = d.entity_states
           /\ n.transitions = d.transitions /\ n.transitions_by_id = d.transitions_by_id
           /\ n.entity_transitions = d.entity_transitions /\ n.effects = d.effects
           /\ n.effects_by_txn = d.effects_by_txn /\ n.meta = d.meta
BY SMTT(30) DEF HasTables, TableNames, WriteKey

(* What WriteMachine leaves in each table. *)
LEMMA MachineWritten ==
    ASSUME NEW d, HasTables(d), NEW o
    PROVE  LET n == WriteMachine(d, o) IN
           /\ HasTables(n)
           /\ n.machines = Put(d.machines, o.machine.name, o.machine)
           /\ n.entity_states = d.entity_states /\ n.transitions = d.transitions
           /\ n.transitions_by_id = d.transitions_by_id /\ n.entity_transitions = d.entity_transitions
           /\ n.effects = d.effects /\ n.effects_by_txn = d.effects_by_txn
           /\ n.idempotency = d.idempotency /\ n.meta = d.meta
BY SMTT(30) DEF HasTables, TableNames, WriteMachine

(* What WriteStatus leaves in each table. *)
LEMMA StatusWritten ==
    ASSUME NEW d, HasTables(d), NEW o
    PROVE  LET n == WriteStatus(d, o) IN
           /\ HasTables(n)
           /\ n.effects = [d.effects EXCEPT ![o.effect].status = o.status]
           /\ n.machines = d.machines /\ n.entity_states = d.entity_states
           /\ n.transitions = d.transitions /\ n.transitions_by_id = d.transitions_by_id
           /\ n.entity_transitions = d.entity_transitions /\ n.effects_by_txn = d.effects_by_txn
           /\ n.idempotency = d.idempotency /\ n.meta = d.meta
BY SMTT(30) DEF HasTables, TableNames, WriteStatus

NewEffectRow(o, e) ==
    [transition |-> o.record.id, status |-> "Pending",
     created_at |-> CHOOSE i \in DOMAIN o.effects : o.effects[i] = e]

NewEffectKeys(o) == {EffectKey(o.record.id, e) : e \in Range(o.effects)}

(* The outbox and its index with the effects of the call. *)
WithEffects(t, o) ==
    [e \in DOMAIN t \cup Range(o.effects) |->
        IF e \in Range(o.effects) THEN NewEffectRow(o, e) ELSE t[e]]

WithEffectKeys(t, o) ==
    [k \in DOMAIN t \cup NewEffectKeys(o) |->
        IF k \in NewEffectKeys(o)
        THEN CHOOSE e \in Range(o.effects) : EffectKey(o.record.id, e) = k
        ELSE t[k]]

(* What WriteEffects leaves in each table. *)
LEMMA EffectsWritten ==
    ASSUME NEW d, HasTables(d), NEW o
    PROVE  LET n == WriteEffects(d, o) IN
           /\ HasTables(n)
           /\ n.effects = WithEffects(d.effects, o)
           /\ n.effects_by_txn = WithEffectKeys(d.effects_by_txn, o)
           /\ n.machines = d.machines /\ n.entity_states = d.entity_states
           /\ n.transitions = d.transitions /\ n.transitions_by_id = d.transitions_by_id
           /\ n.entity_transitions = d.entity_transitions /\ n.idempotency = d.idempotency
           /\ n.meta = d.meta
BY SMTT(30) DEF HasTables, TableNames, WriteEffects, WithEffects, WithEffectKeys,
                NewEffectRow, NewEffectKeys

-----------------------------------------------------------------------------
(* Writing a row of the right kind leaves the table one. *)
LEMMA PutInTable ==
    ASSUME NEW t, NEW K, NEW V, IsTable(t, K, V), NEW k \in K, NEW v \in V
    PROVE  IsTable(Put(t, k, v), K, V)
BY DEF IsTable, Put

LEMMA HistoryKeyType ==
    ASSUME NEW r \in Rows, NEW n \in Nat
    PROVE  HistoryKey(r, n) \in Seq(Nat)
<1>1. entity_transition_prefix(r[1], r[2]) \in Seq(Nat) /\ Padded(n) \in Seq(Nat)
  BY PrefixIs, PaddedIs
<1>2. QED
  BY <1>1, Concatenation DEF HistoryKey, entity_transition_key

(* The counter is a number that fits, and so is every sequence. *)
LEMMA SequencesFit ==
    ASSUME NEW d, Sound(d), d.meta < Weight[SeqWidth]
    PROVE  /\ d.meta \in Nat /\ Weight[SeqWidth] \in Nat
           /\ DOMAIN d.transitions = 1..d.meta
           /\ \A s \in DOMAIN d.transitions :
                 /\ s \in Nat /\ s < Weight[SeqWidth]
                 /\ d.transitions[s] \in TransitionRecord /\ d.transitions[s].row \in Rows
<1>1. d.meta \in Nat /\ DOMAIN d.transitions = 1..d.meta
  BY DEF Sound, IsTables, Numbered
<1>2. Weight[SeqWidth] \in Nat
  BY WeightIs, KeyAssumption
<1>3. \A s \in DOMAIN d.transitions : d.transitions[s] \in TransitionRecord
  BY DEF Sound, IsTables, IsTable
<1>4. \A r \in TransitionRecord : r.row \in Rows
  BY DEF TransitionRecord
<1>5. \A s \in 1..d.meta : s \in Nat /\ s < Weight[SeqWidth]
  BY <1>1, <1>2, SMTT(30)
<1>6. QED
  BY <1>1, <1>2, <1>3, <1>4, <1>5

(* A record with a new id is logged, counted and indexed. *)
LEMMA RecordSound ==
    ASSUME NEW d, Sound(d), NEW r \in TransitionRecord,
           r.id \notin DOMAIN d.transitions_by_id, d.meta + 1 < Weight[SeqWidth]
    PROVE  Sound(WriteRecord(d, r))
<1> DEFINE m == WriteRecord(d, r)
           n == d.meta + 1
           rec == [r EXCEPT !.sequence = n]
           key == HistoryKey(r.row, n)
<1>1. HasTables(d) /\ IsTables(d) /\ d.meta \in Nat
  BY DEF Sound, IsTables
<1>2. n \in Nat /\ d.meta < n /\ d.meta < Weight[SeqWidth] /\ n \notin 1..d.meta
      /\ 1..n = 1..d.meta \cup {n}
  <2>1. Weight[SeqWidth] \in Nat
    BY WeightIs, KeyAssumption, Zenon
  <2>2. n \in Nat /\ d.meta < n /\ d.meta < Weight[SeqWidth]
    BY <1>1, <2>1, SMTT(30)
  <2>3. n \notin 1..d.meta /\ 1..n = 1..d.meta \cup {n}
    BY <1>1, SMTT(30)
  <2>4. QED
    BY <2>2, <2>3
<1>3. /\ r.id \in Nat /\ r.row \in Rows
      /\ rec \in TransitionRecord /\ rec.id = r.id /\ rec.row = r.row /\ rec.sequence = n
      /\ rec.idempotency_key = r.idempotency_key
  BY <1>2, SMTT(30) DEF TransitionRecord
<1>4. /\ HasTables(m)
      /\ m.transitions = Put(d.transitions, n, rec)
      /\ m.transitions_by_id = Put(d.transitions_by_id, r.id, n)
      /\ m.entity_transitions = Put(d.entity_transitions, key, n)
      /\ m.meta = n
      /\ m.machines = d.machines /\ m.entity_states = d.entity_states
      /\ m.effects = d.effects /\ m.effects_by_txn = d.effects_by_txn
      /\ m.idempotency = d.idempotency
  BY <1>1, RecordWritten
<1>5. /\ DOMAIN d.transitions = 1..d.meta
      /\ \A s \in DOMAIN d.transitions :
            s \in Nat /\ s < Weight[SeqWidth] /\ d.transitions[s].row \in Rows
  BY <1>2, SequencesFit
<1>6. key \in Seq(Nat)
  BY <1>2, <1>3, HistoryKeyType
<1> HIDE DEF m, n, rec, key
<1>7. /\ DOMAIN m.transitions = 1..n
      /\ \A s \in 1..d.meta : m.transitions[s] = d.transitions[s]
      /\ m.transitions[n] = rec
  <2>1. /\ DOMAIN Put(d.transitions, n, rec) = DOMAIN d.transitions \cup {n}
        /\ Put(d.transitions, n, rec)[n] = rec
        /\ \A x \in DOMAIN d.transitions \ {n} : Put(d.transitions, n, rec)[x] = d.transitions[x]
    BY DEF Put
  <2>2. QED
    BY <1>2, <1>4, <1>5, <2>1
<1>8. /\ DOMAIN m.transitions_by_id = DOMAIN d.transitions_by_id \cup {r.id}
      /\ \A id \in DOMAIN d.transitions_by_id : m.transitions_by_id[id] = d.transitions_by_id[id]
      /\ m.transitions_by_id[r.id] = n
  <2> DEFINE t == d.transitions_by_id
  <2>1. /\ DOMAIN Put(t, r.id, n) = DOMAIN t \cup {r.id}
        /\ Put(t, r.id, n)[r.id] = n
        /\ \A x \in DOMAIN t \ {r.id} : Put(t, r.id, n)[x] = t[x]
    BY DEF Put
  <2>2. QED
    BY <1>4, <2>1
<1>9. IsTables(m)
  <2>0. /\ IsTable(d.transitions, Nat, TransitionRecord)
        /\ IsTable(d.transitions_by_id, Nat, Nat)
        /\ IsTable(d.entity_transitions, Seq(Nat), Nat)
    BY <1>1 DEF IsTables
  <2>1. IsTable(Put(d.transitions, n, rec), Nat, TransitionRecord)
    BY <1>2, <1>3, <2>0, PutInTable
  <2>2. IsTable(Put(d.transitions_by_id, r.id, n), Nat, Nat)
    BY <1>2, <1>3, <2>0, PutInTable
  <2>3. IsTable(Put(d.entity_transitions, key, n), Seq(Nat), Nat)
    BY <1>2, <1>6, <2>0, PutInTable
  <2>4. QED
    BY <1>1, <1>2, <1>4, <2>1, <2>2, <2>3, SMTT(30) DEF IsTables
<1>10. Numbered(m)
  BY <1>2, <1>3, <1>4, <1>5, <1>7 DEF Numbered, Sound
<1>11. FoundById(m)
  <2>0. FoundById(d)
    BY DEF Sound
  <2>1. ASSUME NEW s \in 1..d.meta
        PROVE  LET id == m.transitions[s].id IN
               id \in DOMAIN m.transitions_by_id /\ m.transitions_by_id[id] = s
    BY <1>5, <1>7, <1>8, <2>0, SMTT(30) DEF FoundById
  <2>2. ASSUME NEW id \in DOMAIN d.transitions_by_id
        PROVE  LET s == m.transitions_by_id[id] IN
               s \in 1..n /\ m.transitions[s].id = id
    BY <1>2, <1>5, <1>7, <1>8, <2>0, SMTT(30) DEF FoundById
  <2>3. QED
    BY <1>2, <1>3, <1>7, <1>8, <2>1, <2>2, SMTT(30) DEF FoundById
<1>12. FoundByEntity(m)
  <2>1. ASSUME NEW s \in 1..d.meta PROVE HistoryKey(d.transitions[s].row, s) # key
    <3>1. s \in Nat /\ s # n /\ s < Weight[SeqWidth] /\ d.transitions[s].row \in Rows
      BY <1>2, <1>5
    <3>2. n < Weight[SeqWidth]
      BY DEF n
    <3>3. QED
      BY <1>2, <1>3, <3>1, <3>2, HistoryKeyInjective DEF key
  <2>2. HistoryKeys(m) = HistoryKeys(d) \cup {key}
    BY <1>2, <1>3, <1>5, <1>7, SMTT(30) DEF HistoryKeys, key
  <2>3. DOMAIN d.entity_transitions = HistoryKeys(d)
    BY DEF Sound, FoundByEntity
  <2>4. m.entity_transitions = [k \in HistoryKeys(m) |-> m.entity_transitions[k]]
    BY <1>4, <2>2, <2>3 DEF Put
  <2>5. ASSUME NEW s \in 1..d.meta
        PROVE  m.entity_transitions[HistoryKey(m.transitions[s].row, s)] = s
    <3>1. HistoryKey(d.transitions[s].row, s) \in DOMAIN d.entity_transitions \ {key}
      BY <1>5, <2>1, <2>3 DEF HistoryKeys
    <3>2. d.entity_transitions[HistoryKey(d.transitions[s].row, s)] = s
      BY <1>5 DEF Sound, FoundByEntity
    <3>3. Put(d.entity_transitions, key, n)[HistoryKey(d.transitions[s].row, s)] =
              d.entity_transitions[HistoryKey(d.transitions[s].row, s)]
      BY <3>1 DEF Put
    <3>4. QED
      BY <1>4, <1>7, <3>2, <3>3
  <2>6. m.entity_transitions[HistoryKey(m.transitions[n].row, n)] = n
    <3>1. Put(d.entity_transitions, key, n)[key] = n
      BY DEF Put
    <3>2. QED
      BY <1>3, <1>4, <1>7, <3>1 DEF key
  <2>7. QED
    BY <1>2, <1>7, <2>4, <2>5, <2>6, SMTT(30) DEF FoundByEntity
<1>13. FoundByKey(m)
  BY <1>2, <1>4, <1>5, <1>7, SMTT(30) DEF FoundByKey, Sound
<1>14. OutboxIndexed(m) /\ StatesFiled(m)
  BY <1>4, <1>8 DEF OutboxIndexed, StatesFiled, Sound
<1>15. QED
  BY <1>4, <1>9, <1>10, <1>11, <1>12, <1>13, <1>14 DEF Sound, m

(* What the log and its indexes are does not depend on the other tables. *)
LEMMA LogFrame ==
    ASSUME NEW d, NEW m, m.transitions = d.transitions, m.meta = d.meta,
           m.transitions_by_id = d.transitions_by_id,
           m.entity_transitions = d.entity_transitions
    PROVE  /\ Numbered(d) => Numbered(m)
           /\ FoundById(d) => FoundById(m)
           /\ FoundByEntity(d) => FoundByEntity(m)
<1>1. Numbered(d) => Numbered(m)
  BY DEF Numbered
<1>2. FoundById(d) => FoundById(m)
  BY DEF FoundById
<1>3. FoundByEntity(d) => FoundByEntity(m)
  BY SMTT(30) DEF FoundByEntity, HistoryKeys
<1>4. QED
  BY <1>1, <1>2, <1>3

LEMMA OutboxFrame ==
    ASSUME NEW d, NEW m, m.effects = d.effects, m.effects_by_txn = d.effects_by_txn,
           m.transitions_by_id = d.transitions_by_id, OutboxIndexed(d)
    PROVE  OutboxIndexed(m)
BY DEF OutboxIndexed

(* A projection row is replaced under its own key. *)
LEMMA StateSound ==
    ASSUME NEW d, Sound(d), NEW o, RowOf(o) \in Rows, VersionOf(o) \in Versions
    PROVE  Sound(WriteState(d, o))
<1> DEFINE m == WriteState(d, o)
           row == [row |-> RowOf(o), version |-> VersionOf(o)]
           key == StateKey(RowOf(o))
<1>1. HasTables(d) /\ IsTables(d)
  BY DEF Sound
<1>2. /\ HasTables(m)
      /\ m.entity_states = Put(d.entity_states, key, row)
      /\ m.machines = d.machines /\ m.transitions = d.transitions
      /\ m.transitions_by_id = d.transitions_by_id
      /\ m.entity_transitions = d.entity_transitions /\ m.effects = d.effects
      /\ m.effects_by_txn = d.effects_by_txn /\ m.idempotency = d.idempotency
      /\ m.meta = d.meta
  BY <1>1, StateWritten
<1>3. row \in EntityState /\ row.row = RowOf(o) /\ key \in {StateKey(r) : r \in Rows}
  BY DEF EntityState
<1> HIDE DEF m, row, key
<1>4. IsTables(m)
  <2>1. IsTable(Put(d.entity_states, key, row), {StateKey(r) : r \in Rows}, EntityState)
    BY <1>1, <1>3, PutInTable DEF IsTables
  <2>2. QED
    BY <1>1, <1>2, <2>1, SMTT(30) DEF IsTables
<1>5. StatesFiled(m)
  BY <1>2, <1>3 DEF StatesFiled, Sound, Put, key
<1>6. /\ Numbered(m) /\ FoundById(m) /\ FoundByEntity(m) /\ FoundByKey(m) /\ OutboxIndexed(m)
  BY <1>2, LogFrame, OutboxFrame DEF Sound, FoundByKey
<1>7. QED
  BY <1>2, <1>4, <1>5, <1>6 DEF Sound, m

(* The key of an effect in the index names its transition and itself. *)
LEMMA EffectKeyIs ==
    ASSUME NEW t \in Nat, NEW e \in Nat
    PROVE  /\ EffectKey(t, e) \in Seq(Nat)
           /\ EffectKey(t, e)[1] = t /\ EffectKey(t, e)[3] = e
<1> DEFINE a == <<t>>
           b == <<e>>
           k == entity_state_key(a, b)
<1>1. a \in Seq(Nat) /\ b \in Seq(Nat) /\ Len(a) = 1 /\ Len(b) = 1 /\ a[1] = t /\ b[1] = e
  BY SMTT(30)
<1>2. EffectKey(t, e) = k
  BY DEF EffectKey, effect_by_txn_key, effect_by_txn_prefix, entity_state_key
<1> HIDE DEF a, b
<1>3. /\ k \in Seq(Nat)
      /\ \A i \in 1..Len(a) : k[i] = a[i]
      /\ \A i \in 1..Len(b) : k[Len(a) + 1 + i] = b[i]
  BY <1>1, StateKeyIs
<1> HIDE DEF k
<1>4. k[1] = t /\ k[1 + 1 + 1] = e
  BY <1>1, <1>3, SMTT(30)
<1>5. QED
  BY <1>2, <1>3, <1>4, SMTT(30)

(* New effects of a logged transition go into the outbox and its index. *)
LEMMA EffectsSound ==
    ASSUME NEW d, Sound(d), NEW o, DOMAIN o.effects \subseteq Nat,
           Range(o.effects) \subseteq EffectIds \ DOMAIN d.effects,
           o.record.id \in DOMAIN d.transitions_by_id
    PROVE  Sound(WriteEffects(d, o))
<1> DEFINE m == WriteEffects(d, o)
           new == Range(o.effects)
           id == o.record.id
           keys == NewEffectKeys(o)
<1>1. HasTables(d) /\ IsTables(d) /\ OutboxIndexed(d)
  BY DEF Sound
<1>2. /\ HasTables(m)
      /\ m.effects = WithEffects(d.effects, o)
      /\ m.effects_by_txn = WithEffectKeys(d.effects_by_txn, o)
      /\ m.machines = d.machines /\ m.entity_states = d.entity_states
      /\ m.transitions = d.transitions /\ m.transitions_by_id = d.transitions_by_id
      /\ m.entity_transitions = d.entity_transitions /\ m.idempotency = d.idempotency
      /\ m.meta = d.meta
  BY <1>1, EffectsWritten
<1>3. id \in Nat /\ new \subseteq Nat /\ DOMAIN d.effects \subseteq Nat
  <2>1. IsTable(d.transitions_by_id, Nat, Nat) /\ IsTable(d.effects, EffectIds, Effect)
    BY <1>1 DEF IsTables
  <2>2. QED
    BY <2>1, RedbAssumption DEF IsTable
<1>4. /\ \A e \in new : NewEffectRow(o, e) \in Effect /\ NewEffectRow(o, e).transition = id
      /\ \A e \in DOMAIN d.effects : d.effects[e].transition \in Nat
  <2>1. ASSUME NEW e \in new PROVE NewEffectRow(o, e) \in Effect /\ NewEffectRow(o, e).transition = id
    <3>1. \E i \in DOMAIN o.effects : o.effects[i] = e
      BY DEF Range
    <3>2. (CHOOSE i \in DOMAIN o.effects : o.effects[i] = e) \in Nat
      BY <3>1
    <3>3. QED
      BY <1>3, <3>2, SMTT(30) DEF NewEffectRow, Effect
  <2>2. ASSUME NEW e \in DOMAIN d.effects PROVE d.effects[e].transition \in Nat
    BY <1>1, SMTT(30) DEF IsTables, IsTable, Effect
  <2>3. QED
    BY <2>1, <2>2
<1>5. \A e \in new : EffectKey(id, e) \in Seq(Nat)
  BY <1>3, EffectKeyIs
<1> HIDE DEF m, new, id, keys
<1>6. keys = {EffectKey(id, e) : e \in new}
  BY DEF keys, new, id, NewEffectKeys
<1>7. \A e \in new : EffectKey(id, e) \in keys /\ m.effects_by_txn[EffectKey(id, e)] = e
  <2> SUFFICES ASSUME NEW e \in new
               PROVE  EffectKey(id, e) \in keys /\ m.effects_by_txn[EffectKey(id, e)] = e
    OBVIOUS
  <2>1. EffectKey(id, e) \in keys
    BY <1>6
  <2>2. \A f \in new : EffectKey(id, f) = EffectKey(id, e) => f = e
    <3>1. \A f \in new : EffectKey(id, f)[3] = f
      BY <1>3, EffectKeyIs
    <3>2. QED
      BY <3>1
  <2>3. (CHOOSE f \in new : EffectKey(id, f) = EffectKey(id, e)) = e
    BY <2>2
  <2>4. QED
    BY <1>2, <2>1, <2>3 DEF WithEffectKeys, keys, new, id
<1>8. \A e \in DOMAIN d.effects : EffectKey(d.effects[e].transition, e) \notin keys
  <2> SUFFICES ASSUME NEW e \in DOMAIN d.effects, NEW f \in new,
                      EffectKey(d.effects[e].transition, e) = EffectKey(id, f)
               PROVE  FALSE
    BY <1>6
  <2>1. e = f
    <3>1. EffectKey(d.effects[e].transition, e)[3] = e /\ EffectKey(id, f)[3] = f
      BY <1>3, <1>4, EffectKeyIs
    <3>2. QED
      BY <3>1
  <2>2. QED
    BY <2>1 DEF new
<1>9. /\ DOMAIN m.effects = DOMAIN d.effects \cup new
      /\ \A e \in DOMAIN d.effects : m.effects[e] = d.effects[e]
      /\ \A e \in new : m.effects[e] = NewEffectRow(o, e)
      /\ DOMAIN m.effects_by_txn = DOMAIN d.effects_by_txn \cup keys
      /\ \A k \in DOMAIN d.effects_by_txn : k \notin keys /\ m.effects_by_txn[k] = d.effects_by_txn[k]
  <2>1. \A k \in DOMAIN d.effects_by_txn : k \notin keys
    BY <1>1, <1>8 DEF OutboxIndexed
  <2>2. DOMAIN d.effects \cap new = {}
    BY DEF new
  <2>3. /\ DOMAIN m.effects = DOMAIN d.effects \cup new
        /\ \A e \in DOMAIN d.effects : m.effects[e] = d.effects[e]
        /\ \A e \in new : m.effects[e] = NewEffectRow(o, e)
    BY <1>2, <2>2 DEF WithEffects, new
  <2>4. /\ DOMAIN m.effects_by_txn = DOMAIN d.effects_by_txn \cup keys
        /\ \A k \in DOMAIN d.effects_by_txn : m.effects_by_txn[k] = d.effects_by_txn[k]
    BY <1>2, <2>1 DEF WithEffectKeys, keys
  <2>5. QED
    BY <2>1, <2>3, <2>4
<1>10. IsTables(m)
  <2>1. IsTable(m.effects, EffectIds, Effect)
    BY <1>1, <1>4, <1>9 DEF IsTables, IsTable, new
  <2>2. IsTable(m.effects_by_txn, Seq(Nat), EffectIds)
    BY <1>1, <1>5, <1>6, <1>7, <1>9, SMTT(30) DEF IsTables, IsTable, new
  <2>3. QED
    BY <1>1, <1>2, <2>1, <2>2, SMTT(30) DEF IsTables
<1>11. OutboxIndexed(m)
  <2>1. ASSUME NEW e \in DOMAIN m.effects
        PROVE  LET k == EffectKey(m.effects[e].transition, e) IN
               /\ m.effects[e].transition \in DOMAIN m.transitions_by_id
               /\ k \in DOMAIN m.effects_by_txn /\ m.effects_by_txn[k] = e
    <3>1. CASE e \in new
      <4>1. m.effects[e].transition = id
        BY <1>4, <1>9, <3>1
      <4>2. id \in DOMAIN m.transitions_by_id
        BY <1>2 DEF id
      <4>3. EffectKey(id, e) \in DOMAIN m.effects_by_txn /\ m.effects_by_txn[EffectKey(id, e)] = e
        BY <1>7, <1>9, <3>1
      <4>4. QED
        BY <4>1, <4>2, <4>3
    <3>2. CASE e \in DOMAIN d.effects
      <4> DEFINE k == EffectKey(d.effects[e].transition, e)
      <4>1. /\ d.effects[e].transition \in DOMAIN d.transitions_by_id
            /\ k \in DOMAIN d.effects_by_txn /\ d.effects_by_txn[k] = e
        BY <1>1, <3>2 DEF OutboxIndexed
      <4>2. m.effects[e] = d.effects[e]
        BY <1>9, <3>2
      <4>3. k \in DOMAIN m.effects_by_txn /\ m.effects_by_txn[k] = e
        BY <1>9, <4>1
      <4>4. QED
        BY <1>2, <4>1, <4>2, <4>3
    <3>3. QED
      BY <1>9, <3>1, <3>2
  <2>2. ASSUME NEW k \in DOMAIN m.effects_by_txn
        PROVE  LET e == m.effects_by_txn[k] IN
               e \in DOMAIN m.effects /\ k = EffectKey(m.effects[e].transition, e)
    <3>1. CASE k \in keys
      <4>1. PICK e \in new : k = EffectKey(id, e)
        BY <1>6, <3>1, Zenon
      <4>2. m.effects_by_txn[k] = e
        BY <1>7, <4>1, Zenon
      <4>3. e \in DOMAIN m.effects /\ m.effects[e].transition = id
        BY <1>4, <1>9, Zenon
      <4>4. QED
        BY <4>1, <4>2, <4>3, Zenon
    <3>2. CASE k \in DOMAIN d.effects_by_txn
      BY <1>1, <1>9, <3>2 DEF OutboxIndexed
    <3>3. QED
      BY <1>9, <3>1, <3>2
  <2>3. QED
    BY <2>1, <2>2 DEF OutboxIndexed
<1>12. /\ Numbered(m) /\ FoundById(m) /\ FoundByEntity(m) /\ FoundByKey(m) /\ StatesFiled(m)
  BY <1>2, LogFrame DEF Sound, FoundByKey, StatesFiled
<1>13. QED
  BY <1>2, <1>10, <1>11, <1>12 DEF Sound, m

(* A key is recorded for the record that was just logged under it. *)
LEMMA KeySound ==
    ASSUME NEW d, Sound(d), NEW o, o.record.idempotency_key \in Keys \cup {None},
           d.meta \in DOMAIN d.transitions,
           d.transitions[d.meta].idempotency_key = o.record.idempotency_key
    PROVE  Sound(WriteKey(d, o))
<1> DEFINE m == WriteKey(d, o)
           key == o.record.idempotency_key
<1>1. HasTables(d) /\ IsTables(d) /\ FoundByKey(d) /\ d.meta \in Nat
  BY DEF Sound, IsTables
<1>2. /\ HasTables(m)
      /\ m.idempotency = IF key = None THEN d.idempotency ELSE Put(d.idempotency, key, d.meta)
      /\ m.machines = d.machines /\ m.entity_states = d.entity_states
      /\ m.transitions = d.transitions /\ m.transitions_by_id = d.transitions_by_id
      /\ m.entity_transitions = d.entity_transitions
      /\ m.effects = d.effects /\ m.effects_by_txn = d.effects_by_txn
      /\ m.meta = d.meta
  BY <1>1, KeyWritten
<1> HIDE DEF m
<1>3. IsTable(m.idempotency, Keys, Nat)
  <2>1. IsTable(d.idempotency, Keys, Nat)
    BY <1>1 DEF IsTables
  <2>2. CASE key = None
    BY <1>2, <2>1, <2>2
  <2>3. CASE key # None
    BY <1>1, <1>2, <2>1, <2>3, PutInTable
  <2>4. QED
    BY <2>2, <2>3
<1>4. IsTables(m)
  BY <1>1, <1>2, <1>3, SMTT(30) DEF IsTables
<1>5. FoundByKey(m)
  BY <1>1, <1>2, SMTT(30) DEF FoundByKey, Put
<1>6. /\ Numbered(m) /\ FoundById(m) /\ FoundByEntity(m) /\ OutboxIndexed(m) /\ StatesFiled(m)
  BY <1>2, LogFrame, OutboxFrame DEF Sound, StatesFiled
<1>7. QED
  BY <1>2, <1>4, <1>5, <1>6 DEF Sound, m

(* A definition replaces the one of its name. *)
LEMMA MachineSound ==
    ASSUME NEW d, Sound(d), NEW o, o.machine \in Definitions
    PROVE  Sound(WriteMachine(d, o))
<1> DEFINE m == WriteMachine(d, o)
<1>1. HasTables(d) /\ IsTables(d)
  BY DEF Sound
<1>2. /\ HasTables(m)
      /\ m.machines = Put(d.machines, o.machine.name, o.machine)
      /\ m.entity_states = d.entity_states /\ m.transitions = d.transitions
      /\ m.transitions_by_id = d.transitions_by_id
      /\ m.entity_transitions = d.entity_transitions
      /\ m.effects = d.effects /\ m.effects_by_txn = d.effects_by_txn
      /\ m.idempotency = d.idempotency /\ m.meta = d.meta
  BY <1>1, MachineWritten
<1> HIDE DEF m
<1>3. IsTable(m.machines, {x.name : x \in Definitions}, Definitions)
  <2>1. o.machine.name \in {x.name : x \in Definitions}
    OBVIOUS
  <2>2. IsTable(d.machines, {x.name : x \in Definitions}, Definitions)
    BY <1>1 DEF IsTables
  <2>3. QED
    BY <1>2, <2>1, <2>2, PutInTable
<1>4. IsTables(m)
  BY <1>1, <1>2, <1>3, SMTT(30) DEF IsTables
<1>5. /\ Numbered(m) /\ FoundById(m) /\ FoundByEntity(m) /\ OutboxIndexed(m)
      /\ FoundByKey(m) /\ StatesFiled(m)
  BY <1>2, LogFrame, OutboxFrame DEF Sound, FoundByKey, StatesFiled
<1>6. QED
  BY <1>2, <1>4, <1>5 DEF Sound, m

(* The status of an effect that is there is replaced. *)
LEMMA StatusSound ==
    ASSUME NEW d, Sound(d), NEW o, ~NoSuchEffect(d, o), o.status \in {"Published", "Failed"}
    PROVE  Sound(WriteStatus(d, o))
<1> DEFINE m == WriteStatus(d, o)
<1>1. HasTables(d) /\ IsTables(d) /\ OutboxIndexed(d)
  BY DEF Sound
<1>2. /\ HasTables(m)
      /\ m.effects = [d.effects EXCEPT ![o.effect].status = o.status]
      /\ m.machines = d.machines
      /\ m.entity_states = d.entity_states /\ m.transitions = d.transitions
      /\ m.transitions_by_id = d.transitions_by_id
      /\ m.entity_transitions = d.entity_transitions
      /\ m.effects_by_txn = d.effects_by_txn
      /\ m.idempotency = d.idempotency /\ m.meta = d.meta
  BY <1>1, StatusWritten
<1>3. IsTable(d.effects, EffectIds, Effect)
  BY <1>1 DEF IsTables
<1> HIDE DEF m
<1>4. /\ DOMAIN m.effects = DOMAIN d.effects
      /\ \A e \in DOMAIN d.effects :
            m.effects[e] \in Effect /\ m.effects[e].transition = d.effects[e].transition
  <2>1. DOMAIN m.effects = DOMAIN d.effects
    BY <1>2
  <2>2. ASSUME NEW e \in DOMAIN d.effects, e # o.effect PROVE m.effects[e] = d.effects[e]
    BY <1>2, <2>2
  <2>3. /\ m.effects[o.effect] = [d.effects[o.effect] EXCEPT !.status = o.status]
        /\ d.effects[o.effect] \in Effect
    BY <1>2, <1>3 DEF NoSuchEffect, IsTable
  <2>4. m.effects[o.effect] \in Effect /\ m.effects[o.effect].transition = d.effects[o.effect].transition
    BY <2>3, SMTT(30) DEF Effect
  <2>5. QED
    BY <1>3, <2>1, <2>2, <2>4 DEF IsTable
<1>5. IsTables(m)
  <2>1. IsTable(m.effects, EffectIds, Effect)
    BY <1>3, <1>4 DEF IsTable
  <2>2. QED
    BY <1>1, <1>2, <2>1, SMTT(30) DEF IsTables
<1>6. OutboxIndexed(m)
  BY <1>1, <1>2, <1>4, SMTT(30) DEF OutboxIndexed
<1>7. /\ Numbered(m) /\ FoundById(m) /\ FoundByEntity(m) /\ FoundByKey(m) /\ StatesFiled(m)
  BY <1>2, LogFrame DEF Sound, FoundByKey, StatesFiled
<1>8. QED
  BY <1>2, <1>5, <1>6, <1>7 DEF Sound, m

-----------------------------------------------------------------------------
(* Every logged record has an id of its own below c, and one is left over. *)
LEMMA RoomForOne ==
    ASSUME NEW d, Sound(d), NEW c \in Nat, DOMAIN d.transitions_by_id \subseteq 1..c,
           NEW id \in 1..c, id \notin DOMAIN d.transitions_by_id
    PROVE  d.meta + 1 <= c
<1> DEFINE n == d.meta + 1
           f == [s \in 1..n |-> IF s = n THEN id ELSE d.transitions[s].id]
<1>1. d.meta \in Nat /\ DOMAIN d.transitions = 1..d.meta /\ FoundById(d)
  BY DEF Sound, IsTables, Numbered
<1>2. n \in Nat /\ \A s \in 1..n : s = n \/ s \in 1..d.meta
  BY <1>1, SMTT(30)
<1> HIDE DEF n
<1>3. \A s \in 1..d.meta : /\ d.transitions[s].id \in DOMAIN d.transitions_by_id
                           /\ d.transitions_by_id[d.transitions[s].id] = s
  BY <1>1 DEF FoundById
<1>4. f \in [1..n -> 1..c]
  BY <1>2, <1>3
<1>5. ASSUME NEW a \in 1..n, NEW b \in 1..n, f[a] = f[b] PROVE a = b
  BY <1>2, <1>3, <1>5
<1> HIDE DEF f
<1>6. f \in Injection(1..n, 1..c)
  BY <1>4, <1>5 DEF Injection, IsInjective
<1>7. /\ IsFiniteSet(1..c) /\ Cardinality(1..n) = n /\ Cardinality(1..c) = c
  <2>1. /\ IsFiniteSet(1..c) /\ Cardinality(1..n) = (IF 1 > n THEN 0 ELSE n - 1 + 1)
        /\ Cardinality(1..c) = (IF 1 > c THEN 0 ELSE c - 1 + 1)
    BY <1>2, FS_Interval, SMTT(30)
  <2>2. QED
    BY <1>2, <2>1, SMTT(30)
<1>8. Cardinality(1..n) <= Cardinality(1..c)
  BY <1>6, <1>7, FS_Injection, Zenon
<1>9. QED
  BY <1>7, <1>8 DEF n

(* What a call finds when it takes effect. *)
Ready(o) ==
    /\ Sound(db) /\ CallOK(o)
    /\ DOMAIN db.transitions_by_id \subseteq 1..calls /\ DOMAIN db.effects \subseteq used
    /\ calls \in 0..MaxCalls /\ used \subseteq EffectIds

(* Logging, the first step of two methods. *)
LEMMA LogStep ==
    ASSUME NEW o, Ready(o), Logs(o)
    PROVE  /\ Sound(AfterLog(db, o))
           /\ o.record \in TransitionRecord /\ o.record.id \notin DOMAIN db.transitions_by_id
           /\ db.meta + 1 < Weight[SeqWidth]
<1>1. /\ Sound(db) /\ o.record \in TransitionRecord
      /\ o.record.id \in 1..calls /\ o.record.id \notin DOMAIN db.transitions_by_id
  BY DEF Ready, CallOK
<1>2. calls \in Nat /\ calls <= MaxCalls /\ MaxCalls \in Nat
  BY RedbAssumption, SMTT(30) DEF Ready
<1>3. db.meta + 1 <= calls
  BY <1>1, <1>2, RoomForOne DEF Ready
<1>4. db.meta \in Nat
  BY <1>1 DEF Sound, IsTables
<1>5. Weight[SeqWidth] \in Nat /\ SeqModulus \in Nat /\ MaxCalls < SeqModulus
      /\ SeqModulus <= Weight[SeqWidth]
  BY RedbAssumption, WeightIs, KeyAssumption
<1>6. db.meta + 1 < Weight[SeqWidth]
  BY <1>2, <1>3, <1>4, <1>5, SMTT(30)
<1>7. QED
  BY <1>1, <1>6, RecordSound DEF AfterLog

(* The steps of execute_transition, and the tables they leave. *)
LEMMA ExecuteSteps ==
    ASSUME NEW o, Ready(o), o.method = "execute_transition"
    PROVE  LET new == WriteKey(AfterEffects(db, o), o)
               r == o.record
               n == db.meta + 1
               key == r.idempotency_key
           IN
           /\ Sound(AfterLog(db, o)) /\ Sound(AfterState(db, o)) /\ Sound(AfterEffects(db, o)) /\ Sound(new)
           /\ AfterLog(db, o).entity_states = db.entity_states
           /\ AfterEffects(db, o).idempotency = db.idempotency
           /\ new.machines = db.machines
           /\ new.entity_states = Put(db.entity_states, StateKey(r.row),
                                      [row |-> r.row, version |-> r.version])
           /\ new.transitions = Put(db.transitions, n, [r EXCEPT !.sequence = n])
           /\ new.transitions_by_id = Put(db.transitions_by_id, r.id, n)
           /\ new.effects = WithEffects(db.effects, o)
           /\ new.idempotency = IF key = None THEN db.idempotency ELSE Put(db.idempotency, key, n)
           /\ new.meta = n
<1> DEFINE r == o.record
           n == db.meta + 1
           rec == [r EXCEPT !.sequence = n]
           a == AfterLog(db, o)
           b == AfterState(db, o)
           c == AfterEffects(db, o)
           new == WriteKey(c, o)
<1>0. Logs(o) /\ EmitsEffects(o) /\ RowOf(o) = r.row /\ VersionOf(o) = r.version
  BY DEF Logs, EmitsEffects, RowOf, VersionOf
<1>1. Sound(db) /\ Sound(a) /\ r \in TransitionRecord
  BY <1>0, LogStep DEF Ready
<1>2. /\ r.row \in Rows /\ r.version \in Versions /\ r.idempotency_key \in Keys \cup {None}
      /\ rec.idempotency_key = r.idempotency_key
  BY <1>1, SMTT(30) DEF TransitionRecord
<1>3. /\ a.transitions = Put(db.transitions, n, rec)
      /\ a.transitions_by_id = Put(db.transitions_by_id, r.id, n)
      /\ a.meta = n /\ a.machines = db.machines /\ a.entity_states = db.entity_states
      /\ a.effects = db.effects /\ a.idempotency = db.idempotency
  BY <1>1, RecordWritten DEF AfterLog, Sound
<1> HIDE DEF a
<1>4. Sound(b)
  BY <1>0, <1>1, <1>2, StateSound DEF AfterState, a
<1>5. /\ b.entity_states = Put(a.entity_states, StateKey(r.row),
                               [row |-> r.row, version |-> r.version])
      /\ b.machines = a.machines /\ b.transitions = a.transitions
      /\ b.transitions_by_id = a.transitions_by_id /\ b.effects = a.effects
      /\ b.idempotency = a.idempotency /\ b.meta = a.meta
  BY <1>0, <1>1, StateWritten, SMTT(30) DEF AfterState, Sound, a
<1> HIDE DEF b
<1>6. Sound(c)
  <2>1. /\ DOMAIN o.effects \subseteq Nat
        /\ Range(o.effects) \subseteq EffectIds \ DOMAIN b.effects
    BY <1>0, <1>3, <1>5 DEF Ready, CallOK
  <2>2. r.id \in DOMAIN b.transitions_by_id
    BY <1>3, <1>5 DEF Put
  <2>3. QED
    BY <1>4, <2>1, <2>2, EffectsSound DEF AfterEffects, b
<1>7. /\ c.effects = WithEffects(b.effects, o)
      /\ c.machines = b.machines /\ c.entity_states = b.entity_states
      /\ c.transitions = b.transitions /\ c.transitions_by_id = b.transitions_by_id
      /\ c.idempotency = b.idempotency /\ c.meta = b.meta
  <2>1. HasTables(b)
    BY <1>4 DEF Sound
  <2>2. c = WriteEffects(b, o)
    BY DEF AfterEffects, b
  <2> HIDE DEF c
  <2>3. QED
    BY <2>1, <2>2, EffectsWritten
<1> HIDE DEF c
<1>8. Sound(new)
  <2>1. c.meta \in DOMAIN c.transitions /\ c.transitions[c.meta] = rec
    BY <1>3, <1>5, <1>7, SMTT(30) DEF Put
  <2>2. QED
    BY <1>2, <1>6, <2>1, KeySound
<1>9. /\ new.idempotency = (IF r.idempotency_key = None THEN c.idempotency
                            ELSE Put(c.idempotency, r.idempotency_key, c.meta))
      /\ new.machines = c.machines /\ new.entity_states = c.entity_states
      /\ new.transitions = c.transitions /\ new.transitions_by_id = c.transitions_by_id
      /\ new.effects = c.effects /\ new.meta = c.meta
  BY <1>6, KeyWritten DEF Sound
<1>10. QED
  BY <1>1, <1>3, <1>4, <1>5, <1>6, <1>7, <1>8, <1>9, SMTT(30) DEF a, b, c

(* A call of any other method writes once. *)
LEMMA OneStep ==
    ASSUME NEW o, Ready(o), o.method # "execute_transition", ~Fails(db, o, FirstStep(o))
    PROVE  Sound(Written(db, o, FirstStep(o)))
<1> USE DEF Ready
<1>1. CASE o.method = "append_transition"
  <2>1. Written(db, o, FirstStep(o)) = AfterLog(db, o)
    BY <1>1, SMTT(30) DEF Written, FirstStep, AfterLog
  <2>2. QED
    BY <1>1, <2>1, LogStep DEF Logs
<1>2. CASE o.method = "upsert_entity_state"
  <2>1. Written(db, o, FirstStep(o)) = WriteState(db, o)
    BY <1>2, SMTT(30) DEF Written, FirstStep
  <2>2. RowOf(o) \in Rows /\ VersionOf(o) \in Versions
    BY <1>2 DEF CallOK, RowOf, VersionOf
  <2>3. QED
    BY <2>1, <2>2, StateSound
<1>3. CASE o.method = "insert_effects"
  <2>1. Written(db, o, FirstStep(o)) = WriteEffects(db, o)
    BY <1>3, SMTT(30) DEF Written, FirstStep
  <2>2. /\ DOMAIN o.effects \subseteq Nat
        /\ Range(o.effects) \subseteq EffectIds \ DOMAIN db.effects
        /\ o.record.id \in DOMAIN db.transitions_by_id
    BY <1>3 DEF CallOK, EmitsEffects
  <2>3. QED
    BY <2>1, <2>2, EffectsSound
<1>4. CASE o.method = "update_effect_status"
  <2>1. Written(db, o, FirstStep(o)) = WriteStatus(db, o) /\ ~NoSuchEffect(db, o)
    BY <1>4, SMTT(30) DEF Written, FirstStep, Fails
  <2>2. o.status \in {"Published", "Failed"}
    BY <1>4 DEF CallOK
  <2>3. QED
    BY <2>1, <2>2, StatusSound
<1>5. CASE o.method = "store_machine"
  <2>1. Written(db, o, FirstStep(o)) = WriteMachine(db, o)
    BY <1>5, SMTT(30) DEF Written, FirstStep
  <2>2. o.machine \in Definitions
    BY <1>5 DEF CallOK
  <2>3. QED
    BY <2>1, <2>2, MachineSound
<1>6. QED
  BY <1>1, <1>2, <1>3, <1>4, <1>5 DEF CallOK, Methods

(* At every step the open transaction sees sound tables. *)
LEMMA TransactionSound ==
    ASSUME NEW o, NEW step, NEW t, Ready(o), InTransaction(db, t, o, step)
    PROVE  Sound(t)
BY ExecuteSteps, OneStep DEF InTransaction, Ready

-----------------------------------------------------------------------------
(* What a caller passes. *)
NewCall(o) ==
    /\ o.method \in Methods
    /\ Logs(o) => o.record \in TransitionRecord /\ o.record.id = calls + 1
    /\ EmitsEffects(o) => /\ DOMAIN o.effects \subseteq Nat
                          /\ Range(o.effects) \subseteq EffectIds \ used
    /\ EmitsEffects(o) <=> "effects" \in DOMAIN o
    /\ o.method = "upsert_entity_state" => o.row \in Rows /\ o.version \in Versions
    /\ o.method = "insert_effects" => o.record.id \in DOMAIN db.transitions_by_id
    /\ o.method = "update_effect_status" => o.status \in {"Published", "Failed"}
    /\ o.method = "store_machine" => o.machine \in Definitions

LEMMA CallsAreNew ==
    ASSUME NEW o \in Calls, calls \in Nat
    PROVE  NewCall(o)
<1>1. PICK i \in Inputs : o \in CallsFor(i)
  BY DEF Calls
<1>2. /\ i.method \in Methods /\ i.row \in Rows /\ i.version \in Versions
      /\ i.key \in Keys \cup {None} /\ i.emits \in Nat
  BY RedbAssumption DEF Input
<1>3. \A e \in NewEffects(i.emits) :
          DOMAIN e \subseteq Nat /\ Range(e) \subseteq EffectIds \ used
  BY <1>2, SMTT(30) DEF NewEffects, Range
<1>4. NewRecord(i) \in TransitionRecord /\ NewRecord(i).id = calls + 1
  BY <1>2, SMTT(30) DEF NewRecord, TransitionRecord
<1> USE DEF NewCall, Logs, EmitsEffects
<1>5. CASE i.method = "execute_transition"
  <2>1. PICK e \in NewEffects(i.emits) :
            o = [method |-> i.method, record |-> NewRecord(i), effects |-> e]
    BY <1>1, <1>5 DEF CallsFor
  <2>2. QED
    BY <1>2, <1>3, <1>4, <1>5, <2>1, SMTT(30)
<1>6. CASE i.method = "append_transition"
  <2>1. o = [method |-> i.method, record |-> NewRecord(i)]
    BY <1>1, <1>6 DEF CallsFor
  <2>2. QED
    BY <1>2, <1>4, <1>6, <2>1, SMTT(30)
<1>7. CASE i.method = "upsert_entity_state"
  <2>1. o = [method |-> i.method, row |-> i.row, version |-> i.version]
    BY <1>1, <1>7 DEF CallsFor
  <2>2. QED
    BY <1>2, <1>7, <2>1, SMTT(30)
<1>8. CASE i.method = "insert_effects"
  <2>1. PICK t \in DOMAIN db.transitions_by_id, e \in NewEffects(i.emits) :
            o = [method |-> i.method, record |-> [id |-> t], effects |-> e]
    BY <1>1, <1>8, SMTT(30) DEF CallsFor
  <2>2. QED
    BY <1>2, <1>3, <1>8, <2>1, SMTT(30)
<1>9. CASE i.method = "update_effect_status"
  <2>1. PICK e \in used, t \in {"Published", "Failed"} :
            o = [method |-> i.method, effect |-> e, status |-> t]
    BY <1>1, <1>9, SMTT(30) DEF CallsFor
  <2>2. QED
    BY <1>2, <1>9, <2>1, SMTT(30)
<1>10. CASE i.method = "store_machine"
  <2>1. PICK d \in Definitions : o = [method |-> i.method, machine |-> d]
    BY <1>1, <1>10 DEF CallsFor
  <2>2. QED
    BY <1>2, <1>10, <2>1, SMTT(30)
<1>11. QED
  BY <1>2, <1>5, <1>6, <1>7, <1>8, <1>9, <1>10 DEF Methods

(* What a commit adds to the ids and to the outbox. *)
LEMMA CommitAdds ==
    ASSUME NEW o, NEW t, Ready(o), InTransaction(db, t, o, "commit")
    PROVE  /\ DOMAIN db.transitions_by_id \subseteq DOMAIN t.transitions_by_id
           /\ \A id \in DOMAIN t.transitions_by_id \ DOMAIN db.transitions_by_id :
                 Logs(o) /\ id = o.record.id
           /\ \A e \in DOMAIN t.effects \ DOMAIN db.effects :
                 EmitsEffects(o) /\ e \in Range(o.effects)
<1>0. HasTables(db) /\ o.method \in Methods
  BY DEF Ready, Sound, CallOK
<1>1. CASE o.method = "execute_transition"
  <2>1. t = WriteKey(AfterEffects(db, o), o)
    BY <1>1, SMTT(30) DEF InTransaction, FirstStep
  <2>2. /\ t.transitions_by_id = Put(db.transitions_by_id, o.record.id, db.meta + 1)
        /\ t.effects = WithEffects(db.effects, o)
    BY <1>1, <2>1, ExecuteSteps
  <2>3. QED
    BY <1>1, <2>2 DEF Put, WithEffects, Logs, EmitsEffects
<1>2. CASE o.method # "execute_transition"
  <2>1. t = Written(db, o, FirstStep(o))
    BY <1>0, <1>2, SMTT(30) DEF InTransaction, FirstStep, Methods
  <2>2. CASE o.method = "append_transition"
    <3>1. t = WriteRecord(db, o.record)
      BY <2>1, <2>2, SMTT(30) DEF Written, FirstStep
    <3>2. /\ t.transitions_by_id = Put(db.transitions_by_id, o.record.id, db.meta + 1)
          /\ t.effects = db.effects
      BY <1>0, <3>1, RecordWritten
    <3>3. QED
      BY <2>2, <3>2 DEF Put, Logs
  <2>3. CASE o.method = "upsert_entity_state"
    <3>1. t = WriteState(db, o)
      BY <2>1, <2>3, SMTT(30) DEF Written, FirstStep
    <3>2. QED
      BY <1>0, <3>1, StateWritten
  <2>4. CASE o.method = "insert_effects"
    <3>1. t = WriteEffects(db, o)
      BY <2>1, <2>4, SMTT(30) DEF Written, FirstStep
    <3>2. t.transitions_by_id = db.transitions_by_id /\ t.effects = WithEffects(db.effects, o)
      BY <1>0, <3>1, EffectsWritten
    <3>3. QED
      BY <2>4, <3>2 DEF WithEffects, EmitsEffects
  <2>5. CASE o.method = "update_effect_status"
    <3>1. t = WriteStatus(db, o)
      BY <2>1, <2>5, SMTT(30) DEF Written, FirstStep
    <3>2. /\ t.transitions_by_id = db.transitions_by_id
          /\ t.effects = [db.effects EXCEPT ![o.effect].status = o.status]
      BY <1>0, <3>1, StatusWritten
    <3>3. QED
      BY <3>2
  <2>6. CASE o.method = "store_machine"
    <3>1. t = WriteMachine(db, o)
      BY <2>1, <2>6, SMTT(30) DEF Written, FirstStep
    <3>2. QED
      BY <1>0, <3>1, MachineWritten
  <2>7. QED
    BY <1>0, <1>2, <2>2, <2>3, <2>4, <2>5, <2>6 DEF Methods
<1>3. QED
  BY <1>1, <1>2

-----------------------------------------------------------------------------
(* Every method starts with a write and ends with the commit. *)
LEMMA FirstIsStep ==
    ASSUME NEW o, o.method \in Methods
    PROVE  FirstStep(o) \in Steps \ {"commit"}
BY SMTT(30) DEF FirstStep, Methods, Steps

LEMMA NextIsStep ==
    ASSUME NEW o, NEW step
    PROVE  NextStep(o, step) \in Steps
BY SMTT(30) DEF NextStep, Steps

(* A step that does not fail brings the transaction to the next step. *)
LEMMA WriteAdvances ==
    ASSUME NEW d, NEW t, NEW o, NEW step \in Steps \ {"commit"}, o.method \in Methods,
           InTransaction(d, t, o, step), ~Fails(t, o, step)
    PROVE  InTransaction(d, Written(t, o, step), o, NextStep(o, step))
<1>1. CASE o.method # "execute_transition"
  <2>1. step = FirstStep(o) /\ t = d
    BY <1>1, SMTT(30) DEF InTransaction
  <2>2. NextStep(o, step) = "commit"
    BY <1>1 DEF NextStep
  <2>3. QED
    BY <1>1, <2>1, <2>2 DEF InTransaction
<1>2. CASE o.method = "execute_transition"
  <2>1. FirstStep(o) = "log"
    BY <1>2, SMTT(30) DEF FirstStep
  <2>2. CASE step = "log"
    <3>1. t = d /\ NextStep(o, step) = "state" /\ Written(t, o, step) = AfterLog(d, o)
      BY <1>2, <2>1, <2>2, SMTT(30) DEF InTransaction, NextStep, Written, AfterLog
    <3>2. QED
      BY <1>2, <3>1 DEF InTransaction
  <2>3. CASE step = "state"
    <3>1. t = AfterLog(d, o)
      BY <1>2, <2>1, <2>3, SMTT(30) DEF InTransaction
    <3>2. ~VersionConflict(AfterLog(d, o), o)
      BY <2>3, <3>1 DEF Fails
    <3>3. NextStep(o, step) = "effects" /\ Written(t, o, step) = AfterState(d, o)
      BY <1>2, <2>3, <3>1, SMTT(30) DEF NextStep, Written, AfterState
    <3>4. QED
      BY <1>2, <3>2, <3>3 DEF InTransaction
  <2>4. CASE step = "effects"
    <3>1. t = AfterState(d, o) /\ ~VersionConflict(AfterLog(d, o), o)
      BY <1>2, <2>1, <2>4, SMTT(30) DEF InTransaction
    <3>2. NextStep(o, step) = "key" /\ Written(t, o, step) = AfterEffects(d, o)
      BY <1>2, <2>4, <3>1, SMTT(30) DEF NextStep, Written, AfterEffects
    <3>3. QED
      BY <1>2, <3>1, <3>2 DEF InTransaction
  <2>5. CASE step = "key"
    <3>1. t = AfterEffects(d, o) /\ ~VersionConflict(AfterLog(d, o), o)
      BY <1>2, <2>1, <2>5, SMTT(30) DEF InTransaction
    <3>2. ~AlreadyExists(AfterEffects(d, o), o)
      BY <2>5, <3>1 DEF Fails
    <3>3. NextStep(o, step) = "commit" /\ Written(t, o, step) = WriteKey(AfterEffects(d, o), o)
      BY <1>2, <2>5, <3>1, SMTT(30) DEF NextStep, Written
    <3>4. QED
      BY <1>2, <3>1, <3>2, <3>3 DEF InTransaction
  <2>6. QED
    BY <1>2, <2>1, <2>2, <2>3, <2>4, <2>5, SMTT(30) DEF InTransaction, Steps
<1>3. QED
  BY <1>1, <1>2

(* Tables are not NoTx. *)
LEMMA TablesAreThere ==
    ASSUME NEW d, Sound(d)
    PROVE  d # NoTx /\ IsTables(d)
<1>1. DOMAIN d = TableNames /\ IsTables(d)
  BY DEF Sound, HasTables
<1>2. DOMAIN NoTx = {} /\ "meta" \in TableNames
  BY DEF NoTx, TableNames
<1>3. QED
  BY <1>1, <1>2

-----------------------------------------------------------------------------
LEMMA InitSound == Sound(ensure_tables)
<1> DEFINE d == ensure_tables
<1>1. HasTables(d)
  BY SMTT(30) DEF ensure_tables, HasTables, TableNames
<1>2. /\ DOMAIN d.machines = {} /\ DOMAIN d.entity_states = {} /\ DOMAIN d.transitions = {}
      /\ DOMAIN d.transitions_by_id = {} /\ DOMAIN d.entity_transitions = {}
      /\ DOMAIN d.effects = {} /\ DOMAIN d.effects_by_txn = {} /\ DOMAIN d.idempotency = {}
      /\ d.meta = 0
  BY SMTT(30) DEF ensure_tables, NoRows
<1>3. d.entity_transitions = [k \in {} |-> d.entity_transitions[k]]
  BY SMTT(30) DEF ensure_tables, NoRows
<1> HIDE DEF d
<1>4. IsTables(d)
  BY <1>2, SMTT(30) DEF IsTables, IsTable
<1>5. Numbered(d)
  BY <1>2, SMTT(30) DEF Numbered
<1>6. FoundById(d) /\ FoundByKey(d) /\ OutboxIndexed(d) /\ StatesFiled(d)
  BY <1>2 DEF FoundById, FoundByKey, OutboxIndexed, StatesFiled
<1>7. HistoryKeys(d) = {}
  BY <1>2 DEF HistoryKeys
<1>8. FoundByEntity(d)
  BY <1>2, <1>3, <1>7 DEF FoundByEntity
<1>9. Sound(d)
  BY <1>1, <1>4, <1>5, <1>6, <1>8 DEF Sound
<1>10. QED
  BY <1>9 DEF d

LEMMA InitOK == Init => IInv
<1> SUFFICES ASSUME Init PROVE IInv
  OBVIOUS
<1>1. Sound(db)
  BY InitSound DEF Init
<1>2. None \notin Writers /\ MaxCalls \in Nat
  BY RedbAssumption
<1>3. Busy = {}
  BY DEF Busy, Init
<1>4. TypeOK
  <2>1. /\ IsTables(db) /\ tx = NoTx /\ write_lock = None /\ used \subseteq EffectIds
    BY <1>1 DEF Sound, Init
  <2>2. calls \in 0..MaxCalls
    BY <1>2, SMTT(30) DEF Init
  <2>3. /\ pc \in [Writers -> Steps \cup {"idle", "lock"}]
        /\ \A w \in Writers : pc[w] \notin Steps /\ write_lock # w
    BY <1>2, SMTT(30) DEF Init, Steps
  <2>4. QED
    BY <2>1, <2>2, <2>3 DEF TypeOK
<1>5. DOMAIN db.transitions_by_id = {} /\ DOMAIN db.effects = {} /\ DOMAIN op = Writers
  BY SMTT(30) DEF Init, ensure_tables, NoRows
<1>6. \A w \in Writers : write_lock # w
  BY <1>2 DEF Init
<1>7. QED
  BY <1>1, <1>3, <1>4, <1>5, <1>6 DEF IInv

-----------------------------------------------------------------------------
(* Every call in flight is ready to run. *)
LEMMA BusyIsReady ==
    ASSUME IInv, NEW w \in Writers, pc[w] # "idle"
    PROVE  Ready(op[w]) /\ op[w].method \in Methods
BY DEF IInv, TypeOK, Busy, Ready, CallOK

LEMMA HolderIs ==
    ASSUME IInv, NEW w \in Writers, pc[w] \in Steps
    PROVE  /\ write_lock = w /\ pc[w] # "idle" /\ InTransaction(db, tx, op[w], pc[w])
           /\ \A v \in Writers \ {w} : pc[v] \notin Steps
<1>1. pc[w] # "idle"
  BY SMTT(30) DEF Steps
<1>2. QED
  BY <1>1 DEF IInv, TypeOK

LEMMA CallKeeps ==
    ASSUME IInv, NEW w \in Writers, NEW o \in Calls, Call(w, o)
    PROVE  IInv'
<1>0. /\ calls \in 0..MaxCalls /\ calls \in Nat /\ calls < MaxCalls /\ calls' = calls + 1
      /\ used \subseteq EffectIds
  BY RedbAssumption, SMTT(30) DEF IInv, TypeOK, Call
<1>1. NewCall(o)
  BY <1>0, CallsAreNew
<1>2. used' = used \cup IF EmitsEffects(o) THEN Range(o.effects) ELSE {}
  BY <1>1 DEF Call, NewCall
<1>3. used \subseteq used' /\ used' \subseteq EffectIds
  BY <1>0, <1>1, <1>2 DEF NewCall
<1>4. EmitsEffects(o) => Range(o.effects) \subseteq used' /\ Range(o.effects) \cap used = {}
  BY <1>1, <1>2 DEF NewCall
<1>5. /\ db' = db /\ tx' = tx /\ write_lock' = write_lock
      /\ pc[w] = "idle" /\ "lock" \notin Steps /\ "idle" \notin Steps
      /\ pc \in [Writers -> Steps \cup {"idle", "lock"}]
  BY SMTT(30) DEF Call, IInv, TypeOK, Steps
<1>6. /\ pc' \in [Writers -> Steps \cup {"idle", "lock"}]
      /\ pc'[w] = "lock" /\ \A v \in Writers \ {w} : pc'[v] = pc[v]
  BY <1>5 DEF Call
<1>7. DOMAIN op' = Writers /\ op'[w] = o /\ \A v \in Writers \ {w} : op'[v] = op[v]
  BY DEF Call, IInv
<1>8. 1..calls \subseteq 1..calls' /\ calls + 1 \in 1..calls' /\ calls + 1 \notin 1..calls
      /\ calls' \in 0..MaxCalls
  BY <1>0, RedbAssumption, SMTT(30)
<1>9. TypeOK'
  <2>1. \A v \in Writers : pc'[v] \in Steps <=> write_lock' = v
    BY <1>5, <1>6 DEF IInv, TypeOK
  <2>2. QED
    BY <1>3, <1>5, <1>6, <1>8, <2>1 DEF IInv, TypeOK
<1>10. Sound(db)' /\ (DOMAIN db.transitions_by_id \subseteq 1..calls)' /\ (DOMAIN db.effects \subseteq used)'
  BY <1>3, <1>5, <1>8 DEF IInv
<1>11. \A v \in Writers \ {w} : v \in Busy' => v \in Busy /\ CallOK(op[v])
  BY <1>6 DEF Busy, IInv
<1>12. \A v \in Busy' : CallOK(op[v])'
  <2> SUFFICES ASSUME NEW v \in Busy' PROVE CallOK(op[v])'
    OBVIOUS
  <2>1. v \in Writers
    BY DEF Busy
  <2>2. CASE v # w
    BY <1>3, <1>5, <1>7, <1>8, <1>11, <2>1, <2>2 DEF CallOK
  <2>3. CASE v = w
    <3>1. calls + 1 \notin DOMAIN db.transitions_by_id /\ DOMAIN db.effects \subseteq used
      BY <1>8 DEF IInv
    <3>2. QED
      BY <1>1, <1>4, <1>5, <1>7, <1>8, <2>3, <3>1 DEF CallOK, NewCall
  <2>4. QED
    BY <2>2, <2>3
<1>13. \A u, v \in Busy' : u # v => Distinct(op[u], op[v])'
  <2>1. \A v \in Writers \ {w} : v \in Busy' => Distinct(op[v], o) /\ Distinct(o, op[v])
    BY <1>1, <1>4, <1>8, <1>11 DEF Distinct, NewCall, CallOK
  <2>2. \A u, v \in Writers \ {w} : u \in Busy' /\ v \in Busy' /\ u # v => Distinct(op[u], op[v])
    BY <1>11 DEF IInv
  <2>3. Busy' \subseteq Writers
    BY DEF Busy
  <2>4. \A u, v \in Busy' : u # v => Distinct(op'[u], op'[v])
    BY <1>7, <2>1, <2>2, <2>3
  <2>5. QED
    BY <2>4 DEF Distinct, Logs, EmitsEffects
<1>14. \A v \in Writers : write_lock' = v => InTransaction(db', tx', op'[v], pc'[v])
  <2>1. write_lock # w
    BY <1>5 DEF IInv, TypeOK
  <2>2. QED
    BY <1>5, <1>6, <1>7, <2>1 DEF IInv
<1>15. QED
  BY <1>7, <1>9, <1>10, <1>12, <1>13, <1>14 DEF IInv

(* A step inside a transaction leaves the tables, the calls and the uuids  *)
(* alone.                                                                  *)
LEMMA InsideKeeps ==
    ASSUME IInv, NEW w \in Writers, pc[w] # "idle",
           UNCHANGED <<db, op, calls, used>>, write_lock' = w,
           \A v \in Writers \ {w} : pc[v] \notin Steps,
           NEW step \in Steps, pc' = [pc EXCEPT ![w] = step],
           InTransaction(db, tx', op[w], step)
    PROVE  IInv'
<1>1. /\ "idle" \notin Steps /\ w # None /\ None \notin Writers
      /\ pc \in [Writers -> Steps \cup {"idle", "lock"}]
  BY RedbAssumption, SMTT(30) DEF IInv, TypeOK, Steps
<1>2. /\ pc' \in [Writers -> Steps \cup {"idle", "lock"}]
      /\ pc'[w] = step /\ \A v \in Writers \ {w} : pc'[v] = pc[v]
  BY <1>1
<1>3. Sound(tx')
  BY BusyIsReady, TransactionSound
<1>4. tx' # NoTx /\ IsTables(tx')
  BY <1>3, TablesAreThere
<1>5. TypeOK'
  <2>1. \A v \in Writers : pc'[v] \in Steps <=> write_lock' = v
    BY <1>1, <1>2
  <2>2. QED
    BY <1>1, <1>2, <1>4, <2>1 DEF IInv, TypeOK
<1>6. Busy' = Busy
  BY <1>1, <1>2 DEF Busy
<1>7. \A v \in Busy' : CallOK(op[v])'
  BY <1>6 DEF IInv, CallOK
<1>8. \A u, v \in Busy' : u # v => Distinct(op[u], op[v])'
  BY <1>6 DEF IInv, Distinct, Logs, EmitsEffects
<1>9. \A v \in Writers : write_lock' = v => InTransaction(db', tx', op'[v], pc'[v])
  BY <1>2
<1>10. QED
  BY <1>5, <1>7, <1>8, <1>9 DEF IInv

LEMMA BeginKeeps ==
    ASSUME IInv, NEW w \in Writers, Begin(w)
    PROVE  IInv'
<1>1. pc[w] # "idle" /\ op[w].method \in Methods
  <2>1. pc[w] # "idle"
    BY DEF Begin
  <2>2. QED
    BY <2>1, BusyIsReady
<1>2. FirstStep(op[w]) \in Steps
  BY <1>1, FirstIsStep
<1>3. InTransaction(db, tx', op[w], FirstStep(op[w]))
  BY DEF Begin, InTransaction
<1>4. \A v \in Writers : pc[v] \notin Steps
  BY RedbAssumption DEF Begin, IInv, TypeOK
<1>5. /\ UNCHANGED <<db, op, calls, used>> /\ write_lock' = w
      /\ pc' = [pc EXCEPT ![w] = FirstStep(op[w])]
  BY DEF Begin
<1>6. QED
  BY <1>1, <1>2, <1>3, <1>4, <1>5, InsideKeeps

LEMMA WriteKeeps ==
    ASSUME IInv, NEW w \in Writers, Write(w)
    PROVE  IInv'
<1>0. pc[w] \in Steps \ {"commit"}
  BY DEF Write
<1>1. /\ write_lock = w /\ pc[w] # "idle" /\ InTransaction(db, tx, op[w], pc[w])
      /\ \A v \in Writers \ {w} : pc[v] \notin Steps
  BY <1>0, HolderIs
<1>2. op[w].method \in Methods
  BY <1>1, BusyIsReady
<1>3. InTransaction(db, tx', op[w], NextStep(op[w], pc[w]))
  BY <1>0, <1>1, <1>2, WriteAdvances DEF Write
<1>4. NextStep(op[w], pc[w]) \in Steps
  BY NextIsStep
<1>5. /\ UNCHANGED <<db, op, calls, used>> /\ write_lock' = w
      /\ pc' = [pc EXCEPT ![w] = NextStep(op[w], pc[w])]
  BY <1>1 DEF Write
<1>6. QED
  BY <1>1, <1>3, <1>4, <1>5, InsideKeeps

(* A method that returns leaves the other calls what they need. *)
LEMMA ReturnKeeps ==
    ASSUME IInv, NEW w \in Writers, pc[w] \in Steps, Return(w), UNCHANGED <<calls, used>>,
           Sound(db'), DOMAIN db'.transitions_by_id \subseteq 1..calls,
           DOMAIN db'.effects \subseteq used,
           DOMAIN db.transitions_by_id \subseteq DOMAIN db'.transitions_by_id,
           \A v \in Busy \ {w} :
              /\ Logs(op[v]) => op[v].record.id \notin DOMAIN db'.transitions_by_id
              /\ EmitsEffects(op[v]) => Range(op[v].effects) \cap DOMAIN db'.effects = {}
    PROVE  IInv'
<1>1. /\ "idle" \notin Steps /\ None \notin Writers
      /\ pc \in [Writers -> Steps \cup {"idle", "lock"}]
  BY RedbAssumption, SMTT(30) DEF IInv, TypeOK, Steps
<1>2. \A v \in Writers \ {w} : pc[v] \notin Steps
  BY HolderIs
<1>3. /\ pc' \in [Writers -> Steps \cup {"idle", "lock"}]
      /\ pc'[w] = "idle" /\ \A v \in Writers \ {w} : pc'[v] = pc[v]
  BY <1>1 DEF Return
<1>4. DOMAIN op' = Writers /\ \A v \in Writers \ {w} : op'[v] = op[v]
  BY DEF Return, IInv
<1>5. tx' = NoTx /\ write_lock' = None /\ IsTables(db')
  BY TablesAreThere DEF Return
<1>6. TypeOK'
  <2>1. \A v \in Writers : pc'[v] \in Steps <=> write_lock' = v
    BY <1>1, <1>2, <1>3, <1>5
  <2>2. QED
    BY <1>3, <1>5, <2>1 DEF IInv, TypeOK
<1>7. Busy' = Busy \ {w}
  BY <1>3 DEF Busy
<1>8. \A v \in Busy \ {w} : op'[v] = op[v] /\ CallOK(op[v])
  BY <1>4 DEF Busy, IInv
<1>9. \A v \in Busy' : CallOK(op[v])'
  BY <1>7, <1>8 DEF CallOK
<1>10. \A u, v \in Busy' : u # v => Distinct(op'[u], op'[v])
  BY <1>7, <1>8 DEF IInv
<1>11. \A v \in Writers : write_lock' # v
  BY <1>1, <1>5
<1>12. QED
  BY <1>4, <1>6, <1>9, <1>10, <1>11 DEF IInv

LEMMA AbortKeeps ==
    ASSUME IInv, NEW w \in Writers, Abort(w)
    PROVE  IInv'
<1>1. pc[w] \in Steps /\ Return(w) /\ UNCHANGED <<db, calls, used>>
  BY DEF Abort
<1>2. \A v \in Busy \ {w} :
          /\ Logs(op[v]) => op[v].record.id \notin DOMAIN db'.transitions_by_id
          /\ EmitsEffects(op[v]) => Range(op[v].effects) \cap DOMAIN db'.effects = {}
  BY <1>1 DEF IInv, CallOK
<1>3. /\ Sound(db') /\ DOMAIN db'.transitions_by_id \subseteq 1..calls
      /\ DOMAIN db'.effects \subseteq used
  BY <1>1 DEF IInv
<1>4. QED
  BY <1>1, <1>2, <1>3, ReturnKeeps

LEMMA CommitKeeps ==
    ASSUME IInv, NEW w \in Writers, Commit(w)
    PROVE  IInv'
<1>1. pc[w] = "commit" /\ pc[w] \in Steps /\ Return(w) /\ UNCHANGED <<calls, used>> /\ db' = tx
  BY SMTT(30) DEF Commit, Steps
<1>2. pc[w] # "idle" /\ InTransaction(db, db', op[w], "commit")
  BY <1>1, HolderIs
<1>3. Ready(op[w])
  BY <1>2, BusyIsReady
<1>4. Sound(db')
  BY <1>2, <1>3, TransactionSound
<1>5. /\ DOMAIN db.transitions_by_id \subseteq DOMAIN db'.transitions_by_id
      /\ \A id \in DOMAIN db'.transitions_by_id \ DOMAIN db.transitions_by_id :
            Logs(op[w]) /\ id = op[w].record.id
      /\ \A e \in DOMAIN db'.effects \ DOMAIN db.effects :
            EmitsEffects(op[w]) /\ e \in Range(op[w].effects)
  BY <1>2, <1>3, CommitAdds
<1>6. DOMAIN db'.transitions_by_id \subseteq 1..calls /\ DOMAIN db'.effects \subseteq used
  BY <1>3, <1>5, SMTT(30) DEF Ready, CallOK
<1>7. ASSUME NEW v \in Busy \ {w}
      PROVE  /\ Logs(op[v]) => op[v].record.id \notin DOMAIN db'.transitions_by_id
             /\ EmitsEffects(op[v]) => Range(op[v].effects) \cap DOMAIN db'.effects = {}
  <2>1. CallOK(op[v]) /\ Distinct(op[v], op[w])
    BY <1>2 DEF IInv, Busy
  <2>2. QED
    BY <1>5, <2>1 DEF CallOK, Distinct
<1>8. QED
  BY <1>1, <1>4, <1>5, <1>6, <1>7, ReturnKeeps

LEMMA CrashKeeps == IInv /\ Crash => IInv'
<1> SUFFICES ASSUME IInv, Crash PROVE IInv'
  OBVIOUS
<1>1. None \notin Writers /\ Busy' = {}
  BY RedbAssumption DEF Crash, Busy
<1>2. TypeOK'
  <2>1. /\ pc' \in [Writers -> Steps \cup {"idle", "lock"}]
        /\ \A v \in Writers : pc'[v] \notin Steps /\ write_lock' # v
    BY <1>1, SMTT(30) DEF Crash, Steps
  <2>2. QED
    BY <2>1 DEF Crash, IInv, TypeOK
<1>3. \A v \in Writers : write_lock' # v
  BY <1>1 DEF Crash
<1>4. QED
  BY <1>1, <1>2, <1>3 DEF Crash, IInv

(* The inductive invariant always holds: whatever calls overlap, fail or   *)
(* die in a transaction, the committed tables are sound, every call in     *)
(* flight brings ids nobody else has, and the open transaction is a whole  *)
(* number of the holder's steps away from the committed tables.            *)
THEOREM AlwaysSound == Spec => []IInv
<1>1. IInv /\ [Next]_vars => IInv'
  <2> SUFFICES ASSUME IInv, [Next]_vars PROVE IInv'
    OBVIOUS
  <2>1. CASE Crash
    BY <2>1, CrashKeeps
  <2>2. ASSUME NEW w \in Writers, WriterStep(w) PROVE IInv'
    BY <2>2, BeginKeeps, WriteKeeps, AbortKeeps, CommitKeeps DEF WriterStep
  <2>3. ASSUME NEW w \in Writers, NEW o \in Calls, Call(w, o) PROVE IInv'
    BY <2>3, CallKeeps
  <2>4. CASE UNCHANGED vars
    BY <2>4 DEF vars, IInv, TypeOK, CallOK, Busy
  <2>5. QED
    BY <2>1, <2>2, <2>3, <2>4 DEF Next
<1>2. QED
  BY InitOK, <1>1, PTL DEF Spec

-----------------------------------------------------------------------------
(* Tables hold rows of their types, and a transaction is open exactly      *)
(* while a writer holds write_lock.                                        *)
THEOREM AlwaysTyped == Spec => []TypeOK
<1>1. IInv => TypeOK
  BY DEF IInv
<1>2. QED
  BY <1>1, AlwaysSound, PTL

(* next_sequence_in_tx counts inside the transaction: the committed log is *)
(* numbered 1, 2, ... up to the counter.                                   *)
THEOREM LogAlwaysGapFree == Spec => []LogIsGapFree
<1>1. IInv => LogIsGapFree
  BY DEF IInv, Sound, Numbered, LogIsGapFree
<1>2. QED
  BY <1>1, AlwaysSound, PTL

(* The index by entity is the inverse of the log. *)
LEMMA EntityIndexIsInverse ==
    ASSUME NEW d, Sound(d)
    PROVE  d.entity_transitions =
              [k \in {HistoryKey(d.transitions[s].row, s) : s \in DOMAIN d.transitions} |->
                  CHOOSE s \in DOMAIN d.transitions : HistoryKey(d.transitions[s].row, s) = k]
<1> DEFINE S == DOMAIN d.transitions
           H(s) == HistoryKey(d.transitions[s].row, s)
<1>1. /\ d.entity_transitions = [k \in HistoryKeys(d) |-> d.entity_transitions[k]]
      /\ \A s \in S : d.entity_transitions[H(s)] = s
  BY DEF Sound, FoundByEntity
<1>2. HistoryKeys(d) = {H(s) : s \in S}
  BY DEF HistoryKeys
<1> HIDE DEF S, H
<1>3. \A k \in {H(s) : s \in S} : d.entity_transitions[k] = CHOOSE s \in S : H(s) = k
  <2> SUFFICES ASSUME NEW k \in {H(s) : s \in S}
               PROVE  d.entity_transitions[k] = CHOOSE s \in S : H(s) = k
    OBVIOUS
  <2>1. PICK s \in S : k = H(s)
    OBVIOUS
  <2>2. \E t \in S : H(t) = k
    BY <2>1
  <2>3. (CHOOSE t \in S : H(t) = k) \in S /\ H(CHOOSE t \in S : H(t) = k) = k
    BY <2>2
  <2>4. QED
    BY <1>1, <2>3
<1>4. d.entity_transitions = [k \in {H(s) : s \in S} |-> CHOOSE s \in S : H(s) = k]
  BY <1>1, <1>2, <1>3
<1>5. QED
  BY <1>4 DEF S, H

(* A record is found under its id, its entity and its idempotency key, and *)
(* an effect under its transition: the secondary tables are written in the *)
(* transaction of the row they index, and no two keys run together.        *)
THEOREM IndexesAlwaysAgree == Spec => []IndexesAgree
<1>1. IInv => IndexesAgree
  <2> SUFFICES ASSUME Sound(db) PROVE IndexesAgree
    BY DEF IInv
  <2>1. db.entity_transitions =
          [k \in {HistoryKey(db.transitions[s].row, s) : s \in DOMAIN db.transitions} |->
              CHOOSE s \in DOMAIN db.transitions : HistoryKey(db.transitions[s].row, s) = k]
    BY EntityIndexIsInverse
  <2>2. /\ \A s \in DOMAIN db.transitions :
              LET r == db.transitions[s] IN
              r.id \in DOMAIN db.transitions_by_id /\ get_transition(r.id) = r
        /\ \A id \in DOMAIN db.transitions_by_id :
              /\ db.transitions_by_id[id] \in DOMAIN db.transitions
              /\ get_transition(id).id = id
    BY DEF Sound, FoundById, get_transition
  <2>3. QED
    BY <2>1, <2>2 DEF Sound, FoundByKey, OutboxIndexed, IndexesAgree
<1>2. QED
  BY <1>1, AlwaysSound, PTL

-----------------------------------------------------------------------------
(* How the abstract state changes when a table does. *)
Logged(d, n, r) ==
    /\ n.meta = d.meta + 1
    /\ n.transitions = Put(d.transitions, d.meta + 1, [r EXCEPT !.sequence = d.meta + 1])

LEMMA LogGrows ==
    ASSUME NEW d, NEW n, NEW r \in TransitionRecord, Sound(d), Logged(d, n, r)
    PROVE  /\ Len(LogOf(d)) = d.meta /\ DOMAIN LogOf(d) = 1..d.meta
           /\ d.meta + 1 \in DOMAIN LogOf(n) \ DOMAIN LogOf(d)
           /\ LogOf(n)[d.meta + 1] = Bare(r)
           /\ LogOf(n) = Append(LogOf(d), Bare(r))
<1> DEFINE m == d.meta
           rec == [r EXCEPT !.sequence = m + 1]
           B == {Bare(d.transitions[s]) : s \in 1..m} \cup {Bare(r)}
<1>1. m \in Nat /\ DOMAIN d.transitions = 1..m
  BY DEF Sound, Numbered, IsTables
<1>2. Bare(rec) = Bare(r)
  BY SMTT(30) DEF Bare, TransitionRecord
<1>3. n.transitions[m + 1] = rec /\ \A s \in 1..m : n.transitions[s] = d.transitions[s]
  BY <1>1, SMTT(30) DEF Put, Logged
<1>4. LogOf(d) \in Seq(B) /\ Len(LogOf(d)) = m /\ DOMAIN LogOf(d) = 1..m
  BY <1>1, SMTT(30) DEF LogOf
<1>5. \A s \in 1..m : LogOf(d)[s] = Bare(d.transitions[s])
  BY DEF LogOf
<1>6. DOMAIN LogOf(n) = 1..(m + 1) /\ \A s \in 1..(m + 1) : LogOf(n)[s] = Bare(n.transitions[s])
  BY DEF LogOf, Logged
<1>7. m + 1 \in 1..(m + 1) /\ m + 1 \notin 1..m /\ \A s \in 1..(m + 1) : s \in 1..m \/ s = m + 1
  BY <1>1, SMTT(30)
<1>8. \A s \in 1..(m + 1) : LogOf(n)[s] = Append(LogOf(d), Bare(r))[s]
  <2> SUFFICES ASSUME NEW s \in 1..(m + 1) PROVE LogOf(n)[s] = Append(LogOf(d), Bare(r))[s]
    OBVIOUS
  <2>1. CASE s \in 1..m
    <3>1. Append(LogOf(d), Bare(r))[s] = LogOf(d)[s]
      BY <1>1, <1>4, <2>1, SMTT(30)
    <3>2. QED
      BY <1>3, <1>5, <1>6, <2>1, <3>1
  <2>2. CASE s = m + 1
    <3>1. Append(LogOf(d), Bare(r))[m + 1] = Bare(r)
      BY <1>1, <1>4, SMTT(30)
    <3>2. QED
      BY <1>2, <1>3, <1>6, <2>2, <3>1
  <2>3. QED
    BY <1>7, <2>1, <2>2
<1>9. Append(LogOf(d), Bare(r)) \in Seq(B) /\ Len(Append(LogOf(d), Bare(r))) = m + 1
  BY <1>1, <1>4, SMTT(30)
<1>10. LogOf(n) \in Seq(B) /\ Len(LogOf(n)) = m + 1
  <2>1. \A s \in 1..(m + 1) : LogOf(n)[s] \in B
    BY <1>2, <1>3, <1>6, <1>7, SMTT(30)
  <2>2. LogOf(n) = [s \in 1..(m + 1) |-> LogOf(n)[s]]
    BY <1>6 DEF LogOf
  <2> HIDE DEF B
  <2>3. QED
    BY <1>1, <2>1, <2>2, SMTT(30)
<1> HIDE DEF m, rec, B
<1>11. LogOf(n) = Append(LogOf(d), Bare(r))
  BY <1>8, <1>9, <1>10, SMTT(30)
<1>12. QED
  BY <1>2, <1>3, <1>4, <1>6, <1>7, <1>11 DEF m, rec

LEMMA StatesGrow ==
    ASSUME NEW d, NEW n, NEW row \in Rows, NEW version,
           n.entity_states = Put(d.entity_states, StateKey(row), [row |-> row, version |-> version])
    PROVE  /\ StatesOf(n) = Abstract!Set(StatesOf(d), row, version)
           /\ row \in DOMAIN StatesOf(n) /\ StatesOf(n)[row] = version
<1>1. DOMAIN n.entity_states = DOMAIN d.entity_states \cup {StateKey(row)}
  BY DEF Put
<1>2. StoredIn(n) = StoredIn(d) \cup {row}
  BY <1>1, StateKeyInjective DEF StoredIn
<1>3. n.entity_states[StateKey(row)].version = version
  BY SMTT(30) DEF Put
<1>4. \A r \in StoredIn(d) \ {row} :
          n.entity_states[StateKey(r)].version = d.entity_states[StateKey(r)].version
  <2> SUFFICES ASSUME NEW r \in StoredIn(d) \ {row}
               PROVE  n.entity_states[StateKey(r)] = d.entity_states[StateKey(r)]
    OBVIOUS
  <2>1. StateKey(r) \in DOMAIN d.entity_states /\ StateKey(r) # StateKey(row)
    BY StateKeyInjective DEF StoredIn
  <2>2. QED
    BY <2>1 DEF Put
<1>5. DOMAIN StatesOf(n) = StoredIn(n) /\ DOMAIN StatesOf(d) = StoredIn(d)
  BY DEF StatesOf
<1>6. StatesOf(n)[row] = version
  BY <1>2, <1>3 DEF StatesOf
<1>7. \A r \in StoredIn(d) \ {row} : StatesOf(n)[r] = StatesOf(d)[r]
  BY <1>2, <1>4 DEF StatesOf
<1>8. StatesOf(n) = [r \in StoredIn(n) |-> StatesOf(n)[r]]
  BY DEF StatesOf
<1>9. \A r \in StoredIn(n) : StatesOf(n)[r] = IF r = row THEN version ELSE StatesOf(d)[r]
  BY <1>2, <1>6, <1>7
<1>10. StatesOf(n) = [r \in StoredIn(d) \cup {row} |-> IF r = row THEN version ELSE StatesOf(d)[r]]
  BY <1>2, <1>8, <1>9
<1>11. QED
  BY <1>2, <1>5, <1>6, <1>10 DEF Abstract!Set

(* The effects of call o are new and belong to transition t. *)
Emitted(d, n, o, t) ==
    /\ n.effects = WithEffects(d.effects, o) /\ Range(o.effects) \cap DOMAIN d.effects = {}
    /\ \A id \in DOMAIN d.transitions_by_id : n.transitions_by_id[id] = d.transitions_by_id[id]
    /\ n.transitions_by_id[o.record.id] = t

(* The old outbox with what else the new one has, pending for t. *)
WithPending(old, new, t) ==
    [e \in DOMAIN new |->
        IF e \in DOMAIN old THEN old[e] ELSE [transition |-> t, status |-> "Pending"]]

LEMMA OutboxGrows ==
    ASSUME NEW d, NEW n, NEW o, NEW t, Sound(d), Emitted(d, n, o, t)
    PROVE  /\ DOMAIN OutboxOf(n) = DOMAIN OutboxOf(d) \cup Range(o.effects)
           /\ OutboxOf(n) = WithPending(OutboxOf(d), OutboxOf(n), t)
<1>1. /\ DOMAIN OutboxOf(d) = DOMAIN d.effects /\ DOMAIN OutboxOf(n) = DOMAIN n.effects
      /\ DOMAIN n.effects = DOMAIN d.effects \cup Range(o.effects)
  BY DEF OutboxOf, WithEffects, Emitted
<1>2. \A e \in DOMAIN d.effects : n.effects[e] = d.effects[e]
  BY DEF WithEffects, Emitted
<1>3. \A e \in DOMAIN d.effects : d.effects[e].transition \in DOMAIN d.transitions_by_id
  BY DEF Sound, OutboxIndexed
<1>4. \A e \in DOMAIN d.effects : OutboxOf(n)[e] = OutboxOf(d)[e]
  BY <1>1, <1>2, <1>3 DEF OutboxOf, Emitted
<1>5. \A e \in Range(o.effects) : n.effects[e] = NewEffectRow(o, e)
  BY DEF WithEffects, Emitted
<1>6. \A e \in Range(o.effects) :
          n.effects[e].transition = o.record.id /\ n.effects[e].status = "Pending"
  <2>1. \A e : NewEffectRow(o, e).transition = o.record.id /\ NewEffectRow(o, e).status = "Pending"
    BY ONLY SMTT(30) DEF NewEffectRow
  <2>2. QED
    BY <1>5, <2>1
<1>7. \A e \in Range(o.effects) : OutboxOf(n)[e] = [transition |-> t, status |-> "Pending"]
  BY <1>1, <1>6 DEF OutboxOf, Emitted
<1>8. OutboxOf(n) = [e \in DOMAIN OutboxOf(n) |-> OutboxOf(n)[e]]
  BY DEF OutboxOf
<1>9. \A e \in DOMAIN OutboxOf(n) :
          OutboxOf(n)[e] = IF e \in DOMAIN OutboxOf(d) THEN OutboxOf(d)[e]
                           ELSE [transition |-> t, status |-> "Pending"]
  BY <1>1, <1>4, <1>7
<1>10. QED
  BY <1>1, <1>8, <1>9 DEF WithPending

LEMMA OutboxMarked ==
    ASSUME NEW d, NEW n, NEW x \in DOMAIN d.effects, NEW status, Sound(d),
           n.effects = [d.effects EXCEPT ![x].status = status],
           n.transitions_by_id = d.transitions_by_id
    PROVE  OutboxOf(n) = [OutboxOf(d) EXCEPT ![x].status = status]
<1>1. DOMAIN n.effects = DOMAIN d.effects /\ \A e \in DOMAIN d.effects : d.effects[e] \in Effect
  BY DEF Sound, IsTables, IsTable
<1>2. /\ n.effects[x].transition = d.effects[x].transition /\ n.effects[x].status = status
      /\ \A e \in DOMAIN d.effects \ {x} : n.effects[e] = d.effects[e]
  BY <1>1, SMTT(30) DEF Effect
<1>3. /\ DOMAIN OutboxOf(d) = DOMAIN d.effects
      /\ \A e \in DOMAIN d.effects :
            OutboxOf(d)[e] = [transition |-> d.transitions_by_id[d.effects[e].transition],
                              status |-> d.effects[e].status]
  BY DEF OutboxOf
<1>4. /\ OutboxOf(n) = [e \in DOMAIN d.effects |-> OutboxOf(n)[e]]
      /\ \A e \in DOMAIN d.effects :
            OutboxOf(n)[e] = [transition |-> d.transitions_by_id[n.effects[e].transition],
                              status |-> n.effects[e].status]
  BY <1>1 DEF OutboxOf
<1>5. OutboxOf(n)[x] = [OutboxOf(d)[x] EXCEPT !.status = status]
  <2> DEFINE seq == d.transitions_by_id[d.effects[x].transition]
             old == d.effects[x].status
  <2>2. OutboxOf(d)[x] = [transition |-> seq, status |-> old]
    BY <1>3
  <2>3. OutboxOf(n)[x] = [transition |-> seq, status |-> status]
    BY <1>2, <1>4
  <2> HIDE DEF seq, old
  <2>4. QED
    BY ONLY <2>2, <2>3, SMTT(30)
<1>6. ASSUME NEW e \in DOMAIN d.effects, e # x PROVE OutboxOf(n)[e] = OutboxOf(d)[e]
  <2>1. n.effects[e] = d.effects[e]
    BY <1>2, <1>6, Zenon
  <2>2. OutboxOf(d)[e] = [transition |-> d.transitions_by_id[d.effects[e].transition],
                          status |-> d.effects[e].status]
    BY <1>3, Zenon
  <2>3. OutboxOf(n)[e] = [transition |-> d.transitions_by_id[n.effects[e].transition],
                          status |-> n.effects[e].status]
    BY <1>4, Zenon
  <2>4. QED
    BY <2>1, <2>2, <2>3, Zenon
<1>7. QED
  BY <1>3, <1>4, <1>5, <1>6

(* What is read off tables that did not change does not change. *)
LEMMA SameTables ==
    ASSUME NEW d, NEW n
    PROVE  /\ n.meta = d.meta /\ n.transitions = d.transitions => LogOf(n) = LogOf(d)
           /\ n.entity_states = d.entity_states => StatesOf(n) = StatesOf(d)
           /\ n.effects = d.effects /\ n.transitions_by_id = d.transitions_by_id
                => OutboxOf(n) = OutboxOf(d)
BY DEF LogOf, StatesOf, StoredIn, OutboxOf

(* The outbox reads the sequences of old transitions only. *)
LEMMA OutboxOfOldRecords ==
    ASSUME NEW d, NEW n, Sound(d), n.effects = d.effects,
           \A id \in DOMAIN d.transitions_by_id : n.transitions_by_id[id] = d.transitions_by_id[id]
    PROVE  OutboxOf(n) = OutboxOf(d)
<1>1. \A e \in DOMAIN d.effects : d.effects[e].transition \in DOMAIN d.transitions_by_id
  BY DEF Sound, OutboxIndexed
<1>2. \A e \in DOMAIN d.effects :
          n.transitions_by_id[d.effects[e].transition] = d.transitions_by_id[d.effects[e].transition]
  BY <1>1
<1>3. QED
  BY <1>2 DEF OutboxOf

-----------------------------------------------------------------------------
(* The effects a call brought are what is new in the outbox. *)
LEMMA NewInTheOutbox ==
    ASSUME NEW t, NEW new, Abstract!Emits(t, new)
    PROVE  Abstract!Emits(t, Abstract!NewEffects)
<1>1. DOMAIN OutboxOf(db') = DOMAIN OutboxOf(db) \cup Abstract!NewEffects
  BY DEF Abstract!Emits, Abstract!NewEffects
<1>2. QED
  BY <1>1 DEF Abstract!Emits

(* Each call's commit is a step of the abstract store, and that call's. *)
LEMMA ExecuteMaps ==
    ASSUME NEW o, Ready(o), InTransaction(db, db', o, "commit"), o.method = "execute_transition"
    PROVE  Abstract!Next /\ Performs(o)
<1> DEFINE r == o.record
           m == db.meta
<1>1. /\ Sound(db) /\ r \in TransitionRecord /\ r.id \notin DOMAIN db.transitions_by_id
      /\ Range(o.effects) \cap DOMAIN db.effects = {}
  BY DEF Ready, CallOK, Logs, EmitsEffects
<1>2. /\ db' = WriteKey(AfterEffects(db, o), o)
      /\ ~VersionConflict(AfterLog(db, o), o) /\ ~AlreadyExists(AfterEffects(db, o), o)
  BY SMTT(30) DEF InTransaction, FirstStep
<1>3. /\ AfterLog(db, o).entity_states = db.entity_states
      /\ AfterEffects(db, o).idempotency = db.idempotency
      /\ db'.machines = db.machines
      /\ db'.entity_states = Put(db.entity_states, StateKey(r.row),
                                 [row |-> r.row, version |-> r.version])
      /\ db'.transitions = Put(db.transitions, m + 1, [r EXCEPT !.sequence = m + 1])
      /\ db'.transitions_by_id = Put(db.transitions_by_id, r.id, m + 1)
      /\ db'.effects = WithEffects(db.effects, o)
      /\ db'.idempotency = IF r.idempotency_key = None THEN db.idempotency
                           ELSE Put(db.idempotency, r.idempotency_key, m + 1)
      /\ db'.meta = m + 1
  BY <1>2, ExecuteSteps
<1>4. /\ r.row \in Rows /\ r.version \in Nat /\ r.idempotency_key \in Keys \cup {None}
      /\ RowOf(o) = r.row /\ VersionOf(o) = r.version
  BY <1>1, RedbAssumption, SMTT(30) DEF TransitionRecord, RowOf, VersionOf
<1>5. /\ Bare(r).row = r.row /\ Bare(r).version = r.version /\ Bare(r).key = r.idempotency_key
  BY DEF Bare
<1>6. /\ Len(LogOf(db)) = m /\ m + 1 \in DOMAIN LogOf(db') \ DOMAIN LogOf(db)
      /\ LogOf(db')[m + 1] = Bare(r) /\ LogOf(db') = Append(LogOf(db), Bare(r))
  <2>1. Logged(db, db', r)
    BY <1>3 DEF Logged
  <2>2. QED
    BY <1>1, <2>1, LogGrows
<1>7. StatesOf(db') = Abstract!Set(StatesOf(db), r.row, r.version)
  BY <1>3, <1>4, StatesGrow, SMTT(30)
<1>8. r.row \in DOMAIN StatesOf(db) => StatesOf(db)[r.row] + 1 = r.version
  <2> SUFFICES ASSUME r.row \in DOMAIN StatesOf(db) PROVE StatesOf(db)[r.row] + 1 = r.version
    OBVIOUS
  <2>1. StateKey(r.row) \in DOMAIN db.entity_states
    BY DEF StatesOf, StoredIn
  <2>2. StatesOf(db)[r.row] = db.entity_states[StateKey(r.row)].version
    BY DEF StatesOf
  <2>3. db.entity_states[StateKey(r.row)] \in EntityState
    BY <1>1, <2>1 DEF Sound, IsTables, IsTable
  <2>4. db.entity_states[StateKey(r.row)].version = r.version - 1
    BY <1>2, <1>3, <1>4, <2>1 DEF VersionConflict
  <2>5. db.entity_states[StateKey(r.row)].version \in Nat
    BY <2>3, RedbAssumption, SMTT(30) DEF EntityState
  <2>6. QED
    BY <1>4, <2>2, <2>4, <2>5, SMTT(30)
<1>9. Abstract!Emits(m + 1, Range(o.effects))
  <2>1. db'.transitions_by_id[r.id] = m + 1
    BY <1>3 DEF Put
  <2>2. \A id \in DOMAIN db.transitions_by_id : db'.transitions_by_id[id] = db.transitions_by_id[id]
    BY <1>1, <1>3 DEF Put
  <2>3. Emitted(db, db', o, m + 1)
    BY <1>1, <1>3, <2>1, <2>2 DEF Emitted
  <2>4. /\ DOMAIN OutboxOf(db') = DOMAIN OutboxOf(db) \cup Range(o.effects)
        /\ OutboxOf(db') = WithPending(OutboxOf(db), OutboxOf(db'), m + 1)
    <3>1. Sound(db)
      BY <1>1
    <3>2. QED
      BY ONLY <2>3, <3>1, OutboxGrows, ZenonT(60), SMTT(30)
  <2>5. QED
    BY <2>4 DEF Abstract!Emits, WithPending
<1>10. /\ r.idempotency_key \notin DOMAIN db.idempotency
       /\ DOMAIN db'.idempotency = DOMAIN db.idempotency \cup ({r.idempotency_key} \ {None})
  <2>1. r.idempotency_key \notin DOMAIN db.idempotency
    BY <1>2, <1>3 DEF AlreadyExists
  <2>2. DOMAIN db'.idempotency = DOMAIN db.idempotency \cup ({r.idempotency_key} \ {None})
    BY <1>3 DEF Put
  <2>3. QED
    BY <2>1, <2>2
<1>11. ASSUME NEW new, Abstract!Emits(m + 1, new) PROVE Abstract!execute_transition(Bare(r), new)
  BY <1>3, <1>5, <1>6, <1>7, <1>8, <1>10, <1>11 DEF Abstract!execute_transition
<1>12. Abstract!Next
  <2>1. Abstract!execute_transition(Bare(r), Abstract!NewEffects)
    BY <1>9, <1>11, NewInTheOutbox
  <2>2. QED
    BY <1>6, <2>1 DEF Abstract!Next
<1>13. QED
  BY <1>9, <1>11, <1>12 DEF Performs

LEMMA AppendMaps ==
    ASSUME NEW o, Ready(o), InTransaction(db, db', o, "commit"), o.method = "append_transition"
    PROVE  Abstract!Next /\ Performs(o)
<1> DEFINE r == o.record
           m == db.meta
<1>1. /\ Sound(db) /\ HasTables(db) /\ r \in TransitionRecord
      /\ r.id \notin DOMAIN db.transitions_by_id
  BY DEF Ready, CallOK, Logs, Sound
<1>2. db' = WriteRecord(db, r)
  BY SMTT(30) DEF InTransaction, FirstStep, Written
<1>3. /\ db'.transitions = Put(db.transitions, m + 1, [r EXCEPT !.sequence = m + 1])
      /\ db'.transitions_by_id = Put(db.transitions_by_id, r.id, m + 1)
      /\ db'.meta = m + 1 /\ db'.machines = db.machines /\ db'.effects = db.effects
      /\ db'.entity_states = db.entity_states /\ db'.idempotency = db.idempotency
  BY <1>1, <1>2, RecordWritten
<1>4. /\ m + 1 \in DOMAIN LogOf(db') \ DOMAIN LogOf(db)
      /\ LogOf(db')[m + 1] = Bare(r) /\ LogOf(db') = Append(LogOf(db), Bare(r))
  <2>1. Logged(db, db', r)
    BY <1>3 DEF Logged
  <2>2. QED
    BY <1>1, <2>1, LogGrows
<1>5. OutboxOf(db') = OutboxOf(db)
  <2>1. \A id \in DOMAIN db.transitions_by_id : db'.transitions_by_id[id] = db.transitions_by_id[id]
    BY <1>1, <1>3 DEF Put
  <2>2. QED
    BY <1>1, <1>3, <2>1, OutboxOfOldRecords
<1>6. StatesOf(db') = StatesOf(db)
  BY <1>3, SameTables
<1>7. Abstract!append_transition(Bare(r))
  BY <1>3, <1>4, <1>5, <1>6 DEF Abstract!append_transition
<1>8. QED
  BY <1>4, <1>7 DEF Abstract!Next, Performs

LEMMA UpsertMaps ==
    ASSUME NEW o, Ready(o), InTransaction(db, db', o, "commit"), o.method = "upsert_entity_state"
    PROVE  Abstract!Next /\ Performs(o)
<1>1. /\ Sound(db) /\ HasTables(db) /\ o.row \in Rows /\ o.version \in Nat
      /\ RowOf(o) = o.row /\ VersionOf(o) = o.version
  BY RedbAssumption, SMTT(30) DEF Ready, CallOK, Sound, RowOf, VersionOf
<1>2. db' = WriteState(db, o) /\ ~VersionConflict(db, o)
  BY SMTT(30) DEF InTransaction, FirstStep, Written, Fails
<1>3. /\ db'.entity_states = Put(db.entity_states, StateKey(o.row),
                                 [row |-> o.row, version |-> o.version])
      /\ db'.machines = db.machines /\ db'.transitions = db.transitions
      /\ db'.transitions_by_id = db.transitions_by_id /\ db'.effects = db.effects
      /\ db'.idempotency = db.idempotency /\ db'.meta = db.meta
  BY <1>1, <1>2, StateWritten, SMTT(30)
<1>4. /\ StatesOf(db') = Abstract!Set(StatesOf(db), o.row, o.version)
      /\ o.row \in DOMAIN StatesOf(db') /\ StatesOf(db')[o.row] = o.version
  <2>1. o.row \in Rows
    BY <1>1
  <2>2. db'.entity_states = Put(db.entity_states, StateKey(o.row),
                                [row |-> o.row, version |-> o.version])
    BY <1>3
  <2>3. QED
    BY ONLY <2>1, <2>2, StatesGrow, SMTT(30), ZenonT(60)
<1>5. LogOf(db') = LogOf(db) /\ OutboxOf(db') = OutboxOf(db)
  BY <1>3, SameTables
<1>6. o.row \in DOMAIN StatesOf(db) /\ o.version > 1 => StatesOf(db)[o.row] + 1 = o.version
  <2> SUFFICES ASSUME o.row \in DOMAIN StatesOf(db), o.version > 1
               PROVE  StatesOf(db)[o.row] + 1 = o.version
    OBVIOUS
  <2>1. StateKey(o.row) \in DOMAIN db.entity_states
    BY DEF StatesOf, StoredIn
  <2>2. StatesOf(db)[o.row] = db.entity_states[StateKey(o.row)].version
    BY DEF StatesOf
  <2>3. db.entity_states[StateKey(o.row)] \in EntityState
    BY <1>1, <2>1 DEF Sound, IsTables, IsTable
  <2>4. db.entity_states[StateKey(o.row)].version = o.version - 1
    BY <1>1, <1>2, <2>1 DEF VersionConflict
  <2>5. db.entity_states[StateKey(o.row)].version \in Nat
    BY <2>3, RedbAssumption, SMTT(30) DEF EntityState
  <2>6. QED
    BY <1>1, <2>2, <2>4, <2>5, SMTT(30)
<1>7. Abstract!upsert_entity_state(o.row, o.version)
  BY <1>3, <1>4, <1>5, <1>6 DEF Abstract!upsert_entity_state
<1>8. QED
  BY <1>4, <1>7 DEF Abstract!Next, Performs

LEMMA InsertMaps ==
    ASSUME NEW o, Ready(o), InTransaction(db, db', o, "commit"), o.method = "insert_effects"
    PROVE  Abstract!Next /\ Performs(o)
<1> DEFINE t == db.transitions_by_id[o.record.id]
<1>1. /\ Sound(db) /\ HasTables(db) /\ o.record.id \in DOMAIN db.transitions_by_id
      /\ Range(o.effects) \cap DOMAIN db.effects = {}
  BY DEF Ready, CallOK, Sound, EmitsEffects
<1>2. db' = WriteEffects(db, o)
  BY SMTT(30) DEF InTransaction, FirstStep, Written
<1>3. /\ db'.effects = WithEffects(db.effects, o)
      /\ db'.machines = db.machines /\ db'.entity_states = db.entity_states
      /\ db'.transitions = db.transitions /\ db'.transitions_by_id = db.transitions_by_id
      /\ db'.idempotency = db.idempotency /\ db'.meta = db.meta
  BY <1>1, <1>2, EffectsWritten
<1>4. t \in DOMAIN LogOf(db)
  BY <1>1 DEF Sound, FoundById, Numbered, LogOf
<1>5. db'.transitions_by_id[o.record.id] = t
  BY <1>3
<1> HIDE DEF t
<1>6. /\ DOMAIN OutboxOf(db') = DOMAIN OutboxOf(db) \cup Range(o.effects)
      /\ OutboxOf(db') = WithPending(OutboxOf(db), OutboxOf(db'), t)
  <2>1. Emitted(db, db', o, t)
    BY <1>1, <1>3, <1>5 DEF Emitted
  <2>2. QED
    BY <1>1, <2>1, OutboxGrows
<1>7. LogOf(db') = LogOf(db) /\ StatesOf(db') = StatesOf(db)
  BY <1>3, SameTables
<1>8. Abstract!Emits(t, Range(o.effects))
  BY <1>6 DEF Abstract!Emits, WithPending
<1>9. ASSUME NEW new, Abstract!Emits(t, new) PROVE Abstract!insert_effects(t, new)
  BY <1>3, <1>7, <1>9 DEF Abstract!insert_effects
<1>10. Abstract!Next
  <2>1. Abstract!insert_effects(t, Abstract!NewEffects)
    BY <1>8, <1>9, NewInTheOutbox
  <2>2. QED
    BY <1>4, <2>1 DEF Abstract!Next
<1>11. QED
  BY <1>8, <1>9, <1>10 DEF Performs, t

LEMMA StatusMaps ==
    ASSUME NEW o, Ready(o), InTransaction(db, db', o, "commit"), o.method = "update_effect_status"
    PROVE  Abstract!Next /\ Performs(o)
<1>1. Sound(db) /\ HasTables(db) /\ o.status \in {"Published", "Failed"}
  BY DEF Ready, CallOK, Sound
<1>2. db' = WriteStatus(db, o) /\ o.effect \in DOMAIN db.effects
  BY SMTT(30) DEF InTransaction, FirstStep, Written, Fails, NoSuchEffect
<1>3. /\ db'.effects = [db.effects EXCEPT ![o.effect].status = o.status]
      /\ db'.machines = db.machines /\ db'.entity_states = db.entity_states
      /\ db'.transitions = db.transitions /\ db'.transitions_by_id = db.transitions_by_id
      /\ db'.idempotency = db.idempotency /\ db'.meta = db.meta
  BY <1>1, <1>2, StatusWritten
<1>4. OutboxOf(db') = [OutboxOf(db) EXCEPT ![o.effect].status = o.status]
  BY <1>1, <1>2, <1>3, OutboxMarked, SMTT(30)
<1>5. LogOf(db') = LogOf(db) /\ StatesOf(db') = StatesOf(db)
  BY <1>3, SameTables
<1>6. o.effect \in DOMAIN OutboxOf(db)
  BY <1>2 DEF OutboxOf
<1>7. Abstract!update_effect_status(o.effect, o.status)
  BY <1>3, <1>4, <1>5 DEF Abstract!update_effect_status
<1>8. QED
  BY <1>1, <1>6, <1>7 DEF Abstract!Next, Performs

LEMMA MachineMaps ==
    ASSUME NEW o, Ready(o), InTransaction(db, db', o, "commit"), o.method = "store_machine"
    PROVE  Abstract!Next /\ Performs(o)
<1>1. Sound(db) /\ HasTables(db)
  BY DEF Ready, Sound
<1>2. db' = WriteMachine(db, o)
  BY SMTT(30) DEF InTransaction, FirstStep, Written
<1>3. /\ db'.machines = Put(db.machines, o.machine.name, o.machine)
      /\ db'.effects = db.effects /\ db'.entity_states = db.entity_states
      /\ db'.transitions = db.transitions /\ db'.transitions_by_id = db.transitions_by_id
      /\ db'.idempotency = db.idempotency /\ db'.meta = db.meta
  BY <1>1, <1>2, MachineWritten
<1>4. LogOf(db') = LogOf(db) /\ StatesOf(db') = StatesOf(db) /\ OutboxOf(db') = OutboxOf(db)
  BY <1>3, SameTables
<1>5. o.machine.name \in DOMAIN db'.machines /\ db'.machines[o.machine.name] = o.machine
  BY <1>3 DEF Put
<1>6. db'.machines = Abstract!Set(db.machines, o.machine.name, o.machine)
  BY <1>3 DEF Put, Abstract!Set
<1>7. Abstract!store_machine(o.machine.name, db'.machines[o.machine.name])
  BY <1>3, <1>4, <1>5, <1>6 DEF Abstract!store_machine
<1>8. QED
  BY <1>5, <1>7 DEF Abstract!Next, Performs

(* "Atomically, in a single write transaction": RedbEngine implements the  *)
(* abstract store.  A commit is the whole of the holder's call, that       *)
(* method with those arguments, done to the tables as they are at that     *)
(* moment, and the call returns with it; no other step shows.              *)
THEOREM RedbImplementsStore == Spec => ImplementsStore
<1>1. Init => Abstract!Init
  <2> SUFFICES ASSUME Init PROVE Abstract!Init
    OBVIOUS
  <2>1. /\ db.meta = 0 /\ db.entity_states = NoRows /\ db.effects = NoRows
        /\ db.idempotency = NoRows /\ db.machines = NoRows
    BY SMTT(30) DEF Init, ensure_tables
  <2>2. LogOf(db) = <<>>
    BY <2>1, SMTT(30) DEF LogOf
  <2>3. StatesOf(db) = [r \in {} |-> None]
    BY <2>1 DEF StatesOf, StoredIn, NoRows
  <2>4. OutboxOf(db) = [e \in {} |-> None] /\ DOMAIN db.idempotency = {}
    BY <2>1 DEF OutboxOf, NoRows
  <2>5. db.machines = [n \in {} |-> None]
    BY <2>1 DEF NoRows
  <2>6. QED
    BY <2>2, <2>3, <2>4, <2>5 DEF Abstract!Init
<1>2. ASSUME IInv, NEW w \in Writers, Commit(w)
      PROVE  Abstract!Next /\ Performs(op[w]) /\ Returns(w)
  <2>1. pc[w] = "commit" /\ pc[w] \in Steps /\ db' = tx /\ Return(w)
    BY <1>2, SMTT(30) DEF Commit, Steps
  <2>2. pc[w] # "idle" /\ InTransaction(db, db', op[w], "commit")
    BY <1>2, <2>1, HolderIs
  <2>3. Ready(op[w]) /\ op[w].method \in Methods
    BY <1>2, <2>2, BusyIsReady
  <2>4. Abstract!Next /\ Performs(op[w])
    BY <2>2, <2>3, ExecuteMaps, AppendMaps, UpsertMaps, InsertMaps, StatusMaps, MachineMaps
       DEF Methods
  <2>5. Returns(w)
    BY <1>2, <2>1, <2>2 DEF Returns, Return, IInv, TypeOK
  <2>6. QED
    BY <2>4, <2>5
<1>3. ASSUME [Next]_vars, db' # db PROVE \E w \in Writers : Commit(w)
  BY <1>3 DEF Next, WriterStep, Begin, Write, Abort, Crash, Call, vars
<1>4. IInv /\ [Next]_vars => [Abstract!Next]_(Abstract!vars)
  <2>1. ASSUME db' = db PROVE UNCHANGED Abstract!vars
    BY <2>1 DEF Abstract!vars
  <2>2. QED
    BY <1>2, <1>3, <2>1
<1>5. IInv /\ [Next]_vars => [\E w \in Writers : Returns(w) /\ Performs(op[w])]_db
  BY <1>2, <1>3
<1>6. IInv /\ [Next]_vars => [\A w \in Writers : Commit(w) => Performs(op[w])]_vars
  BY <1>2
<1>7. QED
  BY AlwaysSound, <1>1, <1>4, <1>5, <1>6, PTL DEF Spec, Abstract!Spec, ImplementsStore

-----------------------------------------------------------------------------
(* The sequence numbers of a row's records after a position. *)
Own(r, after) == {s \in DOMAIN db.transitions : s > after /\ db.transitions[s].row = r}

(* What get_history finds by prefix is the row's records in their order.   *)
LEMMA HistoryIsOwn ==
    ASSUME Sound(db), db.meta < Weight[SeqWidth], NEW r \in Rows, NEW after
    PROVE  /\ Own(r, after) \in SUBSET Nat /\ IsFiniteSet(Own(r, after))
           /\ \A limit : get_history(r, limit, after) = Limited(Ascending(Own(r, after)), limit)
<1> DEFINE own == Own(r, after)
           X == db.entity_transitions
           prefix == entity_transition_prefix(r[1], r[2])
           K == {k \in DOMAIN X : starts_with(k, prefix) /\ X[k] > after}
           h == [s \in own |-> HistoryKey(r, s)]
           found == [n \in DOMAIN InOrder(K) |-> X[InOrder(K)[n]]]
<1>1. /\ db.meta \in Nat /\ DOMAIN db.transitions = 1..db.meta
      /\ \A s \in DOMAIN db.transitions :
            s \in Nat /\ s < Weight[SeqWidth] /\ db.transitions[s].row \in Rows
  BY SequencesFit, Zenon
<1>2. own \in SUBSET Nat /\ IsFiniteSet(own)
  <2>1. IsFiniteSet(1..db.meta) /\ own \subseteq 1..db.meta
    <3>1. 1 \in Int /\ db.meta \in Int
      BY <1>1, SMTT(30)
    <3>2. QED
      BY <1>1, <3>1, FS_Interval, Zenon DEF Own
  <2>2. QED
    BY <1>1, <2>1, FS_Subset, Zenon
<1>3. /\ \A k : k \in DOMAIN X <=> \E s \in DOMAIN db.transitions : k = HistoryKey(db.transitions[s].row, s)
      /\ \A s \in DOMAIN db.transitions : X[HistoryKey(db.transitions[s].row, s)] = s
  <2>1. FoundByEntity(db)
    BY Zenon DEF Sound
  <2>2. DOMAIN X = HistoryKeys(db)
    BY <2>1, Zenon DEF FoundByEntity
  <2>3. QED
    BY <2>1, <2>2, Zenon DEF FoundByEntity, HistoryKeys
<1>4. \A s \in own : /\ s \in DOMAIN db.transitions /\ db.transitions[s].row = r /\ s > after
                     /\ s \in Nat /\ s < Weight[SeqWidth]
                     /\ h[s] = HistoryKey(r, s) /\ X[h[s]] = s
  BY <1>1, <1>3, Zenon DEF Own
<1> HIDE DEF X
<1>5. \A s \in own : h[s] \in K
  BY <1>3, <1>4, PrefixIdentifies, Zenon
<1>6. \A k \in K : \E s \in own : h[s] = k
  <2> SUFFICES ASSUME NEW k \in K PROVE \E s \in own : h[s] = k
    BY Zenon
  <2>1. PICK s \in DOMAIN db.transitions : k = HistoryKey(db.transitions[s].row, s)
    BY <1>3, Zenon
  <2>2. db.transitions[s].row = r
    BY <1>1, <2>1, PrefixIdentifies, Zenon
  <2>3. s > after
    BY <1>3, <2>1, Zenon
  <2>4. s \in own
    BY <2>2, <2>3, Zenon DEF Own
  <2>5. QED
    BY <1>4, <2>1, <2>2, <2>4, Zenon
<1>7. \A s, t \in own : Before(h[s], h[t]) <=> s < t
  BY <1>4, HistoryKeysOrdered, Zenon
<1>8. h \in [own -> K]
  BY <1>5, Zenon
<1>9. DOMAIN h = own
  OBVIOUS
<1> HIDE DEF h, own, K
<1>10. h \in Bijection(own, K)
  BY <1>4, <1>6, <1>8, <1>9, Zenon DEF Bijection, Injection, Surjection, IsInjective
<1>11. /\ Cardinality(K) = Cardinality(own)
       /\ \A n \in 1..Cardinality(own) : InOrder(K)[n] = h[Ascending(own)[n]]
  BY ONLY <1>2, <1>7, <1>10, SameOrder, SMTT(30), ZenonT(60)
<1>12. Ascending(own) \in [1..Cardinality(own) -> own]
  BY <1>2, AscendingIs, Zenon
<1>13. DOMAIN InOrder(K) = 1..Cardinality(own)
  BY <1>11, Zenon DEF InOrder
<1>14. found = Ascending(own)
  <2>1. \A n \in 1..Cardinality(own) : X[InOrder(K)[n]] = Ascending(own)[n]
    BY <1>4, <1>11, <1>12, Zenon
  <2>2. QED
    BY <1>12, <1>13, <2>1
<1>15. \A limit : get_history(r, limit, after) = Limited(found, limit)
  BY Zenon DEF get_history, K, X
<1>16. QED
  BY <1>2, <1>14, <1>15, Zenon DEF own

(* The counter is within the calls that were made. *)
LEMMA CounterWithin ==
    ASSUME IInv
    PROVE  /\ Sound(db) /\ db.meta \in Nat /\ MaxCalls \in Nat /\ SeqModulus \in Nat
           /\ db.meta <= MaxCalls /\ MaxCalls < SeqModulus /\ db.meta < Weight[SeqWidth]
<1>1. Sound(db) /\ DOMAIN db.transitions_by_id \subseteq 1..calls /\ calls \in 0..MaxCalls
  BY DEF IInv, TypeOK
<1>2. db.meta \in Nat
  BY <1>1 DEF Sound, IsTables
<1>3. MaxCalls \in Nat /\ MaxCalls < SeqModulus /\ SeqModulus <= Weight[SeqWidth] /\ SeqModulus \in Nat
  BY RedbAssumption
<1>4. Weight[SeqWidth] \in Nat
  BY WeightIs, KeyAssumption
<1> DEFINE c == calls + 1
<1>5. c \in Nat /\ c \in 1..c /\ c \notin 1..calls /\ 1..calls \subseteq 1..c
  BY <1>1, <1>3, SMTT(30)
<1> HIDE DEF c
<1>6. db.meta + 1 <= c
  BY <1>1, <1>5, RoomForOne, Zenon
<1>7. QED
  BY <1>1, <1>2, <1>3, <1>4, <1>6, SMTT(30) DEF c

(* The first page of a history and what is read after its last record.     *)
LEMMA PagesJoin ==
    ASSUME IInv, NEW r \in Rows, NEW after \in Nat, NEW n \in Nat, n # 0,
           get_history(r, n, after) # <<>>
    PROVE  LET page == get_history(r, n, after) IN
           page \o get_history(r, None, page[Len(page)]) = Ascending(Own(r, after))
<1> DEFINE own == Own(r, after)
           all == Ascending(own)
           page == get_history(r, n, after)
           m == Len(page)
<1>1. Sound(db) /\ db.meta < Weight[SeqWidth]
  BY CounterWithin, Zenon
<1>2. own \in SUBSET Nat /\ IsFiniteSet(own) /\ page = Limited(all, n)
  BY <1>1, HistoryIsOwn, Zenon
<1>3. /\ Cardinality(own) \in Nat /\ all \in [1..Cardinality(own) -> own]
      /\ all \in Seq(Nat) /\ Len(all) = Cardinality(own)
  BY <1>2, AscendingIs, Zenon
<1> HIDE DEF own, all, page
<1>4. m \in 1..Len(all) /\ page = SubSeq(all, 1, m) /\ page[m] = all[m]
  <2>1. CASE page = all
    <3>1. all # <<>>
      BY <2>1, Zenon DEF page
    <3>2. QED
      BY <1>3, <2>1, <3>1, SMTT(30)
  <2>2. CASE page # all
    <3>1. page = SubSeq(all, 1, n) /\ ~(n >= Len(all))
      BY <1>2, <2>2, Zenon DEF Limited
    <3>2. QED
      BY <1>3, <3>1, SMTT(30)
  <2>3. QED
    BY <2>1, <2>2
<1> DEFINE x == all[m]
           G == {s \in own : s > x}
<1>5. SubSeq(all, 1, m) \o Ascending(G) = all
  BY <1>2, <1>3, <1>4, GreaterFollow, Zenon DEF all
<1>6. x \in own /\ x \in Nat
  BY <1>2, <1>3, <1>4, Zenon
<1>7. G = Own(r, x)
  <2>1. \A s \in Nat : s > x /\ x > after => s > after
    BY <1>6, SMTT(30)
  <2>2. x > after
    BY <1>6, Zenon DEF own, Own
  <2>3. \A s \in Own(r, x) : s \in Nat
    BY <1>1, HistoryIsOwn, Zenon
  <2>4. QED
    BY <2>1, <2>2, <2>3, Zenon DEF own, Own
<1> HIDE DEF m, x
<1>8. get_history(r, None, x) = Ascending(Own(r, x))
  <2>1. get_history(r, None, x) = Limited(Ascending(Own(r, x)), None)
    BY <1>1, HistoryIsOwn, Zenon
  <2>2. QED
    BY <2>1, Zenon DEF Limited
<1>9. page \o get_history(r, None, page[m]) = all
  BY <1>4, <1>5, <1>7, <1>8, Zenon DEF x
<1>10. QED
  BY <1>9, Zenon DEF page, m, all, own

(* The tail of the log, from any position below the largest. *)
LEMMA TailFollows ==
    ASSUME IInv, NEW after \in 0..SeqModulus - 2
    PROVE  get_transitions_after(after, MaxCalls) = Ascending(DOMAIN db.transitions \ 0..after)
<1> DEFINE start == (after + 1) % SeqModulus
           S == {s \in DOMAIN db.transitions : s >= start}
<1>1. /\ Sound(db) /\ db.meta \in Nat /\ MaxCalls \in Nat /\ db.meta <= MaxCalls
      /\ SeqModulus \in Nat /\ db.meta < Weight[SeqWidth]
  BY CounterWithin, Zenon
<1>2. DOMAIN db.transitions = 1..db.meta
  BY <1>1, SequencesFit, Zenon
<1>3. start = after + 1 /\ after \in Nat
  <2>1. after + 1 \in Nat /\ after + 1 < SeqModulus /\ after \in Nat
    BY <1>1, SMTT(30)
  <2>2. \A x, b \in Nat : x < b => x % b = x
    BY SMTT(30)
  <2>3. QED
    BY <1>1, <2>1, <2>2, Zenon
<1> HIDE DEF start
<1>4. \A s \in 1..db.meta : s >= start <=> s \notin 0..after
  BY <1>1, <1>3, SMTT(30)
<1>5. S = DOMAIN db.transitions \ 0..after
  BY <1>2, <1>4, Zenon
<1>6. S \in SUBSET Nat /\ IsFiniteSet(S) /\ Cardinality(S) <= MaxCalls
  <2>1. 1..db.meta \in SUBSET Nat /\ 1 \in Int /\ db.meta \in Int
    BY <1>1, SMTT(30)
  <2>2. /\ IsFiniteSet(1..db.meta)
        /\ Cardinality(1..db.meta) = (IF 1 > db.meta THEN 0 ELSE db.meta - 1 + 1)
    BY <2>1, FS_Interval, Zenon
  <2>3. S \subseteq 1..db.meta
    BY <1>2, Zenon
  <2>4. IsFiniteSet(S) /\ Cardinality(S) <= Cardinality(1..db.meta) /\ Cardinality(S) \in Nat
    BY <2>2, <2>3, FS_Subset, FS_CardinalityType, Zenon
  <2>5. Cardinality(S) <= MaxCalls
    BY <1>1, <2>2, <2>4, SMTT(30)
  <2>6. QED
    BY <2>1, <2>3, <2>4, <2>5, Zenon
<1> HIDE DEF S
<1>7. Len(Ascending(S)) <= MaxCalls /\ Len(Ascending(S)) \in Nat
  BY <1>6, AscendingIs, Zenon
<1>8. MaxCalls >= Len(Ascending(S))
  BY <1>1, <1>7, SMTT(30)
<1>9. get_transitions_after(after, MaxCalls) = Limited(Ascending(S), MaxCalls)
  BY Zenon DEF get_transitions_after, S, start
<1>10. QED
  BY <1>5, <1>8, <1>9, Zenon DEF Limited

(* A state is found under its row's key, and in the list of its machine.   *)
LEMMA StatesFound ==
    ASSUME IInv, NEW k \in DOMAIN db.entity_states
    PROVE  LET state == db.entity_states[k] IN
           /\ k = StateKey(state.row)
           /\ state \in list_entities_in_state(state.row[2], state.version)
<1> DEFINE state == db.entity_states[k]
<1>1. Sound(db)
  BY CounterWithin, Zenon
<1>2. k = StateKey(state.row)
  BY <1>1, Zenon DEF Sound, StatesFiled
<1>3. state.row \in Rows
  <2>1. state \in EntityState
    BY <1>1, Zenon DEF Sound, IsTables, IsTable
  <2>2. \A e \in EntityState : e.row \in Rows
    BY DEF EntityState
  <2>3. QED
    BY <2>1, <2>2, Zenon
<1>4. contains(k, <<NUL>> \o state.row[2])
  BY <1>2, <1>3, KeyContainsMachine, Zenon
<1>5. state \in list_entities_in_state(state.row[2], state.version)
  BY <1>4, Zenon DEF list_entities_in_state
<1>6. QED
  BY <1>2, <1>5, Zenon

(* A history, however it is cut into pages, is the row's part of the log   *)
(* in its order; a state is listed for its machine; the tail follows its   *)
(* position: string keys, prefixes, padding and the limit lose nothing and *)
(* let nothing else in.                                                    *)
THEOREM ReadsAlwaysMatchTheLog == Spec => []ReadsMatchTheLog
<1>1. IInv => ReadsMatchTheLog
  <2> SUFFICES ASSUME IInv PROVE ReadsMatchTheLog
    BY Zenon
  <2>1. ASSUME NEW r \in Rows, NEW after \in 0..db.meta
        PROVE  /\ get_history(r, None, after) = Ascending(Own(r, after))
               /\ \A n \in 1..MaxCalls :
                     LET page == get_history(r, n, after) IN
                     page # <<>> => page \o get_history(r, None, page[Len(page)])
                                        = Ascending(Own(r, after))
    <3>1. Sound(db) /\ db.meta < Weight[SeqWidth] /\ db.meta \in Nat /\ MaxCalls \in Nat
      BY CounterWithin, Zenon
    <3>2. get_history(r, None, after) = Limited(Ascending(Own(r, after)), None)
      BY <3>1, HistoryIsOwn, Zenon
    <3>3. after \in Nat /\ \A n \in 1..MaxCalls : n \in Nat /\ n # 0
      BY <3>1, SMTT(30)
    <3>4. \A n \in 1..MaxCalls :
             LET page == get_history(r, n, after) IN
             page # <<>> => page \o get_history(r, None, page[Len(page)])
                                = Ascending(Own(r, after))
      BY <3>3, PagesJoin, Zenon
    <3>5. QED
      BY <3>2, <3>4, Zenon DEF Limited
  <2>2. QED
    BY <2>1, TailFollows, StatesFound, Zenon DEF ReadsMatchTheLog, Own
<1>2. QED
  BY <1>1, AlwaysSound, PTL

=============================================================================
