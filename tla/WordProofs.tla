------------------------------ MODULE WordProofs ------------------------------
(***************************************************************************)
(* Proofs about words as numbers, for every width: the ALU against          *)
(* arithmetic on integers, the memory and its counters, and the colour      *)
(* machine, whose counter may power up past its end.                        *)
(***************************************************************************)
EXTENDS AluBench, MemoryBus, ColourMachine, WellFoundedInduction, TLAPS

(***************************************************************************)
(* Induction and recursion over the natural numbers, from the principle     *)
(* that a set of natural numbers has a least element.                       *)
(***************************************************************************)
LEMMA Least ==
    ASSUME NEW T \in SUBSET Nat, T # {}
    PROVE  \E n \in T : \A m \in T : n <= m
<1>1. PICK n \in T : \A m \in T : ~(<<m, n>> \in OpToRel(<, Nat))
  BY WFMin, NatLessThanWellFounded
<1>2. \A m \in T : ~(m < n)
  BY <1>1 DEF OpToRel
<1> QED
  BY <1>2

LEMMA SetInduction ==
    ASSUME NEW S, 0 \in S, \A n \in Nat : n \in S => n + 1 \in S
    PROVE  Nat \subseteq S
<1> SUFFICES ASSUME Nat \ S # {}
             PROVE  FALSE
  OBVIOUS
<1>1. PICK n \in Nat \ S : \A m \in Nat \ S : n <= m
  BY Least
<1>2. n - 1 \in Nat /\ n - 1 \in S
  BY <1>1
<1> QED
  BY <1>1, <1>2

\* g follows the recursion up to n.
Follows(g, n, z, h, T) ==
    /\ g \in [0 .. n -> T]
    /\ g[0] = z
    /\ \A i \in 0 .. n - 1 : g[i + 1] = h[i][g[i]]

LEMMA PrimitiveRecursion ==
    ASSUME NEW z \in Nat, NEW h \in [Nat -> [Nat -> Nat]]
    PROVE  \E f \in [Nat -> Nat] : f[0] = z /\ \A n \in Nat : f[n + 1] = h[n][f[n]]
<1> DEFINE T == Nat
<1>0. z \in T /\ h \in [Nat -> [T -> T]]
  OBVIOUS
<1> HIDE DEF T
<1> DEFINE S == {n \in Nat : \E g : Follows(g, n, z, h, T)}
<1>1. 0 \in S
  <2>1. Follows([i \in 0 .. 0 |-> z], 0, z, h, T)
    BY <1>0 DEF Follows
  <2> QED
    BY <2>1
<1>2. ASSUME NEW n \in Nat, n \in S
      PROVE  n + 1 \in S
  <2>1. PICK g : Follows(g, n, z, h, T)
    BY <1>2
  <2> DEFINE k == [i \in 0 .. n + 1 |-> IF i = n + 1 THEN h[n][g[n]] ELSE g[i]]
  <2>2. Follows(k, n + 1, z, h, T)
    <3>1. g[n] \in T /\ h[n][g[n]] \in T
      BY <1>0, <2>1 DEF Follows
    <3>2. k \in [0 .. n + 1 -> T] /\ k[0] = z
      BY <2>1, <3>1 DEF Follows
    <3>3. ASSUME NEW i \in 0 .. n
          PROVE  k[i + 1] = h[i][k[i]]
      <4>1. i \in 0 .. n + 1 /\ i + 1 \in 0 .. n + 1 /\ k[i] = g[i]
        OBVIOUS
      <4>2. CASE i = n
        BY <4>1, <4>2
      <4>3. CASE i # n
        <5>1. i \in 0 .. n - 1 /\ i + 1 # n + 1
          BY <4>3
        <5>2. g[i + 1] = h[i][g[i]]
          BY <2>1, <5>1 DEF Follows
        <5> QED
          BY <4>1, <5>1, <5>2
      <4> QED
        BY <4>2, <4>3
    <3> HIDE DEF k
    <3>4. \A i \in 0 .. (n + 1) - 1 : k[i + 1] = h[i][k[i]]
      BY <3>3
    <3> QED
      BY <3>2, <3>4 DEF Follows
  <2> QED
    BY <2>2
<1>3. \A n \in Nat : \E g : Follows(g, n, z, h, T)
  <2> HIDE DEF S
  <2>1. Nat \subseteq S
    BY <1>1, <1>2, SetInduction
  <2> QED
    BY <2>1 DEF S
<1>4. ASSUME NEW m \in Nat, NEW n \in Nat, m <= n, NEW g, NEW k,
             Follows(g, m, z, h, T), Follows(k, n, z, h, T)
      PROVE  g[m] = k[m]
  <2> DEFINE E == {i \in Nat : i <= m => g[i] = k[i]}
  <2>1. 0 \in E
    BY <1>4 DEF Follows
  <2>2. ASSUME NEW i \in Nat, i \in E, i + 1 <= m
        PROVE  g[i + 1] = k[i + 1]
    <3>1. i \in 0 .. m - 1 /\ i \in 0 .. n - 1 /\ g[i] = k[i]
      BY <1>4, <2>2
    <3>2. g[i + 1] = h[i][g[i]] /\ k[i + 1] = h[i][k[i]]
      BY <1>4, <3>1 DEF Follows
    <3> QED
      BY <3>1, <3>2
  <2>3. ASSUME NEW i \in Nat, i \in E
        PROVE  i + 1 \in E
    <3>1. i + 1 <= m => g[i + 1] = k[i + 1]
      BY <2>2, <2>3
    <3>2. i + 1 \in Nat
      OBVIOUS
    <3> QED
      BY <3>1, <3>2, Zenon
  <2> HIDE DEF E
  <2>4. Nat \subseteq E
    BY <2>1, <2>3, SetInduction
  <2> QED
    BY <2>4 DEF E
<1> DEFINE G(n) == CHOOSE g : Follows(g, n, z, h, T)
           f    == [n \in Nat |-> G(n)[n]]
<1>5. \A n \in Nat : Follows(G(n), n, z, h, T)
  BY <1>3
<1> HIDE DEF G
<1>6. f \in [Nat -> T] /\ f[0] = z
  <2>1. ASSUME NEW n \in Nat
        PROVE  G(n)[n] \in T /\ G(0)[0] = z
    <3>1. Follows(G(n), n, z, h, T) /\ Follows(G(0), 0, z, h, T) /\ n \in 0 .. n
      BY <1>5
    <3> QED
      BY <3>1 DEF Follows
  <2> QED
    BY <2>1
<1>7. ASSUME NEW n \in Nat
      PROVE  f[n + 1] = h[n][f[n]]
  <2>1. Follows(G(n), n, z, h, T) /\ Follows(G(n + 1), n + 1, z, h, T)
    BY <1>5
  <2>2. G(n)[n] = G(n + 1)[n]
    BY <1>4, <2>1
  <2>3. G(n + 1)[n + 1] = h[n][G(n + 1)[n]]
    <3>1. n \in 0 .. (n + 1) - 1
      OBVIOUS
    <3> QED
      BY <2>1, <3>1 DEF Follows
  <2>4. f[n] = G(n)[n] /\ f[n + 1] = G(n + 1)[n + 1]
    OBVIOUS
  <2> HIDE DEF f
  <2> QED
    BY <2>2, <2>3, <2>4
<1> HIDE DEF f
<1> QED
  BY <1>6, <1>7 DEF T

LEMMA Pow2Def ==
    /\ Pow2 \in [Nat -> Nat]
    /\ Pow2[0] = 1
    /\ \A n \in Nat : Pow2[n + 1] = 2 * Pow2[n]
<1> DEFINE h == [n \in Nat |-> [v \in Nat |-> 2 * v]]
<1>0. h \in [Nat -> [Nat -> Nat]] /\ 1 \in Nat
  OBVIOUS
<1> HIDE DEF h
<1>1. PICK f \in [Nat -> Nat] : f[0] = 1 /\ \A n \in Nat : f[n + 1] = h[n][f[n]]
  BY <1>0, PrimitiveRecursion
<1> USE DEF h
<1>2. f = [i \in Nat |-> IF i = 0 THEN 1 ELSE 2 * f[i - 1]]
  <2>1. ASSUME NEW i \in Nat, i # 0
        PROVE  f[i] = 2 * f[i - 1]
    <3>1. i - 1 \in Nat /\ (i - 1) + 1 = i
      BY <2>1
    <3> QED
      BY <1>1, <3>1
  <2> QED
    BY <1>1, <2>1
<1>3. Pow2 = [i \in Nat |-> IF i = 0 THEN 1 ELSE 2 * Pow2[i - 1]]
  BY <1>2, Zenon DEF Pow2
<1>4. Pow2[0] = 1 /\ \A n \in Nat : Pow2[n + 1] = 2 * Pow2[n]
  BY <1>3
<1>5. Pow2 \in [Nat -> Nat]
  <2> DEFINE E == {i \in Nat : Pow2[i] \in Nat}
  <2>1. 0 \in E
    BY <1>4
  <2>2. \A n \in Nat : n \in E => n + 1 \in E
    BY <1>4
  <2> HIDE DEF E
  <2>3. Nat \subseteq E
    BY <2>1, <2>2, SetInduction
  <2> QED
    BY <1>3, <2>3 DEF E
<1> QED
  BY <1>4, <1>5

LEMMA BelowDef ==
    ASSUME NEW w
    PROVE  /\ ValueBelow(w) \in [Nat -> Nat]
           /\ ValueBelow(w)[0] = 0
           /\ \A n \in Nat : ValueBelow(w)[n + 1] = ValueBelow(w)[n] + (IF n \in w THEN Pow2[n] ELSE 0)
<1> DEFINE h == [n \in Nat |-> [v \in Nat |-> v + (IF n \in w THEN Pow2[n] ELSE 0)]]
<1>0. h \in [Nat -> [Nat -> Nat]] /\ 0 \in Nat
  BY Pow2Def
<1> HIDE DEF h
<1>1. PICK f \in [Nat -> Nat] : f[0] = 0 /\ \A n \in Nat : f[n + 1] = h[n][f[n]]
  BY <1>0, PrimitiveRecursion
<1> USE DEF h
<1>2. f = [n \in Nat |-> IF n = 0 THEN 0
                         ELSE f[n - 1] + (IF n - 1 \in w THEN Pow2[n - 1] ELSE 0)]
  <2>1. ASSUME NEW i \in Nat, i # 0
        PROVE  f[i] = f[i - 1] + (IF i - 1 \in w THEN Pow2[i - 1] ELSE 0)
    <3>1. i - 1 \in Nat /\ (i - 1) + 1 = i
      BY <2>1
    <3> QED
      BY <1>1, <3>1
  <2> QED
    BY <1>1, <2>1
<1>3. ValueBelow(w) = [n \in Nat |-> IF n = 0 THEN 0
                         ELSE ValueBelow(w)[n - 1] + (IF n - 1 \in w THEN Pow2[n - 1] ELSE 0)]
  BY <1>2, Zenon DEF ValueBelow
<1>4. /\ ValueBelow(w)[0] = 0
      /\ \A n \in Nat : ValueBelow(w)[n + 1] = ValueBelow(w)[n] + (IF n \in w THEN Pow2[n] ELSE 0)
  BY <1>3
<1>5. ValueBelow(w) \in [Nat -> Nat]
  <2> DEFINE E == {i \in Nat : ValueBelow(w)[i] \in Nat}
  <2>1. 0 \in E
    BY <1>4
  <2>2. ASSUME NEW n \in Nat, n \in E
        PROVE  n + 1 \in E
    <3>1. ValueBelow(w)[n + 1] = ValueBelow(w)[n] + (IF n \in w THEN Pow2[n] ELSE 0)
      BY <1>4
    <3>2. Pow2[n] \in Nat /\ ValueBelow(w)[n] \in Nat
      BY <2>2, Pow2Def
    <3> QED
      BY <3>1, <3>2
  <2> HIDE DEF E
  <2>3. Nat \subseteq E
    BY <2>1, <2>2, SetInduction
  <2> QED
    BY <1>3, <2>3 DEF E
<1> QED
  BY <1>4, <1>5

\* One more bit.
LEMMA BelowNext ==
    ASSUME NEW w, NEW n \in Nat
    PROVE  /\ ValueBelow(w)[n + 1] = ValueBelow(w)[n] + (IF n \in w THEN Pow2[n] ELSE 0)
           /\ ValueBelow(w)[n] \in Nat /\ Pow2[n] \in Nat /\ Pow2[n + 1] = 2 * Pow2[n]
  BY BelowDef, Pow2Def

-----------------------------------------------------------------------------
(***************************************************************************)
(* Powers of two, and the numbers that the low bits of a word stand for.    *)
(***************************************************************************)
LEMMA Pow2Positive == \A n \in Nat : Pow2[n] \in Nat \ {0}
<1> DEFINE E == {n \in Nat : Pow2[n] # 0}
<1>1. 0 \in E /\ \A n \in Nat : n \in E => n + 1 \in E
  BY Pow2Def
<1> HIDE DEF E
<1>2. Nat \subseteq E
  BY <1>1, SetInduction
<1> QED
  BY <1>2, Pow2Def DEF E

LEMMA Pow2Plus ==
    ASSUME NEW m \in Nat, NEW n \in Nat
    PROVE  Pow2[m + n] = Pow2[m] * Pow2[n]
<1> DEFINE E == {k \in Nat : Pow2[m + k] = Pow2[m] * Pow2[k]}
<1>1. 0 \in E
  BY Pow2Def
<1>2. ASSUME NEW k \in Nat, k \in E
      PROVE  k + 1 \in E
  <2>1. m + k \in Nat /\ m + (k + 1) = (m + k) + 1
    OBVIOUS
  <2>2. Pow2[m + (k + 1)] = 2 * Pow2[m + k] /\ Pow2[k + 1] = 2 * Pow2[k]
    BY <2>1, Pow2Def
  <2>3. Pow2[m] \in Nat /\ Pow2[k] \in Nat /\ Pow2[m + k] = Pow2[m] * Pow2[k]
    BY <1>2, Pow2Def
  <2> HIDE DEF E
  <2>4. 2 * (Pow2[m] * Pow2[k]) = Pow2[m] * (2 * Pow2[k])
    BY <2>3
  <2> QED
    BY <2>2, <2>3, <2>4 DEF E
<1> HIDE DEF E
<1>3. Nat \subseteq E
  BY <1>1, <1>2, SetInduction
<1> QED
  BY <1>3 DEF E

LEMMA BelowRange ==
    ASSUME NEW w, NEW n \in Nat
    PROVE  ValueBelow(w)[n] \in 0 .. Pow2[n] - 1
<1> DEFINE E == {k \in Nat : ValueBelow(w)[k] \in 0 .. Pow2[k] - 1}
<1>1. 0 \in E
  BY Pow2Def, BelowDef
<1>2. ASSUME NEW k \in Nat, k \in E
      PROVE  k + 1 \in E
  <2>1. ValueBelow(w)[k + 1] = ValueBelow(w)[k] + (IF k \in w THEN Pow2[k] ELSE 0)
    BY BelowDef
  <2>2. Pow2[k + 1] = 2 * Pow2[k] /\ Pow2[k] \in Nat \ {0} /\ Pow2[k + 1] \in Nat
    BY Pow2Def, Pow2Positive
  <2> QED
    BY <1>2, <2>1, <2>2
<1> HIDE DEF E
<1>3. Nat \subseteq E
  BY <1>1, <1>2, SetInduction
<1> QED
  BY <1>3 DEF E

\* Bits that agree stand for the same number, and no bits for zero.
LEMMA BelowSame ==
    ASSUME NEW v, NEW w, NEW n \in Nat, \A i \in 0 .. n - 1 : i \in v <=> i \in w
    PROVE  ValueBelow(v)[n] = ValueBelow(w)[n]
<1> DEFINE E == {k \in Nat : k <= n => ValueBelow(v)[k] = ValueBelow(w)[k]}
<1>1. 0 \in E
  BY BelowDef
<1>2. ASSUME NEW k \in Nat, k \in E
      PROVE  k + 1 \in E
  <2>1. CASE k + 1 <= n
    <3>1. k \in 0 .. n - 1 /\ k <= n
      BY <2>1
    <3>2. k \in v <=> k \in w
      BY <3>1
    <3>3. ValueBelow(v)[k] = ValueBelow(w)[k]
      BY <1>2, <3>1
    <3>4. /\ ValueBelow(w)[k + 1] = ValueBelow(w)[k] + (IF k \in w THEN Pow2[k] ELSE 0)
          /\ ValueBelow(v)[k + 1] = ValueBelow(v)[k] + (IF k \in v THEN Pow2[k] ELSE 0)
      BY BelowDef
    <3> QED
      BY <3>2, <3>3, <3>4
  <2> QED
    BY <2>1
<1> HIDE DEF E
<1>3. Nat \subseteq E
  BY <1>1, <1>2, SetInduction
<1> QED
  BY <1>3 DEF E

LEMMA BelowZero ==
    ASSUME NEW w, NEW n \in Nat
    PROVE  ValueBelow(w)[n] = 0 <=> \A i \in 0 .. n - 1 : i \notin w
<1> DEFINE E == {k \in Nat : ValueBelow(w)[k] = 0 <=> \A i \in 0 .. k - 1 : i \notin w}
<1>1. 0 \in E
  BY BelowDef
<1>2. ASSUME NEW k \in Nat, k \in E
      PROVE  k + 1 \in E
  <2>1. /\ ValueBelow(w)[k + 1] = ValueBelow(w)[k] + (IF k \in w THEN Pow2[k] ELSE 0)
        /\ ValueBelow(w)[k] \in Nat /\ Pow2[k] \in Nat \ {0}
    BY BelowDef, Pow2Positive
  <2>2. (\A i \in 0 .. (k + 1) - 1 : i \notin w) <=>
            k \notin w /\ \A i \in 0 .. k - 1 : i \notin w
    OBVIOUS
  <2>3. ValueBelow(w)[k] = 0 <=> \A i \in 0 .. k - 1 : i \notin w
    BY <1>2
  <2> HIDE DEF E
  <2>4. ValueBelow(w)[k + 1] = 0 <=> k \notin w /\ ValueBelow(w)[k] = 0
    BY <2>1
  <2> QED
    BY <2>2, <2>3, <2>4 DEF E
<1> HIDE DEF E
<1>3. Nat \subseteq E
  BY <1>1, <1>2, SetInduction
<1> QED
  BY <1>3 DEF E

(***************************************************************************)
(* The bits from s on, moved down by s places, are the quotient by 2^s, and *)
(* the bits below s the remainder.                                          *)
(***************************************************************************)
LEMMA BelowSplit ==
    ASSUME NEW w, NEW v, NEW s \in Nat, NEW n \in Nat,
           \A i \in 0 .. n - 1 : i \in v <=> i + s \in w
    PROVE  ValueBelow(w)[s + n] = ValueBelow(w)[s] + Pow2[s] * ValueBelow(v)[n]
<1> DEFINE E == {k \in Nat : k <= n =>
                   ValueBelow(w)[s + k] = ValueBelow(w)[s] + Pow2[s] * ValueBelow(v)[k]}
<1>1. 0 \in E
  <2>1. Pow2[s] * 0 = 0 /\ ValueBelow(w)[s] \in Nat /\ s + 0 = s
    BY Pow2Def, BelowDef
  <2> QED
    BY <2>1, BelowDef
<1>2. ASSUME NEW k \in Nat, k \in E, k + 1 <= n
      PROVE  ValueBelow(w)[s + (k + 1)] = ValueBelow(w)[s] + Pow2[s] * ValueBelow(v)[k + 1]
  <2>1. k \in 0 .. n - 1 /\ s + k \in Nat /\ s + (k + 1) = (s + k) + 1 /\ k + s = s + k
    BY <1>2
  <2>2. k \in v <=> s + k \in w
    BY <2>1
  <2>3. ValueBelow(w)[s + k] = ValueBelow(w)[s] + Pow2[s] * ValueBelow(v)[k]
    BY <1>2
  <2> HIDE DEF E
  <2>4. ValueBelow(w)[s + (k + 1)] =
            ValueBelow(w)[s + k] + (IF s + k \in w THEN Pow2[s + k] ELSE 0)
    BY <2>1, BelowDef
  <2>5. ValueBelow(v)[k + 1] = ValueBelow(v)[k] + (IF k \in v THEN Pow2[k] ELSE 0)
    BY BelowDef
  <2>6. /\ Pow2[s] \in Nat /\ Pow2[k] \in Nat /\ Pow2[s + k] = Pow2[s] * Pow2[k]
        /\ ValueBelow(v)[k] \in Nat /\ ValueBelow(w)[s] \in Nat
    <3>1. Pow2[s + k] = Pow2[s] * Pow2[k]
      BY Pow2Plus
    <3> QED
      BY <3>1, BelowNext, BelowDef
  <2>7. CASE k \in v
    <3>1. Pow2[s] * (ValueBelow(v)[k] + Pow2[k]) = Pow2[s] * ValueBelow(v)[k] + Pow2[s] * Pow2[k]
      BY <2>6
    <3>2. Pow2[s] * ValueBelow(v)[k] \in Nat /\ Pow2[s] * Pow2[k] \in Nat
      BY <2>6
    <3> QED
      BY <2>2, <2>3, <2>4, <2>5, <2>6, <2>7, <3>1, <3>2
  <2>8. CASE k \notin v
    BY <2>2, <2>3, <2>4, <2>5, <2>6, <2>8
  <2> QED
    BY <2>7, <2>8
<1>3. \A k \in Nat : k \in E => k + 1 \in E
  BY <1>2
<1> HIDE DEF E
<1>4. Nat \subseteq E
  BY <1>1, <1>3, SetInduction
<1> QED
  BY <1>4 DEF E

LEMMA Divides ==
    ASSUME NEW d \in Nat \ {0}, NEW q \in Int, NEW r \in 0 .. d - 1
    PROVE  (q * d + r) \div d = q /\ (q * d + r) % d = r
  OBVIOUS

LEMMA Greatest ==
    ASSUME NEW n \in Nat, NEW w \in BV(n), w # {}
    PROVE  Max(w) \in w /\ \A i \in w : i <= Max(w)
<1> DEFINE T == {n - 1 - i : i \in w}
<1>1. \A i \in w : i \in 0 .. n - 1
  BY DEF BV, Positions
<1>2. T \in SUBSET Nat /\ T # {}
  BY <1>1
<1>3. PICK t \in T : \A m \in T : t <= m
  <2> HIDE DEF T
  <2> QED
    BY <1>2, Least
<1>4. PICK i \in w : t = n - 1 - i
  BY <1>3
<1>5. \A k \in w : n - 1 - i <= n - 1 - k
  BY <1>3, <1>4
<1>6. \A k \in w : i >= k
  BY <1>1, <1>5
<1>7. Max(w) \in w /\ \A k \in w : Max(w) >= k
  BY <1>6 DEF Max
<1> QED
  BY <1>1, <1>7

\* No bit above the width of a word adds to its value.
LEMMA ValueIsBelow ==
    ASSUME NEW n \in Nat, NEW w \in BV(n)
    PROVE  Value(w) = ValueBelow(w)[n] /\ Value(w) \in 0 .. Pow2[n] - 1
<1>1. \A i \in w : i \in 0 .. n - 1
  BY DEF BV, Positions
<1>2. ASSUME w = {}
      PROVE  Value(w) = ValueBelow(w)[n]
  <2>1. ValueBelow(w)[n] = 0
    BY <1>2, BelowZero
  <2> QED
    BY <1>2, <2>1 DEF Value
<1>3. ASSUME w # {}
      PROVE  Value(w) = ValueBelow(w)[n]
  <2> DEFINE m    == Max(w)
             s    == m + 1
             rest == n - s
             none == {}
  <2>1. m \in w /\ \A i \in w : i <= m
    BY <1>3, Greatest
  <2> HIDE DEF m
  <2>2. s \in Nat /\ rest \in Nat /\ s + rest = n
    BY <1>1, <2>1
  <2>3. Value(w) = ValueBelow(w)[s]
    BY <1>3 DEF Value, m
  <2>4. (\A i : i \notin none) /\ \A i \in 0 .. rest - 1 : i \in none <=> i + s \in w
    BY <1>1, <2>1, <2>2
  <2> HIDE DEF s, rest, none
  <2>5. ValueBelow(w)[s + rest] = ValueBelow(w)[s] + Pow2[s] * ValueBelow(none)[rest]
    BY <2>2, <2>4, BelowSplit
  <2>6. ValueBelow(none)[rest] = 0
    BY <2>2, <2>4, BelowZero
  <2>7. Pow2[s] \in Nat /\ ValueBelow(w)[s] \in Nat
    BY <2>2, BelowNext
  <2> QED
    BY <2>2, <2>3, <2>5, <2>6, <2>7
<1>4. ValueBelow(w)[n] \in 0 .. Pow2[n] - 1
  BY BelowRange
<1> QED
  BY <1>2, <1>3, <1>4

LEMMA ValueZero ==
    ASSUME NEW n \in Nat, NEW w \in BV(n)
    PROVE  Value(w) = 0 <=> w = {}
  BY ValueIsBelow, BelowZero DEF BV, Positions

-----------------------------------------------------------------------------
(***************************************************************************)
(* The operations.  A carry into a position, and the sums below it.         *)
(***************************************************************************)
LEMMA NextCarry ==
    ASSUME NEW u \in SUBSET Nat, NEW v \in SUBSET Nat, NEW k \in Nat
    PROVE  /\ ~Carry(u, v, 0) /\ ~Borrow(u, v, 0)
           /\ Carry(u, v, k + 1) <=>
                 (k \in u /\ k \in v) \/ ((k \in u \/ k \in v) /\ Carry(u, v, k))
           /\ Borrow(u, v, k + 1) <=>
                 (k \in v /\ k \notin u) \/ ((k \in v \/ k \notin u) /\ Borrow(u, v, k))
<1>1. ~Carry(u, v, 0) /\ ~Borrow(u, v, 0)
  BY DEF Carry, Borrow
<1>2. ASSUME Carry(u, v, k + 1)
      PROVE  (k \in u /\ k \in v) \/ ((k \in u \/ k \in v) /\ Carry(u, v, k))
  <2>1. PICK j \in u \cap v : j < k + 1 /\ (j + 1 .. (k + 1) - 1) \subseteq u \cup v
    BY <1>2 DEF Carry
  <2>2. CASE j = k
    BY <2>1, <2>2
  <2>3. CASE j # k
    <3>1. j < k /\ j \in Nat
      BY <2>1, <2>3
    <3>2. k \in u \cup v /\ (j + 1 .. k - 1) \subseteq u \cup v
      BY <2>1, <3>1
    <3> QED
      BY <2>1, <3>1, <3>2 DEF Carry
  <2> QED
    BY <2>2, <2>3
<1>3. ASSUME (k \in u /\ k \in v) \/ ((k \in u \/ k \in v) /\ Carry(u, v, k))
      PROVE  Carry(u, v, k + 1)
  <2>1. CASE k \in u /\ k \in v
    BY <2>1 DEF Carry
  <2>2. CASE (k \in u \/ k \in v) /\ Carry(u, v, k)
    <3>1. PICK j \in u \cap v : j < k /\ (j + 1 .. k - 1) \subseteq u \cup v
      BY <2>2 DEF Carry
    <3>2. j < k + 1 /\ (j + 1 .. (k + 1) - 1) \subseteq u \cup v
      BY <2>2, <3>1
    <3> QED
      BY <3>1, <3>2 DEF Carry
  <2> QED
    BY <1>3, <2>1, <2>2
<1>4. ASSUME Borrow(u, v, k + 1)
      PROVE  (k \in v /\ k \notin u) \/ ((k \in v \/ k \notin u) /\ Borrow(u, v, k))
  <2>1. PICK j \in v \ u : j < k + 1 /\ (j + 1 .. (k + 1) - 1) \cap (u \ v) = {}
    BY <1>4 DEF Borrow
  <2>2. CASE j = k
    BY <2>1, <2>2
  <2>3. CASE j # k
    <3>1. j < k /\ j \in Nat
      BY <2>1, <2>3
    <3>2. k \notin u \ v /\ (j + 1 .. k - 1) \cap (u \ v) = {}
      BY <2>1, <3>1
    <3> QED
      BY <2>1, <3>1, <3>2 DEF Borrow
  <2> QED
    BY <2>2, <2>3
<1>5. ASSUME (k \in v /\ k \notin u) \/ ((k \in v \/ k \notin u) /\ Borrow(u, v, k))
      PROVE  Borrow(u, v, k + 1)
  <2>1. CASE k \in v /\ k \notin u
    BY <2>1 DEF Borrow
  <2>2. CASE (k \in v \/ k \notin u) /\ Borrow(u, v, k)
    <3>1. PICK j \in v \ u : j < k /\ (j + 1 .. k - 1) \cap (u \ v) = {}
      BY <2>2 DEF Borrow
    <3>2. j < k + 1 /\ (j + 1 .. (k + 1) - 1) \cap (u \ v) = {}
      BY <2>2, <3>1
    <3> QED
      BY <3>1, <3>2 DEF Borrow
  <2> QED
    BY <1>5, <2>1, <2>2
<1> QED
  BY <1>1, <1>2, <1>3, <1>4, <1>5

\* Below each position the sum is what it should be, but for the carry into it.
LEMMA SumBelow ==
    ASSUME NEW N \in Nat, NEW u \in BV(N), NEW v \in BV(N), NEW n \in Nat, n <= N
    PROVE  ValueBelow(u)[n] + ValueBelow(v)[n] =
               ValueBelow(Add(N, u, v))[n] + (IF Carry(u, v, n) THEN Pow2[n] ELSE 0)
<1> DEFINE w == Add(N, u, v)
           E == {k \in Nat : k <= N =>
                   ValueBelow(u)[k] + ValueBelow(v)[k] =
                       ValueBelow(w)[k] + (IF Carry(u, v, k) THEN Pow2[k] ELSE 0)}
<1>1. u \in SUBSET Nat /\ v \in SUBSET Nat
  BY DEF BV, Positions
<1>2. 0 \in E
  <2>1. ~Carry(u, v, 0)
    BY <1>1, NextCarry
  <2> QED
    BY <2>1, BelowDef
<1>3. ASSUME NEW k \in Nat, k \in E, k + 1 <= N
      PROVE  ValueBelow(u)[k + 1] + ValueBelow(v)[k + 1] =
                 ValueBelow(w)[k + 1] + (IF Carry(u, v, k + 1) THEN Pow2[k + 1] ELSE 0)
  <2>1. ValueBelow(u)[k] + ValueBelow(v)[k] =
            ValueBelow(w)[k] + (IF Carry(u, v, k) THEN Pow2[k] ELSE 0)
    BY <1>3
  <2>2. Carry(u, v, k + 1) <=>
            (k \in u /\ k \in v) \/ ((k \in u \/ k \in v) /\ Carry(u, v, k))
    BY <1>1, NextCarry
  <2>3. k \in w <=> ~((k \in u <=> k \notin v) <=> Carry(u, v, k))
    <3>1. k \in Positions(N)
      BY <1>3 DEF Positions
    <3>2. k \in Xor(u, v) <=> (k \in u <=> k \notin v)
      BY DEF Xor
    <3> QED
      BY <3>1, <3>2, Zenon DEF Add
  <2> HIDE DEF E, w
  <2>4. /\ ValueBelow(u)[k + 1] = ValueBelow(u)[k] + (IF k \in u THEN Pow2[k] ELSE 0)
        /\ ValueBelow(v)[k + 1] = ValueBelow(v)[k] + (IF k \in v THEN Pow2[k] ELSE 0)
        /\ ValueBelow(w)[k + 1] = ValueBelow(w)[k] + (IF k \in w THEN Pow2[k] ELSE 0)
        /\ ValueBelow(u)[k] \in Nat /\ ValueBelow(v)[k] \in Nat /\ ValueBelow(w)[k] \in Nat
        /\ Pow2[k] \in Nat /\ Pow2[k + 1] = 2 * Pow2[k]
    BY BelowNext
  <2>5. CASE k \in u /\ k \in v
    BY <2>1, <2>2, <2>3, <2>4, <2>5
  <2>6. CASE k \notin u /\ k \notin v
    BY <2>1, <2>2, <2>3, <2>4, <2>6
  <2>7. CASE (k \in u <=> k \notin v)
    BY <2>1, <2>2, <2>3, <2>4, <2>7
  <2> QED
    BY <2>5, <2>6, <2>7
<1>4. \A k \in Nat : k \in E => k + 1 \in E
  BY <1>3
<1> HIDE DEF E
<1>5. Nat \subseteq E
  BY <1>2, <1>4, SetInduction
<1> QED
  BY <1>5 DEF E

LEMMA DifferenceBelow ==
    ASSUME NEW N \in Nat, NEW u \in BV(N), NEW v \in BV(N), NEW n \in Nat, n <= N
    PROVE  ValueBelow(u)[n] + (IF Borrow(u, v, n) THEN Pow2[n] ELSE 0) =
               ValueBelow(Sub(N, u, v))[n] + ValueBelow(v)[n]
<1> DEFINE w == Sub(N, u, v)
           E == {k \in Nat : k <= N =>
                   ValueBelow(u)[k] + (IF Borrow(u, v, k) THEN Pow2[k] ELSE 0) =
                       ValueBelow(w)[k] + ValueBelow(v)[k]}
<1>1. u \in SUBSET Nat /\ v \in SUBSET Nat
  BY DEF BV, Positions
<1>2. 0 \in E
  <2>1. ~Borrow(u, v, 0)
    BY <1>1, NextCarry
  <2> QED
    BY <2>1, BelowDef
<1>3. ASSUME NEW k \in Nat, k \in E, k + 1 <= N
      PROVE  ValueBelow(u)[k + 1] + (IF Borrow(u, v, k + 1) THEN Pow2[k + 1] ELSE 0) =
                 ValueBelow(w)[k + 1] + ValueBelow(v)[k + 1]
  <2>1. ValueBelow(u)[k] + (IF Borrow(u, v, k) THEN Pow2[k] ELSE 0) =
            ValueBelow(w)[k] + ValueBelow(v)[k]
    BY <1>3
  <2>2. Borrow(u, v, k + 1) <=>
            (k \in v /\ k \notin u) \/ ((k \in v \/ k \notin u) /\ Borrow(u, v, k))
    BY <1>1, NextCarry
  <2>3. k \in w <=> ~((k \in u <=> k \notin v) <=> Borrow(u, v, k))
    <3>1. k \in Positions(N)
      BY <1>3 DEF Positions
    <3>2. k \in Xor(u, v) <=> (k \in u <=> k \notin v)
      BY DEF Xor
    <3> QED
      BY <3>1, <3>2, Zenon DEF Sub
  <2> HIDE DEF E, w
  <2>4. /\ ValueBelow(u)[k + 1] = ValueBelow(u)[k] + (IF k \in u THEN Pow2[k] ELSE 0)
        /\ ValueBelow(v)[k + 1] = ValueBelow(v)[k] + (IF k \in v THEN Pow2[k] ELSE 0)
        /\ ValueBelow(w)[k + 1] = ValueBelow(w)[k] + (IF k \in w THEN Pow2[k] ELSE 0)
        /\ ValueBelow(u)[k] \in Nat /\ ValueBelow(v)[k] \in Nat /\ ValueBelow(w)[k] \in Nat
        /\ Pow2[k] \in Nat /\ Pow2[k + 1] = 2 * Pow2[k]
    BY BelowNext
  <2>5. CASE k \in u /\ k \in v
    BY <2>1, <2>2, <2>3, <2>4, <2>5
  <2>6. CASE k \notin u /\ k \notin v
    BY <2>1, <2>2, <2>3, <2>4, <2>6
  <2>7. CASE (k \in u <=> k \notin v)
    BY <2>1, <2>2, <2>3, <2>4, <2>7
  <2> QED
    BY <2>5, <2>6, <2>7
<1>4. \A k \in Nat : k \in E => k + 1 \in E
  BY <1>3
<1> HIDE DEF E
<1>5. Nat \subseteq E
  BY <1>2, <1>4, SetInduction
<1> QED
  BY <1>5 DEF E

LEMMA AddValue ==
    ASSUME NEW N \in Nat, NEW u \in BV(N), NEW v \in BV(N)
    PROVE  Add(N, u, v) \in BV(N) /\ Value(Add(N, u, v)) = (Value(u) + Value(v)) % Pow2[N]
<1> DEFINE w == Add(N, u, v)
           c == IF Carry(u, v, N) THEN 1 ELSE 0
<1>1. w \in BV(N)
  BY DEF Add, BV
<1>2. ValueBelow(u)[N] + ValueBelow(v)[N] =
          ValueBelow(w)[N] + (IF Carry(u, v, N) THEN Pow2[N] ELSE 0)
  BY SumBelow
<1>3. Pow2[N] \in Nat \ {0} /\ c \in Int
  BY Pow2Positive
<1> HIDE DEF w
<1>4. Value(u) + Value(v) = Value(w) + (IF Carry(u, v, N) THEN Pow2[N] ELSE 0)
  BY <1>1, <1>2, ValueIsBelow
<1>5. Value(w) \in 0 .. Pow2[N] - 1
  BY <1>1, ValueIsBelow
<1>6. Value(u) + Value(v) = c * Pow2[N] + Value(w)
  BY <1>3, <1>4, <1>5
<1> HIDE DEF c
<1> QED
  BY <1>1, <1>3, <1>5, <1>6, Divides DEF w

LEMMA SubValue ==
    ASSUME NEW N \in Nat, NEW u \in BV(N), NEW v \in BV(N)
    PROVE  Sub(N, u, v) \in BV(N) /\ Value(Sub(N, u, v)) = (Value(u) - Value(v)) % Pow2[N]
<1> DEFINE w == Sub(N, u, v)
           c == IF Borrow(u, v, N) THEN -1 ELSE 0
<1>1. w \in BV(N)
  BY DEF Sub, BV
<1>2. ValueBelow(u)[N] + (IF Borrow(u, v, N) THEN Pow2[N] ELSE 0) =
          ValueBelow(w)[N] + ValueBelow(v)[N]
  BY DifferenceBelow
<1>3. Pow2[N] \in Nat \ {0} /\ c \in Int
  BY Pow2Positive
<1> HIDE DEF w
<1>4. Value(u) + (IF Borrow(u, v, N) THEN Pow2[N] ELSE 0) = Value(w) + Value(v)
  BY <1>1, <1>2, ValueIsBelow
<1>5. Value(w) \in 0 .. Pow2[N] - 1 /\ Value(u) \in Int /\ Value(v) \in Int
  BY <1>1, ValueIsBelow
<1>6. Value(u) - Value(v) = c * Pow2[N] + Value(w)
  BY <1>3, <1>4, <1>5
<1> HIDE DEF c
<1> QED
  BY <1>1, <1>3, <1>5, <1>6, Divides DEF w

LEMMA BitwiseBelow ==
    ASSUME NEW u, NEW v, NEW n \in Nat
    PROVE  /\ ValueBelow(Xor(u, v))[n] + 2 * ValueBelow(And(u, v))[n] =
                  ValueBelow(u)[n] + ValueBelow(v)[n]
           /\ ValueBelow(Or(u, v))[n] + ValueBelow(And(u, v))[n] =
                  ValueBelow(u)[n] + ValueBelow(v)[n]
<1> DEFINE x == Xor(u, v)
           y == And(u, v)
           z == Or(u, v)
           E == {k \in Nat :
                   /\ ValueBelow(x)[k] + 2 * ValueBelow(y)[k] = ValueBelow(u)[k] + ValueBelow(v)[k]
                   /\ ValueBelow(z)[k] + ValueBelow(y)[k] = ValueBelow(u)[k] + ValueBelow(v)[k]}
<1>1. /\ \A k : k \in x <=> (k \in u <=> k \notin v)
      /\ \A k : k \in y <=> k \in u /\ k \in v
      /\ \A k : k \in z <=> k \in u \/ k \in v
  BY DEF Xor, And, Or
<1> HIDE DEF x, y, z
<1>2. 0 \in E
  <2>1. /\ ValueBelow(x)[0] = 0 /\ ValueBelow(y)[0] = 0 /\ ValueBelow(z)[0] = 0
        /\ ValueBelow(u)[0] = 0 /\ ValueBelow(v)[0] = 0
    BY BelowDef
  <2> QED
    BY <2>1
<1>3. ASSUME NEW k \in Nat, k \in E
      PROVE  k + 1 \in E
  <2>1. \A t : /\ ValueBelow(t)[k + 1] = ValueBelow(t)[k] + (IF k \in t THEN Pow2[k] ELSE 0)
               /\ ValueBelow(t)[k] \in Nat
               /\ Pow2[k] \in Nat
    <3> HIDE DEF E
    <3> QED
      BY BelowNext
  <2>2. CASE k \in u /\ k \in v
    BY <1>1, <1>3, <2>1, <2>2
  <2>3. CASE k \notin u /\ k \notin v
    BY <1>1, <1>3, <2>1, <2>3
  <2>4. CASE k \in u <=> k \notin v
    BY <1>1, <1>3, <2>1, <2>4
  <2> QED
    BY <2>2, <2>3, <2>4
<1> HIDE DEF E
<1>4. Nat \subseteq E
  BY <1>2, <1>3, SetInduction
<1> QED
  BY <1>4 DEF E, x, y, z

\* The order of two numbers is decided by the highest bit in which they differ.
LEMMA BelowOrder ==
    ASSUME NEW u \in SUBSET Nat, NEW v \in SUBSET Nat, NEW n \in Nat
    PROVE  ValueBelow(u)[n] < ValueBelow(v)[n] <=>
               \E i \in 0 .. n - 1 : i \in v \ u /\ \A k \in 0 .. n - 1 : k \in Xor(u, v) => k <= i
<1> DEFINE First(k) == \E i \in 0 .. k - 1 :
                          i \in v \ u /\ \A j \in 0 .. k - 1 : j \in Xor(u, v) => j <= i
           E == {k \in Nat : ValueBelow(u)[k] < ValueBelow(v)[k] <=> First(k)}
<1>1. 0 \in E
  BY BelowDef
<1>2. ASSUME NEW k \in Nat, k \in E
      PROVE  k + 1 \in E
  <2>1. k \in Xor(u, v) <=> (k \in u <=> k \notin v)
    BY DEF Xor
  <2>2. CASE k \in v /\ k \notin u
    <3>1. First(k + 1)
      <4>1. k \in 0 .. (k + 1) - 1 /\ k \in v \ u
        BY <2>2
      <4>2. \A j \in 0 .. (k + 1) - 1 : j <= k
        OBVIOUS
      <4> QED
        BY <4>1, <4>2
    <3>2. ValueBelow(u)[k + 1] < ValueBelow(v)[k + 1]
      <4>1. /\ ValueBelow(u)[k + 1] = ValueBelow(u)[k] + 0
            /\ ValueBelow(v)[k + 1] = ValueBelow(v)[k] + Pow2[k]
            /\ ValueBelow(v)[k] \in Nat /\ ValueBelow(u)[k] \in Nat /\ Pow2[k] \in Nat
        BY <2>2, BelowNext
      <4>2. ValueBelow(u)[k] \in 0 .. Pow2[k] - 1
        BY BelowRange
      <4> QED
        BY <4>1, <4>2
    <3> HIDE DEF First
    <3> QED
      BY <3>1, <3>2
  <2>3. CASE k \in u /\ k \notin v
    <3>1. ~First(k + 1)
      <4>1. k \in 0 .. (k + 1) - 1 /\ k \in Xor(u, v)
        BY <2>1, <2>3
      <4>2. \A i \in 0 .. (k + 1) - 1 : k <= i => i = k
        OBVIOUS
      <4> QED
        BY <2>3, <4>1, <4>2
    <3>2. ~(ValueBelow(u)[k + 1] < ValueBelow(v)[k + 1])
      <4>1. /\ ValueBelow(u)[k + 1] = ValueBelow(u)[k] + Pow2[k]
            /\ ValueBelow(v)[k + 1] = ValueBelow(v)[k] + 0
            /\ ValueBelow(v)[k] \in Nat /\ ValueBelow(u)[k] \in Nat /\ Pow2[k] \in Nat
        BY <2>3, BelowNext
      <4>2. ValueBelow(v)[k] \in 0 .. Pow2[k] - 1
        BY BelowRange
      <4> QED
        BY <4>1, <4>2
    <3> HIDE DEF First
    <3> QED
      BY <3>1, <3>2
  <2>4. CASE k \in u <=> k \in v
    <3>1. First(k + 1) <=> First(k)
      <4>1. \A j : j \in 0 .. (k + 1) - 1 <=> j \in 0 .. k - 1 \/ j = k
        OBVIOUS
      <4> QED
        BY <2>1, <2>4, <4>1
    <3>2. ValueBelow(u)[k + 1] < ValueBelow(v)[k + 1] <=> ValueBelow(u)[k] < ValueBelow(v)[k]
      <4>1. /\ ValueBelow(u)[k + 1] = ValueBelow(u)[k] + (IF k \in u THEN Pow2[k] ELSE 0)
            /\ ValueBelow(v)[k + 1] = ValueBelow(v)[k] + (IF k \in v THEN Pow2[k] ELSE 0)
            /\ ValueBelow(v)[k] \in Nat /\ ValueBelow(u)[k] \in Nat /\ Pow2[k] \in Nat
        BY BelowNext
      <4> QED
        BY <2>4, <4>1
    <3>3. ValueBelow(u)[k] < ValueBelow(v)[k] <=> First(k)
      BY <1>2
    <3> HIDE DEF First
    <3> QED
      BY <3>1, <3>2, <3>3
  <2> QED
    BY <2>2, <2>3, <2>4
<1>3. \A k \in Nat : k \in E => k + 1 \in E
  BY <1>2
<1> HIDE DEF E
<1>4. Nat \subseteq E
  BY <1>1, <1>3, SetInduction
<1> QED
  BY <1>4 DEF E

LEMMA LessIsLess ==
    ASSUME NEW N \in Nat, NEW u \in BV(N), NEW v \in BV(N)
    PROVE  ULess(u, v) <=> Value(u) < Value(v)
<1>1. u \in SUBSET (0 .. N - 1) /\ v \in SUBSET (0 .. N - 1)
  BY DEF BV, Positions
<1>2. ULess(u, v) <=>
          \E i \in 0 .. N - 1 : i \in v \ u /\ \A k \in 0 .. N - 1 : k \in Xor(u, v) => k <= i
  BY <1>1 DEF ULess, Xor
<1>3. ValueBelow(u)[N] < ValueBelow(v)[N] <=>
          \E i \in 0 .. N - 1 : i \in v \ u /\ \A k \in 0 .. N - 1 : k \in Xor(u, v) => k <= i
  BY <1>1, BelowOrder
<1> QED
  BY <1>2, <1>3, ValueIsBelow

\* A run of ones stands for the number before the next power of two.
LEMMA BelowOnes ==
    ASSUME NEW w, NEW n \in Nat, \A i \in 0 .. n - 1 : i \in w
    PROVE  ValueBelow(w)[n] = Pow2[n] - 1
<1> DEFINE E == {k \in Nat : k <= n => ValueBelow(w)[k] = Pow2[k] - 1}
<1>1. 0 \in E
  BY BelowDef, Pow2Def
<1>2. ASSUME NEW k \in Nat, k \in E, k + 1 <= n
      PROVE  ValueBelow(w)[k + 1] = Pow2[k + 1] - 1
  <2>1. k \in w /\ ValueBelow(w)[k] = Pow2[k] - 1
    BY <1>2
  <2> HIDE DEF E
  <2>2. /\ ValueBelow(w)[k + 1] = ValueBelow(w)[k] + (IF k \in w THEN Pow2[k] ELSE 0)
        /\ Pow2[k] \in Nat /\ Pow2[k + 1] = 2 * Pow2[k]
    BY BelowNext
  <2> QED
    BY <2>1, <2>2
<1>3. \A k \in Nat : k \in E => k + 1 \in E
  BY <1>2
<1> HIDE DEF E
<1>4. Nat \subseteq E
  BY <1>1, <1>3, SetInduction
<1> QED
  BY <1>4 DEF E

\* A word is also a word of any greater width.
LEMMA Wider ==
    ASSUME NEW N \in Nat, NEW s \in Nat, NEW w \in BV(N)
    PROVE  w \in BV(s + N) /\ Value(w) = ValueBelow(w)[s + N]
<1>1. w \in BV(s + N) /\ s + N \in Nat
  BY DEF BV, Positions
<1> QED
  BY <1>1, ValueIsBelow

LEMMA SingleBit == Value({}) = 0 /\ Value({0}) = 1
<1>1. {} \in BV(1) /\ {0} \in BV(1)
  BY DEF BV, Positions
<1>2. Value({}) = 0
  BY <1>1, ValueZero
<1>3. Value({0}) = ValueBelow({0})[1]
  BY <1>1, ValueIsBelow
<1> DEFINE w == {0}
<1>4. 0 \in w
  OBVIOUS
<1> HIDE DEF w
<1>5. ValueBelow(w)[0 + 1] = ValueBelow(w)[0] + Pow2[0] /\ ValueBelow(w)[0] = 0 /\ Pow2[0] = 1
  BY <1>4, BelowDef, Pow2Def
<1>6. ValueBelow(w)[1] = 1
  BY <1>5
<1> QED
  BY <1>2, <1>3, <1>6 DEF w

LEMMA ShiftRightValue ==
    ASSUME NEW N \in Nat, NEW s \in Nat, NEW u \in BV(N)
    PROVE  /\ ShiftRight(N, u, s) \in BV(N)
           /\ Value(ShiftRight(N, u, s)) = Value(u) \div Pow2[s]
           /\ ValueBelow(u)[s] = Value(u) % Pow2[s]
<1> DEFINE w == ShiftRight(N, u, s)
<1>1. w \in BV(N) /\ \A i \in 0 .. N - 1 : i \in w <=> i + s \in u
  BY DEF ShiftRight, BV, Positions
<1> HIDE DEF w
<1>2. Value(u) = ValueBelow(u)[s] + Pow2[s] * ValueBelow(w)[N]
  BY <1>1, BelowSplit, Wider
<1>3. ValueBelow(u)[s] \in 0 .. Pow2[s] - 1 /\ Pow2[s] \in Nat \ {0}
  BY BelowRange, Pow2Positive
<1>4. Value(w) = ValueBelow(w)[N] /\ Value(w) \in Int
  BY <1>1, ValueIsBelow
<1>5. Value(u) = Value(w) * Pow2[s] + ValueBelow(u)[s]
  BY <1>2, <1>3, <1>4
<1> QED
  BY <1>1, <1>3, <1>4, <1>5, Divides DEF w

LEMMA ShiftLeftValue ==
    ASSUME NEW N \in Nat, NEW s \in Nat, NEW u \in BV(N)
    PROVE  /\ ShiftLeft(N, u, s) \in BV(N)
           /\ Value(ShiftLeft(N, u, s)) = (Value(u) * Pow2[s]) % Pow2[N]
<1> DEFINE w    == ShiftLeft(N, u, s)
           all  == {i \in Nat : i - s \in u}
           high == {i \in Nat : i + N \in all}
<1>0. \A i \in u : i \in 0 .. N - 1
  BY DEF BV, Positions
<1>1. /\ w \in BV(N)
      /\ \A i \in 0 .. N - 1 : i \in w <=> i \in all
      /\ \A i \in 0 .. s - 1 : i \notin all
      /\ \A i \in 0 .. N - 1 : i \in u <=> i + s \in all
      /\ \A i \in 0 .. s - 1 : i \in high <=> i + N \in all
  <2>1. w \in BV(N) /\ \A i \in 0 .. N - 1 : i \in w <=> i \in all
    BY DEF ShiftLeft, BV, Positions
  <2>2. \A i \in 0 .. s - 1 : i \notin all
    BY <1>0
  <2>3. \A i \in 0 .. N - 1 : i + s \in Nat /\ (i + s) - s = i
    OBVIOUS
  <2>4. \A i \in 0 .. N - 1 : i \in u <=> i + s \in all
    BY <2>3
  <2>5. \A i \in 0 .. s - 1 : i \in high <=> i + N \in all
    OBVIOUS
  <2> QED
    BY <2>1, <2>2, <2>4, <2>5
<1> HIDE DEF w, all, high
<1>2. ValueBelow(all)[s + N] = ValueBelow(all)[s] + Pow2[s] * ValueBelow(u)[N]
  BY <1>1, BelowSplit
<1>3. ValueBelow(all)[s] = 0
  BY <1>1, BelowZero
<1>4. ValueBelow(all)[N + s] = ValueBelow(all)[N] + Pow2[N] * ValueBelow(high)[s]
  BY <1>1, BelowSplit
<1>5. ValueBelow(all)[N] = ValueBelow(w)[N]
  BY <1>1, BelowSame
<1>6. Value(w) = ValueBelow(w)[N] /\ Value(u) = ValueBelow(u)[N]
      /\ Value(w) \in 0 .. Pow2[N] - 1 /\ Value(u) \in Nat
  BY <1>1, ValueIsBelow, Pow2Def
<1>7. Pow2[s] \in Nat /\ Pow2[N] \in Nat \ {0} /\ ValueBelow(high)[s] \in Nat
  BY Pow2Def, Pow2Positive, BelowDef
<1>8. Pow2[s] * Value(u) = Value(w) + Pow2[N] * ValueBelow(high)[s]
  <2>1. s + N = N + s /\ Pow2[s] * Value(u) \in Nat
    BY <1>6, <1>7
  <2> QED
    BY <1>2, <1>3, <1>4, <1>5, <1>6, <2>1
<1>9. Value(u) * Pow2[s] = ValueBelow(high)[s] * Pow2[N] + Value(w)
  BY <1>6, <1>7, <1>8
<1>10. (ValueBelow(high)[s] * Pow2[N] + Value(w)) % Pow2[N] = Value(w)
  <2>1. ValueBelow(high)[s] \in Int
    BY <1>7
  <2> QED
    BY <1>6, <1>7, <2>1, Divides
<1> QED
  BY <1>1, <1>9, <1>10 DEF w

-----------------------------------------------------------------------------
(***************************************************************************)
(* The ALU of any width against the integers.                               *)
(***************************************************************************)
LEMMA SignedRange ==
    ASSUME NEW w \in Word
    PROVE  /\ Value(w) \in 0 .. Modulus - 1
           /\ Modulus \in Nat \ {0}
           /\ Signed(w) = IF XLEN - 1 \in w THEN Value(w) - Modulus ELSE Value(w)
<1>1. XLEN \in Nat
  BY AluAssumption
<1>2. Value(w) \in 0 .. Pow2[XLEN] - 1 /\ Pow2[XLEN] \in Nat \ {0}
  BY <1>1, ValueIsBelow, Pow2Positive DEF Word
<1> QED
  BY <1>2 DEF Signed, Modulus

(***************************************************************************)
(* The word extended with s copies of its sign loses the remainder below    *)
(* 2^s, and what is left is its arithmetic shift.                           *)
(***************************************************************************)
LEMMA ShiftRightArithValue ==
    ASSUME NEW s \in Nat, NEW u \in Word
    PROVE  /\ ShiftRightArith(XLEN, u, s) \in Word
           /\ Signed(ShiftRightArith(XLEN, u, s)) = Signed(u) \div Pow2[s]
<1> DEFINE w    == ShiftRightArith(XLEN, u, s)
           sign == XLEN - 1 \in u
           all  == {i \in Nat : i \in u \/ (i >= XLEN /\ sign)}
           high == {i \in Nat : sign}
           r    == ValueBelow(all)[s]
<1>0. XLEN \in Nat /\ XLEN - 1 \in 0 .. XLEN - 1 /\ \A i \in u : i \in 0 .. XLEN - 1
  BY AluAssumption DEF Word, BV, Positions
<1>1. /\ w \in Word
      /\ \A i \in 0 .. XLEN - 1 : i \in w <=> i + s \in all
      /\ \A i \in 0 .. XLEN - 1 : i \in u <=> i \in all
      /\ \A i \in 0 .. s - 1 : i \in high <=> i + XLEN \in all
  <2>1. w \in Word /\ \A i \in 0 .. XLEN - 1 : i \in w <=> i + s \in all
    BY <1>0 DEF ShiftRightArith, Word, BV, Positions
  <2>2. \A i \in 0 .. XLEN - 1 : i \in u <=> i \in all
    BY <1>0
  <2>3. \A i \in 0 .. s - 1 : i \in high <=> i + XLEN \in all
    BY <1>0
  <2> QED
    BY <2>1, <2>2, <2>3
<1>2. XLEN - 1 \in w <=> sign
  <2>1. XLEN - 1 + s >= XLEN - 1 /\ (XLEN - 1 + s = XLEN - 1 \/ XLEN - 1 + s >= XLEN)
    BY <1>0
  <2>2. XLEN - 1 \in w <=> XLEN - 1 + s \in u \/ (XLEN - 1 + s >= XLEN /\ sign)
    BY <1>0 DEF ShiftRightArith, Positions
  <2>3. XLEN - 1 + s \in u => XLEN - 1 + s = XLEN - 1
    BY <1>0, <2>1
  <2> QED
    BY <2>1, <2>2, <2>3
<1>3. ValueBelow(high)[s] = IF sign THEN Pow2[s] - 1 ELSE 0
  <2>1. CASE sign
    <3>1. \A i \in 0 .. s - 1 : i \in high
      BY <2>1
    <3> HIDE DEF high
    <3> QED
      BY <2>1, <3>1, BelowOnes
  <2>2. CASE ~sign
    <3>1. \A i \in 0 .. s - 1 : i \notin high
      BY <2>2
    <3> HIDE DEF high
    <3> QED
      BY <2>2, <3>1, BelowZero
  <2> QED
    BY <2>1, <2>2
<1>4. /\ Signed(w) = IF sign THEN Value(w) - Modulus ELSE Value(w)
      /\ Signed(u) = IF sign THEN Value(u) - Modulus ELSE Value(u)
      /\ Value(w) \in Int /\ Value(u) \in Int /\ Modulus \in Nat
  BY <1>1, <1>2, SignedRange
<1> HIDE DEF w, all, high, sign
<1>5. ValueBelow(all)[s + XLEN] = r + Pow2[s] * ValueBelow(w)[XLEN]
  BY <1>0, <1>1, BelowSplit
<1>6. ValueBelow(all)[XLEN + s] = ValueBelow(all)[XLEN] + Modulus * ValueBelow(high)[s]
  BY <1>0, <1>1, BelowSplit DEF Modulus
<1>7. ValueBelow(all)[XLEN] = ValueBelow(u)[XLEN]
  BY <1>0, <1>1, BelowSame
<1>8. Value(w) = ValueBelow(w)[XLEN] /\ Value(u) = ValueBelow(u)[XLEN]
  BY <1>0, <1>1, ValueIsBelow DEF Word
<1>9. r \in 0 .. Pow2[s] - 1 /\ Pow2[s] \in Nat \ {0}
  BY BelowRange, Pow2Positive
<1> HIDE DEF r
<1>10. Value(u) + Modulus * ValueBelow(high)[s] = r + Pow2[s] * Value(w)
  <2>1. s + XLEN = XLEN + s
    BY <1>0
  <2> QED
    BY <1>5, <1>6, <1>7, <1>8, <2>1
<1>11. Signed(u) = Signed(w) * Pow2[s] + r
  <2>1. CASE sign
    <3>1. Value(u) + Modulus * (Pow2[s] - 1) = r + Pow2[s] * Value(w)
      BY <1>3, <1>10, <2>1
    <3>2. Modulus * (Pow2[s] - 1) = Modulus * Pow2[s] - Modulus
      BY <1>4, <1>9
    <3>3. (Value(w) - Modulus) * Pow2[s] = Pow2[s] * Value(w) - Modulus * Pow2[s]
      BY <1>4, <1>9
    <3>4. Modulus * Pow2[s] \in Int /\ Pow2[s] * Value(w) \in Int /\ r \in Int
      BY <1>4, <1>9
    <3> QED
      BY <1>4, <2>1, <3>1, <3>2, <3>3, <3>4
  <2>2. CASE ~sign
    <3>1. Modulus * 0 = 0 /\ Pow2[s] * Value(w) = Value(w) * Pow2[s]
      BY <1>4, <1>9
    <3>2. Pow2[s] * Value(w) \in Int /\ r \in Int
      BY <1>4, <1>9
    <3> QED
      BY <1>3, <1>4, <1>10, <2>2, <3>1, <3>2
  <2> QED
    BY <2>1, <2>2
<1>12. Signed(w) \in Int
  BY <1>4
<1> QED
  BY <1>1, <1>9, <1>11, <1>12, Divides DEF w

LEMMA SLessIsLess ==
    ASSUME NEW u \in Word, NEW v \in Word
    PROVE  SLess(XLEN, u, v) <=> Signed(u) < Signed(v)
<1>1. XLEN \in Nat /\ (ULess(u, v) <=> Value(u) < Value(v))
  BY AluAssumption, LessIsLess DEF Word
<1>2. /\ Value(u) \in 0 .. Modulus - 1 /\ Value(v) \in 0 .. Modulus - 1 /\ Modulus \in Nat
      /\ Signed(u) = IF XLEN - 1 \in u THEN Value(u) - Modulus ELSE Value(u)
      /\ Signed(v) = IF XLEN - 1 \in v THEN Value(v) - Modulus ELSE Value(v)
  BY SignedRange
<1>3. SLess(XLEN, u, v) <=> \/ XLEN - 1 \in u /\ XLEN - 1 \notin v
                            \/ (XLEN - 1 \in u <=> XLEN - 1 \in v) /\ Value(u) < Value(v)
  <2>1. XLEN - 1 \notin Xor(u, v) <=> (XLEN - 1 \in u <=> XLEN - 1 \in v)
    BY DEF Xor
  <2> QED
    BY <1>1, <2>1, Zenon DEF SLess
<1> QED
  BY <1>2, <1>3

LEMMA ShamtValue ==
    ASSUME NEW w \in Word
    PROVE  Shamt(w) = Value(w) % Pow2[SHAMT] /\ Shamt(w) \in Nat
<1> DEFINE low == Slice(w, SHAMT - 1, 0)
<1>1. low \in BV(SHAMT) /\ SHAMT \in Nat /\ XLEN \in Nat
      /\ \A i \in 0 .. SHAMT - 1 : i \in low <=> i \in w
  BY AluAssumption DEF Slice, BV, Word, Positions
<1> HIDE DEF low
<1>2. Value(low) = ValueBelow(low)[SHAMT]
  BY <1>1, ValueIsBelow
<1>4. ValueBelow(low)[SHAMT] = ValueBelow(w)[SHAMT]
  BY <1>1, BelowSame
<1>3. ValueBelow(w)[SHAMT] = Value(w) % Pow2[SHAMT] /\ ValueBelow(w)[SHAMT] \in Nat
  BY <1>1, ShiftRightValue, BelowDef DEF Word
<1> QED
  BY <1>2, <1>3, <1>4 DEF Shamt, low

\* What each operation code computes, as a number.
LEMMA ResultValue ==
    ASSUME NEW u \in Word, NEW v \in Word
    PROVE  LET x == Value(u)
               y == Value(v)
               s == Pow2[y % Pow2[SHAMT]]
           IN  /\ Value(result(u, v, ALU_ADD)) = (x + y) % Modulus
               /\ Value(result(u, v, ALU_SUB)) = (x - y) % Modulus
               /\ Value(result(u, v, ALU_XOR)) + 2 * Value(result(u, v, ALU_AND)) = x + y
               /\ Value(result(u, v, ALU_OR)) + Value(result(u, v, ALU_AND)) = x + y
               /\ Value(result(u, v, ALU_SLL)) = (x * s) % Modulus
               /\ Value(result(u, v, ALU_SRL)) = x \div s
               /\ Signed(result(u, v, ALU_SRA)) = Signed(u) \div s
               /\ result(u, v, ALU_SLT) = IF Signed(u) < Signed(v) THEN {0} ELSE {}
               /\ result(u, v, ALU_SLTU) = IF x < y THEN {0} ELSE {}
               /\ result(u, v, ALU_SUB) = {} <=> x = y
<1>0. XLEN \in Nat /\ SHAMT \in Nat
  BY AluAssumption
<1>1. /\ result(u, v, ALU_ADD)  = Add(XLEN, u, v)
      /\ result(u, v, ALU_SUB)  = Sub(XLEN, u, v)
      /\ result(u, v, ALU_AND)  = And(u, v)
      /\ result(u, v, ALU_OR)   = Or(u, v)
      /\ result(u, v, ALU_XOR)  = Xor(u, v)
      /\ result(u, v, ALU_SLL)  = ShiftLeft(XLEN, u, Shamt(v))
      /\ result(u, v, ALU_SRL)  = ShiftRight(XLEN, u, Shamt(v))
      /\ result(u, v, ALU_SRA)  = ShiftRightArith(XLEN, u, Shamt(v))
      /\ result(u, v, ALU_SLT)  = Flag(SLess(XLEN, u, v))
      /\ result(u, v, ALU_SLTU) = Flag(ULess(u, v))
  BY DEF result, ALU_ADD, ALU_SUB, ALU_AND, ALU_OR, ALU_XOR, ALU_SLL, ALU_SRL, ALU_SRA,
         ALU_SLT, ALU_SLTU
<1>2. Modulus = Pow2[XLEN] /\ u \in BV(XLEN) /\ v \in BV(XLEN)
  BY DEF Modulus, Word
<1>3. Shamt(v) = Value(v) % Pow2[SHAMT] /\ Shamt(v) \in Nat
  BY ShamtValue
<1>4. Value(u) \in 0 .. Modulus - 1 /\ Value(v) \in 0 .. Modulus - 1 /\ Modulus \in Nat \ {0}
  BY SignedRange
<1>5. /\ Value(result(u, v, ALU_ADD)) = (Value(u) + Value(v)) % Modulus
      /\ Value(result(u, v, ALU_SUB)) = (Value(u) - Value(v)) % Modulus
      /\ result(u, v, ALU_SUB) \in BV(XLEN)
  BY <1>0, <1>1, <1>2, AddValue, SubValue
<1>6. /\ Value(result(u, v, ALU_XOR)) + 2 * Value(result(u, v, ALU_AND)) = Value(u) + Value(v)
      /\ Value(result(u, v, ALU_OR)) + Value(result(u, v, ALU_AND)) = Value(u) + Value(v)
  <2>1. And(u, v) \in BV(XLEN) /\ Or(u, v) \in BV(XLEN) /\ Xor(u, v) \in BV(XLEN)
    BY <1>2 DEF And, Or, Xor, BV
  <2>2. \A w \in BV(XLEN) : Value(w) = ValueBelow(w)[XLEN]
    BY <1>0, ValueIsBelow
  <2>3. /\ ValueBelow(Xor(u, v))[XLEN] + 2 * ValueBelow(And(u, v))[XLEN] =
               ValueBelow(u)[XLEN] + ValueBelow(v)[XLEN]
        /\ ValueBelow(Or(u, v))[XLEN] + ValueBelow(And(u, v))[XLEN] =
               ValueBelow(u)[XLEN] + ValueBelow(v)[XLEN]
    BY <1>0, BitwiseBelow
  <2> QED
    BY <1>1, <1>2, <2>1, <2>2, <2>3
<1>7. /\ Value(result(u, v, ALU_SLL)) = (Value(u) * Pow2[Shamt(v)]) % Modulus
      /\ Value(result(u, v, ALU_SRL)) = Value(u) \div Pow2[Shamt(v)]
      /\ Signed(result(u, v, ALU_SRA)) = Signed(u) \div Pow2[Shamt(v)]
  <2>1. Value(ShiftLeft(XLEN, u, Shamt(v))) = (Value(u) * Pow2[Shamt(v)]) % Modulus
    BY <1>0, <1>2, <1>3, ShiftLeftValue
  <2>2. Value(ShiftRight(XLEN, u, Shamt(v))) = Value(u) \div Pow2[Shamt(v)]
    BY <1>0, <1>2, <1>3, ShiftRightValue
  <2>3. Signed(ShiftRightArith(XLEN, u, Shamt(v))) = Signed(u) \div Pow2[Shamt(v)]
    BY <1>3, ShiftRightArithValue
  <2> QED
    BY <1>1, <2>1, <2>2, <2>3
<1>8. /\ result(u, v, ALU_SLT) = IF Signed(u) < Signed(v) THEN {0} ELSE {}
      /\ result(u, v, ALU_SLTU) = IF Value(u) < Value(v) THEN {0} ELSE {}
  <2>1. (SLess(XLEN, u, v) <=> Signed(u) < Signed(v)) /\ (ULess(u, v) <=> Value(u) < Value(v))
    BY <1>0, <1>2, SLessIsLess, LessIsLess
  <2> QED
    BY <1>1, <2>1 DEF Flag
<1>9. result(u, v, ALU_SUB) = {} <=> Value(u) = Value(v)
  <2> DEFINE x == Value(u)
             y == Value(v)
             M == Modulus
  <2>1. result(u, v, ALU_SUB) = {} <=> Value(result(u, v, ALU_SUB)) = 0
    BY <1>0, <1>5, ValueZero
  <2>2. x \in 0 .. M - 1 /\ y \in 0 .. M - 1 /\ M \in Nat \ {0}
    BY <1>4
  <2>3. Value(result(u, v, ALU_SUB)) = (x - y) % M
    BY <1>5
  <2> HIDE DEF x, y, M
  <2>4. (x - y) % M = 0 <=> x = y
    <3>1. CASE x >= y
      <4>1. x - y \in 0 .. M - 1 /\ 0 * M + (x - y) = x - y
        BY <2>2, <3>1
      <4>2. (0 * M + (x - y)) % M = x - y
        BY <2>2, <4>1, Divides
      <4> QED
        BY <2>2, <4>1, <4>2
    <3>2. CASE x < y
      <4>1. M + x - y \in 1 .. M - 1 /\ (-1) * M + (M + x - y) = x - y
        BY <2>2, <3>2
      <4>2. ((-1) * M + (M + x - y)) % M = M + x - y
        BY <2>2, <4>1, Divides
      <4> QED
        BY <2>2, <3>2, <4>1, <4>2
    <3> QED
      BY <2>2, <3>1, <3>2
  <2> QED
    BY <2>1, <2>3, <2>4 DEF x, y
<1> QED
  BY <1>3, <1>5, <1>6, <1>7, <1>8, <1>9

\* The inputs of the bench stay words and operation codes.
AluInputs == alu_a \in Word /\ alu_b \in Word /\ alu_op \in AluOp

LEMMA AluInputsHold == AluSpec => []AluInputs
<1>1. AluInit => AluInputs
  BY DEF AluInit, AluInputs, Word, BV, AluOp, ALU_ADD
<1>2. AluInputs /\ [AluNext]_aluVars => AluInputs'
  BY DEF AluInputs, AluNext, DriveA, DriveB, DriveOp, aluVars, Word, BV
<1> QED
  BY <1>1, <1>2, PTL DEF AluSpec

(***************************************************************************)
(* alu.sv:24-33 of any width computes arithmetic on the integers: addition  *)
(* and subtraction modulo 2^XLEN, shifts as multiplication and division by  *)
(* powers of two, comparisons as the signed and the unsigned order, and the *)
(* zero flag after a subtraction as equality.                               *)
(***************************************************************************)
THEOREM AluComputesArithmeticHolds == AluSpec => []AluComputesArithmetic
<1>1. AluInputs => AluComputesArithmetic
  <2> SUFFICES ASSUME AluInputs
               PROVE  AluComputesArithmetic
    OBVIOUS
  <2> DEFINE x == Value(alu_a)
             y == Value(alu_b)
             s == Pow2[y % Pow2[SHAMT]]
             both == Value(result(alu_a, alu_b, ALU_AND))
  <2>1. alu_a \in Word /\ alu_b \in Word
    BY DEF AluInputs
  <2>2. /\ alu_op = ALU_ADD  => Out = (x + y) % Modulus
        /\ alu_op = ALU_SUB  => Out = (x - y) % Modulus
        /\ alu_op = ALU_XOR  => Out + 2 * both = x + y
        /\ alu_op = ALU_OR   => Out + both = x + y
        /\ alu_op = ALU_SLL  => Out = (x * s) % Modulus
        /\ alu_op = ALU_SRL  => Out = x \div s
        /\ alu_op = ALU_SRA  => SignedOut = Signed(alu_a) \div s
    BY <2>1, ResultValue DEF Out, SignedOut
  <2>3. /\ alu_op = ALU_SLT  => result(alu_a, alu_b, alu_op) =
                                    IF Signed(alu_a) < Signed(alu_b) THEN {0} ELSE {}
        /\ alu_op = ALU_SLTU => result(alu_a, alu_b, alu_op) = IF x < y THEN {0} ELSE {}
        /\ alu_op = ALU_SUB  => (result(alu_a, alu_b, alu_op) = {} <=> x = y)
    BY <2>1, ResultValue
  <2>4. /\ alu_op = ALU_SLT  => Out = IF Signed(alu_a) < Signed(alu_b) THEN 1 ELSE 0
        /\ alu_op = ALU_SLTU => Out = IF x < y THEN 1 ELSE 0
        /\ alu_op = ALU_SUB  => (zero_flag(alu_a, alu_b, alu_op) <=> x = y)
        /\ alu_op \in {ALU_SLT, ALU_SLTU} => (zero_flag(alu_a, alu_b, alu_op) <=> Out = 0)
    <3> HIDE DEF x, y
    <3> QED
      BY <2>3, SingleBit DEF Out, zero_flag
  <2> HIDE DEF x, y, s, both
  <2> QED
    BY <2>2, <2>4 DEF AluComputesArithmetic, x, y, s, both
<1> QED
  BY <1>1, AluInputsHold, PTL

-----------------------------------------------------------------------------
(***************************************************************************)
(* The counters of the memory.  A count of clock edges that starts again    *)
(* after Period edges agrees with a prescaler and a timer that never do.    *)
(***************************************************************************)
LEMMA Divided ==
    ASSUME NEW d \in Nat \ {0}, NEW e \in Int
    PROVE  e = (e \div d) * d + (e % d) /\ e % d \in 0 .. d - 1 /\ e \div d \in Int
  OBVIOUS

LEMMA NextModulo ==
    ASSUME NEW m \in Nat \ {0}, NEW e \in Int
    PROVE  (e + 1) % m = ((e % m) + 1) % m
<1> DEFINE q == e \div m
           r == e % m
<1>1. e = q * m + r /\ r \in 0 .. m - 1 /\ q \in Int
  BY Divided
<1> HIDE DEF q, r
<1>2. CASE r = m - 1
  <2>1. e + 1 = (q + 1) * m + 0 /\ q + 1 \in Int /\ 0 \in 0 .. m - 1
    BY <1>1, <1>2
  <2>2. ((q + 1) * m + 0) % m = 0
    BY <2>1, Divides
  <2>3. (1 * m + 0) % m = 0 /\ r + 1 = 1 * m + 0
    BY <1>1, <1>2, <2>1, Divides
  <2> QED
    BY <2>1, <2>2, <2>3 DEF r
<1>3. CASE r # m - 1
  <2>1. e + 1 = q * m + (r + 1) /\ r + 1 \in 0 .. m - 1
    BY <1>1, <1>3
  <2>2. (q * m + (r + 1)) % m = r + 1
    BY <1>1, <2>1, Divides
  <2>3. (0 * m + (r + 1)) % m = r + 1 /\ 0 * m + (r + 1) = r + 1
    BY <1>1, <2>1, Divides
  <2> QED
    BY <2>1, <2>2, <2>3 DEF r
<1> QED
  BY <1>2, <1>3

\* The count starting again is not seen modulo a divisor of the period.
LEMMA NextEdge ==
    ASSUME NEW m \in Nat \ {0}, NEW P \in Nat \ {0}, P % m = 0, NEW e \in 0 .. P - 1
    PROVE  ((e + 1) % P) % m = ((e % m) + 1) % m /\ (e + 1) % P \in 0 .. P - 1
<1>1. (e + 1) % m = ((e % m) + 1) % m
  <2>1. e \in Int
    OBVIOUS
  <2> QED
    BY <2>1, NextModulo
<1>2. CASE e + 1 = P
  <2>1. 1 * P + 0 = P /\ 0 \in 0 .. P - 1 /\ 0 \in 0 .. m - 1
    OBVIOUS
  <2>2. P % P = 0
    BY <2>1, Divides
  <2>3. (0 * m + 0) % m = 0 /\ 0 * m + 0 = 0
    BY <2>1, Divides
  <2> QED
    BY <1>1, <1>2, <2>1, <2>2, <2>3
<1>3. CASE e + 1 # P
  <2>1. e + 1 \in 0 .. P - 1 /\ 0 * P + (e + 1) = e + 1
    BY <1>3
  <2>2. (e + 1) % P = e + 1
    BY <2>1, Divides
  <2> QED
    BY <1>1, <2>1, <2>2
<1> QED
  BY <1>2, <1>3

\* A prescaler of d counts below a timer of m, when e edges become f.
Ticks(d, m, e, f) ==
    IF e % d = d - 1
    THEN f % d = 0 /\ (f \div d) % m = (((e \div d) % m) + 1) % m
    ELSE f % d = (e % d) + 1 /\ (f \div d) % m = (e \div d) % m

LEMMA NextTick ==
    ASSUME NEW d \in Nat \ {0}, NEW m \in Nat \ {0}, NEW P \in Nat \ {0},
           NEW t, t = d * m, P % t = 0, NEW e \in 0 .. P - 1, NEW f, f = (e + 1) % P
    PROVE  Ticks(d, m, e, f)
<1> DEFINE q == e \div d
           r == e % d
           k == P \div t
<1>1. e = q * d + r /\ r \in 0 .. d - 1 /\ q \in Int
  BY Divided
<1>2. P = k * (d * m) /\ k \in Int
  <2>1. t \in Nat \ {0} /\ P % t = 0 /\ P \in Int /\ k = P \div t
    OBVIOUS
  <2> HIDE DEF k
  <2>2. P = (P \div t) * t + (P % t) /\ P \div t \in Int
    BY <2>1, Divided
  <2>3. P = k * t /\ k \in Int
    BY <2>1, <2>2
  <2> QED
    BY <2>3
<1>3. (q + 1) % m = ((q % m) + 1) % m
  BY <1>1, NextModulo
<1> HIDE DEF q, r, k
<1>4. CASE r = d - 1
  <2>1. e + 1 = (q + 1) * d + 0 /\ q + 1 \in Int /\ 0 \in 0 .. d - 1
    BY <1>1, <1>4
  <2>2. CASE e + 1 = P
    <3>1. f = 0 * d + 0 /\ f = 0
      <4>1. 1 * P + 0 = P /\ 0 \in 0 .. P - 1
        OBVIOUS
      <4>2. P % P = 0
        BY <4>1, Divides
      <4> QED
        BY <2>2, <4>2
    <3>2. f % d = 0 /\ f \div d = 0
      BY <2>1, <3>1, Divides
    <3>3. q + 1 = k * m + 0
      <4>1. (q + 1) * d = (k * m) * d
        BY <1>1, <1>2, <2>1, <2>2
      <4> QED
        BY <1>1, <1>2, <4>1
    <3>4. 0 \in 0 .. m - 1 /\ 0 * m + 0 = 0
      OBVIOUS
    <3>5. (q + 1) % m = 0 /\ 0 % m = 0
      <4>1. (k * m + 0) % m = 0
        BY <1>2, <3>4, Divides
      <4>2. (0 * m + 0) % m = 0
        BY <3>4, Divides
      <4> QED
        BY <3>3, <3>4, <4>1, <4>2
    <3> QED
      BY <1>3, <1>4, <3>2, <3>5 DEF q, r, Ticks
  <2>3. CASE e + 1 # P
    <3>1. f = e + 1
      <4>1. e + 1 \in 0 .. P - 1 /\ 0 * P + (e + 1) = e + 1
        BY <2>3
      <4>2. (0 * P + (e + 1)) % P = e + 1
        BY <4>1, Divides
      <4> QED
        BY <4>1, <4>2
    <3>2. ((q + 1) * d + 0) % d = 0 /\ ((q + 1) * d + 0) \div d = q + 1
      <4> DEFINE k1 == q + 1
      <4>1. k1 \in Int
        BY <2>1
      <4> HIDE DEF k1
      <4>2. (k1 * d + 0) % d = 0 /\ (k1 * d + 0) \div d = k1
        BY <4>1
      <4> QED
        BY <4>2 DEF k1
    <3>3. f % d = 0 /\ f \div d = q + 1
      BY <2>1, <3>1, <3>2
    <3> QED
      BY <1>3, <1>4, <3>3 DEF q, r, Ticks
  <2> QED
    BY <2>2, <2>3
<1>5. CASE r # d - 1
  <2>1. e + 1 = q * d + (r + 1) /\ r + 1 \in 0 .. d - 1
    BY <1>1, <1>5
  <2>2. e + 1 # P
    <3>1. SUFFICES ASSUME q * d + (r + 1) = (k * m) * d
                   PROVE  FALSE
      BY <1>1, <1>2, <2>1
    <3>2. (q * d + (r + 1)) % d = r + 1
      BY <1>1, <2>1, Divides
    <3>3. ((k * m) * d + 0) % d = 0
      <4>1. k * m \in Int /\ 0 \in 0 .. d - 1
        BY <1>2
      <4> QED
        BY <4>1, Divides
    <3>4. (k * m) * d + 0 = (k * m) * d
      BY <1>2
    <3>5. r + 1 = 0
      BY <3>1, <3>2, <3>3, <3>4
    <3> QED
      BY <1>1, <3>5
  <2>3. f = e + 1
    <3>1. e + 1 \in 0 .. P - 1 /\ 0 * P + (e + 1) = e + 1
      BY <2>2
    <3>2. (0 * P + (e + 1)) % P = e + 1
      BY <3>1, Divides
    <3> QED
      BY <3>1, <3>2
  <2>4. (q * d + (r + 1)) % d = r + 1 /\ (q * d + (r + 1)) \div d = q
    BY <1>1, <2>1, Divides
  <2>5. f % d = r + 1 /\ f \div d = q
    BY <2>1, <2>3, <2>4
  <2> QED
    BY <1>5, <2>5 DEF q, r, Ticks
<1> QED
  BY <1>4, <1>5

LEMMA IncrementValue ==
    ASSUME NEW n \in Nat \ {0}, NEW v \in BV(n)
    PROVE  Increment(n, v) \in BV(n) /\ Value(Increment(n, v)) = (Value(v) + 1) % Pow2[n]
<1>1. {0} \in BV(n)
  BY DEF BV, Positions
<1> QED
  BY <1>1, AddValue, SingleBit DEF Increment

(***************************************************************************)
(* The inductive invariant: each prescaler is the remainder of the number   *)
(* of edges, which is why a carry into its timer is due when it reaches its *)
(* last value and never at another edge.                                    *)
(***************************************************************************)
CountInv ==
    /\ edges \in 0 .. Period - 1
    /\ millis \in BV(TIMER_BITS) /\ micros \in BV(TIMER_BITS)
    /\ pwm_counter \in BV(PWM_BITS)
    /\ millis_counter = edges % (MILLIS_MAX + 1)
    /\ micros_counter = edges % (MICROS_MAX + 1)
    /\ TimersKeepTime
    /\ Period % Pow2[PWM_BITS] = 0 => Value(pwm_counter) = edges % Pow2[PWM_BITS]

LEMMA CountInvInit == Init => CountInv
<1> SUFFICES ASSUME Init
             PROVE  CountInv
  OBVIOUS
<1>1. /\ edges = 0 /\ pwm_counter = {}
      /\ millis = {} /\ millis_counter = 0
      /\ micros = {} /\ micros_counter = 0
  BY DEF Init, MemInit
<1>2. /\ Period \in Nat \ {0} /\ MILLIS_MAX + 1 \in Nat \ {0} /\ MICROS_MAX + 1 \in Nat \ {0}
      /\ Pow2[TIMER_BITS] \in Nat \ {0} /\ Pow2[PWM_BITS] \in Nat \ {0}
  BY BusAssumption, MemoryAssumption, Pow2Positive
<1>3. ASSUME NEW d \in Nat \ {0}
      PROVE  0 % d = 0 /\ 0 \div d = 0
  <2>1. 0 * d + 0 = 0 /\ 0 \in 0 .. d - 1
    OBVIOUS
  <2>2. (0 * d + 0) % d = 0 /\ (0 * d + 0) \div d = 0
    BY <2>1, Divides
  <2> QED
    BY <2>1, <2>2
<1>4. /\ edges \in 0 .. Period - 1
      /\ millis \in BV(TIMER_BITS) /\ micros \in BV(TIMER_BITS)
      /\ pwm_counter \in BV(PWM_BITS)
  BY <1>1, <1>2 DEF BV
<1>5. TimersKeepTime
  BY <1>1, <1>2, <1>3, SingleBit DEF TimersKeepTime
<1>6. /\ millis_counter = edges % (MILLIS_MAX + 1)
      /\ micros_counter = edges % (MICROS_MAX + 1)
      /\ Value(pwm_counter) = edges % Pow2[PWM_BITS]
  BY <1>1, <1>2, <1>3, SingleBit
<1> QED
  BY <1>4, <1>5, <1>6 DEF CountInv

LEMMA CountInvNext == CountInv /\ [Next]_busVars => CountInv'
<1> SUFFICES ASSUME CountInv, [Next]_busVars
             PROVE  CountInv'
  OBVIOUS
<1>1. CASE Next
  <2>1. Tick /\ edges' = (edges + 1) % Period
    BY <1>1 DEF Next, Access, Read, Store, MemClock
  <2>2. /\ Period \in Nat \ {0} /\ MILLIS_MAX + 1 \in Nat \ {0} /\ MICROS_MAX + 1 \in Nat \ {0}
        /\ Pow2[TIMER_BITS] \in Nat \ {0} /\ Pow2[PWM_BITS] \in Nat \ {0}
        /\ TIMER_BITS \in Nat \ {0} /\ PWM_BITS \in Nat \ {0} /\ edges \in 0 .. Period - 1
        /\ Period % ((MILLIS_MAX + 1) * Pow2[TIMER_BITS]) = 0
        /\ Period % ((MICROS_MAX + 1) * Pow2[TIMER_BITS]) = 0
    BY BusAssumption, MemoryAssumption, Pow2Positive DEF CountInv
  <2>3. edges' \in 0 .. Period - 1
    <3>1. ((edges + 1) % Period) \in 0 .. Period - 1
      <4>1. edges + 1 \in Int
        BY <2>2
      <4> QED
        BY <2>2, <4>1, Divided
    <3> QED
      BY <2>1, <3>1
  <2>4. /\ millis' \in BV(TIMER_BITS)
        /\ millis_counter' = edges' % (MILLIS_MAX + 1)
        /\ Value(millis') = (edges' \div (MILLIS_MAX + 1)) % Pow2[TIMER_BITS]
    <3> DEFINE d == MILLIS_MAX + 1
               m == Pow2[TIMER_BITS]
    <3>1. d \in Nat \ {0} /\ m \in Nat \ {0} /\ Period % (d * m) = 0 /\ MILLIS_MAX = d - 1
      BY <2>2, MemoryAssumption
    <3>2. /\ millis \in BV(TIMER_BITS) /\ millis_counter = edges % d
          /\ Value(millis) = (edges \div d) % m
      BY DEF CountInv, TimersKeepTime
    <3>3. Increment(TIMER_BITS, millis) \in BV(TIMER_BITS)
          /\ Value(Increment(TIMER_BITS, millis)) = (Value(millis) + 1) % m
      BY <2>2, <3>2, IncrementValue
    <3>4. IF millis_counter = d - 1
          THEN millis_counter' = 0 /\ millis' = Increment(TIMER_BITS, millis)
          ELSE millis_counter' = millis_counter + 1 /\ millis' = millis
      BY <2>1, <3>1 DEF Tick
    <3> HIDE DEF d, m
    <3>5. Ticks(d, m, edges, edges')
      <4> DEFINE e == edges
                 f == edges'
                 P == Period
                 t == d * m
      <4>1. /\ f = (e + 1) % P /\ P \in Nat \ {0} /\ e \in 0 .. P - 1
            /\ P % t = 0 /\ t = d * m
        BY <2>1, <2>2, <3>1
      <4> HIDE DEF e, f, P, t
      <4>2. Ticks(d, m, e, f)
        BY <3>1, <4>1, NextTick
      <4> QED
        BY <4>2 DEF e, f
    <3>6. /\ millis' \in BV(TIMER_BITS) /\ millis_counter' = edges' % d
          /\ Value(millis') = (edges' \div d) % m
      BY <3>2, <3>3, <3>4, <3>5 DEF Ticks
    <3> QED
      BY <3>6 DEF d, m
  <2>5. /\ micros' \in BV(TIMER_BITS)
        /\ micros_counter' = edges' % (MICROS_MAX + 1)
        /\ Value(micros') = (edges' \div (MICROS_MAX + 1)) % Pow2[TIMER_BITS]
    <3> DEFINE d == MICROS_MAX + 1
               m == Pow2[TIMER_BITS]
    <3>1. d \in Nat \ {0} /\ m \in Nat \ {0} /\ Period % (d * m) = 0 /\ MICROS_MAX = d - 1
      BY <2>2, MemoryAssumption
    <3>2. /\ micros \in BV(TIMER_BITS) /\ micros_counter = edges % d
          /\ Value(micros) = (edges \div d) % m
      BY DEF CountInv, TimersKeepTime
    <3>3. Increment(TIMER_BITS, micros) \in BV(TIMER_BITS)
          /\ Value(Increment(TIMER_BITS, micros)) = (Value(micros) + 1) % m
      BY <2>2, <3>2, IncrementValue
    <3>4. IF micros_counter = d - 1
          THEN micros_counter' = 0 /\ micros' = Increment(TIMER_BITS, micros)
          ELSE micros_counter' = micros_counter + 1 /\ micros' = micros
      BY <2>1, <3>1 DEF Tick
    <3> HIDE DEF d, m
    <3>5. Ticks(d, m, edges, edges')
      <4> DEFINE e == edges
                 f == edges'
                 P == Period
                 t == d * m
      <4>1. /\ f = (e + 1) % P /\ P \in Nat \ {0} /\ e \in 0 .. P - 1
            /\ P % t = 0 /\ t = d * m
        BY <2>1, <2>2, <3>1
      <4> HIDE DEF e, f, P, t
      <4>2. Ticks(d, m, e, f)
        BY <3>1, <4>1, NextTick
      <4> QED
        BY <4>2 DEF e, f
    <3>6. /\ micros' \in BV(TIMER_BITS) /\ micros_counter' = edges' % d
          /\ Value(micros') = (edges' \div d) % m
      BY <3>2, <3>3, <3>4, <3>5 DEF Ticks
    <3> QED
      BY <3>6 DEF d, m
  <2>6. /\ pwm_counter' \in BV(PWM_BITS)
        /\ Period % Pow2[PWM_BITS] = 0 => Value(pwm_counter') = edges' % Pow2[PWM_BITS]
    <3> DEFINE m == Pow2[PWM_BITS]
    <3>1. pwm_counter \in BV(PWM_BITS) /\ (Period % m = 0 => Value(pwm_counter) = edges % m)
      BY DEF CountInv
    <3>2. pwm_counter' \in BV(PWM_BITS) /\ Value(pwm_counter') = (Value(pwm_counter) + 1) % m
      BY <2>1, <2>2, <3>1, IncrementValue DEF Tick
    <3>3. m \in Nat \ {0}
      BY <2>2
    <3> HIDE DEF m
    <3>4. Period % m = 0 => edges' % m = ((edges % m) + 1) % m
      BY <2>1, <2>2, <3>3, NextEdge
    <3> QED
      BY <3>1, <3>2, <3>4 DEF m
  <2> QED
    BY <2>3, <2>4, <2>5, <2>6 DEF CountInv, TimersKeepTime
<1>2. CASE UNCHANGED busVars
  <2>1. /\ edges' = edges /\ millis' = millis /\ micros' = micros
        /\ pwm_counter' = pwm_counter
        /\ millis_counter' = millis_counter /\ micros_counter' = micros_counter
    BY <1>2 DEF busVars, memVars, timerVars
  <2> QED
    BY <2>1 DEF CountInv, TimersKeepTime
<1> QED
  BY <1>1, <1>2

(***************************************************************************)
(* memory.sv:141-159: the timers lose no clock edge through any number of   *)
(* wraps, for every prescaler and every width.                              *)
(***************************************************************************)
THEOREM TimersKeepTimeHolds == Spec => []TimersKeepTime
<1>1. CountInv => TimersKeepTime
  BY DEF CountInv
<1> QED
  BY <1>1, CountInvInit, CountInvNext, PTL DEF Spec

(***************************************************************************)
(* memory.sv:131-139: in each period of the PWM counter an output is high   *)
(* for as many counts as its duty cycle says.                               *)
(***************************************************************************)
THEOREM LitForDutyCountsHolds == Spec => []LitForDutyCounts
<1>1. CountInv => LitForDutyCounts
  <2> SUFFICES ASSUME CountInv, Period % Pow2[PWM_BITS] = 0, NEW lane \in 0 .. 3
               PROVE  Lit(lane) <=> edges % Pow2[PWM_BITS] <
                                       Value(Slice(leds, 8 * lane + 7, 8 * lane))
    BY DEF LitForDutyCounts
  <2> DEFINE duty == Slice(leds, 8 * lane + 7, 8 * lane)
  <2>1. duty \in BV(8)
    BY DEF Slice, BV, Positions
  <2>2. pwm_counter \in BV(8) /\ Value(pwm_counter) = edges % Pow2[PWM_BITS]
    BY MemoryAssumption DEF CountInv, BV, Positions
  <2> HIDE DEF duty
  <2>3. ULess(pwm_counter, duty) <=> Value(pwm_counter) < Value(duty)
    BY <2>1, <2>2, LessIsLess
  <2> QED
    BY <2>2, <2>3 DEF Lit, duty
<1> QED
  BY <1>1, CountInvInit, CountInvNext, PTL DEF Spec

-----------------------------------------------------------------------------
(***************************************************************************)
(* memory.sv.  What the comparisons of the data port say of an address.     *)
(***************************************************************************)
LEMMA WordBits ==
    ASSUME NEW a \in Word32
    PROVE  \A n \in a : n \in Int /\ 0 <= n /\ n <= 31
  BY DEF Word32, BV, Positions

LEMMA MemoryIs ==
    ASSUME NEW a \in Word32
    PROVE  InMemory(a) <=> \A n \in a : n < ABITS + 2
<1>1. InMemory(a) <=> a \cap (ABITS + 2 .. 31) = {}
  BY DEF InMemory, Slice
<1>2. \A n : n \in ABITS + 2 .. 31 <=> n \in Int /\ ABITS + 2 <= n /\ n <= 31
  BY MemoryAssumption
<1>3. QED
  BY <1>1, <1>2, WordBits, MemoryAssumption

LEMMA PeripheralsAre ==
    ASSUME NEW a \in Word32
    PROVE  InPeripherals(a) <=> (ABITS + 2 .. 31) \subseteq a
<1> DEFINE lo == ABITS + 2
           top == {n - lo : n \in a \cap (lo .. 31)}
<1>0. lo \in Int /\ lo <= 31
  BY MemoryAssumption
<1>1. InPeripherals(a) <=> top = 0 .. 29 - ABITS
  BY DEF InPeripherals, Slice
<1>2. \A j : j \in 0 .. 29 - ABITS <=> j \in Int /\ 0 <= j /\ j + lo <= 31
  BY MemoryAssumption
<1>3. \A j \in top : j \in Int /\ 0 <= j /\ j + lo <= 31 /\ j + lo \in a
  BY <1>0
<1>4. \A j \in Int : 0 <= j /\ j + lo <= 31 /\ j + lo \in a => j \in top
  <2> SUFFICES ASSUME NEW j \in Int, 0 <= j, j + lo <= 31, j + lo \in a
               PROVE  j \in top
    OBVIOUS
  <2>1. j + lo \in a \cap (lo .. 31) /\ j = (j + lo) - lo
    BY <1>0
  <2>2. QED
    BY <2>1, Zenon
<1>5. top = 0 .. 29 - ABITS <=> \A j \in Int : 0 <= j /\ j + lo <= 31 => j + lo \in a
  <2> HIDE DEF top, lo
  <2>1. QED
    BY <1>2, <1>3, <1>4
<1>6. (\A j \in Int : 0 <= j /\ j + lo <= 31 => j + lo \in a) <=> (lo .. 31) \subseteq a
  <2>1. ASSUME \A j \in Int : 0 <= j /\ j + lo <= 31 => j + lo \in a, NEW n \in lo .. 31
        PROVE  n \in a
    <3>1. n - lo \in Int /\ 0 <= n - lo /\ (n - lo) + lo = n /\ n <= 31
      BY <1>0
    <3>2. QED
      BY <2>1, <3>1
  <2>2. \A j \in Int : 0 <= j /\ j + lo <= 31 => j + lo \in lo .. 31
    BY <1>0
  <2> HIDE DEF lo
  <2>3. QED
    BY <2>1, <2>2
<1>7. QED
  BY <1>1, <1>5, <1>6

LEMMA CellIs ==
    ASSUME NEW a \in Word32, NEW cell \in SUBSET Positions(ABITS)
    PROVE  Cell(a) = cell <=> \A j \in Positions(ABITS) : j \in cell <=> j + 2 \in a
<1>0. \A j : j \in Positions(ABITS) <=> j \in Int /\ 0 <= j /\ j <= ABITS - 1
  BY MemoryAssumption DEF Positions
<1>1. \A j \in Cell(a) : j \in Positions(ABITS) /\ j + 2 \in a
  BY <1>0, MemoryAssumption DEF Cell, Slice
<1>2. ASSUME NEW j \in Positions(ABITS), j + 2 \in a
      PROVE  j \in Cell(a)
  <2>1. j + 2 \in a \cap (2 .. ABITS + 1) /\ j = (j + 2) - 2
    BY <1>0, <1>2, MemoryAssumption
  <2>2. QED
    BY <2>1 DEF Cell, Slice
<1>3. QED
  BY <1>1, <1>2

\* The data port decodes the words of its map.
LEMMA DataPortDecodes ==
    ASSUME NEW a \in Word32
    PROVE  LET word == a \ {0, 1}
           IN  /\ (\A n \in a : n < ABITS + 2) => ~InPeripherals(a)
               /\ InPeripherals(a) /\ Cell(a) = LEDS_CELL   <=> word = 2 .. 31
               /\ InPeripherals(a) /\ Cell(a) = MILLIS_CELL <=> word = (2 .. 31) \ {2}
               /\ InPeripherals(a) /\ Cell(a) = MICROS_CELL <=> word = (2 .. 31) \ {3}
<1> DEFINE word == a \ {0, 1}
<1>0. ABITS \in Int /\ 2 <= ABITS /\ ABITS <= 28
  BY MemoryAssumption
<1>1. word \subseteq 2 .. 31
  BY WordBits
<1>2. \A j : j \in Positions(ABITS) <=> j \in Int /\ 0 <= j /\ j <= ABITS - 1
  BY <1>0 DEF Positions
<1>3. ASSUME NEW k \in {-1, 0, 1}
      PROVE  InPeripherals(a) /\ Cell(a) = Positions(ABITS) \ {k} <=> word = (2 .. 31) \ {k + 2}
  <2>1. Cell(a) = Positions(ABITS) \ {k}
          <=> \A j \in Positions(ABITS) : j # k <=> j + 2 \in a
    <3> DEFINE cell == Positions(ABITS) \ {k}
    <3>1. cell \in SUBSET Positions(ABITS)
      OBVIOUS
    <3>2. \A j \in Positions(ABITS) : j \in cell <=> j # k
      OBVIOUS
    <3> HIDE DEF cell
    <3>3. Cell(a) = cell <=> \A j \in Positions(ABITS) : j # k <=> j + 2 \in a
      BY <3>1, <3>2, CellIs
    <3>4. QED
      BY <3>3 DEF cell
  <2>2. (\A j \in Positions(ABITS) : j # k <=> j + 2 \in a)
          <=> \A n \in 2 .. ABITS + 1 : n # k + 2 <=> n \in a
    <3>1. ASSUME \A j \in Positions(ABITS) : j # k <=> j + 2 \in a, NEW n \in 2 .. ABITS + 1
          PROVE  n # k + 2 <=> n \in a
      <4>1. n - 2 \in Positions(ABITS) /\ (n - 2) + 2 = n /\ (n - 2 # k <=> n # k + 2)
        BY <1>0, <1>2
      <4>2. QED
        BY <3>1, <4>1
    <3>2. ASSUME \A n \in 2 .. ABITS + 1 : n # k + 2 <=> n \in a, NEW j \in Positions(ABITS)
          PROVE  j # k <=> j + 2 \in a
      <4>1. j + 2 \in 2 .. ABITS + 1 /\ (j # k <=> j + 2 # k + 2)
        BY <1>0, <1>2
      <4>2. QED
        BY <3>2, <4>1
    <3>3. QED
      BY <3>1, <3>2
  <2>3. word = (2 .. 31) \ {k + 2} <=> \A n \in 2 .. 31 : n # k + 2 <=> n \in a
    BY <1>1
  <2>4. InPeripherals(a) <=> \A n \in ABITS + 2 .. 31 : n \in a
    BY PeripheralsAre
  <2>5. \A n : n \in 2 .. 31 <=> n \in 2 .. ABITS + 1 \/ n \in ABITS + 2 .. 31
    BY <1>0
  <2>6. \A n \in ABITS + 2 .. 31 : n # k + 2
    BY <1>0
  <2>7. QED
    BY <2>1, <2>2, <2>3, <2>4, <2>5, <2>6
<1>4. Positions(ABITS) \ {-1} = LEDS_CELL /\ (2 .. 31) \ {1} = 2 .. 31
  BY <1>2 DEF LEDS_CELL
<1>5. InPeripherals(a) /\ Cell(a) = LEDS_CELL <=> word = 2 .. 31
  BY <1>3, <1>4
<1>6. /\ InPeripherals(a) /\ Cell(a) = MILLIS_CELL <=> word = (2 .. 31) \ {2}
      /\ InPeripherals(a) /\ Cell(a) = MICROS_CELL <=> word = (2 .. 31) \ {3}
  BY <1>3 DEF MILLIS_CELL, MICROS_CELL, LEDS_CELL
<1>7. (\A n \in a : n < ABITS + 2) => ~InPeripherals(a)
  BY <1>0, PeripheralsAre
<1>8. QED
  BY <1>5, <1>6, <1>7

\* The word that the data port latches for an address.
BusWord(a) ==
    LET word == a \ {0, 1}
    IN  CASE \A n \in a : n < ABITS + 2        -> mem[Cell(a)]
          [] word = 2 .. 31                    -> leds
          [] word = (2 .. 31) \ {2}            -> millis
          [] word = (2 .. 31) \ {3}            -> micros
          [] OTHER                             -> {}

LEMMA PortReadsWord ==
    ASSUME NEW a \in Word32
    PROVE  ReadPort(a) = BusWord(a)
<1> DEFINE word == a \ {0, 1}
           C1 == \A n \in a : n < ABITS + 2
           latched == IF C1 THEN mem[Cell(a)]
                      ELSE IF word = 2 .. 31 THEN leds
                      ELSE IF word = (2 .. 31) \ {2} THEN millis
                      ELSE IF word = (2 .. 31) \ {3} THEN micros
                      ELSE {}
<1>1. /\ 2 \in 2 .. 31 /\ 3 \in 2 .. 31 /\ 2 # 3
  OBVIOUS
<1>2. /\ ~(word = 2 .. 31 /\ word = (2 .. 31) \ {2})
      /\ ~(word = 2 .. 31 /\ word = (2 .. 31) \ {3})
      /\ ~(word = (2 .. 31) \ {2} /\ word = (2 .. 31) \ {3})
  BY <1>1, Zenon
<1>3. C1 => word # 2 .. 31 /\ word # (2 .. 31) \ {2} /\ word # (2 .. 31) \ {3}
  BY DataPortDecodes, Zenon
<1>4. ReadPort(a) = latched
  <2>1. InMemory(a) <=> C1
    BY MemoryIs
  <2>2. /\ InPeripherals(a) /\ Cell(a) = LEDS_CELL   <=> word = 2 .. 31
        /\ InPeripherals(a) /\ Cell(a) = MILLIS_CELL <=> word = (2 .. 31) \ {2}
        /\ InPeripherals(a) /\ Cell(a) = MICROS_CELL <=> word = (2 .. 31) \ {3}
    BY DataPortDecodes, Zenon
  <2> HIDE DEF C1, word
  <2>3. QED
    BY <2>1, <2>2, Zenon DEF ReadPort
<1>5. BusWord(a) = latched
  <2>1. BusWord(a) = CASE C1 -> mem[Cell(a)]
                      [] word = 2 .. 31 -> leds
                      [] word = (2 .. 31) \ {2} -> millis
                      [] word = (2 .. 31) \ {3} -> micros
                      [] OTHER -> {}
    BY Zenon DEF BusWord
  <2> HIDE DEF C1, word
  <2>2. QED
    BY <2>1, <1>2, <1>3, Zenon
<1> HIDE DEF latched
<1>6. QED
  BY <1>4, <1>5, Zenon

(***************************************************************************)
(* For every size of the memory the data port answers with the word as it   *)
(* was before the edge, whatever is stored at the same edge.                *)
(***************************************************************************)
THEOREM ReadsAreReadFirstHolds == Spec => ReadsAreReadFirst
<1>1. ASSUME [Next]_busVars
      PROVE  [read_value' = BusWord(last'.address)]_busVars
  <2>1. ASSUME NEW a \in BusAddresses, NEW f, Read(a, f)
        PROVE  read_value' = BusWord(last'.address)
    BY <2>1, PortReadsWord, BusAssumption DEF Read, MemClock
  <2>2. ASSUME NEW a \in BusAddresses, NEW f, NEW d, Store(a, f, d)
        PROVE  read_value' = BusWord(last'.address)
    BY <2>2, PortReadsWord, BusAssumption DEF Store, MemClock
  <2>3. QED
    BY <1>1, <2>1, <2>2, Zenon DEF Next, Access
<1>2. [][Next]_busVars => [][read_value' = BusWord(last'.address)]_busVars
  BY <1>1, PTL
<1>3. Spec => [][read_value' = BusWord(last'.address)]_busVars
  BY <1>2, PTL DEF Spec
<1>4. QED
  BY <1>3, Zenon DEF ReadsAreReadFirst, BusWord

\* The numbers that two bits stand for.
LEMMA TwoBits ==
    Value({}) = 0 /\ Value({0}) = 1 /\ Value({1}) = 2 /\ Value({0, 1}) = 3
<1>1. ASSUME NEW w \in BV(2)
      PROVE  Value(w) = (IF 0 \in w THEN 1 ELSE 0) + (IF 1 \in w THEN 2 ELSE 0)
  <2>1. Value(w) = ValueBelow(w)[2]
    BY ValueIsBelow
  <2>2. /\ ValueBelow(w)[0 + 1] = ValueBelow(w)[0] + (IF 0 \in w THEN Pow2[0] ELSE 0)
        /\ ValueBelow(w)[1 + 1] = ValueBelow(w)[1] + (IF 1 \in w THEN Pow2[1] ELSE 0)
        /\ ValueBelow(w)[0] = 0 /\ Pow2[0] = 1 /\ Pow2[0 + 1] = 2 * Pow2[0]
    BY BelowDef, Pow2Def
  <2> QED
    BY <2>1, <2>2
<1>2. {} \in BV(2) /\ {0} \in BV(2) /\ {1} \in BV(2) /\ {0, 1} \in BV(2)
  BY DEF BV, Positions
<1> QED
  BY <1>1, <1>2

-----------------------------------------------------------------------------
(***************************************************************************)
(* A byte of a word that a field is written into: a byte of the field, or   *)
(* the byte that was there.                                                 *)
(***************************************************************************)
LEMMA InsertInside ==
    ASSUME NEW old, NEW new \in SUBSET Int, NEW lo \in Int, NEW hi \in Int, NEW b \in Int,
           lo <= b, b + 7 <= hi
    PROVE  Slice(Insert(old, hi, lo, new), b + 7, b) = Slice(new, (b - lo) + 7, b - lo)
<1> DEFINE inserted == Insert(old, hi, lo, new)
<1>1. \A j \in b .. b + 7 : j \in inserted <=> j - lo \in new
  <2> SUFFICES ASSUME NEW j \in b .. b + 7 PROVE j \in inserted <=> j - lo \in new
    OBVIOUS
  <2>1. j \in lo .. hi
    OBVIOUS
  <2>2. j \in Place(new, lo) <=> j - lo \in new
    BY DEF Place
  <2>3. QED
    BY <2>1, <2>2, Zenon DEF Insert
<1> HIDE DEF inserted
<1>2. ASSUME NEW x PROVE x \in Slice(inserted, b + 7, b) <=> x \in 0 .. 7 /\ x + b \in inserted
  BY DEF Slice
<1>3. ASSUME NEW x
      PROVE  x \in Slice(new, (b - lo) + 7, b - lo) <=> x \in 0 .. 7 /\ x + (b - lo) \in new
  BY DEF Slice
<1>4. \A x \in 0 .. 7 : x + b \in inserted <=> x + (b - lo) \in new
  BY <1>1
<1>5. QED
  BY <1>2, <1>3, <1>4, Zenon DEF inserted

LEMMA InsertOutside ==
    ASSUME NEW old, NEW new, NEW lo \in Int, NEW hi \in Int, NEW b \in Int,
           b + 7 < lo \/ hi < b
    PROVE  Slice(Insert(old, hi, lo, new), b + 7, b) = Slice(old, b + 7, b)
<1>1. \A j \in b .. b + 7 : j \notin lo .. hi
  OBVIOUS
<1>2. Insert(old, hi, lo, new) \cap (b .. b + 7) = old \cap (b .. b + 7)
  BY <1>1, Zenon DEF Insert
<1>3. QED
  BY <1>2, Zenon DEF Slice

\* The numbers that the lowest bits of an address stand for.
LEMMA LowBits ==
    ASSUME NEW a
    PROVE  /\ Value(a \cap {0, 1}) = (IF 1 \in a THEN 2 ELSE 0) + (IF 0 \in a THEN 1 ELSE 0)
           /\ Value(a \cap {0}) = IF 0 \in a THEN 1 ELSE 0
           /\ Value(a \cap {}) = 0
<1>1. /\ a \cap {0, 1} = IF 1 \in a THEN IF 0 \in a THEN {0, 1} ELSE {1}
                         ELSE IF 0 \in a THEN {0} ELSE {}
      /\ a \cap {0} = IF 0 \in a THEN {0} ELSE {}
      /\ a \cap {} = {}
  OBVIOUS
<1>2. QED
  BY <1>1, TwoBits

\* A store covers a byte of its word, or leaves the whole byte outside.
LEMMA ByteLanes ==
    ASSUME NEW a, NEW store, a \ {0, 1} = store \ {0, 1}, NEW f3 \in {{}, {0}, {1}}
    PROVE  LET b     == 8 * Value(a \cap {0, 1})
               lo    == LowBit(store, f3)
               hi    == lo + AccessBits(f3) - 1
               low   == Positions(Size(f3))
               block == a \ low = store \ low
           IN  /\ b \in Int /\ lo \in Int /\ hi \in Int
               /\ block => /\ lo <= b /\ b + 7 <= hi
                           /\ b - lo = 8 * Value(a \cap low)
               /\ ~block => b + 7 < lo \/ hi < b
<1> DEFINE b     == 8 * Value(a \cap {0, 1})
           lo    == LowBit(store, f3)
           size  == Size(f3)
           low   == Positions(size)
           below == Value(a \cap low)
<1>1. b = (IF 1 \in a THEN 16 ELSE 0) + (IF 0 \in a THEN 8 ELSE 0)
  <2> DEFINE v == Value(a \cap {0, 1})
  <2>1. v = (IF 1 \in a THEN 2 ELSE 0) + (IF 0 \in a THEN 1 ELSE 0)
    BY LowBits, Zenon
  <2> HIDE DEF v
  <2>2. 8 * v = (IF 1 \in a THEN 16 ELSE 0) + (IF 0 \in a THEN 8 ELSE 0)
    BY <2>1
  <2>3. QED
    BY <2>2, Zenon DEF v
<1>2. Positions(0) = {} /\ Positions(1) = {0} /\ Positions(2) = {0, 1}
  BY DEF Positions
<1>3. CASE f3 = {1}
  <2>1. 1 \in f3
    BY <1>3
  <2>2. AccessBits(f3) = 32 /\ lo = 0 /\ size = 2
    BY <2>1 DEF AccessBits, LowBit, Size
  <2>3. below = Value(a \cap {0, 1}) /\ a \ low = store \ low
    BY <1>2, <2>2, Zenon
  <2>4. 8 * below = b
    BY <2>3, Zenon
  <2> HIDE DEF b, lo, size, below
  <2>5. QED
    BY <1>1, <2>2, <2>3, <2>4 DEF size, b, lo, below
<1>4. CASE f3 = {0}
  <2>1. 1 \notin f3 /\ 0 \in f3
    BY <1>4
  <2>2. AccessBits(f3) = 16 /\ lo = (IF 1 \in store THEN 16 ELSE 0) /\ size = 1
    BY <2>1 DEF AccessBits, LowBit, Size
  <2>3. low = {0} /\ below = (IF 0 \in a THEN 1 ELSE 0)
    BY <1>2, <2>2, LowBits
  <2>4. a \ {0} = store \ {0} <=> (1 \in a <=> 1 \in store)
    OBVIOUS
  <2> HIDE DEF b, lo, low, below
  <2>5. QED
    BY <1>1, <2>2, <2>3, <2>4 DEF b, lo, low, below
<1>5. CASE f3 = {}
  <2>1. 1 \notin f3 /\ 0 \notin f3
    BY <1>5
  <2>2. /\ AccessBits(f3) = 8 /\ size = 0
        /\ lo = (IF 1 \in store THEN 16 ELSE 0) + (IF 0 \in store THEN 8 ELSE 0)
    BY <2>1 DEF AccessBits, LowBit, Size
  <2>3. low = {} /\ below = 0
    BY <1>2, <2>2, LowBits
  <2>4. a \ {} = store \ {} <=> (1 \in a <=> 1 \in store) /\ (0 \in a <=> 0 \in store)
    OBVIOUS
  <2> HIDE DEF b, lo, low, below
  <2>5. QED
    BY <1>1, <2>2, <2>3, <2>4 DEF b, lo, low, below
<1>6. QED
  BY <1>3, <1>4, <1>5

\* The byte of the data that a store leaves at an address it covers.
Covers(store, f3, a) == a \ Positions(Size(f3)) = store \ Positions(Size(f3))

Part(new, f3, a) ==
    LET k == Value(a \cap Positions(Size(f3))) IN Slice(new, 8 * k + 7, 8 * k)

\* A byte of a word after a store into the word.
LEMMA StoredByte ==
    ASSUME NEW old, NEW new \in SUBSET Int, NEW a, NEW store,
           a \ {0, 1} = store \ {0, 1}, NEW f3 \in {{}, {0}, {1}}
    PROVE  Byte(Written(old, store, f3, new), a) =
             IF Covers(store, f3, a) THEN Part(new, f3, a) ELSE Byte(old, a)
<1> DEFINE b     == 8 * Value(a \cap {0, 1})
           lo    == LowBit(store, f3)
           hi    == lo + AccessBits(f3) - 1
           low   == Positions(Size(f3))
           k     == Value(a \cap low)
           block == a \ low = store \ low
<1>1. /\ b \in Int /\ lo \in Int /\ hi \in Int
      /\ block => lo <= b /\ b + 7 <= hi /\ b - lo = 8 * k
      /\ ~block => b + 7 < lo \/ hi < b
  BY ByteLanes
<1>2. /\ Byte(Written(old, store, f3, new), a) = Slice(Insert(old, hi, lo, new), b + 7, b)
      /\ Byte(old, a) = Slice(old, b + 7, b)
  BY DEF Byte, Written
<1>3. CASE block
  <2> HIDE DEF b, lo, hi, k, block
  <2>1. Slice(Insert(old, hi, lo, new), b + 7, b) = Slice(new, (b - lo) + 7, b - lo)
    BY <1>1, <1>3, InsertInside
  <2>2. Byte(Written(old, store, f3, new), a) = Slice(new, 8 * k + 7, 8 * k)
    BY <1>1, <1>2, <1>3, <2>1, Zenon
  <2>3. QED
    BY <1>3, <2>2, Zenon DEF block, k, Covers, Part
<1>4. CASE ~block
  <2> HIDE DEF b, lo, hi, block
  <2>1. Slice(Insert(old, hi, lo, new), b + 7, b) = Slice(old, b + 7, b)
    BY <1>1, <1>4, InsertOutside
  <2>2. Byte(Written(old, store, f3, new), a) = Byte(old, a)
    BY <1>2, <2>1, Zenon
  <2>3. QED
    BY <1>4, <2>2, Zenon DEF block, Covers
<1>5. QED
  BY <1>3, <1>4, Zenon

\* Addresses that name a byte: of the memory, or of the LED register.
LEMMA NamedBytes ==
    /\ \A a \in Word32 : InMemory(a) <=> a \in BV(ABITS + 2)
    /\ \A a \in Word32 : AtLeds(a) <=> a \in LedBytes
    /\ \A a \in Word32 : a \in LedBytes <=> a \ {0, 1} = 2 .. 31
    /\ \A a \in BV(ABITS + 2) \cup LedBytes : a \in Word32
    /\ \A a \in Word32 : ~(InMemory(a) /\ AtLeds(a))
<1>0. ABITS \in Int /\ 2 <= ABITS /\ ABITS <= 28
  BY MemoryAssumption
<1>1. \A a \in Word32 : InMemory(a) <=> a \in BV(ABITS + 2)
  <2> SUFFICES ASSUME NEW a \in Word32 PROVE InMemory(a) <=> a \in BV(ABITS + 2)
    OBVIOUS
  <2>1. a \in BV(ABITS + 2) <=> \A j \in a : j < ABITS + 2
    BY <1>0, WordBits DEF BV, Positions
  <2>2. QED
    BY <2>1, MemoryIs
<1>2. \A a \in Word32 : a \in LedBytes <=> a \ {0, 1} = 2 .. 31
  <2> SUFFICES ASSUME NEW a \in Word32 PROVE a \in LedBytes <=> a \ {0, 1} = 2 .. 31
    OBVIOUS
  <2>1. BV(2) = SUBSET {0, 1}
    BY DEF BV, Positions
  <2>2. ASSUME a \ {0, 1} = 2 .. 31
        PROVE  a \in LedBytes
    <3>1. a = (2 .. 31) \cup (a \cap {0, 1}) /\ a \cap {0, 1} \in BV(2)
      BY <2>1, <2>2
    <3>2. QED
      BY <3>1, Zenon DEF LedBytes
  <2>3. ASSUME a \in LedBytes
        PROVE  a \ {0, 1} = 2 .. 31
    <3>1. PICK k \in SUBSET {0, 1} : a = (2 .. 31) \cup k
      BY <2>1, <2>3, Zenon DEF LedBytes
    <3>2. 0 \notin 2 .. 31 /\ 1 \notin 2 .. 31
      OBVIOUS
    <3>3. QED
      BY <3>1, <3>2, Zenon
  <2>4. QED
    BY <2>2, <2>3
<1>3. \A a \in Word32 : AtLeds(a) <=> a \ {0, 1} = 2 .. 31
  <2> SUFFICES ASSUME NEW a \in Word32 PROVE AtLeds(a) <=> a \ {0, 1} = 2 .. 31
    OBVIOUS
  <2>1. \A j : j \in Slice(a, 31, 2) <=> j \in 0 .. 29 /\ j + 2 \in a
    BY DEF Slice
  <2>2. AtLeds(a) <=> \A j \in 0 .. 29 : j + 2 \in a
    BY <2>1 DEF AtLeds
  <2>3. a \ {0, 1} \subseteq 2 .. 31
    BY WordBits
  <2>4. a \ {0, 1} = 2 .. 31 <=> \A j \in 2 .. 31 : j \in a
    BY <2>3
  <2>5. (\A j \in 0 .. 29 : j + 2 \in a) <=> \A j \in 2 .. 31 : j \in a
    <3>1. ASSUME \A j \in 0 .. 29 : j + 2 \in a, NEW j \in 2 .. 31
          PROVE  j \in a
      <4>1. j - 2 \in 0 .. 29 /\ (j - 2) + 2 = j
        OBVIOUS
      <4>2. QED
        BY <3>1, <4>1
    <3>2. \A j \in 0 .. 29 : j + 2 \in 2 .. 31
      OBVIOUS
    <3>3. QED
      BY <3>1, <3>2
  <2>6. QED
    BY <2>2, <2>4, <2>5
<1>4. \A a \in BV(ABITS + 2) \cup LedBytes : a \in Word32
  <2>1. BV(ABITS + 2) \subseteq Word32
    BY <1>0 DEF BV, Positions, Word32
  <2>2. \A k \in BV(2) : (2 .. 31) \cup k \in Word32
    BY DEF BV, Positions, Word32
  <2>3. QED
    BY <2>1, <2>2, Zenon DEF LedBytes
<1>5. \A a \in Word32 : ~(InMemory(a) /\ AtLeds(a))
  BY <1>0, <1>3, MemoryIs
<1>6. QED
  BY <1>1, <1>2, <1>3, <1>4, <1>5

\* Two bytes of memory are in one cell if they are in one word.
LEMMA SameCell ==
    ASSUME NEW a \in Word32, NEW d \in Word32, InMemory(a), InMemory(d)
    PROVE  /\ Cell(a) \in Cells
           /\ Cell(a) = Cell(d) <=> a \ {0, 1} = d \ {0, 1}
<1>0. ABITS \in Int /\ 2 <= ABITS /\ ABITS <= 28
  BY MemoryAssumption
<1>1. \A j : j \in Positions(ABITS) <=> j \in Int /\ 0 <= j /\ j <= ABITS - 1
  BY <1>0 DEF Positions
<1>2. \A e \in Word32 : Cell(e) \in SUBSET Positions(ABITS)
  <2> SUFFICES ASSUME NEW e \in Word32, NEW j \in Cell(e) PROVE j \in Positions(ABITS)
    OBVIOUS
  <2>1. PICK n \in e \cap (2 .. ABITS + 1) : j = n - 2
    BY DEF Cell, Slice
  <2>2. QED
    BY <1>0, <1>1, <2>1
<1>3. \A e \in Word32, j \in Positions(ABITS) : j \in Cell(e) <=> j + 2 \in e
  BY <1>2, CellIs
<1>4. Cell(a) = Cell(d) <=> \A j \in Positions(ABITS) : j + 2 \in a <=> j + 2 \in d
  BY <1>2, <1>3
<1>5. \A j \in a \cup d : j \in Int /\ 0 <= j /\ j < ABITS + 2
  BY WordBits, MemoryIs
<1>6. a \ {0, 1} = d \ {0, 1} <=> \A j \in 2 .. ABITS + 1 : j \in a <=> j \in d
  <2>1. \A j \in (a \cup d) \ {0, 1} : j \in 2 .. ABITS + 1
    BY <1>0, <1>5
  <2>2. \A j \in 2 .. ABITS + 1 : j \notin {0, 1}
    OBVIOUS
  <2>3. QED
    BY <2>1, <2>2
<1>7. (\A j \in Positions(ABITS) : j + 2 \in a <=> j + 2 \in d)
        <=> \A j \in 2 .. ABITS + 1 : j \in a <=> j \in d
  <2>1. ASSUME \A j \in Positions(ABITS) : j + 2 \in a <=> j + 2 \in d, NEW j \in 2 .. ABITS + 1
        PROVE  j \in a <=> j \in d
    <3>1. j - 2 \in Positions(ABITS) /\ (j - 2) + 2 = j
      BY <1>0, <1>1
    <3>2. QED
      BY <2>1, <3>1
  <2>2. \A j \in Positions(ABITS) : j + 2 \in 2 .. ABITS + 1
    BY <1>0, <1>1
  <2>3. QED
    BY <2>1, <2>2
<1>8. QED
  BY <1>2, <1>4, <1>6, <1>7 DEF Cells, BV

(***************************************************************************)
(* The memory is an array over its cells, and a store of any width is a     *)
(* store of bytes.                                                          *)
(***************************************************************************)
BusInv == mem \in [Cells -> SUBSET Int] /\ leds \in SUBSET Int

LEMMA WrittenBits ==
    ASSUME NEW old \in SUBSET Int, NEW store, NEW f3, NEW new
    PROVE  Written(old, store, f3, new) \in SUBSET Int
<1> DEFINE lo == LowBit(store, f3)
           hi == lo + AccessBits(f3) - 1
<1>1. lo \in Int /\ hi \in Int
  BY DEF LowBit, AccessBits
<1> HIDE DEF lo, hi
<1>2. lo .. hi \subseteq Int
  BY <1>1
<1>3. Insert(old, hi, lo, new) \in SUBSET Int
  BY <1>2, Zenon DEF Insert
<1>4. QED
  BY <1>3, Zenon DEF Written, lo, hi

(***************************************************************************)
(* Whatever is accessed, memory stays an array of words over its cells      *)
(* (memory.sv:96-129).                                                      *)
(***************************************************************************)
THEOREM BusInvariant == Spec => []BusInv
<1>1. Init => BusInv
  BY DEF Init, MemInit, BusInv
<1>2. BusInv /\ [Next]_busVars => BusInv'
  <2> SUFFICES ASSUME BusInv, [Next]_busVars PROVE BusInv'
    OBVIOUS
  <2>1. ASSUME NEW we, NEW a, NEW f3, NEW new, MemClock(we, a, f3, new)
        PROVE  BusInv'
    <3>1. leds' \in SUBSET Int
      BY <2>1, WrittenBits DEF MemClock, BusInv
    <3>2. mem' \in [Cells -> SUBSET Int]
      BY <2>1, WrittenBits DEF MemClock, BusInv
    <3>3. QED
      BY <3>1, <3>2 DEF BusInv
  <2>2. CASE UNCHANGED busVars
    BY <2>2 DEF busVars, memVars, BusInv
  <2>3. QED
    BY <2>1, <2>2 DEF Next, Access, Read, Store
<1>3. QED
  BY <1>1, <1>2, PTL DEF Spec

\* The bytes after a store of data into a word of the memory or of the LEDs.
LEMMA StoreStoresBytes ==
    ASSUME BusInv, NEW store \in Word32, NEW f3 \in {{}, {0}, {1}}, NEW new \in SUBSET Int,
           MemClock(TRUE, store, f3, new)
    PROVE  Promise!Store(store, Size(f3), new)
<1> DEFINE low == Positions(Size(f3))
           named == BV(ABITS + 2) \cup LedBytes
<1>1. /\ low \subseteq {0, 1} /\ low = Positions(Size(f3))
      /\ BV(Size(f3)) = SUBSET low
  <2>1. Positions(0) = {} /\ Positions(1) = {0} /\ Positions(2) = {0, 1}
    BY DEF Positions
  <2>2. Size(f3) \in {0, 1, 2}
    BY DEF Size
  <2>3. QED
    BY <2>1, <2>2 DEF BV
<1>2. ASSUME NEW a
      PROVE  (\E k \in BV(Size(f3)) : a = (store \ low) \cup k) <=> Covers(store, f3, a)
  <2>1. ASSUME NEW k \in SUBSET low, a = (store \ low) \cup k
        PROVE  a \ low = store \ low
    BY <2>1
  <2>2. ASSUME a \ low = store \ low
        PROVE  a = (store \ low) \cup (a \cap low) /\ a \cap low \in SUBSET low
    BY <2>2
  <2>3. QED
    BY <1>1, <2>1, <2>2, Zenon DEF Covers
<1>3. ASSUME NEW a, Covers(store, f3, a)
      PROVE  a \ {0, 1} = store \ {0, 1}
  BY <1>1, <1>3 DEF Covers
<1>4. ASSUME NEW a \in named
      PROVE  ByteOf(a)' = IF Covers(store, f3, a) THEN Part(new, f3, a) ELSE ByteOf(a)
  <2>0. a \in Word32
    BY NamedBytes
  <2>1. CASE InMemory(a)
    <3>1. ByteOf(a) = Byte(mem[Cell(a)], a) /\ ByteOf(a)' = Byte(mem'[Cell(a)], a)
      BY <2>1 DEF ByteOf
    <3>2. CASE InMemory(store)
      <4>1. mem' = [mem EXCEPT ![Cell(store)] = Written(@, store, f3, new)]
        BY <3>2 DEF MemClock
      <4>2. Cell(a) \in Cells /\ Cell(store) \in Cells
        BY <2>0, <2>1, <3>2, SameCell
      <4>3. mem'[Cell(a)] = IF Cell(a) = Cell(store) THEN Written(mem[Cell(a)], store, f3, new)
                            ELSE mem[Cell(a)]
        BY <4>1, <4>2 DEF BusInv
      <4>4. CASE a \ {0, 1} = store \ {0, 1}
        <5>1. Cell(a) = Cell(store)
          BY <2>0, <2>1, <3>2, <4>4, SameCell
        <5>2. Byte(Written(mem[Cell(a)], store, f3, new), a) =
                IF Covers(store, f3, a) THEN Part(new, f3, a) ELSE Byte(mem[Cell(a)], a)
          BY <4>4, StoredByte
        <5>3. QED
          BY <3>1, <4>3, <5>1, <5>2, Zenon
      <4>5. CASE a \ {0, 1} # store \ {0, 1}
        <5>1. Cell(a) # Cell(store)
          BY <2>0, <2>1, <3>2, <4>5, SameCell
        <5>2. QED
          BY <1>3, <3>1, <4>3, <4>5, <5>1, Zenon
      <4>6. QED
        BY <4>4, <4>5
    <3>3. CASE ~InMemory(store)
      <4>1. mem' = mem
        BY <3>3 DEF MemClock
      <4>2. a \ {0, 1} # store \ {0, 1}
        <5>1. \A j \in a : j < ABITS + 2
          BY <2>0, <2>1, MemoryIs
        <5>2. \E j \in store : ~(j < ABITS + 2)
          BY <3>3, MemoryIs
        <5>3. 0 < ABITS + 2 /\ 1 < ABITS + 2
          BY MemoryAssumption
        <5>4. QED
          BY <5>1, <5>2, <5>3, Zenon
      <4>3. QED
        BY <1>3, <3>1, <4>1, <4>2, Zenon
    <3>4. QED
      BY <3>2, <3>3
  <2>2. CASE ~InMemory(a)
    <3>1. ByteOf(a) = Byte(leds, a) /\ ByteOf(a)' = Byte(leds', a)
      BY <2>2 DEF ByteOf
    <3>2. a \ {0, 1} = 2 .. 31
      BY <2>0, <2>2, NamedBytes
    <3>3. AtLeds(store) <=> a \ {0, 1} = store \ {0, 1}
      BY <3>2, NamedBytes
    <3>4. CASE AtLeds(store)
      <4>1. leds' = Written(leds, store, f3, new)
        BY <3>4 DEF MemClock
      <4>2. Byte(Written(leds, store, f3, new), a) =
              IF Covers(store, f3, a) THEN Part(new, f3, a) ELSE Byte(leds, a)
        BY <3>3, <3>4, StoredByte
      <4>3. QED
        BY <3>1, <4>1, <4>2, Zenon
    <3>5. CASE ~AtLeds(store)
      <4>1. leds' = leds
        BY <3>5 DEF MemClock
      <4>2. QED
        BY <1>3, <3>1, <3>3, <3>5, <4>1, Zenon
    <3>6. QED
      BY <3>4, <3>5
  <2>3. QED
    BY <2>1, <2>2
<1>5. [a \in named |-> ByteOf(a)'] =
        [a \in named |-> IF \E k \in BV(Size(f3)) : a = (store \ low) \cup k
                        THEN Part(new, f3, a) ELSE [e \in named |-> ByteOf(e)][a]]
  <2> HIDE DEF low, named
  <2>1. QED
    BY <1>2, <1>4, Zenon
<1>6. /\ \A n : Promise!Positions(n) = Positions(n) /\ Promise!BV(n) = BV(n)
      /\ \A w, hi, lo : Promise!Slice(w, hi, lo) = Slice(w, hi, lo)
  BY Zenon DEF Promise!Positions, Promise!BV, Promise!Slice, Positions, BV, Slice
<1>7. ASSUME NEW w
      PROVE  Promise!Value(w) = Value(w)
  <2>1. Promise!Pow2 = Pow2
    BY Zenon DEF Promise!Pow2, Pow2
  <2>2. Promise!ValueBelow(w) = ValueBelow(w)
    BY <2>1, Zenon DEF Promise!ValueBelow, ValueBelow
  <2>3. Promise!Max(w) = Max(w)
    BY Zenon DEF Promise!Max, Max
  <2>4. QED
    BY <2>2, <2>3, Zenon DEF Value, Promise!Value
<1>8. QED
  BY <1>5, <1>6, <1>7, Zenon DEF Promise!Store, Promise!ByteOf, Part

(***************************************************************************)
(* For every size of the memory and every sequence of accesses, a store of  *)
(* one, two or four bytes changes these bytes and no other.                 *)
(***************************************************************************)
THEOREM StoresAreByteExactHolds == Spec => StoresAreByteExact
<1> DEFINE Exact == IF last'.mem_write
                    THEN Promise!Store(last'.address, Size(last'.funct3), last'.data)
                    ELSE UNCHANGED <<mem, leds>>
<1>1. ASSUME BusInv, [Next]_busVars
      PROVE  [Exact]_busVars
  <2>1. ASSUME NEW a \in BusAddresses, NEW f3 \in Funct3s, Read(a, f3)
        PROVE  Exact
    BY <2>1 DEF Read, MemClock
  <2>2. ASSUME NEW a \in BusAddresses, NEW f3 \in {{}, {0}, {1}}, NEW new \in BusData,
               Store(a, f3, new)
        PROVE  Exact
    <3>1. a \in Word32 /\ new \in SUBSET Int
      BY BusAssumption DEF Word32, BV, Positions
    <3>2. MemClock(TRUE, a, f3, new)
          /\ last' = [mem_write |-> TRUE, address |-> a, funct3 |-> f3, data |-> new]
      BY <2>2 DEF Store
    <3>3. Promise!Store(a, Size(f3), new)
      BY <1>1, <3>1, <3>2, StoreStoresBytes
    <3>4. last'.mem_write /\ last'.address = a /\ last'.funct3 = f3 /\ last'.data = new
      BY <3>2
    <3>5. QED
      BY <3>3, <3>4, Zenon
  <2>3. QED
    BY <1>1, <2>1, <2>2, Zenon DEF Next, Access
<1>2. Spec => [][Exact]_busVars
  BY <1>1, BusInvariant, PTL DEF Spec
<1>3. QED
  BY <1>2, Zenon DEF StoresAreByteExact

-----------------------------------------------------------------------------
(***************************************************************************)
(* The colour machine.  A counter of $clog2(n) bits holds n values.         *)
(***************************************************************************)
LEMMA Pow2Exceeds == \A n \in Nat : Pow2[n] >= n + 1
<1> DEFINE E == {n \in Nat : Pow2[n] >= n + 1}
<1>1. 0 \in E /\ \A n \in Nat : n \in E => n + 1 \in E
  BY Pow2Def
<1> HIDE DEF E
<1>2. Nat \subseteq E
  BY <1>1, SetInduction
<1> QED
  BY <1>2 DEF E

LEMMA EnoughBits ==
    ASSUME NEW n \in Nat \ {0, 1}
    PROVE  Pow2[Clog2(n)] \in Nat /\ Pow2[Clog2(n)] >= n
<1> DEFINE T == {k \in Nat : Pow2[k] >= n}
           P(k) == Pow2[k] >= n /\ Pow2[k - 1] < n
<1>1. n \in T
  BY Pow2Exceeds, Pow2Def
<1>2. PICK k \in T : \A m \in T : k <= m
  <2> HIDE DEF T
  <2>1. T \in SUBSET Nat /\ T # {}
    BY <1>1 DEF T
  <2> QED
    BY <2>1, Least
<1>3. k \in 1 .. n
  BY <1>1, <1>2, Pow2Def
<1>4. Pow2[k - 1] < n
  <2>1. k - 1 \in Nat /\ k - 1 \notin T
    BY <1>2, <1>3
  <2> QED
    BY <2>1, Pow2Def
<1>5. \E j \in 1 .. n : P(j)
  BY <1>2, <1>3, <1>4
<1>6. Clog2(n) \in 1 .. n /\ P(Clog2(n))
  BY <1>5, Zenon DEF Clog2
<1> QED
  BY <1>6, Pow2Def

(***************************************************************************)
(* The inductive invariant: behind the first colour the counter is the      *)
(* number of edges that showed the colour.                                  *)
(***************************************************************************)
ColourInv ==
    /\ state \in Colours
    /\ count \in Counter(COLOR_INTERVAL)
    /\ shown = -1 \/ (shown = count /\ count < COLOR_INTERVAL)

LEMMA ColourStep ==
    ASSUME ColourInv, [ColourClock]_colourVars
    PROVE  /\ ColourInv'
           /\ [/\ state' # state /\ shown # -1 => shown + 1 = COLOR_INTERVAL
               /\ shown + 1 = COLOR_INTERVAL => state' # state]_colourVars
<1>1. CASE UNCHANGED colourVars
  BY <1>1 DEF ColourInv, colourVars
<1>2. CASE ColourClock
  <2> DEFINE n == COLOR_INTERVAL
             values == Pow2[Clog2(n)]
  <2>1. n \in Nat \ {0, 1}
    BY ColourAssumption
  <2>2. values \in Nat /\ values >= n
    BY <2>1, EnoughBits
  <2>3. count \in 0 .. values - 1
    BY DEF ColourInv, Counter
  <2>4. /\ count' = IF count = n - 1 THEN 0 ELSE (count + 1) % values
        /\ IF count = n - 1
           THEN state' = NextColour[state] /\ shown' = 0
           ELSE state' = state /\ shown' = IF shown = -1 THEN -1 ELSE shown + 1
    BY <1>2 DEF ColourClock, Counted
  <2>5. state \in Colours /\ (shown = -1 \/ (shown = count /\ count < n))
    BY DEF ColourInv
  <2>6. NextColour[state] \in Colours /\ NextColour[state] # state
    BY <2>5 DEF NextColour, Colours
  <2> HIDE DEF n, values
  <2>7. (count + 1) % values \in 0 .. values - 1 /\ (count + 1 < values => (count + 1) % values = count + 1)
    BY <2>1, <2>2, <2>3
  <2>8. state' \in Colours
    BY <2>4, <2>5, <2>6
  <2>9. count' \in 0 .. values - 1
    BY <2>1, <2>2, <2>4, <2>7
  <2>10. shown' = -1 \/ (shown' = count' /\ count' < n)
    BY <2>1, <2>2, <2>3, <2>4, <2>5, <2>7
  <2>11. /\ state' # state /\ shown # -1 => shown + 1 = n
         /\ shown + 1 = n => state' # state
    BY <2>1, <2>3, <2>4, <2>5, <2>6
  <2> QED
    BY <2>8, <2>9, <2>10, <2>11 DEF ColourInv, Counter, n, values
<1> QED
  BY <1>1, <1>2

(***************************************************************************)
(* Line 19-36 of top.sv of miniproject01: for every interval and every      *)
(* power-up value of the counters, each colour but the first is shown for   *)
(* exactly its interval.                                                    *)
(***************************************************************************)
THEOREM EachColourItsIntervalHolds == ColourSpec => EachColourItsInterval
<1> DEFINE Exact == /\ state' # state /\ shown # -1 => shown + 1 = COLOR_INTERVAL
                    /\ shown + 1 = COLOR_INTERVAL => state' # state
<1>1. ColourInit => ColourInv
  BY DEF ColourInit, ColourInv, Colours
<1>2. ColourInv /\ [ColourClock]_colourVars => ColourInv' /\ [Exact]_colourVars
  BY ColourStep
<1>3. ColourSpec => [][Exact]_colourVars
  BY <1>1, <1>2, PTL DEF ColourSpec
<1> QED
  BY <1>3 DEF EachColourItsInterval

=============================================================================
