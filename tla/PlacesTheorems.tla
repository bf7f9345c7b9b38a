---------------------------- MODULE PlacesTheorems ----------------------------
(***************************************************************************)
(* What a list keeps of its elements: Places.  Each fact about every place *)
(* is shown by its least counterexample, a set of naturals.                *)
(***************************************************************************)
EXTENDS Places, WellFoundedInduction, TLAPS

(* Every set of naturals that is not empty has a least element.            *)
LEMMA LeastOne ==
    ASSUME NEW T \in SUBSET Nat, T # {}
    PROVE  \E x \in T : \A y \in T : x <= y
<1>1. PICK x \in T : \A y \in T : ~(<<y, x>> \in OpToRel(<, Nat))
  BY WFMin, NatLessThanWellFounded
<1>2. \A y \in T : <<y, x>> \in OpToRel(<, Nat) <=> y < x
  BY DEF OpToRel
<1>3. \A y \in T : ~(y < x)
  BY <1>1, <1>2, Zenon
<1>4. \A y \in T : x \in Nat /\ y \in Nat
  OBVIOUS
<1> QED BY <1>3, <1>4

(* What holds at 0 and of every next number holds of all. *)
LEMMA FromZero ==
    ASSUME NEW T, 0 \in T, \A n \in Nat : n \in T => n + 1 \in T
    PROVE  Nat \subseteq T
<1> SUFFICES ASSUME Nat \ T # {} PROVE FALSE
  OBVIOUS
<1>1. PICK x \in Nat \ T : \A y \in Nat \ T : x <= y
  BY LeastOne
<1>4. x # 0 /\ x - 1 \in Nat /\ x - 1 < x /\ (x - 1) + 1 = x
  OBVIOUS
<1> QED BY <1>1, <1>4

(* The same up to a bound. *)
LEMMA FromZeroTo ==
    ASSUME NEW T, NEW m \in Nat, 0 \in T, \A n \in 0 .. (m - 1) : n \in T => n + 1 \in T
    PROVE  0 .. m \subseteq T
<1> DEFINE U == T \cup {n \in Nat : n > m}
<1>1. Nat \subseteq U
  <2>1. 0 \in U /\ \A n \in Nat : n \in U => n + 1 \in U
    OBVIOUS
  <2> HIDE DEF U
  <2> QED BY <2>1, FromZero
<1> QED BY <1>1

Unrolled(s, I, f, n) ==
    [k \in 0 .. n |-> IF k = 0 THEN <<>>
                     ELSE IF k \in I THEN Append(f[k - 1], s[k]) ELSE f[k - 1]]

(* The function of KeptOf exists. *)
LEMMA KeptExists ==
    ASSUME NEW s, NEW I, NEW m \in Nat
    PROVE  \E f : f = Unrolled(s, I, f, m)
<1> DEFINE T == {n \in Nat : \E f : f = Unrolled(s, I, f, n)}
<1>1. 0 \in T
  <2> DEFINE f == [k \in 0 .. 0 |-> <<>>]
  <2>1. f = Unrolled(s, I, f, 0)
    BY DEF Unrolled
  <2> HIDE DEF f
  <2> QED BY <2>1
<1>2. ASSUME NEW n \in Nat, n \in T PROVE n + 1 \in T
  <2>1. PICK f : f = Unrolled(s, I, f, n)
    BY <1>2
  <2> DEFINE g == [k \in 0 .. n + 1 |->
        IF k = n + 1 THEN (IF n + 1 \in I THEN Append(f[n], s[n + 1]) ELSE f[n]) ELSE f[k]]
  <2>2. ASSUME NEW k \in 0 .. n + 1
        PROVE  g[k] = IF k = 0 THEN <<>>
                       ELSE IF k \in I THEN Append(g[k - 1], s[k]) ELSE g[k - 1]
    <3>1. CASE k = n + 1
      <4>1. k # 0 /\ k - 1 = n /\ g[n] = f[n] /\ n \in 0 .. n + 1
        BY <3>1
      <4>2. g[k] = IF n + 1 \in I THEN Append(f[n], s[n + 1]) ELSE f[n]
        BY <3>1
      <4> HIDE DEF g
      <4> QED BY <3>1, <4>1, <4>2
    <3>2. CASE k = 0
      BY <2>1, <3>2 DEF Unrolled
    <3>3. CASE k \in 1 .. n
      <4>1. g[k] = f[k] /\ g[k - 1] = f[k - 1] /\ k \in 0 .. n /\ k # 0
        BY <3>3
      <4>2. f[k] = Unrolled(s, I, f, n)[k]
        BY <2>1
      <4>3. f[k] = IF k = 0 THEN <<>>
                    ELSE IF k \in I THEN Append(f[k - 1], s[k]) ELSE f[k - 1]
        BY <4>1, <4>2 DEF Unrolled
      <4> HIDE DEF g
      <4> QED BY <4>1, <4>3
    <3> QED BY <3>1, <3>2, <3>3
  <2>3. g = [k \in 0 .. n + 1 |-> g[k]]
    OBVIOUS
  <2> HIDE DEF g
  <2>4. g = Unrolled(s, I, g, n + 1)
    BY <2>2, <2>3 DEF Unrolled
  <2> QED BY <2>4
<1> HIDE DEF T
<1>3. m \in T
  BY <1>1, <1>2, FromZero
<1> QED BY <1>3 DEF T

LEMMA KeptIs ==
    ASSUME NEW S, NEW s \in Seq(S), NEW I
    PROVE  LET f == KeptOf(s, I) IN
           /\ f[0] = <<>>
           /\ \A n \in 1 .. Len(s) : f[n] = IF n \in I THEN Append(f[n - 1], s[n]) ELSE f[n - 1]
<1> DEFINE f == KeptOf(s, I)
<1>0. Len(s) \in Nat
  OBVIOUS
<1>1. f = Unrolled(s, I, f, Len(s))
  <2>1. \E g : g = Unrolled(s, I, g, Len(s))
    BY <1>0, KeptExists
  <2>2. f = CHOOSE g : g = Unrolled(s, I, g, Len(s))
    BY DEF KeptOf, Unrolled
  <2> QED BY <2>1, <2>2, Zenon
<1> HIDE DEF f
<1>2. \A k \in 0 .. Len(s) : f[k] = Unrolled(s, I, f, Len(s))[k]
  BY <1>1
<1>3. /\ f[0] = <<>>
      /\ \A n \in 1 .. Len(s) : f[n] = IF n \in I THEN Append(f[n - 1], s[n]) ELSE f[n - 1]
  BY <1>2 DEF Unrolled
<1> QED BY <1>3 DEF f

(* What is kept of the first n elements: p says where each comes from.      *)
Order(f, s, n, P, p) ==
    /\ p \in [1 .. Len(f[n]) -> P]
    /\ \A i \in 1 .. Len(f[n]) : f[n][i] = s[p[i]]
    /\ \A i, j \in 1 .. Len(f[n]) : i < j => p[i] < p[j]
    /\ \A k \in P : \E i \in 1 .. Len(f[n]) : p[i] = k
Prefix(f, S, s, I, n) ==
    /\ f[n] \in Seq(S) /\ Len(f[n]) <= n
    /\ Len(f[n]) = n <=> 1 .. n \subseteq I
    /\ \E p : Order(f, s, n, {k \in 1 .. n : k \in I}, p)

LEMMA KeptFacts ==
    ASSUME NEW S, NEW s \in Seq(S), NEW I
    PROVE  Prefix(KeptOf(s, I), S, s, I, Len(s))
<1> DEFINE f == KeptOf(s, I)
           P(n) == {k \in 1 .. n : k \in I}
           T == {n \in 0 .. Len(s) : Prefix(f, S, s, I, n)}
<1>0. Len(s) \in Nat
  OBVIOUS
<1>f. /\ f[0] = <<>>
      /\ \A n \in 1 .. Len(s) : f[n] = IF n \in I THEN Append(f[n - 1], s[n]) ELSE f[n - 1]
  BY KeptIs
<1> HIDE DEF f
<1>1. 0 \in T
  <2>1. f[0] \in Seq(S) /\ Len(f[0]) = 0 /\ 1 .. 0 = {} /\ P(0) = {}
    BY <1>f
  <2>2. Order(f, s, 0, P(0), [i \in 1 .. 0 |-> 0])
    BY <2>1 DEF Order
  <2> HIDE DEF P
  <2>3. (\E p : Order(f, s, 0, P(0), p)) /\ (Len(f[0]) = 0 <=> 1 .. 0 \subseteq I) /\ Len(f[0]) <= 0
    BY <2>1, <2>2
  <2> QED BY <2>1, <2>3, <1>0 DEF Prefix, P
<1>2. ASSUME NEW n \in 0 .. (Len(s) - 1), n \in T PROVE n + 1 \in T
  <2>0. n + 1 \in 1 .. Len(s) /\ (n + 1) - 1 = n /\ s[n + 1] \in S /\ n \in Nat
    BY <1>0
  <2>1. Prefix(f, S, s, I, n)
    BY <1>2
  <2>p. PICK p : Order(f, s, n, P(n), p)
    BY <2>1 DEF Prefix
  <2>l. /\ f[n] \in Seq(S) /\ Len(f[n]) <= n /\ Len(f[n]) \in Nat
        /\ Len(f[n]) = n <=> 1 .. n \subseteq I
    BY <2>1 DEF Prefix
  <2>2. CASE n + 1 \notin I
    <3>1. f[n + 1] = f[n]
      BY <1>f, <2>0, <2>2
    <3>2. P(n + 1) = P(n)
      BY <2>0, <2>2
    <3>3. ~(1 .. n + 1 \subseteq I)
      BY <2>0, <2>2
    <3>4. Len(f[n]) <= n + 1 /\ Len(f[n]) # n + 1
      BY <2>l, <2>0
    <3>5. Order(f, s, n + 1, P(n + 1), p)
      <4> HIDE DEF P
      <4> QED BY <2>p, <3>1, <3>2 DEF Order
    <3>6. Prefix(f, S, s, I, n + 1)
      BY <2>l, <3>1, <3>3, <3>4, <3>5 DEF Prefix
    <3> QED BY <3>6, <2>0
  <2>3. CASE n + 1 \in I
    <3>1. f[n + 1] = Append(f[n], s[n + 1])
      BY <1>f, <2>0, <2>3
    <3>2. /\ f[n + 1] \in Seq(S) /\ Len(f[n + 1]) = Len(f[n]) + 1
          /\ \A i \in 1 .. Len(f[n]) : f[n + 1][i] = f[n][i]
          /\ f[n + 1][Len(f[n]) + 1] = s[n + 1]
      BY <3>1, <2>l, <2>0
    <3>3. 1 .. n + 1 \subseteq I <=> 1 .. n \subseteq I
      BY <2>0, <2>3
    <3>4. Len(f[n + 1]) <= n + 1 /\ (Len(f[n + 1]) = n + 1 <=> 1 .. n + 1 \subseteq I)
      BY <3>2, <3>3, <2>l, <2>0
    <3> DEFINE m == Len(f[n])
               q == [i \in 1 .. m + 1 |-> IF i = m + 1 THEN n + 1 ELSE p[i]]
    <3>5. P(n + 1) = P(n) \cup {n + 1}
      BY <2>0, <2>3
    <3>6. /\ p \in [1 .. m -> P(n)]
          /\ \A i \in 1 .. m : f[n][i] = s[p[i]]
          /\ \A i, j \in 1 .. m : i < j => p[i] < p[j]
          /\ \A k \in P(n) : \E i \in 1 .. m : p[i] = k
      BY <2>p DEF Order
    <3>7. /\ m \in Nat /\ q[m + 1] = n + 1 /\ \A i \in 1 .. m : q[i] = p[i]
          /\ q \in [1 .. m + 1 -> P(n + 1)]
      <4>1. m \in Nat /\ \A i \in 1 .. m : i \in 1 .. m + 1 /\ i # m + 1
        BY <2>l
      <4>2. m + 1 \in 1 .. m + 1 /\ \A i \in 1 .. m + 1 : i = m + 1 \/ i \in 1 .. m
        BY <4>1
      <4> HIDE DEF m, P
      <4> QED BY <3>5, <3>6, <4>1, <4>2
    <3>8. \A k \in P(n) : k \in 1 .. n
      OBVIOUS
    <3> HIDE DEF q, P
    <3>9. /\ \A i \in 1 .. m + 1 : i = m + 1 \/ i \in 1 .. m
          /\ Len(f[n + 1]) = m + 1 /\ \A i \in 1 .. m : i \in 1 .. m + 1 /\ i < m + 1
      BY <3>7, <3>2
    <3>10. \A i \in 1 .. m + 1 : f[n + 1][i] = s[q[i]]
      BY <3>2, <3>6, <3>7, <3>9
    <3>11. ASSUME NEW i \in 1 .. m + 1, NEW j \in 1 .. m + 1, i < j PROVE q[i] < q[j]
      <4>1. i \in 1 .. m /\ p[i] \in 1 .. n
        BY <3>6, <3>7, <3>8, <3>11
      <4>2. CASE j = m + 1
        BY <4>1, <4>2, <3>7, <2>0
      <4>3. CASE j \in 1 .. m
        BY <4>1, <4>3, <3>6, <3>7, <3>11
      <4> QED BY <4>2, <4>3, <3>9
    <3>12. \A k \in P(n + 1) : \E i \in 1 .. m + 1 : q[i] = k
      <4>1. m + 1 \in 1 .. m + 1
        BY <3>7
      <4> QED BY <3>5, <3>6, <3>7, <3>9, <4>1
    <3> HIDE DEF m
    <3>13. Order(f, s, n + 1, P(n + 1), q)
      BY <3>7, <3>9, <3>10, <3>11, <3>12 DEF Order
    <3>14. Prefix(f, S, s, I, n + 1)
      BY <3>2, <3>4, <3>13 DEF Prefix, P
    <3> QED BY <3>14, <2>0
  <2> QED BY <2>2, <2>3
<1> HIDE DEF T
<1>3. 0 .. Len(s) \subseteq T
  BY <1>0, <1>1, <1>2, FromZeroTo
<1>4. Len(s) \in T
  BY <1>0, <1>3
<1> QED BY <1>4 DEF T, f

(* What is kept has the type of the list, and is as long as it only if it  *)
(* is the list.                                                            *)
LEMMA PickedFacts ==
    ASSUME NEW S, NEW s \in Seq(S), NEW I \in SUBSET DOMAIN s
    PROVE  /\ Picked(s, I) \in Seq(S) /\ Len(Picked(s, I)) <= Len(s)
           /\ Len(Picked(s, I)) = Len(s) <=> I = DOMAIN s
<1> DEFINE a == KeptOf(s, I)[Len(s)]
<1>1. /\ a \in Seq(S) /\ Len(a) <= Len(s)
      /\ Len(a) = Len(s) <=> 1 .. Len(s) \subseteq I
  BY KeptFacts DEF Prefix
<1>2. 1 .. Len(s) \subseteq I <=> I = DOMAIN s
  <2>1. DOMAIN s = 1 .. Len(s) /\ I \subseteq DOMAIN s
    OBVIOUS
  <2> QED BY <2>1
<1> HIDE DEF a
<1> QED BY <1>1, <1>2 DEF Picked, a

(* It is the elements at the places, in their order.                       *)
InOrder(s, I, a, p) ==
    /\ \A i \in DOMAIN a : a[i] = s[p[i]]
    /\ \A i, j \in DOMAIN a : i < j => p[i] < p[j]
    /\ \A k \in I : \E i \in DOMAIN a : p[i] = k

LEMMA PickedInOrder ==
    ASSUME NEW S, NEW s \in Seq(S), NEW I \in SUBSET DOMAIN s
    PROVE  \E p \in [DOMAIN Picked(s, I) -> I] : InOrder(s, I, Picked(s, I), p)
<1> DEFINE f == KeptOf(s, I)
<1>1. Prefix(f, S, s, I, Len(s))
  BY KeptFacts
<1>2. Picked(s, I) = f[Len(s)] /\ {k \in 1 .. Len(s) : k \in I} = I
  BY DEF Picked
<1> HIDE DEF f
<1>3. PICK p : Order(f, s, Len(s), I, p)
  BY <1>1, <1>2 DEF Prefix
<1>4. DOMAIN Picked(s, I) = 1 .. Len(f[Len(s)])
  BY <1>1, <1>2 DEF Prefix
<1>5. p \in [DOMAIN Picked(s, I) -> I] /\ InOrder(s, I, Picked(s, I), p)
  BY <1>2, <1>3, <1>4 DEF Order, InOrder
<1> QED BY <1>5

(* Every element that is kept is one at a place, and every such is kept.   *)
LEMMA PickedElements ==
    ASSUME NEW S, NEW s \in Seq(S), NEW I \in SUBSET DOMAIN s
    PROVE  /\ \A i \in DOMAIN Picked(s, I) : \E k \in I : Picked(s, I)[i] = s[k]
           /\ \A k \in I : \E i \in DOMAIN Picked(s, I) : Picked(s, I)[i] = s[k]
<1>1. PICK p \in [DOMAIN Picked(s, I) -> I] : InOrder(s, I, Picked(s, I), p)
  BY PickedInOrder
<1> QED BY <1>1 DEF InOrder

PlacesOf(S, s, I, a, p) == a \in Seq(S) /\ p \in [DOMAIN a -> I] /\ InOrder(s, I, a, p)

(* Where two neighbours are kept they stay neighbours.                     *)
LEMMA NextPlace ==
    ASSUME NEW S, NEW s, NEW I \in SUBSET Nat, NEW a, NEW p, PlacesOf(S, s, I, a, p),
           NEW i \in DOMAIN a, p[i] + 1 \in I
    PROVE  i + 1 \in DOMAIN a /\ p[i + 1] = p[i] + 1
<1>a. a \in Seq(S) /\ p \in [DOMAIN a -> I]
  BY DEF PlacesOf
<1>0. Len(a) \in Nat /\ DOMAIN a = 1 .. Len(a)
  BY <1>a
<1>t. \A x \in DOMAIN a : x \in Nat /\ p[x] \in Nat
  <2>1. \A x \in DOMAIN a : x \in Nat
    BY <1>0
  <2>2. \A x \in DOMAIN a : p[x] \in I
    BY <1>a
  <2> QED BY <2>1, <2>2
<1>1. PICK m \in DOMAIN a : p[m] = p[i] + 1
  BY DEF PlacesOf, InOrder
<1>2. m \in Nat /\ i \in Nat /\ p[m] \in Nat /\ p[i] \in Nat
  BY <1>t
<1>3. i < m
  <2> SUFFICES ASSUME ~(i < m) PROVE FALSE
    OBVIOUS
  <2>1. m = i \/ m < i
    BY <1>2
  <2>2. m < i => p[m] < p[i]
    BY DEF PlacesOf, InOrder
  <2> QED BY <1>1, <1>2, <2>1, <2>2
<1>4. i + 1 \in DOMAIN a
  BY <1>0, <1>2, <1>3
<1>5. p[i] < p[i + 1] /\ p[i + 1] \in Nat
  BY <1>t, <1>2, <1>4 DEF PlacesOf, InOrder
<1>6. i + 1 = m \/ p[i + 1] < p[m]
  BY <1>2, <1>3, <1>4 DEF PlacesOf, InOrder
<1> QED BY <1>1, <1>2, <1>4, <1>5, <1>6

(* Of two lists of the elements at the same places, none is behind.        *)
Agreed(a, p, b, q, n) == \A m \in DOMAIN b : m < n => m \in DOMAIN a /\ p[m] = q[m]

LEMMA Behind ==
    ASSUME NEW S, NEW s, NEW I \in SUBSET Nat, NEW a, NEW p, PlacesOf(S, s, I, a, p),
           NEW b, NEW q, PlacesOf(S, s, I, b, q), NEW n \in DOMAIN b, Agreed(a, p, b, q, n)
    PROVE  n \in DOMAIN a /\ p[n] <= q[n]
<1>a. a \in Seq(S) /\ p \in [DOMAIN a -> I] /\ b \in Seq(S) /\ q \in [DOMAIN b -> I]
  BY DEF PlacesOf
<1>l. Len(a) \in Nat /\ DOMAIN a = 1 .. Len(a) /\ Len(b) \in Nat /\ DOMAIN b = 1 .. Len(b)
  BY <1>a
<1>t. \A x \in DOMAIN a : x \in Nat /\ p[x] \in Nat
  <2>1. \A x \in DOMAIN a : x \in Nat
    BY <1>l
  <2>2. \A x \in DOMAIN a : p[x] \in I
    BY <1>a
  <2> QED BY <2>1, <2>2
<1>n. q[n] \in I
  BY <1>a
<1>m. n \in Nat /\ q[n] \in Nat
  <2>1. n \in Nat
    BY <1>l
  <2>2. q[n] \in Nat
    BY <1>n
  <2> QED BY <2>1, <2>2
<1>0. /\ Len(a) \in Nat /\ DOMAIN a = 1 .. Len(a) /\ Len(b) \in Nat /\ DOMAIN b = 1 .. Len(b)
      /\ n \in Nat /\ q[n] \in I /\ q[n] \in Nat
  BY <1>l, <1>n, <1>m
<1>1. PICK m \in DOMAIN a : p[m] = q[n]
  BY <1>0 DEF PlacesOf, InOrder
<1>2. m \in Nat /\ p[m] \in Nat
  BY <1>t
<1>3. ~(m < n)
  <2> SUFFICES ASSUME m < n PROVE FALSE
    OBVIOUS
  <2>1. m \in DOMAIN b
    BY <1>0, <1>2
  <2>2. q[m] < q[n] /\ p[m] = q[m]
    BY <2>1 DEF PlacesOf, Agreed, InOrder
  <2> QED BY <1>0, <1>1, <2>2
<1>4. n \in DOMAIN a
  BY <1>0, <1>2, <1>3
<1>p. p[n] \in Nat
  BY <1>t, <1>4
<1>5. n = m \/ p[n] < p[m]
  BY <1>0, <1>2, <1>3, <1>4 DEF PlacesOf, InOrder
<1> QED BY <1>0, <1>1, <1>4, <1>p, <1>5

(* There is one list of the elements at given places.                      *)
LEMMA OneList ==
    ASSUME NEW S, NEW s, NEW I \in SUBSET Nat, NEW a \in Seq(S), NEW p \in [DOMAIN a -> I],
           InOrder(s, I, a, p), NEW b \in Seq(S), NEW q \in [DOMAIN b -> I], InOrder(s, I, b, q)
    PROVE  a = b
<1>0. Len(a) \in Nat /\ DOMAIN a = 1 .. Len(a) /\ Len(b) \in Nat /\ DOMAIN b = 1 .. Len(b)
  OBVIOUS
<1>p. PlacesOf(S, s, I, a, p) /\ PlacesOf(S, s, I, b, q)
  BY DEF PlacesOf
<1> DEFINE D == DOMAIN a \cup DOMAIN b
           T == {n \in D : ~(n \in DOMAIN a /\ n \in DOMAIN b /\ p[n] = q[n])}
<1>1. T = {}
  <2> SUFFICES ASSUME T # {} PROVE FALSE
    OBVIOUS
  <2>1. T \in SUBSET Nat
    BY <1>0
  <2>2. PICK n \in T : \A m \in T : n <= m
    <3> HIDE DEF T
    <3> QED BY <2>1, LeastOne
  <2>3. \A m \in D : m < n => m \in DOMAIN a /\ m \in DOMAIN b /\ p[m] = q[m]
    <3> SUFFICES ASSUME NEW m \in D, m < n, m \in T PROVE FALSE
      OBVIOUS
    <3>1. n <= m /\ m \in Nat /\ n \in Nat
      BY <2>1, <2>2
    <3> QED BY <3>1
  <2>4. n \in DOMAIN b => n \in DOMAIN a /\ p[n] <= q[n]
    <3> SUFFICES ASSUME n \in DOMAIN b PROVE n \in DOMAIN a /\ p[n] <= q[n]
      OBVIOUS
    <3>1. Agreed(a, p, b, q, n)
      BY <2>3 DEF Agreed
    <3> QED BY <1>p, <3>1, Behind
  <2>5. n \in DOMAIN a => n \in DOMAIN b /\ q[n] <= p[n]
    <3> SUFFICES ASSUME n \in DOMAIN a PROVE n \in DOMAIN b /\ q[n] <= p[n]
      OBVIOUS
    <3>1. Agreed(b, q, a, p, n)
      BY <2>3 DEF Agreed
    <3> QED BY <1>p, <3>1, Behind
  <2>6. n \in DOMAIN a /\ n \in DOMAIN b
    BY <2>2, <2>4, <2>5
  <2>7. p[n] \in Nat /\ q[n] \in Nat /\ p[n] <= q[n] /\ q[n] <= p[n]
    BY <2>4, <2>5, <2>6
  <2> QED BY <2>2, <2>6, <2>7
<1>2. DOMAIN a = DOMAIN b /\ \A n \in DOMAIN a : p[n] = q[n]
  BY <1>1
<1>3. \A n \in DOMAIN a : a[n] = b[n]
  BY <1>2 DEF InOrder
<1> QED BY <1>0, <1>2, <1>3

(* A list whose elements are those at the places, in order, is Picked.     *)
LEMMA PickedIs ==
    ASSUME NEW S, NEW s \in Seq(S), NEW I \in SUBSET DOMAIN s, NEW a \in Seq(S),
           NEW p \in [DOMAIN a -> I], InOrder(s, I, a, p)
    PROVE  a = Picked(s, I)
<1>1. PICK q \in [DOMAIN Picked(s, I) -> I] : InOrder(s, I, Picked(s, I), q)
  BY PickedInOrder
<1>2. Picked(s, I) \in Seq(S) /\ I \in SUBSET Nat
  BY PickedFacts
<1> QED BY <1>1, <1>2, OneList

(* Two lists in which the same is kept, at places that correspond.         *)
Corresponds(s, I, t, J, h) ==
    /\ h \in [I -> J] /\ \A i \in I : t[h[i]] = s[i]
    /\ \A i, k \in I : i < k => h[i] < h[k]
    /\ \A j \in J : \E i \in I : h[i] = j

LEMMA SamePicked ==
    ASSUME NEW S, NEW s \in Seq(S), NEW I \in SUBSET DOMAIN s, NEW t \in Seq(S), NEW J \in SUBSET DOMAIN t,
           NEW h, Corresponds(s, I, t, J, h)
    PROVE  Picked(s, I) = Picked(t, J)
<1>h. /\ h \in [I -> J] /\ \A i \in I : t[h[i]] = s[i]
      /\ \A i, k \in I : i < k => h[i] < h[k]
      /\ \A j \in J : \E i \in I : h[i] = j
  BY DEF Corresponds
<1>1. PICK p \in [DOMAIN Picked(s, I) -> I] : InOrder(s, I, Picked(s, I), p)
  BY PickedInOrder
<1>2. Picked(s, I) \in Seq(S)
  BY PickedFacts
<1> DEFINE a == Picked(s, I)
           q == [n \in DOMAIN a |-> h[p[n]]]
<1> HIDE DEF a
<1>3. q \in [DOMAIN a -> J] /\ \A n \in DOMAIN a : p[n] \in I
  BY <1>h, <1>1 DEF a
<1>4. InOrder(t, J, a, q)
  <2>1. \A n \in DOMAIN a : a[n] = t[q[n]]
    BY <1>h, <1>1, <1>3 DEF a, InOrder
  <2>2. \A m, n \in DOMAIN a : m < n => q[m] < q[n]
    BY <1>h, <1>1, <1>3 DEF a, InOrder
  <2>3. \A j \in J : \E n \in DOMAIN a : q[n] = j
    BY <1>h, <1>1, <1>3 DEF a, InOrder
  <2> QED BY <2>1, <2>2, <2>3 DEF InOrder
<1> QED BY <1>2, <1>3, <1>4, PickedIs DEF a

(* An element kept at the front, and one at the end.                       *)
InFront(x, s, I, t, J) == t = <<x>> \o s /\ J = {1} \cup {i + 1 : i \in I}
AtEnd(x, s, I, t, J) == t = Append(s, x) /\ J = I \cup {Len(s) + 1}
Followed(r, x, a) == a = Append(r, x)

LEMMA PickedFront ==
    ASSUME NEW S, NEW s \in Seq(S), NEW I \in SUBSET DOMAIN s, NEW x \in S,
           NEW t, NEW J, InFront(x, s, I, t, J)
    PROVE  Picked(t, J) = <<x>> \o Picked(s, I)
<1>a. t = <<x>> \o s /\ J = {1} \cup {i + 1 : i \in I}
  BY DEF InFront
<1> DEFINE r == Picked(s, I)
           a == <<x>> \o r
<1>1. PICK p \in [DOMAIN r -> I] : InOrder(s, I, r, p)
  BY PickedInOrder
<1>2. r \in Seq(S)
  BY PickedFacts
<1> HIDE DEF r
<1>3. /\ Len(r) \in Nat /\ DOMAIN r = 1 .. Len(r) /\ Len(s) \in Nat /\ DOMAIN s = 1 .. Len(s)
      /\ \A n \in DOMAIN r : p[n] \in I /\ p[n] \in Nat /\ n \in Nat
  BY <1>2
<1>4. /\ t \in Seq(S) /\ Len(t) = Len(s) + 1 /\ DOMAIN t = 1 .. Len(s) + 1
      /\ t[1] = x /\ \A i \in 1 .. Len(s) : t[i + 1] = s[i]
  BY <1>a, <1>3
<1>5. /\ a \in Seq(S) /\ Len(a) = Len(r) + 1 /\ DOMAIN a = 1 .. Len(r) + 1
      /\ a[1] = x /\ \A n \in 1 .. Len(r) : a[n + 1] = r[n]
  BY <1>2, <1>3
<1> HIDE DEF a
<1> DEFINE q == [n \in DOMAIN a |-> IF n = 1 THEN 1 ELSE p[n - 1] + 1]
<1>6. ASSUME NEW n \in DOMAIN a, n # 1
      PROVE  n \in Nat /\ n - 1 \in DOMAIN r /\ (n - 1) + 1 = n /\ q[n] = p[n - 1] + 1 /\ p[n - 1] \in I /\ p[n - 1] \in Nat
  <2>1. n \in Nat /\ n - 1 \in DOMAIN r /\ (n - 1) + 1 = n
    BY <1>3, <1>5, <1>6
  <2> QED BY <1>3, <1>6, <2>1
<1>7. 1 \in DOMAIN a /\ q[1] = 1
  BY <1>3, <1>5
<1> HIDE DEF q
<1>8. q \in [DOMAIN a -> J]
  <2>1. q = [n \in DOMAIN a |-> q[n]]
    BY DEF q
  <2>2. \A n \in DOMAIN a : q[n] \in J
    BY <1>a, <1>6, <1>7
  <2> QED BY <2>1, <2>2
<1>9. \A n \in DOMAIN a : a[n] = t[q[n]]
  <2> SUFFICES ASSUME NEW n \in DOMAIN a PROVE a[n] = t[q[n]]
    OBVIOUS
  <2>1. CASE n = 1
    BY <1>4, <1>5, <1>7, <2>1
  <2>2. CASE n # 1
    <3>1. a[n] = r[n - 1] /\ t[q[n]] = s[p[n - 1]]
      BY <1>3, <1>4, <1>5, <1>6, <2>2
    <3> QED BY <1>1, <1>6, <2>2, <3>1 DEF InOrder
  <2> QED BY <2>1, <2>2
<1>10. \A m, n \in DOMAIN a : m < n => q[m] < q[n]
  <2> SUFFICES ASSUME NEW m \in DOMAIN a, NEW n \in DOMAIN a, m < n PROVE q[m] < q[n]
    OBVIOUS
  <2>1. n # 1 /\ n \in Nat /\ m \in Nat
    BY <1>3, <1>5
  <2>2. CASE m = 1
    <3>1. p[n - 1] \in DOMAIN s
      BY <1>6, <2>1
    <3> QED BY <1>3, <1>6, <1>7, <2>1, <2>2, <3>1
  <2>3. CASE m # 1
    <3>1. p[m - 1] < p[n - 1]
      BY <1>1, <1>6, <2>1, <2>3 DEF InOrder
    <3> QED BY <1>6, <2>1, <2>3, <3>1
  <2> QED BY <2>2, <2>3
<1>11. ASSUME NEW k \in J PROVE \E n \in DOMAIN a : q[n] = k
  <2>1. CASE k = 1
    BY <1>7, <2>1
  <2>2. CASE k # 1
    <3>1. PICK i \in I : k = i + 1
      BY <1>a, <1>11, <2>2
    <3>2. PICK n \in DOMAIN r : p[n] = i
      BY <1>1 DEF InOrder
    <3>n. n \in Nat /\ n \in 1 .. Len(r)
      BY <1>3
    <3>3. n + 1 \in DOMAIN a /\ n + 1 # 1 /\ (n + 1) - 1 = n
      BY <1>3, <1>5, <3>n
    <3>4. q[n + 1] = p[n] + 1
      BY <1>6, <3>3
    <3> QED BY <3>1, <3>2, <3>3, <3>4
  <2> QED BY <2>1, <2>2
<1>12. J \in SUBSET DOMAIN t
  BY <1>a, <1>3, <1>4
<1>13. InOrder(t, J, a, q)
  BY <1>9, <1>10, <1>11 DEF InOrder
<1>14. a = Picked(t, J)
  BY <1>4, <1>5, <1>8, <1>12, <1>13, PickedIs
<1> QED BY <1>14 DEF a, r

LEMMA PickedEnd ==
    ASSUME NEW S, NEW s \in Seq(S), NEW I \in SUBSET DOMAIN s, NEW x \in S,
           NEW t, NEW J, AtEnd(x, s, I, t, J)
    PROVE  Followed(Picked(s, I), x, Picked(t, J))
<1>a. t = Append(s, x) /\ J = I \cup {Len(s) + 1}
  BY DEF AtEnd
<1> DEFINE r == Picked(s, I)
           a == Append(r, x)
<1>1. PICK p \in [DOMAIN r -> I] : InOrder(s, I, r, p)
  BY PickedInOrder
<1>2. r \in Seq(S)
  BY PickedFacts
<1> HIDE DEF r
<1>3. /\ Len(r) \in Nat /\ DOMAIN r = 1 .. Len(r) /\ Len(s) \in Nat /\ DOMAIN s = 1 .. Len(s)
      /\ \A n \in DOMAIN r : p[n] \in I /\ p[n] \in Nat /\ n \in Nat
  BY <1>2
<1>4. /\ t \in Seq(S) /\ Len(t) = Len(s) + 1 /\ DOMAIN t = 1 .. Len(s) + 1
      /\ t[Len(s) + 1] = x /\ \A i \in 1 .. Len(s) : t[i] = s[i]
  BY <1>a, <1>3
<1>5. /\ a \in Seq(S) /\ Len(a) = Len(r) + 1 /\ DOMAIN a = 1 .. Len(r) + 1
      /\ a[Len(r) + 1] = x /\ \A n \in 1 .. Len(r) : a[n] = r[n]
  BY <1>2, <1>3
<1> HIDE DEF a
<1> DEFINE q == [n \in DOMAIN a |-> IF n = Len(r) + 1 THEN Len(s) + 1 ELSE p[n]]
<1>6. ASSUME NEW n \in DOMAIN a, n # Len(r) + 1
      PROVE  n \in DOMAIN r /\ q[n] = p[n] /\ p[n] \in I /\ p[n] \in Nat
  <2>1. n \in DOMAIN r
    BY <1>3, <1>5, <1>6
  <2> QED BY <1>3, <1>6, <2>1
<1>7. Len(r) + 1 \in DOMAIN a /\ q[Len(r) + 1] = Len(s) + 1
  BY <1>3, <1>5
<1> HIDE DEF q
<1>8. q \in [DOMAIN a -> J]
  <2>1. q = [n \in DOMAIN a |-> q[n]]
    BY DEF q
  <2>2. \A n \in DOMAIN a : q[n] \in J
    BY <1>a, <1>6, <1>7
  <2> QED BY <2>1, <2>2
<1>9. \A n \in DOMAIN a : a[n] = t[q[n]]
  <2> SUFFICES ASSUME NEW n \in DOMAIN a PROVE a[n] = t[q[n]]
    OBVIOUS
  <2>1. CASE n = Len(r) + 1
    BY <1>4, <1>5, <1>7, <2>1
  <2>2. CASE n # Len(r) + 1
    <3>1. a[n] = r[n] /\ t[q[n]] = s[p[n]]
      BY <1>3, <1>4, <1>5, <1>6, <2>2
    <3> QED BY <1>1, <1>6, <2>2, <3>1 DEF InOrder
  <2> QED BY <2>1, <2>2
<1>10. \A m, n \in DOMAIN a : m < n => q[m] < q[n]
  <2> SUFFICES ASSUME NEW m \in DOMAIN a, NEW n \in DOMAIN a, m < n PROVE q[m] < q[n]
    OBVIOUS
  <2>1. m # Len(r) + 1 /\ n \in Nat /\ m \in Nat
    BY <1>3, <1>5
  <2>2. CASE n = Len(r) + 1
    <3>1. p[m] \in DOMAIN s
      BY <1>6, <2>1
    <3> QED BY <1>3, <1>6, <1>7, <2>1, <2>2, <3>1
  <2>3. CASE n # Len(r) + 1
    <3>1. p[m] < p[n]
      BY <1>1, <1>6, <2>1, <2>3 DEF InOrder
    <3> QED BY <1>6, <2>1, <2>3, <3>1
  <2> QED BY <2>2, <2>3
<1>11. ASSUME NEW k \in J PROVE \E n \in DOMAIN a : q[n] = k
  <2>1. CASE k = Len(s) + 1
    BY <1>7, <2>1
  <2>2. CASE k # Len(s) + 1
    <3>1. PICK n \in DOMAIN r : p[n] = k
      BY <1>a, <1>1, <2>2 DEF InOrder
    <3>2. n \in DOMAIN a /\ n # Len(r) + 1
      BY <1>3, <1>5
    <3> QED BY <1>6, <3>1, <3>2
  <2> QED BY <2>1, <2>2
<1>12. J \in SUBSET DOMAIN t
  BY <1>a, <1>3, <1>4
<1>13. InOrder(t, J, a, q)
  BY <1>9, <1>10, <1>11 DEF InOrder
<1>14. a = Picked(t, J)
  BY <1>4, <1>5, <1>8, <1>12, <1>13, PickedIs
<1> QED BY <1>14 DEF a, r, Followed
=============================================================================
