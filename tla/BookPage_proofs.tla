-------------------------- MODULE BookPage_proofs --------------------------
(***************************************************************************)
(* BookPage accepts exactly the pages Snapshot accepts, and writes every   *)
(* gallery tag, for any catalog, pages and batch size.                     *)
(*                                                                         *)
(* The data comes first: that decimal notation is read and written         *)
(* faithfully, and what the loop over a publication's subjects yields.     *)
(* The library's induction theorems take an operator as a parameter, which *)
(* no backend instantiates; WFMin takes a set, and is enough.              *)
(***************************************************************************)
EXTENDS BookPage, SequenceTheorems, WellFoundedInduction, TLAPS

-----------------------------------------------------------------------------
(* Induction over sets of numbers, and recursive functions.                *)

LEMMA Least ==
  ASSUME NEW T \in SUBSET Nat, T # {}
  PROVE  \E m \in T : \A k \in T : m <= k
<1> DEFINE R == OpToRel(<, Nat)
<1>1. IsWellFoundedOn(R, Nat)
  BY NatLessThanWellFounded
<1>2. \E m \in T : \A k \in T : <<k, m>> \notin R
  <2> HIDE DEF R
  <2>1. T \subseteq Nat
    OBVIOUS
  <2> QED BY <1>1, <2>1, WFMin, Zenon
<1>3. \A k, m \in T : <<k, m>> \notin R => m <= k
  BY DEF OpToRel
<1> QED BY <1>2, <1>3

LEMMA StrongInduction ==
  ASSUME NEW T \in SUBSET Nat,
         \A n \in Nat : (\A k \in Nat : k < n => k \in T) => n \in T
  PROVE  T = Nat
<1> DEFINE U == Nat \ T
<1>1. ASSUME U # {} PROVE FALSE
  <2>1. U \in SUBSET Nat
    OBVIOUS
  <2>2. PICK m \in U : \A k \in U : m <= k
    <3> HIDE DEF U
    <3> QED BY <1>1, <2>1, Least
  <2>3. \A k \in Nat : k < m => k \in T
    BY <2>2
  <2> QED BY <2>3
<1> QED BY <1>1

\* A recursive definition over the numbers, each of which asks for the value at a
\* smaller one, defines a function.
Recursive(D, first, prev, step) ==
  /\ first \in D /\ prev \in [Nat \ {0} -> Nat] /\ step \in [Nat -> [D -> D]]
  /\ \A k \in Nat \ {0} : prev[k] < k

Before(D, first, prev, step, n, f) ==
  /\ f \in [0..n -> D]
  /\ \A k \in 0..n : f[k] = IF k = 0 THEN first ELSE step[k][f[prev[k]]]

LEMMA BeforeUnique ==
  ASSUME NEW D, NEW first, NEW prev, NEW step, Recursive(D, first, prev, step)
  PROVE  \A n, m \in Nat : n <= m =>
           \A f, g : Before(D, first, prev, step, n, f) /\ Before(D, first, prev, step, m, g)
                     => \A k \in 0..n : f[k] = g[k]
<1> USE DEF Recursive
<1> SUFFICES ASSUME NEW n \in Nat, NEW m \in Nat, n <= m, NEW f, NEW g,
                    Before(D, first, prev, step, n, f), Before(D, first, prev, step, m, g)
             PROVE  \A k \in 0..n : f[k] = g[k]
  OBVIOUS
<1> DEFINE U == {k \in 0..n : f[k] # g[k]}
<1>1. ASSUME U # {} PROVE FALSE
  <2>1. U \in SUBSET Nat
    OBVIOUS
  <2>2. PICK k \in U : \A i \in U : k <= i
    <3> HIDE DEF U
    <3> QED BY <1>1, <2>1, Least
  <2>3. k \in 0..n /\ k \in 0..m
    OBVIOUS
  <2>4. k # 0
    BY <2>3 DEF Before
  <2>5. prev[k] \in 0..n /\ prev[k] \in 0..m /\ prev[k] < k
    BY <2>3, <2>4
  <2>6. f[prev[k]] = g[prev[k]]
    BY <2>2, <2>5
  <2>7. f[k] = step[k][f[prev[k]]] /\ g[k] = step[k][g[prev[k]]]
    BY <2>3, <2>4 DEF Before
  <2> QED BY <2>6, <2>7
<1> QED BY <1>1

LEMMA BeforeExists ==
  ASSUME NEW D, NEW first, NEW prev, NEW step, Recursive(D, first, prev, step)
  PROVE  \A n \in Nat : \E f : Before(D, first, prev, step, n, f)
<1> USE DEF Recursive
<1> DEFINE T == {n \in Nat : \E f : Before(D, first, prev, step, n, f)}
<1>1. ASSUME NEW n \in Nat, \A k \in Nat : k < n => k \in T
      PROVE  n \in T
  <2>1. CASE n = 0
    <3>1. Before(D, first, prev, step, 0, [k \in 0..0 |-> first])
      BY DEF Before
    <3> QED BY <2>1, <3>1
  <2>2. CASE n # 0
    <3>1. n - 1 \in T
      BY <1>1, <2>2
    <3>2. PICK f : Before(D, first, prev, step, n - 1, f)
      BY <3>1
    <3> DEFINE g == [k \in 0..n |-> IF k = n THEN step[n][f[prev[n]]] ELSE f[k]]
    <3>3. prev[n] \in 0..(n - 1)
      BY <2>2
    <3>4. f \in [0..(n - 1) -> D]
      BY <3>2 DEF Before
    <3>5. g \in [0..n -> D]
      <4>1. f[prev[n]] \in D
        BY <3>3, <3>4
      <4>2. step[n][f[prev[n]]] \in D
        BY <4>1
      <4>3. \A k \in 0..n : k # n => f[k] \in D
        BY <3>4
      <4> QED BY <4>2, <4>3
    <3>6. ASSUME NEW k \in 0..n PROVE g[k] = IF k = 0 THEN first ELSE step[k][g[prev[k]]]
      <4>1. CASE k = n
        <5>1. prev[n] \in 0..n /\ prev[n] # n
          BY <3>3
        <5>2. g[prev[n]] = f[prev[n]]
          BY <5>1
        <5>3. g[n] = step[n][f[prev[n]]]
          OBVIOUS
        <5> HIDE DEF g
        <5> QED BY <4>1, <2>2, <5>2, <5>3
      <4>2. CASE k # n
        <5>1. k \in 0..(n - 1)
          BY <4>2
        <5>2. g[k] = f[k]
          BY <4>2
        <5>3. k # 0 => prev[k] \in 0..n /\ prev[k] # n
          BY <5>1
        <5>4. k # 0 => g[prev[k]] = f[prev[k]]
          BY <5>3
        <5>5. f[k] = IF k = 0 THEN first ELSE step[k][f[prev[k]]]
          BY <3>2, <5>1 DEF Before
        <5> HIDE DEF g
        <5> QED BY <5>2, <5>4, <5>5
      <4> QED BY <4>1, <4>2
    <3>7. Before(D, first, prev, step, n, g)
      BY <3>5, <3>6, Zenon DEF Before
    <3> QED BY <3>7
  <2> QED BY <2>1, <2>2
<1>2. T = Nat
  <2>1. T \in SUBSET Nat
    OBVIOUS
  <2> HIDE DEF T
  <2> QED BY <1>1, <2>1, StrongInduction
<1> QED BY <1>2

LEMMA Recursion ==
  ASSUME NEW D, NEW first, NEW prev, NEW step, Recursive(D, first, prev, step)
  PROVE  \E f \in [Nat -> D] :
           \A k \in Nat : f[k] = IF k = 0 THEN first ELSE step[k][f[prev[k]]]
<1>1. \A n, m \in Nat : n <= m =>
        \A f, g : Before(D, first, prev, step, n, f) /\ Before(D, first, prev, step, m, g)
                  => \A k \in 0..n : f[k] = g[k]
  BY BeforeUnique
<1>2. \A n \in Nat : \E f : Before(D, first, prev, step, n, f)
  BY BeforeExists
<1> USE DEF Recursive
<1> DEFINE to(n) == CHOOSE f : Before(D, first, prev, step, n, f)
<1>3. \A n \in Nat : Before(D, first, prev, step, n, to(n))
  BY <1>2, Zenon
<1> DEFINE limit == [n \in Nat |-> to(n)[n]]
<1>4. ASSUME NEW n \in Nat, NEW m \in Nat, n <= m PROVE to(n)[n] = to(m)[n]
  <2>1. Before(D, first, prev, step, n, to(n)) /\ Before(D, first, prev, step, m, to(m))
    BY <1>3
  <2>2. n \in 0..n
    OBVIOUS
  <2> HIDE DEF to
  <2>3. \A k \in 0..n : to(n)[k] = to(m)[k]
    <3>1. \A f, g : Before(D, first, prev, step, n, f) /\ Before(D, first, prev, step, m, g)
                    => \A k \in 0..n : f[k] = g[k]
      BY <1>1, <1>4
    <3> QED BY <2>1, <3>1, Zenon
  <2> QED BY <2>2, <2>3
<1>5. limit \in [Nat -> D]
  <2>1. ASSUME NEW n \in Nat PROVE to(n)[n] \in D
    <3> HIDE DEF to
    <3>1. to(n) \in [0..n -> D]
      BY <1>3, Zenon DEF Before
    <3>2. n \in 0..n
      OBVIOUS
    <3> QED BY <3>1, <3>2
  <2> HIDE DEF to
  <2> QED BY <2>1
<1>6. ASSUME NEW k \in Nat PROVE limit[k] = IF k = 0 THEN first ELSE step[k][limit[prev[k]]]
  <2> HIDE DEF to
  <2>1. to(k)[k] = IF k = 0 THEN first ELSE step[k][to(k)[prev[k]]]
    <3>1. k \in 0..k
      OBVIOUS
    <3> QED BY <1>3, <3>1, Zenon DEF Before
  <2>2. k # 0 => to(prev[k])[prev[k]] = to(k)[prev[k]]
    <3> SUFFICES ASSUME k # 0 PROVE to(prev[k])[prev[k]] = to(k)[prev[k]]
      OBVIOUS
    <3>1. prev[k] \in Nat /\ prev[k] <= k
      OBVIOUS
    <3> QED BY <3>1, <1>4
  <2>3. k # 0 => prev[k] \in Nat
    OBVIOUS
  <2> QED BY <2>1, <2>2, <2>3
<1> HIDE DEF limit
<1> QED BY <1>5, <1>6

-----------------------------------------------------------------------------
(* Decimal notation.                                                       *)

Decimals == Seq(0..9)

LEMMA DigitsUnfold ==
  /\ Digits \in [Nat -> Decimals]
  /\ \A n \in Nat : Digits[n] = IF n < 10 THEN <<n>> ELSE Append(Digits[n \div 10], n % 10)
<1> DEFINE first == <<0>>
           prev == [k \in Nat \ {0} |-> k \div 10]
           step == [k \in Nat |-> [d \in Decimals |-> IF k < 10 THEN <<k>> ELSE Append(d, k % 10)]]
<1>1. \A k \in Nat : k < 10 => <<k>> \in Decimals
  BY DEF Decimals
<1>2. \A k \in Nat, d \in Decimals : Append(d, k % 10) \in Decimals
  <2> SUFFICES ASSUME NEW k \in Nat, NEW d \in Decimals PROVE Append(d, k % 10) \in Decimals
    OBVIOUS
  <2>1. k % 10 \in 0..9
    OBVIOUS
  <2> QED BY <2>1, AppendProperties DEF Decimals
<1>3. Recursive(Decimals, first, prev, step)
  <2>1. first \in Decimals
    BY <1>1
  <2>2. prev \in [Nat \ {0} -> Nat] /\ \A k \in Nat \ {0} : prev[k] < k
    OBVIOUS
  <2>3. step \in [Nat -> [Decimals -> Decimals]]
    BY <1>1, <1>2
  <2> QED BY <2>1, <2>2, <2>3 DEF Recursive
<1>4. PICK f \in [Nat -> Decimals] :
        \A k \in Nat : f[k] = IF k = 0 THEN first ELSE step[k][f[prev[k]]]
  <2> HIDE DEF first, prev, step
  <2> QED BY <1>3, Recursion
<1>5. ASSUME NEW k \in Nat
      PROVE  f[k] = IF k < 10 THEN <<k>> ELSE Append(f[k \div 10], k % 10)
  <2>1. CASE k = 0
    <3>1. f[0] = first
      <4> HIDE DEF first, prev, step
      <4> QED BY <1>4
    <3> QED BY <2>1, <3>1
  <2>2. CASE k # 0
    <3>1. prev[k] = k \div 10 /\ k \div 10 \in Nat
      BY <2>2
    <3>2. f[k] = step[k][f[k \div 10]]
      BY <1>4, <2>2, <3>1
    <3>3. f[k \div 10] \in Decimals
      BY <3>1
    <3> QED BY <3>2, <3>3
  <2> QED BY <2>1, <2>2
<1>6. f = [n \in Nat |-> IF n < 10 THEN <<n>> ELSE Append(f[n \div 10], n % 10)]
  BY <1>5
<1>7. Digits = [n \in Nat |-> IF n < 10 THEN <<n>> ELSE Append(Digits[n \div 10], n % 10)]
  BY <1>6, Zenon DEF Digits
<1>8. \A n \in Nat : Digits[n] = IF n < 10 THEN <<n>> ELSE Append(Digits[n \div 10], n % 10)
  BY <1>7, Zenon
<1> DEFINE T == {n \in Nat : Digits[n] \in Decimals}
<1>9. T = Nat
  <2>1. ASSUME NEW n \in Nat, \A k \in Nat : k < n => k \in T PROVE n \in T
    <3>1. CASE n < 10
      BY <1>1, <1>8, <3>1
    <3>2. CASE ~(n < 10)
      <4>1. n \div 10 \in Nat /\ n \div 10 < n
        BY <3>2
      <4>2. Digits[n \div 10] \in Decimals
        BY <2>1, <4>1
      <4> QED BY <1>2, <1>8, <3>2, <4>2
    <3> QED BY <3>1, <3>2
  <2>2. T \in SUBSET Nat
    OBVIOUS
  <2> HIDE DEF T
  <2> QED BY <2>1, <2>2, StrongInduction
<1>10. DOMAIN Digits = Nat /\ Digits = [n \in DOMAIN Digits |-> Digits[n]]
  BY <1>7, Zenon
<1> QED BY <1>8, <1>9, <1>10

LEMMA DigitsHead ==
  \A n \in Nat : Digits[n] # <<>> /\ (n # 0 => Head(Digits[n]) # 0)
<1> DEFINE T == {n \in Nat : Digits[n] # <<>> /\ (n # 0 => Head(Digits[n]) # 0)}
<1>1. ASSUME NEW n \in Nat, \A k \in Nat : k < n => k \in T PROVE n \in T
  <2>1. CASE n < 10
    BY <2>1, DigitsUnfold
  <2>2. CASE ~(n < 10)
    <3>1. n \div 10 \in Nat /\ n \div 10 < n /\ n \div 10 # 0
      BY <2>2
    <3>2. Digits[n \div 10] # <<>> /\ Head(Digits[n \div 10]) # 0
      BY <1>1, <3>1
    <3>3. Digits[n \div 10] \in Decimals
      BY <3>1, DigitsUnfold
    <3>4. Digits[n] = Append(Digits[n \div 10], n % 10)
      BY <2>2, DigitsUnfold
    <3>5. n % 10 \in 0..9
      OBVIOUS
    <3>6. Digits[n] # <<>>
      BY <3>3, <3>4, <3>5, AppendProperties DEF Decimals
    <3>7. Head(Digits[n]) = Head(Digits[n \div 10])
      BY <3>2, <3>3, <3>4, <3>5, HeadTailAppend DEF Decimals
    <3> QED BY <3>2, <3>6, <3>7
  <2> QED BY <2>1, <2>2
<1>2. T \in SUBSET Nat
  OBVIOUS
<1>3. T = Nat
  <2> HIDE DEF T
  <2> QED BY <1>1, <1>2, StrongInduction
<1> QED BY <1>3

\* What the digits up to the k-th are worth.
PrefixValues(digits, f) ==
  /\ f \in [0..Len(digits) -> Nat]
  /\ f[0] = 0
  /\ \A k \in 1..Len(digits) : f[k] = 10 * f[k - 1] + digits[k]

LEMMA PrefixesExist ==
  ASSUME NEW digits \in Decimals
  PROVE  \E f : PrefixValues(digits, f) /\ Value(digits) = f[Len(digits)]
<1> DEFINE L == Len(digits)
           prev == [k \in Nat \ {0} |-> k - 1]
           step == [k \in Nat |-> [v \in Nat |-> IF k \in 1..L THEN 10 * v + digits[k] ELSE 0]]
           body(f) == [k \in 0..L |-> IF k = 0 THEN 0 ELSE 10 * f[k - 1] + digits[k]]
<1>1. L \in Nat /\ \A k \in 1..L : digits[k] \in 0..9
  BY LenProperties, ElementOfSeq DEF Decimals
<1>2. Recursive(Nat, 0, prev, step)
  <2> HIDE DEF L
  <2>1. step \in [Nat -> [Nat -> Nat]]
    BY <1>1
  <2>2. prev \in [Nat \ {0} -> Nat] /\ \A k \in Nat \ {0} : prev[k] < k
    OBVIOUS
  <2> QED BY <2>1, <2>2 DEF Recursive
<1>3. PICK g \in [Nat -> Nat] : \A k \in Nat : g[k] = IF k = 0 THEN 0 ELSE step[k][g[prev[k]]]
  <2> HIDE DEF prev, step
  <2> QED BY <1>2, Recursion
<1>4. ASSUME NEW k \in 1..L PROVE g[k] = 10 * g[k - 1] + digits[k]
  <2> HIDE DEF L
  <2>1. k \in Nat \ {0} /\ prev[k] = k - 1 /\ k - 1 \in Nat
    BY <1>1
  <2>2. g[k] = step[k][g[k - 1]]
    BY <1>3, <2>1
  <2>3. g[k - 1] \in Nat
    BY <2>1
  <2> QED BY <2>1, <2>2, <2>3
<1>5. g[0] = 0
  <2> HIDE DEF prev, step
  <2> QED BY <1>3
<1> DEFINE f == [k \in 0..L |-> g[k]]
<1>6. f = body(f)
  <2> HIDE DEF L
  <2>1. ASSUME NEW k \in 0..L
        PROVE  g[k] = IF k = 0 THEN 0 ELSE 10 * f[k - 1] + digits[k]
    <3>1. CASE k = 0
      BY <1>5, <3>1
    <3>2. CASE k # 0
      <4>1. k \in 1..L /\ k - 1 \in 0..L
        BY <1>1, <3>2
      <4>2. f[k - 1] = g[k - 1]
        BY <4>1
      <4> QED BY <1>4, <3>2, <4>1, <4>2
    <3> QED BY <3>1, <3>2
  <2> QED BY <2>1
<1> DEFINE v == CHOOSE h : h = body(h)
<1>7. v = body(v)
  <2> HIDE DEF f, body
  <2> QED BY <1>6, Zenon
<1>8. Value(digits) = v[L]
  BY Zenon DEF Value
<1> HIDE DEF v
<1>9. \A k \in 0..L : v[k] = IF k = 0 THEN 0 ELSE 10 * v[k - 1] + digits[k]
  BY <1>7, Zenon
<1>10. PrefixValues(digits, v)
  <2> DEFINE T == {k \in Nat : k \in 0..L => v[k] \in Nat}
  <2> HIDE DEF L
  <2>1. ASSUME NEW n \in Nat, \A k \in Nat : k < n => k \in T PROVE n \in T
    <3> SUFFICES ASSUME n \in 0..L PROVE v[n] \in Nat
      OBVIOUS
    <3>1. CASE n = 0
      BY <1>1, <1>9, <3>1
    <3>2. CASE n # 0
      <4>1. n - 1 \in Nat /\ n - 1 < n /\ n - 1 \in 0..L /\ n \in 1..L
        BY <1>1, <3>2
      <4>2. v[n - 1] \in Nat
        BY <2>1, <4>1
      <4>3. v[n] = 10 * v[n - 1] + digits[n]
        BY <1>9, <3>2
      <4> QED BY <1>1, <4>1, <4>2, <4>3
    <3> QED BY <3>1, <3>2
  <2>2. T \in SUBSET Nat
    OBVIOUS
  <2>3. T = Nat
    <3> HIDE DEF T
    <3> QED BY <2>1, <2>2, StrongInduction
  <2>4. \A k \in 0..L : v[k] \in Nat
    BY <1>1, <2>3
  <2>5. DOMAIN v = 0..L /\ v = [k \in DOMAIN v |-> v[k]]
    BY <1>7, Zenon
  <2>6. v \in [0..L -> Nat]
    BY <2>4, <2>5
  <2>7. 0 \in 0..L /\ \A k \in 1..L : k \in 0..L /\ k # 0
    BY <1>1
  <2>8. v[0] = 0 /\ \A k \in 1..L : v[k] = 10 * v[k - 1] + digits[k]
    BY <1>9, <2>7
  <2> QED BY <2>6, <2>8 DEF PrefixValues, L
<1> QED BY <1>8, <1>10 DEF L

LEMMA PrefixesAgree ==
  ASSUME NEW ds \in Decimals, NEW es \in Decimals, NEW f, NEW g,
         PrefixValues(ds, f), PrefixValues(es, g), Len(ds) <= Len(es),
         \A k \in 1..Len(ds) : ds[k] = es[k]
  PROVE  \A k \in 0..Len(ds) : f[k] = g[k]
<1>1. Len(ds) \in Nat /\ Len(es) \in Nat
  BY LenProperties DEF Decimals
<1> DEFINE T == {k \in Nat : k \in 0..Len(ds) => f[k] = g[k]}
<1>2. ASSUME NEW n \in Nat, \A k \in Nat : k < n => k \in T PROVE n \in T
  <2> SUFFICES ASSUME n \in 0..Len(ds) PROVE f[n] = g[n]
    OBVIOUS
  <2>1. CASE n = 0
    BY <2>1 DEF PrefixValues
  <2>2. CASE n # 0
    <3>1. n - 1 \in Nat /\ n - 1 < n /\ n - 1 \in 0..Len(ds) /\ n \in 1..Len(ds) /\ n \in 1..Len(es)
      BY <1>1, <2>2
    <3>2. f[n - 1] = g[n - 1]
      BY <1>2, <3>1
    <3>3. f[n] = 10 * f[n - 1] + ds[n] /\ g[n] = 10 * g[n - 1] + es[n]
      BY <3>1 DEF PrefixValues
    <3> QED BY <3>1, <3>2, <3>3
  <2> QED BY <2>1, <2>2
<1>3. T \in SUBSET Nat
  OBVIOUS
<1>4. T = Nat
  <2> HIDE DEF T
  <2> QED BY <1>2, <1>3, StrongInduction
<1> QED BY <1>1, <1>4

\* A further digit shifts the number by one place.
LEMMA ValueAppend ==
  /\ Value(<<>>) = 0
  /\ \A ds \in Decimals : Value(ds) \in Nat
  /\ \A ds \in Decimals, d \in 0..9 : Value(Append(ds, d)) = 10 * Value(ds) + d
<1>1. Value(<<>>) = 0
  <2>1. <<>> \in Decimals /\ Len(<<>>) = 0
    BY EmptySeq DEF Decimals
  <2> QED BY <2>1, PrefixesExist DEF PrefixValues
<1>2. ASSUME NEW ds \in Decimals PROVE Value(ds) \in Nat
  <2>1. PICK f : PrefixValues(ds, f) /\ Value(ds) = f[Len(ds)]
    BY PrefixesExist
  <2>2. Len(ds) \in 0..Len(ds)
    BY LenProperties DEF Decimals
  <2> QED BY <2>1, <2>2 DEF PrefixValues
<1>3. ASSUME NEW ds \in Decimals, NEW d \in 0..9
      PROVE  Value(Append(ds, d)) = 10 * Value(ds) + d
  <2> DEFINE es == Append(ds, d)
  <2>1. /\ es \in Decimals /\ Len(ds) \in Nat /\ Len(es) = Len(ds) + 1
        /\ \A k \in 1..Len(ds) : es[k] = ds[k]
        /\ es[Len(ds) + 1] = d
    BY AppendProperties, LenProperties DEF Decimals
  <2>2. PICK f : PrefixValues(ds, f) /\ Value(ds) = f[Len(ds)]
    BY PrefixesExist
  <2> HIDE DEF es
  <2>3. PICK g : PrefixValues(es, g) /\ Value(es) = g[Len(es)]
    BY <2>1, PrefixesExist
  <2>4. \A k \in 0..Len(ds) : f[k] = g[k]
    BY <2>1, <2>2, <2>3, PrefixesAgree
  <2>5. f[Len(ds)] = g[Len(ds)]
    BY <2>1, <2>4
  <2>6. Len(es) \in 1..Len(es) /\ Len(es) - 1 = Len(ds)
    BY <2>1
  <2>7. g[Len(es)] = 10 * g[Len(ds)] + es[Len(es)]
    BY <2>3, <2>6 DEF PrefixValues
  <2>8. Value(es) = 10 * Value(ds) + d
    BY <2>1, <2>2, <2>3, <2>5, <2>7
  <2> QED BY <2>8 DEF es
<1> QED BY <1>1, <1>2, <1>3

\* The gid written in a name is read back: _canonical_artifact_name and the
\* catalog's own names agree on which gallery a name is of.
LEMMA ValueOfDigits == \A n \in Nat : Value(Digits[n]) = n
<1> DEFINE T == {n \in Nat : Value(Digits[n]) = n}
<1>1. ASSUME NEW n \in Nat, \A k \in Nat : k < n => k \in T PROVE n \in T
  <2>1. CASE n < 10
    <3>1. Digits[n] = <<n>> /\ <<n>> = Append(<<>>, n) /\ n \in 0..9
      BY <2>1, DigitsUnfold
    <3>2. Value(Append(<<>>, n)) = 10 * Value(<<>>) + n
      BY <3>1, ValueAppend, EmptySeq DEF Decimals
    <3> QED BY <3>1, <3>2, ValueAppend
  <2>2. CASE ~(n < 10)
    <3>1. n \div 10 \in Nat /\ n \div 10 < n /\ n % 10 \in 0..9 /\ n = 10 * (n \div 10) + (n % 10)
      BY <2>2
    <3>2. Digits[n] = Append(Digits[n \div 10], n % 10) /\ Digits[n \div 10] \in Decimals
      BY <2>2, <3>1, DigitsUnfold
    <3>3. Value(Digits[n \div 10]) = n \div 10
      BY <1>1, <3>1
    <3>4. Value(Digits[n]) = 10 * Value(Digits[n \div 10]) + (n % 10)
      BY <3>1, <3>2, ValueAppend
    <3> QED BY <3>1, <3>3, <3>4
  <2> QED BY <2>1, <2>2
<1>2. T \in SUBSET Nat
  OBVIOUS
<1>3. T = Nat
  <2> HIDE DEF T
  <2> QED BY <1>1, <1>2, StrongInduction
<1> QED BY <1>3

\* A number that has no leading zero is spelled in one way only.
LEMMA DigitsOfValue ==
  \A ds \in Decimals : ds # <<>> /\ Head(ds) # 0 => Value(ds) # 0 /\ Digits[Value(ds)] = ds
<1> DEFINE Good(ds) == ds # <<>> /\ Head(ds) # 0 => Value(ds) # 0 /\ Digits[Value(ds)] = ds
           T == {n \in Nat : \A ds \in Decimals : Len(ds) = n => Good(ds)}
<1>1. ASSUME NEW n \in Nat, \A k \in Nat : k < n => k \in T PROVE n \in T
  <2> SUFFICES ASSUME NEW ds \in Decimals, Len(ds) = n, ds # <<>>, Head(ds) # 0
               PROVE  Value(ds) # 0 /\ Digits[Value(ds)] = ds
    OBVIOUS
  <2>1. PICK es \in Decimals, d \in 0..9 : ds = Append(es, d)
    BY SequenceEmptyOrAppend DEF Decimals
  <2>2. Len(es) \in Nat /\ Len(es) < n
    BY <2>1, AppendProperties, LenProperties DEF Decimals
  <2>3. Value(es) \in Nat /\ Value(ds) = 10 * Value(es) + d
    BY <2>1, ValueAppend
  <2>4. Head(ds) = IF es = <<>> THEN d ELSE Head(es)
    BY <2>1, HeadTailAppend DEF Decimals
  <2>5. CASE es = <<>>
    <3>1. Value(ds) = d /\ d # 0
      <4>1. Value(es) = 0
        BY <2>5, ValueAppend
      <4>2. d # 0
        BY <2>4, <2>5
      <4> QED BY <2>3, <4>1, <4>2
    <3>2. Digits[d] = <<d>> /\ ds = <<d>>
      BY <2>1, <2>5, DigitsUnfold
    <3> QED BY <3>1, <3>2
  <2>6. CASE es # <<>>
    <3>1. Good(es)
      <4>1. Len(es) \in T
        BY <1>1, <2>2
      <4> HIDE DEF Good
      <4> QED BY <4>1
    <3>2. Value(es) # 0 /\ Digits[Value(es)] = es
      BY <2>4, <2>6, <3>1
    <3>3. /\ Value(ds) \in Nat /\ ~(Value(ds) < 10) /\ Value(ds) # 0
          /\ Value(ds) \div 10 = Value(es) /\ Value(ds) % 10 = d
      <4>1. ASSUME NEW v \in Nat \ {0}, NEW w, w = 10 * v + d
            PROVE  w \in Nat /\ ~(w < 10) /\ w # 0 /\ w \div 10 = v /\ w % 10 = d
        BY <4>1
      <4> QED BY <2>3, <3>2, <4>1
    <3>4. Digits[Value(ds)] = Append(Digits[Value(ds) \div 10], Value(ds) % 10)
      BY <3>3, DigitsUnfold
    <3> QED BY <2>1, <3>2, <3>3, <3>4
  <2> QED BY <2>5, <2>6
<1>2. T \in SUBSET Nat
  OBVIOUS
<1>3. T = Nat
  <2> HIDE DEF T
  <2> QED BY <1>1, <1>2, StrongInduction
<1>4. ASSUME NEW ds \in Decimals PROVE Good(ds)
  <2>1. Len(ds) \in T
    BY <1>3, LenProperties DEF Decimals
  <2> HIDE DEF Good
  <2> QED BY <2>1
<1> QED BY <1>4

-----------------------------------------------------------------------------
(* The authors of a publication.                                           *)

LEMMA RangeAppend ==
  ASSUME NEW S, NEW q \in Seq(S), NEW e \in S
  PROVE  Append(q, e) \in Seq(S) /\ Range(Append(q, e)) = Range(q) \union {e}
<1>1. /\ Append(q, e) \in Seq(S) /\ Len(q) \in Nat /\ Len(Append(q, e)) = Len(q) + 1
      /\ \A i \in 1..Len(q) : Append(q, e)[i] = q[i]
      /\ Append(q, e)[Len(q) + 1] = e
  BY AppendProperties, LenProperties
<1>2. Range(q) = {q[i] : i \in 1..Len(q)}
  BY RangeEquality
<1>3. Range(Append(q, e)) = {Append(q, e)[i] : i \in 1..(Len(q) + 1)}
  <2> DEFINE r == Append(q, e)
  <2>1. r \in Seq(S) /\ Len(r) = Len(q) + 1
    BY <1>1
  <2> HIDE DEF r
  <2>2. Range(r) = {r[i] : i \in 1..Len(r)}
    BY <2>1, RangeEquality
  <2> QED BY <2>1, <2>2 DEF r
<1>4. \A i : i \in 1..(Len(q) + 1) <=> i \in 1..Len(q) \/ i = Len(q) + 1
  BY <1>1
<1> QED BY <1>1, <1>2, <1>3, <1>4

\* A prefix is the one before it and its last element.
LEMMA PrefixGrows ==
  ASSUME NEW f, NEW n \in Nat, n # 0
  PROVE  {f[k] : k \in 1..n} = {f[k] : k \in 1..(n - 1)} \union {f[n]}
<1>1. \A k : k \in 1..n <=> k \in 1..(n - 1) \/ k = n
  OBVIOUS
<1> QED BY <1>1, Zenon

\* The loop over the subjects keeps just the gallery tags, in any order of the rest.
LEMMA TagAuthorsRange ==
  ASSUME NEW S, NEW subjects \in Seq(S)
  PROVE  \E A : /\ TagAuthors(subjects) \in Seq(A)
                /\ Range(TagAuthors(subjects)) =
                     {Author(s) : s \in {t \in Range(subjects) : IsGalleryTag(t)}}
<1> DEFINE L == Len(subjects)
           A == {Author(subjects[k]) : k \in 1..L}
           prev == [k \in Nat \ {0} |-> k - 1]
           step == [k \in Nat |-> [q \in Seq(A) |->
                      IF k \in 1..L /\ IsGalleryTag(subjects[k]) THEN Append(q, Author(subjects[k]))
                      ELSE q]]
           body(f) == [k \in 0..L |->
                         IF k = 0 THEN <<>>
                         ELSE IF IsGalleryTag(subjects[k]) THEN Append(f[k - 1], Author(subjects[k]))
                         ELSE f[k - 1]]
           v == CHOOSE h : h = body(h)
<1>1. L \in Nat
  BY LenProperties
<1>2. Recursive(Seq(A), <<>>, prev, step)
  <2> HIDE DEF L
  <2>1. <<>> \in Seq(A)
    BY EmptySeq
  <2>2. ASSUME NEW k \in Nat, NEW q \in Seq(A), k \in 1..L
        PROVE  Append(q, Author(subjects[k])) \in Seq(A)
    <3>1. Author(subjects[k]) \in A
      BY <2>2
    <3> HIDE DEF A
    <3> QED BY <3>1, AppendProperties
  <2>3. step \in [Nat -> [Seq(A) -> Seq(A)]]
    <3> HIDE DEF A
    <3> QED BY <2>2
  <2>4. prev \in [Nat \ {0} -> Nat] /\ \A k \in Nat \ {0} : prev[k] < k
    OBVIOUS
  <2> HIDE DEF A, step, prev
  <2> QED BY <2>1, <2>3, <2>4 DEF Recursive
<1>3. PICK g \in [Nat -> Seq(A)] : \A k \in Nat : g[k] = IF k = 0 THEN <<>> ELSE step[k][g[prev[k]]]
  <2> DEFINE D == Seq(A)
             first == <<>>
  <2>1. Recursive(D, first, prev, step)
    BY <1>2
  <2> HIDE DEF A, D, first, prev, step
  <2>2. \E g \in [Nat -> D] : \A k \in Nat : g[k] = IF k = 0 THEN first ELSE step[k][g[prev[k]]]
    BY <2>1, Recursion
  <2> QED BY <2>2 DEF D, first
<1> HIDE DEF A
<1>4. ASSUME NEW k \in 1..L
      PROVE  g[k] = IF IsGalleryTag(subjects[k]) THEN Append(g[k - 1], Author(subjects[k])) ELSE g[k - 1]
  <2> HIDE DEF L
  <2>1. k \in Nat \ {0} /\ prev[k] = k - 1 /\ k - 1 \in Nat
    BY <1>1
  <2>2. g[k] = step[k][g[k - 1]]
    <3> HIDE DEF step
    <3> QED BY <1>3, <2>1
  <2>3. g[k - 1] \in Seq(A)
    BY <2>1
  <2> QED BY <2>1, <2>2, <2>3
<1>5. g[0] = <<>>
  <2> HIDE DEF prev, step
  <2> QED BY <1>3
<1> DEFINE f == [k \in 0..L |-> g[k]]
<1>6. f = body(f)
  <2> HIDE DEF L
  <2>1. ASSUME NEW k \in 0..L
        PROVE  g[k] = IF k = 0 THEN <<>>
                      ELSE IF IsGalleryTag(subjects[k]) THEN Append(f[k - 1], Author(subjects[k]))
                      ELSE f[k - 1]
    <3>1. CASE k = 0
      BY <1>5, <3>1
    <3>2. CASE k # 0
      <4>1. k \in 1..L /\ k - 1 \in 0..L
        BY <1>1, <3>2
      <4>2. f[k - 1] = g[k - 1]
        BY <4>1
      <4> QED BY <1>4, <3>2, <4>1, <4>2
    <3> QED BY <3>1, <3>2
  <2> QED BY <2>1
<1>7. v = body(v)
  <2> HIDE DEF f, body
  <2> QED BY <1>6, Zenon
<1>8. TagAuthors(subjects) = v[L]
  BY Zenon DEF TagAuthors
<1> HIDE DEF v
<1>9. \A k \in 0..L : v[k] = IF k = 0 THEN <<>>
                             ELSE IF IsGalleryTag(subjects[k]) THEN Append(v[k - 1], Author(subjects[k]))
                             ELSE v[k - 1]
  BY <1>7, Zenon
<1> DEFINE Kept(n) == {Author(s) : s \in {t \in {subjects[k] : k \in 1..n} : IsGalleryTag(t)}}
           T == {n \in Nat : n \in 0..L => v[n] \in Seq(A) /\ Range(v[n]) = Kept(n)}
<1>10. ASSUME NEW n \in Nat, \A k \in Nat : k < n => k \in T PROVE n \in T
  <2> HIDE DEF L
  <2> SUFFICES ASSUME n \in 0..L PROVE v[n] \in Seq(A) /\ Range(v[n]) = Kept(n)
    OBVIOUS
  <2>1. CASE n = 0
    <3>1. v[0] = <<>>
      BY <1>1, <1>9, <2>1
    <3>2. <<>> \in Seq(A) /\ Range(<<>>) = {}
      BY EmptySeq DEF Range
    <3>3. Kept(0) = {}
      OBVIOUS
    <3> QED BY <2>1, <3>1, <3>2, <3>3
  <2>2. CASE n # 0
    <3>1. n - 1 \in Nat /\ n - 1 < n /\ n - 1 \in 0..L /\ n \in 1..L
      BY <1>1, <2>2
    <3>2. v[n - 1] \in Seq(A) /\ Range(v[n - 1]) = Kept(n - 1)
      BY <1>10, <3>1
    <3>3. {subjects[k] : k \in 1..n} = {subjects[k] : k \in 1..(n - 1)} \union {subjects[n]}
      BY <2>2, PrefixGrows
    <3>4. CASE IsGalleryTag(subjects[n])
      <4>1. v[n] = Append(v[n - 1], Author(subjects[n]))
        BY <1>9, <2>2, <3>4
      <4>2. Author(subjects[n]) \in A
        BY <3>1 DEF A
      <4>3. v[n] \in Seq(A) /\ Range(v[n]) = Range(v[n - 1]) \union {Author(subjects[n])}
        <5>1. \A q \in Seq(A), e \in A :
                Append(q, e) \in Seq(A) /\ Range(Append(q, e)) = Range(q) \union {e}
          BY RangeAppend
        <5> QED BY <3>2, <4>1, <4>2, <5>1, Zenon
      <4>4. Kept(n) = Kept(n - 1) \union {Author(subjects[n])}
        BY <3>3, <3>4
      <4> QED BY <3>2, <4>3, <4>4
    <3>5. CASE ~IsGalleryTag(subjects[n])
      <4>1. v[n] = v[n - 1]
        BY <1>9, <2>2, <3>5
      <4>2. Kept(n) = Kept(n - 1)
        BY <3>3, <3>5
      <4> QED BY <3>2, <4>1, <4>2
    <3> QED BY <3>4, <3>5
  <2> QED BY <2>1, <2>2
<1>11. T \in SUBSET Nat
  OBVIOUS
<1>12. T = Nat
  <2> HIDE DEF T
  <2> QED BY <1>10, <1>11, StrongInduction
<1>13. v[L] \in Seq(A) /\ Range(v[L]) = Kept(L)
  <2>1. L \in T /\ L \in 0..L
    <3> HIDE DEF T, L
    <3> QED BY <1>1, <1>12
  <2> HIDE DEF Kept, L
  <2> QED BY <2>1
<1>14. Range(subjects) = {subjects[k] : k \in 1..L}
  BY RangeEquality
<1> QED BY <1>8, <1>13, <1>14

-----------------------------------------------------------------------------
(* Names.                                                                  *)

LEMMA ArtifactNames ==
  \A g \in Nat : /\ ArtifactName(g) \in ListedNames
                 /\ ArtifactName(g).digits = Digits[g]
                 /\ Value(ArtifactName(g).digits) = g
BY DigitsUnfold, ValueOfDigits DEF ArtifactName, ListedNames, Decimals

\* The names _canonical_artifact_name accepts are the two spellings of each gid up
\* to MAX_GID, and it answers with the name the catalog gives that gallery.
THEOREM CanonicalNames ==
  ASSUME NEW name \in ListedNames
  PROVE  /\ \A g \in 1..MaxGid : name \in Spellings(g) => CanonicalArtifactName(name) = ArtifactName(g)
         /\ CanonicalArtifactName(name) # None =>
              \E g \in 1..MaxGid : name \in Spellings(g) /\ CanonicalArtifactName(name) = ArtifactName(g)
         /\ \A g \in 1..MaxGid : ArtifactName(g) # None
<1> USE NumbersAssumption
<1>1. ASSUME NEW g \in 1..MaxGid, name \in Spellings(g)
      PROVE  CanonicalArtifactName(name) = ArtifactName(g)
  <2>1. g \in Nat /\ g # 0
    OBVIOUS
  <2>2. name.prefix /\ name.digits = Digits[g] /\ name.suffixes \in {0, 1}
    <3>1. PICK s \in {0, 1} : name = [prefix |-> TRUE, digits |-> Digits[g], suffixes |-> s]
      BY <1>1 DEF Spellings
    <3> QED BY <3>1
  <2>3. Digits[g] # <<>> /\ Head(Digits[g]) # 0 /\ Value(Digits[g]) = g
    BY <2>1, DigitsHead, ValueOfDigits
  <2> QED BY <2>1, <2>2, <2>3 DEF CanonicalArtifactName
<1>2. ASSUME CanonicalArtifactName(name) # None
      PROVE  \E g \in 1..MaxGid : name \in Spellings(g) /\ CanonicalArtifactName(name) = ArtifactName(g)
  <2> DEFINE g == Value(name.digits)
  <2>1. /\ name.suffixes \in Nat /\ name.suffixes <= 1 /\ name.prefix = TRUE
        /\ name.digits \in Decimals /\ name.digits # <<>> /\ Head(name.digits) # 0
        /\ g <= MaxGid /\ CanonicalArtifactName(name) = ArtifactName(g)
    BY <1>2 DEF CanonicalArtifactName, ListedNames, Decimals
  <2>2. g \in Nat /\ g # 0 /\ Digits[g] = name.digits
    BY <2>1, ValueAppend, DigitsOfValue
  <2>3. g \in 1..MaxGid
    BY <2>1, <2>2
  <2>4. name = [prefix |-> TRUE, digits |-> Digits[g], suffixes |-> name.suffixes]
    BY <2>1, <2>2 DEF ListedNames
  <2>5. name \in Spellings(g)
    <3>1. name.suffixes \in {0, 1}
      BY <2>1
    <3> HIDE DEF g
    <3> QED BY <2>4, <3>1 DEF Spellings
  <2> HIDE DEF g
  <2> QED BY <2>1, <2>3, <2>5
<1>3. \A g \in 1..MaxGid : ArtifactName(g) # None
  BY ArtifactNames, NoneAssumption
<1> QED BY <1>1, <1>2, <1>3

-----------------------------------------------------------------------------
(* The state.                                                              *)

LookedUp == {names[j] : j \in {k \in DOMAIN names : k <= offset}}

Known(name) == Value(name.digits) \in DOMAIN Published

Parsed ==
  /\ page \in Pages
  /\ names \in Seq(ListedNames) /\ Len(names) <= Len(page)
  /\ \A i \in 1..Len(names) :
       page[i].valid /\ names[i] = CanonicalArtifactName(page[i].name) /\ names[i] # None
  /\ pc \in {"looking up", "collected"} => Len(names) = Len(page) /\ Distinct

Answered ==
  /\ offset \in Nat
  /\ pc = "parsing" => offset = 0
  /\ publications = [n \in {m \in LookedUp : Known(m)} |-> Published[Value(n.digits)]]

Collected ==
  /\ pc # "collected" => rows = {}
  /\ pc = "collected" =>
       /\ DOMAIN publications = Range(names)
       /\ \A n \in Range(names) : n = ArtifactName(publications[n].gid)
       /\ rows = {Row(page[i], names[i]) : i \in DOMAIN page}

IInv ==
  /\ pc \in {"parsing", "looking up", "incomplete", "revision not found", "collected"}
  /\ Parsed /\ Answered /\ Collected
  /\ pc = "incomplete" => ~Acceptable

\* What the items of an acceptable page have in common.
LEMMA AcceptableItems ==
  ASSUME page \in Pages, Acceptable
  PROVE  \E gids \in [DOMAIN page -> DOMAIN Published \intersect 1..MaxGid] :
           /\ IsInjective(gids)
           /\ \A i \in DOMAIN page :
                /\ page[i].valid /\ CanonicalArtifactName(page[i].name) = ArtifactName(gids[i])
                /\ ArtifactName(gids[i]) # None /\ Published[gids[i]].gid = gids[i]
<1>1. PICK gids \in [DOMAIN page -> DOMAIN Published \intersect 1..MaxGid] :
        IsInjective(gids) /\ \A i \in DOMAIN page : Names(gids[i], page[i])
  BY DEF Acceptable
<1>2. ASSUME NEW i \in DOMAIN page
      PROVE  /\ page[i].valid /\ CanonicalArtifactName(page[i].name) = ArtifactName(gids[i])
             /\ ArtifactName(gids[i]) # None /\ Published[gids[i]].gid = gids[i]
  <2>1. page[i].name \in ListedNames
    BY PagesAssumption
  <2>2. gids[i] \in 1..MaxGid
    BY <1>1
  <2>3. page[i].valid /\ page[i].name \in Spellings(gids[i]) /\ Published[gids[i]].gid = gids[i]
    BY <1>1 DEF Names
  <2> QED BY <2>1, <2>2, <2>3, CanonicalNames
<1> QED BY <1>1, <1>2

\* Once every item is parsed, an acceptable page has distinct names that are all
\* known, each under the gid it is published with.
LEMMA AcceptableNames ==
  ASSUME Parsed, Len(names) = Len(page), Acceptable
  PROVE  /\ Distinct
         /\ \A n \in Range(names) : Known(n) /\ n = ArtifactName(Published[Value(n.digits)].gid)
<1>1. PICK gids \in [DOMAIN page -> DOMAIN Published \intersect 1..MaxGid] :
           /\ IsInjective(gids)
           /\ \A i \in DOMAIN page :
                /\ page[i].valid /\ CanonicalArtifactName(page[i].name) = ArtifactName(gids[i])
                /\ ArtifactName(gids[i]) # None /\ Published[gids[i]].gid = gids[i]
  BY AcceptableItems DEF Parsed
<1>2. DOMAIN page = 1..Len(page) /\ DOMAIN names = 1..Len(page)
  BY LenProperties, PagesAssumption DEF Parsed
<1>3. ASSUME NEW i \in DOMAIN names
      PROVE  /\ gids[i] \in DOMAIN Published /\ names[i] = ArtifactName(gids[i])
             /\ Value(names[i].digits) = gids[i] /\ Published[gids[i]].gid = gids[i]
  <2>1. gids[i] \in DOMAIN Published /\ gids[i] \in Nat
    BY <1>1, <1>2
  <2>2. names[i] = ArtifactName(gids[i]) /\ Published[gids[i]].gid = gids[i]
    BY <1>1, <1>2 DEF Parsed
  <2> QED BY <2>1, <2>2, ArtifactNames
<1>4. Distinct
  <2> SUFFICES ASSUME NEW i \in DOMAIN names, NEW j \in DOMAIN names, names[i] = names[j]
               PROVE  i = j
    BY DEF Distinct, IsInjective
  <2>1. gids[i] = gids[j]
    BY <1>3
  <2> QED BY <1>1, <1>2, <2>1 DEF IsInjective
<1>5. \A n \in Range(names) : Known(n) /\ n = ArtifactName(Published[Value(n.digits)].gid)
  <2> SUFFICES ASSUME NEW n \in Range(names)
               PROVE  Known(n) /\ n = ArtifactName(Published[Value(n.digits)].gid)
    OBVIOUS
  <2>1. PICK i \in DOMAIN names : n = names[i]
    BY DEF Range
  <2> QED BY <1>3, <2>1 DEF Known
<1> QED BY <1>4, <1>5

\* A page whose names are distinct, known, and the names of what is published
\* under them is acceptable.
LEMMA NamesAcceptable ==
  ASSUME Parsed, Len(names) = Len(page), Distinct,
         \A n \in Range(names) : Known(n) /\ n = ArtifactName(Published[Value(n.digits)].gid)
  PROVE  Acceptable
<1> DEFINE gids == [i \in DOMAIN page |-> Value(names[i].digits)]
<1>1. DOMAIN page = 1..Len(page) /\ DOMAIN names = 1..Len(page)
  BY LenProperties, PagesAssumption DEF Parsed
<1>2. ASSUME NEW i \in DOMAIN page
      PROVE  /\ gids[i] \in DOMAIN Published \intersect 1..MaxGid
             /\ Names(gids[i], page[i]) /\ names[i] = ArtifactName(gids[i])
  <2>1. /\ page[i].valid /\ page[i].name \in ListedNames
        /\ names[i] = CanonicalArtifactName(page[i].name) /\ names[i] # None
    BY <1>1, PagesAssumption DEF Parsed
  <2>2. PICK g \in 1..MaxGid : page[i].name \in Spellings(g) /\ names[i] = ArtifactName(g)
    BY <2>1, CanonicalNames
  <2>3. g \in Nat /\ Value(names[i].digits) = g
    BY <2>2, ArtifactNames, NumbersAssumption
  <2>4. gids[i] = g
    BY <2>3
  <2>5. names[i] \in Range(names)
    BY <1>1 DEF Range
  <2>6. g \in DOMAIN Published /\ names[i] = ArtifactName(Published[g].gid)
    BY <2>3, <2>5 DEF Known
  <2>7. Published[g].gid \in Nat
    BY <2>6, PublishedAssumption
  <2>8. Published[g].gid = g
    <3>1. Value(ArtifactName(Published[g].gid).digits) = Published[g].gid
      BY <2>7, ArtifactNames
    <3> QED BY <2>3, <2>6, <3>1
  <2> HIDE DEF gids
  <2> QED BY <2>1, <2>2, <2>4, <2>6, <2>8 DEF Names
<1>3. gids \in [DOMAIN page -> DOMAIN Published \intersect 1..MaxGid]
  BY <1>2
<1>4. IsInjective(gids)
  <2> SUFFICES ASSUME NEW i \in DOMAIN page, NEW j \in DOMAIN page, gids[i] = gids[j]
               PROVE  i = j
    BY DEF IsInjective
  <2>1. names[i] = names[j]
    <3> HIDE DEF gids
    <3> QED BY <1>2
  <2> QED BY <1>1, <2>1 DEF Distinct, IsInjective
<1> HIDE DEF gids
<1> QED BY <1>2, <1>3, <1>4 DEF Acceptable

LEMMA InitInv == Init => IInv
<1> SUFFICES ASSUME Init PROVE IInv
  OBVIOUS
<1>1. page \in Pages /\ pc = "parsing" /\ names = <<>> /\ offset = 0 /\ rows = {}
      /\ publications = [n \in {} |-> None]
  BY DEF Init
<1>2. Len(page) \in Nat /\ Len(names) = 0 /\ names \in Seq(ListedNames) /\ DOMAIN names = {}
  BY <1>1, PagesAssumption, LenProperties, EmptySeq
<1>3. Parsed
  BY <1>1, <1>2 DEF Parsed
<1>4. Answered
  <2>1. LookedUp = {}
    BY <1>2 DEF LookedUp
  <2>2. [n \in {m \in {} : Known(m)} |-> Published[Value(n.digits)]] = [n \in {} |-> None]
    OBVIOUS
  <2> QED BY <1>1, <2>1, <2>2 DEF Answered
<1> QED BY <1>1, <1>3, <1>4 DEF IInv, Collected

\* A step that ends the pass leaves everything else alone.
LEMMA IncompleteInv ==
  ASSUME IInv, Incomplete, pc \in {"parsing", "looking up"}, ~Acceptable
  PROVE  IInv'
<1>1. pc' = "incomplete" /\ UNCHANGED <<page, names, offset, publications, rows>>
  BY DEF Incomplete
<1>2. LookedUp' = LookedUp /\ (\A n : Known(n)' = Known(n)) /\ Acceptable' = Acceptable
  BY <1>1 DEF LookedUp, Known, Acceptable
<1>3. Parsed'
  BY <1>1 DEF IInv, Parsed
<1>4. Answered'
  BY <1>1, <1>2 DEF IInv, Answered
<1>5. Collected'
  BY <1>1 DEF IInv, Collected
<1> QED BY <1>1, <1>2, <1>3, <1>4, <1>5 DEF IInv

LEMMA ParseItemInv == IInv /\ ParseItem => IInv'
<1> SUFFICES ASSUME IInv, ParseItem PROVE IInv'
  OBVIOUS
<1> DEFINE i == Len(names) + 1
           name == CanonicalArtifactName(page[i].name)
<1>1. /\ pc = "parsing" /\ Len(names) < Len(page) /\ page \in Pages
      /\ names \in Seq(ListedNames) /\ Len(names) \in Nat /\ Len(page) \in Nat
      /\ DOMAIN page = 1..Len(page) /\ i \in DOMAIN page
  BY PagesAssumption, LenProperties DEF IInv, Parsed, ParseItem
<1>2. page[i].valid \in BOOLEAN /\ page[i].name \in ListedNames
  BY <1>1, PagesAssumption
<1>3. CASE page[i].valid /\ name # None
  <2>1. names' = Append(names, name) /\ UNCHANGED <<page, pc, offset, publications, rows>>
    BY <1>3 DEF ParseItem
  <2>2. name \in ListedNames
    <3>1. PICK g \in 1..MaxGid : name = ArtifactName(g)
      BY <1>2, <1>3, CanonicalNames
    <3> QED BY <3>1, ArtifactNames, NumbersAssumption
  <2> HIDE DEF name
  <2>3. /\ names' \in Seq(ListedNames) /\ Len(names') = i /\ names'[i] = name
        /\ \A k \in 1..Len(names) : names'[k] = names[k]
    BY <1>1, <2>1, <2>2, AppendProperties
  <2>4. Parsed'
    <3>1. ASSUME NEW k \in 1..Len(names')
          PROVE  page[k].valid /\ names'[k] = CanonicalArtifactName(page[k].name) /\ names'[k] # None
      <4>1. CASE k = i
        BY <1>3, <2>3, <4>1 DEF name
      <4>2. CASE k # i
        <5>1. k \in 1..Len(names)
          BY <1>1, <2>3, <4>2
        <5> QED BY <2>3, <5>1 DEF IInv, Parsed
      <4> QED BY <4>1, <4>2
    <3> QED BY <1>1, <2>1, <2>3, <3>1 DEF Parsed
  <2>5. Answered'
    <3>1. LookedUp = {} /\ LookedUp' = {}
      <4>1. offset = 0 /\ offset' = 0
        BY <1>1, <2>1 DEF IInv, Answered
      <4>2. DOMAIN names = 1..Len(names) /\ DOMAIN names' = 1..i
        BY <1>1, <2>3, LenProperties
      <4> QED BY <4>1, <4>2 DEF LookedUp
    <3> QED BY <2>1, <3>1 DEF IInv, Answered, Known
  <2> QED BY <1>1, <2>1, <2>4, <2>5 DEF IInv, Collected
<1>4. CASE ~(page[i].valid /\ name # None)
  <2>1. Incomplete
    BY <1>4 DEF ParseItem
  <2>2. ~Acceptable
    <3> SUFFICES ASSUME Acceptable PROVE FALSE
      OBVIOUS
    <3>1. page[i].valid /\ name # None
      BY <1>1, AcceptableItems
    <3> QED BY <1>4, <3>1
  <2> QED BY <1>1, <2>1, <2>2, IncompleteInv
<1> QED BY <1>3, <1>4

LEMMA CheckDistinctInv == IInv /\ CheckDistinct => IInv'
<1> SUFFICES ASSUME IInv, CheckDistinct PROVE IInv'
  OBVIOUS
<1>1. pc = "parsing" /\ Len(names) = Len(page)
  BY DEF CheckDistinct
<1>2. CASE Distinct
  <2>1. pc' = "looking up" /\ UNCHANGED <<page, names, offset, publications, rows>>
    BY <1>2 DEF CheckDistinct
  <2>2. LookedUp' = LookedUp /\ (\A n : Known(n)' = Known(n)) /\ Distinct'
    BY <1>2, <2>1 DEF LookedUp, Known, Distinct
  <2>3. Parsed'
    BY <1>1, <2>1, <2>2 DEF IInv, Parsed
  <2>4. Answered'
    BY <2>1, <2>2 DEF IInv, Answered
  <2> QED BY <1>1, <2>1, <2>3, <2>4 DEF IInv, Collected
<1>3. CASE ~Distinct
  <2>1. Incomplete
    BY <1>3 DEF CheckDistinct
  <2>2. ~Acceptable
    BY <1>1, <1>3, AcceptableNames DEF IInv
  <2> QED BY <1>1, <2>1, <2>2, IncompleteInv
<1> QED BY <1>2, <1>3

\* The names of a batch are those between two offsets.
LEMMA BatchNames ==
  ASSUME names \in Seq(ListedNames), offset \in Nat, offset < Len(names)
  PROVE  Range(Batch) =
           {names[j] : j \in {k \in DOMAIN names : offset < k /\ k <= offset + LookupBatchSize}}
<1> DEFINE end == IF offset + LookupBatchSize <= Len(names) THEN offset + LookupBatchSize ELSE Len(names)
<1>1. /\ Len(names) \in Nat /\ DOMAIN names = 1..Len(names)
      /\ end \in Nat /\ offset + 1 <= end /\ end <= Len(names)
  BY NumbersAssumption, LenProperties
<1>2. Min({offset + LookupBatchSize, Len(names)}) = end
  <2> DEFINE S == {offset + LookupBatchSize, Len(names)}
  <2>1. end \in S /\ (\A x \in S : end <= x) /\ S \subseteq Int
    BY <1>1, NumbersAssumption
  <2>2. \A x \in S : (\A y \in S : x <= y) => x = end
    <3> HIDE DEF S, end
    <3> QED BY <2>1, <1>1
  <2> HIDE DEF S, end
  <2>3. Min(S) = end
    BY <2>1, <2>2 DEF Min
  <2> QED BY <2>3 DEF S
<1> HIDE DEF end
<1>3. Batch = SubSeq(names, offset + 1, end)
  BY <1>2 DEF Batch
<1>4. /\ Batch \in Seq(ListedNames) /\ Len(Batch) = end - offset
      /\ \A k \in 1..(end - offset) : Batch[k] = names[offset + k]
  <2>1. \A k \in (offset + 1)..end : names[k] \in ListedNames
    BY <1>1, ElementOfSeq
  <2> QED BY <1>1, <1>3, <2>1, SubSeqProperties
<1>5. Range(Batch) = {Batch[k] : k \in 1..(end - offset)}
  BY <1>4, RangeEquality
<1>6. \A k : k \in DOMAIN names /\ offset < k /\ k <= offset + LookupBatchSize
             <=> k \in (offset + 1)..end
  BY <1>1, NumbersAssumption DEF end
<1>7. {names[j] : j \in {k \in DOMAIN names : offset < k /\ k <= offset + LookupBatchSize}}
        = {names[j] : j \in (offset + 1)..end}
  BY <1>6, Zenon
<1>8. \A k \in 1..(end - offset) : offset + k \in (offset + 1)..end
  BY <1>1
<1>9. \A j \in (offset + 1)..end : j - offset \in 1..(end - offset) /\ j = offset + (j - offset)
  BY <1>1
<1>10. {Batch[k] : k \in 1..(end - offset)} = {names[j] : j \in (offset + 1)..end}
  <2>1. ASSUME NEW k \in 1..(end - offset) PROVE Batch[k] \in {names[j] : j \in (offset + 1)..end}
    BY <1>4, <1>8
  <2>2. ASSUME NEW j \in (offset + 1)..end PROVE names[j] \in {Batch[k] : k \in 1..(end - offset)}
    <3>1. j - offset \in 1..(end - offset) /\ Batch[j - offset] = names[j]
      BY <1>4, <1>9
    <3> QED BY <3>1
  <2> QED BY <2>1, <2>2
<1> QED BY <1>5, <1>7, <1>10

LEMMA LookUpInv == IInv /\ LookUp => IInv'
<1> SUFFICES ASSUME IInv, LookUp PROVE IInv'
  OBVIOUS
<1>1. pc = "looking up" /\ offset < Len(names)
  BY DEF LookUp
<1>2. CASE /\ publications' = Update(publications, Answer(Batch))
           /\ offset' = offset + LookupBatchSize
           /\ UNCHANGED <<page, pc, names, rows>>
  <2>1. Parsed'
    BY <1>2 DEF IInv, Parsed, Distinct
  <2>2. offset \in Nat /\ offset' \in Nat /\ names \in Seq(ListedNames) /\ Len(names) \in Nat
    <3>1. offset \in Nat /\ names \in Seq(ListedNames)
      BY DEF IInv, Parsed, Answered
    <3> QED BY <1>2, <3>1, NumbersAssumption, LenProperties
  <2>3. Range(Batch) = {names[j] : j \in {k \in DOMAIN names : offset < k /\ k <= offset'}}
    BY <1>1, <1>2, <2>2, BatchNames
  <2>4. LookedUp' = LookedUp \union Range(Batch)
    <3>1. \A k \in DOMAIN names : k <= offset' <=> k <= offset \/ (offset < k /\ k <= offset')
      BY <1>2, <2>2, NumbersAssumption, LenProperties
    <3> QED BY <1>2, <2>3, <3>1 DEF LookedUp
  <2>5. publications' = [n \in {m \in LookedUp' : Known(m)} |-> Published[Value(n.digits)]]
    <3>1. publications = [n \in {m \in LookedUp : Known(m)} |-> Published[Value(n.digits)]]
      BY DEF IInv, Answered
    <3>2. Answer(Batch) = [n \in {m \in Range(Batch) : Known(m)} |-> Published[Value(n.digits)]]
      BY DEF Answer, Known
    <3>3. publications' = Update(publications, Answer(Batch))
      BY <1>2
    <3> QED BY <2>4, <3>1, <3>2, <3>3 DEF Update
  <2>6. Answered'
    BY <1>1, <1>2, <2>2, <2>5 DEF Answered, Known
  <2> QED BY <1>1, <1>2, <2>1, <2>6 DEF IInv, Collected
<1>3. CASE pc' = "revision not found" /\ UNCHANGED <<page, names, offset, publications, rows>>
  <2>1. Parsed'
    BY <1>3 DEF IInv, Parsed
  <2>2. Answered'
    BY <1>3 DEF IInv, Answered, LookedUp, Known
  <2> QED BY <1>1, <1>3, <2>1, <2>2 DEF IInv, Collected
<1> QED BY <1>2, <1>3 DEF LookUp

LEMMA CollectRowsInv == IInv /\ CollectRows => IInv'
<1> SUFFICES ASSUME IInv, CollectRows PROVE IInv'
  OBVIOUS
<1> DEFINE Matches == /\ DOMAIN publications = Range(names)
                      /\ \A n \in Range(names) : n = ArtifactName(publications[n].gid)
<1>1. /\ pc = "looking up" /\ offset >= Len(names) /\ offset \in Nat
      /\ Len(names) = Len(page) /\ names \in Seq(ListedNames) /\ Distinct /\ page \in Pages
  BY DEF CollectRows, IInv, Parsed, Answered
<1>2. CASE Matches
  <2>1. /\ pc' = "collected" /\ rows' = {Row(page[i], names[i]) : i \in DOMAIN page}
        /\ UNCHANGED <<page, names, offset, publications>>
    BY <1>2 DEF CollectRows
  <2>2. Parsed'
    BY <1>1, <2>1 DEF IInv, Parsed, Distinct
  <2>3. Answered'
    BY <2>1 DEF IInv, Answered, LookedUp, Known
  <2>4. {Row(page[i], names[i]) : i \in DOMAIN page}' = {Row(page[i], names[i]) : i \in DOMAIN page}
    BY <2>1 DEF Row
  <2>5. Collected'
    BY <1>2, <2>1, <2>4 DEF Collected
  <2> QED BY <2>1, <2>2, <2>3, <2>5 DEF IInv
<1>3. CASE ~Matches
  <2>1. Incomplete
    BY <1>3 DEF CollectRows
  <2>2. ~Acceptable
    <3> SUFFICES ASSUME Acceptable PROVE FALSE
      OBVIOUS
    <3>1. \A n \in Range(names) : Known(n) /\ n = ArtifactName(Published[Value(n.digits)].gid)
      BY <1>1, AcceptableNames DEF IInv
    <3>2. LookedUp = Range(names)
      <4>1. \A j \in DOMAIN names : j <= offset
        <5>1. DOMAIN names = 1..Len(names) /\ Len(names) \in Nat
          BY <1>1, LenProperties
        <5>2. offset \in Nat /\ Len(names) <= offset
          BY <1>1, <5>1
        <5>3. \A j \in 1..Len(names) : j <= offset
          BY <5>1, <5>2
        <5> QED BY <5>1, <5>3
      <4> QED BY <4>1 DEF LookedUp, Range
    <3>3. publications = [n \in Range(names) |-> Published[Value(n.digits)]]
      BY <3>1, <3>2 DEF IInv, Answered
    <3>4. Matches
      BY <3>1, <3>3
    <3> QED BY <1>3, <3>4
  <2> QED BY <1>1, <2>1, <2>2, IncompleteInv
<1> QED BY <1>2, <1>3

LEMMA StutterInv == IInv /\ UNCHANGED vars => IInv'
<1> SUFFICES ASSUME IInv, UNCHANGED vars PROVE IInv'
  OBVIOUS
<1> USE DEF vars
<1>1. Parsed'
  BY DEF IInv, Parsed, Distinct
<1>2. Answered'
  BY DEF IInv, Answered, LookedUp, Known
<1>3. {Row(page[i], names[i]) : i \in DOMAIN page}' = {Row(page[i], names[i]) : i \in DOMAIN page}
  BY DEF Row
<1>4. Collected'
  BY <1>3 DEF IInv, Collected
<1>5. Acceptable' = Acceptable
  BY DEF Acceptable
<1> QED BY <1>1, <1>2, <1>4, <1>5 DEF IInv

\* The inductive invariant: the items parsed so far are valid and their names the
\* canonical ones; the dictionary holds just what is published under the names
\* before the offset; the rows are those of a page whose names all matched.
THEOREM Invariant == Spec => []IInv
<1>1. IInv /\ [Next]_vars => IInv'
  BY ParseItemInv, CheckDistinctInv, LookUpInv, CollectRowsInv, StutterInv DEF Next, Done
<1> QED BY InitInv, <1>1, PTL DEF Spec

\* _collect_book_page goes on to add_books with exactly the pages that are
\* acceptable as a whole, and raises _IncompleteSnapshot only over the others.
THEOREM PagesExact == Spec => []AcceptsExactPages
<1>1. IInv => AcceptsExactPages
  <2> SUFFICES ASSUME IInv PROVE AcceptsExactPages
    OBVIOUS
  <2>1. ASSUME pc = "collected" PROVE Acceptable
    <3>1. Len(names) = Len(page) /\ Distinct /\ DOMAIN publications = Range(names)
      BY <2>1 DEF IInv, Parsed, Collected
    <3>2. ASSUME NEW n \in Range(names)
          PROVE  Known(n) /\ n = ArtifactName(Published[Value(n.digits)].gid)
      <4>1. publications = [m \in {m \in LookedUp : Known(m)} |-> Published[Value(m.digits)]]
        BY DEF IInv, Answered
      <4>2. n \in DOMAIN publications /\ n = ArtifactName(publications[n].gid)
        BY <2>1, <3>1 DEF IInv, Collected
      <4>3. Known(n) /\ publications[n] = Published[Value(n.digits)]
        BY <4>1, <4>2
      <4> QED BY <4>2, <4>3
    <3> QED BY <3>1, <3>2, NamesAcceptable DEF IInv
  <2> QED BY <2>1 DEF IInv, AcceptsExactPages
<1> QED BY <1>1, Invariant, PTL

\* The authors of what is written.
LEMMA AuthorsOf ==
  ASSUME NEW publication, publication.subjects \in Seq(Range(publication.subjects))
  PROVE  LET authors == Authors(publication)
         IN  /\ Range(Front(authors)) =
                  {Author(s) : s \in {t \in Range(publication.subjects) : IsGalleryTag(t)}}
             /\ Last(authors) = GidAuthor(publication)
<1> DEFINE tags == TagAuthors(publication.subjects)
           gid == GidAuthor(publication)
           authors == Append(tags, gid)
<1>1. PICK A :
        /\ tags \in Seq(A)
        /\ Range(tags) = {Author(s) : s \in {t \in Range(publication.subjects) : IsGalleryTag(t)}}
  BY TagAuthorsRange
<1> HIDE DEF tags, gid
<1> DEFINE B == A \union {gid}
<1>2. tags \in Seq(B) /\ gid \in B
  BY <1>1, SeqMonotonic
<1> HIDE DEF B
<1>3. /\ authors \in Seq(B) /\ Len(tags) \in Nat /\ Len(authors) = Len(tags) + 1
      /\ \A k \in 1..Len(tags) : authors[k] = tags[k]
      /\ authors[Len(tags) + 1] = gid
  BY <1>2, AppendProperties, LenProperties
<1> HIDE DEF authors
<1>4. Last(authors) = gid
  BY <1>3 DEF Last
<1>5. /\ Front(authors) \in Seq(B) /\ Len(Front(authors)) = Len(tags)
      /\ \A k \in 1..Len(tags) : Front(authors)[k] = tags[k]
  <2>1. Front(authors) = SubSeq(authors, 1, Len(tags))
    BY <1>3 DEF Front
  <2>2. \A k \in 1..Len(tags) : authors[k] \in B
    BY <1>3, ElementOfSeq
  <2> QED BY <1>3, <2>1, <2>2, SubSeqProperties
<1>6. Front(authors) = tags
  BY <1>2, <1>5, SeqEqual
<1>7. Authors(publication) = authors
  BY DEF Authors, authors, tags, gid
<1> QED BY <1>1, <1>4, <1>6, <1>7 DEF tags, gid

\* publication_to_komga_metadata keeps every gallery tag, whatever lies between
\* them, and appends the gid; what is handed to add_books says so.
THEOREM TagsWritten == Spec => []WritesAllTags
<1>1. IInv => WritesAllTags
  <2> SUFFICES ASSUME IInv, NEW row \in rows, row.want # None
               PROVE  LET publication == publications[row.name]
                          tags == {s \in Range(publication.subjects) :
                                     s.name # "" /\ s.scheme = "tag" /\ {s.code, s.kind} # {""}}
                          authors == row.want["authors"]
                      IN  /\ Range(Front(authors)) =
                               {[name |-> s.name, role |-> IF s.code = "" THEN s.kind ELSE s.code] : s \in tags}
                          /\ Last(authors) = GidAuthor(publication)
                          /\ "title" \in DOMAIN row.want <=> publication.title # "blank"
    BY DEF WritesAllTags
  <2> DEFINE publication == publications[row.name]
  <2>1. pc = "collected" /\ rows = {Row(page[i], names[i]) : i \in DOMAIN page}
    BY DEF IInv, Collected
  <2>2. PICK i \in DOMAIN page : row = Row(page[i], names[i])
    BY <2>1
  <2>3. row.name = names[i] /\ row.want = KomgaMetadata(publication)
    BY <2>2 DEF Row
  <2>4. row.name \in DOMAIN publications
    <3>1. DOMAIN page = 1..Len(page) /\ DOMAIN names = 1..Len(page)
      BY <2>1, LenProperties, PagesAssumption DEF IInv, Parsed
    <3> QED BY <2>1, <2>3, <3>1 DEF IInv, Collected, Range
  <2>5. publication.subjects \in Seq(Range(publication.subjects))
    <3>1. publications = [n \in {m \in LookedUp : Known(m)} |-> Published[Value(n.digits)]]
      BY DEF IInv, Answered
    <3>2. Known(row.name) /\ publication = Published[Value(row.name.digits)]
      BY <2>4, <3>1
    <3> QED BY <3>2, PublishedAssumption DEF Known
  <2> HIDE DEF publication
  <2>6. /\ row.want["authors"] = Authors(publication)
        /\ "title" \in DOMAIN row.want <=> publication.title # "blank"
    BY <2>3 DEF KomgaMetadata
  <2>7. \A s : /\ IsGalleryTag(s) <=> s.name # "" /\ s.scheme = "tag" /\ {s.code, s.kind} # {""}
              /\ Author(s) = [name |-> s.name, role |-> IF s.code = "" THEN s.kind ELSE s.code]
    BY DEF IsGalleryTag, Author, Role
  <2>8. /\ Range(Front(Authors(publication))) =
             {Author(s) : s \in {t \in Range(publication.subjects) : IsGalleryTag(t)}}
        /\ Last(Authors(publication)) = GidAuthor(publication)
    BY <2>5, AuthorsOf
  <2>9. {t \in Range(publication.subjects) : IsGalleryTag(t)} =
          {s \in Range(publication.subjects) : s.name # "" /\ s.scheme = "tag" /\ {s.code, s.kind} # {""}}
    BY <2>7
  <2>10. \A S : {Author(s) : s \in S} =
                  {[name |-> s.name, role |-> IF s.code = "" THEN s.kind ELSE s.code] : s \in S}
    BY <2>7
  <2> QED BY <2>6, <2>8, <2>9, <2>10, Zenon DEF publication
<1> QED BY <1>1, Invariant, PTL
=============================================================================
