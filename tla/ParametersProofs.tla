-------------------------- MODULE ParametersProofs --------------------------
(***************************************************************************)
(* Theorems about the parameter store, for every set of names, values,     *)
(* descriptors, requests, listings and command lines, and every width of   *)
(* the integer type.                                                       *)
(***************************************************************************)
EXTENDS Parameters, FiniteSetTheorems, SequenceTheorems, WellFoundedInduction, TLAPS

(***************************************************************************)
(* The inductive invariant: what is stored was checked, the lists hold     *)
(* parameters, and they cover what changed since they were last taken.     *)
(***************************************************************************)

\* The names and values a caller hands over, and the change lists hold.
Assignments == [name : Seq(STRING), value : ParamValues]

OptionsOK == entry \in OverrideEntries /\ overrides = SelectOverrides(<<entry>>)

\* What is stored passed the checks of its name and of its descriptor.
WellStored(n) ==
    /\ n \in Seq(STRING) /\ ValidName(n)
    /\ params[n] \in [value : ParamValues, desc : ParamDescriptors]
    /\ ValidValue(params[n].value, params[n].desc)
StoreOK ==
    /\ params = [n \in DOMAIN params |-> params[n]]
    /\ \A n \in DOMAIN params : WellStored(n)

ListsOK ==
    /\ pending \in [new : Seq(Assignments), changed : Seq(Assignments),
                    deleted : Seq(Assignments)]
    /\ Delta(pending) <= MaxDelta

ReadingOK ==
    /\ reading \in [names : Seq(Seq(STRING)), got : Seq(ParamValues), open : BOOLEAN]
    /\ Len(reading.got) <= Len(reading.names)

ParamTypeInv == OptionsOK /\ StoreOK /\ ListsOK /\ ReadingOK /\ nodeShut \in BOOLEAN

ParamInv == ParamTypeInv /\ PendingCoversDelta

(***************************************************************************)
(* Induction over the naturals in terms of sets: the strict inclusion of   *)
(* finite sets is well founded, so a set of naturals has a least element.  *)
(***************************************************************************)

\* A set of natural numbers that is not empty has a least element.
LEMMA LeastNat ==
    ASSUME NEW T, T \subseteq Nat, T # {}
    PROVE  \E m \in T : \A k \in T : m <= k
<1> DEFINE W == {1..m : m \in T}
<1>1. W \subseteq FiniteSubsetsOf(Nat)
  BY FS_Interval DEF FiniteSubsetsOf
<1>2. \E X \in W : \A Y \in W : ~(<<Y, X>> \in StrictSubsetOrdering(Nat))
  <2> HIDE DEF W
  <2>1. W # {}
    BY DEF W
  <2> QED
    BY <1>1, <2>1, FS_StrictSubsetOrderingWellFounded, WFMin
<1>3. PICK m \in T : \A k \in T : ~(<<1..k, 1..m>> \in StrictSubsetOrdering(Nat))
  BY <1>2
<1>4. ASSUME NEW k \in T, k < m
      PROVE  FALSE
  <2>1. 1..k \subseteq 1..m /\ 1..k # 1..m
    <3>1. m \in 1..m /\ m \notin 1..k
      BY <1>4
    <3> QED
      BY <3>1, <1>4
  <2>2. 1..k \in SUBSET Nat /\ 1..m \in SUBSET Nat
    OBVIOUS
  <2> QED
    BY <1>3, <2>1, <2>2 DEF StrictSubsetOrdering
<1> QED
  BY <1>4

\* A set that holds 0 and with each number below n the next one holds 0..n.
LEMMA Climb ==
    ASSUME NEW n \in Nat, NEW T, 0 \in T,
           \A i \in 0..(n - 1) : i \in T => i + 1 \in T
    PROVE  \A i \in 0..n : i \in T
<1> DEFINE W == {i \in 0..n : i \notin T}
<1>1. SUFFICES ASSUME W # {}
               PROVE  FALSE
  OBVIOUS
<1>2. PICK m \in W : \A k \in W : m <= k
  <2>1. W \subseteq Nat
    OBVIOUS
  <2> QED
    BY <1>1, <2>1, LeastNat
<1>3. m # 0 /\ m - 1 \in 0..(n - 1)
  OBVIOUS
<1>4. m - 1 \in T
  BY <1>2, <1>3
<1> QED
  BY <1>3, <1>4

\* f starts at base and each value follows from the one before it by step.
Recurs(f, n, base, step) ==
    f[0] = base /\ \A i \in 1..n : f[i] = step[<<i, f[i - 1]>>]

\* A function defined by recursion over 0..n exists.
LEMMA RecursionExists ==
    ASSUME NEW n \in Nat, NEW V, NEW base \in V, NEW step \in [(1..n) \X V -> V]
    PROVE  \E f \in [0..n -> V] : Recurs(f, n, base, step)
<1> DEFINE Fits(k, f) == f[0] = base /\ \A i \in 1..k : f[i] = step[<<i, f[i - 1]>>]
           T == {k \in 0..n : \E f \in [0..k -> V] : Fits(k, f)}
<1>1. 0 \in T
  <2> DEFINE z == [i \in 0..0 |-> base]
  <2>1. z \in [0..0 -> V] /\ z[0] = base
    OBVIOUS
  <2>2. \A i \in 1..0 : z[i] = step[<<i, z[i - 1]>>]
    OBVIOUS
  <2> HIDE DEF z
  <2> QED
    BY <2>1, <2>2
<1>2. ASSUME NEW k \in 0..(n - 1), k \in T
      PROVE  k + 1 \in T
  <2>1. PICK f \in [0..k -> V] : Fits(k, f)
    BY <1>2
  <2> DEFINE g == [i \in 0..(k + 1) |-> IF i = k + 1 THEN step[<<k + 1, f[k]>>] ELSE f[i]]
  <2>2. step[<<k + 1, f[k]>>] \in V
    OBVIOUS
  <2>3. g \in [0..(k + 1) -> V]
    BY <2>2
  <2>4. g[0] = base
    BY <2>1
  <2>5. ASSUME NEW i \in 1..(k + 1)
        PROVE  g[i] = step[<<i, g[i - 1]>>]
    <3>1. CASE i = k + 1
      <4>1. i - 1 = k /\ k \in 0..(k + 1) /\ k # k + 1
        BY <3>1
      <4>2. g[i - 1] = f[k]
        BY <4>1
      <4>3. g[i] = step[<<k + 1, f[k]>>]
        BY <3>1
      <4> QED
        BY <3>1, <4>2, <4>3
    <3>2. CASE i # k + 1
      <4>1. i \in 1..k /\ i - 1 \in 0..k
        BY <3>2
      <4>2. g[i] = f[i] /\ g[i - 1] = f[i - 1]
        BY <4>1
      <4> QED
        BY <2>1, <4>1, <4>2
    <3> QED
      BY <3>1, <3>2
  <2>6. k + 1 \in 0..n
    OBVIOUS
  <2> QED
    BY <2>3, <2>4, <2>5, <2>6
<1>3. n \in T
  <2> HIDE DEF T
  <2> QED
    BY <1>1, <1>2, Climb
<1> QED
  BY <1>3 DEF Recurs

\* f[k] holds the elements that InOrder keeps of the first k ones.
Keeps(f, s, X) ==
    /\ f[0] = <<>>
    /\ \A i \in 1..Len(s) :
          f[i] = IF s[i] \in X THEN Append(f[i - 1], s[i]) ELSE f[i - 1]

\* What InOrder computes, step by step.
LEMMA InOrderSteps ==
    ASSUME NEW S, NEW s \in Seq(S), NEW X
    PROVE  \E f \in [0..Len(s) -> Seq(S)] :
              Keeps(f, s, X) /\ InOrder(s, X) = f[Len(s)]
<1> DEFINE n == Len(s)
           V == Seq(S)
           step == [p \in (1..n) \X V |->
                      IF s[p[1]] \in X THEN Append(p[2], s[p[1]]) ELSE p[2]]
           Body(h) == [i \in 0..n |-> IF i = 0 THEN <<>>
                         ELSE IF s[i] \in X THEN Append(h[i - 1], s[i]) ELSE h[i - 1]]
<1>1. step \in [(1..n) \X V -> V] /\ <<>> \in V /\ n \in Nat
  OBVIOUS
<1>2. PICK g \in [0..n -> V] : Recurs(g, n, <<>>, step)
  <2> HIDE DEF n, step, V
  <2> QED
    BY <1>1, RecursionExists
<1>3. g = Body(g)
  <2>1. ASSUME NEW i \in 1..n
        PROVE  g[i] = IF s[i] \in X THEN Append(g[i - 1], s[i]) ELSE g[i - 1]
    <3>1. i - 1 \in 0..n /\ g[i - 1] \in Seq(S) /\ <<i, g[i - 1]>> \in (1..n) \X Seq(S)
      OBVIOUS
    <3>2. g[i] = step[<<i, g[i - 1]>>]
      BY <1>2 DEF Recurs
    <3> QED
      BY <3>1, <3>2
  <2>2. g[0] = <<>>
    BY <1>2 DEF Recurs
  <2>3. ASSUME NEW i \in 0..n
        PROVE  g[i] = Body(g)[i]
    <3>1. Body(g)[i] = IF i = 0 THEN <<>>
                       ELSE IF s[i] \in X THEN Append(g[i - 1], s[i]) ELSE g[i - 1]
      OBVIOUS
    <3> HIDE DEF Body
    <3>2. CASE i = 0
      BY <3>1, <3>2, <2>2
    <3>3. CASE i # 0
      <4>1. i \in 1..n
        BY <3>3
      <4> QED
        BY <3>1, <3>3, <4>1, <2>1
    <3> QED
      BY <3>2, <3>3
  <2>4. g = [i \in 0..n |-> g[i]] /\ Body(g) = [i \in 0..n |-> Body(g)[i]]
    OBVIOUS
  <2> QED
    BY <2>3, <2>4
<1>4. PICK h : h = Body(h) /\ InOrder(s, X) = h[n]
  <2>1. \E h : h = Body(h)
    BY <1>3
  <2>2. (CHOOSE h : h = Body(h)) = Body(CHOOSE h : h = Body(h))
    BY <2>1, Zenon
  <2>3. InOrder(s, X) = (CHOOSE h : h = Body(h))[n]
    BY Zenon DEF InOrder
  <2> HIDE DEF Body
  <2> QED
    BY <2>2, <2>3
<1>5. ASSUME NEW i \in 0..n
      PROVE  h[i] = IF i = 0 THEN <<>>
                    ELSE IF s[i] \in X THEN Append(h[i - 1], s[i]) ELSE h[i - 1]
  <2>1. Body(h)[i] = IF i = 0 THEN <<>>
                     ELSE IF s[i] \in X THEN Append(h[i - 1], s[i]) ELSE h[i - 1]
    OBVIOUS
  <2> HIDE DEF Body
  <2> QED
    BY <1>4, <2>1
<1>6. h = [i \in 0..n |-> h[i]]
  <2>1. Body(h) = [i \in 0..n |-> Body(h)[i]]
    OBVIOUS
  <2> HIDE DEF Body
  <2> QED
    BY <1>4, <2>1
<1>7. h[0] = <<>>
  BY <1>1, <1>5
<1>8. ASSUME NEW i \in 1..n
      PROVE  h[i] = IF s[i] \in X THEN Append(h[i - 1], s[i]) ELSE h[i - 1]
  BY <1>5
<1>9. \A i \in 0..n : h[i] \in V
  <2> DEFINE T == {i \in 0..n : h[i] \in V}
  <2>1. 0 \in T
    BY <1>1, <1>7
  <2>2. ASSUME NEW i \in 0..(n - 1), i \in T
        PROVE  i + 1 \in T
    <3>1. i + 1 \in 1..n /\ s[i + 1] \in S /\ (i + 1) - 1 = i
      OBVIOUS
    <3>2. h[i + 1] = IF s[i + 1] \in X THEN Append(h[i], s[i + 1]) ELSE h[i]
      BY <1>8, <3>1
    <3>3. Append(h[i], s[i + 1]) \in V
      <4>1. h[i] \in Seq(S)
        BY <2>2
      <4> QED
        BY <3>1, <4>1
    <3>4. h[i + 1] \in V
      BY <2>2, <3>2, <3>3
    <3>5. i + 1 \in 0..n
      OBVIOUS
    <3> QED
      BY <3>4, <3>5
  <2>3. \A i \in 0..n : i \in T
    <3> HIDE DEF T, n
    <3> QED
      BY <1>1, <2>1, <2>2, Climb
  <2> QED
    BY <2>3
<1>10. h \in [0..Len(s) -> Seq(S)] /\ Keeps(h, s, X)
  BY <1>6, <1>7, <1>8, <1>9 DEF Keeps
<1> QED
  BY <1>4, <1>10

\* What InOrder keeps: exactly the elements of s that are in X.
LEMMA InOrderElements ==
    ASSUME NEW S, NEW s \in Seq(S), NEW X
    PROVE  /\ InOrder(s, X) \in Seq(S)
           /\ \A j \in 1..Len(InOrder(s, X)) :
                 \E i \in 1..Len(s) : s[i] \in X /\ InOrder(s, X)[j] = s[i]
           /\ \A i \in 1..Len(s) : s[i] \in X =>
                 \E j \in 1..Len(InOrder(s, X)) : InOrder(s, X)[j] = s[i]
<1> DEFINE n == Len(s)
<1>1. PICK f \in [0..Len(s) -> Seq(S)] :
         Keeps(f, s, X) /\ InOrder(s, X) = f[Len(s)]
  BY InOrderSteps
<1> DEFINE From(k) == \A j \in 1..Len(f[k]) : \E i \in 1..k : s[i] \in X /\ f[k][j] = s[i]
           Into(k) == \A i \in 1..k : s[i] \in X => \E j \in 1..Len(f[k]) : f[k][j] = s[i]
           T == {k \in 0..n : From(k) /\ Into(k)}
<1>2. n \in Nat
  OBVIOUS
<1>3. 0 \in T
  BY <1>1 DEF Keeps
<1>4. ASSUME NEW k \in 0..(n - 1), k \in T
      PROVE  k + 1 \in T
  <2>1. /\ k + 1 \in 1..n /\ k + 1 \in 0..n /\ k \in 0..n /\ (k + 1) - 1 = k
        /\ s[k + 1] \in S /\ f[k] \in Seq(S)
    OBVIOUS
  <2>2. From(k) /\ Into(k)
    BY <1>4
  <2>3. f[k + 1] = IF s[k + 1] \in X THEN Append(f[k], s[k + 1]) ELSE f[k]
    BY <1>1, <2>1 DEF Keeps
  <2>4. CASE s[k + 1] \in X
    <3>1. f[k + 1] = Append(f[k], s[k + 1])
      BY <2>3, <2>4
    <3>2. /\ Len(f[k + 1]) = Len(f[k]) + 1
          /\ f[k + 1][Len(f[k]) + 1] = s[k + 1]
          /\ \A j \in 1..Len(f[k]) : f[k + 1][j] = f[k][j]
      BY <2>1, <3>1, AppendProperties
    <3>3. ASSUME NEW j \in 1..Len(f[k + 1])
          PROVE  \E i \in 1..(k + 1) : s[i] \in X /\ f[k + 1][j] = s[i]
      <4>1. CASE j = Len(f[k]) + 1
        <5>1. k + 1 \in 1..(k + 1)
          OBVIOUS
        <5> QED
          BY <2>4, <3>2, <4>1, <5>1
      <4>2. CASE j # Len(f[k]) + 1
        <5>1. j \in 1..Len(f[k])
          BY <2>1, <3>2, <4>2
        <5>2. PICK i \in 1..k : s[i] \in X /\ f[k][j] = s[i]
          BY <2>2, <5>1
        <5> QED
          BY <3>2, <5>1, <5>2
      <4> QED
        BY <4>1, <4>2
    <3>4. ASSUME NEW i \in 1..(k + 1), s[i] \in X
          PROVE  \E j \in 1..Len(f[k + 1]) : f[k + 1][j] = s[i]
      <4>1. CASE i = k + 1
        <5>1. Len(f[k]) + 1 \in 1..Len(f[k + 1])
          BY <2>1, <3>2
        <5> QED
          BY <3>2, <4>1, <5>1
      <4>2. CASE i # k + 1
        <5>1. i \in 1..k
          BY <4>2
        <5>2. PICK j \in 1..Len(f[k]) : f[k][j] = s[i]
          BY <2>2, <3>4, <5>1
        <5>3. j \in 1..Len(f[k + 1])
          BY <2>1, <3>2
        <5> QED
          BY <3>2, <5>2, <5>3
      <4> QED
        BY <4>1, <4>2
    <3> QED
      BY <2>1, <3>3, <3>4
  <2>5. CASE s[k + 1] \notin X
    <3>1. f[k + 1] = f[k]
      BY <2>3, <2>5
    <3>2. ASSUME NEW j \in 1..Len(f[k + 1])
          PROVE  \E i \in 1..(k + 1) : s[i] \in X /\ f[k + 1][j] = s[i]
      <4>1. PICK i \in 1..k : s[i] \in X /\ f[k][j] = s[i]
        BY <2>2, <3>1
      <4> QED
        BY <3>1, <4>1
    <3>3. ASSUME NEW i \in 1..(k + 1), s[i] \in X
          PROVE  \E j \in 1..Len(f[k + 1]) : f[k + 1][j] = s[i]
      <4>1. i \in 1..k
        BY <2>5, <3>3
      <4> QED
        BY <2>2, <3>1, <3>3, <4>1
    <3> QED
      BY <2>1, <3>2, <3>3
  <2> QED
    BY <2>4, <2>5
<1>5. n \in T
  <2>1. \A i \in 0..n : i \in T
    <3> HIDE DEF T, n
    <3> QED
      BY <1>2, <1>3, <1>4, Climb
  <2> QED
    BY <2>1
<1>6. f[n] \in Seq(S)
  BY <1>2
<1> QED
  BY <1>1, <1>5, <1>6

\* Two disjoint sets keep together no more elements than there are.
LEMMA InOrderLengths ==
    ASSUME NEW S, NEW s \in Seq(S), NEW X, NEW Y, X \cap Y = {}
    PROVE  Len(InOrder(s, X)) + Len(InOrder(s, Y)) <= Len(s)
<1> DEFINE n == Len(s)
<1>1. PICK f \in [0..Len(s) -> Seq(S)] :
         Keeps(f, s, X) /\ InOrder(s, X) = f[Len(s)]
  BY InOrderSteps
<1>2. PICK g \in [0..Len(s) -> Seq(S)] :
         Keeps(g, s, Y) /\ InOrder(s, Y) = g[Len(s)]
  BY InOrderSteps
<1> DEFINE T == {k \in 0..n : Len(f[k]) + Len(g[k]) <= k}
<1>3. n \in Nat
  OBVIOUS
<1>4. 0 \in T
  BY <1>1, <1>2 DEF Keeps
<1>5. ASSUME NEW k \in 0..(n - 1), k \in T
      PROVE  k + 1 \in T
  <2>1. /\ k + 1 \in 1..n /\ k + 1 \in 0..n /\ k \in 0..n /\ (k + 1) - 1 = k
        /\ s[k + 1] \in S /\ f[k] \in Seq(S) /\ g[k] \in Seq(S)
    OBVIOUS
  <2>2. f[k + 1] = IF s[k + 1] \in X THEN Append(f[k], s[k + 1]) ELSE f[k]
    BY <1>1, <2>1 DEF Keeps
  <2>3. g[k + 1] = IF s[k + 1] \in Y THEN Append(g[k], s[k + 1]) ELSE g[k]
    BY <1>2, <2>1 DEF Keeps
  <2>4. /\ Len(Append(f[k], s[k + 1])) = Len(f[k]) + 1
        /\ Len(Append(g[k], s[k + 1])) = Len(g[k]) + 1
    BY <2>1, AppendProperties
  <2>5. Len(f[k]) \in Nat /\ Len(g[k]) \in Nat /\ Len(f[k]) + Len(g[k]) <= k
    BY <1>5, <2>1
  <2>6. ~(s[k + 1] \in X /\ s[k + 1] \in Y)
    OBVIOUS
  <2>7. /\ Len(f[k + 1]) = IF s[k + 1] \in X THEN Len(f[k]) + 1 ELSE Len(f[k])
        /\ Len(g[k + 1]) = IF s[k + 1] \in Y THEN Len(g[k]) + 1 ELSE Len(g[k])
    BY <2>2, <2>3, <2>4
  <2>8. Len(f[k + 1]) + Len(g[k + 1]) <= k + 1
    <3>1. k \in Nat
      OBVIOUS
    <3>2. \/ Len(f[k + 1]) = Len(f[k]) + 1 /\ Len(g[k + 1]) = Len(g[k])
          \/ Len(f[k + 1]) = Len(f[k]) /\ Len(g[k + 1]) = Len(g[k]) + 1
          \/ Len(f[k + 1]) = Len(f[k]) /\ Len(g[k + 1]) = Len(g[k])
      BY <2>6, <2>7
    <3> QED
      BY <2>5, <3>1, <3>2
  <2> QED
    BY <2>1, <2>8
<1>6. n \in T
  <2>1. \A i \in 0..n : i \in T
    <3> HIDE DEF T, n
    <3> QED
      BY <1>3, <1>4, <1>5, Climb
  <2> QED
    BY <2>1
<1> QED
  BY <1>1, <1>2, <1>6

(***************************************************************************)
(* Literals.                                                               *)
(***************************************************************************)

\* What Spelt computes, digit by digit.
LEMMA SpeltSteps ==
    ASSUME NEW digits \in Seq(0..9)
    PROVE  \E f : /\ f[0] = 0
                  /\ \A i \in 1..Len(digits) : f[i] = f[i - 1] * 10 + digits[i]
                  /\ Spelt(digits) = f[Len(digits)]
<1> DEFINE n == Len(digits)
           V == Int
           step == [p \in (1..n) \X V |-> p[2] * 10 + digits[p[1]]]
           Body(h) == [i \in 0..n |-> IF i = 0 THEN 0 ELSE h[i - 1] * 10 + digits[i]]
<1>1. step \in [(1..n) \X V -> V] /\ 0 \in V /\ n \in Nat
  <2>1. \A i \in 1..n : digits[i] \in Int
    OBVIOUS
  <2> QED
    BY <2>1
<1>2. PICK g \in [0..n -> V] : Recurs(g, n, 0, step)
  <2> HIDE DEF n, step, V
  <2> QED
    BY <1>1, RecursionExists
<1>3. g = Body(g)
  <2>1. ASSUME NEW i \in 1..n
        PROVE  g[i] = g[i - 1] * 10 + digits[i]
    <3>1. i - 1 \in 0..n /\ g[i - 1] \in Int /\ <<i, g[i - 1]>> \in (1..n) \X Int
      OBVIOUS
    <3>2. g[i] = step[<<i, g[i - 1]>>]
      BY <1>2 DEF Recurs
    <3> QED
      BY <3>1, <3>2
  <2>2. g[0] = 0
    BY <1>2 DEF Recurs
  <2>3. ASSUME NEW i \in 0..n
        PROVE  g[i] = Body(g)[i]
    <3>1. Body(g)[i] = IF i = 0 THEN 0 ELSE g[i - 1] * 10 + digits[i]
      OBVIOUS
    <3>2. i = 0 \/ i \in 1..n
      OBVIOUS
    <3> HIDE DEF Body, n
    <3> QED
      BY <2>1, <2>2, <3>1, <3>2
  <2>4. g = [i \in 0..n |-> g[i]] /\ Body(g) = [i \in 0..n |-> Body(g)[i]]
    OBVIOUS
  <2> QED
    BY <2>3, <2>4
<1>4. PICK h : h = Body(h) /\ Spelt(digits) = h[n]
  <2>1. \E h : h = Body(h)
    BY <1>3
  <2>2. (CHOOSE h : h = Body(h)) = Body(CHOOSE h : h = Body(h))
    BY <2>1, Zenon
  <2>3. Spelt(digits) = (CHOOSE h : h = Body(h))[n]
    BY Zenon DEF Spelt
  <2> HIDE DEF Body
  <2> QED
    BY <2>2, <2>3
<1>5. ASSUME NEW i \in 0..n
      PROVE  h[i] = IF i = 0 THEN 0 ELSE h[i - 1] * 10 + digits[i]
  <2>1. Body(h)[i] = IF i = 0 THEN 0 ELSE h[i - 1] * 10 + digits[i]
    OBVIOUS
  <2> HIDE DEF Body
  <2> QED
    BY <1>4, <2>1
<1>6. h[0] = 0
  BY <1>1, <1>5
<1>7. ASSUME NEW i \in 1..n
      PROVE  h[i] = h[i - 1] * 10 + digits[i]
  BY <1>5
<1> QED
  BY <1>4, <1>6, <1>7

\* One more digit passes the cap exactly when the number it ends does.
LEMMA DigitCap ==
    ASSUME NEW cap \in Nat, NEW m \in Nat, NEW d \in 0..9
    PROVE  m > (cap - d) \div 10 <=> m * 10 + d > cap
<1> DEFINE q == (cap - d) \div 10
           r == (cap - d) % 10
<1>1. q \in Int /\ r \in 0..9 /\ cap - d = 10 * q + r
  OBVIOUS
<1> HIDE DEF q, r
<1>2. m > q <=> m * 10 + d > cap
  BY <1>1
<1> QED
  BY <1>2 DEF q

\* What the loop of parses_as_integer computes, digit by digit.
LEMMA MagnitudeSteps ==
    ASSUME NEW digits \in Seq(0..9)
    PROVE  \E f : /\ f[0] = 0
                  /\ \A i \in 1..Len(digits) :
                        f[i] = IF f[i - 1] < 0 \/ f[i - 1] > ((IntMax + 1) - digits[i]) \div 10
                               THEN -1 ELSE f[i - 1] * 10 + digits[i]
                  /\ DigitsToMagnitude(digits) = f[Len(digits)]
<1> DEFINE n == Len(digits)
           V == Int
           Next1(m, d) == IF m < 0 \/ m > ((IntMax + 1) - d) \div 10 THEN -1 ELSE m * 10 + d
           step == [p \in (1..n) \X V |-> Next1(p[2], digits[p[1]])]
           Body(h) == [i \in 0..n |-> IF i = 0 THEN 0
                         ELSE IF h[i - 1] < 0 \/ h[i - 1] > ((IntMax + 1) - digits[i]) \div 10
                         THEN -1 ELSE h[i - 1] * 10 + digits[i]]
<1>1. step \in [(1..n) \X V -> V] /\ 0 \in V /\ n \in Nat
  <2>1. \A i \in 1..n : digits[i] \in Int
    OBVIOUS
  <2>2. \A m, d \in Int : Next1(m, d) \in Int
    OBVIOUS
  <2>3. ASSUME NEW p \in (1..n) \X V
        PROVE  Next1(p[2], digits[p[1]]) \in V
    <3>1. p[1] \in 1..n /\ p[2] \in Int /\ digits[p[1]] \in Int
      BY <2>1
    <3> HIDE DEF Next1
    <3> QED
      BY <2>2, <3>1
  <2> HIDE DEF Next1
  <2> QED
    BY <2>3
<1>2. PICK g \in [0..n -> V] : Recurs(g, n, 0, step)
  <2> HIDE DEF n, step, V
  <2> QED
    BY <1>1, RecursionExists
<1>3. g = Body(g)
  <2>1. ASSUME NEW i \in 1..n
        PROVE  g[i] = Next1(g[i - 1], digits[i])
    <3>1. i - 1 \in 0..n /\ g[i - 1] \in Int /\ <<i, g[i - 1]>> \in (1..n) \X Int
      OBVIOUS
    <3>2. g[i] = step[<<i, g[i - 1]>>]
      BY <1>2 DEF Recurs
    <3> HIDE DEF Next1
    <3> QED
      BY <3>1, <3>2
  <2>2. g[0] = 0
    BY <1>2 DEF Recurs
  <2>3. ASSUME NEW i \in 0..n
        PROVE  g[i] = Body(g)[i]
    <3>1. Body(g)[i] = IF i = 0 THEN 0 ELSE Next1(g[i - 1], digits[i])
      OBVIOUS
    <3>2. i = 0 \/ i \in 1..n
      OBVIOUS
    <3> HIDE DEF Body, n, Next1
    <3> QED
      BY <2>1, <2>2, <3>1, <3>2
  <2>4. g = [i \in 0..n |-> g[i]] /\ Body(g) = [i \in 0..n |-> Body(g)[i]]
    OBVIOUS
  <2> HIDE DEF Body
  <2> QED
    BY <2>3, <2>4
<1>4. PICK h : h = Body(h) /\ DigitsToMagnitude(digits) = h[n]
  <2>1. \E h : h = Body(h)
    BY <1>3
  <2>2. (CHOOSE h : h = Body(h)) = Body(CHOOSE h : h = Body(h))
    BY <2>1, Zenon
  <2>3. DigitsToMagnitude(digits) = (CHOOSE h : h = Body(h))[n]
    BY Zenon DEF DigitsToMagnitude
  <2> HIDE DEF Body
  <2> QED
    BY <2>2, <2>3
<1>5. ASSUME NEW i \in 0..n
      PROVE  h[i] = IF i = 0 THEN 0 ELSE Next1(h[i - 1], digits[i])
  <2>1. Body(h)[i] = IF i = 0 THEN 0 ELSE Next1(h[i - 1], digits[i])
    OBVIOUS
  <2> HIDE DEF Body, Next1
  <2> QED
    BY <1>4, <2>1
<1>6. h[0] = 0
  BY <1>1, <1>5
<1>7. ASSUME NEW i \in 1..n
      PROVE  h[i] = Next1(h[i - 1], digits[i])
  <2>1. i \in 0..n /\ i # 0
    OBVIOUS
  <2> HIDE DEF Next1
  <2> QED
    BY <1>5, <2>1
<1> QED
  BY <1>4, <1>6, <1>7

\* The loop reads the number that is spelt, up to the one magnitude that only
\* the negative side has, and refuses every larger one.
LEMMA MagnitudeExact ==
    ASSUME NEW digits \in Seq(0..9)
    PROVE  /\ Spelt(digits) \in Nat
           /\ DigitsToMagnitude(digits) = IF Spelt(digits) <= IntMax + 1
                                          THEN Spelt(digits) ELSE -1
<1> DEFINE n == Len(digits)
           cap == IntMax + 1
<1>1. PICK u : /\ u[0] = 0
               /\ \A i \in 1..Len(digits) : u[i] = u[i - 1] * 10 + digits[i]
               /\ Spelt(digits) = u[Len(digits)]
  BY SpeltSteps
<1>2. PICK m : /\ m[0] = 0
               /\ \A i \in 1..Len(digits) :
                     m[i] = IF m[i - 1] < 0 \/ m[i - 1] > ((IntMax + 1) - digits[i]) \div 10
                            THEN -1 ELSE m[i - 1] * 10 + digits[i]
               /\ DigitsToMagnitude(digits) = m[Len(digits)]
  BY MagnitudeSteps
<1> DEFINE T == {i \in 0..n : u[i] \in Nat /\ m[i] = IF u[i] <= cap THEN u[i] ELSE -1}
<1>3. n \in Nat /\ cap \in Nat
  BY ParameterAssumption
<1>4. 0 \in T
  BY <1>1, <1>2, <1>3
<1>5. ASSUME NEW i \in 0..(n - 1), i \in T
      PROVE  i + 1 \in T
  <2> DEFINE d == digits[i + 1]
  <2>1. i + 1 \in 1..n /\ i + 1 \in 0..n /\ (i + 1) - 1 = i /\ d \in 0..9
    OBVIOUS
  <2>2. u[i] \in Nat /\ m[i] = IF u[i] <= cap THEN u[i] ELSE -1
    BY <1>5
  <2>3. u[i + 1] = u[i] * 10 + d
    BY <1>1, <2>1
  <2>4. m[i + 1] = IF m[i] < 0 \/ m[i] > (cap - d) \div 10 THEN -1 ELSE m[i] * 10 + d
    BY <1>2, <2>1
  <2>5. u[i] > (cap - d) \div 10 <=> u[i] * 10 + d > cap
    BY <1>3, <2>1, <2>2, DigitCap
  <2>6. u[i + 1] \in Nat /\ u[i + 1] >= u[i]
    BY <2>1, <2>2, <2>3
  <2>7. CASE u[i] <= cap
    <3>1. m[i] = u[i] /\ ~(m[i] < 0)
      BY <2>2, <2>7
    <3>2. m[i + 1] = IF u[i + 1] <= cap THEN u[i + 1] ELSE -1
      <4> HIDE DEF cap, d
      <4> QED
        BY <1>3, <2>1, <2>2, <2>3, <2>4, <2>5, <2>6, <3>1
    <3> QED
      BY <2>1, <2>6, <3>2
  <2>8. CASE ~(u[i] <= cap)
    <3>1. m[i] = -1 /\ m[i] < 0
      BY <2>2, <2>8
    <3>2. m[i + 1] = -1 /\ ~(u[i + 1] <= cap)
      BY <1>3, <2>2, <2>4, <2>6, <2>8, <3>1
    <3> QED
      BY <2>1, <2>6, <3>2
  <2> QED
    BY <2>7, <2>8
<1>6. \A i \in 0..n : i \in T
  <2> HIDE DEF T, n, cap
  <2> QED
    BY <1>3, <1>4, <1>5, Climb
<1>7. n \in T
  BY <1>3, <1>6
<1> QED
  BY <1>1, <1>2, <1>7

\* A type and a number that fits it make a value.
LEMMA ValueOfType ==
    ASSUME NEW t \in ValueTypes, NEW k \in Int, t = "integer" => k \in Integer
    PROVE  [type |-> t, n |-> k] \in ParamValues
  BY DEF ParamValues

\* A literal is read as a value, and a number as the value it spells.
LEMMA LiteralIsRead ==
    ASSUME NEW text \in Literals
    PROVE  /\ ParseLiteral(text) \in ParamValues
           /\ text.kind = "number" =>
                LET value == IF text.negative THEN -Spelt(text.digits) ELSE Spelt(text.digits)
                    fits  == text.digits # <<>> /\ value \in (-(IntMax + 1))..IntMax
                IN  ParseLiteral(text) = IF fits THEN [type |-> "integer", n |-> value]
                                         ELSE [type |-> "string", n |-> 0]
<1> DEFINE mag == DigitsToMagnitude(text.digits)
           spelt == Spelt(text.digits)
           isInteger == /\ text.kind = "number" /\ text.digits # <<>>
                        /\ mag >= 0
                        /\ text.negative \/ mag <= IntMax
<1>1. /\ text.negative \in BOOLEAN /\ text.digits \in Seq(0..9)
      /\ text.n \in Int
  BY DEF Literals
<1>2. spelt \in Nat /\ mag = IF spelt <= IntMax + 1 THEN spelt ELSE -1
  BY <1>1, MagnitudeExact
<1>3. IntMax \in Nat
  BY ParameterAssumption
<1>4. ParseLiteral(text) =
        CASE text.kind = "boolean" -> [type |-> "bool", n |-> text.n]
          [] isInteger             -> [type |-> "integer",
                                       n |-> IF text.negative THEN -mag ELSE mag]
          [] text.kind = "decimal" -> [type |-> "double", n |-> text.n]
          [] OTHER                 -> [type |-> "string", n |-> 0]
  BY DEF ParseLiteral
<1> HIDE DEF mag, spelt, isInteger
<1>5. ASSUME isInteger
      PROVE  /\ (IF text.negative THEN -mag ELSE mag) \in Integer
             /\ mag = spelt
  BY <1>1, <1>2, <1>3, <1>5 DEF Integer, isInteger
<1>6. CASE text.kind = "boolean"
  <2>1. ParseLiteral(text) = [type |-> "bool", n |-> text.n]
    BY <1>4, <1>6 DEF isInteger
  <2>2. ParseLiteral(text) \in ParamValues
    BY <1>1, <2>1, ValueOfType DEF ValueTypes
  <2> QED
    BY <1>6, <2>2
<1>7. CASE text.kind = "decimal"
  <2>1. ParseLiteral(text) = [type |-> "double", n |-> text.n]
    BY <1>4, <1>7 DEF isInteger
  <2>2. ParseLiteral(text) \in ParamValues
    BY <1>1, <2>1, ValueOfType DEF ValueTypes
  <2> QED
    BY <1>7, <2>2
<1>8. CASE isInteger
  <2>1. text.kind = "number"
    BY <1>8 DEF isInteger
  <2>2. ParseLiteral(text) = [type |-> "integer", n |-> IF text.negative THEN -mag ELSE mag]
    BY <1>4, <1>8, <2>1
  <2>3. ParseLiteral(text) \in ParamValues
    <3>1. (IF text.negative THEN -mag ELSE mag) \in Int
      BY <1>5, <1>8, <1>3 DEF Integer
    <3> QED
      BY <1>5, <1>8, <2>2, <3>1, ValueOfType DEF ValueTypes
  <2>4. /\ text.digits # <<>>
        /\ (IF text.negative THEN -spelt ELSE spelt) \in (-(IntMax + 1))..IntMax
    BY <1>5, <1>8 DEF isInteger, Integer
  <2> QED
    BY <1>5, <1>8, <2>2, <2>3, <2>4 DEF spelt
<1>9. CASE text.kind \notin {"boolean", "decimal"} /\ ~isInteger
  <2>1. ParseLiteral(text) = [type |-> "string", n |-> 0]
    BY <1>4, <1>9
  <2>2. ParseLiteral(text) \in ParamValues
    BY <2>1, ValueOfType DEF ValueTypes
  <2>3. text.kind = "number" =>
          ~(/\ text.digits # <<>>
            /\ (IF text.negative THEN -spelt ELSE spelt) \in (-(IntMax + 1))..IntMax)
    BY <1>1, <1>2, <1>3, <1>9 DEF isInteger
  <2> QED
    BY <2>1, <2>2, <2>3 DEF spelt
<1> QED
  BY <1>6, <1>7, <1>8, <1>9

\* The overrides a Node keeps of its one command line entry.
LEMMA OverridesOfEntry ==
    ASSUME NEW e \in OverrideEntries
    PROVE  /\ SelectOverrides(<<e>>) \in Seq(Assignments)
           /\ \A i \in DOMAIN SelectOverrides(<<e>>) :
                 SelectOverrides(<<e>>)[i].value = ParseLiteral(e.literal)
<1> DEFINE X == {x \in Seqs!ToSet(<<e>>) : x.scope \in NodeScopes}
           s == <<e>>
           r == InOrder(s, X)
<1>1. s \in Seq(OverrideEntries) /\ \A i \in 1..Len(s) : s[i] = e
  OBVIOUS
<1>2. /\ r \in Seq(OverrideEntries)
      /\ \A j \in 1..Len(r) : \E i \in 1..Len(s) : s[i] \in X /\ r[j] = s[i]
  <2> HIDE DEF X, s
  <2> QED
    BY <1>1, InOrderElements
<1>3. \A j \in 1..Len(r) : r[j] = e
  <2> HIDE DEF r, X, s
  <2> QED
    BY <1>1, <1>2
<1>4. SelectOverrides(<<e>>) = [i \in DOMAIN r |->
          [name |-> r[i].name, value |-> ParseLiteral(r[i].literal)]]
  BY DEF SelectOverrides
<1>5. [name |-> e.name, value |-> ParseLiteral(e.literal)] \in Assignments
  <2>1. e \in [scope : STRING, name : Seq(STRING), literal : Literals]
    BY ParameterAssumption
  <2>2. e.name \in Seq(STRING) /\ e.literal \in Literals
    BY <2>1
  <2> QED
    BY <2>2, LiteralIsRead DEF Assignments
<1> HIDE DEF r
<1>6. DOMAIN r = 1..Len(r) /\ Len(r) \in Nat
  BY <1>2
<1>7. SelectOverrides(<<e>>) = [i \in 1..Len(r) |->
          [name |-> e.name, value |-> ParseLiteral(e.literal)]]
  BY <1>3, <1>4, <1>6
<1> QED
  BY <1>5, <1>6, <1>7

(***************************************************************************)
(* What is stored.                                                         *)
(***************************************************************************)

\* A value that the stepping check of the code accepts is reached from the
\* start of the range in whole steps, although the offset is unsigned.
LEMMA AcceptedIsReached ==
    ASSUME NEW n \in Integer, NEW r \in IntegerRanges, IntegerAcceptable(n, r)
    PROVE  /\ n \in r.from..r.to
           /\ r.step = 0 \/ \E k \in 0..(2 * IntMax + 1) : n = r.from + k * r.step
<1> DEFINE W == 2 * (IntMax + 1)
           a == n - r.from
           b == r.step
<1>1. IntMax \in Nat /\ W \in Nat
  BY ParameterAssumption
<1>2. n \in Int /\ r.from \in Int /\ r.to \in Int /\ b \in Nat /\ r.from >= -(IntMax + 1)
      /\ n <= IntMax
  BY <1>1 DEF IntegerRanges, Integer
<1>3. r.from <= n /\ n <= r.to /\ (b # 0 => (a % W) % b = 0)
  BY DEF IntegerAcceptable
<1>4. a \in Nat /\ a < W
  BY <1>1, <1>2, <1>3
<1>5. n = r.from + a
  BY <1>2
<1> HIDE DEF W, a, b
<1>6. a % W = a
  BY <1>1, <1>4
<1>7. ASSUME b # 0
      PROVE  \E k \in 0..a : a = k * b
  <2>1. b \in Nat \ {0} /\ a % b = 0
    BY <1>2, <1>3, <1>6, <1>7
  <2>2. a \div b \in Int /\ a = b * (a \div b) + (a % b)
    BY <1>4, <2>1
  <2>3. a \div b \in 0..a
    BY <1>4, <2>1
  <2> DEFINE q == a \div b
  <2>4. q \in Int /\ q \in 0..a /\ a = b * q
    BY <1>4, <2>1, <2>2, <2>3
  <2> HIDE DEF q
  <2>5. b * q = q * b
    BY <2>1, <2>4
  <2> QED
    BY <2>4, <2>5
<1>8. ASSUME b # 0
      PROVE  \E k \in 0..(2 * IntMax + 1) : n = r.from + k * b
  <2>1. PICK k \in 0..a : a = k * b
    BY <1>7, <1>8
  <2>2. k \in 0..(2 * IntMax + 1)
    BY <1>1, <1>4 DEF W
  <2>3. n = r.from + k * b
    BY <1>5, <2>1
  <2> QED
    BY <2>2, <2>3
<1> QED
  BY <1>2, <1>3, <1>8 DEF b

\* An override replaces a value by a value.
LEMMA EffectiveIsValue ==
    ASSUME NEW name, NEW value \in ParamValues, NEW ignore,
           overrides \in Seq(Assignments)
    PROVE  EffectiveValue(name, value, ignore) \in ParamValues
<1> DEFINE matching == {i \in DOMAIN overrides : overrides[i].name = name}
           first == CHOOSE i \in matching : \A j \in matching : i <= j
<1>1. EffectiveValue(name, value, ignore) =
        IF ignore \/ matching = {} THEN value ELSE overrides[first].value
  BY DEF EffectiveValue
<1>2. ASSUME matching # {}
      PROVE  first \in matching
  <2>1. matching \subseteq Nat
    OBVIOUS
  <2>2. \E i \in matching : \A j \in matching : i <= j
    <3> HIDE DEF matching
    <3> QED
      BY <1>2, <2>1, LeastNat
  <2> HIDE DEF matching
  <2> QED
    BY <2>2
<1>3. ASSUME NEW i \in matching
      PROVE  overrides[i].value \in ParamValues
  <2>1. overrides[i] \in Assignments
    OBVIOUS
  <2> QED
    BY <2>1 DEF Assignments
<1> HIDE DEF matching, first
<1> QED
  BY <1>1, <1>2, <1>3

\* The last report of a parameter is the one that was appended for it.
LEMMA LastAppended ==
    ASSUME NEW list \in Seq(Assignments), NEW x \in Assignments
    PROVE  LastIs(Append(list, x), x.name, x.value)
<1> DEFINE new == Append(list, x)
<1>1. new \in Seq(Assignments) /\ Len(new) = Len(list) + 1 /\ new[Len(new)] = x
  BY AppendProperties
<1> HIDE DEF new
<1>2. Len(new) \in DOMAIN new /\ \A j \in DOMAIN new : j <= Len(new)
  BY <1>1
<1>3. LastIs(new, x.name, x.value)
  BY <1>1, <1>2 DEF LastIs, ReportedIn
<1> QED
  BY <1>3 DEF new

\* Reports of other parameters that follow leave the last one of n alone.
LEMMA LastKept ==
    ASSUME NEW list \in Seq(Assignments), NEW more \in Seq(Assignments), NEW n, NEW v,
           LastIs(list, n, v),
           \A j \in 1..Len(more) : more[j].name # n
    PROVE  LastIs(list \o more, n, v)
<1> DEFINE new == list \o more
<1>1. /\ new \in Seq(Assignments) /\ Len(new) = Len(list) + Len(more)
      /\ \A i \in 1..Len(new) : new[i] = IF i <= Len(list) THEN list[i] ELSE more[i - Len(list)]
  BY ConcatProperties
<1>2. PICK i \in DOMAIN list : /\ list[i].name = n /\ list[i].value = v
                               /\ \A j \in DOMAIN list : list[j].name = n => j <= i
  BY DEF LastIs, ReportedIn
<1> HIDE DEF new
<1>3. i \in 1..Len(list) /\ i \in DOMAIN new /\ new[i] = list[i]
  BY <1>1
<1>4. ASSUME NEW j \in DOMAIN new, new[j].name = n
      PROVE  j <= i
  <2>1. j \in 1..Len(new) /\ Len(list) \in Nat /\ Len(more) \in Nat
    BY <1>1
  <2>2. CASE j <= Len(list)
    <3>1. j \in DOMAIN list /\ list[j].name = n
      BY <1>1, <1>4, <2>1, <2>2
    <3> QED
      BY <1>2, <3>1
  <2>3. CASE ~(j <= Len(list))
    <3>1. j - Len(list) \in 1..Len(more) /\ new[j] = more[j - Len(list)]
      BY <1>1, <2>1, <2>3
    <3> QED
      BY <1>4, <3>1
  <2> QED
    BY <2>2, <2>3
<1>5. LastIs(new, n, v)
  BY <1>2, <1>3, <1>4 DEF LastIs, ReportedIn
<1> QED
  BY <1>5 DEF new

\* Reports of n that follow, all with the value v, are its last ones.
LEMMA LastFollows ==
    ASSUME NEW list \in Seq(Assignments), NEW more \in Seq(Assignments), NEW n, NEW v,
           \E j \in 1..Len(more) : more[j].name = n,
           \A j \in 1..Len(more) : more[j].name = n => more[j].value = v
    PROVE  LastIs(list \o more, n, v)
<1> DEFINE new == list \o more
           D == {Len(more) - j : j \in {k \in 1..Len(more) : more[k].name = n}}
<1>1. /\ new \in Seq(Assignments) /\ Len(new) = Len(list) + Len(more)
      /\ \A i \in 1..Len(new) : new[i] = IF i <= Len(list) THEN list[i] ELSE more[i - Len(list)]
  BY ConcatProperties
<1>2. Len(list) \in Nat /\ Len(more) \in Nat
  OBVIOUS
<1>3. PICK m \in 1..Len(more) : more[m].name = n /\ \A k \in 1..Len(more) :
                                                       more[k].name = n => k <= m
  <2>1. D \subseteq Nat /\ D # {}
    BY <1>2
  <2>2. PICK d \in D : \A e \in D : d <= e
    <3> HIDE DEF D
    <3> QED
      BY <2>1, LeastNat
  <2>3. PICK m \in 1..Len(more) : more[m].name = n /\ d = Len(more) - m
    BY <2>2
  <2>4. ASSUME NEW k \in 1..Len(more), more[k].name = n
        PROVE  k <= m
    <3>1. Len(more) - k \in D
      BY <2>4
    <3>2. d <= Len(more) - k
      BY <2>2, <3>1
    <3> QED
      BY <1>2, <2>3, <3>2
  <2> QED
    BY <2>3, <2>4
<1> HIDE DEF new, D
<1>4. Len(list) + m \in DOMAIN new /\ new[Len(list) + m] = more[m]
  <2>1. Len(list) + m \in 1..Len(new) /\ ~(Len(list) + m <= Len(list))
        /\ (Len(list) + m) - Len(list) = m
    BY <1>1, <1>2
  <2> QED
    BY <1>1, <2>1
<1>5. ASSUME NEW j \in DOMAIN new, new[j].name = n
      PROVE  j <= Len(list) + m
  <2>1. j \in 1..Len(new)
    BY <1>1
  <2>2. CASE j <= Len(list)
    BY <1>2, <2>1, <2>2
  <2>3. CASE ~(j <= Len(list))
    <3>1. j - Len(list) \in 1..Len(more) /\ new[j] = more[j - Len(list)]
      BY <1>1, <1>2, <2>1, <2>3
    <3>2. j - Len(list) <= m
      BY <1>3, <1>5, <3>1
    <3> QED
      BY <1>2, <2>1, <3>2
  <2> QED
    BY <2>2, <2>3
<1>6. LastIs(new, n, v)
  BY <1>3, <1>4, <1>5 DEF LastIs, ReportedIn
<1> QED
  BY <1>6 DEF new

\* The same for a single report.
LEMMA LastKeptByOne ==
    ASSUME NEW list \in Seq(Assignments), NEW x \in Assignments, NEW n, NEW v,
           LastIs(list, n, v), x.name # n
    PROVE  LastIs(Append(list, x), n, v)
<1>1. <<x>> \in Seq(Assignments) /\ \A j \in 1..Len(<<x>>) : <<x>>[j].name # n
  OBVIOUS
<1>2. LastIs(list \o <<x>>, n, v)
  BY <1>1, LastKept
<1> QED
  BY <1>2, AppendIsConcat

(***************************************************************************)
(* The initial states and the steps.                                       *)
(***************************************************************************)

LEMMA InitParamInv == ParamInit => ParamInv
<1> SUFFICES ASSUME ParamInit
             PROVE  ParamInv
  OBVIOUS
<1> USE DEF ParamInit
<1>1. OptionsOK
  BY DEF OptionsOK
<1>2. DOMAIN params = {} /\ params = [n \in DOMAIN params |-> params[n]]
  OBVIOUS
<1>3. StoreOK
  BY <1>2 DEF StoreOK
<1>4. ListsOK
  <2>1. pending = [new |-> <<>>, changed |-> <<>>, deleted |-> <<>>]
    BY DEF NoChanges
  <2>2. Delta(pending) = 0
    BY <2>1 DEF Delta
  <2> QED
    BY <2>1, <2>2, ParameterAssumption DEF ListsOK
<1>5. ReadingOK
  BY DEF ReadingOK
<1>6. PendingCoversDelta
  <2>1. DOMAIN snap = {}
    OBVIOUS
  <2> QED
    BY <1>2, <2>1 DEF PendingCoversDelta
<1> QED
  BY <1>1, <1>3, <1>4, <1>5, <1>6 DEF ParamInv, ParamTypeInv

\* There is room for one more change.
LEMMA OneMoreFits ==
    ASSUME NEW a \in Nat, NEW b \in Nat, NEW c \in Nat, NEW m \in Nat, a + b + c < m
    PROVE  /\ (a + 1) + b + c <= m
           /\ a + b + (c + 1) <= m
  OBVIOUS

\* There is room for the changes of a whole request.
LEMMA RequestFits ==
    ASSUME NEW a \in Nat, NEW b \in Nat, NEW c \in Nat, NEW m \in Nat, NEW r \in Nat,
           NEW x \in Nat, NEW y \in Nat, a + b + c + r <= m, x + y <= r
    PROVE  (a + x) + (b + y) + c <= m
  OBVIOUS

\* The name, the descriptor and the value of a declaration are checked.
LEMMA DeclareKeepsInv ==
    ASSUME ParamInv,
           NEW name \in ParamNames, NEW v \in DefaultValues, NEW desc \in Descriptors,
           NEW ignore \in BOOLEAN, NEW throws \in BOOLEAN,
           DeclareParameter(name, v, desc, ignore, throws)
    PROVE  ParamInv'
<1> DEFINE effective == EffectiveValue(name, v, ignore)
           stored == [value |-> effective, desc |-> desc]
           change == [name |-> name, value |-> effective]
<1>1. /\ ~nodeShut /\ Room /\ ValidName(name) /\ name \notin DOMAIN params
      /\ ValidValue(effective, desc)
      /\ StoreDeclared(name, stored, throws)
      /\ UNCHANGED <<overrides, entry, allowUndeclared, reading, nodeShut, snap>>
  BY DEF DeclareParameter, nodeOptions
<1>2. /\ OptionsOK /\ StoreOK /\ ListsOK /\ ReadingOK /\ nodeShut \in BOOLEAN
      /\ PendingCoversDelta
  BY DEF ParamInv, ParamTypeInv
<1>3. /\ name \in Seq(STRING) /\ v \in ParamValues /\ desc \in ParamDescriptors
      /\ MaxDelta \in Nat
  BY ParameterAssumption
<1>4. effective \in ParamValues
  BY <1>2, <1>3, OverridesOfEntry, EffectiveIsValue DEF OptionsOK
<1> HIDE DEF effective
<1>5. OptionsOK' /\ ReadingOK' /\ nodeShut' \in BOOLEAN
  BY <1>1, <1>2 DEF OptionsOK, ReadingOK, SelectOverrides, ParseLiteral
<1>6. CASE throws
  <2>1. UNCHANGED <<params, pending, snap>>
    BY <1>1, <1>6 DEF StoreDeclared
  <2>2. StoreOK' /\ ListsOK' /\ PendingCoversDelta'
    BY <1>2, <2>1 DEF StoreOK, WellStored, ListsOK, PendingCoversDelta
  <2> QED
    BY <1>5, <2>2 DEF ParamInv, ParamTypeInv
<1>7. CASE ~throws
  <2>1. /\ params' = WithParameter(name, stored)
        /\ pending' = [pending EXCEPT !.new = Append(@, change)]
    BY <1>1, <1>7 DEF StoreDeclared
  <2>2. /\ DOMAIN params' = DOMAIN params \cup {name}
        /\ params' = [n \in DOMAIN params' |-> params'[n]]
        /\ params'[name] = stored
        /\ \A n \in DOMAIN params : params'[n] = params[n]
    BY <1>1, <2>1 DEF WithParameter
  <2>3. StoreOK'
    <3>1. ASSUME NEW n \in DOMAIN params'
          PROVE  WellStored(n)'
      <4>1. CASE n = name
        BY <1>1, <1>3, <1>4, <2>2, <4>1 DEF WellStored
      <4>2. CASE n # name
        BY <1>2, <2>2, <4>2 DEF StoreOK, WellStored
      <4> QED
        BY <4>1, <4>2
    <3> QED
      BY <2>2, <3>1 DEF StoreOK
  <2>4. change \in Assignments /\ change.name = name /\ change.value = effective
    BY <1>3, <1>4 DEF Assignments
  <2> HIDE DEF change
  <2>5. /\ pending.new \in Seq(Assignments) /\ pending.changed \in Seq(Assignments)
        /\ pending.deleted \in Seq(Assignments)
    BY <1>2 DEF ListsOK
  <2>6. /\ pending'.new = Append(pending.new, change)
        /\ pending'.changed = pending.changed /\ pending'.deleted = pending.deleted
        /\ pending' = [new |-> pending'.new, changed |-> pending'.changed,
                       deleted |-> pending'.deleted]
    BY <1>2, <2>1 DEF ListsOK
  <2>7. ListsOK'
    <3>1. pending'.new \in Seq(Assignments) /\ Len(pending'.new) = Len(pending.new) + 1
      BY <2>4, <2>5, <2>6, AppendProperties
    <3>2. /\ Len(pending.new) \in Nat /\ Len(pending.changed) \in Nat
          /\ Len(pending.deleted) \in Nat
      BY <2>5
    <3>3. Len(pending.new) + Len(pending.changed) + Len(pending.deleted) < MaxDelta
      BY <1>1 DEF Room, Delta
    <3>4. Len(pending'.new) + Len(pending'.changed) + Len(pending'.deleted) <= MaxDelta
      <4>1. /\ Len(pending'.changed) = Len(pending.changed)
            /\ Len(pending'.deleted) = Len(pending.deleted)
        BY <2>6
      <4>2. (Len(pending.new) + 1) + Len(pending.changed) + Len(pending.deleted) <= MaxDelta
        BY <1>3, <3>2, <3>3, OneMoreFits
      <4> QED
        BY <3>1, <4>1, <4>2
    <3>5. pending' \in [new : Seq(Assignments), changed : Seq(Assignments),
                        deleted : Seq(Assignments)]
      BY <2>5, <2>6, <3>1
    <3> QED
      BY <3>4, <3>5 DEF ListsOK, Delta
  <2>8. PendingCoversDelta'
    <3>1. ASSUME NEW n \in DOMAIN params',
                 n \in DOMAIN snap' => snap'[n] # params'[n].value
          PROVE  \/ LastIs(pending'.new, n, params'[n].value)
                 \/ LastIs(pending'.changed, n, params'[n].value)
      <4>1. CASE n = name
        <5>1. params'[n].value = effective
          BY <2>2, <4>1
        <5> QED
          BY <2>4, <2>5, <2>6, <4>1, <5>1, LastAppended
      <4>2. CASE n # name
        <5>1. n \in DOMAIN params /\ params'[n] = params[n]
          BY <2>2, <4>2
        <5>2. \/ LastIs(pending.new, n, params[n].value)
              \/ LastIs(pending.changed, n, params[n].value)
          BY <1>1, <1>2, <3>1, <5>1 DEF PendingCoversDelta
        <5> QED
          BY <2>4, <2>5, <2>6, <4>2, <5>1, <5>2, LastKeptByOne
      <4> QED
        BY <4>1, <4>2
    <3>2. ASSUME NEW n \in DOMAIN snap' \ DOMAIN params'
          PROVE  ReportedIn(pending'.deleted, n) # {}
      <4>1. n \in DOMAIN snap \ DOMAIN params
        BY <1>1, <2>2
      <4> QED
        BY <1>2, <2>6, <4>1 DEF PendingCoversDelta
    <3> QED
      BY <3>1, <3>2 DEF PendingCoversDelta
  <2> QED
    BY <1>5, <2>3, <2>7, <2>8 DEF ParamInv, ParamTypeInv
<1> QED
  BY <1>6, <1>7

\* The deletion is reported before the entry goes.
LEMMA UndeclareKeepsInv ==
    ASSUME ParamInv, NEW name \in ParamNames, UndeclareParameter(name)
    PROVE  ParamInv'
<1> DEFINE change == [name |-> name, value |-> params[name].value]
<1>1. /\ Room /\ name \in DOMAIN params
      /\ pending' = [pending EXCEPT !.deleted = Append(@, change)]
      /\ params' = [n \in DOMAIN params \ {name} |-> params[n]]
      /\ UNCHANGED <<overrides, entry, allowUndeclared, reading, nodeShut, snap>>
  BY DEF UndeclareParameter, nodeOptions
<1>2. /\ OptionsOK /\ StoreOK /\ ListsOK /\ ReadingOK /\ nodeShut \in BOOLEAN
      /\ PendingCoversDelta
  BY DEF ParamInv, ParamTypeInv
<1>3. MaxDelta \in Nat
  BY ParameterAssumption
<1>4. OptionsOK' /\ ReadingOK' /\ nodeShut' \in BOOLEAN
  BY <1>1, <1>2 DEF OptionsOK, ReadingOK, SelectOverrides, ParseLiteral
<1>5. change \in Assignments /\ change.name = name
  <2>1. WellStored(name)
    BY <1>1, <1>2 DEF StoreOK
  <2> QED
    BY <2>1 DEF WellStored, Assignments
<1> HIDE DEF change
<1>6. /\ DOMAIN params' = DOMAIN params \ {name}
      /\ params' = [n \in DOMAIN params' |-> params'[n]]
      /\ \A n \in DOMAIN params' : params'[n] = params[n]
  BY <1>1
<1>7. StoreOK'
  <2>1. ASSUME NEW n \in DOMAIN params'
        PROVE  WellStored(n)'
    BY <1>2, <1>6 DEF StoreOK, WellStored
  <2> QED
    BY <1>6, <2>1 DEF StoreOK
<1>8. /\ pending.new \in Seq(Assignments) /\ pending.changed \in Seq(Assignments)
      /\ pending.deleted \in Seq(Assignments)
  BY <1>2 DEF ListsOK
<1>9. /\ pending'.deleted = Append(pending.deleted, change)
      /\ pending'.changed = pending.changed /\ pending'.new = pending.new
      /\ pending' = [new |-> pending'.new, changed |-> pending'.changed,
                     deleted |-> pending'.deleted]
  BY <1>1, <1>2 DEF ListsOK
<1>10. /\ pending'.deleted \in Seq(Assignments)
       /\ Len(pending'.deleted) = Len(pending.deleted) + 1
       /\ pending'.deleted[Len(pending.deleted) + 1] = change
       /\ \A i \in 1..Len(pending.deleted) : pending'.deleted[i] = pending.deleted[i]
  BY <1>5, <1>8, <1>9, AppendProperties
<1>11. ListsOK'
  <2>1. /\ Len(pending.new) \in Nat /\ Len(pending.changed) \in Nat
        /\ Len(pending.deleted) \in Nat
    BY <1>8
  <2>2. Len(pending.new) + Len(pending.changed) + Len(pending.deleted) < MaxDelta
    BY <1>1 DEF Room, Delta
  <2>3. Len(pending'.new) = Len(pending.new) /\ Len(pending'.changed) = Len(pending.changed)
    BY <1>9
  <2>4. Len(pending.new) + Len(pending.changed) + (Len(pending.deleted) + 1) <= MaxDelta
    BY <1>3, <2>1, <2>2, OneMoreFits
  <2>5. Len(pending'.new) + Len(pending'.changed) + Len(pending'.deleted) <= MaxDelta
    BY <1>10, <2>3, <2>4
  <2>6. pending' \in [new : Seq(Assignments), changed : Seq(Assignments),
                      deleted : Seq(Assignments)]
    BY <1>8, <1>9, <1>10
  <2> QED
    BY <2>5, <2>6 DEF ListsOK, Delta
<1>12. PendingCoversDelta'
  <2>1. ASSUME NEW n \in DOMAIN params',
               n \in DOMAIN snap' => snap'[n] # params'[n].value
        PROVE  \/ LastIs(pending'.new, n, params'[n].value)
               \/ LastIs(pending'.changed, n, params'[n].value)
    <3>1. n \in DOMAIN params /\ params'[n] = params[n]
      BY <1>6
    <3> QED
      BY <1>1, <1>2, <1>9, <2>1, <3>1 DEF PendingCoversDelta
  <2>2. ASSUME NEW n \in DOMAIN snap' \ DOMAIN params'
        PROVE  ReportedIn(pending'.deleted, n) # {}
    <3>1. DOMAIN pending.deleted = 1..Len(pending.deleted) /\ Len(pending.deleted) \in Nat
          /\ DOMAIN pending'.deleted = 1..(Len(pending.deleted) + 1)
      BY <1>8, <1>10
    <3>2. CASE n = name
      <4>1. Len(pending.deleted) + 1 \in ReportedIn(pending'.deleted, n)
        BY <1>5, <1>10, <3>1, <3>2 DEF ReportedIn
      <4> QED
        BY <4>1
    <3>3. CASE n # name
      <4>1. n \in DOMAIN snap \ DOMAIN params
        BY <1>1, <1>6, <3>3
      <4>2. PICK i \in DOMAIN pending.deleted : pending.deleted[i].name = n
        BY <1>2, <4>1 DEF PendingCoversDelta, ReportedIn
      <4>3. i \in ReportedIn(pending'.deleted, n)
        BY <1>10, <3>1, <4>2 DEF ReportedIn
      <4> QED
        BY <4>3
    <3> QED
      BY <3>2, <3>3
  <2> QED
    BY <2>1, <2>2 DEF PendingCoversDelta
<1> QED
  BY <1>4, <1>7, <1>11, <1>12 DEF ParamInv, ParamTypeInv

\* What was taken is the reference for the changes that follow.
LEMMA TakeKeepsInv ==
    ASSUME ParamInv, TakeChanges
    PROVE  ParamInv'
<1>1. /\ pending' = [new |-> <<>>, changed |-> <<>>, deleted |-> <<>>]
      /\ snap' = ValuesOf(params)
      /\ UNCHANGED <<overrides, entry, allowUndeclared, params, reading, nodeShut>>
  BY DEF TakeChanges, nodeOptions, NoChanges
<1>2. OptionsOK /\ StoreOK /\ ReadingOK /\ nodeShut \in BOOLEAN
  BY DEF ParamInv, ParamTypeInv
<1>3. OptionsOK' /\ StoreOK' /\ ReadingOK' /\ nodeShut' \in BOOLEAN
  BY <1>1, <1>2 DEF OptionsOK, StoreOK, WellStored, ReadingOK, SelectOverrides, ParseLiteral
<1>4. ListsOK'
  <2>1. Delta(pending') = 0
    BY <1>1 DEF Delta
  <2>2. MaxDelta \in Nat
    BY ParameterAssumption
  <2> QED
    BY <1>1, <2>1, <2>2 DEF ListsOK, Delta
<1>5. PendingCoversDelta'
  <2>1. /\ DOMAIN snap' = DOMAIN params'
        /\ \A n \in DOMAIN params' : snap'[n] = params'[n].value
    BY <1>1 DEF ValuesOf
  <2> QED
    BY <2>1 DEF PendingCoversDelta
<1> QED
  BY <1>3, <1>4, <1>5 DEF ParamInv, ParamTypeInv

\* Reads and the shutdown of the Context leave the store alone.
LEMMA ReadKeepsInv ==
    ASSUME ParamInv,
           \/ \E names \in ReadLists : BeginGetParameters(names)
           \/ GetNext \/ EndGetParameters \/ NodeShutdown
    PROVE  ParamInv'
<1>1. UNCHANGED <<overrides, entry, allowUndeclared, params, pending, snap>>
  BY DEF BeginGetParameters, GetNext, EndGetParameters, NodeShutdown, nodeOptions
<1>2. /\ OptionsOK /\ StoreOK /\ ListsOK /\ ReadingOK /\ nodeShut \in BOOLEAN
      /\ PendingCoversDelta
  BY DEF ParamInv, ParamTypeInv
<1>3. OptionsOK' /\ StoreOK' /\ ListsOK'
  BY <1>1, <1>2 DEF OptionsOK, StoreOK, WellStored, ListsOK, SelectOverrides, ParseLiteral
<1>4. PendingCoversDelta'
  BY <1>1, <1>2 DEF PendingCoversDelta
<1>5. ReadingOK' /\ nodeShut' \in BOOLEAN
  <2> DEFINE closed == [names |-> <<>>, got |-> <<>>, open |-> FALSE]
  <2>1. reading' = closed => ReadingOK'
    BY DEF ReadingOK
  <2>2. CASE \E names \in ReadLists : BeginGetParameters(names)
    <3>1. PICK names \in ReadLists : BeginGetParameters(names)
      BY <2>2
    <3>2. reading' = [names |-> names, got |-> <<>>, open |-> TRUE] /\ UNCHANGED nodeShut
      BY <3>1 DEF BeginGetParameters
    <3>3. names \in Seq(Seq(STRING)) /\ Len(names) \in Nat
      BY ParameterAssumption
    <3> QED
      BY <1>2, <3>2, <3>3 DEF ReadingOK
  <2>3. CASE GetNext
    <3>1. UNCHANGED nodeShut
      BY <2>3 DEF GetNext
    <3>2. CASE reading' = closed
      BY <1>2, <2>1, <3>1, <3>2
    <3>3. CASE reading' # closed
      <4> DEFINE name == reading.names[Len(reading.got) + 1]
                 value == IF name \in DOMAIN params THEN params[name].value ELSE NotSet
      <4>1. /\ Len(reading.got) < Len(reading.names)
            /\ reading' = [reading EXCEPT !.got = Append(@, value)]
        BY <2>3, <3>3 DEF GetNext
      <4>2. value \in ParamValues
        <5>1. NotSet \in ParamValues
          BY ValueOfType DEF NotSet, ValueTypes
        <5> QED
          BY <1>2, <5>1 DEF StoreOK, WellStored
      <4> HIDE DEF value
      <4>3. /\ reading.names \in Seq(Seq(STRING)) /\ reading.got \in Seq(ParamValues)
            /\ reading = [names |-> reading.names, got |-> reading.got, open |-> reading.open]
            /\ reading.open \in BOOLEAN
        BY <1>2 DEF ReadingOK
      <4>4. /\ reading' = [names |-> reading.names, got |-> Append(reading.got, value),
                           open |-> reading.open]
        BY <4>1, <4>3
      <4>5. /\ Append(reading.got, value) \in Seq(ParamValues)
            /\ Len(Append(reading.got, value)) = Len(reading.got) + 1
        BY <4>2, <4>3, AppendProperties
      <4>6. Len(Append(reading.got, value)) <= Len(reading.names)
        <5>1. Len(reading.got) \in Nat /\ Len(reading.names) \in Nat
          BY <4>3
        <5> QED
          BY <4>1, <4>5, <5>1
      <4> QED
        BY <1>2, <3>1, <4>3, <4>4, <4>5, <4>6 DEF ReadingOK
    <3> QED
      BY <3>2, <3>3
  <2>4. CASE EndGetParameters
    BY <1>2, <2>1, <2>4 DEF EndGetParameters
  <2>5. CASE NodeShutdown
    BY <1>2, <2>5 DEF NodeShutdown, ReadingOK
  <2> QED
    BY <2>2, <2>3, <2>4, <2>5
<1> QED
  BY <1>3, <1>4, <1>5 DEF ParamInv, ParamTypeInv

\* An accepted assignment leaves a well-formed entry with the descriptor of
\* the parameter, or the default one.
LEMMA AssignmentIsChecked ==
    ASSUME StoreOK, NEW p \in Assignments, ValidAssignment(p)
    PROVE  LET d == IF p.name \in DOMAIN params THEN params[p.name].desc ELSE DefaultDescriptor
           IN  ValidName(p.name) /\ d \in ParamDescriptors /\ ValidValue(p.value, d)
<1>1. CASE p.name \in DOMAIN params
  BY <1>1 DEF ValidAssignment, StoreOK, WellStored
<1>2. CASE p.name \notin DOMAIN params
  <2>1. DefaultDescriptor \in ParamDescriptors
    BY DEF DefaultDescriptor, ParamDescriptors
  <2>2. ValidValue(p.value, DefaultDescriptor)
    BY DEF ValidValue, DefaultDescriptor
  <2> QED
    BY <1>2, <2>1, <2>2 DEF ValidAssignment
<1> QED
  BY <1>1, <1>2

\* A set stores and reports all its assignments.
LEMMA SetKeepsInv ==
    ASSUME ParamInv, NEW request \in SetRequests, SetParameters(request)
    PROVE  ParamInv'
<1> DEFINE F == {p \in Seqs!ToSet(request) : p.name \notin DOMAIN params}
           D == {p \in Seqs!ToSet(request) : /\ p.name \in DOMAIN params
                                             /\ params[p.name].value # p.value}
           fresh == InOrder(request, F)
           differs == InOrder(request, D)
           named == {request[i].name : i \in DOMAIN request}
           at(n) == CHOOSE i \in DOMAIN request : request[i].name = n
           desc(n) == IF n \in DOMAIN params THEN params[n].desc ELSE DefaultDescriptor
<1>1. /\ Delta(pending) + Len(request) <= MaxDelta
      /\ ValidShape(request)
      /\ \A i \in DOMAIN request : ValidAssignment(request[i])
      /\ params' = [n \in DOMAIN params \cup named |->
                      IF n \notin named THEN params[n]
                      ELSE [value |-> request[at(n)].value, desc |-> desc(n)]]
      /\ pending' = [pending EXCEPT !.new = @ \o fresh, !.changed = @ \o differs]
      /\ UNCHANGED <<overrides, entry, allowUndeclared, reading, nodeShut, snap>>
  BY DEF SetParameters, nodeOptions
<1>2. /\ OptionsOK /\ StoreOK /\ ListsOK /\ ReadingOK /\ nodeShut \in BOOLEAN
      /\ PendingCoversDelta
  BY DEF ParamInv, ParamTypeInv
<1>3. /\ request \in Seq(Assignments) /\ DOMAIN request = 1..Len(request)
      /\ Len(request) \in Nat /\ MaxDelta \in Nat
      /\ \A i \in 1..Len(request) : request[i] \in Assignments
  <2>1. request \in Seq(Assignments)
    BY ParameterAssumption DEF Assignments
  <2>2. MaxDelta \in Nat
    BY ParameterAssumption
  <2> QED
    BY <2>1, <2>2
<1>4. OptionsOK' /\ ReadingOK' /\ nodeShut' \in BOOLEAN
  BY <1>1, <1>2 DEF OptionsOK, ReadingOK, SelectOverrides, ParseLiteral
<1>5. /\ fresh \in Seq(Assignments)
      /\ \A j \in 1..Len(fresh) : \E i \in 1..Len(request) :
            request[i] \in F /\ fresh[j] = request[i]
      /\ \A i \in 1..Len(request) : request[i] \in F =>
            \E j \in 1..Len(fresh) : fresh[j] = request[i]
  <2> HIDE DEF F
  <2>1. request \in Seq(Assignments)
    BY <1>3
  <2> QED
    BY <2>1, InOrderElements
<1>6. /\ differs \in Seq(Assignments)
      /\ \A j \in 1..Len(differs) : \E i \in 1..Len(request) :
            request[i] \in D /\ differs[j] = request[i]
      /\ \A i \in 1..Len(request) : request[i] \in D =>
            \E j \in 1..Len(differs) : differs[j] = request[i]
  <2> HIDE DEF D
  <2>1. request \in Seq(Assignments)
    BY <1>3
  <2> QED
    BY <2>1, InOrderElements
<1>7. Len(fresh) + Len(differs) <= Len(request)
  <2>1. F \cap D = {}
    OBVIOUS
  <2> HIDE DEF F, D
  <2> QED
    BY <1>3, <2>1, InOrderLengths
<1>8. ASSUME NEW i \in 1..Len(request)
      PROVE  /\ request[i] \in F <=> request[i].name \notin DOMAIN params
             /\ request[i] \in D <=> /\ request[i].name \in DOMAIN params
                                    /\ params[request[i].name].value # request[i].value
  BY <1>3 DEF Seqs!ToSet
<1>9. ASSUME NEW n \in named
      PROVE  at(n) \in 1..Len(request) /\ request[at(n)].name = n
  BY <1>3
<1>10. ASSUME NEW i \in 1..Len(request), NEW j \in 1..Len(request),
              request[i].name = request[j].name
       PROVE  i = j
  BY <1>1, <1>3, <1>10 DEF ValidShape
<1>11. /\ DOMAIN params' = DOMAIN params \cup named
       /\ params' = [n \in DOMAIN params' |-> params'[n]]
       /\ \A n \in DOMAIN params' : n \notin named =>
             n \in DOMAIN params /\ params'[n] = params[n]
       /\ \A n \in named : params'[n] = [value |-> request[at(n)].value, desc |-> desc(n)]
  <2> HIDE DEF named, at, desc
  <2> QED
    BY <1>1
<1> HIDE DEF F, D, fresh, differs, at, named
<1>11b. ASSUME NEW n \in named
       PROVE  params'[n].value = request[at(n)].value
  <2> HIDE DEF desc
  <2> QED
    BY <1>11
<1>12. StoreOK'
  <2>1. ASSUME NEW n \in DOMAIN params'
        PROVE  WellStored(n)'
    <3>1. CASE n \notin named
      BY <1>2, <1>11, <3>1 DEF StoreOK, WellStored
    <3>2. CASE n \in named
      <4> DEFINE p == request[at(n)]
      <4>1. p \in Assignments /\ p.name = n /\ ValidAssignment(p)
        BY <1>1, <1>3, <1>9, <3>2
      <4> HIDE DEF p
      <4>2. ValidName(n) /\ desc(n) \in ParamDescriptors /\ ValidValue(p.value, desc(n))
        BY <1>2, <4>1, AssignmentIsChecked
      <4>3. n \in Seq(STRING) /\ p.value \in ParamValues
        BY <4>1 DEF Assignments
      <4>4. params'[n] = [value |-> p.value, desc |-> desc(n)]
        BY <1>11, <3>2 DEF p
      <4> HIDE DEF desc
      <4> QED
        BY <4>2, <4>3, <4>4 DEF WellStored
    <3> QED
      BY <3>1, <3>2
  <2> QED
    BY <1>11, <2>1 DEF StoreOK
<1>13. /\ pending.new \in Seq(Assignments) /\ pending.changed \in Seq(Assignments)
       /\ pending.deleted \in Seq(Assignments)
  BY <1>2 DEF ListsOK
<1>14. /\ pending'.new = pending.new \o fresh
       /\ pending'.changed = pending.changed \o differs
       /\ pending'.deleted = pending.deleted
       /\ pending' = [new |-> pending'.new, changed |-> pending'.changed,
                      deleted |-> pending'.deleted]
  BY <1>1, <1>2 DEF ListsOK
<1>15. ListsOK'
  <2>1. /\ pending'.new \in Seq(Assignments)
        /\ Len(pending'.new) = Len(pending.new) + Len(fresh)
        /\ pending'.changed \in Seq(Assignments)
        /\ Len(pending'.changed) = Len(pending.changed) + Len(differs)
    BY <1>5, <1>6, <1>13, <1>14, ConcatProperties
  <2>2. /\ Len(pending.new) \in Nat /\ Len(pending.changed) \in Nat
        /\ Len(pending.deleted) \in Nat /\ Len(fresh) \in Nat /\ Len(differs) \in Nat
    BY <1>5, <1>6, <1>13
  <2>3. Len(pending.new) + Len(pending.changed) + Len(pending.deleted) + Len(request) <= MaxDelta
    BY <1>1 DEF Delta
  <2>4. (Len(pending.new) + Len(fresh)) + (Len(pending.changed) + Len(differs))
          + Len(pending.deleted) <= MaxDelta
    BY <1>3, <1>7, <2>2, <2>3, RequestFits
  <2>5. Len(pending'.deleted) = Len(pending.deleted)
    BY <1>14
  <2>6. Len(pending'.new) + Len(pending'.changed) + Len(pending'.deleted) <= MaxDelta
    BY <2>1, <2>4, <2>5
  <2>7. pending' \in [new : Seq(Assignments), changed : Seq(Assignments),
                      deleted : Seq(Assignments)]
    BY <1>13, <1>14, <2>1
  <2> QED
    BY <2>6, <2>7 DEF ListsOK, Delta
<1>16. ASSUME NEW n \in named, n \notin DOMAIN params
       PROVE  LastIs(pending'.new, n, params'[n].value)
  <2>1. request[at(n)] \in F
    BY <1>8, <1>9, <1>16
  <2>2. PICK k \in 1..Len(fresh) : fresh[k] = request[at(n)]
    BY <1>5, <1>9, <2>1
  <2>3. ASSUME NEW j \in 1..Len(fresh), fresh[j].name = n
        PROVE  fresh[j].value = request[at(n)].value
    <3>1. PICK i \in 1..Len(request) : fresh[j] = request[i]
      BY <1>5
    <3>2. i = at(n)
      BY <1>9, <1>10, <2>3, <3>1
    <3> QED
      BY <3>1, <3>2
  <2> DEFINE v == request[at(n)].value
  <2>4. params'[n].value = v
    BY <1>11b
  <2>5. /\ \E j \in 1..Len(fresh) : fresh[j].name = n
        /\ \A j \in 1..Len(fresh) : fresh[j].name = n => fresh[j].value = v
    BY <1>9, <2>2, <2>3
  <2> HIDE DEF v
  <2>6. LastIs(pending.new \o fresh, n, v)
    BY <1>5, <1>13, <2>5, LastFollows
  <2> QED
    BY <1>14, <2>4, <2>6
<1>17. ASSUME NEW n \in named, n \in DOMAIN params, params'[n].value # params[n].value
       PROVE  LastIs(pending'.changed, n, params'[n].value)
  <2> DEFINE v == request[at(n)].value
  <2>1. params'[n].value = v
    BY <1>11b
  <2>2. request[at(n)] \in D
    BY <1>8, <1>9, <1>17, <2>1
  <2>3. PICK k \in 1..Len(differs) : differs[k] = request[at(n)]
    BY <1>6, <1>9, <2>2
  <2>4. ASSUME NEW j \in 1..Len(differs), differs[j].name = n
        PROVE  differs[j].value = request[at(n)].value
    <3>1. PICK i \in 1..Len(request) : differs[j] = request[i]
      BY <1>6
    <3>2. i = at(n)
      BY <1>9, <1>10, <2>4, <3>1
    <3> QED
      BY <3>1, <3>2
  <2>5. /\ \E j \in 1..Len(differs) : differs[j].name = n
        /\ \A j \in 1..Len(differs) : differs[j].name = n => differs[j].value = v
    BY <1>9, <2>3, <2>4
  <2> HIDE DEF v
  <2>6. LastIs(pending.changed \o differs, n, v)
    BY <1>6, <1>13, <2>5, LastFollows
  <2> QED
    BY <1>14, <2>1, <2>6
<1>18. ASSUME NEW n \in DOMAIN params', n \in DOMAIN params,
              params'[n].value = params[n].value
       PROVE  /\ \A j \in 1..Len(fresh) : fresh[j].name # n
              /\ \A j \in 1..Len(differs) : differs[j].name # n
  <2>1. ASSUME NEW j \in 1..Len(fresh)
        PROVE  fresh[j].name # n
    <3>1. PICK i \in 1..Len(request) : request[i] \in F /\ fresh[j] = request[i]
      BY <1>5
    <3> QED
      BY <1>8, <1>18, <3>1
  <2>2. ASSUME NEW j \in 1..Len(differs), differs[j].name = n
        PROVE  FALSE
    <3>1. PICK i \in 1..Len(request) : request[i] \in D /\ differs[j] = request[i]
      BY <1>6
    <3>2. n \in named
      BY <1>3, <2>2, <3>1 DEF named
    <3>3. i = at(n)
      BY <1>9, <1>10, <2>2, <3>1, <3>2
    <3>4. params'[n].value = request[i].value
      BY <1>11b, <3>2, <3>3
    <3> QED
      BY <1>8, <1>18, <2>2, <3>1, <3>4
  <2> QED
    BY <2>1, <2>2
<1>19. PendingCoversDelta'
  <2>1. ASSUME NEW n \in DOMAIN params',
               n \in DOMAIN snap' => snap'[n] # params'[n].value
        PROVE  \/ LastIs(pending'.new, n, params'[n].value)
               \/ LastIs(pending'.changed, n, params'[n].value)
    <3>1. CASE n \notin DOMAIN params
      BY <1>11, <1>16, <3>1
    <3>2. CASE n \in DOMAIN params /\ params'[n].value # params[n].value
      BY <1>11, <1>17, <3>2
    <3>3. CASE n \in DOMAIN params /\ params'[n].value = params[n].value
      <4>1. \/ LastIs(pending.new, n, params[n].value)
            \/ LastIs(pending.changed, n, params[n].value)
        BY <1>1, <1>2, <2>1, <3>3 DEF PendingCoversDelta
      <4> QED
        BY <1>5, <1>6, <1>13, <1>14, <1>18, <3>3, <4>1, LastKept
    <3> QED
      BY <3>1, <3>2, <3>3
  <2>2. ASSUME NEW n \in DOMAIN snap' \ DOMAIN params'
        PROVE  ReportedIn(pending'.deleted, n) # {}
    <3>1. n \in DOMAIN snap \ DOMAIN params
      BY <1>1, <1>11
    <3> QED
      BY <1>2, <1>14, <3>1 DEF PendingCoversDelta
  <2> QED
    BY <2>1, <2>2 DEF PendingCoversDelta
<1> QED
  BY <1>4, <1>12, <1>15, <1>19 DEF ParamInv, ParamTypeInv

LEMMA NextKeepsInv == ParamInv /\ [ParamNext]_paramVars => ParamInv'
<1> SUFFICES ASSUME ParamInv, [ParamNext]_paramVars
             PROVE  ParamInv'
  OBVIOUS
<1>1. CASE UNCHANGED paramVars
  BY <1>1 DEF paramVars, nodeOptions, ParamInv, ParamTypeInv, OptionsOK, StoreOK, WellStored,
              ListsOK, ReadingOK, PendingCoversDelta, SelectOverrides, ParseLiteral
<1>2. CASE ParamNext
  BY <1>2, DeclareKeepsInv, UndeclareKeepsInv, SetKeepsInv, TakeKeepsInv, ReadKeepsInv
     DEF ParamNext
<1> QED
  BY <1>1, <1>2

LEMMA ParamInvHolds == ParamSpec => []ParamInv
<1>1. ParamInv /\ [ParamNext]_paramVars => ParamInv'
  BY NextKeepsInv
<1> QED
  BY <1>1, InitParamInv, PTL DEF ParamSpec

\* TakeChanges hands a language layer the lists new, changed and deleted: at
\* every moment, those it has not taken yet account for every difference
\* between the store and what it knew when it last took them.
THEOREM ChangesAreCovered == ParamSpec => []PendingCoversDelta
<1>1. ParamInv => PendingCoversDelta
  BY DEF ParamInv
<1> QED
  BY <1>1, ParamInvHolds, PTL

(***************************************************************************)
(* What the invariant says of the values, the listings and the overrides.  *)
(***************************************************************************)

LEMMA StoredValuesReached == ParamInv => StoredValueInRange
<1> SUFFICES ASSUME ParamInv, NEW n \in DOMAIN params
             PROVE  LET v == params[n].value
                        d == params[n].desc
                    IN  /\ v.type = "integer" /\ d.ranges # {} =>
                             \E r \in d.ranges :
                                /\ v.n \in r.from..r.to
                                /\ r.step = 0 \/ \E k \in 0..(2 * IntMax + 1) :
                                                    v.n = r.from + k * r.step
                        /\ v.type = "double" /\ d.float_ranges # {} =>
                             \E r \in d.float_ranges : v.n \in r.from..r.to
  BY DEF StoredValueInRange
<1> DEFINE v == params[n].value
           d == params[n].desc
<1>1. v \in ParamValues /\ d \in ParamDescriptors /\ ValidValue(v, d)
  BY DEF ParamInv, ParamTypeInv, StoreOK, WellStored
<1> HIDE DEF v, d
<1>2. ASSUME v.type = "integer", d.ranges # {}
      PROVE  \E r \in d.ranges :
                /\ v.n \in r.from..r.to
                /\ r.step = 0 \/ \E k \in 0..(2 * IntMax + 1) : v.n = r.from + k * r.step
  <2>1. PICK r \in d.ranges : IntegerAcceptable(v.n, r)
    BY <1>1, <1>2 DEF ValidValue
  <2>2. r \in IntegerRanges /\ v.n \in Integer
    BY <1>1, <1>2 DEF ParamDescriptors, ParamValues
  <2> QED
    BY <2>1, <2>2, AcceptedIsReached
<1>3. ASSUME v.type = "double", d.float_ranges # {}
      PROVE  \E r \in d.float_ranges : v.n \in r.from..r.to
  <2>1. PICK r \in d.float_ranges : DoubleAcceptable(v.n, r)
    BY <1>1, <1>3 DEF ValidValue
  <2>2. r.from \in Int /\ r.to \in Int /\ v.n \in Int
    BY <1>1 DEF ParamDescriptors, FloatRanges, ParamValues
  <2>3. r.from <= v.n /\ v.n <= r.to
    BY <2>1 DEF DoubleAcceptable
  <2> QED
    BY <2>2, <2>3
<1> QED
  BY <1>2, <1>3 DEF v, d

LEMMA AncestorIsPrefix ==
    ASSUME NEW n \in Seq(STRING), NEW d \in Nat, Len(n) > d
    PROVE  /\ Seqs!IsStrictPrefix(SubSeq(n, 1, d), n)
           /\ Len(SubSeq(n, 1, d)) = d
<1>1. SubSeq(n, 1, d) \in Seq(STRING) /\ Len(SubSeq(n, 1, d)) = d
  OBVIOUS
<1>2. SubSeq(SubSeq(n, 1, d), 1, d) = SubSeq(n, 1, d)
  OBVIOUS
<1> QED
  BY <1>1, <1>2 DEF Seqs!IsStrictPrefix, Seqs!IsPrefix

LEMMA ListingsAccount == ParamInv => ListingAccountsForAll
<1> SUFFICES ASSUME ParamInv, NEW l \in Listings
             PROVE  LET result == ListParameters(l.prefixes, l.depth)
                        below(n) == {p \in result.prefixes : Seqs!IsStrictPrefix(p, n)}
                    IN  /\ \A n \in DOMAIN params :
                              (l.prefixes = {} \/ \E p \in l.prefixes : Seqs!IsPrefix(p, n)) =>
                                 /\ n \in result.names <=> l.depth = 0 \/ Len(n) <= l.depth
                                 /\ n \in result.names \/ below(n) # {}
                        /\ \A p \in result.prefixes :
                              /\ Len(p) = l.depth
                              /\ \E n \in DOMAIN params : Seqs!IsStrictPrefix(p, n)
  BY DEF ListingAccountsForAll
<1> DEFINE matching == {n \in DOMAIN params :
                          l.prefixes = {} \/ \E p \in l.prefixes : Seqs!IsPrefix(p, n)}
           deep == {n \in matching : l.depth # 0 /\ Len(n) > l.depth}
           result == ListParameters(l.prefixes, l.depth)
<1>1. /\ result.names = matching \ deep
      /\ result.prefixes = {SubSeq(n, 1, l.depth) : n \in deep}
  BY DEF ListParameters
<1>2. l.depth \in Nat
  BY ParameterAssumption
<1>3. \A n \in DOMAIN params : n \in Seq(STRING)
  BY DEF ParamInv, ParamTypeInv, StoreOK, WellStored
<1>4. ASSUME NEW n \in deep
      PROVE  /\ n \in DOMAIN params
             /\ Seqs!IsStrictPrefix(SubSeq(n, 1, l.depth), n)
             /\ Len(SubSeq(n, 1, l.depth)) = l.depth
  <2>1. n \in DOMAIN params /\ Len(n) > l.depth
    OBVIOUS
  <2>2. n \in Seq(STRING)
    BY <1>3, <2>1
  <2> QED
    BY <1>2, <2>1, <2>2, AncestorIsPrefix
<1>5. ASSUME NEW n \in DOMAIN params, n \in matching
      PROVE  /\ n \in result.names <=> l.depth = 0 \/ Len(n) <= l.depth
             /\ n \in result.names \/ \E p \in result.prefixes : Seqs!IsStrictPrefix(p, n)
  <2>1. Len(n) \in Nat
    BY <1>3
  <2>2. n \in deep <=> ~(l.depth = 0 \/ Len(n) <= l.depth)
    BY <1>2, <1>5, <2>1
  <2> HIDE DEF deep, matching, result
  <2>3. n \in result.names <=> n \notin deep
    BY <1>1, <1>5
  <2>4. ASSUME n \in deep
        PROVE  \E p \in result.prefixes : Seqs!IsStrictPrefix(p, n)
    BY <1>1, <1>4, <2>4
  <2> QED
    BY <2>2, <2>3, <2>4
<1>6. ASSUME NEW p \in result.prefixes
      PROVE  Len(p) = l.depth /\ \E n \in DOMAIN params : Seqs!IsStrictPrefix(p, n)
  <2> HIDE DEF deep, result
  <2>1. PICK n \in deep : p = SubSeq(n, 1, l.depth)
    BY <1>1
  <2> QED
    BY <1>4, <2>1
<1> HIDE DEF deep, result
<1> QED
  BY <1>5, <1>6 DEF result

LEMMA OverridesExact == ParamInv => LiteralExact
<1> SUFFICES ASSUME ParamInv, NEW i \in DOMAIN overrides, entry.literal.kind = "number"
             PROVE  LET text  == entry.literal
                        spelt == Spelt(text.digits)
                        value == IF text.negative THEN -spelt ELSE spelt
                        fits  == text.digits # <<>> /\ value \in (-(IntMax + 1))..IntMax
                    IN  overrides[i].value = IF fits THEN [type |-> "integer", n |-> value]
                                             ELSE [type |-> "string", n |-> 0]
  BY DEF LiteralExact
<1>1. entry \in OverrideEntries /\ overrides = SelectOverrides(<<entry>>)
  BY DEF ParamInv, ParamTypeInv, OptionsOK
<1>2. overrides[i].value = ParseLiteral(entry.literal)
  BY <1>1, OverridesOfEntry
<1>3. entry.literal \in Literals
  BY <1>1, ParameterAssumption
<1> QED
  BY <1>2, <1>3, LiteralIsRead

\* The store holds only values that passed the checks of their descriptors,
\* even when the unsigned arithmetic of integer_value_is_acceptable wraps; a
\* listing loses no parameter and invents no ancestor; and a number on the
\* command line is read as the integer it spells exactly when it fits.
THEOREM StoreStaysConsistent == ParamSpec => []StoreConsistent
<1>1. ParamInv => ParamTypeOK
  <2> SUFFICES ASSUME ParamInv
               PROVE  ParamTypeOK
    OBVIOUS
  <2>1. ASSUME NEW n \in DOMAIN params
        PROVE  /\ n # <<>> /\ \A i \in DOMAIN n : n[i] \in Tokens
               /\ params[n].value.n \in Int
               /\ DOMAIN params[n].desc = DOMAIN DefaultDescriptor
    <3>1. /\ ValidName(n)
          /\ params[n] \in [value : ParamValues, desc : ParamDescriptors]
      BY DEF ParamInv, ParamTypeInv, StoreOK, WellStored
    <3>2. params[n].value.n \in Int
      BY <3>1 DEF ParamValues
    <3>3. DOMAIN params[n].desc = DOMAIN DefaultDescriptor
      BY <3>1 DEF ParamDescriptors, DefaultDescriptor
    <3> QED
      BY <3>1, <3>2, <3>3 DEF ValidName
  <2> QED
    BY <2>1 DEF ParamTypeOK, ParamInv, ParamTypeInv, ListsOK, ReadingOK
<1>2. ParamInv => StoreConsistent
  BY <1>1, StoredValuesReached, ListingsAccount, OverridesExact DEF StoreConsistent
<1> QED
  BY <1>2, ParamInvHolds, PTL

(***************************************************************************)
(* The action property: what a step may never do to a declared parameter.  *)
(***************************************************************************)

Honoured ==
    \A n \in DOMAIN params \cap DOMAIN params' :
        LET d == params[n].desc
            v == params[n].value
            w == params'[n].value
        IN  /\ params'[n].desc = d
            /\ d.read_only => w = v
            /\ ~d.dynamic /\ IsSet(v) => w.type = v.type

\* A step that keeps the entries of the parameters that stay honours them.
LEMMA KeptIsHonoured ==
    ASSUME \A n \in DOMAIN params \cap DOMAIN params' : params'[n] = params[n]
    PROVE  Honoured
BY DEF Honoured

LEMMA SetHonours ==
    ASSUME NEW request \in SetRequests, SetParameters(request)
    PROVE  Honoured
<1> DEFINE named == {request[i].name : i \in DOMAIN request}
           at(n) == CHOOSE i \in DOMAIN request : request[i].name = n
<1>1. /\ \A i \in DOMAIN request : ValidAssignment(request[i])
      /\ params' = [n \in DOMAIN params \cup named |->
                      IF n \notin named THEN params[n]
                      ELSE [value |-> request[at(n)].value,
                            desc  |-> IF n \in DOMAIN params THEN params[n].desc
                                      ELSE DefaultDescriptor]]
  BY DEF SetParameters
<1>2. ASSUME NEW n \in named
      PROVE  at(n) \in DOMAIN request /\ request[at(n)].name = n
  OBVIOUS
<1> HIDE DEF named, at
<1>3. ASSUME NEW n \in DOMAIN params \cap DOMAIN params'
      PROVE  /\ params'[n].desc = params[n].desc
             /\ params[n].desc.read_only => params'[n].value = params[n].value
             /\ ~params[n].desc.dynamic /\ IsSet(params[n].value) =>
                    params'[n].value.type = params[n].value.type
  <2>1. CASE n \notin named
    BY <1>1, <2>1
  <2>2. CASE n \in named
    <3> DEFINE p == request[at(n)]
    <3>1. p.name = n /\ ValidAssignment(p)
      BY <1>1, <1>2, <2>2
    <3>2. params'[n].value = p.value /\ params'[n].desc = params[n].desc
      BY <1>1, <2>2
    <3> HIDE DEF p
    <3>3. /\ ~params[n].desc.read_only
          /\ \/ params[n].desc.dynamic
             \/ ~IsSet(params[n].value)
             \/ params[n].value.type = p.value.type
      BY <3>1 DEF ValidAssignment
    <3> QED
      BY <3>2, <3>3
  <2> QED
    BY <2>1, <2>2
<1> QED
  BY <1>3 DEF Honoured

\* No step of any operation changes a read-only parameter, the type of one
\* whose type is fixed, or the descriptor a parameter was declared with.
THEOREM DeclarationsAreHonoured == ParamSpec => DeclarationHonoured
<1>1. ASSUME [ParamNext]_paramVars
      PROVE  [Honoured]_paramVars
  <2>1. CASE UNCHANGED paramVars
    BY <2>1
  <2>2. ASSUME NEW name, NEW v, NEW desc, NEW ignore, NEW throws,
               DeclareParameter(name, v, desc, ignore, throws)
        PROVE  Honoured
    <3>1. name \notin DOMAIN params
      BY <2>2 DEF DeclareParameter
    <3>2. PICK stored : StoreDeclared(name, stored, throws)
      BY <2>2 DEF DeclareParameter
    <3>3. \A n \in DOMAIN params \cap DOMAIN params' : params'[n] = params[n]
      BY <3>1, <3>2 DEF StoreDeclared, WithParameter
    <3> QED
      BY <3>3, KeptIsHonoured
  <2>3. ASSUME NEW name, UndeclareParameter(name)
        PROVE  Honoured
    <3>1. \A n \in DOMAIN params \cap DOMAIN params' : params'[n] = params[n]
      BY <2>3 DEF UndeclareParameter
    <3> QED
      BY <3>1, KeptIsHonoured
  <2>4. ASSUME UNCHANGED params
        PROVE  Honoured
    BY <2>4, KeptIsHonoured
  <2>5. CASE ParamNext
    <3>1. TakeChanges \/ (\E names \in ReadLists : BeginGetParameters(names)) \/ GetNext
            \/ EndGetParameters \/ NodeShutdown => UNCHANGED params
      BY DEF TakeChanges, BeginGetParameters, GetNext, EndGetParameters, NodeShutdown
    <3> QED
      BY <2>2, <2>3, <2>4, <2>5, <3>1, SetHonours DEF ParamNext
  <2> QED
    BY <1>1, <2>1, <2>5
<1>2. [ParamNext]_paramVars => [Honoured]_paramVars
  BY <1>1
<1> QED
  BY <1>2, PTL DEF ParamSpec, DeclarationHonoured, Honoured
=============================================================================
