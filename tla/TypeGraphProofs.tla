-------------------------- MODULE TypeGraphProofs --------------------------
(***************************************************************************)
(* Proofs about TypeGraph, for every set of types, every graph over it and *)
(* every request: the two searches find what they promise, and only that.  *)
(* The inductive invariant WInv relates what a search has found, queued    *)
(* and visited to the balls around its root: the types at most k steps     *)
(* away.  The lemmas on balls, sequences and nodes come first.             *)
(***************************************************************************)
EXTENDS TypeGraph, TLAPS, WellFoundedInduction, FiniteSetTheorems

\* A set with 0 that is closed under adding 1 holds every natural number:
\* induction, from the well-foundedness of <.
LEMMA NatSets ==
    ASSUME NEW S, 0 \in S, \A n \in Nat : n \in S => n + 1 \in S
    PROVE  Nat \subseteq S
<1>. DEFINE T == Nat \ S
<1>1. SUFFICES ASSUME T # {} PROVE FALSE
  OBVIOUS
<1>2. PICK x \in T : \A y \in T : ~(<<y, x>> \in OpToRel(<, Nat))
  <2>. HIDE DEF T
  <2>1. T \subseteq Nat
    BY DEF T
  <2>. QED
    BY <1>1, <2>1, NatLessThanWellFounded, WFMin
<1>3. \A y \in T : ~(y < x)
  BY <1>2 DEF OpToRel
<1>4. x # 0 /\ x - 1 \in Nat
  OBVIOUS
<1>5. x - 1 \in S
  BY <1>3, <1>4
<1>. QED
  BY <1>4, <1>5

\* There are finitely many types.
LEMMA Cardinals == Cardinality(Types) \in Nat /\ IsFiniteSet(Types)
  BY FS_CardinalityType, TypesAssumption

\* Balls, defined by recursion, obeys its equation.
LEMMA BallsRecursion ==
    ASSUME NEW R, NEW r, NEW N \in Nat
    PROVE  Balls(R, r, N) =
             [k \in 0..N |-> IF k = 0 THEN {r}
                             ELSE Balls(R, r, N)[k - 1] \cup Succ(R, Balls(R, r, N)[k - 1])]
<1>. DEFINE Rec(n, f) == f = [k \in 0..n |-> IF k = 0 THEN {r} ELSE f[k - 1] \cup Succ(R, f[k - 1])]
            S == {n \in Nat : \E f : Rec(n, f)}
<1>1. 0 \in S
  <2>. DEFINE f == [k \in 0..0 |-> {r}]
  <2>1. Rec(0, f)
    OBVIOUS
  <2>. QED
    BY <2>1
<1>2. ASSUME NEW n \in Nat, n \in S PROVE n + 1 \in S
  <2>1. PICK f : Rec(n, f)
    BY <1>2
  <2>. DEFINE g == [k \in 0..(n + 1) |-> IF k <= n THEN f[k] ELSE f[n] \cup Succ(R, f[n])]
  <2>2. \A k \in 0..(n + 1) : k # 0 => g[k - 1] = f[k - 1]
    OBVIOUS
  <2>3. ASSUME NEW k \in 0..(n + 1)
        PROVE  g[k] = IF k = 0 THEN {r} ELSE g[k - 1] \cup Succ(R, g[k - 1])
    <3>1. CASE k <= n
      <4>1. g[k] = f[k] /\ k \in 0..n
        BY <3>1
      <4>2. f[k] = IF k = 0 THEN {r} ELSE f[k - 1] \cup Succ(R, f[k - 1])
        BY <2>1, <4>1
      <4>. HIDE DEF g
      <4>. QED
        BY <4>1, <4>2, <2>2
    <3>2. CASE k = n + 1
      <4>1. g[k] = f[n] \cup Succ(R, f[n])
        BY <3>2
      <4>. HIDE DEF g
      <4>. QED
        BY <4>1, <2>2, <3>2
    <3>. QED
      BY <3>1, <3>2
  <2>4. Rec(n + 1, g)
    <3>1. g = [k \in 0..(n + 1) |-> g[k]]
      OBVIOUS
    <3>. HIDE DEF g
    <3>. QED
      BY <3>1, <2>3, Zenon
  <2>. HIDE DEF g, Rec
  <2>. QED
    BY <2>4
<1>3. \E f : Rec(N, f)
  <2>. HIDE DEF Rec
  <2>1. Nat \subseteq S
    <3>. HIDE DEF S
    <3>. QED BY <1>1, <1>2, NatSets
  <2>. QED
    BY <2>1
<1>. QED
  BY <1>3 DEF Balls

\* A ball grows by one step up to as many steps as there are types, and
\* stands still from there on.
LEMMA BallBelow ==
    ASSUME NEW R, NEW r \in Types
    PROVE  /\ Ball(R, r)[0] = {r}
           /\ \A k \in Nat : k < Cardinality(Types) =>
                Ball(R, r)[k + 1] = Ball(R, r)[k] \cup Succ(R, Ball(R, r)[k])
           /\ \A k \in Nat : k >= Cardinality(Types) => Ball(R, r)[k] = Ball(R, r)[Cardinality(Types)]
<1>. DEFINE N == Cardinality(Types)
            B == Ball(R, r)
            b == Balls(R, r, N)
<1>1. N \in Nat
  BY Cardinals
<1>2. B = [k \in Nat |-> b[IF k < N THEN k ELSE N]]
  BY DEF Ball
<1>. HIDE DEF B, N
<1>3. b = [k \in 0..N |-> IF k = 0 THEN {r} ELSE b[k - 1] \cup Succ(R, b[k - 1])]
  BY <1>1, BallsRecursion
<1>. SUFFICES /\ B[0] = {r}
              /\ \A k \in Nat : k < N => B[k + 1] = B[k] \cup Succ(R, B[k])
              /\ \A k \in Nat : k >= N => B[k] = B[N]
  BY DEF B, N
<1>. HIDE DEF b
<1>4. \A k \in 0..N : b[k] = IF k = 0 THEN {r} ELSE b[k - 1] \cup Succ(R, b[k - 1])
  BY <1>3
<1>5. \A k \in Nat : B[k] = b[IF k < N THEN k ELSE N]
  BY <1>2
<1>6. B[0] = {r}
  <2>1. 0 \in 0..N /\ B[0] = b[IF 0 < N THEN 0 ELSE N]
    BY <1>1, <1>5
  <2>2. b[0] = {r}
    BY <2>1, <1>4
  <2>. QED
    BY <1>1, <2>1, <2>2
<1>7. ASSUME NEW k \in Nat, k < N PROVE B[k + 1] = B[k] \cup Succ(R, B[k])
  <2>1. B[k + 1] = b[k + 1] /\ B[k] = b[k]
    BY <1>1, <1>5, <1>7
  <2>2. k + 1 \in 0..N /\ k + 1 # 0 /\ (k + 1) - 1 = k
    BY <1>1, <1>7
  <2>. QED
    BY <2>1, <2>2, <1>4
<1>8. ASSUME NEW k \in Nat, k >= N PROVE B[k] = B[N]
  <2>1. ~(k < N) /\ ~(N < N)
    BY <1>1, <1>8
  <2>2. B[k] = b[N] /\ B[N] = b[N]
    BY <1>1, <1>5, <2>1
  <2>. QED
    BY <2>2
<1>. QED
  BY <1>6, <1>7, <1>8

\* Relations lead to types.
LEMMA SuccTypes == ASSUME NEW R, NEW S PROVE Succ(R, S) \subseteq Types
  BY DEF Succ

\* After as many steps as there are types no step leads to a new type: each
\* earlier one did, or none will.
LEMMA BallSaturates ==
    ASSUME NEW R, NEW r \in Types
    PROVE  LET B == Ball(R, r)
           IN  Succ(R, B[Cardinality(Types)]) \subseteq B[Cardinality(Types)]
<1>. DEFINE N == Cardinality(Types)
            B == Ball(R, r)
            Grown(k) == /\ B[k] \subseteq Types
                        /\ Succ(R, B[k]) \subseteq B[k] \/ Cardinality(B[k]) > k
            S == {k \in Nat : k <= N => Grown(k)}
<1>1. N \in Nat /\ IsFiniteSet(Types)
  BY Cardinals
<1>2. /\ B[0] = {r}
      /\ \A k \in Nat : k < N => B[k + 1] = B[k] \cup Succ(R, B[k])
  BY BallBelow
<1>. HIDE DEF B
<1>3. 0 \in S
  <2>1. Cardinality({r}) = 1
    BY FS_Singleton
  <2>2. Grown(0)
    BY <1>2, <2>1
  <2>. QED
    BY <2>2
<1>4. ASSUME NEW k \in Nat, k \in S PROVE k + 1 \in S
  <2>. SUFFICES ASSUME k + 1 <= N PROVE Grown(k + 1)
    OBVIOUS
  <2>1. k < N /\ k <= N
    BY <1>1
  <2>2. Grown(k) /\ B[k + 1] = B[k] \cup Succ(R, B[k])
    BY <1>2, <1>4, <2>1
  <2>3. B[k + 1] \subseteq Types
    BY <2>2, SuccTypes
  <2>4. CASE Succ(R, B[k]) \subseteq B[k]
    <3>1. B[k + 1] = B[k]
      BY <2>2, <2>4
    <3>. QED
      BY <2>3, <2>4, <3>1
  <2>5. CASE ~(Succ(R, B[k]) \subseteq B[k])
    <3>1. PICK x : x \in Succ(R, B[k]) /\ x \notin B[k]
      BY <2>5
    <3>2. IsFiniteSet(B[k]) /\ IsFiniteSet(B[k + 1])
      BY <1>1, <2>2, <2>3, FS_Subset
    <3>3. Cardinality(B[k] \cup {x}) = Cardinality(B[k]) + 1
      BY <3>1, <3>2, FS_AddElement
    <3>4. B[k] \cup {x} \subseteq B[k + 1]
      BY <2>2, <3>1
    <3>5. Cardinality(B[k] \cup {x}) <= Cardinality(B[k + 1])
      BY <3>2, <3>4, FS_Subset
    <3>6. Cardinality(B[k]) > k
      BY <2>2, <2>5
    <3>7. Cardinality(B[k]) \in Nat /\ Cardinality(B[k + 1]) \in Nat
      BY <3>2, FS_CardinalityType
    <3>8. Cardinality(B[k + 1]) > k + 1
      <4>. DEFINE c == Cardinality(B[k])
                  d == Cardinality(B[k + 1])
      <4>1. c \in Nat /\ d \in Nat /\ c > k /\ c + 1 <= d
        BY <3>3, <3>5, <3>6, <3>7
      <4>. HIDE DEF c, d
      <4>2. d > k + 1
        BY <4>1
      <4>. QED
        BY <4>2 DEF d
    <3>. QED
      BY <2>3, <3>8
  <2>. QED
    BY <2>4, <2>5
<1>5. N \in S
  <2>. HIDE DEF S
  <2>. QED BY <1>1, <1>3, <1>4, NatSets
<1>6. Grown(N)
  BY <1>1, <1>5
<1>7. Cardinality(B[N]) <= N
  BY <1>1, <1>6, FS_Subset
<1>8. Cardinality(B[N]) \in Nat
  BY <1>1, <1>6, FS_Subset, FS_CardinalityType
<1>9. ~(Cardinality(B[N]) > N)
  BY <1>1, <1>7, <1>8
<1>10. Succ(R, B[N]) \subseteq B[N]
  BY <1>6, <1>9
<1>. QED
  BY <1>10 DEF B

\* A ball grows by one step, however large.
LEMMA BallSteps ==
    ASSUME NEW R, NEW r \in Types
    PROVE  /\ Ball(R, r)[0] = {r}
           /\ \A k \in Nat : Ball(R, r)[k + 1] = Ball(R, r)[k] \cup Succ(R, Ball(R, r)[k])
<1>. DEFINE N == Cardinality(Types)
            B == Ball(R, r)
<1>1. N \in Nat
  BY Cardinals
<1>2. /\ B[0] = {r}
      /\ \A k \in Nat : k < N => B[k + 1] = B[k] \cup Succ(R, B[k])
      /\ \A k \in Nat : k >= N => B[k] = B[N]
  BY BallBelow
<1>3. Succ(R, B[N]) \subseteq B[N]
  BY BallSaturates
<1>. HIDE DEF B, N
<1>4. ASSUME NEW k \in Nat PROVE B[k + 1] = B[k] \cup Succ(R, B[k])
  <2>1. CASE k < N
    BY <1>2, <2>1
  <2>2. CASE ~(k < N)
    <3>1. k >= N /\ k + 1 >= N
      BY <1>1, <2>2
    <3>2. B[k] = B[N] /\ B[k + 1] = B[N]
      BY <1>2, <3>1
    <3>. QED
      BY <1>3, <3>2
  <2>. QED
    BY <2>1, <2>2
<1>. QED
  BY <1>2, <1>4 DEF B

\* A larger number of steps leads to all that a smaller one leads to.
LEMMA BallIncreases ==
    ASSUME NEW R, NEW r \in Types, NEW k \in Nat, NEW m \in Nat, k <= m
    PROVE  Ball(R, r)[k] \subseteq Ball(R, r)[m]
<1>. DEFINE B == Ball(R, r)
            S == {i \in Nat : B[k] \subseteq B[k + i]}
<1>1. \A i \in Nat : B[i + 1] = B[i] \cup Succ(R, B[i])
  BY BallSteps
<1>. HIDE DEF B
<1>2. 0 \in S
  OBVIOUS
<1>3. ASSUME NEW i \in Nat, i \in S PROVE i + 1 \in S
  <2>1. B[(k + i) + 1] = B[k + i] \cup Succ(R, B[k + i]) /\ k + (i + 1) = (k + i) + 1
    BY <1>1
  <2>. QED
    BY <1>3, <2>1
<1>4. m - k \in S
  <2>. HIDE DEF S
  <2>1. m - k \in Nat
    OBVIOUS
  <2>. QED
    BY <1>2, <1>3, <2>1, NatSets
<1>5. k + (m - k) = m
  OBVIOUS
<1>6. B[k] \subseteq B[m]
  BY <1>4, <1>5
<1>. QED
  BY <1>6 DEF B

\* A ball has types only, its center among them.
LEMMA BallTypes ==
    ASSUME NEW R, NEW r \in Types, NEW k \in Nat
    PROVE  Ball(R, r)[k] \subseteq Types /\ r \in Ball(R, r)[k]
<1>. DEFINE B == Ball(R, r)
            S == {i \in Nat : B[i] \subseteq Types}
<1>1. /\ B[0] = {r}
      /\ \A i \in Nat : B[i + 1] = B[i] \cup Succ(R, B[i])
  BY BallSteps
<1>2. B[0] \subseteq B[k]
  BY BallIncreases
<1>. HIDE DEF B
<1>3. 0 \in S
  BY <1>1
<1>4. ASSUME NEW i \in Nat, i \in S PROVE i + 1 \in S
  BY <1>1, <1>4, SuccTypes
<1>5. k \in S
  <2>. HIDE DEF S
  <2>. QED
    BY <1>3, <1>4, NatSets
<1>6. B[k] \subseteq Types /\ r \in B[k]
  BY <1>1, <1>2, <1>5
<1>. QED
  BY <1>6 DEF B

\* Once a step leads to nothing new, no number of steps does.
LEMMA BallStands ==
    ASSUME NEW R, NEW r \in Types, NEW k \in Nat, NEW m \in Nat, k <= m,
           Succ(R, Ball(R, r)[k]) \subseteq Ball(R, r)[k]
    PROVE  Ball(R, r)[m] = Ball(R, r)[k]
<1>. DEFINE B == Ball(R, r)
            S == {i \in Nat : B[k + i] = B[k]}
<1>1. \A i \in Nat : B[i + 1] = B[i] \cup Succ(R, B[i])
  BY BallSteps
<1>0. Succ(R, B[k]) \subseteq B[k]
  OBVIOUS
<1>. HIDE DEF B
<1>2. 0 \in S
  OBVIOUS
<1>3. ASSUME NEW i \in Nat, i \in S PROVE i + 1 \in S
  <2>1. B[(k + i) + 1] = B[k + i] \cup Succ(R, B[k + i]) /\ k + (i + 1) = (k + i) + 1
    BY <1>1
  <2>2. B[k + i] = B[k]
    BY <1>3
  <2>3. B[k + (i + 1)] = B[k]
    BY <1>0, <2>1, <2>2
  <2>. QED
    BY <2>3
<1>4. m - k \in S
  <2>. HIDE DEF S
  <2>1. m - k \in Nat
    OBVIOUS
  <2>. QED
    BY <1>2, <1>3, <2>1, NatSets
<1>5. k + (m - k) = m
  OBVIOUS
<1>6. B[m] = B[k]
  BY <1>4, <1>5
<1>. QED
  BY <1>6 DEF B

\* What an order of a finite set is.
LEMMA Orders ==
    ASSUME NEW S, IsFiniteSet(S), NEW s \in SetToSeqs(S)
    PROVE  /\ Cardinality(S) \in Nat /\ s \in [1..Cardinality(S) -> S]
           /\ Range(s) = S
           /\ \A i, j \in 1..Cardinality(S) : s[i] = s[j] => i = j
<1>. DEFINE n == Cardinality(S)
<1>1. n \in Nat
  BY FS_CardinalityType
<1>2. s \in [1..n -> S] /\ \A i, j \in 1..n : s[i] = s[j] => i = j
  BY DEF SetToSeqs
<1>3. s \in Injection(1..n, S)
  BY <1>2 DEF Injection, IsInjective
<1>4. Cardinality(1..n) = n
  BY <1>1, FS_Interval
<1>5. s \in Surjection(1..n, S)
  BY <1>3, <1>4, FS_Injection
<1>6. Range(s) = S
  BY <1>2, <1>5 DEF Surjection, Range
<1>. QED
  BY <1>1, <1>2, <1>6

-----------------------------------------------------------------------------
\* No two nodes of s are of the same type.
Distinct(s) == \A i, j \in DOMAIN s : s[i].name = s[j].name => i = j

\* A node of a type that is not listed is appended.
LEMMA AppendFresh ==
    ASSUME NEW T, NEW s \in Seq(T), NEW x \in T, Distinct(s), x.name \notin Listed(s)
    PROVE  /\ Append(s, x) \in Seq(T) /\ Distinct(Append(s, x))
           /\ Listed(Append(s, x)) = Listed(s) \cup {x.name}
<1>. DEFINE a == Append(s, x)
<1>1. /\ Len(s) \in Nat /\ DOMAIN s = 1..Len(s) /\ a \in Seq(T)
      /\ DOMAIN a = 1..(Len(s) + 1) /\ a[Len(s) + 1] = x
      /\ \A i \in 1..Len(s) : a[i] = s[i]
  OBVIOUS
<1>. HIDE DEF a
<1>2. Distinct(a)
  <2>. SUFFICES ASSUME NEW i \in DOMAIN a, NEW j \in DOMAIN a, a[i].name = a[j].name PROVE i = j
    BY DEF Distinct
  <2>1. \A k \in 1..Len(s) : s[k].name # x.name
    BY <1>1 DEF Listed
  <2>2. CASE i \in 1..Len(s) /\ j \in 1..Len(s)
    BY <1>1, <2>2 DEF Distinct
  <2>3. CASE i = Len(s) + 1 /\ j \in 1..Len(s)
    BY <1>1, <2>1, <2>3
  <2>4. CASE i \in 1..Len(s) /\ j = Len(s) + 1
    BY <1>1, <2>1, <2>4
  <2>. QED
    BY <1>1, <2>2, <2>3, <2>4
<1>3. ASSUME NEW n \in Listed(a) PROVE n \in Listed(s) \cup {x.name}
  <2>1. PICK i \in DOMAIN a : n = a[i].name
    BY <1>3 DEF Listed
  <2>2. CASE i \in 1..Len(s)
    BY <1>1, <2>1, <2>2 DEF Listed
  <2>. QED
    BY <1>1, <2>1, <2>2
<1>4. ASSUME NEW n \in Listed(s) PROVE n \in Listed(a)
  <2>1. PICK i \in DOMAIN s : n = s[i].name
    BY <1>4 DEF Listed
  <2>2. i \in DOMAIN a /\ a[i] = s[i]
    BY <1>1
  <2>. QED
    BY <2>1, <2>2 DEF Listed
<1>5. x.name \in Listed(a)
  <2>1. Len(s) + 1 \in DOMAIN a
    BY <1>1
  <2>. QED
    BY <1>1, <2>1 DEF Listed
<1>. QED
  BY <1>1, <1>2, <1>3, <1>4, <1>5 DEF a

\* The function that KeepUnseen is the last value of.
Kept(seen, nodes) ==
    LET kept[k \in 0..Len(nodes)] ==
          IF k = 0 THEN seen
          ELSE IF nodes[k].name \in Listed(kept[k - 1]) THEN kept[k - 1]
          ELSE Append(kept[k - 1], nodes[k])
    IN  kept

KeptNext(f, nodes, k) ==
    IF nodes[k].name \in Listed(f[k - 1]) THEN f[k - 1] ELSE Append(f[k - 1], nodes[k])

\* It obeys its equation.
LEMMA KeptRecursion ==
    ASSUME NEW seen, NEW nodes, Len(nodes) \in Nat
    PROVE  /\ KeepUnseen(seen, nodes) = Kept(seen, nodes)[Len(nodes)]
           /\ Kept(seen, nodes) =
                [k \in 0..Len(nodes) |-> IF k = 0 THEN seen ELSE KeptNext(Kept(seen, nodes), nodes, k)]
<1>. DEFINE N == Len(nodes)
            Rec(n, f) == f = [k \in 0..n |-> IF k = 0 THEN seen ELSE KeptNext(f, nodes, k)]
            S == {n \in Nat : \E f : Rec(n, f)}
<1>1. 0 \in S
  <2>. DEFINE f == [k \in 0..0 |-> seen]
  <2>1. Rec(0, f)
    OBVIOUS
  <2>. QED
    BY <2>1
<1>2. ASSUME NEW n \in Nat, n \in S PROVE n + 1 \in S
  <2>1. PICK f : Rec(n, f)
    BY <1>2
  <2>. DEFINE g == [k \in 0..(n + 1) |-> IF k <= n THEN f[k] ELSE KeptNext(f, nodes, n + 1)]
  <2>2. \A k \in 0..(n + 1) : k # 0 => g[k - 1] = f[k - 1]
    OBVIOUS
  <2>3. ASSUME NEW k \in 0..(n + 1)
        PROVE  g[k] = IF k = 0 THEN seen ELSE KeptNext(g, nodes, k)
    <3>1. CASE k <= n
      <4>1. g[k] = f[k] /\ k \in 0..n
        BY <3>1
      <4>2. f[k] = IF k = 0 THEN seen ELSE KeptNext(f, nodes, k)
        BY <2>1, <4>1
      <4>. HIDE DEF g
      <4>. QED
        BY <4>1, <4>2, <2>2 DEF KeptNext
    <3>2. CASE k = n + 1
      <4>1. g[k] = KeptNext(f, nodes, n + 1)
        BY <3>2
      <4>. HIDE DEF g
      <4>2. g[k - 1] = f[k - 1]
        BY <2>2, <3>2
      <4>. QED
        BY <4>1, <4>2, <3>2 DEF KeptNext
    <3>. QED
      BY <3>1, <3>2
  <2>4. Rec(n + 1, g)
    <3>1. g = [k \in 0..(n + 1) |-> g[k]]
      OBVIOUS
    <3>. HIDE DEF g
    <3>. QED
      BY <3>1, <2>3, Zenon
  <2>. HIDE DEF g, Rec
  <2>. QED
    BY <2>4
<1>3. \E f : Rec(N, f)
  <2>. HIDE DEF Rec
  <2>1. Nat \subseteq S
    <3>. HIDE DEF S
    <3>. QED BY <1>1, <1>2, NatSets
  <2>. QED
    BY <2>1
<1>4. KeepUnseen(seen, nodes) = Kept(seen, nodes)[Len(nodes)]
  BY DEF KeepUnseen, Kept
<1>5. Kept(seen, nodes) = CHOOSE f : Rec(N, f)
  BY DEF Kept, KeptNext
<1>. QED
  BY <1>3, <1>4, <1>5

\* KeepUnseen lists the types of both sequences, once each.
LEMMA KeepsUnseen ==
    ASSUME NEW T, NEW seen \in Seq(T), NEW nodes \in Seq(T), Distinct(seen)
    PROVE  /\ KeepUnseen(seen, nodes) \in Seq(T) /\ Distinct(KeepUnseen(seen, nodes))
           /\ Listed(KeepUnseen(seen, nodes)) = Listed(seen) \cup Listed(nodes)
<1>. DEFINE N == Len(nodes)
            f == Kept(seen, nodes)
            NamesTo(k) == {nodes[i].name : i \in 1..k}
            Good(k) == /\ f[k] \in Seq(T) /\ Distinct(f[k])
                       /\ Listed(f[k]) = Listed(seen) \cup NamesTo(k)
            S == {k \in Nat : k <= N => Good(k)}
<1>1. N \in Nat /\ DOMAIN nodes = 1..N /\ \A i \in 1..N : nodes[i] \in T
  OBVIOUS
<1>2. /\ KeepUnseen(seen, nodes) = f[N]
      /\ f = [k \in 0..N |-> IF k = 0 THEN seen ELSE KeptNext(f, nodes, k)]
  BY <1>1, KeptRecursion
<1>. HIDE DEF f, N
<1>3. \A k \in 0..N : f[k] = IF k = 0 THEN seen ELSE KeptNext(f, nodes, k)
  BY <1>2, Zenon
<1>4. 0 \in S
  <2>1. 0 \in 0..N
    BY <1>1
  <2>2. f[0] = seen
    BY <1>3, <2>1
  <2>3. NamesTo(0) = {}
    OBVIOUS
  <2>4. Good(0)
    <3>. HIDE DEF NamesTo
    <3>. QED BY <2>2, <2>3
  <2>. HIDE DEF Good
  <2>. QED
    BY <2>4
<1>5. ASSUME NEW k \in Nat, k \in S PROVE k + 1 \in S
  <2>. SUFFICES ASSUME k + 1 <= N PROVE Good(k + 1)
    OBVIOUS
  <2>1. Good(k) /\ k + 1 \in 0..N /\ k + 1 \in 1..N /\ k + 1 # 0 /\ (k + 1) - 1 = k
    BY <1>1, <1>5
  <2>. DEFINE x == nodes[k + 1]
  <2>2. f[k + 1] = IF x.name \in Listed(f[k]) THEN f[k] ELSE Append(f[k], x)
    BY <1>3, <2>1 DEF KeptNext
  <2>3. x \in T
    BY <1>1, <2>1
  <2>4. NamesTo(k + 1) = NamesTo(k) \cup {x.name}
    OBVIOUS
  <2>. HIDE DEF x, NamesTo
  <2>5. CASE x.name \in Listed(f[k])
    BY <2>1, <2>2, <2>4, <2>5
  <2>6. CASE x.name \notin Listed(f[k])
    <3>1. f[k + 1] = Append(f[k], x)
      BY <2>2, <2>6
    <3>2. /\ Append(f[k], x) \in Seq(T) /\ Distinct(Append(f[k], x))
          /\ Listed(Append(f[k], x)) = Listed(f[k]) \cup {x.name}
      BY <2>1, <2>3, <2>6, AppendFresh
    <3>. QED
      BY <2>1, <2>4, <3>1, <3>2
  <2>. QED
    BY <2>5, <2>6
<1>6. N \in S
  <2>. HIDE DEF S
  <2>. QED
    BY <1>1, <1>4, <1>5, NatSets
<1>7. NamesTo(N) = Listed(nodes)
  BY <1>1 DEF Listed
<1>8. Good(N)
  <2>. HIDE DEF Good
  <2>. QED
    BY <1>1, <1>6
<1>. HIDE DEF NamesTo
<1>. QED
  BY <1>2, <1>7, <1>8

-----------------------------------------------------------------------------
\* The types of two sequences of nodes are those of their concatenation.
LEMMA ListedTogether ==
    ASSUME NEW T, NEW a \in Seq(T), NEW b \in Seq(T)
    PROVE  /\ a \o b \in Seq(T) /\ Listed(a \o b) = Listed(a) \cup Listed(b)
           /\ Distinct(a) /\ Distinct(b) /\ Listed(a) \cap Listed(b) = {} => Distinct(a \o b)
<1>. DEFINE c == a \o b
<1>1. /\ c \in Seq(T) /\ Len(a) \in Nat /\ Len(b) \in Nat
      /\ DOMAIN a = 1..Len(a) /\ DOMAIN b = 1..Len(b) /\ DOMAIN c = 1..(Len(a) + Len(b))
      /\ \A i \in 1..Len(a) : c[i] = a[i]
      /\ \A i \in (Len(a) + 1)..(Len(a) + Len(b)) : c[i] = b[i - Len(a)]
  OBVIOUS
<1>2. \A i \in DOMAIN b : i + Len(a) \in DOMAIN c /\ c[i + Len(a)] = b[i]
  BY <1>1
<1>. HIDE DEF c
<1>3. \A i \in DOMAIN c : \/ i \in DOMAIN a /\ c[i] = a[i]
                          \/ i > Len(a) /\ i - Len(a) \in DOMAIN b /\ c[i] = b[i - Len(a)]
  BY <1>1
<1>4. \A i \in DOMAIN a : i \in DOMAIN c /\ c[i] = a[i]
  BY <1>1
<1>5. Listed(c) = Listed(a) \cup Listed(b)
  <2>1. ASSUME NEW n \in Listed(c) PROVE n \in Listed(a) \cup Listed(b)
    <3>1. PICK i \in DOMAIN c : n = c[i].name
      BY <2>1 DEF Listed
    <3>. QED
      BY <1>3, <3>1 DEF Listed
  <2>2. ASSUME NEW n \in Listed(a) PROVE n \in Listed(c)
    BY <1>4, <2>2 DEF Listed
  <2>3. ASSUME NEW n \in Listed(b) PROVE n \in Listed(c)
    <3>1. PICK i \in DOMAIN b : n = b[i].name
      BY <2>3 DEF Listed
    <3>2. i + Len(a) \in DOMAIN c /\ n = c[i + Len(a)].name
      BY <1>2, <3>1
    <3>. QED
      BY <3>2 DEF Listed
  <2>. QED
    BY <2>1, <2>2, <2>3
<1>6. ASSUME Distinct(a), Distinct(b), Listed(a) \cap Listed(b) = {}
      PROVE  Distinct(c)
  <2>. SUFFICES ASSUME NEW i \in DOMAIN c, NEW j \in DOMAIN c, c[i].name = c[j].name PROVE i = j
    BY DEF Distinct
  <2>1. CASE i \in DOMAIN a /\ j \in DOMAIN a
    BY <1>4, <1>6, <2>1 DEF Distinct
  <2>2. CASE i \in DOMAIN a /\ j \notin DOMAIN a
    BY <1>3, <1>4, <1>6, <2>2 DEF Listed
  <2>3. CASE i \notin DOMAIN a /\ j \in DOMAIN a
    BY <1>3, <1>4, <1>6, <2>3 DEF Listed
  <2>4. CASE i \notin DOMAIN a /\ j \notin DOMAIN a
    <3>1. i - Len(a) = j - Len(a)
      BY <1>3, <1>6, <2>4 DEF Distinct
    <3>2. i \in Int /\ j \in Int /\ Len(a) \in Int
      BY <1>1
    <3>. QED
      BY <3>1, <3>2
  <2>. QED
    BY <2>1, <2>2, <2>3, <2>4
<1>. QED
  BY <1>1, <1>5, <1>6 DEF c

\* The types of a queue are those of its head and its tail.
LEMMA ListedHeadTail ==
    ASSUME NEW T, NEW q \in Seq(T), q # <<>>
    PROVE  /\ Head(q) \in T /\ Tail(q) \in Seq(T) /\ Listed(q) = {Head(q).name} \cup Listed(Tail(q))
           /\ Len(q) = 1 => Tail(q) = <<>>
           /\ Len(q) # 1 => Tail(q) # <<>>
<1>1. /\ Len(q) \in Nat \ {0} /\ DOMAIN q = 1..Len(q) /\ Head(q) = q[1] /\ Tail(q) \in Seq(T)
      /\ DOMAIN Tail(q) = 1..(Len(q) - 1) /\ Len(Tail(q)) = Len(q) - 1
      /\ \A i \in 1..(Len(q) - 1) : Tail(q)[i] = q[i + 1]
  OBVIOUS
<1>2. Head(q) \in T
  BY <1>1
<1>3. ASSUME NEW n \in Listed(q) PROVE n \in {Head(q).name} \cup Listed(Tail(q))
  <2>1. PICK i \in DOMAIN q : n = q[i].name
    BY <1>3 DEF Listed
  <2>2. CASE i # 1
    <3>1. i - 1 \in DOMAIN Tail(q) /\ Tail(q)[i - 1] = q[i]
      BY <1>1, <2>2
    <3>. QED
      BY <2>1, <3>1 DEF Listed
  <2>. QED
    BY <1>1, <2>1, <2>2
<1>4. Head(q).name \in Listed(q)
  BY <1>1 DEF Listed
<1>5. ASSUME NEW n \in Listed(Tail(q)) PROVE n \in Listed(q)
  <2>1. PICK i \in DOMAIN Tail(q) : n = Tail(q)[i].name
    BY <1>5 DEF Listed
  <2>2. i + 1 \in DOMAIN q /\ Tail(q)[i] = q[i + 1]
    BY <1>1
  <2>. QED
    BY <2>1, <2>2 DEF Listed
<1>6. (Len(q) = 1 => Tail(q) = <<>>) /\ (Len(q) # 1 => Tail(q) # <<>>)
  <2>. DEFINE t == Tail(q)
  <2>1. t \in Seq(T) /\ Len(t) = Len(q) - 1 /\ Len(q) \in Nat
    BY <1>1
  <2>. HIDE DEF t
  <2>2. Len(q) = 1 => t = <<>>
    BY <2>1
  <2>3. Len(q) # 1 => t # <<>>
    BY <2>1
  <2>. QED
    BY <2>2, <2>3 DEF t
<1>7. Listed(q) = {Head(q).name} \cup Listed(Tail(q))
  BY <1>3, <1>4, <1>5
<1>. QED
  BY <1>1, <1>2, <1>6, <1>7

\* A node of a walk over R from r: its path is one of its length from r, and no
\* shorter one leads to its type.
NodeRecords == [name : Types, level : Nat, path : Seq(Types)]
IsNode(R, r, n) ==
    /\ Len(n.path) = n.level + 1 /\ n.path[1] = r /\ n.path[Len(n.path)] = n.name
    /\ \A k \in 1..n.level : <<n.path[k], n.path[k + 1]>> \in R
    /\ n.name \in Ball(R, r)[n.level]
    /\ n.level # 0 => n.name \notin Ball(R, r)[n.level - 1]
NodesAt(R, r, l) == {n \in NodeRecords : IsNode(R, r, n) /\ n.level = l}
NodesTo(R, r, m) == {n \in NodeRecords : IsNode(R, r, n) /\ n.level \in 1..m}

\* The neighbours of t outside V.
Unseen(R, t, V) == {u \in Types : <<t, u>> \in R /\ u \notin V}

\* The node that a walk starts with.
LEMMA RootNode == ASSUME NEW R, NEW r \in Types PROVE Node(r, 0, <<r>>) \in NodesAt(R, r, 0)
<1>. DEFINE n == Node(r, 0, <<r>>)
<1>1. n \in NodeRecords /\ n.name = r /\ n.level = 0 /\ n.path = <<r>>
  BY DEF Node, NodeRecords
<1>2. Ball(R, r)[0] = {r}
  BY BallSteps
<1>. HIDE DEF n
<1>3. IsNode(R, r, n)
  BY <1>1, <1>2 DEF IsNode
<1>. QED
  BY <1>1, <1>3 DEF n, NodesAt

\* A node of the next level: the path of one of this level, and one step more to
\* a type that is not in the ball.
LEMMA NewNode ==
    ASSUME NEW R, NEW r \in Types, NEW k \in Nat, NEW h \in NodesAt(R, r, k), NEW u \in Types,
           <<h.name, u>> \in R, u \notin Ball(R, r)[k]
    PROVE  Node(u, k + 1, Append(h.path, u)) \in NodesAt(R, r, k + 1)
<1>. DEFINE p == Append(h.path, u)
            n == Node(u, k + 1, p)
<1>1. /\ h.path \in Seq(Types) /\ Len(h.path) = k + 1 /\ h.path[1] = r /\ h.path[k + 1] = h.name
      /\ \A i \in 1..k : <<h.path[i], h.path[i + 1]>> \in R
      /\ h.name \in Ball(R, r)[k]
  BY DEF NodesAt, IsNode, NodeRecords
<1>2. /\ p \in Seq(Types) /\ Len(p) = k + 2 /\ p[k + 2] = u
      /\ \A i \in 1..(k + 1) : p[i] = h.path[i]
  BY <1>1
<1>. HIDE DEF p
<1>3. n \in NodeRecords /\ n.name = u /\ n.level = k + 1 /\ n.path = p
  BY <1>2 DEF Node, NodeRecords
<1>4. u \in Ball(R, r)[k + 1]
  <2>1. u \in Succ(R, Ball(R, r)[k])
    BY <1>1 DEF Succ
  <2>. QED
    BY <2>1, BallSteps
<1>5. ASSUME NEW i \in 1..(k + 1) PROVE <<p[i], p[i + 1]>> \in R
  <2>1. CASE i = k + 1
    <3>1. p[i] = h.name /\ p[i + 1] = u
      BY <1>1, <1>2, <2>1
    <3>. QED
      BY <3>1
  <2>2. CASE i \in 1..k
    BY <1>1, <1>2, <2>2
  <2>. QED
    BY <2>1, <2>2
<1>6. (k + 1) - 1 = k /\ k + 1 # 0 /\ (k + 1) + 1 = k + 2 /\ p[1] = r
  BY <1>1, <1>2
<1>. HIDE DEF n
<1>7. IsNode(R, r, n)
  BY <1>2, <1>3, <1>4, <1>5, <1>6 DEF IsNode
<1>. QED
  BY <1>3, <1>7 DEF n, p, NodesAt

\* The nodes that one pass of the loop of walkLineage makes.
Extended(h, s, l) == [i \in 1..Len(s) |-> Node(s[i], l, Append(h.path, s[i]))]

\* A node h of the k-th round is extended by the types s that are not in V.
Fresh(R, r, k, h, V, s, nodes) ==
    /\ r \in Types /\ k \in Nat /\ h \in NodesAt(R, r, k) /\ Ball(R, r)[k] \subseteq V
    /\ s \in SetToSeqs(Unseen(R, h.name, V)) /\ nodes = Extended(h, s, k + 1)

\* They are nodes of the next level, one for each neighbour outside V.
Reached(R, r, k, h, V, s, nodes) ==
    /\ nodes \in Seq(NodesAt(R, r, k + 1)) /\ Distinct(nodes)
    /\ Listed(nodes) = Unseen(R, h.name, V) /\ Range(s) = Unseen(R, h.name, V)

\* One pass of the loop of walkLineage adds the right nodes.
LEMMA NewNodes ==
    ASSUME NEW R, NEW r, NEW k, NEW h, NEW V, NEW s, NEW nodes, Fresh(R, r, k, h, V, s, nodes)
    PROVE  Reached(R, r, k, h, V, s, nodes)
<1>. USE DEF Fresh
<1>. DEFINE U == Unseen(R, h.name, V)
            N == Cardinality(U)
<1>1. IsFiniteSet(U)
  <2>1. U \in SUBSET Types
    BY DEF Unseen
  <2>. QED
    BY <2>1, Cardinals, FS_Subset
<1>2. \A u \in U : u \in Types /\ <<h.name, u>> \in R /\ u \notin Ball(R, r)[k]
  BY DEF Unseen
<1>. HIDE DEF U
<1>3. /\ N \in Nat /\ s \in [1..N -> U] /\ Range(s) = U
      /\ \A i, j \in 1..N : s[i] = s[j] => i = j
  BY <1>1, Orders DEF U
<1>. HIDE DEF N
<1>4. Len(s) = N
  BY <1>3
<1>0. nodes = [i \in 1..N |-> Node(s[i], k + 1, Append(h.path, s[i]))]
  BY <1>4, Zenon DEF Extended
<1>5. \A i \in 1..N : nodes[i] = Node(s[i], k + 1, Append(h.path, s[i]))
  BY <1>0
<1>11. DOMAIN nodes = 1..N
  BY <1>0
<1>6. ASSUME NEW i \in 1..N PROVE nodes[i] \in NodesAt(R, r, k + 1)
  <2>1. s[i] \in U
    BY <1>3
  <2>. DEFINE u == s[i]
  <2>2. u \in Types /\ <<h.name, u>> \in R /\ u \notin Ball(R, r)[k]
    BY <1>2, <2>1
  <2>3. nodes[i] = Node(u, k + 1, Append(h.path, u))
    BY <1>5
  <2>. HIDE DEF u
  <2>4. Node(u, k + 1, Append(h.path, u)) \in NodesAt(R, r, k + 1)
    BY <2>2, NewNode
  <2>. QED
    BY <2>3, <2>4, Zenon
<1>7. \A i \in 1..N : nodes[i].name = s[i]
  <2>. SUFFICES ASSUME NEW i \in 1..N PROVE nodes[i].name = s[i]
    OBVIOUS
  <2>. DEFINE p == Append(h.path, s[i])
  <2>1. nodes[i] = Node(s[i], k + 1, p)
    BY <1>5
  <2>. HIDE DEF p
  <2>. QED
    BY <2>1 DEF Node
<1>8. nodes \in Seq(NodesAt(R, r, k + 1))
  <2>1. nodes \in [1..N -> NodesAt(R, r, k + 1)]
    <3>. DEFINE f(i) == Node(s[i], k + 1, Append(h.path, s[i]))
    <3>2. \A i \in 1..N : f(i) \in NodesAt(R, r, k + 1)
      BY <1>5, <1>6
    <3>3. nodes = [i \in 1..N |-> f(i)]
      BY <1>0
    <3>. HIDE DEF f
    <3>. QED
      BY <3>2, <3>3
  <2>. QED
    BY <1>3, <2>1
<1>9. Distinct(nodes)
  BY <1>3, <1>11, <1>7 DEF Distinct
<1>10. Listed(nodes) = U
  <2>1. ASSUME NEW n \in Listed(nodes) PROVE n \in U
    BY <1>3, <1>11, <1>7, <2>1 DEF Listed
  <2>2. ASSUME NEW n \in U PROVE n \in Listed(nodes)
    <3>1. PICK i \in 1..N : s[i] = n
      BY <1>3, <2>2 DEF Range
    <3>. QED
      BY <1>11, <1>7, <3>1 DEF Listed
  <2>. QED
    BY <2>1, <2>2
<1>. QED
  BY <1>3, <1>8, <1>9, <1>10 DEF U, Reached

-----------------------------------------------------------------------------
\* A walk is under way; the walks that have not ended; the last smaller ball; the
\* first nodes of a queue.
Walking == pc \in {"round", "visit"}
Left == IF Walking THEN todo \cup {walk} ELSE todo
Before(B, k) == IF k = 0 THEN {} ELSE B[k - 1]
First(q, k) == {q[i] : i \in 1..k}

\* What is found, what is queued and what is visited while getDependentImpactedSchemas works.
ImpactWalk(R, B, j) ==
    /\ j \in Nat /\ j - 1 <= call.limit
    /\ found \in Seq(Types) /\ queue \in Seq(Types)
    /\ IsInjective(found) /\ IsInjective(queue) /\ Range(found) \cap Range(queue) = {}
    /\ visited = Range(found) \cup Range(queue)
    /\ Succ(R, Range(found)) \subseteq visited
    /\ pc = "round" => Range(found) = Before(B, j) /\ visited = B[j]
    /\ pc = "visit" =>
         /\ j <= call.limit /\ size \in 1..Len(queue)
         /\ Range(found) \cup First(queue, size) = B[j]
         /\ B[j] \subseteq visited /\ visited \subseteq B[j + 1]

\* The same of walkLineage.
LineageWalk(R, r, B) ==
    /\ round \in 0..call.limit
    /\ found \in Seq(NodesTo(R, r, call.limit)) /\ Distinct(found)
    /\ r \in visited /\ Listed(found) = visited \ {r}
    /\ pc = "round" =>
         /\ queue \in Seq(NodesAt(R, r, round)) /\ nextQueue = <<>>
         /\ visited = B[round] /\ B[round] \ Before(B, round) \subseteq Listed(queue)
    /\ pc = "visit" =>
         /\ round # 0 /\ queue # <<>>
         /\ queue \in Seq(NodesAt(R, r, round - 1)) /\ nextQueue \in Seq(NodesAt(R, r, round))
         /\ B[round - 1] \subseteq visited /\ visited \subseteq B[round]
         /\ Succ(R, B[round - 1] \ Listed(queue)) \subseteq visited
         /\ visited \ B[round - 1] \subseteq Listed(nextQueue)

\* The lineage nodes that belong in the answer for direction d.
AnswerNodes(d) ==
    {n \in NodeRecords : \E r \in Roots(call.name) : n \in NodesTo(Relation("lineage", d), r, call.limit)}
\* The roots whose walk in direction d has ended.
Answered(d) == {r \in Roots(call.name) : [root |-> r, dir |-> d] \notin Left}

\* The walk at work is none of those that are left.
Control ==
    /\ pc = "idle" <=> call.op = "none"
    /\ pc = "done" => todo = {}
    /\ Walking => walk.root \in Types /\ walk \notin todo
\* Every updated schema has its impacted schemas or a walk to come; what a walk
\* found is the ball of the depth; the walk at work is on its way to that.
ImpactPart ==
    /\ call.op # "impact" => DOMAIN impacted = {}
    /\ call.op = "impact" =>
         /\ UpdatedSchemas(change) \subseteq DOMAIN impacted \cup {w.root : w \in Left}
         /\ \A r \in DOMAIN impacted :
              Range(impacted[r]) = Ball(ReverseDependencies, r)[call.limit] /\ IsInjective(impacted[r])
         /\ Walking => \A R, B, j :
              R = ReverseDependencies /\ B = Ball(R, walk.root) /\ j = call.limit - round =>
                ImpactWalk(R, B, j)
\* The answer has the balls of the roots whose walk has ended, each without its
\* root; the walk at work is on its way to the next.
LineagePart ==
    /\ call.op # "lineage" => lineage = [d \in Dirs |-> <<>>]
    /\ call.op = "lineage" =>
         /\ Left \subseteq [root : Roots(call.name), dir : call.dirs]
         /\ \A d \in Dirs : lineage[d] \in Seq(AnswerNodes(d)) /\ Distinct(lineage[d])
         /\ \A d \in call.dirs :
              Listed(lineage[d]) =
                UNION {Ball(Relation("lineage", d), r)[call.limit] \ {r} : r \in Answered(d)}
         /\ Walking => \A R, r, B :
              R = Relation("lineage", walk.dir) /\ r = walk.root /\ B = Ball(R, r) => LineageWalk(R, r, B)

\* The inductive invariant.
WInv == TypeOK /\ Control /\ ImpactPart /\ LineagePart

\* Only types are updated.
LEMMA UpdatedTypes == ASSUME NEW c PROVE UpdatedSchemas(c) \subseteq Types
  BY DEF UpdatedSchemas, Types

\* It holds at first.
LEMMA InitWalks == Init => WInv
<1>. SUFFICES ASSUME Init PROVE WInv
  OBVIOUS
<1>. USE DEF Init
<1>1. TypeOK
  <2>1. uses \in SUBSET (Messages \X Types)
    BY GraphsAssumption
  <2>2. call \in [op : {"none", "impact", "lineage"}, limit : Nat,
                  name : Names \cup {<<>>}, dirs : SUBSET Dirs]
    BY DEF NoCall
  <2>3. walk \in [root : Types \cup {<<>>}, dir : Dirs]
    BY DEF NoWalk, Dirs
  <2>4. change \in [Types -> Verdicts]
    BY DEF Verdicts
  <2>. QED
    BY <2>1, <2>2, <2>3, <2>4 DEF TypeOK
<1>2. Control
  BY DEF Control, NoCall, Walking
<1>3. ImpactPart
  BY DEF ImpactPart, NoCall
<1>4. LineagePart
  BY DEF LineagePart, NoCall
<1>. QED
  BY <1>1, <1>2, <1>3, <1>4 DEF WInv

-----------------------------------------------------------------------------
\* One pass of the loop of getDependentImpactedSchemas: the head of the queue
\* goes to the end of what is found, new types s to the end of the queue.
Movable(T, f, q, s, k) ==
    /\ f \in Seq(T) /\ q \in Seq(T) /\ q # <<>> /\ s \in Seq(T)
    /\ IsInjective(f) /\ IsInjective(q) /\ IsInjective(s)
    /\ Range(f) \cap Range(q) = {} /\ Range(s) \cap (Range(f) \cup Range(q)) = {}
    /\ k \in 1..Len(q)
\* What is found and what is queued afterwards; the first k types of the queue
\* that belong to the round are one fewer.
Moved(T, f, q, s, k, g, p) ==
    /\ g \in Seq(T) /\ p \in Seq(T) /\ IsInjective(g) /\ IsInjective(p)
    /\ Range(g) = Range(f) \cup {Head(q)} /\ Range(g) \cap Range(p) = {}
    /\ Range(g) \cup Range(p) = Range(f) \cup Range(q) \cup Range(s)
    /\ Head(q) \in First(q, k) /\ Head(q) \in T
    /\ Range(g) \cup First(p, k - 1) = Range(f) \cup First(q, k)
    /\ k - 1 <= Len(p) /\ Len(p) \in Nat

\* One pass moves the head and keeps everything listed once.
LEMMA QueueMoves ==
    ASSUME NEW T, NEW f, NEW q, NEW s, NEW k, Movable(T, f, q, s, k),
           NEW g, g = Append(f, Head(q)), NEW p, p = Tail(q) \o s
    PROVE  Moved(T, f, q, s, k, g, p)
<1>. USE DEF Movable
<1>. DEFINE h == Head(q)
<1>1. /\ Len(f) \in Nat /\ DOMAIN f = 1..Len(f) /\ g \in Seq(T) /\ DOMAIN g = 1..(Len(f) + 1)
      /\ g[Len(f) + 1] = h /\ \A i \in 1..Len(f) : g[i] = f[i]
  OBVIOUS
<1>2. /\ Len(q) \in Nat \ {0} /\ DOMAIN q = 1..Len(q) /\ h = q[1] /\ h \in T
      /\ Len(s) \in Nat /\ DOMAIN s = 1..Len(s)
  OBVIOUS
<1>3. /\ p \in Seq(T) /\ Len(p) = Len(q) - 1 + Len(s)
      /\ DOMAIN p = 1..(Len(q) - 1 + Len(s))
      /\ \A i \in 1..(Len(q) - 1) : p[i] = q[i + 1]
      /\ \A i \in Len(q)..(Len(q) - 1 + Len(s)) : p[i] = s[i - (Len(q) - 1)]
  OBVIOUS
<1>. HIDE DEF h
<1>. SUFFICES /\ IsInjective(g) /\ IsInjective(p)
              /\ Range(g) = Range(f) \cup {h} /\ Range(g) \cap Range(p) = {}
              /\ Range(g) \cup Range(p) = Range(f) \cup Range(q) \cup Range(s)
              /\ h \in First(q, k)
              /\ Range(g) \cup First(p, k - 1) = Range(f) \cup First(q, k)
  BY <1>1, <1>2, <1>3 DEF h, Moved
<1>4. /\ \A i, j \in DOMAIN f : f[i] = f[j] => i = j
      /\ \A i, j \in DOMAIN q : q[i] = q[j] => i = j
      /\ \A i, j \in DOMAIN s : s[i] = s[j] => i = j
  BY DEF IsInjective
<1>5. /\ \A i \in DOMAIN f, j \in DOMAIN q : f[i] # q[j]
      /\ \A i \in DOMAIN s, j \in DOMAIN q : s[i] # q[j]
      /\ \A i \in DOMAIN s, j \in DOMAIN f : s[i] # f[j]
  BY DEF Range
<1>6. IsInjective(g)
  <2>. SUFFICES ASSUME NEW i \in 1..(Len(f) + 1), NEW j \in 1..(Len(f) + 1), g[i] = g[j]
                PROVE  i = j
    BY <1>1 DEF IsInjective
  <2>1. 1 \in DOMAIN q
    BY <1>2
  <2>2. \A x \in 1..Len(f) : x \in DOMAIN f /\ g[x] = f[x] /\ g[x] # h
    BY <1>1, <1>2, <1>5, <2>1
  <2>3. \A x \in 1..(Len(f) + 1) : x \in 1..Len(f) \/ x = Len(f) + 1
    BY <1>1
  <2>4. CASE i \in 1..Len(f) /\ j \in 1..Len(f)
    BY <1>4, <2>2, <2>4
  <2>. QED
    BY <1>1, <2>2, <2>3, <2>4
<1>7. \A i \in DOMAIN p : \/ i + 1 \in DOMAIN q /\ i + 1 # 1 /\ p[i] = q[i + 1]
                          \/ /\ i > Len(q) - 1 /\ i - (Len(q) - 1) \in DOMAIN s
                             /\ p[i] = s[i - (Len(q) - 1)]
  <2>. SUFFICES ASSUME NEW i \in 1..(Len(q) - 1 + Len(s))
                PROVE  \/ i + 1 \in DOMAIN q /\ i + 1 # 1 /\ p[i] = q[i + 1]
                       \/ /\ i > Len(q) - 1 /\ i - (Len(q) - 1) \in DOMAIN s
                          /\ p[i] = s[i - (Len(q) - 1)]
    BY <1>3
  <2>1. CASE i <= Len(q) - 1
    <3>1. i \in 1..(Len(q) - 1) /\ i + 1 \in 1..Len(q) /\ i + 1 # 1
      BY <1>2, <2>1
    <3>. QED
      BY <1>2, <1>3, <3>1
  <2>2. CASE ~(i <= Len(q) - 1)
    <3>1. /\ i \in Len(q)..(Len(q) - 1 + Len(s)) /\ i > Len(q) - 1
          /\ i - (Len(q) - 1) \in 1..Len(s)
      BY <1>2, <2>2
    <3>. QED
      BY <1>2, <1>3, <3>1
  <2>. QED
    BY <2>1, <2>2
<1>8. IsInjective(p)
  <2>. SUFFICES ASSUME NEW i \in DOMAIN p, NEW j \in DOMAIN p, p[i] = p[j] PROVE i = j
    BY DEF IsInjective
  <2>0. i \in Int /\ j \in Int
    BY <1>2, <1>3
  <2>1. CASE p[i] = q[i + 1] /\ i + 1 \in DOMAIN q /\ p[j] = q[j + 1] /\ j + 1 \in DOMAIN q
    <3>1. i + 1 = j + 1
      BY <1>4, <2>1
    <3>. QED
      BY <2>0, <3>1
  <2>2. CASE /\ i - (Len(q) - 1) \in DOMAIN s /\ p[i] = s[i - (Len(q) - 1)]
             /\ j - (Len(q) - 1) \in DOMAIN s /\ p[j] = s[j - (Len(q) - 1)]
    <3>1. i - (Len(q) - 1) = j - (Len(q) - 1)
      BY <1>4, <2>2
    <3>. QED
      BY <1>2, <2>0, <3>1
  <2>. DEFINE a == i + 1
              b == j + 1
              x == i - (Len(q) - 1)
              y == j - (Len(q) - 1)
  <2>3. \/ a \in DOMAIN q /\ p[i] = q[a]
        \/ x \in DOMAIN s /\ p[i] = s[x]
    BY <1>7
  <2>4. \/ b \in DOMAIN q /\ p[j] = q[b]
        \/ y \in DOMAIN s /\ p[j] = s[y]
    BY <1>7
  <2>6. \/ p[i] = q[a] /\ a \in DOMAIN q /\ p[j] = q[b] /\ b \in DOMAIN q
        \/ x \in DOMAIN s /\ p[i] = s[x] /\ y \in DOMAIN s /\ p[j] = s[y]
    <3>. HIDE DEF a, b, x, y
    <3>. QED
      BY <1>5, <2>3, <2>4
  <2>. QED
    BY <2>1, <2>2, <2>6
<1>9. Range(g) = Range(f) \cup {h}
  <2>1. \A i \in DOMAIN g : g[i] \in Range(f) \cup {h}
    BY <1>1 DEF Range
  <2>2. \A i \in DOMAIN f : i \in DOMAIN g /\ g[i] = f[i]
    BY <1>1
  <2>3. Len(f) + 1 \in DOMAIN g
    BY <1>1
  <2>4. h \in Range(g)
    BY <1>1, <2>3 DEF Range
  <2>. QED
    BY <2>1, <2>2, <2>4 DEF Range
<1>10. \A i \in DOMAIN q : i # 1 => i - 1 \in DOMAIN p /\ p[i - 1] = q[i]
  BY <1>2, <1>3
<1>11. \A i \in DOMAIN s : i + (Len(q) - 1) \in DOMAIN p /\ p[i + (Len(q) - 1)] = s[i]
  BY <1>2, <1>3
<1>12. Range(p) = (Range(q) \ {h}) \cup Range(s)
  <2>1. ASSUME NEW x \in Range(p) PROVE x \in (Range(q) \ {h}) \cup Range(s)
    <3>1. PICK i \in DOMAIN p : x = p[i]
      BY <2>1 DEF Range
    <3>2. CASE i + 1 \in DOMAIN q /\ i + 1 # 1 /\ p[i] = q[i + 1]
      <4>1. x \in Range(q)
        BY <3>1, <3>2 DEF Range
      <4>. DEFINE m == i + 1
      <4>2. m \in DOMAIN q /\ m # 1 /\ x = q[m]
        BY <3>1, <3>2
      <4>0. 1 \in DOMAIN q /\ h = q[1]
        BY <1>2
      <4>. HIDE DEF m
      <4>3. x # h
        BY <1>4, <4>0, <4>2, Zenon
      <4>. QED
        BY <4>1, <4>3
    <3>3. CASE i - (Len(q) - 1) \in DOMAIN s /\ p[i] = s[i - (Len(q) - 1)]
      BY <3>1, <3>3 DEF Range
    <3>. QED
      BY <1>7, <3>2, <3>3
  <2>2. ASSUME NEW x \in Range(q), x # h PROVE x \in Range(p)
    <3>1. PICK i \in DOMAIN q : x = q[i]
      BY <2>2 DEF Range
    <3>2. i # 1
      BY <1>2, <2>2, <3>1
    <3>3. i - 1 \in DOMAIN p /\ p[i - 1] = x
      BY <1>10, <3>1, <3>2
    <3>. QED
      BY <3>3 DEF Range
  <2>3. ASSUME NEW x \in Range(s) PROVE x \in Range(p)
    <3>1. PICK i \in DOMAIN s : x = s[i]
      BY <2>3 DEF Range
    <3>3. i + (Len(q) - 1) \in DOMAIN p /\ p[i + (Len(q) - 1)] = x
      BY <1>11, <3>1
    <3>. QED
      BY <3>3 DEF Range
  <2>. QED
    BY <2>1, <2>2, <2>3
<1>13. h \in Range(q)
  <2>1. 1 \in DOMAIN q /\ h = q[1]
    BY <1>2
  <2>. QED
    BY <2>1, Zenon DEF Range
<1>14. Range(g) \cap Range(p) = {}
  BY <1>9, <1>12, <1>13
<1>15. Range(g) \cup Range(p) = Range(f) \cup Range(q) \cup Range(s)
  BY <1>9, <1>12, <1>13
<1>16. h \in First(q, k)
  BY <1>2 DEF First
<1>17. First(q, k) = {h} \cup First(p, k - 1)
  <2>1. ASSUME NEW x \in First(q, k) PROVE x \in {h} \cup First(p, k - 1)
    <3>1. PICK i \in 1..k : x = q[i]
      BY <2>1 DEF First
    <3>2. CASE i # 1
      <4>1. i - 1 \in 1..(k - 1) /\ p[i - 1] = x
        BY <1>3, <3>1, <3>2
      <4>. QED
        BY <4>1 DEF First
    <3>. QED
      BY <1>2, <3>1, <3>2
  <2>2. ASSUME NEW x \in First(p, k - 1) PROVE x \in First(q, k)
    <3>1. PICK i \in 1..(k - 1) : x = p[i]
      BY <2>2 DEF First
    <3>2. i + 1 \in 1..k /\ q[i + 1] = x
      BY <1>3, <3>1
    <3>. QED
      BY <3>2 DEF First
  <2>. QED
    BY <1>16, <2>1, <2>2
<1>18. Range(g) \cup First(p, k - 1) = Range(f) \cup First(q, k)
  BY <1>9, <1>17
<1>. QED
  BY <1>6, <1>8, <1>9, <1>14, <1>15, <1>16, <1>18

-----------------------------------------------------------------------------
\* A search does not change the graph that it searches.
LEMMA SameRelations ==
    ASSUME UNCHANGED <<uses, call>>
    PROVE  /\ ReverseDependencies' = ReverseDependencies
           /\ \A o, d : Relation(o, d)' = Relation(o, d)
  BY DEF ReverseDependencies, Relation, ReverseDeps, ForwardDeps

\* The change detector always follows the reverse dependencies.
LEMMA ImpactRelation == \A d : Relation("impact", d) = ReverseDependencies
  BY DEF Relation

\* Each action keeps the inductive invariant; first those of the change detector.
LEMMA IdentifyKeeps == WInv /\ IdentifySchemaChange => WInv'
<1>. SUFFICES ASSUME WInv, IdentifySchemaChange PROVE WInv'
  OBVIOUS
<1>. USE DEF WInv
<1>1. PICK d \in Depths : call' =
        [op |-> "impact", limit |-> IF d < 0 THEN MaxInt32 ELSE d, name |-> <<>>, dirs |-> {}]
  BY DEF IdentifySchemaChange
<1>2. /\ change' \in Changes /\ pc = "idle" /\ pc' = "next"
      /\ todo' = {[root |-> u, dir |-> "downstream"] : u \in UpdatedSchemas(change')}
      /\ UNCHANGED <<uses, walk, search, impacted, lineage>>
  BY DEF IdentifySchemaChange
<1>3. call'.op = "impact" /\ call.op = "none"
  BY <1>1, <1>2 DEF NoCall, Control
<1>4. TypeOK'
  <2>1. call' \in [op : {"none", "impact", "lineage"}, limit : Nat,
                   name : Names \cup {<<>>}, dirs : SUBSET Dirs]
    <3>1. d \in Int
      BY BoundsAssumption
    <3>. QED
      BY <1>1, <3>1 DEF NoCall, MaxInt32
  <2>2. change' \in [Types -> Verdicts]
    BY <1>2, ChangesAssumption
  <2>3. todo' \in SUBSET [root : Types, dir : Dirs]
    BY <1>2, UpdatedTypes DEF Dirs
  <2>. QED
    BY <1>2, <2>1, <2>2, <2>3 DEF TypeOK, search
<1>5. Control'
  BY <1>2, <1>3 DEF Control, Walking
<1>6. ImpactPart'
  <2>1. DOMAIN impacted = {}
    BY <1>3 DEF ImpactPart
  <2>2. UpdatedSchemas(change') \subseteq {w.root : w \in todo'}
    <3>. SUFFICES ASSUME NEW u \in UpdatedSchemas(change') PROVE \E w \in todo' : u = w.root
      OBVIOUS
    <3>1. [root |-> u, dir |-> "downstream"] \in todo'
      BY <1>2
    <3>. QED
      BY <3>1
  <2>. QED
    BY <1>2, <1>3, <2>1, <2>2 DEF ImpactPart, Left, Walking
<1>7. LineagePart'
  BY <1>2, <1>3 DEF LineagePart
<1>. QED
  BY <1>4, <1>5, <1>6, <1>7

LEMMA StartImpactKeeps == WInv /\ StartImpact => WInv'
<1>. SUFFICES ASSUME WInv, StartImpact PROVE WInv'
  OBVIOUS
<1>. USE DEF WInv
<1>1. PICK w \in todo : Begin(w, w.root) /\ todo' = todo \ {w}
  BY DEF StartImpact
<1>2. /\ call.op = "impact" /\ round' = call.limit /\ pc = "next" /\ pc' = "round"
      /\ UNCHANGED <<uses, change, call, impacted, lineage>>
  BY DEF StartImpact
<1>3. /\ walk' = w /\ visited' = {w.root} /\ queue' = <<w.root>> /\ nextQueue' = <<>>
      /\ size' = 0 /\ found' = <<>>
  BY <1>1 DEF Begin
<1>4. w.root \in Types /\ w.dir \in Dirs /\ w \in [root : Types, dir : Dirs] /\ call.limit \in Nat
  BY DEF TypeOK
<1>5. TypeOK'
  BY <1>1, <1>2, <1>3, <1>4 DEF TypeOK
<1>6. Control'
  BY <1>1, <1>2, <1>3, <1>4 DEF Control, Walking
<1>7. ImpactPart'
  <2>1. ReverseDependencies' = ReverseDependencies
    BY <1>2, SameRelations
  <2>2. ASSUME NEW R, NEW B, NEW j, R = ReverseDependencies', B = Ball(R, walk'.root),
                      j = call'.limit - round'
        PROVE  ImpactWalk(R, B, j)'
    <3>1. B[0] = {w.root} /\ j = 0
      BY <1>2, <1>3, <1>4, <2>2, BallSteps
    <3>2. Succ(R, {}) = {}
      BY DEF Succ
    <3>3. Range(<<>>) = {} /\ Range(<<w.root>>) = {w.root} /\ IsInjective(<<>>) /\ IsInjective(<<w.root>>)
      BY DEF Range, IsInjective
    <3>4. found' \in Seq(Types) /\ queue' \in Seq(Types)
      BY <1>3, <1>4
    <3>5. Range(found') = {} /\ Range(queue') = {w.root} /\ IsInjective(found') /\ IsInjective(queue')
      BY <1>3, <3>3
    <3>6. visited' = {w.root} /\ pc' = "round" /\ pc' # "visit" /\ call' = call
      BY <1>2, <1>3
    <3>7. Before(B, j) = {} /\ j \in Nat /\ j - 1 <= call.limit
      BY <1>4, <3>1 DEF Before
    <3>. QED
      BY <3>1, <3>2, <3>4, <3>5, <3>6, <3>7 DEF ImpactWalk
  <2>3. Left' = Left
    BY <1>1, <1>2, <1>3 DEF Left, Walking
  <2>. QED
    BY <1>2, <2>1, <2>2, <2>3 DEF ImpactPart
<1>8. LineagePart'
  BY <1>2 DEF LineagePart
<1>. QED
  BY <1>5, <1>6, <1>7, <1>8

LEMMA ImpactRoundKeeps == WInv /\ ImpactRound => WInv'
<1>. SUFFICES ASSUME WInv, ImpactRound PROVE WInv'
  OBVIOUS
<1>. USE DEF WInv
<1>1. /\ pc = "round" /\ pc' = "visit" /\ call.op = "impact" /\ queue # <<>> /\ round >= 0
      /\ size' = Len(queue)
      /\ UNCHANGED <<uses, change, call, todo, walk, visited, queue, nextQueue, round, found, impacted,
                     lineage>>
  BY DEF ImpactRound, MoreImpact
<1>2. walk.root \in Types /\ Walking /\ Walking'
  BY <1>1 DEF Control, Walking
<1>3. ASSUME NEW R, NEW B, NEW j, R = ReverseDependencies, B = Ball(R, walk.root), j = call.limit - round
      PROVE  ImpactWalk(R, B, j)' /\ Len(queue) \in Nat
  <2>1. ImpactWalk(R, B, j)
    BY <1>1, <1>2, <1>3 DEF ImpactPart
  <2>2. /\ j \in Nat /\ j - 1 <= call.limit /\ found \in Seq(Types) /\ queue \in Seq(Types)
        /\ Range(found) \cap Range(queue) = {}
        /\ visited = Range(found) \cup Range(queue) /\ visited = B[j]
    BY <1>1, <2>1 DEF ImpactWalk
  <2>3. call.limit \in Nat /\ round \in Int
    BY DEF TypeOK
  <2>4. j <= call.limit
    BY <1>1, <1>3, <2>3
  <2>5. Len(queue) \in Nat /\ Len(queue) # 0
    BY <1>1, <2>2
  <2>6. First(queue, Len(queue)) = Range(queue)
    BY <2>2 DEF First, Range
  <2>7. B[j] \subseteq B[j + 1]
    BY <1>2, <1>3, <2>2, BallSteps
  <2>8. size' \in 1..Len(queue) /\ First(queue, size') = Range(queue)
    BY <1>1, <2>5, <2>6
  <2>9. Range(found) \cup First(queue, size') = B[j] /\ B[j] \subseteq visited /\ visited \subseteq B[j + 1]
    BY <2>2, <2>7, <2>8
  <2>10. /\ call' = call /\ found' = found /\ queue' = queue /\ visited' = visited
         /\ pc' # "round"
    BY <1>1
  <2>. QED
    BY <2>1, <2>2, <2>4, <2>5, <2>8, <2>9, <2>10 DEF ImpactWalk
<1>4. TypeOK'
  <2>1. size' \in Nat
    BY <1>1, <1>3
  <2>. QED
    BY <1>1, <2>1 DEF TypeOK
<1>5. Control'
  BY <1>1, <1>2 DEF Control
<1>6. ImpactPart'
  <2>1. ReverseDependencies' = ReverseDependencies /\ Left' = Left
    BY <1>1, <1>2, SameRelations DEF Left
  <2>2. ASSUME NEW R, NEW B, NEW j, R = ReverseDependencies', B = Ball(R, walk'.root),
                      j = call'.limit - round'
        PROVE  ImpactWalk(R, B, j)'
    <3>1. R = ReverseDependencies /\ B = Ball(R, walk.root) /\ j = call.limit - round
      BY <1>1, <2>1, <2>2
    <3>. QED
      BY <1>3, <3>1
  <2>. QED
    BY <1>1, <2>1, <2>2 DEF ImpactPart
<1>7. LineagePart'
  BY <1>1 DEF LineagePart
<1>. QED
  BY <1>4, <1>5, <1>6, <1>7

\* The last visit of a round completes the next ball.
LEMMA ImpactVisitKeeps == WInv /\ ImpactVisit => WInv'
<1>. SUFFICES ASSUME WInv, ImpactVisit PROVE WInv'
  OBVIOUS
<1>. USE DEF WInv
<1>1. /\ pc = "visit" /\ call.op = "impact" /\ size' = size - 1
      /\ found' = Append(found, Head(queue))
      /\ IF size = 1 THEN pc' = "round" /\ round' = round - 1 ELSE pc' = pc /\ round' = round
      /\ UNCHANGED <<uses, change, call, todo, walk, nextQueue, impacted, lineage>>
  BY DEF ImpactVisit
<1>2. /\ walk.root \in Types /\ Walking /\ Walking' /\ queue # <<>> /\ call.limit \in Nat
      /\ size \in Nat /\ round \in Int /\ visited \subseteq Types
  BY <1>1 DEF Control, Walking, TypeOK
<1>3. PICK R, B, i : R = ReverseDependencies /\ B = Ball(R, walk.root) /\ i = call.limit - round
  OBVIOUS
<1>. DEFINE h == Head(queue)
            U == Unseen(R, h, visited)
<1>4. PICK s \in SetToSeqs(U) : queue' = Tail(queue) \o s /\ visited' = visited \cup Range(s)
  <2>1. Neighbours(h) = SetToSeqs(U)
    BY <1>1, <1>3, ImpactRelation DEF Neighbours, Unseen
  <2>2. \E s \in Neighbours(h) : queue' = Tail(queue) \o s /\ visited' = visited \cup Range(s)
    BY DEF ImpactVisit
  <2>. HIDE DEF h, U
  <2>. QED
    BY <2>1, <2>2
<1>5. /\ i \in Nat /\ i <= call.limit /\ found \in Seq(Types) /\ queue \in Seq(Types)
      /\ IsInjective(found) /\ IsInjective(queue) /\ Range(found) \cap Range(queue) = {}
      /\ visited = Range(found) \cup Range(queue) /\ Succ(R, Range(found)) \subseteq visited
      /\ size \in 1..Len(queue) /\ Range(found) \cup First(queue, size) = B[i]
      /\ B[i] \subseteq visited /\ visited \subseteq B[i + 1]
  <2>1. ImpactWalk(R, B, i)
    BY <1>1, <1>2, <1>3 DEF ImpactPart
  <2>. QED
    BY <1>1, <2>1 DEF ImpactWalk
<1>6. s \in Seq(Types) /\ IsInjective(s) /\ Range(s) = U
  <2>1. U \in SUBSET Types
    BY DEF Unseen
  <2>. HIDE DEF U
  <2>2. IsFiniteSet(U)
    BY <2>1, Cardinals, FS_Subset
  <2>3. /\ Cardinality(U) \in Nat /\ s \in [1..Cardinality(U) -> U] /\ Range(s) = U
        /\ \A a, b \in 1..Cardinality(U) : s[a] = s[b] => a = b
    BY <2>2, Orders
  <2>4. s \in Seq(U) /\ DOMAIN s = 1..Cardinality(U)
    BY <2>3
  <2>5. s \in Seq(Types)
    BY <2>1, <2>4
  <2>. QED
    BY <2>3, <2>4, <2>5 DEF IsInjective
<1>7. \A u : u \in U <=> u \in Types /\ <<h, u>> \in R /\ u \notin visited
  BY DEF Unseen
<1>8. /\ found' \in Seq(Types) /\ queue' \in Seq(Types) /\ IsInjective(found') /\ IsInjective(queue')
      /\ Range(found') = Range(found) \cup {h} /\ Range(found') \cap Range(queue') = {}
      /\ Range(found') \cup Range(queue') = Range(found) \cup Range(queue) \cup Range(s)
      /\ h \in First(queue, size) /\ h \in Types
      /\ Range(found') \cup First(queue', size - 1) = Range(found) \cup First(queue, size)
      /\ size - 1 <= Len(queue') /\ Len(queue') \in Nat
  <2>1. Range(s) \cap (Range(found) \cup Range(queue)) = {}
    BY <1>5, <1>6, <1>7
  <2>. HIDE DEF U
  <2>2. Movable(Types, found, queue, s, size)
    BY <1>2, <1>5, <1>6, <2>1 DEF Movable
  <2>3. PICK f, q, g, p : f = found /\ q = queue /\ g = found' /\ p = queue'
    OBVIOUS
  <2>4. Movable(Types, f, q, s, size) /\ g = Append(f, Head(q)) /\ p = Tail(q) \o s
    BY <1>1, <1>4, <2>2, <2>3
  <2>5. Moved(Types, f, q, s, size, g, p)
    BY <2>4, QueueMoves, Zenon
  <2>. QED
    BY <2>3, <2>5 DEF h, Moved
<1>. HIDE DEF h, U
<1>9. visited' = visited \cup U /\ visited' = Range(found') \cup Range(queue')
  BY <1>4, <1>5, <1>6, <1>8
<1>10. Succ(R, Range(found')) \subseteq visited'
  <2>. SUFFICES ASSUME NEW u \in Types, NEW t \in Range(found'), <<t, u>> \in R PROVE u \in visited'
    BY DEF Succ
  <2>1. CASE t = h
    BY <1>7, <1>9, <2>1
  <2>2. CASE t \in Range(found)
    <3>1. u \in Succ(R, Range(found))
      BY <2>2 DEF Succ
    <3>. QED
      BY <1>5, <1>9, <3>1
  <2>. QED
    BY <1>8, <2>1, <2>2
<1>11. B[i + 1] = B[i] \cup Succ(R, B[i])
  BY <1>2, <1>3, <1>5, BallSteps
<1>12. visited' \subseteq B[i + 1] /\ B[i] \subseteq visited'
  <2>1. U \subseteq Succ(R, B[i])
    BY <1>5, <1>7, <1>8 DEF Succ
  <2>. QED
    BY <1>5, <1>9, <1>11, <2>1
<1>13. ASSUME NEW j, j = call.limit - round' PROVE ImpactWalk(R, B, j)'
  <2>1. CASE size = 1
    <3>1. j = i + 1 /\ pc' = "round" /\ pc' # "visit" /\ call' = call
      BY <1>1, <1>2, <1>3, <1>13, <2>1
    <3>2. j \in Nat /\ j - 1 = i /\ j # 0 /\ j - 1 <= call.limit
      BY <1>2, <1>5, <3>1
    <3>3. First(queue', size - 1) = {}
      BY <2>1 DEF First
    <3>4. Range(found') = Before(B, j)
      BY <1>5, <1>8, <3>2, <3>3 DEF Before
    <3>5. Succ(R, B[i]) \subseteq visited'
      BY <1>10, <3>2, <3>4 DEF Before
    <3>6. visited' = B[j]
      BY <1>11, <1>12, <3>1, <3>5
    <3>. QED
      BY <1>8, <1>9, <1>10, <3>1, <3>2, <3>4, <3>6 DEF ImpactWalk
  <2>2. CASE size # 1
    <3>1. j = i /\ pc' = "visit" /\ pc' # "round" /\ call' = call
      BY <1>1, <1>2, <1>3, <1>13, <2>2
    <3>2. size' \in 1..Len(queue') /\ j - 1 <= call.limit
      <4>1. size \in Nat \ {0} /\ size' = size - 1
        BY <1>1, <1>2, <1>5
      <4>2. size' \in Nat /\ size' # 0 /\ size' <= Len(queue')
        BY <1>8, <2>2, <4>1
      <4>. QED
        BY <1>2, <1>5, <1>8, <3>1, <4>2
    <3>3. Range(found') \cup First(queue', size') = B[j]
      BY <1>1, <1>5, <1>8, <3>1
    <3>. QED
      BY <1>5, <1>8, <1>9, <1>10, <1>12, <3>1, <3>2, <3>3 DEF ImpactWalk
  <2>. QED
    BY <2>1, <2>2
<1>14. TypeOK'
  <2>1. visited' \subseteq Types
    BY <1>2, <1>7, <1>9
  <2>2. size' \in Nat /\ round' \in Int
    BY <1>1, <1>2, <1>5
  <2>3. pc' = "visit" => queue' # <<>>
    <3>1. ASSUME NEW n, n = Len(queue'), n \in Nat, size - 1 <= n, size # 1 PROVE n # 0
      <4>1. size \in Nat /\ size >= 1
        BY <1>5
      <4>. QED
        BY <3>1, <4>1
    <3>2. pc' = "visit" => Len(queue') # 0
      BY <1>1, <1>8, <3>1
    <3>. QED
      BY <3>2
  <2>. QED
    BY <1>1, <2>1, <2>2, <2>3 DEF TypeOK
<1>15. Control'
  BY <1>1, <1>2 DEF Control
<1>16. ImpactPart'
  <2>1. ReverseDependencies' = ReverseDependencies /\ Left' = Left
    BY <1>1, <1>2, SameRelations DEF Left
  <2>2. ASSUME NEW S, NEW C, NEW j, S = ReverseDependencies', C = Ball(S, walk'.root),
                      j = call'.limit - round'
        PROVE  ImpactWalk(S, C, j)'
    <3>1. S = R /\ C = B /\ j = call.limit - round'
      BY <1>1, <1>3, <2>1, <2>2
    <3>. QED
      BY <1>13, <3>1
  <2>. QED
    BY <1>1, <2>1, <2>2 DEF ImpactPart
<1>17. LineagePart'
  BY <1>1 DEF LineagePart
<1>. QED
  BY <1>14, <1>15, <1>16, <1>17

\* The search ends when the depth is used up or the ball is closed: either way
\* what is found is the ball of the depth.
LEMMA ImpactDoneKeeps == WInv /\ ImpactDone => WInv'
<1>. SUFFICES ASSUME WInv, ImpactDone PROVE WInv'
  OBVIOUS
<1>. USE DEF WInv
<1>1. /\ pc = "round" /\ pc' = "next" /\ call.op = "impact" /\ (queue = <<>> \/ ~(round >= 0))
      /\ UNCHANGED <<uses, change, call, todo, walk, lineage>> /\ UNCHANGED search
  BY DEF ImpactDone, MoreImpact
<1>2. impacted' = [r \in DOMAIN impacted \cup {walk.root} |->
                      IF r = walk.root THEN found ELSE impacted[r]]
  BY DEF ImpactDone
<1>3. walk.root \in Types /\ Walking /\ ~Walking' /\ call.limit \in Nat /\ round \in Int
  BY <1>1 DEF Control, Walking, TypeOK
<1>4. PICK R, B, j : R = ReverseDependencies /\ B = Ball(R, walk.root) /\ j = call.limit - round
  OBVIOUS
<1>5. /\ j \in Nat /\ j - 1 <= call.limit /\ found \in Seq(Types) /\ IsInjective(found)
      /\ visited = Range(found) \cup Range(queue)
      /\ Succ(R, Range(found)) \subseteq visited
      /\ Range(found) = Before(B, j) /\ visited = B[j]
  <2>1. ImpactWalk(R, B, j)
    BY <1>1, <1>3, <1>4 DEF ImpactPart
  <2>. QED
    BY <1>1, <2>1 DEF ImpactWalk
<1>6. Range(found) = B[call.limit]
  <2>1. CASE ~(round >= 0)
    <3>1. j # 0 /\ j - 1 = call.limit
      BY <1>3, <1>4, <1>5, <2>1
    <3>. QED
      BY <1>5, <3>1 DEF Before
  <2>2. CASE queue = <<>>
    <3>1. Range(queue) = {}
      BY <2>2 DEF Range
    <3>2. B[0] = {walk.root}
      BY <1>3, <1>4, BallSteps
    <3>3. j # 0
      BY <1>5, <3>1, <3>2 DEF Before
    <3>4. j - 1 \in Nat /\ j - 1 <= call.limit
      BY <1>5, <3>3
    <3>5. Range(found) = B[j - 1] /\ Succ(R, B[j - 1]) \subseteq B[j - 1]
      BY <1>5, <3>1, <3>3 DEF Before
    <3>. DEFINE m == j - 1
    <3>6. m \in Nat /\ m <= call.limit /\ Range(found) = B[m] /\ Succ(R, B[m]) \subseteq B[m]
      BY <3>4, <3>5
    <3>. HIDE DEF m
    <3>. QED
      BY <1>3, <1>4, <3>6, BallStands
  <2>. QED
    BY <1>1, <2>1, <2>2
<1>7. TypeOK'
  <2>1. DOMAIN impacted' \subseteq Types
    BY <1>2, <1>3 DEF TypeOK
  <2>. QED
    BY <1>1, <2>1 DEF TypeOK, search
<1>8. Control'
  BY <1>1, <1>3 DEF Control
<1>9. ImpactPart'
  <2>1. ReverseDependencies' = ReverseDependencies
    BY <1>1, SameRelations
  <2>2. DOMAIN impacted' = DOMAIN impacted \cup {walk.root}
    BY <1>2
  <2>3. Left = todo \cup {walk} /\ Left' = todo
    BY <1>1, <1>3 DEF Left
  <2>4. UpdatedSchemas(change) \subseteq DOMAIN impacted' \cup {w.root : w \in Left'}
    <3>1. UpdatedSchemas(change) \subseteq DOMAIN impacted \cup {w.root : w \in Left}
      BY <1>1 DEF ImpactPart
    <3>. QED
      BY <2>2, <2>3, <3>1
  <2>5. ASSUME NEW r \in DOMAIN impacted'
        PROVE  Range(impacted'[r]) = Ball(R, r)[call.limit] /\ IsInjective(impacted'[r])
    <3>1. CASE r = walk.root
      <4>1. impacted'[r] = found
        BY <1>2, <2>2, <3>1
      <4>. QED
        BY <1>4, <1>5, <1>6, <3>1, <4>1
    <3>2. CASE r # walk.root
      <4>1. r \in DOMAIN impacted /\ impacted'[r] = impacted[r]
        BY <1>2, <2>2, <3>2
      <4>2. Range(impacted[r]) = Ball(R, r)[call.limit] /\ IsInjective(impacted[r])
        BY <1>1, <1>4, <4>1 DEF ImpactPart
      <4>. QED
        BY <4>1, <4>2
    <3>. QED
      BY <3>1, <3>2
  <2>. QED
    BY <1>1, <1>3, <1>4, <2>1, <2>4, <2>5 DEF ImpactPart
<1>10. LineagePart'
  BY <1>1 DEF LineagePart
<1>. QED
  BY <1>7, <1>8, <1>9, <1>10

-----------------------------------------------------------------------------
\* The actions of the lineage search.
LEMMA GetLineageKeeps == WInv /\ GetLineage => WInv'
<1>. SUFFICES ASSUME WInv, GetLineage PROVE WInv'
  OBVIOUS
<1>. USE DEF WInv
<1>1. PICK n \in Names, l \in Levels, ds \in {{d} : d \in Dirs} \cup {Dirs} :
        /\ call' = [op |-> "lineage", limit |-> IF l <= 0 THEN 10 ELSE l, name |-> n, dirs |-> ds]
        /\ todo' = [root : Roots(n), dir : ds]
  BY DEF GetLineage
<1>2. /\ pc = "idle" /\ pc' = "next"
      /\ UNCHANGED <<uses, change, walk, impacted, lineage>> /\ UNCHANGED search
  BY DEF GetLineage
<1>3. /\ call'.op = "lineage" /\ call'.name = n /\ call'.dirs = ds /\ call.op = "none"
      /\ l \in Int /\ ds \subseteq Dirs
  BY <1>1, <1>2, BoundsAssumption DEF Control
<1>4. ~Walking' /\ Left' = todo'
  BY <1>2 DEF Walking, Left
<1>5. TypeOK'
  <2>1. call' \in [op : {"none", "impact", "lineage"}, limit : Nat,
                   name : Names \cup {<<>>}, dirs : SUBSET Dirs]
    BY <1>1, <1>3
  <2>2. todo' \in SUBSET [root : Types, dir : Dirs]
    BY <1>1, <1>3 DEF Roots
  <2>. QED
    BY <1>2, <2>1, <2>2 DEF TypeOK, search
<1>6. Control'
  BY <1>2, <1>3, <1>4 DEF Control
<1>7. ImpactPart'
  BY <1>2, <1>3 DEF ImpactPart
<1>8. LineagePart'
  <2>1. lineage' = [d \in Dirs |-> <<>>]
    BY <1>2, <1>3 DEF LineagePart
  <2>2. ASSUME NEW d \in Dirs PROVE lineage'[d] = <<>> /\ Listed(lineage'[d]) = {} /\ Distinct(lineage'[d])
    BY <2>1 DEF Listed, Distinct
  <2>3. ASSUME NEW d \in call'.dirs PROVE Answered(d)' = {}
    BY <1>1, <1>3, <1>4, <2>3 DEF Answered
  <2>4. Left' \subseteq [root : Roots(call'.name), dir : call'.dirs]
    BY <1>1, <1>3, <1>4
  <2>5. ASSUME NEW d \in Dirs PROVE lineage'[d] \in Seq(AnswerNodes(d))' /\ Distinct(lineage'[d])
    <3>1. PICK N : N = AnswerNodes(d)'
      OBVIOUS
    <3>2. <<>> \in Seq(N)
      OBVIOUS
    <3>. QED
      BY <2>2, <3>1, <3>2, Zenon
  <2>6. ASSUME NEW d \in call'.dirs
        PROVE  Listed(lineage'[d]) =
                 UNION {Ball(Relation("lineage", d)', r)[call'.limit] \ {r} : r \in Answered(d)'}
    <3>1. d \in Dirs
      BY <1>3
    <3>. QED
      BY <2>2, <2>3, <3>1
  <2>. QED
    BY <1>3, <1>4, <2>4, <2>5, <2>6 DEF LineagePart
<1>. QED
  BY <1>5, <1>6, <1>7, <1>8

\* A step of a walk leaves the answer to other walks alone.
LEMMA SameLineage ==
    ASSUME LineagePart, UNCHANGED <<uses, call, lineage>>, Left' = Left, call.op = "lineage",
           \A R, r, B : R = Relation("lineage", walk'.dir) /\ r = walk'.root /\ B = Ball(R, r) =>
             LineageWalk(R, r, B)'
    PROVE  LineagePart'
<1>1. \A d : Relation("lineage", d)' = Relation("lineage", d)
  BY SameRelations
<1>2. Roots(call'.name) = Roots(call.name)
  OBVIOUS
<1>3. \A d : AnswerNodes(d)' = AnswerNodes(d)
  BY <1>1, <1>2 DEF AnswerNodes
<1>4. \A d : Answered(d)' = Answered(d)
  BY <1>2 DEF Answered
<1>5. Left' \subseteq [root : Roots(call'.name), dir : call'.dirs]
  BY DEF LineagePart
<1>6. \A d \in Dirs : lineage'[d] \in Seq(AnswerNodes(d)') /\ Distinct(lineage'[d])
  BY <1>3 DEF LineagePart
<1>7. \A d \in call'.dirs : Listed(lineage'[d]) =
        UNION {Ball(Relation("lineage", d)', r)[call'.limit] \ {r} : r \in Answered(d)'}
  BY <1>1, <1>4 DEF LineagePart
<1>. QED
  BY <1>1, <1>5, <1>6, <1>7 DEF LineagePart

LEMMA StartLineageKeeps == WInv /\ StartLineage => WInv'
<1>. SUFFICES ASSUME WInv, StartLineage PROVE WInv'
  OBVIOUS
<1>. USE DEF WInv
<1>1. PICK w \in todo : Begin(w, Node(w.root, 0, <<w.root>>)) /\ todo' = todo \ {w}
  BY DEF StartLineage
<1>2. /\ call.op = "lineage" /\ round' = 0 /\ pc = "next" /\ pc' = "round"
      /\ UNCHANGED <<uses, change, call, impacted, lineage>>
  BY DEF StartLineage
<1>3. /\ walk' = w /\ visited' = {w.root} /\ queue' = <<Node(w.root, 0, <<w.root>>)>>
      /\ nextQueue' = <<>> /\ size' = 0 /\ found' = <<>>
  BY <1>1 DEF Begin
<1>4. w.root \in Types /\ w.dir \in Dirs /\ w \in [root : Types, dir : Dirs] /\ call.limit \in Nat
  BY DEF TypeOK
<1>5. TypeOK'
  BY <1>1, <1>2, <1>3, <1>4 DEF TypeOK
<1>6. Control'
  BY <1>1, <1>2, <1>3, <1>4 DEF Control, Walking
<1>7. ImpactPart'
  BY <1>2 DEF ImpactPart
<1>8. LineagePart'
  <2>1. ASSUME NEW R, NEW r, NEW B, R = Relation("lineage", walk'.dir), r = walk'.root, B = Ball(R, r)
        PROVE  LineageWalk(R, r, B)'
    <3>. DEFINE n == Node(r, 0, <<r>>)
    <3>1. r \in Types /\ B[0] = {r} /\ r = w.root
      BY <1>3, <1>4, <2>1, BallSteps
    <3>2. n \in NodesAt(R, r, 0) /\ n.name = r
      BY <3>1, RootNode DEF Node
    <3>3. queue' = <<n>>
      BY <1>3, <3>1
    <3>. HIDE DEF n
    <3>4. queue' \in Seq(NodesAt(R, r, 0)) /\ Listed(queue') = {r}
      <4>1. <<n>> \in Seq(NodesAt(R, r, 0))
        BY <3>2
      <4>2. Listed(<<n>>) = {r}
        BY <3>2 DEF Listed
      <4>. QED
        BY <3>3, <4>1, <4>2
    <3>5. found' = <<>> /\ Listed(<<>>) = {} /\ Distinct(<<>>)
      BY <1>3 DEF Listed, Distinct
    <3>6. found' \in Seq(NodesTo(R, r, call'.limit)) /\ Listed(found') = {} /\ Distinct(found')
      BY <3>5
    <3>7. round' = 0 /\ call'.limit \in Nat /\ visited' = {r} /\ pc' = "round" /\ pc' # "visit"
          /\ nextQueue' = <<>>
      BY <1>2, <1>3, <1>4, <3>1
    <3>8. round' \in 0..call'.limit
      BY <3>7
    <3>9. Before(B, 0) = {}
      BY DEF Before
    <3>. QED
      BY <3>1, <3>4, <3>6, <3>7, <3>8, <3>9 DEF LineageWalk
  <2>2. Left' = Left
    BY <1>1, <1>2, <1>3 DEF Left, Walking
  <2>. QED
    BY <1>2, <2>1, <2>2, SameLineage
<1>. QED
  BY <1>5, <1>6, <1>7, <1>8

LEMMA LineageRoundKeeps == WInv /\ LineageRound => WInv'
<1>. SUFFICES ASSUME WInv, LineageRound PROVE WInv'
  OBVIOUS
<1>. USE DEF WInv
<1>1. /\ pc = "round" /\ pc' = "visit" /\ call.op = "lineage" /\ queue # <<>> /\ round < call.limit
      /\ round' = round + 1
      /\ UNCHANGED <<uses, change, call, todo, walk, visited, queue, nextQueue, size, found, impacted,
                     lineage>>
  BY DEF LineageRound, MoreLineage
<1>2. walk.root \in Types /\ Walking /\ Walking' /\ call.limit \in Nat /\ round \in Int
  BY <1>1 DEF Control, Walking, TypeOK
<1>3. TypeOK'
  BY <1>1, <1>2 DEF TypeOK
<1>4. Control'
  BY <1>1, <1>2 DEF Control
<1>5. ImpactPart'
  BY <1>1 DEF ImpactPart
<1>6. LineagePart'
  <2>1. ASSUME NEW R, NEW r, NEW B, R = Relation("lineage", walk'.dir), r = walk'.root, B = Ball(R, r)
        PROVE  LineageWalk(R, r, B)'
    <3>1. r \in Types /\ LineageWalk(R, r, B)
      BY <1>1, <1>2, <2>1 DEF LineagePart
    <3>2. /\ round \in 0..call.limit /\ visited = B[round] /\ queue \in Seq(NodesAt(R, r, round))
          /\ nextQueue = <<>> /\ B[round] \ Before(B, round) \subseteq Listed(queue)
      BY <1>1, <3>1 DEF LineageWalk
    <3>3. round \in Nat /\ round' \in 0..call.limit /\ round' # 0 /\ round' - 1 = round
      BY <1>1, <1>2, <3>2
    <3>4. B[round'] = B[round] \cup Succ(R, B[round])
      BY <1>1, <2>1, <3>1, <3>3, BallSteps
    <3>5. Succ(R, B[round] \ Listed(queue)) \subseteq B[round]
      <4>1. CASE round = 0
        <5>1. B[round] \ Listed(queue) = {}
          BY <3>2, <4>1 DEF Before
        <5>. QED
          BY <5>1 DEF Succ
      <4>2. CASE round # 0
        <5>. DEFINE m == round - 1
        <5>1. m \in Nat /\ m + 1 = round
          BY <3>3, <4>2
        <5>2. B[round] \ Listed(queue) \subseteq B[m]
          BY <3>2, <4>2 DEF Before
        <5>. HIDE DEF m
        <5>3. B[m + 1] = B[m] \cup Succ(R, B[m])
          BY <2>1, <3>1, <5>1, BallSteps
        <5>4. Succ(R, B[round] \ Listed(queue)) \subseteq Succ(R, B[m])
          BY <5>2 DEF Succ
        <5>. QED
          BY <5>1, <5>3, <5>4
      <4>. QED
        BY <4>1, <4>2
    <3>6. nextQueue \in Seq(NodesAt(R, r, round'))
      <4>1. PICK N : N = NodesAt(R, r, round')
        OBVIOUS
      <4>2. nextQueue \in Seq(N)
        BY <3>2
      <4>. QED
        BY <4>1, <4>2
    <3>7. visited \ B[round] \subseteq Listed(nextQueue)
      BY <3>2
    <3>8. found \in Seq(NodesTo(R, r, call.limit)) /\ Distinct(found) /\ r \in visited
          /\ Listed(found) = visited \ {r}
      BY <3>1 DEF LineageWalk
    <3>. QED
      BY <1>1, <3>2, <3>3, <3>4, <3>5, <3>6, <3>7, <3>8 DEF LineageWalk
  <2>2. Left' = Left
    BY <1>1, <1>2 DEF Left
  <2>. QED
    BY <1>1, <2>1, <2>2, SameLineage
<1>. QED
  BY <1>3, <1>4, <1>5, <1>6

\* A visit of the last node of a queue completes the next ball.
LEMMA LineageVisitKeeps == WInv /\ LineageVisit => WInv'
<1>. SUFFICES ASSUME WInv, LineageVisit PROVE WInv'
  OBVIOUS
<1>. USE DEF WInv
<1>1. /\ pc = "visit" /\ call.op = "lineage"
      /\ UNCHANGED <<uses, change, call, todo, walk, size, round, impacted, lineage>>
  BY DEF LineageVisit
<1>2. /\ walk.root \in Types /\ Walking /\ queue # <<>> /\ call.limit \in Nat
      /\ round \in Int /\ visited \subseteq Types
  BY <1>1 DEF Control, Walking, TypeOK
<1>3. PICK R, r, B : R = Relation("lineage", walk.dir) /\ r = walk.root /\ B = Ball(R, r)
  OBVIOUS
<1>. DEFINE h == Head(queue)
            U == Unseen(R, h.name, visited)
<1>4. PICK s, nodes :
        /\ s \in SetToSeqs(U) /\ nodes = Extended(h, s, round)
        /\ visited' = visited \cup Range(s) /\ found' = found \o nodes
        /\ IF Len(queue) = 1
           THEN queue' = nextQueue \o nodes /\ nextQueue' = <<>> /\ pc' = "round"
           ELSE queue' = Tail(queue) /\ nextQueue' = nextQueue \o nodes /\ pc' = pc
  <2>1. Neighbours(h.name) = SetToSeqs(U)
    BY <1>1, <1>3 DEF Neighbours, Unseen
  <2>2. \E s \in Neighbours(h.name) :
          /\ visited' = visited \cup Range(s) /\ found' = found \o Extended(h, s, round)
          /\ IF Len(queue) = 1
             THEN queue' = nextQueue \o Extended(h, s, round) /\ nextQueue' = <<>> /\ pc' = "round"
             ELSE queue' = Tail(queue) /\ nextQueue' = nextQueue \o Extended(h, s, round) /\ pc' = pc
    BY Zenon DEF LineageVisit, Extended
  <2>. HIDE DEF h, U
  <2>. QED
    BY <2>1, <2>2, Zenon
<1>5. LineageWalk(R, r, B)
  BY <1>1, <1>2, <1>3 DEF LineagePart
<1>6. /\ round \in 0..call.limit /\ round # 0
      /\ found \in Seq(NodesTo(R, r, call.limit)) /\ Distinct(found)
      /\ r \in visited /\ Listed(found) = visited \ {r}
      /\ queue \in Seq(NodesAt(R, r, round - 1)) /\ nextQueue \in Seq(NodesAt(R, r, round))
      /\ B[round - 1] \subseteq visited /\ visited \subseteq B[round]
      /\ Succ(R, B[round - 1] \ Listed(queue)) \subseteq visited
      /\ visited \ B[round - 1] \subseteq Listed(nextQueue)
  BY <1>1, <1>5 DEF LineageWalk
<1>7. PICK k \in Nat : k = round - 1 /\ round = k + 1 /\ k + 1 <= call.limit
  <2>. DEFINE j == round - 1
  <2>0. call.limit \in Nat /\ round \in 0..call.limit /\ round # 0
    BY <1>2, <1>6, Zenon
  <2>1. j \in Nat /\ j = round - 1 /\ round = j + 1 /\ j + 1 <= call.limit
    BY <2>0
  <2>. HIDE DEF j
  <2>. QED
    BY <2>1
<1>8. /\ h \in NodesAt(R, r, k) /\ Tail(queue) \in Seq(NodesAt(R, r, k))
      /\ Listed(queue) = {h.name} \cup Listed(Tail(queue))
      /\ (Len(queue) = 1 => Tail(queue) = <<>>) /\ (Len(queue) # 1 => Tail(queue) # <<>>)
  <2>1. queue \in Seq(NodesAt(R, r, k))
    BY <1>6, <1>7
  <2>2. PICK T : T = NodesAt(R, r, k)
    OBVIOUS
  <2>. QED
    BY <1>2, <2>1, <2>2, ListedHeadTail
<1>9. \A u : u \in U <=> u \in Types /\ <<h.name, u>> \in R /\ u \notin visited
  BY DEF Unseen
<1>10. B[k] \subseteq visited /\ visited \subseteq B[k + 1] /\ Succ(R, B[k] \ Listed(queue)) \subseteq visited
       /\ visited \ B[k] \subseteq Listed(nextQueue)
  BY <1>6, <1>7
<1>11. nodes \in Seq(NodesAt(R, r, k + 1)) /\ Distinct(nodes) /\ Listed(nodes) = U /\ Range(s) = U
  <2>1. nodes = Extended(h, s, k + 1) /\ Ball(R, r)[k] \subseteq visited /\ r \in Types
    BY <1>2, <1>3, <1>4, <1>7, <1>10
  <2>2. PICK g, V : g = h /\ V = visited
    OBVIOUS
  <2>3. Fresh(R, r, k, g, V, s, nodes)
    BY <1>4, <1>8, <2>1, <2>2 DEF Fresh
  <2>4. Reached(R, r, k, g, V, s, nodes)
    BY <2>3, NewNodes, Zenon
  <2>. QED
    BY <2>2, <2>4 DEF Reached
<1>12. h.name \in B[k]
  BY <1>3, <1>8 DEF NodesAt, IsNode
<1>. HIDE DEF h, U
<1>13. visited' = visited \cup U
  BY <1>4, <1>11
<1>14. B[k + 1] = B[k] \cup Succ(R, B[k])
  BY <1>2, <1>3, BallSteps
<1>15. visited' \subseteq B[k + 1] /\ B[k] \subseteq visited' /\ r \in visited' /\ visited' \subseteq Types
  <2>1. U \subseteq Succ(R, B[k])
    BY <1>9, <1>12 DEF Succ
  <2>. QED
    BY <1>2, <1>6, <1>9, <1>10, <1>13, <1>14, <2>1
<1>16. Succ(R, B[k] \ Listed(Tail(queue))) \subseteq visited'
  <2>. SUFFICES ASSUME NEW u \in Types, NEW t \in B[k], t \notin Listed(Tail(queue)), <<t, u>> \in R
                PROVE  u \in visited'
    BY DEF Succ
  <2>1. CASE t = h.name
    BY <1>9, <1>13, <2>1
  <2>2. CASE t # h.name
    <3>1. t \in B[k] \ Listed(queue)
      BY <1>8, <2>2
    <3>2. u \in Succ(R, B[k] \ Listed(queue))
      BY <3>1 DEF Succ
    <3>. QED
      BY <1>10, <1>13, <3>2
  <2>. QED
    BY <2>1, <2>2
<1>17. /\ found' \in Seq(NodesTo(R, r, call.limit)) /\ Distinct(found')
       /\ Listed(found') = visited' \ {r}
  <2>1. PICK T : T = NodesTo(R, r, call.limit)
    OBVIOUS
  <2>2. NodesAt(R, r, k + 1) \subseteq T
    <3>1. k + 1 \in 1..call.limit
      BY <1>2, <1>7
    <3>. QED
      BY <2>1, <3>1 DEF NodesAt, NodesTo
  <2>3. nodes \in Seq(T) /\ found \in Seq(T)
    <3>1. PICK N : N = NodesAt(R, r, k + 1)
      OBVIOUS
    <3>2. nodes \in Seq(N) /\ N \subseteq T
      BY <1>11, <2>2, <3>1
    <3>. QED
      BY <1>6, <2>1, <3>2
  <2>4. Listed(found) \cap Listed(nodes) = {} /\ Distinct(found) /\ Distinct(nodes)
    BY <1>6, <1>9, <1>11
  <2>5. /\ found \o nodes \in Seq(T) /\ Listed(found \o nodes) = Listed(found) \cup Listed(nodes)
        /\ Distinct(found \o nodes)
    BY <2>3, <2>4, ListedTogether
  <2>. QED
    BY <1>4, <1>6, <1>9, <1>11, <1>13, <2>1, <2>5
<1>18. PICK nq : nq = nextQueue \o nodes
  OBVIOUS
<1>19. nq \in Seq(NodesAt(R, r, round)) /\ visited' \ B[k] \subseteq Listed(nq)
  <2>1. PICK T : T = NodesAt(R, r, round)
    OBVIOUS
  <2>2. nextQueue \in Seq(T) /\ nodes \in Seq(T)
    BY <1>6, <1>7, <1>11, <2>1
  <2>3. nextQueue \o nodes \in Seq(T) /\ Listed(nextQueue \o nodes) = Listed(nextQueue) \cup Listed(nodes)
    BY <2>2, ListedTogether
  <2>. QED
    BY <1>10, <1>11, <1>13, <1>18, <2>1, <2>3
<1>20. LineageWalk(R, r, B)' /\ Walking' /\ (pc' = "visit" => queue' # <<>>)
  <2>0. round' = round /\ call' = call /\ round \in Nat
    BY <1>1, <1>7
  <2>1. CASE Len(queue) = 1
    <3>1. queue' = nq /\ nextQueue' = <<>> /\ pc' = "round" /\ pc' # "visit"
      BY <1>4, <1>18, <2>1
    <3>2. Listed(Tail(queue)) = {}
      BY <1>8, <2>1 DEF Listed
    <3>3. visited' = B[round]
      BY <1>7, <1>14, <1>15, <1>16, <3>2
    <3>4. Before(B, round) = B[k]
      BY <1>6, <1>7 DEF Before
    <3>5. B[round] \ Before(B, round) \subseteq Listed(nq)
      BY <1>19, <3>3, <3>4
    <3>. QED
      BY <1>6, <1>15, <1>17, <1>19, <2>0, <3>1, <3>3, <3>5 DEF LineageWalk, Walking
  <2>2. CASE Len(queue) # 1
    <3>1. queue' = Tail(queue) /\ nextQueue' = nq /\ pc' = "visit" /\ pc' # "round"
      BY <1>1, <1>4, <1>18, <2>2
    <3>2. queue' # <<>> /\ queue' \in Seq(NodesAt(R, r, round - 1))
      BY <1>7, <1>8, <2>2, <3>1
    <3>3. /\ B[round - 1] \subseteq visited' /\ visited' \subseteq B[round]
          /\ Succ(R, B[round - 1] \ Listed(queue')) \subseteq visited'
          /\ visited' \ B[round - 1] \subseteq Listed(nextQueue')
      BY <1>7, <1>15, <1>16, <1>19, <3>1
    <3>. QED
      BY <1>6, <1>15, <1>17, <1>19, <2>0, <3>1, <3>2, <3>3 DEF LineageWalk, Walking
  <2>. QED
    BY <2>1, <2>2
<1>21. TypeOK'
  <2>1. pc' \in {"round", "visit"}
    BY <1>20 DEF Walking
  <2>. QED
    BY <1>1, <1>15, <1>20, <2>1 DEF TypeOK
<1>22. Control'
  BY <1>1, <1>2, <1>20 DEF Control, Walking
<1>23. ImpactPart'
  BY <1>1 DEF ImpactPart
<1>24. LineagePart'
  <2>1. ASSUME NEW S, NEW t, NEW C, S = Relation("lineage", walk'.dir), t = walk'.root, C = Ball(S, t)
        PROVE  LineageWalk(S, t, C)'
    <3>1. S = R /\ t = r /\ C = B
      BY <1>1, <1>3, <2>1
    <3>. QED
      BY <1>20, <3>1
  <2>2. Left' = Left
    BY <1>1, <1>2, <1>20 DEF Left
  <2>. QED
    BY <1>1, <2>1, <2>2, SameLineage
<1>. QED
  BY <1>21, <1>22, <1>23, <1>24

\* The walk that ends adds its ball, without its root, to the answer.
LEMMA LineageDoneKeeps == WInv /\ LineageDone => WInv'
<1>. SUFFICES ASSUME WInv, LineageDone PROVE WInv'
  OBVIOUS
<1>. USE DEF WInv
<1>1. /\ pc = "round" /\ pc' = "next" /\ call.op = "lineage" /\ (queue = <<>> \/ ~(round < call.limit))
      /\ UNCHANGED <<uses, change, call, todo, walk, impacted>> /\ UNCHANGED search
      /\ lineage' = [lineage EXCEPT ![walk.dir] = KeepUnseen(@, found)]
  BY DEF LineageDone, MoreLineage
<1>2. /\ walk.root \in Types /\ Walking /\ ~Walking' /\ call.limit \in Nat /\ walk \notin todo
      /\ Left = todo \cup {walk} /\ Left' = todo
  BY <1>1 DEF Control, Walking, TypeOK, Left
<1>3. PICK R, r, d, B :
        d = walk.dir /\ R = Relation("lineage", d) /\ r = walk.root /\ B = Ball(R, r)
  OBVIOUS
<1>4. /\ round \in 0..call.limit /\ found \in Seq(NodesTo(R, r, call.limit)) /\ Distinct(found)
      /\ Listed(found) = visited \ {r} /\ visited = B[round]
      /\ B[round] \ Before(B, round) \subseteq Listed(queue)
  <2>1. LineageWalk(R, r, B)
    BY <1>1, <1>2, <1>3 DEF LineagePart
  <2>. QED
    BY <1>1, <2>1 DEF LineageWalk
<1>5. visited = B[call.limit]
  <2>1. CASE ~(round < call.limit)
    BY <1>2, <1>4, <2>1
  <2>2. CASE queue = <<>>
    <3>1. Listed(queue) = {}
      BY <2>2 DEF Listed
    <3>2. B[0] = {r}
      BY <1>2, <1>3, BallSteps
    <3>3. round # 0
      BY <1>4, <3>1, <3>2 DEF Before
    <3>4. PICK m \in Nat : m = round - 1 /\ m + 1 = round /\ m <= call.limit
      <4>1. round - 1 \in Nat /\ (round - 1) + 1 = round /\ round - 1 <= call.limit
        BY <1>2, <1>4, <3>3
      <4>. QED
        BY <4>1
    <3>5. B[round] \subseteq B[m]
      BY <1>4, <3>1, <3>3, <3>4 DEF Before
    <3>6. B[round] = B[m] \cup Succ(R, B[m])
      BY <1>2, <1>3, <3>4, BallSteps
    <3>7. Succ(R, B[m]) \subseteq B[m] /\ B[round] = B[m]
      BY <3>5, <3>6
    <3>8. B[call.limit] = B[m]
      BY <1>2, <1>3, <3>4, <3>7, BallStands
    <3>. QED
      BY <1>4, <3>7, <3>8
  <2>. QED
    BY <1>1, <2>1, <2>2
<1>6. Left \subseteq [root : Roots(call.name), dir : call.dirs]
  BY <1>1 DEF LineagePart
<1>7. r \in Roots(call.name) /\ d \in call.dirs /\ d \in Dirs /\ walk = [root |-> r, dir |-> d]
  <2>1. walk \in [root : Roots(call.name), dir : call.dirs]
    BY <1>2, <1>6
  <2>. QED
    BY <1>3, <2>1 DEF TypeOK
<1>8. /\ DOMAIN lineage' = Dirs /\ lineage'[d] = KeepUnseen(lineage[d], found)
      /\ \A e \in Dirs : e # d => lineage'[e] = lineage[e]
  BY <1>1, <1>3, <1>7 DEF TypeOK
<1>9. found \in Seq(AnswerNodes(d))
  <2>1. NodesTo(R, r, call.limit) \subseteq AnswerNodes(d)
    BY <1>3, <1>7 DEF AnswerNodes, NodesTo
  <2>2. PICK N, T : N = NodesTo(R, r, call.limit) /\ T = AnswerNodes(d)
    OBVIOUS
  <2>3. found \in Seq(N) /\ N \subseteq T
    BY <1>4, <2>1, <2>2
  <2>4. found \in Seq(T)
    BY <2>3
  <2>. QED
    BY <2>2, <2>4
<1>10. /\ lineage'[d] \in Seq(AnswerNodes(d)) /\ Distinct(lineage'[d])
       /\ Listed(lineage'[d]) = Listed(lineage[d]) \cup Listed(found)
  <2>1. lineage[d] \in Seq(AnswerNodes(d)) /\ Distinct(lineage[d])
    BY <1>1, <1>7 DEF LineagePart
  <2>2. PICK T, s : T = AnswerNodes(d) /\ s = lineage[d]
    OBVIOUS
  <2>3. s \in Seq(T) /\ Distinct(s) /\ found \in Seq(T)
    BY <1>9, <2>1, <2>2
  <2>4. /\ KeepUnseen(s, found) \in Seq(T) /\ Distinct(KeepUnseen(s, found))
        /\ Listed(KeepUnseen(s, found)) = Listed(s) \cup Listed(found)
    BY <2>3, KeepsUnseen
  <2>. QED
    BY <1>8, <2>2, <2>4
<1>11. /\ \A e : Relation("lineage", e)' = Relation("lineage", e)
       /\ Roots(call'.name) = Roots(call.name) /\ call' = call
  BY <1>1, SameRelations
<1>12. \A e : AnswerNodes(e)' = AnswerNodes(e)
  BY <1>11 DEF AnswerNodes
<1>13. Answered(d)' = Answered(d) \cup {r}
  <2>1. Answered(d)' = {q \in Roots(call.name) : [root |-> q, dir |-> d] \notin todo}
    BY <1>2, <1>11 DEF Answered
  <2>2. Answered(d) = {q \in Roots(call.name) : [root |-> q, dir |-> d] \notin todo \cup {walk}}
    BY <1>2 DEF Answered
  <2>3. \A q : [root |-> q, dir |-> d] = walk <=> q = r
    BY <1>7
  <2>. QED
    BY <1>2, <1>7, <2>1, <2>2, <2>3
<1>14. ASSUME NEW e \in Dirs, e # d PROVE Answered(e)' = Answered(e)
  <2>1. Answered(e)' = {q \in Roots(call.name) : [root |-> q, dir |-> e] \notin todo}
    BY <1>2, <1>11 DEF Answered
  <2>2. Answered(e) = {q \in Roots(call.name) : [root |-> q, dir |-> e] \notin todo \cup {walk}}
    BY <1>2 DEF Answered
  <2>3. \A q : [root |-> q, dir |-> e] # walk
    BY <1>7, <1>14
  <2>. QED
    BY <2>1, <2>2, <2>3
<1>15. TypeOK'
  BY <1>1, <1>8 DEF TypeOK, search
<1>16. Control'
  BY <1>1, <1>2 DEF Control
<1>17. ImpactPart'
  BY <1>1 DEF ImpactPart
<1>18. LineagePart'
  <2>1. Left' \subseteq [root : Roots(call'.name), dir : call'.dirs]
    BY <1>2, <1>6, <1>11
  <2>2. ASSUME NEW e \in Dirs PROVE lineage'[e] \in Seq(AnswerNodes(e)') /\ Distinct(lineage'[e])
    <3>1. CASE e = d
      BY <1>10, <1>12, <3>1
    <3>2. CASE e # d
      BY <1>1, <1>8, <1>12, <3>2 DEF LineagePart
    <3>. QED
      BY <3>1, <3>2
  <2>3. ASSUME NEW e \in call'.dirs
        PROVE  Listed(lineage'[e]) =
                 UNION {Ball(Relation("lineage", e)', q)[call'.limit] \ {q} : q \in Answered(e)'}
    <3>1. Listed(lineage[e]) = UNION {Ball(Relation("lineage", e), q)[call.limit] \ {q} : q \in Answered(e)}
      BY <1>1, <1>11 DEF LineagePart
    <3>2. CASE e = d
      <4>1. Listed(found) = Ball(R, r)[call.limit] \ {r}
        BY <1>3, <1>4, <1>5
      <4>. DEFINE f(q) == Ball(R, q)[call.limit] \ {q}
      <4>2. /\ Listed(lineage[d]) = UNION {f(q) : q \in Answered(d)} /\ Listed(found) = f(r)
        BY <1>3, <3>1, <3>2, <4>1
      <4>3. Listed(lineage'[d]) = UNION {f(q) : q \in Answered(d) \cup {r}}
        <5>. HIDE DEF f
        <5>. QED
          BY <1>10, <4>2
      <4>. QED
        BY <1>3, <1>11, <1>13, <3>2, <4>3
    <3>3. CASE e # d
      <4>1. e \in Dirs
        BY <1>11 DEF TypeOK
      <4>. QED
        BY <1>8, <1>11, <1>14, <3>1, <3>3, <4>1
    <3>. QED
      BY <3>2, <3>3
  <2>. QED
    BY <1>2, <1>11, <1>1, <2>1, <2>2, <2>3 DEF LineagePart
<1>. QED
  BY <1>15, <1>16, <1>17, <1>18

-----------------------------------------------------------------------------
LEMMA ReturnKeeps == WInv /\ Return => WInv'
<1>. SUFFICES ASSUME WInv, Return PROVE WInv'
  OBVIOUS
<1>. USE DEF WInv
<1>1. /\ pc = "next" /\ pc' = "done" /\ todo = {}
      /\ UNCHANGED <<uses, change, call, todo, walk, impacted, lineage>> /\ UNCHANGED search
  BY DEF Return
<1>2. ~Walking' /\ Left' = Left
  BY <1>1 DEF Walking, Left
<1>3. TypeOK'
  BY <1>1 DEF TypeOK, search
<1>4. Control'
  BY <1>1, <1>2 DEF Control
<1>5. ImpactPart'
  <2>1. ReverseDependencies' = ReverseDependencies
    BY <1>1, SameRelations
  <2>. QED
    BY <1>1, <1>2, <2>1 DEF ImpactPart
<1>6. LineagePart'
  <2>1. CASE call.op = "lineage"
    <3>1. \A d : Relation("lineage", d)' = Relation("lineage", d) /\ Roots(call'.name) = Roots(call.name)
      BY <1>1, SameRelations
    <3>2. \A d : AnswerNodes(d)' = AnswerNodes(d) /\ Answered(d)' = Answered(d)
      BY <1>1, <1>2, <3>1 DEF AnswerNodes, Answered
    <3>3. \A d \in Dirs : lineage'[d] \in Seq(AnswerNodes(d)') /\ Distinct(lineage'[d])
      BY <1>1, <2>1, <3>2 DEF LineagePart
    <3>4. \A d \in call'.dirs : Listed(lineage'[d]) =
            UNION {Ball(Relation("lineage", d)', r)[call'.limit] \ {r} : r \in Answered(d)'}
      BY <1>1, <2>1, <3>1, <3>2 DEF LineagePart
    <3>. QED
      BY <1>1, <1>2, <2>1, <3>3, <3>4 DEF LineagePart
  <2>2. CASE call.op # "lineage"
    BY <1>1, <2>2 DEF LineagePart
  <2>. QED
    BY <2>1, <2>2
<1>. QED
  BY <1>3, <1>4, <1>5, <1>6

LEMMA StutterKeeps == WInv /\ UNCHANGED vars => WInv'
<1>. SUFFICES ASSUME WInv, UNCHANGED vars PROVE WInv'
  OBVIOUS
<1>. USE DEF WInv
<1>1. /\ UNCHANGED <<uses, change, call, pc, todo, walk, impacted, lineage>>
      /\ UNCHANGED <<visited, queue, nextQueue, size, round, found>>
  BY DEF vars, search
<1>2. Walking' = Walking /\ Left' = Left
  BY <1>1 DEF Walking, Left
<1>3. TypeOK'
  BY <1>1 DEF TypeOK
<1>4. Control'
  BY <1>1, <1>2 DEF Control
<1>5. ImpactPart'
  <2>1. ReverseDependencies' = ReverseDependencies
    BY <1>1, SameRelations
  <2>2. ASSUME NEW R, NEW B, NEW j PROVE ImpactWalk(R, B, j)' = ImpactWalk(R, B, j)
    BY <1>1 DEF ImpactWalk
  <2>. QED
    BY <1>1, <1>2, <2>1, <2>2 DEF ImpactPart
<1>6. LineagePart'
  <2>1. CASE call.op = "lineage"
    <3>1. ASSUME NEW R, NEW r, NEW B PROVE LineageWalk(R, r, B)' = LineageWalk(R, r, B)
      BY <1>1 DEF LineageWalk
    <3>2. \A d : Relation("lineage", d)' = Relation("lineage", d) /\ Roots(call'.name) = Roots(call.name)
      BY <1>1, SameRelations
    <3>3. \A d : AnswerNodes(d)' = AnswerNodes(d) /\ Answered(d)' = Answered(d)
      BY <1>1, <1>2, <3>2 DEF AnswerNodes, Answered
    <3>4. \A d \in Dirs : lineage'[d] \in Seq(AnswerNodes(d)') /\ Distinct(lineage'[d])
      BY <1>1, <2>1, <3>3 DEF LineagePart
    <3>5. \A d \in call'.dirs : Listed(lineage'[d]) =
            UNION {Ball(Relation("lineage", d)', r)[call'.limit] \ {r} : r \in Answered(d)'}
      BY <1>1, <2>1, <3>2, <3>3 DEF LineagePart
    <3>6. Walking => \A R, r, B : R = Relation("lineage", walk.dir) /\ r = walk.root /\ B = Ball(R, r) =>
            LineageWalk(R, r, B)'
      BY <2>1, <3>1 DEF LineagePart
    <3>. QED
      BY <1>1, <1>2, <2>1, <3>2, <3>4, <3>5, <3>6 DEF LineagePart
  <2>2. CASE call.op # "lineage"
    BY <1>1, <2>2 DEF LineagePart
  <2>. QED
    BY <2>1, <2>2
<1>. QED
  BY <1>3, <1>4, <1>5, <1>6

\* Every step keeps the inductive invariant.
LEMMA WalksKept == WInv /\ [Next]_vars => WInv'
<1>. SUFFICES ASSUME WInv, [Next]_vars PROVE WInv'
  OBVIOUS
<1>1. CASE IdentifySchemaChange
  BY <1>1, IdentifyKeeps
<1>2. CASE StartImpact
  BY <1>2, StartImpactKeeps
<1>3. CASE ImpactRound
  BY <1>3, ImpactRoundKeeps
<1>4. CASE ImpactVisit
  BY <1>4, ImpactVisitKeeps
<1>5. CASE ImpactDone
  BY <1>5, ImpactDoneKeeps
<1>6. CASE GetLineage
  BY <1>6, GetLineageKeeps
<1>7. CASE StartLineage
  BY <1>7, StartLineageKeeps
<1>8. CASE LineageRound
  BY <1>8, LineageRoundKeeps
<1>9. CASE LineageVisit
  BY <1>9, LineageVisitKeeps
<1>10. CASE LineageDone
  BY <1>10, LineageDoneKeeps
<1>11. CASE Return
  BY <1>11, ReturnKeeps
<1>12. CASE Quiet
  BY <1>12, StutterKeeps DEF Quiet
<1>13. CASE UNCHANGED vars
  BY <1>13, StutterKeeps
<1>. QED
  BY <1>1, <1>2, <1>3, <1>4, <1>5, <1>6, <1>7, <1>8, <1>9, <1>10, <1>11, <1>12, <1>13 DEF Next

\* The inductive invariant holds for every set of types, every graph over it
\* and every request.
THEOREM Walks == Spec => []WInv
<1>1. Init => WInv
  BY InitWalks
<1>2. WInv /\ [Next]_vars => WInv'
  BY WalksKept
<1>. QED
  BY <1>1, <1>2, PTL DEF Spec

\* Every variable has its type.
THEOREM TypeCorrectness == Spec => []TypeOK
<1>1. WInv => TypeOK
  BY DEF WInv
<1>. QED
  BY <1>1, Walks, PTL

\* What getDependentImpactedSchemas finds for an updated schema is exactly what
\* leads to it in at most depth steps, each once, whatever the graph.
THEOREM ImpactExactness == Spec => []ImpactIsExact
<1>1. WInv => ImpactIsExact
  <2>. SUFFICES ASSUME WInv, NEW r \in DOMAIN impacted
                PROVE  /\ Range(impacted[r]) = Ball(ReverseDependencies, r)[call.limit]
                       /\ \A i, j \in DOMAIN impacted[r] : impacted[r][i] = impacted[r][j] => i = j
    BY DEF ImpactIsExact
  <2>1. call.op = "impact"
    BY DEF WInv, ImpactPart
  <2>. QED
    BY <2>1 DEF WInv, ImpactPart, IsInjective
<1>. QED
  BY <1>1, Walks, PTL

\* With no limit on the depth the search reports every changed type with all the
\* messages that use it, however many steps away, and with no others, as
\* server/overview.md says, in files where the fields are all of top-level
\* messages.  Run depth shows that both conditions are needed.
THEOREM UnlimitedAsDocumented ==
    Spec => []((\A f \in uses : TopLevel(f[1])) /\ call.limit = MaxInt32 => ImpactAsDocumented)
<1>1. WInv /\ (\A f \in uses : TopLevel(f[1])) /\ call.limit = MaxInt32 => ImpactAsDocumented
  <2>. SUFFICES ASSUME WInv, \A f \in uses : TopLevel(f[1]), call.limit = MaxInt32,
                       pc = "done", call.op = "impact", NEW r \in UpdatedSchemas(change)
                PROVE  /\ r \in DOMAIN impacted
                       /\ Range(impacted[r]) = Ball(ReverseDeps, r)[Cardinality(Types)]
    BY DEF ImpactAsDocumented
  <2>1. Left = {}
    BY DEF WInv, Control, Left, Walking
  <2>2. r \in DOMAIN impacted
    BY <2>1 DEF WInv, ImpactPart
  <2>3. Range(impacted[r]) = Ball(ReverseDependencies, r)[MaxInt32]
    BY <2>2 DEF WInv, ImpactPart
  <2>4. r \in Types
    BY <2>2 DEF WInv, TypeOK
  <2>5. Ball(ReverseDependencies, r)[MaxInt32] = Ball(ReverseDependencies, r)[Cardinality(Types)]
    BY <2>4, Cardinals, SizeAssumption, BallBelow DEF MaxInt32
  <2>6. ReverseDeps = ReverseDependencies
    BY DEF ReverseDeps, ReverseDependencies
  <2>. QED
    BY <2>2, <2>3, <2>5, <2>6
<1>. QED
  BY <1>1, Walks, PTL

\* The answer of GetLineage misses no type within the level of a root that the
\* request names, and lists nothing else and nothing twice.
THEOREM LineageCompleteness == Spec => []LineageIsComplete
<1>1. WInv => LineageIsComplete
  <2>. SUFFICES ASSUME WInv, pc = "done", call.op = "lineage", NEW d \in call.dirs
                PROVE  /\ Listed(lineage[d]) =
                            UNION {Ball(Relation("lineage", d), r)[call.limit] \ {r} : r \in Roots(call.name)}
                       /\ Distinct(lineage[d])
    BY DEF LineageIsComplete, Distinct
  <2>1. Left = {}
    BY DEF WInv, Control, Left, Walking
  <2>2. Answered(d) = Roots(call.name)
    BY <2>1 DEF Answered
  <2>3. d \in Dirs
    BY DEF WInv, TypeOK
  <2>. QED
    BY <2>2, <2>3 DEF WInv, LineagePart
<1>. QED
  BY <1>1, Walks, PTL

\* The level that an answer shows for a type is its distance from a root, along
\* the path that it shows.
THEOREM LevelsAreExact == Spec => []LevelsAreDistances
<1>1. WInv => LevelsAreDistances
  <2>. SUFFICES ASSUME WInv, NEW d \in Dirs, NEW i \in DOMAIN lineage[d], NEW n, n = lineage[d][i],
                       NEW R, R = Relation("lineage", d)
                PROVE  /\ n.path[1] \in Roots(call.name) /\ n.name = n.path[Len(n.path)]
                       /\ Len(n.path) = n.level + 1 /\ n.level \in 1..call.limit
                       /\ \A k \in 1..n.level : <<n.path[k], n.path[k + 1]>> \in R
                       /\ n.name \notin Ball(R, n.path[1])[n.level - 1]
    BY Zenon DEF LevelsAreDistances
  <2>1. call.op = "lineage"
    <3>1. CASE call.op # "lineage"
      <4>1. lineage[d] = <<>>
        BY <3>1 DEF WInv, LineagePart
      <4>. QED
        BY <4>1
    <3>. QED
      BY <3>1
  <2>2. n \in AnswerNodes(d)
    <3>1. lineage[d] \in Seq(AnswerNodes(d))
      BY <2>1 DEF WInv, LineagePart
    <3>2. PICK T, s : T = AnswerNodes(d) /\ s = lineage[d]
      OBVIOUS
    <3>. QED
      BY <3>1, <3>2
  <2>3. PICK r \in Roots(call.name) : n \in NodesTo(R, r, call.limit)
    BY <2>2 DEF AnswerNodes
  <2>4. /\ Len(n.path) = n.level + 1 /\ n.path[1] = r /\ n.path[Len(n.path)] = n.name
        /\ \A k \in 1..n.level : <<n.path[k], n.path[k + 1]>> \in R
        /\ n.level # 0 => n.name \notin Ball(R, r)[n.level - 1]
        /\ n.level \in 1..call.limit
    BY <2>3 DEF NodesTo, IsNode
  <2>5. n.level # 0
    BY <2>4
  <2>. QED
    BY <2>4, <2>5
<1>. QED
  BY <1>1, Walks, PTL
=============================================================================
