---------------------------- MODULE NatRecursion -----------------------------
(***************************************************************************)
(* Induction and primitive recursion on the naturals, stated with sets and *)
(* functions in place of operators, for what the models define by a        *)
(* recursive function.                                                     *)
(***************************************************************************)
EXTENDS Integers, WellFoundedInduction, TLAPS

\* Every set of naturals that is not empty has a least element.
LEMMA NatLeast ==
    ASSUME NEW T, T \subseteq Nat, T # {}
    PROVE  \E x \in T : \A y \in T : x <= y
<1>1. PICK x \in T : \A y \in T : ~(<<y, x>> \in OpToRel(<, Nat))
  BY NatLessThanWellFounded, WFMin, Zenon
<1>2. ASSUME NEW y \in T, y < x PROVE FALSE
  BY <1>1, <1>2 DEF OpToRel
<1> QED
  BY <1>2

\* Induction: a set that holds 0 and every successor holds the naturals.
LEMMA NatSetInduction ==
    ASSUME NEW S, 0 \in S, \A n \in Nat : n \in S => n + 1 \in S
    PROVE  \A n \in Nat : n \in S
<1> SUFFICES ASSUME {n \in Nat : n \notin S} # {} PROVE FALSE
  OBVIOUS
<1>1. PICK x \in {n \in Nat : n \notin S} :
         \A y \in {n \in Nat : n \notin S} : x <= y
  BY NatLeast
<1>2. x # 0 /\ x - 1 \in Nat
  BY <1>1
<1>3. x - 1 \in S
  BY <1>1, <1>2
<1>4. (x - 1) + 1 \in S
  BY <1>2, <1>3
<1> QED
  BY <1>1, <1>4

\* The functions on 0 .. m that primitive recursion from a by step allows.
Approximations(R, a, step, m) ==
    {h \in [0 .. m -> R] : /\ h[0] = a
                           /\ \A k \in 0 .. m - 1 : h[k + 1] = step[<<k, h[k]>>]}

LEMMA ApproximationsExist ==
    ASSUME NEW R, NEW a \in R, NEW step \in [Nat \X R -> R]
    PROVE  \A m \in Nat : Approximations(R, a, step, m) # {}
<1> DEFINE S == {m \in Nat : Approximations(R, a, step, m) # {}}
<1>1. 0 \in S
  <2>1. [k \in 0 .. 0 |-> a] \in Approximations(R, a, step, 0)
    BY DEF Approximations
  <2> QED
    BY <2>1
<1>2. ASSUME NEW m \in Nat, m \in S PROVE m + 1 \in S
  <2>1. PICK h \in Approximations(R, a, step, m) : TRUE
    BY <1>2
  <2> DEFINE g == [k \in 0 .. m + 1 |->
                      IF k = m + 1 THEN step[<<m, h[m]>>] ELSE h[k]]
  <2>2. h \in [0 .. m -> R] /\ h[0] = a
        /\ \A k \in 0 .. m - 1 : h[k + 1] = step[<<k, h[k]>>]
    BY <2>1 DEF Approximations
  <2>3. h[m] \in R /\ step[<<m, h[m]>>] \in R
    BY <2>2
  <2>4. g \in [0 .. m + 1 -> R]
    BY <2>2, <2>3
  <2>5. g[0] = a
    BY <2>2
  <2>6. ASSUME NEW k \in 0 .. m PROVE g[k + 1] = step[<<k, g[k]>>]
    <3>1. g[k] = h[k]
      OBVIOUS
    <3>2. CASE k = m
      <4>1. g[k + 1] = step[<<m, h[m]>>]
        BY <3>2
      <4> QED
        BY <3>1, <3>2, <4>1
    <3>3. CASE k \in 0 .. m - 1
      BY <2>2, <3>1, <3>3
    <3> QED
      BY <3>2, <3>3
  <2> HIDE DEF g
  <2>7. g \in Approximations(R, a, step, m + 1)
    BY <2>4, <2>5, <2>6 DEF Approximations
  <2> QED
    BY <2>7
<1> HIDE DEF S
<1>3. \A m \in Nat : m \in S
  BY <1>1, <1>2, NatSetInduction
<1> QED
  BY <1>3 DEF S

LEMMA ApproximationsAgree ==
    ASSUME NEW R, NEW a \in R, NEW step \in [Nat \X R -> R],
           NEW m \in Nat, NEW p \in Nat,
           NEW h \in Approximations(R, a, step, m),
           NEW g \in Approximations(R, a, step, p)
    PROVE  \A k \in Nat : k <= m /\ k <= p => h[k] = g[k]
<1> DEFINE S == {k \in Nat : k <= m /\ k <= p => h[k] = g[k]}
<1>1. 0 \in S
  BY DEF Approximations
<1>2. ASSUME NEW k \in Nat, k \in S PROVE k + 1 \in S
  <2> SUFFICES ASSUME k + 1 <= m, k + 1 <= p PROVE h[k + 1] = g[k + 1]
    OBVIOUS
  <2>1. h[k] = g[k] /\ k \in 0 .. m - 1 /\ k \in 0 .. p - 1
    BY <1>2
  <2> QED
    BY <2>1 DEF Approximations
<1> HIDE DEF S
<1>3. \A k \in Nat : k \in S
  BY <1>1, <1>2, NatSetInduction
<1> QED
  BY <1>3 DEF S

\* There is a function that starts with a and goes on by step.
Recurs(f, R, a, step) ==
    /\ f \in [Nat -> R] /\ f[0] = a
    /\ \A n \in Nat : f[n + 1] = step[<<n, f[n]>>]

LEMMA PrimitiveRecursion ==
    ASSUME NEW R, NEW a \in R, NEW step \in [Nat \X R -> R]
    PROVE  \E f : Recurs(f, R, a, step)
<1> DEFINE A(m) == Approximations(R, a, step, m)
           pick(m) == CHOOSE h \in A(m) : TRUE
           f == [n \in Nat |-> pick(n)[n]]
<1>1. \A m \in Nat : pick(m) \in A(m)
  BY ApproximationsExist
<1> HIDE DEF pick
<1>2. \A m \in Nat : /\ pick(m) \in [0 .. m -> R] /\ pick(m)[0] = a
                     /\ \A k \in 0 .. m - 1 :
                          pick(m)[k + 1] = step[<<k, pick(m)[k]>>]
  BY <1>1 DEF Approximations
<1>3. f \in [Nat -> R] /\ f[0] = a
  BY <1>2
<1>4. ASSUME NEW n \in Nat PROVE f[n + 1] = step[<<n, f[n]>>]
  <2>1. f[n] = pick(n)[n] /\ f[n + 1] = pick(n + 1)[n + 1]
    OBVIOUS
  <2>2. pick(n + 1)[n] = pick(n)[n]
    BY <1>1, ApproximationsAgree
  <2>3. pick(n + 1)[n + 1] = step[<<n, pick(n + 1)[n]>>]
    BY <1>2
  <2> QED
    BY <2>1, <2>2, <2>3
<1> HIDE DEF f
<1>5. Recurs(f, R, a, step)
  BY <1>3, <1>4 DEF Recurs
<1> QED
  BY <1>5

\* A loop whose body is a function on R: f[n] is its state after n turns.
Turns(f, R, a, step) ==
    /\ f \in [Nat -> R]
    /\ f = [n \in Nat |-> IF n = 0 THEN a ELSE step[f[n - 1]]]

LEMMA Iterations ==
    ASSUME NEW R, NEW a \in R, NEW step \in [R -> R]
    PROVE  \E f : Turns(f, R, a, step)
<1> DEFINE go == [p \in Nat \X R |-> step[p[2]]]
<1>1. \A n \in Nat, r \in R : go[<<n, r>>] = step[r]
  OBVIOUS
<1>2. go \in [Nat \X R -> R]
  <2> SUFFICES ASSUME NEW p \in Nat \X R PROVE step[p[2]] \in R
    BY Zenon
  <2> QED
    OBVIOUS
<1> HIDE DEF go
<1>3. PICK f : Recurs(f, R, a, go)
  BY <1>2, PrimitiveRecursion, Zenon
<1>4. f \in [Nat -> R] /\ f[0] = a /\ \A n \in Nat : f[n + 1] = go[<<n, f[n]>>]
  BY <1>3 DEF Recurs
<1>5. ASSUME NEW n \in Nat PROVE f[n] = IF n = 0 THEN a ELSE step[f[n - 1]]
  <2>1. CASE n = 0
    BY <1>4, <2>1
  <2>2. CASE n # 0
    <3>1. n - 1 \in Nat /\ (n - 1) + 1 = n
      BY <2>2
    <3>2. f[(n - 1) + 1] = go[<<n - 1, f[n - 1]>>] /\ f[n - 1] \in R
      BY <1>4, <3>1
    <3> QED
      BY <1>1, <2>2, <3>1, <3>2
  <2> QED
    BY <2>1, <2>2
<1>6. Turns(f, R, a, step)
  BY <1>4, <1>5 DEF Turns
<1> QED
  BY <1>6

\* A loop that ends: f is what it comes to from each state, out where it stops
\* and otherwise what it comes to from the next state, of lower rank.
Loop(f, S, Stop, out, go) ==
    f = [s \in S |-> IF s \in Stop THEN out[s] ELSE f[go[s]]]

LEMMA LoopExists ==
    ASSUME NEW S, NEW R, NEW Stop, NEW out \in [S -> R], NEW go \in [S -> S],
           NEW rank \in [S -> Nat],
           \A s \in S : s \notin Stop => rank[go[s]] < rank[s]
    PROVE  \E f : Loop(f, S, Stop, out, go)
<1> DEFINE step == [g \in [S -> R] |->
                       [s \in S |-> IF s \in Stop THEN out[s] ELSE g[go[s]]]]
<1>1. step \in [[S -> R] -> [S -> R]]
  OBVIOUS
<1>2. PICK G : Turns(G, [S -> R], out, step)
  <2> HIDE DEF step
  <2> QED
    BY <1>1, Iterations
<1>3. G \in [Nat -> [S -> R]]
  BY <1>2 DEF Turns
<1>4. ASSUME NEW n \in Nat, NEW s \in S
      PROVE  G[n + 1][s] = IF s \in Stop THEN out[s] ELSE G[n][go[s]]
  <2>1. G[n + 1] = step[G[n]]
    <3> HIDE DEF step
    <3>1. n + 1 \in Nat /\ n + 1 # 0 /\ (n + 1) - 1 = n
      OBVIOUS
    <3> QED
      BY <1>2, <3>1 DEF Turns
  <2>2. step[G[n]] = [r \in S |-> IF r \in Stop THEN out[r] ELSE G[n][go[r]]]
    BY <1>3
  <2> HIDE DEF step
  <2> QED
    BY <2>1, <2>2
<1> HIDE DEF step
<1> DEFINE Same == {m \in Nat : \A s \in S : \A n \in Nat :
                       rank[s] < m /\ m <= n => G[n][s] = G[m][s]}
<1>5. \A m \in Nat : m \in Same
  <2>1. 0 \in Same
    OBVIOUS
  <2>2. ASSUME NEW m \in Nat, m \in Same PROVE m + 1 \in Same
    <3>1. ASSUME NEW s \in S, NEW n \in Nat, rank[s] < m + 1, m + 1 <= n
          PROVE  G[n][s] = G[m + 1][s]
      <4>1. PICK k \in Nat : n = k + 1 /\ m <= k
        <5>1. n - 1 \in Nat /\ n = (n - 1) + 1 /\ m <= n - 1
          BY <3>1
        <5> QED
          BY <5>1
      <4>2. G[n][s] = (IF s \in Stop THEN out[s] ELSE G[k][go[s]])
        BY <1>4, <4>1
      <4>3. G[m + 1][s] = (IF s \in Stop THEN out[s] ELSE G[m][go[s]])
        BY <1>4
      <4>4. s \notin Stop => G[k][go[s]] = G[m][go[s]]
        <5>1. SUFFICES ASSUME s \notin Stop PROVE G[k][go[s]] = G[m][go[s]]
          OBVIOUS
        <5>2. rank[go[s]] < rank[s] /\ go[s] \in S /\ rank[s] \in Nat
              /\ rank[go[s]] \in Nat
          BY <5>1
        <5>3. rank[go[s]] < m
          BY <3>1, <5>2
        <5> QED
          BY <2>2, <4>1, <5>2, <5>3
      <4> QED
        BY <4>2, <4>3, <4>4
    <3> QED
      BY <3>1
  <2> HIDE DEF Same
  <2> QED
    BY <2>1, <2>2, NatSetInduction
<1> DEFINE f == [s \in S |-> G[rank[s] + 1][s]]
<1>6. ASSUME NEW s \in S
      PROVE  f[s] = IF s \in Stop THEN out[s] ELSE f[go[s]]
  <2>1. rank[s] \in Nat /\ f[s] = G[rank[s] + 1][s]
    OBVIOUS
  <2>2. f[s] = IF s \in Stop THEN out[s] ELSE G[rank[s]][go[s]]
    BY <1>4, <2>1
  <2>3. s \notin Stop => G[rank[s]][go[s]] = f[go[s]]
    <3>1. SUFFICES ASSUME s \notin Stop PROVE G[rank[s]][go[s]] = f[go[s]]
      OBVIOUS
    <3>2. go[s] \in S /\ rank[go[s]] \in Nat /\ rank[go[s]] + 1 <= rank[s]
      BY <2>1, <3>1
    <3>3. rank[go[s]] + 1 \in Same
      BY <1>5, <3>2
    <3>4. G[rank[s]][go[s]] = G[rank[go[s]] + 1][go[s]]
      BY <2>1, <3>2, <3>3
    <3> QED
      BY <3>2, <3>4
  <2> QED
    BY <2>2, <2>3
<1>7. f = [s \in S |-> IF s \in Stop THEN out[s] ELSE f[go[s]]]
  <2>1. f = [s \in S |-> f[s]]
    OBVIOUS
  <2> HIDE DEF f
  <2> QED
    BY <1>6, <2>1
<1> QED
  BY <1>7 DEF Loop

\* Induction along such a loop.
LEMMA LoopInduction ==
    ASSUME NEW S, NEW T, NEW rank \in [S -> Nat],
           \A s \in S : (\A t \in S : rank[t] < rank[s] => t \in T) => s \in T
    PROVE  \A s \in S : s \in T
<1> SUFFICES ASSUME NEW s \in S, s \notin T PROVE FALSE
  OBVIOUS
<1> DEFINE Bad == {n \in Nat : \E t \in S : t \notin T /\ rank[t] = n}
<1>1. rank[s] \in Bad
  OBVIOUS
<1>2. PICK n \in Bad : \A m \in Bad : n <= m
  <2>1. Bad \subseteq Nat /\ Bad # {}
    BY <1>1
  <2> HIDE DEF Bad
  <2> QED
    BY <2>1, NatLeast
<1>3. PICK t \in S : t \notin T /\ rank[t] = n
  OBVIOUS
<1>4. ASSUME NEW r \in S, rank[r] < rank[t] PROVE r \in T
  <2>1. r \notin T => rank[r] \in Bad
    OBVIOUS
  <2> QED
    BY <1>2, <1>3, <1>4, <2>1
<1> QED
  BY <1>3, <1>4

\* The same on an interval: f starts with a at 0 and goes on by step up to N.
GoesOn(f, a, step, N) ==
    f = [i \in 0 .. N |-> IF i = 0 THEN a ELSE step[<<i, f[i - 1]>>]]

LEMMA RecursionUpTo ==
    ASSUME NEW R, NEW a \in R, NEW N \in Nat, NEW step \in [(1 .. N) \X R -> R]
    PROVE  \E f \in [0 .. N -> R] : GoesOn(f, a, step, N)
<1> DEFINE go == [p \in Nat \X R |->
                    IF p[1] < N THEN step[<<p[1] + 1, p[2]>>] ELSE a]
<1>1. go \in [Nat \X R -> R]
  <2> SUFFICES ASSUME NEW n \in Nat, NEW r \in R
               PROVE  (IF n < N THEN step[<<n + 1, r>>] ELSE a) \in R
    BY Zenon
  <2> QED
    OBVIOUS
<1>2. \A n \in 0 .. N - 1, r \in R : go[<<n, r>>] = step[<<n + 1, r>>]
  OBVIOUS
<1> HIDE DEF go
<1>3. PICK f : f \in Approximations(R, a, go, N)
  <2>1. \A m \in Nat : Approximations(R, a, go, m) # {}
    BY <1>1, ApproximationsExist, Zenon
  <2> QED
    BY <2>1
<1>4. f \in [0 .. N -> R] /\ f[0] = a
      /\ \A k \in 0 .. N - 1 : f[k + 1] = go[<<k, f[k]>>]
  BY <1>3 DEF Approximations
<1>5. ASSUME NEW i \in 0 .. N
      PROVE  f[i] = IF i = 0 THEN a ELSE step[<<i, f[i - 1]>>]
  <2>1. CASE i = 0
    BY <1>4, <2>1
  <2>2. CASE i # 0
    <3>1. i - 1 \in 0 .. N - 1 /\ (i - 1) + 1 = i
      BY <2>2
    <3>2. f[i] = go[<<i - 1, f[i - 1]>>] /\ f[i - 1] \in R
      BY <1>4, <3>1
    <3> QED
      BY <1>2, <2>2, <3>1, <3>2
  <2> QED
    BY <2>1, <2>2
<1>6. GoesOn(f, a, step, N)
  BY <1>4, <1>5 DEF GoesOn
<1> QED
  BY <1>4, <1>6

\* The sums of the first numbers of g.
LEMMA PartialSums ==
    ASSUME NEW N \in Nat, NEW g \in [1 .. N -> Int]
    PROVE  \E f \in [0 .. N -> Int] :
              f = [i \in 0 .. N |-> IF i = 0 THEN 0 ELSE f[i - 1] + g[i]]
<1> DEFINE step == [p \in (1 .. N) \X Int |-> p[2] + g[p[1]]]
<1>1. step \in [(1 .. N) \X Int -> Int] /\ 0 \in Int
  OBVIOUS
<1> HIDE DEF step
<1>2. PICK f \in [0 .. N -> Int] : GoesOn(f, 0, step, N)
  BY <1>1, RecursionUpTo
<1>3. ASSUME NEW i \in 0 .. N
      PROVE  f[i] = IF i = 0 THEN 0 ELSE f[i - 1] + g[i]
  <2>1. CASE i = 0
    BY <1>2, <2>1 DEF GoesOn
  <2>2. CASE i # 0
    <3>1. i \in 1 .. N /\ f[i - 1] \in Int
      BY <2>2
    <3>2. step[<<i, f[i - 1]>>] = f[i - 1] + g[i]
      BY <3>1 DEF step
    <3>3. f[i] = step[<<i, f[i - 1]>>]
      BY <1>2, <2>2 DEF GoesOn
    <3> QED
      BY <2>2, <3>2, <3>3
  <2> QED
    BY <2>1, <2>2
<1>4. f = [i \in 0 .. N |-> IF i = 0 THEN 0 ELSE f[i - 1] + g[i]]
  BY <1>3
<1> QED
  BY <1>4
=============================================================================
