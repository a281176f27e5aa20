-------------------------- MODULE ScriptTree_proofs ---------------------------
(***************************************************************************)
(* The script tree of libfex, for any sequence of its calls, any names and *)
(* contents, and any number of objects: its lists stay what common.h's     *)
(* walks take them for, and its clients see the abstract script of Script. *)
(*                                                                         *)
(* The inductive invariant says that there are sequences L of hooks, one   *)
(* for each list head, that are the lists in memory (Rings), and that they *)
(* hold the hooks of the live sections and entries (Owned).  New hooks are *)
(* not on any list because all of them lie below heap_base.                *)
(*                                                                         *)
(* The lists come first, by the sequences of hooks that are on them: the   *)
(* walks find what is there, list_append adds a hook at the end, and       *)
(* list_remove takes one out and leaves the others in their order.         *)
(***************************************************************************)
EXTENDS ScriptTree, NatRecursion, FiniteSetTheorems

-----------------------------------------------------------------------------
(* The lists of common.h                                                   *)

\* Hooks in memory, each of which points to hooks.
Hooks(hk) ==
    /\ DOMAIN hk \subseteq Nat \ {NULL} /\ IsFiniteSet(DOMAIN hk)
    /\ hk \in [DOMAIN hk -> [prev : DOMAIN hk, next : DOMAIN hk]]

\* The i-th hook of a list with head h and elements s, the head before the
\* first and after the last.
At(h, s, i) == IF i \in 1 .. Len(s) THEN s[i] ELSE h

Ring(hk, h, s) ==
    \A i \in 0 .. Len(s) : /\ hk[At(h, s, i)].next = At(h, s, i + 1)
                           /\ hk[At(h, s, i + 1)].prev = At(h, s, i)

\* The lists in memory: L holds the elements of each, by its head.
Rings(hk, L) ==
    /\ DOMAIN L \subseteq DOMAIN hk
    /\ \A h \in DOMAIN L : L[h] \in Seq(DOMAIN hk) /\ Ring(hk, h, L[h])
    /\ \A h \in DOMAIN L : \A i \in 1 .. Len(L[h]) : L[h][i] \notin DOMAIN L
    /\ \A h, g \in DOMAIN L :
          \A i \in 1 .. Len(L[h]), j \in 1 .. Len(L[g]) :
             L[h][i] = L[g][j] => h = g /\ i = j

-----------------------------------------------------------------------------
LEMMA HooksType ==
    ASSUME NEW hk, Hooks(hk), NEW x \in DOMAIN hk
    PROVE  /\ hk[x].next \in DOMAIN hk /\ hk[x].prev \in DOMAIN hk
           /\ x \in Nat /\ x # NULL
BY DEF Hooks

LEMMA AtType ==
    ASSUME NEW hk, NEW L, Rings(hk, L), NEW h \in DOMAIN L, NEW i
    PROVE  /\ At(h, L[h], i) \in DOMAIN hk
           /\ Len(L[h]) \in Nat
           /\ \A k \in 1 .. Len(L[h]) : At(h, L[h], k) = L[h][k]
           /\ At(h, L[h], 0) = h
           /\ At(h, L[h], Len(L[h]) + 1) = h
<1>1. L[h] \in Seq(DOMAIN hk) /\ h \in DOMAIN hk
  BY DEF Rings
<1>2. PICK n \in Nat : Len(L[h]) = n
  BY <1>1
<1>3. \A k \in 1 .. n : L[h][k] \in DOMAIN hk
  BY <1>1, <1>2
<1> QED
  BY <1>1, <1>2, <1>3 DEF At

\* No hook is at two places of the lists.
LEMMA AtInjective ==
    ASSUME NEW hk, NEW L, Rings(hk, L), NEW h \in DOMAIN L, NEW g \in DOMAIN L,
           NEW i \in 0 .. Len(L[h]), NEW j \in 0 .. Len(L[g]),
           At(h, L[h], i) = At(g, L[g], j)
    PROVE  h = g /\ i = j
<1>1. PICK n \in Nat : Len(L[h]) = n
  BY AtType
<1>2. PICK m \in Nat : Len(L[g]) = m
  BY AtType
<1>3. CASE i \in 1 .. n /\ j \in 1 .. m
  BY <1>1, <1>2, <1>3 DEF Rings, At
<1>4. CASE i \in 1 .. n /\ j = 0
  BY <1>1, <1>2, <1>4 DEF Rings, At
<1>5. CASE i = 0 /\ j \in 1 .. m
  BY <1>1, <1>2, <1>5 DEF Rings, At
<1>6. CASE i = 0 /\ j = 0
  BY <1>1, <1>2, <1>6 DEF At
<1> QED
  BY <1>1, <1>2, <1>3, <1>4, <1>5, <1>6
\* A hook after the first is the next one's predecessor, and conversely.
LEMMA AtNeighbours ==
    ASSUME NEW hk, NEW L, Rings(hk, L), NEW h \in DOMAIN L,
           NEW i \in 0 .. Len(L[h])
    PROVE  /\ hk[At(h, L[h], i)].next = At(h, L[h], i + 1)
           /\ hk[At(h, L[h], i + 1)].prev = At(h, L[h], i)
BY DEF Rings, Ring

\* Where an address that is on the lists is.
LEMMA AtEnd ==
    ASSUME NEW hk, NEW L, Rings(hk, L), NEW h \in DOMAIN L
    PROVE  /\ hk[h].next = At(h, L[h], 1)
           /\ hk[h].prev = At(h, L[h], Len(L[h]))
<1>1. PICK n \in Nat : Len(L[h]) = n
  BY AtType
<1>2. 0 \in 0 .. n /\ n \in 0 .. n /\ 0 + 1 = 1
  OBVIOUS
<1>3. At(h, L[h], 0) = h /\ At(h, L[h], n + 1) = h
  BY <1>1, AtType
<1> QED
  BY <1>1, <1>2, <1>3, AtNeighbours

-----------------------------------------------------------------------------
\* nk is hk with the hook l written whole.
Written(nk, hk, l, prev, next) ==
    /\ DOMAIN nk = DOMAIN hk \cup {l}
    /\ nk[l].prev = prev /\ nk[l].next = next
    /\ nk[l] = [prev |-> prev, next |-> next]
    /\ nk = [x \in DOMAIN hk \cup {l} |-> nk[x]]
    /\ \A x \in DOMAIN hk : x # l => nk[x] = hk[x]

LEMMA WithHookWritten ==
    ASSUME NEW hk, NEW l, NEW prev, NEW next
    PROVE  Written(WithHook(hk, l, prev, next), hk, l, prev, next)
BY DEF Written, WithHook

\* list_init() on a new hook.
LEMMA InitHooks ==
    ASSUME NEW hk, Hooks(hk), NEW l \in Nat \ {NULL}
    PROVE  Hooks(list_init(hk, l))
<1> DEFINE nk == list_init(hk, l)
           D  == DOMAIN hk \cup {l}
<1>1. Written(nk, hk, l, l, l)
  BY WithHookWritten, Zenon DEF list_init
<1>2. IsFiniteSet(D)
  BY FS_AddElement DEF Hooks
<1> HIDE DEF nk
<1>3. /\ nk[l] = [prev |-> l, next |-> l]
      /\ DOMAIN nk = D /\ nk = [x \in D |-> nk[x]]
      /\ \A x \in DOMAIN hk : x # l => nk[x] = hk[x]
  BY <1>1 DEF Written
<1>4. ASSUME NEW x \in D PROVE nk[x] \in [prev : D, next : D]
  <2>1. CASE x = l
    BY <1>3, <2>1
  <2>2. CASE x # l
    <3>1. hk[x] \in [prev : DOMAIN hk, next : DOMAIN hk]
      BY <2>2 DEF Hooks
    <3> QED
      BY <1>3, <2>2, <3>1
  <2> QED
    BY <2>1, <2>2
<1>5. D \subseteq Nat \ {NULL}
  BY DEF Hooks
<1>6. Hooks(nk)
  BY <1>2, <1>3, <1>4, <1>5 DEF Hooks
<1> QED
  BY <1>6 DEF nk

\* What the lists look like with an empty one for the head l.
WithEmpty(L, l) == [h \in DOMAIN L \cup {l} |-> IF h = l THEN <<>> ELSE L[h]]

\* Lists none of whose hooks is touched.
LEMMA RingFrame ==
    ASSUME NEW hk, NEW nk, NEW h, NEW s, Ring(hk, h, s),
           \A i \in 0 .. Len(s) :
              /\ nk[At(h, s, i)].next = hk[At(h, s, i)].next
              /\ nk[At(h, s, i + 1)].prev = hk[At(h, s, i + 1)].prev
    PROVE  Ring(nk, h, s)
BY DEF Ring

LEMMA InitRings ==
    ASSUME NEW hk, NEW L, Rings(hk, L), NEW l, l \notin DOMAIN hk
    PROVE  Rings(list_init(hk, l), WithEmpty(L, l))
<1> DEFINE nk == list_init(hk, l)
           M  == WithEmpty(L, l)
<1>0. Written(nk, hk, l, l, l)
  BY WithHookWritten, Zenon DEF list_init
<1>2. DOMAIN M = DOMAIN L \cup {l} /\ M[l] = <<>>
      /\ \A h \in DOMAIN L : M[h] = L[h]
  BY DEF WithEmpty, Rings
<1> HIDE DEF nk, M
<1>1. /\ DOMAIN nk = DOMAIN hk \cup {l}
      /\ nk[l].prev = l /\ nk[l].next = l
      /\ \A x \in DOMAIN hk : nk[x] = hk[x]
  BY <1>0 DEF Written
<1>3. DOMAIN L \subseteq DOMAIN hk
  BY DEF Rings
<1>4. ASSUME NEW h \in DOMAIN M
      PROVE  M[h] \in Seq(DOMAIN nk) /\ Ring(nk, h, M[h])
  <2>1. CASE h = l
    BY <1>1, <1>2, <2>1 DEF Ring, At
  <2>2. CASE h # l
    <3>1. h \in DOMAIN L /\ M[h] = L[h]
      BY <1>2, <2>2
    <3>2. Ring(nk, h, L[h])
      <4>1. Ring(hk, h, L[h])
        BY <3>1 DEF Rings
      <4>2. \A i : nk[At(h, L[h], i)] = hk[At(h, L[h], i)]
        BY <1>1, <3>1, AtType
      <4> QED
        BY <4>1, <4>2, RingFrame
    <3>3. L[h] \in Seq(DOMAIN nk)
      BY <1>1, <3>1 DEF Rings
    <3> QED
      BY <3>1, <3>2, <3>3
  <2> QED
    BY <2>1, <2>2
<1>5. ASSUME NEW h \in DOMAIN M, NEW i \in 1 .. Len(M[h])
      PROVE  h \in DOMAIN L /\ M[h] = L[h] /\ M[h][i] \in DOMAIN hk
             /\ M[h][i] \notin DOMAIN L
  <2>1. h # l
    BY <1>2
  <2>2. h \in DOMAIN L /\ M[h] = L[h]
    BY <1>2, <2>1
  <2> QED
    BY <2>2, AtType DEF Rings
<1>6. \A h \in DOMAIN M : \A i \in 1 .. Len(M[h]) : M[h][i] \notin DOMAIN M
  BY <1>2, <1>5
<1>7. \A h, g \in DOMAIN M :
         \A i \in 1 .. Len(M[h]), j \in 1 .. Len(M[g]) :
            M[h][i] = M[g][j] => h = g /\ i = j
  <2> SUFFICES ASSUME NEW h \in DOMAIN M, NEW g \in DOMAIN M,
                      NEW i \in 1 .. Len(M[h]), NEW j \in 1 .. Len(M[g]),
                      M[h][i] = M[g][j]
               PROVE  h = g /\ i = j
    OBVIOUS
  <2>1. h \in DOMAIN L /\ M[h] = L[h] /\ g \in DOMAIN L /\ M[g] = L[g]
    BY <1>5
  <2> QED
    BY <2>1 DEF Rings
<1>8. DOMAIN M \subseteq DOMAIN nk
  BY <1>1, <1>2, <1>3
<1> QED
  BY <1>4, <1>6, <1>7, <1>8, Zenon DEF Rings, nk, M
-----------------------------------------------------------------------------
\* nk is hk where the hook p points forwards to n and the hook q back to m.
Relinked(nk, hk, p, n, q, m) ==
    /\ DOMAIN nk = DOMAIN hk
    /\ nk = [x \in DOMAIN hk |-> nk[x]]
    /\ \A x \in DOMAIN hk : nk[x] \in [prev : DOMAIN hk, next : DOMAIN hk]
    /\ \A x \in DOMAIN hk :
          /\ nk[x].next = (IF x = p THEN n ELSE hk[x].next)
          /\ nk[x].prev = (IF x = q THEN m ELSE hk[x].prev)

LEMMA RelinkedHooks ==
    ASSUME NEW hk, Hooks(hk), NEW nk, NEW p, NEW n, NEW q, NEW m,
           Relinked(nk, hk, p, n, q, m)
    PROVE  Hooks(nk)
BY DEF Relinked, Hooks

\* The assignments of list_inject() and list_remove().
LEMMA TwoLinks ==
    ASSUME NEW hk, Hooks(hk), NEW p \in DOMAIN hk, NEW n \in DOMAIN hk,
           NEW q \in DOMAIN hk, NEW m \in DOMAIN hk
    PROVE  Relinked([hk EXCEPT ![q].prev = m, ![p].next = n], hk, p, n, q, m)
<1> DEFINE D  == DOMAIN hk
           nk == [hk EXCEPT ![q].prev = m, ![p].next = n]
<1>1. hk \in [D -> [prev : D, next : D]]
  BY DEF Hooks
<1>2. DOMAIN nk = D /\ nk = [x \in D |-> nk[x]]
  BY <1>1
<1>3. ASSUME NEW x \in D
      PROVE  /\ nk[x] \in [prev : D, next : D]
             /\ nk[x].next = (IF x = p THEN n ELSE hk[x].next)
             /\ nk[x].prev = (IF x = q THEN m ELSE hk[x].prev)
  BY <1>1
<1> HIDE DEF nk
<1>4. Relinked(nk, hk, p, n, q, m)
  BY <1>2, <1>3 DEF Relinked
<1> QED
  BY <1>4 DEF nk

\* nk is hk with the new hook e before the head h.
Appended(nk, hk, h, e) ==
    /\ DOMAIN nk = DOMAIN hk \cup {e}
    /\ nk[e].next = h /\ nk[e].prev = hk[h].prev
    /\ \A x \in DOMAIN hk :
          /\ nk[x].next = (IF x = hk[h].prev THEN e ELSE hk[x].next)
          /\ nk[x].prev = (IF x = h THEN e ELSE hk[x].prev)

\* A new hook at the end of a list.
LEMMA AppendHook ==
    ASSUME NEW hk, Hooks(hk), NEW h \in DOMAIN hk,
           NEW e \in Nat \ {NULL}, e \notin DOMAIN hk
    PROVE  /\ Hooks(list_append(hk, h, e))
           /\ Appended(list_append(hk, h, e), hk, h, e)
<1> DEFINE p  == hk[h].prev
           wk == WithHook(hk, e, p, h)
           nk == list_append(hk, h, e)
           D  == DOMAIN hk \cup {e}
<1>0. p \in DOMAIN hk
  BY HooksType
<1>1. Written(wk, hk, e, p, h)
  BY WithHookWritten, Zenon
<1>n. nk = [wk EXCEPT ![h].prev = e, ![p].next = e]
  BY DEF list_append, list_inject
<1> HIDE DEF wk, nk, p
<1>2. Hooks(wk)
  <2>1. IsFiniteSet(D) /\ D \subseteq Nat \ {NULL}
    BY FS_AddElement DEF Hooks
  <2>2. ASSUME NEW x \in D PROVE wk[x] \in [prev : D, next : D]
    <3>1. CASE x = e
      BY <1>0, <1>1, <3>1 DEF Written
    <3>2. CASE x # e
      <4>1. hk[x] \in [prev : DOMAIN hk, next : DOMAIN hk]
        BY <3>2 DEF Hooks
      <4> QED
        BY <1>1, <3>2, <4>1 DEF Written
    <3> QED
      BY <3>1, <3>2
  <2> QED
    BY <1>1, <2>1, <2>2 DEF Written, Hooks
<1>3. DOMAIN wk = D /\ h \in D /\ e \in D /\ p \in D
  BY <1>0, <1>1 DEF Written
<1>4. Relinked(nk, wk, p, e, h, e)
  BY <1>2, <1>3, <1>n, TwoLinks
<1>5. Hooks(nk)
  BY <1>2, <1>4, RelinkedHooks
<1>6. h # e /\ p # e
  BY <1>0
<1>7. DOMAIN nk = D /\ nk[e].next = h /\ nk[e].prev = p
  BY <1>1, <1>3, <1>4, <1>6 DEF Relinked, Written
<1>8. ASSUME NEW x \in DOMAIN hk
      PROVE  /\ nk[x].next = (IF x = p THEN e ELSE hk[x].next)
             /\ nk[x].prev = (IF x = h THEN e ELSE hk[x].prev)
  <2>1. x # e /\ x \in D /\ wk[x] = hk[x]
    BY <1>1 DEF Written
  <2> QED
    BY <1>3, <1>4, <2>1 DEF Relinked
<1>9. Appended(nk, hk, h, e)
  BY <1>7, <1>8, Zenon DEF Appended, p
<1> QED
  BY <1>5, <1>9 DEF nk

\* A hook is taken out of a list.
LEMMA RemoveHook ==
    ASSUME NEW hk, Hooks(hk), NEW e \in DOMAIN hk
    PROVE  Relinked(list_remove(hk, e), hk, hk[e].prev, hk[e].next,
                    hk[e].next, hk[e].prev)
<1>1. hk[e].prev \in DOMAIN hk /\ hk[e].next \in DOMAIN hk
  BY HooksType
<1> QED
  BY <1>1, TwoLinks DEF list_remove
-----------------------------------------------------------------------------
\* The lists with the hook e at the end of the one with head h.
WithLast(L, h, e) ==
    [g \in DOMAIN L |-> IF g = h THEN Append(L[g], e) ELSE L[g]]

LEMMA AppendSeq ==
    ASSUME NEW S, NEW s \in Seq(S), NEW e
    PROVE  /\ Len(s) \in Nat /\ Len(Append(s, e)) = Len(s) + 1
           /\ \A i \in 1 .. Len(s) : Append(s, e)[i] = s[i]
           /\ Append(s, e)[Len(s) + 1] = e
           /\ Append(s, e) \in Seq(S \cup {e})
<1>1. s \in Seq(S \cup {e}) /\ e \in S \cup {e}
  OBVIOUS
<1> QED
  BY <1>1

\* The list it was appended to.
LEMMA AppendedHere ==
    ASSUME NEW hk, NEW L, Rings(hk, L), NEW h \in DOMAIN L,
           NEW e, e \notin DOMAIN hk, NEW nk, Appended(nk, hk, h, e)
    PROVE  Ring(nk, h, Append(L[h], e))
<1> DEFINE s == L[h]
           t == Append(s, e)
<1>1. PICK n \in Nat : Len(s) = n
  BY AtType
<1>2. s \in Seq(DOMAIN hk)
  BY DEF Rings
<1>3. Len(t) = n + 1 /\ t[n + 1] = e /\ \A i \in 1 .. n : t[i] = s[i]
  BY <1>1, <1>2, AppendSeq
<1>4. /\ \A i \in 0 .. n : At(h, t, i) = At(h, s, i)
      /\ At(h, t, n + 1) = e /\ At(h, t, n + 2) = h
  BY <1>1, <1>3 DEF At
<1>5. hk[h].prev = At(h, s, n)
  BY <1>1, AtEnd
<1> HIDE DEF s, t
<1>6. ASSUME NEW i \in 0 .. n + 1
      PROVE  /\ nk[At(h, t, i)].next = At(h, t, i + 1)
             /\ nk[At(h, t, i + 1)].prev = At(h, t, i)
  <2>1. CASE i \in 0 .. n - 1
    <3>1. i + 1 \in 0 .. n /\ i \in 0 .. n /\ i # n /\ i + 1 # 0
          /\ 0 \in 0 .. n /\ n \in 0 .. n
      BY <2>1
    <3>2. /\ At(h, s, i) # At(h, s, n) /\ At(h, s, i + 1) # At(h, s, 0)
          /\ At(h, s, 0) = h
      BY <1>1, <3>1, AtInjective, AtType DEF s
    <3>3. /\ hk[At(h, s, i)].next = At(h, s, i + 1)
          /\ hk[At(h, s, i + 1)].prev = At(h, s, i)
          /\ At(h, s, i) \in DOMAIN hk /\ At(h, s, i + 1) \in DOMAIN hk
      BY <1>1, <3>1, AtNeighbours, AtType DEF s
    <3> QED
      BY <1>4, <1>5, <3>1, <3>2, <3>3 DEF Appended
  <2>2. CASE i = n
    <3>1. At(h, s, n) \in DOMAIN hk
      BY AtType DEF s
    <3>2. At(h, t, n) = At(h, s, n) /\ At(h, t, n + 1) = e
      BY <1>4
    <3> QED
      BY <1>5, <2>2, <3>1, <3>2, Zenon DEF Appended
  <2>3. CASE i = n + 1
    <3>1. i + 1 = n + 2 /\ At(h, t, i) = e /\ At(h, t, i + 1) = h
      BY <1>4, <2>3
    <3>2. h \in DOMAIN hk
      BY DEF Rings
    <3> QED
      BY <3>1, <3>2 DEF Appended
  <2> QED
    BY <2>1, <2>2, <2>3
<1>7. Ring(nk, h, t)
  BY <1>3, <1>6 DEF Ring
<1> QED
  BY <1>7 DEF t, s

\* Any other.
LEMMA AppendedElsewhere ==
    ASSUME NEW hk, NEW L, Rings(hk, L), NEW h \in DOMAIN L,
           NEW e, e \notin DOMAIN hk, NEW nk, Appended(nk, hk, h, e),
           NEW g \in DOMAIN L, g # h
    PROVE  Ring(nk, g, L[g])
<1>1. PICK n \in Nat : Len(L[g]) = n
  BY AtType
<1>2. PICK m \in Nat : Len(L[h]) = m
  BY AtType
<1>3. hk[h].prev = At(h, L[h], m) /\ At(h, L[h], 0) = h
      /\ 0 \in 0 .. m /\ m \in 0 .. m
  BY <1>2, AtEnd, AtType
<1>4. ASSUME NEW i \in 0 .. n
      PROVE  At(g, L[g], i) \in DOMAIN hk \ {h, hk[h].prev}
  BY <1>1, <1>2, <1>3, AtInjective, AtType
<1>5. ASSUME NEW i \in 0 .. n
      PROVE  At(g, L[g], i + 1) \in DOMAIN hk \ {h, hk[h].prev}
  <2>1. CASE i + 1 \in 0 .. n
    BY <1>4, <2>1
  <2>2. CASE i = n
    <3>1. At(g, L[g], i + 1) = At(g, L[g], 0) /\ 0 \in 0 .. n
      BY <1>1, <2>2, AtType
    <3> QED
      BY <1>4, <3>1
  <2> QED
    BY <2>1, <2>2
<1>6. Ring(hk, g, L[g])
  BY DEF Rings
<1>7. \A i \in 0 .. n :
         /\ nk[At(g, L[g], i)].next = hk[At(g, L[g], i)].next
         /\ nk[At(g, L[g], i + 1)].prev = hk[At(g, L[g], i + 1)].prev
  BY <1>4, <1>5 DEF Appended
<1> QED
  BY <1>1, <1>6, <1>7, RingFrame
\* No hook is on the lists twice.
LEMMA OnlyOnce ==
    ASSUME NEW hk, NEW L, Rings(hk, L), NEW h \in DOMAIN L, NEW g \in DOMAIN L,
           NEW i \in 1 .. Len(L[h]), NEW j \in 1 .. Len(L[g]),
           L[h][i] = L[g][j]
    PROVE  h = g /\ i = j
BY DEF Rings

LEMMA RingsParts ==
    ASSUME NEW hk, NEW L,
           DOMAIN L \subseteq DOMAIN hk,
           \A h \in DOMAIN L : L[h] \in Seq(DOMAIN hk) /\ Ring(hk, h, L[h]),
           \A h \in DOMAIN L : \A i \in 1 .. Len(L[h]) : L[h][i] \notin DOMAIN L,
           \A h, g \in DOMAIN L :
              \A i \in 1 .. Len(L[h]), j \in 1 .. Len(L[g]) :
                 L[h][i] = L[g][j] => h = g /\ i = j
    PROVE  Rings(hk, L)
BY DEF Rings

LEMMA AppendRings ==
    ASSUME NEW hk, NEW L, Rings(hk, L), NEW h \in DOMAIN L,
           NEW e, e \notin DOMAIN hk, NEW nk, Appended(nk, hk, h, e)
    PROVE  Rings(nk, WithLast(L, h, e))
<1> DEFINE M == WithLast(L, h, e)
           s == L[h]
<1>1. PICK n \in Nat : Len(s) = n
  BY AtType
<1>2. DOMAIN M = DOMAIN L /\ M[h] = Append(s, e)
      /\ \A g \in DOMAIN L : g # h => M[g] = L[g]
  BY DEF WithLast
<1>3. DOMAIN nk = DOMAIN hk \cup {e} /\ DOMAIN L \subseteq DOMAIN hk
      /\ s \in Seq(DOMAIN hk)
  BY DEF Appended, Rings
<1>4. /\ Append(s, e) \in Seq(DOMAIN nk) /\ Len(Append(s, e)) = n + 1
      /\ Append(s, e)[n + 1] = e
      /\ \A i \in 1 .. n : Append(s, e)[i] = s[i]
  BY <1>1, <1>3, AppendSeq
<1> HIDE DEF M
<1>5. ASSUME NEW g \in DOMAIN M
      PROVE  M[g] \in Seq(DOMAIN nk) /\ Ring(nk, g, M[g])
  <2>1. CASE g = h
    BY <1>2, <1>4, <2>1, AppendedHere
  <2>2. CASE g # h
    <3>1. g \in DOMAIN L /\ M[g] = L[g]
      BY <1>2, <2>2
    <3>2. L[g] \in Seq(DOMAIN hk)
      BY <3>1 DEF Rings
    <3>3. L[g] \in Seq(DOMAIN nk)
      BY <1>3, <3>2
    <3>4. Ring(nk, g, L[g])
      BY <2>2, <3>1, AppendedElsewhere
    <3> QED
      BY <3>1, <3>3, <3>4
  <2> QED
    BY <2>1, <2>2
<1>6. ASSUME NEW g \in DOMAIN M, NEW i \in 1 .. Len(M[g])
      PROVE  \/ g = h /\ i = n + 1 /\ M[g][i] = e
             \/ i \in 1 .. Len(L[g]) /\ M[g][i] = L[g][i]
                /\ M[g][i] \in DOMAIN hk
  <2>1. CASE g = h
    <3>1. i \in 1 .. n + 1
      BY <1>2, <1>4, <2>1
    <3>2. CASE i = n + 1
      BY <1>2, <1>4, <2>1, <3>2
    <3>3. CASE i # n + 1
      <4>1. i \in 1 .. n
        BY <3>1, <3>3
      <4>2. M[g][i] = s[i] /\ s[i] \in DOMAIN hk
        BY <1>1, <1>2, <1>3, <1>4, <2>1, <4>1
      <4> QED
        BY <1>1, <2>1, <4>1, <4>2
    <3> QED
      BY <3>2, <3>3
  <2>2. CASE g # h
    <3>1. g \in DOMAIN L /\ M[g] = L[g]
      BY <1>2, <2>2
    <3>2. L[g][i] \in DOMAIN hk
      BY <3>1 DEF Rings
    <3> QED
      BY <3>1, <3>2
  <2> QED
    BY <2>1, <2>2
<1>7. \A g \in DOMAIN M : \A i \in 1 .. Len(M[g]) : M[g][i] \notin DOMAIN M
  <2> SUFFICES ASSUME NEW g \in DOMAIN M, NEW i \in 1 .. Len(M[g])
               PROVE  M[g][i] \notin DOMAIN M
    OBVIOUS
  <2>1. CASE M[g][i] = e
    BY <1>2, <1>3, <2>1
  <2>2. CASE i \in 1 .. Len(L[g]) /\ M[g][i] = L[g][i]
    BY <1>2, <2>2 DEF Rings
  <2> QED
    BY <1>6, <2>1, <2>2
<1>8. \A f, g \in DOMAIN M :
         \A i \in 1 .. Len(M[f]), j \in 1 .. Len(M[g]) :
            M[f][i] = M[g][j] => f = g /\ i = j
  <2> SUFFICES ASSUME NEW f \in DOMAIN M, NEW g \in DOMAIN M,
                      NEW i \in 1 .. Len(M[f]), NEW j \in 1 .. Len(M[g]),
                      M[f][i] = M[g][j]
               PROVE  f = g /\ i = j
    OBVIOUS
  <2>1. \/ f = h /\ i = n + 1 /\ M[f][i] = e
        \/ i \in 1 .. Len(L[f]) /\ M[f][i] = L[f][i] /\ M[f][i] \in DOMAIN hk
    BY <1>6
  <2>2. \/ g = h /\ j = n + 1 /\ M[g][j] = e
        \/ j \in 1 .. Len(L[g]) /\ M[g][j] = L[g][j] /\ M[g][j] \in DOMAIN hk
    BY <1>6
  <2>3. f \in DOMAIN L /\ g \in DOMAIN L
    BY <1>2
  <2>4. CASE i \in 1 .. Len(L[f]) /\ M[f][i] = L[f][i]
             /\ j \in 1 .. Len(L[g]) /\ M[g][j] = L[g][j]
    <3>1. L[f][i] = L[g][j] /\ i \in 1 .. Len(L[f]) /\ j \in 1 .. Len(L[g])
      BY <2>4, Zenon
    <3> QED
      BY <2>3, <3>1, SMT DEF Rings
  <2> QED
    BY <2>1, <2>2, <2>4
<1>9. DOMAIN M \subseteq DOMAIN nk
  BY <1>2, <1>3
<1>10. Rings(nk, M)
  BY <1>5, <1>7, <1>8, <1>9, RingsParts
<1> QED
  BY <1>10 DEF M

-----------------------------------------------------------------------------
\* The sequence s without its i-th element.
Cut(s, i) == [j \in 1 .. Len(s) - 1 |-> IF j < i THEN s[j] ELSE s[j + 1]]

LEMMA CutSeq ==
    ASSUME NEW S, NEW s \in Seq(S), NEW i \in 1 .. Len(s)
    PROVE  /\ Cut(s, i) \in Seq(S) /\ Len(Cut(s, i)) = Len(s) - 1
           /\ Len(s) \in Nat
           /\ \A j \in 1 .. Len(s) - 1 :
                 Cut(s, i)[j] = IF j < i THEN s[j] ELSE s[j + 1]
<1>1. PICK n \in Nat : Len(s) = n
  OBVIOUS
<1>2. \A j \in 1 .. n : s[j] \in S
  BY <1>1
<1>3. ASSUME NEW j \in 1 .. n - 1
      PROVE  (IF j < i THEN s[j] ELSE s[j + 1]) \in S
  BY <1>1, <1>2
<1>4. n - 1 \in Nat
  BY <1>1
<1>5. Cut(s, i) \in [1 .. n - 1 -> S]
  BY <1>1, <1>3 DEF Cut
<1>6. Cut(s, i) \in Seq(S) /\ Len(Cut(s, i)) = n - 1
  BY <1>4, <1>5
<1> QED
  BY <1>1, <1>6 DEF Cut

\* The lists without the i-th hook of the one with head h.
WithoutAt(L, h, i) ==
    [g \in DOMAIN L |-> IF g = h THEN Cut(L[g], i) ELSE L[g]]
\* Where the hooks of a list are once the i-th is out.
LEMMA AtCut ==
    ASSUME NEW hk, NEW L, Rings(hk, L), NEW h \in DOMAIN L,
           NEW i \in 1 .. Len(L[h])
    PROVE  /\ \A j \in 0 .. i - 1 : At(h, Cut(L[h], i), j) = At(h, L[h], j)
           /\ \A j \in i .. Len(L[h]) :
                 At(h, Cut(L[h], i), j) = At(h, L[h], j + 1)
<1> DEFINE s == L[h]
           t == Cut(s, i)
<1>1. PICK n \in Nat : Len(s) = n
  BY AtType
<1>2. s \in Seq(DOMAIN hk)
  BY DEF Rings
<1>3. Len(t) = n - 1
      /\ \A j \in 1 .. n - 1 : t[j] = IF j < i THEN s[j] ELSE s[j + 1]
  BY <1>1, <1>2, CutSeq
<1> HIDE DEF t, s
<1>4. \A j \in 0 .. i - 1 : At(h, t, j) = At(h, s, j)
  BY <1>1, <1>3 DEF At, s
<1>5. \A j \in i .. n : At(h, t, j) = At(h, s, j + 1)
  BY <1>1, <1>3 DEF At, s
<1> QED
  BY <1>1, <1>4, <1>5 DEF t, s

\* The list it was taken from.
LEMMA RemovedHere ==
    ASSUME NEW hk, NEW L, Rings(hk, L), NEW h \in DOMAIN L,
           NEW k \in 1 .. Len(L[h]), NEW nk,
           Relinked(nk, hk, At(h, L[h], k - 1), At(h, L[h], k + 1),
                    At(h, L[h], k + 1), At(h, L[h], k - 1))
    PROVE  Ring(nk, h, Cut(L[h], k))
<1> DEFINE s == L[h]
           t == Cut(s, k)
           p == At(h, s, k - 1)
           q == At(h, s, k + 1)
<1>1. PICK n \in Nat : Len(s) = n
  BY AtType
<1>2. s \in Seq(DOMAIN hk) /\ h \in DOMAIN hk
  BY DEF Rings
<1>3. Len(t) = n - 1
  BY <1>1, <1>2, CutSeq
<1>4. /\ \A j \in 0 .. k - 1 : At(h, t, j) = At(h, s, j)
      /\ \A j \in k .. n : At(h, t, j) = At(h, s, j + 1)
  BY <1>1, AtCut
<1>5. PICK m \in Nat : k = m + 1
  BY <1>1
<1>6. k \in 1 .. n /\ m + 1 \in 1 .. n /\ m \in 0 .. n /\ k - 1 = m /\ k + 1 = m + 2
  BY <1>1, <1>5
<1>7. \A j : At(h, s, j) \in DOMAIN hk
  BY AtType
<1>8. \A j \in 0 .. n : /\ hk[At(h, s, j)].next = At(h, s, j + 1)
                        /\ hk[At(h, s, j + 1)].prev = At(h, s, j)
  BY <1>1, AtNeighbours
<1>9. \A x \in DOMAIN hk :
         /\ nk[x].next = (IF x = p THEN q ELSE hk[x].next)
         /\ nk[x].prev = (IF x = q THEN p ELSE hk[x].prev)
  BY DEF Relinked
\* The predecessor of a hook is no other hook's.
<1>10. \A i, j \in 0 .. n : At(h, s, i) = At(h, s, j) => i = j
  BY <1>1, AtInjective
<1>11. \A i, j \in 0 .. n : At(h, s, i + 1) = At(h, s, j + 1) => i = j
  BY <1>8, <1>10
<1>12. p = At(h, s, m) /\ q = At(h, s, m + 2)
  BY <1>6
<1> HIDE DEF s, t, p, q
<1>13. ASSUME NEW i \in 0 .. n - 1
       PROVE  /\ nk[At(h, t, i)].next = At(h, t, i + 1)
              /\ nk[At(h, t, i + 1)].prev = At(h, t, i)
  <2>1. CASE i < m
    <3>1. i \in 0 .. n /\ i + 1 \in 0 .. k - 1 /\ i \in 0 .. k - 1
          /\ m + 1 \in 0 .. n /\ i # m /\ i # m + 1
      BY <1>6, <2>1
    <3>2. At(h, t, i) = At(h, s, i) /\ At(h, t, i + 1) = At(h, s, i + 1)
      BY <1>4, <3>1
    <3>3. At(h, s, i) # p
      BY <1>6, <1>10, <1>12, <3>1
    <3>4. At(h, s, i + 1) # q
      <4>1. q = At(h, s, (m + 1) + 1)
        BY <1>12
      <4> QED
        BY <1>11, <3>1, <4>1
    <3> QED
      BY <1>7, <1>8, <1>9, <3>1, <3>2, <3>3, <3>4
  <2>2. CASE i = m
    <3>1. At(h, t, i) = p /\ At(h, t, i + 1) = q
      <4>1. m \in 0 .. k - 1 /\ m + 1 \in k .. n /\ (m + 1) + 1 = m + 2
        BY <1>5, <1>6
      <4> QED
        BY <1>4, <1>12, <2>2, <4>1
    <3>2. p \in DOMAIN hk /\ q \in DOMAIN hk
      BY <1>7, <1>12
    <3> QED
      BY <1>9, <3>1, <3>2
  <2>3. CASE i > m
    <3>1. i \in k .. n /\ i + 1 \in k .. n /\ i + 1 \in 0 .. n /\ i + 1 # m
          /\ i + 1 # m + 1 /\ m + 1 \in 0 .. n
      BY <1>5, <1>6, <2>3
    <3>2. At(h, t, i) = At(h, s, i + 1) /\ At(h, t, i + 1) = At(h, s, (i + 1) + 1)
      BY <1>4, <3>1
    <3>3. At(h, s, i + 1) # p
      BY <1>6, <1>10, <1>12, <3>1
    <3>4. At(h, s, (i + 1) + 1) # q
      <4>1. q = At(h, s, (m + 1) + 1)
        BY <1>12
      <4> QED
        BY <1>11, <3>1, <4>1
    <3> QED
      BY <1>7, <1>8, <1>9, <3>1, <3>2, <3>3, <3>4
  <2> QED
    BY <2>1, <2>2, <2>3
<1>14. Ring(nk, h, t)
  BY <1>3, <1>13 DEF Ring
<1> QED
  BY <1>14 DEF t, s
\* Any other.
LEMMA RemovedElsewhere ==
    ASSUME NEW hk, NEW L, Rings(hk, L), NEW h \in DOMAIN L,
           NEW k \in 1 .. Len(L[h]), NEW nk,
           Relinked(nk, hk, At(h, L[h], k - 1), At(h, L[h], k + 1),
                    At(h, L[h], k + 1), At(h, L[h], k - 1)),
           NEW g \in DOMAIN L, g # h
    PROVE  Ring(nk, g, L[g])
<1> DEFINE p == At(h, L[h], k - 1)
           q == At(h, L[h], k + 1)
<1>1. PICK n \in Nat : Len(L[g]) = n
  BY AtType
<1>2. PICK m \in Nat : Len(L[h]) = m
  BY AtType
<1>3. k - 1 \in 0 .. m
  BY <1>2
\* The head closes the ring: both neighbours are on this list.
<1>4. PICK j \in 0 .. m : q = At(h, L[h], j)
  <2>1. CASE k = m
    <3>1. q = h /\ At(h, L[h], 0) = h /\ 0 \in 0 .. m
      BY <1>2, <2>1, AtType
    <3> QED
      BY <3>1
  <2>2. CASE k # m
    <3>1. k + 1 \in 0 .. m
      BY <1>2, <2>2
    <3> QED
      BY <3>1
  <2> QED
    BY <2>1, <2>2
<1>5. ASSUME NEW i \in 0 .. n
      PROVE  At(g, L[g], i) \in DOMAIN hk \ {p, q}
  <2>1. At(g, L[g], i) # p
    BY <1>1, <1>2, <1>3, AtInjective
  <2>2. At(g, L[g], i) # q
    BY <1>1, <1>2, <1>4, AtInjective
  <2> QED
    BY <2>1, <2>2, AtType
<1>6. ASSUME NEW i \in 0 .. n
      PROVE  At(g, L[g], i + 1) \in DOMAIN hk \ {p, q}
  <2>1. CASE i + 1 \in 0 .. n
    BY <1>5, <2>1
  <2>2. CASE i = n
    <3>1. At(g, L[g], i + 1) = At(g, L[g], 0) /\ 0 \in 0 .. n
      BY <1>1, <2>2, AtType
    <3> QED
      BY <1>5, <3>1
  <2> QED
    BY <2>1, <2>2
<1>7. Ring(hk, g, L[g])
  BY DEF Rings
<1> HIDE DEF p, q
<1>8. \A i \in 0 .. n :
         /\ nk[At(g, L[g], i)].next = hk[At(g, L[g], i)].next
         /\ nk[At(g, L[g], i + 1)].prev = hk[At(g, L[g], i + 1)].prev
  BY <1>5, <1>6 DEF Relinked, p, q
<1> QED
  BY <1>1, <1>7, <1>8, RingFrame

LEMMA RemoveRings ==
    ASSUME NEW hk, NEW L, Rings(hk, L), NEW h \in DOMAIN L,
           NEW k \in 1 .. Len(L[h]), NEW nk,
           Relinked(nk, hk, At(h, L[h], k - 1), At(h, L[h], k + 1),
                    At(h, L[h], k + 1), At(h, L[h], k - 1))
    PROVE  Rings(nk, WithoutAt(L, h, k))
<1> DEFINE M == WithoutAt(L, h, k)
           s == L[h]
<1>1. PICK n \in Nat : Len(s) = n
  BY AtType
<1>2. DOMAIN M = DOMAIN L /\ M[h] = Cut(s, k)
      /\ \A g \in DOMAIN L : g # h => M[g] = L[g]
  BY DEF WithoutAt
<1>3. DOMAIN nk = DOMAIN hk /\ DOMAIN L \subseteq DOMAIN hk
      /\ s \in Seq(DOMAIN hk)
  BY DEF Relinked, Rings
<1>4. /\ Cut(s, k) \in Seq(DOMAIN hk) /\ Len(Cut(s, k)) = n - 1
      /\ \A j \in 1 .. n - 1 : Cut(s, k)[j] = IF j < k THEN s[j] ELSE s[j + 1]
  BY <1>1, <1>3, CutSeq
<1> HIDE DEF M
<1>5. ASSUME NEW g \in DOMAIN M
      PROVE  M[g] \in Seq(DOMAIN nk) /\ Ring(nk, g, M[g])
  <2>1. CASE g = h
    <3>1. Ring(nk, h, Cut(s, k))
      BY RemovedHere, Zenon
    <3> QED
      BY <1>2, <1>3, <1>4, <2>1, <3>1
  <2>2. CASE g # h
    <3>1. g \in DOMAIN L /\ M[g] = L[g]
      BY <1>2, <2>2
    <3>2. L[g] \in Seq(DOMAIN nk)
      BY <1>3, <3>1 DEF Rings
    <3>3. Ring(nk, g, L[g])
      BY <2>2, <3>1, RemovedElsewhere, Zenon
    <3> QED
      BY <3>1, <3>2, <3>3
  <2> QED
    BY <2>1, <2>2
\* Each hook was on the list before, in the same order.
<1>6. ASSUME NEW g \in DOMAIN M, NEW i \in 1 .. Len(M[g])
      PROVE  \E j \in 1 .. Len(L[g]) :
                /\ M[g][i] = L[g][j]
                /\ j = IF g # h \/ i < k THEN i ELSE i + 1
  <2>1. CASE g = h
    <3>1. i \in 1 .. n - 1 /\ M[g][i] = IF i < k THEN s[i] ELSE s[i + 1]
      BY <1>2, <1>4, <2>1
    <3>2. (IF i < k THEN i ELSE i + 1) \in 1 .. n
      BY <1>1, <3>1
    <3> QED
      BY <1>1, <2>1, <3>1, <3>2
  <2>2. CASE g # h
    <3>1. g \in DOMAIN L /\ M[g] = L[g]
      BY <1>2, <2>2
    <3> QED
      BY <2>2, <3>1
  <2> QED
    BY <2>1, <2>2
<1>7. \A g \in DOMAIN M : \A i \in 1 .. Len(M[g]) : M[g][i] \notin DOMAIN M
  <2> SUFFICES ASSUME NEW g \in DOMAIN M, NEW i \in 1 .. Len(M[g])
               PROVE  M[g][i] \notin DOMAIN M
    OBVIOUS
  <2>1. PICK j \in 1 .. Len(L[g]) : M[g][i] = L[g][j]
    BY <1>6
  <2> QED
    BY <1>2, <2>1 DEF Rings
<1>8. \A f, g \in DOMAIN M :
         \A i \in 1 .. Len(M[f]), j \in 1 .. Len(M[g]) :
            M[f][i] = M[g][j] => f = g /\ i = j
  <2> SUFFICES ASSUME NEW f \in DOMAIN M, NEW g \in DOMAIN M,
                      NEW i \in 1 .. Len(M[f]), NEW j \in 1 .. Len(M[g]),
                      M[f][i] = M[g][j]
               PROVE  f = g /\ i = j
    OBVIOUS
  <2>1. PICK a \in 1 .. Len(L[f]) :
           M[f][i] = L[f][a] /\ a = IF f # h \/ i < k THEN i ELSE i + 1
    BY <1>6
  <2>2. PICK b \in 1 .. Len(L[g]) :
           M[g][j] = L[g][b] /\ b = IF g # h \/ j < k THEN j ELSE j + 1
    BY <1>6
  <2>3. f \in DOMAIN L /\ g \in DOMAIN L /\ L[f][a] = L[g][b]
    BY <1>2, <2>1, <2>2
  <2>4. f = g /\ a = b
    BY <2>3, OnlyOnce
  <2>5. i \in Int /\ j \in Int /\ k \in Int
    <3>1. PICK x \in Nat : Len(M[f]) = x
      BY <1>5
    <3>2. PICK y \in Nat : Len(M[g]) = y
      BY <1>5
    <3> QED
      BY <1>1, <3>1, <3>2
  <2> QED
    BY <2>1, <2>2, <2>4, <2>5
<1>9. DOMAIN M \subseteq DOMAIN nk
  BY <1>2, <1>3
<1>10. Rings(nk, M)
  BY <1>5, <1>7, <1>8, <1>9, RingsParts
<1> QED
  BY <1>10 DEF M
-----------------------------------------------------------------------------
LEMMA TurnsNat ==
    ASSUME NEW hk, Hooks(hk)
    PROVE  MaxTurns(hk) \in Nat
BY FS_CardinalityType DEF Hooks, MaxTurns

\* A list has no more hooks than there are.
LEMMA EnoughTurns ==
    ASSUME NEW hk, Hooks(hk), NEW L, Rings(hk, L), NEW h \in DOMAIN L
    PROVE  Len(L[h]) \in Nat /\ Len(L[h]) <= MaxTurns(hk)
<1>1. PICK n \in Nat : Len(L[h]) = n
  BY AtType
<1>2. L[h] \in Seq(DOMAIN hk)
  BY DEF Rings
<1> DEFINE f == [i \in 1 .. n |-> L[h][i]]
<1>3. f \in [1 .. n -> DOMAIN hk]
  BY <1>1, <1>2
<1>4. \A i, j \in 1 .. n : f[i] = f[j] => i = j
  BY <1>1 DEF Rings
<1>5. f \in Injection(1 .. n, DOMAIN hk)
  BY <1>3, <1>4 DEF Injection, IsInjective
<1>6. Cardinality(1 .. n) <= Cardinality(DOMAIN hk)
  BY <1>5, FS_Injection DEF Hooks
<1>7. Cardinality(1 .. n) = n
  <2>1. 1 \in Int /\ n \in Int
    OBVIOUS
  <2>2. Cardinality(1 .. n) = IF 1 > n THEN 0 ELSE n - 1 + 1
    BY <2>1, FS_Interval
  <2> QED
    BY <2>2
<1> QED
  BY <1>1, <1>6, <1>7 DEF MaxTurns

\* Where the loops over a list go.
LEMMA ListSteps ==
    ASSUME NEW hk, Hooks(hk), NEW L, Rings(hk, L), NEW h \in DOMAIN L
    PROVE  /\ list_first(hk, h) = (IF L[h] = <<>> THEN NULL ELSE L[h][1])
           /\ list_last(hk, h) = (IF L[h] = <<>> THEN NULL
                                  ELSE L[h][Len(L[h])])
           /\ \A i \in 1 .. Len(L[h]) :
                 /\ L[h][i] # h /\ L[h][i] \in DOMAIN hk
                 /\ list_next(hk, h, L[h][i])
                       = (IF i = Len(L[h]) THEN NULL ELSE L[h][i + 1])
                 /\ hk[L[h][i]].prev = (IF i = 1 THEN h ELSE L[h][i - 1])
<1>1. PICK n \in Nat : Len(L[h]) = n
  BY AtType
<1>2. L[h] \in Seq(DOMAIN hk)
  BY DEF Rings
<1>3. \A i \in 1 .. n : L[h][i] # h /\ L[h][i] \in DOMAIN hk
  BY <1>1, <1>2 DEF Rings
<1>4. hk[h].next = At(h, L[h], 1) /\ hk[h].prev = At(h, L[h], n)
  BY <1>1, AtEnd
<1>5. L[h] = <<>> <=> n = 0
  BY <1>1, <1>2
<1>6. CASE n = 0
  <2>1. hk[h].next = h /\ hk[h].prev = h
    BY <1>1, <1>4, <1>6 DEF At
  <2> QED
    BY <1>1, <1>5, <1>6, <2>1 DEF list_first, list_last
<1>7. CASE n # 0
  <2>1. 1 \in 1 .. n /\ n \in 1 .. n
    BY <1>7
  <2>2. hk[h].next = L[h][1] /\ hk[h].prev = L[h][n]
    BY <1>1, <1>4, <2>1 DEF At
  <2>3. L[h][1] # h /\ L[h][n] # h
    BY <1>3, <2>1
  <2>4. ASSUME NEW i \in 1 .. n
        PROVE  /\ list_next(hk, h, L[h][i])
                     = (IF i = n THEN NULL ELSE L[h][i + 1])
               /\ hk[L[h][i]].prev = (IF i = 1 THEN h ELSE L[h][i - 1])
    <3>1. hk[L[h][i]].next = At(h, L[h], i + 1)
      <4>1. i \in 0 .. n /\ At(h, L[h], i) = L[h][i]
        BY <1>1 DEF At
      <4> QED
        BY <1>1, <4>1, AtNeighbours
    <3>2. hk[L[h][i]].prev = At(h, L[h], i - 1)
      <4>1. i - 1 \in 0 .. n /\ (i - 1) + 1 = i /\ At(h, L[h], i) = L[h][i]
        BY <1>1 DEF At
      <4> QED
        BY <1>1, <4>1, AtNeighbours
    <3>3. At(h, L[h], i - 1) = (IF i = 1 THEN h ELSE L[h][i - 1])
      BY <1>1 DEF At
    <3>4. CASE i = n
      <4>1. At(h, L[h], i + 1) = h
        BY <1>1, <3>4 DEF At
      <4> QED
        BY <3>1, <3>2, <3>3, <3>4, <4>1, Zenon DEF list_next
    <3>5. CASE i # n
      <4>1. i + 1 \in 1 .. n
        BY <3>5
      <4>2. At(h, L[h], i + 1) = L[h][i + 1] /\ L[h][i + 1] # h
        BY <1>1, <1>3, <4>1 DEF At
      <4> QED
        BY <3>1, <3>2, <3>3, <3>5, <4>2, Zenon DEF list_next
    <3> QED
      BY <3>4, <3>5
  <2> QED
    BY <1>1, <1>3, <1>5, <1>7, <2>2, <2>3, <2>4 DEF list_first, list_last
<1> QED
  BY <1>6, <1>7
\* The rest of a list from its i-th hook, and its first i hooks.
LEMMA SubSeqSteps ==
    ASSUME NEW S, NEW s \in Seq(S), NEW i \in 1 .. Len(s)
    PROVE  /\ i = Len(s) => <<s[i]>> = SubSeq(s, i, Len(s))
           /\ i # Len(s) => <<s[i]>> \o SubSeq(s, i + 1, Len(s))
                               = SubSeq(s, i, Len(s))
           /\ i = 1 => <<s[i]>> = SubSeq(s, 1, i)
           /\ i # 1 => SubSeq(s, 1, i - 1) \o <<s[i]>> = SubSeq(s, 1, i)
           /\ SubSeq(s, 1, Len(s)) = s
<1>1. PICK n \in Nat : Len(s) = n
  OBVIOUS
<1>2. CASE i = n
  BY <1>1, <1>2
<1>3. CASE i # n
  BY <1>1, <1>3
<1> QED
  BY <1>1, <1>2, <1>3

\* Walking forwards (list_first and list_next) finds the hooks of a list.
LEMMA ForwardFinds ==
    ASSUME NEW hk, Hooks(hk), NEW L, Rings(hk, L), NEW h \in DOMAIN L
    PROVE  Forward(hk, h) = L[h]
<1> DEFINE N == MaxTurns(hk)
           D == DOMAIN hk
           s == L[h]
           R == [D \cup {NULL} -> Seq(Nat)]
           next(e) == list_next(hk, h, e)
           a == [e \in D \cup {NULL} |-> <<>>]
           step == [p \in (1 .. N) \X R |->
                       [e \in D \cup {NULL} |->
                           IF e = NULL THEN <<>> ELSE <<e>> \o p[2][next(e)]]]
           E(f) == f = [n \in 0 .. N |->
                          [e \in D \cup {NULL} |->
                             IF n = 0 \/ e = NULL THEN <<>>
                             ELSE <<e>> \o f[n - 1][next(e)]]]
           from == CHOOSE f : E(f)
<1>1. N \in Nat
  BY TurnsNat
<1>2. \A e \in D : next(e) \in D \cup {NULL} /\ e \in Nat /\ e # NULL
  BY HooksType DEF list_next
<1> HIDE DEF N, next
<1>3. a \in R
  OBVIOUS
<1>4. step \in [(1 .. N) \X R -> R]
  <2> SUFFICES ASSUME NEW i \in 1 .. N, NEW g \in R, NEW e \in D \cup {NULL}
               PROVE  (IF e = NULL THEN <<>> ELSE <<e>> \o g[next(e)]) \in Seq(Nat)
    BY Zenon
  <2>1. CASE e = NULL
    BY <2>1
  <2>2. CASE e # NULL
    <3>1. g[next(e)] \in Seq(Nat) /\ <<e>> \in Seq(Nat)
      BY <1>2, <2>2
    <3> QED
      BY <2>2, <3>1
  <2> QED
    BY <2>1, <2>2
<1> HIDE DEF R
<1>5. PICK f \in [0 .. N -> R] : GoesOn(f, a, step, N)
  <2> HIDE DEF a, step
  <2> QED
    BY <1>1, <1>3, <1>4, RecursionUpTo
<1>6. E(f)
  <2>1. ASSUME NEW n \in 0 .. N
        PROVE  f[n] = [e \in D \cup {NULL} |->
                          IF n = 0 \/ e = NULL THEN <<>>
                          ELSE <<e>> \o f[n - 1][next(e)]]
    <3>1. f[n] = IF n = 0 THEN a ELSE step[<<n, f[n - 1]>>]
      BY <1>5, Zenon DEF GoesOn
    <3>2. CASE n = 0
      BY <3>1, <3>2
    <3>3. CASE n # 0
      <4>1. n \in 1 .. N /\ f[n - 1] \in R
        BY <1>1, <1>5, <3>3
      <4>2. step[<<n, f[n - 1]>>]
              = [e \in D \cup {NULL} |->
                    IF e = NULL THEN <<>> ELSE <<e>> \o f[n - 1][next(e)]]
        BY <4>1
      <4> QED
        BY <3>1, <3>3, <4>2, Zenon
    <3> QED
      BY <3>2, <3>3
  <2>2. f = [n \in 0 .. N |-> f[n]]
    BY <1>5
  <2> QED
    BY <2>1, <2>2, Zenon
<1> HIDE DEF E
<1>7. E(from)
  BY <1>6, Zenon
<1>8. Forward(hk, h) = from[N][list_first(hk, h)]
  BY Zenon DEF Forward, E, N, next
<1> HIDE DEF from
<1>9. /\ \A n \in 0 .. N : from[n][NULL] = <<>>
      /\ \A n \in 1 .. N, e \in D : from[n][e] = <<e>> \o from[n - 1][next(e)]
  <2>1. ASSUME NEW n \in 0 .. N
        PROVE  from[n] = [e \in D \cup {NULL} |->
                             IF n = 0 \/ e = NULL THEN <<>>
                             ELSE <<e>> \o from[n - 1][next(e)]]
    BY <1>7, Zenon DEF E
  <2>2. ASSUME NEW n \in 0 .. N PROVE from[n][NULL] = <<>>
    BY <2>1, Zenon
  <2>3. ASSUME NEW n \in 1 .. N, NEW e \in D
        PROVE  from[n][e] = <<e>> \o from[n - 1][next(e)]
    <3>1. n \in 0 .. N /\ n # 0 /\ e # NULL
      BY <1>1, <1>2
    <3> QED
      BY <2>1, <3>1, Zenon
  <2> QED
    BY <2>2, <2>3
<1>10. s \in Seq(D)
  BY DEF Rings
<1>11. PICK m \in Nat : Len(s) = m /\ m <= N
  BY EnoughTurns DEF N
<1>12. \A i \in 1 .. m : /\ s[i] \in D
                          /\ next(s[i]) = IF i = m THEN NULL ELSE s[i + 1]
  BY <1>11, ListSteps DEF next
<1> DEFINE S == {n \in Nat : n <= N =>
                    \A i \in 1 .. m : n >= m - i + 1 =>
                        from[n][s[i]] = SubSeq(s, i, m)}
<1> HIDE DEF s
<1>13. 0 \in S
  BY <1>11
<1>14. ASSUME NEW n \in Nat, n \in S PROVE n + 1 \in S
  <2> SUFFICES ASSUME n + 1 <= N, NEW i \in 1 .. m, n + 1 >= m - i + 1
               PROVE  from[n + 1][s[i]] = SubSeq(s, i, m)
    OBVIOUS
  <2>1. from[n + 1][s[i]] = <<s[i]>> \o from[n][next(s[i])]
    <3>1. n + 1 \in 1 .. N /\ (n + 1) - 1 = n /\ s[i] \in D
      BY <1>1, <1>12
    <3>2. from[n + 1][s[i]] = <<s[i]>> \o from[(n + 1) - 1][next(s[i])]
      BY <1>9, <3>1, Zenon
    <3> QED
      BY <3>1, <3>2
  <2>2. CASE i = m
    <3>1. from[n][next(s[i])] = <<>>
      BY <1>1, <1>9, <1>12, <2>2
    <3>2. <<s[i]>> = SubSeq(s, i, m)
      BY <1>10, <1>11, <2>2, SubSeqSteps
    <3> QED
      BY <2>1, <3>1, <3>2
  <2>3. CASE i # m
    <3>1. i + 1 \in 1 .. m /\ n >= m - (i + 1) + 1 /\ n <= N
      BY <1>1, <2>3
    <3>2. from[n][s[i + 1]] = SubSeq(s, i + 1, m)
      BY <1>14, <3>1
    <3>3. <<s[i]>> \o SubSeq(s, i + 1, m) = SubSeq(s, i, m)
      BY <1>10, <1>11, <2>3, SubSeqSteps
    <3>4. next(s[i]) = s[i + 1]
      BY <1>12, <2>3
    <3> QED
      BY <2>1, <3>2, <3>3, <3>4
  <2> QED
    BY <2>2, <2>3
<1>15. \A n \in Nat : n \in S
  <2> HIDE DEF S
  <2> QED
    BY <1>13, <1>14, NatSetInduction
<1>16. CASE m = 0
  <2>1. s = <<>>
    BY <1>10, <1>11, <1>16
  <2>2. list_first(hk, h) = NULL
    BY <2>1, ListSteps DEF s
  <2>3. N \in 0 .. N
    BY <1>1
  <2> QED
    BY <1>8, <1>9, <2>1, <2>2, <2>3 DEF s
<1>17. CASE m # 0
  <2>1. s # <<>> /\ 1 \in 1 .. m /\ N >= m - 1 + 1 /\ N \in Nat
    BY <1>1, <1>11, <1>17
  <2>2. list_first(hk, h) = s[1]
    BY <2>1, ListSteps DEF s
  <2>3. from[N][s[1]] = SubSeq(s, 1, m)
    BY <1>15, <2>1
  <2>4. SubSeq(s, 1, m) = s
    BY <1>10, <1>11, <2>1, SubSeqSteps
  <2> QED
    BY <1>8, <2>2, <2>3, <2>4 DEF s
<1> QED
  BY <1>16, <1>17
\* Walking backwards (prev, until the head) finds the same hooks.
LEMMA BackwardFinds ==
    ASSUME NEW hk, Hooks(hk), NEW L, Rings(hk, L), NEW h \in DOMAIN L
    PROVE  Backward(hk, h) = L[h]
<1> DEFINE N == MaxTurns(hk)
           D == DOMAIN hk
           s == L[h]
           R == [D -> Seq(Nat)]
           prev(e) == hk[e].prev
           a == [e \in D |-> <<>>]
           step == [p \in (1 .. N) \X R |->
                       [e \in D |-> IF e = h THEN <<>>
                                    ELSE p[2][prev(e)] \o <<e>>]]
           E(f) == f = [n \in 0 .. N |->
                          [e \in D |-> IF n = 0 \/ e = h THEN <<>>
                                       ELSE f[n - 1][prev(e)] \o <<e>>]]
           from == CHOOSE f : E(f)
<1>1. N \in Nat
  BY TurnsNat
<1>2. \A e \in D : prev(e) \in D /\ e \in Nat
  BY HooksType
<1>8. Backward(hk, h) = from[N][prev(h)]
  BY Zenon DEF Backward
<1> HIDE DEF N, prev
<1>3. a \in R
  OBVIOUS
<1>4. step \in [(1 .. N) \X R -> R]
  <2> SUFFICES ASSUME NEW i \in 1 .. N, NEW g \in R, NEW e \in D
               PROVE  (IF e = h THEN <<>> ELSE g[prev(e)] \o <<e>>) \in Seq(Nat)
    BY Zenon
  <2>1. CASE e = h
    BY <2>1
  <2>2. CASE e # h
    <3>1. g[prev(e)] \in Seq(Nat) /\ <<e>> \in Seq(Nat)
      BY <1>2, <2>2
    <3> QED
      BY <2>2, <3>1
  <2> QED
    BY <2>1, <2>2
<1> HIDE DEF R
<1>5. PICK f \in [0 .. N -> R] : GoesOn(f, a, step, N)
  <2> HIDE DEF a, step
  <2> QED
    BY <1>1, <1>3, <1>4, RecursionUpTo
<1>6. E(f)
  <2>1. ASSUME NEW n \in 0 .. N
        PROVE  f[n] = [e \in D |-> IF n = 0 \/ e = h THEN <<>>
                                   ELSE f[n - 1][prev(e)] \o <<e>>]
    <3>1. f[n] = IF n = 0 THEN a ELSE step[<<n, f[n - 1]>>]
      BY <1>5, Zenon DEF GoesOn
    <3>2. CASE n = 0
      BY <3>1, <3>2
    <3>3. CASE n # 0
      <4>1. n \in 1 .. N /\ f[n - 1] \in R
        BY <1>1, <1>5, <3>3
      <4>2. step[<<n, f[n - 1]>>]
              = [e \in D |-> IF e = h THEN <<>>
                             ELSE f[n - 1][prev(e)] \o <<e>>]
        BY <4>1
      <4> QED
        BY <3>1, <3>3, <4>2, Zenon
    <3> QED
      BY <3>2, <3>3
  <2>2. f = [n \in 0 .. N |-> f[n]]
    BY <1>5
  <2> QED
    BY <2>1, <2>2, Zenon
<1> HIDE DEF E
<1>7. E(from)
  BY <1>6, Zenon
<1> HIDE DEF from
<1>9. /\ h \in D => \A n \in 0 .. N : from[n][h] = <<>>
      /\ \A n \in 1 .. N, e \in D :
            e # h => from[n][e] = from[n - 1][prev(e)] \o <<e>>
  <2>1. ASSUME NEW n \in 0 .. N
        PROVE  from[n] = [e \in D |-> IF n = 0 \/ e = h THEN <<>>
                                      ELSE from[n - 1][prev(e)] \o <<e>>]
    BY <1>7, Zenon DEF E
  <2>2. ASSUME h \in D, NEW n \in 0 .. N PROVE from[n][h] = <<>>
    BY <2>1, <2>2, Zenon
  <2>3. ASSUME NEW n \in 1 .. N, NEW e \in D, e # h
        PROVE  from[n][e] = from[n - 1][prev(e)] \o <<e>>
    <3>1. n \in 0 .. N /\ n # 0
      BY <1>1
    <3> QED
      BY <2>1, <2>3, <3>1, Zenon
  <2> QED
    BY <2>2, <2>3
<1>10. s \in Seq(D) /\ h \in D
  BY DEF Rings
<1>11. PICK m \in Nat : Len(s) = m /\ m <= N
  BY EnoughTurns DEF N
<1>12. \A i \in 1 .. m : /\ s[i] \in D /\ s[i] # h
                          /\ prev(s[i]) = IF i = 1 THEN h ELSE s[i - 1]
  BY <1>11, ListSteps DEF prev
<1> DEFINE S == {n \in Nat : n <= N =>
                    \A i \in 1 .. m : n >= i =>
                        from[n][s[i]] = SubSeq(s, 1, i)}
<1> HIDE DEF s
<1>13. 0 \in S
  BY <1>11
<1>14. ASSUME NEW n \in Nat, n \in S PROVE n + 1 \in S
  <2> SUFFICES ASSUME n + 1 <= N, NEW i \in 1 .. m, n + 1 >= i
               PROVE  from[n + 1][s[i]] = SubSeq(s, 1, i)
    OBVIOUS
  <2>1. from[n + 1][s[i]] = from[n][prev(s[i])] \o <<s[i]>>
    <3>1. n + 1 \in 1 .. N /\ (n + 1) - 1 = n /\ s[i] \in D /\ s[i] # h
      BY <1>1, <1>12
    <3>2. from[n + 1][s[i]] = from[(n + 1) - 1][prev(s[i])] \o <<s[i]>>
      BY <1>9, <3>1, Zenon
    <3> QED
      BY <3>1, <3>2
  <2>2. CASE i = 1
    <3>1. from[n][prev(s[i])] = <<>>
      BY <1>1, <1>9, <1>10, <1>12, <2>2
    <3>2. <<s[i]>> = SubSeq(s, 1, i)
      BY <1>10, <1>11, <2>2, SubSeqSteps
    <3> QED
      BY <2>1, <3>1, <3>2
  <2>3. CASE i # 1
    <3>1. i - 1 \in 1 .. m /\ n >= i - 1 /\ n <= N
      BY <1>1, <2>3
    <3>2. from[n][s[i - 1]] = SubSeq(s, 1, i - 1)
      BY <1>14, <3>1
    <3>3. SubSeq(s, 1, i - 1) \o <<s[i]>> = SubSeq(s, 1, i)
      BY <1>10, <1>11, <2>3, SubSeqSteps
    <3>4. prev(s[i]) = s[i - 1]
      BY <1>12, <2>3
    <3> QED
      BY <2>1, <3>2, <3>3, <3>4
  <2> QED
    BY <2>2, <2>3
<1>15. \A n \in Nat : n \in S
  <2> HIDE DEF S
  <2> QED
    BY <1>13, <1>14, NatSetInduction
<1>16. prev(h) = At(h, s, m)
  BY <1>11, AtEnd DEF s, prev
<1>17. CASE m = 0
  <2>1. s = <<>> /\ prev(h) = h /\ N \in 0 .. N
    BY <1>1, <1>10, <1>11, <1>16, <1>17 DEF At
  <2> QED
    BY <1>8, <1>9, <1>10, <2>1 DEF s
<1>18. CASE m # 0
  <2>1. m \in 1 .. m /\ N >= m /\ N \in Nat
    BY <1>1, <1>11, <1>18
  <2>2. prev(h) = s[m]
    BY <1>11, <1>16, <2>1 DEF At
  <2>3. from[N][s[m]] = SubSeq(s, 1, m)
    BY <1>15, <2>1
  <2>4. SubSeq(s, 1, m) = s
    BY <1>10, <1>11, <2>1, SubSeqSteps
  <2> QED
    BY <1>8, <2>2, <2>3, <2>4 DEF s
<1> QED
  BY <1>17, <1>18
\* v is what a search of the hooks s from the i-th on returns.
Found(s, off, name, i, v) ==
    \/ /\ v = NULL
       /\ \A j \in i .. Len(s) : objs[s[j] - off].name # name
    \/ \E j \in i .. Len(s) :
          /\ objs[s[j] - off].name = name /\ v = s[j] - off
          /\ \A k \in i .. j - 1 : objs[s[k] - off].name # name

LEMMA FoundStep ==
    ASSUME NEW s, Len(s) \in Nat, NEW off, NEW name, NEW i \in 1 .. Len(s), NEW v
    PROVE  /\ objs[s[i] - off].name = name /\ v = s[i] - off
                => Found(s, off, name, i, v)
           /\ objs[s[i] - off].name # name /\ i = Len(s) /\ v = NULL
                => Found(s, off, name, i, v)
           /\ objs[s[i] - off].name # name /\ Found(s, off, name, i + 1, v)
                => Found(s, off, name, i, v)
<1>1. PICK m \in Nat : Len(s) = m
  OBVIOUS
<1>2. ASSUME objs[s[i] - off].name = name, v = s[i] - off
      PROVE  Found(s, off, name, i, v)
  <2>1. i \in i .. Len(s) /\ i .. i - 1 = {}
    BY <1>1
  <2> QED
    BY <1>2, <2>1, Zenon DEF Found
<1>3. ASSUME objs[s[i] - off].name # name, i = Len(s), v = NULL
      PROVE  Found(s, off, name, i, v)
  <2>1. \A j \in i .. Len(s) : j = i
    BY <1>1, <1>3
  <2> QED
    BY <1>3, <2>1, Zenon DEF Found
<1>4. ASSUME objs[s[i] - off].name # name, Found(s, off, name, i + 1, v)
      PROVE  Found(s, off, name, i, v)
  <2>1. \A j \in i .. Len(s) : j = i \/ j \in i + 1 .. Len(s)
    BY <1>1
  <2>2. CASE v = NULL /\ \A j \in i + 1 .. Len(s) : objs[s[j] - off].name # name
    BY <1>4, <2>1, <2>2, Zenon DEF Found
  <2>3. ASSUME NEW j \in i + 1 .. Len(s),
               objs[s[j] - off].name = name, v = s[j] - off,
               \A k \in i + 1 .. j - 1 : objs[s[k] - off].name # name
        PROVE  Found(s, off, name, i, v)
    <3>1. j \in i .. Len(s) /\ \A k \in i .. j - 1 : k = i \/ k \in i + 1 .. j - 1
      BY <1>1
    <3>2. \A k \in i .. j - 1 : objs[s[k] - off].name # name
      BY <1>4, <2>3, <3>1, Zenon
    <3> QED
      BY <2>3, <3>1, <3>2, Zenon DEF Found
  <2> QED
    BY <1>4, <2>2, <2>3, Zenon DEF Found
<1> QED
  BY <1>2, <1>3, <1>4

\* The search (script_find_section, script_find_entry) returns the first
\* object of that name on the list.
LEMMA FindsFirst ==
    ASSUME Hooks(hooks), NEW L, Rings(hooks, L), NEW h \in DOMAIN L,
           NEW off \in Nat, NEW name
    PROVE  Found(L[h], off, name, 1, find_named(h, off, name))
<1> DEFINE N == MaxTurns(hooks)
           D == DOMAIN hooks
           s == L[h]
           R == [D \cup {NULL} -> Int]
           next(e) == list_next(hooks, h, e)
           hit(e) == objs[e - off].name = name
           a == [e \in D \cup {NULL} |-> NULL]
           step == [p \in (1 .. N) \X R |->
                       [e \in D \cup {NULL} |->
                           IF e = NULL THEN NULL
                           ELSE IF hit(e) THEN e - off ELSE p[2][next(e)]]]
           E(f) == f = [n \in 0 .. N |->
                          [e \in D \cup {NULL} |->
                  CASE n = 0 \/ e = NULL -> NULL
                    [] n # 0 /\ e # NULL /\ hit(e) -> e - off
                    [] OTHER -> f[n - 1][next(e)]]]
           from == CHOOSE f : E(f)
<1>1. N \in Nat
  BY TurnsNat
<1>2. \A e \in D : next(e) \in D \cup {NULL} /\ e \in Nat /\ e # NULL
                     /\ e - off \in Int
  BY HooksType DEF list_next
<1>8. find_named(h, off, name) = from[N][list_first(hooks, h)]
  BY Zenon DEF find_named
<1> HIDE DEF N, next, hit
<1>3. a \in R
  BY DEF NULL
<1>4. step \in [(1 .. N) \X R -> R]
  <2> SUFFICES ASSUME NEW i \in 1 .. N, NEW g \in R, NEW e \in D \cup {NULL}
               PROVE  (IF e = NULL THEN NULL
                       ELSE IF hit(e) THEN e - off ELSE g[next(e)]) \in Int
    BY Zenon
  <2>1. CASE e = NULL
    BY <2>1 DEF NULL
  <2>2. CASE e # NULL
    <3>1. g[next(e)] \in Int /\ e - off \in Int
      BY <1>2, <2>2
    <3> QED
      BY <2>2, <3>1, Zenon
  <2> QED
    BY <2>1, <2>2
<1> HIDE DEF R
<1>5. PICK f \in [0 .. N -> R] : GoesOn(f, a, step, N)
  <2> HIDE DEF a, step
  <2> QED
    BY <1>1, <1>3, <1>4, RecursionUpTo
<1>6. E(f)
  <2>1. ASSUME NEW n \in 0 .. N, NEW e \in D \cup {NULL}
        PROVE  f[n][e] = CASE n = 0 \/ e = NULL -> NULL
                           [] n # 0 /\ e # NULL /\ hit(e) -> e - off
                           [] OTHER -> f[n - 1][next(e)]
    <3>1. f[n] = IF n = 0 THEN a ELSE step[<<n, f[n - 1]>>]
      BY <1>5, Zenon DEF GoesOn
    <3>2. CASE n = 0
      BY <3>1, <3>2
    <3>3. CASE n # 0
      <4>1. n \in 1 .. N /\ f[n - 1] \in R
        BY <1>1, <1>5, <3>3
      <4>2. step[<<n, f[n - 1]>>][e]
              = (IF e = NULL THEN NULL
                 ELSE IF hit(e) THEN e - off ELSE f[n - 1][next(e)])
        BY <4>1
      <4>3. f[n][e] = (IF e = NULL THEN NULL
                 ELSE IF hit(e) THEN e - off ELSE f[n - 1][next(e)])
        BY <3>1, <3>3, <4>2, Zenon
      <4> HIDE DEF step, a
      <4> QED
        BY <3>3, <4>3
    <3> QED
      BY <3>2, <3>3
  <2>2. f = [n \in 0 .. N |-> [e \in D \cup {NULL} |-> f[n][e]]]
    BY <1>5 DEF R
  <2> QED
    BY <2>1, <2>2, Zenon
<1> HIDE DEF E
<1>7. E(from)
  BY <1>6, Zenon
<1> HIDE DEF from
<1>9. /\ \A n \in 0 .. N : from[n][NULL] = NULL
      /\ \A n \in 1 .. N, e \in D :
            from[n][e] = IF hit(e) THEN e - off ELSE from[n - 1][next(e)]
  <2>1. ASSUME NEW n \in 0 .. N, NEW e \in D \cup {NULL}
        PROVE  from[n][e] = CASE n = 0 \/ e = NULL -> NULL
                           [] n # 0 /\ e # NULL /\ hit(e) -> e - off
                           [] OTHER -> from[n - 1][next(e)]
    <3>1. from[n] = [x \in D \cup {NULL} |->
                        CASE n = 0 \/ x = NULL -> NULL
                          [] n # 0 /\ x # NULL /\ hit(x) -> x - off
                          [] OTHER -> from[n - 1][next(x)]]
      BY <1>7, Zenon DEF E
    <3> QED
      BY <3>1
  <2>2. ASSUME NEW n \in 0 .. N PROVE from[n][NULL] = NULL
    BY <2>1
  <2>3. ASSUME NEW n \in 1 .. N, NEW e \in D
        PROVE  from[n][e] = IF hit(e) THEN e - off ELSE from[n - 1][next(e)]
    <3>1. n \in 0 .. N /\ n # 0 /\ e # NULL
      BY <1>1, <1>2
    <3> QED
      BY <2>1, <3>1
  <2> QED
    BY <2>2, <2>3
<1>10. s \in Seq(D)
  BY DEF Rings
<1>11. PICK m \in Nat : Len(s) = m /\ m <= N
  BY EnoughTurns DEF N
<1>12. \A i \in 1 .. m : /\ s[i] \in D
                          /\ next(s[i]) = IF i = m THEN NULL ELSE s[i + 1]
  <2>1. \A i \in 1 .. Len(s) :
           /\ s[i] \in D
           /\ list_next(hooks, h, s[i]) = IF i = Len(s) THEN NULL ELSE s[i + 1]
    BY ListSteps
  <2> HIDE DEF s
  <2> QED
    BY <1>11, <2>1, Zenon DEF next
<1> DEFINE P(n, i) == Found(s, off, name, i, from[n][s[i]])
           S == {n \in Nat : n <= N =>
                    \A i \in 1 .. m : n >= m - i + 1 => P(n, i)}
<1> HIDE DEF s, P
<1>13. 0 \in S
  BY <1>11
<1>14. ASSUME NEW n \in Nat, n \in S PROVE n + 1 \in S
  <2> SUFFICES ASSUME n + 1 <= N, NEW i \in 1 .. m, n + 1 >= m - i + 1
               PROVE  P(n + 1, i)
    OBVIOUS
  <2> DEFINE v == from[n + 1][s[i]]
  <2>1. v = IF hit(s[i]) THEN s[i] - off ELSE from[n][next(s[i])]
    <3>1. n + 1 \in 1 .. N /\ (n + 1) - 1 = n /\ s[i] \in D
      BY <1>1, <1>12
    <3>2. v = IF hit(s[i]) THEN s[i] - off ELSE from[(n + 1) - 1][next(s[i])]
      BY <1>9, <3>1, Zenon
    <3> QED
      BY <3>1, <3>2, Zenon
  <2>s. /\ hit(s[i]) /\ v = s[i] - off => Found(s, off, name, i, v)
        /\ ~hit(s[i]) /\ i = m /\ v = NULL => Found(s, off, name, i, v)
        /\ ~hit(s[i]) /\ Found(s, off, name, i + 1, v)
              => Found(s, off, name, i, v)
    BY <1>11, FoundStep, Zenon DEF hit
  <2>5. P(n + 1, i) <=> Found(s, off, name, i, v)
    BY DEF P, v
  <2> HIDE DEF v
  <2>2. CASE hit(s[i])
    BY <2>1, <2>s, <2>2, <2>5
  <2>3. CASE ~hit(s[i]) /\ i = m
    <3>1. n \in 0 .. N /\ next(s[i]) = NULL
      BY <1>1, <1>12, <2>3
    <3>2. v = NULL
      BY <1>9, <2>1, <2>3, <3>1
    <3> QED
      BY <2>s, <2>3, <2>5, <3>2
  <2>4. CASE ~hit(s[i]) /\ i # m
    <3>1. i + 1 \in 1 .. m /\ n >= m - (i + 1) + 1 /\ n <= N
      BY <1>1, <2>4
    <3>2. P(n, i + 1)
      BY <1>14, <3>1
    <3>3. v = from[n][s[i + 1]]
      BY <1>12, <2>1, <2>4
    <3> QED
      BY <2>s, <2>4, <3>2, <3>3, Zenon DEF P, v
  <2> QED
    BY <2>2, <2>3, <2>4, <2>s, <2>5, Zenon
<1>15. \A n \in Nat : n \in S
  <2> HIDE DEF S
  <2> QED
    BY <1>13, <1>14, NatSetInduction
<1>16. CASE m = 0
  <2>1. s = <<>> /\ N \in 0 .. N /\ 1 .. Len(s) = {}
    BY <1>1, <1>10, <1>11, <1>16
  <2>2. list_first(hooks, h) = NULL
    BY <2>1, ListSteps DEF s
  <2>3. find_named(h, off, name) = NULL
    BY <1>8, <1>9, <2>1, <2>2
  <2> QED
    BY <2>1, <2>3, Zenon DEF s, Found
<1>17. CASE m # 0
  <2>1. s # <<>> /\ 1 \in 1 .. m /\ N >= m - 1 + 1 /\ N \in Nat /\ N <= N
    BY <1>1, <1>11, <1>17
  <2>2. list_first(hooks, h) = s[1]
    BY <2>1, ListSteps DEF s
  <2>3. P(N, 1)
    BY <1>15, <2>1
  <2> QED
    BY <1>8, <2>2, <2>3, Zenon DEF s, P
<1> QED
  BY <1>16, <1>17

-----------------------------------------------------------------------------
(* The script                                                              *)

SectionsOf(o) == {a \in DOMAIN o : o[a].kind = "section"}
EntriesOf(o)  == {a \in DOMAIN o : o[a].kind = "entry"}

\* The objects have their types and lie below base, but for blocks of no
\* bytes, which the next object overwrites.
Allocated(o, base) ==
    /\ base \in Nat \ {0} /\ IsFiniteSet(DOMAIN o)
    /\ o = [a \in DOMAIN o |-> o[a]]
    /\ \A a \in DOMAIN o :
          /\ a \in Nat \ {0} /\ o[a].len \in Nat
          /\ o[a].kind \in {"script", "section", "entry", "soc", "bytes"}
          /\ o[a].kind # "bytes" => a < base

\* The lists L are those of the tree at c and of its sections, and what is on
\* them are its sections and their entries.
Owned(o, c, L) ==
    /\ c \in Nat
    /\ DOMAIN L = ({c} \ {NULL}) \cup {s + ENTRIES_HEAD : s \in SectionsOf(o)}
    /\ c = NULL => SectionsOf(o) = {}
    /\ c # NULL => /\ c \in DOMAIN o /\ o[c].kind = "script"
                   /\ \A s \in SectionsOf(o) : c < s
                   /\ \A i \in 1 .. Len(L[c]) :
                         \E s \in SectionsOf(o) : L[c][i] = s + SECTIONS_HOOK
    /\ \A s \in SectionsOf(o) :
          /\ \E i \in 1 .. Len(L[c]) : L[c][i] = s + SECTIONS_HOOK
          /\ \A i \in 1 .. Len(L[s + ENTRIES_HEAD]) :
                \E e \in EntriesOf(o) :
                   L[s + ENTRIES_HEAD][i] = e + ENTRIES_HOOK
    /\ \A e \in EntriesOf(o) :
          \E s \in SectionsOf(o) :
             \E i \in 1 .. Len(L[s + ENTRIES_HEAD]) :
                L[s + ENTRIES_HEAD][i] = e + ENTRIES_HOOK

Shape(hk, o, c, base, L) ==
    /\ Hooks(hk) /\ \A x \in DOMAIN hk : x < base
    /\ Rings(hk, L)
    /\ Allocated(o, base)
    /\ Owned(o, c, L)

\* The inductive invariant.
TreeInv ==
    /\ ret \in Nat
    /\ \E L : Shape(hooks, objs, script, heap_base, L)

-----------------------------------------------------------------------------
\* Where a section and its entries hang from.
LEMMA OwnedLists ==
    ASSUME NEW o, NEW c, NEW L, Owned(o, c, L), NEW s \in SectionsOf(o)
    PROVE  /\ \E i \in 1 .. Len(L[c]) : L[c][i] = s + SECTIONS_HOOK
           /\ \A i \in 1 .. Len(L[s + ENTRIES_HEAD]) :
                 \E e \in EntriesOf(o) :
                    L[s + ENTRIES_HEAD][i] = e + ENTRIES_HOOK
BY Zenon DEF Owned

\* The heads and the tree of what a tree owns.
LEMMA OwnedHeads ==
    ASSUME NEW o, NEW base, Allocated(o, base), NEW c, NEW L, Owned(o, c, L),
           NEW s \in SectionsOf(o)
    PROVE  /\ s \in Nat /\ c < s /\ c \in Nat /\ c # NULL
           /\ c \in DOMAIN L /\ s + ENTRIES_HEAD \in DOMAIN L
           /\ s + ENTRIES_HEAD # c
           /\ \A r \in SectionsOf(o) :
                 r + ENTRIES_HEAD = s + ENTRIES_HEAD => r = s
<1>1. c # NULL /\ c \in Nat
  BY DEF Owned
<1>2. /\ c < s /\ c \in DOMAIN L /\ s + ENTRIES_HEAD \in DOMAIN L
  BY <1>1 DEF Owned
<1>3. \A r \in SectionsOf(o) : r \in Nat
  BY DEF Allocated, SectionsOf
<1> QED
  BY <1>1, <1>2, <1>3 DEF ENTRIES_HEAD

\* The hook at a place of a list belongs to the tree.
LEMMA AtKnown ==
    ASSUME NEW L, Shape(hooks, objs, script, heap_base, L), NEW h \in DOMAIN L,
           NEW i
    PROVE  At(h, L[h], i) \in Heads \cup Links
<1>1. Heads = DOMAIN L
  BY DEF Shape, Owned, Heads, Sections, SectionsOf, SCRIPT_HEAD, NULL
<1>2. CASE i \notin 1 .. Len(L[h])
  BY <1>1, <1>2 DEF At
<1>3. CASE i \in 1 .. Len(L[h])
  <2>1. At(h, L[h], i) = L[h][i]
    BY <1>3 DEF At
  <2>2. CASE h = script
    <3>1. script # NULL
      BY <2>2 DEF Shape, Owned, SectionsOf, ENTRIES_HEAD, NULL, Allocated
    <3> QED
      BY <1>3, <2>1, <2>2, <3>1
      DEF Shape, Owned, Links, Sections, SectionsOf
  <2>3. ASSUME NEW s \in SectionsOf(objs), h = s + ENTRIES_HEAD
        PROVE  At(h, L[h], i) \in Heads \cup Links
    <3>1. \E e \in EntriesOf(objs) : L[h][i] = e + ENTRIES_HOOK
      BY <1>3, <2>3 DEF Shape, Owned
    <3> QED
      BY <2>1, <3>1 DEF Links, Entries, EntriesOf
  <2>4. DOMAIN L = ({script} \ {NULL}) \cup {s + ENTRIES_HEAD : s \in SectionsOf(objs)}
    BY Zenon DEF Shape, Owned
  <2>5. h = script \/ \E s \in SectionsOf(objs) : h = s + ENTRIES_HEAD
    BY <2>4
  <2> QED
    BY <2>2, <2>3, <2>5, Zenon
<1> QED
  BY <1>2, <1>3

\* The lists are consistent when they have this shape.
LEMMA ShapeConsistent ==
    ASSUME NEW L, Shape(hooks, objs, script, heap_base, L)
    PROVE  ListsConsistent
<1>0. Hooks(hooks) /\ Rings(hooks, L)
  BY DEF Shape
<1>1. Heads = DOMAIN L
  BY DEF Shape, Owned, Heads, Sections, SectionsOf, SCRIPT_HEAD, NULL
<1>2. \A h \in Heads : Forward(hooks, h) = L[h] /\ Backward(hooks, h) = L[h]
  BY <1>0, <1>1, ForwardFinds, BackwardFinds
<1>3. \A h \in Heads : Len(L[h]) \in Nat /\ DOMAIN L[h] = 1 .. Len(L[h])
  BY <1>0, <1>1 DEF Rings
<1>4. ASSUME NEW l \in Links
      PROVE  \E h \in Heads : \E i \in 1 .. Len(L[h]) : L[h][i] = l
  <2>1. ASSUME NEW s \in Sections, l = s + SECTIONS_HOOK
        PROVE  \E h \in Heads : \E i \in 1 .. Len(L[h]) : L[h][i] = l
    <3>1. s \in SectionsOf(objs) /\ script # NULL /\ script \in DOMAIN L
      BY DEF Shape, Owned, Sections, SectionsOf
    <3>2. \E i \in 1 .. Len(L[script]) : L[script][i] = s + SECTIONS_HOOK
      BY <3>1 DEF Shape, Owned
    <3> QED
      BY <1>1, <2>1, <3>1, <3>2, Zenon
  <2>2. ASSUME NEW e \in Entries, l = e + ENTRIES_HOOK
        PROVE  \E h \in Heads : \E i \in 1 .. Len(L[h]) : L[h][i] = l
    BY <1>1, <2>2 DEF Shape, Owned, Entries, EntriesOf
  <2> QED
    BY <2>1, <2>2 DEF Links
<1> DEFINE On(l) == {h \in Heads : \E i \in DOMAIN Forward(hooks, h) :
                                      Forward(hooks, h)[i] = l}
<1>5. ASSUME NEW l \in Links PROVE Cardinality(On(l)) = 1
  <2>1. PICK h \in Heads : \E i \in 1 .. Len(L[h]) : L[h][i] = l
    BY <1>4
  <2>2. PICK i \in 1 .. Len(L[h]) : L[h][i] = l
    BY <2>1
  <2>3. h \in On(l)
    BY <1>2, <1>3, <2>2
  <2>4. ASSUME NEW g \in On(l) PROVE g = h
    <3>1. g \in DOMAIN L /\ h \in DOMAIN L
      BY <1>1
    <3>2. PICK j \in 1 .. Len(L[g]) : L[g][j] = l
      BY <1>2, <1>3
    <3> QED
      BY <1>0, <2>2, <3>1, <3>2 DEF Rings
  <2>5. On(l) = {h}
    BY <2>3, <2>4
  <2> HIDE DEF On
  <2> QED
    BY <2>5, FS_Singleton
<1>6. ASSUME NEW h \in DOMAIN L, NEW i \in 0 .. Len(L[h])
      PROVE  /\ hooks[At(h, L[h], i)].next \in Heads \cup Links
             /\ i > 0 => hooks[At(h, L[h], i)].prev \in Heads \cup Links
             /\ i = 0 => hooks[At(h, L[h], i)].prev \in Heads \cup Links
  <2>0. PICK m \in Nat : Len(L[h]) = m
    BY <1>0, AtType
  <2>1. hooks[At(h, L[h], i)].next = At(h, L[h], i + 1)
    BY <1>0, AtNeighbours
  <2>2. ASSUME i > 0 PROVE hooks[At(h, L[h], i)].prev = At(h, L[h], i - 1)
    <3>1. i - 1 \in 0 .. Len(L[h]) /\ (i - 1) + 1 = i
      BY <2>0, <2>2
    <3>2. hooks[At(h, L[h], (i - 1) + 1)].prev = At(h, L[h], i - 1)
      BY <1>0, <3>1, AtNeighbours
    <3> QED
      BY <3>1, <3>2
  <2>3. ASSUME i = 0 PROVE hooks[At(h, L[h], i)].prev = At(h, L[h], m)
    BY <1>0, <2>0, <2>3, AtEnd, AtType
  <2> QED
    BY <2>1, <2>2, <2>3, AtKnown
<1>7. ASSUME NEW l \in Heads \cup Links
      PROVE  {hooks[l].prev, hooks[l].next} \subseteq Heads \cup Links
  <2>1. PICK h \in DOMAIN L : \E i \in 0 .. Len(L[h]) : At(h, L[h], i) = l
    <3>1. CASE l \in Heads
      <4>1. 0 \in 0 .. Len(L[l]) /\ At(l, L[l], 0) = l
        BY <1>0, <1>1, <1>3, <3>1, AtType
      <4> QED
        BY <1>1, <3>1, <4>1
    <3>2. CASE l \in Links
      <4>1. PICK h \in Heads : \E i \in 1 .. Len(L[h]) : L[h][i] = l
        BY <1>4, <3>2
      <4>2. PICK i \in 1 .. Len(L[h]) : L[h][i] = l
        BY <4>1
      <4>3. i \in 0 .. Len(L[h]) /\ At(h, L[h], i) = l
        BY <1>3, <4>2 DEF At
      <4> QED
        BY <1>1, <4>3
    <3> QED
      BY <3>1, <3>2
  <2>2. PICK i \in 0 .. Len(L[h]) : At(h, L[h], i) = l
    BY <2>1
  <2>3. i = 0 \/ i > 0
    BY <1>1, <1>3
  <2> QED
    BY <1>6, <2>2, <2>3
<1> QED
  BY <1>2, <1>5, <1>7 DEF ListsConsistent

LEMMA InvConsistent ==
    ASSUME TreeInv PROVE ListsConsistent
BY ShapeConsistent DEF TreeInv

\* The type invariant follows.
LEMMA InvTyped ==
    ASSUME TreeInv PROVE TreeTypeOK
<1>1. PICK L : Shape(hooks, objs, script, heap_base, L)
  BY DEF TreeInv
<1>2. \A l \in DOMAIN hooks : hooks[l].prev \in Nat /\ hooks[l].next \in Nat
  BY <1>1, HooksType DEF Shape
<1> QED
  BY <1>1, <1>2
  DEF TreeInv, TreeTypeOK, Shape, Owned, Allocated, Addresses, NULL
-----------------------------------------------------------------------------
(* Allocation                                                              *)

\* malloc never hands out less than it was asked for (memory.c).
LEMMA AlignedEnough ==
    ASSUME NEW size \in Nat
    PROVE  aligned(size) \in Nat /\ size <= aligned(size)
BY DEF aligned

\* The objects with x at the address a.
Put(o, a, x) == [b \in DOMAIN o \cup {a} |-> IF b = a THEN x ELSE o[b]]

LEMMA AllocatedPut ==
    ASSUME NEW o, NEW base, Allocated(o, base), NEW size \in Nat, NEW x,
           x.len \in Nat, x.kind \in {"script", "section", "entry", "soc", "bytes"},
           x.kind # "bytes" => size > 0
    PROVE  Allocated(Put(o, base, x), base + aligned(size))
<1> DEFINE no == Put(o, base, x)
           nb == base + aligned(size)
           Kinds == {"script", "section", "entry", "soc", "bytes"}
<1>1. /\ nb \in Nat \ {0} /\ base \in Nat \ {0}
      /\ size > 0 => base < nb
      /\ \A a \in Nat : a < base => a < nb
  <2>1. PICK n \in Nat : aligned(size) = n /\ size <= n
    BY AlignedEnough
  <2> QED
    BY <2>1 DEF Allocated
<1>2. DOMAIN no = DOMAIN o \cup {base} /\ no[base] = x
      /\ \A a \in DOMAIN o \ {base} : no[a] = o[a]
  BY DEF Put
<1>3. IsFiniteSet(DOMAIN o \cup {base})
  BY FS_AddElement DEF Allocated
<1>4. \A a \in DOMAIN o : /\ a \in Nat \ {0} /\ o[a].len \in Nat
                          /\ o[a].kind \in Kinds
                          /\ o[a].kind # "bytes" => a < base
  BY DEF Allocated
<1>5. x.len \in Nat /\ x.kind \in Kinds /\ (x.kind # "bytes" => size > 0)
  OBVIOUS
<1>8. no = [a \in DOMAIN no |-> no[a]]
  BY DEF Put
<1> HIDE DEF no, nb, Kinds
<1>6. ASSUME NEW a \in DOMAIN no
      PROVE  /\ a \in Nat \ {0} /\ no[a].len \in Nat
             /\ no[a].kind \in Kinds
             /\ no[a].kind # "bytes" => a < nb
  <2>1. CASE a = base
    <3>1. no[a] = x
      BY <1>2, <2>1
    <3> QED
      BY <1>1, <1>5, <2>1, <3>1, Zenon
  <2>2. CASE a # base
    <3>1. a \in DOMAIN o /\ no[a] = o[a]
      BY <1>2, <2>2
    <3>2. a \in Nat /\ (o[a].kind # "bytes" => a < base)
      BY <1>4, <3>1
    <3>3. o[a].kind # "bytes" => a < nb
      BY <1>1, <3>2, Zenon
    <3> QED
      BY <1>4, <3>1, <3>3, Zenon
  <2> QED
    BY <2>1, <2>2
<1>7. Allocated(no, nb)
  BY <1>1, <1>2, <1>3, <1>6, <1>8, Zenon DEF Allocated, Kinds
<1> QED
  BY <1>7 DEF no, nb

\* Which sections and entries there are after it, and that nothing live was
\* overwritten.
LEMMA PutKinds ==
    ASSUME NEW o, NEW base, Allocated(o, base), NEW x
    PROVE  /\ base \notin SectionsOf(o) \cup EntriesOf(o)
           /\ SectionsOf(Put(o, base, x))
                = SectionsOf(o) \cup {a \in {base} : x.kind = "section"}
           /\ EntriesOf(Put(o, base, x))
                = EntriesOf(o) \cup {a \in {base} : x.kind = "entry"}
           /\ \A a \in DOMAIN o : o[a].kind # "bytes" =>
                 a # base /\ Put(o, base, x)[a] = o[a] /\ a \in DOMAIN Put(o, base, x)
<1>1. \A a \in DOMAIN o : o[a].kind # "bytes" => a # base
  BY DEF Allocated
<1>2. DOMAIN Put(o, base, x) = DOMAIN o \cup {base}
      /\ Put(o, base, x)[base] = x
      /\ \A a \in DOMAIN o \ {base} : Put(o, base, x)[a] = o[a]
  BY DEF Put
<1> QED
  BY <1>1, <1>2 DEF SectionsOf, EntriesOf

\* A block that is no part of the tree leaves it alone.
LEMMA OwnedPut ==
    ASSUME NEW o, NEW base, Allocated(o, base), NEW x, NEW c, NEW L,
           Owned(o, c, L), x.kind \notin {"section", "entry"}
    PROVE  Owned(Put(o, base, x), c, L)
<1>1. SectionsOf(Put(o, base, x)) = SectionsOf(o)
      /\ EntriesOf(Put(o, base, x)) = EntriesOf(o)
  BY PutKinds
<1>2. c # NULL => c \in DOMAIN Put(o, base, x)
                  /\ Put(o, base, x)[c].kind = "script"
  BY PutKinds DEF Owned
<1> QED
  BY <1>1, <1>2 DEF Owned

-----------------------------------------------------------------------------
(* Construction                                                            *)

\* script_new() builds an empty tree.
LEMMA NewScriptShape ==
    ASSUME NEW hk, NEW o, NEW base, NEW L, Shape(hk, o, NULL, base, L),
           NEW x, x.kind = "script", x.len \in Nat
    PROVE  Shape(list_init(hk, base + SCRIPT_HEAD), Put(o, base, x), base,
                 base + aligned(SIZEOF_SCRIPT), WithEmpty(L, base))
<1> DEFINE nk == list_init(hk, base + SCRIPT_HEAD)
           nb == base + aligned(SIZEOF_SCRIPT)
           no == Put(o, base, x)
           M  == WithEmpty(L, base)
<1>1. Hooks(hk) /\ Rings(hk, L) /\ Allocated(o, base) /\ Owned(o, NULL, L)
      /\ \A y \in DOMAIN hk : y < base
  BY DEF Shape
<1>2. base \in Nat \ {NULL} /\ base + SCRIPT_HEAD = base /\ base \notin DOMAIN hk
      /\ \A y \in DOMAIN hk : y \in Nat
  BY <1>1 DEF Allocated, NULL, SCRIPT_HEAD, Hooks
<1>3. nb \in Nat /\ base < nb
  BY <1>2 DEF aligned, SIZEOF_SCRIPT
<1>4. Allocated(no, nb)
  BY <1>1, AllocatedPut DEF SIZEOF_SCRIPT
<1>5. Hooks(nk) /\ Rings(nk, M)
  BY <1>1, <1>2, InitHooks, InitRings, Zenon
<1>6. \A y \in DOMAIN nk : y < nb
  <2>1. DOMAIN nk = DOMAIN hk \cup {base}
    BY <1>2 DEF list_init, WithHook
  <2> QED
    BY <1>1, <1>2, <1>3, <2>1
<1>7. SectionsOf(no) = {} /\ EntriesOf(no) = {}
  <2>1. SectionsOf(o) = {} /\ EntriesOf(o) = {}
    BY <1>1 DEF Owned
  <2> QED
    BY <1>1, <2>1, PutKinds
<1>8. Owned(no, base, M)
  <2>1. DOMAIN M = {base} /\ M[base] = <<>>
    BY <1>1 DEF WithEmpty, Owned
  <2>2. base \in DOMAIN no /\ no[base].kind = "script"
    BY DEF Put
  <2> HIDE DEF M, no
  <2> QED
    BY <1>2, <1>7, <2>1, <2>2 DEF Owned
<1> QED
  BY <1>3, <1>4, <1>5, <1>6, <1>8, Zenon DEF Shape
\* list_append() on the lists.
LEMMA AppendList ==
    ASSUME NEW hk, NEW L, Hooks(hk), Rings(hk, L), NEW h \in DOMAIN L,
           NEW e \in Nat \ {NULL}, e \notin DOMAIN hk
    PROVE  /\ Hooks(list_append(hk, h, e))
           /\ DOMAIN list_append(hk, h, e) = DOMAIN hk \cup {e}
           /\ Rings(list_append(hk, h, e), WithLast(L, h, e))
<1>1. h \in DOMAIN hk
  BY DEF Rings
<1>2. /\ Hooks(list_append(hk, h, e))
      /\ Appended(list_append(hk, h, e), hk, h, e)
  BY <1>1, AppendHook, Zenon
<1> QED
  BY <1>2, AppendRings, Zenon DEF Appended

\* script_section_new() puts an empty section at the end of the tree.
LEMMA NewSectionShape ==
    ASSUME NEW hk, NEW o, NEW c, NEW base, NEW L, Shape(hk, o, c, base, L),
           c # NULL, NEW x, x.kind = "section", x.len \in Nat
    PROVE  Shape(list_append(list_init(hk, base + ENTRIES_HEAD),
                             c + SCRIPT_HEAD, base + SECTIONS_HOOK),
                 Put(o, base, x), c, base + aligned(SIZEOF_SECTION),
                 WithLast(WithEmpty(L, base + ENTRIES_HEAD), c,
                          base + SECTIONS_HOOK))
<1> DEFINE l  == base + ENTRIES_HEAD
           e  == base + SECTIONS_HOOK
           wk == list_init(hk, l)
           nk == list_append(wk, c, e)
           nb == base + aligned(SIZEOF_SECTION)
           no == Put(o, base, x)
           K  == WithEmpty(L, l)
           M  == WithLast(K, c, e)
<1>1. /\ Hooks(hk) /\ Rings(hk, L) /\ Allocated(o, base) /\ Owned(o, c, L)
      /\ \A y \in DOMAIN hk : y < base /\ y \in Nat
  BY DEF Shape, Hooks
<1>2. /\ base \in Nat \ {NULL} /\ c + SCRIPT_HEAD = c /\ c \in Nat
      /\ l \in Nat \ {NULL} /\ e \in Nat \ {NULL} /\ l # e /\ c < base
      /\ l \notin DOMAIN hk /\ e \notin DOMAIN hk
      /\ nb \in Nat /\ base < nb /\ l < nb /\ e < nb
  BY <1>1 DEF Allocated, Owned, NULL, SCRIPT_HEAD, ENTRIES_HEAD, SECTIONS_HOOK,
              aligned, SIZEOF_SECTION
<1>3. Allocated(no, nb)
  BY <1>1, AllocatedPut DEF SIZEOF_SECTION
<1>4. Hooks(wk) /\ Rings(wk, K) /\ DOMAIN wk = DOMAIN hk \cup {l}
  BY <1>1, <1>2, InitHooks, InitRings DEF list_init, WithHook
<1>5. c \in DOMAIN L /\ DOMAIN K = DOMAIN L \cup {l} /\ K[l] = <<>>
      /\ \A h \in DOMAIN L : h # l /\ K[h] = L[h]
  <2>1. c \in DOMAIN L
    BY <1>1 DEF Owned
  <2>2. \A h \in DOMAIN L : h # l
    BY <1>1, <1>2, Zenon DEF Rings
  <2> HIDE DEF l
  <2> QED
    BY <2>1, <2>2, Zenon DEF WithEmpty
<1> HIDE DEF wk, K
<1>6. Hooks(nk) /\ DOMAIN nk = DOMAIN wk \cup {e} /\ Rings(nk, M)
  <2>1. e \notin DOMAIN wk /\ c \in DOMAIN K
    BY <1>2, <1>4, <1>5
  <2>2. e \in Nat \ {NULL}
    BY <1>2
  <2> HIDE DEF l, e
  <2>3. Hooks(wk) /\ Rings(wk, K)
    BY <1>4
  <2>4. /\ Hooks(list_append(wk, c, e))
        /\ DOMAIN list_append(wk, c, e) = DOMAIN wk \cup {e}
        /\ Rings(list_append(wk, c, e), WithLast(K, c, e))
    BY <2>1, <2>2, <2>3, AppendList
  <2> QED
    BY <2>4
<1>7. \A y \in DOMAIN nk : y < nb
  BY <1>1, <1>2, <1>4, <1>6
<1>8. SectionsOf(no) = SectionsOf(o) \cup {base} /\ EntriesOf(no) = EntriesOf(o)
      /\ base \notin SectionsOf(o)
  BY <1>1, PutKinds
<1>9. /\ DOMAIN M = DOMAIN L \cup {l}
      /\ M[c] = Append(L[c], e)
      /\ M[l] = <<>>
      /\ \A h \in DOMAIN L : h # c => M[h] = L[h]
  BY <1>2, <1>5 DEF WithLast
<1>10. \E n \in Nat : /\ Len(L[c]) = n /\ Len(M[c]) = n + 1 /\ M[c][n + 1] = e
                      /\ \A i \in 1 .. n : M[c][i] = L[c][i]
  <2>1. L[c] \in Seq(DOMAIN hk)
    BY <1>1, <1>5, Zenon DEF Rings
  <2>2. /\ Len(L[c]) \in Nat /\ Len(Append(L[c], e)) = Len(L[c]) + 1
        /\ \A i \in 1 .. Len(L[c]) : Append(L[c], e)[i] = L[c][i]
        /\ Append(L[c], e)[Len(L[c]) + 1] = e
    BY <2>1, AppendSeq
  <2>3. M[c] = Append(L[c], e)
    BY <1>9
  <2> HIDE DEF M, e
  <2> QED
    BY <2>2, <2>3, Zenon
<1>11. \A s \in SectionsOf(o) : s \in Nat /\ c < s
                               /\ s + ENTRIES_HEAD \in DOMAIN L
                               /\ s + ENTRIES_HEAD # c
  BY <1>1, OwnedHeads, Zenon
<1> HIDE DEF M, no, nk, l, nb
<1>12. Owned(no, c, M)
  <2>1. DOMAIN M = ({c} \ {NULL}) \cup {s + ENTRIES_HEAD : s \in SectionsOf(no)}
    BY <1>1, <1>8, <1>9 DEF Owned, l
  <2>2. c \in DOMAIN no /\ no[c].kind = "script"
        /\ \A s \in SectionsOf(no) : c < s
    <3>1. c \in DOMAIN o /\ o[c].kind = "script" /\ o[c].kind # "bytes"
      BY <1>1 DEF Owned
    <3> QED
      BY <1>1, <1>2, <1>8, <1>11, <3>1, PutKinds DEF no
  <2>3. PICK n \in Nat : /\ Len(L[c]) = n /\ Len(M[c]) = n + 1
                         /\ M[c][n + 1] = e
                         /\ \A i \in 1 .. n : M[c][i] = L[c][i]
    BY <1>10
  <2>4. \A i \in 1 .. Len(M[c]) :
           \E s \in SectionsOf(no) : M[c][i] = s + SECTIONS_HOOK
    <3> SUFFICES ASSUME NEW i \in 1 .. n + 1
                 PROVE  \E s \in SectionsOf(no) : M[c][i] = s + SECTIONS_HOOK
      BY <2>3
    <3>1. CASE i = n + 1
      BY <1>8, <2>3, <3>1
    <3>2. CASE i # n + 1
      <4>1. i \in 1 .. n
        BY <3>2
      <4>2. \E s \in SectionsOf(o) : L[c][i] = s + SECTIONS_HOOK
        BY <1>1, <2>3, <4>1 DEF Owned
      <4> QED
        BY <1>8, <2>3, <4>1, <4>2
    <3> QED
      BY <3>1, <3>2
  <2>5. ASSUME NEW s \in SectionsOf(no)
        PROVE  /\ \E i \in 1 .. Len(M[c]) : M[c][i] = s + SECTIONS_HOOK
               /\ \A i \in 1 .. Len(M[s + ENTRIES_HEAD]) :
                     \E d \in EntriesOf(no) :
                        M[s + ENTRIES_HEAD][i] = d + ENTRIES_HOOK
    <3>1. CASE s = base
      <4>1. n + 1 \in 1 .. Len(M[c])
        BY <2>3
      <4>2. Len(M[s + ENTRIES_HEAD]) = 0
        BY <1>9, <3>1 DEF l
      <4> QED
        BY <2>3, <3>1, <4>1, <4>2
    <3>2. CASE s # base
      <4>1. s \in SectionsOf(o) /\ M[s + ENTRIES_HEAD] = L[s + ENTRIES_HEAD]
        BY <1>8, <1>9, <1>11, <3>2
      <4>2. PICK i \in 1 .. n : L[c][i] = s + SECTIONS_HOOK
        BY <1>1, <2>3, <4>1 DEF Owned
      <4>3. i \in 1 .. Len(M[c]) /\ M[c][i] = s + SECTIONS_HOOK
        BY <2>3, <4>2
      <4>4. \A j \in 1 .. Len(L[s + ENTRIES_HEAD]) :
               \E d \in EntriesOf(o) : L[s + ENTRIES_HEAD][j] = d + ENTRIES_HOOK
        BY <1>1, <4>1 DEF Owned
      <4> QED
        BY <1>8, <4>1, <4>3, <4>4, Zenon
    <3> QED
      BY <3>1, <3>2
  <2>6. ASSUME NEW d \in EntriesOf(no)
        PROVE  \E s \in SectionsOf(no) :
                  \E i \in 1 .. Len(M[s + ENTRIES_HEAD]) :
                     M[s + ENTRIES_HEAD][i] = d + ENTRIES_HOOK
    <3>1. PICK s \in SectionsOf(o) :
             \E i \in 1 .. Len(L[s + ENTRIES_HEAD]) :
                L[s + ENTRIES_HEAD][i] = d + ENTRIES_HOOK
      BY <1>1, <1>8 DEF Owned
    <3>2. M[s + ENTRIES_HEAD] = L[s + ENTRIES_HEAD] /\ s \in SectionsOf(no)
      BY <1>8, <1>9, <1>11
    <3> QED
      BY <3>1, <3>2, Zenon
  <2> QED
    BY <1>2, <2>1, <2>2, <2>4, <2>5, <2>6, Zenon DEF Owned
<1>13. Shape(nk, no, c, nb, M)
  BY <1>3, <1>6, <1>7, <1>12, Zenon DEF Shape
<1> QED
  BY <1>2, <1>13 DEF nk, no, nb, M, K, wk, l

\* The script_*_entry_new() functions put an entry at the end of a section.
LEMMA NewEntryShape ==
    ASSUME NEW hk, NEW o, NEW c, NEW base, NEW L, Shape(hk, o, c, base, L),
           NEW t \in SectionsOf(o), NEW x, x.kind = "entry", x.len \in Nat,
           NEW size \in Nat, size > ENTRIES_HOOK
    PROVE  Shape(list_append(hk, t + ENTRIES_HEAD, base + ENTRIES_HOOK),
                 Put(o, base, x), c, base + aligned(size),
                 WithLast(L, t + ENTRIES_HEAD, base + ENTRIES_HOOK))
<1> DEFINE h  == t + ENTRIES_HEAD
           e  == base + ENTRIES_HOOK
           nk == list_append(hk, h, e)
           nb == base + aligned(size)
           no == Put(o, base, x)
           M  == WithLast(L, h, e)
<1>1. /\ Hooks(hk) /\ Rings(hk, L) /\ Allocated(o, base) /\ Owned(o, c, L)
      /\ \A y \in DOMAIN hk : y < base /\ y \in Nat
  BY DEF Shape, Hooks
<1>2. /\ base \in Nat \ {NULL} /\ e \in Nat \ {NULL} /\ e \notin DOMAIN hk
      /\ nb \in Nat /\ base < nb /\ e < nb
  <2>1. PICK n \in Nat : aligned(size) = n /\ size <= n
    BY AlignedEnough
  <2> QED
    BY <1>1, <2>1 DEF Allocated, NULL, ENTRIES_HOOK
<1>3. Allocated(no, nb)
  <2>1. size > 0
    BY DEF ENTRIES_HOOK
  <2> QED
    BY <1>1, <2>1, AllocatedPut
<1>5. h \in DOMAIN L /\ h # c /\ c \in DOMAIN L /\ c # NULL /\ c \in Nat
  BY <1>1, OwnedHeads
<1> HIDE DEF h
<1>6. Hooks(nk) /\ DOMAIN nk = DOMAIN hk \cup {e} /\ Rings(nk, M)
  <2>1. e \in Nat \ {NULL} /\ e \notin DOMAIN hk
    BY <1>2
  <2> HIDE DEF e
  <2>2. /\ Hooks(list_append(hk, h, e))
        /\ DOMAIN list_append(hk, h, e) = DOMAIN hk \cup {e}
        /\ Rings(list_append(hk, h, e), WithLast(L, h, e))
    BY <1>1, <1>5, <2>1, AppendList
  <2> QED
    BY <2>2
<1>7. \A y \in DOMAIN nk : y < nb
  BY <1>1, <1>2, <1>6
<1>8. SectionsOf(no) = SectionsOf(o) /\ EntriesOf(no) = EntriesOf(o) \cup {base}
  BY <1>1, PutKinds
<1>9. /\ DOMAIN M = DOMAIN L
      /\ M[h] = Append(L[h], e)
      /\ M[c] = L[c]
      /\ \A g \in DOMAIN L : g # h => M[g] = L[g]
  BY <1>5 DEF WithLast
<1>10. PICK n \in Nat : /\ Len(L[h]) = n /\ Len(M[h]) = n + 1 /\ M[h][n + 1] = e
                       /\ \A i \in 1 .. n : M[h][i] = L[h][i]
  <2>1. L[h] \in Seq(DOMAIN hk)
    BY <1>1, <1>5, Zenon DEF Rings
  <2> HIDE DEF M, e
  <2> QED
    BY <1>9, <2>1, AppendSeq
<1> HIDE DEF M, no, nk, nb
<1>12. Owned(no, c, M)
  <2>1. DOMAIN M = ({c} \ {NULL}) \cup {s + ENTRIES_HEAD : s \in SectionsOf(no)}
    BY <1>1, <1>8, <1>9 DEF Owned
  <2>2. c \in DOMAIN no /\ no[c].kind = "script"
        /\ \A s \in SectionsOf(no) : c < s
    <3>1. c \in DOMAIN o /\ o[c].kind = "script" /\ o[c].kind # "bytes"
      BY <1>1, <1>5 DEF Owned
    <3> QED
      BY <1>1, <1>8, <3>1, PutKinds, OwnedHeads DEF no
  <2>4. \A i \in 1 .. Len(M[c]) :
           \E s \in SectionsOf(no) : M[c][i] = s + SECTIONS_HOOK
    BY <1>1, <1>5, <1>8, <1>9 DEF Owned
  <2>5. ASSUME NEW s \in SectionsOf(no)
        PROVE  /\ \E i \in 1 .. Len(M[c]) : M[c][i] = s + SECTIONS_HOOK
               /\ \A i \in 1 .. Len(M[s + ENTRIES_HEAD]) :
                     \E d \in EntriesOf(no) :
                        M[s + ENTRIES_HEAD][i] = d + ENTRIES_HOOK
    <3>1. \E i \in 1 .. Len(M[c]) : M[c][i] = s + SECTIONS_HOOK
      BY <1>1, <1>8, <1>9 DEF Owned
    <3>2. \A i \in 1 .. Len(L[s + ENTRIES_HEAD]) :
             \E d \in EntriesOf(o) : L[s + ENTRIES_HEAD][i] = d + ENTRIES_HOOK
      <4>1. s \in SectionsOf(o)
        BY <1>8
      <4> QED
        BY <1>1, <4>1, OwnedLists
    <3>3. CASE s + ENTRIES_HEAD = h
      <4> SUFFICES ASSUME NEW i \in 1 .. n + 1
                   PROVE  \E d \in EntriesOf(no) : M[h][i] = d + ENTRIES_HOOK
        BY <1>10, <3>1, <3>3
      <4>1. CASE i = n + 1
        BY <1>8, <1>10, <4>1
      <4>2. CASE i # n + 1
        <5>1. i \in 1 .. n
          BY <4>2
        <5> QED
          BY <1>8, <1>10, <3>2, <3>3, <5>1
      <4> QED
        BY <4>1, <4>2
    <3>4. CASE s + ENTRIES_HEAD # h
      <4>1. M[s + ENTRIES_HEAD] = L[s + ENTRIES_HEAD]
        BY <1>1, <1>8, <1>9, <3>4, OwnedHeads
      <4> QED
        BY <1>8, <3>1, <3>2, <4>1, Zenon
    <3> QED
      BY <3>3, <3>4
  <2>6. ASSUME NEW d \in EntriesOf(no)
        PROVE  \E s \in SectionsOf(no) :
                  \E i \in 1 .. Len(M[s + ENTRIES_HEAD]) :
                     M[s + ENTRIES_HEAD][i] = d + ENTRIES_HOOK
    <3>1. CASE d = base
      <4>1. n + 1 \in 1 .. Len(M[h]) /\ M[h][n + 1] = d + ENTRIES_HOOK
        BY <1>10, <3>1
      <4> QED
        BY <1>8, <4>1, Zenon DEF h
    <3>2. CASE d # base
      <4>1. PICK s \in SectionsOf(o) :
               \E i \in 1 .. Len(L[s + ENTRIES_HEAD]) :
                  L[s + ENTRIES_HEAD][i] = d + ENTRIES_HOOK
        BY <1>1, <1>8, <3>2 DEF Owned
      <4>2. PICK i \in 1 .. Len(L[s + ENTRIES_HEAD]) :
               L[s + ENTRIES_HEAD][i] = d + ENTRIES_HOOK
        BY <4>1
      <4>3. s + ENTRIES_HEAD \in DOMAIN L
        BY <1>1, OwnedHeads
      <4>4. i \in 1 .. Len(M[s + ENTRIES_HEAD])
            /\ M[s + ENTRIES_HEAD][i] = L[s + ENTRIES_HEAD][i]
        <5>1. CASE s + ENTRIES_HEAD = h
          BY <1>10, <4>2, <5>1
        <5>2. CASE s + ENTRIES_HEAD # h
          BY <1>9, <4>3, <5>2
        <5> QED
          BY <5>1, <5>2
      <4> QED
        BY <1>8, <4>2, <4>4
    <3> QED
      BY <3>1, <3>2
  <2> QED
    BY <1>5, <2>1, <2>2, <2>4, <2>5, <2>6, Zenon DEF Owned
<1>13. Shape(nk, no, c, nb, M)
  BY <1>3, <1>6, <1>7, <1>12, Zenon DEF Shape
<1> QED
  BY <1>13 DEF nk, no, nb, M, h
-----------------------------------------------------------------------------
(* Deletion                                                                *)

\* list_remove() on the lists, whose hooks are never empty lists of their own.
LEMMA RemoveList ==
    ASSUME NEW hk, NEW L, Hooks(hk), Rings(hk, L), NEW h \in DOMAIN L,
           NEW k \in 1 .. Len(L[h]), NEW e, e = L[h][k]
    PROVE  /\ Hooks(list_remove(hk, e))
           /\ DOMAIN list_remove(hk, e) = DOMAIN hk
           /\ Rings(list_remove(hk, e), WithoutAt(L, h, k))
           /\ ~list_empty(hk, e)
<1>1. PICK n \in Nat : Len(L[h]) = n
  BY AtType
<1>2. At(h, L[h], k) = e /\ e \in DOMAIN hk
  BY AtType
<1>3. k - 1 \in 0 .. n /\ k \in 0 .. n /\ (k - 1) + 1 = k /\ k - 1 # k
  BY <1>1
<1>4. hk[e].prev = At(h, L[h], k - 1) /\ hk[e].next = At(h, L[h], k + 1)
  BY <1>1, <1>2, <1>3, AtNeighbours
<1>5. Relinked(list_remove(hk, e), hk, hk[e].prev, hk[e].next, hk[e].next,
               hk[e].prev)
  BY <1>2, RemoveHook
<1>6. ~list_empty(hk, e)
  BY <1>1, <1>2, <1>3, <1>4, AtInjective DEF list_empty
<1>7. Hooks(list_remove(hk, e))
  BY <1>5, RelinkedHooks
<1>8. Rings(list_remove(hk, e), WithoutAt(L, h, k))
  BY <1>4, <1>5, RemoveRings
<1> QED
  BY <1>5, <1>6, <1>7, <1>8 DEF Relinked

\* The objects without the one at a.
Less(o, a) == [b \in DOMAIN o \ {a} |-> o[b]]

LEMMA LessKinds ==
    ASSUME NEW o, NEW base, Allocated(o, base), NEW a
    PROVE  /\ Allocated(Less(o, a), base)
           /\ SectionsOf(Less(o, a)) = SectionsOf(o) \ {a}
           /\ EntriesOf(Less(o, a)) = EntriesOf(o) \ {a}
           /\ DOMAIN Less(o, a) = DOMAIN o \ {a}
           /\ \A b \in DOMAIN o \ {a} : Less(o, a)[b] = o[b]
<1> DEFINE no == Less(o, a)
<1>1. /\ DOMAIN no = DOMAIN o \ {a} /\ no = [b \in DOMAIN no |-> no[b]]
      /\ \A b \in DOMAIN o \ {a} : no[b] = o[b]
  BY DEF Less
<1> HIDE DEF no
<1>2. IsFiniteSet(DOMAIN no)
  BY <1>1, FS_RemoveElement DEF Allocated
<1>3. Allocated(no, base)
  BY <1>1, <1>2 DEF Allocated
<1>4. SectionsOf(no) = SectionsOf(o) \ {a} /\ EntriesOf(no) = EntriesOf(o) \ {a}
  BY <1>1 DEF SectionsOf, EntriesOf
<1> QED
  BY <1>1, <1>3, <1>4 DEF no

\* A list without its k-th hook: what is on it was on the list, and all of
\* that but the k-th still is.
LEMMA CutElements ==
    ASSUME NEW S, NEW s \in Seq(S), NEW k \in 1 .. Len(s)
    PROVE  /\ \A i \in 1 .. Len(Cut(s, k)) :
                 \E j \in 1 .. Len(s) : j # k /\ Cut(s, k)[i] = s[j]
           /\ \A j \in 1 .. Len(s) : j # k =>
                 \E i \in 1 .. Len(Cut(s, k)) : Cut(s, k)[i] = s[j]
<1>1. PICK n \in Nat : Len(s) = n
  OBVIOUS
<1>2. Len(Cut(s, k)) = n - 1
      /\ \A j \in 1 .. n - 1 : Cut(s, k)[j] = IF j < k THEN s[j] ELSE s[j + 1]
  BY <1>1, CutSeq
<1>3. ASSUME NEW i \in 1 .. n - 1
      PROVE  \E j \in 1 .. n : j # k /\ Cut(s, k)[i] = s[j]
  <2>1. CASE i < k
    BY <1>2, <2>1
  <2>2. CASE i >= k
    <3>1. i + 1 \in 1 .. n /\ i + 1 # k /\ Cut(s, k)[i] = s[i + 1]
      BY <1>1, <1>2, <2>2
    <3> QED
      BY <3>1
  <2> QED
    BY <1>1, <2>1, <2>2
<1>4. ASSUME NEW j \in 1 .. n, j # k
      PROVE  \E i \in 1 .. n - 1 : Cut(s, k)[i] = s[j]
  <2>1. CASE j < k
    <3>1. j \in 1 .. n - 1 /\ Cut(s, k)[j] = s[j]
      BY <1>1, <1>2, <2>1
    <3> QED
      BY <3>1
  <2>2. CASE j > k
    <3>1. j - 1 \in 1 .. n - 1 /\ ~(j - 1 < k) /\ (j - 1) + 1 = j
      BY <1>1, <2>2
    <3>2. Cut(s, k)[j - 1] = s[j]
      BY <1>2, <3>1
    <3> QED
      BY <3>1, <3>2
  <2> QED
    BY <1>1, <1>4, <2>1, <2>2
<1> QED
  BY <1>1, <1>2, <1>3, <1>4
\* v is t without the entry e, the k-th of the section s.
EntryGone(v, t, e, c, base, L, s, k) ==
    /\ v.objs = Less(t.objs, e)
    /\ DOMAIN v.hooks = DOMAIN t.hooks
    /\ Shape(v.hooks, Less(t.objs, e), c, base,
             WithoutAt(L, s + ENTRIES_HEAD, k))

\* script_entry_delete() takes the entry off its list and leaves the rest.
LEMMA EntryDeletedShape ==
    ASSUME NEW t, NEW c, NEW base, NEW L, Shape(t.hooks, t.objs, c, base, L),
           NEW s \in SectionsOf(t.objs),
           NEW k \in 1 .. Len(L[s + ENTRIES_HEAD]),
           NEW e \in EntriesOf(t.objs),
           L[s + ENTRIES_HEAD][k] = e + ENTRIES_HOOK
    PROVE  EntryGone(entry_deleted(t, e), t, e, c, base, L, s, k)
<1> DEFINE hk == t.hooks
           o  == t.objs
           h  == s + ENTRIES_HEAD
           l  == e + ENTRIES_HOOK
           nk == list_remove(hk, l)
           no == Less(o, e)
           M  == WithoutAt(L, h, k)
<1> HIDE DEF hk, o, h, l
<1>1. /\ Hooks(hk) /\ Rings(hk, L) /\ Allocated(o, base) /\ Owned(o, c, L)
      /\ \A y \in DOMAIN hk : y < base
      /\ s \in SectionsOf(o) /\ e \in EntriesOf(o) /\ k \in 1 .. Len(L[h])
      /\ L[h][k] = l
  BY DEF Shape, hk, o, h, l
<1>2. h \in DOMAIN L /\ h # c /\ c \in DOMAIN L /\ c # NULL /\ c \in Nat
  BY <1>1, OwnedHeads DEF h
<1>3. /\ Hooks(nk) /\ DOMAIN nk = DOMAIN hk /\ Rings(nk, M)
      /\ ~list_empty(hk, l)
  BY <1>1, <1>2, RemoveList
<1>4. entry_deleted(t, e).hooks = nk /\ entry_deleted(t, e).objs = no
  BY <1>3 DEF entry_deleted, Less, hk, o, l
<1>5. /\ Allocated(no, base)
      /\ SectionsOf(no) = SectionsOf(o) /\ EntriesOf(no) = EntriesOf(o) \ {e}
      /\ \A b \in DOMAIN o \ {e} : b \in DOMAIN no /\ no[b] = o[b]
  <2>1. e \notin SectionsOf(o)
    BY <1>1 DEF SectionsOf, EntriesOf
  <2>2. /\ Allocated(no, base) /\ SectionsOf(no) = SectionsOf(o) \ {e}
        /\ EntriesOf(no) = EntriesOf(o) \ {e}
        /\ DOMAIN no = DOMAIN o \ {e}
        /\ \A b \in DOMAIN o \ {e} : no[b] = o[b]
    BY <1>1, LessKinds, Zenon
  <2> HIDE DEF no
  <2> QED
    BY <2>1, <2>2
<1>6. /\ DOMAIN M = DOMAIN L /\ M[h] = Cut(L[h], k)
      /\ M[c] = L[c]
      /\ \A g \in DOMAIN L : g # h => M[g] = L[g]
  BY <1>2 DEF WithoutAt
<1>7. /\ \A i \in 1 .. Len(M[h]) :
            \E j \in 1 .. Len(L[h]) : j # k /\ M[h][i] = L[h][j]
      /\ \A j \in 1 .. Len(L[h]) : j # k =>
            \E i \in 1 .. Len(M[h]) : M[h][i] = L[h][j]
  <2>1. L[h] \in Seq(DOMAIN hk)
    BY <1>1, <1>2, Zenon DEF Rings
  <2>2. /\ \A i \in 1 .. Len(Cut(L[h], k)) :
              \E j \in 1 .. Len(L[h]) : j # k /\ Cut(L[h], k)[i] = L[h][j]
        /\ \A j \in 1 .. Len(L[h]) : j # k =>
              \E i \in 1 .. Len(Cut(L[h], k)) : Cut(L[h], k)[i] = L[h][j]
    BY <1>1, <2>1, CutElements
  <2>3. M[h] = Cut(L[h], k)
    BY <1>6
  <2> HIDE DEF M
  <2> QED
    BY ONLY <2>2, <2>3, Zenon
<1> HIDE DEF M, no, nk
<1>8. Owned(no, c, M)
  <2>1. DOMAIN M = ({c} \ {NULL}) \cup {r + ENTRIES_HEAD : r \in SectionsOf(no)}
    BY <1>1, <1>5, <1>6 DEF Owned
  <2>2. c \in DOMAIN no /\ no[c].kind = "script"
        /\ \A r \in SectionsOf(no) : c < r
    <3>1. c \in DOMAIN o /\ o[c].kind = "script" /\ c # e
      BY <1>1, <1>2 DEF Owned, EntriesOf
    <3> QED
      BY <1>1, <1>5, <3>1, OwnedHeads
  <2>4. \A i \in 1 .. Len(M[c]) :
           \E r \in SectionsOf(no) : M[c][i] = r + SECTIONS_HOOK
    BY <1>1, <1>2, <1>5, <1>6 DEF Owned
  <2>5. ASSUME NEW r \in SectionsOf(no)
        PROVE  /\ \E i \in 1 .. Len(M[c]) : M[c][i] = r + SECTIONS_HOOK
               /\ \A i \in 1 .. Len(M[r + ENTRIES_HEAD]) :
                     \E d \in EntriesOf(no) :
                        M[r + ENTRIES_HEAD][i] = d + ENTRIES_HOOK
    <3>1. \E i \in 1 .. Len(M[c]) : M[c][i] = r + SECTIONS_HOOK
      BY <1>1, <1>5, <1>6 DEF Owned
    <3>0. r + ENTRIES_HEAD \in DOMAIN L
      BY <1>1, <1>5, OwnedHeads
    <3> DEFINE g == r + ENTRIES_HEAD
    <3>2. \A i \in 1 .. Len(L[g]) : \E d \in EntriesOf(o) : L[g][i] = d + ENTRIES_HOOK
      <4>1. r \in SectionsOf(o)
        BY <1>5
      <4> QED
        BY <1>1, <4>1, OwnedLists
    <3> HIDE DEF g
    <3>3. ASSUME NEW i \in 1 .. Len(M[g])
          PROVE  \E j \in 1 .. Len(L[g]) : M[g][i] = L[g][j] /\ (g = h => j # k)
      BY <1>6, <1>7, <3>0 DEF g
    <3>4. ASSUME NEW i \in 1 .. Len(M[g])
          PROVE  \E d \in EntriesOf(no) : M[g][i] = d + ENTRIES_HOOK
      <4>1. PICK j \in 1 .. Len(L[g]) : M[g][i] = L[g][j] /\ (g = h => j # k)
        BY <3>3
      <4>2. PICK d \in EntriesOf(o) : L[g][j] = d + ENTRIES_HOOK
        BY <3>2
      <4>3. d # e
        <5> SUFFICES ASSUME d = e PROVE FALSE
          OBVIOUS
        <5>1. L[g][j] = L[h][k] /\ g \in DOMAIN L
          BY <1>1, <3>0, <4>2 DEF l, g
        <5>2. g = h /\ j = k
          BY <1>1, <1>2, <5>1 DEF Rings
        <5> QED
          BY <4>1, <5>2
      <4> QED
        BY <1>5, <4>1, <4>2, <4>3
    <3> QED
      BY <3>1, <3>4 DEF g
  <2>6. ASSUME NEW d \in EntriesOf(no)
        PROVE  \E r \in SectionsOf(no) :
                  \E i \in 1 .. Len(M[r + ENTRIES_HEAD]) :
                     M[r + ENTRIES_HEAD][i] = d + ENTRIES_HOOK
    <3>1. d \in EntriesOf(o) /\ d # e
      BY <1>5
    <3>2. PICK r \in SectionsOf(o) :
             \E i \in 1 .. Len(L[r + ENTRIES_HEAD]) :
                L[r + ENTRIES_HEAD][i] = d + ENTRIES_HOOK
      BY <1>1, <3>1 DEF Owned
    <3> DEFINE g == r + ENTRIES_HEAD
    <3>3. PICK j \in 1 .. Len(L[g]) : L[g][j] = d + ENTRIES_HOOK
      BY <3>2
    <3>4. g \in DOMAIN L
      BY <1>1, OwnedHeads
    <3> HIDE DEF g
    <3>5. \E i \in 1 .. Len(M[g]) : M[g][i] = L[g][j]
      <4>1. CASE g = h
        <5>1. j # k
          <6>1. d + ENTRIES_HOOK # e + ENTRIES_HOOK
            BY <1>1, <3>1 DEF Allocated, EntriesOf, ENTRIES_HOOK
          <6> QED
            BY <1>1, <3>3, <4>1, <6>1 DEF l
        <5> QED
          BY <1>7, <4>1, <5>1
      <4>2. CASE g # h
        BY <1>6, <3>4, <4>2
      <4> QED
        BY <4>1, <4>2
    <3> QED
      BY <1>5, <3>3, <3>5 DEF g
  <2> QED
    BY <1>2, <2>1, <2>2, <2>4, <2>5, <2>6, Zenon DEF Owned
<1>9. \A y \in DOMAIN nk : y < base
  BY <1>1, <1>3
<1>10. Shape(nk, no, c, base, M)
  BY <1>3, <1>5, <1>8, <1>9, Zenon DEF Shape
<1> QED
  BY <1>3, <1>4, <1>10 DEF no, M, h, o, hk, EntryGone
\* The lists but the one with head h.
LEMMA FewerRings ==
    ASSUME NEW hk, NEW L, Rings(hk, L), NEW h
    PROVE  Rings(hk, Less(L, h))
<1> DEFINE M == Less(L, h)
<1>1. DOMAIN M = DOMAIN L \ {h} /\ \A g \in DOMAIN L \ {h} : M[g] = L[g]
  BY DEF Less
<1> HIDE DEF M
<1>2. ASSUME NEW g \in DOMAIN M
      PROVE  g \in DOMAIN L /\ M[g] = L[g]
  BY <1>1
<1>3. DOMAIN M \subseteq DOMAIN hk
  BY <1>1 DEF Rings
<1>4. \A g \in DOMAIN M : M[g] \in Seq(DOMAIN hk) /\ Ring(hk, g, M[g])
  BY <1>2 DEF Rings
<1>5. \A g \in DOMAIN M : \A i \in 1 .. Len(M[g]) : M[g][i] \notin DOMAIN M
  BY <1>2 DEF Rings
<1>6. \A f, g \in DOMAIN M :
         \A i \in 1 .. Len(M[f]), j \in 1 .. Len(M[g]) :
            M[f][i] = M[g][j] => f = g /\ i = j
  BY <1>2 DEF Rings
<1>7. Rings(hk, M)
  BY <1>3, <1>4, <1>5, <1>6, RingsParts
<1> QED
  BY <1>7 DEF M

\* The rest of script_section_delete(), once the section is empty.
LEMMA SectionUnlinkedShape ==
    ASSUME NEW hk, NEW o, NEW c, NEW base, NEW L, Shape(hk, o, c, base, L),
           NEW s \in SectionsOf(o), L[s + ENTRIES_HEAD] = <<>>,
           NEW k \in 1 .. Len(L[c]), L[c][k] = s + SECTIONS_HOOK
    PROVE  /\ ~list_empty(hk, s + SECTIONS_HOOK)
           /\ DOMAIN list_remove(hk, s + SECTIONS_HOOK) = DOMAIN hk
           /\ Shape(list_remove(hk, s + SECTIONS_HOOK), Less(o, s), c, base,
                    Less(WithoutAt(L, c, k), s + ENTRIES_HEAD))
<1> DEFINE h  == s + ENTRIES_HEAD
           l  == s + SECTIONS_HOOK
           nk == list_remove(hk, l)
           no == Less(o, s)
           K  == WithoutAt(L, c, k)
           M  == Less(K, h)
<1> HIDE DEF h, l
<1>1. /\ Hooks(hk) /\ Rings(hk, L) /\ Allocated(o, base) /\ Owned(o, c, L)
      /\ \A y \in DOMAIN hk : y < base
      /\ L[h] = <<>> /\ L[c][k] = l
  BY DEF Shape, h, l
<1>2. h \in DOMAIN L /\ h # c /\ c \in DOMAIN L /\ c # NULL /\ c \in Nat
  BY <1>1, OwnedHeads DEF h
<1>3. /\ Hooks(nk) /\ DOMAIN nk = DOMAIN hk /\ Rings(nk, K)
      /\ ~list_empty(hk, l)
  BY <1>1, <1>2, RemoveList
<1>4. Rings(nk, M)
  <2> HIDE DEF nk, K
  <2> QED
    BY <1>3, FewerRings
<1>5. /\ Allocated(no, base)
      /\ SectionsOf(no) = SectionsOf(o) \ {s} /\ EntriesOf(no) = EntriesOf(o)
      /\ \A b \in DOMAIN o \ {s} : b \in DOMAIN no /\ no[b] = o[b]
  <2>1. s \notin EntriesOf(o)
    BY DEF SectionsOf, EntriesOf
  <2>2. /\ Allocated(no, base) /\ SectionsOf(no) = SectionsOf(o) \ {s}
        /\ EntriesOf(no) = EntriesOf(o) \ {s}
        /\ DOMAIN no = DOMAIN o \ {s}
        /\ \A b \in DOMAIN o \ {s} : no[b] = o[b]
    BY <1>1, LessKinds, Zenon
  <2> HIDE DEF no
  <2> QED
    BY <2>1, <2>2
<1>6. /\ DOMAIN M = DOMAIN L \ {h} /\ M[c] = Cut(L[c], k)
      /\ \A g \in DOMAIN L \ {h} : g # c => M[g] = L[g]
  BY <1>2 DEF WithoutAt, Less
<1>7. /\ \A i \in 1 .. Len(M[c]) :
            \E j \in 1 .. Len(L[c]) : j # k /\ M[c][i] = L[c][j]
      /\ \A j \in 1 .. Len(L[c]) : j # k =>
            \E i \in 1 .. Len(M[c]) : M[c][i] = L[c][j]
  <2>1. L[c] \in Seq(DOMAIN hk)
    BY <1>1, <1>2, Zenon DEF Rings
  <2>2. /\ \A i \in 1 .. Len(Cut(L[c], k)) :
              \E j \in 1 .. Len(L[c]) : j # k /\ Cut(L[c], k)[i] = L[c][j]
        /\ \A j \in 1 .. Len(L[c]) : j # k =>
              \E i \in 1 .. Len(Cut(L[c], k)) : Cut(L[c], k)[i] = L[c][j]
    BY <1>1, <2>1, CutElements
  <2> HIDE DEF M
  <2> QED
    BY <1>6, <2>2, Zenon
<1> HIDE DEF K, M, no, nk
<1>8. \A r \in SectionsOf(no) :
         /\ r \in SectionsOf(o) /\ r # s
         /\ r + ENTRIES_HEAD \in DOMAIN M /\ M[r + ENTRIES_HEAD] = L[r + ENTRIES_HEAD]
  <2> SUFFICES ASSUME NEW r \in SectionsOf(no)
               PROVE  /\ r \in SectionsOf(o) /\ r # s
                      /\ r + ENTRIES_HEAD \in DOMAIN M
                      /\ M[r + ENTRIES_HEAD] = L[r + ENTRIES_HEAD]
    OBVIOUS
  <2>1. r \in SectionsOf(o) /\ r # s
    BY <1>5
  <2>2. r + ENTRIES_HEAD \in DOMAIN L /\ r + ENTRIES_HEAD # c
        /\ r + ENTRIES_HEAD # h
    BY <1>1, <2>1, OwnedHeads DEF h
  <2> QED
    BY <1>6, <2>1, <2>2
<1>9. Owned(no, c, M)
  <2>1. DOMAIN M = ({c} \ {NULL}) \cup {r + ENTRIES_HEAD : r \in SectionsOf(no)}
    <3>1. DOMAIN L = {c} \cup {r + ENTRIES_HEAD : r \in SectionsOf(o)}
      BY <1>1, <1>2 DEF Owned
    <3>2. ASSUME NEW g \in DOMAIN M, g # c
          PROVE  \E r \in SectionsOf(no) : g = r + ENTRIES_HEAD
      <4>1. g \in DOMAIN L /\ g # h
        BY <1>6
      <4>2. PICK r \in SectionsOf(o) : g = r + ENTRIES_HEAD
        BY <3>1, <3>2, <4>1
      <4>3. r # s
        BY <4>1, <4>2 DEF h
      <4> QED
        BY <1>5, <4>2, <4>3
    <3>3. c \in DOMAIN M
      BY <1>2, <1>6
    <3> QED
      BY <1>2, <1>8, <3>2, <3>3
  <2>2. c \in DOMAIN no /\ no[c].kind = "script"
        /\ \A r \in SectionsOf(no) : c < r
    <3>1. c \in DOMAIN o /\ o[c].kind = "script" /\ c # s
      BY <1>1, <1>2 DEF Owned, SectionsOf
    <3> QED
      BY <1>1, <1>5, <3>1, OwnedHeads
  <2>4. ASSUME NEW i \in 1 .. Len(M[c])
        PROVE  \E r \in SectionsOf(no) : M[c][i] = r + SECTIONS_HOOK
    <3>1. PICK j \in 1 .. Len(L[c]) : j # k /\ M[c][i] = L[c][j]
      BY <1>7
    <3>2. PICK r \in SectionsOf(o) : L[c][j] = r + SECTIONS_HOOK
      BY <1>1, <1>2 DEF Owned
    <3>3. r # s
      <4> SUFFICES ASSUME r = s PROVE FALSE
        OBVIOUS
      <4>1. L[c][j] = L[c][k]
        BY <1>1, <3>2 DEF l
      <4> QED
        BY <1>1, <1>2, <3>1, <4>1 DEF Rings
    <3> QED
      BY <1>5, <3>1, <3>2, <3>3
  <2>5. ASSUME NEW r \in SectionsOf(no)
        PROVE  /\ \E i \in 1 .. Len(M[c]) : M[c][i] = r + SECTIONS_HOOK
               /\ \A i \in 1 .. Len(M[r + ENTRIES_HEAD]) :
                     \E d \in EntriesOf(no) :
                        M[r + ENTRIES_HEAD][i] = d + ENTRIES_HOOK
    <3>1. PICK j \in 1 .. Len(L[c]) : L[c][j] = r + SECTIONS_HOOK
      BY <1>1, <1>8 DEF Owned
    <3>2. j # k
      <4>1. r + SECTIONS_HOOK # s + SECTIONS_HOOK
        BY <1>1, <1>8, OwnedHeads DEF SECTIONS_HOOK
      <4> QED
        BY <1>1, <3>1, <4>1 DEF l
    <3>3. \A i \in 1 .. Len(L[r + ENTRIES_HEAD]) :
             \E d \in EntriesOf(o) : L[r + ENTRIES_HEAD][i] = d + ENTRIES_HOOK
      <4>1. r \in SectionsOf(o)
        BY <1>8
      <4> QED
        BY <1>1, <4>1, OwnedLists
    <3>4. \E i \in 1 .. Len(M[c]) : M[c][i] = r + SECTIONS_HOOK
      BY <1>7, <3>1, <3>2, Zenon
    <3>5. M[r + ENTRIES_HEAD] = L[r + ENTRIES_HEAD] /\ EntriesOf(no) = EntriesOf(o)
      BY <1>5, <1>8
    <3> QED
      BY <3>3, <3>4, <3>5, Zenon
  <2>6. ASSUME NEW d \in EntriesOf(no)
        PROVE  \E r \in SectionsOf(no) :
                  \E i \in 1 .. Len(M[r + ENTRIES_HEAD]) :
                     M[r + ENTRIES_HEAD][i] = d + ENTRIES_HOOK
    <3>1. PICK r \in SectionsOf(o) :
             \E i \in 1 .. Len(L[r + ENTRIES_HEAD]) :
                L[r + ENTRIES_HEAD][i] = d + ENTRIES_HOOK
      BY <1>1, <1>5 DEF Owned
    <3>2. r # s
      <4> SUFFICES ASSUME r = s PROVE FALSE
        OBVIOUS
      <4>1. Len(L[r + ENTRIES_HEAD]) = 0
        BY <1>1 DEF h
      <4> QED
        BY <3>1, <4>1
    <3>3. r \in SectionsOf(no)
      BY <1>5, <3>2
    <3> QED
      BY <1>8, <3>1, <3>3
  <2> QED
    BY <1>2, <2>1, <2>2, <2>4, <2>5, <2>6, Zenon DEF Owned
<1>10. \A y \in DOMAIN nk : y < base
  BY <1>1, <1>3
<1>11. Shape(nk, no, c, base, M)
  BY <1>3, <1>4, <1>5, <1>9, <1>10, Zenon DEF Shape
<1> QED
  BY <1>3, <1>11 DEF nk, no, K, M, h, l
-----------------------------------------------------------------------------
(* The loops of script_section_delete() and script_delete()                *)

\* What memory may be like once some of the objects are deleted.
Parts(o) == {[a \in S |-> o[a]] : S \in SUBSET DOMAIN o}

States(t) ==
    [hooks : [DOMAIN t.hooks -> [prev : DOMAIN t.hooks, next : DOMAIN t.hooks]],
     objs : Parts(t.objs)]

LEMMA StatesParts ==
    ASSUME NEW t, NEW u \in States(t)
    PROVE  /\ u = [hooks |-> u.hooks, objs |-> u.objs]
           /\ DOMAIN u.hooks = DOMAIN t.hooks
           /\ DOMAIN u.objs \subseteq DOMAIN t.objs
           /\ \A a \in DOMAIN u.objs : u.objs[a] = t.objs[a]
           /\ u.objs = [a \in DOMAIN u.objs |-> t.objs[a]]
<1>1. /\ u = [hooks |-> u.hooks, objs |-> u.objs]
      /\ DOMAIN u.hooks = DOMAIN t.hooks /\ u.objs \in Parts(t.objs)
  BY DEF States
<1>2. PICK S \in SUBSET DOMAIN t.objs : u.objs = [a \in S |-> t.objs[a]]
  BY <1>1, Zenon DEF Parts
<1>3. DOMAIN u.objs = S
  BY <1>2
<1> QED
  BY <1>1, <1>2, <1>3

LEMMA InStates ==
    ASSUME NEW t, NEW hk, Hooks(hk), DOMAIN hk = DOMAIN t.hooks,
           NEW o, NEW S \in SUBSET DOMAIN t.objs, o = [a \in S |-> t.objs[a]]
    PROVE  [hooks |-> hk, objs |-> o] \in States(t)
<1>1. hk \in [DOMAIN t.hooks -> [prev : DOMAIN t.hooks, next : DOMAIN t.hooks]]
  BY Zenon DEF Hooks
<1>2. o \in Parts(t.objs)
  BY Zenon DEF Parts
<1> HIDE DEF Parts
<1> QED
  BY <1>1, <1>2 DEF States

LEMMA LessInStates ==
    ASSUME NEW t, NEW u \in States(t), NEW hk, Hooks(hk),
           DOMAIN hk = DOMAIN t.hooks, NEW a
    PROVE  [hooks |-> hk, objs |-> Less(u.objs, a)] \in States(t)
<1> DEFINE S == DOMAIN u.objs \ {a}
<1>1. S \in SUBSET DOMAIN t.objs
      /\ Less(u.objs, a) = [b \in S |-> t.objs[b]]
  <2>1. DOMAIN u.objs \subseteq DOMAIN t.objs
        /\ \A b \in DOMAIN u.objs : u.objs[b] = t.objs[b]
    BY StatesParts
  <2> QED
    BY <2>1 DEF Less
<1> HIDE DEF S
<1> QED
  BY <1>1, InStates

\* A list holds no more sections, or entries, than there are objects.
LEMMA ListFits ==
    ASSUME NEW hk, NEW L, Rings(hk, L), NEW o, NEW base, Allocated(o, base),
           NEW h \in DOMAIN L, NEW off \in Nat,
           \A i \in 1 .. Len(L[h]) : \E a \in DOMAIN o : L[h][i] = a + off
    PROVE  /\ Len(L[h]) \in Nat /\ Cardinality(DOMAIN o) \in Nat
           /\ Len(L[h]) <= Cardinality(DOMAIN o)
<1>1. PICK n \in Nat : Len(L[h]) = n
  BY AtType
<1> DEFINE f == [i \in 1 .. n |-> L[h][i] - off]
<1>2. ASSUME NEW i \in 1 .. n
      PROVE  f[i] \in DOMAIN o /\ L[h][i] = f[i] + off
  <2>1. PICK a \in DOMAIN o : L[h][i] = a + off
    BY <1>1
  <2>2. a \in Nat
    BY DEF Allocated
  <2> QED
    BY <2>1, <2>2
<1>3. f \in [1 .. n -> DOMAIN o]
  BY <1>2
<1> HIDE DEF f
<1>4. \A i, j \in 1 .. n : f[i] = f[j] => i = j
  BY <1>1, <1>2 DEF Rings
<1>5. f \in Injection(1 .. n, DOMAIN o)
  BY <1>3, <1>4 DEF Injection, IsInjective
<1>6. Cardinality(1 .. n) <= Cardinality(DOMAIN o)
  BY <1>5, FS_Injection DEF Allocated
<1>7. Cardinality(1 .. n) = n
  <2>1. 1 \in Int /\ n \in Int
    OBVIOUS
  <2>2. Cardinality(1 .. n) = IF 1 > n THEN 0 ELSE n - 1 + 1
    BY <2>1, FS_Interval
  <2> QED
    BY <2>2
<1> QED
  BY <1>1, <1>6, <1>7, FS_CardinalityType DEF Allocated

\* u is what is left of t when the list with head h has n entries left.
Emptied(t, u, c, base, L, h, n) ==
    /\ u \in States(t)
    /\ SectionsOf(u.objs) = SectionsOf(t.objs)
    /\ \E M : /\ Shape(u.hooks, u.objs, c, base, M)
              /\ DOMAIN M = DOMAIN L
              /\ \A g \in DOMAIN L : g # h => M[g] = L[g]
              /\ Len(M[h]) = n

\* One turn of the loop deletes the last entry.
LEMMA DropEntry ==
    ASSUME NEW t, NEW u, NEW c, NEW base, NEW L, NEW s \in SectionsOf(t.objs),
           NEW h, h = s + ENTRIES_HEAD, NEW n \in Nat,
           Emptied(t, u, c, base, L, h, n)
    PROVE  /\ n = 0 => list_last(u.hooks, h) = NULL
           /\ n > 0 => /\ list_last(u.hooks, h) # NULL
                       /\ Emptied(t, entry_deleted(u, list_last(u.hooks, h)
                                                      - ENTRIES_HOOK),
                                  c, base, L, h, n - 1)
<1>1. /\ u \in States(t) /\ SectionsOf(u.objs) = SectionsOf(t.objs)
  BY DEF Emptied
<1>2. PICK M : /\ Shape(u.hooks, u.objs, c, base, M)
               /\ DOMAIN M = DOMAIN L
               /\ \A g \in DOMAIN L : g # h => M[g] = L[g]
               /\ Len(M[h]) = n
  BY Zenon DEF Emptied
<1>3. /\ Hooks(u.hooks) /\ Rings(u.hooks, M) /\ Allocated(u.objs, base)
      /\ Owned(u.objs, c, M)
  BY <1>2 DEF Shape
<1>4. h \in DOMAIN M
  BY <1>1, <1>3, OwnedHeads
<1>5. M[h] \in Seq(DOMAIN u.hooks)
  BY <1>3, <1>4, Zenon DEF Rings
<1>6. /\ list_last(u.hooks, h) = (IF M[h] = <<>> THEN NULL ELSE M[h][n])
      /\ M[h] = <<>> <=> n = 0
  BY <1>2, <1>3, <1>4, <1>5, ListSteps
<1> SUFFICES ASSUME n > 0
             PROVE  /\ list_last(u.hooks, h) # NULL
                    /\ Emptied(t, entry_deleted(u, list_last(u.hooks, h)
                                                   - ENTRIES_HOOK),
                               c, base, L, h, n - 1)
  BY <1>6
<1>7. n \in 1 .. Len(M[h]) /\ list_last(u.hooks, h) = M[h][n]
  BY <1>2, <1>6
<1>8. PICK e \in EntriesOf(u.objs) : M[h][n] = e + ENTRIES_HOOK
  BY <1>1, <1>3, <1>7 DEF Owned
<1>9. e \in Nat /\ list_last(u.hooks, h) # NULL
      /\ list_last(u.hooks, h) - ENTRIES_HOOK = e
  BY <1>3, <1>7, <1>8 DEF Allocated, EntriesOf, ENTRIES_HOOK, NULL
<1> DEFINE v == entry_deleted(u, e)
           K == WithoutAt(M, h, n)
<1>10. /\ v.objs = Less(u.objs, e) /\ DOMAIN v.hooks = DOMAIN u.hooks
       /\ Shape(v.hooks, Less(u.objs, e), c, base, K)
  <2>1. s \in SectionsOf(u.objs) /\ n \in 1 .. Len(M[s + ENTRIES_HEAD])
        /\ M[s + ENTRIES_HEAD][n] = e + ENTRIES_HOOK
    BY <1>1, <1>7, <1>8
  <2>2. EntryGone(v, u, e, c, base, M, s, n)
    BY <1>2, <2>1, EntryDeletedShape, Zenon
  <2> HIDE DEF v
  <2> QED
    BY <2>2 DEF EntryGone
<1>11. v = [hooks |-> v.hooks, objs |-> v.objs]
  BY DEF entry_deleted
<1>12. v \in States(t)
  <2>1. Hooks(v.hooks) /\ DOMAIN v.hooks = DOMAIN t.hooks
    BY <1>1, <1>10, StatesParts DEF Shape
  <2> HIDE DEF v
  <2>2. [hooks |-> v.hooks, objs |-> Less(u.objs, e)] \in States(t)
    BY <1>1, <2>1, LessInStates
  <2> QED
    BY <1>10, <1>11, <2>2
<1>13. SectionsOf(v.objs) = SectionsOf(t.objs)
  <2>1. e \notin SectionsOf(u.objs)
    BY <1>8 DEF EntriesOf, SectionsOf
  <2>2. SectionsOf(Less(u.objs, e)) = SectionsOf(u.objs) \ {e}
    BY <1>3, LessKinds
  <2> QED
    BY <1>1, <1>10, <2>1, <2>2
<1>14. /\ DOMAIN K = DOMAIN L /\ \A g \in DOMAIN L : g # h => K[g] = L[g]
       /\ K[h] = Cut(M[h], n)
  BY <1>2, <1>4 DEF WithoutAt
<1>15. Len(K[h]) = n - 1
  <2>1. Len(Cut(M[h], n)) = Len(M[h]) - 1
    BY <1>5, <1>7, CutSeq, Zenon
  <2> HIDE DEF K
  <2> QED
    BY <1>2, <1>14, <2>1, Zenon
<1>16. Emptied(t, v, c, base, L, h, n - 1)
  <2> HIDE DEF v, K
  <2> QED
    BY <1>10, <1>12, <1>13, <1>14, <1>15, Zenon DEF Emptied
<1> QED
  BY <1>9, <1>16
\* u is t without the section s, the k-th, and its entries.
SectionGone(u, t, s, c, base, L, k) ==
    /\ u \in States(t)
    /\ SectionsOf(u.objs) = SectionsOf(t.objs) \ {s}
    /\ Shape(u.hooks, u.objs, c, base,
             Less(WithoutAt(L, c, k), s + ENTRIES_HEAD))

\* The section once its entries are gone.
LEMMA UnlinkSection ==
    ASSUME NEW t, NEW u, NEW c, NEW base, NEW L, NEW s \in SectionsOf(t.objs),
           NEW h, h = s + ENTRIES_HEAD, Emptied(t, u, c, base, L, h, 0),
           NEW k \in 1 .. Len(L[c]), L[c][k] = s + SECTIONS_HOOK
    PROVE  SectionGone(
              [hooks |-> IF list_empty(u.hooks, s + SECTIONS_HOOK) THEN u.hooks
                         ELSE list_remove(u.hooks, s + SECTIONS_HOOK),
               objs |-> [a \in DOMAIN u.objs \ {s} |-> u.objs[a]]],
              t, s, c, base, L, k)
<1> DEFINE l == s + SECTIONS_HOOK
           v == [hooks |-> IF list_empty(u.hooks, l) THEN u.hooks
                           ELSE list_remove(u.hooks, l),
                 objs |-> [a \in DOMAIN u.objs \ {s} |-> u.objs[a]]]
<1>1. u \in States(t) /\ SectionsOf(u.objs) = SectionsOf(t.objs)
  BY DEF Emptied
<1>2. PICK M : /\ Shape(u.hooks, u.objs, c, base, M)
               /\ DOMAIN M = DOMAIN L
               /\ \A g \in DOMAIN L : g # h => M[g] = L[g]
               /\ Len(M[h]) = 0
  BY Zenon DEF Emptied
<1>3. /\ Hooks(u.hooks) /\ Rings(u.hooks, M) /\ Allocated(u.objs, base)
      /\ Owned(u.objs, c, M)
  BY <1>2 DEF Shape
<1>4. h \in DOMAIN M /\ h # c /\ c \in DOMAIN M
  BY <1>1, <1>3, OwnedHeads
<1>5. M[h] = <<>>
  <2>1. M[h] \in Seq(DOMAIN u.hooks)
    BY <1>3, <1>4, Zenon DEF Rings
  <2> QED
    BY <1>2, <2>1
<1>6. M[c] = L[c]
  BY <1>2, <1>4
<1>7. /\ ~list_empty(u.hooks, l)
      /\ DOMAIN list_remove(u.hooks, l) = DOMAIN u.hooks
      /\ Shape(list_remove(u.hooks, l), Less(u.objs, s), c, base,
               Less(WithoutAt(M, c, k), h))
  BY <1>1, <1>2, <1>5, <1>6, SectionUnlinkedShape
<1>8. v = [hooks |-> list_remove(u.hooks, l), objs |-> Less(u.objs, s)]
  BY <1>7 DEF Less
<1>9. Less(WithoutAt(M, c, k), h) = Less(WithoutAt(L, c, k), h)
  BY <1>2, <1>6, Zenon DEF Less, WithoutAt
<1>10. v \in States(t)
  <2>1. Hooks(list_remove(u.hooks, l))
        /\ DOMAIN list_remove(u.hooks, l) = DOMAIN t.hooks
    BY <1>1, <1>7, StatesParts DEF Shape
  <2>2. [hooks |-> list_remove(u.hooks, l), objs |-> Less(u.objs, s)] \in States(t)
    BY <1>1, <2>1, LessInStates
  <2> QED
    BY <1>8, <2>2
<1>11. SectionsOf(Less(u.objs, s)) = SectionsOf(t.objs) \ {s}
  <2>1. SectionsOf(Less(u.objs, s)) = SectionsOf(u.objs) \ {s}
    BY <1>3, LessKinds, Zenon
  <2> QED
    BY <1>1, <2>1
<1>12. v.hooks = list_remove(u.hooks, l) /\ v.objs = Less(u.objs, s)
  BY <1>8
<1> HIDE DEF v, l
<1>13. SectionGone(v, t, s, c, base, L, k)
  BY <1>7, <1>9, <1>10, <1>11, <1>12 DEF SectionGone
<1> QED
  BY <1>13 DEF v, l

\* script_section_delete(): its loop ends with the section empty.
LEMMA SectionDeletedShape ==
    ASSUME NEW t, t = [hooks |-> t.hooks, objs |-> t.objs],
           NEW c, NEW base, NEW L, Shape(t.hooks, t.objs, c, base, L),
           NEW s \in SectionsOf(t.objs),
           NEW k \in 1 .. Len(L[c]), L[c][k] = s + SECTIONS_HOOK
    PROVE  SectionGone(section_deleted(t, s), t, s, c, base, L, k)
<1> DEFINE h == s + ENTRIES_HEAD
           m == Len(L[h])
           last(u) == list_last(u.hooks, h)
           R == {u \in States(t) : \E n \in Nat : Emptied(t, u, c, base, L, h, n)}
           next(u) == IF last(u) = NULL THEN u
                      ELSE entry_deleted(u, last(u) - ENTRIES_HOOK)
           step == [u \in R |-> next(u)]
           E(f) == f = [n \in Nat |->
                          IF n = 0 THEN t
                          ELSE LET drop(u) ==
                                     IF last(u) = NULL THEN u
                                     ELSE entry_deleted(u, last(u) - ENTRIES_HOOK)
                               IN  drop(f[n - 1])]
           after == CHOOSE f : E(f)
           N == Cardinality(DOMAIN t.objs)
           unlinked(u) ==
              [hooks |-> IF list_empty(u.hooks, s + SECTIONS_HOOK) THEN u.hooks
                         ELSE list_remove(u.hooks, s + SECTIONS_HOOK),
               objs  |-> [a \in DOMAIN u.objs \ {s} |-> u.objs[a]]]
<1>1. section_deleted(t, s) = unlinked(after[N])
  BY Zenon DEF section_deleted
<1>2. /\ Hooks(t.hooks) /\ Rings(t.hooks, L) /\ Allocated(t.objs, base)
      /\ Owned(t.objs, c, L)
  BY DEF Shape
<1>3. h \in DOMAIN L
  BY <1>2, OwnedHeads
<1>4. m \in Nat /\ N \in Nat /\ m <= N
  <2>1. \A i \in 1 .. Len(L[h]) : \E a \in DOMAIN t.objs : L[h][i] = a + ENTRIES_HOOK
    BY <1>2 DEF Owned, EntriesOf
  <2>2. ENTRIES_HOOK \in Nat
    BY DEF ENTRIES_HOOK
  <2> QED
    BY <1>2, <1>3, <2>1, <2>2, ListFits
<1>5. Emptied(t, t, c, base, L, h, m)
  <2>1. t \in States(t)
    <3>1. t.objs = [a \in DOMAIN t.objs |-> t.objs[a]]
      BY <1>2, Zenon DEF Allocated
    <3>2. [hooks |-> t.hooks, objs |-> t.objs] \in States(t)
      <4>1. DOMAIN t.objs \in SUBSET DOMAIN t.objs
        OBVIOUS
      <4> QED
        BY <1>2, <3>1, <4>1, InStates
    <3> QED
      BY <3>2
  <2>2. \A g \in DOMAIN L : g # h => L[g] = L[g]
    OBVIOUS
  <2> HIDE DEF h
  <2> QED
    BY <2>1, <2>2, Zenon DEF Emptied
<1> HIDE DEF N, m, h
<1>6. t \in R
  <2>1. t \in States(t) /\ m \in Nat
    BY <1>4, <1>5, Zenon DEF Emptied
  <2> QED
    BY <1>5, <2>1, Zenon
<1>7. ASSUME NEW u, NEW n \in Nat, Emptied(t, u, c, base, L, h, n)
      PROVE  Emptied(t, next(u), c, base, L, h, IF n = 0 THEN 0 ELSE n - 1)
  <2>1. /\ n = 0 => last(u) = NULL
        /\ n > 0 => /\ last(u) # NULL
                    /\ Emptied(t, entry_deleted(u, last(u) - ENTRIES_HOOK),
                               c, base, L, h, n - 1)
    BY <1>7, DropEntry DEF h
  <2> QED
    BY <1>7, <2>1
<1>8. step \in [R -> R]
  <2>1. ASSUME NEW u \in R PROVE next(u) \in R
    <3>1. PICK n \in Nat : Emptied(t, u, c, base, L, h, n)
      OBVIOUS
    <3>2. Emptied(t, next(u), c, base, L, h, IF n = 0 THEN 0 ELSE n - 1)
      BY <1>7, <3>1
    <3>3. (IF n = 0 THEN 0 ELSE n - 1) \in Nat
      OBVIOUS
    <3>4. next(u) \in States(t)
      BY <3>2, Zenon DEF Emptied
    <3> HIDE DEF next
    <3> QED
      BY <3>2, <3>3, <3>4, Zenon
  <2> HIDE DEF next, R
  <2> QED
    BY <2>1, Zenon
<1>9. E(after)
  <2> HIDE DEF R, next
  <2>1. PICK f : Turns(f, R, t, step)
    <3> HIDE DEF step
    <3> QED
      BY <1>6, <1>8, Iterations, Zenon
  <2>5. f \in [Nat -> R] /\ f = [n \in Nat |-> IF n = 0 THEN t ELSE step[f[n - 1]]]
    BY <2>1, Zenon DEF Turns
  <2>2. \A n \in Nat : n # 0 => step[f[n - 1]] = next(f[n - 1])
    <3>1. \A n \in Nat : n # 0 => f[n - 1] \in R
      <4> HIDE DEF step
      <4> QED
        BY <2>5
    <3> QED
      BY <3>1, Zenon
  <2>3. f = [n \in Nat |-> IF n = 0 THEN t ELSE next(f[n - 1])]
    <3> HIDE DEF step
    <3> QED
      BY <2>5, <2>2, Zenon
  <2>4. E(f)
    BY <2>3, Zenon DEF next
  <2> HIDE DEF E
  <2> QED
    BY <2>4, Zenon
<1> HIDE DEF E, after, next, R, step, last
<1>10. after[0] = t /\ \A n \in Nat : after[n + 1] = next(after[n])
  <2>1. after = [n \in Nat |-> IF n = 0 THEN t ELSE next(after[n - 1])]
    BY <1>9, Zenon DEF E, next, last
  <2>2. ASSUME NEW n \in Nat
        PROVE  after[n] = IF n = 0 THEN t ELSE next(after[n - 1])
    BY <2>1, Zenon
  <2>3. ASSUME NEW n \in Nat PROVE after[n + 1] = next(after[n])
    <3>1. n + 1 \in Nat /\ n + 1 # 0 /\ (n + 1) - 1 = n
      OBVIOUS
    <3>2. after[n + 1] = next(after[(n + 1) - 1])
      BY <2>2, <3>1, Zenon
    <3> QED
      BY <3>1, <3>2
  <2> QED
    BY <2>2, <2>3
<1> DEFINE left(n) == IF n <= m THEN m - n ELSE 0
           S == {n \in Nat : Emptied(t, after[n], c, base, L, h, left(n))}
<1>11. 0 \in S
  <2>1. left(0) = m
    BY <1>4
  <2> HIDE DEF left
  <2> QED
    BY <1>5, <1>10, <2>1
<1>12. ASSUME NEW n \in Nat, n \in S PROVE n + 1 \in S
  <2>1. left(n) \in Nat /\ left(n + 1) = IF left(n) = 0 THEN 0 ELSE left(n) - 1
    BY <1>4
  <2> HIDE DEF left
  <2>2. Emptied(t, after[n], c, base, L, h, left(n))
    BY <1>12
  <2>3. Emptied(t, next(after[n]), c, base, L, h, left(n + 1))
    BY <1>7, <2>1, <2>2
  <2> QED
    BY <1>10, <2>3
<1>13. \A n \in Nat : n \in S
  <2> HIDE DEF S
  <2> QED
    BY <1>11, <1>12, NatSetInduction
<1>14. left(N) = 0
  BY <1>4
<1>15. Emptied(t, after[N], c, base, L, h, 0)
  <2> HIDE DEF left
  <2> QED
    BY <1>4, <1>13, <1>14
<1>16. SectionGone(unlinked(after[N]), t, s, c, base, L, k)
  <2>1. h = s + ENTRIES_HEAD
    BY DEF h
  <2> QED
    BY <1>15, <2>1, UnlinkSection
<1> QED
  BY <1>1, <1>16

LEMMA StatesWithin ==
    ASSUME NEW t, NEW u \in States(t), NEW v \in States(u)
    PROVE  v \in States(t)
<1>1. /\ v = [hooks |-> v.hooks, objs |-> v.objs]
      /\ v.hooks \in [DOMAIN u.hooks -> [prev : DOMAIN u.hooks, next : DOMAIN u.hooks]]
  BY DEF States
<1>2. /\ DOMAIN u.hooks = DOMAIN t.hooks
      /\ DOMAIN u.objs \subseteq DOMAIN t.objs
      /\ \A a \in DOMAIN u.objs : u.objs[a] = t.objs[a]
  BY StatesParts
<1>3. /\ DOMAIN v.objs \subseteq DOMAIN u.objs
      /\ v.objs = [a \in DOMAIN v.objs |-> u.objs[a]]
  BY StatesParts
<1>4. v.objs = [a \in DOMAIN v.objs |-> t.objs[a]]
  <2>1. \A a \in DOMAIN v.objs : u.objs[a] = t.objs[a]
    BY <1>2, <1>3
  <2> QED
    BY <1>3, <2>1, Zenon
<1>5. v.objs \in Parts(t.objs)
  <2>1. DOMAIN v.objs \in SUBSET DOMAIN t.objs
    BY <1>2, <1>3
  <2> QED
    BY <1>4, <2>1, Zenon DEF Parts
<1> HIDE DEF Parts
<1> QED
  BY <1>1, <1>2, <1>5, Zenon DEF States

\* u is what is left of t when the tree at c has n sections left.
Trimmed(t, u, c, base, n) ==
    /\ u \in States(t)
    /\ \E M : Shape(u.hooks, u.objs, c, base, M) /\ Len(M[c]) = n

\* One turn of the loop deletes the last section.
LEMMA DropSection ==
    ASSUME NEW t, NEW u, NEW c, c # NULL, NEW base, NEW n \in Nat,
           Trimmed(t, u, c, base, n)
    PROVE  /\ n = 0 => list_last(u.hooks, c) = NULL
           /\ n > 0 => /\ list_last(u.hooks, c) # NULL
                       /\ Trimmed(t, section_deleted(u, list_last(u.hooks, c)
                                                        - SECTIONS_HOOK),
                                  c, base, n - 1)
<1>1. u \in States(t)
  BY DEF Trimmed
<1>2. PICK M : Shape(u.hooks, u.objs, c, base, M) /\ Len(M[c]) = n
  BY Zenon DEF Trimmed
<1>3. /\ Hooks(u.hooks) /\ Rings(u.hooks, M) /\ Allocated(u.objs, base)
      /\ Owned(u.objs, c, M)
  BY <1>2 DEF Shape
<1>4. c \in DOMAIN M
  BY <1>3 DEF Owned
<1>5. M[c] \in Seq(DOMAIN u.hooks)
  BY <1>3, <1>4, Zenon DEF Rings
<1>6. /\ list_last(u.hooks, c) = (IF M[c] = <<>> THEN NULL ELSE M[c][n])
      /\ M[c] = <<>> <=> n = 0
  BY <1>2, <1>3, <1>4, <1>5, ListSteps
<1> SUFFICES ASSUME n > 0
             PROVE  /\ list_last(u.hooks, c) # NULL
                    /\ Trimmed(t, section_deleted(u, list_last(u.hooks, c)
                                                     - SECTIONS_HOOK),
                               c, base, n - 1)
  BY <1>6
<1>7. n \in 1 .. Len(M[c]) /\ list_last(u.hooks, c) = M[c][n]
  BY <1>2, <1>6
<1>8. PICK s \in SectionsOf(u.objs) : M[c][n] = s + SECTIONS_HOOK
  BY <1>3, <1>7 DEF Owned
<1>9. s \in Nat /\ list_last(u.hooks, c) # NULL
      /\ list_last(u.hooks, c) - SECTIONS_HOOK = s
  BY <1>3, <1>7, <1>8 DEF Allocated, SectionsOf, SECTIONS_HOOK, NULL
<1> DEFINE v == section_deleted(u, s)
           h == s + ENTRIES_HEAD
           K == Less(WithoutAt(M, c, n), h)
<1>10. SectionGone(v, u, s, c, base, M, n)
  <2>1. u = [hooks |-> u.hooks, objs |-> u.objs]
    BY <1>1, StatesParts
  <2> QED
    BY <1>2, <1>7, <1>8, <2>1, SectionDeletedShape, Zenon
<1> HIDE DEF v
<1>11. v \in States(t) /\ Shape(v.hooks, v.objs, c, base, K)
  BY <1>1, <1>10, StatesWithin, Zenon DEF SectionGone
<1>12. Len(K[c]) = n - 1
  <2>1. h # c
    BY <1>3, OwnedHeads
  <2>2. K[c] = Cut(M[c], n)
    BY <1>4, <2>1 DEF Less, WithoutAt
  <2> HIDE DEF K
  <2> QED
    BY <1>2, <1>5, <1>7, <2>2, CutSeq
<1>13. Trimmed(t, v, c, base, n - 1)
  <2> HIDE DEF K
  <2> QED
    BY <1>11, <1>12, Zenon DEF Trimmed
<1> QED
  BY <1>9, <1>13 DEF v

\* The tree once its sections are gone.
LEMMA EmptyTreeShape ==
    ASSUME NEW t, NEW u, NEW c, c # NULL, NEW base, Trimmed(t, u, c, base, 0)
    PROVE  \E M : Shape(u.hooks, Less(u.objs, c), NULL, base, M)
<1>1. PICK M : Shape(u.hooks, u.objs, c, base, M) /\ Len(M[c]) = 0
  BY Zenon DEF Trimmed
<1>2. /\ Hooks(u.hooks) /\ Rings(u.hooks, M) /\ Allocated(u.objs, base)
      /\ Owned(u.objs, c, M) /\ \A x \in DOMAIN u.hooks : x < base
  BY <1>1 DEF Shape
<1>3. SectionsOf(u.objs) = {} /\ EntriesOf(u.objs) = {}
  <2>1. SectionsOf(u.objs) = {}
    BY <1>1, <1>2 DEF Owned
  <2> QED
    BY <1>2, <2>1 DEF Owned
<1>4. DOMAIN M = {c}
  BY <1>2, <1>3 DEF Owned
<1>5. Allocated(Less(u.objs, c), base)
      /\ SectionsOf(Less(u.objs, c)) = {} /\ EntriesOf(Less(u.objs, c)) = {}
  <2>1. /\ Allocated(Less(u.objs, c), base)
        /\ SectionsOf(Less(u.objs, c)) = SectionsOf(u.objs) \ {c}
        /\ EntriesOf(Less(u.objs, c)) = EntriesOf(u.objs) \ {c}
    BY <1>2, LessKinds, Zenon
  <2> QED
    BY <1>3, <2>1
<1>6. Rings(u.hooks, Less(M, c)) /\ DOMAIN Less(M, c) = {}
  BY <1>2, <1>4, FewerRings DEF Less
<1>7. Owned(Less(u.objs, c), NULL, Less(M, c))
  <2>1. NULL \in Nat
    BY DEF NULL
  <2> QED
    BY <1>5, <1>6, <2>1 DEF Owned
<1>8. Shape(u.hooks, Less(u.objs, c), NULL, base, Less(M, c))
  BY <1>2, <1>5, <1>6, <1>7, Zenon DEF Shape
<1> QED
  BY <1>8, Zenon

\* script_delete(): its loop ends with no section.
LEMMA ScriptDeletedShape ==
    ASSUME NEW L, Shape(hooks, objs, script, heap_base, L), script # NULL,
           script_delete
    PROVE  \E M : Shape(hooks', objs', script', heap_base', M)
<1> DEFINE c == script
           base == heap_base
           t == Tree
           m == Len(L[c])
           N == Cardinality(DOMAIN objs)
           last(u) == list_last(u.hooks, script + SCRIPT_HEAD)
           R == {u \in States(t) : \E n \in Nat : Trimmed(t, u, c, base, n)}
           next(u) == IF last(u) = NULL THEN u
                      ELSE section_deleted(u, last(u) - SECTIONS_HOOK)
           step == [u \in R |-> next(u)]
           E(f) == f = [n \in Nat |->
                          IF n = 0 THEN Tree
                          ELSE LET drop(u) ==
                                     IF last(u) = NULL THEN u
                                     ELSE section_deleted(u, last(u)
                                                             - SECTIONS_HOOK)
                               IN  drop(f[n - 1])]
           after == CHOOSE f : E(f)
           gone(u) == [u EXCEPT !.objs = [a \in DOMAIN @ \ {script} |-> @[a]]]
<1>1. Becomes(gone(after[N])) /\ script' = NULL
  BY Zenon DEF script_delete
<1>2. /\ Hooks(hooks) /\ Rings(hooks, L) /\ Allocated(objs, base)
      /\ Owned(objs, c, L)
  BY DEF Shape
<1>3. c \in DOMAIN L /\ c + SCRIPT_HEAD = c
  BY <1>2 DEF Owned, SCRIPT_HEAD
<1>4. m \in Nat /\ N \in Nat /\ m <= N
  <2>1. \A i \in 1 .. Len(L[c]) : \E a \in DOMAIN objs : L[c][i] = a + SECTIONS_HOOK
    BY <1>2 DEF Owned, SectionsOf
  <2>2. SECTIONS_HOOK \in Nat
    BY DEF SECTIONS_HOOK
  <2> QED
    BY <1>2, <1>3, <2>1, <2>2, ListFits
<1>5. Trimmed(t, t, c, base, m)
  <2>0. t.hooks = hooks /\ t.objs = objs /\ t = [hooks |-> hooks, objs |-> objs]
    BY DEF Tree
  <2>1. t \in States(t)
    <3>1. objs = [a \in DOMAIN objs |-> objs[a]]
      BY <1>2, Zenon DEF Allocated
    <3>2. DOMAIN objs \in SUBSET DOMAIN objs
      OBVIOUS
    <3> HIDE DEF t
    <3>3. [hooks |-> hooks, objs |-> objs] \in States(t)
      BY <1>2, <2>0, <3>1, <3>2, InStates
    <3> QED
      BY <2>0, <3>3
  <2> HIDE DEF t, m
  <2>2. Shape(t.hooks, t.objs, c, base, L) /\ Len(L[c]) = m
    BY <2>0 DEF m
  <2> QED
    BY <2>1, <2>2, Zenon DEF Trimmed
<1> HIDE DEF N, m, t
<1>6. t \in R
  <2>1. t \in States(t) /\ m \in Nat
    BY <1>4, <1>5, Zenon DEF Trimmed
  <2> QED
    BY <1>5, <2>1, Zenon
<1>7. ASSUME NEW u, NEW n \in Nat, Trimmed(t, u, c, base, n)
      PROVE  Trimmed(t, next(u), c, base, IF n = 0 THEN 0 ELSE n - 1)
  <2>1. /\ n = 0 => last(u) = NULL
        /\ n > 0 => /\ last(u) # NULL
                    /\ Trimmed(t, section_deleted(u, last(u) - SECTIONS_HOOK),
                               c, base, n - 1)
    BY <1>3, <1>7, DropSection
  <2> QED
    BY <1>7, <2>1
<1>8. step \in [R -> R]
  <2>1. ASSUME NEW u \in R PROVE next(u) \in R
    <3>1. PICK n \in Nat : Trimmed(t, u, c, base, n)
      OBVIOUS
    <3>2. Trimmed(t, next(u), c, base, IF n = 0 THEN 0 ELSE n - 1)
      BY <1>7, <3>1
    <3>3. (IF n = 0 THEN 0 ELSE n - 1) \in Nat
      OBVIOUS
    <3>4. next(u) \in States(t)
      BY <3>2, Zenon DEF Trimmed
    <3> HIDE DEF next
    <3> QED
      BY <3>2, <3>3, <3>4, Zenon
  <2> HIDE DEF next, R
  <2> QED
    BY <2>1, Zenon
<1>9. E(after)
  <2> HIDE DEF R, next
  <2>1. PICK f : Turns(f, R, t, step)
    <3> HIDE DEF step
    <3> QED
      BY <1>6, <1>8, Iterations, Zenon
  <2>5. f \in [Nat -> R] /\ f = [n \in Nat |-> IF n = 0 THEN t ELSE step[f[n - 1]]]
    BY <2>1, Zenon DEF Turns
  <2>2. \A n \in Nat : n # 0 => step[f[n - 1]] = next(f[n - 1])
    <3>1. \A n \in Nat : n # 0 => f[n - 1] \in R
      <4> HIDE DEF step
      <4> QED
        BY <2>5
    <3> QED
      BY <3>1, Zenon
  <2>3. f = [n \in Nat |-> IF n = 0 THEN t ELSE next(f[n - 1])]
    <3> HIDE DEF step
    <3> QED
      BY <2>5, <2>2, Zenon
  <2>4. E(f)
    BY <2>3, Zenon DEF next, t
  <2> HIDE DEF E
  <2> QED
    BY <2>4, Zenon
<1> HIDE DEF E, after, next, R, step, last
<1>10. after[0] = t /\ \A n \in Nat : after[n + 1] = next(after[n])
  <2>1. after = [n \in Nat |-> IF n = 0 THEN t ELSE next(after[n - 1])]
    BY <1>9, Zenon DEF E, next, last, t
  <2>2. ASSUME NEW n \in Nat
        PROVE  after[n] = IF n = 0 THEN t ELSE next(after[n - 1])
    BY <2>1, Zenon
  <2>3. ASSUME NEW n \in Nat PROVE after[n + 1] = next(after[n])
    <3>1. n + 1 \in Nat /\ n + 1 # 0 /\ (n + 1) - 1 = n
      OBVIOUS
    <3>2. after[n + 1] = next(after[(n + 1) - 1])
      BY <2>2, <3>1, Zenon
    <3> QED
      BY <3>1, <3>2
  <2> QED
    BY <2>2, <2>3
<1> DEFINE left(n) == IF n <= m THEN m - n ELSE 0
           S == {n \in Nat : Trimmed(t, after[n], c, base, left(n))}
<1>11. 0 \in S
  <2>1. left(0) = m
    BY <1>4
  <2> HIDE DEF left
  <2> QED
    BY <1>5, <1>10, <2>1
<1>12. ASSUME NEW n \in Nat, n \in S PROVE n + 1 \in S
  <2>1. left(n) \in Nat /\ left(n + 1) = IF left(n) = 0 THEN 0 ELSE left(n) - 1
    BY <1>4
  <2> HIDE DEF left
  <2>2. Trimmed(t, after[n], c, base, left(n))
    BY <1>12
  <2>3. Trimmed(t, next(after[n]), c, base, left(n + 1))
    BY <1>7, <2>1, <2>2
  <2> QED
    BY <1>10, <2>3
<1>13. \A n \in Nat : n \in S
  <2> HIDE DEF S
  <2> QED
    BY <1>11, <1>12, NatSetInduction
<1>14. left(N) = 0
  BY <1>4
<1>15. Trimmed(t, after[N], c, base, 0)
  <2> HIDE DEF left
  <2> QED
    BY <1>4, <1>13, <1>14
<1> DEFINE u == after[N]
<1>16. /\ hooks' = u.hooks /\ objs' = Less(u.objs, script) /\ heap_base' = base
       /\ script' = NULL
  <2>1. u = [hooks |-> u.hooks, objs |-> u.objs]
    <3>1. u \in States(t)
      BY <1>15, Zenon DEF Trimmed
    <3> HIDE DEF u
    <3> QED
      BY <3>1, StatesParts
  <2>2. Becomes(gone(u)) /\ script' = NULL
    BY <1>1
  <2> HIDE DEF u
  <2>3. gone(u) = [hooks |-> u.hooks, objs |-> Less(u.objs, script)]
    BY <2>1 DEF Less
  <2>4. gone(u).hooks = u.hooks /\ gone(u).objs = Less(u.objs, script)
    BY <2>3
  <2> HIDE DEF gone
  <2> QED
    BY <2>2, <2>4 DEF Becomes
<1>17. \E M : Shape(u.hooks, Less(u.objs, c), NULL, base, M)
  <2>1. Trimmed(t, u, c, base, 0)
    BY <1>15
  <2> HIDE DEF u
  <2> QED
    BY <2>1, EmptyTreeShape, Zenon
<1> HIDE DEF u
<1> QED
  BY <1>16, <1>17, Zenon

-----------------------------------------------------------------------------
(* The steps                                                               *)

\* Allocate puts an object where the heap ends.
LEMMA AllocateStep ==
    ASSUME NEW size, NEW x, Allocate(size, x)
    PROVE  /\ objs' = Put(objs, heap_base, x) /\ ret' = heap_base
           /\ heap_base' = heap_base + aligned(size)
BY DEF Allocate, Put

LEMMA NewScriptStep ==
    ASSUME NEW L, Shape(hooks, objs, script, heap_base, L), script = NULL,
           script_new
    PROVE  /\ ret' = heap_base /\ script' = heap_base
           /\ Shape(hooks', objs', script', heap_base', WithEmpty(L, heap_base))
<1> DEFINE x == Object("script", "", NoContent, SIZEOF_SCRIPT)
<1>1. x.kind = "script" /\ x.len \in Nat
  BY DEF Object, SIZEOF_SCRIPT
<1>2. /\ Allocate(SIZEOF_SCRIPT, x) /\ script' = heap_base
      /\ hooks' = list_init(hooks, heap_base + SCRIPT_HEAD)
  BY DEF script_new
<1> HIDE DEF x
<1>3. /\ objs' = Put(objs, heap_base, x) /\ ret' = heap_base
      /\ heap_base' = heap_base + aligned(SIZEOF_SCRIPT)
  BY <1>2, AllocateStep, Zenon
<1>4. Shape(list_init(hooks, heap_base + SCRIPT_HEAD), Put(objs, heap_base, x),
            heap_base, heap_base + aligned(SIZEOF_SCRIPT),
            WithEmpty(L, heap_base))
  BY <1>1, <1>2, NewScriptShape
<1> QED
  BY <1>2, <1>3, <1>4, Zenon

SectionNamed(name) ==
    Object("section", cut_name(name), NoContent, SIZEOF_SECTION)

LEMMA NewSectionStep ==
    ASSUME NEW L, Shape(hooks, objs, script, heap_base, L), script # NULL,
           NEW name, script_section_new(name)
    PROVE  /\ ret' = heap_base /\ script' = script
           /\ objs' = Put(objs, heap_base, SectionNamed(name))
           /\ Shape(hooks', objs', script', heap_base',
                    WithLast(WithEmpty(L, heap_base + ENTRIES_HEAD), script,
                             heap_base + SECTIONS_HOOK))
<1> DEFINE x == SectionNamed(name)
<1>1. x.kind = "section" /\ x.len \in Nat
  BY DEF SectionNamed, Object, SIZEOF_SECTION
<1>2. /\ Allocate(SIZEOF_SECTION, x) /\ script' = script
      /\ hooks' = list_append(list_init(hooks, heap_base + ENTRIES_HEAD),
                              script + SCRIPT_HEAD, heap_base + SECTIONS_HOOK)
  BY DEF script_section_new, SectionNamed
<1> HIDE DEF x
<1>3. /\ objs' = Put(objs, heap_base, x) /\ ret' = heap_base
      /\ heap_base' = heap_base + aligned(SIZEOF_SECTION)
  BY <1>2, AllocateStep, Zenon
<1>4. Shape(list_append(list_init(hooks, heap_base + ENTRIES_HEAD),
                        script + SCRIPT_HEAD, heap_base + SECTIONS_HOOK),
            Put(objs, heap_base, x), script,
            heap_base + aligned(SIZEOF_SECTION),
            WithLast(WithEmpty(L, heap_base + ENTRIES_HEAD), script,
                     heap_base + SECTIONS_HOOK))
  BY <1>1, NewSectionShape
<1> QED
  BY <1>2, <1>3, <1>4, Zenon DEF x

EntryNamed(name, c) == Object("entry", cut_name(name), c, entry_len(c))

LEMMA NewEntryStep ==
    ASSUME NEW L, Shape(hooks, objs, script, heap_base, L),
           NEW s \in Sections, NEW name, NEW c, Len(c.value) \in Nat,
           c.type \in {NULL_TYPE, SINGLE_WORD, STRING_TYPE, GPIO},
           script_entry_new(s, name, c)
    PROVE  /\ ret' = heap_base /\ script' = script
           /\ objs' = Put(objs, heap_base, EntryNamed(name, c))
           /\ Shape(hooks', objs', script', heap_base',
                    WithLast(L, s + ENTRIES_HEAD, heap_base + ENTRIES_HOOK))
<1> DEFINE x == EntryNamed(name, c)
           size == entry_size(c.type, Len(c.value))
<1>1. x.kind = "entry" /\ x.len \in Nat
  BY DEF EntryNamed, Object, entry_len, NULL_TYPE, SINGLE_WORD,
              STRING_TYPE, GPIO
<1>5. size \in Nat /\ size > ENTRIES_HOOK
  BY DEF entry_size, NULL_TYPE, SINGLE_WORD, STRING_TYPE, GPIO, ENTRIES_HOOK
<1>2. /\ Allocate(size, x) /\ script' = script /\ s \in SectionsOf(objs)
      /\ hooks' = list_append(hooks, s + ENTRIES_HEAD, heap_base + ENTRIES_HOOK)
  BY DEF script_entry_new, EntryNamed, Sections, SectionsOf
<1> HIDE DEF x, size
<1>3. /\ objs' = Put(objs, heap_base, x) /\ ret' = heap_base
      /\ heap_base' = heap_base + aligned(size)
  BY <1>2, AllocateStep, Zenon
<1>4. Shape(list_append(hooks, s + ENTRIES_HEAD, heap_base + ENTRIES_HOOK),
            Put(objs, heap_base, x), script, heap_base + aligned(size),
            WithLast(L, s + ENTRIES_HEAD, heap_base + ENTRIES_HOOK))
  BY <1>1, <1>2, <1>5, NewEntryShape
<1> QED
  BY <1>2, <1>3, <1>4, Zenon DEF x

\* A block that is no part of the tree leaves its shape alone.
LEMMA BlockShape ==
    ASSUME NEW L, Shape(hooks, objs, script, heap_base, L),
           NEW size \in Nat, NEW x, x.len \in Nat, x.kind \in {"soc", "bytes"},
           x.kind # "bytes" => size > 0,
           Allocate(size, x), UNCHANGED <<hooks, script>>
    PROVE  Shape(hooks', objs', script', heap_base', L)
<1>1. /\ objs' = Put(objs, heap_base, x) /\ ret' = heap_base
      /\ heap_base' = heap_base + aligned(size)
  BY AllocateStep, Zenon
<1>2. Allocated(objs, heap_base) /\ Owned(objs, script, L)
  BY DEF Shape
<1>3. Allocated(objs', heap_base')
  <2>1. x.kind \in {"script", "section", "entry", "soc", "bytes"}
    OBVIOUS
  <2> QED
    BY <1>1, <1>2, <2>1, AllocatedPut
<1>4. Owned(objs', script', L)
  BY <1>1, <1>2, OwnedPut
<1>5. \A y \in DOMAIN hooks' : y < heap_base'
  <2>1. aligned(size) \in Nat /\ heap_base \in Nat
    BY <1>2, AlignedEnough DEF Allocated
  <2>2. \A y \in DOMAIN hooks : y \in Nat /\ y < heap_base
    BY DEF Shape, Hooks
  <2> QED
    BY <1>1, <2>1, <2>2
<1> QED
  BY <1>3, <1>4, <1>5 DEF Shape

LEMMA DeleteEntryStep ==
    ASSUME NEW L, Shape(hooks, objs, script, heap_base, L),
           NEW e \in EntriesOf(objs), script_entry_delete(e),
           NEW s \in SectionsOf(objs), NEW k \in 1 .. Len(L[s + ENTRIES_HEAD]),
           L[s + ENTRIES_HEAD][k] = e + ENTRIES_HOOK
    PROVE  /\ ret' = NULL /\ script' = script /\ objs' = Less(objs, e)
           /\ Shape(hooks', objs', script', heap_base',
                    WithoutAt(L, s + ENTRIES_HEAD, k))
<1> DEFINE v == entry_deleted(Tree, e)
<1>1. Tree.hooks = hooks /\ Tree.objs = objs
  BY DEF Tree
<1>2. EntryGone(v, Tree, e, script, heap_base, L, s, k)
  BY <1>1, EntryDeletedShape
<1>3. Becomes(v) /\ script' = script
  BY DEF script_entry_delete
<1> HIDE DEF v
<1>4. /\ v.objs = Less(objs, e)
      /\ Shape(v.hooks, Less(objs, e), script, heap_base,
               WithoutAt(L, s + ENTRIES_HEAD, k))
  BY <1>1, <1>2 DEF EntryGone
<1> QED
  BY <1>3, <1>4, Zenon DEF Becomes

LEMMA DeleteSectionStep ==
    ASSUME NEW L, Shape(hooks, objs, script, heap_base, L),
           NEW s \in SectionsOf(objs), script_section_delete(s),
           NEW k \in 1 .. Len(L[script]), L[script][k] = s + SECTIONS_HOOK
    PROVE  /\ ret' = NULL /\ script' = script
           /\ DOMAIN objs' \subseteq DOMAIN objs
           /\ \A a \in DOMAIN objs' : objs'[a] = objs[a]
           /\ SectionsOf(objs') = SectionsOf(objs) \ {s}
           /\ Shape(hooks', objs', script', heap_base',
                    Less(WithoutAt(L, script, k), s + ENTRIES_HEAD))
<1> DEFINE v == section_deleted(Tree, s)
<1>1. /\ Tree.hooks = hooks /\ Tree.objs = objs
      /\ Tree = [hooks |-> Tree.hooks, objs |-> Tree.objs]
  BY DEF Tree
<1>2. SectionGone(v, Tree, s, script, heap_base, L, k)
  BY <1>1, SectionDeletedShape
<1>3. Becomes(v) /\ script' = script
  BY DEF script_section_delete
<1> HIDE DEF v
<1>4. /\ SectionsOf(v.objs) = SectionsOf(objs) \ {s}
      /\ Shape(v.hooks, v.objs, script, heap_base,
               Less(WithoutAt(L, script, k), s + ENTRIES_HEAD))
      /\ DOMAIN v.objs \subseteq DOMAIN objs
      /\ \A a \in DOMAIN v.objs : v.objs[a] = objs[a]
  <2>1. /\ v \in States(Tree)
        /\ SectionsOf(v.objs) = SectionsOf(Tree.objs) \ {s}
        /\ Shape(v.hooks, v.objs, script, heap_base,
                 Less(WithoutAt(L, script, k), s + ENTRIES_HEAD))
    BY <1>2, Zenon DEF SectionGone
  <2>2. /\ DOMAIN v.objs \subseteq DOMAIN Tree.objs
        /\ \A a \in DOMAIN v.objs : v.objs[a] = Tree.objs[a]
    BY <2>1, StatesParts, Zenon
  <2> QED
    BY <1>1, <2>1, <2>2, Zenon
<1> QED
  BY <1>3, <1>4, Zenon DEF Becomes

\* A search returns NULL or what it has been asked for.
LEMMA FindSectionStep ==
    ASSUME NEW L, Shape(hooks, objs, script, heap_base, L), script # NULL,
           NEW name
    PROVE  /\ script \in DOMAIN L
           /\ Found(L[script], SECTIONS_HOOK, name, 1, script_find_section(name))
<1>1. Hooks(hooks) /\ Rings(hooks, L) /\ Owned(objs, script, L)
  BY DEF Shape
<1>2. script \in DOMAIN L /\ script + SCRIPT_HEAD = script /\ SECTIONS_HOOK \in Nat
  BY <1>1 DEF Owned, SCRIPT_HEAD, SECTIONS_HOOK
<1> QED
  BY <1>1, <1>2, FindsFirst DEF script_find_section

LEMMA FindEntryStep ==
    ASSUME NEW L, Shape(hooks, objs, script, heap_base, L),
           NEW s \in SectionsOf(objs), NEW name
    PROVE  /\ s + ENTRIES_HEAD \in DOMAIN L
           /\ Found(L[s + ENTRIES_HEAD], ENTRIES_HOOK, name, 1,
                    script_find_entry(s, name))
<1>1. /\ Hooks(hooks) /\ Rings(hooks, L) /\ Owned(objs, script, L)
      /\ Allocated(objs, heap_base)
  BY DEF Shape
<1>2. s + ENTRIES_HEAD \in DOMAIN L /\ ENTRIES_HOOK \in Nat
  BY <1>1, OwnedHeads DEF ENTRIES_HOOK
<1> QED
  BY <1>1, <1>2, FindsFirst DEF script_find_entry

-----------------------------------------------------------------------------
(* The inductive invariant                                                 *)

LEMMA InvInit ==
    ASSUME TreeInit PROVE TreeInv
<1> DEFINE L == [h \in {} |-> <<>>]
<1>1. heap_base \in Nat \ {0} /\ hooks = <<>> /\ objs = <<>> /\ script = NULL
      /\ ret = NULL /\ NULL \in Nat
  BY TreeAssumption DEF TreeInit, NULL
<1>2. DOMAIN <<>> = {} /\ DOMAIN L = {}
  OBVIOUS
<1>3. IsFiniteSet(DOMAIN hooks) /\ IsFiniteSet(DOMAIN objs)
  BY <1>1, <1>2, FS_EmptySet
<1> HIDE DEF L
<1>4. DOMAIN hooks = {} /\ DOMAIN objs = {} /\ DOMAIN L = {}
  BY <1>1, <1>2
<1>5. Hooks(hooks)
  <2>1. hooks \in [DOMAIN hooks -> [prev : DOMAIN hooks, next : DOMAIN hooks]]
    BY <1>1
  <2> QED
    BY <1>3, <1>4, <2>1 DEF Hooks
<1>6. Allocated(objs, heap_base)
  <2>1. objs = [a \in DOMAIN objs |-> objs[a]]
    BY <1>1
  <2> QED
    BY <1>1, <1>3, <1>4, <2>1 DEF Allocated
<1>7. Rings(hooks, L)
  BY <1>4 DEF Rings
<1>8. Owned(objs, script, L)
  <2>1. SectionsOf(objs) = {} /\ EntriesOf(objs) = {}
    BY <1>4 DEF SectionsOf, EntriesOf
  <2> QED
    BY <1>1, <1>4, <2>1 DEF Owned
<1>9. Shape(hooks, objs, script, heap_base, L)
  BY <1>4, <1>5, <1>6, <1>7, <1>8 DEF Shape
<1> QED
  BY <1>1, <1>9 DEF TreeInv

\* What a search returns is NULL or the address of an object.
LEMMA FoundTyped ==
    ASSUME NEW L, Shape(hooks, objs, script, heap_base, L), NEW h \in DOMAIN L,
           NEW off \in Nat, NEW name, NEW v, Found(L[h], off, name, 1, v),
           \A i \in 1 .. Len(L[h]) : \E a \in DOMAIN objs : L[h][i] = a + off
    PROVE  v \in Nat
<1>1. ASSUME NEW j \in 1 .. Len(L[h]), v = L[h][j] - off PROVE v \in Nat
  <2>1. PICK a \in DOMAIN objs : L[h][j] = a + off
    BY <1>1
  <2>2. a \in Nat
    BY DEF Shape, Allocated
  <2> QED
    BY <1>1, <2>1, <2>2
<1>2. NULL \in Nat
  BY DEF NULL
<1> QED
  BY <1>1, <1>2, Zenon DEF Found

LEMMA InvNext ==
    ASSUME TreeInv, TreeNext PROVE TreeInv'
<1>1. PICK L : Shape(hooks, objs, script, heap_base, L)
  BY Zenon DEF TreeInv
<1>2. heap_base \in Nat /\ NULL \in Nat /\ Owned(objs, script, L)
      /\ SectionsOf(objs) = Sections /\ EntriesOf(objs) = Entries
  BY <1>1 DEF Shape, Allocated, NULL, SectionsOf, EntriesOf, Sections, Entries
<1>13. Owned(objs, script, L)
  BY <1>2
<1>3. ASSUME NEW M, Shape(hooks', objs', script', heap_base', M), ret' \in Nat
      PROVE  TreeInv'
  BY <1>3, Zenon DEF TreeInv
<1>4. CASE NewScript
  <2>1. script = NULL /\ script_new
    BY <1>4 DEF NewScript
  <2> QED
    BY <1>1, <1>2, <1>3, <2>1, NewScriptStep, Zenon
<1>5. CASE NewSection
  <2>1. script # NULL /\ \E n \in Names : script_section_new(n)
    BY <1>5 DEF NewSection
  <2> QED
    BY <1>1, <1>2, <1>3, <2>1, NewSectionStep, Zenon
<1>6. CASE NewEntry
  <2>1. PICK s \in Sections, n \in Names, c \in Contents :
           script_entry_new(s, n, c)
    BY <1>6 DEF NewEntry
  <2>2. /\ c.type \in {NULL_TYPE, SINGLE_WORD, STRING_TYPE, GPIO}
        /\ Len(c.value) \in Nat
    BY TreeAssumption
  <2> QED
    BY <1>1, <1>2, <1>3, <2>1, <2>2, NewEntryStep, Zenon
<1>7. CASE DeleteEntry
  <2>1. PICK e \in EntriesOf(objs) : script_entry_delete(e)
    BY <1>2, <1>7 DEF DeleteEntry
  <2>2. PICK s \in SectionsOf(objs) : \E k \in 1 .. Len(L[s + ENTRIES_HEAD]) :
           L[s + ENTRIES_HEAD][k] = e + ENTRIES_HOOK
    BY <1>13, Zenon DEF Owned
  <2> QED
    BY <1>1, <1>2, <1>3, <2>1, <2>2, DeleteEntryStep, Zenon
<1>8. CASE DeleteSection
  <2>1. PICK s \in SectionsOf(objs) : script_section_delete(s)
    BY <1>2, <1>8 DEF DeleteSection
  <2>2. \E k \in 1 .. Len(L[script]) : L[script][k] = s + SECTIONS_HOOK
    BY <1>13, Zenon DEF Owned
  <2> QED
    BY <1>1, <1>2, <1>3, <2>1, <2>2, DeleteSectionStep, Zenon
<1>9. CASE DeleteScript
  <2>1. script # NULL /\ script_delete /\ ret' = NULL
    BY <1>9 DEF DeleteScript, script_delete, Becomes
  <2>2. \E M : Shape(hooks', objs', script', heap_base', M)
    BY <1>1, <2>1, ScriptDeletedShape, Zenon
  <2> QED
    BY <1>2, <1>3, <2>1, <2>2, Zenon
<1>10. ASSUME NEW p \in Nat, Returns(p) PROVE TreeInv'
  BY <1>1, <1>3, <1>10, Zenon DEF Returns
<1>11. CASE FindSection
  <2>1. PICK n \in Names : Returns(script_find_section(n))
    BY <1>11 DEF FindSection
  <2>2. script # NULL
    BY <1>11 DEF FindSection
  <2>3. /\ script \in DOMAIN L
        /\ Found(L[script], SECTIONS_HOOK, n, 1, script_find_section(n))
    BY <1>1, <2>2, FindSectionStep, Zenon
  <2>4. SECTIONS_HOOK \in Nat
    BY DEF SECTIONS_HOOK
  <2>5. \A i \in 1 .. Len(L[script]) :
           \E a \in DOMAIN objs : L[script][i] = a + SECTIONS_HOOK
    BY <1>2, <2>2 DEF Owned, SectionsOf
  <2>6. script_find_section(n) \in Nat
    BY <1>1, <2>3, <2>4, <2>5, FoundTyped, Zenon
  <2> QED
    BY <1>10, <2>1, <2>6, Zenon
<1>12. CASE FindEntry
  <2>1. PICK s \in SectionsOf(objs), n \in Names :
           Returns(script_find_entry(s, n))
    BY <1>2, <1>12 DEF FindEntry
  <2> DEFINE h == s + ENTRIES_HEAD
  <2>3. /\ h \in DOMAIN L
        /\ Found(L[h], ENTRIES_HOOK, n, 1, script_find_entry(s, n))
    BY <1>1, FindEntryStep, Zenon
  <2>4. ENTRIES_HOOK \in Nat
    BY DEF ENTRIES_HOOK
  <2>5. \A i \in 1 .. Len(L[h]) :
           \E a \in DOMAIN objs : L[h][i] = a + ENTRIES_HOOK
    BY <1>2 DEF Owned, EntriesOf
  <2> HIDE DEF h
  <2>6. script_find_entry(s, n) \in Nat
    BY <1>1, <2>3, <2>4, <2>5, FoundTyped, Zenon
  <2> QED
    BY <1>10, <2>1, <2>6, Zenon
<1> QED
  BY <1>4, <1>5, <1>6, <1>7, <1>8, <1>9, <1>11, <1>12 DEF TreeNext

LEMMA InvStutter ==
    ASSUME TreeInv, UNCHANGED treeVars PROVE TreeInv'
BY DEF TreeInv, treeVars

LEMMA TreeInvariant == TreeSpec => []TreeInv
<1>1. TreeInit => TreeInv
  BY InvInit
<1>2. TreeInv /\ [TreeNext]_treeVars => TreeInv'
  BY InvNext, InvStutter
<1> QED
  BY <1>1, <1>2, PTL DEF TreeSpec

\* The lists of script.c stay circular and doubly linked, each section and
\* entry stays on exactly one, and nothing deleted is on any: for every
\* sequence of the calls that construct, delete and search (the hooks of
\* common.h, list_inject() and list_remove()).
THEOREM TreeListsConsistent == TreeSpec => []ListsConsistent
BY TreeInvariant, InvConsistent, PTL

\* All the addresses that the tree holds are addresses, and the objects that
\* the constructors of script.c write keep their types.
THEOREM TreeTyped == TreeSpec => []TreeTypeOK
BY TreeInvariant, InvTyped, PTL

-----------------------------------------------------------------------------
(* The abstract script: what the lists L and the objects o show            *)

EntryShown(o, l) == [handle |-> l - ENTRIES_HOOK,
                     name |-> o[l - ENTRIES_HOOK].name,
                     content |-> o[l - ENTRIES_HOOK].content]

EntriesShown(o, ls) == [j \in DOMAIN ls |-> EntryShown(o, ls[j])]

SectionShown(o, L, s) == [handle |-> s, name |-> o[s].name,
                          entries |-> EntriesShown(o, L[s + ENTRIES_HEAD])]

Shown(o, c, L) ==
    IF c = NULL THEN <<>>
    ELSE [i \in DOMAIN L[c] |-> SectionShown(o, L, L[c][i] - SECTIONS_HOOK)]

\* ScriptOf of any hooks hk, objects o and tree c.
Visible(hk, o, c) ==
    IF c = NULL THEN <<>>
    ELSE [i \in DOMAIN Forward(hk, c + SCRIPT_HEAD) |->
            [handle |-> Forward(hk, c + SCRIPT_HEAD)[i] - SECTIONS_HOOK,
             name |-> o[Forward(hk, c + SCRIPT_HEAD)[i] - SECTIONS_HOOK].name,
             entries |->
                EntriesShown(o, Forward(hk, Forward(hk, c + SCRIPT_HEAD)[i]
                                               - SECTIONS_HOOK + ENTRIES_HEAD))]]

LEMMA VisibleIs ==
    /\ ScriptOf = Visible(hooks, objs, script)
    /\ ScriptOf' = Visible(hooks', objs', script')
BY Zenon DEF ScriptOf, Visible, EntriesShown, EntryShown

\* Walking the lists shows what is on them.
LEMMA VisibleShown ==
    ASSUME NEW hk, NEW o, NEW c, NEW base, NEW L, Shape(hk, o, c, base, L)
    PROVE  Visible(hk, o, c) = Shown(o, c, L)
<1>1. Hooks(hk) /\ Rings(hk, L) /\ Allocated(o, base) /\ Owned(o, c, L)
  BY DEF Shape
<1>2. CASE c = NULL
  BY <1>2 DEF Visible, Shown
<1>3. CASE c # NULL
  <2>1. c \in DOMAIN L /\ c + SCRIPT_HEAD = c
    BY <1>1, <1>3 DEF Owned, SCRIPT_HEAD
  <2>2. Forward(hk, c + SCRIPT_HEAD) = L[c]
    BY <1>1, <2>1, ForwardFinds
  <2>3. ASSUME NEW i \in DOMAIN L[c]
        PROVE  Forward(hk, L[c][i] - SECTIONS_HOOK + ENTRIES_HEAD)
                 = L[L[c][i] - SECTIONS_HOOK + ENTRIES_HEAD]
    <3>1. i \in 1 .. Len(L[c])
      BY <1>1, <2>1 DEF Rings
    <3>2. PICK s \in SectionsOf(o) : L[c][i] = s + SECTIONS_HOOK
      BY <1>1, <1>3, <3>1 DEF Owned
    <3>3. L[c][i] - SECTIONS_HOOK = s
      BY <1>1, <3>2, OwnedHeads DEF SECTIONS_HOOK
    <3>4. s + ENTRIES_HEAD \in DOMAIN L
      BY <1>1, OwnedHeads
    <3>5. Forward(hk, s + ENTRIES_HEAD) = L[s + ENTRIES_HEAD]
      BY <1>1, <3>4, ForwardFinds
    <3> QED
      BY <3>3, <3>5
  <2> QED
    BY <1>3, <2>2, <2>3, Zenon DEF Visible, Shown, SectionShown
<1> QED
  BY <1>2, <1>3

\* What is shown: the i-th section is the one whose hook is on the list.
InOrder(o, c, L) ==
    /\ Len(L[c]) \in Nat
    /\ DOMAIN Shown(o, c, L) = 1 .. Len(L[c])
    /\ Shown(o, c, L) = [i \in 1 .. Len(L[c]) |-> Shown(o, c, L)[i]]
    /\ Len(Shown(o, c, L)) = Len(L[c])
    /\ \A i \in 1 .. Len(L[c]) : \E s \in SectionsOf(o) :
          /\ L[c][i] = s + SECTIONS_HOOK
          /\ Shown(o, c, L)[i] = SectionShown(o, L, s)

LEMMA ShownParts ==
    ASSUME NEW hk, NEW o, NEW c, NEW base, NEW L, Shape(hk, o, c, base, L),
           c # NULL
    PROVE  InOrder(o, c, L)
<1>1. Hooks(hk) /\ Rings(hk, L) /\ Allocated(o, base) /\ Owned(o, c, L)
  BY DEF Shape
<1>2. c \in DOMAIN L
  BY <1>1 DEF Owned
<1>3. PICK m \in Nat : Len(L[c]) = m /\ DOMAIN L[c] = 1 .. m
  BY <1>1, <1>2 DEF Rings
<1>4. Shown(o, c, L)
        = [i \in 1 .. m |-> SectionShown(o, L, L[c][i] - SECTIONS_HOOK)]
  BY <1>3, Zenon DEF Shown
<1>5. ASSUME NEW i \in 1 .. m
      PROVE  \E s \in SectionsOf(o) : /\ L[c][i] = s + SECTIONS_HOOK
                                      /\ Shown(o, c, L)[i] = SectionShown(o, L, s)
  <2>1. PICK s \in SectionsOf(o) : L[c][i] = s + SECTIONS_HOOK
    BY <1>1, <1>3 DEF Owned
  <2>2. L[c][i] - SECTIONS_HOOK = s
    BY <1>1, <2>1, OwnedHeads DEF SECTIONS_HOOK
  <2>3. Shown(o, c, L)[i] = SectionShown(o, L, L[c][i] - SECTIONS_HOOK)
    BY <1>4, Zenon
  <2> QED
    BY <2>1, <2>2, <2>3, Zenon
<1>6. Len(Shown(o, c, L)) = m
  BY <1>3, <1>4
<1>7. /\ DOMAIN Shown(o, c, L) = 1 .. m
      /\ Shown(o, c, L) = [i \in 1 .. m |-> Shown(o, c, L)[i]]
  BY <1>4
<1> QED
  BY <1>3, <1>5, <1>6, <1>7, Zenon DEF InOrder

\* f is a sequence of length n.
Items(f, n) == f = [i \in 1 .. n |-> f[i]]

LEMMA AppendFun ==
    ASSUME NEW n \in Nat, NEW f, Items(f, n), NEW e, NEW g,
           Items(g, n + 1), g[n + 1] = e,
           \A i \in 1 .. n : g[i] = f[i]
    PROVE  g = Append(f, e) /\ Len(f) = n
<1> DEFINE S == {f[i] : i \in 1 .. n} \cup {e}
<1>1. \A i \in 1 .. n : f[i] \in S
  OBVIOUS
<1>2. e \in S
  OBVIOUS
<1> HIDE DEF S
<1>3. f \in [1 .. n -> S]
  BY <1>1 DEF Items
<1>4. f \in Seq(S) /\ Len(f) = n
  BY <1>3
<1>5. ASSUME NEW i \in 1 .. n + 1 PROVE g[i] = Append(f, e)[i]
  <2>1. CASE i = n + 1
    BY <1>2, <1>4, <2>1
  <2>2. CASE i # n + 1
    <3>1. i \in 1 .. n
      BY <2>2
    <3> QED
      BY <1>2, <1>4, <3>1
  <2> QED
    BY <2>1, <2>2
<1>6. Append(f, e) \in Seq(S) /\ Len(Append(f, e)) = n + 1
  BY <1>2, <1>4
<1>7. Append(f, e) = [i \in 1 .. n + 1 |-> Append(f, e)[i]]
  <2> DEFINE a == Append(f, e)
  <2>1. a \in Seq(S) /\ Len(a) = n + 1
    BY <1>6
  <2> HIDE DEF a
  <2>2. a = [i \in 1 .. n + 1 |-> a[i]]
    BY <2>1
  <2> QED
    BY <2>2 DEF a
<1>8. g = Append(f, e)
  BY <1>5, <1>7, Zenon DEF Items
<1> QED
  BY <1>4, <1>8

\* A section is shown as before when its list and its objects are as before.
LEMMA SameSection ==
    ASSUME NEW hk, NEW o, NEW c, NEW base, NEW L, Shape(hk, o, c, base, L),
           NEW s \in SectionsOf(o), NEW q, q[s] = o[s], NEW M,
           M[s + ENTRIES_HEAD] = L[s + ENTRIES_HEAD],
           \A e \in EntriesOf(o) :
              (\E i \in 1 .. Len(L[s + ENTRIES_HEAD]) :
                  L[s + ENTRIES_HEAD][i] = e + ENTRIES_HOOK) => q[e] = o[e]
    PROVE  SectionShown(q, M, s) = SectionShown(o, L, s)
<1> DEFINE h == s + ENTRIES_HEAD
<1>1. Rings(hk, L) /\ Allocated(o, base) /\ Owned(o, c, L)
  BY DEF Shape
<1>2. h \in DOMAIN L
  BY <1>1, OwnedHeads
<1>3. DOMAIN L[h] = 1 .. Len(L[h])
  BY <1>1, <1>2 DEF Rings
<1>4. ASSUME NEW i \in DOMAIN L[h]
      PROVE  q[L[h][i] - ENTRIES_HOOK] = o[L[h][i] - ENTRIES_HOOK]
  <2>1. PICK e \in EntriesOf(o) : L[h][i] = e + ENTRIES_HOOK
    BY <1>1, <1>3 DEF Owned
  <2>2. L[h][i] - ENTRIES_HOOK = e
    BY <1>1, <2>1 DEF Allocated, EntriesOf, ENTRIES_HOOK
  <2>3. q[e] = o[e]
    BY <1>3, <2>1
  <2> QED
    BY <2>2, <2>3
<1>5. EntriesShown(q, L[h]) = EntriesShown(o, L[h])
  BY <1>4, Zenon DEF EntriesShown, EntryShown
<1> QED
  BY <1>5, Zenon DEF SectionShown, h

\* script_section_new() shows an empty section at the end.
LEMMA NewSectionShown ==
    ASSUME NEW hk, NEW o, NEW c, NEW base, NEW L, Shape(hk, o, c, base, L),
           c # NULL, NEW x, x.kind = "section",
           NEW M, M = WithLast(WithEmpty(L, base + ENTRIES_HEAD), c,
                               base + SECTIONS_HOOK),
           NEW nk, NEW nb, Shape(nk, Put(o, base, x), c, nb, M)
    PROVE  Shown(Put(o, base, x), c, M)
             = Append(Shown(o, c, L),
                      [handle |-> base, name |-> x.name, entries |-> <<>>])
<1> DEFINE q == Put(o, base, x)
           l == base + ENTRIES_HEAD
           new == [handle |-> base, name |-> x.name, entries |-> <<>>]
<1>1. /\ Hooks(hk) /\ Rings(hk, L) /\ Allocated(o, base) /\ Owned(o, c, L)
      /\ \A y \in DOMAIN hk : y < base
  BY DEF Shape
<1>2. c \in DOMAIN L /\ c \in Nat /\ c < base /\ base \in Nat
  BY <1>1 DEF Owned, Allocated
<1>3. \A h \in DOMAIN L : h # l
  <2>1. \A h \in DOMAIN L : h \in DOMAIN hk /\ h \in Nat
    BY <1>1 DEF Rings, Hooks
  <2> QED
    BY <1>1, <1>2, <2>1 DEF ENTRIES_HEAD
<1>4. /\ M[c] = Append(L[c], base + SECTIONS_HOOK)
      /\ \A h \in DOMAIN L : h # c => M[h] = L[h]
      /\ M[l] = <<>>
  BY <1>2, <1>3 DEF WithLast, WithEmpty, l
<1>5. PICK n \in Nat : /\ Len(L[c]) = n /\ Len(M[c]) = n + 1
                       /\ M[c][n + 1] = base + SECTIONS_HOOK
                       /\ \A i \in 1 .. n : M[c][i] = L[c][i]
  BY <1>1, <1>2, <1>4, AppendSeq DEF Rings
<1>6. /\ Shown(o, c, L) = [i \in 1 .. n |-> Shown(o, c, L)[i]]
      /\ \A i \in 1 .. n : \E s \in SectionsOf(o) :
            /\ L[c][i] = s + SECTIONS_HOOK
            /\ Shown(o, c, L)[i] = SectionShown(o, L, s)
  <2>1. InOrder(o, c, L)
    BY ShownParts, Zenon
  <2> QED
    BY <1>5, <2>1 DEF InOrder
<1>7. /\ Shown(q, c, M) = [i \in 1 .. n + 1 |-> Shown(q, c, M)[i]]
      /\ \A i \in 1 .. n + 1 : \E s \in SectionsOf(q) :
            /\ M[c][i] = s + SECTIONS_HOOK
            /\ Shown(q, c, M)[i] = SectionShown(q, M, s)
  <2> HIDE DEF q
  <2>1. Shape(nk, q, c, nb, M)
    BY DEF q
  <2>2. InOrder(q, c, M)
    BY <2>1, ShownParts, Zenon
  <2> QED
    BY <1>5, <2>2 DEF InOrder
<1>8. /\ q[base] = x
      /\ \A a \in DOMAIN o : o[a].kind # "bytes" => a # base /\ q[a] = o[a]
  <2>1. q[base] = x
    BY DEF Put
  <2>2. \A a \in DOMAIN o : o[a].kind # "bytes" => a # base /\ q[a] = o[a]
    BY <1>1 DEF Put, Allocated
  <2> QED
    BY <2>1, <2>2
<1>9. \A s \in SectionsOf(q) : s \in Nat
  <2> HIDE DEF q
  <2>1. Allocated(q, nb)
    BY DEF Shape, q
  <2> QED
    BY <2>1 DEF Allocated, SectionsOf
<1>10. \A s \in SectionsOf(o) : s \in Nat /\ s # base /\ q[s] = o[s]
  BY <1>1, <1>8 DEF SectionsOf, Allocated
<1>11. \A e \in EntriesOf(o) : q[e] = o[e]
  BY <1>8 DEF EntriesOf
<1> HIDE DEF q
<1>12. Shown(q, c, M)[n + 1] = new
  <2>1. PICK s \in SectionsOf(q) : /\ M[c][n + 1] = s + SECTIONS_HOOK
                                   /\ Shown(q, c, M)[n + 1] = SectionShown(q, M, s)
    BY <1>7
  <2>2. s = base
    BY <1>2, <1>5, <1>9, <2>1 DEF SECTIONS_HOOK
  <2>3. EntriesShown(q, <<>>) = <<>>
    BY DEF EntriesShown
  <2> QED
    BY <1>4, <1>8, <2>1, <2>2, <2>3, Zenon DEF SectionShown, l, new
<1>13. ASSUME NEW i \in 1 .. n PROVE Shown(q, c, M)[i] = Shown(o, c, L)[i]
  <2>1. PICK s \in SectionsOf(o) : /\ L[c][i] = s + SECTIONS_HOOK
                                   /\ Shown(o, c, L)[i] = SectionShown(o, L, s)
    BY <1>6
  <2>2. PICK r \in SectionsOf(q) : /\ M[c][i] = r + SECTIONS_HOOK
                                   /\ Shown(q, c, M)[i] = SectionShown(q, M, r)
    BY <1>7
  <2>3. r = s
    BY <1>5, <1>9, <1>10, <2>1, <2>2 DEF SECTIONS_HOOK
  <2>4. M[s + ENTRIES_HEAD] = L[s + ENTRIES_HEAD]
    BY <1>1, <1>4, OwnedHeads
  <2>5. SectionShown(q, M, s) = SectionShown(o, L, s)
    BY <1>10, <1>11, <2>4, SameSection
  <2> QED
    BY <2>1, <2>2, <2>3, <2>5
<1> HIDE DEF new
<1>14. Shown(q, c, M) = Append(Shown(o, c, L), new)
  <2>1. n \in Nat /\ Items(Shown(o, c, L), n) /\ Items(Shown(q, c, M), n + 1)
    BY <1>5, <1>6, <1>7 DEF Items
  <2> QED
    BY <1>12, <1>13, <2>1, AppendFun
<1> QED
  BY <1>14 DEF q, new

\* Only the entries of the i-th section s change, to X.
OnlyEntries(o, q, c, L, M, i, s, X) ==
    /\ Shown(q, c, M) = [Shown(o, c, L) EXCEPT ![i].entries = X]
    /\ Shown(o, c, L)[i].entries = EntriesShown(o, L[s + ENTRIES_HEAD])
    /\ i \in DOMAIN Shown(o, c, L)
    /\ Shown(o, c, L)[i].handle = s

LEMMA OneSection ==
    ASSUME NEW o, NEW q, NEW c, NEW L, NEW M, InOrder(o, c, L), InOrder(q, c, M),
           M[c] = L[c], SectionsOf(q) = SectionsOf(o), SectionsOf(o) \subseteq Nat,
           NEW i \in 1 .. Len(L[c]), NEW s \in SectionsOf(o),
           L[c][i] = s + SECTIONS_HOOK,
           \A j \in 1 .. Len(L[c]) : L[c][j] = L[c][i] => j = i,
           q[s].name = o[s].name,
           \A r \in SectionsOf(o) : r # s =>
              SectionShown(q, M, r) = SectionShown(o, L, r),
           NEW X, EntriesShown(q, M[s + ENTRIES_HEAD]) = X
    PROVE  OnlyEntries(o, q, c, L, M, i, s, X)
<1> DEFINE V == Shown(o, c, L)
           W == Shown(q, c, M)
<1>1. PICK n \in Nat : Len(L[c]) = n
  BY DEF InOrder
<1>2. /\ V = [j \in 1 .. n |-> V[j]]
      /\ \A j \in 1 .. n : \E r \in SectionsOf(o) :
            L[c][j] = r + SECTIONS_HOOK /\ V[j] = SectionShown(o, L, r)
  BY <1>1 DEF InOrder
<1>3. /\ W = [j \in 1 .. n |-> W[j]]
      /\ \A j \in 1 .. n : \E r \in SectionsOf(o) :
            L[c][j] = r + SECTIONS_HOOK /\ W[j] = SectionShown(q, M, r)
  BY <1>1 DEF InOrder
<1> HIDE DEF V, W
<1>4. \A r, t \in SectionsOf(o) : r + SECTIONS_HOOK = t + SECTIONS_HOOK => r = t
  BY DEF SECTIONS_HOOK
<1>5. V[i] = SectionShown(o, L, s)
  <2>1. PICK r \in SectionsOf(o) :
           L[c][i] = r + SECTIONS_HOOK /\ V[i] = SectionShown(o, L, r)
    BY <1>1, <1>2
  <2> QED
    BY <1>4, <2>1
<1>6. W[i] = SectionShown(q, M, s)
  <2>1. PICK r \in SectionsOf(o) :
           L[c][i] = r + SECTIONS_HOOK /\ W[i] = SectionShown(q, M, r)
    BY <1>1, <1>3
  <2> QED
    BY <1>4, <2>1
<1>7. W[i] = [V[i] EXCEPT !.entries = X]
  <2>1. /\ V[i] = [handle |-> s, name |-> o[s].name,
                   entries |-> EntriesShown(o, L[s + ENTRIES_HEAD])]
        /\ W[i] = [handle |-> s, name |-> o[s].name, entries |-> X]
    BY <1>5, <1>6, Zenon DEF SectionShown
  <2> QED
    BY <2>1
<1>8. ASSUME NEW j \in 1 .. n, j # i PROVE W[j] = V[j]
  <2>1. PICK r \in SectionsOf(o) :
           L[c][j] = r + SECTIONS_HOOK /\ V[j] = SectionShown(o, L, r)
    BY <1>2
  <2>2. PICK t \in SectionsOf(o) :
           L[c][j] = t + SECTIONS_HOOK /\ W[j] = SectionShown(q, M, t)
    BY <1>3
  <2>3. t = r
    BY <1>4, <2>1, <2>2
  <2>4. r # s
    BY <1>1, <1>8, <2>1
  <2> QED
    BY <2>1, <2>2, <2>3, <2>4
<1>9. W = [V EXCEPT ![i].entries = X]
  <2> DEFINE Z == [V EXCEPT ![i] = [V[i] EXCEPT !.entries = X]]
  <2>1. Z = [V EXCEPT ![i].entries = X]
    BY Zenon
  <2>2. DOMAIN V = 1 .. n
    BY <1>2, Zenon
  <2>3. Z = [j \in 1 .. n |-> Z[j]]
    BY <2>2
  <2>4. ASSUME NEW j \in 1 .. n PROVE Z[j] = W[j]
    BY <1>1, <1>7, <1>8, <2>2
  <2> HIDE DEF Z
  <2>5. Z = W
    BY <1>3, <2>3, <2>4, Zenon
  <2> QED
    BY <2>1, <2>5
<1>10. V[i].entries = EntriesShown(o, L[s + ENTRIES_HEAD]) /\ V[i].handle = s
  BY <1>5 DEF SectionShown
<1>11. i \in DOMAIN V
  BY <1>1, <1>2
<1> QED
  BY <1>9, <1>10, <1>11 DEF V, W, OnlyEntries

\* The script_*_entry_new() functions show an entry at the end of a section.
LEMMA NewEntryShown ==
    ASSUME NEW hk, NEW o, NEW c, NEW base, NEW L, Shape(hk, o, c, base, L),
           NEW s \in SectionsOf(o), NEW i \in 1 .. Len(L[c]),
           L[c][i] = s + SECTIONS_HOOK, NEW x, x.kind = "entry",
           NEW M, M = WithLast(L, s + ENTRIES_HEAD, base + ENTRIES_HOOK),
           NEW nk, NEW nb, Shape(nk, Put(o, base, x), c, nb, M)
    PROVE  OnlyEntries(o, Put(o, base, x), c, L, M, i, s,
                       Append(EntriesShown(o, L[s + ENTRIES_HEAD]),
                              [handle |-> base, name |-> x.name,
                               content |-> x.content]))
<1> DEFINE q == Put(o, base, x)
           h == s + ENTRIES_HEAD
           new == [handle |-> base, name |-> x.name, content |-> x.content]
           X == Append(EntriesShown(o, L[h]), new)
<1>1. /\ Rings(hk, L) /\ Allocated(o, base) /\ Owned(o, c, L)
  BY DEF Shape
<1>2. /\ c # NULL /\ c \in DOMAIN L /\ h \in DOMAIN L /\ h # c /\ base \in Nat
      /\ \A r \in SectionsOf(o) : r + ENTRIES_HEAD = h => r = s
  BY <1>1, OwnedHeads DEF Allocated
<1>3. /\ M[c] = L[c] /\ M[h] = Append(L[h], base + ENTRIES_HOOK)
      /\ \A g \in DOMAIN L : g # h => M[g] = L[g]
  BY <1>2 DEF WithLast
<1>4. InOrder(o, c, L) /\ InOrder(q, c, M)
  BY <1>2, ShownParts, Zenon
<1>5. SectionsOf(q) = SectionsOf(o)
  <2>1. SectionsOf(q) = SectionsOf(o) \cup {a \in {base} : x.kind = "section"}
    BY <1>1, PutKinds, Zenon
  <2>2. {a \in {base} : x.kind = "section"} = {}
    OBVIOUS
  <2> QED
    BY <2>1, <2>2
<1>6. q[base] = x
  BY DEF Put
<1>7. \A a \in DOMAIN o : o[a].kind # "bytes" => a # base /\ q[a] = o[a]
  BY <1>1 DEF Put, Allocated
<1> HIDE DEF q
<1>8. /\ \A r \in SectionsOf(o) : r \in Nat /\ q[r] = o[r]
      /\ \A e \in EntriesOf(o) : e \in Nat /\ e # base /\ q[e] = o[e]
  BY <1>1, <1>7 DEF SectionsOf, EntriesOf, Allocated
<1>9. ASSUME NEW r \in SectionsOf(o), r # s
      PROVE  SectionShown(q, M, r) = SectionShown(o, L, r)
  <2>1. M[r + ENTRIES_HEAD] = L[r + ENTRIES_HEAD]
    BY <1>1, <1>2, <1>3, <1>9, OwnedHeads
  <2> QED
    BY <1>8, <2>1, SameSection
<1>10. PICK n \in Nat : /\ Len(L[h]) = n /\ DOMAIN L[h] = 1 .. n
                        /\ DOMAIN M[h] = 1 .. n + 1
                        /\ M[h][n + 1] = base + ENTRIES_HOOK
                        /\ \A j \in 1 .. n : M[h][j] = L[h][j]
  <2>1. L[h] \in Seq(DOMAIN hk)
    BY <1>1, <1>2 DEF Rings
  <2>2. PICK n \in Nat : Len(L[h]) = n
    BY <2>1
  <2>3. /\ Len(M[h]) = n + 1 /\ M[h] \in Seq(DOMAIN hk \cup {base + ENTRIES_HOOK})
        /\ M[h][n + 1] = base + ENTRIES_HOOK
        /\ \A j \in 1 .. n : M[h][j] = L[h][j]
    <3> DEFINE e == base + ENTRIES_HOOK
    <3> HIDE DEF e, h
    <3>1. M[h] = Append(L[h], e)
      BY <1>3 DEF e
    <3>2. /\ Len(Append(L[h], e)) = n + 1
          /\ \A j \in 1 .. n : Append(L[h], e)[j] = L[h][j]
          /\ Append(L[h], e)[n + 1] = e
          /\ Append(L[h], e) \in Seq(DOMAIN hk \cup {e})
      BY <2>1, <2>2, AppendSeq
    <3> QED
      BY <3>1, <3>2, Zenon DEF e
  <2> QED
    BY <2>1, <2>2, <2>3
<1>11. EntriesShown(q, M[h]) = X
  <2> DEFINE f == EntriesShown(o, L[h])
             g == EntriesShown(q, M[h])
  <2>1. f = [j \in 1 .. n |-> EntryShown(o, L[h][j])]
        /\ g = [j \in 1 .. n + 1 |-> EntryShown(q, M[h][j])]
    BY <1>10, Zenon DEF EntriesShown
  <2> HIDE DEF f, g
  <2>2. f = [j \in 1 .. n |-> f[j]] /\ g = [j \in 1 .. n + 1 |-> g[j]]
    BY <2>1
  <2>3. g[n + 1] = new
    <3>1. g[n + 1] = EntryShown(q, base + ENTRIES_HOOK)
      BY <1>10, <2>1
    <3>2. (base + ENTRIES_HOOK) - ENTRIES_HOOK = base
      BY <1>2 DEF ENTRIES_HOOK
    <3>3. EntryShown(q, base + ENTRIES_HOOK)
            = [handle |-> base, name |-> q[base].name, content |-> q[base].content]
      <4> DEFINE b == base + ENTRIES_HOOK
      <4>1. b - ENTRIES_HOOK = base
        BY <3>2
      <4> HIDE DEF b
      <4>2. EntryShown(q, b) = [handle |-> base, name |-> q[base].name,
                                content |-> q[base].content]
        BY <4>1, Zenon DEF EntryShown
      <4> QED
        BY <4>2 DEF b
    <3> QED
      BY <1>6, <3>1, <3>3, Zenon
  <2>4. ASSUME NEW j \in 1 .. n PROVE g[j] = f[j]
    <3>1. PICK e \in EntriesOf(o) : L[h][j] = e + ENTRIES_HOOK
      BY <1>1, <1>10 DEF Owned
    <3>2. L[h][j] - ENTRIES_HOOK = e
      BY <1>8, <3>1 DEF ENTRIES_HOOK
    <3>3. EntryShown(q, L[h][j]) = EntryShown(o, L[h][j])
      BY <1>8, <3>2, Zenon DEF EntryShown
    <3>4. g[j] = EntryShown(q, M[h][j]) /\ f[j] = EntryShown(o, L[h][j])
      BY <2>1
    <3> QED
      BY <1>10, <3>3, <3>4
  <2> HIDE DEF new
  <2>5. g = Append(f, new)
    <3>1. n \in Nat /\ Items(f, n) /\ Items(g, n + 1)
      BY <1>10, <2>2 DEF Items
    <3> QED
      BY <2>3, <2>4, <3>1, AppendFun
  <2> QED
    BY <2>5 DEF f, g
<1> HIDE DEF X
<1>12. \A j \in 1 .. Len(L[c]) : L[c][j] = L[c][i] => j = i
  BY <1>1, <1>2, OnlyOnce
<1>13. SectionsOf(o) \subseteq Nat /\ q[s].name = o[s].name
  BY <1>8
<1>14. OnlyEntries(o, q, c, L, M, i, s, X)
  BY <1>3, <1>4, <1>5, <1>9, <1>11, <1>12, <1>13, OneSection
<1> QED
  BY <1>14 DEF q, X, h, new

LEMMA WithoutFun ==
    ASSUME NEW n \in Nat, NEW f, Items(f, n), NEW k \in 1 .. n, NEW g,
           Items(g, n - 1),
           \A i \in 1 .. n - 1 : g[i] = IF i < k THEN f[i] ELSE f[i + 1]
    PROVE  g = Abstract!Without(f, k)
<1>1. Len(f) = n
  <2>1. f = [i \in 1 .. n |-> f[i]]
    BY Zenon DEF Items
  <2>2. f \in [1 .. n -> {f[i] : i \in 1 .. n}]
    BY <2>1
  <2> QED
    BY <2>2
<1>2. g = [i \in 1 .. n - 1 |-> g[i]]
  BY Zenon DEF Items
<1>3. g = [i \in 1 .. n - 1 |-> IF i < k THEN f[i] ELSE f[i + 1]]
  BY <1>2, Zenon
<1> QED
  BY <1>1, <1>3, Zenon DEF Abstract!Without

\* script_entry_delete() takes the entry out of what its section shows.
LEMMA DeleteEntryShown ==
    ASSUME NEW hk, NEW o, NEW c, NEW base, NEW L, Shape(hk, o, c, base, L),
           NEW s \in SectionsOf(o), NEW i \in 1 .. Len(L[c]),
           L[c][i] = s + SECTIONS_HOOK,
           NEW e \in EntriesOf(o), NEW k \in 1 .. Len(L[s + ENTRIES_HEAD]),
           L[s + ENTRIES_HEAD][k] = e + ENTRIES_HOOK,
           NEW M, M = WithoutAt(L, s + ENTRIES_HEAD, k),
           NEW nk, NEW nb, Shape(nk, Less(o, e), c, nb, M)
    PROVE  /\ OnlyEntries(o, Less(o, e), c, L, M, i, s,
                          Abstract!Without(EntriesShown(o, L[s + ENTRIES_HEAD]), k))
           /\ k \in DOMAIN EntriesShown(o, L[s + ENTRIES_HEAD])
<1> DEFINE q == Less(o, e)
           h == s + ENTRIES_HEAD
           f == EntriesShown(o, L[h])
           g == EntriesShown(q, M[h])
           X == Abstract!Without(f, k)
<1>1. /\ Rings(hk, L) /\ Allocated(o, base) /\ Owned(o, c, L)
  BY DEF Shape
<1>2. /\ c # NULL /\ c \in DOMAIN L /\ h \in DOMAIN L /\ h # c
      /\ \A r \in SectionsOf(o) : r + ENTRIES_HEAD = h => r = s
  BY <1>1, OwnedHeads
<1>3. /\ M[c] = L[c] /\ M[h] = Cut(L[h], k)
      /\ \A d \in DOMAIN L : d # h => M[d] = L[d]
  BY <1>2 DEF WithoutAt
<1>4. InOrder(o, c, L) /\ InOrder(q, c, M)
  BY <1>2, ShownParts, Zenon
<1>5. e \notin SectionsOf(o) /\ \A a \in DOMAIN o \ {e} : q[a] = o[a]
  BY DEF EntriesOf, SectionsOf, Less
<1>6. SectionsOf(q) = SectionsOf(o)
  <2>1. SectionsOf(q) = SectionsOf(o) \ {e}
    BY <1>1, LessKinds, Zenon
  <2> QED
    BY <1>5, <2>1
<1> HIDE DEF q
<1>7. /\ \A r \in SectionsOf(o) : r \in Nat /\ q[r] = o[r]
      /\ \A d \in EntriesOf(o) : d \in Nat /\ (d # e => q[d] = o[d])
  BY <1>1, <1>5 DEF SectionsOf, EntriesOf, Allocated
<1>8. ASSUME NEW r \in SectionsOf(o), r # s
      PROVE  SectionShown(q, M, r) = SectionShown(o, L, r)
  <2> DEFINE l == r + ENTRIES_HEAD
  <2>1. l \in DOMAIN L /\ l # h
    BY <1>1, <1>2, <1>8, OwnedHeads
  <2>2. M[l] = L[l]
    BY <1>3, <2>1
  <2>3. ASSUME NEW d \in EntriesOf(o), NEW j \in 1 .. Len(L[l]),
               L[l][j] = d + ENTRIES_HOOK
        PROVE  q[d] = o[d]
    <3>1. d # e
      <4> SUFFICES ASSUME d = e PROVE FALSE
        OBVIOUS
      <4>1. L[l][j] = L[h][k]
        BY <2>3
      <4> QED
        BY <1>1, <1>2, <2>1, <4>1, OnlyOnce
    <3> QED
      BY <1>7, <3>1
  <2> QED
    BY <1>7, <2>2, <2>3, SameSection
<1>9. PICK n \in Nat : /\ Len(L[h]) = n /\ DOMAIN L[h] = 1 .. n
                       /\ L[h] \in Seq(DOMAIN hk)
  BY <1>1, <1>2 DEF Rings
<1>10. /\ Len(M[h]) = n - 1 /\ DOMAIN M[h] = 1 .. n - 1
       /\ \A j \in 1 .. n - 1 :
             M[h][j] = IF j < k THEN L[h][j] ELSE L[h][j + 1]
  <2>1. /\ Cut(L[h], k) \in Seq(DOMAIN hk) /\ Len(Cut(L[h], k)) = n - 1
        /\ \A j \in 1 .. n - 1 :
              Cut(L[h], k)[j] = IF j < k THEN L[h][j] ELSE L[h][j + 1]
    BY <1>9, CutSeq
  <2> HIDE DEF h
  <2> QED
    BY <1>3, <2>1
<1>11. f = [j \in 1 .. n |-> EntryShown(o, L[h][j])]
       /\ g = [j \in 1 .. n - 1 |-> EntryShown(q, M[h][j])]
  BY <1>9, <1>10, Zenon DEF EntriesShown
<1> HIDE DEF f, g
<1>12. Items(f, n) /\ Items(g, n - 1) /\ n \in Nat /\ k \in 1 .. n
       /\ DOMAIN f = 1 .. n
  BY <1>9, <1>11 DEF Items
<1>13. ASSUME NEW j \in 1 .. n, j # k
       PROVE  EntryShown(q, L[h][j]) = EntryShown(o, L[h][j])
  <2>1. PICK d \in EntriesOf(o) : L[h][j] = d + ENTRIES_HOOK
    BY <1>1, <1>9 DEF Owned
  <2>2. L[h][j] - ENTRIES_HOOK = d
    BY <1>7, <2>1 DEF ENTRIES_HOOK
  <2>3. d # e
    <3> SUFFICES ASSUME d = e PROVE FALSE
      OBVIOUS
    <3>1. L[h][j] = L[h][k] /\ j \in 1 .. Len(L[h])
      BY <1>9, <2>1
    <3> QED
      BY <1>1, <1>2, <1>13, <3>1, OnlyOnce
  <2>4. q[d] = o[d]
    BY <1>7, <2>3
  <2> QED
    BY <2>2, <2>4, Zenon DEF EntryShown
<1>14. ASSUME NEW j \in 1 .. n - 1
       PROVE  g[j] = IF j < k THEN f[j] ELSE f[j + 1]
  <2>1. g[j] = EntryShown(q, M[h][j])
    BY <1>11, Zenon
  <2>2. CASE j < k
    <3>1. j \in 1 .. n /\ j # k /\ M[h][j] = L[h][j]
      BY <1>10, <1>12, <2>2
    <3>2. f[j] = EntryShown(o, L[h][j])
      BY <1>11, <3>1, Zenon
    <3> QED
      BY <1>13, <2>1, <2>2, <3>1, <3>2, Zenon
  <2>3. CASE ~(j < k)
    <3>1. j + 1 \in 1 .. n /\ j + 1 # k /\ M[h][j] = L[h][j + 1]
      BY <1>10, <1>12, <2>3
    <3>2. f[j + 1] = EntryShown(o, L[h][j + 1])
      BY <1>11, <3>1, Zenon
    <3> QED
      BY <1>13, <2>1, <2>3, <3>1, <3>2, Zenon
  <2> QED
    BY <2>2, <2>3
<1>15. g = X
  BY <1>12, <1>14, WithoutFun
<1> HIDE DEF X
<1>16. \A j \in 1 .. Len(L[c]) : L[c][j] = L[c][i] => j = i
  BY <1>1, <1>2, OnlyOnce
<1>17. SectionsOf(o) \subseteq Nat /\ q[s].name = o[s].name
  BY <1>7
<1>18. EntriesShown(q, M[s + ENTRIES_HEAD]) = X
  BY <1>15 DEF g
<1>19. OnlyEntries(o, q, c, L, M, i, s, X)
  BY <1>3, <1>4, <1>6, <1>8, <1>16, <1>17, <1>18, OneSection
<1> QED
  BY <1>12, <1>19 DEF q, X, f, h

\* script_section_delete() takes the section out of what the tree shows.
LEMMA DeleteSectionShown ==
    ASSUME NEW hk, NEW o, NEW c, NEW base, NEW L, Shape(hk, o, c, base, L),
           NEW s \in SectionsOf(o), NEW k \in 1 .. Len(L[c]),
           L[c][k] = s + SECTIONS_HOOK,
           NEW q, SectionsOf(q) = SectionsOf(o) \ {s},
           \A a \in DOMAIN q : a \in DOMAIN o /\ q[a] = o[a],
           NEW M, M = Less(WithoutAt(L, c, k), s + ENTRIES_HEAD),
           NEW nk, NEW nb, Shape(nk, q, c, nb, M)
    PROVE  /\ Shown(q, c, M) = Abstract!Without(Shown(o, c, L), k)
           /\ k \in DOMAIN Shown(o, c, L)
<1> DEFINE V == Shown(o, c, L)
           W == Shown(q, c, M)
<1>1. /\ Rings(hk, L) /\ Allocated(o, base) /\ Owned(o, c, L)
      /\ Allocated(q, nb) /\ Owned(q, c, M)
  BY DEF Shape
<1>2. /\ c # NULL /\ c \in DOMAIN L /\ s + ENTRIES_HEAD # c
      /\ \A r \in SectionsOf(o) :
            r # s => r + ENTRIES_HEAD # s + ENTRIES_HEAD
  BY <1>1, OwnedHeads
<1>3. M[c] = Cut(L[c], k)
  BY <1>2 DEF Less, WithoutAt
<1>4. ASSUME NEW r \in SectionsOf(o), r # s
      PROVE  SectionShown(q, M, r) = SectionShown(o, L, r)
  <2> DEFINE l == r + ENTRIES_HEAD
  <2>1. l \in DOMAIN L /\ l # c /\ l # s + ENTRIES_HEAD
    BY <1>1, <1>2, <1>4, OwnedHeads
  <2>2. M[l] = L[l]
    BY <2>1 DEF Less, WithoutAt
  <2>3. r \in SectionsOf(q)
    BY <1>4
  <2>4. q[r] = o[r]
    BY <2>3 DEF SectionsOf
  <2>5. ASSUME NEW d \in EntriesOf(o), NEW j \in 1 .. Len(L[l]),
               L[l][j] = d + ENTRIES_HOOK
        PROVE  q[d] = o[d]
    <3>1. PICK e \in EntriesOf(q) : M[l][j] = e + ENTRIES_HOOK
      <4>1. \A i \in 1 .. Len(M[r + ENTRIES_HEAD]) :
               \E e \in EntriesOf(q) : M[r + ENTRIES_HEAD][i] = e + ENTRIES_HOOK
        BY <1>1, <2>3, Zenon DEF Owned
      <4> QED
        BY <2>2, <4>1
    <3>2. e = d
      BY <1>1, <2>2, <2>5, <3>1 DEF Allocated, EntriesOf, ENTRIES_HOOK
    <3> QED
      BY <3>2 DEF EntriesOf
  <2> QED
    BY <2>2, <2>4, <2>5, SameSection
<1>5. InOrder(o, c, L) /\ InOrder(q, c, M)
  BY <1>2, ShownParts, Zenon
<1> HIDE DEF V, W
<1>6. PICK n \in Nat : Len(L[c]) = n /\ L[c] \in Seq(DOMAIN hk)
  BY <1>1, <1>2 DEF Rings
<1>7. /\ Len(M[c]) = n - 1
      /\ \A j \in 1 .. n - 1 :
             M[c][j] = IF j < k THEN L[c][j] ELSE L[c][j + 1]
  <2>1. /\ Len(Cut(L[c], k)) = n - 1
        /\ \A j \in 1 .. n - 1 :
               Cut(L[c], k)[j] = IF j < k THEN L[c][j] ELSE L[c][j + 1]
    BY <1>6, CutSeq
  <2> QED
    BY <1>3, <2>1
<1>8. /\ V = [i \in 1 .. n |-> V[i]] /\ DOMAIN V = 1 .. n
      /\ \A i \in 1 .. n : \E r \in SectionsOf(o) :
            L[c][i] = r + SECTIONS_HOOK /\ V[i] = SectionShown(o, L, r)
  BY <1>5, <1>6 DEF InOrder, V
<1>9. /\ W = [i \in 1 .. n - 1 |-> W[i]]
      /\ \A i \in 1 .. n - 1 : \E r \in SectionsOf(q) :
            M[c][i] = r + SECTIONS_HOOK /\ W[i] = SectionShown(q, M, r)
  BY <1>5, <1>7 DEF InOrder, W
<1>10. \A r, t \in SectionsOf(o) : r + SECTIONS_HOOK = t + SECTIONS_HOOK => r = t
  BY <1>1 DEF Allocated, SectionsOf, SECTIONS_HOOK
<1>11. ASSUME NEW i \in 1 .. n - 1, NEW j \in 1 .. n, M[c][i] = L[c][j]
       PROVE  W[i] = V[j]
  <2>1. PICK r \in SectionsOf(q) :
           M[c][i] = r + SECTIONS_HOOK /\ W[i] = SectionShown(q, M, r)
    BY <1>9
  <2>2. PICK t \in SectionsOf(o) :
           L[c][j] = t + SECTIONS_HOOK /\ V[j] = SectionShown(o, L, t)
    BY <1>8
  <2>3. r = t
    BY <1>10, <1>11, <2>1, <2>2
  <2> QED
    BY <1>4, <2>1, <2>2, <2>3
<1>12. ASSUME NEW i \in 1 .. n - 1
       PROVE  W[i] = IF i < k THEN V[i] ELSE V[i + 1]
  <2>1. i \in 1 .. n /\ i + 1 \in 1 .. n
    BY <1>6
  <2> QED
    BY <1>7, <1>11, <2>1
<1>13. Items(V, n) /\ Items(W, n - 1) /\ n \in Nat /\ k \in 1 .. n
  BY <1>6, <1>8, <1>9 DEF Items
<1>14. W = Abstract!Without(V, k)
  BY <1>12, <1>13, WithoutFun
<1> QED
  BY <1>8, <1>13, <1>14 DEF V, W

-----------------------------------------------------------------------------
(* The steps of the tree are steps of the abstract script                  *)

\* What a client sees, before and after a step.
LEMMA SeenBefore ==
    ASSUME NEW L, Shape(hooks, objs, script, heap_base, L)
    PROVE  ScriptOf = Shown(objs, script, L)
BY VisibleIs, VisibleShown

LEMMA SeenAfter ==
    ASSUME NEW M, Shape(hooks', objs', script', heap_base', M)
    PROVE  ScriptOf' = Shown(objs', script', M)
<1>1. Visible(hooks', objs', script') = Shown(objs', script', M)
  BY VisibleShown
<1> QED
  BY <1>1, VisibleIs

\* The script a client sees is a sequence of sections, each with a handle of
\* its own and a sequence of entries.
IsScript(S) ==
    /\ Len(S) \in Nat /\ Items(S, Len(S))
    /\ \A i \in 1 .. Len(S) :
          /\ S[i] = [handle |-> S[i].handle, name |-> S[i].name,
                     entries |-> S[i].entries]
          /\ Len(S[i].entries) \in Nat
          /\ Items(S[i].entries, Len(S[i].entries))
    /\ \A i, j \in 1 .. Len(S) : S[i].handle = S[j].handle => i = j

LEMMA ShowsScript ==
    ASSUME NEW L, Shape(hooks, objs, script, heap_base, L)
    PROVE  IsScript(ScriptOf)
<1>1. CASE script = NULL
  <2>1. ScriptOf = <<>>
    BY <1>1, Zenon DEF ScriptOf
  <2> QED
    BY <2>1 DEF IsScript, Items
<1>2. CASE script # NULL
  <2> DEFINE S == Shown(objs, script, L)
  <2>1. ScriptOf = S
    BY SeenBefore
  <2>2. InOrder(objs, script, L)
    BY <1>2, ShownParts
  <2>3. /\ Rings(hooks, L) /\ Allocated(objs, heap_base) /\ Owned(objs, script, L)
        /\ script \in DOMAIN L
    BY <1>2 DEF Shape, Owned
  <2>4. PICK m \in Nat : Len(L[script]) = m /\ Len(S) = m
    BY <2>2 DEF InOrder
  <2>5. Items(S, m)
    BY <2>2, <2>4, Zenon DEF InOrder, Items
  <2>6. \A i \in 1 .. m : \E s \in SectionsOf(objs) :
           L[script][i] = s + SECTIONS_HOOK /\ S[i] = SectionShown(objs, L, s)
    BY <2>2, <2>4 DEF InOrder
  <2>7. \A i, j \in 1 .. m : L[script][i] = L[script][j] => i = j
    BY <2>3, <2>4 DEF Rings
  <2> HIDE DEF S
  <2>8. \A i, j \in 1 .. m : S[i].handle = S[j].handle => i = j
    <3>1. \A i \in 1 .. m : /\ S[i].handle \in SectionsOf(objs)
                            /\ L[script][i] = S[i].handle + SECTIONS_HOOK
      <4>1. \A s : SectionShown(objs, L, s).handle = s
        BY DEF SectionShown
      <4> QED
        BY <2>6, <4>1, Zenon
    <3> QED
      BY <2>7, <3>1, Zenon
  <2>9. ASSUME NEW i \in 1 .. m
        PROVE  /\ S[i] = [handle |-> S[i].handle, name |-> S[i].name,
                          entries |-> S[i].entries]
               /\ Len(S[i].entries) \in Nat
               /\ Items(S[i].entries, Len(S[i].entries))
    <3>1. PICK s \in SectionsOf(objs) : S[i] = SectionShown(objs, L, s)
      BY <2>6
    <3>2. s + ENTRIES_HEAD \in DOMAIN L
      BY <2>3, OwnedHeads
    <3> DEFINE E == L[s + ENTRIES_HEAD]
    <3>3. PICK n \in Nat : DOMAIN E = 1 .. n
      BY <2>3, <3>2 DEF Rings
    <3> HIDE DEF E
    <3>4. EntriesShown(objs, E) = [j \in 1 .. n |-> EntryShown(objs, E[j])]
      BY <3>3 DEF EntriesShown
    <3>5. Len(EntriesShown(objs, E)) = n /\ Items(EntriesShown(objs, E), n)
      BY <3>4 DEF Items
    <3>6. S[i].entries = EntriesShown(objs, E)
      BY <3>1 DEF SectionShown, E
    <3>7. S[i] = [handle |-> S[i].handle, name |-> S[i].name,
                  entries |-> S[i].entries]
      BY <3>1 DEF SectionShown
    <3> QED
      BY <3>5, <3>6, <3>7
  <2> QED
    BY <2>1, <2>4, <2>5, <2>8, <2>9, Zenon DEF IsScript
<1> QED
  BY <1>1, <1>2

\* script_new() shows no section.
LEMMA ShowsNewScript ==
    ASSUME NEW L, Shape(hooks, objs, script, heap_base, L), script = NULL,
           script_new
    PROVE  ScriptOf' = <<>>
<1> DEFINE M == WithEmpty(L, heap_base)
<1>1. script' = heap_base /\ Shape(hooks', objs', script', heap_base', M)
  BY NewScriptStep, Zenon
<1>2. M[heap_base] = <<>> /\ heap_base # NULL
  BY DEF WithEmpty, Shape, Allocated, NULL
<1>3. ScriptOf' = Shown(objs', heap_base, M)
  BY <1>1, SeenAfter
<1> HIDE DEF M
<1>4. Shown(objs', heap_base, M) = <<>>
  BY <1>2 DEF Shown
<1> QED
  BY <1>3, <1>4

\* script_section_new() shows a section with no entries at the end.
LEMMA ShowsNewSection ==
    ASSUME NEW L, Shape(hooks, objs, script, heap_base, L), script # NULL,
           NEW name, script_section_new(name)
    PROVE  ScriptOf' = Append(ScriptOf, [handle |-> ret', name |-> cut_name(name),
                                         entries |-> <<>>])
<1> DEFINE x == SectionNamed(name)
           M == WithLast(WithEmpty(L, heap_base + ENTRIES_HEAD), script,
                         heap_base + SECTIONS_HOOK)
<1>1. /\ ret' = heap_base /\ script' = script /\ objs' = Put(objs, heap_base, x)
      /\ Shape(hooks', objs', script', heap_base', M)
  BY NewSectionStep, Zenon
<1>2. x.kind = "section" /\ x.name = cut_name(name)
  BY DEF SectionNamed, Object
<1> HIDE DEF x, M
<1>3. ScriptOf = Shown(objs, script, L) /\ ScriptOf' = Shown(objs', script', M)
  BY <1>1, SeenBefore, SeenAfter
<1>4. Shown(Put(objs, heap_base, x), script, M)
        = Append(Shown(objs, script, L),
                 [handle |-> heap_base, name |-> x.name, entries |-> <<>>])
  <2>1. Shape(hooks', Put(objs, heap_base, x), script, heap_base', M)
    BY <1>1
  <2> QED
    BY <1>2, <2>1, NewSectionShown DEF M
<1> QED
  BY <1>1, <1>2, <1>3, <1>4

\* The script_*_entry_new() functions show an entry at the end of the section
\* they are given.
EntryOf(l, name, c) == [handle |-> l, name |-> cut_name(name), content |-> c]

WithEntry(S, i, x) == [S EXCEPT ![i].entries = Append(@, x)]

LEMMA ShowsNewEntry ==
    ASSUME NEW L, Shape(hooks, objs, script, heap_base, L),
           NEW s \in Sections, NEW name, NEW c,
           c.type \in {NULL_TYPE, SINGLE_WORD, STRING_TYPE, GPIO},
           Len(c.value) \in Nat, script_entry_new(s, name, c)
    PROVE  \E i \in DOMAIN ScriptOf :
              /\ ScriptOf[i].handle = s
              /\ ScriptOf' = WithEntry(ScriptOf, i, EntryOf(ret', name, c))
<1> DEFINE x == EntryNamed(name, c)
           M == WithLast(L, s + ENTRIES_HEAD, heap_base + ENTRIES_HOOK)
           X == Append(EntriesShown(objs, L[s + ENTRIES_HEAD]),
                       [handle |-> heap_base, name |-> x.name,
                        content |-> x.content])
<1>1. /\ ret' = heap_base /\ script' = script /\ objs' = Put(objs, heap_base, x)
      /\ Shape(hooks', objs', script', heap_base', M)
  BY NewEntryStep, Zenon
<1>2. x.kind = "entry" /\ x.name = cut_name(name) /\ x.content = c
  BY DEF EntryNamed, Object
<1> HIDE DEF x, M, X
<1>3. ScriptOf = Shown(objs, script, L) /\ ScriptOf' = Shown(objs', script', M)
  BY <1>1, SeenBefore, SeenAfter
<1>4. s \in SectionsOf(objs) /\ script # NULL
  BY DEF Sections, SectionsOf, Shape, Owned
<1>5. PICK i \in 1 .. Len(L[script]) : L[script][i] = s + SECTIONS_HOOK
  BY <1>4, Zenon DEF Shape, Owned
<1>6. OnlyEntries(objs, Put(objs, heap_base, x), script, L, M, i, s, X)
  <2>1. Shape(hooks', Put(objs, heap_base, x), script, heap_base', M)
    BY <1>1
  <2> QED
    BY <1>2, <1>4, <1>5, <2>1, NewEntryShown DEF M, X
<1>7. /\ ScriptOf' = [ScriptOf EXCEPT ![i].entries = X]
      /\ ScriptOf[i].entries = EntriesShown(objs, L[s + ENTRIES_HEAD])
      /\ ScriptOf[i].handle = s /\ i \in DOMAIN ScriptOf
  BY <1>1, <1>3, <1>6, Zenon DEF OnlyEntries
<1>8. X = Append(ScriptOf[i].entries, EntryOf(ret', name, c))
  BY <1>1, <1>2, <1>7, Zenon DEF X, EntryOf
<1> QED
  BY <1>7, <1>8, Zenon DEF WithEntry

\* Such a block does not show.
LEMMA ShowsNoBlock ==
    ASSUME NEW L, Shape(hooks, objs, script, heap_base, L),
           NEW size \in Nat, NEW x, x.len \in Nat, x.kind \in {"soc", "bytes"},
           x.kind # "bytes" => size > 0,
           Allocate(size, x), UNCHANGED <<hooks, script>>
    PROVE  ScriptOf' = ScriptOf
<1>1. objs' = Put(objs, heap_base, x)
  BY AllocateStep, Zenon
<1>2. Allocated(objs, heap_base) /\ Owned(objs, script, L) /\ Rings(hooks, L)
  BY DEF Shape
<1>3. \A a \in SectionsOf(objs) \cup EntriesOf(objs) : objs'[a] = objs[a]
  BY <1>1, <1>2, PutKinds DEF SectionsOf, EntriesOf
<1>4. Shape(hooks', objs', script', heap_base', L)
  BY BlockShape
<1>5. ScriptOf = Shown(objs, script, L) /\ ScriptOf' = Shown(objs', script, L)
  BY <1>4, SeenBefore, SeenAfter
<1>6. \A s \in SectionsOf(objs) : SectionShown(objs', L, s) = SectionShown(objs, L, s)
  BY <1>3, SameSection
<1>7. CASE script = NULL
  BY <1>5, <1>7, Zenon DEF Shown
<1>8. CASE script # NULL
  <2>1. script \in DOMAIN L
    BY <1>2, <1>8 DEF Owned
  <2>2. PICK m \in Nat : DOMAIN L[script] = 1 .. m /\ Len(L[script]) = m
    BY <1>2, <2>1 DEF Rings
  <2>3. \A i \in DOMAIN L[script] : L[script][i] - SECTIONS_HOOK \in SectionsOf(objs)
    <3> SUFFICES ASSUME NEW i \in 1 .. m
                 PROVE  L[script][i] - SECTIONS_HOOK \in SectionsOf(objs)
      BY <2>2
    <3>1. PICK s \in SectionsOf(objs) : L[script][i] = s + SECTIONS_HOOK
      BY <1>2, <1>8, <2>2 DEF Owned
    <3>2. s \in Nat
      BY <1>2, OwnedHeads
    <3>3. L[script][i] - SECTIONS_HOOK = s
      BY <3>1, <3>2 DEF SECTIONS_HOOK
    <3> QED
      BY <3>3
  <2> QED
    BY <1>5, <1>6, <1>8, <2>3, Zenon DEF Shown
<1> QED
  BY <1>7, <1>8

LEMMA ScriptUnchanged ==
    ASSUME UNCHANGED treeVars PROVE ScriptOf' = ScriptOf
BY VisibleIs, Zenon DEF treeVars

\* malloc's next block is no pointer that a client holds.
LEMMA FreshHandle ==
    ASSUME NEW L, Shape(hooks, objs, script, heap_base, L), script # NULL
    PROVE  heap_base \in Addresses \ Abstract!Used
<1> DEFINE V == Shown(objs, script, L)
<1>1. /\ Rings(hooks, L) /\ Allocated(objs, heap_base) /\ Owned(objs, script, L)
  BY DEF Shape
<1>2. /\ \A s \in SectionsOf(objs) : s \in Nat /\ s < heap_base
      /\ \A e \in EntriesOf(objs) : e \in Nat /\ e < heap_base
      /\ script \in Nat /\ script < heap_base
      /\ heap_base \in Nat \ {0}
  BY <1>1 DEF Allocated, Owned, SectionsOf, EntriesOf
<1>3. InOrder(objs, script, L)
  BY ShownParts, Zenon
<1>4. ASSUME NEW i \in DOMAIN V
      PROVE  \E s \in SectionsOf(objs) : V[i] = SectionShown(objs, L, s)
  BY <1>3 DEF InOrder
<1> HIDE DEF V
<1>5. ASSUME NEW i \in DOMAIN V
      PROVE  heap_base # V[i].handle /\ heap_base \notin Abstract!EntryHandles(V[i])
  <2>1. PICK s \in SectionsOf(objs) : V[i] = SectionShown(objs, L, s)
    BY <1>4
  <2> DEFINE ls == L[s + ENTRIES_HEAD]
  <2>2. V[i].handle = s /\ V[i].entries = EntriesShown(objs, ls)
    BY <2>1 DEF SectionShown
  <2>3. DOMAIN ls = 1 .. Len(ls)
    BY <1>1, OwnedHeads DEF Rings
  <2>4. ASSUME NEW j \in DOMAIN ls
        PROVE  EntriesShown(objs, ls)[j].handle # heap_base
    <3>1. PICK e \in EntriesOf(objs) : ls[j] = e + ENTRIES_HOOK
      BY <1>1, <2>3 DEF Owned
    <3>2. ls[j] - ENTRIES_HOOK = e
      BY <1>2, <3>1 DEF ENTRIES_HOOK
    <3> HIDE DEF ls
    <3>3. EntriesShown(objs, ls)[j].handle = ls[j] - ENTRIES_HOOK
      BY DEF EntriesShown, EntryShown
    <3> QED
      BY <1>2, <3>2, <3>3
  <2> HIDE DEF ls
  <2>5. DOMAIN EntriesShown(objs, ls) = DOMAIN ls
    BY DEF EntriesShown
  <2> QED
    <3>1. heap_base # s
      BY <1>2
    <3>2. Abstract!EntryHandles(V[i])
            = {EntriesShown(objs, ls)[j].handle : j \in DOMAIN ls}
      BY <2>2, <2>5, Zenon DEF Abstract!EntryHandles
    <3> QED
      BY <2>2, <2>4, <3>1, <3>2
<1>6. ScriptOf = V
  BY SeenBefore DEF V
<1>7. heap_base # script
  BY <1>2
<1>8. heap_base \notin Abstract!Used
  BY <1>5, <1>6, <1>7, Zenon DEF Abstract!Used
<1> QED
  BY <1>2, <1>8 DEF Addresses, NULL

\* v is the handle of the first of the m items of that name, or NULL.
FirstOf(items, m, name, v) ==
    \/ v = NULL /\ \A j \in 1 .. m : items[j].name # name
    \/ \E j \in 1 .. m : /\ items[j].name = name /\ v = items[j].handle
                        /\ \A k \in 1 .. j - 1 : items[k].name # name

LEMMA FirstFound ==
    ASSUME NEW m \in Nat, NEW items, Items(items, m), NEW name, NEW v,
           FirstOf(items, m, name, v)
    PROVE  v = Abstract!First(items, name)
<1>1. DOMAIN items = 1 .. m
  <2>1. items = [j \in 1 .. m |-> items[j]]
    BY Zenon DEF Items
  <2> QED
    BY <2>1
<1>2. CASE v = NULL /\ \A j \in 1 .. m : items[j].name # name
  BY <1>1, <1>2, Zenon DEF Abstract!First
<1>3. ASSUME NEW j \in 1 .. m, items[j].name = name, v = items[j].handle,
             \A k \in 1 .. j - 1 : items[k].name # name
      PROVE  v = Abstract!First(items, name)
  <2> DEFINE P(i) == /\ items[i].name = name
                     /\ \A k \in 1 .. i - 1 : items[k].name # name
  <2>1. \A i \in 1 .. m : P(i) => i = j
    <3> SUFFICES ASSUME NEW i \in 1 .. m, P(i), i # j PROVE FALSE
      OBVIOUS
    <3>1. i \in 1 .. j - 1 \/ j \in 1 .. i - 1
      OBVIOUS
    <3> QED
      BY <1>3, <3>1
  <2>2. P(j)
    BY <1>3
  <2> HIDE DEF P
  <2>3. (CHOOSE i \in 1 .. m : P(i)) = j
    BY <2>1, <2>2
  <2>4. Abstract!First(items, name) = items[CHOOSE i \in 1 .. m : P(i)].handle
    BY <1>1, <1>3, Zenon DEF Abstract!First, P
  <2> QED
    BY <1>3, <2>3, <2>4
<1> QED
  BY <1>2, <1>3, Zenon DEF FirstOf

LEMMA NamesCut ==
    ASSUME NEW name PROVE Abstract!Truncated(name) = cut_name(name)
BY DEF Abstract!Truncated, cut_name, Abstract!NAME_MAX, NAME_MAX

LEMMA SeesNewScript ==
    ASSUME NEW L, Shape(hooks, objs, script, heap_base, L), script = NULL,
           script_new
    PROVE  Abstract!NewScript
<1>1. ret' = heap_base /\ script' = heap_base
  BY NewScriptStep, Zenon
<1>2. heap_base \in Addresses
  BY DEF Shape, Allocated, Addresses, NULL
<1>3. ScriptOf = <<>> /\ ScriptOf' = <<>>
  BY ShowsNewScript, Zenon DEF ScriptOf
<1> QED
  BY <1>1, <1>2, <1>3, Zenon DEF Abstract!NewScript

LEMMA SeesNewSection ==
    ASSUME NEW L, Shape(hooks, objs, script, heap_base, L), script # NULL,
           NEW name, script_section_new(name)
    PROVE  Abstract!NewSection(name)
<1>1. ret' = heap_base /\ script' = script
  BY NewSectionStep, Zenon
<1>2. heap_base \in Addresses \ Abstract!Used
  BY FreshHandle
<1>3. ScriptOf' = Append(ScriptOf, [handle |-> ret', entries |-> <<>>,
                                    name |-> Abstract!Truncated(name)])
  BY ShowsNewSection, NamesCut
<1> QED
  BY <1>1, <1>2, <1>3 DEF Abstract!NewSection

LEMMA SeesNewEntry ==
    ASSUME NEW L, Shape(hooks, objs, script, heap_base, L),
           NEW s \in Sections, NEW name, NEW c \in Contents,
           script_entry_new(s, name, c)
    PROVE  \E i \in DOMAIN ScriptOf : Abstract!NewEntry(i, name, c)
<1>1. /\ c.type \in {NULL_TYPE, SINGLE_WORD, STRING_TYPE, GPIO}
      /\ Len(c.value) \in Nat
  BY TreeAssumption
<1>2. ret' = heap_base /\ script' = script
  BY <1>1, NewEntryStep, Zenon
<1>3. heap_base \in Addresses \ Abstract!Used
  <2>1. script # NULL
    BY DEF Sections, SectionsOf, Shape, Owned
  <2> QED
    BY <2>1, FreshHandle
<1>4. PICK i \in DOMAIN ScriptOf :
         ScriptOf' = WithEntry(ScriptOf, i, EntryOf(ret', name, c))
  BY <1>1, ShowsNewEntry
<1>5. EntryOf(ret', name, c) = Abstract!Entry(ret', name, c)
  BY NamesCut DEF EntryOf, Abstract!Entry
<1>6. ScriptOf' = [ScriptOf EXCEPT ![i].entries =
                      Append(@, Abstract!Entry(ret', name, c))]
  BY <1>4, <1>5, Zenon DEF WithEntry
<1> QED
  BY <1>2, <1>3, <1>6, Zenon DEF Abstract!NewEntry

LEMMA SeesDeleteEntry ==
    ASSUME NEW L, Shape(hooks, objs, script, heap_base, L),
           NEW e \in EntriesOf(objs), script_entry_delete(e)
    PROVE  \E i \in DOMAIN ScriptOf : \E j \in DOMAIN ScriptOf[i].entries :
              Abstract!DeleteEntry(i, j)
<1>1. PICK s \in SectionsOf(objs) : \E k \in 1 .. Len(L[s + ENTRIES_HEAD]) :
         L[s + ENTRIES_HEAD][k] = e + ENTRIES_HOOK
  BY Zenon DEF Shape, Owned
<1> DEFINE f == EntriesShown(objs, L[s + ENTRIES_HEAD])
<1>2. PICK k \in 1 .. Len(L[s + ENTRIES_HEAD]) :
         L[s + ENTRIES_HEAD][k] = e + ENTRIES_HOOK
  BY <1>1
<1>3. PICK i \in 1 .. Len(L[script]) : L[script][i] = s + SECTIONS_HOOK
  BY Zenon DEF Shape, Owned
<1> DEFINE M == WithoutAt(L, s + ENTRIES_HEAD, k)
           X == Abstract!Without(f, k)
<1>4. /\ ret' = NULL /\ script' = script /\ objs' = Less(objs, e)
      /\ Shape(hooks', objs', script', heap_base', M)
  BY <1>2, DeleteEntryStep, Zenon
<1> HIDE DEF M, X, f
<1>5. ScriptOf = Shown(objs, script, L) /\ ScriptOf' = Shown(objs', script', M)
  BY <1>4, SeenBefore, SeenAfter
<1>6. /\ OnlyEntries(objs, Less(objs, e), script, L, M, i, s, X)
      /\ k \in DOMAIN f
  <2>1. Shape(hooks', Less(objs, e), script, heap_base', M)
    BY <1>4
  <2> QED
    BY <1>2, <1>3, <2>1, DeleteEntryShown DEF M, X, f
<1>7. /\ ScriptOf' = [ScriptOf EXCEPT ![i].entries = X]
      /\ ScriptOf[i].entries = f
      /\ i \in DOMAIN ScriptOf
  BY <1>4, <1>5, <1>6, Zenon DEF OnlyEntries, f
<1>8. X = Abstract!Without(ScriptOf[i].entries, k)
  BY <1>7, Zenon DEF X
<1>9. ScriptOf' = [ScriptOf EXCEPT ![i].entries = Abstract!Without(@, k)]
  BY <1>7, <1>8, Zenon
<1>10. Abstract!DeleteEntry(i, k)
  BY <1>4, <1>9, Zenon DEF Abstract!DeleteEntry
<1> QED
  BY <1>6, <1>7, <1>10

LEMMA SeesDeleteSection ==
    ASSUME NEW L, Shape(hooks, objs, script, heap_base, L),
           NEW s \in SectionsOf(objs), script_section_delete(s)
    PROVE  \E i \in DOMAIN ScriptOf : Abstract!DeleteSection(i)
<1>1. PICK k \in 1 .. Len(L[script]) : L[script][k] = s + SECTIONS_HOOK
  BY Zenon DEF Shape, Owned
<1> DEFINE M == Less(WithoutAt(L, script, k), s + ENTRIES_HEAD)
<1>2. /\ ret' = NULL /\ script' = script
      /\ DOMAIN objs' \subseteq DOMAIN objs
      /\ \A a \in DOMAIN objs' : objs'[a] = objs[a]
      /\ SectionsOf(objs') = SectionsOf(objs) \ {s}
      /\ Shape(hooks', objs', script', heap_base', M)
  BY <1>1, DeleteSectionStep, Zenon
<1> HIDE DEF M
<1>3. ScriptOf = Shown(objs, script, L) /\ ScriptOf' = Shown(objs', script', M)
  BY <1>2, SeenBefore, SeenAfter
<1>4. /\ Shown(objs', script, M) = Abstract!Without(Shown(objs, script, L), k)
      /\ k \in DOMAIN Shown(objs, script, L)
  <2>1. Shape(hooks', objs', script, heap_base', M)
    BY <1>2
  <2>2. \A a \in DOMAIN objs' : a \in DOMAIN objs /\ objs'[a] = objs[a]
    BY <1>2
  <2> QED
    BY <1>1, <1>2, <2>1, <2>2, DeleteSectionShown DEF M
<1>5. ScriptOf' = Abstract!Without(ScriptOf, k) /\ k \in DOMAIN ScriptOf
  BY <1>2, <1>3, <1>4, Zenon
<1>6. Abstract!DeleteSection(k)
  BY <1>2, <1>5, Zenon DEF Abstract!DeleteSection
<1> QED
  BY <1>5, <1>6

\* A search of a list whose items are shown as items.
LEMMA SeesFound ==
    ASSUME NEW ls, NEW m \in Nat, Len(ls) = m, NEW off, NEW name, NEW v,
           Found(ls, off, name, 1, v), NEW items, Items(items, m),
           \A j \in 1 .. m : /\ items[j].handle = ls[j] - off
                             /\ items[j].name = objs[ls[j] - off].name
    PROVE  v = Abstract!First(items, name)
<1>1. FirstOf(items, m, name, v)
  <2>1. CASE v = NULL /\ \A j \in 1 .. m : objs[ls[j] - off].name # name
    BY <2>1, Zenon DEF FirstOf
  <2>2. ASSUME NEW j \in 1 .. m, objs[ls[j] - off].name = name,
               v = ls[j] - off,
               \A k \in 1 .. j - 1 : objs[ls[k] - off].name # name
        PROVE  FirstOf(items, m, name, v)
    <3>1. \A k \in 1 .. j - 1 : k \in 1 .. m
      OBVIOUS
    <3> QED
      BY <2>2, <3>1, Zenon DEF FirstOf
  <2> QED
    BY <2>1, <2>2, Zenon DEF Found
<1> QED
  BY <1>1, FirstFound

LEMMA SeesFindSection ==
    ASSUME NEW L, Shape(hooks, objs, script, heap_base, L), script # NULL,
           NEW name, Returns(script_find_section(name))
    PROVE  Abstract!FindSection(name)
<1>1. /\ script \in DOMAIN L
      /\ Found(L[script], SECTIONS_HOOK, name, 1, script_find_section(name))
  BY FindSectionStep, Zenon
<1> DEFINE V == Shown(objs, script, L)
           ls == L[script]
<1>2. InOrder(objs, script, L) /\ Allocated(objs, heap_base)
  BY ShownParts, Zenon DEF Shape
<1>3. PICK m \in Nat : Len(L[script]) = m
  BY <1>2 DEF InOrder
<1>4. Items(V, m)
  BY <1>2, <1>3 DEF InOrder, Items
<1>5. ASSUME NEW j \in 1 .. m
      PROVE  /\ V[j].handle = L[script][j] - SECTIONS_HOOK
             /\ V[j].name = objs[L[script][j] - SECTIONS_HOOK].name
  <2>1. PICK s \in SectionsOf(objs) : /\ L[script][j] = s + SECTIONS_HOOK
                                      /\ V[j] = SectionShown(objs, L, s)
    BY <1>2, <1>3 DEF InOrder
  <2>2. L[script][j] - SECTIONS_HOOK = s
    BY <1>2, <2>1 DEF Allocated, SectionsOf, SECTIONS_HOOK
  <2>3. V[j].handle = s /\ V[j].name = objs[s].name
    BY <2>1 DEF SectionShown
  <2> QED
    BY <2>2, <2>3
<1> HIDE DEF V
<1>6. script_find_section(name) = Abstract!First(V, name)
  <2>1. /\ Found(ls, SECTIONS_HOOK, name, 1, script_find_section(name))
        /\ Len(ls) = m
        /\ \A j \in 1 .. m : /\ V[j].handle = ls[j] - SECTIONS_HOOK
                             /\ V[j].name = objs[ls[j] - SECTIONS_HOOK].name
    BY <1>1, <1>3, <1>5
  <2> DEFINE v == script_find_section(name)
  <2>2. Found(ls, SECTIONS_HOOK, name, 1, v)
    BY <2>1
  <2> HIDE DEF ls, v
  <2>3. v = Abstract!First(V, name)
    BY <1>4, <2>1, <2>2, SeesFound
  <2> QED
    BY <2>3 DEF v
<1>7. ScriptOf = V /\ ScriptOf' = V
  <2>1. ScriptOf = V
    BY SeenBefore DEF V
  <2>2. ScriptOf' = ScriptOf
    <3>1. Visible(hooks', objs', script') = Visible(hooks, objs, script)
      BY Zenon DEF Returns
    <3> QED
      BY <3>1, VisibleIs
  <2> QED
    BY <2>1, <2>2
<1> QED
  BY <1>6, <1>7, Zenon DEF Abstract!FindSection, Returns

LEMMA SeesFindEntry ==
    ASSUME NEW L, Shape(hooks, objs, script, heap_base, L),
           NEW s \in SectionsOf(objs), NEW name,
           Returns(script_find_entry(s, name))
    PROVE  \E i \in DOMAIN ScriptOf : Abstract!FindEntry(i, name)
<1> DEFINE h == s + ENTRIES_HEAD
           V == Shown(objs, script, L)
           f == EntriesShown(objs, L[h])
<1>1. /\ h \in DOMAIN L
      /\ Found(L[h], ENTRIES_HOOK, name, 1, script_find_entry(s, name))
  BY FindEntryStep, Zenon
<1>2. Rings(hooks, L) /\ Allocated(objs, heap_base) /\ Owned(objs, script, L)
  BY DEF Shape
<1>3. script # NULL
  BY <1>2, OwnedHeads
<1>4. InOrder(objs, script, L)
  BY <1>3, ShownParts, Zenon
<1>5. PICK i \in 1 .. Len(L[script]) : L[script][i] = s + SECTIONS_HOOK
  BY Zenon DEF Shape, Owned
<1>6. V[i] = SectionShown(objs, L, s) /\ i \in DOMAIN V
  <2>1. PICK r \in SectionsOf(objs) : /\ L[script][i] = r + SECTIONS_HOOK
                                      /\ V[i] = SectionShown(objs, L, r)
    BY <1>4, <1>5 DEF InOrder
  <2>2. r = s
    BY <1>2, <1>5, <2>1 DEF Allocated, SectionsOf, SECTIONS_HOOK
  <2>3. i \in DOMAIN V
    BY <1>4, <1>5 DEF InOrder
  <2> QED
    BY <2>1, <2>2, <2>3
<1> HIDE DEF V
<1>7. V[i].entries = f
  BY <1>6 DEF SectionShown
<1>8. PICK m \in Nat : Len(L[h]) = m /\ DOMAIN L[h] = 1 .. m
  BY <1>1, <1>2 DEF Rings
<1> HIDE DEF h
<1>9. f = [j \in 1 .. m |-> EntryShown(objs, L[h][j])]
  BY <1>8, Zenon DEF EntriesShown
<1> HIDE DEF f
<1>10. Items(f, m)
  BY <1>9 DEF Items
<1>11. ASSUME NEW j \in 1 .. m
       PROVE  /\ f[j].handle = L[h][j] - ENTRIES_HOOK
              /\ f[j].name = objs[L[h][j] - ENTRIES_HOOK].name
  BY <1>9 DEF EntryShown
<1>12. script_find_entry(s, name) = Abstract!First(f, name)
  BY <1>1, <1>8, <1>10, <1>11, SeesFound
<1>13. ScriptOf = V /\ ScriptOf' = V
  <2>1. ScriptOf = V
    BY SeenBefore DEF V
  <2>2. ScriptOf' = ScriptOf
    <3>1. Visible(hooks', objs', script') = Visible(hooks, objs, script)
      BY Zenon DEF Returns
    <3> QED
      BY <3>1, VisibleIs
  <2> QED
    BY <2>1, <2>2
<1>14. Abstract!FindEntry(i, name)
  BY <1>7, <1>12, <1>13, Zenon DEF Abstract!FindEntry, Returns
<1> QED
  BY <1>6, <1>13, <1>14

LEMMA SeesInit ==
    ASSUME TreeInit PROVE Abstract!Init
BY DEF TreeInit, Abstract!Init, ScriptOf

LEMMA SeesNext ==
    ASSUME TreeInv, TreeNext PROVE Abstract!Next
<1>1. PICK L : Shape(hooks, objs, script, heap_base, L)
  BY Zenon DEF TreeInv
<1>2. SectionsOf(objs) = Sections /\ EntriesOf(objs) = Entries
  BY DEF SectionsOf, EntriesOf, Sections, Entries
<1>3. CASE NewScript
  <2>1. Abstract!NewScript
    BY <1>1, <1>3, SeesNewScript DEF NewScript
  <2> QED
    BY <2>1, Zenon DEF Abstract!Next
<1>4. CASE NewSection
  <2>1. PICK n \in Names : script # NULL /\ script_section_new(n)
    BY <1>4 DEF NewSection
  <2>2. Abstract!NewSection(n)
    BY <1>1, <2>1, SeesNewSection, Zenon
  <2> QED
    BY <2>2, Zenon DEF Abstract!Next
<1>5. CASE NewEntry
  <2>1. PICK s \in Sections, n \in Names, c \in Contents :
           script_entry_new(s, n, c)
    BY <1>5 DEF NewEntry
  <2>2. \E i \in DOMAIN ScriptOf : Abstract!NewEntry(i, n, c)
    BY <1>1, <2>1, SeesNewEntry, Zenon
  <2> QED
    BY <2>2, Zenon DEF Abstract!Next
<1>6. CASE DeleteEntry
  <2>1. PICK e \in EntriesOf(objs) : script_entry_delete(e)
    BY <1>2, <1>6 DEF DeleteEntry
  <2>2. \E i \in DOMAIN ScriptOf : \E j \in DOMAIN ScriptOf[i].entries :
           Abstract!DeleteEntry(i, j)
    BY <1>1, <2>1, SeesDeleteEntry, Zenon
  <2> QED
    BY <2>2, Zenon DEF Abstract!Next
<1>7. CASE DeleteSection
  <2>1. PICK s \in SectionsOf(objs) : script_section_delete(s)
    BY <1>2, <1>7 DEF DeleteSection
  <2>2. \E i \in DOMAIN ScriptOf : Abstract!DeleteSection(i)
    BY <1>1, <2>1, SeesDeleteSection, Zenon
  <2> QED
    BY <2>2, Zenon DEF Abstract!Next
<1>8. CASE DeleteScript
  <2>1. script # NULL /\ script' = NULL /\ ret' = NULL
    BY <1>8 DEF DeleteScript, script_delete, Becomes
  <2>2. Visible(hooks', objs', script') = <<>>
    BY <2>1, Zenon DEF Visible
  <2>3. Abstract!DeleteScript
    BY <2>1, <2>2, VisibleIs DEF Abstract!DeleteScript
  <2> QED
    BY <2>3, Zenon DEF Abstract!Next
<1>9. CASE FindSection
  <2>1. PICK n \in Names : script # NULL /\ Returns(script_find_section(n))
    BY <1>9 DEF FindSection
  <2>2. Abstract!FindSection(n)
    BY <1>1, <2>1, SeesFindSection, Zenon
  <2> QED
    BY <2>2, Zenon DEF Abstract!Next
<1>10. CASE FindEntry
  <2>1. PICK s \in SectionsOf(objs), n \in Names :
           Returns(script_find_entry(s, n))
    BY <1>2, <1>10 DEF FindEntry
  <2>2. \E i \in DOMAIN ScriptOf : Abstract!FindEntry(i, n)
    BY <1>1, <2>1, SeesFindEntry, Zenon
  <2> QED
    BY <2>2, Zenon DEF Abstract!Next
<1> QED
  BY <1>3, <1>4, <1>5, <1>6, <1>7, <1>8, <1>9, <1>10 DEF TreeNext

LEMMA SeesStutter ==
    ASSUME UNCHANGED treeVars PROVE UNCHANGED Abstract!vars
BY ScriptUnchanged DEF treeVars, Abstract!vars

\* The pointers of script.c implement the abstract script: a lookup returns
\* the first match, and script_section_new(), the script_*_entry_new() and the
\* script_*_delete() functions change what they are about and nothing else.
THEOREM TreeImplementsScript == TreeSpec => ScriptSpec
<1>1. TreeInit => Abstract!Init
  BY SeesInit
<1>2. TreeInv /\ [TreeNext]_treeVars => [Abstract!Next]_(Abstract!vars)
  BY SeesNext, SeesStutter
<1> QED
  BY <1>1, <1>2, TreeInvariant, PTL DEF TreeSpec, ScriptSpec, Abstract!Spec
=============================================================================
