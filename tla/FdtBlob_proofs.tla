--------------------------- MODULE FdtBlob_proofs ----------------------------
(***************************************************************************)
(* What the walks and the edits of libfdt do to the structure block of a   *)
(* blob, for blobs of any size, and names and values of any length.        *)
(*                                                                         *)
(* A block is Nested when its tags follow each other without gaps and its  *)
(* nodes are balanced around one root: d says how many nodes are open      *)
(* behind each word.  The walks of fdt.c and fdt_ro.c are loops that go up *)
(* through such a block, so that each of them ends (LoopExists) and finds  *)
(* an offset at the depth it looks for (LoopInduction).                    *)
(***************************************************************************)
EXTENDS FdtBlob, NatRecursion

-----------------------------------------------------------------------------
(* Lengths                                                                 *)

\* What Total adds up.
LEMMA TotalSums ==
    ASSUME NEW lens, NEW n \in Nat, Len(lens) = n,
           \A k \in 1 .. n : lens[k] \in Nat
    PROVE  \E f \in [0 .. n -> Nat] :
              /\ Total(lens) = f[n]
              /\ f = [k \in 0 .. n |-> IF k = 0 THEN 0 ELSE f[k - 1] + lens[k]]
<1> DEFINE g == [k \in 1 .. n |-> lens[k]]
           Sum(f) == f = [k \in 0 .. Len(lens) |->
                             IF k = 0 THEN 0 ELSE f[k - 1] + lens[k]]
           F == CHOOSE f : Sum(f)
<1>1. PICK f \in [0 .. n -> Int] :
         f = [i \in 0 .. n |-> IF i = 0 THEN 0 ELSE f[i - 1] + g[i]]
  <2>1. g \in [1 .. n -> Int]
    OBVIOUS
  <2> HIDE DEF g
  <2> QED
    BY <2>1, PartialSums
<1>2. Sum(f)
  <2>1. \A i \in 0 .. n : f[i] = IF i = 0 THEN 0 ELSE f[i - 1] + lens[i]
    <3>1. ASSUME NEW i \in 0 .. n
          PROVE  f[i] = IF i = 0 THEN 0 ELSE f[i - 1] + lens[i]
      <4>1. f[i] = IF i = 0 THEN 0 ELSE f[i - 1] + g[i]
        BY <1>1
      <4>2. i # 0 => g[i] = lens[i]
        OBVIOUS
      <4> QED
        BY <4>1, <4>2
    <3> QED
      BY <3>1
  <2>2. f = [i \in 0 .. n |-> f[i]]
    BY <1>1
  <2> QED
    BY <2>1, <2>2
<1>3. Sum(F)
  BY <1>2
<1>4. Total(lens) = F[n]
  BY DEF Total
<1>5. DOMAIN F = 0 .. n
      /\ \A k \in 0 .. n : F[k] = IF k = 0 THEN 0 ELSE F[k - 1] + lens[k]
  BY <1>3
<1> HIDE DEF F, Sum
<1>6. \A k \in Nat : k <= n => F[k] \in Nat
  <2> DEFINE T == {k \in Nat : k <= n => F[k] \in Nat}
  <2>1. 0 \in T
    BY <1>5
  <2>2. ASSUME NEW k \in Nat, k \in T PROVE k + 1 \in T
    <3>1. SUFFICES ASSUME k + 1 <= n PROVE F[k + 1] \in Nat
      OBVIOUS
    <3>2. F[k] \in Nat /\ lens[k + 1] \in Nat
      BY <2>2, <3>1
    <3>3. F[k + 1] = F[k] + lens[k + 1]
      BY <1>5, <3>1
    <3> QED
      BY <3>2, <3>3
  <2> HIDE DEF T
  <2>3. \A k \in Nat : k \in T
    BY <2>1, <2>2, NatSetInduction
  <2> QED
    BY <2>3 DEF T
<1>7. F \in [0 .. n -> Nat]
  <2>1. F = [k \in 0 .. n |-> F[k]]
    BY <1>3 DEF Sum
  <2> QED
    BY <1>6, <2>1
<1>8. F = [k \in 0 .. n |-> IF k = 0 THEN 0 ELSE F[k - 1] + lens[k]]
  BY <1>3 DEF Sum
<1> QED
  BY <1>4, <1>7, <1>8

LEMMA TotalNat ==
    ASSUME NEW lens \in Seq(Nat) PROVE Total(lens) \in Nat
<1>1. Len(lens) \in Nat /\ \A k \in 1 .. Len(lens) : lens[k] \in Nat
  OBVIOUS
<1> QED
  BY <1>1, TotalSums

\* One more length.
LEMMA TotalMore ==
    ASSUME NEW a \in Seq(Nat), NEW b \in Seq(Nat), Len(b) = Len(a) + 1,
           \A k \in 1 .. Len(a) : b[k] = a[k]
    PROVE  Total(b) = Total(a) + b[Len(b)]
<1> DEFINE n == Len(a)
<1>0. n \in Nat /\ n + 1 \in Nat /\ Len(b) = n + 1
      /\ (\A k \in 1 .. n : a[k] \in Nat) /\ (\A k \in 1 .. n + 1 : b[k] \in Nat)
  OBVIOUS
<1> HIDE DEF n
<1>1. PICK f \in [0 .. n -> Nat] :
         /\ Total(a) = f[n]
         /\ f = [k \in 0 .. n |-> IF k = 0 THEN 0 ELSE f[k - 1] + a[k]]
  BY <1>0, TotalSums DEF n
<1>2. PICK g \in [0 .. n + 1 -> Nat] :
         /\ Total(b) = g[n + 1]
         /\ g = [k \in 0 .. n + 1 |-> IF k = 0 THEN 0 ELSE g[k - 1] + b[k]]
  BY <1>0, TotalSums
<1>3. \A k \in 0 .. n : f[k] = IF k = 0 THEN 0 ELSE f[k - 1] + a[k]
  BY <1>1
<1>4. \A k \in 0 .. n + 1 : g[k] = IF k = 0 THEN 0 ELSE g[k - 1] + b[k]
  BY <1>2
<1> DEFINE T == {k \in Nat : k <= n => f[k] = g[k]}
<1>5. 0 \in T
  BY <1>0, <1>3, <1>4
<1>6. ASSUME NEW k \in Nat, k \in T PROVE k + 1 \in T
  <2>1. SUFFICES ASSUME k + 1 <= n PROVE f[k + 1] = g[k + 1]
    OBVIOUS
  <2>2. k + 1 \in 0 .. n /\ k + 1 \in 0 .. n + 1 /\ (k + 1) - 1 = k /\ k + 1 # 0
        /\ k <= n /\ k + 1 \in 1 .. n
    BY <1>0, <2>1
  <2>3. f[k + 1] = f[k] + a[k + 1] /\ g[k + 1] = g[k] + b[k + 1]
    BY <1>3, <1>4, <2>2
  <2> QED
    BY <1>6, <2>2, <2>3 DEF n
<1> HIDE DEF T
<1>7. n \in T
  BY <1>0, <1>5, <1>6, NatSetInduction
<1>8. f[n] = g[n]
  BY <1>0, <1>7 DEF T
<1>9. g[n + 1] = g[n] + b[n + 1]
  BY <1>0, <1>4
<1> QED
  BY <1>0, <1>1, <1>2, <1>8, <1>9 DEF n

-----------------------------------------------------------------------------
(* Sequences, values and words                                             *)

LEMMA IsSeqMeans ==
    ASSUME NEW s
    PROVE  IsSeq(s) <=> /\ Len(s) \in Nat
                        /\ s = [k \in 1 .. Len(s) |-> s[k]]
<1>1. ASSUME IsSeq(s) PROVE Len(s) \in Nat /\ s = [k \in 1 .. Len(s) |-> s[k]]
  <2>1. PICK S : s \in Seq(S)
    BY <1>1 DEF IsSeq
  <2> QED
    BY <2>1
<1>2. ASSUME Len(s) \in Nat, s = [k \in 1 .. Len(s) |-> s[k]] PROVE IsSeq(s)
  <2>1. DOMAIN s = 1 .. Len(s)
    BY <1>2
  <2> DEFINE S == {s[k] : k \in DOMAIN s}
             n == Len(s)
  <2>2. s \in [1 .. n -> S]
    BY <1>2, <2>1
  <2>3. n \in Nat
    BY <1>2
  <2> HIDE DEF S, n
  <2>4. s \in Seq(S)
    BY <2>2, <2>3
  <2> QED
    BY <2>4 DEF IsSeq, S
<1> QED
  BY <1>1, <1>2

\* A sequence of anything is one.
LEMMA SeqIs ==
    ASSUME NEW S, NEW s \in Seq(S) PROVE IsSeq(s)
BY IsSeqMeans

LEMMA Joined ==
    ASSUME NEW s, NEW t, IsSeq(s), IsSeq(t)
    PROVE  /\ IsSeq(s \o t)
           /\ Len(s \o t) = Len(s) + Len(t)
           /\ \A k \in 1 .. Len(s) + Len(t) :
                 (s \o t)[k] = IF k <= Len(s) THEN s[k] ELSE t[k - Len(s)]
<1> DEFINE S == {s[k] : k \in DOMAIN s} \cup {t[k] : k \in DOMAIN t}
<1>1. s \in Seq(S) /\ t \in Seq(S)
  <2>1. Len(s) \in Nat /\ s = [k \in 1 .. Len(s) |-> s[k]]
    BY IsSeqMeans
  <2>2. Len(t) \in Nat /\ t = [k \in 1 .. Len(t) |-> t[k]]
    BY IsSeqMeans
  <2>3. s \in [1 .. Len(s) -> S]
    BY <2>1
  <2>4. t \in [1 .. Len(t) -> S]
    BY <2>2
  <2> HIDE DEF S
  <2> QED
    BY <2>1, <2>2, <2>3, <2>4
<1> HIDE DEF S
<1>2. s \o t \in Seq(S)
  BY <1>1
<1>3. IsSeq(s \o t)
  BY <1>2, SeqIs
<1>4. Len(s \o t) = Len(s) + Len(t)
  BY <1>1
<1>5. ASSUME NEW k \in 1 .. Len(s) + Len(t)
      PROVE  (s \o t)[k] = IF k <= Len(s) THEN s[k] ELSE t[k - Len(s)]
  BY <1>1
<1> QED
  BY <1>3, <1>4, <1>5

LEMMA ValLen ==
    ASSUME NEW v, IsValue(v) PROVE val_len(v) \in Nat
<1> DEFINE lens == [k \in DOMAIN v |-> item_len(v[k])]
<1>1. Len(v) \in Nat /\ DOMAIN v = 1 .. Len(v)
  BY IsSeqMeans DEF IsValue
<1>2. lens \in Seq(Nat)
  BY <1>1 DEF IsValue
<1> HIDE DEF lens
<1>3. Total(lens) \in Nat
  BY <1>2, TotalNat
<1> QED
  BY <1>3 DEF val_len, lens

LEMMA NoValue == IsValue(<<>>)
<1>1. IsSeq(<<>>)
  <2>1. <<>> \in Seq({})
    OBVIOUS
  <2> QED
    BY <2>1, SeqIs
<1> QED
  BY <1>1 DEF IsValue

LEMMA ValueJoined ==
    ASSUME NEW v, NEW w, IsValue(v), IsValue(w) PROVE IsValue(v \o w)
<1>1. IsSeq(v \o w) /\ Len(v \o w) = Len(v) + Len(w)
      /\ \A k \in 1 .. Len(v) + Len(w) :
            (v \o w)[k] = IF k <= Len(v) THEN v[k] ELSE w[k - Len(v)]
  BY Joined DEF IsValue
<1>2. Len(v) \in Nat /\ DOMAIN v = 1 .. Len(v) /\ Len(w) \in Nat
      /\ DOMAIN w = 1 .. Len(w)
  BY IsSeqMeans DEF IsValue
<1>3. DOMAIN (v \o w) = 1 .. Len(v) + Len(w)
  BY <1>1, IsSeqMeans
<1>4. ASSUME NEW k \in 1 .. Len(v) + Len(w) PROVE item_len((v \o w)[k]) \in Nat
  <2>1. CASE k <= Len(v)
    <3>1. (v \o w)[k] = v[k] /\ k \in DOMAIN v
      BY <1>1, <1>2, <2>1
    <3> QED
      BY <3>1 DEF IsValue
  <2>2. CASE ~(k <= Len(v))
    <3>1. (v \o w)[k] = w[k - Len(v)] /\ k - Len(v) \in DOMAIN w
      BY <1>1, <1>2, <2>2
    <3> QED
      BY <3>1 DEF IsValue
  <2> QED
    BY <2>1, <2>2
<1> QED
  BY <1>1, <1>3, <1>4 DEF IsValue

\* The words of a tag.
LEMMA TagWords ==
    ASSUME NEW w, IsWord(w) PROVE tag_words(w) \in Nat \ {0}
<1>1. /\ w.tag = "BEGIN" => Len(w.name) \in Nat
      /\ w.tag = "PROP" => val_len(w.val) \in Nat
  BY ValLen DEF IsWord
<1>2. \A n \in Nat : FDT_TAGALIGN(n) \div FDT_TAGSIZE \in Nat
  BY DEF FDT_TAGALIGN, FDT_ALIGN, FDT_TAGSIZE
<1> QED
  BY <1>1, <1>2 DEF tag_words

\* The tags that a call writes.
LEMMA NewTags ==
    ASSUME NEW name, Len(name) \in Nat, NEW val, IsValue(val)
    PROVE  IsWord(Begin(name)) /\ IsWord(Prop(name, val))
BY DEF IsWord, Begin, Prop, Word, Tags

LEMMA FixedTags ==
    /\ IsWord(EndNode) /\ IsWord(End) /\ IsWord(Nop) /\ IsWord(Cont)
    /\ tag_words(EndNode) = 1 /\ tag_words(Nop) = 1
BY DEF IsWord, EndNode, End, Nop, Cont, Word, Tags, tag_words

LEMMA BlockMeans ==
    ASSUME NEW ws, Block(ws)
    PROVE  /\ Len(ws) \in Nat /\ DOMAIN ws = 1 .. Len(ws)
           /\ \A k \in 1 .. Len(ws) : /\ ws[k].tag \in Tags
                                      /\ tag_words(ws[k]) \in Nat \ {0}
<1>1. Len(ws) \in Nat /\ DOMAIN ws = 1 .. Len(ws)
  BY IsSeqMeans DEF Block
<1>2. ASSUME NEW k \in 1 .. Len(ws)
      PROVE  ws[k].tag \in Tags /\ tag_words(ws[k]) \in Nat \ {0}
  <2>1. IsWord(ws[k])
    BY <1>1 DEF Block
  <2> QED
    BY <2>1, TagWords DEF IsWord
<1> QED
  BY <1>1, <1>2

-----------------------------------------------------------------------------
(* The walks                                                               *)

\* fdt_next_tag, at any offset: a tag of the block and the offset behind it, or
\* END.
Answers(b, off, t) ==
    \/ /\ t.tag \in {"BEGIN", "END_NODE", "PROP", "NOP"}
       /\ off \in 0 .. Len(b.words) - 1 /\ At(b, off).tag = t.tag
       /\ t.next = off + tag_words(At(b, off))
       /\ t.next \in off + 1 .. Len(b.words)
    \/ t.tag = "END" /\ t.next \in Int

LEMMA NextTag ==
    ASSUME NEW b, Block(b.words), NEW off \in Int
    PROVE  Answers(b, off, fdt_next_tag(b, off))
<1> DEFINE ws == b.words
           w == ws[off + 1]
<1>1. Len(ws) \in Nat /\ \A k \in 1 .. Len(ws) :
         ws[k].tag \in Tags /\ tag_words(ws[k]) \in Nat \ {0}
  BY BlockMeans
<1>2. CASE off < 0 \/ off >= Len(ws)
  BY <1>2 DEF fdt_next_tag, Answers, FDT_ERR_TRUNCATED
<1>3. CASE ~(off < 0 \/ off >= Len(ws))
  <2>1. off + 1 \in 1 .. Len(ws)
    BY <1>1, <1>3
  <2>2. w.tag \in Tags /\ tag_words(w) \in Nat \ {0}
    BY <1>1, <2>1
  <2>3. fdt_next_tag(b, off) =
           IF w.tag = "CONT" \/ off + tag_words(w) > Len(ws)
           THEN [tag |-> "END", next |-> -FDT_ERR_BADSTRUCTURE]
           ELSE [tag |-> w.tag, next |-> off + tag_words(w)]
    BY <1>3 DEF fdt_next_tag, At
  <2>4. CASE w.tag = "CONT" \/ off + tag_words(w) > Len(ws)
    BY <2>3, <2>4 DEF Answers, FDT_ERR_BADSTRUCTURE
  <2>5. CASE ~(w.tag = "CONT" \/ off + tag_words(w) > Len(ws))
    <3>1. fdt_next_tag(b, off).tag = w.tag
          /\ fdt_next_tag(b, off).next = off + tag_words(w)
      BY <2>3, <2>5
    <3>2. w = At(b, off) /\ off \in 0 .. Len(b.words) - 1
      BY <2>1, <1>1 DEF At
    <3>3. off + tag_words(w) \in off + 1 .. Len(ws)
      BY <1>1, <2>2, <2>5
    <3> HIDE DEF w
    <3> QED
      BY <2>2, <2>5, <3>1, <3>2, <3>3 DEF Answers, Tags
  <2> QED
    BY <2>4, <2>5
<1> QED
  BY <1>2, <1>3

\* A set of offsets that the tags of that kind do not lead out of.
Closed(b, Q, tags) ==
    \A q \in Q : fdt_next_tag(b, q).tag \in tags => fdt_next_tag(b, q).next \in Q

\* The NOPs that lead from off to the tag where the search ends.
LEMMA NextPropStops ==
    ASSUME NEW b, Block(b.words), NEW off \in Nat,
           NEW Q, off \in Q, Closed(b, Q, {"NOP"})
    PROVE  \E q \in Q : /\ q \in Nat /\ q >= off /\ fdt_next_tag(b, q).tag # "NOP"
                        /\ nextprop(b, off) = property_or_end(q, fdt_next_tag(b, q))
<1> DEFINE t(o) == fdt_next_tag(b, o)
           n == Len(b.words)
           stop(o) == property_or_end(o, t(o))
           Stop == {o \in Nat : t(o).tag # "NOP"}
           out == [o \in Nat |-> IF o \in Stop THEN stop(o) ELSE 0]
           go == [o \in Nat |-> IF t(o).tag = "NOP" THEN t(o).next ELSE o]
           rank == [o \in Nat |-> IF o < n THEN n - o ELSE 0]
           Eq(f) == f = [o \in Nat |-> IF t(o).tag = "NOP" THEN f[t(o).next]
                                       ELSE stop(o)]
           F == CHOOSE f : Eq(f)
<1>0. n \in Nat
  BY BlockMeans
<1>1. \A o \in Nat : Answers(b, o, t(o))
  BY NextTag
<1>2. \A o \in Nat : \/ t(o).tag \in {"BEGIN", "END_NODE", "PROP"}
                     \/ /\ t(o).tag = "NOP" /\ t(o).next \in o + 1 .. n
                        /\ o < n
                     \/ t(o).tag = "END" /\ t(o).next \in Int
  BY <1>0, <1>1 DEF Answers
<1> HIDE DEF t, n
<1>2a. \A o \in Nat : t(o).tag # "NOP" => stop(o) \in Int
  <2>1. -FDT_ERR_BADSTRUCTURE \in Int /\ -FDT_ERR_NOTFOUND \in Int
    BY DEF FDT_ERR_BADSTRUCTURE, FDT_ERR_NOTFOUND
  <2> HIDE DEF FDT_ERR_BADSTRUCTURE, FDT_ERR_NOTFOUND
  <2> QED
    BY <1>2, <2>1 DEF property_or_end
<1> HIDE DEF stop
<1>3. out \in [Nat -> Int] /\ go \in [Nat -> Nat] /\ rank \in [Nat -> Nat]
  <2>1. ASSUME NEW o \in Nat PROVE out[o] \in Int
    BY <1>2a
  <2>2. ASSUME NEW o \in Nat PROVE go[o] \in Nat
    BY <1>0, <1>2
  <2>3. ASSUME NEW o \in Nat PROVE rank[o] \in Nat
    BY <1>0
  <2> QED
    BY <2>1, <2>2, <2>3
<1>4. \A o \in Nat : o \notin Stop => rank[go[o]] < rank[o]
  <2>1. ASSUME NEW o \in Nat, o \notin Stop PROVE rank[go[o]] < rank[o]
    <3>1. t(o).tag = "NOP"
      BY <2>1
    <3>2. go[o] = t(o).next /\ t(o).next \in o + 1 .. n /\ o < n
      BY <1>2, <3>1
    <3> QED
      BY <1>0, <3>2
  <2> QED
    BY <2>1
<1>5. PICK f : Loop(f, Nat, Stop, out, go)
  <2> HIDE DEF Stop, out, go, rank
  <2> QED
    BY <1>3, <1>4, LoopExists, Zenon
<1>6. Eq(f)
  <2>1. ASSUME NEW o \in Nat
        PROVE  (IF o \in Stop THEN out[o] ELSE f[go[o]]) =
               (IF t(o).tag = "NOP" THEN f[t(o).next] ELSE stop(o))
    OBVIOUS
  <2> QED
    BY <1>5, <2>1 DEF Loop
<1>7. Eq(F)
  BY <1>6
<1>8. nextprop(b, off) = F[off]
  BY DEF nextprop, t, stop
<1> DEFINE Found(o) == \E q \in Q : /\ q \in Nat /\ q >= o /\ t(q).tag # "NOP"
                                    /\ F[o] = stop(q)
           T == {o \in Nat : o \in Q => Found(o)}
<1>9. \A o \in Nat : F[o] = IF t(o).tag = "NOP" THEN F[t(o).next] ELSE stop(o)
  BY <1>7
<1> HIDE DEF F, Eq, out, go, Stop
<1>10. \A o \in Nat : (\A p \in Nat : rank[p] < rank[o] => p \in T) => o \in T
  <2> SUFFICES ASSUME NEW o \in Nat, o \in Q,
                      \A p \in Nat : rank[p] < rank[o] => p \in T
               PROVE  Found(o)
    BY Zenon
  <2>1. CASE t(o).tag = "NOP"
    <3>1. t(o).next \in o + 1 .. n /\ o < n /\ t(o).next \in Q
      BY <1>2, <2>1 DEF Closed, t
    <3>2. F[o] = F[t(o).next]
      BY <1>9, <2>1
    <3>3. t(o).next \in Nat /\ rank[t(o).next] < rank[o]
      BY <1>0, <3>1
    <3>4. Found(t(o).next)
      BY <3>1, <3>3
    <3> QED
      BY <3>1, <3>2, <3>4
  <2>2. CASE t(o).tag # "NOP"
    BY <1>9, <2>2
  <2> QED
    BY <2>1, <2>2
<1>11. \A o \in Nat : o \in T
  <2>1. rank \in [Nat -> Nat]
    BY <1>3
  <2> HIDE DEF T, rank
  <2> QED
    BY <2>1, <1>10, LoopInduction
<1> QED
  BY <1>8, <1>11 DEF t, stop

\* They lead to a property, or the search fails.
LEMMA NextProp ==
    ASSUME NEW b, Block(b.words), NEW off \in Nat,
           NEW Q, off \in Q, Closed(b, Q, {"NOP"})
    PROVE  /\ nextprop(b, off) \in Int
           /\ nextprop(b, off) >= 0 =>
                 /\ nextprop(b, off) \in Q /\ nextprop(b, off) >= off
                 /\ fdt_next_tag(b, nextprop(b, off)).tag = "PROP"
<1>1. PICK q \in Q : /\ q \in Nat /\ q >= off /\ fdt_next_tag(b, q).tag # "NOP"
                     /\ nextprop(b, off) = property_or_end(q, fdt_next_tag(b, q))
  BY NextPropStops
<1> DEFINE t == fdt_next_tag(b, q)
<1>2. t.tag \in {"BEGIN", "END_NODE", "PROP"} \/ (t.tag = "END" /\ t.next \in Int)
  BY <1>1, NextTag DEF Answers
<1> HIDE DEF t
<1>3. /\ t.tag = "PROP" => property_or_end(q, t) = q
      /\ t.tag # "PROP" => property_or_end(q, t) \in Int /\ property_or_end(q, t) < 0
  BY <1>2 DEF property_or_end, FDT_ERR_BADSTRUCTURE, FDT_ERR_NOTFOUND
<1> QED
  BY <1>1, <1>3 DEF t

LEMMA SpotFields ==
    ASSUME NEW o \in Int, NEW d \in Int
    PROVE  Spot(o, d) \in Spots /\ Spot(o, d).off = o /\ Spot(o, d).depth = d
BY DEF Spot, Spots

LEMMA SpotIs ==
    ASSUME NEW n \in Spots
    PROVE  n.off \in Int /\ n.depth \in Int /\ n = Spot(n.off, n.depth)
BY DEF Spot, Spots

\* How the loop of fdt_next_node ends: at a node, behind the end of the node it
\* started in, or with an error.
Arrives(b, q, r) ==
    LET t == fdt_next_tag(b, q.off)
    IN  \/ t.tag = "BEGIN" /\ r = Spot(q.off, q.depth + 1)
        \/ t.tag = "END_NODE" /\ q.depth = 0 /\ r = Spot(t.next, -1)
        \/ t.tag = "END" /\ r \in Spots /\ r.off < 0 /\ r.depth = q.depth

ArrivesFrom(b, Q, r) == \E q \in Q : Arrives(b, q, r)

\* A set of places that it does not leave while it goes on.
GoesOnIn(b, Q) ==
    /\ Q \subseteq Spots
    /\ \A q \in Q : LET t == fdt_next_tag(b, q.off)
                    IN  /\ t.tag = "END_NODE" /\ q.depth # 0
                               => Spot(t.next, q.depth - 1) \in Q
                        /\ t.tag \in {"PROP", "NOP"} => Spot(t.next, q.depth) \in Q

LEMMA NextNodeFrom ==
    ASSUME NEW b, Block(b.words), NEW Q, GoesOnIn(b, Q), NEW spot \in Q
    PROVE  ArrivesFrom(b, Q, next_node_from(b, spot))
<1> DEFINE t(n) == fdt_next_tag(b, n.off)
           N == Len(b.words)
           stop(n) == CASE t(n).tag = "BEGIN" -> Spot(n.off, n.depth + 1)
                        [] t(n).tag = "END_NODE" -> Spot(t(n).next, -1)
                        [] t(n).tag = "END" ->
                             Spot(IF t(n).next >= 0 THEN -FDT_ERR_NOTFOUND
                                  ELSE t(n).next, n.depth)
           Up(n) == t(n).tag = "END_NODE" /\ n.depth # 0
           Over(n) == t(n).tag \in {"PROP", "NOP"}
           Stop == {n \in Spots : ~Up(n) /\ ~Over(n)}
           out == [n \in Spots |-> IF n \in Stop THEN stop(n) ELSE n]
           go == [n \in Spots |->
                    IF Up(n) THEN Spot(t(n).next, n.depth - 1)
                    ELSE IF Over(n) THEN Spot(t(n).next, n.depth) ELSE n]
           rank == [n \in Spots |-> IF n.off \in 0 .. N THEN N - n.off ELSE 0]
           Eq(f) == f = [n \in Spots |->
                           IF Up(n) THEN f[Spot(t(n).next, n.depth - 1)]
                           ELSE IF Over(n) THEN f[Spot(t(n).next, n.depth)]
                           ELSE stop(n)]
           F == CHOOSE f : Eq(f)
<1>0. N \in Nat
  BY BlockMeans
<1>1. ASSUME NEW n \in Spots
      PROVE  /\ \/ t(n).tag = "END" /\ t(n).next \in Int
                \/ /\ t(n).tag \in {"BEGIN", "END_NODE", "PROP", "NOP"}
                   /\ t(n).next \in n.off + 1 .. N /\ n.off \in 0 .. N
             /\ n.off \in Int /\ n.depth \in Int
  <2>1. n.off \in Int /\ n.depth \in Int
    BY SpotIs
  <2>2. Answers(b, n.off, t(n))
    BY <2>1, NextTag
  <2> HIDE DEF t
  <2> QED
    BY <1>0, <2>1, <2>2 DEF Answers
<1> HIDE DEF t, N
<1>2. ASSUME NEW n \in Stop
      PROVE  stop(n) \in Spots /\ Arrives(b, n, stop(n))
  <2>0. n \in Spots /\ n.depth \in Int /\ n.off \in Int
    BY <1>1
  <2>1. CASE t(n).tag = "BEGIN"
    <3>1. stop(n) = Spot(n.off, n.depth + 1)
      BY <2>1
    <3> HIDE DEF stop
    <3> QED
      BY <2>0, <2>1, <3>1, SpotFields DEF Arrives, t
  <2>2. CASE t(n).tag = "END_NODE"
    <3>1. stop(n) = Spot(t(n).next, -1) /\ n.depth = 0 /\ t(n).next \in Int
      BY <1>1, <2>0, <2>2
    <3>2. -1 \in Int
      OBVIOUS
    <3>3. Spot(t(n).next, -1) \in Spots
      BY <3>1, <3>2, SpotFields
    <3> HIDE DEF stop
    <3> QED
      BY <2>0, <2>2, <3>1, <3>3 DEF Arrives, t
  <2>3. CASE t(n).tag = "END"
    <3> DEFINE e == IF t(n).next >= 0 THEN -FDT_ERR_NOTFOUND ELSE t(n).next
    <3>1. stop(n) = Spot(e, n.depth)
      BY <2>3
    <3>2. e \in Int /\ e < 0
      BY <1>1, <2>0, <2>3 DEF FDT_ERR_NOTFOUND
    <3> HIDE DEF stop, e
    <3>3. stop(n) \in Spots /\ stop(n).off = e /\ stop(n).depth = n.depth
      BY <2>0, <3>1, <3>2, SpotFields
    <3> QED
      BY <2>0, <2>3, <3>2, <3>3 DEF Arrives, t
  <2> QED
    BY <1>1, <2>0, <2>1, <2>2, <2>3
<1> HIDE DEF stop
<1>3. /\ out \in [Spots -> Spots] /\ go \in [Spots -> Spots]
      /\ rank \in [Spots -> Nat]
  <2>1. ASSUME NEW n \in Spots PROVE out[n] \in Spots
    BY <1>2
  <2>2. ASSUME NEW n \in Spots PROVE go[n] \in Spots
    <3>1. Up(n) \/ Over(n) => t(n).next \in Int /\ n.depth - 1 \in Int
                              /\ n.depth \in Int
      BY <1>1
    <3> HIDE DEF Up, Over
    <3> QED
      BY <3>1, SpotFields
  <2>3. ASSUME NEW n \in Spots PROVE rank[n] \in Nat
    BY <1>0, <1>1
  <2> QED
    BY <2>1, <2>2, <2>3
<1>4. ASSUME NEW n \in Spots, n \notin Stop
      PROVE  /\ rank[go[n]] < rank[n] /\ go[n] \in Spots
             /\ n \in Q => go[n] \in Q
  <2>0. /\ t(n).next \in n.off + 1 .. N /\ n.off \in 0 .. N
        /\ n.off \in Int /\ n.depth \in Int
    BY <1>1, <1>4
  <2>1. go[n] \in Spots /\ go[n].off = t(n).next
    <3>1. CASE Up(n)
      BY <2>0, <3>1, SpotFields
    <3>2. CASE Over(n)
      BY <2>0, <3>2, SpotFields
    <3> QED
      BY <1>4, <3>1, <3>2
  <2>2. n \in Q => go[n] \in Q
    BY <1>4 DEF GoesOnIn, t
  <2>3. rank[go[n]] = N - t(n).next /\ rank[n] = N - n.off
    <3> HIDE DEF go
    <3> QED
      BY <1>0, <2>0, <2>1
  <2> HIDE DEF go, rank
  <2> QED
    BY <1>0, <2>0, <2>1, <2>2, <2>3
<1>5. PICK f : Loop(f, Spots, Stop, out, go)
  <2>1. \A n \in Spots : n \notin Stop => rank[go[n]] < rank[n]
    BY <1>4
  <2> HIDE DEF Stop, out, go, rank
  <2> QED
    BY <1>3, <2>1, LoopExists, Zenon
<1>6. Eq(f)
  <2>1. ASSUME NEW n \in Spots
        PROVE  (IF n \in Stop THEN out[n] ELSE f[go[n]]) =
               (IF Up(n) THEN f[Spot(t(n).next, n.depth - 1)]
                ELSE IF Over(n) THEN f[Spot(t(n).next, n.depth)] ELSE stop(n))
    OBVIOUS
  <2> QED
    BY <1>5, <2>1 DEF Loop
<1>7. Eq(F)
  BY <1>6
<1>8. next_node_from(b, spot) = F[spot]
  BY DEF next_node_from, node_or_end, t, stop
<1>9. \A n \in Spots : F[n] = IF n \in Stop THEN stop(n) ELSE F[go[n]]
  BY <1>7
<1> DEFINE T == {n \in Spots : n \in Q => ArrivesFrom(b, Q, F[n])}
<1> HIDE DEF F, Eq, out, go, Stop
<1>10. \A n \in Spots : (\A m \in Spots : rank[m] < rank[n] => m \in T) => n \in T
  <2> HIDE DEF rank
  <2> SUFFICES ASSUME NEW n \in Spots, n \in Q,
                      \A m \in Spots : rank[m] < rank[n] => m \in T
               PROVE  ArrivesFrom(b, Q, F[n])
    BY Zenon
  <2>1. CASE n \in Stop
    BY <1>2, <1>9, <2>1 DEF ArrivesFrom
  <2>2. CASE n \notin Stop
    BY <1>4, <1>9, <2>2
  <2> QED
    BY <2>1, <2>2
<1>11. \A n \in Spots : n \in T
  <2>1. rank \in [Spots -> Nat]
    BY <1>3
  <2> HIDE DEF T, rank
  <2> QED
    BY <2>1, <1>10, LoopInduction
<1>12. spot \in Spots
  BY DEF GoesOnIn
<1> QED
  BY <1>8, <1>11, <1>12

\* A node, and what is behind its BEGIN tag.
IsNode(b, off, next) ==
    /\ off \in 0 .. Len(b.words) - 1 /\ At(b, off).tag = "BEGIN"
    /\ fdt_next_tag(b, off).tag = "BEGIN" /\ fdt_next_tag(b, off).next = next
    /\ next = off + tag_words(At(b, off)) /\ next \in off + 1 .. Len(b.words)

LEMMA CheckNode ==
    ASSUME NEW b, Block(b.words), NEW off \in Int
    PROVE  \/ fdt_check_node_offset(b, off) = -FDT_ERR_BADOFFSET
           \/ IsNode(b, off, fdt_check_node_offset(b, off))
<1> DEFINE t == fdt_next_tag(b, off)
<1>1. Answers(b, off, t)
  BY NextTag
<1>2. fdt_check_node_offset(b, off) =
         IF off < 0 \/ t.tag # "BEGIN" THEN -FDT_ERR_BADOFFSET ELSE t.next
  BY DEF fdt_check_node_offset
<1> HIDE DEF t
<1> QED
  BY <1>1, <1>2 DEF Answers, IsNode, t

\* From one node to the next, or out of the node where the loop began.
LEMMA NextNode ==
    ASSUME NEW b, Block(b.words), NEW off \in Nat, NEW depth \in Int,
           NEW Q, GoesOnIn(b, Q),
           \A next \in Int : IsNode(b, off, next) => Spot(next, depth) \in Q
    PROVE  \/ fdt_next_node(b, off, depth) = Spot(-FDT_ERR_BADOFFSET, depth)
           \/ /\ \E next \in Int : IsNode(b, off, next)
              /\ ArrivesFrom(b, Q, fdt_next_node(b, off, depth))
<1> DEFINE next == fdt_check_node_offset(b, off)
<1>1. next = -FDT_ERR_BADOFFSET \/ IsNode(b, off, next)
  BY CheckNode
<1>2. fdt_next_node(b, off, depth) =
         IF next < 0 THEN Spot(next, depth)
         ELSE next_node_from(b, Spot(next, depth))
  BY DEF fdt_next_node
<1> HIDE DEF next
<1>3. CASE next = -FDT_ERR_BADOFFSET
  BY <1>2, <1>3 DEF FDT_ERR_BADOFFSET
<1>4. CASE IsNode(b, off, next)
  <2>1. next \in Int /\ ~(next < 0)
    <3>1. Len(b.words) \in Nat
      BY BlockMeans
    <3> QED
      BY <1>4, <3>1 DEF IsNode
  <2>2. Spot(next, depth) \in Q
    BY <1>4, <2>1
  <2>3. ArrivesFrom(b, Q, next_node_from(b, Spot(next, depth)))
    BY <2>2, NextNodeFrom
  <2> QED
    BY <1>2, <1>4, <2>1, <2>3
<1> QED
  BY <1>1, <1>3, <1>4

\* From a node it never fails at once.
LEMMA NextNodeOf ==
    ASSUME NEW b, Block(b.words), NEW off \in Nat, NEW depth \in Int,
           NEW Q, GoesOnIn(b, Q), NEW next, IsNode(b, off, next),
           Spot(next, depth) \in Q
    PROVE  ArrivesFrom(b, Q, fdt_next_node(b, off, depth))
<1>1. fdt_check_node_offset(b, off) = next /\ next >= 0
  BY BlockMeans DEF IsNode, fdt_check_node_offset
<1>2. fdt_next_node(b, off, depth) = next_node_from(b, Spot(next, depth))
  <2>1. ~(off < 0) /\ ~(next < 0)
    BY <1>1, BlockMeans DEF IsNode
  <2> QED
    BY <1>1, <2>1 DEF fdt_next_node
<1> QED
  BY <1>2, NextNodeFrom

\* It goes up in the block, or ends with an error.
LEMMA NextNodeUp ==
    ASSUME NEW b, Block(b.words), NEW off \in Nat, NEW depth \in Int
    PROVE  LET r == fdt_next_node(b, off, depth)
           IN  r \in Spots /\ (r.off < 0 \/ r.off \in off + 1 .. Len(b.words))
<1> DEFINE Q == {n \in Spots : n.off \in off + 1 .. Len(b.words)}
           r == fdt_next_node(b, off, depth)
           Good(n) == n \in Spots /\ (n.off < 0 \/ n.off \in off + 1 .. Len(b.words))
<1>0. Len(b.words) \in Nat
  BY BlockMeans
<1>1. GoesOnIn(b, Q)
  <2>1. ASSUME NEW q \in Q, fdt_next_tag(b, q.off).tag # "END"
        PROVE  \A d \in Int : Spot(fdt_next_tag(b, q.off).next, d) \in Q
    <3>1. q.off \in Int /\ Answers(b, q.off, fdt_next_tag(b, q.off))
      BY SpotIs, NextTag
    <3>2. fdt_next_tag(b, q.off).next \in off + 1 .. Len(b.words)
      BY <1>0, <2>1, <3>1 DEF Answers
    <3> QED
      BY <1>0, <3>2, SpotFields
  <2>2. ASSUME NEW q \in Q PROVE q.depth \in Int /\ q.depth - 1 \in Int
    BY SpotIs
  <2> HIDE DEF Q
  <2>3. Q \subseteq Spots
    BY DEF Q
  <2> QED
    BY <2>1, <2>2, <2>3 DEF GoesOnIn
<1>2. \A next \in Int : IsNode(b, off, next) => Spot(next, depth) \in Q
  BY <1>0, SpotFields DEF IsNode
<1>3. r = Spot(-FDT_ERR_BADOFFSET, depth) \/ ArrivesFrom(b, Q, r)
  <2> HIDE DEF Q
  <2> QED
    BY <1>1, <1>2, NextNode
<1>4. CASE r = Spot(-FDT_ERR_BADOFFSET, depth)
  <2>1. -FDT_ERR_BADOFFSET \in Int /\ -FDT_ERR_BADOFFSET < 0
    BY DEF FDT_ERR_BADOFFSET
  <2> HIDE DEF r, FDT_ERR_BADOFFSET
  <2> QED
    BY <1>4, <2>1, SpotFields DEF r
<1>5. CASE ArrivesFrom(b, Q, r)
  <2>1. PICK q \in Q : Arrives(b, q, r)
    BY <1>5 DEF ArrivesFrom
  <2>2. q.off \in Int /\ q.depth \in Int /\ q.depth + 1 \in Int /\ -1 \in Int
        /\ q.off \in off + 1 .. Len(b.words)
    BY SpotIs
  <2>3. Answers(b, q.off, fdt_next_tag(b, q.off))
    BY <2>2, NextTag
  <2> HIDE DEF r, Q
  <2>4. CASE fdt_next_tag(b, q.off).tag = "BEGIN"
    BY <2>1, <2>2, <2>4, SpotFields DEF Arrives, r
  <2>5. CASE fdt_next_tag(b, q.off).tag = "END_NODE"
    <3>1. fdt_next_tag(b, q.off).next \in off + 1 .. Len(b.words)
      BY <1>0, <2>2, <2>3, <2>5 DEF Answers
    <3>2. r = Spot(fdt_next_tag(b, q.off).next, -1)
      BY <2>1, <2>5 DEF Arrives
    <3> QED
      BY <1>0, <2>2, <3>1, <3>2, SpotFields DEF r
  <2>6. CASE fdt_next_tag(b, q.off).tag = "END"
    BY <2>1, <2>6 DEF Arrives, r
  <2> QED
    BY <2>1, <2>4, <2>5, <2>6 DEF Arrives
<1> QED
  BY <1>3, <1>4, <1>5

\* What a loop from node to node of a place in a block never leaves.
NodesIn(b, P) ==
    /\ P \subseteq Spots
    /\ \A n \in P : n.off >= 0 /\ n.depth >= 0
                       => fdt_next_node(b, n.off, n.depth) \in P

\* The same until a stop is reached.
NodesUntil(b, P, Stop) ==
    /\ P \subseteq Spots
    /\ \A n \in P : n \notin Stop => fdt_next_node(b, n.off, n.depth) \in P

NodeSteps(b) == [n \in Spots |-> IF n.off < 0 THEN n
                                 ELSE fdt_next_node(b, n.off, n.depth)]

\* A loop over Spots has an end, which is a stop in P.
EndsIn(P, Stop, out, go, start) ==
    /\ \E f : Loop(f, Spots, Stop, out, go)
    /\ \A f : Loop(f, Spots, Stop, out, go) =>
                 \E n \in P : n \in Stop /\ f[start] = out[n]

\* Where such a loop ends that goes on at most while there is no error and the
\* node it began in is not left.
LEMMA NodeLoop ==
    ASSUME NEW b, Block(b.words), NEW Stop, NEW P, NodesUntil(b, P, Stop), NEW R,
           NEW out \in [Spots -> R], NEW start \in P,
           \A n \in Spots : n.off < 0 \/ n.depth < 0 => n \in Stop
    PROVE  EndsIn(P, Stop, out, NodeSteps(b), start)
<1> DEFINE N == Len(b.words)
           go == NodeSteps(b)
           rank == [n \in Spots |-> IF n.off < 0 THEN 0
                                    ELSE IF n.off < N THEN N + 1 - n.off ELSE 1]
<1>0. N \in Nat
  BY BlockMeans
<1>1. ASSUME NEW n \in Spots
      PROVE  /\ n.off \in Int /\ n.depth \in Int
             /\ n.off >= 0 =>
                   LET r == fdt_next_node(b, n.off, n.depth)
                   IN  /\ r \in Spots /\ r.off \in Int
                       /\ r.off < 0 \/ r.off \in n.off + 1 .. N
  <2>1. n.off \in Int /\ n.depth \in Int
    BY SpotIs
  <2>2. n.off >= 0 => LET r == fdt_next_node(b, n.off, n.depth)
                      IN  r \in Spots /\ (r.off < 0 \/ r.off \in n.off + 1 .. N)
    BY <2>1, NextNodeUp
  <2> QED
    BY <2>1, <2>2, SpotIs
<1>2. go \in [Spots -> Spots] /\ rank \in [Spots -> Nat]
  <2>1. ASSUME NEW n \in Spots PROVE go[n] \in Spots
    BY <1>1 DEF NodeSteps
  <2>2. ASSUME NEW n \in Spots PROVE rank[n] \in Nat
    BY <1>0, <1>1
  <2> QED
    BY <2>1, <2>2 DEF NodeSteps
<1>3. ASSUME NEW n \in Spots, n \notin Stop
      PROVE  rank[go[n]] < rank[n] /\ go[n] \in Spots /\ (n \in P => go[n] \in P)
  <2> DEFINE r == fdt_next_node(b, n.off, n.depth)
  <2>1. n.off >= 0 /\ n.depth >= 0 /\ n.off \in Int
    BY <1>1, <1>3
  <2>2. go[n] = r
    BY <2>1 DEF NodeSteps
  <2>3. r \in Spots /\ r.off \in Int /\ (r.off < 0 \/ r.off \in n.off + 1 .. N)
    BY <1>1, <2>1
  <2>4. n \in P => r \in P
    BY <1>3 DEF NodesUntil
  <2> HIDE DEF r, N
  <2>5. rank[r] < rank[n]
    BY <1>0, <2>1, <2>3
  <2> QED
    BY <2>2, <2>3, <2>4, <2>5
<1> HIDE DEF rank, go
<1>4. \E f : Loop(f, Spots, Stop, out, go)
  <2>1. \A n \in Spots : n \notin Stop => rank[go[n]] < rank[n]
    BY <1>3
  <2> QED
    BY <1>2, <2>1, LoopExists, Zenon
<1>5. ASSUME NEW f, Loop(f, Spots, Stop, out, go)
      PROVE  \E n \in P : n \in Stop /\ f[start] = out[n]
  <2> DEFINE T == {n \in Spots : n \in P =>
                                    \E m \in P : m \in Stop /\ f[n] = out[m]}
  <2>1. \A n \in Spots : f[n] = IF n \in Stop THEN out[n] ELSE f[go[n]]
    BY <1>5 DEF Loop
  <2>2. \A n \in Spots : (\A m \in Spots : rank[m] < rank[n] => m \in T) => n \in T
    <3> SUFFICES ASSUME NEW n \in Spots, n \in P,
                        \A m \in Spots : rank[m] < rank[n] => m \in T
                 PROVE  \E m \in P : m \in Stop /\ f[n] = out[m]
      BY Zenon
    <3>1. CASE n \in Stop
      BY <2>1, <3>1
    <3>2. CASE n \notin Stop
      <4>1. f[n] = f[go[n]]
        BY <2>1, <3>2
      <4>2. go[n] \in T /\ go[n] \in P
        BY <1>3, <3>2
      <4> QED
        BY <4>1, <4>2
    <3> QED
      BY <3>1, <3>2
  <2>3. \A n \in Spots : n \in T
    <3> HIDE DEF T
    <3> QED
      BY <1>2, <2>2, LoopInduction
  <2> QED
    BY <2>3 DEF NodesUntil
<1> QED
  BY <1>4, <1>5 DEF EndsIn, go

LEMMA NodeEnd ==
    ASSUME NEW b, Block(b.words), NEW P, NodesIn(b, P),
           NEW off \in Int, Spot(off, 0) \in P
    PROVE  \E n \in P : /\ n.off < 0 \/ n.depth < 0
                        /\ fdt_node_end_offset(b, off) = n.off
<1> DEFINE Stop == {n \in Spots : n.off < 0 \/ n.depth < 0}
           out == [n \in Spots |-> n.off]
           go == NodeSteps(b)
           Eq(f) == f = [n \in Spots |->
                           IF n.off < 0 \/ n.depth < 0 THEN n.off
                           ELSE f[fdt_next_node(b, n.off, n.depth)]]
           F == CHOOSE f : Eq(f)
<1>1. out \in [Spots -> Int]
  BY SpotIs
<1>2. ASSUME NEW f PROVE Loop(f, Spots, Stop, out, go) <=> Eq(f)
  <2>1. ASSUME NEW n \in Spots
        PROVE  (IF n \in Stop THEN out[n] ELSE f[go[n]]) =
               (IF n.off < 0 \/ n.depth < 0 THEN n.off
                ELSE f[fdt_next_node(b, n.off, n.depth)])
    BY DEF NodeSteps
  <2> HIDE DEF Stop, out, go
  <2> QED
    BY <2>1 DEF Loop
<1>3. fdt_node_end_offset(b, off) = F[Spot(off, 0)]
  BY DEF fdt_node_end_offset
<1>4. EndsIn(P, Stop, out, go, Spot(off, 0))
  <2>1. \A n \in Spots : n.off < 0 \/ n.depth < 0 => n \in Stop
    OBVIOUS
  <2>2. NodesUntil(b, P, Stop)
    <3>1. ASSUME NEW n \in P, n \notin Stop PROVE n.off >= 0 /\ n.depth >= 0
      <4>1. n \in Spots
        BY DEF NodesIn
      <4> QED
        BY <3>1, <4>1, SpotIs
    <3> HIDE DEF Stop
    <3> QED
      BY <3>1 DEF NodesIn, NodesUntil
  <2> HIDE DEF Stop, out
  <2> QED
    BY <1>1, <2>1, <2>2, NodeLoop, Zenon
<1> HIDE DEF Eq, go
<1>5. Eq(F)
  BY <1>2, <1>4 DEF EndsIn
<1>6. PICK n \in P : n \in Stop /\ F[Spot(off, 0)] = out[n]
  BY <1>2, <1>4, <1>5 DEF EndsIn
<1> QED
  BY <1>3, <1>6 DEF NodesIn

\* A child with that name.
NamedAt(b, n, name) == n.depth = 1 /\ fdt_nodename_eq(b, n.off, name)

\* What fdt_subnode_offset has found where its loop ends.
FoundAt(n, r) ==
    \/ n.depth < 0 /\ r = -FDT_ERR_NOTFOUND
    \/ n.depth >= 0 /\ n.off < 0 /\ r = n.off
    \/ n.depth = 1 /\ n.off >= 0 /\ r = n.off

LEMMA SubnodeSearch ==
    ASSUME NEW b, Block(b.words), NEW P, NEW name, P \subseteq Spots,
           \A n \in P : n.off >= 0 /\ n.depth >= 0 /\ ~NamedAt(b, n, name)
                            => fdt_next_node(b, n.off, n.depth) \in P,
           NEW parent \in Int, Spot(parent, 0) \in P
    PROVE  \E n \in P : FoundAt(n, fdt_subnode_offset(b, parent, name))
<1> DEFINE Stop == {n \in Spots : n.depth < 0 \/ n.off < 0 \/ NamedAt(b, n, name)}
           out == [n \in Spots |-> IF n.depth < 0 THEN -FDT_ERR_NOTFOUND ELSE n.off]
           go == NodeSteps(b)
           Eq(f) == f = [n \in Spots |->
                           IF n.depth < 0 THEN -FDT_ERR_NOTFOUND
                           ELSE IF n.off < 0 \/ NamedAt(b, n, name) THEN n.off
                           ELSE f[fdt_next_node(b, n.off, n.depth)]]
           F == CHOOSE f : Eq(f)
<1>1. out \in [Spots -> Int]
  BY SpotIs DEF FDT_ERR_NOTFOUND
<1>2. ASSUME NEW f PROVE Loop(f, Spots, Stop, out, go) <=> Eq(f)
  <2>1. ASSUME NEW n \in Spots
        PROVE  (IF n \in Stop THEN out[n] ELSE f[go[n]]) =
               (IF n.depth < 0 THEN -FDT_ERR_NOTFOUND
                ELSE IF n.off < 0 \/ NamedAt(b, n, name) THEN n.off
                ELSE f[fdt_next_node(b, n.off, n.depth)])
    BY DEF NodeSteps
  <2> HIDE DEF Stop, out, go
  <2> QED
    BY <2>1 DEF Loop
<1>3. fdt_subnode_offset(b, parent, name) = F[Spot(parent, 0)]
  BY DEF fdt_subnode_offset, NamedAt
<1>4. EndsIn(P, Stop, out, go, Spot(parent, 0))
  <2>1. \A n \in Spots : n.off < 0 \/ n.depth < 0 => n \in Stop
    OBVIOUS
  <2>2. NodesUntil(b, P, Stop)
    <3>1. ASSUME NEW n \in P, n \notin Stop
          PROVE  n.off >= 0 /\ n.depth >= 0 /\ ~NamedAt(b, n, name)
      <4>1. n \in Spots
        OBVIOUS
      <4> QED
        BY <3>1, <4>1, SpotIs
    <3> HIDE DEF Stop
    <3> QED
      BY <3>1 DEF NodesUntil
  <2> HIDE DEF Stop, out
  <2> QED
    BY <1>1, <2>1, <2>2, NodeLoop, Zenon
<1> HIDE DEF Eq, go
<1>5. Eq(F)
  BY <1>2, <1>4 DEF EndsIn
<1>6. PICK n \in P : n \in Stop /\ F[Spot(parent, 0)] = out[n]
  BY <1>2, <1>4, <1>5 DEF EndsIn
<1>7. n \in Spots /\ n.off \in Int /\ n.depth \in Int
  BY <1>6, SpotIs
<1>8. n.depth < 0 \/ n.off < 0 \/ n.depth = 1
  BY <1>6 DEF NamedAt
<1>9. out[n] = IF n.depth < 0 THEN -FDT_ERR_NOTFOUND ELSE n.off
  BY <1>7
<1> HIDE DEF out, Stop, F
<1>10. FoundAt(n, out[n])
  BY <1>7, <1>8, <1>9 DEF FoundAt
<1> QED
  BY <1>3, <1>6, <1>10

LEMMA SubnodeOffset ==
    ASSUME NEW b, Block(b.words), NEW P, NodesIn(b, P), NEW name,
           NEW parent \in Int, Spot(parent, 0) \in P
    PROVE  \E n \in P : FoundAt(n, fdt_subnode_offset(b, parent, name))
BY SubnodeSearch DEF NodesIn

\* Any of its answers is a number, and it misses a subnode only of a node.
LEMMA SubnodeMissing ==
    ASSUME NEW b, Block(b.words), NEW name, NEW parent \in Int
    PROVE  /\ fdt_subnode_offset(b, parent, name) \in Int
           /\ parent >= 0 /\ fdt_subnode_offset(b, parent, name) = -FDT_ERR_NOTFOUND
                 => \E next \in Int : IsNode(b, parent, next)
<1> DEFINE r == fdt_subnode_offset(b, parent, name)
<1>1. r \in Int
  <2>1. NodesIn(b, Spots)
    <3>1. ASSUME NEW n \in Spots, n.off >= 0
          PROVE  fdt_next_node(b, n.off, n.depth) \in Spots
      <4>1. n.off \in Nat /\ n.depth \in Int
        BY <3>1, SpotIs
      <4> QED
        BY <4>1, NextNodeUp
    <3> QED
      BY <3>1 DEF NodesIn
  <2>2. Spot(parent, 0) \in Spots
    BY SpotFields
  <2>3. PICK n \in Spots : FoundAt(n, r)
    BY <2>1, <2>2, SubnodeOffset
  <2> HIDE DEF r
  <2> QED
    BY <2>3, SpotIs DEF FoundAt, FDT_ERR_NOTFOUND
<1>2. ASSUME parent >= 0, \A next \in Int : ~IsNode(b, parent, next)
      PROVE  r # -FDT_ERR_NOTFOUND
  <2> DEFINE e == -FDT_ERR_BADOFFSET
             P == {Spot(parent, 0), Spot(e, 0)}
  <2>0. e = -4 /\ e \in Int
    BY DEF FDT_ERR_BADOFFSET
  <2> HIDE DEF e
  <2>1. /\ Spot(parent, 0) \in Spots /\ Spot(parent, 0).off = parent
        /\ Spot(parent, 0).depth = 0
        /\ Spot(e, 0) \in Spots /\ Spot(e, 0).off = e /\ Spot(e, 0).depth = 0
    BY <2>0, SpotFields
  <2>2. fdt_next_node(b, parent, 0) = Spot(e, 0)
    <3>1. fdt_check_node_offset(b, parent) = e
      <4>1. IsNode(b, parent, fdt_check_node_offset(b, parent)) =>
               fdt_check_node_offset(b, parent) \in Int
        BY BlockMeans DEF IsNode
      <4> QED
        BY <1>2, <4>1, CheckNode DEF e
    <3> QED
      BY <1>2, <2>0, <3>1 DEF fdt_next_node
  <2>3. NodesIn(b, P)
    BY <2>0, <2>1, <2>2 DEF NodesIn
  <2>4. PICK n \in P : FoundAt(n, r)
    BY <2>3, SubnodeOffset
  <2> HIDE DEF r
  <2> QED
    BY <1>2, <2>0, <2>1, <2>4 DEF FoundAt, FDT_ERR_NOTFOUND
<1> QED
  BY <1>1, <1>2

\* Over the properties and NOPs from off on.
LEMMA AfterProps ==
    ASSUME NEW b, Block(b.words), NEW off \in Nat,
           NEW Q, off \in Q, Closed(b, Q, {"PROP", "NOP"})
    PROVE  /\ after_props(b, off) \in Nat /\ after_props(b, off) \in Q
           /\ after_props(b, off) >= off
           /\ fdt_next_tag(b, after_props(b, off)).tag \notin {"PROP", "NOP"}
<1> DEFINE t(o) == fdt_next_tag(b, o)
           N == Len(b.words)
           Over(o) == t(o).tag \in {"PROP", "NOP"}
           Stop == {o \in Nat : ~Over(o)}
           out == [o \in Nat |-> o]
           go == [o \in Nat |-> IF Over(o) THEN t(o).next ELSE o]
           rank == [o \in Nat |-> IF o < N THEN N - o ELSE 0]
           Eq(f) == f = [o \in Nat |-> IF Over(o) THEN f[t(o).next] ELSE o]
           F == CHOOSE f : Eq(f)
<1>0. N \in Nat
  BY BlockMeans
<1>1. ASSUME NEW o \in Nat, Over(o) PROVE t(o).next \in o + 1 .. N /\ o < N
  <2>1. Answers(b, o, t(o))
    BY NextTag
  <2> QED
    BY <1>0, <1>1, <2>1 DEF Answers
<1> HIDE DEF t, N
<1>2. out \in [Nat -> Nat] /\ go \in [Nat -> Nat] /\ rank \in [Nat -> Nat]
  <2>1. ASSUME NEW o \in Nat PROVE go[o] \in Nat
    BY <1>0, <1>1
  <2>2. ASSUME NEW o \in Nat PROVE rank[o] \in Nat
    BY <1>0
  <2> HIDE DEF Over
  <2> QED
    BY <2>1, <2>2
<1>3. \A o \in Nat : o \notin Stop => rank[go[o]] < rank[o]
  <2> SUFFICES ASSUME NEW o \in Nat, Over(o) PROVE rank[go[o]] < rank[o]
    OBVIOUS
  <2>1. go[o] = t(o).next /\ t(o).next \in o + 1 .. N /\ o < N
    BY <1>1
  <2> HIDE DEF go
  <2> QED
    BY <1>0, <2>1
<1>4. PICK f : Loop(f, Nat, Stop, out, go)
  <2> HIDE DEF Stop, out, go, rank
  <2> QED
    BY <1>2, <1>3, LoopExists, Zenon
<1>5. Eq(f)
  <2>1. ASSUME NEW o \in Nat
        PROVE  (IF o \in Stop THEN out[o] ELSE f[go[o]]) =
               (IF Over(o) THEN f[t(o).next] ELSE o)
    <3> HIDE DEF Over
    <3> QED
      OBVIOUS
  <2> QED
    BY <1>4, <2>1 DEF Loop
<1>6. Eq(F)
  BY <1>5
<1>7. after_props(b, off) = F[off]
  BY DEF after_props, t
<1>8. \A o \in Nat : F[o] = IF Over(o) THEN F[t(o).next] ELSE o
  BY <1>6
<1> DEFINE Found(o) == F[o] \in Nat /\ F[o] \in Q /\ F[o] >= o /\ ~Over(F[o])
           T == {o \in Nat : o \in Q => Found(o)}
<1> HIDE DEF F, Eq, out, go, Stop
<1>9. \A o \in Nat : (\A p \in Nat : rank[p] < rank[o] => p \in T) => o \in T
  <2> SUFFICES ASSUME NEW o \in Nat, o \in Q,
                      \A p \in Nat : rank[p] < rank[o] => p \in T
               PROVE  Found(o)
    BY Zenon
  <2>1. CASE ~Over(o)
    <3>1. F[o] = o
      BY <1>8, <2>1
    <3> HIDE DEF Over
    <3> QED
      BY <2>1, <3>1
  <2>2. CASE Over(o)
    <3>1. t(o).next \in o + 1 .. N /\ o < N /\ t(o).next \in Q
      BY <1>1, <2>2 DEF Closed, t
    <3>2. F[o] = F[t(o).next]
      BY <1>8, <2>2
    <3>3. t(o).next \in Nat /\ rank[t(o).next] < rank[o] /\ t(o).next >= o
      BY <1>0, <3>1
    <3>4. Found(t(o).next)
      BY <3>1, <3>3
    <3> HIDE DEF Over
    <3> QED
      BY <3>1, <3>2, <3>3, <3>4
  <2> QED
    BY <2>1, <2>2
<1>10. \A o \in Nat : o \in T
  <2>1. rank \in [Nat -> Nat]
    BY <1>2
  <2> HIDE DEF T, rank
  <2> QED
    BY <2>1, <1>9, LoopInduction
<1> QED
  BY <1>7, <1>10 DEF t

\* Offsets of properties in Q behind off, and errors.
PropIn(b, Q, off, r) ==
    r \in Int /\ (r >= 0 => r \in Q /\ r > off /\ fdt_next_tag(b, r).tag = "PROP")

LEMMA PropertyBehind ==
    ASSUME NEW b, Block(b.words), NEW Q, Closed(b, Q, {"PROP", "NOP"}),
           NEW off \in Int, NEW o \in Int, o >= 0 => o \in Q /\ o > off
    PROVE  PropIn(b, Q, off, nextprop_from(b, o))
<1>1. CASE o < 0
  BY <1>1 DEF nextprop_from, PropIn
<1>2. CASE o >= 0
  <2> DEFINE r == nextprop(b, o)
  <2>1. Closed(b, Q, {"NOP"}) /\ o \in Nat /\ o \in Q
    BY <1>2 DEF Closed
  <2>2. r \in Int /\ (r >= 0 => r \in Q /\ r >= o /\ fdt_next_tag(b, r).tag = "PROP")
    BY <2>1, NextProp
  <2>3. nextprop_from(b, o) = r
    BY <1>2 DEF nextprop_from
  <2> HIDE DEF r
  <2> QED
    BY <1>2, <2>2, <2>3 DEF PropIn
<1> QED
  BY <1>1, <1>2

\* Where the next property is.
LEMMA NextOffset ==
    ASSUME NEW b, Block(b.words), NEW o \in Int, o >= 0,
           NEW Q, Closed(b, Q, {"PROP", "NOP"})
    PROVE  LET next == fdt_next_property_offset(b, o)
           IN  /\ next \in Int /\ (next < 0 \/ next > o)
               /\ next >= 0 => next < Len(b.words)
               /\ o \in Q => PropIn(b, Q, o, next)
<1> DEFINE N == Len(b.words)
           next == fdt_next_property_offset(b, o)
           c == fdt_check_prop_offset(b, o)
           t == fdt_next_tag(b, o)
<1>0. N \in Nat
  BY BlockMeans
<1>1. Answers(b, o, t)
  BY NextTag
<1>2. c = IF t.tag = "PROP" THEN t.next ELSE -FDT_ERR_BADOFFSET
  BY DEF fdt_check_prop_offset
<1>3. c \in Int /\ (c >= 0 => c > o /\ t.tag = "PROP" /\ c = t.next)
  <2> HIDE DEF c, t
  <2> QED
    BY <1>0, <1>1, <1>2 DEF Answers, FDT_ERR_BADOFFSET
<1>4. next = nextprop_from(b, c)
  BY DEF fdt_next_property_offset
<1> HIDE DEF c
<1>5. Closed(b, Int, {"PROP", "NOP"})
  <2>1. ASSUME NEW q \in Int PROVE fdt_next_tag(b, q).next \in Int
    BY <1>0, NextTag DEF Answers
  <2> QED
    BY <2>1 DEF Closed
<1>6. PropIn(b, Int, o, nextprop_from(b, c))
  BY <1>3, <1>5, PropertyBehind
<1>7. o \in Q => PropIn(b, Q, o, nextprop_from(b, c))
  <2> SUFFICES ASSUME o \in Q PROVE PropIn(b, Q, o, nextprop_from(b, c))
    OBVIOUS
  <2>1. c >= 0 => c \in Q /\ c > o
    BY <1>3 DEF Closed
  <2> QED
    BY <1>3, <2>1, PropertyBehind
<1>8. ASSUME NEW r \in Int, fdt_next_tag(b, r).tag = "PROP" PROVE r < N
  <2>1. Answers(b, r, fdt_next_tag(b, r))
    BY NextTag
  <2> QED
    BY <1>0, <1>8, <2>1 DEF Answers
<1> HIDE DEF next
<1> QED
  BY <1>4, <1>6, <1>7, <1>8 DEF PropIn, next

\* The search for a property ends in every set that its first step leads into
\* and that the others do not lead out of.
LEMMA PropertyLoop ==
    ASSUME NEW b, Block(b.words), NEW node \in Int, NEW name, NEW P,
           P \subseteq Int, fdt_first_property_offset(b, node) \in P,
           \A o \in P : o >= 0 /\ At(b, o).name # name
                            => fdt_next_property_offset(b, o) \in P
    PROVE  LET r == fdt_get_property(b, node, name)
           IN  r \in P /\ (r >= 0 => At(b, r).name = name)
<1> DEFINE N == Len(b.words)
           step(o) == fdt_next_property_offset(b, o)
           Stop == {o \in Int : o < 0 \/ At(b, o).name = name}
           out == [o \in Int |-> o]
           go == [o \in Int |-> IF o < 0 THEN o ELSE step(o)]
           rank == [o \in Int |-> IF o < 0 THEN 0
                                  ELSE IF o < N THEN N + 1 - o ELSE 1]
           first == fdt_first_property_offset(b, node)
           Eq(f) == f = [o \in Int |-> IF o < 0 \/ At(b, o).name = name THEN o
                                       ELSE f[step(o)]]
           F == CHOOSE f : Eq(f)
<1>0. N \in Nat
  BY BlockMeans
<1>1. ASSUME NEW o \in Int, o >= 0
      PROVE  /\ step(o) \in Int /\ (step(o) < 0 \/ step(o) > o)
             /\ step(o) >= 0 => step(o) < N
  <2>1. Closed(b, {}, {"PROP", "NOP"})
    BY DEF Closed
  <2> QED
    BY <1>1, <2>1, NextOffset
<1>2. \A o \in P : o >= 0 /\ At(b, o).name # name => step(o) \in P
  OBVIOUS
<1> HIDE DEF step, N
<1>3. out \in [Int -> Int] /\ go \in [Int -> Int] /\ rank \in [Int -> Nat]
  <2>1. ASSUME NEW o \in Int PROVE go[o] \in Int
    BY <1>1
  <2>2. ASSUME NEW o \in Int PROVE rank[o] \in Nat
    BY <1>0
  <2> QED
    BY <2>1, <2>2
<1>4. ASSUME NEW o \in Int, o \notin Stop
      PROVE  /\ o >= 0 /\ go[o] = step(o) /\ step(o) \in Int
             /\ rank[step(o)] < rank[o] /\ (o \in P => step(o) \in P)
  <2>1. o >= 0 /\ go[o] = step(o) /\ At(b, o).name # name
    BY <1>4
  <2>2. step(o) \in Int /\ (step(o) < 0 \/ step(o) > o) /\ (step(o) >= 0 => step(o) < N)
    BY <1>1, <2>1
  <2>3. o \in P => step(o) \in P
    BY <1>2, <2>1
  <2>4. rank[step(o)] < rank[o]
    BY <1>0, <2>1, <2>2
  <2> QED
    BY <2>1, <2>2, <2>3, <2>4
<1>5. PICK f : Loop(f, Int, Stop, out, go)
  <2>1. \A o \in Int : o \notin Stop => rank[go[o]] < rank[o]
    BY <1>4
  <2> HIDE DEF Stop, out, go, rank
  <2> QED
    BY <1>3, <2>1, LoopExists, Zenon
<1>6. Eq(f)
  <2>1. ASSUME NEW o \in Int
        PROVE  (IF o \in Stop THEN out[o] ELSE f[go[o]]) =
               (IF o < 0 \/ At(b, o).name = name THEN o ELSE f[step(o)])
    OBVIOUS
  <2> QED
    BY <1>5, <2>1 DEF Loop
<1>7. Eq(F)
  BY <1>6
<1>8. fdt_get_property(b, node, name) = F[first]
  BY DEF fdt_get_property, step
<1>9. \A o \in Int : F[o] = IF o \in Stop THEN o ELSE F[step(o)]
  BY <1>7
<1> DEFINE Named(r) == r >= 0 => At(b, r).name = name
           T == {o \in Int : o \in P => F[o] \in P /\ Named(F[o])}
<1>10. \A o \in Stop : Named(o)
  OBVIOUS
<1>11. \A o \in Int : o \notin Stop => /\ step(o) \in Int /\ rank[step(o)] < rank[o]
                                       /\ o \in P => step(o) \in P
  BY <1>4
<1> HIDE DEF F, Eq, out, go, Stop, first, Named, rank
<1>12. \A o \in Int : (\A p \in Int : rank[p] < rank[o] => p \in T) => o \in T
  <2> SUFFICES ASSUME NEW o \in Int, o \in P,
                      \A p \in Int : rank[p] < rank[o] => p \in T
               PROVE  F[o] \in P /\ Named(F[o])
    BY Zenon
  <2>1. CASE o \in Stop
    BY <1>9, <1>10, <2>1
  <2>2. CASE o \notin Stop
    <3>1. step(o) \in Int /\ rank[step(o)] < rank[o] /\ F[o] = F[step(o)]
          /\ step(o) \in P
      BY <1>9, <1>11, <2>2
    <3>2. step(o) \in T
      BY <3>1
    <3> QED
      BY <3>1, <3>2
  <2> QED
    BY <2>1, <2>2
<1>13. \A o \in Int : o \in T
  <2>1. rank \in [Int -> Nat]
    BY <1>3
  <2> HIDE DEF T
  <2> QED
    BY <2>1, <1>12, LoopInduction
<1>14. first \in Int /\ first \in P
  BY DEF first
<1> QED
  BY <1>8, <1>13, <1>14 DEF Named

\* The properties of a node lie in every set that its first tag is in and that
\* properties and NOPs do not lead out of.
LEMMA GetProperty ==
    ASSUME NEW b, Block(b.words), NEW Q, Closed(b, Q, {"PROP", "NOP"}),
           NEW node \in Int, NEW name,
           \A next \in Int : IsNode(b, node, next) => next \in Q
    PROVE  LET r == fdt_get_property(b, node, name)
           IN  PropIn(b, Q, node, r) /\ (r >= 0 => At(b, r).name = name)
<1> DEFINE P == {o \in Int : PropIn(b, Q, node, o)}
           first == fdt_first_property_offset(b, node)
<1>1. first \in P
  <2> DEFINE c == fdt_check_node_offset(b, node)
  <2>1. first = nextprop_from(b, c)
    BY DEF fdt_first_property_offset
  <2>2. c = -FDT_ERR_BADOFFSET \/ IsNode(b, node, c)
    BY CheckNode
  <2>3. c \in Int /\ (c >= 0 => c \in Q /\ c > node)
    <3> HIDE DEF c
    <3> QED
      BY <2>2, BlockMeans DEF IsNode, FDT_ERR_BADOFFSET
  <2> HIDE DEF c, first
  <2>4. PropIn(b, Q, node, first)
    BY <2>1, <2>3, PropertyBehind
  <2> QED
    BY <2>4 DEF PropIn
<1>2. ASSUME NEW o \in P, o >= 0 PROVE fdt_next_property_offset(b, o) \in P
  <2>1. o \in Int /\ o \in Q /\ o > node
    BY <1>2 DEF PropIn
  <2>2. PropIn(b, Q, o, fdt_next_property_offset(b, o))
    BY <1>2, <2>1, NextOffset
  <2> QED
    BY <2>1, <2>2 DEF PropIn
<1>3. P \subseteq Int
  OBVIOUS
<1> DEFINE r == fdt_get_property(b, node, name)
<1>4. r \in P /\ (r >= 0 => At(b, r).name = name)
  <2> HIDE DEF P
  <2> QED
    BY <1>1, <1>2, <1>3, PropertyLoop
<1> QED
  BY <1>4

-----------------------------------------------------------------------------
(* Depths                                                                  *)

LEMMA Opens ==
    ASSUME NEW w
    PROVE  /\ opens(w) \in {-1, 0, 1}
           /\ w.tag = "BEGIN" => opens(w) = 1
           /\ w.tag = "END_NODE" => opens(w) = -1
           /\ w.tag \notin {"BEGIN", "END_NODE"} => opens(w) = 0
BY DEF opens

\* d says how many nodes are open behind each word.
DepthsAre(ws, d) ==
    /\ d \in [0 .. Len(ws) -> Int] /\ d[0] = 0
    /\ \A k \in 1 .. Len(ws) : d[k] = d[k - 1] + opens(ws[k])

LEMMA DepthsUnique ==
    ASSUME NEW ws, Len(ws) \in Nat, NEW d, NEW e, DepthsAre(ws, d), DepthsAre(ws, e)
    PROVE  d = e
<1> DEFINE n == Len(ws)
           T == {k \in Nat : k <= n => d[k] = e[k]}
<1>1. 0 \in T
  BY DEF DepthsAre
<1>2. ASSUME NEW k \in Nat, k \in T PROVE k + 1 \in T
  <2> SUFFICES ASSUME k + 1 <= n PROVE d[k + 1] = e[k + 1]
    OBVIOUS
  <2>1. k + 1 \in 1 .. n /\ (k + 1) - 1 = k /\ d[k] = e[k]
    BY <1>2
  <2>2. d[k + 1] = d[(k + 1) - 1] + opens(ws[k + 1])
        /\ e[k + 1] = e[(k + 1) - 1] + opens(ws[k + 1])
    BY <2>1 DEF DepthsAre
  <2> QED
    BY <2>1, <2>2
<1>3. \A k \in Nat : k \in T
  <2> HIDE DEF T
  <2> QED
    BY <1>1, <1>2, NatSetInduction
<1> QED
  BY <1>3 DEF DepthsAre

LEMMA DepthsExist ==
    ASSUME NEW ws, Len(ws) \in Nat
    PROVE  DepthsAre(ws, Depths(ws))
<1> DEFINE n == Len(ws)
           g == [k \in 1 .. n |-> opens(ws[k])]
           Eq(d) == d = [k \in 0 .. Len(ws) |->
                            IF k = 0 THEN 0 ELSE d[k - 1] + opens(ws[k])]
           D == CHOOSE d : Eq(d)
<1>1. g \in [1 .. n -> Int]
  BY Opens
<1>2. PICK f \in [0 .. n -> Int] :
         f = [i \in 0 .. n |-> IF i = 0 THEN 0 ELSE f[i - 1] + g[i]]
  <2> HIDE DEF g
  <2> QED
    BY <1>1, PartialSums
<1>3. Eq(f)
  <2>1. ASSUME NEW i \in 0 .. n
        PROVE  f[i] = IF i = 0 THEN 0 ELSE f[i - 1] + opens(ws[i])
    <3>1. f[i] = IF i = 0 THEN 0 ELSE f[i - 1] + g[i]
      BY <1>2
    <3>2. i # 0 => g[i] = opens(ws[i])
      OBVIOUS
    <3> QED
      BY <3>1, <3>2
  <2>2. f = [i \in 0 .. n |-> f[i]]
    BY <1>2
  <2> QED
    BY <2>1, <2>2
<1>4. Eq(D)
  BY <1>3
<1>5. Depths(ws) = D
  BY DEF Depths
<1> DEFINE T == {k \in Nat : k <= n => D[k] \in Int}
<1>6. D = [k \in 0 .. n |-> D[k]]
      /\ \A k \in 0 .. n : D[k] = IF k = 0 THEN 0 ELSE D[k - 1] + opens(ws[k])
  BY <1>4
<1>0. n \in Nat
  OBVIOUS
<1> HIDE DEF D, Eq, n
<1>7. \A k \in Nat : k \in T
  <2>1. 0 \in T
    BY <1>6
  <2>2. ASSUME NEW k \in Nat, k \in T PROVE k + 1 \in T
    <3> SUFFICES ASSUME k + 1 <= n PROVE D[k + 1] \in Int
      OBVIOUS
    <3>0. k + 1 \in 0 .. n /\ k + 1 # 0 /\ (k + 1) - 1 = k
      BY <1>0
    <3>1. D[k + 1] = D[k] + opens(ws[k + 1])
      BY <1>6, <3>0
    <3>2. D[k] \in Int
      BY <1>0, <2>2
    <3> QED
      BY <3>1, <3>2, Opens
  <2> HIDE DEF T
  <2> QED
    BY <2>1, <2>2, NatSetInduction
<1>8. \A k \in 0 .. n : D[k] \in Int
  BY <1>0, <1>7
<1>9. D \in [0 .. n -> Int]
  BY <1>6, <1>8
<1>10. ASSUME NEW k \in 1 .. n PROVE D[k] = D[k - 1] + opens(ws[k])
  <2>1. k \in 0 .. n /\ k # 0
    BY <1>0
  <2> QED
    BY <1>6, <2>1
<1>11. D[0] = 0
  <2>1. 0 \in 0 .. n
    BY <1>0
  <2> QED
    BY <1>6, <2>1, Zenon
<1> QED
  BY <1>5, <1>9, <1>10, <1>11 DEF DepthsAre, n

\* Words that open and close nothing leave the depth as it is.
Quiet(ws, lo, hi) ==
    \A k \in lo + 1 .. hi : ws[k].tag \notin {"BEGIN", "END_NODE"}

Flat(d, lo, hi) == \A k \in lo .. hi : d[k] = d[lo]

LEMMA FlatDepth ==
    ASSUME NEW ws, Len(ws) \in Nat, NEW d, DepthsAre(ws, d),
           NEW lo \in Nat, NEW hi \in Nat, lo <= hi, hi <= Len(ws),
           Quiet(ws, lo, hi)
    PROVE  Flat(d, lo, hi)
<1> DEFINE T == {j \in Nat : lo + j <= hi => d[lo + j] = d[lo]}
<1>1. 0 \in T
  OBVIOUS
<1>2. ASSUME NEW j \in Nat, j \in T PROVE j + 1 \in T
  <2> SUFFICES ASSUME lo + (j + 1) <= hi PROVE d[lo + (j + 1)] = d[lo]
    OBVIOUS
  <2> DEFINE k == lo + (j + 1)
  <2>1. k \in 1 .. Len(ws) /\ k \in lo + 1 .. hi /\ k - 1 = lo + j /\ lo + j \in 0 .. Len(ws)
    OBVIOUS
  <2>2. d[k] = d[k - 1] + opens(ws[k]) /\ opens(ws[k]) = 0
    BY <2>1, Opens DEF DepthsAre, Quiet
  <2>3. d[lo + j] \in Int /\ d[lo + j] = d[lo]
    BY <1>2, <2>1 DEF DepthsAre
  <2> QED
    BY <2>1, <2>2, <2>3
<1>3. \A j \in Nat : j \in T
  <2> HIDE DEF T
  <2> QED
    BY <1>1, <1>2, NatSetInduction
<1>4. ASSUME NEW k \in lo .. hi PROVE d[k] = d[lo]
  <2>1. k - lo \in Nat /\ lo + (k - lo) = k
    OBVIOUS
  <2>2. k - lo \in T
    BY <1>3, <2>1
  <2> QED
    BY <2>1, <2>2
<1> QED
  BY <1>4 DEF Flat

\* Where the tags of a block are.
Starts(ws) == {o \in 0 .. Len(ws) - 1 : ws[o + 1].tag # "CONT"}

\* In a nested block fdt_next_tag goes from tag to tag, up to the end.
TagAt(b, off, t) ==
    /\ t.tag = At(b, off).tag /\ t.tag \in Tags \ {"CONT"}
    /\ t.next = off + tag_words(At(b, off)) /\ t.next \in off + 1 .. Len(b.words)
    /\ IF t.tag = "END" THEN off = Len(b.words) - 1
       ELSE t.next \in Starts(b.words)
            /\ Depths(b.words)[t.next] = Depths(b.words)[off] + opens(At(b, off))

LEMMA NextStart ==
    ASSUME NEW b, Block(b.words), Nested(b.words), NEW off \in Starts(b.words)
    PROVE  TagAt(b, off, fdt_next_tag(b, off))
<1> DEFINE ws == b.words
           N == Len(ws)
           d == Depths(ws)
           w == ws[off + 1]
           next == off + tag_words(w)
           t == fdt_next_tag(b, off)
<1>1. N \in Nat /\ DOMAIN ws = 1 .. N /\ \A k \in 1 .. N :
         ws[k].tag \in Tags /\ tag_words(ws[k]) \in Nat \ {0}
  BY BlockMeans
<1>2. off \in 0 .. N - 1 /\ off + 1 \in 1 .. N /\ w.tag # "CONT" /\ w = At(b, off)
      /\ w.tag \in Tags /\ tag_words(w) \in Nat \ {0}
  BY <1>1 DEF Starts, At
<1>3. (off + 1) + tag_words(w) <= N + 1
      /\ (\A j \in off + 2 .. next : ws[j].tag = "CONT")
      /\ (next + 1 <= N => ws[next + 1].tag # "CONT")
  <2> DEFINE k == off + 1
             e == k + tag_words(ws[k])
  <2>1. /\ e <= N + 1
        /\ \A j \in k + 1 .. e - 1 : ws[j].tag = "CONT"
        /\ e <= N => ws[e].tag # "CONT"
    <3>1. k \in 1 .. N /\ ws[k].tag # "CONT"
      BY <1>2
    <3> QED
      BY <3>1 DEF Nested, Units
  <2>2. e = next + 1 /\ k + 1 = off + 2 /\ e - 1 = next
    BY <1>2
  <2> HIDE DEF e, k, next, N
  <2> QED
    BY <1>1, <2>1, <2>2 DEF e, k
<1>4. next \in off + 1 .. N
  BY <1>1, <1>2, <1>3
<1>5. t.tag = w.tag /\ t.next = next
  <2> HIDE DEF w
  <2> QED
    BY <1>1, <1>2, <1>4 DEF fdt_next_tag
<1>6. w.tag = "END" <=> off + 1 = N
  BY <1>2 DEF Nested
<1>7. ASSUME w.tag # "END" PROVE next \in Starts(ws) /\ d[next] = d[off] + opens(w)
  <2>1. next < N
    <3>1. ws[N].tag = "END" /\ N \in 1 .. N
      BY <1>1, <1>2 DEF Nested
    <3>2. next = N => N \in off + 2 .. next
      BY <1>1, <1>2, <1>6, <1>7
    <3> QED
      BY <1>1, <1>3, <1>4, <3>1, <3>2
  <2>2. next \in Starts(ws)
    <3> HIDE DEF next
    <3> QED
      BY <1>1, <1>2, <1>3, <1>4, <2>1 DEF Starts
  <2>3. DepthsAre(ws, d)
    BY <1>1, DepthsExist
  <2>4. d[off + 1] = d[off] + opens(w)
    <3>1. (off + 1) - 1 = off
      BY <1>2
    <3> HIDE DEF d
    <3> QED
      BY <1>2, <2>3, <3>1 DEF DepthsAre
  <2>5. d[next] = d[off + 1]
    <3>1. \A k \in (off + 1) + 1 .. next : ws[k].tag \notin {"BEGIN", "END_NODE"}
      BY <1>2, <1>3
    <3>2. off + 1 \in Nat /\ next \in Nat /\ off + 1 <= next /\ next <= N
      BY <1>1, <1>2, <1>4
    <3>3. \A k \in off + 1 .. next : d[k] = d[off + 1]
      <4> DEFINE lo == off + 1
      <4> HIDE DEF d, next, lo
      <4>1. /\ lo \in Nat /\ next \in Nat /\ lo <= next /\ next <= Len(ws)
            /\ Quiet(ws, lo, next)
        BY <3>1, <3>2 DEF lo, Quiet
      <4>2. Flat(d, lo, next)
        BY <1>1, <2>3, <4>1, FlatDepth
      <4> QED
        BY <4>2 DEF lo, Flat
    <3> QED
      BY <3>2, <3>3
  <2> QED
    BY <2>2, <2>4, <2>5
<1> HIDE DEF t, d, w
<1> QED
  BY <1>1, <1>2, <1>4, <1>5, <1>6, <1>7 DEF TagAt, t, d

-----------------------------------------------------------------------------
(* What the walks find in a nested block                                   *)

\* The tags at one depth.
Level(b, k) == {o \in Starts(b.words) : Depths(b.words)[o] = k}

LEMMA DepthNumbers ==
    ASSUME NEW b, Block(b.words)
    PROVE  /\ Len(b.words) \in Nat
           /\ DepthsAre(b.words, Depths(b.words))
           /\ \A o \in Starts(b.words) : o \in Nat /\ Depths(b.words)[o] \in Int
<1>1. Len(b.words) \in Nat
  BY BlockMeans
<1>2. DepthsAre(b.words, Depths(b.words))
  BY <1>1, DepthsExist
<1>3. ASSUME NEW o \in Starts(b.words) PROVE o \in Nat /\ Depths(b.words)[o] \in Int
  <2>1. o \in 0 .. Len(b.words) /\ o \in Nat
    BY <1>1 DEF Starts
  <2> QED
    BY <1>2, <2>1 DEF DepthsAre
<1> QED
  BY <1>1, <1>2, <1>3

LEMMA LevelClosed ==
    ASSUME NEW b, Block(b.words), Nested(b.words), NEW k \in Int
    PROVE  Closed(b, Level(b, k), {"PROP", "NOP"})
<1> SUFFICES ASSUME NEW q \in Level(b, k),
                    fdt_next_tag(b, q).tag \in {"PROP", "NOP"}
             PROVE  fdt_next_tag(b, q).next \in Level(b, k)
  BY DEF Closed
<1> DEFINE t == fdt_next_tag(b, q)
<1>1. TagAt(b, q, t) /\ q \in Starts(b.words) /\ Depths(b.words)[q] = k
  BY NextStart DEF Level
<1> HIDE DEF t
<1>2. t.tag \in {"PROP", "NOP"}
  BY DEF t
<1>3. opens(At(b, q)) = 0
  BY <1>1, <1>2, Opens DEF TagAt
<1>4. t.next \in Starts(b.words) /\ Depths(b.words)[t.next] = k
  BY <1>1, <1>2, <1>3 DEF TagAt
<1> QED
  BY <1>4 DEF Level, t

\* A node is a tag, and inside of it the depth is one more.
LEMMA NodeInside ==
    ASSUME NEW b, Block(b.words), Nested(b.words),
           NEW node, NEW next, IsNode(b, node, next)
    PROVE  /\ node \in Starts(b.words) /\ node < Len(b.words) - 1
           /\ Depths(b.words)[node] >= 0
           /\ node > 0 => Depths(b.words)[node] > 0
           /\ next \in Level(b, Depths(b.words)[node] + 1) /\ next > node
<1> DEFINE N == Len(b.words)
           d == Depths(b.words)
<1>0. N \in Nat /\ DepthsAre(b.words, d)
  BY DepthNumbers
<1>1. node \in 0 .. N - 1 /\ At(b, node).tag = "BEGIN" /\ next \in node + 1 .. N
      /\ fdt_next_tag(b, node).tag = "BEGIN" /\ fdt_next_tag(b, node).next = next
  BY DEF IsNode
<1>2. node \in Starts(b.words)
  BY <1>1 DEF Starts, At
<1>3. TagAt(b, node, fdt_next_tag(b, node))
  BY <1>2, NextStart
<1>4. opens(At(b, node)) = 1
  BY <1>1, Opens
<1>5. next \in Starts(b.words) /\ d[next] = d[node] + 1
  BY <1>1, <1>3, <1>4 DEF TagAt
<1>6. node # N - 1
  <2>1. node + 1 \in 1 .. N
    BY <1>0, <1>1
  <2>2. b.words[node + 1].tag = "BEGIN"
    BY <1>1 DEF At
  <2>3. node + 1 # N
    BY <2>1, <2>2 DEF Nested
  <2> QED
    BY <1>0, <1>1, <2>3
<1>7. d[node] >= 0 /\ (node > 0 => d[node] > 0)
  <2>1. CASE node = 0
    BY <1>0, <2>1 DEF DepthsAre
  <2>2. CASE node # 0
    <3>1. node \in 1 .. N - 1 /\ node # N - 1
      BY <1>0, <1>1, <1>6, <2>2
    <3>2. d[node] >= 0 /\ d[node] # 0 /\ d[node] \in Int
      BY <1>2, <3>1, DepthNumbers DEF Nested
    <3> QED
      BY <3>2
  <2> QED
    BY <2>1, <2>2
<1> HIDE DEF d
<1>8. next \in Level(b, d[node] + 1)
  BY <1>5 DEF Level, d
<1> QED
  BY <1>0, <1>1, <1>2, <1>6, <1>7, <1>8 DEF d

\* A property that is found is one of the node.
LEMMA PropertyFound ==
    ASSUME NEW b, Block(b.words), Nested(b.words), NEW node \in Int, NEW name,
           fdt_get_property(b, node, name) >= 0
    PROVE  LET r == fdt_get_property(b, node, name)
           IN  /\ r \in Starts(b.words) /\ r > 0 /\ At(b, r).tag = "PROP"
               /\ Depths(b.words)[r] > 0
<1> DEFINE r == fdt_get_property(b, node, name)
           d == Depths(b.words)
           Q == Level(b, d[node] + 1)
<1>1. PICK next \in Int : IsNode(b, node, next)
  <2> SUFFICES ASSUME \A next \in Int : ~IsNode(b, node, next) PROVE FALSE
    OBVIOUS
  <2>1. Closed(b, {}, {"PROP", "NOP"})
    BY DEF Closed
  <2>2. PropIn(b, {}, node, r)
    BY <2>1, GetProperty
  <2> QED
    BY <2>2 DEF PropIn
<1>2. node \in Starts(b.words) /\ d[node] >= 0 /\ d[node] \in Int /\ node \in Nat
  BY <1>1, NodeInside, DepthNumbers
<1>3. Closed(b, Q, {"PROP", "NOP"})
  BY <1>2, LevelClosed
<1>4. \A o \in Int : IsNode(b, node, o) => o \in Q
  BY NodeInside
<1>5. PropIn(b, Q, node, r)
  <2> HIDE DEF Q
  <2> QED
    BY <1>3, <1>4, GetProperty
<1> HIDE DEF r
<1>6. r \in Q /\ r > node /\ r \in Int /\ fdt_next_tag(b, r).tag = "PROP"
  BY <1>5 DEF PropIn, r
<1>7. r \in Starts(b.words) /\ d[r] = d[node] + 1
  BY <1>6 DEF Level
<1>8. At(b, r).tag = "PROP"
  BY <1>6, <1>7, NextStart DEF TagAt
<1> QED
  BY <1>2, <1>6, <1>7, <1>8 DEF r

\* The place behind a node's properties is in that node.
LEMMA PlaceFound ==
    ASSUME NEW b, Block(b.words), Nested(b.words),
           NEW node, NEW next, IsNode(b, node, next)
    PROVE  LET r == after_props(b, next)
           IN  r \in Starts(b.words) /\ r > 0 /\ Depths(b.words)[r] > 0
<1> DEFINE d == Depths(b.words)
           Q == Level(b, d[node] + 1)
<1>1. node \in Starts(b.words) /\ d[node] >= 0 /\ next \in Q /\ next > node
  BY NodeInside
<1>2. d[node] \in Int /\ node \in Nat /\ next \in Nat
  BY <1>1, DepthNumbers DEF Level
<1>3. Closed(b, Q, {"PROP", "NOP"})
  BY <1>2, LevelClosed
<1>4. after_props(b, next) \in Q /\ after_props(b, next) >= next
      /\ after_props(b, next) \in Nat
  <2> HIDE DEF Q
  <2> QED
    BY <1>1, <1>2, <1>3, AfterProps
<1> QED
  BY <1>1, <1>2, <1>4 DEF Level

\* No word from one place to another leaves the node that is entered there.
Stays(d, lo, hi) == \A k \in lo + 1 .. hi : d[k] > d[lo]

\* Where a loop from node to node, begun at a node, may be: at a node inside of
\* it as deep as it says, or behind its end.
Inside(b, node) ==
    {n \in Spots :
        /\ n.off \in Starts(b.words)
        /\ \/ /\ n.depth >= 0 /\ Stays(Depths(b.words), node, n.off)
              /\ n.off >= node /\ At(b, n.off).tag = "BEGIN"
              /\ Depths(b.words)[n.off] = Depths(b.words)[node] + n.depth
           \/ /\ n.depth = -1 /\ n.off > node
              /\ Stays(Depths(b.words), node, n.off - 1)
              /\ Depths(b.words)[n.off] = Depths(b.words)[node]}

\* There is no node between two offsets.
NoNode(b, lo, hi) ==
    \A c \in Starts(b.words) : lo < c /\ c < hi => At(b, c).tag # "BEGIN"

\* What a tag takes up leaves the depth behind it as it is.
LEMMA TagDepth ==
    ASSUME NEW b, Block(b.words), Nested(b.words), NEW off \in Starts(b.words),
           NEW t, TagAt(b, off, t), t.tag # "END"
    PROVE  \A k \in off + 1 .. t.next : Depths(b.words)[k] = Depths(b.words)[t.next]
<1> DEFINE ws == b.words
           N == Len(ws)
           d == Depths(ws)
           lo == off + 1
           next == t.next
<1>1. /\ N \in Nat /\ DepthsAre(ws, d) /\ off \in 0 .. N - 1 /\ ws[lo].tag # "CONT"
      /\ next = off + tag_words(ws[lo]) /\ next \in lo .. N
  BY DepthNumbers DEF Starts, TagAt, At
<1> HIDE DEF d, N
<1>2. lo \in Nat /\ next \in Nat /\ lo <= next /\ next <= N
  BY <1>1
<1>3. Quiet(ws, lo, next)
  <2> DEFINE e == lo + tag_words(ws[lo])
  <2>1. lo \in 1 .. Len(ws) /\ e - 1 = next
    <3>1. lo \in 1 .. Len(ws)
      BY <1>1 DEF N
    <3>2. tag_words(ws[lo]) \in Nat
      BY <3>1, BlockMeans
    <3> QED
      BY <1>1, <3>1, <3>2
  <2>2. \A j \in lo + 1 .. e - 1 : ws[j].tag = "CONT"
    BY <1>1, <2>1 DEF Nested, Units
  <2> QED
    BY <2>1, <2>2, Zenon DEF Quiet
<1>4. Flat(d, lo, next)
  <2> HIDE DEF lo, next
  <2> QED
    BY <1>1, <1>2, <1>3, FlatDepth DEF N
<1>5. d[next] = d[lo] /\ \A k \in lo .. next : d[k] = d[lo]
  BY <1>2, <1>4 DEF Flat
<1> QED
  BY <1>5 DEF d

\* Further words as deep do not leave the node.
LEMMA StaysOn ==
    ASSUME NEW d, NEW lo \in Nat, NEW mid \in Nat, NEW hi \in Nat,
           Stays(d, lo, mid), \A k \in mid + 1 .. hi : d[k] > d[lo]
    PROVE  Stays(d, lo, hi)
<1> SUFFICES ASSUME NEW k \in lo + 1 .. hi PROVE d[k] > d[lo]
  BY DEF Stays
<1>1. k \in lo + 1 .. mid \/ k \in mid + 1 .. hi
  OBVIOUS
<1> QED
  BY <1>1 DEF Stays

\* A node's tag as the calls see it.
LEMMA NodeIs ==
    ASSUME NEW b, Block(b.words), Nested(b.words), NEW off \in Starts(b.words),
           At(b, off).tag = "BEGIN"
    PROVE  IsNode(b, off, off + tag_words(At(b, off)))
<1>1. TagAt(b, off, fdt_next_tag(b, off))
  BY NextStart
<1>2. off \in 0 .. Len(b.words) - 1
  BY DEF Starts
<1> QED
  BY <1>1, <1>2 DEF TagAt, IsNode

\* No tag starts between one and the next.
LEMMA NoTagBetween ==
    ASSUME NEW b, Block(b.words), Nested(b.words), NEW off \in Starts(b.words),
           NEW k \in Starts(b.words), off < k
    PROVE  off + tag_words(At(b, off)) <= k
<1> DEFINE ws == b.words
           lo == off + 1
           e == lo + tag_words(ws[lo])
<1>1. /\ lo \in 1 .. Len(ws) /\ ws[lo].tag # "CONT" /\ At(b, off) = ws[lo]
      /\ k \in 0 .. Len(ws) - 1 /\ ws[k + 1].tag # "CONT" /\ off \in Nat /\ k \in Nat
  BY BlockMeans DEF Starts, At
<1>2. tag_words(ws[lo]) \in Nat \ {0}
  BY <1>1, BlockMeans
<1>3. \A j \in lo + 1 .. e - 1 : ws[j].tag = "CONT"
  BY <1>1 DEF Nested, Units
<1>4. k + 1 \notin lo + 1 .. e - 1
  BY <1>1, <1>3
<1> HIDE DEF ws
<1>5. tag_words(ws[lo]) \in Nat /\ off + tag_words(ws[lo]) <= k
  BY <1>1, <1>2, <1>4
<1> QED
  BY <1>1, <1>5

\* The loop goes from a node to the next one inside, or behind the end.
LEMMA WalkStep ==
    ASSUME NEW b, Block(b.words), Nested(b.words), NEW node \in Starts(b.words),
           Depths(b.words)[node] >= 0, NEW n \in Inside(b, node), n.depth >= 0
    PROVE  LET r == fdt_next_node(b, n.off, n.depth)
           IN  r \in Inside(b, node) /\ r.off > n.off /\ NoNode(b, n.off, r.off)
<1> DEFINE d == Depths(b.words)
           r == fdt_next_node(b, n.off, n.depth)
<1>0. d[node] \in Int /\ node \in Nat /\ Len(b.words) \in Nat
      /\ \A o \in Starts(b.words) : o \in Nat /\ d[o] \in Int
  BY DepthNumbers
<1>1. n \in Spots /\ n.off \in Nat /\ n.depth \in Nat /\ n.off \in Starts(b.words)
      /\ d[n.off] = d[node] + n.depth /\ n.off >= node /\ Stays(d, node, n.off)
      /\ At(b, n.off).tag = "BEGIN"
  <2>1. n \in Spots /\ n.off \in Int /\ n.depth \in Int
    BY SpotIs DEF Inside
  <2> QED
    BY <1>0, <2>1 DEF Inside
<1> DEFINE Q == {q \in Spots : /\ q.off \in Starts(b.words) /\ q.off > n.off
                               /\ q.depth >= 0 /\ d[q.off] = d[node] + q.depth + 1
                               /\ Stays(d, node, q.off) /\ NoNode(b, n.off, q.off)}
           next == n.off + tag_words(At(b, n.off))
<1>2. ASSUME NEW o \in Starts(b.words), o >= node, Stays(d, node, o),
             NEW t, TagAt(b, o, t), t.tag # "END", d[t.next] > d[node]
      PROVE  Stays(d, node, t.next)
  <2>1. \A k \in o + 1 .. t.next : d[k] = d[t.next]
    BY <1>2, TagDepth
  <2>2. o \in Nat /\ t.next \in Nat
    BY <1>0, <1>2 DEF TagAt
  <2>3. \A k \in o + 1 .. t.next : d[k] > d[node]
    BY <1>2, <2>1, Zenon
  <2> HIDE DEF d
  <2> QED
    BY <1>0, <1>2, <2>2, <2>3, StaysOn
<1>3. ASSUME NEW q \in Q
      PROVE  /\ q.off \in Starts(b.words) /\ q.off > n.off /\ q.off \in Nat
             /\ q.off > node /\ NoNode(b, n.off, q.off)
             /\ q.depth \in Nat /\ d[q.off] = d[node] + q.depth + 1
             /\ Stays(d, node, q.off)
             /\ TagAt(b, q.off, fdt_next_tag(b, q.off))
  <2>1. /\ q \in Spots /\ q.off \in Starts(b.words) /\ q.off > n.off
        /\ q.depth >= 0 /\ d[q.off] = d[node] + q.depth + 1
        /\ Stays(d, node, q.off) /\ NoNode(b, n.off, q.off)
    OBVIOUS
  <2>2. TagAt(b, q.off, fdt_next_tag(b, q.off))
    BY <2>1, NextStart
  <2>3. q.depth \in Nat
    BY <2>1, SpotIs
  <2>4. q.off \in Nat /\ q.off > node
    <3>1. q.off \in Nat
      BY <1>0, <2>1
    <3>2. node \in Nat /\ n.off \in Nat /\ n.off >= node
      BY <1>0, <1>1
    <3> HIDE DEF Q
    <3> QED
      BY <2>1, <3>1, <3>2
  <2> QED
    BY <2>1, <2>2, <2>3, <2>4
<1>4. ASSUME NEW o \in Starts(b.words), o > n.off, NoNode(b, n.off, o),
             NEW t, TagAt(b, o, t), t.tag \in {"PROP", "NOP", "END_NODE"}
      PROVE  NoNode(b, n.off, t.next)
  <2> SUFFICES ASSUME NEW c \in Starts(b.words), n.off < c, c < t.next
               PROVE  At(b, c).tag # "BEGIN"
    BY DEF NoNode
  <2>1. o \in Nat /\ c \in Nat /\ t.next = o + tag_words(At(b, o))
        /\ At(b, o).tag = t.tag
    BY <1>0, <1>4 DEF TagAt
  <2>2. CASE c < o
    BY <1>4, <2>2 DEF NoNode
  <2>3. CASE c = o
    BY <1>4, <2>1, <2>3
  <2>4. CASE o < c
    <3>1. t.next <= c /\ t.next \in Int
      BY <1>4, <2>1, <2>4, NoTagBetween DEF TagAt
    <3> QED
      BY <2>1, <3>1
  <2> QED
    BY <2>1, <2>2, <2>3, <2>4
<1>5. GoesOnIn(b, Q)
  <2> SUFFICES ASSUME NEW q \in Q
               PROVE  LET t == fdt_next_tag(b, q.off)
                      IN  /\ t.tag = "END_NODE" /\ q.depth # 0
                                 => Spot(t.next, q.depth - 1) \in Q
                          /\ t.tag \in {"PROP", "NOP"} => Spot(t.next, q.depth) \in Q
    BY DEF GoesOnIn
  <2> DEFINE t == fdt_next_tag(b, q.off)
  <2>1. /\ q.off \in Starts(b.words) /\ q.off > n.off /\ q.off \in Nat
        /\ q.off > node /\ NoNode(b, n.off, q.off)
        /\ q.depth \in Nat /\ d[q.off] = d[node] + q.depth + 1
        /\ Stays(d, node, q.off) /\ TagAt(b, q.off, t)
    BY <1>3
  <2> HIDE DEF Q, t
  <2>2. ASSUME t.tag # "END" PROVE t.next \in Starts(b.words) /\ t.next > n.off
                                   /\ t.next \in Int
                                   /\ d[t.next] = d[q.off] + opens(At(b, q.off))
    BY <1>0, <1>1, <2>1, <2>2 DEF TagAt
  <2>3. t.tag = At(b, q.off).tag
    BY <2>1 DEF TagAt
  <2>4. ASSUME t.tag = "END_NODE", q.depth # 0 PROVE Spot(t.next, q.depth - 1) \in Q
    <3>1. opens(At(b, q.off)) = -1
      BY <2>3, <2>4, Opens
    <3>2. q.depth - 1 \in Nat /\ d[t.next] = d[node] + (q.depth - 1) + 1
      <4>1. d[node] \in Int /\ q.depth \in Nat /\ q.depth # 0
            /\ d[q.off] = d[node] + q.depth + 1
        BY <1>0, <2>1, <2>4
      <4>2. d[t.next] = d[q.off] + -1
        BY <2>2, <2>4, <3>1
      <4> HIDE DEF d
      <4> QED
        BY <4>1, <4>2
    <3>3. d[t.next] > d[node]
      BY <1>0, <3>2
    <3>4. Stays(d, node, t.next)
      BY <1>0, <1>2, <2>1, <2>4, <3>3
    <3>5. NoNode(b, n.off, t.next)
      BY <1>4, <2>1, <2>4
    <3> QED
      BY <2>2, <2>4, <3>2, <3>4, <3>5, SpotFields DEF Q
  <2>5. ASSUME t.tag \in {"PROP", "NOP"} PROVE Spot(t.next, q.depth) \in Q
    <3>1. opens(At(b, q.off)) = 0
      BY <2>3, <2>5, Opens
    <3>2. d[t.next] = d[node] + q.depth + 1
      BY <1>0, <2>1, <2>2, <2>5, <3>1
    <3>3. d[t.next] > d[node]
      BY <1>0, <2>1, <3>2
    <3>4. Stays(d, node, t.next)
      BY <1>0, <1>2, <2>1, <2>5, <3>3
    <3>5. NoNode(b, n.off, t.next)
      BY <1>4, <2>1, <2>5
    <3> QED
      BY <2>1, <2>2, <2>5, <3>2, <3>4, <3>5, SpotFields DEF Q
  <2> QED
    BY <2>4, <2>5 DEF t
<1>6. IsNode(b, n.off, next)
  BY <1>1, NodeIs
<1>7. Spot(next, n.depth) \in Q
  <2>1. next \in Starts(b.words) /\ d[next] = d[n.off] + 1 /\ next > n.off
    BY <1>6, NodeInside DEF Level
  <2>2. d[next] = d[node] + n.depth + 1 /\ d[next] > d[node]
    BY <1>0, <1>1, <2>1
  <2>3. TagAt(b, n.off, fdt_next_tag(b, n.off))
    BY <1>1, NextStart
  <2>4. fdt_next_tag(b, n.off).tag # "END" /\ fdt_next_tag(b, n.off).next = next
    BY <1>6 DEF IsNode
  <2>5. Stays(d, node, next)
    BY <1>1, <1>2, <2>2, <2>3, <2>4
  <2>6. NoNode(b, n.off, next)
    <3> SUFFICES ASSUME NEW c \in Starts(b.words), n.off < c, c < next PROVE FALSE
      BY DEF NoNode
    <3>1. next <= c /\ next \in Nat /\ c \in Nat
      BY <1>0, <1>1, <2>1, NoTagBetween
    <3> QED
      BY <3>1
  <2> HIDE DEF next
  <2> QED
    BY <1>0, <1>1, <2>1, <2>2, <2>5, <2>6, SpotFields
<1>8. ArrivesFrom(b, Q, r)
  <2> HIDE DEF Q, next
  <2> QED
    BY <1>1, <1>5, <1>6, <1>7, NextNodeOf
<1>9. PICK q \in Q : Arrives(b, q, r)
  BY <1>8 DEF ArrivesFrom
<1> DEFINE t == fdt_next_tag(b, q.off)
<1>10. /\ q.off \in Starts(b.words) /\ q.off > n.off /\ q.off \in Nat
       /\ q.off > node /\ NoNode(b, n.off, q.off)
       /\ q.depth \in Nat /\ d[q.off] = d[node] + q.depth + 1
       /\ Stays(d, node, q.off) /\ TagAt(b, q.off, t)
  BY <1>3
<1> HIDE DEF Q, r, t
<1>11. CASE t.tag = "BEGIN"
  <2>1. r = Spot(q.off, q.depth + 1) /\ At(b, q.off).tag = "BEGIN"
    BY <1>9, <1>10, <1>11 DEF Arrives, TagAt, t
  <2>2. r \in Spots /\ r.off = q.off /\ r.depth = q.depth + 1
    BY <1>10, <2>1, SpotFields
  <2>3. d[r.off] = d[node] + r.depth /\ Stays(d, node, r.off)
    BY <1>0, <1>10, <2>2
  <2>4. r.off >= node /\ r.depth >= 0
    BY <1>0, <1>10, <2>2
  <2>5. r \in Inside(b, node)
    BY <1>10, <2>1, <2>2, <2>3, <2>4 DEF Inside
  <2> QED
    BY <1>10, <2>2, <2>5 DEF r
<1>12. CASE t.tag = "END_NODE"
  <2>1. r = Spot(t.next, -1) /\ q.depth = 0
    BY <1>9, <1>12 DEF Arrives, t
  <2>2. opens(At(b, q.off)) = -1
    BY <1>10, <1>12, Opens DEF TagAt
  <2>3. t.next \in Starts(b.words) /\ d[t.next] = d[q.off] + -1 /\ t.next > q.off
    BY <1>0, <1>10, <1>12, <2>2 DEF TagAt
  <2>4. t.next \in Int /\ t.next > node /\ t.next > n.off /\ d[t.next] = d[node]
    <3> HIDE DEF d
    <3>1. t.next \in Nat /\ d[t.next] = d[q.off] + -1 /\ t.next > q.off
      BY <1>0, <2>3 DEF d
    <3>2. d[q.off] = d[node] + 0 + 1
      BY <1>10, <2>1
    <3> QED
      BY <1>0, <1>1, <1>10, <3>1, <3>2
  <2>5. r \in Spots /\ r.off = t.next /\ r.depth = -1
    <3>1. -1 \in Int
      OBVIOUS
    <3> QED
      BY <2>1, <2>4, <3>1, SpotFields
  <2>6. Stays(d, node, t.next - 1)
    <3>1. t.next = q.off + tag_words(At(b, q.off)) /\ At(b, q.off).tag = "END_NODE"
      BY <1>10, <1>12 DEF TagAt
    <3>2. tag_words(At(b, q.off)) = 1
      BY <3>1 DEF tag_words
    <3>3. t.next - 1 = q.off
      BY <1>10, <3>1, <3>2
    <3> QED
      BY <1>10, <3>3
  <2>7. r \in Inside(b, node)
    BY <2>3, <2>4, <2>5, <2>6 DEF Inside
  <2>8. NoNode(b, n.off, t.next)
    BY <1>4, <1>10, <1>12
  <2> QED
    BY <2>4, <2>5, <2>7, <2>8 DEF r
<1>13. CASE t.tag = "END"
  <2>1. q.off = Len(b.words) - 1
    BY <1>10, <1>13 DEF TagAt
  <2>2. d[q.off] = 0
    <3>1. q.off \in 1 .. Len(b.words) - 1
      BY <1>0, <1>10, <2>1
    <3> QED
      BY <2>1, <3>1 DEF Nested
  <2> HIDE DEF d
  <2>3. d[node] >= 0
    BY DEF d
  <2> QED
    BY <1>0, <1>10, <2>2, <2>3
<1> QED
  BY <1>9, <1>11, <1>12, <1>13 DEF Arrives, t

\* The loop that seeks a node's end finds the tag behind it, at the depth of the
\* node.
LEMMA EndIs ==
    ASSUME NEW b, Block(b.words), Nested(b.words), NEW node, NEW next,
           IsNode(b, node, next)
    PROVE  LET e == fdt_node_end_offset(b, node)
           IN  /\ e \in Starts(b.words) /\ e > node
               /\ Depths(b.words)[e] = Depths(b.words)[node]
               /\ Stays(Depths(b.words), node, e - 1)
<1> DEFINE e == fdt_node_end_offset(b, node)
           P == Inside(b, node)
<1>1. /\ node \in Starts(b.words) /\ node \in Int /\ Depths(b.words)[node] >= 0
      /\ Depths(b.words)[node] \in Int /\ At(b, node).tag = "BEGIN" /\ node \in Nat
  BY NodeInside, DepthNumbers DEF IsNode
<1>2. NodesIn(b, P)
  <2>1. ASSUME NEW n \in P, n.depth >= 0 PROVE fdt_next_node(b, n.off, n.depth) \in P
    BY <1>1, <2>1, WalkStep
  <2> QED
    BY <2>1 DEF NodesIn, Inside
<1>3. Spot(node, 0) \in P
  <2>1. Spot(node, 0) \in Spots /\ Spot(node, 0).off = node /\ Spot(node, 0).depth = 0
    BY <1>1, SpotFields
  <2> QED
    BY <1>1, <2>1 DEF Inside, Stays
<1>4. PICK n \in P : (n.off < 0 \/ n.depth < 0) /\ e = n.off
  <2> HIDE DEF P
  <2> QED
    BY <1>1, <1>2, <1>3, NodeEnd
<1> HIDE DEF e
<1>5. n.depth < 0 /\ n.off \in Starts(b.words) /\ n.depth \in Int
  <2>1. n \in Spots /\ n.off \in Starts(b.words)
    BY DEF Inside
  <2> QED
    BY <1>4, <2>1, SpotIs, DepthNumbers
<1>6. n.off > node /\ Depths(b.words)[n.off] = Depths(b.words)[node]
      /\ Stays(Depths(b.words), node, n.off - 1)
  BY <1>5 DEF Inside
<1> QED
  BY <1>4, <1>5, <1>6 DEF e

LEMMA EndFound ==
    ASSUME NEW b, Block(b.words), Nested(b.words), NEW node \in Int,
           fdt_node_end_offset(b, node) >= 0
    PROVE  LET e == fdt_node_end_offset(b, node)
           IN  /\ \E next \in Int : IsNode(b, node, next)
               /\ e \in Starts(b.words) /\ e > node
               /\ Depths(b.words)[e] = Depths(b.words)[node]
               /\ Stays(Depths(b.words), node, e - 1)
<1> DEFINE e == fdt_node_end_offset(b, node)
<1>1. PICK next \in Int : IsNode(b, node, next)
  <2> SUFFICES ASSUME \A next \in Int : ~IsNode(b, node, next) PROVE FALSE
    OBVIOUS
  <2> DEFINE err == -FDT_ERR_BADOFFSET
             P == {Spot(node, 0), Spot(err, 0)}
  <2>0. err = -4 /\ err \in Int
    BY DEF FDT_ERR_BADOFFSET
  <2>1. fdt_check_node_offset(b, node) = err
    <3>1. IsNode(b, node, fdt_check_node_offset(b, node)) =>
             fdt_check_node_offset(b, node) \in Int
      BY BlockMeans DEF IsNode
    <3> QED
      BY <3>1, CheckNode
  <2> HIDE DEF err
  <2>2. /\ Spot(node, 0) \in Spots /\ Spot(node, 0).off = node
        /\ Spot(node, 0).depth = 0
        /\ Spot(err, 0) \in Spots /\ Spot(err, 0).off = err /\ Spot(err, 0).depth = 0
    BY <2>0, SpotFields
  <2>3. node >= 0 => fdt_next_node(b, node, 0) = Spot(err, 0)
    BY <2>0, <2>1 DEF fdt_next_node
  <2>4. NodesIn(b, P)
    BY <2>0, <2>2, <2>3 DEF NodesIn
  <2>5. Spot(node, 0) \in P
    OBVIOUS
  <2>6. PICK n \in P : (n.off < 0 \/ n.depth < 0) /\ e = n.off
    <3> HIDE DEF P
    <3> QED
      BY <2>4, <2>5, NodeEnd
  <2> QED
    BY <2>0, <2>2, <2>6
<1> QED
  BY <1>1, EndIs

-----------------------------------------------------------------------------
(* Splicing                                                                *)

\* r is ws with n words at off replaced by those of new.
IsSplice(r, ws, off, n, new) ==
    /\ Block(r) /\ Len(r) = Len(ws) - n + Len(new)
    /\ \A k \in 1 .. Len(r) :
          r[k] = IF k <= off THEN ws[k]
                 ELSE IF k <= off + Len(new) THEN new[k - off]
                 ELSE ws[k - Len(new) + n]

Splice(ws, off, n, new) ==
    SubSeq(ws, 1, off) \o new \o SubSeq(ws, off + n + 1, Len(ws))

LEMMA PartOf ==
    ASSUME NEW s, IsSeq(s), NEW a \in Nat \ {0}, NEW z \in Nat, z <= Len(s), a <= z + 1
    PROVE  /\ IsSeq(SubSeq(s, a, z)) /\ Len(SubSeq(s, a, z)) = z - a + 1
           /\ \A k \in 1 .. z - a + 1 : SubSeq(s, a, z)[k] = s[k + a - 1]
<1>1. PICK S : s \in Seq(S)
  BY DEF IsSeq
<1>2. SubSeq(s, a, z) \in Seq(S)
  <2>1. \A k \in a .. z : k \in 1 .. Len(s)
    BY <1>1
  <2>2. \A k \in a .. z : s[k] \in S
    BY <1>1, <2>1
  <2> QED
    BY <1>1, <2>1, <2>2
<1>3. IsSeq(SubSeq(s, a, z))
  BY <1>2, SeqIs
<1>4. Len(SubSeq(s, a, z)) = z - a + 1
  BY <1>1
<1>5. ASSUME NEW k \in 1 .. z - a + 1 PROVE SubSeq(s, a, z)[k] = s[k + a - 1]
  BY <1>1, <1>5
<1> QED
  BY <1>3, <1>4, <1>5

LEMMA Spliced ==
    ASSUME NEW ws, Block(ws), NEW new, Block(new),
           NEW off \in Nat, NEW n \in Nat, off + n <= Len(ws)
    PROVE  IsSplice(Splice(ws, off, n, new), ws, off, n, new)
<1> DEFINE N == Len(ws)
           m == Len(new)
           A == SubSeq(ws, 1, off)
           Z == SubSeq(ws, off + n + 1, N)
           r == Splice(ws, off, n, new)
<1>1. /\ N \in Nat /\ DOMAIN ws = 1 .. N /\ IsSeq(ws)
      /\ m \in Nat /\ DOMAIN new = 1 .. m /\ IsSeq(new)
  BY BlockMeans DEF Block
<1>2. /\ IsSeq(A) /\ Len(A) = off /\ \A k \in 1 .. off : A[k] = ws[k]
  <2>1. /\ IsSeq(A) /\ Len(A) = off - 1 + 1
        /\ \A k \in 1 .. off - 1 + 1 : A[k] = ws[k + 1 - 1]
    BY <1>1, PartOf
  <2> HIDE DEF A
  <2> QED
    BY <2>1
<1>3. /\ IsSeq(Z) /\ Len(Z) = N - (off + n)
      /\ \A k \in 1 .. N - (off + n) : Z[k] = ws[k + (off + n)]
  <2> DEFINE a == off + n + 1
  <2>0. a \in Nat \ {0} /\ a <= N + 1
    BY <1>1
  <2>1. /\ IsSeq(Z) /\ Len(Z) = N - a + 1
        /\ \A k \in 1 .. N - a + 1 : Z[k] = ws[k + a - 1]
    <3> HIDE DEF a
    <3>1. /\ IsSeq(SubSeq(ws, a, N)) /\ Len(SubSeq(ws, a, N)) = N - a + 1
          /\ \A k \in 1 .. N - a + 1 : SubSeq(ws, a, N)[k] = ws[k + a - 1]
      BY <1>1, <2>0, PartOf
    <3> QED
      BY <3>1 DEF a
  <2>2. N - a + 1 = N - (off + n)
    BY <1>1
  <2>3. ASSUME NEW k \in 1 .. N - (off + n) PROVE Z[k] = ws[k + (off + n)]
    <3>1. k + a - 1 = k + (off + n)
      BY <1>1
    <3> HIDE DEF Z, a, N
    <3> QED
      BY <2>1, <2>2, <3>1
  <2> HIDE DEF Z, a, N
  <2> QED
    BY <2>1, <2>2, <2>3
<1> HIDE DEF A, Z
<1>4. /\ IsSeq(A \o new) /\ Len(A \o new) = off + m
      /\ \A k \in 1 .. off + m :
            (A \o new)[k] = IF k <= off THEN A[k] ELSE new[k - off]
  BY <1>1, <1>2, Joined
<1>5. r = (A \o new) \o Z
  BY DEF Splice, A, Z
<1> DEFINE B == A \o new
<1> HIDE DEF B, r, N, m
<1>6. /\ IsSeq(r) /\ Len(r) = off + m + (N - (off + n))
      /\ \A k \in 1 .. off + m + (N - (off + n)) :
            r[k] = IF k <= off + m THEN B[k] ELSE Z[k - (off + m)]
  <2>1. IsSeq(B) /\ Len(B) = off + m /\ r = B \o Z
    BY <1>4, <1>5 DEF B
  <2>2. /\ IsSeq(B \o Z) /\ Len(B \o Z) = Len(B) + Len(Z)
        /\ \A k \in 1 .. Len(B) + Len(Z) :
              (B \o Z)[k] = IF k <= Len(B) THEN B[k] ELSE Z[k - Len(B)]
    BY <1>3, <2>1, Joined
  <2> QED
    BY <1>3, <2>1, <2>2
<1>7. Len(r) = N - n + m /\ Len(r) \in Nat /\ off + n <= N
  BY <1>1, <1>6 DEF N
<1>8. ASSUME NEW k \in 1 .. Len(r)
      PROVE  r[k] = IF k <= off THEN ws[k]
                    ELSE IF k <= off + m THEN new[k - off]
                    ELSE ws[k - m + n]
  <2>1. r[k] = IF k <= off + m THEN B[k] ELSE Z[k - (off + m)]
    BY <1>1, <1>6
  <2>2. CASE k <= off
    <3>1. k \in 1 .. off /\ k \in 1 .. off + m /\ k <= off + m
      BY <1>1, <2>2
    <3> QED
      BY <1>2, <1>4, <2>1, <2>2, <3>1 DEF B
  <2>3. CASE k > off /\ k <= off + m
    <3>1. k \in 1 .. off + m /\ ~(k <= off)
      BY <1>1, <2>3
    <3> QED
      BY <1>4, <2>1, <2>3, <3>1 DEF B
  <2>4. CASE k > off + m
    <3>1. k - (off + m) \in 1 .. N - (off + n) /\ ~(k <= off + m) /\ ~(k <= off)
      BY <1>1, <1>7, <2>4
    <3>2. (k - (off + m)) + (off + n) = k - m + n
      BY <1>1
    <3> QED
      BY <1>3, <2>1, <3>1, <3>2
  <2> QED
    BY <1>1, <2>2, <2>3, <2>4
<1>9. ASSUME NEW k \in 1 .. Len(r) PROVE IsWord(r[k])
  <2>1. CASE k <= off
    <3>1. k \in DOMAIN ws /\ r[k] = ws[k]
      BY <1>1, <1>7, <1>8, <2>1
    <3> QED
      BY <3>1 DEF Block
  <2>2. CASE k > off /\ k <= off + m
    <3>1. k - off \in DOMAIN new /\ r[k] = new[k - off]
      BY <1>1, <1>7, <1>8, <2>2
    <3> QED
      BY <3>1 DEF Block
  <2>3. CASE k > off + m
    <3>1. r[k] = ws[k - m + n]
      <4>1. ~(k <= off + m) /\ ~(k <= off)
        BY <1>1, <2>3
      <4> QED
        BY <1>8, <4>1, Zenon
    <3>2. k - m + n \in DOMAIN ws
      BY <1>1, <1>7, <2>3
    <3> QED
      BY <3>1, <3>2 DEF Block
  <2> QED
    BY <1>1, <2>1, <2>2, <2>3
<1>10. Block(r)
  <2>1. DOMAIN r = 1 .. Len(r)
    BY <1>6, IsSeqMeans
  <2> QED
    BY <1>6, <1>9, <2>1 DEF Block
<1> QED
  BY <1>7, <1>8, <1>10 DEF IsSplice, r, N, m

\* What may go where n words at off were: whole tags, none of which ends the
\* block, that leave the root open and lead to the depth of what follows.
Fits(ws, off, n, new) ==
    /\ off \in Nat \ {0} /\ n \in Nat
    /\ off \in Starts(ws) /\ off + n \in Starts(ws)
    /\ Block(new) /\ Units(new)
    /\ Len(new) > 0 => new[1].tag # "CONT"
    /\ \A k \in 1 .. Len(new) : new[k].tag # "END"
    /\ \A k \in 0 .. Len(new) : Depths(ws)[off] + Depths(new)[k] > 0
    /\ Depths(ws)[off] + Depths(new)[Len(new)] = Depths(ws)[off + n]

\* Neither the old nor the new words are the last ones.
LEMMA FitsInside ==
    ASSUME NEW ws, Block(ws), Nested(ws), NEW off, NEW n, NEW new,
           Fits(ws, off, n, new)
    PROVE  /\ Len(ws) \in Nat /\ Len(new) \in Nat /\ off \in Nat /\ n \in Nat
           /\ off > 0 /\ off + n < Len(ws) - 1
           /\ ws[off + 1].tag # "CONT" /\ ws[off + n + 1].tag # "CONT"
<1> DEFINE N == Len(ws)
           m == Len(new)
           d == Depths(ws)
<1>1. N \in Nat /\ m \in Nat /\ off \in Nat /\ n \in Nat /\ off > 0
  BY BlockMeans DEF Fits
<1>2. off + n \in 0 .. N - 1 /\ ws[off + 1].tag # "CONT"
      /\ ws[(off + n) + 1].tag # "CONT"
  BY DEF Fits, Starts
<1>3. d[off + n] > 0
  <2>1. m \in 0 .. m
    BY <1>1
  <2>2. d[off] + Depths(new)[m] > 0 /\ d[off] + Depths(new)[m] = d[off + n]
    BY <2>1 DEF Fits
  <2> QED
    BY <2>2
<1>4. off + n # N - 1
  <2> SUFFICES ASSUME off + n = N - 1 PROVE FALSE
    OBVIOUS
  <2>1. N - 1 \in 1 .. N - 1
    BY <1>1
  <2>2. d[N - 1] = 0
    BY <2>1 DEF Nested
  <2> QED
    BY <1>3, <2>2
<1> HIDE DEF N
<1> QED
  BY <1>1, <1>2, <1>4 DEF N

\* Where a spliced block has its tags.
LEMMA SplicedUnits ==
    ASSUME NEW ws, Block(ws), Nested(ws), NEW off, NEW n, NEW new,
           Fits(ws, off, n, new), NEW r, IsSplice(r, ws, off, n, new)
    PROVE  Units(r)
<1> DEFINE N == Len(ws)
           m == Len(new)
           M == Len(r)
<1>1. /\ N \in Nat /\ m \in Nat /\ off \in Nat /\ n \in Nat
      /\ off > 0 /\ off + n < N - 1
      /\ ws[off + 1].tag # "CONT" /\ ws[off + n + 1].tag # "CONT"
  BY FitsInside
<1>2. M = N - n + m /\ \A k \in 1 .. M :
         r[k] = IF k <= off THEN ws[k]
                ELSE IF k <= off + m THEN new[k - off]
                ELSE ws[k - m + n]
  BY DEF IsSplice
<1>3. \A k \in 1 .. N : ws[k].tag # "CONT" =>
         /\ k + tag_words(ws[k]) <= N + 1
         /\ \A j \in k + 1 .. (k + tag_words(ws[k])) - 1 : ws[j].tag = "CONT"
         /\ k + tag_words(ws[k]) <= N => ws[k + tag_words(ws[k])].tag # "CONT"
  BY DEF Nested, Units
<1>4. \A k \in 1 .. m : new[k].tag # "CONT" =>
         /\ k + tag_words(new[k]) <= m + 1
         /\ \A j \in k + 1 .. (k + tag_words(new[k])) - 1 : new[j].tag = "CONT"
         /\ k + tag_words(new[k]) <= m => new[k + tag_words(new[k])].tag # "CONT"
  BY DEF Fits, Units
<1>5. m > 0 => new[1].tag # "CONT"
  BY DEF Fits
<1>6. r[off + m + 1].tag # "CONT" /\ r[off + 1].tag # "CONT"
  <2>1. r[off + m + 1] = ws[off + n + 1]
    <3>1. off + m + 1 \in 1 .. M /\ ~(off + m + 1 <= off)
          /\ ~(off + m + 1 <= off + m) /\ (off + m + 1) - m + n = off + n + 1
      BY <1>1, <1>2
    <3> HIDE DEF M
    <3> QED
      BY <1>2, <3>1
  <2>2. CASE m = 0
    BY <1>1, <2>1, <2>2
  <2>3. CASE m > 0
    <3>1. off + 1 \in 1 .. M /\ ~(off + 1 <= off) /\ off + 1 <= off + m
          /\ (off + 1) - off = 1
      BY <1>1, <1>2, <2>3
    <3>2. r[off + 1] = new[1]
      <4> HIDE DEF M
      <4> QED
        BY <1>2, <3>1
    <3> QED
      BY <1>1, <1>5, <2>1, <2>3, <3>2
  <2> QED
    BY <1>1, <2>2, <2>3
<1> SUFFICES ASSUME NEW k \in 1 .. M, r[k].tag # "CONT"
             PROVE  /\ k + tag_words(r[k]) <= M + 1
                    /\ \A j \in k + 1 .. (k + tag_words(r[k])) - 1 : r[j].tag = "CONT"
                    /\ k + tag_words(r[k]) <= M => r[k + tag_words(r[k])].tag # "CONT"
  BY DEF Units
<1>7. tag_words(r[k]) \in Nat \ {0}
  BY BlockMeans DEF IsSplice
<1> DEFINE t == tag_words(r[k])
<1> HIDE DEF t, N, m, M
<1>8. CASE k <= off
  <2>1. r[k] = ws[k] /\ k \in 1 .. N
    BY <1>1, <1>2, <1>8
  <2>2. /\ k + t <= N + 1
        /\ \A j \in k + 1 .. (k + t) - 1 : ws[j].tag = "CONT"
        /\ k + t <= N => ws[k + t].tag # "CONT"
    BY <1>3, <2>1 DEF t
  <2>3. k + t <= off + 1
    <3> SUFFICES ASSUME k + t > off + 1 PROVE FALSE
      BY <1>1, <1>7 DEF t
    <3>1. off + 1 \in k + 1 .. (k + t) - 1
      BY <1>1, <1>7, <1>8 DEF t
    <3> QED
      BY <1>1, <2>2, <3>1
  <2>4. ASSUME NEW j \in k + 1 .. (k + t) - 1 PROVE r[j].tag = "CONT"
    <3>1. j \in 1 .. M /\ j <= off
      BY <1>1, <1>2, <1>7, <2>3 DEF t
    <3> QED
      BY <1>2, <2>2, <3>1
  <2>5. r[k + t].tag # "CONT"
    <3>1. CASE k + t <= off
      <4>1. k + t \in 1 .. M /\ k + t <= N
        BY <1>1, <1>2, <1>7, <3>1 DEF t
      <4> QED
        BY <1>2, <2>2, <3>1, <4>1
    <3>2. CASE k + t = off + 1
      BY <1>6, <3>2
    <3> QED
      BY <1>1, <1>7, <2>3, <3>1, <3>2 DEF t
  <2>6. k + t <= M + 1
    BY <1>1, <1>2, <1>7, <2>3 DEF t
  <2> QED
    BY <2>4, <2>5, <2>6 DEF t
<1>9. CASE k > off /\ k <= off + m
  <2> DEFINE i == k - off
  <2>1. r[k] = new[i] /\ i \in 1 .. m
    BY <1>1, <1>2, <1>9
  <2> HIDE DEF i
  <2>2. /\ i + t <= m + 1
        /\ \A j \in i + 1 .. (i + t) - 1 : new[j].tag = "CONT"
        /\ i + t <= m => new[i + t].tag # "CONT"
    BY <1>4, <2>1 DEF t
  <2>3. k + t <= off + m + 1
    BY <1>1, <1>7, <2>2 DEF t, i
  <2>4. ASSUME NEW j \in k + 1 .. (k + t) - 1 PROVE r[j].tag = "CONT"
    <3>1. j \in 1 .. M /\ j > off /\ j <= off + m
          /\ j - off \in i + 1 .. (i + t) - 1
      BY <1>1, <1>2, <1>7, <1>9, <2>3 DEF t, i
    <3>2. r[j] = new[j - off]
      BY <1>1, <1>2, <3>1
    <3> QED
      BY <2>2, <3>1, <3>2
  <2>5. r[k + t].tag # "CONT"
    <3>1. CASE k + t <= off + m
      <4>1. k + t \in 1 .. M /\ ~(k + t <= off) /\ (k + t) - off = i + t /\ i + t <= m
        BY <1>1, <1>2, <1>7, <1>9, <3>1 DEF t, i
      <4> QED
        BY <1>2, <2>2, <3>1, <4>1
    <3>2. CASE k + t = off + m + 1
      BY <1>6, <3>2
    <3> QED
      BY <1>1, <1>7, <2>3, <3>1, <3>2 DEF t
  <2>6. k + t <= M + 1
    BY <1>1, <1>2, <1>7, <2>3 DEF t
  <2> QED
    BY <2>4, <2>5, <2>6 DEF t
<1>10. CASE k > off + m
  <2> DEFINE i == k - m + n
  <2>1. r[k] = ws[i] /\ i \in 1 .. N
    BY <1>1, <1>2, <1>10
  <2> HIDE DEF i
  <2>2. /\ i + t <= N + 1
        /\ \A j \in i + 1 .. (i + t) - 1 : ws[j].tag = "CONT"
        /\ i + t <= N => ws[i + t].tag # "CONT"
    BY <1>3, <2>1 DEF t
  <2>3. k + t <= M + 1
    BY <1>1, <1>2, <1>7, <2>2 DEF t, i
  <2>4. ASSUME NEW j \in k + 1 .. (k + t) - 1 PROVE r[j].tag = "CONT"
    <3>1. j \in 1 .. M /\ ~(j <= off) /\ ~(j <= off + m)
          /\ j - m + n \in i + 1 .. (i + t) - 1
      BY <1>1, <1>2, <1>7, <1>10, <2>3 DEF t, i
    <3>2. r[j] = ws[j - m + n]
      BY <1>1, <1>2, <3>1
    <3> QED
      BY <2>2, <3>1, <3>2
  <2>5. ASSUME k + t <= M PROVE r[k + t].tag # "CONT"
    <3>1. k + t \in 1 .. M /\ ~(k + t <= off) /\ ~(k + t <= off + m)
          /\ (k + t) - m + n = i + t /\ i + t <= N
      BY <1>1, <1>2, <1>7, <1>10, <2>5 DEF t, i
    <3>2. r[k + t] = ws[i + t]
      BY <1>2, <3>1
    <3> QED
      BY <2>2, <3>1, <3>2
  <2> QED
    BY <2>3, <2>4, <2>5 DEF t
<1> QED
  BY <1>1, <1>8, <1>9, <1>10


\* The depths of a spliced block.
SpliceDepth(d, e, off, n, m, k) ==
    IF k <= off THEN d[k] ELSE IF k <= off + m THEN d[off] + e[k - off]
    ELSE d[k - m + n]

LEMMA SplicedDepths ==
    ASSUME NEW ws, Block(ws), Nested(ws), NEW off, NEW n, NEW new,
           Fits(ws, off, n, new), NEW r, IsSplice(r, ws, off, n, new)
    PROVE  \A k \in 0 .. Len(r) :
              Depths(r)[k] = SpliceDepth(Depths(ws), Depths(new), off, n, Len(new), k)
<1> DEFINE N == Len(ws)
           m == Len(new)
           M == Len(r)
           d == Depths(ws)
           e == Depths(new)
           D == [k \in 0 .. M |-> SpliceDepth(d, e, off, n, m, k)]
<1>1. /\ N \in Nat /\ m \in Nat /\ off \in Nat /\ n \in Nat
      /\ off > 0 /\ off + n < N - 1
  BY FitsInside
<1>2. M = N - n + m /\ \A k \in 1 .. M :
         r[k] = IF k <= off THEN ws[k]
                ELSE IF k <= off + m THEN new[k - off]
                ELSE ws[k - m + n]
  BY DEF IsSplice
<1>3. DepthsAre(ws, d) /\ DepthsAre(new, e) /\ DepthsAre(r, Depths(r)) /\ M \in Nat
  BY <1>1, <1>2, DepthsExist
<1>4. d \in [0 .. N -> Int] /\ d[0] = 0 /\ e \in [0 .. m -> Int] /\ e[0] = 0
      /\ (\A k \in 1 .. N : d[k] = d[k - 1] + opens(ws[k]))
      /\ \A k \in 1 .. m : e[k] = e[k - 1] + opens(new[k])
  BY <1>3 DEF DepthsAre
<1>5. d[off] + e[m] = d[off + n]
  BY DEF Fits
<1> HIDE DEF d, e, N, m, M
<1>6. ASSUME NEW k \in 0 .. M PROVE SpliceDepth(d, e, off, n, m, k) \in Int
  <2>1. CASE k <= off
    <3>1. k \in 0 .. N
      BY <1>1, <2>1
    <3> QED
      BY <1>4, <2>1, <3>1 DEF SpliceDepth
  <2>2. CASE k > off /\ k <= off + m
    <3>1. off \in 0 .. N /\ k - off \in 0 .. m /\ ~(k <= off)
      BY <1>1, <2>2
    <3>2. d[off] \in Int /\ e[k - off] \in Int
      BY <1>4, <3>1
    <3> QED
      BY <2>2, <3>1, <3>2 DEF SpliceDepth
  <2>3. CASE k > off + m
    <3>1. k - m + n \in 0 .. N /\ ~(k <= off) /\ ~(k <= off + m)
      BY <1>1, <1>2, <2>3
    <3> QED
      BY <1>4, <2>3, <3>1 DEF SpliceDepth
  <2> QED
    BY <1>1, <1>3, <2>1, <2>2, <2>3
<1>7. ASSUME NEW k \in 1 .. M
      PROVE  SpliceDepth(d, e, off, n, m, k)
                = SpliceDepth(d, e, off, n, m, k - 1) + opens(r[k])
  <2>1. CASE k <= off
    <3>1. k \in 1 .. N /\ k - 1 <= off
      BY <1>1, <2>1
    <3>2. r[k] = ws[k]
      BY <1>2, <2>1
    <3> QED
      BY <1>4, <2>1, <3>1, <3>2 DEF SpliceDepth
  <2>2. CASE k > off /\ k <= off + m
    <3>1. k - off \in 1 .. m /\ off \in 0 .. N /\ ~(k <= off)
          /\ (k - off) - 1 = (k - 1) - off /\ k - 1 <= off + m
          /\ (k - off) - 1 \in 0 .. m
      BY <1>1, <2>2
    <3>2. r[k] = new[k - off]
      BY <1>2, <2>2, <3>1
    <3>3. e[k - off] = e[(k - off) - 1] + opens(new[k - off])
      BY <1>4, <3>1
    <3>4. SpliceDepth(d, e, off, n, m, k - 1) = d[off] + e[(k - off) - 1]
      <4>1. CASE k - 1 <= off
        <5>1. k - 1 = off /\ (k - off) - 1 = 0
          BY <1>1, <2>2, <4>1
        <5>2. d[off] \in Int /\ d[off] + 0 = d[off]
          BY <1>4, <3>1
        <5> QED
          BY <1>4, <4>1, <5>1, <5>2 DEF SpliceDepth
      <4>2. CASE ~(k - 1 <= off)
        BY <3>1, <4>2 DEF SpliceDepth
      <4> QED
        BY <4>1, <4>2
    <3>5. SpliceDepth(d, e, off, n, m, k) = d[off] + e[k - off]
      BY <2>2, <3>1 DEF SpliceDepth
    <3>6. d[off] \in Int /\ e[(k - off) - 1] \in Int /\ opens(new[k - off]) \in Int
      BY <1>4, <3>1, Opens
    <3> QED
      BY <3>2, <3>3, <3>4, <3>5, <3>6
  <2>3. CASE k > off + m
    <3> DEFINE i == k - m + n
    <3>1. i \in 1 .. N /\ ~(k <= off) /\ ~(k <= off + m) /\ i - 1 = (k - 1) - m + n
      BY <1>1, <1>2, <2>3
    <3>2. r[k] = ws[i]
      BY <1>2, <3>1
    <3>3. SpliceDepth(d, e, off, n, m, k) = d[i]
      BY <3>1 DEF SpliceDepth
    <3>4. SpliceDepth(d, e, off, n, m, k - 1) = d[i - 1]
      <4>1. CASE k - 1 > off + m
        <5>1. ~(k - 1 <= off) /\ ~(k - 1 <= off + m)
          BY <1>1, <4>1
        <5> QED
          BY <3>1, <5>1 DEF SpliceDepth
      <4>2. CASE k - 1 = off + m /\ m > 0
        <5>1. ~(k - 1 <= off) /\ k - 1 <= off + m /\ (k - 1) - off = m
              /\ i - 1 = off + n
          BY <1>1, <4>2
        <5> QED
          BY <1>5, <5>1 DEF SpliceDepth
      <4>3. CASE k - 1 = off + m /\ m = 0
        <5>1. k - 1 = off /\ k - 1 <= off /\ i - 1 = off + n
          BY <1>1, <4>3
        <5>2. d[off] \in Int
          BY <1>1, <1>4
        <5>3. d[off] + e[0] = d[off + n]
          BY <1>5, <4>3
        <5> QED
          BY <1>4, <5>1, <5>2, <5>3 DEF SpliceDepth
      <4> QED
        BY <1>1, <1>3, <2>3, <4>1, <4>2, <4>3
    <3>5. d[i] = d[i - 1] + opens(ws[i])
      BY <1>4, <3>1
    <3> QED
      BY <3>2, <3>3, <3>4, <3>5
  <2> QED
    BY <1>1, <1>3, <2>1, <2>2, <2>3
<1>8. DepthsAre(r, D)
  <2>1. D \in [0 .. M -> Int]
    BY <1>6
  <2>2. D[0] = 0
    <3>1. 0 \in 0 .. M /\ 0 <= off
      BY <1>1, <1>3
    <3> QED
      BY <1>4, <3>1 DEF SpliceDepth
  <2>3. ASSUME NEW k \in 1 .. M PROVE D[k] = D[k - 1] + opens(r[k])
    <3>1. k \in 0 .. M /\ k - 1 \in 0 .. M
      BY <1>3
    <3> QED
      BY <1>7, <3>1
  <2> HIDE DEF D
  <2> QED
    BY <2>1, <2>2, <2>3 DEF DepthsAre, M
<1>9. Depths(r) = D
  <2> HIDE DEF D
  <2>1. Len(r) \in Nat
    BY <1>3 DEF M
  <2> QED
    BY <1>3, <1>8, <2>1, DepthsUnique
<1> QED
  BY <1>9 DEF M, d, e, m

LEMMA SplicedNested ==
    ASSUME NEW ws, Block(ws), Nested(ws), NEW off, NEW n, NEW new,
           Fits(ws, off, n, new), NEW r, IsSplice(r, ws, off, n, new)
    PROVE  Nested(r)
<1> DEFINE N == Len(ws)
           m == Len(new)
           M == Len(r)
           d == Depths(ws)
           e == Depths(new)
<1>1. /\ N \in Nat /\ m \in Nat /\ off \in Nat /\ n \in Nat
      /\ off > 0 /\ off + n < N - 1
  BY FitsInside
<1>2. M = N - n + m /\ \A k \in 1 .. M :
         r[k] = IF k <= off THEN ws[k]
                ELSE IF k <= off + m THEN new[k - off]
                ELSE ws[k - m + n]
  BY DEF IsSplice
<1>3. \A k \in 0 .. M : Depths(r)[k] = SpliceDepth(d, e, off, n, m, k)
  BY SplicedDepths
<1>4. /\ ws[1].tag = "BEGIN"
      /\ \A k \in 1 .. N : ws[k].tag = "END" <=> k = N
      /\ \A k \in 1 .. N - 1 : d[k] >= 0 /\ (d[k] = 0 <=> k = N - 1)
  BY DEF Nested
<1>5. /\ \A k \in 1 .. m : new[k].tag # "END"
      /\ \A k \in 0 .. m : d[off] + e[k] > 0
  BY DEF Fits
<1>6. Units(r)
  BY SplicedUnits
<1>7. DepthsAre(r, Depths(r))
  BY <1>1, <1>2, DepthsExist
<1> HIDE DEF N, m, M, d, e
<1>8. M > 1 /\ M \in Nat
  BY <1>1, <1>2
<1>9. r[1].tag = "BEGIN"
  <2>1. 1 \in 1 .. M /\ 1 <= off
    BY <1>1, <1>8
  <2> QED
    BY <1>2, <1>4, <2>1
<1>10. ASSUME NEW k \in 1 .. M PROVE r[k].tag = "END" <=> k = M
  <2>1. CASE k <= off
    <3>1. k \in 1 .. N /\ k # N /\ k # M /\ r[k] = ws[k]
      BY <1>1, <1>2, <2>1
    <3> QED
      BY <1>4, <3>1
  <2>2. CASE k > off /\ k <= off + m
    <3>1. k - off \in 1 .. m /\ k # M /\ r[k] = new[k - off]
      BY <1>1, <1>2, <2>2
    <3> QED
      BY <1>5, <3>1
  <2>3. CASE k > off + m
    <3>1. k - m + n \in 1 .. N /\ (k - m + n = N <=> k = M) /\ r[k] = ws[k - m + n]
      BY <1>1, <1>2, <2>3
    <3> QED
      BY <1>4, <3>1
  <2> QED
    BY <1>1, <1>8, <2>1, <2>2, <2>3
<1>11. ASSUME NEW k \in 1 .. M - 1
       PROVE  Depths(r)[k] >= 0 /\ (Depths(r)[k] = 0 <=> k = M - 1)
  <2>0. k \in 0 .. M /\ Depths(r)[k] = SpliceDepth(d, e, off, n, m, k)
    BY <1>3, <1>8
  <2>1. CASE k <= off
    <3>1. k \in 1 .. N - 1 /\ k # N - 1 /\ k # M - 1 /\ Depths(r)[k] = d[k]
      BY <1>1, <1>2, <2>0, <2>1 DEF SpliceDepth
    <3> QED
      BY <1>4, <3>1
  <2>2. CASE k > off /\ k <= off + m
    <3>1. k - off \in 0 .. m /\ k # M - 1 /\ ~(k <= off)
      BY <1>1, <1>2, <2>2
    <3>2. Depths(r)[k] = d[off] + e[k - off]
      BY <2>0, <2>2, <3>1 DEF SpliceDepth
    <3>3. Depths(r)[k] > 0
      BY <1>5, <3>1, <3>2
    <3>4. Depths(r)[k] \in Int
      BY <1>7, <2>0 DEF DepthsAre, M
    <3> QED
      BY <3>1, <3>3, <3>4
  <2>3. CASE k > off + m
    <3>1. k - m + n \in 1 .. N - 1 /\ (k - m + n = N - 1 <=> k = M - 1)
          /\ ~(k <= off) /\ ~(k <= off + m)
      BY <1>1, <1>2, <2>3
    <3>2. Depths(r)[k] = d[k - m + n]
      BY <2>0, <3>1 DEF SpliceDepth
    <3> QED
      BY <1>4, <3>1, <3>2
  <2> QED
    BY <1>1, <1>8, <2>1, <2>2, <2>3
<1> QED
  BY <1>6, <1>8, <1>9, <1>10, <1>11 DEF Nested, M

-----------------------------------------------------------------------------
(* The words that the calls put in place of others                         *)

\* A tag, and the words it takes up.
LEMMA UnitWords ==
    ASSUME NEW w, IsWord(w)
    PROVE  /\ Block(Unit(w)) /\ Len(Unit(w)) = tag_words(w)
           /\ Unit(w)[1] = w
           /\ \A k \in 2 .. tag_words(w) : Unit(w)[k] = Cont
<1> DEFINE n == tag_words(w)
           c == [k \in 1 .. n - 1 |-> Cont]
           u == Unit(w)
<1>1. n \in Nat \ {0}
  BY TagWords
<1> HIDE DEF n
<1>2. IsSeq(<<w>>) /\ Len(<<w>>) = 1 /\ <<w>>[1] = w
  <2>1. <<w>> \in Seq({w})
    OBVIOUS
  <2>2. IsSeq(<<w>>)
    BY <2>1, SeqIs
  <2> QED
    BY <2>2
<1>3. IsSeq(c) /\ Len(c) = n - 1
  <2>1. c \in Seq({Cont}) /\ Len(c) = n - 1
    BY <1>1
  <2> HIDE DEF c
  <2>2. IsSeq(c)
    BY <2>1, SeqIs
  <2> QED
    BY <2>1, <2>2
<1>4. u = <<w>> \o c
  BY DEF Unit, n
<1>5. /\ IsSeq(<<w>> \o c) /\ Len(<<w>> \o c) = Len(<<w>>) + Len(c)
      /\ \A k \in 1 .. Len(<<w>>) + Len(c) :
            (<<w>> \o c)[k] = IF k <= Len(<<w>>) THEN <<w>>[k] ELSE c[k - Len(<<w>>)]
  <2> DEFINE v == <<w>>
  <2>1. IsSeq(v) /\ IsSeq(c)
    BY <1>2, <1>3
  <2> HIDE DEF v, c
  <2>2. /\ IsSeq(v \o c) /\ Len(v \o c) = Len(v) + Len(c)
        /\ \A k \in 1 .. Len(v) + Len(c) :
              (v \o c)[k] = IF k <= Len(v) THEN v[k] ELSE c[k - Len(v)]
    BY <2>1, Joined
  <2> QED
    BY <2>2 DEF v
<1>6. IsSeq(u) /\ Len(u) = n
  BY <1>1, <1>2, <1>3, <1>4, <1>5
<1>7. u[1] = w
  <2>1. 1 \in 1 .. Len(<<w>>) + Len(c) /\ 1 <= Len(<<w>>)
    BY <1>1, <1>2, <1>3
  <2> HIDE DEF u, c
  <2> QED
    BY <1>2, <1>4, <1>5, <2>1
<1>8. ASSUME NEW k \in 2 .. n PROVE u[k] = Cont
  <2>1. k \in 1 .. Len(<<w>>) + Len(c) /\ ~(k <= Len(<<w>>))
        /\ k - Len(<<w>>) \in 1 .. n - 1
    BY <1>1, <1>2, <1>3
  <2>2. u[k] = c[k - Len(<<w>>)]
    <3> HIDE DEF u, c
    <3> QED
      BY <1>4, <1>5, <2>1
  <2> QED
    BY <2>1, <2>2
<1>9. Block(u)
  <2> HIDE DEF u
  <2>1. DOMAIN u = 1 .. n
    BY <1>6, IsSeqMeans
  <2>2. ASSUME NEW k \in 1 .. n PROVE IsWord(u[k])
    <3>1. k = 1 \/ k \in 2 .. n
      BY <1>1
    <3> QED
      BY <1>7, <1>8, <3>1, FixedTags
  <2> QED
    BY <1>6, <2>1, <2>2 DEF Block
<1> QED
  BY <1>6, <1>7, <1>8, <1>9 DEF n

LEMMA UnitUnits ==
    ASSUME NEW w, IsWord(w), w.tag # "CONT"
    PROVE  Units(Unit(w))
<1> DEFINE n == tag_words(w)
           u == Unit(w)
<1>1. n \in Nat \ {0}
  BY TagWords
<1>2. Len(u) = n /\ u[1] = w /\ \A k \in 2 .. n : u[k] = Cont
  BY UnitWords
<1>3. Cont.tag = "CONT"
  BY DEF Cont, Word
<1> HIDE DEF u
<1> SUFFICES ASSUME NEW k \in 1 .. n, u[k].tag # "CONT"
             PROVE  /\ k + tag_words(u[k]) <= n + 1
                    /\ \A j \in k + 1 .. (k + tag_words(u[k])) - 1 : u[j].tag = "CONT"
                    /\ k + tag_words(u[k]) <= n => u[k + tag_words(u[k])].tag # "CONT"
  BY <1>2 DEF Units, u
<1>4. k = 1
  <2>1. k = 1 \/ k \in 2 .. n
    BY <1>1
  <2> QED
    BY <1>2, <1>3, <2>1
<1>5. k + tag_words(u[k]) = n + 1
  BY <1>1, <1>2, <1>4
<1>6. ASSUME NEW j \in k + 1 .. (k + tag_words(u[k])) - 1 PROVE u[j].tag = "CONT"
  <2>1. j \in 2 .. n
    BY <1>1, <1>4, <1>5
  <2> QED
    BY <1>2, <1>3, <2>1
<1> HIDE DEF n
<1> QED
  BY <1>1, <1>5, <1>6

\* Behind the first word of a tag the depth no longer changes.
LEMMA UnitDepths ==
    ASSUME NEW w, IsWord(w)
    PROVE  \A k \in 0 .. tag_words(w) :
              Depths(Unit(w))[k] = IF k = 0 THEN 0 ELSE opens(w)
<1> DEFINE n == tag_words(w)
           u == Unit(w)
           D == [k \in 0 .. n |-> IF k = 0 THEN 0 ELSE opens(w)]
<1>1. n \in Nat \ {0} /\ opens(w) \in Int
  BY TagWords, Opens
<1>2. Len(u) = n /\ u[1] = w /\ \A k \in 2 .. n : u[k] = Cont
  BY UnitWords
<1>3. opens(Cont) = 0
  BY DEF opens, Cont, Word
<1> HIDE DEF u, n
<1>4. DepthsAre(u, D)
  <2>1. D \in [0 .. n -> Int]
    BY <1>1
  <2>2. D[0] = 0
    BY <1>1
  <2>3. ASSUME NEW k \in 1 .. n PROVE D[k] = D[k - 1] + opens(u[k])
    <3>1. CASE k = 1
      <4>1. D[1] = opens(w) /\ D[0] = 0
        BY <1>1
      <4> QED
        BY <1>1, <1>2, <3>1, <4>1
    <3>2. CASE k # 1
      <4>1. k \in 2 .. n /\ k \in 0 .. n /\ k # 0 /\ k - 1 \in 0 .. n /\ k - 1 # 0
        BY <1>1, <3>2
      <4>2. D[k] = opens(w) /\ D[k - 1] = opens(w)
        BY <4>1
      <4>3. opens(u[k]) = 0
        BY <1>2, <1>3, <4>1
      <4> HIDE DEF D
      <4> QED
        BY <1>1, <4>2, <4>3
    <3> QED
      BY <3>1, <3>2
  <2> HIDE DEF D
  <2> QED
    BY <1>2, <2>1, <2>2, <2>3 DEF DepthsAre
<1>5. DepthsAre(u, Depths(u)) /\ Len(u) \in Nat
  BY <1>1, <1>2, DepthsExist
<1>6. Depths(u) = D
  <2> HIDE DEF D
  <2> QED
    BY <1>4, <1>5, DepthsUnique
<1> QED
  BY <1>6 DEF n, u

\* A tag in place of another one, or in front of one.
LEMMA TagFits ==
    ASSUME NEW ws, Block(ws), NEW w, IsWord(w), w.tag \in {"BEGIN", "PROP"},
           NEW off \in Starts(ws), NEW n \in Nat, off > 0,
           off + n \in Starts(ws), Depths(ws)[off] > 0,
           Depths(ws)[off + n] = Depths(ws)[off] + opens(w)
    PROVE  Fits(ws, off, n, Unit(w))
<1> DEFINE m == tag_words(w)
           u == Unit(w)
           d == Depths(ws)
<1>1. m \in Nat \ {0} /\ opens(w) \in Nat
  BY TagWords, Opens
<1>2. Block(u) /\ Len(u) = m /\ u[1] = w /\ \A k \in 2 .. m : u[k] = Cont
  BY UnitWords
<1>3. Units(u)
  BY UnitUnits
<1>4. \A k \in 0 .. m : Depths(u)[k] = IF k = 0 THEN 0 ELSE opens(w)
  BY UnitDepths
<1>5. off \in Nat \ {0} /\ d[off] \in Int
  <2>1. Len(ws) \in Nat /\ DepthsAre(ws, d) /\ off \in 0 .. Len(ws)
    BY BlockMeans, DepthsExist DEF Starts
  <2> QED
    BY <2>1 DEF DepthsAre
<1> HIDE DEF u, m, d
<1>6. ASSUME NEW k \in 1 .. m PROVE u[k].tag # "END"
  <2>1. k = 1 \/ k \in 2 .. m
    BY <1>1
  <2>2. Cont.tag = "CONT"
    BY DEF Cont, Word
  <2>3. CASE k = 1
    BY <1>2, <2>3
  <2>4. CASE k \in 2 .. m
    BY <1>2, <2>2, <2>4
  <2> QED
    BY <2>1, <2>3, <2>4
<1>7. ASSUME NEW k \in 0 .. m PROVE d[off] + Depths(u)[k] > 0
  BY <1>1, <1>4, <1>5 DEF d
<1>8. d[off] + Depths(u)[m] = d[off + n]
  <2>1. m \in 0 .. m /\ m # 0
    BY <1>1
  <2> QED
    BY <1>4, <2>1 DEF d
<1>9. u[1].tag # "CONT"
  BY <1>2
<1> QED
  BY <1>2, <1>3, <1>5, <1>6, <1>7, <1>8, <1>9 DEF Fits, u, d

\* Nothing in place of whole tags or nodes.
LEMMA NothingFits ==
    ASSUME NEW ws, Block(ws), NEW off \in Starts(ws), NEW n \in Nat, off > 0,
           off + n \in Starts(ws), Depths(ws)[off] > 0,
           Depths(ws)[off + n] = Depths(ws)[off]
    PROVE  Fits(ws, off, n, <<>>)
<1> DEFINE d == Depths(ws)
           u == <<>>
<1>1. off \in Nat \ {0} /\ d[off] \in Int
  <2>1. Len(ws) \in Nat /\ DepthsAre(ws, d) /\ off \in 0 .. Len(ws)
    BY BlockMeans, DepthsExist DEF Starts
  <2> QED
    BY <2>1 DEF DepthsAre
<1>2. Len(u) = 0 /\ u \in Seq({})
  OBVIOUS
<1>3. IsSeq(u) /\ DOMAIN u = {}
  <2> HIDE DEF u
  <2>1. IsSeq(u)
    BY <1>2, SeqIs
  <2> QED
    BY <1>2, <2>1
<1> HIDE DEF u
<1>4. Block(u)
  BY <1>3 DEF Block
<1>5. Units(u)
  BY <1>2 DEF Units
<1>6. Depths(u)[0] = 0
  <2>1. DepthsAre(u, Depths(u))
    BY <1>2, DepthsExist
  <2> QED
    BY <2>1 DEF DepthsAre
<1> HIDE DEF d
<1>7. \A k \in 0 .. 0 : d[off] + Depths(u)[k] > 0
  <2>1. \A k \in 0 .. 0 : k = 0
    OBVIOUS
  <2> QED
    BY <1>1, <1>6, <2>1 DEF d
<1>8. d[off] + Depths(u)[0] = d[off + n]
  BY <1>1, <1>6 DEF d
<1>9. Fits(ws, off, n, u)
  BY <1>1, <1>2, <1>4, <1>5, <1>7, <1>8 DEF Fits, d
<1> QED
  BY <1>9 DEF u

\* An empty node: the words of its BEGIN tag, and END_NODE.
NewNode(name) == Unit(Begin(name)) \o <<EndNode>>

LEMMA NewNodeWords ==
    ASSUME NEW name, Len(name) \in Nat
    PROVE  /\ Block(NewNode(name)) /\ Len(NewNode(name)) = tag_words(Begin(name)) + 1
           /\ NewNode(name)[1] = Begin(name)
           /\ NewNode(name)[tag_words(Begin(name)) + 1] = EndNode
           /\ \A k \in 2 .. tag_words(Begin(name)) : NewNode(name)[k] = Cont
<1> DEFINE w == Begin(name)
           n == tag_words(w)
           v == Unit(w)
           z == <<EndNode>>
           u == NewNode(name)
<1>0. IsWord(w)
  BY NewTags, NoValue
<1>1. n \in Nat \ {0}
  BY <1>0, TagWords
<1>2. Block(v) /\ Len(v) = n /\ v[1] = w /\ \A k \in 2 .. n : v[k] = Cont
  BY <1>0, UnitWords
<1>3. IsSeq(z) /\ Len(z) = 1 /\ z[1] = EndNode
  <2>1. z \in Seq({EndNode}) /\ Len(z) = 1 /\ z[1] = EndNode
    OBVIOUS
  <2> HIDE DEF z
  <2> QED
    BY <2>1, SeqIs
<1>4. u = v \o z
  BY DEF NewNode
<1>5. IsSeq(v)
  BY <1>2 DEF Block
<1> HIDE DEF v, z, u, n, w
<1>6. /\ IsSeq(v \o z) /\ Len(v \o z) = Len(v) + Len(z)
      /\ \A k \in 1 .. Len(v) + Len(z) :
            (v \o z)[k] = IF k <= Len(v) THEN v[k] ELSE z[k - Len(v)]
  BY <1>3, <1>5, Joined
<1>7. IsSeq(u) /\ Len(u) = n + 1
      /\ \A k \in 1 .. n + 1 : u[k] = IF k <= n THEN v[k] ELSE z[k - n]
  BY <1>2, <1>3, <1>4, <1>6
<1>8. u[1] = w /\ u[n + 1] = EndNode
  <2>1. 1 \in 1 .. n + 1 /\ 1 <= n /\ n + 1 \in 1 .. n + 1 /\ ~(n + 1 <= n)
        /\ (n + 1) - n = 1
    BY <1>1
  <2> QED
    BY <1>2, <1>3, <1>7, <2>1
<1>9. ASSUME NEW k \in 2 .. n PROVE u[k] = Cont
  <2>1. k \in 1 .. n + 1 /\ k <= n
    BY <1>1
  <2> QED
    BY <1>2, <1>7, <2>1
<1>10. Block(u)
  <2>1. DOMAIN u = 1 .. n + 1
    BY <1>7, IsSeqMeans
  <2>2. ASSUME NEW k \in 1 .. n + 1 PROVE IsWord(u[k])
    <3>1. k = 1 \/ k \in 2 .. n \/ k = n + 1
      BY <1>1
    <3> QED
      BY <1>0, <1>8, <1>9, <3>1, FixedTags
  <2> QED
    BY <1>7, <2>1, <2>2 DEF Block
<1> QED
  BY <1>7, <1>8, <1>9, <1>10 DEF u, n, w

LEMMA NewNodeFits ==
    ASSUME NEW ws, Block(ws), NEW name, Len(name) \in Nat,
           NEW off \in Starts(ws), off > 0, Depths(ws)[off] > 0
    PROVE  Fits(ws, off, 0, NewNode(name))
<1> DEFINE w == Begin(name)
           n == tag_words(w)
           u == NewNode(name)
           d == Depths(ws)
           D == [k \in 0 .. n + 1 |-> IF k \in {0, n + 1} THEN 0 ELSE 1]
<1>0. IsWord(w) /\ n \in Nat \ {0} /\ w.tag = "BEGIN"
  BY NewTags, NoValue, TagWords DEF Begin, Word
<1>1. /\ Block(u) /\ Len(u) = n + 1 /\ u[1] = w /\ u[n + 1] = EndNode
      /\ \A k \in 2 .. n : u[k] = Cont
  BY NewNodeWords
<1>2. Cont.tag = "CONT" /\ EndNode.tag = "END_NODE" /\ tag_words(EndNode) = 1
      /\ opens(Cont) = 0 /\ opens(EndNode) = -1 /\ opens(w) = 1
  BY <1>0, Opens, FixedTags DEF Cont, EndNode, Word
<1>3. off \in Nat \ {0} /\ d[off] \in Int
  <2>1. Len(ws) \in Nat /\ DepthsAre(ws, d) /\ off \in 0 .. Len(ws)
    BY BlockMeans, DepthsExist DEF Starts
  <2> QED
    BY <2>1 DEF DepthsAre
<1> HIDE DEF u, n, d, w
<1>4. ASSUME NEW k \in 1 .. n + 1
      PROVE  k = 1 \/ k \in 2 .. n \/ k = n + 1
  BY <1>0
<1>5. DepthsAre(u, D)
  <2>1. D \in [0 .. n + 1 -> Int] /\ D[0] = 0
    BY <1>0
  <2>2. ASSUME NEW k \in 1 .. n + 1 PROVE D[k] = D[k - 1] + opens(u[k])
    <3>1. CASE k = 1
      <4>1. D[1] = 1 /\ D[0] = 0
        BY <1>0
      <4> HIDE DEF D
      <4> QED
        BY <1>1, <1>2, <3>1, <4>1
    <3>2. CASE k \in 2 .. n
      <4>1. D[k] = 1 /\ D[k - 1] = 1
        BY <1>0, <3>2
      <4> HIDE DEF D
      <4> QED
        BY <1>1, <1>2, <3>2, <4>1
    <3>3. CASE k = n + 1 /\ k # 1
      <4>1. D[k] = 0 /\ D[k - 1] = 1
        BY <1>0, <3>3
      <4> HIDE DEF D
      <4> QED
        BY <1>1, <1>2, <3>3, <4>1
    <3> QED
      BY <1>4, <3>1, <3>2, <3>3
  <2> HIDE DEF D
  <2> QED
    BY <1>1, <2>1, <2>2 DEF DepthsAre
<1>6. Depths(u) = D
  <2>1. DepthsAre(u, Depths(u)) /\ Len(u) \in Nat
    BY <1>0, <1>1, DepthsExist
  <2> HIDE DEF D
  <2> QED
    BY <1>5, <2>1, DepthsUnique
<1>7. Units(u)
  <2> SUFFICES ASSUME NEW k \in 1 .. n + 1, u[k].tag # "CONT"
               PROVE  /\ k + tag_words(u[k]) <= n + 2
                      /\ \A j \in k + 1 .. (k + tag_words(u[k])) - 1 : u[j].tag = "CONT"
                      /\ k + tag_words(u[k]) <= n + 1
                            => u[k + tag_words(u[k])].tag # "CONT"
    <3>1. (n + 1) + 1 = n + 2
      BY <1>0
    <3> QED
      BY <1>1, <3>1 DEF Units
  <2>1. CASE k = n + 1
    <3>1. tag_words(u[k]) = 1
      BY <1>1, <1>2, <2>1
    <3>2. k + 1 = n + 2 /\ ~(k + 1 <= n + 1) /\ k + 1 .. (k + 1) - 1 = {}
      BY <1>0, <2>1
    <3> QED
      BY <3>1, <3>2
  <2>2. CASE k = 1
    <3>1. tag_words(u[k]) = n
      BY <1>1, <2>2 DEF n
    <3>2. k + n = n + 1 /\ k + 1 .. (k + n) - 1 = 2 .. n
      BY <1>0, <2>2
    <3>3. \A j \in 2 .. n : u[j].tag = "CONT"
      BY <1>1, <1>2
    <3> QED
      BY <1>0, <1>1, <1>2, <3>1, <3>2, <3>3
  <2> QED
    BY <1>1, <1>2, <1>4, <2>1, <2>2
<1>8. ASSUME NEW k \in 1 .. n + 1 PROVE u[k].tag # "END"
  <2>1. CASE k = 1
    BY <1>0, <1>1, <2>1
  <2>2. CASE k \in 2 .. n
    BY <1>1, <1>2, <2>2
  <2>3. CASE k = n + 1
    BY <1>1, <1>2, <2>3
  <2> QED
    BY <1>4, <2>1, <2>2, <2>3
<1>9. ASSUME NEW k \in 0 .. n + 1 PROVE d[off] + Depths(u)[k] > 0
  <2>1. Depths(u)[k] \in {0, 1}
    BY <1>6
  <2>2. d[off] > 0
    BY DEF d
  <2> QED
    BY <1>3, <2>1, <2>2
<1>10. d[off] + Depths(u)[n + 1] = d[off + 0]
  <2>1. Depths(u)[n + 1] = 0
    BY <1>0, <1>6
  <2> QED
    BY <1>3, <2>1
<1>11. off + 0 \in Starts(ws)
  BY <1>3
<1>12. u[1].tag # "CONT"
  BY <1>0, <1>1
<1> QED
  BY <1>1, <1>3, <1>7, <1>8, <1>9, <1>10, <1>11, <1>12 DEF Fits, u, d

LEMMA NopWords ==
    ASSUME NEW n \in Nat
    PROVE  Block(Nops(n)) /\ Len(Nops(n)) = n /\ \A k \in 1 .. n : Nops(n)[k] = Nop
<1> DEFINE u == Nops(n)
<1>1. u \in Seq({Nop}) /\ Len(u) = n /\ \A k \in 1 .. n : u[k] = Nop
  BY DEF Nops
<1> HIDE DEF u
<1>2. IsSeq(u) /\ DOMAIN u = 1 .. n
  BY <1>1, SeqIs
<1>3. Block(u)
  BY <1>1, <1>2, FixedTags DEF Block
<1> QED
  BY <1>1, <1>3 DEF u

LEMMA NopsFit ==
    ASSUME NEW ws, Block(ws), NEW off \in Starts(ws), NEW n \in Nat, off > 0,
           off + n \in Starts(ws), Depths(ws)[off] > 0,
           Depths(ws)[off + n] = Depths(ws)[off]
    PROVE  Fits(ws, off, n, Nops(n))
<1> DEFINE u == Nops(n)
           d == Depths(ws)
           D == [k \in 0 .. n |-> 0]
<1>1. Block(u) /\ Len(u) = n /\ \A k \in 1 .. n : u[k] = Nop
  BY NopWords
<1>2. Nop.tag = "NOP" /\ tag_words(Nop) = 1 /\ opens(Nop) = 0
  <2>1. Nop.tag = "NOP"
    BY DEF Nop, Word
  <2>2. opens(Nop) = 0
    BY <2>1, Opens
  <2> QED
    BY <2>1, <2>2, FixedTags
<1>3. off \in Nat \ {0} /\ d[off] \in Int
  <2>1. Len(ws) \in Nat /\ DepthsAre(ws, d) /\ off \in 0 .. Len(ws)
    BY BlockMeans, DepthsExist DEF Starts
  <2> QED
    BY <2>1 DEF DepthsAre
<1> HIDE DEF u, d
<1>4. DepthsAre(u, D)
  <2>1. D \in [0 .. n -> Int] /\ D[0] = 0
    OBVIOUS
  <2>2. ASSUME NEW k \in 1 .. n PROVE D[k] = D[k - 1] + opens(u[k])
    <3>1. D[k] = 0 /\ D[k - 1] = 0
      OBVIOUS
    <3> HIDE DEF D
    <3> QED
      BY <1>1, <1>2, <3>1
  <2> HIDE DEF D
  <2> QED
    BY <1>1, <2>1, <2>2 DEF DepthsAre
<1>5. Depths(u) = D
  <2>1. DepthsAre(u, Depths(u)) /\ Len(u) \in Nat
    BY <1>1, DepthsExist
  <2> HIDE DEF D
  <2> QED
    BY <1>4, <2>1, DepthsUnique
<1>6. Units(u)
  <2>1. ASSUME NEW k \in 1 .. n
        PROVE  /\ k + tag_words(u[k]) <= n + 1
               /\ \A j \in k + 1 .. (k + tag_words(u[k])) - 1 : u[j].tag = "CONT"
               /\ k + tag_words(u[k]) <= n => u[k + tag_words(u[k])].tag # "CONT"
    <3>1. tag_words(u[k]) = 1
      BY <1>1, <1>2
    <3>2. k + 1 <= n + 1 /\ k + 1 .. (k + 1) - 1 = {}
      OBVIOUS
    <3>3. k + 1 <= n => u[k + 1].tag = "NOP"
      <4>1. k + 1 <= n => k + 1 \in 1 .. n
        OBVIOUS
      <4> QED
        BY <1>1, <1>2, <4>1
    <3> QED
      BY <3>1, <3>2, <3>3
  <2> QED
    BY <1>1, <2>1 DEF Units
<1>7. ASSUME NEW k \in 0 .. n PROVE d[off] + Depths(u)[k] > 0
  BY <1>3, <1>5 DEF d
<1>8. d[off] + Depths(u)[n] = d[off + n]
  BY <1>3, <1>5 DEF d
<1>9. n > 0 => u[1].tag # "CONT"
  <2>1. n > 0 => 1 \in 1 .. n
    OBVIOUS
  <2> QED
    BY <1>1, <1>2, <2>1
<1>10. ASSUME NEW k \in 1 .. n PROVE u[k].tag # "END"
  BY <1>1, <1>2
<1> QED
  BY <1>1, <1>3, <1>6, <1>7, <1>8, <1>9, <1>10 DEF Fits, u, d

-----------------------------------------------------------------------------
(* What an edit makes of the block                                         *)

\* Two blocks with the same words where one is a splice of the other.
LEMMA Overwritten ==
    ASSUME NEW b, Block(b.words), NEW new, Block(new), NEW off \in Nat,
           off + Len(new) <= Len(b.words)
    PROVE  /\ IsSplice(Overwrite(b, off, new).words, b.words, off, Len(new), new)
           /\ Len(Overwrite(b, off, new).words) = Len(b.words)
<1> DEFINE ws == b.words
           N == Len(ws)
           m == Len(new)
           r == Overwrite(b, off, new).words
<1>1. /\ N \in Nat /\ DOMAIN ws = 1 .. N /\ IsSeq(ws)
      /\ m \in Nat /\ DOMAIN new = 1 .. m /\ IsSeq(new)
  BY BlockMeans DEF Block
<1>2. r = [k \in DOMAIN ws |-> IF k \in off + 1 .. off + m THEN new[k - off]
                               ELSE ws[k]]
  BY DEF Overwrite
<1> HIDE DEF r, m, N, ws
<1>3. r = [k \in 1 .. N |-> IF k \in off + 1 .. off + m THEN new[k - off]
                           ELSE ws[k]]
  BY <1>1, <1>2
<1>4. ASSUME NEW k \in 1 .. N
      PROVE  /\ r[k] = IF k <= off THEN ws[k]
                       ELSE IF k <= off + m THEN new[k - off]
                       ELSE ws[k - m + m]
             /\ IsWord(r[k])
  <2>1. r[k] = IF k \in off + 1 .. off + m THEN new[k - off] ELSE ws[k]
    BY <1>3
  <2>2. k \in off + 1 .. off + m <=> ~(k <= off) /\ k <= off + m
    BY <1>1
  <2>3. k - m + m = k
    BY <1>1
  <2>4. IsWord(ws[k])
    BY <1>1 DEF Block, ws
  <2>5. k \in off + 1 .. off + m => IsWord(new[k - off])
    <3>1. k \in off + 1 .. off + m => k - off \in 1 .. m
      BY <1>1
    <3> QED
      BY <1>1, <3>1 DEF Block
  <2> QED
    BY <2>1, <2>2, <2>3, <2>4, <2>5
<1>5. IsSeq(r) /\ Len(r) = N
  <2> DEFINE S == {ws[k] : k \in 1 .. N} \cup {new[k] : k \in 1 .. m}
  <2>1. ASSUME NEW k \in 1 .. N PROVE r[k] \in S
    <3>1. k \in off + 1 .. off + m => k - off \in 1 .. m
      BY <1>1
    <3> QED
      BY <1>3, <3>1
  <2> HIDE DEF S
  <2>2. r \in [1 .. N -> S]
    BY <1>3, <2>1
  <2>3. r \in Seq(S) /\ Len(r) = N
    BY <1>1, <2>2
  <2> QED
    BY <2>3, SeqIs
<1>6. Block(r)
  <2>1. DOMAIN r = 1 .. N
    BY <1>5, IsSeqMeans
  <2> QED
    BY <1>4, <1>5, <2>1 DEF Block
<1>7. N = N - m + m
  BY <1>1
<1> QED
  BY <1>4, <1>5, <1>6, <1>7 DEF IsSplice, r, m, N, ws

\* A block is nested, or there is nothing in front of its end.
Shaped(ws) == Nested(ws) \/ Rootless(ws)

\* In a block without tags no offset is a node.
LEMMA RootlessHasNone ==
    ASSUME NEW b, Block(b.words), Rootless(b.words), NEW off \in Int
    PROVE  /\ \A next \in Int : ~IsNode(b, off, next)
           /\ fdt_check_node_offset(b, off) = -FDT_ERR_BADOFFSET
<1>1. Len(b.words) \in Nat
  BY BlockMeans
<1>2. ASSUME NEW next \in Int, IsNode(b, off, next) PROVE FALSE
  <2>1. off \in 0 .. Len(b.words) - 1 /\ At(b, off).tag = "BEGIN"
    BY <1>2 DEF IsNode
  <2>2. off + 1 \in 1 .. Len(b.words) /\ b.words[off + 1].tag = "BEGIN"
    BY <1>1, <2>1 DEF At
  <2> QED
    BY <2>2 DEF Rootless
<1>3. IsNode(b, off, fdt_check_node_offset(b, off)) =>
         fdt_check_node_offset(b, off) \in Int
  BY <1>1 DEF IsNode
<1> QED
  BY <1>2, <1>3, CheckNode

\* The calls make nothing of an offset that is not a node.
LEMMA NotNode ==
    ASSUME NEW b, Block(b.words), NEW off \in Int,
           \A next \in Int : ~IsNode(b, off, next)
    PROVE  /\ fdt_check_node_offset(b, off) = -FDT_ERR_BADOFFSET
           /\ \A name : fdt_get_property(b, off, name) < 0
           /\ fdt_node_end_offset(b, off) < 0
<1> DEFINE err == -FDT_ERR_BADOFFSET
           P == {Spot(off, 0), Spot(err, 0)}
<1>0. err = -4 /\ err \in Int
  BY DEF FDT_ERR_BADOFFSET
<1>1. fdt_check_node_offset(b, off) = err
  <2>1. IsNode(b, off, fdt_check_node_offset(b, off)) =>
           fdt_check_node_offset(b, off) \in Int
    BY BlockMeans DEF IsNode
  <2> QED
    BY <2>1, CheckNode
<1>2. ASSUME NEW name PROVE fdt_get_property(b, off, name) < 0
  <2> DEFINE r == fdt_get_property(b, off, name)
  <2>1. Closed(b, {}, {"PROP", "NOP"})
    BY DEF Closed
  <2>2. PropIn(b, {}, off, r)
    BY <2>1, GetProperty
  <2> HIDE DEF r
  <2>3. r < 0
    BY <2>2 DEF PropIn
  <2> QED
    BY <2>3 DEF r
<1> DEFINE e == fdt_node_end_offset(b, off)
<1> HIDE DEF err
<1>3. /\ Spot(off, 0) \in Spots /\ Spot(off, 0).off = off /\ Spot(off, 0).depth = 0
      /\ Spot(err, 0) \in Spots /\ Spot(err, 0).off = err /\ Spot(err, 0).depth = 0
  BY <1>0, SpotFields
<1>4. off >= 0 => fdt_next_node(b, off, 0) = Spot(err, 0)
  BY <1>0, <1>1 DEF fdt_next_node
<1>5. NodesIn(b, P)
  BY <1>0, <1>3, <1>4 DEF NodesIn
<1>6. PICK n \in P : (n.off < 0 \/ n.depth < 0) /\ e = n.off
  <2>1. Spot(off, 0) \in P
    OBVIOUS
  <2> HIDE DEF P
  <2> QED
    BY <1>5, <2>1, NodeEnd
<1> HIDE DEF e
<1>7. e < 0
  BY <1>0, <1>3, <1>6
<1> QED
  BY <1>1, <1>2, <1>7 DEF e, err

\* Where a property, a node's end and the place of a new subnode are found in
\* any block.
LEMMA PropertyTag ==
    ASSUME NEW b, Block(b.words), NEW off \in Int, NEW name
    PROVE  LET p == fdt_get_property(b, off, name)
           IN  /\ p \in Int
               /\ p >= 0 => /\ p \in 0 .. Len(b.words) - 1
                            /\ At(b, p).tag = "PROP" /\ At(b, p).name = name
                            /\ p + tag_words(At(b, p)) <= Len(b.words)
                            /\ fdt_next_tag(b, p).tag = "PROP"
<1> DEFINE p == fdt_get_property(b, off, name)
<1>1. Closed(b, Int, {"PROP", "NOP"})
  <2>1. ASSUME NEW q \in Int PROVE fdt_next_tag(b, q).next \in Int
    <3>1. Answers(b, q, fdt_next_tag(b, q))
      BY NextTag
    <3> QED
      BY <3>1, BlockMeans DEF Answers
  <2> QED
    BY <2>1 DEF Closed
<1>2. PropIn(b, Int, off, p) /\ (p >= 0 => At(b, p).name = name)
  BY <1>1, GetProperty
<1> HIDE DEF p
<1>3. p \in Int /\ Answers(b, p, fdt_next_tag(b, p))
  BY <1>2, NextTag DEF PropIn
<1>4. Len(b.words) \in Nat
  BY BlockMeans
<1>5. ASSUME p >= 0
      PROVE  /\ p \in 0 .. Len(b.words) - 1 /\ At(b, p).tag = "PROP"
             /\ p + tag_words(At(b, p)) <= Len(b.words)
             /\ fdt_next_tag(b, p).tag = "PROP"
  <2>1. fdt_next_tag(b, p).tag = "PROP"
    BY <1>2, <1>5 DEF PropIn
  <2> QED
    BY <1>3, <1>4, <2>1 DEF Answers
<1> QED
  BY <1>2, <1>3, <1>5 DEF p

LEMMA EndBehind ==
    ASSUME NEW b, Block(b.words), NEW off \in Int
    PROVE  LET e == fdt_node_end_offset(b, off)
           IN  e \in Int /\ (e >= 0 => off >= 0 /\ e \in off .. Len(b.words))
<1> DEFINE N == Len(b.words)
           e == fdt_node_end_offset(b, off)
           P == {n \in Spots : n.off < 0 \/ (off >= 0 /\ n.off \in off .. N)}
<1>0. N \in Nat
  BY BlockMeans
<1> HIDE DEF N
<1>1. ASSUME \E next \in Int : IsNode(b, off, next) PROVE Spot(off, 0) \in P
  <2>1. off \in 0 .. N
    BY <1>0, <1>1 DEF IsNode, N
  <2> QED
    BY <1>0, <2>1, SpotFields
<1>2. NodesIn(b, P)
  <2>1. ASSUME NEW n \in P, n.off >= 0, n.depth >= 0
        PROVE  fdt_next_node(b, n.off, n.depth) \in P
    <3> DEFINE r == fdt_next_node(b, n.off, n.depth)
    <3>1. n.off \in Nat /\ n.depth \in Int /\ off >= 0 /\ n.off >= off
      BY <1>0, <2>1, SpotIs
    <3>2. r \in Spots /\ (r.off < 0 \/ r.off \in n.off + 1 .. N)
      BY <3>1, NextNodeUp DEF N
    <3> HIDE DEF r
    <3>3. r.off \in Int
      BY <3>2, SpotIs
    <3>4. r \in P
      BY <1>0, <3>1, <3>2, <3>3
    <3> QED
      BY <3>4 DEF r
  <2> QED
    BY <2>1 DEF NodesIn
<1>3. CASE \E next \in Int : IsNode(b, off, next)
  <2>1. PICK n \in P : (n.off < 0 \/ n.depth < 0) /\ e = n.off
    <3> HIDE DEF P
    <3> QED
      BY <1>1, <1>2, <1>3, NodeEnd
  <2> HIDE DEF e
  <2>2. e \in Int /\ (e >= 0 => off >= 0 /\ e \in off .. N)
    BY <2>1, SpotIs
  <2> QED
    BY <2>2 DEF e, N
<1>4. CASE \A next \in Int : ~IsNode(b, off, next)
  <2> DEFINE err == -FDT_ERR_BADOFFSET
             R == {Spot(off, 0), Spot(err, 0)}
  <2>0. err = -4 /\ err \in Int
    BY DEF FDT_ERR_BADOFFSET
  <2>1. fdt_check_node_offset(b, off) = err
    BY <1>4, NotNode
  <2> HIDE DEF err
  <2>2. /\ Spot(off, 0) \in Spots /\ Spot(off, 0).off = off /\ Spot(off, 0).depth = 0
        /\ Spot(err, 0) \in Spots /\ Spot(err, 0).off = err /\ Spot(err, 0).depth = 0
    BY <2>0, SpotFields
  <2>3. off >= 0 => fdt_next_node(b, off, 0) = Spot(err, 0)
    BY <2>0, <2>1 DEF fdt_next_node
  <2>4. NodesIn(b, R)
    BY <2>0, <2>2, <2>3 DEF NodesIn
  <2>5. PICK n \in R : e = n.off
    <3>1. Spot(off, 0) \in R
      OBVIOUS
    <3> HIDE DEF R
    <3> QED
      BY <2>4, <3>1, NodeEnd
  <2>6. e < 0
    BY <1>4, NotNode
  <2> HIDE DEF e
  <2>7. e \in Int
    BY <2>0, <2>2, <2>5
  <2> QED
    BY <2>6, <2>7 DEF e
<1> QED
  BY <1>3, <1>4

LEMMA PlaceBehind ==
    ASSUME NEW b, Block(b.words), NEW off \in 0 .. Len(b.words)
    PROVE  after_props(b, off) \in 0 .. Len(b.words)
<1> DEFINE Q == 0 .. Len(b.words)
<1>0. Len(b.words) \in Nat
  BY BlockMeans
<1>1. Closed(b, Q, {"PROP", "NOP"})
  <2>1. ASSUME NEW q \in Q, fdt_next_tag(b, q).tag \in {"PROP", "NOP"}
        PROVE  fdt_next_tag(b, q).next \in Q
    <3>1. Answers(b, q, fdt_next_tag(b, q))
      BY NextTag
    <3> QED
      BY <1>0, <2>1, <3>1 DEF Answers
  <2> QED
    BY <2>1 DEF Closed
<1>2. off \in Nat /\ off \in Q
  BY <1>0
<1> HIDE DEF Q
<1>3. after_props(b, off) \in Q
  BY <1>1, <1>2, AfterProps
<1> QED
  BY <1>3 DEF Q

\* One more string in the strings block.
LEMMA StringsMore ==
    ASSUME NEW strs, IsStrings(strs), NEW s, Len(s) \in Nat
    PROVE  IsStrings(Append(strs, s)) /\ strs_len(Append(strs, s)) = strs_len(strs) + Len(s) + 1
<1> DEFINE n == Len(strs)
           t == Append(strs, s)
           f(x) == [k \in DOMAIN x |-> Len(x[k]) + 1]
<1>1. PICK S : strs \in Seq(S)
  BY DEF IsStrings, IsSeq
<1>2. n \in Nat /\ DOMAIN strs = 1 .. n /\ \A k \in 1 .. n : Len(strs[k]) \in Nat
  BY <1>1 DEF IsStrings
<1>3. t \in Seq(S \cup {s}) /\ Len(t) = n + 1 /\ DOMAIN t = 1 .. n + 1
      /\ t[n + 1] = s /\ \A k \in 1 .. n : t[k] = strs[k]
  BY <1>1
<1>4. IsSeq(t)
  <2> HIDE DEF t
  <2> QED
    BY <1>3, SeqIs
<1> HIDE DEF t, n
<1>5. \A k \in 1 .. n + 1 : Len(t[k]) \in Nat
  BY <1>2, <1>3
<1>6. IsStrings(t)
  BY <1>3, <1>4, <1>5 DEF IsStrings
<1>7. /\ f(strs) \in Seq(Nat) /\ Len(f(strs)) = n
      /\ \A k \in 1 .. n : f(strs)[k] = Len(strs[k]) + 1
  BY <1>2
<1>8. /\ f(t) \in Seq(Nat) /\ Len(f(t)) = n + 1
      /\ \A k \in 1 .. n + 1 : f(t)[k] = Len(t[k]) + 1
  BY <1>2, <1>3, <1>5
<1>9. \A k \in 1 .. n : f(t)[k] = f(strs)[k]
  BY <1>2, <1>3, <1>7, <1>8
<1>10. strs_len(t) = Total(f(t)) /\ strs_len(strs) = Total(f(strs))
  BY DEF strs_len
<1> HIDE DEF f
<1>11. Total(f(t)) = Total(f(strs)) + f(t)[n + 1]
  BY <1>7, <1>8, <1>9, TotalMore
<1>12. f(t)[n + 1] = Len(s) + 1
  BY <1>2, <1>3, <1>8
<1>13. Total(f(strs)) \in Nat
  BY <1>7, TotalNat
<1> QED
  BY <1>6, <1>10, <1>11, <1>12, <1>13 DEF t

-----------------------------------------------------------------------------
(* The paths of the nodes that are open                                    *)

\* The path of a node's parent.
ParentPath(p) == SubSeq(p, 1, Len(p) - 1)

\* p says which node is open behind each word.
PathsAre(ws, p) ==
    /\ DOMAIN p = 0 .. Len(ws) /\ p[0] = <<>>
    /\ \A k \in 1 .. Len(ws) :
          /\ p[k] \in Seq({ws[j].name : j \in 1 .. Len(ws)})
          /\ ws[k].tag = "BEGIN" => p[k] = Append(p[k - 1], ws[k].name)
          /\ ws[k].tag = "END_NODE" => p[k] = ParentPath(p[k - 1])
          /\ ws[k].tag \notin {"BEGIN", "END_NODE"} => p[k] = p[k - 1]

LEMMA OpenPathIs ==
    ASSUME NEW ws, Len(ws) \in Nat
    PROVE  PathsAre(ws, OpenPath(ws))
<1> DEFINE N == Len(ws)
           S == {ws[j].name : j \in 1 .. N}
           turn(k, x) == CASE ws[k].tag = "BEGIN" -> Append(x, ws[k].name)
                           [] ws[k].tag = "END_NODE" ->
                                LET y == x IN SubSeq(y, 1, Len(y) - 1)
                           [] OTHER -> x
           step == [a \in (1 .. N) \X Seq(S) |-> turn(a[1], a[2])]
           Eq(p) == p = [k \in 0 .. N |-> IF k = 0 THEN <<>> ELSE turn(k, p[k - 1])]
           P == CHOOSE p : Eq(p)
<1>0. N \in Nat
  OBVIOUS
<1>1. ASSUME NEW k \in 1 .. N, NEW x \in Seq(S) PROVE turn(k, x) \in Seq(S)
  <2>1. ws[k].name \in S
    OBVIOUS
  <2> HIDE DEF S
  <2>2. Append(x, ws[k].name) \in Seq(S)
    BY <2>1
  <2>3. SubSeq(x, 1, Len(x) - 1) \in Seq(S)
    OBVIOUS
  <2> QED
    BY <2>2, <2>3
<1> HIDE DEF turn, S, N
<1>2. step \in [(1 .. N) \X Seq(S) -> Seq(S)] /\ <<>> \in Seq(S)
  <2>1. \A a \in (1 .. N) \X Seq(S) : turn(a[1], a[2]) \in Seq(S)
    BY <1>1
  <2> QED
    BY <2>1
<1>3. PICK f \in [0 .. N -> Seq(S)] : GoesOn(f, <<>>, step, N)
  <2> HIDE DEF step
  <2> QED
    BY <1>0, <1>2, RecursionUpTo
<1>4. Eq(f)
  <2>1. ASSUME NEW k \in 0 .. N
        PROVE  f[k] = IF k = 0 THEN <<>> ELSE turn(k, f[k - 1])
    <3>1. f[k] = IF k = 0 THEN <<>> ELSE step[<<k, f[k - 1]>>]
      <4> HIDE DEF step
      <4> QED
        BY <1>3 DEF GoesOn
    <3>2. k # 0 => step[<<k, f[k - 1]>>] = turn(k, f[k - 1])
      <4> SUFFICES ASSUME k # 0 PROVE step[<<k, f[k - 1]>>] = turn(k, f[k - 1])
        OBVIOUS
      <4>1. k \in 1 .. N /\ f[k - 1] \in Seq(S)
        BY <1>0, <1>3
      <4> QED
        BY <4>1
    <3> QED
      BY <3>1, <3>2
  <2>2. f = [k \in 0 .. N |-> f[k]]
    BY <1>3
  <2> QED
    BY <2>1, <2>2, Zenon
<1>5. Eq(P)
  BY <1>4
<1>6. OpenPath(ws) = P
  BY DEF OpenPath, turn, N
<1>7. /\ DOMAIN P = 0 .. N
      /\ \A k \in 0 .. N : P[k] = IF k = 0 THEN <<>> ELSE turn(k, P[k - 1])
  BY <1>5
<1> HIDE DEF P, Eq
<1>8. P[0] = <<>> /\ \A k \in 1 .. N : P[k] = turn(k, P[k - 1])
  <2>1. 0 \in 0 .. N /\ \A k \in 1 .. N : k \in 0 .. N /\ k # 0
    BY <1>0
  <2> QED
    BY <1>7, <2>1
<1> DEFINE T == {k \in Nat : k <= N => P[k] \in Seq(S)}
<1>9. \A k \in Nat : k \in T
  <2>1. 0 \in T
    BY <1>2, <1>8
  <2>2. ASSUME NEW k \in Nat, k \in T PROVE k + 1 \in T
    <3> SUFFICES ASSUME k + 1 <= N PROVE P[k + 1] \in Seq(S)
      OBVIOUS
    <3>1. k + 1 \in 1 .. N /\ (k + 1) - 1 = k /\ P[k] \in Seq(S)
      BY <1>0, <2>2
    <3>2. P[k + 1] = turn(k + 1, P[k])
      BY <1>8, <3>1
    <3> QED
      BY <1>1, <3>1, <3>2
  <2> HIDE DEF T
  <2> QED
    BY <2>1, <2>2, NatSetInduction
<1>10. ASSUME NEW k \in 1 .. N
       PROVE  /\ P[k] \in Seq(S)
              /\ ws[k].tag = "BEGIN" => P[k] = Append(P[k - 1], ws[k].name)
              /\ ws[k].tag = "END_NODE" => P[k] = ParentPath(P[k - 1])
              /\ ws[k].tag \notin {"BEGIN", "END_NODE"} => P[k] = P[k - 1]
  <2>1. k \in T /\ k <= N
    BY <1>0, <1>9
  <2>2. P[k] = turn(k, P[k - 1])
    BY <1>8
  <2> QED
    BY <2>1, <2>2 DEF turn, ParentPath
<1> QED
  BY <1>6, <1>7, <1>8, <1>10 DEF PathsAre, N, S

\* Two words that open or close the same.
Alike(w, v) ==
    /\ w.tag = "BEGIN" <=> v.tag = "BEGIN"
    /\ w.tag = "END_NODE" <=> v.tag = "END_NODE"
    /\ w.tag = "BEGIN" => w.name = v.name

\* n words behind lo and lo2 that open and close the same, and n paths that are
\* the same.
AlikeFrom(ws, lo, r, lo2, n) == \A i \in 1 .. n : Alike(ws[lo + i], r[lo2 + i])

SameFrom(p, lo, q, lo2, n) == \A i \in 0 .. n : p[lo + i] = q[lo2 + i]

\* From the same node, the same words lead to the same nodes.
LEMMA PathsShift ==
    ASSUME NEW ws, Len(ws) \in Nat, NEW p, PathsAre(ws, p),
           NEW r, Len(r) \in Nat, NEW q, PathsAre(r, q),
           NEW lo \in Nat, NEW lo2 \in Nat, NEW n \in Nat,
           lo + n <= Len(ws), lo2 + n <= Len(r), p[lo] = q[lo2],
           AlikeFrom(ws, lo, r, lo2, n)
    PROVE  SameFrom(p, lo, q, lo2, n)
<1> DEFINE T == {i \in Nat : i <= n => p[lo + i] = q[lo2 + i]}
<1>1. 0 \in T
  OBVIOUS
<1>2. ASSUME NEW i \in Nat, i \in T PROVE i + 1 \in T
  <2> SUFFICES ASSUME i + 1 <= n PROVE p[lo + (i + 1)] = q[lo2 + (i + 1)]
    OBVIOUS
  <2> DEFINE k == lo + (i + 1)
             l == lo2 + (i + 1)
  <2>1. /\ k \in 1 .. Len(ws) /\ l \in 1 .. Len(r) /\ i + 1 \in 1 .. n
        /\ k - 1 = lo + i /\ l - 1 = lo2 + i /\ p[lo + i] = q[lo2 + i]
    BY <1>2
  <2>2. Alike(ws[k], r[l])
    BY <2>1 DEF AlikeFrom
  <2> HIDE DEF k, l
  <2>3. p[k - 1] = q[l - 1]
    BY <2>1
  <2>4. /\ ws[k].tag = "BEGIN" => p[k] = Append(p[k - 1], ws[k].name)
        /\ ws[k].tag = "END_NODE" => p[k] = ParentPath(p[k - 1])
        /\ ws[k].tag \notin {"BEGIN", "END_NODE"} => p[k] = p[k - 1]
    BY <2>1 DEF PathsAre
  <2>5. /\ r[l].tag = "BEGIN" => q[l] = Append(q[l - 1], r[l].name)
        /\ r[l].tag = "END_NODE" => q[l] = ParentPath(q[l - 1])
        /\ r[l].tag \notin {"BEGIN", "END_NODE"} => q[l] = q[l - 1]
    BY <2>1 DEF PathsAre
  <2>6. p[k] = q[l]
    BY <2>2, <2>3, <2>4, <2>5, Zenon DEF Alike
  <2> QED
    BY <2>6 DEF k, l
<1>3. \A i \in Nat : i \in T
  <2> HIDE DEF T
  <2> QED
    BY <1>1, <1>2, NatSetInduction
<1> QED
  BY <1>3 DEF SameFrom

\* A stretch of words that opens and closes nothing stays in its node.
LEMMA PathsQuiet ==
    ASSUME NEW ws, Len(ws) \in Nat, NEW p, PathsAre(ws, p),
           NEW lo \in Nat, NEW hi \in Nat, lo <= hi, hi <= Len(ws),
           Quiet(ws, lo, hi)
    PROVE  \A k \in lo .. hi : p[k] = p[lo]
<1> DEFINE T == {j \in Nat : lo + j <= hi => p[lo + j] = p[lo]}
<1>1. 0 \in T
  OBVIOUS
<1>2. ASSUME NEW j \in Nat, j \in T PROVE j + 1 \in T
  <2> SUFFICES ASSUME lo + (j + 1) <= hi PROVE p[lo + (j + 1)] = p[lo]
    OBVIOUS
  <2> DEFINE k == lo + (j + 1)
  <2>1. k \in 1 .. Len(ws) /\ k \in lo + 1 .. hi /\ k - 1 = lo + j
    OBVIOUS
  <2>2. ws[k].tag \notin {"BEGIN", "END_NODE"}
    BY <2>1 DEF Quiet
  <2>3. p[lo + j] = p[lo]
    BY <1>2
  <2>4. p[k] = p[k - 1]
    BY <2>1, <2>2 DEF PathsAre
  <2> QED
    BY <2>1, <2>3, <2>4
<1>3. \A j \in Nat : j \in T
  <2> HIDE DEF T
  <2> QED
    BY <1>1, <1>2, NatSetInduction
<1> SUFFICES ASSUME NEW k \in lo .. hi PROVE p[k] = p[lo]
  OBVIOUS
<1>4. k - lo \in Nat /\ lo + (k - lo) = k /\ k <= hi
  OBVIOUS
<1>5. k - lo \in T
  BY <1>3, <1>4
<1> QED
  BY <1>4, <1>5

\* Path s starts with path t and goes n names further.
Extends(s, t, n) ==
    /\ Len(s) = Len(t) + n
    /\ \A i \in 1 .. Len(t) : s[i] = t[i]

\* As long as the node stays open, the paths start with its own.
LEMMA PathsBelow ==
    ASSUME NEW ws, Len(ws) \in Nat, NEW p, PathsAre(ws, p),
           NEW d, DepthsAre(ws, d),
           NEW lo \in Nat, NEW hi \in Nat, lo <= hi, hi <= Len(ws),
           \A k \in lo .. hi : d[k] >= d[lo]
    PROVE  \A k \in lo .. hi : Extends(p[k], p[lo], d[k] - d[lo])
<1> DEFINE S == {ws[j].name : j \in 1 .. Len(ws)}
           T == {j \in Nat : lo + j <= hi =>
                               Extends(p[lo + j], p[lo], d[lo + j] - d[lo])}
<1>0. \A k \in 0 .. Len(ws) : p[k] \in Seq(S) /\ d[k] \in Int
  <2>1. p[0] = <<>> /\ <<>> \in Seq(S)
    BY DEF PathsAre
  <2>2. \A k \in 1 .. Len(ws) : p[k] \in Seq(S)
    BY DEF PathsAre
  <2>3. \A k \in 0 .. Len(ws) : d[k] \in Int
    BY DEF DepthsAre
  <2>4. \A k \in 0 .. Len(ws) : k = 0 \/ k \in 1 .. Len(ws)
    OBVIOUS
  <2> QED
    BY <2>1, <2>2, <2>3, <2>4, Zenon
<1> HIDE DEF S
<1>1. 0 \in T
  BY <1>0 DEF Extends
<1>2. ASSUME NEW j \in Nat, j \in T PROVE j + 1 \in T
  <2> SUFFICES ASSUME lo + (j + 1) <= hi
               PROVE  Extends(p[lo + (j + 1)], p[lo], d[lo + (j + 1)] - d[lo])
    OBVIOUS
  <2> DEFINE k == lo + (j + 1)
  <2>1. k \in 1 .. Len(ws) /\ k \in lo .. hi /\ k - 1 = lo + j
        /\ k - 1 \in 0 .. Len(ws) /\ k \in 0 .. Len(ws) /\ lo \in 0 .. Len(ws)
    OBVIOUS
  <2>2. Extends(p[k - 1], p[lo], d[k - 1] - d[lo])
    BY <1>2, <2>1
  <2>3. /\ d[k] = d[k - 1] + opens(ws[k]) /\ d[k] >= d[lo]
        /\ d[k] \in Int /\ d[k - 1] \in Int /\ d[lo] \in Int
    BY <1>0, <2>1 DEF DepthsAre
  <2>4. /\ ws[k].tag = "BEGIN" => p[k] = Append(p[k - 1], ws[k].name)
        /\ ws[k].tag = "END_NODE" => p[k] = ParentPath(p[k - 1])
        /\ ws[k].tag \notin {"BEGIN", "END_NODE"} => p[k] = p[k - 1]
    BY <2>1 DEF PathsAre
  <2>5. /\ ws[k].tag = "BEGIN" => opens(ws[k]) = 1
        /\ ws[k].tag = "END_NODE" => opens(ws[k]) = -1
        /\ ws[k].tag \notin {"BEGIN", "END_NODE"} => opens(ws[k]) = 0
    BY Opens
  <2> DEFINE w == ws[k]
             a == p[k - 1]
             t == p[lo]
             e == d[k - 1] - d[lo]
  <2>6. IsSeq(a) /\ IsSeq(t) /\ Len(a) \in Nat /\ Len(t) \in Nat /\ e \in Int
        /\ Extends(a, t, e) /\ e >= 0
    <3>1. d[k - 1] >= d[lo]
      <4>1. k - 1 \in lo .. hi
        BY <2>1
      <4> QED
        BY <4>1
    <3>2. e \in Int /\ e >= 0
      BY <2>3, <3>1
    <3>3. a \in Seq(S) /\ t \in Seq(S)
      BY <1>0, <2>1
    <3> HIDE DEF a, t
    <3>4. IsSeq(a) /\ IsSeq(t) /\ Len(a) \in Nat /\ Len(t) \in Nat
      BY <3>3, SeqIs
    <3> QED
      BY <2>2, <3>2, <3>4 DEF a, t
  <2>6a. \E U : a \in Seq(U)
    BY <1>0, <2>1
  <2>7. CASE w.tag = "BEGIN"
    <3>1. p[k] = Append(a, w.name) /\ d[k] - d[lo] = e + 1
      BY <2>3, <2>4, <2>5, <2>7
    <3> HIDE DEF a, e, t, k, w
    <3>2. Len(Append(a, w.name)) = Len(a) + 1
          /\ \A i \in 1 .. Len(a) : Append(a, w.name)[i] = a[i]
      BY <2>6a
    <3>3. Extends(Append(a, w.name), t, e + 1)
      BY <2>6, <3>2 DEF Extends
    <3> QED
      BY <3>1, <3>3 DEF k, t
  <2>8. CASE w.tag = "END_NODE"
    <3>1. p[k] = ParentPath(a) /\ d[k] - d[lo] = e - 1 /\ e >= 1
      BY <2>3, <2>4, <2>5, <2>8
    <3> HIDE DEF a, e, t, k, w
    <3>2. Len(a) = Len(t) + e /\ Len(a) >= 1
      BY <2>6, <3>1 DEF Extends
    <3>3. Len(ParentPath(a)) = Len(a) - 1
          /\ \A i \in 1 .. Len(a) - 1 : ParentPath(a)[i] = a[i]
      <4> PICK U : a \in Seq(U)
        BY <2>6a
      <4> QED
        BY <2>6, <3>2 DEF ParentPath
    <3>4. Extends(ParentPath(a), t, e - 1)
      BY <2>6, <3>1, <3>2, <3>3 DEF Extends
    <3> QED
      BY <3>1, <3>4 DEF k, t
  <2>9. CASE w.tag \notin {"BEGIN", "END_NODE"}
    <3>1. p[k] = a /\ d[k] - d[lo] = e
      BY <2>3, <2>4, <2>5, <2>9
    <3> HIDE DEF a, e, t, k, w
    <3> QED
      BY <2>6, <3>1 DEF k, t
  <2> QED
    BY <2>7, <2>8, <2>9
<1>3. \A j \in Nat : j \in T
  <2> HIDE DEF T
  <2> QED
    BY <1>1, <1>2, NatSetInduction
<1> SUFFICES ASSUME NEW k \in lo .. hi
             PROVE  Extends(p[k], p[lo], d[k] - d[lo])
  OBVIOUS
<1>4. k - lo \in Nat /\ lo + (k - lo) = k /\ k <= hi
  OBVIOUS
<1>5. k - lo \in T
  BY <1>3, <1>4
<1> QED
  BY <1>4, <1>5

\* Back at the depth of a node that was never left, the path is its own.
LEMMA PathsBack ==
    ASSUME NEW ws, Len(ws) \in Nat, NEW p, PathsAre(ws, p),
           NEW d, DepthsAre(ws, d),
           NEW lo \in Nat, NEW hi \in Nat, lo <= hi, hi <= Len(ws),
           \A k \in lo .. hi : d[k] >= d[lo], d[hi] = d[lo]
    PROVE  p[hi] = p[lo]
<1> DEFINE S == {ws[j].name : j \in 1 .. Len(ws)}
<1>1. lo \in 0 .. Len(ws) /\ hi \in 0 .. Len(ws) /\ hi \in lo .. hi
  OBVIOUS
<1>2. d[hi] - d[lo] = 0
  BY <1>1 DEF DepthsAre
<1>3. Extends(p[hi], p[lo], 0)
  BY <1>1, <1>2, PathsBelow
<1>4. \A k \in 0 .. Len(ws) : p[k] \in Seq(S)
  <2>1. p[0] = <<>> /\ <<>> \in Seq(S)
    BY DEF PathsAre
  <2>2. \A k \in 1 .. Len(ws) : p[k] \in Seq(S)
    BY DEF PathsAre
  <2>3. \A k \in 0 .. Len(ws) : k = 0 \/ k \in 1 .. Len(ws)
    OBVIOUS
  <2> QED
    BY <2>1, <2>2, <2>3, Zenon
<1> HIDE DEF S
<1> DEFINE s == p[hi]
           t == p[lo]
<1>5. s \in Seq(S) /\ t \in Seq(S)
  BY <1>1, <1>4
<1> HIDE DEF s, t
<1>6. Len(s) = Len(t) /\ \A i \in 1 .. Len(t) : s[i] = t[i]
  BY <1>3, <1>5 DEF Extends, s, t
<1>7. s = t
  BY <1>5, <1>6
<1> QED
  BY <1>7 DEF s, t

\* A splice leaves the paths in front of it as they are.
LEMMA SplicedHead ==
    ASSUME NEW ws, Len(ws) \in Nat, NEW p, PathsAre(ws, p),
           NEW r, NEW q, PathsAre(r, q), NEW off \in Nat, NEW n \in Nat, NEW new,
           off + n <= Len(ws), Len(new) \in Nat, IsSplice(r, ws, off, n, new)
    PROVE  \A k \in 0 .. off : q[k] = p[k]
<1>1. Len(r) = Len(ws) - n + Len(new) /\ Len(r) \in Nat /\ off <= Len(r)
  BY DEF IsSplice
<1>2. AlikeFrom(ws, 0, r, 0, off)
  <2> SUFFICES ASSUME NEW i \in 1 .. off PROVE Alike(ws[0 + i], r[0 + i])
    BY DEF AlikeFrom
  <2>1. 0 + i = i /\ i \in 1 .. Len(r) /\ i <= off
    BY <1>1
  <2>2. r[i] = ws[i]
    BY <2>1 DEF IsSplice
  <2> QED
    BY <2>1, <2>2, Zenon DEF Alike
<1>3. p[0] = q[0] /\ 0 \in Nat /\ 0 + off <= Len(ws) /\ 0 + off <= Len(r)
  BY <1>1 DEF PathsAre
<1>4. SameFrom(p, 0, q, 0, off)
  BY <1>1, <1>2, <1>3, PathsShift
<1> QED
  BY <1>4 DEF SameFrom

\* The paths behind the m words that are put in for n old ones.
Follows(q, p, off, m, n, hi) == \A k \in off + m .. hi : q[k] = p[k - m + n]

\* And behind it, when the new words lead to the node the old ones led to.
LEMMA SplicedTail ==
    ASSUME NEW ws, Len(ws) \in Nat, NEW p, PathsAre(ws, p),
           NEW r, NEW q, PathsAre(r, q), NEW off \in Nat, NEW n \in Nat, NEW new,
           off + n <= Len(ws), Len(new) \in Nat, IsSplice(r, ws, off, n, new),
           q[off + Len(new)] = p[off + n]
    PROVE  Follows(q, p, off, Len(new), n, Len(r))
<1> DEFINE m == Len(new)
           lo == off + n
           lo2 == off + m
           c == Len(ws) - lo
<1>1. /\ Len(r) = Len(ws) - n + m /\ Len(r) \in Nat /\ lo \in Nat /\ lo2 \in Nat
      /\ c \in Nat /\ lo + c = Len(ws) /\ lo2 + c = Len(r) /\ m \in Nat
  BY DEF IsSplice
<1>2. AlikeFrom(ws, lo, r, lo2, c)
  <2> SUFFICES ASSUME NEW i \in 1 .. c PROVE Alike(ws[lo + i], r[lo2 + i])
    BY DEF AlikeFrom
  <2>1. lo2 + i \in 1 .. Len(r) /\ ~(lo2 + i <= off) /\ ~(lo2 + i <= off + m)
        /\ (lo2 + i) - m + n = lo + i
    BY <1>1
  <2>2. r[lo2 + i] = ws[(lo2 + i) - m + n]
    BY <2>1, Zenon DEF IsSplice
  <2> QED
    BY <2>1, <2>2, Zenon DEF Alike
<1> HIDE DEF lo, lo2, c
<1>3. SameFrom(p, lo, q, lo2, c)
  <2>1. p[lo] = q[lo2] /\ lo + c <= Len(ws) /\ lo2 + c <= Len(r)
    BY <1>1 DEF lo, lo2
  <2> QED
    BY <1>1, <1>2, <2>1, PathsShift
<1> SUFFICES ASSUME NEW k \in lo2 .. Len(r) PROVE q[k] = p[k - m + n]
  BY DEF lo2, Follows
<1>4. k - lo2 \in 0 .. c /\ lo + (k - lo2) = k - m + n /\ lo2 + (k - lo2) = k
  BY <1>1 DEF lo, lo2
<1> QED
  BY <1>3, <1>4, Zenon DEF SameFrom

-----------------------------------------------------------------------------
(* What the walks find, by the words they go over                          *)

\* Behind a tag come only words that belong to it.
LEMMA TagQuiet ==
    ASSUME NEW b, Block(b.words), Nested(b.words), NEW off \in Starts(b.words)
    PROVE  /\ Quiet(b.words, off + 1, off + tag_words(At(b, off)))
           /\ off + 1 \in 1 .. Len(b.words) /\ tag_words(At(b, off)) \in Nat \ {0}
           /\ off + tag_words(At(b, off)) <= Len(b.words)
<1> DEFINE ws == b.words
           lo == off + 1
           e == lo + tag_words(ws[lo])
<1>1. lo \in 1 .. Len(ws) /\ ws[lo].tag # "CONT" /\ At(b, off) = ws[lo] /\ off \in Nat
  BY BlockMeans DEF Starts, At
<1>2. tag_words(ws[lo]) \in Nat \ {0}
  BY <1>1, BlockMeans
<1>3. e <= Len(ws) + 1 /\ \A j \in lo + 1 .. e - 1 : ws[j].tag = "CONT"
  BY <1>1 DEF Nested, Units
<1>4. e - 1 = off + tag_words(ws[lo]) /\ Len(ws) \in Nat
  BY <1>1, <1>2, BlockMeans
<1> HIDE DEF e, lo
<1>5. Quiet(ws, lo, e - 1)
  BY <1>3 DEF Quiet
<1>6. e - 1 <= Len(ws)
  <2>1. e \in Int
    BY <1>1, <1>2 DEF e, lo
  <2> QED
    BY <1>3, <1>4, <2>1
<1> QED
  BY <1>1, <1>2, <1>4, <1>5, <1>6 DEF lo

\* The tags behind a node's BEGIN tag, with no other BEGIN or END_NODE between.
Near(b, node) == {o \in Starts(b.words) : node < o /\ Quiet(b.words, node + 1, o)}

LEMMA QuietOn ==
    ASSUME NEW ws, NEW lo \in Nat, NEW mid \in Nat, NEW hi \in Nat,
           Quiet(ws, lo, mid), Quiet(ws, mid, hi)
    PROVE  Quiet(ws, lo, hi)
<1> SUFFICES ASSUME NEW k \in lo + 1 .. hi
             PROVE  ws[k].tag \notin {"BEGIN", "END_NODE"}
  BY DEF Quiet
<1>1. k \in lo + 1 .. mid \/ k \in mid + 1 .. hi
  OBVIOUS
<1> QED
  BY <1>1 DEF Quiet

LEMMA NearClosed ==
    ASSUME NEW b, Block(b.words), Nested(b.words), NEW node \in Nat
    PROVE  Closed(b, Near(b, node), {"PROP", "NOP"})
<1> SUFFICES ASSUME NEW o \in Near(b, node),
                    fdt_next_tag(b, o).tag \in {"PROP", "NOP"}
             PROVE  fdt_next_tag(b, o).next \in Near(b, node)
  BY DEF Closed
<1> DEFINE t == fdt_next_tag(b, o)
<1>1. o \in Starts(b.words) /\ node < o /\ Quiet(b.words, node + 1, o) /\ o \in Nat
      /\ TagAt(b, o, t)
  BY NextStart, DepthNumbers DEF Near
<1> HIDE DEF t
<1>2. /\ t.tag \in {"PROP", "NOP"} /\ t.tag = At(b, o).tag
      /\ t.next = o + tag_words(At(b, o)) /\ t.next \in Starts(b.words)
      /\ t.next > o /\ t.next \in Nat
  BY <1>1, BlockMeans DEF TagAt, t
<1>3. Quiet(b.words, o + 1, t.next)
  BY <1>1, <1>2, TagQuiet
<1>4. Quiet(b.words, o, o + 1)
  <2>1. \A k \in o + 1 .. o + 1 : b.words[k].tag \in {"PROP", "NOP"}
    BY <1>1, <1>2 DEF At
  <2> QED
    BY <2>1 DEF Quiet
<1>5. Quiet(b.words, node + 1, t.next)
  <2>1. Quiet(b.words, node + 1, o + 1)
    BY <1>1, <1>4, QuietOn
  <2> QED
    BY <1>1, <1>2, <1>3, <2>1, QuietOn
<1>6. node < t.next
  BY <1>1, <1>2
<1> QED
  BY <1>2, <1>5, <1>6 DEF Near, t

LEMMA NodeNear ==
    ASSUME NEW b, Block(b.words), Nested(b.words),
           NEW node, NEW next, IsNode(b, node, next)
    PROVE  next \in Near(b, node)
<1>1. /\ node \in Starts(b.words) /\ next \in Starts(b.words) /\ next > node
      /\ next = node + tag_words(At(b, node))
  BY NodeInside DEF IsNode, Level
<1>2. Quiet(b.words, node + 1, next)
  BY <1>1, TagQuiet
<1> QED
  BY <1>1, <1>2 DEF Near

\* Between a node's BEGIN tag and a property of it there are only properties.
LEMMA PropertyNear ==
    ASSUME NEW b, Block(b.words), Nested(b.words), NEW node \in Nat, NEW name,
           fdt_get_property(b, node, name) >= 0
    PROVE  fdt_get_property(b, node, name) \in Near(b, node)
<1>1. Closed(b, Near(b, node), {"PROP", "NOP"})
  BY NearClosed
<1>2. \A next \in Int : IsNode(b, node, next) => next \in Near(b, node)
  BY NodeNear
<1>3. PropIn(b, Near(b, node), node, fdt_get_property(b, node, name))
  BY <1>1, <1>2, GetProperty
<1> QED
  BY <1>3 DEF PropIn

\* And between it and the place of a new subnode.
LEMMA PlaceNear ==
    ASSUME NEW b, Block(b.words), Nested(b.words),
           NEW node, NEW next, IsNode(b, node, next)
    PROVE  after_props(b, next) \in Near(b, node)
<1>1. next \in Near(b, node) /\ next \in Nat /\ node \in Nat
  <2>1. next \in Near(b, node)
    BY NodeNear
  <2> QED
    BY <2>1, BlockMeans DEF Near, IsNode
<1>2. Closed(b, Near(b, node), {"PROP", "NOP"})
  BY <1>1, NearClosed
<1> QED
  BY <1>1, <1>2, AfterProps
\* A property of the node is found.
LEMMA PropertyThere ==
    ASSUME NEW b, Block(b.words), Nested(b.words), NEW node, NEW next,
           IsNode(b, node, next), NEW k \in Near(b, node), At(b, k).tag = "PROP"
    PROVE  fdt_get_property(b, node, At(b, k).name) >= 0
<1> DEFINE Q == {o \in Near(b, node) : o <= k}
           P == {o \in Q : At(b, o).tag = "PROP"}
           name == At(b, k).name
<1>0. /\ node \in Nat /\ node \in Starts(b.words) /\ k \in Starts(b.words)
      /\ node < k /\ Quiet(b.words, node + 1, k) /\ Len(b.words) \in Nat
      /\ \A o \in Starts(b.words) : o \in 0 .. Len(b.words) - 1
      /\ next = node + tag_words(At(b, node)) /\ next \in Int
      /\ fdt_check_node_offset(b, node) = next /\ next >= 0
  <2>1. node \in Starts(b.words)
    BY NodeInside
  <2>2. fdt_check_node_offset(b, node) = next /\ next >= 0 /\ next \in Int
    BY BlockMeans DEF IsNode, fdt_check_node_offset
  <2> QED
    BY <2>1, <2>2, BlockMeans DEF Near, Starts, IsNode
<1>1. ASSUME NEW o \in Q
      PROVE  /\ o \in Starts(b.words) /\ o \in Nat /\ o <= k /\ o \in Near(b, node)
             /\ TagAt(b, o, fdt_next_tag(b, o)) /\ At(b, o).tag \in {"PROP", "NOP"}
             /\ o # k => o < k
  <2>1. o \in Starts(b.words) /\ o \in Nat /\ node < o /\ o <= k /\ k \in Nat
    BY <1>0 DEF Near
  <2>2. TagAt(b, o, fdt_next_tag(b, o))
    BY <2>1, NextStart
  <2>3. CASE o = k
    BY <2>1, <2>2, <2>3
  <2>4. CASE o < k
    <3>1. o + 1 \in node + 2 .. k
      BY <1>0, <2>1, <2>4
    <3>2. b.words[o + 1].tag \notin {"BEGIN", "END_NODE"}
      BY <1>0, <3>1 DEF Quiet
    <3>3. At(b, o).tag # "END"
      <4>1. o + 1 \in 1 .. Len(b.words) /\ o + 1 # Len(b.words)
        BY <1>0, <2>1, <2>4
      <4> QED
        BY <4>1 DEF Nested, At
    <3> QED
      BY <2>1, <2>2, <2>4, <3>2, <3>3 DEF TagAt, At, Tags
  <2> QED
    BY <2>1, <2>3, <2>4
<1>2. ASSUME NEW o \in Q, o # k PROVE fdt_next_tag(b, o).next \in Q
  <2>1. /\ TagAt(b, o, fdt_next_tag(b, o)) /\ o \in Near(b, node)
        /\ At(b, o).tag \in {"PROP", "NOP"} /\ o \in Starts(b.words) /\ o < k
    BY <1>1, <1>2
  <2>2. fdt_next_tag(b, o).next \in Near(b, node)
    BY <1>0, <2>1, NearClosed DEF Closed, TagAt
  <2>3. fdt_next_tag(b, o).next <= k
    BY <1>0, <2>1, NoTagBetween DEF TagAt
  <2> QED
    BY <2>2, <2>3
<1>3. next \in Q
  <2>1. next \in Near(b, node) /\ next <= k
    BY <1>0, NodeNear, NoTagBetween
  <2> QED
    BY <2>1
<1>4. ASSUME NEW o \in Q PROVE nextprop_from(b, o) \in P
  <2>1. Closed(b, Q, {"NOP"})
    <3>1. ASSUME NEW q \in Q, fdt_next_tag(b, q).tag \in {"NOP"} PROVE q # k
      BY <1>1, <3>1 DEF TagAt
    <3> HIDE DEF Q
    <3> QED
      BY <1>2, <3>1 DEF Closed
  <2>2. PICK q \in Q : /\ q \in Nat /\ fdt_next_tag(b, q).tag # "NOP"
                       /\ nextprop(b, o) = property_or_end(q, fdt_next_tag(b, q))
    <3>1. o \in Nat
      BY <1>1
    <3> HIDE DEF Q
    <3> QED
      BY <2>1, <3>1, NextPropStops
  <2>3. fdt_next_tag(b, q).tag = "PROP" /\ At(b, q).tag = "PROP"
    BY <1>1, <2>2 DEF TagAt
  <2>4. nextprop(b, o) = q
    BY <2>2, <2>3 DEF property_or_end
  <2>5. nextprop_from(b, o) = q
    <3>1. o \in Nat /\ ~(o < 0)
      BY <1>1
    <3> QED
      BY <2>4, <3>1 DEF nextprop_from
  <2> QED
    BY <2>3, <2>5
<1>5. fdt_first_property_offset(b, node) \in P
  BY <1>0, <1>3, <1>4 DEF fdt_first_property_offset
<1>6. ASSUME NEW o \in P, At(b, o).name # name
      PROVE  fdt_next_property_offset(b, o) \in P
  <2>1. o # k /\ o \in Q /\ o >= 0
    <3>1. o \in Nat
      BY <1>1
    <3> QED
      BY <1>6, <3>1
  <2>2. fdt_next_tag(b, o).next \in Q /\ fdt_next_tag(b, o).tag = "PROP"
    BY <1>1, <1>2, <2>1 DEF TagAt
  <2>3. fdt_check_prop_offset(b, o) = fdt_next_tag(b, o).next
    BY <2>1, <2>2 DEF fdt_check_prop_offset
  <2> QED
    BY <1>4, <2>2, <2>3 DEF fdt_next_property_offset
<1>7. P \subseteq Int
  BY <1>1
<1> HIDE DEF P, name
<1>8. fdt_get_property(b, node, name) \in P
  <2>1. \A o \in P : o >= 0 /\ At(b, o).name # name
                        => fdt_next_property_offset(b, o) \in P
    BY <1>6
  <2>2. node \in Int
    BY <1>0
  <2> HIDE DEF Q
  <2> QED
    BY <1>5, <1>7, <2>1, <2>2, PropertyLoop
<1> QED
  BY <1>1, <1>8 DEF P, name

\* A subnode is found by its name.
LEMMA SubnodeThere ==
    ASSUME NEW b, Block(b.words), Nested(b.words), NEW node, NEW next,
           IsNode(b, node, next), NEW c \in Starts(b.words), At(b, c).tag = "BEGIN",
           node < c, Stays(Depths(b.words), node, c),
           Depths(b.words)[c] = Depths(b.words)[node] + 1
    PROVE  fdt_subnode_offset(b, node, At(b, c).name) >= 0
<1> DEFINE d == Depths(b.words)
           name == At(b, c).name
           P == {n \in Inside(b, node) : n.depth >= 0 /\ n.off <= c}
<1>1. /\ node \in Starts(b.words) /\ node \in Nat /\ c \in Nat
      /\ d[node] \in Int /\ d[node] >= 0 /\ At(b, node).tag = "BEGIN"
      /\ \A o \in Starts(b.words) : o \in Nat
  BY NodeInside, DepthNumbers DEF IsNode
<1>2. ASSUME NEW n \in P
      PROVE  /\ n \in Spots /\ n.off \in Starts(b.words) /\ n.off \in Nat
             /\ n.depth \in Nat /\ d[n.off] = d[node] + n.depth
             /\ n.off <= c /\ n \in Inside(b, node)
  <2>1. n \in Inside(b, node) /\ n.depth >= 0 /\ n.off <= c
    OBVIOUS
  <2>2. n \in Spots /\ n.off \in Starts(b.words) /\ n.depth \in Int
    BY <2>1, SpotIs DEF Inside
  <2>3. d[n.off] = d[node] + n.depth
    <3>1. n.depth # -1
      BY <2>1
    <3> QED
      BY <2>1, <3>1 DEF Inside
  <2>4. n.off \in Nat /\ n.depth \in Nat
    <3>1. n.off \in Nat
      BY <1>1, <2>2
    <3>2. n.depth \in Nat
      <4> HIDE DEF P
      <4> QED
        BY <2>1, <2>2
    <3> QED
      BY <3>1, <3>2
  <2> QED
    BY <2>1, <2>2, <2>3, <2>4
<1>3. ASSUME NEW n \in P, ~NamedAt(b, n, name)
      PROVE  fdt_next_node(b, n.off, n.depth) \in P
  <2> DEFINE r == fdt_next_node(b, n.off, n.depth)
  <2>1. n.off < c
    <3>1. n.off # c
      <4> SUFFICES ASSUME n.off = c PROVE FALSE
        OBVIOUS
      <4>1. n.depth = 1
        <5> HIDE DEF d
        <5>1. d[node] + n.depth = d[node] + 1
          BY <1>2 DEF d
        <5> QED
          BY <1>1, <1>2, <5>1
      <4> QED
        BY <1>3, <4>1 DEF NamedAt, fdt_nodename_eq
    <3> QED
      BY <1>1, <1>2, <3>1
  <2>2. r \in Inside(b, node) /\ r.off > n.off /\ NoNode(b, n.off, r.off)
    <3>1. n \in Inside(b, node) /\ n.depth >= 0
      OBVIOUS
    <3> QED
      BY <1>1, <3>1, WalkStep
  <2>3. r.off \in Starts(b.words) /\ r.off \in Nat /\ r \in Spots
    BY <1>1, <2>2 DEF Inside
  <2>4. r.off <= c
    BY <1>1, <2>1, <2>2, <2>3 DEF NoNode
  <2>5. r.depth >= 0
    <3> SUFFICES ASSUME ~(r.depth >= 0) PROVE FALSE
      OBVIOUS
    <3> HIDE DEF r
    <3>1. d[r.off] = d[node] /\ r.off > node
      BY <2>2 DEF Inside
    <3>2. r.off \in node + 1 .. c
      BY <1>1, <2>3, <2>4, <3>1
    <3>3. d[r.off] > d[node]
      BY <3>2 DEF Stays
    <3> QED
      BY <1>1, <3>1, <3>3
  <2> QED
    BY <2>2, <2>4, <2>5
<1>4. Spot(node, 0) \in P
  <2>1. Spot(node, 0) \in Spots /\ Spot(node, 0).off = node /\ Spot(node, 0).depth = 0
    BY <1>1, SpotFields
  <2> QED
    BY <1>1, <2>1 DEF Inside, Stays
<1>5. P \subseteq Spots
  BY <1>2
<1>6. PICK n \in P : FoundAt(n, fdt_subnode_offset(b, node, name))
  <2>1. node \in Int
    BY <1>1
  <2> HIDE DEF P, name
  <2> QED
    BY <1>3, <1>4, <1>5, <2>1, SubnodeSearch
<1>7. n.off \in Nat /\ n.depth \in Nat
  BY <1>2
<1> QED
  BY <1>6, <1>7 DEF FoundAt
-----------------------------------------------------------------------------
(* Paths and the nodes they name                                           *)

\* How deep each word is: only the ends are outside the root.
LEMMA NestedDepths ==
    ASSUME NEW ws, Block(ws), Nested(ws)
    PROVE  /\ Len(ws) \in Nat /\ Len(ws) > 1 /\ DepthsAre(ws, Depths(ws))
           /\ \A k \in 0 .. Len(ws) : Depths(ws)[k] \in Nat
           /\ \A k \in 1 .. Len(ws) - 2 : Depths(ws)[k] > 0
<1> DEFINE d == Depths(ws)
           N == Len(ws)
<1>1. N \in Nat /\ N > 1 /\ DepthsAre(ws, d)
  BY BlockMeans, DepthsExist DEF Nested
<1>2. \A k \in 1 .. N - 1 : d[k] >= 0 /\ (d[k] = 0 <=> k = N - 1)
  BY DEF Nested
<1> HIDE DEF d, N
<1>3. d[0] = 0 /\ \A k \in 0 .. N : d[k] \in Int
  BY <1>1 DEF DepthsAre, N
<1>4. d[N] = 0
  <2>1. N \in 1 .. Len(ws) /\ N - 1 \in 1 .. N - 1
    BY <1>1 DEF N
  <2>2. ws[N].tag = "END"
    BY <2>1 DEF Nested, N
  <2>3. d[N] = d[N - 1] + 0
    BY <1>1, <2>1, <2>2, Opens DEF DepthsAre
  <2> QED
    BY <1>2, <2>1, <2>3
<1>5. ASSUME NEW k \in 0 .. N PROVE d[k] \in Nat
  <2>1. k = 0 \/ k = N \/ k \in 1 .. N - 1
    BY <1>1
  <2> QED
    BY <1>2, <1>3, <1>4, <2>1
<1>6. ASSUME NEW k \in 1 .. N - 2 PROVE d[k] > 0
  <2>1. k \in 1 .. N - 1 /\ k # N - 1 /\ k \in 0 .. N
    BY <1>1
  <2>2. d[k] \in Nat
    BY <1>5, <2>1
  <2>3. d[k] # 0
    BY <1>2, <2>1
  <2> QED
    BY <2>2, <2>3
<1> QED
  BY <1>1, <1>5, <1>6 DEF d, N

\* A path is as long as its word is deep.
LEMMA PathLengths ==
    ASSUME NEW ws, Block(ws), Nested(ws), NEW p, PathsAre(ws, p), NEW k \in 0 .. Len(ws)
    PROVE  Len(p[k]) = Depths(ws)[k]
<1> DEFINE d == Depths(ws)
           N == Len(ws)
<1>1. N \in Nat /\ DepthsAre(ws, d) /\ d[0] = 0 /\ \A i \in 0 .. N : d[i] \in Nat
  BY NestedDepths DEF DepthsAre
<1> HIDE DEF d
<1>2. \A i \in 0 .. N : d[i] >= d[0]
  BY <1>1
<1>3. \A i \in 0 .. N : Extends(p[i], p[0], d[i] - d[0])
  <2>1. 0 \in Nat /\ N \in Nat /\ 0 <= N /\ N <= Len(ws)
    BY <1>1
  <2> QED
    BY <1>1, <1>2, <2>1, PathsBelow
<1>4. Extends(p[k], p[0], d[k] - d[0]) /\ p[0] = <<>> /\ d[k] \in Nat
  BY <1>1, <1>3 DEF PathsAre
<1>5. Len(p[k]) = 0 + (d[k] - 0)
  BY <1>1, <1>4 DEF Extends
<1> QED
  BY <1>4, <1>5 DEF d

\* j is the node open at word k that is l deep.
OpenAt(ws, p, d, k, l, j) ==
    /\ j \in 0 .. k - 1 /\ ws[j + 1].tag = "BEGIN" /\ d[j] = l - 1
    /\ Stays(d, j, k) /\ Extends(p[k], p[j + 1], d[k] - l)

LEMMA OpenNode ==
    ASSUME NEW ws, Block(ws), Nested(ws), NEW p, PathsAre(ws, p),
           NEW k \in 0 .. Len(ws), NEW l \in Nat, 0 < l, l <= Depths(ws)[k]
    PROVE  \E j : OpenAt(ws, p, Depths(ws), k, l, j)
<1> DEFINE d == Depths(ws)
           N == Len(ws)
           J == {i \in Nat : i <= k /\ d[k - i] < l}
<1>1. N \in Nat /\ DepthsAre(ws, d) /\ d[0] = 0 /\ (\A i \in 0 .. N : d[i] \in Nat)
      /\ k \in Nat /\ k <= N
  BY NestedDepths DEF DepthsAre
<1> HIDE DEF d, N
<1>2. PICK m \in J : \A i \in J : m <= i
  <2>1. k \in J
    BY <1>1
  <2>2. J \subseteq Nat /\ J # {}
    BY <2>1
  <2> HIDE DEF J
  <2> QED
    BY <2>2, NatLeast
<1> DEFINE j == k - m
<1>3. m \in Nat /\ m <= k /\ d[j] < l /\ j \in 0 .. k /\ j \in Nat
  BY <1>1, <1>2
<1>4. j # k
  BY <1>1, <1>3 DEF d
<1>5. ASSUME NEW i \in j + 1 .. k PROVE d[i] >= l /\ d[i] \in Nat
  <2>1. k - i \in Nat /\ k - i < m /\ k - (k - i) = i /\ k - i <= k /\ d[i] \in Nat
    BY <1>1, <1>3
  <2>2. k - i \notin J
    <3> SUFFICES ASSUME k - i \in J PROVE FALSE
      OBVIOUS
    <3>1. m <= k - i
      BY <1>2
    <3> HIDE DEF J
    <3> QED
      BY <1>3, <2>1, <3>1
  <2> QED
    BY <2>1, <2>2
<1> HIDE DEF J, j
<1>6. /\ j + 1 \in 1 .. N /\ j + 1 \in Nat /\ j + 1 <= k /\ d[j] \in Nat
      /\ d[j + 1] >= l /\ d[j + 1] \in Nat
  <2>1. j + 1 \in j + 1 .. k /\ j + 1 \in 1 .. N /\ j \in 0 .. N
    BY <1>1, <1>3, <1>4
  <2> QED
    BY <1>1, <1>3, <1>5, <2>1
<1>7. d[j + 1] = d[j] + opens(ws[j + 1])
  <2>1. (j + 1) - 1 = j
    BY <1>3
  <2> QED
    BY <1>1, <1>6, <2>1 DEF DepthsAre, N
<1>8. ws[j + 1].tag = "BEGIN" /\ d[j] = l - 1 /\ d[j + 1] = l
  <2>1. opens(ws[j + 1]) = 1
    <3>1. opens(ws[j + 1]) \in {-1, 0, 1}
      BY Opens
    <3> QED
      BY <1>3, <1>6, <1>7, <3>1
  <2>2. ws[j + 1].tag = "BEGIN"
    BY <2>1, Opens
  <2> QED
    BY <1>3, <1>6, <1>7, <2>1, <2>2
<1>9. Stays(d, j, k)
  <2>1. \A i \in j + 1 .. k : d[i] > d[j]
    BY <1>3, <1>5, <1>6
  <2> QED
    BY <2>1 DEF Stays
<1>10. Extends(p[k], p[j + 1], d[k] - l)
  <2>1. \A i \in j + 1 .. k : d[i] >= d[j + 1]
    BY <1>5, <1>8
  <2>2. \A i \in j + 1 .. k : Extends(p[i], p[j + 1], d[i] - d[j + 1])
    <3> DEFINE lo == j + 1
    <3>1. lo \in Nat /\ lo <= k /\ \A i \in lo .. k : d[i] >= d[lo]
      BY <1>6, <2>1
    <3> HIDE DEF lo
    <3>2. \A i \in lo .. k : Extends(p[i], p[lo], d[i] - d[lo])
      BY <1>1, <3>1, PathsBelow DEF N
    <3> QED
      BY <3>2 DEF lo
  <2>3. k \in j + 1 .. k
    BY <1>1, <1>6
  <2> QED
    BY <1>8, <2>2, <2>3
<1>11. j \in 0 .. k - 1
  BY <1>1, <1>3, <1>4
<1> QED
  BY <1>8, <1>9, <1>10, <1>11 DEF OpenAt, d
=============================================================================
