----------------------------- MODULE FdtRw_proofs -----------------------------
(***************************************************************************)
(* What every call of libfdt's read-write half leaves behind, for blobs,   *)
(* names, values and buffers of any size: a blob whose header tells the    *)
(* truth, whose blocks do not overlap, and whose nodes nest; and which     *)
(* offsets of nodes it leaves as they were.                                *)
(***************************************************************************)
EXTENDS FdtRw, FdtHeader_proofs, FdtBlob_proofs

-----------------------------------------------------------------------------
(* What a call returns                                                     *)

\* A blob as the read-write calls leave it.
Sound(b) == Agrees(b) /\ Good(b.hdr, b.nrsv)

\* What an edit of the contents may do to the header: nothing, replace words,
\* or add a name and perhaps words.
Replaces(b, c) ==
    \E old, new \in Nat :
        /\ old <= b.hdr.sizeStruct
        /\ fdt_splice_struct(b.hdr, 0, old, new).ret = 0
        /\ c.hdr = fdt_splice_struct(b.hdr, 0, old, new).hdr

AddsName(b, c) ==
    \E namelen, new \in Nat :
        /\ fdt_splice_string(b.hdr, namelen).ret = 0
        /\ c.hdr = fdt_splice_struct(fdt_splice_string(b.hdr, namelen).hdr,
                                     0, 0, new).hdr

Edited(b, c) ==
    c.nrsv = b.nrsv /\ (c.hdr = b.hdr \/ Replaces(b, c) \/ AddsName(b, c))

\* A nested block stays nested, or loses its root; then it does not change.
Keeps(ws, r) == (Nested(ws) => Shaped(r)) /\ (Rootless(ws) => r = ws)

\* What a call answers.
Answer(b, r) ==
    /\ r = [ret |-> r.ret, fdt |-> r.fdt]
    /\ Sound(r.fdt) /\ Edited(b, r.fdt)

LEMMA ErrAnswers ==
    ASSUME NEW b, Sound(b), NEW e
    PROVE  Answer(b, Err(b, e)) /\ Err(b, e).fdt = b /\ Keeps(b.words, b.words)
BY DEF Answer, Err, Edited, Keeps, Shaped

\* What changing some fields of a blob makes of it.
LEMMA FieldsOf ==
    ASSUME NEW H, NEW N, NEW W, NEW S,
           NEW b \in [hdr : H, nrsv : N, words : W, strs : S]
    PROVE  b = [hdr |-> b.hdr, nrsv |-> b.nrsv, words |-> b.words, strs |-> b.strs]
OBVIOUS

LEMMA BlobWith ==
    ASSUME NEW b, Fields(b), NEW g, NEW vs
    PROVE  [b EXCEPT !.hdr = g, !.words = vs]
              = [hdr |-> g, nrsv |-> b.nrsv, words |-> vs, strs |-> b.strs]
<1> DEFINE c == [b EXCEPT !.hdr = g, !.words = vs]
<1>1. /\ c \in [hdr : {b.hdr, g}, nrsv : {b.nrsv}, words : {b.words, vs},
                strs : {b.strs}]
      /\ c.hdr = g /\ c.nrsv = b.nrsv /\ c.words = vs /\ c.strs = b.strs
  BY DEF Fields
<1> HIDE DEF c
<1>2. c = [hdr |-> c.hdr, nrsv |-> c.nrsv, words |-> c.words, strs |-> c.strs]
  BY <1>1, FieldsOf
<1> QED
  BY <1>1, <1>2, Zenon DEF c

LEMMA BlobWithName ==
    ASSUME NEW b, Fields(b), NEW g, NEW t
    PROVE  [b EXCEPT !.hdr = g, !.strs = t]
              = [hdr |-> g, nrsv |-> b.nrsv, words |-> b.words, strs |-> t]
<1> DEFINE c == [b EXCEPT !.hdr = g, !.strs = t]
<1>1. /\ c \in [hdr : {b.hdr, g}, nrsv : {b.nrsv}, words : {b.words},
                strs : {b.strs, t}]
      /\ c.hdr = g /\ c.nrsv = b.nrsv /\ c.words = b.words /\ c.strs = t
  BY DEF Fields
<1> HIDE DEF c
<1>2. c = [hdr |-> c.hdr, nrsv |-> c.nrsv, words |-> c.words, strs |-> c.strs]
  BY <1>1, FieldsOf
<1> QED
  BY <1>1, <1>2, Zenon DEF c

LEMMA BlobWithEntries ==
    ASSUME NEW b, Fields(b), NEW g, NEW n
    PROVE  [b EXCEPT !.hdr = g, !.nrsv = n]
              = [hdr |-> g, nrsv |-> n, words |-> b.words, strs |-> b.strs]
<1> DEFINE c == [b EXCEPT !.hdr = g, !.nrsv = n]
<1>1. /\ c \in [hdr : {b.hdr, g}, nrsv : {b.nrsv, n}, words : {b.words},
                strs : {b.strs}]
      /\ c.hdr = g /\ c.nrsv = n /\ c.words = b.words /\ c.strs = b.strs
  BY DEF Fields
<1> HIDE DEF c
<1>2. c = [hdr |-> c.hdr, nrsv |-> c.nrsv, words |-> c.words, strs |-> c.strs]
  BY <1>1, FieldsOf
<1> QED
  BY <1>1, <1>2, Zenon DEF c

LEMMA BlobWithHeader ==
    ASSUME NEW b, Fields(b), NEW g
    PROVE  [b EXCEPT !.hdr = g]
              = [hdr |-> g, nrsv |-> b.nrsv, words |-> b.words, strs |-> b.strs]
<1> DEFINE c == [b EXCEPT !.hdr = g]
<1>1. /\ c \in [hdr : {b.hdr, g}, nrsv : {b.nrsv}, words : {b.words},
                strs : {b.strs}]
      /\ c.hdr = g /\ c.nrsv = b.nrsv /\ c.words = b.words /\ c.strs = b.strs
  BY DEF Fields
<1> HIDE DEF c
<1>2. c = [hdr |-> c.hdr, nrsv |-> c.nrsv, words |-> c.words, strs |-> c.strs]
  BY <1>1, FieldsOf
<1> QED
  BY <1>1, <1>2, Zenon DEF c

\* The check of the header lets a call on a sound blob pass, and changes
\* nothing.
LEMMA RwCalled ==
    ASSUME NEW b, Sound(b), NEW r, r = [ret |-> r.ret, fdt |-> r.fdt], Sound(r.fdt)
    PROVE  RwCall(b, r) = r
<1>1. fdt_rw_check_header(b.hdr) = 0
  BY GoodChecks DEF Sound
<1>2. r = [ret |-> r.ret, fdt |-> r.fdt]
      /\ r.fdt = [hdr |-> r.fdt.hdr, nrsv |-> r.fdt.nrsv, words |-> r.fdt.words,
                  strs |-> r.fdt.strs]
      /\ fdt_rw_header(r.fdt.hdr) = r.fdt.hdr
  BY GoodChecks DEF Sound, Agrees, Fields
<1>3. [r EXCEPT !.fdt.hdr = fdt_rw_header(@)] = r
  <2> DEFINE f == r.fdt
  <2>1. [f EXCEPT !.hdr = fdt_rw_header(@)] = f
    <3>1. f = [hdr |-> f.hdr, nrsv |-> f.nrsv, words |-> f.words, strs |-> f.strs]
          /\ fdt_rw_header(f.hdr) = f.hdr
      BY <1>2
    <3> HIDE DEF f
    <3> QED
      BY <3>1
  <2>2. [r EXCEPT !.fdt.hdr = fdt_rw_header(@)]
           = [r EXCEPT !.fdt = [f EXCEPT !.hdr = fdt_rw_header(@)]]
    OBVIOUS
  <2>3. [r EXCEPT !.fdt = f] = r
    BY <1>2
  <2> QED
    BY <2>1, <2>2, <2>3
<1> QED
  BY <1>1, <1>3 DEF RwCall

\* A splice of the structure block.
LEMMA SpliceAnswers ==
    ASSUME NEW b, Sound(b), NEW off \in Nat, NEW n \in Nat,
           off + n <= Len(b.words), NEW new, Block(new)
    PROVE  LET r == splice_words(b, off, n, new)
               s == fdt_splice_struct(b.hdr, 0, n * FDT_TAGSIZE,
                                      Len(new) * FDT_TAGSIZE)
           IN  /\ Answer(b, r)
               /\ r.fdt.hdr = s.hdr /\ r.fdt.nrsv = b.nrsv
               /\ \/ r.ret # 0 /\ r.fdt = b
                  \/ /\ r.ret = 0
                     /\ IsSplice(r.fdt.words, b.words, off, n, new)
<1> DEFINE N == Len(b.words)
           m == Len(new)
           r == splice_words(b, off, n, new)
           s == fdt_splice_struct(b.hdr, 0, n * FDT_TAGSIZE, m * FDT_TAGSIZE)
           ws == Splice(b.words, off, n, new)
           c == [hdr |-> s.hdr, nrsv |-> b.nrsv, words |-> ws, strs |-> b.strs]
<1>0. /\ N \in Nat /\ m \in Nat /\ b.hdr.sizeStruct = N * FDT_TAGSIZE
      /\ Good(b.hdr, b.nrsv) /\ b.hdr \in Header /\ Agrees(b)
  BY BlockMeans DEF Sound, Agrees, Good
<1>1. /\ n * FDT_TAGSIZE \in Nat /\ m * FDT_TAGSIZE \in Nat
      /\ off * FDT_TAGSIZE \in Int
      /\ off * FDT_TAGSIZE + n * FDT_TAGSIZE <= b.hdr.sizeStruct
      /\ n * FDT_TAGSIZE <= b.hdr.sizeStruct
  BY <1>0 DEF FDT_TAGSIZE
<1>2. fdt_splice_struct(b.hdr, off * FDT_TAGSIZE, n * FDT_TAGSIZE, m * FDT_TAGSIZE)
         = s
  <2> HIDE DEF m, N
  <2> QED
    BY <1>0, <1>1, SpliceStructAt
<1>3. r = IF s.ret # 0 THEN Err(b, s.ret)
          ELSE [ret |-> 0, fdt |-> [b EXCEPT !.hdr = s.hdr, !.words = ws]]
  <2> DEFINE s1 == fdt_splice_struct(b.hdr, off * FDT_TAGSIZE, n * FDT_TAGSIZE,
                                     m * FDT_TAGSIZE)
             moved(x) == IF x.ret # 0 THEN Err(b, x.ret)
                         ELSE [ret |-> 0,
                               fdt |-> [b EXCEPT !.hdr = x.hdr, !.words = ws]]
  <2>1. r = moved(s1)
    BY DEF splice_words, Splice
  <2>2. s1 = s
    BY <1>2
  <2> HIDE DEF s1, s
  <2> QED
    BY <2>1, <2>2
<1>4. \/ s.ret # 0 /\ s.hdr = b.hdr
      \/ /\ s.ret = 0 /\ s.hdr.sizeStruct = b.hdr.sizeStruct
                                             + (m * FDT_TAGSIZE - n * FDT_TAGSIZE)
         /\ s.hdr.sizeStrings = b.hdr.sizeStrings
  BY <1>0, <1>1, SpliceStructDone
<1>5. Good(s.hdr, b.nrsv)
  BY <1>0, <1>1, SpliceStructIsGood
<1>6. IsSplice(ws, b.words, off, n, new)
  BY Spliced DEF Sound, Agrees
<1> HIDE DEF s, r, ws, m, N
<1>7. CASE s.ret # 0
  <2>1. r = Err(b, s.ret) /\ s.hdr = b.hdr
    BY <1>3, <1>4, <1>7
  <2>2. Answer(b, r) /\ r.fdt = b /\ r.ret # 0
    BY <1>7, <2>1, ErrAnswers DEF Err
  <2> QED
    BY <2>1, <2>2 DEF r, s, m
<1>8. CASE s.ret = 0
  <2>1. [b EXCEPT !.hdr = s.hdr, !.words = ws] = c
    BY <1>0, BlobWith DEF Agrees
  <2>2. r = [ret |-> 0, fdt |-> c]
    BY <1>3, <1>8, <2>1
  <2>3. c.hdr = s.hdr /\ c.nrsv = b.nrsv /\ c.words = ws /\ c.strs = b.strs
        /\ c = [hdr |-> c.hdr, nrsv |-> c.nrsv, words |-> c.words, strs |-> c.strs]
    OBVIOUS
  <2> HIDE DEF c
  <2>4. Len(ws) * FDT_TAGSIZE = s.hdr.sizeStruct
    <3>1. Len(ws) = N - n + m
      BY <1>6 DEF IsSplice, N, m
    <3> QED
      BY <1>0, <1>4, <1>8, <3>1 DEF FDT_TAGSIZE
  <2>5. Sound(c)
    <3>1. Block(ws)
      BY <1>6 DEF IsSplice
    <3> QED
      BY <1>0, <1>4, <1>5, <1>8, <2>3, <2>4, <3>1 DEF Sound, Agrees, Fields
  <2>6. Edited(b, c)
    <3>1. Replaces(b, c)
      BY <1>1, <1>8, <2>3 DEF Replaces, s
    <3> QED
      BY <2>3, <3>1 DEF Edited
  <2>7. Answer(b, r) /\ r.fdt = c /\ r.ret = 0
    BY <2>2, <2>5, <2>6 DEF Answer
  <2> QED
    BY <1>6, <2>3, <2>7 DEF r, s, m
<1> QED
  BY <1>7, <1>8

\* A name that is looked for in the strings block, and added to it if need be.
LEMMA NameAnswers ==
    ASSUME NEW b, Sound(b), NEW name, Len(name) \in Nat
    PROVE  LET r == fdt_find_add_string(b, name)
               s == fdt_splice_string(b.hdr, Len(name) + 1)
           IN  /\ Answer(b, r)
               /\ r.fdt.words = b.words /\ r.fdt.nrsv = b.nrsv
               /\ \/ r.fdt = b
                  \/ r.ret = 0 /\ s.ret = 0 /\ r.fdt.hdr = s.hdr
<1> DEFINE r == fdt_find_add_string(b, name)
           s == fdt_splice_string(b.hdr, Len(name) + 1)
           c == [hdr |-> s.hdr, nrsv |-> b.nrsv, words |-> b.words,
                 strs |-> Append(b.strs, name)]
<1>0. /\ Good(b.hdr, b.nrsv) /\ b.hdr \in Header /\ Agrees(b)
      /\ Len(name) + 1 \in Nat
  BY DEF Sound, Good
<1>1. r = IF fdt_find_string(b.strs, name) THEN Err(b, 0)
          ELSE IF s.ret # 0 THEN Err(b, s.ret)
          ELSE [ret |-> 0, fdt |-> [b EXCEPT !.hdr = s.hdr, !.strs = Append(@, name)]]
  BY DEF fdt_find_add_string
<1>2. Good(s.hdr, b.nrsv) /\ s.hdr.sizeStruct = b.hdr.sizeStruct
  BY <1>0, SpliceStringIsGood
<1>3. s.ret = 0 => s.hdr.sizeStrings = b.hdr.sizeStrings + (Len(name) + 1)
  BY <1>0, SpliceStringDone
<1>4. /\ IsStrings(Append(b.strs, name))
      /\ strs_len(Append(b.strs, name)) = strs_len(b.strs) + Len(name) + 1
  BY <1>0, StringsMore DEF Agrees
<1> HIDE DEF s, r
<1>5. ASSUME NEW e, r = Err(b, e)
      PROVE  /\ Answer(b, r) /\ r.fdt = b
             /\ r.fdt.words = b.words /\ r.fdt.nrsv = b.nrsv
  BY <1>5, ErrAnswers
<1>6. CASE fdt_find_string(b.strs, name) \/ s.ret # 0
  <2>1. PICK e : r = Err(b, e)
    BY <1>1, <1>6
  <2> QED
    BY <1>5, <2>1 DEF r
<1>7. CASE ~fdt_find_string(b.strs, name) /\ s.ret = 0
  <2>1. [b EXCEPT !.hdr = s.hdr, !.strs = Append(@, name)] = c
    <3>1. Fields(b)
      BY <1>0 DEF Agrees
    <3> QED
      BY <3>1, BlobWithName, Zenon
  <2>2. r = [ret |-> 0, fdt |-> c]
    BY <1>1, <1>7, <2>1
  <2>3. c.hdr = s.hdr /\ c.nrsv = b.nrsv /\ c.words = b.words
        /\ c.strs = Append(b.strs, name)
        /\ c = [hdr |-> c.hdr, nrsv |-> c.nrsv, words |-> c.words, strs |-> c.strs]
    OBVIOUS
  <2> HIDE DEF c
  <2>4. s.hdr.sizeStrings = strs_len(Append(b.strs, name))
    <3>1. strs_len(b.strs) \in Int /\ b.hdr.sizeStrings = strs_len(b.strs)
      BY <1>0, HeaderFields DEF Agrees
    <3> QED
      BY <1>0, <1>3, <1>4, <1>7, <3>1
  <2>5. Sound(c)
    BY <1>0, <1>2, <1>4, <2>3, <2>4 DEF Sound, Agrees, Fields
  <2>6. Edited(b, c)
    <3>1. AddsName(b, c)
      <4>1. fdt_splice_struct(s.hdr, 0, 0, 0).hdr = s.hdr
        <5> DEFINE t == fdt_splice_struct(s.hdr, 0, 0, 0)
        <5>1. t.hdr = s.hdr \/
              t.hdr = [s.hdr EXCEPT !.sizeStruct = @ + (0 - 0),
                                    !.offStrings = @ + (0 - 0)]
          BY DEF fdt_splice_struct, Done, Fail
        <5>2. s.hdr \in Header
          BY <1>2 DEF Good
        <5>3. s.hdr.sizeStruct + (0 - 0) = s.hdr.sizeStruct
              /\ s.hdr.offStrings + (0 - 0) = s.hdr.offStrings
          BY <5>2, HeaderFields
        <5>4. [s.hdr EXCEPT !.sizeStruct = @ + (0 - 0), !.offStrings = @ + (0 - 0)]
                 = s.hdr
          BY <5>2, <5>3 DEF Header
        <5> QED
          BY <5>1, <5>4
      <4> QED
        BY <1>0, <1>7, <2>3, <4>1 DEF AddsName, s
    <3> QED
      BY <2>3, <3>1 DEF Edited
  <2>7. Answer(b, r) /\ r.fdt = c /\ r.ret = 0
    BY <2>2, <2>5, <2>6 DEF Answer
  <2> QED
    BY <1>7, <2>3, <2>7 DEF r, s
<1> QED
  BY <1>6, <1>7

-----------------------------------------------------------------------------
(* The calls on the structure block                                        *)

\* What a call may answer, and what it may leave of the nodes.
Outcome(b, r) == Answer(b, r) /\ Keeps(b.words, r.fdt.words)

LEMMA ErrOutcome ==
    ASSUME NEW b, Sound(b), NEW e PROVE Outcome(b, Err(b, e))
BY ErrAnswers DEF Outcome

LEMMA CallOutcome ==
    ASSUME NEW b, Sound(b), NEW r, Outcome(b, r) PROVE Outcome(b, RwCall(b, r))
BY RwCalled DEF Outcome, Answer

\* A block with a node or a property in it is not rootless.
LEMMA NotRootless ==
    ASSUME NEW b, Block(b.words), NEW off \in 0 .. Len(b.words) - 1,
           At(b, off).tag \in {"BEGIN", "PROP"}
    PROVE  ~Rootless(b.words)
<1>1. off + 1 \in 1 .. Len(b.words) /\ b.words[off + 1].tag \in {"BEGIN", "PROP"}
  BY BlockMeans DEF At
<1> QED
  BY <1>1 DEF Rootless

\* A splice that fits.
LEMMA SpliceOutcome ==
    ASSUME NEW b, Sound(b), NEW off \in Nat, NEW n \in Nat,
           off + n <= Len(b.words), NEW new, Block(new), ~Rootless(b.words),
           Nested(b.words) => Fits(b.words, off, n, new)
    PROVE  Outcome(b, splice_words(b, off, n, new))
<1> DEFINE r == splice_words(b, off, n, new)
<1>1. /\ Answer(b, r)
      /\ r.fdt = b \/ IsSplice(r.fdt.words, b.words, off, n, new)
  BY SpliceAnswers
<1> HIDE DEF r
<1>2. ASSUME Nested(b.words) PROVE Nested(r.fdt.words)
  <2>1. CASE r.fdt = b
    BY <1>2, <2>1
  <2>2. CASE IsSplice(r.fdt.words, b.words, off, n, new)
    BY <1>2, <2>2, SplicedNested DEF Sound, Agrees
  <2> QED
    BY <1>1, <2>1, <2>2
<1> QED
  BY <1>1, <1>2 DEF Outcome, Keeps, Shaped, r

\* The tag behind another one.
LEMMA NextTagStarts ==
    ASSUME NEW b, Block(b.words), Nested(b.words), NEW off \in Starts(b.words),
           At(b, off).tag \in {"BEGIN", "PROP"}
    PROVE  /\ off + tag_words(At(b, off)) \in Starts(b.words)
           /\ Depths(b.words)[off + tag_words(At(b, off))]
                 = Depths(b.words)[off] + opens(At(b, off))
<1>1. TagAt(b, off, fdt_next_tag(b, off))
  BY NextStart
<1> QED
  BY <1>1 DEF TagAt

\* A tag that is rewritten.
LEMMA RetagOutcome ==
    ASSUME NEW b, Sound(b), NEW p \in 0 .. Len(b.words) - 1, NEW w, IsWord(w),
           w.tag \in {"BEGIN", "PROP"}, At(b, p).tag = w.tag,
           p + tag_words(At(b, p)) <= Len(b.words),
           Nested(b.words) => p \in Starts(b.words) /\ p > 0 /\ Depths(b.words)[p] > 0
    PROVE  Outcome(b, Retag(b, p, w))
<1> DEFINE n == tag_words(At(b, p))
<1>0. Block(b.words) /\ Len(b.words) \in Nat
  BY BlockMeans DEF Sound, Agrees
<1>1. p \in Nat /\ n \in Nat
  <2>1. p + 1 \in 1 .. Len(b.words)
    BY <1>0
  <2> QED
    BY <1>0, <2>1, BlockMeans DEF At
<1>2. Block(Unit(w))
  BY UnitWords
<1>3. ~Rootless(b.words)
  BY <1>0, NotRootless
<1>4. opens(At(b, p)) = opens(w)
  BY DEF opens
<1> HIDE DEF n
<1>5. ASSUME Nested(b.words) PROVE Fits(b.words, p, n, Unit(w))
  <2>1. p \in Starts(b.words) /\ p > 0 /\ Depths(b.words)[p] > 0
    BY <1>5
  <2>2. /\ p + n \in Starts(b.words)
        /\ Depths(b.words)[p + n] = Depths(b.words)[p] + opens(w)
    BY <1>0, <1>4, <1>5, <2>1, NextTagStarts DEF n
  <2> QED
    BY <1>0, <1>1, <2>1, <2>2, TagFits
<1>6. Outcome(b, splice_words(b, p, n, Unit(w)))
  BY <1>1, <1>2, <1>3, <1>5, SpliceOutcome DEF n
<1> QED
  BY <1>6 DEF Retag, n

\* What the calls find of a property.
LEMMA FoundProperty ==
    ASSUME NEW b, Sound(b), NEW node \in Int, NEW name,
           fdt_get_property(b, node, name) >= 0
    PROVE  LET p == fdt_get_property(b, node, name)
           IN  /\ p \in 0 .. Len(b.words) - 1 /\ At(b, p).tag = "PROP"
               /\ p + tag_words(At(b, p)) <= Len(b.words)
               /\ tag_words(At(b, p)) \in Nat /\ IsWord(At(b, p))
               /\ ~Rootless(b.words)
               /\ Nested(b.words) => p \in Starts(b.words) /\ p > 0
                                     /\ Depths(b.words)[p] > 0
<1> DEFINE p == fdt_get_property(b, node, name)
<1>0. Block(b.words) /\ Len(b.words) \in Nat /\ DOMAIN b.words = 1 .. Len(b.words)
  BY BlockMeans DEF Sound, Agrees
<1>1. /\ p \in 0 .. Len(b.words) - 1 /\ At(b, p).tag = "PROP"
      /\ p + tag_words(At(b, p)) <= Len(b.words)
  BY <1>0, PropertyTag
<1>2. Nested(b.words) => p \in Starts(b.words) /\ p > 0 /\ Depths(b.words)[p] > 0
  BY <1>0, PropertyFound
<1> HIDE DEF p
<1>3. p + 1 \in 1 .. Len(b.words)
  BY <1>0, <1>1
<1>4. tag_words(At(b, p)) \in Nat /\ IsWord(At(b, p))
  BY <1>0, <1>3, BlockMeans DEF At, Block
<1>5. ~Rootless(b.words)
  BY <1>0, <1>1, NotRootless
<1> QED
  BY <1>1, <1>2, <1>4, <1>5 DEF p

\* fdt_delprop.
LEMMA NoWords == Block(<<>>) /\ Len(<<>>) = 0
<1>1. Len(<<>>) = 0 /\ <<>> \in Seq({}) /\ DOMAIN <<>> = {}
  OBVIOUS
<1>2. IsSeq(<<>>)
  BY NoValue DEF IsValue
<1> QED
  BY <1>1, <1>2 DEF Block

LEMMA DelPropOutcome ==
    ASSUME NEW b, Sound(b), NEW node \in Int, NEW name
    PROVE  Outcome(b, fdt_delprop(b, node, name))
<1> DEFINE p == fdt_get_property(b, node, name)
           n == tag_words(At(b, p))
           r == IF p < 0 THEN Err(b, p) ELSE splice_words(b, p, n, <<>>)
<1>0. fdt_delprop(b, node, name) = RwCall(b, r) /\ p \in Int /\ Block(b.words)
  BY PropertyTag DEF fdt_delprop, Sound, Agrees
<1>1. ASSUME p < 0 PROVE Outcome(b, r)
  BY <1>1, ErrOutcome
<1>2. ASSUME p >= 0 PROVE Outcome(b, r)
  <2>1. /\ p \in 0 .. Len(b.words) - 1 /\ At(b, p).tag = "PROP"
        /\ p + n <= Len(b.words) /\ n \in Nat /\ ~Rootless(b.words)
        /\ Nested(b.words) => p \in Starts(b.words) /\ p > 0
                              /\ Depths(b.words)[p] > 0
    BY <1>2, FoundProperty
  <2>2. opens(At(b, p)) = 0 /\ p \in Nat
    BY <1>0, <1>2, <2>1, Opens
  <2> HIDE DEF p, n
  <2>3. ASSUME Nested(b.words) PROVE Fits(b.words, p, n, <<>>)
    <3>1. p \in Starts(b.words) /\ p > 0 /\ Depths(b.words)[p] > 0
      BY <2>1, <2>3
    <3>2. /\ p + n \in Starts(b.words)
          /\ Depths(b.words)[p + n] = Depths(b.words)[p] + opens(At(b, p))
      BY <1>0, <2>1, <2>3, <3>1, NextTagStarts DEF n
    <3>3. Depths(b.words)[p] \in Int
      BY <1>0, <3>1, DepthNumbers
    <3>4. Depths(b.words)[p + n] = Depths(b.words)[p]
      BY <2>2, <3>2, <3>3
    <3> QED
      BY <1>0, <2>1, <3>1, <3>2, <3>4, NothingFits
  <2>4. Outcome(b, splice_words(b, p, n, <<>>))
    BY <2>1, <2>2, <2>3, NoWords, SpliceOutcome
  <2>5. r = splice_words(b, p, n, <<>>)
    BY <1>0, <1>2 DEF p, n
  <2> HIDE DEF r
  <2> QED
    BY <2>4, <2>5
<1>3. Outcome(b, r)
  BY <1>0, <1>1, <1>2
<1> HIDE DEF r
<1> QED
  BY <1>0, <1>3, CallOutcome

\* Overwriting words.
LEMMA OverwriteAnswers ==
    ASSUME NEW b, Sound(b), NEW new, Block(new), NEW off \in Nat,
           off + Len(new) <= Len(b.words)
    PROVE  LET r == [ret |-> 0, fdt |-> Overwrite(b, off, new)]
           IN  /\ Answer(b, r)
               /\ IsSplice(r.fdt.words, b.words, off, Len(new), new)
               /\ Len(r.fdt.words) = Len(b.words)
<1> DEFINE c == Overwrite(b, off, new)
<1>0. Block(b.words) /\ Agrees(b) /\ Good(b.hdr, b.nrsv)
  BY DEF Sound, Agrees
<1>1. /\ IsSplice(c.words, b.words, off, Len(new), new)
      /\ Len(c.words) = Len(b.words)
  BY <1>0, Overwritten
<1>2. /\ c \in [hdr : {b.hdr}, nrsv : {b.nrsv}, words : {b.words, c.words},
                strs : {b.strs}]
      /\ c.hdr = b.hdr /\ c.nrsv = b.nrsv /\ c.strs = b.strs
  BY <1>0 DEF Agrees, Fields, Overwrite
<1> HIDE DEF c
<1>3. c = [hdr |-> c.hdr, nrsv |-> c.nrsv, words |-> c.words, strs |-> c.strs]
  BY <1>2, FieldsOf
<1>4. Sound(c)
  BY <1>0, <1>1, <1>2, <1>3 DEF Sound, Agrees, Fields, IsSplice
<1>5. Edited(b, c)
  BY <1>2 DEF Edited
<1>6. Answer(b, [ret |-> 0, fdt |-> c])
  BY <1>4, <1>5 DEF Answer
<1> QED
  BY <1>1, <1>6 DEF c

LEMMA NopPropertyOutcome ==
    ASSUME NEW b, Sound(b), NEW node \in Int, NEW name
    PROVE  Outcome(b, fdt_nop_property(b, node, name))
<1> DEFINE p == fdt_get_property(b, node, name)
           n == tag_words(At(b, p))
           r == [ret |-> 0, fdt |-> Overwrite(b, p, Nops(n))]
<1>0. fdt_nop_property(b, node, name) = (IF p < 0 THEN Err(b, p) ELSE r)
      /\ p \in Int /\ Block(b.words)
  BY PropertyTag DEF fdt_nop_property, Sound, Agrees
<1>1. CASE p < 0
  BY <1>0, <1>1, ErrOutcome
<1>2. CASE p >= 0
  <2>1. /\ p \in 0 .. Len(b.words) - 1 /\ At(b, p).tag = "PROP"
        /\ p + n <= Len(b.words) /\ n \in Nat /\ ~Rootless(b.words)
        /\ Nested(b.words) => p \in Starts(b.words) /\ p > 0
                              /\ Depths(b.words)[p] > 0
    BY <1>2, FoundProperty
  <2>2. opens(At(b, p)) = 0 /\ p \in Nat
    BY <1>0, <1>2, <2>1, Opens
  <2>3. Block(Nops(n)) /\ Len(Nops(n)) = n
    BY <2>1, NopWords
  <2>4. Answer(b, r) /\ IsSplice(r.fdt.words, b.words, p, n, Nops(n))
    <3> HIDE DEF p, n
    <3> QED
      BY <2>1, <2>2, <2>3, OverwriteAnswers
  <2> HIDE DEF p, n, r
  <2>5. ASSUME Nested(b.words) PROVE Fits(b.words, p, n, Nops(n))
    <3>1. p \in Starts(b.words) /\ p > 0 /\ Depths(b.words)[p] > 0
      BY <2>1, <2>5
    <3>2. /\ p + n \in Starts(b.words)
          /\ Depths(b.words)[p + n] = Depths(b.words)[p] + opens(At(b, p))
      BY <1>0, <2>1, <2>5, <3>1, NextTagStarts DEF n
    <3>3. Depths(b.words)[p] \in Int
      BY <1>0, <3>1, DepthNumbers
    <3>4. Depths(b.words)[p + n] = Depths(b.words)[p]
      BY <2>2, <3>2, <3>3
    <3> QED
      BY <1>0, <2>1, <3>1, <3>2, <3>4, NopsFit
  <2>6. Nested(b.words) => Nested(r.fdt.words)
    BY <1>0, <2>4, <2>5, SplicedNested
  <2>7. Outcome(b, r)
    BY <2>1, <2>4, <2>6 DEF Outcome, Keeps, Shaped
  <2> QED
    BY <1>0, <1>2, <2>7
<1> QED
  BY <1>0, <1>1, <1>2

\* Words with the tags and the lengths of others are as nested as those.
LEMMA SameTagsNested ==
    ASSUME NEW ws, Block(ws), Nested(ws), NEW r, Block(r), Len(r) = Len(ws),
           \A k \in 1 .. Len(ws) : r[k].tag = ws[k].tag
                                    /\ tag_words(r[k]) = tag_words(ws[k])
    PROVE  Nested(r)
<1> DEFINE N == Len(ws)
           d == Depths(ws)
<1>0. N \in Nat /\ DepthsAre(ws, d) /\ DepthsAre(r, Depths(r))
  BY BlockMeans, DepthsExist
<1>1. ASSUME NEW k \in 1 .. N PROVE opens(r[k]) = opens(ws[k])
  BY <1>1 DEF opens
<1>2. DepthsAre(r, d)
  BY <1>0, <1>1 DEF DepthsAre
<1>3. Depths(r) = d
  <2> HIDE DEF d
  <2> QED
    BY <1>0, <1>2, DepthsUnique
<1>4. ASSUME NEW k \in 1 .. N, r[k].tag # "CONT"
      PROVE  /\ k + tag_words(r[k]) <= N + 1
             /\ \A j \in k + 1 .. (k + tag_words(r[k])) - 1 : r[j].tag = "CONT"
             /\ k + tag_words(r[k]) <= N => r[k + tag_words(r[k])].tag # "CONT"
  <2> DEFINE t == tag_words(ws[k])
  <2>1. tag_words(r[k]) = t /\ ws[k].tag # "CONT" /\ t \in Nat \ {0}
    BY <1>4, BlockMeans
  <2>2. /\ k + t <= N + 1
        /\ \A j \in k + 1 .. (k + t) - 1 : ws[j].tag = "CONT"
        /\ k + t <= N => ws[k + t].tag # "CONT"
    BY <2>1 DEF Nested, Units
  <2> HIDE DEF t
  <2>3. ASSUME NEW j \in k + 1 .. (k + t) - 1 PROVE r[j].tag = "CONT"
    <3>1. j \in 1 .. N
      BY <1>0, <2>1, <2>2
    <3> QED
      BY <2>2, <3>1
  <2>4. k + t <= N => k + t \in 1 .. N
    BY <1>0, <2>1
  <2> QED
    BY <2>1, <2>2, <2>3, <2>4
<1>5. Units(r)
  BY <1>4 DEF Units
<1>6. N > 1 /\ 1 \in 1 .. N /\ ws[1].tag = "BEGIN"
      /\ \A k \in 1 .. N : ws[k].tag = "END" <=> k = N
  BY <1>0 DEF Nested
<1>7. r[1].tag = "BEGIN" /\ \A k \in 1 .. N : r[k].tag = "END" <=> k = N
  BY <1>6
<1>8. \A k \in 1 .. N - 1 : d[k] >= 0 /\ (d[k] = 0 <=> k = N - 1)
  BY DEF Nested
<1> HIDE DEF d
<1> QED
  BY <1>3, <1>5, <1>6, <1>7, <1>8 DEF Nested

LEMMA SetPropInplaceOutcome ==
    ASSUME NEW b, Sound(b), NEW node \in Int, NEW name, NEW val, IsValue(val),
           Len(name) \in Nat
    PROVE  Outcome(b, fdt_setprop_inplace(b, node, name, val))
<1> DEFINE p == fdt_get_property(b, node, name)
           w == Prop(name, val)
           r == [ret |-> 0, fdt |-> Overwrite(b, p, <<w>>)]
<1>0. p \in Int /\ Block(b.words)
  BY PropertyTag DEF Sound, Agrees
<1>1. fdt_setprop_inplace(b, node, name, val) =
        IF p < 0 THEN Err(b, p)
        ELSE IF val_len(At(b, p).val) # val_len(val) THEN Err(b, -FDT_ERR_NOSPACE)
        ELSE r
  BY <1>0 DEF fdt_setprop_inplace
<1>2. CASE p < 0
  BY <1>1, <1>2, ErrOutcome
<1>3. CASE p >= 0 /\ val_len(At(b, p).val) # val_len(val)
  BY <1>0, <1>1, <1>3, ErrOutcome
<1>4. CASE p >= 0 /\ val_len(At(b, p).val) = val_len(val)
  <2>1. /\ p \in 0 .. Len(b.words) - 1 /\ At(b, p).tag = "PROP" /\ ~Rootless(b.words)
    BY <1>4, FoundProperty
  <2>2. Len(b.words) \in Nat /\ p \in Nat /\ p + 1 <= Len(b.words)
    BY <1>0, <1>4, <2>1, BlockMeans
  <2>3. Block(<<w>>) /\ Len(<<w>>) = 1 /\ <<w>>[1] = w
    <3>1. IsWord(w)
      BY NewTags
    <3> HIDE DEF w
    <3>2. <<w>> \in Seq({w})
      OBVIOUS
    <3> DEFINE v == <<w>>
    <3>3. v \in Seq({w}) /\ DOMAIN v = {1} /\ v[1] = w /\ Len(v) = 1
      BY <3>2
    <3> HIDE DEF v
    <3>4. Block(v)
      BY <3>1, <3>3, SeqIs DEF Block
    <3> QED
      BY <3>3, <3>4 DEF v
  <2> DEFINE new == <<w>>
  <2> HIDE DEF new, p, w
  <2>4. /\ Answer(b, [ret |-> 0, fdt |-> Overwrite(b, p, new)])
        /\ IsSplice(Overwrite(b, p, new).words, b.words, p, Len(new), new)
        /\ Len(Overwrite(b, p, new).words) = Len(b.words)
    BY <2>2, <2>3, OverwriteAnswers DEF new
  <2> DEFINE vs == Overwrite(b, p, new).words
  <2>5. Block(vs) /\ Len(vs) = Len(b.words)
    BY <2>4 DEF IsSplice
  <2>6. tag_words(w) = tag_words(At(b, p)) /\ w.tag = "PROP"
    <3>1. w.tag = "PROP" /\ w.val = val
      BY DEF w, Prop, Word
    <3> QED
      BY <1>4, <2>1, <3>1 DEF tag_words
  <2>7. ASSUME NEW k \in 1 .. Len(b.words)
        PROVE  vs[k].tag = b.words[k].tag /\ tag_words(vs[k]) = tag_words(b.words[k])
    <3>1. vs[k] = IF k <= p THEN b.words[k]
                  ELSE IF k <= p + 1 THEN new[k - p] ELSE b.words[k - 1 + 1]
      BY <2>3, <2>4, <2>5 DEF IsSplice, new
    <3>2. CASE k = p + 1
      <4>1. ~(k <= p) /\ k <= p + 1 /\ k - p = 1
        BY <2>2, <3>2
      <4>2. vs[k] = w /\ b.words[k] = At(b, p)
        BY <2>3, <3>1, <3>2, <4>1 DEF new, At
      <4> QED
        BY <2>1, <2>6, <4>2
    <3>3. CASE k # p + 1
      <4>1. k <= p \/ (~(k <= p) /\ ~(k <= p + 1) /\ k - 1 + 1 = k)
        BY <2>2, <3>3
      <4> QED
        BY <3>1, <4>1
    <3> QED
      BY <3>2, <3>3
  <2> HIDE DEF vs
  <2>8. Nested(b.words) => Nested(vs)
    BY <1>0, <2>5, <2>7, SameTagsNested
  <2>9. Outcome(b, [ret |-> 0, fdt |-> Overwrite(b, p, new)])
    BY <2>1, <2>4, <2>8 DEF Outcome, Keeps, Shaped, vs
  <2>10. ~(p < 0)
    BY <2>2
  <2> QED
    BY <1>1, <1>4, <2>9, <2>10 DEF new, w, p
<1> QED
  BY <1>0, <1>2, <1>3, <1>4

\* What the calls find of a node's end.
LEMMA FoundEnd ==
    ASSUME NEW b, Sound(b), NEW node \in Int, fdt_node_end_offset(b, node) >= 0
    PROVE  LET e == fdt_node_end_offset(b, node)
           IN  /\ node \in Nat /\ e \in Nat /\ node <= e /\ e <= Len(b.words)
               /\ ~Rootless(b.words)
               /\ Nested(b.words) =>
                     IF node = 0 THEN e = Len(b.words) - 1
                     ELSE /\ node \in Starts(b.words) /\ e \in Starts(b.words)
                          /\ Depths(b.words)[node] > 0
                          /\ Depths(b.words)[e] = Depths(b.words)[node]
<1> DEFINE e == fdt_node_end_offset(b, node)
           N == Len(b.words)
           d == Depths(b.words)
<1>0. Block(b.words) /\ N \in Nat /\ DepthsAre(b.words, d)
  BY BlockMeans, DepthNumbers DEF Sound, Agrees
<1>1. e \in Int /\ node >= 0 /\ e \in node .. N
  BY <1>0, EndBehind
<1>2. PICK next \in Int : IsNode(b, node, next)
  <2>1. SUFFICES ASSUME \A next \in Int : ~IsNode(b, node, next) PROVE FALSE
    OBVIOUS
  <2>2. e < 0
    BY <1>0, <2>1, NotNode
  <2> QED
    BY <1>1, <2>2
<1>3. ~Rootless(b.words)
  BY <1>0, <1>2, NotRootless DEF IsNode
<1> HIDE DEF N
<1>4. ASSUME Nested(b.words)
      PROVE  IF node = 0 THEN e = N - 1
             ELSE /\ node \in Starts(b.words) /\ e \in Starts(b.words)
                  /\ d[node] > 0 /\ d[e] = d[node]
  <2>1. e \in Starts(b.words) /\ e > node /\ d[e] = d[node]
    BY <1>0, <1>4, EndFound
  <2>2. node \in Starts(b.words) /\ (node > 0 => d[node] > 0)
    BY <1>0, <1>2, <1>4, NodeInside
  <2>3. ASSUME node = 0 PROVE e = N - 1
    <3>1. d[0] = 0
      BY <1>0 DEF DepthsAre
    <3>2. e \in 1 .. N - 1
      BY <1>0, <1>1, <2>1, <2>3 DEF Starts, N
    <3>3. d[e] = 0 <=> e = N - 1
      BY <1>4, <3>2 DEF Nested, N
    <3> QED
      BY <2>1, <2>3, <3>1, <3>3
  <2>4. node # 0 => node > 0
    BY <1>1
  <2> HIDE DEF d, e
  <2> QED
    BY <2>1, <2>2, <2>3, <2>4
<1> QED
  BY <1>0, <1>1, <1>3, <1>4 DEF N

\* The root is gone: what is left is the end.
LEMMA RootReplaced ==
    ASSUME NEW ws, Block(ws), Nested(ws), NEW new, Block(new),
           \A k \in 1 .. Len(new) : new[k].tag = "NOP",
           NEW r, IsSplice(r, ws, 0, Len(ws) - 1, new)
    PROVE  Rootless(r)
<1> DEFINE N == Len(ws)
           m == Len(new)
<1>0. N \in Nat /\ m \in Nat
  BY BlockMeans
<1>1. Len(r) = N - (N - 1) + m /\ \A k \in 1 .. Len(r) :
         r[k] = IF k <= 0 THEN ws[k]
                ELSE IF k <= 0 + m THEN new[k - 0] ELSE ws[k - m + (N - 1)]
  BY DEF IsSplice
<1>2. N > 1 /\ ws[N].tag = "END"
  BY <1>0 DEF Nested
<1> HIDE DEF N, m
<1>3. Len(r) = m + 1
  BY <1>0, <1>1
<1>4. ASSUME NEW k \in 1 .. Len(r)
      PROVE  r[k].tag = IF k = Len(r) THEN "END" ELSE "NOP"
  <2>1. CASE k = m + 1
    <3>1. ~(k <= 0) /\ ~(k <= 0 + m) /\ k - m + (N - 1) = N
      BY <1>0, <2>1
    <3> QED
      BY <1>1, <1>2, <1>3, <2>1, <3>1
  <2>2. CASE k # m + 1
    <3>1. ~(k <= 0) /\ k <= 0 + m /\ k - 0 = k /\ k \in 1 .. m
      BY <1>0, <1>3, <2>2
    <3>2. new[k].tag = "NOP"
      BY <3>1 DEF m
    <3> QED
      BY <1>1, <1>3, <2>2, <3>1, <3>2
  <2> QED
    BY <2>1, <2>2
<1>5. Len(r) > 0
  BY <1>0, <1>3
<1> QED
  BY <1>4, <1>5 DEF Rootless

LEMMA NopNodeOutcome ==
    ASSUME NEW b, Sound(b), NEW node \in Int
    PROVE  Outcome(b, fdt_nop_node(b, node))
<1> DEFINE e == fdt_node_end_offset(b, node)
           n == e - node
           r == [ret |-> 0, fdt |-> Overwrite(b, node, Nops(n))]
<1>0. fdt_nop_node(b, node) = (IF e < 0 THEN Err(b, e) ELSE r)
      /\ e \in Int /\ Block(b.words) /\ Len(b.words) \in Nat
  BY EndBehind, BlockMeans DEF fdt_nop_node, Sound, Agrees
<1>1. CASE e < 0
  BY <1>0, <1>1, ErrOutcome
<1>2. CASE e >= 0
  <2>1. /\ node \in Nat /\ e \in Nat /\ node <= e /\ e <= Len(b.words)
        /\ ~Rootless(b.words)
        /\ Nested(b.words) =>
              IF node = 0 THEN e = Len(b.words) - 1
              ELSE /\ node \in Starts(b.words) /\ e \in Starts(b.words)
                   /\ Depths(b.words)[node] > 0
                   /\ Depths(b.words)[e] = Depths(b.words)[node]
    BY <1>2, FoundEnd
  <2> HIDE DEF e
  <2>2. n \in Nat /\ node + n = e /\ node + n <= Len(b.words)
    BY <2>1
  <2> HIDE DEF n
  <2>3. Block(Nops(n)) /\ Len(Nops(n)) = n /\ \A k \in 1 .. n : Nops(n)[k] = Nop
    BY <2>2, NopWords
  <2>4. Answer(b, r) /\ IsSplice(r.fdt.words, b.words, node, n, Nops(n))
    BY <2>1, <2>2, <2>3, OverwriteAnswers
  <2> HIDE DEF r
  <2>5. ASSUME Nested(b.words), node # 0 PROVE Nested(r.fdt.words)
    <3>1. /\ node \in Starts(b.words) /\ node + n \in Starts(b.words)
          /\ Depths(b.words)[node] > 0
          /\ Depths(b.words)[node + n] = Depths(b.words)[node]
      BY <2>1, <2>2, <2>5
    <3>2. node > 0
      BY <2>1, <2>5
    <3>3. Fits(b.words, node, n, Nops(n))
      BY <1>0, <2>2, <3>1, <3>2, NopsFit
    <3> QED
      BY <1>0, <2>4, <2>5, <3>3, SplicedNested
  <2>6. ASSUME Nested(b.words), node = 0 PROVE Rootless(r.fdt.words)
    <3>1. n = Len(b.words) - 1
      BY <2>1, <2>2, <2>6
    <3>2. IsSplice(r.fdt.words, b.words, 0, Len(b.words) - 1, Nops(n))
      BY <2>4, <2>6, <3>1
    <3>3. Nop.tag = "NOP"
      BY DEF Nop, Word
    <3>4. \A k \in 1 .. Len(Nops(n)) : Nops(n)[k].tag = "NOP"
      BY <2>3, <3>3
    <3> QED
      BY <1>0, <2>3, <2>6, <3>2, <3>4, RootReplaced
  <2>7. Outcome(b, r)
    BY <2>1, <2>4, <2>5, <2>6 DEF Outcome, Keeps, Shaped
  <2>8. ~(e < 0)
    BY <2>1
  <2> QED
    BY <1>0, <2>7, <2>8
<1> QED
  BY <1>0, <1>1, <1>2

LEMMA DelNodeOutcome ==
    ASSUME NEW b, Sound(b), NEW node \in Int
    PROVE  Outcome(b, fdt_del_node(b, node))
<1> DEFINE e == fdt_node_end_offset(b, node)
           n == e - node
           s == splice_words(b, node, n, <<>>)
           r == IF e < 0 THEN Err(b, e) ELSE s
<1>0. fdt_del_node(b, node) = RwCall(b, r)
      /\ e \in Int /\ Block(b.words) /\ Len(b.words) \in Nat
  BY EndBehind, BlockMeans DEF fdt_del_node, Sound, Agrees
<1>1. ASSUME e < 0 PROVE Outcome(b, r)
  BY <1>1, ErrOutcome
<1>2. ASSUME e >= 0 PROVE Outcome(b, r)
  <2>1. /\ node \in Nat /\ e \in Nat /\ node <= e /\ e <= Len(b.words)
        /\ ~Rootless(b.words)
        /\ Nested(b.words) =>
              IF node = 0 THEN e = Len(b.words) - 1
              ELSE /\ node \in Starts(b.words) /\ e \in Starts(b.words)
                   /\ Depths(b.words)[node] > 0
                   /\ Depths(b.words)[e] = Depths(b.words)[node]
    BY <1>2, FoundEnd
  <2>0. r = s
    BY <1>0, <1>2
  <2> HIDE DEF e, r
  <2>2. n \in Nat /\ node + n = e /\ node + n <= Len(b.words)
    BY <2>1
  <2> HIDE DEF n
  <2>3. ASSUME Nested(b.words), node # 0 PROVE Fits(b.words, node, n, <<>>)
    <3>1. /\ node \in Starts(b.words) /\ node + n \in Starts(b.words)
          /\ Depths(b.words)[node] > 0
          /\ Depths(b.words)[node + n] = Depths(b.words)[node]
      BY <2>1, <2>2, <2>3
    <3>2. node > 0
      BY <2>1, <2>3
    <3> QED
      BY <1>0, <2>2, <3>1, <3>2, NothingFits
  <2>4. CASE Nested(b.words) /\ node = 0
    <3>1. Answer(b, s) /\ (s.fdt = b \/ IsSplice(s.fdt.words, b.words, node, n, <<>>))
      BY <2>1, <2>2, NoWords, SpliceAnswers
    <3>2. n = Len(b.words) - 1
      BY <2>1, <2>2, <2>4
    <3> HIDE DEF s
    <3>3. Shaped(s.fdt.words)
      <4>1. CASE s.fdt = b
        BY <2>4, <4>1 DEF Shaped
      <4>2. CASE IsSplice(s.fdt.words, b.words, 0, Len(b.words) - 1, <<>>)
        <5>1. \A k \in 1 .. Len(<<>>) : <<>>[k].tag = "NOP"
          OBVIOUS
        <5>2. Rootless(s.fdt.words)
          BY <1>0, <2>4, <4>2, <5>1, NoWords, RootReplaced
        <5> QED
          BY <5>2 DEF Shaped
      <4> QED
        BY <2>4, <3>1, <3>2, <4>1, <4>2
    <3>4. Outcome(b, s)
      BY <2>1, <3>1, <3>3 DEF Outcome, Keeps
    <3> QED
      BY <2>0, <3>4
  <2>5. CASE ~(Nested(b.words) /\ node = 0)
    <3>1. Nested(b.words) => Fits(b.words, node, n, <<>>)
      BY <2>3, <2>5
    <3>2. Outcome(b, s)
      BY <2>1, <2>2, <3>1, NoWords, SpliceOutcome
    <3> QED
      BY <2>0, <3>2
  <2> QED
    BY <2>4, <2>5
<1>3. Outcome(b, r)
  BY <1>0, <1>1, <1>2
<1> HIDE DEF r
<1> QED
  BY <1>0, <1>3, CallOutcome

\* What the calls find of a node.
LEMMA FoundNode ==
    ASSUME NEW b, Sound(b), NEW node \in Int
    PROVE  LET next == fdt_check_node_offset(b, node)
           IN  \/ next < 0
               \/ /\ next \in 1 .. Len(b.words) /\ IsNode(b, node, next)
                  /\ ~Rootless(b.words)
<1> DEFINE next == fdt_check_node_offset(b, node)
<1>0. Block(b.words) /\ Len(b.words) \in Nat
  BY BlockMeans DEF Sound, Agrees
<1>1. next = -FDT_ERR_BADOFFSET \/ IsNode(b, node, next)
  BY <1>0, CheckNode
<1> HIDE DEF next
<1>2. CASE next = -FDT_ERR_BADOFFSET
  BY <1>2 DEF FDT_ERR_BADOFFSET, next
<1>3. CASE IsNode(b, node, next)
  <2>1. next \in 1 .. Len(b.words)
    BY <1>0, <1>3 DEF IsNode
  <2>2. ~Rootless(b.words)
    BY <1>0, <1>3, NotRootless DEF IsNode
  <2> QED
    BY <1>3, <2>1, <2>2 DEF next
<1> QED
  BY <1>1, <1>2, <1>3

LEMMA SetNameOutcome ==
    ASSUME NEW b, Sound(b), NEW node \in Int, node # 0, NEW name, Len(name) \in Nat
    PROVE  Outcome(b, fdt_set_name(b, node, name))
<1> DEFINE next == fdt_check_node_offset(b, node)
           w == Begin(name)
           r == IF next < 0 THEN Err(b, next) ELSE Retag(b, node, w)
<1>0. fdt_set_name(b, node, name) = RwCall(b, r)
      /\ Block(b.words) /\ Len(b.words) \in Nat
  BY BlockMeans DEF fdt_set_name, Sound, Agrees
<1>1. next < 0 \/ (next \in 1 .. Len(b.words) /\ IsNode(b, node, next))
  BY FoundNode
<1>2. ASSUME next < 0 PROVE Outcome(b, r)
  BY <1>2, ErrOutcome
<1>3. ASSUME next \in 1 .. Len(b.words), IsNode(b, node, next) PROVE Outcome(b, r)
  <2>1. r = Retag(b, node, w)
    BY <1>0, <1>3
  <2>2. IsWord(w) /\ w.tag = "BEGIN"
    BY NewTags, NoValue DEF Begin, Word
  <2>3. /\ node \in 0 .. Len(b.words) - 1 /\ At(b, node).tag = "BEGIN"
        /\ node + tag_words(At(b, node)) <= Len(b.words)
    BY <1>0, <1>3 DEF IsNode
  <2>4. ASSUME Nested(b.words)
        PROVE  node \in Starts(b.words) /\ node > 0 /\ Depths(b.words)[node] > 0
    <3>1. node > 0
      BY <1>0, <2>3
    <3> QED
      BY <1>0, <1>3, <2>4, <3>1, NodeInside
  <2> HIDE DEF r, w
  <2>5. Outcome(b, Retag(b, node, w))
    BY <2>2, <2>3, <2>4, RetagOutcome
  <2> QED
    BY <2>1, <2>5
<1>4. Outcome(b, r)
  BY <1>1, <1>2, <1>3
<1> HIDE DEF r
<1> QED
  BY <1>0, <1>4, CallOutcome

\* A new property, and its name if need be.
LEMMA AddPropertyOutcome ==
    ASSUME NEW b, Sound(b), NEW node \in Int, NEW name, Len(name) \in Nat,
           NEW val, IsValue(val)
    PROVE  Outcome(b, fdt_add_property(b, node, name, val))
<1> DEFINE next == fdt_check_node_offset(b, node)
           s == fdt_find_add_string(b, name)
           w == Prop(name, val)
           new == Unit(w)
           r == splice_words(s.fdt, next, 0, new)
<1>1. next < 0 \/ (next \in 1 .. Len(b.words) /\ IsNode(b, node, next)
                   /\ ~Rootless(b.words))
  BY FoundNode
<1>2. /\ Answer(b, s) /\ s.fdt.words = b.words /\ s.fdt.nrsv = b.nrsv
      /\ \/ s.fdt = b
         \/ /\ s.ret = 0 /\ fdt_splice_string(b.hdr, Len(name) + 1).ret = 0
            /\ s.fdt.hdr = fdt_splice_string(b.hdr, Len(name) + 1).hdr
  BY NameAnswers
<1>3. Block(b.words) /\ Len(b.words) \in Nat
  BY BlockMeans DEF Sound, Agrees
<1>4. IsWord(w) /\ w.tag = "PROP"
  BY NewTags DEF Prop, Word
<1>5. fdt_add_property(b, node, name, val) =
         IF next < 0 THEN Err(b, next) ELSE IF s.ret # 0 THEN s ELSE r
  <2>1. next \in Int
    <3>1. next = -FDT_ERR_BADOFFSET \/ IsNode(b, node, next)
      BY <1>3, CheckNode
    <3>2. -FDT_ERR_BADOFFSET \in Int
      BY DEF FDT_ERR_BADOFFSET
    <3> HIDE DEF next
    <3> QED
      BY <1>3, <3>1, <3>2 DEF IsNode
  <2> DEFINE put(o, x) == CASE o < 0 -> Err(b, o)
                            [] o >= 0 /\ x.ret # 0 -> x
                            [] OTHER -> splice_words(x.fdt, o, 0, new)
  <2>2. fdt_add_property(b, node, name, val) = put(next, s)
    BY DEF fdt_add_property
  <2> HIDE DEF next, s, new
  <2> QED
    BY <2>1, <2>2
<1> HIDE DEF s, next, w
<1>6. Block(new) /\ Len(new) \in Nat
  BY <1>4, UnitWords, BlockMeans
<1>7. CASE next < 0
  BY <1>5, <1>7, ErrOutcome
<1>8. CASE ~(next < 0) /\ s.ret # 0
  <2>1. s.fdt = b
    BY <1>2, <1>8
  <2>2. Outcome(b, s)
    BY <1>2, <2>1 DEF Outcome, Keeps, Shaped
  <2> QED
    BY <1>5, <1>8, <2>2
<1>9. CASE ~(next < 0) /\ s.ret = 0
  <2>1. next \in 1 .. Len(b.words) /\ IsNode(b, node, next) /\ ~Rootless(b.words)
        /\ next \in Nat
    BY <1>1, <1>3, <1>9
  <2>2. Sound(s.fdt)
    BY <1>2 DEF Answer
  <2>3. ASSUME Nested(b.words) PROVE Fits(b.words, next, 0, new)
    <3>1. /\ Depths(b.words)[node] >= 0
          /\ next \in Level(b, Depths(b.words)[node] + 1)
          /\ node \in Starts(b.words)
      BY <1>3, <2>1, <2>3, NodeInside
    <3>2. next \in Starts(b.words) /\ Depths(b.words)[next] > 0
          /\ next + 0 = next /\ next > 0 /\ Depths(b.words)[next] \in Int
      <4>1. Depths(b.words)[node] \in Int
        BY <1>3, <3>1, DepthNumbers
      <4> QED
        BY <1>3, <2>1, <3>1, <4>1 DEF Level
    <3>3. opens(w) = 0
      BY <1>4, Opens
    <3>4. next + 0 \in Starts(b.words) /\ 0 \in Nat
          /\ Depths(b.words)[next + 0] = Depths(b.words)[next] + opens(w)
      BY <3>2, <3>3
    <3> QED
      BY <1>3, <1>4, <3>2, <3>4, TagFits
  <2>4. next + 0 <= Len(s.fdt.words) /\ 0 \in Nat
    BY <1>2, <1>3, <2>1
  <2> HIDE DEF new
  <2>5. Outcome(s.fdt, r)
    BY <1>2, <1>6, <2>1, <2>2, <2>3, <2>4, SpliceOutcome
  <2>6. /\ r.fdt.hdr = fdt_splice_struct(s.fdt.hdr, 0, 0 * FDT_TAGSIZE,
                                         Len(new) * FDT_TAGSIZE).hdr
        /\ r.fdt.nrsv = b.nrsv
    BY <1>2, <1>6, <2>1, <2>2, <2>4, SpliceAnswers
  <2> HIDE DEF r
  <2>7. Edited(b, r.fdt)
    <3>1. CASE s.fdt = b
      BY <2>5, <3>1 DEF Outcome, Answer
    <3>2. CASE s.fdt # b
      <4>1. /\ fdt_splice_string(b.hdr, Len(name) + 1).ret = 0
            /\ s.fdt.hdr = fdt_splice_string(b.hdr, Len(name) + 1).hdr
        BY <1>2, <3>2
      <4>2. 0 * FDT_TAGSIZE = 0 /\ Len(new) * FDT_TAGSIZE \in Nat
            /\ Len(name) + 1 \in Nat
        BY <1>6 DEF FDT_TAGSIZE
      <4>3. AddsName(b, r.fdt)
        BY <2>6, <4>1, <4>2 DEF AddsName
      <4> QED
        BY <2>6, <4>3 DEF Edited
    <3> QED
      BY <3>1, <3>2
  <2>8. Outcome(b, r)
    BY <1>2, <2>5, <2>7 DEF Outcome, Answer
  <2> QED
    BY <1>5, <1>9, <2>8
<1> QED
  BY <1>7, <1>8, <1>9

LEMMA SetPropOutcome ==
    ASSUME NEW b, Sound(b), NEW node \in Int, NEW name, Len(name) \in Nat,
           NEW val, IsValue(val)
    PROVE  Outcome(b, fdt_setprop(b, node, name, val))
<1> DEFINE p == fdt_get_property(b, node, name)
           w == Prop(name, val)
           a == fdt_add_property(b, node, name, val)
           r == IF p >= 0 THEN Retag(b, p, w)
                ELSE IF p = -FDT_ERR_NOTFOUND THEN a ELSE Err(b, p)
<1>0. p \in Int
  BY PropertyTag DEF Sound, Agrees
<1>1. fdt_setprop(b, node, name, val) = RwCall(b, r)
  <2>1. -FDT_ERR_NOTFOUND < 0
    BY DEF FDT_ERR_NOTFOUND
  <2> HIDE DEF p, w, a
  <2> QED
    BY <1>0, <2>1 DEF fdt_setprop, p, w, a
<1>2. ASSUME p >= 0 PROVE Outcome(b, r)
  <2>1. /\ p \in 0 .. Len(b.words) - 1 /\ At(b, p).tag = "PROP"
        /\ p + tag_words(At(b, p)) <= Len(b.words)
        /\ Nested(b.words) => p \in Starts(b.words) /\ p > 0
                              /\ Depths(b.words)[p] > 0
    BY <1>2, FoundProperty
  <2>2. IsWord(w) /\ w.tag = "PROP"
    BY NewTags DEF Prop, Word
  <2>3. r = Retag(b, p, w)
    BY <1>2
  <2> HIDE DEF p, w, r
  <2>4. Outcome(b, Retag(b, p, w))
    BY <2>1, <2>2, RetagOutcome
  <2> QED
    BY <2>3, <2>4
<1>3. ASSUME ~(p >= 0) PROVE Outcome(b, r)
  <2>1. Outcome(b, a) /\ Outcome(b, Err(b, p))
    BY AddPropertyOutcome, ErrOutcome
  <2> HIDE DEF a
  <2> QED
    BY <1>3, <2>1
<1>4. Outcome(b, r)
  BY <1>2, <1>3
<1> HIDE DEF r
<1> QED
  BY <1>1, <1>4, CallOutcome

LEMMA AppendPropOutcome ==
    ASSUME NEW b, Sound(b), NEW node \in Int, NEW name, Len(name) \in Nat,
           NEW val, IsValue(val)
    PROVE  Outcome(b, fdt_appendprop(b, node, name, val))
<1> DEFINE p == fdt_get_property(b, node, name)
           w == Prop(name, At(b, p).val \o val)
           a == fdt_add_property(b, node, name, val)
           r == IF p < 0 THEN a ELSE Retag(b, p, w)
<1>0. p \in Int
  BY PropertyTag DEF Sound, Agrees
<1>1. fdt_appendprop(b, node, name, val) = RwCall(b, r)
  BY DEF fdt_appendprop
<1>2. ASSUME p >= 0 PROVE Outcome(b, r)
  <2>1. /\ p \in 0 .. Len(b.words) - 1 /\ At(b, p).tag = "PROP"
        /\ p + tag_words(At(b, p)) <= Len(b.words) /\ IsWord(At(b, p))
        /\ Nested(b.words) => p \in Starts(b.words) /\ p > 0
                              /\ Depths(b.words)[p] > 0
    BY <1>2, FoundProperty
  <2>2. IsWord(w) /\ w.tag = "PROP"
    <3>1. IsValue(At(b, p).val \o val)
      BY <2>1, ValueJoined DEF IsWord
    <3> QED
      BY <3>1, NewTags DEF Prop, Word
  <2>3. r = Retag(b, p, w)
    BY <1>0, <1>2
  <2> HIDE DEF p, w, r
  <2>4. Outcome(b, Retag(b, p, w))
    BY <2>1, <2>2, RetagOutcome
  <2> QED
    BY <2>3, <2>4
<1>3. ASSUME p < 0 PROVE Outcome(b, r)
  <2>1. Outcome(b, a)
    BY AddPropertyOutcome
  <2> HIDE DEF a
  <2> QED
    BY <1>3, <2>1
<1>4. Outcome(b, r)
  BY <1>0, <1>2, <1>3
<1> HIDE DEF r
<1> QED
  BY <1>1, <1>4, CallOutcome

\* A node that is added to what is not one: its first words stay outside the
\* block, and as many of the reservation block's come into it.
LEMMA AddAtErrorAnswers ==
    ASSUME NEW b, Sound(b), NEW new, Block(new), Len(new) > 1
    PROVE  Answer(b, AddAtError(b, new))
<1> DEFINE m == Len(new)
           N == Len(b.words)
           s == fdt_splice_struct(b.hdr, 0, 0, m * FDT_TAGSIZE)
           two == <<Cont, Cont>>
           tail == SubSeq(new, 3, m)
           ws == tail \o two \o b.words
           c == [hdr |-> s.hdr, nrsv |-> b.nrsv, words |-> ws, strs |-> b.strs]
           r == AddAtError(b, new)
<1>0. /\ N \in Nat /\ m \in Nat /\ b.hdr.sizeStruct = N * FDT_TAGSIZE
      /\ Good(b.hdr, b.nrsv) /\ b.hdr \in Header /\ Agrees(b) /\ Block(b.words)
  BY BlockMeans DEF Sound, Agrees, Good
<1>1. /\ m * FDT_TAGSIZE \in Nat /\ -FDT_ERR_TRUNCATED \in Int
      /\ -FDT_ERR_TRUNCATED + 0 <= b.hdr.sizeStruct /\ 0 <= b.hdr.sizeStruct
      /\ 0 \in Nat
  BY <1>0 DEF FDT_TAGSIZE, FDT_ERR_TRUNCATED
<1>2. fdt_splice_struct(b.hdr, -FDT_ERR_TRUNCATED, 0, m * FDT_TAGSIZE) = s
  <2> HIDE DEF m, N
  <2> QED
    BY <1>0, <1>1, SpliceStructAt
<1>3. r = IF s.ret # 0 THEN Err(b, s.ret)
          ELSE [ret |-> -FDT_ERR_TRUNCATED,
                fdt |-> [b EXCEPT !.hdr = s.hdr, !.words = ws]]
  <2> DEFINE s1 == fdt_splice_struct(b.hdr, -FDT_ERR_TRUNCATED, 0, m * FDT_TAGSIZE)
             added(x) == IF x.ret # 0 THEN Err(b, x.ret)
                         ELSE [ret |-> -FDT_ERR_TRUNCATED,
                               fdt |-> [b EXCEPT !.hdr = x.hdr, !.words = ws]]
  <2>1. r = added(s1)
    BY DEF AddAtError
  <2>2. s1 = s
    BY <1>2
  <2> HIDE DEF s1, s
  <2> QED
    BY <2>1, <2>2
<1>4. \/ s.ret # 0 /\ s.hdr = b.hdr
      \/ /\ s.ret = 0 /\ s.hdr.sizeStruct = b.hdr.sizeStruct + (m * FDT_TAGSIZE - 0)
         /\ s.hdr.sizeStrings = b.hdr.sizeStrings
  BY <1>0, <1>1, SpliceStructDone
<1>5. Good(s.hdr, b.nrsv)
  BY <1>0, <1>1, SpliceStructIsGood
<1>6. Block(ws) /\ Len(ws) = N + m
  <2>1. IsWord(Cont)
    BY FixedTags
  <2>2. /\ IsSeq(two) /\ Len(two) = 2 /\ DOMAIN two = 1 .. 2
        /\ \A k \in 1 .. 2 : two[k] = Cont
    <3> HIDE DEF Cont
    <3>1. two \in Seq({Cont})
      OBVIOUS
    <3>2. Len(two) = 2 /\ DOMAIN two = 1 .. 2 /\ \A k \in 1 .. 2 : two[k] = Cont
      OBVIOUS
    <3> HIDE DEF two
    <3> QED
      BY <3>1, <3>2, SeqIs
  <2>3. IsSeq(new) /\ IsSeq(b.words)
        /\ (\A k \in 1 .. m : IsWord(new[k])) /\ (\A k \in 1 .. N : IsWord(b.words[k]))
    BY <1>0, BlockMeans DEF Block
  <2>4. /\ IsSeq(tail) /\ Len(tail) = m - 2
        /\ \A k \in 1 .. m - 2 : tail[k] = new[k + 2]
    <3>1. 3 \in Nat \ {0} /\ m <= Len(new) /\ 3 <= m + 1 /\ m - 3 + 1 = m - 2
          /\ \A k \in 1 .. m - 2 : k + 3 - 1 = k + 2
      BY <1>0
    <3>2. /\ IsSeq(tail) /\ Len(tail) = m - 3 + 1
          /\ \A k \in 1 .. m - 3 + 1 : tail[k] = new[k + 3 - 1]
      BY <1>0, <2>3, <3>1, PartOf
    <3> HIDE DEF tail
    <3> QED
      BY <3>1, <3>2
  <2> DEFINE ct == tail \o two
  <2> HIDE DEF tail, two, N, m
  <2>5. /\ IsSeq(ct) /\ Len(ct) = (m - 2) + 2
        /\ \A k \in 1 .. (m - 2) + 2 :
              ct[k] = IF k <= m - 2 THEN tail[k] ELSE two[k - (m - 2)]
    <3>1. /\ IsSeq(ct) /\ Len(ct) = Len(tail) + Len(two)
          /\ \A k \in 1 .. Len(tail) + Len(two) :
                ct[k] = IF k <= Len(tail) THEN tail[k] ELSE two[k - Len(tail)]
      BY <2>2, <2>4, Joined
    <3> HIDE DEF ct
    <3> QED
      BY <2>2, <2>4, <3>1
  <2>6. \A k \in 1 .. m : IsWord(ct[k])
    <3> SUFFICES ASSUME NEW k \in 1 .. m PROVE IsWord(ct[k])
      OBVIOUS
    <3>1. CASE k <= m - 2
      <4>1. k \in 1 .. m - 2 /\ k + 2 \in 1 .. m /\ k \in 1 .. (m - 2) + 2
        BY <1>0, <3>1
      <4>2. ct[k] = new[k + 2]
        BY <2>4, <2>5, <3>1, <4>1
      <4> QED
        BY <2>3, <4>1, <4>2
    <3>2. CASE ~(k <= m - 2)
      <4>1. k - (m - 2) \in 1 .. 2 /\ k \in 1 .. (m - 2) + 2
        BY <1>0, <3>2
      <4>2. ct[k] = Cont
        BY <2>2, <2>5, <3>2, <4>1
      <4> QED
        BY <2>1, <4>2
    <3> QED
      BY <3>1, <3>2
  <2>7. Len(ct) = m
    BY <1>0, <2>5
  <2> HIDE DEF ct
  <2>8. /\ IsSeq(ct \o b.words) /\ Len(ct \o b.words) = m + N
        /\ \A k \in 1 .. m + N :
              (ct \o b.words)[k] = IF k <= m THEN ct[k] ELSE b.words[k - m]
    BY <2>3, <2>5, <2>7, Joined DEF N
  <2>9. ws = ct \o b.words
    BY DEF ct
  <2> HIDE DEF ws
  <2>10. IsSeq(ws) /\ Len(ws) = m + N /\ \A k \in 1 .. m + N :
            ws[k] = IF k <= m THEN ct[k] ELSE b.words[k - m]
    BY <2>8, <2>9
  <2>11. \A k \in 1 .. m + N : IsWord(ws[k])
    <3> SUFFICES ASSUME NEW k \in 1 .. m + N PROVE IsWord(ws[k])
      OBVIOUS
    <3>1. CASE k <= m
      <4>1. k \in 1 .. m
        BY <1>0, <3>1
      <4> QED
        BY <2>6, <2>10, <3>1, <4>1
    <3>2. CASE ~(k <= m)
      <4>1. k - m \in 1 .. N
        BY <1>0, <3>2
      <4> QED
        BY <2>3, <2>10, <3>2, <4>1
    <3> QED
      BY <3>1, <3>2
  <2>12. DOMAIN ws = 1 .. m + N
    BY <2>10, IsSeqMeans
  <2>13. m + N = N + m
    BY <1>0
  <2> QED
    BY <2>10, <2>11, <2>12, <2>13 DEF Block
<1> HIDE DEF s, r, ws, m, N
<1>7. CASE s.ret # 0
  <2>1. r = Err(b, s.ret)
    BY <1>3, <1>7
  <2> QED
    BY <2>1, ErrAnswers DEF r
<1>8. CASE s.ret = 0
  <2>1. [b EXCEPT !.hdr = s.hdr, !.words = ws] = c
    BY <1>0, BlobWith DEF Agrees
  <2>2. r = [ret |-> -FDT_ERR_TRUNCATED, fdt |-> c]
    BY <1>3, <1>8, <2>1
  <2>3. c.hdr = s.hdr /\ c.nrsv = b.nrsv /\ c.words = ws /\ c.strs = b.strs
        /\ c = [hdr |-> c.hdr, nrsv |-> c.nrsv, words |-> c.words, strs |-> c.strs]
    OBVIOUS
  <2> HIDE DEF c
  <2>4. Len(ws) * FDT_TAGSIZE = s.hdr.sizeStruct
    BY <1>0, <1>4, <1>6, <1>8 DEF FDT_TAGSIZE
  <2>5. Sound(c)
    BY <1>0, <1>4, <1>5, <1>6, <1>8, <2>3, <2>4 DEF Sound, Agrees, Fields
  <2>6. Edited(b, c)
    <3>1. Replaces(b, c)
      BY <1>1, <1>8, <2>3 DEF Replaces, s
    <3> QED
      BY <2>3, <3>1 DEF Edited
  <2> QED
    BY <2>2, <2>5, <2>6 DEF Answer, r
<1> QED
  BY <1>7, <1>8

\* A new node.  What is left of the nodes is said only for a parent that can
\* be one.
LEMMA AddSubnodeOutcome ==
    ASSUME NEW b, Sound(b), NEW parent \in Int, NEW name, Len(name) \in Nat
    PROVE  /\ Answer(b, fdt_add_subnode(b, parent, name))
           /\ parent >= 0 => Outcome(b, fdt_add_subnode(b, parent, name))
<1> DEFINE new == NewNode(name)
           found == fdt_subnode_offset(b, parent, name)
           off == after_props(b, fdt_next_tag(b, parent).next)
           s == splice_words(b, off, 0, new)
           put == [s EXCEPT !.ret = IF @ # 0 THEN @ ELSE off]
           r == IF found >= 0 THEN Err(b, -FDT_ERR_EXISTS)
                ELSE IF found # -FDT_ERR_NOTFOUND THEN Err(b, found)
                ELSE IF parent < 0 THEN AddAtError(b, new) ELSE put
<1>0. Block(b.words) /\ Len(b.words) \in Nat
  BY BlockMeans DEF Sound, Agrees
<1>1. found \in Int /\ (parent >= 0 /\ found = -FDT_ERR_NOTFOUND
                            => \E next \in Int : IsNode(b, parent, next))
  BY <1>0, SubnodeMissing
<1>2. fdt_add_subnode(b, parent, name) = RwCall(b, r)
  <2>1. FDT_ERR_NOTFOUND = 1
    BY DEF FDT_ERR_NOTFOUND
  <2> DEFINE add(f) ==
                CASE f >= 0 -> Err(b, -FDT_ERR_EXISTS)
                  [] f < 0 /\ f # -FDT_ERR_NOTFOUND -> Err(b, f)
                  [] f = -FDT_ERR_NOTFOUND /\ parent < 0 -> AddAtError(b, new)
                  [] f = -FDT_ERR_NOTFOUND /\ parent >= 0 -> put
  <2>2. fdt_add_subnode(b, parent, name) = RwCall(b, add(found))
    BY DEF fdt_add_subnode, NewNode
  <2>3. add(found) = r
    <3> HIDE DEF found, put, new
    <3> QED
      BY <1>1, <2>1
  <2> HIDE DEF add, r, found
  <2> QED
    BY <2>2, <2>3
<1>3. /\ Block(new) /\ Len(new) \in Nat /\ Len(new) > 1
      /\ Len(new) = tag_words(Begin(name)) + 1
  <2>1. Block(new) /\ Len(new) = tag_words(Begin(name)) + 1
    BY NewNodeWords
  <2>2. tag_words(Begin(name)) \in Nat \ {0}
    BY NewTags, NoValue, TagWords
  <2> HIDE DEF new
  <2> QED
    BY <2>1, <2>2
<1> HIDE DEF new
<1>4. ASSUME found >= 0 \/ found # -FDT_ERR_NOTFOUND PROVE Outcome(b, r)
  <2>1. Outcome(b, Err(b, -FDT_ERR_EXISTS)) /\ Outcome(b, Err(b, found))
    BY ErrOutcome
  <2> HIDE DEF found, put
  <2> QED
    BY <1>4, <2>1
<1>5. ASSUME found = -FDT_ERR_NOTFOUND, parent < 0 PROVE Answer(b, r)
  <2>1. ~(found >= 0)
    BY <1>5 DEF FDT_ERR_NOTFOUND
  <2>2. Answer(b, AddAtError(b, new))
    BY <1>3, AddAtErrorAnswers
  <2> HIDE DEF found, put
  <2> QED
    BY <1>5, <2>1, <2>2
<1>6. ASSUME found = -FDT_ERR_NOTFOUND, parent >= 0 PROVE Outcome(b, r)
  <2>1. ~(found >= 0) /\ ~(parent < 0)
    BY <1>6 DEF FDT_ERR_NOTFOUND
  <2>2. PICK next \in Int : IsNode(b, parent, next)
    BY <1>1, <1>6
  <2>3. fdt_next_tag(b, parent).next = next /\ next \in 0 .. Len(b.words)
        /\ next \in Nat
    BY <1>0, <2>2 DEF IsNode
  <2>4. off \in 0 .. Len(b.words)
    BY <1>0, <2>3, PlaceBehind
  <2>5. ~Rootless(b.words)
    BY <1>0, <2>2, NotRootless DEF IsNode
  <2>6. ASSUME Nested(b.words) PROVE Fits(b.words, off, 0, new)
    <3>1. off \in Starts(b.words) /\ off > 0 /\ Depths(b.words)[off] > 0
      BY <1>0, <2>2, <2>3, <2>6, PlaceFound
    <3> HIDE DEF off
    <3> QED
      BY <1>0, <2>6, <3>1, NewNodeFits DEF new
  <2>7. off \in Nat /\ 0 \in Nat /\ off + 0 <= Len(b.words)
    BY <1>0, <2>4
  <2> HIDE DEF off
  <2>8. Outcome(b, s)
    BY <1>3, <2>5, <2>6, <2>7, SpliceOutcome
  <2> HIDE DEF s
  <2>9. \E e : put = [ret |-> e, fdt |-> s.fdt]
    <3>1. s = [ret |-> s.ret, fdt |-> s.fdt]
      BY <2>8 DEF Outcome, Answer
    <3> DEFINE x == s.ret
               y == s.fdt
               e == IF x # 0 THEN x ELSE off
    <3>2. [[ret |-> x, fdt |-> y] EXCEPT !.ret = e] = [ret |-> e, fdt |-> y]
      <4> HIDE DEF x, y, e
      <4> QED
        OBVIOUS
    <3>3. put = [s EXCEPT !.ret = e]
      OBVIOUS
    <3>4. put = [ret |-> e, fdt |-> y]
      BY <3>1, <3>2, <3>3
    <3> QED
      BY <3>4
  <2>10. Outcome(b, put)
    <3>1. PICK e : put = [ret |-> e, fdt |-> s.fdt]
      BY <2>9
    <3> HIDE DEF put
    <3> QED
      BY <2>8, <3>1 DEF Outcome, Answer
  <2> HIDE DEF found, put
  <2> QED
    BY <1>6, <2>1, <2>10
<1>7. Answer(b, r) /\ (parent >= 0 => Outcome(b, r))
  <2>1. parent < 0 \/ parent >= 0
    OBVIOUS
  <2> HIDE DEF r, found
  <2> QED
    BY <1>4, <1>5, <1>6, <2>1 DEF Outcome
<1> HIDE DEF r
<1>8. RwCall(b, r) = r
  BY <1>7, RwCalled DEF Answer
<1> QED
  BY <1>2, <1>7, <1>8

-----------------------------------------------------------------------------
(* The calls that leave the structure block alone                          *)

\* A sound blob with the same words and strings.
Moves(b, r) ==
    /\ r = [ret |-> r.ret, fdt |-> r.fdt]
    /\ Sound(r.fdt) /\ r.fdt.words = b.words /\ r.fdt.strs = b.strs

LEMMA MovedCall ==
    ASSUME NEW b, Sound(b), NEW r, Moves(b, r)
    PROVE  RwCall(b, r) = r
BY RwCalled DEF Moves

LEMMA ErrMoves ==
    ASSUME NEW b, Sound(b), NEW e
    PROVE  Moves(b, Err(b, e)) /\ Err(b, e).fdt = b
BY DEF Moves, Err

\* What an entry more or less does to the header.
MovesEntry(b, c, p, oldn, newn) ==
    LET s == fdt_splice_mem_rsv(b.hdr, p, oldn, newn)
    IN  s.ret = 0 /\ c.hdr = s.hdr /\ c.nrsv = b.nrsv + newn - oldn

LEMMA EntryMoves ==
    ASSUME NEW b, Sound(b), NEW p \in Nat, NEW oldn \in {0, 1}, NEW newn \in {0, 1},
           b.nrsv + newn - oldn \in Nat,
           fdt_splice_mem_rsv(b.hdr, p, oldn, newn).ret = 0
    PROVE  LET g == fdt_splice_mem_rsv(b.hdr, p, oldn, newn).hdr
               r == [ret |-> 0, fdt |-> [b EXCEPT !.hdr = g,
                                                  !.nrsv = b.nrsv + newn - oldn]]
           IN  Moves(b, r) /\ MovesEntry(b, r.fdt, p, oldn, newn)
<1> DEFINE g == fdt_splice_mem_rsv(b.hdr, p, oldn, newn).hdr
           n == b.nrsv + newn - oldn
           c == [hdr |-> g, nrsv |-> n, words |-> b.words, strs |-> b.strs]
<1>1. Good(b.hdr, b.nrsv) /\ b.hdr \in Header /\ Agrees(b) /\ Fields(b)
      /\ oldn \in Nat /\ newn \in Nat
  BY DEF Sound, Good, Agrees
<1>2. Good(g, n)
  BY <1>1, SpliceRsvIsGood
<1>3. g.sizeStruct = b.hdr.sizeStruct /\ g.sizeStrings = b.hdr.sizeStrings
  BY <1>1, SpliceRsvDone
<1>4. [b EXCEPT !.hdr = g, !.nrsv = n] = c
  <2> HIDE DEF g, n
  <2>1. [b EXCEPT !.hdr = g, !.nrsv = n]
           = [hdr |-> g, nrsv |-> n, words |-> b.words, strs |-> b.strs]
    <3>1. Fields(b)
      BY <1>1
    <3>2. \A u, v : [b EXCEPT !.hdr = u, !.nrsv = v]
                      = [hdr |-> u, nrsv |-> v, words |-> b.words, strs |-> b.strs]
      BY <3>1, BlobWithEntries
    <3> QED
      BY <3>2, Zenon
  <2> QED
    BY <2>1, Zenon
<1>5. c.hdr = g /\ c.nrsv = n /\ c.words = b.words /\ c.strs = b.strs
      /\ c = [hdr |-> c.hdr, nrsv |-> c.nrsv, words |-> c.words, strs |-> c.strs]
  OBVIOUS
<1> HIDE DEF c, n, g
<1>6. Sound(c)
  BY <1>1, <1>2, <1>3, <1>5 DEF Sound, Agrees, Fields
<1>7. MovesEntry(b, c, p, oldn, newn)
  BY <1>5 DEF MovesEntry, g, n
<1>8. Moves(b, [ret |-> 0, fdt |-> c])
  BY <1>5, <1>6 DEF Moves
<1> QED
  BY <1>4, <1>7, <1>8 DEF g, n

LEMMA AddMemRsvMoves ==
    ASSUME NEW b, Sound(b)
    PROVE  LET r == fdt_add_mem_rsv(b)
           IN  /\ Moves(b, r)
               /\ \/ r.fdt = b
                  \/ MovesEntry(b, r.fdt, b.hdr.offRsv + b.nrsv * RSV_ENTRY, 0, 1)
<1> DEFINE p == b.hdr.offRsv + b.nrsv * RSV_ENTRY
           s == fdt_splice_mem_rsv(b.hdr, p, 0, 1)
           r == IF s.ret # 0 THEN Err(b, s.ret)
                ELSE [ret |-> 0, fdt |-> [b EXCEPT !.hdr = s.hdr, !.nrsv = @ + 1]]
<1>1. b.nrsv \in Nat /\ p \in Nat
  BY DEF Sound, Good, Header, RSV_ENTRY
<1>2. fdt_add_mem_rsv(b) = RwCall(b, r)
  BY DEF fdt_add_mem_rsv
<1> DEFINE n == b.nrsv + 1 - 0
           k == [ret |-> 0, fdt |-> [b EXCEPT !.hdr = s.hdr, !.nrsv = n]]
<1>3. n = b.nrsv + 1 /\ n \in Nat
  BY <1>1
<1>4. ASSUME s.ret = 0 PROVE Moves(b, k) /\ MovesEntry(b, k.fdt, p, 0, 1)
  <2> HIDE DEF p
  <2> QED
    BY <1>1, <1>3, <1>4, EntryMoves
<1>5. r = IF s.ret # 0 THEN Err(b, s.ret) ELSE k
  <2> HIDE DEF s, n
  <2> QED
    BY <1>3
<1> HIDE DEF p, s, r, k
<1>6. Moves(b, r) /\ (r.fdt = b \/ MovesEntry(b, r.fdt, p, 0, 1))
  <2>1. Moves(b, Err(b, s.ret)) /\ Err(b, s.ret).fdt = b
    BY ErrMoves
  <2> QED
    BY <1>4, <1>5, <2>1
<1> QED
  BY <1>2, <1>6, MovedCall DEF p

LEMMA DelMemRsvMoves ==
    ASSUME NEW b, Sound(b), NEW m \in Nat
    PROVE  LET r == fdt_del_mem_rsv(b, m)
           IN  /\ Moves(b, r)
               /\ \/ r.fdt = b
                  \/ /\ m < b.nrsv
                     /\ MovesEntry(b, r.fdt, b.hdr.offRsv + m * RSV_ENTRY, 1, 0)
<1> DEFINE p == b.hdr.offRsv + m * RSV_ENTRY
           s == fdt_splice_mem_rsv(b.hdr, p, 1, 0)
           r == IF m >= b.nrsv THEN Err(b, -FDT_ERR_NOTFOUND)
                ELSE IF s.ret # 0 THEN Err(b, s.ret)
                ELSE [ret |-> 0, fdt |-> [b EXCEPT !.hdr = s.hdr, !.nrsv = @ - 1]]
<1>1. b.nrsv \in Nat /\ p \in Nat
  BY DEF Sound, Good, Header, RSV_ENTRY
<1>2. fdt_del_mem_rsv(b, m) = RwCall(b, r)
  BY DEF fdt_del_mem_rsv
<1> DEFINE n == b.nrsv + 0 - 1
           k == [ret |-> 0, fdt |-> [b EXCEPT !.hdr = s.hdr, !.nrsv = n]]
<1>3. n = b.nrsv - 1 /\ (m < b.nrsv => n \in Nat) /\ (m < b.nrsv <=> ~(m >= b.nrsv))
  BY <1>1
<1>4. ASSUME s.ret = 0, m < b.nrsv
      PROVE  Moves(b, k) /\ MovesEntry(b, k.fdt, p, 1, 0)
  <2> HIDE DEF p
  <2> QED
    BY <1>1, <1>3, <1>4, EntryMoves
<1>5. r = IF m >= b.nrsv THEN Err(b, -FDT_ERR_NOTFOUND)
          ELSE IF s.ret # 0 THEN Err(b, s.ret) ELSE k
  <2> HIDE DEF s, n
  <2> QED
    BY <1>3
<1> HIDE DEF p, s, r, k
<1>6. Moves(b, r) /\ (r.fdt = b \/ (m < b.nrsv /\ MovesEntry(b, r.fdt, p, 1, 0)))
  <2>1. /\ Moves(b, Err(b, s.ret)) /\ Err(b, s.ret).fdt = b
        /\ Moves(b, Err(b, -FDT_ERR_NOTFOUND)) /\ Err(b, -FDT_ERR_NOTFOUND).fdt = b
    BY ErrMoves
  <2> QED
    BY <1>3, <1>4, <1>5, <2>1
<1> QED
  BY <1>2, <1>6, MovedCall DEF p

LEMMA PackMoves ==
    ASSUME NEW b, Sound(b)
    PROVE  LET r == Pack(b)
           IN  /\ Moves(b, r)
               /\ r.fdt.hdr = fdt_pack(b.hdr, b.nrsv) /\ r.fdt.nrsv = b.nrsv
<1> DEFINE g == fdt_pack(b.hdr, b.nrsv)
           c == [hdr |-> g, nrsv |-> b.nrsv, words |-> b.words, strs |-> b.strs]
           r == [ret |-> 0, fdt |-> [b EXCEPT !.hdr = g]]
<1>1. Good(b.hdr, b.nrsv) /\ Agrees(b) /\ Fields(b)
  BY DEF Sound, Agrees
<1>2. Pack(b) = RwCall(b, r)
  BY DEF Pack
<1>3. Good(g, b.nrsv) /\ g.sizeStruct = b.hdr.sizeStruct
      /\ g.sizeStrings = b.hdr.sizeStrings
  BY <1>1, PackIsGood
<1> HIDE DEF g
<1>4. r = [ret |-> 0, fdt |-> c]
  BY <1>1, BlobWithHeader
<1>5. c.hdr = g /\ c.nrsv = b.nrsv /\ c.words = b.words /\ c.strs = b.strs
      /\ c = [hdr |-> c.hdr, nrsv |-> c.nrsv, words |-> c.words, strs |-> c.strs]
  OBVIOUS
<1> HIDE DEF c, r
<1>6. Sound(c)
  BY <1>1, <1>3, <1>5 DEF Sound, Agrees, Fields
<1>7. Moves(b, r) /\ r.fdt = c
  BY <1>4, <1>5, <1>6 DEF Moves
<1> QED
  BY <1>2, <1>5, <1>7, MovedCall DEF g

\* Opening a blob, whatever the order of its blocks.
LEMMA OpenMoves ==
    ASSUME NEW b, Agrees(b), b.hdr \in Header, b.nrsv \in Nat,
           Openable(b.hdr, b.nrsv), NEW bufsize \in Nat, NEW gap \in Int
    PROVE  LET r == OpenInto(b, bufsize, gap)
               s == fdt_open_into(b.hdr, b.nrsv, b.hdr.sizeStruct, bufsize, gap)
           IN  /\ r.ret = s.ret /\ r.fdt.hdr = s.hdr /\ r.fdt.nrsv = b.nrsv
               /\ IF r.ret = 0 THEN Moves(b, r) ELSE r.fdt = b
<1> DEFINE s == fdt_open_into(b.hdr, b.nrsv, b.hdr.sizeStruct, bufsize, gap)
           c == [hdr |-> s.hdr, nrsv |-> b.nrsv, words |-> b.words, strs |-> b.strs]
           r == OpenInto(b, bufsize, gap)
<1>1. Fields(b) /\ Len(b.words) * FDT_TAGSIZE = b.hdr.sizeStruct
      /\ b = [hdr |-> b.hdr, nrsv |-> b.nrsv, words |-> b.words, strs |-> b.strs]
  BY DEF Agrees, Fields
<1>2. r = [ret |-> s.ret, fdt |-> [b EXCEPT !.hdr = s.hdr]]
  BY <1>1 DEF OpenInto
<1>3. /\ s.hdr.sizeStruct = b.hdr.sizeStruct
      /\ s.hdr.sizeStrings = b.hdr.sizeStrings
  BY OpenKeepsSizes
<1>4. s.ret = 0 => Good(s.hdr, b.nrsv)
  BY OpenIsGood
<1>5. s.ret # 0 => s.hdr = b.hdr
  <2>1. \/ s = Fail(b.hdr, FDT_ERR_NOSPACE) \/ \E g : s = Done(g)
    BY DEF fdt_open_into
  <2> HIDE DEF s
  <2> QED
    BY <2>1 DEF Done, Fail
<1> HIDE DEF s, r
<1>6. r = [ret |-> s.ret, fdt |-> c]
  BY <1>1, <1>2, BlobWithHeader
<1>7. c.hdr = s.hdr /\ c.nrsv = b.nrsv /\ c.words = b.words /\ c.strs = b.strs
      /\ c = [hdr |-> c.hdr, nrsv |-> c.nrsv, words |-> c.words, strs |-> c.strs]
  OBVIOUS
<1>8. s.ret # 0 => c = b
  BY <1>1, <1>5
<1> HIDE DEF c
<1>9. r.ret = s.ret /\ r.fdt = c /\ r = [ret |-> r.ret, fdt |-> r.fdt]
  BY <1>6
<1>10. s.ret = 0 => Sound(c)
  BY <1>1, <1>3, <1>4, <1>7 DEF Sound, Agrees, Fields
<1> QED
  BY <1>7, <1>8, <1>9, <1>10 DEF Moves, s, r

-----------------------------------------------------------------------------
(* The steps                                                               *)

\* A step that edits the contents, and one that does not.
EditsTo(b, c) ==
    Sound(c) /\ Edited(b, c) /\ (~UnseenError => Keeps(b.words, c.words))

MovesTo(b, c) ==
    /\ Sound(c) /\ c.words = b.words /\ c.strs = b.strs
    /\ \/ c = b
       \/ MovesEntry(b, c, b.hdr.offRsv + b.nrsv * RSV_ENTRY, 0, 1)
       \/ \E m \in 0 .. b.nrsv :
             m < b.nrsv /\ MovesEntry(b, c, b.hdr.offRsv + m * RSV_ENTRY, 1, 0)
       \/ c.hdr = fdt_pack(b.hdr, b.nrsv) /\ c.nrsv = b.nrsv
       \/ \E bufsize \in Buffers :
             LET s == fdt_open_into(b.hdr, b.nrsv, b.hdr.sizeStruct, bufsize,
                                    b.hdr.total)
             IN  s.ret = 0 /\ c.hdr = s.hdr /\ c.nrsv = b.nrsv

LEMMA TargetNumbers == Sound(fdt) => Targets \subseteq Int
<1> SUFFICES ASSUME Sound(fdt) PROVE Targets \subseteq Int
  OBVIOUS
<1>1. Len(fdt.words) \in Nat
  BY BlockMeans DEF Sound, Agrees
<1> QED
  BY <1>1 DEF Targets, NodeOffsets, FDT_ERR_NOTFOUND

LEMMA OutcomeEdits ==
    ASSUME NEW b, NEW r, Outcome(b, r) PROVE EditsTo(b, r.fdt)
BY DEF Outcome, Answer, EditsTo

LEMMA EditPropEdits ==
    ASSUME Sound(fdt), NEW n \in Int, EditProp(n)
    PROVE  EditsTo(fdt, fdt')
<1>1. PICK p \in PropNames :
         DelProp(n, p) \/ \E v \in Vals : SetProp(n, p, v) \/ AppendProp(n, p, v)
  BY DEF EditProp
<1>2. Len(p) \in Nat
  BY NamesAssumption
<1>3. CASE DelProp(n, p)
  <2>1. Outcome(fdt, fdt_delprop(fdt, n, p))
    BY DelPropOutcome
  <2> QED
    BY <1>3, <2>1, OutcomeEdits DEF DelProp
<1>4. ASSUME NEW v \in Vals, SetProp(n, p, v) PROVE EditsTo(fdt, fdt')
  <2>1. Outcome(fdt, fdt_setprop(fdt, n, p, v))
    BY <1>2, ValsAssumption, SetPropOutcome
  <2> QED
    BY <1>4, <2>1, OutcomeEdits DEF SetProp
<1>5. ASSUME NEW v \in Vals, AppendProp(n, p, v) PROVE EditsTo(fdt, fdt')
  <2>1. Outcome(fdt, fdt_appendprop(fdt, n, p, v))
    BY <1>2, ValsAssumption, AppendPropOutcome
  <2> QED
    BY <1>5, <2>1, OutcomeEdits DEF AppendProp
<1> QED
  BY <1>1, <1>3, <1>4, <1>5

LEMMA EditInPlaceEdits ==
    ASSUME Sound(fdt), NEW n \in Int, EditInPlace(n)
    PROVE  EditsTo(fdt, fdt')
<1>1. ASSUME NEW p \in PropNames, NopProperty(n, p) PROVE EditsTo(fdt, fdt')
  <2>1. Outcome(fdt, fdt_nop_property(fdt, n, p))
    BY NopPropertyOutcome
  <2> QED
    BY <1>1, <2>1, OutcomeEdits DEF NopProperty
<1>2. ASSUME NEW p \in PropNames, NEW v \in Vals, SetPropInplace(n, p, v)
      PROVE  EditsTo(fdt, fdt')
  <2>1. Len(p) \in Nat /\ IsValue(v)
    BY NamesAssumption, ValsAssumption
  <2>2. Outcome(fdt, fdt_setprop_inplace(fdt, n, p, v))
    BY <2>1, SetPropInplaceOutcome
  <2> QED
    BY <1>2, <2>2, OutcomeEdits DEF SetPropInplace
<1>3. CASE NopNode(n)
  <2>1. Outcome(fdt, fdt_nop_node(fdt, n))
    BY NopNodeOutcome
  <2> QED
    BY <1>3, <2>1, OutcomeEdits DEF NopNode
<1> QED
  BY <1>1, <1>2, <1>3 DEF EditInPlace

LEMMA EditNodesEdits ==
    ASSUME Sound(fdt), NEW n \in Int, EditNodes(n)
    PROVE  EditsTo(fdt, fdt')
<1>1. ASSUME NEW name \in Names, AddSubnode(n, name) PROVE EditsTo(fdt, fdt')
  <2> DEFINE r == fdt_add_subnode(fdt, n, name)
  <2>1. Len(name) \in Nat
    BY NamesAssumption
  <2>2. Answer(fdt, r) /\ (n >= 0 => Outcome(fdt, r))
    BY <2>1, AddSubnodeOutcome
  <2>3. fdt' = r.fdt /\ (n >= 0 \/ UnseenError)
    BY <1>1 DEF AddSubnode
  <2> HIDE DEF r
  <2> QED
    BY <2>2, <2>3 DEF Outcome, Answer, EditsTo
<1>2. ASSUME NEW name \in Names, SetName(n, name) PROVE EditsTo(fdt, fdt')
  <2>1. Len(name) \in Nat /\ n # 0 /\ fdt' = fdt_set_name(fdt, n, name).fdt
    BY <1>2, NamesAssumption DEF SetName
  <2>2. Outcome(fdt, fdt_set_name(fdt, n, name))
    BY <2>1, SetNameOutcome
  <2> QED
    BY <2>1, <2>2, OutcomeEdits
<1>3. CASE DelNode(n)
  <2>1. Outcome(fdt, fdt_del_node(fdt, n))
    BY DelNodeOutcome
  <2> QED
    BY <1>3, <2>1, OutcomeEdits DEF DelNode
<1> QED
  BY <1>1, <1>2, <1>3 DEF EditNodes

LEMMA EditBlocksMoves ==
    ASSUME Sound(fdt), EditBlocks
    PROVE  MovesTo(fdt, fdt')
<1>0. fdt.hdr \in Header /\ fdt.nrsv \in Nat /\ Good(fdt.hdr, fdt.nrsv)
      /\ Agrees(fdt)
  BY DEF Sound, Good
<1>1. CASE AddMemRsv
  <2>1. fdt' = fdt_add_mem_rsv(fdt).fdt
    BY <1>1 DEF AddMemRsv
  <2> QED
    BY <2>1, AddMemRsvMoves DEF MovesTo, Moves
<1>2. ASSUME NEW k \in 0 .. fdt.nrsv, DelMemRsv(k) PROVE MovesTo(fdt, fdt')
  <2>1. fdt' = fdt_del_mem_rsv(fdt, k).fdt /\ k \in Nat
    BY <1>0, <1>2 DEF DelMemRsv
  <2> QED
    BY <2>1, DelMemRsvMoves DEF MovesTo, Moves
<1>3. CASE PackBlob
  <2>1. fdt' = Pack(fdt).fdt
    BY <1>3 DEF PackBlob
  <2> QED
    BY <2>1, PackMoves DEF MovesTo, Moves
<1>4. ASSUME NEW bufsize \in Buffers, Reopen(bufsize) PROVE MovesTo(fdt, fdt')
  <2> DEFINE r == OpenInto(fdt, bufsize, fdt.hdr.total)
             s == fdt_open_into(fdt.hdr, fdt.nrsv, fdt.hdr.sizeStruct, bufsize,
                                fdt.hdr.total)
  <2>1. fdt' = r.fdt /\ bufsize \in Nat /\ fdt.hdr.total \in Int
        /\ Openable(fdt.hdr, fdt.nrsv)
    BY <1>0, <1>4, BuffersAssumption, GoodIsOpenable, HeaderFields DEF Reopen
  <2>2. /\ r.ret = s.ret /\ r.fdt.hdr = s.hdr /\ r.fdt.nrsv = fdt.nrsv
        /\ IF r.ret = 0 THEN Moves(fdt, r) ELSE r.fdt = fdt
    BY <1>0, <2>1, OpenMoves
  <2> HIDE DEF r
  <2> QED
    BY <2>1, <2>2 DEF MovesTo, Moves
<1> QED
  BY <1>1, <1>2, <1>3, <1>4 DEF EditBlocks

LEMMA NextSteps ==
    ASSUME Sound(fdt), Next
    PROVE  EditsTo(fdt, fdt') \/ MovesTo(fdt, fdt')
<1>1. ASSUME NEW n \in Targets, EditProp(n) \/ EditInPlace(n) \/ EditNodes(n)
      PROVE  EditsTo(fdt, fdt')
  <2>1. n \in Int
    BY TargetNumbers
  <2> QED
    BY <1>1, <2>1, EditPropEdits, EditInPlaceEdits, EditNodesEdits
<1> QED
  BY <1>1, EditBlocksMoves DEF Next

\* What the blob is when it has been opened.
LEMMA InitOpens ==
    ASSUME Init
    PROVE  /\ Sound(fdt) /\ Nested(fdt.words) /\ Tidy(fdt)
           /\ \E dtb \in Dtbs, bufsize \in Buffers :
                 LET s == fdt_open_into(dtb.hdr, dtb.nrsv, dtb.hdr.sizeStruct,
                                        bufsize, 0)
                 IN  s.ret = 0 /\ fdt.hdr = s.hdr /\ fdt.nrsv = dtb.nrsv
<1>1. PICK dtb \in Dtbs, bufsize \in Buffers :
         LET r == OpenInto(dtb, bufsize, 0) IN r.ret = 0 /\ fdt = r.fdt
  BY DEF Init
<1> DEFINE r == OpenInto(dtb, bufsize, 0)
           s == fdt_open_into(dtb.hdr, dtb.nrsv, dtb.hdr.sizeStruct, bufsize, 0)
<1>2. /\ dtb.hdr \in Header /\ dtb.nrsv \in Nat /\ Openable(dtb.hdr, dtb.nrsv)
      /\ Agrees(dtb) /\ Nested(dtb.words) /\ Tidy(dtb) /\ bufsize \in Nat
  BY DtbsAssumption, BuffersAssumption
<1>3. /\ r.ret = s.ret /\ r.fdt.hdr = s.hdr /\ r.fdt.nrsv = dtb.nrsv
      /\ IF r.ret = 0 THEN Moves(dtb, r) ELSE r.fdt = dtb
  BY <1>2, OpenMoves
<1>4. r.ret = 0 /\ fdt = r.fdt
  BY <1>1
<1> HIDE DEF r
<1>5. Tidy(fdt)
  BY <1>2, <1>3, <1>4 DEF Moves, Tidy
<1> QED
  BY <1>2, <1>3, <1>4, <1>5 DEF Moves

-----------------------------------------------------------------------------
(* The theorems                                                            *)

\* Sound(fdt) is inductive by itself: the header agrees with the contents and
\* lays the blocks out one behind the other, and so it does after each call.
LEMMA SoundInit == Init => Sound(fdt)
BY InitOpens

LEMMA SoundStep == Sound(fdt) /\ [Next]_vars => Sound(fdt)'
<1>1. Sound(fdt) /\ Next => Sound(fdt')
  BY NextSteps DEF EditsTo, MovesTo
<1>2. Sound(fdt) /\ UNCHANGED vars => Sound(fdt')
  BY DEF vars
<1>3. Sound(fdt') => Sound(fdt)'
  OBVIOUS
<1> QED
  BY <1>1, <1>2, <1>3

LEMMA SoundAlways == Spec => []Sound(fdt)
BY SoundInit, SoundStep, PTL DEF Spec

\* No call of fdt_rw.c or fdt_wip.c, whatever offset it is given and whether it
\* succeeds or fails, leaves anything but a header and words.
THEOREM RwTypeOK == Spec => []TypeOK
<1>1. Sound(fdt) => TypeOK
  <2> SUFFICES ASSUME Sound(fdt) PROVE TypeOK
    OBVIOUS
  <2>1. Block(fdt.words) /\ fdt.hdr \in Header /\ fdt.nrsv \in Nat
    BY DEF Sound, Agrees, Good
  <2> QED
    BY <2>1, BlockMeans DEF TypeOK
<1> QED
  BY <1>1, SoundAlways, PTL

\* ... or anything but a header whose sizes are those of the blocks, the blocks
\* one behind the other: also when the parent of a new node is the error of a
\* failed lookup, and the node goes in over the end of the reservation block.
THEOREM RwHeaderAgrees == Spec => []HeaderAgrees
<1>1. Sound(fdt) => HeaderAgrees
  BY DEF HeaderAgrees, Sound, Agrees, Good
<1> QED
  BY <1>1, SoundAlways, PTL

\* FdtLayout has its own copy of the arithmetic of FdtHeader.
LEMMA LayoutHeader ==
    ASSUME NEW h, NEW n, NEW p, NEW x, NEW y
    PROVE  /\ Layout!fdt_rw_check_header(h) = fdt_rw_check_header(h)
           /\ Layout!fdt_splice_mem_rsv(h, p, x, y) = fdt_splice_mem_rsv(h, p, x, y)
           /\ Layout!fdt_splice_struct(h, p, x, y) = fdt_splice_struct(h, p, x, y)
           /\ Layout!fdt_splice_string(h, x) = fdt_splice_string(h, x)
           /\ Layout!fdt_pack(h, n) = fdt_pack(h, n)
           /\ Layout!RSV_ENTRY = RSV_ENTRY
<1>1. /\ Layout!RSV_ENTRY = RSV_ENTRY /\ Layout!RSV_START = RSV_START
      /\ Layout!FDT_ERR_BADVERSION = FDT_ERR_BADVERSION
      /\ Layout!FDT_ERR_BADLAYOUT = FDT_ERR_BADLAYOUT
      /\ Layout!FDT_ERR_BADOFFSET = FDT_ERR_BADOFFSET
      /\ Layout!FDT_ERR_NOSPACE = FDT_ERR_NOSPACE
      /\ Layout!fdt_data_size(h) = fdt_data_size(h)
      /\ Layout!rsv_size(n) = rsv_size(n)
      /\ \A g, e : Layout!Done(g) = Done(g) /\ Layout!Fail(g, e) = Fail(g, e)
  BY DEF Layout!RSV_ENTRY, RSV_ENTRY, Layout!RSV_START, RSV_START,
         Layout!FDT_ERR_BADVERSION, FDT_ERR_BADVERSION,
         Layout!FDT_ERR_BADLAYOUT, FDT_ERR_BADLAYOUT,
         Layout!FDT_ERR_BADOFFSET, FDT_ERR_BADOFFSET,
         Layout!FDT_ERR_NOSPACE, FDT_ERR_NOSPACE,
         Layout!fdt_data_size, fdt_data_size, Layout!rsv_size, rsv_size,
         Layout!Done, Done, Layout!Fail, Fail
<1>2. \A q, a, b : Layout!fdt_splice(h, q, a, b) = fdt_splice(h, q, a, b)
  BY <1>1 DEF Layout!fdt_splice, fdt_splice
<1>3. Layout!fdt_rw_check_header(h) = fdt_rw_check_header(h)
  BY <1>1 DEF Layout!fdt_rw_check_header, fdt_rw_check_header,
              Layout!fdt_blocks_misordered, fdt_blocks_misordered
<1>4. Layout!fdt_splice_mem_rsv(h, p, x, y) = fdt_splice_mem_rsv(h, p, x, y)
  BY <1>1, <1>2 DEF Layout!fdt_splice_mem_rsv, fdt_splice_mem_rsv
<1>5. Layout!fdt_splice_struct(h, p, x, y) = fdt_splice_struct(h, p, x, y)
  BY <1>1, <1>2 DEF Layout!fdt_splice_struct, fdt_splice_struct
<1>6. Layout!fdt_splice_string(h, x) = fdt_splice_string(h, x)
  BY <1>1, <1>2 DEF Layout!fdt_splice_string, fdt_splice_string
<1>7. Layout!fdt_pack(h, n) = fdt_pack(h, n)
  BY <1>1 DEF Layout!fdt_pack, fdt_pack, Layout!fdt_packblocks, fdt_packblocks,
              Layout!fdt_data_size, fdt_data_size
<1> QED
  BY <1>1, <1>3, <1>4, <1>5, <1>6, <1>7

LEMMA LayoutOpen ==
    ASSUME NEW h, NEW n, NEW w, NEW bufsize, NEW gap
    PROVE  Layout!fdt_open_into(h, n, w, bufsize, gap)
              = fdt_open_into(h, n, w, bufsize, gap)
<1>1. /\ Layout!RSV_START = RSV_START /\ Layout!rsv_size(n) = rsv_size(n)
      /\ Layout!FDT_ERR_NOSPACE = FDT_ERR_NOSPACE
      /\ \A g, e : Layout!Done(g) = Done(g) /\ Layout!Fail(g, e) = Fail(g, e)
  BY DEF Layout!RSV_START, RSV_START, Layout!rsv_size, rsv_size,
         Layout!RSV_ENTRY, RSV_ENTRY, Layout!FDT_ERR_NOSPACE, FDT_ERR_NOSPACE,
         Layout!Done, Done, Layout!Fail, Fail
<1>2. \A a, b : /\ Layout!fdt_blocks_misordered(h, a, b)
                      = fdt_blocks_misordered(h, a, b)
                /\ Layout!fdt_packblocks(h, a, b) = fdt_packblocks(h, a, b)
  BY <1>1 DEF Layout!fdt_blocks_misordered, fdt_blocks_misordered,
              Layout!fdt_packblocks, fdt_packblocks
<1>3. \A g : Layout!Opened(g, bufsize) = Opened(g, bufsize)
  BY DEF Layout!Opened, Opened
<1> QED
  BY <1>1, <1>2, <1>3 DEF Layout!fdt_open_into, fdt_open_into

LEMMA EditIsLayout ==
    ASSUME Sound(fdt), Edited(fdt, fdt'), Lens = Nat
    PROVE  [Layout!Next]_(Layout!vars)
<1>1. fdt_rw_check_header(fdt.hdr) = 0
  BY GoodChecks DEF Sound
<1>2. fdt'.nrsv = fdt.nrsv
  BY DEF Edited
<1>3. CASE fdt'.hdr = fdt.hdr
  BY <1>2, <1>3 DEF Layout!vars
<1>4. CASE Replaces(fdt, fdt')
  <2>1. PICK old, new \in Nat :
           /\ old <= fdt.hdr.sizeStruct
           /\ fdt_splice_struct(fdt.hdr, 0, old, new).ret = 0
           /\ fdt'.hdr = fdt_splice_struct(fdt.hdr, 0, old, new).hdr
    BY <1>4 DEF Replaces
  <2>2. Layout!EditStruct(old, new)
    BY <1>1, <1>2, <2>1, LayoutHeader DEF Layout!EditStruct
  <2> QED
    BY <2>2 DEF Layout!Next
<1>5. CASE AddsName(fdt, fdt')
  <2>1. PICK namelen, new \in Nat :
           /\ fdt_splice_string(fdt.hdr, namelen).ret = 0
           /\ fdt'.hdr = fdt_splice_struct(fdt_splice_string(fdt.hdr, namelen).hdr,
                                           0, 0, new).hdr
    BY <1>5 DEF AddsName
  <2>2. Layout!AddNamedProperty(namelen, new)
    BY <1>1, <1>2, <2>1, LayoutHeader DEF Layout!AddNamedProperty
  <2> QED
    BY <2>2 DEF Layout!Next
<1> QED
  BY <1>3, <1>4, <1>5 DEF Edited

LEMMA MoveIsLayout ==
    ASSUME Sound(fdt), MovesTo(fdt, fdt')
    PROVE  [Layout!Next]_(Layout!vars)
<1>1. fdt_rw_check_header(fdt.hdr) = 0 /\ fdt.nrsv \in Nat
  BY GoodChecks DEF Sound, Good
<1>2. CASE fdt' = fdt
  BY <1>2 DEF Layout!vars
<1>3. CASE MovesEntry(fdt, fdt', fdt.hdr.offRsv + fdt.nrsv * RSV_ENTRY, 0, 1)
  <2>1. fdt.nrsv + 1 - 0 = fdt.nrsv + 1
    BY <1>1
  <2>2. Layout!fdt_add_mem_rsv
    BY <1>1, <1>3, <2>1, LayoutHeader DEF MovesEntry, Layout!fdt_add_mem_rsv
  <2> QED
    BY <2>2 DEF Layout!Next
<1>4. ASSUME NEW m \in 0 .. fdt.nrsv, m < fdt.nrsv,
             MovesEntry(fdt, fdt', fdt.hdr.offRsv + m * RSV_ENTRY, 1, 0)
      PROVE  Layout!Next
  <2>1. fdt.nrsv + 0 - 1 = fdt.nrsv - 1
    BY <1>1
  <2>2. Layout!fdt_del_mem_rsv(m)
    BY <1>1, <1>4, <2>1, LayoutHeader DEF MovesEntry, Layout!fdt_del_mem_rsv
  <2> QED
    BY <2>2 DEF Layout!Next
<1>5. CASE fdt'.hdr = fdt_pack(fdt.hdr, fdt.nrsv) /\ fdt'.nrsv = fdt.nrsv
  <2>1. Layout!Pack
    BY <1>1, <1>5, LayoutHeader DEF Layout!Pack
  <2> QED
    BY <2>1 DEF Layout!Next
<1>6. ASSUME NEW bufsize \in Buffers,
             LET s == fdt_open_into(fdt.hdr, fdt.nrsv, fdt.hdr.sizeStruct, bufsize,
                                    fdt.hdr.total)
             IN  s.ret = 0 /\ fdt'.hdr = s.hdr /\ fdt'.nrsv = fdt.nrsv
      PROVE  Layout!Next
  <2>1. Layout!Reopen(bufsize)
    BY <1>6, LayoutOpen DEF Layout!Reopen
  <2> QED
    BY <2>1 DEF Layout!Next
<1> QED
  BY <1>2, <1>3, <1>4, <1>5, <1>6 DEF MovesTo

LEMMA OpenedIsLayout == Init => Layout!Init
<1> SUFFICES ASSUME Init PROVE Layout!Init
  OBVIOUS
<1>1. PICK dtb \in Dtbs, bufsize \in Buffers :
         LET s == fdt_open_into(dtb.hdr, dtb.nrsv, dtb.hdr.sizeStruct, bufsize, 0)
         IN  s.ret = 0 /\ fdt.hdr = s.hdr /\ fdt.nrsv = dtb.nrsv
  BY InitOpens
<1> DEFINE src == [hdr |-> dtb.hdr, nrsv |-> dtb.nrsv]
<1>2. src \in {[hdr |-> d.hdr, nrsv |-> d.nrsv] : d \in Dtbs}
      /\ src.hdr = dtb.hdr /\ src.nrsv = dtb.nrsv
  OBVIOUS
<1> HIDE DEF src
<1>3. LET s == Layout!fdt_open_into(src.hdr, src.nrsv, src.hdr.sizeStruct, bufsize, 0)
      IN  s.ret = 0 /\ fdt.hdr = s.hdr /\ fdt.nrsv = src.nrsv
  BY <1>1, <1>2, LayoutOpen
<1> QED
  BY <1>2, <1>3 DEF Layout!Init

\* Every call does to the header what FdtLayout says, for names, values and
\* trees of any size, so what FdtLayout_proofs shows of the layout holds here:
\* the calls on contents are those of FdtLayout with the lengths they add and
\* remove, a call that fails with its name added among them.
THEOREM RwImplementsLayout ==
    ASSUME Lens = Nat PROVE Spec => LayoutSpec
<1>1. Init => Layout!Init
  BY OpenedIsLayout
<1>2. Sound(fdt) /\ [Next]_vars => [Layout!Next]_(Layout!vars)
  <2> SUFFICES ASSUME Sound(fdt), [Next]_vars PROVE [Layout!Next]_(Layout!vars)
    OBVIOUS
  <2>1. CASE Next
    BY <2>1, NextSteps, EditIsLayout, MoveIsLayout DEF EditsTo
  <2>2. CASE UNCHANGED vars
    BY <2>2 DEF vars, Layout!vars
  <2> QED
    BY <2>1, <2>2
<1> QED
  BY <1>1, <1>2, SoundAlways, PTL DEF Spec, LayoutSpec, Layout!Spec

-----------------------------------------------------------------------------
(* Walking a nested block                                                  *)

LEMMA WalksNested ==
    ASSUME Block(fdt.words), Nested(fdt.words) PROVE walks
<1> DEFINE t(n) == fdt_next_tag(fdt, n.off)
           N == Len(fdt.words)
           d == Depths(fdt.words)
           In(n) == t(n).tag = "BEGIN"
           Up(n) == t(n).tag = "END_NODE"
           Over(n) == t(n).tag \in {"PROP", "NOP"}
           Goes(n) == In(n) \/ (n.depth > 0 /\ (Up(n) \/ Over(n)))
           ends(n) == ~Up(n) /\ ~Over(n) /\ n.depth = 0 /\ t(n).next = N
           Stop == {n \in Spots : ~Goes(n)}
           out == [n \in Spots |-> ends(n)]
           to(n) == Spot(t(n).next, IF In(n) THEN n.depth + 1
                                    ELSE IF Up(n) THEN n.depth - 1 ELSE n.depth)
           go == [n \in Spots |-> IF Goes(n) THEN to(n) ELSE n]
           rank == [n \in Spots |-> IF n.off \in 0 .. N THEN N - n.off ELSE 0]
           Eq(f) == f = [n \in Spots |->
                           IF t(n).tag = "BEGIN"
                           THEN f[Spot(t(n).next, n.depth + 1)]
                           ELSE IF t(n).tag = "END_NODE"
                           THEN n.depth > 0 /\ f[Spot(t(n).next, n.depth - 1)]
                           ELSE IF t(n).tag \in {"PROP", "NOP"}
                           THEN n.depth > 0 /\ f[Spot(t(n).next, n.depth)]
                           ELSE n.depth = 0 /\ t(n).next = N]
           F == CHOOSE f : Eq(f)
           Here == {n \in Spots : n.off \in Starts(fdt.words) /\ n.depth = d[n.off]}
<1>0. N \in Nat
  BY BlockMeans
<1>1. ASSUME NEW n \in Spots
      PROVE  /\ \/ t(n).tag = "END" /\ t(n).next \in Int
                \/ /\ t(n).tag \in {"BEGIN", "END_NODE", "PROP", "NOP"}
                   /\ t(n).next \in n.off + 1 .. N /\ n.off \in 0 .. N
             /\ n.off \in Int /\ n.depth \in Int
  <2>1. n.off \in Int /\ n.depth \in Int
    BY SpotIs
  <2>2. Answers(fdt, n.off, t(n))
    BY <2>1, NextTag
  <2> HIDE DEF t
  <2> QED
    BY <1>0, <2>1, <2>2 DEF Answers
<1>2. ASSUME NEW n \in Here
      PROVE  /\ n \in Spots /\ n.off \in Int /\ n.depth \in Int
             /\ Goes(n) => to(n) \in Here
             /\ ~Goes(n) => ends(n)
  <2>1. n \in Spots /\ n.off \in Starts(fdt.words) /\ n.depth = d[n.off]
        /\ n.off \in Int /\ n.depth \in Int
    BY SpotIs
  <2>2. TagAt(fdt, n.off, t(n))
    BY <2>1, NextStart
  <2> HIDE DEF t
  <2>3. /\ t(n).tag = At(fdt, n.off).tag /\ t(n).tag \in Tags \ {"CONT"}
        /\ t(n).next = n.off + tag_words(At(fdt, n.off))
        /\ t(n).next \in n.off + 1 .. N
        /\ IF t(n).tag = "END" THEN n.off = N - 1
           ELSE t(n).next \in Starts(fdt.words)
                /\ d[t(n).next] = d[n.off] + opens(At(fdt, n.off))
    BY <2>2 DEF TagAt
  <2>4. n.off \in 0 .. N - 1
    BY <2>1 DEF Starts
  <2>5. /\ N > 1 /\ fdt.words[1].tag = "BEGIN" /\ fdt.words[N].tag = "END"
        /\ \A k \in 1 .. N - 1 : d[k] >= 0 /\ (d[k] = 0 <=> k = N - 1)
    BY <1>0 DEF Nested
  <2> HIDE DEF d, N
  <2>6. CASE t(n).tag = "END"
    <3>1. n.off = N - 1 /\ n.off \in 1 .. N - 1
      BY <1>0, <2>3, <2>4, <2>5, <2>6
    <3>2. n.depth = 0
      BY <2>1, <2>5, <3>1
    <3>3. t(n).next = N
      BY <1>0, <2>3, <3>1
    <3>4. ~In(n) /\ ~Up(n) /\ ~Over(n)
      BY <2>6
    <3> QED
      BY <2>1, <3>2, <3>3, <3>4
  <2>7. CASE t(n).tag = "BEGIN"
    <3>1. opens(At(fdt, n.off)) = 1
      BY <2>3, <2>7, Opens
    <3>2. to(n) = Spot(t(n).next, n.depth + 1) /\ Goes(n)
      BY <2>7
    <3>3. t(n).next \in Int /\ n.depth + 1 \in Int
          /\ t(n).next \in Starts(fdt.words) /\ n.depth + 1 = d[t(n).next]
      BY <1>0, <2>1, <2>3, <2>7, <3>1
    <3> HIDE DEF to, Goes
    <3> QED
      BY <2>1, <3>2, <3>3, SpotFields
  <2>8. CASE t(n).tag \in {"END_NODE", "PROP", "NOP"}
    <3>1. n.off \in 1 .. N - 1 /\ n.off # N - 1
      <4>1. n.off # 0
        BY <2>3, <2>5, <2>8 DEF At
      <4>2. n.off # N - 1
        <5>1. n.off = N - 1 => At(fdt, n.off) = fdt.words[N]
          BY <1>0 DEF At
        <5> QED
          BY <2>3, <2>5, <2>8, <5>1
      <4> QED
        BY <1>0, <2>4, <4>1, <4>2
    <3>2. n.depth > 0
      BY <2>1, <2>5, <3>1
    <3>3. Goes(n) /\ ~In(n) /\ (Up(n) \/ Over(n)) /\ ~(Up(n) /\ Over(n))
      BY <2>8, <3>2
    <3>4. t(n).next \in Int /\ t(n).next \in Starts(fdt.words)
          /\ d[t(n).next] = n.depth + opens(At(fdt, n.off))
      BY <1>0, <2>1, <2>3, <2>8
    <3>5. opens(At(fdt, n.off)) = IF Up(n) THEN -1 ELSE 0
      <4>1. CASE t(n).tag = "END_NODE"
        BY <2>3, <4>1, Opens
      <4>2. CASE t(n).tag \in {"PROP", "NOP"}
        BY <2>3, <4>2, Opens
      <4> QED
        BY <2>8, <4>1, <4>2
    <3>6. to(n) = Spot(t(n).next, d[t(n).next]) /\ d[t(n).next] \in Int
      BY <2>1, <3>3, <3>4, <3>5
    <3> HIDE DEF to, Goes, In, Up, Over
    <3> QED
      BY <2>1, <3>3, <3>4, <3>6, SpotFields
  <2> QED
    BY <2>3, <2>6, <2>7, <2>8 DEF Tags
<1> HIDE DEF t, N, d
<1>3. /\ out \in [Spots -> BOOLEAN] /\ go \in [Spots -> Spots]
      /\ rank \in [Spots -> Nat]
  <2>1. out \in [Spots -> BOOLEAN]
    OBVIOUS
  <2>2. ASSUME NEW n \in Spots PROVE go[n] \in Spots
    <3>1. Goes(n) => t(n).next \in Int
      BY <1>1
    <3>2. /\ n.depth \in Int /\ n.depth - 1 \in Int /\ n.depth + 1 \in Int
      BY <1>1
    <3>3. Goes(n) => to(n) \in Spots
      <4> HIDE DEF Goes, In, Up
      <4> QED
        BY <3>1, <3>2, SpotFields
    <3> HIDE DEF Goes, to
    <3> QED
      BY <3>3
  <2>3. ASSUME NEW n \in Spots PROVE rank[n] \in Nat
    BY <1>0, <1>1
  <2> QED
    BY <2>1, <2>2, <2>3
<1>4. ASSUME NEW n \in Spots, Goes(n)
      PROVE  rank[go[n]] < rank[n] /\ go[n] = to(n) /\ to(n) \in Spots
  <2>0. /\ t(n).next \in n.off + 1 .. N /\ n.off \in 0 .. N
        /\ n.off \in Int /\ n.depth \in Int
    BY <1>1, <1>4
  <2>1. n.depth - 1 \in Int /\ n.depth + 1 \in Int /\ t(n).next \in Int
    BY <1>0, <2>0
  <2>2. to(n) \in Spots /\ to(n).off = t(n).next
    <3> HIDE DEF In, Up
    <3> QED
      BY <2>0, <2>1, SpotFields
  <2>3. go[n] = to(n)
    BY <1>4
  <2> HIDE DEF to, go
  <2>4. rank[go[n]] = N - t(n).next /\ rank[n] = N - n.off
    BY <1>0, <2>0, <2>2, <2>3
  <2> HIDE DEF rank
  <2> QED
    BY <1>0, <2>0, <2>2, <2>3, <2>4
<1>5. PICK f : Loop(f, Spots, Stop, out, go)
  <2>1. \A n \in Spots : n \notin Stop => rank[go[n]] < rank[n]
    BY <1>4
  <2> HIDE DEF Stop, out, go, rank
  <2> QED
    BY <1>3, <2>1, LoopExists, Zenon
<1>6. \A n \in Spots : f[n] = IF Goes(n) THEN f[to(n)] ELSE ends(n)
  <2>1. \A n \in Spots : f[n] = IF n \in Stop THEN out[n] ELSE f[go[n]]
    <3> HIDE DEF Stop, out, go
    <3> QED
      BY <1>5 DEF Loop
  <2> SUFFICES ASSUME NEW n \in Spots
               PROVE  f[n] = IF Goes(n) THEN f[to(n)] ELSE ends(n)
    OBVIOUS
  <2>2. n \in Stop <=> ~Goes(n)
    OBVIOUS
  <2>3. out[n] = ends(n)
    OBVIOUS
  <2>4. Goes(n) => go[n] = to(n)
    BY <1>4
  <2> HIDE DEF Stop, out, go, Goes, ends, to
  <2> QED
    BY <2>1, <2>2, <2>3, <2>4
<1> DEFINE B == {n \in Spots : f[n] \in BOOLEAN}
<1>7. \A n \in Spots : n \in B
  <2>1. ASSUME NEW n \in Spots, \A m \in Spots : rank[m] < rank[n] => m \in B
        PROVE  n \in B
    <3>1. CASE Goes(n)
      <4> HIDE DEF Goes, to, rank, go
      <4> QED
        BY <1>4, <1>6, <2>1, <3>1
    <3>2. CASE ~Goes(n)
      <4>1. f[n] = ends(n)
        BY <1>6, <3>2
      <4> QED
        BY <4>1
    <3> QED
      BY <3>1, <3>2
  <2>2. rank \in [Spots -> Nat]
    BY <1>3
  <2> HIDE DEF B, rank
  <2> QED
    BY <2>1, <2>2, LoopInduction
<1>8. Eq(f)
  <2>1. ASSUME NEW n \in Spots
        PROVE  (IF Goes(n) THEN f[to(n)] ELSE ends(n)) =
               (IF t(n).tag = "BEGIN" THEN f[Spot(t(n).next, n.depth + 1)]
                ELSE IF t(n).tag = "END_NODE"
                THEN n.depth > 0 /\ f[Spot(t(n).next, n.depth - 1)]
                ELSE IF t(n).tag \in {"PROP", "NOP"}
                THEN n.depth > 0 /\ f[Spot(t(n).next, n.depth)]
                ELSE n.depth = 0 /\ t(n).next = N)
    <3>1. Goes(n) => f[to(n)] \in BOOLEAN
      BY <1>4, <1>7
    <3> QED
      BY <3>1
  <2>2. f = [n \in Spots |-> IF n \in Stop THEN out[n] ELSE f[go[n]]]
    BY <1>5 DEF Loop
  <2>3. f = [n \in Spots |-> f[n]]
    <3> HIDE DEF Stop, out, go
    <3> QED
      BY <2>2
  <2> HIDE DEF Goes, to, ends, Stop, out, go
  <2> QED
    BY <1>6, <2>1, <2>3
<1>9. Eq(F)
  BY <1>8
<1>10. walks = F[Spot(0, 0)]
  BY DEF walks, t, N
<1>11. \A n \in Spots : F[n] = IF In(n) THEN F[Spot(t(n).next, n.depth + 1)]
                              ELSE IF Up(n)
                              THEN n.depth > 0 /\ F[Spot(t(n).next, n.depth - 1)]
                              ELSE IF Over(n)
                              THEN n.depth > 0 /\ F[Spot(t(n).next, n.depth)]
                              ELSE n.depth = 0 /\ t(n).next = N
  BY <1>9
<1> DEFINE T == {n \in Spots : n \in Here => F[n]}
<1> HIDE DEF F, Eq
<1>12. ASSUME NEW n \in Spots, \A m \in Spots : rank[m] < rank[n] => m \in T
       PROVE  n \in T
  <2> SUFFICES ASSUME n \in Here PROVE F[n]
    OBVIOUS
  <2>1. CASE Goes(n)
    <3>1. rank[go[n]] < rank[n] /\ go[n] = to(n) /\ to(n) \in Spots /\ to(n) \in Here
      <4> HIDE DEF to, Goes, go, rank, Here
      <4> QED
        BY <1>2, <1>4, <2>1
    <3>2. F[to(n)]
      <4> HIDE DEF to, Goes, go, rank, Here
      <4> QED
        BY <1>12, <3>1
    <3> QED
      BY <1>11, <2>1, <3>2
  <2>2. CASE ~Goes(n)
    <3>1. ends(n) /\ ~In(n)
      BY <1>2, <2>2
    <3> QED
      BY <1>11, <3>1
  <2> QED
    BY <2>1, <2>2
<1>13. \A n \in Spots : n \in T
  <2>1. rank \in [Spots -> Nat]
    BY <1>3
  <2> HIDE DEF T, rank
  <2> QED
    BY <2>1, <1>12, LoopInduction
<1>14. Spot(0, 0) \in Here
  <2>1. DepthsAre(fdt.words, d) /\ N > 1 /\ fdt.words[1].tag = "BEGIN"
    BY DepthNumbers DEF Nested, d, N
  <2>2. 0 \in Starts(fdt.words) /\ d[0] = 0
    BY <1>0, <2>1 DEF Starts, N, DepthsAre
  <2> QED
    BY <2>2, SpotFields
<1> QED
  BY <1>10, <1>13, <1>14, SpotFields

\* The block is nested, or rootless and then nothing but the end is left of it.
LEMMA ShapedStep ==
    ASSUME UnseenError = FALSE
    PROVE  Sound(fdt) /\ Shaped(fdt.words) /\ [Next]_vars => Shaped(fdt.words)'
<1>1. Shaped(fdt.words) /\ Keeps(fdt.words, fdt'.words) => Shaped(fdt'.words)
  BY DEF Keeps, Shaped
<1>2. Sound(fdt) /\ Shaped(fdt.words) /\ Next => Shaped(fdt'.words)
  BY <1>1, NextSteps DEF EditsTo, MovesTo
<1>3. Shaped(fdt.words) /\ UNCHANGED vars => Shaped(fdt'.words)
  BY DEF vars
<1>4. Shaped(fdt'.words) => Shaped(fdt.words)'
  OBVIOUS
<1> QED
  BY <1>2, <1>3, <1>4

LEMMA ShapedNests ==
    ASSUME Sound(fdt), Shaped(fdt.words) PROVE WellNested
<1>0. Block(fdt.words) /\ Len(fdt.words) \in Nat
  BY BlockMeans DEF Sound, Agrees
<1>1. CASE Nested(fdt.words)
  <2>1. fdt.words[Len(fdt.words)].tag = "END"
    BY <1>0, <1>1 DEF Nested
  <2> QED
    BY <1>0, <1>1, <2>1, WalksNested DEF WellNested
<1>2. CASE Rootless(fdt.words)
  <2>1. fdt.words[Len(fdt.words)].tag = "END"
    BY <1>0, <1>2 DEF Rootless
  <2>2. ASSUME NEW k \in NodeOffsets(fdt) PROVE FALSE
    <3>1. k \in 0 .. Len(fdt.words) - 1 /\ At(fdt, k).tag = "BEGIN"
      BY DEF NodeOffsets
    <3> QED
      BY <1>0, <1>2, <3>1, NotRootless
  <2>3. NodeOffsets(fdt) = {}
    BY <2>2
  <2> QED
    BY <2>1, <2>3 DEF WellNested
<1> QED
  BY <1>1, <1>2 DEF Shaped

\* Whatever sequence of calls is made, on offsets of nodes, of the end, or on
\* the error of a failed lookup, the nodes nest and every tag starts where the
\* one before it ends: as long as no such error is the parent of a new node.
THEOREM RwWellNested ==
    ASSUME UnseenError = FALSE PROVE Spec => []WellNested
<1>1. Init => Shaped(fdt.words)
  BY InitOpens DEF Shaped
<1>2. Sound(fdt) /\ Shaped(fdt.words) /\ [Next]_vars => Shaped(fdt.words)'
  BY ShapedStep
<1>3. Sound(fdt) /\ Shaped(fdt.words) => WellNested
  BY ShapedNests
<1> QED
  BY <1>1, <1>2, <1>3, SoundAlways, PTL DEF Spec

-----------------------------------------------------------------------------
(* Where the calls put their words                                         *)

\* From b to c, the n words at off have made way for the words of new.
Puts(b, c, off, n, new) ==
    /\ off \in Nat /\ n \in Nat /\ off + n <= Len(b.words) /\ Block(new)
    /\ IsSplice(c.words, b.words, off, n, new)

\* What a call answers before its header is written.
Blobs(r) == r = [ret |-> r.ret, fdt |-> r.fdt] /\ Sound(r.fdt)

LEMMA SplicePuts ==
    ASSUME NEW b, Sound(b), NEW off \in Nat, NEW n \in Nat,
           off + n <= Len(b.words), NEW new, Block(new)
    PROVE  LET r == splice_words(b, off, n, new)
           IN  /\ Blobs(r) /\ r.ret \in Int
               /\ \/ r.ret < 0 /\ r.fdt = b
                  \/ r.ret = 0 /\ Puts(b, r.fdt, off, n, new)
<1> DEFINE r == splice_words(b, off, n, new)
           s == fdt_splice_struct(b.hdr, off * FDT_TAGSIZE,
                                  n * FDT_TAGSIZE, Len(new) * FDT_TAGSIZE)
<1>1. /\ Answer(b, r)
      /\ \/ r.ret # 0 /\ r.fdt = b
         \/ r.ret = 0 /\ IsSplice(r.fdt.words, b.words, off, n, new)
  BY SpliceAnswers
<1>2. s.ret \in {0, -FDT_ERR_BADOFFSET, -FDT_ERR_NOSPACE}
  <2> DEFINE err(h, p, o, m) == fdt_splice(h, p, o, m)
             e == err(b.hdr, b.hdr.offStruct + off * FDT_TAGSIZE,
                      n * FDT_TAGSIZE, Len(new) * FDT_TAGSIZE)
  <2>1. e \in {0, -FDT_ERR_BADOFFSET, -FDT_ERR_NOSPACE}
    BY DEF fdt_splice
  <2>2. \E g : s = IF e # 0 THEN Fail(b.hdr, -e) ELSE Done(g)
    BY DEF fdt_splice_struct
  <2> HIDE DEF e, s
  <2>3. e \in Int /\ - (-e) = e
    BY <2>1 DEF FDT_ERR_BADOFFSET, FDT_ERR_NOSPACE
  <2> QED
    BY <2>1, <2>2, <2>3 DEF Fail, Done
<1>3. r.ret = s.ret
  <2> DEFINE moved(x) ==
                IF x.ret # 0 THEN Err(b, x.ret)
                ELSE [ret |-> 0,
                      fdt |-> [b EXCEPT !.hdr = x.hdr,
                                 !.words = SubSeq(@, 1, off) \o new
                                             \o SubSeq(@, off + n + 1, Len(@))]]
  <2>1. r = moved(s)
    BY DEF splice_words
  <2> HIDE DEF r, s
  <2> QED
    BY <2>1 DEF Err
<1> HIDE DEF r, s
<1>4. r.ret \in Int /\ r.ret <= 0
  BY <1>2, <1>3 DEF FDT_ERR_BADOFFSET, FDT_ERR_NOSPACE
<1> QED
  BY <1>1, <1>4 DEF Puts, Blobs, Answer, r

LEMMA ErrBlobs ==
    ASSUME NEW b, Sound(b), NEW e
    PROVE  Blobs(Err(b, e)) /\ Err(b, e).fdt = b /\ Err(b, e).ret = e
BY DEF Blobs, Err

LEMMA CalledBlobs ==
    ASSUME NEW b, Sound(b), NEW r, Blobs(r) PROVE RwCall(b, r) = r
BY RwCalled DEF Blobs

\* What a call does that leaves everything up to a node's BEGIN tag alone.
Behind(b, c, node) ==
    \/ c.words = b.words
    \/ \E off, n \in Nat : \E new : off > node /\ Puts(b, c, off, n, new)

LEMMA AddPropertyPuts ==
    ASSUME NEW b, Sound(b), NEW node \in Int, NEW name, Len(name) \in Nat,
           NEW val, IsValue(val)
    PROVE  LET r == fdt_add_property(b, node, name, val)
               next == fdt_check_node_offset(b, node)
           IN  /\ Blobs(r)
               /\ \/ r.fdt.words = b.words
                  \/ /\ IsNode(b, node, next) /\ r.ret = 0
                     /\ Puts(b, r.fdt, next, 0, Unit(Prop(name, val)))
<1> DEFINE next == fdt_check_node_offset(b, node)
           s == fdt_find_add_string(b, name)
           w == Prop(name, val)
           new == Unit(w)
           r == splice_words(s.fdt, next, 0, new)
<1>1. next < 0 \/ (next \in 1 .. Len(b.words) /\ IsNode(b, node, next))
  BY FoundNode
<1>2. Answer(b, s) /\ s.fdt.words = b.words
  BY NameAnswers
<1>3. Block(b.words) /\ Len(b.words) \in Nat
  BY BlockMeans DEF Sound, Agrees
<1>4. fdt_add_property(b, node, name, val) =
         IF next < 0 THEN Err(b, next) ELSE IF s.ret # 0 THEN s ELSE r
  <2>1. next \in Int
    <3>1. next = -FDT_ERR_BADOFFSET \/ IsNode(b, node, next)
      BY <1>3, CheckNode
    <3>2. -FDT_ERR_BADOFFSET \in Int
      BY DEF FDT_ERR_BADOFFSET
    <3> HIDE DEF next
    <3> QED
      BY <1>3, <3>1, <3>2 DEF IsNode
  <2> DEFINE put(o, x) == CASE o < 0 -> Err(b, o)
                            [] o >= 0 /\ x.ret # 0 -> x
                            [] OTHER -> splice_words(x.fdt, o, 0, new)
  <2>2. fdt_add_property(b, node, name, val) = put(next, s)
    BY DEF fdt_add_property
  <2> HIDE DEF next, s, new
  <2> QED
    BY <2>1, <2>2
<1>5. Block(new)
  <2>1. IsWord(w)
    BY NewTags
  <2> QED
    BY <2>1, UnitWords
<1> HIDE DEF s, next, new
<1>6. CASE next < 0
  BY <1>4, <1>6, ErrBlobs
<1>7. CASE ~(next < 0) /\ s.ret # 0
  BY <1>2, <1>4, <1>7 DEF Answer, Blobs
<1>8. CASE ~(next < 0) /\ s.ret = 0
  <2>1. next \in Nat /\ 0 \in Nat /\ next + 0 <= Len(s.fdt.words) /\ Sound(s.fdt)
        /\ IsNode(b, node, next)
    BY <1>1, <1>2, <1>3, <1>8 DEF Answer
  <2>2. /\ Blobs(r)
        /\ r.fdt = s.fdt \/ (r.ret = 0 /\ Puts(s.fdt, r.fdt, next, 0, new))
    BY <1>5, <2>1, SplicePuts
  <2> HIDE DEF r
  <2>3. r.fdt.words = b.words \/ (r.ret = 0 /\ Puts(b, r.fdt, next, 0, new))
    BY <1>2, <2>2 DEF Puts
  <2> QED
    BY <1>4, <1>8, <2>1, <2>2, <2>3 DEF next, new
<1> QED
  BY <1>6, <1>7, <1>8

\* A property that is rewritten, with its words.
LEMMA RetagPuts ==
    ASSUME NEW b, Sound(b), NEW node \in Int, NEW name, NEW w, IsWord(w),
           fdt_get_property(b, node, name) >= 0
    PROVE  LET p == fdt_get_property(b, node, name)
               r == Retag(b, p, w)
           IN  /\ Blobs(r)
               /\ \/ r.fdt = b
                  \/ r.ret = 0 /\ Puts(b, r.fdt, p, tag_words(At(b, p)), Unit(w))
<1> DEFINE p == fdt_get_property(b, node, name)
           n == tag_words(At(b, p))
<1>1. /\ p \in 0 .. Len(b.words) - 1 /\ p + n <= Len(b.words) /\ n \in Nat
  BY FoundProperty
<1>2. Block(Unit(w))
  BY UnitWords
<1>3. p \in Nat
  BY <1>1
<1> HIDE DEF p, n
<1>4. LET r == splice_words(b, p, n, Unit(w))
      IN  Blobs(r) /\ (r.fdt = b \/ (r.ret = 0 /\ Puts(b, r.fdt, p, n, Unit(w))))
  BY <1>1, <1>2, <1>3, SplicePuts
<1> QED
  BY <1>4 DEF Retag, p, n

\* A property is behind the BEGIN tag of its node.
LEMMA FoundBehind ==
    ASSUME NEW b, Block(b.words), NEW node \in Int, NEW name,
           fdt_get_property(b, node, name) >= 0
    PROVE  fdt_get_property(b, node, name) > node
<1>1. Closed(b, Int, {"PROP", "NOP"})
  <2>1. ASSUME NEW q \in Int PROVE fdt_next_tag(b, q).next \in Int
    <3>1. Answers(b, q, fdt_next_tag(b, q))
      BY NextTag
    <3> QED
      BY <3>1, BlockMeans DEF Answers
  <2> QED
    BY <2>1 DEF Closed
<1>2. PropIn(b, Int, node, fdt_get_property(b, node, name))
  BY <1>1, GetProperty
<1> QED
  BY <1>2 DEF PropIn

LEMMA SetPropBehind ==
    ASSUME NEW b, Sound(b), NEW node \in Int, NEW name, Len(name) \in Nat,
           NEW val, IsValue(val)
    PROVE  Behind(b, fdt_setprop(b, node, name, val).fdt, node)
<1> DEFINE p == fdt_get_property(b, node, name)
           w == Prop(name, val)
           a == fdt_add_property(b, node, name, val)
           r == IF p >= 0 THEN Retag(b, p, w)
                ELSE IF p = -FDT_ERR_NOTFOUND THEN a ELSE Err(b, p)
<1>0. p \in Int /\ Block(b.words)
  BY PropertyTag DEF Sound, Agrees
<1>1. fdt_setprop(b, node, name, val) = RwCall(b, r)
  <2>1. -FDT_ERR_NOTFOUND < 0
    BY DEF FDT_ERR_NOTFOUND
  <2> HIDE DEF p, w, a
  <2> QED
    BY <1>0, <2>1 DEF fdt_setprop, p, w, a
<1>2. ASSUME p >= 0 PROVE Blobs(r) /\ Behind(b, r.fdt, node)
  <2>1. IsWord(w) /\ p > node /\ r = Retag(b, p, w)
    BY <1>0, <1>2, NewTags, FoundBehind DEF Prop, Word
  <2>2. Blobs(Retag(b, p, w)) /\ (Retag(b, p, w).fdt = b \/
           Puts(b, Retag(b, p, w).fdt, p, tag_words(At(b, p)), Unit(w)))
    BY <1>2, <2>1, RetagPuts
  <2> HIDE DEF p, w, r
  <2> QED
    BY <2>1, <2>2 DEF Behind, Puts
<1>3. ASSUME ~(p >= 0) PROVE Blobs(r) /\ Behind(b, r.fdt, node)
  <2> DEFINE next == fdt_check_node_offset(b, node)
  <2>1. Blobs(a) /\ (a.fdt.words = b.words \/
           (IsNode(b, node, next) /\ Puts(b, a.fdt, next, 0, Unit(w))))
    BY AddPropertyPuts
  <2>2. IsNode(b, node, next) => next > node
    BY DEF IsNode
  <2>3. Blobs(Err(b, p)) /\ Err(b, p).fdt = b
    BY ErrBlobs
  <2> HIDE DEF a, next, w, p
  <2> QED
    BY <1>3, <2>1, <2>2, <2>3 DEF Behind, Puts
<1>4. Blobs(r) /\ Behind(b, r.fdt, node)
  BY <1>2, <1>3
<1> HIDE DEF r
<1> QED
  BY <1>1, <1>4, CalledBlobs

LEMMA AppendPropBehind ==
    ASSUME NEW b, Sound(b), NEW node \in Int, NEW name, Len(name) \in Nat,
           NEW val, IsValue(val)
    PROVE  Behind(b, fdt_appendprop(b, node, name, val).fdt, node)
<1> DEFINE p == fdt_get_property(b, node, name)
           w == Prop(name, At(b, p).val \o val)
           a == fdt_add_property(b, node, name, val)
           r == IF p < 0 THEN a ELSE Retag(b, p, w)
<1>0. p \in Int /\ Block(b.words)
  BY PropertyTag DEF Sound, Agrees
<1>1. fdt_appendprop(b, node, name, val) = RwCall(b, r)
  BY DEF fdt_appendprop
<1>2. ASSUME p >= 0 PROVE Blobs(r) /\ Behind(b, r.fdt, node)
  <2>1. At(b, p).tag = "PROP" /\ IsWord(At(b, p))
    BY <1>2, FoundProperty
  <2>2. IsValue(At(b, p).val \o val)
    BY <2>1, ValueJoined DEF IsWord
  <2>3. IsWord(w) /\ p > node /\ r = Retag(b, p, w)
    <3>1. IsWord(w)
      BY <2>2, NewTags
    <3>2. p > node /\ r = Retag(b, p, w)
      BY <1>0, <1>2, FoundBehind
    <3> QED
      BY <3>1, <3>2
  <2>4. Blobs(Retag(b, p, w)) /\ (Retag(b, p, w).fdt = b \/
           Puts(b, Retag(b, p, w).fdt, p, tag_words(At(b, p)), Unit(w)))
    BY <1>2, <2>3, RetagPuts
  <2> HIDE DEF p, w, r
  <2> QED
    BY <2>3, <2>4 DEF Behind, Puts
<1>3. ASSUME p < 0 PROVE Blobs(r) /\ Behind(b, r.fdt, node)
  <2> DEFINE next == fdt_check_node_offset(b, node)
             u == Unit(Prop(name, val))
  <2>1. Blobs(a) /\ (a.fdt.words = b.words \/
           (IsNode(b, node, next) /\ Puts(b, a.fdt, next, 0, u)))
    BY AddPropertyPuts
  <2>2. IsNode(b, node, next) => next > node
    BY DEF IsNode
  <2> HIDE DEF a, next, p, u
  <2> QED
    BY <1>3, <2>1, <2>2 DEF Behind, Puts
<1>4. Blobs(r) /\ Behind(b, r.fdt, node)
  BY <1>0, <1>2, <1>3
<1> HIDE DEF r
<1> QED
  BY <1>1, <1>4, CalledBlobs

LEMMA DelPropBehind ==
    ASSUME NEW b, Sound(b), NEW node \in Int, NEW name
    PROVE  Behind(b, fdt_delprop(b, node, name).fdt, node)
<1> DEFINE p == fdt_get_property(b, node, name)
           n == tag_words(At(b, p))
           r == IF p < 0 THEN Err(b, p) ELSE splice_words(b, p, n, <<>>)
<1>0. fdt_delprop(b, node, name) = RwCall(b, r) /\ p \in Int /\ Block(b.words)
  BY PropertyTag DEF fdt_delprop, Sound, Agrees
<1>1. ASSUME p < 0 PROVE Blobs(r) /\ Behind(b, r.fdt, node)
  BY <1>1, ErrBlobs DEF Behind
<1>2. ASSUME p >= 0 PROVE Blobs(r) /\ Behind(b, r.fdt, node)
  <2>1. p + n <= Len(b.words) /\ n \in Nat
    BY <1>2, FoundProperty
  <2>2. p > node /\ p \in Nat /\ r = splice_words(b, p, n, <<>>)
    BY <1>0, <1>2, FoundBehind
  <2> HIDE DEF p, n, r
  <2>3. LET s == splice_words(b, p, n, <<>>)
        IN  Blobs(s) /\ (s.fdt = b \/ Puts(b, s.fdt, p, n, <<>>))
    BY <2>1, <2>2, NoWords, SplicePuts
  <2> QED
    BY <2>2, <2>3 DEF Behind, Puts
<1>3. Blobs(r) /\ Behind(b, r.fdt, node)
  BY <1>0, <1>1, <1>2
<1> HIDE DEF r
<1> QED
  BY <1>0, <1>3, CalledBlobs

SameStrings(b, c) == c.strs = b.strs

LEMMA SpliceStrings ==
    ASSUME NEW b, Sound(b), NEW off, NEW n, NEW new
    PROVE  SameStrings(b, splice_words(b, off, n, new).fdt)
<1> DEFINE s == fdt_splice_struct(b.hdr, off * FDT_TAGSIZE, n * FDT_TAGSIZE,
                                  Len(new) * FDT_TAGSIZE)
           vs == SubSeq(b.words, 1, off) \o new
                    \o SubSeq(b.words, off + n + 1, Len(b.words))
           c == [b EXCEPT !.hdr = s.hdr, !.words = vs]
<1>1. splice_words(b, off, n, new).fdt = IF s.ret # 0 THEN b ELSE c
  BY DEF splice_words, Err
<1>2. c = [hdr |-> s.hdr, nrsv |-> b.nrsv, words |-> vs, strs |-> b.strs]
  <2>1. Fields(b)
    BY DEF Sound, Agrees
  <2> HIDE DEF s, vs
  <2> QED
    BY <2>1, BlobWith
<1>3. c.strs = b.strs
  BY <1>2
<1> HIDE DEF c, s
<1> QED
  BY <1>1, <1>3 DEF SameStrings

\* A new node, when the parent is one or none is found.
LEMMA AddSubnodePuts ==
    ASSUME NEW b, Sound(b), NEW parent \in Int, parent >= 0,
           NEW name, Len(name) \in Nat
    PROVE  LET r == fdt_add_subnode(b, parent, name)
           IN  /\ Blobs(r) /\ SameStrings(b, r.fdt)
               /\ fdt_subnode_offset(b, parent, name) >= 0 => r.fdt = b
               /\ \/ r.ret \in Int /\ r.ret < 0 /\ r.fdt = b
                  \/ \E next \in Int :
                        /\ IsNode(b, parent, next) /\ r.ret = after_props(b, next)
                        /\ Puts(b, r.fdt, r.ret, 0, NewNode(name))
<1> DEFINE new == NewNode(name)
           found == fdt_subnode_offset(b, parent, name)
           off == after_props(b, fdt_next_tag(b, parent).next)
           s == splice_words(b, off, 0, new)
           put == [s EXCEPT !.ret = IF @ # 0 THEN @ ELSE off]
           r == IF found >= 0 THEN Err(b, -FDT_ERR_EXISTS)
                ELSE IF found # -FDT_ERR_NOTFOUND THEN Err(b, found)
                ELSE put
           Done1(x) == \/ x.ret \in Int /\ x.ret < 0 /\ x.fdt = b
                       \/ \E next \in Int :
                             /\ IsNode(b, parent, next)
                             /\ x.ret = after_props(b, next)
                             /\ Puts(b, x.fdt, x.ret, 0, new)
<1>0. Block(b.words) /\ Len(b.words) \in Nat
  BY BlockMeans DEF Sound, Agrees
<1>1. found \in Int /\ (found = -FDT_ERR_NOTFOUND
                            => \E next \in Int : IsNode(b, parent, next))
  BY <1>0, SubnodeMissing
<1>2. fdt_add_subnode(b, parent, name) = RwCall(b, r)
  <2>1. FDT_ERR_NOTFOUND = 1
    BY DEF FDT_ERR_NOTFOUND
  <2> DEFINE add(f) ==
                CASE f >= 0 -> Err(b, -FDT_ERR_EXISTS)
                  [] f < 0 /\ f # -FDT_ERR_NOTFOUND -> Err(b, f)
                  [] f = -FDT_ERR_NOTFOUND /\ parent < 0 -> AddAtError(b, new)
                  [] f = -FDT_ERR_NOTFOUND /\ parent >= 0 -> put
  <2>2. fdt_add_subnode(b, parent, name) = RwCall(b, add(found))
    BY DEF fdt_add_subnode, NewNode
  <2>3. add(found) = r
    <3> HIDE DEF found, put, new
    <3> QED
      BY <1>1, <2>1
  <2> HIDE DEF add, r, found
  <2> QED
    BY <2>2, <2>3
<1>3. Block(new)
  BY NewNodeWords
<1> HIDE DEF new
<1>4. ASSUME found >= 0 \/ found # -FDT_ERR_NOTFOUND
      PROVE  Blobs(r) /\ r.ret \in Int /\ r.ret < 0 /\ r.fdt = b
  <2>1. CASE found >= 0
    <3>1. /\ r = Err(b, -FDT_ERR_EXISTS)
          /\ -FDT_ERR_EXISTS \in Int /\ -FDT_ERR_EXISTS < 0
      BY <2>1 DEF FDT_ERR_EXISTS
    <3> HIDE DEF r
    <3> QED
      BY <3>1, ErrBlobs
  <2>2. CASE ~(found >= 0)
    <3>1. r = Err(b, found) /\ found \in Int /\ found < 0
      BY <1>1, <1>4, <2>2
    <3> HIDE DEF r
    <3> QED
      BY <3>1, ErrBlobs
  <2> QED
    BY <2>1, <2>2
<1>5. ASSUME ~(found >= 0 \/ found # -FDT_ERR_NOTFOUND)
      PROVE  Blobs(r) /\ Done1(r) /\ SameStrings(b, r.fdt)
  <2>1. r = put
    BY <1>5
  <2>2. PICK next \in Int : IsNode(b, parent, next)
    BY <1>1, <1>5
  <2>3. fdt_next_tag(b, parent).next = next /\ next \in 0 .. Len(b.words)
    BY <1>0, <2>2 DEF IsNode
  <2>4. off \in 0 .. Len(b.words) /\ off = after_props(b, next)
    BY <1>0, <2>3, PlaceBehind
  <2>5. off \in Nat /\ 0 \in Nat /\ off + 0 <= Len(b.words)
    BY <1>0, <2>4
  <2> HIDE DEF off, r
  <2>6. /\ Blobs(s) /\ s.ret \in Int
        /\ \/ s.ret < 0 /\ s.fdt = b
           \/ s.ret = 0 /\ Puts(b, s.fdt, off, 0, new)
    BY <1>3, <2>5, SplicePuts
  <2>10. SameStrings(b, s.fdt)
    BY SpliceStrings
  <2> HIDE DEF s
  <2> DEFINE x == s.ret
             y == s.fdt
             e == IF x # 0 THEN x ELSE off
  <2>7. put = [ret |-> e, fdt |-> y]
    <3>1. s = [ret |-> x, fdt |-> y]
      BY <2>6 DEF Blobs
    <3>2. [[ret |-> x, fdt |-> y] EXCEPT !.ret = e] = [ret |-> e, fdt |-> y]
      <4> HIDE DEF x, y, e
      <4> QED
        OBVIOUS
    <3>3. put = [s EXCEPT !.ret = e]
      OBVIOUS
    <3> QED
      BY <3>1, <3>2, <3>3
  <2>8. put.ret = e /\ put.fdt = y /\ Blobs(put)
    BY <2>6, <2>7 DEF Blobs
  <2> HIDE DEF put
  <2>9. Done1(put)
    <3>1. CASE x < 0 /\ y = b
      BY <2>6, <2>8, <3>1
    <3>2. CASE x = 0 /\ Puts(b, y, off, 0, new)
      <4>1. put.ret = off /\ Puts(b, put.fdt, put.ret, 0, new)
        BY <2>8, <3>2
      <4> QED
        BY <2>2, <2>4, <4>1
    <3> QED
      BY <2>6, <3>1, <3>2
  <2> QED
    BY <2>1, <2>8, <2>9, <2>10
<1>6. Blobs(r) /\ Done1(r) /\ SameStrings(b, r.fdt) /\ (found >= 0 => r.fdt = b)
  <2>1. found >= 0 => found # -FDT_ERR_NOTFOUND
    BY <1>1 DEF FDT_ERR_NOTFOUND
  <2> HIDE DEF r, found
  <2>2. CASE found >= 0 \/ found # -FDT_ERR_NOTFOUND
    BY <1>4, <2>2 DEF SameStrings
  <2>3. CASE ~(found >= 0 \/ found # -FDT_ERR_NOTFOUND)
    BY <1>5, <2>3
  <2> QED
    BY <2>2, <2>3
<1> HIDE DEF r
<1>7. RwCall(b, r) = r
  BY <1>6, CalledBlobs
<1> QED
  BY <1>2, <1>6, <1>7 DEF new, found

LEMMA AddSubnodeBehind ==
    ASSUME NEW b, Sound(b), NEW parent \in Int, parent >= 0,
           NEW name, Len(name) \in Nat
    PROVE  Behind(b, fdt_add_subnode(b, parent, name).fdt, parent)
<1> DEFINE r == fdt_add_subnode(b, parent, name)
<1>1. \/ r.fdt = b
      \/ \E next \in Int : /\ IsNode(b, parent, next)
                           /\ Puts(b, r.fdt, after_props(b, next), 0, NewNode(name))
  BY AddSubnodePuts
<1> HIDE DEF r
<1>2. CASE r.fdt = b
  BY <1>2 DEF Behind, r
<1>3. ASSUME NEW next \in Int, IsNode(b, parent, next),
             Puts(b, r.fdt, after_props(b, next), 0, NewNode(name))
      PROVE  Behind(b, r.fdt, parent)
  <2> DEFINE off == after_props(b, next)
             Q == {o \in Nat : o >= next}
  <2>1. next \in Nat /\ next > parent
    BY <1>3 DEF IsNode
  <2>2. off >= next
    <3>1. Block(b.words)
      BY DEF Sound, Agrees
    <3>2. Closed(b, Nat, {"PROP", "NOP"})
      <4> SUFFICES ASSUME NEW q \in Nat, fdt_next_tag(b, q).tag \in {"PROP", "NOP"}
                   PROVE  fdt_next_tag(b, q).next \in Nat
        BY DEF Closed
      <4>1. Answers(b, q, fdt_next_tag(b, q))
        BY <3>1, NextTag
      <4> QED
        BY <3>1, <4>1, BlockMeans DEF Answers
    <3> QED
      BY <2>1, <3>1, <3>2, AfterProps
  <2> HIDE DEF off
  <2>3. off > parent /\ Puts(b, r.fdt, off, 0, NewNode(name)) /\ off \in Nat
    BY <1>3, <2>1, <2>2 DEF off, Puts
  <2> QED
    BY <2>3 DEF Behind
<1> QED
  BY <1>1, <1>2, <1>3 DEF r

-----------------------------------------------------------------------------
(* Offsets found earlier                                                   *)

\* What happens behind a node leaves the nodes up to it where they are.
LEMMA BehindStable ==
    ASSUME NEW b, Sound(b), NEW c, Sound(c), NEW node, node \in NodeOffsets(b),
           Behind(b, c, node), NEW o, o \in NodeOffsets(b), o <= node
    PROVE  o \in NodeOffsets(c) /\ PathAt(c, o) = PathAt(b, o)
<1>0. /\ Len(b.words) \in Nat /\ Len(c.words) \in Nat
      /\ PathsAre(b.words, OpenPath(b.words)) /\ PathsAre(c.words, OpenPath(c.words))
  <2>1. Len(b.words) \in Nat /\ Len(c.words) \in Nat
    BY BlockMeans DEF Sound, Agrees
  <2> QED
    BY <2>1, OpenPathIs
<1>1. /\ o \in 0 .. Len(b.words) - 1 /\ b.words[o + 1].tag = "BEGIN"
      /\ node \in Nat
  BY <1>0 DEF NodeOffsets, At
<1>2. CASE c.words = b.words
  BY <1>2 DEF NodeOffsets, PathAt, At
<1>3. ASSUME NEW off \in Nat, NEW n \in Nat, NEW new, off > node,
             Puts(b, c, off, n, new)
      PROVE  o \in NodeOffsets(c) /\ PathAt(c, o) = PathAt(b, o)
  <2>1. /\ off + n <= Len(b.words) /\ Len(new) \in Nat
        /\ IsSplice(c.words, b.words, off, n, new)
    BY <1>3, BlockMeans DEF Puts
  <2>2. \A k \in 0 .. off : OpenPath(c.words)[k] = OpenPath(b.words)[k]
    <3> DEFINE p == OpenPath(b.words)
               q == OpenPath(c.words)
    <3>1. PathsAre(b.words, p) /\ PathsAre(c.words, q)
      BY <1>0
    <3> HIDE DEF p, q
    <3>2. \A k \in 0 .. off : q[k] = p[k]
      BY <1>0, <2>1, <3>1, SplicedHead
    <3> QED
      BY <3>2 DEF p, q
  <2>3. o + 1 \in 0 .. off /\ o + 1 \in 1 .. Len(c.words) /\ o + 1 <= off
    BY <1>0, <1>1, <1>3, <2>1 DEF IsSplice
  <2>4. c.words[o + 1] = b.words[o + 1]
    BY <2>1, <2>3 DEF IsSplice
  <2>5. o \in 0 .. Len(c.words) - 1
    BY <1>0, <1>1, <2>3
  <2> QED
    BY <1>1, <2>2, <2>3, <2>4, <2>5 DEF NodeOffsets, At, PathAt
<1> QED
  BY <1>2, <1>3 DEF Behind

LEMMA EditPropBehind ==
    ASSUME Sound(fdt), NEW n \in Int, EditProp(n)
    PROVE  Behind(fdt, fdt', n)
<1>1. PICK p \in PropNames :
         DelProp(n, p) \/ \E v \in Vals : SetProp(n, p, v) \/ AppendProp(n, p, v)
  BY DEF EditProp
<1>2. Len(p) \in Nat
  BY NamesAssumption
<1>3. CASE DelProp(n, p)
  BY <1>3, DelPropBehind DEF DelProp
<1>4. ASSUME NEW v \in Vals, SetProp(n, p, v) PROVE Behind(fdt, fdt', n)
  <2>1. Behind(fdt, fdt_setprop(fdt, n, p, v).fdt, n)
    BY <1>2, ValsAssumption, SetPropBehind
  <2> QED
    BY <1>4, <2>1 DEF SetProp
<1>5. ASSUME NEW v \in Vals, AppendProp(n, p, v) PROVE Behind(fdt, fdt', n)
  <2>1. Behind(fdt, fdt_appendprop(fdt, n, p, v).fdt, n)
    BY <1>2, ValsAssumption, AppendPropBehind
  <2> QED
    BY <1>5, <2>1 DEF AppendProp
<1> QED
  BY <1>1, <1>3, <1>4, <1>5

\* EarlierOffsetsStable, of one step.
LEMMA EarlierOffsetsStep ==
    ASSUME Sound(fdt), Sound(fdt'), NEW n \in NodeOffsets(fdt),
           EditProp(n) \/ \E name \in Names : AddSubnode(n, name),
           NEW o \in NodeOffsets(fdt), o <= n
    PROVE  o \in NodeOffsets(fdt') /\ PathAt(fdt', o) = PathAt(fdt, o)
<1>1. n \in Int /\ n >= 0
  BY BlockMeans DEF NodeOffsets, Sound, Agrees
<1>2. ASSUME NEW name \in Names, AddSubnode(n, name) PROVE Behind(fdt, fdt', n)
  <2>1. Len(name) \in Nat
    BY NamesAssumption
  <2>2. Behind(fdt, fdt_add_subnode(fdt, n, name).fdt, n)
    BY <1>1, <2>1, AddSubnodeBehind
  <2> QED
    BY <1>2, <2>2 DEF AddSubnode
<1>3. Behind(fdt, fdt', n)
  BY <1>1, <1>2, EditPropBehind
<1> QED
  BY <1>3, BehindStable

\* An edit of a node, or of its properties, moves neither it nor anything in
\* front of it: the offset of the pin controller that fdt_add_pinctrl_group
\* keeps over its loop stays that of the pin controller.
THEOREM RwEarlierOffsetsStable == Spec => EarlierOffsetsStable
<1> DEFINE A == \A n \in NodeOffsets(fdt) :
                   (EditProp(n) \/ \E name \in Names : AddSubnode(n, name)) =>
                       \A o \in NodeOffsets(fdt) : o <= n =>
                           /\ o \in NodeOffsets(fdt')
                           /\ PathAt(fdt', o) = PathAt(fdt, o)
<1>1. Sound(fdt) /\ Sound(fdt)' => A
  BY EarlierOffsetsStep
<1>2. [][A]_vars => EarlierOffsetsStable
  BY DEF EarlierOffsetsStable
<1> HIDE DEF A
<1>3. Sound(fdt) /\ [Next]_vars => [A]_vars
  BY <1>1, SoundStep
<1> QED
  BY <1>2, <1>3, SoundAlways, PTL DEF Spec

-----------------------------------------------------------------------------
(* The offset of a new node                                                *)

\* Where there is a node, the block is nested.
LEMMA NodesNest ==
    ASSUME NEW b, Sound(b), Shaped(b.words), NEW node \in NodeOffsets(b)
    PROVE  Nested(b.words)
<1>1. node \in 0 .. Len(b.words) - 1 /\ At(b, node).tag = "BEGIN" /\ Block(b.words)
  BY DEF NodeOffsets, Sound, Agrees
<1> QED
  BY <1>1, NotRootless DEF Shaped

\* The new node is below its parent, where only properties are in between.
LEMMA AddedNodePath ==
    ASSUME NEW b, Sound(b), NEW c, Sound(c), Nested(b.words), NEW name,
           Len(name) \in Nat, NEW node, NEW next, IsNode(b, node, next),
           NEW off, off = after_props(b, next), Puts(b, c, off, 0, NewNode(name))
    PROVE  PathAt(c, off) = Append(PathAt(b, node), name)
<1> DEFINE p == OpenPath(b.words)
           q == OpenPath(c.words)
           new == NewNode(name)
<1>0. /\ Block(b.words) /\ Len(b.words) \in Nat /\ Len(c.words) \in Nat
      /\ PathsAre(b.words, p) /\ PathsAre(c.words, q)
  <2>1. Block(b.words) /\ Len(b.words) \in Nat /\ Len(c.words) \in Nat
    BY BlockMeans DEF Sound, Agrees
  <2> QED
    BY <2>1, OpenPathIs
<1>1. off \in Near(b, node)
  BY <1>0, PlaceNear
<1>2. node \in Nat /\ node < off /\ off \in Nat /\ off <= Len(b.words)
      /\ Quiet(b.words, node + 1, off)
  BY <1>0, <1>1 DEF Near, IsNode, Puts
<1>3. /\ Len(new) \in Nat /\ Len(new) > 1 /\ new[1] = Begin(name)
  <2>1. Len(new) = tag_words(Begin(name)) + 1 /\ new[1] = Begin(name)
    BY NewNodeWords
  <2>2. tag_words(Begin(name)) \in Nat \ {0}
    BY NewTags, NoValue, TagWords
  <2> HIDE DEF new
  <2> QED
    BY <2>1, <2>2
<1>4. IsSplice(c.words, b.words, off, 0, new) /\ off + 0 <= Len(b.words) /\ 0 \in Nat
  BY DEF Puts
<1> HIDE DEF p, q, new
<1>5. p[off] = p[node + 1]
  <2>1. node + 1 \in Nat /\ node + 1 <= off /\ off \in node + 1 .. off
    BY <1>2
  <2> QED
    BY <1>0, <1>2, <2>1, PathsQuiet
<1>6. q[off] = p[off]
  <2>1. \A k \in 0 .. off : q[k] = p[k]
    BY <1>0, <1>2, <1>3, <1>4, SplicedHead
  <2> QED
    BY <1>2, <2>1
<1>7. off + 1 \in 1 .. Len(c.words) /\ c.words[off + 1] = Begin(name)
  <2>1. off + 1 \in 1 .. Len(c.words) /\ ~(off + 1 <= off) /\ off + 1 <= off + Len(new)
        /\ (off + 1) - off = 1
    BY <1>0, <1>2, <1>3, <1>4 DEF IsSplice
  <2> QED
    BY <1>3, <1>4, <2>1 DEF IsSplice
<1>8. q[off + 1] = Append(q[off], name)
  <2>1. Begin(name).tag = "BEGIN" /\ Begin(name).name = name /\ (off + 1) - 1 = off
    BY <1>2 DEF Begin, Word
  <2> QED
    BY <1>0, <1>7, <2>1 DEF PathsAre
<1> QED
  BY <1>5, <1>6, <1>8 DEF PathAt, p, q

\* AddSubnodeReturnsIt, of one step.
LEMMA AddSubnodeReturnsStep ==
    ASSUME Sound(fdt), Sound(fdt'), Shaped(fdt.words), NEW n \in NodeOffsets(fdt),
           NEW name \in Names, AddSubnode(n, name),
           fdt_add_subnode(fdt, n, name).ret >= 0
    PROVE  PathAt(fdt', fdt_add_subnode(fdt, n, name).ret)
              = Append(PathAt(fdt, n), name)
<1> DEFINE r == fdt_add_subnode(fdt, n, name)
<1>1. n \in Int /\ n >= 0 /\ Len(name) \in Nat /\ Nested(fdt.words)
  BY NodesNest, BlockMeans, NamesAssumption DEF NodeOffsets, Sound, Agrees
<1>2. (r.ret \in Int /\ r.ret < 0) \/ \E next \in Int :
         /\ IsNode(fdt, n, next) /\ r.ret = after_props(fdt, next)
         /\ Puts(fdt, r.fdt, r.ret, 0, NewNode(name))
  BY <1>1, AddSubnodePuts
<1>3. fdt' = r.fdt /\ r.ret >= 0
  BY DEF AddSubnode
<1> HIDE DEF r
<1>4. CASE r.ret \in Int /\ r.ret < 0
  <2>1. \A x \in Int : ~(x < 0 /\ x >= 0)
    OBVIOUS
  <2> QED
    BY <1>3, <1>4, <2>1
<1>5. ASSUME NEW next \in Int, IsNode(fdt, n, next),
             r.ret = after_props(fdt, next),
             Puts(fdt, r.fdt, r.ret, 0, NewNode(name))
      PROVE  PathAt(fdt', r.ret) = Append(PathAt(fdt, n), name)
  BY <1>1, <1>3, <1>5, AddedNodePath
<1> QED
  BY <1>2, <1>4, <1>5 DEF r

\* fdt_add_subnode returns the offset of the node it has added, which is the
\* child of that name of the node it was given.
THEOREM RwAddSubnodeReturnsIt ==
    ASSUME UnseenError = FALSE PROVE Spec => AddSubnodeReturnsIt
<1> DEFINE A == \A n \in NodeOffsets(fdt), name \in Names :
                  LET r == fdt_add_subnode(fdt, n, name)
                  IN  AddSubnode(n, name) /\ r.ret >= 0 =>
                         PathAt(fdt', r.ret) = Append(PathAt(fdt, n), name)
<1>1. Sound(fdt) /\ Sound(fdt)' /\ Shaped(fdt.words) => A
  BY AddSubnodeReturnsStep
<1>2. [][A]_vars => AddSubnodeReturnsIt
  BY DEF AddSubnodeReturnsIt
<1> HIDE DEF A
<1>3. Sound(fdt) /\ Shaped(fdt.words) /\ [Next]_vars => [A]_vars
  BY <1>1, SoundStep
<1>4. Init => Shaped(fdt.words)
  BY InitOpens DEF Shaped
<1>5. Sound(fdt) /\ Shaped(fdt.words) /\ [Next]_vars => Shaped(fdt.words)'
  BY ShapedStep
<1> QED
  BY <1>2, <1>3, <1>4, <1>5, SoundAlways, PTL DEF Spec

-----------------------------------------------------------------------------
(* Editing in place                                                        *)

\* No node is in new, and none is opened or closed by what was there.
LEMMA OverwrittenPaths ==
    ASSUME NEW b, Sound(b), NEW c, Sound(c), NEW off \in Nat, NEW n \in Nat,
           NEW new, Len(new) = n, Puts(b, c, off, n, new), Quiet(new, 0, n),
           OpenPath(b.words)[off + n] = OpenPath(b.words)[off],
           NEW o \in NodeOffsets(c)
    PROVE  o \in NodeOffsets(b) /\ PathAt(c, o) = PathAt(b, o)
<1> DEFINE p == OpenPath(b.words)
           q == OpenPath(c.words)
<1>0. /\ Len(b.words) \in Nat /\ Len(c.words) \in Nat
      /\ PathsAre(b.words, p) /\ PathsAre(c.words, q)
  <2>1. Len(b.words) \in Nat /\ Len(c.words) \in Nat
    BY BlockMeans DEF Sound, Agrees
  <2> QED
    BY <2>1, OpenPathIs
<1>1. /\ IsSplice(c.words, b.words, off, n, new) /\ off + n <= Len(b.words)
      /\ Len(c.words) = Len(b.words) /\ p[off + n] = p[off]
  BY <1>0 DEF Puts, IsSplice
<1>2. o + 1 \in 1 .. Len(c.words) /\ c.words[o + 1].tag = "BEGIN" /\ o \in Int
  BY <1>0 DEF NodeOffsets, At
<1> HIDE DEF p, q
<1>3. \A k \in 0 .. off : q[k] = p[k]
  BY <1>0, <1>1, SplicedHead
<1>4. \A k \in off + 1 .. off + n : c.words[k] = new[k - off] /\ k - off \in 0 + 1 .. n
  <2> SUFFICES ASSUME NEW k \in off + 1 .. off + n
               PROVE  c.words[k] = new[k - off] /\ k - off \in 0 + 1 .. n
    OBVIOUS
  <2>1. k \in 1 .. Len(c.words) /\ ~(k <= off) /\ k <= off + Len(new)
        /\ k - off \in 0 + 1 .. n
    BY <1>0, <1>1
  <2> QED
    BY <1>1, <2>1 DEF IsSplice
<1>5. Quiet(c.words, off, off + n)
  BY <1>4 DEF Quiet
<1>6. q[off + n] = p[off + n]
  <2>1. q[off + n] = q[off]
    <3>1. off + n \in Nat /\ off <= off + n /\ off + n <= Len(c.words)
          /\ off + n \in off .. off + n
      BY <1>1
    <3> QED
      BY <1>0, <1>5, <3>1, PathsQuiet
  <2> QED
    BY <1>1, <1>3, <2>1
<1>7. \A k \in off + n .. Len(c.words) : q[k] = p[k]
  <2>1. Follows(q, p, off, Len(new), n, Len(c.words))
    <3>1. /\ Len(b.words) \in Nat /\ PathsAre(b.words, p) /\ PathsAre(c.words, q)
          /\ off + n <= Len(b.words) /\ Len(new) \in Nat
          /\ IsSplice(c.words, b.words, off, n, new)
          /\ q[off + Len(new)] = p[off + n]
      BY <1>0, <1>1, <1>6
    <3> QED
      BY ONLY <3>1, SplicedTail, off \in Nat, n \in Nat, Zenon
  <2>2. \A k \in off + n .. Len(c.words) : k - n + n = k
    OBVIOUS
  <2> QED
    BY <2>1, <2>2 DEF Follows
<1>8. o + 1 <= off \/ o + 1 > off + n
  <2>1. ASSUME o + 1 \in off + 1 .. off + n PROVE FALSE
    BY <1>2, <1>5, <2>1 DEF Quiet
  <2> QED
    BY <1>2, <2>1
<1>9. c.words[o + 1] = b.words[o + 1]
  <2>1. o + 1 <= off \/ (~(o + 1 <= off) /\ ~(o + 1 <= off + Len(new))
                          /\ (o + 1) - Len(new) + n = o + 1)
    BY <1>2, <1>8
  <2> QED
    BY <1>1, <1>2, <2>1 DEF IsSplice
<1>10. q[o + 1] = p[o + 1]
  <2>1. o + 1 \in 0 .. off \/ o + 1 \in off + n .. Len(c.words)
    BY <1>2, <1>8
  <2> QED
    BY <1>3, <1>7, <2>1
<1>11. o \in 0 .. Len(b.words) - 1
  BY <1>0, <1>1, <1>2
<1> QED
  BY <1>2, <1>9, <1>10, <1>11 DEF NodeOffsets, At, PathAt, p, q

\* The node that is open is the same where nothing is opened or closed.
LEMMA QuietPath ==
    ASSUME NEW b, Sound(b), NEW off \in Nat, NEW n \in Nat,
           off + n <= Len(b.words), Quiet(b.words, off, off + n)
    PROVE  OpenPath(b.words)[off + n] = OpenPath(b.words)[off]
<1>1. Len(b.words) \in Nat /\ off + n \in Nat /\ off <= off + n
      /\ off + n \in off .. off + n
  BY BlockMeans DEF Sound, Agrees
<1> DEFINE p == OpenPath(b.words)
<1>2. PathsAre(b.words, p)
  BY <1>1, OpenPathIs
<1> HIDE DEF p
<1>3. p[off + n] = p[off]
  BY <1>1, <1>2, PathsQuiet
<1> QED
  BY <1>3 DEF p

\* The words of a property that is found, or some of them.
LEMMA PropertyQuiet ==
    ASSUME NEW b, Sound(b), Nested(b.words), NEW node \in Int, NEW name,
           fdt_get_property(b, node, name) >= 0
    PROVE  LET p == fdt_get_property(b, node, name)
           IN  Quiet(b.words, p, p + tag_words(At(b, p)))
<1> DEFINE p == fdt_get_property(b, node, name)
           n == tag_words(At(b, p))
<1>1. /\ p \in 0 .. Len(b.words) - 1 /\ At(b, p).tag = "PROP"
      /\ p \in Starts(b.words) /\ n \in Nat /\ Block(b.words)
  BY FoundProperty DEF Sound, Agrees
<1> HIDE DEF p
<1>2. Quiet(b.words, p + 1, p + n)
  BY <1>1, TagQuiet
<1>3. b.words[p + 1].tag = "PROP"
  BY <1>1 DEF At
<1> HIDE DEF n
<1>4. Quiet(b.words, p, p + n)
  <2> SUFFICES ASSUME NEW k \in p + 1 .. p + n
               PROVE  b.words[k].tag \notin {"BEGIN", "END_NODE"}
    BY DEF Quiet
  <2>1. k = p + 1 \/ k \in (p + 1) + 1 .. p + n
    BY <1>1
  <2> QED
    BY <1>2, <1>3, <2>1 DEF Quiet
<1> QED
  BY <1>4 DEF p, n

\* What a call of fdt_wip.c does.
InPlace(b, c) ==
    \A o \in NodeOffsets(c) : o \in NodeOffsets(b) /\ PathAt(c, o) = PathAt(b, o)

LEMMA NopPropertyInPlace ==
    ASSUME NEW b, Sound(b), Nested(b.words), NEW node \in Int, NEW name
    PROVE  InPlace(b, fdt_nop_property(b, node, name).fdt)
<1> DEFINE p == fdt_get_property(b, node, name)
           n == tag_words(At(b, p))
           c == Overwrite(b, p, Nops(n))
<1>0. fdt_nop_property(b, node, name)
         = (IF p < 0 THEN Err(b, p) ELSE [ret |-> 0, fdt |-> c])
      /\ p \in Int /\ Block(b.words)
  BY PropertyTag DEF fdt_nop_property, Sound, Agrees
<1>1. CASE p < 0
  BY <1>0, <1>1 DEF Err, InPlace
<1>2. CASE p >= 0
  <2>1. p + n <= Len(b.words) /\ n \in Nat /\ Quiet(b.words, p, p + n) /\ p \in Nat
    BY <1>0, <1>2, FoundProperty, PropertyQuiet
  <2> HIDE DEF p, n
  <2>2. /\ Block(Nops(n)) /\ Len(Nops(n)) = n /\ Quiet(Nops(n), 0, n)
    <3>1. Block(Nops(n)) /\ Len(Nops(n)) = n /\ \A k \in 1 .. n : Nops(n)[k] = Nop
      BY <2>1, NopWords
    <3>2. Nop.tag = "NOP" /\ 0 + 1 = 1
      BY DEF Nop, Word
    <3> QED
      BY <3>1, <3>2 DEF Quiet
  <2>3. Sound(c) /\ Puts(b, c, p, n, Nops(n))
    <3>1. LET r == [ret |-> 0, fdt |-> Overwrite(b, p, Nops(n))]
          IN  Answer(b, r) /\ IsSplice(r.fdt.words, b.words, p, Len(Nops(n)), Nops(n))
      BY <2>1, <2>2, OverwriteAnswers
    <3> QED
      BY <2>1, <2>2, <3>1 DEF Answer, Puts
  <2>4. OpenPath(b.words)[p + n] = OpenPath(b.words)[p]
    BY <2>1, QuietPath
  <2> DEFINE new == Nops(n)
  <2> HIDE DEF c, new
  <2>5. Len(new) = n /\ Quiet(new, 0, n) /\ Puts(b, c, p, n, new)
    BY <2>2, <2>3 DEF new
  <2>6. InPlace(b, c)
    BY <2>1, <2>3, <2>4, <2>5, OverwrittenPaths DEF InPlace
  <2> QED
    BY <1>0, <1>2, <2>6
<1> QED
  BY <1>0, <1>1, <1>2

LEMMA SetPropInPlace ==
    ASSUME NEW b, Sound(b), Nested(b.words), NEW node \in Int, NEW name,
           NEW val, IsValue(val), Len(name) \in Nat
    PROVE  InPlace(b, fdt_setprop_inplace(b, node, name, val).fdt)
<1> DEFINE p == fdt_get_property(b, node, name)
           n == tag_words(At(b, p))
           w == Prop(name, val)
           new == <<w>>
           c == Overwrite(b, p, new)
<1>0. p \in Int /\ Block(b.words)
  BY PropertyTag DEF Sound, Agrees
<1>1. fdt_setprop_inplace(b, node, name, val) =
        IF p < 0 THEN Err(b, p)
        ELSE IF val_len(At(b, p).val) # val_len(val) THEN Err(b, -FDT_ERR_NOSPACE)
        ELSE [ret |-> 0, fdt |-> c]
  BY <1>0 DEF fdt_setprop_inplace
<1>2. CASE p < 0 \/ val_len(At(b, p).val) # val_len(val)
  BY <1>1, <1>2 DEF Err, InPlace
<1>3. CASE p >= 0 /\ val_len(At(b, p).val) = val_len(val)
  <2>1. /\ p + n <= Len(b.words) /\ n \in Nat \ {0} /\ p \in Nat
        /\ Quiet(b.words, p, p + n)
    <3>1. p \in 0 .. Len(b.words) - 1 /\ p + n <= Len(b.words) /\ IsWord(At(b, p))
      BY <1>3, FoundProperty
    <3>2. n \in Nat \ {0}
      BY <3>1, TagWords
    <3>3. Quiet(b.words, p, p + n)
      BY <1>3, PropertyQuiet
    <3> QED
      BY <1>0, <1>3, <3>1, <3>2, <3>3
  <2>2. IsWord(w) /\ w.tag = "PROP"
    BY NewTags DEF Prop, Word
  <2> HIDE DEF p, n, w
  <2>3. Block(new) /\ Len(new) = 1 /\ new[1] = w
    <3>1. <<w>> \in Seq({w})
      OBVIOUS
    <3>2. new \in Seq({w}) /\ DOMAIN new = {1} /\ new[1] = w /\ Len(new) = 1
      BY <3>1
    <3> HIDE DEF new
    <3>3. Block(new)
      BY <2>2, <3>2, SeqIs DEF Block
    <3> QED
      BY <3>2, <3>3
  <2> HIDE DEF new
  <2>4. Quiet(new, 0, 1)
    <3>1. \A k \in 0 + 1 .. 1 : k = 1
      OBVIOUS
    <3> QED
      BY <2>2, <2>3, <3>1 DEF Quiet
  <2>5. p + 1 <= Len(b.words) /\ Quiet(b.words, p, p + 1) /\ 1 \in Nat
    BY <2>1 DEF Quiet
  <2>6. Sound(c) /\ Puts(b, c, p, 1, new)
    <3>1. LET r == [ret |-> 0, fdt |-> Overwrite(b, p, new)]
          IN  Answer(b, r) /\ IsSplice(r.fdt.words, b.words, p, Len(new), new)
      BY <2>1, <2>3, <2>5, OverwriteAnswers
    <3> QED
      BY <2>1, <2>3, <2>5, <3>1 DEF Answer, Puts
  <2>7. OpenPath(b.words)[p + 1] = OpenPath(b.words)[p]
    BY <2>1, <2>5, QuietPath
  <2> HIDE DEF c
  <2>8. InPlace(b, c)
    BY <2>1, <2>3, <2>4, <2>5, <2>6, <2>7, OverwrittenPaths DEF InPlace
  <2>9. ~(p < 0)
    BY <2>1
  <2> QED
    BY <1>1, <1>3, <2>8, <2>9
<1> QED
  BY <1>0, <1>2, <1>3

LEMMA NopNodeInPlace ==
    ASSUME NEW b, Sound(b), Nested(b.words), NEW node \in Int
    PROVE  InPlace(b, fdt_nop_node(b, node).fdt)
<1> DEFINE e == fdt_node_end_offset(b, node)
           n == e - node
           c == Overwrite(b, node, Nops(n))
<1>0. fdt_nop_node(b, node) = (IF e < 0 THEN Err(b, e) ELSE [ret |-> 0, fdt |-> c])
      /\ e \in Int /\ Block(b.words) /\ Len(b.words) \in Nat
  BY EndBehind, BlockMeans DEF fdt_nop_node, Sound, Agrees
<1>1. CASE e < 0
  BY <1>0, <1>1 DEF Err, InPlace
<1>2. CASE e >= 0
  <2>1. node \in Nat /\ e \in Nat /\ node <= e /\ e <= Len(b.words)
    BY <1>2, FoundEnd
  <2>2. /\ Depths(b.words)[e] = Depths(b.words)[node]
        /\ Stays(Depths(b.words), node, e - 1)
    BY <1>0, <1>2, EndFound
  <2>3. OpenPath(b.words)[e] = OpenPath(b.words)[node]
    <3> DEFINE d == Depths(b.words)
               p == OpenPath(b.words)
    <3>1. PathsAre(b.words, p) /\ DepthsAre(b.words, d)
      BY <1>0, OpenPathIs, DepthsExist
    <3> HIDE DEF e, d, p
    <3>2. \A k \in node .. e : d[k] >= d[node]
      <4> SUFFICES ASSUME NEW k \in node .. e PROVE d[k] >= d[node]
        OBVIOUS
      <4>1. k \in 0 .. Len(b.words) /\ node \in 0 .. Len(b.words)
            /\ (k = node \/ k = e \/ k \in node + 1 .. e - 1)
        BY <1>0, <2>1
      <4>2. d[k] \in Int /\ d[node] \in Int
        BY <3>1, <4>1 DEF DepthsAre
      <4>3. d[k] = d[node] \/ d[k] > d[node]
        BY <2>2, <4>1 DEF Stays, d
      <4> QED
        BY <4>2, <4>3
    <3>3. p[e] = p[node]
      BY <1>0, <2>1, <2>2, <3>1, <3>2, PathsBack DEF d
    <3> QED
      BY <3>3 DEF p
  <2> HIDE DEF e
  <2>4. n \in Nat /\ node + n = e /\ node + n <= Len(b.words)
    BY <2>1
  <2> HIDE DEF n
  <2>5. /\ Block(Nops(n)) /\ Len(Nops(n)) = n /\ Quiet(Nops(n), 0, n)
    <3>1. Block(Nops(n)) /\ Len(Nops(n)) = n /\ \A k \in 1 .. n : Nops(n)[k] = Nop
      BY <2>4, NopWords
    <3>2. Nop.tag = "NOP" /\ 0 + 1 = 1
      BY DEF Nop, Word
    <3> QED
      BY <3>1, <3>2 DEF Quiet
  <2>6. Sound(c) /\ Puts(b, c, node, n, Nops(n))
    <3>1. LET r == [ret |-> 0, fdt |-> Overwrite(b, node, Nops(n))]
          IN  /\ Answer(b, r)
              /\ IsSplice(r.fdt.words, b.words, node, Len(Nops(n)), Nops(n))
      BY <2>1, <2>4, <2>5, OverwriteAnswers
    <3> QED
      BY <2>1, <2>4, <2>5, <3>1 DEF Answer, Puts
  <2>7. OpenPath(b.words)[node + n] = OpenPath(b.words)[node]
    BY <2>3, <2>4
  <2> DEFINE new == Nops(n)
  <2> HIDE DEF c, new
  <2>8. Len(new) = n /\ Quiet(new, 0, n) /\ Puts(b, c, node, n, new)
    BY <2>5, <2>6 DEF new
  <2>9. InPlace(b, c)
    BY <2>1, <2>4, <2>6, <2>7, <2>8, OverwrittenPaths DEF InPlace
  <2>10. ~(e < 0)
    BY <2>1
  <2> QED
    BY <1>0, <2>9, <2>10
<1> QED
  BY <1>0, <1>1, <1>2

\* InPlaceKeepsOffsets, of one step.
LEMMA InPlaceStep ==
    ASSUME Sound(fdt), Shaped(fdt.words), NEW n \in NodeOffsets(fdt), EditInPlace(n)
    PROVE  InPlace(fdt, fdt')
<1>1. n \in Int /\ Nested(fdt.words)
  BY NodesNest, BlockMeans DEF NodeOffsets, Sound, Agrees
<1>2. ASSUME NEW p \in PropNames, NopProperty(n, p) PROVE InPlace(fdt, fdt')
  BY <1>1, <1>2, NopPropertyInPlace DEF NopProperty
<1>3. ASSUME NEW p \in PropNames, NEW v \in Vals, SetPropInplace(n, p, v)
      PROVE  InPlace(fdt, fdt')
  <2>1. Len(p) \in Nat /\ IsValue(v)
    BY NamesAssumption, ValsAssumption
  <2>2. InPlace(fdt, fdt_setprop_inplace(fdt, n, p, v).fdt)
    BY <1>1, <2>1, SetPropInPlace
  <2> QED
    BY <1>3, <2>2 DEF SetPropInplace
<1>4. CASE NopNode(n)
  BY <1>1, <1>4, NopNodeInPlace DEF NopNode
<1> QED
  BY <1>2, <1>3, <1>4 DEF EditInPlace

\* fdt_nop_property, fdt_setprop_inplace and fdt_nop_node move no node: each
\* that is there afterwards was there, at that offset.
THEOREM RwInPlaceKeepsOffsets ==
    ASSUME UnseenError = FALSE PROVE Spec => InPlaceKeepsOffsets
<1> DEFINE A == \A n \in NodeOffsets(fdt) : EditInPlace(n) =>
                   \A o \in NodeOffsets(fdt') :
                       /\ o \in NodeOffsets(fdt)
                       /\ PathAt(fdt', o) = PathAt(fdt, o)
<1>1. Sound(fdt) /\ Shaped(fdt.words) => A
  BY InPlaceStep DEF InPlace
<1>2. [][A]_vars => InPlaceKeepsOffsets
  BY DEF InPlaceKeepsOffsets
<1> HIDE DEF A
<1>3. Sound(fdt) /\ Shaped(fdt.words) /\ [Next]_vars => [A]_vars
  BY <1>1
<1>4. Init => Shaped(fdt.words)
  BY InitOpens DEF Shaped
<1>5. Sound(fdt) /\ Shaped(fdt.words) /\ [Next]_vars => Shaped(fdt.words)'
  BY ShapedStep
<1> QED
  BY <1>2, <1>3, <1>4, <1>5, SoundAlways, PTL DEF Spec

-----------------------------------------------------------------------------
(* Properties in front of the subnodes, and paths that differ              *)

LEMMA OwnsIs ==
    ASSUME NEW ws, Block(ws), NEW j, NEW k
    PROVE  Owns(ws, j, k) <=> /\ j \in 1 .. Len(ws) /\ k \in 1 .. Len(ws) /\ j < k
                              /\ ws[j].tag = "BEGIN" /\ ws[k].tag = "PROP"
                              /\ Quiet(ws, j, k)
BY BlockMeans DEF Owns, NodeWords, PropWords, Quiet

LEMMA OwnsPath ==
    ASSUME NEW ws, Block(ws), NEW j, NEW k, Owns(ws, j, k)
    PROVE  OpenPath(ws)[k] = OpenPath(ws)[j]
<1> DEFINE p == OpenPath(ws)
<1>1. /\ j \in 1 .. Len(ws) /\ k \in 1 .. Len(ws) /\ j < k /\ Quiet(ws, j, k)
      /\ Len(ws) \in Nat
  BY OwnsIs, BlockMeans
<1>2. PathsAre(ws, p) /\ j \in Nat /\ k \in Nat /\ j <= k /\ k <= Len(ws)
  BY <1>1, OpenPathIs
<1> HIDE DEF p
<1>3. \A i \in j .. k : p[i] = p[j]
  BY <1>1, <1>2, PathsQuiet
<1> QED
  BY <1>2, <1>3 DEF p

\* A property that a node owns is found at the node.
LEMMA OwnedFound ==
    ASSUME NEW b, Sound(b), Nested(b.words), PropsOnce(b.words),
           NEW n \in Nat, NEW k \in Nat, Owns(b.words, n + 1, k + 1)
    PROVE  fdt_get_property(b, n, At(b, k).name) = k
<1> DEFINE ws == b.words
           name == At(b, k).name
           r == fdt_get_property(b, n, name)
<1>1. Block(ws) /\ Len(ws) \in Nat
  BY BlockMeans DEF Sound, Agrees
<1>2. /\ n + 1 \in 1 .. Len(ws) /\ k + 1 \in 1 .. Len(ws) /\ n < k
      /\ At(b, n).tag = "BEGIN" /\ At(b, k).tag = "PROP" /\ Quiet(ws, n + 1, k + 1)
  BY <1>1, OwnsIs DEF At
<1>3. k \in Starts(ws) /\ n \in Starts(ws)
  BY <1>1, <1>2 DEF Starts, At
<1>4. k \in Near(b, n)
  <2>1. Quiet(ws, n + 1, k)
    BY <1>2 DEF Quiet
  <2> QED
    BY <1>2, <1>3, <2>1 DEF Near
<1>5. IsNode(b, n, n + tag_words(At(b, n)))
  BY <1>1, <1>2, <1>3, NodeIs
<1>6. r >= 0
  BY <1>1, <1>2, <1>4, <1>5, PropertyThere
<1>7. r \in Near(b, n) /\ r \in Starts(ws) /\ At(b, r).tag = "PROP" /\ At(b, r).name = name
  <2>1. n \in Int
    OBVIOUS
  <2>2. r \in Near(b, n)
    BY <1>1, <1>6, PropertyNear
  <2>3. At(b, r).tag = "PROP" /\ At(b, r).name = name
    BY <1>1, <1>6, <2>1, PropertyTag
  <2> HIDE DEF r
  <2> QED
    BY <2>2, <2>3 DEF Near
<1> HIDE DEF r
<1>8. r \in Nat /\ n < r /\ r + 1 \in 1 .. Len(ws) /\ Quiet(ws, n + 1, r)
  BY <1>1, <1>7 DEF Near, Starts
<1>9. Owns(ws, n + 1, r + 1)
  <2>1. Quiet(ws, n + 1, r + 1)
    BY <1>7, <1>8 DEF Quiet, At
  <2> QED
    BY <1>1, <1>2, <1>7, <1>8, <2>1, OwnsIs DEF At
<1>10. OpenPath(ws)[r + 1] = OpenPath(ws)[k + 1]
  BY <1>1, <1>9, OwnsPath
<1>11. r + 1 \in PropWords(ws) /\ k + 1 \in PropWords(ws)
  BY <1>9 DEF Owns
<1>12. ws[r + 1].name = ws[k + 1].name
  BY <1>7 DEF At
<1>13. r + 1 = k + 1
  BY <1>10, <1>11, <1>12 DEF PropsOnce
<1> QED
  BY <1>8, <1>13 DEF r

\* The properties of a node are those it owns.
LEMMA AllPropsOwned ==
    ASSUME Sound(fdt), Nested(fdt.words), PropsFirst(fdt.words),
           NEW n \in NodeOffsets(fdt), NEW k \in AllProps(n)
    PROVE  k \in Nat /\ n \in Nat /\ Owns(fdt.words, n + 1, k + 1)
<1> DEFINE ws == fdt.words
           d == Depths(ws)
           e(m) == fdt_node_end_offset(fdt, m)
<1>1. Block(ws) /\ Len(ws) \in Nat /\ DepthsAre(ws, d)
  BY BlockMeans, DepthsExist DEF Sound, Agrees
<1>2. ASSUME NEW m \in NodeOffsets(fdt)
      PROVE  /\ m \in Starts(ws) /\ m \in Nat /\ m < Len(ws) /\ ws[m + 1].tag = "BEGIN"
             /\ e(m) \in Starts(ws) /\ e(m) \in Nat /\ e(m) > m /\ d[e(m)] = d[m]
             /\ e(m) < Len(ws)
  <2>1. m \in Starts(ws) /\ m \in Nat /\ m < Len(ws) /\ At(fdt, m).tag = "BEGIN"
    BY <1>1, <1>2 DEF NodeOffsets, Starts, At
  <2>2. IsNode(fdt, m, m + tag_words(At(fdt, m)))
    BY <1>1, <2>1, NodeIs
  <2>3. e(m) \in Starts(ws) /\ e(m) > m /\ d[e(m)] = d[m]
    BY <1>1, <2>2, EndIs
  <2>4. e(m) \in Nat /\ e(m) < Len(ws)
    BY <1>1, <2>3 DEF Starts
  <2> QED
    BY <2>1, <2>3, <2>4 DEF At
<1> HIDE DEF e
<1>3. /\ k \in n + 1 .. e(n) - 1 /\ At(fdt, k).tag = "PROP"
      /\ \A m \in NodeOffsets(fdt) : m > n /\ m < k => e(m) <= k
  BY DEF AllProps, e
<1>4. n \in Nat /\ k \in Nat /\ k > n /\ k + 1 \in 1 .. Len(ws) /\ ws[k + 1].tag = "PROP"
  BY <1>1, <1>2, <1>3 DEF At
<1>5. k + 1 \in PropWords(ws)
  BY <1>1, <1>4, BlockMeans DEF PropWords
<1>6. PICK j \in NodeWords(ws) : Owns(ws, j, k + 1)
  BY <1>5 DEF PropsFirst
<1>7. /\ j \in 1 .. Len(ws) /\ j < k + 1 /\ ws[j].tag = "BEGIN" /\ Quiet(ws, j, k + 1)
  BY <1>1, <1>6, OwnsIs
<1> DEFINE m == j - 1
<1>8. m \in NodeOffsets(fdt) /\ m < k /\ m \in Nat
  <2>1. j # k + 1 /\ m \in 0 .. Len(ws) - 1 /\ m + 1 = j /\ m < k
    BY <1>1, <1>4, <1>7
  <2> QED
    BY <1>7, <2>1 DEF NodeOffsets, At
<1>9. ~(m > n)
  <2> SUFFICES ASSUME m > n PROVE FALSE
    OBVIOUS
  <2>1. e(m) <= k /\ e(m) > m /\ e(m) \in Nat /\ d[e(m)] = d[m]
    BY <1>2, <1>3, <1>8
  <2>2. Flat(d, j, k + 1)
    BY <1>1, <1>4, <1>7, FlatDepth
  <2>3. d[j] = d[m] + 1
    <3>1. d[j] = d[j - 1] + opens(ws[j]) /\ opens(ws[j]) = 1
      BY <1>1, <1>7, Opens DEF DepthsAre
    <3> QED
      BY <3>1
  <2>4. e(m) \in j .. k + 1
    BY <1>4, <1>7, <2>1
  <2>5. d[e(m)] = d[j]
    BY <2>2, <2>4 DEF Flat
  <2>6. d[m] \in Int
    <3>1. m \in 0 .. Len(ws)
      BY <1>1, <1>7
    <3> QED
      BY <1>1, <3>1 DEF DepthsAre
  <2> HIDE DEF m, d
  <2> QED
    BY <2>1, <2>3, <2>5, <2>6
<1>10. ~(m < n)
  <2> SUFFICES ASSUME m < n PROVE FALSE
    OBVIOUS
  <2>1. n + 1 \in j + 1 .. k + 1 /\ ws[n + 1].tag = "BEGIN"
    BY <1>2, <1>4, <1>7
  <2> QED
    BY <1>7, <2>1 DEF Quiet
<1>11. j = n + 1
  BY <1>4, <1>7, <1>8, <1>9, <1>10
<1> QED
  BY <1>4, <1>6, <1>11

LEMMA TidyReachable ==
    ASSUME Sound(fdt), Shaped(fdt.words), Tidy(fdt) PROVE PropsReachable
<1> SUFFICES ASSUME NEW n \in NodeOffsets(fdt), NEW k \in AllProps(n)
             PROVE  /\ fdt_get_property(fdt, n, At(fdt, k).name) = k
                    /\ fdt_find_string(fdt.strs, At(fdt, k).name)
  BY DEF PropsReachable
<1>1. Nested(fdt.words)
  BY NodesNest
<1>2. n \in Nat /\ k \in Nat /\ Owns(fdt.words, n + 1, k + 1)
  BY <1>1, AllPropsOwned DEF Tidy
<1>3. k + 1 \in PropWords(fdt.words)
  BY <1>2 DEF Owns
<1>4. fdt_find_string(fdt.strs, At(fdt, k).name)
  BY <1>3 DEF Tidy, NamesStored, At
<1> QED
  BY <1>1, <1>2, <1>4, OwnedFound DEF Tidy

LEMMA TidyUnique ==
    ASSUME Sound(fdt), Tidy(fdt) PROVE PathsUnique
<1> SUFFICES ASSUME NEW m \in NodeOffsets(fdt), NEW n \in NodeOffsets(fdt),
                    PathAt(fdt, m) = PathAt(fdt, n)
             PROVE  m = n
  BY DEF PathsUnique
<1>1. Len(fdt.words) \in Nat /\ DOMAIN fdt.words = 1 .. Len(fdt.words)
  BY BlockMeans DEF Sound, Agrees
<1>2. m \in Nat /\ n \in Nat /\ m + 1 \in NodeWords(fdt.words) /\ n + 1 \in NodeWords(fdt.words)
  BY <1>1 DEF NodeOffsets, NodeWords, At
<1>3. m + 1 = n + 1
  BY <1>2 DEF Tidy, PathsDiffer, PathAt
<1> QED
  BY <1>2, <1>3
-----------------------------------------------------------------------------
(* Words that make way for others                                          *)

\* Word k of a block is not among the n words behind off.
Off(off, n, k) == k <= off \/ k > off + n

\* Where a word that was not replaced stood before.
Back(off, m, n, k) == IF k <= off THEN k ELSE k - m + n

\* The nodes that are open behind the new words are those that were open behind
\* the words they replace.
Rejoins(ws, r, off, n, new) ==
    /\ off \in Nat /\ n \in Nat /\ off + n <= Len(ws) /\ Block(new)
    /\ IsSplice(r, ws, off, n, new)
    /\ OpenPath(r)[off + Len(new)] = OpenPath(ws)[off + n]

LEMMA RejoinLengths ==
    ASSUME NEW ws, Block(ws), NEW r, NEW off, NEW n, NEW new,
           Rejoins(ws, r, off, n, new)
    PROVE  /\ Len(ws) \in Nat /\ Len(r) \in Nat /\ Len(new) \in Nat /\ Block(r)
           /\ off \in Nat /\ n \in Nat /\ off + n <= Len(ws)
           /\ Len(r) = Len(ws) - n + Len(new)
BY BlockMeans DEF Rejoins, IsSplice

LEMMA KeptWord ==
    ASSUME NEW ws, Block(ws), NEW r, NEW off, NEW n, NEW new,
           Rejoins(ws, r, off, n, new),
           NEW k \in 1 .. Len(r), Off(off, Len(new), k)
    PROVE  LET l == Back(off, Len(new), n, k)
           IN  /\ l \in 1 .. Len(ws) /\ Off(off, n, l)
               /\ r[k] = ws[l] /\ OpenPath(r)[k] = OpenPath(ws)[l]
<1> DEFINE m == Len(new)
           l == Back(off, m, n, k)
           p == OpenPath(ws)
           q == OpenPath(r)
<1>1. /\ Len(ws) \in Nat /\ Len(r) \in Nat /\ m \in Nat
      /\ off \in Nat /\ n \in Nat /\ off + n <= Len(ws) /\ Len(r) = Len(ws) - n + m
      /\ IsSplice(r, ws, off, n, new) /\ q[off + m] = p[off + n]
  <2>1. IsSplice(r, ws, off, n, new) /\ q[off + m] = p[off + n]
    BY DEF Rejoins
  <2> HIDE DEF p, q
  <2> QED
    BY <2>1, RejoinLengths
<1>2. PathsAre(ws, p) /\ PathsAre(r, q)
  BY <1>1, OpenPathIs
<1> HIDE DEF p, q
<1>3. r[k] = IF k <= off THEN ws[k] ELSE IF k <= off + m THEN new[k - off]
             ELSE ws[k - m + n]
  BY <1>1 DEF IsSplice
<1>4. CASE k <= off
  <2>1. \A i \in 0 .. off : q[i] = p[i]
    BY <1>1, <1>2, SplicedHead
  <2>2. k \in 0 .. off /\ k \in 1 .. Len(ws) /\ l = k
    BY <1>1, <1>4 DEF Back
  <2> QED
    BY <1>3, <1>4, <2>1, <2>2 DEF p, q, Off
<1>5. CASE k > off
  <2>1. k > off + m /\ ~(k <= off) /\ ~(k <= off + m) /\ l = k - m + n
    BY <1>1, <1>5 DEF Off, Back
  <2>2. Follows(q, p, off, m, n, Len(r))
    BY <1>1, <1>2, SplicedTail
  <2>3. k \in off + m .. Len(r) /\ l \in 1 .. Len(ws) /\ l > off + n
    BY <1>1, <2>1
  <2>4. q[k] = p[l]
    BY <2>1, <2>2, <2>3 DEF Follows
  <2>5. r[k] = ws[l]
    BY <1>3, <2>1
  <2> HIDE DEF l
  <2>6. l \in 1 .. Len(ws) /\ Off(off, n, l) /\ r[k] = ws[l] /\ q[k] = p[l]
    BY <2>3, <2>4, <2>5 DEF Off
  <2> QED
    BY <2>6 DEF p, q, l
<1> QED
  BY <1>1, <1>4, <1>5

LEMMA BackOnce ==
    ASSUME NEW off \in Nat, NEW m \in Nat, NEW n \in Nat, NEW k \in Nat, NEW l \in Nat,
           Off(off, m, k), Off(off, m, l), Back(off, m, n, k) = Back(off, m, n, l)
    PROVE  k = l
BY DEF Off, Back

\* No property behind the replaced words belongs to a node among them, or to a
\* node in front of them from which it would be cut off.
StaysOwned(ws, r, off, n, m) ==
    \A j, k : Owns(ws, j, k) /\ j <= off + n /\ k > off + n
                  => j <= off /\ Quiet(r, off, off + m)

\* Of the new words only the first may be a node or a property; then it has an
\* owner, and no other word is that node or that property.
NewFirst(r, off, m) ==
    \A k \in off + 1 .. off + m : r[k].tag \in {"BEGIN", "PROP"} => k = off + 1

NewProp(ws, r, off, n) ==
    /\ \E j : Owns(r, j, off + 1)
    /\ \A l \in PropWords(ws) : Off(off, n, l) /\ ws[l].name = r[off + 1].name
                                    => OpenPath(ws)[l] # OpenPath(r)[off + 1]

NewPath(ws, r, off, n) ==
    \A l \in NodeWords(ws) : Off(off, n, l) => OpenPath(ws)[l] # OpenPath(r)[off + 1]

Fresh(ws, r, off, n, m) ==
    /\ StaysOwned(ws, r, off, n, m) /\ NewFirst(r, off, m)
    /\ m > 0 /\ r[off + 1].tag = "PROP" => NewProp(ws, r, off, n)
    /\ m > 0 /\ r[off + 1].tag = "BEGIN" => NewPath(ws, r, off, n)

\* The tag of a node or property is an old one, or the new one.
LEMMA OldOrNew ==
    ASSUME NEW ws, Block(ws), NEW r, NEW off, NEW n, NEW new,
           Rejoins(ws, r, off, n, new), Fresh(ws, r, off, n, Len(new)),
           NEW k \in 1 .. Len(r), r[k].tag \in {"BEGIN", "PROP"}
    PROVE  Off(off, Len(new), k) \/ (k = off + 1 /\ Len(new) > 0)
<1>1. off \in Nat /\ Len(new) \in Nat /\ Len(r) \in Nat
  BY RejoinLengths
<1> SUFFICES ASSUME ~Off(off, Len(new), k) PROVE k = off + 1 /\ Len(new) > 0
  OBVIOUS
<1>2. k \in off + 1 .. off + Len(new) /\ Len(new) > 0
  BY <1>1 DEF Off
<1> QED
  BY <1>2 DEF Fresh, NewFirst

LEMMA FreshOnce ==
    ASSUME NEW ws, Block(ws), NEW r, NEW off, NEW n, NEW new,
           Rejoins(ws, r, off, n, new), Fresh(ws, r, off, n, Len(new)),
           PropsOnce(ws), PathsDiffer(ws)
    PROVE  PropsOnce(r) /\ PathsDiffer(r)
<1> DEFINE m == Len(new)
           back(k) == Back(off, m, n, k)
           Same(k, l) == OpenPath(r)[k] = OpenPath(r)[l] /\ r[k].tag = r[l].tag
                         /\ (r[k].tag = "PROP" => r[k].name = r[l].name)
<1>1. /\ Len(ws) \in Nat /\ Len(r) \in Nat /\ m \in Nat /\ Block(r)
      /\ off \in Nat /\ n \in Nat
  BY RejoinLengths
<1>2. ASSUME NEW k \in 1 .. Len(r), Off(off, m, k)
      PROVE  /\ back(k) \in 1 .. Len(ws) /\ Off(off, n, back(k))
             /\ r[k] = ws[back(k)] /\ OpenPath(r)[k] = OpenPath(ws)[back(k)]
  BY <1>2, KeptWord
<1> HIDE DEF back
<1>3. ASSUME NEW k \in 1 .. Len(r), NEW l \in 1 .. Len(r), Off(off, m, k), Off(off, m, l),
             r[k].tag \in {"BEGIN", "PROP"}, Same(k, l)
      PROVE  k = l
  <2>1. DOMAIN ws = 1 .. Len(ws)
    BY BlockMeans
  <2>2. back(k) = back(l)
    <3>1. CASE r[k].tag = "BEGIN"
      <4>1. back(k) \in NodeWords(ws) /\ back(l) \in NodeWords(ws)
        BY <1>2, <1>3, <2>1, <3>1 DEF NodeWords
      <4>2. OpenPath(ws)[back(k)] = OpenPath(ws)[back(l)]
        BY <1>2, <1>3
      <4> QED
        BY <4>1, <4>2 DEF PathsDiffer
    <3>2. CASE r[k].tag = "PROP"
      <4>1. back(k) \in PropWords(ws) /\ back(l) \in PropWords(ws)
        BY <1>2, <1>3, <2>1, <3>2 DEF PropWords
      <4>2. OpenPath(ws)[back(k)] = OpenPath(ws)[back(l)]
        BY <1>2, <1>3
      <4>3. ws[back(k)].name = ws[back(l)].name
        BY <1>2, <1>3, <3>2
      <4> QED
        BY <4>1, <4>2, <4>3 DEF PropsOnce
    <3> QED
      BY <1>3, <3>1, <3>2
  <2>3. k \in Nat /\ l \in Nat
    BY <1>1
  <2> QED
    BY <1>1, <1>3, <2>2, <2>3, BackOnce DEF back
<1>4. ASSUME NEW l \in 1 .. Len(r), Off(off, m, l), m > 0,
             r[l].tag \in {"BEGIN", "PROP"}, Same(off + 1, l)
      PROVE  FALSE
  <2>1. DOMAIN ws = 1 .. Len(ws)
    BY BlockMeans
  <2>2. CASE r[l].tag = "BEGIN"
    <3>1. back(l) \in NodeWords(ws) /\ Off(off, n, back(l))
      BY <1>2, <1>4, <2>1, <2>2 DEF NodeWords
    <3>2. NewPath(ws, r, off, n)
      BY <1>4, <2>2 DEF Fresh
    <3> QED
      BY <1>2, <1>4, <3>1, <3>2 DEF NewPath
  <2>3. CASE r[l].tag = "PROP"
    <3>1. back(l) \in PropWords(ws) /\ Off(off, n, back(l))
      BY <1>2, <1>4, <2>1, <2>3 DEF PropWords
    <3>2. NewProp(ws, r, off, n)
      BY <1>4, <2>3 DEF Fresh
    <3>3. ws[back(l)].name = r[off + 1].name
      BY <1>2, <1>4, <2>3
    <3> QED
      BY <1>2, <1>4, <3>1, <3>2, <3>3 DEF NewProp
  <2> QED
    BY <1>4, <2>2, <2>3
<1>5. ASSUME NEW k \in 1 .. Len(r), NEW l \in 1 .. Len(r),
             r[k].tag \in {"BEGIN", "PROP"}, Same(k, l)
      PROVE  k = l
  <2>1. Off(off, m, k) \/ (k = off + 1 /\ m > 0)
    BY <1>5, OldOrNew
  <2>2. r[l].tag \in {"BEGIN", "PROP"} /\ Same(l, k)
    BY <1>5
  <2>3. Off(off, m, l) \/ (l = off + 1 /\ m > 0)
    BY <2>2, OldOrNew
  <2> HIDE DEF Same
  <2> QED
    BY <1>3, <1>4, <1>5, <2>1, <2>2, <2>3
<1>6. DOMAIN r = 1 .. Len(r)
  BY <1>1, BlockMeans
<1>7. PropsOnce(r)
  <2> SUFFICES ASSUME NEW k \in PropWords(r), NEW l \in PropWords(r),
                      OpenPath(r)[k] = OpenPath(r)[l], r[k].name = r[l].name
               PROVE  k = l
    BY DEF PropsOnce
  <2> QED
    BY <1>5, <1>6 DEF PropWords
<1>8. PathsDiffer(r)
  <2> SUFFICES ASSUME NEW k \in NodeWords(r), NEW l \in NodeWords(r),
                      OpenPath(r)[k] = OpenPath(r)[l]
               PROVE  k = l
    BY DEF PathsDiffer
  <2>1. r[k].tag = "BEGIN" /\ r[l].tag = "BEGIN" /\ Same(k, l)
    BY DEF NodeWords
  <2> QED
    BY <1>5, <1>6, <2>1 DEF NodeWords
<1> QED
  BY <1>7, <1>8
\* A word that was not replaced stands in the new block as it stood.
LEMMA OldWord ==
    ASSUME NEW ws, Block(ws), NEW r, NEW off, NEW n, NEW new,
           Rejoins(ws, r, off, n, new), NEW l \in 1 .. Len(ws), Off(off, n, l)
    PROVE  LET k == Back(off, n, Len(new), l)
           IN  /\ k \in 1 .. Len(r) /\ Off(off, Len(new), k) /\ r[k] = ws[l]
               /\ l = Back(off, Len(new), n, k)
<1> DEFINE m == Len(new)
           k == Back(off, n, m, l)
<1>1. /\ Len(ws) \in Nat /\ Len(r) \in Nat /\ m \in Nat
      /\ off \in Nat /\ n \in Nat /\ off + n <= Len(ws) /\ Len(r) = Len(ws) - n + m
  BY RejoinLengths
<1>2. k \in 1 .. Len(r) /\ Off(off, m, k) /\ l = Back(off, m, n, k)
  BY <1>1 DEF Off, Back
<1>3. r[k] = ws[Back(off, m, n, k)]
  BY <1>2, KeptWord
<1> QED
  BY <1>2, <1>3

LEMMA FreshOwned ==
    ASSUME NEW ws, Block(ws), NEW r, NEW off, NEW n, NEW new,
           Rejoins(ws, r, off, n, new), Fresh(ws, r, off, n, Len(new)),
           NEW j, NEW l, Owns(ws, j, l), Off(off, n, l)
    PROVE  \E i : Owns(r, i, Back(off, n, Len(new), l))
<1> DEFINE m == Len(new)
           k == Back(off, n, m, l)
<1>1. /\ Len(ws) \in Nat /\ Len(r) \in Nat /\ m \in Nat /\ Block(r)
      /\ off \in Nat /\ n \in Nat /\ off + n <= Len(ws) /\ Len(r) = Len(ws) - n + m
  BY RejoinLengths
<1>2. /\ j \in 1 .. Len(ws) /\ l \in 1 .. Len(ws) /\ j < l
      /\ ws[j].tag = "BEGIN" /\ ws[l].tag = "PROP" /\ Quiet(ws, j, l)
  BY OwnsIs
<1>3. k \in 1 .. Len(r) /\ r[k] = ws[l]
  BY <1>2, OldWord
<1>4. ASSUME NEW i \in 1 .. Len(r), Off(off, m, i), NEW x \in Int,
             Back(off, m, n, i) \in x + 1 .. l, Quiet(ws, x, l)
      PROVE  r[i].tag \notin {"BEGIN", "END_NODE"}
  <2>1. r[i] = ws[Back(off, m, n, i)]
    BY <1>4, KeptWord
  <2> QED
    BY <1>4, <2>1 DEF Quiet
<1>5. CASE l <= off
  <2>1. k = l /\ Off(off, n, j) /\ Back(off, n, m, j) = j
    BY <1>1, <1>2, <1>5 DEF Off, Back
  <2>2. j \in 1 .. Len(r) /\ r[j] = ws[j]
    BY <1>2, <2>1, OldWord
  <2>3. ASSUME NEW i \in j + 1 .. k PROVE r[i].tag \notin {"BEGIN", "END_NODE"}
    <3>1. i \in 1 .. Len(r) /\ Off(off, m, i) /\ Back(off, m, n, i) = i
      BY <1>1, <1>2, <1>3, <1>5, <2>1 DEF Off, Back
    <3> QED
      BY <1>2, <1>4, <2>1, <3>1
  <2>4. Owns(r, j, k)
    <3>1. Quiet(r, j, k)
      BY <2>3 DEF Quiet
    <3> QED
      BY <1>1, <1>2, <1>3, <2>1, <2>2, <3>1, OwnsIs
  <2> QED
    BY <2>4
<1>6. CASE l > off + n /\ j > off + n
  <2> DEFINE x == Back(off, n, m, j)
  <2>1. /\ Off(off, n, j) /\ x = j - n + m /\ k = l - n + m /\ x < k
        /\ x > off + m
    BY <1>1, <1>2, <1>6 DEF Off, Back
  <2>2. x \in 1 .. Len(r) /\ r[x] = ws[j]
    BY <1>2, <2>1, OldWord
  <2>3. ASSUME NEW i \in x + 1 .. k PROVE r[i].tag \notin {"BEGIN", "END_NODE"}
    <3>1. /\ i \in Int /\ i > x /\ i <= k /\ x > off + m /\ k <= Len(r)
          /\ x = j - n + m /\ k = l - n + m /\ off \in Nat /\ n \in Nat /\ m \in Nat
          /\ j \in Nat /\ l \in Nat /\ Len(r) \in Nat /\ x \in Nat /\ k \in Nat
      <4> HIDE DEF x, k
      <4>1. off \in Nat /\ n \in Nat /\ m \in Nat /\ Len(r) \in Nat /\ Len(ws) \in Nat
        BY <1>1
      <4>2. j \in Nat /\ l \in Nat
        BY <1>2, <4>1
      <4>3. x \in Nat /\ k \in Nat /\ k <= Len(r)
        BY <1>3, <2>2, <4>1
      <4>4. i \in Int /\ i > x /\ i <= k
        BY <4>3
      <4> QED
        BY <2>1, <4>1, <4>2, <4>3, <4>4
    <3>2. /\ i \in 1 .. Len(r) /\ i > off + m /\ ~(i <= off)
          /\ i - m + n \in j + 1 .. l
      BY ONLY <3>1
    <3>3. i \in 1 .. Len(r) /\ Off(off, m, i) /\ Back(off, m, n, i) \in j + 1 .. l
      BY <3>2 DEF Off, Back
    <3> QED
      BY <1>2, <1>4, <3>3
  <2>4. Owns(r, x, k)
    <3>1. Quiet(r, x, k)
      BY <2>3 DEF Quiet
    <3> QED
      BY <1>1, <1>2, <1>3, <2>1, <2>2, <3>1, OwnsIs
  <2> QED
    BY <2>4
<1>7. CASE l > off + n /\ j <= off + n
  <2>1. j <= off /\ Quiet(r, off, off + m)
    BY <1>7 DEF Fresh, StaysOwned
  <2>2. k = l - n + m /\ Off(off, n, j) /\ Back(off, n, m, j) = j /\ j < k
    BY <1>1, <1>2, <1>7, <2>1 DEF Off, Back
  <2>3. j \in 1 .. Len(r) /\ r[j] = ws[j]
    BY <1>2, <2>2, OldWord
  <2>4. ASSUME NEW i \in j + 1 .. k PROVE r[i].tag \notin {"BEGIN", "END_NODE"}
    <3>1. CASE i \in off + 1 .. off + m
      BY <2>1, <3>1 DEF Quiet
    <3>2. CASE i \notin off + 1 .. off + m
      <4>1. /\ i \in Int /\ i > j /\ i <= k /\ k <= Len(r) /\ k = l - n + m
            /\ off \in Nat /\ n \in Nat /\ m \in Nat /\ j \in Nat /\ l \in Nat
            /\ Len(r) \in Nat /\ k \in Nat /\ j <= off /\ l > off + n
            /\ (i <= off \/ i > off + m)
        <5> HIDE DEF k
        <5>1. off \in Nat /\ n \in Nat /\ m \in Nat /\ Len(r) \in Nat /\ Len(ws) \in Nat
          BY <1>1
        <5>2. j \in Nat /\ l \in Nat
          BY <1>2, <5>1
        <5>3. k \in Nat /\ k <= Len(r)
          BY <1>3, <5>1
        <5>4. i \in Int /\ i > j /\ i <= k
          BY <5>2, <5>3
        <5>5. i <= off \/ i > off + m
          BY <3>2, <5>1, <5>4
        <5> QED
          BY <1>7, <2>1, <2>2, <5>1, <5>2, <5>3, <5>4, <5>5
      <4>2. /\ i \in 1 .. Len(r) /\ (i <= off => i \in j + 1 .. l)
            /\ (~(i <= off) => i - m + n \in j + 1 .. l)
        BY ONLY <4>1
      <4>3. i \in 1 .. Len(r) /\ Off(off, m, i) /\ Back(off, m, n, i) \in j + 1 .. l
        BY <4>1, <4>2 DEF Off, Back
      <4> QED
        BY <1>2, <1>4, <4>3
    <3> QED
      BY <3>1, <3>2
  <2>5. Owns(r, j, k)
    <3>1. Quiet(r, j, k)
      BY <2>4 DEF Quiet
    <3> QED
      BY <1>1, <1>2, <1>3, <2>2, <2>3, <3>1, OwnsIs
  <2> QED
    BY <2>5
<1> QED
  BY <1>1, <1>2, <1>5, <1>6, <1>7 DEF Off

Ordered(ws) == PropsFirst(ws) /\ PropsOnce(ws) /\ PathsDiffer(ws)

LEMMA FreshOrdered ==
    ASSUME NEW ws, Block(ws), NEW r, NEW off, NEW n, NEW new,
           Rejoins(ws, r, off, n, new), Fresh(ws, r, off, n, Len(new)), Ordered(ws)
    PROVE  Ordered(r)
<1> DEFINE m == Len(new)
<1>1. PropsOnce(r) /\ PathsDiffer(r)
  BY FreshOnce DEF Ordered
<1>2. Block(r) /\ Len(r) \in Nat /\ DOMAIN r = 1 .. Len(r) /\ off \in Nat /\ m \in Nat
      /\ n \in Nat /\ DOMAIN ws = 1 .. Len(ws) /\ Len(ws) \in Nat
  BY RejoinLengths, BlockMeans
<1>3. ASSUME NEW k \in PropWords(r) PROVE \E j : Owns(r, j, k)
  <2>1. k \in 1 .. Len(r) /\ r[k].tag = "PROP"
    BY <1>2 DEF PropWords
  <2>2. CASE Off(off, m, k)
    <3> DEFINE l == Back(off, m, n, k)
    <3>1. l \in 1 .. Len(ws) /\ Off(off, n, l) /\ r[k] = ws[l]
      BY <2>1, <2>2, KeptWord
    <3>2. k = Back(off, n, m, l)
      BY <1>2, <2>1, <2>2 DEF Off, Back
    <3> HIDE DEF l
    <3>3. l \in PropWords(ws)
      BY <1>2, <2>1, <3>1 DEF PropWords
    <3>4. PICK j \in NodeWords(ws) : Owns(ws, j, l)
      BY <3>3 DEF Ordered, PropsFirst
    <3> QED
      BY <3>1, <3>2, <3>4, FreshOwned
  <2>3. CASE k = off + 1 /\ m > 0
    BY <2>1, <2>3 DEF Fresh, NewProp
  <2> QED
    BY <2>1, <2>2, <2>3, OldOrNew
<1>4. PropsFirst(r)
  BY <1>3 DEF PropsFirst, Owns
<1> QED
  BY <1>1, <1>4 DEF Ordered
-----------------------------------------------------------------------------
(* The words the calls put in                                              *)

\* The n words at off of ws have made way for new in r.
PutIn(ws, r, off, n, new) ==
    /\ off \in Nat /\ n \in Nat /\ off + n <= Len(ws) /\ Block(new)
    /\ IsSplice(r, ws, off, n, new)

LEMMA NewWord ==
    ASSUME NEW ws, Block(ws), NEW r, NEW off, NEW n, NEW new,
           PutIn(ws, r, off, n, new), NEW k \in 1 .. Len(new)
    PROVE  off + k \in 1 .. Len(r) /\ r[off + k] = new[k]
<1>1. /\ off \in Nat /\ n \in Nat /\ off + n <= Len(ws) /\ Len(new) \in Nat
      /\ Len(ws) \in Nat /\ Len(r) = Len(ws) - n + Len(new)
  BY BlockMeans DEF PutIn, IsSplice
<1>2. /\ off + k \in 1 .. Len(r) /\ ~(off + k <= off) /\ off + k <= off + Len(new)
      /\ (off + k) - off = k
  BY <1>1
<1>3. r[off + k] = IF off + k <= off THEN ws[off + k]
                   ELSE IF off + k <= off + Len(new) THEN new[(off + k) - off]
                   ELSE ws[(off + k) - Len(new) + n]
  BY <1>2 DEF PutIn, IsSplice
<1> QED
  BY <1>2, <1>3

LEMMA QuietNew ==
    ASSUME NEW ws, Block(ws), NEW r, NEW off, NEW n, NEW new,
           PutIn(ws, r, off, n, new), Quiet(new, 0, Len(new))
    PROVE  Quiet(r, off, off + Len(new))
<1> SUFFICES ASSUME NEW k \in off + 1 .. off + Len(new)
             PROVE  r[k].tag \notin {"BEGIN", "END_NODE"}
  BY DEF Quiet
<1>1. off \in Nat /\ Len(new) \in Nat
  BY BlockMeans DEF PutIn
<1>2. k - off \in 1 .. Len(new) /\ off + (k - off) = k /\ k - off \in 0 + 1 .. Len(new)
  BY <1>1
<1>3. r[k] = new[k - off]
  BY <1>2, NewWord
<1> QED
  BY <1>2, <1>3 DEF Quiet

\* Where nodes are neither opened nor closed, neither before nor after.
LEMMA QuietRejoins ==
    ASSUME NEW ws, Block(ws), NEW r, NEW off, NEW n, NEW new,
           PutIn(ws, r, off, n, new), Quiet(new, 0, Len(new)),
           OpenPath(ws)[off + n] = OpenPath(ws)[off]
    PROVE  /\ Rejoins(ws, r, off, n, new)
           /\ \A k \in off .. off + Len(new) : OpenPath(r)[k] = OpenPath(ws)[off]
<1> DEFINE p == OpenPath(ws)
           q == OpenPath(r)
           m == Len(new)
<1>1. /\ off \in Nat /\ n \in Nat /\ off + n <= Len(ws) /\ m \in Nat
      /\ Len(ws) \in Nat /\ Len(r) = Len(ws) - n + m /\ IsSplice(r, ws, off, n, new)
      /\ Len(r) \in Nat
  BY BlockMeans DEF PutIn, IsSplice
<1>2. PathsAre(ws, p) /\ PathsAre(r, q) /\ p[off + n] = p[off]
  BY <1>1, OpenPathIs
<1>3. Quiet(r, off, off + m)
  BY QuietNew
<1> HIDE DEF p, q
<1>4. q[off] = p[off]
  <2>1. \A k \in 0 .. off : q[k] = p[k]
    BY <1>1, <1>2, SplicedHead
  <2> QED
    BY <1>1, <2>1
<1>5. \A k \in off .. off + m : q[k] = q[off]
  <2>1. off + m \in Nat /\ off <= off + m /\ off + m <= Len(r)
    BY <1>1
  <2> QED
    BY <1>1, <1>2, <1>3, <2>1, PathsQuiet
<1>6. \A k \in off .. off + m : q[k] = p[off]
  BY <1>4, <1>5
<1>7. q[off + m] = p[off + n]
  <2>1. off + m \in off .. off + m
    BY <1>1
  <2> QED
    BY <1>2, <1>6, <2>1
<1> QED
  BY <1>6, <1>7 DEF PutIn, Rejoins, p, q

LEMMA QuietOwned ==
    ASSUME NEW ws, Block(ws), NEW r, NEW off \in Nat, NEW n \in Nat, NEW m,
           Quiet(ws, off, off + n), Quiet(r, off, off + m)
    PROVE  StaysOwned(ws, r, off, n, m)
<1> SUFFICES ASSUME NEW j, NEW k, Owns(ws, j, k), j <= off + n
             PROVE  j <= off
  BY DEF StaysOwned
<1>1. j \in 1 .. Len(ws) /\ ws[j].tag = "BEGIN"
  BY OwnsIs
<1>2. j \notin off + 1 .. off + n
  BY <1>1 DEF Quiet
<1> QED
  BY <1>1, <1>2

LEMMA QuietWordsPath ==
    ASSUME NEW ws, Block(ws), NEW off \in Nat, NEW n \in Nat, off + n <= Len(ws),
           Quiet(ws, off, off + n)
    PROVE  \A k \in off .. off + n : OpenPath(ws)[k] = OpenPath(ws)[off]
<1>1. Len(ws) \in Nat /\ off + n \in Nat /\ off <= off + n
  BY BlockMeans
<1>2. PathsAre(ws, OpenPath(ws))
  BY <1>1, OpenPathIs
<1> QED
  BY <1>1, <1>2, PathsQuiet

\* Words that say nothing.
Blank(new) == \A k \in 1 .. Len(new) : new[k].tag \in {"NOP", "CONT"}

\* Words that say nothing take the place of a property, or of a part of it.
LEMMA BlankFresh ==
    ASSUME NEW ws, Block(ws), NEW r, NEW off, NEW n, NEW new,
           PutIn(ws, r, off, n, new), Blank(new), StaysOwned(ws, r, off, n, Len(new))
    PROVE  Fresh(ws, r, off, n, Len(new))
<1>1. off \in Nat /\ Len(new) \in Nat
  BY BlockMeans DEF PutIn
<1>2. ASSUME NEW k \in off + 1 .. off + Len(new)
      PROVE  r[k].tag \notin {"BEGIN", "PROP"}
  <2>1. k - off \in 1 .. Len(new) /\ off + (k - off) = k
    BY <1>1
  <2>2. r[k] = new[k - off]
    BY <2>1, NewWord
  <2> QED
    BY <2>1, <2>2 DEF Blank
<1>3. Len(new) > 0 => off + 1 \in off + 1 .. off + Len(new)
  BY <1>1
<1>4. NewFirst(r, off, Len(new))
  BY <1>2 DEF NewFirst
<1>5. Len(new) > 0 => r[off + 1].tag \notin {"BEGIN", "PROP"}
  BY <1>2, <1>3
<1> QED
  BY <1>4, <1>5 DEF Fresh

LEMMA BlankQuiet ==
    ASSUME NEW new, Blank(new) PROVE Quiet(new, 0, Len(new))
BY DEF Blank, Quiet

LEMMA BlanksBlank ==
    /\ Blank(<<>>)
    /\ \A n \in Nat : Blank(Nops(n))
<1>1. Blank(<<>>)
  BY NoWords DEF Blank
<1>2. ASSUME NEW n \in Nat PROVE Blank(Nops(n))
  <2>1. Len(Nops(n)) = n /\ \A k \in 1 .. n : Nops(n)[k] = Nop
    BY NopWords
  <2>2. Nop.tag = "NOP"
    BY DEF Nop, Word
  <2> QED
    BY <2>1, <2>2 DEF Blank
<1> QED
  BY <1>1, <1>2

\* A property is taken out.
LEMMA PropertyOut ==
    ASSUME NEW ws, Block(ws), Ordered(ws), NEW r, NEW off, NEW n, NEW new,
           PutIn(ws, r, off, n, new), Blank(new), Quiet(ws, off, off + n)
    PROVE  Rejoins(ws, r, off, n, new) /\ Fresh(ws, r, off, n, Len(new)) /\ Ordered(r)
<1>1. off \in Nat /\ n \in Nat /\ off + n <= Len(ws) /\ off + n \in off .. off + n
  BY DEF PutIn
<1>2. Quiet(new, 0, Len(new))
  BY BlankQuiet
<1>3. OpenPath(ws)[off + n] = OpenPath(ws)[off]
  BY <1>1, QuietWordsPath
<1>4. Rejoins(ws, r, off, n, new)
  BY <1>2, <1>3, QuietRejoins
<1>5. Quiet(r, off, off + Len(new))
  BY <1>2, QuietNew
<1>6. StaysOwned(ws, r, off, n, Len(new))
  BY <1>1, <1>5, QuietOwned
<1>7. Fresh(ws, r, off, n, Len(new))
  BY <1>6, BlankFresh
<1> QED
  BY <1>4, <1>7, FreshOrdered
\* The words of a property: its tag, and what goes on in the words behind.
PropertyWords(new, name, val) ==
    /\ Block(new) /\ Len(new) > 0
    /\ new[1].tag = "PROP" /\ new[1].name = name /\ new[1].val = val
    /\ \A k \in 2 .. Len(new) : new[k].tag = "CONT"

LEMMA PropertyQuietWords ==
    ASSUME NEW new, NEW name, NEW val, PropertyWords(new, name, val)
    PROVE  Len(new) \in Nat /\ Quiet(new, 0, Len(new))
<1>1. Len(new) \in Nat
  BY BlockMeans DEF PropertyWords
<1> SUFFICES ASSUME NEW k \in 0 + 1 .. Len(new)
             PROVE  new[k].tag \notin {"BEGIN", "END_NODE"}
  BY <1>1 DEF Quiet
<1>2. k = 1 \/ k \in 2 .. Len(new)
  BY <1>1
<1> QED
  BY <1>2 DEF PropertyWords

LEMMA PropUnit ==
    ASSUME NEW name, NEW val, IsWord(Prop(name, val))
    PROVE  PropertyWords(Unit(Prop(name, val)), name, val)
<1> DEFINE w == Prop(name, val)
           new == Unit(w)
<1>1. w.tag = "PROP" /\ w.name = name /\ w.val = val
  BY DEF Prop, Word
<1>2. Cont.tag = "CONT"
  BY DEF Cont, Word
<1>3. tag_words(w) \in Nat \ {0}
  BY TagWords
<1> HIDE DEF w
<1>4. /\ Block(new) /\ Len(new) = tag_words(w) /\ new[1] = w
      /\ \A k \in 2 .. tag_words(w) : new[k] = Cont
  BY UnitWords DEF w
<1> HIDE DEF new
<1>5. /\ Len(new) \in Nat /\ Len(new) > 0 /\ new[1].tag = "PROP" /\ new[1].name = name
      /\ new[1].val = val /\ \A k \in 2 .. Len(new) : new[k].tag = "CONT"
  BY <1>1, <1>2, <1>3, <1>4
<1> QED
  BY <1>4, <1>5 DEF PropertyWords, new, w

\* A property is put in, or takes the place of the one that had its name.
LEMMA PropertyPut ==
    ASSUME NEW ws, Block(ws), Ordered(ws), NEW r, NEW off, NEW n, NEW new,
           NEW name, NEW val, PropertyWords(new, name, val), PutIn(ws, r, off, n, new),
           NEW j \in NodeWords(ws), j <= off, Quiet(ws, j, off + n),
           \A l \in PropWords(ws) : Off(off, n, l) /\ ws[l].name = name
                                        => OpenPath(ws)[l] # OpenPath(ws)[j]
    PROVE  /\ Rejoins(ws, r, off, n, new) /\ Fresh(ws, r, off, n, Len(new))
           /\ Ordered(r) /\ Len(new) > 0 /\ off + 1 \in 1 .. Len(r)
           /\ r[off + 1].tag = "PROP" /\ r[off + 1].name = name
           /\ r[off + 1].val = val /\ OpenPath(r)[off + 1] = OpenPath(ws)[j]
<1> DEFINE p == OpenPath(ws)
           q == OpenPath(r)
<1>1. /\ Block(new) /\ Quiet(new, 0, Len(new)) /\ Len(new) \in Nat /\ Len(new) > 0
      /\ new[1].tag = "PROP" /\ new[1].name = name /\ new[1].val = val
      /\ \A k \in 2 .. Len(new) : new[k].tag = "CONT"
  BY PropertyQuietWords DEF PropertyWords
<1>2. PutIn(ws, r, off, n, new)
  OBVIOUS
<1>3. /\ off \in Nat /\ n \in Nat /\ off + n <= Len(ws) /\ Len(ws) \in Nat
      /\ j \in 1 .. Len(ws) /\ ws[j].tag = "BEGIN" /\ Block(r) /\ Len(r) \in Nat
      /\ Len(r) = Len(ws) - n + Len(new) /\ DOMAIN r = 1 .. Len(r)
  <2>1. Block(r) /\ Len(r) = Len(ws) - n + Len(new)
    BY <1>2 DEF PutIn, IsSplice
  <2> QED
    BY <1>2, <2>1, BlockMeans DEF PutIn, NodeWords
<1>4. Quiet(ws, off, off + n)
  BY <1>3 DEF Quiet
<1>5. p[off + n] = p[off] /\ p[off] = p[j]
  <2>1. j \in Nat /\ off - j \in Nat /\ j + (off - j) = off /\ off \in j .. off
        /\ off <= Len(ws) /\ off + n \in off .. off + n
    BY <1>3
  <2>2. Quiet(ws, j, j + (off - j))
    BY <1>3, <2>1 DEF Quiet
  <2>3. \A k \in j .. j + (off - j) : p[k] = p[j]
    <3>1. j + (off - j) <= Len(ws)
      BY <2>1
    <3> QED
      BY <2>1, <2>2, <3>1, QuietWordsPath
  <2>4. \A k \in off .. off + n : p[k] = p[off]
    BY <1>3, <1>4, QuietWordsPath
  <2> HIDE DEF p
  <2> QED
    BY <2>1, <2>3, <2>4
<1>6. Rejoins(ws, r, off, n, new) /\ \A k \in off .. off + Len(new) : q[k] = p[off]
  BY <1>1, <1>2, <1>5, QuietRejoins
<1> HIDE DEF p, q
<1>7. off + 1 \in 1 .. Len(r) /\ r[off + 1] = new[1] /\ q[off + 1] = p[j]
  <2>1. 1 \in 1 .. Len(new) /\ off + 1 \in off .. off + Len(new)
    BY <1>1, <1>3
  <2> QED
    BY <1>2, <1>5, <1>6, <2>1, NewWord
<1>8. Quiet(r, off, off + Len(new))
  BY <1>1, <1>2, QuietNew
<1>9. StaysOwned(ws, r, off, n, Len(new))
  BY <1>3, <1>4, <1>8, QuietOwned
<1>10. NewFirst(r, off, Len(new))
  <2> SUFFICES ASSUME NEW k \in off + 1 .. off + Len(new), k # off + 1
               PROVE  r[k].tag \notin {"BEGIN", "PROP"}
    BY DEF NewFirst
  <2>1. k - off \in 1 .. Len(new) /\ k - off \in 2 .. Len(new) /\ off + (k - off) = k
    BY <1>1, <1>3
  <2>2. r[k] = new[k - off]
    BY <1>2, <2>1, NewWord
  <2> QED
    BY <1>1, <2>1, <2>2
<1>11. Owns(r, j, off + 1)
  <2>1. Off(off, n, j) /\ Back(off, n, Len(new), j) = j
    BY DEF Off, Back
  <2>2. r[j] = ws[j] /\ j \in 1 .. Len(r)
    BY <1>3, <1>6, <2>1, OldWord
  <2>3. Quiet(r, j, off + 1)
    <3> SUFFICES ASSUME NEW k \in j + 1 .. off + 1
                 PROVE  r[k].tag \notin {"BEGIN", "END_NODE"}
      BY DEF Quiet
    <3>1. CASE k = off + 1
      BY <1>1, <1>7, <3>1
    <3>2. CASE k # off + 1
      <4>1. k <= off /\ k \in 1 .. Len(ws) /\ k \in j + 1 .. off + n
        BY <1>3, <3>2
      <4>2. Off(off, n, k) /\ Back(off, n, Len(new), k) = k
        BY <4>1 DEF Off, Back
      <4>3. r[k] = ws[k]
        BY <1>6, <4>1, <4>2, OldWord
      <4> QED
        BY <4>1, <4>3 DEF Quiet
    <3> QED
      BY <3>1, <3>2
  <2>4. j < off + 1 /\ r[j].tag = "BEGIN" /\ r[off + 1].tag = "PROP"
    BY <1>1, <1>3, <1>7, <2>2
  <2>5. Block(r) /\ off + 1 \in 1 .. Len(r)
    BY <1>3, <1>7
  <2> QED
    BY <2>2, <2>3, <2>4, <2>5, OwnsIs
<1>12. NewProp(ws, r, off, n)
  BY <1>1, <1>7, <1>11 DEF NewProp, p, q
<1>13. Fresh(ws, r, off, n, Len(new))
  BY <1>1, <1>7, <1>9, <1>10, <1>12 DEF Fresh
<1>14. Ordered(r)
  BY <1>6, <1>13, FreshOrdered
<1> QED
  BY <1>1, <1>6, <1>7, <1>13, <1>14 DEF p, q

\* The property of that name at the node's path is the one that is found.
LEMMA NamedIsFound ==
    ASSUME NEW b, Sound(b), Nested(b.words), Ordered(b.words), NEW node \in Nat,
           node + 1 \in NodeWords(b.words), NEW l \in PropWords(b.words),
           OpenPath(b.words)[l] = OpenPath(b.words)[node + 1]
    PROVE  /\ fdt_get_property(b, node, b.words[l].name) = l - 1
           /\ Owns(b.words, node + 1, l)
<1> DEFINE ws == b.words
<1>1. Block(ws) /\ Len(ws) \in Nat /\ DOMAIN ws = 1 .. Len(ws)
  BY BlockMeans DEF Sound, Agrees
<1>2. PICK j \in NodeWords(ws) : Owns(ws, j, l)
  BY DEF Ordered, PropsFirst
<1>3. OpenPath(ws)[j] = OpenPath(ws)[node + 1]
  BY <1>1, <1>2, OwnsPath
<1>4. j = node + 1
  BY <1>2, <1>3 DEF Ordered, PathsDiffer
<1>5. l \in 1 .. Len(ws)
  BY <1>1 DEF PropWords
<1>6. l - 1 \in Nat /\ (l - 1) + 1 = l
  BY <1>5
<1>7. Owns(ws, node + 1, (l - 1) + 1) /\ PropsOnce(ws)
  BY <1>2, <1>4, <1>6 DEF Ordered
<1>8. fdt_get_property(b, node, At(b, l - 1).name) = l - 1
  BY <1>6, <1>7, OwnedFound
<1> QED
  BY <1>2, <1>4, <1>6, <1>8 DEF At
-----------------------------------------------------------------------------
(* Nodes taken out and put in                                              *)

IsPath(s) == \E S : s \in Seq(S)

LEMMA PathSeq ==
    ASSUME NEW ws, Len(ws) \in Nat, NEW k \in 0 .. Len(ws)
    PROVE  IsPath(OpenPath(ws)[k])
<1> DEFINE p == OpenPath(ws)
           S == {ws[j].name : j \in 1 .. Len(ws)}
<1>1. PathsAre(ws, p)
  BY OpenPathIs
<1> HIDE DEF p
<1>2. p[k] \in Seq(S)
  <2>1. CASE k = 0
    <3>1. <<>> \in Seq(S)
      OBVIOUS
    <3> QED
      BY <1>1, <2>1, <3>1 DEF PathsAre
  <2>2. CASE k # 0
    <3>1. k \in 1 .. Len(ws)
      BY <2>2
    <3> QED
      BY <1>1, <3>1 DEF PathsAre
  <2> QED
    BY <2>1, <2>2
<1> QED
  BY <1>2 DEF IsPath, p

LEMMA PathsSame ==
    ASSUME NEW s, NEW t, IsPath(s), IsPath(t), Extends(s, t, 0)
    PROVE  s = t
<1>1. PICK S : s \in Seq(S)
  BY DEF IsPath
<1>2. PICK T : t \in Seq(T)
  BY DEF IsPath
<1>3. /\ Len(s) \in Nat /\ Len(t) \in Nat
      /\ s = [i \in 1 .. Len(s) |-> s[i]] /\ t = [i \in 1 .. Len(t) |-> t[i]]
  BY <1>1, <1>2
<1>4. Len(s) = Len(t)
  BY <1>3 DEF Extends
<1>5. \A i \in 1 .. Len(t) : s[i] = t[i]
  BY DEF Extends
<1> QED
  BY <1>3, <1>4, <1>5

\* Appending a name to a path, and taking it off again.
LEMMA PathLonger ==
    ASSUME NEW s, IsPath(s), NEW x
    PROVE  /\ IsPath(Append(s, x)) /\ Len(s) \in Nat /\ Len(Append(s, x)) = Len(s) + 1
           /\ Append(s, x)[Len(s) + 1] = x
           /\ \A i \in 1 .. Len(s) : Append(s, x)[i] = s[i]
           /\ ParentPath(Append(s, x)) = s
<1>1. PICK S : s \in Seq(S)
  BY DEF IsPath
<1> DEFINE T == S \cup {x}
           a == Append(s, x)
<1>2. s \in Seq(T) /\ x \in T
  BY <1>1
<1> HIDE DEF T
<1>3. /\ a \in Seq(T) /\ Len(s) \in Nat /\ Len(a) = Len(s) + 1 /\ a[Len(s) + 1] = x
      /\ \A i \in 1 .. Len(s) : a[i] = s[i]
  BY <1>2
<1>4. IsPath(a)
  BY <1>3 DEF IsPath
<1>5. ParentPath(a) = s
  <2> HIDE DEF a
  <2> DEFINE c == SubSeq(a, 1, Len(a) - 1)
  <2>1. /\ c \in Seq(T) /\ Len(c) = Len(s) /\ \A i \in 1 .. Len(s) : c[i] = a[i]
    BY <1>3
  <2> HIDE DEF c
  <2>2. c = s
    BY <1>2, <1>3, <2>1
  <2> QED
    BY <2>2 DEF ParentPath, c
<1> QED
  BY <1>3, <1>4, <1>5

LEMMA AppendedSame ==
    ASSUME NEW s, IsPath(s), NEW t, IsPath(t), NEW x, NEW y,
           Append(s, x) = Append(t, y)
    PROVE  s = t /\ x = y
<1>1. s = t
  <2>1. ParentPath(Append(s, x)) = s /\ ParentPath(Append(t, y)) = t
    BY PathLonger
  <2>2. ParentPath(Append(s, x)) = ParentPath(Append(t, y))
    OBVIOUS
  <2> QED
    BY ONLY <2>1, <2>2
<1>2. Append(s, x)[Len(s) + 1] = x /\ Append(t, y)[Len(t) + 1] = y
  BY PathLonger
<1> QED
  BY <1>1, <1>2

\* A node is taken out, with all that is in it.
LEMMA NodeOut ==
    ASSUME NEW ws, Block(ws), Nested(ws), Ordered(ws), NEW r, NEW off, NEW n, NEW new,
           PutIn(ws, r, off, n, new), Blank(new), n > 0, off + 1 \in NodeWords(ws),
           Depths(ws)[off + n] = Depths(ws)[off], Stays(Depths(ws), off, off + n - 1)
    PROVE  Rejoins(ws, r, off, n, new) /\ Fresh(ws, r, off, n, Len(new)) /\ Ordered(r)
<1> DEFINE d == Depths(ws)
           p == OpenPath(ws)
<1>1. /\ off \in Nat /\ n \in Nat /\ off + n \in Nat /\ off + n <= Len(ws)
      /\ Len(ws) \in Nat /\ DepthsAre(ws, d) /\ PathsAre(ws, p)
  BY BlockMeans, DepthsExist, OpenPathIs DEF PutIn
<1> HIDE DEF d, p
<1>2. \A k \in 0 .. Len(ws) : d[k] \in Int
  BY <1>1 DEF DepthsAre
<1>3. d[off + n] = d[off] /\ \A k \in off + 1 .. off + n - 1 : d[k] > d[off]
  BY DEF d, Stays
<1>4. \A k \in off .. off + n : d[k] >= d[off]
  <2> SUFFICES ASSUME NEW k \in off .. off + n PROVE d[k] >= d[off]
    OBVIOUS
  <2>1. k = off \/ k = off + n \/ k \in off + 1 .. off + n - 1
    BY <1>1
  <2>2. d[k] \in Int /\ d[off] \in Int
    <3>1. k \in 0 .. Len(ws) /\ off \in 0 .. Len(ws)
      BY <1>1
    <3> QED
      BY <1>2, <3>1
  <2> QED
    BY <1>3, <2>1, <2>2
<1>5. p[off + n] = p[off]
  <2> DEFINE hi == off + n
  <2>1. hi \in Nat /\ off <= hi /\ hi <= Len(ws) /\ \A k \in off .. hi : d[k] >= d[off]
        /\ d[hi] = d[off]
    BY <1>1, <1>3, <1>4
  <2> HIDE DEF hi
  <2>2. p[hi] = p[off]
    BY <1>1, <2>1, PathsBack
  <2> QED
    BY <2>2 DEF hi
<1>6. Quiet(new, 0, Len(new))
  BY BlankQuiet
<1>7. Rejoins(ws, r, off, n, new)
  BY <1>5, <1>6, QuietRejoins DEF p
<1>8. ASSUME NEW j, NEW k, Owns(ws, j, k), j <= off + n, k > off + n PROVE FALSE
  <2>1. /\ j \in 1 .. Len(ws) /\ k \in 1 .. Len(ws) /\ j < k /\ ws[j].tag = "BEGIN"
        /\ Quiet(ws, j, k)
    BY <1>8, OwnsIs
  <2>2. CASE j <= off
    <3>1. off + 1 \in j + 1 .. k /\ ws[off + 1].tag = "BEGIN"
      BY <1>1, <1>8, <2>1, <2>2 DEF NodeWords
    <3> QED
      BY <2>1, <3>1 DEF Quiet
  <2>3. CASE j > off
    <3>1. Flat(d, j, k)
      <4>1. j \in Nat /\ k \in Nat /\ j <= k /\ k <= Len(ws)
        BY <1>1, <2>1
      <4> QED
        BY <1>1, <2>1, <4>1, FlatDepth
    <3>2. d[off + n] = d[j]
      <4>1. off + n \in j .. k
        BY <1>1, <1>8, <2>1
      <4> QED
        BY <3>1, <4>1 DEF Flat
    <3>3. d[j] = d[j - 1] + 1
      <4>1. opens(ws[j]) = 1 /\ d[j] = d[j - 1] + opens(ws[j])
        BY <1>1, <2>1, Opens DEF DepthsAre
      <4> QED
        BY <4>1
    <3>4. j - 1 \in off .. off + n /\ j - 1 \in 0 .. Len(ws) /\ off \in 0 .. Len(ws)
      BY <1>1, <1>8, <2>1, <2>3
    <3>5. d[j - 1] >= d[off] /\ d[j - 1] \in Int /\ d[off] \in Int
      BY <1>2, <1>4, <3>4
    <3> QED
      BY <1>3, <3>2, <3>3, <3>5
  <2> QED
    BY <1>1, <2>1, <2>2, <2>3
<1>9. StaysOwned(ws, r, off, n, Len(new))
  BY <1>8 DEF StaysOwned
<1>10. Fresh(ws, r, off, n, Len(new))
  BY <1>9, BlankFresh
<1> QED
  BY <1>7, <1>10, FreshOrdered

\* No node has the path that the name would give to a node at off.
NameFree(ws, off, name) ==
    \A l \in NodeWords(ws) : OpenPath(ws)[l] # Append(OpenPath(ws)[off], name)

\* From ws to r, a node has come in behind off, with that name and path.
NodeIsIn(ws, r, off, name, path) ==
    LET new == NewNode(name)
    IN  /\ Rejoins(ws, r, off, 0, new) /\ Fresh(ws, r, off, 0, Len(new))
        /\ Ordered(r) /\ Len(new) > 0 /\ off + 1 \in 1 .. Len(r)
        /\ r[off + 1].tag = "BEGIN" /\ r[off + 1].name = name
        /\ OpenPath(r)[off + 1] = Append(path, name)

\* A node is put in, where another begins or the one around it ends.
LEMMA NodeIn ==
    ASSUME NEW ws, Block(ws), Ordered(ws), NEW r, NEW off, NEW name, Len(name) \in Nat,
           PutIn(ws, r, off, 0, NewNode(name)), off < Len(ws),
           ws[off + 1].tag \in {"BEGIN", "END_NODE"}, NameFree(ws, off, name)
    PROVE  NodeIsIn(ws, r, off, name, OpenPath(ws)[off])
<1> DEFINE new == NewNode(name)
           z == tag_words(Begin(name))
           p == OpenPath(ws)
           q == OpenPath(r)
           x == Append(p[off], name)
<1>1. /\ z \in Nat /\ z > 0 /\ Block(new) /\ Len(new) = z + 1 /\ new[1].tag = "BEGIN"
      /\ new[1].name = name /\ new[z + 1].tag = "END_NODE"
      /\ \A k \in 2 .. z : new[k].tag = "CONT"
  <2>1. z \in Nat \ {0}
    BY NewTags, NoValue, TagWords
  <2>2. Begin(name).tag = "BEGIN" /\ Begin(name).name = name /\ EndNode.tag = "END_NODE"
        /\ Cont.tag = "CONT"
    BY DEF Begin, EndNode, Cont, Word
  <2>3. /\ Block(new) /\ Len(new) = z + 1 /\ new[1] = Begin(name)
        /\ new[z + 1] = EndNode /\ \A k \in 2 .. z : new[k] = Cont
    BY NewNodeWords
  <2> HIDE DEF new, z
  <2> QED
    BY <2>1, <2>2, <2>3
<1> HIDE DEF new, z
<1>2. /\ PutIn(ws, r, off, 0, new) /\ off \in Nat /\ off <= Len(ws) /\ Len(ws) \in Nat
      /\ Block(r) /\ Len(r) = Len(ws) + Len(new) /\ Len(r) \in Nat
      /\ PathsAre(ws, p) /\ PathsAre(r, q) /\ IsPath(p[off])
  <2>1. PutIn(ws, r, off, 0, new)
    BY DEF new
  <2>2. /\ off \in Nat /\ off <= Len(ws) /\ Len(ws) \in Nat
        /\ Block(r) /\ Len(r) = Len(ws) + Len(new) /\ Len(r) \in Nat
    <3>1. Block(r) /\ Len(r) = Len(ws) - 0 + Len(new) /\ off \in Nat /\ off + 0 <= Len(ws)
      BY <2>1 DEF PutIn, IsSplice
    <3>2. Len(ws) \in Nat /\ Len(r) \in Nat
      BY <3>1, BlockMeans
    <3> QED
      BY <1>1, <3>1, <3>2
  <2>3. IsPath(p[off])
    <3>1. off \in 0 .. Len(ws)
      BY <2>2
    <3> QED
      BY <2>2, <3>1, PathSeq
  <2> QED
    BY <2>1, <2>2, <2>3, OpenPathIs
<1>3. ASSUME NEW k \in 1 .. z + 1
      PROVE  off + k \in 1 .. Len(r) /\ r[off + k] = new[k]
  <2>1. k \in 1 .. Len(new)
    BY <1>1
  <2> QED
    BY <1>2, <2>1, NewWord
<1> HIDE DEF p, q
<1>4. q[off] = p[off]
  <2>1. \A k \in 0 .. off : q[k] = p[k]
    <3>1. 0 \in Nat /\ off + 0 <= Len(ws) /\ Len(new) \in Nat /\ IsSplice(r, ws, off, 0, new)
      BY <1>1, <1>2 DEF PutIn
    <3> QED
      BY <1>2, <3>1, SplicedHead
  <2> QED
    BY <1>2, <2>1
<1>5. off + 1 \in 1 .. Len(r) /\ r[off + 1].tag = "BEGIN" /\ r[off + 1].name = name
      /\ q[off + 1] = x
  <2>1. 1 \in 1 .. z + 1 /\ (off + 1) - 1 = off
    BY <1>1, <1>2
  <2>2. off + 1 \in 1 .. Len(r) /\ r[off + 1] = new[1]
    BY <1>3, <2>1
  <2>3. q[off + 1] = Append(q[(off + 1) - 1], r[off + 1].name)
    BY <1>1, <1>2, <2>2 DEF PathsAre
  <2> QED
    BY <1>1, <1>4, <2>1, <2>2, <2>3
<1>6. q[off + z] = x
  <2>1. Quiet(r, off + 1, off + z)
    <3> SUFFICES ASSUME NEW k \in (off + 1) + 1 .. off + z
                 PROVE  r[k].tag \notin {"BEGIN", "END_NODE"}
      BY DEF Quiet
    <3>1. k - off \in 2 .. z /\ k - off \in 1 .. z + 1 /\ off + (k - off) = k
      BY <1>1, <1>2
    <3>2. r[k] = new[k - off]
      BY <1>3, <3>1
    <3> QED
      BY <1>1, <3>1, <3>2
  <2>2. off + 1 \in Nat /\ off + z \in Nat /\ off + 1 <= off + z /\ off + z <= Len(r)
        /\ off + z \in off + 1 .. off + z
    BY <1>1, <1>2
  <2>3. \A k \in off + 1 .. off + z : q[k] = q[off + 1]
    BY <1>2, <2>1, <2>2, PathsQuiet
  <2> QED
    BY <1>5, <2>2, <2>3
<1>7. q[off + Len(new)] = p[off]
  <2>1. z + 1 \in 1 .. z + 1 /\ (off + (z + 1)) - 1 = off + z
    BY <1>1, <1>2
  <2>2. off + (z + 1) \in 1 .. Len(r) /\ r[off + (z + 1)].tag = "END_NODE"
    BY <1>1, <1>3, <2>1
  <2>3. q[off + (z + 1)] = ParentPath(q[(off + (z + 1)) - 1])
    BY <1>2, <2>2 DEF PathsAre
  <2>4. ParentPath(x) = p[off]
    BY <1>2, PathLonger
  <2> HIDE DEF x
  <2> QED
    BY <1>1, <1>6, <2>1, <2>3, <2>4
<1>8. Rejoins(ws, r, off, 0, new)
  <2>1. off + 0 = off /\ 0 \in Nat
    BY <1>2
  <2> QED
    BY <1>2, <1>7, <2>1 DEF PutIn, Rejoins, p, q
<1>9. StaysOwned(ws, r, off, 0, Len(new))
  <2> SUFFICES ASSUME NEW j, NEW k, Owns(ws, j, k), j <= off + 0, k > off + 0
               PROVE  FALSE
    BY DEF StaysOwned
  <2>1. /\ j \in 1 .. Len(ws) /\ k \in 1 .. Len(ws) /\ j < k /\ Quiet(ws, j, k)
        /\ ws[k].tag = "PROP"
    BY OwnsIs
  <2>2. off + 1 \in j + 1 .. k
    BY <1>2, <2>1
  <2> QED
    BY <2>1, <2>2 DEF Quiet
<1>10. NewFirst(r, off, Len(new))
  <2> SUFFICES ASSUME NEW k \in off + 1 .. off + Len(new), k # off + 1
               PROVE  r[k].tag \notin {"BEGIN", "PROP"}
    BY DEF NewFirst
  <2>1. k - off \in 1 .. z + 1 /\ off + (k - off) = k
        /\ (k - off \in 2 .. z \/ k - off = z + 1)
    BY <1>1, <1>2
  <2>2. r[k] = new[k - off]
    BY <1>3, <2>1
  <2> QED
    BY <1>1, <2>1, <2>2
<1>11. NewPath(ws, r, off, 0)
  BY <1>5 DEF NewPath, NameFree, p, q
<1>12. Fresh(ws, r, off, 0, Len(new))
  BY <1>5, <1>9, <1>10, <1>11 DEF Fresh
<1>13. Ordered(r)
  BY <1>8, <1>12, FreshOrdered
<1>14. Len(new) > 0
  BY <1>1
<1>15. OpenPath(r)[off + 1] = Append(OpenPath(ws)[off], name)
  BY <1>5 DEF p, q
<1> QED
  BY <1>5, <1>8, <1>12, <1>13, <1>14, <1>15 DEF NodeIsIn, new
\* The node whose path is a name longer is a subnode, and is found.
LEMMA ChildFound ==
    ASSUME NEW b, Sound(b), Nested(b.words), PathsDiffer(b.words), NEW node \in Nat,
           node + 1 \in NodeWords(b.words), NEW l \in NodeWords(b.words), NEW name,
           OpenPath(b.words)[l] = Append(OpenPath(b.words)[node + 1], name)
    PROVE  fdt_subnode_offset(b, node, name) >= 0
<1> DEFINE ws == b.words
           d == Depths(ws)
           p == OpenPath(ws)
           c == l - 1
<1>1. /\ Block(ws) /\ Nested(ws) /\ Len(ws) \in Nat /\ DOMAIN ws = 1 .. Len(ws)
      /\ DepthsAre(ws, d) /\ PathsAre(ws, p)
  BY BlockMeans, DepthsExist, OpenPathIs DEF Sound, Agrees
<1> HIDE DEF p, d
<1>2. /\ l \in 1 .. Len(ws) /\ ws[l].tag = "BEGIN" /\ node + 1 \in 1 .. Len(ws)
      /\ ws[node + 1].tag = "BEGIN" /\ c \in Nat /\ c + 1 = l
      /\ c \in 0 .. Len(ws) /\ node \in 0 .. Len(ws) /\ l \in 0 .. Len(ws)
      /\ node + 1 \in 0 .. Len(ws)
  BY <1>1 DEF NodeWords
<1>3. IsPath(p[c]) /\ IsPath(p[node]) /\ IsPath(p[node + 1]) /\ IsPath(p[l])
  BY <1>1, <1>2, PathSeq DEF p
<1>4. p[l] = Append(p[c], ws[l].name) /\ p[l] = Append(p[node + 1], name)
  <2>1. p[l] = Append(p[c], ws[l].name)
    BY <1>1, <1>2 DEF PathsAre
  <2> QED
    BY <2>1 DEF p
<1>5. p[c] = p[node + 1] /\ ws[l].name = name
  <2> DEFINE s == p[c]
             t == p[node + 1]
             x == ws[l].name
  <2>1. IsPath(s) /\ IsPath(t) /\ Append(s, x) = Append(t, name)
    BY <1>3, <1>4
  <2> HIDE DEF s, t, x
  <2>2. s = t /\ x = name
    BY <2>1, AppendedSame
  <2> QED
    BY <2>2 DEF s, t, x
<1>6. d[c] \in Nat /\ d[node] \in Nat /\ d[c] = d[node] + 1
  <2>1. \A k \in 0 .. Len(ws) : d[k] \in Nat
    BY <1>1, NestedDepths DEF d
  <2>2. Len(p[c]) = d[c] /\ Len(p[node + 1]) = d[node + 1]
    BY <1>1, <1>2, PathLengths DEF d
  <2>3. d[node + 1] = d[node] + 1
    <3>1. (node + 1) - 1 = node /\ opens(ws[node + 1]) = 1
      BY <1>2, Opens
    <3>2. d[node + 1] = d[(node + 1) - 1] + opens(ws[node + 1])
      BY <1>1, <1>2 DEF DepthsAre
    <3> QED
      BY <3>1, <3>2
  <2> QED
    BY <1>2, <1>5, <2>1, <2>2, <2>3
<1>7. PICK j : OpenAt(ws, p, d, c, d[c], j)
  <2> DEFINE e == d[c]
  <2>1. e \in Nat /\ 0 < e /\ e <= Depths(ws)[c]
    BY <1>6 DEF d
  <2> HIDE DEF e
  <2>2. \E j : OpenAt(ws, p, Depths(ws), c, e, j)
    BY <1>1, <1>2, <2>1, OpenNode
  <2> QED
    BY <2>2 DEF d, e
<1>8. /\ j \in 0 .. c - 1 /\ ws[j + 1].tag = "BEGIN" /\ Stays(d, j, c)
      /\ Extends(p[c], p[j + 1], 0)
  BY <1>6, <1>7 DEF OpenAt
<1>9. p[c] = p[j + 1] /\ j + 1 \in NodeWords(ws)
  <2>1. j + 1 \in 0 .. Len(ws) /\ j + 1 \in 1 .. Len(ws)
    BY <1>1, <1>2, <1>8
  <2>2. IsPath(p[j + 1])
    BY <1>1, <2>1, PathSeq DEF p
  <2> QED
    BY <1>1, <1>3, <1>8, <2>1, <2>2, PathsSame DEF NodeWords
<1>10. j = node
  <2>1. j + 1 = node + 1
    BY <1>5, <1>9 DEF PathsDiffer, p
  <2> QED
    BY <1>8, <2>1
<1>11. /\ c \in Starts(ws) /\ node \in Starts(ws) /\ node < c
       /\ At(b, c).tag = "BEGIN" /\ At(b, node).tag = "BEGIN" /\ At(b, c).name = name
  BY <1>1, <1>2, <1>5, <1>8, <1>10 DEF Starts, At
<1>12. IsNode(b, node, node + tag_words(At(b, node)))
  BY <1>1, <1>11, NodeIs
<1>13. Stays(Depths(ws), node, c) /\ Depths(ws)[c] = Depths(ws)[node] + 1
  BY <1>6, <1>8, <1>10 DEF d
<1> HIDE DEF c
<1>14. fdt_subnode_offset(b, node, At(b, c).name) >= 0
  BY <1>1, <1>11, <1>12, <1>13, SubnodeThere
<1> QED
  BY <1>11, <1>14
-----------------------------------------------------------------------------
(* A node that gets another name                                           *)

LEMMA PathLen ==
    ASSUME NEW s, IsPath(s)
    PROVE  Len(s) \in Nat /\ s = [i \in 1 .. Len(s) |-> s[i]]
<1>1. PICK S : s \in Seq(S)
  BY DEF IsPath
<1> QED
  BY <1>1

LEMMA PathsEqual ==
    ASSUME NEW s, NEW t, IsPath(s), IsPath(t), Len(s) = Len(t),
           \A i \in 1 .. Len(s) : s[i] = t[i]
    PROVE  s = t
<1>1. Len(s) \in Nat /\ Len(t) \in Nat
  BY PathLen
<1>2. Extends(s, t, 0)
  BY <1>1 DEF Extends
<1> QED
  BY <1>2, PathsSame

Ren(s, l, x) == [s EXCEPT ![l] = x]

LEMMA RenPath ==
    ASSUME NEW s, IsPath(s), NEW l \in 1 .. Len(s), NEW x
    PROVE  /\ IsPath(Ren(s, l, x)) /\ Len(Ren(s, l, x)) = Len(s)
           /\ \A i \in 1 .. Len(s) : Ren(s, l, x)[i] = IF i = l THEN x ELSE s[i]
<1>1. PICK S : s \in Seq(S)
  BY DEF IsPath
<1> DEFINE T == S \cup {x}
           a == [s EXCEPT ![l] = x]
<1>2. s \in Seq(T) /\ x \in T
  BY <1>1
<1> HIDE DEF T
<1>3. /\ a \in Seq(T) /\ Len(a) = Len(s)
      /\ \A i \in 1 .. Len(s) : a[i] = IF i = l THEN x ELSE s[i]
  BY <1>2
<1> HIDE DEF a
<1>4. IsPath(a)
  BY <1>3 DEF IsPath
<1> QED
  BY <1>3, <1>4 DEF Ren, a

LEMMA ParentIs ==
    ASSUME NEW s, IsPath(s), Len(s) > 0
    PROVE  /\ IsPath(ParentPath(s)) /\ Len(ParentPath(s)) = Len(s) - 1
           /\ \A i \in 1 .. Len(s) - 1 : ParentPath(s)[i] = s[i]
<1>1. PICK S : s \in Seq(S)
  BY DEF IsPath
<1> DEFINE a == SubSeq(s, 1, Len(s) - 1)
<1>2. /\ a \in Seq(S) /\ Len(a) = Len(s) - 1 /\ \A i \in 1 .. Len(s) - 1 : a[i] = s[i]
  <2> DEFINE z == Len(s) - 1
  <2>1. z \in Nat /\ Len(s) = z + 1 /\ Len(s) \in Nat
    BY <1>1
  <2>2. a = SubSeq(s, 1, z)
    OBVIOUS
  <2> HIDE DEF z, a
  <2>3. a \in Seq(S) /\ Len(a) = z
    BY <1>1, <2>1, <2>2
  <2>4. \A i \in 1 .. z : a[i] = s[i]
    BY <1>1, <2>1, <2>2
  <2> QED
    BY <2>3, <2>4 DEF z
<1> HIDE DEF a
<1>3. IsPath(a)
  BY <1>2 DEF IsPath
<1> QED
  BY <1>2, <1>3 DEF ParentPath, a

LEMMA RenAppend ==
    ASSUME NEW s, IsPath(s), NEW l \in 1 .. Len(s), NEW x, NEW y
    PROVE  Append(Ren(s, l, x), y) = Ren(Append(s, y), l, x)
<1> DEFINE a == Ren(s, l, x)
           c == Append(s, y)
           u == Append(a, y)
           v == Ren(c, l, x)
<1>1. /\ IsPath(a) /\ Len(a) = Len(s) /\ Len(s) \in Nat
      /\ \A i \in 1 .. Len(s) : a[i] = IF i = l THEN x ELSE s[i]
  BY RenPath, PathLen
<1>2. /\ IsPath(c) /\ Len(c) = Len(s) + 1 /\ c[Len(s) + 1] = y
      /\ \A i \in 1 .. Len(s) : c[i] = s[i]
  BY PathLonger
<1> HIDE DEF a, c
<1>3. l \in 1 .. Len(c) /\ l \in 1 .. Len(s)
  BY <1>1, <1>2
<1>4. /\ IsPath(v) /\ Len(v) = Len(c)
      /\ \A i \in 1 .. Len(c) : v[i] = IF i = l THEN x ELSE c[i]
  BY <1>2, <1>3, RenPath
<1>5. /\ IsPath(u) /\ Len(u) = Len(a) + 1 /\ u[Len(a) + 1] = y
      /\ \A i \in 1 .. Len(a) : u[i] = a[i]
  BY <1>1, PathLonger
<1> HIDE DEF u, v
<1>6. \A i \in 1 .. Len(u) : u[i] = v[i]
  <2> SUFFICES ASSUME NEW i \in 1 .. Len(u) PROVE u[i] = v[i]
    OBVIOUS
  <2>1. i \in 1 .. Len(s) \/ (i = Len(s) + 1 /\ i # l)
    BY <1>1, <1>3, <1>5
  <2>2. i \in 1 .. Len(c)
    BY <1>1, <1>2, <1>5
  <2>3. CASE i \in 1 .. Len(s)
    BY <1>1, <1>2, <1>4, <1>5, <2>2, <2>3
  <2>4. CASE i = Len(s) + 1 /\ i # l
    BY <1>1, <1>2, <1>4, <1>5, <2>2, <2>4
  <2> QED
    BY <2>1, <2>3, <2>4
<1>7. Len(u) = Len(v)
  BY <1>1, <1>2, <1>4, <1>5
<1>8. u = v
  BY <1>4, <1>5, <1>6, <1>7, PathsEqual
<1> QED
  BY <1>8 DEF u, v, a, c

LEMMA RenParent ==
    ASSUME NEW s, IsPath(s), NEW l \in 1 .. Len(s) - 1, NEW x
    PROVE  ParentPath(Ren(s, l, x)) = Ren(ParentPath(s), l, x)
<1> DEFINE a == Ren(s, l, x)
           c == ParentPath(s)
           u == ParentPath(a)
           v == Ren(c, l, x)
<1>0. Len(s) \in Nat /\ l \in 1 .. Len(s) /\ Len(s) > 0
  BY PathLen
<1>1. /\ IsPath(a) /\ Len(a) = Len(s)
      /\ \A i \in 1 .. Len(s) : a[i] = IF i = l THEN x ELSE s[i]
  BY <1>0, RenPath
<1>2. /\ IsPath(c) /\ Len(c) = Len(s) - 1
      /\ \A i \in 1 .. Len(s) - 1 : c[i] = s[i]
  BY <1>0, ParentIs
<1> HIDE DEF a, c
<1>3. l \in 1 .. Len(c)
  BY <1>2
<1>4. /\ IsPath(v) /\ Len(v) = Len(c)
      /\ \A i \in 1 .. Len(c) : v[i] = IF i = l THEN x ELSE c[i]
  BY <1>2, <1>3, RenPath
<1>5. /\ IsPath(u) /\ Len(u) = Len(a) - 1
      /\ \A i \in 1 .. Len(a) - 1 : u[i] = a[i]
  <2>1. Len(a) > 0
    BY <1>0, <1>1
  <2> QED
    BY <1>1, <2>1, ParentIs
<1> HIDE DEF u, v
<1>6. \A i \in 1 .. Len(u) : u[i] = v[i]
  <2> SUFFICES ASSUME NEW i \in 1 .. Len(u) PROVE u[i] = v[i]
    OBVIOUS
  <2>1. i \in 1 .. Len(s) - 1 /\ i \in 1 .. Len(s) /\ i \in 1 .. Len(c) /\ i \in 1 .. Len(a) - 1
    BY <1>0, <1>1, <1>2, <1>5
  <2> QED
    BY <1>1, <1>2, <1>4, <1>5, <2>1
<1>7. Len(u) = Len(v)
  BY <1>1, <1>2, <1>4, <1>5
<1>8. u = v
  BY <1>4, <1>5, <1>6, <1>7, PathsEqual
<1> QED
  BY <1>8 DEF u, v, a, c

\* The same tags behind a path and behind that path with a name replaced.
RenFrom(p, lo, q, lo2, n, l, x) == \A i \in 0 .. n : q[lo2 + i] = Ren(p[lo + i], l, x)

LEMMA PathsRenamed ==
    ASSUME NEW ws, Len(ws) \in Nat, NEW r, Len(r) \in Nat,
           NEW lo \in Nat, NEW lo2 \in Nat, NEW n \in Nat,
           lo + n <= Len(ws), lo2 + n <= Len(r), NEW l \in Nat, l > 0, NEW x,
           AlikeFrom(ws, lo, r, lo2, n),
           OpenPath(r)[lo2] = Ren(OpenPath(ws)[lo], l, x),
           \A i \in lo .. lo + n : Len(OpenPath(ws)[i]) >= l
    PROVE  RenFrom(OpenPath(ws), lo, OpenPath(r), lo2, n, l, x)
<1> DEFINE p == OpenPath(ws)
           q == OpenPath(r)
           T == {i \in Nat : i <= n => q[lo2 + i] = Ren(p[lo + i], l, x)}
<1>0. PathsAre(ws, p) /\ PathsAre(r, q)
  BY OpenPathIs
<1>a. \A i \in 0 .. Len(ws) : IsPath(p[i]) /\ Len(p[i]) \in Nat
  BY PathSeq, PathLen
<1> HIDE DEF p, q
<1>1. 0 \in T
  BY DEF p, q
<1>2. ASSUME NEW i \in Nat, i \in T PROVE i + 1 \in T
  <2> SUFFICES ASSUME i + 1 <= n PROVE q[lo2 + (i + 1)] = Ren(p[lo + (i + 1)], l, x)
    OBVIOUS
  <2> DEFINE k == lo + (i + 1)
             k2 == lo2 + (i + 1)
  <2>1. /\ k \in 1 .. Len(ws) /\ k2 \in 1 .. Len(r) /\ k - 1 = lo + i /\ k2 - 1 = lo2 + i
        /\ i + 1 \in 1 .. n /\ k \in 0 .. Len(ws) /\ k - 1 \in 0 .. Len(ws)
        /\ k \in lo .. lo + n /\ k - 1 \in lo .. lo + n
    OBVIOUS
  <2>2. q[k2 - 1] = Ren(p[k - 1], l, x)
    BY <1>2, <2>1
  <2>3. Alike(ws[k], r[k2])
    BY <2>1 DEF AlikeFrom
  <2> HIDE DEF k, k2
  <2> DEFINE s == p[k - 1]
  <2>4. IsPath(s) /\ Len(s) \in Nat /\ Len(s) >= l /\ Len(p[k]) \in Nat /\ Len(p[k]) >= l
    BY <1>a, <2>1 DEF p
  <2>5. /\ ws[k].tag = "BEGIN" => p[k] = Append(s, ws[k].name)
        /\ ws[k].tag = "END_NODE" => p[k] = ParentPath(s)
        /\ ws[k].tag \notin {"BEGIN", "END_NODE"} => p[k] = s
    BY <1>0, <2>1 DEF PathsAre
  <2>6. /\ r[k2].tag = "BEGIN" => q[k2] = Append(q[k2 - 1], r[k2].name)
        /\ r[k2].tag = "END_NODE" => q[k2] = ParentPath(q[k2 - 1])
        /\ r[k2].tag \notin {"BEGIN", "END_NODE"} => q[k2] = q[k2 - 1]
    BY <1>0, <2>1 DEF PathsAre
  <2> HIDE DEF s
  <2>7. q[k2 - 1] = Ren(s, l, x) /\ l \in 1 .. Len(s)
    BY <2>2, <2>4 DEF s
  <2>8. CASE ws[k].tag = "BEGIN"
    <3>1. r[k2].tag = "BEGIN" /\ r[k2].name = ws[k].name
      BY <2>3, <2>8 DEF Alike
    <3>2. Append(Ren(s, l, x), ws[k].name) = Ren(Append(s, ws[k].name), l, x)
      BY <2>4, <2>7, RenAppend
    <3> QED
      BY <2>5, <2>6, <2>7, <2>8, <3>1, <3>2 DEF k, k2
  <2>9. CASE ws[k].tag = "END_NODE"
    <3>1. r[k2].tag = "END_NODE" /\ p[k] = ParentPath(s)
      BY <2>3, <2>5, <2>9 DEF Alike
    <3>2. l \in 1 .. Len(s) - 1
      <4>1. Len(s) > 0
        BY <2>4
      <4>2. Len(p[k]) = Len(s) - 1
        BY <2>4, <3>1, <4>1, ParentIs
      <4> QED
        BY <2>4, <4>2
    <3>3. ParentPath(Ren(s, l, x)) = Ren(ParentPath(s), l, x)
      BY <2>4, <3>2, RenParent
    <3> QED
      BY <2>6, <2>7, <3>1, <3>3 DEF k, k2
  <2>10. CASE ws[k].tag \notin {"BEGIN", "END_NODE"}
    <3>1. r[k2].tag \notin {"BEGIN", "END_NODE"}
      BY <2>3, <2>10 DEF Alike
    <3> QED
      BY <2>5, <2>6, <2>7, <2>10, <3>1 DEF k, k2
  <2> QED
    BY <2>8, <2>9, <2>10
<1>3. \A i \in Nat : i \in T
  <2> HIDE DEF T
  <2> QED
    BY <1>1, <1>2, NatSetInduction
<1>4. \A i \in 0 .. n : q[lo2 + i] = Ren(p[lo + i], l, x)
  BY <1>3
<1> QED
  BY <1>4 DEF RenFrom, p, q
\* Path s is path t or lies below it.
Under(s, t) == Len(t) <= Len(s) /\ \A i \in 1 .. Len(t) : s[i] = t[i]

\* Whatever a path lies below is the path of a node that is open there.
LEMMA Ancestor ==
    ASSUME NEW ws, Block(ws), Nested(ws), NEW k \in 0 .. Len(ws),
           NEW y, IsPath(y), Len(y) > 0, Under(OpenPath(ws)[k], y)
    PROVE  \E j \in NodeWords(ws) :
              /\ OpenPath(ws)[j] = y /\ j <= k /\ Stays(Depths(ws), j - 1, k)
<1> DEFINE d == Depths(ws)
           p == OpenPath(ws)
           l == Len(y)
<1>1. /\ Len(ws) \in Nat /\ DOMAIN ws = 1 .. Len(ws) /\ PathsAre(ws, p)
      /\ l \in Nat /\ \A i \in 0 .. Len(ws) : d[i] \in Nat
  BY BlockMeans, NestedDepths, OpenPathIs, PathLen
<1>2. Len(p[k]) = d[k]
  BY <1>1, PathLengths
<1>3. l <= d[k] /\ l > 0
  BY <1>2 DEF Under
<1>4. PICK j : OpenAt(ws, p, d, k, l, j)
  <2>1. l <= Depths(ws)[k]
    BY <1>3
  <2> HIDE DEF l, p
  <2> QED
    BY <1>1, <1>3, <2>1, OpenNode
<1>5. /\ j \in 0 .. k - 1 /\ ws[j + 1].tag = "BEGIN" /\ Stays(d, j, k)
      /\ Extends(p[k], p[j + 1], d[k] - l)
  BY <1>4 DEF OpenAt
<1>6. j + 1 \in 1 .. Len(ws) /\ j + 1 \in 0 .. Len(ws) /\ j + 1 <= k /\ (j + 1) - 1 = j
  BY <1>1, <1>5
<1>7. IsPath(p[j + 1]) /\ Len(p[j + 1]) \in Nat /\ d[k] \in Nat
  BY <1>1, <1>6, PathSeq, PathLen
<1> HIDE DEF p, d
<1>8. p[j + 1] = y
  <2>1. Len(p[k]) = Len(p[j + 1]) + (d[k] - l)
    BY <1>5 DEF Extends
  <2>2. Len(p[j + 1]) = l
    BY <1>1, <1>2, <1>7, <2>1
  <2>3. \A i \in 1 .. Len(p[j + 1]) : p[j + 1][i] = y[i]
    <3> SUFFICES ASSUME NEW i \in 1 .. Len(p[j + 1]) PROVE p[j + 1][i] = y[i]
      OBVIOUS
    <3>1. p[k][i] = p[j + 1][i]
      BY <1>5 DEF Extends
    <3>2. p[k][i] = y[i]
      BY <2>2 DEF Under, p
    <3> QED
      BY <3>1, <3>2
  <2> QED
    BY <1>7, <2>2, <2>3, PathsEqual
<1>9. j + 1 \in NodeWords(ws)
  BY <1>1, <1>5, <1>6 DEF NodeWords
<1> QED
  BY <1>5, <1>6, <1>8, <1>9 DEF p, d

\* e is where the node at the offset ends.
EndsAt(ws, node, e) ==
    /\ node \in Nat /\ e \in Nat /\ node < e /\ e <= Len(ws)
    /\ node + 1 \in NodeWords(ws)
    /\ Depths(ws)[e] = Depths(ws)[node] /\ Stays(Depths(ws), node, e - 1)

\* How deep it is inside the node.
LEMMA InsideDepths ==
    ASSUME NEW ws, Block(ws), Nested(ws), NEW node, NEW e, EndsAt(ws, node, e)
    PROVE  /\ Len(ws) \in Nat /\ DepthsAre(ws, Depths(ws))
           /\ \A k \in 0 .. Len(ws) : Depths(ws)[k] \in Nat
           /\ Depths(ws)[node + 1] = Depths(ws)[node] + 1
           /\ node + 1 < e /\ ws[e].tag = "END_NODE"
           /\ Depths(ws)[e - 1] = Depths(ws)[node] + 1
           /\ \A k \in node + 1 .. e - 1 : Depths(ws)[k] >= Depths(ws)[node + 1]
<1> DEFINE d == Depths(ws)
<1>1. /\ Len(ws) \in Nat /\ DepthsAre(ws, d) /\ \A k \in 0 .. Len(ws) : d[k] \in Nat
  BY NestedDepths
<1>2. /\ node \in Nat /\ e \in Nat /\ node < e /\ e <= Len(ws)
      /\ node + 1 \in 1 .. Len(ws) /\ ws[node + 1].tag = "BEGIN"
      /\ d[e] = d[node] /\ Stays(d, node, e - 1)
  BY BlockMeans DEF EndsAt, NodeWords
<1> HIDE DEF d
<1>3. d[node + 1] = d[node] + 1
  <2>1. d[node + 1] = d[(node + 1) - 1] + opens(ws[node + 1]) /\ (node + 1) - 1 = node
    BY <1>1, <1>2 DEF DepthsAre
  <2>2. opens(ws[node + 1]) = 1
    BY <1>2, Opens
  <2> QED
    BY <2>1, <2>2
<1>4. /\ node \in 0 .. Len(ws) /\ node + 1 \in 0 .. Len(ws) /\ e \in 0 .. Len(ws)
      /\ e \in 1 .. Len(ws) /\ e - 1 \in 0 .. Len(ws)
  BY <1>1, <1>2
<1>5. d[node] \in Nat /\ d[e] \in Nat /\ d[e - 1] \in Nat
  BY <1>1, <1>4
<1>6. node + 1 < e
  <2>1. node + 1 # e
    BY <1>2, <1>3, <1>5
  <2> QED
    BY <1>2, <2>1
<1>7. \A k \in node + 1 .. e - 1 : d[k] >= d[node + 1]
  <2> SUFFICES ASSUME NEW k \in node + 1 .. e - 1 PROVE d[k] >= d[node + 1]
    OBVIOUS
  <2>1. d[k] > d[node]
    BY <1>2 DEF Stays
  <2>2. k \in 0 .. Len(ws)
    BY <1>2, <1>4
  <2>3. d[k] \in Nat
    BY <1>1, <2>2
  <2> QED
    BY <1>3, <1>5, <2>1, <2>3
<1>8. ws[e].tag = "END_NODE" /\ d[e - 1] = d[node] + 1
  <2>1. d[e - 1] > d[node]
    <3>1. e - 1 \in node + 1 .. e - 1
      BY <1>2, <1>6
    <3> QED
      BY <1>2, <3>1 DEF Stays
  <2>2. d[e] = d[e - 1] + opens(ws[e]) /\ opens(ws[e]) \in {-1, 0, 1}
    BY <1>1, <1>4, Opens DEF DepthsAre
  <2>3. opens(ws[e]) = -1 /\ d[e - 1] = d[node] + 1
    BY <1>2, <1>5, <2>1, <2>2
  <2>4. ws[e].tag = "END_NODE"
    BY <2>3, Opens
  <2> QED
    BY <2>3, <2>4
<1> QED
  BY <1>1, <1>3, <1>6, <1>7, <1>8 DEF d

\* The paths below a node's are those of the words inside it.
LEMMA UnderNode ==
    ASSUME NEW ws, Block(ws), Nested(ws), PathsDiffer(ws), NEW node, NEW e,
           EndsAt(ws, node, e), NEW k \in 0 .. Len(ws)
    PROVE  Under(OpenPath(ws)[k], OpenPath(ws)[node + 1]) <=> node < k /\ k < e
<1> DEFINE d == Depths(ws)
           p == OpenPath(ws)
<1>1. /\ Len(ws) \in Nat /\ DepthsAre(ws, d) /\ \A i \in 0 .. Len(ws) : d[i] \in Nat
      /\ d[node + 1] = d[node] + 1 /\ node + 1 < e
      /\ \A i \in node + 1 .. e - 1 : d[i] >= d[node + 1]
  BY InsideDepths
<1>2. /\ node \in Nat /\ e \in Nat /\ node < e /\ e <= Len(ws) /\ d[e] = d[node]
      /\ node + 1 \in NodeWords(ws) /\ node + 1 \in 0 .. Len(ws)
  BY <1>1 DEF EndsAt
<1>3. PathsAre(ws, p)
  BY <1>1, OpenPathIs
<1>4. ASSUME node < k, k < e PROVE Under(p[k], p[node + 1])
  <2> DEFINE lo == node + 1
             hi == e - 1
  <2>1. /\ lo \in Nat /\ hi \in Nat /\ lo <= hi /\ hi <= Len(ws)
        /\ \A i \in lo .. hi : d[i] >= d[lo]
    BY <1>1, <1>2
  <2> HIDE DEF lo, hi, p, d
  <2>2. \A i \in lo .. hi : Extends(p[i], p[lo], d[i] - d[lo])
    BY <1>1, <1>3, <2>1, PathsBelow
  <2>3. k \in lo .. hi /\ k \in 0 .. Len(ws) /\ lo \in 0 .. Len(ws)
    BY <1>2, <1>4 DEF lo, hi
  <2>4. Extends(p[k], p[lo], d[k] - d[lo]) /\ d[k] >= d[lo] /\ d[k] \in Nat /\ d[lo] \in Nat
    BY <1>1, <2>1, <2>2, <2>3
  <2>5. Len(p[lo]) \in Nat
    BY <1>1, <2>3, PathSeq, PathLen DEF p
  <2>6. Len(p[k]) = Len(p[lo]) + (d[k] - d[lo]) /\ \A i \in 1 .. Len(p[lo]) : p[k][i] = p[lo][i]
    BY <2>4 DEF Extends
  <2>7. Len(p[lo]) <= Len(p[k])
    BY <2>4, <2>5, <2>6
  <2> QED
    BY <2>6, <2>7 DEF Under, lo
<1>5. ASSUME Under(p[k], p[node + 1]) PROVE node < k /\ k < e
  <2> DEFINE y == p[node + 1]
  <2>1. IsPath(y) /\ Len(y) > 0
    <3>1. Len(y) = d[node + 1] /\ d[node] \in Nat
      <4>1. node \in 0 .. Len(ws)
        BY <1>2
      <4> QED
        BY <1>1, <1>2, <1>3, <4>1, PathLengths
    <3>2. IsPath(y)
      BY <1>1, <1>2, PathSeq
    <3> HIDE DEF y, d
    <3> QED
      BY <1>1, <3>1, <3>2
  <2> HIDE DEF y
  <2>2. Under(p[k], y)
    BY <1>5 DEF y
  <2>3. PICK j \in NodeWords(ws) : p[j] = y /\ j <= k /\ Stays(d, j - 1, k)
    BY <2>1, <2>2, Ancestor
  <2>4. j = node + 1
    BY <1>2, <2>3 DEF y, PathsDiffer
  <2>5. Stays(d, node, k) /\ node < k
    <3>1. j - 1 = node
      BY <1>2, <2>4
    <3> QED
      BY <1>2, <2>3, <2>4, <3>1
  <2>6. k < e
    <3> SUFFICES ASSUME ~(k < e) PROVE FALSE
      OBVIOUS
    <3> HIDE DEF d
    <3>1. e \in node + 1 .. k /\ node \in 0 .. Len(ws)
      BY <1>1, <1>2
    <3>2. d[e] > d[node]
      BY <2>5, <3>1 DEF Stays
    <3>3. d[node] \in Nat
      BY <1>1, <3>1
    <3> QED
      BY <1>2, <3>2, <3>3
  <2> QED
    BY <2>5, <2>6
<1> QED
  BY <1>4, <1>5
LEMMA RenLast ==
    ASSUME NEW s, IsPath(s), NEW x, NEW y
    PROVE  Ren(Append(s, y), Len(s) + 1, x) = Append(s, x)
<1> DEFINE a == Append(s, y)
           u == Ren(a, Len(s) + 1, x)
           v == Append(s, x)
<1>1. /\ IsPath(a) /\ Len(a) = Len(s) + 1 /\ Len(s) \in Nat
      /\ \A i \in 1 .. Len(s) : a[i] = s[i]
  BY PathLonger
<1>2. /\ IsPath(v) /\ Len(v) = Len(s) + 1 /\ v[Len(s) + 1] = x
      /\ \A i \in 1 .. Len(s) : v[i] = s[i]
  BY PathLonger
<1> HIDE DEF a, v
<1>3. Len(s) + 1 \in 1 .. Len(a)
  BY <1>1
<1>4. /\ IsPath(u) /\ Len(u) = Len(a)
      /\ \A i \in 1 .. Len(a) : u[i] = IF i = Len(s) + 1 THEN x ELSE a[i]
  BY <1>1, <1>3, RenPath
<1> HIDE DEF u
<1>5. \A i \in 1 .. Len(u) : u[i] = v[i]
  <2> SUFFICES ASSUME NEW i \in 1 .. Len(u) PROVE u[i] = v[i]
    OBVIOUS
  <2>1. i \in 1 .. Len(a) /\ (i = Len(s) + 1 \/ (i \in 1 .. Len(s) /\ i # Len(s) + 1))
    BY <1>1, <1>4
  <2> QED
    BY <1>1, <1>2, <1>4, <2>1
<1>6. u = v
  BY <1>1, <1>2, <1>4, <1>5, PathsEqual
<1> QED
  BY <1>6 DEF u, v, a

LEMMA ParentRenLast ==
    ASSUME NEW s, IsPath(s), Len(s) > 0, NEW x
    PROVE  ParentPath(Ren(s, Len(s), x)) = ParentPath(s)
<1> DEFINE a == Ren(s, Len(s), x)
           u == ParentPath(a)
           v == ParentPath(s)
<1>1. Len(s) \in Nat /\ Len(s) \in 1 .. Len(s)
  BY PathLen
<1>2. /\ IsPath(a) /\ Len(a) = Len(s)
      /\ \A i \in 1 .. Len(s) : a[i] = IF i = Len(s) THEN x ELSE s[i]
  BY <1>1, RenPath
<1> HIDE DEF a
<1>3. /\ IsPath(v) /\ Len(v) = Len(s) - 1 /\ \A i \in 1 .. Len(s) - 1 : v[i] = s[i]
  BY ParentIs
<1>4. /\ IsPath(u) /\ Len(u) = Len(a) - 1 /\ \A i \in 1 .. Len(a) - 1 : u[i] = a[i]
  <2>1. Len(a) > 0
    BY <1>2
  <2> QED
    BY <1>2, <2>1, ParentIs
<1> HIDE DEF u, v
<1>5. \A i \in 1 .. Len(u) : u[i] = v[i]
  <2> SUFFICES ASSUME NEW i \in 1 .. Len(u) PROVE u[i] = v[i]
    OBVIOUS
  <2>1. i \in 1 .. Len(s) - 1 /\ i \in 1 .. Len(s) /\ i # Len(s) /\ i \in 1 .. Len(a) - 1
    BY <1>1, <1>2, <1>4
  <2> QED
    BY <1>2, <1>3, <1>4, <2>1
<1>6. Len(u) = Len(v)
  BY <1>2, <1>3, <1>4
<1>7. u = v
  BY <1>3, <1>4, <1>5, <1>6, PathsEqual
<1> QED
  BY <1>7 DEF u, v, a

\* The BEGIN tag of the node is rewritten with the new name.
Renames(ws, r, node, e, name) ==
    /\ EndsAt(ws, node, e) /\ IsWord(Begin(name))
    /\ PutIn(ws, r, node, tag_words(ws[node + 1]), Unit(Begin(name)))
    /\ Quiet(ws, node + 1, node + tag_words(ws[node + 1]))

LEMMA RenamedWords ==
    ASSUME NEW ws, Block(ws), Nested(ws), NEW r, NEW node, NEW e, NEW name,
           Renames(ws, r, node, e, name)
    PROVE  LET n == tag_words(ws[node + 1])
               m == tag_words(Begin(name))
           IN  /\ n \in Nat \ {0} /\ m \in Nat \ {0} /\ node \in Nat /\ e \in Nat
               /\ Len(ws) \in Nat /\ Len(r) \in Nat /\ Len(r) = Len(ws) - n + m
               /\ node + n < e /\ e <= Len(ws) /\ Block(r)
               /\ r[node + 1] = Begin(name)
               /\ \A k \in node + 2 .. node + m : r[k] = Cont
               /\ \A k \in 1 .. node : r[k] = ws[k]
               /\ \A k \in node + m + 1 .. Len(r) : r[k] = ws[k - m + n]
<1> DEFINE n == tag_words(ws[node + 1])
           m == tag_words(Begin(name))
           new == Unit(Begin(name))
<1>1. m \in Nat \ {0} /\ Len(new) = m /\ new[1] = Begin(name)
      /\ \A k \in 2 .. m : new[k] = Cont
  BY UnitWords, TagWords DEF Renames
<1>2. /\ node \in Nat /\ e \in Nat /\ node < e /\ e <= Len(ws) /\ Len(ws) \in Nat
      /\ node + 1 \in 1 .. Len(ws)
  BY BlockMeans DEF Renames, EndsAt, NodeWords
<1>3. n \in Nat \ {0}
  BY <1>2, BlockMeans
<1>4. node + 1 < e /\ ws[e].tag = "END_NODE"
  BY InsideDepths DEF Renames
<1>5. PutIn(ws, r, node, n, new) /\ Quiet(ws, node + 1, node + n)
  BY DEF Renames
<1> HIDE DEF n, m, new
<1>6. node + n < e
  <2> SUFFICES ASSUME ~(node + n < e) PROVE FALSE
    OBVIOUS
  <2>1. e \in (node + 1) + 1 .. node + n
    BY <1>2, <1>3, <1>4
  <2> QED
    BY <1>4, <1>5, <2>1 DEF Quiet
<1>7. /\ Block(r) /\ Len(r) = Len(ws) - n + m
      /\ \A k \in 1 .. Len(r) :
            r[k] = IF k <= node THEN ws[k]
                   ELSE IF k <= node + m THEN new[k - node] ELSE ws[k - m + n]
  BY <1>1, <1>5 DEF PutIn, IsSplice
<1>8. Len(r) \in Nat /\ node + m <= Len(r)
  BY <1>1, <1>2, <1>3, <1>6, <1>7
<1>9. r[node + 1] = Begin(name)
  <2>1. node + 1 \in 1 .. Len(r) /\ ~(node + 1 <= node) /\ node + 1 <= node + m
        /\ (node + 1) - node = 1
    BY <1>1, <1>2, <1>8
  <2> QED
    BY <1>1, <1>7, <2>1
<1>10. ASSUME NEW k \in node + 2 .. node + m PROVE r[k] = Cont
  <2>1. k \in 1 .. Len(r) /\ ~(k <= node) /\ k <= node + m /\ k - node \in 2 .. m
    BY <1>1, <1>2, <1>8
  <2> QED
    BY <1>1, <1>7, <2>1
<1>11. ASSUME NEW k \in 1 .. node PROVE r[k] = ws[k]
  <2>1. k \in 1 .. Len(r) /\ k <= node
    BY <1>1, <1>2, <1>8
  <2> QED
    BY <1>7, <2>1
<1>12. ASSUME NEW k \in node + m + 1 .. Len(r) PROVE r[k] = ws[k - m + n]
  <2>1. k \in 1 .. Len(r) /\ ~(k <= node) /\ ~(k <= node + m)
    BY <1>1, <1>2, <1>8
  <2> QED
    BY <1>7, <2>1
<1> QED
  BY <1>1, <1>2, <1>3, <1>6, <1>7, <1>8, <1>9, <1>10, <1>11, <1>12 DEF n, m
\* Where a word stood before the node got its name, and the path it had.
OldPlace(ws, node, name, k) ==
    IF k <= node + 1 THEN k ELSE k - tag_words(Begin(name)) + tag_words(ws[node + 1])

NewPathOf(ws, node, e, name, s) ==
    IF node < s /\ s < e
    THEN Ren(OpenPath(ws)[s], Len(OpenPath(ws)[node + 1]), name) ELSE OpenPath(ws)[s]

\* The words that are not part of the BEGIN tag's name.
NotName(node, z, k) == k <= node + 1 \/ k > node + z

LEMMA RenamedPaths ==
    ASSUME NEW ws, Block(ws), Nested(ws), NEW r, NEW node, NEW e, NEW name,
           Renames(ws, r, node, e, name), NEW k \in 1 .. Len(r),
           NotName(node, tag_words(Begin(name)), k)
    PROVE  OpenPath(r)[k] = NewPathOf(ws, node, e, name, OldPlace(ws, node, name, k))
<1> DEFINE n == tag_words(ws[node + 1])
           m == tag_words(Begin(name))
           p == OpenPath(ws)
           q == OpenPath(r)
           l == Len(p[node + 1])
           old == ws[node + 1].name
<1>1. /\ n \in Nat \ {0} /\ m \in Nat \ {0} /\ node \in Nat /\ e \in Nat
      /\ Len(ws) \in Nat /\ Len(r) \in Nat /\ Len(r) = Len(ws) - n + m
      /\ node + n < e /\ e <= Len(ws) /\ Block(r)
      /\ r[node + 1] = Begin(name)
      /\ \A i \in node + 2 .. node + m : r[i] = Cont
      /\ \A i \in 1 .. node : r[i] = ws[i]
      /\ \A i \in node + m + 1 .. Len(r) : r[i] = ws[i - m + n]
  BY RenamedWords
<1>2. PathsAre(ws, p) /\ PathsAre(r, q)
  BY <1>1, OpenPathIs
<1>3. /\ EndsAt(ws, node, e) /\ Quiet(ws, node + 1, node + n)
      /\ IsSplice(r, ws, node, n, Unit(Begin(name))) /\ Len(Unit(Begin(name))) = m
  BY UnitWords DEF Renames, PutIn
<1>4. ws[node + 1].tag = "BEGIN" /\ node + 1 \in 1 .. Len(ws)
  BY <1>1, <1>3, BlockMeans DEF EndsAt, NodeWords
<1> DEFINE d == Depths(ws)
<1>5. /\ ws[e].tag = "END_NODE" /\ d[e - 1] = d[node] + 1 /\ d[node + 1] = d[node] + 1
      /\ (\A i \in node + 1 .. e - 1 : d[i] >= d[node + 1])
      /\ \A i \in 0 .. Len(ws) : d[i] \in Nat
  BY <1>3, InsideDepths
<1>6. \A i \in 0 .. Len(ws) : IsPath(p[i]) /\ Len(p[i]) = d[i]
  BY <1>1, <1>2, PathSeq, PathLengths
<1> HIDE DEF p, q, n, m, d
<1>7. q[node] = p[node] /\ \A i \in 0 .. node : q[i] = p[i]
  <2>1. node + n <= Len(ws) /\ n \in Nat /\ Len(Unit(Begin(name))) \in Nat
    BY <1>1, <1>3
  <2>2. \A i \in 0 .. node : q[i] = p[i]
    BY <1>1, <1>2, <1>3, <2>1, SplicedHead
  <2> QED
    BY <1>1, <2>2
<1>8. /\ node \in 0 .. Len(ws) /\ node + 1 \in 0 .. Len(ws) /\ e - 1 \in 0 .. Len(ws)
      /\ node + 1 \in 1 .. Len(r) /\ e \in 1 .. Len(ws)
  BY <1>1
<1>9. l \in Nat /\ l > 0 /\ l = d[node] + 1 /\ d[node] \in Nat
  BY <1>5, <1>6, <1>8
<1>10. q[node + 1] = Ren(p[node + 1], l, name)
  <2>1. p[node + 1] = Append(p[node], old)
    <3>1. p[node + 1] = Append(p[(node + 1) - 1], ws[node + 1].name)
      BY <1>2, <1>4 DEF PathsAre
    <3>2. (node + 1) - 1 = node
      BY <1>1
    <3> QED
      BY <1>4, <3>1, <3>2
  <2>2. q[node + 1] = Append(q[node], name)
    <3>1. Begin(name).tag = "BEGIN" /\ Begin(name).name = name
      BY DEF Begin, Word
    <3>2. r[node + 1].tag = "BEGIN" /\ r[node + 1].name = name
      BY <1>1, <3>1
    <3>3. q[node + 1] = Append(q[(node + 1) - 1], r[node + 1].name)
      BY <1>2, <1>8, <3>2 DEF PathsAre
    <3>4. (node + 1) - 1 = node
      BY <1>1
    <3> QED
      BY <3>2, <3>3, <3>4
  <2>3. IsPath(p[node]) /\ Len(p[node]) + 1 = l
    BY <1>6, <1>8, <1>9
  <2> HIDE DEF l, old
  <2>4. Ren(Append(p[node], old), Len(p[node]) + 1, name) = Append(p[node], name)
    BY <2>3, RenLast
  <2> QED
    BY <1>7, <2>1, <2>2, <2>3, <2>4
<1>11. p[node + n] = p[node + 1] /\ q[node + m] = q[node + 1]
  <2>1. node + 1 \in Nat /\ node + n \in Nat /\ node + 1 <= node + n /\ node + n <= Len(ws)
        /\ node + n \in node + 1 .. node + n
    BY <1>1
  <2>2. p[node + n] = p[node + 1]
    BY <1>1, <1>2, <1>3, <2>1, PathsQuiet
  <2>3. node + m \in Nat /\ node + 1 <= node + m /\ node + m <= Len(r)
        /\ node + m \in node + 1 .. node + m
    BY <1>1
  <2>4. Quiet(r, node + 1, node + m)
    <3> SUFFICES ASSUME NEW i \in (node + 1) + 1 .. node + m
                 PROVE  r[i].tag \notin {"BEGIN", "END_NODE"}
      BY DEF Quiet
    <3>1. i \in node + 2 .. node + m
      BY <1>1
    <3>2. r[i] = Cont
      BY <1>1, <3>1
    <3>3. Cont.tag = "CONT"
      BY DEF Cont, Word
    <3> QED
      BY <3>2, <3>3
  <2>5. q[node + m] = q[node + 1]
    BY <1>1, <1>2, <2>1, <2>3, <2>4, PathsQuiet
  <2> QED
    BY <2>2, <2>5
<1>12. \A i \in 0 .. e - 1 - (node + n) :
          q[node + m + i] = Ren(p[node + n + i], l, name)
  <2> DEFINE lo == node + n
             lo2 == node + m
             z == e - 1 - (node + n)
  <2>1. lo \in Nat /\ lo2 \in Nat /\ z \in Nat /\ lo + z <= Len(ws) /\ lo2 + z <= Len(r)
        /\ lo + z = e - 1
    BY <1>1
  <2>2. AlikeFrom(ws, lo, r, lo2, z)
    <3> SUFFICES ASSUME NEW i \in 1 .. z PROVE Alike(ws[lo + i], r[lo2 + i])
      BY DEF AlikeFrom
    <3>1. lo2 + i \in node + m + 1 .. Len(r) /\ (lo2 + i) - m + n = lo + i
      BY <1>1
    <3>2. r[lo2 + i] = ws[lo + i]
      BY <1>1, <3>1
    <3> QED
      BY <3>2 DEF Alike
  <2>3. q[lo2] = Ren(p[lo], l, name)
    BY <1>10, <1>11
  <2>4. \A i \in lo .. lo + z : Len(p[i]) >= l
    <3> SUFFICES ASSUME NEW i \in lo .. lo + z PROVE Len(p[i]) >= l
      OBVIOUS
    <3>1. i \in node + 1 .. e - 1 /\ i \in 0 .. Len(ws)
      BY <1>1, <2>1
    <3> QED
      BY <1>5, <1>6, <1>9, <3>1
  <2> HIDE DEF lo, lo2, z, l
  <2>5. RenFrom(p, lo, q, lo2, z, l, name)
    BY <1>1, <1>9, <2>1, <2>2, <2>3, <2>4, PathsRenamed DEF p, q
  <2> QED
    BY <2>5 DEF RenFrom, lo, lo2, z
<1>13. q[e - n + m] = p[e]
  <2> DEFINE s == p[e - 1]
             i == e - 1 - (node + n)
             e2 == e - n + m
  <2>1. i \in 0 .. i /\ node + n + i = e - 1 /\ node + m + i = e2 - 1
        /\ e2 \in 1 .. Len(r) /\ e2 \in node + m + 1 .. Len(r) /\ e2 - m + n = e
    BY <1>1
  <2>2. q[e2 - 1] = Ren(s, l, name)
    BY <1>12, <2>1
  <2>3. r[e2].tag = "END_NODE"
    BY <1>1, <1>5, <2>1
  <2>4. q[e2] = ParentPath(q[e2 - 1])
    BY <1>2, <2>1, <2>3 DEF PathsAre
  <2>5. p[e] = ParentPath(s)
    BY <1>2, <1>5, <1>8 DEF PathsAre
  <2>6. IsPath(s) /\ Len(s) = l /\ Len(s) > 0
    BY <1>5, <1>6, <1>8, <1>9
  <2> HIDE DEF s, e2, l
  <2>7. ParentPath(Ren(s, Len(s), name)) = ParentPath(s)
    BY <2>6, ParentRenLast
  <2> QED
    BY <2>2, <2>4, <2>5, <2>6, <2>7 DEF e2
<1>14. \A i \in 0 .. Len(ws) - e : p[e + i] = q[(e - n + m) + i]
  <2> DEFINE lo == e
             lo2 == e - n + m
             z == Len(ws) - e
  <2>1. lo \in Nat /\ lo2 \in Nat /\ z \in Nat /\ lo + z <= Len(ws) /\ lo2 + z <= Len(r)
    BY <1>1
  <2>2. AlikeFrom(ws, lo, r, lo2, z)
    <3> SUFFICES ASSUME NEW i \in 1 .. z PROVE Alike(ws[lo + i], r[lo2 + i])
      BY DEF AlikeFrom
    <3>1. lo2 + i \in node + m + 1 .. Len(r) /\ (lo2 + i) - m + n = lo + i
      BY <1>1
    <3>2. r[lo2 + i] = ws[lo + i]
      BY <1>1, <3>1
    <3> QED
      BY <3>2 DEF Alike
  <2>3. p[lo] = q[lo2]
    BY <1>13
  <2> HIDE DEF lo, lo2, z
  <2>4. SameFrom(p, lo, q, lo2, z)
    BY <1>1, <1>2, <2>1, <2>2, <2>3, PathsShift
  <2> QED
    BY <2>4 DEF SameFrom, lo, lo2, z
<1> DEFINE s == OldPlace(ws, node, name, k)
<1>15. s = IF k <= node + 1 THEN k ELSE k - m + n
  BY DEF OldPlace, m, n
<1>16. q[k] = IF node < s /\ s < e THEN Ren(p[s], l, name) ELSE p[s]
  <2> HIDE DEF s, l
  <2>1. CASE k <= node
    <3>1. s = k /\ ~(node < s) /\ k \in 0 .. node
      BY <1>1, <1>15, <2>1
    <3> QED
      BY <1>7, <3>1
  <2>2. CASE k = node + 1
    <3>1. s = node + 1 /\ node < s /\ s < e
      BY <1>1, <1>15, <2>2
    <3> QED
      BY <1>10, <2>2, <3>1
  <2>3. CASE k > node + m /\ k - m + n < e
    <3> DEFINE i == k - (node + m)
    <3>1. s = k - m + n /\ node < s /\ s < e /\ i \in 0 .. e - 1 - (node + n)
          /\ node + m + i = k /\ node + n + i = s
      BY <1>1, <1>15, <2>3
    <3> QED
      BY <1>12, <3>1
  <2>4. CASE k > node + m /\ k - m + n >= e
    <3> DEFINE i == k - m + n - e
    <3>1. s = k - m + n /\ ~(s < e) /\ i \in 0 .. Len(ws) - e
          /\ e + i = s /\ (e - n + m) + i = k
      BY <1>1, <1>15, <2>4
    <3> QED
      BY <1>14, <3>1
  <2>5. k <= node + 1 \/ k > node + m
    BY DEF NotName, m
  <2> QED
    BY <1>1, <2>1, <2>2, <2>3, <2>4, <2>5
<1> QED
  BY <1>16 DEF NewPathOf, p, q
LEMMA RenBack ==
    ASSUME NEW s, IsPath(s), NEW t, IsPath(t), NEW l \in 1 .. Len(s), l \in 1 .. Len(t),
           s[l] = t[l], NEW x, Ren(s, l, x) = Ren(t, l, x)
    PROVE  s = t
<1> DEFINE a == Ren(s, l, x)
           b == Ren(t, l, x)
<1>1. /\ Len(a) = Len(s) /\ Len(s) \in Nat
      /\ \A i \in 1 .. Len(s) : a[i] = IF i = l THEN x ELSE s[i]
  BY RenPath, PathLen
<1>2. /\ Len(b) = Len(t) /\ Len(t) \in Nat
      /\ \A i \in 1 .. Len(t) : b[i] = IF i = l THEN x ELSE t[i]
  BY RenPath, PathLen
<1>3. a = b
  OBVIOUS
<1> HIDE DEF a, b
<1>4. Len(s) = Len(t)
  BY <1>1, <1>2, <1>3
<1>5. \A i \in 1 .. Len(s) : s[i] = t[i]
  BY <1>1, <1>2, <1>3, <1>4
<1> QED
  BY <1>4, <1>5, PathsEqual

LEMMA NewPathsTell ==
    ASSUME NEW ws, Block(ws), Nested(ws), PathsDiffer(ws), NEW node, NEW e, NEW name,
           EndsAt(ws, node, e), NameFree(ws, node, name),
           NEW s \in 1 .. Len(ws), NEW t \in 1 .. Len(ws),
           NewPathOf(ws, node, e, name, s) = NewPathOf(ws, node, e, name, t)
    PROVE  OpenPath(ws)[s] = OpenPath(ws)[t]
<1> DEFINE p == OpenPath(ws)
           l == Len(p[node + 1])
<1>1. /\ Len(ws) \in Nat /\ node \in Nat /\ e \in Nat /\ node + 1 < e /\ e <= Len(ws)
      /\ node + 1 \in 1 .. Len(ws) /\ ws[node + 1].tag = "BEGIN"
  <2>1. node \in Nat /\ e \in Nat /\ node < e /\ e <= Len(ws) /\ node + 1 \in NodeWords(ws)
    BY DEF EndsAt
  <2>2. Len(ws) \in Nat /\ node + 1 < e
    BY InsideDepths
  <2> QED
    BY <2>1, <2>2, BlockMeans DEF NodeWords
<1>2. \A k \in 0 .. Len(ws) : IsPath(p[k])
  BY <1>1, PathSeq
<1>3. PathsAre(ws, p)
  BY <1>1, OpenPathIs
<1> HIDE DEF p
<1>4. /\ p[node + 1] = Append(p[node], ws[node + 1].name)
      /\ node \in 0 .. Len(ws) /\ node + 1 \in 0 .. Len(ws)
      /\ IsPath(p[node]) /\ IsPath(p[node + 1])
  <2>1. p[node + 1] = Append(p[(node + 1) - 1], ws[node + 1].name)
    BY <1>1, <1>3 DEF PathsAre
  <2>2. (node + 1) - 1 = node /\ node \in 0 .. Len(ws) /\ node + 1 \in 0 .. Len(ws)
    BY <1>1
  <2>3. p[node + 1] = Append(p[node], ws[node + 1].name)
    BY <2>1, <2>2
  <2>4. IsPath(p[node]) /\ IsPath(p[node + 1])
    BY <1>2, <2>2
  <2> QED
    BY <2>2, <2>3, <2>4
<1> DEFINE y == Append(p[node], name)
<1>5. /\ l \in Nat /\ l > 0 /\ l = Len(p[node]) + 1 /\ Len(p[node]) \in Nat
      /\ IsPath(y) /\ Len(y) = l /\ y[l] = name
      /\ \A i \in 1 .. l - 1 : y[i] = p[node + 1][i]
  <2>1. /\ Len(p[node]) \in Nat /\ Len(Append(p[node], ws[node + 1].name)) = Len(p[node]) + 1
        /\ \A i \in 1 .. Len(p[node]) : Append(p[node], ws[node + 1].name)[i] = p[node][i]
    BY <1>4, PathLonger
  <2>2. /\ IsPath(y) /\ Len(y) = Len(p[node]) + 1 /\ y[Len(p[node]) + 1] = name
        /\ \A i \in 1 .. Len(p[node]) : y[i] = p[node][i]
    BY <1>4, PathLonger
  <2> HIDE DEF y
  <2>3. l = Len(p[node]) + 1
    BY <1>4, <2>1
  <2> HIDE DEF l
  <2>4. l - 1 = Len(p[node]) /\ l \in Nat /\ l > 0
    BY <2>1, <2>3
  <2> QED
    BY <1>4, <2>1, <2>2, <2>3, <2>4
<1> DEFINE In(k) == node < k /\ k < e
<1>6. ASSUME NEW k \in 1 .. Len(ws), In(k)
      PROVE  /\ l \in 1 .. Len(p[k]) /\ IsPath(p[k]) /\ p[k][l] = p[node + 1][l]
             /\ Under(Ren(p[k], l, name), y)
  <2>1. k \in 0 .. Len(ws)
    BY <1>1
  <2>2. Under(p[k], p[node + 1])
    BY <1>6, <2>1, UnderNode DEF p
  <2>3. IsPath(p[k]) /\ Len(p[k]) \in Nat
    BY <1>2, <2>1, PathLen
  <2>4. l <= Len(p[k]) /\ \A i \in 1 .. l : p[k][i] = p[node + 1][i]
    BY <2>2 DEF Under
  <2> DEFINE a == Ren(p[k], l, name)
  <2>5. l \in 1 .. Len(p[k])
    BY <1>5, <2>3, <2>4
  <2>6. Len(a) = Len(p[k]) /\ \A i \in 1 .. Len(p[k]) : a[i] = IF i = l THEN name ELSE p[k][i]
    BY <2>3, <2>5, RenPath
  <2> HIDE DEF a, y, l
  <2>7. \A i \in 1 .. Len(y) : a[i] = y[i]
    <3> SUFFICES ASSUME NEW i \in 1 .. l PROVE a[i] = y[i]
      BY <1>5
    <3>1. i \in 1 .. Len(p[k]) /\ i \in Nat /\ i <= l
      BY <1>5, <2>3, <2>4
    <3>2. a[i] = IF i = l THEN name ELSE p[k][i]
      BY <2>6, <3>1
    <3>3. p[k][i] = p[node + 1][i]
      BY <2>4
    <3>4. CASE i = l
      BY <1>5, <3>2, <3>4
    <3>5. CASE i # l
      <4>1. i \in 1 .. l - 1
        BY <1>5, <3>5
      <4>2. y[i] = p[node + 1][i]
        BY <1>5, <4>1
      <4> QED
        BY <3>2, <3>3, <3>5, <4>2
    <3> QED
      BY <3>4, <3>5
  <2>8. Len(y) <= Len(a)
    BY <1>5, <2>4, <2>6
  <2>9. Under(a, y)
    BY <2>7, <2>8 DEF Under
  <2> QED
    BY <1>5, <2>3, <2>4, <2>5, <2>9 DEF a
<1>7. ASSUME NEW k \in 1 .. Len(ws), In(k), NEW j \in 1 .. Len(ws), ~In(j)
      PROVE  Ren(p[k], l, name) # p[j]
  <2> SUFFICES ASSUME Ren(p[k], l, name) = p[j] PROVE FALSE
    OBVIOUS
  <2>1. Under(p[j], y)
    BY <1>6, <1>7
  <2>2. j \in 0 .. Len(ws) /\ IsPath(y) /\ Len(y) > 0
    BY <1>1, <1>5
  <2> HIDE DEF y
  <2>3. \E i \in NodeWords(ws) : p[i] = y
    BY <2>1, <2>2, Ancestor DEF p
  <2> QED
    BY <2>3 DEF NameFree, p, y
<1>8. NewPathOf(ws, node, e, name, s) = IF In(s) THEN Ren(p[s], l, name) ELSE p[s]
  BY DEF NewPathOf, p
<1>9. NewPathOf(ws, node, e, name, t) = IF In(t) THEN Ren(p[t], l, name) ELSE p[t]
  BY DEF NewPathOf, p
<1>10. CASE In(s) /\ In(t)
  <2>1. Ren(p[s], l, name) = Ren(p[t], l, name)
    BY <1>8, <1>9, <1>10
  <2>2. l \in 1 .. Len(p[s]) /\ IsPath(p[s]) /\ p[s][l] = p[node + 1][l]
    BY <1>6, <1>10
  <2>3. l \in 1 .. Len(p[t]) /\ IsPath(p[t]) /\ p[t][l] = p[node + 1][l]
    BY <1>6, <1>10
  <2> HIDE DEF l
  <2>4. p[s] = p[t]
    BY <2>1, <2>2, <2>3, RenBack
  <2> QED
    BY <2>4 DEF p
<1>11. CASE In(s) /\ ~In(t)
  BY <1>7, <1>8, <1>9, <1>11
<1>12. CASE ~In(s) /\ In(t)
  BY <1>7, <1>8, <1>9, <1>12
<1>13. CASE ~In(s) /\ ~In(t)
  BY <1>8, <1>9, <1>13 DEF p
<1> QED
  BY <1>10, <1>11, <1>12, <1>13

LEMMA RenamedPlaces ==
    ASSUME NEW ws, Block(ws), Nested(ws), NEW r, NEW node, NEW e, NEW name,
           Renames(ws, r, node, e, name), NEW k \in 1 .. Len(r),
           r[k].tag \in {"BEGIN", "PROP"}
    PROVE  LET s == OldPlace(ws, node, name, k)
           IN  /\ s \in 1 .. Len(ws) /\ ws[s].tag = r[k].tag
               /\ s # node + 1 => r[k] = ws[s]
               /\ NotName(node, tag_words(Begin(name)), k)
               /\ OpenPath(r)[k] = NewPathOf(ws, node, e, name, s)
<1> DEFINE n == tag_words(ws[node + 1])
           m == tag_words(Begin(name))
           s == OldPlace(ws, node, name, k)
<1>1. /\ n \in Nat \ {0} /\ m \in Nat \ {0} /\ node \in Nat /\ e \in Nat
      /\ Len(ws) \in Nat /\ Len(r) \in Nat /\ Len(r) = Len(ws) - n + m
      /\ node + n < e /\ e <= Len(ws)
      /\ r[node + 1] = Begin(name)
      /\ \A i \in node + 2 .. node + m : r[i] = Cont
      /\ \A i \in 1 .. node : r[i] = ws[i]
      /\ \A i \in node + m + 1 .. Len(r) : r[i] = ws[i - m + n]
  BY RenamedWords
<1>2. ws[node + 1].tag = "BEGIN" /\ Begin(name).tag = "BEGIN" /\ Cont.tag = "CONT"
  BY DEF Renames, EndsAt, NodeWords, Begin, Cont, Word
<1>3. s = IF k <= node + 1 THEN k ELSE k - m + n
  BY DEF OldPlace
<1> HIDE DEF n, m, s
<1>4. k \notin node + 2 .. node + m
  BY <1>1, <1>2
<1>5. k <= node + 1 \/ k > node + m
  BY <1>1, <1>4
<1>6. NotName(node, m, k)
  BY <1>5 DEF NotName
<1>7. OpenPath(r)[k] = NewPathOf(ws, node, e, name, s)
  BY <1>6, RenamedPaths DEF m, s
<1>8. /\ s \in 1 .. Len(ws) /\ ws[s].tag = r[k].tag
      /\ s # node + 1 => r[k] = ws[s]
  <2>1. CASE k <= node
    BY <1>1, <1>3, <2>1
  <2>2. CASE k = node + 1
    <3>1. s = node + 1
      BY <1>1, <1>3, <2>2
    <3>2. node + 1 \in 1 .. Len(ws)
      BY <1>1
    <3> QED
      BY <1>1, <1>2, <2>2, <3>1, <3>2
  <2>3. CASE k > node + m
    <3>1. s = k - m + n /\ k \in node + m + 1 .. Len(r)
      BY <1>1, <1>3, <2>3
    <3>2. r[k] = ws[s]
      BY <1>1, <3>1
    <3>3. s \in 1 .. Len(ws)
      BY <1>1, <3>1
    <3> QED
      BY <3>2, <3>3
  <2> QED
    BY <1>1, <1>5, <2>1, <2>2, <2>3
<1> QED
  BY <1>6, <1>7, <1>8 DEF s, m
LEMMA OldPlaceOnce ==
    ASSUME NEW node \in Nat, NEW n \in Nat, n > 0, NEW m \in Nat, m > 0, NEW ws, NEW name,
           n = tag_words(ws[node + 1]), m = tag_words(Begin(name)),
           NEW k \in Nat, NotName(node, m, k), NEW l \in Nat, NotName(node, m, l),
           OldPlace(ws, node, name, k) = OldPlace(ws, node, name, l)
    PROVE  k = l
<1>1. /\ k <= node + 1 \/ k > node + m
      /\ l <= node + 1 \/ l > node + m
  BY DEF NotName
<1>2. (IF k <= node + 1 THEN k ELSE k - m + n) = (IF l <= node + 1 THEN l ELSE l - m + n)
  BY DEF OldPlace
<1> QED
  BY ONLY <1>1, <1>2, node \in Nat, n \in Nat, n > 0, m \in Nat, m > 0, k \in Nat, l \in Nat

\* Renaming a node to a name that gives it a path of its own keeps the order
\* of the words.
LEMMA NodeRenamed ==
    ASSUME NEW ws, Block(ws), Nested(ws), Ordered(ws), NEW r, NEW node, NEW e, NEW name,
           Renames(ws, r, node, e, name), NameFree(ws, node, name)
    PROVE  Ordered(r)
<1> DEFINE n == tag_words(ws[node + 1])
           m == tag_words(Begin(name))
           S(k) == OldPlace(ws, node, name, k)
           p == OpenPath(ws)
           q == OpenPath(r)
<1>1. /\ n \in Nat \ {0} /\ m \in Nat \ {0} /\ node \in Nat /\ e \in Nat
      /\ Len(ws) \in Nat /\ Len(r) \in Nat /\ Len(r) = Len(ws) - n + m
      /\ node + n < e /\ e <= Len(ws) /\ Block(r)
      /\ r[node + 1] = Begin(name)
      /\ \A i \in node + 2 .. node + m : r[i] = Cont
      /\ \A i \in 1 .. node : r[i] = ws[i]
      /\ \A i \in node + m + 1 .. Len(r) : r[i] = ws[i - m + n]
  BY RenamedWords
<1>2. /\ EndsAt(ws, node, e) /\ ws[node + 1].tag = "BEGIN"
      /\ PropsFirst(ws) /\ PropsOnce(ws) /\ PathsDiffer(ws)
  BY DEF Renames, EndsAt, NodeWords, Ordered
<1>3. \A k \in 1 .. Len(r) : r[k].tag \in {"BEGIN", "PROP"} =>
          /\ S(k) \in 1 .. Len(ws) /\ ws[S(k)].tag = r[k].tag
          /\ S(k) # node + 1 => r[k] = ws[S(k)]
          /\ NotName(node, m, k)
          /\ q[k] = NewPathOf(ws, node, e, name, S(k))
  BY RenamedPlaces
<1>4. \A k, l \in 1 .. Len(r) :
          /\ r[k].tag \in {"BEGIN", "PROP"} /\ r[l].tag \in {"BEGIN", "PROP"}
          /\ q[k] = q[l]
          => p[S(k)] = p[S(l)]
  <2> HIDE DEF S
  <2> SUFFICES ASSUME NEW k \in 1 .. Len(r), NEW l \in 1 .. Len(r),
                      r[k].tag \in {"BEGIN", "PROP"}, r[l].tag \in {"BEGIN", "PROP"},
                      q[k] = q[l]
               PROVE  p[S(k)] = p[S(l)]
    OBVIOUS
  <2> DEFINE s == S(k)
             t == S(l)
  <2>1. s \in 1 .. Len(ws) /\ t \in 1 .. Len(ws)
    BY <1>3
  <2>2. NewPathOf(ws, node, e, name, s) = NewPathOf(ws, node, e, name, t)
    BY <1>3
  <2> HIDE DEF s, t
  <2>3. OpenPath(ws)[s] = OpenPath(ws)[t]
    BY <1>2, <2>1, <2>2, NewPathsTell
  <2> QED
    BY <2>3 DEF s, t
<1>5. \A k, l \in 1 .. Len(r) :
          /\ r[k].tag \in {"BEGIN", "PROP"} /\ r[l].tag \in {"BEGIN", "PROP"}
          /\ S(k) = S(l)
          => k = l
  <2> SUFFICES ASSUME NEW k \in 1 .. Len(r), NEW l \in 1 .. Len(r),
                      r[k].tag \in {"BEGIN", "PROP"}, r[l].tag \in {"BEGIN", "PROP"},
                      OldPlace(ws, node, name, k) = OldPlace(ws, node, name, l)
               PROVE  k = l
    OBVIOUS
  <2>1. NotName(node, m, k) /\ NotName(node, m, l)
    BY <1>3
  <2>2. k \in Nat /\ l \in Nat /\ n \in Nat /\ n > 0 /\ m \in Nat /\ m > 0 /\ node \in Nat
    BY <1>1
  <2> QED
    BY <2>1, <2>2, OldPlaceOnce
<1> HIDE DEF n, m, S, p, q
<1>6. PathsDiffer(r)
  <2> SUFFICES ASSUME NEW k \in NodeWords(r), NEW l \in NodeWords(r), q[k] = q[l]
               PROVE  k = l
    BY DEF PathsDiffer, q
  <2>1. /\ k \in 1 .. Len(r) /\ l \in 1 .. Len(r) /\ r[k].tag = "BEGIN" /\ r[l].tag = "BEGIN"
    BY <1>1, BlockMeans DEF NodeWords
  <2>2. p[S(k)] = p[S(l)]
    BY <1>4, <2>1
  <2>3. S(k) \in NodeWords(ws) /\ S(l) \in NodeWords(ws)
    <3>1. /\ S(k) \in 1 .. Len(ws) /\ ws[S(k)].tag = "BEGIN"
          /\ S(l) \in 1 .. Len(ws) /\ ws[S(l)].tag = "BEGIN"
      BY <1>3, <2>1
    <3> QED
      BY <3>1, BlockMeans DEF NodeWords
  <2>4. S(k) = S(l)
    BY <1>2, <2>2, <2>3 DEF PathsDiffer, p
  <2> QED
    BY <1>5, <2>1, <2>4
<1>7. PropsOnce(r)
  <2> SUFFICES ASSUME NEW k \in PropWords(r), NEW l \in PropWords(r), q[k] = q[l],
                      r[k].name = r[l].name
               PROVE  k = l
    BY DEF PropsOnce, q
  <2>1. /\ k \in 1 .. Len(r) /\ l \in 1 .. Len(r) /\ r[k].tag = "PROP" /\ r[l].tag = "PROP"
    BY <1>1, BlockMeans DEF PropWords
  <2>2. p[S(k)] = p[S(l)]
    BY <1>4, <2>1
  <2>3. /\ S(k) \in 1 .. Len(ws) /\ ws[S(k)].tag = "PROP" /\ r[k] = ws[S(k)]
        /\ S(l) \in 1 .. Len(ws) /\ ws[S(l)].tag = "PROP" /\ r[l] = ws[S(l)]
    BY <1>2, <1>3, <2>1
  <2>4. S(k) \in PropWords(ws) /\ S(l) \in PropWords(ws)
    BY <2>3, BlockMeans DEF PropWords
  <2>5. ws[S(k)].name = ws[S(l)].name
    BY <2>3
  <2>6. S(k) = S(l)
    BY <1>2, <2>2, <2>4, <2>5 DEF PropsOnce, p
  <2> QED
    BY <1>5, <2>1, <2>6
<1>8. PropsFirst(r)
  <2> SUFFICES ASSUME NEW k \in PropWords(r)
               PROVE  \E i \in NodeWords(r) : Owns(r, i, k)
    BY DEF PropsFirst
  <2>1. k \in 1 .. Len(r) /\ r[k].tag = "PROP"
    BY <1>1, BlockMeans DEF PropWords
  <2> DEFINE s == S(k)
  <2>2. s \in 1 .. Len(ws) /\ ws[s].tag = "PROP" /\ NotName(node, m, k) /\ s # node + 1
    BY <1>2, <1>3, <2>1
  <2>3. s = IF k <= node + 1 THEN k ELSE k - m + n
    BY DEF S, OldPlace, n, m
  <2> HIDE DEF s
  <2>4. s \in PropWords(ws)
    BY <2>2, BlockMeans DEF PropWords
  <2>5. PICK j \in NodeWords(ws) : Owns(ws, j, s)
    BY <1>2, <2>4 DEF PropsFirst
  <2>6. /\ j \in 1 .. Len(ws) /\ j < s /\ ws[j].tag = "BEGIN" /\ Quiet(ws, j, s)
    BY <2>5, OwnsIs
  <2>7. Quiet(ws, node + 1, node + n)
    BY DEF Renames, n
  <2>8. j <= node + 1 \/ j > node + n
    <3> SUFFICES ASSUME j > node + 1, j <= node + n PROVE FALSE
      BY <1>1, <2>6
    <3>1. j \in (node + 1) + 1 .. node + n
      BY <1>1, <2>6
    <3> QED
      BY <2>6, <2>7, <3>1 DEF Quiet
  <2>9. node + 1 \notin j + 1 .. s
    BY <1>2, <2>6 DEF Quiet
  <2>10. k <= node + 1 \/ k > node + m
    BY <2>2 DEF NotName
  <2> DEFINE i == IF j <= node + 1 THEN j ELSE j - n + m
  <2>11. i \in 1 .. Len(r) /\ i < k
    <3>1. /\ n \in Nat /\ m \in Nat /\ n > 0 /\ m > 0 /\ node \in Nat
          /\ Len(ws) \in Nat /\ Len(r) = Len(ws) - n + m /\ node + n < Len(ws)
          /\ j \in Nat /\ j > 0 /\ j <= Len(ws) /\ j < s /\ s \in Nat /\ k \in Nat
      BY <1>1, <2>1, <2>2, <2>6
    <3> QED
      BY ONLY <3>1, <2>3, <2>8, <2>10
  <2>12. r[i].tag = "BEGIN"
    <3>1. CASE j <= node
      <4>1. i = j /\ j \in 1 .. node
        BY <1>1, <2>6, <3>1
      <4>2. r[i] = ws[j]
        BY <1>1, <4>1
      <4> QED
        BY <2>6, <4>2
    <3>2. CASE j = node + 1
      <4>1. i = node + 1
        BY <1>1, <3>2
      <4>2. Begin(name).tag = "BEGIN"
        BY DEF Begin, Word
      <4> QED
        BY <1>1, <4>1, <4>2
    <3>3. CASE j > node + n
      <4>1. i = j - n + m /\ i \in node + m + 1 .. Len(r) /\ i - m + n = j
        BY <1>1, <2>6, <3>3
      <4>2. r[i] = ws[j]
        BY <1>1, <4>1
      <4> QED
        BY <2>6, <4>2
    <3>4. j \in Int /\ node \in Int
      BY <1>1, <2>6
    <3>5. j <= node \/ j = node + 1 \/ j > node + n
      BY ONLY <2>8, <3>4
    <3> HIDE DEF i
    <3> QED
      BY <3>1, <3>2, <3>3, <3>5
  <2>13. Quiet(r, i, k)
    <3> SUFFICES ASSUME NEW x \in i + 1 .. k PROVE r[x].tag \notin {"BEGIN", "END_NODE"}
      BY DEF Quiet
    <3> HIDE DEF i
    <3>1. x \in Nat /\ x > i /\ x <= k /\ x <= Len(r) /\ x >= 1
      <4>1. Len(r) \in Nat
        BY <1>1
      <4>2. i \in Nat /\ k \in Nat /\ k <= Len(r) /\ i >= 1
        BY <2>1, <2>11, <4>1
      <4>3. x \in i + 1 .. k
        OBVIOUS
      <4> QED
        BY ONLY <4>1, <4>2, <4>3
    <3>2. CASE x \in node + 2 .. node + m
      <4>1. Cont.tag = "CONT" /\ r[x] = Cont
        BY <1>1, <3>2 DEF Cont, Word
      <4> QED
        BY <4>1
    <3>3. CASE x <= node
      <4>0. /\ n \in Nat /\ m \in Nat /\ n > 0 /\ m > 0 /\ node \in Nat /\ j \in Nat
            /\ j > 0 /\ j < s /\ s \in Nat /\ k \in Nat /\ x \in Nat /\ x <= k
        BY <1>1, <2>1, <2>2, <2>6, <3>1
      <4>1. x \in j + 1 .. s /\ x \in 1 .. node
        <5>1. x > (IF j <= node + 1 THEN j ELSE j - n + m)
          BY <3>1 DEF i
        <5>2. x > j /\ x > 0
          BY ONLY <4>0, <5>1, <3>3, <2>8
        <5>3. x <= s
          BY ONLY <4>0, <2>3, <2>10, <3>3
        <5> QED
          BY ONLY <4>0, <5>2, <5>3, <3>3
      <4>2. r[x] = ws[x] /\ ws[x].tag \notin {"BEGIN", "END_NODE"}
        BY <1>1, <2>6, <4>1 DEF Quiet
      <4> QED
        BY <4>2
    <3>4. CASE x = node + 1
      <4>1. node + 1 \in j + 1 .. s
        BY <1>1, <2>1, <2>2, <2>3, <2>6, <2>8, <2>10, <3>1, <3>4 DEF i
      <4> QED
        BY <2>9, <4>1
    <3>5. CASE x > node + m
      <4>1. x - m + n \in j + 1 .. s /\ x \in node + m + 1 .. Len(r)
        BY <1>1, <2>1, <2>2, <2>3, <2>6, <2>8, <2>10, <3>1, <3>5 DEF i
      <4>2. r[x] = ws[x - m + n] /\ ws[x - m + n].tag \notin {"BEGIN", "END_NODE"}
        BY <1>1, <2>6, <4>1 DEF Quiet
      <4> QED
        BY <4>2
    <3> QED
      BY <1>1, <3>1, <3>2, <3>3, <3>4, <3>5
  <2> HIDE DEF i
  <2>14. Owns(r, i, k)
    BY <1>1, <2>1, <2>11, <2>12, <2>13, OwnsIs
  <2> QED
    BY <2>14 DEF Owns
<1> QED
  BY <1>6, <1>7, <1>8 DEF Ordered

-----------------------------------------------------------------------------
(* What each call does to the words                                        *)

\* Of the n words behind off, the only property is the one of that name in the
\* node at word j; and if there is one, it is there.
Only(ws, j, name, off, n) ==
    \A l \in PropWords(ws) :
        ~Off(off, n, l) <=> ws[l].name = name /\ OpenPath(ws)[l] = OpenPath(ws)[j]

HasProp(ws, j, name, val) ==
    \E l \in PropWords(ws) :
        ws[l].name = name /\ ws[l].val = val /\ OpenPath(ws)[l] = OpenPath(ws)[j]

PropSet(ws, r, j, name, val) ==
    \E off, n, new :
        /\ PutIn(ws, r, off, n, new) /\ PropertyWords(new, name, val)
        /\ j \in NodeWords(ws) /\ j <= off /\ Quiet(ws, j, off + n)
        /\ Only(ws, j, name, off, n)

PropOut(ws, r, j, name) ==
    \E off, n, new :
        /\ PutIn(ws, r, off, n, new) /\ Blank(new)
        /\ j \in NodeWords(ws) /\ Quiet(ws, off, off + n)
        /\ Only(ws, j, name, off, n)
        /\ \E val : HasProp(ws, j, name, val)

LEMMA FoundOnly ==
    ASSUME NEW b, Sound(b), Nested(b.words), Ordered(b.words), NEW node \in Int,
           NEW name, fdt_get_property(b, node, name) >= 0
    PROVE  LET p == fdt_get_property(b, node, name)
               n == tag_words(At(b, p))
           IN  /\ p \in Nat /\ p + n <= Len(b.words) /\ n \in Nat \ {0}
               /\ node + 1 \in NodeWords(b.words) /\ node + 1 <= p
               /\ p + 1 \in PropWords(b.words) /\ At(b, p).name = name
               /\ OpenPath(b.words)[p + 1] = OpenPath(b.words)[node + 1]
               /\ \A m \in 1 .. n : /\ Quiet(b.words, node + 1, p + m)
                                    /\ Only(b.words, node + 1, name, p, m)
<1> DEFINE p == fdt_get_property(b, node, name)
           n == tag_words(At(b, p))
           ws == b.words
<1>1. /\ Block(ws) /\ Len(ws) \in Nat /\ DOMAIN ws = 1 .. Len(ws)
  BY BlockMeans DEF Sound, Agrees
<1>2. /\ p \in 0 .. Len(ws) - 1 /\ ws[p + 1].tag = "PROP" /\ ws[p + 1].name = name
      /\ p + n <= Len(ws) /\ n \in Nat /\ IsWord(ws[p + 1])
  BY <1>1, PropertyTag, FoundProperty DEF At
<1>3. n \in Nat \ {0}
  BY <1>2, TagWords DEF At
<1>4. PICK next \in Int : IsNode(b, node, next)
  <2> SUFFICES ASSUME \A next \in Int : ~IsNode(b, node, next) PROVE FALSE
    OBVIOUS
  <2>1. fdt_get_property(b, node, name) < 0
    BY <1>1, NotNode
  <2>2. fdt_get_property(b, node, name) \in Int
    BY <1>1, PropertyTag
  <2> QED
    BY <2>1, <2>2
<1>5. node \in Nat /\ node + 1 \in 1 .. Len(ws) /\ ws[node + 1].tag = "BEGIN"
  BY <1>1, <1>4 DEF IsNode, At
<1>6. p \in Near(b, node)
  BY <1>1, <1>5, PropertyNear
<1>7. Quiet(ws, p, p + n)
  BY PropertyQuiet
<1>8. n = tag_words(ws[p + 1])
  BY DEF At
<1> HIDE DEF p, n
<1>9. node < p /\ Quiet(ws, node + 1, p)
  BY <1>6 DEF Near
<1>10. p \in Nat /\ p + 1 \in 1 .. Len(ws) /\ node + 1 <= p
  BY <1>1, <1>2, <1>5, <1>9
<1>11. node + 1 \in NodeWords(ws) /\ p + 1 \in PropWords(ws)
  BY <1>1, <1>2, <1>5, <1>10 DEF NodeWords, PropWords
<1>12. Quiet(ws, node + 1, p + n)
  BY <1>3, <1>5, <1>7, <1>9, <1>10, QuietOn
<1>13. \A m \in 1 .. n : Quiet(ws, node + 1, p + m)
  BY <1>3, <1>5, <1>10, <1>12 DEF Quiet
<1>14. OpenPath(ws)[p + 1] = OpenPath(ws)[node + 1]
  <2>1. 1 \in 1 .. n
    BY <1>3
  <2>2. Quiet(ws, node + 1, p + 1) /\ node + 1 < p + 1
    BY <1>10, <1>13, <2>1
  <2>3. Owns(ws, node + 1, p + 1)
    BY <1>1, <1>2, <1>5, <1>10, <2>2, OwnsIs
  <2> QED
    BY <1>1, <2>3, OwnsPath
<1>15. \A k \in p + 2 .. p + n : ws[k].tag = "CONT"
  <2> DEFINE k1 == p + 1
  <2>1. k1 \in 1 .. Len(ws) /\ ws[k1].tag # "CONT"
    BY <1>2, <1>10
  <2>2. \A j \in k1 + 1 .. (k1 + tag_words(ws[k1])) - 1 : ws[j].tag = "CONT"
    BY <2>1 DEF Nested, Units
  <2>3. k1 + 1 = p + 2 /\ (k1 + tag_words(ws[k1])) - 1 = p + n
    BY <1>3, <1>8, <1>10
  <2> HIDE DEF k1
  <2> QED
    BY <2>2, <2>3
<1>16. ASSUME NEW m \in 1 .. n PROVE Only(ws, node + 1, name, p, m)
  <2> SUFFICES ASSUME NEW l \in PropWords(ws)
               PROVE  ~Off(p, m, l) <=> /\ ws[l].name = name
                                        /\ OpenPath(ws)[l] = OpenPath(ws)[node + 1]
    BY DEF Only
  <2>1. l \in 1 .. Len(ws) /\ ws[l].tag = "PROP"
    BY <1>1 DEF PropWords
  <2>2. ASSUME ~Off(p, m, l) PROVE l = p + 1
    <3>1. l > p /\ l <= p + m
      BY <1>3, <1>10, <2>1, <2>2 DEF Off
    <3>2. l \notin p + 2 .. p + n
      BY <1>15, <2>1
    <3> QED
      BY <1>3, <1>10, <2>1, <3>1, <3>2
  <2>3. ~Off(p, m, p + 1)
    BY <1>3, <1>10 DEF Off
  <2>4. ASSUME ws[l].name = name, OpenPath(ws)[l] = OpenPath(ws)[node + 1]
        PROVE  l = p + 1
    <3>1. fdt_get_property(b, node, ws[l].name) = l - 1
      BY <1>5, <1>11, <2>4, NamedIsFound
    <3>2. p = l - 1
      BY <2>4, <3>1 DEF p
    <3> QED
      BY <1>10, <2>1, <3>2
  <2> QED
    BY <1>2, <1>14, <2>2, <2>3, <2>4
<1> QED
  BY <1>2, <1>3, <1>10, <1>11, <1>13, <1>14, <1>16 DEF p, n, At

LEMMA MissingOnly ==
    ASSUME NEW b, Sound(b), Nested(b.words), Ordered(b.words), NEW node \in Int,
           NEW name, fdt_get_property(b, node, name) < 0,
           NEW next, IsNode(b, node, next)
    PROVE  /\ node + 1 \in NodeWords(b.words) /\ node + 1 <= next /\ next \in Nat
           /\ Quiet(b.words, node + 1, next)
           /\ Only(b.words, node + 1, name, next, 0)
           /\ \A val : ~HasProp(b.words, node + 1, name, val)
<1> DEFINE ws == b.words
<1>1. /\ Block(ws) /\ Len(ws) \in Nat /\ DOMAIN ws = 1 .. Len(ws)
  BY BlockMeans DEF Sound, Agrees
<1>2. /\ node \in Nat /\ node + 1 \in 1 .. Len(ws) /\ ws[node + 1].tag = "BEGIN"
      /\ next \in Nat
  BY <1>1 DEF IsNode, At
<1>3. node < next /\ Quiet(ws, node + 1, next)
  BY <1>1, NodeNear DEF Near
<1>4. node + 1 \in NodeWords(ws)
  BY <1>1, <1>2 DEF NodeWords
<1>5. ASSUME NEW l \in PropWords(ws), ws[l].name = name,
             OpenPath(ws)[l] = OpenPath(ws)[node + 1]
      PROVE  FALSE
  <2>1. fdt_get_property(b, node, ws[l].name) = l - 1
    BY <1>2, <1>4, <1>5, NamedIsFound
  <2>2. l \in 1 .. Len(ws)
    BY <1>1 DEF PropWords
  <2> QED
    BY <1>1, <1>5, <2>1, <2>2
<1>6. \A l \in PropWords(ws) : Off(next, 0, l)
  BY <1>1, <1>2 DEF PropWords, Off
<1>7. Only(ws, node + 1, name, next, 0)
  BY <1>5, <1>6 DEF Only
<1>8. \A val : ~HasProp(ws, node + 1, name, val)
  BY <1>5 DEF HasProp
<1> QED
  BY <1>2, <1>3, <1>4, <1>7, <1>8

-----------------------------------------------------------------------------
(* The names that are in the strings block                                 *)

\* The strings of b are still found in c.
Stores(b, c) ==
    \A s : fdt_find_string(b.strs, s) => fdt_find_string(c.strs, s)

LEMMA SameStored ==
    ASSUME NEW b, NEW c, SameStrings(b, c)
    PROVE  Stores(b, c)
BY DEF SameStrings, Stores

LEMMA OverwriteStrings ==
    ASSUME NEW b, Sound(b), NEW off, NEW new
    PROVE  SameStrings(b, Overwrite(b, off, new))
<1> DEFINE vs == [k \in DOMAIN b.words |->
                    IF k \in off + 1 .. off + Len(new) THEN new[k - off] ELSE b.words[k]]
           c == [b EXCEPT !.words = vs]
<1>1. Overwrite(b, off, new) = c
  BY DEF Overwrite
<1>2. Fields(b)
  BY DEF Sound, Agrees
<1> HIDE DEF vs
<1>3. c.strs = b.strs
  BY <1>2 DEF Fields
<1> HIDE DEF c
<1> QED
  BY <1>1, <1>3 DEF SameStrings

\* Behind fdt_find_add_string every string is found that was, and the new one.
LEMMA NameStored ==
    ASSUME NEW b, Sound(b), NEW name, Len(name) \in Nat, SubSeq(name, 1, Len(name)) = name
    PROVE  LET s == fdt_find_add_string(b, name)
           IN  /\ Stores(b, s.fdt)
               /\ s.ret = 0 => fdt_find_string(s.fdt.strs, name)
<1> DEFINE s == fdt_find_add_string(b, name)
           g == fdt_splice_string(b.hdr, Len(name) + 1)
           t == Append(b.strs, name)
           c == [b EXCEPT !.hdr = g.hdr, !.strs = t]
<1>1. s = IF fdt_find_string(b.strs, name) THEN Err(b, 0)
          ELSE IF g.ret # 0 THEN Err(b, g.ret) ELSE [ret |-> 0, fdt |-> c]
  BY DEF fdt_find_add_string
<1>2. c.strs = t
  <2>1. Fields(b)
    BY DEF Sound, Agrees
  <2> HIDE DEF g, t
  <2>2. c = [hdr |-> g.hdr, nrsv |-> b.nrsv, words |-> b.words, strs |-> t]
    BY <2>1, BlobWithName
  <2> HIDE DEF c
  <2> QED
    BY <2>2
<1>3. /\ b.strs \in Seq({b.strs[k] : k \in DOMAIN b.strs})
  BY DEF Sound, Agrees, IsStrings, IsSeq
<1>4. /\ Len(b.strs) \in Nat /\ DOMAIN b.strs = 1 .. Len(b.strs)
      /\ DOMAIN t = 1 .. Len(b.strs) + 1 /\ t[Len(b.strs) + 1] = name
      /\ \A k \in 1 .. Len(b.strs) : t[k] = b.strs[k]
  <2> DEFINE S == {b.strs[k] : k \in DOMAIN b.strs} \cup {name}
  <2>1. b.strs \in Seq(S) /\ name \in S
    BY <1>3
  <2> HIDE DEF S
  <2> QED
    BY <2>1
<1> HIDE DEF t
<1>5. fdt_find_string(t, name)
  <2>1. EndsWith(name, name)
    <3>1. Len(name) <= Len(name) /\ Len(name) - Len(name) + 1 = 1
      OBVIOUS
    <3> QED
      BY <3>1 DEF EndsWith
  <2>2. Len(b.strs) + 1 \in DOMAIN t
    BY <1>4
  <2> QED
    BY <1>4, <2>1, <2>2 DEF fdt_find_string
<1>6. ASSUME NEW x, fdt_find_string(b.strs, x) PROVE fdt_find_string(t, x)
  <2>1. PICK k \in DOMAIN b.strs : EndsWith(b.strs[k], x)
    BY <1>6 DEF fdt_find_string
  <2>2. k \in DOMAIN t /\ t[k] = b.strs[k]
    BY <1>4
  <2> QED
    BY <2>1, <2>2 DEF fdt_find_string
<1> HIDE DEF c, g, s
<1>7. CASE fdt_find_string(b.strs, name)
  BY <1>1, <1>7 DEF Err, Stores, s
<1>8. CASE ~fdt_find_string(b.strs, name) /\ g.ret # 0
  BY <1>1, <1>8 DEF Err, Stores, s
<1>9. CASE ~fdt_find_string(b.strs, name) /\ ~(g.ret # 0)
  <2>1. s.ret = 0 /\ s.fdt = c
    BY <1>1, <1>9
  <2>2. Stores(b, s.fdt)
    BY <1>2, <1>6, <2>1 DEF Stores
  <2> QED
    BY <1>2, <1>5, <2>1, <2>2 DEF s
<1> QED
  BY <1>7, <1>8, <1>9

LEMMA RetagStrings ==
    ASSUME NEW b, Sound(b), NEW p, NEW w
    PROVE  SameStrings(b, Retag(b, p, w).fdt)
BY SpliceStrings DEF Retag

\* Only the calls that add a property add a string.
LEMMA AddPropertyStores ==
    ASSUME NEW b, Sound(b), NEW node \in Int, NEW name, Len(name) \in Nat,
           SubSeq(name, 1, Len(name)) = name, NEW val
    PROVE  LET r == fdt_add_property(b, node, name, val)
           IN  /\ Stores(b, r.fdt)
               /\ r.ret = 0 => fdt_find_string(r.fdt.strs, name)
<1> DEFINE next == fdt_check_node_offset(b, node)
           s == fdt_find_add_string(b, name)
           new == Unit(Prop(name, val))
           r == splice_words(s.fdt, next, 0, new)
<1>1. /\ Stores(b, s.fdt)
      /\ s.ret = 0 => fdt_find_string(s.fdt.strs, name)
      /\ Sound(s.fdt)
  BY NameStored, NameAnswers DEF Answer
<1>2. next \in Int
  <2>1. next < 0 \/ next \in 1 .. Len(b.words)
    BY FoundNode
  <2>2. Block(b.words)
    BY DEF Sound, Agrees
  <2>3. next = -FDT_ERR_BADOFFSET \/ IsNode(b, node, next)
    BY <2>2, CheckNode
  <2>4. -FDT_ERR_BADOFFSET \in Int
    BY DEF FDT_ERR_BADOFFSET
  <2> HIDE DEF next
  <2> QED
    BY <2>2, <2>3, <2>4, BlockMeans DEF IsNode
<1>3. fdt_add_property(b, node, name, val) =
         IF next < 0 THEN Err(b, next) ELSE IF s.ret # 0 THEN s ELSE r
  <2> DEFINE put(o, x) == CASE o < 0 -> Err(b, o)
                            [] o >= 0 /\ x.ret # 0 -> x
                            [] OTHER -> splice_words(x.fdt, o, 0, new)
  <2>2. fdt_add_property(b, node, name, val) = put(next, s)
    BY DEF fdt_add_property
  <2> HIDE DEF next, s, new
  <2> QED
    BY <1>2, <2>2
<1>4. SameStrings(s.fdt, r.fdt)
  BY <1>1, SpliceStrings
<1> HIDE DEF s, r, next
<1>5. CASE next < 0
  <2>1. Err(b, next).fdt = b /\ Err(b, next).ret = next
    BY DEF Err
  <2> QED
    BY <1>2, <1>3, <1>5, <2>1 DEF Stores
<1>6. CASE ~(next < 0) /\ s.ret # 0
  BY <1>1, <1>3, <1>6
<1>7. CASE ~(next < 0) /\ ~(s.ret # 0)
  BY <1>1, <1>3, <1>4, <1>7 DEF Stores, SameStrings
<1> QED
  BY <1>5, <1>6, <1>7
-----------------------------------------------------------------------------
(* The calls on properties                                                 *)

PropDone(b, c, j, name, val) ==
    /\ Stores(b, c)
    /\ \/ c.words = b.words
       \/ PropSet(b.words, c.words, j, name, val) /\ fdt_find_string(c.strs, name)

LEMMA PutIsIn ==
    ASSUME NEW b, NEW c, NEW off, NEW n, NEW new, Puts(b, c, off, n, new)
    PROVE  PutIn(b.words, c.words, off, n, new)
BY DEF Puts, PutIn

LEMMA FoundStored ==
    ASSUME NEW b, Sound(b), Nested(b.words), Ordered(b.words),
           NamesStored(b.words, b.strs), NEW node \in Int, NEW name,
           fdt_get_property(b, node, name) >= 0
    PROVE  fdt_find_string(b.strs, name)
<1> DEFINE p == fdt_get_property(b, node, name)
<1>1. p + 1 \in PropWords(b.words) /\ b.words[p + 1].name = name
  BY FoundOnly DEF At
<1> HIDE DEF p
<1> QED
  BY <1>1 DEF NamesStored

LEMMA RetagDone ==
    ASSUME NEW b, Sound(b), Nested(b.words), Ordered(b.words),
           NamesStored(b.words, b.strs), NEW node \in Int, NEW name, Len(name) \in Nat,
           NEW val, IsValue(val), fdt_get_property(b, node, name) >= 0
    PROVE  LET r == Retag(b, fdt_get_property(b, node, name), Prop(name, val))
           IN  Blobs(r) /\ PropDone(b, r.fdt, node + 1, name, val)
<1> DEFINE p == fdt_get_property(b, node, name)
           n == tag_words(At(b, p))
           w == Prop(name, val)
           r == Retag(b, p, w)
<1>1. IsWord(w)
  BY NewTags
<1>2. /\ Blobs(r)
      /\ r.fdt = b \/ Puts(b, r.fdt, p, n, Unit(w))
  BY <1>1, RetagPuts
<1>3. /\ p \in Nat /\ n \in 1 .. n /\ node + 1 \in NodeWords(b.words) /\ node + 1 <= p
      /\ \A m \in 1 .. n : /\ Quiet(b.words, node + 1, p + m)
                           /\ Only(b.words, node + 1, name, p, m)
  <2>1. n \in Nat \ {0}
    BY FoundOnly
  <2>2. n \in 1 .. n
    BY <2>1
  <2> QED
    BY <2>2, FoundOnly
<1>4. PropertyWords(Unit(w), name, val)
  BY <1>1, PropUnit
<1>5. fdt_find_string(b.strs, name) /\ SameStrings(b, r.fdt)
  BY FoundStored, RetagStrings
<1> HIDE DEF p, n, w, r
<1>6. Stores(b, r.fdt) /\ fdt_find_string(r.fdt.strs, name)
  BY <1>5, SameStored DEF Stores
<1>7. ASSUME Puts(b, r.fdt, p, n, Unit(w))
      PROVE  PropSet(b.words, r.fdt.words, node + 1, name, val)
  <2>1. PutIn(b.words, r.fdt.words, p, n, Unit(w))
    BY <1>7, PutIsIn
  <2>2. Quiet(b.words, node + 1, p + n) /\ Only(b.words, node + 1, name, p, n)
    BY <1>3
  <2> QED
    BY <1>3, <1>4, <2>1, <2>2 DEF PropSet
<1>8. PropDone(b, r.fdt, node + 1, name, val)
  BY <1>2, <1>6, <1>7 DEF PropDone
<1> QED
  BY <1>2, <1>8 DEF r, p, w

LEMMA AddPropertyDone ==
    ASSUME NEW b, Sound(b), Nested(b.words), Ordered(b.words), NEW node \in Int,
           NEW name, Len(name) \in Nat, SubSeq(name, 1, Len(name)) = name,
           NEW val, IsValue(val), fdt_get_property(b, node, name) < 0
    PROVE  LET r == fdt_add_property(b, node, name, val)
           IN  /\ Blobs(r) /\ PropDone(b, r.fdt, node + 1, name, val)
               /\ r.fdt.words = b.words \/ \A v : ~HasProp(b.words, node + 1, name, v)
<1> DEFINE r == fdt_add_property(b, node, name, val)
           next == fdt_check_node_offset(b, node)
           new == Unit(Prop(name, val))
<1>1. /\ Blobs(r)
      /\ \/ r.fdt.words = b.words
         \/ IsNode(b, node, next) /\ r.ret = 0 /\ Puts(b, r.fdt, next, 0, new)
  BY AddPropertyPuts
<1>2. Stores(b, r.fdt) /\ (r.ret = 0 => fdt_find_string(r.fdt.strs, name))
  BY AddPropertyStores
<1>3. PropertyWords(new, name, val)
  <2>1. IsWord(Prop(name, val))
    BY NewTags
  <2> QED
    BY <2>1, PropUnit
<1> HIDE DEF r, next, new
<1>4. ASSUME IsNode(b, node, next), Puts(b, r.fdt, next, 0, new)
      PROVE  /\ PropSet(b.words, r.fdt.words, node + 1, name, val)
             /\ \A v : ~HasProp(b.words, node + 1, name, v)
  <2>1. PutIn(b.words, r.fdt.words, next, 0, new)
    BY <1>4, PutIsIn
  <2>2. /\ node + 1 \in NodeWords(b.words) /\ node + 1 <= next /\ next \in Nat
        /\ Quiet(b.words, node + 1, next)
        /\ Only(b.words, node + 1, name, next, 0)
        /\ \A v : ~HasProp(b.words, node + 1, name, v)
    BY <1>4, MissingOnly
  <2>3. next + 0 = next
    BY <2>2
  <2>4. Quiet(b.words, node + 1, next + 0)
    BY <2>2, <2>3
  <2> QED
    BY <1>3, <2>1, <2>2, <2>4 DEF PropSet
<1>5. PropDone(b, r.fdt, node + 1, name, val)
  BY <1>1, <1>2, <1>4 DEF PropDone
<1> QED
  BY <1>1, <1>4, <1>5 DEF r

LEMMA ErrDone ==
    ASSUME NEW b, Sound(b), NEW e
    PROVE  /\ Blobs(Err(b, e)) /\ Err(b, e).fdt.words = b.words
           /\ Stores(b, Err(b, e).fdt)
<1>1. Blobs(Err(b, e)) /\ Err(b, e).fdt = b
  BY ErrBlobs
<1> QED
  BY <1>1 DEF Stores

LEMMA SetPropDone ==
    ASSUME NEW b, Sound(b), Nested(b.words), Ordered(b.words),
           NamesStored(b.words, b.strs), NEW node \in Int, NEW name, Len(name) \in Nat,
           SubSeq(name, 1, Len(name)) = name, NEW val, IsValue(val)
    PROVE  PropDone(b, fdt_setprop(b, node, name, val).fdt, node + 1, name, val)
<1> DEFINE p == fdt_get_property(b, node, name)
           w == Prop(name, val)
           a == fdt_add_property(b, node, name, val)
           r == IF p >= 0 THEN Retag(b, p, w)
                ELSE IF p = -FDT_ERR_NOTFOUND THEN a ELSE Err(b, p)
           Fine(x) == Blobs(x) /\ PropDone(b, x.fdt, node + 1, name, val)
<1>0. p \in Int /\ Block(b.words)
  BY PropertyTag DEF Sound, Agrees
<1>1. fdt_setprop(b, node, name, val) = RwCall(b, r)
  <2>1. -FDT_ERR_NOTFOUND < 0
    BY DEF FDT_ERR_NOTFOUND
  <2> HIDE DEF p, w, a
  <2> QED
    BY <1>0, <2>1 DEF fdt_setprop, p, w, a
<1>2. p >= 0 => Fine(Retag(b, p, w))
  BY RetagDone
<1>3. p < 0 => Fine(a)
  BY AddPropertyDone
<1>4. Fine(Err(b, p))
  BY ErrDone DEF PropDone
<1> HIDE DEF p, w, a, Fine
<1>5. Fine(r)
  BY <1>0, <1>2, <1>3, <1>4
<1> HIDE DEF r
<1>6. Blobs(r) /\ PropDone(b, r.fdt, node + 1, name, val)
  BY <1>5 DEF Fine
<1> QED
  BY <1>1, <1>6, CalledBlobs

\* What fdt_appendprop does: val goes behind the old value, if there is one.
Appends(b, c, j, name, val) ==
    \E v : /\ PropDone(b, c, j, name, v)
           /\ \/ c.words = b.words
              \/ v = val /\ \A old : ~HasProp(b.words, j, name, old)
              \/ \E old : HasProp(b.words, j, name, old) /\ v = old \o val

LEMMA AppendPropDone ==
    ASSUME NEW b, Sound(b), Nested(b.words), Ordered(b.words),
           NamesStored(b.words, b.strs), NEW node \in Int, NEW name, Len(name) \in Nat,
           SubSeq(name, 1, Len(name)) = name, NEW val, IsValue(val)
    PROVE  Appends(b, fdt_appendprop(b, node, name, val).fdt, node + 1, name, val)
<1> DEFINE p == fdt_get_property(b, node, name)
           v == At(b, p).val \o val
           w == Prop(name, v)
           a == fdt_add_property(b, node, name, val)
           r == IF p < 0 THEN a ELSE Retag(b, p, w)
           Fine(x) == Blobs(x) /\ Appends(b, x.fdt, node + 1, name, val)
<1>0. p \in Int /\ Block(b.words)
  BY PropertyTag DEF Sound, Agrees
<1>1. fdt_appendprop(b, node, name, val) = RwCall(b, r)
  BY DEF fdt_appendprop
<1>2. ASSUME p >= 0 PROVE Fine(Retag(b, p, w))
  <2>1. IsWord(At(b, p)) /\ At(b, p).tag = "PROP"
    BY <1>2, FoundProperty
  <2>2. IsValue(v)
    BY <2>1, ValueJoined DEF IsWord
  <2>3. HasProp(b.words, node + 1, name, At(b, p).val)
    <3>1. /\ p + 1 \in PropWords(b.words) /\ At(b, p).name = name
          /\ OpenPath(b.words)[p + 1] = OpenPath(b.words)[node + 1]
      BY <1>2, FoundOnly
    <3> HIDE DEF p
    <3> QED
      BY <3>1 DEF HasProp, At
  <2> DEFINE x == Retag(b, p, w)
  <2>4. Blobs(x) /\ PropDone(b, x.fdt, node + 1, name, v)
    <3> HIDE DEF v
    <3> QED
      BY <1>2, <2>2, RetagDone
  <2> HIDE DEF x, w, p
  <2>5. Appends(b, x.fdt, node + 1, name, val)
    BY <2>3, <2>4 DEF Appends
  <2> QED
    BY <2>4, <2>5 DEF x
<1>3. ASSUME p < 0 PROVE Fine(a)
  <2>1. /\ Blobs(a) /\ PropDone(b, a.fdt, node + 1, name, val)
        /\ a.fdt.words = b.words \/ \A old : ~HasProp(b.words, node + 1, name, old)
    BY <1>3, AddPropertyDone
  <2> HIDE DEF a
  <2> QED
    BY <2>1 DEF Appends
<1> HIDE DEF p, w, a, Fine
<1>4. Fine(r)
  BY <1>0, <1>2, <1>3
<1> HIDE DEF r
<1>5. Blobs(r) /\ Appends(b, r.fdt, node + 1, name, val)
  BY <1>4 DEF Fine
<1> QED
  BY <1>1, <1>5, CalledBlobs
CutDone(b, c, j, name) ==
    /\ Stores(b, c)
    /\ c.words = b.words \/ PropOut(b.words, c.words, j, name)

LEMMA FoundCut ==
    ASSUME NEW b, Sound(b), Nested(b.words), Ordered(b.words), NEW node \in Int,
           NEW name, fdt_get_property(b, node, name) >= 0, NEW c, NEW new,
           LET p == fdt_get_property(b, node, name)
           IN  Puts(b, c, p, tag_words(At(b, p)), new),
           Blank(new), SameStrings(b, c)
    PROVE  CutDone(b, c, node + 1, name)
<1> DEFINE p == fdt_get_property(b, node, name)
           n == tag_words(At(b, p))
<1>1. /\ p \in Nat /\ n \in 1 .. n /\ node + 1 \in NodeWords(b.words)
      /\ p + 1 \in PropWords(b.words) /\ At(b, p).name = name
      /\ OpenPath(b.words)[p + 1] = OpenPath(b.words)[node + 1]
      /\ \A m \in 1 .. n : Only(b.words, node + 1, name, p, m)
  <2>1. n \in Nat \ {0}
    BY FoundOnly
  <2>2. n \in 1 .. n
    BY <2>1
  <2> QED
    BY <2>2, FoundOnly
<1>2. Puts(b, c, p, n, new) /\ Quiet(b.words, p, p + n)
  BY PropertyQuiet
<1> HIDE DEF p, n
<1>3. PutIn(b.words, c.words, p, n, new)
  BY <1>2, PutIsIn
<1>4. HasProp(b.words, node + 1, name, b.words[p + 1].val)
  BY <1>1 DEF HasProp, At
<1>5. Only(b.words, node + 1, name, p, n)
  BY <1>1
<1>6. PropOut(b.words, c.words, node + 1, name)
  BY <1>1, <1>2, <1>3, <1>4, <1>5 DEF PropOut
<1> QED
  BY <1>6, SameStored DEF CutDone

LEMMA DelPropDone ==
    ASSUME NEW b, Sound(b), Nested(b.words), Ordered(b.words), NEW node \in Int, NEW name
    PROVE  CutDone(b, fdt_delprop(b, node, name).fdt, node + 1, name)
<1> DEFINE p == fdt_get_property(b, node, name)
           n == tag_words(At(b, p))
           s == splice_words(b, p, n, <<>>)
           r == IF p < 0 THEN Err(b, p) ELSE s
           Fine(x) == Blobs(x) /\ CutDone(b, x.fdt, node + 1, name)
<1>0. fdt_delprop(b, node, name) = RwCall(b, r) /\ p \in Int /\ Block(b.words)
  BY PropertyTag DEF fdt_delprop, Sound, Agrees
<1>1. Fine(Err(b, p))
  BY ErrDone DEF CutDone
<1>2. ASSUME p >= 0 PROVE Fine(s)
  <2>1. p + n <= Len(b.words) /\ n \in Nat
    BY <1>2, FoundProperty
  <2>2. p \in Nat
    BY <1>0, <1>2
  <2>3. Blobs(s) /\ (s.fdt = b \/ Puts(b, s.fdt, p, n, <<>>))
    <3> HIDE DEF p, n
    <3> QED
      BY <2>1, <2>2, NoWords, SplicePuts
  <2>4. SameStrings(b, s.fdt)
    BY SpliceStrings
  <2> DEFINE c == s.fdt
  <2>5. Puts(b, c, p, n, <<>>) => CutDone(b, c, node + 1, name)
    <3> HIDE DEF s
    <3>1. Blank(<<>>)
      BY BlanksBlank
    <3> DEFINE new == <<>>
    <3>2. Blank(new)
      BY <3>1
    <3> HIDE DEF new, c
    <3> SUFFICES ASSUME Puts(b, c, p, n, new) PROVE CutDone(b, c, node + 1, name)
      BY DEF new
    <3> QED
      BY <1>2, <2>4, <3>2, FoundCut DEF c
  <2>6. c = b => CutDone(b, c, node + 1, name)
    BY DEF CutDone, Stores
  <2> QED
    BY <2>3, <2>5, <2>6
<1> HIDE DEF p, s, Fine
<1>3. Fine(r)
  BY <1>0, <1>1, <1>2
<1> HIDE DEF r
<1>4. Blobs(r) /\ CutDone(b, r.fdt, node + 1, name)
  BY <1>3 DEF Fine
<1> QED
  BY <1>0, <1>4, CalledBlobs

LEMMA NopPropertyDone ==
    ASSUME NEW b, Sound(b), Nested(b.words), Ordered(b.words), NEW node \in Int, NEW name
    PROVE  CutDone(b, fdt_nop_property(b, node, name).fdt, node + 1, name)
<1> DEFINE p == fdt_get_property(b, node, name)
           n == tag_words(At(b, p))
           new == Nops(n)
           c == Overwrite(b, p, new)
<1>0. fdt_nop_property(b, node, name)
         = (IF p < 0 THEN Err(b, p) ELSE [ret |-> 0, fdt |-> c])
      /\ p \in Int /\ Block(b.words)
  BY PropertyTag DEF fdt_nop_property, Sound, Agrees
<1>1. CASE p < 0
  <2>1. fdt_nop_property(b, node, name).fdt = b
    BY <1>0, <1>1 DEF Err
  <2> QED
    BY <2>1 DEF CutDone, Stores
<1>2. CASE p >= 0
  <2>1. p + n <= Len(b.words) /\ n \in Nat /\ p \in Nat
    BY <1>0, <1>2, FoundProperty
  <2>2. Block(new) /\ Len(new) = n /\ Blank(new)
    BY <2>1, NopWords, BlanksBlank
  <2>3. SameStrings(b, c)
    BY OverwriteStrings
  <2> HIDE DEF p, n, new
  <2>4. LET r == [ret |-> 0, fdt |-> Overwrite(b, p, new)]
        IN  IsSplice(r.fdt.words, b.words, p, Len(new), new)
    BY <2>1, <2>2, OverwriteAnswers
  <2>5. Puts(b, c, p, n, new)
    BY <2>1, <2>2, <2>4 DEF Puts
  <2> HIDE DEF c
  <2>6. CutDone(b, c, node + 1, name)
    BY <1>2, <2>2, <2>3, <2>5, FoundCut DEF p, n
  <2>7. fdt_nop_property(b, node, name).fdt = c
    BY <1>0, <1>2, <2>1
  <2> QED
    BY <2>6, <2>7
<1> QED
  BY <1>0, <1>1, <1>2

LEMMA SetPropInplaceDone ==
    ASSUME NEW b, Sound(b), Nested(b.words), Ordered(b.words),
           NamesStored(b.words, b.strs), NEW node \in Int, NEW name, Len(name) \in Nat,
           NEW val, IsValue(val)
    PROVE  PropDone(b, fdt_setprop_inplace(b, node, name, val).fdt, node + 1, name, val)
<1> DEFINE p == fdt_get_property(b, node, name)
           n == tag_words(At(b, p))
           w == Prop(name, val)
           new == <<w>>
           c == Overwrite(b, p, new)
<1>0. p \in Int /\ Block(b.words)
  BY PropertyTag DEF Sound, Agrees
<1>1. fdt_setprop_inplace(b, node, name, val) =
        IF p < 0 THEN Err(b, p)
        ELSE IF val_len(At(b, p).val) # val_len(val) THEN Err(b, -FDT_ERR_NOSPACE)
        ELSE [ret |-> 0, fdt |-> c]
  BY <1>0 DEF fdt_setprop_inplace
<1>2. CASE p < 0 \/ val_len(At(b, p).val) # val_len(val)
  <2>1. fdt_setprop_inplace(b, node, name, val).fdt = b
    BY <1>1, <1>2 DEF Err
  <2> QED
    BY <2>1 DEF PropDone, Stores
<1>3. CASE p >= 0 /\ val_len(At(b, p).val) = val_len(val)
  <2>1. /\ p \in Nat /\ p + n <= Len(b.words) /\ n \in Nat \ {0}
        /\ node + 1 \in NodeWords(b.words) /\ node + 1 <= p
    BY <1>3, FoundOnly
  <2>2. 1 \in 1 .. n
    BY <2>1
  <2>3. Quiet(b.words, node + 1, p + 1) /\ Only(b.words, node + 1, name, p, 1)
    BY <1>3, <2>2, FoundOnly
  <2>4. fdt_find_string(b.strs, name) /\ SameStrings(b, c)
    BY <1>3, FoundStored, OverwriteStrings
  <2>5. IsWord(w) /\ w.tag = "PROP" /\ w.name = name /\ w.val = val
    BY NewTags DEF Prop, Word
  <2> HIDE DEF p, n, w
  <2>6. Block(new) /\ Len(new) = 1 /\ new[1] = w
    <3>1. <<w>> \in Seq({w})
      OBVIOUS
    <3>2. new \in Seq({w}) /\ DOMAIN new = {1} /\ new[1] = w /\ Len(new) = 1
      BY <3>1
    <3> HIDE DEF new
    <3>3. Block(new)
      BY <2>5, <3>2, SeqIs DEF Block
    <3> QED
      BY <3>2, <3>3
  <2> HIDE DEF new
  <2>7. PropertyWords(new, name, val)
    <3>1. 2 .. Len(new) = {}
      BY <2>6
    <3> QED
      BY <2>5, <2>6, <3>1 DEF PropertyWords
  <2>8. p + 1 <= Len(b.words) /\ p + Len(new) <= Len(b.words) /\ 1 \in Nat
    BY <2>1, <2>6
  <2>9. Puts(b, c, p, 1, new)
    <3>1. LET r == [ret |-> 0, fdt |-> Overwrite(b, p, new)]
          IN  IsSplice(r.fdt.words, b.words, p, Len(new), new)
      BY <2>1, <2>6, <2>8, OverwriteAnswers
    <3> QED
      BY <2>1, <2>6, <2>8, <3>1 DEF Puts
  <2> HIDE DEF c
  <2>10. PutIn(b.words, c.words, p, 1, new)
    BY <2>9, PutIsIn
  <2>11. PropSet(b.words, c.words, node + 1, name, val)
    BY <2>1, <2>3, <2>7, <2>10 DEF PropSet
  <2>12. Stores(b, c) /\ fdt_find_string(c.strs, name)
    BY <2>4, SameStored DEF Stores
  <2>13. PropDone(b, c, node + 1, name, val)
    BY <2>11, <2>12 DEF PropDone
  <2>14. ~(p < 0)
    BY <2>1
  <2> QED
    BY <1>1, <1>3, <2>13, <2>14
<1> QED
  BY <1>0, <1>2, <1>3

-----------------------------------------------------------------------------
(* The calls on nodes                                                      *)

NodeGone(ws, r, node) ==
    \E e, new : EndsAt(ws, node, e) /\ PutIn(ws, r, node, e - node, new) /\ Blank(new)

GoneDone(b, c, node) ==
    /\ SameStrings(b, c)
    /\ c.words = b.words \/ NodeGone(b.words, c.words, node)

LEMMA EndFoundEnds ==
    ASSUME NEW b, Sound(b), Nested(b.words), NEW node \in Int,
           fdt_node_end_offset(b, node) >= 0
    PROVE  LET e == fdt_node_end_offset(b, node)
           IN  EndsAt(b.words, node, e) /\ e - node \in Nat
<1> DEFINE e == fdt_node_end_offset(b, node)
<1>1. Block(b.words) /\ Len(b.words) \in Nat /\ DOMAIN b.words = 1 .. Len(b.words)
  BY BlockMeans DEF Sound, Agrees
<1>2. /\ \E next \in Int : IsNode(b, node, next)
      /\ e \in Starts(b.words) /\ e > node
      /\ Depths(b.words)[e] = Depths(b.words)[node]
      /\ Stays(Depths(b.words), node, e - 1)
  BY <1>1, EndFound
<1> HIDE DEF e
<1>3. /\ node \in Nat /\ node + 1 \in NodeWords(b.words)
  BY <1>1, <1>2 DEF IsNode, At, NodeWords
<1>4. e \in Nat /\ e <= Len(b.words)
  BY <1>1, <1>2 DEF Starts
<1> QED
  BY <1>2, <1>3, <1>4 DEF EndsAt, e

LEMMA NopNodeDone ==
    ASSUME NEW b, Sound(b), Nested(b.words), NEW node \in Int
    PROVE  GoneDone(b, fdt_nop_node(b, node).fdt, node)
<1> DEFINE e == fdt_node_end_offset(b, node)
           n == e - node
           new == Nops(n)
           c == Overwrite(b, node, new)
<1>0. fdt_nop_node(b, node) = (IF e < 0 THEN Err(b, e) ELSE [ret |-> 0, fdt |-> c])
      /\ e \in Int
  BY EndBehind DEF fdt_nop_node, Sound, Agrees
<1>1. CASE e < 0
  <2>1. fdt_nop_node(b, node).fdt = b
    BY <1>0, <1>1 DEF Err
  <2> QED
    BY <2>1 DEF GoneDone, SameStrings
<1>2. CASE e >= 0
  <2>1. EndsAt(b.words, node, e) /\ n \in Nat
    BY <1>2, EndFoundEnds
  <2> HIDE DEF e
  <2>2. node \in Nat /\ node + n <= Len(b.words)
    BY <2>1 DEF EndsAt
  <2>3. Block(new) /\ Len(new) = n /\ Blank(new)
    BY <2>1, NopWords, BlanksBlank
  <2>4. SameStrings(b, c)
    BY OverwriteStrings
  <2>5. LET r == [ret |-> 0, fdt |-> Overwrite(b, node, new)]
        IN  IsSplice(r.fdt.words, b.words, node, Len(new), new)
    <3> HIDE DEF new, n
    <3> QED
      BY <2>2, <2>3, OverwriteAnswers
  <2>6. Puts(b, c, node, n, new)
    BY <2>1, <2>2, <2>3, <2>5 DEF Puts
  <2> HIDE DEF c, new
  <2>7. PutIn(b.words, c.words, node, n, new)
    BY <2>6, PutIsIn
  <2>8. NodeGone(b.words, c.words, node)
    BY <2>1, <2>3, <2>7 DEF NodeGone
  <2>9. fdt_nop_node(b, node).fdt = c
    BY <1>0, <1>2
  <2> QED
    BY <2>4, <2>8, <2>9 DEF GoneDone
<1> QED
  BY <1>0, <1>1, <1>2

LEMMA DelNodeDone ==
    ASSUME NEW b, Sound(b), Nested(b.words), NEW node \in Int
    PROVE  GoneDone(b, fdt_del_node(b, node).fdt, node)
<1> DEFINE e == fdt_node_end_offset(b, node)
           n == e - node
           s == splice_words(b, node, n, <<>>)
           r == IF e < 0 THEN Err(b, e) ELSE s
           Fine(x) == Blobs(x) /\ GoneDone(b, x.fdt, node)
<1>0. fdt_del_node(b, node) = RwCall(b, r) /\ e \in Int
  BY EndBehind DEF fdt_del_node, Sound, Agrees
<1>1. Fine(Err(b, e))
  <2>1. Blobs(Err(b, e)) /\ Err(b, e).fdt = b
    BY ErrBlobs
  <2> QED
    BY <2>1 DEF GoneDone, SameStrings
<1>2. ASSUME e >= 0 PROVE Fine(s)
  <2>1. EndsAt(b.words, node, e) /\ n \in Nat
    BY <1>2, EndFoundEnds
  <2> HIDE DEF e
  <2>2. node \in Nat /\ node + n <= Len(b.words)
    BY <2>1 DEF EndsAt
  <2>3. Blobs(s) /\ (s.fdt = b \/ Puts(b, s.fdt, node, n, <<>>)) /\ SameStrings(b, s.fdt)
    <3> HIDE DEF n
    <3> QED
      BY <2>1, <2>2, NoWords, SplicePuts, SpliceStrings
  <2> DEFINE c == s.fdt
             new == <<>>
  <2>4. Blank(new)
    BY BlanksBlank
  <2>5. Blobs(s) /\ (c = b \/ Puts(b, c, node, n, new)) /\ SameStrings(b, c)
    BY <2>3
  <2> HIDE DEF c, new, s
  <2>6. ASSUME Puts(b, c, node, n, new) PROVE NodeGone(b.words, c.words, node)
    <3>1. PutIn(b.words, c.words, node, n, new)
      BY <2>6, PutIsIn
    <3> QED
      BY <2>1, <2>4, <3>1 DEF NodeGone
  <2>7. GoneDone(b, c, node)
    BY <2>5, <2>6 DEF GoneDone
  <2> QED
    BY <2>5, <2>7 DEF c
<1> HIDE DEF e, s, Fine
<1>3. Fine(r)
  BY <1>0, <1>1, <1>2
<1> HIDE DEF r
<1>4. Blobs(r) /\ GoneDone(b, r.fdt, node)
  BY <1>3 DEF Fine
<1> QED
  BY <1>0, <1>4, CalledBlobs

\* A new node below the one at word j, in front of the nodes there are.
NodeNew(ws, r, j, name) ==
    \E off :
        /\ PutIn(ws, r, off, 0, NewNode(name)) /\ off < Len(ws)
        /\ ws[off + 1].tag \in {"BEGIN", "END_NODE"}
        /\ j \in NodeWords(ws) /\ OpenPath(ws)[off] = OpenPath(ws)[j]
        /\ NameFree(ws, off, name)

NewDone(b, c, j, name) ==
    /\ SameStrings(b, c)
    /\ c.words = b.words \/ NodeNew(b.words, c.words, j, name)

\* Where fdt_add_subnode puts the new node.
LEMMA PlaceTag ==
    ASSUME NEW b, Sound(b), Nested(b.words), NEW node, NEW next, IsNode(b, node, next)
    PROVE  LET off == after_props(b, next)
           IN  /\ off \in Nat /\ off < Len(b.words)
               /\ b.words[off + 1].tag \in {"BEGIN", "END_NODE"}
               /\ OpenPath(b.words)[off] = OpenPath(b.words)[node + 1]
<1> DEFINE off == after_props(b, next)
           ws == b.words
<1>1. /\ Block(ws) /\ Len(ws) \in Nat /\ DOMAIN ws = 1 .. Len(ws)
  BY BlockMeans DEF Sound, Agrees
<1>2. node \in Nat /\ next \in Nat /\ next \in Near(b, node)
  BY <1>1, NodeNear DEF IsNode
<1>3. Closed(b, Near(b, node), {"PROP", "NOP"})
  BY <1>1, <1>2, NearClosed
<1>4. off \in Near(b, node) /\ fdt_next_tag(b, off).tag \notin {"PROP", "NOP"}
  BY <1>1, <1>2, <1>3, AfterProps
<1>5. off \in Starts(ws) /\ off > 0 /\ Depths(ws)[off] > 0
  BY <1>1, PlaceFound
<1> HIDE DEF off
<1>6. off \in 0 .. Len(ws) - 1 /\ node < off /\ Quiet(ws, node + 1, off)
  BY <1>4, <1>5 DEF Near, Starts
<1>7. TagAt(b, off, fdt_next_tag(b, off))
  BY <1>1, <1>5, NextStart
<1>8. ws[off + 1].tag \in {"BEGIN", "END_NODE", "END"}
  BY <1>4, <1>7 DEF TagAt, At, Tags
<1>9. ws[off + 1].tag # "END"
  <2> SUFFICES ASSUME ws[off + 1].tag = "END" PROVE FALSE
    OBVIOUS
  <2>1. off + 1 \in 1 .. Len(ws)
    BY <1>1, <1>6
  <2>2. off + 1 = Len(ws)
    BY <2>1 DEF Nested
  <2>3. off = Len(ws) - 1 /\ Len(ws) - 1 \in 1 .. Len(ws) - 1
    BY <1>1, <1>5, <1>6, <2>2
  <2>4. Depths(ws)[Len(ws) - 1] = 0
    BY <2>3 DEF Nested
  <2> QED
    BY <1>5, <2>3, <2>4
<1>10. OpenPath(ws)[off] = OpenPath(ws)[node + 1]
  <2> DEFINE p == OpenPath(ws)
  <2>1. PathsAre(ws, p)
    BY <1>1, OpenPathIs
  <2> HIDE DEF p
  <2>2. /\ node + 1 \in Nat /\ off \in Nat /\ node + 1 <= off /\ off <= Len(ws)
        /\ off \in node + 1 .. off
    BY <1>1, <1>2, <1>6
  <2>3. p[off] = p[node + 1]
    BY <1>1, <1>6, <2>1, <2>2, PathsQuiet
  <2> QED
    BY <2>3 DEF p
<1> QED
  BY <1>1, <1>6, <1>8, <1>9, <1>10 DEF off

LEMMA AddSubnodeDone ==
    ASSUME NEW b, Sound(b), Nested(b.words), PathsDiffer(b.words), NEW parent \in Int,
           parent >= 0, NEW name, Len(name) \in Nat
    PROVE  NewDone(b, fdt_add_subnode(b, parent, name).fdt, parent + 1, name)
<1> DEFINE r == fdt_add_subnode(b, parent, name)
           new == NewNode(name)
<1>1. \/ r.fdt = b
      \/ \E next \in Int : /\ IsNode(b, parent, next)
                           /\ Puts(b, r.fdt, after_props(b, next), 0, new)
  BY AddSubnodePuts
<1>2. /\ fdt_subnode_offset(b, parent, name) >= 0 => r.fdt = b
      /\ SameStrings(b, r.fdt)
  BY AddSubnodePuts
<1> DEFINE c == r.fdt
<1> HIDE DEF r
<1>3. CASE c = b
  BY <1>3 DEF NewDone, SameStrings, r
<1>4. ASSUME c # b, NEW next \in Int, IsNode(b, parent, next),
             Puts(b, c, after_props(b, next), 0, new)
      PROVE  NodeNew(b.words, c.words, parent + 1, name)
  <2> DEFINE off == after_props(b, next)
  <2>1. /\ off \in Nat /\ off < Len(b.words)
        /\ b.words[off + 1].tag \in {"BEGIN", "END_NODE"}
        /\ OpenPath(b.words)[off] = OpenPath(b.words)[parent + 1]
    BY <1>4, PlaceTag
  <2> HIDE DEF off, c, new
  <2>2. PutIn(b.words, c.words, off, 0, new)
    BY <1>4, PutIsIn DEF off
  <2>3. /\ Block(b.words) /\ parent \in Nat /\ parent + 1 \in NodeWords(b.words)
    BY <1>4, BlockMeans DEF Sound, Agrees, IsNode, NodeWords, At
  <2>4. ASSUME NEW l \in NodeWords(b.words),
               OpenPath(b.words)[l] = Append(OpenPath(b.words)[off], name)
        PROVE  FALSE
    <3>0. OpenPath(b.words)[l] = Append(OpenPath(b.words)[parent + 1], name)
      BY <2>1, <2>4
    <3>1. fdt_subnode_offset(b, parent, name) >= 0
      BY <2>3, <3>0, ChildFound
    <3> QED
      BY <1>2, <1>4, <3>1 DEF c
  <2>5. NameFree(b.words, off, name)
    BY <2>4 DEF NameFree
  <2> QED
    BY <2>1, <2>2, <2>3, <2>5 DEF NodeNew, new
<1>5. SameStrings(b, c)
  BY <1>2
<1> QED
  BY <1>1, <1>3, <1>4, <1>5 DEF NewDone, r
\* The node at word node + 1 gets the name, which gives it a path of its own.
NodeNamed(ws, r, node, name) ==
    /\ node > 0 /\ NameFree(ws, node, name)
    /\ \E e : Renames(ws, r, node, e, name)

NamedDone(b, c, node, name) ==
    /\ SameStrings(b, c)
    /\ c.words = b.words \/ NodeNamed(b.words, c.words, node, name)

LEMMA SetNameDone ==
    ASSUME NEW b, Sound(b), Nested(b.words), NEW node \in Int, node # 0,
           NEW name, Len(name) \in Nat,
           node \in NodeOffsets(b) => NameFree(b.words, node, name)
    PROVE  NamedDone(b, fdt_set_name(b, node, name).fdt, node, name)
<1> DEFINE next == fdt_check_node_offset(b, node)
           w == Begin(name)
           n == tag_words(At(b, node))
           ws == b.words
           s == splice_words(b, node, n, Unit(w))
           r == IF next < 0 THEN Err(b, next) ELSE s
           Fine(x) == Blobs(x) /\ NamedDone(b, x.fdt, node, name)
<1>0. /\ fdt_set_name(b, node, name) = RwCall(b, r)
      /\ Block(ws) /\ Len(ws) \in Nat /\ DOMAIN ws = 1 .. Len(ws)
  BY BlockMeans DEF fdt_set_name, Retag, Sound, Agrees
<1>1. next < 0 \/ (next \in 1 .. Len(b.words) /\ IsNode(b, node, next))
  BY FoundNode
<1>2. Fine(Err(b, next))
  <2>1. Blobs(Err(b, next)) /\ Err(b, next).fdt = b
    BY ErrBlobs
  <2> QED
    BY <2>1 DEF NamedDone, SameStrings
<1>3. ASSUME next \in 1 .. Len(b.words), IsNode(b, node, next) PROVE Fine(s)
  <2>1. IsWord(w)
    BY NewTags, NoValue DEF Begin, Word
  <2>2. /\ node \in Nat /\ node > 0 /\ node + 1 \in NodeWords(ws) /\ node \in NodeOffsets(b)
        /\ node + n <= Len(ws)
    BY <1>0, <1>3 DEF IsNode, NodeWords, NodeOffsets, At
  <2>3. node \in Starts(ws)
    BY <1>0, <1>3, NodeInside
  <2>4. Quiet(ws, node + 1, node + n) /\ n \in Nat \ {0}
    BY <1>0, <2>3, TagQuiet
  <2>5. Block(Unit(w))
    BY <2>1, UnitWords
  <2>6. Blobs(s) /\ (s.fdt = b \/ Puts(b, s.fdt, node, n, Unit(w))) /\ SameStrings(b, s.fdt)
    <3> HIDE DEF n, w
    <3> QED
      BY <2>2, <2>4, <2>5, SplicePuts, SpliceStrings
  <2> DEFINE c == s.fdt
             e == fdt_node_end_offset(b, node)
  <2>7. e >= 0 /\ EndsAt(ws, node, e)
    <3>1. e \in Starts(ws) /\ e > node
      BY <1>0, <1>3, EndIs
    <3>2. e >= 0
      BY <2>2, <3>1 DEF Starts
    <3> QED
      BY <3>2, EndFoundEnds
  <2>8. NameFree(ws, node, name)
    BY <2>2
  <2> HIDE DEF s, e, next
  <2>9. ASSUME Puts(b, c, node, n, Unit(w)) PROVE NodeNamed(ws, c.words, node, name)
    <3>1. n = tag_words(ws[node + 1])
      BY DEF At
    <3>2. PutIn(ws, c.words, node, n, Unit(w))
      <4> HIDE DEF c, n, w
      <4> QED
        BY <2>9, PutIsIn
    <3> HIDE DEF n, c
    <3>3. Renames(ws, c.words, node, e, name)
      BY <2>1, <2>4, <2>7, <3>1, <3>2 DEF Renames
    <3> QED
      BY <2>2, <2>8, <3>3 DEF NodeNamed
  <2>10. NamedDone(b, c, node, name)
    BY <2>6, <2>9 DEF NamedDone
  <2> QED
    BY <2>6, <2>10
<1> HIDE DEF next, s, Fine
<1>4. Fine(r)
  BY <1>1, <1>2, <1>3
<1> HIDE DEF r
<1>5. Blobs(r) /\ NamedDone(b, r.fdt, node, name)
  BY <1>4 DEF Fine
<1> QED
  BY <1>0, <1>5, CalledBlobs

\* A name no sibling has gives a path no node has.
LEMMA SiblingsFree ==
    ASSUME Sound(fdt), NEW n \in NodeOffsets(fdt), NEW name, name \notin Siblings(n)
    PROVE  NameFree(fdt.words, n, name)
<1> DEFINE ws == fdt.words
           p == OpenPath(ws)
<1>1. /\ Block(ws) /\ Len(ws) \in Nat /\ DOMAIN ws = 1 .. Len(ws)
  BY BlockMeans DEF Sound, Agrees
<1>2. n \in Nat /\ n + 1 \in 1 .. Len(ws) /\ ws[n + 1].tag = "BEGIN" /\ n \in 0 .. Len(ws)
  BY <1>1 DEF NodeOffsets, At
<1>3. PathsAre(ws, p) /\ IsPath(p[n])
  BY <1>1, <1>2, OpenPathIs, PathSeq
<1> HIDE DEF p
<1>4. p[n + 1] = Append(p[n], ws[n + 1].name)
  <2>1. p[n + 1] = Append(p[(n + 1) - 1], ws[n + 1].name)
    BY <1>2, <1>3 DEF PathsAre
  <2>2. (n + 1) - 1 = n
    BY <1>2
  <2> QED
    BY <2>1, <2>2
<1>5. ParentPath(p[n + 1]) = p[n]
  BY <1>3, <1>4, PathLonger
<1> SUFFICES ASSUME NEW l \in NodeWords(ws), p[l] = Append(p[n], name) PROVE FALSE
  BY DEF NameFree, p
<1>6. l - 1 \in NodeOffsets(fdt) /\ (l - 1) + 1 = l
  <2>1. l \in 1 .. Len(ws) /\ ws[l].tag = "BEGIN"
    BY <1>1 DEF NodeWords
  <2>2. l - 1 \in 0 .. Len(ws) - 1 /\ (l - 1) + 1 = l
    BY <1>1, <2>1
  <2> QED
    BY <2>1, <2>2 DEF NodeOffsets, At
<1>7. /\ ParentPath(p[l]) = p[n] /\ p[l][Len(p[l])] = name
  BY <1>3, PathLonger
<1>8. PathAt(fdt, l - 1) = p[l] /\ PathAt(fdt, n) = p[n + 1]
  BY <1>6 DEF PathAt, p
<1> DEFINE m == l - 1
<1>9. PathAt(fdt, m)[Len(PathAt(fdt, m))] = name
  BY <1>7, <1>8
<1>10. ParentPath(PathAt(fdt, m)) = ParentPath(PathAt(fdt, n))
  BY <1>5, <1>7, <1>8
<1>11. m \in NodeOffsets(fdt)
  BY <1>6
<1> HIDE DEF m
<1>12. name \in Siblings(n)
  BY <1>9, <1>10, <1>11 DEF Siblings, ParentPath
<1> QED
  BY <1>12

-----------------------------------------------------------------------------
(* Tidy blobs stay tidy                                                    *)

LEMMA NodeGoneOrdered ==
    ASSUME NEW ws, Block(ws), Nested(ws), Ordered(ws), NEW r, NEW node, NEW e, NEW new,
           EndsAt(ws, node, e), PutIn(ws, r, node, e - node, new), Blank(new)
    PROVE  /\ Rejoins(ws, r, node, e - node, new)
           /\ Fresh(ws, r, node, e - node, Len(new)) /\ Ordered(r)
<1> DEFINE n == e - node
<1>1. /\ node \in Nat /\ e \in Nat /\ node < e /\ node + 1 \in NodeWords(ws)
      /\ Depths(ws)[e] = Depths(ws)[node] /\ Stays(Depths(ws), node, e - 1)
  BY DEF EndsAt
<1>2. n > 0 /\ node + n = e
  BY <1>1
<1> HIDE DEF n
<1>3. Depths(ws)[node + n] = Depths(ws)[node] /\ Stays(Depths(ws), node, node + n - 1)
  <2>1. node + n - 1 = e - 1
    <3>1. node \in Int /\ e \in Int /\ n \in Int
      BY <1>1 DEF n
    <3> QED
      BY ONLY <1>2, <3>1
  <2>2. Depths(ws)[node + n] = Depths(ws)[node]
    BY <1>1, <1>2
  <2>3. Stays(Depths(ws), node, node + n - 1)
    BY <1>1, <2>1
  <2> QED
    BY <2>2, <2>3
<1>4. PutIn(ws, r, node, n, new)
  BY DEF n
<1> QED
  BY <1>1, <1>2, <1>3, <1>4, NodeOut DEF n

\* The names of the properties that are kept.
LEMMA FreshNames ==
    ASSUME NEW ws, Block(ws), NEW r, NEW off, NEW n, NEW new,
           Rejoins(ws, r, off, n, new), Fresh(ws, r, off, n, Len(new)),
           NEW strs, NamesStored(ws, strs),
           Len(new) > 0 /\ r[off + 1].tag = "PROP"
               => fdt_find_string(strs, r[off + 1].name)
    PROVE  NamesStored(r, strs)
<1>1. /\ Len(ws) \in Nat /\ Block(r) /\ DOMAIN r = 1 .. Len(r) /\ DOMAIN ws = 1 .. Len(ws)
  BY RejoinLengths, BlockMeans
<1> SUFFICES ASSUME NEW k \in PropWords(r) PROVE fdt_find_string(strs, r[k].name)
  BY DEF NamesStored
<1>2. k \in 1 .. Len(r) /\ r[k].tag = "PROP"
  BY <1>1 DEF PropWords
<1>3. Off(off, Len(new), k) \/ (k = off + 1 /\ Len(new) > 0)
  BY <1>2, OldOrNew
<1>4. CASE Off(off, Len(new), k)
  <2> DEFINE l == Back(off, Len(new), n, k)
  <2>1. l \in 1 .. Len(ws) /\ r[k] = ws[l]
    BY <1>2, <1>4, KeptWord
  <2> HIDE DEF l
  <2>2. l \in PropWords(ws)
    BY <1>1, <1>2, <2>1 DEF PropWords
  <2> QED
    BY <2>1, <2>2 DEF NamesStored
<1>5. CASE k = off + 1 /\ Len(new) > 0
  BY <1>2, <1>5
<1> QED
  BY <1>3, <1>4, <1>5

\* What every call leaves behind.
Neat(c) == Ordered(c.words) /\ NamesStored(c.words, c.strs)

LEMMA StoredOn ==
    ASSUME NEW b, NEW c, Stores(b, c), NEW ws, NamesStored(ws, b.strs)
    PROVE  NamesStored(ws, c.strs)
BY DEF Stores, NamesStored

LEMMA PropDoneNeat ==
    ASSUME NEW b, Block(b.words), Neat(b), NEW c, NEW j, NEW name, NEW val,
           PropDone(b, c, j, name, val)
    PROVE  Neat(c)
<1> DEFINE ws == b.words
           r == c.words
<1>1. Ordered(ws) /\ NamesStored(ws, c.strs)
  BY StoredOn DEF Neat, PropDone
<1>2. CASE r = ws
  BY <1>1, <1>2 DEF Neat
<1>3. CASE r # ws
  <2>1. PropSet(ws, r, j, name, val) /\ fdt_find_string(c.strs, name)
    BY <1>3 DEF PropDone
  <2>2. PICK off, n, new :
           /\ PutIn(ws, r, off, n, new) /\ PropertyWords(new, name, val)
           /\ j \in NodeWords(ws) /\ j <= off /\ Quiet(ws, j, off + n)
           /\ Only(ws, j, name, off, n)
    BY <2>1 DEF PropSet
  <2> HIDE DEF ws, r
  <2>3. \A l \in PropWords(ws) : Off(off, n, l) /\ ws[l].name = name
                                     => OpenPath(ws)[l] # OpenPath(ws)[j]
    BY <2>2 DEF Only
  <2>4. /\ Rejoins(ws, r, off, n, new) /\ Fresh(ws, r, off, n, Len(new))
        /\ Ordered(r) /\ r[off + 1].name = name
    BY <1>1, <2>2, <2>3, PropertyPut DEF ws
  <2>5. NamesStored(r, c.strs)
    BY <1>1, <2>1, <2>4, FreshNames DEF ws
  <2> QED
    BY <2>4, <2>5 DEF Neat, r
<1> QED
  BY <1>2, <1>3

LEMMA BlankStart ==
    ASSUME NEW ws, Block(ws), NEW r, NEW off, NEW n, NEW new,
           PutIn(ws, r, off, n, new), Blank(new), Len(new) > 0
    PROVE  r[off + 1].tag # "PROP"
<1>1. 1 \in 1 .. Len(new)
  BY BlockMeans DEF PutIn
<1>2. r[off + 1] = new[1]
  BY <1>1, NewWord
<1> QED
  BY <1>1, <1>2 DEF Blank

LEMMA CutDoneNeat ==
    ASSUME NEW b, Block(b.words), Neat(b), NEW c, NEW j, NEW name, CutDone(b, c, j, name)
    PROVE  Neat(c)
<1> DEFINE ws == b.words
           r == c.words
<1>1. Ordered(ws) /\ NamesStored(ws, c.strs)
  BY StoredOn DEF Neat, CutDone
<1>2. CASE r = ws
  BY <1>1, <1>2 DEF Neat
<1>3. CASE r # ws
  <2>1. PropOut(ws, r, j, name)
    BY <1>3 DEF CutDone
  <2>2. PICK off, n, new :
           PutIn(ws, r, off, n, new) /\ Blank(new) /\ Quiet(ws, off, off + n)
    BY <2>1 DEF PropOut
  <2> HIDE DEF ws, r
  <2>3. /\ Rejoins(ws, r, off, n, new) /\ Fresh(ws, r, off, n, Len(new)) /\ Ordered(r)
    BY <1>1, <2>2, PropertyOut DEF ws
  <2>4. Len(new) > 0 => r[off + 1].tag # "PROP"
    BY <2>2, BlankStart DEF ws
  <2>5. NamesStored(r, c.strs)
    BY <1>1, <2>3, <2>4, FreshNames DEF ws
  <2> QED
    BY <2>3, <2>5 DEF Neat, r
<1> QED
  BY <1>2, <1>3
LEMMA GoneDoneNeat ==
    ASSUME NEW b, Block(b.words), Nested(b.words), Neat(b), NEW c, NEW node,
           GoneDone(b, c, node)
    PROVE  Neat(c)
<1> DEFINE ws == b.words
           r == c.words
<1>1. Ordered(ws) /\ NamesStored(ws, c.strs)
  BY DEF Neat, GoneDone, SameStrings
<1>2. CASE r = ws
  BY <1>1, <1>2 DEF Neat
<1>3. CASE r # ws
  <2>1. NodeGone(ws, r, node)
    BY <1>3 DEF GoneDone
  <2>2. PICK e, new :
           EndsAt(ws, node, e) /\ PutIn(ws, r, node, e - node, new) /\ Blank(new)
    BY <2>1 DEF NodeGone
  <2> DEFINE n == e - node
  <2> HIDE DEF ws, r
  <2>3. /\ Rejoins(ws, r, node, n, new) /\ Fresh(ws, r, node, n, Len(new)) /\ Ordered(r)
    BY <1>1, <2>2, NodeGoneOrdered DEF ws
  <2>4. PutIn(ws, r, node, n, new)
    BY <2>2
  <2> HIDE DEF n
  <2>5. Len(new) > 0 => r[node + 1].tag # "PROP"
    BY <2>2, <2>4, BlankStart DEF ws
  <2>6. NamesStored(r, c.strs)
    BY <1>1, <2>3, <2>5, FreshNames DEF ws
  <2> QED
    BY <2>3, <2>6 DEF Neat, r
<1> QED
  BY <1>2, <1>3

LEMMA NewDoneNeat ==
    ASSUME NEW b, Block(b.words), Neat(b), NEW c, NEW j, NEW name, Len(name) \in Nat,
           NewDone(b, c, j, name)
    PROVE  Neat(c)
<1> DEFINE ws == b.words
           r == c.words
<1>1. Ordered(ws) /\ NamesStored(ws, c.strs)
  BY DEF Neat, NewDone, SameStrings
<1>2. CASE r = ws
  BY <1>1, <1>2 DEF Neat
<1>3. CASE r # ws
  <2>1. NodeNew(ws, r, j, name)
    BY <1>3 DEF NewDone
  <2>2. PICK off :
           /\ PutIn(ws, r, off, 0, NewNode(name)) /\ off < Len(ws)
           /\ ws[off + 1].tag \in {"BEGIN", "END_NODE"}
           /\ NameFree(ws, off, name)
    BY <2>1 DEF NodeNew
  <2> DEFINE new == NewNode(name)
  <2> HIDE DEF ws, r
  <2>0. NodeIsIn(ws, r, off, name, OpenPath(ws)[off])
    BY <1>1, <2>2, NodeIn DEF ws
  <2>3. /\ Rejoins(ws, r, off, 0, new) /\ Fresh(ws, r, off, 0, Len(new)) /\ Ordered(r)
        /\ r[off + 1].tag = "BEGIN"
    BY <2>0 DEF NodeIsIn
  <2> HIDE DEF new
  <2>4. NamesStored(r, c.strs)
    BY <1>1, <2>3, FreshNames DEF ws
  <2> QED
    BY <2>3, <2>4 DEF Neat, r
<1> QED
  BY <1>2, <1>3

LEMMA NamedDoneNeat ==
    ASSUME NEW b, Block(b.words), Nested(b.words), Neat(b), NEW c, NEW node, NEW name,
           NamedDone(b, c, node, name)
    PROVE  Neat(c)
<1> DEFINE ws == b.words
           r == c.words
<1>1. Ordered(ws) /\ NamesStored(ws, c.strs)
  BY DEF Neat, NamedDone, SameStrings
<1>2. CASE r = ws
  BY <1>1, <1>2 DEF Neat
<1>3. CASE r # ws
  <2>1. NodeNamed(ws, r, node, name)
    BY <1>3 DEF NamedDone
  <2>2. PICK e : Renames(ws, r, node, e, name)
    BY <2>1 DEF NodeNamed
  <2>3. NameFree(ws, node, name)
    BY <2>1 DEF NodeNamed
  <2> HIDE DEF ws, r
  <2>4. Ordered(r)
    BY <1>1, <2>2, <2>3, NodeRenamed DEF ws
  <2>5. Block(r)
    BY <2>2, RenamedWords DEF ws
  <2>6. NamesStored(r, c.strs)
    <3> SUFFICES ASSUME NEW k \in PropWords(r) PROVE fdt_find_string(c.strs, r[k].name)
      BY DEF NamesStored
    <3>1. k \in 1 .. Len(r) /\ r[k].tag = "PROP"
      BY <2>5, BlockMeans DEF PropWords
    <3> DEFINE s == OldPlace(ws, node, name, k)
    <3>2. s \in 1 .. Len(ws) /\ ws[s].tag = "PROP" /\ (s # node + 1 => r[k] = ws[s])
      BY <2>2, <3>1, RenamedPlaces DEF ws
    <3> HIDE DEF s
    <3>3. ws[node + 1].tag = "BEGIN"
      BY <2>2 DEF Renames, EndsAt, NodeWords
    <3>4. r[k] = ws[s]
      BY <3>2, <3>3
    <3>5. s \in PropWords(ws)
      BY <3>2, BlockMeans DEF PropWords, ws
    <3> QED
      BY <1>1, <3>4, <3>5 DEF NamesStored
  <2> QED
    BY <2>4, <2>6 DEF Neat, r
<1> QED
  BY <1>2, <1>3
LEMMA RootlessNeat ==
    ASSUME NEW c, Block(c.words), Rootless(c.words) PROVE Neat(c)
<1>1. NodeWords(c.words) = {} /\ PropWords(c.words) = {}
  <2>0. DOMAIN c.words = 1 .. Len(c.words) /\ Len(c.words) \in Nat
    BY BlockMeans
  <2>1. ASSUME NEW k \in 1 .. Len(c.words), c.words[k].tag \in {"BEGIN", "PROP"}
        PROVE  FALSE
    <3>1. k - 1 \in 0 .. Len(c.words) - 1 /\ (k - 1) + 1 = k
      BY <2>0
    <3>2. At(c, k - 1).tag \in {"BEGIN", "PROP"}
      BY <2>1, <3>1 DEF At
    <3> QED
      BY <3>1, <3>2, NotRootless
  <2> QED
    BY <2>0, <2>1 DEF NodeWords, PropWords
<1> QED
  BY <1>1 DEF Neat, Ordered, PropsFirst, PropsOnce, PathsDiffer, NamesStored

LEMMA SameNeat ==
    ASSUME NEW b, NEW c, c.words = b.words, c.strs = b.strs, Neat(b) PROVE Neat(c)
BY DEF Neat

LEMMA ArgumentsAre ==
    /\ \A p \in PropNames : Len(p) \in Nat /\ SubSeq(p, 1, Len(p)) = p
    /\ \A name \in Names : Len(name) \in Nat
    /\ \A v \in Vals : IsValue(v)
BY NamesAssumption, EndingAssumption, ValsAssumption

LEMMA EditPropNeat ==
    ASSUME Sound(fdt), Nested(fdt.words), Neat(fdt), NEW n \in Int, EditProp(n)
    PROVE  Neat(fdt')
<1>1. PICK p \in PropNames :
         DelProp(n, p) \/ \E v \in Vals : SetProp(n, p, v) \/ AppendProp(n, p, v)
  BY DEF EditProp
<1>2. Len(p) \in Nat /\ SubSeq(p, 1, Len(p)) = p
  BY ArgumentsAre
<1>3. /\ Block(fdt.words) /\ Ordered(fdt.words) /\ NamesStored(fdt.words, fdt.strs)
  BY DEF Sound, Agrees, Neat
<1>4. CASE DelProp(n, p)
  <2>1. CutDone(fdt, fdt_delprop(fdt, n, p).fdt, n + 1, p)
    BY <1>3, DelPropDone
  <2> QED
    BY <1>3, <1>4, <2>1, CutDoneNeat DEF DelProp
<1>5. ASSUME NEW v \in Vals, SetProp(n, p, v) PROVE Neat(fdt')
  <2>1. IsValue(v)
    BY ArgumentsAre
  <2>2. PropDone(fdt, fdt_setprop(fdt, n, p, v).fdt, n + 1, p, v)
    BY <1>2, <1>3, <2>1, SetPropDone
  <2> QED
    BY <1>3, <1>5, <2>2, PropDoneNeat DEF SetProp
<1>6. ASSUME NEW v \in Vals, AppendProp(n, p, v) PROVE Neat(fdt')
  <2>1. IsValue(v)
    BY ArgumentsAre
  <2>2. Appends(fdt, fdt_appendprop(fdt, n, p, v).fdt, n + 1, p, v)
    BY <1>2, <1>3, <2>1, AppendPropDone
  <2>3. PICK w : PropDone(fdt, fdt_appendprop(fdt, n, p, v).fdt, n + 1, p, w)
    BY <2>2 DEF Appends
  <2> QED
    BY <1>3, <1>6, <2>3, PropDoneNeat DEF AppendProp
<1> QED
  BY <1>1, <1>4, <1>5, <1>6

LEMMA EditInPlaceNeat ==
    ASSUME Sound(fdt), Nested(fdt.words), Neat(fdt), NEW n \in Int, EditInPlace(n)
    PROVE  Neat(fdt')
<1>1. /\ Block(fdt.words) /\ Ordered(fdt.words) /\ NamesStored(fdt.words, fdt.strs)
  BY DEF Sound, Agrees, Neat
<1>2. ASSUME NEW p \in PropNames, NopProperty(n, p) PROVE Neat(fdt')
  <2>1. CutDone(fdt, fdt_nop_property(fdt, n, p).fdt, n + 1, p)
    BY <1>1, NopPropertyDone
  <2> QED
    BY <1>1, <1>2, <2>1, CutDoneNeat DEF NopProperty
<1>3. ASSUME NEW p \in PropNames, NEW v \in Vals, SetPropInplace(n, p, v)
      PROVE  Neat(fdt')
  <2>1. Len(p) \in Nat /\ IsValue(v)
    BY ArgumentsAre
  <2>2. PropDone(fdt, fdt_setprop_inplace(fdt, n, p, v).fdt, n + 1, p, v)
    BY <1>1, <2>1, SetPropInplaceDone
  <2> QED
    BY <1>1, <1>3, <2>2, PropDoneNeat DEF SetPropInplace
<1>4. CASE NopNode(n)
  <2>1. GoneDone(fdt, fdt_nop_node(fdt, n).fdt, n)
    BY NopNodeDone
  <2> QED
    BY <1>1, <1>4, <2>1, GoneDoneNeat DEF NopNode
<1> QED
  BY <1>2, <1>3, <1>4 DEF EditInPlace

LEMMA EditNodesNeat ==
    ASSUME UnseenError = FALSE, Sound(fdt), Nested(fdt.words), Neat(fdt),
           NEW n \in Int, EditNodes(n)
    PROVE  Neat(fdt')
<1>1. /\ Block(fdt.words) /\ Ordered(fdt.words) /\ PathsDiffer(fdt.words)
  BY DEF Sound, Agrees, Neat, Ordered
<1>2. ASSUME NEW name \in Names, AddSubnode(n, name) PROVE Neat(fdt')
  <2>1. Len(name) \in Nat /\ n >= 0 /\ fdt' = fdt_add_subnode(fdt, n, name).fdt
    BY <1>2, ArgumentsAre DEF AddSubnode
  <2>2. NewDone(fdt, fdt_add_subnode(fdt, n, name).fdt, n + 1, name)
    BY <1>1, <2>1, AddSubnodeDone
  <2> QED
    BY <1>1, <2>1, <2>2, NewDoneNeat
<1>3. ASSUME NEW name \in Names, SetName(n, name) PROVE Neat(fdt')
  <2>1. Len(name) \in Nat /\ n # 0 /\ fdt' = fdt_set_name(fdt, n, name).fdt
        /\ (n \in NodeOffsets(fdt) => name \notin Siblings(n))
    BY <1>3, ArgumentsAre DEF SetName
  <2>2. n \in NodeOffsets(fdt) => NameFree(fdt.words, n, name)
    BY <2>1, SiblingsFree
  <2>3. NamedDone(fdt, fdt_set_name(fdt, n, name).fdt, n, name)
    BY <2>1, <2>2, SetNameDone
  <2> QED
    BY <1>1, <2>1, <2>3, NamedDoneNeat
<1>4. CASE DelNode(n)
  <2>1. GoneDone(fdt, fdt_del_node(fdt, n).fdt, n)
    BY DelNodeDone
  <2> QED
    BY <1>1, <1>4, <2>1, GoneDoneNeat DEF DelNode
<1> QED
  BY <1>2, <1>3, <1>4 DEF EditNodes

\* Nothing of what the device tree compiler sees to is lost.
LEMMA TidyStep ==
    ASSUME UnseenError = FALSE
    PROVE  Sound(fdt) /\ Shaped(fdt.words) /\ Tidy(fdt) /\ [Next]_vars => Tidy(fdt)'
<1>0. (Tidy(fdt) <=> Neat(fdt)) /\ (Tidy(fdt') <=> Neat(fdt'))
  BY DEF Tidy, Neat, Ordered
<1> SUFFICES ASSUME Sound(fdt), Shaped(fdt.words), Neat(fdt), [Next]_vars
             PROVE  Neat(fdt')
  <2>1. Tidy(fdt') => Tidy(fdt)'
    OBVIOUS
  <2> QED
    BY <1>0, <2>1
<1>1. CASE UNCHANGED vars
  BY <1>1 DEF vars
<1>2. CASE EditBlocks
  <2>1. MovesTo(fdt, fdt')
    BY <1>2, EditBlocksMoves
  <2> QED
    BY <2>1, SameNeat DEF MovesTo
<1>3. ASSUME NEW n \in Targets, EditProp(n) \/ EditInPlace(n) \/ EditNodes(n)
      PROVE  Neat(fdt')
  <2>1. n \in Int
    BY TargetNumbers
  <2>2. CASE Nested(fdt.words)
    BY <1>3, <2>1, <2>2, EditPropNeat, EditInPlaceNeat, EditNodesNeat
  <2>3. CASE Rootless(fdt.words)
    <3>1. EditsTo(fdt, fdt')
      BY <1>3, <2>1, EditPropEdits, EditInPlaceEdits, EditNodesEdits
    <3>2. Rootless(fdt'.words) /\ Block(fdt'.words)
      BY <2>3, <3>1 DEF EditsTo, Keeps, Sound, Agrees
    <3> QED
      BY <3>2, RootlessNeat
  <2> QED
    BY <2>2, <2>3 DEF Shaped
<1> QED
  BY <1>1, <1>2, <1>3 DEF Next

LEMMA TidyAlways ==
    ASSUME UnseenError = FALSE
    PROVE  Spec => [](Sound(fdt) /\ Shaped(fdt.words) /\ Tidy(fdt))
<1>1. Init => Shaped(fdt.words) /\ Tidy(fdt)
  BY InitOpens DEF Shaped
<1>2. Sound(fdt) /\ Shaped(fdt.words) /\ [Next]_vars => Shaped(fdt.words)'
  BY ShapedStep
<1>3. Sound(fdt) /\ Shaped(fdt.words) /\ Tidy(fdt) /\ [Next]_vars => Tidy(fdt)'
  BY TidyStep
<1> QED
  BY <1>1, <1>2, <1>3, SoundAlways, PTL DEF Spec

\* Every property a node has is found from the node by its name, and the name
\* is in the strings block, after any sequence of calls that set, append to,
\* delete and blank properties, add, rename, delete and blank nodes: no call
\* puts a property behind a subnode or a second one of the same name, and the
\* strings block only grows.
THEOREM RwPropsReachable ==
    ASSUME UnseenError = FALSE PROVE Spec => []PropsReachable
<1>1. Sound(fdt) /\ Shaped(fdt.words) /\ Tidy(fdt) => PropsReachable
  BY TidyReachable
<1> QED
  BY <1>1, TidyAlways, PTL

\* No two nodes ever have one path: fdt_add_subnode refuses the name of a
\* subnode there is, and fdt_set_name is not called with a sibling's.
THEOREM RwPathsUnique ==
    ASSUME UnseenError = FALSE PROVE Spec => []PathsUnique
<1>1. Sound(fdt) /\ Tidy(fdt) => PathsUnique
  BY TidyUnique
<1> QED
  BY <1>1, TidyAlways, PTL
-----------------------------------------------------------------------------
(* The tree that a block shows                                             *)

NodePaths(ws) == {OpenPath(ws)[k] : k \in NodeWords(ws)}

\* The node of that path has that property.
PropAt(ws, p, m, v) ==
    \E k \in PropWords(ws) :
        OpenPath(ws)[k] = p /\ ws[k].name = m /\ ws[k].val = v

Named(ws, p, m) == \E v : PropAt(ws, p, m, v)

\* t is the tree with the nodes and the properties of the block.
Says(ws, t) ==
    /\ t = [p \in NodePaths(ws) |-> t[p]]
    /\ \A p \in NodePaths(ws) :
          /\ t[p] = [m \in DOMAIN t[p] |-> t[p][m]]
          /\ \A m : m \in DOMAIN t[p] <=> Named(ws, p, m)
          /\ \A m, v : PropAt(ws, p, m, v) => t[p][m] = v

LEMMA SaysOne ==
    ASSUME NEW ws, NEW t, NEW u, Says(ws, t), Says(ws, u)
    PROVE  t = u
<1>1. ASSUME NEW p \in NodePaths(ws) PROVE t[p] = u[p]
  <2>1. DOMAIN t[p] = DOMAIN u[p]
    <3>1. \A m : m \in DOMAIN t[p] <=> m \in DOMAIN u[p]
      BY DEF Says
    <3> QED
      BY <3>1
  <2>2. ASSUME NEW m \in DOMAIN t[p] PROVE t[p][m] = u[p][m]
    <3>1. PICK v : PropAt(ws, p, m, v)
      BY DEF Says, Named
    <3> QED
      BY <3>1 DEF Says
  <2>3. t[p] = [m \in DOMAIN t[p] |-> t[p][m]] /\ u[p] = [m \in DOMAIN u[p] |-> u[p][m]]
    BY DEF Says
  <2> QED
    BY <2>1, <2>2, <2>3
<1>2. t = [p \in NodePaths(ws) |-> t[p]] /\ u = [p \in NodePaths(ws) |-> u[p]]
  BY DEF Says
<1> QED
  BY <1>1, <1>2

LEMMA TreeSays ==
    ASSUME NEW b, Block(b.words), PropsOnce(b.words)
    PROVE  Says(b.words, TreeOf(b))
<1> DEFINE ws == b.words
           path == [k \in DOMAIN ws |-> OpenPath(ws)[k]]
           own(p) == {k \in DOMAIN ws : ws[k].tag = "PROP" /\ path[k] = p}
           names(p) == {ws[k].name : k \in own(p)}
           first(p, m) == CHOOSE k \in own(p) : ws[k].name = m
           props(p) == [m \in names(p) |-> ws[first(p, m)].val]
           t == [p \in {path[n + 1] : n \in NodeOffsets(b)} |-> props(p)]
<1>1. TreeOf(b) = t
  BY DEF TreeOf
<1>2. Len(ws) \in Nat /\ DOMAIN ws = 1 .. Len(ws)
  BY BlockMeans
<1>3. {path[n + 1] : n \in NodeOffsets(b)} = NodePaths(ws)
  <2>1. ASSUME NEW n \in NodeOffsets(b) PROVE path[n + 1] \in NodePaths(ws)
    <3>1. n + 1 \in NodeWords(ws) /\ n + 1 \in DOMAIN ws
      BY <1>2 DEF NodeOffsets, NodeWords, At
    <3> QED
      BY <3>1 DEF NodePaths
  <2>2. ASSUME NEW k \in NodeWords(ws)
        PROVE  \E n \in NodeOffsets(b) : OpenPath(ws)[k] = path[n + 1]
    <3>1. k \in 1 .. Len(ws) /\ k \in DOMAIN ws /\ ws[k].tag = "BEGIN"
      BY <1>2 DEF NodeWords
    <3>2. k - 1 \in 0 .. Len(ws) - 1 /\ (k - 1) + 1 = k
      BY <1>2, <3>1
    <3>3. k - 1 \in NodeOffsets(b)
      BY <3>1, <3>2 DEF NodeOffsets, At
    <3> QED
      BY <3>1, <3>2, <3>3
  <2> HIDE DEF path
  <2> QED
    BY <2>1, <2>2 DEF NodePaths
<1>4. \A p : own(p) = {k \in PropWords(ws) : OpenPath(ws)[k] = p}
  BY DEF PropWords
<1> HIDE DEF own, path
<1>5. ASSUME NEW p, NEW m
      PROVE  m \in names(p) <=> Named(ws, p, m)
  BY <1>4 DEF Named, PropAt
<1>6. ASSUME NEW p, NEW m, NEW v, PropAt(ws, p, m, v)
      PROVE  props(p)[m] = v
  <2>1. PICK k \in PropWords(ws) :
           OpenPath(ws)[k] = p /\ ws[k].name = m /\ ws[k].val = v
    BY <1>6 DEF PropAt
  <2>2. k \in own(p) /\ m \in names(p)
    BY <1>4, <2>1
  <2>3. first(p, m) \in own(p) /\ ws[first(p, m)].name = m
    BY <2>1, <2>2
  <2>4. first(p, m) = k
    <3> HIDE DEF first
    <3>1. first(p, m) \in PropWords(ws) /\ OpenPath(ws)[first(p, m)] = p
      BY <1>4, <2>3
    <3> QED
      BY <2>1, <2>3, <3>1 DEF PropsOnce
  <2> HIDE DEF first, names
  <2> QED
    BY <2>1, <2>2, <2>4
<1>7. \A p : /\ DOMAIN props(p) = names(p)
             /\ props(p) = [m \in DOMAIN props(p) |-> props(p)[m]]
  <2> HIDE DEF first, names
  <2> QED
    OBVIOUS
<1> HIDE DEF props, names
<1>8. t = [p \in NodePaths(ws) |-> props(p)]
  BY <1>3
<1> HIDE DEF t
<1>9. /\ t = [p \in NodePaths(ws) |-> t[p]]
      /\ \A p \in NodePaths(ws) : t[p] = props(p)
  BY <1>8
<1>10. Says(ws, t)
  BY <1>5, <1>6, <1>7, <1>9 DEF Says
<1> QED
  BY <1>1, <1>10

LEMMA TreeIs ==
    ASSUME NEW b, Block(b.words), PropsOnce(b.words), NEW t, Says(b.words, t)
    PROVE  TreeOf(b) = t
BY TreeSays, SaysOne

LEMMA SameTree ==
    ASSUME NEW b, NEW c, c.words = b.words PROVE TreeOf(c) = TreeOf(b)
<1>1. NodeOffsets(c) = NodeOffsets(b)
  BY DEF NodeOffsets, At
<1> QED
  BY <1>1 DEF TreeOf
-----------------------------------------------------------------------------
(* The nodes and properties after an edit                                  *)

\* The nodes and the properties of the words that stay.
StayingNode(ws, off, n, q) ==
    \E l \in NodeWords(ws) : Off(off, n, l) /\ OpenPath(ws)[l] = q

StayingProp(ws, off, n, q, m, v) ==
    \E l \in PropWords(ws) :
        Off(off, n, l) /\ OpenPath(ws)[l] = q /\ ws[l].name = m /\ ws[l].val = v

\* Those of the words that have come in.
ComingNode(r, off, z, q) ==
    z > 0 /\ r[off + 1].tag = "BEGIN" /\ OpenPath(r)[off + 1] = q

ComingProp(r, off, z, q, m, v) ==
    /\ z > 0 /\ r[off + 1].tag = "PROP" /\ OpenPath(r)[off + 1] = q
    /\ r[off + 1].name = m /\ r[off + 1].val = v

LEMMA NodesAfter ==
    ASSUME NEW ws, Block(ws), NEW r, NEW off, NEW n, NEW new,
           Rejoins(ws, r, off, n, new), Fresh(ws, r, off, n, Len(new)), NEW q
    PROVE  q \in NodePaths(r) <=> \/ StayingNode(ws, off, n, q)
                                  \/ ComingNode(r, off, Len(new), q)
<1> DEFINE z == Len(new)
<1>1. /\ Len(ws) \in Nat /\ Len(r) \in Nat /\ z \in Nat /\ Block(r)
      /\ off \in Nat /\ n \in Nat /\ off + n <= Len(ws) /\ Len(r) = Len(ws) - n + z
      /\ DOMAIN r = 1 .. Len(r) /\ DOMAIN ws = 1 .. Len(ws)
  BY RejoinLengths, BlockMeans
<1>2. ASSUME NEW k \in NodeWords(r), OpenPath(r)[k] = q
      PROVE  StayingNode(ws, off, n, q) \/ ComingNode(r, off, z, q)
  <2>1. k \in 1 .. Len(r) /\ r[k].tag = "BEGIN"
    BY <1>1 DEF NodeWords
  <2>2. Off(off, z, k) \/ (k = off + 1 /\ z > 0)
    BY <2>1, OldOrNew
  <2>3. CASE Off(off, z, k)
    <3> DEFINE l == Back(off, z, n, k)
    <3>1. l \in 1 .. Len(ws) /\ Off(off, n, l) /\ r[k] = ws[l]
          /\ OpenPath(r)[k] = OpenPath(ws)[l]
      BY <2>1, <2>3, KeptWord
    <3> HIDE DEF l
    <3>2. l \in NodeWords(ws) /\ OpenPath(ws)[l] = q
      BY <1>1, <1>2, <2>1, <3>1 DEF NodeWords
    <3> QED
      BY <3>1, <3>2 DEF StayingNode
  <2>4. CASE k = off + 1 /\ z > 0
    BY <1>2, <2>1, <2>4 DEF ComingNode
  <2> QED
    BY <2>2, <2>3, <2>4
<1>3. ASSUME NEW l \in NodeWords(ws), Off(off, n, l), OpenPath(ws)[l] = q
      PROVE  q \in NodePaths(r)
  <2>1. l \in 1 .. Len(ws) /\ ws[l].tag = "BEGIN"
    BY <1>1 DEF NodeWords
  <2> DEFINE k == Back(off, n, z, l)
  <2>2. k \in 1 .. Len(r) /\ Off(off, z, k) /\ r[k] = ws[l] /\ l = Back(off, z, n, k)
    BY <1>3, <2>1, OldWord
  <2> HIDE DEF k
  <2>3. OpenPath(r)[k] = OpenPath(ws)[l]
    BY <2>2, KeptWord
  <2>4. k \in NodeWords(r)
    BY <1>1, <2>1, <2>2 DEF NodeWords
  <2> QED
    BY <1>3, <2>3, <2>4 DEF NodePaths
<1>4. ASSUME ComingNode(r, off, z, q) PROVE q \in NodePaths(r)
  <2>1. off + 1 \in 1 .. Len(r)
    BY <1>1, <1>4 DEF ComingNode
  <2>2. off + 1 \in NodeWords(r) /\ OpenPath(r)[off + 1] = q
    BY <1>1, <1>4, <2>1 DEF ComingNode, NodeWords
  <2> QED
    BY <2>2 DEF NodePaths
<1>5. q \in NodePaths(r) => \E k \in NodeWords(r) : OpenPath(r)[k] = q
  BY DEF NodePaths
<1> QED
  BY <1>2, <1>3, <1>4, <1>5 DEF StayingNode

LEMMA PropsAfter ==
    ASSUME NEW ws, Block(ws), NEW r, NEW off, NEW n, NEW new,
           Rejoins(ws, r, off, n, new), Fresh(ws, r, off, n, Len(new)),
           NEW q, NEW m, NEW v
    PROVE  PropAt(r, q, m, v) <=> \/ StayingProp(ws, off, n, q, m, v)
                                  \/ ComingProp(r, off, Len(new), q, m, v)
<1> DEFINE z == Len(new)
<1>1. /\ Len(ws) \in Nat /\ Len(r) \in Nat /\ z \in Nat /\ Block(r)
      /\ off \in Nat /\ n \in Nat /\ off + n <= Len(ws) /\ Len(r) = Len(ws) - n + z
      /\ DOMAIN r = 1 .. Len(r) /\ DOMAIN ws = 1 .. Len(ws)
  BY RejoinLengths, BlockMeans
<1>2. ASSUME NEW k \in PropWords(r), OpenPath(r)[k] = q, r[k].name = m, r[k].val = v
      PROVE  StayingProp(ws, off, n, q, m, v) \/ ComingProp(r, off, z, q, m, v)
  <2>1. k \in 1 .. Len(r) /\ r[k].tag = "PROP"
    BY <1>1 DEF PropWords
  <2>2. Off(off, z, k) \/ (k = off + 1 /\ z > 0)
    BY <2>1, OldOrNew
  <2>3. CASE Off(off, z, k)
    <3> DEFINE l == Back(off, z, n, k)
    <3>1. l \in 1 .. Len(ws) /\ Off(off, n, l) /\ r[k] = ws[l]
          /\ OpenPath(r)[k] = OpenPath(ws)[l]
      BY <2>1, <2>3, KeptWord
    <3> HIDE DEF l
    <3>2. /\ l \in PropWords(ws) /\ OpenPath(ws)[l] = q
          /\ ws[l].name = m /\ ws[l].val = v
      BY <1>1, <1>2, <2>1, <3>1 DEF PropWords
    <3> QED
      BY <3>1, <3>2 DEF StayingProp
  <2>4. CASE k = off + 1 /\ z > 0
    BY <1>2, <2>1, <2>4 DEF ComingProp
  <2> QED
    BY <2>2, <2>3, <2>4
<1>3. ASSUME NEW l \in PropWords(ws), Off(off, n, l), OpenPath(ws)[l] = q,
             ws[l].name = m, ws[l].val = v
      PROVE  PropAt(r, q, m, v)
  <2>1. l \in 1 .. Len(ws) /\ ws[l].tag = "PROP"
    BY <1>1 DEF PropWords
  <2> DEFINE k == Back(off, n, z, l)
  <2>2. k \in 1 .. Len(r) /\ Off(off, z, k) /\ r[k] = ws[l] /\ l = Back(off, z, n, k)
    BY <1>3, <2>1, OldWord
  <2> HIDE DEF k
  <2>3. OpenPath(r)[k] = OpenPath(ws)[l]
    BY <2>2, KeptWord
  <2>4. k \in PropWords(r)
    BY <1>1, <2>1, <2>2 DEF PropWords
  <2> QED
    BY <1>3, <2>2, <2>3, <2>4 DEF PropAt
<1>4. ASSUME ComingProp(r, off, z, q, m, v) PROVE PropAt(r, q, m, v)
  <2>1. off + 1 \in 1 .. Len(r)
    BY <1>1, <1>4 DEF ComingProp
  <2>2. off + 1 \in PropWords(r)
    BY <1>1, <1>4, <2>1 DEF ComingProp, PropWords
  <2> QED
    BY <1>4, <2>2 DEF PropAt, ComingProp
<1>5. PropAt(r, q, m, v) => \E k \in PropWords(r) :
                               OpenPath(r)[k] = q /\ r[k].name = m /\ r[k].val = v
  BY DEF PropAt
<1> QED
  BY <1>2, <1>3, <1>4, <1>5 DEF StayingProp
\* What becomes of the nodes and properties: the property of the node at p is
\* set, or gone; the node is gone, with all below; a node has come in.
SetFacts(ws, r, p, name, val) ==
    /\ \A q : q \in NodePaths(r) <=> q \in NodePaths(ws)
    /\ \A q, m, v : PropAt(r, q, m, v) <=> IF q = p /\ m = name THEN v = val
                                           ELSE PropAt(ws, q, m, v)

OutFacts(ws, r, p, name) ==
    /\ \A q : q \in NodePaths(r) <=> q \in NodePaths(ws)
    /\ \A q, m, v : PropAt(r, q, m, v) <=> PropAt(ws, q, m, v) /\ ~(q = p /\ m = name)

GoneFacts(ws, r, p) ==
    /\ \A q : q \in NodePaths(r) <=> q \in NodePaths(ws) /\ ~Under(q, p)
    /\ \A q, m, v : PropAt(r, q, m, v) <=> PropAt(ws, q, m, v) /\ ~Under(q, p)

NewFacts(ws, r, p, name) ==
    /\ Append(p, name) \notin NodePaths(ws)
    /\ \A q : q \in NodePaths(r) <=> q \in NodePaths(ws) \/ q = Append(p, name)
    /\ \A q, m, v : PropAt(r, q, m, v) <=> PropAt(ws, q, m, v)

LEMMA QuietNodesStay ==
    ASSUME NEW ws, Block(ws), NEW off \in Nat, NEW n \in Nat, Quiet(ws, off, off + n), NEW q
    PROVE  StayingNode(ws, off, n, q) <=> q \in NodePaths(ws)
<1>1. ASSUME NEW l \in NodeWords(ws) PROVE Off(off, n, l)
  <2>1. l \in Nat /\ ws[l].tag = "BEGIN"
    BY BlockMeans DEF NodeWords
  <2>2. l \notin off + 1 .. off + n
    BY <2>1 DEF Quiet
  <2> QED
    BY <2>1, <2>2 DEF Off
<1> QED
  BY <1>1 DEF StayingNode, NodePaths

LEMMA OthersStay ==
    ASSUME NEW ws, NEW j, NEW name, NEW off, NEW n, Only(ws, j, name, off, n),
           NEW q, NEW m, NEW v
    PROVE  StayingProp(ws, off, n, q, m, v)
              <=> PropAt(ws, q, m, v) /\ ~(q = OpenPath(ws)[j] /\ m = name)
BY DEF Only, StayingProp, PropAt

LEMMA PropSetFacts ==
    ASSUME NEW ws, Block(ws), Ordered(ws), NEW r, NEW j, NEW name, NEW val,
           PropSet(ws, r, j, name, val)
    PROVE  SetFacts(ws, r, OpenPath(ws)[j], name, val)
<1> DEFINE p == OpenPath(ws)[j]
<1>1. PICK off, n, new :
         /\ PutIn(ws, r, off, n, new) /\ PropertyWords(new, name, val)
         /\ j \in NodeWords(ws) /\ j <= off /\ Quiet(ws, j, off + n)
         /\ Only(ws, j, name, off, n)
  BY DEF PropSet
<1>2. \A l \in PropWords(ws) : Off(off, n, l) /\ ws[l].name = name
                                   => OpenPath(ws)[l] # OpenPath(ws)[j]
  BY <1>1 DEF Only
<1>3. /\ Rejoins(ws, r, off, n, new) /\ Fresh(ws, r, off, n, Len(new))
      /\ Len(new) > 0 /\ r[off + 1].tag = "PROP" /\ r[off + 1].name = name
      /\ r[off + 1].val = val /\ OpenPath(r)[off + 1] = p
  BY <1>1, <1>2, PropertyPut
<1>4. /\ off \in Nat /\ n \in Nat /\ Quiet(ws, off, off + n)
  <2>1. off \in Nat /\ n \in Nat /\ j \in Nat
    BY <1>1, BlockMeans DEF PutIn, NodeWords
  <2>2. \A i \in off + 1 .. off + n : i \in j + 1 .. off + n
    BY <1>1, <2>1
  <2> QED
    BY <1>1, <2>1, <2>2 DEF Quiet
<1> HIDE DEF p
<1>5. ASSUME NEW q PROVE q \in NodePaths(r) <=> q \in NodePaths(ws)
  <2>1. ~ComingNode(r, off, Len(new), q)
    BY <1>3 DEF ComingNode
  <2> QED
    BY <1>3, <1>4, <2>1, NodesAfter, QuietNodesStay
<1>6. ASSUME NEW q, NEW m, NEW v
      PROVE  PropAt(r, q, m, v) <=> IF q = p /\ m = name THEN v = val
                                    ELSE PropAt(ws, q, m, v)
  <2>1. ComingProp(r, off, Len(new), q, m, v) <=> q = p /\ m = name /\ v = val
    BY <1>3 DEF ComingProp
  <2>2. StayingProp(ws, off, n, q, m, v) <=> PropAt(ws, q, m, v) /\ ~(q = p /\ m = name)
    BY <1>1, OthersStay DEF p
  <2>3. PropAt(r, q, m, v) <=> \/ StayingProp(ws, off, n, q, m, v)
                               \/ ComingProp(r, off, Len(new), q, m, v)
    BY <1>3, PropsAfter
  <2> QED
    BY <2>1, <2>2, <2>3
<1>7. SetFacts(ws, r, p, name, val)
  BY <1>5, <1>6 DEF SetFacts
<1> QED
  BY <1>7 DEF p

\* Blank words bring nothing in.
LEMMA BlankBrings ==
    ASSUME NEW ws, Block(ws), NEW r, NEW off, NEW n, NEW new,
           PutIn(ws, r, off, n, new), Blank(new), NEW q
    PROVE  /\ ~ComingNode(r, off, Len(new), q)
           /\ \A m, v : ~ComingProp(r, off, Len(new), q, m, v)
<1>1. ASSUME Len(new) > 0 PROVE r[off + 1].tag \in {"NOP", "CONT"}
  <2>1. 1 \in 1 .. Len(new)
    BY <1>1, BlockMeans DEF PutIn
  <2>2. r[off + 1] = new[1]
    BY <2>1, NewWord
  <2> QED
    BY <2>1, <2>2 DEF Blank
<1> QED
  BY <1>1 DEF ComingNode, ComingProp

LEMMA PropOutFacts ==
    ASSUME NEW ws, Block(ws), Ordered(ws), NEW r, NEW j, NEW name,
           PropOut(ws, r, j, name)
    PROVE  OutFacts(ws, r, OpenPath(ws)[j], name)
<1> DEFINE p == OpenPath(ws)[j]
<1>1. PICK off, n, new :
         /\ PutIn(ws, r, off, n, new) /\ Blank(new)
         /\ Quiet(ws, off, off + n) /\ Only(ws, j, name, off, n)
  BY DEF PropOut
<1>2. Rejoins(ws, r, off, n, new) /\ Fresh(ws, r, off, n, Len(new))
  BY <1>1, PropertyOut
<1>3. off \in Nat /\ n \in Nat
  BY <1>1 DEF PutIn
<1> HIDE DEF p
<1>4. ASSUME NEW q PROVE q \in NodePaths(r) <=> q \in NodePaths(ws)
  <2>1. ~ComingNode(r, off, Len(new), q)
    BY <1>1, BlankBrings
  <2> QED
    BY <1>1, <1>2, <1>3, <2>1, NodesAfter, QuietNodesStay
<1>5. ASSUME NEW q, NEW m, NEW v
      PROVE  PropAt(r, q, m, v) <=> PropAt(ws, q, m, v) /\ ~(q = p /\ m = name)
  <2>1. ~ComingProp(r, off, Len(new), q, m, v)
    BY <1>1, BlankBrings
  <2>2. StayingProp(ws, off, n, q, m, v) <=> PropAt(ws, q, m, v) /\ ~(q = p /\ m = name)
    BY <1>1, OthersStay DEF p
  <2>3. PropAt(r, q, m, v) <=> \/ StayingProp(ws, off, n, q, m, v)
                               \/ ComingProp(r, off, Len(new), q, m, v)
    BY <1>2, PropsAfter
  <2> QED
    BY <2>1, <2>2, <2>3
<1>6. OutFacts(ws, r, p, name)
  BY <1>4, <1>5 DEF OutFacts
<1> QED
  BY <1>6 DEF p

LEMMA NodeGoneFacts ==
    ASSUME NEW ws, Block(ws), Nested(ws), Ordered(ws), NEW r, NEW node,
           NodeGone(ws, r, node)
    PROVE  GoneFacts(ws, r, OpenPath(ws)[node + 1])
<1> DEFINE p == OpenPath(ws)[node + 1]
<1>1. PICK e, new :
         EndsAt(ws, node, e) /\ PutIn(ws, r, node, e - node, new) /\ Blank(new)
  BY DEF NodeGone
<1> DEFINE n == e - node
<1>2. Rejoins(ws, r, node, n, new) /\ Fresh(ws, r, node, n, Len(new))
  BY <1>1, NodeGoneOrdered
<1>3. /\ node \in Nat /\ e \in Nat /\ node < e /\ e <= Len(ws) /\ Len(ws) \in Nat
      /\ ws[e].tag = "END_NODE"
  BY <1>1, InsideDepths DEF EndsAt
<1>4. PutIn(ws, r, node, n, new)
  BY <1>1
<1>5. node + n = e
  BY <1>3
<1>6. ASSUME NEW l \in 1 .. Len(ws), l # e
      PROVE  Off(node, n, l) <=> ~Under(OpenPath(ws)[l], p)
  <2>1. l \in 0 .. Len(ws)
    BY <1>3
  <2>2. Under(OpenPath(ws)[l], p) <=> node < l /\ l < e
    BY <1>1, <2>1, UnderNode DEF Ordered
  <2>3. Off(node, n, l) <=> (l <= node \/ l > e)
    BY <1>5 DEF Off
  <2>4. (l <= node \/ l > e) <=> ~(node < l /\ l < e)
    <3>1. l \in Int /\ node \in Int /\ e \in Int
      BY <1>3
    <3> QED
      BY ONLY <1>6, <3>1
  <2> QED
    BY ONLY <2>2, <2>3, <2>4
<1> HIDE DEF p, n
<1>7. ASSUME NEW l \in NodeWords(ws)
      PROVE  Off(node, n, l) <=> ~Under(OpenPath(ws)[l], p)
  <2>1. l \in 1 .. Len(ws) /\ l # e
    BY <1>3, BlockMeans DEF NodeWords
  <2> QED
    BY <1>6, <2>1
<1>8. ASSUME NEW l \in PropWords(ws)
      PROVE  Off(node, n, l) <=> ~Under(OpenPath(ws)[l], p)
  <2>1. l \in 1 .. Len(ws) /\ l # e
    BY <1>3, BlockMeans DEF PropWords
  <2> QED
    BY <1>6, <2>1
<1>9. ASSUME NEW q
      PROVE  q \in NodePaths(r) <=> q \in NodePaths(ws) /\ ~Under(q, p)
  <2>1. ~ComingNode(r, node, Len(new), q)
    BY <1>1, <1>4, BlankBrings
  <2>2. StayingNode(ws, node, n, q) <=> q \in NodePaths(ws) /\ ~Under(q, p)
    BY <1>7 DEF StayingNode, NodePaths
  <2> QED
    BY <1>2, <2>1, <2>2, NodesAfter
<1>10. ASSUME NEW q, NEW m, NEW v
       PROVE  PropAt(r, q, m, v) <=> PropAt(ws, q, m, v) /\ ~Under(q, p)
  <2>1. ~ComingProp(r, node, Len(new), q, m, v)
    BY <1>1, <1>4, BlankBrings
  <2>2. StayingProp(ws, node, n, q, m, v) <=> PropAt(ws, q, m, v) /\ ~Under(q, p)
    BY <1>8 DEF StayingProp, PropAt
  <2> QED
    BY <1>2, <2>1, <2>2, PropsAfter
<1>11. GoneFacts(ws, r, p)
  BY <1>9, <1>10 DEF GoneFacts
<1> QED
  BY <1>11 DEF p

LEMMA NodeNewFacts ==
    ASSUME NEW ws, Block(ws), Ordered(ws), NEW r, NEW j, NEW name, Len(name) \in Nat,
           NodeNew(ws, r, j, name)
    PROVE  NewFacts(ws, r, OpenPath(ws)[j], name)
<1> DEFINE p == OpenPath(ws)[j]
           new == NewNode(name)
<1>1. PICK off :
         /\ PutIn(ws, r, off, 0, NewNode(name)) /\ off < Len(ws)
         /\ ws[off + 1].tag \in {"BEGIN", "END_NODE"}
         /\ OpenPath(ws)[off] = p /\ NameFree(ws, off, name)
  BY DEF NodeNew
<1>2. NodeIsIn(ws, r, off, name, OpenPath(ws)[off])
  BY <1>1, NodeIn
<1>3. /\ Rejoins(ws, r, off, 0, new) /\ Fresh(ws, r, off, 0, Len(new))
      /\ Len(new) > 0 /\ r[off + 1].tag = "BEGIN"
      /\ OpenPath(r)[off + 1] = Append(OpenPath(ws)[off], name)
  BY <1>2 DEF NodeIsIn
<1>4. OpenPath(r)[off + 1] = Append(p, name)
  BY <1>1, <1>3
<1>5. Append(p, name) \notin NodePaths(ws)
  BY <1>1 DEF NameFree, NodePaths
<1>6. off \in Nat
  BY <1>1 DEF PutIn
<1> HIDE DEF p, new
<1>7. ASSUME NEW l \in NodeWords(ws) \cup PropWords(ws) PROVE Off(off, 0, l)
  <2>1. l \in Nat
    BY BlockMeans DEF NodeWords, PropWords
  <2> QED
    BY <1>6, <2>1 DEF Off
<1>8. ASSUME NEW q
      PROVE  q \in NodePaths(r) <=> q \in NodePaths(ws) \/ q = Append(p, name)
  <2>1. ComingNode(r, off, Len(new), q) <=> q = Append(p, name)
    BY <1>3, <1>4 DEF ComingNode
  <2>2. StayingNode(ws, off, 0, q) <=> q \in NodePaths(ws)
    BY <1>7 DEF StayingNode, NodePaths
  <2> QED
    BY <1>3, <2>1, <2>2, NodesAfter
<1>9. ASSUME NEW q, NEW m, NEW v PROVE PropAt(r, q, m, v) <=> PropAt(ws, q, m, v)
  <2>1. ~ComingProp(r, off, Len(new), q, m, v)
    BY <1>3 DEF ComingProp
  <2>2. StayingProp(ws, off, 0, q, m, v) <=> PropAt(ws, q, m, v)
    BY <1>7 DEF StayingProp, PropAt
  <2> QED
    BY <1>3, <2>1, <2>2, PropsAfter
<1>10. NewFacts(ws, r, p, name)
  BY <1>5, <1>8, <1>9 DEF NewFacts
<1> QED
  BY <1>10 DEF p
-----------------------------------------------------------------------------
(* The calls of DeviceTree                                                 *)

\* Of a node at a path, the properties fs.
PutProps(t, p, fs) == [t EXCEPT ![p] = fs]

WithProp(f, name, val) ==
    [m \in DOMAIN f \cup {name} |-> IF m = name THEN val ELSE f[m]]

WithoutProp(f, name) == [m \in DOMAIN f \ {name} |-> f[m]]

LEMMA PutPropsIs ==
    ASSUME NEW ws, NEW t, Says(ws, t), NEW p \in NodePaths(ws), NEW f,
           f = [m \in DOMAIN f |-> f[m]], NEW r,
           \A q : q \in NodePaths(r) <=> q \in NodePaths(ws),
           \A m : m \in DOMAIN f <=> Named(r, p, m),
           \A m, v : PropAt(r, p, m, v) => f[m] = v,
           \A q, m, v : q # p => (PropAt(r, q, m, v) <=> PropAt(ws, q, m, v))
    PROVE  Says(r, PutProps(t, p, f))
<1> DEFINE u == PutProps(t, p, f)
<1>1. NodePaths(r) = NodePaths(ws)
  OBVIOUS
<1>2. t = [q \in NodePaths(ws) |-> t[q]]
  BY DEF Says
<1>3. u = [q \in NodePaths(ws) |-> IF q = p THEN f ELSE t[q]]
  BY <1>2 DEF PutProps
<1>4. u = [q \in NodePaths(ws) |-> u[q]]
  BY <1>3
<1>5. \A q \in NodePaths(ws) : u[q] = IF q = p THEN f ELSE t[q]
  BY <1>3
<1> HIDE DEF u
<1>6. ASSUME NEW q \in NodePaths(ws)
      PROVE  /\ u[q] = [m \in DOMAIN u[q] |-> u[q][m]]
             /\ \A m : m \in DOMAIN u[q] <=> Named(r, q, m)
             /\ \A m, v : PropAt(r, q, m, v) => u[q][m] = v
  <2>1. CASE q = p
    BY <1>5, <2>1
  <2>2. CASE q # p
    <3>1. u[q] = t[q]
      BY <1>5, <2>2
    <3>2. /\ t[q] = [m \in DOMAIN t[q] |-> t[q][m]]
          /\ \A m : m \in DOMAIN t[q] <=> Named(ws, q, m)
          /\ \A m, v : PropAt(ws, q, m, v) => t[q][m] = v
      BY DEF Says
    <3>3. \A m, v : PropAt(r, q, m, v) <=> PropAt(ws, q, m, v)
      BY <2>2
    <3>4. \A m : Named(r, q, m) <=> Named(ws, q, m)
      BY <3>3 DEF Named
    <3> QED
      BY <3>1, <3>2, <3>3, <3>4
  <2> QED
    BY <2>1, <2>2
<1>7. Says(r, u)
  BY <1>1, <1>4, <1>6 DEF Says
<1> QED
  BY <1>7 DEF u

LEMMA SetSays ==
    ASSUME NEW ws, NEW t, Says(ws, t), NEW p \in NodePaths(ws), NEW r, NEW name, NEW val,
           SetFacts(ws, r, p, name, val)
    PROVE  Says(r, PutProps(t, p, WithProp(t[p], name, val)))
<1> DEFINE g == t[p]
           f == WithProp(g, name, val)
<1>1. /\ g = [m \in DOMAIN g |-> g[m]]
      /\ \A m : m \in DOMAIN g <=> Named(ws, p, m)
      /\ \A m, v : PropAt(ws, p, m, v) => g[m] = v
  BY DEF Says
<1> HIDE DEF g
<1>2. /\ f = [m \in DOMAIN f |-> f[m]] /\ DOMAIN f = DOMAIN g \cup {name}
      /\ f[name] = val /\ \A m \in DOMAIN g : m # name => f[m] = g[m]
  BY DEF WithProp
<1> HIDE DEF f
<1>3. \A q, m, v : PropAt(r, q, m, v) <=> IF q = p /\ m = name THEN v = val
                                          ELSE PropAt(ws, q, m, v)
  BY DEF SetFacts
<1>4. PropAt(r, p, name, val)
  BY <1>3
<1>5. ASSUME NEW m PROVE m \in DOMAIN f <=> Named(r, p, m)
  <2>1. CASE m = name
    BY <1>2, <1>4, <2>1 DEF Named
  <2>2. CASE m # name
    <3>1. \A v : PropAt(r, p, m, v) <=> PropAt(ws, p, m, v)
      BY <1>3, <2>2
    <3>2. Named(r, p, m) <=> Named(ws, p, m)
      BY <3>1 DEF Named
    <3> QED
      BY <1>1, <1>2, <2>2, <3>2
  <2> QED
    BY <2>1, <2>2
<1>6. ASSUME NEW m, NEW v, PropAt(r, p, m, v) PROVE f[m] = v
  <2>1. CASE m = name
    BY <1>2, <1>3, <1>6, <2>1
  <2>2. CASE m # name
    <3>1. PropAt(ws, p, m, v)
      BY <1>3, <1>6, <2>2
    <3>2. m \in DOMAIN g
      BY <1>1, <3>1 DEF Named
    <3> QED
      BY <1>1, <1>2, <2>2, <3>1, <3>2
  <2> QED
    BY <2>1, <2>2
<1>7. \A q, m, v : q # p => (PropAt(r, q, m, v) <=> PropAt(ws, q, m, v))
  BY <1>3
<1>8. \A q : q \in NodePaths(r) <=> q \in NodePaths(ws)
  BY DEF SetFacts
<1>9. \A m : m \in DOMAIN f <=> Named(r, p, m)
  BY <1>5
<1>10. \A m, v : PropAt(r, p, m, v) => f[m] = v
  BY <1>6
<1>11. f = [m \in DOMAIN f |-> f[m]]
  BY <1>2
<1>12. Says(r, PutProps(t, p, f))
  BY <1>7, <1>8, <1>9, <1>10, <1>11, PutPropsIs
<1> QED
  BY <1>12 DEF f, g

LEMMA OutSays ==
    ASSUME NEW ws, NEW t, Says(ws, t), NEW p \in NodePaths(ws), NEW r, NEW name,
           OutFacts(ws, r, p, name)
    PROVE  Says(r, PutProps(t, p, WithoutProp(t[p], name)))
<1> DEFINE g == t[p]
           f == WithoutProp(g, name)
<1>1. /\ g = [m \in DOMAIN g |-> g[m]]
      /\ \A m : m \in DOMAIN g <=> Named(ws, p, m)
      /\ \A m, v : PropAt(ws, p, m, v) => g[m] = v
  BY DEF Says
<1> HIDE DEF g
<1>2. /\ f = [m \in DOMAIN f |-> f[m]] /\ DOMAIN f = DOMAIN g \ {name}
      /\ \A m \in DOMAIN g : m # name => f[m] = g[m]
  BY DEF WithoutProp
<1> HIDE DEF f
<1>3. \A q, m, v : PropAt(r, q, m, v) <=> PropAt(ws, q, m, v) /\ ~(q = p /\ m = name)
  BY DEF OutFacts
<1>4. ASSUME NEW m PROVE m \in DOMAIN f <=> Named(r, p, m)
  <2>1. Named(r, p, m) <=> Named(ws, p, m) /\ m # name
    BY <1>3 DEF Named
  <2> QED
    BY <1>1, <1>2, <2>1
<1>5. ASSUME NEW m, NEW v, PropAt(r, p, m, v) PROVE f[m] = v
  <2>1. PropAt(ws, p, m, v) /\ m # name
    BY <1>3, <1>5
  <2>2. m \in DOMAIN g
    BY <1>1, <2>1 DEF Named
  <2> QED
    BY <1>1, <1>2, <2>1, <2>2
<1>6. \A q, m, v : q # p => (PropAt(r, q, m, v) <=> PropAt(ws, q, m, v))
  BY <1>3
<1>7. \A q : q \in NodePaths(r) <=> q \in NodePaths(ws)
  BY DEF OutFacts
<1>8. \A m : m \in DOMAIN f <=> Named(r, p, m)
  BY <1>4
<1>9. \A m, v : PropAt(r, p, m, v) => f[m] = v
  BY <1>5
<1>10. f = [m \in DOMAIN f |-> f[m]]
  BY <1>2
<1>11. Says(r, PutProps(t, p, f))
  BY <1>6, <1>7, <1>8, <1>9, <1>10, PutPropsIs
<1> QED
  BY <1>11 DEF f, g

LEMMA GoneSays ==
    ASSUME NEW ws, NEW t, Says(ws, t), NEW p, NEW r, GoneFacts(ws, r, p)
    PROVE  Says(r, [q \in {d \in NodePaths(ws) : ~Under(d, p)} |-> t[q]])
<1> DEFINE S == {d \in NodePaths(ws) : ~Under(d, p)}
           u == [q \in S |-> t[q]]
<1>1. NodePaths(r) = S
  BY DEF GoneFacts
<1> HIDE DEF S
<1>2. u = [q \in S |-> u[q]] /\ \A q \in S : u[q] = t[q]
  OBVIOUS
<1> HIDE DEF u
<1>3. ASSUME NEW q \in S
      PROVE  /\ u[q] = [m \in DOMAIN u[q] |-> u[q][m]]
             /\ \A m : m \in DOMAIN u[q] <=> Named(r, q, m)
             /\ \A m, v : PropAt(r, q, m, v) => u[q][m] = v
  <2>1. q \in NodePaths(ws) /\ ~Under(q, p)
    BY DEF S
  <2>2. /\ t[q] = [m \in DOMAIN t[q] |-> t[q][m]]
        /\ \A m : m \in DOMAIN t[q] <=> Named(ws, q, m)
        /\ \A m, v : PropAt(ws, q, m, v) => t[q][m] = v
    BY <2>1 DEF Says
  <2>3. \A m, v : PropAt(r, q, m, v) <=> PropAt(ws, q, m, v)
    BY <2>1 DEF GoneFacts
  <2>4. \A m : Named(r, q, m) <=> Named(ws, q, m)
    BY <2>3 DEF Named
  <2> QED
    BY <1>2, <2>2, <2>3, <2>4
<1>4. Says(r, u)
  BY <1>1, <1>2, <1>3 DEF Says
<1> QED
  BY <1>4 DEF u, S

\* A property belongs to a node.
LEMMA PropsOfNodes ==
    ASSUME NEW ws, Block(ws), PropsFirst(ws), NEW q, NEW m, NEW v, PropAt(ws, q, m, v)
    PROVE  q \in NodePaths(ws)
<1>1. PICK k \in PropWords(ws) : OpenPath(ws)[k] = q
  BY DEF PropAt
<1>2. PICK j \in NodeWords(ws) : Owns(ws, j, k)
  BY <1>1 DEF PropsFirst
<1>3. OpenPath(ws)[j] = q
  BY <1>1, <1>2, OwnsPath
<1> QED
  BY <1>3 DEF NodePaths

\* A node without properties.
Nothing == [m \in {} |-> <<>>]

WithNode(S, t, x) == [q \in S \cup {x} |-> IF q = x THEN Nothing ELSE t[q]]

LEMMA NewSays ==
    ASSUME NEW ws, Block(ws), PropsFirst(ws), NEW t, Says(ws, t), NEW p, NEW r, NEW name,
           NewFacts(ws, r, p, name)
    PROVE  Says(r, WithNode(NodePaths(ws), t, Append(p, name)))
<1> DEFINE x == Append(p, name)
           S == NodePaths(ws) \cup {x}
           u == [q \in S |-> IF q = x THEN Nothing ELSE t[q]]
<1>1. NodePaths(r) = S /\ x \notin NodePaths(ws)
  BY DEF NewFacts
<1>2. \A q, m, v : PropAt(r, q, m, v) <=> PropAt(ws, q, m, v)
  BY DEF NewFacts
<1> HIDE DEF x
<1>3. u = [q \in S |-> u[q]] /\ u[x] = Nothing /\ \A q \in NodePaths(ws) : u[q] = t[q]
  BY <1>1
<1>4. DOMAIN Nothing = {} /\ Nothing = [m \in DOMAIN Nothing |-> Nothing[m]]
  BY DEF Nothing
<1> HIDE DEF u
<1>5. ASSUME NEW q \in S
      PROVE  /\ u[q] = [m \in DOMAIN u[q] |-> u[q][m]]
             /\ \A m : m \in DOMAIN u[q] <=> Named(r, q, m)
             /\ \A m, v : PropAt(r, q, m, v) => u[q][m] = v
  <2>0. \A m : Named(r, q, m) <=> Named(ws, q, m)
    BY <1>2 DEF Named
  <2>1. CASE q = x
    <3>1. \A m, v : ~PropAt(ws, q, m, v)
      BY <1>1, <2>1, PropsOfNodes
    <3>2. \A m : ~Named(ws, q, m)
      BY <3>1 DEF Named
    <3> QED
      BY <1>2, <1>3, <1>4, <2>0, <2>1, <3>1, <3>2
  <2>2. CASE q \in NodePaths(ws)
    <3>1. /\ t[q] = [m \in DOMAIN t[q] |-> t[q][m]]
          /\ \A m : m \in DOMAIN t[q] <=> Named(ws, q, m)
          /\ \A m, v : PropAt(ws, q, m, v) => t[q][m] = v
      BY <2>2 DEF Says
    <3> QED
      BY <1>2, <1>3, <2>0, <2>2, <3>1
  <2> QED
    BY <2>1, <2>2 DEF S
<1>6. Says(r, u)
  BY <1>1, <1>3, <1>5 DEF Says
<1> QED
  BY <1>6 DEF u, S, x, WithNode
-----------------------------------------------------------------------------
(* A new name                                                              *)

\* Where a path is when the node at p, and all below it, has a new name.
Carried(q, p, name) == IF Under(q, p) THEN Ren(q, Len(p), name) ELSE q

NamedFacts(ws, r, p, name) ==
    /\ IsPath(p) /\ Len(p) > 1 /\ Ren(p, Len(p), name) \notin NodePaths(ws)
    /\ \A d, c \in NodePaths(ws) : Carried(d, p, name) = Carried(c, p, name) => d = c
    /\ \A q : q \in NodePaths(r) <=> \E d \in NodePaths(ws) : q = Carried(d, p, name)
    /\ \A q, m, v : PropAt(r, q, m, v) <=> \E d \in NodePaths(ws) :
                                              q = Carried(d, p, name) /\ PropAt(ws, d, m, v)

LEMMA TagBetween ==
    ASSUME NEW ws, Block(ws), Nested(ws), NEW off \in Starts(ws), NEW k \in Starts(ws), off < k
    PROVE  off + tag_words(ws[off + 1]) <= k
<1> DEFINE b == [words |-> ws]
<1>1. b.words = ws
  OBVIOUS
<1> HIDE DEF b
<1>2. Block(b.words) /\ Nested(b.words) /\ off \in Starts(b.words) /\ k \in Starts(b.words)
  BY <1>1
<1>3. off + tag_words(At(b, off)) <= k
  BY <1>2, NoTagBetween
<1>4. At(b, off) = ws[off + 1]
  BY <1>1 DEF At
<1> QED
  BY <1>3, <1>4

\* Every tag but the renamed one is still there.
LEMMA NewPlace ==
    ASSUME NEW ws, Block(ws), Nested(ws), NEW r, NEW node, NEW e, NEW name,
           Renames(ws, r, node, e, name),
           NEW s \in 1 .. Len(ws), ws[s].tag \in {"BEGIN", "PROP"}
    PROVE  \E k \in 1 .. Len(r) : OldPlace(ws, node, name, k) = s /\ r[k].tag = ws[s].tag
<1> DEFINE n == tag_words(ws[node + 1])
           m == tag_words(Begin(name))
<1>1. /\ n \in Nat \ {0} /\ m \in Nat \ {0} /\ node \in Nat /\ e \in Nat
      /\ Len(ws) \in Nat /\ Len(r) \in Nat /\ Len(r) = Len(ws) - n + m
      /\ node + n < e /\ e <= Len(ws) /\ Block(r)
      /\ r[node + 1] = Begin(name)
      /\ \A k \in node + 2 .. node + m : r[k] = Cont
      /\ \A k \in 1 .. node : r[k] = ws[k]
      /\ \A k \in node + m + 1 .. Len(r) : r[k] = ws[k - m + n]
  BY RenamedWords
<1>2. ws[node + 1].tag = "BEGIN" /\ Begin(name).tag = "BEGIN"
  BY DEF Renames, EndsAt, NodeWords, Begin, Word
<1>3. \A k : OldPlace(ws, node, name, k) = IF k <= node + 1 THEN k ELSE k - m + n
  BY DEF OldPlace
<1>4. s <= node \/ s = node + 1 \/ s > node + n
  <2> SUFFICES ASSUME s > node + 1 PROVE s > node + n
    BY <1>1
  <2>1. /\ node \in 0 .. Len(ws) - 1 /\ s - 1 \in 0 .. Len(ws) - 1 /\ node < s - 1
        /\ (s - 1) + 1 = s
    BY <1>1
  <2>2. node \in Starts(ws) /\ s - 1 \in Starts(ws)
    BY <1>2, <2>1 DEF Starts
  <2> DEFINE o == s - 1
  <2>3. o \in Starts(ws) /\ node < o
    BY <2>1, <2>2
  <2> HIDE DEF o
  <2>5. node + n <= o
    BY <2>2, <2>3, TagBetween
  <2> HIDE DEF n
  <2> QED
    BY <1>1, <2>5 DEF o
<1> HIDE DEF n, m
<1>5. CASE s <= node
  <2>1. s \in 1 .. node /\ s \in 1 .. Len(r) /\ s <= node + 1
    BY <1>1, <1>5
  <2>2. OldPlace(ws, node, name, s) = s /\ r[s] = ws[s]
    BY <1>1, <1>3, <2>1
  <2> QED
    BY <2>1, <2>2
<1>6. CASE s = node + 1
  <2>1. s \in 1 .. Len(r) /\ s <= node + 1
    BY <1>1, <1>6
  <2>2. OldPlace(ws, node, name, s) = s
    BY <1>3, <2>1
  <2>3. r[s].tag = ws[s].tag
    BY <1>1, <1>2, <1>6
  <2> QED
    BY <2>1, <2>2, <2>3
<1>7. CASE s > node + n
  <2> DEFINE k == s - n + m
  <2>1. k \in node + m + 1 .. Len(r) /\ k \in 1 .. Len(r) /\ ~(k <= node + 1) /\ k - m + n = s
    <3>1. /\ n \in Nat \ {0} /\ m \in Nat \ {0} /\ node \in Nat /\ s \in Nat
          /\ Len(ws) \in Nat /\ Len(r) = Len(ws) - n + m /\ s <= Len(ws)
      BY <1>1
    <3>2. s > node + n
      BY <1>7
    <3> QED
      BY ONLY <3>1, <3>2
  <2> HIDE DEF k
  <2>2. OldPlace(ws, node, name, k) = s
    BY <1>3, <2>1
  <2>3. r[k] = ws[s]
    BY <1>1, <2>1
  <2> QED
    BY <2>1, <2>2, <2>3
<1> QED
  BY <1>4, <1>5, <1>6, <1>7

LEMMA NodeNamedFacts ==
    ASSUME NEW ws, Block(ws), Nested(ws), Ordered(ws), NEW r, NEW node,
           NEW name, NodeNamed(ws, r, node, name)
    PROVE  NamedFacts(ws, r, OpenPath(ws)[node + 1], name)
<1> DEFINE p == OpenPath(ws)[node + 1]
<1>1. PICK e : Renames(ws, r, node, e, name)
  BY DEF NodeNamed
<1>2. NameFree(ws, node, name) /\ node > 0
  BY DEF NodeNamed
<1>3. /\ node \in Nat /\ e \in Nat /\ node < e /\ e <= Len(ws) /\ Len(ws) \in Nat
      /\ EndsAt(ws, node, e) /\ Block(r) /\ ws[e].tag = "END_NODE" /\ node + 1 < e
      /\ ws[node + 1].tag = "BEGIN" /\ node + 1 \in 1 .. Len(ws)
      /\ DOMAIN ws = 1 .. Len(ws) /\ DOMAIN r = 1 .. Len(r)
  <2>1. EndsAt(ws, node, e)
    BY <1>1 DEF Renames
  <2>2. Block(r)
    BY <1>1, RenamedWords
  <2>3. Len(ws) \in Nat /\ node + 1 < e /\ ws[e].tag = "END_NODE"
    BY <2>1, InsideDepths
  <2>4. /\ node \in Nat /\ e \in Nat /\ node < e /\ e <= Len(ws)
        /\ node + 1 \in NodeWords(ws)
    BY <2>1 DEF EndsAt
  <2> QED
    BY <2>1, <2>2, <2>3, <2>4, BlockMeans DEF NodeWords
<1>4. /\ IsPath(p) /\ Len(p) > 1 /\ Ren(p, Len(p), name) \notin NodePaths(ws)
  <2> DEFINE s == OpenPath(ws)[node]
  <2>1. IsPath(s) /\ PathsAre(ws, OpenPath(ws))
    <3>1. node \in 0 .. Len(ws)
      BY <1>3
    <3> QED
      BY <1>3, <3>1, PathSeq, OpenPathIs
  <2>2. p = Append(s, ws[node + 1].name)
    <3>1. p = Append(OpenPath(ws)[(node + 1) - 1], ws[node + 1].name)
      BY <1>3, <2>1 DEF PathsAre
    <3>2. (node + 1) - 1 = node
      BY <1>3
    <3> QED
      BY <3>1, <3>2
  <2>3. Len(s) = Depths(ws)[node]
    <3>1. node \in 0 .. Len(ws)
      BY <1>3
    <3> QED
      BY <2>1, <3>1, PathLengths
  <2>4. Depths(ws)[node] > 0 /\ Depths(ws)[node] \in Nat
    <3>1. node \in 0 .. Len(ws) /\ node \in 1 .. Len(ws) - 2
      BY <1>2, <1>3
    <3> QED
      BY <3>1, NestedDepths
  <2> HIDE DEF s, p
  <2>5. IsPath(p) /\ Len(p) = Len(s) + 1
    BY <2>1, <2>2, PathLonger
  <2>6. Ren(p, Len(s) + 1, name) = Append(s, name)
    BY <2>1, <2>2, RenLast
  <2>7. Append(s, name) \notin NodePaths(ws)
    BY <1>2 DEF NameFree, NodePaths, s
  <2>8. Len(p) > 1
    <3>1. Len(s) \in Nat /\ Len(s) > 0
      BY <2>3, <2>4
    <3> QED
      BY <2>5, <3>1
  <2>9. Ren(p, Len(p), name) = Append(s, name)
    BY <2>5, <2>6
  <2> QED
    BY <2>5, <2>7, <2>8, <2>9
<1>5. ASSUME NEW s \in 1 .. Len(ws), s # e
      PROVE  Carried(OpenPath(ws)[s], p, name) = NewPathOf(ws, node, e, name, s)
  <2>1. s \in 0 .. Len(ws)
    BY <1>3
  <2>2. Under(OpenPath(ws)[s], p) <=> node < s /\ s < e
    BY <1>3, <2>1, UnderNode DEF Ordered
  <2> HIDE DEF p
  <2>3. NewPathOf(ws, node, e, name, s) = IF node < s /\ s < e
                                          THEN Ren(OpenPath(ws)[s], Len(p), name)
                                          ELSE OpenPath(ws)[s]
    BY DEF NewPathOf, p
  <2> QED
    BY <2>2, <2>3 DEF Carried
<1> HIDE DEF p
<1>6. ASSUME NEW s \in NodeWords(ws) \cup PropWords(ws)
      PROVE  s \in 1 .. Len(ws) /\ s # e /\ ws[s].tag \in {"BEGIN", "PROP"}
  BY <1>3 DEF NodeWords, PropWords
<1>7. ASSUME NEW d \in NodePaths(ws), NEW c \in NodePaths(ws),
             Carried(d, p, name) = Carried(c, p, name)
      PROVE  d = c
  <2>1. PICK s \in NodeWords(ws) : d = OpenPath(ws)[s]
    BY DEF NodePaths
  <2>2. PICK t \in NodeWords(ws) : c = OpenPath(ws)[t]
    BY DEF NodePaths
  <2>3. s \in 1 .. Len(ws) /\ s # e /\ t \in 1 .. Len(ws) /\ t # e
    BY <1>6, <2>1, <2>2
  <2>4. NewPathOf(ws, node, e, name, s) = NewPathOf(ws, node, e, name, t)
    BY <1>5, <1>7, <2>1, <2>2, <2>3
  <2> QED
    BY <1>2, <1>3, <2>1, <2>2, <2>3, <2>4, NewPathsTell DEF Ordered
<1>8. ASSUME NEW k \in NodeWords(r) \cup PropWords(r)
      PROVE  LET s == OldPlace(ws, node, name, k)
             IN  /\ s \in 1 .. Len(ws) /\ ws[s].tag = r[k].tag
                 /\ s # node + 1 => r[k] = ws[s]
                 /\ OpenPath(r)[k] = Carried(OpenPath(ws)[s], p, name)
  <2> DEFINE s == OldPlace(ws, node, name, k)
  <2>1. k \in 1 .. Len(r) /\ r[k].tag \in {"BEGIN", "PROP"}
    BY <1>3 DEF NodeWords, PropWords
  <2>2. /\ s \in 1 .. Len(ws) /\ ws[s].tag = r[k].tag
        /\ s # node + 1 => r[k] = ws[s]
        /\ OpenPath(r)[k] = NewPathOf(ws, node, e, name, s)
    BY <1>1, <2>1, RenamedPlaces
  <2> HIDE DEF s
  <2>3. s # e
    BY <1>3, <2>1, <2>2
  <2>4. OpenPath(r)[k] = Carried(OpenPath(ws)[s], p, name)
    BY <1>5, <2>2, <2>3
  <2> QED
    BY <2>2, <2>4 DEF s
<1>9. ASSUME NEW s \in NodeWords(ws) \cup PropWords(ws)
      PROVE  \E k \in NodeWords(r) \cup PropWords(r) :
                OldPlace(ws, node, name, k) = s /\ r[k].tag = ws[s].tag
  <2>1. s \in 1 .. Len(ws) /\ ws[s].tag \in {"BEGIN", "PROP"}
    BY <1>6
  <2>2. PICK k \in 1 .. Len(r) :
           OldPlace(ws, node, name, k) = s /\ r[k].tag = ws[s].tag
    BY <1>1, <2>1, NewPlace
  <2>3. k \in NodeWords(r) \cup PropWords(r)
    BY <1>3, <2>1, <2>2 DEF NodeWords, PropWords
  <2> QED
    BY <2>2, <2>3
<1>10. ASSUME NEW q
       PROVE  q \in NodePaths(r) <=> \E d \in NodePaths(ws) : q = Carried(d, p, name)
  <2>1. ASSUME q \in NodePaths(r) PROVE \E d \in NodePaths(ws) : q = Carried(d, p, name)
    <3>1. PICK k \in NodeWords(r) : q = OpenPath(r)[k]
      BY <2>1 DEF NodePaths
    <3> DEFINE s == OldPlace(ws, node, name, k)
    <3>2. /\ s \in 1 .. Len(ws) /\ ws[s].tag = r[k].tag
          /\ OpenPath(r)[k] = Carried(OpenPath(ws)[s], p, name)
      BY <1>8
    <3> HIDE DEF s
    <3>3. s \in NodeWords(ws)
      BY <1>3, <3>2 DEF NodeWords
    <3> QED
      BY <3>1, <3>2, <3>3 DEF NodePaths
  <2>2. ASSUME NEW d \in NodePaths(ws), q = Carried(d, p, name) PROVE q \in NodePaths(r)
    <3>1. PICK s \in NodeWords(ws) : d = OpenPath(ws)[s]
      BY DEF NodePaths
    <3>2. PICK k \in NodeWords(r) \cup PropWords(r) :
             OldPlace(ws, node, name, k) = s /\ r[k].tag = ws[s].tag
      BY <1>9, <3>1
    <3>3. OpenPath(r)[k] = Carried(OpenPath(ws)[s], p, name)
      BY <1>8, <3>2
    <3>4. k \in NodeWords(r)
      BY <3>1, <3>2 DEF NodeWords, PropWords
    <3> QED
      BY <2>2, <3>1, <3>3, <3>4 DEF NodePaths
  <2> QED
    BY <2>1, <2>2
<1>11. ASSUME NEW q, NEW m, NEW v
       PROVE  PropAt(r, q, m, v) <=> \E d \in NodePaths(ws) :
                                        q = Carried(d, p, name) /\ PropAt(ws, d, m, v)
  <2>1. ASSUME PropAt(r, q, m, v)
        PROVE  \E d \in NodePaths(ws) : q = Carried(d, p, name) /\ PropAt(ws, d, m, v)
    <3>1. PICK k \in PropWords(r) : q = OpenPath(r)[k] /\ r[k].name = m /\ r[k].val = v
      BY <2>1 DEF PropAt
    <3> DEFINE s == OldPlace(ws, node, name, k)
    <3>2. /\ s \in 1 .. Len(ws) /\ ws[s].tag = r[k].tag
          /\ s # node + 1 => r[k] = ws[s]
          /\ OpenPath(r)[k] = Carried(OpenPath(ws)[s], p, name)
      BY <1>8
    <3> HIDE DEF s
    <3>3. s \in PropWords(ws) /\ r[k] = ws[s]
      BY <1>3, <3>2 DEF PropWords
    <3> DEFINE d == OpenPath(ws)[s]
    <3>4. PropAt(ws, d, m, v)
      BY <3>1, <3>3 DEF PropAt
    <3>5. q = Carried(d, p, name)
      BY <3>1, <3>2
    <3> HIDE DEF d
    <3>6. d \in NodePaths(ws)
      BY <3>4, PropsOfNodes DEF Ordered
    <3> QED
      BY <3>4, <3>5, <3>6
  <2>2. ASSUME NEW d \in NodePaths(ws), q = Carried(d, p, name), PropAt(ws, d, m, v)
        PROVE  PropAt(r, q, m, v)
    <3>1. PICK s \in PropWords(ws) : d = OpenPath(ws)[s] /\ ws[s].name = m /\ ws[s].val = v
      BY <2>2 DEF PropAt
    <3>2. PICK k \in NodeWords(r) \cup PropWords(r) :
             OldPlace(ws, node, name, k) = s /\ r[k].tag = ws[s].tag
      BY <1>9, <3>1
    <3>3. /\ OpenPath(r)[k] = Carried(OpenPath(ws)[s], p, name)
          /\ s # node + 1 => r[k] = ws[s]
      BY <1>8, <3>2
    <3>4. k \in PropWords(r) /\ s # node + 1
      BY <1>3, <3>1, <3>2 DEF NodeWords, PropWords
    <3> QED
      BY <2>2, <3>1, <3>3, <3>4 DEF PropAt
  <2> QED
    BY <2>1, <2>2
<1>12. NamedFacts(ws, r, p, name)
  BY <1>4, <1>7, <1>10, <1>11 DEF NamedFacts
<1> QED
  BY <1>12 DEF p
\* What a new name keeps, and what it moves along.
Kept(S, p) == {d \in S : ~Under(d, p)}

Moved(S, p, name) == {Ren(d, Len(p), name) : d \in {c \in S : Under(c, p)}}

WithName(S, t, p, name) ==
    [q \in Kept(S, p) \cup Moved(S, p, name) |->
        IF q \in Kept(S, p) THEN t[q] ELSE t[Ren(q, Len(p), p[Len(p)])]]

LEMMA RenTwice ==
    ASSUME NEW d, IsPath(d), NEW l \in 1 .. Len(d), NEW name, NEW y, y = d[l]
    PROVE  Ren(Ren(d, l, name), l, y) = d
<1> DEFINE c == Ren(d, l, name)
           e == Ren(c, l, y)
<1>1. /\ IsPath(c) /\ Len(c) = Len(d)
      /\ \A i \in 1 .. Len(d) : c[i] = IF i = l THEN name ELSE d[i]
  BY RenPath
<1> HIDE DEF c
<1>2. l \in 1 .. Len(c)
  BY <1>1
<1>3. /\ IsPath(e) /\ Len(e) = Len(c)
      /\ \A i \in 1 .. Len(c) : e[i] = IF i = l THEN y ELSE c[i]
  BY <1>1, <1>2, RenPath
<1> HIDE DEF e
<1>4. Len(e) = Len(d) /\ \A i \in 1 .. Len(d) : e[i] = d[i]
  BY <1>1, <1>3
<1>5. Len(d) \in Nat
  BY DEF IsPath
<1>6. Extends(e, d, 0)
  BY <1>4, <1>5 DEF Extends
<1>7. e = d
  BY <1>3, <1>6, PathsSame
<1> QED
  BY <1>7 DEF e, c

LEMMA RenUndone ==
    ASSUME NEW d, IsPath(d), NEW p, IsPath(p), Len(p) > 1, Under(d, p), NEW name
    PROVE  Ren(Ren(d, Len(p), name), Len(p), p[Len(p)]) = d
<1>1. Len(p) \in Nat /\ Len(d) \in Nat
  BY DEF IsPath
<1>2. Len(p) \in 1 .. Len(d) /\ p[Len(p)] = d[Len(p)]
  BY <1>1 DEF Under
<1> QED
  BY <1>2, RenTwice

LEMMA NamedSays ==
    ASSUME NEW ws, Len(ws) \in Nat, NEW t, Says(ws, t), NEW p, NEW r, NEW name,
           NamedFacts(ws, r, p, name), \A d \in NodePaths(ws) : IsPath(d)
    PROVE  Says(r, WithName(NodePaths(ws), t, p, name))
<1> DEFINE N == NodePaths(ws)
           K == Kept(N, p)
           M == Moved(N, p, name)
           X == K \cup M
           u == [q \in X |-> IF q \in K THEN t[q] ELSE t[Ren(q, Len(p), p[Len(p)])]]
<1>1. /\ IsPath(p) /\ Len(p) > 1
      /\ \A d, c \in N : Carried(d, p, name) = Carried(c, p, name) => d = c
      /\ \A q : q \in NodePaths(r) <=> \E d \in N : q = Carried(d, p, name)
      /\ \A q, m, v : PropAt(r, q, m, v) <=> \E d \in N :
                                              q = Carried(d, p, name) /\ PropAt(ws, d, m, v)
  BY DEF NamedFacts
<1>2. /\ \A q : q \in K <=> q \in N /\ ~Under(q, p)
      /\ \A q : q \in M <=> \E d \in N : Under(d, p) /\ q = Ren(d, Len(p), name)
  BY DEF Kept, Moved
<1> HIDE DEF N, K, M
<1>3. /\ u = [q \in X |-> u[q]]
      /\ \A q \in K : u[q] = t[q]
      /\ \A q \in M : q \notin K => u[q] = t[Ren(q, Len(p), p[Len(p)])]
  OBVIOUS
<1> HIDE DEF u
<1>4. ASSUME NEW d \in N
      PROVE  Carried(d, p, name) \in X /\ u[Carried(d, p, name)] = t[d]
  <2>1. CASE Under(d, p)
    <3> DEFINE q == Ren(d, Len(p), name)
    <3>1. Carried(d, p, name) = q
      BY <2>1 DEF Carried
    <3>2. q \in M
      BY <1>2, <2>1
    <3>3. q \notin K
      <4> SUFFICES ASSUME q \in K PROVE FALSE
        OBVIOUS
      <4>1. q \in N /\ ~Under(q, p)
        BY <1>2
      <4>2. Carried(q, p, name) = q
        BY <4>1 DEF Carried
      <4> HIDE DEF q
      <4>3. q = d
        BY <1>1, <3>1, <4>1, <4>2
      <4> QED
        BY <2>1, <4>1, <4>3
    <3>4. IsPath(d)
      BY DEF N
    <3>5. Ren(q, Len(p), p[Len(p)]) = d
      <4>1. IsPath(p) /\ Len(p) > 1
        BY <1>1
      <4> QED
        BY <2>1, <3>4, <4>1, RenUndone
    <3> HIDE DEF q
    <3> QED
      BY <1>3, <3>1, <3>2, <3>3, <3>5
  <2>2. CASE ~Under(d, p)
    <3>1. Carried(d, p, name) = d /\ d \in K
      BY <1>2, <2>2 DEF Carried
    <3> QED
      BY <1>3, <3>1
  <2> QED
    BY <2>1, <2>2
<1>5. ASSUME NEW q \in X PROVE \E d \in N : q = Carried(d, p, name)
  BY <1>2 DEF Carried
<1>6. NodePaths(r) = X
  BY <1>1, <1>4, <1>5
<1> HIDE DEF X
<1>7. ASSUME NEW q \in X
      PROVE  /\ u[q] = [m \in DOMAIN u[q] |-> u[q][m]]
             /\ \A m : m \in DOMAIN u[q] <=> Named(r, q, m)
             /\ \A m, v : PropAt(r, q, m, v) => u[q][m] = v
  <2>1. PICK d \in N : q = Carried(d, p, name)
    BY <1>5
  <2>2. u[q] = t[d]
    BY <1>4, <2>1
  <2>3. \A m, v : PropAt(r, q, m, v) <=> PropAt(ws, d, m, v)
    BY <1>1, <2>1
  <2>4. \A m : Named(r, q, m) <=> Named(ws, d, m)
    BY <2>3 DEF Named
  <2>5. /\ t[d] = [m \in DOMAIN t[d] |-> t[d][m]]
        /\ \A m : m \in DOMAIN t[d] <=> Named(ws, d, m)
        /\ \A m, v : PropAt(ws, d, m, v) => t[d][m] = v
    BY DEF Says, N
  <2> QED
    BY <2>2, <2>3, <2>4, <2>5
<1>8. Says(r, u)
  BY <1>3, <1>6, <1>7 DEF Says
<1> QED
  BY <1>8 DEF u, X, K, M, N, WithName

LEMMA NodePathsArePaths ==
    ASSUME NEW ws, Block(ws), NEW d \in NodePaths(ws) PROVE IsPath(d)
<1>1. PICK k \in NodeWords(ws) : d = OpenPath(ws)[k]
  BY DEF NodePaths
<1>2. Len(ws) \in Nat /\ k \in 0 .. Len(ws)
  BY BlockMeans DEF NodeWords
<1> QED
  BY <1>1, <1>2, PathSeq
-----------------------------------------------------------------------------
(* The tree of DeviceTree                                                  *)

LEMMA BelowIs ==
    ASSUME NEW d, IsPath(d), NEW p, IsPath(p)
    PROVE  Tree!Below(d, p) <=> Under(d, p)
<1>1. Len(p) \in Nat /\ Len(d) \in Nat
  BY DEF IsPath
<1>2. ASSUME Len(p) <= Len(d)
      PROVE  /\ IsPath(SubSeq(d, 1, Len(p))) /\ Len(SubSeq(d, 1, Len(p))) = Len(p)
             /\ \A i \in 1 .. Len(p) : SubSeq(d, 1, Len(p))[i] = d[i]
  <2>1. PICK S : d \in Seq(S)
    BY DEF IsPath
  <2> QED
    BY <1>1, <1>2, <2>1 DEF IsPath
<1>3. ASSUME Under(d, p) PROVE SubSeq(d, 1, Len(p)) = p
  <2> DEFINE c == SubSeq(d, 1, Len(p))
  <2>1. IsPath(c) /\ Len(c) = Len(p) /\ \A i \in 1 .. Len(p) : c[i] = d[i]
    BY <1>2, <1>3 DEF Under
  <2>2. \A i \in 1 .. Len(p) : d[i] = p[i]
    BY <1>3 DEF Under
  <2> HIDE DEF c
  <2>3. Extends(c, p, 0)
    BY <1>1, <2>1, <2>2 DEF Extends
  <2>4. c = p
    BY <2>1, <2>3, PathsSame
  <2> QED
    BY <2>4 DEF c
<1> QED
  BY <1>2, <1>3 DEF Tree!Below, Under
LEMMA TreeSetProp ==
    ASSUME NEW p, NEW name, NEW val,
           tree' = PutProps(tree, p, WithProp(tree[p], name, val))
    PROVE  Tree!SetProp(p, name, val)
BY DEF Tree!SetProp, PutProps, WithProp

LEMMA TreeAppendProp ==
    ASSUME NEW p, NEW name, NEW val, NEW v,
           v = IF name \in DOMAIN tree[p] THEN tree[p][name] \o val ELSE val,
           tree' = PutProps(tree, p, WithProp(tree[p], name, v))
    PROVE  Tree!AppendProp(p, name, val)
<1> DEFINE f == tree[p]
           g == [m \in DOMAIN f \cup {name} |->
                    CASE m = name /\ name \in DOMAIN f -> f[name] \o val
                      [] m = name /\ name \notin DOMAIN f -> val
                      [] OTHER -> f[m]]
<1>1. WithProp(f, name, v) = g
  <2> HIDE DEF f
  <2>1. ASSUME NEW m \in DOMAIN f \cup {name}
        PROVE  (IF m = name THEN v ELSE f[m])
                  = CASE m = name /\ name \in DOMAIN f -> f[name] \o val
                      [] m = name /\ name \notin DOMAIN f -> val
                      [] OTHER -> f[m]
    BY DEF f
  <2> QED
    BY <2>1 DEF WithProp
<1>2. tree' = PutProps(tree, p, g)
  BY <1>1
<1> QED
  BY <1>2 DEF Tree!AppendProp, PutProps

LEMMA TreeDelProp ==
    ASSUME NEW p, NEW name, name \in DOMAIN tree[p],
           tree' = PutProps(tree, p, WithoutProp(tree[p], name))
    PROVE  Tree!DelProp(p, name)
BY DEF Tree!DelProp, PutProps, WithoutProp

LEMMA TreeAddSubnode ==
    ASSUME NEW p, NEW name, Append(p, name) \notin DOMAIN tree,
           tree' = WithNode(DOMAIN tree, tree, Append(p, name))
    PROVE  Tree!AddSubnode(p, name)
BY DEF Tree!AddSubnode, Tree!Paths, Tree!NoProps, Nothing, WithNode

LEMMA TreeDelNode ==
    ASSUME NEW p, IsPath(p), \A d \in DOMAIN tree : IsPath(d),
           tree' = [q \in Kept(DOMAIN tree, p) |-> tree[q]]
    PROVE  Tree!DelNode(p)
<1>1. Kept(DOMAIN tree, p) = {d \in DOMAIN tree : ~Tree!Below(d, p)}
  BY BelowIs DEF Kept
<1> QED
  BY <1>1 DEF Tree!DelNode, Tree!Paths

LEMMA TreeSetName ==
    ASSUME NEW p, IsPath(p), Len(p) > 1, NEW name, \A d \in DOMAIN tree : IsPath(d),
           Ren(p, Len(p), name) \notin DOMAIN tree,
           tree' = WithName(DOMAIN tree, tree, p, name)
    PROVE  Tree!SetName(p, name)
<1> DEFINE N == DOMAIN tree
           K == {d \in N : ~Tree!Below(d, p)}
           M == {Tree!Renamed(d, p, name) : d \in {e \in N : Tree!Below(e, p)}}
<1>1. Kept(N, p) = K
  BY BelowIs DEF Kept
<1>2. Moved(N, p, name) = M
  <2>1. {c \in N : Under(c, p)} = {e \in N : Tree!Below(e, p)}
    BY BelowIs
  <2>2. \A d : Tree!Renamed(d, p, name) = Ren(d, Len(p), name)
    BY DEF Tree!Renamed, Ren
  <2> QED
    BY <2>1, <2>2 DEF Moved
<1>3. \A q : Tree!Renamed(q, p, p[Len(p)]) = Ren(q, Len(p), p[Len(p)])
  BY DEF Tree!Renamed, Ren
<1>4. Tree!Renamed(p, p, name) = Ren(p, Len(p), name)
  BY DEF Tree!Renamed, Ren
<1> HIDE DEF K, M
<1>5. tree' = [q \in K \cup M |->
                  IF q \in K THEN tree[q] ELSE tree[Tree!Renamed(q, p, p[Len(p)])]]
  BY <1>1, <1>2, <1>3 DEF WithName
<1> USE DEF K, M
<1> QED
  BY <1>4, <1>5 DEF Tree!SetName, Tree!Paths
-----------------------------------------------------------------------------
(* What an edit does to the tree                                           *)

LEMMA KnownTree ==
    ASSUME NEW b, Block(b.words), Neat(b)
    PROVE  /\ Says(b.words, TreeOf(b)) /\ DOMAIN TreeOf(b) = NodePaths(b.words)
           /\ \A d \in NodePaths(b.words) : IsPath(d)
<1>1. Says(b.words, TreeOf(b))
  BY TreeSays DEF Neat, Ordered
<1>2. DOMAIN TreeOf(b) = NodePaths(b.words)
  BY <1>1 DEF Says
<1> QED
  BY <1>1, <1>2, NodePathsArePaths

LEMMA GivenTree ==
    ASSUME NEW c, Block(c.words), Neat(c), NEW t, Says(c.words, t)
    PROVE  TreeOf(c) = t
BY TreeIs DEF Neat, Ordered

LEMMA PropSetTree ==
    ASSUME NEW b, Block(b.words), Neat(b), NEW c, Block(c.words), Neat(c),
           NEW j, NEW name, NEW val, PropSet(b.words, c.words, j, name, val)
    PROVE  LET t == TreeOf(b)
               p == OpenPath(b.words)[j]
           IN  /\ p \in DOMAIN t
               /\ TreeOf(c) = PutProps(t, p, WithProp(t[p], name, val))
<1> DEFINE ws == b.words
           t == TreeOf(b)
           p == OpenPath(ws)[j]
<1>1. Says(ws, t) /\ DOMAIN t = NodePaths(ws)
  BY KnownTree
<1>2. j \in NodeWords(ws)
  BY DEF PropSet
<1>3. p \in NodePaths(ws)
  BY <1>2 DEF NodePaths
<1>4. SetFacts(ws, c.words, p, name, val)
  BY PropSetFacts DEF Neat
<1> HIDE DEF p, t
<1>5. Says(c.words, PutProps(t, p, WithProp(t[p], name, val)))
  BY <1>1, <1>3, <1>4, SetSays
<1>6. TreeOf(c) = PutProps(t, p, WithProp(t[p], name, val))
  BY <1>5, GivenTree
<1> QED
  BY <1>1, <1>3, <1>6 DEF t, p

LEMMA PropOutTree ==
    ASSUME NEW b, Block(b.words), Neat(b), NEW c, Block(c.words), Neat(c),
           NEW j, NEW name, PropOut(b.words, c.words, j, name)
    PROVE  LET t == TreeOf(b)
               p == OpenPath(b.words)[j]
           IN  /\ p \in DOMAIN t /\ name \in DOMAIN t[p]
               /\ TreeOf(c) = PutProps(t, p, WithoutProp(t[p], name))
<1> DEFINE ws == b.words
           t == TreeOf(b)
           p == OpenPath(ws)[j]
<1>1. Says(ws, t) /\ DOMAIN t = NodePaths(ws)
  BY KnownTree
<1>2. j \in NodeWords(ws) /\ \E val : HasProp(ws, j, name, val)
  BY DEF PropOut
<1>3. p \in NodePaths(ws)
  BY <1>2 DEF NodePaths
<1>4. OutFacts(ws, c.words, p, name)
  BY PropOutFacts DEF Neat
<1>5. Named(ws, p, name)
  BY <1>2 DEF HasProp, Named, PropAt
<1> HIDE DEF p, t
<1>6. Says(c.words, PutProps(t, p, WithoutProp(t[p], name)))
  BY <1>1, <1>3, <1>4, OutSays
<1>7. TreeOf(c) = PutProps(t, p, WithoutProp(t[p], name))
  BY <1>6, GivenTree
<1>8. name \in DOMAIN t[p]
  BY <1>1, <1>3, <1>5 DEF Says
<1> QED
  BY <1>1, <1>3, <1>7, <1>8 DEF t, p

LEMMA NodeGoneTree ==
    ASSUME NEW b, Block(b.words), Nested(b.words), Neat(b),
           NEW c, Block(c.words), Neat(c), NEW node, NodeGone(b.words, c.words, node)
    PROVE  LET t == TreeOf(b)
               p == OpenPath(b.words)[node + 1]
           IN  /\ p \in DOMAIN t
               /\ TreeOf(c) = [q \in Kept(DOMAIN t, p) |-> t[q]]
<1> DEFINE ws == b.words
           t == TreeOf(b)
           p == OpenPath(ws)[node + 1]
<1>1. Says(ws, t) /\ DOMAIN t = NodePaths(ws)
  BY KnownTree
<1>2. node + 1 \in NodeWords(ws)
  BY DEF NodeGone, EndsAt
<1>3. p \in NodePaths(ws)
  BY <1>2 DEF NodePaths
<1>4. GoneFacts(ws, c.words, p)
  BY NodeGoneFacts DEF Neat
<1> HIDE DEF p, t
<1>5. Says(c.words, [q \in {d \in NodePaths(ws) : ~Under(d, p)} |-> t[q]])
  BY <1>1, <1>4, GoneSays
<1>6. TreeOf(c) = [q \in {d \in NodePaths(ws) : ~Under(d, p)} |-> t[q]]
  BY <1>5, GivenTree
<1>7. TreeOf(c) = [q \in Kept(DOMAIN t, p) |-> t[q]]
  BY <1>1, <1>6 DEF Kept
<1> QED
  BY <1>1, <1>3, <1>7 DEF t, p

LEMMA NodeNewTree ==
    ASSUME NEW b, Block(b.words), Neat(b), NEW c, Block(c.words), Neat(c),
           NEW j, NEW name, Len(name) \in Nat, NodeNew(b.words, c.words, j, name)
    PROVE  LET t == TreeOf(b)
               p == OpenPath(b.words)[j]
           IN  /\ p \in DOMAIN t /\ Append(p, name) \notin DOMAIN t
               /\ TreeOf(c) = WithNode(DOMAIN t, t, Append(p, name))
<1> DEFINE ws == b.words
           t == TreeOf(b)
           p == OpenPath(ws)[j]
           u == WithNode(NodePaths(ws), t, Append(p, name))
<1>1. Says(ws, t) /\ DOMAIN t = NodePaths(ws)
  BY KnownTree
<1>2. j \in NodeWords(ws)
  BY DEF NodeNew
<1>3. p \in NodePaths(ws)
  BY <1>2 DEF NodePaths
<1>4. NewFacts(ws, c.words, p, name)
  BY NodeNewFacts DEF Neat
<1>5. Append(p, name) \notin NodePaths(ws)
  BY <1>4 DEF NewFacts
<1>6. PropsFirst(ws)
  BY DEF Neat, Ordered
<1> HIDE DEF p, t
<1>7. Says(c.words, u)
  BY <1>1, <1>4, <1>6, NewSays
<1> HIDE DEF u
<1>8. TreeOf(c) = u
  BY <1>7, GivenTree
<1> QED
  BY <1>1, <1>3, <1>5, <1>8 DEF t, p, u

LEMMA NodeNamedTree ==
    ASSUME NEW b, Block(b.words), Nested(b.words), Neat(b),
           NEW c, Block(c.words), Neat(c), NEW node, NEW name,
           NodeNamed(b.words, c.words, node, name)
    PROVE  LET t == TreeOf(b)
               p == OpenPath(b.words)[node + 1]
           IN  /\ p \in DOMAIN t /\ Len(p) > 1 /\ Ren(p, Len(p), name) \notin DOMAIN t
               /\ TreeOf(c) = WithName(DOMAIN t, t, p, name)
<1> DEFINE ws == b.words
           t == TreeOf(b)
           p == OpenPath(ws)[node + 1]
           u == WithName(NodePaths(ws), t, p, name)
<1>1. /\ Says(ws, t) /\ DOMAIN t = NodePaths(ws) /\ Len(ws) \in Nat
      /\ \A d \in NodePaths(ws) : IsPath(d)
  BY KnownTree, BlockMeans
<1>2. node + 1 \in NodeWords(ws)
  BY DEF NodeNamed, Renames, EndsAt
<1>3. p \in NodePaths(ws)
  BY <1>2 DEF NodePaths
<1>4. NamedFacts(ws, c.words, p, name)
  BY NodeNamedFacts DEF Neat
<1>5. Len(p) > 1 /\ Ren(p, Len(p), name) \notin NodePaths(ws)
  BY <1>4 DEF NamedFacts
<1> HIDE DEF p, t
<1>6. Says(c.words, u)
  BY <1>1, <1>4, NamedSays
<1> HIDE DEF u
<1>7. TreeOf(c) = u
  BY <1>6, GivenTree
<1> QED
  BY <1>1, <1>3, <1>5, <1>7 DEF t, p, u
-----------------------------------------------------------------------------
(* Every call is a step of DeviceTree, or leaves the tree alone            *)

Told ==
    /\ Block(fdt.words) /\ Neat(fdt) /\ tree = TreeOf(fdt)
    /\ Block(fdt'.words) /\ Neat(fdt') /\ tree' = TreeOf(fdt')

LEMMA PropDoneStep ==
    ASSUME Told, NEW j, NEW p \in PropNames, NEW v \in Vals, PropDone(fdt, fdt', j, p, v)
    PROVE  tree' = tree \/ Tree!Next
<1>0. /\ Block(fdt.words) /\ Neat(fdt) /\ tree = TreeOf(fdt)
      /\ Block(fdt'.words) /\ Neat(fdt') /\ tree' = TreeOf(fdt')
  BY DEF Told
<1>1. CASE fdt'.words = fdt.words
  BY <1>0, <1>1, SameTree
<1>2. CASE PropSet(fdt.words, fdt'.words, j, p, v)
  <2> DEFINE s == OpenPath(fdt.words)[j]
  <2>1. s \in DOMAIN tree /\ tree' = PutProps(tree, s, WithProp(tree[s], p, v))
    <3>1. s \in DOMAIN TreeOf(fdt) /\ TreeOf(fdt') = PutProps(TreeOf(fdt), s, WithProp(TreeOf(fdt)[s], p, v))
      BY <1>0, <1>2, PropSetTree
    <3> HIDE DEF s
    <3> QED
      BY <1>0, <3>1
  <2> HIDE DEF s
  <2>2. Tree!SetProp(s, p, v)
    BY <2>1, TreeSetProp
  <2> QED
    BY <2>1, <2>2 DEF Tree!Next, Tree!Paths
<1> QED
  BY <1>1, <1>2 DEF PropDone

LEMMA AppendsStep ==
    ASSUME Told, NEW j, NEW p \in PropNames, NEW v \in Vals, Appends(fdt, fdt', j, p, v)
    PROVE  tree' = tree \/ Tree!Next
<1>0. /\ Block(fdt.words) /\ Neat(fdt) /\ tree = TreeOf(fdt)
      /\ Block(fdt'.words) /\ Neat(fdt') /\ tree' = TreeOf(fdt')
  BY DEF Told
<1>1. CASE fdt'.words = fdt.words
  BY <1>0, <1>1, SameTree
<1>2. CASE fdt'.words # fdt.words
  <2> DEFINE s == OpenPath(fdt.words)[j]
             t == tree[s]
  <2>1. PICK w : /\ PropDone(fdt, fdt', j, p, w)
                 /\ \/ w = v /\ \A old : ~HasProp(fdt.words, j, p, old)
                    \/ \E old : HasProp(fdt.words, j, p, old) /\ w = old \o v
    BY <1>2 DEF Appends
  <2>2. PropSet(fdt.words, fdt'.words, j, p, w)
    BY <1>2, <2>1 DEF PropDone
  <2>3. s \in DOMAIN tree /\ tree' = PutProps(tree, s, WithProp(t, p, w))
    BY <1>0, <2>2, PropSetTree
  <2>4. Says(fdt.words, tree) /\ DOMAIN tree = NodePaths(fdt.words)
    BY <1>0, KnownTree
  <2>5. \A old : HasProp(fdt.words, j, p, old) <=> PropAt(fdt.words, s, p, old)
    BY DEF HasProp, PropAt
  <2> HIDE DEF s
  <2>6. /\ p \in DOMAIN t <=> Named(fdt.words, s, p)
        /\ \A old : PropAt(fdt.words, s, p, old) => t[p] = old
    BY <2>3, <2>4 DEF Says
  <2>7. w = IF p \in DOMAIN t THEN t[p] \o v ELSE v
    <3>1. CASE w = v /\ \A old : ~HasProp(fdt.words, j, p, old)
      <4>1. p \notin DOMAIN t
        BY <2>5, <2>6, <3>1 DEF Named
      <4> QED
        BY <3>1, <4>1
    <3>2. ASSUME NEW old, HasProp(fdt.words, j, p, old), w = old \o v
          PROVE  w = IF p \in DOMAIN t THEN t[p] \o v ELSE v
      <4>1. p \in DOMAIN t /\ t[p] = old
        BY <2>5, <2>6, <3>2 DEF Named
      <4> QED
        BY <3>2, <4>1
    <3> QED
      BY <2>1, <3>1, <3>2
  <2>8. Tree!AppendProp(s, p, v)
    BY <2>3, <2>7, TreeAppendProp
  <2> QED
    BY <2>3, <2>8 DEF Tree!Next, Tree!Paths
<1> QED
  BY <1>1, <1>2

LEMMA CutDoneStep ==
    ASSUME Told, NEW j, NEW p \in PropNames, CutDone(fdt, fdt', j, p)
    PROVE  tree' = tree \/ Tree!Next
<1>0. /\ Block(fdt.words) /\ Neat(fdt) /\ tree = TreeOf(fdt)
      /\ Block(fdt'.words) /\ Neat(fdt') /\ tree' = TreeOf(fdt')
  BY DEF Told
<1>1. CASE fdt'.words = fdt.words
  BY <1>0, <1>1, SameTree
<1>2. CASE PropOut(fdt.words, fdt'.words, j, p)
  <2> DEFINE s == OpenPath(fdt.words)[j]
  <2>1. /\ s \in DOMAIN tree /\ p \in DOMAIN tree[s]
        /\ tree' = PutProps(tree, s, WithoutProp(tree[s], p))
    <3>1. /\ s \in DOMAIN TreeOf(fdt) /\ p \in DOMAIN TreeOf(fdt)[s]
          /\ TreeOf(fdt') = PutProps(TreeOf(fdt), s, WithoutProp(TreeOf(fdt)[s], p))
      BY <1>0, <1>2, PropOutTree
    <3> HIDE DEF s
    <3> QED
      BY <1>0, <3>1
  <2> HIDE DEF s
  <2>2. Tree!DelProp(s, p)
    BY <2>1, TreeDelProp
  <2> QED
    BY <2>1, <2>2 DEF Tree!Next, Tree!Paths
<1> QED
  BY <1>1, <1>2 DEF CutDone

LEMMA GoneDoneStep ==
    ASSUME Told, Nested(fdt.words), NEW node, GoneDone(fdt, fdt', node)
    PROVE  tree' = tree \/ Tree!Next
<1>0. /\ Block(fdt.words) /\ Neat(fdt) /\ tree = TreeOf(fdt)
      /\ Block(fdt'.words) /\ Neat(fdt') /\ tree' = TreeOf(fdt')
  BY DEF Told
<1>1. CASE fdt'.words = fdt.words
  BY <1>0, <1>1, SameTree
<1>2. CASE NodeGone(fdt.words, fdt'.words, node)
  <2> DEFINE s == OpenPath(fdt.words)[node + 1]
  <2>1. s \in DOMAIN tree /\ tree' = [q \in Kept(DOMAIN tree, s) |-> tree[q]]
    <3>1. s \in DOMAIN TreeOf(fdt) /\ TreeOf(fdt') = [q \in Kept(DOMAIN TreeOf(fdt), s) |-> TreeOf(fdt)[q]]
      BY <1>0, <1>2, NodeGoneTree
    <3> HIDE DEF s
    <3> QED
      BY <1>0, <3>1
  <2>2. \A d \in DOMAIN tree : IsPath(d)
    BY <1>0, KnownTree
  <2> HIDE DEF s
  <2>3. Tree!DelNode(s)
    BY <2>1, <2>2, TreeDelNode
  <2> QED
    BY <2>1, <2>3 DEF Tree!Next, Tree!Paths
<1> QED
  BY <1>1, <1>2 DEF GoneDone

LEMMA NewDoneStep ==
    ASSUME Told, NEW j, NEW name \in Names, NewDone(fdt, fdt', j, name)
    PROVE  tree' = tree \/ Tree!Next
<1>0. /\ Block(fdt.words) /\ Neat(fdt) /\ tree = TreeOf(fdt)
      /\ Block(fdt'.words) /\ Neat(fdt') /\ tree' = TreeOf(fdt')
  BY DEF Told
<1>1. CASE fdt'.words = fdt.words
  BY <1>0, <1>1, SameTree
<1>2. CASE NodeNew(fdt.words, fdt'.words, j, name)
  <2> DEFINE s == OpenPath(fdt.words)[j]
  <2>1. Len(name) \in Nat
    BY ArgumentsAre
  <2>2. /\ s \in DOMAIN tree /\ Append(s, name) \notin DOMAIN tree
        /\ tree' = WithNode(DOMAIN tree, tree, Append(s, name))
    <3>1. /\ s \in DOMAIN TreeOf(fdt) /\ Append(s, name) \notin DOMAIN TreeOf(fdt)
          /\ TreeOf(fdt') = WithNode(DOMAIN TreeOf(fdt), TreeOf(fdt), Append(s, name))
      BY <1>0, <1>2, <2>1, NodeNewTree
    <3> HIDE DEF s
    <3> QED
      BY <1>0, <3>1
  <2> HIDE DEF s
  <2>3. Tree!AddSubnode(s, name)
    BY <2>2, TreeAddSubnode
  <2> QED
    BY <2>2, <2>3 DEF Tree!Next, Tree!Paths
<1> QED
  BY <1>1, <1>2 DEF NewDone

LEMMA NamedDoneStep ==
    ASSUME Told, Nested(fdt.words), NEW node, NEW name \in Names,
           NamedDone(fdt, fdt', node, name)
    PROVE  tree' = tree \/ Tree!Next
<1>0. /\ Block(fdt.words) /\ Neat(fdt) /\ tree = TreeOf(fdt)
      /\ Block(fdt'.words) /\ Neat(fdt') /\ tree' = TreeOf(fdt')
  BY DEF Told
<1>1. CASE fdt'.words = fdt.words
  BY <1>0, <1>1, SameTree
<1>2. CASE NodeNamed(fdt.words, fdt'.words, node, name)
  <2> DEFINE s == OpenPath(fdt.words)[node + 1]
  <2>1. /\ s \in DOMAIN tree /\ Len(s) > 1 /\ Ren(s, Len(s), name) \notin DOMAIN tree
        /\ tree' = WithName(DOMAIN tree, tree, s, name)
    BY <1>0, <1>2, NodeNamedTree
  <2>2. \A d \in DOMAIN tree : IsPath(d)
    BY <1>0, KnownTree
  <2> HIDE DEF s
  <2>3. Tree!SetName(s, name)
    BY <2>1, <2>2, TreeSetName
  <2> QED
    BY <2>1, <2>3 DEF Tree!Next, Tree!Paths
<1> QED
  BY <1>1, <1>2 DEF NamedDone
LEMMA EditPropStep ==
    ASSUME Told, Sound(fdt), Nested(fdt.words), NEW n \in Int, EditProp(n)
    PROVE  tree' = tree \/ Tree!Next
<1>1. PICK p \in PropNames :
         DelProp(n, p) \/ \E v \in Vals : SetProp(n, p, v) \/ AppendProp(n, p, v)
  BY DEF EditProp
<1>2. Len(p) \in Nat /\ SubSeq(p, 1, Len(p)) = p
  BY ArgumentsAre
<1>3. Ordered(fdt.words) /\ NamesStored(fdt.words, fdt.strs)
  BY DEF Told, Neat
<1>4. CASE DelProp(n, p)
  <2>1. CutDone(fdt, fdt_delprop(fdt, n, p).fdt, n + 1, p)
    BY <1>3, DelPropDone
  <2>2. CutDone(fdt, fdt', n + 1, p)
    BY <1>4, <2>1 DEF DelProp
  <2> QED
    BY <2>2, CutDoneStep
<1>5. ASSUME NEW v \in Vals, SetProp(n, p, v) PROVE tree' = tree \/ Tree!Next
  <2>1. IsValue(v)
    BY ArgumentsAre
  <2>2. PropDone(fdt, fdt_setprop(fdt, n, p, v).fdt, n + 1, p, v)
    BY <1>2, <1>3, <2>1, SetPropDone
  <2>3. PropDone(fdt, fdt', n + 1, p, v)
    BY <1>5, <2>2 DEF SetProp
  <2> QED
    BY <2>3, PropDoneStep
<1>6. ASSUME NEW v \in Vals, AppendProp(n, p, v) PROVE tree' = tree \/ Tree!Next
  <2>1. IsValue(v)
    BY ArgumentsAre
  <2>2. Appends(fdt, fdt_appendprop(fdt, n, p, v).fdt, n + 1, p, v)
    BY <1>2, <1>3, <2>1, AppendPropDone
  <2>3. Appends(fdt, fdt', n + 1, p, v)
    BY <1>6, <2>2 DEF AppendProp
  <2> QED
    BY <2>3, AppendsStep
<1> QED
  BY <1>1, <1>4, <1>5, <1>6

LEMMA EditInPlaceStep ==
    ASSUME Told, Sound(fdt), Nested(fdt.words), NEW n \in Int, EditInPlace(n)
    PROVE  tree' = tree \/ Tree!Next
<1>1. Ordered(fdt.words) /\ NamesStored(fdt.words, fdt.strs)
  BY DEF Told, Neat
<1>2. ASSUME NEW p \in PropNames, NopProperty(n, p) PROVE tree' = tree \/ Tree!Next
  <2>1. CutDone(fdt, fdt_nop_property(fdt, n, p).fdt, n + 1, p)
    BY <1>1, NopPropertyDone
  <2>2. CutDone(fdt, fdt', n + 1, p)
    BY <1>2, <2>1 DEF NopProperty
  <2> QED
    BY <2>2, CutDoneStep
<1>3. ASSUME NEW p \in PropNames, NEW v \in Vals, SetPropInplace(n, p, v)
      PROVE  tree' = tree \/ Tree!Next
  <2>1. Len(p) \in Nat /\ IsValue(v)
    BY ArgumentsAre
  <2>2. PropDone(fdt, fdt_setprop_inplace(fdt, n, p, v).fdt, n + 1, p, v)
    BY <1>1, <2>1, SetPropInplaceDone
  <2>3. PropDone(fdt, fdt', n + 1, p, v)
    BY <1>3, <2>2 DEF SetPropInplace
  <2> QED
    BY <2>3, PropDoneStep
<1>4. CASE NopNode(n)
  <2>1. GoneDone(fdt, fdt_nop_node(fdt, n).fdt, n)
    BY NopNodeDone
  <2>2. GoneDone(fdt, fdt', n)
    BY <1>4, <2>1 DEF NopNode
  <2> QED
    BY <2>2, GoneDoneStep
<1> QED
  BY <1>2, <1>3, <1>4 DEF EditInPlace

LEMMA EditNodesStep ==
    ASSUME UnseenError = FALSE, Told, Sound(fdt), Nested(fdt.words),
           NEW n \in Int, EditNodes(n)
    PROVE  tree' = tree \/ Tree!Next
<1>1. PathsDiffer(fdt.words)
  BY DEF Told, Neat, Ordered
<1>2. ASSUME NEW name \in Names, AddSubnode(n, name) PROVE tree' = tree \/ Tree!Next
  <2>1. Len(name) \in Nat /\ n >= 0 /\ fdt' = fdt_add_subnode(fdt, n, name).fdt
    BY <1>2, ArgumentsAre DEF AddSubnode
  <2>2. NewDone(fdt, fdt_add_subnode(fdt, n, name).fdt, n + 1, name)
    BY <1>1, <2>1, AddSubnodeDone
  <2>3. NewDone(fdt, fdt', n + 1, name)
    BY <2>1, <2>2
  <2> QED
    BY <2>3, NewDoneStep
<1>3. ASSUME NEW name \in Names, SetName(n, name) PROVE tree' = tree \/ Tree!Next
  <2>1. Len(name) \in Nat /\ n # 0 /\ fdt' = fdt_set_name(fdt, n, name).fdt
        /\ (n \in NodeOffsets(fdt) => name \notin Siblings(n))
    BY <1>3, ArgumentsAre DEF SetName
  <2>2. n \in NodeOffsets(fdt) => NameFree(fdt.words, n, name)
    BY <2>1, SiblingsFree
  <2>3. NamedDone(fdt, fdt_set_name(fdt, n, name).fdt, n, name)
    BY <2>1, <2>2, SetNameDone
  <2>4. NamedDone(fdt, fdt', n, name)
    BY <2>1, <2>3
  <2> QED
    BY <2>4, NamedDoneStep
<1>4. CASE DelNode(n)
  <2>1. GoneDone(fdt, fdt_del_node(fdt, n).fdt, n)
    BY DelNodeDone
  <2>2. GoneDone(fdt, fdt', n)
    BY <1>4, <2>1 DEF DelNode
  <2> QED
    BY <2>2, GoneDoneStep
<1> QED
  BY <1>2, <1>3, <1>4 DEF EditNodes

LEMMA RootlessTree ==
    ASSUME NEW c, Block(c.words), Neat(c), Rootless(c.words)
    PROVE  TreeOf(c) = [q \in {} |-> Nothing]
<1> DEFINE t == [q \in {} |-> Nothing]
<1>1. NodePaths(c.words) = {}
  BY BlockMeans DEF NodePaths, NodeWords, Rootless
<1>2. Says(c.words, t)
  BY <1>1 DEF Says
<1> HIDE DEF t
<1>3. TreeOf(c) = t
  BY <1>2, GivenTree
<1> QED
  BY <1>3 DEF t

LEMMA TreeStep ==
    ASSUME UnseenError = FALSE, Told, Sound(fdt), Shaped(fdt.words), [Next]_vars
    PROVE  tree' = tree \/ Tree!Next
<1>1. CASE UNCHANGED vars
  BY <1>1 DEF vars
<1>2. CASE EditBlocks
  <2>1. MovesTo(fdt, fdt')
    BY <1>2, EditBlocksMoves
  <2> QED
    BY <2>1, SameTree DEF MovesTo, Told
<1>3. ASSUME NEW n \in Targets, EditProp(n) \/ EditInPlace(n) \/ EditNodes(n)
      PROVE  tree' = tree \/ Tree!Next
  <2>1. n \in Int
    BY TargetNumbers
  <2>2. CASE Nested(fdt.words)
    BY <1>3, <2>1, <2>2, EditPropStep, EditInPlaceStep, EditNodesStep
  <2>3. CASE Rootless(fdt.words)
    <3>1. EditsTo(fdt, fdt')
      BY <1>3, <2>1, EditPropEdits, EditInPlaceEdits, EditNodesEdits
    <3>2. Rootless(fdt'.words)
      BY <2>3, <3>1 DEF EditsTo, Keeps
    <3>3. TreeOf(fdt) = TreeOf(fdt')
      BY <2>3, <3>2, RootlessTree DEF Told
    <3> QED
      BY <3>3 DEF Told
  <2> QED
    BY <2>2, <2>3 DEF Shaped
<1> QED
  BY <1>1, <1>2, <1>3 DEF Next

LEMMA InitTree ==
    ASSUME Init PROVE tree = TreeOf(fdt) /\ Tree!Init
<1>1. PICK dtb \in Dtbs, bufsize \in Buffers :
         LET r == OpenInto(dtb, bufsize, 0)
         IN  r.ret = 0 /\ fdt = r.fdt /\ tree = TreeOf(r.fdt)
  BY DEF Init
<1> DEFINE r == OpenInto(dtb, bufsize, 0)
           s == fdt_open_into(dtb.hdr, dtb.nrsv, dtb.hdr.sizeStruct, bufsize, 0)
<1>2. /\ dtb.hdr \in Header /\ dtb.nrsv \in Nat /\ Openable(dtb.hdr, dtb.nrsv)
      /\ Agrees(dtb) /\ bufsize \in Nat
  BY DtbsAssumption, BuffersAssumption
<1>3. IF r.ret = 0 THEN Moves(dtb, r) ELSE r.fdt = dtb
  BY <1>2, OpenMoves
<1>4. r.fdt.words = dtb.words
  BY <1>1, <1>3 DEF Moves
<1> HIDE DEF r, s
<1>5. TreeOf(r.fdt) = TreeOf(dtb)
  BY <1>4, SameTree
<1>6. tree = TreeOf(fdt) /\ tree \in {TreeOf(d) : d \in Dtbs}
  BY <1>1, <1>5 DEF r
<1> QED
  BY <1>6 DEF Tree!Init

\* After any sequence of calls the blob says what DeviceTree says of those
\* calls: each one has its whole effect on the tree, or none.  A property that
\* is set, appended to or deleted is the only one that differs, a node that is
\* deleted goes with all below it, and one that is renamed takes all below it
\* along, wherever splicing has moved them.
THEOREM RwImplementsTree ==
    ASSUME UnseenError = FALSE PROVE Spec => TreeSpec
<1> DEFINE I == Sound(fdt) /\ Shaped(fdt.words) /\ Tidy(fdt)
           C == tree = TreeOf(fdt)
<1>1. Init => C /\ Tree!Init
  BY InitTree
<1>2. I /\ I' /\ C /\ [Next]_vars => C' /\ [Tree!Next]_tree
  <2> SUFFICES ASSUME I, I', C, [Next]_vars PROVE C' /\ [Tree!Next]_tree
    OBVIOUS
  <2>1. tree' = TreeOf(fdt')
    <3>1. CASE UNCHANGED vars
      BY <3>1 DEF vars
    <3>2. CASE Next
      BY <3>2 DEF Next
    <3> QED
      BY <3>1, <3>2
  <2>2. Block(fdt.words) /\ Block(fdt'.words)
    BY DEF Sound, Agrees
  <2>3. Neat(fdt) /\ Neat(fdt')
    BY DEF Tidy, Neat, Ordered
  <2>4. Told
    BY <2>1, <2>2, <2>3 DEF Told
  <2>5. tree' = tree \/ Tree!Next
    BY <2>4, TreeStep
  <2> QED
    BY <2>1, <2>5
<1>3. Spec => []I
  BY TidyAlways
<1> HIDE DEF I, C
<1> QED
  BY <1>1, <1>2, <1>3, PTL DEF Spec, TreeSpec, Tree!Spec
=============================================================================
