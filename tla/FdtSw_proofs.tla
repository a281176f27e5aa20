----------------------------- MODULE FdtSw_proofs -----------------------------
(***************************************************************************)
(* A tree written sequentially into a buffer of any size, with names and   *)
(* values of any length: every property finds its name again, in the       *)
(* growing tree, in the finished one, and in the one that                  *)
(* fdt_create_empty_tree opens; and the sizes that the header holds are    *)
(* those of the tags and of the strings.  What has been written stays      *)
(* below the strings, and the strings behind it, unless a property's name  *)
(* is so long that the unsigned sum in _fdt_find_add_string wraps; names   *)
(* of less than 64 bytes never are.  What each fdt_sw function does to a   *)
(* buffer is stated for the function, and used for the client's calls and  *)
(* for fdt_create_empty_tree alike.                                        *)
(***************************************************************************)
EXTENDS FdtSwTree, NatRecursion, TLAPS

Fields == {"magic", "version", "offRsv", "offStruct", "sizeStruct",
           "offStrings", "sizeStrings", "total", "tags", "strs"}

\* A buffer's fields that have to do with its layout.
Shape(f) ==
    /\ DOMAIN f = Fields
    /\ f.offStruct \in Nat /\ f.sizeStruct \in Nat
    /\ f.sizeStrings \in Nat /\ f.total \in Nat

\* g is f with n more bytes of structure and s more of strings.
Grown(f, g, n, s) ==
    /\ DOMAIN g = Fields
    /\ g.magic = f.magic /\ g.offStruct = f.offStruct /\ g.total = f.total
    /\ g.sizeStruct = f.sizeStruct + n /\ g.sizeStrings = f.sizeStrings + s

Fits(f) == f.offStruct + f.sizeStruct <= f.total - f.sizeStrings

\* No property name is as long as the smallest buffer that takes a node: 48
\* bytes of header and 16 for the end of the reservation block.
ShortNames == \A s \in PropNames : Len(s) < 64

\* _fdt_find_add_string has put no string in front of the buffer, as it does
\* when total + offset wraps.
StringsInBuffer == fdt.sizeStrings <= fdt.total

\* The invariant.  There is a string only when there is a node, and a node only
\* when the reservation block is finished.
SwInv ==
    /\ fdt.magic = "none" => nrsv = -1 /\ path = <<>>
    /\ fdt.magic = "sw" =>
        /\ Shape(fdt)
        /\ nrsv \in Nat \cup {-1}
        /\ fdt.offStruct = SW_RSV_START + rsv_size(nrsv)
        /\ nrsv >= 0 => Fits(fdt)
        /\ nrsv = -1 => fdt.sizeStruct = 0
        /\ fdt.sizeStruct = 0 => fdt.sizeStrings = 0 /\ path = <<>>

\* What _fdt_grab_space does: all of it or nothing, and only when it fits.
LEMMA GrabSpace ==
    ASSUME NEW f, Shape(f), Fits(f), NEW len \in Nat, NEW ts
    PROVE  LET r == grab_space(f, len, ts)
           IN  \/ r.ret # 0 /\ r.fdt = f
               \/ /\ r.ret = 0 /\ Grown(f, r.fdt, len, 0)
                  /\ Shape(r.fdt) /\ Fits(r.fdt)
<1> DEFINE g == [f EXCEPT !.sizeStruct = @ + len, !.tags = @ \o ts]
           r == grab_space(f, len, ts)
<1>1. DOMAIN g = Fields /\ g.sizeStruct = f.sizeStruct + len
  BY DEF Shape, Fields
<1>2. /\ g.magic = f.magic /\ g.offStruct = f.offStruct
      /\ g.total = f.total /\ g.sizeStrings = f.sizeStrings
  BY DEF Shape, Fields
<1>3. f.total - f.offStruct - f.sizeStrings >= 0
  BY DEF Shape, Fits
<1>4. r = No(f, FDT_ERR_NOSPACE) \/ (r = Ok(g) /\ Fits(g))
  <2>1. CASE f.sizeStruct + len > f.total - f.offStruct - f.sizeStrings
    BY <1>3, <2>1 DEF grab_space
  <2>2. CASE ~(f.sizeStruct + len > f.total - f.offStruct - f.sizeStrings)
    <3>1. Fits(g)
      BY <1>1, <1>2, <2>2 DEF Fits, Shape
    <3> QED
      BY <2>2, <3>1 DEF grab_space
  <2> QED
    BY <2>1, <2>2
<1>5. Grown(f, g, len, 0) /\ Shape(g)
  BY <1>1, <1>2 DEF Grown, Shape
<1> HIDE DEF g, r
<1>6. CASE r = No(f, FDT_ERR_NOSPACE)
  BY <1>6 DEF No, FDT_ERR_NOSPACE, r
<1>7. CASE r = Ok(g) /\ Fits(g)
  BY <1>5, <1>7 DEF Ok, r
<1> QED
  BY <1>4, <1>6, <1>7

\* What _fdt_find_add_string does to the buffer: nothing, or one more string
\* that fits, of k characters, unless total + offset wraps.  It does not when
\* the reservation block alone is as long as the name, and when it does the
\* strings are larger than the buffer.
LEMMA FindAddString ==
    ASSUME NEW f, Shape(f), Fits(f), f.offStruct >= 64,
           NEW s, NEW k \in Nat, Len(s) = k,
           k < 64 \/ find_add_string(f, s).fdt.sizeStrings <= f.total
    PROVE  LET r == find_add_string(f, s)
           IN  \/ r.fdt = f
               \/ /\ Grown(f, r.fdt, 0, k + 1)
                  /\ Shape(r.fdt) /\ Fits(r.fdt)
<1> DEFINE g == [f EXCEPT !.sizeStrings = @ + k + 1, !.strs = <<s>> \o @]
           bottom == f.total - f.sizeStrings - (k + 1)
           r == find_add_string(f, s)
<1>1. DOMAIN g = Fields /\ g.sizeStrings = f.sizeStrings + k + 1
  BY DEF Shape, Fields
<1>2. CASE IsThere(f.strs, s)
  BY <1>2, Zenon DEF find_add_string
<1>3. CASE /\ ~IsThere(f.strs, s)
           /\ 0 <= bottom /\ bottom < f.offStruct + f.sizeStruct
  BY <1>3, Zenon DEF find_add_string, Ok
<1>4. CASE /\ ~IsThere(f.strs, s)
           /\ ~(0 <= bottom /\ bottom < f.offStruct + f.sizeStruct)
  <2>1. r.fdt = g
    BY <1>4, Zenon DEF find_add_string
  <2>2. /\ g.magic = f.magic /\ g.offStruct = f.offStruct
        /\ g.total = f.total /\ g.sizeStruct = f.sizeStruct
    BY DEF Shape, Fields
  <2>3. Grown(f, g, 0, k + 1) /\ Shape(g)
    BY <1>1, <2>2 DEF Grown, Shape
  <2> HIDE DEF g
  <2>4. k < 64 \/ g.sizeStrings <= f.total
    BY <2>1, Zenon
  <2>5. 0 <= bottom
    BY <1>1, <2>4 DEF Fits, Shape
  <2>6. Fits(g)
    BY <1>1, <1>4, <2>2, <2>5 DEF Fits, Shape
  <2> QED
    BY <2>1, <2>3, <2>6, Zenon
<1> QED
  BY <1>2, <1>3, <1>4

LEMMA SwRsvStart == SW_RSV_START = 48
BY DEF SW_RSV_START, FDT_ALIGN, RSV_ENTRY

LEMMA RsvSize == ASSUME NEW n \in Nat \cup {-1}
                 PROVE  rsv_size(n) = 16 * n + 16
BY DEF rsv_size, RSV_ENTRY

\* Once a node is begun there is room to compare with, and the reservation
\* block is at least its terminator.
LEMMA Begun ==
    ASSUME SwInv, fdt.magic = "sw", nrsv >= 0
    PROVE  Shape(fdt) /\ Fits(fdt) /\ fdt.offStruct >= 64 /\ nrsv \in Nat
<1>1. nrsv \in Nat
  BY DEF SwInv
<1>2. rsv_size(nrsv) = 16 * nrsv + 16
  BY <1>1, RsvSize
<1>3. fdt.offStruct = SW_RSV_START + rsv_size(nrsv)
  BY DEF SwInv
<1>4. fdt.offStruct >= 64
  BY <1>1, <1>2, <1>3, SwRsvStart
<1> QED
  BY <1>1, <1>4 DEF SwInv

LEMMA TagAlign == ASSUME NEW n \in Nat PROVE FDT_TAGALIGN(n) \in Nat
BY DEF FDT_TAGALIGN, FDT_ALIGN, FDT_TAGSIZE

LEMMA SwInit == Init => SwInv
BY DEF Init, SwInv, Blank

\* A step that leaves the reservation block and the strings alone.
LEMMA GrownStep ==
    ASSUME SwInv, fdt.magic = "sw", nrsv >= 0, nrsv' = nrsv,
           Shape(fdt'), Fits(fdt'), NEW n \in Nat, NEW s \in Nat,
           Grown(fdt, fdt', n, s), fdt.sizeStruct + n > 0
    PROVE  SwInv'
<1>1. Shape(fdt) /\ nrsv \in Nat /\ fdt.offStruct = SW_RSV_START + rsv_size(nrsv)
  BY Begun DEF SwInv
<1>2. fdt'.magic = "sw" /\ fdt'.offStruct = fdt.offStruct
  BY DEF Grown
<1>3. fdt'.sizeStruct # 0
  BY <1>1 DEF Grown, Shape
<1>4. nrsv' \in Nat \cup {-1} /\ nrsv' # -1
  BY <1>1
<1>5. fdt'.offStruct = SW_RSV_START + rsv_size(nrsv')
  BY <1>1, <1>2
<1> QED
  BY <1>2, <1>3, <1>4, <1>5 DEF SwInv

LEMMA CreateStep ==
    ASSUME NEW b \in BufSizes, SwInv, Create(b)
    PROVE  SwInv'
<1>1. nrsv' = -1 /\ path' = <<>>
  BY DEF Create, SwInv
<1>2. CASE b < 40
  <2>1. fdt'.magic = "none"
    BY <1>2 DEF Create, fdt_create, No, Blank
  <2> QED
    BY <1>1, <2>1 DEF SwInv
<1>3. CASE ~(b < 40)
  <2>1. fdt' = [Blank EXCEPT !.magic = "sw", !.version = 17, !.total = b,
                             !.offRsv = SW_RSV_START,
                             !.offStruct = SW_RSV_START, !.offStrings = b]
    BY <1>3 DEF Create, fdt_create, Ok
  <2>2. /\ DOMAIN fdt' = Fields /\ fdt'.magic = "sw"
        /\ fdt'.offStruct = SW_RSV_START /\ fdt'.sizeStruct = 0
        /\ fdt'.sizeStrings = 0 /\ fdt'.total = b
    BY <2>1 DEF Blank, Fields
  <2>3. SW_RSV_START = 48
    BY SwRsvStart
  <2>4. rsv_size(-1) = 0
    BY DEF rsv_size, RSV_ENTRY
  <2>5. b \in Nat
    BY SwAssumption
  <2>6. Shape(fdt')
    BY <2>2, <2>3, <2>5 DEF Shape
  <2> QED
    BY <1>1, <2>2, <2>3, <2>4, <2>6 DEF SwInv
<1> QED
  BY <1>2, <1>3

LEMMA AddReserveMapEntryStep ==
    ASSUME SwInv, AddReserveMapEntry
    PROVE  SwInv'
<1> DEFINE r == fdt_add_reservemap_entry(fdt)
           g == [fdt EXCEPT !.offStruct = @ + RSV_ENTRY]
<1>1. /\ fdt.magic = "sw" /\ fdt' = r.fdt /\ path' = path
      /\ nrsv' = nrsv + (IF r.ret = 0 THEN 1 ELSE 0)
  BY Zenon DEF AddReserveMapEntry, Writing
<1>2. /\ Shape(fdt) /\ nrsv \in Nat \cup {-1}
      /\ fdt.offStruct = SW_RSV_START + rsv_size(nrsv)
  BY <1>1 DEF SwInv
<1>3. \/ r.fdt = fdt /\ r.ret # 0
      \/ /\ r.fdt = g /\ r.ret = 0
         /\ fdt.sizeStruct = 0 /\ ~(fdt.offStruct + RSV_ENTRY > fdt.total)
  <2>1. CASE fdt.sizeStruct > 0
    BY <1>1, <1>2, <2>1
    DEF fdt_add_reservemap_entry, SwCall, No, FDT_ERR_BADSTATE
  <2>2. CASE fdt.sizeStruct = 0 /\ fdt.offStruct + RSV_ENTRY > fdt.total
    BY <1>1, <1>2, <2>2
    DEF fdt_add_reservemap_entry, SwCall, No, FDT_ERR_NOSPACE
  <2>3. CASE fdt.sizeStruct = 0 /\ ~(fdt.offStruct + RSV_ENTRY > fdt.total)
    BY <1>1, <1>2, <2>3 DEF fdt_add_reservemap_entry, SwCall, Ok
  <2> QED
    BY <1>2, <2>1, <2>2, <2>3 DEF Shape
<1>4. CASE r.fdt = fdt /\ r.ret # 0
  <2>1. fdt' = fdt /\ nrsv' = nrsv
    BY <1>1, <1>2, <1>4
  <2> QED
    BY <1>1, <2>1 DEF SwInv, Shape, Fits
<1>5. CASE /\ r.fdt = g /\ r.ret = 0
           /\ fdt.sizeStruct = 0 /\ ~(fdt.offStruct + RSV_ENTRY > fdt.total)
  <2>1. fdt' = g /\ nrsv' = nrsv + 1
    BY <1>1, <1>5
  <2>2. /\ DOMAIN fdt' = Fields /\ fdt'.magic = "sw" /\ fdt'.total = fdt.total
        /\ fdt'.offStruct = fdt.offStruct + 16 /\ fdt'.sizeStruct = 0
        /\ fdt'.sizeStrings = 0
    BY <1>1, <1>2, <1>5, <2>1 DEF SwInv, Shape, Fields, RSV_ENTRY
  <2>3. fdt'.offStruct = SW_RSV_START + rsv_size(nrsv')
    BY <1>2, <2>1, <2>2, RsvSize, SwRsvStart
  <2>4. Fits(fdt') /\ Shape(fdt')
    BY <1>2, <1>5, <2>2 DEF Fits, Shape, RSV_ENTRY
  <2> QED
    BY <1>1, <1>2, <1>5, <2>1, <2>2, <2>3, <2>4 DEF SwInv
<1> QED
  BY <1>3, <1>4, <1>5

LEMMA BeginNodeStep ==
    ASSUME NEW name \in NodeNames, SwInv, BeginNode(name)
    PROVE  SwInv'
<1> DEFINE len == FDT_TAGSIZE + FDT_TAGALIGN(Len(name) + 1)
           r == grab_space(fdt, len, <<Tag("BEGIN", name, 0, "")>>)
<1>1. fdt.magic = "sw" /\ nrsv >= 0 /\ nrsv' = nrsv
  BY DEF BeginNode, Writing
<1>2. r.ret = 0 /\ fdt' = r.fdt
  BY <1>1, Zenon DEF BeginNode, fdt_begin_node, SwCall
<1>3. len \in Nat /\ len > 0
  <2>1. PICK l \in Nat : Len(name) = l
    BY SwAssumption, Zenon
  <2> HIDE DEF len
  <2>2. FDT_TAGALIGN(l + 1) \in Nat
    BY TagAlign
  <2> QED
    BY <2>1, <2>2 DEF FDT_TAGSIZE, len
<1>4. Shape(fdt) /\ Fits(fdt) /\ fdt.sizeStruct \in Nat
  BY <1>1, Begun DEF Shape
<1> HIDE DEF len
<1>5. Grown(fdt, fdt', len, 0) /\ Shape(fdt') /\ Fits(fdt')
  BY <1>2, <1>3, <1>4, GrabSpace, Zenon
<1>6. fdt.sizeStruct + len > 0
  BY <1>3, <1>4
<1> QED
  BY <1>1, <1>3, <1>5, <1>6, GrownStep

LEMMA EndNodeStep ==
    ASSUME SwInv, EndNode
    PROVE  SwInv'
<1> DEFINE r == grab_space(fdt, FDT_TAGSIZE, <<Tag("END_NODE", "", 0, "")>>)
<1>1. fdt.magic = "sw" /\ path # <<>> /\ nrsv' = nrsv
  BY DEF EndNode, Writing
<1>2. r.ret = 0 /\ fdt' = r.fdt
  BY <1>1, Zenon DEF EndNode, fdt_end_node, SwCall
<1>3. nrsv >= 0
  BY <1>1 DEF SwInv
<1>4. Shape(fdt) /\ Fits(fdt) /\ fdt.sizeStruct \in Nat
  BY <1>1, <1>3, Begun DEF Shape
<1>5. FDT_TAGSIZE \in Nat /\ fdt.sizeStruct + FDT_TAGSIZE > 0
  BY <1>4 DEF FDT_TAGSIZE
<1>6. Grown(fdt, fdt', FDT_TAGSIZE, 0) /\ Shape(fdt') /\ Fits(fdt')
  BY <1>2, <1>4, <1>5, GrabSpace, Zenon
<1> QED
  BY <1>1, <1>3, <1>5, <1>6, GrownStep

LEMMA FindAddKeepsTotal ==
    ASSUME NEW f, NEW s
    PROVE  find_add_string(f, s).fdt.total = f.total
<1> DEFINE g == [f EXCEPT !.sizeStrings = @ + Len(s) + 1, !.strs = <<s>> \o @]
<1>1. g.total = f.total
  OBVIOUS
<1>2. find_add_string(f, s).fdt = f \/ find_add_string(f, s).fdt = g
  BY Zenon DEF find_add_string, Ok
<1> QED
  BY <1>1, <1>2

\* The string stays behind when there is no room for its property.
LEMMA PropertyStep ==
    ASSUME NEW name \in PropNames, NEW val \in Vals, SwInv, Property(name, val),
           ShortNames \/ StringsInBuffer'
    PROVE  SwInv'
<1> DEFINE found == find_add_string(fdt, name)
           len == 12 + FDT_TAGALIGN(Len(val) + 1)
           r == grab_space(found.fdt, len, <<Tag("PROP", name, found.ret, val)>>)
<1>1. /\ fdt.magic = "sw" /\ path # <<>> /\ nrsv' = nrsv /\ path' = path
      /\ fdt' = fdt_property(fdt, name, val).fdt
  BY Zenon DEF Property, Writing
<1>2. nrsv >= 0 /\ fdt.sizeStruct # 0
  BY <1>1 DEF SwInv
<1>3. Shape(fdt) /\ Fits(fdt) /\ fdt.offStruct >= 64 /\ fdt.sizeStruct \in Nat
  BY <1>1, <1>2, Begun DEF Shape
<1>4. PICK k \in Nat : Len(name) = k
  BY SwAssumption, Zenon
<1>5. len \in Nat
  <2>1. PICK l \in Nat : Len(val) = l
    BY SwAssumption, Zenon
  <2> HIDE DEF len
  <2>2. FDT_TAGALIGN(l + 1) \in Nat
    BY TagAlign
  <2> QED
    BY <2>1, <2>2 DEF len
<1>6. ASSUME fdt' = r.fdt
      PROVE  \/ found.fdt = fdt
             \/ /\ Grown(fdt, found.fdt, 0, k + 1)
                /\ Shape(found.fdt) /\ Fits(found.fdt)
  <2>1. fdt'.sizeStrings = found.fdt.sizeStrings /\ fdt'.total = fdt.total
    <3>1. /\ r.fdt.sizeStrings = found.fdt.sizeStrings
          /\ r.fdt.total = found.fdt.total
      <4> DEFINE f == found.fdt
                 ts == <<Tag("PROP", name, found.ret, val)>>
      <4> HIDE DEF found, len, f, ts
      <4>1. /\ grab_space(f, len, ts).fdt.sizeStrings = f.sizeStrings
            /\ grab_space(f, len, ts).fdt.total = f.total
        BY DEF grab_space, Ok, No
      <4> QED
        BY <4>1 DEF f, ts
    <3>2. found.fdt.total = fdt.total
      BY FindAddKeepsTotal, Zenon
    <3> HIDE DEF r, found
    <3> QED
      BY <1>6, <3>1, <3>2
  <2>2. ShortNames => k < 64
    BY <1>4 DEF ShortNames
  <2>3. k < 64 \/ found.fdt.sizeStrings <= fdt.total
    BY <2>1, <2>2, Zenon DEF StringsInBuffer
  <2> QED
    BY <1>3, <1>4, <2>3, FindAddString, Zenon
<1>7. fdt' = fdt \/ fdt' = r.fdt
  BY <1>1, Zenon DEF fdt_property, SwCall, No
<1> HIDE DEF len, found
<1>8. CASE fdt' = fdt
  BY <1>1, <1>8 DEF SwInv, Shape, Fits
<1>9. CASE fdt' = r.fdt
  <2>1. Shape(found.fdt) /\ Fits(found.fdt)
    BY <1>3, <1>6, <1>9, Zenon
  <2>2. \/ fdt' = found.fdt
        \/ Grown(found.fdt, fdt', len, 0) /\ Shape(fdt') /\ Fits(fdt')
    BY <1>5, <1>9, <2>1, GrabSpace, Zenon
  <2>3. PICK n \in Nat, s \in Nat : Grown(fdt, fdt', n, s)
    <3>1. \E s \in Nat : Grown(fdt, found.fdt, 0, s)
      <4>1. Grown(fdt, fdt, 0, 0)
        BY <1>3 DEF Grown, Shape
      <4>2. k + 1 \in Nat /\ 0 \in Nat
        OBVIOUS
      <4> QED
        BY <1>6, <1>9, <4>1, <4>2, Zenon
    <3>2. PICK s \in Nat : Grown(fdt, found.fdt, 0, s)
      BY <3>1
    <3>3. CASE fdt' = found.fdt
      BY <3>2, <3>3
    <3>4. CASE Grown(found.fdt, fdt', len, 0)
      BY <1>3, <1>5, <3>2, <3>4 DEF Grown, Shape
    <3> QED
      BY <2>2, <3>3, <3>4
  <2>4. Shape(fdt') /\ Fits(fdt')
    BY <2>1, <2>2, Zenon
  <2>5. fdt.sizeStruct + n > 0
    BY <1>2, <1>3, <2>3
  <2> QED
    BY <1>1, <1>2, <2>3, <2>4, <2>5, GrownStep
<1> QED
  BY <1>7, <1>8, <1>9

-----------------------------------------------------------------------------
(* fdt_create_empty_tree writes and finishes a whole tree in one step.     *)

LEMMA GrabKeepsFields ==
    ASSUME NEW f, DOMAIN f = Fields, NEW len, NEW ts
    PROVE  DOMAIN grab_space(f, len, ts).fdt = Fields
BY Zenon DEF grab_space, Ok, No

\* fdt_finish succeeds only when it has set the magic of a whole tree.
LEMMA FinishIsWhole ==
    ASSUME NEW f, DOMAIN f = Fields, fdt_finish(f).ret = 0
    PROVE  /\ fdt_finish(f).fdt.magic = "fdt"
           /\ DOMAIN fdt_finish(f).fdt = Fields
<1> DEFINE r == grab_space(f, FDT_TAGSIZE, <<Tag("END", "", 0, "")>>)
           g == [r.fdt EXCEPT
                    !.offStrings = r.fdt.offStruct + r.fdt.sizeStruct,
                    !.tags  = Relocated(r.fdt),
                    !.total = r.fdt.offStruct + r.fdt.sizeStruct
                                + r.fdt.sizeStrings,
                    !.magic = "fdt"]
<1>1. f.magic = "sw"
  <2>1. CASE f.magic # "sw"
    <3>1. fdt_finish(f).ret = -FDT_ERR_BADMAGIC
      BY <2>1, Zenon DEF fdt_finish, SwCall, No
    <3> QED
      BY <3>1 DEF FDT_ERR_BADMAGIC
  <2> QED
    BY <2>1
<1>2. r.ret = 0 /\ fdt_finish(f).fdt = g
  BY <1>1, Zenon DEF fdt_finish, SwCall, Ok
<1>3. DOMAIN r.fdt = Fields
  BY GrabKeepsFields, Zenon
<1> HIDE DEF r
<1>4. DOMAIN g = Fields
  BY <1>3
<1>5. g.magic = "fdt"
  BY <1>3 DEF Fields
<1> QED
  BY <1>2, <1>4, <1>5, Zenon

LEMMA EmptyTreeIsWhole ==
    ASSUME NEW b, fdt_create_empty_tree(b).ret = 0
    PROVE  fdt_create_empty_tree(b).fdt.magic = "fdt"
<1> DEFINE r1 == fdt_create(b)
           r2 == IF r1.ret # 0 THEN r1 ELSE fdt_add_reservemap_entry(r1.fdt)
           r3 == IF r2.ret # 0 THEN r2 ELSE fdt_begin_node(r2.fdt, "")
           r4 == IF r3.ret # 0 THEN r3 ELSE fdt_end_node(r3.fdt)
           r5 == IF r4.ret # 0 THEN r4 ELSE fdt_finish(r4.fdt)
           open == fdt_open_into(HeaderOf(r5.fdt), 0, r5.fdt.sizeStruct,
                                 b, r5.fdt.total)
<1>1. fdt_create_empty_tree(b)
        = IF r5.ret # 0 THEN r5
          ELSE [ret |-> open.ret, fdt |-> WithHeader(r5.fdt, open.hdr)]
  BY Zenon DEF fdt_create_empty_tree
<1>2. DOMAIN r1.fdt = Fields
  BY DEF fdt_create, Blank, No, Ok, Fields
<1>3. DOMAIN r2.fdt = Fields
  BY <1>2, Zenon DEF fdt_add_reservemap_entry, SwCall, No, Ok
<1>4. DOMAIN r3.fdt = Fields
  BY <1>3, GrabKeepsFields, Zenon DEF fdt_begin_node, SwCall, No
<1>5. DOMAIN r4.fdt = Fields
  BY <1>4, GrabKeepsFields, Zenon DEF fdt_end_node, SwCall, No
<1> HIDE DEF r4
<1>6. r5.ret = 0 /\ r4.ret = 0
  BY <1>1, Zenon
<1>7. r5.fdt.magic = "fdt" /\ DOMAIN r5.fdt = Fields
  BY <1>5, <1>6, FinishIsWhole, Zenon
<1> HIDE DEF r5, open
<1>8. WithHeader(r5.fdt, open.hdr).magic = "fdt"
  BY <1>7 DEF WithHeader, Fields
<1> DEFINE w == WithHeader(r5.fdt, open.hdr)
<1>9. fdt_create_empty_tree(b) = [ret |-> open.ret, fdt |-> w]
  BY <1>1, <1>6
<1> HIDE DEF w
<1>10. fdt_create_empty_tree(b).fdt = w
  BY <1>9
<1> QED
  BY <1>8, <1>10 DEF w

LEMMA SwStep ==
    SwInv /\ [Next]_vars /\ (ShortNames \/ StringsInBuffer') => SwInv'
<1> SUFFICES ASSUME SwInv, [Next]_vars, ShortNames \/ StringsInBuffer'
             PROVE  SwInv'
  OBVIOUS
<1>1. CASE \E b \in BufSizes : Create(b)
  BY <1>1, CreateStep
<1>2. CASE \E b \in BufSizes : CreateEmptyTree(b)
  <2>1. fdt'.magic = "fdt"
    BY <1>2, EmptyTreeIsWhole, Zenon DEF CreateEmptyTree
  <2> QED
    BY <2>1 DEF SwInv
<1>3. CASE AddReserveMapEntry
  BY <1>3, AddReserveMapEntryStep
<1>4. CASE \E name \in NodeNames : BeginNode(name)
  BY <1>4, BeginNodeStep
<1>5. CASE \E name \in PropNames, val \in Vals : Property(name, val)
  BY <1>5, PropertyStep
<1>6. CASE EndNode
  BY <1>6, EndNodeStep
<1>7. CASE Finish
  <2> DEFINE r == grab_space(fdt, FDT_TAGSIZE, <<Tag("END", "", 0, "")>>)
  <2>1. /\ fdt.magic = "sw" /\ path = <<>> /\ path' = path /\ nrsv' = nrsv
        /\ fdt' = fdt_finish(fdt).fdt
    BY <1>7, Zenon DEF Finish, Writing
  <2>2. CASE fdt_finish(fdt).ret = 0
    <3>1. fdt'.magic = "fdt"
      BY <2>1, <2>2, FinishIsWhole, Zenon DEF SwInv, Shape
    <3> QED
      BY <3>1 DEF SwInv
  <2>3. CASE fdt_finish(fdt).ret # 0
    <3>1. r.ret # 0 /\ fdt' = r.fdt
      BY <2>1, <2>3, Zenon DEF fdt_finish, SwCall, Ok
    <3>2. fdt' = fdt
      BY <3>1, Zenon DEF grab_space, No, Ok
    <3> QED
      BY <2>1, <3>2 DEF SwInv, Shape, Fits
  <2> QED
    BY <2>2, <2>3
<1>8. CASE UNCHANGED vars
  BY <1>8 DEF vars, SwInv, Shape, Fits
<1> QED
  BY <1>1, <1>2, <1>3, <1>4, <1>5, <1>6, <1>7, <1>8, Zenon DEF Next

LEMMA SwInvBlocks == SwInv => BlocksInBuffer
BY DEF SwInv, BlocksInBuffer, Fits

\* Whatever tree is written, into a buffer of any size and with whatever calls
\* failing for want of room, _fdt_grab_space and _fdt_find_add_string together
\* keep the structure block below the strings, when no property's name has 64
\* bytes or more.
THEOREM SwBlocksInBuffer ==
    ASSUME ShortNames PROVE Spec => []BlocksInBuffer
<1>1. SwInv /\ [Next]_vars => SwInv'
  BY SwStep
<1> QED
  BY SwInit, SwInvBlocks, <1>1, PTL DEF Spec

\* With names of any length, the two meet in no other way than by the wrap of
\* total + offset in _fdt_find_add_string: as long as the strings have not
\* become larger than the whole buffer, they are behind the structure block,
\* whatever else was called and failed.
THEOREM SwOnlyWrapOverruns == Spec => ([]StringsInBuffer => []BlocksInBuffer)
<1>1. SwInv /\ [Next]_vars /\ StringsInBuffer' => SwInv'
  BY SwStep
<1> QED
  BY SwInit, SwInvBlocks, <1>1, PTL DEF Spec

-----------------------------------------------------------------------------
(* Names: where the strings start, and how a string in front moves them.   *)

LEMMA PropNameLen == \A s \in PropNames : Len(s) \in Nat
BY SwAssumption, Zenon

LEMMA NamesLen ==
    ASSUME NEW strs \in Seq(PropNames)
    PROVE  Len(strs) \in Nat /\ \A i \in 1 .. Len(strs) : Len(strs[i]) \in Nat
<1>1. Len(strs) \in Nat /\ \A i \in 1 .. Len(strs) : strs[i] \in PropNames
  OBVIOUS
<1> QED
  BY <1>1, PropNameLen, Zenon

\* What Starts gives, for strings whose lengths are known.
LEMMA StartsDef ==
    ASSUME NEW strs \in Seq(PropNames)
    PROVE  /\ Starts(strs) \in [1 .. Len(strs) -> Nat]
           /\ Len(strs) > 0 => Starts(strs)[1] = 0
           /\ \A i \in 1 .. Len(strs) - 1 :
                 Starts(strs)[i + 1] = Starts(strs)[i] + Len(strs[i]) + 1
<1> DEFINE N == Len(strs)
           g == [i \in 1 .. N |-> Len(strs[i]) + 1]
           E(f) == f = [i \in 0 .. N |-> IF i = 0 THEN 0
                                         ELSE f[i - 1] + Len(strs[i]) + 1]
           end == CHOOSE f : E(f)
<1>1. N \in Nat /\ \A i \in 1 .. N : Len(strs[i]) \in Nat
  BY NamesLen
<1>2. g \in [1 .. N -> Int]
  BY <1>1
<1> HIDE DEF N
<1>3. PICK f \in [0 .. N -> Int] :
         f = [i \in 0 .. N |-> IF i = 0 THEN 0 ELSE f[i - 1] + g[i]]
  BY <1>1, <1>2, PartialSums
<1>4. E(f)
  <2> SUFFICES ASSUME NEW i \in 0 .. N
               PROVE  f[i] = IF i = 0 THEN 0 ELSE f[i - 1] + Len(strs[i]) + 1
    BY <1>3
  <2>1. CASE i = 0
    BY <1>3, <2>1
  <2>2. CASE i # 0
    <3>1. i \in 1 .. N /\ i - 1 \in 0 .. N
      BY <1>1, <2>2
    <3>2. f[i - 1] \in Int /\ g[i] = Len(strs[i]) + 1 /\ Len(strs[i]) \in Nat
      BY <1>1, <3>1
    <3>3. f[i] = f[i - 1] + g[i]
      BY <1>3, <2>2
    <3>4. PICK l \in Nat : Len(strs[i]) = l
      BY <3>2
    <3>5. f[i] = f[i - 1] + (l + 1)
      BY <3>2, <3>3, <3>4, Zenon
    <3>6. f[i - 1] + (l + 1) = f[i - 1] + l + 1
      BY <3>2
    <3>7. f[i] = f[i - 1] + Len(strs[i]) + 1
      BY <3>4, <3>5, <3>6, Zenon
    <3> QED
      BY <2>2, <3>7, Zenon
  <2> QED
    BY <2>1, <2>2
<1> HIDE DEF E
<1>5. E(end)
  BY <1>4, Zenon
<1>6. Starts(strs) = [i \in 1 .. N |-> end[i - 1]]
  BY Zenon DEF Starts, E, N
<1> HIDE DEF end
<1>7. end[0] = 0 /\ \A i \in 1 .. N : end[i] = end[i - 1] + Len(strs[i]) + 1
  BY <1>1, <1>5 DEF E
<1>8. \A i \in Nat : i \in {k \in Nat : k <= N => end[k] \in Nat}
  <2> DEFINE S == {k \in Nat : k <= N => end[k] \in Nat}
  <2>1. 0 \in S
    BY <1>7
  <2>2. ASSUME NEW n \in Nat, n \in S PROVE n + 1 \in S
    <3> SUFFICES ASSUME n + 1 <= N PROVE end[n + 1] \in Nat
      OBVIOUS
    <3>1. n + 1 \in 1 .. N /\ end[n] \in Nat
      BY <1>1, <2>2
    <3>2. end[n + 1] = end[n] + Len(strs[n + 1]) + 1
      BY <1>7, <3>1
    <3> QED
      BY <1>1, <3>1, <3>2
  <2> HIDE DEF S
  <2>3. \A i \in Nat : i \in S
    BY <2>1, <2>2, NatSetInduction
  <2> QED
    BY <2>3 DEF S
<1>9. \A i \in 1 .. N : Starts(strs)[i] = end[i - 1] /\ end[i - 1] \in Nat
  BY <1>1, <1>6, <1>8
<1>10. Starts(strs) \in [1 .. N -> Nat]
  BY <1>6, <1>9
<1>11. N > 0 => Starts(strs)[1] = 0
  BY <1>1, <1>7, <1>9
<1>12. \A i \in 1 .. N - 1 :
          Starts(strs)[i + 1] = Starts(strs)[i] + Len(strs[i]) + 1
  BY <1>1, <1>7, <1>9
<1> QED
  BY <1>10, <1>11, <1>12 DEF N

\* A string put in front of the others moves them up by its length and its NUL.
LEMMA StartsCons ==
    ASSUME NEW strs \in Seq(PropNames), NEW s \in PropNames
    PROVE  LET more == <<s>> \o strs
           IN  /\ more \in Seq(PropNames) /\ Len(more) = Len(strs) + 1
               /\ more[1] = s /\ Starts(more)[1] = 0
               /\ \A i \in 1 .. Len(strs) :
                     /\ more[i + 1] = strs[i]
                     /\ Starts(more)[i + 1] = Starts(strs)[i] + Len(s) + 1
<1> DEFINE more == <<s>> \o strs
<1>1. /\ more \in Seq(PropNames) /\ Len(more) = Len(strs) + 1
      /\ more[1] = s /\ \A i \in 1 .. Len(strs) : more[i + 1] = strs[i]
  OBVIOUS
<1> HIDE DEF more
<1>2. /\ Len(s) \in Nat /\ Len(strs) \in Nat
      /\ \A i \in 1 .. Len(strs) : Len(strs[i]) \in Nat
  BY PropNameLen, NamesLen
<1>3. /\ Starts(more) \in [1 .. Len(strs) + 1 -> Nat]
      /\ Starts(more)[1] = 0
      /\ \A i \in 1 .. Len(strs) :
            Starts(more)[i + 1] = Starts(more)[i] + Len(more[i]) + 1
  <2>1. /\ Starts(more) \in [1 .. Len(more) -> Nat]
        /\ Len(more) > 0 => Starts(more)[1] = 0
        /\ \A i \in 1 .. Len(more) - 1 :
              Starts(more)[i + 1] = Starts(more)[i] + Len(more[i]) + 1
    BY <1>1, StartsDef, Zenon
  <2>2. Len(more) = Len(strs) + 1 /\ Len(more) > 0
        /\ 1 .. Len(more) - 1 = 1 .. Len(strs)
    BY <1>1, <1>2
  <2> QED
    BY <2>1, <2>2, Zenon
<1>s. /\ Starts(strs) \in [1 .. Len(strs) -> Nat]
      /\ Len(strs) > 0 => Starts(strs)[1] = 0
      /\ \A i \in 1 .. Len(strs) - 1 :
            Starts(strs)[i + 1] = Starts(strs)[i] + Len(strs[i]) + 1
  BY StartsDef, Zenon
<1> DEFINE S == {i \in Nat : i \in 1 .. Len(strs) =>
                    Starts(more)[i + 1] = Starts(strs)[i] + Len(s) + 1}
<1>4. 0 \in S
  OBVIOUS
<1>5. ASSUME NEW n \in Nat, n \in S PROVE n + 1 \in S
  <2> SUFFICES ASSUME n + 1 \in 1 .. Len(strs)
               PROVE  Starts(more)[n + 1 + 1] = Starts(strs)[n + 1] + Len(s) + 1
    OBVIOUS
  <2>1. Starts(more)[n + 1 + 1] = Starts(more)[n + 1] + Len(more[n + 1]) + 1
    BY <1>3
  <2>2. CASE n = 0
    <3>1. Len(more[1]) = Len(s) /\ Starts(more)[1] = 0 /\ Starts(strs)[1] = 0
      BY <1>1, <1>2, <1>3, <1>s, <2>2
    <3> QED
      BY <1>2, <2>1, <2>2, <3>1
  <2>3. CASE n # 0
    <3>1. n \in 1 .. Len(strs) /\ n \in 1 .. Len(strs) - 1
      BY <2>3
    <3>2. Starts(more)[n + 1] = Starts(strs)[n] + Len(s) + 1
      BY <1>5, <3>1
    <3>3. Starts(strs)[n + 1] = Starts(strs)[n] + Len(strs[n]) + 1
      BY <3>1, StartsDef
    <3>4. more[n + 1] = strs[n] /\ Starts(strs)[n] \in Nat /\ Len(strs[n]) \in Nat
      BY <1>1, <1>2, <3>1, StartsDef
    <3> QED
      BY <1>2, <2>1, <3>2, <3>3, <3>4
  <2> QED
    BY <2>2, <2>3
<1> HIDE DEF S
<1>6. \A n \in Nat : n \in S
  BY <1>4, <1>5, NatSetInduction
<1>7. \A i \in 1 .. Len(strs) :
         Starts(more)[i + 1] = Starts(strs)[i] + Len(s) + 1
  BY <1>6 DEF S
<1> QED
  BY <1>1, <1>3, <1>7 DEF more

-----------------------------------------------------------------------------
(* The type of the buffer, and the names                                   *)

Tags == [tag : {"BEGIN", "END_NODE", "PROP", "END"},
         name : NodeNames \cup PropNames, nameoff : Int, val : Vals \cup {""}]

\* Where the string at i has its end that is s.
EndAt(strs, i, s) == Starts(strs)[i] + Len(strs[i]) - Len(s)

\* The name s is found at byte off of the strings.
Found(strs, s, off) ==
    \E i \in 1 .. Len(strs) : EndsIn(strs[i], s) /\ off = EndAt(strs, i, s)

\* What a property's offset counts from, in bytes above the first string.
Base(f) == IF f.magic = "sw" THEN f.sizeStrings ELSE 0

Numbers(f) ==
    /\ DOMAIN f = Fields
    /\ f.version \in Nat /\ f.offRsv \in Nat
    /\ f.offStruct \in Nat /\ f.sizeStruct \in Nat
    /\ f.offStrings \in Nat /\ f.sizeStrings \in Nat /\ f.total \in Nat
    /\ f.magic \in {"none", "sw", "fdt"}

\* The strings are within the block's size: a string's offset from the end of
\* the buffer is never 0, which would mean that there was no room.
Strings(strs, size) ==
    /\ strs \in Seq(PropNames)
    /\ \A i \in 1 .. Len(strs) : Starts(strs)[i] + Len(strs[i]) + 1 <= size

Named(tags, strs, base) ==
    /\ tags \in Seq(Tags)
    /\ \A k \in 1 .. Len(tags) : tags[k].tag = "PROP" =>
          /\ tags[k].name \in PropNames
          /\ Found(strs, tags[k].name, tags[k].nameoff + base)

\* The invariant, a property of the buffer alone.
Whole(f) ==
    /\ Numbers(f)
    /\ Strings(f.strs, f.sizeStrings)
    /\ Named(f.tags, f.strs, Base(f))

-----------------------------------------------------------------------------
LEMMA EndsInItself == ASSUME NEW s \in PropNames PROVE EndsIn(s, s)
<1>1. PICK n \in Nat : Len(s) = n
  BY PropNameLen, Zenon
<1>2. SubSeq(s, 1, Len(s)) = s
  BY SwAssumption, Zenon
<1>3. n - n + 1 = 1 /\ n <= n
  BY <1>1
<1>4. SubSeq(s, n - n + 1, n) = s
  BY <1>1, <1>2, <1>3, Zenon
<1> QED
  BY <1>1, <1>3, <1>4, Zenon DEF EndsIn

\* The offsets that Starts gives are natural, and so are those of ends.
LEMMA EndAtIsNat ==
    ASSUME NEW strs \in Seq(PropNames), NEW i \in 1 .. Len(strs),
           NEW s \in PropNames, EndsIn(strs[i], s)
    PROVE  /\ EndAt(strs, i, s) \in Nat
           /\ EndAt(strs, i, s) < Starts(strs)[i] + Len(strs[i]) + 1
<1>1. Starts(strs) \in [1 .. Len(strs) -> Nat]
  BY StartsDef, Zenon
<1>2. PICK n \in Nat : Len(s) = n
  BY PropNameLen, Zenon
<1>3. PICK m \in Nat : Len(strs[i]) = m
  BY NamesLen, Zenon
<1>4. Len(s) <= Len(strs[i])
  BY Zenon DEF EndsIn
<1>5. n <= m
  BY <1>2, <1>3, <1>4, Zenon
<1>6. PICK k \in Nat : Starts(strs)[i] = k
  BY <1>1
<1>7. EndAt(strs, i, s) = k + m - n
  BY <1>2, <1>3, <1>6, Zenon DEF EndAt
<1>8. Starts(strs)[i] + Len(strs[i]) + 1 = k + m + 1
  BY <1>3, <1>6, Zenon
<1>9. k + m - n \in Nat /\ k + m - n < k + m + 1
  BY <1>5
<1> QED
  BY <1>7, <1>8, <1>9, Zenon

\* _fdt_find_string finds the name when it is there.
LEMMA FindString ==
    ASSUME NEW strs \in Seq(PropNames), NEW s \in PropNames, IsThere(strs, s)
    PROVE  find_string(strs, s) \in Nat /\ Found(strs, s, find_string(strs, s))
<1> DEFINE at == {EndAt(strs, i, s) : i \in {k \in DOMAIN strs : EndsIn(strs[k], s)}}
           p == find_string(strs, s)
           Least(x) == x \in at /\ \A q \in at : x <= q
<1>1. DOMAIN strs = 1 .. Len(strs)
  OBVIOUS
<1>2. at \subseteq Nat
  BY <1>1, EndAtIsNat
<1>3. at # {}
  BY DEF IsThere
<1>4. p = CHOOSE x : Least(x)
  BY Zenon DEF find_string, EndAt
<1> HIDE DEF at, p
<1>5. \E x : Least(x)
  BY <1>2, <1>3, NatLeast
<1>6. Least(p)
  BY <1>4, <1>5, Zenon
<1>7. p \in at /\ p \in Nat
  BY <1>2, <1>6
<1>8. Found(strs, s, p)
  BY <1>1, <1>7, Zenon DEF at, Found
<1> QED
  BY <1>7, <1>8 DEF p

\* A string in front of the others: the names found stay found, that much
\* further up, and the string is found at the bottom.
LEMMA FoundCons ==
    ASSUME NEW strs \in Seq(PropNames), NEW s \in PropNames, NEW n \in Nat,
           Len(s) = n
    PROVE  /\ \A t \in PropNames, off \in Int :
                 Found(strs, t, off) => Found(<<s>> \o strs, t, off + n + 1)
           /\ Found(<<s>> \o strs, s, 0)
<1> DEFINE more == <<s>> \o strs
<1>1. /\ more \in Seq(PropNames) /\ Len(more) = Len(strs) + 1
      /\ more[1] = s /\ Starts(more)[1] = 0
      /\ \A i \in 1 .. Len(strs) :
            /\ more[i + 1] = strs[i]
            /\ Starts(more)[i + 1] = Starts(strs)[i] + Len(s) + 1
  BY StartsCons, Zenon
<1> HIDE DEF more
<1>2. Len(strs) \in Nat /\ Starts(strs) \in [1 .. Len(strs) -> Nat]
  BY StartsDef
<1>3. ASSUME NEW t \in PropNames, NEW off \in Int, Found(strs, t, off)
      PROVE  Found(more, t, off + n + 1)
  <2>1. PICK i \in 1 .. Len(strs) : EndsIn(strs[i], t) /\ off = EndAt(strs, i, t)
    BY <1>3, Zenon DEF Found
  <2>2. i + 1 \in 1 .. Len(more)
    BY <1>1, <1>2
  <2>3. EndsIn(more[i + 1], t)
    BY <1>1, <2>1, Zenon
  <2>4. PICK k \in Nat : Len(t) = k
    BY PropNameLen, Zenon
  <2>5. PICK m \in Nat : Len(strs[i]) = m
    BY NamesLen, Zenon
  <2>6. PICK b \in Nat : Starts(strs)[i] = b
    BY <1>2
  <2>7. Starts(more)[i + 1] = b + n + 1 /\ Len(more[i + 1]) = m
    BY <1>1, <2>5, <2>6, Zenon
  <2>8. EndAt(more, i + 1, t) = (b + n + 1) + m - k /\ off = b + m - k
    BY <2>1, <2>4, <2>5, <2>6, <2>7, Zenon DEF EndAt
  <2>9. off + n + 1 = EndAt(more, i + 1, t)
    BY <2>8
  <2> QED
    BY <2>2, <2>3, <2>9, Zenon DEF Found
<1>4. Found(more, s, 0)
  <2>1. 1 \in 1 .. Len(more) /\ EndsIn(more[1], s)
    BY <1>1, <1>2, EndsInItself
  <2>2. EndAt(more, 1, s) = 0 + n - n
    BY <1>1, Zenon DEF EndAt
  <2>3. 0 = EndAt(more, 1, s)
    BY <2>2
  <2> QED
    BY <2>1, <2>3, Zenon DEF Found
<1> QED
  BY <1>3, <1>4 DEF more

LEMMA StringsCons ==
    ASSUME NEW strs, NEW size \in Nat, Strings(strs, size),
           NEW s \in PropNames, NEW n \in Nat, Len(s) = n
    PROVE  Strings(<<s>> \o strs, size + n + 1)
<1> DEFINE more == <<s>> \o strs
<1>1. strs \in Seq(PropNames)
  BY DEF Strings
<1>2. /\ more \in Seq(PropNames) /\ Len(more) = Len(strs) + 1
      /\ more[1] = s /\ Starts(more)[1] = 0
      /\ \A i \in 1 .. Len(strs) :
            /\ more[i + 1] = strs[i]
            /\ Starts(more)[i + 1] = Starts(strs)[i] + Len(s) + 1
  BY <1>1, StartsCons, Zenon
<1> HIDE DEF more
<1>3. Len(strs) \in Nat /\ Starts(strs) \in [1 .. Len(strs) -> Nat]
  BY <1>1, StartsDef
<1>4. ASSUME NEW i \in 1 .. Len(more)
      PROVE  Starts(more)[i] + Len(more[i]) + 1 <= size + n + 1
  <2>1. CASE i = 1
    <3>1. Starts(more)[i] + Len(more[i]) + 1 = 0 + n + 1
      BY <1>2, <2>1, Zenon
    <3> QED
      BY <3>1
  <2>2. CASE i # 1
    <3>1. PICK j \in 1 .. Len(strs) : i = j + 1
      <4>1. i - 1 \in 1 .. Len(strs) /\ i = (i - 1) + 1
        BY <1>2, <1>3, <2>2
      <4> QED
        BY <4>1, Zenon
    <3>2. PICK b \in Nat : Starts(strs)[j] = b
      BY <1>3
    <3>3. PICK m \in Nat : Len(strs[j]) = m
      BY <1>1, NamesLen, Zenon
    <3>4. b + m + 1 <= size
      BY <3>2, <3>3, Zenon DEF Strings
    <3>5. Starts(more)[i] = b + n + 1 /\ Len(more[i]) = m
      BY <1>2, <3>1, <3>2, <3>3, Zenon
    <3>6. Starts(more)[i] + Len(more[i]) + 1 = (b + n + 1) + m + 1
      BY <3>5, Zenon
    <3> QED
      BY <3>4, <3>6
  <2> QED
    BY <2>1, <2>2
<1> QED
  BY <1>2, <1>4 DEF Strings, more
-----------------------------------------------------------------------------
(* What each function leaves in the buffer.                                *)

\* A tag that has no name, or finds the one it has.
Resolved(f, t) ==
    t.tag = "PROP" => /\ t.name \in PropNames
                      /\ Found(f.strs, t.name, t.nameoff + Base(f))

LEMMA TagFields ==
    \A tag \in {"BEGIN", "END_NODE", "PROP", "END"},
       name \in NodeNames \cup PropNames, off \in Int, val \in Vals \cup {""} :
          /\ Tag(tag, name, off, val) \in Tags
          /\ Tag(tag, name, off, val).tag = tag
          /\ Tag(tag, name, off, val).name = name
          /\ Tag(tag, name, off, val).nameoff = off
<1> SUFFICES ASSUME NEW tag \in {"BEGIN", "END_NODE", "PROP", "END"},
                    NEW name \in NodeNames \cup PropNames, NEW off \in Int,
                    NEW val \in Vals \cup {""}
             PROVE  /\ Tag(tag, name, off, val) \in Tags
                    /\ Tag(tag, name, off, val).tag = tag
                    /\ Tag(tag, name, off, val).name = name
                    /\ Tag(tag, name, off, val).nameoff = off
  BY Zenon
<1>1. Tag(tag, name, off, val) \in Tags
  BY Zenon DEF Tag, Tags
<1> QED
  BY <1>1 DEF Tag

LEMMA EmptyName == "" \in NodeNames \cup PropNames /\ "" \in Vals \cup {""}
<1>1. "" \in NodeNames
  BY SwAssumption, Zenon
<1> QED
  BY <1>1, Zenon

LEMMA EmptyTag ==
    ASSUME NEW kind \in {"BEGIN", "END_NODE", "PROP", "END"}
    PROVE  Tag(kind, "", 0, "") \in Tags /\ Tag(kind, "", 0, "").tag = kind
<1>1. 0 \in Int
  OBVIOUS
<1> QED
  BY <1>1, EmptyName, Zenon DEF Tag, Tags

\* A tag whose name has moved.
LEMMA MovedTag ==
    ASSUME NEW u \in Tags, NEW n \in Int
    PROVE  LET v == [u EXCEPT !.nameoff = @ + n]
           IN  /\ v \in Tags /\ v.tag = u.tag /\ v.name = u.name
               /\ v.nameoff = u.nameoff + n
<1>1. PICK m \in Int : m = u.nameoff + n
  <2>1. u.nameoff \in Int
    BY DEF Tags
  <2> QED
    BY <2>1
<1>2. [u EXCEPT !.nameoff = m] \in Tags
  BY DEF Tags
<1>3. /\ [u EXCEPT !.nameoff = m].tag = u.tag
      /\ [u EXCEPT !.nameoff = m].name = u.name
      /\ [u EXCEPT !.nameoff = m].nameoff = m
  BY DEF Tags
<1> QED
  BY <1>1, <1>2, <1>3, Zenon

LEMMA Result == ASSUME NEW f PROVE \A err : No(f, err).fdt = f /\ Ok(f).fdt = f
BY DEF No, Ok

LEMMA GrabSpaceWhole ==
    ASSUME NEW f, Whole(f), f.magic = "sw", NEW len \in Nat,
           NEW t \in Tags, Resolved(f, t)
    PROVE  LET r == grab_space(f, len, <<t>>)
           IN  Whole(r.fdt) /\ r.fdt.magic = "sw"
<1> DEFINE g == [f EXCEPT !.sizeStruct = @ + len, !.tags = @ \o <<t>>]
           r == grab_space(f, len, <<t>>)
<1>1. /\ DOMAIN g = Fields /\ g.magic = "sw" /\ g.sizeStruct = f.sizeStruct + len
      /\ g.tags = f.tags \o <<t>> /\ g.strs = f.strs
  BY DEF Whole, Numbers, Fields
<1>2. /\ g.version = f.version /\ g.offRsv = f.offRsv /\ g.total = f.total
      /\ g.offStruct = f.offStruct /\ g.offStrings = f.offStrings
      /\ g.sizeStrings = f.sizeStrings
  BY DEF Whole, Numbers, Fields
<1>3. r.fdt = f \/ r.fdt = g
  BY Zenon DEF grab_space, Ok, No
<1> HIDE DEF g, r
<1>4. Numbers(g) /\ Strings(g.strs, g.sizeStrings) /\ Base(g) = Base(f)
  BY <1>1, <1>2 DEF Whole, Numbers, Base
<1>5. Named(g.tags, f.strs, Base(f))
  <2>1. f.tags \in Seq(Tags) /\ <<t>> \in Seq(Tags)
    BY DEF Whole, Named
  <2>2. /\ g.tags \in Seq(Tags) /\ Len(g.tags) = Len(f.tags) + 1
        /\ g.tags[Len(f.tags) + 1] = t
        /\ \A k \in 1 .. Len(f.tags) : g.tags[k] = f.tags[k]
    BY <1>1, <2>1
  <2>3. ASSUME NEW k \in 1 .. Len(g.tags), g.tags[k].tag = "PROP"
        PROVE  /\ g.tags[k].name \in PropNames
               /\ Found(f.strs, g.tags[k].name, g.tags[k].nameoff + Base(f))
    <3>1. k \in 1 .. Len(f.tags) \/ k = Len(f.tags) + 1
      BY <2>1, <2>2
    <3>2. CASE k \in 1 .. Len(f.tags)
      BY <2>2, <2>3, <3>2, Zenon DEF Whole, Named
    <3>3. CASE k = Len(f.tags) + 1
      BY <2>2, <2>3, <3>3, Zenon DEF Resolved
    <3> QED
      BY <3>1, <3>2, <3>3
  <2> QED
    BY <2>2, <2>3, Zenon DEF Named
<1>6. Whole(g)
  BY <1>1, <1>4, <1>5, Zenon DEF Whole
<1> QED
  BY <1>1, <1>3, <1>6, Zenon DEF r

\* The name is found where the offset says, whether it was there or is new.
LEMMA FindAddStringWhole ==
    ASSUME NEW f, Whole(f), f.magic = "sw", NEW s \in PropNames
    PROVE  LET r == find_add_string(f, s)
           IN  /\ Whole(r.fdt) /\ r.fdt.magic = "sw" /\ r.ret \in Int
               /\ r.ret # 0 => Found(r.fdt.strs, s, r.ret + Base(r.fdt))
<1> DEFINE r == find_add_string(f, s)
<1>1. PICK n \in Nat : Len(s) = n
  BY PropNameLen, Zenon
<1> DEFINE bottom == f.total - f.sizeStrings - (n + 1)
           full == 0 <= bottom /\ bottom < f.offStruct + f.sizeStruct
           g == [f EXCEPT !.sizeStrings = @ + n + 1, !.strs = <<s>> \o @]
<1>2. /\ f.sizeStrings \in Nat /\ f.strs \in Seq(PropNames)
      /\ Strings(f.strs, f.sizeStrings) /\ Named(f.tags, f.strs, f.sizeStrings)
  BY DEF Whole, Numbers, Strings, Base
<1> HIDE DEF bottom, r, g
<1>3. CASE IsThere(f.strs, s)
  <2>1. r = [ret |-> find_string(f.strs, s) - f.sizeStrings, fdt |-> f]
    BY <1>1, <1>3, Zenon DEF find_add_string, r
  <2>2. /\ find_string(f.strs, s) \in Nat
        /\ Found(f.strs, s, find_string(f.strs, s))
    BY <1>2, <1>3, FindString, Zenon
  <2>3. /\ find_string(f.strs, s) - f.sizeStrings \in Int
        /\ (find_string(f.strs, s) - f.sizeStrings) + f.sizeStrings
              = find_string(f.strs, s)
    BY <1>2, <2>2
  <2>4. Base(f) = f.sizeStrings
    BY DEF Base
  <2>5. /\ r.fdt = f /\ r.ret \in Int
        /\ r.ret + f.sizeStrings = find_string(f.strs, s)
    BY <2>1, <2>3
  <2> QED
    BY <2>2, <2>4, <2>5, Zenon DEF r
<1>4. CASE ~IsThere(f.strs, s) /\ full
  <2>1. r = Ok(f)
    BY <1>1, <1>4, Zenon DEF find_add_string, r, bottom
  <2>2. r.ret = 0 /\ r.fdt = f /\ r.ret \in Int
    BY <2>1 DEF Ok
  <2> QED
    BY <2>2, Zenon DEF r
<1>5. CASE ~IsThere(f.strs, s) /\ ~full
  <2>1. r.ret = -(f.sizeStrings + n + 1) /\ r.fdt = g
    BY <1>1, <1>5, Zenon DEF find_add_string, r, g, bottom
  <2>2. /\ DOMAIN g = Fields /\ g.magic = "sw" /\ g.tags = f.tags
        /\ g.strs = <<s>> \o f.strs /\ g.sizeStrings = f.sizeStrings + n + 1
    BY DEF Whole, Numbers, Fields, g
  <2>3. /\ g.version = f.version /\ g.offRsv = f.offRsv /\ g.total = f.total
        /\ g.offStruct = f.offStruct /\ g.offStrings = f.offStrings
        /\ g.sizeStruct = f.sizeStruct
    BY DEF Whole, Numbers, Fields, g
  <2>4. Numbers(g)
    BY <1>2, <2>2, <2>3 DEF Whole, Numbers
  <2>5. Strings(g.strs, g.sizeStrings)
    BY <1>1, <1>2, <2>2, StringsCons, Zenon
  <2>6. Base(g) = f.sizeStrings + n + 1
    BY <2>2 DEF Base
  <2>7. ASSUME NEW k \in 1 .. Len(f.tags), f.tags[k].tag = "PROP"
        PROVE  /\ f.tags[k].name \in PropNames
               /\ Found(g.strs, f.tags[k].name, f.tags[k].nameoff + Base(g))
    <3> DEFINE off == f.tags[k].nameoff
    <3>1. off \in Int
      <4>1. f.tags \in Seq(Tags)
        BY <1>2, Zenon DEF Named
      <4>2. f.tags[k] \in Tags
        BY <4>1
      <4> QED
        BY <4>2 DEF Tags
    <3>2. /\ f.tags[k].name \in PropNames
          /\ Found(f.strs, f.tags[k].name, off + f.sizeStrings)
      BY <1>2, <2>7, Zenon DEF Named
    <3> HIDE DEF off
    <3>3. /\ off + f.sizeStrings \in Int
          /\ (off + f.sizeStrings) + n + 1 = off + (f.sizeStrings + n + 1)
      BY <1>2, <3>1
    <3>4. Found(g.strs, f.tags[k].name, (off + f.sizeStrings) + n + 1)
      BY <1>1, <1>2, <2>2, <3>2, <3>3, FoundCons, Zenon
    <3> QED
      BY <2>6, <3>2, <3>3, <3>4, Zenon DEF off
  <2>8. Named(g.tags, g.strs, Base(g))
    BY <1>2, <2>2, <2>7, Zenon DEF Named
  <2>9. Whole(g)
    BY <2>4, <2>5, <2>8, Zenon DEF Whole
  <2>10. r.ret \in Int /\ r.ret + Base(g) = 0
    BY <1>2, <2>1, <2>6
  <2>11. Found(g.strs, s, 0)
    BY <1>1, <1>2, <2>2, FoundCons, Zenon
  <2> QED
    BY <2>1, <2>2, <2>9, <2>10, <2>11, Zenon DEF r
<1> QED
  BY <1>3, <1>4, <1>5, Zenon

LEMMA CreateWhole ==
    ASSUME NEW b \in Nat
    PROVE  Whole(fdt_create(b).fdt)
<1> DEFINE g == [Blank EXCEPT !.magic = "sw", !.version = 17, !.total = b,
                              !.offRsv = SW_RSV_START,
                              !.offStruct = SW_RSV_START, !.offStrings = b]
           f == fdt_create(b).fdt
<1>1. f = Blank \/ f = g
  BY Zenon DEF fdt_create, No, Ok
<1>2. Numbers(Blank) /\ Numbers(g)
  BY SwRsvStart DEF Numbers, Fields, Blank
<1>3. /\ Blank.tags = <<>> /\ Blank.strs = <<>> /\ Blank.sizeStrings = 0
      /\ g.tags = <<>> /\ g.strs = <<>> /\ g.sizeStrings = 0
  BY DEF Blank
<1> HIDE DEF f, g
<1>4. Strings(<<>>, 0) /\ \A base : Named(<<>>, <<>>, base)
  BY DEF Strings, Named
<1> QED
  BY <1>1, <1>2, <1>3, <1>4, Zenon DEF Whole, f

\* The strings and the tags of g are those of f.
LEMMA SameContents ==
    ASSUME NEW f, NEW g, Whole(f), Numbers(g), g.magic = f.magic,
           g.tags = f.tags, g.strs = f.strs, g.sizeStrings = f.sizeStrings
    PROVE  Whole(g)
<1>1. Base(g) = Base(f)
  BY Zenon DEF Base
<1> QED
  BY <1>1, Zenon DEF Whole

LEMMA AddReserveMapEntryWhole ==
    ASSUME NEW f, Whole(f)
    PROVE  LET r == fdt_add_reservemap_entry(f)
           IN  Whole(r.fdt) /\ r.fdt.magic = f.magic
<1> DEFINE g == [f EXCEPT !.offStruct = @ + RSV_ENTRY]
           r == fdt_add_reservemap_entry(f)
<1>1. r.fdt = f \/ r.fdt = g
  <2>1. f.sizeStruct \in Nat
    BY DEF Whole, Numbers
  <2>2. f.sizeStruct > 0 \/ f.sizeStruct = 0
    BY <2>1
  <2> QED
    BY <2>2, Zenon DEF fdt_add_reservemap_entry, SwCall, No, Ok
<1>2. Numbers(g) /\ g.magic = f.magic /\ g.tags = f.tags /\ g.strs = f.strs
      /\ g.sizeStrings = f.sizeStrings
  BY DEF Whole, Numbers, Fields, RSV_ENTRY
<1> HIDE DEF g, r
<1>3. Whole(g)
  BY <1>2, SameContents, Zenon
<1> QED
  BY <1>1, <1>2, <1>3, Zenon DEF r

\* Calls are refused on a buffer that is not being written.
LEMMA Refused ==
    ASSUME NEW f, f.magic # "sw", NEW r
    PROVE  SwCall(f, r).ret # 0 /\ SwCall(f, r).fdt = f
<1>1. SwCall(f, r) = No(f, FDT_ERR_BADMAGIC)
  BY Zenon DEF SwCall
<1> QED
  BY <1>1 DEF No, FDT_ERR_BADMAGIC

LEMMA BeginNodeWhole ==
    ASSUME NEW f, Whole(f), NEW name \in NodeNames
    PROVE  LET r == fdt_begin_node(f, name)
           IN  Whole(r.fdt) /\ r.fdt.magic = f.magic
<1> DEFINE len == FDT_TAGSIZE + FDT_TAGALIGN(Len(name) + 1)
           t == Tag("BEGIN", name, 0, "")
<1>1. CASE f.magic # "sw"
  BY <1>1, Refused, Zenon DEF fdt_begin_node
<1>2. CASE f.magic = "sw"
  <2>1. PICK l \in Nat : Len(name) = l
    BY SwAssumption, Zenon
  <2>2. FDT_TAGALIGN(l + 1) \in Nat
    BY TagAlign
  <2>3. len \in Nat
    <3> HIDE DEF len
    <3> QED
      BY <2>1, <2>2 DEF FDT_TAGSIZE, len
  <2>4. t \in Tags /\ Resolved(f, t)
    BY DEF Tag, Tags, Resolved
  <2>5. fdt_begin_node(f, name) = grab_space(f, len, <<t>>)
    BY <1>2, Zenon DEF fdt_begin_node, SwCall
  <2> HIDE DEF len, t
  <2> QED
    BY <1>2, <2>3, <2>4, <2>5, GrabSpaceWhole, Zenon
<1> QED
  BY <1>1, <1>2

LEMMA EndNodeWhole ==
    ASSUME NEW f, Whole(f)
    PROVE  LET r == fdt_end_node(f)
           IN  Whole(r.fdt) /\ r.fdt.magic = f.magic
<1> DEFINE t == Tag("END_NODE", "", 0, "")
<1>1. CASE f.magic # "sw"
  BY <1>1, Refused, Zenon DEF fdt_end_node
<1>2. CASE f.magic = "sw"
  <2>1. t \in Tags /\ Resolved(f, t)
    <3>1. t \in Tags /\ t.tag = "END_NODE"
      BY EmptyTag
    <3> QED
      BY <3>1 DEF Resolved
  <2>2. FDT_TAGSIZE \in Nat
    BY DEF FDT_TAGSIZE
  <2>3. fdt_end_node(f) = grab_space(f, FDT_TAGSIZE, <<t>>)
    BY <1>2, Zenon DEF fdt_end_node, SwCall
  <2> HIDE DEF t
  <2> QED
    BY <1>2, <2>1, <2>2, <2>3, GrabSpaceWhole, Zenon
<1> QED
  BY <1>1, <1>2

LEMMA PropertyWhole ==
    ASSUME NEW f, Whole(f), NEW name \in PropNames, NEW val \in Vals
    PROVE  LET r == fdt_property(f, name, val)
           IN  Whole(r.fdt) /\ r.fdt.magic = f.magic
<1> DEFINE a == find_add_string(f, name)
           len == 12 + FDT_TAGALIGN(Len(val) + 1)
           t == Tag("PROP", name, a.ret, val)
<1>1. CASE f.magic # "sw"
  BY <1>1, Refused, Zenon DEF fdt_property
<1>2. CASE f.magic = "sw"
  <2>1. /\ Whole(a.fdt) /\ a.fdt.magic = "sw" /\ a.ret \in Int
        /\ a.ret # 0 => Found(a.fdt.strs, name, a.ret + Base(a.fdt))
    BY <1>2, FindAddStringWhole, Zenon
  <2>2. fdt_property(f, name, val)
          = IF a.ret = 0 THEN No(f, FDT_ERR_NOSPACE)
            ELSE grab_space(a.fdt, len, <<t>>)
    BY <1>2, Zenon DEF fdt_property, SwCall
  <2>3. PICK l \in Nat : Len(val) = l
    BY SwAssumption, Zenon
  <2>4. FDT_TAGALIGN(l + 1) \in Nat
    BY TagAlign
  <2>5. len \in Nat
    <3> HIDE DEF len
    <3> QED
      BY <2>3, <2>4 DEF len
  <2> HIDE DEF a, len
  <2>6. CASE a.ret = 0
    <3>1. fdt_property(f, name, val).fdt = f
      BY <2>2, <2>6, Result, Zenon
    <3> QED
      BY <3>1, Zenon
  <2>7. CASE a.ret # 0
    <3>1. t \in Tags
      BY <2>1 DEF Tag, Tags
    <3>2. t.tag = "PROP" /\ t.name = name /\ t.nameoff = a.ret
      BY DEF Tag
    <3> HIDE DEF t
    <3>3. Resolved(a.fdt, t)
      BY <2>1, <2>7, <3>2, Zenon DEF Resolved
    <3> QED
      BY <1>2, <2>1, <2>2, <2>5, <2>7, <3>1, <3>3, GrabSpaceWhole, Zenon
  <2> QED
    BY <2>6, <2>7
<1> QED
  BY <1>1, <1>2

\* Relocating the names leaves each of them where it was found, counted now
\* from the first string.
LEMMA RelocatedNamed ==
    ASSUME NEW f, Whole(f), f.magic = "sw"
    PROVE  Named(Relocated(f), f.strs, 0)
<1> DEFINE tags == Relocated(f)
<1>1. f.tags \in Seq(Tags) /\ f.sizeStrings \in Nat
  BY DEF Whole, Named, Numbers
<1>2. DOMAIN f.tags = 1 .. Len(f.tags) /\ Len(f.tags) \in Nat
  BY <1>1
<1>3. ASSUME NEW k \in 1 .. Len(f.tags)
      PROVE  /\ tags[k] \in Tags /\ tags[k].tag = f.tags[k].tag
             /\ tags[k].name = f.tags[k].name
             /\ tags[k].tag = "PROP" =>
                   tags[k].nameoff = f.tags[k].nameoff + f.sizeStrings
  <2>1. f.tags[k] \in Tags
    BY <1>1
  <2>2. tags[k] = IF f.tags[k].tag = "PROP"
                  THEN [f.tags[k] EXCEPT !.nameoff = @ + f.sizeStrings]
                  ELSE f.tags[k]
    BY <1>2, Zenon DEF Relocated
  <2>3. CASE f.tags[k].tag = "PROP"
    <3>1. tags[k] = [f.tags[k] EXCEPT !.nameoff = @ + f.sizeStrings]
      BY <2>2, <2>3, Zenon
    <3>2. f.sizeStrings \in Int
      BY <1>1
    <3>3. LET v == [f.tags[k] EXCEPT !.nameoff = @ + f.sizeStrings]
          IN  /\ v \in Tags /\ v.tag = f.tags[k].tag /\ v.name = f.tags[k].name
              /\ v.nameoff = f.tags[k].nameoff + f.sizeStrings
      BY <2>1, <3>2, MovedTag
    <3> HIDE DEF tags
    <3> QED
      BY <3>1, <3>3, Zenon
  <2>4. CASE f.tags[k].tag # "PROP"
    BY <2>1, <2>2, <2>4, Zenon
  <2> QED
    BY <2>3, <2>4
<1>4. tags = [k \in 1 .. Len(f.tags) |-> tags[k]]
  BY <1>2 DEF Relocated
<1> HIDE DEF tags
<1>5. tags \in Seq(Tags) /\ Len(tags) = Len(f.tags)
  <2>1. \A k \in 1 .. Len(f.tags) : tags[k] \in Tags
    BY <1>3
  <2>2. tags \in [1 .. Len(f.tags) -> Tags]
    BY <1>4, <2>1, Zenon
  <2> QED
    BY <1>2, <2>2
<1>6. ASSUME NEW k \in 1 .. Len(tags), tags[k].tag = "PROP"
      PROVE  /\ tags[k].name \in PropNames
             /\ Found(f.strs, tags[k].name, tags[k].nameoff + 0)
  <2>1. /\ f.tags[k].name \in PropNames
        /\ Found(f.strs, f.tags[k].name, f.tags[k].nameoff + Base(f))
    BY <1>3, <1>5, <1>6, Zenon DEF Whole, Named
  <2>2. Base(f) = f.sizeStrings
    BY DEF Base
  <2>3. /\ tags[k].nameoff = f.tags[k].nameoff + f.sizeStrings
        /\ tags[k].nameoff \in Int /\ tags[k].name = f.tags[k].name
    <3>1. tags[k] \in Tags
      BY <1>3, <1>5
    <3>2. tags[k].nameoff \in Int
      BY <3>1 DEF Tags
    <3> QED
      BY <1>3, <1>5, <1>6, <3>2
  <2>4. tags[k].nameoff + 0 = f.tags[k].nameoff + Base(f)
    BY <2>2, <2>3
  <2> QED
    BY <2>1, <2>3, <2>4, Zenon
<1> QED
  BY <1>5, <1>6, Zenon DEF Named, tags

LEMMA FinishWhole ==
    ASSUME NEW f, Whole(f)
    PROVE  LET r == fdt_finish(f)
           IN  /\ Whole(r.fdt)
               /\ r.ret = 0 => r.fdt.magic = "fdt"
<1> DEFINE t == Tag("END", "", 0, "")
           r == grab_space(f, FDT_TAGSIZE, <<t>>)
           g == [r.fdt EXCEPT
                    !.offStrings = r.fdt.offStruct + r.fdt.sizeStruct,
                    !.tags  = Relocated(r.fdt),
                    !.total = r.fdt.offStruct + r.fdt.sizeStruct
                                + r.fdt.sizeStrings,
                    !.magic = "fdt"]
<1>1. CASE f.magic # "sw"
  BY <1>1, Refused, Zenon DEF fdt_finish
<1>2. CASE f.magic = "sw"
  <2>1. Whole(r.fdt) /\ r.fdt.magic = "sw"
    <3>1. t \in Tags /\ Resolved(f, t)
      <4>1. t \in Tags /\ t.tag = "END"
        BY EmptyTag
      <4> QED
        BY <4>1 DEF Resolved
    <3>2. FDT_TAGSIZE \in Nat
      BY DEF FDT_TAGSIZE
    <3> HIDE DEF t
    <3> QED
      BY <1>2, <3>1, <3>2, GrabSpaceWhole, Zenon
  <2>2. fdt_finish(f) = IF r.ret # 0 THEN r ELSE Ok(g)
    BY <1>2, Zenon DEF fdt_finish, SwCall
  <2> HIDE DEF r
  <2>3. /\ Numbers(g) /\ g.magic = "fdt" /\ g.tags = Relocated(r.fdt)
        /\ g.strs = r.fdt.strs /\ g.sizeStrings = r.fdt.sizeStrings
    BY <2>1 DEF Whole, Numbers, Fields
  <2> HIDE DEF g
  <2>4. Named(g.tags, g.strs, 0)
    BY <2>1, <2>3, RelocatedNamed, Zenon
  <2>5. Base(g) = 0
    BY <2>3 DEF Base
  <2>6. Whole(g)
    BY <2>1, <2>3, <2>4, <2>5, Zenon DEF Whole
  <2>7. CASE r.ret # 0
    BY <2>1, <2>2, <2>7, Zenon
  <2>8. CASE r.ret = 0
    <3>1. fdt_finish(f).fdt = g
      BY <2>2, <2>8, Result, Zenon
    <3> QED
      BY <2>3, <2>6, <3>1, Zenon
  <2> QED
    BY <2>7, <2>8
<1> QED
  BY <1>1, <1>2

\* fdt_open_into of a finished tree: a natural header again, same contents.
LEMMA HeaderOfNumbers ==
    ASSUME NEW f
    PROVE  HeaderOf(f) \in Header <=>
              /\ f.version \in Nat /\ f.offRsv \in Nat
              /\ f.offStruct \in Nat /\ f.sizeStruct \in Nat
              /\ f.offStrings \in Nat /\ f.sizeStrings \in Nat /\ f.total \in Nat
BY DEF HeaderOf, Header

LEMMA OpenIntoHeader ==
    ASSUME NEW h \in Header, NEW bufsize \in Nat, NEW gap \in Int
    PROVE  LET g == fdt_open_into(h, 0, h.sizeStruct, bufsize, gap).hdr
           IN  g \in Header /\ g.sizeStrings = h.sizeStrings
<1> DEFINE r == fdt_open_into(h, 0, h.sizeStruct, bufsize, gap)
           R == rsv_size(0)
           kept == [h EXCEPT !.sizeStruct = h.sizeStruct]
           packed == fdt_packblocks(h, R, h.sizeStruct)
<1>1. /\ h.sizeStruct \in Nat /\ R \in Nat
      /\ RSV_START \in Nat
  BY DEF Header, rsv_size, RSV_ENTRY, RSV_START
<1>2. kept \in Header /\ kept.sizeStrings = h.sizeStrings
  BY <1>1 DEF Header
<1> HIDE DEF R
<1>3. packed \in Header /\ packed.sizeStrings = h.sizeStrings
  <2>1. RSV_START + R \in Nat /\ RSV_START + R + h.sizeStruct \in Nat
    BY <1>1
  <2> QED
    BY <1>1, <2>1 DEF fdt_packblocks, Header
<1>4. \A g \in Header : /\ Opened(g, bufsize) \in Header
                        /\ Opened(g, bufsize).sizeStrings = g.sizeStrings
  BY DEF Opened, Header
<1>5. \/ r.hdr = h \/ r.hdr = Opened(kept, bufsize)
      \/ r.hdr = Opened(packed, bufsize)
  <2>1. (IF h.version >= 17 THEN h.sizeStruct ELSE h.sizeStruct) = h.sizeStruct
    OBVIOUS
  <2> HIDE DEF kept, packed
  <2> QED
    BY <2>1 DEF fdt_open_into, Done, Fail, R, kept, packed
<1> HIDE DEF kept, packed, r
<1> QED
  BY <1>2, <1>3, <1>4, <1>5, Zenon DEF r

LEMMA OpenWhole ==
    ASSUME NEW f, Whole(f), NEW bufsize \in Nat
    PROVE  LET r == fdt_open_into(HeaderOf(f), 0, f.sizeStruct, bufsize, f.total)
           IN  /\ Whole(WithHeader(f, r.hdr))
               /\ WithHeader(f, r.hdr).magic = f.magic
<1> DEFINE g == fdt_open_into(HeaderOf(f), 0, f.sizeStruct, bufsize, f.total).hdr
           w == WithHeader(f, g)
<1>1. HeaderOf(f) \in Header /\ f.total \in Int
  BY HeaderOfNumbers DEF Whole, Numbers
<1>2. HeaderOf(f).sizeStruct = f.sizeStruct
      /\ HeaderOf(f).sizeStrings = f.sizeStrings
  BY DEF HeaderOf
<1>3. g \in Header /\ g.sizeStrings = f.sizeStrings
  <2>1. PICK h \in Header : h = HeaderOf(f)
    BY <1>1, Zenon
  <2>2. h.sizeStruct = f.sizeStruct /\ h.sizeStrings = f.sizeStrings
    BY <1>2, <2>1, Zenon
  <2>3. g = fdt_open_into(h, 0, h.sizeStruct, bufsize, f.total).hdr
    BY <2>1, <2>2, Zenon
  <2> HIDE DEF g
  <2> QED
    BY <1>1, <2>2, <2>3, OpenIntoHeader, Zenon
<1> HIDE DEF g
<1>4. /\ DOMAIN w = Fields /\ w.magic = f.magic
      /\ w.tags = f.tags /\ w.strs = f.strs
      /\ w.version = g.version /\ w.offRsv = g.offRsv
      /\ w.offStruct = g.offStruct /\ w.sizeStruct = g.sizeStruct
      /\ w.offStrings = g.offStrings /\ w.sizeStrings = g.sizeStrings
      /\ w.total = g.total
  BY DEF WithHeader, Whole, Numbers, Fields
<1> HIDE DEF w
<1>5. Numbers(w)
  BY <1>3, <1>4 DEF Whole, Numbers, Header
<1>6. Whole(w)
  BY <1>3, <1>4, <1>5, SameContents, Zenon
<1> QED
  BY <1>4, <1>6 DEF g, w

LEMMA EmptyTreeWhole ==
    ASSUME NEW b \in Nat
    PROVE  Whole(fdt_create_empty_tree(b).fdt)
<1> DEFINE r1 == fdt_create(b)
           r2 == IF r1.ret # 0 THEN r1 ELSE fdt_add_reservemap_entry(r1.fdt)
           r3 == IF r2.ret # 0 THEN r2 ELSE fdt_begin_node(r2.fdt, "")
           r4 == IF r3.ret # 0 THEN r3 ELSE fdt_end_node(r3.fdt)
           r5 == IF r4.ret # 0 THEN r4 ELSE fdt_finish(r4.fdt)
           open == fdt_open_into(HeaderOf(r5.fdt), 0, r5.fdt.sizeStruct,
                                 b, r5.fdt.total)
           w == WithHeader(r5.fdt, open.hdr)
<1>1. fdt_create_empty_tree(b)
        = IF r5.ret # 0 THEN r5 ELSE [ret |-> open.ret, fdt |-> w]
  BY Zenon DEF fdt_create_empty_tree
<1>2. Whole(r1.fdt)
  BY CreateWhole, Zenon
<1>3. Whole(r2.fdt)
  BY <1>2, AddReserveMapEntryWhole, Zenon
<1>4. Whole(r3.fdt)
  <2>1. "" \in NodeNames
    BY SwAssumption, Zenon
  <2> HIDE DEF r2
  <2> QED
    BY <1>3, <2>1, BeginNodeWhole, Zenon
<1>5. Whole(r4.fdt)
  <2> HIDE DEF r3
  <2> QED
    BY <1>4, EndNodeWhole, Zenon
<1>6. Whole(r5.fdt)
  <2> HIDE DEF r4
  <2> QED
    BY <1>5, FinishWhole, Zenon
<1> HIDE DEF r5
<1>7. Whole(w)
  BY <1>6, OpenWhole, Zenon
<1> HIDE DEF w, open
<1>8. [ret |-> open.ret, fdt |-> w].fdt = w
  OBVIOUS
<1>9. CASE r5.ret # 0
  BY <1>1, <1>6, <1>9, Zenon
<1>10. CASE r5.ret = 0
  <2>1. fdt_create_empty_tree(b).fdt = [ret |-> open.ret, fdt |-> w].fdt
    BY <1>1, <1>10, Zenon
  <2> QED
    BY <1>7, <1>8, <2>1, Zenon
<1> QED
  BY <1>9, <1>10, Zenon

-----------------------------------------------------------------------------
WholeInv == Whole(fdt) /\ nrsv \in Nat \cup {-1}

LEMMA WholeInit == Init => WholeInv
<1> SUFFICES ASSUME Init PROVE WholeInv
  OBVIOUS
<1>1. fdt = Blank /\ nrsv = -1
  BY DEF Init
<1>2. fdt_create(0).fdt = Blank
  BY DEF fdt_create, No
<1>3. Whole(Blank)
  BY <1>2, CreateWhole, Zenon
<1> QED
  BY <1>1, <1>3 DEF WholeInv

LEMMA WholeStep == WholeInv /\ [Next]_vars => WholeInv'
<1> SUFFICES ASSUME WholeInv, [Next]_vars
             PROVE  Whole(fdt') /\ nrsv' \in Nat \cup {-1}
  BY DEF WholeInv
<1>0. Whole(fdt) /\ nrsv \in Nat \cup {-1}
  BY DEF WholeInv
<1>1. CASE \E b \in BufSizes : Create(b)
  <2>1. PICK b \in BufSizes : Create(b)
    BY <1>1
  <2>2. b \in Nat
    BY SwAssumption
  <2> QED
    BY <1>0, <2>1, <2>2, CreateWhole, Zenon DEF Create
<1>2. CASE \E b \in BufSizes : CreateEmptyTree(b)
  <2>1. PICK b \in BufSizes : CreateEmptyTree(b)
    BY <1>2
  <2>2. b \in Nat /\ 0 \in Nat \cup {-1}
    BY SwAssumption
  <2> QED
    BY <2>1, <2>2, EmptyTreeWhole, Zenon DEF CreateEmptyTree
<1>3. CASE AddReserveMapEntry
  <2>1. Whole(fdt')
    BY <1>0, <1>3, AddReserveMapEntryWhole, Zenon DEF AddReserveMapEntry
  <2>2. nrsv' \in {nrsv, nrsv + 1}
    BY <1>0, <1>3 DEF AddReserveMapEntry
  <2> QED
    BY <1>0, <2>1, <2>2
<1>4. CASE \E name \in NodeNames : BeginNode(name)
  <2>1. PICK name \in NodeNames : BeginNode(name)
    BY <1>4
  <2>2. fdt' = fdt_begin_node(fdt, name).fdt /\ nrsv' = nrsv
    BY <2>1, Zenon DEF BeginNode
  <2> QED
    BY <1>0, <2>2, BeginNodeWhole, Zenon
<1>5. CASE \E name \in PropNames, val \in Vals : Property(name, val)
  <2>1. PICK name \in PropNames, val \in Vals : Property(name, val)
    BY <1>5
  <2>2. fdt' = fdt_property(fdt, name, val).fdt /\ nrsv' = nrsv
    BY <2>1, Zenon DEF Property
  <2> QED
    BY <1>0, <2>2, PropertyWhole, Zenon
<1>6. CASE EndNode
  BY <1>0, <1>6, EndNodeWhole, Zenon DEF EndNode
<1>7. CASE Finish
  BY <1>0, <1>7, FinishWhole, Zenon DEF Finish
<1>8. CASE UNCHANGED vars
  BY <1>0, <1>8, Zenon DEF vars
<1> QED
  BY <1>1, <1>2, <1>3, <1>4, <1>5, <1>6, <1>7, <1>8, Zenon DEF Next

LEMMA WholeIsTyped == WholeInv => TypeOK
<1> SUFFICES ASSUME WholeInv PROVE TypeOK
  OBVIOUS
<1>1. Whole(fdt) /\ nrsv \in Nat \cup {-1} /\ fdt.tags \in Seq(Tags)
      /\ fdt.strs \in Seq(PropNames) /\ fdt.sizeStrings \in Nat
  BY DEF WholeInv, Whole, Named, Strings, Numbers
<1>2. HeaderOf(fdt) \in Header /\ fdt.magic \in {"none", "sw", "fdt"}
  BY <1>1, HeaderOfNumbers DEF Whole, Numbers
<1>3. ASSUME NEW k \in DOMAIN fdt.tags, fdt.tags[k].tag = "PROP"
      PROVE  IF fdt.magic = "sw" THEN -fdt.tags[k].nameoff \in Nat \ {0}
             ELSE fdt.tags[k].nameoff \in Nat
  <2>1. k \in 1 .. Len(fdt.tags) /\ fdt.tags[k] \in Tags
    BY <1>1
  <2>2. PICK off \in Int : fdt.tags[k].nameoff = off
    BY <2>1 DEF Tags
  <2>3. /\ fdt.tags[k].name \in PropNames
        /\ Found(fdt.strs, fdt.tags[k].name, off + Base(fdt))
    BY <1>1, <1>3, <2>1, <2>2, Zenon DEF Whole, Named
  <2>4. PICK i \in 1 .. Len(fdt.strs) :
           /\ EndsIn(fdt.strs[i], fdt.tags[k].name)
           /\ off + Base(fdt) = EndAt(fdt.strs, i, fdt.tags[k].name)
    BY <2>3, Zenon DEF Found
  <2>5. /\ off + Base(fdt) \in Nat
        /\ off + Base(fdt) < Starts(fdt.strs)[i] + Len(fdt.strs[i]) + 1
    BY <1>1, <2>3, <2>4, EndAtIsNat, Zenon
  <2>6. PICK e \in Nat : Starts(fdt.strs)[i] + Len(fdt.strs[i]) + 1 = e
    <3>1. Starts(fdt.strs)[i] \in Nat
      BY <1>1, StartsDef
    <3>2. PICK m \in Nat : Len(fdt.strs[i]) = m
      BY <1>1, NamesLen, Zenon
    <3> QED
      BY <3>1, <3>2
  <2>7. e <= fdt.sizeStrings
    BY <1>1, <2>6, Zenon DEF Whole, Strings
  <2>8. CASE fdt.magic = "sw"
    <3>1. off + fdt.sizeStrings \in Nat /\ off + fdt.sizeStrings < e
      BY <2>5, <2>6, <2>8, Zenon DEF Base
    <3>2. -off \in Nat \ {0}
      BY <1>1, <2>7, <3>1
    <3> QED
      BY <2>2, <2>8, <3>2
  <2>9. CASE fdt.magic # "sw"
    BY <2>2, <2>5, <2>9 DEF Base
  <2> QED
    BY <2>8, <2>9
<1> QED
  BY <1>1, <1>2, <1>3, Zenon DEF TypeOK

LEMMA WholeResolves == WholeInv => NamesResolve
<1> SUFFICES ASSUME WholeInv, NEW k \in DOMAIN fdt.tags,
                    fdt.tags[k].tag = "PROP"
             PROVE  \E i \in DOMAIN fdt.strs :
                       /\ EndsIn(fdt.strs[i], fdt.tags[k].name)
                       /\ fdt.tags[k].nameoff
                            + (IF fdt.magic = "sw" THEN fdt.sizeStrings ELSE 0)
                            = EndAt(fdt.strs, i, fdt.tags[k].name)
  BY Zenon DEF NamesResolve, EndAt
<1>1. Whole(fdt) /\ fdt.tags \in Seq(Tags) /\ fdt.strs \in Seq(PropNames)
  BY DEF WholeInv, Whole, Named, Strings
<1>2. k \in 1 .. Len(fdt.tags) /\ DOMAIN fdt.strs = 1 .. Len(fdt.strs)
  BY <1>1
<1>3. Found(fdt.strs, fdt.tags[k].name, fdt.tags[k].nameoff + Base(fdt))
  BY <1>1, <1>2, Zenon DEF Whole, Named
<1> QED
  BY <1>2, <1>3, Zenon DEF Found, Base

\* Whatever is written, into a buffer of any size, and whichever calls fail:
\* the header's numbers stay natural, and a property's offset is below the end
\* of the buffer while the tree grows (0 would mean that there was no room)
\* and within the strings once fdt_finish has moved it.
THEOREM SwTypeOK == Spec => []TypeOK
BY WholeInit, WholeStep, WholeIsTyped, PTL DEF Spec

\* _fdt_find_add_string and fdt_finish together: the offset that a property
\* holds leads to its name, whatever strings have been put below it since, and
\* after the move, for names of any length that share their ends or do not.
THEOREM SwNamesResolve == Spec => []NamesResolve
BY WholeInit, WholeStep, WholeResolves, PTL DEF Spec

-----------------------------------------------------------------------------
(* Sizes: what the header says against what has been written.              *)

\* The words of a tag, which do not depend on where its name is.
Words(t) ==
    CASE t.tag = "BEGIN" -> 1 + FDT_TAGALIGN(Len(t.name) + 1) \div FDT_TAGSIZE
      [] t.tag = "PROP"  -> 3 + FDT_TAGALIGN(Len(t.val) + 1) \div FDT_TAGSIZE
      [] OTHER           -> 1

\* e counts the words of the first tags.
Counts(e, tags) ==
    /\ e \in [0 .. Len(tags) -> Nat] /\ e[0] = 0
    /\ \A i \in 1 .. Len(tags) : e[i] = e[i - 1] + Words(tags[i])

\* The strings end where the block does.
Filled(strs, size) ==
    IF strs = <<>> THEN size = 0
    ELSE size = Starts(strs)[Len(strs)] + Len(strs[Len(strs)]) + 1

Sized(f) ==
    /\ \E e : Counts(e, f.tags) /\ f.sizeStruct = e[Len(f.tags)] * FDT_TAGSIZE
    /\ Filled(f.strs, f.sizeStrings)

LEMMA TagAlignWords ==
    ASSUME NEW n \in Nat
    PROVE  /\ FDT_TAGALIGN(n) \div FDT_TAGSIZE \in Nat
           /\ (FDT_TAGALIGN(n) \div FDT_TAGSIZE) * FDT_TAGSIZE = FDT_TAGALIGN(n)
BY DEF FDT_TAGALIGN, FDT_ALIGN, FDT_TAGSIZE

LEMMA TextLen ==
    /\ \A s \in NodeNames \cup PropNames : Len(s) \in Nat
    /\ \A s \in Vals \cup {""} : Len(s) \in Nat
<1>1. \A s \in NodeNames \cup Vals : Len(s) \in Nat
  BY SwAssumption, Zenon
<1>2. "" \in NodeNames
  BY SwAssumption, Zenon
<1> QED
  BY <1>1, <1>2, PropNameLen, Zenon

LEMMA WordsNat == ASSUME NEW t \in Tags PROVE Words(t) \in Nat
<1>1. /\ t.name \in NodeNames \cup PropNames /\ t.val \in Vals \cup {""}
  BY DEF Tags
<1>2. PICK n \in Nat : Len(t.name) = n
  BY <1>1, TextLen, Zenon
<1>3. PICK v \in Nat : Len(t.val) = v
  BY <1>1, TextLen, Zenon
<1>4. /\ FDT_TAGALIGN(n + 1) \div FDT_TAGSIZE \in Nat
      /\ FDT_TAGALIGN(v + 1) \div FDT_TAGSIZE \in Nat
  <2>1. n + 1 \in Nat /\ v + 1 \in Nat
    OBVIOUS
  <2> QED
    BY <2>1, TagAlignWords, Zenon
<1>5. \A a \in Nat : 1 + a \in Nat /\ 3 + a \in Nat
  OBVIOUS
<1>6. 1 \in Nat
  OBVIOUS
<1> QED
  BY <1>2, <1>3, <1>4, <1>5, <1>6, Zenon DEF Words

\* One more tag, and the words it takes up.
LEMMA CountsAppend ==
    ASSUME NEW tags \in Seq(Tags), NEW e, Counts(e, tags), NEW t \in Tags
    PROVE  \E d : /\ Counts(d, tags \o <<t>>)
                  /\ d[Len(tags \o <<t>>)] = e[Len(tags)] + Words(t)
<1> DEFINE more == tags \o <<t>>
           N == Len(tags)
           d == [i \in 0 .. N + 1 |-> IF i = N + 1 THEN e[N] + Words(t) ELSE e[i]]
<1>1. /\ N \in Nat /\ Len(more) = N + 1 /\ more[N + 1] = t
      /\ \A i \in 1 .. N : more[i] = tags[i]
  OBVIOUS
<1> HIDE DEF more, N
<1>2. /\ e \in [0 .. N -> Nat] /\ e[0] = 0
      /\ \A i \in 1 .. N : e[i] = e[i - 1] + Words(tags[i])
  BY DEF Counts, N
<1>3. PICK w \in Nat : Words(t) = w
  BY WordsNat
<1>4. d \in [0 .. N + 1 -> Nat] /\ d[0] = 0 /\ d[N + 1] = e[N] + w
  BY <1>1, <1>2, <1>3
<1>5. ASSUME NEW i \in 1 .. N + 1 PROVE d[i] = d[i - 1] + Words(more[i])
  <2>1. CASE i = N + 1
    <3>1. d[i - 1] = e[N]
      BY <1>1, <2>1
    <3> QED
      BY <1>1, <1>3, <1>4, <2>1, <3>1
  <2>2. CASE i # N + 1
    <3>1. i \in 1 .. N /\ i \in 0 .. N + 1 /\ i - 1 \in 0 .. N + 1 /\ i - 1 # N + 1
      BY <1>1, <2>2
    <3>2. d[i] = e[i] /\ d[i - 1] = e[i - 1]
      BY <2>2, <3>1
    <3> HIDE DEF d
    <3> QED
      BY <1>1, <1>2, <3>1, <3>2, Zenon
  <2> QED
    BY <2>1, <2>2
<1> HIDE DEF d
<1>6. Counts(d, more)
  BY <1>1, <1>4, <1>5, Zenon DEF Counts
<1> QED
  BY <1>1, <1>3, <1>4, <1>6, Zenon DEF more, N

\* Tags of the same kind with the same names and values count alike.
LEMMA CountsSame ==
    ASSUME NEW tags, NEW others, NEW e, Counts(e, tags),
           Len(others) = Len(tags),
           \A k \in 1 .. Len(tags) : /\ others[k].tag = tags[k].tag
                                     /\ others[k].name = tags[k].name
                                     /\ others[k].val = tags[k].val
    PROVE  Counts(e, others)
<1>1. \A k \in 1 .. Len(tags) : Words(others[k]) = Words(tags[k])
  BY Zenon DEF Words
<1> QED
  BY <1>1, Zenon DEF Counts

LEMMA FilledCons ==
    ASSUME NEW strs \in Seq(PropNames), NEW size \in Nat, Filled(strs, size),
           NEW s \in PropNames, NEW n \in Nat, Len(s) = n
    PROVE  Filled(<<s>> \o strs, size + n + 1)
<1> DEFINE more == <<s>> \o strs
           N == Len(strs)
<1>1. /\ more \in Seq(PropNames) /\ Len(more) = N + 1
      /\ more[1] = s /\ Starts(more)[1] = 0
      /\ \A i \in 1 .. N : /\ more[i + 1] = strs[i]
                           /\ Starts(more)[i + 1] = Starts(strs)[i] + Len(s) + 1
  BY StartsCons, Zenon
<1> HIDE DEF more
<1>2. N \in Nat /\ Starts(strs) \in [1 .. N -> Nat] /\ (N = 0 <=> strs = <<>>)
  BY StartsDef
<1>3. more # <<>>
  BY <1>1, <1>2
<1>4. CASE strs = <<>>
  <2>1. N = 0 /\ size = 0
    BY <1>2, <1>4 DEF Filled
  <2>2. Len(more) = 1
    BY <1>1, <2>1
  <2>3. Starts(more)[Len(more)] + Len(more[Len(more)]) + 1 = 0 + n + 1
    BY <1>1, <2>2, Zenon
  <2> QED
    BY <1>3, <2>1, <2>3 DEF Filled, more
<1>5. CASE strs # <<>>
  <2>1. N \in 1 .. N
    BY <1>2, <1>5
  <2>2. PICK b \in Nat : Starts(strs)[N] = b
    BY <1>2, <2>1
  <2>3. PICK m \in Nat : Len(strs[N]) = m
    BY <2>1, NamesLen, Zenon
  <2>4. size = b + m + 1
    BY <1>5, <2>2, <2>3, Zenon DEF Filled
  <2>5. Starts(more)[Len(more)] = b + n + 1 /\ Len(more[Len(more)]) = m
    BY <1>1, <2>1, <2>2, <2>3, Zenon
  <2>6. (b + n + 1) + m + 1 = size + n + 1
    BY <2>4
  <2>7. Starts(more)[Len(more)] + Len(more[Len(more)]) + 1 = size + n + 1
    BY <2>5, <2>6, Zenon
  <2> QED
    BY <1>3, <2>7, Zenon DEF Filled, more
<1> QED
  BY <1>4, <1>5
-----------------------------------------------------------------------------
(* What each function leaves of the sizes.                                 *)

\* g has the tags and the strings of f, and the sizes.
LEMMA SameSizes ==
    ASSUME NEW f, NEW g, Sized(f), g.tags = f.tags, g.strs = f.strs,
           g.sizeStruct = f.sizeStruct, g.sizeStrings = f.sizeStrings
    PROVE  Sized(g)
BY Zenon DEF Sized

LEMMA GrabSpaceSized ==
    ASSUME NEW f, Whole(f), Sized(f), NEW t \in Tags
    PROVE  Sized(grab_space(f, Words(t) * FDT_TAGSIZE, <<t>>).fdt)
<1> DEFINE len == Words(t) * FDT_TAGSIZE
           g == [f EXCEPT !.sizeStruct = @ + len, !.tags = @ \o <<t>>]
           r == grab_space(f, len, <<t>>)
<1>1. /\ g.sizeStruct = f.sizeStruct + len /\ g.tags = f.tags \o <<t>>
      /\ g.strs = f.strs /\ g.sizeStrings = f.sizeStrings
  BY DEF Whole, Numbers, Fields
<1>2. r.fdt = f \/ r.fdt = g
  BY Zenon DEF grab_space, Ok, No
<1> HIDE DEF g, r
<1>3. f.tags \in Seq(Tags)
  BY Zenon DEF Whole, Named
<1>4. PICK e : Counts(e, f.tags) /\ f.sizeStruct = e[Len(f.tags)] * FDT_TAGSIZE
  BY Zenon DEF Sized
<1>5. PICK d : /\ Counts(d, g.tags)
               /\ d[Len(g.tags)] = e[Len(f.tags)] + Words(t)
  BY <1>1, <1>3, <1>4, CountsAppend, Zenon
<1>6. PICK a \in Nat : e[Len(f.tags)] = a
  BY <1>3, <1>4 DEF Counts
<1>7. PICK w \in Nat : Words(t) = w
  BY WordsNat
<1>8. g.sizeStruct = d[Len(g.tags)] * FDT_TAGSIZE
  <2>1. g.sizeStruct = a * FDT_TAGSIZE + w * FDT_TAGSIZE
    BY <1>1, <1>4, <1>6, <1>7, Zenon DEF len
  <2>2. a * FDT_TAGSIZE + w * FDT_TAGSIZE = (a + w) * FDT_TAGSIZE
    BY DEF FDT_TAGSIZE
  <2> QED
    BY <1>5, <1>6, <1>7, <2>1, <2>2, Zenon
<1>9. Sized(g)
  BY <1>1, <1>5, <1>8, Zenon DEF Sized
<1> QED
  BY <1>2, <1>9, Zenon DEF r, len

LEMMA FindAddStringSized ==
    ASSUME NEW f, Whole(f), Sized(f), NEW s \in PropNames
    PROVE  Sized(find_add_string(f, s).fdt)
<1>1. PICK n \in Nat : Len(s) = n
  BY PropNameLen, Zenon
<1> DEFINE bottom == f.total - f.sizeStrings - (n + 1)
           full == 0 <= bottom /\ bottom < f.offStruct + f.sizeStruct
           g == [f EXCEPT !.sizeStrings = @ + n + 1, !.strs = <<s>> \o @]
           r == find_add_string(f, s)
<1>2. r.fdt = f \/ r.fdt = g
  <2>1. CASE IsThere(f.strs, s)
    BY <1>1, <2>1, Zenon DEF find_add_string
  <2>2. CASE ~IsThere(f.strs, s) /\ full
    BY <1>1, <2>2, Zenon DEF find_add_string, Ok
  <2>3. CASE ~IsThere(f.strs, s) /\ ~full
    BY <1>1, <2>3, Zenon DEF find_add_string
  <2> QED
    BY <2>1, <2>2, <2>3
<1>3. /\ g.tags = f.tags /\ g.strs = <<s>> \o f.strs
      /\ g.sizeStruct = f.sizeStruct /\ g.sizeStrings = f.sizeStrings + n + 1
  BY DEF Whole, Numbers, Fields
<1> HIDE DEF g, r
<1>4. f.strs \in Seq(PropNames) /\ f.sizeStrings \in Nat
  BY Zenon DEF Whole, Numbers, Strings
<1>5. Filled(g.strs, g.sizeStrings)
  BY <1>1, <1>3, <1>4, FilledCons, Zenon DEF Sized
<1>6. Sized(g)
  BY <1>3, <1>5, Zenon DEF Sized
<1> QED
  BY <1>2, <1>6, Zenon DEF r

LEMMA CreateSized == ASSUME NEW b \in Nat PROVE Sized(fdt_create(b).fdt)
<1> DEFINE g == [Blank EXCEPT !.magic = "sw", !.version = 17, !.total = b,
                              !.offRsv = SW_RSV_START,
                              !.offStruct = SW_RSV_START, !.offStrings = b]
           f == fdt_create(b).fdt
           none == [i \in 0 .. 0 |-> 0]
<1>1. f = Blank \/ f = g
  BY Zenon DEF fdt_create, No, Ok
<1>2. /\ Blank.tags = <<>> /\ Blank.strs = <<>>
      /\ Blank.sizeStruct = 0 /\ Blank.sizeStrings = 0
      /\ g.tags = <<>> /\ g.strs = <<>> /\ g.sizeStruct = 0 /\ g.sizeStrings = 0
  BY DEF Blank
<1> HIDE DEF f, g
<1>3. /\ f.tags = <<>> /\ f.strs = <<>>
      /\ f.sizeStruct = 0 /\ f.sizeStrings = 0
  BY <1>1, <1>2, Zenon
<1>4. Counts(none, <<>>) /\ none[Len(<<>>)] * FDT_TAGSIZE = 0
  BY DEF Counts, FDT_TAGSIZE
<1> HIDE DEF none
<1> QED
  BY <1>3, <1>4, Zenon DEF Sized, Filled, f

LEMMA AddReserveMapEntrySized ==
    ASSUME NEW f, Whole(f), Sized(f)
    PROVE  Sized(fdt_add_reservemap_entry(f).fdt)
<1> DEFINE g == [f EXCEPT !.offStruct = @ + RSV_ENTRY]
           r == fdt_add_reservemap_entry(f)
<1>1. r.fdt = f \/ r.fdt = g
  <2>1. f.sizeStruct > 0 \/ f.sizeStruct = 0
    BY DEF Whole, Numbers
  <2> QED
    BY <2>1, Zenon DEF fdt_add_reservemap_entry, SwCall, No, Ok
<1>2. /\ g.tags = f.tags /\ g.strs = f.strs
      /\ g.sizeStruct = f.sizeStruct /\ g.sizeStrings = f.sizeStrings
  BY DEF Whole, Numbers, Fields
<1> HIDE DEF g, r
<1>3. Sized(g)
  BY <1>2, SameSizes, Zenon
<1> QED
  BY <1>1, <1>3, Zenon DEF r

LEMMA TagIs ==
    ASSUME NEW tag, NEW name, NEW off, NEW val
    PROVE  /\ Tag(tag, name, off, val).tag = tag
           /\ Tag(tag, name, off, val).name = name
           /\ Tag(tag, name, off, val).val = val
BY DEF Tag

LEMMA BeginNodeSized ==
    ASSUME NEW f, Whole(f), Sized(f), NEW name \in NodeNames
    PROVE  Sized(fdt_begin_node(f, name).fdt)
<1> DEFINE len == FDT_TAGSIZE + FDT_TAGALIGN(Len(name) + 1)
           t == Tag("BEGIN", name, 0, "")
<1>1. CASE f.magic # "sw"
  BY <1>1, Refused, Zenon DEF fdt_begin_node
<1>2. CASE f.magic = "sw"
  <2>1. PICK l \in Nat : Len(name) = l
    BY SwAssumption, Zenon
  <2>2. t \in Tags
    <3>1. 0 \in Int /\ name \in NodeNames \cup PropNames
      OBVIOUS
    <3> QED
      BY <3>1, EmptyName, TagFields, Zenon
  <2>3. Words(t) = 1 + FDT_TAGALIGN(l + 1) \div FDT_TAGSIZE
    <3>1. t.tag = "BEGIN" /\ t.name = name
      BY DEF Tag
    <3> HIDE DEF t
    <3> QED
      BY <2>1, <3>1, Zenon DEF Words
  <2>4. len = Words(t) * FDT_TAGSIZE
    <3> HIDE DEF len, t
    <3>1. PICK q \in Nat : /\ FDT_TAGALIGN(l + 1) \div FDT_TAGSIZE = q
                           /\ FDT_TAGALIGN(l + 1) = q * FDT_TAGSIZE
      <4>1. l + 1 \in Nat
        OBVIOUS
      <4> QED
        BY <4>1, TagAlignWords, Zenon
    <3>2. len = FDT_TAGSIZE + q * FDT_TAGSIZE
      BY <2>1, <3>1, Zenon DEF len
    <3>3. FDT_TAGSIZE + q * FDT_TAGSIZE = (1 + q) * FDT_TAGSIZE
      BY DEF FDT_TAGSIZE
    <3> QED
      BY <2>3, <3>1, <3>2, <3>3, Zenon
  <2>5. fdt_begin_node(f, name) = grab_space(f, len, <<t>>)
    BY <1>2, Zenon DEF fdt_begin_node, SwCall
  <2> HIDE DEF len, t
  <2> QED
    BY <2>2, <2>4, <2>5, GrabSpaceSized, Zenon
<1> QED
  BY <1>1, <1>2

\* A tag that is one word.
LEMMA OneWord ==
    ASSUME NEW kind \in {"END_NODE", "END"}
    PROVE  /\ Tag(kind, "", 0, "") \in Tags
           /\ Words(Tag(kind, "", 0, "")) * FDT_TAGSIZE = FDT_TAGSIZE
<1>1. Tag(kind, "", 0, "") \in Tags
  BY EmptyTag
<1>2. Tag(kind, "", 0, "").tag \notin {"BEGIN", "PROP"}
  BY TagIs
<1>3. Words(Tag(kind, "", 0, "")) = 1
  BY <1>2 DEF Words
<1>4. 1 * FDT_TAGSIZE = FDT_TAGSIZE
  BY DEF FDT_TAGSIZE
<1> QED
  BY <1>1, <1>3, <1>4, Zenon

LEMMA EndNodeSized ==
    ASSUME NEW f, Whole(f), Sized(f)
    PROVE  Sized(fdt_end_node(f).fdt)
<1> DEFINE t == Tag("END_NODE", "", 0, "")
<1>1. CASE f.magic # "sw"
  BY <1>1, Refused, Zenon DEF fdt_end_node
<1>2. CASE f.magic = "sw"
  <2>1. t \in Tags /\ Words(t) * FDT_TAGSIZE = FDT_TAGSIZE
    BY OneWord
  <2>2. fdt_end_node(f) = grab_space(f, FDT_TAGSIZE, <<t>>)
    BY <1>2, Zenon DEF fdt_end_node, SwCall
  <2> HIDE DEF t
  <2> QED
    BY <2>1, <2>2, GrabSpaceSized, Zenon
<1> QED
  BY <1>1, <1>2

LEMMA PropertySized ==
    ASSUME NEW f, Whole(f), Sized(f), NEW name \in PropNames, NEW val \in Vals
    PROVE  Sized(fdt_property(f, name, val).fdt)
<1> DEFINE a == find_add_string(f, name)
           len == 12 + FDT_TAGALIGN(Len(val) + 1)
           t == Tag("PROP", name, a.ret, val)
<1>1. CASE f.magic # "sw"
  BY <1>1, Refused, Zenon DEF fdt_property
<1>2. CASE f.magic = "sw"
  <2>1. Whole(a.fdt) /\ a.ret \in Int
    BY <1>2, FindAddStringWhole, Zenon
  <2>2. Sized(a.fdt)
    BY FindAddStringSized, Zenon
  <2>3. fdt_property(f, name, val)
          = IF a.ret = 0 THEN No(f, FDT_ERR_NOSPACE)
            ELSE grab_space(a.fdt, len, <<t>>)
    BY <1>2, Zenon DEF fdt_property, SwCall
  <2>4. PICK l \in Nat : Len(val) = l
    BY SwAssumption, Zenon
  <2> HIDE DEF a
  <2>5. t \in Tags
    <3>1. name \in NodeNames \cup PropNames /\ val \in Vals \cup {""}
      OBVIOUS
    <3> QED
      BY <2>1, <3>1, TagFields, Zenon
  <2>6. Words(t) = 3 + FDT_TAGALIGN(l + 1) \div FDT_TAGSIZE
    <3>1. t.tag = "PROP" /\ t.tag # "BEGIN" /\ t.val = val
      BY TagIs
    <3> HIDE DEF t
    <3> QED
      BY <2>4, <3>1, Zenon DEF Words
  <2>7. len = Words(t) * FDT_TAGSIZE
    <3> HIDE DEF len, t
    <3>1. PICK q \in Nat : /\ FDT_TAGALIGN(l + 1) \div FDT_TAGSIZE = q
                           /\ FDT_TAGALIGN(l + 1) = q * FDT_TAGSIZE
      <4>1. l + 1 \in Nat
        OBVIOUS
      <4> QED
        BY <4>1, TagAlignWords, Zenon
    <3>2. len = 12 + q * FDT_TAGSIZE
      BY <2>4, <3>1, Zenon DEF len
    <3>3. 12 + q * FDT_TAGSIZE = (3 + q) * FDT_TAGSIZE
      BY DEF FDT_TAGSIZE
    <3> QED
      BY <2>6, <3>1, <3>2, <3>3, Zenon
  <2> HIDE DEF len, t
  <2>8. CASE a.ret = 0
    BY <2>3, <2>8, Result, Zenon
  <2>9. CASE a.ret # 0
    BY <2>1, <2>2, <2>3, <2>5, <2>7, <2>9, GrabSpaceSized, Zenon
  <2> QED
    BY <2>8, <2>9
<1> QED
  BY <1>1, <1>2

\* Relocating the names changes no length.
LEMMA RelocatedCounts ==
    ASSUME NEW f, Whole(f), NEW e, Counts(e, f.tags)
    PROVE  Counts(e, Relocated(f)) /\ Len(Relocated(f)) = Len(f.tags)
<1> DEFINE tags == Relocated(f)
<1>1. f.tags \in Seq(Tags) /\ f.sizeStrings \in Int
  BY DEF Whole, Named, Numbers
<1>2. DOMAIN f.tags = 1 .. Len(f.tags) /\ Len(f.tags) \in Nat
  BY <1>1
<1>3. tags = [k \in 1 .. Len(f.tags) |-> tags[k]]
  BY <1>2 DEF Relocated
<1>4. ASSUME NEW k \in 1 .. Len(f.tags)
      PROVE  /\ tags[k].tag = f.tags[k].tag /\ tags[k].name = f.tags[k].name
             /\ tags[k].val = f.tags[k].val
  <2>1. f.tags[k] \in Tags
    BY <1>1
  <2>2. tags[k] = IF f.tags[k].tag = "PROP"
                  THEN [f.tags[k] EXCEPT !.nameoff = @ + f.sizeStrings]
                  ELSE f.tags[k]
    BY <1>2, Zenon DEF Relocated
  <2>3. LET v == [f.tags[k] EXCEPT !.nameoff = @ + f.sizeStrings]
        IN  /\ v.tag = f.tags[k].tag /\ v.name = f.tags[k].name
            /\ v.val = f.tags[k].val
    BY <2>1 DEF Tags
  <2> HIDE DEF tags
  <2> QED
    BY <2>2, <2>3, Zenon
<1> HIDE DEF tags
<1>5. Len(tags) = Len(f.tags)
  BY <1>2, <1>3
<1> QED
  BY <1>4, <1>5, CountsSame, Zenon DEF tags

LEMMA FinishSized ==
    ASSUME NEW f, Whole(f), Sized(f)
    PROVE  Sized(fdt_finish(f).fdt)
<1> DEFINE t == Tag("END", "", 0, "")
           r == grab_space(f, FDT_TAGSIZE, <<t>>)
           g == [r.fdt EXCEPT
                    !.offStrings = r.fdt.offStruct + r.fdt.sizeStruct,
                    !.tags  = Relocated(r.fdt),
                    !.total = r.fdt.offStruct + r.fdt.sizeStruct
                                + r.fdt.sizeStrings,
                    !.magic = "fdt"]
<1>1. CASE f.magic # "sw"
  BY <1>1, Refused, Zenon DEF fdt_finish
<1>2. CASE f.magic = "sw"
  <2>1. Sized(r.fdt) /\ Whole(r.fdt)
    <3>1. t \in Tags /\ Words(t) * FDT_TAGSIZE = FDT_TAGSIZE
      BY OneWord
    <3>2. FDT_TAGSIZE \in Nat
      BY DEF FDT_TAGSIZE
    <3>3. t.tag = "END"
      BY DEF Tag
    <3> HIDE DEF t
    <3>4. Resolved(f, t)
      BY <3>3 DEF Resolved
    <3> QED
      BY <1>2, <3>1, <3>2, <3>4, GrabSpaceSized, GrabSpaceWhole, Zenon
  <2>2. fdt_finish(f) = IF r.ret # 0 THEN r ELSE Ok(g)
    BY <1>2, Zenon DEF fdt_finish, SwCall
  <2> HIDE DEF r
  <2>3. /\ g.tags = Relocated(r.fdt) /\ g.strs = r.fdt.strs
        /\ g.sizeStruct = r.fdt.sizeStruct /\ g.sizeStrings = r.fdt.sizeStrings
    BY <2>1 DEF Whole, Numbers, Fields
  <2> HIDE DEF g
  <2>4. PICK e : /\ Counts(e, r.fdt.tags)
                 /\ r.fdt.sizeStruct = e[Len(r.fdt.tags)] * FDT_TAGSIZE
    BY <2>1, Zenon DEF Sized
  <2>5. Counts(e, g.tags) /\ Len(g.tags) = Len(r.fdt.tags)
    BY <2>1, <2>3, <2>4, RelocatedCounts, Zenon
  <2>6. Sized(g)
    BY <2>1, <2>3, <2>4, <2>5, Zenon DEF Sized
  <2> QED
    BY <2>1, <2>2, <2>6, Result, Zenon
<1> QED
  BY <1>1, <1>2
LEMMA OpenIntoStruct ==
    ASSUME NEW h \in Header, NEW bufsize, NEW gap
    PROVE  LET g == fdt_open_into(h, 0, h.sizeStruct, bufsize, gap).hdr
           IN  g.sizeStruct = h.sizeStruct
<1> DEFINE r == fdt_open_into(h, 0, h.sizeStruct, bufsize, gap)
           kept == [h EXCEPT !.sizeStruct = h.sizeStruct]
           R == rsv_size(0)
           packed == fdt_packblocks(h, R, h.sizeStruct)
<1>1. \/ r.hdr = h \/ r.hdr = Opened(kept, bufsize)
      \/ r.hdr = Opened(packed, bufsize)
  <2>1. (IF h.version >= 17 THEN h.sizeStruct ELSE h.sizeStruct) = h.sizeStruct
    OBVIOUS
  <2> HIDE DEF kept, packed
  <2> QED
    BY <2>1 DEF fdt_open_into, Done, Fail, R, kept, packed
<1>2. /\ Opened(kept, bufsize).sizeStruct = h.sizeStruct
      /\ Opened(packed, bufsize).sizeStruct = h.sizeStruct
  <2> HIDE DEF R
  <2> QED
    BY DEF Opened, fdt_packblocks, Header
<1> HIDE DEF kept, packed, r
<1> QED
  BY <1>1, <1>2, Zenon DEF r

LEMMA OpenSized ==
    ASSUME NEW f, Whole(f), Sized(f), NEW bufsize \in Nat
    PROVE  LET r == fdt_open_into(HeaderOf(f), 0, f.sizeStruct, bufsize, f.total)
           IN  Sized(WithHeader(f, r.hdr))
<1> DEFINE g == fdt_open_into(HeaderOf(f), 0, f.sizeStruct, bufsize, f.total).hdr
           w == WithHeader(f, g)
<1>1. PICK h \in Header : h = HeaderOf(f)
  BY HeaderOfNumbers DEF Whole, Numbers
<1>2. h.sizeStruct = f.sizeStruct /\ h.sizeStrings = f.sizeStrings
  BY <1>1 DEF HeaderOf
<1>3. g.sizeStruct = f.sizeStruct /\ g.sizeStrings = f.sizeStrings
  <2>1. g = fdt_open_into(h, 0, h.sizeStruct, bufsize, f.total).hdr
    BY <1>1, <1>2, Zenon
  <2>2. f.total \in Int
    BY DEF Whole, Numbers
  <2> HIDE DEF g
  <2>3. g.sizeStruct = h.sizeStruct
    BY <2>1, OpenIntoStruct, Zenon
  <2>4. g.sizeStrings = h.sizeStrings
    BY <2>1, <2>2, OpenIntoHeader, Zenon
  <2> QED
    BY <1>2, <2>3, <2>4, Zenon
<1> HIDE DEF g
<1>4. /\ w.tags = f.tags /\ w.strs = f.strs
      /\ w.sizeStruct = g.sizeStruct /\ w.sizeStrings = g.sizeStrings
  BY DEF WithHeader, Whole, Numbers, Fields
<1> HIDE DEF w
<1>5. Sized(w)
  BY <1>3, <1>4, SameSizes, Zenon
<1> QED
  BY <1>5 DEF g, w

LEMMA EmptyTreeSized ==
    ASSUME NEW b \in Nat
    PROVE  Sized(fdt_create_empty_tree(b).fdt)
<1> DEFINE r1 == fdt_create(b)
           r2 == IF r1.ret # 0 THEN r1 ELSE fdt_add_reservemap_entry(r1.fdt)
           r3 == IF r2.ret # 0 THEN r2 ELSE fdt_begin_node(r2.fdt, "")
           r4 == IF r3.ret # 0 THEN r3 ELSE fdt_end_node(r3.fdt)
           r5 == IF r4.ret # 0 THEN r4 ELSE fdt_finish(r4.fdt)
           open == fdt_open_into(HeaderOf(r5.fdt), 0, r5.fdt.sizeStruct,
                                 b, r5.fdt.total)
           w == WithHeader(r5.fdt, open.hdr)
<1>1. fdt_create_empty_tree(b)
        = IF r5.ret # 0 THEN r5 ELSE [ret |-> open.ret, fdt |-> w]
  BY Zenon DEF fdt_create_empty_tree
<1>2. Whole(r1.fdt) /\ Sized(r1.fdt)
  BY CreateWhole, CreateSized, Zenon
<1>3. Whole(r2.fdt) /\ Sized(r2.fdt)
  <2> HIDE DEF r1
  <2> QED
    BY <1>2, AddReserveMapEntryWhole, AddReserveMapEntrySized, Zenon
<1>4. Whole(r3.fdt) /\ Sized(r3.fdt)
  <2>1. "" \in NodeNames
    BY SwAssumption, Zenon
  <2> HIDE DEF r2
  <2> QED
    BY <1>3, <2>1, BeginNodeWhole, BeginNodeSized, Zenon
<1>5. Whole(r4.fdt) /\ Sized(r4.fdt)
  <2> HIDE DEF r3
  <2> QED
    BY <1>4, EndNodeWhole, EndNodeSized, Zenon
<1>6. Whole(r5.fdt) /\ Sized(r5.fdt)
  <2> HIDE DEF r4
  <2> QED
    BY <1>5, FinishWhole, FinishSized, Zenon
<1> HIDE DEF r5
<1>7. Sized(w)
  BY <1>6, OpenSized, Zenon
<1> HIDE DEF w, open
<1>8. [ret |-> open.ret, fdt |-> w].fdt = w
  OBVIOUS
<1> QED
  BY <1>1, <1>6, <1>7, <1>8, Zenon

SizesInv == WholeInv /\ Sized(fdt)

LEMMA SizesInit == Init => SizesInv
<1> SUFFICES ASSUME Init PROVE Sized(fdt)
  BY WholeInit DEF SizesInv
<1>1. fdt = Blank
  BY DEF Init
<1>2. fdt_create(0).fdt = Blank
  BY DEF fdt_create, No
<1> QED
  BY <1>1, <1>2, CreateSized, Zenon

LEMMA SizesStep == SizesInv /\ [Next]_vars => SizesInv'
<1> SUFFICES ASSUME SizesInv, [Next]_vars PROVE Sized(fdt')
  BY WholeStep, Zenon DEF SizesInv
<1>0. Whole(fdt) /\ Sized(fdt)
  BY DEF SizesInv, WholeInv
<1>1. CASE \E b \in BufSizes : Create(b) \/ CreateEmptyTree(b)
  <2>1. PICK b \in BufSizes : Create(b) \/ CreateEmptyTree(b)
    BY <1>1
  <2>2. b \in Nat
    BY SwAssumption
  <2> QED
    BY <2>1, <2>2, CreateSized, EmptyTreeSized, Zenon DEF Create, CreateEmptyTree
<1>2. CASE AddReserveMapEntry
  BY <1>0, <1>2, AddReserveMapEntrySized, Zenon DEF AddReserveMapEntry
<1>3. CASE \E name \in NodeNames : BeginNode(name)
  <2>1. PICK name \in NodeNames : BeginNode(name)
    BY <1>3
  <2>2. fdt' = fdt_begin_node(fdt, name).fdt
    BY <2>1, Zenon DEF BeginNode
  <2> QED
    BY <1>0, <2>2, BeginNodeSized, Zenon
<1>4. CASE \E name \in PropNames, val \in Vals : Property(name, val)
  <2>1. PICK name \in PropNames, val \in Vals : Property(name, val)
    BY <1>4
  <2>2. fdt' = fdt_property(fdt, name, val).fdt
    BY <2>1, Zenon DEF Property
  <2> QED
    BY <1>0, <2>2, PropertySized, Zenon
<1>5. CASE EndNode
  BY <1>0, <1>5, EndNodeSized, Zenon DEF EndNode
<1>6. CASE Finish
  BY <1>0, <1>6, FinishSized, Zenon DEF Finish
<1>7. CASE UNCHANGED vars
  BY <1>0, <1>7, Zenon DEF vars
<1> QED
  BY <1>1, <1>2, <1>3, <1>4, <1>5, <1>6, <1>7, Zenon DEF Next
-----------------------------------------------------------------------------
(* The blob: as many words as the tags count, as many bytes of strings.    *)

\* A total is what adds the lengths up.
LEMMA TotalIs ==
    ASSUME NEW lens, NEW n \in Nat, Len(lens) = n,
           NEW e \in [0 .. n -> Nat], e[0] = 0,
           \A k \in 1 .. n : e[k] = e[k - 1] + lens[k]
    PROVE  B!Total(lens) = e[n]
<1> DEFINE Sum(f) == f = [k \in 0 .. Len(lens) |->
                             IF k = 0 THEN 0 ELSE f[k - 1] + lens[k]]
           F == CHOOSE f : Sum(f)
<1>1. Sum(e)
  <2>1. \A k \in 0 .. n : e[k] = IF k = 0 THEN 0 ELSE e[k - 1] + lens[k]
    OBVIOUS
  <2>2. e = [k \in 0 .. n |-> e[k]]
    OBVIOUS
  <2> QED
    BY <2>1, <2>2
<1>2. Sum(F)
  BY <1>1, Zenon
<1>3. B!Total(lens) = F[n]
  BY DEF B!Total
<1>4. \A k \in 0 .. n : F[k] = IF k = 0 THEN 0 ELSE F[k - 1] + lens[k]
  BY <1>2
<1> HIDE DEF F, Sum
<1> DEFINE T == {k \in Nat : k <= n => F[k] = e[k]}
<1>5. 0 \in T
  BY <1>4
<1>6. ASSUME NEW k \in Nat, k \in T PROVE k + 1 \in T
  <2> SUFFICES ASSUME k + 1 <= n PROVE F[k + 1] = e[k + 1]
    OBVIOUS
  <2>1. k + 1 \in 0 .. n /\ k + 1 \in 1 .. n /\ k + 1 # 0 /\ (k + 1) - 1 = k
    OBVIOUS
  <2>2. F[k] = e[k]
    BY <1>6
  <2>3. F[k + 1] = F[k] + lens[k + 1] /\ e[k + 1] = e[k] + lens[k + 1]
    BY <1>4, <2>1
  <2> QED
    BY <2>2, <2>3
<1> HIDE DEF T
<1>7. n \in T
  BY <1>5, <1>6, NatSetInduction
<1> QED
  BY <1>3, <1>7 DEF T

LEMMA ConcatLen ==
    ASSUME NEW W, NEW s \in Seq(W), NEW t \in Seq(W)
    PROVE  /\ s \o t \in Seq(W) /\ Len(s \o t) = Len(s) + Len(t)
           /\ <<>> \o t = t
OBVIOUS

\* e adds up the lengths of N sequences.
Lengths(e, N, seqs, W) ==
    /\ N \in Nat /\ seqs \in [1 .. N -> Seq(W)]
    /\ e \in [0 .. N -> Nat] /\ e[0] = 0
    /\ \A k \in 1 .. N : e[k] = e[k - 1] + Len(seqs[k])

\* Sequences put one behind the other are as long as all of them.
LEMMA FlattenLen ==
    ASSUME NEW e, NEW N, NEW seqs, NEW W, Lengths(e, N, seqs, W)
    PROVE  Len(FlattenSeq(seqs)) = e[N]
<1> N \in Nat /\ seqs \in [1 .. N -> Seq(W)]
  BY DEF Lengths
<1> e \in [0 .. N -> Nat] /\ e[0] = 0
  BY DEF Lengths
<1> \A k \in 1 .. N : e[k] = e[k - 1] + Len(seqs[k])
  BY DEF Lengths
<1>0. Len(seqs) = N
  OBVIOUS
<1>1. CASE N = 0
  <2>1. FlattenSeq(seqs) = seqs
    BY <1>0, <1>1, Zenon DEF FlattenSeq
  <2> QED
    BY <1>0, <1>1, <2>1
<1>2. CASE N # 0
  <2> DEFINE Puts(f) == f = [i \in 1 .. Len(seqs) |->
                                IF i = 1 THEN seqs[i] ELSE f[i - 1] \o seqs[i]]
             F == CHOOSE f : Puts(f)
             step == [p \in (1 .. N) \X Seq(W) |-> p[2] \o seqs[p[1]]]
  <2>1. step \in [(1 .. N) \X Seq(W) -> Seq(W)] /\ <<>> \in Seq(W)
    OBVIOUS
  <2>2. ASSUME NEW i \in 1 .. N, NEW s \in Seq(W)
        PROVE  step[<<i, s>>] = s \o seqs[i]
    OBVIOUS
  <2> HIDE DEF step
  <2>3. PICK f \in [0 .. N -> Seq(W)] : GoesOn(f, <<>>, step, N)
    BY <2>1, RecursionUpTo, Zenon
  <2> DEFINE h == [i \in 1 .. N |-> f[i]]
  <2>4. f[0] = <<>> /\ \A i \in 1 .. N : f[i] = f[i - 1] \o seqs[i]
    <3>1. ASSUME NEW i \in 1 .. N PROVE f[i] = f[i - 1] \o seqs[i]
      <4>1. i \in 0 .. N /\ i # 0 /\ i - 1 \in 0 .. N
        OBVIOUS
      <4>2. f[i - 1] \in Seq(W)
        BY <4>1, Zenon
      <4>3. f[i] = step[<<i, f[i - 1]>>]
        BY <2>3, <4>1, Zenon DEF GoesOn
      <4> QED
        BY <2>2, <4>2, <4>3, Zenon
    <3>2. f[0] = <<>>
      BY <2>3 DEF GoesOn
    <3> QED
      BY <3>1, <3>2
  <2>5. Puts(h)
    <3>1. ASSUME NEW i \in 1 .. N
          PROVE  h[i] = IF i = 1 THEN seqs[i] ELSE h[i - 1] \o seqs[i]
      <4>1. CASE i = 1
        <5>0. i - 1 = 0
          BY <4>1
        <5>1. f[i] = <<>> \o seqs[i]
          BY <2>4, <5>0, Zenon
        <5>2. <<>> \o seqs[i] = seqs[i]
          <6>1. seqs[i] \in Seq(W)
            BY Zenon
          <6> QED
            BY <6>1, ConcatLen, Zenon
        <5>3. h[i] = f[i]
          OBVIOUS
        <5> QED
          BY <4>1, <5>1, <5>2, <5>3, Zenon
      <4>2. CASE i # 1
        <5>1. i - 1 \in 1 .. N
          BY <4>2
        <5>2. h[i] = f[i] /\ h[i - 1] = f[i - 1]
          BY <5>1
        <5> QED
          BY <2>4, <4>2, <5>2, Zenon
      <4> QED
        BY <4>1, <4>2
    <3>2. h = [i \in 1 .. N |-> h[i]]
      OBVIOUS
    <3> HIDE DEF h
    <3>3. h = [i \in 1 .. N |-> IF i = 1 THEN seqs[i] ELSE h[i - 1] \o seqs[i]]
      BY <3>1, <3>2, Zenon
    <3> QED
      BY <1>0, <3>3, Zenon
  <2> HIDE DEF h
  <2>6. Puts(F)
    BY <2>5, Zenon
  <2>7. FlattenSeq(seqs) = F[N]
    BY <1>0, <1>2, Zenon DEF FlattenSeq
  <2> HIDE DEF F
  <2>8. \A i \in 1 .. N : F[i] = IF i = 1 THEN seqs[i] ELSE F[i - 1] \o seqs[i]
    BY <1>0, <2>6
  <2> HIDE DEF Puts
  <2> DEFINE T == {k \in Nat : k \in 1 .. N => F[k] \in Seq(W) /\ Len(F[k]) = e[k]}
  <2>9. 0 \in T
    OBVIOUS
  <2>10. ASSUME NEW k \in Nat, k \in T PROVE k + 1 \in T
    <3> SUFFICES ASSUME k + 1 \in 1 .. N
                 PROVE  F[k + 1] \in Seq(W) /\ Len(F[k + 1]) = e[k + 1]
      OBVIOUS
    <3>1. seqs[k + 1] \in Seq(W) /\ e[k + 1] = e[k] + Len(seqs[k + 1])
          /\ Len(seqs[k + 1]) \in Nat
      <4>1. seqs[k + 1] \in Seq(W)
        OBVIOUS
      <4>2. e[k + 1] = e[(k + 1) - 1] + Len(seqs[k + 1]) /\ (k + 1) - 1 = k
        OBVIOUS
      <4> QED
        BY <4>1, <4>2
    <3>2. CASE k = 0
      <4>1. F[k + 1] = seqs[k + 1]
        BY <2>8, <3>2
      <4> QED
        BY <3>1, <3>2, <4>1
    <3>3. CASE k # 0
      <4>1. k \in 1 .. N /\ k + 1 # 1 /\ (k + 1) - 1 = k
        BY <3>3
      <4>2. F[k + 1] = F[k] \o seqs[k + 1]
        BY <2>8, <4>1, Zenon
      <4>3. F[k] \in Seq(W) /\ Len(F[k]) = e[k]
        BY <2>10, <4>1
      <4>4. /\ F[k] \o seqs[k + 1] \in Seq(W)
            /\ Len(F[k] \o seqs[k + 1]) = Len(F[k]) + Len(seqs[k + 1])
        BY <3>1, <4>3, ConcatLen, Zenon
      <4> QED
        BY <3>1, <4>2, <4>3, <4>4, Zenon
    <3> QED
      BY <3>2, <3>3
  <2> HIDE DEF T
  <2>11. N \in T
    BY <2>9, <2>10, NatSetInduction
  <2> QED
    BY <1>2, <2>7, <2>11 DEF T
<1> QED
  BY <1>1, <1>2
\* FdtBlob pads and counts as FdtSw does.
LEMMA SamePadding ==
    /\ B!FDT_TAGSIZE = FDT_TAGSIZE
    /\ \A n \in Nat : B!FDT_TAGALIGN(n) = FDT_TAGALIGN(n)
BY DEF FDT_TAGALIGN, FDT_ALIGN, FDT_TAGSIZE,
       B!FDT_TAGALIGN, B!FDT_ALIGN, B!FDT_TAGSIZE

LEMMA StringLen ==
    ASSUME NEW v, NEW l \in Nat, Len(v) = l
    PROVE  B!val_len(<<B!Str(v)>>) = l + 1
<1> DEFINE lens == [k \in DOMAIN <<B!Str(v)>> |-> B!item_len(<<B!Str(v)>>[k])]
           e == [i \in 0 .. 1 |-> IF i = 0 THEN 0 ELSE l + 1]
<1>1. DOMAIN B!Str(v) = {"str"} /\ B!Str(v).str = v
  BY DEF B!Str
<1>2. B!item_len(B!Str(v)) = l + 1
  BY <1>1, Zenon DEF B!item_len
<1>3. Len(lens) = 1 /\ lens[1] = l + 1
  BY <1>2
<1>4. B!val_len(<<B!Str(v)>>) = B!Total(lens)
  BY Zenon DEF B!val_len
<1> HIDE DEF lens
<1>5. e \in [0 .. 1 -> Nat] /\ e[0] = 0 /\ e[1] = l + 1 /\ 1 \in Nat
  OBVIOUS
<1> HIDE DEF e
<1>6. \A k \in 1 .. 1 : e[k] = e[k - 1] + lens[k]
  BY <1>3, <1>5
<1>7. B!Total(lens) = e[1]
  BY <1>3, <1>5, <1>6, TotalIs, Zenon
<1> QED
  BY <1>4, <1>5, <1>7, Zenon

LEMMA UnitLen ==
    ASSUME NEW w, NEW n \in Nat, B!tag_words(w) = n + 1
    PROVE  B!Unit(w) \in Seq({w, B!Cont}) /\ Len(B!Unit(w)) = n + 1
<1> DEFINE rest == [k \in 1 .. n |-> B!Cont]
<1>1. 1 .. B!tag_words(w) - 1 = 1 .. n
  OBVIOUS
<1>2. B!Unit(w) = <<w>> \o rest
  BY <1>1, Zenon DEF B!Unit
<1>3. rest \in Seq({w, B!Cont}) /\ Len(rest) = n
  OBVIOUS
<1> HIDE DEF rest
<1>4. <<w>> \in Seq({w, B!Cont}) /\ Len(<<w>>) = 1
  OBVIOUS
<1>5. /\ <<w>> \o rest \in Seq({w, B!Cont})
      /\ Len(<<w>> \o rest) = Len(<<w>>) + Len(rest)
  BY <1>3, <1>4, ConcatLen, Zenon
<1>6. 1 + n = n + 1
  OBVIOUS
<1> QED
  BY <1>2, <1>3, <1>4, <1>5, <1>6, Zenon

\* A tag's words, and that they are as many as Words says.
LEMMA WordsOfLen ==
    ASSUME NEW t \in Tags
    PROVE  \E W : WordsOf(t) \in Seq(W) /\ Len(WordsOf(t)) = Words(t)
<1>1. /\ t.name \in NodeNames \cup PropNames /\ t.val \in Vals \cup {""}
      /\ t.tag \in {"BEGIN", "END_NODE", "PROP", "END"}
  BY DEF Tags
<1>2. PICK n \in Nat : Len(t.name) = n
  BY <1>1, TextLen, Zenon
<1>3. PICK v \in Nat : Len(t.val) = v
  BY <1>1, TextLen, Zenon
<1>4. CASE t.tag = "BEGIN"
  <2>1. PICK q \in Nat : FDT_TAGALIGN(n + 1) \div FDT_TAGSIZE = q
    <3>1. n + 1 \in Nat
      OBVIOUS
    <3> QED
      BY <3>1, TagAlignWords, Zenon
  <2>2. Words(t) = q + 1
    <3>1. 1 + q = q + 1
      OBVIOUS
    <3> QED
      BY <1>2, <1>4, <2>1, <3>1, Zenon DEF Words
  <2> DEFINE w == B!Begin(t.name)
  <2>3. w.tag = "BEGIN" /\ w.name = t.name
    BY DEF B!Begin, B!Word
  <2> HIDE DEF w
  <2>4. B!tag_words(w) = q + 1
    <3>1. n + 1 \in Nat /\ 1 + q = q + 1
      OBVIOUS
    <3>2. B!FDT_TAGALIGN(n + 1) \div B!FDT_TAGSIZE = q
      BY <2>1, <3>1, SamePadding, Zenon
    <3>3. B!tag_words(w) = 1 + B!FDT_TAGALIGN(n + 1) \div B!FDT_TAGSIZE
      BY <1>2, <2>3, Zenon DEF B!tag_words
    <3> QED
      BY <3>1, <3>2, <3>3, Zenon
  <2>5. WordsOf(t) = B!Unit(w)
    BY <1>4, Zenon DEF WordsOf, w
  <2> QED
    BY <2>2, <2>4, <2>5, UnitLen, Zenon
<1>5. CASE t.tag = "PROP"
  <2>1. PICK q \in Nat : FDT_TAGALIGN(v + 1) \div FDT_TAGSIZE = q
    <3>1. v + 1 \in Nat
      OBVIOUS
    <3> QED
      BY <3>1, TagAlignWords, Zenon
  <2>2. q + 2 \in Nat /\ 3 + q = (q + 2) + 1
    OBVIOUS
  <2>3. t.tag # "BEGIN"
    BY <1>5
  <2>4. Words(t) = (q + 2) + 1
    BY <1>3, <1>5, <2>1, <2>2, <2>3, Zenon DEF Words
  <2> DEFINE w == B!Prop(NameAt(t.nameoff), <<B!Str(t.val)>>)
  <2>5. w.tag = "PROP" /\ w.val = <<B!Str(t.val)>> /\ w.tag # "BEGIN"
    BY DEF B!Prop, B!Word
  <2>6. B!val_len(<<B!Str(t.val)>>) = v + 1
    BY <1>3, StringLen, Zenon
  <2>7. WordsOf(t) = B!Unit(w)
    BY <1>5, <2>3, Zenon DEF WordsOf
  <2> HIDE DEF w
  <2>8. B!tag_words(w) = (q + 2) + 1
    <3>1. v + 1 \in Nat
      OBVIOUS
    <3>2. B!FDT_TAGALIGN(v + 1) \div B!FDT_TAGSIZE = q
      BY <2>1, <3>1, SamePadding, Zenon
    <3>3. B!tag_words(w) = 3 + B!FDT_TAGALIGN(v + 1) \div B!FDT_TAGSIZE
      BY <2>5, <2>6, Zenon DEF B!tag_words
    <3> QED
      BY <2>2, <3>2, <3>3, Zenon
  <2> QED
    BY <2>2, <2>4, <2>7, <2>8, UnitLen, Zenon
<1>6. CASE t.tag \in {"END_NODE", "END"}
  <2>1. t.tag # "BEGIN" /\ t.tag # "PROP"
    BY <1>6
  <2>2. Words(t) = 1
    BY <2>1, Zenon DEF Words
  <2>3. \E w : WordsOf(t) = <<w>>
    <3>1. CASE t.tag = "END_NODE"
      BY <2>1, <3>1, Zenon DEF WordsOf
    <3>2. CASE t.tag = "END"
      <4>1. t.tag # "END_NODE"
        BY <3>2
      <4> QED
        BY <2>1, <3>2, <4>1, Zenon DEF WordsOf
    <3> QED
      BY <1>6, <3>1, <3>2
  <2>4. PICK w : WordsOf(t) = <<w>>
    BY <2>3
  <2>5. <<w>> \in Seq({w}) /\ Len(<<w>>) = 1
    OBVIOUS
  <2> QED
    BY <2>2, <2>4, <2>5, Zenon
<1> QED
  BY <1>1, <1>4, <1>5, <1>6

LEMMA SeqOfMore ==
    ASSUME NEW V, NEW W, V \subseteq W, NEW s \in Seq(V)
    PROVE  s \in Seq(W)
OBVIOUS

LEMMA BlobWords ==
    ASSUME fdt.tags \in Seq(Tags), NEW e, Counts(e, fdt.tags)
    PROVE  Len(Blob.words) = e[Len(fdt.tags)]
<1> DEFINE N == Len(fdt.tags)
           seqs == [k \in DOMAIN fdt.tags |-> WordsOf(fdt.tags[k])]
           In(k) == CHOOSE W : /\ WordsOf(fdt.tags[k]) \in Seq(W)
                               /\ Len(WordsOf(fdt.tags[k])) = Words(fdt.tags[k])
           All == UNION {In(k) : k \in 1 .. N}
<1>1. N \in Nat /\ DOMAIN fdt.tags = 1 .. N /\ \A k \in 1 .. N : fdt.tags[k] \in Tags
  OBVIOUS
<1>2. Blob.words = FlattenSeq(seqs)
  BY DEF Blob
<1> HIDE DEF N
<1>3. ASSUME NEW k \in 1 .. N
      PROVE  /\ WordsOf(fdt.tags[k]) \in Seq(In(k))
             /\ Len(WordsOf(fdt.tags[k])) = Words(fdt.tags[k])
  BY <1>1, WordsOfLen, Zenon
<1> HIDE DEF In
<1>4. ASSUME NEW k \in 1 .. N PROVE WordsOf(fdt.tags[k]) \in Seq(All)
  <2>1. In(k) \subseteq All
    OBVIOUS
  <2>2. WordsOf(fdt.tags[k]) \in Seq(In(k))
    BY <1>3
  <2> HIDE DEF All
  <2> QED
    BY <2>1, <2>2, SeqOfMore, Zenon
<1> HIDE DEF All
<1>5. seqs \in [1 .. N -> Seq(All)]
  BY <1>1, <1>4, Zenon
<1>6. \A k \in 1 .. N : e[k] = e[k - 1] + Len(seqs[k])
  <2>1. ASSUME NEW k \in 1 .. N PROVE e[k] = e[k - 1] + Len(seqs[k])
    <3>1. seqs[k] = WordsOf(fdt.tags[k])
      BY <1>1, Zenon
    <3> HIDE DEF seqs
    <3> QED
      BY <1>3, <3>1, Zenon DEF Counts, N
  <2> QED
    BY <2>1, Zenon
<1> HIDE DEF seqs
<1>7. e \in [0 .. N -> Nat] /\ e[0] = 0
  BY Zenon DEF Counts, N
<1>8. N \in Nat
  BY <1>1
<1>9. Len(FlattenSeq(seqs)) = e[N]
  <2>1. Lengths(e, N, seqs, All)
    BY <1>5, <1>6, <1>7, <1>8, Zenon DEF Lengths
  <2> QED
    BY <2>1, FlattenLen, Zenon
<1> QED
  BY <1>2, <1>9, Zenon DEF N

LEMMA BlobStrings ==
    ASSUME NEW strs \in Seq(PropNames), NEW size \in Nat, Filled(strs, size)
    PROVE  size = B!strs_len(strs)
<1> DEFINE N == Len(strs)
           lens == [k \in DOMAIN strs |-> Len(strs[k]) + 1]
           e == [i \in 0 .. N |->
                    IF i = 0 THEN 0 ELSE Starts(strs)[i] + Len(strs[i]) + 1]
<1>1. N \in Nat /\ DOMAIN strs = 1 .. N /\ (N = 0 <=> strs = <<>>)
  OBVIOUS
<1>2. /\ Starts(strs) \in [1 .. N -> Nat]
      /\ N > 0 => Starts(strs)[1] = 0
      /\ \A i \in 1 .. N - 1 : Starts(strs)[i + 1] = Starts(strs)[i] + Len(strs[i]) + 1
  BY StartsDef, Zenon
<1>3. \A i \in 1 .. N : Len(strs[i]) \in Nat
  BY NamesLen, Zenon
<1>4. Len(lens) = N /\ \A k \in 1 .. N : lens[k] = Len(strs[k]) + 1
  BY <1>1
<1>5. B!strs_len(strs) = B!Total(lens)
  BY Zenon DEF B!strs_len
<1> HIDE DEF N, lens
<1>6. /\ e \in [0 .. N -> Nat] /\ e[0] = 0
      /\ \A i \in 1 .. N : e[i] = Starts(strs)[i] + Len(strs[i]) + 1
  BY <1>1, <1>2, <1>3
<1> HIDE DEF e
<1>7. ASSUME NEW k \in 1 .. N PROVE e[k] = e[k - 1] + lens[k]
  <2>1. PICK m \in Nat : Len(strs[k]) = m
    BY <1>3
  <2>2. PICK b \in Nat : Starts(strs)[k] = b
    BY <1>2
  <2>3. e[k] = b + m + 1 /\ lens[k] = m + 1
    BY <1>4, <1>6, <2>1, <2>2, Zenon
  <2>4. e[k - 1] = b
    <3>1. CASE k = 1
      <4>1. N > 0 /\ k - 1 = 0
        BY <1>1, <3>1
      <4> QED
        BY <1>2, <1>6, <2>2, <3>1, <4>1, Zenon
    <3>2. CASE k # 1
      <4>1. k - 1 \in 1 .. N /\ k - 1 \in 1 .. N - 1 /\ (k - 1) + 1 = k
        BY <1>1, <3>2
      <4>2. Starts(strs)[k] = Starts(strs)[k - 1] + Len(strs[k - 1]) + 1
        BY <1>2, <4>1, Zenon
      <4> QED
        BY <1>6, <2>2, <4>1, <4>2, Zenon
    <3> QED
      BY <3>1, <3>2
  <2>5. b + m + 1 = b + (m + 1)
    OBVIOUS
  <2> QED
    BY <2>3, <2>4, <2>5, Zenon
<1>8. B!Total(lens) = e[N]
  BY <1>1, <1>4, <1>6, <1>7, TotalIs, Zenon
<1>9. size = e[N]
  <2>1. CASE N = 0
    BY <1>1, <1>6, <2>1 DEF Filled
  <2>2. CASE N # 0
    <3>1. N \in 1 .. N
      BY <1>1, <2>2
    <3> QED
      BY <1>1, <1>6, <2>2, <3>1, Zenon DEF Filled, N
  <2> QED
    BY <2>1, <2>2
<1> QED
  BY <1>5, <1>8, <1>9, Zenon

LEMMA SizesThere == SizesInv => SizesAgree
<1> SUFFICES ASSUME SizesInv
             PROVE  /\ fdt.sizeStruct = Len(Blob.words) * FDT_TAGSIZE
                    /\ fdt.sizeStrings = B!strs_len(fdt.strs)
  BY Zenon DEF SizesAgree
<1>1. /\ fdt.tags \in Seq(Tags) /\ fdt.strs \in Seq(PropNames)
      /\ fdt.sizeStrings \in Nat /\ Sized(fdt)
  BY Zenon DEF SizesInv, WholeInv, Whole, Named, Strings, Numbers
<1>2. PICK e : /\ Counts(e, fdt.tags)
               /\ fdt.sizeStruct = e[Len(fdt.tags)] * FDT_TAGSIZE
  BY <1>1, Zenon DEF Sized
<1>3. Len(Blob.words) = e[Len(fdt.tags)]
  BY <1>1, <1>2, BlobWords, Zenon
<1>4. fdt.sizeStrings = B!strs_len(fdt.strs)
  BY <1>1, BlobStrings, Zenon DEF Sized
<1> QED
  BY <1>2, <1>3, <1>4, Zenon

\* At every step of the writing, whichever calls have failed, and in the
\* finished and the opened tree: the sizes that the header holds are the bytes
\* of the tags and of the strings that are there.  _fdt_grab_space takes a tag's
\* padded length before the tag is written, and a string stays in the block, and
\* in its size, when the property that it was put there for finds no room.
THEOREM SwSizesAgree == Spec => []SizesAgree
BY SizesInit, SizesStep, SizesThere, PTL DEF Spec
=============================================================================
