--------------------------- MODULE FdtLayout_proofs ---------------------------
(***************************************************************************)
(* The layout of a blob is sound for buffers, lengths and numbers of       *)
(* entries of any size.  LayoutInv is inductive as it stands; each action  *)
(* is one or two of the splices, packs and opens of FdtHeader_proofs.      *)
(***************************************************************************)
EXTENDS FdtLayout, FdtHeader_proofs

-----------------------------------------------------------------------------
\* LayoutInv in the words of the lemmas.
LEMMA LayoutInvIsGood == LayoutInv <=> Good(hdr, nrsv)
BY DEF LayoutInv, TypeOK, Good

LEMMA InitLayout == Init => LayoutInv
<1> SUFFICES ASSUME Init PROVE LayoutInv
  OBVIOUS
<1>1. PICK s \in Sources, bufsize \in Buffers :
        LET r == fdt_open_into(s.hdr, s.nrsv, s.hdr.sizeStruct, bufsize, 0)
        IN  r.ret = 0 /\ hdr = r.hdr /\ nrsv = s.nrsv
  BY DEF Init
<1>2. s.hdr \in Header /\ s.nrsv \in Nat /\ Openable(s.hdr, s.nrsv)
  BY SourcesAssumption
<1>3. bufsize \in Nat
  BY BuffersAssumption
<1> QED
  BY <1>1, <1>2, <1>3, OpenIsGood, LayoutInvIsGood

\* Each call keeps the blob laid out.
LEMMA NextLayout == LayoutInv /\ [Next]_vars => LayoutInv'
<1> SUFFICES ASSUME LayoutInv, [Next]_vars PROVE LayoutInv'
  OBVIOUS
<1>0. Good(hdr, nrsv)
  BY LayoutInvIsGood
<1>1. hdr \in Header /\ nrsv \in Nat
  BY <1>0 DEF Good
<1>2. ASSUME Good(hdr', nrsv') PROVE LayoutInv'
  BY <1>2 DEF LayoutInv, TypeOK, Good
<1>3. CASE fdt_add_mem_rsv
  <2>1. hdr.offRsv + nrsv * RSV_ENTRY \in Nat
    BY <1>1 DEF Header, RSV_ENTRY
  <2>2. nrsv + 1 - 0 = nrsv + 1 /\ nrsv + 1 \in Nat
    BY <1>1
  <2>3. Good(fdt_splice_mem_rsv(hdr, hdr.offRsv + nrsv * RSV_ENTRY, 0, 1).hdr,
             nrsv + 1 - 0)
    BY <1>0, <1>3, <2>1, <2>2, SpliceRsvIsGood DEF fdt_add_mem_rsv
  <2> QED
    BY <1>2, <1>3, <2>2, <2>3 DEF fdt_add_mem_rsv
<1>4. ASSUME NEW n \in 0 .. nrsv, fdt_del_mem_rsv(n) PROVE LayoutInv'
  <2>1. hdr.offRsv + n * RSV_ENTRY \in Nat
    BY <1>1 DEF Header, RSV_ENTRY
  <2>2. nrsv + 0 - 1 = nrsv - 1 /\ nrsv - 1 \in Nat
    BY <1>1, <1>4 DEF fdt_del_mem_rsv
  <2>3. Good(fdt_splice_mem_rsv(hdr, hdr.offRsv + n * RSV_ENTRY, 1, 0).hdr,
             nrsv + 0 - 1)
    BY <1>0, <1>4, <2>1, <2>2, SpliceRsvIsGood DEF fdt_del_mem_rsv
  <2> QED
    BY <1>2, <1>4, <2>2, <2>3 DEF fdt_del_mem_rsv
<1>5. ASSUME NEW oldlen \in Lens, NEW newlen \in Lens, EditStruct(oldlen, newlen)
      PROVE  LayoutInv'
  <2>1. oldlen \in Nat /\ newlen \in Nat
    BY LensAssumption
  <2> QED
    BY <1>0, <1>2, <1>5, <2>1, SpliceStructIsGood DEF EditStruct
<1>6. ASSUME NEW namelen \in Lens, NEW proplen \in Lens,
             AddNamedProperty(namelen, proplen)
      PROVE  LayoutInv'
  <2> DEFINE s == fdt_splice_string(hdr, namelen)
  <2>1. namelen \in Nat /\ proplen \in Nat
    BY LensAssumption
  <2>2. Good(s.hdr, nrsv)
    BY <1>0, <2>1, SpliceStringIsGood
  <2>3. 0 <= s.hdr.sizeStruct
    BY <2>2 DEF Good, Header
  <2>4. Good(fdt_splice_struct(s.hdr, 0, 0, proplen).hdr, nrsv)
    BY <2>1, <2>2, <2>3, SpliceStructIsGood
  <2> QED
    BY <1>2, <1>6, <2>4 DEF AddNamedProperty
<1>7. ASSUME NEW bufsize \in Buffers, Reopen(bufsize) PROVE LayoutInv'
  <2>1. bufsize \in Nat
    BY BuffersAssumption
  <2>2. Openable(hdr, nrsv) /\ hdr.total \in Int
    BY <1>0, <1>1, GoodIsOpenable DEF Header
  <2> QED
    BY <1>1, <1>2, <1>7, <2>1, <2>2, OpenIsGood DEF Reopen
<1>8. CASE Pack
  BY <1>0, <1>2, <1>8, PackIsGood DEF Pack
<1>9. CASE UNCHANGED vars
  BY <1>9 DEF vars, LayoutInv, TypeOK
<1> QED
  BY <1>3, <1>4, <1>5, <1>6, <1>7, <1>8, <1>9 DEF Next

\* For every source, buffer and length, no sequence of calls ever makes a
\* block of the blob reach into another or past the end of its buffer.
THEOREM LayoutInvariant == Spec => []LayoutInv
<1>1. Init => LayoutInv
  BY InitLayout
<1>2. LayoutInv /\ [Next]_vars => LayoutInv'
  BY NextLayout
<1> QED
  BY <1>1, <1>2, PTL DEF Spec

\* fdt_pack may move the blocks one by one within the blob.
THEOREM PackInPlace == Spec => []PackInPlaceInv
<1>1. LayoutInv => PackInPlaceInv
  <2> SUFFICES ASSUME LayoutInv PROVE PackInPlaceInv
    OBVIOUS
  <2>1. rsv_size(nrsv) \in Nat
    BY DEF LayoutInv, TypeOK, rsv_size, RSV_ENTRY
  <2> QED
    BY <2>1 DEF LayoutInv, TypeOK, LaidOut, PackInPlaceInv, fdt_packblocks,
                Header, RSV_START
<1> QED
  BY <1>1, LayoutInvariant, PTL

\* What packing and reopening make of a blob: its blocks without gaps, in the
\* buffer it had.
LEMMA RepackedBlob ==
    ASSUME LayoutInv
    PROVE  /\ Repacked.ret = 0
           /\ Good(Repacked.hdr, nrsv)
           /\ Repacked.hdr.total = hdr.total
           /\ Repacked.hdr.sizeStruct = hdr.sizeStruct
           /\ fdt_data_size(Repacked.hdr) = Contents
<1> DEFINE R == rsv_size(nrsv)
           b == fdt_packblocks(hdr, R, hdr.sizeStruct)
           p == fdt_pack(hdr, nrsv)
           o == Opened(p, hdr.total)
<1>1. /\ Good(hdr, nrsv) /\ hdr \in Header /\ R \in Nat
      /\ hdr.sizeStruct \in Nat /\ hdr.sizeStrings \in Nat /\ hdr.total \in Nat
      /\ Contents \in Nat
  BY LayoutInvIsGood DEF Good, Header, rsv_size, RSV_ENTRY, Contents, RSV_START
<1>2. Contents <= hdr.total
  BY <1>1 DEF Good, LaidOut, Contents, Header, RSV_START
<1>3. PackedAs(b, hdr, R, hdr.sizeStruct)
  BY <1>1, PackedHeader
<1>4. p = [b EXCEPT !.total = fdt_data_size(b)]
  BY DEF fdt_pack
<1> HIDE DEF b
<1>5. fdt_data_size(b) = Contents
  BY <1>1, <1>3 DEF PackedAs, fdt_data_size, Contents
<1>6. /\ p \in Header /\ p.total = Contents
      /\ p.offRsv = RSV_START /\ p.offStruct = RSV_START + R
      /\ p.sizeStruct = hdr.sizeStruct /\ p.sizeStrings = hdr.sizeStrings
      /\ p.offStrings = RSV_START + R + hdr.sizeStruct
  BY <1>1, <1>3, <1>4, <1>5 DEF PackedAs, Header
<1>7. Good(p, nrsv)
  BY <1>1, PackIsGood
<1> HIDE DEF p
<1>8. ~fdt_blocks_misordered(p, R, p.sizeStruct)
  BY <1>1, <1>6 DEF fdt_blocks_misordered, Contents, RSV_START
<1>9. [p EXCEPT !.sizeStruct = p.sizeStruct] = p /\ p.version = 17
  BY <1>6, <1>7 DEF Good, Header
<1>10. Repacked = Done(o)
  BY <1>1, <1>2, <1>6, <1>8, <1>9 DEF Repacked, fdt_open_into, p
<1>11. Repacked.ret = 0 /\ Repacked.hdr = o
  BY <1>10 DEF Done
<1>12. /\ o \in Header /\ o.version = 17 /\ o.total = hdr.total
       /\ o.offRsv = p.offRsv /\ o.offStruct = p.offStruct
       /\ o.sizeStruct = p.sizeStruct /\ o.offStrings = p.offStrings
       /\ o.sizeStrings = p.sizeStrings
  BY <1>1, <1>6, OpenedHeader
<1> HIDE DEF o
<1>13. fdt_data_size(o) = Contents
  BY <1>1, <1>6, <1>12 DEF fdt_data_size, Contents
<1>14. Good(o, nrsv)
  BY <1>1, <1>2, <1>6, <1>12 DEF Good, LaidOut, Contents, RSV_START
<1> QED
  BY <1>6, <1>11, <1>12, <1>13, <1>14

\* Room is never lost: packed and reopened in its buffer, a blob takes every
\* edit whose result fits in it (fdt_pack, fdt_open_into, _fdt_splice).
THEOREM NoRoomIsLost == Spec => []RoomComesBack
<1>1. LayoutInv => RoomComesBack
  <2> SUFFICES ASSUME LayoutInv PROVE RoomComesBack
    OBVIOUS
  <2> DEFINE g == Repacked.hdr
  <2>1. /\ Repacked.ret = 0 /\ Good(g, nrsv) /\ g.total = hdr.total
        /\ g.sizeStruct = hdr.sizeStruct /\ fdt_data_size(g) = Contents
    BY RepackedBlob
  <2>2. fdt_rw_check_header(g) = 0
    BY <2>1, GoodChecks
  <2>3. /\ g.offStruct \in Nat /\ g.sizeStruct \in Nat /\ g.total \in Nat
        /\ Contents \in Int /\ g.offStruct + g.sizeStruct <= Contents
    BY <2>1 DEF Good, LaidOut, Header, fdt_data_size
  <2> HIDE DEF g
  <2>4. ASSUME NEW oldlen \in Lens, NEW newlen \in Lens, oldlen <= hdr.sizeStruct
        PROVE  fdt_splice_struct(g, 0, oldlen, newlen).ret = 0
                  <=> Contents - oldlen + newlen <= hdr.total
    <3> DEFINE err == fdt_splice(g, g.offStruct + 0, oldlen, newlen)
    <3>1. oldlen \in Nat /\ newlen \in Nat
      BY LensAssumption
    <3>2. err = IF Contents - oldlen + newlen > hdr.total
                THEN -FDT_ERR_NOSPACE ELSE 0
      BY <2>1, <2>3, <2>4, <3>1 DEF fdt_splice
    <3>3. fdt_splice_struct(g, 0, oldlen, newlen).ret = 0 <=> err = 0
      BY <3>2 DEF fdt_splice_struct, Done, Fail, FDT_ERR_NOSPACE
    <3> QED
      BY <2>1, <2>3, <3>1, <3>2, <3>3 DEF FDT_ERR_NOSPACE
  <2>5. ASSUME NEW len \in Lens
        PROVE  fdt_splice_string(g, len).ret = 0 <=> Contents + len <= hdr.total
    <3> DEFINE err == fdt_splice(g, fdt_data_size(g), 0, len)
    <3>1. len \in Nat
      BY LensAssumption
    <3>2. err = IF Contents + len > hdr.total THEN -FDT_ERR_NOSPACE ELSE 0
      BY <2>1, <2>3, <3>1 DEF fdt_splice
    <3>3. fdt_splice_string(g, len).ret = 0 <=> err = 0
      BY <3>2 DEF fdt_splice_string, Done, Fail, FDT_ERR_NOSPACE
    <3> QED
      BY <2>1, <2>3, <3>1, <3>2, <3>3 DEF FDT_ERR_NOSPACE
  <2> QED
    BY <2>1, <2>2, <2>4, <2>5 DEF RoomComesBack, g
<1> QED
  BY <1>1, LayoutInvariant, PTL

\* Twice the size of a blob, which is what main gives fdt_open_into, is always
\* enough for it, in whatever order its blocks are, when the buffer lies clear
\* of it; and the opened tree has at least the size of the blob to spare.
THEOREM TwiceIsEnough ==
    ASSUME NEW h \in Header, NEW n \in Nat, Openable(h, n)
    PROVE  LET r == fdt_open_into(h, n, h.sizeStruct, 2 * h.total, 0)
           IN  /\ r.ret = 0
               /\ Good(r.hdr, n)
               /\ r.hdr.total - fdt_data_size(r.hdr) >= h.total
<1> DEFINE R == rsv_size(n)
           newsize == RSV_START + R + h.sizeStruct + h.sizeStrings
           overlap == newsize > 0 - h.total /\ 0 > 0
           r == fdt_open_into(h, n, h.sizeStruct, 2 * h.total, 0)
           Spare == r.ret = 0 /\ r.hdr.total - fdt_data_size(r.hdr) >= h.total
<1>0. /\ h.sizeStruct \in Nat /\ h.sizeStrings \in Nat /\ h.offStrings \in Nat
      /\ h.total \in Nat /\ 2 * h.total \in Nat
  BY DEF Header
<1>1. R \in Nat
  BY DEF rsv_size, RSV_ENTRY
<1>2. newsize <= h.total
  BY <1>1 DEF Openable, Disjoint, Header, RSV_START
<1>3. ASSUME ~fdt_blocks_misordered(h, R, h.sizeStruct) PROVE Spare
  <2>1. r = Done(Opened(h, 2 * h.total))
    BY <1>3 DEF fdt_open_into, Header
  <2>2. r.ret = 0 /\ r.hdr = Opened(h, 2 * h.total)
    BY <2>1 DEF Done
  <2>3. h.offStrings + h.sizeStrings <= h.total
    BY DEF Openable
  <2> DEFINE o == Opened(h, 2 * h.total)
  <2>4. /\ o.total = 2 * h.total
        /\ o.offStrings = h.offStrings /\ o.sizeStrings = h.sizeStrings
    BY <1>0, OpenedHeader
  <2> HIDE DEF o, r
  <2>5. o.total - fdt_data_size(o) >= h.total
    BY <1>0, <2>3, <2>4 DEF fdt_data_size
  <2> QED
    BY <2>2, <2>5 DEF o, r
<1>4. ASSUME fdt_blocks_misordered(h, R, h.sizeStruct) PROVE Spare
  <2> DEFINE g == fdt_packblocks(h, R, h.sizeStruct)
  <2>1. ~(2 * h.total < newsize \/ (overlap /\ 0 + newsize > 2 * h.total))
    BY <1>0, <1>1, <1>2 DEF RSV_START
  <2>2. r = Done(Opened(g, 2 * h.total))
    BY <1>4, <2>1 DEF fdt_open_into
  <2>3. r.ret = 0 /\ r.hdr = Opened(g, 2 * h.total)
    BY <2>2 DEF Done
  <2>4. /\ g \in Header
        /\ g.offRsv = RSV_START /\ g.offStruct = RSV_START + R
        /\ g.sizeStruct = h.sizeStruct /\ g.sizeStrings = h.sizeStrings
        /\ g.offStrings = RSV_START + R + h.sizeStruct
    <3>1. h \in Header /\ R \in Nat /\ h.sizeStruct \in Nat
      BY <1>0, <1>1
    <3>2. PackedAs(g, h, R, h.sizeStruct)
      BY <3>1, PackedHeader
    <3> HIDE DEF g
    <3> QED
      BY <3>2 DEF PackedAs
  <2> DEFINE o == Opened(g, 2 * h.total)
  <2> HIDE DEF g
  <2>5. /\ o.total = 2 * h.total
        /\ o.offStrings = g.offStrings /\ o.sizeStrings = g.sizeStrings
    BY <1>0, <2>4, OpenedHeader
  <2> HIDE DEF o, r
  <2>6. o.total - fdt_data_size(o) >= h.total
    BY <1>0, <1>1, <1>2, <2>4, <2>5 DEF fdt_data_size, RSV_START
  <2> QED
    BY <2>3, <2>6 DEF o, r
<1>5. Spare
  BY <1>3, <1>4
<1>6. Good(r.hdr, n)
  <2> QED
    BY <1>0, <1>5, OpenIsGood
<1> QED
  BY <1>5, <1>6
=============================================================================
