--------------------------- MODULE FdtHeader_proofs ---------------------------
(***************************************************************************)
(* What one splice, one pack and one open do to a header that is laid out, *)
(* for buffers, lengths and numbers of entries of any size.                *)
(***************************************************************************)
EXTENDS FdtHeader, TLAPS

\* A header the read-write calls work on, with its reservation entries.
Good(h, n) == h \in Header /\ n \in Nat /\ h.version = 17 /\ LaidOut(h, n)

\* The fields of a header are numbers.
LEMMA HeaderFields ==
    ASSUME NEW h \in Header
    PROVE  /\ h.offRsv \in Nat /\ h.offStruct \in Nat /\ h.sizeStruct \in Nat
           /\ h.offStrings \in Nat /\ h.sizeStrings \in Nat /\ h.total \in Nat
BY DEF Header

\* g is the header h with its blocks packed behind the header.
PackedAs(g, h, memRsvSize, structSize) ==
    /\ g \in Header
    /\ g.version = h.version /\ g.total = h.total
    /\ g.offRsv = RSV_START
    /\ g.offStruct = RSV_START + memRsvSize
    /\ g.sizeStruct = structSize
    /\ g.offStrings = RSV_START + memRsvSize + structSize
    /\ g.sizeStrings = h.sizeStrings

\* What packing the blocks leaves in the header.
LEMMA PackedHeader ==
    ASSUME NEW h \in Header, NEW memRsvSize \in Nat, NEW structSize \in Nat
    PROVE  PackedAs(fdt_packblocks(h, memRsvSize, structSize),
                    h, memRsvSize, structSize)
<1>1. /\ RSV_START \in Nat
      /\ RSV_START + memRsvSize \in Nat
      /\ RSV_START + memRsvSize + structSize \in Nat
  BY DEF RSV_START
<1> QED
  BY <1>1 DEF fdt_packblocks, Header, PackedAs

\* What opening a blob in a buffer leaves in the header.
LEMMA OpenedHeader ==
    ASSUME NEW h \in Header, NEW bufsize \in Nat
    PROVE  LET g == Opened(h, bufsize)
           IN  /\ g \in Header
               /\ g.version = 17 /\ g.total = bufsize
               /\ g.offRsv = h.offRsv
               /\ g.offStruct = h.offStruct /\ g.sizeStruct = h.sizeStruct
               /\ g.offStrings = h.offStrings /\ g.sizeStrings = h.sizeStrings
BY DEF Opened, Header

\* fdt_open_into gives a laid out blob or an error, for a source whose blocks
\* are in any order.
LEMMA OpenIsGood ==
    ASSUME NEW h \in Header, NEW n \in Nat, NEW bufsize \in Nat, NEW gap \in Int,
           Openable(h, n),
           fdt_open_into(h, n, h.sizeStruct, bufsize, gap).ret = 0
    PROVE  Good(fdt_open_into(h, n, h.sizeStruct, bufsize, gap).hdr, n)
<1> DEFINE R == rsv_size(n)
           newsize == RSV_START + R + h.sizeStruct + h.sizeStrings
           overlap == newsize > gap - h.total /\ gap > 0
           r == fdt_open_into(h, n, h.sizeStruct, bufsize, gap)
<1>1. R \in Nat /\ h.sizeStruct \in Nat /\ h.total \in Nat
  BY DEF rsv_size, RSV_ENTRY, Header
<1>2. CASE ~fdt_blocks_misordered(h, R, h.sizeStruct)
  <2>1. r = IF h.total > bufsize THEN Fail(h, FDT_ERR_NOSPACE)
            ELSE Done(Opened(h, bufsize))
    BY <1>2 DEF fdt_open_into, Header
  <2>2. h.total <= bufsize
    BY <1>1, <2>1 DEF Fail, FDT_ERR_NOSPACE
  <2>3. r.hdr = Opened(h, bufsize)
    BY <1>1, <2>1, <2>2 DEF Done
  <2>4. LaidOut(h, n)
    BY <1>1, <1>2 DEF LaidOut, fdt_blocks_misordered, Header, RSV_START
  <2> DEFINE o == Opened(h, bufsize)
  <2>5. /\ o \in Header /\ o.version = 17 /\ o.total = bufsize
        /\ o.offRsv = h.offRsv
        /\ o.offStruct = h.offStruct /\ o.sizeStruct = h.sizeStruct
        /\ o.offStrings = h.offStrings /\ o.sizeStrings = h.sizeStrings
    BY OpenedHeader
  <2> HIDE DEF o, r
  <2>6. LaidOut(o, n)
    BY <2>2, <2>4, <2>5, HeaderFields DEF LaidOut
  <2> QED
    BY <2>3, <2>5, <2>6 DEF Good, o, r
<1>3. CASE fdt_blocks_misordered(h, R, h.sizeStruct)
  <2> DEFINE g == fdt_packblocks(h, R, h.sizeStruct)
  <2>1. r = IF bufsize < newsize \/ (overlap /\ gap + newsize > bufsize)
            THEN Fail(h, FDT_ERR_NOSPACE)
            ELSE Done(Opened(g, bufsize))
    BY <1>3 DEF fdt_open_into
  <2>2. ~(bufsize < newsize \/ (overlap /\ gap + newsize > bufsize))
    BY <2>1 DEF Fail, FDT_ERR_NOSPACE
  <2>3. r.hdr = Opened(g, bufsize)
    BY <2>1, <2>2 DEF Done
  <2>4. newsize <= bufsize
    BY <1>1, <2>2 DEF RSV_START, Header
  <2>5. /\ g \in Header
        /\ g.offRsv = RSV_START /\ g.offStruct = RSV_START + R
        /\ g.sizeStruct = h.sizeStruct /\ g.sizeStrings = h.sizeStrings
        /\ g.offStrings = RSV_START + R + h.sizeStruct
    <3>1. PackedAs(g, h, R, h.sizeStruct)
      BY <1>1, PackedHeader
    <3> HIDE DEF g
    <3> QED
      BY <3>1 DEF PackedAs
  <2> DEFINE o == Opened(g, bufsize)
  <2> HIDE DEF g
  <2>6. /\ o \in Header /\ o.version = 17 /\ o.total = bufsize
        /\ o.offRsv = g.offRsv
        /\ o.offStruct = g.offStruct /\ o.sizeStruct = g.sizeStruct
        /\ o.offStrings = g.offStrings /\ o.sizeStrings = g.sizeStrings
    BY <2>5, OpenedHeader
  <2> HIDE DEF o, r
  <2>7. LaidOut(o, n)
    BY <1>1, <2>4, <2>5, <2>6, HeaderFields DEF LaidOut, RSV_START
  <2> QED
    BY <2>3, <2>6, <2>7 DEF Good, o, r
<1> QED
  BY <1>2, <1>3

\* A laid out blob may be opened again.
LEMMA GoodIsOpenable ==
    ASSUME NEW h, NEW n, Good(h, n)
    PROVE  Openable(h, n)
<1>1. rsv_size(n) \in Nat /\ n \in Nat
  BY DEF Good, rsv_size, RSV_ENTRY
<1> QED
  BY <1>1 DEF Good, LaidOut, Openable, Disjoint, Header, RSV_START

\* Replacing bytes of the structure block.
LEMMA SpliceStructIsGood ==
    ASSUME NEW h, NEW n, Good(h, n), NEW oldlen \in Nat, NEW newlen \in Nat,
           oldlen <= h.sizeStruct
    PROVE  Good(fdt_splice_struct(h, 0, oldlen, newlen).hdr, n)
<1> DEFINE r == fdt_splice_struct(h, 0, oldlen, newlen)
           err == fdt_splice(h, h.offStruct + 0, oldlen, newlen)
<1>1. rsv_size(n) \in Nat
  BY DEF Good, rsv_size, RSV_ENTRY
<1>2. CASE err # 0
  <2>1. r.hdr = h
    BY <1>2 DEF fdt_splice_struct, Fail
  <2> QED
    BY <2>1
<1>3. CASE err = 0
  <2>1. r.hdr = [h EXCEPT !.sizeStruct = @ + (newlen - oldlen),
                          !.offStrings = @ + (newlen - oldlen)]
    BY <1>3 DEF fdt_splice_struct, Done
  <2>2. h.offStrings + h.sizeStrings - oldlen + newlen <= h.total
    BY <1>3 DEF fdt_splice, fdt_data_size, FDT_ERR_NOSPACE, FDT_ERR_BADOFFSET,
                Good, Header
  <2>3. /\ h.sizeStruct + (newlen - oldlen) \in Nat
        /\ h.offStrings + (newlen - oldlen) \in Nat
    BY <1>1 DEF Good, LaidOut, Header, RSV_START
  <2>4. r.hdr \in Header /\ r.hdr.version = 17
    BY <2>1, <2>3 DEF Good, Header
  <2>5. /\ r.hdr.offRsv = h.offRsv /\ r.hdr.offStruct = h.offStruct
        /\ r.hdr.sizeStruct = h.sizeStruct + (newlen - oldlen)
        /\ r.hdr.offStrings = h.offStrings + (newlen - oldlen)
        /\ r.hdr.sizeStrings = h.sizeStrings /\ r.hdr.total = h.total
    BY <2>1 DEF Good, Header
  <2>6. h \in Header /\ LaidOut(h, n)
    BY DEF Good
  <2> DEFINE g == r.hdr
  <2> HIDE DEF r
  <2>7. LaidOut(g, n)
    <3> HIDE DEF g
    <3> QED
      BY <1>1, <2>2, <2>3, <2>5, <2>6, HeaderFields DEF LaidOut, g
  <2> QED
    BY <2>4, <2>7 DEF Good, g, r
<1> QED
  BY <1>2, <1>3

\* It does not matter to the header where in the block they are, or that a byte
\* in front of it is meant.
LEMMA SpliceStructAt ==
    ASSUME NEW h, NEW n, Good(h, n), NEW off \in Int, NEW oldlen \in Nat,
           NEW newlen \in Nat, off + oldlen <= h.sizeStruct, oldlen <= h.sizeStruct
    PROVE  fdt_splice_struct(h, off, oldlen, newlen)
              = fdt_splice_struct(h, 0, oldlen, newlen)
<1>1. /\ h.offStruct \in Nat /\ h.sizeStruct \in Nat /\ h.offStrings \in Nat
      /\ h.sizeStrings \in Nat /\ h.offStruct + h.sizeStruct <= h.offStrings
  BY DEF Good, LaidOut, Header
<1>2. /\ h.offStruct + off + oldlen <= fdt_data_size(h)
      /\ h.offStruct + 0 + oldlen <= fdt_data_size(h)
      /\ fdt_data_size(h) \in Nat
  BY <1>1 DEF fdt_data_size
<1>3. fdt_splice(h, h.offStruct + off, oldlen, newlen)
         = fdt_splice(h, h.offStruct + 0, oldlen, newlen)
  BY <1>1, <1>2 DEF fdt_splice
<1> QED
  BY <1>3 DEF fdt_splice_struct

\* A splice that fits moves what is behind it.
LEMMA SpliceStructDone ==
    ASSUME NEW h \in Header, NEW oldlen \in Nat, NEW newlen \in Nat
    PROVE  LET r == fdt_splice_struct(h, 0, oldlen, newlen)
           IN  \/ r.ret # 0 /\ r.hdr = h
               \/ /\ r.ret = 0 /\ r.hdr.sizeStruct = h.sizeStruct + (newlen - oldlen)
                  /\ r.hdr.sizeStrings = h.sizeStrings
<1> DEFINE delta == newlen - oldlen
           err == fdt_splice(h, h.offStruct + 0, oldlen, newlen)
           r == fdt_splice_struct(h, 0, oldlen, newlen)
<1>1. r = IF err # 0 THEN Fail(h, -err)
          ELSE Done([h EXCEPT !.sizeStruct = @ + delta, !.offStrings = @ + delta])
  BY DEF fdt_splice_struct
<1>2. err \in Int
  BY DEF fdt_splice, FDT_ERR_BADOFFSET, FDT_ERR_NOSPACE
<1> HIDE DEF err, r, delta
<1>3. CASE err # 0
  BY <1>1, <1>2, <1>3 DEF Fail, r
<1>4. CASE err = 0
  <2>1. r.ret = 0
        /\ r.hdr = [h EXCEPT !.sizeStruct = @ + delta, !.offStrings = @ + delta]
    BY <1>1, <1>4 DEF Done
  <2>2. r.hdr.sizeStruct = h.sizeStruct + delta /\ r.hdr.sizeStrings = h.sizeStrings
    BY <2>1 DEF Header
  <2> QED
    BY <2>1, <2>2 DEF r, delta
<1> QED
  BY <1>3, <1>4

LEMMA SpliceStringDone ==
    ASSUME NEW h \in Header, NEW newlen \in Nat
    PROVE  LET r == fdt_splice_string(h, newlen)
           IN  \/ r.ret # 0 /\ r.hdr = h
               \/ r.ret = 0 /\ r.hdr.sizeStrings = h.sizeStrings + newlen
<1> DEFINE err == fdt_splice(h, fdt_data_size(h), 0, newlen)
           r == fdt_splice_string(h, newlen)
<1>1. r = IF err # 0 THEN Fail(h, -err) ELSE Done([h EXCEPT !.sizeStrings = @ + newlen])
  BY DEF fdt_splice_string
<1>2. err \in Int
  BY DEF fdt_splice, FDT_ERR_BADOFFSET, FDT_ERR_NOSPACE
<1> HIDE DEF err, r
<1>3. CASE err # 0
  BY <1>1, <1>2, <1>3 DEF Fail, r
<1>4. CASE err = 0
  BY <1>1, <1>4 DEF Done, Header, r
<1> QED
  BY <1>3, <1>4

LEMMA SpliceRsvDone ==
    ASSUME NEW h \in Header, NEW p, NEW oldn \in Nat, NEW newn \in Nat
    PROVE  LET r == fdt_splice_mem_rsv(h, p, oldn, newn)
           IN  \/ r.ret # 0 /\ r.hdr = h
               \/ /\ r.ret = 0 /\ r.hdr.sizeStruct = h.sizeStruct
                  /\ r.hdr.sizeStrings = h.sizeStrings
<1> DEFINE delta == (newn - oldn) * RSV_ENTRY
           err == fdt_splice(h, p, oldn * RSV_ENTRY, newn * RSV_ENTRY)
           r == fdt_splice_mem_rsv(h, p, oldn, newn)
<1>1. r = IF err # 0 THEN Fail(h, -err)
          ELSE Done([h EXCEPT !.offStruct = @ + delta, !.offStrings = @ + delta])
  BY DEF fdt_splice_mem_rsv
<1>2. err \in Int
  BY DEF fdt_splice, FDT_ERR_BADOFFSET, FDT_ERR_NOSPACE
<1> HIDE DEF err, r, delta
<1>3. CASE err # 0
  BY <1>1, <1>2, <1>3 DEF Fail, r
<1>4. CASE err = 0
  <2>1. r.ret = 0
        /\ r.hdr = [h EXCEPT !.offStruct = @ + delta, !.offStrings = @ + delta]
    BY <1>1, <1>4 DEF Done
  <2>2. r.hdr.sizeStruct = h.sizeStruct /\ r.hdr.sizeStrings = h.sizeStrings
    BY <2>1 DEF Header
  <2> QED
    BY <2>1, <2>2 DEF r
<1> QED
  BY <1>3, <1>4

\* A header that is laid out passes the check of the read-write calls.
LEMMA GoodChecks ==
    ASSUME NEW h, NEW n, Good(h, n)
    PROVE  fdt_rw_check_header(h) = 0 /\ fdt_rw_header(h) = h
<1>1. h \in Header /\ h.version = 17 /\ rsv_size(n) >= RSV_ENTRY /\ rsv_size(n) \in Nat
  BY DEF Good, rsv_size, RSV_ENTRY
<1>2. ~fdt_blocks_misordered(h, RSV_ENTRY, h.sizeStruct)
  BY <1>1 DEF Good, LaidOut, fdt_blocks_misordered, Header, RSV_ENTRY, RSV_START
<1>3. fdt_rw_header(h) = h
  BY <1>1 DEF fdt_rw_header, Header
<1> QED
  BY <1>1, <1>2, <1>3 DEF fdt_rw_check_header

\* An open keeps the sizes of the blocks.
LEMMA OpenKeepsSizes ==
    ASSUME NEW h \in Header, NEW n \in Nat, NEW bufsize \in Nat, NEW gap \in Int
    PROVE  LET g == fdt_open_into(h, n, h.sizeStruct, bufsize, gap).hdr
           IN  g.sizeStruct = h.sizeStruct /\ g.sizeStrings = h.sizeStrings
<1> DEFINE R == rsv_size(n)
           g == fdt_open_into(h, n, h.sizeStruct, bufsize, gap).hdr
           p == fdt_packblocks(h, R, h.sizeStruct)
<1>1. R \in Nat /\ h.sizeStruct \in Nat
  BY DEF rsv_size, RSV_ENTRY, Header
<1>2. [h EXCEPT !.sizeStruct = h.sizeStruct] = h
  BY DEF Header
<1>3. (IF h.version >= 17 THEN h.sizeStruct ELSE h.sizeStruct) = h.sizeStruct
  OBVIOUS
<1>4. g = h \/ g = Opened(h, bufsize) \/ g = Opened(p, bufsize)
  BY <1>2, <1>3 DEF fdt_open_into, Done, Fail
<1>5. PackedAs(p, h, R, h.sizeStruct)
  BY <1>1, PackedHeader
<1>6. /\ Opened(h, bufsize).sizeStruct = h.sizeStruct
      /\ Opened(h, bufsize).sizeStrings = h.sizeStrings
  BY OpenedHeader
<1> HIDE DEF p, g
<1>7. /\ Opened(p, bufsize).sizeStruct = h.sizeStruct
      /\ Opened(p, bufsize).sizeStrings = h.sizeStrings
  BY <1>5, OpenedHeader DEF PackedAs
<1> QED
  BY <1>4, <1>6, <1>7 DEF g

\* Adding a name to the strings block.
LEMMA SpliceStringIsGood ==
    ASSUME NEW h, NEW n, Good(h, n), NEW newlen \in Nat
    PROVE  LET g == fdt_splice_string(h, newlen).hdr
           IN  Good(g, n) /\ g.sizeStruct = h.sizeStruct /\ g.total = h.total
<1> DEFINE r == fdt_splice_string(h, newlen)
           err == fdt_splice(h, fdt_data_size(h), 0, newlen)
<1>1. rsv_size(n) \in Nat
  BY DEF Good, rsv_size, RSV_ENTRY
<1>2. CASE err # 0
  <2>1. r.hdr = h
    BY <1>2 DEF fdt_splice_string, Fail
  <2> QED
    BY <2>1
<1>3. CASE err = 0
  <2>1. r.hdr = [h EXCEPT !.sizeStrings = @ + newlen]
    BY <1>3 DEF fdt_splice_string, Done
  <2>2. h.offStrings + h.sizeStrings + newlen <= h.total
    BY <1>3 DEF fdt_splice, fdt_data_size, FDT_ERR_NOSPACE, FDT_ERR_BADOFFSET,
                Good, Header
  <2> QED
    BY <1>1, <2>1, <2>2 DEF Good, LaidOut, Header, RSV_START
<1> QED
  BY <1>2, <1>3

\* Adding or removing one reservation entry.
LEMMA SpliceRsvIsGood ==
    ASSUME NEW h, NEW n, Good(h, n), NEW p \in Nat,
           NEW oldn \in {0, 1}, NEW newn \in {0, 1}, n + newn - oldn \in Nat,
           fdt_splice_mem_rsv(h, p, oldn, newn).ret = 0
    PROVE  LET g == fdt_splice_mem_rsv(h, p, oldn, newn).hdr
           IN  /\ Good(g, n + newn - oldn)
               /\ g.total = h.total
<1> DEFINE r == fdt_splice_mem_rsv(h, p, oldn, newn)
           delta == (newn - oldn) * RSV_ENTRY
           err == fdt_splice(h, p, oldn * RSV_ENTRY, newn * RSV_ENTRY)
<1>1. /\ n \in Nat
      /\ rsv_size(n) = 16 * n + 16
      /\ rsv_size(n + newn - oldn) = 16 * n + 16 + delta
      /\ delta \in Int
  BY DEF Good, rsv_size, RSV_ENTRY
<1>2. err = 0
  <2>1. err # 0 => r.ret = err
    BY DEF fdt_splice_mem_rsv, Fail, fdt_splice, FDT_ERR_BADOFFSET,
           FDT_ERR_NOSPACE
  <2> QED
    BY <2>1
<1>3. r.hdr = [h EXCEPT !.offStruct = @ + delta, !.offStrings = @ + delta]
  BY <1>2 DEF fdt_splice_mem_rsv, Done
<1>4. h.offStrings + h.sizeStrings + delta <= h.total
  <2>2. fdt_data_size(h) \in Nat /\ h.total \in Nat
    BY DEF Good, Header, fdt_data_size
  <2> DEFINE o == oldn * RSV_ENTRY
             w == newn * RSV_ENTRY
  <2>3. o \in Nat /\ w \in Nat /\ p \in Nat
    BY DEF RSV_ENTRY
  <2> HIDE DEF o, w
  <2>1. ~(fdt_data_size(h) - o + w > h.total)
    <3>1. fdt_splice(h, p, o, w) = 0
      BY <1>2 DEF o, w
    <3> QED
      BY <2>2, <2>3, <3>1 DEF fdt_splice, FDT_ERR_NOSPACE, FDT_ERR_BADOFFSET
  <2> USE DEF o, w
  <2> QED
    BY <2>1, <2>2 DEF fdt_data_size, Good, Header, RSV_ENTRY
<1>5. /\ h.offStruct + delta \in Nat
      /\ h.offStrings + delta \in Nat
  <2>1. /\ h.offRsv \in Nat /\ h.offStruct \in Nat /\ h.sizeStruct \in Nat
        /\ h.offStrings \in Nat
        /\ h.offRsv + 16 * n + 16 <= h.offStruct
        /\ h.offStruct + h.sizeStruct <= h.offStrings
    BY <1>1 DEF Good, LaidOut, Header
  <2>2. delta \in {-16, 0, 16}
    BY DEF RSV_ENTRY
  <2> HIDE DEF delta
  <2> QED
    BY <1>1, <2>1, <2>2
<1>6. r.hdr \in Header /\ r.hdr.version = 17 /\ r.hdr.total = h.total
  BY <1>3, <1>5 DEF Good, Header
<1>7. LaidOut(r.hdr, n + newn - oldn)
  BY <1>1, <1>3, <1>4 DEF Good, LaidOut, Header, RSV_START
<1> QED
  BY <1>6, <1>7 DEF Good

\* Packing.
LEMMA PackIsGood ==
    ASSUME NEW h, NEW n, Good(h, n)
    PROVE  /\ Good(fdt_pack(h, n), n)
           /\ fdt_pack(h, n).sizeStruct = h.sizeStruct
           /\ fdt_pack(h, n).sizeStrings = h.sizeStrings
<1>1. rsv_size(n) \in Nat /\ n \in Nat
  BY DEF Good, rsv_size, RSV_ENTRY
<1> DEFINE g == fdt_packblocks(h, rsv_size(n), h.sizeStruct)
<1>2. h \in Header /\ h.sizeStruct \in Nat /\ h.sizeStrings \in Nat
      /\ h.version = 17
  BY DEF Good, Header
<1>3. /\ g \in Header /\ g.version = 17
      /\ g.offRsv = RSV_START /\ g.offStruct = RSV_START + rsv_size(n)
      /\ g.sizeStruct = h.sizeStruct /\ g.sizeStrings = h.sizeStrings
      /\ g.offStrings = RSV_START + rsv_size(n) + h.sizeStruct
  <2>1. rsv_size(n) \in Nat
    BY <1>1
  <2>2. h \in Header /\ h.sizeStruct \in Nat
    BY <1>2
  <2>3. PackedAs(g, h, rsv_size(n), h.sizeStruct)
    BY <2>1, <2>2, PackedHeader
  <2> HIDE DEF g
  <2> QED
    BY <1>2, <2>3 DEF PackedAs
<1>4. fdt_pack(h, n) = [g EXCEPT !.total = g.offStrings + g.sizeStrings]
  BY DEF fdt_pack, fdt_data_size
<1> HIDE DEF g
<1>5. g.offStrings + g.sizeStrings \in Nat
  BY <1>3 DEF Header
<1>6. /\ fdt_pack(h, n) \in Header /\ fdt_pack(h, n).version = 17
      /\ fdt_pack(h, n).sizeStruct = h.sizeStruct
      /\ fdt_pack(h, n).sizeStrings = h.sizeStrings
  BY <1>3, <1>4, <1>5 DEF Header
<1>7. LaidOut(fdt_pack(h, n), n)
  BY <1>1, <1>2, <1>3, <1>4, <1>5 DEF LaidOut, Header, RSV_START
<1> QED
  BY <1>1, <1>6, <1>7 DEF Good
=============================================================================
