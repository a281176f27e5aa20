------------------------------ MODULE FdtHeader ------------------------------
(***************************************************************************)
(* The header of a flattened device tree and the arithmetic that libfdt's  *)
(* read-write half does on it: where the memory reservation block, the     *)
(* structure block and the strings block lie, and how splicing one of them *)
(* moves the others.  Contents are not modelled here (see FdtBlob): every  *)
(* operator takes a header and the lengths involved, in bytes.             *)
(*                                                                         *)
(* A header is [version, offRsv, offStruct, sizeStruct, offStrings,        *)
(* sizeStrings, total].  The number of reservation entries in front of the *)
(* all-zero terminator is not a header field and is passed as nrsv.        *)
(***************************************************************************)
EXTENDS Integers

FDT_ERR_NOTFOUND     == 1
FDT_ERR_EXISTS       == 2
FDT_ERR_NOSPACE      == 3
FDT_ERR_BADOFFSET    == 4
FDT_ERR_BADPATH      == 5
FDT_ERR_TRUNCATED    == 8
FDT_ERR_BADVERSION   == 10
FDT_ERR_BADSTRUCTURE == 11
FDT_ERR_BADLAYOUT    == 12

FDT_TAGSIZE == 4
RSV_ENTRY   == 16       \* sizeof(struct fdt_reserve_entry)

FDT_ALIGN(x, a) == ((x + a - 1) \div a) * a
FDT_TAGALIGN(x) == FDT_ALIGN(x, FDT_TAGSIZE)

RSV_START == 40         \* FDT_ALIGN(sizeof(struct fdt_header), 8)

Header == [version : Nat, offRsv : Nat, offStruct : Nat, sizeStruct : Nat,
           offStrings : Nat, sizeStrings : Nat, total : Nat]

\* What a splice returns: the C return value and the header it leaves.
Done(h)      == [ret |-> 0, hdr |-> h]
Fail(h, err) == [ret |-> -err, hdr |-> h]

rsv_size(nrsv) == (nrsv + 1) * RSV_ENTRY

fdt_blocks_misordered(h, memRsvSize, structSize) ==
    \/ h.offRsv < RSV_START
    \/ h.offStruct < h.offRsv + memRsvSize
    \/ h.offStrings < h.offStruct + structSize
    \/ h.total < h.offStrings + h.sizeStrings

\* The check every read-write call starts with: 0 or the error to return.
fdt_rw_check_header(h) ==
    CASE h.version < 17 -> -FDT_ERR_BADVERSION
      [] h.version >= 17 /\ fdt_blocks_misordered(h, RSV_ENTRY, h.sizeStruct)
             -> -FDT_ERR_BADLAYOUT
      [] OTHER -> 0

\* ... and the version a successful check leaves in the header.
fdt_rw_header(h) == [h EXCEPT !.version = 17]

fdt_data_size(h) == h.offStrings + h.sizeStrings

\* Seeded fault: the room is compared with what the blob holds now.
fdt_splice_unchecked(h, p, oldlen, newlen) ==
    CASE p + oldlen > fdt_data_size(h) -> -FDT_ERR_BADOFFSET
      [] p + oldlen <= fdt_data_size(h) /\ fdt_data_size(h) > h.total
             -> -FDT_ERR_NOSPACE
      [] OTHER -> 0

\* Seeded fault: the last byte of the buffer is never used.
fdt_splice_short(h, p, oldlen, newlen) ==
    CASE p + oldlen > fdt_data_size(h) -> -FDT_ERR_BADOFFSET
      [] /\ p + oldlen <= fdt_data_size(h)
         /\ fdt_data_size(h) - oldlen + newlen >= h.total -> -FDT_ERR_NOSPACE
      [] OTHER -> 0

\* Replacing oldlen bytes at byte p of the blob by newlen bytes.
fdt_splice(h, p, oldlen, newlen) ==
    CASE p + oldlen > fdt_data_size(h) -> -FDT_ERR_BADOFFSET
      [] /\ p + oldlen <= fdt_data_size(h)
         /\ fdt_data_size(h) - oldlen + newlen > h.total -> -FDT_ERR_NOSPACE
      [] OTHER -> 0

\* Seeded fault: the strings block is not moved.
fdt_splice_mem_rsv_short(h, p, oldn, newn) ==
    LET delta == (newn - oldn) * RSV_ENTRY
        err   == fdt_splice(h, p, oldn * RSV_ENTRY, newn * RSV_ENTRY)
    IN  IF err # 0 THEN Fail(h, -err)
        ELSE Done([h EXCEPT !.offStruct = @ + delta])

\* p is the byte of the blob at which the entries are added or removed.
fdt_splice_mem_rsv(h, p, oldn, newn) ==
    LET delta == (newn - oldn) * RSV_ENTRY
        err   == fdt_splice(h, p, oldn * RSV_ENTRY, newn * RSV_ENTRY)
    IN  IF err # 0 THEN Fail(h, -err)
        ELSE Done([h EXCEPT !.offStruct = @ + delta, !.offStrings = @ + delta])

\* off is an offset in the structure block.
fdt_splice_struct(h, off, oldlen, newlen) ==
    LET delta == newlen - oldlen
        err   == fdt_splice(h, h.offStruct + off, oldlen, newlen)
    IN  IF err # 0 THEN Fail(h, -err)
        ELSE Done([h EXCEPT !.sizeStruct = @ + delta, !.offStrings = @ + delta])

\* Seeded fault: the strings block keeps its size.
fdt_splice_string_same(h, newlen) ==
    LET err == fdt_splice(h, fdt_data_size(h), 0, newlen)
    IN  IF err # 0 THEN Fail(h, -err) ELSE Done(h)

fdt_splice_string(h, newlen) ==
    LET err == fdt_splice(h, fdt_data_size(h), 0, newlen)
    IN  IF err # 0 THEN Fail(h, -err)
        ELSE Done([h EXCEPT !.sizeStrings = @ + newlen])

fdt_packblocks(h, memRsvSize, structSize) ==
    [h EXCEPT !.offRsv     = RSV_START,
              !.offStruct  = RSV_START + memRsvSize,
              !.sizeStruct = structSize,
              !.offStrings = RSV_START + memRsvSize + structSize]

\* The header of the copy fdt_open_into leaves in its buffer.
Opened(h, bufsize) == [h EXCEPT !.total = bufsize, !.version = 17]

(***************************************************************************)
(* fdt_open_into copies a tree into a buffer of bufsize bytes, rearranging *)
(* the blocks when they are out of order.  walked is the length found by   *)
(* walking the tags, which is what the function uses for trees older than  *)
(* version 17; gap is the distance from the buffer to the end of the old   *)
(* tree (gap = h.total when the tree is reopened in place, <= 0 when it    *)
(* lies before the buffer).                                                *)
(***************************************************************************)
fdt_open_into(h, nrsv, walked, bufsize, gap) ==
    LET structSize == IF h.version >= 17 THEN h.sizeStruct ELSE walked
        newsize    == RSV_START + rsv_size(nrsv) + structSize + h.sizeStrings
        overlap    == newsize > gap - h.total /\ gap > 0
    IN  IF ~fdt_blocks_misordered(h, rsv_size(nrsv), structSize)
        THEN IF h.total > bufsize THEN Fail(h, FDT_ERR_NOSPACE)
             ELSE Done(Opened([h EXCEPT !.sizeStruct = structSize], bufsize))
        ELSE IF bufsize < newsize \/ (overlap /\ gap + newsize > bufsize)
             THEN Fail(h, FDT_ERR_NOSPACE)
             ELSE Done(Opened(fdt_packblocks(h, rsv_size(nrsv), structSize),
                              bufsize))

\* fdt_pack, once the header check has passed.
fdt_pack(h, nrsv) ==
    LET packed == fdt_packblocks(h, rsv_size(nrsv), h.sizeStruct)
    IN  [packed EXCEPT !.total = fdt_data_size(packed)]

-----------------------------------------------------------------------------
\* What "well laid out" means to the read-write functions: the three blocks in
\* order, none reaching into the next, all of them inside the blob.
LaidOut(h, nrsv) ==
    /\ RSV_START <= h.offRsv
    /\ h.offRsv + rsv_size(nrsv) <= h.offStruct
    /\ h.offStruct + h.sizeStruct <= h.offStrings
    /\ h.offStrings + h.sizeStrings <= h.total

\* A blob as it may be handed to fdt_open_into: the blocks lie after the
\* header and inside the blob, disjoint, in any order.
Disjoint(a, alen, b, blen) == a + alen <= b \/ b + blen <= a

Openable(h, nrsv) ==
    /\ RSV_START <= h.offRsv /\ h.offRsv + rsv_size(nrsv) <= h.total
    /\ RSV_START <= h.offStruct /\ h.offStruct + h.sizeStruct <= h.total
    /\ RSV_START <= h.offStrings /\ h.offStrings + h.sizeStrings <= h.total
    /\ Disjoint(h.offRsv, rsv_size(nrsv), h.offStruct, h.sizeStruct)
    /\ Disjoint(h.offRsv, rsv_size(nrsv), h.offStrings, h.sizeStrings)
    /\ Disjoint(h.offStruct, h.sizeStruct, h.offStrings, h.sizeStrings)
=============================================================================
