------------------------------ MODULE FdtLayout ------------------------------
(***************************************************************************)
(* What libfdt's read-write calls may do to the layout of a device tree    *)
(* blob, whatever the tree says: a blob is a header and a number of        *)
(* reservation entries, and each action is one call with its effect on     *)
(* them.  FdtRw, which models the contents, implements this specification. *)
(***************************************************************************)
EXTENDS FdtHeader

CONSTANTS
    Sources,    \* the blobs fdt_open_into is first given: [hdr, nrsv] records
    Buffers,    \* the buffer sizes it is given
    Lens        \* the lengths, in bytes, of what is added, removed or resized

ASSUME SourcesAssumption ==
    \A s \in Sources : /\ s.hdr \in Header /\ s.nrsv \in Nat
                       /\ Openable(s.hdr, s.nrsv)
ASSUME BuffersAssumption == Buffers \subseteq Nat
ASSUME LensAssumption    == Lens \subseteq Nat

VARIABLES
    hdr,        \* the header of the blob
    nrsv        \* its number of reservation entries, without the terminator

vars == <<hdr, nrsv>>

\* The first fdt_open_into, into a buffer that does not overlap the source.
\* For a tree older than version 17, sizeStruct is what walking its tags gives.
Init ==
    \E s \in Sources, bufsize \in Buffers :
        LET r == fdt_open_into(s.hdr, s.nrsv, s.hdr.sizeStruct, bufsize, 0)
        IN  /\ r.ret = 0
            /\ hdr = r.hdr
            /\ nrsv = s.nrsv

fdt_add_mem_rsv ==
    LET r == fdt_splice_mem_rsv(hdr, hdr.offRsv + nrsv * RSV_ENTRY, 0, 1)
    IN  /\ fdt_rw_check_header(hdr) = 0
        /\ r.ret = 0
        /\ hdr' = r.hdr
        /\ nrsv' = nrsv + 1

fdt_del_mem_rsv(n) ==
    LET r == fdt_splice_mem_rsv(hdr, hdr.offRsv + n * RSV_ENTRY, 1, 0)
    IN  /\ fdt_rw_check_header(hdr) = 0
        /\ n < nrsv
        /\ r.ret = 0
        /\ hdr' = r.hdr
        /\ nrsv' = nrsv - 1

\* fdt_set_name, fdt_del_node, fdt_add_subnode, fdt_delprop, and the calls
\* that resize a property: oldlen bytes somewhere in the structure block
\* become newlen bytes.  The header does not depend on where they are.
EditStruct(oldlen, newlen) ==
    LET r == fdt_splice_struct(hdr, 0, oldlen, newlen)
    IN  /\ fdt_rw_check_header(hdr) = 0
        /\ oldlen <= hdr.sizeStruct
        /\ r.ret = 0
        /\ hdr' = r.hdr
        /\ UNCHANGED nrsv

\* A new property whose name, of namelen bytes, is not in the strings block
\* yet: the name goes in first and stays when the property does not fit.
AddNamedProperty(namelen, proplen) ==
    LET s == fdt_splice_string(hdr, namelen)
        p == fdt_splice_struct(s.hdr, 0, 0, proplen)
    IN  /\ fdt_rw_check_header(hdr) = 0
        /\ s.ret = 0
        /\ hdr' = p.hdr
        /\ UNCHANGED nrsv

Reopen(bufsize) ==
    LET r == fdt_open_into(hdr, nrsv, hdr.sizeStruct, bufsize, hdr.total)
    IN  /\ r.ret = 0
        /\ hdr' = r.hdr
        /\ UNCHANGED nrsv

Pack ==
    /\ fdt_rw_check_header(hdr) = 0
    /\ hdr' = fdt_pack(hdr, nrsv)
    /\ UNCHANGED nrsv

Next ==
    \/ fdt_add_mem_rsv
    \/ \E n \in 0 .. nrsv : fdt_del_mem_rsv(n)
    \/ \E oldlen, newlen \in Lens : EditStruct(oldlen, newlen)
    \/ \E namelen, proplen \in Lens : AddNamedProperty(namelen, proplen)
    \/ \E bufsize \in Buffers : Reopen(bufsize)
    \/ Pack

Spec == Init /\ [][Next]_vars

-----------------------------------------------------------------------------
TypeOK == hdr \in Header /\ nrsv \in Nat

\* No sequence of calls makes a block reach into the next one or past the end
\* of the buffer, whatever is added, removed, packed or reopened
\* (_fdt_blocks_misordered is false with the room the entries really take).
LayoutInv == TypeOK /\ hdr.version = 17 /\ LaidOut(hdr, nrsv)

\* Packing moves each block down in place, in the order reservation entries,
\* structure, strings: the room a block moves to ends before the block that is
\* moved next begins, so nothing is overwritten before it is copied.
PackInPlaceInv ==
    LET packed == fdt_packblocks(hdr, rsv_size(nrsv), hdr.sizeStruct)
    IN  /\ packed.offRsv + rsv_size(nrsv) <= hdr.offStruct
        /\ packed.offStruct + hdr.sizeStruct <= hdr.offStrings
        /\ packed.offStrings <= hdr.offStrings

\* No room is lost for good, whatever was added, removed or left behind by a
\* property that did not fit: after fdt_pack and fdt_open_into in the buffer the
\* blob has, an edit is refused exactly when what the blob then holds is more
\* than the buffer, and neither call on the way fails.
Contents == RSV_START + rsv_size(nrsv) + hdr.sizeStruct + hdr.sizeStrings

Repacked ==
    LET packed == fdt_pack(hdr, nrsv)
    IN  fdt_open_into(packed, nrsv, packed.sizeStruct, hdr.total, packed.total)

RoomComesBack ==
    /\ Repacked.ret = 0
    /\ fdt_rw_check_header(Repacked.hdr) = 0
    /\ \A oldlen, newlen \in Lens : oldlen <= hdr.sizeStruct =>
          (fdt_splice_struct(Repacked.hdr, 0, oldlen, newlen).ret = 0
              <=> Contents - oldlen + newlen <= hdr.total)
    /\ \A len \in Lens :
          fdt_splice_string(Repacked.hdr, len).ret = 0 <=> Contents + len <= hdr.total

=============================================================================
