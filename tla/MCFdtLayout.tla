------------------------------ MODULE MCFdtLayout ------------------------------
(***************************************************************************)
(* FdtLayout on three sources: a blob laid out as the device tree compiler *)
(* does it, one with the strings in front of the structure block, which    *)
(* fdt_open_into has to reorder, and a version 16 blob with gaps between   *)
(* its blocks.  The buffers hold a few more entries, tags and names than   *)
(* the sources, so that each call succeeds and runs out of room.           *)
(***************************************************************************)
EXTENDS FdtLayout

H(version, rsv, struct, strings, total) ==
    [version |-> version, offRsv |-> rsv, offStruct |-> struct, sizeStruct |-> 24,
     offStrings |-> strings, sizeStrings |-> 5, total |-> total]

MCSources == {[hdr |-> H(17, 40, 56, 80, 85), nrsv |-> 0],
              [hdr |-> H(17, 40, 80, 72, 104), nrsv |-> 1],
              [hdr |-> H(16, 48, 84, 112, 120), nrsv |-> 1]}
MCBuffers == {85, 101, 128, 144}
MCLens    == {0, 3, 12}
=============================================================================
