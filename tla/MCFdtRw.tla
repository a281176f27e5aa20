------------------------------- MODULE MCFdtRw -------------------------------
(***************************************************************************)
(* FdtRw on one small blob: a root with a property and a node "a", with no *)
(* reservation entry, as the device tree compiler lays it out.  The two    *)
(* names "a" and "a@1" match each other's lookups.  "p" is a suffix of     *)
(* "xp" and shares its string, "q" needs one of its own.  The sizes of the *)
(* buffers are what bounds the state space: the smaller one has room for a *)
(* node more and for no property, the larger one for either, and for both  *)
(* once a node has been deleted.  So every call meets both success and     *)
(* -FDT_ERR_NOSPACE, and adding "q" can fail after its name has been added *)
(* to the strings block.                                                   *)
(***************************************************************************)
EXTENDS FdtRw

MCWords == Unit(Begin("")) \o Unit(Prop("xp", <<Cell(1)>>))
             \o Unit(Begin("a")) \o <<EndNode, EndNode, End>>
MCStrs  == <<"xp">>

MCHdr ==
    LET struct == RSV_START + RSV_ENTRY
        strs   == struct + Len(MCWords) * FDT_TAGSIZE
    IN  [version |-> 17, offRsv |-> RSV_START, offStruct |-> struct,
         sizeStruct |-> Len(MCWords) * FDT_TAGSIZE, offStrings |-> strs,
         sizeStrings |-> strs_len(MCStrs), total |-> strs + strs_len(MCStrs)]

MCDtbs    == {[hdr |-> MCHdr, nrsv |-> 0, words |-> MCWords, strs |-> MCStrs]}
MCNames   == {"a", "a@1"}
MCProps   == {"p", "q"}
MCVals    == {<<Str("y")>>, <<Cell(1)>>}
MCBuffers == {MCHdr.total + 12, MCHdr.total + 24}
MCLens    == {0, 2, 3} \cup {4 * k : k \in 1 .. 24}
=============================================================================
