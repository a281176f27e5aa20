-------------------------------- MODULE FdtRw --------------------------------
(***************************************************************************)
(* The read-write half of libfdt as a state machine: one blob in a buffer, *)
(* and any sequence of the calls that change it.  A call that fails is a   *)
(* step too, with whatever it leaves behind.  Nothing but the size of the  *)
(* buffer bounds how often the tree can grow.                              *)
(***************************************************************************)
EXTENDS FdtBlob

CONSTANTS
    Names,      \* node names
    PropNames,  \* property names
    Vals,       \* property values
    Dtbs,       \* blobs as the device tree compiler writes them
    Buffers,    \* sizes of the buffers they are opened in
    UnseenError \* whether a caller may take the error of a failed lookup for
                \* the offset of the parent of a new node

-----------------------------------------------------------------------------
(* What the device tree compiler sees to in the blobs it writes            *)

NodeWords(ws) == {k \in DOMAIN ws : ws[k].tag = "BEGIN"}
PropWords(ws) == {k \in DOMAIN ws : ws[k].tag = "PROP"}

\* The property at word k belongs to the node at word j, in front of the
\* subnodes of that node.
Owns(ws, j, k) ==
    /\ j \in NodeWords(ws) /\ k \in PropWords(ws) /\ j < k
    /\ \A i \in j + 1 .. k : ws[i].tag \notin {"BEGIN", "END_NODE"}

PropsFirst(ws) == \A k \in PropWords(ws) : \E j \in NodeWords(ws) : Owns(ws, j, k)

PropsOnce(ws) ==
    \A k, l \in PropWords(ws) :
        OpenPath(ws)[k] = OpenPath(ws)[l] /\ ws[k].name = ws[l].name => k = l

PathsDiffer(ws) ==
    \A k, l \in NodeWords(ws) : OpenPath(ws)[k] = OpenPath(ws)[l] => k = l

NamesStored(ws, strs) == \A k \in PropWords(ws) : fdt_find_string(strs, ws[k].name)

Tidy(dtb) ==
    /\ PropsFirst(dtb.words) /\ PropsOnce(dtb.words) /\ PathsDiffer(dtb.words)
    /\ NamesStored(dtb.words, dtb.strs)

ASSUME NamesAssumption   == \A name \in Names \cup PropNames : Len(name) \in Nat
ASSUME EndingAssumption  ==
    \A name \in PropNames : SubSeq(name, 1, Len(name)) = name
ASSUME ValsAssumption    == \A v \in Vals : IsValue(v)
ASSUME DtbsAssumption    ==
    \A dtb \in Dtbs : /\ dtb.hdr \in Header /\ dtb.nrsv \in Nat
                      /\ Openable(dtb.hdr, dtb.nrsv)
                      /\ Agrees(dtb) /\ Nested(dtb.words) /\ Tidy(dtb)
ASSUME BuffersAssumption == Buffers \subseteq Nat
ASSUME UnseenErrorAssumption == UnseenError \in BOOLEAN

VARIABLES
    fdt,        \* the blob
    tree        \* what it says; nothing reads it, it is there to be compared

vars == <<fdt, tree>>

Init ==
    \E dtb \in Dtbs, bufsize \in Buffers :
        LET r == OpenInto(dtb, bufsize, 0)
        IN  r.ret = 0 /\ fdt = r.fdt /\ tree = TreeOf(r.fdt)

\* The node offsets a caller may pass: those of nodes, that of the tag that
\* ends the block, and the error of a lookup that failed.
Targets == NodeOffsets(fdt) \cup {Len(fdt.words) - 1, -FDT_ERR_NOTFOUND}

SetProp(n, p, v)        == fdt' = fdt_setprop(fdt, n, p, v).fdt
AppendProp(n, p, v)     == fdt' = fdt_appendprop(fdt, n, p, v).fdt
SetPropInplace(n, p, v) == fdt' = fdt_setprop_inplace(fdt, n, p, v).fdt
DelProp(n, p)           == fdt' = fdt_delprop(fdt, n, p).fdt
NopProperty(n, p)       == fdt' = fdt_nop_property(fdt, n, p).fdt
AddSubnode(n, name)     == /\ n >= 0 \/ UnseenError
                           /\ fdt' = fdt_add_subnode(fdt, n, name).fdt
DelNode(n)              == fdt' = fdt_del_node(fdt, n).fdt
NopNode(n)              == fdt' = fdt_nop_node(fdt, n).fdt
AddMemRsv               == fdt' = fdt_add_mem_rsv(fdt).fdt
DelMemRsv(k)            == fdt' = fdt_del_mem_rsv(fdt, k).fdt
PackBlob                == fdt' = Pack(fdt).fdt
Reopen(bufsize)         == fdt' = OpenInto(fdt, bufsize, fdt.hdr.total).fdt

\* libfdt.h leaves the result undefined when a sibling has the name already.
Siblings(n) ==
    LET up(path) == SubSeq(path, 1, Len(path) - 1)
    IN  {PathAt(fdt, o)[Len(PathAt(fdt, o))] : o \in
            {m \in NodeOffsets(fdt) : up(PathAt(fdt, m)) = up(PathAt(fdt, n))}}

SetName(n, name) ==
    /\ n \in NodeOffsets(fdt) \ {0} => name \notin Siblings(n)
    /\ n # 0
    /\ fdt' = fdt_set_name(fdt, n, name).fdt

EditProp(n) ==
    \E p \in PropNames :
        \/ DelProp(n, p)
        \/ \E v \in Vals : SetProp(n, p, v) \/ AppendProp(n, p, v)

EditInPlace(n) ==
    \/ \E p \in PropNames : \/ NopProperty(n, p)
                            \/ \E v \in Vals : SetPropInplace(n, p, v)
    \/ NopNode(n)

EditNodes(n) ==
    \/ \E name \in Names : AddSubnode(n, name) \/ SetName(n, name)
    \/ DelNode(n)

\* No node has been written over the end of the reservation block (AddAtError):
\* no blob of Dtbs begins like one in which that has happened.
RsvEnds == fdt.words[1].tag \notin {"CONT", "END_NODE"}

\* (Bound: the calls that count the reservation entries are not made when their
\* end is lost, which needs UnseenError.)
EditBlocks ==
    /\ RsvEnds
    /\ \/ AddMemRsv
       \/ \E k \in 0 .. fdt.nrsv : DelMemRsv(k)
       \/ PackBlob
       \/ \E bufsize \in Buffers : Reopen(bufsize)

Next ==
    /\ \/ \E n \in Targets : EditProp(n) \/ EditInPlace(n) \/ EditNodes(n)
       \/ EditBlocks
    /\ tree' = TreeOf(fdt')

Spec == Init /\ [][Next]_vars

-----------------------------------------------------------------------------
TypeOK ==
    /\ fdt.hdr \in Header
    /\ fdt.nrsv \in Nat
    /\ \A k \in DOMAIN fdt.words : fdt.words[k].tag \in Tags

\* The header tells the truth about what is in the blob: the sizes of the
\* structure and strings blocks are those of their contents, and there is room
\* for the reservation entries.  _fdt_splice_struct, _fdt_splice_string and
\* _fdt_splice_mem_rsv each adjust some of these fields.
HeaderAgrees ==
    /\ fdt.hdr.sizeStruct = Len(fdt.words) * FDT_TAGSIZE
    /\ fdt.hdr.sizeStrings = strs_len(fdt.strs)
    /\ LaidOut(fdt.hdr, fdt.nrsv)

\* Every tag starts where the tag before it ends and the nodes nest: walking
\* the block from its start meets BEGIN and END_NODE in balance, reaches END
\* at the last word, and every other word belongs to the tag in front of it.
walks ==
    LET t(n) == fdt_next_tag(fdt, n.off)
        from[n \in Spots] ==
            IF t(n).tag = "BEGIN" THEN from[Spot(t(n).next, n.depth + 1)]
            ELSE IF t(n).tag = "END_NODE"
            THEN n.depth > 0 /\ from[Spot(t(n).next, n.depth - 1)]
            ELSE IF t(n).tag \in {"PROP", "NOP"}
            THEN n.depth > 0 /\ from[Spot(t(n).next, n.depth)]
            ELSE n.depth = 0 /\ t(n).next = Len(fdt.words)
    IN  from[Spot(0, 0)]

WellNested ==
    /\ fdt.words[Len(fdt.words)].tag = "END"
    /\ NodeOffsets(fdt) # {} => walks

\* A node's properties come before its subnodes, which is what lets
\* _fdt_check_node_offset + _nextprop stop at the first other tag: no property
\* is out of reach of fdt_get_property, and none is there twice.
AllProps(n) ==
    LET own == {k \in n + 1 .. fdt_node_end_offset(fdt, n) - 1 :
                  /\ At(fdt, k).tag = "PROP"
                  /\ \A m \in NodeOffsets(fdt) : m > n /\ m < k =>
                         fdt_node_end_offset(fdt, m) <= k}
    IN  own

PropsReachable ==
    \A n \in NodeOffsets(fdt) : \A k \in AllProps(n) :
        /\ fdt_get_property(fdt, n, At(fdt, k).name) = k
        /\ fdt_find_string(fdt.strs, At(fdt, k).name)

\* No two nodes with one path: fdt_add_subnode refuses a name that is taken.
PathsUnique ==
    \A m, n \in NodeOffsets(fdt) : PathAt(fdt, m) = PathAt(fdt, n) => m = n

\* Editing a node moves nothing at or in front of it: an offset found earlier
\* stays good across a call on the same node or on a node behind it.  This is
\* what fdt_add_pinctrl_group relies on when it keeps the offset of the pin
\* controller over a loop that edits the serial nodes.
EarlierOffsetsStable ==
    [][ \A n \in NodeOffsets(fdt) :
          (EditProp(n) \/ \E name \in Names : AddSubnode(n, name)) =>
              \A o \in NodeOffsets(fdt) : o <= n =>
                  /\ o \in NodeOffsets(fdt')
                  /\ PathAt(fdt', o) = PathAt(fdt, o) ]_vars

\* The calls of fdt_wip.c move nothing at all: a node that is still there is
\* still where it was.
InPlaceKeepsOffsets ==
    [][ \A n \in NodeOffsets(fdt) : EditInPlace(n) =>
              \A o \in NodeOffsets(fdt') :
                  /\ o \in NodeOffsets(fdt)
                  /\ PathAt(fdt', o) = PathAt(fdt, o) ]_vars

\* The offset fdt_add_subnode returns is that of the new node.
AddSubnodeReturnsIt ==
    [][ \A n \in NodeOffsets(fdt), name \in Names :
          LET r == fdt_add_subnode(fdt, n, name)
          IN  AddSubnode(n, name) /\ r.ret >= 0 =>
                  PathAt(fdt', r.ret) = Append(PathAt(fdt, n), name) ]_vars

\* libfdt.h of fdt_add_subnode: "-FDT_ERR_BADOFFSET, if parentoffset did not
\* point to an FDT_BEGIN_NODE tag".  A parent that is not a node is refused.
ParentChecked ==
    [][ \A n \in Targets \ NodeOffsets(fdt), name \in Names :
          AddSubnode(n, name) => UNCHANGED fdt.words ]_vars

\* A call either has its whole effect on the tree or none: in particular a
\* property that does not fit leaves the tree alone although its name may have
\* gone into the strings block already (_fdt_add_property).
Tree == INSTANCE DeviceTree
            WITH RootName <- "", Props <- PropNames, tree <- tree,
                 Initial <- {TreeOf(dtb) : dtb \in Dtbs}

TreeSpec == Tree!Spec

\* What happens to the header is what FdtLayout allows, so what is proved there
\* for buffers and lengths of any size holds of these calls.
CONSTANT Lens   \* lengths that the calls on Names, PropNames and Vals add

Layout == INSTANCE FdtLayout
            WITH hdr <- fdt.hdr, nrsv <- fdt.nrsv,
                 Sources <- {[hdr |-> dtb.hdr, nrsv |-> dtb.nrsv] : dtb \in Dtbs}

LayoutSpec == Layout!Spec
=============================================================================
