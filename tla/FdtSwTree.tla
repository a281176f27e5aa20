------------------------------ MODULE FdtSwTree ------------------------------
(***************************************************************************)
(* What fdt_finish leaves, read with the rest of libfdt: FdtSw's buffer as *)
(* a blob of FdtBlob.                                                      *)
(***************************************************************************)
EXTENDS FdtSw

B == INSTANCE FdtBlob

\* The string a reader finds at an offset in the strings block.
NameAt(off) ==
    LET at == {i \in DOMAIN fdt.strs :
                  off \in Starts(fdt.strs)[i] .. Starts(fdt.strs)[i] + Len(fdt.strs[i])}
        s(i) == SubSeq(fdt.strs[i], off - Starts(fdt.strs)[i] + 1, Len(fdt.strs[i]))
    IN  IF at = {} THEN "" ELSE s(CHOOSE i \in at : TRUE)

\* The words a tag takes up, a property's name read where its offset says.
WordsOf(t) ==
    CASE t.tag = "BEGIN"    -> B!Unit(B!Begin(t.name))
      [] t.tag = "PROP"     -> B!Unit(B!Prop(NameAt(t.nameoff), <<B!Str(t.val)>>))
      [] t.tag = "END_NODE" -> <<B!EndNode>>
      [] t.tag = "END"      -> <<B!End>>

Blob == [hdr |-> HeaderOf(fdt), nrsv |-> nrsv, strs |-> fdt.strs,
         words |-> FlattenSeq([k \in DOMAIN fdt.tags |-> WordsOf(fdt.tags[k])])]

\* The sizes the header gives are those of what is there.
SizesAgree ==
    fdt.magic # "none" =>
        /\ fdt.sizeStruct = Len(Blob.words) * FDT_TAGSIZE
        /\ fdt.sizeStrings = B!strs_len(fdt.strs)

\* A finished tree is one fdt_open_into takes, at its own size and any larger
\* one, and it says what the calls that succeeded have said: a call that fails
\* for want of room leaves no trace but a string.
FinishedTreeOpens ==
    fdt.magic = "fdt" =>
        /\ fdt_check_header(fdt) = 0 /\ LaidOut(Blob.hdr, nrsv)
        /\ \A b \in BufSizes : b >= fdt.total => B!OpenInto(Blob, b, 0).ret = 0
        /\ B!TreeOf(Blob) = [p \in DOMAIN tree |->
                               [m \in DOMAIN tree[p] |-> <<B!Str(tree[p][m])>>]]
        /\ \A n \in B!NodeOffsets(Blob) :
              \A m \in DOMAIN tree[B!PathAt(Blob, n)] :
                  B!fdt_getprop(Blob, n, m) = <<B!Str(tree[B!PathAt(Blob, n)][m])>>
=============================================================================
