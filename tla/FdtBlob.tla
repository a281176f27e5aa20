------------------------------- MODULE FdtBlob -------------------------------
(***************************************************************************)
(* A flattened device tree blob and the libfdt calls the loader links, as  *)
(* operators from a blob to a blob and a return value.                     *)
(*                                                                         *)
(* A blob is [hdr, nrsv, words, strs]: its header (FdtHeader), its number  *)
(* of memory reservation entries, its structure block as a sequence of     *)
(* 32-bit words, and the strings of its strings block in order.  The first *)
(* word of a tag is a record that carries what the tag says (a node's      *)
(* name, a property's name and value); the words the name or the value     *)
(* takes up follow it as Cont words.  An offset is a C offset divided by   *)
(* FDT_TAGSIZE, negative ones being -FDT_ERR codes, so that an offset      *)
(* between two tags is as wrong here as it is there.                       *)
(*                                                                         *)
(* A value is a sequence of items: strings, cells and node paths (the      *)
(* values of /aliases), so that "string, NUL, string" is <<Str, Str>>.     *)
(***************************************************************************)
EXTENDS FdtHeader, Sequences, FiniteSets, TLC

Str(s)     == [str |-> s]
Cell(n)    == [u32 |-> n]
PathStr(p) == [path |-> p]

\* The sum of a sequence of lengths.
Total(lens) ==
    LET sum[k \in 0 .. Len(lens)] == IF k = 0 THEN 0 ELSE sum[k - 1] + lens[k]
    IN  sum[Len(lens)]

path_len(p) == Total([k \in DOMAIN p |-> 1 + Len(p[k])])

item_len(x) == CASE "str"  \in DOMAIN x -> Len(x.str) + 1
                 [] "u32"  \in DOMAIN x -> 4
                 [] "path" \in DOMAIN x -> path_len(x.path) + 1

val_len(v) == Total([k \in DOMAIN v |-> item_len(v[k])])

\* The bytes of the strings block.
strs_len(strs) == Total([k \in DOMAIN strs |-> Len(strs[k]) + 1])

Tags == {"BEGIN", "END_NODE", "PROP", "NOP", "END", "CONT"}
Word(tag, name, val) == [tag |-> tag, name |-> name, val |-> val]

Begin(name)     == Word("BEGIN", name, <<>>)
Prop(name, val) == Word("PROP", name, val)
EndNode         == Word("END_NODE", "", <<>>)
End             == Word("END", "", <<>>)
Nop             == Word("NOP", "", <<>>)
Cont            == Word("CONT", "", <<>>)

\* The words a tag takes up.
tag_words(w) ==
    CASE w.tag = "BEGIN" -> 1 + FDT_TAGALIGN(Len(w.name) + 1) \div FDT_TAGSIZE
      [] w.tag = "PROP"  -> 3 + FDT_TAGALIGN(val_len(w.val)) \div FDT_TAGSIZE
      [] OTHER           -> 1

Unit(w) == <<w>> \o [k \in 1 .. tag_words(w) - 1 |-> Cont]

\* What tags and values are made of: their lengths are numbers.
IsSeq(s)   == s \in Seq({s[k] : k \in DOMAIN s})
IsValue(v) == IsSeq(v) /\ \A k \in DOMAIN v : item_len(v[k]) \in Nat
IsWord(w)  == /\ w.tag \in Tags
              /\ w.tag = "BEGIN" => Len(w.name) \in Nat
              /\ w.tag = "PROP" => IsValue(w.val)

\* A block of which every word is one, and the strings of a strings block.
Block(ws)    == IsSeq(ws) /\ \A k \in DOMAIN ws : IsWord(ws[k])
IsStrings(strs) == IsSeq(strs) /\ \A k \in DOMAIN strs : Len(strs[k]) \in Nat

\* How many nodes are open behind each word.
opens(w) == CASE w.tag = "BEGIN" -> 1 [] w.tag = "END_NODE" -> -1 [] OTHER -> 0

Depths(ws) ==
    LET depth[k \in 0 .. Len(ws)] ==
            IF k = 0 THEN 0 ELSE depth[k - 1] + opens(ws[k])
    IN  depth

\* Behind each tag come the words it takes up, and then another tag.
Units(ws) ==
    \A k \in 1 .. Len(ws) : ws[k].tag # "CONT" =>
        LET next == k + tag_words(ws[k])
        IN  /\ next <= Len(ws) + 1
            /\ \A j \in k + 1 .. next - 1 : ws[j].tag = "CONT"
            /\ next <= Len(ws) => ws[next].tag # "CONT"

\* A structure block: one root, in which all nodes are balanced, and the end.
Nested(ws) ==
    /\ Units(ws) /\ Len(ws) > 1
    /\ ws[1].tag = "BEGIN"
    /\ \A k \in 1 .. Len(ws) : ws[k].tag = "END" <=> k = Len(ws)
    /\ \A k \in 1 .. Len(ws) - 1 : Depths(ws)[k] >= 0
                                     /\ (Depths(ws)[k] = 0 <=> k = Len(ws) - 1)

\* What is left of it when the root has been deleted or blanked out.
Rootless(ws) ==
    /\ Len(ws) > 0
    /\ \A k \in 1 .. Len(ws) : ws[k].tag = IF k = Len(ws) THEN "END" ELSE "NOP"

\* A blob whose header tells the truth about the sizes of its blocks.
Fields(fdt) ==
    fdt = [hdr |-> fdt.hdr, nrsv |-> fdt.nrsv, words |-> fdt.words,
           strs |-> fdt.strs]

Agrees(fdt) ==
    /\ Fields(fdt)
    /\ Block(fdt.words) /\ fdt.hdr.sizeStruct = Len(fdt.words) * FDT_TAGSIZE
    /\ IsStrings(fdt.strs) /\ fdt.hdr.sizeStrings = strs_len(fdt.strs)

Err(fdt, err)  == [ret |-> err, fdt |-> fdt]
At(fdt, off)   == fdt.words[off + 1]

-----------------------------------------------------------------------------
(* Walking the structure block: fdt.c, fdt_ro.c                            *)

fdt_next_tag(fdt, off) ==
    IF off < 0 \/ off >= Len(fdt.words)
    THEN [tag |-> "END", next |-> -FDT_ERR_TRUNCATED]
    ELSE LET tag(w, next) ==
                 IF w.tag = "CONT" \/ next > Len(fdt.words)
                 THEN [tag |-> "END", next |-> -FDT_ERR_BADSTRUCTURE]
                 ELSE [tag |-> w.tag, next |-> next]
         IN  tag(At(fdt, off), off + tag_words(At(fdt, off)))

\* The offset of what follows the node's BEGIN tag, or the error.
fdt_check_node_offset(fdt, off) ==
    IF off < 0 THEN -FDT_ERR_BADOFFSET
    ELSE LET after(t) == IF t.tag = "BEGIN" THEN t.next ELSE -FDT_ERR_BADOFFSET
         IN  after(fdt_next_tag(fdt, off))

\* Where a loop over the nodes is: an offset, and the depth it has there.
Spots == [off : Int, depth : Int]

Spot(off, depth) == [off |-> off, depth |-> depth]

\* What the loop over nodes returns at a tag it does not go over.
node_or_end(n, t) ==
    CASE t.tag = "BEGIN" -> Spot(n.off, n.depth + 1)
      [] t.tag = "END_NODE" -> Spot(t.next, -1)
      [] t.tag = "END" ->
           Spot(IF t.next >= 0 THEN -FDT_ERR_NOTFOUND ELSE t.next, n.depth)

next_node_from(fdt, spot) ==
    LET t(n) == fdt_next_tag(fdt, n.off)
        from[n \in Spots] ==
            IF t(n).tag = "END_NODE" /\ n.depth # 0
            THEN from[Spot(t(n).next, n.depth - 1)]
            ELSE IF t(n).tag \in {"PROP", "NOP"}
            THEN from[Spot(t(n).next, n.depth)]
            ELSE node_or_end(n, t(n))
    IN  from[spot]

fdt_next_node(fdt, off, depth) ==
    IF off < 0 THEN next_node_from(fdt, Spot(0, depth))
    ELSE LET next == fdt_check_node_offset(fdt, off)
         IN  IF next < 0 THEN Spot(next, depth)
             ELSE next_node_from(fdt, Spot(next, depth))

fdt_node_end_offset(fdt, off) ==
    LET from[n \in Spots] == IF n.off < 0 \/ n.depth < 0 THEN n.off
                             ELSE from[fdt_next_node(fdt, n.off, n.depth)]
    IN  from[Spot(off, 0)]

\* A name without a unit address also matches the same name with one.  UnitOf
\* gives the part of a name in front of the "@".
UnitOf(name) ==
    LET cut == {k \in 1 .. Len(name) : SubSeq(name, k, k) = "@"}
    IN  IF cut = {} THEN name
        ELSE SubSeq(name, 1, (CHOOSE k \in cut : \A j \in cut : k <= j) - 1)

fdt_nodename_eq(fdt, off, name) ==
    \/ At(fdt, off).name = name
    \/ UnitOf(name) = name /\ UnitOf(At(fdt, off).name) = name

fdt_subnode_offset(fdt, parent, name) ==
    LET named(n) == n.depth = 1 /\ fdt_nodename_eq(fdt, n.off, name)
        from[n \in Spots] ==
            IF n.depth < 0 THEN -FDT_ERR_NOTFOUND
            ELSE IF n.off < 0 \/ named(n) THEN n.off
            ELSE from[fdt_next_node(fdt, n.off, n.depth)]
    IN  from[Spot(parent, 0)]

\* fdt_path_offset of an absolute path, given as the sequence of its names.
fdt_path_offset(fdt, path) ==
    LET below(off, name) == IF off < 0 THEN off
                            ELSE fdt_subnode_offset(fdt, off, name)
        at[k \in 0 .. Len(path)] == IF k = 0 THEN 0
                                    ELSE below(at[k - 1], path[k])
    IN  at[Len(path)]

\* What the loop over properties returns at a tag it does not go over.
property_or_end(o, t) ==
    CASE t.tag = "PROP" -> o
      [] t.tag = "END" -> IF t.next >= 0 THEN -FDT_ERR_BADSTRUCTURE ELSE t.next
      [] t.tag \in {"BEGIN", "END_NODE"} -> -FDT_ERR_NOTFOUND

nextprop(fdt, off) ==
    LET t(o) == fdt_next_tag(fdt, o)
        from[o \in Nat] == IF t(o).tag = "NOP" THEN from[t(o).next]
                           ELSE property_or_end(o, t(o))
    IN  from[off]

fdt_check_prop_offset(fdt, off) ==
    LET t == fdt_next_tag(fdt, off)
    IN  IF off >= 0 /\ t.tag = "PROP" THEN t.next ELSE -FDT_ERR_BADOFFSET

\* The next property from the error or offset at which it is looked for.
nextprop_from(fdt, off) == IF off < 0 THEN off ELSE nextprop(fdt, off)

fdt_first_property_offset(fdt, node) ==
    nextprop_from(fdt, fdt_check_node_offset(fdt, node))

fdt_next_property_offset(fdt, off) ==
    nextprop_from(fdt, fdt_check_prop_offset(fdt, off))

\* The offset of the node's property of that name, or the error.
fdt_get_property(fdt, node, name) ==
    LET from[o \in Int] ==
            IF o < 0 \/ At(fdt, o).name = name THEN o
            ELSE from[fdt_next_property_offset(fdt, o)]
    IN  from[fdt_first_property_offset(fdt, node)]

\* The value of the property, << >> when there is none.
fdt_getprop(fdt, node, name) ==
    LET value(p) == IF p < 0 THEN <<>> ELSE At(fdt, p).val
    IN  value(fdt_get_property(fdt, node, name))

fdt_get_phandle(fdt, node) ==
    LET is_cell(v) == val_len(v) = 4 /\ "u32" \in DOMAIN v[1]
        either(v, w) == CASE is_cell(v) -> v[1].u32
                          [] ~is_cell(v) /\ is_cell(w) -> w[1].u32
                          [] OTHER -> 0
    IN  either(fdt_getprop(fdt, node, "phandle"),
               fdt_getprop(fdt, node, "linux,phandle"))

\* fdt_path_offset of a path that does not start with "/": an alias.
fdt_alias_offset(fdt, alias) ==
    LET aliased(v) == IF v = <<>> THEN -FDT_ERR_BADPATH
                      ELSE fdt_path_offset(fdt, v[1].path)
    IN  aliased(fdt_getprop(fdt, fdt_path_offset(fdt, <<"aliases">>), alias))

-----------------------------------------------------------------------------
(* Editing in place: fdt_wip.c                                             *)

Overwrite(fdt, off, new) ==
    [fdt EXCEPT !.words = [k \in DOMAIN @ |->
        IF k \in off + 1 .. off + Len(new) THEN new[k - off] ELSE @[k]]]

fdt_setprop_inplace(fdt, node, name, val) ==
    LET p == fdt_get_property(fdt, node, name)
    IN  CASE p < 0 -> Err(fdt, p)
          [] p >= 0 /\ val_len(At(fdt, p).val) # val_len(val)
                 -> Err(fdt, -FDT_ERR_NOSPACE)
          [] OTHER -> [ret |-> 0, fdt |-> Overwrite(fdt, p, <<Prop(name, val)>>)]

Nops(n) == [k \in 1 .. n |-> Nop]

\* Seeded fault: the property is cut out instead of being overwritten.
fdt_nop_property_cut(fdt, node, name) ==
    LET p == fdt_get_property(fdt, node, name)
        w == fdt.words
    IN  IF p < 0 THEN Err(fdt, p)
        ELSE [ret |-> 0,
              fdt |-> [fdt EXCEPT !.words = SubSeq(w, 1, p)
                  \o SubSeq(w, p + tag_words(At(fdt, p)) + 1, Len(w))]]

fdt_nop_property(fdt, node, name) ==
    LET p == fdt_get_property(fdt, node, name)
    IN  IF p < 0 THEN Err(fdt, p)
        ELSE [ret |-> 0,
              fdt |-> Overwrite(fdt, p, Nops(tag_words(At(fdt, p))))]

fdt_nop_node(fdt, node) ==
    LET end == fdt_node_end_offset(fdt, node)
    IN  IF end < 0 THEN Err(fdt, end)
        ELSE [ret |-> 0, fdt |-> Overwrite(fdt, node, Nops(end - node))]

-----------------------------------------------------------------------------
(* Editing that moves things: fdt_rw.c                                     *)

\* What a read-write call does once its header check has passed.
RwCall(fdt, r) ==
    LET checked(err) == IF err # 0 THEN Err(fdt, err)
                        ELSE [r EXCEPT !.fdt.hdr = fdt_rw_header(@)]
    IN  checked(fdt_rw_check_header(fdt.hdr))

\* n words at off make way for the words of new.
splice_words(fdt, off, n, new) ==
    LET moved(r) ==
            IF r.ret # 0 THEN Err(fdt, r.ret)
            ELSE [ret |-> 0,
                  fdt |-> [fdt EXCEPT !.hdr = r.hdr,
                             !.words = SubSeq(@, 1, off) \o new
                                         \o SubSeq(@, off + n + 1, Len(@))]]
    IN  moved(fdt_splice_struct(fdt.hdr, off * FDT_TAGSIZE,
                                n * FDT_TAGSIZE, Len(new) * FDT_TAGSIZE))

\* Seeded fault: the old tag is taken to be as long as the new one.
Retag_new_size(fdt, off, w) == splice_words(fdt, off, tag_words(w), Unit(w))

\* The tag at off is rewritten, with the words it takes up.
Retag(fdt, off, w) == splice_words(fdt, off, tag_words(At(fdt, off)), Unit(w))

\* A string is found wherever it ends a string of the strings block.
EndsWith(t, s) == /\ Len(s) <= Len(t)
                  /\ SubSeq(t, Len(t) - Len(s) + 1, Len(t)) = s

fdt_find_string(strs, s) == \E k \in DOMAIN strs : EndsWith(strs[k], s)

fdt_find_add_string(fdt, s) ==
    LET added(r) ==
            IF r.ret # 0 THEN Err(fdt, r.ret)
            ELSE [ret |-> 0, fdt |-> [fdt EXCEPT !.hdr = r.hdr,
                                                 !.strs = Append(@, s)]]
    IN  IF fdt_find_string(fdt.strs, s) THEN Err(fdt, 0)
        ELSE added(fdt_splice_string(fdt.hdr, Len(s) + 1))

\* Seeded fault: nodeoffset is used where nextoffset is meant.
fdt_add_property_at_node(fdt, node, name, val) ==
    LET put(next, s) ==
            CASE next < 0 -> Err(fdt, next)
              [] next >= 0 /\ s.ret # 0 -> s
              [] OTHER -> splice_words(s.fdt, node, 0, Unit(Prop(name, val)))
    IN  put(fdt_check_node_offset(fdt, node), fdt_find_add_string(fdt, name))

\* The new property goes in front of the node's other properties.
fdt_add_property(fdt, node, name, val) ==
    LET put(next, s) ==
            CASE next < 0 -> Err(fdt, next)
              [] next >= 0 /\ s.ret # 0 -> s
              [] OTHER -> splice_words(s.fdt, next, 0, Unit(Prop(name, val)))
    IN  put(fdt_check_node_offset(fdt, node), fdt_find_add_string(fdt, name))

fdt_setprop(fdt, node, name, val) ==
    LET put(p) ==
            CASE p >= 0 -> Retag(fdt, p, Prop(name, val))
              [] p = -FDT_ERR_NOTFOUND -> fdt_add_property(fdt, node, name, val)
              [] p < 0 /\ p # -FDT_ERR_NOTFOUND -> Err(fdt, p)
    IN  RwCall(fdt, put(fdt_get_property(fdt, node, name)))

\* Seeded fault: the new value goes in front of the old one.
fdt_appendprop_in_front(fdt, node, name, val) ==
    LET put(p) == IF p < 0 THEN fdt_add_property(fdt, node, name, val)
                  ELSE Retag(fdt, p, Prop(name, val \o At(fdt, p).val))
    IN  RwCall(fdt, put(fdt_get_property(fdt, node, name)))

fdt_appendprop(fdt, node, name, val) ==
    LET put(p) == IF p < 0 THEN fdt_add_property(fdt, node, name, val)
                  ELSE Retag(fdt, p, Prop(name, At(fdt, p).val \o val))
    IN  RwCall(fdt, put(fdt_get_property(fdt, node, name)))

fdt_delprop(fdt, node, name) ==
    LET p == fdt_get_property(fdt, node, name)
    IN  RwCall(fdt, IF p < 0 THEN Err(fdt, p)
                    ELSE splice_words(fdt, p, tag_words(At(fdt, p)), <<>>))

fdt_set_name(fdt, node, name) ==
    LET err == fdt_check_node_offset(fdt, node)
    IN  RwCall(fdt, IF err < 0 THEN Err(fdt, err)
                    ELSE Retag(fdt, node, Begin(name)))

\* Seeded fault: a new subnode goes right behind the BEGIN tag.
after_begin(fdt, off) == off

\* Where a new subnode goes: after the parent's properties and NOPs.
after_props(fdt, off) ==
    LET t(o) == fdt_next_tag(fdt, o)
        from[o \in Nat] ==
            IF t(o).tag \in {"PROP", "NOP"} THEN from[t(o).next] ELSE o
    IN  from[off]

\* -FDT_ERR_NOTFOUND as the parent looks like a search that found no such
\* subnode: fdt_next_tag then answers -FDT_ERR_TRUNCATED (-8) to every tag, and
\* the node is spliced in at byte -8, over the end of the reservation block.
\* Its first 8 bytes and the 8 bytes that were there stay outside and inside
\* the structure block respectively.  They are the size of the entry that ends
\* the reservation block, so that fdt_num_mem_rsv no longer finds that end: nrsv
\* goes on to say for how many entries there is room, not what it would answer.
AddAtError(fdt, new) ==
    LET r == fdt_splice_struct(fdt.hdr, -FDT_ERR_TRUNCATED, 0,
                               Len(new) * FDT_TAGSIZE)
    IN  IF r.ret # 0 THEN Err(fdt, r.ret)
        ELSE [ret |-> -FDT_ERR_TRUNCATED,
              fdt |-> [fdt EXCEPT !.hdr = r.hdr,
                         !.words = SubSeq(new, 3, Len(new)) \o <<Cont, Cont>>
                                     \o @]]

\* Seeded fault: -FDT_ERR_EXISTS is never returned.
fdt_add_subnode_again(fdt, parent, name) ==
    LET off == after_props(fdt, fdt_check_node_offset(fdt, parent))
    IN  RwCall(fdt, IF fdt_check_node_offset(fdt, parent) < 0
                    THEN Err(fdt, -FDT_ERR_BADOFFSET)
                    ELSE splice_words(fdt, off, 0,
                                      Unit(Begin(name)) \o <<EndNode>>))

\* Seeded fault: the offset behind the parent's BEGIN tag is returned.
fdt_add_subnode_next(fdt, parent, name) ==
    LET next == fdt_check_node_offset(fdt, parent)
        r    == splice_words(fdt, after_props(fdt, next), 0,
                             Unit(Begin(name)) \o <<EndNode>>)
    IN  RwCall(fdt, CASE next < 0 -> Err(fdt, next)
                      [] next >= 0 /\ fdt_subnode_offset(fdt, parent, name) >= 0
                             -> Err(fdt, -FDT_ERR_EXISTS)
                      [] OTHER -> IF r.ret # 0 THEN r ELSE [r EXCEPT !.ret = next])

fdt_add_subnode(fdt, parent, name) ==
    LET new       == Unit(Begin(name)) \o <<EndNode>>
        put(off)  == [splice_words(fdt, off, 0, new) EXCEPT
                         !.ret = IF @ # 0 THEN @ ELSE off]
        add(found) ==
            CASE found >= 0 -> Err(fdt, -FDT_ERR_EXISTS)
              [] found < 0 /\ found # -FDT_ERR_NOTFOUND -> Err(fdt, found)
              [] found = -FDT_ERR_NOTFOUND /\ parent < 0 -> AddAtError(fdt, new)
              [] found = -FDT_ERR_NOTFOUND /\ parent >= 0 ->
                     put(after_props(fdt, fdt_next_tag(fdt, parent).next))
    IN  RwCall(fdt, add(fdt_subnode_offset(fdt, parent, name)))

fdt_del_node(fdt, node) ==
    LET end == fdt_node_end_offset(fdt, node)
    IN  RwCall(fdt, IF end < 0 THEN Err(fdt, end)
                    ELSE splice_words(fdt, node, end - node, <<>>))

\* Seeded fault: the entry is not followed by a terminator of its own.
fdt_add_mem_rsv_last(fdt) ==
    LET r == fdt_splice_mem_rsv(fdt.hdr,
                                fdt.hdr.offRsv + fdt.nrsv * RSV_ENTRY, 0, 1)
    IN  RwCall(fdt, IF r.ret # 0 THEN Err(fdt, r.ret)
                    ELSE [ret |-> 0, fdt |-> [fdt EXCEPT !.hdr = r.hdr]])

fdt_add_mem_rsv(fdt) ==
    LET r == fdt_splice_mem_rsv(fdt.hdr,
                                fdt.hdr.offRsv + fdt.nrsv * RSV_ENTRY, 0, 1)
    IN  RwCall(fdt, IF r.ret # 0 THEN Err(fdt, r.ret)
                    ELSE [ret |-> 0, fdt |-> [fdt EXCEPT !.hdr = r.hdr,
                                                         !.nrsv = @ + 1]])

\* Seeded fault: the terminator counts as an entry.
fdt_del_mem_rsv_off_by_one(fdt, n) ==
    LET r == fdt_splice_mem_rsv(fdt.hdr, fdt.hdr.offRsv + n * RSV_ENTRY, 1, 0)
    IN  RwCall(fdt, IF n > fdt.nrsv THEN Err(fdt, -FDT_ERR_NOTFOUND)
                    ELSE IF r.ret # 0 THEN Err(fdt, r.ret)
                    ELSE [ret |-> 0, fdt |-> [fdt EXCEPT !.hdr = r.hdr,
                                                         !.nrsv = @ - 1]])

fdt_del_mem_rsv(fdt, n) ==
    LET r == fdt_splice_mem_rsv(fdt.hdr, fdt.hdr.offRsv + n * RSV_ENTRY, 1, 0)
    IN  RwCall(fdt, IF n >= fdt.nrsv THEN Err(fdt, -FDT_ERR_NOTFOUND)
                    ELSE IF r.ret # 0 THEN Err(fdt, r.ret)
                    ELSE [ret |-> 0, fdt |-> [fdt EXCEPT !.hdr = r.hdr,
                                                         !.nrsv = @ - 1]])

\* Opening a blob in a buffer, and packing it, by the header alone: the
\* contents of the blocks are copied as they are.
OpenInto(fdt, bufsize, gap) ==
    LET r == fdt_open_into(fdt.hdr, fdt.nrsv, Len(fdt.words) * FDT_TAGSIZE,
                           bufsize, gap)
    IN  [ret |-> r.ret, fdt |-> [fdt EXCEPT !.hdr = r.hdr]]

Pack(fdt) ==
    RwCall(fdt, [ret |-> 0,
                 fdt |-> [fdt EXCEPT !.hdr = fdt_pack(@, fdt.nrsv)]])

-----------------------------------------------------------------------------
(* What a blob says: a function from the paths of its nodes (sequences of  *)
(* names that start with the root's "") to their properties.               *)

NodeOffsets(fdt) == {k \in 0 .. Len(fdt.words) - 1 : At(fdt, k).tag = "BEGIN"}

\* The path of the node that is open after each word.
OpenPath(words) ==
    LET path[k \in 0 .. Len(words)] ==
            IF k = 0 THEN <<>>
            ELSE CASE words[k].tag = "BEGIN" ->
                        Append(path[k - 1], words[k].name)
                   [] words[k].tag = "END_NODE" ->
                        LET p == path[k - 1] IN SubSeq(p, 1, Len(p) - 1)
                   [] OTHER -> path[k - 1]
    IN  path

PathAt(fdt, node) == OpenPath(fdt.words)[node + 1]

TreeOf(fdt) ==
    LET path  == [k \in DOMAIN fdt.words |-> OpenPath(fdt.words)[k]]
        own(p) == {k \in DOMAIN fdt.words : fdt.words[k].tag = "PROP"
                                              /\ path[k] = p}
        names(p) == {fdt.words[k].name : k \in own(p)}
    IN  [p \in {path[n + 1] : n \in NodeOffsets(fdt)} |->
            [m \in names(p) |->
                fdt.words[CHOOSE k \in own(p) : fdt.words[k].name = m].val]]
=============================================================================
