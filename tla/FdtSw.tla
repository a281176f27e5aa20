-------------------------------- MODULE FdtSw --------------------------------
(***************************************************************************)
(* libfdt's sequential write half (fdt_sw.c) and the empty tree made with  *)
(* it (fdt_empty_tree.c).  A tree is written from its root down into a     *)
(* buffer: the structure block grows upwards behind the reservation        *)
(* entries, the strings block downwards from the end of the buffer, and    *)
(* fdt_finish moves the strings down behind the structure.                 *)
(*                                                                         *)
(*   fdt     the buffer: its header fields, magic, the tags written so far *)
(*           and the strings in the order of their addresses               *)
(*   nrsv    reservation entries written, the terminator apart             *)
(*   path    the names of the nodes begun and not ended                    *)
(*   tree    what the calls that succeeded have described: a function from *)
(*           paths to properties; nothing reads it, it is there to be      *)
(*           compared                                                      *)
(*                                                                         *)
(* A tag is [tag, name, nameoff, val]: name is what the client passed,     *)
(* nameoff what the property holds to find it again.  A value is a string. *)
(***************************************************************************)
EXTENDS FdtHeader, SequencesExt, TLC

CONSTANTS NodeNames, PropNames, Vals,   \* what calls are made with
          BufSizes,                     \* sizes of the buffers
          MaxNodes                      \* bound: nodes of a tree

\* An empty name is the root's; names are sequences of characters.
ASSUME SwAssumption ==
    /\ BufSizes \subseteq Nat
    /\ "" \in NodeNames
    /\ \A s \in NodeNames \cup PropNames \cup Vals : Len(s) \in Nat
    /\ \A s \in PropNames : SubSeq(s, 1, Len(s)) = s

VARIABLES fdt, nrsv, path, tree

vars == <<fdt, nrsv, path, tree>>

FDT_ERR_BADSTATE == 7
FDT_ERR_BADMAGIC == 9

SW_RSV_START == FDT_ALIGN(40, RSV_ENTRY)

Tag(tag, name, nameoff, val) ==
    [tag |-> tag, name |-> name, nameoff |-> nameoff, val |-> val]

Ok(f)      == [ret |-> 0, fdt |-> f]
No(f, err) == [ret |-> -err, fdt |-> f]

\* FDT_SW_CHECK_HEADER, and then the call r.
SwCall(f, r) == IF f.magic = "sw" THEN r ELSE No(f, FDT_ERR_BADMAGIC)

-----------------------------------------------------------------------------
Blank == [magic |-> "none", version |-> 0, offRsv |-> 0, offStruct |-> 0,
          sizeStruct |-> 0, offStrings |-> 0, sizeStrings |-> 0, total |-> 0,
          tags |-> <<>>, strs |-> <<>>]

\* What the read-only half asks of a tree, finished or not.
fdt_check_header(f) ==
    CASE f.magic = "sw" /\ f.sizeStruct = 0 -> -FDT_ERR_BADSTATE
      [] f.magic = "none" -> -FDT_ERR_BADMAGIC
      [] OTHER -> 0

fdt_create(bufsize) ==
    IF bufsize < 40 THEN No(Blank, FDT_ERR_NOSPACE)
    ELSE Ok([Blank EXCEPT !.magic = "sw", !.version = 17, !.total = bufsize,
                          !.offRsv = SW_RSV_START, !.offStruct = SW_RSV_START,
                          !.offStrings = bufsize])

fdt_add_reservemap_entry(f) ==
    SwCall(f, CASE f.sizeStruct > 0 -> No(f, FDT_ERR_BADSTATE)
                [] f.sizeStruct = 0 /\ f.offStruct + RSV_ENTRY > f.total
                      -> No(f, FDT_ERR_NOSPACE)
                [] OTHER -> Ok([f EXCEPT !.offStruct = @ + RSV_ENTRY]))

\* Seeded fault: the room the strings take is forgotten.
grab_space_over(f, len, tags) ==
    LET spaceleft == f.total - f.offStruct
    IN  IF spaceleft >= 0 /\ f.sizeStruct + len > spaceleft
        THEN No(f, FDT_ERR_NOSPACE)
        ELSE Ok([f EXCEPT !.sizeStruct = @ + len, !.tags = @ \o tags])

\* spaceleft is an int compared with a size_t: below 0 it is a huge number,
\* and everything fits.
grab_space(f, len, tags) ==
    LET spaceleft == f.total - f.offStruct - f.sizeStrings
    IN  IF spaceleft >= 0 /\ f.sizeStruct + len > spaceleft
        THEN No(f, FDT_ERR_NOSPACE)
        ELSE Ok([f EXCEPT !.sizeStruct = @ + len, !.tags = @ \o tags])

\* Seeded fault: the name is not padded to a whole number of tags.
fdt_begin_node_unpadded(f, name) ==
    SwCall(f, grab_space(f, FDT_TAGSIZE + Len(name) + 1,
                         <<Tag("BEGIN", name, 0, "")>>))

fdt_begin_node(f, name) ==
    SwCall(f, grab_space(f, FDT_TAGSIZE + FDT_TAGALIGN(Len(name) + 1),
                         <<Tag("BEGIN", name, 0, "")>>))

fdt_end_node(f) ==
    SwCall(f, grab_space(f, FDT_TAGSIZE, <<Tag("END_NODE", "", 0, "")>>))

\* Where each string starts, counted from the first of them.
Starts(strs) ==
    LET end[i \in 0 .. Len(strs)] == IF i = 0 THEN 0
                                     ELSE end[i - 1] + Len(strs[i]) + 1
    IN  [i \in 1 .. Len(strs) |-> end[i - 1]]

\* String t ends in s.
EndsIn(t, s) == /\ Len(s) <= Len(t)
                /\ SubSeq(t, Len(t) - Len(s) + 1, Len(t)) = s

\* The first place at which a string ends in s.
find_string(strs, s) ==
    LET at == {Starts(strs)[i] + Len(strs[i]) - Len(s) :
                  i \in {k \in DOMAIN strs : EndsIn(strs[k], s)}}
    IN  CHOOSE p \in at : \A q \in at : p <= q

IsThere(strs, s) == \E k \in DOMAIN strs : EndsIn(strs[k], s)

\* Returns the (negative) offset of the string from the end of the buffer,
\* and 0 when there is no room.  total + offset is unsigned: for a name longer
\* than the buffer it wraps, and the name is taken to fit.
find_add_string(f, s) ==
    LET bottom == f.total - f.sizeStrings - (Len(s) + 1)
    IN  CASE IsThere(f.strs, s) ->
                [ret |-> find_string(f.strs, s) - f.sizeStrings, fdt |-> f]
          [] /\ ~IsThere(f.strs, s)
             /\ 0 <= bottom /\ bottom < f.offStruct + f.sizeStruct -> Ok(f)
          [] OTHER -> [ret |-> -(f.sizeStrings + Len(s) + 1),
                       fdt |-> [f EXCEPT !.sizeStrings = @ + Len(s) + 1,
                                         !.strs = <<s>> \o @]]

fdt_property(f, name, val) ==
    LET put(r) == IF r.ret = 0 THEN No(f, FDT_ERR_NOSPACE)
                  ELSE grab_space(r.fdt, 12 + FDT_TAGALIGN(Len(val) + 1),
                                  <<Tag("PROP", name, r.ret, val)>>)
    IN  SwCall(f, put(find_add_string(f, name)))

\* Seeded fault: the offsets stay relative to the end of the buffer.
Relocated_kept(f) == f.tags

\* Property names found from the start of the strings block, once it has one.
Relocated(f) ==
    [k \in DOMAIN f.tags |->
        IF f.tags[k].tag = "PROP"
        THEN [f.tags[k] EXCEPT !.nameoff = @ + f.sizeStrings]
        ELSE f.tags[k]]

fdt_finish(f) ==
    LET strings(g) == g.offStruct + g.sizeStruct
        done(r) == IF r.ret # 0 THEN r
                   ELSE Ok([r.fdt EXCEPT
                               !.offStrings = strings(r.fdt),
                               !.tags  = Relocated(r.fdt),
                               !.total = strings(r.fdt) + r.fdt.sizeStrings,
                               !.magic = "fdt"])
    IN  SwCall(f, done(grab_space(f, FDT_TAGSIZE, <<Tag("END", "", 0, "")>>)))

\* The finished tree's header, as the rest of libfdt reads it.
HeaderOf(f) == [version |-> f.version, offRsv |-> f.offRsv,
                offStruct |-> f.offStruct, sizeStruct |-> f.sizeStruct,
                offStrings |-> f.offStrings, sizeStrings |-> f.sizeStrings,
                total |-> f.total]

WithHeader(f, h) ==
    [f EXCEPT !.version = h.version, !.offRsv = h.offRsv,
              !.offStruct = h.offStruct, !.sizeStruct = h.sizeStruct,
              !.offStrings = h.offStrings, !.sizeStrings = h.sizeStrings,
              !.total = h.total]

\* fdt_create_empty_tree(): stops at the first call that fails.
fdt_create_empty_tree(bufsize) ==
    LET then(r, next(_)) == IF r.ret # 0 THEN r ELSE next(r.fdt)
        open(f) == LET r == fdt_open_into(HeaderOf(f), 0, f.sizeStruct,
                                          bufsize, f.total)
                   IN  [ret |-> r.ret, fdt |-> WithHeader(f, r.hdr)]
        root(f) == fdt_begin_node(f, "")
        closed(r)   == then(r, fdt_end_node)
        finished(r) == then(r, fdt_finish)
    IN  then(finished(closed(then(then(fdt_create(bufsize),
                                       fdt_add_reservemap_entry), root))), open)

-----------------------------------------------------------------------------
(* A client that writes one tree, in the order a blob needs it.            *)

Init ==
    /\ fdt = Blank
    /\ nrsv = -1 /\ path = <<>> /\ tree = <<>>

Writing == fdt.magic = "sw"

Create(bufsize) ==
    /\ fdt.magic = "none"
    /\ fdt' = fdt_create(bufsize).fdt
    /\ UNCHANGED <<nrsv, path, tree>>

CreateEmptyTree(bufsize) ==
    /\ fdt.magic = "none"
    /\ \E r \in {fdt_create_empty_tree(bufsize)} :
          /\ r.ret = 0
          /\ fdt' = r.fdt
    /\ nrsv' = 0
    /\ tree' = (<<"">> :> << >>)
    /\ UNCHANGED path

\* nrsv counts the terminator too, so that it is -1 in front of any entry.
AddReserveMapEntry ==
    /\ Writing
    /\ \E r \in {fdt_add_reservemap_entry(fdt)} :
          fdt' = r.fdt /\ nrsv' = nrsv + (IF r.ret = 0 THEN 1 ELSE 0)
    /\ UNCHANGED <<path, tree>>

\* The properties of a node come before its subnodes.
BeginNode(name) ==
    /\ Writing /\ nrsv >= 0
    /\ Append(path, name) \notin DOMAIN tree
    /\ Cardinality(DOMAIN tree) < MaxNodes
    /\ (path = <<>>) <=> (name = "")
    /\ path = <<>> => tree = <<>>
    /\ \E r \in {fdt_begin_node(fdt, name)} :
          /\ r.ret = 0
          /\ fdt' = r.fdt
          /\ path' = Append(path, name)
          /\ tree' = (path' :> << >>) @@ tree
    /\ UNCHANGED nrsv

EndNode ==
    /\ Writing /\ path # <<>>
    /\ \E r \in {fdt_end_node(fdt)} :
          r.ret = 0 /\ fdt' = r.fdt /\ path' = Front(path)
    /\ UNCHANGED <<nrsv, tree>>

Property(name, val) ==
    /\ Writing /\ path # <<>>
    /\ Last(fdt.tags).tag \in {"BEGIN", "PROP"}
    /\ name \notin DOMAIN tree[path]
    /\ \E r \in {fdt_property(fdt, name, val)} :
          /\ fdt' = r.fdt
          /\ tree' = IF r.ret # 0 THEN tree
                     ELSE [tree EXCEPT ![path] = (name :> val) @@ @]
    /\ UNCHANGED <<nrsv, path>>

Finish ==
    /\ Writing /\ path = <<>> /\ tree # <<>>
    /\ fdt' = fdt_finish(fdt).fdt
    /\ UNCHANGED <<nrsv, path, tree>>

Next ==
    \/ \E b \in BufSizes : Create(b) \/ CreateEmptyTree(b)
    \/ AddReserveMapEntry
    \/ \E name \in NodeNames : BeginNode(name)
    \/ \E name \in PropNames, val \in Vals : Property(name, val)
    \/ EndNode
    \/ Finish

Spec == Init /\ [][Next]_vars

-----------------------------------------------------------------------------
TypeOK ==
    /\ HeaderOf(fdt) \in Header
    /\ fdt.magic \in {"none", "sw", "fdt"}
    /\ \A k \in DOMAIN fdt.tags : fdt.tags[k].tag = "PROP" =>
          IF fdt.magic = "sw" THEN -fdt.tags[k].nameoff \in Nat \ {0}
          ELSE fdt.tags[k].nameoff \in Nat
    /\ nrsv \in Nat \cup {-1}

\* Once the reservation block is finished, the blocks never meet and never
\* leave the buffer: _fdt_grab_space and _fdt_find_add_string each compare with
\* what the other has taken.  It is the reservation block that fails first in a
\* buffer of 40 to 47 bytes, in which _fdt_grab_space's signed room is negative
\* and passes for a large one.
BlocksInBuffer ==
    fdt.magic = "sw" /\ nrsv >= 0 =>
        /\ SW_RSV_START + rsv_size(nrsv) = fdt.offStruct
        /\ fdt.offStruct + fdt.sizeStruct <= fdt.total - fdt.sizeStrings

\* A property finds its name by the offset it holds, in the growing tree (from
\* the end of the buffer) as in the finished one (from the start of the strings
\* block), wherever strings added later have put it.
NamesResolve ==
    \A k \in DOMAIN fdt.tags : fdt.tags[k].tag = "PROP" =>
        LET off == fdt.tags[k].nameoff
                     + (IF fdt.magic = "sw" THEN fdt.sizeStrings ELSE 0)
        IN  \E i \in DOMAIN fdt.strs :
                /\ EndsIn(fdt.strs[i], fdt.tags[k].name)
                /\ off = Starts(fdt.strs)[i] + Len(fdt.strs[i])
                            - Len(fdt.tags[k].name)
=============================================================================
