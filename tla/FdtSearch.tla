------------------------------ MODULE FdtSearch -------------------------------
(***************************************************************************)
(* The rest of libfdt's read-only half (fdt_ro.c, fdt.c): enumerating,     *)
(* finding nodes by what they hold, finding a node's parents and its path. *)
(* A client enumerates subnodes, nodes or properties one call at a time,   *)
(* and between two calls takes things it has no offset of out of the tree, *)
(* which fdt_wip.c does without moving anything.                           *)
(*                                                                         *)
(*   fdt     the blob (FdtBlob)                                            *)
(*   walk    the enumeration: its kind, its node, the offset at which it   *)
(*           is (an error at its end), and what there was to visit when it *)
(*           began                                                         *)
(*   seen    the offsets it has returned                                   *)
(*   buf     a buffer of the client's, paths and strings in it             *)
(*   nops    how often it has taken something out of the tree              *)
(***************************************************************************)
EXTENDS FdtBlob, LibString

CONSTANTS Blobs,        \* the blobs a behaviour starts with
          Strings,      \* compatible strings, property names and paths asked for
          BufLen,       \* bytes of buf
          MaxNops       \* bound: nodes and properties taken out

ASSUME SearchAssumption == BufLen \in Nat /\ MaxNops \in Nat

VARIABLES fdt, walk, seen, buf, nops

vars == <<fdt, walk, seen, buf, nops>>

FDT_ERR_BADPHANDLE == 6
FDT_ERR_INTERNAL   == 13
UNDEFINED          == 1     \* anything may follow; no call here answers 1

-----------------------------------------------------------------------------
(* Enumerating                                                             *)

\* [name, val], or an error in ret.
fdt_getprop_by_offset(f, off) ==
    LET err == fdt_check_prop_offset(f, off)
    IN  IF err < 0 THEN [ret |-> err]
        ELSE [ret |-> 0, name |-> At(f, off).name, val |-> At(f, off).val]

fdt_first_subnode(f, node) ==
    LET only(n) == IF n.off < 0 \/ n.depth # 1 THEN -FDT_ERR_NOTFOUND ELSE n.off
    IN  only(fdt_next_node(f, node, 0))

\* Seeded fault: a node further down is taken for the next subnode.
fdt_next_subnode_any(f, node) ==
    LET only(n) == IF n.off < 0 \/ n.depth < 1 THEN -FDT_ERR_NOTFOUND ELSE n.off
    IN  only(fdt_next_node(f, node, 1))

RECURSIVE next_subnode_from(_, _, _)
next_subnode_from(f, node, depth) ==
    LET on(n) == CASE n.off < 0 \/ n.depth < 1 -> -FDT_ERR_NOTFOUND
                   [] n.off >= 0 /\ n.depth = 1 -> n.off
                   [] OTHER -> next_subnode_from(f, n.off, n.depth)
    IN  on(fdt_next_node(f, node, depth))

fdt_next_subnode(f, node) == next_subnode_from(f, node, 1)

\* fdt_next_node with no depth to keep: the ends of nodes are passed over, and
\* so is the end of a structure block that lacks its END tag.
RECURSIVE following_from(_, _)
following_from(f, off) ==
    LET on(t) == CASE t.tag = "BEGIN" -> off
                   [] t.tag = "END" ->
                        IF t.next >= 0 \/ t.next = -FDT_ERR_TRUNCATED
                        THEN -FDT_ERR_NOTFOUND ELSE t.next
                   [] OTHER -> following_from(f, t.next)
    IN  on(fdt_next_tag(f, off))

following_node(f, off) ==
    LET from(next) == IF next < 0 THEN next ELSE following_from(f, next)
    IN  from(IF off < 0 THEN 0 ELSE fdt_check_node_offset(f, off))

fdt_get_name(f, node) ==
    LET err == fdt_check_node_offset(f, node)
    IN  IF err < 0 THEN [ret |-> err] ELSE [ret |-> 0, name |-> At(f, node).name]

-----------------------------------------------------------------------------
(* Searching                                                               *)

\* The first node behind start that is among those wanted.
RECURSIVE next_wanted(_, _, _)
next_wanted(f, start, wanted) ==
    LET at(n) == IF n < 0 \/ n \in wanted THEN n ELSE next_wanted(f, n, wanted)
    IN  at(following_node(f, start))

Having(f, wanted(_)) == {n \in NodeOffsets(f) : wanted(n)}

\* Empty values are compared with memcmp's n = 0 and never match.
fdt_node_offset_by_prop_value(f, start, name, val) ==
    LET wanted(n) == /\ fdt_get_property(f, n, name) >= 0
                     /\ fdt_getprop(f, n, name) = val /\ val_len(val) # 0
    IN  next_wanted(f, start, Having(f, wanted))

fdt_node_offset_by_phandle(f, phandle) ==
    LET wanted(n) == fdt_get_phandle(f, n) = phandle
    IN  IF phandle \in {0, -1} THEN -FDT_ERR_BADPHANDLE
        ELSE next_wanted(f, -1, Having(f, wanted))

\* The bytes of a list of strings; the byte behind them, padding or the first
\* of the next tag, is 0.
ListBytes(val) ==
    FlattenSeq([i \in DOMAIN val |-> Chars(val[i].str) \o <<NUL>>])

\* The loop runs as long as str may fit.  memchr's address is one further than
\* meant, and so are the steps from one string to the next.
fdt_stringlist_contains(list, str) ==
    LET len == Len(str)
        m   == list \o [k \in 1 .. 2 |-> NUL] \o Chars(str) \o <<NUL>>
        from[p \in Int] ==
            LET listlen == Len(list) - (p - 1)
                q       == memchr(m, p, NUL, listlen)
            IN  CASE listlen < len -> FALSE
                  [] listlen >= len /\ memcmp(m, Len(list) + 3, p, len + 1) -> TRUE
                  [] OTHER -> IF q = 0 THEN FALSE ELSE from[q + 1]
    IN  from[1]

\* 0 when it is compatible, 1 when it is not.
fdt_node_check_compatible(f, node, compatible) ==
    LET check(p) ==
            CASE p < 0 -> p
              [] p >= 0 /\ fdt_stringlist_contains(ListBytes(At(f, p).val),
                                                   compatible) -> 0
              [] OTHER -> 1
    IN  check(fdt_get_property(f, node, "compatible"))

\* Seeded fault: a node without the property ends the search.
fdt_node_offset_by_compatible_any(f, start, compatible) ==
    LET err(n)    == fdt_node_check_compatible(f, n, compatible)
        wanted(n) == err(n) <= 0
        result(n) == IF n >= 0 /\ err(n) # 0 THEN err(n) ELSE n
    IN  result(next_wanted(f, start, Having(f, wanted)))

\* Errors other than NOTFOUND end the search.
fdt_node_offset_by_compatible(f, start, compatible) ==
    LET err(n)    == fdt_node_check_compatible(f, n, compatible)
        wanted(n) == err(n) = 0 \/ (err(n) < 0 /\ err(n) # -FDT_ERR_NOTFOUND)
        result(n) == IF n >= 0 /\ err(n) # 0 THEN err(n) ELSE n
    IN  result(next_wanted(f, start, Having(f, wanted)))

-----------------------------------------------------------------------------
(* From a node upwards                                                     *)

\* What a loop that looks for a node from the root on returns without it.
not_met(off) ==
    CASE off = -FDT_ERR_NOTFOUND \/ off >= 0 -> -FDT_ERR_BADOFFSET
      [] off = -FDT_ERR_BADOFFSET -> -FDT_ERR_BADSTRUCTURE
      [] OTHER -> off

RECURSIVE supernode_from(_, _, _, _, _)
supernode_from(f, n, node, at, super) ==
    LET found == IF n.depth = at THEN n.off ELSE super
    IN  CASE n.off < 0 \/ n.off > node -> [ret |-> not_met(n.off), depth |-> -1]
          [] n.off = node ->
                [ret |-> IF at > n.depth THEN -FDT_ERR_NOTFOUND ELSE found,
                 depth |-> n.depth]
          [] OTHER -> supernode_from(f, fdt_next_node(f, n.off, n.depth),
                                     node, at, found)

fdt_supernode_atdepth_offset(f, node, at) ==
    IF at < 0 THEN [ret |-> -FDT_ERR_NOTFOUND, depth |-> -1]
    ELSE supernode_from(f, [off |-> 0, depth |-> 0], node, at,
                       -FDT_ERR_INTERNAL)

fdt_node_depth(f, node) ==
    LET depth(r) == IF r.ret < 0 THEN r.ret ELSE r.depth
    IN  depth(fdt_supernode_atdepth_offset(f, node, 0))

\* Seeded fault: the node at the node's own depth.
fdt_parent_offset_same(f, node) ==
    LET above(depth) == IF depth < 0 THEN depth
                        ELSE fdt_supernode_atdepth_offset(f, node, depth).ret
    IN  above(fdt_node_depth(f, node))

fdt_parent_offset(f, node) ==
    LET above(depth) == IF depth < 0 THEN depth
                        ELSE fdt_supernode_atdepth_offset(f, node, depth - 1).ret
    IN  above(fdt_node_depth(f, node))

\* The bytes of names, each with the "/" behind it.
Joined(names) == FlattenSeq([i \in DOMAIN names |-> Chars(names[i]) \o <<"/">>])

\* The loop of fdt_get_path: names are those in the buffer.  A name that does
\* not fit is left out, and with it everything below that node.  Behind the root
\* node, at depth -1, the search for the "/" in front reads below the buffer:
\* whether and where it ends is undefined.
RECURSIVE path_names(_, _, _, _, _)
path_names(f, n, node, names, buflen) ==
    LET above == IF Len(names) > n.depth THEN SubSeq(names, 1, n.depth) ELSE names
        more  == Append(above, At(f, n.off).name)
        here  == IF Len(above) >= n.depth /\ Len(Joined(more)) <= buflen
                 THEN more ELSE above
    IN  CASE n.off < 0 \/ n.off > node -> [ret |-> not_met(n.off), names |-> <<>>]
          [] n.off \in 0 .. node /\ n.depth < 0 ->
                [ret |-> UNDEFINED, names |-> <<>>]
          [] n.off = node /\ n.depth >= 0 ->
                [ret |-> IF Len(here) < n.depth + 1 THEN -FDT_ERR_NOSPACE ELSE 0,
                 names |-> here]
          [] OTHER -> path_names(f, fdt_next_node(f, n.off, n.depth), node, here,
                                 buflen)

\* ret, and the path with its NUL where the last "/" was, the root's excepted.
fdt_get_path(f, node, buflen) ==
    LET ended(p)  == (IF Len(p) > 1 THEN Front(p) ELSE p) \o <<NUL>>
        result(r) == [ret |-> r.ret,
                      path |-> IF r.ret = 0 THEN ended(Joined(r.names)) ELSE <<>>]
    IN  IF buflen < 2 THEN [ret |-> -FDT_ERR_NOSPACE, path |-> <<>>]
        ELSE result(path_names(f, [off |-> 0, depth |-> 0], node, <<>>, buflen))

\* fdt_path_offset of a path as it is written: any number of "/" between the
\* names, an alias in front of the first when it does not start with one.
RECURSIVE path_offset_from(_, _, _, _)
path_offset_from(f, off, m, p) ==
    LET q   == strchr(m, p, "/")
        end == IF q = 0 THEN p + strlen(m, p) ELSE q
        sub == fdt_subnode_offset(f, off, Text(SubSeq(m, p, end - 1)))
    IN  CASE off < 0 \/ m[p] = NUL -> off
          [] off >= 0 /\ m[p] = "/" -> path_offset_from(f, off, m, p + 1)
          [] OTHER -> path_offset_from(f, sub, m, end)

RECURSIVE fdt_path_text_offset(_, _)
fdt_path_text_offset(f, path) ==
    LET m     == Chars(path) \o <<NUL>>
        q     == strchr(m, 1, "/")
        end   == IF q = 0 THEN Len(m) ELSE q
        named == fdt_getprop(f, path_offset_from(f, 0, Chars("/aliases") \o <<NUL>>, 1),
                             Text(SubSeq(m, 1, end - 1)))
    IN  IF m[1] = "/" THEN path_offset_from(f, 0, m, 1)
        ELSE IF named = <<>> THEN -FDT_ERR_BADPATH
        ELSE path_offset_from(f, fdt_path_text_offset(f, named[1].str), m, end)
-----------------------------------------------------------------------------
(* The client.                                                             *)

Blank == [k \in 1 .. BufLen |-> NUL]

Idle == [kind |-> "none", node |-> -1, at |-> -1, there |-> {}]

\* What an enumeration is of, by the tags.
Parent(f, n)      == SubSeq(PathAt(f, n), 1, Len(PathAt(f, n)) - 1)
Subnodes(f, node) == {n \in NodeOffsets(f) : /\ Len(PathAt(f, n)) > 1
                                             /\ Parent(f, n) = PathAt(f, node)}
Props(f, node)    == {p \in 0 .. Len(f.words) - 1 :
                        /\ At(f, p).tag = "PROP"
                        /\ OpenPath(f.words)[p + 1] = PathAt(f, node)}

There(f, kind, node) ==
    CASE kind = "subnodes"   -> Subnodes(f, node)
      [] kind = "properties" -> Props(f, node)
      [] kind = "nodes"      -> {n \in NodeOffsets(f) : n > node}

first_of(f, kind, node) ==
    CASE kind = "subnodes"   -> fdt_first_subnode(f, node)
      [] kind = "properties" -> fdt_first_property_offset(f, node)
      [] kind = "nodes"      -> following_node(f, node)

next_of(f, kind, off) ==
    CASE kind = "subnodes"   -> fdt_next_subnode(f, off)
      [] kind = "properties" -> fdt_next_property_offset(f, off)
      [] kind = "nodes"      -> following_node(f, off)

Walking  == walk.kind # "none" /\ walk.at >= 0
Finished == walk.kind # "none" /\ walk.at < 0

Init ==
    /\ fdt \in Blobs
    /\ walk = Idle /\ seen = <<>>
    /\ buf = Blank /\ nops = 0

Reached(off) == seen' = IF off < 0 THEN seen ELSE Append(seen, off)

Start(kind, node) ==
    /\ walk = Idle /\ buf = Blank
    /\ walk' = [kind |-> kind, node |-> node, at |-> first_of(fdt, kind, node),
                there |-> There(fdt, kind, node)]
    /\ Reached(walk'.at)
    /\ UNCHANGED <<fdt, buf, nops>>

Step ==
    /\ Walking
    /\ walk' = [walk EXCEPT !.at = next_of(fdt, walk.kind, @)]
    /\ Reached(walk'.at)
    /\ UNCHANGED <<fdt, buf, nops>>

\* The nodes the client has offsets of, and those around them, stay.
Held(n) == /\ Walking
           /\ \E h \in {walk.node, walk.at} :
                 IsPrefix(PathAt(fdt, n), OpenPath(fdt.words)[h + 1])

TakeOut ==
    /\ ~Finished /\ buf = Blank
    /\ nops < MaxNops /\ nops' = nops + 1
    /\ UNCHANGED <<walk, seen, buf>>

NopNode ==
    /\ TakeOut
    /\ \E n \in NodeOffsets(fdt) \ {0} :
          ~Held(n) /\ fdt' = fdt_nop_node(fdt, n).fdt

NopProperty ==
    /\ TakeOut
    /\ \E n \in NodeOffsets(fdt) : \E p \in Props(fdt, n) :
          /\ ~(Walking /\ walk.at = p)
          /\ fdt' = fdt_nop_property(fdt, n, At(fdt, p).name).fdt

\* The buffer keeps what the path does not overwrite.  (Bound: paths are asked
\* for in the tree as it was.)
GetPath(buflen) ==
    /\ walk = Idle /\ nops = 0
    /\ \E n \in NodeOffsets(fdt) : \E r \in {fdt_get_path(fdt, n, buflen)} :
          buf' = [k \in DOMAIN buf |->
                    IF k \in DOMAIN r.path THEN r.path[k] ELSE buf[k]]
    /\ UNCHANGED <<fdt, walk, seen, nops>>

Next ==
    \/ \E kind \in {"subnodes", "properties", "nodes"}, n \in NodeOffsets(fdt) :
          Start(kind, n)
    \/ Step
    \/ NopNode
    \/ NopProperty
    \/ \E n \in 1 .. BufLen : GetPath(n)

Spec == Init /\ [][Next]_vars

-----------------------------------------------------------------------------
\* An enumeration visits in order, and once, everything that was there from its
\* start to its end, and nothing that was not there at its start: taking things
\* out of the tree in between neither ends it early nor sends it into another
\* node.  It ends with NOTFOUND, and a property it is at is the one found by the
\* name it has.
WalkComplete ==
    /\ \A i, j \in DOMAIN seen : i < j => seen[i] < seen[j]
    /\ \A i \in DOMAIN seen : seen[i] \in walk.there
    /\ Walking /\ walk.kind = "properties" =>
          \E p \in {fdt_getprop_by_offset(fdt, walk.at)} :
              p.ret = 0 /\ fdt_getprop(fdt, walk.node, p.name) = p.val
    /\ Finished =>
          /\ walk.at = -FDT_ERR_NOTFOUND
          /\ There(fdt, walk.kind, walk.node) \subseteq {seen[i] : i \in DOMAIN seen}

\* The least of a set of offsets, or the error.
Least(S) == IF S = {} THEN -FDT_ERR_NOTFOUND
            ELSE CHOOSE n \in S : \A k \in S : n <= k

PathText(p) == IF Len(p) = 1 THEN "/"
               ELSE FoldLeft(LAMBDA t, name : t \o "/" \o name, "", Tail(p))

\* From every offset upwards: the depth, the parent and every other node around
\* a node are those its path says, its path finds it again and is refused
\* exactly by a buffer it does not fit in, and what is not a node is said not
\* to be one, with BADOFFSET as libfdt.h has it.  Behind the end of the root,
\* where only the tag that ends the block is left, the answer is NOTFOUND
\* instead, and fdt_get_path reads below its buffer.  (An enumeration in
\* progress and what is in the client's buffer have no part in this.)
BehindRoot(off) == off > fdt_node_end_offset(fdt, 0) - 1

NotANode(off) ==
    LET refusal == IF BehindRoot(off) THEN -FDT_ERR_NOTFOUND ELSE -FDT_ERR_BADOFFSET
    IN  /\ fdt_node_depth(fdt, off) = refusal
        /\ fdt_parent_offset(fdt, off) = refusal
        /\ fdt_get_name(fdt, off).ret = -FDT_ERR_BADOFFSET
        /\ ~BehindRoot(off) =>
              fdt_get_path(fdt, off, BufLen).ret = -FDT_ERR_BADOFFSET

Around(off, path, paths) ==
    /\ fdt_get_name(fdt, off).name = Last(path)
    /\ fdt_node_depth(fdt, off) = Len(path) - 1
    /\ \A d \in 0 .. Len(path) - 1 :
          paths[fdt_supernode_atdepth_offset(fdt, off, d).ret]
              = SubSeq(path, 1, d + 1)
    /\ \E up \in {fdt_parent_offset(fdt, off)} :
          IF off = 0 THEN up = -FDT_ERR_NOTFOUND ELSE paths[up] = Front(path)

FoundByPath(off, text) ==
    /\ \A len \in 0 .. BufLen :
          fdt_get_path(fdt, off, len)
            = IF Len(text) < len THEN [ret |-> 0, path |-> Chars(text) \o <<NUL>>]
              ELSE [ret |-> -FDT_ERR_NOSPACE, path |-> <<>>]
    /\ fdt_path_text_offset(fdt, text) = off
    /\ fdt_path_text_offset(fdt, text \o "//") = off

UpwardsAgree ==
    walk = Idle /\ buf = Blank =>
        \A nodes \in {NodeOffsets(fdt)} :
        \A paths \in {[n \in nodes |-> PathAt(fdt, n)]} :
            /\ \A off \in 0 .. Len(fdt.words) - 1 :
                  off \notin nodes => NotANode(off)
            /\ \A off \in nodes : /\ Around(off, paths[off], paths)
                                  /\ FoundByPath(off, PathText(paths[off]))

\* What the searches find: the first node behind the start that has what is
\* asked for, and in a list of one string exactly that string.  (Nothing is said
\* of empty values: libfdt.h promises that they are found like any other, and
\* memcmp with n = 0 does not find them.)
Firsts(own, start, name, val) ==
    Least({n \in DOMAIN own : n > start /\ name \in DOMAIN own[n]
                                       /\ own[n][name] = val})

CompatibleOne(own, n, c) ==
    "compatible" \in DOMAIN own[n] /\ Len(own[n]["compatible"]) = 1 =>
        (fdt_node_check_compatible(fdt, n, c) = 0
            <=> own[n]["compatible"] = <<Str(c)>>)

SearchesAgree ==
    walk = Idle /\ buf = Blank =>
        \A tree \in {TreeOf(fdt)} :
        \A own \in {[n \in NodeOffsets(fdt) |-> tree[PathAt(fdt, n)]]} :
        \A start \in DOMAIN own \cup {-1} :
          /\ \A name \in Strings, n \in DOMAIN own :
                name \in DOMAIN own[n] /\ own[n][name] # <<>> =>
                    fdt_node_offset_by_prop_value(fdt, start, name, own[n][name])
                        = Firsts(own, start, name, own[n][name])
          /\ \A c \in Strings :
                fdt_node_offset_by_compatible(fdt, start, c)
                  = Least({n \in DOMAIN own : n > start /\
                              fdt_node_check_compatible(fdt, n, c) = 0})
          /\ \A c \in Strings : start # -1 => CompatibleOne(own, start, c)
          /\ \A h \in 1 .. 3 :
                fdt_node_offset_by_phandle(fdt, h)
                  = Least({n \in DOMAIN own : fdt_get_phandle(fdt, n) = h})

\* Whatever path is in the buffer: moving bytes within it leaves at the
\* destination what was at the source, however the two overlap; strchr finds the
\* first "/" of a string that is not empty; and what is appended to the path or
\* copied over it is the string, or the first n bytes of it.
StringsAgree ==
    LET m    == buf \o <<"x", "/", NUL>>
        xs   == BufLen + 1
        end  == strlen(m, 1)
        String(x) == SubSeq(x, 1, strlen(x, 1))
        path == String(m)
        Fits(d, s, n) == d + n <= BufLen + 1 /\ s + n <= BufLen + 1
    IN  /\ \A d, s \in 1 .. BufLen, n \in 0 .. BufLen :
              Fits(d, s, n) =>
                memmove(buf, d, s, n)
                  = [k \in DOMAIN buf |-> IF k \in d .. d + n - 1
                                          THEN buf[k - d + s] ELSE buf[k]]
        /\ \A s \in 1 .. end :
              strchr(m, s, "/") = LET at == {k \in s .. end : m[k] = "/"}
                                  IN  IF at = {} THEN 0
                                      ELSE CHOOSE k \in at : \A j \in at : k <= j
        /\ end + 3 <= BufLen =>
              /\ String(strcat(m, 1, xs)) = path \o <<"x", "/">>
              /\ String(strncat(m, 1, xs, 1)) = path \o <<"x">>
              /\ String(strcat(strcpy(m, 1, xs), 1, xs)) = <<"x", "/", "x", "/">>
              /\ strcmp(strcat(m, 1, xs), 1, xs) <=> end = 0

\* libfdt.h: fdt_node_check_compatible() returns 0 if the property has the
\* string as one of its elements.
CompatibleIfListed ==
    \A n \in NodeOffsets(fdt), c \in Strings :
        LET v == fdt_getprop(fdt, n, "compatible")
        IN  (\E i \in DOMAIN v : v[i] = Str(c))
                => fdt_node_check_compatible(fdt, n, c) = 0
=============================================================================
