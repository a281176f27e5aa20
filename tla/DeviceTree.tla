------------------------------ MODULE DeviceTree ------------------------------
(***************************************************************************)
(* What libfdt promises about the tree, with the flattening left out: a    *)
(* device tree maps the path of every node to the node's properties.  A    *)
(* path is the sequence of the names from the root down, starting with the *)
(* root's own name.  Every call either has its whole effect or, when it    *)
(* fails, none.                                                            *)
(***************************************************************************)
EXTENDS Naturals, Sequences

CONSTANTS
    RootName,   \* the name of the root, "" in a device tree
    Names,      \* node names
    Props,      \* property names
    Vals,       \* property values, sequences
    Initial     \* the trees to start from

VARIABLE tree   \* path -> property -> value

Paths == DOMAIN tree
Root  == <<RootName>>

NoProps == [p \in {} |-> <<>>]

\* Path d is path p or lies below it.
Below(d, p) == Len(p) <= Len(d) /\ SubSeq(d, 1, Len(p)) = p

Init == tree \in Initial

\* fdt_setprop, fdt_setprop_inplace
SetProp(p, name, val) ==
    tree' = [tree EXCEPT ![p] = [m \in DOMAIN @ \cup {name} |->
                                    IF m = name THEN val ELSE @[m]]]

\* fdt_appendprop
AppendProp(p, name, val) ==
    tree' = [tree EXCEPT ![p] = [m \in DOMAIN @ \cup {name} |->
        CASE m = name /\ name \in DOMAIN @ -> @[name] \o val
          [] m = name /\ name \notin DOMAIN @ -> val
          [] OTHER -> @[m]]]

\* fdt_delprop, fdt_nop_property
DelProp(p, name) ==
    /\ name \in DOMAIN tree[p]
    /\ tree' = [tree EXCEPT ![p] = [m \in DOMAIN @ \ {name} |-> @[m]]]

\* fdt_add_subnode
AddSubnode(p, name) ==
    /\ Append(p, name) \notin Paths
    /\ tree' = [q \in Paths \cup {Append(p, name)} |->
                   IF q = Append(p, name) THEN NoProps ELSE tree[q]]

\* fdt_del_node, fdt_nop_node: the node goes with everything below it.
DelNode(p) == tree' = [q \in {d \in Paths : ~Below(d, p)} |-> tree[q]]

\* fdt_set_name, for a name no sibling has: everything below moves along.
Renamed(d, p, name) == [d EXCEPT ![Len(p)] = name]

SetName(p, name) ==
    LET moved == {Renamed(d, p, name) : d \in {e \in Paths : Below(e, p)}}
        kept  == {d \in Paths : ~Below(d, p)}
    IN  /\ Renamed(p, p, name) \notin Paths
        /\ Len(p) > 1
        /\ tree' = [q \in kept \cup moved |->
                       IF q \in kept THEN tree[q]
                       ELSE tree[Renamed(q, p, p[Len(p)])]]

Next ==
    \E p \in Paths :
        \/ \E m \in Props, v \in Vals : SetProp(p, m, v) \/ AppendProp(p, m, v)
        \/ \E m \in Props : DelProp(p, m)
        \/ \E n \in Names : AddSubnode(p, n) \/ SetName(p, n)
        \/ DelNode(p)

Spec == Init /\ [][Next]_tree

-----------------------------------------------------------------------------
\* No node without its parent: the paths are closed under going up to the
\* root, so that a node reported by fdt_path_offset can be reached by walking.
PrefixClosed ==
    \A d \in Paths : /\ Len(d) >= 1 /\ d[1] = RootName
                     /\ \A k \in 1 .. Len(d) : SubSeq(d, 1, k) \in Paths
=============================================================================
