----------------------------- MODULE MCFdtSearch ------------------------------
(***************************************************************************)
(* FdtSearch on three small trees: one with a node and one property more   *)
(* than the others at each level, one deep, and one that starts with NOPs  *)
(* where nodes and properties have been.                                   *)
(***************************************************************************)
EXTENDS FdtSearch

Node(name, props, subnodes) ==
    Unit(Begin(name)) \o FlattenSeq([k \in DOMAIN props |-> Unit(props[k])])
        \o FlattenSeq(subnodes) \o <<EndNode>>

Of(words) ==
    [hdr |-> [version |-> 17, offRsv |-> 40, offStruct |-> 56,
              sizeStruct |-> 4 * (Len(words) + 1),
              offStrings |-> 56 + 4 * (Len(words) + 1), sizeStrings |-> 0,
              total |-> 56 + 4 * (Len(words) + 1)],
     nrsv |-> 0, strs |-> <<>>, words |-> Append(words, End)]

Compat(c) == Prop("compatible", c)

MCWide ==
    Of(Node("", <<Compat(<<Str("s"), Str("b")>>), Prop("x", <<>>)>>,
        <<Node("aliases", <<Prop("u", <<Str("/a")>>)>>, <<>>),
          Node("a", <<Prop("phandle", <<Cell(1)>>), Prop("x", <<Cell(7)>>)>>,
               <<Node("b", <<Compat(<<Str("b")>>)>>, <<>>)>>),
          Node("b", <<Prop("x", <<Cell(7)>>), Prop("linux,phandle", <<Cell(2)>>)>>,
               <<>>)>>))

MCDeep ==
    Of(Node("", <<>>,
        <<Node("a", <<Prop("x", <<>>)>>,
               <<Node("a", <<Compat(<<Str("b")>>)>>,
                      <<Node("b", <<Compat(<<Str("s")>>)>>, <<>>)>>),
                 Node("c", <<>>, <<>>)>>),
          Node("d", <<>>, <<>>)>>))

MCNops ==
    Of(Node("", <<Nop, Prop("x", <<Cell(7)>>)>>,
        <<<<Nop, Nop>>, Node("a", <<Nop>>, <<>>), <<Nop>>,
          Node("b", <<Prop("x", <<Cell(7)>>)>>, <<Node("c", <<>>, <<>>)>>)>>))

MCBlobs   == {MCWide, MCDeep, MCNops}
MCStrings == {"s", "b", "x"}
=============================================================================
