------------------------------- MODULE MCBoot --------------------------------
(***************************************************************************)
(* Boot on each kind of machine and with small FEX images: up to two       *)
(* sections, one of up to two entries of every type, among them strings    *)
(* that fill their words to the last byte, strings of no words at all, and *)
(* multi-word values.                                                      *)
(***************************************************************************)
EXTENDS Boot

\* An image laid out as the FEX compiler does: head, sections, entries, data.
\* A section is [name, entries], an entry [name, type, data].
Image(ss) ==
    LET all     == FlattenSeq([i \in DOMAIN ss |-> ss[i].entries])
        before(i) == Len(FlattenSeq([k \in 1 .. i - 1 |-> ss[k].entries]))
        entries == HEAD_WORDS + SECTION_WORDS * Len(ss)
        data    == entries + ENTRY_WORDS * Len(all)
        at(j)   == data + Len(FlattenSeq([k \in 1 .. j - 1 |-> all[k].data]))
        name    == [k \in 1 .. NAME_WORDS |-> 0]
        section(i) == name \o
                         <<Len(ss[i].entries), entries + ENTRY_WORDS * before(i)>>
        item(j)    == name \o <<at(j), all[j].type * 2^16 + Len(all[j].data)>>
        sectionAt  == {HEAD_WORDS + SECTION_WORDS * (i - 1) : i \in DOMAIN ss}
        itemAt     == {entries + ENTRY_WORDS * (j - 1) : j \in DOMAIN all}
    IN  [words |-> <<Len(ss), 1, 2, 0>>
                     \o FlattenSeq([i \in DOMAIN ss |-> section(i)])
                     \o FlattenSeq([j \in DOMAIN all |-> item(j)])
                     \o FlattenSeq([j \in DOMAIN all |-> all[j].data]),
         names |-> [o \in sectionAt \cup itemAt |->
                      IF o \in sectionAt
                      THEN ss[(o - HEAD_WORDS) \div SECTION_WORDS + 1].name
                      ELSE all[(o - entries) \div ENTRY_WORDS + 1].name]]

\* Four bytes of a string.
Chars(a, b, c, d) == a + 256 * b + 256^2 * c + 256^3 * d

Item(name, type, data) == [name |-> name, type |-> type, data |-> data]

Long == "abcdefghijklmnopqrstuvwxyz0123456789"

MCItems == {Item("used", SINGLE_WORD, <<1>>),
            Item("name", STRING_TYPE, <<Chars(1, 2, 3, 4)>>),
            Item(Long, STRING_TYPE, <<Chars(1, 2, 3, 4), Chars(5, 0, 7, 0)>>),
            Item("tx", GPIO, <<8, 22, 2, 1, -1, -1>>),
            Item("none", NULL_TYPE, <<0>>),
            Item("multi", MULTI_WORD, <<1, 2>>)}

Section(name, entries) == [name |-> name, entries |-> entries]

MCImages ==
    {Image(<<>>)}
    \cup {Image(<<Section("uart", <<a, b>>)>>) : a, b \in MCItems}
    \cup {Image(<<Section(Long, <<>>), Section("uart", <<a>>)>>) : a \in MCItems}
    \cup {Image(<<Section("uart", <<Item("s", STRING_TYPE, <<>>)>>),
                  Section("uart", <<a>>)>>) : a \in MCItems}

MCMachines ==
    [custom : {FALSE}, sram : {SRAM_ID_SUN4I}, sid : {0}, midr : {1091551349}]
    \cup [custom : {FALSE}, sram : {SRAM_ID_SUN5I}, sid : {0, 3, 7},
          midr : {1091551349}]
    \cup [custom : BOOLEAN, sram : {SRAM_ID_SUN6I, SRAM_ID_SUN7I, 1}, sid : {0},
          midr : {1091551349, 1091547272}]

MCNone      == {}
=============================================================================
