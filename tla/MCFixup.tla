------------------------------- MODULE MCFixup -------------------------------
(***************************************************************************)
(* Fixup on small trees shaped like those of dtsi/: the skeleton with its  *)
(* empty chosen, its aliases and its memory node, and a soc node with a    *)
(* pin controller (which has a group and a phandle already) in front of    *)
(* two serial nodes.                                                       *)
(***************************************************************************)
EXTENDS Fixup

Node(name, body) == Unit(Begin(name)) \o body \o <<EndNode>>
P(name, val)     == Unit(Prop(name, val))
Disabled         == P("status", <<Str("disabled")>>)
SerialPath(unit) == PathStr(<<"soc@01c00000", "serial@" \o unit>>)

Pio == Node("pinctrl@01c20800",
            P("phandle", <<Cell(1)>>)
              \o Node("uart0@0", P("allwinner,pins", <<Str("PB22")>>)
                                   \o P("phandle", <<Cell(3)>>)))

Memory == Node("memory", P("reg", <<Cell(0), Cell(0)>>))

Tree(chosen, memory, pio) ==
    Node("", P("model", <<Str("sun")>>) \o chosen
        \o Node("aliases", P("serial0", <<SerialPath("01c28000")>>)
                             \o P("serial1", <<SerialPath("01c28400")>>))
        \o memory
        \o Node("soc@01c00000",
             pio \o Node("serial@01c28000", Disabled)
               \o Node("serial@01c28400", Disabled)))
      \o <<End>>

StringsOf(words) == {words[k].name : k \in {j \in DOMAIN words : words[j].tag = "PROP"}}

RECURSIVE listed(_)
listed(S) == IF S = {} THEN <<>>
             ELSE LET s == CHOOSE x \in S : TRUE IN <<s>> \o listed(S \ {s})

\* pad: the padding dtc -p leaves at the end, which main() doubles too.
Dtb(words, pad) ==
    LET strs   == listed(StringsOf(words))
        struct == RSV_START + RSV_ENTRY
        str    == struct + Len(words) * FDT_TAGSIZE
    IN  [hdr |-> [version |-> 17, offRsv |-> RSV_START, offStruct |-> struct,
                  sizeStruct |-> Len(words) * FDT_TAGSIZE, offStrings |-> str,
                  sizeStrings |-> strs_len(strs),
                  total |-> str + strs_len(strs) + pad],
         nrsv |-> 0, words |-> words, strs |-> strs]

\* The skeleton; trees of the user's own, which may have neither of the nodes
\* the ATAGs go to, or a command line of their own; one without a controller.
Skeleton == Tree(Node("chosen", <<>>), Memory, Pio)
Bare     == Tree(<<>>, <<>>, Pio)
Quiet    == Tree(Node("chosen", P("bootargs", <<Str("quiet")>>)), Memory, Pio)
NoPio    == Tree(Node("chosen", <<>>), Memory, <<>>)

Cmdline(s)       == [kind |-> "cmdline", cmdline |-> s]
Mem(start, size) == [kind |-> "mem", start |-> start, size |-> size]
Initrd(start, size) == [kind |-> "initrd2", start |-> start, size |-> size]
Other            == [kind |-> "other"]

AllTags  == <<Other, Cmdline("ro"), Mem(4, 2), Initrd(5, 1)>>
TwoLines == <<Mem(4, 2), Mem(8, 0), Cmdline("ro"), Cmdline("rw")>>
TwoBanks == <<Mem(4, 2), Mem(8, 3), Initrd(9, 9)>>

Gpio(num, pull, drv) == [port |-> 2, port_num |-> num, data |-> <<2, pull, drv, -1>>]

Unused    == [uart_used |-> 0]
Uart(pins) == [uart_used |-> 1, uart_type |-> Len(pins), pins |-> pins]

Pulls  == {-1, 1, 2}

Two   == {<<Gpio(22, p, -1), Gpio(23, q, d)>> :
            p, q \in Pulls, d \in {-1, 2}}
Four  == <<Gpio(10, 1, -1), Gpio(11, -1, -1), Gpio(12, 1, -1), Gpio(13, 2, 3)>>
Eight == Four \o <<Gpio(14, 2, 3), Gpio(15, 3, 1), Gpio(16, 0, 2), Gpio(9, 1, -1)>>

AllUnused     == [i \in 0 .. 7 |-> Unused]
Script(uarts) == [machine |-> "cb", debug_port |-> 0, uart |-> uarts]
Only(i, u)    == Script([AllUnused EXCEPT ![i] = u])
Both(u, v)    == Script([AllUnused EXCEPT ![0] = u, ![1] = v])

Roomy == 1200

Input(words, pad, tl, script) ==
    [dtb |-> Dtb(words, pad), custom |-> FALSE, tags |-> tl, script |-> script]

\* All the ways two pins can be grouped, and more pins than that.
Grouping ==
    {Input(Skeleton, Roomy, <<>>, Only(0, Uart(pins))) : pins \in Two}
    \cup {Input(Skeleton, Roomy, AllTags, Both(Uart(Four), Uart(pins))) :
             pins \in {Four, Eight}}

\* Buffers that run full at every place of the fixup, 8 bytes apart.
Tight ==
    {Input(Skeleton, pad, AllTags, Both(Uart(Four), Uart(Eight))) :
        pad \in {4 * k : k \in 0 .. 150}}

\* Trees and scripts in which something is missing, and UARTs without pins.
Unusual ==
    {Input(words, pad, tl, Only(1, Uart(Four))) :
        words \in {Bare, Quiet, NoPio}, pad \in {0, Roomy}, tl \in {AllTags, TwoLines}}
    \cup {Input(Skeleton, 0, TwoBanks, s) : s \in {
             Only(1, [uart_used |-> 1, uart_type |-> 3, pins |-> Four]),
             Only(1, [uart_used |-> 1, uart_type |-> 4, pins |-> <<Gpio(22, 1, 1)>>]),
             Only(1, [uart_used |-> 1, pins |-> Four]),
             Only(2, Uart(Four)),
             Script([i \in {0, 1, 3} |-> IF i = 1 THEN Uart(Four) ELSE Unused]),
             [debug_port |-> 0, uart |-> AllUnused],
             [machine |-> "cb", uart |-> AllUnused]}}

\* A device tree of the user's own.
Custom ==
    {[Input(words, 0, tl, Script(AllUnused)) EXCEPT !.custom = TRUE] :
        words \in {Skeleton, Bare, Quiet}, tl \in {AllTags, TwoBanks}}

MCInputs == Grouping \cup Tight \cup Unusual \cup Custom
=============================================================================
