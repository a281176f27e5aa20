-------------------------------- MODULE Fixup --------------------------------
(***************************************************************************)
(* The loader from the moment the SoC is known to the jump to the kernel:  *)
(* main() opens the built-in device tree in a buffer twice its size,       *)
(* src/fixup.c rewrites it from the ATAGs the boot loader passed and from  *)
(* the board's FEX script, and main() starts the kernel or gives up.       *)
(*                                                                         *)
(* One action is one ATAG, one half of the FEX fixup, one UART or one pin. *)
(* Addresses and sizes are numbers below U32; sums of them wrap.           *)
(***************************************************************************)
EXTENDS FdtTools, SequencesExt

CONSTANTS
    Inputs,     \* what the loader may be started with: records of
                \*   dtb    the built-in device tree
                \*   custom whether it is the user's own (make DTB=...),
                \*          in which case the FEX script is not looked at
                \*   tags   the ATAGs, without the final ATAG_NONE
                \*   script what the decompiler makes of the FEX file
    Compatible, \* the SoC's compatible string
    U32         \* one more than the largest unsigned int

ASSUME U32Assumption    == U32 \in Nat \ {0}
ASSUME InputsAssumption == \A i \in Inputs : i.custom \in BOOLEAN

SUNXI_MAX_UARTS  == 8
FDT_PINCTRL_PATH == <<"soc@01c00000", "pinctrl@01c20800">>

VARIABLES
    given,  \* what the loader was started with
    pc,     \* where it is
    fdt,    \* the device tree being fixed up
    tags,   \* the ATAGs still to be read
    uart,   \* the UART the loop of fdt_fixup_uarts is at
    gpios,  \* the pins the loop of fdt_add_pinctrl_group has still to place
    pctrl,  \* its pctrl_offset
    ngroup, \* its ngroup
    lost    \* history: a libfdt call failed and nobody looked at the result

vars == <<given, pc, fdt, tags, uart, gpios, pctrl, ngroup, lost>>

\* "undefined" is the state after a NULL pointer was read through: the loader
\* runs without an MMU, so that address 0 is memory, and anything may follow.
Stopped == {"booted", "returned", "undefined"}

serial(i) == "serial" \o ToString(i)
device(i) == "uart" \o ToString(i)

Init ==
    \E in \in Inputs :
        LET r == OpenInto(in.dtb, 2 * in.dtb.hdr.total, 0)
        IN  /\ given = in
            /\ pc = IF r.ret = 0 THEN "atags" ELSE "returned"
            /\ fdt = r.fdt
            /\ tags = in.tags
            /\ uart = 0 /\ gpios = <<>> /\ pctrl = 0 /\ ngroup = 0
            /\ lost = FALSE

\* The tree after a call, and whether a failure of it goes unnoticed.
Edit(r)   == fdt' = r.fdt /\ lost' = (lost \/ r.ret < 0)
Goto(l)   == pc' = l
NoLoop    == UNCHANGED <<uart, gpios, pctrl, ngroup>>

-----------------------------------------------------------------------------
\* Seeded fault: the new arguments go in front of the old ones.
joined_in_front(old, bootargs) ==
    IF old = <<>> THEN bootargs ELSE bootargs \o " " \o old[1].str

joined(old, bootargs) ==
    IF old = <<>> THEN bootargs ELSE old[1].str \o " " \o bootargs

fdt_fixup_append_bootargs(f, bootargs) ==
    LET set(r, old) == fdt_setprop(r.fdt, r.ret, "bootargs",
                                   <<Str(joined(old, bootargs))>>)
        append(r) == IF r.ret < 0 THEN r
                     ELSE set(r, fdt_getprop(r.fdt, r.ret, "bootargs"))
        chosen(found) == IF found >= 0 THEN Err(f, found)
                         ELSE fdt_add_subnode(f, 0, "chosen")
    IN  append(chosen(fdt_path_offset(f, <<"chosen">>)))

\* fdt_fixup_from_atags, one ATAG at a time.
Atag(kind) ==
    /\ pc = "atags"
    /\ tags # <<>> /\ Head(tags).kind = kind
    /\ tags' = Tail(tags)
    /\ NoLoop
    /\ UNCHANGED <<given, pc>>

AtagCmdline ==
    /\ Atag("cmdline")
    /\ \E r \in {fdt_fixup_append_bootargs(fdt, Head(tags).cmdline)} : Edit(r)

AtagMem ==
    /\ Atag("mem")
    /\ IF Head(tags).size = 0 THEN UNCHANGED <<fdt, lost>>
       ELSE \E r \in {fdt_setprop(fdt, fdt_path_offset(fdt, <<"memory">>), "reg",
                          <<Cell(Head(tags).start), Cell(Head(tags).size)>>)} :
                Edit(r)

\* Both properties are set even when the first one fails.
AtagInitrd2 ==
    /\ Atag("initrd2")
    /\ \E chosen \in {fdt_path_offset(fdt, <<"chosen">>)} :
       \E r1 \in {fdt_setprop(fdt, chosen, "linux,initrd-start",
                             <<Cell(Head(tags).start)>>)} :
       \E r2 \in {fdt_setprop(r1.fdt, chosen, "linux,initrd-end",
                      <<Cell((Head(tags).start + Head(tags).size) % U32)>>)} :
           fdt' = r2.fdt /\ lost' = (lost \/ r1.ret < 0 \/ r2.ret < 0)

AtagOther == Atag("other") /\ UNCHANGED <<fdt, lost>>

\* The end of the ATAGs; then the FEX script is decompiled, unless the device
\* tree is the user's own.  The decompiler may give up.
AtagsDone ==
    /\ pc = "atags" /\ tags = <<>>
    /\ IF given.custom THEN Goto("booted") ELSE Goto("fex") \/ Goto("returned")
    /\ NoLoop
    /\ UNCHANGED <<given, fdt, tags, lost>>

-----------------------------------------------------------------------------
\* What a lookup in the script finds is a field of given.script; a section or
\* entry that is not there is a field that is not there.
Has(r, field) == field \in DOMAIN r

fdt_fixup_machine ==
    /\ pc = "fex"
    /\ \E c \in {fdt_setprop(fdt, 0, "compatible", <<Str(Compatible)>>)} :
       CASE c.ret < 0 -> Goto("returned") /\ fdt' = c.fdt
         [] c.ret >= 0 /\ ~Has(given.script, "machine") ->
                Goto("undefined") /\ fdt' = c.fdt
         [] OTHER ->
                \E m \in {fdt_setprop(c.fdt, 0, "model",
                                      <<Str(given.script.machine)>>)} :
                    /\ Goto(IF m.ret < 0 THEN "returned" ELSE "console")
                    /\ fdt' = m.fdt
    /\ NoLoop
    /\ UNCHANGED <<given, tags, lost>>

\* The head of fdt_fixup_uarts.
Console ==
    /\ pc = "console"
    /\ IF ~Has(given.script, "debug_port")
       THEN Goto("undefined") /\ UNCHANGED <<fdt, lost>>
       ELSE /\ Goto("uarts")
            /\ \E r \in {fdt_fixup_append_bootargs(fdt, "console=ttyS"
                             \o ToString(given.script.debug_port) \o ",115200")} :
                   Edit(r)
    /\ NoLoop
    /\ UNCHANGED <<given, tags>>

Section == given.script.uart[uart]

\* Seeded fault: the loop counter wraps where the loop should end.
NextUart_wraps == /\ Goto("uarts")
                  /\ uart' = (uart + 1) % SUNXI_MAX_UARTS
                  /\ UNCHANGED <<gpios, pctrl, ngroup>>

NextUart == /\ Goto("uarts")
            /\ uart' = uart + 1
            /\ UNCHANGED <<gpios, pctrl, ngroup>>
Leave(l) == Goto(l) /\ NoLoop

AtUart == pc = "uarts" /\ uart < SUNXI_MAX_UARTS /\ UNCHANGED <<given, tags>>

\* A section or a "uart_used" that is not there is read through a NULL pointer.
HasUart(i) == i \in DOMAIN given.script.uart
                /\ Has(given.script.uart[i], "uart_used")

UartMissing ==
    /\ AtUart
    /\ ~HasUart(uart)
    /\ NextUart \/ Leave("undefined")
    /\ UNCHANGED <<fdt, lost>>

UartUnused ==
    /\ AtUart
    /\ HasUart(uart)
    /\ Section.uart_used # 1
    /\ NextUart
    /\ UNCHANGED <<fdt, lost>>

\* Seeded fault: the pin controller is looked up once, before any fixup.
pinctrl_offset_early(f) ==
    fdt_path_offset(OpenInto(given.dtb, 2 * given.dtb.hdr.total, 0).fdt,
                    FDT_PINCTRL_PATH)

pinctrl_offset(f) == fdt_path_offset(f, FDT_PINCTRL_PATH)

\* Seeded fault: the sign of libfdt's errors is mistaken.
enable_failed_positive(ret) == ret > 0

enable_failed(ret) == ret # 0

\* An entry that is not there is read through a NULL pointer.
PinsUnreadable == \/ ~Has(Section, "uart_type")
                  \/ /\ Section.uart_type \in {2, 4, 8}
                     /\ Section.uart_type > Len(Section.pins)

\* The pins in the order of the gpios array: tx, rx, rts, cts, ring, dcd, dsr,
\* dtr.  A UART with any other number of pins than 2, 4 or 8 keeps its "okay"
\* and gets no pins; one whose pin controller is not there likewise.
UartUsed ==
    /\ AtUart
    /\ HasUart(uart)
    /\ Section.uart_used = 1
    /\ \E r \in {fdt_setprop(fdt, fdt_alias_offset(fdt, serial(uart)), "status",
                            <<Str("okay")>>)} :
       /\ fdt' = r.fdt
       /\ CASE enable_failed(r.ret) -> Leave("returned") /\ UNCHANGED lost
            [] ~enable_failed(r.ret) /\ PinsUnreadable ->
                   Leave("undefined") /\ UNCHANGED lost
            [] ~enable_failed(r.ret) /\ ~PinsUnreadable
                 /\ Section.uart_type \notin {2, 4, 8} -> NextUart /\ UNCHANGED lost
            [] OTHER ->
                   \E p \in {pinctrl_offset(r.fdt)} :
                   IF p < 0 THEN NextUart /\ lost' = TRUE
                   ELSE /\ Goto("pins")
                        /\ gpios' = [k \in 1 .. Section.uart_type |->
                                         gpio_of_entry(Section.pins[k])]
                        /\ pctrl' = p
                        /\ ngroup' = 0
                        /\ UNCHANGED <<uart, lost>>

\* One turn of the loop of fdt_add_pinctrl_group; its errors are dropped.
Pin ==
    /\ pc = "pins"
    /\ \E r \in {fdt_add_pinctrl_pin(fdt, pctrl, serial(uart), Head(gpios),
                                     ngroup, device(uart))} :
           LET last == r.ret < 0 \/ Tail(gpios) = <<>>
           IN  /\ fdt' = r.fdt
               /\ lost' = (lost \/ r.lost)
               /\ ngroup' = r.ngroup
               /\ gpios' = IF last THEN <<>> ELSE Tail(gpios)
               /\ uart' = IF last THEN uart + 1 ELSE uart
               /\ Goto(IF last THEN "uarts" ELSE "pins")
    /\ UNCHANGED <<given, tags, pctrl>>

UartsDone ==
    /\ pc = "uarts" /\ uart = SUNXI_MAX_UARTS
    /\ Leave("booted")
    /\ UNCHANGED <<given, fdt, tags, lost>>

Halted == pc \in Stopped /\ UNCHANGED vars

Next ==
    \/ AtagCmdline \/ AtagMem \/ AtagInitrd2 \/ AtagOther \/ AtagsDone
    \/ fdt_fixup_machine \/ Console
    \/ UartMissing \/ UartUnused \/ UartUsed \/ Pin \/ UartsDone
    \/ Halted

\* There is one thread and nothing it waits for: it runs until it stops.  This
\* is WF_vars(Next) with ENABLED <<Next>>_vars written out: there is a step that
\* changes something unless the loader has stopped.
Fairness == []<>(pc \in Stopped) \/ []<><<TRUE>>_vars

Spec == Init /\ [][Next]_vars /\ Fairness

-----------------------------------------------------------------------------
Uarts     == 0 .. SUNXI_MAX_UARTS - 1
Used(i)   == HasUart(i) /\ given.script.uart[i].uart_used = 1
Wired(i)  == /\ Used(i) /\ Has(given.script.uart[i], "uart_type")
             /\ given.script.uart[i].uart_type \in {2, 4, 8}
             /\ given.script.uart[i].uart_type <= Len(given.script.uart[i].pins)
Wanted(i) == {gpio_of_entry(given.script.uart[i].pins[k]) :
                 k \in 1 .. given.script.uart[i].uart_type}

NodeAt(i) == fdt_alias_offset(fdt, serial(i))

\* The groups made for a UART, by their names.
Groups(i) ==
    LET made == device(i) \o "_pins_babelfish"
    IN  {n \in NodeOffsets(fdt) : /\ Len(At(fdt, n).name) >= Len(made)
                                  /\ SubSeq(At(fdt, n).name, 1, Len(made)) = made}

Places == {"atags", "fex", "console", "uarts", "pins"} \cup Stopped

\* The loops stay in their bounds, and while pins are being placed there is a
\* next one.
TypeOK ==
    /\ pc \in Places
    /\ uart \in 0 .. SUNXI_MAX_UARTS
    /\ ngroup \in 0 .. 8
    /\ pc = "pins" <=> gpios # <<>>
    /\ fdt.hdr \in Header /\ LaidOut(fdt.hdr, fdt.nrsv)
    /\ lost \in BOOLEAN

\* The pin controller's offset that fdt_add_pinctrl_group looks up before its
\* loop is still right in every turn of it, although each turn may change the
\* pin controller and the UART's node.  This holds because the controller lies
\* in front of the UARTs in every tree of dtsi/.
PctrlOffsetFresh ==
    pc = "pins" => /\ pctrl \in NodeOffsets(fdt)
                   /\ pctrl = fdt_path_offset(fdt, FDT_PINCTRL_PATH)

\* No two nodes have the same phandle, also when the buffer runs full halfway:
\* fdt_alloc_phandle ("must be unique", fdt_tools.c).
PhandlesUnique ==
    LET referable == {n \in NodeOffsets(fdt) : fdt_get_phandle(fdt, n) # 0}
    IN  Cardinality({fdt_get_phandle(fdt, n) : n \in referable})
            = Cardinality(referable)

\* Every pin state of a UART that was set up refers to a group made for that
\* UART, and no pin state is a reference to nothing: when fdt_create_phandle
\* fails for want of room and answers 0, there is no room for the reference.
ReferencesResolve ==
    \A i \in Uarts : Wired(i) =>
        LET node    == NodeAt(i)
            to_ours == {<<Cell(fdt_get_phandle(fdt, g))>> : g \in Groups(i)}
                           \ {<<Cell(0)>>}
        IN  node >= 0 => \A k \in 0 .. 7 :
                fdt_getprop(fdt, node, PinctrlProp(k)) \in to_ours \cup {<<>>}

\* When the kernel is started, every UART the script uses is enabled: whatever
\* goes wrong in the loop, a failure to write "status" stops the boot.
UsedUartsEnabled ==
    pc = "booted" /\ ~given.custom =>
        \A i \in Uarts : Used(i) =>
            fdt_getprop(fdt, NodeAt(i), "status") = <<Str("okay")>>

\* Each pin of a UART is in exactly one group of it, with its drive and pull;
\* no group has other pins, and there are as many state names and references
\* as groups.
PinsGrouped ==
    pc = "booted" /\ ~given.custom /\ ~lost =>
        \A i \in Uarts : Wired(i) =>
            LET pins(n) == fdt_getprop(fdt, n, "allwinner,pins")
                has(n, g) == \E k \in DOMAIN pins(n) : pins(n)[k] = Str(PinName(g))
                conf(n, g) ==
                    /\ fdt_getprop(fdt, n, "allwinner,drive") = <<Cell(drive_of(g))>>
                    /\ fdt_getprop(fdt, n, "allwinner,pull") = <<Cell(pull_of(g))>>
                refs == {k \in 0 .. 8 :
                            fdt_getprop(fdt, NodeAt(i), PinctrlProp(k)) # <<>>}
            IN  /\ \A g \in Wanted(i) : \E n \in Groups(i) :
                       {m \in Groups(i) : has(m, g)} = {n} /\ conf(n, g)
                /\ \A n \in Groups(i) : \A k \in DOMAIN pins(n) :
                       \E g \in Wanted(i) : pins(n)[k] = Str(PinName(g))
                /\ refs = 0 .. Cardinality(Groups(i)) - 1
                /\ Len(fdt_getprop(fdt, NodeAt(i), "pinctrl-names"))
                       = Cardinality(Groups(i))

\* The kernel's command line is what the tree had, then the command lines of
\* the ATAGs in their order, then the console.
RECURSIVE join_all(_, _)
join_all(old, args) ==
    IF args = <<>> THEN old
    ELSE join_all(<<Str(IF old = <<>> THEN Head(args)
                        ELSE old[1].str \o " " \o Head(args))>>, Tail(args))

BootargsInOrder ==
    LET cmdlines == SelectSeq(given.tags, LAMBDA t : t.kind = "cmdline")
        args     == [k \in DOMAIN cmdlines |-> cmdlines[k].cmdline]
        console  == "console=ttyS" \o ToString(given.script.debug_port)
                        \o ",115200"
        chosen(f) == fdt_getprop(f, fdt_path_offset(f, <<"chosen">>), "bootargs")
    IN  pc = "booted" /\ ~given.custom /\ ~lost =>
            chosen(fdt) = join_all(chosen(given.dtb), Append(args, console))

\* The results that are dropped (fixup.c:86 and :158, and all of those of
\* fdt_fixup_from_atags) hide no mistake of the loader's own: in a tree that has
\* the nodes the fixups go to, the first call that fails unnoticed has found
\* less room than the largest of them asks for.
Equipped == /\ fdt_path_offset(fdt, <<"chosen">>) >= 0
            /\ fdt_path_offset(fdt, <<"memory">>) >= 0
            /\ pinctrl_offset(fdt) >= 0

Room(f) == f.hdr.total - fdt_data_size(f.hdr)

\* A new node or property with its name, or the command lines in one.
LargestCall ==
    LET cmdlines == SelectSeq(given.tags, LAMBDA t : t.kind = "cmdline")
    IN  FoldLeft(LAMBDA n, t : n + Len(t.cmdline), 64, cmdlines)

LostForWantOfRoom ==
    [][ Equipped /\ ~lost /\ lost' => Room(fdt') < LargestCall ]_vars

\* The fixups add to the tree and never take away, however they end: every node
\* of the built-in tree is still there with its properties, and the properties
\* that differ are those the ATAGs and the FEX script decide.
Fixable(path) ==
    CASE path = <<"">>            -> {"compatible", "model"}
      [] path = <<"", "chosen">>  -> {"bootargs", "linux,initrd-start",
                                      "linux,initrd-end"}
      [] path = <<"", "memory">>  -> {"reg"}
      [] OTHER -> IF \E i \in Uarts : /\ Used(i) /\ NodeAt(i) >= 0
                                      /\ fdt_path_offset(fdt, Tail(path)) = NodeAt(i)
                  THEN {"status", "pinctrl-names"} \cup {PinctrlProp(k) : k \in 0 .. 7}
                  ELSE {}

PropsOf(f, n) ==
    LET first == fdt_next_tag(f, n).next
        last  == after_props(f, first)
    IN  {At(f, k).name : k \in {j \in first .. last - 1 : At(f, j).tag = "PROP"}}

RestUntouched ==
    \A n \in NodeOffsets(given.dtb) :
        LET path == PathAt(given.dtb, n)
            now  == fdt_path_offset(fdt, Tail(path))
        IN  /\ now >= 0
            /\ \A p \in PropsOf(given.dtb, n) \cup PropsOf(fdt, now) :
                   fdt_getprop(fdt, now, p) # fdt_getprop(given.dtb, n, p)
                       => p \in Fixable(path)

\* The loader boots or gives up: no loop of it goes round for ever.
Termination == <>(pc \in Stopped)

\* fdt_tools.h and script_bin.c disagree about which of data[1] and data[2] is
\* the pull and which the drive level: the pull of a pin in the FEX script is
\* the pull of its group.
PullKept ==
    pc = "booted" /\ ~given.custom /\ ~lost =>
        \A i \in Uarts : Wired(i) =>
            \A k \in 1 .. given.script.uart[i].uart_type :
                LET e == given.script.uart[i].pins[k]
                IN  \E n \in Groups(i) :
                        /\ fdt_getprop(fdt, n, "allwinner,pull")
                               = <<Cell(IF e.data[2] \in 1 .. 2 THEN e.data[2]
                                        ELSE 0)>>
                        /\ \E j \in DOMAIN fdt_getprop(fdt, n, "allwinner,pins") :
                               fdt_getprop(fdt, n, "allwinner,pins")[j]
                                   = Str(PinName(gpio_of_entry(e)))

\* setup.h: "it is allowed to have multiple ATAG_MEM nodes".  Every bank of
\* memory the boot loader reports is in the tree.
AllBanksKept ==
    pc = "booted" /\ ~lost =>
        \A k \in DOMAIN given.tags :
            LET t   == given.tags[k]
                reg == fdt_getprop(fdt, fdt_path_offset(fdt, <<"memory">>), "reg")
            IN  t.kind = "mem" /\ t.size # 0 =>
                    \E j \in 1 .. Len(reg) - 1 :
                        reg[j] = Cell(t.start) /\ reg[j + 1] = Cell(t.size)

\* main.c: "Couldn't fixup the device tree with ATAGS".  The kernel is not
\* started with an ATAG that could not be applied.
AtagsApplied ==
    pc = "fex" \/ (pc = "booted" /\ given.custom) => ~lost
=============================================================================
