------------------------------- MODULE FdtTools -------------------------------
(***************************************************************************)
(* src/fdt_tools.c: phandles, and the pin groups of a UART.                *)
(*                                                                         *)
(* A gpio is [port, port_num, drive, pull], what GPIO_ENTRY_TO_STRUCT      *)
(* makes of an entry of the FEX script.  Every operator returns the blob   *)
(* it leaves, the calls that failed on the way included: lost says that    *)
(* the return value of one of them was dropped.                            *)
(***************************************************************************)
EXTENDS FdtBlob

Result(ret, fdt, lost) == [ret |-> ret, fdt |-> fdt, lost |-> lost]

\* The values of an entry as the decompiler stores them: multiplexing
\* function, pull, drive level, output value, -1 where the script says default.
gpio_of_entry(e) == [port |-> e.port, port_num |-> e.port_num,
                     drive |-> e.data[2], pull |-> e.data[3]]

SetMax(S) == CHOOSE x \in S : \A y \in S : y <= x

\* The loop visits every node: fdt_next_node meets every BEGIN tag in turn.

\* Seeded fault: the highest phandle in use is handed out again.
fdt_alloc_phandle_max(fdt) ==
    SetMax({0} \cup {fdt_get_phandle(fdt, n) : n \in NodeOffsets(fdt)})

fdt_alloc_phandle(fdt) ==
    SetMax({0} \cup {fdt_get_phandle(fdt, n) : n \in NodeOffsets(fdt)}) + 1

\* Seeded fault: nothing is written.
fdt_set_phandle_unwritten(fdt, node, phandle) == Err(fdt, 0)

fdt_set_phandle(fdt, node, phandle) ==
    LET also(r) == IF r.ret < 0 THEN r
                   ELSE fdt_setprop(r.fdt, node, "linux,phandle", <<Cell(phandle)>>)
    IN  also(fdt_setprop(fdt, node, "phandle", <<Cell(phandle)>>))

\* ret is the phandle, 0 when it could not be set.
fdt_create_phandle(fdt, node) ==
    LET set(r, phandle) == [r EXCEPT !.ret = IF @ < 0 THEN 0 ELSE phandle]
        new(phandle) == set(fdt_set_phandle(fdt, node, phandle), phandle)
        create(phandle) == IF phandle # 0 THEN Err(fdt, phandle)
                           ELSE new(fdt_alloc_phandle(fdt))
    IN  create(fdt_get_phandle(fdt, node))

\* The drive and the pull that the switches of the group loop leave: anything
\* they do not know is the default, 0.
pull_of(g)  == IF g.pull \in 1 .. 2 THEN g.pull ELSE 0
drive_of(g) == IF g.drive \in 1 .. 3 THEN g.drive ELSE 0

\* Seeded fault: the drive strength is left out of the name.
GroupName_pull_only(device, g) ==
    device \o "_pins_babelfish"
        \o <<"", "_pullup", "_pulldown">>[pull_of(g) + 1]

GroupName(device, g) ==
    device \o "_pins_babelfish"
        \o <<"", "_pullup", "_pulldown">>[pull_of(g) + 1]
        \o <<"", "_20mA", "_30mA", "_40mA">>[drive_of(g) + 1]

Bank == <<"A", "B", "C", "D", "E", "F", "G", "H", "I", "J", "K", "L", "M">>

PinName(g) == "P" \o Bank[g.port] \o ToString(g.port_num \div 10)
                  \o ToString(g.port_num % 10)

PinctrlProp(k) == "pinctrl-" \o ToString(k)

\* What r leaves after one more call whose return value is dropped.
Dropped(r, call) == Result(r.ret, call.fdt, r.lost \/ call.ret < 0)

\* What the nodes of a group and of its device get, whatever fails meanwhile:
\* the settings, the name of a state, and a reference to the group.
described(r, g, device) ==
    LET put(q, name, val) == Dropped(q, fdt_setprop(q.fdt, q.ret, name, val))
    IN  put(put(put(r, "allwinner,drive", <<Cell(drive_of(g))>>),
                "allwinner,pull", <<Cell(pull_of(g))>>),
            "allwinner,function", <<Str(device)>>)

named(r, alias) ==
    Dropped(r, fdt_appendprop(r.fdt, fdt_alias_offset(r.fdt, alias),
                              "pinctrl-names", <<Str("default")>>))

refer(r, alias, ngroup, phandle) ==
    Dropped(r, fdt_setprop(r.fdt, fdt_alias_offset(r.fdt, alias),
                           PinctrlProp(ngroup), <<Cell(phandle)>>))

created(r, alias, ngroup, c) ==
    refer(Result(r.ret, c.fdt, r.lost \/ c.ret = 0), alias, ngroup, c.ret)

referred(r, alias, ngroup) ==
    created(r, alias, ngroup, fdt_create_phandle(r.fdt, r.ret))

\* One more group: a node below the pin controller, and in the device's node
\* one more state name and one more reference.  ret is the node's offset.
AddGroup(fdt, pctrl, alias, g, ngroup, device) ==
    LET a == fdt_add_subnode(fdt, pctrl, GroupName(device, g))
    IN  IF a.ret < 0 THEN Result(a.ret, a.fdt, TRUE)
        ELSE referred(named(described(Result(a.ret, a.fdt, FALSE), g, device),
                            alias),
                      alias, ngroup)

\* The pin goes into its group; without one (ret < 0) the loop is left.
\* ngroup counts the groups made before, n with this one.
AddPin(group, g, ngroup, n) ==
    IF group.ret < 0 THEN group @@ [ngroup |-> ngroup]
    ELSE Dropped(group, fdt_appendprop(group.fdt, group.ret, "allwinner,pins",
                                       <<Str(PinName(g))>>))
         @@ [ngroup |-> n]

\* One turn of the loop of fdt_add_pinctrl_group.
fdt_add_pinctrl_pin(fdt, pctrl, alias, g, ngroup, device) ==
    LET found == fdt_subnode_offset(fdt, pctrl, GroupName(device, g))
    IN  IF found >= 0 THEN AddPin(Result(found, fdt, FALSE), g, ngroup, ngroup)
        ELSE AddPin(AddGroup(fdt, pctrl, alias, g, ngroup, device), g,
                    ngroup, ngroup + 1)
=============================================================================
