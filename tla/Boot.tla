-------------------------------- MODULE Boot ---------------------------------
(***************************************************************************)
(* The loader from _start to the kernel (head.S, main.c, soc.c, memory.c): *)
(* it detects the SoC, opens the matching built-in device tree, applies    *)
(* the ATAGs, decompiles the FEX image step by step (FexBin), applies it,  *)
(* and enters the kernel.  What the fixups do to the device tree is the    *)
(* subject of Fixup; here they allocate memory, and main() goes on or not. *)
(*                                                                         *)
(*   stage     how far main() is; "returned" and "kernel" are the ends     *)
(*   hw        what the build and the machine are: [custom, sram, sid,     *)
(*             midr], never changed                                        *)
(*   idOpen    bit 15 of the SRAM register, which makes the ID readable    *)
(*   soc       what match_soc() found: [fdt, compatible]                   *)
(*   fdt       the tree opened at FDT_BASE_ADDRESS                         *)
(*   uarts     UARTs the FEX fixup has gone through                        *)
(*   smp       whether the Cortex-A7 quirks were applied                   *)
(*                                                                         *)
(* One CPU runs this with interrupts off, and nothing it calls waits, so   *)
(* the only fairness is that it goes on: WF(Next).                         *)
(***************************************************************************)
EXTENDS FexBin

CONSTANTS Images,       \* the FEX images that may be in memory
          Machines,     \* the builds and machines: values of hw
          ArgSizes,     \* sizes append_bootargs may ask for
          UartTypes,    \* values of uart_type
          HeapSize,     \* 4096 in head.S
          MaxArgs,      \* bound: command line tags
          MaxUarts      \* SUNXI_MAX_UARTS, 8

ASSUME BootAssumption ==
    /\ ArgSizes \subseteq Nat
    /\ UartTypes \subseteq Nat
    /\ MaxArgs \in Nat /\ MaxUarts \in Nat
    /\ \A m \in Machines : m.midr \in Nat

ASSUME ImagesAssumption == \A b \in Images : ValidImage(b)
ASSUME FormatAssumption == \A b \in Images : InFormat(b)

VARIABLES stage, hw, idOpen, soc, fdt, args, uarts, smp

bootVars == <<stage, hw, idOpen, soc, fdt, args, uarts, smp>>
vars     == <<treeVars, fexVars, bootVars>>

None    == "none"
Garbage == "garbage"        \* what an uninitialised variable may hold

SRAM_ID_SUN4I == 5667       \* 0x1623
SRAM_ID_SUN5I == 5669       \* 0x1625
SRAM_ID_SUN6I == 5683       \* 0x1633
SRAM_ID_SUN7I == 5713       \* 0x1651

\* Built with a custom tree, every dtb_* name means that one.
dtb(name) == IF hw.custom THEN "custom" ELSE name

Soc(name) == [fdt |-> dtb(name), compatible |-> name]

\* The register reads as 0 above bit 15 until that bit has been written.
SramId(open) == IF open THEN hw.sram ELSE 0

\* fdt and cpt are not set for any other value, and hold anything.
sun5i(nibble) ==
    CASE nibble = 3 -> {Soc("sun5i-a13")}
      [] nibble = 7 -> {Soc("sun5i-a10s")}
      [] OTHER -> [fdt : {Garbage, dtb("sun4i-a10")},
                   compatible : {Garbage, None}]

\* What match_soc() may find, nothing when the ID is unknown.
Matches(id) ==
    CASE id = SRAM_ID_SUN4I -> {Soc("sun4i-a10")}
      [] id = SRAM_ID_SUN5I -> sun5i(hw.sid)
      [] id = SRAM_ID_SUN6I -> {Soc("sun6i-a31")}
      [] id = SRAM_ID_SUN7I -> {Soc("sun7i-a20")}
      [] OTHER -> {}

CORTEX_A7 == 3079           \* 0xc07

cpuid == (hw.midr % 65536) \div 16

\* malloc(size) for a block of bytes.
AllocateBytes(size) ==
    /\ Allocate(size, Object("bytes", "", NoContent, size))
    /\ UNCHANGED <<hooks, script>>

-----------------------------------------------------------------------------
Init ==
    /\ TreeInit
    /\ DecompileInit
    /\ bin \in Images
    /\ hw \in Machines
    /\ stage = "start" /\ idOpen = FALSE
    /\ soc = [fdt |-> None, compatible |-> None] /\ fdt = None
    /\ args = 0 /\ uarts = 0 /\ smp = FALSE

\* match_soc()
MatchSoc ==
    /\ stage = "start"
    /\ idOpen' = TRUE
    /\ soc' \in Matches(SramId(idOpen'))
    /\ Allocate(SIZEOF_SOC, Object("soc", "", NoContent, SIZEOF_SOC))
    /\ stage' = IF soc'.compatible = None THEN "returned" ELSE "detected"
    /\ UNCHANGED <<hooks, script, fexVars, hw, fdt, args, uarts, smp>>

UnknownSoc ==
    /\ stage = "start"
    /\ idOpen' = TRUE
    /\ Matches(SramId(idOpen')) = {}
    /\ stage' = "returned"
    /\ UNCHANGED <<treeVars, fexVars, hw, soc, fdt, args, uarts, smp>>

\* fdt_open_into() copies the tree, or refuses it.
OpenTree ==
    /\ stage = "detected"
    /\ \/ fdt' = soc.fdt /\ stage' = "atags"
       \/ soc.fdt \in {Garbage, "custom"} /\ stage' = "returned"
          /\ UNCHANGED fdt
    /\ UNCHANGED <<treeVars, fexVars, hw, idOpen, soc, args, uarts, smp>>

\* fdt_fixup_append_bootargs(): a block for the longer command line, or none
\* when there is no /chosen and no room for one.  Nobody looks at its result.
AppendBootargs ==
    \/ \E n \in ArgSizes : AllocateBytes(n)
    \/ UNCHANGED treeVars

\* fdt_fixup_from_atags(): each command line is appended; it returns 0 whatever
\* happens.
AtagCmdline ==
    /\ stage = "atags" /\ args < MaxArgs
    /\ AppendBootargs
    /\ args' = args + 1
    /\ UNCHANGED <<fexVars, stage, hw, idOpen, soc, fdt, uarts, smp>>

AtagsDone ==
    /\ stage = "atags"
    /\ stage' = IF hw.custom THEN "quirks" ELSE "script"
    /\ UNCHANGED <<treeVars, fexVars, hw, idOpen, soc, fdt, args, uarts, smp>>

NewScriptTree ==
    /\ stage = "script"
    /\ script_new
    /\ stage' = "decompile"
    /\ UNCHANGED <<fexVars, hw, idOpen, soc, fdt, args, uarts, smp>>

DecompileStep ==
    /\ stage = "decompile"
    /\ Decompile
    /\ UNCHANGED bootVars

DecompileDone ==
    /\ stage = "decompile" /\ Decompiled
    /\ stage' = "fex"
    /\ UNCHANGED <<treeVars, fexVars, hw, idOpen, soc, fdt, args, uarts, smp>>

\* fdt_fixup_from_fex(): the machine and its compatible, then the console is
\* appended to the command line, then a block for the pins of each UART in use.
\* It returns 0 unless a compatible, a model or a status could not be set.
FexConsole ==
    /\ stage = "fex"
    /\ AppendBootargs
    /\ stage' = "uarts"
    /\ UNCHANGED <<fexVars, hw, idOpen, soc, fdt, args, uarts, smp>>

FexUart ==
    /\ stage = "uarts" /\ uarts < MaxUarts
    /\ \E n \in UartTypes : AllocateBytes(n * 16)
    /\ uarts' = uarts + 1
    /\ UNCHANGED <<fexVars, stage, hw, idOpen, soc, fdt, args, smp>>

FexDone ==
    /\ stage = "uarts"
    /\ stage' = "quirks"
    /\ UNCHANGED <<treeVars, fexVars, hw, idOpen, soc, fdt, args, uarts, smp>>

FexFails ==
    /\ stage \in {"fex", "uarts"}
    /\ stage' = "returned"
    /\ UNCHANGED <<treeVars, fexVars, hw, idOpen, soc, fdt, args, uarts, smp>>

StartKernel ==
    /\ stage = "quirks"
    /\ smp' = (cpuid = CORTEX_A7)
    /\ stage' = "kernel"
    /\ UNCHANGED <<treeVars, fexVars, hw, idOpen, soc, fdt, args, uarts>>

Next ==
    \/ MatchSoc \/ UnknownSoc \/ OpenTree
    \/ AtagCmdline \/ AtagsDone
    \/ NewScriptTree \/ DecompileStep \/ DecompileDone
    \/ FexConsole \/ FexUart \/ FexDone \/ FexFails
    \/ StartKernel

Spec == Init /\ [][Next]_vars /\ WF_vars(Next)

-----------------------------------------------------------------------------
\* Every variable has its type; among them, blocks start a whole number of
\* words after the first one.
TypeOK ==
    /\ stage \in {"start", "detected", "atags", "script", "decompile", "fex",
                  "uarts", "quirks", "kernel", "returned"}
    /\ hw \in Machines /\ bin \in Images
    /\ idOpen \in BOOLEAN /\ smp \in BOOLEAN
    /\ args \in 0 .. MaxArgs /\ uarts \in 0 .. MaxUarts
    /\ TreeTypeOK /\ (heap_base - HeapStart) % 4 = 0
    /\ sec \in Nat /\ entry \in Nat /\ left \in Nat
    /\ cur \in Sections \cup {NULL}

Read == stage \in {"fex", "uarts", "quirks", "kernel"} /\ script # NULL

\* The script the fixups look things up in says what the image says: every
\* section in order, every entry of a known type in order, strings cut at
\* their NUL or at the end of the words they were given, names after 31
\* characters.  An entry of another type disappears and takes nothing with it.
ScriptIsImage == Read => NamesAndValues = Meaning(bin)

\* Compiling what was decompiled never takes more room than the image took:
\* script_bin_size() counts words as the image does, whether or not a string
\* has room for a NUL.
BinSizeFits == Read => script_bin_size <= 4 * Len(bin.words)

\* What the loader needs of the heap: for the SoC, the script, each section
\* and entry, and the blocks of the fixups.
ScriptNeed(s) ==
    LET entryNeed(c) == CASE c.type = NULL_TYPE   -> 44
                          [] c.type = SINGLE_WORD -> 48
                          [] c.type = STRING_TYPE -> 52 + 4 * (Len(c.value) \div 4)
                          [] c.type = GPIO        -> 68
        needs(es)    == [j \in DOMAIN es |-> entryNeed(es[j].content)]
    IN  FoldLeft(+, 0, [i \in DOMAIN s |->
                            48 + FoldLeft(+, 0, needs(s[i].entries))])

BlockNeed == {a \in DOMAIN objs : objs[a].kind = "bytes"}

HeapNeed ==
    16 + ScriptNeed(Meaning(bin))
       + FoldSet(LAMBDA a, n : n + 4 * Words(objs[a].len), 0, BlockNeed)

\* The heap is overrun exactly when the image and the fixups need more than
\* there is: malloc() neither fails nor wastes, and nothing else stops it.
HeapOverrunExactly ==
    Read => (heap_base > HeapStart + HeapSize <=> HeapNeed > HeapSize)

\* The loader comes to an end, whatever the image and the machine are.
BootEnds == <>(stage \in {"kernel", "returned"})
=============================================================================
