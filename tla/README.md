# sunxi-babelfish in TLA+

Allwinner Babelfish is a boot stage. It runs in place of a Linux kernel on a
board whose boot loader knows only ATAGs and a FEX file, makes a device tree
from a built-in one, the ATAGs and the FEX file, and starts the real kernel
with it. There is one thread, no interrupts and no MMU; everything happens once
and in order. What is hard about it is not concurrency but editing a flattened
tree in a buffer that does not grow: every insertion moves what lies behind it,
offsets that were looked up earlier may be wrong afterwards, and a call that
fails half way leaves something behind that most callers do not look at.

## The system

| Part | Source | State | Operations |
|---|---|---|---|
| libfdt, layout | `lib/libfdt/fdt_rw.c`, `fdt_internal.h` | the header of a blob: where its blocks lie, how large they and the buffer are | splice a block, open in a buffer, pack |
| libfdt, reading | `fdt.c`, `fdt_ro.c` | none (a blob is its argument) | walk the tags; find nodes, paths, aliases, properties, phandles; enumerate; search by value or compatible; parents, depths, paths |
| libfdt, editing | `fdt_rw.c`, `fdt_wip.c` | the structure and strings blocks | set, append, delete, blank out properties; add, delete, rename, blank out nodes; reservation entries |
| libfdt, sequential write | `fdt_sw.c`, `fdt_empty_tree.c` | a blob under construction | create, reservation entries, begin and end nodes, properties, finish (linked, not called by the loader) |
| phandles and pin groups | `src/fdt_tools.c` | none of its own; a loop with `pctrl_offset`, `ngroup` | allocate and create phandles, add the pin groups of a UART |
| fixups | `src/fixup.c` | a loop over ATAGs, a loop over UARTs | command line, memory, initrd; machine, console, UARTs |
| boot sequence | `src/main.c`, `src/soc.c` | the detected SoC | open, fix up, jump or return |
| FEX | `lib/libfex/*.c` | lists of sections and entries in the heap | decompile an image; create, find and delete sections and entries; size of the image of a script |
| heap, memory map | `src/memory.c`, `src/head.S` | `heap_base` | `malloc` |
| string functions | `src/string.c` | none | `memcmp`, `memmove`, `strcmp`, ... |
| console, registers | `src/print.c`, `serial-8250.c`, `register.c` | none | output |

`main` opens the built-in tree in a buffer twice its size; `fixup.c` looks up
nodes by path or alias and edits them through libfdt and `fdt_tools.c`, using
what libfex made of the FEX file; nothing else touches the tree. The parts
share no state except the blob, and interact only by calls.

What makes each part correct:

- layout: the three blocks stay in order, apart, and inside the buffer; packing
  in place overwrites nothing it has yet to move.
- editing: the tags nest, the header describes the contents, a node's
  properties come before its subnodes, no two nodes have one path; a call does
  what it says to the tree or nothing; offsets in front of an edit stay valid.
- pin groups: each pin in one group with its configuration, each group
  referenced once by its UART, phandles unique, whatever runs out of room.
- sequential write: structure and strings grow towards each other and never
  meet; names added early are found after others have been put in front of them;
  a finished tree is one the rest of libfdt opens and reads back as written.
- searches: an enumeration visits everything once although the tree is thinned
  out meanwhile; what is found upwards, by path and by content agrees with the
  tree.
- FEX: the lists' hooks agree in both directions, lookups return the first match,
  and the script says what the image says, whatever fills its words or is cut.
- heap: no two objects share a byte.
- boot: the script that the fixups read says what the image says; the loader ends.
- fixups: every UART in use is enabled when the kernel starts, the command line
  is complete and in order, every bank of memory is there, the rest of the tree
  is as it was; what is lost without notice is lost for want of room only; the
  loader always gets to an end.

## The modules

| Module | Models | Kind |
|---|---|---|
| `FdtHeader` | the header arithmetic of `fdt_rw.c` | operators |
| `FdtLayout` | any sequence of calls as far as the header goes | state machine over `hdr`, `nrsv` |
| `FdtHeader_proofs` | lemmas about the header arithmetic, one for each operator | proofs |
| `FdtLayout_proofs` | theorems about `FdtLayout` | proofs |
| `FdtBlob` | `fdt.c`, `fdt_ro.c`, `fdt_rw.c`, `fdt_wip.c` with the contents | operators |
| `FdtBlob_proofs` | lemmas about the walks and the edits of nested tags | proofs |
| `DeviceTree` | what the editing calls promise about the tree | abstract state machine |
| `FdtRw` | any sequence of calls on one blob | state machine over `fdt`, `tree` |
| `FdtRw_proofs` | theorems about `FdtRw` | proofs |
| `FdtTools` | `fdt_tools.c` | operators |
| `Fixup` | `fixup.c` and `main` from `fdt_open_into` on | state machine |
| `LibString` | `string.c` over a sequence of bytes | operators |
| `FdtSearch` | the rest of `fdt.c` and `fdt_ro.c`, and a client that enumerates while it blanks things out | operators, state machine over `fdt`, `walk`, `seen`, `buf` |
| `FdtSw` | `fdt_sw.c`, `fdt_empty_tree.c` and a client that writes one tree | state machine over `fdt`, `nrsv`, `path`, `tree` |
| `FdtSwTree` | what `FdtSw` leaves, read with `FdtBlob` | properties |
| `FdtSw_proofs` | theorems about `FdtSw` and `FdtSwTree` | proofs |
| `Memory` | `malloc`, the sizes and offsets of libfex's structures | operators |
| `Script` | what `script.c` promises: sequences of named sections and entries | abstract state machine |
| `ScriptTree` | `common.h` and `script.c` down to pointers and heap addresses | state machine over `heap_base`, `hooks`, `objs`, `script`, `ret` |
| `ScriptTree_proofs` | the lists of `common.h`, then theorems about `ScriptTree` | proofs |
| `FexBin` | `script_bin.c`, one entry a step | actions, on top of `ScriptTree` |
| `Boot` | `head.S`, `main.c`, `soc.c`, with the heap and `FexBin` | state machine with fairness |
| `Boot_proofs` | theorems about `Boot` | proofs |
| `NatRecursion` | induction, recursive functions and loops, in a form the provers can use | lemmas |
| `MCFdtLayout`, `MCFdtRw`, `MCFixup`, `MCScript`, `MCBoot`, `MCFdtSw`, `MCFdtSearch` | small instances for TLC | |

`Fixup` extends `FdtTools`, which extends `FdtBlob`, which extends `FdtHeader`:
the fixups are checked on the very operators that `FdtRw` is checked on, and
their headers are computed by the operators that the proofs are about. `FdtRw`
is shown to implement both `DeviceTree` and `FdtLayout`. `FdtSearch` extends
`FdtBlob` and `LibString`; `FdtSw` extends `FdtHeader`, and `FdtSwTree` reads its
buffer with an instance of `FdtBlob`. `Boot` extends `FexBin`, which extends
`ScriptTree`, which extends `Memory`: the loader's one heap is under all of them.
`ScriptTree` is shown to implement `Script`. A module that is proved about writes
the loops of C as recursive functions (`LET from[off \in Int] == ...`); `FdtSearch` and
`Fixup`, which only TLC reads, have a few recursive operators.

**A blob.** The structure block is a sequence of 32-bit words. The first word of
a tag carries what the tag says; the words of its name or value follow as `Cont`
words, as many as they take up. Offsets are C offsets divided by 4 and negative
ones are error codes, so that an offset computed before an insertion and used
after it is as wrong in the model as in C, and a value of the wrong length
misplaces everything behind it. The strings block is a sequence of names; the
search for a name finds it as the end of a longer one, as `_fdt_find_string`
does. Values are sequences of strings, cells and (for `/aliases`) paths, with the
lengths in bytes that C gives them. A call is an operator that returns `ret` and
the blob it leaves.

**The fixups.** `pc` says where the loader is; an action is one ATAG, the
machine, the console, one UART or one pin. The results that the code ignores are
ignored here too, and `lost`, a history variable, records that one of them was an
error. That nothing is lost is not claimed, since the code does not see to it:
`BootargsInOrder` speaks of the runs in which nothing was, `PinsGrouped` and
`ReferencesResolve` of what is there all the same, and `LostForWantOfRoom` says that
in a tree which has the nodes the fixups go to, the first such error finds fewer
bytes left in the buffer than the largest call needs. A lookup of a section or entry
that the FEX file does not have gives NULL; `assert` only prints, and without an MMU
the read through NULL is a read of whatever is there. That is the choice between
skipping the UART and the state `undefined`, after which nothing is claimed. The
decompiler's result is an input of the model, and it may fail. In a build with a
tree of the user's own (`make DTB=...`) the FEX file is not looked at.

**The script and the heap.** An address is an address: `malloc` adds the rounded
size to `heap_base`, a list hook is found at its offset in its structure, and
`hooks` maps the addresses of hooks to `prev` and `next`. The hooks of what has
been deleted keep what they held, as `free` does nothing. The client of
`ScriptTree` makes any legal call in any order. In `Boot` the calls are those of
the decompiler, with the name, type and value it reads from `bin`, an image of
32-bit words; `objs` records for each block how many bytes its constructor writes.

**The boot.** `stage` says where `main` is. `hw` is the build and the machine, and
`match_soc` reads its SRAM and SID registers; for an unknown SUN5I it returns any
of what an uninitialised variable may hold. What the fixups do to the tree is
left to `Fixup`: here each allocates what it allocates, and `fdt_fixup_from_fex`
returns 0 or an error. That it, or `fdt_fixup_from_atags`, returned 0 does not mean that
every fixup was applied (finding 3), and `Boot` says nothing about that.

**Sequential write.** The buffer is its header fields, the tags so far and the
strings in the order of their addresses. A tag keeps the offset of its name as
the property in the buffer does, from the end of the buffer until `fdt_finish`
makes it count from the start of the strings. `tree` is a history variable: what
the successful calls have said.

**Searches.** The offsets are those of `FdtBlob`. `memchr`, `memcmp`, `strchr` and
the rest are modelled byte for byte over a sequence of characters, with what is
peculiar about them: `memchr` returns the address behind its match, and `memcmp`
never finds two regions of no bytes equal. A list of compatible strings and the
text of a path are compared with them.

## The runs

| Run | Instance | What it shows |
|---|---|---|
| `fdt_layout` | three sources (in order; strings first; version 16 with gaps), four buffers, lengths 0, 3, 12 | the layout invariants, and that packing and reopening give back all the room that is not in use |
| `fdt_rw` | root, one property, one node; names `a`, `a@1`; properties `p` (sharing the string of `xp`) and `q`; two values; two buffers with room for one or two additions | every sequence of calls, to any length, keeps the blob sound and refines the two abstract specifications |
| `fixup` | trees of the skeleton's shape with two UARTs; 196 combinations of tree, padding, ATAGs and script | the fixups, with room and with buffers that run full at every place, 8 bytes apart: what is in the tree afterwards, and that only want of room makes one of them fail unnoticed |
| `fdt_rw_parent` | as `fdt_rw`, with an error code as the parent of a new node | `fdt_add_subnode` does not refuse it |
| `fixup_pull` | as `fixup`, roomy buffers | pull and drive level are exchanged |
| `fixup_banks` | as `fixup`, two `ATAG_MEM` | only the last bank survives |
| `fixup_atags` | as `fixup`, trees of the user's own | a failure in the ATAGs is not reported |
| `script` | blocks with up to seven hooks; three names, two of them alike in 31 characters; an empty and a string entry | the lists stay sound through every sequence of calls and implement the abstract script |
| `boot` | images of up to two sections and two entries of every type; ten machines and builds; a heap of 200 bytes; one command line, two UARTs | the script is the image, the heap's need, and that the boot ends |
| `fdt_sw` | three node names, three property names (one the end of another), two values; buffers of 39 to 152 bytes | blocks apart, names found, sizes right, finished trees open and read back |
| `fdt_search` | three blobs: wide, deep, with blanked-out tags; up to three things taken out during an enumeration; a buffer of 7 bytes | enumerations, upward and content searches, paths and string functions agree with the tree |
| `fdt_compatible` | as `fdt_search` | a string that is not the first of its list is not found |

Why the bounds are enough. In `fdt_rw` the buffer is the bound: no number of
steps is. The two names match each other's lookups, one property name ends the
other, the buffers make each insertion succeed in some states and fail in others,
and deletions and blanked-out tags make room again. In `fixup` the scripts
have all pairs of pulls with two drives for two pins, UARTs with 4 and 8 pins that fall into
several groups, UARTs without alias, section, type or pins; the paddings step the
end of the buffer through the whole sequence of edits. `U32` is 16 so
that the end of an initrd wraps. Every operation on a length is piecewise linear
with the one threshold "does it fit", and the proofs of `FdtLayout` cover all
lengths.

In `script` the lists are empty, of one, and of several items, and every item is
deleted from the front, the middle and the end. In `boot` there are strings that
fill their words, strings of no words, one with bytes behind its NUL, a name too
long for its field, an unknown type among known ones, and a section without
entries; images that fit the small heap and images that go past it, since 4096
bytes would take images TLC has no use for (`HeapSize` is only compared). The
buffers of `fdt_sw` step the end through every call; 39 is too small for a header,
44 so small that the signed room becomes negative. The paths of `fdt_search` fit
its buffer, fill it, and exceed it by one byte.

`fdt_layout`, `fdt_rw` and `fixup` check deadlock: the loader only stops where
`Halted` says it does. `script`, `boot`, `fdt_sw` and `fdt_search` do not: the
bound on blocks, the kernel's start, a finished tree and the end of an
enumeration are places where there is nothing more to do.

**Fairness.** `Boot` and `Fixup` need it. One CPU runs the loader with interrupts
off and nothing it calls waits for anything but itself, so `Boot` assumes
`WF_vars(Next)` and no more; `BootEnds` follows because every loop counts down
something that the image or a bound gave it. In `Fixup` one thread that waits for nothing keeps
running, so the specification assumes that it takes a step whenever it has not
stopped: weak fairness of `Next`, with `ENABLED` written out as "has not
stopped": every action changes `pc`, `tags`, `uart` or `gpios`. `Termination` follows from it
and from the loops' bounds. The loops over tags inside libfdt are recursive
functions; those of `FdtBlob` are proved to end (`LoopExists`), the others end because
TLC evaluates them; the busy-wait of the serial
port is outside.

## What is proved

TLAPS proves what follows for every value of the constants that meets the named
assumptions of the modules; TLC evaluates those assumptions in every run.

### How the proofs deal with loops

The library's induction theorems take an operator and cannot be applied here, so
`NatRecursion` states induction about sets: a set that holds 0 and every successor
holds the naturals. From it follow primitive recursion, sums, and two lemmas for the
loops of C, which the models write as recursive functions: `LoopExists` (a loop whose
every turn lowers a rank is a function, in other words it ends) and `LoopInduction`
(what holds of a state when it holds of all states of lower rank holds of all). The
rank of a walk over tags is what is left of the block, of a walk over a list the
items still to come.

### Layout (`FdtHeader_proofs`, `FdtLayout_proofs`)

For every set of trees, buffers and lengths:

- `LayoutInvariant`: `Spec => []LayoutInv`. `LayoutInv` (the type, version 17,
  the blocks in order and inside the buffer with the room the reservation entries
  really take) is inductive. It is stronger than `_fdt_blocks_misordered`
  as `_fdt_rw_check_header` calls it, which assumes a single reservation entry;
  that check alone would not be inductive once entries are added. There is one
  lemma for each operator of `FdtHeader` and one step for each action.
- `PackInPlace`: packing a well laid out blob moves each block to a place that
  ends before the next block's old place begins.
- `NoRoomIsLost`: `Spec => []RoomComesBack`. Gaps between blocks and strings left behind
  by properties that did not fit take room, and a blob opened in a larger buffer has it
  at the end only; once packed and reopened in its buffer, a blob takes exactly the edits
  whose result fits (`RepackedBlob` says what that blob is), and neither call fails.
- `TwiceIsEnough`: `fdt_open_into` with twice the size of any tree whose blocks
  are disjoint succeeds, in or out of order, and leaves at least the tree's
  size to grow into.

The assumptions are that the sources are trees whose blocks lie behind the
header, inside the tree and disjoint, and that sizes are natural numbers. C's
`int` bounds what they can be: trees and buffers are assumed smaller than 2 GiB.

### Editing (`FdtBlob_proofs`, `FdtRw_proofs`)

For every set of names, values, trees and buffers. The trees handed in are ones
that `fdt_open_into` accepts, whose header agrees with their contents, whose tags
nest and that are `Tidy` (`DtbsAssumption`): properties come before subnodes and once
each, no two nodes have one path, and the names are in the strings block, all of which
the device tree compiler sees to. Lengths are natural numbers, and a name is
the sequence of its characters (`EndingAssumption`).

The inductive invariant is `Sound(fdt)`, that the header agrees with the contents and
is well laid out, and, unless errors are handed on as parents, `Shaped(fdt.words)`:
the block is `Nested`, each tag followed by the words it takes up and the nodes balanced
around one root, or `Rootless`, nothing but blanked-out words, once the root is gone.
The property `WellNested` is not inductive: `fdt_add_subnode` puts a node where a walk
over the properties ends, and that is between two tags at the right depth only
because the block has no gaps. `FdtBlob_proofs` has the walks (each offset that a
walk returns is that of a tag of the kind it looks for, and an end returned by
`_fdt_node_end_offset` closes its node) and the edits (putting in, taking out, replacing
or blanking out balanced words keeps the balance); `FdtRw_proofs` has one lemma for
each call, for its success and its error paths.

- `RwTypeOK` and `RwHeaderAgrees`: `Spec => []TypeOK`, `Spec => []HeaderAgrees`. They
  hold even where a failed lookup becomes a parent (finding 4): what is written then is
  in the wrong place, but it is accounted for.
- `RwWellNested`: `Spec => []WellNested` when `UnseenError` is `FALSE`, as for every
  caller that looks at what a lookup returns; `fdt_rw_parent` shows that this is needed.
- `RwEarlierOffsetsStable`, `RwAddSubnodeReturnsIt` and `RwInPlaceKeepsOffsets`: the three
  action properties about offsets, the last two when `UnseenError` is `FALSE`. Each call
  is a splice of the block at a known place (`Puts`): behind the node's `BEGIN` tag, so
  that the words up to it, and with them the paths of the nodes there, are the same
  (`SplicedHead`); with only properties between the parent and a new subnode
  (`PlaceNear`); and in place of words that lead back to the node they started in
  (`PathsQuiet`, `PathsBack`), so that the paths behind them stay too (`SplicedTail`).
- `RwPropsReachable` and `RwPathsUnique`: `Spec => []PropsReachable` and `Spec =>
  []PathsUnique` when `UnseenError` is `FALSE`. The invariant is that the blob stays `Tidy`.
  Neither half stands alone: a second property of a name is refused because the one there
  is found, and it is found because nothing but properties lies in front of it. For each
  call there is a lemma that says what it does to the words (`PropDone`, `CutDone`,
  `GoneDone`, `NewDone`, `NamedDone`): a property of that name in a place where only
  properties are in front of it, the one property of that name out of the way, a
  subtree out of the way, a node whose path no node had, or a new name for a node that
  no sibling had. The words that stay keep their paths (`Rejoins`), the new
  ones add at most one property or node (`Fresh`), and then the blob is as tidy
  as before (`FreshOrdered`); a new name replaces one name in the paths below the
  node (`RenamedPaths`), and paths that differed still differ (`NewPathsTell`).
- `RwImplementsTree`: `Spec => TreeSpec` when `UnseenError` is `FALSE`. `Says(ws, t)` states
  what a tree has to do with the words of a block without saying which property comes
  first, and for a tidy block there is one such tree, `TreeOf` (`TreeIs`, `SaysOne`). For
  each kind of edit, one lemma says which paths and properties the words afterwards have
  (`PropSetFacts`, `PropOutFacts`, `NodeGoneFacts`, `NodeNewFacts`, `NodeNamedFacts`) and a
  second one which tree says so (`SetSays` to `NamedSays`); that one is the step of
  `DeviceTree`. The tidiness is needed here too: of two properties with a name,
  deleting one would leave the other. A call that fails, and any call on a blob
  whose root is gone, leaves the tree alone.
- `RwImplementsLayout`: `Spec => LayoutSpec` when `Lens = Nat`. Each call is one step of
  `FdtLayout` on the header, or none, so the theorems about layouts are about real blobs.

### Sequential write (`FdtSw_proofs`)

For every set of names and values, of any length, and every buffer size:

- `SwBlocksInBuffer`: `Spec => []BlocksInBuffer` when no property's name has 64 bytes or
  more (`ShortNames`, the theorem's hypothesis). The invariant ties
  `off_dt_struct` to the reservation entries written and says that there are strings
  only once there is a node, and a node only once the reservation block is
  finished; without it a call of `_fdt_grab_space` could find a negative
  room, which it takes for a large one. The hypothesis is what keeps
  `totalsize + offset` in `_fdt_find_add_string` from wrapping: a buffer that takes a
  node has at least 64 bytes in front of its strings. Without it the property is not
  true of the code.
- `SwOnlyWrapOverruns`: `Spec => ([]StringsInBuffer => []BlocksInBuffer)`, with names of
  any length. Nothing but that wrap makes the blocks meet: they do not as long as the
  strings are no larger than the buffer, which a string taken to fit by the wrap makes
  them at once.
- `SwTypeOK` and `SwNamesResolve`: `Spec => []TypeOK`, `Spec => []NamesResolve`. The
  invariant `Whole` says where each property's name ends among the strings, counted from
  the end of the buffer before `fdt_finish` and from the start of the strings after it.
  A new string goes in below all others and so moves no end; and no offset is 0, which
  `_fdt_find_add_string` returns for "no room", since each string takes its NUL.
- `SwSizesAgree`: `Spec => []SizesAgree` of `FdtSwTree`, in the growing tree, the finished
  one and the one that `fdt_create_empty_tree` opens. The blob's structure block and its
  strings are sums over sequences, so the invariant `Sized` holds the sums themselves: a
  function that counts the words of the first tags (`Counts`), which a new tag makes one
  longer, and the end of the last string (`Filled`), which a string put in front moves up
  by its own length. `FlattenLen` and `TotalIs` tie them to the blob that is read.

### The script (`ScriptTree_proofs`)

For any number of objects, any names and contents:

- `TreeListsConsistent` and `TreeTyped`. The inductive invariant `TreeInv` names the
  sequence of hooks that each list holds, and has three parts: each list is a ring
  through its sequence, in both directions, and no hook is on two (`Rings`); the heads
  and the members are those of the live script, sections and entries (`Owned`); and all
  lie below `heap_base` (`Allocated`), which is why a new hook is on no list. Every `Forward`
  and `Backward` walk returns the sequence; appending adds to its end; a removal cuts
  one place out of it, wherever it is.
- `TreeImplementsScript`: `TreeSpec => ScriptSpec`. Each call of `script.c` is the
  corresponding step of `Script` on what its lists show: the lookups return the first
  match of the name, deleted entries and sections are gone and the others stay in
  order, and a handle is never given out twice.

### The loader (`Boot_proofs`)

For every set of well-formed images (`ValidImage`: the counts, which the decompiler does
not check, are not negative, and the ends of strings are found), of machines and of sizes.
`BootScriptIsImage` alone also needs `InFormat`: a value lies within the image and has as
many words as its type. The second half is what `script_bin.c` asserts; its assert prints
and goes on, so that for other images the script is not what the image says:

- `HeapObjectsDisjoint`: `Spec => []ObjectsDisjoint`. Inductive with it: every
  object ends at or below `heap_base`, `heap_base` stays above the start of the
  heap, and the decompiler's counters are naturals, so that sizes are. The one
  arithmetic fact is that `malloc`'s rounding never gives less than was asked
  (`AlignedEnough`); the rest is one lemma for each constructor: what it writes fits in
  what it asks for.
- `BootTypeOK` and `BootListsConsistent`: `TreeInv` holds on while the loader builds the
  script among the blocks of detection and fixups; the decompiler's `cur` is a live
  section whenever an entry is hung from it, and `heap_base` is a whole number of words
  from the start of the heap.
- `BootScriptIsImage`: `Spec => []ScriptIsImage`. `ReadInv` says that the script is what
  the image says up to where the decompiler stands (`ReadSoFar`): the sections before
  `sec` in full, and of section `sec` the entries gone through. A step adds a section
  (`SectionAdded`), or an entry when its type is known (`EntryAdded`), at the end of what
  is there; the tree shows it because `ShowsNewSection` and `ShowsNewEntry` of
  `ScriptTree_proofs` say so. `Meaning` ranks the known entries instead of following the
  loop, so each step needs that the ranks of the earlier ones stay (`RankedGrows`). A
  string's value is the longest prefix of its words without a zero byte, and the code
  seeks the end a byte at a time; `StringSought` and `StringRead` show that both agree.

### What is only model-checked

- `Termination` and `BootEnds`: liveness, and the `ENABLED` in it, are outside the
  prover's reach.
- `FdtSearch` and `Fixup` declare recursive operators, which the prover does not
  support; their properties (enumerations, groups of pins) are checked by TLC on the
  instances above.
- `FinishedTreeOpens` of `FdtSwTree`, which opens a finished tree and reads all of it.
- In `Boot`: `BinSizeFits` and `HeapOverrunExactly`, which sum the sizes of everything
  that was allocated.

## Disagreements found

1. `GPIO_ENTRY_TO_STRUCT` (`include/fdt_tools.h:10`) reads drive and pull from
   each other's place in the entry that `script_bin.c:133` fills (`PullKept`).
2. A second `ATAG_MEM` replaces the first (`AllBanksKept`); `setup.h` allows many.
3. `fdt_fixup_from_atags` reports no error, so `main`'s check of it is dead
   (`AtagsApplied`).
4. `fdt_add_subnode` given `-FDT_ERR_NOTFOUND` as the parent writes in front of
   the structure block (`ParentChecked`); the header promises an error. The loader itself
   never does this: both its calls check the parent.

5. A compatible string that is not the first of its list is not found
   (`CompatibleIfListed`): `memchr` (`string.c:9`) returns the address behind its
   match, and `fdt_stringlist_contains` steps over a letter; `libfdt.h:786` promises
   otherwise. The loader itself never searches by compatible.

These are in a run each. Three more, in calls that the loader never makes, have none;
the properties leave the case out:

- `fdt_node_offset_by_prop_value` never finds an empty value: `memcmp` (`string.c:16`)
  with n = 0 compares until two bytes differ, while `libfdt.h:724-727` promises the first
  node with a property of that length and content. `SearchesAgree` says nothing of
  empty values.
- For the offset of the tag that ends the structure block, behind the root,
  `fdt_node_depth` and `fdt_parent_offset` answer `-FDT_ERR_NOTFOUND`, where `libfdt.h`
  says `-FDT_ERR_BADOFFSET`; `UpwardsAgree` demands what the code answers there and
  `-FDT_ERR_BADOFFSET` at every other offset that is not a node.
- At that offset `fdt_get_path` (`fdt_ro.c:371`) seeks a slash from `buf[-1]` downwards.
  The model has the answer `UNDEFINED`, of which nothing is claimed.

## Not modelled

- Contents of reservation entries, the header fields that no call here decides on
  (magic, boot CPU, last compatible version), and `FDT_CHECK_HEADER`: the blobs
  are device trees.
- Types of FEX entries: the fixups cast without looking, and the model takes the
  entry's value as given. A debug port above 9 would not be one digit.
- In `Fixup`, `malloc` is assumed to succeed, as it does; what it hands out past
  the end of the heap is the subject of `HeapOverrunExactly`, and what is overwritten
  there is not modelled.
- Of a SUN5I with an unknown SID only that the loader goes on with what is in its
  unset variables.
- FEX images the decompiler is not made for: negative counts, offsets outside the
  image, and values whose word count does not fit their type.
- `assert`: it prints and goes on, so that no module has a guard where the code has
  an assertion.
- The linker script: where stack, heap and image lie.
- What is overwritten in front of the buffer when a property name is too long for
  `fdt_sw.c` and an unsigned sum wraps: `find_add_string` has the wrap and the sizes
  it leaves, and the runs have no such names.
- The reservation entries after a node has been spliced in front of the structure block
  (finding 4): it overwrites the size of the entry that ends them, so that
  `fdt_num_mem_rsv` would count on. From then on the calls that count them are not made
  (`RsvEnds`, a bound of `FdtRw` that only `UnseenError` makes matter).
- Calls of `string.c` outside their memory: `strchr` reads past an empty string,
  and `fixup.c` appends one `char` with `strncat`, which measures it as a string first.
- Console output, registers, and what the Cortex-A7 quirks write.
- `fdt_strerror.c`: a table.

## Plan

Done: everything listed under the modules. What could follow:

1. `Boot` with the tree: `Fixup` as the refinement of `Boot`'s fixup steps, over
   one script that `FexBin` reads, instead of two models that meet at its contents.
2. Proofs: the invariants of `Fixup` that need no contents, once its recursive
   operators are functions.
3. Phandles above 2^31, which `fdt_alloc_phandle` compares as signed.
