----------------------------- MODULE Boot_proofs ------------------------------
(***************************************************************************)
(* Results on the loader, for any set of machines, FEX images and sizes the *)
(* fixups ask for: no two live objects share a byte of the heap, and the   *)
(* script the fixups read says what the image says.                        *)
(***************************************************************************)
EXTENDS Boot, ScriptTree_proofs

\* Where the objects lie: below heap_base, and apart.
HeapInv ==
    /\ heap_base \in Nat /\ HeapStart <= heap_base
    /\ \A a \in DOMAIN objs : a \in Nat /\ objs[a].len \in Nat
    /\ ObjectsDisjoint

\* Where the decompiler is: within the sections and entries of the image.
ReaderInv ==
    /\ bin \in Images
    /\ sec \in Nat
    /\ cur # NULL =>
          /\ sec < SectionCount(bin)
          /\ left \in 0 .. Length(bin, SectionAt(sec))
          /\ entry = EntryAt(bin, sec, Length(bin, SectionAt(sec)) - left)

\* A block put at heap_base is apart from those in front of it, if the object
\* written to it is no larger than the size malloc was given.
LEMMA AllocateKeeps ==
    ASSUME HeapInv, NEW size \in Nat, NEW o, o.len \in 0 .. size,
           Allocate(size, o)
    PROVE  HeapInv'
<1>1. /\ heap_base' \in Nat /\ heap_base + o.len <= heap_base'
      /\ heap_base <= heap_base'
  BY AlignedEnough DEF Allocate, HeapInv
<1>2. /\ DOMAIN objs' = DOMAIN objs \cup {heap_base}
      /\ objs'[heap_base] = o
      /\ \A a \in DOMAIN objs \ {heap_base} : objs'[a] = objs[a]
  BY DEF Allocate
<1>3. \A a \in DOMAIN objs' :
         a \in Nat /\ objs'[a].len \in Nat /\ HeapStart <= a
           /\ a + objs'[a].len <= heap_base'
  BY <1>1, <1>2, TreeAssumption DEF HeapInv, ObjectsDisjoint
<1>4. \A a, b \in DOMAIN objs' : a < b => a + objs'[a].len <= b
  <2> SUFFICES ASSUME NEW a \in DOMAIN objs', NEW b \in DOMAIN objs', a < b
               PROVE  a + objs'[a].len <= b
    OBVIOUS
  <2>1. a # heap_base /\ a \in DOMAIN objs /\ objs'[a] = objs[a]
    BY <1>2, <1>3 DEF HeapInv, ObjectsDisjoint
  <2>2. CASE b = heap_base
    BY <2>1, <2>2 DEF HeapInv, ObjectsDisjoint
  <2>3. CASE b # heap_base
    BY <2>1, <2>3, <1>2 DEF HeapInv, ObjectsDisjoint
  <2> QED
    BY <2>2, <2>3
<1> QED
  BY <1>1, <1>3, <1>4, TreeAssumption DEF HeapInv, ObjectsDisjoint

\* Steps that leave the heap, or the decompiler, alone.
LEMMA HeapUnchanged ==
    ASSUME HeapInv, UNCHANGED <<heap_base, objs>>
    PROVE  HeapInv'
BY DEF HeapInv, ObjectsDisjoint

LEMMA ReaderUnchanged ==
    ASSUME ReaderInv, UNCHANGED fexVars
    PROVE  ReaderInv'
BY DEF ReaderInv, fexVars

\* A new entry: what is written to it is what was asked for (script.c).
LEMMA EntryKeeps ==
    ASSUME HeapInv, NEW s, NEW name, NEW c, c.type \in Known,
           Len(c.value) \in Nat, script_entry_new(s, name, c)
    PROVE  HeapInv'
<1> DEFINE size == entry_size(c.type, Len(c.value))
           o == Object("entry", cut_name(name), c, entry_len(c))
<1>1. size \in Nat /\ o.len \in 0 .. size
  BY DEF entry_size, entry_len, Object, Known, NULL_TYPE, SINGLE_WORD,
         STRING_TYPE, GPIO
<1>2. Allocate(size, o)
  BY DEF script_entry_new
<1> HIDE DEF size, o
<1> QED
  BY <1>1, <1>2, AllocateKeeps

\* A new section, and a new tree.
LEMMA SectionKeeps ==
    ASSUME HeapInv, NEW name, script_section_new(name)
    PROVE  HeapInv'
<1> DEFINE o == Object("section", cut_name(name), NoContent, SIZEOF_SECTION)
<1>1. SIZEOF_SECTION \in Nat /\ o.len \in 0 .. SIZEOF_SECTION
  BY DEF Object, SIZEOF_SECTION
<1>2. Allocate(SIZEOF_SECTION, o)
  BY DEF script_section_new
<1> HIDE DEF o
<1> QED
  BY <1>1, <1>2, AllocateKeeps

LEMMA ScriptKeeps ==
    ASSUME HeapInv, script_new
    PROVE  HeapInv'
<1> DEFINE o == Object("script", "", NoContent, SIZEOF_SCRIPT)
<1>1. SIZEOF_SCRIPT \in Nat /\ o.len \in 0 .. SIZEOF_SCRIPT
  BY DEF Object, SIZEOF_SCRIPT
<1>2. Allocate(SIZEOF_SCRIPT, o)
  BY DEF script_new
<1> HIDE DEF o
<1> QED
  BY <1>1, <1>2, AllocateKeeps

\* A number is in the interval that ends with it.
LEMMA UpToItself ==
    ASSUME NEW n \in Nat PROVE n \in 0 .. n
OBVIOUS

\* Blocks of bytes, and the SoC.
LEMMA BytesKeep ==
    ASSUME HeapInv, NEW size \in Nat, NEW kind,
           Allocate(size, Object(kind, "", NoContent, size))
    PROVE  HeapInv'
<1> DEFINE o == Object(kind, "", NoContent, size)
<1>1. o.len = size
  BY DEF Object
<1>2. Allocate(size, o)
  OBVIOUS
<1>3. size \in 0 .. size
  BY UpToItself, Zenon
<1> HIDE DEF o
<1>4. o.len \in 0 .. size
  BY <1>1, <1>3, Zenon
<1> QED
  BY <1>2, <1>4, AllocateKeeps

\* The decompiler reads the entries the image has, and no other.
LEMMA ReaderStep ==
    ASSUME HeapInv, ReaderInv, Decompile
    PROVE  HeapInv' /\ ReaderInv'
<1>1. CASE BeginSection
  <2>1. ValidImage(bin) /\ sec \in 0 .. SectionCount(bin) - 1
    BY <1>1, ImagesAssumption DEF BeginSection, ReaderInv, ValidImage
  <2>2. /\ Length(bin, SectionAt(sec)) \in Nat
        /\ SectionOff(bin, SectionAt(sec)) \in Nat
    BY <2>1 DEF ValidImage
  <2>3. entry' = EntryAt(bin, sec, Length(bin, SectionAt(sec)) - left')
    BY <1>1, <2>2 DEF BeginSection, EntryAt, ENTRY_WORDS
  <2>4. ReaderInv'
    BY <1>1, <2>1, <2>2, <2>3 DEF BeginSection, ReaderInv
  <2>5. HeapInv'
    BY <1>1, SectionKeeps DEF BeginSection
  <2> QED
    BY <2>4, <2>5
<1>2. CASE ReadEntry \/ SkipEntry
  <2>0. NextEntry
    BY <1>2 DEF ReadEntry, SkipEntry
  <2> DEFINE j == Length(bin, SectionAt(sec)) - left
  <2>1. ValidImage(bin) /\ sec \in 0 .. SectionCount(bin) - 1
    BY <2>0, ImagesAssumption DEF NextEntry, ReaderInv, ValidImage
  <2>2. /\ Length(bin, SectionAt(sec)) \in Nat
        /\ SectionOff(bin, SectionAt(sec)) \in Nat
    BY <2>1 DEF ValidImage
  <2>3. /\ left \in 1 .. Length(bin, SectionAt(sec))
        /\ j \in 0 .. Length(bin, SectionAt(sec)) - 1
        /\ entry = EntryAt(bin, sec, j)
    BY <2>0, <2>2 DEF NextEntry, ReaderInv
  <2>4. Len(ContentAt(bin, entry).value) \in Nat
    BY <2>1, <2>3 DEF ValidImage
  <2>5. /\ left' \in 0 .. Length(bin, SectionAt(sec))
        /\ Length(bin, SectionAt(sec)) - left' = j + 1
    BY <2>0, <2>2, <2>3 DEF NextEntry
  <2>6. entry' = EntryAt(bin, sec, j + 1)
    BY <2>0, <2>2, <2>3 DEF NextEntry, EntryAt, ENTRY_WORDS
  <2>7. ReaderInv'
    BY <2>0, <2>5, <2>6 DEF NextEntry, ReaderInv
  <2>8. CASE ReadEntry
    <3>1. ContentAt(bin, entry).type \in Known
      BY DEF ContentAt, Content, Known, NULL_TYPE, SINGLE_WORD, STRING_TYPE, GPIO
    <3>2. script_entry_new(cur, Name(bin, entry), ContentAt(bin, entry))
      BY <2>8 DEF ReadEntry
    <3> QED
      BY <2>4, <2>7, <3>1, <3>2, EntryKeeps
  <2>9. CASE SkipEntry
    BY <2>7, <2>9, HeapUnchanged DEF SkipEntry, treeVars
  <2> QED
    BY <1>2, <2>8, <2>9
<1>3. CASE EndSection
  <2>1. ReaderInv'
    BY <1>3 DEF EndSection, ReaderInv
  <2> QED
    BY <2>1, <1>3, HeapUnchanged DEF EndSection, treeVars
<1> QED
  BY <1>1, <1>2, <1>3 DEF Decompile

\* The invariant: every step of the loader that allocates goes through one of
\* the lemmas above.
LEMMA BootInit ==
    ASSUME Init PROVE HeapInv /\ ReaderInv
<1>1. HeapInv
  BY TreeAssumption DEF Init, TreeInit, HeapInv, ObjectsDisjoint
<1>2. ReaderInv
  BY DEF Init, DecompileInit, ReaderInv
<1> QED
  BY <1>1, <1>2

LEMMA BootStep ==
    ASSUME HeapInv, ReaderInv, [Next]_vars
    PROVE  HeapInv' /\ ReaderInv'
<1>1. ASSUME UNCHANGED fexVars, UNCHANGED treeVars PROVE HeapInv' /\ ReaderInv'
  BY <1>1, HeapUnchanged, ReaderUnchanged DEF treeVars
<1>2. ASSUME UNCHANGED fexVars, HeapInv' PROVE HeapInv' /\ ReaderInv'
  BY <1>2, ReaderUnchanged
<1>3. CASE MatchSoc
  <2>1. SIZEOF_SOC \in Nat
    BY DEF SIZEOF_SOC
  <2> QED
    BY <1>2, <1>3, <2>1, BytesKeep DEF MatchSoc
<1>4. ASSUME AppendBootargs, UNCHANGED fexVars PROVE HeapInv' /\ ReaderInv'
  <2>1. ASSUME NEW n \in ArgSizes, AllocateBytes(n) PROVE HeapInv'
    BY <2>1, BytesKeep, BootAssumption DEF AllocateBytes
  <2> QED
    BY <1>1, <1>2, <1>4, <2>1 DEF AppendBootargs
<1>5. CASE AtagCmdline
  BY <1>4, <1>5 DEF AtagCmdline
<1>6. CASE FexConsole
  BY <1>4, <1>6 DEF FexConsole
<1>7. CASE FexUart
  <2>1. PICK n \in UartTypes : AllocateBytes(n * 16)
    BY <1>7 DEF FexUart
  <2>2. n * 16 \in Nat
    BY BootAssumption
  <2>3. HeapInv'
    BY <2>1, <2>2, BytesKeep DEF AllocateBytes
  <2> QED
    BY <1>2, <1>7, <2>3 DEF FexUart
<1>8. CASE NewScriptTree
  BY <1>2, <1>8, ScriptKeeps DEF NewScriptTree
<1>9. CASE DecompileStep
  BY <1>9, ReaderStep DEF DecompileStep
<1>10. CASE UnknownSoc \/ OpenTree \/ AtagsDone \/ DecompileDone \/ FexDone
              \/ FexFails \/ StartKernel
  BY <1>1, <1>10 DEF UnknownSoc, OpenTree, AtagsDone, DecompileDone, FexDone,
                     FexFails, StartKernel
<1>11. CASE UNCHANGED vars
  BY <1>1, <1>11 DEF vars
<1> QED
  BY <1>3, <1>5, <1>6, <1>7, <1>8, <1>9, <1>10, <1>11 DEF Next

\* No two live objects share a byte of the heap, and none reaches past
\* heap_base, through detection, decompiling and fixups: the size each
\* constructor asks malloc for covers what it writes (memory.c, script.c).
THEOREM HeapObjectsDisjoint == Spec => []ObjectsDisjoint
<1>1. HeapInv => ObjectsDisjoint
  BY DEF HeapInv
<1> QED
  BY <1>1, BootInit, BootStep, PTL DEF Spec
-----------------------------------------------------------------------------
(* Types: the tree keeps its shape while the loader builds it, among the   *)
(* blocks of detection and of the fixups.                                  *)

\* There is no script before script_new(), and one while the image is read.
ScriptInv ==
    /\ stage \in {"start", "detected", "atags", "script"} => script = NULL
    /\ stage = "decompile" => script # NULL

\* What the steps of main() and of the decompiler keep beside the lists.
PlainInv ==
    /\ stage \in {"start", "detected", "atags", "script", "decompile", "fex",
                  "uarts", "quirks", "kernel", "returned"}
    /\ hw \in Machines /\ bin \in Images
    /\ idOpen \in BOOLEAN /\ smp \in BOOLEAN
    /\ args \in 0 .. MaxArgs /\ uarts \in 0 .. MaxUarts
    /\ sec \in Nat /\ entry \in Nat /\ left \in Nat

WordsInv == heap_base \in Int /\ (heap_base - HeapStart) % 4 = 0

TypeInv ==
    /\ ReaderInv /\ PlainInv /\ ScriptInv /\ WordsInv /\ TreeInv
    /\ cur \in Sections \cup {NULL}

\* A step leaves the blocks where they are, or puts one more at heap_base.
Grows(size) == heap_base' = heap_base + aligned(size)

\* malloc takes a whole number of words (memory.c).
LEMMA WordsGrow ==
    ASSUME WordsInv, NEW size \in Nat, Grows(size)
    PROVE  WordsInv'
<1>1. PICK n \in Nat : aligned(size) = 4 * n
  <2>1. CASE size = 0
    BY <2>1 DEF aligned
  <2>2. CASE size # 0
    <3>1. (size - 1) \div 4 + 1 \in Nat
      BY <2>2
    <3> QED
      BY <2>2, <3>1 DEF aligned
  <2> QED
    BY <2>1, <2>2
<1> QED
  BY <1>1, TreeAssumption DEF WordsInv, Grows

\* A block that is no part of the tree leaves its shape alone.
LEMMA BlockKeepsTree ==
    ASSUME TreeInv, WordsInv, cur \in Sections \cup {NULL}, NEW size \in Nat,
           NEW x, x.len \in Nat, x.kind \in {"soc", "bytes"},
           x.kind # "bytes" => size > 0,
           Allocate(size, x), UNCHANGED <<hooks, script, cur>>
    PROVE  TreeInv' /\ WordsInv' /\ cur' \in Sections' \cup {NULL}
<1>1. PICK L : Shape(hooks, objs, script, heap_base, L)
  BY Zenon DEF TreeInv
<1>2. /\ objs' = Put(objs, heap_base, x) /\ ret' = heap_base
      /\ heap_base' = heap_base + aligned(size)
  BY AllocateStep, Zenon
<1>3. Allocated(objs, heap_base)
  BY <1>1 DEF Shape
<1>4. Shape(hooks', objs', script', heap_base', L)
  BY <1>1, BlockShape
<1>5. TreeInv'
  BY <1>2, <1>3, <1>4 DEF TreeInv, Allocated
<1>6. SectionsOf(objs') = SectionsOf(objs)
  <2>1. SectionsOf(Put(objs, heap_base, x))
           = SectionsOf(objs) \cup {a \in {heap_base} : x.kind = "section"}
    BY <1>3, PutKinds
  <2>2. {a \in {heap_base} : x.kind = "section"} = {}
    OBVIOUS
  <2> QED
    BY <1>2, <2>1, <2>2
<1> QED
  BY <1>2, <1>5, <1>6, WordsGrow DEF SectionsOf, Sections, Grows

\* The steps that build the tree.
LEMMA SectionGrows ==
    ASSUME TreeInv, WordsInv, script # NULL, NEW name,
           script_section_new(name)
    PROVE  /\ TreeInv' /\ WordsInv' /\ script' = script
           /\ ret' \in Sections'
<1>1. PICK L : Shape(hooks, objs, script, heap_base, L)
  BY Zenon DEF TreeInv
<1>2. /\ ret' = heap_base /\ script' = script
      /\ objs' = Put(objs, heap_base, SectionNamed(name))
      /\ Shape(hooks', objs', script', heap_base',
               WithLast(WithEmpty(L, heap_base + ENTRIES_HEAD), script,
                        heap_base + SECTIONS_HOOK))
  BY <1>1, NewSectionStep, Zenon
<1>3. Allocated(objs, heap_base)
  BY <1>1 DEF Shape
<1>4. TreeInv'
  BY <1>2, <1>3 DEF TreeInv, Allocated
<1>5. WordsInv'
  <2>1. Grows(SIZEOF_SECTION)
    BY DEF Grows, script_section_new, Allocate
  <2> QED
    BY <2>1, WordsGrow DEF SIZEOF_SECTION
<1>6. ret' \in Sections'
  BY <1>2 DEF Sections, Put, SectionNamed, Object
<1> QED
  BY <1>2, <1>4, <1>5, <1>6

LEMMA EntryGrows ==
    ASSUME TreeInv, WordsInv, NEW s \in Sections, NEW name, NEW c,
           Len(c.value) \in Nat,
           c.type \in {NULL_TYPE, SINGLE_WORD, STRING_TYPE, GPIO},
           script_entry_new(s, name, c)
    PROVE  /\ TreeInv' /\ WordsInv' /\ script' = script
           /\ s \in Sections'
<1>1. PICK L : Shape(hooks, objs, script, heap_base, L)
  BY Zenon DEF TreeInv
<1>2. /\ ret' = heap_base /\ script' = script
      /\ objs' = Put(objs, heap_base, EntryNamed(name, c))
      /\ Shape(hooks', objs', script', heap_base',
               WithLast(L, s + ENTRIES_HEAD, heap_base + ENTRIES_HOOK))
  BY <1>1, NewEntryStep, Zenon
<1>3. Allocated(objs, heap_base)
  BY <1>1 DEF Shape
<1>4. TreeInv'
  BY <1>2, <1>3 DEF TreeInv, Allocated
<1>5. WordsInv'
  <2>1. Grows(entry_size(c.type, Len(c.value)))
    BY DEF Grows, script_entry_new, Allocate
  <2>2. entry_size(c.type, Len(c.value)) \in Nat
    BY DEF entry_size, NULL_TYPE, SINGLE_WORD, STRING_TYPE, GPIO
  <2> QED
    BY <2>1, <2>2, WordsGrow
<1>6. s \in Sections'
  <2>1. s \in SectionsOf(objs)
    BY DEF Sections, SectionsOf
  <2>2. SectionsOf(Put(objs, heap_base, EntryNamed(name, c)))
           = SectionsOf(objs)
               \cup {a \in {heap_base} : EntryNamed(name, c).kind = "section"}
    BY <1>3, PutKinds
  <2> QED
    BY <1>2, <2>1, <2>2 DEF Sections, SectionsOf
<1> QED
  BY <1>2, <1>4, <1>5, <1>6

\* script_new() is called once, when there is no tree.
LEMMA ScriptGrows ==
    ASSUME TreeInv, WordsInv, script = NULL, cur \in Sections \cup {NULL},
           script_new, UNCHANGED cur
    PROVE  /\ TreeInv' /\ WordsInv' /\ script' # NULL
           /\ cur' \in Sections' \cup {NULL}
<1>1. PICK L : Shape(hooks, objs, script, heap_base, L)
  BY Zenon DEF TreeInv
<1>2. /\ ret' = heap_base /\ script' = heap_base
      /\ Shape(hooks', objs', script', heap_base', WithEmpty(L, heap_base))
  BY <1>1, NewScriptStep, Zenon
<1>3. heap_base \in Nat \ {0}
  BY <1>1 DEF Shape, Allocated
<1>4. TreeInv'
  BY <1>2, <1>3 DEF TreeInv
<1>5. WordsInv'
  <2>1. Grows(SIZEOF_SCRIPT)
    BY DEF Grows, script_new, Allocate
  <2> QED
    BY <2>1, WordsGrow DEF SIZEOF_SCRIPT
<1>6. SectionsOf(objs) = {} /\ cur = NULL
  BY <1>1 DEF Shape, Owned, Sections, SectionsOf
<1> QED
  BY <1>2, <1>3, <1>4, <1>5, <1>6 DEF NULL

\* The decompiler hangs each section from the tree and each entry from the
\* section it is reading (script_bin.c).
LEMMA DecompileTyped ==
    ASSUME TypeInv, HeapInv, stage = "decompile", Decompile
    PROVE  /\ TreeInv' /\ WordsInv' /\ script' = script
           /\ cur' \in Sections' \cup {NULL}
           /\ sec' \in Nat /\ entry' \in Nat /\ left' \in Nat /\ bin' = bin
<1>0. /\ TreeInv /\ WordsInv /\ script # NULL /\ ReaderInv
      /\ cur \in Sections \cup {NULL}
      /\ sec \in Nat /\ entry \in Nat /\ left \in Nat /\ ValidImage(bin)
  BY ImagesAssumption DEF TypeInv, ScriptInv, PlainInv
<1>1. CASE BeginSection
  <2>1. /\ Length(bin, SectionAt(sec)) \in Nat
        /\ SectionOff(bin, SectionAt(sec)) \in Nat
    <3>1. sec \in 0 .. SectionCount(bin) - 1
      BY <1>0, <1>1 DEF BeginSection, ValidImage
    <3> QED
      BY <1>0, <3>1 DEF ValidImage
  <2>2. PICK name : script_section_new(name)
    BY <1>1 DEF BeginSection
  <2>3. TreeInv' /\ WordsInv' /\ script' = script /\ ret' \in Sections'
    BY <1>0, <2>2, SectionGrows
  <2> QED
    BY <1>0, <1>1, <2>1, <2>3 DEF BeginSection
<1>2. CASE ReadEntry
  <2>1. /\ NextEntry /\ cur \in Sections
        /\ script_entry_new(cur, Name(bin, entry), ContentAt(bin, entry))
    BY <1>0, <1>2 DEF ReadEntry, NextEntry
  <2> DEFINE c == ContentAt(bin, entry)
             j == Length(bin, SectionAt(sec)) - left
  <2>2. c.type \in {NULL_TYPE, SINGLE_WORD, STRING_TYPE, GPIO}
    BY DEF ContentAt, Content, NULL_TYPE, SINGLE_WORD, STRING_TYPE, GPIO
  <2>3. Len(c.value) \in Nat
    <3>1. sec \in 0 .. SectionCount(bin) - 1
      BY <1>0, <2>1 DEF NextEntry, ReaderInv, ValidImage
    <3>2. /\ Length(bin, SectionAt(sec)) \in Nat
          /\ left \in 1 .. Length(bin, SectionAt(sec))
          /\ entry = EntryAt(bin, sec, j)
      BY <1>0, <2>1, <3>1 DEF NextEntry, ReaderInv, ValidImage
    <3>3. j \in 0 .. Length(bin, SectionAt(sec)) - 1
      BY <3>2
    <3> QED
      BY <1>0, <3>1, <3>2, <3>3 DEF ValidImage
  <2> HIDE DEF c
  <2>4. TreeInv' /\ WordsInv' /\ script' = script /\ cur \in Sections'
    BY <1>0, <2>1, <2>2, <2>3, EntryGrows DEF c
  <2> QED
    BY <1>0, <2>1, <2>4 DEF NextEntry, ENTRY_WORDS
<1>3. ASSUME UNCHANGED treeVars
      PROVE  TreeInv' /\ WordsInv' /\ script' = script /\ Sections' = Sections
  <2>1. TreeInv'
    BY <1>0, <1>3, InvStutter
  <2> QED
    BY <1>0, <1>3, <2>1 DEF treeVars, WordsInv, Sections
<1>4. CASE SkipEntry
  BY <1>0, <1>3, <1>4 DEF SkipEntry, NextEntry, ENTRY_WORDS
<1>5. CASE EndSection
  BY <1>0, <1>3, <1>5 DEF EndSection
<1> QED
  BY <1>1, <1>2, <1>4, <1>5 DEF Decompile

LEMMA TypeInit ==
    ASSUME Init PROVE TypeInv
<1>1. ReaderInv
  BY BootInit
<1>2. PlainInv
  <2>1. args = 0 /\ uarts = 0 /\ sec = 0 /\ entry = 0 /\ left = 0
    BY DEF Init, DecompileInit
  <2>2. args \in 0 .. MaxArgs /\ uarts \in 0 .. MaxUarts
    BY <2>1, BootAssumption
  <2>3. /\ stage = "start" /\ idOpen = FALSE /\ smp = FALSE
        /\ hw \in Machines /\ bin \in Images
    BY DEF Init
  <2> QED
    BY <2>1, <2>2, <2>3 DEF PlainInv
<1>3. ScriptInv
  BY DEF Init, TreeInit, ScriptInv
<1>4. WordsInv
  BY TreeAssumption DEF Init, TreeInit, WordsInv
<1>5. TreeInv
  BY InvInit DEF Init
<1>6. cur \in Sections \cup {NULL}
  BY DEF Init, DecompileInit
<1> QED
  BY <1>1, <1>2, <1>3, <1>4, <1>5, <1>6 DEF TypeInv

LEMMA TypeStep ==
    ASSUME TypeInv, HeapInv, [Next]_vars
    PROVE  TypeInv'
<1>1. /\ TreeInv /\ WordsInv /\ cur \in Sections \cup {NULL}
      /\ PlainInv /\ ScriptInv /\ ReaderInv
  BY DEF TypeInv
<1>2. ReaderInv'
  BY <1>1, BootStep
<1>3. /\ TreeInv' /\ WordsInv' /\ cur' \in Sections' \cup {NULL}
      /\ sec' \in Nat /\ entry' \in Nat /\ left' \in Nat /\ bin' = bin
      /\ (stage = "script" /\ stage' = "decompile" => script' # NULL)
      /\ (stage # "script" => script' = script)
  <2>1. ASSUME UNCHANGED treeVars, UNCHANGED fexVars
        PROVE  TreeInv' /\ WordsInv' /\ cur' \in Sections' \cup {NULL}
    <3>1. TreeInv'
      BY <1>1, <2>1, InvStutter
    <3> QED
      BY <1>1, <2>1, <3>1 DEF treeVars, fexVars, WordsInv, Sections
  <2>2. ASSUME NEW n \in Nat, AllocateBytes(n), UNCHANGED fexVars
        PROVE  TreeInv' /\ WordsInv' /\ cur' \in Sections' \cup {NULL}
    <3> DEFINE x == Object("bytes", "", NoContent, n)
    <3>1. x.len \in Nat /\ x.kind = "bytes"
      BY DEF Object
    <3>2. Allocate(n, x) /\ UNCHANGED <<hooks, script, cur>>
      BY <2>2 DEF AllocateBytes, fexVars
    <3> HIDE DEF x
    <3> QED
      BY <1>1, <3>1, <3>2, BlockKeepsTree
  <2>3. CASE MatchSoc
    <3> DEFINE x == Object("soc", "", NoContent, SIZEOF_SOC)
    <3>1. x.len \in Nat /\ x.kind = "soc" /\ SIZEOF_SOC \in Nat /\ SIZEOF_SOC > 0
      BY DEF Object, SIZEOF_SOC
    <3>2. Allocate(SIZEOF_SOC, x) /\ UNCHANGED <<hooks, script, cur>>
      BY <2>3 DEF MatchSoc, fexVars
    <3> HIDE DEF x
    <3>3. TreeInv' /\ WordsInv' /\ cur' \in Sections' \cup {NULL}
      BY <1>1, <3>1, <3>2, BlockKeepsTree
    <3> QED
      BY <1>1, <2>3, <3>3 DEF MatchSoc, fexVars, PlainInv
  <2>a. ASSUME AppendBootargs, UNCHANGED fexVars
        PROVE  /\ TreeInv' /\ WordsInv' /\ cur' \in Sections' \cup {NULL}
               /\ script' = script
    <3>1. \A n \in ArgSizes : n \in Nat
      BY BootAssumption
    <3>2. script' = script
      BY <2>a DEF AppendBootargs, AllocateBytes, treeVars
    <3>3. CASE UNCHANGED treeVars
      BY <2>1, <2>a, <3>2, <3>3
    <3>4. CASE \E n \in ArgSizes : AllocateBytes(n)
      BY <2>2, <2>a, <3>1, <3>2, <3>4
    <3> QED
      BY <2>a, <3>3, <3>4 DEF AppendBootargs
  <2>4. CASE AtagCmdline
    BY <1>1, <2>a, <2>4 DEF AtagCmdline, fexVars, PlainInv
  <2>5. CASE FexConsole
    BY <1>1, <2>a, <2>5 DEF FexConsole, fexVars, PlainInv
  <2>6. CASE FexUart
    <3>1. PICK n \in UartTypes : AllocateBytes(n * 16)
      BY <2>6 DEF FexUart
    <3>2. n * 16 \in Nat
      BY BootAssumption
    <3> QED
      BY <1>1, <2>2, <2>6, <3>1, <3>2 DEF FexUart, AllocateBytes, fexVars, PlainInv
  <2>7. CASE NewScriptTree
    <3>1. script = NULL /\ script_new /\ UNCHANGED cur
      BY <1>1, <2>7 DEF NewScriptTree, ScriptInv, fexVars
    <3> QED
      BY <1>1, <2>7, <3>1, ScriptGrows DEF NewScriptTree, fexVars, PlainInv
  <2>8. CASE DecompileStep
    BY <1>1, <2>8, DecompileTyped DEF DecompileStep
  <2>9. CASE UnknownSoc \/ OpenTree \/ AtagsDone \/ DecompileDone \/ FexDone
               \/ FexFails \/ StartKernel
    <3>1. /\ UNCHANGED treeVars /\ UNCHANGED fexVars
          /\ ~(stage = "script" /\ stage' = "decompile")
      BY <2>9 DEF UnknownSoc, OpenTree, AtagsDone, DecompileDone, FexDone,
                  FexFails, StartKernel
    <3> QED
      BY <1>1, <2>1, <3>1 DEF fexVars, treeVars, PlainInv
  <2>10. CASE UNCHANGED vars
    BY <1>1, <2>1, <2>10 DEF vars, bootVars, fexVars, treeVars, PlainInv
  <2> QED
    BY <2>3, <2>4, <2>5, <2>6, <2>7, <2>8, <2>9, <2>10 DEF Next
<1>4. PlainInv'
  <2>1. idOpen' \in BOOLEAN /\ smp' \in BOOLEAN /\ hw' = hw
    BY <1>1 DEF PlainInv, Next, vars, bootVars, MatchSoc, UnknownSoc, OpenTree,
          AtagCmdline, AtagsDone, NewScriptTree, DecompileStep, DecompileDone,
          FexConsole, FexUart, FexDone, FexFails, StartKernel
  <2>3. args' \in 0 .. MaxArgs
    <3>1. CASE AtagCmdline
      BY <1>1, <3>1, BootAssumption DEF PlainInv, AtagCmdline
    <3>2. CASE ~AtagCmdline
      BY <1>1, <3>2 DEF PlainInv, Next, vars, bootVars, MatchSoc, UnknownSoc, OpenTree,
          AtagCmdline, AtagsDone, NewScriptTree, DecompileStep, DecompileDone,
          FexConsole, FexUart, FexDone, FexFails, StartKernel
    <3> QED
      BY <3>1, <3>2
  <2>4. uarts' \in 0 .. MaxUarts
    <3>1. CASE FexUart
      BY <1>1, <3>1, BootAssumption DEF PlainInv, FexUart
    <3>2. CASE ~FexUart
      BY <1>1, <3>2 DEF PlainInv, Next, vars, bootVars, MatchSoc, UnknownSoc, OpenTree,
          AtagCmdline, AtagsDone, NewScriptTree, DecompileStep, DecompileDone,
          FexConsole, FexUart, FexDone, FexFails, StartKernel
    <3> QED
      BY <3>1, <3>2
  <2>5. stage' \in {"start", "detected", "atags", "script", "decompile", "fex",
                    "uarts", "quirks", "kernel", "returned"}
    BY <1>1 DEF PlainInv, Next, vars, bootVars, MatchSoc, UnknownSoc, OpenTree,
          AtagCmdline, AtagsDone, NewScriptTree, DecompileStep, DecompileDone,
          FexConsole, FexUart, FexDone, FexFails, StartKernel
  <2> QED
    BY <1>1, <1>3, <2>1, <2>3, <2>4, <2>5 DEF PlainInv
<1>5. ScriptInv'
  <2>1. /\ stage' \in {"start", "detected", "atags", "script"}
              => stage \in {"start", "detected", "atags", "script"}
        /\ stage' = "decompile" => stage \in {"script", "decompile"}
    BY DEF Next, vars, bootVars, MatchSoc, UnknownSoc, OpenTree,
          AtagCmdline, AtagsDone, NewScriptTree, DecompileStep, DecompileDone,
          FexConsole, FexUart, FexDone, FexFails, StartKernel
  <2>2. stage = "script" => stage' = "decompile" \/ script' = script
    BY DEF vars, treeVars, Next, bootVars, MatchSoc, UnknownSoc, OpenTree,
          AtagCmdline, AtagsDone, NewScriptTree, DecompileStep, DecompileDone,
          FexConsole, FexUart, FexDone, FexFails, StartKernel
  <2> QED
    BY <1>1, <1>3, <2>1, <2>2 DEF ScriptInv
<1> QED
  BY <1>2, <1>3, <1>4, <1>5 DEF TypeInv

\* Every variable of the loader keeps its type, from detection to the kernel:
\* the script tree is well formed whenever the fixups may read it, the
\* decompiler hangs entries only from a section that is there, and heap_base
\* moves by whole words (main.c, script_bin.c, memory.c).
THEOREM BootTypeOK == Spec => []TypeOK
<1>1. TypeInv => TypeOK
  BY InvTyped DEF TypeInv, TypeOK, PlainInv, WordsInv
<1> QED
  BY <1>1, TypeInit, TypeStep, BootInit, BootStep, PTL DEF Spec

\* While the decompiler builds the script among the blocks of main() and of
\* the fixups, its lists stay circular and doubly linked, with each section
\* and entry on exactly one.
THEOREM BootListsConsistent == Spec => []ListsConsistent
<1>1. TypeInv => ListsConsistent
  BY InvConsistent DEF TypeInv
<1> QED
  BY <1>1, TypeInit, TypeStep, BootInit, BootStep, PTL DEF Spec
-----------------------------------------------------------------------------
(* The script is what the image says, for images in the format: what is    *)
(* written to a new entry is what the image's entry says, and the sections *)
(* and entries read so far are those of the image, in its order.           *)

\* A string ends where the words it was given do, or at a NUL before that: m
\* is the first place where the loop of decompile_section() may stop.
EndsAt(b, v, bytes, m) ==
    /\ m \in 0 .. bytes
    /\ m # bytes => ByteAt(b, v, m) = 0
    /\ \A p \in 0 .. m - 1 : ByteAt(b, v, p) # 0

LEMMA StringEnds ==
    ASSUME NEW b, NEW v, NEW bytes \in Nat
    PROVE  \E m : EndsAt(b, v, bytes, m)
<1> DEFINE T == {p \in Nat : ByteAt(b, v, p) = 0 \/ p = bytes}
<1>1. bytes \in T /\ T \subseteq Nat
  OBVIOUS
<1>2. PICK m \in T : \A p \in T : m <= p
  <2> HIDE DEF T
  <2> QED
    BY <1>1, NatLeast, Zenon
<1>3. m \in 0 .. bytes
  BY <1>1, <1>2
<1>4. m # bytes => ByteAt(b, v, m) = 0
  BY <1>2
<1>5. ASSUME NEW p \in 0 .. m - 1 PROVE ByteAt(b, v, p) # 0
  <2>1. p \in Nat /\ p < m
    BY <1>3
  <2>2. p \notin T
    BY <1>2, <1>3, <2>1
  <2> QED
    BY <2>1, <2>2
<1> QED
  BY <1>3, <1>4, <1>5 DEF EndsAt

\* The loop stops there.  It would go on past the words of the string only if
\* it started past their end, and then stop where the image ends.
LEMMA StringSought ==
    ASSUME NEW b, Len(b.words) \in Nat, NEW v \in Nat, NEW bytes \in Nat,
           NEW m, EndsAt(b, v, bytes, m)
    PROVE  string_len(b, v, bytes) = m
<1> DEFINE Stop == {p \in Nat : ByteAt(b, v, p) = 0 \/ p = bytes}
           size == 4 * Len(b.words)
           go   == [p \in Nat |-> p + 1]
           out  == [p \in Nat |-> p]
           rank == [p \in Nat |-> IF p < size THEN size - p ELSE 0]
           seek == CHOOSE seek : seek = [p \in Nat |->
                      IF ByteAt(b, v, p) = 0 \/ p = bytes THEN p ELSE seek[p + 1]]
<1>1. size \in Nat /\ go \in [Nat -> Nat] /\ out \in [Nat -> Nat]
      /\ rank \in [Nat -> Nat]
  OBVIOUS
<1>2. ASSUME NEW p \in Nat, p \notin Stop PROVE rank[go[p]] < rank[p]
  <2>1. p < size
    <3> SUFFICES ASSUME p >= size PROVE FALSE
      BY <1>1
    <3>1. v + p \div 4 >= Len(b.words)
      OBVIOUS
    <3> QED
      BY <1>2, <3>1 DEF ByteAt
  <2> HIDE DEF size
  <2> QED
    BY <1>1, <2>1
<1>3. \E f : Loop(f, Nat, Stop, out, go)
  <2> HIDE DEF Stop, go, out, rank
  <2> QED
    BY <1>1, <1>2, LoopExists, Zenon
<1>4. \A p \in Nat : /\ p \in Stop <=> (ByteAt(b, v, p) = 0 \/ p = bytes)
                     /\ out[p] = p /\ go[p] = p + 1
  OBVIOUS
<1> HIDE DEF Stop, go, out, rank, size
<1>5. PICK f : f = [p \in Nat |-> IF p \in Stop THEN out[p] ELSE f[go[p]]]
  BY <1>3, Zenon DEF Loop
<1>6. f = [p \in Nat |->
             IF ByteAt(b, v, p) = 0 \/ p = bytes THEN p ELSE f[p + 1]]
  BY <1>4, <1>5, Zenon
<1>7. seek = [p \in Nat |->
                 IF ByteAt(b, v, p) = 0 \/ p = bytes THEN p ELSE seek[p + 1]]
  BY <1>6, Zenon
<1>8. string_len(b, v, bytes) = seek[0]
  BY Zenon DEF string_len
<1> HIDE DEF seek
<1>9. \A p \in Nat : seek[p] =
         IF ByteAt(b, v, p) = 0 \/ p = bytes THEN p ELSE seek[p + 1]
  BY <1>7
<1>10. m \in Nat /\ m <= bytes
  BY DEF EndsAt
<1> DEFINE Back == {d \in Nat : d <= m => seek[m - d] = m}
<1>11. 0 \in Back
  <2>1. seek[m] = m
    BY <1>9, <1>10 DEF EndsAt
  <2> QED
    BY <1>10, <2>1
<1>12. ASSUME NEW d \in Nat, d \in Back PROVE d + 1 \in Back
  <2> SUFFICES ASSUME d + 1 <= m PROVE seek[m - (d + 1)] = m
    OBVIOUS
  <2>1. m - (d + 1) \in 0 .. m - 1 /\ (m - (d + 1)) + 1 = m - d
    BY <1>10
  <2>2. ByteAt(b, v, m - (d + 1)) # 0 /\ m - (d + 1) # bytes
    BY <1>10, <2>1 DEF EndsAt
  <2>3. seek[m - (d + 1)] = seek[m - d]
    BY <1>9, <2>1, <2>2
  <2>4. seek[m - d] = m
    BY <1>12, <1>10
  <2> QED
    BY <2>3, <2>4
<1>13. m \in Back
  <2> HIDE DEF Back
  <2> QED
    BY <1>10, <1>11, <1>12, NatSetInduction
<1>14. seek[0] = m
  BY <1>10, <1>13
<1> QED
  BY <1>8, <1>14

\* The first m bytes of the image from word v on.
Chars(b, v, m) == [k \in 1 .. m |-> ByteAt(b, v, k - 1)]

\* The value of a string is what stands in front of that place.
LEMMA StringRead ==
    ASSUME NEW b, Len(b.words) \in Nat, NEW v \in Nat, NEW n \in Nat,
           v + n <= Len(b.words), NEW m, EndsAt(b, v, n * 4, m)
    PROVE  StringValue(b, v, n) = Chars(b, v, m)
<1> DEFINE byte(k) == Byte(WordAt(b, v + (k - 1) \div 4), (k - 1) % 4)
           plain   == {k \in 0 .. 4 * n : \A i \in 1 .. k : byte(i) # 0}
<1>1. \A i \in 1 .. 4 * n : byte(i) = ByteAt(b, v, i - 1)
  <2> TAKE i \in 1 .. 4 * n
  <2>1. (i - 1) \div 4 < n
    OBVIOUS
  <2>2. (i - 1) \div 4 \in Nat
    OBVIOUS
  <2>3. ~(v + (i - 1) \div 4 >= Len(b.words))
    BY <2>1, <2>2
  <2> QED
    BY <2>3, Zenon DEF ByteAt
<1>2. m \in 0 .. 4 * n
  BY DEF EndsAt
<1> HIDE DEF byte
<1>3. ASSUME NEW k \in 0 .. 4 * n PROVE (\A i \in 1 .. k : byte(i) # 0) <=> k <= m
  <2>1. CASE k <= m
    <3>1. ASSUME NEW i \in 1 .. k PROVE byte(i) # 0
      <4>1. i \in 1 .. 4 * n /\ i - 1 \in 0 .. m - 1
        BY <1>2, <2>1
      <4> QED
        BY <1>1, <4>1 DEF EndsAt
    <3> QED
      BY <2>1, <3>1
  <2>2. CASE ~(k <= m)
    <3>1. m + 1 \in 1 .. k /\ m + 1 \in 1 .. 4 * n /\ (m + 1) - 1 = m /\ m # n * 4
      BY <1>2, <2>2
    <3>2. byte(m + 1) = 0
      BY <1>1, <3>1 DEF EndsAt
    <3> QED
      BY <2>2, <3>1, <3>2
  <2> QED
    BY <2>1, <2>2
<1>4. plain = 0 .. m
  BY <1>2, <1>3
<1>5. (CHOOSE k \in plain : \A j \in plain : j <= k) = m
  <2> HIDE DEF plain
  <2>1. \E k \in plain : \A j \in plain : j <= k
    BY <1>2, <1>4
  <2> DEFINE c == CHOOSE k \in plain : \A j \in plain : j <= k
  <2>2. c \in plain /\ \A j \in plain : j <= c
    BY <2>1, Zenon
  <2> HIDE DEF c
  <2>3. c = m
    BY <1>2, <1>4, <2>2
  <2> QED
    BY <2>3 DEF c
<1>6. StringValue(b, v, n)
        = [i \in 1 .. CHOOSE k \in plain : \A j \in plain : j <= k |-> byte(i)]
  BY Zenon DEF StringValue, byte
<1>7. StringValue(b, v, n) = [i \in 1 .. m |-> byte(i)]
  BY <1>5, <1>6, Zenon
<1>8. \A i \in 1 .. m : byte(i) = ByteAt(b, v, i - 1)
  BY <1>1, <1>2
<1> QED
  BY <1>7, <1>8, Zenon DEF Chars

\* The n words of w after the first v.
Part(w, v, n) == [k \in 1 .. n |-> w[v + k]]

\* What SubSeq() takes of an image.
LEMMA PartOfSeq ==
    ASSUME NEW w, w \in Seq(Int), NEW v \in Nat, NEW n \in Nat, v + n <= Len(w)
    PROVE  SubSeq(w, v + 1, v + n) = Part(w, v, n)
<1>1. PICK l \in Nat : Len(w) = l
  OBVIOUS
<1>2. PICK p : p = SubSeq(w, v + 1, v + n)
  OBVIOUS
<1>3. p \in Seq(Int) /\ Len(p) = n
  BY <1>1, <1>2
<1>4. \A k \in 1 .. n : p[k] = w[v + k]
  <2> TAKE k \in 1 .. n
  <2>1. p[k] = w[k + (v + 1) - 1]
    BY <1>1, <1>2
  <2>2. k + (v + 1) - 1 = v + k
    BY ONLY v \in Nat, k \in 1 .. n
  <2> QED
    BY <2>1, <2>2, Zenon
<1>5. p = [k \in 1 .. n |-> p[k]]
  BY ONLY <1>3
<1> QED
  BY <1>2, <1>4, <1>5, Zenon DEF Part

\* What decompile_section() makes of an entry of a known type is what it says.
LEMMA EntryContent ==
    ASSUME NEW b, b.words \in Seq(Int), NEW at, ValueInFormat(b, at),
           Type(b, at) \in Known
    PROVE  EntrySays(b, at) = [name |-> cut_name(Name(b, at)),
                               content |-> ContentAt(b, at)]
<1> DEFINE v == EntryOff(b, at)
           n == WordCount(b, at)
           value == CASE Type(b, at) = STRING_TYPE -> StringValue(b, v, n)
                      [] Type(b, at) = NULL_TYPE -> <<>>
                      [] OTHER -> SubSeq(b.words, v + 1, v + n)
<1>1. EntrySays(b, at) = [name |-> cut_name(Name(b, at)),
                          content |-> Content(Type(b, at), value)]
  BY Zenon DEF EntrySays
<1>2. \/ Type(b, at) = SINGLE_WORD \/ Type(b, at) = STRING_TYPE
      \/ Type(b, at) = GPIO \/ Type(b, at) = NULL_TYPE
  BY DEF Known
<1>3. /\ SINGLE_WORD # STRING_TYPE /\ SINGLE_WORD # GPIO /\ SINGLE_WORD # NULL_TYPE
      /\ STRING_TYPE # GPIO /\ STRING_TYPE # NULL_TYPE /\ GPIO # NULL_TYPE
  BY DEF SINGLE_WORD, STRING_TYPE, GPIO, NULL_TYPE
<1>4. Type(b, at) # NULL_TYPE =>
         /\ v \in Nat /\ n \in Nat /\ v + n <= Len(b.words)
         /\ Type(b, at) = SINGLE_WORD => n = 1
         /\ Type(b, at) = GPIO => n = GPIO_WORDS
  BY DEF ValueInFormat
<1> HIDE DEF v, n
<1>5. ASSUME Type(b, at) # NULL_TYPE
      PROVE  SubSeq(b.words, v + 1, v + n) = Numbers(b, v, n)
  <2>1. /\ b.words \in Seq(Int) /\ v \in Nat /\ n \in Nat
        /\ v + n <= Len(b.words)
    BY <1>4, <1>5
  <2>2. SubSeq(b.words, v + 1, v + n) = Part(b.words, v, n)
    BY <2>1, PartOfSeq
  <2>3. \A k \in 1 .. n : WordAt(b, v + k - 1) = b.words[v + k]
    <3> TAKE k \in 1 .. n
    <3>1. (v + k - 1) + 1 = v + k
      BY ONLY <2>1, k \in 1 .. n
    <3> QED
      BY <3>1, Zenon DEF WordAt
  <2> QED
    BY <2>2, <2>3, Zenon DEF Numbers, Part
<1>6. CASE Type(b, at) = SINGLE_WORD
  <2>1. value = Numbers(b, v, 1)
    BY <1>3, <1>4, <1>5, <1>6
  <2>2. ContentAt(b, at) = Content(SINGLE_WORD, Numbers(b, v, 1))
    BY <1>3, <1>6 DEF ContentAt, v
  <2> QED
    BY <1>1, <1>6, <2>1, <2>2, Zenon
<1>7. CASE Type(b, at) = GPIO
  <2>1. value = Numbers(b, v, GPIO_WORDS)
    BY <1>3, <1>4, <1>5, <1>7
  <2>2. ContentAt(b, at) = Content(GPIO, Numbers(b, v, GPIO_WORDS))
    BY <1>3, <1>7 DEF ContentAt, v
  <2> QED
    BY <1>1, <1>7, <2>1, <2>2, Zenon
<1>8. CASE Type(b, at) = NULL_TYPE
  <2>1. value = <<>>
    BY <1>3, <1>8
  <2>2. ContentAt(b, at) = Content(NULL_TYPE, <<>>)
    BY <1>3, <1>8 DEF ContentAt
  <2> QED
    BY <1>1, <1>8, <2>1, <2>2, Zenon
<1>9. CASE Type(b, at) = STRING_TYPE
  <2>0. /\ Len(b.words) \in Nat /\ v \in Nat /\ n \in Nat /\ n * 4 \in Nat
        /\ v + n <= Len(b.words)
    BY <1>3, <1>4, <1>9
  <2>1. PICK m : EndsAt(b, v, n * 4, m)
    BY <2>0, StringEnds
  <2>2. string_len(b, v, n * 4) = m
    BY <2>0, <2>1, StringSought
  <2>3. value = [k \in 1 .. m |-> ByteAt(b, v, k - 1)]
    <3>1. value = StringValue(b, v, n)
      BY <1>3, <1>9
    <3>2. StringValue(b, v, n) = Chars(b, v, m)
      BY <2>0, <2>1, StringRead
    <3> QED
      BY <3>1, <3>2, Zenon DEF Chars
  <2>4. ContentAt(b, at)
          = Content(STRING_TYPE, [k \in 1 .. string_len(b, v, n * 4)
                                     |-> ByteAt(b, v, k - 1)])
    BY <1>3, <1>9 DEF ContentAt, v, n
  <2> QED
    BY <1>1, <1>9, <2>2, <2>3, <2>4, Zenon
<1> QED
  BY <1>2, <1>6, <1>7, <1>8, <1>9

\* One more number at the end of a set keeps the ranks of the others.
LEMMA RankedGrows ==
    ASSUME NEW n \in Nat, NEW S, S \subseteq 0 .. n - 1, NEW T, T = S \cup {n}
    PROVE  /\ Cardinality(S) \in Nat /\ Cardinality(T) = Cardinality(S) + 1
           /\ \A k \in 1 .. Cardinality(S) : Ranked(T, k) = Ranked(S, k)
           /\ Ranked(T, Cardinality(S) + 1) = n
<1> DEFINE below(U, i) == {l \in U : l <= i}
           at(U, k) == {i \in U : Cardinality(below(U, i)) = k}
<1>1. IsFiniteSet(S)
  <2>1. IsFiniteSet(0 .. n - 1)
    BY FS_Interval
  <2> QED
    BY <2>1, FS_Subset
<1>2. PICK c \in Nat : Cardinality(S) = c
  BY <1>1, FS_CardinalityType
<1>3. Cardinality(T) = c + 1
  <2>1. n \notin S
    OBVIOUS
  <2> QED
    BY <1>1, <1>2, <2>1, FS_AddElement
<1>4. \A i \in S : below(T, i) = below(S, i)
  OBVIOUS
<1>5. below(T, n) = T
  <2>1. \A i \in T : i <= n
    OBVIOUS
  <2> HIDE DEF at
  <2> QED
    BY <2>1
<1>6. ASSUME NEW i \in S PROVE Cardinality(below(S, i)) <= c
  <2>1. below(S, i) \subseteq S
    OBVIOUS
  <2> HIDE DEF below
  <2> QED
    BY <1>1, <1>2, <2>1, FS_Subset
<1>b. ASSUME NEW i \in S PROVE Cardinality(below(S, i)) \in Nat
  <2>1. below(S, i) \subseteq S
    OBVIOUS
  <2> HIDE DEF below
  <2> QED
    BY <1>1, <2>1, FS_Subset, FS_CardinalityType
<1> HIDE DEF below
<1>7. ASSUME NEW k \in 1 .. c PROVE at(T, k) = at(S, k)
  <2>1. \A i \in S : i \in at(T, k) <=> i \in at(S, k)
    BY <1>4
  <2>2. n \notin at(T, k)
    BY <1>3, <1>5
  <2>3. n \notin at(S, k)
    OBVIOUS
  <2> QED
    BY <2>1, <2>2, <2>3
<1>8. at(T, c + 1) = {n}
  <2>1. \A i \in S : i \notin at(T, c + 1)
    BY <1>4, <1>6, <1>b
  <2>2. n \in at(T, c + 1)
    BY <1>3, <1>5
  <2> QED
    BY <2>1, <2>2
<1>9. \A U, k : Ranked(U, k) = CHOOSE j \in at(U, k) : TRUE
  BY Zenon DEF Ranked, below
<1> HIDE DEF at
<1>10. \A k \in 1 .. c : Ranked(T, k) = Ranked(S, k)
  BY <1>7, <1>9, Zenon
<1>11. Ranked(T, c + 1) = n
  <2>1. Ranked(T, c + 1) = CHOOSE j \in {n} : TRUE
    BY <1>8, <1>9, Zenon
  <2>2. (CHOOSE j \in {n} : TRUE) \in {n}
    BY Zenon
  <2> QED
    BY <2>1, <2>2
<1> QED
  BY <1>2, <1>3, <1>10, <1>11

\* Reading one more entry.
LEMMA EntriesGrow ==
    ASSUME NEW b, NEW at, NEW n \in Nat
    PROVE  LET item == SectionOff(b, at) + ENTRY_WORDS * n
           IN  EntriesSay(b, at, n + 1) =
                 IF Type(b, item) \in Known
                 THEN Append(EntriesSay(b, at, n), EntrySays(b, item))
                 ELSE EntriesSay(b, at, n)
<1> DEFINE item(j) == SectionOff(b, at) + ENTRY_WORDS * j
           known(m) == {j \in 0 .. m - 1 : Type(b, item(j)) \in Known}
           S == known(n)
           T == known(n + 1)
<1>0. \A m : EntriesSay(b, at, m)
        = [k \in 1 .. Cardinality(known(m)) |-> EntrySays(b, item(Ranked(known(m), k)))]
  BY Zenon DEF EntriesSay
<1>1. CASE Type(b, item(n)) \in Known
  <2>1. T = S \cup {n} /\ S \subseteq 0 .. n - 1
    <3> HIDE DEF item
    <3> QED
      BY <1>1
  <2> HIDE DEF known, item
  <2>2. /\ Cardinality(S) \in Nat /\ Cardinality(T) = Cardinality(S) + 1
        /\ \A k \in 1 .. Cardinality(S) : Ranked(T, k) = Ranked(S, k)
        /\ Ranked(T, Cardinality(S) + 1) = n
    BY <2>1, RankedGrows
  <2> DEFINE f == EntriesSay(b, at, n)
             g == EntriesSay(b, at, n + 1)
  <2>3. PICK c \in Nat : Cardinality(S) = c
    BY <2>2
  <2>4. /\ f = [k \in 1 .. c |-> EntrySays(b, item(Ranked(S, k)))]
        /\ g = [k \in 1 .. c + 1 |-> EntrySays(b, item(Ranked(T, k)))]
    BY <1>0, <2>2, <2>3, Zenon
  <2> HIDE DEF f, g
  <2>5. Items(f, c) /\ Items(g, c + 1)
    BY <2>4 DEF Items
  <2>6. g[c + 1] = EntrySays(b, item(n))
    BY <2>2, <2>3, <2>4
  <2>7. \A k \in 1 .. c : g[k] = f[k]
    BY <2>2, <2>3, <2>4
  <2>8. g = Append(f, EntrySays(b, item(n)))
    BY <2>5, <2>6, <2>7, AppendFun
  <2> QED
    BY <1>1, <2>8 DEF f, g, item
<1>2. CASE Type(b, item(n)) \notin Known
  <2>1. T = S
    <3> HIDE DEF item
    <3> QED
      BY <1>2
  <2> HIDE DEF known
  <2>2. EntriesSay(b, at, n + 1) = EntriesSay(b, at, n)
    BY <1>0, <2>1, Zenon
  <2> QED
    BY <1>2, <2>2
<1> QED
  BY <1>1, <1>2

LEMMA EntriesNone ==
    ASSUME NEW b, NEW at PROVE EntriesSay(b, at, 0) = <<>>
<1> DEFINE item(j) == SectionOff(b, at) + ENTRY_WORDS * j
           known(m) == {j \in 0 .. m - 1 : Type(b, item(j)) \in Known}
<1>1. EntriesSay(b, at, 0)
        = [k \in 1 .. Cardinality(known(0)) |-> EntrySays(b, item(Ranked(known(0), k)))]
  BY Zenon DEF EntriesSay
<1>2. known(0) = {}
  OBVIOUS
<1> HIDE DEF known
<1>3. Cardinality(known(0)) = 0
  BY <1>2, FS_EmptySet
<1> QED
  BY <1>1, <1>3

\* A script with one more section, and with one more entry in a section.
LEMMA SectionAdded ==
    ASSUME NEW S, IsScript(S), NEW x, NEW T, T = Append(S, x)
    PROVE  /\ Len(T) = Len(S) + 1 /\ T[Len(S) + 1] = x
           /\ \A i \in 1 .. Len(S) : T[i] = S[i]
<1>1. PICK m \in Nat : Len(S) = m /\ Items(S, m)
  BY DEF IsScript
<1> DEFINE R == {S[i] : i \in 1 .. m} \cup {x}
<1>2. x \in R /\ \A i \in 1 .. m : S[i] \in R
  OBVIOUS
<1> HIDE DEF R
<1>3. S \in [1 .. m -> R]
  BY <1>1, <1>2 DEF Items
<1>4. S \in Seq(R)
  BY <1>3
<1> QED
  BY <1>1, <1>2, <1>4

LEMMA EntryAdded ==
    ASSUME NEW S, IsScript(S), NEW i \in 1 .. Len(S), NEW x,
           NEW T, T = WithEntry(S, i, x)
    PROVE  /\ Len(T) = Len(S)
           /\ \A j \in 1 .. Len(S) : j # i => T[j] = S[j]
           /\ T[i].handle = S[i].handle /\ T[i].name = S[i].name
           /\ EntriesRead(T[i].entries)
                = Append(EntriesRead(S[i].entries), EntryRead(x))
<1>1. PICK m \in Nat : Len(S) = m /\ Items(S, m)
  BY DEF IsScript
<1> DEFINE es == S[i].entries
           X  == Append(es, x)
<1>2. PICK n \in Nat : Len(es) = n /\ Items(es, n)
  BY DEF IsScript
<1>3. S[i] = [handle |-> S[i].handle, name |-> S[i].name, entries |-> es]
  BY DEF IsScript
<1>4. DOMAIN S = 1 .. m
  BY <1>1 DEF Items
<1>5. /\ DOMAIN T = 1 .. m /\ T[i] = [S[i] EXCEPT !.entries = X]
      /\ \A j \in 1 .. m : j # i => T[j] = S[j]
  BY <1>1, <1>4 DEF WithEntry
<1>6. Len(T) = m
  <2>1. T = [j \in 1 .. m |-> T[j]]
    BY <1>4 DEF WithEntry
  <2> QED
    BY <2>1
<1> HIDE DEF es, X
<1>7. T[i].handle = S[i].handle /\ T[i].name = S[i].name /\ T[i].entries = X
  BY <1>3, <1>5
<1> DEFINE f == EntriesRead(es)
           g == EntriesRead(X)
<1>8. DOMAIN es = 1 .. n /\ f = [j \in 1 .. n |-> EntryRead(es[j])]
  <2>1. DOMAIN es = 1 .. n
    BY <1>2 DEF Items
  <2> QED
    BY <2>1, Zenon DEF EntriesRead
<1>9. /\ DOMAIN X = 1 .. n + 1 /\ X[n + 1] = x
      /\ \A j \in 1 .. n : X[j] = es[j]
  <2> DEFINE R == {es[j] : j \in 1 .. n} \cup {x}
  <2>1. x \in R /\ \A j \in 1 .. n : es[j] \in R
    OBVIOUS
  <2> HIDE DEF R
  <2>2. es \in [1 .. n -> R]
    BY <1>2, <2>1 DEF Items
  <2>3. es \in Seq(R)
    BY <2>2
  <2> QED
    BY <1>2, <2>1, <2>3 DEF X
<1>10. g = [j \in 1 .. n + 1 |-> EntryRead(X[j])]
  BY <1>9, Zenon DEF EntriesRead
<1> HIDE DEF f, g
<1>11. Items(f, n) /\ Items(g, n + 1)
  BY <1>8, <1>10 DEF Items
<1>12. g[n + 1] = EntryRead(x) /\ \A j \in 1 .. n : g[j] = f[j]
  BY <1>8, <1>9, <1>10
<1>13. g = Append(f, EntryRead(x))
  BY <1>11, <1>12, AppendFun
<1> QED
  BY <1>1, <1>5, <1>6, <1>7, <1>13, Zenon DEF f, g, es

-----------------------------------------------------------------------------
\* How much of the image the script S says: the sections read, and of the one
\* being read the entries gone through.
ReadSoFar(S) ==
    /\ sec <= SectionCount(bin)
    /\ Len(S) = IF cur = NULL THEN sec ELSE sec + 1
    /\ \A i \in 1 .. sec : SectionRead(S[i]) = SectionSays(bin, SectionAt(i - 1))
    /\ cur # NULL =>
          /\ S[sec + 1].handle = cur
          /\ SectionRead(S[sec + 1]) =
                [name |-> cut_name(Name(bin, SectionAt(sec))),
                 entries |-> EntriesSay(bin, SectionAt(sec),
                                        Length(bin, SectionAt(sec)) - left)]

\* The sections come one after the other, and none is missing when the
\* decompiler is done.
ReadInv ==
    /\ stage \in {"start", "detected", "atags", "script"} => cur = NULL /\ sec = 0
    /\ stage = "decompile" => ReadSoFar(ScriptOf)
    /\ Read => ReadSoFar(ScriptOf) /\ cur = NULL /\ sec = SectionCount(bin)

\* One step of the decompiler (script_bin.c).
LEMMA ReadStep ==
    ASSUME TypeInv, stage = "decompile", ReadSoFar(ScriptOf), Decompile
    PROVE  ReadSoFar(ScriptOf)'
<1> DEFINE S == ScriptOf
           T == ScriptOf'
<1>0. /\ TreeInv /\ script # NULL /\ ReaderInv /\ cur \in Sections \cup {NULL}
      /\ sec \in Nat /\ bin \in Images /\ ValidImage(bin) /\ InFormat(bin)
  BY ImagesAssumption, FormatAssumption DEF TypeInv, ScriptInv, PlainInv
<1>a. PICK L : Shape(hooks, objs, script, heap_base, L)
  BY <1>0, Zenon DEF TreeInv
<1>1. IsScript(S)
  BY <1>a, ShowsScript
<1>2. /\ sec <= SectionCount(bin) /\ SectionCount(bin) \in Nat
      /\ Len(S) = IF cur = NULL THEN sec ELSE sec + 1
      /\ \A i \in 1 .. sec : SectionRead(S[i]) = SectionSays(bin, SectionAt(i - 1))
  BY <1>0 DEF ReadSoFar, ValidImage
<1> DEFINE at == SectionAt(sec)
<1>3. ASSUME cur # NULL
      PROVE  /\ S[sec + 1].handle = cur
             /\ SectionRead(S[sec + 1]) =
                   [name |-> cut_name(Name(bin, at)),
                    entries |-> EntriesSay(bin, at, Length(bin, at) - left)]
  BY <1>3 DEF ReadSoFar
<1> HIDE DEF S, T
<1>4. CASE BeginSection
  <2> DEFINE x == [handle |-> ret', name |-> cut_name(Name(bin, at)),
                   entries |-> <<>>]
  <2>1. /\ cur = NULL /\ sec < SectionCount(bin) /\ cur' = ret'
        /\ script_section_new(Name(bin, at))
        /\ left' = Length(bin, at) /\ bin' = bin /\ sec' = sec
    BY <1>4 DEF BeginSection
  <2>2. T = Append(S, x)
    BY <1>0, <1>a, <2>1, ShowsNewSection, Zenon DEF S, T
  <2> HIDE DEF x
  <2>3. /\ Len(T) = sec + 1 /\ T[sec + 1] = x
        /\ \A i \in 1 .. sec : T[i] = S[i]
    <3>1. Len(S) = sec
      BY <1>2, <2>1
    <3> QED
      BY <1>1, <2>2, <3>1, SectionAdded
  <2>4. cur' # NULL
    <3>1. ret' = heap_base
      BY <2>1 DEF script_section_new, Allocate
    <3> QED
      BY <1>a, <2>1, <3>1 DEF Shape, Allocated, NULL
  <2>5. Length(bin, at) - left' = 0
    <3>1. Length(bin, at) \in Nat
      BY <1>0, <2>1 DEF ValidImage
    <3> QED
      BY <2>1, <3>1
  <2>6. SectionRead(x) = [name |-> cut_name(Name(bin, at)), entries |-> <<>>]
    BY DEF SectionRead, EntriesRead, x
  <2>7. EntriesSay(bin, at, Length(bin, at) - left') = <<>>
    BY <2>5, EntriesNone
  <2>8. x.handle = cur'
    BY <2>1 DEF x
  <2>9. \A i \in 1 .. sec : SectionRead(T[i]) = SectionSays(bin, SectionAt(i - 1))
    BY <1>2, <2>3, Zenon
  <2> QED
    BY <1>2, <2>1, <2>3, <2>4, <2>6, <2>7, <2>8, <2>9 DEF ReadSoFar, T
<1>5. ASSUME NextEntry
      PROVE  LET n == Length(bin, at) - left
             IN  /\ n \in Nat /\ entry = SectionOff(bin, at) + ENTRY_WORDS * n
                 /\ Length(bin, at) - left' = n + 1
                 /\ cur # NULL /\ cur' = cur /\ bin' = bin /\ sec' = sec
                 /\ sec \in 0 .. SectionCount(bin) - 1
                 /\ n \in 0 .. Length(bin, at) - 1
                 /\ entry = EntryAt(bin, sec, n)
  <2>1. /\ cur # NULL /\ left # 0 /\ left' = left - 1
        /\ cur' = cur /\ bin' = bin /\ sec' = sec
    BY <1>5 DEF NextEntry
  <2>2. /\ sec \in 0 .. SectionCount(bin) - 1 /\ Length(bin, at) \in Nat
        /\ left \in 0 .. Length(bin, at)
        /\ entry = EntryAt(bin, sec, Length(bin, at) - left)
    BY <1>0, <1>2, <2>1 DEF ReaderInv, ValidImage
  <2>3. /\ Length(bin, at) - left \in 0 .. Length(bin, at) - 1
        /\ Length(bin, at) - left' = (Length(bin, at) - left) + 1
    BY <2>1, <2>2
  <2> QED
    BY <2>1, <2>2, <2>3 DEF EntryAt
<1>6. CASE ReadEntry
  <2> DEFINE n == Length(bin, at) - left
             c == ContentAt(bin, entry)
             x == EntryOf(ret', Name(bin, entry), c)
  <2>0. NextEntry
    BY <1>6 DEF ReadEntry
  <2>1. /\ n \in Nat /\ entry = SectionOff(bin, at) + ENTRY_WORDS * n
        /\ Length(bin, at) - left' = n + 1
        /\ cur # NULL /\ cur' = cur /\ bin' = bin /\ sec' = sec
        /\ sec \in 0 .. SectionCount(bin) - 1
        /\ n \in 0 .. Length(bin, at) - 1
        /\ entry = EntryAt(bin, sec, n)
    BY <1>5, <2>0
  <2>2. /\ Type(bin, entry) \in Known /\ cur \in Sections
        /\ script_entry_new(cur, Name(bin, entry), c)
    BY <1>0, <1>6, <2>1 DEF ReadEntry
  <2>3. c.type \in {NULL_TYPE, SINGLE_WORD, STRING_TYPE, GPIO}
    BY DEF ContentAt, Content, NULL_TYPE, SINGLE_WORD, STRING_TYPE, GPIO
  <2>4. Len(c.value) \in Nat /\ ValueInFormat(bin, entry)
    BY <1>0, <2>1 DEF ValidImage, InFormat
  <2>5. EntrySays(bin, entry) = [name |-> cut_name(Name(bin, entry)), content |-> c]
    BY <1>0, <2>2, <2>4, EntryContent DEF InFormat
  <2>6. EntriesSay(bin, at, n + 1)
          = Append(EntriesSay(bin, at, n), EntrySays(bin, entry))
    BY <2>1, <2>2, EntriesGrow
  <2> HIDE DEF n, c
  <2>7. PICK i \in DOMAIN S : S[i].handle = cur /\ T = WithEntry(S, i, x)
    <3>1. \E i \in DOMAIN ScriptOf :
             ScriptOf[i].handle = cur /\ ScriptOf' = WithEntry(ScriptOf, i, x)
      BY <1>a, <2>2, <2>3, <2>4, ShowsNewEntry
    <3> QED
      BY <3>1 DEF S, T
  <2> HIDE DEF x
  <2>8. i = sec + 1 /\ i \in 1 .. Len(S) /\ Len(S) = sec + 1
    <3>1. DOMAIN S = 1 .. Len(S) /\ Len(S) = sec + 1
      BY <1>1, <1>2, <2>1 DEF IsScript, Items
    <3>2. S[sec + 1].handle = cur /\ sec + 1 \in 1 .. Len(S)
      BY <1>0, <1>3, <2>1, <3>1
    <3> QED
      BY <1>1, <2>7, <3>1, <3>2 DEF IsScript
  <2>9. /\ Len(T) = Len(S)
        /\ \A j \in 1 .. Len(S) : j # i => T[j] = S[j]
        /\ T[i].handle = S[i].handle /\ T[i].name = S[i].name
        /\ EntriesRead(T[i].entries)
             = Append(EntriesRead(S[i].entries), EntryRead(x))
    BY <1>1, <2>7, <2>8, EntryAdded
  <2>10. EntryRead(x) = EntrySays(bin, entry)
    BY <2>5 DEF x, EntryRead, EntryOf
  <2>11. /\ S[i].name = cut_name(Name(bin, at))
         /\ EntriesRead(S[i].entries) = EntriesSay(bin, at, n)
    <3>1. SectionRead(S[i]) = [name |-> cut_name(Name(bin, at)),
                               entries |-> EntriesSay(bin, at, n)]
      BY <1>3, <2>1, <2>8 DEF n
    <3>2. SectionRead(S[i]) = [name |-> S[i].name, entries |-> EntriesRead(S[i].entries)]
      BY DEF SectionRead
    <3> QED
      BY <3>1, <3>2
  <2>12. SectionRead(T[sec + 1]) = [name |-> cut_name(Name(bin, at)),
                                    entries |-> EntriesSay(bin, at, n + 1)]
    BY <2>6, <2>8, <2>9, <2>10, <2>11, Zenon DEF SectionRead
  <2>13. \A j \in 1 .. sec : SectionRead(T[j]) = SectionSays(bin, SectionAt(j - 1))
    <3>1. \A j \in 1 .. sec : j \in 1 .. Len(S) /\ j # i
      BY <1>0, <2>8
    <3> QED
      BY <1>2, <2>9, <3>1, Zenon
  <2> QED
    BY <1>2, <2>1, <2>7, <2>8, <2>9, <2>12, <2>13 DEF ReadSoFar, T
<1>7. CASE SkipEntry
  <2> DEFINE n == Length(bin, at) - left
  <2>0. NextEntry /\ T = S /\ Type(bin, entry) \notin Known
    BY <1>7, ScriptUnchanged DEF SkipEntry, S, T
  <2>1. /\ n \in Nat /\ entry = SectionOff(bin, at) + ENTRY_WORDS * n
        /\ Length(bin, at) - left' = n + 1
        /\ cur # NULL /\ cur' = cur /\ bin' = bin /\ sec' = sec
    BY <1>5, <2>0
  <2>2. EntriesSay(bin, at, n + 1) = EntriesSay(bin, at, n)
    BY <2>0, <2>1, EntriesGrow
  <2>3. /\ S[sec + 1].handle = cur
        /\ SectionRead(S[sec + 1]) = [name |-> cut_name(Name(bin, at)),
                                      entries |-> EntriesSay(bin, at, n)]
    BY <1>3, <2>1
  <2> HIDE DEF n
  <2> QED
    BY <1>2, <2>0, <2>1, <2>2, <2>3 DEF ReadSoFar, T
<1>8. CASE EndSection
  <2>1. /\ cur # NULL /\ left = 0 /\ sec' = sec + 1 /\ cur' = NULL
        /\ T = S /\ bin' = bin
    BY <1>8, ScriptUnchanged DEF EndSection, S, T
  <2>2. sec < SectionCount(bin) /\ Length(bin, at) - left = Length(bin, at)
    BY <1>0, <1>2, <2>1 DEF ReaderInv, ValidImage
  <2>3. SectionRead(S[sec + 1]) = SectionSays(bin, SectionAt(sec))
    BY <1>3, <2>1, <2>2, Zenon DEF SectionSays
  <2>4. \A i \in 1 .. sec + 1 : SectionRead(T[i]) = SectionSays(bin, SectionAt(i - 1))
    <3> TAKE i \in 1 .. sec + 1
    <3>1. CASE i = sec + 1
      <4>1. i - 1 = sec
        BY <1>0, <3>1
      <4> QED
        BY <2>1, <2>3, <3>1, <4>1
    <3>2. CASE i # sec + 1
      <4>1. i \in 1 .. sec
        BY <1>0, <3>2
      <4> QED
        BY <1>2, <2>1, <4>1
    <3> QED
      BY <3>1, <3>2
  <2>5. sec' <= SectionCount(bin)' /\ Len(T) = sec'
    BY <1>0, <1>2, <2>1, <2>2
  <2> QED
    BY <2>1, <2>4, <2>5 DEF ReadSoFar, T
<1> QED
  BY <1>4, <1>6, <1>7, <1>8 DEF Decompile

LEMMA ReadInit ==
    ASSUME Init PROVE ReadInv
BY DEF Init, DecompileInit, ReadInv, Read

\* Steps that leave the script, and how far it has been read, as they are.
LEMMA ReadKept ==
    ASSUME ReadInv, ScriptOf' = ScriptOf, UNCHANGED fexVars, script' = script,
           stage' \in {"start", "detected", "atags", "script"} =>
              stage \in {"start", "detected", "atags", "script"},
           stage' = "decompile" => stage = "decompile",
           Read' => Read
    PROVE  ReadInv'
<1> DEFINE S == ScriptOf
<1>1. /\ stage \in {"start", "detected", "atags", "script"} => cur = NULL /\ sec = 0
      /\ stage = "decompile" => ReadSoFar(S)
      /\ Read => ReadSoFar(S) /\ cur = NULL /\ sec = SectionCount(bin)
  BY DEF ReadInv
<1>2. bin' = bin /\ sec' = sec /\ cur' = cur /\ left' = left
  BY DEF fexVars
<1>3. ReadSoFar(S) => ReadSoFar(ScriptOf)'
  BY <1>2 DEF ReadSoFar
<1> HIDE DEF S
<1> QED
  BY <1>1, <1>2, <1>3 DEF ReadInv

LEMMA ReadNext ==
    ASSUME TypeInv, ReadInv, [Next]_vars
    PROVE  ReadInv'
<1>0. TreeInv /\ ScriptInv /\ bin \in Images /\ SectionCount(bin) \in Nat
  BY ImagesAssumption DEF TypeInv, PlainInv, ValidImage
<1>a. PICK L : Shape(hooks, objs, script, heap_base, L)
  BY <1>0, Zenon DEF TreeInv
<1>1. ASSUME NEW n \in Nat, AllocateBytes(n)
      PROVE  ScriptOf' = ScriptOf /\ script' = script
  <2> DEFINE x == Object("bytes", "", NoContent, n)
  <2>1. x.len \in Nat /\ x.kind = "bytes"
    BY DEF Object
  <2>2. Allocate(n, x) /\ UNCHANGED <<hooks, script>>
    BY <1>1 DEF AllocateBytes
  <2> HIDE DEF x
  <2> QED
    BY <1>a, <2>1, <2>2, ShowsNoBlock
<1>2. CASE MatchSoc
  <2> DEFINE x == Object("soc", "", NoContent, SIZEOF_SOC)
  <2>1. x.len \in Nat /\ x.kind = "soc" /\ SIZEOF_SOC \in Nat /\ SIZEOF_SOC > 0
    BY DEF Object, SIZEOF_SOC
  <2>2. Allocate(SIZEOF_SOC, x) /\ UNCHANGED <<hooks, script>>
    BY <1>2 DEF MatchSoc
  <2> HIDE DEF x
  <2>3. ScriptOf' = ScriptOf
    BY <1>a, <2>1, <2>2, ShowsNoBlock
  <2>4. /\ stage = "start" /\ stage' \in {"returned", "detected"}
        /\ UNCHANGED fexVars /\ script' = script
    BY <1>2 DEF MatchSoc
  <2> QED
    BY <2>3, <2>4, ReadKept DEF Read
<1>b. ASSUME AppendBootargs PROVE ScriptOf' = ScriptOf /\ script' = script
  BY <1>1, <1>b, BootAssumption, ScriptUnchanged DEF AppendBootargs, treeVars
<1>3. CASE AtagCmdline
  <2>1. ScriptOf' = ScriptOf /\ script' = script
    BY <1>b, <1>3 DEF AtagCmdline
  <2> QED
    BY <1>3, <2>1, ReadKept DEF AtagCmdline, Read
<1>4. CASE FexConsole
  <2>1. ScriptOf' = ScriptOf /\ script' = script
    BY <1>b, <1>4 DEF FexConsole
  <2> QED
    BY <1>4, <2>1, ReadKept DEF FexConsole, Read
<1>5. CASE FexUart
  <2>1. PICK n \in UartTypes : AllocateBytes(n * 16)
    BY <1>5 DEF FexUart
  <2>2. n * 16 \in Nat
    BY BootAssumption
  <2>3. ScriptOf' = ScriptOf /\ script' = script
    BY <1>1, <2>1, <2>2
  <2> QED
    BY <1>5, <2>3, ReadKept DEF FexUart, Read
<1>6. CASE NewScriptTree
  <2>1. ScriptOf' = <<>>
    BY <1>0, <1>a, <1>6, ShowsNewScript DEF NewScriptTree, ScriptInv
  <2>2. /\ stage' = "decompile" /\ cur' = NULL /\ sec' = 0 /\ bin' = bin
    BY <1>6 DEF NewScriptTree, ReadInv, fexVars
  <2>3. ReadSoFar(ScriptOf)'
    BY <1>0, <2>1, <2>2 DEF ReadSoFar
  <2> QED
    BY <2>2, <2>3 DEF ReadInv, Read
<1>7. CASE DecompileStep
  <2>1. stage = "decompile" /\ stage' = "decompile" /\ Decompile
    BY <1>7 DEF DecompileStep, bootVars
  <2>2. ReadSoFar(ScriptOf)'
    BY <2>1, ReadStep DEF ReadInv
  <2> QED
    BY <2>1, <2>2 DEF ReadInv, Read
<1>8. ASSUME UNCHANGED treeVars, UNCHANGED fexVars,
             stage' \in {"start", "detected", "atags", "script"} =>
                stage \in {"start", "detected", "atags", "script"},
             stage' = "decompile" => stage = "decompile", Read' => Read
      PROVE  ReadInv'
  <2>1. ScriptOf' = ScriptOf /\ script' = script
    BY <1>8, ScriptUnchanged DEF treeVars
  <2> QED
    BY <1>8, <2>1, ReadKept
<1>9. CASE UnknownSoc \/ OpenTree \/ FexDone \/ FexFails \/ StartKernel
  BY <1>8, <1>9 DEF UnknownSoc, OpenTree, FexDone, FexFails, StartKernel, Read,
                    treeVars
<1>10. CASE AtagsDone
  BY <1>0, <1>8, <1>10 DEF AtagsDone, Read, ScriptInv, treeVars
<1>11. CASE DecompileDone
  <2>1. ScriptOf' = ScriptOf /\ script' = script
    BY <1>11, ScriptUnchanged DEF DecompileDone, treeVars
  <2>2. /\ stage = "decompile" /\ stage' = "fex" /\ cur = NULL
        /\ sec >= SectionCount(bin)
        /\ bin' = bin /\ sec' = sec /\ cur' = cur /\ left' = left
    BY <1>11 DEF DecompileDone, Decompiled, fexVars
  <2> DEFINE S == ScriptOf
  <2>3. ReadSoFar(S)
    BY <2>2 DEF ReadInv
  <2>4. ReadSoFar(ScriptOf)'
    <3>1. ReadSoFar(S)'
      BY <2>1, <2>2, <2>3 DEF ReadSoFar
    <3> QED
      BY <3>1
  <2>5. sec <= SectionCount(bin) /\ sec \in Nat
    BY <2>3 DEF ReadSoFar, TypeInv, PlainInv
  <2> HIDE DEF S
  <2> QED
    BY <1>0, <2>2, <2>4, <2>5 DEF ReadInv, Read
<1>12. CASE UNCHANGED vars
  BY <1>8, <1>12 DEF vars, bootVars, Read, treeVars
<1> QED
  BY <1>2, <1>3, <1>4, <1>5, <1>6, <1>7, <1>9, <1>10, <1>11, <1>12 DEF Next

\* When the fixups look things up in it, the script says what the image says:
\* every section and every entry of a known type in order, strings cut at
\* their NUL or at the end of their words (script_bin.c).  This is of images in
\* the format, whose values lie within them.
THEOREM BootScriptIsImage == Spec => []ScriptIsImage
<1>1. ASSUME TypeInv, ReadInv PROVE ScriptIsImage
  <2> DEFINE S == ScriptOf
  <2> SUFFICES ASSUME Read PROVE NamesAndValues = Meaning(bin)
    BY DEF ScriptIsImage
  <2>1. ReadSoFar(S) /\ cur = NULL /\ sec = SectionCount(bin)
    BY <1>1 DEF ReadInv
  <2>2. IsScript(S)
    <3>1. PICK L : Shape(hooks, objs, script, heap_base, L)
      BY <1>1, Zenon DEF TypeInv, TreeInv
    <3> QED
      BY <3>1, ShowsScript
  <2>3. NamesAndValues = [i \in DOMAIN S |-> SectionRead(S[i])]
    BY Zenon DEF NamesAndValues
  <2> HIDE DEF S
  <2>4. DOMAIN S = 1 .. SectionCount(bin)
    <3>1. Len(S) = SectionCount(bin)
      BY <2>1 DEF ReadSoFar
    <3> QED
      BY <2>2, <3>1 DEF IsScript, Items
  <2>5. \A i \in 1 .. SectionCount(bin) :
           SectionRead(S[i]) = SectionSays(bin, SectionAt(i - 1))
    BY <2>1 DEF ReadSoFar
  <2> QED
    BY <2>3, <2>4, <2>5, Zenon DEF Meaning
<1> QED
  BY <1>1, TypeInit, TypeStep, BootInit, BootStep, ReadInit, ReadNext, PTL DEF Spec
=============================================================================
