------------------------------- MODULE Memory --------------------------------
(***************************************************************************)
(* The loader's allocator (memory.c) and the objects of libfex that it     *)
(* hands out.  malloc() moves heap_base up and never fails; free() is      *)
(* empty.  Addresses and sizes are the 32-bit build's, in bytes.           *)
(***************************************************************************)
EXTENDS Integers

NULL == 0

\* Seeded fault: the size is not rounded up.
aligned_exact(size) == size

\* What malloc(size) adds to heap_base.  (size - 1) / 4 + 1 wraps to a block
\* of no bytes for a size of 0.
aligned(size) == IF size = 0 THEN 0 ELSE ((size - 1) \div 4 + 1) * 4

SIZEOF_SCRIPT  == 8
SIZEOF_SECTION == 48
SIZEOF_SOC     == 8

\* Where a structure keeps its list hooks.
SECTIONS_HOOK == 32     \* struct script_section, sections
ENTRIES_HEAD  == 40     \* struct script_section, entries
ENTRIES_HOOK  == 36     \* struct script_entry, entries
SCRIPT_HEAD   == 0      \* struct script, sections

\* enum script_value_type
SINGLE_WORD == 1
STRING_TYPE == 2
MULTI_WORD  == 3
GPIO        == 4
NULL_TYPE   == 5

\* The contents of an entry: its type and its value, the value of a string
\* being the sequence of its bytes.
Content(type, value) == [type |-> type, value |-> value]

\* Seeded fault: no byte for the NUL.
entry_size_no_nul(type, l) ==
    CASE type = NULL_TYPE   -> 44
      [] type = SINGLE_WORD -> 48
      [] type = STRING_TYPE -> 48 + l
      [] type = GPIO        -> 68

\* The size asked of malloc for an entry; l is the length of its string.
entry_size(type, l) ==
    CASE type = NULL_TYPE   -> 44
      [] type = SINGLE_WORD -> 48
      [] type = STRING_TYPE -> 48 + l + 1
      [] type = GPIO        -> 68
=============================================================================
