------------------------------- MODULE FexBin --------------------------------
(***************************************************************************)
(* The decompiler of binary FEX files (script_bin.c), which reads the      *)
(* image the boot loader left in memory and builds the script tree.        *)
(*                                                                         *)
(* The image is bin = [words, names]: its 32-bit words, addressed from 0   *)
(* as the offsets in it are, and the names, each by the offset of the      *)
(* NAME_WORDS words it takes up.                                           *)
(*                                                                         *)
(*   sec     index of the section being read                               *)
(*   cur     the tree's section for it, NULL between sections              *)
(*   entry   the word offset of the next entry                             *)
(*   left    how many entries the section still has                        *)
(***************************************************************************)
EXTENDS ScriptTree, SequencesExt

VARIABLES bin, sec, cur, entry, left

fexVars == <<bin, sec, cur, entry, left>>

NAME_WORDS    == 8
HEAD_WORDS    == 4          \* struct script_bin_head without its sections
SECTION_WORDS == 10         \* struct script_bin_section
ENTRY_WORDS   == 10         \* struct script_bin_entry
GPIO_WORDS    == 6          \* struct script_bin_gpio_value

Words(S) == (S + 3) \div 4

WordAt(b, off) == b.words[off + 1]
Byte(w, k)     == (w \div 256^k) % 256
\* A byte read past the end of the image is whatever lies there; the loop
\* that reads it stops at it in any case.
ByteAt(b, off, k) ==
    IF off + k \div 4 >= Len(b.words) THEN 0
    ELSE Byte(WordAt(b, off + k \div 4), k % 4)

SectionCount(b)  == WordAt(b, 0)
SectionAt(i)     == HEAD_WORDS + SECTION_WORDS * i
Name(b, at)      == b.names[at]
Length(b, at)    == WordAt(b, at + NAME_WORDS)
SectionOff(b, at) == WordAt(b, at + NAME_WORDS + 1)
EntryOff(b, at)  == WordAt(b, at + NAME_WORDS)
Type(b, at)      == (WordAt(b, at + NAME_WORDS + 1) \div 2^16) % 2^16
WordCount(b, at) == WordAt(b, at + NAME_WORDS + 1) % 2^16

\* Seeded fault: the end of the data is not looked at.
string_len_unbounded(b, v, bytes) ==
    LET seek[p \in Nat] == IF ByteAt(b, v, p) = 0 THEN p ELSE seek[p + 1]
    IN  seek[0]

\* How far the loop that seeks the end of a string gets.
string_len(b, v, bytes) ==
    LET seek[p \in Nat] ==
            IF ByteAt(b, v, p) = 0 \/ p = bytes THEN p ELSE seek[p + 1]
    IN  seek[0]

Numbers(b, v, n) == [k \in 1 .. n |-> WordAt(b, v + k - 1)]

\* What decompile_section() makes of the entry at word offset at.
ContentAt(b, at) ==
    LET v == EntryOff(b, at)
    IN  CASE Type(b, at) = SINGLE_WORD ->
                Content(SINGLE_WORD, Numbers(b, v, 1))
          [] Type(b, at) = STRING_TYPE ->
                Content(STRING_TYPE,
                        [k \in 1 .. string_len(b, v, WordCount(b, at) * 4)
                            |-> ByteAt(b, v, k - 1)])
          [] Type(b, at) = GPIO -> Content(GPIO, Numbers(b, v, GPIO_WORDS))
          [] OTHER -> Content(NULL_TYPE, <<>>)

Known == {SINGLE_WORD, STRING_TYPE, GPIO, NULL_TYPE}

\* The j-th entry of the i-th section.
EntryAt(b, i, j) == SectionOff(b, SectionAt(i)) + ENTRY_WORDS * j

\* What the decompiler takes for granted of an image, none of which it checks:
\* counts that are not negative (a negative length would not end the loop), and
\* strings whose end is found.
ValidImage(b) ==
    /\ SectionCount(b) \in Nat
    /\ \A i \in 0 .. SectionCount(b) - 1 :
          /\ Length(b, SectionAt(i)) \in Nat
          /\ SectionOff(b, SectionAt(i)) \in Nat
          /\ \A j \in 0 .. Length(b, SectionAt(i)) - 1 :
                Len(ContentAt(b, EntryAt(b, i, j)).value) \in Nat

\* Further what the fixups' view of the script rests on: a value has as many
\* words as its type, which is asserted (and assert() goes on), and lies within
\* the image, which is not.
ValueInFormat(b, at) ==
    Type(b, at) \in Known \ {NULL_TYPE} =>
        /\ EntryOff(b, at) \in Nat /\ WordCount(b, at) \in Nat
        /\ EntryOff(b, at) + WordCount(b, at) <= Len(b.words)
        /\ Type(b, at) = SINGLE_WORD => WordCount(b, at) = 1
        /\ Type(b, at) = GPIO => WordCount(b, at) = GPIO_WORDS

InFormat(b) ==
    /\ b.words \in Seq(Int)
    /\ \A i \in 0 .. SectionCount(b) - 1 :
          \A j \in 0 .. Length(b, SectionAt(i)) - 1 :
             ValueInFormat(b, EntryAt(b, i, j))

-----------------------------------------------------------------------------
DecompileInit ==
    /\ sec = 0 /\ cur = NULL /\ entry = 0 /\ left = 0

BeginSection ==
    /\ cur = NULL /\ sec < SectionCount(bin)
    /\ script_section_new(Name(bin, SectionAt(sec)))
    /\ cur' = ret'
    /\ entry' = SectionOff(bin, SectionAt(sec))
    /\ left' = Length(bin, SectionAt(sec))
    /\ UNCHANGED <<bin, sec>>

NextEntry ==
    /\ cur # NULL /\ left # 0
    /\ left' = left - 1
    /\ entry' = entry + ENTRY_WORDS
    /\ UNCHANGED <<bin, sec, cur>>

ReadEntry ==
    /\ NextEntry
    /\ Type(bin, entry) \in Known
    /\ script_entry_new(cur, Name(bin, entry), ContentAt(bin, entry))

\* Seeded fault: the loop does not move on.
SkipEntry_stuck ==
    /\ cur # NULL /\ left # 0
    /\ Type(bin, entry) \notin Known
    /\ UNCHANGED <<treeVars, fexVars>>

\* A type the switch does not know, multi-word values among them.
SkipEntry ==
    /\ NextEntry
    /\ Type(bin, entry) \notin Known
    /\ UNCHANGED treeVars

EndSection ==
    /\ cur # NULL /\ left = 0
    /\ sec' = sec + 1 /\ cur' = NULL
    /\ UNCHANGED <<treeVars, bin, entry, left>>

Decompile == BeginSection \/ ReadEntry \/ SkipEntry \/ EndSection

Decompiled == cur = NULL /\ sec >= SectionCount(bin)

-----------------------------------------------------------------------------
(* script_bin_size(): the size of the image a script would compile to.     *)

\* Seeded fault: room for the NUL of a string.
value_size_nul(c) ==
    CASE c.type \in {NULL_TYPE, SINGLE_WORD} -> 4
      [] c.type = STRING_TYPE -> Len(c.value) + 1
      [] c.type = GPIO -> 4 * GPIO_WORDS

value_size(c) ==
    CASE c.type \in {NULL_TYPE, SINGLE_WORD} -> 4
      [] c.type = STRING_TYPE -> Len(c.value)
      [] c.type = GPIO -> 4 * GPIO_WORDS

script_bin_size ==
    LET sections == SelectSeq(ScriptOf, LAMBDA s : s.entries # <<>>)
        entries  == FlattenSeq([i \in DOMAIN sections |-> sections[i].entries])
        words    == [j \in DOMAIN entries |-> Words(value_size(entries[j].content))]
    IN  4 * (HEAD_WORDS + SECTION_WORDS * Len(sections)
                + ENTRY_WORDS * Len(entries) + FoldLeft(+, 0, words))

-----------------------------------------------------------------------------
(* What an image says, read as the format's structures (script_bin.h)      *)
(* define it and with no state.                                            *)

\* The longest prefix without a NUL of the words a string was given.
StringValue(b, v, n) ==
    LET byte(k) == Byte(WordAt(b, v + (k - 1) \div 4), (k - 1) % 4)
        plain   == {k \in 0 .. 4 * n : \A i \in 1 .. k : byte(i) # 0}
    IN  [i \in 1 .. CHOOSE k \in plain : \A j \in plain : j <= k |-> byte(i)]

\* What the entry at word offset at says.
EntrySays(b, at) ==
    LET value == CASE Type(b, at) = STRING_TYPE ->
                        StringValue(b, EntryOff(b, at), WordCount(b, at))
                   [] Type(b, at) = NULL_TYPE -> <<>>
                   [] OTHER -> SubSeq(b.words, EntryOff(b, at) + 1,
                                      EntryOff(b, at) + WordCount(b, at))
    IN  [name |-> cut_name(Name(b, at)), content |-> Content(Type(b, at), value)]

\* The k-th smallest of the numbers S.
Ranked(S, k) == CHOOSE j \in {i \in S : Cardinality({l \in S : l <= i}) = k} : TRUE

\* What the first n entries of the section at word offset at say: those of a
\* known type, in their order.
EntriesSay(b, at, n) ==
    LET item(j) == SectionOff(b, at) + ENTRY_WORDS * j
        known   == {j \in 0 .. n - 1 : Type(b, item(j)) \in Known}
    IN  [k \in 1 .. Cardinality(known) |-> EntrySays(b, item(Ranked(known, k)))]

SectionSays(b, at) ==
    [name |-> cut_name(Name(b, at)), entries |-> EntriesSay(b, at, Length(b, at))]

Meaning(b) == [i \in 1 .. SectionCount(b) |-> SectionSays(b, SectionAt(i - 1))]

\* What the script says: the tree without its pointers.
EntryRead(e)    == [name |-> e.name, content |-> e.content]
EntriesRead(es) == [j \in DOMAIN es |-> EntryRead(es[j])]
SectionRead(s)  == [name |-> s.name, entries |-> EntriesRead(s.entries)]

NamesAndValues == [i \in DOMAIN ScriptOf |-> SectionRead(ScriptOf[i])]
=============================================================================
