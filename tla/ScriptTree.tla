----------------------------- MODULE ScriptTree ------------------------------
(***************************************************************************)
(* libfex's script tree (script.c) down to its pointers.  Sections and     *)
(* entries are heap objects strung together by list hooks (common.h):      *)
(* circular doubly linked lists whose head is a hook of the owner.         *)
(*                                                                         *)
(*   heap_base   where malloc takes the next block                         *)
(*   hooks       the list hooks in memory, by address; the hooks of what   *)
(*               has been deleted keep what they last held                 *)
(*   objs        the live objects by address: what they are and the number *)
(*               of bytes the constructor wrote                            *)
(*   script      the tree's address, or NULL when there is none            *)
(*   ret         what the last call returned                               *)
(*                                                                         *)
(* The assertions of script.c are not guards: assert() reports and goes    *)
(* on, and calls with null pointers are not made.                          *)
(***************************************************************************)
EXTENDS Memory, Sequences, FiniteSets

CONSTANTS Names,        \* the names calls are made with
          Contents,     \* the contents of new entries
          HeapStart,    \* heap_base when the loader starts
          MaxObjects    \* bound: blocks a behaviour allocates

ASSUME TreeAssumption ==
    /\ HeapStart \in Nat \ {0}
    /\ MaxObjects \in Nat
    /\ \A c \in Contents :
          /\ c.type \in {NULL_TYPE, SINGLE_WORD, STRING_TYPE, GPIO}
          /\ Len(c.value) \in Nat

\* What a pointer to an object may be.
Addresses == Nat \ {NULL}

VARIABLES heap_base, hooks, objs, script, ret

treeVars == <<heap_base, hooks, objs, script, ret>>

-----------------------------------------------------------------------------
(* Lists: common.h                                                         *)

\* The hook l written whole.
WithHook(hk, l, prev, next) ==
    [x \in DOMAIN hk \cup {l} |->
        IF x = l THEN [prev |-> prev, next |-> next] ELSE hk[x]]

list_init(hk, l) == WithHook(hk, l, l, l)

list_inject(hk, l, prev, next) ==
    [WithHook(hk, l, prev, next) EXCEPT ![next].prev = l, ![prev].next = l]

list_append(hk, h, e) == list_inject(hk, e, hk[h].prev, h)

\* Seeded fault: the list is only unlinked forwards.
list_remove_half(hk, l) == [hk EXCEPT ![hk[l].prev].next = hk[l].next]

list_remove(hk, l) ==
    [hk EXCEPT ![hk[l].next].prev = hk[l].prev,
               ![hk[l].prev].next = hk[l].next]

list_first(hk, l)   == IF hk[l].next = l THEN NULL ELSE hk[l].next
list_last(hk, l)    == IF hk[l].prev = l THEN NULL ELSE hk[l].prev
list_next(hk, l, e) == IF hk[e].next = l THEN NULL ELSE hk[e].next
list_empty(hk, l)   == hk[l].prev = l

\* No loop over a list takes more turns than there are hooks.
MaxTurns(hk) == Cardinality(DOMAIN hk)

\* The hooks of the list l, for (e = list_first(l); e; e = list_next(l, e)):
\* from[n][e] are those that the next n turns find from e onwards.
Forward(hk, l) ==
    LET from[n \in 0 .. MaxTurns(hk)] ==
            [e \in DOMAIN hk \cup {NULL} |->
                IF n = 0 \/ e = NULL THEN <<>>
                ELSE <<e>> \o from[n - 1][list_next(hk, l, e)]]
    IN  from[MaxTurns(hk)][list_first(hk, l)]

\* The same from the last hook of the list l back to the first.
Backward(hk, l) ==
    LET from[n \in 0 .. MaxTurns(hk)] ==
            [e \in DOMAIN hk |->
                IF n = 0 \/ e = l THEN <<>>
                ELSE from[n - 1][hk[e].prev] \o <<e>>]
    IN  from[MaxTurns(hk)][hk[l].prev]

-----------------------------------------------------------------------------
(* Objects                                                                 *)

NAME_MAX == 31

Object(kind, name, c, len) ==
    [kind |-> kind, name |-> name, content |-> c, len |-> len]

cut_name(name) ==
    IF Len(name) > NAME_MAX THEN SubSeq(name, 1, NAME_MAX) ELSE name

Room == Cardinality(DOMAIN hooks) < MaxObjects

Sections == {a \in DOMAIN objs : objs[a].kind = "section"}
Entries  == {a \in DOMAIN objs : objs[a].kind = "entry"}

NoContent == Content(NULL_TYPE, <<>>)

\* A block of size bytes, filled with the object o; ret' is its address.
Allocate(size, o) ==
    /\ heap_base' = heap_base + aligned(size)
    /\ objs' = [a \in DOMAIN objs \cup {heap_base} |->
                  IF a = heap_base THEN o ELSE objs[a]]
    /\ ret' = heap_base

-----------------------------------------------------------------------------
(* The tree: script.c                                                      *)

script_new ==
    /\ Allocate(SIZEOF_SCRIPT, Object("script", "", NoContent, SIZEOF_SCRIPT))
    /\ hooks' = list_init(hooks, heap_base + SCRIPT_HEAD)
    /\ script' = heap_base

script_section_new(name) ==
    /\ Allocate(SIZEOF_SECTION,
                Object("section", cut_name(name), NoContent, SIZEOF_SECTION))
    /\ hooks' = list_append(list_init(hooks, heap_base + ENTRIES_HEAD),
                            script + SCRIPT_HEAD, heap_base + SECTIONS_HOOK)
    /\ UNCHANGED script

\* The bytes a constructor writes to a new entry: its fields, and for a
\* string its characters and a NUL.
entry_len(c) ==
    CASE c.type = NULL_TYPE   -> 44
      [] c.type = SINGLE_WORD -> 48
      [] c.type = STRING_TYPE -> 48 + Len(c.value) + 1
      [] c.type = GPIO        -> 68

\* The four script_*_entry_new() functions.
script_entry_new(s, name, c) ==
    /\ Allocate(entry_size(c.type, Len(c.value)),
                Object("entry", cut_name(name), c, entry_len(c)))
    /\ hooks' = list_append(hooks, s + ENTRIES_HEAD, heap_base + ENTRIES_HOOK)
    /\ UNCHANGED script

\* script_entry_delete(): unlinked, and free() does nothing.
entry_deleted(t, e) ==
    [hooks |-> IF list_empty(t.hooks, e + ENTRIES_HOOK) THEN t.hooks
               ELSE list_remove(t.hooks, e + ENTRIES_HOOK),
     objs  |-> [a \in DOMAIN t.objs \ {e} |-> t.objs[a]]]

\* script_section_delete(): a loop deletes the last entry until there is none,
\* which takes no more turns than there are objects.
section_deleted(t, s) ==
    LET last(u) == list_last(u.hooks, s + ENTRIES_HEAD)
        after[n \in Nat] ==
            IF n = 0 THEN t
            ELSE LET drop(u) == IF last(u) = NULL THEN u
                                ELSE entry_deleted(u, last(u) - ENTRIES_HOOK)
                 IN  drop(after[n - 1])
        unlinked(u) ==
            [hooks |-> IF list_empty(u.hooks, s + SECTIONS_HOOK) THEN u.hooks
                       ELSE list_remove(u.hooks, s + SECTIONS_HOOK),
             objs  |-> [a \in DOMAIN u.objs \ {s} |-> u.objs[a]]]
    IN  unlinked(after[Cardinality(DOMAIN t.objs)])

Tree == [hooks |-> hooks, objs |-> objs]

Becomes(t) ==
    /\ hooks' = t.hooks
    /\ objs' = t.objs
    /\ ret' = NULL
    /\ UNCHANGED heap_base

script_entry_delete(e)   == Becomes(entry_deleted(Tree, e)) /\ UNCHANGED script
script_section_delete(s) == Becomes(section_deleted(Tree, s)) /\ UNCHANGED script

\* The same loop over the sections.
script_delete ==
    LET last(t) == list_last(t.hooks, script + SCRIPT_HEAD)
        after[n \in Nat] ==
            IF n = 0 THEN Tree
            ELSE LET drop(t) == IF last(t) = NULL THEN t
                                ELSE section_deleted(t, last(t) - SECTIONS_HOOK)
                 IN  drop(after[n - 1])
        gone(t)  == [t EXCEPT !.objs = [a \in DOMAIN @ \ {script} |-> @[a]]]
    IN  /\ Becomes(gone(after[Cardinality(DOMAIN objs)]))
        /\ script' = NULL

\* The first object of that name on the list h, whose hooks lie at offset off
\* of their objects.
find_named(h, off, name) ==
    LET from[n \in 0 .. MaxTurns(hooks)] ==
            [e \in DOMAIN hooks \cup {NULL} |->
                CASE n = 0 \/ e = NULL -> NULL
                  [] n # 0 /\ e # NULL /\ objs[e - off].name = name -> e - off
                  [] OTHER -> from[n - 1][list_next(hooks, h, e)]]
    IN  from[MaxTurns(hooks)][list_first(hooks, h)]

script_find_section(name) ==
    find_named(script + SCRIPT_HEAD, SECTIONS_HOOK, name)

\* Seeded fault: the search starts from the far end.
script_find_entry_last(s, name) ==
    LET from[e \in Int] ==
            CASE e = s + ENTRIES_HEAD -> NULL
              [] e # s + ENTRIES_HEAD /\ objs[e - ENTRIES_HOOK].name = name
                    -> e - ENTRIES_HOOK
              [] OTHER -> from[hooks[e].prev]
    IN  from[hooks[s + ENTRIES_HEAD].prev]

script_find_entry(s, name) ==
    find_named(s + ENTRIES_HEAD, ENTRIES_HOOK, name)

Returns(p) == ret' = p /\ UNCHANGED <<heap_base, hooks, objs, script>>

-----------------------------------------------------------------------------
(* A client that makes any legal call.                                     *)

TreeInit ==
    /\ heap_base = HeapStart
    /\ hooks = <<>>
    /\ objs = <<>>
    /\ script = NULL
    /\ ret = NULL

NewScript     == script = NULL /\ Room /\ script_new
NewSection    == script # NULL /\ Room /\ \E n \in Names : script_section_new(n)
NewEntry      == Room /\ \E s \in Sections, n \in Names, c \in Contents :
                            script_entry_new(s, n, c)
DeleteEntry   == \E e \in Entries : script_entry_delete(e)
DeleteSection == \E s \in Sections : script_section_delete(s)
DeleteScript  == script # NULL /\ Room /\ script_delete
FindSection   == script # NULL /\ \E n \in Names :
                                     Returns(script_find_section(n))
FindEntry     == \E s \in Sections, n \in Names :
                    Returns(script_find_entry(s, n))

TreeNext ==
    \/ NewScript \/ NewSection \/ NewEntry
    \/ DeleteEntry \/ DeleteSection \/ DeleteScript
    \/ FindSection \/ FindEntry

TreeSpec == TreeInit /\ [][TreeNext]_treeVars

-----------------------------------------------------------------------------
Heads == {a + SCRIPT_HEAD : a \in {script} \ {NULL}}
           \cup {s + ENTRIES_HEAD : s \in Sections}
Links == {s + SECTIONS_HOOK : s \in Sections}
           \cup {e + ENTRIES_HOOK : e \in Entries}

\* Everything has its type.
TreeTypeOK ==
    /\ heap_base \in Nat
    /\ DOMAIN objs \subseteq Addresses
    /\ \A a \in DOMAIN objs : /\ objs[a].kind \in {"script", "section", "entry",
                                                  "soc", "bytes"}
                              /\ objs[a].len \in Nat
    /\ \A l \in DOMAIN hooks : hooks[l].prev \in Nat /\ hooks[l].next \in Nat
    /\ script \in DOMAIN objs \cup {NULL}
    /\ ret \in Addresses \cup {NULL}

\* Walking a list backwards visits what walking it forwards does, in the
\* opposite order; each live section and entry is on exactly one list, and
\* nothing deleted is on any (the hooks of common.h: list_append relies on
\* prev, list_next on next, and list_remove has to keep both).
ListsConsistent ==
    /\ \A h \in Heads : Forward(hooks, h) = Backward(hooks, h)
    /\ \A l \in Links :
          Cardinality({h \in Heads :
              \E i \in DOMAIN Forward(hooks, h) : Forward(hooks, h)[i] = l}) = 1
    /\ \A l \in Heads \cup Links : {hooks[l].prev, hooks[l].next}
                                       \subseteq Heads \cup Links

\* No two live objects share a byte of the heap, and none reaches past
\* heap_base: what the constructors write fits in what they ask malloc for.
ObjectsDisjoint ==
    \A a \in DOMAIN objs :
        /\ HeapStart <= a /\ a + objs[a].len <= heap_base
        /\ \A b \in DOMAIN objs : a < b => a + objs[a].len <= b

\* The tree as its clients see it.
ScriptOf ==
    LET entry(l) == [handle |-> l - ENTRIES_HOOK,
                     name |-> objs[l - ENTRIES_HOOK].name,
                     content |-> objs[l - ENTRIES_HOOK].content]
        entries(ls) == [j \in DOMAIN ls |-> entry(ls[j])]
        section(s)  == [handle |-> s, name |-> objs[s].name,
                        entries |-> entries(Forward(hooks, s + ENTRIES_HEAD))]
        sections(ls) == [i \in DOMAIN ls |-> section(ls[i] - SECTIONS_HOOK)]
    IN  IF script = NULL THEN <<>>
        ELSE sections(Forward(hooks, script + SCRIPT_HEAD))

Abstract == INSTANCE Script WITH Handles <- Addresses, None <- NULL,
                                 tree <- script, script <- ScriptOf

\* The pointers implement the abstract script: lookups return the first
\* match, and every call leaves what it did not touch as it was.
ScriptSpec == Abstract!Spec
=============================================================================
