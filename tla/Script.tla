------------------------------- MODULE Script --------------------------------
(***************************************************************************)
(* What libfex's script tree promises its clients: a script is a sequence  *)
(* of named sections, a section a sequence of named entries.  New ones are *)
(* appended, names are cut after 31 characters, a lookup returns the first *)
(* match, and deleting something leaves everything else in its order.      *)
(*                                                                         *)
(* A handle stands for the pointer a client holds to a section or entry,   *)
(* tree for the one to the script itself, None when there is none.  ret is *)
(* what the last call returned.                                            *)
(***************************************************************************)
EXTENDS Integers, Sequences

CONSTANTS Handles,      \* the pointers a client may hold
          None,         \* the null pointer, not in Handles
          Names,        \* the names calls are made with
          Contents      \* the contents of new entries

VARIABLES tree, script, ret

vars == <<tree, script, ret>>

NAME_MAX == 31

Truncated(name) ==
    IF Len(name) > NAME_MAX THEN SubSeq(name, 1, NAME_MAX) ELSE name

EntryHandles(s) == {s.entries[j].handle : j \in DOMAIN s.entries}
Used == {tree} \cup {script[i].handle : i \in DOMAIN script}
          \cup UNION {EntryHandles(script[i]) : i \in DOMAIN script}

\* The items but the i-th, in their order.
Without(items, i) ==
    [j \in 1 .. Len(items) - 1 |-> IF j < i THEN items[j] ELSE items[j + 1]]

Entry(h, name, c) == [handle |-> h, name |-> Truncated(name), content |-> c]

\* The handle of the first item of that name, or the null pointer.
First(items, name) ==
    IF \E i \in DOMAIN items : items[i].name = name
    THEN items[CHOOSE i \in DOMAIN items :
                   /\ items[i].name = name
                   /\ \A j \in 1 .. i - 1 : items[j].name # name].handle
    ELSE None

-----------------------------------------------------------------------------
Init == tree = None /\ script = <<>> /\ ret = None

\* script_new() and script_delete()
NewScript ==
    /\ tree = None
    /\ ret' \in Handles /\ tree' = ret'
    /\ UNCHANGED script

DeleteScript ==
    /\ tree # None
    /\ tree' = None /\ script' = <<>> /\ ret' = None

\* script_section_new()
NewSection(name) ==
    /\ tree # None
    /\ ret' \in Handles \ Used
    /\ script' = Append(script, [handle |-> ret', name |-> Truncated(name),
                                 entries |-> <<>>])
    /\ UNCHANGED tree

\* The script_*_entry_new() functions.
NewEntry(i, name, c) ==
    /\ ret' \in Handles \ Used
    /\ script' = [script EXCEPT ![i].entries = Append(@, Entry(ret', name, c))]
    /\ UNCHANGED tree

\* script_section_delete() and script_entry_delete()
DeleteSection(i) ==
    /\ script' = Without(script, i)
    /\ ret' = None
    /\ UNCHANGED tree

DeleteEntry(i, j) ==
    /\ script' = [script EXCEPT ![i].entries = Without(@, j)]
    /\ ret' = None
    /\ UNCHANGED tree

\* script_find_section() and script_find_entry()
FindSection(name) ==
    /\ tree # None
    /\ ret' = First(script, name)
    /\ UNCHANGED <<tree, script>>

FindEntry(i, name) ==
    /\ ret' = First(script[i].entries, name)
    /\ UNCHANGED <<tree, script>>

Next ==
    \/ NewScript
    \/ \E name \in Names : NewSection(name) \/ FindSection(name)
    \/ \E i \in DOMAIN script :
          \/ DeleteSection(i)
          \/ \E j \in DOMAIN script[i].entries : DeleteEntry(i, j)
          \/ \E name \in Names :
                \/ FindEntry(i, name)
                \/ \E c \in Contents : NewEntry(i, name, c)
    \/ DeleteScript

Spec == Init /\ [][Next]_vars
=============================================================================
