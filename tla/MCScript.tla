------------------------------ MODULE MCScript -------------------------------
(***************************************************************************)
(* ScriptTree for a client of up to MaxObjects hooks: two of the names     *)
(* differ only after the 31 characters that are kept, and contents of each *)
(* type the entries' sizes depend on.                                      *)
(***************************************************************************)
EXTENDS ScriptTree

Long == "abcdefghijklmnopqrstuvwxyz01234"

MCNames     == {"a", Long \o "5", Long \o "6"}
MCContents  == {Content(NULL_TYPE, <<>>), Content(STRING_TYPE, <<1, 2, 3, 4>>)}
=============================================================================
