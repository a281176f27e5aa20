------------------------------- MODULE MCFdtSw -------------------------------
(***************************************************************************)
(* FdtSwTree in buffers from one that holds no header to one that holds a  *)
(* few nodes: "p" is a suffix of "xp", so that their strings are shared or *)
(* not according to which comes first.                                     *)
(***************************************************************************)
EXTENDS FdtSwTree

MCNodeNames == {"", "a", "node"}
MCPropNames == {"p", "xp", "q"}
MCVals      == {"", "abcd"}
MCBufSizes  == {39, 44, 60, 64, 76, 80, 100, 124, 152}
=============================================================================
