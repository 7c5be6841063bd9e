----------------------------- MODULE MCSession ------------------------------
(***************************************************************************)
(* Values of the cost functions for model checking.                        *)
(***************************************************************************)
EXTENDS Session

CONSTANTS u1, u2

UnitCost  == [kind \in EntryKind |-> 1]
SmallCost == [UnitCost EXCEPT !["ToolResult"] = 2, !["ShellCommand"] = 2]
=============================================================================
