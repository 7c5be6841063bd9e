----------------------------- MODULE MCDispatch -----------------------------
(***************************************************************************)
(* Model values for checking Dispatch.  The commands are interchangeable   *)
(* unless some of them are multi-line, so no symmetry is needed at this    *)
(* size.                                                                   *)
(***************************************************************************)
EXTENDS Dispatch

CONSTANTS c1, c2
=============================================================================
