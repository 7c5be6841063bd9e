------------------------------ MODULE MCTerminal ------------------------------
(***************************************************************************)
(* Outputs: a line in color, and titles of a window that are not ended, one*)
(* of them too long.                                                       *)
(***************************************************************************)
EXTENDS Terminal

MCOutputs == {
  <<ESC, "[", "1", "m", "x", "\n">>, <<ESC, "]", "0", ";", "\n">>,
  <<ESC, "]", "0", ";", "t", "z", "t", "\n">>}

MCTyped == {<<"c", NEWLINE>>, <<"c">>, <<"#", "c", NEWLINE>>}
=============================================================================
