--------------------------------- MODULE Osc ---------------------------------
(***************************************************************************)
(* The parser of the shell's markers, OSC 133 escape sequences             *)
(* (crates/ua-core/src/osc.rs).  It is fed the output of the terminal byte *)
(* by byte; "133" stands for its three bytes.                              *)
(***************************************************************************)
EXTENDS Integers, Sequences

CONSTANT MaxParam  \* 256 in the code: bytes of a parameter

ASSUME OscAssumption == MaxParam \in Nat /\ MaxParam > 3

ESC == "ESC"
BEL == "BEL"

ParseState    == {"Ground", "Escape", "OscStart", "OscParam"}
TerminalState == {"Idle", "Prompt", "Input", "Executing"}

NewOscParser == [state |-> "Ground", param_buf |-> <<>>, terminal_state |-> "Idle"]

NoExitCode == -1

NoMark == [kind |-> "none", code |-> NoExitCode]

(* parse_133_param: what follows the letter is looked at in a D only.      *)
MarkOf(param) ==
  IF param = <<>> \/ param[1] \notin {"A", "B", "C", "D"} THEN NoMark
  ELSE [kind |-> param[1],
        code |-> IF param[1] # "D" \/ Len(param) # 3 \/ param[2] # ";" THEN NoExitCode
                 ELSE IF param[3] = "0" THEN 0 ELSE 1]

(* update_terminal_state                                                   *)
TerminalStateAfter(terminal_state, mark) ==
  CASE mark.kind = "A"    -> "Prompt"
    [] mark.kind = "B"    -> "Input"
    [] mark.kind = "C"    -> "Executing"
    [] mark.kind = "D"    -> "Idle"
    [] mark.kind = "none" -> terminal_state

(* The marker a byte completes.                                            *)
MarkAt(p, byte) ==
  IF p.state = "OscParam" /\ byte \in {BEL, ESC} THEN MarkOf(p.param_buf) ELSE NoMark

Bytes(param) == Len(param) + (IF param # <<>> /\ param[1] = "133" THEN 2 ELSE 0)

Collect(p, byte) == [p EXCEPT !.param_buf = Append(@, byte)]
Enter(p, state)  == [p EXCEPT !.state = state, !.param_buf = <<>>]

(* Mutant of OscStart: an escape ends a sequence and begins none.          *)
OscStartToGround(p, byte) ==
  CASE byte = ";" /\ p.param_buf = <<"133">> -> Enter(p, "OscParam")
    [] byte \in {BEL, ESC}                   -> Enter(p, "Ground")
    [] OTHER -> IF Bytes(Collect(p, byte).param_buf) > 3
                THEN [Collect(p, byte) EXCEPT !.state = "OscParam"] ELSE Collect(p, byte)

(* A sequence that is not 133 is collected, too, until it ends.            *)
OscStart(p, byte) ==
  CASE byte = ";" /\ p.param_buf = <<"133">> -> Enter(p, "OscParam")
    [] byte = BEL                            -> Enter(p, "Ground")
    [] byte = ESC                            -> Enter(p, "Escape")
    [] OTHER -> IF Bytes(Collect(p, byte).param_buf) > 3
                THEN [Collect(p, byte) EXCEPT !.state = "OscParam"] ELSE Collect(p, byte)

(* Mutant of OscParam: a parameter may be of any length.                   *)
OscParamUnbounded(p, byte) ==
  CASE byte = BEL -> Enter(p, "Ground")
    [] byte = ESC -> Enter(p, "Escape")
    [] OTHER      -> Collect(p, byte)

(* A parameter that is too long is given up.                               *)
OscParam(p, byte) ==
  CASE byte = BEL -> Enter(p, "Ground")
    [] byte = ESC -> Enter(p, "Escape")
    [] OTHER      -> IF Bytes(p.param_buf) + 1 > MaxParam THEN Enter(p, "Ground")
                     ELSE Collect(p, byte)

(* feed                                                                    *)
OscFeed(p, byte) ==
  LET fed ==
        CASE p.state = "Ground"   -> IF byte = ESC THEN [p EXCEPT !.state = "Escape"] ELSE p
          [] p.state = "Escape"   -> IF byte = "]" THEN Enter(p, "OscStart")
                                     ELSE [p EXCEPT !.state = "Ground"]
          [] p.state = "OscStart" -> OscStart(p, byte)
          [] p.state = "OscParam" -> OscParam(p, byte)
  IN [fed EXCEPT !.terminal_state = TerminalStateAfter(@, MarkAt(p, byte))]

(* feed_bytes, byte by byte: the parser, and the markers there have been.  *)
OscFed(p, chunk) ==
  LET fed[i \in 0..Len(chunk)] ==
        IF i = 0 THEN [parser |-> p, marks |-> <<>>]
        ELSE LET before == fed[i - 1]
                 mark == MarkAt(before.parser, chunk[i])
             IN [parser |-> OscFeed(before.parser, chunk[i]),
                 marks  |-> IF mark = NoMark THEN before.marks ELSE Append(before.marks, mark)]
  IN fed

OscFeedBytes(p, chunk) == OscFed(p, chunk)[Len(chunk)]
=============================================================================
