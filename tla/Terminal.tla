------------------------------- MODULE Terminal -------------------------------
(***************************************************************************)
(* What the REPL makes of the bytes that pass through it when no agent is  *)
(* at work (repl.rs): the keys the user types, from which it takes         *)
(* instructions and the text of shell commands, and the output of the      *)
(* terminal, in chunks cut anywhere, from which it takes markers (Osc),    *)
(* the history of lines, and the output and exit code of each command of   *)
(* the user for the journal.                                               *)
(*                                                                         *)
(* The shell is bash or zsh (shell_scripts.rs) and runs what it reads; an  *)
(* agent's turn is no more than the lines it writes.  The keys are "c", of  *)
(* which commands are made, "#", Enter and Control-U; "a" is the agent's.  *)
(***************************************************************************)
EXTENDS Osc, OutputHistory, Selection

CONSTANTS
  Typed,       \* what the user may type at a time, at a prompt that is shown
  Outputs,     \* what a command may print at a time
  HistoryLines, CaptureLines,  \* max_lines of the history, and of captures, which is 200
  MaxTyped,    \* bound: times something is typed
  MaxPrints,   \* bound: times a command prints
  MaxWire      \* bound: bytes in the terminal

NEWLINE == "\r"
CTRL_U  == "^U"

Key == {"c", "#", NEWLINE, CTRL_U}

ASSUME TerminalAssumption ==
  /\ Typed \subseteq Seq(Key)
  /\ \A bytes \in Outputs : bytes \in Seq({bytes[i] : i \in 1..Len(bytes)})
  /\ {HistoryLines, CaptureLines, MaxTyped, MaxPrints, MaxWire} \subseteq Nat

VARIABLES
  mode,      \* "Idle"; in a turn of the agent "Turn", and "Acting" from its command on
  parser,    \* OscParser
  history,   \* output_history
  capture,   \* user_cmd_capture, an Option
  line_buf,
  pending,   \* pending_user_command, an Option
  recorded,  \* the ShellCommand entries of the journal
  tty,       \* keys on their way to the shell
  shell,     \* what the shell is doing
  wire,      \* output on its way to the REPL
  seen,      \* history variable: the output the REPL has read
  ended,     \* history variable: the user's commands that have ended
  typed, prints  \* counts for the bounds

vars == <<mode, parser, history, capture, line_buf, pending, recorded, tty, shell, wire,
          seen, ended, typed, prints>>

replVars  == <<mode, parser, history, capture, line_buf, pending, recorded, seen>>
shellVars == <<shell, wire, ended>>
counts    == <<typed, prints>>

None    == [some |-> FALSE]
Some(v) == [some |-> TRUE, value |-> v]

Marker(letter) == <<ESC, "]", "133", ";", letter, BEL>>
MarkerD(code)  == <<ESC, "]", "133", ";", "D", ";", IF code = 0 THEN "0" ELSE "1", BEL>>

AtPrompt == [phase |-> "prompt", line |-> <<>>, output |-> <<>>]

Init ==
  /\ mode = "Idle" /\ parser = NewOscParser
  /\ history = NewHistory(HistoryLines) /\ capture = None
  /\ line_buf = <<>> /\ pending = None /\ recorded = <<>>
  /\ tty = <<>> /\ shell = [AtPrompt EXCEPT !.phase = "prompting"] /\ wire = <<>>
  /\ seen = <<>> /\ ended = <<>>
  /\ typed = 0 /\ prints = 0

-----------------------------------------------------------------------------
(* The REPL: a key of the user.                                            *)

(* What a capture has, as text.                                            *)
OutputOf(cap) == IF cap.some THEN cap.value.lines ELSE <<>>

ShellCommand(cmd, code, cap) == [cmd |-> cmd, code |-> code, output |-> OutputOf(cap)]

IsInstruction(line) == Len(line) > 1 /\ line[1] = "#"
IsComment(line)     == line # <<>> /\ line[1] = "#"

(* A key, in the state s of what it may change.  Enter makes the line an   *)
(* instruction, which starts a turn and clears the shell's line, or a      *)
(* command, which is remembered until its D; one that still is remembered  *)
(* is journaled without an exit code.                                      *)
Entered(s) ==
  CASE IsInstruction(s.line_buf) ->
         [s EXCEPT !.mode = "Turn", !.cleared = Append(@, CTRL_U), !.line_buf = <<>>]
    [] s.line_buf # <<>> /\ ~IsComment(s.line_buf) ->
         [s EXCEPT !.pending = Some(s.line_buf), !.line_buf = <<>>,
                   !.recorded = IF ~s.pending.some THEN @
                                ELSE Append(@, ShellCommand(s.pending.value, NoExitCode, s.capture)),
                   !.capture = IF ~s.pending.some THEN @ ELSE None]
    [] s.line_buf = <<>> \/ s.line_buf = <<"#">> -> [s EXCEPT !.line_buf = <<>>]

Keyed(s, key) ==
  CASE key = NEWLINE                 -> Entered(s)
    [] key = CTRL_U                  -> [s EXCEPT !.line_buf = <<>>]
    [] key \notin {NEWLINE, CTRL_U}  -> [s EXCEPT !.line_buf = Append(@, key)]

KeyedUpTo(s, chunk) ==
  LET after[i \in 0..Len(chunk)] == IF i = 0 THEN s ELSE Keyed(after[i - 1], chunk[i])
  IN after

AllKeyed(s, chunk) == KeyedUpTo(s, chunk)[Len(chunk)]

(* A chunk with an instruction in it is not passed on to the shell; while  *)
(* a command of the user runs the keys are not looked at.                  *)
OnStdin(chunk) ==
  LET here == [mode |-> mode, cleared |-> <<>>, line_buf |-> line_buf, pending |-> pending,
               recorded |-> recorded, capture |-> capture]
      s    == IF parser.terminal_state # "Executing" THEN AllKeyed(here, chunk)
              ELSE [here EXCEPT !.line_buf = <<>>]
  IN /\ mode' = s.mode /\ line_buf' = s.line_buf /\ pending' = s.pending
     /\ recorded' = s.recorded /\ capture' = s.capture
     /\ tty' = tty \o (IF s.cleared # <<>> THEN s.cleared ELSE chunk)
     /\ UNCHANGED <<parser, history, seen>>

(* The user waits for the prompt.                                          *)
Type(chunk) ==
  /\ typed < MaxTyped /\ typed' = typed + 1
  /\ mode = "Idle"
  /\ shell.phase = "prompt" /\ wire = <<>> /\ tty = <<>>
  /\ OnStdin(chunk)
  /\ UNCHANGED <<shellVars, prints>>

-----------------------------------------------------------------------------
(* The REPL: a chunk of output.                                            *)

Idle == mode = "Idle"

(* Mutant of Marked: the command is still remembered after its D.          *)
MarkedKeepingCommand(s, mark) ==
  CASE mark.kind = "A" -> [s EXCEPT !.line_buf = <<>>]
    [] mark.kind = "C" /\ Idle -> [s EXCEPT !.capture = Some(NewHistory(CaptureLines))]
    [] mark.kind = "D" /\ Idle /\ s.pending.some ->
         [s EXCEPT !.recorded = Append(@, ShellCommand(s.pending.value, mark.code, s.capture)),
                   !.capture = None]
    [] OTHER -> s

(* A marker, in the state s of what it may change; with D the command has  *)
(* ended.                                                                  *)
Marked(s, mark) ==
  CASE mark.kind = "A" -> [s EXCEPT !.line_buf = <<>>]
    [] mark.kind = "C" /\ Idle -> [s EXCEPT !.capture = Some(NewHistory(CaptureLines))]
    [] mark.kind = "D" /\ Idle /\ s.pending.some ->
         [s EXCEPT !.recorded = Append(@, ShellCommand(s.pending.value, mark.code, s.capture)),
                   !.pending = None, !.capture = None]
    [] mark.kind = "D" /\ Idle /\ ~s.pending.some -> [s EXCEPT !.capture = None]
    [] OTHER -> s

MarkedUpTo(s, marks) ==
  LET after[i \in 0..Len(marks)] == IF i = 0 THEN s ELSE Marked(after[i - 1], marks[i])
  IN after

AllMarked(s, marks) == MarkedUpTo(s, marks)[Len(marks)]

OnPtyOutput(chunk) ==
  LET fed  == IF Idle /\ capture.some
              THEN Some(HistoryFeedBytes(capture.value, chunk)) ELSE capture
      read == OscFeedBytes(parser, chunk)
      s    == AllMarked([line_buf |-> line_buf, capture |-> fed, pending |-> pending,
                         recorded |-> recorded], read.marks)
  IN /\ history' = HistoryFeedBytes(history, chunk)
     /\ parser' = read.parser
     /\ line_buf' = s.line_buf /\ capture' = s.capture
     /\ pending' = s.pending /\ recorded' = s.recorded
     /\ seen' = seen \o chunk

Read(n) ==
  /\ OnPtyOutput(SubSeq(wire, 1, n))
  /\ wire' = SubSeq(wire, n + 1, Len(wire))
  /\ UNCHANGED <<mode, tty, shell, ended, counts>>

-----------------------------------------------------------------------------
(* The agent's turn.                                                       *)

(* A command of the agent is written, one in a turn; its markers are those *)
(* of any other.                                                           *)
AgentWrites ==
  /\ mode = "Turn" /\ tty = <<>> /\ shell = AtPrompt /\ wire = <<>>
  /\ mode' = "Acting" /\ tty' = <<"a", NEWLINE>>
  /\ UNCHANGED <<parser, history, capture, line_buf, pending, recorded, seen, shellVars, counts>>

(* The turn ends, by itself or by Control-C, which it also may while a     *)
(* command of the agent is running.                                        *)
TurnEnds ==
  /\ mode # "Idle" /\ mode' = "Idle"
  /\ UNCHANGED <<parser, history, capture, line_buf, pending, recorded, seen, tty, shellVars,
                 counts>>

-----------------------------------------------------------------------------
(* The shell.                                                              *)

Emit(bytes) == Len(wire) + Len(bytes) <= MaxWire /\ wire' = wire \o bytes

(* The shell echoes a key, and runs a line when it is entered.             *)
ReadKey ==
  /\ shell.phase = "prompt" /\ tty # <<>>
  /\ tty' = Tail(tty)
  /\ LET key == Head(tty) IN
       IF key = CTRL_U THEN shell' = AtPrompt /\ UNCHANGED wire
       ELSE IF key # NEWLINE
       THEN shell' = [shell EXCEPT !.line = Append(@, key)] /\ Emit(<<key>>)
       ELSE IF shell.line = <<>> \/ IsComment(shell.line)
       THEN shell' = [shell EXCEPT !.phase = "ended"] /\ Emit(<<"\n">>)
       ELSE shell' = [shell EXCEPT !.phase = "running"] /\ Emit(<<"\n">> \o Marker("C"))
  /\ UNCHANGED <<replVars, ended, counts>>

Prints ==
  /\ shell.phase = "running" /\ prints < MaxPrints /\ prints' = prints + 1
  /\ \E bytes \in Outputs :
       /\ shell' = [shell EXCEPT !.output = @ \o bytes]
       /\ Emit(bytes)
  /\ UNCHANGED <<replVars, tty, ended, typed>>

(* The line ends with D, and the prompt is shown between A and B.  Of a    *)
(* line without a command the exit code is not looked at.                  *)
FinishLine(code) ==
  /\ shell.phase = "running" \/ (shell.phase = "ended" /\ code = 0)
  /\ Emit(MarkerD(code))
  /\ shell' = [AtPrompt EXCEPT !.phase = "prompting"]
  /\ ended' = IF shell.phase = "running" /\ shell.line # <<"a">>
              THEN Append(ended, [cmd |-> shell.line, code |-> code, output |-> shell.output])
              ELSE ended
  /\ UNCHANGED <<replVars, tty, counts>>

ShowPrompt ==
  /\ shell.phase = "prompting"
  /\ Emit(Marker("A") \o <<"$">> \o Marker("B"))
  /\ shell' = AtPrompt
  /\ UNCHANGED <<replVars, tty, ended, counts>>

Next ==
  \/ \E chunk \in Typed : Type(chunk)
  \/ \E n \in 1..Len(wire) : Read(n)
  \/ AgentWrites \/ TurnEnds
  \/ ReadKey \/ Prints \/ ShowPrompt
  \/ \E code \in {0, 1} : FinishLine(code)

Spec == Init /\ [][Next]_vars

-----------------------------------------------------------------------------
(* Properties.                                                             *)

(* Types; the parser's buffer, the history and a capture are bounded, and  *)
(* what is remembered as a command is one.                                 *)
TypeOK ==
  /\ mode \in {"Idle", "Turn", "Acting"}
  /\ parser.state \in ParseState /\ parser.terminal_state \in TerminalState
  /\ Bytes(parser.param_buf) <= MaxParam
  /\ history.escape_state \in EscapeState /\ Len(history.lines) <= HistoryLines
  /\ capture.some => Len(capture.value.lines) <= CaptureLines
  /\ pending.some => ~IsComment(pending.value) /\ pending.value # <<>>

(* The terminal state is that of the last marker that has been read whole, *)
(* however the output is cut, and whatever other escape sequences the      *)
(* commands print, also those that are long or not ended.                  *)
MarkersIn(bytes) ==
  {m \in (1..Len(bytes)) \X {Marker("A"), Marker("B"), Marker("C"), MarkerD(0), MarkerD(1)} :
     /\ m[1] + Len(m[2]) - 1 <= Len(bytes)
     /\ SubSeq(bytes, m[1], m[1] + Len(m[2]) - 1) = m[2]}

TerminalIsLastMarker ==
  LET marks == MarkersIn(seen) IN
  IF marks = {} THEN parser.terminal_state = "Idle"
  ELSE \E m \in marks :
         /\ \A other \in marks : other[1] <= m[1]
         /\ parser.terminal_state = TerminalStateAfter("Idle", [kind |-> m[2][5], code |-> 0])

(* The history holds the last lines of the output, stripped of what lies in*)
(* an escape sequence.                                                     *)
InEscape(bytes, i) ==
  \E b \in 1..i :
    /\ bytes[b] = ESC
    /\ \/ i <= b + 1
       \/ bytes[b + 1] = "[" /\ \A k \in (b + 2)..(i - 1) : ~IsCsiFinal(bytes[k])
       \/ bytes[b + 1] = "]" /\ \A k \in (b + 2)..(i - 1) : bytes[k] \notin {BEL, ESC}

LinesOf(bytes) ==
  LET shown   == {i \in 1..Len(bytes) : ~InEscape(bytes, i)}
      ends    == Picked([i \in 1..Len(bytes) |-> i], {i \in shown : bytes[i] = "\n"})
      From(k) == IF k = 1 THEN 1 ELSE ends[k - 1] + 1
      Line(k) == {i \in From(k)..ends[k] : i \in shown /\ bytes[i] \notin Control}
  IN [k \in 1..Len(ends) |-> Picked(bytes, Line(k))]

Last(lines, n) == SubSeq(lines, IF Len(lines) <= n THEN 1 ELSE Len(lines) - n + 1, Len(lines))

HistoryIsTail == history.lines = Last(LinesOf(seen), HistoryLines)

(* With a user who waits for the prompt, every command that has ended is   *)
(* journaled once, in order and with its own exit code, and with an output *)
(* that is the end of what it has printed and nothing else, also between   *)
(* turns of the agent and when one is interrupted.                         *)
CommandsRecorded ==
  /\ Len(recorded) <= Len(ended)
  /\ \A i \in 1..Len(recorded) :
       /\ recorded[i].cmd = ended[i].cmd /\ recorded[i].code = ended[i].code
       /\ \E from \in 1..(Len(ended[i].output) + 1) :
            recorded[i].output =
              HistoryFeedBytes(NewHistory(CaptureLines),
                               SubSeq(ended[i].output, from, Len(ended[i].output))).lines
  /\ wire = <<>> => Len(recorded) = Len(ended)
=============================================================================
