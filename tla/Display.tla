------------------------------- MODULE Display -------------------------------
(***************************************************************************)
(* What the user sees of an answer: the accumulator of the events of a     *)
(* stream (crates/ua-core/src/display.rs), the lines ReplRenderer writes   *)
(* (renderer.rs), and what the event loop has it write for each event.     *)
(*                                                                         *)
(* The screen is the line of the cursor and all that is above it, as the   *)
(* items that can be seen.  A text is a sequence of pieces, some of them   *)
(* line breaks.  Colours, wording and the width of the terminal are left   *)
(* out.                                                                    *)
(***************************************************************************)
EXTENDS Selection

LineBreak == "line break"

Item(kind, piece) == [kind |-> kind, piece |-> piece]
Spinner == Item("spinner", "")

-----------------------------------------------------------------------------
(* ReplRenderer, and the terminal.                                         *)

NewScreen == [above |-> <<>>, line |-> <<>>, spinner_active |-> FALSE]

(* \r\x1b[K, \r\n, and characters.                                         *)
Erase(s)     == [s EXCEPT !.line = <<>>]
NextLine(s)  == [s EXCEPT !.above = @ \o s.line, !.line = <<>>]
Put(s, item) == [s EXCEPT !.line = Append(@, item)]

ClearSpinner(s) == IF s.spinner_active THEN [Erase(s) EXCEPT !.spinner_active = FALSE] ELSE s

SpinnerInitial(s) == [Put(NextLine(s), Spinner) EXCEPT !.spinner_active = TRUE]
SpinnerTick(s)    == [Put(Erase(s), Spinner) EXCEPT !.spinner_active = TRUE]

(* emit_clear_line and emit_stream_end                                     *)
ClearLine(s) == Erase(ClearSpinner(s))
StreamEnd(s) == NextLine(ClearSpinner(s))

(* A line that takes the place of the cursor's, after \r: the thinking,    *)
(* agents, warnings, verdicts, the footer.  What a shorter line leaves of  *)
(* the one it overwrites is left out.                                      *)
InPlace(s, item) == NextLine(Put(ClearLine(s), item))

(* A line below it: emit_error, emit_cancelled, emit_skipped, ...          *)
Below(s, item) == NextLine(Put(NextLine(ClearSpinner(s)), item))

(* A line that is not ended: emit_judging and emit_approval_prompt.        *)
Ask(s, kind) == Put(ClearLine(s), Item(kind, ""))

(* One line for each command, with a label: emit_command_safe,             *)
(* emit_command_risk and emit_denied.                                      *)
ListedUpTo(s, label, commands) ==
  LET upTo[n \in 0..Len(commands)] ==
        IF n = 0 THEN s ELSE InPlace(upTo[n - 1], Item(label, commands[n]))
  IN upTo

Listed(s, label, commands) == ListedUpTo(s, label, commands)[Len(commands)]

(* emit_arg_warning                                                        *)
Warned(s) == InPlace(s, Item("warning", ""))

(* emit_char and emit_backspace                                            *)
Echo(s, key) == Put(s, Item("typed", key))
Rubout(s)    == [s EXCEPT !.line = SubSeq(@, 1, Len(@) - 1)]

(* emit_text                                                               *)
TextUpTo(s, pieces) ==
  LET upTo[n \in 0..Len(pieces)] ==
        IF n = 0 THEN ClearSpinner(s)
        ELSE IF pieces[n] = LineBreak THEN NextLine(upTo[n - 1])
        ELSE Put(upTo[n - 1], Item("text", pieces[n]))
  IN upTo

Text(s, pieces) == TextUpTo(s, pieces)[Len(pieces)]

-----------------------------------------------------------------------------
(* PlanDisplay and the fields of AgentState::Streaming for it.             *)

NewDisplay == [status |-> "Idle", streaming_text |-> <<>>, thinking_text |-> <<>>,
               is_thinking |-> FALSE, first_line_shown |-> FALSE]

HasBreak(pieces) == \E i \in 1..Len(pieces) : pieces[i] = LineBreak

ShowsThought(d, event) ==
  event.kind = "ThinkingDelta" /\ ~d.first_line_shown /\ HasBreak(d.thinking_text \o event.content)

(* Event::BackendChunk: the fields afterwards,                             *)
Accumulated(d, event) ==
  CASE event.kind = "ThinkingDelta" ->
         [d EXCEPT !.status = "Thinking", !.is_thinking = TRUE,
                   !.thinking_text = @ \o event.content,
                   !.first_line_shown = @ \/ ShowsThought(d, event)]
    [] event.kind = "TextDelta" ->
         [d EXCEPT !.status = "Streaming", !.is_thinking = FALSE,
                   !.streaming_text = @ \o event.content]
    [] event.kind = "Error" -> [d EXCEPT !.status = "Error"]
    [] OTHER -> d

(* and the screen.  The first line of the thinking is shown when it is     *)
(* complete, or else when text follows; the first text takes its line.     *)
Drawn(d, s, event) ==
  CASE event.kind = "ThinkingDelta" ->
         IF ShowsThought(d, event) THEN InPlace(s, Item("thought", "")) ELSE s
    [] event.kind = "TextDelta" ->
         Text(IF d.is_thinking
              THEN IF d.first_line_shown THEN s
                   ELSE IF d.thinking_text = <<>> THEN ClearLine(s)
                   ELSE InPlace(s, Item("thought", ""))
              ELSE IF d.streaming_text = <<>> THEN ClearLine(s) ELSE s,
              event.content)
    [] event.kind = "Error" -> IF d.streaming_text = <<>> THEN ClearLine(s) ELSE s
    [] OTHER -> s

(* Mutant of Spins: whatever has been shown.                               *)
SpinsAlways(d) == ~d.is_thinking

(* Event::SpinnerTick: only if no content has arrived yet.                 *)
Spins(d) == d.streaming_text = <<>> /\ ~d.is_thinking /\ ~d.first_line_shown

(* Mutant of Ended: the spinner is left where it is.                       *)
EndedSpinning(d, s) ==
  IF d.status = "Error" THEN [Below(s, Item("error", "")) EXCEPT !.spinner_active = s.spinner_active]
  ELSE NextLine(s)

(* Event::BackendDone                                                      *)
Ended(d, s) ==
  IF d.status = "Error" THEN Below(StreamEnd(s), Item("error", "")) ELSE StreamEnd(s)

-----------------------------------------------------------------------------
(* The decision on the commands of an answer.                              *)

(* show_approval_ui                                                        *)
ApprovalUi(s, commands) == Ask(Listed(s, "risk", commands), "prompt")

(* handle_judge_verdict: it says nothing of a safe one.                    *)
VerdictShown(s, verdict) == IF verdict = "Safe" THEN s ELSE InPlace(s, Item("verdict", ""))

(* What can be seen of some kinds.                                         *)
OfKinds(items, kinds) == Picked(items, {i \in 1..Len(items) : items[i].kind \in kinds})

Visible(s, kinds) == OfKinds(s.above \o s.line, kinds)
=============================================================================
