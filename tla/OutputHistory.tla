---------------------------- MODULE OutputHistory ----------------------------
(***************************************************************************)
(* The last lines of an output, without its escape sequences               *)
(* (OutputHistory in crates/ua-core/src/context.rs).  The trimming of a    *)
(* line's end is left out, and the mode in which a carriage return drops   *)
(* the line.                                                               *)
(***************************************************************************)
EXTENDS Integers, Sequences

EscapeState == {"Ground", "Escape", "Csi", "Osc"}

NewHistory(max_lines) ==
  [lines |-> <<>>, current_line |-> <<>>, max_lines |-> max_lines,
   escape_state |-> "Ground"]

Control  == {"ESC", "BEL", "\n", "\r"}
CsiParam == {"0", "1", "133", ";"}

IsCsiFinal(byte) == byte \notin Control \cup CsiParam

(* Mutant of Evict: one line too many is kept.                             *)
EvictLate(lines, max_lines) ==
  IF Len(lines) <= max_lines + 1 THEN lines
  ELSE SubSeq(lines, Len(lines) - max_lines, Len(lines))

Evict(lines, max_lines) ==
  IF Len(lines) <= max_lines THEN lines
  ELSE SubSeq(lines, Len(lines) - max_lines + 1, Len(lines))

PushLine(h) ==
  [h EXCEPT !.lines = Evict(Append(@, h.current_line), h.max_lines), !.current_line = <<>>]

(* feed, of one byte                                                       *)
HistoryFeed(h, byte) ==
  CASE h.escape_state = "Ground" ->
         (CASE byte = "ESC"           -> [h EXCEPT !.escape_state = "Escape"]
            [] byte = "\n"            -> PushLine(h)
            [] byte \in {"\r", "BEL"} -> h
            [] byte \notin Control    -> [h EXCEPT !.current_line = Append(@, byte)])
    [] h.escape_state = "Escape" ->
         [h EXCEPT !.escape_state =
            CASE byte = "[" -> "Csi" [] byte = "]" -> "Osc" [] byte \notin {"[", "]"} -> "Ground"]
    [] h.escape_state = "Csi" ->
         IF IsCsiFinal(byte) THEN [h EXCEPT !.escape_state = "Ground"] ELSE h
    [] h.escape_state = "Osc" ->
         [h EXCEPT !.escape_state =
            CASE byte = "BEL" -> "Ground" [] byte = "ESC" -> "Escape" [] byte \notin {"BEL", "ESC"} -> @]

(* feed, byte by byte                                                      *)
HistoryFed(h, chunk) ==
  LET fed[i \in 0..Len(chunk)] == IF i = 0 THEN h ELSE HistoryFeed(fed[i - 1], chunk[i])
  IN fed

HistoryFeedBytes(h, chunk) == HistoryFed(h, chunk)[Len(chunk)]
=============================================================================
