---------------------------- MODULE CommandQueue ----------------------------
(***************************************************************************)
(* The CommandQueue of the REPL (crates/ua-core/src/repl.rs), as a value:  *)
(* a record with the four fields of the struct, and one operator per       *)
(* method.  The modules that own a queue variable (Dispatch, Repl) apply   *)
(* these operators to it.                                                  *)
(*                                                                         *)
(* Commands are any values.  An exit code is a natural number; NoCode is   *)
(* the None of Option<i32>.                                                *)
(***************************************************************************)
EXTENDS Integers, Sequences

NoCode   == -1
ExitCode == Nat

(* The OSC 133 markers the queue is fed with: D carries the exit code of   *)
(* the command that just ended, the others carry nothing.                  *)
Marker == [m : {"A", "B", "C", "D"}, code : ExitCode \cup {NoCode}]

MarkA       == [m |-> "A", code |-> NoCode]
MarkB       == [m |-> "B", code |-> NoCode]
MarkC       == [m |-> "C", code |-> NoCode]
MarkD(code) == [m |-> "D", code |-> code]

Queue(Command) == [commands       : Seq(Command),
                   awaiting_ready : BOOLEAN,
                   executing      : BOOLEAN,
                   last_exit_code : ExitCode \cup {NoCode}]

EmptyQueue == [commands       |-> <<>>,
               awaiting_ready |-> FALSE,
               executing      |-> FALSE,
               last_exit_code |-> NoCode]

(* Mutant of Clear: the commands stay.                                     *)
ClearFlagsOnly(q) == [EmptyQueue EXCEPT !.commands = q.commands]

Clear(q) == EmptyQueue

(* Mutant of Enqueue: the executing flag is not raised.                    *)
EnqueueQuietly(q, batch) == [q EXCEPT !.commands = @ \o batch]

(* enqueue: last_exit_code and awaiting_ready keep their old values.       *)
Enqueue(q, batch) ==
  [q EXCEPT !.commands  = @ \o batch,
            !.executing = @ \/ q.commands \o batch # <<>>]

PopImmediate(q) == [q EXCEPT !.commands = Tail(@)]

-----------------------------------------------------------------------------
(* handle_osc_event, split by what it returns and what it leaves behind.   *)

LastFailed(q) == q.last_exit_code \notin {NoCode, 0}

(* Mutant of QueueEvent: the exit code is not looked at (DESIGN.md 19.2.4  *)
(* describes this version of the code).                                    *)
QueueEventIgnoringCodes(q, marker) ==
  IF marker.m # "B" \/ ~q.awaiting_ready THEN "None"
  ELSE IF q.commands = <<>> THEN "AllDone" ELSE "Dispatch"

(* Mutant of QueueEvent: a command is dispatched at the prompt start, 133;A,*)
(* as in the version before the 133;B fix.                                 *)
QueueEventAtPromptStart(q, marker) ==
  IF marker.m \notin {"A", "B"} \/ ~q.executing THEN "None"
  ELSE IF LastFailed(q)
       THEN IF q.commands = <<>> THEN "AllDone" ELSE "Failed"
       ELSE IF q.commands = <<>> THEN "AllDone" ELSE "Dispatch"

(* The QueueEvent returned for a marker: only a B that the queue is        *)
(* waiting for says anything.                                              *)
QueueEvent(q, marker) ==
  IF marker.m # "B" \/ ~q.awaiting_ready THEN "None"
  ELSE IF q.commands = <<>> THEN "AllDone"
  ELSE IF LastFailed(q) THEN "Failed"
  ELSE "Dispatch"

(* Mutant of QueueAfter: a B is waited for even when nothing executes.     *)
QueueAfterAlwaysWaiting(q, marker) ==
  CASE marker.m = "D" -> [q EXCEPT !.last_exit_code = marker.code]
    [] marker.m = "A" -> [q EXCEPT !.awaiting_ready = TRUE]
    [] marker.m = "B" /\ q.awaiting_ready ->
         IF LastFailed(q) THEN Clear(q)
         ELSE IF q.commands = <<>>
              THEN [q EXCEPT !.awaiting_ready = FALSE, !.executing = FALSE]
              ELSE [q EXCEPT !.awaiting_ready = FALSE, !.commands = Tail(@)]
    [] OTHER -> q

(* Mutant of QueueAfter: the B after the last command is not waited for.   *)
QueueAfterWhileCommandsWait(q, marker) ==
  CASE marker.m = "D" -> [q EXCEPT !.last_exit_code = marker.code]
    [] marker.m = "A" -> [q EXCEPT !.awaiting_ready = @ \/ q.commands # <<>>]
    [] marker.m = "B" /\ q.awaiting_ready ->
         IF LastFailed(q) THEN Clear(q)
         ELSE IF q.commands = <<>>
              THEN [q EXCEPT !.awaiting_ready = FALSE, !.executing = FALSE]
              ELSE [q EXCEPT !.awaiting_ready = FALSE, !.commands = Tail(@)]
    [] OTHER -> q

(* The queue after a marker.  A dispatched command has left it.            *)
QueueAfter(q, marker) ==
  CASE marker.m = "D" -> [q EXCEPT !.last_exit_code = marker.code]
    [] marker.m = "A" -> [q EXCEPT !.awaiting_ready = @ \/ q.executing]
    [] marker.m = "B" /\ q.awaiting_ready ->
         IF LastFailed(q) THEN Clear(q)
         ELSE IF q.commands = <<>>
              THEN [q EXCEPT !.awaiting_ready = FALSE, !.executing = FALSE]
              ELSE [q EXCEPT !.awaiting_ready = FALSE, !.commands = Tail(@)]
    [] OTHER -> q
=============================================================================
