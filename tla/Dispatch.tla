------------------------------ MODULE Dispatch ------------------------------
(***************************************************************************)
(* The execution of approved commands: the REPL's command queue, the PTY   *)
(* it writes to, the shell that reads it, and the OSC 133 markers that     *)
(* come back and drive the queue (crates/ua-core/src/repl.rs, with the     *)
(* marker order of crates/ua-core/src/shell_scripts.rs).                   *)
(*                                                                         *)
(* The REPL is reduced to the two modes that matter here: Executing, and   *)
(* "Idle" for everything else; module Repl has the whole event loop.  What *)
(* its other states do to the PTY and the queue is here: a typed line, a   *)
(* nudge, and the end of a cancelled task, which takes Executing away.     *)
(* The shell and the terminal line discipline are the environment.  133;C  *)
(* and the text of the output are left out: the queue ignores them.        *)
(***************************************************************************)
EXTENDS CommandQueue

CONSTANTS
  Command,       \* the commands a batch may hold
  MultiLine,     \* those whose text holds a newline: the shell reads two lines
  Exits,         \* the exit codes of commands
  BAtPrompt,     \* 133;B ends the prompt (bash, zsh); FALSE: it follows Enter (fish)
  PromptRedrawn, \* a batch is approved only once the prompt of the last nudge is back
  Capacity,      \* bound: markers the terminal holds before the shell blocks
  MaxBatch,      \* bound: commands in a batch
  MaxRuns,       \* bound: batches
  MaxKeys        \* bound: lines that come between those of the batches

ASSUME DispatchAssumption ==
  /\ MultiLine \subseteq Command
  /\ Exits \subseteq Nat
  /\ BAtPrompt \in BOOLEAN /\ PromptRedrawn \in BOOLEAN
  /\ Capacity \in Nat \ {0}
  /\ MaxBatch \in Nat /\ MaxRuns \in Nat /\ MaxKeys \in Nat

VARIABLES
  mode,    \* AgentState: "Executing", or "Idle" for every other state
  queue,   \* the CommandQueue
  tty,     \* lines written to the PTY and not yet read by the shell
  shell,   \* what the shell is doing, and the line it does it with
  out,     \* markers the shell has printed and the REPL has not processed
  runs,    \* batches approved so far
  keys,    \* lines so far that are of no batch: typed, or nudges
  batch,   \* history: the last approved batch
  ran,     \* history: the commands of that batch that have ended
  status   \* history: what became of that batch

envVars  == <<tty, shell, out>>
histVars == <<batch, ran>>
vars     == <<mode, queue, tty, shell, out, runs, keys, batch, ran, status>>

-----------------------------------------------------------------------------
(* Lines on their way to the shell.  The part "last" of a command line ends*)
(* the command; a blank line is a nudge of the REPL or a Control-C at the  *)
(* prompt, and a key line is one the user typed.                           *)

None == "none"

Line == [kind : {"part", "last"}, cmd : Command] \cup [kind : {"blank", "key"}, cmd : {None}]

Blank == [kind |-> "blank", cmd |-> None]
Key   == [kind |-> "key",   cmd |-> None]

Text(c) == LET last == <<[kind |-> "last", cmd |-> c]>>
           IN IF c \in MultiLine THEN <<[kind |-> "part", cmd |-> c]>> \o last
                                 ELSE last

IsCommand(line) == line.kind \in {"part", "last"}

(* The shell prints D and A before the prompt, and B where its integration *)
(* script does: after the prompt, or (fish) when a line has been entered.  *)
Phase == {"prompt", "running", "done", "started"}

NoLine == Blank

Shell == [phase : Phase, line : Line]

AtPrompt == shell.phase = "prompt" /\ tty = <<>> /\ out = <<>>

Init ==
  /\ mode = "Idle"
  /\ queue = EmptyQueue
  /\ tty = <<>> /\ out = <<>>
  /\ shell = [phase |-> "prompt", line |-> NoLine]
  /\ runs = 0 /\ keys = 0
  /\ batch = <<>> /\ ran = <<>> /\ status = "idle"

-----------------------------------------------------------------------------
(* The REPL.  A write to the PTY may fail; the writes whose result the     *)
(* code ignores are modelled as succeeding.                                *)

Write(lines) == tty' = tty \o lines

(* Mutant of Approve: the whole batch is written at once.                  *)
ApproveAllAtOnce(b) ==
  /\ mode = "Idle" /\ runs < MaxRuns
  /\ PromptRedrawn => AtPrompt
  /\ runs' = runs + 1
  /\ batch' = b /\ ran' = <<>>
  /\ queue' = [Enqueue(queue, b) EXCEPT !.commands = <<>>]
  /\ tty' = tty \o [i \in 1..Len(b) |-> [kind |-> "last", cmd |-> b[i]]]
  /\ mode' = "Executing" /\ status' = "running"
  /\ UNCHANGED <<shell, out, keys>>

(* The batch is enqueued and its first command written.  If the PTY does   *)
(* not take it the queue is cleared and the REPL stays Idle.               *)
Approve(b) ==
  /\ mode = "Idle" /\ runs < MaxRuns
  /\ PromptRedrawn => AtPrompt
  /\ runs' = runs + 1
  /\ batch' = b /\ ran' = <<>>
  /\ LET q == Enqueue(queue, b) IN
       \/ /\ queue' = PopImmediate(q)
          /\ Write(Text(Head(q.commands)))
          /\ mode' = "Executing" /\ status' = "running"
       \/ /\ queue' = Clear(q)
          /\ mode' = "Idle" /\ status' = "stopped"
          /\ UNCHANGED tty
  /\ UNCHANGED <<shell, out, keys>>

(* Control-C while executing: the byte goes to the PTY, the queue is       *)
(* cleared and a blank line nudges the shell.  The line discipline drops   *)
(* the input a running command has not read; at its prompt the shell takes *)
(* the byte for an empty line.                                             *)
CtrlC ==
  /\ mode = "Executing"
  /\ queue' = Clear(queue)
  /\ mode' = "Idle"
  /\ status' = IF status = "running" THEN "aborted" ELSE status
  /\ tty' = IF shell.phase = "running" THEN <<Blank>> ELSE tty \o <<Blank, Blank>>
  /\ UNCHANGED <<shell, out, runs, keys, histVars>>

(* Any other line the user types is forwarded to the PTY, in Executing and *)
(* in Idle.  Outside of Executing so is Control-C, and a turn that ends    *)
(* there nudges the shell.                                                 *)
ForwardKeys ==
  /\ keys < MaxKeys
  /\ keys' = keys + 1
  /\ \/ Write(<<Key>>)
     \/ mode = "Idle" /\ Write(<<Blank>>)
     \/ mode = "Idle" /\ shell.phase = "running" /\ tty' = <<>>
  /\ UNCHANGED <<mode, queue, shell, out, runs, histVars, status>>

(* The BackendDone or JudgeResult of a task that was cancelled long ago:   *)
(* std::mem::replace puts Idle in the place of Executing before the pattern*)
(* is seen not to match.  The queue goes on behind it.                     *)
StaleEnd ==
  /\ mode = "Executing"
  /\ mode' = "Idle"
  /\ UNCHANGED <<queue, tty, shell, out, runs, keys, histVars, status>>

(* One marker of the PTY output is processed: handle_osc_event, and what   *)
(* the REPL does with the event it returns.                                *)
OnMarker ==
  /\ out # <<>>
  /\ out' = Tail(out)
  /\ LET marker == Head(out)
         event  == QueueEvent(queue, marker)
     IN \/ /\ event = "None"
           /\ queue' = QueueAfter(queue, marker)
           /\ UNCHANGED <<mode, tty, status>>
        \/ /\ event = "Dispatch"
           /\ queue' = QueueAfter(queue, marker)
           /\ Write(Text(Head(queue.commands)))
           /\ UNCHANGED <<mode, status>>
        \/ /\ event = "Dispatch"               \* the write fails
           /\ queue' = Clear(QueueAfter(queue, marker))
           /\ mode' = "Idle" /\ status' = "stopped"
           /\ UNCHANGED tty
        \/ /\ event = "AllDone"
           /\ queue' = QueueAfter(queue, marker)
           /\ mode' = "Idle" /\ status' = "done"
           /\ UNCHANGED tty
        \/ /\ event = "Failed"
           /\ queue' = QueueAfter(queue, marker)
           /\ mode' = "Idle" /\ status' = "failed"
           /\ Write(<<Blank>>)
  /\ UNCHANGED <<shell, runs, keys, histVars>>

-----------------------------------------------------------------------------
(* The shell.                                                              *)

Emit(marker) == Len(out) < Capacity /\ out' = Append(out, marker)

(* At its prompt the shell reads a line.  Fish announces an entered        *)
(* command with B.                                                         *)
ReadLine ==
  /\ shell.phase = "prompt" /\ tty # <<>>
  /\ shell' = [phase |-> "running", line |-> Head(tty)]
  /\ tty' = Tail(tty)
  /\ IF ~BAtPrompt /\ Head(tty).kind # "blank" THEN Emit(MarkB)
                                               ELSE UNCHANGED out
  /\ UNCHANGED <<mode, queue, runs, keys, histVars, status>>

(* A running command may read a typed line itself.                         *)
CommandReadsKey ==
  /\ shell.phase = "running" /\ IsCommand(shell.line)
  /\ tty # <<>> /\ Head(tty) = Key
  /\ tty' = Tail(tty)
  /\ UNCHANGED <<mode, queue, shell, out, runs, keys, histVars, status>>

(* The line has been executed; its exit code is reported by D.             *)
FinishLine(code) ==
  /\ shell.phase = "running"
  /\ shell' = [shell EXCEPT !.phase = "done"]
  /\ Emit(MarkD(code))
  /\ IF shell.line.kind = "last"
     THEN /\ ran' = Append(ran, [cmd |-> shell.line.cmd, code |-> code])
          /\ status' = IF status = "aborted" THEN "stopped" ELSE status
     ELSE UNCHANGED <<ran, status>>
  /\ UNCHANGED <<mode, queue, tty, runs, keys, batch>>

StartPrompt ==
  /\ shell.phase = "done"
  /\ shell' = [shell EXCEPT !.phase = "started"]
  /\ Emit(MarkA)
  /\ UNCHANGED <<mode, queue, tty, runs, keys, histVars, status>>

EndPrompt ==
  /\ shell.phase = "started"
  /\ shell' = [phase |-> "prompt", line |-> NoLine]
  /\ IF BAtPrompt THEN Emit(MarkB) ELSE UNCHANGED out
  /\ UNCHANGED <<mode, queue, tty, runs, keys, histVars, status>>

Batches == UNION {[1..n -> Command] : n \in 1..MaxBatch}

ShellStep ==
  \/ ReadLine \/ CommandReadsKey \/ StartPrompt \/ EndPrompt
  \/ \E code \in Exits : FinishLine(code)

ReplStep ==
  \/ \E b \in Batches : Approve(b)
  \/ CtrlC \/ ForwardKeys \/ StaleEnd \/ OnMarker

Next == ReplStep \/ ShellStep

(* The event loop keeps processing output, the shell keeps working, and    *)
(* every command ends.                                                     *)
Fairness == WF_vars(OnMarker) /\ WF_vars(ShellStep)

Spec     == Init /\ [][Next]_vars
FairSpec == Spec /\ Fairness

-----------------------------------------------------------------------------
(* Properties.                                                             *)

(* Types; and a queue that waits for a prompt is executing.                *)
TypeOK ==
  /\ mode \in {"Idle", "Executing"}
  /\ queue \in Queue(Command)
  /\ tty \in Seq(Line)
  /\ shell \in Shell
  /\ out \in Seq(Marker)
  /\ runs \in Nat /\ keys \in Nat
  /\ batch \in Seq(Command)
  /\ ran \in Seq([cmd : Command, code : Exits])
  /\ status \in {"idle", "running", "done", "failed", "aborted", "stopped"}
  /\ queue.awaiting_ready => queue.executing

(* The last lines of commands that the REPL has written and the shell has  *)
(* not finished.                                                           *)
Waiting == {i \in 1..Len(tty) : tty[i].kind = "last"}
InShell == shell.phase = "running" /\ shell.line.kind = "last"

(* Commands are handed to the shell one at a time (doc comment of          *)
(* CommandQueue): never is one written while another has not ended.        *)
OneAtATime ==
  /\ \A i, j \in Waiting : i = j
  /\ InShell => Waiting = {}

(* A queue that executes has something to wait for: a line the shell has   *)
(* not read or not ended, or the rest of a prompt on its way.  Executing   *)
(* never waits for a queue that does not, and a queue that does not execute*)
(* holds no command for the next batch to start with.                      *)
NoBatchStuck ==
  /\ queue.executing => ~AtPrompt
  /\ mode = "Executing" => queue.executing
  /\ queue.commands # <<>> => queue.executing

(* AllDone, "all queued commands have finished executing": once the REPL   *)
(* has been told so, nothing of the batch is waiting or running.           *)
AllDoneIsLast == status = "done" => Waiting = {} /\ ~InShell

(* The batch is run as BatchRun says: in order, one at a time, stopping at *)
(* the first failure, and reported when it has ended.                      *)
Abstract == INSTANCE BatchRun
Implements == Abstract!Spec

(* A batch that was started is eventually over, also when a stale end has  *)
(* left it behind an idle REPL.                                            *)
BatchEnds == queue.executing ~> ~queue.executing
=============================================================================
