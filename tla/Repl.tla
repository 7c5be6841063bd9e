-------------------------------- MODULE Repl --------------------------------
(***************************************************************************)
(* The event loop of the REPL (run_repl in crates/ua-core/src/repl.rs):    *)
(* one thread that takes events from an mpsc channel and drives the        *)
(* AgentState machine, against the threads and tasks that feed the channel:*)
(* the stdin reader, the PTY reader, the streaming tasks and the judge     *)
(* tasks.  The shell behind the PTY is left open: it may print any marker  *)
(* at any time, as any program running in it can (module Dispatch has the  *)
(* shells and the order in which their prompts print markers).             *)
(*                                                                         *)
(* A PtyOutput event carries one marker, or text; an output chunk with     *)
(* several markers is that many events in a row.  A Stdin event is one     *)
(* line or one control key.  Spinner ticks, resizes and child polls do not *)
(* touch this state and are left out.                                      *)
(***************************************************************************)
EXTENDS CommandQueue, FiniteSets

CONSTANTS
  Risks,               \* risk levels the backend's commands may have
  ChunkKinds,          \* stream events the backend may send
  Keys,                \* what the user may type
  Marks,               \* markers, or text, the shell may print
  SandboxActive,       \* run_repl's sandbox_active
  AutoApproveReadOnly, \* config.security.auto_approve_read_only
  JudgeEnabled,        \* config.security.judge_enabled
  RequireYes,          \* config.security.require_yes_for_privileged
  MaxStreams,          \* bound: streams started
  MaxChunks,           \* bound: events a stream sends
  MaxKeys,             \* bound: Stdin events
  MaxOut,              \* bound: PtyOutput events
  MaxChannel           \* bound: events in the channel

RiskLevel == {"ReadOnly", "BuildTest", "Write", "Destructive", "Network",
              "Privileged", "Denied"}

StreamId == 1..MaxStreams
NoTask   == 0

(* A proposed command: which stream proposed it, as which of its events,   *)
(* and the risk analyze_pipe_chain finds in it.                            *)
Cmd == [src : StreamId, nth : 1..MaxChunks, risk : Risks]

(* Output that is no marker.                                               *)
Text == [m |-> "text", code |-> NoCode]

ASSUME ReplAssumption ==
  /\ Risks \subseteq RiskLevel
  /\ ChunkKinds \subseteq {"text", "tool", "malformed", "error"}
  /\ Keys \subseteq {"instr", "line", "yes", "y", "n", "intr"}
  /\ \A mark \in Marks : mark = Text \/ mark \in Marker
  /\ {SandboxActive, AutoApproveReadOnly, JudgeEnabled, RequireYes} \subseteq BOOLEAN
  /\ {MaxStreams, MaxChunks, MaxKeys, MaxOut, MaxChannel} \subseteq Nat

VARIABLES
  agent,     \* AgentState
  queue,     \* CommandQueue
  terminal,  \* parser.terminal_state
  linebuf,   \* line_buf holds something
  usercmd,   \* pending_user_command is Some
  instr,     \* pending_instruction: the turn it belongs to, or 0
  ptybuf,    \* pty_buffer: numbers of the output events held back
  shown,     \* numbers of the output events written to stdout
  totals,    \* total_* counters: the streams counted in them
  journal,   \* the session journal
  cache,     \* cached_conversation: the entries it was made from, or NoCache
  audit,     \* approvals in the audit log
  sent,      \* commands written to the PTY
  running,   \* the loop has not been left
  chan,      \* the mpsc channel
  streams,   \* streaming tasks
  judges,    \* judge tasks
  keys,      \* Stdin events so far
  outs,      \* PtyOutput events so far
  turn,      \* history: instructions given so far
  refused    \* history: commands the user has refused or interrupted

loopVars == <<agent, queue, terminal, linebuf, usercmd, instr, ptybuf, shown,
              totals, journal, cache, audit, sent, running, turn, refused>>
taskVars == <<streams, judges>>
envVars  == <<keys, outs>>
vars     == <<loopVars, chan, taskVars, envVars>>

-----------------------------------------------------------------------------
(* Values.                                                                 *)

Mode == {"Idle", "Streaming", "Judging", "Approving", "Executing"}

(* The fields of the AgentState variants: task owns the cancel_tx the state*)
(* holds (and names the batch in Approving and Executing); cmds are        *)
(* tool_commands or commands; uses tells whether tool_uses is non-empty;   *)
(* failed is DisplayStatus::Error; typed is the yes_buffer being non-empty;*)
(* output tells whether the capture holds a line.                          *)
State(mode, task, cmds) ==
  [mode |-> mode, task |-> task, cmds |-> cmds,
   uses |-> FALSE, failed |-> FALSE, typed |-> FALSE, output |-> FALSE]

Idle == State("Idle", NoTask, <<>>)

AgentState ==
  [mode : Mode, task : StreamId \cup {NoTask}, cmds : Seq(Cmd),
   uses : BOOLEAN, failed : BOOLEAN, typed : BOOLEAN, output : BOOLEAN]

RangeOf(s) == {s[i] : i \in 1..Len(s)}

(* Mutant of HasPrivileged: one unprivileged command hides the others.     *)
AllPrivileged(cmds) == \A c \in RangeOf(cmds) : c.risk = "Privileged"

HasPrivileged(cmds) == \E c \in RangeOf(cmds) : c.risk = "Privileged"
NeedYes(cmds)       == RequireYes /\ HasPrivileged(cmds)

(* Journal entries, with the turn or stream they belong to.  SystemPrompt  *)
(* entries, which no conversation is built from, are left out.             *)
Entry(kind, id) == [kind |-> kind, id |-> id]
EntryKind == {"Instruction", "Response", "ToolResult", "Blocked", "ShellCommand"}
JournalEntry == [kind : EntryKind, id : Nat]

(* cached_conversation, an Option, as the entries it was made from.        *)
Conversation == [some : BOOLEAN, conv : Seq(JournalEntry)]

NoCache      == [some |-> FALSE, conv |-> <<>>]
Cached(conv) == [some |-> TRUE, conv |-> conv]

(* Mutant of Push: the cached conversation is not brought up to date.      *)
PushNothing(entry) == cache

Push(entry) == IF cache.some THEN Cached(Append(cache.conv, entry)) ELSE cache

NoTotals == [tokens |-> {}, commands |-> {}]
Totals   == [tokens : SUBSET StreamId, commands : SUBSET StreamId]

(* A task: for a stream, how many events it has sent, and the turn it      *)
(* works for; for a judge, the instruction it was given (0: the empty one).*)
TaskState == [st : {"unborn", "running", "ended", "panicked"}, chunks : 0..MaxChunks, turn : Nat]
Unborn    == [st |-> "unborn", chunks |-> 0, turn |-> 0]
Started(t) == [st |-> "running", chunks |-> 0, turn |-> t]

(* The events of the channel.                                              *)
Stdin(key)          == [e |-> "Stdin", key |-> key]
PtyOutput(n, mark)  == [e |-> "PtyOutput", n |-> n, mark |-> mark]
PtyEof              == [e |-> "PtyEof"]
Chunk(s, kind, cmd) == [e |-> "BackendChunk", s |-> s, kind |-> kind, cmd |-> cmd]
Done(s)             == [e |-> "BackendDone", s |-> s]
JudgeResult(s)      == [e |-> "JudgeResult", s |-> s]

EventType ==
  [e : {"Stdin"}, key : Keys]
  \cup [e : {"PtyOutput"}, n : 1..MaxOut, mark : Marks]
  \cup {PtyEof}
  \cup [e : {"BackendChunk"}, s : StreamId, kind : ChunkKinds, cmd : Cmd]
  \cup [e : {"BackendDone", "JudgeResult"}, s : StreamId]

Init ==
  /\ agent = Idle /\ queue = EmptyQueue
  /\ terminal = "Idle" /\ linebuf = FALSE /\ usercmd = FALSE /\ instr = 0
  /\ ptybuf = <<>> /\ shown = <<>>
  /\ totals = NoTotals
  /\ journal = <<>> /\ cache = NoCache /\ audit = {} /\ sent = {}
  /\ running = TRUE
  /\ chan = <<>>
  /\ streams = [s \in StreamId |-> Unborn]
  /\ judges = [s \in StreamId |-> Unborn]
  /\ keys = 0 /\ outs = 0
  /\ turn = 0 /\ refused = {}

-----------------------------------------------------------------------------
(* Steps shared by the handlers.                                           *)

Take(e) ==
  /\ running
  /\ chan # <<>> /\ Head(chan).e = e
  /\ chan' = Tail(chan)

(* Mutant of Flush: the buffer is cleared and not written.                 *)
FlushNothing == ptybuf' = <<>> /\ UNCHANGED shown

Flush == shown' = shown \o ptybuf /\ ptybuf' = <<>>

(* start_streaming, called with the journal and cache as the caller left   *)
(* them: without a cached conversation it is rebuilt from the journal.     *)
(* Without an API key the REPL is Idle again.                              *)
StartStreaming(entries, cached, forTurn) ==
  /\ journal' = entries
  /\ \/ /\ agent' = Idle
        /\ cache' = cached
        /\ UNCHANGED streams
     \/ \E s \in StreamId :
          /\ streams[s].st = "unborn"
          /\ \A r \in 1..(s - 1) : streams[r].st # "unborn"
          /\ streams' = [streams EXCEPT ![s] = Started(forTurn)]
          /\ agent' = State("Streaming", s, <<>>)
          /\ cache' = IF cached.some THEN cached ELSE Cached(entries)

(* A batch has been approved: it is enqueued and its first command written.*)
RunBatch(cmds, how) ==
  LET q == Enqueue(queue, cmds) IN
  /\ audit' = audit \cup {[by |-> how, cmd |-> c] : c \in RangeOf(cmds)}
  /\ \/ /\ queue' = PopImmediate(q)
        /\ sent' = sent \cup {Head(q.commands)}
        /\ agent' = State("Executing", agent.task, <<>>)
     \/ /\ queue' = Clear(q)                 \* the PTY cannot be written
        /\ agent' = Idle
        /\ UNCHANGED sent

-----------------------------------------------------------------------------
(* Event::Stdin.                                                           *)

screenVars == <<ptybuf, shown>>
promptVars == <<terminal, linebuf, usercmd>>
recordVars == <<journal, cache>>
execVars   == <<queue, audit, sent>>

(* The line editor is mirrored only while the shell is at a prompt: Prompt,*)
(* Input, or Idle (after D, before A).                                     *)
AtPrompt == terminal # "Executing"

(* Keys that end in Enter; "yes" is that word and Enter.                   *)
Entered == {"instr", "line", "yes"}

(* What the REPL does not keep for itself is forwarded; if the PTY cannot  *)
(* be written the loop is left.                                            *)
Forward == running' \in BOOLEAN

(* "# instruction" at the prompt: journaled, and the first stream of a new *)
(* turn is started on a conversation rebuilt from the journal.             *)
StdinInstruction ==
  /\ Take("Stdin") /\ Head(chan).key = "instr"
  /\ agent.mode = "Idle" /\ AtPrompt /\ ~linebuf
  /\ turn' = turn + 1
  /\ instr' = turn + 1
  /\ StartStreaming(Append(journal, Entry("Instruction", turn + 1)), NoCache, turn + 1)
  /\ UNCHANGED <<promptVars, screenVars, totals, execVars, running, judges,
                 keys, outs, refused>>

(* Any other line at the prompt is a command of the user.  One still       *)
(* without exit code is journaled as such.                                 *)
StdinCommand ==
  /\ Take("Stdin") /\ Head(chan).key \in Entered
  /\ agent.mode = "Idle" /\ AtPrompt
  /\ Head(chan).key = "instr" => linebuf
  /\ usercmd' = TRUE
  /\ journal' = IF usercmd THEN Append(journal, Entry("ShellCommand", turn)) ELSE journal
  /\ linebuf' = FALSE
  /\ Forward
  /\ UNCHANGED <<agent, terminal, instr, screenVars, totals, cache, execVars,
                 streams, judges, keys, outs, turn, refused>>

(* Single keys at the prompt enter the line buffer, Control-C does not;    *)
(* while a command of the user runs, everything passes and the line buffer *)
(* is emptied.                                                             *)
StdinKey ==
  /\ Take("Stdin") /\ agent.mode = "Idle"
  /\ AtPrompt => Head(chan).key \notin Entered
  /\ linebuf' = (AtPrompt /\ (linebuf \/ Head(chan).key \in {"y", "n"}))
  /\ Forward
  /\ UNCHANGED <<agent, terminal, usercmd, instr, screenVars, totals, recordVars,
                 execVars, streams, judges, keys, outs, turn, refused>>

(* Streaming and Judging listen to Control-C only.                         *)
StdinIgnored ==
  /\ Take("Stdin") /\ agent.mode \in {"Streaming", "Judging"}
  /\ Head(chan).key # "intr"
  /\ UNCHANGED <<loopVars, streams, judges, keys, outs>>

CancelStreaming ==
  /\ Take("Stdin") /\ agent.mode = "Streaming" /\ Head(chan).key = "intr"
  /\ agent' = Idle
  /\ instr' = 0
  /\ refused' = refused \cup RangeOf(agent.cmds)
  /\ UNCHANGED <<promptVars, screenVars, totals, recordVars, execVars, running,
                 streams, judges, keys, outs, turn>>

CancelJudging ==
  /\ Take("Stdin") /\ agent.mode = "Judging" /\ Head(chan).key = "intr"
  /\ Flush
  /\ agent' = Idle
  /\ refused' = refused \cup RangeOf(agent.cmds)
  /\ UNCHANGED <<promptVars, instr, totals, recordVars, execVars, running,
                 streams, judges, keys, outs, turn>>

(* The keys that approve: one y or Enter; or, when a privileged command is *)
(* in the batch and the configuration asks for it, "yes" and Enter in an   *)
(* empty buffer.  A line typed ahead of the prompt is read for its letters:*)
(* it may hold a y, an n, or neither before its Enter.                     *)
Approves(key) ==
  IF NeedYes(agent.cmds) THEN key = "yes" /\ ~agent.typed
  ELSE key \in {"y", "yes", "instr", "line"}

Denies(key) ==
  \/ key = "intr"
  \/ IF NeedYes(agent.cmds) THEN key \in Entered /\ ~Approves(key)
     ELSE key \in {"n", "instr", "line"}

StdinApprove ==
  /\ Take("Stdin") /\ agent.mode = "Approving" /\ Approves(Head(chan).key)
  /\ Flush
  /\ totals' = [totals EXCEPT !.commands = @ \cup {agent.task}]
  /\ RunBatch(agent.cmds, IF NeedYes(agent.cmds) THEN "typed_yes" ELSE "keystroke")
  /\ UNCHANGED <<promptVars, instr, recordVars, running, streams, judges,
                 keys, outs, turn, refused>>

StdinDeny ==
  /\ Take("Stdin") /\ agent.mode = "Approving" /\ Denies(Head(chan).key)
  /\ Flush
  /\ totals' = NoTotals
  /\ agent' = Idle
  /\ refused' = refused \cup RangeOf(agent.cmds)
  /\ UNCHANGED <<promptVars, instr, recordVars, execVars, running,
                 streams, judges, keys, outs, turn>>

(* Any other key: in the typed confirmation it enters the yes_buffer.      *)
StdinUndecided ==
  /\ Take("Stdin") /\ agent.mode = "Approving"
  /\ ~Approves(Head(chan).key) /\ ~Denies(Head(chan).key)
  /\ agent' = [agent EXCEPT !.typed = TRUE]
  /\ UNCHANGED <<queue, promptVars, instr, screenVars, totals, recordVars, audit,
                 sent, running, streams, judges, keys, outs, turn, refused>>

(* Control-C while executing goes to the PTY and aborts the turn; any other*)
(* key is forwarded.                                                       *)
InterruptExecution ==
  /\ Take("Stdin") /\ agent.mode = "Executing" /\ Head(chan).key = "intr"
  /\ refused' = refused \cup RangeOf(queue.commands)
  /\ queue' = Clear(queue)
  /\ totals' = NoTotals
  /\ agent' = Idle
  /\ instr' = 0
  /\ UNCHANGED <<promptVars, screenVars, recordVars, audit, sent, running,
                 streams, judges, keys, outs, turn>>

StdinForwarded ==
  /\ Take("Stdin") /\ agent.mode = "Executing" /\ Head(chan).key # "intr"
  /\ UNCHANGED <<loopVars, streams, judges, keys, outs>>

OnStdin ==
  \/ StdinInstruction \/ StdinCommand \/ StdinKey \/ StdinIgnored
  \/ CancelStreaming \/ CancelJudging
  \/ StdinApprove \/ StdinDeny \/ StdinUndecided
  \/ InterruptExecution \/ StdinForwarded

-----------------------------------------------------------------------------
(* Events of the backend.                                                  *)

(* BackendChunk: accumulated by whatever stream is current, dropped in any *)
(* other state.                                                            *)
OnBackendChunk ==
  /\ Take("BackendChunk")
  /\ LET chunk == Head(chan) IN
     agent' = IF agent.mode # "Streaming" THEN agent ELSE
       CASE chunk.kind = "text"      -> [agent EXCEPT !.failed = FALSE]
         [] chunk.kind = "tool"      -> [agent EXCEPT !.cmds = Append(@, chunk.cmd),
                                                      !.uses = TRUE]
         [] chunk.kind = "malformed" -> [agent EXCEPT !.uses = TRUE]
         [] chunk.kind = "error"     -> [agent EXCEPT !.failed = TRUE]
  /\ UNCHANGED <<queue, promptVars, instr, screenVars, totals, recordVars, audit,
                 sent, running, streams, judges, keys, outs, turn, refused>>

Ends(event) == Take(event) /\ UNCHANGED <<promptVars, running, streams, keys, outs,
                                          turn, refused>>

(* BackendDone in any state but Streaming: std::mem::replace has already   *)
(* put Idle there when the pattern turns out not to match.                 *)
DoneElsewhere ==
  /\ Ends("BackendDone") /\ agent.mode # "Streaming"
  /\ agent' = Idle
  /\ UNCHANGED <<queue, instr, screenVars, totals, recordVars, audit, sent, judges>>

(* The stream reported an error: the counters keep its tokens.             *)
DoneWithError ==
  /\ Ends("BackendDone") /\ agent.mode = "Streaming" /\ agent.failed
  /\ agent' = Idle
  /\ instr' = 0
  /\ totals' = [totals EXCEPT !.tokens = @ \cup {agent.task}]
  /\ UNCHANGED <<execVars, screenVars, recordVars, judges>>

(* The response is journaled, pushed to the cached conversation, and its   *)
(* commands are classified.                                                *)
Responded ==
  /\ Ends("BackendDone") /\ agent.mode = "Streaming" /\ ~agent.failed
  /\ instr' = 0

Response == Entry("Response", agent.task)
Blocked  == Entry("Blocked", agent.task)
Counted  == [totals EXCEPT !.tokens = @ \cup {agent.task}]

(* classify_and_gate.                                                      *)
IsBlocked(cmds) == \E c \in RangeOf(cmds) : c.risk = "Denied"

SandboxSafe(cmds) == \A c \in RangeOf(cmds) : c.risk \in {"ReadOnly", "BuildTest", "Write"}
AllReadOnly(cmds) == \A c \in RangeOf(cmds) : c.risk = "ReadOnly"

AutoApproved(cmds) ==
  /\ ~IsBlocked(cmds)
  /\ \/ SandboxActive /\ SandboxSafe(cmds)
     \/ AutoApproveReadOnly /\ AllReadOnly(cmds)

(* No commands: the turn is over, its footer is printed.                   *)
RespondedNoCommands ==
  /\ Responded /\ agent.cmds = <<>>
  /\ agent' = Idle
  /\ totals' = NoTotals
  /\ journal' = Append(journal, Response) /\ cache' = NoCache
  /\ UNCHANGED <<execVars, screenVars, judges>>

RespondedBlocked ==
  /\ Responded /\ IsBlocked(agent.cmds)
  /\ agent' = Idle
  /\ totals' = NoTotals
  /\ journal' = journal \o <<Response, Blocked>> /\ cache' = NoCache
  /\ UNCHANGED <<execVars, screenVars, judges>>

RespondedAutoApproved ==
  /\ Responded /\ agent.cmds # <<>> /\ AutoApproved(agent.cmds)
  /\ totals' = [Counted EXCEPT !.commands = @ \cup {agent.task}]
  /\ RunBatch(agent.cmds, "auto")
  /\ journal' = Append(journal, Response) /\ cache' = Push(Response)
  /\ UNCHANGED <<screenVars, judges>>

(* The judge is asked, with pending_instruction as Responded has left it;  *)
(* without an API key the batch goes straight to the user.                 *)
RespondedToReview ==
  /\ Responded /\ agent.cmds # <<>>
  /\ ~IsBlocked(agent.cmds) /\ ~AutoApproved(agent.cmds)
  /\ totals' = Counted
  /\ journal' = Append(journal, Response) /\ cache' = Push(Response)
  /\ \/ /\ JudgeEnabled
        /\ agent' = State("Judging", agent.task, agent.cmds)
        /\ judges' = [judges EXCEPT ![agent.task] = Started(instr')]
     \/ /\ agent' = State("Approving", agent.task, agent.cmds)
        /\ UNCHANGED judges
  /\ UNCHANGED <<execVars, screenVars>>

OnBackendDone ==
  \/ DoneElsewhere \/ DoneWithError
  \/ RespondedNoCommands \/ RespondedBlocked \/ RespondedAutoApproved
  \/ RespondedToReview

(* JudgeResult: whatever the verdict, the user decides.  In any state but  *)
(* Judging the state is lost, as for BackendDone.                          *)
OnJudgeResult ==
  /\ Ends("JudgeResult")
  /\ \/ /\ agent.mode = "Judging"
        /\ agent' = State("Approving", agent.task, agent.cmds)
        /\ Flush
     \/ /\ agent.mode # "Judging"
        /\ agent' = Idle
        /\ UNCHANGED screenVars
  /\ UNCHANGED <<instr, totals, recordVars, execVars, judges>>

-----------------------------------------------------------------------------
(* Event::PtyOutput.                                                       *)

(* Mutant of Held: the approval prompt does not hold output back.          *)
HeldWhileJudging == agent.mode = "Judging"

Held == agent.mode \in {"Approving", "Judging"}

(* Output is written through, after what was held back; while the user or  *)
(* the judge decides it is held back.                                      *)
Display(n) ==
  IF Held THEN ptybuf' = Append(ptybuf, n) /\ UNCHANGED shown
          ELSE shown' = Append(shown \o ptybuf, n) /\ ptybuf' = <<>>

TerminalAfter(mark) ==
  CASE mark.m = "A" -> "Prompt"
    [] mark.m = "B" -> "Input"
    [] mark.m = "C" -> "Executing"
    [] mark.m = "D" -> "Idle"
    [] OTHER        -> terminal

(* What an output event does whatever the queue makes of its marker: D     *)
(* gives the user's own command its exit code, in Idle only.               *)
EndsUserCommand(mark) == mark.m = "D" /\ agent.mode = "Idle" /\ usercmd

Output(mark) ==
  /\ Take("PtyOutput") /\ Head(chan).mark = mark
  /\ Display(Head(chan).n)
  /\ terminal' = TerminalAfter(mark)
  /\ usercmd' = (usercmd /\ ~EndsUserCommand(mark))
  /\ UNCHANGED <<instr, totals, audit, running, judges, keys, outs, turn, refused>>

(* Text, or a marker the queue does not answer.                            *)
OutputOnly(mark) ==
  /\ Output(mark) /\ QueueEvent(queue, mark) = "None"
  /\ queue' = QueueAfter(queue, mark)
  /\ agent' = [agent EXCEPT !.output = @ \/ (mark = Text /\ agent.mode = "Executing")]
  /\ linebuf' = (linebuf /\ mark.m # "A")
  /\ journal' = IF EndsUserCommand(mark)
                THEN Append(journal, Entry("ShellCommand", turn)) ELSE journal
  /\ UNCHANGED <<cache, sent, streams>>

DispatchNext(mark) ==
  /\ Output(mark) /\ QueueEvent(queue, mark) = "Dispatch"
  /\ \/ /\ queue' = QueueAfter(queue, mark)
        /\ sent' = sent \cup {Head(queue.commands)}
        /\ UNCHANGED agent
     \/ /\ queue' = Clear(QueueAfter(queue, mark))   \* the write fails
        /\ agent' = Idle
        /\ UNCHANGED sent
  /\ UNCHANGED <<linebuf, recordVars, streams>>

(* AllDone: with output captured, the results are journaled and the next   *)
(* stream of the turn is started on the cached conversation, or on a       *)
(* rebuilt one when it has outgrown its budget.  In any state but Executing*)
(* the state is lost.                                                      *)
Continue ==
  LET result == Entry("ToolResult", agent.task)
      forTurn == streams[agent.task].turn IN
  \/ StartStreaming(Append(journal, result), Push(result), forTurn)
  \/ StartStreaming(Append(journal, result), NoCache, forTurn)

BatchDone(mark) ==
  /\ Output(mark) /\ QueueEvent(queue, mark) = "AllDone"
  /\ queue' = QueueAfter(queue, mark)
  /\ linebuf' = FALSE
  /\ \/ agent.mode = "Executing" /\ agent.output /\ Continue
     \/ /\ ~(agent.mode = "Executing" /\ agent.output)
        /\ agent' = Idle
        /\ UNCHANGED <<recordVars, streams>>
  /\ UNCHANGED sent

BatchFailed(mark) ==
  /\ Output(mark) /\ QueueEvent(queue, mark) = "Failed"
  /\ queue' = QueueAfter(queue, mark)
  /\ linebuf' = FALSE
  /\ agent' = Idle
  /\ UNCHANGED <<recordVars, sent, streams>>

OnPtyOutput ==
  \E mark \in Marks :
    OutputOnly(mark) \/ DispatchNext(mark) \/ BatchDone(mark) \/ BatchFailed(mark)

(* PtyEof: the loop is left.                                               *)
OnPtyEof ==
  /\ Take("PtyEof")
  /\ running' = FALSE
  /\ UNCHANGED <<agent, promptVars, instr, screenVars, totals, recordVars, execVars,
                 streams, judges, keys, outs, turn, refused>>

Loop == OnStdin \/ OnBackendChunk \/ OnBackendDone \/ OnJudgeResult
        \/ OnPtyOutput \/ OnPtyEof

-----------------------------------------------------------------------------
(* The threads and tasks that feed the channel.                            *)

Send(event) == running /\ Len(chan) < MaxChannel /\ chan' = Append(chan, event)

UserTypes(key) ==
  /\ keys < MaxKeys /\ Send(Stdin(key))
  /\ keys' = keys + 1
  /\ UNCHANGED <<loopVars, streams, judges, outs>>

ShellPrints(mark) ==
  /\ outs < MaxOut /\ Send(PtyOutput(outs + 1, mark))
  /\ outs' = outs + 1
  /\ UNCHANGED <<loopVars, streams, judges, keys>>

(* The PTY reader sends PtyEof last.                                       *)
ShellExits ==
  /\ outs <= MaxOut /\ Send(PtyEof)
  /\ outs' = MaxOut + 1
  /\ UNCHANGED <<loopVars, streams, judges, keys>>

(* A streaming task forwards what the backend sends; being cancelled does  *)
(* not keep it from forwarding an event that is ready (select! polls its   *)
(* branches in any order).                                                 *)
StreamSends(s, kind, risk) ==
  /\ streams[s].st = "running" /\ streams[s].chunks < MaxChunks
  /\ streams' = [streams EXCEPT ![s].chunks = @ + 1]
  /\ Send(Chunk(s, kind, [src |-> s, nth |-> streams[s].chunks + 1, risk |-> risk]))
  /\ UNCHANGED <<loopVars, judges, keys, outs>>

(* Mutant of StreamEnds: the task returns without a BackendDone.           *)
StreamEndsSilently(s) ==
  /\ streams[s].st = "running"
  /\ streams' = [streams EXCEPT ![s].st = "ended"]
  /\ UNCHANGED <<loopVars, chan, judges, keys, outs>>

(* At the end of the stream, and when it is cancelled, BackendDone is sent.*)
StreamEnds(s) ==
  /\ streams[s].st = "running"
  /\ streams' = [streams EXCEPT ![s].st = "ended"]
  /\ Send(Done(s))
  /\ UNCHANGED <<loopVars, judges, keys, outs>>

(* A retry-after that is no duration panics the task while it posts the    *)
(* request, before any event; its BackendDone is never sent.               *)
StreamPanics(s) ==
  /\ streams[s].st = "running" /\ streams[s].chunks = 0
  /\ streams' = [streams EXCEPT ![s].st = "panicked"]
  /\ UNCHANGED <<loopVars, chan, judges, keys, outs>>

(* Mutant of JudgeAnswers: the task returns without a JudgeResult.         *)
JudgeAnswersSilently(s) ==
  /\ judges[s].st = "running"
  /\ judges' = [judges EXCEPT ![s].st = "ended"]
  /\ UNCHANGED <<loopVars, chan, streams, keys, outs>>

JudgeAnswers(s) ==
  /\ judges[s].st = "running"
  /\ judges' = [judges EXCEPT ![s].st = "ended"]
  /\ Send(JudgeResult(s))
  /\ UNCHANGED <<loopVars, streams, keys, outs>>

(* A judge task whose cancel_tx is gone may return without an answer.      *)
JudgeCancelled(s) ==
  /\ judges[s].st = "running" /\ ~(agent.mode = "Judging" /\ agent.task = s)
  /\ judges' = [judges EXCEPT ![s].st = "ended"]
  /\ UNCHANGED <<loopVars, chan, streams, keys, outs>>

(* So it does to a judge's task, as does a reply whose last } comes before *)
(* its first {: there is no JudgeResult.                                   *)
JudgePanics(s) ==
  /\ judges[s].st = "running"
  /\ judges' = [judges EXCEPT ![s].st = "panicked"]
  /\ UNCHANGED <<loopVars, chan, streams, keys, outs>>

Environment ==
  \/ \E key \in Keys : UserTypes(key)
  \/ \E mark \in Marks : ShellPrints(mark)
  \/ ShellExits
  \/ \E s \in StreamId, kind \in ChunkKinds, risk \in Risks : StreamSends(s, kind, risk)
  \/ \E s \in StreamId : StreamEnds(s) \/ JudgeAnswers(s) \/ JudgeCancelled(s)
  \/ \E s \in StreamId : StreamPanics(s) \/ JudgePanics(s)

Next == Loop \/ Environment

(* The loop takes every event; a request comes to an end, and its task has *)
(* then sent its last event, unless it has panicked.                       *)
Fairness ==
  /\ WF_vars(Loop)
  /\ \A s \in StreamId : WF_vars(StreamEnds(s)) /\ WF_vars(JudgeAnswers(s))

Spec     == Init /\ [][Next]_vars
FairSpec == Spec /\ Fairness

-----------------------------------------------------------------------------
(* Properties.                                                             *)

(* Types, by part of the state; a queue that waits for a prompt is         *)
(* executing, every state but Idle belongs to a stream, and no decision is *)
(* asked for about an empty batch.                                         *)
AgentOK  == /\ agent \in AgentState
            /\ agent.mode # "Idle" => agent.task \in StreamId
            /\ agent.mode \in {"Judging", "Approving"} => agent.cmds # <<>>
ExecOK   == /\ queue \in Queue(Cmd)
            /\ queue.awaiting_ready => queue.executing
            /\ audit \in SUBSET [by : {"auto", "keystroke", "typed_yes"}, cmd : Cmd]
            /\ sent \in SUBSET Cmd
PromptOK == /\ terminal \in {"Idle", "Prompt", "Input", "Executing"}
            /\ linebuf \in BOOLEAN /\ usercmd \in BOOLEAN
ScreenOK == ptybuf \in Seq(Nat) /\ shown \in Seq(Nat)
TurnOK   == /\ instr \in Nat /\ turn \in Nat
            /\ totals \in Totals
            /\ refused \in SUBSET Cmd
RecordOK == journal \in Seq(JournalEntry) /\ cache \in Conversation
ChanOK   == /\ running \in BOOLEAN
            /\ chan \in Seq(EventType)
            /\ keys \in Nat /\ outs \in Nat
TaskOK   == /\ streams \in [StreamId -> TaskState]
            /\ judges \in [StreamId -> TaskState]

TypeOK == AgentOK /\ ExecOK /\ PromptOK /\ ScreenOK /\ TurnOK /\ RecordOK /\ ChanOK /\ TaskOK

(* Nothing reaches the shell without a decision that covers its risk: a    *)
(* command written to the PTY, or queued to be, is in the audit log with an*)
(* approval of its own batch; denied commands never are; a privileged one  *)
(* was confirmed by typing yes where the configuration asks for it; and    *)
(* only what classify_and_gate calls safe went without a keystroke.        *)
Covers(how, c) ==
  /\ c.risk # "Denied"
  /\ how = "keystroke" => ~(RequireYes /\ c.risk = "Privileged")
  /\ how = "auto" => \/ SandboxActive /\ c.risk \in {"ReadOnly", "BuildTest", "Write"}
                     \/ AutoApproveReadOnly /\ c.risk = "ReadOnly"

ApprovalGate ==
  \A c \in sent \cup RangeOf(queue.commands) :
    \E a \in audit : a.cmd = c /\ Covers(a.by, c)

(* What the user has refused, or interrupted before it was written, is     *)
(* never written later, whatever stale events are still in the channel.    *)
RefusedStaysRefused == refused \cap (sent \cup RangeOf(queue.commands)) = {}

(* No handler loses or reorders output of the shell: what is shown and what*)
(* is held back are the output events handled so far.  What PtyEof finds   *)
(* held back is never shown, and what a stale end leaves there waits for   *)
(* the next output.                                                        *)
Handled == Len(shown) + Len(ptybuf)
LosslessTerminal == shown \o ptybuf = [i \in 1..Handled |-> i]

(* While the approval prompt is up nothing is written over it.             *)
PromptUndisturbed ==
  [][agent.mode = "Approving" /\ agent'.mode = "Approving" => UNCHANGED shown]_vars

(* Executing never waits for a queue that has stopped executing.           *)
ExecutingHasQueue == agent.mode = "Executing" => queue.executing

(* The conversation kept in memory while a turn goes on is the one the     *)
(* journal would give, though each handler updates the two by hand.        *)
CacheCoherent == agent.mode # "Idle" /\ cache.some => cache.conv = journal

(* Neither the backend nor the judge is waited for for ever, whatever order*)
(* chunks, cancellations and stale ends arrive in.  The one exception is a *)
(* task that has panicked: the REPL waits for it until Control-C.          *)
Waits(mode, tasks) == agent.mode = mode /\ tasks[agent.task].st # "panicked"
WaitingEnds ==
  /\ Waits("Streaming", streams) ~> ~Waits("Streaming", streams) \/ ~running
  /\ Waits("Judging", judges) ~> ~Waits("Judging", judges) \/ ~running

-----------------------------------------------------------------------------
(* What comments and documents say, and the code does not do.              *)

(* "cancel the request, return to prompt" (DESIGN.md 14.7): after a        *)
(* cancellation the commands of that request are not proposed any more.    *)
CancelledNotProposed == \A c \in RangeOf(agent.cmds) : c.src = agent.task
=============================================================================
