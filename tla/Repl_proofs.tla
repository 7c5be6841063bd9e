----------------------------- MODULE Repl_proofs -----------------------------
(***************************************************************************)
(* Theorems about Repl, for every configuration, every behaviour of the    *)
(* backend, the user and the shell, and every bound.                       *)
(***************************************************************************)
EXTENDS Repl, TLAPS

-----------------------------------------------------------------------------
(* CommandQueue, for every set of commands, as in Dispatch_proofs: Repl     *)
(* and Dispatch have a queue each, so neither module extends the other.    *)

(* A queue that holds commands, or waits for a prompt, is executing.       *)
Coherent(q) == q.awaiting_ready \/ q.commands # <<>> => q.executing

LEMMA EmptyQueueFacts ==
  ASSUME NEW C
  PROVE  /\ EmptyQueue \in Queue(C)
         /\ Coherent(EmptyQueue)
         /\ ~EmptyQueue.executing
         /\ EmptyQueue.commands = <<>>
BY DEF EmptyQueue, Queue, Coherent, NoCode

(* enqueue of a batch makes the queue execute, and appends the batch.      *)
LEMMA EnqueueFacts ==
  ASSUME NEW C, NEW q \in Queue(C), NEW b \in Seq(C), b # <<>>
  PROVE  /\ Enqueue(q, b) \in Queue(C)
         /\ Enqueue(q, b).executing
         /\ Enqueue(q, b).commands = q.commands \o b
         /\ Enqueue(q, b).commands # <<>>
         /\ Coherent(Enqueue(q, b))
<1>1. q.commands \in Seq(C)
  BY DEF Queue
<1>2. q.commands \o b \in Seq(C) /\ q.commands \o b # <<>>
  BY <1>1
<1> QED
  BY <1>1, <1>2 DEF Enqueue, Queue, Coherent

(* pop_immediate takes the head of a queue that is not empty.              *)
LEMMA PopImmediateFacts ==
  ASSUME NEW C, NEW q \in Queue(C), q.commands # <<>>
  PROVE  /\ Head(q.commands) \in C
         /\ PopImmediate(q) \in Queue(C)
         /\ PopImmediate(q).commands = Tail(q.commands)
         /\ PopImmediate(q).executing = q.executing
         /\ PopImmediate(q).awaiting_ready = q.awaiting_ready
         /\ Coherent(q) => Coherent(PopImmediate(q))
<1>1. q.commands \in Seq(C) /\ Head(q.commands) \in C /\ Tail(q.commands) \in Seq(C)
  BY DEF Queue
<1> QED
  BY <1>1 DEF PopImmediate, Queue, Coherent

(* What handle_osc_event answers, and what it leaves of the queue.         *)
LEMMA QueueEventFacts ==
  ASSUME NEW C, NEW q \in Queue(C), NEW marker \in Marker, Coherent(q)
  PROVE  /\ QueueAfter(q, marker) \in Queue(C)
         /\ Coherent(QueueAfter(q, marker))
         /\ QueueEvent(q, marker) \in {"None", "Dispatch", "AllDone", "Failed"}
         /\ QueueEvent(q, marker) = "None" =>
              /\ QueueAfter(q, marker).executing = q.executing
              /\ QueueAfter(q, marker).commands = q.commands
         /\ QueueEvent(q, marker) = "Dispatch" =>
              /\ q.executing /\ QueueAfter(q, marker).executing
              /\ q.commands # <<>>
              /\ QueueAfter(q, marker).commands = Tail(q.commands)
         /\ QueueEvent(q, marker) = "AllDone" =>
              /\ q.executing /\ ~QueueAfter(q, marker).executing
              /\ QueueAfter(q, marker).commands = <<>>
         /\ QueueEvent(q, marker) = "Failed" =>
              q.executing /\ QueueAfter(q, marker) = EmptyQueue
<1>1. /\ q.commands \in Seq(C)
      /\ q.awaiting_ready \in BOOLEAN /\ q.executing \in BOOLEAN
      /\ q.last_exit_code \in ExitCode \cup {NoCode}
  BY DEF Queue
<1>2. marker.code \in ExitCode \cup {NoCode} /\ marker.m \in {"A", "B", "C", "D"}
  BY DEF Marker
<1>3. q.commands # <<>> => Tail(q.commands) \in Seq(C)
  BY <1>1
<1>4. CASE marker.m = "B" /\ q.awaiting_ready
  <2>1. CASE LastFailed(q)
    BY <1>1, <1>4, <2>1, EmptyQueueFacts
       DEF QueueAfter, QueueEvent, Clear, Coherent, Queue
  <2>2. CASE ~LastFailed(q)
    BY <1>1, <1>3, <1>4, <2>2 DEF QueueAfter, QueueEvent, Coherent, Queue
  <2> QED
    BY <2>1, <2>2
<1>5. CASE ~(marker.m = "B" /\ q.awaiting_ready)
  BY <1>1, <1>2, <1>5 DEF QueueAfter, QueueEvent, Coherent, Queue
<1> QED
  BY <1>4, <1>5

-----------------------------------------------------------------------------
(* Sequences of commands and the sets of their members.                    *)

LEMMA RangeType ==
  ASSUME NEW C, NEW s \in Seq(C)
  PROVE  RangeOf(s) \subseteq C
BY DEF RangeOf

LEMMA RangeEmpty == RangeOf(<<>>) = {}
BY DEF RangeOf

LEMMA RangeConcat ==
  ASSUME NEW C, NEW s \in Seq(C), NEW t \in Seq(C)
  PROVE  RangeOf(s \o t) = RangeOf(s) \cup RangeOf(t)
<1>1. /\ Len(s \o t) = Len(s) + Len(t) /\ Len(s) \in Nat /\ Len(t) \in Nat
      /\ \A i \in 1..Len(s) : (s \o t)[i] = s[i]
      /\ \A i \in 1..Len(t) : (s \o t)[Len(s) + i] = t[i]
  OBVIOUS
<1>2. ASSUME NEW c \in RangeOf(s \o t)
      PROVE  c \in RangeOf(s) \cup RangeOf(t)
  <2>1. PICK i \in 1..(Len(s) + Len(t)) : c = (s \o t)[i]
    BY <1>1 DEF RangeOf
  <2>2. CASE i \in 1..Len(s)
    BY <1>1, <2>1, <2>2 DEF RangeOf
  <2>3. CASE i \notin 1..Len(s)
    <3>1. i - Len(s) \in 1..Len(t) /\ Len(s) + (i - Len(s)) = i
      BY <1>1, <2>3
    <3>2. c = t[i - Len(s)]
      BY <1>1, <2>1, <3>1
    <3> QED
      BY <3>1, <3>2 DEF RangeOf
  <2> QED
    BY <2>2, <2>3
<1>3. ASSUME NEW c \in RangeOf(s) \cup RangeOf(t)
      PROVE  c \in RangeOf(s \o t)
  <2>1. CASE c \in RangeOf(s)
    BY <1>1, <2>1 DEF RangeOf
  <2>2. CASE c \in RangeOf(t)
    <3>1. PICK i \in 1..Len(t) : c = t[i]
      BY <2>2 DEF RangeOf
    <3>2. Len(s) + i \in 1..Len(s \o t)
      BY <1>1
    <3> QED
      BY <1>1, <3>1, <3>2 DEF RangeOf
  <2> QED
    BY <2>1, <2>2
<1> QED
  BY <1>2, <1>3

LEMMA RangeHeadTail ==
  ASSUME NEW C, NEW s \in Seq(C), s # <<>>
  PROVE  Head(s) \in RangeOf(s) /\ RangeOf(Tail(s)) \subseteq RangeOf(s)
<1>1. Len(s) \in Nat /\ Len(s) >= 1 /\ Head(s) = s[1]
  OBVIOUS
<1>2. /\ Len(Tail(s)) = Len(s) - 1
      /\ \A i \in 1..(Len(s) - 1) : Tail(s)[i] = s[i + 1]
  OBVIOUS
<1>3. ASSUME NEW c \in RangeOf(Tail(s))
      PROVE  c \in RangeOf(s)
  <2>1. PICK i \in 1..(Len(s) - 1) : c = s[i + 1]
    BY <1>2, <1>3 DEF RangeOf
  <2>2. i + 1 \in 1..Len(s)
    BY <1>1
  <2> QED
    BY <2>1, <2>2 DEF RangeOf
<1> QED
  BY <1>1, <1>3 DEF RangeOf

(* The batch handed to the queue is what the queue holds afterwards, and   *)
(* what is written is of it or of what was queued before.                  *)
LEMMA BatchQueued ==
  ASSUME NEW C, NEW q \in Queue(C), NEW cmds \in Seq(C), cmds # <<>>
  PROVE  /\ Enqueue(q, cmds) \in Queue(C)
         /\ Enqueue(q, cmds).executing
         /\ PopImmediate(Enqueue(q, cmds)) \in Queue(C)
         /\ PopImmediate(Enqueue(q, cmds)).executing
         /\ Coherent(PopImmediate(Enqueue(q, cmds)))
         /\ RangeOf(PopImmediate(Enqueue(q, cmds)).commands)
              \subseteq RangeOf(q.commands) \cup RangeOf(cmds)
         /\ Head(Enqueue(q, cmds).commands) \in RangeOf(q.commands) \cup RangeOf(cmds)
         /\ Head(Enqueue(q, cmds).commands) \in C
<1> DEFINE e == Enqueue(q, cmds)
<1>1. /\ e \in Queue(C) /\ e.executing /\ Coherent(e)
      /\ e.commands = q.commands \o cmds /\ e.commands # <<>>
  BY EnqueueFacts
<1>2. q.commands \in Seq(C) /\ e.commands \in Seq(C)
  BY <1>1 DEF Queue
<1>3. RangeOf(e.commands) = RangeOf(q.commands) \cup RangeOf(cmds)
  BY <1>1, <1>2, RangeConcat
<1>4. /\ Head(e.commands) \in RangeOf(e.commands)
      /\ RangeOf(Tail(e.commands)) \subseteq RangeOf(e.commands)
  BY <1>1, <1>2, RangeHeadTail
<1>5. /\ PopImmediate(e) \in Queue(C) /\ PopImmediate(e).executing
      /\ Coherent(PopImmediate(e))
      /\ PopImmediate(e).commands = Tail(e.commands)
      /\ Head(e.commands) \in C
  BY <1>1, PopImmediateFacts DEF Queue
<1> QED
  BY <1>1, <1>3, <1>4, <1>5

-----------------------------------------------------------------------------
(* The inductive invariant.  ApprovalGate needs to know that classify_and_ *)
(* gate has let no denied command through to a decision.                   *)

NothingDenied == agent.mode \in {"Judging", "Approving"} => ~IsBlocked(agent.cmds)

Inv == TypeOK /\ Coherent(queue) /\ ExecutingHasQueue /\ ApprovalGate /\ NothingDenied

LEMMA IdleFacts ==
  /\ Idle \in AgentState /\ Idle.mode = "Idle" /\ Idle.task = NoTask
BY DEF Idle, State, AgentState, Mode

LEMMA StateFacts ==
  ASSUME NEW mode \in Mode, NEW task \in StreamId, NEW cmds \in Seq(Cmd)
  PROVE  /\ State(mode, task, cmds) \in AgentState
         /\ State(mode, task, cmds).mode = mode
         /\ State(mode, task, cmds).task = task
         /\ State(mode, task, cmds).cmds = cmds
BY DEF State, AgentState

LEMMA NewState ==
  ASSUME NEW mode \in Mode, NEW task \in StreamId
  PROVE  /\ State(mode, task, <<>>) \in AgentState
         /\ State(mode, task, <<>>).mode = mode
         /\ State(mode, task, <<>>).task = task
BY DEF State, AgentState

LEMMA AgentFields ==
  ASSUME AgentOK
  PROVE  /\ agent.mode \in Mode /\ agent.cmds \in Seq(Cmd)
         /\ agent.task \in StreamId \cup {NoTask} /\ agent.task \in Nat
         /\ agent.mode # "Idle" => agent.task \in StreamId
BY DEF AgentOK, AgentState, StreamId, NoTask

LEMMA EntryFacts ==
  ASSUME NEW kind \in EntryKind, NEW id \in Nat
  PROVE  Entry(kind, id) \in JournalEntry
BY DEF Entry, JournalEntry

LEMMA PushFacts ==
  ASSUME RecordOK, NEW entry \in JournalEntry
  PROVE  Append(journal, entry) \in Seq(JournalEntry) /\ Push(entry) \in Conversation
<1>1. cache.conv \in Seq(JournalEntry) /\ cache \in Conversation
  BY DEF RecordOK, Conversation
<1>2. Append(cache.conv, entry) \in Seq(JournalEntry)
  BY <1>1
<1>3. Cached(Append(cache.conv, entry)) \in Conversation
  BY <1>2 DEF Cached, Conversation
<1> QED
  BY <1>1, <1>3 DEF RecordOK, Push

LEMMA NoCacheType == NoCache \in Conversation
BY DEF NoCache, Conversation

LEMMA TaskFacts ==
  /\ Unborn \in TaskState
  /\ \A t \in Nat : Started(t) \in TaskState
BY ReplAssumption DEF Unborn, Started, TaskState

(* The first event of the channel is taken.                                *)
LEMMA TakeFacts ==
  ASSUME ChanOK, NEW e, Take(e)
  PROVE  /\ chan' \in Seq(EventType) /\ Head(chan) \in EventType
         /\ Head(chan).e = e /\ running = TRUE
BY DEF ChanOK, Take

LEMMA FlushFacts ==
  ASSUME ScreenOK, Flush
  PROVE  ScreenOK'
BY DEF ScreenOK, Flush

LEMMA StartStreamingFacts ==
  ASSUME TaskOK, NEW entries \in Seq(JournalEntry), NEW cached \in Conversation,
         NEW turn0 \in Nat, StartStreaming(entries, cached, turn0)
  PROVE  /\ RecordOK'
         /\ streams' \in [StreamId -> TaskState]
         /\ AgentOK' /\ agent'.mode \in {"Idle", "Streaming"}
<1>1. CASE agent' = Idle /\ cache' = cached /\ UNCHANGED streams
  BY <1>1, IdleFacts DEF StartStreaming, RecordOK, TaskOK, AgentOK
<1>2. ASSUME NEW s \in StreamId,
             streams' = [streams EXCEPT ![s] = Started(turn0)],
             agent' = State("Streaming", s, <<>>),
             cache' = IF cached.some THEN cached ELSE Cached(entries)
      PROVE  /\ RecordOK'
             /\ streams' \in [StreamId -> TaskState]
             /\ AgentOK' /\ agent'.mode \in {"Idle", "Streaming"}
  <2>1. Started(turn0) \in TaskState
    BY TaskFacts
  <2>2. streams' \in [StreamId -> TaskState]
    BY <1>2, <2>1 DEF TaskOK
  <2>3. /\ agent' \in AgentState /\ agent'.mode = "Streaming" /\ agent'.task = s
    <3>1. "Streaming" \in Mode
      BY DEF Mode
    <3> QED
      BY <1>2, <3>1, NewState
  <2>4. cache' \in Conversation
    BY <1>2 DEF Cached, Conversation
  <2>5. journal' = entries
    BY DEF StartStreaming
  <2> QED
    BY <2>2, <2>3, <2>4, <2>5 DEF AgentOK, RecordOK
<1> QED
  BY <1>1, <1>2 DEF StartStreaming

(* A batch that may run, for whom how speaks, is run.                      *)
LEMMA RunBatchFacts ==
  ASSUME AgentOK, ExecOK, Coherent(queue), ApprovalGate, agent.mode # "Idle",
         NEW cmds \in Seq(Cmd), cmds # <<>>,
         NEW how \in {"auto", "keystroke", "typed_yes"},
         \A c \in RangeOf(cmds) : Covers(how, c),
         RunBatch(cmds, how)
  PROVE  /\ AgentOK' /\ ExecOK' /\ Coherent(queue') /\ ApprovalGate'
         /\ ExecutingHasQueue' /\ NothingDenied'
<1> DEFINE q == Enqueue(queue, cmds)
<1>1. queue \in Queue(Cmd) /\ queue.commands \in Seq(Cmd)
  BY DEF ExecOK, Queue
<1>2. /\ q \in Queue(Cmd) /\ PopImmediate(q) \in Queue(Cmd)
      /\ PopImmediate(q).executing /\ Coherent(PopImmediate(q))
      /\ RangeOf(PopImmediate(q).commands) \subseteq RangeOf(queue.commands) \cup RangeOf(cmds)
      /\ Head(q.commands) \in RangeOf(queue.commands) \cup RangeOf(cmds)
      /\ Head(q.commands) \in Cmd
  BY <1>1, BatchQueued
<1>3. RangeOf(cmds) \subseteq Cmd
  BY RangeType
<1>4. audit' = audit \cup {[by |-> how, cmd |-> c] : c \in RangeOf(cmds)}
  BY DEF RunBatch
<1>5. audit' \in SUBSET [by : {"auto", "keystroke", "typed_yes"}, cmd : Cmd]
  BY <1>3, <1>4 DEF ExecOK
<1>6. ASSUME NEW c \in sent \cup RangeOf(queue.commands) \cup RangeOf(cmds)
      PROVE  \E a \in audit' : a.cmd = c /\ Covers(a.by, c)
  <2>1. CASE c \in RangeOf(cmds)
    <3>1. [by |-> how, cmd |-> c] \in audit'
      BY <1>4, <2>1
    <3> QED
      BY <2>1, <3>1
  <2>2. CASE c \notin RangeOf(cmds)
    BY <1>4, <1>6, <2>2 DEF ApprovalGate
  <2> QED
    BY <2>1, <2>2
<1>7. CASE /\ queue' = PopImmediate(q)
           /\ sent' = sent \cup {Head(q.commands)}
           /\ agent' = State("Executing", agent.task, <<>>)
  <2>1. /\ agent' \in AgentState /\ agent'.mode = "Executing"
        /\ agent'.task \in StreamId
    <3>1. "Executing" \in Mode /\ agent.task \in StreamId
      BY DEF Mode, AgentOK
    <3> QED
      BY <1>7, <3>1, NewState
  <2>2. ApprovalGate'
    BY <1>2, <1>6, <1>7 DEF ApprovalGate, Covers
  <2> QED
    BY <1>2, <1>5, <1>7, <2>1, <2>2
       DEF AgentOK, ExecOK, ExecutingHasQueue, NothingDenied, Coherent
<1>8. CASE queue' = Clear(q) /\ agent' = Idle /\ UNCHANGED sent
  <2>1. /\ queue' \in Queue(Cmd) /\ Coherent(queue') /\ ~queue'.executing
        /\ queue'.commands = <<>>
    BY <1>8, EmptyQueueFacts DEF Clear
  <2>2. RangeOf(queue'.commands) = {}
    BY <2>1, RangeEmpty
  <2>3. ApprovalGate'
    BY <1>6, <1>8, <2>2 DEF ApprovalGate, Covers
  <2> QED
    BY <1>5, <1>8, <2>1, <2>3, IdleFacts
       DEF AgentOK, ExecOK, ExecutingHasQueue, NothingDenied, Coherent
<1> QED
  BY <1>7, <1>8 DEF RunBatch

(* A step that leaves queue, audit log and PTY alone and enters neither    *)
(* Executing nor a decision keeps what Inv says of them.                   *)
LEMMA QuietStep ==
  ASSUME Inv, UNCHANGED execVars, AgentOK',
         \/ agent'.mode \in {"Idle", "Streaming"}
         \/ agent'.mode = agent.mode /\ agent'.cmds = agent.cmds
         \/ agent'.mode \in {"Judging", "Approving"} /\ ~IsBlocked(agent'.cmds),
         PromptOK', ScreenOK', TurnOK', RecordOK', ChanOK', TaskOK'
  PROVE  Inv'
<1>1. ExecOK' /\ Coherent(queue') /\ ApprovalGate'
  BY DEF Inv, TypeOK, execVars, ExecOK, ApprovalGate, Covers
<1>2. ExecutingHasQueue'
  BY DEF Inv, execVars, ExecutingHasQueue
<1>3. NothingDenied'
  BY DEF Inv, NothingDenied, IsBlocked
<1> QED
  BY <1>1, <1>2, <1>3 DEF Inv, TypeOK

(* A step after which nothing is queued.                                   *)
LEMMA ClearingStep ==
  ASSUME Inv, queue' = EmptyQueue, UNCHANGED <<audit, sent>>, AgentOK',
         agent'.mode = "Idle",
         PromptOK', ScreenOK', TurnOK', RecordOK', ChanOK', TaskOK'
  PROVE  Inv'
<1>1. queue' \in Queue(Cmd) /\ Coherent(queue') /\ RangeOf(queue'.commands) = {}
  BY EmptyQueueFacts, RangeEmpty
<1>2. ExecOK' /\ ApprovalGate'
  BY <1>1 DEF Inv, TypeOK, ExecOK, Coherent, ApprovalGate, Covers
<1> QED
  BY <1>1, <1>2 DEF Inv, TypeOK, ExecutingHasQueue, NothingDenied

(* What the handlers of Stdin do.                                          *)

LEMMA StdinInstructionInv ==
  ASSUME Inv, StdinInstruction
  PROVE  Inv'
<1>1. Append(journal, Entry("Instruction", turn + 1)) \in Seq(JournalEntry)
  <2>1. turn + 1 \in Nat /\ "Instruction" \in EntryKind
    BY DEF Inv, TypeOK, TurnOK, EntryKind
  <2> QED
    BY <2>1, EntryFacts DEF Inv, TypeOK, RecordOK
<1>2. turn + 1 \in Nat
  BY DEF Inv, TypeOK, TurnOK
<1>3. /\ RecordOK' /\ streams' \in [StreamId -> TaskState]
      /\ AgentOK' /\ agent'.mode \in {"Idle", "Streaming"}
  BY <1>1, <1>2, NoCacheType, StartStreamingFacts DEF StdinInstruction, Inv, TypeOK
<1>4. ChanOK'
  BY TakeFacts DEF StdinInstruction, Inv, TypeOK, ChanOK
<1>5. PromptOK' /\ ScreenOK' /\ TurnOK' /\ TaskOK' /\ UNCHANGED execVars
  BY <1>2, <1>3
     DEF StdinInstruction, Inv, TypeOK, PromptOK, ScreenOK, TurnOK, TaskOK,
         promptVars, screenVars, execVars
<1> QED
  BY <1>3, <1>4, <1>5, QuietStep

LEMMA StdinCommandInv ==
  ASSUME Inv, StdinCommand
  PROVE  Inv'
<1>1. Append(journal, Entry("ShellCommand", turn)) \in Seq(JournalEntry)
  <2>1. turn \in Nat /\ "ShellCommand" \in EntryKind
    BY DEF Inv, TypeOK, TurnOK, EntryKind
  <2> QED
    BY <2>1, EntryFacts DEF Inv, TypeOK, RecordOK
<1>2. RecordOK'
  BY <1>1 DEF StdinCommand, Inv, TypeOK, RecordOK
<1>3. ChanOK'
  BY TakeFacts DEF StdinCommand, Forward, Inv, TypeOK, ChanOK
<1>4. AgentOK' /\ PromptOK' /\ ScreenOK' /\ TurnOK' /\ TaskOK' /\ UNCHANGED execVars
  BY DEF StdinCommand, Inv, TypeOK, AgentOK, PromptOK, ScreenOK, TurnOK, TaskOK,
         screenVars, execVars
<1> QED
  BY <1>2, <1>3, <1>4, QuietStep DEF StdinCommand

LEMMA StdinKeyInv ==
  ASSUME Inv, StdinKey
  PROVE  Inv'
<1>1. ChanOK'
  BY TakeFacts DEF StdinKey, Forward, Inv, TypeOK, ChanOK
<1>2. /\ AgentOK' /\ PromptOK' /\ ScreenOK' /\ TurnOK' /\ TaskOK' /\ RecordOK'
      /\ UNCHANGED execVars
  BY DEF StdinKey, Inv, TypeOK, AgentOK, PromptOK, ScreenOK, TurnOK, TaskOK,
         RecordOK, screenVars, recordVars, execVars, AtPrompt
<1> QED
  BY <1>1, <1>2, QuietStep DEF StdinKey

LEMMA StdinSilentInv ==
  ASSUME Inv, StdinIgnored \/ StdinForwarded
  PROVE  Inv'
<1>1. ChanOK'
  BY TakeFacts DEF StdinIgnored, StdinForwarded, Inv, TypeOK, ChanOK, loopVars
<1>2. /\ AgentOK' /\ PromptOK' /\ ScreenOK' /\ TurnOK' /\ TaskOK' /\ RecordOK'
      /\ UNCHANGED execVars /\ agent' = agent
  BY DEF StdinIgnored, StdinForwarded, loopVars, Inv, TypeOK, AgentOK, PromptOK,
         ScreenOK, TurnOK, TaskOK, RecordOK, execVars
<1> QED
  BY <1>1, <1>2, QuietStep

LEMMA CommandsType ==
  ASSUME TypeOK
  PROVE  RangeOf(agent.cmds) \subseteq Cmd /\ RangeOf(queue.commands) \subseteq Cmd
<1>1. agent.cmds \in Seq(Cmd) /\ queue.commands \in Seq(Cmd)
  BY AgentFields DEF TypeOK, ExecOK, Queue
<1> QED
  BY <1>1, RangeType

LEMMA CancelStreamingInv ==
  ASSUME Inv, CancelStreaming
  PROVE  Inv'
<1>1. ChanOK'
  BY TakeFacts DEF CancelStreaming, Inv, TypeOK, ChanOK
<1>2. TurnOK'
  BY CommandsType DEF CancelStreaming, Inv, TypeOK, TurnOK
<1>3. AgentOK' /\ agent'.mode = "Idle"
  BY IdleFacts DEF CancelStreaming, AgentOK
<1>4. PromptOK' /\ ScreenOK' /\ TaskOK' /\ RecordOK' /\ UNCHANGED execVars
  BY DEF CancelStreaming, Inv, TypeOK, PromptOK, ScreenOK, TaskOK, RecordOK,
         promptVars, screenVars, recordVars
<1> QED
  BY <1>1, <1>2, <1>3, <1>4, QuietStep

LEMMA CancelJudgingInv ==
  ASSUME Inv, CancelJudging
  PROVE  Inv'
<1>1. ChanOK'
  BY TakeFacts DEF CancelJudging, Inv, TypeOK, ChanOK
<1>2. TurnOK'
  BY CommandsType DEF CancelJudging, Inv, TypeOK, TurnOK
<1>3. AgentOK' /\ agent'.mode = "Idle"
  BY IdleFacts DEF CancelJudging, AgentOK
<1>4. ScreenOK'
  BY FlushFacts DEF CancelJudging, Inv, TypeOK
<1>5. PromptOK' /\ TaskOK' /\ RecordOK' /\ UNCHANGED execVars
  BY DEF CancelJudging, Inv, TypeOK, PromptOK, TaskOK, RecordOK, promptVars, recordVars
<1> QED
  BY <1>1, <1>2, <1>3, <1>4, <1>5, QuietStep

LEMMA StdinDenyInv ==
  ASSUME Inv, StdinDeny
  PROVE  Inv'
<1>1. ChanOK'
  BY TakeFacts DEF StdinDeny, Inv, TypeOK, ChanOK
<1>2. TurnOK'
  BY CommandsType DEF StdinDeny, Inv, TypeOK, TurnOK, NoTotals, Totals
<1>3. AgentOK' /\ agent'.mode = "Idle"
  BY IdleFacts DEF StdinDeny, AgentOK
<1>4. ScreenOK'
  BY FlushFacts DEF StdinDeny, Inv, TypeOK
<1>5. PromptOK' /\ TaskOK' /\ RecordOK' /\ UNCHANGED execVars
  BY DEF StdinDeny, Inv, TypeOK, PromptOK, TaskOK, RecordOK, promptVars, recordVars
<1> QED
  BY <1>1, <1>2, <1>3, <1>4, <1>5, QuietStep

LEMMA StdinUndecidedInv ==
  ASSUME Inv, StdinUndecided
  PROVE  Inv'
<1>1. ChanOK'
  BY TakeFacts DEF StdinUndecided, Inv, TypeOK, ChanOK
<1>2. AgentOK' /\ agent'.mode = agent.mode /\ agent'.cmds = agent.cmds
  BY DEF StdinUndecided, Inv, TypeOK, AgentOK, AgentState
<1>3. /\ PromptOK' /\ ScreenOK' /\ TurnOK' /\ TaskOK' /\ RecordOK'
      /\ UNCHANGED execVars
  BY DEF StdinUndecided, Inv, TypeOK, PromptOK, ScreenOK, TurnOK, TaskOK, RecordOK,
         promptVars, screenVars, recordVars, execVars
<1> QED
  BY <1>1, <1>2, <1>3, QuietStep

LEMMA InterruptExecutionInv ==
  ASSUME Inv, InterruptExecution
  PROVE  Inv'
<1>1. ChanOK'
  BY TakeFacts DEF InterruptExecution, Inv, TypeOK, ChanOK
<1>2. TurnOK'
  BY CommandsType DEF InterruptExecution, Inv, TypeOK, TurnOK, NoTotals, Totals
<1>3. AgentOK' /\ agent'.mode = "Idle"
  BY IdleFacts DEF InterruptExecution, AgentOK
<1>4. PromptOK' /\ ScreenOK' /\ TaskOK' /\ RecordOK'
  BY DEF InterruptExecution, Inv, TypeOK, PromptOK, ScreenOK, TaskOK, RecordOK,
         promptVars, screenVars, recordVars
<1>5. queue' = EmptyQueue /\ UNCHANGED <<audit, sent>>
  BY DEF InterruptExecution, Clear
<1> QED
  BY <1>1, <1>2, <1>3, <1>4, <1>5, ClearingStep

(* The key that approves covers every command of the batch.                *)
LEMMA StdinApproveInv ==
  ASSUME Inv, StdinApprove
  PROVE  Inv'
<1> DEFINE how == IF NeedYes(agent.cmds) THEN "typed_yes" ELSE "keystroke"
<1>1. /\ agent.mode = "Approving" /\ agent.cmds # <<>> /\ agent.cmds \in Seq(Cmd)
      /\ agent.task \in StreamId
  BY AgentFields DEF StdinApprove, Inv, TypeOK, AgentOK
<1>2. \A c \in RangeOf(agent.cmds) : c.risk # "Denied"
  BY <1>1 DEF Inv, NothingDenied, IsBlocked
<1>3. \A c \in RangeOf(agent.cmds) : Covers(how, c)
  BY <1>2 DEF Covers, NeedYes, HasPrivileged
<1>4. RunBatch(agent.cmds, how) /\ how \in {"auto", "keystroke", "typed_yes"}
  BY DEF StdinApprove
<1>5. /\ AgentOK' /\ ExecOK' /\ Coherent(queue') /\ ApprovalGate'
      /\ ExecutingHasQueue' /\ NothingDenied'
  <2> HIDE DEF how
  <2> QED
    BY <1>1, <1>3, <1>4, RunBatchFacts DEF Inv, TypeOK
<1>6. ChanOK'
  BY TakeFacts DEF StdinApprove, Inv, TypeOK, ChanOK
<1>7. TurnOK'
  BY <1>1 DEF StdinApprove, Inv, TypeOK, TurnOK, Totals
<1>8. ScreenOK'
  BY FlushFacts DEF StdinApprove, Inv, TypeOK
<1>9. PromptOK' /\ TaskOK' /\ RecordOK'
  BY DEF StdinApprove, Inv, TypeOK, PromptOK, TaskOK, RecordOK, promptVars, recordVars
<1> QED
  BY <1>5, <1>6, <1>7, <1>8, <1>9 DEF Inv, TypeOK

(* What the handlers of backend and judge events do.                       *)

LEMMA ChunkFacts ==
  ASSUME ChanOK, Take("BackendChunk")
  PROVE  /\ Head(chan).cmd \in Cmd
         /\ Head(chan).kind \in {"text", "tool", "malformed", "error"}
<1> DEFINE chunk == Head(chan)
<1>1. chunk \in EventType /\ chunk.e = "BackendChunk"
  BY TakeFacts
<1>2. chunk \in [e : {"BackendChunk"}, s : StreamId, kind : ChunkKinds, cmd : Cmd]
  <2>1. chunk \notin [e : {"Stdin"}, key : Keys]
    BY <1>1
  <2>2. chunk \notin [e : {"PtyOutput"}, n : 1..MaxOut, mark : Marks]
    BY <1>1
  <2>3. chunk # PtyEof
    BY <1>1 DEF PtyEof
  <2>4. chunk \notin [e : {"BackendDone", "JudgeResult"}, s : StreamId]
    BY <1>1
  <2> QED
    BY <1>1, <2>1, <2>2, <2>3, <2>4 DEF EventType
<1>3. chunk.cmd \in Cmd /\ chunk.kind \in ChunkKinds
  BY <1>2
<1> QED
  BY <1>3, ReplAssumption

LEMMA OnBackendChunkInv ==
  ASSUME Inv, OnBackendChunk
  PROVE  Inv'
<1> DEFINE chunk == Head(chan)
<1>1. ChanOK' /\ chunk \in EventType /\ chunk.e = "BackendChunk"
  BY TakeFacts DEF OnBackendChunk, Inv, TypeOK, ChanOK
<1>2. chunk.cmd \in Cmd /\ chunk.kind \in {"text", "tool", "malformed", "error"}
  BY ChunkFacts DEF OnBackendChunk, Inv, TypeOK
<1>3. /\ PromptOK' /\ ScreenOK' /\ TurnOK' /\ TaskOK' /\ RecordOK'
      /\ UNCHANGED execVars
  BY DEF OnBackendChunk, Inv, TypeOK, PromptOK, ScreenOK, TurnOK, TaskOK, RecordOK,
         promptVars, screenVars, recordVars, execVars
<1>4. agent \in AgentState /\ agent.cmds \in Seq(Cmd) /\ Append(agent.cmds, chunk.cmd) \in Seq(Cmd)
  BY <1>2 DEF Inv, TypeOK, AgentOK, AgentState
<1>5. CASE agent.mode # "Streaming"
  <2>1. agent' = agent
    BY <1>5 DEF OnBackendChunk
  <2>2. AgentOK'
    BY <2>1 DEF Inv, TypeOK, AgentOK
  <2> QED
    BY <1>1, <1>3, <2>1, <2>2, QuietStep
<1>6. CASE agent.mode = "Streaming"
  <2>1. \/ agent' = [agent EXCEPT !.failed = FALSE]
        \/ agent' = [agent EXCEPT !.cmds = Append(@, chunk.cmd), !.uses = TRUE]
        \/ agent' = [agent EXCEPT !.uses = TRUE]
        \/ agent' = [agent EXCEPT !.failed = TRUE]
    BY <1>2, <1>6 DEF OnBackendChunk
  <2>2. AgentOK' /\ agent'.mode = "Streaming"
    BY <1>4, <1>6, <2>1 DEF Inv, TypeOK, AgentOK, AgentState
  <2> QED
    BY <1>1, <1>3, <2>2, QuietStep
<1> QED
  BY <1>5, <1>6

(* The parts of the state that no end of a stream touches.                 *)
LEMMA EndsFacts ==
  ASSUME Inv, NEW event, Ends(event)
  PROVE  ChanOK' /\ PromptOK' /\ UNCHANGED <<streams, turn, refused>>
<1>1. ChanOK'
  BY TakeFacts DEF Ends, Inv, TypeOK, ChanOK
<1> QED
  BY <1>1 DEF Ends, Inv, TypeOK, PromptOK, promptVars

LEMMA DoneElsewhereInv ==
  ASSUME Inv, DoneElsewhere
  PROVE  Inv'
<1>1. ChanOK' /\ PromptOK' /\ UNCHANGED <<streams, turn, refused>>
  BY EndsFacts DEF DoneElsewhere
<1>2. AgentOK' /\ agent'.mode = "Idle"
  BY IdleFacts DEF DoneElsewhere, AgentOK
<1>3. ScreenOK' /\ TurnOK' /\ TaskOK' /\ RecordOK' /\ UNCHANGED execVars
  BY <1>1 DEF DoneElsewhere, Inv, TypeOK, ScreenOK, TurnOK, TaskOK, RecordOK,
              screenVars, recordVars, execVars
<1> QED
  BY <1>1, <1>2, <1>3, QuietStep

LEMMA CountedFacts ==
  ASSUME TypeOK, agent.mode # "Idle"
  PROVE  /\ [totals EXCEPT !.tokens = @ \cup {agent.task}] \in Totals
         /\ Counted \in Totals
         /\ [Counted EXCEPT !.commands = @ \cup {agent.task}] \in Totals
         /\ NoTotals \in Totals
BY AgentFields DEF TypeOK, TurnOK, Counted, Totals, NoTotals

LEMMA DoneWithErrorInv ==
  ASSUME Inv, DoneWithError
  PROVE  Inv'
<1>1. ChanOK' /\ PromptOK' /\ UNCHANGED <<streams, turn, refused>>
  BY EndsFacts DEF DoneWithError
<1>2. AgentOK' /\ agent'.mode = "Idle"
  BY IdleFacts DEF DoneWithError, AgentOK
<1>3. TurnOK'
  BY <1>1, CountedFacts DEF DoneWithError, Inv, TypeOK, TurnOK
<1>4. ScreenOK' /\ TaskOK' /\ RecordOK' /\ UNCHANGED execVars
  BY <1>1 DEF DoneWithError, Inv, TypeOK, ScreenOK, TaskOK, RecordOK,
              screenVars, recordVars
<1> QED
  BY <1>1, <1>2, <1>3, <1>4, QuietStep

(* The response of a stream, and what follows from it for the journal.     *)
LEMMA ResponseFacts ==
  ASSUME TypeOK
  PROVE  /\ Append(journal, Response) \in Seq(JournalEntry)
         /\ journal \o <<Response, Blocked>> \in Seq(JournalEntry)
         /\ Push(Response) \in Conversation
<1>1. Response \in JournalEntry /\ Blocked \in JournalEntry
  <2>1. "Response" \in EntryKind /\ "Blocked" \in EntryKind /\ agent.task \in Nat
    BY AgentFields DEF EntryKind, TypeOK
  <2> QED
    BY <2>1, EntryFacts DEF Response, Blocked
<1> QED
  BY <1>1, PushFacts DEF TypeOK, RecordOK

LEMMA RespondedNoCommandsInv ==
  ASSUME Inv, RespondedNoCommands
  PROVE  Inv'
<1>1. ChanOK' /\ PromptOK' /\ UNCHANGED <<streams, turn, refused>>
  BY EndsFacts DEF RespondedNoCommands, Responded
<1>2. AgentOK' /\ agent'.mode = "Idle"
  BY IdleFacts DEF RespondedNoCommands, AgentOK
<1>3. TurnOK' /\ RecordOK'
  BY <1>1, CountedFacts, ResponseFacts, NoCacheType
     DEF RespondedNoCommands, Responded, Inv, TypeOK, TurnOK, RecordOK
<1>4. ScreenOK' /\ TaskOK' /\ UNCHANGED execVars
  BY <1>1 DEF RespondedNoCommands, Inv, TypeOK, ScreenOK, TaskOK, screenVars
<1> QED
  BY <1>1, <1>2, <1>3, <1>4, QuietStep

LEMMA RespondedBlockedInv ==
  ASSUME Inv, RespondedBlocked
  PROVE  Inv'
<1>1. ChanOK' /\ PromptOK' /\ UNCHANGED <<streams, turn, refused>>
  BY EndsFacts DEF RespondedBlocked, Responded
<1>2. AgentOK' /\ agent'.mode = "Idle"
  BY IdleFacts DEF RespondedBlocked, AgentOK
<1>3. TurnOK' /\ RecordOK'
  BY <1>1, CountedFacts, ResponseFacts, NoCacheType
     DEF RespondedBlocked, Responded, Inv, TypeOK, TurnOK, RecordOK
<1>4. ScreenOK' /\ TaskOK' /\ UNCHANGED execVars
  BY <1>1 DEF RespondedBlocked, Inv, TypeOK, ScreenOK, TaskOK, screenVars
<1> QED
  BY <1>1, <1>2, <1>3, <1>4, QuietStep

(* What classify_and_gate lets through without a decision is covered.      *)
LEMMA RespondedAutoApprovedInv ==
  ASSUME Inv, RespondedAutoApproved
  PROVE  Inv'
<1>1. ChanOK' /\ PromptOK' /\ UNCHANGED <<streams, turn, refused>>
  BY EndsFacts DEF RespondedAutoApproved, Responded
<1>2. /\ agent.mode = "Streaming" /\ agent.cmds # <<>> /\ agent.cmds \in Seq(Cmd)
  BY AgentFields DEF RespondedAutoApproved, Responded, Inv, TypeOK
<1>3. \A c \in RangeOf(agent.cmds) : Covers("auto", c)
  BY DEF RespondedAutoApproved, AutoApproved, IsBlocked, SandboxSafe, AllReadOnly,
         Covers
<1>4. RunBatch(agent.cmds, "auto")
  BY DEF RespondedAutoApproved
<1>5. /\ AgentOK' /\ ExecOK' /\ Coherent(queue') /\ ApprovalGate'
      /\ ExecutingHasQueue' /\ NothingDenied'
  BY <1>2, <1>3, <1>4, RunBatchFacts DEF Inv, TypeOK
<1>6. TurnOK' /\ RecordOK'
  BY <1>1, <1>2, CountedFacts, ResponseFacts
     DEF RespondedAutoApproved, Responded, Inv, TypeOK, TurnOK, RecordOK
<1>7. ScreenOK' /\ TaskOK'
  BY <1>1 DEF RespondedAutoApproved, Inv, TypeOK, ScreenOK, TaskOK, screenVars
<1> QED
  BY <1>1, <1>5, <1>6, <1>7 DEF Inv, TypeOK

LEMMA RespondedToReviewInv ==
  ASSUME Inv, RespondedToReview
  PROVE  Inv'
<1>1. ChanOK' /\ PromptOK' /\ UNCHANGED <<streams, turn, refused>>
  BY EndsFacts DEF RespondedToReview, Responded
<1>2. /\ agent.cmds # <<>> /\ agent.cmds \in Seq(Cmd) /\ agent.task \in StreamId
      /\ ~IsBlocked(agent.cmds)
  BY AgentFields DEF RespondedToReview, Responded, Inv, TypeOK
<1>3. PICK mode \in {"Judging", "Approving"} :
        agent' = State(mode, agent.task, agent.cmds)
  BY DEF RespondedToReview
<1>4. /\ agent' \in AgentState /\ agent'.mode = mode /\ agent'.cmds = agent.cmds
      /\ agent'.task = agent.task
  <2>1. mode \in Mode
    BY DEF Mode
  <2> QED
    BY <1>2, <1>3, <2>1, StateFacts
<1>5. TurnOK' /\ RecordOK'
  BY <1>1, CountedFacts, ResponseFacts
     DEF RespondedToReview, Responded, Inv, TypeOK, TurnOK, RecordOK
<1>6. TaskOK'
  <2>1. instr' \in Nat
    BY DEF RespondedToReview, Responded
  <2>2. Started(instr') \in TaskState
    BY <2>1, TaskFacts
  <2>3. CASE judges' = [judges EXCEPT ![agent.task] = Started(instr')]
    BY <1>1, <2>2, <2>3 DEF Inv, TypeOK, TaskOK
  <2>4. CASE UNCHANGED judges
    BY <1>1, <2>4 DEF Inv, TypeOK, TaskOK
  <2> QED
    BY <2>3, <2>4 DEF RespondedToReview
<1>7. ScreenOK' /\ UNCHANGED execVars
  BY DEF RespondedToReview, Inv, TypeOK, ScreenOK, screenVars
<1>8. AgentOK' /\ ~IsBlocked(agent'.cmds)
  BY <1>2, <1>4 DEF AgentOK
<1> QED
  BY <1>1, <1>4, <1>5, <1>6, <1>7, <1>8, QuietStep

LEMMA OnJudgeResultInv ==
  ASSUME Inv, OnJudgeResult
  PROVE  Inv'
<1>1. ChanOK' /\ PromptOK' /\ UNCHANGED <<streams, turn, refused>>
  BY EndsFacts DEF OnJudgeResult
<1>2. TurnOK' /\ RecordOK' /\ TaskOK' /\ UNCHANGED execVars
  BY <1>1 DEF OnJudgeResult, Inv, TypeOK, TurnOK, RecordOK, TaskOK, recordVars
<1>3. CASE agent.mode = "Judging"
  <2>1. /\ agent.cmds # <<>> /\ agent.cmds \in Seq(Cmd) /\ agent.task \in StreamId
        /\ ~IsBlocked(agent.cmds)
    BY <1>3, AgentFields DEF Inv, TypeOK, AgentOK, NothingDenied
  <2>2. agent' = State("Approving", agent.task, agent.cmds) /\ "Approving" \in Mode
    BY <1>3 DEF OnJudgeResult, Mode
  <2>3. /\ agent' \in AgentState /\ agent'.mode = "Approving"
        /\ agent'.cmds = agent.cmds /\ agent'.task = agent.task
    BY <2>1, <2>2, StateFacts
  <2>4. AgentOK' /\ ~IsBlocked(agent'.cmds)
    BY <2>1, <2>3 DEF AgentOK
  <2>5. ScreenOK'
    BY <1>3, FlushFacts DEF OnJudgeResult, Inv, TypeOK
  <2> QED
    BY <1>1, <1>2, <2>3, <2>4, <2>5, QuietStep
<1>4. CASE agent.mode # "Judging"
  <2>1. AgentOK' /\ agent'.mode = "Idle"
    BY <1>4, IdleFacts DEF OnJudgeResult, AgentOK
  <2>2. ScreenOK'
    BY <1>4 DEF OnJudgeResult, Inv, TypeOK, ScreenOK, screenVars
  <2> QED
    BY <1>1, <1>2, <2>1, <2>2, QuietStep
<1> QED
  BY <1>3, <1>4

(* What the handlers of PtyOutput and PtyEof do.                           *)

LEMMA MarkFacts ==
  ASSUME Inv, NEW mark \in Marks
  PROVE  /\ QueueAfter(queue, mark) \in Queue(Cmd)
         /\ Coherent(QueueAfter(queue, mark))
         /\ QueueEvent(queue, mark) = "None" =>
              /\ QueueAfter(queue, mark).executing = queue.executing
              /\ QueueAfter(queue, mark).commands = queue.commands
         /\ QueueEvent(queue, mark) = "Dispatch" =>
              /\ QueueAfter(queue, mark).executing
              /\ queue.commands # <<>>
              /\ QueueAfter(queue, mark).commands = Tail(queue.commands)
         /\ QueueEvent(queue, mark) = "AllDone" =>
              QueueAfter(queue, mark).commands = <<>>
         /\ QueueEvent(queue, mark) = "Failed" =>
              QueueAfter(queue, mark) = EmptyQueue
<1>1. queue \in Queue(Cmd) /\ Coherent(queue)
  BY DEF Inv, TypeOK, ExecOK
<1>2. CASE mark = Text
  BY <1>1, <1>2 DEF Text, QueueAfter, QueueEvent
<1>3. CASE mark \in Marker
  BY <1>1, <1>3, QueueEventFacts
<1> QED
  BY <1>2, <1>3, ReplAssumption

LEMMA OutputFacts ==
  ASSUME Inv, NEW mark \in Marks, Output(mark)
  PROVE  /\ ChanOK' /\ ScreenOK' /\ TurnOK'
         /\ terminal' \in {"Idle", "Prompt", "Input", "Executing"}
         /\ usercmd' \in BOOLEAN
         /\ UNCHANGED <<audit, judges>>
<1>1. /\ ChanOK' /\ Head(chan) \in EventType /\ Head(chan).e = "PtyOutput"
  BY TakeFacts DEF Output, Inv, TypeOK, ChanOK
<1>2. Head(chan).n \in Nat
  <2>1. Head(chan) \in [e : {"PtyOutput"}, n : 1..MaxOut, mark : Marks]
    <3>1. Head(chan) \notin [e : {"Stdin"}, key : Keys]
      BY <1>1
    <3>2. Head(chan) \notin [e : {"BackendChunk"}, s : StreamId, kind : ChunkKinds, cmd : Cmd]
      BY <1>1
    <3>3. Head(chan) # PtyEof
      BY <1>1 DEF PtyEof
    <3>4. Head(chan) \notin [e : {"BackendDone", "JudgeResult"}, s : StreamId]
      BY <1>1
    <3> QED
      BY <1>1, <3>1, <3>2, <3>3, <3>4 DEF EventType
  <2>2. Head(chan).n \in 1..MaxOut
    BY <2>1
  <2> QED
    BY <2>2
<1>3. ptybuf \in Seq(Nat) /\ shown \in Seq(Nat)
  BY DEF Inv, TypeOK, ScreenOK
<1>4. ScreenOK'
  <2> DEFINE n == Head(chan).n
  <2>1. CASE ptybuf' = Append(ptybuf, n) /\ UNCHANGED shown
    BY <1>2, <1>3, <2>1 DEF ScreenOK
  <2>2. CASE shown' = Append(shown \o ptybuf, n) /\ ptybuf' = <<>>
    <3>1. shown \o ptybuf \in Seq(Nat)
      BY <1>3
    <3> QED
      BY <1>2, <2>2, <3>1 DEF ScreenOK
  <2> QED
    BY <2>1, <2>2 DEF Output, Display
<1>5. terminal' \in {"Idle", "Prompt", "Input", "Executing"}
  BY DEF Output, TerminalAfter, Inv, TypeOK, PromptOK
<1>6. usercmd' \in BOOLEAN
  BY DEF Output
<1>7. TurnOK'
  BY DEF Output, Inv, TypeOK, TurnOK
<1> QED
  BY <1>1, <1>4, <1>5, <1>6, <1>7 DEF Output

LEMMA OutputOnlyInv ==
  ASSUME Inv, NEW mark \in Marks, OutputOnly(mark)
  PROVE  Inv'
<1>1. /\ ChanOK' /\ ScreenOK' /\ TurnOK' /\ UNCHANGED <<audit, judges>>
      /\ terminal' \in {"Idle", "Prompt", "Input", "Executing"} /\ usercmd' \in BOOLEAN
  BY OutputFacts DEF OutputOnly
<1>2. PromptOK' /\ TaskOK'
  BY <1>1 DEF OutputOnly, Inv, TypeOK, PromptOK, TaskOK
<1>3. /\ queue' \in Queue(Cmd) /\ Coherent(queue')
      /\ queue'.executing = queue.executing /\ queue'.commands = queue.commands
  BY MarkFacts DEF OutputOnly
<1>4. RecordOK'
  <2>1. turn \in Nat /\ "ShellCommand" \in EntryKind
    BY DEF Inv, TypeOK, TurnOK, EntryKind
  <2>2. Append(journal, Entry("ShellCommand", turn)) \in Seq(JournalEntry)
    BY <2>1, EntryFacts DEF Inv, TypeOK, RecordOK
  <2> QED
    BY <2>2 DEF OutputOnly, Inv, TypeOK, RecordOK
<1>5. AgentOK' /\ agent'.mode = agent.mode /\ agent'.cmds = agent.cmds
  BY DEF OutputOnly, Inv, TypeOK, AgentOK, AgentState
<1>6. ExecOK' /\ ApprovalGate' /\ ExecutingHasQueue' /\ NothingDenied'
  BY <1>1, <1>3, <1>5
     DEF OutputOnly, Inv, TypeOK, ExecOK, ApprovalGate, Covers, ExecutingHasQueue,
         NothingDenied, IsBlocked, Coherent
<1> QED
  BY <1>1, <1>2, <1>3, <1>4, <1>5, <1>6 DEF Inv, TypeOK

LEMMA DispatchNextInv ==
  ASSUME Inv, NEW mark \in Marks, DispatchNext(mark)
  PROVE  Inv'
<1> DEFINE after == QueueAfter(queue, mark)
<1>1. /\ ChanOK' /\ ScreenOK' /\ TurnOK' /\ UNCHANGED <<audit, judges>>
      /\ terminal' \in {"Idle", "Prompt", "Input", "Executing"} /\ usercmd' \in BOOLEAN
  BY OutputFacts DEF DispatchNext
<1>2. PromptOK' /\ TaskOK' /\ RecordOK'
  BY <1>1 DEF DispatchNext, Inv, TypeOK, PromptOK, TaskOK, RecordOK, recordVars
<1>3. /\ after \in Queue(Cmd) /\ Coherent(after) /\ after.executing
      /\ queue.commands # <<>> /\ after.commands = Tail(queue.commands)
  BY MarkFacts DEF DispatchNext
<1>4. CASE queue' = after /\ sent' = sent \cup {Head(queue.commands)} /\ UNCHANGED agent
  <2>1. queue.commands \in Seq(Cmd)
    BY DEF Inv, TypeOK, ExecOK, Queue
  <2>2. /\ Head(queue.commands) \in RangeOf(queue.commands)
        /\ RangeOf(after.commands) \subseteq RangeOf(queue.commands)
    BY <1>3, <2>1, RangeHeadTail
  <2>3. Head(queue.commands) \in Cmd
    BY <1>3, <2>1
  <2>4. ApprovalGate'
    BY <1>1, <1>4, <2>2 DEF Inv, ApprovalGate, Covers
  <2>5. ExecOK' /\ AgentOK'
    BY <1>1, <1>3, <1>4, <2>3 DEF Inv, TypeOK, ExecOK, AgentOK, Coherent
  <2> QED
    BY <1>1, <1>2, <1>3, <1>4, <2>4, <2>5
       DEF Inv, TypeOK, ExecutingHasQueue, NothingDenied, IsBlocked, Coherent
<1>5. CASE queue' = Clear(after) /\ agent' = Idle /\ UNCHANGED sent
  <2>1. queue' = EmptyQueue /\ AgentOK' /\ agent'.mode = "Idle"
    BY <1>5, IdleFacts DEF Clear, AgentOK
  <2> QED
    BY <1>1, <1>2, <1>5, <2>1, ClearingStep
<1> QED
  BY <1>4, <1>5 DEF DispatchNext

LEMMA BatchDoneInv ==
  ASSUME Inv, NEW mark \in Marks, BatchDone(mark)
  PROVE  Inv'
<1>1. /\ ChanOK' /\ ScreenOK' /\ TurnOK' /\ UNCHANGED <<audit, judges>>
      /\ terminal' \in {"Idle", "Prompt", "Input", "Executing"} /\ usercmd' \in BOOLEAN
  BY OutputFacts DEF BatchDone
<1>2. PromptOK' /\ UNCHANGED sent
  BY <1>1 DEF BatchDone, PromptOK
<1>3. /\ queue' \in Queue(Cmd) /\ Coherent(queue') /\ RangeOf(queue'.commands) = {}
  BY MarkFacts, RangeEmpty DEF BatchDone
<1>4. ExecOK' /\ ApprovalGate'
  BY <1>1, <1>2, <1>3 DEF Inv, TypeOK, ExecOK, ApprovalGate, Covers, Coherent
<1>5. /\ RecordOK' /\ TaskOK' /\ AgentOK' /\ agent'.mode \in {"Idle", "Streaming"}
  <2>1. CASE agent.mode = "Executing" /\ Continue
    <3> DEFINE result  == Entry("ToolResult", agent.task)
               forTurn == streams[agent.task].turn
    <3>1. agent.task \in StreamId /\ agent.task \in Nat /\ "ToolResult" \in EntryKind
      BY <2>1, AgentFields DEF Inv, TypeOK, EntryKind
    <3>2. forTurn \in Nat
      BY <3>1 DEF Inv, TypeOK, TaskOK, TaskState
    <3>3. /\ Append(journal, result) \in Seq(JournalEntry)
          /\ Push(result) \in Conversation
      BY <3>1, EntryFacts, PushFacts DEF Inv, TypeOK
    <3>4. PICK cached \in Conversation :
            StartStreaming(Append(journal, result), cached, forTurn)
      BY <2>1, <3>3, NoCacheType DEF Continue
    <3> HIDE DEF result, forTurn
    <3> QED
      BY <1>1, <3>2, <3>3, <3>4, StartStreamingFacts DEF Inv, TypeOK, TaskOK
  <2>2. CASE agent' = Idle /\ UNCHANGED <<recordVars, streams>>
    BY <1>1, <2>2, IdleFacts DEF Inv, TypeOK, AgentOK, RecordOK, TaskOK, recordVars
  <2> QED
    BY <2>1, <2>2 DEF BatchDone
<1> QED
  BY <1>1, <1>2, <1>3, <1>4, <1>5 DEF Inv, TypeOK, ExecutingHasQueue, NothingDenied

LEMMA BatchFailedInv ==
  ASSUME Inv, NEW mark \in Marks, BatchFailed(mark)
  PROVE  Inv'
<1>1. /\ ChanOK' /\ ScreenOK' /\ TurnOK' /\ UNCHANGED <<audit, judges>>
      /\ terminal' \in {"Idle", "Prompt", "Input", "Executing"} /\ usercmd' \in BOOLEAN
  BY OutputFacts DEF BatchFailed
<1>2. PromptOK' /\ TaskOK' /\ RecordOK' /\ UNCHANGED sent
  BY <1>1 DEF BatchFailed, Inv, TypeOK, PromptOK, TaskOK, RecordOK, recordVars
<1>3. queue' = EmptyQueue
  BY MarkFacts DEF BatchFailed
<1>4. AgentOK' /\ agent'.mode = "Idle"
  BY IdleFacts DEF BatchFailed, AgentOK
<1> QED
  BY <1>1, <1>2, <1>3, <1>4, ClearingStep

LEMMA OnPtyEofInv ==
  ASSUME Inv, OnPtyEof
  PROVE  Inv'
<1>1. ChanOK'
  BY TakeFacts DEF OnPtyEof, Inv, TypeOK, ChanOK
<1>2. /\ AgentOK' /\ PromptOK' /\ ScreenOK' /\ TurnOK' /\ TaskOK' /\ RecordOK'
      /\ UNCHANGED execVars /\ agent' = agent
  BY DEF OnPtyEof, Inv, TypeOK, AgentOK, PromptOK, ScreenOK, TurnOK, TaskOK, RecordOK,
         promptVars, screenVars, recordVars
<1> QED
  BY <1>1, <1>2, QuietStep

(* The threads and tasks only add to the channel.                          *)
LEMMA EnvironmentInv ==
  ASSUME Inv, Environment
  PROVE  Inv'
<1> USE DEF Inv, TypeOK
<1>1. chan \in Seq(EventType) /\ keys \in Nat /\ outs \in Nat /\ running \in BOOLEAN
  BY DEF ChanOK
<1>2. ASSUME UNCHANGED loopVars, TaskOK', keys' \in Nat, outs' \in Nat,
             \/ UNCHANGED chan
             \/ \E event \in EventType : chan' = Append(chan, event)
      PROVE  Inv'
  <2>1. ChanOK'
    BY <1>1, <1>2 DEF ChanOK, loopVars
  <2>2. /\ AgentOK' /\ PromptOK' /\ ScreenOK' /\ TurnOK' /\ RecordOK'
        /\ UNCHANGED execVars /\ agent' = agent
    BY <1>2 DEF loopVars, AgentOK, PromptOK, ScreenOK, TurnOK, RecordOK, execVars
  <2> QED
    BY <1>2, <2>1, <2>2, QuietStep
<1>3. ASSUME NEW key \in Keys, UserTypes(key)
      PROVE  Inv'
  <2>1. Stdin(key) \in EventType
    BY DEF Stdin, EventType
  <2> QED
    BY <1>1, <1>2, <1>3, <2>1 DEF UserTypes, Send, TaskOK
<1>4. ASSUME NEW mark \in Marks, ShellPrints(mark)
      PROVE  Inv'
  <2>1. outs + 1 \in 1..MaxOut
    BY <1>1, <1>4, ReplAssumption DEF ShellPrints
  <2>2. PtyOutput(outs + 1, mark) \in EventType
    BY <2>1 DEF PtyOutput, EventType
  <2> QED
    BY <1>1, <1>2, <1>4, <2>2 DEF ShellPrints, Send, TaskOK
<1>5. CASE ShellExits
  <2>1. PtyEof \in EventType /\ MaxOut + 1 \in Nat
    BY ReplAssumption DEF EventType
  <2> QED
    BY <1>1, <1>2, <1>5, <2>1 DEF ShellExits, Send, TaskOK
<1>6. ASSUME NEW s \in StreamId, NEW kind \in ChunkKinds, NEW risk \in Risks,
             StreamSends(s, kind, risk)
      PROVE  Inv'
  <2> DEFINE n == streams[s].chunks + 1
  <2>1. streams[s] \in TaskState /\ n \in 1..MaxChunks
    BY <1>6, ReplAssumption DEF StreamSends, TaskOK, TaskState
  <2>2. [src |-> s, nth |-> n, risk |-> risk] \in Cmd
    BY <2>1 DEF Cmd
  <2>3. Chunk(s, kind, [src |-> s, nth |-> n, risk |-> risk]) \in EventType
    BY <2>2 DEF Chunk, EventType
  <2>4. [streams[s] EXCEPT !.chunks = n] \in TaskState
    BY <2>1 DEF TaskState
  <2>5. TaskOK'
    BY <1>6, <2>4 DEF StreamSends, TaskOK
  <2> QED
    BY <1>1, <1>2, <1>6, <2>3, <2>5 DEF StreamSends, Send
<1>7. ASSUME NEW s \in StreamId, StreamEnds(s)
      PROVE  Inv'
  <2>1. Done(s) \in EventType
    BY DEF Done, EventType
  <2>2. TaskOK'
    BY <1>7 DEF StreamEnds, TaskOK, TaskState
  <2> QED
    BY <1>1, <1>2, <1>7, <2>1, <2>2 DEF StreamEnds, Send
<1>8. ASSUME NEW s \in StreamId, JudgeAnswers(s)
      PROVE  Inv'
  <2>1. JudgeResult(s) \in EventType
    BY DEF JudgeResult, EventType
  <2>2. TaskOK'
    BY <1>8 DEF JudgeAnswers, TaskOK, TaskState
  <2> QED
    BY <1>1, <1>2, <1>8, <2>1, <2>2 DEF JudgeAnswers, Send
<1>9. ASSUME NEW s \in StreamId, JudgeCancelled(s) \/ JudgePanics(s)
      PROVE  Inv'
  <2>1. TaskOK'
    BY <1>9 DEF JudgeCancelled, JudgePanics, TaskOK, TaskState
  <2> QED
    BY <1>1, <1>2, <1>9, <2>1 DEF JudgeCancelled, JudgePanics
<1>10. ASSUME NEW s \in StreamId, StreamPanics(s)
       PROVE  Inv'
  <2>1. TaskOK'
    BY <1>10 DEF StreamPanics, TaskOK, TaskState
  <2> QED
    BY <1>1, <1>2, <1>10, <2>1 DEF StreamPanics
<1> QED
  BY <1>3, <1>4, <1>5, <1>6, <1>7, <1>8, <1>9, <1>10 DEF Environment

-----------------------------------------------------------------------------

LEMMA InitInv == Init => Inv
<1> SUFFICES ASSUME Init PROVE Inv
  OBVIOUS
<1>1. AgentOK /\ NothingDenied /\ ExecutingHasQueue
  BY IdleFacts DEF Init, AgentOK, NothingDenied, ExecutingHasQueue
<1>2. ExecOK /\ Coherent(queue) /\ RangeOf(queue.commands) = {}
  BY EmptyQueueFacts, RangeEmpty DEF Init, ExecOK, Coherent
<1>3. ApprovalGate
  BY <1>2 DEF Init, ApprovalGate
<1>4. PromptOK /\ ScreenOK /\ TurnOK /\ RecordOK /\ ChanOK
  <2>1. PromptOK
    BY DEF Init, PromptOK
  <2>4. ScreenOK
    BY DEF Init, ScreenOK
  <2>5. <<>> \in Seq(EventType)
    OBVIOUS
  <2>6. ChanOK
    BY <2>5 DEF Init, ChanOK
  <2>2. TurnOK
    BY DEF Init, TurnOK, NoTotals, Totals
  <2>3. RecordOK
    BY NoCacheType DEF Init, RecordOK
  <2> QED
    BY <2>1, <2>2, <2>3, <2>4, <2>6
<1>5. TaskOK
  BY TaskFacts DEF Init, TaskOK
<1> QED
  BY <1>1, <1>2, <1>3, <1>4, <1>5 DEF Inv, TypeOK

LEMMA NextInv ==
  ASSUME Inv, [Next]_vars
  PROVE  Inv'
<1>1. CASE OnStdin
  BY <1>1, StdinInstructionInv, StdinCommandInv, StdinKeyInv, StdinSilentInv,
     CancelStreamingInv, CancelJudgingInv, StdinApproveInv, StdinDenyInv,
     StdinUndecidedInv, InterruptExecutionInv DEF OnStdin
<1>2. CASE OnBackendChunk
  BY <1>2, OnBackendChunkInv
<1>3. CASE OnBackendDone
  BY <1>3, DoneElsewhereInv, DoneWithErrorInv, RespondedNoCommandsInv,
     RespondedBlockedInv, RespondedAutoApprovedInv, RespondedToReviewInv
     DEF OnBackendDone
<1>4. CASE OnJudgeResult
  BY <1>4, OnJudgeResultInv
<1>5. CASE OnPtyOutput
  BY <1>5, OutputOnlyInv, DispatchNextInv, BatchDoneInv, BatchFailedInv
     DEF OnPtyOutput
<1>6. CASE OnPtyEof
  BY <1>6, OnPtyEofInv
<1>7. CASE Environment
  BY <1>7, EnvironmentInv
<1>8. CASE UNCHANGED vars
  <2>1. UNCHANGED <<loopVars, chan, streams, judges, keys, outs>>
    BY <1>8 DEF vars, taskVars, envVars
  <2>2. /\ AgentOK' /\ PromptOK' /\ ScreenOK' /\ TurnOK' /\ RecordOK' /\ ChanOK'
        /\ TaskOK' /\ UNCHANGED execVars /\ agent' = agent
    BY <2>1 DEF loopVars, execVars, Inv, TypeOK, AgentOK, PromptOK, ScreenOK, TurnOK,
                RecordOK, ChanOK, TaskOK
  <2> QED
    BY <2>2, QuietStep
<1> QED
  BY <1>1, <1>2, <1>3, <1>4, <1>5, <1>6, <1>7, <1>8 DEF Next, Loop

LEMMA Invariance == Spec => []Inv
BY InitInv, NextInv, PTL DEF Spec

(* Types are kept whatever the environment sends.                          *)
THEOREM TypeCorrect == Spec => []TypeOK
<1>1. Inv => TypeOK
  BY DEF Inv
<1> QED
  BY <1>1, Invariance, PTL

(* No command is written to the PTY, or queued to be, without an approval  *)
(* that covers its risk: no order of stale backend events, keys, markers,  *)
(* failed writes and cancellations gets past the gate.                     *)
THEOREM NothingRunsUnapproved == Spec => []ApprovalGate
<1>1. Inv => ApprovalGate
  BY DEF Inv
<1> QED
  BY <1>1, Invariance, PTL

(* Executing never waits for a queue that does not execute.                *)
THEOREM ExecutingIsQueued == Spec => []ExecutingHasQueue
<1>1. Inv => ExecutingHasQueue
  BY DEF Inv
<1> QED
  BY <1>1, Invariance, PTL
-----------------------------------------------------------------------------
(* The cached conversation.  Inv gives the types; CacheCoherent itself is  *)
(* inductive: a handler either leaves journal and cache alone, or pushes   *)
(* the same entry to both, or ends in Idle.                                *)

LEMMA CacheOfStream ==
  ASSUME NEW entries, NEW cached, NEW turn0, StartStreaming(entries, cached, turn0),
         cached.some => cached.conv = entries
  PROVE  CacheCoherent'
BY DEF StartStreaming, CacheCoherent, Cached, Idle, State

LEMMA CacheOfIdle ==
  ASSUME agent'.mode = "Idle"
  PROVE  CacheCoherent'
BY DEF CacheCoherent

LEMMA CacheKept ==
  ASSUME CacheCoherent, UNCHANGED recordVars,
         agent'.mode # "Idle" => agent.mode # "Idle"
  PROVE  CacheCoherent'
BY DEF CacheCoherent, recordVars

LEMMA CachePushed ==
  ASSUME CacheCoherent, agent.mode # "Idle", NEW entry,
         journal' = Append(journal, entry), cache' = Push(entry)
  PROVE  CacheCoherent'
BY DEF CacheCoherent, Push, Cached

LEMMA CacheStdin ==
  ASSUME CacheCoherent, OnStdin
  PROVE  CacheCoherent'
<1>1. CASE StdinInstruction
  BY <1>1, CacheOfStream DEF StdinInstruction, NoCache
<1>2. CASE StdinCommand \/ StdinKey
  BY <1>2, CacheOfIdle DEF StdinCommand, StdinKey
<1>3. CASE StdinIgnored \/ StdinForwarded
  BY <1>3, CacheKept DEF StdinIgnored, StdinForwarded, loopVars, recordVars
<1>4. CASE CancelStreaming \/ CancelJudging \/ StdinDeny \/ InterruptExecution
  BY <1>4, CacheOfIdle, IdleFacts
     DEF CancelStreaming, CancelJudging, StdinDeny, InterruptExecution
<1>5. CASE StdinApprove \/ StdinUndecided
  BY <1>5, CacheKept DEF StdinApprove, StdinUndecided
<1> QED
  BY <1>1, <1>2, <1>3, <1>4, <1>5 DEF OnStdin

LEMMA CacheBackend ==
  ASSUME CacheCoherent, OnBackendChunk \/ OnBackendDone \/ OnJudgeResult
  PROVE  CacheCoherent'
<1>1. CASE OnBackendChunk
  <2>1. agent.mode # "Streaming" => agent' = agent
    BY <1>1 DEF OnBackendChunk
  <2> QED
    BY <1>1, <2>1, CacheKept DEF OnBackendChunk
<1>2. CASE DoneElsewhere \/ DoneWithError \/ RespondedNoCommands \/ RespondedBlocked
  BY <1>2, CacheOfIdle, IdleFacts
     DEF DoneElsewhere, DoneWithError, RespondedNoCommands, RespondedBlocked
<1>3. CASE RespondedAutoApproved \/ RespondedToReview
  BY <1>3, CachePushed DEF RespondedAutoApproved, RespondedToReview, Responded
<1>4. CASE OnJudgeResult
  BY <1>4, CacheKept, CacheOfIdle, IdleFacts DEF OnJudgeResult
<1> QED
  BY <1>1, <1>2, <1>3, <1>4 DEF OnBackendDone

LEMMA CacheOutput ==
  ASSUME Inv, CacheCoherent, NEW mark \in Marks,
         OutputOnly(mark) \/ DispatchNext(mark) \/ BatchDone(mark) \/ BatchFailed(mark)
  PROVE  CacheCoherent'
<1>1. CASE OutputOnly(mark)
  <2>1. agent'.mode = agent.mode
    BY <1>1 DEF OutputOnly, Inv, TypeOK, AgentOK, AgentState
  <2>2. agent.mode # "Idle" => UNCHANGED recordVars
    BY <1>1 DEF OutputOnly, EndsUserCommand, recordVars
  <2> QED
    BY <2>1, <2>2, CacheKept, CacheOfIdle
<1>2. CASE DispatchNext(mark)
  BY <1>2, CacheKept, CacheOfIdle, IdleFacts DEF DispatchNext
<1>3. CASE BatchDone(mark)
  <2>1. CASE agent.mode = "Executing" /\ Continue
    <3> DEFINE result == Entry("ToolResult", agent.task)
    <3>1. Push(result).some => Push(result).conv = Append(journal, result)
      BY <2>1 DEF CacheCoherent, Push, Cached
    <3>2. ~NoCache.some
      BY DEF NoCache
    <3> HIDE DEF result
    <3> QED
      BY <2>1, <3>1, <3>2, CacheOfStream DEF Continue, result
  <2>2. CASE agent' = Idle
    BY <2>2, CacheOfIdle, IdleFacts
  <2> QED
    BY <1>3, <2>1, <2>2 DEF BatchDone
<1>4. CASE BatchFailed(mark)
  BY <1>4, CacheOfIdle, IdleFacts DEF BatchFailed
<1> QED
  BY <1>1, <1>2, <1>3, <1>4

LEMMA CacheQuiet ==
  ASSUME CacheCoherent, UNCHANGED <<agent, recordVars>>
  PROVE  CacheCoherent'
BY CacheKept

LEMMA EnvironmentQuiet ==
  ASSUME Environment \/ UNCHANGED vars
  PROVE  UNCHANGED loopVars
BY DEF Environment, UserTypes, ShellPrints, ShellExits, StreamSends, StreamEnds,
       JudgeAnswers, JudgeCancelled, StreamPanics, JudgePanics, vars

(* While a turn goes on the conversation in memory is the journal's,       *)
(* whatever is cancelled, dropped or rebuilt on the way.                   *)
THEOREM MemoryFollowsJournal == Spec => []CacheCoherent
<1>1. Init => CacheCoherent
  BY IdleFacts DEF Init, CacheCoherent
<1>2. Inv /\ CacheCoherent /\ [Next]_vars => CacheCoherent'
  <2> SUFFICES ASSUME Inv, CacheCoherent, [Next]_vars PROVE CacheCoherent'
    OBVIOUS
  <2>1. CASE OnStdin
    BY <2>1, CacheStdin
  <2>2. CASE OnBackendChunk \/ OnBackendDone \/ OnJudgeResult
    BY <2>2, CacheBackend
  <2>3. CASE OnPtyOutput
    BY <2>3, CacheOutput DEF OnPtyOutput
  <2>4. CASE OnPtyEof
    BY <2>4, CacheQuiet DEF OnPtyEof
  <2>5. CASE Environment \/ UNCHANGED vars
    BY <2>5, CacheQuiet, EnvironmentQuiet DEF loopVars, recordVars
  <2> QED
    BY <2>1, <2>2, <2>3, <2>4, <2>5 DEF Next, Loop
<1> QED
  BY <1>1, <1>2, Invariance, PTL DEF Spec

-----------------------------------------------------------------------------
(* The approval prompt.                                                    *)

(* Output is held back while the prompt is up, and whatever writes the     *)
(* buffer out leaves Approving or comes from Judging.                      *)
THEOREM NothingOverPrompt == Spec => PromptUndisturbed
<1> DEFINE Undisturbed ==
      agent.mode = "Approving" /\ agent'.mode = "Approving" => UNCHANGED shown
<1>1. ASSUME [Next]_vars
      PROVE  [Undisturbed]_vars
  <2> SUFFICES ASSUME agent.mode = "Approving", agent'.mode = "Approving"
               PROVE  UNCHANGED shown
    OBVIOUS
  <2>1. agent' # Idle /\ \A task, cmds : agent' # State("Executing", task, cmds)
    BY DEF Idle, State
  <2>2. CASE OnStdin
    BY <2>1, <2>2 DEF OnStdin, StdinInstruction, StdinCommand, StdinKey, StdinIgnored,
       CancelStreaming, CancelJudging, StdinApprove, RunBatch, StdinDeny,
       StdinUndecided, InterruptExecution, StdinForwarded, screenVars, loopVars
  <2>3. CASE OnBackendChunk \/ OnJudgeResult \/ OnPtyEof
    BY <2>1, <2>3 DEF OnBackendChunk, OnJudgeResult, OnPtyEof, screenVars
  <2>4. CASE OnBackendDone
    BY <2>1, <2>4 DEF OnBackendDone, DoneElsewhere, DoneWithError, Responded,
       RespondedNoCommands, RespondedBlocked, RespondedAutoApproved, RespondedToReview,
       screenVars
  <2>5. CASE OnPtyOutput
    BY <2>5 DEF OnPtyOutput, OutputOnly, DispatchNext, BatchDone, BatchFailed,
       Output, Display, Held
  <2>6. CASE Environment \/ UNCHANGED vars
    BY <2>6, EnvironmentQuiet DEF loopVars
  <2> QED
    BY <1>1, <2>2, <2>3, <2>4, <2>5, <2>6 DEF Next, Loop
<1> QED
  BY <1>1, PTL DEF Spec, PromptUndisturbed
-----------------------------------------------------------------------------
(* What was refused.  A command has one place: it is on its way in the     *)
(* channel, in the state, in the queue, or it has been written or refused. *)
(* Handlers move it on, never back, and none of them copies it.            *)

NoRepeat(s) == \A i, j \in 1..Len(s) : s[i] = s[j] => i = j

ChunkAt(events)  == {i \in 1..Len(events) : events[i].e = "BackendChunk"}
ChunksOf(events) == {events[i].cmd : i \in ChunkAt(events)}
NoChunkTwice(events) ==
  \A i, j \in ChunkAt(events) : events[i].cmd = events[j].cmd => i = j

Past     == sent \cup refused
Queued   == RangeOf(queue.commands)
Current  == RangeOf(agent.cmds)
InFlight == ChunksOf(chan)

(* The commands the streams have proposed so far.                          *)
Proposed == {c \in Cmd : c.nth <= streams[c.src].chunks}

Apart(past, queued, current, inFlight) ==
  /\ past \cap queued = {} /\ past \cap current = {} /\ past \cap inFlight = {}
  /\ queued \cap current = {} /\ queued \cap inFlight = {}
  /\ current \cap inFlight = {}

OnePlace ==
  /\ refused \cap sent = {}
  /\ NoRepeat(queue.commands) /\ NoRepeat(agent.cmds) /\ NoChunkTwice(chan)
  /\ Apart(Past, Queued, Current, InFlight)
  /\ Past \cup Queued \cup Current \cup InFlight \subseteq Proposed
  /\ \A s \in StreamId : streams[s].st = "unborn" => streams[s].chunks = 0

LEMMA NoRepeatEmpty == NoRepeat(<<>>)
BY DEF NoRepeat

LEMMA NoRepeatTail ==
  ASSUME NEW C, NEW s \in Seq(C), s # <<>>, NoRepeat(s)
  PROVE  NoRepeat(Tail(s)) /\ Head(s) \notin RangeOf(Tail(s))
<1>1. /\ Len(s) \in Nat /\ Len(s) >= 1 /\ Head(s) = s[1]
      /\ Len(Tail(s)) = Len(s) - 1
      /\ \A i \in 1..(Len(s) - 1) : Tail(s)[i] = s[i + 1]
  OBVIOUS
<1>2. ASSUME NEW i \in 1..(Len(s) - 1), NEW j \in 1..(Len(s) - 1),
             Tail(s)[i] = Tail(s)[j]
      PROVE  i = j
  <2>1. i + 1 \in 1..Len(s) /\ j + 1 \in 1..Len(s) /\ s[i + 1] = s[j + 1]
    BY <1>1, <1>2
  <2>2. i + 1 = j + 1
    BY <2>1 DEF NoRepeat
  <2> QED
    BY <2>2
<1>3. ASSUME NEW i \in 1..(Len(s) - 1), Head(s) = Tail(s)[i]
      PROVE  FALSE
  <2>1. i + 1 \in 1..Len(s) /\ 1 \in 1..Len(s) /\ s[1] = s[i + 1]
    BY <1>1, <1>3
  <2>2. 1 = i + 1
    BY <2>1 DEF NoRepeat
  <2> QED
    BY <2>2
<1> QED
  BY <1>1, <1>2, <1>3 DEF NoRepeat, RangeOf

LEMMA NoRepeatConcat ==
  ASSUME NEW C, NEW s \in Seq(C), NEW t \in Seq(C), NoRepeat(s), NoRepeat(t),
         RangeOf(s) \cap RangeOf(t) = {}
  PROVE  NoRepeat(s \o t)
<1>1. /\ Len(s \o t) = Len(s) + Len(t) /\ Len(s) \in Nat /\ Len(t) \in Nat
      /\ \A i \in 1..Len(s) : (s \o t)[i] = s[i]
      /\ \A i \in 1..Len(t) : (s \o t)[Len(s) + i] = t[i]
  OBVIOUS
<1>2. ASSUME NEW i \in 1..(Len(s) + Len(t)), i > Len(s)
      PROVE  i - Len(s) \in 1..Len(t) /\ (s \o t)[i] = t[i - Len(s)]
  <2>1. i - Len(s) \in 1..Len(t) /\ Len(s) + (i - Len(s)) = i
    BY <1>1, <1>2
  <2> QED
    BY <1>1, <2>1
<1>3. ASSUME NEW i \in 1..(Len(s) + Len(t)), NEW j \in 1..(Len(s) + Len(t)),
             i <= Len(s), j > Len(s)
      PROVE  (s \o t)[i] # (s \o t)[j]
  <2>1. i \in 1..Len(s) /\ (s \o t)[i] = s[i]
    BY <1>1, <1>3
  <2>2. s[i] \in RangeOf(s) /\ t[j - Len(s)] \in RangeOf(t)
    BY <1>2, <1>3, <2>1 DEF RangeOf
  <2> QED
    BY <1>2, <1>3, <2>1, <2>2
<1>4. ASSUME NEW i \in 1..(Len(s) + Len(t)), NEW j \in 1..(Len(s) + Len(t)),
             (s \o t)[i] = (s \o t)[j]
      PROVE  i = j
  <2>1. CASE i <= Len(s) /\ j <= Len(s)
    BY <1>1, <1>4, <2>1 DEF NoRepeat
  <2>2. CASE i > Len(s) /\ j > Len(s)
    <3>1. i - Len(s) = j - Len(s)
      BY <1>2, <1>4, <2>2 DEF NoRepeat
    <3> QED
      BY <1>1, <3>1
  <2> QED
    BY <1>1, <1>3, <1>4, <2>1, <2>2
<1> QED
  BY <1>1, <1>4 DEF NoRepeat

LEMMA NoRepeatAppend ==
  ASSUME NEW C, NEW s \in Seq(C), NEW c \in C
  PROVE  /\ RangeOf(Append(s, c)) = RangeOf(s) \cup {c}
         /\ NoRepeat(s) /\ c \notin RangeOf(s) => NoRepeat(Append(s, c))
<1>1. /\ Len(Append(s, c)) = Len(s) + 1 /\ Len(s) \in Nat
      /\ \A i \in 1..Len(s) : Append(s, c)[i] = s[i]
      /\ Append(s, c)[Len(s) + 1] = c
  OBVIOUS
<1>2. 1..(Len(s) + 1) = (1..Len(s)) \cup {Len(s) + 1}
  BY <1>1
<1> QED
  BY <1>1, <1>2 DEF RangeOf, NoRepeat

(* Events taken from the channel and sent to it.                           *)
LEMMA ChunksTail ==
  ASSUME NEW E, NEW events \in Seq(E), events # <<>>
  PROVE  /\ ChunksOf(Tail(events)) \subseteq ChunksOf(events)
         /\ NoChunkTwice(events) => NoChunkTwice(Tail(events))
         /\ Head(events).e = "BackendChunk" =>
              /\ Head(events).cmd \in ChunksOf(events)
              /\ NoChunkTwice(events) => Head(events).cmd \notin ChunksOf(Tail(events))
<1>1. /\ Len(events) \in Nat /\ Len(events) >= 1 /\ Head(events) = events[1]
      /\ Len(Tail(events)) = Len(events) - 1
      /\ \A i \in 1..(Len(events) - 1) : Tail(events)[i] = events[i + 1]
  OBVIOUS
<1>2. ASSUME NEW i \in ChunkAt(Tail(events))
      PROVE  i \in Nat /\ i >= 1 /\ i + 1 \in ChunkAt(events)
             /\ Tail(events)[i] = events[i + 1]
  BY <1>1, <1>2 DEF ChunkAt
<1>3. ChunksOf(Tail(events)) \subseteq ChunksOf(events)
  BY <1>2 DEF ChunksOf
<1>4. ASSUME NoChunkTwice(events), NEW i \in ChunkAt(Tail(events)),
             NEW j \in ChunkAt(Tail(events)), Tail(events)[i].cmd = Tail(events)[j].cmd
      PROVE  i = j
  <2>1. i + 1 = j + 1
    BY <1>2, <1>4 DEF NoChunkTwice
  <2> QED
    BY <1>2, <2>1
<1>5. ASSUME Head(events).e = "BackendChunk"
      PROVE  1 \in ChunkAt(events)
  BY <1>1, <1>5 DEF ChunkAt
<1>6. ASSUME Head(events).e = "BackendChunk", NoChunkTwice(events),
             NEW i \in ChunkAt(Tail(events)), Tail(events)[i].cmd = Head(events).cmd
      PROVE  FALSE
  <2>1. 1 = i + 1
    BY <1>1, <1>2, <1>5, <1>6 DEF NoChunkTwice
  <2> QED
    BY <1>2, <2>1
<1> QED
  BY <1>1, <1>3, <1>4, <1>5, <1>6 DEF NoChunkTwice, ChunksOf

LEMMA ChunksAppend ==
  ASSUME NEW E, NEW events \in Seq(E), NEW event \in E
  PROVE  /\ event.e # "BackendChunk" =>
              /\ ChunksOf(Append(events, event)) = ChunksOf(events)
              /\ NoChunkTwice(events) => NoChunkTwice(Append(events, event))
         /\ event.e = "BackendChunk" =>
              /\ ChunksOf(Append(events, event)) = ChunksOf(events) \cup {event.cmd}
              /\ NoChunkTwice(events) /\ event.cmd \notin ChunksOf(events)
                   => NoChunkTwice(Append(events, event))
<1> DEFINE longer == Append(events, event)
           last   == Len(events) + 1
<1>1. /\ Len(longer) = last /\ Len(events) \in Nat /\ longer[last] = event
      /\ \A i \in 1..Len(events) : longer[i] = events[i]
      /\ 1..last = (1..Len(events)) \cup {last}
  OBVIOUS
<1>2. ChunkAt(events) \subseteq 1..Len(events)
  BY DEF ChunkAt
<1>3. CASE event.e # "BackendChunk"
  <2>1. ChunkAt(longer) = ChunkAt(events)
    BY <1>1, <1>3 DEF ChunkAt
  <2> QED
    BY <1>1, <1>2, <1>3, <2>1 DEF ChunksOf, NoChunkTwice
<1>4. CASE event.e = "BackendChunk"
  <2>1. ChunkAt(longer) = ChunkAt(events) \cup {last}
    BY <1>1, <1>4 DEF ChunkAt
  <2>2. \A i \in ChunkAt(events) : longer[i] = events[i] /\ i # last
    BY <1>1, <1>2
  <2> HIDE DEF longer, last
  <2>3. ChunksOf(longer) = ChunksOf(events) \cup {event.cmd}
    BY <1>1, <2>1, <2>2 DEF ChunksOf
  <2>4. NoChunkTwice(events) /\ event.cmd \notin ChunksOf(events) => NoChunkTwice(longer)
    BY <1>1, <2>1, <2>2 DEF ChunksOf, NoChunkTwice
  <2> QED
    BY <1>4, <2>3, <2>4 DEF longer
<1> QED
  BY <1>3, <1>4

(* How the tasks and the channel may change without a new proposal.        *)
TasksKept ==
  \A s \in StreamId :
    /\ streams'[s].chunks >= streams[s].chunks
    /\ streams'[s].st = "unborn" => streams[s].st = "unborn"
                                    /\ streams'[s].chunks = streams[s].chunks

ChannelKept ==
  \/ UNCHANGED chan
  \/ chan # <<>> /\ chan' = Tail(chan)
  \/ \E event \in EventType : event.e # "BackendChunk" /\ chan' = Append(chan, event)

LEMMA ProposedKept ==
  ASSUME Inv, TaskOK', TasksKept, OnePlace
  PROVE  /\ Proposed \subseteq Proposed'
         /\ \A s \in StreamId : streams'[s].st = "unborn" => streams'[s].chunks = 0
<1>1. ASSUME NEW c \in Cmd, c.nth <= streams[c.src].chunks
      PROVE  c.nth <= streams'[c.src].chunks
  <2>1. c.src \in StreamId /\ c.nth \in Nat
    BY ReplAssumption DEF Cmd
  <2>2. /\ streams[c.src].chunks \in Nat /\ streams'[c.src].chunks \in Nat
        /\ streams'[c.src].chunks >= streams[c.src].chunks
    BY <2>1, ReplAssumption DEF Inv, TypeOK, TaskOK, TaskState, TasksKept
  <2> QED
    BY <1>1, <2>1, <2>2
<1> QED
  BY <1>1 DEF Proposed, TasksKept, OnePlace

LEMMA InFlightKept ==
  ASSUME Inv, NoChunkTwice(chan), ChannelKept
  PROVE  InFlight' \subseteq InFlight /\ NoChunkTwice(chan)'
<1>1. chan \in Seq(EventType)
  BY DEF Inv, TypeOK, ChanOK
<1>2. CASE chan # <<>> /\ chan' = Tail(chan)
  BY <1>1, <1>2, ChunksTail DEF InFlight
<1>3. ASSUME NEW event \in EventType, event.e # "BackendChunk", chan' = Append(chan, event)
      PROVE  InFlight' \subseteq InFlight /\ NoChunkTwice(chan)'
  BY <1>1, <1>3, ChunksAppend DEF InFlight
<1>4. CASE UNCHANGED chan
  BY <1>4 DEF InFlight
<1> QED
  BY <1>2, <1>3, <1>4 DEF ChannelKept

(* A step that takes commands away, and adds none.                         *)
LEMMA PlacesShrink ==
  ASSUME Inv, Inv', OnePlace, UNCHANGED <<sent, refused>>, TasksKept, ChannelKept,
         queue'.commands \in {queue.commands, <<>>},
         agent'.cmds \in {agent.cmds, <<>>}
  PROVE  OnePlace'
<1>1. InFlight' \subseteq InFlight /\ NoChunkTwice(chan)'
  BY InFlightKept DEF OnePlace
<1>2. /\ Proposed \subseteq Proposed'
      /\ \A s \in StreamId : streams'[s].st = "unborn" => streams'[s].chunks = 0
  BY ProposedKept DEF Inv, TypeOK
<1>3. Queued' \subseteq Queued /\ NoRepeat(queue.commands)'
  BY RangeEmpty, NoRepeatEmpty DEF Queued, OnePlace
<1>4. Current' \subseteq Current /\ NoRepeat(agent.cmds)'
  BY RangeEmpty, NoRepeatEmpty DEF Current, OnePlace
<1>5. Past' = Past /\ (refused \cap sent)' = {}
  BY DEF Past, OnePlace
<1> HIDE DEF Past, Queued, Current, InFlight, Proposed
<1> QED
  BY <1>1, <1>2, <1>3, <1>4, <1>5 DEF OnePlace, Apart

(* A step in which the user refuses what is in the state, or interrupts    *)
(* what is in the queue.                                                   *)
LEMMA PlacesRefused ==
  ASSUME Inv, Inv', OnePlace, UNCHANGED <<sent, streams>>, ChannelKept,
         agent'.cmds = <<>>,
         \/ refused' = refused \cup Current /\ UNCHANGED queue
         \/ refused' = refused \cup Queued /\ queue'.commands = <<>>
  PROVE  OnePlace'
<1>1. InFlight' \subseteq InFlight /\ NoChunkTwice(chan)'
  BY InFlightKept DEF OnePlace
<1>2. Proposed' = Proposed
  BY DEF Proposed
<1>3. Current' = {} /\ NoRepeat(agent.cmds)' /\ NoRepeat(queue.commands)'
  BY RangeEmpty, NoRepeatEmpty DEF Current, OnePlace
<1>4. \/ Past' = Past \cup Current /\ Queued' = Queued
      \/ Past' = Past \cup Queued /\ Queued' = {}
  BY RangeEmpty DEF Past, Queued
<1>5. (refused \cap sent)' = {}
  BY DEF OnePlace, Apart, Past
<1>6. \A s \in StreamId : streams'[s].st = "unborn" => streams'[s].chunks = 0
  BY DEF OnePlace
<1> HIDE DEF Past, Queued, Current, InFlight, Proposed
<1> QED
  BY <1>1, <1>2, <1>3, <1>4, <1>5, <1>6 DEF OnePlace, Apart

(* A step that writes the next command of the queue.                       *)
LEMMA PlacesDispatched ==
  ASSUME Inv, Inv', OnePlace, UNCHANGED <<agent, refused, streams>>, ChannelKept,
         queue.commands # <<>>, queue'.commands = Tail(queue.commands),
         sent' = sent \cup {Head(queue.commands)}
  PROVE  OnePlace'
<1> DEFINE head == Head(queue.commands)
<1>1. InFlight' \subseteq InFlight /\ NoChunkTwice(chan)'
  BY InFlightKept DEF OnePlace
<1>2. Proposed' = Proposed /\ Current' = Current
  BY DEF Proposed, Current
<1>3. queue.commands \in Seq(Cmd)
  BY DEF Inv, TypeOK, ExecOK, Queue
<1>4. /\ head \in Queued /\ Queued' \subseteq Queued /\ head \notin Queued'
      /\ NoRepeat(queue.commands)'
  BY <1>3, RangeHeadTail, NoRepeatTail DEF Queued, OnePlace
<1>5. Past' = Past \cup {head} /\ (refused \cap sent)' = {}
  BY <1>4 DEF Past, OnePlace, Apart
<1>6. /\ NoRepeat(agent.cmds)'
      /\ \A s \in StreamId : streams'[s].st = "unborn" => streams'[s].chunks = 0
  BY DEF OnePlace
<1> HIDE DEF Past, Queued, Current, InFlight, Proposed, head
<1> QED
  BY <1>1, <1>2, <1>4, <1>5, <1>6 DEF OnePlace, Apart

(* A step that runs the batch in the state: RunBatch.                      *)
LEMMA PlacesRun ==
  ASSUME Inv, Inv', OnePlace, UNCHANGED <<refused, streams>>, ChannelKept,
         agent.cmds # <<>>, NEW how, RunBatch(agent.cmds, how)
  PROVE  OnePlace'
<1> DEFINE q    == Enqueue(queue, agent.cmds)
           head == Head(q.commands)
<1>0. agent'.cmds = <<>>
  BY DEF RunBatch, Idle, State
<1>1. InFlight' \subseteq InFlight /\ NoChunkTwice(chan)'
  BY InFlightKept DEF OnePlace
<1>2. Proposed' = Proposed /\ Current' = {} /\ NoRepeat(agent.cmds)'
  BY <1>0, RangeEmpty, NoRepeatEmpty DEF Proposed, Current
<1>3. queue.commands \in Seq(Cmd) /\ agent.cmds \in Seq(Cmd) /\ queue \in Queue(Cmd)
  BY DEF Inv, TypeOK, ExecOK, AgentOK, AgentState, Queue
<1>4. /\ q.commands \in Seq(Cmd) /\ q.commands # <<>>
      /\ RangeOf(q.commands) = Queued \cup Current
      /\ NoRepeat(q.commands)
  <2>1. q.commands = queue.commands \o agent.cmds
    BY <1>3, EnqueueFacts
  <2>2. q.commands \in Seq(Cmd) /\ q.commands # <<>>
    BY <1>3, EnqueueFacts DEF Queue
  <2>3. RangeOf(queue.commands) \cap RangeOf(agent.cmds) = {}
    BY DEF OnePlace, Apart, Queued, Current
  <2> HIDE DEF q
  <2> QED
    BY <1>3, <2>1, <2>2, <2>3, RangeConcat, NoRepeatConcat DEF OnePlace, Queued, Current
<1>5. /\ head \in Queued \cup Current
      /\ RangeOf(Tail(q.commands)) \subseteq Queued \cup Current
      /\ head \notin RangeOf(Tail(q.commands)) /\ NoRepeat(Tail(q.commands))
  BY <1>4, RangeHeadTail, NoRepeatTail
<1>6. \A s \in StreamId : streams'[s].st = "unborn" => streams'[s].chunks = 0
  BY DEF OnePlace
<1>7. CASE queue' = PopImmediate(q) /\ sent' = sent \cup {head}
  <2>1. queue'.commands = Tail(q.commands)
    <3>1. q \in Queue(Cmd)
      BY <1>3, EnqueueFacts
    <3> HIDE DEF q
    <3> QED
      BY <1>4, <1>7, <3>1, PopImmediateFacts
  <2>2. Queued' = RangeOf(Tail(q.commands)) /\ NoRepeat(queue.commands)'
    BY <1>5, <2>1 DEF Queued
  <2>3. Past' = Past \cup {head} /\ (refused \cap sent)' = {}
    BY <1>5, <1>7 DEF Past, OnePlace, Apart
  <2> HIDE DEF Past, Queued, Current, InFlight, Proposed, head, q
  <2> QED
    BY <1>1, <1>2, <1>5, <1>6, <2>2, <2>3 DEF OnePlace, Apart
<1>8. CASE queue' = Clear(q) /\ UNCHANGED sent
  <2>1. queue'.commands = <<>>
    BY <1>8, EmptyQueueFacts DEF Clear
  <2>2. TasksKept
    BY ReplAssumption DEF TasksKept, Inv, TypeOK, TaskOK, TaskState
  <2> QED
    BY <1>0, <1>8, <2>1, <2>2, PlacesShrink
<1> QED
  BY <1>7, <1>8 DEF RunBatch

(* A chunk moves from the channel to the state, or is dropped.             *)
LEMMA PlacesChunk ==
  ASSUME Inv, Inv', OnePlace, OnBackendChunk
  PROVE  OnePlace'
<1> DEFINE cmd == Head(chan).cmd
<1>1. /\ chan \in Seq(EventType) /\ chan # <<>> /\ chan' = Tail(chan)
      /\ Head(chan).e = "BackendChunk"
  BY DEF OnBackendChunk, Take, Inv, TypeOK, ChanOK
<1>2. UNCHANGED <<queue, sent, refused, streams>>
  BY DEF OnBackendChunk
<1>3. CASE agent'.cmds = agent.cmds
  <2>1. TasksKept
    BY <1>2, ReplAssumption DEF TasksKept, Inv, TypeOK, TaskOK, TaskState
  <2> QED
    BY <1>1, <1>2, <1>3, <2>1, PlacesShrink DEF ChannelKept
<1>4. CASE agent'.cmds = Append(agent.cmds, cmd)
  <2>1. /\ InFlight' \subseteq InFlight /\ NoChunkTwice(chan)'
        /\ cmd \in InFlight /\ cmd \notin InFlight'
    BY <1>1, ChunksTail DEF InFlight, OnePlace
  <2>2. cmd \in Cmd /\ cmd \notin Current /\ agent.cmds \in Seq(Cmd)
    BY <2>1 DEF OnePlace, Apart, Proposed, Inv, TypeOK, AgentOK, AgentState
  <2>3. Current' = Current \cup {cmd} /\ NoRepeat(agent.cmds)'
    BY <1>4, <2>2, NoRepeatAppend DEF Current, OnePlace
  <2>4. /\ Past' = Past /\ Queued' = Queued /\ Proposed' = Proposed
        /\ (refused \cap sent)' = {} /\ NoRepeat(queue.commands)'
        /\ \A s \in StreamId : streams'[s].st = "unborn" => streams'[s].chunks = 0
    BY <1>2 DEF Past, Queued, Proposed, OnePlace
  <2> HIDE DEF Past, Queued, Current, InFlight, Proposed, cmd
  <2> QED
    BY <2>1, <2>3, <2>4 DEF OnePlace, Apart
<1> QED
  <2>1. Head(chan).kind \in {"text", "tool", "malformed", "error"}
    BY ChunkFacts DEF OnBackendChunk, Inv, TypeOK
  <2>2. agent'.cmds \in {agent.cmds, Append(agent.cmds, cmd)}
    BY <2>1 DEF OnBackendChunk, Inv, TypeOK, AgentOK, AgentState
  <2> QED
    BY <1>3, <1>4, <2>2

(* A stream proposes: its command is new.                                  *)
LEMMA PlacesProposed ==
  ASSUME Inv, Inv', OnePlace, NEW s \in StreamId, NEW kind \in ChunkKinds, NEW risk \in Risks,
         StreamSends(s, kind, risk)
  PROVE  OnePlace'
<1> DEFINE n   == streams[s].chunks + 1
           cmd == [src |-> s, nth |-> n, risk |-> risk]
<1>1. /\ streams \in [StreamId -> TaskState] /\ streams[s].chunks \in 0..MaxChunks
      /\ n \in 1..MaxChunks /\ streams[s].st = "running"
  BY ReplAssumption DEF Inv, TypeOK, TaskOK, TaskState, StreamSends
<1>2. cmd \in Cmd
  BY <1>1 DEF Cmd
<1>3. /\ Chunk(s, kind, cmd) \in EventType
      /\ Chunk(s, kind, cmd).e = "BackendChunk" /\ Chunk(s, kind, cmd).cmd = cmd
  BY <1>2 DEF Chunk, EventType
<1>4. /\ streams' = [streams EXCEPT ![s] = [streams[s] EXCEPT !.chunks = n]]
      /\ chan' = Append(chan, Chunk(s, kind, cmd))
      /\ UNCHANGED <<queue, agent, sent, refused>>
  BY DEF StreamSends, Send, loopVars
<1>5. /\ streams'[s].chunks = n /\ streams'[s].st = "running"
      /\ \A r \in StreamId : r # s => streams'[r] = streams[r]
  BY <1>1, <1>4 DEF TaskState
<1>6. cmd \notin Proposed /\ cmd \in Proposed'
  BY <1>1, <1>2, <1>5 DEF Proposed
<1>7. Proposed \subseteq Proposed'
  <2> SUFFICES ASSUME NEW c \in Cmd, c.nth <= streams[c.src].chunks
               PROVE  c.nth <= streams'[c.src].chunks
    BY DEF Proposed
  <2>1. c.src \in StreamId /\ c.nth \in Nat
    BY ReplAssumption DEF Cmd
  <2> QED
    BY <1>1, <1>5, <2>1
<1>8. chan \in Seq(EventType) /\ cmd \notin InFlight
  BY <1>6 DEF Inv, TypeOK, ChanOK, OnePlace
<1>9. InFlight' = InFlight \cup {cmd} /\ NoChunkTwice(chan)'
  BY <1>3, <1>4, <1>8, ChunksAppend DEF InFlight, OnePlace
<1>10. /\ Past' = Past /\ Queued' = Queued /\ Current' = Current
       /\ (refused \cap sent)' = {} /\ NoRepeat(queue.commands)' /\ NoRepeat(agent.cmds)'
  BY <1>4 DEF Past, Queued, Current, OnePlace
<1>11. \A r \in StreamId : streams'[r].st = "unborn" => streams'[r].chunks = 0
  BY <1>5 DEF OnePlace
<1> HIDE DEF Past, Queued, Current, InFlight, Proposed, cmd
<1> QED
  BY <1>6, <1>7, <1>9, <1>10, <1>11 DEF OnePlace, Apart

LEMMA SameTasks ==
  ASSUME Inv, UNCHANGED streams
  PROVE  TasksKept
BY ReplAssumption DEF TasksKept, Inv, TypeOK, TaskOK, TaskState

LEMMA TakeKeeps ==
  ASSUME NEW e, Take(e)
  PROVE  ChannelKept
BY DEF Take, ChannelKept

(* A stream that is started was unborn, and has proposed nothing.          *)
LEMMA PlacesStarted ==
  ASSUME Inv, OnePlace, NEW entries, NEW cached, NEW turn0,
         StartStreaming(entries, cached, turn0)
  PROVE  TasksKept /\ agent'.cmds = <<>>
<1>1. agent'.cmds = <<>>
  BY DEF StartStreaming, Idle, State
<1>2. CASE UNCHANGED streams
  BY <1>1, <1>2, SameTasks
<1>3. ASSUME NEW s \in StreamId, streams[s].st = "unborn",
             streams' = [streams EXCEPT ![s] = Started(turn0)]
      PROVE  TasksKept
  <2>1. /\ streams[s].chunks = 0 /\ streams'[s].chunks = 0
        /\ streams'[s].st = "running"
        /\ \A r \in StreamId : r # s => streams'[r] = streams[r]
        /\ \A r \in StreamId : streams[r].chunks \in Nat
    BY <1>3, ReplAssumption DEF OnePlace, Started, Inv, TypeOK, TaskOK, TaskState
  <2> QED
    BY <2>1 DEF TasksKept
<1> QED
  BY <1>1, <1>2, <1>3 DEF StartStreaming

LEMMA PlacesStdin ==
  ASSUME Inv, Inv', OnePlace, OnStdin
  PROVE  OnePlace'
<1>0. ChannelKept
  BY TakeKeeps DEF OnStdin, StdinInstruction, StdinCommand, StdinKey, StdinIgnored,
     CancelStreaming, CancelJudging, StdinApprove, StdinDeny, StdinUndecided,
     InterruptExecution, StdinForwarded
<1>1. CASE StdinInstruction
  BY <1>0, <1>1, PlacesStarted, PlacesShrink DEF StdinInstruction, execVars
<1>2. CASE StdinCommand \/ StdinKey \/ StdinIgnored \/ StdinForwarded
  BY <1>0, <1>2, SameTasks, PlacesShrink
     DEF StdinCommand, StdinKey, StdinIgnored, StdinForwarded, execVars, loopVars
<1>3. CASE StdinUndecided
  <2>1. agent'.cmds = agent.cmds
    BY <1>3 DEF StdinUndecided, Inv, TypeOK, AgentOK, AgentState
  <2> QED
    BY <1>0, <1>3, <2>1, SameTasks, PlacesShrink DEF StdinUndecided
<1>4. CASE CancelStreaming \/ CancelJudging \/ StdinDeny
  BY <1>0, <1>4, PlacesRefused
     DEF CancelStreaming, CancelJudging, StdinDeny, Idle, State, execVars, Current
<1>5. CASE InterruptExecution
  BY <1>0, <1>5, PlacesRefused, EmptyQueueFacts
     DEF InterruptExecution, Idle, State, Clear, Queued
<1>6. CASE StdinApprove
  BY <1>0, <1>6, PlacesRun DEF StdinApprove, Inv, TypeOK, AgentOK
<1> QED
  BY <1>1, <1>2, <1>3, <1>4, <1>5, <1>6 DEF OnStdin

LEMMA PlacesBackend ==
  ASSUME Inv, Inv', OnePlace, OnBackendDone \/ OnJudgeResult
  PROVE  OnePlace'
<1>0. ChannelKept /\ UNCHANGED <<streams, refused>> /\ TasksKept
  BY TakeKeeps, SameTasks DEF OnBackendDone, DoneElsewhere, DoneWithError, Responded,
     RespondedNoCommands, RespondedBlocked, RespondedAutoApproved, RespondedToReview,
     OnJudgeResult, Ends
<1>1. CASE RespondedAutoApproved
  BY <1>0, <1>1, PlacesRun DEF RespondedAutoApproved
<1>2. CASE ~RespondedAutoApproved
  <2>1. UNCHANGED <<queue, sent>>
    BY <1>2 DEF OnBackendDone, DoneElsewhere, DoneWithError, RespondedNoCommands,
       RespondedBlocked, RespondedToReview, OnJudgeResult, execVars
  <2>2. agent'.cmds \in {agent.cmds, <<>>}
    BY <1>2 DEF OnBackendDone, DoneElsewhere, DoneWithError, RespondedNoCommands,
       RespondedBlocked, RespondedToReview, OnJudgeResult, Idle, State
  <2> QED
    BY <1>0, <2>1, <2>2, PlacesShrink
<1> QED
  BY <1>1, <1>2

LEMMA PlacesOutput ==
  ASSUME Inv, Inv', OnePlace, NEW mark \in Marks,
         OutputOnly(mark) \/ DispatchNext(mark) \/ BatchDone(mark) \/ BatchFailed(mark)
  PROVE  OnePlace'
<1>0. ChannelKept /\ UNCHANGED refused
  BY TakeKeeps DEF OutputOnly, DispatchNext, BatchDone, BatchFailed, Output
<1>1. CASE OutputOnly(mark)
  <2>1. agent'.cmds = agent.cmds
    BY <1>1 DEF OutputOnly, Inv, TypeOK, AgentOK, AgentState
  <2>2. queue'.commands = queue.commands /\ UNCHANGED <<sent, streams>>
    BY <1>1, MarkFacts DEF OutputOnly
  <2> QED
    BY <1>0, <2>1, <2>2, SameTasks, PlacesShrink
<1>2. CASE DispatchNext(mark)
  <2> DEFINE after == QueueAfter(queue, mark)
  <2>1. /\ queue.commands # <<>> /\ after.commands = Tail(queue.commands)
        /\ UNCHANGED streams
    BY <1>2, MarkFacts DEF DispatchNext
  <2>2. CASE queue' = after /\ sent' = sent \cup {Head(queue.commands)} /\ UNCHANGED agent
    BY <1>0, <2>1, <2>2, PlacesDispatched
  <2>3. CASE queue' = Clear(after) /\ agent' = Idle /\ UNCHANGED sent
    <3>1. queue'.commands = <<>> /\ agent'.cmds = <<>>
      BY <2>3, EmptyQueueFacts DEF Clear, Idle, State
    <3> QED
      BY <1>0, <2>1, <2>3, <3>1, SameTasks, PlacesShrink
  <2> QED
    BY <1>2, <2>2, <2>3 DEF DispatchNext
<1>3. CASE BatchDone(mark)
  <2>1. queue'.commands = <<>> /\ UNCHANGED sent
    BY <1>3, MarkFacts DEF BatchDone
  <2>2. TasksKept /\ agent'.cmds = <<>>
    <3>1. CASE Continue
      BY <3>1, PlacesStarted DEF Continue
    <3>2. CASE agent' = Idle /\ UNCHANGED streams
      BY <3>2, SameTasks DEF Idle, State
    <3> QED
      BY <1>3, <3>1, <3>2 DEF BatchDone
  <2> QED
    BY <1>0, <2>1, <2>2, PlacesShrink
<1>4. CASE BatchFailed(mark)
  <2>1. queue'.commands = <<>> /\ agent'.cmds = <<>> /\ UNCHANGED <<sent, streams>>
    BY <1>4, MarkFacts, EmptyQueueFacts DEF BatchFailed, Idle, State
  <2> QED
    BY <1>0, <2>1, SameTasks, PlacesShrink
<1> QED
  BY <1>1, <1>2, <1>3, <1>4

(* The other threads and tasks send events that propose nothing.           *)
LEMMA PlacesEnvironment ==
  ASSUME Inv, Inv', OnePlace, Environment \/ UNCHANGED vars
  PROVE  OnePlace'
<1>1. UNCHANGED <<queue, agent, sent, refused>>
  BY EnvironmentQuiet DEF loopVars
<1>2. CASE \E s \in StreamId, kind \in ChunkKinds, risk \in Risks : StreamSends(s, kind, risk)
  BY <1>2, PlacesProposed
<1>3. ASSUME TasksKept, ChannelKept
      PROVE  OnePlace'
  BY <1>1, <1>3, PlacesShrink
<1>4. ASSUME NEW event \in EventType, event.e # "BackendChunk", chan' = Append(chan, event),
             TasksKept
      PROVE  OnePlace'
  BY <1>3, <1>4 DEF ChannelKept
<1>5. CASE \E key \in Keys : UserTypes(key)
  <2>1. \A key \in Keys : Stdin(key) \in EventType /\ Stdin(key).e # "BackendChunk"
    BY DEF Stdin, EventType
  <2> QED
    BY <1>4, <1>5, <2>1, SameTasks DEF UserTypes, Send
<1>6. CASE \E mark \in Marks : ShellPrints(mark)
  <2>1. PICK mark \in Marks : ShellPrints(mark)
    BY <1>6
  <2>2. outs + 1 \in 1..MaxOut
    BY <2>1, ReplAssumption DEF ShellPrints, Inv, TypeOK, ChanOK
  <2>3. /\ PtyOutput(outs + 1, mark) \in EventType
        /\ PtyOutput(outs + 1, mark).e # "BackendChunk"
    BY <2>2 DEF PtyOutput, EventType
  <2> QED
    BY <1>4, <2>1, <2>3, SameTasks DEF ShellPrints, Send
<1>7. CASE ShellExits
  <2>1. PtyEof \in EventType /\ PtyEof.e # "BackendChunk"
    BY DEF PtyEof, EventType
  <2> QED
    BY <1>4, <1>7, <2>1, SameTasks DEF ShellExits, Send
<1>8. ASSUME NEW s \in StreamId, StreamEnds(s) \/ StreamPanics(s)
      PROVE  OnePlace'
  <2>1. Done(s) \in EventType /\ Done(s).e # "BackendChunk"
    BY DEF Done, EventType
  <2>2. PICK st \in {"ended", "panicked"} :
          streams' = [streams EXCEPT ![s] = [streams[s] EXCEPT !.st = st]]
    BY <1>8 DEF StreamEnds, StreamPanics
  <2>3. /\ streams'[s].chunks = streams[s].chunks /\ streams'[s].st = st
        /\ \A r \in StreamId : r # s => streams'[r] = streams[r]
        /\ \A r \in StreamId : streams[r].chunks \in Nat
    BY <2>2, ReplAssumption DEF Inv, TypeOK, TaskOK, TaskState
  <2>4. TasksKept
    BY <2>3 DEF TasksKept
  <2> QED
    BY <1>3, <1>4, <1>8, <2>1, <2>4 DEF StreamEnds, StreamPanics, Send, ChannelKept
<1>9. ASSUME NEW s \in StreamId, JudgeAnswers(s) \/ JudgeCancelled(s) \/ JudgePanics(s)
      PROVE  OnePlace'
  <2>1. JudgeResult(s) \in EventType /\ JudgeResult(s).e # "BackendChunk"
    BY DEF JudgeResult, EventType
  <2> QED
    BY <1>3, <1>4, <1>9, <2>1, SameTasks
       DEF JudgeAnswers, JudgeCancelled, JudgePanics, Send, ChannelKept
<1>10. CASE UNCHANGED vars
  BY <1>3, <1>10, SameTasks DEF vars, taskVars, ChannelKept
<1> QED
  BY <1>2, <1>5, <1>6, <1>7, <1>8, <1>9, <1>10 DEF Environment

LEMMA PlacesInit == Init => OnePlace
<1> SUFFICES ASSUME Init PROVE OnePlace
  OBVIOUS
<1>1. Queued = {} /\ Current = {} /\ Past = {}
  BY RangeEmpty, EmptyQueueFacts DEF Init, Queued, Current, Past, Idle, State
<1>2. InFlight = {} /\ NoChunkTwice(chan)
  BY DEF Init, InFlight, ChunksOf, ChunkAt, NoChunkTwice
<1>3. NoRepeat(queue.commands) /\ NoRepeat(agent.cmds) /\ refused \cap sent = {}
  BY NoRepeatEmpty, EmptyQueueFacts DEF Init, Idle, State
<1>4. \A s \in StreamId : streams[s].st = "unborn" => streams[s].chunks = 0
  BY DEF Init, Unborn
<1> QED
  BY <1>1, <1>2, <1>3, <1>4 DEF OnePlace, Apart

(* What the user has refused or interrupted is not written later, whatever *)
(* is still in the channel, in the state or in the queue at that moment.   *)
THEOREM RefusalIsFinal == Spec => []RefusedStaysRefused
<1>1. OnePlace => RefusedStaysRefused
  BY DEF OnePlace, Apart, Past, Queued, RefusedStaysRefused
<1>2. Inv /\ Inv' /\ OnePlace /\ [Next]_vars => OnePlace'
  <2> SUFFICES ASSUME Inv, Inv', OnePlace, [Next]_vars PROVE OnePlace'
    OBVIOUS
  <2>1. CASE OnPtyEof
    BY <2>1, TakeKeeps, SameTasks, PlacesShrink DEF OnPtyEof, execVars
  <2> QED
    BY <2>1, PlacesStdin, PlacesChunk, PlacesBackend, PlacesOutput, PlacesEnvironment
       DEF Next, Loop, OnPtyOutput
<1> QED
  BY <1>1, <1>2, PlacesInit, Invariance, PTL DEF Spec

-----------------------------------------------------------------------------
(* The output.  The channel holds the events that follow what has been     *)
(* handled: in ascending order, none left out, up to the last one printed  *)
(* while the shell lives.                                                  *)

OutputAt(events) == {i \in 1..Len(events) : events[i].e = "PtyOutput"}

Follows(events, handled) ==
  /\ \A i \in OutputAt(events) : events[i].n \in Nat /\ events[i].n > handled
  /\ \A i, j \in OutputAt(events) : i < j => events[i].n < events[j].n
  /\ \A i \in OutputAt(events), k \in Nat :
       k > handled /\ k < events[i].n =>
         \E j \in OutputAt(events) : j < i /\ events[j].n = k

Reaches(events, handled, last) ==
  /\ handled <= last
  /\ \A i \in OutputAt(events) : events[i].n <= last
  /\ \A k \in Nat : k > handled /\ k <= last => \E i \in OutputAt(events) : events[i].n = k

InOrder ==
  /\ LosslessTerminal
  /\ Follows(chan, Handled)
  /\ outs <= MaxOut => Reaches(chan, Handled, outs)

LEMMA OutputAtTail ==
  ASSUME NEW E, NEW events \in Seq(E), events # <<>>
  PROVE  /\ \A i \in OutputAt(Tail(events)) :
              i \in Nat /\ i + 1 \in OutputAt(events) /\ Tail(events)[i] = events[i + 1]
         /\ \A i \in OutputAt(events) :
              i # 1 => /\ i \in Nat /\ i - 1 \in OutputAt(Tail(events))
                       /\ Tail(events)[i - 1] = events[i]
         /\ \A i \in OutputAt(events) : i \in Nat /\ i >= 1
         /\ 1 \in OutputAt(events) <=> Head(events).e = "PtyOutput"
         /\ Head(events) = events[1]
<1>1. /\ Len(events) \in Nat /\ Len(events) >= 1 /\ Head(events) = events[1]
      /\ Len(Tail(events)) = Len(events) - 1
      /\ \A i \in 1..(Len(events) - 1) : Tail(events)[i] = events[i + 1]
  OBVIOUS
<1>2. ASSUME NEW i \in OutputAt(events), i # 1
      PROVE  i - 1 \in OutputAt(Tail(events)) /\ Tail(events)[i - 1] = events[i]
  <2>1. i - 1 \in 1..(Len(events) - 1) /\ (i - 1) + 1 = i
    BY <1>1, <1>2 DEF OutputAt
  <2> QED
    BY <1>1, <1>2, <2>1 DEF OutputAt
<1> QED
  BY <1>1, <1>2 DEF OutputAt

(* Another event is taken: the outputs keep their order.                   *)
LEMMA FollowsTail ==
  ASSUME NEW E, NEW events \in Seq(E), events # <<>>, NEW handled \in Nat, NEW last \in Nat,
         Head(events).e # "PtyOutput", Follows(events, handled)
  PROVE  /\ Follows(Tail(events), handled)
         /\ Reaches(events, handled, last) => Reaches(Tail(events), handled, last)
<1> DEFINE rest == Tail(events)
<1>1. /\ \A i \in OutputAt(rest) :
           i \in Nat /\ i + 1 \in OutputAt(events) /\ rest[i] = events[i + 1]
      /\ \A i \in OutputAt(events) :
           i \in Nat /\ i - 1 \in OutputAt(rest) /\ rest[i - 1] = events[i]
  BY OutputAtTail
<1> HIDE DEF rest
<1>2. ASSUME NEW i \in OutputAt(rest), NEW k \in Nat, k > handled, k < rest[i].n
      PROVE  \E j \in OutputAt(rest) : j < i /\ rest[j].n = k
  <2>1. PICK j \in OutputAt(events) : j < i + 1 /\ events[j].n = k
    BY <1>1, <1>2 DEF Follows
  <2>2. j - 1 \in OutputAt(rest) /\ rest[j - 1].n = k
    BY <1>1, <2>1
  <2>3. j - 1 < i
    BY <1>1, <2>1
  <2> QED
    BY <2>2, <2>3
<1>3. Follows(rest, handled)
  <2>1. \A i \in OutputAt(rest) : rest[i].n \in Nat /\ rest[i].n > handled
    BY <1>1 DEF Follows
  <2>2. ASSUME NEW i \in OutputAt(rest), NEW j \in OutputAt(rest), i < j
        PROVE  rest[i].n < rest[j].n
    <3>1. i \in Nat /\ i + 1 \in OutputAt(events) /\ rest[i] = events[i + 1]
      BY <1>1
    <3>2. j \in Nat /\ j + 1 \in OutputAt(events) /\ rest[j] = events[j + 1]
      BY <1>1
    <3>3. i + 1 < j + 1
      BY <2>2, <3>1, <3>2
    <3>4. events[i + 1].n < events[j + 1].n
      BY <3>1, <3>2, <3>3 DEF Follows
    <3> QED
      BY <3>1, <3>2, <3>4
  <2> QED
    BY <1>2, <2>1, <2>2 DEF Follows
<1>4. Reaches(events, handled, last) => Reaches(rest, handled, last)
  BY <1>1 DEF Reaches
<1> QED
  BY <1>3, <1>4 DEF rest

(* An output is taken: it is the next one.                                 *)
LEMMA FollowsHead ==
  ASSUME NEW E, NEW events \in Seq(E), events # <<>>, NEW handled \in Nat, NEW last \in Nat,
         Head(events).e = "PtyOutput", Follows(events, handled)
  PROVE  /\ Head(events).n = handled + 1
         /\ Follows(Tail(events), handled + 1)
         /\ Reaches(events, handled, last) => Reaches(Tail(events), handled + 1, last)
<1> DEFINE rest == Tail(events)
<1>1. /\ \A i \in OutputAt(rest) :
           i \in Nat /\ i + 1 \in OutputAt(events) /\ rest[i] = events[i + 1]
      /\ \A i \in OutputAt(events) :
           /\ i \in Nat /\ i >= 1
           /\ i # 1 => i - 1 \in OutputAt(rest) /\ rest[i - 1] = events[i]
      /\ \A i \in OutputAt(rest) : i >= 1
      /\ 1 \in OutputAt(events) /\ Head(events) = events[1]
  BY OutputAtTail DEF OutputAt
<1> HIDE DEF rest
<1>2. events[1].n = handled + 1
  <2>1. events[1].n \in Nat /\ events[1].n > handled
    BY <1>1 DEF Follows
  <2>2. ASSUME events[1].n > handled + 1
        PROVE  FALSE
    <3>1. PICK j \in OutputAt(events) : j < 1 /\ events[j].n = handled + 1
      BY <1>1, <2>2 DEF Follows
    <3> QED
      BY <1>1, <3>1
  <2> QED
    BY <2>1, <2>2
<1>3. \A i \in OutputAt(rest) : rest[i].n \in Nat /\ rest[i].n > handled + 1
  BY <1>1, <1>2 DEF Follows
<1>4. ASSUME NEW i \in OutputAt(rest), NEW k \in Nat, k > handled + 1, k < rest[i].n
      PROVE  \E j \in OutputAt(rest) : j < i /\ rest[j].n = k
  <2>1. PICK j \in OutputAt(events) : j < i + 1 /\ events[j].n = k
    BY <1>1, <1>4 DEF Follows
  <2>2. j # 1
    BY <1>2, <1>4, <2>1
  <2>3. j - 1 \in OutputAt(rest) /\ rest[j - 1].n = k
    BY <1>1, <2>1, <2>2
  <2>4. j - 1 < i
    BY <1>1, <2>1
  <2> QED
    BY <2>3, <2>4
<1>5. Follows(rest, handled + 1)
  <2>1. ASSUME NEW i \in OutputAt(rest), NEW j \in OutputAt(rest), i < j
        PROVE  rest[i].n < rest[j].n
    <3>1. i \in Nat /\ i + 1 \in OutputAt(events) /\ rest[i] = events[i + 1]
      BY <1>1
    <3>2. j \in Nat /\ j + 1 \in OutputAt(events) /\ rest[j] = events[j + 1]
      BY <1>1
    <3>3. i + 1 < j + 1
      BY <2>1, <3>1, <3>2
    <3>4. events[i + 1].n < events[j + 1].n
      BY <3>1, <3>2, <3>3 DEF Follows
    <3> QED
      BY <3>1, <3>2, <3>4
  <2> QED
    BY <1>3, <1>4, <2>1 DEF Follows
<1>6. ASSUME Reaches(events, handled, last)
      PROVE  Reaches(rest, handled + 1, last)
  <2>1. handled + 1 <= last /\ \A i \in OutputAt(rest) : rest[i].n <= last
    BY <1>1, <1>2, <1>6 DEF Reaches
  <2>2. ASSUME NEW k \in Nat, k > handled + 1, k <= last
        PROVE  \E i \in OutputAt(rest) : rest[i].n = k
    <3>1. PICK i \in OutputAt(events) : events[i].n = k
      BY <1>6, <2>2 DEF Reaches
    <3>2. i # 1
      BY <1>2, <2>2, <3>1
    <3> QED
      BY <1>1, <3>1, <3>2
  <2> QED
    BY <2>1, <2>2 DEF Reaches
<1> QED
  BY <1>1, <1>2, <1>5, <1>6 DEF rest

LEMMA FollowsOther ==
  ASSUME NEW E, NEW events \in Seq(E), NEW event \in E, event.e # "PtyOutput",
         NEW handled \in Nat, NEW last \in Nat, Follows(events, handled)
  PROVE  /\ Follows(Append(events, event), handled)
         /\ Reaches(events, handled, last) => Reaches(Append(events, event), handled, last)
<1>0. PICK longer : longer = Append(events, event)
  OBVIOUS
<1>1. /\ OutputAt(longer) = OutputAt(events)
      /\ \A i \in OutputAt(events) : longer[i] = events[i]
  <2>1. /\ Len(longer) = Len(events) + 1 /\ Len(events) \in Nat
        /\ longer[Len(events) + 1] = event
        /\ \A i \in 1..Len(events) : longer[i] = events[i]
        /\ 1..(Len(events) + 1) = (1..Len(events)) \cup {Len(events) + 1}
    BY <1>0
  <2> QED
    BY <2>1 DEF OutputAt
<1>2. Follows(longer, handled)
  BY <1>1 DEF Follows
<1>3. Reaches(events, handled, last) => Reaches(longer, handled, last)
  BY <1>1 DEF Reaches
<1> QED
  BY <1>0, <1>2, <1>3

(* The shell prints: the next output is the last of the channel.           *)
LEMMA FollowsPrinted ==
  ASSUME NEW E, NEW events \in Seq(E), NEW event \in E, event.e = "PtyOutput",
         NEW handled \in Nat, NEW last \in Nat, event.n = last + 1,
         Follows(events, handled), Reaches(events, handled, last)
  PROVE  /\ Follows(Append(events, event), handled)
         /\ Reaches(Append(events, event), handled, last + 1)
<1> DEFINE at == Len(events) + 1
<1>0. PICK longer : longer = Append(events, event)
  OBVIOUS
<1>1. /\ OutputAt(longer) = OutputAt(events) \cup {at}
      /\ \A i \in OutputAt(events) : longer[i] = events[i]
      /\ \A i \in OutputAt(events) : i \in Nat /\ i < at
      /\ longer[at].n = last + 1 /\ at \in Nat
  <2>1. /\ Len(longer) = Len(events) + 1 /\ Len(events) \in Nat
        /\ longer[Len(events) + 1] = event
        /\ \A i \in 1..Len(events) : longer[i] = events[i]
        /\ 1..(Len(events) + 1) = (1..Len(events)) \cup {Len(events) + 1}
    BY <1>0
  <2> QED
    BY <2>1 DEF OutputAt
<1> HIDE DEF at
<1>2. \A i \in OutputAt(longer) :
        longer[i].n \in Nat /\ longer[i].n > handled /\ longer[i].n <= last + 1
  BY <1>1 DEF Follows, Reaches
<1>3. ASSUME NEW i \in OutputAt(longer), NEW j \in OutputAt(longer), i < j
      PROVE  longer[i].n < longer[j].n
  <2>1. i \in OutputAt(events)
    BY <1>1, <1>3
  <2>2. CASE j \in OutputAt(events)
    BY <1>1, <1>3, <2>1, <2>2 DEF Follows
  <2>3. CASE j = at
    BY <1>1, <2>1, <2>3 DEF Follows, Reaches
  <2> QED
    BY <1>1, <2>2, <2>3
<1>4. ASSUME NEW k \in Nat, k > handled, k <= last
      PROVE  \E j \in OutputAt(longer) : j < at /\ longer[j].n = k
  BY <1>1, <1>4 DEF Reaches
<1>5. ASSUME NEW i \in OutputAt(longer), NEW k \in Nat, k > handled, k < longer[i].n
      PROVE  \E j \in OutputAt(longer) : j < i /\ longer[j].n = k
  <2>1. CASE i = at
    BY <1>1, <1>4, <1>5, <2>1
  <2>2. CASE i \in OutputAt(events)
    <3>1. PICK j \in OutputAt(events) : j < i /\ events[j].n = k
      BY <1>1, <1>5, <2>2 DEF Follows
    <3> QED
      BY <1>1, <3>1
  <2> QED
    BY <1>1, <2>1, <2>2
<1>6. Follows(longer, handled)
  BY <1>2, <1>3, <1>5 DEF Follows
<1>7. ASSUME NEW k \in Nat, k > handled, k <= last + 1
      PROVE  \E i \in OutputAt(longer) : longer[i].n = k
  <2>1. CASE k <= last
    BY <1>4, <1>7, <2>1
  <2>2. CASE k = last + 1
    BY <1>1, <2>2
  <2> QED
    BY <1>7, <2>1, <2>2
<1>8. Reaches(longer, handled, last + 1)
  BY <1>2, <1>7 DEF Reaches
<1> QED
  BY <1>0, <1>6, <1>8

(* What an output, and a flush, do to what has been handled.               *)
LEMMA FlushedSame ==
  ASSUME NEW s \in Seq(Nat), NEW p \in Seq(Nat)
  PROVE  (s \o p) \o <<>> = s \o p /\ Len(s \o p) + Len(<<>>) = Len(s) + Len(p)
         /\ Len(s) + Len(p) \in Nat
OBVIOUS

LEMMA HeldNext ==
  ASSUME NEW s \in Seq(Nat), NEW p \in Seq(Nat), NEW n \in Nat
  PROVE  /\ s \o Append(p, n) = Append(s \o p, n)
         /\ Len(Append(p, n)) = Len(p) + 1
         /\ Append(s \o p, n) \o <<>> = Append(s \o p, n)
         /\ Len(Append(s \o p, n)) + Len(<<>>) = Len(s) + Len(p) + 1
OBVIOUS

LEMMA NumbersNext ==
  ASSUME NEW h \in Nat
  PROVE  Append([i \in 1..h |-> i], h + 1) = [i \in 1..(h + 1) |-> i]
<1> DEFINE up(k) == [i \in 1..k |-> i]
<1>1. up(h) \in Seq(Nat) /\ Len(up(h)) = h /\ up(h + 1) \in Seq(Nat) /\ Len(up(h + 1)) = h + 1
  OBVIOUS
<1>2. /\ Append(up(h), h + 1) \in Seq(Nat) /\ Len(Append(up(h), h + 1)) = h + 1
      /\ \A i \in 1..(h + 1) : Append(up(h), h + 1)[i] = i
  BY <1>1
<1>3. \A i \in 1..(h + 1) : up(h + 1)[i] = i
  OBVIOUS
<1> HIDE DEF up
<1>4. Append(up(h), h + 1) = up(h + 1)
  BY <1>1, <1>2, <1>3
<1> QED
  BY <1>4 DEF up

(* A step that shows nothing new and does not print.                       *)
LEMMA OrderKept ==
  ASSUME Inv, InOrder, UNCHANGED outs, Flush \/ UNCHANGED screenVars,
         \/ UNCHANGED chan
         \/ chan # <<>> /\ Head(chan).e # "PtyOutput" /\ chan' = Tail(chan)
         \/ \E event \in EventType : event.e # "PtyOutput" /\ chan' = Append(chan, event)
  PROVE  InOrder'
<1>1. /\ shown \in Seq(Nat) /\ ptybuf \in Seq(Nat) /\ Handled \in Nat
      /\ chan \in Seq(EventType) /\ outs \in Nat
  BY DEF Inv, TypeOK, ScreenOK, ChanOK, Handled
<1>2. shown' \o ptybuf' = shown \o ptybuf /\ Handled' = Handled
  <2>1. CASE UNCHANGED screenVars
    BY <2>1 DEF screenVars, Handled
  <2>2. CASE Flush
    BY <1>1, <2>2, FlushedSame DEF Flush, Handled
  <2> QED
    BY <2>1, <2>2
<1>3. LosslessTerminal'
  BY <1>2 DEF LosslessTerminal, InOrder
<1>4. /\ Follows(chan', Handled)
      /\ Reaches(chan, Handled, outs) => Reaches(chan', Handled, outs)
  <2>1. CASE chan # <<>> /\ Head(chan).e # "PtyOutput" /\ chan' = Tail(chan)
    BY <1>1, <2>1, FollowsTail DEF InOrder
  <2>2. ASSUME NEW event \in EventType, event.e # "PtyOutput", chan' = Append(chan, event)
        PROVE  /\ Follows(chan', Handled)
               /\ Reaches(chan, Handled, outs) => Reaches(chan', Handled, outs)
    BY <1>1, <2>2, FollowsOther DEF InOrder
  <2>3. CASE chan' = chan
    BY <2>3 DEF InOrder
  <2> QED
    BY <2>1, <2>2, <2>3
<1> QED
  BY <1>2, <1>3, <1>4 DEF InOrder

LEMMA OrderOutput ==
  ASSUME Inv, InOrder, NEW mark \in Marks, Output(mark)
  PROVE  InOrder'
<1> DEFINE n == Head(chan).n
<1>1. /\ shown \in Seq(Nat) /\ ptybuf \in Seq(Nat) /\ Handled \in Nat
      /\ chan \in Seq(EventType) /\ outs \in Nat
  BY DEF Inv, TypeOK, ScreenOK, ChanOK, Handled
<1>2. /\ n = Handled + 1 /\ Follows(chan', Handled + 1)
      /\ Reaches(chan, Handled, outs) => Reaches(chan', Handled + 1, outs)
  BY <1>1, FollowsHead DEF Output, Take, InOrder
<1>3. shown' \o ptybuf' = Append(shown \o ptybuf, n) /\ Handled' = Handled + 1
  <2>1. n \in Nat
    BY <1>1, <1>2
  <2> HIDE DEF n
  <2>2. CASE ptybuf' = Append(ptybuf, n) /\ UNCHANGED shown
    BY <1>1, <2>1, <2>2, HeldNext DEF Handled
  <2>3. CASE shown' = Append(shown \o ptybuf, n) /\ ptybuf' = <<>>
    BY <1>1, <2>1, <2>3, HeldNext DEF Handled
  <2> QED
    BY <2>2, <2>3 DEF Output, Display, n
<1>4. LosslessTerminal'
  BY <1>1, <1>2, <1>3, NumbersNext DEF LosslessTerminal, InOrder
<1> HIDE DEF n
<1> QED
  BY <1>2, <1>3, <1>4 DEF InOrder, Output

LEMMA OrderLoop ==
  ASSUME Inv, InOrder, OnStdin \/ OnBackendChunk \/ OnBackendDone \/ OnJudgeResult \/ OnPtyEof
  PROVE  InOrder'
<1>1. UNCHANGED outs /\ (Flush \/ UNCHANGED screenVars)
  <2>1. CASE OnStdin
    BY <2>1 DEF OnStdin, StdinInstruction, StdinCommand, StdinKey, StdinIgnored,
       CancelStreaming, CancelJudging, StdinApprove, StdinDeny, StdinUndecided,
       InterruptExecution, StdinForwarded, screenVars, loopVars
  <2>2. CASE OnBackendDone
    BY <2>2 DEF OnBackendDone, DoneElsewhere, DoneWithError, Responded, Ends,
       RespondedNoCommands, RespondedBlocked, RespondedAutoApproved, RespondedToReview
  <2>3. CASE OnBackendChunk \/ OnJudgeResult \/ OnPtyEof
    BY <2>3 DEF OnBackendChunk, OnJudgeResult, OnPtyEof, Ends
  <2> QED
    BY <2>1, <2>2, <2>3
<1>2. chan # <<>> /\ Head(chan).e # "PtyOutput" /\ chan' = Tail(chan)
  <2>1. \E e : e # "PtyOutput" /\ Take(e)
    BY DEF OnStdin, StdinInstruction, StdinCommand, StdinKey, StdinIgnored,
       CancelStreaming, CancelJudging, StdinApprove, StdinDeny, StdinUndecided,
       InterruptExecution, StdinForwarded, OnBackendChunk, OnJudgeResult, OnPtyEof,
       OnBackendDone, DoneElsewhere, DoneWithError, Responded, Ends,
       RespondedNoCommands, RespondedBlocked, RespondedAutoApproved, RespondedToReview
  <2> QED
    BY <2>1 DEF Take
<1> QED
  BY <1>1, <1>2, OrderKept

LEMMA OrderEnvironment ==
  ASSUME Inv, InOrder, Environment \/ UNCHANGED vars
  PROVE  InOrder'
<1>1. UNCHANGED screenVars
  BY EnvironmentQuiet DEF loopVars, screenVars
<1>2. /\ shown \in Seq(Nat) /\ ptybuf \in Seq(Nat) /\ Handled \in Nat
      /\ chan \in Seq(EventType) /\ outs \in Nat
  BY DEF Inv, TypeOK, ScreenOK, ChanOK, Handled
<1>3. Handled' = Handled /\ LosslessTerminal'
  BY <1>1 DEF Handled, LosslessTerminal, InOrder, screenVars
<1>4. ASSUME NEW event \in EventType, event.e # "PtyOutput", chan' = Append(chan, event),
             UNCHANGED outs
      PROVE  InOrder'
  BY <1>1, <1>4, OrderKept
<1>5. CASE \E mark \in Marks : ShellPrints(mark)
  <2>1. PICK mark \in Marks : ShellPrints(mark)
    BY <1>5
  <2> DEFINE event == PtyOutput(outs + 1, mark)
  <2>2. outs + 1 \in 1..MaxOut /\ outs <= MaxOut
    BY <1>2, <2>1, ReplAssumption DEF ShellPrints
  <2>3. event \in EventType /\ event.e = "PtyOutput" /\ event.n = outs + 1
    BY <2>2 DEF PtyOutput, EventType
  <2>4. chan' = Append(chan, event) /\ outs' = outs + 1
    BY <2>1 DEF ShellPrints, Send
  <2> HIDE DEF event
  <2>5. Follows(chan', Handled) /\ Reaches(chan', Handled, outs + 1)
    BY <1>2, <2>2, <2>3, <2>4, FollowsPrinted DEF InOrder
  <2> QED
    BY <1>3, <2>4, <2>5 DEF InOrder
<1>6. CASE ShellExits
  <2>1. PtyEof \in EventType /\ PtyEof.e # "PtyOutput"
    BY DEF PtyEof, EventType
  <2>2. Follows(chan', Handled)
    BY <1>2, <1>6, <2>1, FollowsOther DEF ShellExits, Send, InOrder
  <2>3. ~(outs' <= MaxOut)
    BY <1>6, ReplAssumption DEF ShellExits
  <2> QED
    BY <1>3, <2>2, <2>3 DEF InOrder
<1>7. CASE \E key \in Keys : UserTypes(key)
  <2>1. \A key \in Keys : Stdin(key) \in EventType /\ Stdin(key).e # "PtyOutput"
    BY DEF Stdin, EventType
  <2> QED
    BY <1>4, <1>7, <2>1 DEF UserTypes, Send
<1>8. ASSUME NEW s \in StreamId, NEW kind \in ChunkKinds, NEW risk \in Risks,
             StreamSends(s, kind, risk)
      PROVE  InOrder'
  <2> DEFINE cmd == [src |-> s, nth |-> streams[s].chunks + 1, risk |-> risk]
  <2>1. streams[s].chunks + 1 \in 1..MaxChunks
    BY <1>8, ReplAssumption DEF StreamSends, Inv, TypeOK, TaskOK, TaskState
  <2>2. cmd \in Cmd
    BY <2>1 DEF Cmd
  <2>3. Chunk(s, kind, cmd) \in EventType /\ Chunk(s, kind, cmd).e # "PtyOutput"
    BY <2>2 DEF Chunk, EventType
  <2> QED
    BY <1>4, <1>8, <2>3 DEF StreamSends, Send
<1>9. ASSUME NEW s \in StreamId, StreamEnds(s) \/ JudgeAnswers(s)
      PROVE  InOrder'
  <2>1. /\ Done(s) \in EventType /\ Done(s).e # "PtyOutput"
        /\ JudgeResult(s) \in EventType /\ JudgeResult(s).e # "PtyOutput"
    BY DEF Done, JudgeResult, EventType
  <2> QED
    BY <1>4, <1>9, <2>1 DEF StreamEnds, JudgeAnswers, Send
<1>10. CASE \/ \E s \in StreamId : JudgeCancelled(s) \/ StreamPanics(s) \/ JudgePanics(s)
            \/ UNCHANGED vars
  BY <1>1, <1>10, OrderKept DEF JudgeCancelled, StreamPanics, JudgePanics, vars, envVars
<1> QED
  BY <1>5, <1>6, <1>7, <1>8, <1>9, <1>10 DEF Environment

LEMMA OrderInit == Init => InOrder
<1> SUFFICES ASSUME Init PROVE InOrder
  OBVIOUS
<1>1. shown = <<>> /\ ptybuf = <<>> /\ chan = <<>> /\ outs = 0
  BY DEF Init
<1>2. Handled = 0 /\ OutputAt(chan) = {}
  BY <1>1 DEF Handled, OutputAt
<1>3. LosslessTerminal
  BY <1>1, <1>2 DEF LosslessTerminal
<1>4. Follows(chan, 0) /\ Reaches(chan, 0, 0)
  BY <1>2 DEF Follows, Reaches
<1> QED
  BY <1>1, <1>2, <1>3, <1>4 DEF InOrder

(* No handler loses or reorders what the shell prints: it is shown, or     *)
(* waits behind the prompt, complete and in order, however often it is held*)
(* back and flushed.                                                       *)
THEOREM NoOutputLost == Spec => []LosslessTerminal
<1>1. InOrder => LosslessTerminal
  BY DEF InOrder
<1>2. Inv /\ InOrder /\ [Next]_vars => InOrder'
  <2>1. \A mark \in Marks :
          OutputOnly(mark) \/ DispatchNext(mark) \/ BatchDone(mark) \/ BatchFailed(mark)
            => Output(mark)
    BY DEF OutputOnly, DispatchNext, BatchDone, BatchFailed
  <2> QED
    BY <2>1, OrderLoop, OrderOutput, OrderEnvironment DEF Next, Loop, OnPtyOutput
<1> QED
  BY <1>1, <1>2, OrderInit, Invariance, PTL DEF Spec
=============================================================================
