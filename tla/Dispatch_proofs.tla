--------------------------- MODULE Dispatch_proofs ---------------------------
(***************************************************************************)
(* Theorems about Dispatch, for every set of commands, every shell and     *)
(* every capacity of the terminal.                                         *)
(***************************************************************************)
EXTENDS Dispatch, SequenceTheorems, TLAPS

-----------------------------------------------------------------------------
(* CommandQueue, for every set of commands.                                *)

(* A queue that holds commands, or waits for a prompt, is executing.       *)
Coherent(q) == q.awaiting_ready \/ q.commands # <<>> => q.executing

LEMMA EmptyQueueFacts ==
  ASSUME NEW C
  PROVE  /\ EmptyQueue \in Queue(C)
         /\ Coherent(EmptyQueue)
         /\ ~EmptyQueue.executing
         /\ EmptyQueue.commands = <<>>
BY DEF EmptyQueue, Queue, Coherent, NoCode

(* enqueue of a batch makes the queue execute, and appends the batch.      *)
LEMMA EnqueueFacts ==
  ASSUME NEW C, NEW q \in Queue(C), NEW b \in Seq(C), b # <<>>
  PROVE  /\ Enqueue(q, b) \in Queue(C)
         /\ Enqueue(q, b).executing
         /\ Enqueue(q, b).commands = q.commands \o b
         /\ Enqueue(q, b).commands # <<>>
         /\ Coherent(Enqueue(q, b))
<1>1. q.commands \in Seq(C)
  BY DEF Queue
<1>2. q.commands \o b \in Seq(C) /\ q.commands \o b # <<>>
  BY <1>1
<1> QED
  BY <1>1, <1>2 DEF Enqueue, Queue, Coherent

(* pop_immediate takes the head of a queue that is not empty.              *)
LEMMA PopImmediateFacts ==
  ASSUME NEW C, NEW q \in Queue(C), q.commands # <<>>
  PROVE  /\ Head(q.commands) \in C
         /\ PopImmediate(q) \in Queue(C)
         /\ PopImmediate(q).commands = Tail(q.commands)
         /\ PopImmediate(q).executing = q.executing
         /\ PopImmediate(q).awaiting_ready = q.awaiting_ready
         /\ Coherent(q) => Coherent(PopImmediate(q))
<1>1. q.commands \in Seq(C) /\ Head(q.commands) \in C /\ Tail(q.commands) \in Seq(C)
  BY DEF Queue
<1> QED
  BY <1>1 DEF PopImmediate, Queue, Coherent

(* What handle_osc_event answers, and what it leaves of the queue.         *)
LEMMA QueueEventFacts ==
  ASSUME NEW C, NEW q \in Queue(C), NEW marker \in Marker, Coherent(q)
  PROVE  /\ QueueAfter(q, marker) \in Queue(C)
         /\ Coherent(QueueAfter(q, marker))
         /\ QueueEvent(q, marker) \in {"None", "Dispatch", "AllDone", "Failed"}
         /\ QueueEvent(q, marker) = "None" =>
              /\ QueueAfter(q, marker).executing = q.executing
              /\ QueueAfter(q, marker).commands = q.commands
         /\ QueueEvent(q, marker) = "Dispatch" =>
              /\ q.executing /\ QueueAfter(q, marker).executing
              /\ q.commands # <<>>
              /\ QueueAfter(q, marker).commands = Tail(q.commands)
         /\ QueueEvent(q, marker) = "AllDone" =>
              /\ q.executing /\ ~QueueAfter(q, marker).executing
              /\ QueueAfter(q, marker).commands = <<>>
         /\ QueueEvent(q, marker) = "Failed" =>
              q.executing /\ QueueAfter(q, marker) = EmptyQueue
<1>1. /\ q.commands \in Seq(C)
      /\ q.awaiting_ready \in BOOLEAN /\ q.executing \in BOOLEAN
      /\ q.last_exit_code \in ExitCode \cup {NoCode}
  BY DEF Queue
<1>2. marker.code \in ExitCode \cup {NoCode} /\ marker.m \in {"A", "B", "C", "D"}
  BY DEF Marker
<1>3. q.commands # <<>> => Tail(q.commands) \in Seq(C)
  BY <1>1
<1>4. CASE marker.m = "B" /\ q.awaiting_ready
  <2>1. CASE LastFailed(q)
    BY <1>1, <1>4, <2>1, EmptyQueueFacts
       DEF QueueAfter, QueueEvent, Clear, Coherent, Queue
  <2>2. CASE ~LastFailed(q)
    BY <1>1, <1>3, <1>4, <2>2 DEF QueueAfter, QueueEvent, Coherent, Queue
  <2> QED
    BY <2>1, <2>2
<1>5. CASE ~(marker.m = "B" /\ q.awaiting_ready)
  BY <1>1, <1>2, <1>5 DEF QueueAfter, QueueEvent, Coherent, Queue
<1> QED
  BY <1>4, <1>5

-----------------------------------------------------------------------------
(* The inductive invariant: types, the coherence of the queue's flags, and *)
(* that Executing has an executing queue.                                  *)
ExecutingQueued == mode = "Executing" => queue.executing

Inv == TypeOK /\ Coherent(queue) /\ ExecutingQueued

LEMMA MarkTypes ==
  /\ MarkA \in Marker /\ MarkB \in Marker
  /\ \A code \in Nat : MarkD(code) \in Marker
BY DEF MarkA, MarkB, MarkD, Marker, NoCode, ExitCode

LEMMA LineTypes ==
  /\ Blank \in Line /\ Key \in Line /\ NoLine \in Line
  /\ \A c \in Command : Text(c) \in Seq(Line)
<1>1. Blank \in Line /\ Key \in Line /\ NoLine \in Line
  BY DEF Blank, Key, NoLine, Line
<1>2. ASSUME NEW c \in Command
      PROVE  Text(c) \in Seq(Line)
  <2>1. [kind |-> "last", cmd |-> c] \in Line /\ [kind |-> "part", cmd |-> c] \in Line
    BY DEF Line
  <2> QED
    BY <2>1 DEF Text
<1> QED
  BY <1>1, <1>2

(* The command at the head of a queue that is not empty can be written.    *)
LEMMA HeadTypes ==
  ASSUME NEW q \in Queue(Command), q.commands # <<>>
  PROVE  Text(Head(q.commands)) \in Seq(Line)
BY PopImmediateFacts, LineTypes

LEMMA BatchTypes ==
  ASSUME NEW b \in Batches
  PROVE  b \in Seq(Command) /\ b # <<>>
<1>1. PICK n \in 1..MaxBatch : b \in [1..n -> Command]
  BY DEF Batches
<1>2. n \in Nat /\ n > 0
  BY DispatchAssumption
<1>3. b \in Seq(Command) /\ Len(b) = n
  BY <1>1, <1>2
<1> QED
  BY <1>2, <1>3

LEMMA ShellTypes ==
  \A p \in Phase, line \in Line : [phase |-> p, line |-> line] \in Shell
BY DEF Shell

LEMMA InitInv == Init => Inv
<1> SUFFICES ASSUME Init PROVE Inv
  OBVIOUS
<1>1. shell \in Shell
  BY ShellTypes, LineTypes DEF Init, Phase
<1>2. queue \in Queue(Command) /\ Coherent(queue) /\ ~queue.executing
      /\ queue.commands = <<>>
  BY EmptyQueueFacts DEF Init
<1> QED
  BY <1>1, <1>2 DEF Init, Inv, TypeOK, ExecutingQueued, Coherent

(* The steps of the REPL.                                                  *)

LEMMA ApproveInv ==
  ASSUME Inv, NEW b \in Batches, Approve(b)
  PROVE  Inv'
<1> DEFINE q == Enqueue(queue, b)
<1>1. b \in Seq(Command) /\ b # <<>>
  BY BatchTypes
<1>2. /\ q \in Queue(Command) /\ q.executing /\ q.commands # <<>> /\ Coherent(q)
  BY <1>1, EnqueueFacts DEF Inv, TypeOK
<1>3. Text(Head(q.commands)) \in Seq(Line)
  BY <1>2, HeadTypes
<1>4. /\ PopImmediate(q) \in Queue(Command) /\ Coherent(PopImmediate(q))
      /\ PopImmediate(q).executing
  BY <1>2, PopImmediateFacts
<1>5. runs' \in Nat /\ ran' = <<>> /\ batch' = b
  BY DEF Approve, Inv, TypeOK
<1>6. CASE /\ queue' = PopImmediate(q)
           /\ tty' = tty \o Text(Head(q.commands))
           /\ mode' = "Executing" /\ status' = "running"
  BY <1>1, <1>3, <1>4, <1>5, <1>6
     DEF Approve, Inv, TypeOK, ExecutingQueued, Coherent
<1>7. CASE /\ queue' = Clear(q) /\ mode' = "Idle" /\ status' = "stopped"
           /\ UNCHANGED tty
  BY <1>1, <1>5, <1>7, EmptyQueueFacts
     DEF Approve, Inv, TypeOK, ExecutingQueued, Coherent, Clear
<1> QED
  BY <1>6, <1>7 DEF Approve, Write

LEMMA CtrlCInv ==
  ASSUME Inv, CtrlC
  PROVE  Inv'
<1>1. tty' \in Seq(Line)
  BY LineTypes DEF CtrlC, Inv, TypeOK
<1>2. /\ queue' \in Queue(Command) /\ Coherent(queue') /\ ~queue'.executing
      /\ queue'.commands = <<>>
  BY EmptyQueueFacts DEF CtrlC, Clear
<1> QED
  BY <1>1, <1>2 DEF CtrlC, Inv, TypeOK, ExecutingQueued, Coherent, histVars

LEMMA ForwardKeysInv ==
  ASSUME Inv, ForwardKeys
  PROVE  Inv'
<1>1. tty' \in Seq(Line)
  <2>1. /\ tty \in Seq(Line) /\ <<>> \in Seq(Line)
        /\ \A line \in Line : tty \o <<line>> \in Seq(Line)
    BY DEF Inv, TypeOK
  <2>2. tty' = tty \o <<Key>> \/ tty' = tty \o <<Blank>> \/ tty' = <<>>
    BY DEF ForwardKeys, Write
  <2> QED
    BY <2>1, <2>2, LineTypes
<1> QED
  BY <1>1 DEF ForwardKeys, Inv, TypeOK, ExecutingQueued, Coherent, histVars

LEMMA StaleEndInv ==
  ASSUME Inv, StaleEnd
  PROVE  Inv'
BY DEF StaleEnd, Inv, TypeOK, ExecutingQueued, Coherent, histVars

LEMMA OnMarkerInv ==
  ASSUME Inv, OnMarker
  PROVE  Inv'
<1> DEFINE marker == Head(out)
           event  == QueueEvent(queue, marker)
           after  == QueueAfter(queue, marker)
<1>1. marker \in Marker /\ out' \in Seq(Marker)
  BY DEF OnMarker, Inv, TypeOK
<1>2. queue \in Queue(Command) /\ Coherent(queue)
  BY DEF Inv, TypeOK
<1>3. /\ after \in Queue(Command) /\ Coherent(after)
      /\ event = "None" =>
           after.executing = queue.executing /\ after.commands = queue.commands
      /\ event = "Dispatch" =>
           queue.executing /\ after.executing /\ queue.commands # <<>>
      /\ event = "AllDone" => ~after.executing /\ after.commands = <<>>
      /\ event = "Failed" => after = EmptyQueue
  BY <1>1, <1>2, QueueEventFacts
<1>4. event = "Dispatch" => Text(Head(queue.commands)) \in Seq(Line)
  BY <1>2, <1>3, HeadTypes
<1>5. CASE event = "None"
  BY <1>1, <1>3, <1>5 DEF OnMarker, Inv, TypeOK, ExecutingQueued, Coherent, histVars
<1>6. CASE event = "Dispatch"
  <2>2. CASE /\ queue' = after /\ tty' = tty \o Text(Head(queue.commands))
             /\ UNCHANGED <<mode, status>>
    BY <1>1, <1>3, <1>4, <1>6, <2>2
       DEF OnMarker, Inv, TypeOK, ExecutingQueued, Coherent, histVars
  <2>3. CASE /\ queue' = Clear(after) /\ mode' = "Idle" /\ status' = "stopped"
             /\ UNCHANGED tty
    BY <1>1, <1>6, <2>3, EmptyQueueFacts
       DEF OnMarker, Inv, TypeOK, ExecutingQueued, Coherent, histVars, Clear
  <2> QED
    BY <1>6, <2>2, <2>3 DEF OnMarker, Write
<1>7. CASE event = "AllDone"
  BY <1>1, <1>3, <1>7 DEF OnMarker, Inv, TypeOK, ExecutingQueued, Coherent, histVars
<1>8. CASE event = "Failed"
  <2>1. /\ queue' = EmptyQueue /\ tty' = tty \o <<Blank>> /\ mode' = "Idle"
        /\ status' = "failed"
    BY <1>3, <1>8 DEF OnMarker, Write
  <2> QED
    BY <1>1, <1>3, <2>1, EmptyQueueFacts, LineTypes
       DEF OnMarker, Inv, TypeOK, ExecutingQueued, Coherent, histVars
<1> QED
  BY <1>5, <1>6, <1>7, <1>8 DEF OnMarker

(* The steps of the shell leave queue and mode alone.                      *)

LEMMA ShellStepInv ==
  ASSUME Inv, ShellStep
  PROVE  Inv'
<1> USE DEF Inv, ExecutingQueued, Coherent, histVars
<1>1. CASE ReadLine
  <2>1. tty \in Seq(Line) /\ tty # <<>>
    BY <1>1 DEF ReadLine, TypeOK
  <2>2. Head(tty) \in Line /\ Tail(tty) \in Seq(Line)
    BY <2>1
  <2>3. shell' \in Shell
    BY <1>1, <2>2, ShellTypes DEF ReadLine, Phase
  <2>4. out' \in Seq(Marker)
    <3>1. CASE out' = Append(out, MarkB)
      BY <3>1, MarkTypes DEF TypeOK
    <3>2. CASE UNCHANGED out
      BY <3>2 DEF TypeOK
    <3> QED
      BY <1>1, <3>1, <3>2 DEF ReadLine, Emit
  <2> QED
    BY <1>1, <2>2, <2>3, <2>4 DEF ReadLine, TypeOK
<1>2. CASE CommandReadsKey
  BY <1>2 DEF CommandReadsKey, TypeOK
<1>3. CASE StartPrompt
  <2>1. shell' \in Shell
    BY <1>3 DEF StartPrompt, TypeOK, Shell, Phase
  <2>2. out \in Seq(Marker) /\ MarkA \in Marker
    BY MarkTypes DEF TypeOK
  <2>3. out' = Append(out, MarkA)
    BY <1>3 DEF StartPrompt, Emit
  <2>4. out' \in Seq(Marker)
    BY <2>2, <2>3
  <2> QED
    BY <1>3, <2>1, <2>4 DEF StartPrompt, TypeOK
<1>4. CASE EndPrompt
  <2>1. shell' \in Shell
    BY <1>4, ShellTypes, LineTypes DEF EndPrompt, Phase
  <2>2. out' \in Seq(Marker)
    <3>1. CASE BAtPrompt
      <4>1. out \in Seq(Marker) /\ MarkB \in Marker
        BY MarkTypes DEF TypeOK
      <4>2. out' = Append(out, MarkB)
        BY <1>4, <3>1 DEF EndPrompt, Emit
      <4> QED
        BY <4>1, <4>2
    <3>2. CASE ~BAtPrompt
      BY <1>4, <3>2 DEF EndPrompt, TypeOK
    <3> QED
      BY <3>1, <3>2
  <2> QED
    BY <1>4, <2>1, <2>2 DEF EndPrompt, TypeOK
<1>5. ASSUME NEW code \in Exits, FinishLine(code)
      PROVE  Inv'
  <2>1. shell \in Shell /\ out \in Seq(Marker) /\ shell.line \in Line
    BY DEF TypeOK, Shell
  <2>2. shell' \in Shell
    BY <1>5, <2>1 DEF FinishLine, Shell, Phase
  <2>3. out' \in Seq(Marker)
    BY <1>5, <2>1, MarkTypes, DispatchAssumption DEF FinishLine, Emit
  <2>4. shell.line.kind = "last" => shell.line.cmd \in Command
    BY <2>1 DEF Line
  <2>5. ran' \in Seq([cmd : Command, code : Exits])
    <3>1. ran \in Seq([cmd : Command, code : Exits])
      BY DEF TypeOK
    <3>2. CASE shell.line.kind = "last"
      <4>1. [cmd |-> shell.line.cmd, code |-> code] \in [cmd : Command, code : Exits]
        BY <2>4, <3>2
      <4>2. ran' = Append(ran, [cmd |-> shell.line.cmd, code |-> code])
        BY <1>5, <3>2 DEF FinishLine
      <4> QED
        BY <3>1, <4>1, <4>2
    <3>3. CASE shell.line.kind # "last"
      BY <1>5, <3>1, <3>3 DEF FinishLine
    <3> QED
      BY <3>2, <3>3
  <2>6. status' \in {"idle", "running", "done", "failed", "aborted", "stopped"}
    BY <1>5 DEF FinishLine, TypeOK
  <2> QED
    BY <1>5, <2>2, <2>3, <2>5, <2>6 DEF FinishLine, TypeOK
<1> QED
  BY <1>1, <1>2, <1>3, <1>4, <1>5 DEF ShellStep

LEMMA NextInv == Inv /\ [Next]_vars => Inv'
<1> SUFFICES ASSUME Inv, [Next]_vars
             PROVE  Inv'
  OBVIOUS
<1>1. CASE ReplStep
  BY <1>1, ApproveInv, CtrlCInv, ForwardKeysInv, StaleEndInv, OnMarkerInv DEF ReplStep
<1>2. CASE ShellStep
  BY <1>2, ShellStepInv
<1>3. CASE UNCHANGED vars
  BY <1>3 DEF vars, Inv, TypeOK, ExecutingQueued, Coherent
<1> QED
  BY <1>1, <1>2, <1>3 DEF Next

LEMMA Invariance == Spec => []Inv
BY InitInv, NextInv, PTL DEF Spec

(* Types are kept, and the queue waits for a prompt only while it executes.*)
THEOREM TypeCorrect == Spec => []TypeOK
<1>1. Inv => TypeOK
  BY DEF Inv
<1> QED
  BY <1>1, Invariance, PTL

(* A batch is never stuck: while the queue executes a line has not been    *)
(* read or not ended, or the B that ends its prompt is on its way, and the *)
(* queue is or will be waiting for it.  This needs a shell that prints B   *)
(* at the prompt (fish does not), and nothing else: commands may have      *)
(* several lines, and anything may be typed.                               *)

AComes == queue.awaiting_ready \/ \E i \in 1..Len(out) : out[i].m = "A"

BComes == \E j \in 1..Len(out) :
            /\ out[j].m = "B"
            /\ queue.awaiting_ready \/ \E i \in 1..(j - 1) : out[i].m = "A"

Awaited ==
  \/ tty # <<>>
  \/ shell.phase \in {"running", "done"}
  \/ shell.phase = "started" /\ AComes
  \/ shell.phase = "prompt" /\ BComes

AwaitedInv == Inv /\ (queue.executing => Awaited)

(* A command is one line at least.                                         *)
LEMMA TextNotEmpty ==
  ASSUME NEW c \in Command
  PROVE  Text(c) # <<>>
BY DEF Text

(* A marker that says nothing to the queue: an A makes it wait for B.      *)
LEMMA WaitsAfter ==
  ASSUME NEW q \in Queue(Command), NEW marker \in Marker, q.executing,
         QueueEvent(q, marker) = "None"
  PROVE  /\ QueueAfter(q, marker).awaiting_ready = (q.awaiting_ready \/ marker.m = "A")
         /\ marker.m = "B" => ~q.awaiting_ready
<1>1. marker.m = "B" => ~q.awaiting_ready
  BY DEF QueueEvent
<1>2. q.awaiting_ready \in BOOLEAN
  BY DEF Queue
<1>3. CASE marker.m = "A"
  BY <1>2, <1>3 DEF QueueAfter, Queue
<1>4. CASE marker.m = "D"
  BY <1>2, <1>4 DEF QueueAfter, Queue
<1>5. CASE marker.m \notin {"A", "D"}
  BY <1>1, <1>2, <1>5 DEF QueueAfter, Queue
<1> QED
  BY <1>1, <1>3, <1>4, <1>5

LEMMA OnMarkerAwaited ==
  ASSUME AwaitedInv, OnMarker, queue'.executing
  PROVE  Awaited'
<1> DEFINE marker == Head(out)
           event  == QueueEvent(queue, marker)
           after  == QueueAfter(queue, marker)
<1>1. /\ out \in Seq(Marker) /\ out # <<>> /\ out' = Tail(out)
      /\ marker = out[1] /\ marker \in Marker /\ UNCHANGED shell
      /\ queue \in Queue(Command) /\ Coherent(queue) /\ tty \in Seq(Line)
  BY DEF OnMarker, AwaitedInv, Inv, TypeOK
<1>2. /\ event \in {"None", "Dispatch", "AllDone", "Failed"}
      /\ event = "None" => after.executing = queue.executing
      /\ event = "Dispatch" => queue.commands # <<>>
      /\ event = "AllDone" => ~after.executing
      /\ event = "Failed" => after = EmptyQueue
  BY <1>1, QueueEventFacts
<1>3. CASE event = "None"
  <2>1. queue' = after /\ UNCHANGED tty /\ queue.executing
    BY <1>2, <1>3 DEF OnMarker
  <2>2. /\ queue'.awaiting_ready = (queue.awaiting_ready \/ marker.m = "A")
        /\ marker.m = "B" => ~queue.awaiting_ready
    BY <1>1, <1>3, <2>1, WaitsAfter
  <2>3. /\ Len(out) \in Nat /\ Len(out') = Len(out) - 1
        /\ \A i \in 2..Len(out) : i - 1 \in 1..Len(out') /\ out'[i - 1] = out[i]
    BY <1>1
  <2>4. AComes => AComes'
    <3> SUFFICES ASSUME NEW i \in 1..Len(out), out[i].m = "A"
                 PROVE  AComes'
      BY <2>2 DEF AComes
    <3>1. CASE i = 1
      BY <1>1, <2>2, <3>1 DEF AComes
    <3>2. CASE i # 1
      <4>1. i \in 2..Len(out)
        BY <2>3, <3>2
      <4> QED
        BY <2>3, <4>1 DEF AComes
    <3> QED
      BY <3>1, <3>2
  <2>5. BComes => BComes'
    <3> SUFFICES ASSUME NEW j \in 1..Len(out), out[j].m = "B",
                        queue.awaiting_ready \/ \E i \in 1..(j - 1) : out[i].m = "A"
                 PROVE  BComes'
      BY DEF BComes
    <3>1. j # 1
      BY <1>1, <2>2
    <3>2. j \in 2..Len(out) /\ j - 1 \in 1..Len(out') /\ out'[j - 1].m = "B"
      BY <2>3, <3>1
    <3>3. CASE queue'.awaiting_ready
      BY <3>2, <3>3 DEF BComes
    <3>4. CASE ~queue'.awaiting_ready
      <4>1. PICK i \in 1..(j - 1) : out[i].m = "A"
        BY <2>2, <3>4
      <4>2. i # 1
        BY <1>1, <2>2, <3>4, <4>1
      <4>3. i \in 2..Len(out) /\ i - 1 \in 1..((j - 1) - 1) /\ out'[i - 1].m = "A"
        BY <2>3, <3>2, <4>1, <4>2
      <4> QED
        BY <3>2, <4>3 DEF BComes
    <3> QED
      BY <3>3, <3>4
  <2> QED
    BY <1>1, <2>1, <2>4, <2>5 DEF AwaitedInv, Awaited
<1>4. CASE event = "Dispatch"
  <2>1. Head(queue.commands) \in Command
    BY <1>1, <1>2, <1>4, PopImmediateFacts
  <2>2. Text(Head(queue.commands)) \in Seq(Line) /\ Text(Head(queue.commands)) # <<>>
    BY <2>1, TextNotEmpty, LineTypes
  <2>3. tty' = tty \o Text(Head(queue.commands))
    BY <1>4, EmptyQueueFacts DEF OnMarker, Write, Clear
  <2>4. tty' # <<>>
    BY <1>1, <2>2, <2>3
  <2> QED
    BY <2>4 DEF Awaited
<1>5. CASE event \in {"AllDone", "Failed"}
  BY <1>2, <1>5, EmptyQueueFacts DEF OnMarker
<1> QED
  BY <1>2, <1>3, <1>4, <1>5

LEMMA NextAwaited ==
  ASSUME BAtPrompt, AwaitedInv, [Next]_vars
  PROVE  AwaitedInv'
<1> SUFFICES ASSUME queue'.executing
             PROVE  Awaited'
  BY NextInv DEF AwaitedInv
<1>1. tty \in Seq(Line) /\ out \in Seq(Marker) /\ shell \in Shell /\ Inv
  BY DEF AwaitedInv, Inv, TypeOK
<1>2. ASSUME NEW b \in Batches, Approve(b)
      PROVE  Awaited'
  <2>1. Enqueue(queue, b) \in Queue(Command) /\ Enqueue(queue, b).commands # <<>>
    BY BatchTypes, EnqueueFacts DEF AwaitedInv, Inv, TypeOK
  <2>2. Head(Enqueue(queue, b).commands) \in Command
    BY <2>1, PopImmediateFacts
  <2> DEFINE text == Text(Head(Enqueue(queue, b).commands))
  <2>3. text \in Seq(Line) /\ text # <<>>
    BY <2>2, TextNotEmpty, LineTypes
  <2>4. tty' = tty \o text
    BY <1>2, EmptyQueueFacts DEF Approve, Write, Clear
  <2>5. tty' # <<>>
    BY <1>1, <2>3, <2>4
  <2> QED
    BY <2>5 DEF Awaited
<1>3. CASE CtrlC
  BY <1>3, EmptyQueueFacts DEF CtrlC, Clear
<1>4. CASE ForwardKeys
  <2>1. tty' # <<>> \/ shell'.phase = "running"
    BY <1>1, <1>4, LineTypes DEF ForwardKeys, Write
  <2> QED
    BY <2>1 DEF Awaited
<1>5. CASE StaleEnd \/ UNCHANGED vars
  BY <1>5 DEF StaleEnd, vars, AwaitedInv, Awaited, AComes, BComes
<1>6. CASE OnMarker
  BY <1>6, OnMarkerAwaited
<1>7. CASE ReadLine
  BY <1>7 DEF ReadLine, Awaited
<1>8. CASE CommandReadsKey
  BY <1>8 DEF CommandReadsKey, Awaited
<1>9. ASSUME NEW code \in Exits, FinishLine(code)
      PROVE  Awaited'
  BY <1>1, <1>9 DEF FinishLine, Awaited, Shell
<1>10. CASE StartPrompt
  <2>1. shell'.phase = "started" /\ out' = Append(out, MarkA)
    BY <1>1, <1>10 DEF StartPrompt, Emit, Shell
  <2>2. Len(out') \in 1..Len(out') /\ out'[Len(out')].m = "A"
    BY <1>1, <2>1, MarkTypes, AppendProperties DEF MarkA
  <2> QED
    BY <2>1, <2>2 DEF Awaited, AComes
<1>11. CASE EndPrompt
  <2>1. /\ shell.phase = "started" /\ shell'.phase = "prompt"
        /\ out' = Append(out, MarkB) /\ UNCHANGED <<queue, tty>>
    BY <1>11 DEF EndPrompt, Emit
  <2>2. /\ Len(out) \in Nat /\ Len(out') = Len(out) + 1 /\ out'[Len(out')].m = "B"
        /\ \A i \in 1..Len(out) : out'[i] = out[i]
    BY <1>1, <2>1, MarkTypes, AppendProperties DEF MarkB
  <2>3. AComes => BComes'
    BY <2>1, <2>2 DEF AComes, BComes
  <2> QED
    BY <2>1, <2>3 DEF AwaitedInv, Awaited
<1> QED
  BY <1>2, <1>3, <1>4, <1>5, <1>6, <1>7, <1>8, <1>9, <1>10, <1>11
     DEF Next, ReplStep, ShellStep

(* A queue that executes has something to wait for, Executing waits for    *)
(* such a queue only, and no commands are left in a queue that has stopped,*)
(* whatever stale ends take Executing away, and whatever is typed.         *)
THEOREM NothingStuck ==
  ASSUME BAtPrompt
  PROVE  Spec => []NoBatchStuck
<1>1. Init => AwaitedInv
  BY InitInv, EmptyQueueFacts DEF Init, AwaitedInv
<1>2. AwaitedInv /\ [Next]_vars => AwaitedInv'
  BY NextAwaited
<1>3. AwaitedInv => NoBatchStuck
  <2> SUFFICES ASSUME AwaitedInv PROVE NoBatchStuck
    OBVIOUS
  <2>1. queue.executing => ~AtPrompt
    BY DEF AwaitedInv, Awaited, AtPrompt, BComes
  <2> QED
    BY <2>1 DEF AwaitedInv, Inv, ExecutingQueued, Coherent, NoBatchStuck
<1> QED
  BY <1>1, <1>2, <1>3, PTL DEF Spec

-----------------------------------------------------------------------------
(* With shells that print B at the prompt, single-line commands, no type-  *)
(* ahead and approvals at a redrawn prompt, commands run one at a time.    *)
(* A command of two lines breaks OneAtATime: the shell prints D, A and B   *)
(* after the first, which the queue takes for the end of the command.      *)

Disciplined ==
  /\ BAtPrompt = TRUE /\ PromptRedrawn = TRUE
  /\ MultiLine = {} /\ MaxKeys = 0

(* While a batch executes there is one command, or what is left of the     *)
(* markers D, A, B that follow it, between the REPL and the shell; and the *)
(* queue has been told to wait for the B once the A has been processed.    *)
One(a)         == Len(out) = 1 /\ out[1].m = a
Two(a, b)      == Len(out) = 2 /\ out[1].m = a /\ out[2].m = b
Three(a, b, c) == Len(out) = 3 /\ out[1].m = a /\ out[2].m = b /\ out[3].m = c

Written   == /\ shell.phase = "prompt" /\ out = <<>>
             /\ Len(tty) = 1 /\ tty[1].kind = "last"
Running   == shell.phase = "running" /\ tty = <<>> /\ out = <<>>
Reported  == /\ shell.phase = "done" /\ tty = <<>>
             /\ out = <<>> \/ One("D")
Prompting == /\ shell.phase = "started" /\ tty = <<>>
             /\ (out = <<>> /\ queue.awaiting_ready) \/ One("A") \/ Two("D", "A")
Prompted  == /\ shell.phase = "prompt" /\ tty = <<>>
             /\ (One("B") /\ queue.awaiting_ready) \/ Two("A", "B") \/ Three("D", "A", "B")

Cycle == Written \/ Running \/ Reported \/ Prompting \/ Prompted

OrderInv ==
  /\ Inv
  /\ OneAtATime
  /\ AllDoneIsLast
  /\ queue.executing => Cycle /\ status # "done"

(* A single-line command is one line.                                      *)
LEMMA SingleLine ==
  ASSUME Disciplined, NEW c \in Command
  PROVE  /\ Text(c) \in Seq(Line) /\ Len(Text(c)) = 1
         /\ Text(c)[1].kind = "last"
<1>1. Text(c) = <<[kind |-> "last", cmd |-> c]>>
  BY DEF Text, Disciplined
<1>2. Text(c) \in Seq(Line)
  BY LineTypes
<1>3. Len(Text(c)) = 1 /\ Text(c)[1] = [kind |-> "last", cmd |-> c]
  BY <1>1
<1> QED
  BY <1>2, <1>3

(* The queue waits for B once A has been processed, and B is answered.     *)
LEMMA AwaitFacts ==
  ASSUME NEW C, NEW q \in Queue(C), NEW marker \in Marker, q.executing
  PROVE  /\ marker.m = "D" => /\ QueueEvent(q, marker) = "None"
                              /\ QueueAfter(q, marker).awaiting_ready = q.awaiting_ready
         /\ marker.m = "A" => /\ QueueEvent(q, marker) = "None"
                              /\ QueueAfter(q, marker).awaiting_ready
         /\ marker.m = "B" /\ q.awaiting_ready => QueueEvent(q, marker) # "None"
BY DEF QueueEvent, QueueAfter, Queue

LEMMA InitOrder == Init => OrderInv
BY InitInv, EmptyQueueFacts DEF Init, OrderInv, OneAtATime, AllDoneIsLast, Waiting, InShell

LEMMA ApproveOrder ==
  ASSUME Disciplined, OrderInv, NEW b \in Batches, Approve(b)
  PROVE  OrderInv'
<1>1. Inv'
  BY ApproveInv DEF OrderInv
<1>2. shell.phase = "prompt" /\ tty = <<>> /\ out = <<>>
  BY DEF Approve, Disciplined, AtPrompt
<1>3. UNCHANGED <<shell, out>>
  BY DEF Approve
<1> DEFINE q == Enqueue(queue, b)
<1>4. q \in Queue(Command) /\ q.commands # <<>>
  BY BatchTypes, EnqueueFacts DEF OrderInv, Inv, TypeOK
<1>5. Head(q.commands) \in Command
  BY <1>4, PopImmediateFacts
<1>6. CASE tty' = tty \o Text(Head(q.commands)) /\ status' = "running"
  <2>1. /\ tty' \in Seq(Line) /\ Len(tty') = 1 /\ tty'[1].kind = "last"
    BY <1>2, <1>5, <1>6, SingleLine
  <2> QED
    BY <1>1, <1>2, <1>3, <1>6, <2>1
       DEF OrderInv, OneAtATime, AllDoneIsLast, Waiting, InShell, Cycle, Written
<1>7. CASE UNCHANGED tty /\ queue' = Clear(q) /\ status' = "stopped"
  BY <1>1, <1>2, <1>3, <1>7, EmptyQueueFacts
     DEF OrderInv, OneAtATime, AllDoneIsLast, Waiting, InShell, Clear
<1> QED
  BY <1>6, <1>7 DEF Approve, Write

LEMMA CtrlCOrder ==
  ASSUME OrderInv, CtrlC
  PROVE  OrderInv'
<1>1. Inv' /\ ~queue'.executing /\ UNCHANGED <<shell, out>>
  BY CtrlCInv, EmptyQueueFacts DEF OrderInv, CtrlC, Clear
<1>2. status' # "done"
  BY DEF CtrlC, OrderInv, Inv, ExecutingQueued
<1>3. CASE shell.phase = "running"
  <2>1. tty' = <<Blank>>
    BY <1>3 DEF CtrlC
  <2>2. Waiting' = {}
    BY <2>1 DEF Waiting, Blank
  <2> QED
    BY <1>1, <1>2, <2>2 DEF OrderInv, OneAtATime, AllDoneIsLast
<1>4. CASE shell.phase # "running"
  <2>1. tty' = tty \o <<Blank, Blank>> /\ tty \in Seq(Line)
    BY <1>4 DEF CtrlC, OrderInv, Inv, TypeOK
  <2>2. \A i \in 1..Len(tty') : tty'[i].kind = "last" => i \in 1..Len(tty) /\ tty'[i] = tty[i]
    BY <2>1 DEF Blank
  <2>3. \A i, j \in Waiting' : i = j
    BY <2>2 DEF OrderInv, OneAtATime, Waiting
  <2> QED
    BY <1>1, <1>2, <1>4, <2>3 DEF OrderInv, OneAtATime, AllDoneIsLast, InShell
<1> QED
  BY <1>3, <1>4

LEMMA OnMarkerOrder ==
  ASSUME Disciplined, OrderInv, OnMarker
  PROVE  OrderInv'
<1> DEFINE marker == Head(out)
           event  == QueueEvent(queue, marker)
           after  == QueueAfter(queue, marker)
<1>1. Inv' /\ UNCHANGED shell
  BY OnMarkerInv DEF OrderInv, OnMarker
<1>2. /\ out \in Seq(Marker) /\ out # <<>> /\ out' = Tail(out)
      /\ marker = out[1] /\ marker \in Marker
      /\ queue \in Queue(Command) /\ Coherent(queue)
  BY DEF OrderInv, Inv, TypeOK, OnMarker
<1>3. /\ event \in {"None", "Dispatch", "AllDone", "Failed"}
      /\ event # "None" => queue.executing /\ marker.m = "B"
      /\ event = "Dispatch" => queue.commands # <<>>
  BY <1>2, QueueEventFacts DEF QueueEvent, Coherent
<1>4. CASE ~queue.executing
  <2>1. event = "None"
    BY <1>3, <1>4
  <2>2. UNCHANGED <<mode, tty, status>> /\ ~queue'.executing
    BY <1>2, <1>4, <2>1, QueueEventFacts DEF OnMarker
  <2> QED
    BY <1>1, <2>2 DEF OrderInv, OneAtATime, AllDoneIsLast, Waiting, InShell
<1>5. CASE queue.executing /\ event = "None"
  <2>1. UNCHANGED <<mode, tty, status>> /\ queue' = after
    BY <1>5 DEF OnMarker
  <2>2. /\ marker.m = "D" => after.awaiting_ready = queue.awaiting_ready
        /\ marker.m = "A" => after.awaiting_ready
        /\ ~(marker.m = "B" /\ queue.awaiting_ready)
    BY <1>2, <1>5, AwaitFacts
  <2>3. /\ Len(out') = Len(out) - 1
        /\ Len(out) = 1 => out' = <<>>
        /\ Len(out) = 2 => out'[1] = out[2]
        /\ Len(out) = 3 => out'[1] = out[2] /\ out'[2] = out[3]
    BY <1>2
  <2>4. Reported \/ Prompting \/ Prompted
    BY <1>2, <1>5 DEF OrderInv, Cycle, Written, Running
  <2>5. Reported => Reported'
    BY <1>1, <1>2, <2>1, <2>3 DEF Reported, One
  <2>6. ASSUME Prompting PROVE Prompting'
    <3>1. CASE One("A")
      BY <1>1, <1>2, <2>1, <2>2, <2>3, <2>6, <3>1 DEF Prompting, One
    <3>2. CASE Two("D", "A")
      BY <1>1, <2>1, <2>3, <2>6, <3>2 DEF Prompting, One, Two
    <3> QED
      BY <1>2, <2>6, <3>1, <3>2 DEF Prompting
  <2>7. ASSUME Prompted PROVE Prompted'
    <3>1. CASE Two("A", "B")
      <4>1. One("B")'
        BY <2>3, <3>1 DEF One, Two
      <4>2. queue'.awaiting_ready
        BY <1>2, <2>1, <2>2, <3>1 DEF Two
      <4> QED
        BY <1>1, <2>1, <2>7, <4>1, <4>2 DEF Prompted
    <3>2. CASE Three("D", "A", "B")
      <4>1. Two("A", "B")'
        BY <2>3, <3>2 DEF Two, Three
      <4> QED
        BY <1>1, <2>1, <2>7, <4>1 DEF Prompted
    <3>3. ~(One("B") /\ queue.awaiting_ready)
      BY <1>2, <2>2 DEF One
    <3> QED
      BY <2>7, <3>1, <3>2, <3>3 DEF Prompted
  <2> QED
    BY <1>1, <1>5, <2>1, <2>4, <2>5, <2>6, <2>7
       DEF OrderInv, OneAtATime, AllDoneIsLast, Waiting, InShell, Cycle
<1>6. CASE queue.executing /\ event # "None"
  <2>1. shell.phase = "prompt" /\ tty = <<>> /\ Len(out) = 1
    <3>1. out[1].m = "B" /\ out # <<>>
      BY <1>2, <1>3, <1>6
    <3>2. ~Written /\ ~Running
      BY <3>1 DEF Written, Running
    <3>3. ~Reported /\ ~Prompting
      BY <3>1 DEF Reported, Prompting, One, Two
    <3>4. Prompted
      BY <1>6, <3>2, <3>3 DEF OrderInv, Cycle
    <3> QED
      BY <3>1, <3>4 DEF Prompted, One, Two, Three
  <2>2. out' = <<>>
    BY <1>2, <2>1
  <2>3. CASE tty' = tty \o Text(Head(queue.commands)) /\ event = "Dispatch"
             /\ UNCHANGED <<mode, status>>
    <3>1. Head(queue.commands) \in Command
      BY <1>2, <1>3, <2>3, PopImmediateFacts
    <3>2. tty' \in Seq(Line) /\ Len(tty') = 1 /\ tty'[1].kind = "last"
      BY <2>1, <2>3, <3>1, SingleLine
    <3>3. Written' /\ ~InShell'
      BY <1>1, <2>1, <2>2, <3>2 DEF Written, InShell
    <3>4. \A i, j \in Waiting' : i = j
      BY <3>2 DEF Waiting
    <3> QED
      BY <1>1, <1>6, <2>3, <3>3, <3>4 DEF OrderInv, OneAtATime, AllDoneIsLast, Cycle
  <2>4. CASE UNCHANGED tty /\ ~queue'.executing
    BY <1>1, <2>1, <2>4 DEF OrderInv, OneAtATime, AllDoneIsLast, Waiting, InShell
  <2>5. CASE tty' = tty \o <<Blank>> /\ ~queue'.executing
    <3>1. Waiting' = {}
      BY <2>1, <2>5 DEF Waiting, Blank
    <3> QED
      BY <1>1, <2>1, <2>5, <3>1 DEF OrderInv, OneAtATime, AllDoneIsLast, InShell
  <2>6. /\ event = "AllDone" => ~after.executing
        /\ event = "Failed" => after = EmptyQueue
    BY <1>2, QueueEventFacts
  <2> QED
    BY <1>3, <1>6, <2>3, <2>4, <2>5, <2>6, EmptyQueueFacts DEF OnMarker, Write, Clear
<1> QED
  BY <1>4, <1>5, <1>6

(* The shell's steps: the line in the terminal becomes the running one, and*)
(* then its markers.                                                       *)

LEMMA ReadLineOrder ==
  ASSUME Disciplined, OrderInv, ReadLine
  PROVE  OrderInv'
<1>1. Inv' /\ UNCHANGED <<mode, queue, status, out>>
  BY ShellStepInv DEF OrderInv, ReadLine, ShellStep, Disciplined
<1>2. /\ tty \in Seq(Line) /\ tty # <<>> /\ tty' = Tail(tty)
      /\ shell' = [phase |-> "running", line |-> tty[1]]
      /\ shell.phase = "prompt"
  BY DEF ReadLine, OrderInv, Inv, TypeOK
<1>3. /\ Len(tty') = Len(tty) - 1
      /\ \A i \in 1..Len(tty') : tty'[i] = tty[i + 1]
      /\ Len(tty) \in Nat /\ Len(tty) >= 1
  BY <1>2
<1>4. \A i \in Waiting' : i + 1 \in Waiting /\ i \in Nat /\ i >= 1
  BY <1>3 DEF Waiting
<1>5. InShell' => 1 \in Waiting
  BY <1>2, <1>3 DEF InShell, Waiting
<1>6. \A i, j \in Waiting' : i = j
  BY <1>4 DEF OrderInv, OneAtATime
<1>7. InShell' => Waiting' = {}
  BY <1>4, <1>5 DEF OrderInv, OneAtATime
<1>8. AllDoneIsLast'
  BY <1>1, <1>4, <1>5 DEF OrderInv, AllDoneIsLast
<1>9. queue.executing => Running'
  BY <1>1, <1>2, <1>3
     DEF OrderInv, Cycle, Written, Running, Reported, Prompting, Prompted
<1> QED
  BY <1>1, <1>6, <1>7, <1>8, <1>9 DEF OrderInv, OneAtATime, Cycle

(* A short sequence and one more element.                                  *)
LEMMA Appended ==
  ASSUME NEW S, NEW s \in Seq(S), NEW e \in S
  PROVE  /\ Len(s) = 1 => /\ Len(Append(s, e)) = 2
                          /\ Append(s, e)[1] = s[1] /\ Append(s, e)[2] = e
         /\ Len(s) = 2 => /\ Len(Append(s, e)) = 3
                          /\ Append(s, e)[1] = s[1] /\ Append(s, e)[2] = s[2]
                          /\ Append(s, e)[3] = e
<1>1. /\ Len(Append(s, e)) = Len(s) + 1
      /\ \A i \in 1..Len(s) : Append(s, e)[i] = s[i]
      /\ Append(s, e)[Len(s) + 1] = e
  BY AppendProperties
<1>2. CASE Len(s) = 1
  BY <1>1, <1>2
<1>3. CASE Len(s) = 2
  BY <1>1, <1>3
<1> QED
  BY <1>2, <1>3

(* Steps of the shell that only print.                                     *)
LEMMA PrintOrder ==
  ASSUME OrderInv, Inv', UNCHANGED <<mode, queue, tty>>,
         shell.phase # "prompt", shell'.phase # "running",
         status' = status \/ status' # "done",
         queue.executing => Cycle' /\ UNCHANGED status
  PROVE  OrderInv'
BY DEF OrderInv, OneAtATime, AllDoneIsLast, Waiting, InShell

LEMMA FinishLineOrder ==
  ASSUME OrderInv, NEW code \in Exits, FinishLine(code)
  PROVE  OrderInv'
<1>1. Inv' /\ UNCHANGED <<mode, queue, tty>>
  BY ShellStepInv DEF OrderInv, FinishLine, ShellStep
<1>2. /\ shell.phase = "running" /\ shell'.phase = "done"
      /\ out \in Seq(Marker) /\ out' = Append(out, MarkD(code))
  BY DEF FinishLine, Emit, OrderInv, Inv, TypeOK, Shell
<1>3. queue.executing => Reported'
  <2>1. queue.executing => out = <<>> /\ tty = <<>>
    BY <1>2 DEF OrderInv, Cycle, Written, Running, Reported, Prompting, Prompted
  <2> QED
    BY <1>1, <1>2, <2>1 DEF Reported, One, MarkD
<1>4. status' = status \/ status' = "stopped"
  BY DEF FinishLine
<1>5. queue.executing => status # "done"
  BY DEF OrderInv
<1> QED
  BY <1>1, <1>2, <1>3, <1>4, <1>5
     DEF OrderInv, OneAtATime, AllDoneIsLast, Waiting, InShell, Cycle

LEMMA StartPromptOrder ==
  ASSUME OrderInv, StartPrompt
  PROVE  OrderInv'
<1>1. Inv' /\ UNCHANGED <<mode, queue, tty, status>>
  BY ShellStepInv DEF OrderInv, StartPrompt, ShellStep
<1>2. /\ shell.phase = "done" /\ shell'.phase = "started"
      /\ out \in Seq(Marker) /\ out' = Append(out, MarkA)
  BY DEF StartPrompt, Emit, OrderInv, Inv, TypeOK, Shell
<1>3. queue.executing => Prompting'
  <2>1. queue.executing => Reported
    BY <1>2 DEF OrderInv, Cycle, Written, Running, Reported, Prompting, Prompted
  <2> QED
    <3> SUFFICES ASSUME queue.executing PROVE Prompting'
      OBVIOUS
    <3>1. CASE out = <<>>
      BY <1>1, <1>2, <2>1, <3>1 DEF Reported, Prompting, One, MarkA
    <3>2. CASE One("D")
      <4>1. Len(out') = 2 /\ out'[1] = out[1] /\ out'[2] = MarkA
        BY <1>2, <3>2, Appended, MarkTypes DEF One
      <4>2. Two("D", "A")'
        BY <3>2, <4>1 DEF One, Two, MarkA
      <4> QED
        BY <1>1, <1>2, <2>1, <4>2 DEF Reported, Prompting
    <3> QED
      BY <2>1, <3>1, <3>2 DEF Reported
<1> QED
  BY <1>1, <1>2, <1>3, PrintOrder DEF Cycle

LEMMA EndPromptOrder ==
  ASSUME Disciplined, OrderInv, EndPrompt
  PROVE  OrderInv'
<1>1. Inv' /\ UNCHANGED <<mode, queue, tty, status>>
  BY ShellStepInv DEF OrderInv, EndPrompt, ShellStep
<1>2. /\ shell.phase = "started" /\ shell'.phase = "prompt"
      /\ out \in Seq(Marker) /\ out' = Append(out, MarkB)
  BY DEF EndPrompt, Emit, OrderInv, Inv, TypeOK, Shell, Disciplined
<1>3. queue.executing => Prompted'
  <2>1. queue.executing => Prompting
    BY <1>2 DEF OrderInv, Cycle, Written, Running, Reported, Prompting, Prompted
  <2> QED
    <3> SUFFICES ASSUME queue.executing PROVE Prompted'
      OBVIOUS
    <3>1. CASE out = <<>>
      BY <1>1, <1>2, <2>1, <3>1 DEF Prompting, Prompted, One, Two, MarkB
    <3>2. CASE One("A")
      <4>1. Len(out') = 2 /\ out'[1] = out[1] /\ out'[2] = MarkB
        BY <1>2, <3>2, Appended, MarkTypes DEF One
      <4>2. Two("A", "B")'
        BY <3>2, <4>1 DEF One, Two, MarkB
      <4> QED
        BY <1>1, <1>2, <2>1, <4>2 DEF Prompting, Prompted
    <3>3. CASE Two("D", "A")
      <4>1. /\ Len(out') = 3 /\ out'[1] = out[1] /\ out'[2] = out[2]
            /\ out'[3] = MarkB
        BY <1>2, <3>3, Appended, MarkTypes DEF Two
      <4>2. Three("D", "A", "B")'
        BY <3>3, <4>1 DEF Two, Three, MarkB
      <4> QED
        BY <1>1, <1>2, <2>1, <4>2 DEF Prompting, Prompted
    <3> QED
      BY <2>1, <3>1, <3>2, <3>3 DEF Prompting
<1> QED
  BY <1>1, <1>2, <1>3, PrintOrder DEF Cycle

LEMMA CommandReadsKeyOrder ==
  ASSUME OrderInv, CommandReadsKey
  PROVE  OrderInv'
<1>1. Inv' /\ UNCHANGED <<mode, queue, status, out, shell>>
  BY ShellStepInv DEF OrderInv, CommandReadsKey, ShellStep
<1>2. /\ tty \in Seq(Line) /\ tty # <<>> /\ tty' = Tail(tty) /\ tty[1].kind = "key"
      /\ shell.phase = "running"
  BY DEF CommandReadsKey, OrderInv, Inv, TypeOK, Key
<1>3. \A i \in Waiting' : i + 1 \in Waiting /\ i \in Nat
  BY <1>2 DEF Waiting
<1>4. ~queue.executing
  BY <1>2 DEF OrderInv, Cycle, Written, Running, Reported, Prompting, Prompted
<1> QED
  BY <1>1, <1>3, <1>4 DEF OrderInv, OneAtATime, AllDoneIsLast, InShell

LEMMA NextOrder ==
  ASSUME Disciplined, OrderInv, [Next]_vars
  PROVE  OrderInv'
<1>1. CASE \E b \in Batches : Approve(b)
  BY <1>1, ApproveOrder
<1>2. CASE CtrlC
  BY <1>2, CtrlCOrder
<1>3. CASE ForwardKeys
  BY <1>3 DEF ForwardKeys, Disciplined, OrderInv, Inv, TypeOK
<1>4. CASE OnMarker
  BY <1>4, OnMarkerOrder
<1>5. CASE ReadLine
  BY <1>5, ReadLineOrder
<1>6. CASE CommandReadsKey
  BY <1>6, CommandReadsKeyOrder
<1>7. CASE \E code \in Exits : FinishLine(code)
  BY <1>7, FinishLineOrder
<1>8. CASE StartPrompt
  BY <1>8, StartPromptOrder
<1>9. CASE EndPrompt
  BY <1>9, EndPromptOrder
<1>10. CASE StaleEnd \/ UNCHANGED vars
  <2>1. Inv'
    BY <1>10, NextInv DEF OrderInv
  <2>2. UNCHANGED <<queue, tty, shell, out, status>>
    BY <1>10 DEF StaleEnd, vars
  <2>3. queue'.executing => Cycle' /\ status' # "done"
    BY <2>2
       DEF OrderInv, Cycle, Written, Running, Reported, Prompting, Prompted, One, Two, Three
  <2> QED
    BY <2>1, <2>2, <2>3 DEF OrderInv, OneAtATime, AllDoneIsLast, Waiting, InShell
<1> QED
  BY <1>1, <1>2, <1>3, <1>4, <1>5, <1>6, <1>7, <1>8, <1>9, <1>10
     DEF Next, ReplStep, ShellStep

(* Commands are handed to the shell one at a time, whatever the batches,   *)
(* the exit codes and the interrupts of the user.                          *)
THEOREM OneCommandAtATime ==
  ASSUME Disciplined
  PROVE  Spec => []OneAtATime
<1>1. OrderInv /\ [Next]_vars => OrderInv'
  BY NextOrder
<1>2. OrderInv => OneAtATime
  BY DEF OrderInv
<1> QED
  BY <1>1, <1>2, InitOrder, PTL DEF Spec

(* AllDone is announced only when no command of the batch is left to run.  *)
THEOREM AllDoneMeansDone ==
  ASSUME Disciplined
  PROVE  Spec => []AllDoneIsLast
<1>1. OrderInv /\ [Next]_vars => OrderInv'
  BY NextOrder
<1>2. OrderInv => AllDoneIsLast
  BY DEF OrderInv
<1> QED
  BY <1>1, <1>2, InitOrder, PTL DEF Spec

-----------------------------------------------------------------------------
(***************************************************************************)
(* Dispatch implements BatchRun, for every set of commands and exit codes, *)
(* every capacity of the terminal, every number of batches, and wherever   *)
(* the user interrupts or a write fails, under the Disciplined conditions  *)
(* above.                                                                  *)
(*                                                                         *)
(* The order of the markers (OrderInv) is not enough: the invariant also   *)
(* says which command is on its way, which are left, and where the exit    *)
(* code of the last one is, so that a step of the shell or of the queue is *)
(* the step of BatchRun that it should be.                                 *)
(***************************************************************************)

(* The queue holds the commands of the batch after the first k.            *)
Left(k) ==
  /\ Len(queue.commands) = Len(batch) - k
  /\ \A i \in 1..Len(queue.commands) : queue.commands[i] = batch[k + i]

(* c may end next: it is the command after those that have ended, none of  *)
(* which failed.                                                           *)
MayEnd(c) ==
  /\ status \in {"running", "aborted"}
  /\ Len(ran) < Len(batch) /\ c = batch[Len(ran) + 1]
  /\ \A i \in 1..Len(ran) : ran[i].code = 0

(* Whatever the REPL has written and the shell has not finished may end.   *)
WrittenMayEnd ==
  /\ \A i \in Waiting : MayEnd(tty[i].cmd)
  /\ InShell => MayEnd(shell.line.cmd)

(* A command has ended, and none before it failed; its exit code is in a D *)
(* that has not been processed, or in the queue.                           *)
LastEnded ==
  /\ 0 < Len(ran)
  /\ \A i \in 1..(Len(ran) - 1) : ran[i].code = 0
  /\ LET code == ran[Len(ran)].code IN
       IF out # <<>> /\ out[1].m = "D" THEN out[1].code = code ELSE queue.last_exit_code = code

Handed == Written \/ (Running /\ InShell)
Ended  == Reported \/ Prompting \/ Prompted

Progress ==
  queue.executing =>
    \/ Handed /\ Left(Len(ran) + 1)
    \/ Ended /\ Left(Len(ran)) /\ LastEnded

RefinementInv ==
  /\ OrderInv
  /\ status = "running" <=> queue.executing
  /\ WrittenMayEnd
  /\ Progress

LEMMA Types ==
  ASSUME RefinementInv
  PROVE  /\ tty \in Seq(Line) /\ out \in Seq(Marker) /\ shell \in Shell
         /\ queue \in Queue(Command) /\ Coherent(queue) /\ queue.commands \in Seq(Command)
         /\ queue.last_exit_code \in Nat \cup {NoCode}
         /\ batch \in Seq(Command) /\ ran \in Seq([cmd : Command, code : Exits])
         /\ mode \in {"Idle", "Executing"}
         /\ ~queue.executing => queue.commands = <<>>
         /\ mode = "Executing" => queue.executing
         /\ Len(tty) \in Nat /\ Len(out) \in Nat /\ Len(ran) \in Nat /\ Len(batch) \in Nat
BY DEF RefinementInv, OrderInv, Inv, TypeOK, ExecutingQueued, Coherent, Queue, ExitCode

LEMMA LineOf ==
  ASSUME Disciplined, NEW c \in Command
  PROVE  Text(c) = <<[kind |-> "last", cmd |-> c]>>
BY DEF Text, Disciplined

(* The sequence that is one line.                                          *)
LEMMA OneLine ==
  ASSUME NEW line
  PROVE  /\ Len(<<>> \o <<line>>) = 1 /\ (<<>> \o <<line>>)[1] = line
         /\ 1..Len(<<>> \o <<line>>) = {1}
OBVIOUS

(* A command that is written to an empty terminal is the one that may end. *)
LEMMA WriteNext ==
  ASSUME Disciplined, tty = <<>>, out' = <<>>, shell'.phase = "prompt",
         NEW c \in Command, tty' = tty \o Text(c), MayEnd(c)'
  PROVE  Handed' /\ WrittenMayEnd'
<1> DEFINE line == [kind |-> "last", cmd |-> c]
<1>1. tty' = <<>> \o <<line>>
  BY LineOf
<1>2. Len(tty') = 1 /\ tty'[1] = line /\ 1..Len(tty') = {1}
  BY <1>1, OneLine, Zenon
<1>3. tty'[1].kind = "last" /\ tty'[1].cmd = c
  BY <1>2
<1>4. \A i \in Waiting' : i = 1
  BY <1>2, Zenon DEF Waiting
<1> QED BY <1>2, <1>3, <1>4 DEF Handed, Written, WrittenMayEnd, InShell

(* Nothing is written or running.                                          *)
LEMMA NothingMayEnd ==
  ASSUME tty' = <<>> \/ tty' = <<Blank>>, shell'.phase # "running"
  PROVE  WrittenMayEnd'
<1>1. Waiting' = {}
  BY DEF Waiting, Blank
<1> QED BY <1>1 DEF WrittenMayEnd, InShell

(* Of three markers only the first can be a D.                             *)
LEMMA MarkersOfEnded ==
  ASSUME Ended, out \in Seq(Marker), out # <<>>
  PROVE  /\ out[1].m \in {"D", "A", "B"}
         /\ Tail(out) # <<>> => Tail(out)[1].m # "D"
<1>1. \/ One("D") \/ One("A") \/ One("B")
      \/ Two("D", "A") \/ Two("A", "B") \/ Three("D", "A", "B")
  BY DEF Ended, Reported, Prompting, Prompted
<1>2. /\ Len(Tail(out)) = Len(out) - 1
      /\ Tail(out) # <<>> => Len(out) > 1 /\ Tail(out)[1] = out[2]
  OBVIOUS
<1> QED BY <1>1, <1>2 DEF One, Two, Three

(* What the queue knows of the last exit code, after a marker that says    *)
(* nothing.                                                                *)
LEMMA CodeKnown ==
  ASSUME NEW q \in Queue(Command), NEW marker \in Marker, QueueEvent(q, marker) = "None"
  PROVE  QueueAfter(q, marker).last_exit_code =
           IF marker.m = "D" THEN marker.code ELSE q.last_exit_code
<1>1. CASE marker.m = "D"
  BY <1>1 DEF QueueAfter, Queue
<1>2. CASE marker.m = "A"
  BY <1>2 DEF QueueAfter, Queue
<1>3. CASE marker.m \notin {"D", "A"}
  <2>1. ~(marker.m = "B" /\ q.awaiting_ready)
    BY DEF QueueEvent
  <2> QED BY <1>3, <2>1 DEF QueueAfter, Queue
<1> QED BY <1>1, <1>2, <1>3

(* The queue hands over its first command.                                 *)
LEMMA LeftByOne ==
  ASSUME Left(Len(ran)), batch' = batch, ran' = ran, Len(ran) \in Nat, Len(batch) \in Nat,
         queue.commands \in Seq(Command), queue.commands # <<>>,
         queue'.commands = Tail(queue.commands)
  PROVE  Left(Len(ran) + 1)'
<1>1. /\ Len(queue'.commands) = Len(queue.commands) - 1
      /\ \A i \in 1..Len(queue'.commands) : queue'.commands[i] = queue.commands[i + 1]
  OBVIOUS
<1>2. Len(queue'.commands) = Len(batch') - (Len(ran') + 1)
  BY <1>1 DEF Left
<1>3. \A i \in 1..Len(queue'.commands) : queue'.commands[i] = batch'[(Len(ran') + 1) + i]
  <2> SUFFICES ASSUME NEW i \in 1..Len(queue'.commands)
               PROVE  queue'.commands[i] = batch'[(Len(ran') + 1) + i]
    OBVIOUS
  <2>1. i + 1 \in 1..Len(queue.commands) /\ queue'.commands[i] = queue.commands[i + 1]
    BY <1>1
  <2>2. queue.commands[i + 1] = batch[Len(ran) + (i + 1)]
    BY <2>1 DEF Left
  <2>3. Len(ran) + (i + 1) = (Len(ran) + 1) + i
    BY <2>1
  <2> QED BY <2>1, <2>2, <2>3
<1> QED BY <1>2, <1>3 DEF Left

-----------------------------------------------------------------------------
LEMMA InitRefines == Init => RefinementInv /\ Abstract!Init
BY InitOrder, EmptyQueueFacts
   DEF Init, RefinementInv, Waiting, WrittenMayEnd, InShell, Progress, Abstract!Init

LEMMA ApproveRefines ==
  ASSUME Disciplined, RefinementInv, OrderInv', NEW b \in Batches, Approve(b)
  PROVE  RefinementInv' /\ Abstract!Next
<1> DEFINE q == Enqueue(queue, b)
<1>1. /\ shell.phase = "prompt" /\ tty = <<>> /\ out = <<>>
      /\ UNCHANGED <<shell, out>> /\ batch' = b /\ ran' = <<>> /\ Len(ran') = 0
      /\ ~queue.executing /\ queue.commands = <<>> /\ status # "running"
  <2>1. /\ shell.phase = "prompt" /\ tty = <<>> /\ out = <<>>
        /\ UNCHANGED <<shell, out>> /\ batch' = b /\ ran' = <<>>
    BY DEF Approve, Disciplined, AtPrompt
  <2>2. ~Cycle
    BY <2>1 DEF Cycle, Written, Running, Reported, Prompting, Prompted, One, Two, Three
  <2> QED BY <2>1, <2>2, Types DEF RefinementInv, OrderInv
<1>2. b \in Seq(Command) /\ b # <<>> /\ Len(b) \in Nat \ {0} /\ b[1] \in Command
  BY BatchTypes
<1>3. q \in Queue(Command) /\ q.commands = b
  <2>1. q \in Queue(Command) /\ q.commands = queue.commands \o b
    BY <1>2, EnqueueFacts, Types
  <2> QED BY <1>1, <1>2, <2>1
<1>4. PopImmediate(q).commands = Tail(b) /\ Head(q.commands) = b[1]
  <2>1. PopImmediate(q).commands = Tail(q.commands)
    BY <1>2, <1>3, PopImmediateFacts
  <2> QED BY <1>2, <1>3, <2>1
<1>5. CASE /\ queue' = PopImmediate(q) /\ tty' = tty \o Text(Head(q.commands))
           /\ status' = "running"
  <2>1. MayEnd(b[1])'
    BY <1>1, <1>2, <1>5 DEF MayEnd
  <2>2. Handed' /\ WrittenMayEnd'
    BY <1>1, <1>2, <1>4, <1>5, <2>1, WriteNext
  <2>3. Left(Len(ran) + 1)'
    BY <1>1, <1>2, <1>4, <1>5 DEF Left
  <2>4. Abstract!Submit
    BY <1>1, <1>2, <1>5 DEF Abstract!Submit
  <2>5. queue'.executing
    BY <1>2, <1>3, <1>5, Types, EnqueueFacts, PopImmediateFacts
  <2> QED BY <1>5, <2>2, <2>3, <2>4, <2>5 DEF RefinementInv, Progress, Abstract!Next
<1>6. CASE queue' = Clear(q) /\ status' = "stopped" /\ UNCHANGED tty
  <2>1. WrittenMayEnd'
    BY <1>1, <1>6, NothingMayEnd
  <2>2. Abstract!Refuse
    BY <1>1, <1>2, <1>6 DEF Abstract!Refuse
  <2>3. ~queue'.executing
    BY <1>6, EmptyQueueFacts DEF Clear
  <2> QED BY <1>6, <2>1, <2>2, <2>3 DEF RefinementInv, Progress, Abstract!Next
<1> QED BY <1>5, <1>6 DEF Approve, Write

LEMMA CtrlCRefines ==
  ASSUME RefinementInv, OrderInv', CtrlC
  PROVE  RefinementInv' /\ Abstract!Next
<1>1. /\ ~queue'.executing /\ status = "running" /\ status' = "aborted"
      /\ UNCHANGED <<shell, batch, ran>>
  BY Types, EmptyQueueFacts DEF CtrlC, RefinementInv, histVars, Clear
<1>2. \A c : MayEnd(c) => MayEnd(c)'
  BY <1>1 DEF MayEnd
<1>3. \A i \in Waiting' : i \in Waiting /\ tty'[i] = tty[i]
  <2>1. CASE shell.phase = "running"
    <3>1. tty' = <<Blank>>
      BY <2>1 DEF CtrlC
    <3> QED BY <3>1 DEF Waiting, Blank
  <2>2. CASE shell.phase # "running"
    <3>1. tty' = tty \o <<Blank, Blank>> /\ tty \in Seq(Line)
      BY <2>2, Types DEF CtrlC
    <3>2. \A i \in 1..Len(tty') : tty'[i].kind = "last" => i \in 1..Len(tty) /\ tty'[i] = tty[i]
      BY <3>1 DEF Blank
    <3> QED BY <3>2 DEF Waiting
  <2> QED BY <2>1, <2>2
<1>4. WrittenMayEnd'
  BY <1>1, <1>2, <1>3 DEF RefinementInv, WrittenMayEnd, InShell
<1>5. Abstract!Abort
  BY <1>1 DEF Abstract!Abort
<1> QED BY <1>1, <1>4, <1>5 DEF RefinementInv, Progress, Abstract!Next

LEMMA OnMarkerRefines ==
  ASSUME Disciplined, RefinementInv, OrderInv', OnMarker
  PROVE  RefinementInv' /\ [Abstract!Next]_(Abstract!vars)
<1> DEFINE marker == Head(out)
           event  == QueueEvent(queue, marker)
           after  == QueueAfter(queue, marker)
<1>1. /\ out # <<>> /\ out' = Tail(out) /\ marker = out[1] /\ marker \in Marker
      /\ UNCHANGED <<shell, batch, ran>> /\ queue \in Queue(Command)
  BY Types DEF OnMarker, histVars
<1>2. /\ event = "None" => after.commands = queue.commands
      /\ event # "None" => queue.executing
  BY <1>1, Types, QueueEventFacts
<1>3. CASE event = "None"
  <2>1. UNCHANGED <<mode, tty, status>> /\ queue' = after
    BY <1>3 DEF OnMarker
  <2>2. WrittenMayEnd'
    BY <1>1, <2>1 DEF RefinementInv, WrittenMayEnd, MayEnd, Waiting, InShell
  <2>3. queue'.executing = queue.executing
    BY <1>1, <1>3, <2>1, Types, QueueEventFacts
  <2>4. ASSUME queue.executing
        PROVE  Ended' /\ Left(Len(ran))' /\ LastEnded'
    <3>1. Ended /\ Left(Len(ran)) /\ LastEnded
      BY <1>1, <2>4 DEF RefinementInv, Progress, Handed, Written, Running
    <3>2. Ended'
      <4>1. ~Written /\ ~Running
        BY <1>1 DEF Written, Running
      <4>2. Cycle'
        BY <2>1, <2>4, <2>3 DEF OrderInv
      <4>3. Ended => /\ ~Written'
                     /\ ~Running'
        BY <1>1, <2>1 DEF Ended, Reported, Prompting, Prompted, Written, Running
      <4> QED BY <3>1, <4>2, <4>3 DEF Cycle, Ended
    <3>3. Left(Len(ran))'
      BY <1>1, <1>2, <1>3, <2>1, <3>1 DEF Left
    <3>4. queue'.last_exit_code = IF marker.m = "D" THEN marker.code ELSE queue.last_exit_code
      BY <1>1, <1>3, <2>1, CodeKnown
    <3>5. out' # <<>> => out'[1].m # "D"
      BY <1>1, <3>1, MarkersOfEnded, Types
    <3>6. LastEnded'
      BY <1>1, <3>1, <3>4, <3>5 DEF LastEnded
    <3> QED BY <3>2, <3>3, <3>6
  <2>5. UNCHANGED Abstract!vars
    BY <1>1, <2>1 DEF Abstract!vars
  <2> QED BY <2>1, <2>2, <2>3, <2>4, <2>5 DEF RefinementInv, Progress
<1>4. CASE event # "None"
  <2>1. /\ queue.executing /\ status = "running" /\ marker.m = "B"
        /\ Len(ran) \in Nat /\ Len(batch) \in Nat /\ queue.commands \in Seq(Command)
    BY <1>2, <1>4, Types DEF RefinementInv, QueueEvent
  <2>2. Ended /\ Left(Len(ran)) /\ LastEnded
    BY <1>1, <2>1 DEF RefinementInv, Progress, Handed, Written, Running
  <2>3. shell.phase = "prompt" /\ tty = <<>> /\ Len(out) = 1
    <3>1. ~Reported /\ ~Prompting
      BY <1>1, <2>1 DEF Reported, Prompting, One, Two
    <3> QED BY <1>1, <2>1, <2>2, <3>1 DEF Ended, Prompted, One, Two, Three
  <2>4. out' = <<>>
    <3>1. out \in Seq(Marker) /\ out' = Tail(out)
      BY <1>1, Types
    <3>2. out' \in Seq(Marker) /\ Len(out') = 0
      BY <2>3, <3>1
    <3> QED BY <3>2
  <2>5. /\ 0 < Len(ran) /\ queue.last_exit_code = ran[Len(ran)].code
        /\ ran[Len(ran)].code \in Nat
        /\ \A i \in 1..(Len(ran) - 1) : ran[i].code = 0
    <3>1. ran[Len(ran)].code = queue.last_exit_code /\ 0 < Len(ran)
      BY <1>1, <2>1, <2>2 DEF LastEnded
    <3>2. ran \in Seq([cmd : Command, code : Exits]) /\ Len(ran) \in 1..Len(ran)
      BY <2>1, <3>1, Types
    <3>3. ran[Len(ran)] \in [cmd : Command, code : Exits]
      BY <3>2, ElementOfSeq
    <3> QED BY <2>2, <3>1, <3>3, DispatchAssumption DEF LastEnded
  <2>6. CASE event = "Dispatch"
    <3>1. queue.commands # <<>> /\ ~LastFailed(queue)
      BY <2>6 DEF QueueEvent
    <3>2. PICK c \in Command : c = Head(queue.commands)
      BY <2>1, <3>1
    <3>3. after.commands = Tail(queue.commands)
      BY <1>1, <2>6, <3>1, Types, QueueEventFacts
    <3>4. \A i \in 1..Len(ran) : ran[i].code = 0
      <4>1. ran[Len(ran)].code = 0
        BY <2>5, <3>1 DEF LastFailed, NoCode
      <4> QED BY <2>1, <2>5, <4>1
    <3>5. /\ Len(queue.commands) >= 1 /\ Len(queue.commands) = Len(batch) - Len(ran)
          /\ c = batch[Len(ran) + 1]
      BY <2>1, <2>2, <3>1, <3>2 DEF Left
    <3>6. CASE /\ queue' = after /\ tty' = tty \o Text(c)
               /\ UNCHANGED <<mode, status>>
      <4>1. MayEnd(c)'
        BY <1>1, <2>1, <3>4, <3>5, <3>6 DEF MayEnd
      <4>2. Handed' /\ WrittenMayEnd'
        BY <1>1, <2>3, <2>4, <3>6, <4>1, WriteNext
      <4>3. Left(Len(ran) + 1)'
        <5> HIDE DEF after
        <5>1. queue'.commands = Tail(queue.commands)
          BY <3>3, <3>6
        <5>2. Left(Len(ran)) /\ batch' = batch /\ ran' = ran /\ Len(ran) \in Nat
              /\ Len(batch) \in Nat
          BY <1>1, <2>1, <2>2
        <5>3. queue.commands \in Seq(Command) /\ queue.commands # <<>>
          BY <2>1, <3>1
        <5> QED BY <5>1, <5>2, <5>3, LeftByOne
      <4>4. UNCHANGED Abstract!vars
        BY <1>1, <3>6 DEF Abstract!vars
      <4>5. queue'.executing
        BY <1>1, <2>6, <3>6, Types, QueueEventFacts
      <4> QED BY <2>1, <3>6, <4>2, <4>3, <4>4, <4>5 DEF RefinementInv, Progress
    <3>7. CASE queue' = Clear(after) /\ status' = "stopped" /\ UNCHANGED tty
      <4>1. WrittenMayEnd'
        BY <1>1, <2>3, <3>7, NothingMayEnd
      <4>2. Abstract!Stop
        BY <1>1, <2>1, <3>7 DEF Abstract!Stop
      <4>3. ~queue'.executing
        BY <3>7, EmptyQueueFacts DEF Clear
      <4> QED BY <3>7, <4>1, <4>2, <4>3 DEF RefinementInv, Progress, Abstract!Next
    <3> QED BY <2>6, <3>2, <3>6, <3>7 DEF OnMarker, Write
  <2>7. CASE event = "AllDone"
    <3>1. /\ queue.commands = <<>> /\ status' = "done" /\ UNCHANGED tty
          /\ ~queue'.executing
      <4>1. ~after.executing
        BY <1>1, <2>7, Types, QueueEventFacts
      <4> QED BY <2>7, <4>1 DEF OnMarker, QueueEvent
    <3>2. WrittenMayEnd'
      BY <1>1, <2>3, <3>1, NothingMayEnd
    <3>3. Len(ran) = Len(batch)
      BY <2>1, <2>2, <3>1 DEF Left
    <3>4. Abstract!Done
      BY <1>1, <2>1, <3>1, <3>3 DEF Abstract!Done
    <3> QED BY <3>1, <3>2, <3>4 DEF RefinementInv, Progress, Abstract!Next
  <2>8. CASE event = "Failed"
    <3>1. /\ queue.commands # <<>> /\ LastFailed(queue)
          /\ ~queue'.executing /\ status' = "failed" /\ tty' = tty \o <<Blank>>
      <4>1. after = EmptyQueue
        BY <1>1, <2>8, Types, QueueEventFacts
      <4> QED BY <2>8, <4>1, EmptyQueueFacts DEF OnMarker, QueueEvent, Write
    <3>2. WrittenMayEnd'
      <4>1. tty' = <<Blank>>
        BY <2>3, <3>1
      <4> QED BY <1>1, <2>3, <4>1, NothingMayEnd
    <3>3. Len(ran) < Len(batch) /\ ran[Len(ran)].code # 0
      BY <2>1, <2>2, <2>5, <3>1 DEF Left, LastFailed
    <3>4. Abstract!Failed
      BY <1>1, <2>1, <2>5, <3>1, <3>3 DEF Abstract!Failed
    <3> QED BY <3>1, <3>2, <3>4 DEF RefinementInv, Progress, Abstract!Next
  <2> QED BY <1>1, <1>4, <2>6, <2>7, <2>8, Types, QueueEventFacts
<1> QED BY <1>3, <1>4

-----------------------------------------------------------------------------
(* The shell.                                                              *)

(* A step that takes the first line of the terminal.                       *)
LEMMA TakeLine ==
  ASSUME RefinementInv, tty # <<>>, tty' = Tail(tty), UNCHANGED <<batch, ran, status>>
  PROVE  (\A i \in Waiting : MayEnd(tty[i].cmd))'
<1>1. /\ Len(tty) \in Nat /\ Len(tty') = Len(tty) - 1
      /\ \A i \in 1..Len(tty') : tty'[i] = tty[i + 1]
  BY Types
<1>2. \A i \in Waiting' : i + 1 \in Waiting /\ tty'[i] = tty[i + 1]
  BY <1>1 DEF Waiting
<1>3. \A c : MayEnd(c) => MayEnd(c)'
  BY DEF MayEnd
<1> QED BY <1>2, <1>3 DEF RefinementInv, WrittenMayEnd

LEMMA ReadLineRefines ==
  ASSUME RefinementInv, OrderInv', Disciplined, ReadLine
  PROVE  RefinementInv' /\ UNCHANGED Abstract!vars
<1>1. /\ shell.phase = "prompt" /\ tty # <<>> /\ tty' = Tail(tty)
      /\ shell' = [phase |-> "running", line |-> tty[1]]
      /\ UNCHANGED <<mode, queue, out, batch, ran, status>>
  BY Types DEF ReadLine, Disciplined, histVars
<1>2. WrittenMayEnd'
  <2>1. InShell' => 1 \in Waiting /\ shell'.line.cmd = tty[1].cmd
    BY <1>1, Types DEF InShell, Waiting
  <2>2. \A c : MayEnd(c) => MayEnd(c)'
    BY <1>1 DEF MayEnd
  <2>3. (InShell => MayEnd(shell.line.cmd))'
    BY <2>1, <2>2 DEF RefinementInv, WrittenMayEnd
  <2>4. (\A i \in Waiting : MayEnd(tty[i].cmd))'
    BY <1>1, TakeLine
  <2> QED BY <2>3, <2>4 DEF WrittenMayEnd
<1>3. queue.executing => Handed' /\ Left(Len(ran) + 1)'
  <2> SUFFICES ASSUME queue.executing
               PROVE  Handed' /\ Left(Len(ran) + 1)'
    OBVIOUS
  <2>1. Written /\ Left(Len(ran) + 1)
    BY <1>1 DEF RefinementInv, Progress, Handed, Running, Ended, Reported, Prompting, Prompted
  <2>2. tty' = <<>>
    BY <1>1, <2>1, Types DEF Written
  <2>3. Running' /\ InShell'
    BY <1>1, <2>1, <2>2 DEF Written, Running, InShell
  <2> QED BY <1>1, <2>1, <2>3 DEF Handed, Left
<1> QED BY <1>1, <1>2, <1>3 DEF RefinementInv, Progress, Abstract!vars

LEMMA CommandReadsKeyRefines ==
  ASSUME RefinementInv, OrderInv', CommandReadsKey
  PROVE  RefinementInv' /\ UNCHANGED Abstract!vars
<1>1. /\ shell.phase = "running" /\ tty # <<>> /\ tty' = Tail(tty)
      /\ UNCHANGED <<mode, queue, shell, out, batch, ran, status>>
  BY DEF CommandReadsKey, histVars
<1>2. WrittenMayEnd'
  <2>1. (\A i \in Waiting : MayEnd(tty[i].cmd))'
    BY <1>1, TakeLine
  <2>2. (InShell => MayEnd(shell.line.cmd))'
    BY <1>1 DEF RefinementInv, WrittenMayEnd, MayEnd, InShell
  <2> QED BY <2>1, <2>2 DEF WrittenMayEnd
<1>3. ~queue.executing
  BY <1>1 DEF RefinementInv, OrderInv, Cycle, Written, Running, Reported, Prompting, Prompted
<1> QED BY <1>1, <1>2, <1>3 DEF RefinementInv, Progress, Abstract!vars

(* A step at the end of which the shell does not run a line, and nothing   *)
(* else is known to end.                                                   *)
LEMMA FinishLineRefines ==
  ASSUME RefinementInv, OrderInv', NEW code \in Exits, FinishLine(code)
  PROVE  RefinementInv' /\ [Abstract!Next]_(Abstract!vars)
<1>1. /\ shell.phase = "running" /\ shell'.phase = "done"
      /\ out' = Append(out, MarkD(code))
      /\ UNCHANGED <<mode, queue, tty, batch>>
  BY Types DEF FinishLine, Emit, Shell
<1>2. CASE shell.line.kind = "last"
  <2>1. InShell /\ MayEnd(shell.line.cmd) /\ Waiting = {}
    BY <1>1, <1>2 DEF InShell, RefinementInv, WrittenMayEnd, OrderInv, OneAtATime
  <2>2. /\ ran' = Append(ran, [cmd |-> shell.line.cmd, code |-> code])
        /\ status' = IF status = "aborted" THEN "stopped" ELSE status
    BY <1>2 DEF FinishLine
  <2>3. /\ Len(ran) \in Nat /\ Len(ran') = Len(ran) + 1
        /\ \A i \in 1..Len(ran) : ran'[i] = ran[i]
        /\ ran'[Len(ran')].code = code
    BY <2>2, Types, AppendProperties
  <2>4. Abstract!Finish(code)
    BY <1>1, <2>1, <2>2 DEF MayEnd, Abstract!Finish, Abstract!AllSucceeded
  <2>5. WrittenMayEnd'
    BY <1>1, <2>1 DEF WrittenMayEnd, Waiting, InShell
  <2>6. status' = "running" <=> queue'.executing
    BY <1>1, <2>2 DEF RefinementInv
  <2>7. queue.executing => Ended' /\ Left(Len(ran))' /\ LastEnded'
    <3> SUFFICES ASSUME queue.executing
                 PROVE  Ended' /\ Left(Len(ran))' /\ LastEnded'
      OBVIOUS
    <3>1. Running /\ Left(Len(ran) + 1)
      BY <1>1 DEF RefinementInv, Progress, Handed, Written, Ended, Reported, Prompting, Prompted
    <3>2. Ended'
      BY <1>1 DEF OrderInv, Cycle, Written, Running, Ended
    <3>3. Left(Len(ran))'
      BY <1>1, <2>3, <3>1 DEF Left
    <3>4. out' # <<>> /\ out'[1].m = "D" /\ out'[1].code = code
      BY <1>1, <3>1 DEF Running, MarkD
    <3>5. LastEnded'
      BY <2>1, <2>3, <3>4 DEF LastEnded, MayEnd
    <3> QED BY <3>2, <3>3, <3>5
  <2> QED BY <1>1, <2>4, <2>5, <2>6, <2>7 DEF RefinementInv, Progress, Abstract!Next
<1>3. CASE shell.line.kind # "last"
  <2>1. UNCHANGED <<ran, status>>
    BY <1>3 DEF FinishLine
  <2>2. WrittenMayEnd'
    BY <1>1, <2>1 DEF RefinementInv, WrittenMayEnd, MayEnd, Waiting, InShell
  <2>3. ~queue.executing
    BY <1>1, <1>3
       DEF RefinementInv, Progress, Handed, Written, InShell, Ended, Reported, Prompting, Prompted
  <2>4. UNCHANGED Abstract!vars
    BY <1>1, <2>1 DEF Abstract!vars
  <2> QED BY <1>1, <2>1, <2>2, <2>3, <2>4 DEF RefinementInv, Progress
<1> QED BY <1>2, <1>3

(* The shell prints a marker that is no D.                                 *)
LEMMA PrintRefines ==
  ASSUME RefinementInv, OrderInv', NEW marker, marker.m # "D",
         out' = Append(out, marker), UNCHANGED <<mode, queue, tty, batch, ran, status>>,
         shell.phase \in {"done", "started"}, shell'.phase \in {"started", "prompt"}
  PROVE  RefinementInv' /\ UNCHANGED Abstract!vars
<1>1. WrittenMayEnd'
  BY DEF RefinementInv, WrittenMayEnd, MayEnd, Waiting, InShell
<1>2. queue.executing => Ended' /\ Left(Len(ran))' /\ LastEnded'
  <2> SUFFICES ASSUME queue.executing
               PROVE  Ended' /\ Left(Len(ran))' /\ LastEnded'
    OBVIOUS
  <2>1. Ended /\ Left(Len(ran)) /\ LastEnded
    BY DEF RefinementInv, Progress, Handed, Written, Running
  <2>2. tty = <<>>
    BY <2>1 DEF Ended, Reported, Prompting, Prompted
  <2>3. Ended'
    BY <2>2 DEF OrderInv, Cycle, Written, Running, Ended
  <2>4. CASE out = <<>>
    <3>1. out' # <<>> /\ out'[1].m # "D"
      BY <2>4
    <3> QED BY <2>1, <2>3, <2>4, <3>1 DEF Left, LastEnded
  <2>5. CASE out # <<>>
    <3>1. out' # <<>> /\ out'[1] = out[1]
      BY <2>5, Types
    <3> QED BY <2>1, <2>3, <2>5, <3>1 DEF Left, LastEnded
  <2> QED BY <2>4, <2>5
<1> QED BY <1>1, <1>2 DEF RefinementInv, Progress, Abstract!vars

-----------------------------------------------------------------------------
LEMMA StepRefines ==
  ASSUME Disciplined, RefinementInv, [Next]_vars
  PROVE  RefinementInv' /\ [Abstract!Next]_(Abstract!vars)
<1>0. OrderInv'
  BY NextOrder DEF RefinementInv
<1>1. CASE \E b \in Batches : Approve(b)
  BY <1>0, <1>1, ApproveRefines
<1>2. CASE CtrlC
  BY <1>0, <1>2, CtrlCRefines
<1>3. CASE ForwardKeys
  BY <1>3 DEF ForwardKeys, Disciplined, RefinementInv, OrderInv, Inv, TypeOK
<1>4. CASE OnMarker
  BY <1>0, <1>4, OnMarkerRefines
<1>5. CASE ReadLine
  BY <1>0, <1>5, ReadLineRefines
<1>6. CASE CommandReadsKey
  BY <1>0, <1>6, CommandReadsKeyRefines
<1>7. CASE \E code \in Exits : FinishLine(code)
  BY <1>0, <1>7, FinishLineRefines
<1>8. CASE StartPrompt
  <2>1. /\ shell.phase = "done" /\ shell'.phase = "started" /\ out' = Append(out, MarkA)
        /\ UNCHANGED <<mode, queue, tty, batch, ran, status>> /\ MarkA.m # "D"
    BY <1>8, Types DEF StartPrompt, Emit, Shell, MarkA, histVars
  <2> QED BY <1>0, <2>1, PrintRefines
<1>9. CASE EndPrompt
  <2>1. /\ shell.phase = "started" /\ shell'.phase = "prompt" /\ out' = Append(out, MarkB)
        /\ UNCHANGED <<mode, queue, tty, batch, ran, status>> /\ MarkB.m # "D"
    BY <1>9 DEF EndPrompt, Emit, Disciplined, MarkB, histVars
  <2> QED BY <1>0, <2>1, PrintRefines
<1>10. CASE StaleEnd \/ UNCHANGED vars
  <2>1. UNCHANGED <<queue, tty, shell, out, batch, ran, status>>
    BY <1>10 DEF StaleEnd, histVars, vars
  <2>2. WrittenMayEnd'
    BY <2>1 DEF RefinementInv, WrittenMayEnd, MayEnd, Waiting, InShell
  <2>3. Progress'
    BY <2>1
       DEF RefinementInv, Progress, Handed, Left, InShell, Ended, LastEnded, Written, Running,
           Reported, Prompting, Prompted, One, Two, Three
  <2>4. UNCHANGED Abstract!vars
    BY <2>1 DEF Abstract!vars
  <2> QED BY <1>0, <2>1, <2>2, <2>3, <2>4 DEF RefinementInv
<1> QED
  BY <1>1, <1>2, <1>3, <1>4, <1>5, <1>6, <1>7, <1>8, <1>9, <1>10
     DEF Next, ReplStep, ShellStep

(* The batch the user let run is run as BatchRun promises: in order, one at*)
(* a time, stopping at the first failure, reported when it has ended.      *)
THEOREM DispatchImplementsBatchRun ==
  ASSUME Disciplined
  PROVE  Spec => Implements
<1>1. Init => RefinementInv /\ Abstract!Init
  BY InitRefines
<1>2. RefinementInv /\ [Next]_vars => RefinementInv' /\ [Abstract!Next]_(Abstract!vars)
  BY StepRefines
<1> QED BY <1>1, <1>2, PTL DEF Spec, Implements, Abstract!Spec
=============================================================================
