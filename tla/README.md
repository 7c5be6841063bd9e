# unixgent in TLA+

unixagent puts an LLM agent into the user's own shell. A REPL runs the shell
behind a PTY, watches for lines that start with `#`, sends them to a backend,
and runs the commands the backend proposes, after the user has approved them,
by typing them into the same shell. Given an instruction on the command line it
runs as an agent in batch mode instead, without a terminal, and an agent may
start agents below it. This directory holds a specification of that program:
TLA+ modules translated from the Rust sources, TLC configurations that check
them on small instances, and proofs of their main theorems checked by TLAPS.

Paths below are relative to the root of the repository; `repl.rs` and the other
bare names are files of `crates/ua-core/src/`, but `anthropic.rs` and `sse.rs`
of `crates/ua-backend/src/`, and `landlock.rs`, `seatbelt.rs` and `lib.rs` of
`crates/ua-sandbox/src/`.

## 1. Inventory

| Component | State | Operations | Interacts with |
|---|---|---|---|
| Command queue (`repl.rs:127-240`) | commands waiting, `awaiting_ready`, `executing`, `last_exit_code` | `enqueue`, `pop_immediate`, `handle_osc_event`, `clear` | fed with OSC 133 markers by the event loop, answers Dispatch / AllDone / Failed |
| Dispatch: queue, PTY, shell (`repl.rs`, `pty.rs`, `shell_scripts.rs`) | lines in the terminal, what the shell is doing, markers on their way back | approve, Control-C, forward keys, process a marker; the shell reads a line, ends a command, prints a prompt | writes to the PTY, reads markers from it |
| Event loop (`repl.rs:408-1550`) | `AgentState`, pending instruction and user command, line buffer, held-back output, counters, cached conversation | one handler per `Event` and state | one mpsc channel fed by the stdin thread, the PTY thread, streaming tasks, judge tasks, spinners, the child poll |
| Approval gate (`classify_and_gate`, `audit.rs`) | audit log | classify, block, auto-approve, judge, ask | called by the event loop and by the batch loop |
| Policy (`policy.rs`) | none | cut a line into segments, classify each, take the maximum | gate |
| Security judge (`judge.rs`, `start_judging`) | the running request | evaluate, parse the reply, cancel | posts `JudgeResult`; called by the batch loop |
| Journal and conversation (`journal.rs`, `context.rs`) | the append-only session file | append, read, rebuild a conversation within a budget, build a request | written by the event loop and the batch loop |
| Batch mode (`batch.rs`) | conversation, iteration, denials in a row, totals | the agent loop without a terminal | backend, gate, judge, journal |
| Backend client (`anthropic.rs`, `sse.rs`) | attempts, byte buffer, parser, tool use being assembled | request with retry, assemble events | produces the stream events |
| Rendering (`display.rs`, `renderer.rs`) | accumulator of a stream, `spinner_active`, the terminal's line | one method per thing shown | called by the event loop only |
| OSC parser (`osc.rs`) | parser state, `terminal_state` | feed bytes | event loop |
| Output history, user command capture (`context.rs`, `repl.rs:1312-1372`) | lines, current line, escape state; a capture | feed, lines, record | event loop, journal |
| Agent tree (`agents.rs`, `process.rs`) | known children | depth limit, list of descendants, reports | reads the process table and the journals of children |
| Sandbox (`ua-sandbox`, `main.rs`) | what a process may still access | make a policy of the configuration, apply it, `--sandbox-exec` | start-up, everything the process opens afterwards |
| Configuration and start-up (`config.rs`, `main.rs`) | none that changes | which loop runs, API key, mode of the judge | all |
| Wire types, attachments, mock backend | none that outlives a call | parsing, encoding | requests |

What makes it hard. Everything meets in one channel, in which events of tasks
that were cancelled long ago stand next to those of the task the user is
looking at, and no event says whom it is from. The queue never sees commands
end, only prompts come and go, and must infer one from the other, while the
user types into the same terminal. Output must be held back while the user
decides, and there are many ways out of a decision. The conversation is kept
twice, in the journal and in memory. Bytes arrive cut anywhere, from the network
and from the shell, and every parser keeps state across the cuts. The spinner,
the answer, the shell and the reports of agents write to one line of one
terminal, each erasing what it takes for its own. And agents walk a process
tree that changes under them, from inside a sandbox. `PROJECT.json` lists these
hazards with their lines, and the properties that would catch them going wrong.

What makes the parts correct:

- **Queue and dispatch**: commands are written one at a time, in order, none
  after a failure; AllDone and Failed are said only when nothing is left; every
  batch is over at some time, and no queue executes without something to wait
  for.
- **Event loop and gate**: nothing is written without an approval that covers
  its risk; what was refused stays refused; no handler loses or reorders output or
  draws it over the prompt; the cached conversation is the journal's; neither the
  backend nor the judge is waited for for ever while its task is alive.
- **Policy**: a line is as risky as the riskiest thing in it; joining commands
  does not make them look safer.
- **Journal**: the conversation alternates between user and assistant, answers
  every tool call and keeps the instruction, within the budget.
- **Batch**: only what the gate let through runs; denials are counted in a row;
  every call is answered; a run that returns leaves one summary that is true.
- **Backend**: a response is delivered once and ends once, however the packets
  are cut and whatever is retried.
- **Rendering**: the text of the answer stays on the screen; an error is told
  from an answer; what is decided on is what is shown.
- **Terminal**: the parser's state is that of the last marker; the history is
  the end of the output; the user's commands are recorded with their own exit
  codes.
- **Agents**: no agent beyond the depth limit, none told to delegate and then
  refused, every child reported once.
- **Sandbox**: it only takes access away, and what it leaves is what the
  configuration says.

## 2. Modules

| Module | What it is |
|---|---|
| `CommandQueue` | the struct and its methods as a value and operators |
| `BatchRun` | what a batch promises: an abstract specification |
| `Dispatch` | queue + REPL mode + terminal + shell; implements `BatchRun` |
| `Repl` | the event loop with its channel, threads and tasks |
| `Conversation` | journal entries, messages, merging, budget, request: a value and operators |
| `Session` | the order in which both agent loops write the journal and keep the conversation; abstract for `Batch` |
| `Selection` | filtering and joining of sequences, as recursive functions that can be proved about: operators |
| `Policy` | the classification of a command line: operators |
| `Settings` | the command line, the configuration and what is launched: operators |
| `Batch` | the agent loop without a terminal; EXTENDS `Conversation`, `Policy`, `Settings`, implements `Session` |
| `Backend` | one request of the client, from the first POST to the last event |
| `Display` | accumulator, renderer and screen: values and operators |
| `Answer` | `Backend` + `Display` + the event loop from the stream to the decision |
| `Osc`, `OutputHistory` | the two byte parsers: values and operators |
| `Terminal` | both of them, the keys, the user's commands, and the shell |
| `Sandbox` | policies and access: operators |
| `Agents` | the process tree, agents that start in it and the REPL that polls it; EXTENDS `Sandbox` |
| `MCDispatch`, `MCRepl`, `MCSession`, `MCBatch`, `MCAnswer`, `MCTerminal`, `MCAgents` | model values and definitions for TLC |
| `Selection_proofs`, `Dispatch_proofs`, `Repl_proofs`, `Session_proofs`, `Batch_proofs`, `Answer_proofs`, `Terminal_proofs`, `Agents_proofs` | theorems and proofs |

The event loop is seen from four sides, each with the state its questions are
about: `Dispatch` has the shell, the terminal and the order in which prompts
print markers, and reduces the REPL to *Executing or not*. `Repl` has the whole
`AgentState` machine and leaves the shell open: any marker may come at any
time, as any program run in the shell may print one. `Answer` follows one
stream from the bytes of the network to the screen. `Terminal` follows the bytes
of the user and the shell between the agent's turns. A property of the queue in
`Repl` therefore holds with every shell; one that needs a well-behaved shell is
stated in `Dispatch`.

In the modules, an operator called a *mutant of* another is that operator with
a plausible bug. No specification uses them; `PROJECT.json` pairs each with the
property that fails when it takes the other's place.

### CommandQueue

`Queue` is the struct. `QueueEvent` is what `handle_osc_event` returns for a
marker, `QueueAfter` the queue it leaves behind; a `Dispatch` answer has popped
the head. The text after a marker, and 133;C, change nothing.

### Dispatch

One action per operation: `Approve` (enqueue the batch and write its first
command; the write may fail), `CtrlC`, `ForwardKeys` (a line that is typed, and
outside of Executing a Control-C, or the nudge of a turn that ends), `OnMarker`
(one marker processed, with the write of the next command, which may fail), and
`StaleEnd`: the `BackendDone` or `JudgeResult` of a task that was cancelled long
ago puts Idle in the place of Executing (`repl.rs:1052`, 1264), and the queue
goes on behind it. The
shell is `ReadLine`, `CommandReadsKey`, `FinishLine`, `StartPrompt`,
`EndPrompt`: it prints D and A before its prompt, and B after it (bash, zsh) or
when a line has been entered (fish) as the integration scripts do. The terminal
holds at most `Capacity` unprocessed markers before the shell blocks. Control-C
drops the input a running command has not read; at the prompt it is an empty
line. A multi-line command is two lines to the shell.

`batch`, `ran` and `status` are history: they are written and read by no guard.
The refinement mapping to `BatchRun` is the identity on them.

### Repl

One action per branch of the event loop. `agent` is the `AgentState` with the
fields that matter: whose stream or batch it is, the commands, whether tool
uses and typed characters are non-empty, whether the display shows an error,
whether the capture holds a line. `chan` is the channel; `streams` and `judges`
are the tasks, which post into it at their own pace, also after they have been
cancelled (`tokio::select!` polls its branches in any order, and the streaming
task sends `BackendDone` in both cases). A task may also panic and send nothing
more: `StreamPanics` on a `retry-after` that is no duration (`anthropic.rs:184`),
before the first event, and `JudgePanics` on that or on the reply's braces
(`judge.rs:142-144`). Nothing catches either. Where the code does
`std::mem::replace(&mut state, Idle)` before it knows that the pattern matches,
the model loses the state too.

Abstractions: a `Stdin` event is one line or one key; a `PtyOutput` event is one
marker, or text (a chunk with several markers is that many events in a row); a
command is the stream that proposed it, its place in it and its risk; journal
entries carry the turn or the stream they are about. `cache` is the journal
prefix from which the in-memory conversation was made, so that a handler that
forgets to update one of the two shows. `SystemPrompt` entries, from which no
conversation is built, and resizes are left out. Spinner ticks, polls of
children and what is drawn are in `Answer` and `Agents`, captures in `Terminal`:
they touch no variable of `Repl`. A missing API key and a PTY that cannot be
written are choices.

### Conversation and Session

`AddEntry` is one round of `convert_entries_to_messages`, with
`merge_or_push_user`; `Messages` folds it over the entries and puts
"[session continues]" before an assistant message that comes first.
`WalkStopsAt(entries, i)` says at which entry the backward walk of
`build_conversation_from_journal` stops: it is the only such `i`.
`BuildMessages` is the request: of a message with results it keeps the results
only, attachments are a user message at its end, and the cache is marked there.
An entry is its kind, its turn, whether it has text, and the tool calls it makes
or answers; a message is its role and the entries merged into it. Sizes are
constants per kind of entry: a message may be cheaper than its entry (thinking,
and the ten tokens charged for a command), and the rounding of `len / 4` is left
out. So are checkpoints, which no code writes, and media.

`Session` is what `repl.rs` and `batch.rs` have in common. A turn is *Streaming*
until the response is complete and *Acting* from a response with commands to its
results. `Instruct` journals the instruction and rebuilds the conversation;
`Propose` journals the response and pushes the assistant message; `Report`
journals the results, pushes them, gives the conversation up if it has outgrown
the budget, and starts the next stream. A turn ends by `Answer` (nothing to
run), `Block` (a denied command, in the REPL), `Cancel` (Control-C or an error
of the backend) or `GiveUp` (commands refused, interrupted, failed or silent).
With a malformed tool call the results answer fewer calls than the response
made: `Report` takes any part of the calls. `UserCommand` is a command of the
user's own between turns.

### Policy, Settings, Batch

`Policy` cuts a line, a sequence of words, operators and quotes, as the code
does: `Segments` at operators outside of quotes, `Parse` with `env`, `nice` and
the other wrappers taken off (`sudo` is not one: it is what makes a command
privileged), `Classify` the rules in the order in which the code tries them,
`LineRisk` the maximum, after `NetworkToShell`, which looks at neighbouring
segments and the program each of them parses to. Of each table of programs the
model keeps one that stands for those treated alike, and each that several rules
look at.

`Settings!Launch` is what `main` decides from the command line, the attachments
and the depth; `HasApiKey`, `InForce` and `ResolveJudgeMode` are the functions
of `config.rs`.

`Batch` has one action per way through an iteration of `run_batch`: `Start`
(with everything before the loop that may fail), `StreamFails`, `Respond`,
`Deny`, `Pass`, `JudgePanics`, `JudgeBlocks`, `JudgeAllows`, `RunCommand`,
`ReportResults`. `write_summary!` is `Exit`; a slice that is cut in the wrong
place is `Panic`, which writes nothing more. The commands of a response are
those of its calls whose input has one, so that the results of a response with
a malformed call carry the identifiers of the wrong calls, as in the code. The
refinement to `Session` maps `pc` to its phase, and is the stuttering step where
`Batch` decides; without a journal nothing is promised, and the mapping is a
session that never starts.

### Backend, Display, Answer

A body is a sequence of pieces: line ends, carriage returns, field names, parts
of JSON and the two bytes of a character; it arrives in chunks cut between any
two. `Decoded` is `from_utf8_lossy` on one chunk, `ProcessLine` and the feeding
of a chunk are `SseParserState`, `Process` is `SseProcessor::process` with the tool
use that is being assembled. The requests around it: `Posting` with any status,
a retry after a delay that the server gives (one that is negative makes
`Duration::from_secs_f64` panic), at most five of them, and the request of the
judge, which is not streamed.

`Display` is `PlanDisplay` and the methods of `ReplRenderer` as operators on the
line of the cursor and all above it: `\r\x1b[K` erases, `\r\n` ends the line.
Colours, wording and the width of the terminal are left out.

`Answer` has the event loop between them: `HandleChunk`, `HandleDone` (which
shows the end and gates the commands), `HandleVerdict`, `HandleTick`, `Cancel`,
the keys of a decision, output of the shell, and the report of an agent. The
judge's task may end in `JudgePanics` instead of a verdict; what Rust writes of a
panic to stderr is left out. Its
variables add those of `Backend`; the channel is the part of `out` that has not
been taken.

### Osc, OutputHistory, Terminal

`OscFeed` and `HistoryFeed` take one byte, as `OscParser::feed` and
`OutputHistory::feed` (`context.rs:62`) do in their loops; both have a limit where the code has
one. `Terminal` joins them: a chunk of keys (`OnStdin`) or of output
(`OnPtyOutput`, which feeds the open capture before it looks at the markers in
the chunk), with a bash or zsh that echoes, prints C, runs, and prints D, A and
B. The agent's turn is reduced to the lines it writes.

### Sandbox, Agents

`Sandbox` gives a policy its meaning: the set of accesses it leaves for each
path, under Landlock (rules are opened files: none for a path that does not
exist, none for a denied path) and under Seatbelt (names, the last match
counts). `Applied` is what `main` does, `ExecSandboxed` what `--sandbox-exec`
does.

`Agents` has the processes: `Fork`, `ExecTool`, `ExecAgent`, `Dies` are the
kernel's; an agent walks up the tree one process at a time (`CountAncestor`),
then `Refuse` or `RunBatch`, and `Summarise`; the REPL's poll looks at one
process at a time (`StartPoll`, `LookAt`, `EndPoll`). Whatever happens between
two of these steps, the tree has changed when the next one is taken. What a
process sees of the tree is decided by the sandbox it has applied.

## 3. What the runs check

| Run | Question | Instance |
|---|---|---|
| `dispatch` | Are batches run in order, one command at a time, to the first failure? `TypeOK`, `OneAtATime`, `AllDoneIsLast`, and the refinement `Implements` of `BatchRun` | bash/zsh; 2 commands, exits 0 and 1, 2 batches of up to 3 |
| `dispatch_keys` | What is left of it with multi-line commands, typed lines, early approvals, stale ends and a full terminal? `NoBatchStuck`, `BatchEnds` | 2 batches of up to 2, one typed line, 2 markers in the terminal |
| `repl_gate` | Is only what an approval covers queued or written, and what was refused never? Does no handler lose or reorder output, or write it over the prompt? `TypeOK`, `ApprovalGate`, `RefusedStaysRefused`, `ExecutingHasQueue`, `LosslessTerminal`, `PromptUndisturbed` | 2 streams of 2 events, judge on, 2 risks (what is read-only or denied is in `repl_turn`), 3 of 6 keys, 2 output events |
| `repl_turn` | Does a turn of several streams keep the cached conversation equal to the journal, and does waiting for the backend and for the judge end? `CacheCoherent`, `WaitingEnds` | 2 streams of 2 events, text, tool uses and errors, sandbox and judge on, denied, read-only and network commands, either task may panic, 2 keys, 3 output events |
| `session` | Is every request one the backend can accept, and the one the journal gives? `Alternates`, `ResultsAnswerCalls`, `BudgetRespected`, `MemoryIsJournal`, `ResultsFollowResponse`, `TypeOK` | 2 tool calls, up to 6 entries before a turn's last response, entries of 1 and 2 tokens, a budget of 4 |
| `batch` | Does only what was gated run, is it counted and told, are all calls answered, is a line as risky as its parts? `OnlyGatedRuns`, `DenialsCounted`, `SummaryTellsAll`, `RiskCoversRules`, `CombiningKeepsRisk`, `CallsAnswered`, and the refinement `Implements` of `Session` | 3 responses, 30 lines that reach every rule, 3 of them in pairs, malformed calls before and after one, every reply of the judge and every way to start |
| `answer` | Is the text delivered and shown whole, with one end, and is what is decided on what is shown? `StreamIsText`, `OneEnd`, `AnswerOnScreen`, `ScreenTellsEnd`, `ProposalOnScreen`, `Answered` | 5 bodies cut anywhere, all retries, one write of the shell or report of an agent, one typed word |
| `terminal` | Does the parser follow the markers, the history the output and the journal the user's commands? `TypeOK`, `TerminalIsLastMarker`, `HistoryIsTail`, `CommandsRecorded` | 2 inputs, one of 3 outputs with escape sequences, cuts anywhere, 2 lines of history, parameters of 5 bytes |
| `agents` | Is the depth limited, and each agent reported once? `DepthBounded`, `OfferHonoured`, `ReportedOnce` | 4 processes besides the REPL, 2 polls, Seatbelt, a limit of 2 |

Bounds. A queue of three commands has a first, a middle and a last one; a second
batch is what a stale marker of the first can disturb, and no third adds a new
relation, because `clear` and `AllDone` bring the queue back to its first state.
Two streams are one cancelled and one current; a stale event only has to be
distinguished from a current one, and two events in the channel are a stale and
a current one (`repl_stale_chunk` has three: the end of the first, too). Six
entries hold three turns, or a turn of three streams, and a budget of four
tokens cuts them between any two entries, also in the middle of a turn; a
conversation outgrows the budget in its second stream. Three responses are what
a count of three denials in a row needs, with an answer after two of them. The
bodies hold two tool uses, a character of two bytes, an error among text, lines
without their other half, tool input in two parts or not JSON, and thinking
before text; any one write of another hand can come between any two events.
`MaxParam` of 5 is exceeded by one of the outputs and just not by a D with an
exit code, as 256 is; two lines of history are exceeded by a command and its
output. Four processes are the shell of the REPL, an agent, its shell and an
agent below, or siblings, or orphans; two polls are what `known_children` is
compared between. `CHECK_DEADLOCK FALSE` is stated in all of them: once the
user, the shell and the backend have used up their bounded inputs the program
waits for ever, as it should, and a batch run, an agent and an answer end.

`SYMMETRY` is used in `agents` only, over the pids, which are compared for
equality and never ordered; its properties are invariants.

Fairness. `Dispatch!Fairness`: the event loop goes on reading (`rx.recv` in a
loop that no handler blocks), the shell goes on working, and every command ends;
the last is an assumption on the user's commands, and no liveness is claimed for
a command that runs for ever. `Repl!Fairness`: the loop takes every event, and
the tasks of streams and judges come to an end if they do not panic.
`AnswerSpec`: the client goes on (a post is answered or fails, a sleep ends, a body
ends or breaks), and the loop takes the chunk, the end and the verdict that are
there. That requests end is an assumption on the network and the server: the
client sets no time-out, and against a server that keeps a connection open in
silence only Control-C helps. Nothing is assumed of panics, and `WaitingEnds`
and `Answered` except a task that has panicked; nor of the user, of ticks, or of
other output.

### Properties that fail

Three runs check something a comment or a document says and show by a
counterexample that the code does otherwise (`findings` in `PROJECT.json`
quotes the lines):

- `repl_stale_chunk`: a tool call of a cancelled stream is taken for one of the
  next instruction's.
- `session_instruction`: after a blocked turn the next instruction is merged
  into the message of the tool results, and `build_messages` sends the results
  only.
- `agents_sandbox`: with the default sandbox under Landlock an agent can look at
  no process above it; it counts none, and the depth is not limited. The same
  instance passes without Landlock (`agents`).

### Disagreements without a run

They are certain, in one step, or nothing in the repository promises better; a
property would only repeat them.

Commands and the loop:

- A command that holds a newline is two lines to the shell, and the next command
  is written between them (`repl.rs:140`, 1377): `OneAtATime` is claimed for
  single-line commands.
- `main.rs:289` offers fish for full integration. fish prints B when a line is
  entered and none at its prompt (`shell_scripts.rs:98-101`), so that a batch
  waits for ever after the A of its last command: with `BAtPrompt` FALSE
  `BatchEnds` fails with a single batch of one command. It is claimed, and
  checked, for shells that print B at their prompt, bash and zsh.
- A stale `BackendDone` or `JudgeResult` replaces Executing by Idle
  (`repl.rs:1042-1052`, 1255-1264). The queue goes on writing commands behind the
  idle REPL, and the results are not reported to the backend.
- Output that is held back when the shell exits is dropped (`repl.rs:1466-1474`);
  what a stale end finds held back waits for the next output.
  `LosslessTerminal` speaks of what is shown and what is held back together.
- If a task panics, streaming (`anthropic.rs:184`) or judging (`judge.rs:142-144`),
  no `BackendDone` or `JudgeResult` is sent, and the REPL waits until Control-C.
- A line typed during a batch has a prompt cycle of its own, which the queue
  takes for that of a command.
- The `BackendDone` of a cancelled stream ends the stream of the next
  instruction, the twin of `repl_stale_chunk`.
- The tokens of a turn that ended in an error are counted in the footer of the
  next one (`repl.rs:470`, 1054-1068).
- The judge is asked about an empty instruction (`repl.rs:1076`, 1215), although
  `judge.rs:4-6` says that it receives the user's.
- A batch that is refused, interrupted, failed or silent leaves its tool calls
  unanswered in the journal, and a cut to the budget may leave results whose
  calls are gone in the first message: `ResultsAnswerCalls` speaks of the
  messages after the first, and of the one direction that holds.
- If the journal cannot be opened the conversation of the REPL is rebuilt from
  nothing and the instruction is never sent (`repl.rs:1585`).
- `journal.rs:96` says that a `SystemPrompt` entry precedes each call of the
  API; it is written only when the conversation is rebuilt.
- A pasted chunk with a command and an instruction forwards neither to the
  shell; each instruction in it starts a stream.

Batch mode and the backend:

- Attachments are appended as one more user message on every iteration, so that
  such a request does not alternate, and the mark of the cache moves with them;
  `Alternates` is about the conversation.
- The truncation of output (`batch.rs:770`), the braces of the judge's reply
  (`judge.rs:142-144`) and the cut of a summary (`agents.rs:45`) slice at bytes
  or positions that may not fit, and panic. A run that panics writes no Summary.
- A response with a malformed call answers the wrong identifiers.
- A judge that blocks is not counted, so that a run may go on for ever.
- `StreamEvent::Error` is forgotten by the display when text or thinking
  follows; `ScreenTellsEnd` says what is left.
- A `retry-after` that is negative, not finite or too large panics
  (`anthropic.rs:184`). A character cut by the network becomes two U+FFFD.
- `audit.rs:3` says that executed commands are logged; the REPL never does.

The screen and the terminal:

- `renderer.rs:5` speaks of "preventing spinner bleed": output of the shell that
  comes while the spinner is active leaves its line behind, and the next tick
  erases the part of a line the shell had written. A report of an agent erases
  the line of the answer it meets, thinking after text likewise:
  `AnswerOnScreen` excepts both.
- After `e` the prompt of a decision is not shown again. Each stream starts a
  spinner thread that never ends.
- An ESC alone before a marker makes the parser miss it. Output in the same
  chunk as the C marker is not captured; several C in one line of bash restart
  the capture; what is typed ahead is paired with the D of another command:
  `CommandsRecorded` is about a user who waits for the prompt, and about the end
  of the output.

Agents and the sandbox:

- Landlock's rules skip what does not exist (`landlock.rs:37`): on a fresh
  installation the directory of the journals cannot be created. `policy.rs:11`
  of the sandbox says "Default-deny"; under Seatbelt everything not denied can
  be read. Denied paths are not canonicalized (`policy.rs:72`): a denied symlink
  denies its name only.
- `PLAN.md:514` and `lib.rs` say that the parent remains unsandboxed; `main`
  applies the policy to itself (`main.rs:177`). If it cannot be applied `main`
  warns and goes on; `--sandbox-exec` exits.
- A nested agent cannot read `config.toml` under Landlock, and works with the
  defaults; the REPL cannot list processes there, and reports no agent.
- A forked process has the image of unixagent until it executes another; an
  orphan no longer counts the agents that were above it; an agent between two polls is missed; one that ends
  during a decision is never reported as done.
- `agent-{pid}.jsonl` is opened for appending, although `PLAN.md:593` and
  `context.rs:382` call the journal isolated: a pid that is used again continues
  another conversation. Sessions are named by pid XOR time. A line that a crash
  has cut takes the next entry with it.
- A rule of the policy that contains `|` or `;` never matches, since the line is
  cut there first.

## 4. What is proved

`tlapm` checks these for every value of the constants (no bound on streams,
events, keys, batches, responses or bodies).

`CommandQueue`, in `Dispatch_proofs` and `Repl_proofs`, which have a queue each:
what each method returns and preserves. A queue is *coherent* if it waits for a
prompt only while it executes, and holds commands only then; `Clear`, `Enqueue`,
`PopImmediate` and `QueueAfter` preserve that, and each answer of
`handle_osc_event` tells exactly what is left of it.

`Dispatch_proofs`:

- `TypeCorrect` (`TypeOK`), with any shell, any typing, any command.
- `NothingStuck` (`NoBatchStuck`), with any typing, any command and any stale
  end, for shells that print B at their prompt: a queue that executes has
  something to wait for, Executing has a queue that executes, and one that does
  not holds no command. The invariant `AwaitedInv` says what it waits for: a
  line that the shell has not read or not ended, or an A and the B after it, of
  which the queue has taken neither, or the A only. With a shell like fish the
  last B never comes. That an executing queue has the REPL in Executing is not
  true: a stale end may have left it behind an idle one.
- `OneCommandAtATime` and `AllDoneMeansDone` (`OneAtATime`, `AllDoneIsLast`)
  for sessions that are `Disciplined`: B at the prompt, single-line commands,
  no type-ahead, batches approved at a redrawn prompt. Neither is inductive: what
  makes them true is how far the prompt cycle of the last written command has
  come. The invariant `OrderInv` says where it stands: the command is in the
  terminal, or in the shell, or its D, A and B are on their way in this order,
  and `awaiting_ready` is true exactly when A has been processed and B has not.
  It speaks of a queue that executes, behind an idle REPL too, and says of one that
  does not that the nudges of an interrupt are followed by nothing else. Section 3 says what happens without each of the hypotheses.
- `DispatchImplementsBatchRun` (`Implements`), for `Disciplined` sessions:
  `Spec => BatchRun!Spec` under the identity on `batch`, `ran` and `status`.
  `OrderInv` says that one command is on its way, not which. `RefinementInv`
  adds that a batch is `running` exactly while the queue executes, that what has been
  written and not finished is the next command of the batch and follows no
  failure (`WrittenMayEnd`), and how the queue, what has ended and the exit code
  on its way fit together (`Progress`). Then each step of the shell that ends a
  command is `Finish`, `Approve` is `Submit`, the report is `Done` or `Failed`,
  Control-C is `Abort`, a failing write is `Refuse` for the first command and
  `Stop` for a later one, and all others, a stale end among them, leave the three
  variables alone.

`Repl_proofs`:

- `TypeCorrect` (`TypeOK`), which contains that every state but Idle belongs to
  a stream and no decision is asked for about an empty batch.
- `NothingRunsUnapproved` (`ApprovalGate`): whatever the backend, the user and
  the shell send, in any order, each command queued or written has an approval
  in the audit log that covers its risk. The induction needs that the queue is
  coherent, since `enqueue` may find a batch still in it after a stale
  `BackendDone` (the head that is then written is an old command), and that
  the batch under decision (`Judging`, `Approving`) holds no denied command.
- `ExecutingIsQueued` (`ExecutingHasQueue`).
- `RefusalIsFinal` (`RefusedStaysRefused`). The invariant `OnePlace` says that a
  proposed command is in exactly one place, without repetition: on its way in
  the channel, in the state (collected, judged or under decision), in the queue,
  or past (written or refused). A handler moves commands on, never back, and
  copies none.
- `MemoryFollowsJournal` (`CacheCoherent`), inductive as it stands: a handler
  leaves the journal and its copy alone, adds the same entry to both, or ends in
  Idle, from which the next instruction rebuilds the copy.
- `NoOutputLost` (`LosslessTerminal`): what the REPL has taken of the shell's
  output is shown or held back, complete and in order. The invariant `InOrder` says that the
  output events in the channel follow the one handled last, ascending and with
  none left out, up to the last one read from the PTY while the shell lives.
- `NothingOverPrompt` (`PromptUndisturbed`), by the handlers that write to the
  screen while a decision is asked for.

`Selection_proofs`, induction for all components, and what is picked from a
sequence or joined from several. Induction is over sets: of the lengths at which
a claim fails there would be a least one, since `<` is well-founded on the
naturals (`Induction`, `InductionUpTo`). `Recursion` says that a function exists
that is given by a first value and a step, which is what every recursive
definition needs before anything can be said about it (`PickedDefined`,
`ConcatenatedMore`).

`Session_proofs` first says what the conversion of a journal computes, for
journals of any length; `Batch_proofs` uses these facts through an `INSTANCE` of
it:

- An entry more is one round more (`RoundsAppend`), so that handlers that push
  a message and a rebuild from the journal come to the same (`MessagesAppend`).
- The messages of an `Orderly` journal, in which each entry may follow the one
  before it, take turns, begin with the user, and answer only the calls of the
  message before, but for the first (`MessagesInTurns`); they end in the user if
  the last entry is the user's (`MessagesEnd`).
- They cost no more than their entries, but for the mark (`MessagesTokens`).
- A part of an orderly journal up to its end is orderly (`FromEntries`), so
  that all of this holds wherever the budget cuts.

Then, for any number of turns and calls, any costs, any budget:
`Typed` (`TypeOK`), `TurnsAlternate` (`Alternates`), `OnlyCallsAnswered`
(`ResultsAnswerCalls`), `WithinBudget` (`BudgetRespected`), `JournalInMemory`
(`MemoryIsJournal`) and `ResultsFollow` (`ResultsFollowResponse`), all from one
invariant: the journal is orderly, the conversation is what it gives from some
entry on, within the budget when a stream starts, and while commands run the
last entry is the response that proposed them. That last part is why no command
of the user may be journaled then, and why the assistant message that `Propose`
pushes ends up in front of its results.

`Batch_proofs`, for any lines, replies of the judge, budget and number of
responses:

- `BatchRunsGatedOnly` (`OnlyGatedRuns`). The invariant `GateInv` says that the
  risks in hand are those of the response in hand, that nothing is denied once
  the gate is behind, that a dangerous response runs only with a verdict that
  allows it, that the verdict and the next command are reset when a response is
  left behind (without which an old verdict would serve a new response), and
  where in the audit log the proposal, the judgement and the approval of the
  running batch stand.
- `SegmentCovered`, `RulesCovered` and `RulesCoveredByLines`
  (`RiskCoversRules`): the risk of a line is no less than that of any of its
  segments; every segment of it that triggers a rule leaves its mark in it, an
  empty one triggers none, and a warning makes it at least a write.
- `CombinedNoLessRisky` (`CombiningKeepsRisk`), for lines that close their quotes
  (`LinesClosed`; those of the run do). A quote that one line leaves open would take
  in the operator and the other line: `echo '` and `sudo x` are together no more
  than an `echo`; a shell would wait for the other quote and run neither. If the
  first line is closed, each lexeme of both is within quotes exactly where it was
  (`QuoteFlips`, by induction), the operator cuts, and so the segments of each
  line and their neighbours are found again in the combined one
  (`SegmentsOfPart`, `PartsCombined`).
- `BatchImplementsSession` (`Implements`): `Spec => Session!Spec` under the
  mapping of section 2. The invariant `TalkInv` says where `Batch` stands
  between two entries: while commands wait the last entry is the response that
  proposed them, with all its calls, and the journal has two entries per
  response and the instruction. `Start` is `Instruct`, `Respond` is `Propose` or
  `Answer`, `ReportResults`, `Deny` and `JudgeBlocks` are `Report`, a panic, a
  failing stream and the third denial end the turn, and the gate, the judge and the commands
  stutter.
- `DenialsCountedInRow` (`DenialsCounted`). `DenialsInv` adds that the result
  before those counted is not a denial, from which it follows that no three are
  in a row.
- `SummaryTold` (`SummaryTellsAll`). `SummaryInv` adds that the totals are the
  numbers of *executed* and *blocked* in the audit log before the end.
- `EveryCallAnswered` (`CallsAnswered`): the last message of a conversation
  whose journal ends with the results of a response holds these results and no
  call, whatever the cut, and images come after it.

`Answer_proofs`, for any bodies and however they are cut:

- `AnswerEndsOnce` (`OneEnd`). The end of a stream is the last event the task
  posts, whatever the body holds, and a request that is given up has been posted
  six times. `EndInv` adds that no event before the last is a Done, that a Done
  is given only by a body that has closed, and that as many posts as retries
  have been made while it is still asking. That `Answer` never changes the events
  it was given is part of each step.
- `CutsDoNotMatter`: the events given are, in order, those the parser and the
  processor give for the whole decoded text in one piece. That a line is kept
  between two chunks, and the data of an event between two lines, is what makes
  it true; the proof is that `Fed` of two texts is `Fed` of one after the other
  (`FedConcat`), and that no step of the parser looks at the events it has given
  (`FedAhead`, `ClosedAhead`). `CutsInv` says that some events, which the caller
  has been given, precede those that wait.
- `TextStays` (`AnswerOnScreen`), `EndIsTold` (`ScreenTellsEnd`) and
  `DecidedIsShown` (`ProposalOnScreen`), also for any number of ticks, writes of
  the shell, reports, commands and typed words. None is inductive, and they share
  one invariant, `ShowInv`, with a part for each question:
  - `TextInv`: once there is text on the screen no spinner is active and no
    thought is waiting to be cleared, so that nothing takes the line of the text;
    and when the stream has ended no text is on the cursor's line, where a warning,
    a verdict or the prompt will be written.
  - `SpinnerInv`: a spinner that is on the line is known to be
    (`spinner_active`); one above it was pushed there by output of the shell.
  - `FailureInv`: while the answer streams, the status of the display is an error
    exactly if the last content or error handled is one; no error is on the
    screen before the state is Idle; and what is decided on did not fail.
  - `ProposalInv`: no command is listed before the end of the stream, those
    listed after it are those of the proposal, above the line; the line is that of the
    prompt and what was typed, unless the note on `e` has taken its place.

  The proof goes from what each sequence of the renderer does to the items of
  some kinds (it loses the line, `Wiped`, or ends it, `LineEnded`, and keeps what
  is above) to each handler, as the sequence of what it writes. The type
  invariant of the client (`ClientTyped`) is proved along the whole way from the
  bytes to the events.

`Terminal_proofs`, for any keys, any outputs of commands and any cuts of what is
read. `Types` (`TypeOK`) and `FedInv` hold of everything: the parser and the
history are what one feeding of all that has been read gives (`OscFedConcat`),
so that the cuts do not matter. The rest depends on what commands print, and the
hypotheses say on what; the outputs and keys of the run `terminal` meet them all:

- `LastMarker` (`TerminalIsLastMarker`), if commands print markers as a whole only
  and end in no ESC and no ESC ] (`OutputsWhole`). What they have left open, a
  title that is not ended or is too long, then is closed by the ESC of the next marker. A
  command that prints part of a marker, or an ESC in front of one, can make the
  parser see another or miss it. `WholeInv` says that what was read and what is on
  its way are such a text together; the proof goes over it byte by byte.
- `HistoryTail` (`HistoryIsTail`), if no ESC follows on an ESC or on a CSI
  sequence that is not ended (`OutputsClosed`): there the line assembler takes it for
  a byte of the sequence. `RegularHistory` says the same of whatever has been
  read, for any outputs. The assembler is shown to be, after each byte, the lines that have
  ended and the visible part of the one that has not, and the eviction of one line at a time
  to leave the last ones (`LastIs`).
- `EveryCommandRecorded` (`CommandsRecorded`), if commands print no marker
  (`OutputsPlain`) and Enter ends a chunk of keys (`KeysWait`): of two lines in one chunk
  the first is journaled when the second is entered, without an exit code. The
  invariant `RecordInv` relates what the REPL remembers to what the shell does.
  `LineInv` says that the line the REPL has collected is the one the shell will
  have once it has read the keys on their way. `Noted` says that what is recorded
  is what has ended, in order. And one of four holds: no command is remembered
  and all that ended are recorded (`NoCommand`); it is remembered and its Enter is on its way
  to the shell (`CommandTyped`); it runs, and its C is on its way or the capture has what
  was printed since, up to what is on its way (`CommandRuns`); or it has ended, and its D is on
  its way (`CommandEnded`). `Ahead` gives the markers that the parser will see in the
  next bytes, so that a cut within a marker is one more state and not another case.

`Agents_proofs`, for any number of processes and polls:

- `ReportsOnce` (`ReportedOnce`), in every configuration. The list is not read in
  one step, so that a child may leave `known_children` while it lives. What
  saves it is that it left because it cannot be found again: `ReportInv` says
  that an agent that has been reported and is not known any more is *lost*: it is
  gone, or no longer below the REPL, and nothing brings it back.
- `BoundsDepth` (`DepthBounded`), for agents that can look at the processes
  above them and have no higher limit than the REPL; section 3 says what happens
  without the first. While an agent walks up, processes above it end, and the
  count is of a chain that is no longer there. `WalkInv` says that those
  counted and those above the process the walk stands at are at least the agents
  above it: a process that ends takes what the walk has missed off the chain,
  and a walk whose process has left the chain never meets it again. An agent
  that works has counted all that are above it, and gets no new ones.
- `HonoursOffers` (`OfferHonoured`), for agents that have no lower limit than
  the REPL, whether they see the processes above them or not: an agent counts at
  most one more than the nearest agent above it was told (`OfferInv`).

They rest on facts about process trees that change: a tree without cycles has
one function that gives the processes above each (`AboveExists`, `AboveUnique`),
what a fork adds to it (`AboveGrown`) and what the end of a process takes
(`AboveCut`), proved by induction from the top down (`TreeInduction`). That there
is no cycle, and that processes with children are alive, is `TreeInv`.

And facts about the meaning of a policy, for every file system with symlinks,
every configuration and every kernel:

- `SandboxNeverWidens`: what a child of a sandboxed process may do, the process
  may do.
- `WritesStayInside`: where an active sandbox allows writing there is a writable
  path of the configuration at or above the place, or, under Seatbelt, one of
  those that are always writable. Canonicalization adds no place.
- `DeniedIsDenied`: a denied path that is no symlink is out of reach with all
  it holds, under Seatbelt always, under Landlock unless a writable or readable
  path is at or above it.
- `ExecFailsClosed`: `--sandbox-exec` runs a command only under a policy.

Assumptions: `DispatchAssumption`, `ReplAssumption`, `ConversationAssumption`,
`SessionAssumption`, `BatchAssumption`, `SandboxAssumption`, `AgentsAssumption`,
`BackendAssumption`, `AnswerAssumption`, `TerminalAssumption` and
`OscAssumption` type the constants, and say that a
message costs no more than its entry, that each call of a response has an
identifier, that canonical paths are canonical and that pids are not taken
twice. TLC evaluates all of them in every run that uses them.

Only model-checked:

- `StreamIsText`, in `answer`: it compares the parser with a definition that
  reads the whole text, which only fits bodies as regular as those of the
  instance (the reference knows no second field in a line, for one). That the
  cuts do not matter is proved for all bodies (`CutsDoNotMatter`).
- `BatchEnds`, `WaitingEnds` and `Answered`: liveness under fairness is beyond
  the prover.

## 5. Not modelled

- The mock backend, a test double.
- Formatting: colours, wording and widths, the renderer of batch mode, system
  prompts, the profile texts of Seatbelt, help and messages at start-up.
- Parsing and encoding: the configuration file and the flags (their results are
  `Settings`), the JSON of the wire, base64 and the detection of media by
  content, media sidecars of the journal.
- `Resize`, which passes a size on to the PTY and keeps nothing.
- Input chunks of several lines in `Repl` (`Terminal` has them for the keys).
- Two processes with one journal: sessions named alike, pids used again. What
  is lost then is listed above.
- Paths that come into being after the sandbox was applied.

## 6. Plan

1. `Repl` on the entries of `Conversation`, and `Session` as a property of
   `repl_turn`, as it is one of `batch`.
2. Chunks of several lines in `Repl`.
