-------------------------------- MODULE Answer --------------------------------
(***************************************************************************)
(* One answer of the backend on its way to the user: the client reads it   *)
(* (Backend), a task sends its events through the channel to the REPL's    *)
(* event loop, which shows them (Display), and asks the judge and the user *)
(* about the commands it proposes.  Meanwhile the spinner ticks, the user  *)
(* may cancel, jobs of the shell write to the same terminal, and agents    *)
(* below the REPL are reported.                                            *)
(*                                                                         *)
(* A request that is not streamed is the judge's: it begins in Judging.    *)
(* When the gate asks the judge about a streamed answer, that request is   *)
(* left out, and the verdict may be any.  What the commands then do is not *)
(* modelled here, nor which of them the policy denies (Repl, Policy).      *)
(***************************************************************************)
EXTENDS Backend, Display

CONSTANTS
  MaxNoise,  \* bound: writes of the shell and reports of agents
  MaxTyped   \* bound: words typed at the prompt

ASSUME AnswerAssumption == MaxNoise \in Nat /\ MaxTyped \in Nat

VARIABLES
  state,    \* of the REPL
  taken,    \* events of the client that have been handled
  display,  \* PlanDisplay
  proposal, \* the commands to decide on, whether it takes a "yes", and yes_buffer
  held,     \* pty_buffer holds output
  screen,   \* the terminal
  panicked, \* the judge's task has panicked
  noise     \* what has come between, for the bound and the properties

shows == <<state, taken, display, proposal, held, screen, panicked, noise>>
all   == <<vars, shows>>

NoProposal == [commands |-> <<>>, need_yes |-> FALSE, yes_buffer |-> <<>>]

Proposal(commands, need_yes) ==
  [commands |-> commands, need_yes |-> need_yes, yes_buffer |-> <<>>]

AnswerInit ==
  /\ Init
  /\ state = IF single THEN "Judging" ELSE "Streaming"
  /\ taken = 0
  /\ display = NewDisplay
  /\ proposal = IF single THEN Proposal(<<"command">>, TRUE) ELSE NoProposal
  /\ held = FALSE
  /\ screen = IF single THEN Ask(NewScreen, "judging") ELSE SpinnerInitial(NewScreen)
  /\ panicked = FALSE
  /\ noise = <<>>

Waiting == state \in {"Streaming", "Judging"}

(* The task and the client.  Once cancelled, what they still send meets an *)
(* idle loop.                                                              *)
Answering == Waiting /\ Next /\ UNCHANGED shows

HandleChunk ==
  /\ state = "Streaming" /\ taken < Len(out)
  /\ LET event == out[taken + 1] IN
       /\ display' = Accumulated(display, event)
       /\ screen' = Drawn(display, screen, event)
       /\ noise' = IF event.kind = "ThinkingDelta" /\ display.streaming_text # <<>>
                   THEN Append(noise, "thought") ELSE noise
  /\ taken' = taken + 1
  /\ UNCHANGED <<vars, state, proposal, held, panicked>>

(* The commands of the tool uses; without one its input is not JSON.       *)
Commands ==
  LET IsCommand(event) == event.kind = "ToolUse" /\ event.content # <<>>
  IN Concatenated([i \in 1..taken |-> IF IsCommand(out[i]) THEN <<out[i].content>> ELSE <<>>])

(* What becomes of the commands, once the end of the stream is shown: s is *)
(* the screen.  They may be warned of; without an API key the judge is not *)
(* asked, which is said in the same way.  The write of the first command to*)
(* the shell may fail.                                                     *)
Gated(commands, s) ==
  \E warned \in {s, Warned(s)} :
    \/ \E denied \in SUBSET (1..Len(commands)) \ {{}} :
         LET IsDenied(k) == \E i \in denied : commands[i] = commands[k]
             refused     == Picked(commands, {k \in 1..Len(commands) : IsDenied(k)})
         IN /\ state' = "Idle" /\ UNCHANGED proposal
            /\ screen' = InPlace(Listed(s, "denied", refused), Item("blocked", ""))
    \/ /\ proposal' = Proposal(commands, FALSE)
       /\ LET listed == Listed(warned, "safe", commands) IN
            \/ state' = "Executing" /\ screen' = listed
            \/ state' = "Idle" /\ screen' = Below(listed, Item("pty error", ""))
    \/ \E need_yes \in BOOLEAN :
         /\ proposal' = Proposal(commands, need_yes)
         /\ \/ state' = "Judging" /\ screen' = Ask(warned, "judging")
            \/ state' = "Approving" /\ screen' = ApprovalUi(warned, commands)

(* Event::BackendDone: the task has sent it after all others.              *)
HandleDone ==
  /\ state = "Streaming" /\ phase = "Ended" /\ taken = Len(out)
  /\ LET ended == Ended(display, screen) IN
       IF display.status = "Error" \/ Commands = <<>>
       THEN /\ state' = "Idle" /\ UNCHANGED proposal
            /\ screen' = IF display.status = "Error" THEN ended
                         ELSE InPlace(ended, Item("footer", ""))
       ELSE Gated(Commands, ended)
  /\ UNCHANGED <<vars, taken, display, held, panicked, noise>>

Flushed == IF held THEN Put(screen, Item("output", "")) ELSE screen

(* Reading a reply whose last } comes before its first { panics the judge's*)
(* task; so may the request that is left out when the answer was streamed. *)
(* No JudgeResult is sent, and only Control-C leaves Judging.  What Rust   *)
(* writes of the panic to stderr is left out.                              *)
JudgePanics ==
  /\ state = "Judging" /\ ~panicked
  /\ single => phase = "Ended" /\ out[Len(out)] # Error
  /\ panicked' = TRUE
  /\ UNCHANGED <<vars, state, taken, display, proposal, held, screen, noise>>

(* Event::JudgeResult                                                      *)
HandleVerdict ==
  /\ state = "Judging" /\ ~panicked /\ (single => phase = "Ended")
  /\ state' = "Approving" /\ held' = FALSE
  /\ \E verdict \in {"Safe", "Unsafe", "Error"} :
       screen' = ApprovalUi(VerdictShown(Flushed, verdict), proposal.commands)
  /\ UNCHANGED <<vars, taken, display, proposal, panicked, noise>>

HandleTick ==
  /\ state = "Streaming" /\ Spins(display)
  /\ screen' = SpinnerTick(screen)
  /\ UNCHANGED <<vars, state, taken, display, proposal, held, panicked, noise>>

(* The decision is taken: output that was held back comes first.           *)
Decided(next, s) ==
  /\ state' = next /\ screen' = s /\ held' = FALSE
  /\ UNCHANGED <<vars, taken, display, proposal, panicked, noise>>

(* Control-C while the backend or the judge is waited for.                 *)
Cancel == Waiting /\ Decided("Idle", Below(Flushed, Item("cancelled", "")))

(* y, or Enter after yes; the write to the shell may fail.                 *)
ApproveKey ==
  /\ state = "Approving"
  /\ proposal.need_yes => proposal.yes_buffer = <<"yes">>
  /\ \/ Decided("Executing", Flushed)
     \/ Decided("Idle", Below(Flushed, Item("pty error", "")))

(* n, or Enter after anything else; Control-C.                             *)
RefuseKey ==
  /\ state = "Approving"
  /\ \/ /\ proposal.need_yes => proposal.yes_buffer # <<"yes">>
        /\ Decided("Idle", Below(Flushed, Item("skipped", "")))
     \/ proposal.need_yes /\ Decided("Idle", Below(Flushed, Item("cancelled", "")))

(* Other keys: yes_buffer is edited, e is answered by a note.              *)
TypeKey ==
  /\ state = "Approving"
  /\ \/ \E word \in {"yes", "other"} :
          /\ proposal.need_yes /\ Len(proposal.yes_buffer) < MaxTyped
          /\ proposal' = [proposal EXCEPT !.yes_buffer = Append(@, word)]
          /\ screen' = Echo(screen, word)
     \/ /\ proposal.yes_buffer # <<>>
        /\ proposal' = [proposal EXCEPT !.yes_buffer = SubSeq(@, 1, Len(@) - 1)]
        /\ screen' = Rubout(screen)
     \/ /\ ~proposal.need_yes /\ Visible(screen, {"edit"}) = <<>>
        /\ screen' = Below(screen, Item("edit", "")) /\ UNCHANGED proposal
  /\ UNCHANGED <<vars, state, taken, display, held, panicked, noise>>

Noisy(kind) == Len(noise) < MaxNoise /\ noise' = Append(noise, kind)

(* Mutant of Deciding: only while the judge is asked.                      *)
DecidingJudging == state = "Judging"

(* What disturbs a decision is suppressed or held back.                    *)
Deciding == state \in {"Approving", "Judging"}

(* Event::PtyOutput goes to the terminal as it is.                         *)
HandleOutput ==
  /\ state \in {"Streaming", "Judging", "Approving"} /\ Noisy("output")
  /\ IF Deciding THEN held' = TRUE /\ UNCHANGED screen
     ELSE \E written \in {Put(screen, Item("output", "")), NextLine(screen)} :
            screen' = written /\ UNCHANGED held
  /\ UNCHANGED <<vars, state, taken, display, proposal, panicked>>

(* Event::ChildPoll, in which an agent is reported.                        *)
HandleChild ==
  /\ state \in {"Streaming", "Judging", "Approving"} /\ Noisy("child")
  /\ screen' = IF Deciding THEN screen ELSE InPlace(screen, Item("child", ""))
  /\ UNCHANGED <<vars, state, taken, display, proposal, held, panicked>>

AnswerNext ==
  \/ Answering \/ HandleChunk \/ HandleDone \/ HandleVerdict
  \/ HandleTick \/ Cancel \/ ApproveKey \/ RefuseKey \/ TypeKey
  \/ HandleOutput \/ HandleChild \/ JudgePanics

(* The event loop takes what is in the channel.                            *)
AnswerSpec ==
  /\ AnswerInit /\ [][AnswerNext]_all
  /\ WF_all(Answering) /\ WF_all(HandleChunk) /\ WF_all(HandleDone) /\ WF_all(HandleVerdict)

-----------------------------------------------------------------------------
(* Properties.                                                             *)

Noise(kind) == \E i \in 1..Len(noise) : noise[i] = kind

PiecesOf(items) == [i \in 1..Len(items) |-> items[i].piece]

(* The text of the events that have been handled, without its line breaks. *)
TextHandled ==
  LET TextOf(event) == IF event.kind = "TextDelta" THEN event.content ELSE <<>>
      pieces        == Concatenated([i \in 1..taken |-> TextOf(out[i])])
  IN Picked(pieces, {i \in 1..Len(pieces) : pieces[i] # LineBreak})

(* However the body was cut, and whatever the shell writes in between, the *)
(* text of the answer is on the screen, once and in order: no tick, first  *)
(* line or decision erases it.  A report of an agent does erase the line it*)
(* meets, and so does thinking that follows text (both in renderer.rs).    *)
AnswerOnScreen ==
  ~single /\ ~Noise("child") /\ ~Noise("thought") =>
    PiecesOf(Visible(screen, {"text"})) = TextHandled

(* An error and no content after it.                                       *)
Failed ==
  \E i \in 1..taken :
    /\ out[i] = Error
    /\ \A j \in i..taken : out[j].kind \notin {"TextDelta", "ThinkingDelta"}

(* Once the stream has ended the spinner has gone and no tick that is still*)
(* in the channel brings it back, unless output of the shell has pushed it *)
(* up; a stream that failed is told from one that did not, and proposes    *)
(* nothing.                                                                *)
ScreenTellsEnd ==
  state # "Streaming" /\ ~single =>
    /\ ~screen.spinner_active
    /\ ~Noise("output") => Visible(screen, {"spinner"}) = <<>>
    /\ Visible(screen, {"cancelled"}) = <<>> => (Failed <=> Visible(screen, {"error"}) # <<>>)
    /\ Failed => state = "Idle"

(* What is run is what was shown: every command that is to be decided on,  *)
(* or was, is on the screen with its label, once and in order; and while   *)
(* the user decides the cursor stays at the prompt, after what was typed,  *)
(* whatever the shell writes and the agents below do.                      *)
ProposalOnScreen ==
  /\ state \in {"Approving", "Executing"} =>
       PiecesOf(Visible(screen, {"risk", "safe"})) = proposal.commands
  /\ state = "Approving" /\ Visible(screen, {"edit"}) = <<>> =>
       screen.line = <<Item("prompt", "")>>
                     \o [i \in DOMAIN proposal.yes_buffer |-> Item("typed", proposal.yes_buffer[i])]

(* Whoever waits for an answer gets one, unless the task that should bring *)
(* it panics, on a retry-after or on the judge's reply: the REPL then waits*)
(* until its user presses Control-C.                                       *)
Answered == <>(~Waiting \/ phase = "Panicked" \/ panicked)
=============================================================================
