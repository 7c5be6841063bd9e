------------------------------- MODULE Session -------------------------------
(***************************************************************************)
(* What both agent loops, the REPL (repl.rs) and batch mode (batch.rs),    *)
(* promise about the session journal and the conversation: in which order  *)
(* entries are journaled, and how the conversation in memory is kept up to *)
(* date with them, rebuilt from them and cut to the budget.                *)
(*                                                                         *)
(* Everything else is left out: a turn is "Streaming" while the backend    *)
(* answers and "Acting" from the journaled response to the results of its  *)
(* commands.  The REPL has any number of turns, batch mode one.            *)
(***************************************************************************)
EXTENDS Conversation

CONSTANT MaxEntries  \* bound: journal entries when a turn, command or report begins

ASSUME SessionAssumption == MaxEntries \in Nat

VARIABLES
  phase,    \* what the loop is doing
  journal,  \* the entries of the session journal
  conv,     \* the conversation in memory, an Option
  turn      \* instructions given so far

vars == <<phase, journal, conv, turn>>

NoConversation == [some |-> FALSE, msgs |-> <<>>]
Kept(msgs)     == [some |-> TRUE, msgs |-> msgs]

Init == phase = "Idle" /\ journal = <<>> /\ conv = NoConversation /\ turn = 0

Room == Len(journal) < MaxEntries

(* Mutant of PushMessage: the conversation in memory is not extended.      *)
PushNothing(message) == conv

PushMessage(message) ==
  IF conv.some THEN Kept(Append(conv.msgs, message)) ELSE conv

Rebuilt(entries) ==
  {Kept(Messages(From(entries, i))) : i \in {j \in 1..Len(entries) : WalkStopsAt(entries, j)}}

(* Mutant of StartStreaming: the conversation it has taken is not put back.*)
StartStreamingTaking(entries, kept) ==
  /\ journal' = entries
  /\ \/ phase' = "Idle" /\ conv' = kept
     \/ phase' = "Streaming" /\ conv' = NoConversation

(* A stream is started on the kept conversation, or on one rebuilt from the*)
(* journal; without an API key the turn ends.                              *)
StartStreaming(entries, kept) ==
  /\ journal' = entries
  /\ \/ phase' = "Idle" /\ conv' = kept
     \/ /\ phase' = "Streaming"
        /\ \/ kept.some /\ conv' = kept
           \/ ~kept.some /\ conv' \in Rebuilt(entries)

(* Mutant of UserCommand: it is journaled at any time.                     *)
UserCommandAnytime ==
  /\ Room
  /\ journal' = Append(journal, ShellCommand(turn))
  /\ UNCHANGED <<phase, conv, turn>>

(* A command of the user has ended, outside of turns.                      *)
UserCommand ==
  /\ phase = "Idle" /\ Room
  /\ journal' = Append(journal, ShellCommand(turn))
  /\ UNCHANGED <<phase, conv, turn>>

Instruct ==
  /\ phase = "Idle" /\ Room
  /\ turn' = turn + 1
  /\ StartStreaming(Append(journal, Instruction(turn + 1)), NoConversation)

(* Cancelled, or an error of the backend: nothing is journaled.            *)
Cancel ==
  /\ phase = "Streaming"
  /\ phase' = "Idle"
  /\ UNCHANGED <<journal, conv, turn>>

(* The response proposes nothing: it ends the turn.                        *)
Answer(text, uses) ==
  /\ phase = "Streaming"
  /\ phase' = "Idle"
  /\ journal' = Append(journal, Response(turn, text, uses))
  /\ conv' = NoConversation
  /\ UNCHANGED turn

(* It proposes commands.                                                   *)
Propose(text, uses) ==
  /\ phase = "Streaming" /\ uses # {}
  /\ phase' = "Acting"
  /\ LET response == Response(turn, text, uses) IN
       /\ journal' = Append(journal, response)
       /\ conv' = PushMessage(Assistant(response))
  /\ UNCHANGED turn

(* It proposes denied commands: in the REPL that ends the turn.            *)
Block(text, uses) ==
  /\ phase = "Streaming" /\ uses # {}
  /\ phase' = "Idle"
  /\ journal' = journal \o <<Response(turn, text, uses), Blocked(turn, uses)>>
  /\ conv' = NoConversation
  /\ UNCHANGED turn

(* The commands are refused or interrupted, or one fails, or there is no   *)
(* output, or it is the third denial in a row: nothing is journaled.       *)
GiveUp ==
  /\ phase = "Acting"
  /\ phase' = "Idle"
  /\ UNCHANGED <<journal, conv, turn>>

(* The calls of the response whose commands are run.                       *)
LastUses ==
  LET last == CHOOSE i \in 1..Len(journal) :
                /\ journal[i].kind = "Response"
                /\ \A j \in (i + 1)..Len(journal) : journal[j].kind # "Response"
  IN journal[last].uses

(* Mutant of OverBudget: a conversation is never too long.                 *)
NeverOverBudget(msgs) == FALSE

OverBudget(msgs) == ConversationTokens(msgs) > Budget

(* The results, in batch mode also those of blocked commands and not always*)
(* one for every call, go to the journal, the conversation and the next    *)
(* stream; a conversation that has outgrown the budget is rebuilt.         *)
Report(kind, uses) ==
  /\ phase = "Acting" /\ Room
  /\ uses # {} /\ uses \subseteq LastUses
  /\ LET result == Entry(kind, turn, FALSE, uses)
         pushed == PushMessage(User(<<result>>))
     IN StartStreaming(Append(journal, result),
                       IF OverBudget(pushed.msgs) THEN NoConversation ELSE pushed)
  /\ UNCHANGED turn

Next ==
  \/ UserCommand \/ Instruct \/ Cancel \/ GiveUp
  \/ \E uses \in SUBSET ToolUse :
       \/ \E text \in BOOLEAN : Answer(text, uses) \/ Propose(text, uses) \/ Block(text, uses)
       \/ \E kind \in {"ToolResult", "Blocked"} : Report(kind, uses)

Spec == Init /\ [][Next]_vars

-----------------------------------------------------------------------------
(* Properties.                                                             *)

(* Types; while a turn goes on its conversation is in memory.              *)
TypeOK ==
  /\ phase \in {"Idle", "Streaming", "Acting"}
  /\ journal \in Seq(JournalEntry)
  /\ conv \in [some : BOOLEAN, msgs : Seq(Message)]
  /\ phase # "Idle" => conv.some
  /\ turn \in Nat

(* The request of the stream that is running.                              *)
Request == conv.msgs

(* The backend accepts only conversations in which user and assistant take *)
(* turns, the user first and last, and no assistant message is empty,      *)
(* however the turns before ended and wherever the budget has cut.         *)
Alternates ==
  phase = "Streaming" =>
    /\ Len(Request) % 2 = 1
    /\ \A i \in 1..Len(Request) :
         IF i % 2 = 1 THEN Request[i].role = "user"
         ELSE /\ Request[i].role = "assistant"
              /\ Uses(Request[i]) # {} \/ Texts(Request[i]) # {}

(* Results answer the tool calls of the message before.  Only the first    *)
(* message may hold results of calls that the budget has cut off.          *)
ResultsAnswerCalls ==
  phase = "Streaming" =>
    \A i \in 2..Len(Request) : Results(Request[i]) \subseteq Uses(Request[i - 1])

(* A request is within the budget, but for the "[session continues]" that a*)
(* cut may put before it, unless it is the last entry alone.               *)
BudgetRespected ==
  phase = "Streaming" =>
    \/ ConversationTokens(Request) <= Budget + MarkCost
    \/ Request \in {Messages(From(journal, Len(journal)))}

(* The conversation that the handlers extend by hand is always the one that*)
(* the journal, from some entry on, would be converted to.                 *)
MemoryIsJournal ==
  phase # "Idle" /\ conv.some =>
    \E i \in 1..Len(journal) : conv.msgs = Messages(From(journal, i))

(* In the journal results follow the response whose calls they answer.     *)
Answers(entry, response) ==
  response.kind = "Response" /\ response.turn = entry.turn /\ entry.uses \subseteq response.uses

ResultsFollowResponse ==
  \A i \in 1..Len(journal) :
    IsResult(journal[i]) => i > 1 /\ Answers(journal[i], journal[i - 1])

-----------------------------------------------------------------------------
(* What a comment says, and the code does not do.                          *)

(* "Build request -- instruction is empty; the journal carries it."        *)
(* (repl.rs): a request carries the instruction of its turn.  With the     *)
(* whole journal within the budget it should.                              *)
InstructionIsSent ==
  phase = "Streaming" =>
    \E i \in 1..Len(Request) : Instruction(turn) \in SentTexts(Request[i])
=============================================================================
