---------------------------- MODULE Conversation ----------------------------
(***************************************************************************)
(* The conversation the backend is sent: how it is made from the entries of*)
(* the session journal (crates/ua-core/src/journal.rs) and how it is turned*)
(* into the messages of a request (crates/ua-backend/src/anthropic.rs).    *)
(*                                                                         *)
(* An entry is its kind, the turn it belongs to, whether it has any text,  *)
(* and the tool calls it makes (Response) or answers (ToolResult, Blocked).*)
(* A message is its role and the entries merged into it.  Sizes are given  *)
(* per kind of entry, and the rounding of chars / 4 is left out, as are    *)
(* checkpoints, which nothing writes, thinking, and system prompts, which  *)
(* cost nothing and enter no conversation.                                 *)
(***************************************************************************)
EXTENDS Integers, Sequences

CONSTANTS
  ToolUse,      \* identifiers of tool calls
  EntryCost,    \* tokens of an entry, by kind (entry_tokens)
  MessageCost,  \* tokens of what an entry adds to a message (message_tokens)
  MarkCost,     \* tokens of the "[session continues]" message
  Budget        \* config.journal.conversation_budget

EntryKind == {"Instruction", "Response", "ToolResult", "Blocked", "ShellCommand"}

ASSUME ConversationAssumption ==
  /\ EntryCost \in [EntryKind -> Nat] /\ MessageCost \in [EntryKind -> Nat]
  /\ \A kind \in EntryKind : MessageCost[kind] <= EntryCost[kind]
  /\ MarkCost \in Nat /\ Budget \in Nat

JournalEntry == [kind : EntryKind, turn : Nat, text : BOOLEAN, uses : SUBSET ToolUse]

Entry(kind, turn, text, uses) ==
  [kind |-> kind, turn |-> turn, text |-> text, uses |-> uses]

(* What the two loops journal: the user's words and commands have text, the*)
(* results of tool calls have not.                                         *)
Instruction(turn)          == Entry("Instruction", turn, TRUE, {})
ShellCommand(turn)         == Entry("ShellCommand", turn, TRUE, {})
Response(turn, text, uses) == Entry("Response", turn, text, uses)
ToolResult(turn, uses)     == Entry("ToolResult", turn, FALSE, uses)
Blocked(turn, uses)        == Entry("Blocked", turn, FALSE, uses)

-----------------------------------------------------------------------------
(* Messages.                                                               *)

Message == [role : {"user", "assistant"}, of : Seq(JournalEntry)]

User(entries)    == [role |-> "user", of |-> entries]
Assistant(entry) == [role |-> "assistant", of |-> <<entry>>]

(* "[session continues]"                                                   *)
Continuation == User(<<>>)

EntriesOf(message) == {message.of[i] : i \in 1..Len(message.of)}

IsResult(entry) == entry.kind \in {"ToolResult", "Blocked"}

Uses(message)    == UNION {e.uses : e \in {f \in EntriesOf(message) : f.kind = "Response"}}
Results(message) == UNION {e.uses : e \in {f \in EntriesOf(message) : IsResult(f)}}
Texts(message)   == {e \in EntriesOf(message) : e.text}

(* merge_or_push_user                                                      *)
MergeOrPushUser(messages, entry) ==
  LET n == Len(messages) IN
  IF n > 0 /\ messages[n].role = "user"
  THEN [messages EXCEPT ![n].of = Append(@, entry)]
  ELSE Append(messages, User(<<entry>>))

(* Mutant of AddEntry: user entries are not merged.                        *)
AddUnmerged(messages, entry) ==
  IF entry.kind = "Response"
  THEN IF entry.uses # {} \/ entry.text
       THEN Append(messages, Assistant(entry)) ELSE messages
  ELSE Append(messages, User(<<entry>>))

(* Mutant of AddEntry: a response of tool calls alone is taken for empty.  *)
AddTextOnly(messages, entry) ==
  IF entry.kind = "Response"
  THEN IF entry.text THEN Append(messages, Assistant(entry)) ELSE messages
  ELSE MergeOrPushUser(messages, entry)

(* One round of convert_entries_to_messages; a response without text and   *)
(* tool calls gives no message.                                            *)
AddEntry(messages, entry) ==
  IF entry.kind = "Response"
  THEN IF entry.uses # {} \/ entry.text
       THEN Append(messages, Assistant(entry)) ELSE messages
  ELSE MergeOrPushUser(messages, entry)

(* The rounds of convert_entries_to_messages.                              *)
Rounds(entries) ==
  LET upTo[n \in 0..Len(entries)] ==
        IF n = 0 THEN <<>> ELSE AddEntry(upTo[n - 1], entries[n])
  IN upTo

(* What they make, and what is put before it.                              *)
Messages(entries) ==
  LET messages == Rounds(entries)[Len(entries)]
  IN IF messages # <<>> /\ messages[1].role = "assistant"
     THEN <<Continuation>> \o messages ELSE messages

-----------------------------------------------------------------------------
(* The budget.                                                             *)

(* A sequence of numbers, added up.                                        *)
Sums(numbers) ==
  LET upTo[n \in 0..Len(numbers)] == IF n = 0 THEN 0 ELSE upTo[n - 1] + numbers[n]
  IN upTo

Total(numbers) == Sums(numbers)[Len(numbers)]

EntryTokens(entries) == Total([i \in 1..Len(entries) |-> EntryCost[entries[i].kind]])

MessageTokens(message) ==
  IF message = Continuation THEN MarkCost
  ELSE Total([i \in 1..Len(message.of) |-> MessageCost[message.of[i].kind]])

ConversationTokens(messages) == Total([i \in 1..Len(messages) |-> MessageTokens(messages[i])])

From(entries, i) == SubSeq(entries, i, Len(entries))

(* Mutant of WalkStopsAt: the entry that exceeds the budget is included.   *)
WalkStopsLate(entries, i) ==
  /\ \A j \in i..(Len(entries) - 1) : EntryTokens(From(entries, j + 1)) <= Budget
  /\ i > 1 => EntryTokens(From(entries, i)) > Budget

(* The backward walk of build_conversation_from_journal stops at entry i:  *)
(* the last entry is always included, every other while the budget allows. *)
WalkStopsAt(entries, i) ==
  /\ \A j \in i..(Len(entries) - 1) : EntryTokens(From(entries, j)) <= Budget
  /\ i > 1 => EntryTokens(From(entries, i - 1)) > Budget

-----------------------------------------------------------------------------
(* The request.                                                            *)

(* What build_messages keeps of a message's text: nothing of a user message*)
(* that also holds results.                                                *)
SentTexts(message) ==
  IF Uses(message) = {} /\ Results(message) # {} THEN {} ELSE Texts(message)

(* A message of the API: what its blocks are of, and whether the last one  *)
(* is marked for the cache.                                                *)
ApiMessage(message) ==
  [role |-> message.role, texts |-> SentTexts(message), uses |-> Uses(message),
   results |-> IF Uses(message) = {} THEN Results(message) ELSE {},
   images |-> FALSE, cached |-> FALSE]

(* The attached images, in a message of their own after the conversation.  *)
Images ==
  [role |-> "user", texts |-> {}, uses |-> {}, results |-> {}, images |-> TRUE, cached |-> FALSE]

(* mark_cache_control, on the last message of the user.                    *)
Marked(messages) ==
  [i \in 1..Len(messages) |->
     [messages[i] EXCEPT !.cached =
        /\ messages[i].role = "user"
        /\ \A j \in (i + 1)..Len(messages) : messages[j].role # "user"]]

(* build_messages; the instruction is always empty.                        *)
BuildMessages(conversation, attached) ==
  Marked([i \in 1..Len(conversation) |-> ApiMessage(conversation[i])]
         \o IF attached THEN <<Images>> ELSE <<>>)
=============================================================================
