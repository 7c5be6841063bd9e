-------------------------------- MODULE Batch --------------------------------
(***************************************************************************)
(* Batch mode (crates/ua-core/src/batch.rs): the agent loop without a      *)
(* terminal.  It journals and keeps its conversation as Session says, and  *)
(* gates the commands by Policy, by the judge (judge.rs) and by a limit on *)
(* denials in a row.                                                       *)
(*                                                                         *)
(* The calls of a response are numbered 1, 2, ...; the command of a call   *)
(* whose input has none is NoCommand.  Of the entries of the audit log     *)
(* (audit.rs) the kinds are kept.  System prompts, which no conversation is *)
(* built from, are left out, and so is the output.                         *)
(***************************************************************************)
EXTENDS Conversation, Policy, Settings

CONSTANTS
  Proposals,    \* sequences of commands a response may propose
  NoCommand,    \* the command of a malformed call
  HasText,      \* whether a response may have text
  MaxAgentDepth, \* config.security.max_agent_depth
  MaxResponses  \* bound: responses that propose commands

ASSUME BatchAssumption ==
  /\ \A proposal \in Proposals : Len(proposal) \in Nat /\ 1..Len(proposal) \subseteq ToolUse
  /\ HasText \subseteq BOOLEAN /\ MaxResponses \in Nat /\ MaxAgentDepth \in Nat

MAX_CONSECUTIVE_DENIALS == 3

Running  == -1
PANICKED == 101

VARIABLES
  pc,         \* what the loop is doing
  attached,   \* images are attached
  journaled,  \* the journal could be opened
  gate,       \* "Open", or what an unsafe verdict of the judge does
  journal,    \* the entries of the journal
  conv,       \* the conversation, an Option as in Session
  calls,      \* the calls of the last response
  risks,      \* the risk levels of its commands
  next,       \* the command that is run next
  verdict,    \* of the judge on this response
  denials,    \* denials in a row
  total,      \* commands run and denied
  audit,      \* entries of the audit log
  summary,    \* the Summary entries of the journal
  exit,       \* the code the process has ended with
  responses   \* counts for the bound

vars == <<pc, attached, journaled, gate, journal, conv, calls, risks, next, verdict, denials, total,
          audit, summary, exit, responses>>

settings == <<attached, journaled, gate>>
talk     == <<journal, conv>>
proposed == <<calls, risks, next, verdict>>
ending   == <<summary, exit>>

(* Command lines that do not start the REPL, with one file or none, and    *)
(* the agents above.                                                       *)
BatchCommand ==
  {cli \in CommandLine : HasInstruction(cli) /\ Cardinality(cli.attachments) <= 1}

Depth == 0..MaxAgentDepth

NoConversation == [some |-> FALSE, msgs |-> <<>>]
Kept(msgs)     == [some |-> TRUE, msgs |-> msgs]

CommandsOf(proposal) == Picked(proposal, {i \in 1..Len(proposal) : proposal[i] # NoCommand})
Commands             == CommandsOf(calls)
AllUses              == 1..Len(calls)

Init ==
  /\ pc = "Starting" /\ exit = Running
  /\ attached = FALSE /\ journaled = FALSE /\ gate = "Open"
  /\ journal = <<>> /\ conv = NoConversation
  /\ calls = <<>> /\ risks = <<>> /\ next = 1 /\ verdict = "None"
  /\ denials = 0 /\ total = [run |-> 0, denied |-> 0]
  /\ audit = <<>>
  /\ summary = <<>> /\ responses = 0

-----------------------------------------------------------------------------
(* Ends.                                                                   *)

(* Mutant of Exit: only a success writes the summary.                      *)
ExitSilently(code, counts) ==
  /\ pc' = "Exited" /\ exit' = code
  /\ summary' = IF journaled /\ code = 0
                THEN Append(summary, [run |-> counts.run, denied |-> counts.denied, code |-> code])
                ELSE summary

(* write_summary, and the return from run_batch.                           *)
Exit(code, counts) ==
  /\ pc' = "Exited" /\ exit' = code
  /\ summary' = IF journaled
                THEN Append(summary, [run |-> counts.run, denied |-> counts.denied, code |-> code])
                ELSE summary

(* A panic ends the process where it is.                                   *)
Panic == pc' = "Exited" /\ exit' = PANICKED /\ UNCHANGED summary

-----------------------------------------------------------------------------
(* The loop.                                                               *)

(* Mutant of Write: what was blocked is kept in memory only.               *)
WriteUnblocked(entry) ==
  IF journaled /\ entry.kind # "Blocked" THEN Append(journal, entry) ELSE journal

(* To the journal, if there is one.                                        *)
Write(entry) == IF journaled THEN Append(journal, entry) ELSE journal

(* n entries of one kind to the audit log.                                 *)
Log(kind, n) == audit' = audit \o [i \in 1..n |-> kind]

(* The conversation, built from the entries of the journal.                *)
Built(entries) ==
  {Kept(Messages(From(entries, i))) : i \in {j \in 1..Len(entries) : WalkStopsAt(entries, j)}}

(* What it is rebuilt to when it exceeds the budget; nothing if there is no*)
(* journal.                                                                *)
Rebuilt(entries) == IF journaled THEN Built(entries) ELSE {Kept(<<>>)}

OverBudget(msgs) == ConversationTokens(msgs) > Budget

(* Before run_batch and without an API key nothing is journaled, and no    *)
(* summary is written.                                                     *)
Start ==
  /\ pc = "Starting"
  /\ \E cli \in BatchCommand, command \in KeyCommand, security \in Security, depth \in Depth,
        inEnvironment, opens, computer_use, sandbox_active \in BOOLEAN :
       IF Launch(cli, depth, MaxAgentDepth) = "Refused" \/ ~HasApiKey(command, inEnvironment)
       THEN /\ pc' = "Exited" /\ exit' = 1
            /\ UNCHANGED <<settings, talk>>
       ELSE LET force == InForce(security, computer_use) IN
            /\ pc' = "Requesting"
            /\ attached' = (cli.attachments # {})
            /\ gate' = IF sandbox_active /\ force.judge_enabled
                       THEN ResolveJudgeMode(force, depth) ELSE "Open"
            /\ journaled' = opens
            /\ IF opens
               THEN journal' = <<Instruction(1)>> /\ conv' \in Built(<<Instruction(1)>>)
               ELSE journal' = <<>> /\ conv' = Kept(<<>>)
            /\ UNCHANGED exit
  /\ UNCHANGED <<proposed, denials, total, audit, summary, responses>>

(* A StreamEvent::Error: nothing of the response is kept.                  *)
StreamFails ==
  /\ pc = "Requesting"
  /\ Exit(1, total)
  /\ UNCHANGED <<settings, talk, proposed, denials, total, audit, responses>>

(* What proposes no command is the final answer, malformed calls or not.   *)
IsAnswer == Commands' = <<>>

(* The response goes to the journal and the conversation; if it proposes   *)
(* no command it is the answer.                                            *)
Respond(text, proposal) ==
  /\ pc = "Requesting"
  /\ calls' = proposal
  /\ risks' = [i \in 1..Len(Commands') |-> LineRisk(Commands'[i])]
  /\ LET response == Response(1, text, 1..Len(proposal)) IN
       /\ journal' = Write(response)
       /\ conv' = Kept(Append(conv.msgs, Assistant(response)))
  /\ IF IsAnswer
     THEN Exit(0, total) /\ UNCHANGED <<responses, audit>>
     ELSE /\ responses < MaxResponses /\ responses' = responses + 1
          /\ pc' = "Gating" /\ Log("proposed", 1) /\ UNCHANGED ending
  /\ UNCHANGED <<settings, next, verdict, denials, total>>

(* The results go to the journal, the conversation and the next request.   *)
Report(kind, uses) ==
  LET entry == Entry(kind, 1, FALSE, uses)
      pushed == Append(conv.msgs, User(<<entry>>))
  IN /\ pc' = "Requesting" /\ calls' = <<>> /\ risks' = <<>> /\ next' = 1 /\ verdict' = "None"
     /\ journal' = Write(entry)
     /\ IF OverBudget(pushed) THEN conv' \in Rebuilt(journal') ELSE conv' = Kept(pushed)

-----------------------------------------------------------------------------
(* The gate.                                                               *)

Denied == {i \in 1..Len(risks) : risks[i] = "Denied"}

HasDangerous ==
  \E i \in 1..Len(risks) : risks[i] \in {"Destructive", "Privileged", "Network"}

(* Mutant of Block: only the denied calls are answered.                    *)
BlockDenied == Report("Blocked", Denied)

(* Every call is answered by the reason.                                   *)
Block == Report("Blocked", AllUses)

(* Mutant of Deny: a denial is reported like a result, and not counted.    *)
DenyUncounted ==
  /\ pc = "Gating" /\ Denied # {}
  /\ total' = [total EXCEPT !.denied = @ + Cardinality(Denied)]
  /\ Log("blocked", Cardinality(Denied))
  /\ Block
  /\ UNCHANGED <<settings, denials, ending, responses>>

(* A denied command blocks the response; the third time in a row it ends   *)
(* the run.                                                                *)
Deny ==
  /\ pc = "Gating" /\ Denied # {}
  /\ denials' = denials + 1
  /\ total' = [total EXCEPT !.denied = @ + Cardinality(Denied)]
  /\ Log("blocked", Cardinality(Denied))
  /\ IF denials' >= MAX_CONSECUTIVE_DENIALS
     THEN Exit(1, total') /\ UNCHANGED <<talk, proposed>>
     ELSE Block /\ UNCHANGED ending
  /\ UNCHANGED <<settings, responses>>

(* The commands are approved, and about to be run.                         *)
Approve ==
  /\ pc' = "Executing"
  /\ total' = [total EXCEPT !.run = @ + Len(Commands)]

(* Mutant of Pass: the judge is not asked.                                 *)
PassUnjudged ==
  /\ pc = "Gating" /\ Denied = {}
  /\ denials' = 0
  /\ Approve /\ Log("approved", 1)
  /\ UNCHANGED <<settings, talk, proposed, ending, responses>>

(* Nothing is denied; the judge is asked of dangerous commands.            *)
Pass ==
  /\ pc = "Gating" /\ Denied = {}
  /\ denials' = 0
  /\ IF gate # "Open" /\ HasDangerous
     THEN pc' = "Judging" /\ UNCHANGED <<total, audit>>
     ELSE Approve /\ Log("approved", 1)
  /\ UNCHANGED <<settings, talk, proposed, ending, responses>>

(* What comes back from the judge: an object, bare, fenced or in a text;   *)
(* a text without one; braces in the wrong order, which extract_json cannot*)
(* slice; or an error of the call.                                         *)
JudgeReply == {"safe", "unsafe", "text", "}{", "failed"}

(* parse_judge_response                                                    *)
VerdictOf(reply) ==
  CASE reply = "safe" -> "Safe"
    [] reply = "unsafe" -> "Unsafe"
    [] reply \in {"text", "failed"} -> "Error"
    [] reply = "}{" -> "Panic"

JudgePanics(reply) ==
  /\ pc = "Judging" /\ VerdictOf(reply) = "Panic"
  /\ Panic
  /\ UNCHANGED <<settings, talk, proposed, denials, total, audit, responses>>

(* An unsafe verdict blocks the response in the Block mode.                *)
JudgeBlocks(reply) ==
  /\ pc = "Judging" /\ VerdictOf(reply) = "Unsafe" /\ gate = "Block"
  /\ Block /\ Log("judge_result", 1)
  /\ UNCHANGED <<settings, denials, total, ending, responses>>

(* In the Warn mode it is a warning; an error of the judge blocks nothing. *)
JudgeAllows(reply) ==
  /\ pc = "Judging" /\ VerdictOf(reply) \in {"Safe", "Unsafe", "Error"}
  /\ VerdictOf(reply) = "Unsafe" => gate = "Warn"
  /\ verdict' = VerdictOf(reply)
  /\ Approve
  /\ audit' = audit \o IF VerdictOf(reply) = "Error" THEN <<"approved">>
                       ELSE <<"judge_result", "approved">>
  /\ UNCHANGED <<settings, talk, calls, risks, next, denials, ending, responses>>

-----------------------------------------------------------------------------
(* Execution.                                                              *)

(* A command is run, or cannot be started; it is audited in both cases.    *)
(* Output that is truncated within a character panics.                     *)
RunCommand ==
  /\ pc = "Executing" /\ next <= Len(Commands)
  /\ next' = next + 1
  /\ Log("executed", 1)
  /\ Panic \/ UNCHANGED <<pc, ending>>
  /\ UNCHANGED <<settings, talk, calls, risks, verdict, denials, total, responses>>

(* The results carry the identifiers of the first calls.                   *)
ReportResults ==
  /\ pc = "Executing" /\ next > Len(Commands)
  /\ Report("ToolResult", 1..Len(Commands))
  /\ UNCHANGED <<settings, denials, total, audit, ending, responses>>

Next ==
  \/ Start \/ StreamFails \/ Deny \/ Pass \/ RunCommand \/ ReportResults
  \/ \E text \in HasText, proposal \in Proposals : Respond(text, proposal)
  \/ \E reply \in JudgeReply : JudgePanics(reply) \/ JudgeBlocks(reply) \/ JudgeAllows(reply)

Spec == Init /\ [][Next]_vars

-----------------------------------------------------------------------------
(* Properties.                                                             *)

(* Batch mode keeps its journal and its conversation as Session says, when *)
(* the journal can be opened.                                              *)
SessionPhase ==
  IF ~journaled \/ pc \in {"Starting", "Exited"} THEN "Idle"
  ELSE IF pc = "Requesting" THEN "Streaming" ELSE "Acting"

Abstract ==
  INSTANCE Session WITH
    phase      <- SessionPhase,
    conv       <- IF journaled /\ exit # 0 THEN conv ELSE NoConversation,
    turn       <- IF journaled THEN 1 ELSE 0,
    MaxEntries <- 2 * MaxResponses + 1

Implements == Abstract!Spec

(* No command of a batch that runs has a denied segment, or a downloader   *)
(* piped into a shell; and with the judge in force no batch runs with a    *)
(* segment that is destructive, privileged or of the network unless the    *)
(* judge found it safe or failed, or only warns.  The audit log tells it:  *)
(* what has been run follows the approval of its own proposal.             *)
OnlyGatedRuns ==
  pc = "Executing" =>
    /\ \A i \in 1..Len(Commands) : ~NetworkToShell(Commands[i])
    /\ \A s \in UNION {Segments(Commands[i]) : i \in 1..Len(Commands)} :
         /\ Classify(s) # "Denied"
         /\ Rank[Classify(s)] >= Rank["Destructive"] /\ gate # "Open" =>
              verdict \in {"Safe", "Error"} \cup (IF gate = "Warn" THEN {"Unsafe"} ELSE {})
    /\ LET before == Len(audit) - (next - 1)
           told == IF verdict \in {"Safe", "Unsafe"} THEN <<"proposed", "judge_result", "approved">>
                                                     ELSE <<"proposed", "approved">>
       IN SubSeq(audit, before - Len(told) + 1, before) = told

ResultsOf(entries) == Picked(entries, {i \in 1..Len(entries) : IsResult(entries[i])})

(* Denials are counted in a row: those counted are the last responses, and *)
(* without a judge no three responses in a row are reported as blocked.    *)
DenialsCounted ==
  journaled /\ pc = "Requesting" =>
    LET results == ResultsOf(journal) IN
    /\ \A k \in 0..(denials - 1) : results[Len(results) - k].kind = "Blocked"
    /\ gate = "Open" => \A i \in 1..(Len(results) - 2) :
                        \E j \in i..(i + 2) : results[j].kind # "Blocked"

Logged(kind) == Cardinality({i \in 1..Len(audit) : audit[i] = kind})

(* A run that has a journal and returns leaves exactly one summary, whose  *)
(* counts are those of the audit log and whose code is the one it exits    *)
(* with; it is a success exactly if the last response proposed nothing.    *)
SummaryTellsAll ==
  journaled /\ pc = "Exited" /\ exit # PANICKED =>
    /\ summary = <<[run |-> Logged("executed"), denied |-> Logged("blocked"), code |-> exit]>>
    /\ exit = 0 <=> /\ journal[Len(journal)].kind = "Response"
                     /\ Commands = <<>>
                     /\ journal[Len(journal)].uses = AllUses

Request == BuildMessages(conv.msgs, attached)

(* However its commands end, denied, blocked by the judge or run, every    *)
(* call of a well-formed response is answered by the request that follows, *)
(* also when the conversation is cut and whatever is attached: by the last *)
(* message, or the one before the images.  The cache is marked at the end. *)
CallsAnswered ==
  [][/\ pc # "Starting" /\ pc' = "Requesting" /\ journaled
     /\ NoCommand \notin {calls[i] : i \in AllUses}
     => LET last == Len(Request') - (IF attached THEN 1 ELSE 0) IN
        /\ Request'[last].role = "user" /\ Request'[last].results = AllUses
        /\ Request'[Len(Request')].cached]_vars

(* The risk of a line covers every rule that one of its segments triggers, *)
(* and a line the REPL warns of never counts as read-only or a build.      *)
RiskCoversRules ==
  pc = "Gating" =>
    \A i \in 1..Len(Commands) :
      LET risk == Rank[LineRisk(Commands[i])] IN
      /\ \A s \in Segments(Commands[i]) :
           /\ IsPrivilegeEscalation(Parse(s)) => risk >= Rank["Privileged"]
           /\ IsNetworkCommand(Parse(s)) => risk >= Rank["Network"]
           /\ IsDestructive(Parse(s)) => risk >= Rank["Destructive"]
           /\ IsWriteCommand(Parse(s)) => risk >= Rank["Write"]
      /\ IsDangerous(Commands[i]) => risk >= Rank["Write"]

(* "Combine commands with && or ; when possible" (the batch system prompt):*)
(* two commands of a response, combined to one, are never less risky than  *)
(* apart.                                                                  *)
CombiningKeepsRisk ==
  pc = "Gating" =>
    \A i, j \in 1..Len(Commands), and \in {"&&", ";"} :
      \A k \in {i, j} :
        Rank[LineRisk(Commands[i] \o <<and>> \o Commands[j])] >= Rank[LineRisk(Commands[k])]
=============================================================================
