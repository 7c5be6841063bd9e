----------------------------- MODULE Batch_proofs -----------------------------
(***************************************************************************)
(* Batch mode, for all proposals, costs, budgets and bounds: the gate, the *)
(* count of denials, the summary, the answers to every call, and that it   *)
(* implements the session.                                                 *)
(*                                                                         *)
(* Policy's part is that a line is as risky as the riskiest of its         *)
(* segments (SegmentCovered), and that the segments of two lines are among *)
(* those of the line that combines them (PartsCombined, SegmentsOfPart).   *)
(* Batch's part is an invariant over the loop in four pieces: what has     *)
(* been decided about the response that is being executed and what the     *)
(* audit log says of it (GateInv), what the journal and the conversation   *)
(* are (TalkInv), what the results in the journal say of the denials       *)
(* (DenialsInv), and what the audit log says of the counts (SummaryInv).   *)
(***************************************************************************)
EXTENDS Batch, Selection_proofs, FiniteSetTheorems

(***************************************************************************)
(* Conversations.  What Session_proofs shows of them holds of those of     *)
(* batch mode: they are the same.                                          *)
(***************************************************************************)

Talk ==
  INSTANCE Session_proofs WITH
    phase      <- SessionPhase,
    conv       <- IF journaled /\ exit # 0 THEN conv ELSE NoConversation,
    turn       <- IF journaled THEN 1 ELSE 0,
    MaxEntries <- 2 * MaxResponses + 1

(* A response that gives a message, and messages not made of one.          *)
IsFull(response) == response.uses # {} \/ response.text

NoResponses(message) ==
  Len(message.of) > 0 /\ \A k \in 1..Len(message.of) : message.of[k].kind # "Response"

LEMMA TalkAssumed == Talk!ConversationAssumption /\ Talk!SessionAssumption
<1>1. Talk!ConversationAssumption
  BY ConversationAssumption DEF Talk!ConversationAssumption, EntryKind, Talk!EntryKind
<1>2. Talk!SessionAssumption
  BY BatchAssumption DEF Talk!SessionAssumption
<1> QED BY <1>1, <1>2

LEMMA TalkAlike ==
  /\ Talk!EntryKind = EntryKind /\ Talk!JournalEntry = JournalEntry /\ Talk!Message = Message
  /\ Talk!Continuation = Continuation
  /\ \A es : Talk!Rounds(es) = Rounds(es) /\ Talk!Messages(es) = Messages(es)
  /\ \A msgs, e : Talk!AddEntry(msgs, e) = AddEntry(msgs, e)
  /\ \A es, i : Talk!From(es, i) = From(es, i)
  /\ \A kind, t, text, uses : Talk!Entry(kind, t, text, uses) = Entry(kind, t, text, uses)
  /\ \A e : Talk!Assistant(e) = Assistant(e) /\ Talk!User(<<e>>) = User(<<e>>)
  /\ \A e : Talk!IsResult(e) <=> IsResult(e)
  /\ \A m : Talk!Uses(m) = Uses(m) /\ Talk!Results(m) = Results(m)
  /\ \A m : Talk!NoResponses(m) <=> NoResponses(m)
<1>1. Talk!EntryKind = EntryKind /\ Talk!JournalEntry = JournalEntry
  BY DEF EntryKind, Talk!EntryKind, JournalEntry, Talk!JournalEntry
<1>2. Talk!Message = Message
  BY <1>1 DEF Message, Talk!Message
<1>3. Talk!Continuation = Continuation
  BY DEF Continuation, Talk!Continuation, User, Talk!User
<1>4. \A msgs, e : Talk!AddEntry(msgs, e) = AddEntry(msgs, e)
  BY DEF AddEntry, Talk!AddEntry, MergeOrPushUser, Talk!MergeOrPushUser, Assistant,
         Talk!Assistant, User, Talk!User
<1>5. \A es : Talk!Rounds(es) = Rounds(es)
  BY DEF Rounds, Talk!Rounds, AddEntry, Talk!AddEntry, MergeOrPushUser, Talk!MergeOrPushUser,
         Assistant, Talk!Assistant, User, Talk!User
<1>6. \A es : Talk!Messages(es) = Messages(es)
  BY <1>3, <1>5 DEF Messages, Talk!Messages
<1>7. /\ \A es, i : Talk!From(es, i) = From(es, i)
      /\ \A kind, t, text, uses : Talk!Entry(kind, t, text, uses) = Entry(kind, t, text, uses)
      /\ \A e : Talk!Assistant(e) = Assistant(e) /\ Talk!User(<<e>>) = User(<<e>>)
  BY DEF From, Talk!From, Entry, Talk!Entry, Assistant, Talk!Assistant, User, Talk!User
<1>8. \A e : Talk!IsResult(e) <=> IsResult(e)
  BY DEF IsResult, Talk!IsResult
<1>9. \A m : Talk!Uses(m) = Uses(m) /\ Talk!Results(m) = Results(m)
  BY DEF Uses, Talk!Uses, Results, Talk!Results, EntriesOf, Talk!EntriesOf, IsResult, Talk!IsResult
<1>10. \A m : Talk!NoResponses(m) <=> NoResponses(m)
  BY DEF NoResponses, Talk!NoResponses
<1> QED BY <1>1, <1>2, <1>3, <1>4, <1>5, <1>6, <1>7, <1>8, <1>9, <1>10

(* Entries.                                                                *)
LEMMA EntryTyped ==
  ASSUME NEW kind \in EntryKind, NEW t \in Nat, NEW text \in BOOLEAN,
         NEW uses \in SUBSET ToolUse
  PROVE  /\ Entry(kind, t, text, uses) \in JournalEntry
         /\ Entry(kind, t, text, uses).kind = kind
         /\ Entry(kind, t, text, uses).turn = t
         /\ Entry(kind, t, text, uses).uses = uses
  BY Talk!EntryTyped, TalkAssumed, TalkAlike

LEMMA FromAppend ==
  ASSUME NEW entries \in Seq(JournalEntry), NEW e \in JournalEntry, NEW i \in 1..Len(entries)
  PROVE  i \in 1..Len(Append(entries, e)) /\ From(Append(entries, e), i) = Append(From(entries, i), e)
  BY Talk!FromAppend, TalkAssumed, TalkAlike

(* Messages.                                                               *)
LEMMA UsesResults ==
  ASSUME NEW m \in Message
  PROVE  /\ \A u : u \in Uses(m) <=> \E k \in 1..Len(m.of) :
                                       m.of[k].kind = "Response" /\ u \in m.of[k].uses
         /\ \A u : u \in Results(m) <=> \E k \in 1..Len(m.of) :
                                          IsResult(m.of[k]) /\ u \in m.of[k].uses
  BY Talk!UsesResults, TalkAssumed, TalkAlike

LEMMA OfAssistant ==
  ASSUME NEW r \in JournalEntry, r.kind = "Response"
  PROVE  /\ Assistant(r) \in Message /\ Assistant(r).role = "assistant"
         /\ Uses(Assistant(r)) = r.uses /\ Results(Assistant(r)) = {}
  BY Talk!OfAssistant, TalkAssumed, TalkAlike

LEMMA OfUser ==
  ASSUME NEW e \in JournalEntry, e.kind # "Response"
  PROVE  /\ User(<<e>>) \in Message /\ User(<<e>>).role = "user" /\ NoResponses(User(<<e>>))
         /\ Results(User(<<e>>)) = IF IsResult(e) THEN e.uses ELSE {}
  BY Talk!OfUser, TalkAssumed, TalkAlike

LEMMA ContinuationTyped ==
  /\ Continuation \in Message /\ Continuation.role = "user" /\ Len(Continuation.of) = 0
  /\ <<Continuation>> \in Seq(Message) /\ Len(<<Continuation>>) = 1
  /\ <<Continuation>>[1] = Continuation
  BY Talk!ContinuationTyped, TalkAssumed, TalkAlike

(* Rounds of the conversion.                                               *)
LEMMA RoundsDefined ==
  ASSUME NEW es \in Seq(JournalEntry)
  PROVE  /\ Len(es) \in Nat
         /\ Rounds(es)[0] = <<>>
         /\ \A n \in 1..Len(es) : /\ n - 1 \in 0..Len(es) /\ es[n] \in JournalEntry
                                  /\ Rounds(es)[n] = AddEntry(Rounds(es)[n - 1], es[n])
         /\ \A n \in 0..Len(es) : Rounds(es)[n] \in Seq(Message)
  BY Talk!RoundsDefined, TalkAssumed, TalkAlike

LEMMA RoundsAppend ==
  ASSUME NEW es \in Seq(JournalEntry), NEW e \in JournalEntry
  PROVE  /\ Len(Append(es, e)) = Len(es) + 1
         /\ Rounds(Append(es, e))[Len(es) + 1] = AddEntry(Rounds(es)[Len(es)], e)
  BY Talk!RoundsAppend, TalkAssumed, TalkAlike

LEMMA MessagesAppend ==
  ASSUME NEW es \in Seq(JournalEntry), NEW e \in JournalEntry, NEW m \in Message,
         Rounds(es)[Len(es)] # <<>>,
         AddEntry(Rounds(es)[Len(es)], e) = Append(Rounds(es)[Len(es)], m)
  PROVE  Messages(Append(es, e)) = Append(Messages(es), m)
  BY Talk!MessagesAppend, TalkAssumed, TalkAlike

(***************************************************************************)
(* The commands of a proposal.                                             *)
(***************************************************************************)

(* A proposal's commands are no more than its calls.                       *)
LEMMA CommandsCounted ==
  ASSUME NEW proposal, Len(proposal) \in Nat
  PROVE  /\ Len(CommandsOf(proposal)) \in 0..Len(proposal)
         /\ CommandsOf(proposal) # <<>> => Len(CommandsOf(proposal)) > 0 /\ Len(proposal) > 0
         /\ CommandsOf(proposal) = <<>> => Len(CommandsOf(proposal)) = 0
         /\ NoCommand \notin {proposal[i] : i \in 1..Len(proposal)}
              => Len(CommandsOf(proposal)) = Len(proposal)
<1> DEFINE c == CommandsOf(proposal)
           positions == {i \in 1..Len(proposal) : proposal[i] # NoCommand}
           Words == {proposal[i] : i \in 1..Len(proposal)}
<1>w. \A i \in 1..Len(proposal) : proposal[i] \in Words
  OBVIOUS
<1>1. c = Picked(proposal, positions)
  BY DEF CommandsOf
<1>2. /\ c \in Seq(Words) /\ Len(c) \in 0..Len(proposal)
      /\ 1..Len(proposal) \subseteq positions => Len(c) = Len(proposal)
  <2> HIDE DEF positions, c, Words
  <2> QED BY <1>w, <1>1, PickedLen
<1>3. NoCommand \notin {proposal[i] : i \in 1..Len(proposal)} => 1..Len(proposal) \subseteq positions
  OBVIOUS
<1> HIDE DEF c, positions, Words
<1>4. c # <<>> => Len(c) > 0
  BY <1>2, EmptySeq
<1>5. c = <<>> => Len(c) = 0
  BY EmptySeq
<1> QED BY <1>2, <1>3, <1>4, <1>5 DEF c

(* An entry more: a result is one more of the results.                     *)
LEMMA ResultsAppend ==
  ASSUME NEW es \in Seq(JournalEntry), NEW e \in JournalEntry
  PROVE  /\ ResultsOf(es) \in Seq(JournalEntry)
         /\ ResultsOf(Append(es, e)) =
              IF IsResult(e) THEN Append(ResultsOf(es), e) ELSE ResultsOf(es)
<1> DEFINE N    == Len(es)
           more == Append(es, e)
           I    == {i \in 1..N : IsResult(es[i])}
           J    == {i \in 1..Len(more) : IsResult(more[i])}
           P    == PickedUpTo(es, I)
           Q    == PickedUpTo(more, J)
           T    == {n \in 0..N : P[n] = Q[n]}
<1>1. /\ N \in Nat /\ more \in Seq(JournalEntry) /\ Len(more) = N + 1 /\ more[N + 1] = e
      /\ \A n \in 1..N : more[n] = es[n]
  BY AppendProperties, LenProperties
<1>2. /\ P[0] = <<>> /\ P[N] = ResultsOf(es) /\ ResultsOf(es) \in Seq(JournalEntry)
      /\ \A n \in 1..N : P[n] = IF n \in I THEN Append(P[n - 1], es[n]) ELSE P[n - 1]
  <2>1. N \in 0..N /\ Len(es) \in Nat
    BY <1>1
  <2>2. ResultsOf(es) = P[N]
    BY DEF ResultsOf, Picked
  <2> HIDE DEF I
  <2>3. /\ P[0] = <<>>
        /\ \A n \in 1..Len(es) : P[n] = IF n \in I THEN Append(P[n - 1], es[n]) ELSE P[n - 1]
        /\ \A n \in 0..Len(es) : P[n] \in Seq(JournalEntry)
    BY <2>1, PickedDefined
  <2> HIDE DEF P
  <2> QED BY <2>1, <2>2, <2>3
<1>3. /\ Q[0] = <<>> /\ Q[N + 1] = ResultsOf(more)
      /\ \A n \in 1..(N + 1) : Q[n] = IF n \in J THEN Append(Q[n - 1], more[n]) ELSE Q[n - 1]
  <2>1. Len(more) = N + 1 /\ Len(more) \in Nat /\ more \in Seq(JournalEntry)
    BY <1>1
  <2> HIDE DEF more, J, N
  <2>3. \A i \in 1..Len(more) : more[i] \in JournalEntry
    BY <2>1
  <2>2. ResultsOf(more) = PickedUpTo(more, J)[Len(more)]
    BY DEF ResultsOf, Picked, J
  <2> QED BY <2>1, <2>2, <2>3, PickedDefined
<1>4. /\ \A n \in 1..N : n \in J <=> n \in I
      /\ N + 1 \in J <=> IsResult(e)
  BY <1>1
<1> HIDE DEF N, more, I, J, P, Q
<1>5. 0 \in T
  BY <1>1, <1>2, <1>3
<1>6. ASSUME NEW n \in 1..N, n - 1 \in T
      PROVE  n \in T
  <2>1. n \in 1..(N + 1) /\ n \in 0..N /\ more[n] = es[n] /\ P[n - 1] = Q[n - 1]
    BY <1>1, <1>6
  <2> QED BY <1>2, <1>3, <1>4, <2>1
<1>7. \A n \in 0..N : n \in T
  <2> HIDE DEF T
  <2> QED BY <1>1, <1>5, <1>6, InductionUpTo
<1>8. N + 1 \in 1..(N + 1) /\ (N + 1) - 1 = N /\ P[N] = Q[N]
  BY <1>1, <1>7
<1>9. Q[N + 1] = IF IsResult(e) THEN Append(Q[N], e) ELSE Q[N]
  BY <1>1, <1>3, <1>4, <1>8
<1> QED BY <1>2, <1>3, <1>8, <1>9 DEF more

-----------------------------------------------------------------------------
(* The risk of a line.                                                     *)

(* The risk levels are finitely many, so that any of them has a greatest.  *)
LEMMA GreatestRisk ==
  ASSUME NEW S, S \subseteq Risk, S # {}
  PROVE  \E risk \in S : \A other \in S : Rank[other] <= Rank[risk]
<1>1. \A risk \in Risk : Rank[risk] \in 0..6
  BY DEF Risk, Rank
<1>2. CASE "Denied" \in S
  BY <1>2 DEF Risk, Rank
<1>3. CASE "Denied" \notin S /\ "Privileged" \in S
  BY <1>3 DEF Risk, Rank
<1>4. CASE "Denied" \notin S /\ "Privileged" \notin S /\ "Network" \in S
  BY <1>4 DEF Risk, Rank
<1>5. CASE S \subseteq {"ReadOnly", "BuildTest", "Write", "Destructive"} /\ "Destructive" \in S
  BY <1>5 DEF Risk, Rank
<1>6. CASE S \subseteq {"ReadOnly", "BuildTest", "Write"} /\ "Write" \in S
  BY <1>6 DEF Risk, Rank
<1>7. CASE S \subseteq {"ReadOnly", "BuildTest"} /\ "BuildTest" \in S
  BY <1>7 DEF Risk, Rank
<1>8. CASE S = {"ReadOnly"}
  BY <1>8 DEF Rank
<1>9. PICK risk \in S : risk \in Risk
  OBVIOUS
<1>10. CASE S \subseteq {"ReadOnly"}
  BY <1>8, <1>9, <1>10
<1>11. \/ "Denied" \in S \/ "Privileged" \in S \/ "Network" \in S
       \/ S \subseteq {"ReadOnly", "BuildTest", "Write", "Destructive"}
  BY DEF Risk
<1>12. CASE S \subseteq {"ReadOnly", "BuildTest", "Write", "Destructive"}
  <2>1. "Destructive" \in S \/ S \subseteq {"ReadOnly", "BuildTest", "Write"}
    BY <1>12
  <2>2. CASE S \subseteq {"ReadOnly", "BuildTest", "Write"}
    <3>1. "Write" \in S \/ S \subseteq {"ReadOnly", "BuildTest"}
      BY <2>2
    <3>2. S \subseteq {"ReadOnly", "BuildTest"} => "BuildTest" \in S \/ S \subseteq {"ReadOnly"}
      OBVIOUS
    <3> QED BY <1>6, <1>7, <1>10, <2>2, <3>1, <3>2
  <2> QED BY <1>5, <1>12, <2>1, <2>2
<1> QED BY <1>2, <1>3, <1>4, <1>11, <1>12

(* A segment has one of the risk levels.                                   *)
LEMMA ClassifyIsRisk == \A segment : Classify(segment) \in Risk
BY DEF Classify, RiskOf, Risk

(* A line is no less risky than any of its segments, and a downloader piped*)
(* into a shell is denied whatever its segments are.                       *)
THEOREM SegmentCovered ==
  ASSUME NEW line, NEW segment \in Segments(line)
  PROVE  /\ LineRisk(line) \in Risk
         /\ Rank[Classify(segment)] <= Rank[LineRisk(line)]
<1> DEFINE levels == {Classify(s) : s \in Segments(line)}
<1>1. CASE NetworkToShell(line)
  <2>1. LineRisk(line) = "Denied"
    BY <1>1 DEF LineRisk
  <2> QED BY <2>1, ClassifyIsRisk DEF Risk, Rank
<1>2. CASE ~NetworkToShell(line)
  <2>1. levels \subseteq Risk /\ Classify(segment) \in levels
    BY ClassifyIsRisk
  <2>2. LineRisk(line) = CHOOSE risk \in levels : \A other \in levels : Rank[other] <= Rank[risk]
    BY <1>2 DEF LineRisk
  <2> HIDE DEF levels
  <2>3. \E risk \in levels : \A other \in levels : Rank[other] <= Rank[risk]
    BY <2>1, GreatestRisk
  <2>4. LineRisk(line) \in levels /\ \A other \in levels : Rank[other] <= Rank[LineRisk(line)]
    BY <2>2, <2>3
  <2> QED BY <2>1, <2>4
<1> QED BY <1>1, <1>2

(* The risk of a line covers every rule that one of its segments triggers, *)
(* and a line the REPL warns of is at least a write: the rules are tried   *)
(* from the most to the least risky, and none below a write knows what is  *)
(* warned of.                                                              *)
LEMMA RulesOfWords ==
  ASSUME NEW line, NEW segment \in Segments(line), segment # <<>>
  PROVE  LET p    == Parse(segment)
             risk == Rank[LineRisk(line)] IN
         /\ IsPrivilegeEscalation(p) => risk >= Rank["Privileged"]
         /\ IsNetworkCommand(p) => risk >= Rank["Network"]
         /\ IsDestructive(p) => risk >= Rank["Destructive"]
         /\ IsWriteCommand(p) => risk >= Rank["Write"]
         /\ p.binary = "git" /\ Has(p, {"-c"}) => risk >= Rank["Write"]
         /\ p.binary = "find" /\ Has(p, Executes) => risk >= Rank["Write"]
         /\ p.binary \in {"tar", "curl", "rsync", "xargs"} => risk >= Rank["Write"]
<1> DEFINE p    == Parse(segment)
           rule == RiskOf(p)
<1>1. /\ LineRisk(line) \in Risk /\ Rank[Classify(segment)] <= Rank[LineRisk(line)]
      /\ Classify(segment) \in {"Denied", rule}
  BY SegmentCovered DEF Classify
<1>2. rule \in Risk /\ Classify(segment) \in Risk
  BY ClassifyIsRisk DEF RiskOf, Risk
<1>3. /\ IsPrivilegeEscalation(p) => rule = "Privileged"
      /\ IsNetworkCommand(p) => rule \in {"Privileged", "Network"}
      /\ IsDestructive(p) => rule \in {"Privileged", "Network", "Destructive"}
      /\ IsWriteCommand(p) => rule \notin {"BuildTest", "ReadOnly"}
  BY DEF RiskOf
<1>4. /\ p.binary = "git" => rule \notin {"BuildTest", "ReadOnly"}
      /\ p.binary = "find" /\ Has(p, Executes) => rule \notin {"BuildTest", "ReadOnly"}
      /\ p.binary \in {"tar", "curl", "rsync", "xargs"} => rule \notin {"BuildTest", "ReadOnly"}
  BY DEF RiskOf, IsBuildCommand, IsReadOnly
<1>5. \A least \in Risk : Rank[rule] >= Rank[least] => Rank[LineRisk(line)] >= Rank[least]
  <2>1. Rank[rule] <= Rank["Denied"] /\ Rank["Denied"] = 6 /\ Rank[rule] \in 0..6
    BY <1>2 DEF Risk, Rank
  <2>2. \A risk \in Risk : Rank[risk] \in Int
    BY DEF Risk, Rank
  <2> HIDE DEF rule
  <2> QED BY <1>1, <1>2, <2>1, <2>2
<1> HIDE DEF rule, p
<1>6. /\ rule = "Privileged" => Rank[rule] >= Rank["Privileged"]
      /\ rule \in {"Privileged", "Network"} => Rank[rule] >= Rank["Network"]
      /\ rule \in {"Privileged", "Network", "Destructive"} => Rank[rule] >= Rank["Destructive"]
      /\ rule \notin {"BuildTest", "ReadOnly"} => Rank[rule] >= Rank["Write"]
  BY <1>2 DEF Risk, Rank
<1>7. {"Privileged", "Network", "Destructive", "Write"} \subseteq Risk
  BY DEF Risk
<1> QED BY <1>3, <1>4, <1>5, <1>6, <1>7 DEF p

(* Nothing is parsed from an empty segment.                                *)
LEMMA ParseNothing == Parse(<<>>).binary = ""
<1> DEFINE words == [i \in 1..Len(<<>>) |-> WordAt(<<>>, i)]
           positions == {i \in 1..Len(<<>>) : <<>>[i] # Quote}
<1>1. Len(<<>>) = 0 /\ 1..0 = {}
  OBVIOUS
<1>2. Len(words) = 0
  BY <1>1
<1>3. Tokens(<<>>) = Picked(words, positions)
  BY DEF Tokens
<1>4. Tokens(<<>>) = <<>>
  <2> HIDE DEF words, positions
  <2>1. Len(words) \in Nat /\ \A i \in 1..Len(words) : words[i] \in {}
    BY <1>1, <1>2
  <2>2. PickedUpTo(words, positions)[0] = <<>>
    BY <2>1, PickedDefined
  <2> QED BY <1>2, <1>3, <2>2 DEF Picked
<1>5. Cardinality({i \in 1..Len(Tokens(<<>>)) : \A j \in 1..i : Tokens(<<>>)[j] \in Wrapper}) = 0
  <2>1. {i \in 1..Len(Tokens(<<>>)) : \A j \in 1..i : Tokens(<<>>)[j] \in Wrapper} = {}
    BY <1>1, <1>4
  <2> QED BY <2>1, FS_EmptySet
<1>6. Len(Tokens(<<>>)) = 0 /\ ~(0 > 0) /\ 0 >= 0
  BY <1>1, <1>4
<1> QED BY <1>5, <1>6 DEF Parse

(* So of every segment.                                                    *)
THEOREM RulesCovered ==
  ASSUME NEW line, NEW segment \in Segments(line)
  PROVE  LET p    == Parse(segment)
             risk == Rank[LineRisk(line)] IN
         /\ IsPrivilegeEscalation(p) => risk >= Rank["Privileged"]
         /\ IsNetworkCommand(p) => risk >= Rank["Network"]
         /\ IsDestructive(p) => risk >= Rank["Destructive"]
         /\ IsWriteCommand(p) => risk >= Rank["Write"]
         /\ p.binary = "git" /\ Has(p, {"-c"}) => risk >= Rank["Write"]
         /\ p.binary = "find" /\ Has(p, Executes) => risk >= Rank["Write"]
         /\ p.binary \in {"tar", "curl", "rsync", "xargs"} => risk >= Rank["Write"]
<1>1. CASE segment = <<>>
  BY <1>1, ParseNothing DEF IsPrivilegeEscalation, IsNetworkCommand, IsDestructive, IsWriteCommand
<1>2. CASE segment # <<>>
  BY <1>2, RulesOfWords
<1> QED BY <1>1, <1>2

(* The risk of a proposed line covers every rule that one of its segments  *)
(* triggers, and a line the REPL warns of is at least a write (policy.rs). *)
THEOREM RulesCoveredByLines == Spec => []RiskCoversRules
<1>1. RiskCoversRules
  <2>1. SUFFICES ASSUME NEW i \in 1..Len(Commands)
                 PROVE  LET risk == Rank[LineRisk(Commands[i])] IN
                        /\ \A s \in Segments(Commands[i]) :
                             /\ IsPrivilegeEscalation(Parse(s)) => risk >= Rank["Privileged"]
                             /\ IsNetworkCommand(Parse(s)) => risk >= Rank["Network"]
                             /\ IsDestructive(Parse(s)) => risk >= Rank["Destructive"]
                             /\ IsWriteCommand(Parse(s)) => risk >= Rank["Write"]
                        /\ IsDangerous(Commands[i]) => risk >= Rank["Write"]
    BY DEF RiskCoversRules
  <2> DEFINE line == Commands[i]
  <2>2. ASSUME NEW s \in Segments(line)
        PROVE  /\ IsPrivilegeEscalation(Parse(s)) => Rank[LineRisk(line)] >= Rank["Privileged"]
               /\ IsNetworkCommand(Parse(s)) => Rank[LineRisk(line)] >= Rank["Network"]
               /\ IsDestructive(Parse(s)) => Rank[LineRisk(line)] >= Rank["Destructive"]
               /\ IsWriteCommand(Parse(s)) => Rank[LineRisk(line)] >= Rank["Write"]
    BY RulesCovered
  <2>3. ASSUME IsDangerous(line)
        PROVE  Rank[LineRisk(line)] >= Rank["Write"]
    <3>1. PICK s \in Segments(line) :
            \/ Parse(s).binary = "git" /\ Has(Parse(s), {"-c"})
            \/ Parse(s).binary = "find" /\ Has(Parse(s), Executes)
            \/ Parse(s).binary \in {"tar", "curl", "rsync", "xargs"}
      BY <2>3 DEF IsDangerous
    <3> QED BY <3>1, RulesCovered
  <2> QED BY <2>2, <2>3
<1> QED BY <1>1, PTL

-----------------------------------------------------------------------------
(* A line that combines two.                                               *)

(* A quote more or less turns within into without.                         *)
LEMMA QuoteFlips ==
  ASSUME NEW line, NEW i \in Nat, i >= 1
  PROVE  /\ ~InQuotes(line, 1)
         /\ line[i] = Quote => (InQuotes(line, i + 1) <=> ~InQuotes(line, i))
         /\ line[i] # Quote => (InQuotes(line, i + 1) <=> InQuotes(line, i))
<1> DEFINE Q(n) == {j \in 1..(n - 1) : line[j] = Quote}
<1>1. Q(1) = {} /\ Cardinality(Q(1)) = 0
  BY FS_EmptySet
<1>2. ~InQuotes(line, 1)
  <2>1. InQuotes(line, 1) <=> Cardinality(Q(1)) % 2 = 1
    BY DEF InQuotes
  <2> HIDE DEF Q
  <2> QED BY <1>1, <2>1
<1>3. IsFiniteSet(Q(i)) /\ Cardinality(Q(i)) \in Nat /\ i \notin Q(i)
  <2>1. IsFiniteSet(1..(i - 1)) /\ Q(i) \in SUBSET (1..(i - 1))
    BY FS_Interval
  <2>2. IsFiniteSet(Q(i))
    BY <2>1, FS_Subset
  <2>3. i \notin Q(i)
    OBVIOUS
  <2> HIDE DEF Q
  <2> QED BY <2>2, <2>3, FS_CardinalityType
<1>4. CASE line[i] = Quote
  <2>1. Q(i + 1) = Q(i) \cup {i}
    BY <1>4
  <2>2. /\ InQuotes(line, i) <=> Cardinality(Q(i)) % 2 = 1
        /\ InQuotes(line, i + 1) <=> Cardinality(Q(i + 1)) % 2 = 1
    BY DEF InQuotes
  <2> HIDE DEF Q
  <2>3. Cardinality(Q(i + 1)) = Cardinality(Q(i)) + 1
    BY <1>3, <2>1, FS_AddElement
  <2> DEFINE c == Cardinality(Q(i))
  <2>4. c \in Nat
    BY <1>3
  <2>5. (c + 1) % 2 = 1 <=> ~(c % 2 = 1)
    <3> HIDE DEF c
    <3> QED BY <2>4
  <2>6. InQuotes(line, i + 1) <=> ~InQuotes(line, i)
    BY <2>2, <2>3, <2>5
  <2> QED BY <1>2, <1>4, <2>6
<1>5. CASE line[i] # Quote
  <2>1. Q(i + 1) = Q(i)
    BY <1>5
  <2>2. /\ InQuotes(line, i) <=> Cardinality(Q(i)) % 2 = 1
        /\ InQuotes(line, i + 1) <=> Cardinality(Q(i + 1)) % 2 = 1
    BY DEF InQuotes
  <2> HIDE DEF Q
  <2> QED BY <1>2, <1>5, <2>1, <2>2
<1> QED BY <1>4, <1>5

(* Every quote of a line is closed.                                        *)
Closed(line) == ~InQuotes(line, Len(line) + 1)

(* The line begins with the lexemes of a part ...                          *)
BeginsWith(line, part) ==
  Len(part) + 1 \in 1..Len(line) /\ \A j \in 1..Len(part) : line[j] = part[j]

(* ... and goes on, from a position on, with those of another.             *)
GoesOnWith(line, part, at) ==
  Len(line) = at + Len(part) /\ \A j \in 1..Len(part) : line[at + j] = part[j]

(* Quotes are where they were in the parts.                                *)
LEMMA QuotesOfFirst ==
  ASSUME NEW line, NEW part, Len(part) \in Nat, BeginsWith(line, part),
         NEW i \in 1..(Len(part) + 1)
  PROVE  InQuotes(line, i) <=> InQuotes(part, i)
<1>1. {j \in 1..(i - 1) : line[j] = Quote} = {j \in 1..(i - 1) : part[j] = Quote}
  BY DEF BeginsWith
<1> QED BY <1>1 DEF InQuotes

LEMMA QuotesOfSecond ==
  ASSUME NEW line, NEW part, Len(part) \in Nat, NEW at \in Nat, at >= 1,
         GoesOnWith(line, part, at), ~InQuotes(line, at + 1)
  PROVE  \A k \in 0..Len(part) : InQuotes(line, at + k + 1) <=> InQuotes(part, k + 1)
<1> DEFINE N == Len(part)
           T == {k \in 0..N : InQuotes(line, at + k + 1) <=> InQuotes(part, k + 1)}
<1>1. N \in Nat /\ \A j \in 1..N : line[at + j] = part[j]
  BY DEF GoesOnWith
<1> HIDE DEF N
<1>2. 0 \in T
  <2>1. ~InQuotes(part, 1)
    BY QuoteFlips
  <2>2. at + 0 + 1 = at + 1 /\ 0 + 1 = 1 /\ 0 \in 0..N
    BY <1>1
  <2> QED BY <2>1, <2>2
<1>3. ASSUME NEW k \in 1..N, k - 1 \in T
      PROVE  k \in T
  <2>1. /\ at + (k - 1) + 1 = at + k /\ (k - 1) + 1 = k /\ k \in 0..N /\ k \in Nat /\ k >= 1
        /\ at + k \in Nat /\ at + k >= 1
    BY <1>1
  <2>2. InQuotes(line, at + k) <=> InQuotes(part, k)
    <3>1. InQuotes(line, at + (k - 1) + 1) <=> InQuotes(part, (k - 1) + 1)
      BY <1>3
    <3> QED BY <2>1, <3>1
  <2>3. line[at + k] = part[k]
    BY <1>1
  <2>4. /\ part[k] = Quote => (InQuotes(part, k + 1) <=> ~InQuotes(part, k))
        /\ part[k] # Quote => (InQuotes(part, k + 1) <=> InQuotes(part, k))
    BY <2>1, QuoteFlips
  <2> DEFINE p == at + k
  <2>5. p \in Nat /\ p >= 1
    BY <2>1
  <2> HIDE DEF p
  <2>6. /\ line[p] = Quote => (InQuotes(line, p + 1) <=> ~InQuotes(line, p))
        /\ line[p] # Quote => (InQuotes(line, p + 1) <=> InQuotes(line, p))
    BY <2>5, QuoteFlips
  <2>7. InQuotes(line, p + 1) <=> InQuotes(part, k + 1)
    BY <2>2, <2>3, <2>4, <2>6 DEF p
  <2> QED BY <2>1, <2>7 DEF p
<1>4. \A k \in 0..N : k \in T
  <2> HIDE DEF T
  <2> QED BY <1>1, <1>2, <1>3, InductionUpTo
<1> QED BY <1>4 DEF N

(* The lexemes of a part stand in the line from a position on, in and out  *)
(* of quotes as they are in the part, between two cuts.                    *)
PartAt(line, part, at) ==
  /\ {at, at + Len(part) + 1} \subseteq Cuts(line)
  /\ \A j \in 1..Len(part) :
       line[at + j] = part[j] /\ (InQuotes(line, at + j) <=> InQuotes(part, j))

(* So the line is cut where the part is.                                   *)
LEMMA CutsOfPart ==
  ASSUME NEW line, Len(line) \in Nat, NEW part, Len(part) \in Nat, NEW at \in Nat,
         PartAt(line, part, at)
  PROVE  \A k \in 0..(Len(part) + 1) : at + k \in Cuts(line) <=> k \in Cuts(part)
<1> SUFFICES ASSUME NEW k \in 0..(Len(part) + 1)
             PROVE  at + k \in Cuts(line) <=> k \in Cuts(part)
  OBVIOUS
<1>1. CASE k \in {0, Len(part) + 1}
  <2>1. k \in Cuts(part)
    BY <1>1 DEF Cuts
  <2>2. at + 0 = at /\ at + (Len(part) + 1) = at + Len(part) + 1
    OBVIOUS
  <2> QED BY <1>1, <2>1, <2>2 DEF PartAt
<1>2. CASE k \in 1..Len(part)
  <2>1. /\ line[at + k] = part[k] /\ (InQuotes(line, at + k) <=> InQuotes(part, k))
        /\ at + Len(part) + 1 \in 0..(Len(line) + 1)
    BY <1>2 DEF PartAt, Cuts
  <2>2. at + k \in 0..(Len(line) + 1) /\ at + k \notin {0, Len(line) + 1}
    BY <1>2, <2>1
  <2>3. k \in 0..(Len(part) + 1) /\ k \notin {0, Len(part) + 1}
    BY <1>2
  <2> DEFINE p == at + k
  <2>4. p \in Cuts(line) <=> (line[p] \in Operator /\ ~InQuotes(line, p))
    <3>1. p \in 0..(Len(line) + 1) /\ p \notin {0, Len(line) + 1}
      BY <2>2
    <3> HIDE DEF p
    <3> QED BY <3>1 DEF Cuts
  <2>5. k \in Cuts(part) <=> (part[k] \in Operator /\ ~InQuotes(part, k))
    BY <2>3 DEF Cuts
  <2> QED BY <2>1, <2>4, <2>5
<1> QED BY <1>1, <1>2

(* And has its segments, with the same neighbours.                         *)
LEMMA SegmentsOfPart ==
  ASSUME NEW Word, NEW line \in Seq(Word), NEW part \in Seq(Word), NEW at \in Nat,
         PartAt(line, part, at), NEW b \in Bounds(part)
  PROVE  /\ <<at + b[1], at + b[2]>> \in Bounds(line)
         /\ Segment(line, <<at + b[1], at + b[2]>>) = Segment(part, b)
<1> DEFINE N == Len(part)
           c == <<at + b[1], at + b[2]>>
<1>1. N \in Nat /\ Len(line) \in Nat
  BY LenProperties
<1>2. /\ b \in Cuts(part) \X Cuts(part) /\ b[1] < b[2]
      /\ \A i \in Cuts(part) : i <= b[1] \/ b[2] <= i
  BY DEF Bounds
<1>3. b[1] \in Cuts(part) /\ b[2] \in Cuts(part) /\ b[1] \in 0..(N + 1) /\ b[2] \in 0..(N + 1)
  BY <1>2 DEF Cuts
<1>4. /\ \A k \in 0..(N + 1) : at + k \in Cuts(line) <=> k \in Cuts(part)
      /\ at + N + 1 \in 0..(Len(line) + 1)
      /\ \A j \in 1..N : line[at + j] = part[j]
  <2>1. \A k \in 0..(N + 1) : at + k \in Cuts(line) <=> k \in Cuts(part)
    BY <1>1, CutsOfPart
  <2> QED BY <2>1 DEF PartAt, Cuts
<1>5. at + b[1] \in Cuts(line) /\ at + b[2] \in Cuts(line) /\ at + b[1] < at + b[2]
  <2>1. b[1] \in Int /\ b[2] \in Int
    BY <1>1, <1>3
  <2> QED BY <1>2, <1>3, <1>4, <2>1
<1>6. ASSUME NEW i \in Cuts(line)
      PROVE  i <= at + b[1] \/ at + b[2] <= i
  <2>1. i \in Int
    BY <1>1 DEF Cuts
  <2>2. CASE i - at \in 0..(N + 1)
    <3> DEFINE k == i - at
    <3>1. k \in 0..(N + 1) /\ at + k = i
      BY <2>1, <2>2
    <3>2. k \in Cuts(part)
      BY <1>4, <3>1
    <3>3. k <= b[1] \/ b[2] <= k
      BY <1>2, <3>2
    <3> HIDE DEF k
    <3> QED BY <1>1, <1>3, <3>1, <3>3
  <2>3. CASE i - at \notin 0..(N + 1)
    <3>1. i < at \/ i > at + N + 1
      BY <1>1, <2>1, <2>3
    <3> QED BY <1>1, <1>3, <2>1, <3>1
  <2> QED BY <2>2, <2>3
<1>7. c \in Bounds(line)
  <2>1. c[1] = at + b[1] /\ c[2] = at + b[2] /\ c \in Cuts(line) \X Cuts(line)
    BY <1>5
  <2>2. c[1] < c[2] /\ \A i \in Cuts(line) : i <= c[1] \/ c[2] <= i
    BY <1>5, <1>6, <2>1
  <2> HIDE DEF c
  <2> QED BY <2>1, <2>2 DEF Bounds
<1>8. Segment(line, c) = Segment(part, b)
  <2> DEFINE m == b[1] + 1
             n == b[2] - 1
             p == at + b[1] + 1
             q == (at + b[2]) - 1
             s == SubSeq(line, p, q)
             t == SubSeq(part, m, n)
  <2>1. /\ m \in Int /\ n \in Int /\ p = at + m /\ q = at + n /\ m >= 1 /\ n <= N
        /\ p \in Int /\ q \in Int /\ p >= 1 /\ q <= Len(line)
    <3> DEFINE x == b[1]
               y == b[2]
               L == Len(line)
    <3>1. /\ x \in 0..(N + 1) /\ y \in 0..(N + 1) /\ at + N + 1 \in 0..(L + 1)
          /\ N \in Nat /\ L \in Nat /\ at \in Nat
      BY <1>1, <1>3, <1>4
    <3>2. m = x + 1 /\ n = y - 1 /\ p = at + x + 1 /\ q = (at + y) - 1
      OBVIOUS
    <3> HIDE DEF x, y, L, N, m, n, p, q
    <3>3. p = at + m /\ q = at + n
      BY <3>1, <3>2
    <3>4. m \in Int /\ n \in Int /\ m >= 1 /\ n <= N
      BY <3>1, <3>2
    <3>5. p \in Int /\ q \in Int /\ p >= 1 /\ q <= L
      BY <3>1, <3>2
    <3> QED BY <3>3, <3>4, <3>5 DEF L
  <2>2. Segment(line, c) = s /\ Segment(part, b) = t
    <3>1. c[1] = at + b[1] /\ c[2] = at + b[2]
      OBVIOUS
    <3> HIDE DEF c
    <3>2. Segment(line, c) = SubSeq(line, c[1] + 1, c[2] - 1)
      BY DEF Segment
    <3>3. Segment(part, b) = t
      BY DEF Segment
    <3>4. c[1] + 1 = p /\ c[2] - 1 = q
      BY <3>1
    <3>5. Segment(line, c) = s
      BY <3>2, <3>4
    <3> QED BY <3>3, <3>5
  <2> HIDE DEF m, n, p, q
  <2>3. /\ \A i \in m..n : part[i] \in Word
        /\ \A i \in p..q : line[i] \in Word
    <3>1. \A i \in m..n : i \in 1..N
      BY <1>1, <2>1
    <3>2. \A i \in p..q : i \in 1..Len(line)
      BY <1>1, <2>1
    <3> QED BY <3>1, <3>2, ElementOfSeq
  <2>4. /\ t \in Seq(Word) /\ Len(t) = IF m <= n THEN n - m + 1 ELSE 0
        /\ \A i \in 1..(n - m + 1) : t[i] = part[m + i - 1]
    BY <2>1, <2>3, SubSeqProperties
  <2>5. /\ s \in Seq(Word) /\ Len(s) = IF p <= q THEN q - p + 1 ELSE 0
        /\ \A i \in 1..(q - p + 1) : s[i] = line[p + i - 1]
    BY <2>1, <2>3, SubSeqProperties
  <2> HIDE DEF s, t
  <2>6. Len(s) = Len(t) /\ q - p + 1 = n - m + 1
    BY <2>1, <2>4, <2>5
  <2>7. ASSUME NEW i \in 1..Len(s)
        PROVE  s[i] = t[i]
    <3>1. i \in 1..(n - m + 1)
      BY <2>1, <2>4, <2>6
    <3>2. m + i - 1 \in 1..N /\ p + i - 1 = at + (m + i - 1)
      BY <1>1, <2>1, <3>1
    <3>3. s[i] = line[p + i - 1] /\ t[i] = part[m + i - 1]
      BY <2>4, <2>5, <2>6, <3>1
    <3> QED BY <1>4, <3>2, <3>3
  <2> QED BY <2>2, <2>4, <2>5, <2>6, <2>7, SeqEqual
<1> QED BY <1>7, <1>8

(* There is a segment to classify in every line.                           *)
LEMMA SomeSegment ==
  ASSUME NEW line, Len(line) \in Nat
  PROVE  Segments(line) # {}
<1> DEFINE later == {i \in Cuts(line) : i > 0}
<1>1. later \subseteq Nat /\ Len(line) + 1 \in later /\ 0 \in Cuts(line)
  BY DEF Cuts
<1>2. PICK least \in later : \A i \in later : least <= i
  BY <1>1, LeastNumber
<1>3. \A i \in Cuts(line) : i <= 0 \/ least <= i
  <2>1. Cuts(line) \subseteq Nat
    BY DEF Cuts
  <2> QED BY <1>2, <2>1
<1>4. <<0, least>> \in Bounds(line)
  <2> DEFINE b == <<0, least>>
  <2>1. b \in Cuts(line) \X Cuts(line) /\ b[1] = 0 /\ b[2] = least /\ b[1] < b[2]
    BY <1>1, <1>2
  <2> HIDE DEF b
  <2>2. \A i \in Cuts(line) : i <= b[1] \/ b[2] <= i
    BY <1>3, <2>1
  <2>3. b \in Bounds(line)
    BY <2>1, <2>2 DEF Bounds
  <2> QED BY <2>3 DEF b
<1> QED BY <1>4 DEF Segments

(* A line is no less risky than a part of it.                              *)
LEMMA PartNoRiskier ==
  ASSUME NEW Word, NEW line \in Seq(Word), NEW part \in Seq(Word), NEW at \in Nat,
         PartAt(line, part, at)
  PROVE  Rank[LineRisk(line)] >= Rank[LineRisk(part)]
<1>0. Len(part) \in Nat /\ Len(line) \in Nat
  BY LenProperties
<1>1. Segments(part) \subseteq Segments(line)
  <2>1. SUFFICES ASSUME NEW b \in Bounds(part)
                 PROVE  Segment(part, b) \in Segments(line)
    BY DEF Segments
  <2> DEFINE c == <<at + b[1], at + b[2]>>
  <2>2. c \in Bounds(line) /\ Segment(line, c) = Segment(part, b)
    BY SegmentsOfPart
  <2> HIDE DEF c
  <2> QED BY <2>2 DEF Segments
<1>2. NetworkToShell(part) => NetworkToShell(line)
  <2>1. SUFFICES ASSUME NEW b \in Bounds(part), NEW c \in Bounds(part), b[2] = c[1],
                        Parse(Segment(part, b)).binary \in {"curl", "wget", "http"},
                        Parse(Segment(part, c)).binary \in {"bash", "sh"}
                 PROVE  NetworkToShell(line)
    BY DEF NetworkToShell
  <2> DEFINE d == <<at + b[1], at + b[2]>>
             e == <<at + c[1], at + c[2]>>
  <2>2. d \in Bounds(line) /\ Segment(line, d) = Segment(part, b)
    BY SegmentsOfPart
  <2>3. e \in Bounds(line) /\ Segment(line, e) = Segment(part, c)
    BY SegmentsOfPart
  <2>4. d[2] = e[1]
    BY <2>1
  <2> HIDE DEF d, e
  <2> QED BY <2>1, <2>2, <2>3, <2>4 DEF NetworkToShell
<1>3. \A risk \in Risk : Rank[risk] \in 0..6 /\ Rank[risk] <= Rank["Denied"]
  BY DEF Risk, Rank
<1>4. PICK some : some \in Segments(part)
  BY <1>0, SomeSegment
<1>5. LineRisk(line) \in Risk /\ LineRisk(part) \in Risk
  BY <1>1, <1>4, SegmentCovered
<1>6. CASE NetworkToShell(line)
  <2>1. LineRisk(line) = "Denied"
    BY <1>6 DEF LineRisk
  <2> QED BY <1>3, <1>5, <2>1
<1>7. CASE ~NetworkToShell(line)
  <2> DEFINE levels == {Classify(s) : s \in Segments(part)}
  <2>1. LineRisk(part) = CHOOSE risk \in levels : \A other \in levels : Rank[other] <= Rank[risk]
    BY <1>2, <1>7 DEF LineRisk
  <2>2. levels \subseteq Risk /\ levels # {}
    BY <1>4, ClassifyIsRisk
  <2>3. LineRisk(part) \in levels
    <3> HIDE DEF levels
    <3>1. \E risk \in levels : \A other \in levels : Rank[other] <= Rank[risk]
      BY <2>2, GreatestRisk
    <3> QED BY <2>1, <3>1
  <2>4. PICK s \in Segments(part) : LineRisk(part) = Classify(s)
    BY <2>3
  <2>5. Rank[Classify(s)] <= Rank[LineRisk(line)]
    BY <1>1, SegmentCovered
  <2> HIDE DEF levels
  <2> QED BY <1>3, <1>5, <2>4, <2>5
<1> QED BY <1>6, <1>7

(* Two lines are parts of the line that combines them, if the quotes of the*)
(* first are closed.                                                       *)
LEMMA PartsCombined ==
  ASSUME NEW Word, NEW first \in Seq(Word), NEW second \in Seq(Word),
         NEW joint \in Word, joint \in Operator, joint # Quote, Closed(first)
  PROVE  LET line == first \o <<joint>> \o second IN
         line \in Seq(Word) /\ PartAt(line, first, 0) /\ PartAt(line, second, Len(first) + 1)
<1> DEFINE M    == Len(first)
           N    == Len(second)
           one  == <<joint>>
           half == first \o one
           line == half \o second
<1>1. M \in Nat /\ N \in Nat /\ one \in Seq(Word) /\ Len(one) = 1 /\ one[1] = joint
  <2>1. M \in Nat
    BY LenProperties
  <2>2. N \in Nat
    BY LenProperties
  <2>3. one \in Seq(Word)
    OBVIOUS
  <2>4. Len(one) = 1
    OBVIOUS
  <2>5. one[1] = joint
    OBVIOUS
  <2> QED BY <2>1, <2>2, <2>3, <2>4, <2>5
<1>a. M = Len(first) /\ N = Len(second)
  OBVIOUS
<1> HIDE DEF one, M, N
<1>2. /\ half \in Seq(Word) /\ Len(half) = M + 1
      /\ \A j \in 1..(M + 1) : half[j] = IF j <= M THEN first[j] ELSE one[j - M]
  <2>1. half \in Seq(Word)
    BY <1>1, ConcatProperties
  <2>2. Len(half) = Len(first) + Len(one)
    BY <1>1, ConcatProperties
  <2>3. \A j \in 1..(Len(first) + Len(one)) :
          half[j] = IF j <= Len(first) THEN first[j] ELSE one[j - Len(first)]
    BY <1>1, ConcatProperties
  <2> HIDE DEF half
  <2> QED BY <1>a, <1>1, <2>1, <2>2, <2>3
<1> HIDE DEF half
<1>3. /\ line \in Seq(Word) /\ Len(line) = M + 1 + N
      /\ \A j \in 1..(M + 1 + N) : line[j] = IF j <= M + 1 THEN half[j] ELSE second[j - (M + 1)]
  <2>1. line \in Seq(Word)
    BY <1>2, ConcatProperties
  <2>2. Len(line) = Len(half) + Len(second)
    BY <1>2, ConcatProperties
  <2>3. \A j \in 1..(Len(half) + Len(second)) :
          line[j] = IF j <= Len(half) THEN half[j] ELSE second[j - Len(half)]
    BY <1>2, ConcatProperties
  <2> HIDE DEF line
  <2> QED BY <1>a, <1>1, <1>2, <2>1, <2>2, <2>3
<1> HIDE DEF line
<1>4. \A j \in 1..M : line[j] = first[j]
  <2> SUFFICES ASSUME NEW j \in 1..M PROVE line[j] = first[j]
    OBVIOUS
  <2>1. j \in 1..(M + 1 + N) /\ j <= M + 1 /\ j \in 1..(M + 1) /\ j <= M
    BY <1>1
  <2> HIDE DEF M, N
  <2> QED BY <1>2, <1>3, <2>1
<1>5. line[M + 1] = joint
  <2>1. M + 1 \in 1..(M + 1 + N) /\ M + 1 <= M + 1 /\ M + 1 \in 1..(M + 1) /\ ~(M + 1 <= M) /\ (M + 1) - M = 1
    BY <1>1
  <2> HIDE DEF M, N
  <2>2. line[M + 1] = half[M + 1]
    BY <1>3, <2>1
  <2>3. half[M + 1] = one[(M + 1) - M]
    BY <1>2, <2>1
  <2> QED BY <1>1, <2>1, <2>2, <2>3
<1>6. \A j \in 1..N : line[M + 1 + j] = second[j]
  <2> SUFFICES ASSUME NEW j \in 1..N PROVE line[M + 1 + j] = second[j]
    OBVIOUS
  <2>1. M + 1 + j \in 1..(M + 1 + N) /\ ~(M + 1 + j <= M + 1) /\ (M + 1 + j) - (M + 1) = j
    BY <1>1
  <2> HIDE DEF M, N
  <2>2. line[M + 1 + j] = second[(M + 1 + j) - (M + 1)]
    BY <1>3, <2>1
  <2> QED BY <2>1, <2>2
<1>7. BeginsWith(line, first) /\ GoesOnWith(line, second, M + 1)
  <2>1. M + 1 \in 1..(M + 1 + N)
    BY <1>1
  <2> QED BY <1>a, <1>3, <1>4, <1>6, <2>1 DEF BeginsWith, GoesOnWith
<1>8. \A i \in 1..(M + 1) : InQuotes(line, i) <=> InQuotes(first, i)
  BY <1>a, <1>1, <1>7, QuotesOfFirst
<1>9. ~InQuotes(line, M + 1) /\ ~InQuotes(line, (M + 1) + 1)
  <2>1. M + 1 \in 1..(M + 1) /\ M + 1 \in Nat /\ M + 1 >= 1
    BY <1>1
  <2>2. ~InQuotes(first, M + 1)
    BY <1>a DEF Closed
  <2>3. ~InQuotes(line, M + 1)
    BY <1>8, <2>1, <2>2
  <2>4. line[M + 1] # Quote
    BY <1>5
  <2> DEFINE p == M + 1
  <2>5. p \in Nat /\ p >= 1 /\ line[p] # Quote /\ ~InQuotes(line, p)
    BY <2>1, <2>3, <2>4
  <2> HIDE DEF p
  <2>6. ~InQuotes(line, p + 1)
    BY <2>5, QuoteFlips
  <2> QED BY <2>3, <2>6 DEF p
<1>10. \A k \in 0..N : InQuotes(line, M + 1 + k + 1) <=> InQuotes(second, k + 1)
  <2> DEFINE p == M + 1
  <2>1. p \in Nat /\ p >= 1 /\ GoesOnWith(line, second, p) /\ ~InQuotes(line, p + 1)
    BY <1>1, <1>7, <1>9
  <2> HIDE DEF p
  <2>2. \A k \in 0..N : InQuotes(line, p + k + 1) <=> InQuotes(second, k + 1)
    BY <1>a, <1>1, <2>1, QuotesOfSecond
  <2> QED BY <2>2 DEF p
<1>11. {0, M + 1, M + 1 + N + 1} \subseteq Cuts(line)
  <2>1. {0, M + 1 + N + 1} \subseteq Cuts(line)
    <3>1. Len(line) \in Nat /\ Len(line) + 1 = M + 1 + N + 1
      BY <1>1, <1>3
    <3> QED BY <3>1 DEF Cuts
  <2>2. M + 1 \in Cuts(line)
    <3> DEFINE p == M + 1
    <3>1. p \in 0..(Len(line) + 1) /\ line[p] \in Operator /\ ~InQuotes(line, p)
      <4>1. p \in 0..(Len(line) + 1)
        BY <1>1, <1>3
      <4>2. line[p] \in Operator
        BY <1>5
      <4> QED BY <1>9, <4>1, <4>2
    <3> HIDE DEF p
    <3>2. p \in Cuts(line)
      BY <3>1 DEF Cuts
    <3> QED BY <3>2 DEF p
  <2> QED BY <2>1, <2>2
<1>12. PartAt(line, first, 0)
  <2>1. 0 + M + 1 = M + 1 /\ \A j \in 1..M : 0 + j = j /\ j \in 1..(M + 1)
    BY <1>1
  <2>2. {0, 0 + Len(first) + 1} \subseteq Cuts(line)
    BY <1>a, <1>11, <2>1
  <2>3. ASSUME NEW j \in 1..M
        PROVE  line[0 + j] = first[j] /\ (InQuotes(line, 0 + j) <=> InQuotes(first, j))
    <3>1. 0 + j = j /\ j \in 1..(M + 1)
      BY <2>1
    <3> QED BY <1>4, <1>8, <3>1
  <2> QED BY <1>a, <2>2, <2>3 DEF PartAt
<1>13. PartAt(line, second, M + 1)
  <2>1. {M + 1, M + 1 + Len(second) + 1} \subseteq Cuts(line)
    BY <1>a, <1>11
  <2>2. ASSUME NEW j \in 1..N
        PROVE  InQuotes(line, M + 1 + j) <=> InQuotes(second, j)
    <3>1. j - 1 \in 0..N /\ M + 1 + (j - 1) + 1 = M + 1 + j /\ (j - 1) + 1 = j
      BY <1>1
    <3>2. InQuotes(line, M + 1 + (j - 1) + 1) <=> InQuotes(second, (j - 1) + 1)
      BY <1>10, <3>1
    <3> QED BY <3>1, <3>2
  <2> QED BY <1>a, <1>6, <2>1, <2>2 DEF PartAt
<1> QED BY <1>a, <1>3, <1>12, <1>13 DEF line, half, one

(* What may join two lines.                                                *)
LEMMA Joining ==
  ASSUME NEW joint \in {"&&", ";"}
  PROVE  joint \in Operator /\ joint # Quote
<1>1. joint = "&&" \/ joint = ";"
  BY Zenon
<1>2. joint # Quote
  BY <1>1, Zenon DEF Quote
<1>3. joint \in Operator
  BY <1>1, Zenon DEF Operator
<1> QED BY <1>2, <1>3

(* The commands of a proposal are among its lines.                         *)
LEMMA CommandsProposed ==
  ASSUME NEW proposal, Len(proposal) \in Nat
  PROVE  CommandsOf(proposal) \in
           Seq({proposal[i] : i \in {j \in 1..Len(proposal) : proposal[j] # NoCommand}})
<1> DEFINE kept == {i \in 1..Len(proposal) : proposal[i] # NoCommand}
<1>1. {k \in 1..Len(proposal) : k \in kept} = kept
  OBVIOUS
<1>2. CommandsOf(proposal) = Picked(proposal, kept)
  BY DEF CommandsOf
<1> HIDE DEF kept
<1>3. CommandsOf(proposal) \in Seq({proposal[i] : i \in {k \in 1..Len(proposal) : k \in kept}})
  BY <1>2, PickedAmong
<1>4. CommandsOf(proposal) \in Seq({proposal[i] : i \in kept})
  BY <1>1, <1>3
<1> QED BY <1>4 DEF kept

(* The calls of the last response, if any, are those of a proposal.        *)
CallsProposed == calls \in Proposals \cup {<<>>}

LEMMA CallsInit == Init => CallsProposed
BY DEF Init, CallsProposed

LEMMA CallsNext == CallsProposed /\ [Next]_vars => CallsProposed'
<1> SUFFICES ASSUME CallsProposed, [Next]_vars PROVE CallsProposed'
  OBVIOUS
<1>1. calls' \in Proposals \cup {<<>>} \/ calls' = calls
  BY DEF Next, Start, StreamFails, Deny, Pass, RunCommand, ReportResults, Respond, JudgePanics,
         JudgeBlocks, JudgeAllows, Block, Report, vars, proposed
<1> QED BY <1>1 DEF CallsProposed

(* Every line that may be proposed is a sequence of lexemes, and closes its*)
(* quotes: a shell would not run what follows one that does not.           *)
LinesClosed(Word) ==
  \A proposal \in Proposals : \A i \in 1..Len(proposal) :
    proposal[i] # NoCommand => proposal[i] \in Seq(Word) /\ Closed(proposal[i])

(* A line that combines two commands is no less risky than either.         *)
LEMMA CombinedRisk ==
  ASSUME NEW Word, Operator \subseteq Word, LinesClosed(Word), CallsProposed,
         NEW i \in 1..Len(Commands), NEW j \in 1..Len(Commands),
         NEW joint \in Operator, joint # Quote
  PROVE  LET risk == Rank[LineRisk(Commands[i] \o <<joint>> \o Commands[j])] IN
         risk >= Rank[LineRisk(Commands[i])] /\ risk >= Rank[LineRisk(Commands[j])]
<1> DEFINE lines == {calls[m] : m \in {n \in 1..Len(calls) : calls[n] # NoCommand}}
<1>1. Commands \in Seq(lines) /\ \A line \in lines : line \in Seq(Word) /\ Closed(line)
  <2>1. CASE calls \in Proposals
    <3>1. Len(calls) \in Nat
      BY <2>1, BatchAssumption
    <3> QED BY <2>1, <3>1, CommandsProposed DEF Commands, LinesClosed
  <2>2. CASE calls = <<>>
    <3>1. Len(calls) = 0 /\ Len(calls) \in Nat
      BY <2>2
    <3>2. 1..Len(calls) = {}
      BY <3>1
    <3>3. lines = {}
      BY <3>2
    <3> QED BY <3>1, <3>3, CommandsProposed DEF Commands
  <2> QED BY <2>1, <2>2 DEF CallsProposed
<1>2. Commands[i] \in lines /\ Commands[j] \in lines
  <2> HIDE DEF lines
  <2> QED BY <1>1, ElementOfSeq
<1> DEFINE first  == Commands[i]
           second == Commands[j]
           line   == first \o <<joint>> \o second
<1>3. first \in Seq(Word) /\ second \in Seq(Word) /\ Closed(first)
  BY <1>1, <1>2
<1>4. joint \in Word
  OBVIOUS
<1> HIDE DEF first, second
<1>5. /\ line \in Seq(Word) /\ PartAt(line, first, 0)
      /\ PartAt(line, second, Len(first) + 1) /\ Len(first) + 1 \in Nat
  <2>1. Len(first) + 1 \in Nat
    <3>1. Len(first) \in Nat
      BY <1>3, LenProperties
    <3> QED BY <3>1
  <2>2. line \in Seq(Word) /\ PartAt(line, first, 0) /\ PartAt(line, second, Len(first) + 1)
    BY <1>3, <1>4, PartsCombined
  <2> QED BY <2>1, <2>2
<1> HIDE DEF line
<1>6. Rank[LineRisk(line)] >= Rank[LineRisk(first)]
  BY <1>3, <1>5, PartNoRiskier
<1>7. Rank[LineRisk(line)] >= Rank[LineRisk(second)]
  <2> DEFINE at == Len(first) + 1
  <2>1. at \in Nat /\ PartAt(line, second, at)
    BY <1>5
  <2> HIDE DEF at
  <2> QED BY <1>3, <1>5, <2>1, PartNoRiskier
<1> QED BY <1>6, <1>7 DEF line, first, second

(* "Combine commands with && or ; when possible" (the batch system prompt, *)
(* batch.rs): a line that combines two commands of a response is no less   *)
(* risky than either, whatever the commands are.  Every line is to close   *)
(* its quotes: what is combined with one that does not is quoted by it.    *)
THEOREM CombinedNoLessRisky ==
  ASSUME NEW CONSTANT Word, Operator \subseteq Word, LinesClosed(Word)
  PROVE  Spec => []CombiningKeepsRisk
<1>1. CallsProposed => CombiningKeepsRisk
  <2>1. SUFFICES ASSUME CallsProposed, NEW i \in 1..Len(Commands), NEW j \in 1..Len(Commands),
                        NEW joint \in {"&&", ";"}, NEW k \in {i, j}
                 PROVE  Rank[LineRisk(Commands[i] \o <<joint>> \o Commands[j])]
                          >= Rank[LineRisk(Commands[k])]
    BY Zenon DEF CombiningKeepsRisk
  <2>2. joint \in Operator /\ joint # Quote
    BY Joining
  <2>3. LET risk == Rank[LineRisk(Commands[i] \o <<joint>> \o Commands[j])] IN
        risk >= Rank[LineRisk(Commands[i])] /\ risk >= Rank[LineRisk(Commands[j])]
    BY <2>1, <2>2, CombinedRisk, Zenon
  <2>4. k = i \/ k = j
    BY Zenon
  <2> QED BY <2>3, <2>4, Zenon
<1> QED BY <1>1, CallsInit, CallsNext, PTL DEF Spec

-----------------------------------------------------------------------------
(* The gate.                                                               *)

Undecided == pc \in {"Starting", "Requesting", "Gating", "Judging"} => verdict = "None" /\ next = 1

RisksKnown ==
  pc \in {"Gating", "Judging", "Executing"} =>
    /\ Len(Commands) \in Nat
    /\ risks = [i \in 1..Len(Commands) |-> LineRisk(Commands[i])]

NoneDenied == pc \in {"Judging", "Executing"} => Denied = {}

Allowing == {"Safe", "Error"} \cup (IF gate = "Warn" THEN {"Unsafe"} ELSE {})

Allowed == pc = "Executing" /\ HasDangerous /\ gate # "Open" => verdict \in Allowing

(* Where the approval of the batch that is being executed is in the log,   *)
(* and whether a judgement comes before it.                                *)
Approval == Len(audit) - (next - 1)
Judged   == IF verdict \in {"Safe", "Unsafe"} THEN 1 ELSE 0

LogKind == {"proposed", "blocked", "judge_result", "approved", "executed"}

AuditTells ==
  /\ audit \in Seq(LogKind)
  /\ pc \in {"Gating", "Judging"} => Len(audit) > 0 /\ audit[Len(audit)] = "proposed"
  /\ pc = "Executing" =>
       /\ next \in Nat \ {0}
       /\ 1 <= Approval - Judged - 1
       /\ audit[Approval] = "approved" /\ audit[Approval - Judged - 1] = "proposed"
       /\ Judged = 1 => audit[Approval - 1] = "judge_result"

GateInv == Undecided /\ RisksKnown /\ NoneDenied /\ Allowed /\ AuditTells

-----------------------------------------------------------------------------
(* Steps that leave the response behind.                                   *)
LEMMA LeavingKeeps ==
  ASSUME GateInv, audit' \in Seq(LogKind),
         \/ pc' = "Exited"
         \/ pc' = "Requesting" /\ verdict' = "None" /\ next' = 1
  PROVE  GateInv'
BY DEF GateInv, Undecided, RisksKnown, NoneDenied, Allowed, AuditTells

(* A log with n more entries of a kind, and with one.                      *)
LEMMA SameKind ==
  ASSUME NEW S, NEW log \in Seq(S), NEW kind \in S, NEW n \in Nat
  PROVE  /\ log \o [i \in 1..n |-> kind] \in Seq(S)
         /\ Len(log \o [i \in 1..n |-> kind]) = Len(log) + n
         /\ \A i \in 1..Len(log) : (log \o [j \in 1..n |-> kind])[i] = log[i]
         /\ n = 1 => (log \o [i \in 1..n |-> kind])[Len(log) + 1] = kind
<1> DEFINE new == [i \in 1..n |-> kind]
<1>1. new \in Seq(S) /\ Len(new) = n /\ (n = 1 => new[1] = kind)
  OBVIOUS
<1> HIDE DEF new
<1>2. log \o new \in Seq(S) /\ Len(log \o new) = Len(log) + n
      /\ \A i \in 1..Len(log) : (log \o new)[i] = log[i]
      /\ n = 1 => (log \o new)[Len(log) + 1] = kind
  BY <1>1, ConcatProperties, LenProperties
<1> QED BY <1>2 DEF new

(* What an entry, n times in the log, leaves of the log.                   *)
LEMMA LogFacts ==
  ASSUME audit \in Seq(LogKind), NEW kind \in LogKind, NEW n \in Nat, Log(kind, n)
  PROVE  /\ audit' \in Seq(LogKind) /\ Len(audit) \in Nat /\ Len(audit') = Len(audit) + n
         /\ \A i \in 1..Len(audit) : audit'[i] = audit[i]
         /\ n = 1 => audit'[Len(audit')] = kind
<1>1. audit' = audit \o [i \in 1..n |-> kind] /\ Len(audit) \in Nat
  BY DEF Log
<1>2. /\ audit' \in Seq(LogKind) /\ Len(audit') = Len(audit) + n
      /\ \A i \in 1..Len(audit) : audit'[i] = audit[i]
      /\ n = 1 => audit'[Len(audit) + 1] = kind
  BY <1>1, SameKind
<1> QED BY <1>1, <1>2

(* So one entry.                                                           *)
LEMMA LogOne ==
  ASSUME audit \in Seq(LogKind), NEW kind \in LogKind, Log(kind, 1)
  PROVE  /\ audit' \in Seq(LogKind) /\ Len(audit) \in Nat /\ Len(audit') = Len(audit) + 1
         /\ \A i \in 1..Len(audit) : audit'[i] = audit[i]
         /\ audit'[Len(audit')] = kind
<1>1. 1 \in Nat /\ 1 = 1
  OBVIOUS
<1> QED BY <1>1, LogFacts

(* The steps, one by one.                                                  *)
LEMMA StartKeeps ==
  ASSUME GateInv, Start
  PROVE  GateInv'
<1>1. pc = "Starting" /\ pc' \in {"Exited", "Requesting"} /\ UNCHANGED <<verdict, next, audit>>
  BY DEF Start, proposed
<1> QED BY <1>1, LeavingKeeps DEF GateInv, AuditTells, Undecided

(* A response is decided upon from the start.                              *)
LEMMA RespondKeeps ==
  ASSUME GateInv, NEW text \in HasText, NEW proposal \in Proposals, Respond(text, proposal)
  PROVE  GateInv'
<1>1. /\ pc = "Requesting" /\ UNCHANGED <<next, verdict>> /\ calls' = proposal
      /\ risks' = [i \in 1..Len(Commands') |-> LineRisk(Commands'[i])]
  BY DEF Respond
<1>2. CASE IsAnswer
  <2>1. pc' = "Exited" /\ audit' = audit
    BY <1>2 DEF Respond, Exit
  <2> QED BY <2>1, LeavingKeeps DEF GateInv, AuditTells
<1>3. CASE ~IsAnswer
  <2>1. pc' = "Gating" /\ Log("proposed", 1)
    BY <1>3 DEF Respond
  <2>2. Len(Commands') \in Nat
    <3>1. Commands' = CommandsOf(proposal)
      BY <1>1 DEF Commands
    <3> QED BY <3>1, BatchAssumption, CommandsCounted
  <2>3. /\ audit' \in Seq(LogKind) /\ Len(audit') > 0 /\ audit'[Len(audit')] = "proposed"
    <3>1. audit \in Seq(LogKind) /\ "proposed" \in LogKind
      BY DEF GateInv, AuditTells, LogKind
    <3> QED BY <2>1, <3>1, LogOne
  <2> QED BY <1>1, <2>1, <2>2, <2>3
          DEF GateInv, Undecided, RisksKnown, NoneDenied, Allowed, AuditTells
<1> QED BY <1>2, <1>3

(* The denied commands are counted.                                        *)
LEMMA DeniedCounted ==
  ASSUME GateInv, pc = "Gating"
  PROVE  Cardinality(Denied) \in Nat
<1>1. Len(risks) \in Nat
  BY DEF GateInv, RisksKnown
<1>2. IsFiniteSet(1..Len(risks)) /\ Denied \subseteq 1..Len(risks)
  BY <1>1, FS_Interval DEF Denied
<1> HIDE DEF Denied
<1> QED BY <1>2, FS_Subset, FS_CardinalityType

(* A denial leaves the response behind, or the loop.                       *)
LEMMA DenyKeeps ==
  ASSUME GateInv, Deny
  PROVE  GateInv'
<1>2. Cardinality(Denied) \in Nat
  BY DeniedCounted DEF Deny
<1>3. audit' \in Seq(LogKind)
  <2>1. Log("blocked", Cardinality(Denied))
    BY DEF Deny
  <2>2. audit \in Seq(LogKind) /\ "blocked" \in LogKind
    BY DEF GateInv, AuditTells, LogKind
  <2> QED BY <1>2, <2>1, <2>2, LogFacts
<1>4. \/ pc' = "Exited"
      \/ pc' = "Requesting" /\ verdict' = "None" /\ next' = 1
  BY DEF Deny, Exit, Block, Report
<1> QED BY <1>3, <1>4, LeavingKeeps

(* The commands are approved: the log ends with the proposal, the verdict  *)
(* if there is one, and the approval.                                      *)
LEMMA PassKeeps ==
  ASSUME GateInv, Pass
  PROVE  GateInv'
<1>1. /\ pc = "Gating" /\ Denied = {} /\ UNCHANGED <<gate, calls, risks, next, verdict>>
      /\ verdict = "None" /\ next = 1
  BY DEF Pass, settings, proposed, GateInv, Undecided
<1>2. RisksKnown' /\ NoneDenied'
  BY <1>1 DEF GateInv, RisksKnown, NoneDenied, Denied, Commands
<1>3. CASE gate # "Open" /\ HasDangerous
  <2>1. pc' = "Judging" /\ UNCHANGED audit
    BY <1>3 DEF Pass
  <2> QED BY <1>1, <1>2, <2>1 DEF GateInv, Undecided, Allowed, AuditTells
<1>4. CASE ~(gate # "Open" /\ HasDangerous)
  <2>1. pc' = "Executing" /\ Log("approved", 1)
    BY <1>4 DEF Pass, Approve
  <2>2. /\ audit \in Seq(LogKind) /\ "approved" \in LogKind
        /\ Len(audit) > 0 /\ audit[Len(audit)] = "proposed"
    BY <1>1 DEF GateInv, AuditTells, LogKind
  <2>3. AuditTells'
    <3>1. /\ audit' \in Seq(LogKind) /\ Len(audit) \in Nat /\ Len(audit') = Len(audit) + 1
          /\ \A i \in 1..Len(audit) : audit'[i] = audit[i]
          /\ audit'[Len(audit')] = "approved"
      BY <2>1, <2>2, LogOne
    <3> QED BY <1>1, <2>1, <2>2, <3>1 DEF AuditTells, Approval, Judged
  <2>4. Allowed'
    BY <1>1, <1>4 DEF Allowed, HasDangerous
  <2> QED BY <1>1, <1>2, <2>1, <2>3, <2>4 DEF GateInv, Undecided
<1> QED BY <1>3, <1>4

(* So are they by the judge.                                               *)
LEMMA JudgeAllowsKeeps ==
  ASSUME GateInv, NEW reply \in JudgeReply, JudgeAllows(reply)
  PROVE  GateInv'
<1>1. /\ pc = "Judging" /\ UNCHANGED <<gate, calls, risks, next>> /\ next = 1
      /\ pc' = "Executing"
      /\ verdict' \in {"Safe", "Unsafe", "Error"} /\ (verdict' = "Unsafe" => gate = "Warn")
  BY DEF JudgeAllows, settings, GateInv, Undecided, Approve
<1>2. RisksKnown' /\ NoneDenied'
  BY <1>1 DEF GateInv, RisksKnown, NoneDenied, Denied, Commands
<1>3. Allowed'
  BY <1>1 DEF Allowed, Allowing
<1>4. AuditTells'
  <2>1. /\ audit \in Seq(LogKind) /\ Len(audit) > 0 /\ audit[Len(audit)] = "proposed"
    BY <1>1 DEF GateInv, AuditTells
  <2>2. CASE verdict' = "Error"
    <3>1. audit' = audit \o <<"approved">>
      BY <2>2 DEF JudgeAllows
    <3>2. /\ audit' \in Seq(LogKind) /\ Len(audit) \in Nat /\ Len(audit') = Len(audit) + 1
          /\ audit'[Len(audit)] = audit[Len(audit)] /\ audit'[Len(audit) + 1] = "approved"
      BY <2>1, <3>1 DEF LogKind
    <3> QED BY <1>1, <2>1, <2>2, <3>2 DEF AuditTells, Approval, Judged
  <2>3. CASE verdict' \in {"Safe", "Unsafe"}
    <3>1. audit' = audit \o <<"judge_result", "approved">>
      BY <2>3 DEF JudgeAllows
    <3>2. /\ audit' \in Seq(LogKind) /\ Len(audit) \in Nat /\ Len(audit') = Len(audit) + 2
          /\ audit'[Len(audit)] = audit[Len(audit)]
          /\ audit'[Len(audit) + 1] = "judge_result" /\ audit'[Len(audit) + 2] = "approved"
      BY <2>1, <3>1 DEF LogKind
    <3> QED BY <1>1, <2>1, <2>3, <3>2 DEF AuditTells, Approval, Judged
  <2> QED BY <1>1, <2>2, <2>3
<1> QED BY <1>1, <1>2, <1>3, <1>4 DEF GateInv, Undecided

(* A command that is run is logged after the approval.                     *)
LEMMA RunCommandKeeps ==
  ASSUME GateInv, RunCommand
  PROVE  GateInv'
<1>1. /\ pc = "Executing" /\ UNCHANGED <<gate, calls, risks, verdict>> /\ next' = next + 1
      /\ pc' \in {"Executing", "Exited"} /\ Log("executed", 1)
  BY DEF RunCommand, settings, Panic
<1>2. audit \in Seq(LogKind) /\ "executed" \in LogKind
  BY DEF GateInv, AuditTells, LogKind
<1>3. /\ audit' \in Seq(LogKind) /\ Len(audit) \in Nat /\ Len(audit') = Len(audit) + 1
      /\ \A i \in 1..Len(audit) : audit'[i] = audit[i]
  BY <1>1, <1>2, LogOne
<1>4. CASE pc' = "Exited"
  BY <1>3, <1>4, LeavingKeeps
<1>5. CASE pc' = "Executing"
  <2>1. RisksKnown' /\ NoneDenied'
    BY <1>1 DEF GateInv, RisksKnown, NoneDenied, Denied, Commands
  <2>2. Allowed'
    BY <1>1 DEF GateInv, Allowed, Allowing, HasDangerous
  <2>3. AuditTells'
    <3>1. next \in Nat \ {0} /\ Judged \in {0, 1} /\ 1 <= Approval - Judged - 1
      BY <1>1 DEF GateInv, AuditTells, Judged
    <3>2. Approval' = Approval /\ Judged' = Judged /\ Approval \in 1..Len(audit)
      BY <1>1, <1>3, <3>1 DEF Approval, Judged
    <3>3. /\ audit'[Approval] = audit[Approval]
          /\ audit'[Approval - Judged - 1] = audit[Approval - Judged - 1]
          /\ Judged = 1 => audit'[Approval - 1] = audit[Approval - 1]
      BY <1>3, <3>1, <3>2
    <3> QED BY <1>1, <1>3, <1>5, <3>1, <3>2, <3>3 DEF GateInv, AuditTells
  <2> QED BY <1>5, <2>1, <2>2, <2>3 DEF GateInv, Undecided
<1> QED BY <1>1, <1>4, <1>5

(* The initial state, and every step.                                      *)
LEMMA GateInit == Init => GateInv
<1> SUFFICES ASSUME Init PROVE GateInv
  OBVIOUS
<1>1. audit \in Seq(LogKind)
  BY DEF Init
<1> QED BY <1>1 DEF Init, GateInv, Undecided, RisksKnown, NoneDenied, Allowed, AuditTells

(* Every step keeps what has been decided.                                 *)
LEMMA StepKeeps ==
  ASSUME GateInv, [Next]_vars
  PROVE  GateInv'
<1>0. audit \in Seq(LogKind)
  BY DEF GateInv, AuditTells
<1>1. CASE Start
  BY <1>1, StartKeeps
<1>2. CASE StreamFails
  BY <1>0, <1>2, LeavingKeeps DEF StreamFails, Exit
<1>3. CASE Deny
  BY <1>3, DenyKeeps
<1>4. CASE Pass
  BY <1>4, PassKeeps
<1>5. CASE RunCommand
  BY <1>5, RunCommandKeeps
<1>6. CASE ReportResults
  BY <1>0, <1>6, LeavingKeeps DEF ReportResults, Report
<1>7. CASE \E text \in HasText, proposal \in Proposals : Respond(text, proposal)
  BY <1>7, RespondKeeps
<1>8. CASE \E reply \in JudgeReply : JudgePanics(reply)
  BY <1>0, <1>8, LeavingKeeps DEF JudgePanics, Panic
<1>9. ASSUME NEW reply \in JudgeReply, JudgeBlocks(reply)
      PROVE  GateInv'
  <2>1. pc' = "Requesting" /\ verdict' = "None" /\ next' = 1 /\ Log("judge_result", 1)
    BY <1>9 DEF JudgeBlocks, Block, Report
  <2>2. "judge_result" \in LogKind
    BY DEF LogKind
  <2> QED BY <1>0, <2>1, <2>2, LogOne, LeavingKeeps
<1>10. CASE \E reply \in JudgeReply : JudgeAllows(reply)
  BY <1>10, JudgeAllowsKeeps
<1>11. CASE UNCHANGED vars
  BY <1>11 DEF vars, GateInv, Undecided, RisksKnown, NoneDenied, Denied, Commands, Allowed,
               Allowing, HasDangerous, AuditTells, Approval, Judged
<1> QED BY <1>1, <1>2, <1>3, <1>4, <1>5, <1>6, <1>7, <1>8, <1>9, <1>10, <1>11 DEF Next

-----------------------------------------------------------------------------
(* What the invariant says of the commands.                                *)
LEMMA CommandsGated ==
  ASSUME GateInv, pc = "Executing", NEW i \in 1..Len(Commands)
  PROVE  /\ ~NetworkToShell(Commands[i])
         /\ \A s \in Segments(Commands[i]) :
              /\ Classify(s) # "Denied"
              /\ Rank[Classify(s)] >= Rank["Destructive"] /\ gate # "Open" =>
                   verdict \in Allowing
<1> DEFINE risk == LineRisk(Commands[i])
<1>1. Len(risks) = Len(Commands) /\ i \in 1..Len(risks) /\ risks[i] = risk
  BY DEF GateInv, RisksKnown
<1>2. risk # "Denied"
  BY <1>1 DEF GateInv, NoneDenied, Denied
<1>3. ~NetworkToShell(Commands[i])
  BY <1>2 DEF LineRisk
<1>4. ASSUME NEW s \in Segments(Commands[i])
      PROVE  /\ Classify(s) # "Denied"
             /\ Rank[Classify(s)] >= Rank["Destructive"] /\ gate # "Open" => verdict \in Allowing
  <2>1. risk \in Risk /\ Rank[Classify(s)] <= Rank[risk] /\ Classify(s) \in Risk
    BY SegmentCovered, ClassifyIsRisk
  <2> HIDE DEF risk
  <2>2. Classify(s) # "Denied"
    BY <1>2, <2>1 DEF Risk, Rank
  <2>3. Rank[Classify(s)] >= Rank["Destructive"] => risk \in {"Destructive", "Privileged", "Network"}
    BY <1>2, <2>1 DEF Risk, Rank
  <2>4. risk \in {"Destructive", "Privileged", "Network"} => HasDangerous
    BY <1>1 DEF HasDangerous
  <2> QED BY <2>2, <2>3, <2>4 DEF GateInv, Allowed
<1> QED BY <1>3, <1>4

(* Short sequences, and parts of sequences, by their elements.             *)
LEMMA ShortSequences ==
  ASSUME NEW S, NEW s \in Seq(S)
  PROVE  /\ Len(s) = 2 => s = <<s[1], s[2]>>
         /\ Len(s) = 3 => s = <<s[1], s[2], s[3]>>
OBVIOUS

(* A part of a sequence.                                                   *)
LEMMA PartOf ==
  ASSUME NEW S, NEW s \in Seq(S), NEW m \in Nat, NEW n \in Nat, 1 <= m, m <= n, n <= Len(s)
  PROVE  /\ SubSeq(s, m, n) \in Seq(S) /\ Len(SubSeq(s, m, n)) = n - m + 1
         /\ \A i \in 1..(n - m + 1) : SubSeq(s, m, n)[i] = s[m + i - 1]
OBVIOUS

(* What the invariant says of the audit log.                               *)
LEMMA AuditGated ==
  ASSUME GateInv, pc = "Executing"
  PROVE  LET told == IF verdict \in {"Safe", "Unsafe"} THEN <<"proposed", "judge_result", "approved">>
                                                       ELSE <<"proposed", "approved">>
         IN SubSeq(audit, Approval - Len(told) + 1, Approval) = told
<1>1. /\ audit \in Seq(LogKind) /\ next \in Nat \ {0} /\ 1 <= Approval - Judged - 1
      /\ audit[Approval] = "approved" /\ audit[Approval - Judged - 1] = "proposed"
      /\ Judged = 1 => audit[Approval - 1] = "judge_result"
  BY DEF GateInv, AuditTells
<1>2. Len(audit) \in Nat /\ Approval \in Int /\ Approval <= Len(audit)
  BY <1>1 DEF Approval
<1>3. CASE verdict \in {"Safe", "Unsafe"}
  <2> DEFINE part == SubSeq(audit, Approval - 2, Approval)
  <2>1. Judged = 1
    BY <1>3 DEF Judged
  <2>2. /\ part \in Seq(LogKind) /\ Len(part) = 3
        /\ part[1] = audit[Approval - 2] /\ part[2] = audit[Approval - 1]
        /\ part[3] = audit[Approval]
    BY <1>1, <1>2, <2>1, PartOf
  <2>3. Approval - Len(<<"proposed", "judge_result", "approved">>) + 1 = Approval - 2
    BY <1>2
  <2>4. part = <<"proposed", "judge_result", "approved">>
    <3> HIDE DEF part
    <3>1. part[1] = "proposed" /\ part[2] = "judge_result" /\ part[3] = "approved"
      BY <1>1, <1>2, <2>1, <2>2
    <3>2. part = <<part[1], part[2], part[3]>>
      BY <2>2, ShortSequences
    <3> QED BY <3>1, <3>2
  <2> QED BY <1>3, <2>3, <2>4
<1>4. CASE verdict \notin {"Safe", "Unsafe"}
  <2> DEFINE part == SubSeq(audit, Approval - 1, Approval)
  <2>1. Judged = 0
    BY <1>4 DEF Judged
  <2>2. /\ part \in Seq(LogKind) /\ Len(part) = 2
        /\ part[1] = audit[Approval - 1] /\ part[2] = audit[Approval]
    BY <1>1, <1>2, <2>1, PartOf
  <2>3. Approval - Len(<<"proposed", "approved">>) + 1 = Approval - 1
    BY <1>2
  <2>4. part = <<"proposed", "approved">>
    <3> HIDE DEF part
    <3>1. part[1] = "proposed" /\ part[2] = "approved"
      BY <1>1, <1>2, <2>1, <2>2
    <3>2. part = <<part[1], part[2]>>
      BY <2>2, ShortSequences
    <3> QED BY <3>1, <3>2
  <2> QED BY <1>4, <2>3, <2>4
<1> QED BY <1>3, <1>4

(* Whatever is proposed, nothing of a batch that runs has a denied segment *)
(* or pipes a downloader into a shell, dangerous segments have passed the  *)
(* judge if it is in force, and the audit log has the proposal, the verdict*)
(* and the approval before what has been run.                              *)
THEOREM BatchRunsGatedOnly == Spec => []OnlyGatedRuns
<1>1. Init => GateInv
  BY GateInit
<1>2. GateInv /\ [Next]_vars => GateInv'
  BY StepKeeps
<1>3. GateInv => OnlyGatedRuns
  <2> SUFFICES ASSUME GateInv, pc = "Executing"
               PROVE  OnlyGatedRuns
    BY DEF OnlyGatedRuns
  <2> QED BY CommandsGated, AuditGated DEF OnlyGatedRuns, Allowing, Approval
<1> QED BY <1>1, <1>2, <1>3, PTL DEF Spec

-----------------------------------------------------------------------------
(* The conversation.                                                       *)

Conversations == [some : BOOLEAN, msgs : Seq(Message)]

(* What the journal and the conversation are while the commands of a       *)
(* response are decided upon and run.                                      *)
Waiting == pc \in {"Gating", "Judging", "Executing"}

Last == journal[Len(journal)]

TalkInv ==
  /\ journal \in Seq(JournalEntry) /\ conv \in Conversations /\ responses \in 0..MaxResponses
  /\ journaled \in BOOLEAN /\ attached \in BOOLEAN
  /\ pc = "Starting" => ~journaled /\ journal = <<>> /\ responses = 0
  /\ pc # "Exited" => exit = Running /\ summary = <<>>
  /\ journaled /\ pc \notin {"Starting", "Exited"} => conv.some
  /\ journaled /\ pc = "Requesting" => Len(journal) = 2 * responses + 1 /\ Last.kind # "Response"
  /\ journaled /\ Waiting => /\ Len(journal) = 2 * responses /\ Len(journal) > 0
                             /\ Last.kind = "Response" /\ Last.turn = 1 /\ Last.uses = AllUses
  /\ Waiting => Commands # <<>> /\ calls \in Proposals

(* Typed messages, whatever the order of the entries.                      *)
LEMMA MessagesTyped ==
  ASSUME NEW es \in Seq(JournalEntry)
  PROVE  Messages(es) \in Seq(Message)
<1> DEFINE raw == Rounds(es)[Len(es)]
<1>1. raw \in Seq(Message)
  <2>1. Len(es) \in 0..Len(es)
    BY LenProperties
  <2> QED BY <2>1, RoundsDefined
<1> HIDE DEF raw
<1>2. <<Continuation>> \o raw \in Seq(Message)
  BY <1>1, ContinuationTyped, ConcatProperties
<1> QED BY <1>1, <1>2 DEF Messages, raw

(* The entries from one on.                                                *)
LEMMA FromTyped ==
  ASSUME NEW es \in Seq(JournalEntry), NEW i \in 1..Len(es)
  PROVE  From(es, i) \in Seq(JournalEntry)
<1>1. Len(es) \in Nat
  BY LenProperties
<1> QED BY <1>1, SubSeqProperties DEF From

(* A conversation that is built from a journal.                            *)
LEMMA BuiltTyped ==
  ASSUME NEW es \in Seq(JournalEntry), NEW c \in Built(es)
  PROVE  c \in Conversations /\ c.some
<1>1. PICK i \in 1..Len(es) : c = Kept(Messages(From(es, i)))
  BY DEF Built
<1>2. Messages(From(es, i)) \in Seq(Message)
  BY FromTyped, MessagesTyped
<1> HIDE DEF Messages, From
<1> QED BY <1>1, <1>2 DEF Kept, Conversations

(* The entry of a report.                                                  *)
ReportKind == {"ToolResult", "Blocked"}

(* What is reported is a result.                                           *)
LEMMA ReportedEntry ==
  ASSUME NEW kind \in ReportKind, NEW uses \in SUBSET ToolUse
  PROVE  /\ Entry(kind, 1, FALSE, uses) \in JournalEntry
         /\ Entry(kind, 1, FALSE, uses).kind = kind /\ Entry(kind, 1, FALSE, uses).uses = uses
         /\ kind # "Response" /\ IsResult(Entry(kind, 1, FALSE, uses))
<1>1. kind \in EntryKind /\ kind # "Response" /\ 1 \in Nat /\ FALSE \in BOOLEAN
  BY DEF ReportKind, EntryKind
<1> DEFINE e == Entry(kind, 1, FALSE, uses)
<1>2. e \in JournalEntry /\ e.kind = kind /\ e.uses = uses
  BY <1>1 DEF Entry, JournalEntry
<1> HIDE DEF e
<1>3. IsResult(e)
  BY <1>2 DEF IsResult, ReportKind
<1> QED BY <1>1, <1>2, <1>3 DEF e

(* The calls of a proposal, and of its commands, have identifiers.         *)
LEMMA ProposalUses ==
  ASSUME NEW proposal \in Proposals
  PROVE  Len(proposal) \in Nat /\ 1..Len(proposal) \in SUBSET ToolUse
         /\ Len(CommandsOf(proposal)) \in 0..Len(proposal)
         /\ 1..Len(CommandsOf(proposal)) \in SUBSET ToolUse
<1>1. Len(proposal) \in Nat /\ 1..Len(proposal) \subseteq ToolUse
  BY BatchAssumption
<1>2. Len(CommandsOf(proposal)) \in 0..Len(proposal)
  BY <1>1, CommandsCounted
<1> QED BY <1>1, <1>2

(* The journal with an entry more.                                         *)
LEMMA JournalGrows ==
  ASSUME journal \in Seq(JournalEntry), NEW e \in JournalEntry
  PROVE  /\ Append(journal, e) \in Seq(JournalEntry) /\ Len(journal) \in Nat
         /\ Len(Append(journal, e)) = Len(journal) + 1
         /\ Append(journal, e)[Len(Append(journal, e))] = e
  BY AppendProperties, LenProperties

(* A report.                                                               *)
LEMMA ReportKeepsTalk ==
  ASSUME TalkInv, Waiting, NEW kind \in ReportKind, NEW uses \in SUBSET ToolUse,
         Report(kind, uses), UNCHANGED <<attached, journaled, responses, exit, summary>>
  PROVE  TalkInv'
<1> DEFINE e == Entry(kind, 1, FALSE, uses)
           pushed == Append(conv.msgs, User(<<e>>))
<1>1. e \in JournalEntry /\ e.kind = kind /\ kind # "Response" /\ User(<<e>>) \in Message
  BY ReportedEntry, OfUser
<1>2. /\ pc' = "Requesting" /\ journal' = IF journaled THEN Append(journal, e) ELSE journal
      /\ IF OverBudget(pushed) THEN conv' \in Rebuilt(journal') ELSE conv' = Kept(pushed)
  BY DEF Report, Write
<1>3. journal \in Seq(JournalEntry) /\ conv.msgs \in Seq(Message)
  BY DEF TalkInv, Conversations
<1> HIDE DEF e
<1>4. pushed \in Seq(Message)
  BY <1>1, <1>3, AppendProperties
<1>5. journal' \in Seq(JournalEntry)
  BY <1>1, <1>2, <1>3, JournalGrows
<1>6. conv' \in Conversations /\ conv'.some
  <2>1. Kept(pushed) \in Conversations /\ Kept(pushed).some
    <3> HIDE DEF pushed
    <3> QED BY <1>4 DEF Kept, Conversations
  <2>2. Kept(<<>>) \in Conversations /\ Kept(<<>>).some
    BY EmptySeq DEF Kept, Conversations
  <2> HIDE DEF pushed
  <2> QED BY <1>2, <1>5, <2>1, <2>2, BuiltTyped DEF Rebuilt
<1>7. journaled => Len(journal') = 2 * responses + 1 /\ Last'.kind # "Response"
  <2> SUFFICES ASSUME journaled PROVE Len(journal') = 2 * responses + 1 /\ Last'.kind # "Response"
    OBVIOUS
  <2>1. journal' = Append(journal, e) /\ Len(journal) = 2 * responses
    BY <1>2 DEF TalkInv
  <2>2. Len(journal') = Len(journal) + 1 /\ journal'[Len(journal')] = e
    BY <1>1, <1>3, <2>1, JournalGrows
  <2> QED BY <1>1, <2>1, <2>2 DEF Last
<1> QED BY <1>2, <1>5, <1>6, <1>7 DEF TalkInv, Waiting

(* The calls that a report answers.                                        *)
LEMMA WaitingUses ==
  ASSUME TalkInv, Waiting
  PROVE  /\ Len(calls) \in Nat \ {0} /\ AllUses \in SUBSET ToolUse
         /\ Len(Commands) \in 1..Len(calls) /\ 1..Len(Commands) \in SUBSET ToolUse
         /\ NoCommand \notin {calls[i] : i \in AllUses} => Len(Commands) = Len(calls)
<1>1. calls \in Proposals /\ Commands = CommandsOf(calls) /\ Commands # <<>>
  BY DEF TalkInv, Commands
<1>2. Len(calls) \in Nat /\ 1..Len(calls) \in SUBSET ToolUse /\ 1..Len(Commands) \in SUBSET ToolUse
  BY <1>1, ProposalUses
<1>3. /\ Len(Commands) \in 0..Len(calls) /\ Len(Commands) > 0
      /\ NoCommand \notin {calls[i] : i \in AllUses} => Len(Commands) = Len(calls)
  BY <1>1, <1>2, CommandsCounted DEF AllUses
<1> QED BY <1>2, <1>3 DEF AllUses

(* The initial state.                                                      *)
LEMMA TalkInit == Init => TalkInv
<1> SUFFICES ASSUME Init PROVE TalkInv
  OBVIOUS
<1>1. conv \in Conversations /\ journal \in Seq(JournalEntry)
  BY EmptySeq DEF Init, NoConversation, Conversations
<1>2. 0 \in 0..MaxResponses
  BY BatchAssumption
<1> QED BY <1>1, <1>2 DEF Init, TalkInv, Waiting

(* Every step keeps journal and conversation as they should be.            *)
LEMMA TalkNext == TalkInv /\ [Next]_vars => TalkInv'
<1> SUFFICES ASSUME TalkInv, [Next]_vars PROVE TalkInv'
  OBVIOUS
<1>t. /\ journal \in Seq(JournalEntry) /\ conv \in Conversations /\ responses \in 0..MaxResponses
      /\ journaled \in BOOLEAN /\ attached \in BOOLEAN
  BY DEF TalkInv
<1>1. CASE Start
  <2>1. /\ pc = "Starting" /\ UNCHANGED <<responses, calls, summary>> /\ exit = Running /\ summary = <<>>
        /\ ~journaled /\ journal = <<>> /\ responses = 0
    BY <1>1 DEF Start, proposed, TalkInv
  <2>2. CASE pc' = "Exited" /\ UNCHANGED <<settings, talk>>
    BY <1>t, <2>1, <2>2 DEF TalkInv, Waiting, settings, talk
  <2>3. CASE /\ pc' = "Requesting" /\ attached' \in BOOLEAN /\ journaled' = TRUE /\ exit' = exit
             /\ journal' = <<Instruction(1)>> /\ conv' \in Built(<<Instruction(1)>>)
    <3> DEFINE e == Instruction(1)
    <3>1. e \in JournalEntry /\ e.kind # "Response"
      BY EntryTyped DEF Instruction, EntryKind
    <3> HIDE DEF e
    <3>2. <<e>> \in Seq(JournalEntry) /\ Len(<<e>>) = 1 /\ <<e>>[1] = e
      BY <3>1
    <3>3. conv' \in Conversations /\ conv'.some
      BY <2>3, <3>2, BuiltTyped DEF e
    <3>4. journal' = <<e>>
      BY <2>3 DEF e
    <3>5. Len(journal') = 1 /\ Last'.kind # "Response"
      BY <3>1, <3>2, <3>4 DEF Last
    <3> QED BY <1>t, <2>1, <2>3, <3>2, <3>3, <3>4, <3>5 DEF TalkInv, Waiting
  <2>4. CASE /\ pc' = "Requesting" /\ attached' \in BOOLEAN /\ journaled' = FALSE /\ exit' = exit
             /\ journal' = <<>> /\ conv' = Kept(<<>>)
    <3>1. Kept(<<>>) \in Conversations /\ <<>> \in Seq(JournalEntry)
      BY EmptySeq DEF Kept, Conversations
    <3> QED BY <1>t, <2>1, <2>4, <3>1 DEF TalkInv, Waiting
  <2>5. PICK cli \in BatchCommand, opens \in BOOLEAN :
          \/ pc' = "Exited" /\ UNCHANGED <<settings, talk>>
          \/ /\ pc' = "Requesting" /\ attached' = (cli.attachments # {}) /\ journaled' = opens
             /\ UNCHANGED exit
             /\ IF opens
                THEN journal' = <<Instruction(1)>> /\ conv' \in Built(<<Instruction(1)>>)
                ELSE journal' = <<>> /\ conv' = Kept(<<>>)
    BY <1>1 DEF Start
  <2>6. opens = TRUE \/ opens = FALSE
    OBVIOUS
  <2> QED BY <2>2, <2>3, <2>4, <2>5, <2>6
<1>2. CASE StreamFails
  BY <1>2, <1>t DEF StreamFails, Exit, TalkInv, Waiting, settings, talk, proposed
<1>3. ASSUME NEW text \in HasText, NEW proposal \in Proposals, Respond(text, proposal)
      PROVE  TalkInv'
  <2> DEFINE e == Response(1, text, 1..Len(proposal))
  <2>1. text \in BOOLEAN /\ 1..Len(proposal) \in SUBSET ToolUse /\ "Response" \in EntryKind
    BY BatchAssumption, ProposalUses DEF EntryKind
  <2>2. /\ e \in JournalEntry /\ e.kind = "Response" /\ e.turn = 1 /\ e.uses = 1..Len(proposal)
        /\ Assistant(e) \in Message
    <3>1. e \in JournalEntry /\ e.kind = "Response" /\ e.turn = 1 /\ e.uses = 1..Len(proposal)
      BY <2>1, EntryTyped DEF Response
    <3> QED BY <3>1, OfAssistant
  <2>3. /\ pc = "Requesting" /\ calls' = proposal /\ UNCHANGED <<attached, journaled>>
        /\ journal' = IF journaled THEN Append(journal, e) ELSE journal
        /\ conv' = Kept(Append(conv.msgs, Assistant(e)))
    BY <1>3 DEF Respond, settings, Write
  <2> HIDE DEF e
  <2>4. conv' \in Conversations /\ conv'.some
    <3>1. Append(conv.msgs, Assistant(e)) \in Seq(Message)
      BY <1>t, <2>2, AppendProperties DEF Conversations
    <3> QED BY <2>3, <3>1 DEF Kept, Conversations
  <2>5. journal' \in Seq(JournalEntry)
    BY <1>t, <2>2, <2>3, JournalGrows
  <2>6. CASE IsAnswer
    <3>1. pc' = "Exited" /\ responses' = responses
      BY <1>3, <2>6 DEF Respond, Exit
    <3> QED BY <1>t, <2>3, <2>4, <2>5, <3>1 DEF TalkInv, Waiting
  <2>7. CASE ~IsAnswer
    <3>1. /\ pc' = "Gating" /\ responses < MaxResponses /\ responses' = responses + 1
          /\ UNCHANGED <<summary, exit>> /\ Commands' # <<>>
      BY <1>3, <2>7 DEF Respond, ending, IsAnswer
    <3>2. responses' \in 0..MaxResponses
      BY <1>t, <3>1, BatchAssumption
    <3>3. journaled => /\ Len(journal') = 2 * responses' /\ Len(journal') > 0
                       /\ Last'.kind = "Response" /\ Last'.turn = 1 /\ Last'.uses = AllUses'
      <4> SUFFICES ASSUME journaled
                   PROVE  /\ Len(journal') = 2 * responses' /\ Len(journal') > 0
                          /\ Last'.kind = "Response" /\ Last'.turn = 1 /\ Last'.uses = AllUses'
        OBVIOUS
      <4>1. journal' = Append(journal, e) /\ Len(journal) = 2 * responses + 1
        BY <2>3 DEF TalkInv
      <4>2. Len(journal') = Len(journal) + 1 /\ journal'[Len(journal')] = e
        BY <1>t, <2>2, <4>1, JournalGrows
      <4>3. AllUses' = 1..Len(proposal)
        BY <2>3 DEF AllUses
      <4> QED BY <1>t, <2>2, <3>1, <4>1, <4>2, <4>3 DEF Last
    <3> QED BY <1>t, <2>3, <2>4, <2>5, <3>1, <3>2, <3>3 DEF TalkInv, Waiting
  <2> QED BY <2>6, <2>7
<1>4. CASE Deny
  <2>1. Waiting /\ UNCHANGED <<attached, journaled, gate, responses>>
    BY <1>4 DEF Deny, Waiting, settings
  <2>2. CASE Exit(1, total') /\ UNCHANGED <<talk, proposed>>
    BY <1>t, <2>1, <2>2 DEF TalkInv, Waiting, Exit, talk, proposed
  <2>3. CASE Block /\ UNCHANGED ending
    <3>1. AllUses \in SUBSET ToolUse /\ "Blocked" \in ReportKind
      BY <2>1, WaitingUses DEF ReportKind
    <3> QED BY <2>1, <2>3, <3>1, ReportKeepsTalk DEF Block, ending
  <2> QED BY <1>4, <2>2, <2>3 DEF Deny
<1>5. CASE Pass
  <2>1. /\ pc = "Gating" /\ pc' \in {"Judging", "Executing"}
        /\ UNCHANGED <<attached, journaled, journal, conv, calls, summary, exit, responses>>
    BY <1>5 DEF Pass, Approve, settings, talk, proposed, ending
  <2> QED BY <1>t, <2>1 DEF TalkInv, Waiting, Last, AllUses, Commands
<1>6. CASE RunCommand
  <2>1. /\ pc = "Executing" /\ UNCHANGED <<attached, journaled, journal, conv, calls, responses>>
        /\ pc' = "Exited" \/ UNCHANGED <<pc, summary, exit>>
    BY <1>6 DEF RunCommand, Panic, settings, talk, ending
  <2> QED BY <1>t, <2>1 DEF TalkInv, Waiting, Last, AllUses, Commands
<1>7. CASE ReportResults
  <2>1. Waiting /\ UNCHANGED <<attached, journaled, responses, exit, summary>>
    BY <1>7 DEF ReportResults, Waiting, settings, ending
  <2>2. 1..Len(Commands) \in SUBSET ToolUse /\ "ToolResult" \in ReportKind
    BY <2>1, WaitingUses DEF ReportKind
  <2> QED BY <1>7, <2>1, <2>2, ReportKeepsTalk DEF ReportResults
<1>8. ASSUME NEW reply \in JudgeReply, JudgePanics(reply) PROVE TalkInv'
  BY <1>8, <1>t DEF JudgePanics, Panic, TalkInv, Waiting, settings, talk, proposed
<1>9. ASSUME NEW reply \in JudgeReply, JudgeBlocks(reply) PROVE TalkInv'
  <2>1. Waiting /\ UNCHANGED <<attached, journaled, responses, exit, summary>>
    BY <1>9 DEF JudgeBlocks, Waiting, settings, ending
  <2>2. AllUses \in SUBSET ToolUse /\ "Blocked" \in ReportKind
    BY <2>1, WaitingUses DEF ReportKind
  <2> QED BY <1>9, <2>1, <2>2, ReportKeepsTalk DEF JudgeBlocks, Block
<1>10. ASSUME NEW reply \in JudgeReply, JudgeAllows(reply) PROVE TalkInv'
  <2>1. /\ pc = "Judging" /\ pc' = "Executing"
        /\ UNCHANGED <<attached, journaled, journal, conv, calls, summary, exit, responses>>
    BY <1>10 DEF JudgeAllows, Approve, settings, talk, ending
  <2> QED BY <1>t, <2>1 DEF TalkInv, Waiting, Last, AllUses, Commands
<1>11. CASE UNCHANGED vars
  BY <1>11 DEF vars, TalkInv, Waiting, Last, AllUses, Commands
<1> QED BY <1>1, <1>2, <1>3, <1>4, <1>5, <1>6, <1>7, <1>8, <1>9, <1>10, <1>11 DEF Next

-----------------------------------------------------------------------------
(* Denials in a row.                                                       *)

(* Of the results, the last ones are the denials that are counted, and     *)
(* without a judge no more than they.                                      *)
Counted(results) ==
  /\ denials <= Len(results)
  /\ \A k \in 0..(denials - 1) : results[Len(results) - k].kind = "Blocked"
  /\ gate = "Open" /\ Len(results) > denials => results[Len(results) - denials].kind # "Blocked"

NoThreeBlocked(results) ==
  \A i \in 1..(Len(results) - 2) : \E j \in i..(i + 2) : results[j].kind # "Blocked"

DenialsInv ==
  /\ denials \in Nat
  /\ pc \in {"Starting", "Requesting", "Gating"} => denials < MAX_CONSECUTIVE_DENIALS
  /\ pc \in {"Starting", "Judging", "Executing"} => denials = 0
  /\ pc = "Judging" => gate # "Open"
  /\ journaled => /\ pc \in {"Requesting", "Gating"} => Counted(ResultsOf(journal))
                  /\ gate = "Open" => NoThreeBlocked(ResultsOf(journal))

(* Nothing is picked from an empty journal.                                *)
LEMMA NoResults == ResultsOf(<<>>) = <<>>
<1> DEFINE I == {i \in 1..Len(<<>>) : IsResult(<<>>[i])}
<1>1. Len(<<>>) = 0 /\ \A i \in 1..0 : FALSE
  OBVIOUS
<1>2. Len(<<>>) \in Nat /\ \A i \in 1..Len(<<>>) : <<>>[i] \in {}
  BY <1>1
<1>3. PickedUpTo(<<>>, I)[0] = <<>>
  <2> HIDE DEF I
  <2> QED BY <1>2, PickedDefined
<1> QED BY <1>1, <1>3 DEF ResultsOf, Picked

(* What a report does to the results.                                      *)
LEMMA ReportedResults ==
  ASSUME TalkInv, journaled, NEW kind \in ReportKind, NEW uses \in SUBSET ToolUse,
         Report(kind, uses)
  PROVE  /\ ResultsOf(journal) \in Seq(JournalEntry) /\ Len(ResultsOf(journal)) \in Nat
         /\ Len(ResultsOf(journal')) = Len(ResultsOf(journal)) + 1
         /\ \A i \in 1..Len(ResultsOf(journal)) : ResultsOf(journal')[i] = ResultsOf(journal)[i]
         /\ ResultsOf(journal')[Len(ResultsOf(journal)) + 1].kind = kind
<1> DEFINE e == Entry(kind, 1, FALSE, uses)
<1>1. e \in JournalEntry /\ e.kind = kind /\ IsResult(e)
  BY ReportedEntry
<1>2. journal' = Append(journal, e) /\ journal \in Seq(JournalEntry)
  BY DEF Report, Write, TalkInv
<1> HIDE DEF e
<1>3. ResultsOf(journal) \in Seq(JournalEntry) /\ ResultsOf(journal') = Append(ResultsOf(journal), e)
  BY <1>1, <1>2, ResultsAppend
<1> QED BY <1>1, <1>3, AppendProperties, LenProperties

(* A result more.                                                          *)
LEMMA NoThreeMore ==
  ASSUME NEW r \in Seq(JournalEntry), NEW s, Len(s) = Len(r) + 1,
         \A i \in 1..Len(r) : s[i] = r[i], NoThreeBlocked(r),
         \/ s[Len(r) + 1].kind # "Blocked"
         \/ Len(r) > 0 /\ r[Len(r)].kind # "Blocked"
         \/ Len(r) > 1 /\ r[Len(r) - 1].kind # "Blocked"
         \/ Len(r) < 2
  PROVE  NoThreeBlocked(s)
<1>1. Len(r) \in Nat
  BY LenProperties
<1>2. SUFFICES ASSUME NEW i \in 1..(Len(s) - 2)
               PROVE  \E j \in i..(i + 2) : s[j].kind # "Blocked"
  BY DEF NoThreeBlocked
<1>3. CASE i \in 1..(Len(r) - 2)
  <2>1. PICK j \in i..(i + 2) : r[j].kind # "Blocked"
    BY <1>3 DEF NoThreeBlocked
  <2>2. j \in 1..Len(r)
    BY <1>1, <1>3
  <2> QED BY <2>1, <2>2
<1>4. CASE i \notin 1..(Len(r) - 2)
  <2>1. i = Len(r) - 1 /\ Len(r) \in i..(i + 2) /\ Len(r) + 1 \in i..(i + 2) /\ Len(r) - 1 \in i..(i + 2)
        /\ Len(r) \in 1..Len(r) /\ Len(r) - 1 \in 1..Len(r) /\ ~(Len(r) < 2)
    BY <1>1, <1>4
  <2>2. s[Len(r)] = r[Len(r)] /\ s[Len(r) - 1] = r[Len(r) - 1]
    BY <2>1
  <2> QED BY <2>1, <2>2
<1> QED BY <1>3, <1>4

(* A report keeps the count, if what it reports is counted.                *)
LEMMA ReportKeepsDenials ==
  ASSUME TalkInv, DenialsInv, Waiting, NEW kind \in ReportKind, NEW uses \in SUBSET ToolUse,
         Report(kind, uses), UNCHANGED <<journaled, gate>>,
         \/ /\ kind = "Blocked" /\ pc = "Gating"
            /\ denials' = denials + 1 /\ denials' < MAX_CONSECUTIVE_DENIALS
         \/ kind = "Blocked" /\ pc = "Judging" /\ denials' = denials
         \/ kind = "ToolResult" /\ pc = "Executing" /\ denials' = denials
  PROVE  DenialsInv'
<1>1. pc' = "Requesting" /\ denials \in Nat /\ denials' \in Nat /\ denials' < MAX_CONSECUTIVE_DENIALS
  BY DEF Report, DenialsInv, MAX_CONSECUTIVE_DENIALS
<1>2. SUFFICES ASSUME journaled
               PROVE  /\ Counted(ResultsOf(journal))'
                      /\ gate = "Open" => NoThreeBlocked(ResultsOf(journal'))
  BY <1>1 DEF DenialsInv, NoThreeBlocked
<1> DEFINE r == ResultsOf(journal)
           s == ResultsOf(journal')
<1>3. /\ r \in Seq(JournalEntry) /\ Len(r) \in Nat /\ Len(s) = Len(r) + 1
      /\ \A i \in 1..Len(r) : s[i] = r[i]
      /\ s[Len(r) + 1].kind = kind
  BY <1>2, ReportedResults
<1>4. gate = "Open" => NoThreeBlocked(r)
  BY <1>2 DEF DenialsInv
<1>5. pc = "Gating" => /\ denials <= Len(r)
                       /\ \A k \in 0..(denials - 1) : r[Len(r) - k].kind = "Blocked"
                       /\ gate = "Open" /\ Len(r) > denials => r[Len(r) - denials].kind # "Blocked"
  BY <1>2 DEF DenialsInv, Counted
<1>6. (pc = "Judging" => gate # "Open") /\ (pc \in {"Judging", "Executing"} => denials = 0)
  BY DEF DenialsInv
<1> HIDE DEF r, s
<1>7. /\ denials' <= Len(s)
      /\ \A k \in 0..(denials' - 1) : s[Len(s) - k].kind = "Blocked"
      /\ gate = "Open" /\ Len(s) > denials' => s[Len(s) - denials'].kind # "Blocked"
  <2>1. CASE pc = "Gating"
    <3>1. denials' = denials + 1 /\ denials <= Len(r) /\ s[Len(r) + 1].kind = "Blocked"
      BY <1>3, <1>5, <2>1
    <3>2. ASSUME NEW k \in 0..(denials' - 1) PROVE s[Len(s) - k].kind = "Blocked"
      <4>1. CASE k = 0
        BY <1>3, <3>1, <4>1
      <4>2. CASE k # 0
        <5>1. /\ k - 1 \in 0..(denials - 1) /\ Len(s) - k = Len(r) - (k - 1)
              /\ Len(r) - (k - 1) \in 1..Len(r)
          BY <1>1, <1>3, <3>1, <4>2
        <5> QED BY <1>3, <1>5, <2>1, <5>1
      <4> QED BY <4>1, <4>2
    <3>3. ASSUME gate = "Open", Len(s) > denials' PROVE s[Len(s) - denials'].kind # "Blocked"
      <4>1. /\ Len(r) > denials /\ Len(s) - denials' = Len(r) - denials
            /\ Len(r) - denials \in 1..Len(r)
        BY <1>1, <1>3, <3>1, <3>3
      <4> QED BY <1>3, <1>5, <2>1, <3>3, <4>1
    <3> QED BY <1>1, <1>3, <3>1, <3>2, <3>3
  <2>2. CASE pc = "Judging"
    BY <1>1, <1>3, <1>6, <2>2
  <2>3. CASE pc = "Executing"
    BY <1>1, <1>3, <1>6, <2>3
  <2> QED BY <2>1, <2>2, <2>3 DEF Waiting
<1>8. gate = "Open" => NoThreeBlocked(s)
  <2>1. SUFFICES ASSUME gate = "Open" PROVE NoThreeBlocked(s)
    OBVIOUS
  <2>2. CASE pc = "Executing"
    <3>1. s[Len(r) + 1].kind # "Blocked"
      BY <1>3, <2>2
    <3> QED BY <1>3, <1>4, <2>1, <3>1, NoThreeMore
  <2>3. CASE pc = "Gating" /\ Len(r) >= 2
    <3>1. denials \in {0, 1}
      BY <1>1, <2>3 DEF MAX_CONSECUTIVE_DENIALS
    <3>2. r[Len(r)].kind # "Blocked" \/ r[Len(r) - 1].kind # "Blocked"
      BY <1>3, <1>5, <2>1, <2>3, <3>1
    <3>3. Len(r) > 0 /\ Len(r) > 1
      BY <1>3, <2>3
    <3> QED BY <1>3, <1>4, <2>1, <3>2, <3>3, NoThreeMore
  <2>4. CASE Len(r) < 2
    BY <1>3, <1>4, <2>1, <2>4, NoThreeMore
  <2>5. Len(r) >= 2 \/ Len(r) < 2
    BY <1>3
  <2> QED BY <1>6, <2>1, <2>2, <2>3, <2>4, <2>5 DEF Waiting
<1> QED BY <1>7, <1>8 DEF Counted, r, s

(* The initial state.                                                      *)
LEMMA DenialsInit == Init => DenialsInv
  BY DEF Init, DenialsInv, MAX_CONSECUTIVE_DENIALS

(* Every step keeps the count.                                             *)
LEMMA DenialsNext == TalkInv /\ DenialsInv /\ [Next]_vars => DenialsInv'
<1> SUFFICES ASSUME TalkInv, DenialsInv, [Next]_vars PROVE DenialsInv'
  OBVIOUS
<1>t. denials \in Nat
  BY DEF DenialsInv
<1>e. (journaled /\ gate = "Open" => NoThreeBlocked(ResultsOf(journal)))
  BY DEF DenialsInv
<1>1. CASE Start
  <2>1. pc = "Starting" /\ ~journaled /\ denials = 0 /\ denials' = 0
    BY <1>1 DEF Start, TalkInv, DenialsInv
  <2>2. PICK cli \in BatchCommand, opens \in BOOLEAN :
          \/ pc' = "Exited" /\ UNCHANGED <<settings, talk>>
          \/ pc' = "Requesting" /\ journaled' = opens /\ (opens => journal' = <<Instruction(1)>>)
    BY <1>1 DEF Start
  <2>3. ResultsOf(<<Instruction(1)>>) = <<>>
    <3> DEFINE e == Instruction(1)
    <3>1. e \in JournalEntry /\ ~IsResult(e)
      BY EntryTyped DEF Instruction, EntryKind, IsResult
    <3> HIDE DEF e
    <3>2. <<e>> = Append(<<>>, e) /\ <<>> \in Seq(JournalEntry)
      OBVIOUS
    <3>3. ResultsOf(<<e>>) = <<>>
      BY <3>1, <3>2, ResultsAppend, NoResults
    <3> QED BY <3>3 DEF e
  <2>4. journaled' /\ pc' = "Requesting" => ResultsOf(journal') = <<>>
    BY <2>1, <2>2, <2>3
  <2>5. Len(<<>>) = 0
    OBVIOUS
  <2>6. journaled' => pc' = "Requesting"
    BY <2>1, <2>2 DEF settings
  <2>7. pc' \in {"Exited", "Requesting"}
    BY <2>2
  <2>8. journaled' => Counted(ResultsOf(journal))' /\ NoThreeBlocked(ResultsOf(journal'))
    BY <2>1, <2>4, <2>5, <2>6 DEF Counted, NoThreeBlocked
  <2> QED BY <2>1, <2>6, <2>7, <2>8 DEF DenialsInv, MAX_CONSECUTIVE_DENIALS, NoThreeBlocked
<1>2. CASE StreamFails
  BY <1>2, <1>t, <1>e DEF StreamFails, Exit, DenialsInv, settings, talk, NoThreeBlocked
<1>3. ASSUME NEW text \in HasText, NEW proposal \in Proposals, Respond(text, proposal)
      PROVE  DenialsInv'
  <2> DEFINE e == Response(1, text, 1..Len(proposal))
  <2>1. e \in JournalEntry /\ ~IsResult(e)
    <3>1. text \in BOOLEAN /\ 1..Len(proposal) \in SUBSET ToolUse /\ "Response" \in EntryKind
      BY BatchAssumption, ProposalUses DEF EntryKind
    <3> QED BY <3>1, EntryTyped DEF Response, IsResult
  <2>2. /\ pc = "Requesting" /\ UNCHANGED <<journaled, gate, denials>>
        /\ journal' = IF journaled THEN Append(journal, e) ELSE journal
        /\ pc' \in {"Gating", "Exited"}
    BY <1>3 DEF Respond, settings, Write, Exit
  <2> HIDE DEF e
  <2>3. journaled => ResultsOf(journal') = ResultsOf(journal)
    BY <2>1, <2>2, ResultsAppend DEF TalkInv
  <2> QED BY <2>2, <2>3 DEF DenialsInv, Counted, NoThreeBlocked
<1>4. CASE Deny
  <2>1. Waiting /\ pc = "Gating" /\ UNCHANGED <<journaled, gate>> /\ denials' = denials + 1
    BY <1>4 DEF Deny, Waiting, settings
  <2>2. CASE Exit(1, total') /\ UNCHANGED <<talk, proposed>>
    BY <1>t, <1>e, <2>1, <2>2 DEF DenialsInv, Exit, talk, NoThreeBlocked
  <2>3. CASE denials' < MAX_CONSECUTIVE_DENIALS /\ Block
    <3>1. AllUses \in SUBSET ToolUse /\ "Blocked" \in ReportKind
      BY <2>1, WaitingUses DEF ReportKind
    <3> QED BY <2>1, <2>3, <3>1, ReportKeepsDenials DEF Block
  <2>4. denials' \in Nat
    BY <1>t, <2>1
  <2>5. \/ denials' >= MAX_CONSECUTIVE_DENIALS /\ Exit(1, total') /\ UNCHANGED <<talk, proposed>>
        \/ ~(denials' >= MAX_CONSECUTIVE_DENIALS) /\ Block
    BY <1>4 DEF Deny
  <2> QED BY <2>2, <2>3, <2>4, <2>5 DEF MAX_CONSECUTIVE_DENIALS
<1>5. CASE Pass
  <2>1. /\ pc = "Gating" /\ pc' \in {"Judging", "Executing"} /\ denials' = 0
        /\ UNCHANGED <<journaled, gate, journal>> /\ (pc' = "Judging" => gate # "Open")
    BY <1>5 DEF Pass, Approve, settings, talk
  <2> QED BY <1>e, <2>1 DEF DenialsInv, NoThreeBlocked
<1>6. CASE RunCommand
  BY <1>6, <1>t, <1>e DEF RunCommand, Panic, DenialsInv, settings, talk, NoThreeBlocked
<1>7. CASE ReportResults
  <2>1. Waiting /\ pc = "Executing" /\ UNCHANGED <<journaled, gate, denials>>
    BY <1>7 DEF ReportResults, Waiting, settings
  <2>2. 1..Len(Commands) \in SUBSET ToolUse /\ "ToolResult" \in ReportKind
    BY <2>1, WaitingUses DEF ReportKind
  <2> QED BY <1>7, <2>1, <2>2, ReportKeepsDenials DEF ReportResults
<1>8. ASSUME NEW reply \in JudgeReply, JudgePanics(reply) PROVE DenialsInv'
  BY <1>8, <1>t, <1>e DEF JudgePanics, Panic, DenialsInv, settings, talk, NoThreeBlocked
<1>9. ASSUME NEW reply \in JudgeReply, JudgeBlocks(reply) PROVE DenialsInv'
  <2>1. Waiting /\ pc = "Judging" /\ UNCHANGED <<journaled, gate, denials>>
    BY <1>9 DEF JudgeBlocks, Waiting, settings
  <2>2. AllUses \in SUBSET ToolUse /\ "Blocked" \in ReportKind
    BY <2>1, WaitingUses DEF ReportKind
  <2> QED BY <1>9, <2>1, <2>2, ReportKeepsDenials DEF JudgeBlocks, Block
<1>10. ASSUME NEW reply \in JudgeReply, JudgeAllows(reply) PROVE DenialsInv'
  <2>1. /\ pc = "Judging" /\ pc' = "Executing" /\ UNCHANGED <<journaled, gate, journal, denials>>
    BY <1>10 DEF JudgeAllows, Approve, settings, talk
  <2> QED BY <1>e, <2>1 DEF DenialsInv, NoThreeBlocked
<1>11. CASE UNCHANGED vars
  BY <1>11 DEF vars, DenialsInv, Counted, NoThreeBlocked
<1> QED BY <1>1, <1>2, <1>3, <1>4, <1>5, <1>6, <1>7, <1>8, <1>9, <1>10, <1>11 DEF Next

(* What the invariant says of the results.                                 *)
LEMMA DenialsImplied == TalkInv /\ DenialsInv => DenialsCounted
<1> SUFFICES ASSUME DenialsInv, journaled, pc = "Requesting" PROVE DenialsCounted
  BY DEF DenialsCounted
<1> QED BY DEF DenialsInv, Counted, NoThreeBlocked, DenialsCounted

(* Denials are counted in a row, and without a judge no three responses in *)
(* a row are reported as blocked (batch.rs).                               *)
THEOREM DenialsCountedInRow == Spec => []DenialsCounted
  BY TalkInit, TalkNext, DenialsInit, DenialsNext, DenialsImplied, PTL DEF Spec

-----------------------------------------------------------------------------
(* The summary.                                                            *)

(* Where a kind of entry is in a log, and how often in one with more.      *)
At(log, kind) == {i \in 1..Len(log) : log[i] = kind}

(* What is counted, before and after a step.                               *)
LEMMA LoggedAt ==
  ASSUME NEW kind
  PROVE  /\ Logged(kind) = Cardinality(At(audit, kind))
         /\ Logged(kind)' = Cardinality(At(audit', kind))
BY DEF Logged, At

(* More of a kind, or none of it.                                          *)
LEMMA CountMore ==
  ASSUME NEW log \in Seq(LogKind), NEW more \in Seq(LogKind), NEW kind
  PROVE  /\ Cardinality(At(log, kind)) \in Nat
         /\ (\A i \in 1..Len(more) : more[i] = kind) =>
              Cardinality(At(log \o more, kind)) = Cardinality(At(log, kind)) + Len(more)
         /\ (\A i \in 1..Len(more) : more[i] # kind) =>
              Cardinality(At(log \o more, kind)) = Cardinality(At(log, kind))
<1> DEFINE both == log \o more
           new == (Len(log) + 1)..(Len(log) + Len(more))
<1>1. /\ Len(log) \in Nat /\ Len(more) \in Nat /\ Len(both) = Len(log) + Len(more)
      /\ \A i \in 1..Len(both) : both[i] = IF i <= Len(log) THEN log[i] ELSE more[i - Len(log)]
  BY LenProperties, ConcatProperties
<1>2. IsFiniteSet(At(log, kind)) /\ Cardinality(At(log, kind)) \in Nat
  <2>1. IsFiniteSet(1..Len(log)) /\ At(log, kind) \subseteq 1..Len(log)
    BY <1>1, FS_Interval DEF At
  <2> QED BY <2>1, FS_Subset, FS_CardinalityType
<1> HIDE DEF both
<1>3. ASSUME \A i \in 1..Len(more) : more[i] = kind
      PROVE  Cardinality(At(both, kind)) = Cardinality(At(log, kind)) + Len(more)
  <2>1. ASSUME NEW i
        PROVE  i \in At(both, kind) <=> i \in At(log, kind) \cup new
    <3>1. i \in 1..Len(both) <=> i \in 1..Len(log) \/ i \in new
      BY <1>1
    <3>2. i \in new => i - Len(log) \in 1..Len(more) /\ i > Len(log) /\ i \in 1..Len(both)
      BY <1>1
    <3>3. i \in new => both[i] = kind
      BY <1>1, <1>3, <3>2
    <3>4. i \in 1..Len(log) => both[i] = log[i] /\ i \in 1..Len(both)
      BY <1>1
    <3> QED BY <3>1, <3>3, <3>4 DEF At
  <2>2. At(both, kind) = At(log, kind) \cup new
    <3> HIDE DEF new
    <3> QED BY <2>1 DEF At
  <2>3. At(log, kind) \cap new = {}
    BY <1>1 DEF At
  <2>4. IsFiniteSet(new) /\ Cardinality(new) = Len(more)
    <3>1. Len(log) + 1 \in Int /\ Len(log) + Len(more) \in Int
      BY <1>1
    <3>2. /\ IsFiniteSet(new)
          /\ Cardinality(new) = IF Len(log) + 1 > Len(log) + Len(more) THEN 0
                                ELSE (Len(log) + Len(more)) - (Len(log) + 1) + 1
      BY <3>1, FS_Interval
    <3> HIDE DEF new
    <3> QED BY <1>1, <3>2
  <2> HIDE DEF new
  <2>5. Cardinality(At(log, kind) \cup new) = Cardinality(At(log, kind)) + Cardinality(new) - Cardinality({})
    BY <1>2, <2>3, <2>4, FS_Union
  <2> QED BY <1>1, <1>2, <2>2, <2>4, <2>5, FS_EmptySet
<1>4. ASSUME \A i \in 1..Len(more) : more[i] # kind
      PROVE  Cardinality(At(both, kind)) = Cardinality(At(log, kind))
  <2>1. ASSUME NEW i
        PROVE  i \in At(both, kind) <=> i \in At(log, kind)
    <3>1. i \in 1..Len(both) => i \in 1..Len(log) \/ i - Len(log) \in 1..Len(more)
      BY <1>1
    <3>2. i \in 1..Len(both) /\ i \notin 1..Len(log) => both[i] # kind
      BY <1>1, <1>4, <3>1
    <3>3. i \in 1..Len(log) => both[i] = log[i] /\ i \in 1..Len(both)
      BY <1>1
    <3> QED BY <3>2, <3>3 DEF At
  <2>2. At(both, kind) = At(log, kind)
    <3> QED BY <2>1 DEF At
  <2> QED BY <2>2
<1> QED BY <1>2, <1>3, <1>4 DEF both

(* So what the actions log is counted.                                     *)
LEMMA LogCounted ==
  ASSUME audit \in Seq(LogKind), NEW kind \in LogKind, NEW n \in Nat, Log(kind, n), NEW k
  PROVE  Logged(k) \in Nat /\ Logged(k)' = Logged(k) + IF k = kind THEN n ELSE 0
<1> DEFINE more == [i \in 1..n |-> kind]
<1>1. more \in Seq(LogKind) /\ Len(more) = n /\ \A i \in 1..Len(more) : more[i] = kind
  OBVIOUS
<1>2. audit' = audit \o more
  BY DEF Log
<1> HIDE DEF more
<1>3. /\ Logged(k) \in Nat
      /\ (\A i \in 1..Len(more) : more[i] = k) => Logged(k)' = Logged(k) + Len(more)
      /\ (\A i \in 1..Len(more) : more[i] # k) => Logged(k)' = Logged(k)
  BY <1>1, <1>2, CountMore, LoggedAt
<1> QED BY <1>1, <1>3

SummaryInv ==
  /\ total \in [run : Int, denied : Int]
  /\ pc \in {"Starting", "Requesting", "Gating", "Judging"} =>
       Logged("executed") = total.run /\ Logged("blocked") = total.denied
  /\ pc = "Executing" =>
       /\ next \in 1..(Len(Commands) + 1) /\ Logged("blocked") = total.denied
       /\ Logged("executed") + Len(Commands) = total.run + (next - 1)
  /\ SummaryTellsAll

(* As long as nothing is logged.                                           *)
LEMMA SameCounts ==
  ASSUME audit' = audit, NEW kind
  PROVE  Logged(kind)' = Logged(kind)
BY DEF Logged

(* An end that writes the summary.                                         *)
LEMMA ExitTells ==
  ASSUME TalkInv, pc # "Exited", NEW code, NEW counts, Exit(code, counts), journaled' = journaled,
         journaled => /\ counts.run = Logged("executed")' /\ counts.denied = Logged("blocked")'
                      /\ code = 0 <=> /\ journal'[Len(journal')].kind = "Response"
                                      /\ Commands' = <<>>
                                      /\ journal'[Len(journal')].uses = AllUses'
  PROVE  SummaryTellsAll' /\ pc' = "Exited"
<1>1. pc' = "Exited" /\ exit' = code /\ summary = <<>>
  BY DEF Exit, TalkInv
<1>2. journaled => summary' = <<[run |-> counts.run, denied |-> counts.denied, code |-> code]>>
  BY <1>1 DEF Exit
<1> QED BY <1>1, <1>2 DEF SummaryTellsAll

(* What is approved is counted before it is run.                           *)
LEMMA ApprovedCounted ==
  ASSUME GateInv, total \in [run : Int, denied : Int], pc \in {"Gating", "Judging"}, next = 1,
         UNCHANGED <<calls, next>>, Approve,
         Logged("executed")' = total.run, Logged("blocked")' = total.denied
  PROVE  SummaryInv'
<1>1. Len(Commands) \in Nat /\ Commands' = Commands
  BY DEF GateInv, RisksKnown, Commands
<1>2. /\ pc' = "Executing" /\ total' \in [run : Int, denied : Int]
      /\ total'.run = total.run + Len(Commands) /\ total'.denied = total.denied
  BY <1>1 DEF Approve
<1>3. total.run \in Int /\ 1 \in 1..(Len(Commands) + 1)
  BY <1>1
<1> QED BY <1>1, <1>2, <1>3 DEF SummaryInv, SummaryTellsAll

(* The initial state.                                                      *)
LEMMA SummaryInit == Init => SummaryInv
<1> SUFFICES ASSUME Init PROVE SummaryInv
  OBVIOUS
<1>1. audit = <<>> /\ Len(<<>>) = 0 /\ pc = "Starting" /\ total = [run |-> 0, denied |-> 0]
  BY DEF Init
<1>2. ASSUME NEW kind PROVE Logged(kind) = 0
  <2>1. {i \in 1..Len(audit) : audit[i] = kind} = {}
    BY <1>1
  <2> QED BY <2>1, FS_EmptySet DEF Logged
<1> QED BY <1>1, <1>2 DEF SummaryInv, SummaryTellsAll

(* Every step keeps the counts.                                            *)
LEMMA SummaryNext == GateInv /\ TalkInv /\ SummaryInv /\ [Next]_vars => SummaryInv'
<1> SUFFICES ASSUME GateInv, TalkInv, SummaryInv, [Next]_vars PROVE SummaryInv'
  OBVIOUS
<1>t. /\ total \in [run : Int, denied : Int] /\ total.run \in Int /\ total.denied \in Int
      /\ audit \in Seq(LogKind) /\ {"executed", "blocked", "proposed", "approved", "judge_result"} \subseteq LogKind
      /\ Logged("executed") \in Nat /\ Logged("blocked") \in Nat
  <2>1. audit \in Seq(LogKind) /\ <<>> \in Seq(LogKind)
    BY EmptySeq DEF GateInv, AuditTells
  <2> QED BY <2>1, CountMore, LoggedAt DEF SummaryInv, LogKind
<1>c. pc \in {"Starting", "Requesting", "Gating", "Judging"} =>
        Logged("executed") = total.run /\ Logged("blocked") = total.denied
  BY DEF SummaryInv
<1>1. CASE Start
  <2>1. pc = "Starting" /\ ~journaled /\ audit' = audit /\ total' = total
    BY <1>1 DEF Start, TalkInv
  <2>2. PICK cli \in BatchCommand, opens \in BOOLEAN :
          \/ pc' = "Exited" /\ UNCHANGED <<settings, talk>>
          \/ pc' = "Requesting"
    BY <1>1 DEF Start
  <2> QED BY <1>t, <1>c, <2>1, <2>2, SameCounts DEF SummaryInv, SummaryTellsAll, settings
<1>2. CASE StreamFails
  <2>1. /\ pc = "Requesting" /\ Exit(1, total) /\ journaled' = journaled /\ journal' = journal
        /\ audit' = audit /\ total' = total
    BY <1>2 DEF StreamFails, settings, talk
  <2>2. journaled => journal'[Len(journal')].kind # "Response"
    BY <2>1 DEF TalkInv, Last
  <2>3. SummaryTellsAll' /\ pc' = "Exited"
    BY <1>c, <2>1, <2>2, SameCounts, ExitTells
  <2> QED BY <1>t, <2>1, <2>3 DEF SummaryInv
<1>3. ASSUME NEW text \in HasText, NEW proposal \in Proposals, Respond(text, proposal)
      PROVE  SummaryInv'
  <2> DEFINE e == Response(1, text, 1..Len(proposal))
  <2>1. /\ pc = "Requesting" /\ calls' = proposal /\ journaled' = journaled /\ total' = total
        /\ journal' = IF journaled THEN Append(journal, e) ELSE journal
    BY <1>3 DEF Respond, settings, Write
  <2>2. CASE IsAnswer
    <3>1. Exit(0, total) /\ audit' = audit
      BY <1>3, <2>2 DEF Respond
    <3>2. e \in JournalEntry /\ e.kind = "Response" /\ e.uses = 1..Len(proposal)
      <4>1. text \in BOOLEAN /\ 1..Len(proposal) \in SUBSET ToolUse /\ "Response" \in EntryKind
        BY BatchAssumption, ProposalUses DEF EntryKind
      <4> QED BY <4>1, EntryTyped DEF Response
    <3> HIDE DEF e
    <3>3. journaled => journal'[Len(journal')] = e
      BY <2>1, <3>2, JournalGrows DEF TalkInv
    <3>4. AllUses' = 1..Len(proposal)
      BY <2>1 DEF AllUses
    <3>5. Commands' = <<>>
      BY <2>2 DEF IsAnswer
    <3>6. SummaryTellsAll' /\ pc' = "Exited"
      BY <1>c, <2>1, <3>1, <3>2, <3>3, <3>4, <3>5, SameCounts, ExitTells
    <3> QED BY <1>t, <2>1, <3>6 DEF SummaryInv
  <2>3. CASE ~IsAnswer
    <3>1. pc' = "Gating" /\ Log("proposed", 1)
      BY <1>3, <2>3 DEF Respond
    <3>2. Logged("executed")' = Logged("executed") /\ Logged("blocked")' = Logged("blocked")
      BY <1>t, <3>1, LogCounted
    <3> QED BY <1>t, <1>c, <2>1, <3>1, <3>2 DEF SummaryInv, SummaryTellsAll
  <2> QED BY <2>2, <2>3
<1>4. CASE Deny
  <2> DEFINE n == Cardinality(Denied)
  <2>1. /\ pc = "Gating" /\ journaled' = journaled /\ Log("blocked", n)
        /\ total' = [total EXCEPT !.denied = @ + n]
    BY <1>4 DEF Deny, settings
  <2>2. n \in Nat
    BY <2>1, DeniedCounted
  <2> HIDE DEF n
  <2>3. Logged("executed")' = Logged("executed") /\ Logged("blocked")' = Logged("blocked") + n
    BY <1>t, <2>1, <2>2, LogCounted
  <2>4. /\ total' \in [run : Int, denied : Int]
        /\ total'.run = total.run /\ total'.denied = total.denied + n
    BY <1>t, <2>1, <2>2
  <2>5. CASE Exit(1, total') /\ UNCHANGED <<talk, proposed>>
    <3>1. Commands' # <<>>
      BY <2>1, <2>5 DEF TalkInv, Waiting, proposed, Commands
    <3>2. SummaryTellsAll' /\ pc' = "Exited"
      BY <1>c, <2>1, <2>3, <2>4, <2>5, <3>1, ExitTells
    <3> QED BY <2>4, <3>2 DEF SummaryInv
  <2>6. CASE Block
    <3>1. pc' = "Requesting"
      BY <2>6 DEF Block, Report
    <3> QED BY <1>c, <2>1, <2>3, <2>4, <3>1 DEF SummaryInv, SummaryTellsAll
  <2> QED BY <1>4, <2>5, <2>6 DEF Deny
<1>5. CASE Pass
  <2>1. pc = "Gating" /\ UNCHANGED <<calls, next>> /\ next = 1
    BY <1>5 DEF Pass, proposed, GateInv, Undecided
  <2>2. CASE pc' = "Judging" /\ UNCHANGED <<total, audit>>
    BY <1>t, <1>c, <2>1, <2>2, SameCounts DEF SummaryInv, SummaryTellsAll
  <2>3. CASE Approve /\ Log("approved", 1)
    <3>1. Logged("executed")' = Logged("executed") /\ Logged("blocked")' = Logged("blocked")
      BY <1>t, <2>3, LogCounted
    <3> QED BY <1>t, <1>c, <2>1, <2>3, <3>1, ApprovedCounted
  <2> QED BY <1>5, <2>2, <2>3 DEF Pass
<1>6. CASE RunCommand
  <2>1. /\ pc = "Executing" /\ next <= Len(Commands) /\ next' = next + 1 /\ Log("executed", 1)
        /\ UNCHANGED <<calls, total, journaled>>
    BY <1>6 DEF RunCommand, settings
  <2>2. Logged("executed")' = Logged("executed") + 1 /\ Logged("blocked")' = Logged("blocked")
    BY <1>t, <2>1, LogCounted
  <2>3. CASE Panic
    BY <1>t, <2>1, <2>3 DEF Panic, SummaryInv, SummaryTellsAll
  <2>4. CASE UNCHANGED <<pc, ending>>
    <3>1. Commands' = Commands
      BY <2>1 DEF Commands
    <3>2. /\ next \in 1..(Len(Commands) + 1) /\ Logged("blocked") = total.denied
          /\ Logged("executed") + Len(Commands) = total.run + (next - 1) /\ Len(Commands) \in Nat
      BY <2>1 DEF SummaryInv, GateInv, RisksKnown
    <3>3. /\ next' \in 1..(Len(Commands) + 1) /\ Logged("blocked")' = total.denied
          /\ Logged("executed")' + Len(Commands) = total.run + (next' - 1)
      BY <1>t, <2>1, <2>2, <3>2
    <3> QED BY <1>t, <2>1, <2>4, <3>1, <3>3 DEF SummaryInv, SummaryTellsAll
  <2> QED BY <1>6, <2>3, <2>4 DEF RunCommand
<1>7. CASE ReportResults
  <2>1. /\ pc = "Executing" /\ next > Len(Commands) /\ UNCHANGED <<total, audit>> /\ pc' = "Requesting"
    BY <1>7 DEF ReportResults, Report
  <2>2. /\ next \in 1..(Len(Commands) + 1) /\ Logged("blocked") = total.denied
        /\ Logged("executed") + Len(Commands) = total.run + (next - 1) /\ Len(Commands) \in Nat
    BY <2>1 DEF SummaryInv, GateInv, RisksKnown
  <2>3. Logged("executed") = total.run
    BY <1>t, <2>1, <2>2
  <2> QED BY <1>t, <2>1, <2>2, <2>3, SameCounts DEF SummaryInv, SummaryTellsAll
<1>8. ASSUME NEW reply \in JudgeReply, JudgePanics(reply) PROVE SummaryInv'
  BY <1>8, <1>t DEF JudgePanics, Panic, SummaryInv, SummaryTellsAll
<1>9. ASSUME NEW reply \in JudgeReply, JudgeBlocks(reply) PROVE SummaryInv'
  <2>1. pc = "Judging" /\ pc' = "Requesting" /\ total' = total /\ Log("judge_result", 1)
    BY <1>9 DEF JudgeBlocks, Block, Report
  <2>2. Logged("executed")' = Logged("executed") /\ Logged("blocked")' = Logged("blocked")
    BY <1>t, <2>1, LogCounted
  <2> QED BY <1>t, <1>c, <2>1, <2>2 DEF SummaryInv, SummaryTellsAll
<1>10. ASSUME NEW reply \in JudgeReply, JudgeAllows(reply) PROVE SummaryInv'
  <2> DEFINE more == IF VerdictOf(reply) = "Error" THEN <<"approved">> ELSE <<"judge_result", "approved">>
  <2>1. pc = "Judging" /\ UNCHANGED <<calls, next>> /\ next = 1 /\ Approve /\ audit' = audit \o more
    BY <1>10 DEF JudgeAllows, GateInv, Undecided
  <2>2. more \in Seq(LogKind) /\ \A i \in 1..Len(more) : more[i] # "executed" /\ more[i] # "blocked"
    <3>1. <<"approved">> \in Seq(LogKind) /\ <<"judge_result", "approved">> \in Seq(LogKind)
      BY <1>t
    <3>2. /\ \A i \in 1..Len(<<"approved">>) : <<"approved">>[i] = "approved"
          /\ \A i \in 1..Len(<<"judge_result", "approved">>) :
               <<"judge_result", "approved">>[i] \in {"judge_result", "approved"}
      OBVIOUS
    <3> QED BY <3>1, <3>2
  <2> HIDE DEF more
  <2>3. Logged("executed")' = Logged("executed") /\ Logged("blocked")' = Logged("blocked")
    BY <1>t, <2>1, <2>2, CountMore, LoggedAt
  <2> QED BY <1>t, <1>c, <2>1, <2>3, ApprovedCounted
<1>11. CASE UNCHANGED vars
  BY <1>11, SameCounts DEF vars, SummaryInv, SummaryTellsAll, Commands, AllUses
<1> QED BY <1>1, <1>2, <1>3, <1>4, <1>5, <1>6, <1>7, <1>8, <1>9, <1>10, <1>11 DEF Next

(* Whatever happens, a run that has a journal and returns leaves one       *)
(* summary, which tells what the audit log does (batch.rs).                *)
THEOREM SummaryTold == Spec => []SummaryTellsAll
<1>1. SummaryInv => SummaryTellsAll
  BY DEF SummaryInv
<1> QED BY <1>1, GateInit, StepKeeps, TalkInit, TalkNext, SummaryInit, SummaryNext, PTL DEF Spec

-----------------------------------------------------------------------------
(* What the next request ends with.                                        *)

(* A cut that keeps a report ends with the message of that report.         *)
LEMMA CutEndsWithReport ==
  ASSUME NEW es \in Seq(JournalEntry), NEW e \in JournalEntry, e.kind # "Response",
         Len(es) > 0, es[Len(es)].kind = "Response", IsFull(es[Len(es)]),
         NEW i \in 1..Len(Append(es, e))
  PROVE  LET msgs == Messages(From(Append(es, e), i)) IN
         /\ msgs \in Seq(Message) /\ Len(msgs) > 0 /\ msgs[Len(msgs)] = User(<<e>>)
<1> DEFINE more == Append(es, e)
           m    == User(<<e>>)
           msgs == Messages(From(more, i))
<1> SUFFICES msgs \in Seq(Message) /\ Len(msgs) > 0 /\ msgs[Len(msgs)] = m
  OBVIOUS
<1>1. /\ Len(es) \in Nat /\ more \in Seq(JournalEntry) /\ Len(more) = Len(es) + 1
      /\ more[Len(es) + 1] = e /\ \A k \in 1..Len(es) : more[k] = es[k]
  BY LenProperties, AppendProperties
<1>2. m \in Message /\ m.role = "user"
  BY OfUser
<1>3. ASSUME NEW before \in Seq(Message)
      PROVE  /\ Append(before, m) \in Seq(Message) /\ Len(Append(before, m)) > 0
             /\ Append(before, m)[Len(Append(before, m))] = m
  <2> HIDE DEF m
  <2> QED BY <1>2, AppendProperties, LenProperties
<1>4. CASE i \in 1..Len(es)
  <2> DEFINE part == From(es, i)
             n    == Len(part)
             raw  == Rounds(part)
  <2>1. From(more, i) = Append(part, e)
    BY <1>4, FromAppend
  <2>2. part \in Seq(JournalEntry) /\ n \in Nat \ {0} /\ part[n] = es[Len(es)]
    BY <1>1, <1>4, SubSeqProperties DEF From
  <2> HIDE DEF part
  <2>3. /\ n \in 1..n /\ n \in 0..n /\ n - 1 \in 0..n
    BY <2>2
  <2>4. raw[n - 1] \in Seq(Message) /\ raw[n] \in Seq(Message) /\ raw[n] = AddEntry(raw[n - 1], part[n])
    BY <2>2, <2>3, RoundsDefined
  <2> HIDE DEF raw, n
  <2>5. raw[n] = Append(raw[n - 1], Assistant(part[n]))
    BY <2>2, <2>4 DEF AddEntry, IsFull
  <2>6. part[n] \in JournalEntry /\ Assistant(part[n]) \in Message /\ Assistant(part[n]).role = "assistant"
    <3>1. part[n] \in JournalEntry
      BY <2>2, <2>3, ElementOfSeq DEF n
    <3> QED BY <2>2, <3>1, OfAssistant
  <2>7. raw[n] # <<>> /\ Len(raw[n]) > 0 /\ raw[n][Len(raw[n])].role = "assistant"
    BY <2>4, <2>5, <2>6, AppendProperties, LenProperties, EmptySeq
  <2>8. AddEntry(raw[n], e) = Append(raw[n], m)
    BY <2>7 DEF AddEntry, MergeOrPushUser
  <2>9. Messages(Append(part, e)) = Append(Messages(part), m)
    <3> HIDE DEF m
    <3> QED BY <1>2, <2>2, <2>7, <2>8, MessagesAppend DEF raw, n
  <2>10. Messages(part) \in Seq(Message)
    BY <2>2, MessagesTyped
  <2>11. msgs = Append(Messages(part), m)
    BY <2>1, <2>9
  <2> HIDE DEF m, msgs
  <2> QED BY <1>3, <2>10, <2>11
<1>5. CASE i = Len(es) + 1
  <2> DEFINE part == From(more, i)
  <2>1. part = Append(<<>>, e) /\ <<>> \in Seq(JournalEntry) /\ Len(<<>>) = 0
    <3>1. part \in Seq(JournalEntry) /\ Len(part) = 1 /\ part[1] = e
      BY <1>1, <1>5, SubSeqProperties DEF From
    <3>2. <<e>> \in Seq(JournalEntry) /\ Len(<<e>>) = 1 /\ <<e>>[1] = e /\ Append(<<>>, e) = <<e>>
      OBVIOUS
    <3> HIDE DEF part
    <3>3. part = <<e>>
      BY <3>1, <3>2, SeqEqual
    <3> QED BY <3>2, <3>3, EmptySeq
  <2> HIDE DEF part
  <2>2. Rounds(<<>>)[0] = <<>> /\ Len(part) = 1 /\ Rounds(part)[1] = AddEntry(<<>>, e)
    <3>1. Rounds(<<>>)[0] = <<>>
      BY <2>1, RoundsDefined
    <3>2. Len(part) = 0 + 1 /\ Rounds(part)[0 + 1] = AddEntry(Rounds(<<>>)[0], e)
      BY <2>1, RoundsAppend
    <3> QED BY <3>1, <3>2
  <2>3. AddEntry(<<>>, e) = Append(<<>>, m)
    BY DEF AddEntry, MergeOrPushUser
  <2>4. Append(<<>>, m) = <<m>> /\ Len(<<m>>) = 1 /\ <<m>>[1] = m /\ <<m>> \in Seq(Message)
    <3> HIDE DEF m
    <3> QED BY <1>2
  <2>5. Messages(part) = <<m>>
    <3> HIDE DEF m
    <3>1. m.role # "assistant" /\ <<m>>[1] = m
      BY <1>2, <2>4
    <3> QED BY <2>2, <2>3, <2>4, <3>1 DEF Messages
  <2>6. msgs = <<m>>
    BY <2>5 DEF part
  <2> HIDE DEF m, msgs
  <2> QED BY <2>4, <2>6
<1> QED BY <1>1, <1>4, <1>5

(* What is sent of a conversation, with the images or without.             *)
LEMMA SentLast ==
  ASSUME NEW msgs \in Seq(Message), Len(msgs) > 0, msgs[Len(msgs)].role = "user",
         Uses(msgs[Len(msgs)]) = {}, NEW images \in BOOLEAN
  PROVE  LET sent == BuildMessages(msgs, images)
             last == Len(sent) - (IF images THEN 1 ELSE 0) IN
         /\ sent[last].role = "user" /\ sent[last].results = Results(msgs[Len(msgs)])
         /\ sent[Len(sent)].cached
<1> DEFINE n == Len(msgs)
           api == [i \in 1..n |-> ApiMessage(msgs[i])]
           tail == IF images THEN <<Images>> ELSE <<>>
           both == api \o tail
           sent == BuildMessages(msgs, images)
           N == n + (IF images THEN 1 ELSE 0)
<1>1. n \in Nat \ {0} /\ N \in Nat \ {0} /\ n \in 1..N /\ N \in 1..N
  BY LenProperties
<1>2. Len(api) = n /\ Len(tail) = IF images THEN 1 ELSE 0
  BY <1>1
<1>3. /\ Len(both) = N /\ both[n] = ApiMessage(msgs[n])
      /\ images => both[N] = Images
  <2>2. api \in Seq({ApiMessage(msgs[i]) : i \in 1..n} \cup {Images})
    BY <1>1
  <2>3. tail \in Seq({ApiMessage(msgs[i]) : i \in 1..n} \cup {Images}) /\ (images => tail[1] = Images)
    <3> DEFINE S == {ApiMessage(msgs[i]) : i \in 1..n} \cup {Images}
    <3>1. Images \in S
      OBVIOUS
    <3> HIDE DEF S
    <3>2. <<Images>> \in Seq(S) /\ <<>> \in Seq(S) /\ <<Images>>[1] = Images
      BY <3>1
    <3> QED BY <3>2 DEF S
  <2>4. api[n] = ApiMessage(msgs[n])
    BY <1>1
  <2> HIDE DEF api, tail
  <2>5. /\ Len(both) = Len(api) + Len(tail)
        /\ \A i \in 1..Len(both) : both[i] = IF i <= Len(api) THEN api[i] ELSE tail[i - Len(api)]
    BY <2>2, <2>3, ConcatProperties
  <2> HIDE DEF both
  <2>6. both[n] = api[n] /\ Len(both) = N
    BY <1>1, <1>2, <2>5
  <2>7. images => both[N] = tail[1]
    BY <1>1, <1>2, <2>5
  <2> QED BY <2>3, <2>4, <2>6, <2>7
<1>4. sent = Marked(both)
  BY DEF BuildMessages
<1> HIDE DEF both, sent
<1>5. Len(sent) = N /\ \A i \in 1..N : sent[i] = [both[i] EXCEPT !.cached =
                         /\ both[i].role = "user"
                         /\ \A j \in (i + 1)..Len(both) : both[j].role # "user"]
  BY <1>1, <1>3, <1>4 DEF Marked
<1>6. /\ ApiMessage(msgs[n]).role = "user" /\ ApiMessage(msgs[n]).results = Results(msgs[n])
  BY DEF ApiMessage
<1>7. sent[n].role = "user" /\ sent[n].results = Results(msgs[n])
  <2>1. sent[n] = [ApiMessage(msgs[n]) EXCEPT !.cached = sent[n].cached]
    <3>1. \E c : sent[n] = [ApiMessage(msgs[n]) EXCEPT !.cached = c]
      BY <1>1, <1>3, <1>5
    <3> QED BY <3>1 DEF ApiMessage
  <2> QED BY <1>6, <2>1 DEF ApiMessage
<1>8. sent[N].cached
  <2>1. both[N].role = "user" /\ \A j \in (N + 1)..N : both[j].role # "user"
    <3>1. images => both[N].role = "user"
      BY <1>3 DEF Images
    <3>2. ~images => N = n
      OBVIOUS
    <3> QED BY <1>1, <1>3, <1>6, <3>1, <3>2
  <2>2. both[N] \in {Images, ApiMessage(msgs[n])}
    BY <1>3
  <2>3. \A c : [Images EXCEPT !.cached = c].cached = c /\ [ApiMessage(msgs[n]) EXCEPT !.cached = c].cached = c
    BY DEF Images, ApiMessage
  <2>4. \A c : [both[N] EXCEPT !.cached = c].cached = c
    BY <2>2, <2>3
  <2> QED BY <1>1, <1>3, <1>5, <2>1, <2>4
<1>9. Len(sent) - (IF images THEN 1 ELSE 0) = n
  BY <1>1, <1>5
<1> QED BY <1>5, <1>7, <1>8, <1>9 DEF sent

(* A report of all calls answers them, pushed or cut.                      *)
LEMMA ReportAnswers ==
  ASSUME TalkInv, Waiting, journaled, attached' = attached,
         NEW kind \in ReportKind, Report(kind, AllUses)
  PROVE  LET last == Len(Request') - (IF attached THEN 1 ELSE 0) IN
         /\ Request'[last].role = "user" /\ Request'[last].results = AllUses
         /\ Request'[Len(Request')].cached
<1> DEFINE e == Entry(kind, 1, FALSE, AllUses)
           m == User(<<e>>)
           pushed == Append(conv.msgs, m)
           msgs == conv'.msgs
<1>1. e \in JournalEntry /\ e.kind # "Response" /\ IsResult(e) /\ e.uses = AllUses
  BY WaitingUses, ReportedEntry
<1>2. /\ journal' = Append(journal, e)
      /\ IF OverBudget(pushed) THEN conv' \in Rebuilt(journal') ELSE conv' = Kept(pushed)
  BY DEF Report, Write
<1>3. /\ journal \in Seq(JournalEntry) /\ conv.msgs \in Seq(Message) /\ Len(journal) > 0
      /\ journal[Len(journal)].kind = "Response" /\ IsFull(journal[Len(journal)])
  <2>1. AllUses # {}
    BY WaitingUses DEF AllUses
  <2> QED BY <2>1 DEF TalkInv, Conversations, Last, IsFull
<1> HIDE DEF e
<1>4. /\ m \in Message /\ m.role = "user" /\ NoResponses(m) /\ Results(m) = AllUses
  BY <1>1, OfUser
<1>5. Uses(m) = {}
  BY <1>4, UsesResults DEF NoResponses
<1> HIDE DEF m
<1>6. msgs \in Seq(Message) /\ Len(msgs) > 0 /\ msgs[Len(msgs)] = m
  <2>1. CASE conv' = Kept(pushed)
    <3>1. msgs = pushed
      BY <2>1 DEF Kept
    <3> QED BY <1>3, <1>4, <3>1, AppendProperties, LenProperties
  <2>2. CASE conv' \in Rebuilt(journal')
    <3>1. PICK i \in 1..Len(journal') : conv' = Kept(Messages(From(journal', i)))
      BY <2>2 DEF Rebuilt, Built
    <3>2. msgs = Messages(From(Append(journal, e), i)) /\ i \in 1..Len(Append(journal, e))
      BY <1>2, <3>1 DEF Kept
    <3> QED BY <1>1, <1>3, <3>2, CutEndsWithReport DEF m
  <2> QED BY <1>2, <2>1, <2>2
<1>7. Request' = BuildMessages(msgs, attached) /\ attached \in BOOLEAN
  BY DEF Request, TalkInv
<1> HIDE DEF msgs
<1> QED BY <1>4, <1>5, <1>6, <1>7, SentLast

(* However the commands of a response end, the next request answers every  *)
(* call of it, also when the conversation is cut and whatever is attached  *)
(* (batch.rs, journal.rs, anthropic.rs).                                   *)
THEOREM EveryCallAnswered == Spec => CallsAnswered
<1> DEFINE Goal == LET last == Len(Request') - (IF attached THEN 1 ELSE 0) IN
        /\ Request'[last].role = "user" /\ Request'[last].results = AllUses
        /\ Request'[Len(Request')].cached
           Step == /\ pc # "Starting" /\ pc' = "Requesting" /\ journaled
                   /\ NoCommand \notin {calls[i] : i \in AllUses}
                   => Goal
<1>1. TalkInv /\ [Next]_vars => [Step]_vars
  <2> SUFFICES ASSUME TalkInv, Next, pc # "Starting", pc' = "Requesting", journaled,
                      NoCommand \notin {calls[i] : i \in AllUses}
               PROVE  Goal
    OBVIOUS
  <2> HIDE DEF Goal
  <2>1. CASE Deny
    <3>1. pc = "Gating" /\ attached' = attached /\ Block
      BY <2>1 DEF Deny, Exit, settings
    <3>2. "Blocked" \in ReportKind
      BY DEF ReportKind
    <3> QED BY <3>1, <3>2, ReportAnswers DEF Goal, Block, Waiting
  <2>2. CASE ReportResults
    <3>1. pc = "Executing" /\ attached' = attached /\ Report("ToolResult", 1..Len(Commands))
      BY <2>2 DEF ReportResults, settings
    <3>2. 1..Len(Commands) = AllUses /\ "ToolResult" \in ReportKind
      BY <3>1, WaitingUses DEF AllUses, Waiting, ReportKind
    <3> QED BY <3>1, <3>2, ReportAnswers DEF Goal, Waiting
  <2>3. ASSUME NEW reply \in JudgeReply, JudgeBlocks(reply) PROVE Goal
    <3>1. pc = "Judging" /\ attached' = attached /\ Block
      BY <2>3 DEF JudgeBlocks, settings
    <3>2. "Blocked" \in ReportKind
      BY DEF ReportKind
    <3> QED BY <3>1, <3>2, ReportAnswers DEF Goal, Block, Waiting
  <2>4. ~Start /\ ~StreamFails /\ ~Pass
    BY DEF Start, StreamFails, Exit, Pass, Approve
  <2>5. ~RunCommand /\ ~\E text \in HasText, proposal \in Proposals : Respond(text, proposal)
    BY DEF RunCommand, Panic, Respond, Exit
  <2>6. ASSUME NEW reply \in JudgeReply PROVE ~JudgePanics(reply) /\ ~JudgeAllows(reply)
    BY DEF JudgePanics, Panic, JudgeAllows, Approve
  <2> QED BY <2>1, <2>2, <2>3, <2>4, <2>5, <2>6 DEF Next
<1>2. TalkInv /\ [Next]_vars => TalkInv'
  BY TalkNext
<1> QED BY <1>1, <1>2, TalkInit, PTL DEF Spec, CallsAnswered

-----------------------------------------------------------------------------
(* Batch mode implements the session.                                      *)

(* What is defined alike.                                                  *)
LEMMA AbstractAlike ==
  /\ \A es : Abstract!Rebuilt(es) = Built(es)
  /\ \A msgs : Abstract!OverBudget(msgs) = OverBudget(msgs)
  /\ \A msgs : Abstract!Kept(msgs) = Kept(msgs)
  /\ Abstract!NoConversation = NoConversation
  /\ \A t : Abstract!Instruction(t) = Instruction(t)
  /\ \A t, text, uses : Abstract!Response(t, text, uses) = Response(t, text, uses)
  /\ \A kind, t, text, uses : Abstract!Entry(kind, t, text, uses) = Entry(kind, t, text, uses)
  /\ \A e : Abstract!Assistant(e) = Assistant(e)
  /\ \A es : Abstract!User(es) = User(es)
<1>1. \A es, i : Abstract!From(es, i) = From(es, i)
  BY DEF From, Abstract!From
<1>2. \A es : Abstract!EntryTokens(es) = EntryTokens(es)
  BY DEF EntryTokens, Abstract!EntryTokens, Total, Abstract!Total, Sums, Abstract!Sums
<1>3. \A es, i : Abstract!WalkStopsAt(es, i) = WalkStopsAt(es, i)
  BY <1>1, <1>2 DEF WalkStopsAt, Abstract!WalkStopsAt
<1>4. \A es : Abstract!Messages(es) = Messages(es)
  BY DEF Messages, Abstract!Messages, Rounds, Abstract!Rounds, AddEntry, Abstract!AddEntry,
         MergeOrPushUser, Abstract!MergeOrPushUser, Assistant, Abstract!Assistant, User,
         Abstract!User, Continuation, Abstract!Continuation
<1>5. \A msgs : Abstract!Kept(msgs) = Kept(msgs)
  BY DEF Kept, Abstract!Kept
<1>6. \A es : Abstract!Rebuilt(es) = Built(es)
  BY <1>1, <1>3, <1>4, <1>5 DEF Built, Abstract!Rebuilt
<1>7. \A msgs : Abstract!OverBudget(msgs) = OverBudget(msgs)
  BY DEF OverBudget, Abstract!OverBudget, ConversationTokens, Abstract!ConversationTokens,
         MessageTokens, Abstract!MessageTokens, Total, Abstract!Total, Sums, Abstract!Sums,
         Continuation, Abstract!Continuation, User, Abstract!User
<1>8. /\ Abstract!NoConversation = NoConversation
      /\ \A kind, t, text, uses : Abstract!Entry(kind, t, text, uses) = Entry(kind, t, text, uses)
      /\ \A e : Abstract!Assistant(e) = Assistant(e)
      /\ \A es : Abstract!User(es) = User(es)
  BY DEF NoConversation, Abstract!NoConversation, Entry, Abstract!Entry, Assistant,
         Abstract!Assistant, User, Abstract!User
<1>9. /\ \A t : Abstract!Instruction(t) = Instruction(t)
      /\ \A t, text, uses : Abstract!Response(t, text, uses) = Response(t, text, uses)
  BY <1>8 DEF Instruction, Abstract!Instruction, Response, Abstract!Response
<1> QED BY <1>5, <1>6, <1>7, <1>8, <1>9

(* The conversation of the session.                                        *)
SessionConv == IF journaled /\ exit # 0 THEN conv ELSE NoConversation
SessionTurn == IF journaled THEN 1 ELSE 0

(* Without a journal nothing of the session changes.                       *)
LEMMA Unjournaled ==
  ASSUME ~journaled, ~journaled', journal' = journal
  PROVE  UNCHANGED Abstract!vars
  BY DEF Abstract!vars, SessionPhase

(* Steps the session knows nothing of.                                     *)
LEMMA StaysStutters ==
  ASSUME UNCHANGED <<journaled, journal, conv, exit>>, SessionPhase' = SessionPhase
  PROVE  UNCHANGED Abstract!vars
  BY DEF Abstract!vars

(* A report.                                                               *)
LEMMA ReportImplements ==
  ASSUME TalkInv, Waiting, journaled, UNCHANGED <<journaled, exit>>, NEW kind \in ReportKind,
         NEW uses \in SUBSET ToolUse, uses # {}, uses \subseteq AllUses, Report(kind, uses)
  PROVE  Abstract!Report(kind, uses)
<1> DEFINE e == Entry(kind, 1, FALSE, uses)
           pushed == Append(conv.msgs, User(<<e>>))
<1>1. /\ pc' = "Requesting" /\ journal' = Append(journal, e)
      /\ IF OverBudget(pushed) THEN conv' \in Built(journal') ELSE conv' = Kept(pushed)
  BY DEF Report, Write, Rebuilt
<1>2. /\ journal \in Seq(JournalEntry) /\ Len(journal) = 2 * responses /\ Len(journal) \in Nat
      /\ responses \in 0..MaxResponses /\ MaxResponses \in Nat /\ conv.some /\ exit = Running
      /\ Len(journal) > 0 /\ Last.kind = "Response" /\ Last.uses = AllUses
  BY LenProperties, BatchAssumption DEF TalkInv, Waiting
<1>3. SessionPhase = "Acting" /\ SessionPhase' = "Streaming" /\ SessionTurn = 1 /\ SessionTurn' = 1
      /\ SessionConv = conv /\ SessionConv' = conv'
  BY <1>1, <1>2 DEF SessionPhase, Waiting, SessionTurn, SessionConv, Running
<1>4. Abstract!Room
  BY <1>2 DEF Abstract!Room
<1>5. Abstract!LastUses = AllUses
  <2> DEFINE IsLast(i) == /\ journal[i].kind = "Response"
                          /\ \A j \in (i + 1)..Len(journal) : journal[j].kind # "Response"
  <2>1. Len(journal) \in 1..Len(journal) /\ IsLast(Len(journal))
    BY <1>2 DEF Last
  <2>2. ASSUME NEW i \in 1..Len(journal), IsLast(i) PROVE i = Len(journal)
    <3>1. i < Len(journal) => Len(journal) \in (i + 1)..Len(journal)
      BY <1>2
    <3> QED BY <1>2, <2>1, <2>2, <3>1
  <2>3. (CHOOSE i \in 1..Len(journal) : IsLast(i)) = Len(journal)
    BY <2>1, <2>2
  <2> QED BY <1>2, <2>3 DEF Abstract!LastUses, Last
<1>6. Abstract!Entry(kind, 1, FALSE, uses) = e /\ Abstract!User(<<e>>) = User(<<e>>)
      /\ Abstract!OverBudget(pushed) = OverBudget(pushed)
      /\ Abstract!Kept(pushed) = Kept(pushed) /\ Abstract!NoConversation = NoConversation
      /\ Abstract!Rebuilt(Append(journal, e)) = Built(Append(journal, e))
  BY AbstractAlike
<1> HIDE DEF e
<1>7. Abstract!PushMessage(User(<<e>>)) = Kept(pushed)
  BY <1>2, <1>3, <1>6 DEF Abstract!PushMessage, SessionConv
<1>8. Kept(pushed).msgs = pushed /\ Kept(pushed).some /\ ~NoConversation.some
  BY DEF Kept, NoConversation
<1> HIDE DEF pushed
<1> DEFINE kept == IF OverBudget(pushed) THEN NoConversation ELSE Kept(pushed)
<1>9. Abstract!StartStreaming(Append(journal, e), kept)
  BY <1>1, <1>3, <1>6, <1>8 DEF Abstract!StartStreaming, SessionConv
<1>10. /\ SessionPhase = "Acting" /\ Abstract!Room /\ uses # {} /\ uses \subseteq Abstract!LastUses
       /\ SessionTurn' = SessionTurn
       /\ kept = IF Abstract!OverBudget(Abstract!PushMessage(User(<<e>>)).msgs) THEN Abstract!NoConversation
                 ELSE Abstract!PushMessage(User(<<e>>))
  BY <1>3, <1>4, <1>5, <1>6, <1>7, <1>8
<1> HIDE DEF kept
<1>11. e = Abstract!Entry(kind, SessionTurn, FALSE, uses)
  BY <1>3, <1>6
<1> QED BY <1>3, <1>6, <1>9, <1>10, <1>11 DEF Abstract!Report, SessionTurn

(* With a journal or without one.                                          *)
LEMMA ReportStep ==
  ASSUME TalkInv, Waiting, UNCHANGED <<journaled, exit>>, NEW kind \in ReportKind,
         NEW uses \in SUBSET ToolUse, uses # {}, uses \subseteq AllUses, Report(kind, uses)
  PROVE  [Abstract!Next]_(Abstract!vars)
<1>1. CASE ~journaled
  BY <1>1, Unjournaled DEF Report, Write
<1>2. CASE journaled
  BY <1>2, ReportImplements DEF Abstract!Next, ReportKind
<1> QED BY <1>1, <1>2

(* The turn is given up.                                                   *)
LEMMA EndStep ==
  ASSUME TalkInv, pc = "Requesting" \/ Waiting, pc' = "Exited", exit' # 0,
         UNCHANGED <<journaled, journal, conv>>
  PROVE  [Abstract!Next]_(Abstract!vars)
<1>1. CASE ~journaled
  BY <1>1, Unjournaled
<1>2. CASE journaled
  <2>1. exit # 0
    BY DEF TalkInv, Waiting, Running
  <2>2. CASE pc = "Requesting"
    BY <1>2, <2>1, <2>2 DEF Abstract!Next, Abstract!Cancel, SessionPhase
  <2>3. CASE Waiting
    BY <1>2, <2>1, <2>3 DEF Abstract!Next, Abstract!GiveUp, SessionPhase, Waiting
  <2> QED BY <2>2, <2>3
<1> QED BY <1>1, <1>2

(* A response is an answer or a proposal.                                  *)
LEMMA RespondStep ==
  ASSUME TalkInv, NEW text \in HasText, NEW proposal \in Proposals, Respond(text, proposal)
  PROVE  [Abstract!Next]_(Abstract!vars)
<1> DEFINE uses == 1..Len(proposal)
           e    == Response(1, text, uses)
<1>1. /\ pc = "Requesting" /\ journaled' = journaled /\ calls' = proposal
      /\ journal' = IF journaled THEN Append(journal, e) ELSE journal
      /\ conv' = Kept(Append(conv.msgs, Assistant(e)))
  BY DEF Respond, settings, Write
<1>2. CASE ~journaled
  BY <1>1, <1>2, Unjournaled
<1>3. CASE journaled
  <2>1. text \in BOOLEAN /\ uses \in SUBSET ToolUse /\ conv.some /\ exit = Running
    BY <1>1, <1>3, BatchAssumption, ProposalUses DEF TalkInv
  <2>2. Abstract!Response(1, text, uses) = e /\ Abstract!NoConversation = NoConversation
        /\ Abstract!Assistant(e) = Assistant(e)
        /\ Abstract!Kept(Append(conv.msgs, Assistant(e))) = Kept(Append(conv.msgs, Assistant(e)))
    BY AbstractAlike
  <2>3. SessionPhase = "Streaming"
    BY <1>1, <1>3 DEF SessionPhase
  <2>5. uses # {} \/ Commands' = <<>>
    <3>1. Commands' = CommandsOf(proposal)
      BY <1>1 DEF Commands
    <3>2. Len(proposal) \in Nat
      BY BatchAssumption
    <3>3. CommandsOf(proposal) # <<>> => Len(proposal) > 0
      BY <3>2, CommandsCounted
    <3> QED BY <3>1, <3>2, <3>3
  <2> HIDE DEF e, uses
  <2>6. CASE IsAnswer
    <3>1. pc' = "Exited" /\ exit' = 0
      BY <2>6 DEF Respond, Exit
    <3>2. Abstract!Answer(text, uses)
      BY <1>1, <1>3, <2>2, <2>3, <3>1 DEF Abstract!Answer, SessionPhase
    <3> QED BY <2>1, <3>2 DEF Abstract!Next
  <2>7. CASE ~IsAnswer
    <3>1. pc' = "Gating" /\ exit' = exit /\ uses # {}
      BY <2>5, <2>7 DEF Respond, ending, IsAnswer
    <3>2. Abstract!Propose(text, uses)
      BY <1>1, <1>3, <2>1, <2>2, <2>3, <3>1 DEF Abstract!Propose, Abstract!PushMessage, SessionPhase, Running
    <3> QED BY <2>1, <3>2 DEF Abstract!Next
  <2> QED BY <2>6, <2>7
<1> QED BY <1>2, <1>3

(* The start is the instruction of the only turn.                          *)
LEMMA StartStep ==
  ASSUME TalkInv, Start
  PROVE  [Abstract!Next]_(Abstract!vars)
<1>1. pc = "Starting" /\ ~journaled /\ journal = <<>> /\ exit = Running
  BY DEF Start, TalkInv
<1>2. PICK cli \in BatchCommand, opens \in BOOLEAN :
        \/ pc' = "Exited" /\ UNCHANGED <<settings, talk>>
        \/ /\ pc' = "Requesting" /\ journaled' = opens /\ UNCHANGED exit
           /\ IF opens
              THEN journal' = <<Instruction(1)>> /\ conv' \in Built(<<Instruction(1)>>)
              ELSE journal' = <<>> /\ conv' = Kept(<<>>)
  BY DEF Start
<1>3. CASE ~journaled'
  <2>1. journal' = journal
    BY <1>1, <1>2, <1>3 DEF settings, talk
  <2> QED BY <1>1, <1>3, <2>1, Unjournaled
<1>4. CASE journaled'
  <2>1. /\ pc' = "Requesting" /\ exit' = Running /\ journal' = <<Instruction(1)>>
        /\ conv' \in Built(<<Instruction(1)>>)
    BY <1>1, <1>2, <1>4 DEF settings
  <2>2. <<Instruction(1)>> = Append(journal, Instruction(0 + 1)) /\ Len(journal) = 0
    BY <1>1
  <2>3. /\ SessionPhase = "Idle" /\ SessionPhase' = "Streaming" /\ SessionTurn = 0 /\ SessionTurn' = 1
        /\ SessionConv' = conv'
    BY <1>1, <1>4, <2>1 DEF SessionPhase, SessionTurn, SessionConv, Running
  <2>4. Abstract!Room
    BY <2>2, BatchAssumption DEF Abstract!Room
  <2>5. /\ Abstract!Instruction(0 + 1) = Instruction(0 + 1) /\ ~Abstract!NoConversation.some
        /\ Abstract!Rebuilt(<<Instruction(1)>>) = Built(<<Instruction(1)>>)
    BY AbstractAlike DEF NoConversation
  <2>6. Abstract!StartStreaming(Append(journal, Abstract!Instruction(0 + 1)), Abstract!NoConversation)
    BY <2>1, <2>2, <2>3, <2>5 DEF Abstract!StartStreaming, SessionConv
  <2>7. Abstract!Instruct
    BY <2>3, <2>4, <2>6 DEF Abstract!Instruct, SessionTurn
  <2> QED BY <2>7 DEF Abstract!Next
<1> QED BY <1>3, <1>4

(* Every step.                                                             *)
LEMMA NextImplements ==
  ASSUME TalkInv, [Next]_vars
  PROVE  [Abstract!Next]_(Abstract!vars)
<1>1. CASE Start
  BY <1>1, StartStep
<1>2. CASE StreamFails
  BY <1>2, EndStep DEF StreamFails, Exit, settings, talk
<1>3. CASE \E text \in HasText, proposal \in Proposals : Respond(text, proposal)
  BY <1>3, RespondStep
<1>u. Waiting => AllUses # {} /\ 1..Len(Commands) # {} /\ 1..Len(Commands) \subseteq AllUses
                 /\ AllUses \in SUBSET ToolUse /\ 1..Len(Commands) \in SUBSET ToolUse
  BY WaitingUses DEF AllUses
<1>k. "Blocked" \in ReportKind /\ "ToolResult" \in ReportKind
  BY DEF ReportKind
<1>4. CASE Deny
  <2>1. Waiting /\ journaled' = journaled
    BY <1>4 DEF Deny, Waiting, settings
  <2>2. CASE Exit(1, total') /\ UNCHANGED <<talk, proposed>>
    BY <2>1, <2>2, EndStep DEF Exit, talk
  <2>3. CASE Block /\ UNCHANGED ending
    BY <1>u, <1>k, <2>1, <2>3, ReportStep DEF Block, ending
  <2> QED BY <1>4, <2>2, <2>3 DEF Deny
<1>5. CASE Pass
  BY <1>5, StaysStutters DEF Pass, Approve, settings, talk, ending, SessionPhase
<1>6. CASE RunCommand
  <2>1. Waiting /\ UNCHANGED <<journaled, journal, conv>>
    BY <1>6 DEF RunCommand, Waiting, settings, talk
  <2>2. CASE Panic
    BY <2>1, <2>2, EndStep DEF Panic, PANICKED
  <2>3. CASE UNCHANGED <<pc, ending>>
    BY <2>1, <2>3, StaysStutters DEF ending, SessionPhase
  <2> QED BY <1>6, <2>2, <2>3 DEF RunCommand
<1>7. CASE ReportResults
  <2>1. Waiting /\ UNCHANGED <<journaled, exit>>
    BY <1>7 DEF ReportResults, Waiting, settings, ending
  <2> QED BY <1>7, <1>u, <1>k, <2>1, ReportStep DEF ReportResults
<1>8. ASSUME NEW reply \in JudgeReply, JudgePanics(reply) PROVE [Abstract!Next]_(Abstract!vars)
  BY <1>8, EndStep DEF JudgePanics, Panic, PANICKED, settings, talk, Waiting
<1>9. ASSUME NEW reply \in JudgeReply, JudgeBlocks(reply) PROVE [Abstract!Next]_(Abstract!vars)
  <2>1. Waiting /\ UNCHANGED <<journaled, exit>>
    BY <1>9 DEF JudgeBlocks, Waiting, settings, ending
  <2> QED BY <1>9, <1>u, <1>k, <2>1, ReportStep DEF JudgeBlocks, Block
<1>10. CASE \E reply \in JudgeReply : JudgeAllows(reply)
  BY <1>10, StaysStutters DEF JudgeAllows, Approve, settings, talk, ending, SessionPhase
<1>11. CASE UNCHANGED vars
  BY <1>11, StaysStutters DEF vars, SessionPhase
<1> QED BY <1>1, <1>2, <1>3, <1>4, <1>5, <1>6, <1>7, <1>8, <1>9, <1>10, <1>11 DEF Next

(* Batch mode keeps its journal and its conversation as Session says:      *)
(* every step of it is a step of the session, or changes nothing of it     *)
(* (batch.rs).                                                             *)
THEOREM BatchImplementsSession == Spec => Implements
<1>1. Init => Abstract!Init
  BY AbstractAlike DEF Init, Abstract!Init, SessionPhase
<1>2. TalkInv /\ [Next]_vars => TalkInv' /\ [Abstract!Next]_(Abstract!vars)
  BY TalkNext, NextImplements
<1> QED BY <1>1, <1>2, TalkInit, PTL DEF Spec, Implements, Abstract!Spec
=============================================================================
