--------------------------- MODULE Session_proofs ---------------------------
(***************************************************************************)
(* Proof, for any number of turns and tool calls, any costs and any budget,*)
(* that the conversation in memory is always one the journal would give,   *)
(* that user and assistant take turns in every request, that results answer*)
(* the calls before them, and that requests are within the budget.         *)
(***************************************************************************)
EXTENDS Session, Selection_proofs

(***************************************************************************)
(* The conversion.                                                         *)
(***************************************************************************)

(* A round makes messages of messages.                                     *)
LEMMA AddEntryTyped ==
  ASSUME NEW msgs \in Seq(Message), NEW e \in JournalEntry
  PROVE  AddEntry(msgs, e) \in Seq(Message)
<1>1. <<e>> \in Seq(JournalEntry)
  OBVIOUS
<1>2. Assistant(e) \in Message /\ User(<<e>>) \in Message
  BY <1>1 DEF Assistant, User, Message
<1>3. MergeOrPushUser(msgs, e) \in Seq(Message)
  <2>1. CASE Len(msgs) > 0 /\ msgs[Len(msgs)].role = "user"
    <3> DEFINE last == msgs[Len(msgs)]
               new  == [last EXCEPT !.of = Append(@, e)]
    <3>1. Len(msgs) \in 1..Len(msgs)
      BY <2>1, LenProperties
    <3>2. last \in Message
      BY <3>1, ElementOfSeq
    <3>3. new \in Message
      <4>1. last.of \in Seq(JournalEntry)
        BY <3>2 DEF Message
      <4>2. Append(last.of, e) \in Seq(JournalEntry)
        BY <4>1, AppendProperties
      <4> HIDE DEF last
      <4> QED BY <3>2, <4>2 DEF Message
    <3>4. [msgs EXCEPT ![Len(msgs)] = new] \in Seq(Message)
      BY <3>1, <3>3, ExceptSeq
    <3> QED BY <2>1, <3>4 DEF MergeOrPushUser
  <2>2. CASE ~ (Len(msgs) > 0 /\ msgs[Len(msgs)].role = "user")
    BY <1>2, <2>2, AppendProperties DEF MergeOrPushUser
  <2> QED BY <2>1, <2>2
<1> QED BY <1>2, <1>3, AppendProperties DEF AddEntry

(* The rounds are what their recursive definition says.                    *)
LEMMA RoundsDefined ==
  ASSUME NEW es \in Seq(JournalEntry)
  PROVE  /\ Len(es) \in Nat
         /\ Rounds(es)[0] = <<>>
         /\ \A n \in 1..Len(es) : /\ n - 1 \in 0..Len(es) /\ es[n] \in JournalEntry
                                  /\ Rounds(es)[n] = AddEntry(Rounds(es)[n - 1], es[n])
         /\ \A n \in 0..Len(es) : Rounds(es)[n] \in Seq(Message)
<1> DEFINE N == Len(es)
           M == Seq(Message)
           step == [p \in M \X (1..N) |-> AddEntry(p[1], es[p[2]])]
<1>1. N \in Nat /\ <<>> \in M /\ \A n \in 1..N : es[n] \in JournalEntry
  BY LenProperties, ElementOfSeq, EmptySeq
<1>2. step \in [M \X (1..N) -> M]
  BY <1>1, AddEntryTyped
<1>3. PICK f \in [0..N -> M] : IsRecursive(f, N, <<>>, step)
  <2> HIDE DEF step, M, N
  <2> QED BY <1>1, <1>2, Recursion
<1>4. ASSUME NEW n \in 1..N
      PROVE  n - 1 \in 0..N /\ f[n] = AddEntry(f[n - 1], es[n])
  <2>1. n - 1 \in 0..N
    BY <1>1
  <2>2. f[n - 1] \in M
    BY <1>3, <2>1
  <2>3. f[n] = step[<<f[n - 1], n>>]
    <3> HIDE DEF step, M, N
    <3> QED BY <1>3 DEF IsRecursive
  <2> HIDE DEF M, N
  <2> QED BY <2>1, <2>2, <2>3
<1>5. ASSUME NEW n \in 0..N
      PROVE  f[n] = IF n = 0 THEN <<>> ELSE AddEntry(f[n - 1], es[n])
  <2>1. n # 0 => n \in 1..N
    BY <1>1
  <2> QED BY <1>3, <1>4, <2>1 DEF IsRecursive
<1>6. f = [n \in 0..N |-> IF n = 0 THEN <<>> ELSE AddEntry(f[n - 1], es[n])]
  BY <1>3, <1>5
<1>7. Rounds(es) = [n \in 0..N |-> IF n = 0 THEN <<>> ELSE AddEntry(Rounds(es)[n - 1], es[n])]
  BY <1>6 DEF Rounds
<1>8. Rounds(es)[0] = <<>> /\ \A n \in 1..N : Rounds(es)[n] = AddEntry(Rounds(es)[n - 1], es[n])
  BY <1>1, <1>7
<1>9. \A n \in 0..N : Rounds(es)[n] \in M
  <2> DEFINE T == {n \in 0..N : Rounds(es)[n] \in M}
  <2> HIDE DEF M, N
  <2>1. 0 \in T
    BY <1>1, <1>8
  <2>2. ASSUME NEW n \in 1..N, n - 1 \in T
        PROVE  n \in T
    <3>1. Rounds(es)[n - 1] \in M /\ es[n] \in JournalEntry
      BY <1>1, <2>2
    <3>2. AddEntry(Rounds(es)[n - 1], es[n]) \in M
      BY <3>1, AddEntryTyped DEF M
    <3> QED BY <1>1, <1>8, <3>2
  <2> HIDE DEF T
  <2>3. \A n \in 0..N : n \in T
    BY <1>1, <2>1, <2>2, InductionUpTo
  <2> QED BY <2>3 DEF T
<1> QED BY <1>1, <1>8, <1>9

(* An entry more is a round more.                                          *)
LEMMA RoundsAppend ==
  ASSUME NEW es \in Seq(JournalEntry), NEW e \in JournalEntry
  PROVE  /\ Len(Append(es, e)) = Len(es) + 1
         /\ Rounds(Append(es, e))[Len(es) + 1] = AddEntry(Rounds(es)[Len(es)], e)
<1> DEFINE more == Append(es, e)
           N    == Len(es)
           T    == {n \in 0..N : Rounds(more)[n] = Rounds(es)[n]}
<1>1. /\ more \in Seq(JournalEntry) /\ Len(more) = N + 1 /\ N \in Nat
      /\ more[N + 1] = e /\ \A n \in 1..N : more[n] = es[n]
  BY AppendProperties, LenProperties
<1>2. /\ Rounds(more)[0] = <<>>
      /\ \A n \in 1..(N + 1) : Rounds(more)[n] = AddEntry(Rounds(more)[n - 1], more[n])
  <2> HIDE DEF more
  <2> QED BY <1>1, RoundsDefined
<1>3. /\ Rounds(es)[0] = <<>>
      /\ \A n \in 1..N : Rounds(es)[n] = AddEntry(Rounds(es)[n - 1], es[n])
  BY RoundsDefined
<1> HIDE DEF more, N
<1>4. 0 \in T
  BY <1>1, <1>2, <1>3
<1>5. ASSUME NEW n \in 1..N, n - 1 \in T
      PROVE  n \in T
  <2>1. n \in 1..(N + 1) /\ n \in 0..N /\ more[n] = es[n]
    BY <1>1
  <2> QED BY <1>2, <1>3, <1>5, <2>1
<1>6. \A n \in 0..N : n \in T
  <2> HIDE DEF T
  <2> QED BY <1>1, <1>4, <1>5, InductionUpTo
<1>7. Rounds(more)[N] = Rounds(es)[N] /\ N + 1 \in 1..(N + 1) /\ (N + 1) - 1 = N
  BY <1>1, <1>6
<1>8. Rounds(more)[N + 1] = AddEntry(Rounds(es)[N], e)
  BY <1>1, <1>2, <1>7
<1> QED BY <1>1, <1>8 DEF more, N

-----------------------------------------------------------------------------
(***************************************************************************)
(* The messages a conversion makes.                                        *)
(***************************************************************************)

(* A response that gives a message, messages made of one, and of others.   *)
IsFull(response) == response.uses # {} \/ response.text

OneResponse(message) ==
  \E r \in JournalEntry : r.kind = "Response" /\ IsFull(r) /\ message = Assistant(r)

NoResponses(message) ==
  Len(message.of) > 0 /\ \A k \in 1..Len(message.of) : message.of[k].kind # "Response"

(* Neighbours are of different roles and results answer calls.             *)
Shape(msgs) ==
  /\ \A i \in 1..Len(msgs) :
       IF msgs[i].role = "assistant" THEN OneResponse(msgs[i]) ELSE NoResponses(msgs[i])
  /\ \A i \in 2..Len(msgs) :
       msgs[i].role # msgs[i - 1].role /\ Results(msgs[i]) \subseteq Uses(msgs[i - 1])

EndsInUser(msgs) == msgs # <<>> /\ msgs[Len(msgs)].role = "user"

(* What the last message is after the round of entry e.                    *)
EndsIn(msgs, e) ==
  IF e.kind # "Response" THEN EndsInUser(msgs)
  ELSE IF IsFull(e) THEN msgs # <<>> /\ msgs[Len(msgs)] = Assistant(e)
  ELSE msgs = <<>> \/ EndsInUser(msgs)

(* Two entries, one after the other, in the journals that the loops write. *)
MayFollow(entry, before) ==
  /\ entry.kind = "Response" => before.kind # "Response"
  /\ IsResult(entry) => before.kind = "Response" /\ entry.uses \subseteq before.uses

Orderly(entries) == \A i \in 2..Len(entries) : MayFollow(entries[i], entries[i - 1])

(* The calls and the results of a message, entry by entry.                 *)
LEMMA UsesResults ==
  ASSUME NEW m \in Message
  PROVE  /\ \A u : u \in Uses(m) <=> \E k \in 1..Len(m.of) :
                                       m.of[k].kind = "Response" /\ u \in m.of[k].uses
         /\ \A u : u \in Results(m) <=> \E k \in 1..Len(m.of) :
                                          IsResult(m.of[k]) /\ u \in m.of[k].uses
  BY DEF Uses, Results, EntriesOf

(* What a message of one entry says, and one that an entry is merged into. *)
LEMMA OfAssistant ==
  ASSUME NEW r \in JournalEntry, r.kind = "Response"
  PROVE  /\ Assistant(r) \in Message /\ Assistant(r).role = "assistant"
         /\ Uses(Assistant(r)) = r.uses /\ Results(Assistant(r)) = {}
<1>1. <<r>> \in Seq(JournalEntry) /\ Len(<<r>>) = 1 /\ <<r>>[1] = r /\ 1..1 = {1}
  OBVIOUS
<1>2. Assistant(r) \in Message /\ Assistant(r).of = <<r>> /\ Assistant(r).role = "assistant"
  BY <1>1 DEF Assistant, Message
<1>3. ~ IsResult(r)
  BY DEF IsResult
<1>4. \A u : u \in Uses(Assistant(r)) <=> u \in r.uses
  BY <1>1, <1>2, UsesResults, SMTT(40)
<1>5. \A u : u \notin Results(Assistant(r))
  BY <1>1, <1>2, <1>3, UsesResults
<1> QED BY <1>2, <1>4, <1>5

LEMMA OfUser ==
  ASSUME NEW e \in JournalEntry, e.kind # "Response"
  PROVE  /\ User(<<e>>) \in Message /\ User(<<e>>).role = "user" /\ NoResponses(User(<<e>>))
         /\ Results(User(<<e>>)) = IF IsResult(e) THEN e.uses ELSE {}
<1>1. <<e>> \in Seq(JournalEntry) /\ Len(<<e>>) = 1 /\ <<e>>[1] = e /\ 1..1 = {1}
  OBVIOUS
<1>2. User(<<e>>) \in Message /\ User(<<e>>).of = <<e>> /\ User(<<e>>).role = "user"
  BY <1>1 DEF User, Message
<1>3. \A u : u \in Results(User(<<e>>)) <=> IsResult(e) /\ u \in e.uses
  BY <1>1, <1>2, UsesResults
<1>4. NoResponses(User(<<e>>))
  BY <1>1, <1>2 DEF NoResponses
<1> QED BY <1>2, <1>3, <1>4

LEMMA OfMerged ==
  ASSUME NEW m \in Message, NEW e \in JournalEntry, e.kind # "Response", NoResponses(m),
         NEW merged, merged = [m EXCEPT !.of = Append(@, e)]
  PROVE  /\ merged \in Message /\ merged.role = m.role /\ NoResponses(merged)
         /\ Results(merged) = Results(m) \cup (IF IsResult(e) THEN e.uses ELSE {})
<1>1. m.of \in Seq(JournalEntry)
  BY DEF Message
<1>2. /\ Append(m.of, e) \in Seq(JournalEntry) /\ Len(Append(m.of, e)) = Len(m.of) + 1
      /\ Append(m.of, e)[Len(m.of) + 1] = e /\ Len(m.of) \in Nat
      /\ \A k \in 1..Len(m.of) : Append(m.of, e)[k] = m.of[k]
  BY <1>1, AppendProperties, LenProperties
<1>3. merged \in Message /\ merged.role = m.role /\ merged.of = Append(m.of, e)
  BY <1>2 DEF Message
<1>4. NoResponses(merged)
  <2>1. ASSUME NEW k \in 1..Len(merged.of) PROVE merged.of[k].kind # "Response"
    <3>1. k \in 1..Len(m.of) \/ k = Len(m.of) + 1
      BY <1>2, <1>3
    <3> QED BY <1>2, <1>3, <3>1 DEF NoResponses
  <2> QED BY <1>2, <1>3, <2>1 DEF NoResponses
<1>5. ASSUME NEW u
      PROVE  u \in Results(merged) <=> u \in Results(m) \/ (IsResult(e) /\ u \in e.uses)
  <2>1. u \in Results(merged) <=> \E k \in 1..(Len(m.of) + 1) :
                                    IsResult(merged.of[k]) /\ u \in merged.of[k].uses
    BY <1>2, <1>3, UsesResults
  <2>2. u \in Results(m) <=> \E k \in 1..Len(m.of) : IsResult(m.of[k]) /\ u \in m.of[k].uses
    BY UsesResults
  <2>3. \A k \in 1..(Len(m.of) + 1) : k \in 1..Len(m.of) \/ k = Len(m.of) + 1
    BY <1>2
  <2>4. Len(m.of) + 1 \in 1..(Len(m.of) + 1) /\ \A k \in 1..Len(m.of) : k \in 1..(Len(m.of) + 1)
    BY <1>2
  <2> QED BY <1>2, <1>3, <2>1, <2>2, <2>3, <2>4
<1> QED BY <1>3, <1>4, <1>5

-----------------------------------------------------------------------------
(* A message is added that may follow the last one.                        *)
LEMMA ShapeAppend ==
  ASSUME NEW msgs \in Seq(Message), Shape(msgs), NEW m \in Message,
         IF m.role = "assistant" THEN OneResponse(m) ELSE NoResponses(m),
         msgs # <<>> => m.role # msgs[Len(msgs)].role /\ Results(m) \subseteq Uses(msgs[Len(msgs)])
  PROVE  Shape(Append(msgs, m))
<1> DEFINE new == Append(msgs, m)
           N   == Len(msgs)
<1>1. /\ Len(new) = N + 1 /\ new[N + 1] = m /\ N \in Nat
      /\ \A i \in 1..N : new[i] = msgs[i]
      /\ N > 0 => msgs # <<>>
  BY AppendProperties, LenProperties
<1> HIDE DEF new
<1>2. ASSUME NEW i \in 1..Len(new)
      PROVE  IF new[i].role = "assistant" THEN OneResponse(new[i]) ELSE NoResponses(new[i])
  <2>1. i \in 1..N \/ i = N + 1
    BY <1>1
  <2> QED BY <1>1, <2>1 DEF Shape
<1>3. ASSUME NEW i \in 2..Len(new)
      PROVE  new[i].role # new[i - 1].role /\ Results(new[i]) \subseteq Uses(new[i - 1])
  <2>1. CASE i = N + 1
    <3>1. i - 1 = N /\ new[i - 1] = msgs[N] /\ msgs # <<>> /\ new[i] = m
      BY <1>1, <2>1
    <3> QED BY <3>1
  <2>2. CASE i # N + 1
    <3>1. i \in 2..N /\ new[i] = msgs[i] /\ new[i - 1] = msgs[i - 1]
      BY <1>1, <2>2
    <3> QED BY <3>1 DEF Shape
  <2> QED BY <2>1, <2>2
<1> QED BY <1>2, <1>3 DEF Shape, new

(* The last message is one of the user and grows by an entry.              *)
LEMMA ShapeMerge ==
  ASSUME NEW msgs \in Seq(Message), Shape(msgs), EndsInUser(msgs),
         NEW e \in JournalEntry, e.kind # "Response",
         IsResult(e) /\ Len(msgs) > 1 => e.uses \subseteq Uses(msgs[Len(msgs) - 1])
  PROVE  LET new == [msgs EXCEPT ![Len(msgs)].of = Append(@, e)]
         IN  new \in Seq(Message) /\ Shape(new) /\ EndsInUser(new)
<1> DEFINE N      == Len(msgs)
           last   == msgs[N]
           merged == [last EXCEPT !.of = Append(@, e)]
           new    == [msgs EXCEPT ![N] = merged]
<1>1. N \in Nat \ {0} /\ N \in 1..N /\ last \in Message /\ last.role = "user"
  BY EmptySeq, ElementOfSeq DEF EndsInUser
<1>2. NoResponses(last)
  BY <1>1 DEF Shape
<1>3. /\ merged \in Message /\ merged.role = "user" /\ NoResponses(merged)
      /\ Results(merged) = Results(last) \cup (IF IsResult(e) THEN e.uses ELSE {})
  <2> HIDE DEF last
  <2> QED BY <1>1, <1>2, OfMerged
<1> HIDE DEF merged
<1>4. /\ new \in Seq(Message) /\ Len(new) = N
      /\ \A i \in 1..N : new[i] = IF i = N THEN merged ELSE msgs[i]
  BY <1>1, <1>3, ExceptSeq
<1> HIDE DEF new
<1>5. ASSUME NEW i \in 1..Len(new)
      PROVE  IF new[i].role = "assistant" THEN OneResponse(new[i]) ELSE NoResponses(new[i])
  <2>1. CASE i = N BY <1>1, <1>3, <1>4, <2>1
  <2>2. CASE i # N BY <1>4, <2>2 DEF Shape
  <2> QED BY <2>1, <2>2
<1>6. ASSUME NEW i \in 2..Len(new)
      PROVE  new[i].role # new[i - 1].role /\ Results(new[i]) \subseteq Uses(new[i - 1])
  <2>1. i \in 2..N /\ i \in 1..N /\ i - 1 \in 1..N /\ i - 1 # N /\ new[i - 1] = msgs[i - 1]
    BY <1>1, <1>4
  <2>2. msgs[i].role # msgs[i - 1].role /\ Results(msgs[i]) \subseteq Uses(msgs[i - 1])
    BY <2>1 DEF Shape
  <2>3. CASE i = N
    <3>1. new[i] = merged /\ N > 1 /\ msgs[i] = last
      BY <1>4, <2>1, <2>3
    <3> QED BY <1>1, <1>3, <2>1, <2>2, <2>3, <3>1
  <2>4. CASE i # N BY <1>4, <2>1, <2>2, <2>4
  <2> QED BY <2>3, <2>4
<1>7. Shape(new)
  BY <1>5, <1>6 DEF Shape
<1>8. EndsInUser(new)
  BY <1>1, <1>3, <1>4 DEF EndsInUser
<1> QED BY <1>4, <1>7, <1>8 DEF new, merged

(* A round, after that of the entry before.                                *)
LEMMA ShapeRound ==
  ASSUME NEW msgs \in Seq(Message), Shape(msgs), NEW e \in JournalEntry,
         \/ msgs = <<>>
         \/ \E before \in JournalEntry : EndsIn(msgs, before) /\ MayFollow(e, before)
  PROVE  Shape(AddEntry(msgs, e)) /\ EndsIn(AddEntry(msgs, e), e)
<1>1. CASE e.kind = "Response"
  <2>1. msgs = <<>> \/ EndsInUser(msgs)
    BY <1>1 DEF EndsIn, MayFollow
  <2>2. CASE IsFull(e)
    <3> DEFINE new == Append(msgs, Assistant(e))
    <3>1. /\ Assistant(e) \in Message /\ Assistant(e).role = "assistant"
          /\ Results(Assistant(e)) = {} /\ OneResponse(Assistant(e))
      BY <1>1, <2>2, OfAssistant DEF OneResponse
    <3>2. Shape(new)
      BY <2>1, <3>1, ShapeAppend DEF EndsInUser
    <3>3. new # <<>> /\ new[Len(new)] = Assistant(e)
      BY <3>1, AppendProperties
    <3> QED BY <1>1, <2>2, <3>2, <3>3 DEF AddEntry, EndsIn, IsFull
  <2>3. CASE ~ IsFull(e)
    BY <1>1, <2>1, <2>3 DEF AddEntry, EndsIn, IsFull
  <2> QED BY <2>2, <2>3
<1>2. CASE e.kind # "Response"
  <2>1. AddEntry(msgs, e) = MergeOrPushUser(msgs, e)
    BY <1>2 DEF AddEntry
  <2>2. SUFFICES Shape(MergeOrPushUser(msgs, e)) /\ EndsInUser(MergeOrPushUser(msgs, e))
    BY <1>2, <2>1 DEF EndsIn
  <2>3. CASE EndsInUser(msgs)
    <3>1. Len(msgs) > 0
      BY <2>3, EmptySeq DEF EndsInUser
    <3>2. IsResult(e) /\ Len(msgs) > 1 => e.uses \subseteq Uses(msgs[Len(msgs) - 1])
      <4>1. SUFFICES ASSUME IsResult(e) PROVE e.uses = {}
        OBVIOUS
      <4>2. PICK before \in JournalEntry : EndsIn(msgs, before) /\ MayFollow(e, before)
        BY <2>3 DEF EndsInUser
      <4>3. before.kind = "Response" /\ e.uses \subseteq before.uses
        BY <4>1, <4>2 DEF MayFollow
      <4>4. ~ IsFull(before)
        BY <2>3, <4>2, <4>3, OfAssistant DEF EndsIn, EndsInUser
      <4> QED BY <4>3, <4>4 DEF IsFull
    <3>3. MergeOrPushUser(msgs, e) = [msgs EXCEPT ![Len(msgs)].of = Append(@, e)]
      BY <2>3, <3>1 DEF MergeOrPushUser, EndsInUser
    <3> QED BY <1>2, <2>3, <3>2, <3>3, ShapeMerge
  <2>4. CASE ~ EndsInUser(msgs)
    <3> DEFINE m   == User(<<e>>)
               new == Append(msgs, m)
    <3>1. ~ (Len(msgs) > 0 /\ msgs[Len(msgs)].role = "user")
      BY <2>4, EmptySeq DEF EndsInUser
    <3>2. MergeOrPushUser(msgs, e) = new
      BY <3>1 DEF MergeOrPushUser
    <3>3. /\ m \in Message /\ m.role = "user" /\ NoResponses(m)
          /\ Results(m) = IF IsResult(e) THEN e.uses ELSE {}
      BY <1>2, OfUser
    <3>4. msgs # <<>> => /\ msgs[Len(msgs)].role # "user"
                         /\ Results(m) \subseteq Uses(msgs[Len(msgs)])
      <4>1. SUFFICES ASSUME msgs # <<>>, IsResult(e)
                     PROVE  e.uses \subseteq Uses(msgs[Len(msgs)])
        BY <2>4, <3>3 DEF EndsInUser
      <4>2. PICK before \in JournalEntry : EndsIn(msgs, before) /\ MayFollow(e, before)
        BY <4>1
      <4>3. before.kind = "Response" /\ e.uses \subseteq before.uses
        BY <4>1, <4>2 DEF MayFollow
      <4>4. msgs[Len(msgs)] = Assistant(before)
        BY <2>4, <4>1, <4>2, <4>3 DEF EndsIn
      <4> QED BY <4>3, <4>4, OfAssistant
    <3> HIDE DEF m
    <3>5. Shape(new)
      BY <3>3, <3>4, ShapeAppend
    <3>6. EndsInUser(new)
      BY <3>3, AppendProperties DEF EndsInUser
    <3> QED BY <3>2, <3>5, <3>6
  <2> QED BY <2>3, <2>4
<1> QED BY <1>1, <1>2

(* All rounds.                                                             *)
LEMMA ShapeRounds ==
  ASSUME NEW es \in Seq(JournalEntry), Orderly(es)
  PROVE  \A n \in 0..Len(es) : /\ Shape(Rounds(es)[n])
                               /\ n > 0 => EndsIn(Rounds(es)[n], es[n])
<1> DEFINE N == Len(es)
           R == Rounds(es)
           T == {n \in 0..N : Shape(R[n]) /\ (n > 0 => EndsIn(R[n], es[n]))}
<1>1. /\ N \in Nat /\ R[0] = <<>>
      /\ \A n \in 1..N : n - 1 \in 0..N /\ es[n] \in JournalEntry /\ R[n] = AddEntry(R[n - 1], es[n])
      /\ \A n \in 0..N : R[n] \in Seq(Message)
  BY RoundsDefined
<1> HIDE DEF N, R
<1>2. 0 \in T
  <2>1. Shape(<<>>)
    BY DEF Shape
  <2> QED BY <1>1, <2>1
<1>3. ASSUME NEW n \in 1..N, n - 1 \in T
      PROVE  n \in T
  <2>1. n \in 0..N /\ R[n - 1] \in Seq(Message) /\ Shape(R[n - 1])
    BY <1>1, <1>3
  <2>2. \/ R[n - 1] = <<>>
        \/ \E before \in JournalEntry : EndsIn(R[n - 1], before) /\ MayFollow(es[n], before)
    <3>1. CASE n = 1 BY <1>1, <3>1
    <3>2. CASE n # 1
      <4>1. n \in 2..N /\ n - 1 \in 1..N /\ n - 1 > 0
        BY <1>1, <3>2
      <4>2. MayFollow(es[n], es[n - 1])
        BY <4>1 DEF Orderly, N
      <4> QED BY <1>1, <1>3, <4>1, <4>2
    <3> QED BY <3>1, <3>2
  <2>3. Shape(AddEntry(R[n - 1], es[n])) /\ EndsIn(AddEntry(R[n - 1], es[n]), es[n])
    BY <1>1, <2>1, <2>2, ShapeRound
  <2> QED BY <1>1, <2>1, <2>3
<1>4. \A n \in 0..N : n \in T
  <2> HIDE DEF T
  <2> QED BY <1>1, <1>2, <1>3, InductionUpTo
<1> QED BY <1>4 DEF N, R

-----------------------------------------------------------------------------
(* Who speaks, by the position.                                            *)
InTurns(msgs) ==
  /\ \A i \in 1..Len(msgs) : msgs[i].role = IF i % 2 = 1 THEN "user" ELSE "assistant"
  /\ \A i \in 1..Len(msgs) : msgs[i].role = "assistant" => OneResponse(msgs[i])
  /\ \A i \in 2..Len(msgs) : Results(msgs[i]) \subseteq Uses(msgs[i - 1])

(* Neighbours that differ take turns, the user first.                      *)
LEMMA ShapeInTurns ==
  ASSUME NEW msgs \in Seq(Message), Shape(msgs), msgs # <<>> => msgs[1].role = "user"
  PROVE  InTurns(msgs)
<1> DEFINE N == Len(msgs)
           T == {i \in 0..N : i > 0 => msgs[i].role = IF i % 2 = 1 THEN "user" ELSE "assistant"}
<1>1. N \in Nat /\ (N > 0 => msgs # <<>>) /\ \A i \in 1..N : msgs[i] \in Message
  BY LenProperties, ElementOfSeq
<1> HIDE DEF N
<1>2. 0 \in T
  BY <1>1
<1>3. ASSUME NEW i \in 1..N, i - 1 \in T
      PROVE  i \in T
  <2>1. CASE i = 1 BY <1>1, <2>1
  <2>2. CASE i # 1
    <3>1. i \in 2..N /\ i \in 0..N /\ i - 1 \in 1..N
      BY <1>1, <2>2
    <3>2. msgs[i].role # msgs[i - 1].role
      BY <3>1 DEF Shape, N
    <3>3. msgs[i].role \in {"user", "assistant"} /\ msgs[i - 1].role \in {"user", "assistant"}
      BY <1>1, <3>1 DEF Message
    <3>4. msgs[i - 1].role = IF (i - 1) % 2 = 1 THEN "user" ELSE "assistant"
      BY <1>3, <3>1
    <3>5. (i - 1) % 2 = 1 <=> ~ (i % 2 = 1)
      BY <3>1
    <3> QED BY <3>1, <3>2, <3>3, <3>4, <3>5
  <2> QED BY <2>1, <2>2
<1>4. \A i \in 0..N : i \in T
  <2> HIDE DEF T
  <2> QED BY <1>1, <1>2, <1>3, InductionUpTo
<1>5. \A i \in 1..N : msgs[i].role = IF i % 2 = 1 THEN "user" ELSE "assistant"
  BY <1>1, <1>4
<1> QED BY <1>5 DEF InTurns, Shape, N

(* The message that is put before the others.                              *)
LEMMA ContinuationTyped ==
  /\ Continuation \in Message /\ Continuation.role = "user" /\ Len(Continuation.of) = 0
  /\ <<Continuation>> \in Seq(Message) /\ Len(<<Continuation>>) = 1
  /\ <<Continuation>>[1] = Continuation
<1>1. <<>> \in Seq(JournalEntry) /\ Len(<<>>) = 0
  BY EmptySeq
<1>2. Continuation \in Message /\ Continuation.role = "user" /\ Len(Continuation.of) = 0
  BY <1>1 DEF Continuation, User, Message
<1> QED BY <1>2

(* "[session continues]" before messages that begin with the assistant.    *)
LEMMA ContinuedInTurns ==
  ASSUME NEW msgs \in Seq(Message), Shape(msgs), msgs # <<>>, msgs[1].role = "assistant"
  PROVE  /\ <<Continuation>> \o msgs \in Seq(Message)
         /\ InTurns(<<Continuation>> \o msgs)
<1> DEFINE N   == Len(msgs)
           new == <<Continuation>> \o msgs
<1>1. /\ N \in Nat \ {0} /\ new \in Seq(Message) /\ Len(new) = N + 1
      /\ \A i \in 1..(N + 1) : new[i] = IF i <= 1 THEN Continuation ELSE msgs[i - 1]
  BY EmptySeq, ContinuationTyped, ConcatProperties
<1> HIDE DEF new
<1>2. new[1] = Continuation /\ \A i \in 2..(N + 1) : i - 1 \in 1..N /\ new[i] = msgs[i - 1]
  BY <1>1
<1>3. OneResponse(msgs[1])
  BY <1>1 DEF Shape
<1>4. Results(msgs[1]) = {}
  BY <1>3, OfAssistant DEF OneResponse
<1>5. ~ OneResponse(Continuation)
  BY ContinuationTyped, OfAssistant DEF OneResponse
<1>6. \A k \in 1..0 : FALSE
  OBVIOUS
<1>7. \A m \in Message : m = Continuation => Results(m) = {} /\ Uses(m) = {}
  BY ContinuationTyped, UsesResults
<1> DEFINE T == {i \in 0..(N + 1) : i > 0 => new[i].role = IF i % 2 = 1 THEN "user" ELSE "assistant"}
<1>8. 0 \in T
  BY <1>1
<1>9. ASSUME NEW i \in 1..(N + 1), i - 1 \in T
      PROVE  i \in T
  <2>1. CASE i = 1 BY <1>1, <1>2, <2>1, ContinuationTyped
  <2>2. CASE i = 2
    <3>1. new[2] = msgs[1]
      BY <1>1, <1>2, <2>2
    <3>2. 2 \in 0..(N + 1)
      BY <1>1
    <3> QED BY <2>2, <3>1, <3>2
  <2>3. CASE i > 2
    <3>1. i - 1 \in 2..N /\ i \in 2..(N + 1) /\ i - 1 \in 2..(N + 1) /\ (i - 1) - 1 \in 1..N
      BY <1>1, <2>3
    <3>2. msgs[i - 1].role # msgs[(i - 1) - 1].role
      BY <3>1 DEF Shape
    <3>3. new[i] = msgs[i - 1] /\ new[i - 1] = msgs[(i - 1) - 1]
      BY <1>2, <3>1
    <3>4. new[i].role \in {"user", "assistant"} /\ new[i - 1].role \in {"user", "assistant"}
      <4>1. msgs[i - 1] \in Message /\ msgs[(i - 1) - 1] \in Message
        BY <1>2, <3>1, ElementOfSeq
      <4> QED BY <3>3, <4>1 DEF Message
    <3>5. new[i - 1].role = IF (i - 1) % 2 = 1 THEN "user" ELSE "assistant"
      BY <1>9, <3>1
    <3>6. (i - 1) % 2 = 1 <=> ~ (i % 2 = 1)
      BY <3>1
    <3> QED BY <3>1, <3>2, <3>3, <3>4, <3>5, <3>6
  <2> QED BY <1>1, <2>1, <2>2, <2>3
<1>10. \A i \in 0..(N + 1) : i \in T
  <2> HIDE DEF T
  <2>1. N + 1 \in Nat
    BY <1>1
  <2> QED BY <1>8, <1>9, <2>1, InductionUpTo
<1>11. \A i \in 1..(N + 1) : new[i].role = IF i % 2 = 1 THEN "user" ELSE "assistant"
  BY <1>1, <1>10
<1>12. ASSUME NEW i \in 1..(N + 1), new[i].role = "assistant"
       PROVE  OneResponse(new[i])
  <2>1. i # 1
    BY <1>2, <1>12, ContinuationTyped
  <2>2. i - 1 \in 1..N /\ new[i] = msgs[i - 1]
    BY <1>1, <1>2, <2>1
  <2> QED BY <1>12, <2>2 DEF Shape
<1>13. ASSUME NEW i \in 2..(N + 1)
       PROVE  Results(new[i]) \subseteq Uses(new[i - 1])
  <2>1. CASE i = 2 BY <1>1, <1>2, <1>4, <2>1
  <2>2. CASE i # 2
    <3>1. i - 1 \in 2..N /\ new[i] = msgs[i - 1] /\ new[i - 1] = msgs[(i - 1) - 1]
      BY <1>1, <1>2, <2>2
    <3> QED BY <3>1 DEF Shape
  <2> QED BY <2>1, <2>2
<1> QED BY <1>1, <1>11, <1>12, <1>13 DEF InTurns, new

(* The messages made from entries.                                         *)
LEMMA MessagesInTurns ==
  ASSUME NEW es \in Seq(JournalEntry), Orderly(es)
  PROVE  Messages(es) \in Seq(Message) /\ InTurns(Messages(es))
<1> DEFINE raw == Rounds(es)[Len(es)]
<1>1. raw \in Seq(Message) /\ Shape(raw)
  <2>1. Len(es) \in 0..Len(es)
    BY LenProperties
  <2> QED BY <2>1, RoundsDefined, ShapeRounds
<1>2. Messages(es) = IF raw # <<>> /\ raw[1].role = "assistant" THEN <<Continuation>> \o raw ELSE raw
  BY DEF Messages
<1> HIDE DEF raw
<1>3. raw # <<>> => raw[1].role \in {"user", "assistant"}
  <2>1. SUFFICES ASSUME raw # <<>> PROVE raw[1] \in Message
    BY DEF Message
  <2>2. 1 \in 1..Len(raw)
    BY <1>1, <2>1, EmptySeq
  <2> QED BY <1>1, <2>2, ElementOfSeq
<1> QED BY <1>1, <1>2, <1>3, ShapeInTurns, ContinuedInTurns

(* After entries that end in one of the user they end in a message of the  *)
(* user.                                                                   *)
LEMMA MessagesEnd ==
  ASSUME NEW es \in Seq(JournalEntry), Orderly(es), es # <<>>, es[Len(es)].kind # "Response"
  PROVE  Messages(es) # <<>> /\ Len(Messages(es)) % 2 = 1
<1> DEFINE raw == Rounds(es)[Len(es)]
<1>1. Len(es) \in Nat /\ Len(es) > 0 /\ Len(es) \in 0..Len(es)
  BY EmptySeq
<1>2. raw \in Seq(Message) /\ EndsInUser(raw)
  BY <1>1, RoundsDefined, ShapeRounds DEF EndsIn
<1>3. Messages(es) = raw \/ Messages(es) = <<Continuation>> \o raw
  BY DEF Messages
<1> HIDE DEF raw
<1>4. Len(raw) \in Nat \ {0}
  BY <1>2, EmptySeq DEF EndsInUser
<1> DEFINE msgs == Messages(es)
<1>5. Len(msgs) \in Nat \ {0} /\ msgs[Len(msgs)].role = "user"
  <2>1. CASE msgs = raw
    BY <1>2, <1>4, <2>1 DEF EndsInUser
  <2>2. CASE msgs = <<Continuation>> \o raw
    <3>1. /\ Len(<<Continuation>> \o raw) = Len(raw) + 1
          /\ \A i \in 1..(Len(raw) + 1) :
               (<<Continuation>> \o raw)[i] = IF i <= 1 THEN Continuation ELSE raw[i - 1]
      BY <1>2, ContinuationTyped, ConcatProperties
    <3>2. Len(msgs) = Len(raw) + 1 /\ msgs[Len(raw) + 1] = raw[Len(raw)]
      BY <1>4, <2>2, <3>1
    <3> QED BY <1>2, <1>4, <3>2 DEF EndsInUser
  <2> QED BY <1>3, <2>1, <2>2
<1>6. InTurns(msgs)
  BY MessagesInTurns
<1> HIDE DEF msgs
<1>7. Len(msgs) % 2 = 1
  <2>1. Len(msgs) \in 1..Len(msgs)
    BY <1>5
  <2> QED BY <1>5, <1>6, <2>1 DEF InTurns
<1> QED BY <1>5, <1>7 DEF msgs

(* A round that adds a message adds it to the messages.                    *)
LEMMA MessagesAppend ==
  ASSUME NEW es \in Seq(JournalEntry), NEW e \in JournalEntry, NEW m \in Message,
         Rounds(es)[Len(es)] # <<>>,
         AddEntry(Rounds(es)[Len(es)], e) = Append(Rounds(es)[Len(es)], m)
  PROVE  Messages(Append(es, e)) = Append(Messages(es), m)
<1> DEFINE raw == Rounds(es)[Len(es)]
<1>1. raw \in Seq(Message) /\ raw # <<>>
  <2>1. Len(es) \in 0..Len(es)
    BY LenProperties
  <2> QED BY <2>1, RoundsDefined
<1>2. Rounds(Append(es, e))[Len(Append(es, e))] = Append(raw, m)
  BY RoundsAppend
<1> HIDE DEF raw
<1>3. Append(raw, m) # <<>> /\ Append(raw, m)[1] = raw[1]
  <2>1. 1 \in 1..Len(raw)
    BY <1>1, EmptySeq
  <2> QED BY <1>1, <2>1, AppendProperties
<1>4. <<Continuation>> \o Append(raw, m) = Append(<<Continuation>> \o raw, m)
  BY <1>1, ContinuationTyped
<1>5. Messages(es) = IF raw[1].role = "assistant" THEN <<Continuation>> \o raw ELSE raw
  BY <1>1 DEF Messages, raw
<1>6. Messages(Append(es, e)) =
        IF raw[1].role = "assistant" THEN <<Continuation>> \o Append(raw, m) ELSE Append(raw, m)
  BY <1>2, <1>3 DEF Messages
<1> QED BY <1>4, <1>5, <1>6

-----------------------------------------------------------------------------
(***************************************************************************)
(* What it costs.                                                          *)
(***************************************************************************)

(* The sums are what their recursive definition says.                      *)
LEMMA SumsDefined ==
  ASSUME NEW ns \in Seq(Nat)
  PROVE  /\ Len(ns) \in Nat
         /\ Sums(ns)[0] = 0
         /\ \A n \in 1..Len(ns) : /\ n - 1 \in 0..Len(ns) /\ ns[n] \in Nat
                                  /\ Sums(ns)[n] = Sums(ns)[n - 1] + ns[n]
         /\ \A n \in 0..Len(ns) : Sums(ns)[n] \in Nat
<1> DEFINE N == Len(ns)
           step == [p \in Nat \X (1..N) |-> p[1] + ns[p[2]]]
<1>1. N \in Nat /\ \A n \in 1..N : ns[n] \in Nat
  BY LenProperties, ElementOfSeq
<1>2. step \in [Nat \X (1..N) -> Nat]
  BY <1>1
<1>3. PICK f \in [0..N -> Nat] : IsRecursive(f, N, 0, step)
  <2> HIDE DEF step, N
  <2> QED BY <1>1, <1>2, Recursion
<1>4. ASSUME NEW n \in 1..N
      PROVE  n - 1 \in 0..N /\ f[n] = f[n - 1] + ns[n]
  <2>1. n - 1 \in 0..N
    BY <1>1
  <2>2. f[n - 1] \in Nat
    BY <1>3, <2>1
  <2>3. f[n] = step[<<f[n - 1], n>>]
    <3> HIDE DEF step, N
    <3> QED BY <1>3 DEF IsRecursive
  <2> HIDE DEF N
  <2> QED BY <2>1, <2>2, <2>3
<1>5. ASSUME NEW n \in 0..N
      PROVE  f[n] = IF n = 0 THEN 0 ELSE f[n - 1] + ns[n]
  <2>1. n # 0 => n \in 1..N
    BY <1>1
  <2> QED BY <1>3, <1>4, <2>1 DEF IsRecursive
<1>6. f = [n \in 0..N |-> IF n = 0 THEN 0 ELSE f[n - 1] + ns[n]]
  BY <1>3, <1>5
<1>7. Sums(ns) = [n \in 0..N |-> IF n = 0 THEN 0 ELSE Sums(ns)[n - 1] + ns[n]]
  BY <1>6 DEF Sums
<1>8. Sums(ns)[0] = 0 /\ \A n \in 1..N : n - 1 \in 0..N /\ Sums(ns)[n] = Sums(ns)[n - 1] + ns[n]
  <2> HIDE DEF N
  <2>1. Sums(ns)[0] = 0
    <3>1. 0 \in 0..N
      BY <1>1
    <3> QED BY <1>7, <3>1
  <2>2. ASSUME NEW n \in 1..N
        PROVE  n - 1 \in 0..N /\ Sums(ns)[n] = Sums(ns)[n - 1] + ns[n]
    <3>1. n \in 0..N /\ n # 0 /\ n - 1 \in 0..N
      BY <1>1
    <3> QED BY <1>7, <3>1
  <2> QED BY <2>1, <2>2
<1>9. \A n \in 0..N : Sums(ns)[n] \in Nat
  <2> DEFINE T == {n \in 0..N : Sums(ns)[n] \in Nat}
  <2> HIDE DEF N
  <2>1. 0 \in T
    BY <1>1, <1>8
  <2>2. ASSUME NEW n \in 1..N, n - 1 \in T
        PROVE  n \in T
    <3>1. n \in 0..N /\ ns[n] \in Nat /\ Sums(ns)[n - 1] \in Nat
      BY <1>1, <2>2
    <3>2. Sums(ns)[n] = Sums(ns)[n - 1] + ns[n]
      BY <1>8
    <3> QED BY <3>1, <3>2
  <2> HIDE DEF T
  <2>3. \A n \in 0..N : n \in T
    BY <1>1, <2>1, <2>2, InductionUpTo
  <2> QED BY <2>3 DEF T
<1> QED BY <1>1, <1>8, <1>9

(* Sequences that begin alike have the same sums there.                    *)
LEMMA SumsAlike ==
  ASSUME NEW s \in Seq(Nat), NEW t \in Seq(Nat), NEW n \in Nat, n <= Len(s), n <= Len(t),
         \A i \in 1..n : s[i] = t[i]
  PROVE  Sums(s)[n] = Sums(t)[n]
<1> DEFINE T == {i \in 0..n : Sums(s)[i] = Sums(t)[i]}
<1>1. 0 \in T
  BY SumsDefined
<1>2. ASSUME NEW i \in 1..n, i - 1 \in T
      PROVE  i \in T
  <2>1. i \in 1..Len(s) /\ i \in 1..Len(t)
    BY LenProperties
  <2>2. Sums(s)[i] = Sums(s)[i - 1] + s[i] /\ Sums(t)[i] = Sums(t)[i - 1] + t[i]
    BY <2>1, SumsDefined
  <2> QED BY <1>2, <2>2
<1>3. \A i \in 0..n : i \in T
  <2> HIDE DEF T
  <2> QED BY <1>1, <1>2, InductionUpTo
<1> QED BY <1>3

(* What numbers add up to.                                                 *)
LEMMA TotalEmpty == Total(<<>>) = 0
<1>1. <<>> \in Seq(Nat) /\ Len(<<>>) = 0
  BY EmptySeq
<1> QED BY <1>1, SumsDefined DEF Total

LEMMA TotalTyped ==
  ASSUME NEW ns \in Seq(Nat)
  PROVE  Total(ns) \in Nat
<1>1. Len(ns) \in 0..Len(ns)
  BY LenProperties
<1> QED BY <1>1, SumsDefined DEF Total

(* The last number may be taken off.                                       *)
LEMMA TotalLast ==
  ASSUME NEW s \in Seq(Nat), NEW t \in Seq(Nat), Len(t) = Len(s) + 1,
         \A i \in 1..Len(s) : t[i] = s[i]
  PROVE  Total(t) = Total(s) + t[Len(t)]
<1>1. Len(s) \in Nat /\ Len(t) \in 1..Len(t) /\ Len(t) - 1 = Len(s)
  BY LenProperties
<1>2. Sums(t)[Len(t)] = Sums(t)[Len(t) - 1] + t[Len(t)]
  BY <1>1, SumsDefined
<1>3. Sums(t)[Len(s)] = Sums(s)[Len(s)]
  <2> DEFINE n == Len(s)
  <2>1. n \in Nat /\ n <= Len(t) /\ n <= Len(s) /\ \A i \in 1..n : t[i] = s[i]
    BY <1>1
  <2> HIDE DEF n
  <2>2. Sums(t)[n] = Sums(s)[n]
    BY <2>1, SumsAlike
  <2> QED BY <2>2 DEF n
<1> QED BY <1>1, <1>2, <1>3 DEF Total

(* Or changed.                                                             *)
LEMMA TotalChanged ==
  ASSUME NEW s \in Seq(Nat), NEW t \in Seq(Nat), Len(t) = Len(s), Len(s) > 0,
         \A i \in 1..(Len(s) - 1) : t[i] = s[i]
  PROVE  Total(t) + s[Len(s)] = Total(s) + t[Len(s)]
<1>1. Len(s) \in Nat /\ Len(s) \in 1..Len(s) /\ Len(s) - 1 \in Nat
  BY LenProperties
<1>2. /\ Sums(s)[Len(s)] = Sums(s)[Len(s) - 1] + s[Len(s)]
      /\ Sums(t)[Len(s)] = Sums(t)[Len(s) - 1] + t[Len(s)]
      /\ s[Len(s)] \in Nat /\ t[Len(s)] \in Nat
  BY <1>1, SumsDefined
<1>3. Sums(t)[Len(s) - 1] = Sums(s)[Len(s) - 1]
  <2>1. Len(s) - 1 <= Len(s) /\ Len(s) - 1 <= Len(t)
    BY <1>1
  <2> QED BY <1>1, <2>1, SumsAlike
<1>4. Sums(s)[Len(s) - 1] \in Nat
  <2>1. Len(s) - 1 \in 0..Len(s)
    BY <1>1
  <2> QED BY <2>1, SumsDefined
<1> QED BY <1>1, <1>2, <1>3, <1>4 DEF Total

(* A first number is added.                                                *)
LEMMA TotalFirst ==
  ASSUME NEW s \in Seq(Nat), NEW t \in Seq(Nat), Len(t) = Len(s) + 1,
         \A i \in 1..Len(s) : t[i + 1] = s[i]
  PROVE  Total(t) = t[1] + Total(s)
<1> DEFINE N == Len(s)
           T == {i \in 0..N : Sums(t)[i + 1] = t[1] + Sums(s)[i]}
<1>1. /\ N \in Nat /\ Len(t) = N + 1
      /\ Sums(s)[0] = 0 /\ \A i \in 1..N : s[i] \in Nat /\ Sums(s)[i] = Sums(s)[i - 1] + s[i]
      /\ \A i \in 0..N : Sums(s)[i] \in Nat
  BY SumsDefined
<1>2. /\ Sums(t)[0] = 0
      /\ \A i \in 1..(N + 1) : t[i] \in Nat /\ Sums(t)[i] = Sums(t)[i - 1] + t[i]
  BY <1>1, SumsDefined
<1>3. \A i \in 1..N : t[i + 1] = s[i]
  OBVIOUS
<1> HIDE DEF N
<1>4. 0 \in T
  <2>1. 1 \in 1..(N + 1)
    BY <1>1
  <2>2. t[1] \in Nat /\ Sums(t)[1] = Sums(t)[0] + t[1]
    BY <1>2, <2>1
  <2> QED BY <1>1, <1>2, <2>2
<1>5. ASSUME NEW i \in 1..N, i - 1 \in T
      PROVE  i \in T
  <2>1. i + 1 \in 1..(N + 1) /\ 1 \in 1..(N + 1) /\ (i - 1) + 1 = i /\ (i + 1) - 1 = i /\ i - 1 \in 0..N
    BY <1>1
  <2>2. Sums(t)[i + 1] = Sums(t)[i] + t[i + 1] /\ t[1] \in Nat
    BY <1>2, <2>1
  <2>3. Sums(t)[i] = t[1] + Sums(s)[i - 1]
    BY <1>5, <2>1
  <2>4. Sums(s)[i] = Sums(s)[i - 1] + s[i] /\ s[i] \in Nat /\ Sums(s)[i - 1] \in Nat
    BY <1>1, <2>1
  <2> QED BY <1>3, <2>1, <2>2, <2>3, <2>4
<1>6. \A i \in 0..N : i \in T
  <2> HIDE DEF T
  <2> QED BY <1>1, <1>4, <1>5, InductionUpTo
<1>7. Sums(t)[N + 1] = t[1] + Sums(s)[N]
  BY <1>1, <1>6
<1> QED BY <1>1, <1>7 DEF Total, N

-----------------------------------------------------------------------------
(* The costs of entries and of messages.                                   *)
EntryCosts(entries)   == [i \in 1..Len(entries) |-> EntryCost[entries[i].kind]]
PartCosts(message)    == [i \in 1..Len(message.of) |-> MessageCost[message.of[i].kind]]
MessageCosts(msgs)    == [i \in 1..Len(msgs) |-> MessageTokens(msgs[i])]

(* The costs are numbers.                                                  *)
LEMMA EntryCostsTyped ==
  ASSUME NEW es \in Seq(JournalEntry)
  PROVE  EntryCosts(es) \in Seq(Nat) /\ Len(EntryCosts(es)) = Len(es) /\ EntryTokens(es) \in Nat
<1>1. Len(es) \in Nat /\ \A i \in 1..Len(es) : EntryCost[es[i].kind] \in Nat
  <2>1. \A i \in 1..Len(es) : es[i] \in JournalEntry
    BY ElementOfSeq
  <2> QED BY <2>1, LenProperties, ConversationAssumption DEF JournalEntry
<1>2. EntryCosts(es) \in Seq(Nat) /\ Len(EntryCosts(es)) = Len(es)
  BY <1>1 DEF EntryCosts
<1> QED BY <1>2, TotalTyped DEF EntryTokens, EntryCosts

LEMMA PartCostsTyped ==
  ASSUME NEW m \in Message
  PROVE  PartCosts(m) \in Seq(Nat) /\ Len(PartCosts(m)) = Len(m.of) /\ MessageTokens(m) \in Nat
<1>1. m.of \in Seq(JournalEntry)
  BY DEF Message
<1>2. Len(m.of) \in Nat /\ \A i \in 1..Len(m.of) : MessageCost[m.of[i].kind] \in Nat
  <2>1. \A i \in 1..Len(m.of) : m.of[i] \in JournalEntry
    BY <1>1, ElementOfSeq
  <2> QED BY <1>1, <2>1, LenProperties, ConversationAssumption DEF JournalEntry
<1>3. PartCosts(m) \in Seq(Nat) /\ Len(PartCosts(m)) = Len(m.of)
  BY <1>2 DEF PartCosts
<1>4. Total(PartCosts(m)) \in Nat
  BY <1>3, TotalTyped
<1> QED BY <1>3, <1>4, ConversationAssumption DEF MessageTokens, PartCosts

LEMMA MessageCostsTyped ==
  ASSUME NEW msgs \in Seq(Message)
  PROVE  /\ MessageCosts(msgs) \in Seq(Nat) /\ Len(MessageCosts(msgs)) = Len(msgs)
         /\ ConversationTokens(msgs) = Total(MessageCosts(msgs)) /\ ConversationTokens(msgs) \in Nat
<1>1. Len(msgs) \in Nat /\ \A i \in 1..Len(msgs) : MessageTokens(msgs[i]) \in Nat
  BY LenProperties, ElementOfSeq, PartCostsTyped
<1>2. MessageCosts(msgs) \in Seq(Nat) /\ Len(MessageCosts(msgs)) = Len(msgs)
  BY <1>1 DEF MessageCosts
<1> QED BY <1>2, TotalTyped DEF ConversationTokens, MessageCosts

(* A message of one entry costs no more than the entry.                    *)
LEMMA OneEntryTokens ==
  ASSUME NEW m \in Message, NEW e \in JournalEntry, m.of = <<e>>
  PROVE  MessageTokens(m) <= EntryCost[e.kind]
<1>1. Len(m.of) = 1 /\ m.of[1] = e /\ m # Continuation
  <2> DEFINE of == m.of
  <2>1. Len(of) = 1 /\ of[1] = e
    <3>1. Len(<<e>>) = 1 /\ <<e>>[1] = e
      OBVIOUS
    <3> QED BY <3>1
  <2>2. Len(Continuation.of) = 0
    BY ContinuationTyped
  <2>3. m = Continuation => Len(of) = 0
    BY <2>2
  <2> HIDE DEF of
  <2>4. m # Continuation
    BY <2>1, <2>3
  <2> QED BY <2>1, <2>4 DEF of
<1>2. PartCosts(m) \in Seq(Nat) /\ Len(PartCosts(m)) = 1 /\ PartCosts(m)[1] = MessageCost[e.kind]
  <2>1. PartCosts(m) \in Seq(Nat) /\ Len(PartCosts(m)) = 1
    BY <1>1, PartCostsTyped
  <2>2. 1 \in 1..Len(m.of)
    BY <1>1
  <2> QED BY <1>1, <2>1, <2>2 DEF PartCosts
<1>3. Total(PartCosts(m)) = Total(<<>>) + PartCosts(m)[1]
  <2> DEFINE t == PartCosts(m)
             s == <<>>
  <2>1. s \in Seq(Nat) /\ Len(s) = 0 /\ \A i \in 1..Len(s) : t[i] = s[i]
    BY EmptySeq
  <2>2. t \in Seq(Nat) /\ Len(t) = 1
    BY <1>2
  <2> HIDE DEF s, t
  <2>3. Len(t) = Len(s) + 1
    BY <2>1, <2>2
  <2>4. Total(t) = Total(s) + t[Len(t)]
    BY <2>1, <2>2, <2>3, TotalLast
  <2> QED BY <2>2, <2>4 DEF s, t
<1>4. MessageCost[e.kind] \in Nat /\ MessageCost[e.kind] <= EntryCost[e.kind]
  BY ConversationAssumption DEF JournalEntry
<1> QED BY <1>1, <1>2, <1>3, <1>4, TotalEmpty DEF MessageTokens, PartCosts

(* An entry merged into a message adds no more than it costs.              *)
LEMMA MergedTokens ==
  ASSUME NEW m \in Message, Len(m.of) > 0, NEW e \in JournalEntry, NEW merged \in Message,
         merged.of = Append(m.of, e)
  PROVE  MessageTokens(merged) <= MessageTokens(m) + EntryCost[e.kind]
<1>1. m.of \in Seq(JournalEntry) /\ Len(m.of) \in Nat
  BY LenProperties DEF Message
<1>2. /\ Len(merged.of) = Len(m.of) + 1 /\ merged.of[Len(m.of) + 1] = e
      /\ \A i \in 1..Len(m.of) : merged.of[i] = m.of[i]
  BY <1>1, AppendProperties
<1>3. m # Continuation /\ merged # Continuation
  BY <1>1, <1>2, ContinuationTyped
<1> DEFINE s == PartCosts(m)
           t == PartCosts(merged)
<1>4. /\ s \in Seq(Nat) /\ t \in Seq(Nat) /\ Len(s) = Len(m.of) /\ Len(t) = Len(s) + 1
      /\ t[Len(t)] = MessageCost[e.kind] /\ \A i \in 1..Len(s) : t[i] = s[i]
  <2>1. /\ s \in Seq(Nat) /\ t \in Seq(Nat) /\ Len(s) = Len(m.of) /\ Len(t) = Len(s) + 1
    BY <1>2, PartCostsTyped
  <2>2. t[Len(t)] = MessageCost[e.kind]
    BY <1>1, <1>2, <2>1 DEF PartCosts
  <2>3. ASSUME NEW i \in 1..Len(s) PROVE t[i] = s[i]
    <3>1. i \in 1..Len(m.of) /\ i \in 1..Len(merged.of)
      BY <1>1, <1>2, <2>1
    <3> QED BY <1>2, <3>1 DEF PartCosts
  <2> HIDE DEF s, t
  <2> QED BY <2>1, <2>2, <2>3
<1>5. Total(t) = Total(s) + t[Len(t)]
  <2> HIDE DEF s, t
  <2> QED BY <1>4, TotalLast
<1>6. MessageCost[e.kind] \in Nat /\ EntryCost[e.kind] \in Nat /\ MessageCost[e.kind] <= EntryCost[e.kind]
  BY ConversationAssumption DEF JournalEntry
<1>7. MessageTokens(m) = Total(s) /\ MessageTokens(merged) = Total(t)
  BY <1>3 DEF MessageTokens, PartCosts
<1>8. Total(s) \in Nat
  BY <1>4, TotalTyped
<1> QED BY <1>4, <1>5, <1>6, <1>7, <1>8

(* A message more.                                                         *)
LEMMA AppendTokens ==
  ASSUME NEW msgs \in Seq(Message), NEW m \in Message
  PROVE  ConversationTokens(Append(msgs, m)) = ConversationTokens(msgs) + MessageTokens(m)
<1> DEFINE s == MessageCosts(msgs)
           t == MessageCosts(Append(msgs, m))
<1>1. /\ Append(msgs, m) \in Seq(Message) /\ Len(Append(msgs, m)) = Len(msgs) + 1
      /\ Append(msgs, m)[Len(msgs) + 1] = m /\ Len(msgs) \in Nat
      /\ \A i \in 1..Len(msgs) : Append(msgs, m)[i] = msgs[i]
  BY AppendProperties, LenProperties
<1>2. /\ s \in Seq(Nat) /\ t \in Seq(Nat) /\ Len(s) = Len(msgs) /\ Len(t) = Len(s) + 1
      /\ ConversationTokens(msgs) = Total(s) /\ ConversationTokens(Append(msgs, m)) = Total(t)
  BY <1>1, MessageCostsTyped
<1>3. t[Len(t)] = MessageTokens(m)
  BY <1>1, <1>2 DEF MessageCosts
<1>4. ASSUME NEW i \in 1..Len(s) PROVE t[i] = s[i]
  <2>1. i \in 1..Len(msgs) /\ i \in 1..Len(Append(msgs, m))
    BY <1>1, <1>2
  <2> QED BY <1>1, <2>1 DEF MessageCosts
<1> HIDE DEF s, t
<1>5. Total(t) = Total(s) + t[Len(t)]
  BY <1>2, <1>4, TotalLast
<1> QED BY <1>2, <1>3, <1>5

(* A round adds no more than the entry costs.                              *)
LEMMA RoundTokens ==
  ASSUME NEW msgs \in Seq(Message), Shape(msgs), NEW e \in JournalEntry
  PROVE  ConversationTokens(AddEntry(msgs, e)) <= ConversationTokens(msgs) + EntryCost[e.kind]
<1>1. EntryCost[e.kind] \in Nat /\ ConversationTokens(msgs) \in Nat
  BY ConversationAssumption, MessageCostsTyped DEF JournalEntry
<1>2. ASSUME NEW m \in Message, m.of = <<e>>
      PROVE  ConversationTokens(Append(msgs, m)) <= ConversationTokens(msgs) + EntryCost[e.kind]
  <2>1. MessageTokens(m) \in Nat /\ MessageTokens(m) <= EntryCost[e.kind]
    BY <1>2, OneEntryTokens, PartCostsTyped
  <2> QED BY <1>1, <2>1, AppendTokens
<1>3. CASE e.kind = "Response"
  <2>1. Assistant(e) \in Message /\ Assistant(e).of = <<e>>
    BY <1>3, OfAssistant DEF Assistant
  <2> QED BY <1>1, <1>2, <1>3, <2>1 DEF AddEntry
<1>4. CASE e.kind # "Response" /\ ~ (Len(msgs) > 0 /\ msgs[Len(msgs)].role = "user")
  <2>1. User(<<e>>) \in Message /\ User(<<e>>).of = <<e>>
    BY <1>4, OfUser DEF User
  <2> QED BY <1>2, <1>4, <2>1 DEF AddEntry, MergeOrPushUser
<1>5. CASE e.kind # "Response" /\ Len(msgs) > 0 /\ msgs[Len(msgs)].role = "user"
  <2> DEFINE n      == Len(msgs)
             merged == [msgs[n] EXCEPT !.of = Append(@, e)]
             new    == [msgs EXCEPT ![n] = merged]
             s      == MessageCosts(msgs)
             t      == MessageCosts(new)
  <2>1. n \in Nat /\ n \in 1..n /\ msgs[n] \in Message
    <3>1. n \in Nat /\ n \in 1..n
      BY <1>5, LenProperties
    <3> QED BY <3>1, ElementOfSeq
  <2>2. NoResponses(msgs[n]) /\ Len(msgs[n].of) > 0
    BY <1>5, <2>1 DEF Shape, NoResponses
  <2>3. merged \in Message /\ merged.of = Append(msgs[n].of, e)
    <3>1. merged \in Message
      BY <1>5, <2>1, <2>2, OfMerged
    <3> QED BY <2>1, <3>1 DEF Message
  <2>4. AddEntry(msgs, e) = new
    BY <1>5 DEF AddEntry, MergeOrPushUser
  <2> HIDE DEF merged
  <2>5. MessageTokens(merged) <= MessageTokens(msgs[n]) + EntryCost[e.kind]
    BY <2>1, <2>2, <2>3, MergedTokens
  <2>6. new \in Seq(Message) /\ Len(new) = n /\ new[n] = merged /\ \A i \in 1..(n - 1) : new[i] = msgs[i]
    BY <2>1, <2>3, ExceptSeq
  <2> HIDE DEF new
  <2>7. /\ s \in Seq(Nat) /\ t \in Seq(Nat) /\ Len(s) = n /\ Len(t) = n
        /\ ConversationTokens(msgs) = Total(s) /\ ConversationTokens(new) = Total(t)
    BY <2>6, MessageCostsTyped
  <2>8. s[n] = MessageTokens(msgs[n]) /\ t[n] = MessageTokens(merged)
    BY <2>1, <2>6 DEF MessageCosts
  <2>9. ASSUME NEW i \in 1..(n - 1) PROVE t[i] = s[i]
    <3>1. i \in 1..Len(msgs) /\ i \in 1..Len(new)
      BY <2>1, <2>6
    <3> QED BY <2>6, <3>1 DEF MessageCosts
  <2> HIDE DEF s, t, n
  <2>10. Total(t) + s[n] = Total(s) + t[n]
    BY <2>1, <2>7, <2>9, TotalChanged
  <2>11. Total(t) \in Nat /\ s[n] \in Nat /\ t[n] \in Nat
    BY <2>1, <2>3, <2>7, <2>8, PartCostsTyped, TotalTyped
  <2> QED BY <1>1, <2>4, <2>5, <2>7, <2>8, <2>10, <2>11
<1> QED BY <1>3, <1>4, <1>5

(* A conversation costs no more than its entries.                          *)
LEMMA RoundsTokens ==
  ASSUME NEW es \in Seq(JournalEntry), Orderly(es)
  PROVE  ConversationTokens(Rounds(es)[Len(es)]) <= EntryTokens(es)
<1> DEFINE N == Len(es)
           R == Rounds(es)
           S == Sums(EntryCosts(es))
           T == {n \in 0..N : ConversationTokens(R[n]) <= S[n]}
<1>1. /\ N \in Nat /\ R[0] = <<>>
      /\ \A n \in 1..N : /\ n - 1 \in 0..N /\ es[n] \in JournalEntry
                         /\ R[n] = AddEntry(R[n - 1], es[n])
      /\ \A n \in 0..N : R[n] \in Seq(Message) /\ Shape(R[n])
  BY RoundsDefined, ShapeRounds
<1>2. /\ S[0] = 0 /\ \A n \in 0..N : S[n] \in Nat
      /\ \A n \in 1..N : S[n] = S[n - 1] + EntryCosts(es)[n]
  BY EntryCostsTyped, SumsDefined
<1>3. \A n \in 1..N : EntryCosts(es)[n] = EntryCost[es[n].kind] /\ EntryCost[es[n].kind] \in Nat
  BY <1>1, ConversationAssumption DEF EntryCosts, JournalEntry
<1>4. ConversationTokens(<<>>) = 0
  <2>1. MessageCosts(<<>>) = <<>> /\ <<>> \in Seq(Message)
    BY EmptySeq DEF MessageCosts
  <2> QED BY <2>1, MessageCostsTyped, TotalEmpty
<1> HIDE DEF N, R, S
<1>5. 0 \in T
  BY <1>1, <1>2, <1>4
<1>6. ASSUME NEW n \in 1..N, n - 1 \in T
      PROVE  n \in T
  <2>1. n \in 0..N /\ n - 1 \in 0..N
    BY <1>1
  <2>2. ConversationTokens(R[n]) <= ConversationTokens(R[n - 1]) + EntryCost[es[n].kind]
    BY <1>1, <2>1, RoundTokens
  <2>3. ConversationTokens(R[n - 1]) <= S[n - 1] /\ S[n] = S[n - 1] + EntryCost[es[n].kind]
    BY <1>2, <1>3, <1>6
  <2>4. ConversationTokens(R[n]) \in Nat /\ ConversationTokens(R[n - 1]) \in Nat
    BY <1>1, <2>1, MessageCostsTyped
  <2> QED BY <1>2, <1>3, <2>1, <2>2, <2>3, <2>4
<1>7. \A n \in 0..N : n \in T
  <2> HIDE DEF T
  <2> QED BY <1>1, <1>5, <1>6, InductionUpTo
<1>8. ConversationTokens(R[N]) <= S[N]
  BY <1>1, <1>7
<1>9. S[N] = EntryTokens(es)
  BY EntryCostsTyped DEF S, N, EntryTokens, EntryCosts, Total
<1> QED BY <1>8, <1>9 DEF R, N

(* But for the "[session continues]".                                      *)
LEMMA MessagesTokens ==
  ASSUME NEW es \in Seq(JournalEntry), Orderly(es)
  PROVE  ConversationTokens(Messages(es)) <= EntryTokens(es) + MarkCost
<1> DEFINE raw == Rounds(es)[Len(es)]
<1>1. raw \in Seq(Message)
  <2>1. Len(es) \in 0..Len(es)
    BY LenProperties
  <2> QED BY <2>1, RoundsDefined
<1>2. ConversationTokens(raw) <= EntryTokens(es)
  BY RoundsTokens
<1>3. MarkCost \in Nat /\ EntryTokens(es) \in Nat /\ ConversationTokens(raw) \in Nat
  BY <1>1, ConversationAssumption, EntryCostsTyped, MessageCostsTyped
<1>4. CASE Messages(es) = raw
  BY <1>2, <1>3, <1>4
<1>5. CASE Messages(es) = <<Continuation>> \o raw
  <2> DEFINE new == <<Continuation>> \o raw
             s   == MessageCosts(raw)
             t   == MessageCosts(new)
  <2> HIDE DEF raw
  <2>1. /\ new \in Seq(Message) /\ Len(new) = Len(raw) + 1 /\ Len(raw) \in Nat
        /\ \A i \in 1..(Len(raw) + 1) : new[i] = IF i <= 1 THEN Continuation ELSE raw[i - 1]
    BY <1>1, ContinuationTyped, ConcatProperties, LenProperties
  <2> HIDE DEF new
  <2>2. /\ s \in Seq(Nat) /\ t \in Seq(Nat) /\ Len(s) = Len(raw) /\ Len(t) = Len(s) + 1
        /\ ConversationTokens(raw) = Total(s) /\ ConversationTokens(new) = Total(t)
    BY <1>1, <2>1, MessageCostsTyped
  <2>3. t[1] = MarkCost
    <3>1. 1 \in 1..Len(new) /\ new[1] = Continuation
      BY <2>1
    <3> QED BY <3>1 DEF MessageCosts, MessageTokens
  <2>4. ASSUME NEW i \in 1..Len(s) PROVE t[i + 1] = s[i]
    <3>1. i \in 1..Len(raw) /\ i + 1 \in 1..Len(new) /\ i + 1 \in 1..(Len(raw) + 1) /\ ~ (i + 1 <= 1) /\ (i + 1) - 1 = i
      BY <2>1, <2>2
    <3>2. new[i + 1] = raw[i]
      BY <2>1, <3>1
    <3> QED BY <3>1, <3>2 DEF MessageCosts
  <2> HIDE DEF s, t
  <2>5. Total(t) = t[1] + Total(s)
    BY <2>2, <2>4, TotalFirst
  <2>6. ConversationTokens(Messages(es)) = ConversationTokens(new)
    BY <1>5 DEF new
  <2> QED BY <1>2, <1>3, <2>2, <2>3, <2>5, <2>6
<1> QED BY <1>4, <1>5 DEF Messages

-----------------------------------------------------------------------------
(* Entries, and the entries from one of them on.                           *)

(* Each entry is typed.                                                    *)
LEMMA EntryTyped ==
  ASSUME NEW kind \in EntryKind, NEW t \in Nat, NEW text \in BOOLEAN,
         NEW uses \in SUBSET ToolUse
  PROVE  /\ Entry(kind, t, text, uses) \in JournalEntry
         /\ Entry(kind, t, text, uses).kind = kind
         /\ Entry(kind, t, text, uses).turn = t
         /\ Entry(kind, t, text, uses).uses = uses
  BY DEF Entry, JournalEntry

(* The entries from entry i on.                                            *)
LEMMA FromEntries ==
  ASSUME NEW entries \in Seq(JournalEntry), Orderly(entries), NEW i \in 1..Len(entries)
  PROVE  /\ From(entries, i) \in Seq(JournalEntry) /\ Orderly(From(entries, i))
         /\ From(entries, i) # <<>> /\ Len(From(entries, i)) \in Nat \ {0}
         /\ From(entries, i)[Len(From(entries, i))] = entries[Len(entries)]
<1> DEFINE sub == From(entries, i)
<1>1. Len(entries) \in Nat
  BY LenProperties
<1>2. /\ sub \in Seq(JournalEntry) /\ Len(sub) = Len(entries) - i + 1
      /\ \A k \in 1..(Len(entries) - i + 1) : sub[k] = entries[i + k - 1]
  BY <1>1, SubSeqProperties DEF From
<1> HIDE DEF sub
<1>3. Len(sub) \in Nat \ {0} /\ sub # <<>>
  BY <1>1, <1>2, EmptySeq
<1>4. sub[Len(sub)] = entries[Len(entries)]
  <2>1. Len(sub) \in 1..(Len(entries) - i + 1) /\ i + Len(sub) - 1 = Len(entries)
    BY <1>1, <1>2
  <2> QED BY <1>2, <2>1
<1>5. ASSUME NEW k \in 2..Len(sub) PROVE MayFollow(sub[k], sub[k - 1])
  <2>1. /\ k \in 1..(Len(entries) - i + 1) /\ k - 1 \in 1..(Len(entries) - i + 1)
        /\ i + k - 1 \in 2..Len(entries) /\ i + (k - 1) - 1 = (i + k - 1) - 1
    BY <1>1, <1>2
  <2> QED BY <1>2, <2>1 DEF Orderly
<1> QED BY <1>2, <1>3, <1>4, <1>5 DEF Orderly, sub

(* An entry more is one more from there on.                                *)
LEMMA FromAppend ==
  ASSUME NEW entries \in Seq(JournalEntry), NEW e \in JournalEntry, NEW i \in 1..Len(entries)
  PROVE  i \in 1..Len(Append(entries, e)) /\ From(Append(entries, e), i) = Append(From(entries, i), e)
<1>1. Len(entries) \in Nat /\ Len(Append(entries, e)) = Len(entries) + 1
  BY LenProperties, AppendProperties
<1> DEFINE a == From(Append(entries, e), i)
           b == Append(From(entries, i), e)
<1>2. /\ From(entries, i) \in Seq(JournalEntry) /\ Len(From(entries, i)) = Len(entries) - i + 1
      /\ \A k \in 1..(Len(entries) - i + 1) : From(entries, i)[k] = entries[i + k - 1]
  BY <1>1, SubSeqProperties DEF From
<1>3. /\ b \in Seq(JournalEntry) /\ Len(b) = Len(entries) - i + 2
      /\ b[Len(entries) - i + 2] = e
      /\ \A k \in 1..(Len(entries) - i + 1) : b[k] = From(entries, i)[k]
  <2> DEFINE es == From(entries, i)
  <2>1. /\ Len(es) + 1 = Len(entries) - i + 2 /\ Len(es) = Len(entries) - i + 1
        /\ es \in Seq(JournalEntry)
    BY <1>1, <1>2
  <2> HIDE DEF es
  <2>2. /\ Append(es, e) \in Seq(JournalEntry) /\ Len(Append(es, e)) = Len(es) + 1
        /\ Append(es, e)[Len(es) + 1] = e
        /\ \A k \in 1..Len(es) : Append(es, e)[k] = es[k]
    BY <2>1, AppendProperties
  <2> QED BY <2>1, <2>2 DEF es
<1>4. /\ a \in Seq(JournalEntry) /\ Len(a) = Len(entries) - i + 2
      /\ \A k \in 1..(Len(entries) - i + 2) : a[k] = Append(entries, e)[i + k - 1]
  <2>1. Append(entries, e) \in Seq(JournalEntry) /\ (Len(entries) + 1) - i + 1 = Len(entries) - i + 2
    BY <1>1, AppendProperties
  <2>2. i \in 1..(Len(Append(entries, e)) + 1) /\ Len(Append(entries, e)) \in (i - 1)..Len(Append(entries, e))
    BY <1>1
  <2> QED BY <1>1, <2>1, <2>2, SubSeqProperties DEF From
<1> HIDE DEF a, b
<1>5. ASSUME NEW k \in 1..(Len(entries) - i + 2) PROVE a[k] = b[k]
  <2>1. CASE k = Len(entries) - i + 2
    <3>1. i + k - 1 = Len(entries) + 1
      BY <1>1, <2>1
    <3> QED BY <1>3, <1>4, <2>1, <3>1, AppendProperties
  <2>2. CASE k # Len(entries) - i + 2
    <3>1. k \in 1..(Len(entries) - i + 1) /\ i + k - 1 \in 1..Len(entries)
      BY <1>1, <2>2
    <3> QED BY <1>2, <1>3, <1>4, <3>1, AppendProperties
  <2> QED BY <2>1, <2>2
<1>6. a = b
  BY <1>3, <1>4, <1>5, SeqEqual
<1>7. i \in 1..(Len(entries) + 1)
  BY <1>1
<1> QED BY <1>1, <1>6, <1>7 DEF a, b

-----------------------------------------------------------------------------
(***************************************************************************)
(* The invariant.                                                          *)
(***************************************************************************)

(* What the last entry is while commands are run and while a stream runs.  *)
LastIsResponse ==
  /\ Len(journal) > 0 /\ journal[Len(journal)].kind = "Response"
  /\ journal[Len(journal)].turn = turn /\ journal[Len(journal)].uses # {}

LastIsNone == Len(journal) > 0 /\ journal[Len(journal)].kind # "Response"

LastEntry ==
  (phase = "Acting" => LastIsResponse) /\ (phase = "Streaming" => LastIsNone)

(* What a journal satisfies in which results follow their responses.       *)
Followed(entries) ==
  \A i \in 1..Len(entries) :
    IsResult(entries[i]) => i > 1 /\ Answers(entries[i], entries[i - 1])

(* The messages of the entries from some entry on.                         *)
IsFrom(msgs, entries) == \E i \in 1..Len(entries) : msgs = Messages(From(entries, i))

Inv ==
  /\ TypeOK
  /\ LastEntry
  /\ Followed(journal) /\ Orderly(journal)
  /\ phase # "Idle" => IsFrom(conv.msgs, journal)
  /\ BudgetRespected

-----------------------------------------------------------------------------
(* Entries.                                                                *)

(* An entry may be appended that is no second response, and no result      *)
(* unless it answers the last entry.                                       *)
LEMMA AppendEntry ==
  ASSUME NEW entries \in Seq(JournalEntry), NEW e \in JournalEntry,
         Followed(entries), Orderly(entries),
         IsResult(e) => Len(entries) > 0 /\ Answers(e, entries[Len(entries)]),
         e.kind = "Response" /\ Len(entries) > 0 => entries[Len(entries)].kind # "Response"
  PROVE  /\ Append(entries, e) \in Seq(JournalEntry)
         /\ Len(Append(entries, e)) = Len(entries) + 1 /\ Len(entries) \in Nat
         /\ Append(entries, e)[Len(entries) + 1] = e
         /\ Followed(Append(entries, e)) /\ Orderly(Append(entries, e))
<1> DEFINE app == Append(entries, e)
<1>1. /\ app \in Seq(JournalEntry) /\ Len(app) = Len(entries) + 1
      /\ app[Len(entries) + 1] = e
      /\ \A i \in 1..Len(entries) : app[i] = entries[i]
  BY AppendProperties
<1>2. Len(entries) \in Nat
  BY LenProperties
<1> HIDE DEF app
<1>3. ASSUME NEW i \in 1..Len(app), IsResult(app[i])
      PROVE  i > 1 /\ Answers(app[i], app[i - 1])
  <2>1. CASE i = Len(entries) + 1
    <3>1. Len(entries) > 0 /\ Answers(e, entries[Len(entries)])
      BY <1>1, <1>3, <2>1
    <3>2. i > 1 /\ i - 1 = Len(entries) /\ Len(entries) \in 1..Len(entries)
      BY <1>2, <2>1, <3>1
    <3> QED BY <1>1, <2>1, <3>1, <3>2
  <2>2. CASE i # Len(entries) + 1
    <3>1. i \in 1..Len(entries) /\ app[i] = entries[i]
      BY <1>1, <1>2, <2>2
    <3>2. i > 1 /\ Answers(entries[i], entries[i - 1])
      BY <1>3, <3>1 DEF Followed
    <3>3. i - 1 \in 1..Len(entries)
      BY <1>2, <3>1, <3>2
    <3> QED BY <1>1, <3>1, <3>2, <3>3
  <2> QED BY <2>1, <2>2
<1>4. ASSUME NEW i \in 2..Len(app)
      PROVE  MayFollow(app[i], app[i - 1])
  <2>1. CASE i = Len(entries) + 1
    <3>1. i - 1 = Len(entries) /\ i - 1 \in 1..Len(entries) /\ Len(entries) > 0
      BY <1>2, <2>1
    <3>2. app[i] = e /\ app[i - 1] = entries[Len(entries)]
      BY <1>1, <2>1, <3>1
    <3> QED BY <3>1, <3>2 DEF MayFollow, Answers
  <2>2. CASE i # Len(entries) + 1
    <3>1. i \in 2..Len(entries) /\ i \in 1..Len(entries) /\ i - 1 \in 1..Len(entries)
      BY <1>1, <1>2, <2>2
    <3> QED BY <1>1, <3>1 DEF Orderly
  <2> QED BY <2>1, <2>2
<1>5. Followed(app) /\ Orderly(app)
  BY <1>3, <1>4 DEF Followed, Orderly
<1> QED BY <1>1, <1>2, <1>5 DEF app

-----------------------------------------------------------------------------
(* The conversation in memory.                                             *)

(* A message that is pushed is one the journal would give.                 *)
LEMMA PushedIsFrom ==
  ASSUME NEW entries \in Seq(JournalEntry), Orderly(entries), NEW msgs, IsFrom(msgs, entries),
         NEW e \in JournalEntry, NEW m \in Message,
         \/ entries[Len(entries)].kind # "Response" /\ e.kind = "Response" /\ IsFull(e)
              /\ m = Assistant(e)
         \/ entries[Len(entries)].kind = "Response" /\ IsFull(entries[Len(entries)])
              /\ e.kind # "Response" /\ m = User(<<e>>)
  PROVE  /\ IsFrom(Append(msgs, m), Append(entries, e))
         /\ msgs \in Seq(Message)
<1>1. PICK i \in 1..Len(entries) : msgs = Messages(From(entries, i))
  BY DEF IsFrom
<1> DEFINE es  == From(entries, i)
           raw == Rounds(es)[Len(es)]
<1>2. es \in Seq(JournalEntry) /\ Orderly(es) /\ Len(es) \in Nat \ {0} /\ es[Len(es)] = entries[Len(entries)]
  BY FromEntries
<1>3. From(Append(entries, e), i) = Append(es, e) /\ i \in 1..Len(Append(entries, e))
  BY FromAppend
<1> HIDE DEF es
<1>4. raw \in Seq(Message) /\ EndsIn(raw, es[Len(es)])
  <2>1. Len(es) \in 0..Len(es) /\ Len(es) > 0
    BY <1>2
  <2> QED BY <1>2, <2>1, RoundsDefined, ShapeRounds
<1>5. raw # <<>> /\ AddEntry(raw, e) = Append(raw, m)
  <2>1. CASE e.kind = "Response"
    BY <1>2, <1>4, <2>1 DEF EndsIn, EndsInUser, AddEntry, IsFull
  <2>2. CASE e.kind # "Response"
    <3>1. raw # <<>> /\ raw[Len(raw)] = Assistant(entries[Len(entries)])
      BY <1>2, <1>4, <2>2 DEF EndsIn
    <3>2. raw[Len(raw)].role # "user"
      BY <3>1 DEF Assistant
    <3> QED BY <2>2, <3>1, <3>2 DEF AddEntry, MergeOrPushUser
  <2> QED BY <2>1, <2>2
<1>6. Messages(Append(es, e)) = Append(Messages(es), m)
  BY <1>2, <1>5, MessagesAppend
<1>7. msgs = Messages(es) /\ Messages(es) \in Seq(Message)
  BY <1>1, <1>2, MessagesInTurns DEF es
<1> QED BY <1>3, <1>6, <1>7 DEF IsFrom

(* A stream is started on messages of the journal, within the budget.      *)
LEMMA Started ==
  ASSUME NEW entries \in Seq(JournalEntry), Orderly(entries), Followed(entries),
         Len(entries) > 0, entries[Len(entries)].kind # "Response", turn' \in Nat,
         NEW kept \in [some : BOOLEAN, msgs : Seq(Message)],
         kept.some => IsFrom(kept.msgs, entries) /\ ConversationTokens(kept.msgs) <= Budget,
         StartStreaming(entries, kept)
  PROVE  Inv'
<1>1. journal' = entries
  BY DEF StartStreaming
<1>2. CASE phase' = "Idle" /\ conv' = kept
  <2>1. TypeOK'
    BY <1>1, <1>2 DEF TypeOK
  <2>2. LastEntry' /\ BudgetRespected'
    BY <1>2 DEF LastEntry, BudgetRespected
  <2> QED BY <1>1, <1>2, <2>1, <2>2 DEF Inv
<1>3. CASE phase' = "Streaming"
  <2>1. LastEntry'
    BY <1>1, <1>3 DEF LastEntry, LastIsNone
  <2>2. MarkCost \in Nat /\ Budget \in Nat
    BY ConversationAssumption
  <2>3. CASE kept.some /\ conv' = kept
    <3>1. TypeOK'
      BY <1>1, <1>3, <2>3 DEF TypeOK
    <3>2. ConversationTokens(kept.msgs) <= Budget + MarkCost
      BY <2>2, <2>3, MessageCostsTyped
    <3>3. BudgetRespected'
      BY <2>3, <3>2 DEF BudgetRespected, Request
    <3> QED BY <1>1, <1>3, <2>1, <2>3, <3>1, <3>3 DEF Inv
  <2>4. CASE conv' \in Rebuilt(entries)
    <3>1. PICK i \in 1..Len(entries) : WalkStopsAt(entries, i) /\ conv' = Kept(Messages(From(entries, i)))
      BY <2>4 DEF Rebuilt
    <3> DEFINE es == From(entries, i)
    <3>2. es \in Seq(JournalEntry) /\ Orderly(es)
      BY FromEntries
    <3>3. conv' \in [some : BOOLEAN, msgs : Seq(Message)] /\ conv'.some /\ conv'.msgs = Messages(es)
      BY <3>1, <3>2, MessagesInTurns DEF Kept
    <3>4. TypeOK'
      BY <1>1, <1>3, <3>3 DEF TypeOK
    <3>5. IsFrom(conv'.msgs, entries)
      BY <3>3 DEF IsFrom
    <3>6. \/ ConversationTokens(Messages(es)) <= Budget + MarkCost
          \/ i = Len(entries)
      <4>1. SUFFICES ASSUME i # Len(entries)
                     PROVE  ConversationTokens(Messages(es)) <= Budget + MarkCost
        OBVIOUS
      <4>2. i \in i..(Len(entries) - 1)
        BY <4>1, LenProperties
      <4>3. EntryTokens(es) <= Budget
        BY <3>1, <4>2 DEF WalkStopsAt
      <4>4. ConversationTokens(Messages(es)) <= EntryTokens(es) + MarkCost
        BY <3>2, MessagesTokens
      <4>5. EntryTokens(es) \in Nat /\ ConversationTokens(Messages(es)) \in Nat
        BY <3>2, EntryCostsTyped, MessagesInTurns, MessageCostsTyped
      <4> HIDE DEF es
      <4> QED BY <2>2, <4>3, <4>4, <4>5
    <3>7. BudgetRespected'
      BY <1>1, <3>3, <3>6 DEF BudgetRespected, Request
    <3> QED BY <1>1, <1>3, <2>1, <3>4, <3>5, <3>7 DEF Inv
  <2> QED BY <1>3, <2>3, <2>4 DEF StartStreaming
<1> QED BY <1>2, <1>3 DEF StartStreaming

(* A conversation that is to be rebuilt.                                   *)
LEMMA NoConversationTyped ==
  NoConversation \in [some : BOOLEAN, msgs : Seq(Message)] /\ NoConversation.some = FALSE
  BY EmptySeq DEF NoConversation

(* Between turns there is only the journal to look at.                     *)
LEMMA EndedTurn ==
  ASSUME phase' = "Idle", turn' \in Nat, conv' \in [some : BOOLEAN, msgs : Seq(Message)],
         journal' \in Seq(JournalEntry), Followed(journal'), Orderly(journal')
  PROVE  Inv'
  BY DEF Inv, TypeOK, LastEntry, BudgetRespected

(* While the commands of a response run, its calls are those of the last   *)
(* entry.                                                                  *)
LEMMA LastUsesOfLast ==
  ASSUME Inv, phase = "Acting"
  PROVE  LastUses = journal[Len(journal)].uses
<1>1. Len(journal) \in Nat /\ Len(journal) > 0 /\ journal[Len(journal)].kind = "Response"
  BY LenProperties DEF Inv, TypeOK, LastEntry, LastIsResponse
<1> DEFINE Last(i) == /\ journal[i].kind = "Response"
                      /\ \A j \in (i + 1)..Len(journal) : journal[j].kind # "Response"
<1>2. Len(journal) \in 1..Len(journal) /\ Last(Len(journal))
  BY <1>1
<1>3. ASSUME NEW i \in 1..Len(journal), Last(i) PROVE i = Len(journal)
  <2>1. i < Len(journal) => Len(journal) \in (i + 1)..Len(journal)
    BY <1>1
  <2> QED BY <1>1, <1>3, <2>1
<1>4. (CHOOSE i \in 1..Len(journal) : Last(i)) = Len(journal)
  BY <1>2, <1>3
<1> QED BY <1>4 DEF LastUses

(* The initial state, and every step.                                      *)
LEMMA InvInit == Init => Inv
<1> SUFFICES ASSUME Init PROVE Inv
  OBVIOUS
<1>1. TypeOK
  BY NoConversationTyped, EmptySeq DEF Init, TypeOK
<1>2. Followed(journal) /\ Orderly(journal)
  BY EmptySeq DEF Init, Followed, Orderly
<1> QED BY <1>1, <1>2 DEF Init, Inv, LastEntry, BudgetRespected

LEMMA InvNext == Inv /\ [Next]_vars => Inv'
<1> SUFFICES ASSUME Inv, [Next]_vars PROVE Inv'
  OBVIOUS
<1>t. /\ turn \in Nat /\ journal \in Seq(JournalEntry) /\ Len(journal) \in Nat
      /\ Followed(journal) /\ Orderly(journal)
      /\ conv \in [some : BOOLEAN, msgs : Seq(Message)]
  BY LenProperties DEF Inv, TypeOK
<1>1. CASE UserCommand
  <2>1. /\ ShellCommand(turn) \in JournalEntry /\ ~IsResult(ShellCommand(turn))
        /\ ShellCommand(turn).kind # "Response"
    BY <1>t, EntryTyped, ZenonT(60) DEF ShellCommand, EntryKind, IsResult
  <2>2. journal' = Append(journal, ShellCommand(turn)) /\ phase' = "Idle" /\ turn' = turn /\ conv' = conv
    BY <1>1 DEF UserCommand
  <2>3. journal' \in Seq(JournalEntry) /\ Followed(journal') /\ Orderly(journal')
    BY <1>t, <2>1, <2>2, AppendEntry
  <2> QED BY <1>t, <2>2, <2>3, EndedTurn
<1>2. CASE Instruct
  <2> DEFINE e == Instruction(turn + 1)
             entries == Append(journal, e)
  <2>1. turn' \in Nat /\ turn + 1 \in Nat /\ StartStreaming(entries, NoConversation)
    BY <1>2, <1>t DEF Instruct
  <2>2. e \in JournalEntry /\ ~IsResult(e) /\ e.kind # "Response"
    BY <2>1, EntryTyped DEF Instruction, EntryKind, IsResult
  <2> HIDE DEF e
  <2>3. /\ entries \in Seq(JournalEntry) /\ Len(entries) = Len(journal) + 1
        /\ entries[Len(journal) + 1] = e /\ Followed(entries) /\ Orderly(entries)
    BY <1>t, <2>2, AppendEntry
  <2> HIDE DEF entries
  <2>4. Len(entries) > 0 /\ entries[Len(entries)].kind # "Response"
    BY <1>t, <2>2, <2>3
  <2> QED BY <2>1, <2>3, <2>4, NoConversationTyped, Started
<1>3. CASE Cancel \/ GiveUp
  BY <1>3, <1>t, EndedTurn DEF Cancel, GiveUp
<1>4. ASSUME NEW uses \in SUBSET ToolUse, NEW text \in BOOLEAN,
             Answer(text, uses) \/ Propose(text, uses) \/ Block(text, uses)
      PROVE  Inv'
  <2> DEFINE response == Response(turn, text, uses)
             app      == Append(journal, response)
  <2>1. /\ response \in JournalEntry /\ ~IsResult(response)
        /\ response.kind = "Response" /\ response.turn = turn /\ response.uses = uses
    BY <1>t, EntryTyped DEF Response, EntryKind, IsResult
  <2>2. turn' = turn /\ phase = "Streaming"
    BY <1>4 DEF Answer, Propose, Block
  <2>3. Len(journal) > 0 /\ journal[Len(journal)].kind # "Response"
    BY <2>2 DEF Inv, LastEntry, LastIsNone
  <2> HIDE DEF response
  <2>4. /\ app \in Seq(JournalEntry) /\ Followed(app) /\ Orderly(app)
        /\ Len(app) = Len(journal) + 1 /\ app[Len(journal) + 1] = response
    BY <1>t, <2>1, <2>3, AppendEntry
  <2> HIDE DEF app
  <2>5. CASE Answer(text, uses)
    <3>1. journal' = app /\ phase' = "Idle" /\ conv' = NoConversation
      BY <2>5 DEF Answer, app, response
    <3> QED BY <1>t, <2>2, <2>4, <3>1, NoConversationTyped, EndedTurn
  <2>6. CASE Propose(text, uses)
    <3>1. uses # {} /\ phase' = "Acting" /\ journal' = app /\ conv' = PushMessage(Assistant(response))
      BY <2>6 DEF Propose, app, response
    <3>2. LastEntry'
      BY <1>t, <2>1, <2>2, <2>4, <3>1 DEF LastEntry, LastIsResponse
    <3>3. conv.some /\ IsFrom(conv.msgs, journal)
      BY <2>2 DEF Inv, TypeOK
    <3>4. conv' = Kept(Append(conv.msgs, Assistant(response)))
      BY <3>1, <3>3 DEF PushMessage
    <3>5. Assistant(response) \in Message
      BY <2>1, OfAssistant
    <3>6. IsFrom(Append(conv.msgs, Assistant(response)), app)
      BY <1>t, <2>1, <2>3, <3>1, <3>3, <3>5, PushedIsFrom DEF app, IsFull
    <3>7. Append(conv.msgs, Assistant(response)) \in Seq(Message)
      BY <1>t, <3>5, AppendProperties
    <3>8. conv' \in [some : BOOLEAN, msgs : Seq(Message)] /\ conv'.some /\ IsFrom(conv'.msgs, journal')
      BY <3>1, <3>4, <3>6, <3>7 DEF Kept
    <3>9. TypeOK'
      BY <1>t, <2>2, <2>4, <3>1, <3>8 DEF TypeOK
    <3>10. BudgetRespected'
      BY <3>1 DEF BudgetRespected
    <3> QED BY <2>4, <3>1, <3>2, <3>8, <3>9, <3>10 DEF Inv
  <2>7. CASE Block(text, uses)
    <3> DEFINE blocked == Blocked(turn, uses)
    <3>1. /\ blocked \in JournalEntry /\ blocked.turn = turn /\ blocked.uses = uses
          /\ blocked.kind # "Response"
      <4>1. "Blocked" \in EntryKind /\ FALSE \in BOOLEAN /\ turn \in Nat
        BY <1>t DEF EntryKind
      <4> QED BY <4>1 DEF Blocked, Entry, JournalEntry
    <3>2. journal' = journal \o <<response, blocked>> /\ phase' = "Idle" /\ conv' = NoConversation
      BY <2>7 DEF Block, response
    <3> HIDE DEF blocked
    <3>3. Answers(blocked, app[Len(app)]) /\ Len(app) > 0
      BY <1>t, <2>1, <2>4, <3>1 DEF Answers
    <3>4. /\ Append(app, blocked) \in Seq(JournalEntry)
          /\ Followed(Append(app, blocked)) /\ Orderly(Append(app, blocked))
      BY <2>4, <3>1, <3>3, AppendEntry
    <3>5. journal' = Append(app, blocked)
      <4>1. <<response, blocked>> \in Seq(JournalEntry)
        BY <2>1, <3>1
      <4>2. journal \o <<response, blocked>> = Append(Append(journal, response), blocked)
        BY <1>t, <2>1, <3>1, <4>1
      <4> QED BY <3>2, <4>2 DEF app
    <3> QED BY <1>t, <2>2, <3>2, <3>4, <3>5, NoConversationTyped, EndedTurn
  <2> QED BY <1>4, <2>5, <2>6, <2>7
<1>5. ASSUME NEW uses \in SUBSET ToolUse, NEW kind \in {"ToolResult", "Blocked"},
             Report(kind, uses)
      PROVE  Inv'
  <2> DEFINE result  == Entry(kind, turn, FALSE, uses)
             entries == Append(journal, result)
             pushed  == PushMessage(User(<<result>>))
             kept    == IF OverBudget(pushed.msgs) THEN NoConversation ELSE pushed
  <2>1. /\ result \in JournalEntry /\ result.turn = turn /\ result.uses = uses
        /\ result.kind # "Response"
    <3>1. kind \in EntryKind /\ FALSE \in BOOLEAN /\ turn \in Nat
      BY <1>t DEF EntryKind
    <3> QED BY <3>1 DEF Entry, JournalEntry
  <2>2. /\ phase = "Acting" /\ uses \subseteq LastUses /\ turn' = turn
        /\ StartStreaming(entries, kept)
    BY <1>5 DEF Report
  <2> HIDE DEF result
  <2>3. /\ LastIsResponse /\ conv.some /\ IsFrom(conv.msgs, journal)
        /\ Answers(result, journal[Len(journal)])
    BY <2>1, <2>2, LastUsesOfLast DEF Inv, TypeOK, LastEntry, LastIsResponse, Answers
  <2>4. /\ entries \in Seq(JournalEntry) /\ Len(entries) = Len(journal) + 1
        /\ entries[Len(journal) + 1] = result /\ Followed(entries) /\ Orderly(entries)
    <3>1. Len(journal) > 0
      BY <2>3 DEF LastIsResponse
    <3> QED BY <1>t, <2>1, <2>3, <3>1, AppendEntry
  <2>5. User(<<result>>) \in Message
    BY <2>1, OfUser
  <2>6. pushed = Kept(Append(conv.msgs, User(<<result>>)))
    BY <2>3 DEF PushMessage
  <2>7. /\ IsFrom(Append(conv.msgs, User(<<result>>)), entries)
        /\ Append(conv.msgs, User(<<result>>)) \in Seq(Message)
    BY <1>t, <2>1, <2>3, <2>5, PushedIsFrom, AppendProperties DEF LastIsResponse, IsFull
  <2>8. /\ pushed.msgs = Append(conv.msgs, User(<<result>>))
        /\ pushed \in [some : BOOLEAN, msgs : Seq(Message)]
    <3> DEFINE msgs == Append(conv.msgs, User(<<result>>))
    <3> HIDE DEF msgs
    <3>1. Kept(msgs).msgs = msgs /\ (msgs \in Seq(Message) => Kept(msgs) \in [some : BOOLEAN, msgs : Seq(Message)])
      BY DEF Kept
    <3> QED BY <2>6, <2>7, <3>1 DEF msgs
  <2>9. kept \in [some : BOOLEAN, msgs : Seq(Message)]
    BY <2>8, NoConversationTyped
  <2>10. kept.some => IsFrom(kept.msgs, entries) /\ ConversationTokens(kept.msgs) <= Budget
    <3>1. CASE OverBudget(pushed.msgs)
      BY <3>1, NoConversationTyped
    <3>2. CASE ~ OverBudget(pushed.msgs)
      <4>1. pushed.msgs \in Seq(Message)
        BY <2>7, <2>8
      <4>2. ConversationTokens(pushed.msgs) \in Nat /\ Budget \in Nat
        BY <4>1, MessageCostsTyped, ConversationAssumption
      <4>3. kept = pushed
        BY <3>2
      <4>4. IsFrom(kept.msgs, entries)
        BY <2>7, <2>8, <4>3
      <4> HIDE DEF pushed
      <4>5. ConversationTokens(pushed.msgs) <= Budget
        BY <3>2, <4>2 DEF OverBudget
      <4> HIDE DEF kept
      <4> QED BY <4>3, <4>4, <4>5
    <3> QED BY <3>1, <3>2
  <2> HIDE DEF entries, kept
  <2>11. Len(entries) > 0 /\ entries[Len(entries)].kind # "Response" /\ turn' \in Nat
    BY <1>t, <2>1, <2>2, <2>4
  <2> QED BY <2>2, <2>4, <2>9, <2>10, <2>11, Started
<1>6. CASE UNCHANGED vars
  BY <1>6 DEF vars, Inv, TypeOK, LastEntry, LastIsResponse, LastIsNone, BudgetRespected, Request
<1> QED BY <1>1, <1>2, <1>3, <1>4, <1>5, <1>6 DEF Next

-----------------------------------------------------------------------------
(* The properties.                                                         *)

(* A response that gives a message gives one that says something.          *)
LEMMA FullIsSaid ==
  ASSUME NEW m, OneResponse(m)
  PROVE  Uses(m) # {} \/ Texts(m) # {}
<1>1. PICK r \in JournalEntry : r.kind = "Response" /\ IsFull(r) /\ m = Assistant(r)
  BY DEF OneResponse
<1>2. Uses(m) = r.uses
  BY <1>1, OfAssistant
<1>3. r \in EntriesOf(m)
  <2>1. m.of = <<r>>
    BY <1>1 DEF Assistant
  <2>2. Len(<<r>>) = 1 /\ <<r>>[1] = r /\ 1 \in 1..1
    OBVIOUS
  <2> QED BY <2>1, <2>2 DEF EntriesOf
<1> QED BY <1>1, <1>2, <1>3 DEF IsFull, Texts

(* The request of a stream is a conversation the journal gives.            *)
LEMMA RequestInTurns ==
  ASSUME Inv, phase = "Streaming"
  PROVE  /\ Request \in Seq(Message) /\ Len(Request) \in Nat
         /\ InTurns(Request) /\ Len(Request) % 2 = 1
<1>1. PICK i \in 1..Len(journal) : Request = Messages(From(journal, i))
  BY DEF Inv, IsFrom, Request
<1>2. /\ journal \in Seq(JournalEntry) /\ Orderly(journal)
      /\ journal[Len(journal)].kind # "Response"
  BY DEF Inv, TypeOK, LastEntry, LastIsNone
<1>3. /\ From(journal, i) \in Seq(JournalEntry) /\ Orderly(From(journal, i))
      /\ From(journal, i) # <<>> /\ From(journal, i)[Len(From(journal, i))].kind # "Response"
  BY <1>2, FromEntries
<1>4. Request \in Seq(Message) /\ InTurns(Request) /\ Len(Request) % 2 = 1
  BY <1>1, <1>3, MessagesInTurns, MessagesEnd
<1> QED BY <1>4, LenProperties

(* What the invariant says of each request.                                *)
LEMMA InvImplies ==
  Inv => TypeOK /\ Alternates /\ ResultsAnswerCalls /\ BudgetRespected /\ MemoryIsJournal
         /\ ResultsFollowResponse
<1> SUFFICES ASSUME Inv PROVE TypeOK /\ Alternates /\ ResultsAnswerCalls /\ BudgetRespected
                              /\ MemoryIsJournal /\ ResultsFollowResponse
  OBVIOUS
<1>1. Alternates
  <2>1. SUFFICES ASSUME phase = "Streaming", NEW i \in 1..Len(Request)
                 PROVE  IF i % 2 = 1 THEN Request[i].role = "user"
                        ELSE /\ Request[i].role = "assistant"
                             /\ Uses(Request[i]) # {} \/ Texts(Request[i]) # {}
    BY RequestInTurns DEF Alternates
  <2>2. /\ Request[i].role = IF i % 2 = 1 THEN "user" ELSE "assistant"
        /\ Request[i].role = "assistant" => OneResponse(Request[i])
    BY <2>1, RequestInTurns DEF InTurns
  <2> QED BY <2>2, FullIsSaid
<1>2. ResultsAnswerCalls
  BY RequestInTurns DEF ResultsAnswerCalls, InTurns
<1>3. MemoryIsJournal
  BY DEF Inv, IsFrom, MemoryIsJournal
<1> QED BY <1>1, <1>2, <1>3 DEF Inv, Followed, ResultsFollowResponse

LEMMA InvHolds == Spec => []Inv
  BY InvInit, InvNext, PTL DEF Spec

(* While a turn goes on there is a conversation in memory, so that the     *)
(* handlers (on_stream_end, on_batch_done and execute_batch) have one to   *)
(* extend.                                                                 *)
THEOREM Typed == Spec => []TypeOK
  BY InvHolds, InvImplies, PTL

(* The messages of each request take turns, the user first and last, and   *)
(* none of the assistant is empty, however the turns before were cut short *)
(* and wherever the budget has cut (journal.rs).                           *)
THEOREM TurnsAlternate == Spec => []Alternates
  BY InvHolds, InvImplies, PTL

(* Results answer calls of the message before them, in every request but   *)
(* for the first message (journal.rs, repl.rs, batch.rs).                  *)
THEOREM OnlyCallsAnswered == Spec => []ResultsAnswerCalls
  BY InvHolds, InvImplies, PTL

(* No request is longer than the budget by more than the message that a    *)
(* cut puts before it, unless it is the last entry alone: the entries that *)
(* were kept cost no less than the messages they are merged into, and a    *)
(* conversation that has outgrown the budget is rebuilt (journal.rs,       *)
(* repl.rs, batch.rs).                                                     *)
THEOREM WithinBudget == Spec => []BudgetRespected
  BY InvHolds, InvImplies, PTL

(* The conversation that is extended by hand is the one that the journal   *)
(* would give from some entry on (repl.rs, batch.rs).                      *)
THEOREM JournalInMemory == Spec => []MemoryIsJournal
  BY InvHolds, InvImplies, PTL

(* In the journal each result follows the response of its turn that made   *)
(* the calls it answers, however turns end and whatever the user does      *)
(* between them (repl.rs, batch.rs).                                       *)
THEOREM ResultsFollow == Spec => []ResultsFollowResponse
  BY InvHolds, InvImplies, PTL
=============================================================================
