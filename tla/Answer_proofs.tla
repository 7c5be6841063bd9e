----------------------------- MODULE Answer_proofs -----------------------------
(***************************************************************************)
(* What is proved of an answer, for any bodies, however they are cut, and  *)
(* whatever comes in between:                                              *)
(*                                                                         *)
(*   - its end: AnswerSpec => []OneEnd;                                    *)
(*   - its events: AnswerSpec => []CutsUnseen, where CutsUnseen says that    *)
(*     they are those the text would have given in one piece;               *)
(*   - its display: AnswerSpec => [](ScreenTellsEnd /\ ProposalOnScreen     *)
(*     /\ AnswerOnScreen), as three theorems.                              *)
(*                                                                         *)
(* OneEnd is not inductive: that a refused request ends after six posts    *)
(* needs the count of posts while the client is still asking, and that an  *)
(* end is the last event needs that there is none before (EndInv).         *)
(*                                                                         *)
(* The three others share one invariant, ShowInv: the types of the client  *)
(* and of the display, and for each of them the part that says how the     *)
(* screen, the display and what has been handled agree.  The lemmas before *)
(* it say what each sequence of the renderer does to the items of some     *)
(* kinds: it loses the line (Wiped) or ends it (LineEnded), and keeps what *)
(* is above.                                                               *)
(***************************************************************************)
EXTENDS Answer, Selection_proofs

OutIsSeq == out \in Seq({out[i] : i \in 1..Len(out)})

(* As many posts as retries while it asks, and none of them succeeded.     *)
PostsCounted ==
  /\ attempt \in 0..max_retries
  /\ phase \in {"Posting", "Sleeping"} => posts = attempt
  /\ phase = "Reading" => status = 200

(* There is no end before the last event, and no Done before the end.      *)
NotDoneYet ==
  \A i \in 1..Len(out) : out[i] = Done => i = Len(out) /\ closed /\ phase = "Ended"

LastIsEnd == phase = "Ended" => out[Len(out)] \in {Done, Error} \/ single

GivenUp == phase = "Ended" /\ status \in {429, 529} => posts = max_retries + 1

EndInv == OutIsSeq /\ PostsCounted /\ NotDoneYet /\ LastIsEnd /\ GivenUp

-----------------------------------------------------------------------------
(* A sequence is one of its own elements.                                  *)
LEMMA OwnElements ==
  ASSUME NEW S, NEW s \in Seq(S)
  PROVE  s \in Seq({s[i] : i \in 1..Len(s)})
  OBVIOUS

(* What the processor gives for an event of the stream is never an end.    *)
LEMMA ProcessGives ==
  ASSUME NEW e, NEW tool
  PROVE  \/ Process(e, tool) = <<>>
         \/ \E event : event # Done /\ Process(e, tool) = <<event>>
<1> DEFINE usage == e.type \in {"message_start", "message_delta"} /\ Kind(e.data) = "usage"
           delta == e.type = "content_block_delta" /\ Kind(e.data) = "text_delta"
           thought == e.type = "content_block_delta" /\ Kind(e.data) = "thinking_delta"
           ended == IsStop(e) /\ tool.id # 0
           failed == e.type = "error" /\ Kind(e.data) # "not JSON"
           given == Process(e, tool)
<1>1. /\ Usage # Done /\ Error # Done
      /\ \A id, content : Event("TextDelta", id, content) # Done
      /\ \A id, content : Event("ThinkingDelta", id, content) # Done
      /\ \A id, content : Event("ToolUse", id, content) # Done
  BY DEF Usage, Done, Error, Event
<1>2. \/ given = <<Usage>>
      \/ given = <<Event("TextDelta", 0, Content(e.data))>>
      \/ given = <<Event("ThinkingDelta", 0, Content(e.data))>>
      \/ given = <<Event("ToolUse", tool.id, tool.input_json)>>
      \/ given = <<Error>>
      \/ given = <<>>
  BY DEF Process, IsStop
<1> QED BY <1>1, <1>2

(* The sequence with one more event.                                       *)
LEMMA OneEventMore ==
  ASSUME OutIsSeq, NEW event, out' = Append(out, event)
  PROVE  /\ OutIsSeq'
         /\ Len(out) \in Nat /\ Len(out') = Len(out) + 1
         /\ \A i \in 1..Len(out) : out'[i] = out[i]
         /\ out'[Len(out')] = event
<1> DEFINE S == {out[i] : i \in 1..Len(out)} \cup {event}
<1>1. out \in Seq(S)
  BY DEF OutIsSeq
<1>2. out' \in Seq(S)
  BY <1>1, AppendProperties
<1>3. OutIsSeq'
  BY <1>2, OwnElements DEF OutIsSeq
<1> QED BY <1>1, <1>3, AppendProperties, LenProperties

(* An end that is no early Done ends the answer.                           *)
LEMMA EndKeeps ==
  ASSUME EndInv, phase # "Ended", NEW event, End(event),
         event = Done => closed', event \in {Done, Error} \/ single',
         PostsCounted', GivenUp'
  PROVE  EndInv'
<1>1. out' = Append(out, event) /\ phase' = "Ended"
  BY DEF End
<1>2. /\ OutIsSeq' /\ Len(out) \in Nat /\ Len(out') = Len(out) + 1
      /\ \A i \in 1..Len(out) : out'[i] = out[i]
      /\ out'[Len(out')] = event
  BY <1>1, OneEventMore DEF EndInv
<1>3. \A i \in 1..Len(out) : out[i] # Done
  BY DEF EndInv, NotDoneYet
<1>4. NotDoneYet'
  <2> SUFFICES ASSUME NEW i \in 1..Len(out'), out'[i] = Done
               PROVE  i = Len(out') /\ closed' /\ phase' = "Ended"
    BY DEF NotDoneYet
  <2>1. i = Len(out')
    BY <1>2, <1>3
  <2> QED BY <2>1, <1>1, <1>2
<1>5. LastIsEnd'
  BY <1>2 DEF LastIsEnd
<1> QED BY <1>2, <1>4, <1>5 DEF EndInv

(* A step that gives no event and does not end.                            *)
LEMMA SilentKeeps ==
  ASSUME EndInv, phase # "Ended", phase' # "Ended", out' = out, PostsCounted'
  PROVE  EndInv'
<1>1. \A i \in 1..Len(out) : out[i] # Done
  BY DEF EndInv, NotDoneYet
<1> QED BY <1>1 DEF EndInv, OutIsSeq, NotDoneYet, LastIsEnd, GivenUp

-----------------------------------------------------------------------------
(* A refused post is repeated, or ends the answer.                         *)
LEMMA PostRefusedKeeps ==
  ASSUME EndInv, NEW answer \in Status, NEW delay \in RetryAfter, PostRefused(answer, delay)
  PROVE  EndInv'
<1>1. /\ phase = "Posting" /\ posts = attempt /\ attempt \in 0..5
      /\ posts' = posts + 1 /\ status' = answer
      /\ answer # 200
  BY DEF PostRefused, EndInv, PostsCounted, OneMore, max_retries
<1>2. CASE answer \in {429, 529} /\ attempt < max_retries
  <2>1. Retries(delay)
    BY <1>2 DEF PostRefused
  <2>2. /\ out' = out
        /\ \/ phase' = "Panicked" /\ attempt' = attempt
           \/ phase' = "Sleeping" /\ attempt' = attempt + 1
    BY <2>1 DEF Retries
  <2>3. PostsCounted'
    BY <1>1, <1>2, <2>2 DEF PostsCounted, max_retries
  <2> QED BY <1>1, <2>2, <2>3, SilentKeeps
<1>3. CASE ~(answer \in {429, 529} /\ attempt < max_retries)
  <2>1. End(Error) /\ attempt' = attempt /\ closed' = closed
    BY <1>3 DEF PostRefused, stream
  <2>2. phase' = "Ended"
    BY <2>1 DEF End
  <2>3. PostsCounted' /\ GivenUp'
    BY <1>1, <1>3, <2>1, <2>2 DEF PostsCounted, GivenUp, max_retries
  <2>4. Error # Done
    BY DEF Error, Done, Event
  <2> QED BY <1>1, <2>1, <2>3, <2>4, EndKeeps
<1> QED BY <1>2, <1>3

(* An event of the stream is no end.                                       *)
LEMMA DeliverKeeps ==
  ASSUME EndInv, Deliver
  PROVE  EndInv'
<1> DEFINE given == Process(Head(parser.pending), active)
<1>1. /\ phase = "Reading" /\ phase' = phase /\ out' = out \o given
      /\ attempt' = attempt /\ posts' = posts /\ status' = status
  BY DEF Deliver, http
<1>2. PostsCounted'
  BY <1>1 DEF EndInv, PostsCounted
<1>3. CASE given = <<>>
  <2>1. out' = out
    BY <1>1, <1>3 DEF EndInv, OutIsSeq
  <2> QED BY <1>1, <1>2, <2>1, SilentKeeps
<1>4. CASE \E event : event # Done /\ given = <<event>>
  <2>1. PICK event : event # Done /\ given = <<event>>
    BY <1>4
  <2>2. out' = Append(out, event)
    <3>1. out' = out \o <<event>>
      BY <1>1, <2>1
    <3> QED BY <3>1 DEF EndInv, OutIsSeq
  <2>3. /\ OutIsSeq' /\ Len(out) \in Nat /\ Len(out') = Len(out) + 1
        /\ \A i \in 1..Len(out) : out'[i] = out[i]
        /\ out'[Len(out')] = event
    BY <2>2, OneEventMore DEF EndInv
  <2>4. \A i \in 1..Len(out) : out[i] # Done
    BY <1>1 DEF EndInv, NotDoneYet
  <2>5. \A i \in 1..Len(out') : out'[i] # Done
    BY <2>1, <2>3, <2>4
  <2> QED BY <1>1, <1>2, <2>3, <2>5 DEF EndInv, NotDoneYet, LastIsEnd, GivenUp
<1> QED BY <1>3, <1>4, ProcessGives

(* Every step of the client keeps the invariant.                           *)
LEMMA ClientKeeps ==
  ASSUME EndInv, phase # "Ended", Next
  PROVE  EndInv'
<1>1. Error # Done /\ \A content : Event("TextDelta", 0, content) # Done
  BY DEF Error, Done, Event
<1>2. CASE PostFails
  <2>1. End(Error) /\ phase' = "Ended" /\ status' = 0 /\ attempt' = attempt
    BY <1>2 DEF PostFails, End
  <2>2. PostsCounted' /\ GivenUp'
    BY <2>1 DEF EndInv, PostsCounted, GivenUp
  <2> QED BY <1>1, <2>1, <2>2, EndKeeps
<1>3. CASE Wake
  <2>1. PostsCounted' /\ phase' # "Ended" /\ out' = out
    BY <1>3 DEF Wake, http, EndInv, PostsCounted
  <2> QED BY <2>1, SilentKeeps
<1>4. CASE ReadSingle
  <2>1. PICK event \in {Event("TextDelta", 0, rest), Error} : End(event)
    BY <1>4 DEF ReadSingle
  <2>2. phase' = "Ended" /\ single' /\ event # Done
    BY <1>1, <1>4, <2>1 DEF ReadSingle, End, http
  <2>3. PostsCounted' /\ GivenUp'
    BY <1>4, <2>2 DEF ReadSingle, http, EndInv, PostsCounted, GivenUp
  <2> QED BY <2>1, <2>2, <2>3, EndKeeps
<1>5. CASE Break
  <2>1. End(Error) /\ phase' = "Ended"
    BY <1>5 DEF Break, End
  <2>2. PostsCounted' /\ GivenUp'
    BY <1>5, <2>1 DEF Break, Polls, http, EndInv, PostsCounted, GivenUp
  <2> QED BY <1>1, <2>1, <2>2, EndKeeps
<1>6. CASE Finish
  <2>1. End(Done) /\ phase' = "Ended" /\ closed'
    BY <1>6 DEF Finish, End, stream
  <2>2. PostsCounted' /\ GivenUp'
    BY <1>6, <2>1 DEF Finish, Polls, http, EndInv, PostsCounted, GivenUp
  <2> QED BY <2>1, <2>2, EndKeeps
<1>7. CASE Close
  <2>1. PostsCounted' /\ phase' # "Ended" /\ out' = out
    BY <1>7 DEF Close, http, EndInv, PostsCounted
  <2> QED BY <2>1, SilentKeeps
<1>8. CASE Deliver
  BY <1>8, DeliverKeeps
<1>9. CASE \E answer \in Status, delay \in RetryAfter : PostRefused(answer, delay)
  BY <1>9, PostRefusedKeeps
<1>10. CASE \E body \in Bodies : PostAccepted(body)
  <2>1. PostsCounted' /\ phase' # "Ended" /\ out' = out
    BY <1>10 DEF PostAccepted, EndInv, PostsCounted
  <2> QED BY <2>1, SilentKeeps
<1>11. CASE \E n \in 1..Len(rest) : Receive(n)
  <2>1. PostsCounted' /\ phase' # "Ended" /\ out' = out
    BY <1>11 DEF Receive, http, EndInv, PostsCounted
  <2> QED BY <2>1, SilentKeeps
<1> QED BY <1>2, <1>3, <1>4, <1>5, <1>6, <1>7, <1>8, <1>9, <1>10, <1>11 DEF Next

(* Once the answer has ended, the client does nothing more.                *)
LEMMA EndIsLast ==
  ASSUME phase = "Ended"
  PROVE  ~Next
BY DEF Next, PostFails, Wake, ReadSingle, Break, Finish, Close, Deliver, PostRefused,
       PostAccepted, Receive, Polls

(* The caller of the client is the event loop: it changes nothing of it.   *)
LEMMA OthersKeep ==
  ASSUME EndInv, UNCHANGED vars
  PROVE  EndInv'
BY DEF EndInv, OutIsSeq, PostsCounted, NotDoneYet, LastIsEnd, GivenUp, vars

LEMMA StepKeeps ==
  ASSUME EndInv, [AnswerNext]_all
  PROVE  EndInv'
<1>1. CASE Answering
  <2>1. Next
    BY <1>1 DEF Answering
  <2> QED BY <2>1, ClientKeeps, EndIsLast
<1>2. CASE UNCHANGED vars
  BY <1>2, OthersKeep
<1>3. AnswerNext => Answering \/ UNCHANGED vars
  BY DEF AnswerNext, HandleChunk, HandleDone, HandleVerdict, HandleTick, Cancel, Decided,
         ApproveKey, RefuseKey, TypeKey, HandleOutput, HandleChild, JudgePanics
<1>4. UNCHANGED all => UNCHANGED vars
  BY DEF all
<1> QED BY <1>1, <1>2, <1>3, <1>4

(* The client posts at most six times, gives the caller one end and        *)
(* nothing after it, and calls it Done only if the server ended the body.  *)
THEOREM AnswerEndsOnce == AnswerSpec => []OneEnd
<1>1. AnswerInit => EndInv
  <2> SUFFICES ASSUME Init
               PROVE  EndInv
    BY DEF AnswerInit
  <2>1. out = <<>> /\ Len(out) = 0
    BY DEF Init
  <2>2. OutIsSeq
    BY <2>1 DEF OutIsSeq
  <2> QED BY <2>1, <2>2 DEF Init, EndInv, PostsCounted, NotDoneYet, LastIsEnd, GivenUp, max_retries
<1>2. EndInv /\ [AnswerNext]_all => EndInv'
  BY StepKeeps
<1>3. EndInv => OneEnd
  BY DEF EndInv, NotDoneYet, LastIsEnd, GivenUp, OneEnd
<1> QED BY <1>1, <1>2, <1>3, PTL DEF AnswerSpec

-----------------------------------------------------------------------------
(* The pieces that can be received: those of the bodies, and what is made  *)
(* of their bytes.                                                         *)
BodyPieces == UNION {{body[i] : i \in 1..Len(body)} : body \in Bodies}
Pieces     == BodyPieces \cup {"character", "nothing", "U+FFFD"}

(* What the parser, the processor and the channel hold.                     *)
Texts   == Seq(Pieces)
Types   == Pieces \cup {NoEvent}
Lines   == [type : Types, data : Texts]
Parsers == [line_buf : Texts, event_type : Types, data : Texts, pending : Seq(Lines)]
Kinds   == {"TextDelta", "ThinkingDelta", "ToolUse", "Usage", "Error", "Done"}
Events  == [kind : Kinds, id : Nat, content : Texts]

(* The types of the client, and that an event which is an error is the one  *)
(* error there is.                                                          *)
ClientTyped ==
  /\ single \in BOOLEAN
  /\ rest \in Texts
  /\ parser \in Parsers
  /\ active \in [id : Nat, input_json : Texts]
  /\ out \in Seq(Events)
  /\ \A i \in 1..Len(out) : out[i].kind = "Error" => out[i] = Error

-----------------------------------------------------------------------------
(* What is made of the bytes of a chunk is text.                            *)
LEMMA DecodedTyped ==
  ASSUME NEW chunk \in Texts
  PROVE  Decoded(chunk) \in Texts
<1> DEFINE IsPair(i) == /\ i \in 1..(Len(chunk) - 1)
                        /\ chunk[i] = Lead /\ chunk[i + 1] = Trail
           At(i) == IF IsPair(i) THEN "character"
                    ELSE IF IsPair(i - 1) THEN "nothing"
                    ELSE IF chunk[i] \in {Lead, Trail} THEN "U+FFFD" ELSE chunk[i]
           chars == [i \in 1..Len(chunk) |-> At(i)]
           P == {i \in 1..Len(chunk) : At(i) # "nothing"}
<1>1. Len(chunk) \in Nat /\ \A i \in 1..Len(chunk) : chunk[i] \in Pieces
  BY LenProperties, ElementOfSeq DEF Texts
<1>2. \A i \in 1..Len(chunk) : At(i) \in Pieces
  <2>1. "character" \in Pieces /\ "nothing" \in Pieces /\ "U+FFFD" \in Pieces
    BY DEF Pieces
  <2> HIDE DEF IsPair
  <2> QED BY <1>1, <2>1
<1> HIDE DEF At
<1>3. Len(chars) = Len(chunk) /\ \A i \in 1..Len(chars) : chars[i] \in Pieces
  BY <1>1, <1>2
<1>4. Picked(chars, P) \in Seq(Pieces)
  <2> HIDE DEF chars, P
  <2> QED BY <1>1, <1>3, PickedLen
<1>5. Decoded(chunk) = Picked(chars, P)
  BY DEF Decoded, At
<1> QED BY <1>4, <1>5 DEF Texts

(* A line without its carriage return.                                      *)
LEMMA StrippedTyped ==
  ASSUME NEW line \in Texts
  PROVE  Stripped(line) \in Texts
<1>1. Len(line) \in Nat /\ \A i \in 1..Len(line) : line[i] \in Pieces
  BY LenProperties, ElementOfSeq DEF Texts
<1>2. \A i \in 1..(Len(line) - 1) : line[i] \in Pieces
  BY <1>1
<1>3. SubSeq(line, 1, Len(line) - 1) \in Seq(Pieces)
  BY <1>1, <1>2, SubSeqProperties
<1> QED BY <1>3 DEF Stripped, Texts

(* The parser after an event has been given out,                            *)
LEMMA EmittedTyped ==
  ASSUME NEW p \in Parsers
  PROVE  Emitted(p) \in Parsers
<1>1. /\ p.line_buf \in Texts /\ p.event_type \in Types /\ p.data \in Texts
      /\ p.pending \in Seq(Lines)
  BY DEF Parsers
<1> DEFINE line == [type |-> p.event_type, data |-> p.data]
<1>2. line \in Lines
  BY <1>1 DEF Lines
<1> HIDE DEF line
<1>3. Append(p.pending, line) \in Seq(Lines)
  BY <1>1, <1>2, AppendProperties
<1>4. NoEvent \in Types /\ <<>> \in Texts
  BY EmptySeq DEF Types, Texts
<1>5. CASE p.data # <<>>
  <2>1. Emitted(p) = [p EXCEPT !.event_type = NoEvent, !.data = <<>>,
                               !.pending = Append(@, line)]
    BY <1>5 DEF Emitted, line
  <2>2. p = [line_buf |-> p.line_buf, event_type |-> p.event_type, data |-> p.data,
             pending |-> p.pending]
    BY DEF Parsers
  <2>3. Emitted(p) = [line_buf |-> p.line_buf, event_type |-> NoEvent, data |-> <<>>,
                      pending |-> Append(p.pending, line)]
    BY <2>1, <2>2
  <2> QED BY <1>1, <1>3, <1>4, <2>3 DEF Parsers
<1> QED BY <1>5 DEF Emitted

(* after a line,                                                            *)
LEMMA ProcessLineTyped ==
  ASSUME NEW p \in Parsers, NEW line \in Texts
  PROVE  ProcessLine(p, line) \in Parsers
<1>1. /\ p.line_buf \in Texts /\ p.event_type \in Types /\ p.data \in Texts
      /\ p.pending \in Seq(Lines)
  BY DEF Parsers
<1>2. CASE line = <<>>
  BY <1>2, EmittedTyped DEF ProcessLine
<1>3. CASE line # <<>>
  <2>1. /\ Tail(line) \in Texts
        /\ \A i \in 1..Len(Tail(line)) : Tail(line)[i] \in Pieces
        /\ Tail(line) # <<>> => 1 \in 1..Len(Tail(line))
    <3>1. Tail(line) \in Texts
      BY <1>3, HeadTailProperties DEF Texts
    <3>2. Tail(line) # <<>> => Len(Tail(line)) \in Nat \ {0}
      BY <3>1, EmptySeq DEF Texts
    <3> QED BY <3>1, <3>2, ElementOfSeq DEF Texts
  <2>2. Name(Tail(line)) \in Types
    BY <2>1 DEF Name, Types
  <2>3. p.data \o Stripped(Tail(line)) \in Texts
    BY <1>1, <2>1, StrippedTyped, ConcatProperties DEF Texts
  <2>4. CASE line[1] = "event:"
    <3>1. ProcessLine(p, line) = [p EXCEPT !.event_type = Name(Tail(line))]
      BY <1>3, <2>4 DEF ProcessLine
    <3> QED BY <2>2, <3>1 DEF Parsers
  <2>5. CASE line[1] = "data:"
    <3>1. ProcessLine(p, line) = [p EXCEPT !.data = p.data \o Stripped(Tail(line))]
      BY <1>3, <2>5 DEF ProcessLine, Parsers
    <3> QED BY <2>3, <3>1 DEF Parsers
  <2>6. CASE line[1] \notin {"event:", "data:"}
    <3>1. ProcessLine(p, line) = p
      BY <1>3, <2>6 DEF ProcessLine
    <3> QED BY <3>1
  <2> QED BY <2>4, <2>5, <2>6
<1> QED BY <1>2, <1>3

(* after a character,                                                       *)
LEMMA FeedTyped ==
  ASSUME NEW p \in Parsers, NEW c \in Pieces
  PROVE  Feed(p, c) \in Parsers
<1>1. p.line_buf \in Texts /\ <<>> \in Texts
  BY EmptySeq DEF Parsers, Texts
<1>2. [p EXCEPT !.line_buf = <<>>] \in Parsers
  BY <1>1 DEF Parsers
<1>3. Append(p.line_buf, c) \in Texts
  BY <1>1, AppendProperties DEF Texts
<1>4. [p EXCEPT !.line_buf = Append(@, c)] \in Parsers
  BY <1>3 DEF Parsers
<1> QED BY <1>1, <1>2, <1>4, StrippedTyped, ProcessLineTyped DEF Feed

(* after each of the characters of a chunk, as Fed says,                    *)
LEMMA FedDefined ==
  ASSUME NEW p \in Parsers, NEW chars \in Texts
  PROVE  /\ FedUpTo(p, chars)[0] = p
         /\ \A n \in 1..Len(chars) : FedUpTo(p, chars)[n] = Feed(FedUpTo(p, chars)[n - 1], chars[n])
         /\ \A n \in 0..Len(chars) : FedUpTo(p, chars)[n] \in Parsers
         /\ Fed(p, chars) = FedUpTo(p, chars)[Len(chars)]
<1> DEFINE N == Len(chars)
           S == Parsers
           step == [q \in S \X (1..N) |-> Feed(q[1], chars[q[2]])]
           F == FedUpTo(p, chars)
<1>1. N \in Nat /\ \A n \in 1..N : chars[n] \in Pieces
  BY LenProperties, ElementOfSeq DEF Texts
<1>2. \A s \in S, n \in 1..N : Feed(s, chars[n]) \in S
  BY <1>1, FeedTyped
<1>3. step \in [S \X (1..N) -> S]
  <2> HIDE DEF S, N
  <2> QED BY <1>2
<1>4. PICK f \in [0..N -> S] : IsRecursive(f, N, p, step)
  <2> HIDE DEF step, S, N
  <2>1. p \in S
    BY DEF S
  <2> QED BY <1>1, <1>3, <2>1, Recursion
<1> HIDE DEF S, N
<1>5. ASSUME NEW n \in 0..N
      PROVE  f[n] = IF n = 0 THEN p ELSE Feed(f[n - 1], chars[n])
  <2>1. n # 0 => n \in 1..N /\ n - 1 \in 0..N
    BY <1>1
  <2>2. n # 0 => f[n - 1] \in S
    BY <1>4, <2>1
  <2>3. n # 0 => f[n] = step[<<f[n - 1], n>>]
    <3> HIDE DEF step
    <3> QED BY <1>4, <2>1 DEF IsRecursive
  <2>4. n # 0 => f[n] = Feed(f[n - 1], chars[n])
    BY <2>1, <2>2, <2>3
  <2> QED BY <1>4, <2>4 DEF IsRecursive
<1>6. f = [n \in 0..N |-> IF n = 0 THEN p ELSE Feed(f[n - 1], chars[n])]
  BY <1>4, <1>5
<1>7. F = [n \in 0..N |-> IF n = 0 THEN p ELSE Feed(F[n - 1], chars[n])]
  BY <1>6 DEF FedUpTo, N
<1> HIDE DEF F
<1> DEFINE T == {n \in 0..N : F[n] \in S}
<1>8. 0 \in T /\ F[0] = p
  <2>1. 0 \in 0..N
    BY <1>1
  <2> QED BY <1>7, <2>1 DEF S
<1>9. ASSUME NEW n \in 1..N
      PROVE  F[n] = Feed(F[n - 1], chars[n]) /\ (n - 1 \in T => n \in T)
  <2>1. n \in 0..N /\ n # 0 /\ (n - 1 \in T => F[n - 1] \in S)
    BY <1>1
  <2> QED BY <1>2, <1>7, <2>1
<1>10. \A n \in 0..N : n \in T
  <2> HIDE DEF T
  <2> QED BY <1>1, <1>8, <1>9, InductionUpTo
<1> QED BY <1>8, <1>9, <1>10 DEF Fed, F, S, N

(* after all of them,                                                       *)
LEMMA FedTyped ==
  ASSUME NEW p \in Parsers, NEW chars \in Texts
  PROVE  Fed(p, chars) \in Parsers
<1>1. Len(chars) \in 0..Len(chars)
  BY LenProperties DEF Texts
<1> QED BY <1>1, FedDefined

(* and at the end of the body.                                              *)
LEMMA ClosedTyped ==
  ASSUME NEW p \in Parsers
  PROVE  Closed(p) \in Parsers
<1>1. p.line_buf \in Texts /\ [p EXCEPT !.line_buf = <<>>] \in Parsers
  BY EmptySeq DEF Parsers, Texts
<1> QED BY <1>1, ProcessLineTyped, EmittedTyped DEF Closed

(* What the data of an event say is text.                                   *)
LEMMA ContentTyped ==
  ASSUME NEW data \in Texts
  PROVE  Content(data) \in Texts
<1>1. Len(data) \in Nat /\ \A i \in 1..Len(data) : data[i] \in Pieces
  BY LenProperties, ElementOfSeq DEF Texts
<1>2. \A i \in 2..(Len(data) - 1) : data[i] \in Pieces
  BY <1>1
<1> QED BY <1>1, <1>2, SubSeqProperties DEF Content, Texts

(* An event that is given is one, and says that it is an error if so.      *)
LEMMA ProcessTyped ==
  ASSUME NEW e \in Lines, NEW tool \in [id : Nat, input_json : Texts]
  PROVE  \/ Process(e, tool) = <<>>
         \/ \E event \in Events : /\ Process(e, tool) = <<event>>
                                  /\ event.kind = "Error" => event = Error
<1> DEFINE given == Process(e, tool)
<1>1. /\ tool.id \in Nat /\ tool.input_json \in Texts /\ Content(e.data) \in Texts
      /\ <<>> \in Texts
  BY ContentTyped, EmptySeq DEF Lines, Texts
<1>2. ASSUME NEW kind \in Kinds, NEW id \in Nat, NEW content \in Texts
      PROVE  Event(kind, id, content) \in Events /\ Event(kind, id, content).kind = kind
  BY DEF Event, Events
<1>a. /\ Usage \in Events /\ Usage.kind # "Error"
      /\ Error \in Events
      /\ \A id \in Nat, content \in Texts : \A kind \in {"TextDelta", "ThinkingDelta", "ToolUse"} :
           Event(kind, id, content) \in Events /\ Event(kind, id, content).kind # "Error"
  <2>1. Usage \in Events /\ Usage.kind = "Usage" /\ Error \in Events
    BY <1>1, <1>2 DEF Usage, Error, Kinds
  <2>2. ASSUME NEW id \in Nat, NEW content \in Texts,
               NEW kind \in {"TextDelta", "ThinkingDelta", "ToolUse"}
        PROVE  Event(kind, id, content) \in Events /\ Event(kind, id, content).kind # "Error"
    <3>1. kind \in Kinds /\ kind # "Error"
      BY DEF Kinds
    <3> QED BY <1>2, <3>1
  <2> QED BY <2>1, <2>2
<1>3. \/ given = <<Usage>>
      \/ given = <<Event("TextDelta", 0, Content(e.data))>>
      \/ given = <<Event("ThinkingDelta", 0, Content(e.data))>>
      \/ given = <<Event("ToolUse", tool.id, tool.input_json)>>
      \/ given = <<Error>>
      \/ given = <<>>
  BY DEF Process, IsStop
<1> HIDE DEF given
<1>4. given = <<>> \/ \E event \in Events : given = <<event>> /\ (event.kind = "Error" => event = Error)
  BY <1>1, <1>a, <1>3
<1> QED BY <1>4 DEF given

(* The tool use that is being put together.                                 *)
LEMMA ActiveTyped ==
  ASSUME NEW e \in Lines, NEW tool \in [id : Nat, input_json : Texts]
  PROVE  ActiveAfter(e, tool) \in [id : Nat, input_json : Texts]
<1>1. /\ tool.id \in Nat /\ tool.input_json \in Texts /\ Content(e.data) \in Texts
      /\ <<>> \in Texts /\ ToolId(e) \in Nat
  BY ContentTyped, EmptySeq DEF Lines, Texts, ToolId
<1>2. tool.input_json \o Content(e.data) \in Texts
  BY <1>1, ConcatProperties DEF Texts
<1>3. [tool EXCEPT !.input_json = @ \o Content(e.data)] \in [id : Nat, input_json : Texts]
  BY <1>2
<1>4. NoTool \in [id : Nat, input_json : Texts]
  BY <1>1 DEF NoTool
<1>5. \/ ActiveAfter(e, tool) = [id |-> ToolId(e), input_json |-> <<>>]
      \/ ActiveAfter(e, tool) = [tool EXCEPT !.input_json = @ \o Content(e.data)]
      \/ ActiveAfter(e, tool) = NoTool
      \/ ActiveAfter(e, tool) = tool
  BY DEF ActiveAfter
<1> QED BY <1>1, <1>3, <1>4, <1>5

(* One event more.                                                         *)
LEMMA EndTyped ==
  ASSUME ClientTyped, NEW event \in Events, event.kind = "Error" => event = Error,
         out' = Append(out, event)
  PROVE  out' \in Seq(Events) /\ \A i \in 1..Len(out') : out'[i].kind = "Error" => out'[i] = Error
<1>1. /\ out' \in Seq(Events) /\ Len(out') = Len(out) + 1 /\ out'[Len(out) + 1] = event
      /\ \A i \in 1..Len(out) : out'[i] = out[i]
      /\ Len(out) \in Nat
  BY AppendProperties, LenProperties DEF ClientTyped
<1> QED BY <1>1 DEF ClientTyped

(* An event of the stream is given to the caller.                           *)
LEMMA DeliverTyped ==
  ASSUME ClientTyped, Deliver
  PROVE  ClientTyped'
<1> DEFINE e == Head(parser.pending)
<1>1. parser.pending \in Seq(Lines) /\ parser.pending # <<>>
  BY DEF ClientTyped, Parsers, Deliver
<1>2. e \in Lines /\ Tail(parser.pending) \in Seq(Lines)
  BY <1>1, HeadTailProperties
<1>3. parser' \in Parsers
  <2>1. parser' = [parser EXCEPT !.pending = Tail(parser.pending)]
    BY DEF Deliver, ClientTyped, Parsers
  <2> QED BY <1>2, <2>1 DEF ClientTyped, Parsers
<1>4. active' \in [id : Nat, input_json : Texts]
  <2>1. active' = ActiveAfter(e, active)
    BY DEF Deliver
  <2> QED BY <1>2, <2>1, ActiveTyped DEF ClientTyped
<1>5. out' = out \o Process(e, active) /\ single' = single /\ rest' = rest
  BY DEF Deliver, http
<1> HIDE DEF e
<1>6. out' \in Seq(Events) /\ \A i \in 1..Len(out') : out'[i].kind = "Error" => out'[i] = Error
  <2>1. active \in [id : Nat, input_json : Texts] /\ out \in Seq(Events)
    BY DEF ClientTyped
  <2>2. CASE Process(e, active) = <<>>
    <3>1. out' = out
      BY <1>5, <2>1, <2>2, ConcatEmptySeq
    <3> QED BY <3>1 DEF ClientTyped
  <2>3. CASE \E event \in Events : /\ Process(e, active) = <<event>>
                                   /\ event.kind = "Error" => event = Error
    <3>1. PICK event \in Events : /\ Process(e, active) = <<event>>
                                  /\ event.kind = "Error" => event = Error
      BY <2>3
    <3>2. out' = Append(out, event)
      BY <1>5, <2>1, <3>1, AppendIsConcat
    <3> QED BY <3>1, <3>2, EndTyped
  <2> QED BY <1>2, <2>1, <2>2, <2>3, ProcessTyped
<1> QED BY <1>3, <1>4, <1>5, <1>6 DEF ClientTyped

(* Every step of the client keeps its types.                                *)
LEMMA ClientKeepsTypes ==
  ASSUME ClientTyped, [Next]_vars
  PROVE  ClientTyped'
<1>1. Done \in Events /\ Error \in Events /\ Done.kind = "Done"
  BY EmptySeq DEF Done, Error, Event, Events, Kinds, Texts
<1>2. ASSUME UNCHANGED <<single, rest, parser, active>>, NEW event \in Events,
             event.kind = "Error" => event = Error, End(event)
      PROVE  ClientTyped'
  <2>1. out' = Append(out, event)
    BY <1>2 DEF End
  <2>2. out' \in Seq(Events) /\ \A i \in 1..Len(out') : out'[i].kind = "Error" => out'[i] = Error
    BY <1>2, <2>1, EndTyped
  <2> QED BY <1>2, <2>2 DEF ClientTyped
<1>3. ASSUME UNCHANGED <<single, rest, parser, active, out>>
      PROVE  ClientTyped'
  BY <1>3 DEF ClientTyped
<1>4. ASSUME NEW answer \in Status, NEW delay \in RetryAfter, PostRefused(answer, delay)
      PROVE  ClientTyped'
  <2>1. UNCHANGED <<single, rest, parser, active>> /\ (End(Error) \/ out' = out)
    BY <1>4 DEF PostRefused, Retries, stream
  <2> QED BY <1>1, <1>2, <1>3, <2>1
<1>5. ASSUME NEW body \in Bodies, PostAccepted(body)
      PROVE  ClientTyped'
  <2>1. body \in Texts
    <3>1. body \in Seq({body[i] : i \in 1..Len(body)})
      BY BackendAssumption
    <3>2. {body[i] : i \in 1..Len(body)} \subseteq Pieces
      BY DEF BodyPieces, Pieces
    <3> QED BY <3>1, <3>2, SeqMonotonic DEF Texts
  <2>2. rest' = body /\ UNCHANGED <<single, parser, active, out>>
    BY <1>5 DEF PostAccepted
  <2> QED BY <2>1, <2>2 DEF ClientTyped
<1>6. ASSUME NEW n \in 1..Len(rest), Receive(n)
      PROVE  ClientTyped'
  <2>1. Len(rest) \in Nat /\ \A i \in 1..Len(rest) : rest[i] \in Pieces
    BY LenProperties, ElementOfSeq DEF ClientTyped, Texts
  <2>2. SubSeq(rest, n + 1, Len(rest)) \in Texts
    <3>1. \A i \in (n + 1)..Len(rest) : rest[i] \in Pieces
      BY <2>1
    <3> QED BY <2>1, <3>1, SubSeqProperties DEF Texts
  <2>3. SubSeq(rest, 1, n) \in Texts
    <3>1. \A i \in 1..n : rest[i] \in Pieces
      BY <2>1
    <3> QED BY <2>1, <3>1, SubSeqProperties DEF Texts
  <2>4. Fed(parser, Decoded(SubSeq(rest, 1, n))) \in Parsers
    BY <2>3, DecodedTyped, FedTyped DEF ClientTyped
  <2>5. /\ rest' = SubSeq(rest, n + 1, Len(rest))
        /\ parser' = Fed(parser, Decoded(SubSeq(rest, 1, n)))
        /\ UNCHANGED <<single, active, out>>
    BY <1>6 DEF Receive, http
  <2> QED BY <2>2, <2>4, <2>5 DEF ClientTyped
<1>7. CASE ReadSingle
  <2>1. PICK event \in {Event("TextDelta", 0, rest), Error} : End(event)
    BY <1>7 DEF ReadSingle
  <2>2. event \in Events /\ (event.kind = "Error" => event = Error)
    <3>1. Event("TextDelta", 0, rest) \in Events /\ Event("TextDelta", 0, rest).kind = "TextDelta"
      BY DEF ClientTyped, Event, Events, Kinds
    <3> QED BY <1>1, <2>1, <3>1
  <2>3. UNCHANGED <<single, rest, parser, active>>
    BY <1>7 DEF ReadSingle, http, stream
  <2> QED BY <1>2, <2>1, <2>2, <2>3
<1>8. CASE Close
  <2>1. parser' = Closed(parser) /\ UNCHANGED <<single, rest, active, out>>
    BY <1>8 DEF Close, http
  <2>2. parser' \in Parsers
    BY <2>1, ClosedTyped DEF ClientTyped
  <2> QED BY <2>1, <2>2 DEF ClientTyped
<1>9. CASE Deliver
  BY <1>9, DeliverTyped
<1>10. CASE PostFails
  <2>1. End(Error) /\ UNCHANGED <<single, rest, parser, active>>
    BY <1>10 DEF PostFails, stream
  <2> QED BY <1>1, <1>2, <2>1
<1>11. CASE Break
  <2>1. End(Error) /\ UNCHANGED <<single, rest, parser, active>>
    BY <1>11 DEF Break, stream, http
  <2> QED BY <1>1, <1>2, <2>1
<1>12. CASE Finish
  <2>1. End(Done) /\ UNCHANGED <<single, rest, parser, active>>
    BY <1>12 DEF Finish, stream, http
  <2> QED BY <1>1, <1>2, <2>1
<1>13. CASE Wake
  BY <1>3, <1>13 DEF Wake, stream, http
<1>14. CASE UNCHANGED vars
  BY <1>3, <1>14 DEF vars
<1> QED BY <1>4, <1>5, <1>6, <1>7, <1>8, <1>9, <1>10, <1>11, <1>12, <1>13, <1>14 DEF Next

-----------------------------------------------------------------------------
(* All but the last of a sequence.                                         *)
LEMMA FrontOfAppend ==
  ASSUME NEW S, NEW s \in Seq(S), NEW e \in S
  PROVE  SubSeq(Append(s, e), 1, Len(Append(s, e)) - 1) = s
<1>1. /\ Append(s, e) \in Seq(S) /\ Len(s) \in Nat /\ Len(Append(s, e)) = Len(s) + 1
      /\ \A i \in 1..Len(s) : Append(s, e)[i] = s[i] /\ s[i] \in S
  BY AppendProperties, LenProperties, ElementOfSeq
<1>2. PICK t \in Seq(S) : t = Append(s, e)
  BY <1>1
<1>3. \A i \in 1..Len(s) : t[i] \in S
  BY <1>1, <1>2
<1>4. /\ SubSeq(t, 1, Len(s)) \in Seq(S) /\ Len(SubSeq(t, 1, Len(s))) = Len(s)
      /\ \A i \in 1..Len(s) : SubSeq(t, 1, Len(s))[i] = t[i]
  BY <1>1, <1>3, SubSeqProperties
<1>5. SubSeq(t, 1, Len(s)) = s
  BY <1>1, <1>2, <1>4, SeqEqual
<1>6. Len(Append(s, e)) - 1 = Len(s)
  BY <1>1
<1> QED BY <1>2, <1>5, <1>6

(* The parser q is where p is, and gave the events of done before.         *)
Ahead(q, p, done) == q = [p EXCEPT !.pending = done \o @]

(* The parser q in the fields of p,                                        *)
LEMMA AheadFields ==
  ASSUME NEW p \in Parsers, NEW q, NEW done \in Seq(Lines), Ahead(q, p, done)
  PROVE  /\ q \in Parsers /\ q.pending = done \o p.pending
         /\ q.line_buf = p.line_buf /\ q.event_type = p.event_type /\ q.data = p.data
BY ConcatProperties DEF Ahead, Parsers

(* and the other way round.                                                *)
LEMMA AheadIf ==
  ASSUME NEW p \in Parsers, NEW q \in Parsers, NEW done \in Seq(Lines),
         q.pending = done \o p.pending,
         q.line_buf = p.line_buf, q.event_type = p.event_type, q.data = p.data
  PROVE  Ahead(q, p, done)
BY DEF Ahead, Parsers

(* What the parser does does not depend on the events it has given: when   *)
(* an event is given out,                                                  *)
LEMMA EmittedAhead ==
  ASSUME NEW p \in Parsers, NEW q, NEW done \in Seq(Lines), Ahead(q, p, done)
  PROVE  Ahead(Emitted(q), Emitted(p), done)
<1>1. /\ q \in Parsers /\ q.pending = done \o p.pending
      /\ q.line_buf = p.line_buf /\ q.event_type = p.event_type /\ q.data = p.data
  BY AheadFields
<1>2. CASE p.data = <<>>
  BY <1>1, <1>2 DEF Emitted
<1>3. CASE p.data # <<>>
  <2>1. PICK e \in Lines : e = [type |-> p.event_type, data |-> p.data]
    BY DEF Parsers, Lines
  <2>2. /\ Emitted(p) = [p EXCEPT !.event_type = NoEvent, !.data = <<>>, !.pending = Append(@, e)]
        /\ Emitted(q) = [q EXCEPT !.event_type = NoEvent, !.data = <<>>, !.pending = Append(@, e)]
    BY <1>1, <1>3, <2>1 DEF Emitted
  <2>3. p.pending \in Seq(Lines) /\ q.pending \in Seq(Lines)
    BY <1>1 DEF Parsers
  <2>4. Append(q.pending, e) = done \o Append(p.pending, e)
    <3>1. PICK s \in Seq(Lines) : s = p.pending
      BY <2>3
    <3>2. Append(done \o s, e) = done \o Append(s, e)
      OBVIOUS
    <3> QED BY <1>1, <3>1, <3>2
  <2>5. Emitted(p) \in Parsers /\ Emitted(q) \in Parsers
    BY <1>1, EmittedTyped
  <2>6. /\ Emitted(p).pending = Append(p.pending, e) /\ Emitted(q).pending = Append(q.pending, e)
        /\ Emitted(p).line_buf = p.line_buf /\ Emitted(q).line_buf = q.line_buf
        /\ Emitted(p).event_type = NoEvent /\ Emitted(q).event_type = NoEvent
        /\ Emitted(p).data = <<>> /\ Emitted(q).data = <<>>
    BY <1>1, <2>2 DEF Parsers
  <2> QED BY <1>1, <2>4, <2>5, <2>6, AheadIf
<1> QED BY <1>2, <1>3

(* after a line,                                                           *)
LEMMA ProcessLineAhead ==
  ASSUME NEW p \in Parsers, NEW q, NEW done \in Seq(Lines), Ahead(q, p, done), NEW line \in Texts
  PROVE  Ahead(ProcessLine(q, line), ProcessLine(p, line), done)
<1>1. /\ q \in Parsers /\ q.pending = done \o p.pending
      /\ q.line_buf = p.line_buf /\ q.event_type = p.event_type /\ q.data = p.data
  BY AheadFields
<1>2. ProcessLine(p, line) \in Parsers /\ ProcessLine(q, line) \in Parsers
  BY <1>1, ProcessLineTyped
<1>3. CASE line = <<>>
  <2>1. ProcessLine(p, line) = Emitted(p) /\ ProcessLine(q, line) = Emitted(q)
    BY <1>3 DEF ProcessLine
  <2> QED BY <2>1, EmittedAhead
<1>4. CASE line # <<>> /\ line[1] = "event:"
  <2>1. /\ ProcessLine(p, line) = [p EXCEPT !.event_type = Name(Tail(line))]
        /\ ProcessLine(q, line) = [q EXCEPT !.event_type = Name(Tail(line))]
    BY <1>4 DEF ProcessLine
  <2> QED BY <1>1, <1>2, <2>1, AheadIf DEF Parsers
<1>5. CASE line # <<>> /\ line[1] = "data:"
  <2>1. /\ ProcessLine(p, line) = [p EXCEPT !.data = @ \o Stripped(Tail(line))]
        /\ ProcessLine(q, line) = [q EXCEPT !.data = @ \o Stripped(Tail(line))]
    BY <1>5 DEF ProcessLine
  <2> QED BY <1>1, <1>2, <2>1, AheadIf DEF Parsers
<1>6. CASE line # <<>> /\ line[1] \notin {"event:", "data:"}
  <2>1. ProcessLine(p, line) = p /\ ProcessLine(q, line) = q
    BY <1>6 DEF ProcessLine
  <2> QED BY <2>1
<1> QED BY <1>3, <1>4, <1>5, <1>6

(* with another line begun,                                                *)
LEMMA LineTaken ==
  ASSUME NEW p \in Parsers, NEW q, NEW done \in Seq(Lines), Ahead(q, p, done), NEW line \in Texts
  PROVE  /\ [p EXCEPT !.line_buf = line] \in Parsers
         /\ Ahead([q EXCEPT !.line_buf = line], [p EXCEPT !.line_buf = line], done)
<1>1. /\ q \in Parsers /\ q.pending = done \o p.pending
      /\ q.line_buf = p.line_buf /\ q.event_type = p.event_type /\ q.data = p.data
  BY AheadFields
<1>2. [p EXCEPT !.line_buf = line] \in Parsers /\ [q EXCEPT !.line_buf = line] \in Parsers
  BY <1>1 DEF Parsers
<1> QED BY <1>1, <1>2, AheadIf DEF Parsers

(* after a character,                                                      *)
LEMMA FeedAhead ==
  ASSUME NEW p \in Parsers, NEW q, NEW done \in Seq(Lines), Ahead(q, p, done), NEW c \in Pieces
  PROVE  Ahead(Feed(q, c), Feed(p, c), done)
<1>1. q.line_buf = p.line_buf /\ p.line_buf \in Texts
  BY AheadFields DEF Parsers
<1>2. CASE c = NewLine
  <2>1. /\ [p EXCEPT !.line_buf = <<>>] \in Parsers
        /\ Ahead([q EXCEPT !.line_buf = <<>>], [p EXCEPT !.line_buf = <<>>], done)
    <3>1. <<>> \in Texts
      BY EmptySeq DEF Texts
    <3> QED BY <3>1, LineTaken
  <2>2. Stripped(p.line_buf) \in Texts
    BY <1>1, StrippedTyped
  <2> QED BY <1>1, <1>2, <2>1, <2>2, ProcessLineAhead DEF Feed
<1>3. CASE c # NewLine
  <2>1. PICK line \in Texts : line = Append(p.line_buf, c)
    BY <1>1, AppendProperties DEF Texts
  <2>2. Feed(p, c) = [p EXCEPT !.line_buf = line] /\ Feed(q, c) = [q EXCEPT !.line_buf = line]
    BY <1>1, <1>3, <2>1 DEF Feed
  <2> QED BY <2>2, LineTaken
<1> QED BY <1>2, <1>3

(* at the end of the body,                                                 *)
LEMMA ClosedAhead ==
  ASSUME NEW p \in Parsers, NEW q, NEW done \in Seq(Lines), Ahead(q, p, done)
  PROVE  Ahead(Closed(q), Closed(p), done)
<1>1. q.line_buf = p.line_buf /\ p.line_buf \in Texts
  BY AheadFields DEF Parsers
<1>2. CASE p.line_buf = <<>>
  <2>1. Closed(p) = Emitted(p) /\ Closed(q) = Emitted(q)
    BY <1>1, <1>2 DEF Closed
  <2> QED BY <2>1, EmittedAhead
<1>3. CASE p.line_buf # <<>>
  <2>1. /\ [p EXCEPT !.line_buf = <<>>] \in Parsers
        /\ Ahead([q EXCEPT !.line_buf = <<>>], [p EXCEPT !.line_buf = <<>>], done)
    <3>1. <<>> \in Texts
      BY EmptySeq DEF Texts
    <3> QED BY <3>1, LineTaken
  <2>2. PICK line \in Texts : line = p.line_buf
    BY <1>1
  <2>3. /\ Closed(p) = Emitted(ProcessLine([p EXCEPT !.line_buf = <<>>], line))
        /\ Closed(q) = Emitted(ProcessLine([q EXCEPT !.line_buf = <<>>], line))
    BY <1>1, <1>3, <2>2 DEF Closed
  <2>4. /\ ProcessLine([p EXCEPT !.line_buf = <<>>], line) \in Parsers
        /\ Ahead(ProcessLine([q EXCEPT !.line_buf = <<>>], line),
                 ProcessLine([p EXCEPT !.line_buf = <<>>], line), done)
    BY <2>1, ProcessLineAhead, ProcessLineTyped
  <2> QED BY <2>3, <2>4, EmittedAhead
<1> QED BY <1>2, <1>3

(* and after a chunk.                                                      *)
LEMMA FedAhead ==
  ASSUME NEW p \in Parsers, NEW q, NEW done \in Seq(Lines), Ahead(q, p, done), NEW chars \in Texts
  PROVE  Ahead(Fed(q, chars), Fed(p, chars), done)
<1> DEFINE N == Len(chars)
           F == FedUpTo(p, chars)
           G == FedUpTo(q, chars)
           T == {n \in 0..N : Ahead(G[n], F[n], done)}
<1>1. N \in Nat /\ \A n \in 1..N : chars[n] \in Pieces
  BY LenProperties, ElementOfSeq DEF Texts
<1>2. /\ F[0] = p /\ Fed(p, chars) = F[N]
      /\ \A n \in 1..N : F[n] = Feed(F[n - 1], chars[n])
      /\ \A n \in 0..N : F[n] \in Parsers
  BY FedDefined
<1>3. /\ G[0] = q /\ Fed(q, chars) = G[N]
      /\ \A n \in 1..N : G[n] = Feed(G[n - 1], chars[n])
  <2>1. q \in Parsers
    BY AheadFields
  <2> QED BY <2>1, FedDefined
<1> HIDE DEF N, F, G
<1>4. 0 \in T
  BY <1>1, <1>2, <1>3
<1>5. ASSUME NEW n \in 1..N, n - 1 \in T
      PROVE  n \in T
  <2>1. n \in 0..N /\ n - 1 \in 0..N /\ Ahead(G[n - 1], F[n - 1], done)
    BY <1>1, <1>5
  <2>2. Ahead(Feed(G[n - 1], chars[n]), Feed(F[n - 1], chars[n]), done)
    BY <1>1, <1>2, <2>1, FeedAhead
  <2> QED BY <1>2, <1>3, <2>1, <2>2
<1>6. \A n \in 0..N : n \in T
  <2> HIDE DEF T
  <2> QED BY <1>1, <1>4, <1>5, InductionUpTo
<1> QED BY <1>1, <1>2, <1>3, <1>6

(* It is all the same where the characters are cut.                        *)
LEMMA FedConcat ==
  ASSUME NEW p \in Parsers, NEW a \in Texts, NEW b \in Texts
  PROVE  Fed(p, a \o b) = Fed(Fed(p, a), b)
<1> DEFINE N == Len(a)
           M == Len(b)
           c == a \o b
           F == FedUpTo(p, a)
           G == FedUpTo(Fed(p, a), b)
           H == FedUpTo(p, c)
           T == {n \in 0..N : H[n] = F[n]}
           U == {n \in 0..M : H[N + n] = G[n]}
<1>1. /\ N \in Nat /\ M \in Nat /\ c \in Texts /\ Len(c) = N + M
      /\ \A n \in 1..N : c[n] = a[n]
      /\ \A n \in 1..M : c[N + n] = b[n]
  BY ConcatProperties, LenProperties DEF Texts
<1>2. /\ F[0] = p /\ Fed(p, a) = F[N]
      /\ \A n \in 1..N : F[n] = Feed(F[n - 1], a[n])
  BY FedDefined
<1>3. /\ G[0] = Fed(p, a) /\ Fed(Fed(p, a), b) = G[M]
      /\ \A n \in 1..M : G[n] = Feed(G[n - 1], b[n])
  BY FedDefined, FedTyped
<1>4. /\ H[0] = p /\ Fed(p, c) = H[N + M]
      /\ \A n \in 1..(N + M) : H[n] = Feed(H[n - 1], c[n])
  <2> HIDE DEF c, N, M
  <2>1. /\ H[0] = p /\ Fed(p, c) = H[Len(c)]
        /\ \A n \in 1..Len(c) : H[n] = Feed(H[n - 1], c[n])
    BY <1>1, FedDefined
  <2> HIDE DEF H
  <2> QED BY <1>1, <2>1
<1> HIDE DEF N, M, c, F, G, H
<1>5. 0 \in T
  BY <1>1, <1>2, <1>4
<1>6. ASSUME NEW n \in 1..N, n - 1 \in T
      PROVE  n \in T
  <2>1. n \in 0..N /\ n \in 1..(N + M) /\ H[n - 1] = F[n - 1]
    BY <1>1, <1>6
  <2> QED BY <1>1, <1>2, <1>4, <2>1
<1>7. \A n \in 0..N : n \in T
  <2> HIDE DEF T
  <2> QED BY <1>1, <1>5, <1>6, InductionUpTo
<1>8. 0 \in U
  <2>1. H[N] = F[N] /\ N + 0 = N
    BY <1>1, <1>7
  <2> QED BY <1>1, <1>2, <1>3, <2>1
<1>9. ASSUME NEW n \in 1..M, n - 1 \in U
      PROVE  n \in U
  <2>1. n \in 0..M /\ N + n \in 1..(N + M) /\ (N + n) - 1 = N + (n - 1) /\ H[N + (n - 1)] = G[n - 1]
    BY <1>1, <1>9
  <2>2. H[N + n] = Feed(G[n - 1], c[N + n])
    BY <1>4, <2>1
  <2> QED BY <1>1, <1>3, <2>1, <2>2
<1>10. \A n \in 0..M : n \in U
  <2> HIDE DEF U
  <2> QED BY <1>1, <1>8, <1>9, InductionUpTo
<1>11. H[N + M] = G[M]
  BY <1>1, <1>10
<1> QED BY <1>3, <1>4, <1>11 DEF c

(* What the processor gives for some events, and the tool use it then has. *)
GivenUpTo(events) ==
  LET given[n \in 0..Len(events)] ==
        IF n = 0 THEN [out |-> <<>>, active |-> NoTool]
        ELSE [out    |-> given[n - 1].out \o Process(events[n], given[n - 1].active),
              active |-> ActiveAfter(events[n], given[n - 1].active)]
  IN given

Given(events) == GivenUpTo(events)[Len(events)]

(* The types of that, and one event more.                                  *)
Givens == [out : Seq(Events), active : [id : Nat, input_json : Texts]]

Gives(g, e) == [out    |-> g.out \o Process(e, g.active),
                active |-> ActiveAfter(e, g.active)]

(* An event more leaves the types,                                         *)
LEMMA NextGiven ==
  ASSUME NEW g \in Givens, NEW e \in Lines
  PROVE  Gives(g, e) \in Givens
<1>1. g.active \in [id : Nat, input_json : Texts] /\ g.out \in Seq(Events)
  BY DEF Givens
<1>2. Process(e, g.active) \in Seq(Events)
  <2>1. CASE Process(e, g.active) = <<>>
    BY <2>1, EmptySeq
  <2>2. CASE \E event \in Events : Process(e, g.active) = <<event>>
    <3>1. PICK event \in Events : Process(e, g.active) = <<event>>
      BY <2>2
    <3>2. <<event>> \in Seq(Events)
      OBVIOUS
    <3> QED BY <3>1, <3>2
  <2> QED BY <1>1, <2>1, <2>2, ProcessTyped
<1>3. ActiveAfter(e, g.active) \in [id : Nat, input_json : Texts]
  BY <1>1, ActiveTyped
<1>4. g.out \o Process(e, g.active) \in Seq(Events)
  BY <1>1, <1>2, ConcatProperties
<1> QED BY <1>3, <1>4 DEF Gives, Givens

(* so that what is given is as its recursive definition says.              *)
LEMMA GivenDefined ==
  ASSUME NEW events \in Seq(Lines)
  PROVE  /\ GivenUpTo(events)[0] = [out |-> <<>>, active |-> NoTool]
         /\ \A n \in 1..Len(events) : GivenUpTo(events)[n] = Gives(GivenUpTo(events)[n - 1], events[n])
         /\ \A n \in 0..Len(events) : GivenUpTo(events)[n] \in Givens
<1> DEFINE N == Len(events)
           S == Givens
           start == [out |-> <<>>, active |-> NoTool]
           step == [q \in S \X (1..N) |-> Gives(q[1], events[q[2]])]
           F == GivenUpTo(events)
<1>1. N \in Nat /\ \A n \in 1..N : events[n] \in Lines
  BY LenProperties, ElementOfSeq
<1>2. \A s \in S, n \in 1..N : Gives(s, events[n]) \in S
  BY <1>1, NextGiven
<1>3. step \in [S \X (1..N) -> S]
  <2> HIDE DEF S, N
  <2> QED BY <1>2
<1>4. start \in S
  <2>1. <<>> \in Texts /\ <<>> \in Seq(Events)
    BY EmptySeq DEF Texts
  <2> QED BY <2>1 DEF Givens, NoTool
<1>5. PICK f \in [0..N -> S] : IsRecursive(f, N, start, step)
  <2> HIDE DEF step, S, N, start
  <2> QED BY <1>1, <1>3, <1>4, Recursion
<1> HIDE DEF S, N
<1>6. ASSUME NEW n \in 0..N
      PROVE  f[n] = IF n = 0 THEN start ELSE Gives(f[n - 1], events[n])
  <2> HIDE DEF start
  <2>1. n # 0 => n \in 1..N /\ n - 1 \in 0..N
    BY <1>1
  <2>2. n # 0 => f[n - 1] \in S
    BY <1>5, <2>1
  <2>3. n # 0 => f[n] = step[<<f[n - 1], n>>]
    <3> HIDE DEF step
    <3> QED BY <1>5, <2>1 DEF IsRecursive
  <2>4. n # 0 => f[n] = Gives(f[n - 1], events[n])
    BY <2>1, <2>2, <2>3
  <2> QED BY <1>5, <2>4 DEF IsRecursive
<1>7. f = [n \in 0..N |-> IF n = 0 THEN start ELSE Gives(f[n - 1], events[n])]
  <2> HIDE DEF start
  <2> QED BY <1>5, <1>6, SMTT(40)
<1>8. F = [n \in 0..N |-> IF n = 0 THEN start ELSE Gives(F[n - 1], events[n])]
  <2>1. f = [n \in 0..N |-> IF n = 0 THEN [out |-> <<>>, active |-> NoTool]
               ELSE [out    |-> f[n - 1].out \o Process(events[n], f[n - 1].active),
                     active |-> ActiveAfter(events[n], f[n - 1].active)]]
    BY <1>7 DEF Gives
  <2> QED BY <2>1, ZenonT(60) DEF GivenUpTo, N, Gives
<1> HIDE DEF F, start
<1> DEFINE T == {n \in 0..N : F[n] \in S}
<1>9. 0 \in T /\ F[0] = start
  <2>1. 0 \in 0..N
    BY <1>1
  <2> QED BY <1>4, <1>8, <2>1
<1>10. ASSUME NEW n \in 1..N
       PROVE  F[n] = Gives(F[n - 1], events[n]) /\ (n - 1 \in T => n \in T)
  <2>1. n \in 0..N /\ n # 0 /\ (n - 1 \in T => F[n - 1] \in S)
    BY <1>1
  <2> QED BY <1>2, <1>8, <2>1
<1>11. \A n \in 0..N : n \in T
  <2> HIDE DEF T
  <2> QED BY <1>1, <1>9, <1>10, InductionUpTo
<1> QED BY <1>9, <1>10, <1>11 DEF F, S, N, start

(* One event more.                                                         *)
LEMMA GivenMore ==
  ASSUME NEW events \in Seq(Lines), NEW e \in Lines
  PROVE  /\ Given(events) \in Givens
         /\ Given(Append(events, e)).out = Given(events).out \o Process(e, Given(events).active)
         /\ Given(Append(events, e)).active = ActiveAfter(e, Given(events).active)
<1> DEFINE N == Len(events)
           more == Append(events, e)
           F == GivenUpTo(events)
           G == GivenUpTo(more)
           T == {n \in 0..N : G[n] = F[n]}
<1>1. /\ N \in Nat /\ more \in Seq(Lines) /\ Len(more) = N + 1 /\ more[N + 1] = e
      /\ \A n \in 1..N : more[n] = events[n]
  BY AppendProperties, LenProperties
<1>2. /\ F[0] = [out |-> <<>>, active |-> NoTool] /\ Given(events) = F[N]
      /\ \A n \in 1..N : F[n] = Gives(F[n - 1], events[n])
      /\ \A n \in 0..N : F[n] \in Givens
  BY GivenDefined DEF Given
<1>3. /\ G[0] = [out |-> <<>>, active |-> NoTool] /\ Given(more) = G[N + 1]
      /\ \A n \in 1..(N + 1) : G[n] = Gives(G[n - 1], more[n])
  <2> HIDE DEF more, N
  <2>1. /\ G[0] = [out |-> <<>>, active |-> NoTool] /\ Given(more) = G[Len(more)]
        /\ \A n \in 1..Len(more) : G[n] = Gives(G[n - 1], more[n])
    BY <1>1, GivenDefined DEF Given
  <2> HIDE DEF G
  <2> QED BY <1>1, <2>1
<1> HIDE DEF N, more, F, G
<1>4. 0 \in T
  BY <1>1, <1>2, <1>3
<1>5. ASSUME NEW n \in 1..N, n - 1 \in T
      PROVE  n \in T
  <2>1. n \in 0..N /\ n \in 1..(N + 1) /\ G[n - 1] = F[n - 1]
    BY <1>1, <1>5
  <2> QED BY <1>1, <1>2, <1>3, <2>1
<1>6. \A n \in 0..N : n \in T
  <2> HIDE DEF T
  <2> QED BY <1>1, <1>4, <1>5, InductionUpTo
<1>7. N \in 0..N /\ N + 1 \in 1..(N + 1) /\ (N + 1) - 1 = N /\ G[N] = F[N]
  BY <1>1, <1>6
<1>8. Given(more) = Gives(Given(events), e) /\ Given(events) \in Givens
  BY <1>1, <1>2, <1>3, <1>7
<1>9. PICK g \in Givens : g = Given(events) /\ Given(Append(events, e)) = Gives(g, e)
  BY <1>8 DEF more
<1>10. Gives(g, e).out = g.out \o Process(e, g.active) /\ Gives(g, e).active = ActiveAfter(e, g.active)
  BY DEF Gives
<1> QED BY <1>9, <1>10

(* The parser, had it been given the whole text in one piece.              *)
AtOnce == IF closed THEN Closed(Fed(NewParser, text)) ELSE Fed(NewParser, text)

(* The events of the stream that the caller has been given.                *)
Streamed == IF phase = "Ended" THEN SubSeq(out, 1, Len(out) - 1) ELSE out

(* The caller is given the events that the parser would have found in the  *)
(* whole text, but for those it has not been given yet.                    *)
CutsUnseen ==
  status = 200 /\ ~single =>
    LET found == AtOnce.pending
        count == Len(found) - Len(parser.pending)
    IN /\ count >= 0 /\ parser.pending = SubSeq(found, count + 1, Len(found))
       /\ Streamed = Given(SubSeq(found, 1, count)).out

(* Before the answer there is nothing of it.                               *)
Untouched == rest \in Texts /\ text = <<>> /\ ~closed /\ parser = NewParser /\ active = NoTool /\ out = <<>>

(* The text in one piece gives the events of done, then those the parser   *)
(* has, and the caller has been given those of done.                       *)
Agrees(done) ==
  /\ Ahead(AtOnce, parser, done)
  /\ Streamed = Given(done).out
  /\ phase # "Ended" => active = Given(done).active

(* How many events that are is not in the invariant: some events done      *)
(* agree.                                                                  *)
CutsInv ==
  /\ ClientTyped /\ text \in Texts /\ closed \in BOOLEAN
  /\ phase \in {"Posting", "Sleeping"} => status # 200 /\ Untouched
  /\ phase = "Panicked" => status # 200
  /\ status = 200 /\ ~single => \E done \in Seq(Lines) : Agrees(done)

(* The types of the parser at the beginning.                               *)
LEMMA NewParserTyped == NewParser \in Parsers
BY EmptySeq DEF NewParser, Parsers, Texts, Types

(* No event gives nothing.                                                 *)
LEMMA GivenNothing == Given(<<>>) = [out |-> <<>>, active |-> NoTool]
<1>1. PICK none \in Seq(Lines) : none = <<>>
  BY EmptySeq
<1>2. Len(none) = 0 /\ GivenUpTo(none)[0] = [out |-> <<>>, active |-> NoTool]
  BY <1>1, GivenDefined
<1> QED BY <1>1, <1>2 DEF Given

(* What the invariant says, with the number of events given.               *)
LEMMA CutsInvSuffices == CutsInv => CutsUnseen
<1> SUFFICES ASSUME CutsInv, status = 200, ~single
             PROVE  LET found == AtOnce.pending
                        count == Len(found) - Len(parser.pending)
                    IN /\ count >= 0
                       /\ parser.pending = SubSeq(found, count + 1, Len(found))
                       /\ Streamed = Given(SubSeq(found, 1, count)).out
  BY DEF CutsUnseen
<1>1. PICK done \in Seq(Lines) : Agrees(done)
  BY DEF CutsInv
<1>2. parser \in Parsers
  BY DEF CutsInv, ClientTyped
<1>3. AtOnce.pending = done \o parser.pending
  BY <1>1, <1>2, AheadFields DEF Agrees
<1>4. PICK left \in Seq(Lines) : left = parser.pending
  BY <1>2 DEF Parsers
<1>5. PICK found \in Seq(Lines) : found = AtOnce.pending /\ found = done \o left
  BY <1>3, <1>4, ConcatProperties
<1>6. /\ Len(found) = Len(done) + Len(left) /\ Len(done) \in Nat /\ Len(left) \in Nat
      /\ Len(found) - Len(left) = Len(done)
  BY <1>5, ConcatProperties, LenProperties
<1>7. SubSeq(found, 1, Len(done)) = done
  BY <1>5, <1>6
<1>8. SubSeq(found, Len(done) + 1, Len(found)) = left
  BY <1>5, <1>6
<1>9. /\ Len(found) - Len(left) >= 0
      /\ left = SubSeq(found, (Len(found) - Len(left)) + 1, Len(found))
      /\ SubSeq(found, 1, Len(found) - Len(left)) = done
  BY <1>6, <1>7, <1>8
<1> QED BY <1>1, <1>4, <1>5, <1>9 DEF Agrees

(* Initially there is no text.                                             *)
LEMMA CutsInvInit == Init => CutsInv
<1> SUFFICES ASSUME Init
             PROVE  CutsInv
  OBVIOUS
<1>1. NewParser \in Parsers /\ <<>> \in Texts /\ <<>> \in Seq(Events)
  BY NewParserTyped, EmptySeq DEF Texts
<1>2. ClientTyped
  <2>1. single \in BOOLEAN
    BY BackendAssumption DEF Init
  <2>2. rest = <<>> /\ parser = NewParser /\ active = NoTool /\ out = <<>>
    BY DEF Init
  <2>3. NoTool \in [id : Nat, input_json : Texts]
    BY <1>1 DEF NoTool
  <2> QED BY <1>1, <2>1, <2>2, <2>3 DEF ClientTyped
<1>3. phase = "Posting" /\ status = 0 /\ text = <<>> /\ closed = FALSE
  BY DEF Init
<1>4. Untouched
  BY <1>1, <1>3 DEF Init, Untouched
<1>5. text \in Texts
  BY <1>1, <1>3
<1>6. closed \in BOOLEAN
  BY <1>3
<1>7. status # 200 /\ phase # "Panicked"
  BY <1>3
<1> QED BY <1>2, <1>4, <1>5, <1>6, <1>7 DEF CutsInv

(* The end of the answer, whatever it is.                                  *)
LEMMA EndIsUnseen ==
  ASSUME CutsInv, ClientTyped', phase = "Reading", NEW event \in Events, End(event),
         UNCHANGED <<single, status, text, closed, parser, active>>
  PROVE  CutsInv'
<1>1. phase' = "Ended" /\ out' = Append(out, event) /\ out \in Seq(Events)
  BY DEF End, CutsInv, ClientTyped
<1>2. Streamed' = out /\ Streamed = out
  BY <1>1, FrontOfAppend DEF Streamed
<1>3. AtOnce' = AtOnce
  BY DEF AtOnce
<1>4. ASSUME NEW done \in Seq(Lines), Agrees(done)
      PROVE  Agrees(done)'
  BY <1>1, <1>2, <1>3, <1>4 DEF Agrees
<1> QED BY <1>1, <1>4 DEF CutsInv

(* A chunk more: it is the same to take it alone and after the others.     *)
LEMMA ReceiveUnseen ==
  ASSUME CutsInv, ClientTyped', NEW n \in 1..Len(rest), Receive(n)
  PROVE  CutsInv'
<1>1. /\ phase = "Reading" /\ ~single /\ parser.pending = <<>> /\ ~closed
      /\ UNCHANGED <<phase, single, status, closed, active, out>>
  BY DEF Receive, Polls, http
<1>2. parser \in Parsers /\ rest \in Texts /\ text \in Texts
  BY DEF CutsInv, ClientTyped
<1>3. SubSeq(rest, 1, n) \in Texts
  <2>1. Len(rest) \in Nat /\ \A i \in 1..Len(rest) : rest[i] \in Pieces
    BY <1>2, LenProperties, ElementOfSeq DEF Texts
  <2>2. \A i \in 1..n : rest[i] \in Pieces
    BY <2>1
  <2> QED BY <2>2, SubSeqProperties DEF Texts
<1>4. PICK chars \in Texts : chars = Decoded(SubSeq(rest, 1, n))
  BY <1>3, DecodedTyped
<1>5. text' = text \o chars /\ parser' = Fed(parser, chars) /\ text' \in Texts
  <2>1. text' = text \o chars /\ parser' = Fed(parser, chars)
    BY <1>4 DEF Receive
  <2> QED BY <1>2, <2>1, ConcatProperties DEF Texts
<1>6. AtOnce = Fed(NewParser, text) /\ AtOnce' = Fed(NewParser, text')
  BY <1>1 DEF AtOnce
<1>7. AtOnce' = Fed(AtOnce, chars)
  BY <1>2, <1>4, <1>5, <1>6, NewParserTyped, FedConcat
<1>8. ASSUME NEW done \in Seq(Lines), Agrees(done)
      PROVE  Agrees(done)'
  <2>1. Ahead(AtOnce, parser, done)
    BY <1>8 DEF Agrees
  <2>2. Ahead(Fed(AtOnce, chars), Fed(parser, chars), done)
    BY <1>2, <1>4, <2>1, FedAhead
  <2>3. Ahead(AtOnce, parser, done)'
    BY <1>5, <1>7, <2>2 DEF Ahead
  <2>4. Streamed' = Streamed
    BY <1>1 DEF Streamed
  <2> QED BY <1>1, <1>8, <2>3, <2>4 DEF Agrees
<1> QED BY <1>1, <1>5, <1>8 DEF CutsInv

(* The end of the body.                                                    *)
LEMMA CloseUnseen ==
  ASSUME CutsInv, ClientTyped', Close
  PROVE  CutsInv'
<1>1. /\ phase = "Reading" /\ ~closed /\ closed' = TRUE /\ parser' = Closed(parser)
      /\ UNCHANGED <<phase, single, status, text, active, out>>
  BY DEF Close, Polls, http
<1>2. parser \in Parsers /\ AtOnce' = Closed(AtOnce)
  BY <1>1 DEF CutsInv, ClientTyped, AtOnce
<1>3. ASSUME NEW done \in Seq(Lines), Agrees(done)
      PROVE  Agrees(done)'
  <2>1. Ahead(Closed(AtOnce), Closed(parser), done)
    BY <1>2, <1>3, ClosedAhead DEF Agrees
  <2>2. Ahead(AtOnce, parser, done)'
    BY <1>1, <1>2, <2>1 DEF Ahead
  <2>3. Streamed' = Streamed
    BY <1>1 DEF Streamed
  <2> QED BY <1>1, <1>3, <2>2, <2>3 DEF Agrees
<1> QED BY <1>1, <1>3 DEF CutsInv

(* An event is given to the caller.                                        *)
LEMMA DeliverUnseen ==
  ASSUME CutsInv, ClientTyped', Deliver
  PROVE  CutsInv'
<1>1. /\ phase = "Reading" /\ parser.pending # <<>>
      /\ parser' = [parser EXCEPT !.pending = Tail(@)]
      /\ out' = out \o Process(Head(parser.pending), active)
      /\ active' = ActiveAfter(Head(parser.pending), active)
      /\ UNCHANGED <<phase, single, status, text, closed>>
  BY DEF Deliver, http
<1>2. parser \in Parsers /\ parser.pending \in Seq(Lines) /\ parser' \in Parsers
  BY DEF CutsInv, ClientTyped, Parsers
<1>3. PICK e \in Lines, left \in Seq(Lines) :
        /\ e = Head(parser.pending) /\ left = Tail(parser.pending)
        /\ parser.pending = <<e>> \o left
  <2>1. PICK waiting \in Seq(Lines) : waiting = parser.pending /\ waiting # <<>>
    BY <1>1, <1>2
  <2>2. /\ Head(waiting) \in Lines /\ Tail(waiting) \in Seq(Lines)
        /\ waiting = <<Head(waiting)>> \o Tail(waiting)
    BY <2>1
  <2> QED BY <2>1, <2>2
<1>4. AtOnce' = AtOnce /\ Streamed = out /\ Streamed' = out'
  BY <1>1 DEF AtOnce, Streamed
<1>5. ASSUME NEW done \in Seq(Lines), Agrees(done)
      PROVE  Append(done, e) \in Seq(Lines) /\ Agrees(Append(done, e))'
  <2>1. PICK more \in Seq(Lines) : more = Append(done, e)
    BY AppendProperties
  <2>2. done \o (<<e>> \o left) = more \o left
    BY <2>1
  <2>3. /\ AtOnce \in Parsers /\ AtOnce.pending = done \o parser.pending
        /\ AtOnce.line_buf = parser.line_buf /\ AtOnce.event_type = parser.event_type
        /\ AtOnce.data = parser.data
    BY <1>2, <1>5, AheadFields DEF Agrees
  <2>4. /\ parser'.pending = left /\ parser'.line_buf = parser.line_buf
        /\ parser'.event_type = parser.event_type /\ parser'.data = parser.data
    BY <1>1, <1>2, <1>3 DEF Parsers
  <2>5. AtOnce.pending = more \o left
    BY <1>3, <2>2, <2>3
  <2>6. Ahead(AtOnce, parser', more)
    BY <1>2, <2>3, <2>4, <2>5, AheadIf
  <2>7. Given(more).out = Given(done).out \o Process(e, Given(done).active)
    BY <2>1, GivenMore
  <2>8. Given(more).active = ActiveAfter(e, Given(done).active)
    BY <2>1, GivenMore
  <2>9. out = Given(done).out /\ active = Given(done).active
    BY <1>1, <1>4, <1>5 DEF Agrees
  <2>10. out' = Given(more).out /\ active' = Given(more).active
    BY <1>1, <1>3, <2>7, <2>8, <2>9
  <2>11. Agrees(more)'
    BY <1>4, <2>6, <2>10 DEF Agrees, Ahead
  <2> QED BY <2>1, <2>11
<1>6. status' = 200 /\ ~single' => \E done \in Seq(Lines) : Agrees(done)'
  <2>1. SUFFICES ASSUME status = 200, ~single
                 PROVE  \E done \in Seq(Lines) : Agrees(done)'
    BY <1>1
  <2>2. PICK done \in Seq(Lines) : Agrees(done)
    BY <2>1 DEF CutsInv
  <2> QED BY <1>5, <2>2
<1>7. text' \in Texts /\ closed' \in BOOLEAN /\ phase' = "Reading"
  BY <1>1 DEF CutsInv
<1> QED BY <1>6, <1>7 DEF CutsInv

(* Every step of the client keeps the invariant.                           *)
LEMMA CutsStep ==
  ASSUME CutsInv, [Next]_vars
  PROVE  CutsInv'
<1>1. ClientTyped'
  BY ClientKeepsTypes DEF CutsInv
<1>2. CASE PostFails
  <2>1. phase' = "Ended" /\ status' = 0 /\ UNCHANGED <<text, closed>>
    BY <1>2 DEF PostFails, End, stream
  <2> QED BY <1>1, <2>1 DEF CutsInv
<1>3. CASE \E answer \in Status, delay \in RetryAfter : PostRefused(answer, delay)
  <2>1. PICK answer \in Status, delay \in RetryAfter : PostRefused(answer, delay)
    BY <1>3
  <2>2. /\ phase = "Posting" /\ status' = answer /\ answer # 200
        /\ UNCHANGED <<single, rest, text, closed, parser, active>>
    BY <2>1 DEF PostRefused, stream
  <2>3. \/ phase' \in {"Panicked", "Sleeping"} /\ out' = out
        \/ phase' = "Ended"
    BY <2>1 DEF PostRefused, Retries, End
  <2> QED BY <1>1, <2>2, <2>3 DEF CutsInv, Untouched
<1>4. CASE \E body \in Bodies : PostAccepted(body)
  <2>1. /\ phase = "Posting" /\ phase' = "Reading"
        /\ UNCHANGED <<single, text, closed, parser, active, out>>
    BY <1>4 DEF PostAccepted
  <2>2. Untouched
    BY <2>1 DEF CutsInv
  <2>3. PICK none \in Seq(Lines) : none = <<>>
    BY EmptySeq
  <2>4. AtOnce' = NewParser /\ NewParser \in Parsers
    <3>1. PICK nothing \in Texts : nothing = <<>> /\ Len(nothing) = 0
      BY EmptySeq DEF Texts
    <3>2. Fed(NewParser, nothing) = NewParser
      BY <3>1, NewParserTyped, FedDefined
    <3> QED BY <2>1, <2>2, <3>1, <3>2, NewParserTyped DEF AtOnce, Untouched
  <2>5. Ahead(NewParser, NewParser, none)
    <3>1. NewParser.pending = <<>> /\ none \o <<>> = <<>>
      BY <2>3, ConcatEmptySeq DEF NewParser
    <3> QED BY <2>3, <2>4, <3>1, AheadIf
  <2>6. parser' = NewParser /\ out' = <<>> /\ active' = NoTool
    BY <2>1, <2>2 DEF Untouched
  <2>7. Given(none).out = <<>> /\ Given(none).active = NoTool
    BY <2>3, GivenNothing
  <2>8. Agrees(none)'
    BY <2>1, <2>4, <2>5, <2>6, <2>7 DEF Agrees, Streamed, Ahead
  <2> QED BY <1>1, <2>1, <2>8 DEF CutsInv
<1>5. CASE \E n \in 1..Len(rest) : Receive(n)
  BY <1>1, <1>5, ReceiveUnseen
<1>6. CASE ReadSingle
  <2>1. single' /\ phase' = "Ended" /\ UNCHANGED <<text, closed>>
    BY <1>6 DEF ReadSingle, End, http, stream
  <2> QED BY <1>1, <2>1 DEF CutsInv
<1>7. CASE Close
  BY <1>1, <1>7, CloseUnseen
<1>8. CASE Deliver
  BY <1>1, <1>8, DeliverUnseen
<1>9. CASE Break \/ Finish
  <2>1. PICK event \in {Error, Done} : End(event)
    BY <1>9 DEF Break, Finish
  <2>2. event \in Events
    <3>1. <<>> \in Texts
      BY EmptySeq DEF Texts
    <3>2. Event("Error", 0, <<>>) \in Events /\ Event("Done", 0, <<>>) \in Events
      BY <3>1 DEF Event, Events, Kinds
    <3> QED BY <2>1, <3>2 DEF Error, Done
  <2>3. phase = "Reading" /\ UNCHANGED <<single, status, text, closed, parser, active>>
    BY <1>9 DEF Break, Finish, Polls, http, stream
  <2> QED BY <1>1, <2>1, <2>2, <2>3, EndIsUnseen
<1>10. CASE Wake
  BY <1>1, <1>10 DEF Wake, http, stream, CutsInv, Untouched
<1>11. CASE UNCHANGED vars
  <2>1. UNCHANGED <<phase, single, status, rest, text, closed, parser, active, out>>
    BY <1>11 DEF vars
  <2>2. AtOnce' = AtOnce /\ Streamed' = Streamed
    BY <2>1 DEF AtOnce, Streamed
  <2>3. ASSUME NEW done \in Seq(Lines), Agrees(done)
        PROVE  Agrees(done)'
    BY <2>1, <2>2, <2>3 DEF Agrees, Ahead
  <2> QED BY <1>1, <2>1, <2>3 DEF CutsInv, Untouched
<1> QED BY <1>2, <1>3, <1>4, <1>5, <1>6, <1>7, <1>8, <1>9, <1>10, <1>11 DEF Next

(* The events the caller is given are those of the text in one piece, for  *)
(* any body, however it is cut, and wherever it ends or breaks: no state of*)
(* the parser or the processor depends on where a chunk has ended.         *)
THEOREM CutsDoNotMatter == AnswerSpec => []CutsUnseen
<1>1. AnswerInit => CutsInv
  BY CutsInvInit DEF AnswerInit
<1>2. CutsInv /\ [AnswerNext]_all => CutsInv'
  <2>1. [AnswerNext]_all => [Next]_vars
    BY DEF AnswerNext, Answering, HandleChunk, HandleDone, HandleVerdict, HandleTick, Cancel,
           Decided, ApproveKey, RefuseKey, TypeKey, HandleOutput, HandleChild, JudgePanics, all
  <2> QED BY <2>1, CutsStep
<1> QED BY <1>1, <1>2, CutsInvSuffices, PTL DEF AnswerSpec

-----------------------------------------------------------------------------
(* What there can be on a screen.                                           *)
ItemKinds == {"spinner", "output", "child", "thought", "text", "error", "footer", "warning",
              "denied", "blocked", "risk", "safe", "judging", "verdict", "prompt", "typed",
              "edit", "cancelled", "skipped", "pty error"}
Labels  == {"", "yes", "other", "command"}
Shown   == Labels \cup Pieces \cup Texts
Items   == [kind : ItemKinds, piece : Shown]
Screens == [above : Seq(Items), line : Seq(Items), spinner_active : BOOLEAN]

(* What can be seen of the kinds K above the line and on it.                *)
Above(s, kinds)  == OfKinds(s.above, kinds)
OnLine(s, kinds) == OfKinds(s.line, kinds)

(* What is left of the cursor's line when a spinner has been erased.       *)
Left(s) == IF s.spinner_active THEN <<>> ELSE s.line

-----------------------------------------------------------------------------
(* The fields of a screen.                                                  *)
LEMMA ScreenFields ==
  ASSUME NEW s \in Screens
  PROVE  /\ s.above \in Seq(Items) /\ s.line \in Seq(Items) /\ s.spinner_active \in BOOLEAN
         /\ Left(s) \in Seq(Items)
         /\ "above" \in DOMAIN s /\ "line" \in DOMAIN s /\ "spinner_active" \in DOMAIN s
BY EmptySeq DEF Screens, Left

(* What each of the sequences of the renderer does to the lines above, to   *)
(* the cursor's line and to the spinner: \r\x1b[K,                          *)
LEMMA EraseShows ==
  ASSUME NEW s \in Screens
  PROVE  /\ Erase(s) \in Screens
         /\ Erase(s).above = s.above /\ Erase(s).line = <<>>
         /\ Erase(s).spinner_active = s.spinner_active
<1>1. <<>> \in Seq(Items)
  BY EmptySeq
<1> QED BY <1>1, ScreenFields DEF Screens, Erase

(* \r\n,                                                                    *)
LEMMA NextLineShows ==
  ASSUME NEW s \in Screens
  PROVE  /\ NextLine(s) \in Screens
         /\ NextLine(s).above = s.above \o s.line /\ NextLine(s).line = <<>>
         /\ NextLine(s).spinner_active = s.spinner_active
<1>1. s.above \o s.line \in Seq(Items) /\ <<>> \in Seq(Items)
  BY ScreenFields, ConcatProperties, EmptySeq
<1>2. /\ NextLine(s).above = s.above \o s.line /\ NextLine(s).line = <<>>
      /\ NextLine(s).spinner_active = s.spinner_active
  BY ScreenFields DEF NextLine
<1>3. NextLine(s) \in Screens
  BY <1>1, ScreenFields DEF Screens, NextLine
<1> QED BY <1>2, <1>3

(* an item on the line,                                                     *)
LEMMA PutShows ==
  ASSUME NEW s \in Screens, NEW item \in Items
  PROVE  /\ Put(s, item) \in Screens
         /\ Put(s, item).above = s.above /\ Put(s, item).line = Append(s.line, item)
         /\ Put(s, item).spinner_active = s.spinner_active
<1>1. Append(s.line, item) \in Seq(Items)
  BY ScreenFields, AppendProperties
<1>2. /\ Put(s, item).above = s.above /\ Put(s, item).line = Append(s.line, item)
      /\ Put(s, item).spinner_active = s.spinner_active
  BY ScreenFields DEF Put
<1>3. Put(s, item) \in Screens
  BY <1>1, ScreenFields DEF Screens, Put
<1> QED BY <1>2, <1>3

(* emit_clear_spinner,                                                      *)
LEMMA ClearSpinnerShows ==
  ASSUME NEW s \in Screens
  PROVE  /\ ClearSpinner(s) \in Screens
         /\ ClearSpinner(s).above = s.above /\ ClearSpinner(s).line = Left(s)
         /\ ClearSpinner(s).spinner_active = FALSE
<1>1. CASE s.spinner_active
  <2>1. /\ Erase(s) \in Screens /\ Erase(s).above = s.above /\ Erase(s).line = <<>>
    BY EraseShows
  <2>2. ClearSpinner(s) = [Erase(s) EXCEPT !.spinner_active = FALSE] /\ Left(s) = <<>>
    BY <1>1 DEF ClearSpinner, Left
  <2>3. \A t \in Screens : /\ [t EXCEPT !.spinner_active = FALSE] \in Screens
                           /\ [t EXCEPT !.spinner_active = FALSE].above = t.above
                           /\ [t EXCEPT !.spinner_active = FALSE].line = t.line
                           /\ [t EXCEPT !.spinner_active = FALSE].spinner_active = FALSE
    BY DEF Screens
  <2> QED BY <2>1, <2>2, <2>3
<1>2. CASE ~s.spinner_active
  BY <1>2, ScreenFields DEF ClearSpinner, Left
<1> QED BY <1>1, <1>2

(* emit_clear_line,                                                         *)
LEMMA ClearLineShows ==
  ASSUME NEW s \in Screens
  PROVE  /\ ClearLine(s) \in Screens
         /\ ClearLine(s).above = s.above /\ ClearLine(s).line = <<>>
         /\ ClearLine(s).spinner_active = FALSE
BY ClearSpinnerShows, EraseShows DEF ClearLine

(* and emit_stream_end.                                                     *)
LEMMA StreamEndShows ==
  ASSUME NEW s \in Screens
  PROVE  /\ StreamEnd(s) \in Screens
         /\ StreamEnd(s).above = s.above \o Left(s) /\ StreamEnd(s).line = <<>>
         /\ StreamEnd(s).spinner_active = FALSE
BY ClearSpinnerShows, NextLineShows DEF StreamEnd

(* The first item of a line.                                                *)
LEMMA AppendFirst ==
  ASSUME NEW S, NEW item \in S
  PROVE  Append(<<>>, item) = <<item>>
OBVIOUS

(* A line of one item is one item more above, once it has ended.            *)
LEMMA SingletonLine ==
  ASSUME NEW S, NEW seq \in Seq(S), NEW item \in S
  PROVE  seq \o Append(<<>>, item) = Append(seq, item) /\ Append(<<>>, item) = <<item>>
<1>1. Append(<<>>, item) = <<item>>
  BY EmptySeq
<1> QED BY <1>1, AppendIsConcat

(* A line in the place of the cursor's,                                     *)
LEMMA InPlaceShows ==
  ASSUME NEW s \in Screens, NEW item \in Items
  PROVE  /\ InPlace(s, item) \in Screens
         /\ InPlace(s, item).above = Append(s.above, item) /\ InPlace(s, item).line = <<>>
         /\ InPlace(s, item).spinner_active = FALSE
<1>1. /\ Put(ClearLine(s), item) \in Screens
      /\ Put(ClearLine(s), item).above = s.above
      /\ Put(ClearLine(s), item).line = Append(<<>>, item)
      /\ Put(ClearLine(s), item).spinner_active = FALSE
  <2> DEFINE t == ClearLine(s)
  <2>1. t \in Screens /\ t.above = s.above /\ t.line = <<>> /\ t.spinner_active = FALSE
    BY ClearLineShows
  <2> HIDE DEF t
  <2>2. /\ Put(t, item) \in Screens /\ Put(t, item).above = s.above
        /\ Put(t, item).line = Append(<<>>, item) /\ Put(t, item).spinner_active = FALSE
    BY <2>1, PutShows
  <2> QED BY <2>2 DEF t
<1>2. s.above \o Append(<<>>, item) = Append(s.above, item)
  BY ScreenFields, SingletonLine
<1> QED BY <1>1, <1>2, NextLineShows DEF InPlace

(* a line below it,                                                         *)
LEMMA BelowShows ==
  ASSUME NEW s \in Screens, NEW item \in Items
  PROVE  /\ Below(s, item) \in Screens
         /\ Below(s, item).above = Append(s.above \o Left(s), item) /\ Below(s, item).line = <<>>
         /\ Below(s, item).spinner_active = FALSE
<1> DEFINE t == NextLine(ClearSpinner(s))
<1>1. /\ t \in Screens /\ t.above = s.above \o Left(s) /\ t.line = <<>>
      /\ t.spinner_active = FALSE
  BY ClearSpinnerShows, NextLineShows
<1>2. /\ Put(t, item) \in Screens /\ Put(t, item).above = s.above \o Left(s)
      /\ Put(t, item).line = Append(<<>>, item) /\ Put(t, item).spinner_active = FALSE
  <2> HIDE DEF t
  <2> QED BY <1>1, PutShows
<1>3. (s.above \o Left(s)) \o Append(<<>>, item) = Append(s.above \o Left(s), item)
  BY ScreenFields, ConcatProperties, SingletonLine
<1> QED BY <1>2, <1>3, NextLineShows DEF Below

(* a line that is not ended,                                                *)
LEMMA AskShows ==
  ASSUME NEW s \in Screens, NEW kind, Item(kind, "") \in Items
  PROVE  /\ Ask(s, kind) \in Screens
         /\ Ask(s, kind).above = s.above /\ Ask(s, kind).line = <<Item(kind, "")>>
         /\ Ask(s, kind).spinner_active = FALSE
<1> DEFINE item == Item(kind, "")
           t == ClearLine(s)
<1>1. t \in Screens /\ t.above = s.above /\ t.line = <<>> /\ t.spinner_active = FALSE
  BY ClearLineShows
<1>2. item \in Items /\ Ask(s, kind) = Put(t, item)
  BY DEF Ask
<1> HIDE DEF item, t
<1>3. Append(<<>>, item) = <<item>>
  BY <1>2, AppendFirst
<1> QED BY <1>1, <1>2, <1>3, PutShows DEF item

(* and the spinner.                                                         *)
LEMMA SpinnerShows ==
  ASSUME NEW s \in Screens, Spinner \in Items
  PROVE  /\ SpinnerInitial(s) \in Screens /\ SpinnerInitial(s).above = s.above \o s.line
         /\ SpinnerInitial(s).line = <<Spinner>> /\ SpinnerInitial(s).spinner_active = TRUE
         /\ SpinnerTick(s) \in Screens /\ SpinnerTick(s).above = s.above
         /\ SpinnerTick(s).line = <<Spinner>> /\ SpinnerTick(s).spinner_active = TRUE
<1>1. ASSUME NEW t \in Screens, t.line = <<>>
      PROVE  /\ [Put(t, Spinner) EXCEPT !.spinner_active = TRUE] \in Screens
             /\ [Put(t, Spinner) EXCEPT !.spinner_active = TRUE].above = t.above
             /\ [Put(t, Spinner) EXCEPT !.spinner_active = TRUE].line = <<Spinner>>
             /\ [Put(t, Spinner) EXCEPT !.spinner_active = TRUE].spinner_active = TRUE
  <2>1. Append(<<>>, Spinner) = <<Spinner>>
    OBVIOUS
  <2>2. /\ Put(t, Spinner) \in Screens /\ Put(t, Spinner).above = t.above
        /\ Put(t, Spinner).line = <<Spinner>>
    BY <1>1, <2>1, PutShows
  <2>3. \A u \in Screens : /\ [u EXCEPT !.spinner_active = TRUE] \in Screens
                           /\ [u EXCEPT !.spinner_active = TRUE].above = u.above
                           /\ [u EXCEPT !.spinner_active = TRUE].line = u.line
                           /\ [u EXCEPT !.spinner_active = TRUE].spinner_active = TRUE
    BY DEF Screens
  <2> QED BY <2>2, <2>3
<1> QED BY <1>1, NextLineShows, EraseShows DEF SpinnerInitial, SpinnerTick

-----------------------------------------------------------------------------
(* What can be seen of some kinds.                                         *)

(* What can be seen of some kinds, of two parts of a screen;                *)
LEMMA OfKindsConcat ==
  ASSUME NEW s \in Seq(Items), NEW t \in Seq(Items), NEW K
  PROVE  /\ OfKinds(s \o t, K) = OfKinds(s, K) \o OfKinds(t, K)
         /\ OfKinds(s, K) \in Seq(Items)
<1> DEFINE P == {i \in 1..Len(s) : s[i].kind \in K}
           Q == {i \in 1..Len(t) : t[i].kind \in K}
           both == s \o t
           U == {i \in 1..Len(both) : both[i].kind \in K}
<1>1. /\ Len(s) \in Nat /\ Len(t) \in Nat /\ Len(both) = Len(s) + Len(t)
      /\ \A i \in 1..Len(s) : both[i] = s[i]
      /\ \A i \in 1..Len(t) : both[Len(s) + i] = t[i]
  BY ConcatProperties, LenProperties
<1> HIDE DEF both
<1>2. Shifted(P, U, 0, Len(s))
  BY <1>1 DEF Shifted
<1>3. Shifted(Q, U, Len(s), Len(t))
  BY <1>1 DEF Shifted
<1>4. Picked(both, U) = Picked(s, P) \o Picked(t, Q)
  <2> HIDE DEF U, P, Q
  <2> QED BY <1>2, <1>3, PickedConcat DEF both
<1>5. Picked(s, P) \in Seq(Items)
  <2>1. \A i \in 1..Len(s) : s[i] \in Items
    BY ElementOfSeq
  <2> HIDE DEF P
  <2> QED BY <1>1, <2>1, PickedLen
<1> QED BY <1>4, <1>5 DEF OfKinds, both

(* with one item more;                                                      *)
LEMMA OfKindsAppend ==
  ASSUME NEW s \in Seq(Items), NEW item \in Items, NEW K
  PROVE  OfKinds(Append(s, item), K) =
           IF item.kind \in K THEN Append(OfKinds(s, K), item) ELSE OfKinds(s, K)
<1> DEFINE P == {i \in 1..Len(s) : s[i].kind \in K}
           more == Append(s, item)
           Q == {i \in 1..Len(more) : more[i].kind \in K}
<1>1. /\ Len(s) \in Nat /\ Len(more) = Len(s) + 1 /\ more[Len(s) + 1] = item
      /\ \A i \in 1..Len(s) : more[i] = s[i]
  BY AppendProperties, LenProperties
<1> HIDE DEF more
<1>2. /\ \A i \in 1..Len(s) : i \in Q <=> i \in P
      /\ Len(s) + 1 \in Q <=> item.kind \in K
  BY <1>1
<1>3. Picked(more, Q) = IF Len(s) + 1 \in Q THEN Append(Picked(s, P), item) ELSE Picked(s, P)
  <2> HIDE DEF P, Q
  <2> QED BY <1>2, PickedAppend DEF more
<1> QED BY <1>2, <1>3 DEF OfKinds, more

(* when it is nothing;                                                      *)
LEMMA OfKindsNone ==
  ASSUME NEW s \in Seq(Items), NEW K
  PROVE  OfKinds(s, K) = <<>> <=> \A i \in 1..Len(s) : s[i].kind \notin K
<1> DEFINE P == {i \in 1..Len(s) : s[i].kind \in K}
<1>1. Picked(s, P) = <<>> <=> \A i \in 1..Len(s) : i \notin P
  <2> HIDE DEF P
  <2> QED BY PickedNothing
<1> QED BY <1>1 DEF OfKinds

(* and of one item or none.                                                 *)
LEMMA OfKindsFew ==
  ASSUME NEW K
  PROVE  /\ OfKinds(<<>>, K) = <<>>
         /\ \A item \in Items : OfKinds(<<item>>, K) = IF item.kind \in K THEN <<item>> ELSE <<>>
<1>1. PICK none \in Seq(Items) : none = <<>> /\ Len(none) = 0
  BY EmptySeq
<1>2. OfKinds(none, K) = <<>>
  <2>1. \A i \in 1..Len(none) : none[i].kind \notin K
    BY <1>1
  <2> QED BY <2>1, OfKindsNone
<1>3. ASSUME NEW item \in Items
      PROVE  OfKinds(<<item>>, K) = IF item.kind \in K THEN <<item>> ELSE <<>>
  <2>1. Append(<<>>, item) = <<item>>
    OBVIOUS
  <2>2. Append(none, item) = <<item>>
    BY <1>1, <2>1
  <2>3. OfKinds(Append(none, item), K) = IF item.kind \in K THEN Append(OfKinds(none, K), item)
                                         ELSE OfKinds(none, K)
    BY OfKindsAppend
  <2> QED BY <1>2, <2>1, <2>2, <2>3
<1> QED BY <1>1, <1>2, <1>3

(* What a command can be.                                                   *)
Commanded == {"command"} \cup Texts

(* An item of a kind, and its piece.                                        *)
LEMMA ItemTyped ==
  ASSUME NEW kind \in ItemKinds, NEW piece \in Shown
  PROVE  Item(kind, piece) \in Items /\ Item(kind, piece).kind = kind
         /\ Item(kind, piece).piece = piece
BY DEF Item, Items

(* The pieces of items,                                                     *)
LEMMA PiecesOfTyped ==
  ASSUME NEW items \in Seq(Items)
  PROVE  /\ PiecesOf(items) \in Seq(Shown) /\ Len(PiecesOf(items)) = Len(items)
         /\ \A i \in 1..Len(items) : PiecesOf(items)[i] = items[i].piece
         /\ items = <<>> <=> PiecesOf(items) = <<>>
<1>1. Len(items) \in Nat /\ \A i \in 1..Len(items) : items[i].piece \in Shown
  <2>1. \A i \in 1..Len(items) : items[i] \in Items
    BY ElementOfSeq
  <2> QED BY <2>1, LenProperties DEF Items
<1>2. PiecesOf(items) \in Seq(Shown) /\ Len(PiecesOf(items)) = Len(items)
  BY <1>1 DEF PiecesOf
<1>3. \A i \in 1..Len(items) : PiecesOf(items)[i] = items[i].piece
  BY DEF PiecesOf
<1>4. Len(items) = 0 <=> items = <<>>
  BY EmptySeq
<1>5. Len(PiecesOf(items)) = 0 <=> PiecesOf(items) = <<>>
  BY <1>2, EmptySeq
<1> QED BY <1>2, <1>3, <1>4, <1>5

(* and of one item more.                                                    *)
LEMMA PiecesOfAppend ==
  ASSUME NEW items \in Seq(Items), NEW item \in Items
  PROVE  PiecesOf(Append(items, item)) = Append(PiecesOf(items), item.piece)
<1> DEFINE more == Append(items, item)
           was == PiecesOf(items)
           now == PiecesOf(more)
<1>1. /\ more \in Seq(Items) /\ Len(more) = Len(items) + 1 /\ more[Len(items) + 1] = item
      /\ \A i \in 1..Len(items) : more[i] = items[i]
      /\ Len(items) \in Nat /\ item.piece \in Shown
  BY AppendProperties, LenProperties DEF Items
<1>2. /\ was \in Seq(Shown) /\ Len(was) = Len(items)
      /\ \A i \in 1..Len(items) : was[i] = items[i].piece
  BY PiecesOfTyped
<1>3. /\ now \in Seq(Shown) /\ Len(now) = Len(items) + 1
      /\ \A i \in 1..(Len(items) + 1) : now[i] = more[i].piece
  BY <1>1, PiecesOfTyped
<1> HIDE DEF more, was, now
<1>4. /\ Append(was, item.piece) \in Seq(Shown)
      /\ Len(Append(was, item.piece)) = Len(items) + 1
      /\ \A i \in 1..Len(items) : Append(was, item.piece)[i] = was[i]
      /\ Append(was, item.piece)[Len(items) + 1] = item.piece
  BY <1>1, <1>2, AppendProperties
<1>5. \A i \in 1..(Len(items) + 1) : now[i] = Append(was, item.piece)[i]
  BY <1>1, <1>2, <1>3, <1>4
<1>6. now = Append(was, item.piece)
  BY <1>3, <1>4, <1>5, SeqEqual
<1> QED BY <1>6 DEF now, was, more

-----------------------------------------------------------------------------
(* Text, as its recursive definition says.                                 *)
LEMMA TextDefined ==
  ASSUME NEW s \in Screens, NEW pieces \in Texts
  PROVE  /\ TextUpTo(s, pieces)[0] = ClearSpinner(s)
         /\ \A n \in 1..Len(pieces) :
              TextUpTo(s, pieces)[n] =
                IF pieces[n] = LineBreak THEN NextLine(TextUpTo(s, pieces)[n - 1])
                ELSE Put(TextUpTo(s, pieces)[n - 1], Item("text", pieces[n]))
         /\ \A n \in 0..Len(pieces) : TextUpTo(s, pieces)[n] \in Screens
<1> DEFINE N == Len(pieces)
           S == Screens
           More(t, n) == IF pieces[n] = LineBreak THEN NextLine(t)
                         ELSE Put(t, Item("text", pieces[n]))
           step == [q \in S \X (1..N) |-> More(q[1], q[2])]
           start == ClearSpinner(s)
           F == TextUpTo(s, pieces)
<1>1. N \in Nat /\ start \in S
  BY LenProperties, ClearSpinnerShows DEF Texts
<1>2. \A t \in S, n \in 1..N : More(t, n) \in S
  <2> SUFFICES ASSUME NEW t \in S, NEW n \in 1..N
               PROVE  More(t, n) \in S
    OBVIOUS
  <2>1. Item("text", pieces[n]) \in Items
    <3>1. pieces[n] \in Pieces
      BY ElementOfSeq DEF Texts
    <3> QED BY <3>1, ItemTyped DEF ItemKinds, Shown
  <2> QED BY <2>1, NextLineShows, PutShows
<1> HIDE DEF More
<1>3. step \in [S \X (1..N) -> S]
  <2> HIDE DEF S, N
  <2> QED BY <1>2
<1>4. PICK f \in [0..N -> S] : IsRecursive(f, N, start, step)
  <2> HIDE DEF step, S, N, start
  <2> QED BY <1>1, <1>3, Recursion
<1> HIDE DEF S, N, start
<1>5. ASSUME NEW n \in 0..N
      PROVE  f[n] = IF n = 0 THEN start ELSE More(f[n - 1], n)
  <2>1. n # 0 => n \in 1..N /\ n - 1 \in 0..N
    BY <1>1
  <2>2. n # 0 => f[n - 1] \in S
    BY <1>4, <2>1
  <2>3. n # 0 => f[n] = step[<<f[n - 1], n>>]
    <3> HIDE DEF step
    <3> QED BY <1>4, <2>1 DEF IsRecursive
  <2>4. n # 0 => f[n] = More(f[n - 1], n)
    BY <2>1, <2>2, <2>3
  <2> QED BY <1>4, <2>4 DEF IsRecursive
<1>6. f = [n \in 0..N |-> IF n = 0 THEN start ELSE More(f[n - 1], n)]
  BY <1>4, <1>5
<1>7. F = [n \in 0..N |-> IF n = 0 THEN start ELSE More(F[n - 1], n)]
  BY <1>6 DEF TextUpTo, N, start, More
<1> HIDE DEF F
<1>8. F[0] = start /\ \A n \in 1..N : F[n] = More(F[n - 1], n)
  <2>1. 0 \in 0..N /\ \A n \in 1..N : n \in 0..N /\ n # 0
    BY <1>1
  <2> QED BY <1>7, <2>1
<1> DEFINE T == {n \in 0..N : F[n] \in S}
<1>9. 0 \in T
  BY <1>1, <1>8
<1>10. ASSUME NEW n \in 1..N, n - 1 \in T
       PROVE  n \in T
  <2>1. n \in 0..N /\ F[n - 1] \in S
    BY <1>1, <1>10
  <2> QED BY <1>2, <1>8, <2>1
<1>11. \A n \in 0..N : n \in T
  <2> HIDE DEF T
  <2> QED BY <1>1, <1>9, <1>10, InductionUpTo
<1> QED BY <1>8, <1>11 DEF F, S, N, start, More

(* The lines of some commands, likewise.                                   *)
LEMMA ListedDefined ==
  ASSUME NEW s \in Screens, NEW label \in ItemKinds, NEW commands \in Seq(Commanded)
  PROVE  /\ ListedUpTo(s, label, commands)[0] = s
         /\ \A n \in 1..Len(commands) :
              ListedUpTo(s, label, commands)[n] =
                InPlace(ListedUpTo(s, label, commands)[n - 1], Item(label, commands[n]))
         /\ \A n \in 0..Len(commands) : ListedUpTo(s, label, commands)[n] \in Screens
         /\ \A n \in 1..Len(commands) : Item(label, commands[n]) \in Items
<1> DEFINE N == Len(commands)
           S == Screens
           More(t, n) == InPlace(t, Item(label, commands[n]))
           step == [q \in S \X (1..N) |-> More(q[1], q[2])]
           F == ListedUpTo(s, label, commands)
<1>1. N \in Nat /\ s \in S
  BY LenProperties
<1>a. \A n \in 1..N : Item(label, commands[n]) \in Items
  <2> SUFFICES ASSUME NEW n \in 1..N
               PROVE  Item(label, commands[n]) \in Items
    OBVIOUS
  <2>1. commands[n] \in Shown
    BY ElementOfSeq DEF Commanded, Shown, Labels
  <2> QED BY <2>1, ItemTyped
<1>2. \A t \in S, n \in 1..N : More(t, n) \in S
  BY <1>a, InPlaceShows
<1> HIDE DEF More
<1>3. step \in [S \X (1..N) -> S]
  <2> HIDE DEF S, N
  <2> QED BY <1>2
<1>4. PICK f \in [0..N -> S] : IsRecursive(f, N, s, step)
  <2> HIDE DEF step, S, N
  <2> QED BY <1>1, <1>3, Recursion
<1> HIDE DEF S, N
<1>5. ASSUME NEW n \in 0..N
      PROVE  f[n] = IF n = 0 THEN s ELSE More(f[n - 1], n)
  <2>1. n # 0 => n \in 1..N /\ n - 1 \in 0..N
    BY <1>1
  <2>2. n # 0 => f[n - 1] \in S
    BY <1>4, <2>1
  <2>3. n # 0 => f[n] = step[<<f[n - 1], n>>]
    <3> HIDE DEF step
    <3> QED BY <1>4, <2>1 DEF IsRecursive
  <2>4. n # 0 => f[n] = More(f[n - 1], n)
    BY <2>1, <2>2, <2>3
  <2> QED BY <1>4, <2>4 DEF IsRecursive
<1>6. f = [n \in 0..N |-> IF n = 0 THEN s ELSE More(f[n - 1], n)]
  BY <1>4, <1>5
<1>7. F = [n \in 0..N |-> IF n = 0 THEN s ELSE More(F[n - 1], n)]
  BY <1>6 DEF ListedUpTo, N, More
<1> HIDE DEF F
<1>8. F[0] = s /\ \A n \in 1..N : F[n] = More(F[n - 1], n)
  <2>1. 0 \in 0..N /\ \A n \in 1..N : n \in 0..N /\ n # 0
    BY <1>1
  <2> QED BY <1>7, <2>1
<1> DEFINE T == {n \in 0..N : F[n] \in S}
<1>9. 0 \in T
  BY <1>1, <1>8
<1>10. ASSUME NEW n \in 1..N, n - 1 \in T
       PROVE  n \in T
  <2>1. n \in 0..N /\ F[n - 1] \in S
    BY <1>1, <1>10
  <2> QED BY <1>2, <1>8, <2>1
<1>11. \A n \in 0..N : n \in T
  <2> HIDE DEF T
  <2> QED BY <1>1, <1>9, <1>10, InductionUpTo
<1> QED BY <1>a, <1>8, <1>11 DEF F, S, N, More

(* What can be seen of the kinds K on a screen of which the rest of the    *)
(* line is kept, too.                                                      *)
LEMMA VisibleParts ==
  ASSUME NEW s \in Screens, NEW K
  PROVE  /\ Visible(s, K) = Above(s, K) \o OnLine(s, K)
         /\ Visible(s, K) \in Seq(Items) /\ Above(s, K) \in Seq(Items) /\ OnLine(s, K) \in Seq(Items)
         /\ Visible(s, K) = <<>> <=> Above(s, K) = <<>> /\ OnLine(s, K) = <<>>
         /\ OnLine(s, K) = <<>> => Visible(s, K) = Above(s, K)
<1>1. /\ Visible(s, K) = Above(s, K) \o OnLine(s, K)
      /\ Above(s, K) \in Seq(Items) /\ OnLine(s, K) \in Seq(Items)
  <2>1. PICK a \in Seq(Items), l \in Seq(Items) : a = s.above /\ l = s.line
    BY ScreenFields
  <2>2. /\ OfKinds(a \o l, K) = OfKinds(a, K) \o OfKinds(l, K)
        /\ OfKinds(a, K) \in Seq(Items) /\ OfKinds(l, K) \in Seq(Items)
    BY OfKindsConcat
  <2> QED BY <2>1, <2>2 DEF Visible, Above, OnLine
<1> QED BY <1>1, ConcatProperties, ConcatEmptySeq, ConcatEqualIffEmpty

(* What a text is shown as.                                                *)
LEMMA TextItems ==
  ASSUME NEW pieces \in Texts
  PROVE  /\ Len(pieces) \in Nat
         /\ \A n \in 1..Len(pieces) : /\ Item("text", pieces[n]) \in Items
                                      /\ Item("text", pieces[n]).kind = "text"
                                      /\ Item("text", pieces[n]).piece = pieces[n]
                                      /\ pieces[n] \in Shown
<1>1. Len(pieces) \in Nat
  BY LenProperties DEF Texts
<1>2. ASSUME NEW n \in 1..Len(pieces)
      PROVE  /\ Item("text", pieces[n]) \in Items
             /\ Item("text", pieces[n]).kind = "text"
             /\ Item("text", pieces[n]).piece = pieces[n]
             /\ pieces[n] \in Shown
  <2>1. pieces[n] \in Shown
    BY ElementOfSeq DEF Texts, Shown
  <2>2. "text" \in ItemKinds
    BY DEF ItemKinds
  <2> QED BY <2>1, <2>2, ItemTyped
<1> QED BY <1>1, <1>2

(* A text adds nothing that is not text, and clears no line of such.       *)
LEMMA TextAddsText ==
  ASSUME NEW s \in Screens, NEW pieces \in Texts, NEW K, "text" \notin K,
         OfKinds(Left(s), K) = <<>>
  PROVE  /\ Text(s, pieces) \in Screens /\ Text(s, pieces).spinner_active = FALSE
         /\ Above(Text(s, pieces), K) = Above(s, K) /\ OnLine(Text(s, pieces), K) = <<>>
<1> DEFINE N == Len(pieces)
           W == TextUpTo(s, pieces)
           T == {n \in 0..N : /\ W[n].spinner_active = FALSE
                              /\ Above(W[n], K) = Above(s, K) /\ OnLine(W[n], K) = <<>>}
<1>1. N \in Nat /\ \A n \in 1..N : Item("text", pieces[n]) \in Items
                                   /\ Item("text", pieces[n]).kind = "text"
  BY TextItems
<1>2. /\ W[0] = ClearSpinner(s)
      /\ \A n \in 1..N : W[n] = IF pieces[n] = LineBreak THEN NextLine(W[n - 1])
                                ELSE Put(W[n - 1], Item("text", pieces[n]))
      /\ \A n \in 0..N : W[n] \in Screens
  BY TextDefined
<1> HIDE DEF W
<1>3. 0 \in T
  <2>1. 0 \in 0..N
    BY <1>1
  <2> QED BY <1>2, <2>1, ClearSpinnerShows DEF Above, OnLine
<1>4. ASSUME NEW n \in 1..N, n - 1 \in T
      PROVE  n \in T
  <2>1. /\ n \in 0..N /\ n - 1 \in 0..N /\ W[n - 1] \in Screens
        /\ W[n - 1].spinner_active = FALSE
        /\ Above(W[n - 1], K) = Above(s, K) /\ OnLine(W[n - 1], K) = <<>>
    BY <1>1, <1>2, <1>4
  <2>2. CASE pieces[n] = LineBreak
    <3>1. W[n] = NextLine(W[n - 1])
      BY <1>2, <2>2
    <3>2. /\ W[n].above = W[n - 1].above \o W[n - 1].line /\ W[n].line = <<>>
          /\ W[n].spinner_active = FALSE
      <4>1. PICK w \in Screens : w = W[n - 1]
        BY <2>1
      <4>2. NextLine(w).above = w.above \o w.line /\ NextLine(w).line = <<>>
            /\ NextLine(w).spinner_active = w.spinner_active
        BY NextLineShows
      <4> QED BY <2>1, <3>1, <4>1, <4>2
    <3>3. Above(W[n], K) = Above(W[n - 1], K)
      BY <2>1, <3>2, VisibleParts DEF Above, Visible
    <3> QED BY <2>1, <3>2, <3>3, OfKindsFew DEF OnLine
  <2>3. CASE pieces[n] # LineBreak
    <3> DEFINE item == Item("text", pieces[n])
    <3>1. W[n] = Put(W[n - 1], item) /\ item \in Items /\ item.kind \notin K
      BY <1>1, <1>2, <2>3
    <3> HIDE DEF item
    <3>2. /\ W[n].above = W[n - 1].above /\ W[n].line = Append(W[n - 1].line, item)
          /\ W[n].spinner_active = FALSE
      BY <2>1, <3>1, PutShows
    <3>3. OfKinds(W[n].line, K) = OfKinds(W[n - 1].line, K)
      BY <2>1, <3>1, <3>2, OfKindsAppend, ScreenFields
    <3> QED BY <2>1, <3>2, <3>3 DEF Above, OnLine
  <2> QED BY <2>2, <2>3
<1>5. \A n \in 0..N : n \in T
  <2> HIDE DEF T
  <2> QED BY <1>1, <1>3, <1>4, InductionUpTo
<1>6. N \in 0..N
  BY <1>1
<1> QED BY <1>2, <1>5, <1>6 DEF Text, W

(* Its pieces follow the text that can be seen, in order.                  *)
LEMMA TextAddsPieces ==
  ASSUME NEW s \in Screens, NEW pieces \in Texts
  PROVE  PiecesOf(Visible(Text(s, pieces), {"text"})) =
           PiecesOf(OfKinds(s.above \o Left(s), {"text"}))
           \o Picked(pieces, {i \in 1..Len(pieces) : pieces[i] # LineBreak})
<1> DEFINE N == Len(pieces)
           K == {"text"}
           W == TextUpTo(s, pieces)
           P == {i \in 1..Len(pieces) : pieces[i] # LineBreak}
           F == PickedUpTo(pieces, P)
           base == PiecesOf(OfKinds(s.above \o Left(s), K))
           T == {n \in 0..N : PiecesOf(Visible(W[n], K)) = base \o F[n]}
<1>1. /\ N \in Nat
      /\ \A n \in 1..N : /\ Item("text", pieces[n]) \in Items
                         /\ Item("text", pieces[n]).kind = "text"
                         /\ Item("text", pieces[n]).piece = pieces[n]
                         /\ pieces[n] \in Shown
  BY TextItems
<1>2. /\ W[0] = ClearSpinner(s)
      /\ \A n \in 1..N : W[n] = IF pieces[n] = LineBreak THEN NextLine(W[n - 1])
                                ELSE Put(W[n - 1], Item("text", pieces[n]))
      /\ \A n \in 0..N : W[n] \in Screens
  BY TextDefined
<1>3. /\ F[0] = <<>>
      /\ \A n \in 1..N : F[n] = IF pieces[n] # LineBreak THEN Append(F[n - 1], pieces[n])
                                ELSE F[n - 1]
      /\ \A n \in 0..N : F[n] \in Seq(Shown)
      /\ Picked(pieces, P) = F[N]
  <2>1. Len(pieces) \in Nat /\ \A n \in 1..Len(pieces) : pieces[n] \in Shown
    BY <1>1
  <2>2. \A n \in 1..N : n \in P <=> pieces[n] # LineBreak
    OBVIOUS
  <2> HIDE DEF P
  <2>3. /\ F[0] = <<>>
        /\ \A n \in 1..N : F[n] = IF n \in P THEN Append(F[n - 1], pieces[n]) ELSE F[n - 1]
        /\ \A n \in 0..N : F[n] \in Seq(Shown)
    BY <2>1, PickedDefined
  <2>4. Picked(pieces, P) = F[N]
    BY DEF Picked
  <2> HIDE DEF F, N
  <2> QED BY <2>2, <2>3, <2>4
<1>4. base \in Seq(Shown) /\ s.above \o Left(s) \in Seq(Items)
  <2>1. s.above \o Left(s) \in Seq(Items)
    BY ScreenFields, ConcatProperties
  <2> QED BY <2>1, OfKindsConcat, PiecesOfTyped
<1>5. PiecesOf(Visible(W[0], K)) = base
  BY <1>2, ClearSpinnerShows DEF Visible
<1> HIDE DEF W, F, P, base, K
<1>6. 0 \in T
  <2>1. 0 \in 0..N
    BY <1>1
  <2>2. base \o F[0] = base
    BY <1>3, <1>4, ConcatEmptySeq
  <2> QED BY <1>5, <2>1, <2>2
<1>7. ASSUME NEW n \in 1..N, n - 1 \in T
      PROVE  n \in T
  <2>1. /\ n \in 0..N /\ n - 1 \in 0..N /\ W[n - 1] \in Screens /\ F[n - 1] \in Seq(Shown)
        /\ PiecesOf(Visible(W[n - 1], K)) = base \o F[n - 1]
    BY <1>1, <1>2, <1>3, <1>7
  <2>2. CASE pieces[n] = LineBreak
    <3>1. W[n] = NextLine(W[n - 1]) /\ F[n] = F[n - 1]
      BY <1>2, <1>3, <2>2
    <3>2. /\ W[n].above = W[n - 1].above \o W[n - 1].line /\ W[n].line = <<>>
      <4>1. PICK w \in Screens : w = W[n - 1]
        BY <2>1
      <4>2. NextLine(w).above = w.above \o w.line /\ NextLine(w).line = <<>>
        BY NextLineShows
      <4> QED BY <3>1, <4>1, <4>2
    <3>3. W[n].above \o W[n].line = W[n - 1].above \o W[n - 1].line
      <4>1. W[n - 1].above \o W[n - 1].line \in Seq(Items)
        BY <2>1, ScreenFields, ConcatProperties
      <4> QED BY <3>2, <4>1, ConcatEmptySeq
    <3> QED BY <2>1, <3>1, <3>3 DEF Visible
  <2>3. CASE pieces[n] # LineBreak
    <3>1. PICK item \in Items : item = Item("text", pieces[n])
      BY <1>1
    <3>2. W[n] = Put(W[n - 1], item) /\ F[n] = Append(F[n - 1], pieces[n])
      BY <1>2, <1>3, <2>3, <3>1
    <3>3. item.kind \in K /\ item.piece = pieces[n] /\ pieces[n] \in Shown
      BY <1>1, <3>1 DEF K
    <3>4. W[n].above = W[n - 1].above /\ W[n].line = Append(W[n - 1].line, item)
      BY <2>1, <3>2, PutShows, SMTT(40)
    <3>5. PICK a \in Seq(Items), l \in Seq(Items) : a = W[n - 1].above /\ l = W[n - 1].line
      BY <2>1, ScreenFields
    <3>6. a \o Append(l, item) = Append(a \o l, item) /\ a \o l \in Seq(Items)
      BY ConcatAppend, ConcatProperties
    <3>7. Visible(W[n], K) = Append(Visible(W[n - 1], K), item)
      <4>1. OfKinds(Append(a \o l, item), K) = Append(OfKinds(a \o l, K), item)
        BY <3>3, <3>6, OfKindsAppend
      <4> QED BY <3>4, <3>5, <3>6, <4>1 DEF Visible
    <3>8. PiecesOf(Visible(W[n], K)) = Append(PiecesOf(Visible(W[n - 1], K)), pieces[n])
      BY <2>1, <3>3, <3>7, VisibleParts, PiecesOfAppend
    <3>9. PICK q \in Seq(Shown) : q = F[n - 1]
      BY <2>1
    <3>10. base \o Append(q, pieces[n]) = Append(base \o q, pieces[n])
      BY <1>4, <3>3, ConcatAppend
    <3> QED BY <2>1, <3>2, <3>8, <3>9, <3>10
  <2> QED BY <2>2, <2>3
<1>8. \A n \in 0..N : n \in T
  <2> HIDE DEF T
  <2> QED BY <1>1, <1>6, <1>7, InductionUpTo
<1>9. N \in 0..N
  BY <1>1
<1>10. PiecesOf(Visible(W[N], K)) = base \o Picked(pieces, P)
  BY <1>3, <1>8, <1>9
<1> QED BY <1>10 DEF Text, W, K, P, base

(* Every command is listed above, in order, and nothing else.              *)
Lists(t, s, label, commands, K) ==
  /\ t \in Screens
  /\ commands # <<>> => t.line = <<>> /\ t.spinner_active = FALSE
  /\ commands = <<>> => t = s
  /\ label \notin K => Above(t, K) = Above(s, K)
  /\ label \in K /\ Above(s, K) = <<>> => PiecesOf(Above(t, K)) = commands

LEMMA ListedShows ==
  ASSUME NEW s \in Screens, NEW label \in ItemKinds, NEW commands \in Seq(Commanded), NEW K
  PROVE  Lists(Listed(s, label, commands), s, label, commands, K)
<1> DEFINE N == Len(commands)
           W == ListedUpTo(s, label, commands)
           A(n) == Above(W[n], K)
           T == {n \in 0..N :
                   /\ n # 0 => W[n].line = <<>> /\ W[n].spinner_active = FALSE
                   /\ label \notin K => A(n) = Above(s, K)
                   /\ label \in K /\ Above(s, K) = <<>> =>
                        Len(A(n)) = n /\ \A i \in 1..n : A(n)[i].piece = commands[i]}
<1>1. N \in Nat /\ (N = 0 <=> commands = <<>>)
  BY LenProperties, EmptySeq
<1>2. /\ W[0] = s
      /\ \A n \in 1..N : W[n] = InPlace(W[n - 1], Item(label, commands[n]))
      /\ \A n \in 0..N : W[n] \in Screens
      /\ \A n \in 1..N : Item(label, commands[n]) \in Items
  BY ListedDefined
<1> HIDE DEF W
<1>3. 0 \in T
  <2>1. 0 \in 0..N /\ Len(<<>>) = 0
    BY <1>1
  <2> QED BY <1>2, <2>1
<1>4. ASSUME NEW n \in 1..N, n - 1 \in T
      PROVE  n \in T
  <2>1. n \in 0..N /\ n - 1 \in 0..N /\ W[n - 1] \in Screens
    BY <1>1, <1>2
  <2>2. PICK item \in Items : item = Item(label, commands[n])
    BY <1>2
  <2>3. item.kind = label /\ item.piece = commands[n]
    BY <2>2 DEF Item
  <2>4. /\ W[n].above = Append(W[n - 1].above, item) /\ W[n].line = <<>>
        /\ W[n].spinner_active = FALSE
    <3>1. PICK w \in Screens : w = W[n - 1]
      BY <2>1
    <3>2. /\ InPlace(w, item).above = Append(w.above, item) /\ InPlace(w, item).line = <<>>
          /\ InPlace(w, item).spinner_active = FALSE
      BY InPlaceShows
    <3> QED BY <1>2, <2>2, <3>1, <3>2
  <2>5. A(n) = IF label \in K THEN Append(A(n - 1), item) ELSE A(n - 1)
    <3>1. PICK a \in Seq(Items) : a = W[n - 1].above
      BY <2>1, ScreenFields
    <3>2. OfKinds(Append(a, item), K) = IF label \in K THEN Append(OfKinds(a, K), item)
                                        ELSE OfKinds(a, K)
      BY <2>3, OfKindsAppend
    <3> QED BY <2>4, <3>1, <3>2 DEF Above
  <2>6. A(n - 1) \in Seq(Items)
    BY <2>1, VisibleParts
  <2>7. label \notin K => A(n) = Above(s, K)
    BY <1>4, <2>5
  <2>8. ASSUME label \in K, Above(s, K) = <<>>
        PROVE  Len(A(n)) = n /\ \A i \in 1..n : A(n)[i].piece = commands[i]
    <3>1. Len(A(n - 1)) = n - 1 /\ \A i \in 1..(n - 1) : A(n - 1)[i].piece = commands[i]
      BY <1>4, <2>8
    <3>2. A(n) = Append(A(n - 1), item)
      BY <2>5, <2>8
    <3> HIDE DEF A
    <3>3. /\ Len(A(n)) = Len(A(n - 1)) + 1
          /\ \A i \in 1..Len(A(n - 1)) : A(n)[i] = A(n - 1)[i]
          /\ A(n)[Len(A(n - 1)) + 1] = item
      BY <2>6, <3>2, AppendProperties
    <3> QED BY <1>1, <2>3, <3>1, <3>3
  <2> HIDE DEF A
  <2> QED BY <2>1, <2>4, <2>7, <2>8
<1>5. \A n \in 0..N : n \in T
  <2> HIDE DEF T
  <2> QED BY <1>1, <1>3, <1>4, InductionUpTo
<1>6. N \in 0..N /\ Listed(s, label, commands) = W[N]
  BY <1>1 DEF Listed, W
<1>7. ASSUME label \in K, Above(s, K) = <<>>
      PROVE  PiecesOf(Above(Listed(s, label, commands), K)) = commands
  <2>1. Len(A(N)) = N /\ (\A i \in 1..N : A(N)[i].piece = commands[i]) /\ A(N) \in Seq(Items)
    BY <1>2, <1>5, <1>6, <1>7, VisibleParts
  <2> HIDE DEF A
  <2>2. /\ PiecesOf(A(N)) \in Seq(Shown) /\ Len(PiecesOf(A(N))) = N
        /\ \A i \in 1..N : PiecesOf(A(N))[i] = commands[i]
    BY <2>1, PiecesOfTyped
  <2>3. commands \in Seq(Shown)
    <3>1. Commanded \subseteq Shown
      BY DEF Commanded, Shown, Labels
    <3> QED BY <3>1, SeqMonotonic
  <2>4. PiecesOf(A(N)) = commands
    BY <2>2, <2>3, SeqEqual
  <2> QED BY <1>6, <2>4 DEF A
<1> HIDE DEF A
<1>8. /\ W[N] \in Screens
      /\ N # 0 => W[N].line = <<>> /\ W[N].spinner_active = FALSE
      /\ N = 0 => W[N] = s
  BY <1>2, <1>5, <1>6
<1>9. label \notin K => Above(W[N], K) = Above(s, K)
  BY <1>5, <1>6 DEF A
<1> QED BY <1>1, <1>6, <1>7, <1>8, <1>9 DEF Lists

(* What is left above the line once a spinner has been erased and the line *)
(* ended.                                                                  *)
Kept(s, K) == OfKinds(s.above \o Left(s), K)

(* Where that is.                                                           *)
LEMMA KeptParts ==
  ASSUME NEW s \in Screens, NEW K
  PROVE  /\ Kept(s, K) = Above(s, K) \o OfKinds(Left(s), K)
         /\ Kept(s, K) \in Seq(Items)
         /\ OfKinds(Left(s), K) = <<>> => Kept(s, K) = Above(s, K)
         /\ OnLine(s, K) = <<>> => OfKinds(Left(s), K) = <<>>
         /\ s.spinner_active => Kept(s, K) = Above(s, K)
         /\ ~s.spinner_active => Kept(s, K) = Visible(s, K)
<1>1. PICK a \in Seq(Items), l \in Seq(Items), left \in Seq(Items) :
        a = s.above /\ l = s.line /\ left = Left(s)
  BY ScreenFields
<1>2. /\ OfKinds(a \o left, K) = OfKinds(a, K) \o OfKinds(left, K)
      /\ OfKinds(a, K) \in Seq(Items) /\ OfKinds(left, K) \in Seq(Items)
  BY OfKindsConcat, ZenonT(60)
<1>3. OfKinds(a, K) \o OfKinds(left, K) \in Seq(Items)
  BY <1>2, ConcatProperties
<1>4. OfKinds(left, K) = <<>> => OfKinds(a, K) \o OfKinds(left, K) = OfKinds(a, K)
  BY <1>2, ConcatEmptySeq
<1>5. s.spinner_active => left = <<>>
  BY <1>1 DEF Left
<1>6. ~s.spinner_active => left = l
  BY <1>1 DEF Left
<1>7. OfKinds(<<>>, K) = <<>>
  BY OfKindsFew
<1> QED BY <1>1, <1>2, <1>3, <1>4, <1>5, <1>6, <1>7 DEF Kept, Above, OnLine, Visible

(* What can be seen once an item is put on the line,                        *)
LEMMA PutSees ==
  ASSUME NEW s \in Screens, NEW item \in Items, NEW K
  PROVE  /\ Put(s, item) \in Screens /\ Put(s, item).spinner_active = s.spinner_active
         /\ Above(Put(s, item), K) = Above(s, K)
         /\ item.kind \notin K => /\ OnLine(Put(s, item), K) = OnLine(s, K)
                                  /\ Visible(Put(s, item), K) = Visible(s, K)
<1>1. PICK l \in Seq(Items) : l = s.line
  BY ScreenFields
<1>2. OfKinds(Append(l, item), K) = IF item.kind \in K THEN Append(OfKinds(l, K), item) ELSE OfKinds(l, K)
  BY OfKindsAppend
<1>3. /\ Put(s, item) \in Screens /\ Put(s, item).spinner_active = s.spinner_active
      /\ Put(s, item).above = s.above /\ Put(s, item).line = Append(l, item)
  BY <1>1, PutShows
<1>4. Above(Put(s, item), K) = Above(s, K)
  BY <1>3 DEF Above
<1>5. item.kind \notin K => OnLine(Put(s, item), K) = OnLine(s, K)
  BY <1>1, <1>2, <1>3 DEF OnLine
<1> QED BY <1>3, <1>4, <1>5, VisibleParts

(* and once the line has ended.                                             *)
LEMMA NextLineSees ==
  ASSUME NEW s \in Screens, NEW K
  PROVE  /\ NextLine(s) \in Screens /\ NextLine(s).spinner_active = s.spinner_active
         /\ Above(NextLine(s), K) = Visible(s, K) /\ OnLine(NextLine(s), K) = <<>>
         /\ Visible(NextLine(s), K) = Visible(s, K)
<1>1. /\ NextLine(s) \in Screens /\ NextLine(s).spinner_active = s.spinner_active
      /\ NextLine(s).above = s.above \o s.line /\ NextLine(s).line = <<>>
  BY NextLineShows
<1>2. Above(NextLine(s), K) = Visible(s, K) /\ OnLine(NextLine(s), K) = <<>>
  BY <1>1, OfKindsFew DEF Above, OnLine, Visible
<1> QED BY <1>1, <1>2, VisibleParts

(* The line is lost, and what is above it is kept, as far as K is concerned*)
(* (Wiped); or it is ended and kept, if it is no spinner's (LineEnded).     *)
Wiped(t, s, K) ==
  /\ t \in Screens /\ t.spinner_active = FALSE
  /\ Above(t, K) = Above(s, K) /\ OnLine(t, K) = <<>>

LineEnded(t, s, K) ==
  /\ t \in Screens /\ t.spinner_active = FALSE
  /\ Above(t, K) = Kept(s, K) /\ OnLine(t, K) = <<>>

(* emit_clear_line loses the line,                                          *)
LEMMA ClearLineWipes ==
  ASSUME NEW s \in Screens, NEW K
  PROVE  Wiped(ClearLine(s), s, K)
BY ClearLineShows, OfKindsFew DEF Above, OnLine, Wiped

(* emit_stream_end keeps it.                                                *)
LEMMA StreamEndEnds ==
  ASSUME NEW s \in Screens, NEW K
  PROVE  LineEnded(StreamEnd(s), s, K)
BY StreamEndShows, OfKindsFew DEF Above, OnLine, Kept, LineEnded

(* A line that has no piece.                                               *)
LEMMA LineItem ==
  ASSUME NEW kind \in ItemKinds
  PROVE  Item(kind, "") \in Items /\ Item(kind, "").kind = kind
<1>1. "" \in Shown
  BY DEF Shown, Labels
<1> QED BY <1>1, ItemTyped

(* An item that is not of the kinds K is nothing to them, and any other is *)
(* something.                                                              *)
LEMMA AppendedKinds ==
  ASSUME NEW a \in Seq(Items), NEW item \in Items, NEW K
  PROVE  /\ item.kind \notin K => OfKinds(Append(a, item), K) = OfKinds(a, K)
         /\ item.kind \in K => OfKinds(Append(a, item), K) # <<>>
<1>1. OfKinds(Append(a, item), K) = IF item.kind \in K THEN Append(OfKinds(a, K), item) ELSE OfKinds(a, K)
  BY OfKindsAppend
<1>2. OfKinds(a, K) \in Seq(Items)
  BY OfKindsConcat
<1>3. Append(OfKinds(a, K), item) # <<>>
  BY <1>2, AppendProperties
<1> QED BY <1>1, <1>3

(* A line in the place of the cursor's loses what was there,                *)
LEMMA InPlaceWipes ==
  ASSUME NEW s \in Screens, NEW kind \in ItemKinds, NEW K, kind \notin K
  PROVE  Wiped(InPlace(s, Item(kind, "")), s, K)
<1>1. PICK a \in Seq(Items), item \in Items : a = s.above /\ item = Item(kind, "") /\ item.kind = kind
  BY ScreenFields, LineItem
<1>2. OfKinds(Append(a, item), K) = OfKinds(a, K)
  BY <1>1, AppendedKinds
<1>3. /\ InPlace(s, item) \in Screens
      /\ InPlace(s, item).above = Append(a, item) /\ InPlace(s, item).line = <<>>
      /\ InPlace(s, item).spinner_active = FALSE
  BY <1>1, InPlaceShows
<1> QED BY <1>1, <1>2, <1>3, OfKindsFew DEF Above, OnLine, Wiped

(* a line below it keeps it,                                                *)
LEMMA BelowEnds ==
  ASSUME NEW s \in Screens, NEW kind \in ItemKinds, NEW K
  PROVE  /\ kind \notin K => LineEnded(Below(s, Item(kind, "")), s, K)
         /\ kind \in K => Above(Below(s, Item(kind, "")), K) # <<>>
         /\ Below(s, Item(kind, "")) \in Screens
         /\ Below(s, Item(kind, "")).spinner_active = FALSE
<1>1. PICK a \in Seq(Items), item \in Items :
        a = s.above \o Left(s) /\ item = Item(kind, "") /\ item.kind = kind
  BY ScreenFields, ConcatProperties, LineItem
<1>2. /\ kind \notin K => OfKinds(Append(a, item), K) = OfKinds(a, K)
      /\ kind \in K => OfKinds(Append(a, item), K) # <<>>
  BY <1>1, AppendedKinds
<1>3. /\ Below(s, item) \in Screens
      /\ Below(s, item).above = Append(a, item) /\ Below(s, item).line = <<>>
      /\ Below(s, item).spinner_active = FALSE
  BY <1>1, BelowShows
<1> QED BY <1>1, <1>2, <1>3, OfKindsFew DEF Above, OnLine, Kept, LineEnded

(* a question loses it,                                                     *)
LEMMA AskWipes ==
  ASSUME NEW s \in Screens, NEW kind \in ItemKinds, NEW K
  PROVE  /\ Ask(s, kind) \in Screens /\ Ask(s, kind).spinner_active = FALSE
         /\ Ask(s, kind).line = <<Item(kind, "")>>
         /\ kind \notin K => Wiped(Ask(s, kind), s, K)
<1>1. Item(kind, "") \in Items /\ Item(kind, "").kind = kind
  BY LineItem
<1>2. /\ Ask(s, kind) \in Screens /\ Ask(s, kind).spinner_active = FALSE
      /\ Ask(s, kind).above = s.above /\ Ask(s, kind).line = <<Item(kind, "")>>
  BY <1>1, AskShows
<1>3. OfKinds(<<Item(kind, "")>>, K) = IF kind \in K THEN <<Item(kind, "")>> ELSE <<>>
  BY <1>1, OfKindsFew
<1> QED BY <1>2, <1>3 DEF Above, OnLine, Wiped

(* and so does a tick of the spinner.                                       *)
LEMMA TickSees ==
  ASSUME NEW s \in Screens, NEW K
  PROVE  /\ SpinnerTick(s) \in Screens /\ SpinnerTick(s).spinner_active = TRUE
         /\ Above(SpinnerTick(s), K) = Above(s, K)
         /\ "spinner" \notin K => OnLine(SpinnerTick(s), K) = <<>>
<1>1. Spinner \in Items /\ Spinner.kind = "spinner"
  <2>1. "spinner" \in ItemKinds
    BY DEF ItemKinds
  <2> QED BY <2>1, LineItem DEF Spinner
<1>2. OfKinds(<<Spinner>>, K) = IF "spinner" \in K THEN <<Spinner>> ELSE <<>>
  BY <1>1, OfKindsFew
<1> QED BY <1>1, <1>2, SpinnerShows DEF Above, OnLine

-----------------------------------------------------------------------------
(* What is drawn for an event.                                             *)

(* The types of PlanDisplay.                                                *)
Displays == [status : {"Idle", "Thinking", "Streaming", "Error"}, streaming_text : Texts,
             thinking_text : Texts, is_thinking : BOOLEAN, first_line_shown : BOOLEAN]

(* What a text is drawn on.                                                *)
Cleared(d, s) ==
  IF d.is_thinking
  THEN IF d.first_line_shown THEN s
       ELSE IF d.thinking_text = <<>> THEN ClearLine(s)
       ELSE InPlace(s, Item("thought", ""))
  ELSE IF d.streaming_text = <<>> THEN ClearLine(s) ELSE s

(* What is drawn for an event, in cases.                                    *)
LEMMA DrawnIs ==
  ASSUME NEW d, NEW s, NEW event
  PROVE  /\ event.kind = "TextDelta" => Drawn(d, s, event) = Text(Cleared(d, s), event.content)
         /\ event.kind # "TextDelta" =>
              \/ /\ event.kind = "ThinkingDelta"
                 /\ Drawn(d, s, event) = InPlace(s, Item("thought", ""))
              \/ /\ event.kind = "Error" /\ d.streaming_text = <<>>
                 /\ Drawn(d, s, event) = ClearLine(s)
              \/ Drawn(d, s, event) = s
BY DEF Drawn, Cleared

(* A text clears the line only if no text has been shown yet.               *)
LEMMA ClearedSees ==
  ASSUME NEW d, NEW s \in Screens
  PROVE  /\ Cleared(d, s) \in Screens
         /\ \A K : "thought" \notin K => Cleared(d, s) = s \/ Wiped(Cleared(d, s), s, K)
         /\ d.streaming_text # <<>> /\ ~d.is_thinking => Cleared(d, s) = s
<1>1. Cleared(d, s) \in {s, ClearLine(s), InPlace(s, Item("thought", ""))}
  BY DEF Cleared
<1>2. "thought" \in ItemKinds
  BY DEF ItemKinds
<1>3. \A K : "thought" \notin K => Cleared(d, s) = s \/ Wiped(Cleared(d, s), s, K)
  BY <1>1, <1>2, ClearLineWipes, InPlaceWipes
<1>4. Cleared(d, s) \in Screens
  <2>1. "thought" \notin {}
    OBVIOUS
  <2> QED BY <1>3, <2>1 DEF Wiped
<1>5. d.streaming_text # <<>> /\ ~d.is_thinking => Cleared(d, s) = s
  BY DEF Cleared
<1> QED BY <1>3, <1>4, <1>5

(* What is drawn for an event that is no text loses the line or nothing.    *)
LEMMA DrawnWipes ==
  ASSUME NEW d, NEW s \in Screens, NEW event, event.kind # "TextDelta"
  PROVE  \A K : "thought" \notin K => Drawn(d, s, event) = s \/ Wiped(Drawn(d, s, event), s, K)
<1>1. "thought" \in ItemKinds
  BY DEF ItemKinds
<1>2. Drawn(d, s, event) \in {s, ClearLine(s), InPlace(s, Item("thought", ""))}
  BY DrawnIs
<1> QED BY <1>1, <1>2, ClearLineWipes, InPlaceWipes

(* What is neither text nor a thought stays as it is.                      *)
LEMMA DrawnKeeps ==
  ASSUME NEW d \in Displays, NEW s \in Screens, NEW event \in Events,
         NEW K, "text" \notin K, "thought" \notin K, OfKinds(Left(s), K) = <<>>
  PROVE  /\ Drawn(d, s, event) \in Screens
         /\ Above(Drawn(d, s, event), K) = Above(s, K)
         /\ OfKinds(Left(Drawn(d, s, event)), K) = <<>>
         /\ OnLine(s, K) = <<>> => OnLine(Drawn(d, s, event), K) = <<>>
<1>1. CASE event.kind = "TextDelta"
  <2>1. PICK t \in Screens : t = Cleared(d, s)
    BY ClearedSees
  <2>2. Above(t, K) = Above(s, K) /\ OfKinds(Left(t), K) = <<>>
    <3>1. t = s \/ Wiped(t, s, K)
      BY <2>1, ClearedSees
    <3> QED BY <3>1, KeptParts DEF Wiped
  <2>3. PICK pieces \in Texts : pieces = event.content
    BY DEF Events
  <2>4. /\ Text(t, pieces) \in Screens
        /\ Above(Text(t, pieces), K) = Above(t, K) /\ OnLine(Text(t, pieces), K) = <<>>
    BY <2>2, TextAddsText
  <2>5. Drawn(d, s, event) = Text(t, pieces)
    BY <1>1, <2>1, <2>3, DrawnIs
  <2> QED BY <2>2, <2>4, <2>5, KeptParts
<1>2. CASE event.kind # "TextDelta"
  <2>1. Drawn(d, s, event) = s \/ Wiped(Drawn(d, s, event), s, K)
    BY <1>2, DrawnWipes
  <2>2. PICK t : t = Drawn(d, s, event)
    OBVIOUS
  <2>3. CASE t = s
    BY <2>2, <2>3
  <2>4. CASE Wiped(t, s, K)
    <3>1. /\ t \in Screens /\ Above(t, K) = Above(s, K) /\ OnLine(t, K) = <<>>
      BY <2>4 DEF Wiped
    <3>2. OfKinds(Left(t), K) = <<>>
      BY <3>1, KeptParts
    <3> QED BY <2>2, <3>1, <3>2
  <2> QED BY <2>1, <2>2, <2>3, <2>4
<1> QED BY <1>1, <1>2

(* What can be seen of a text.                                              *)
SeenPieces(pieces) == Picked(pieces, {i \in 1..Len(pieces) : pieces[i] # LineBreak})

(* The text stays, and more of it is added, if nothing else takes its line.*)
LEMMA DrawnAddsText ==
  ASSUME NEW d \in Displays, NEW s \in Screens, NEW event \in Events,
         d.streaming_text = <<>> => Visible(s, {"text"}) = <<>>,
         d.streaming_text # <<>> => ~s.spinner_active /\ ~d.is_thinking,
         event.kind = "ThinkingDelta" => d.streaming_text = <<>>
  PROVE  /\ event.kind = "TextDelta" =>
              /\ PiecesOf(Visible(Drawn(d, s, event), {"text"})) =
                   PiecesOf(Visible(s, {"text"})) \o SeenPieces(event.content)
              /\ ~Drawn(d, s, event).spinner_active
         /\ event.kind # "TextDelta" =>
              /\ Visible(Drawn(d, s, event), {"text"}) = Visible(s, {"text"})
              /\ d.streaming_text # <<>> => Drawn(d, s, event) = s
<1> DEFINE K == {"text"}
<1>1. "thought" \notin K
  OBVIOUS
<1> HIDE DEF K
<1>2. CASE event.kind = "TextDelta"
  <2>1. PICK t \in Screens : t = Cleared(d, s)
    BY ClearedSees
  <2>2. Kept(t, K) = Visible(s, K)
    <3>1. CASE d.streaming_text # <<>>
      <4>1. t = s /\ ~s.spinner_active
        BY <2>1, <3>1, ClearedSees
      <4> QED BY <4>1, KeptParts
    <3>2. CASE d.streaming_text = <<>>
      <4>1. Above(s, K) = <<>> /\ OnLine(s, K) = <<>> /\ Visible(s, K) = <<>>
        BY <3>2, VisibleParts DEF K
      <4>2. OfKinds(Left(s), K) = <<>>
        BY <4>1, KeptParts
      <4>3. Above(t, K) = <<>> /\ OfKinds(Left(t), K) = <<>>
        <5>1. t = s \/ Wiped(t, s, K)
          BY <1>1, <2>1, ClearedSees
        <5> QED BY <4>1, <4>2, <5>1, KeptParts DEF Wiped
      <4> QED BY <4>1, <4>3, KeptParts
    <3> QED BY <3>1, <3>2
  <2>3. PICK pieces \in Texts : pieces = event.content
    BY DEF Events
  <2>4. PiecesOf(Visible(Text(t, pieces), K)) = PiecesOf(Kept(t, K)) \o SeenPieces(pieces)
    BY TextAddsPieces DEF K, Kept, SeenPieces
  <2>5. ~Text(t, pieces).spinner_active
    <3>1. OfKinds(Left(t), {}) = <<>>
      BY ScreenFields, OfKindsNone
    <3> QED BY <3>1, TextAddsText
  <2>6. Drawn(d, s, event) = Text(t, pieces)
    BY <1>2, <2>1, <2>3, DrawnIs
  <2> QED BY <1>2, <2>2, <2>3, <2>4, <2>5, <2>6 DEF K
<1>3. CASE event.kind # "TextDelta"
  <2>1. CASE Drawn(d, s, event) = s
    BY <1>3, <2>1
  <2>2. CASE Drawn(d, s, event) # s
    <3>1. d.streaming_text = <<>> /\ Wiped(Drawn(d, s, event), s, K)
      BY <1>1, <1>3, <2>2, DrawnIs, DrawnWipes
    <3>2. PICK t : t = Drawn(d, s, event)
      OBVIOUS
    <3>3. Above(s, K) = <<>> /\ Visible(s, K) = <<>>
      BY <3>1, VisibleParts DEF K
    <3>4. t \in Screens /\ Above(t, K) = <<>> /\ OnLine(t, K) = <<>>
      BY <3>1, <3>2, <3>3 DEF Wiped
    <3>5. Visible(t, K) = <<>>
      BY <3>4, VisibleParts
    <3> QED BY <1>3, <3>1, <3>2, <3>3, <3>5 DEF K
  <2> QED BY <2>1, <2>2
<1> QED BY <1>2, <1>3

(* The types of a decision, and of what the event loop shows.               *)
Proposals == [commands : Seq(Commanded), need_yes : BOOLEAN, yes_buffer : Seq({"yes", "other"})]

ShowsTyped ==
  /\ state \in {"Streaming", "Judging", "Approving", "Executing", "Idle"}
  /\ taken \in 0..Len(out)
  /\ display \in Displays
  /\ proposal \in Proposals
  /\ held \in BOOLEAN
  /\ screen \in Screens
  /\ noise \in Seq({"output", "child", "thought"})

(* Where an answer can be: a judge's request is not streamed, and a        *)
(* decision has something to decide on, and begins with nothing typed.     *)
Places ==
  /\ single => taken = 0 /\ state # "Streaming"
  /\ state = "Judging" /\ ~single => phase = "Ended"
  /\ state \in {"Judging", "Approving"} => proposal.commands # <<>>
  /\ state = "Judging" \/ ~proposal.need_yes => proposal.yes_buffer = <<>>

(* A spinner is on the line only while it is known to be (spinner_active),  *)
(* and it gets above only when output of the shell pushes it there.         *)
SpinnerInv ==
  /\ ~screen.spinner_active => OnLine(screen, {"spinner"}) = <<>>
  /\ ~Noise("output") => Above(screen, {"spinner"}) = <<>>
  /\ state # "Streaming" => ~screen.spinner_active

(* The status of the display says whether the stream has failed; what is    *)
(* decided on comes from one that did not; and an error is seen only when   *)
(* idle.                                                                    *)
FailureInv ==
  /\ state # "Idle" => Above(screen, {"error"}) = <<>> /\ OnLine(screen, {"error"}) = <<>>
  /\ state = "Streaming" => (display.status = "Error" <=> Failed)
  /\ state \in {"Judging", "Approving", "Executing"} => ~Failed
  /\ state = "Idle" /\ Visible(screen, {"cancelled"}) = <<>> =>
       (Failed <=> Visible(screen, {"error"}) # <<>>)

(* The line of the prompt, with what has been typed.                        *)
Prompted(p) ==
  <<Item("prompt", "")>> \o [i \in DOMAIN p.yes_buffer |-> Item("typed", p.yes_buffer[i])]

(* The labels of a command that is to be run.                               *)
Labelled == {"risk", "safe"}

(* The labels are above the line, those of the proposal and no other; and   *)
(* the line is the prompt's, unless the note on e has taken its place.      *)
ProposalInv ==
  /\ state # "Idle" => OnLine(screen, Labelled) = <<>>
  /\ state \in {"Streaming", "Judging"} => Above(screen, Labelled) = <<>>
  /\ state \in {"Approving", "Executing"} => PiecesOf(Above(screen, Labelled)) = proposal.commands
  /\ state = "Approving" =>
       \/ Above(screen, {"edit"}) # <<>> /\ ~proposal.need_yes
       \/ screen.line = Prompted(proposal)

(* The text is on the screen, and no tick and no first line will take its   *)
(* line: there is no spinner any more, and no thought to clear.             *)
TextInv ==
  /\ state # "Streaming" => OnLine(screen, {"text"}) = <<>>
  /\ ~single /\ ~Noise("child") /\ ~Noise("thought") =>
       /\ PiecesOf(Visible(screen, {"text"})) = TextHandled
       /\ state = "Streaming" =>
            /\ display.streaming_text = <<>> => TextHandled = <<>>
            /\ display.streaming_text # <<>> => ~screen.spinner_active /\ ~display.is_thinking

(* The properties are not inductive. That no tick comes after a text needs  *)
(* the spinner to have gone by then; that the errors on the screen are      *)
(* those of the stream needs that none has been seen before; and that the   *)
(* commands shown are those of the proposal needs that no label was there.  *)
ShowInv ==
  /\ ClientTyped /\ ShowsTyped
  /\ Places /\ SpinnerInv /\ FailureInv /\ ProposalInv /\ TextInv

-----------------------------------------------------------------------------
(* The invariant gives the three properties,                                *)
LEMMA ShowInvSuffices == ShowInv => ScreenTellsEnd /\ ProposalOnScreen /\ AnswerOnScreen
<1> SUFFICES ASSUME ShowInv
             PROVE  ScreenTellsEnd /\ ProposalOnScreen /\ AnswerOnScreen
  OBVIOUS
<1>1. screen \in Screens /\ state \in {"Streaming", "Judging", "Approving", "Executing", "Idle"}
  BY DEF ShowInv, ShowsTyped
<1>2. ScreenTellsEnd
  <2> SUFFICES ASSUME state # "Streaming", ~single
               PROVE  /\ ~screen.spinner_active
                      /\ ~Noise("output") => Visible(screen, {"spinner"}) = <<>>
                      /\ Visible(screen, {"cancelled"}) = <<>> =>
                           (Failed <=> Visible(screen, {"error"}) # <<>>)
                      /\ Failed => state = "Idle"
    BY DEF ScreenTellsEnd
  <2>1. ~screen.spinner_active /\ (~Noise("output") => Visible(screen, {"spinner"}) = <<>>)
    BY <1>1, VisibleParts DEF ShowInv, SpinnerInv
  <2>2. Failed => state = "Idle"
    BY <1>1 DEF ShowInv, FailureInv
  <2>3. state # "Idle" => Visible(screen, {"error"}) = <<>>
    BY <1>1, VisibleParts DEF ShowInv, FailureInv
  <2>4. Visible(screen, {"cancelled"}) = <<>> => (Failed <=> Visible(screen, {"error"}) # <<>>)
    BY <2>2, <2>3 DEF ShowInv, FailureInv
  <2> QED BY <2>1, <2>2, <2>4
<1>3. ProposalOnScreen
  <2>1. ASSUME state \in {"Approving", "Executing"}
        PROVE  PiecesOf(Visible(screen, {"risk", "safe"})) = proposal.commands
    BY <1>1, <2>1, VisibleParts DEF ShowInv, ProposalInv, Labelled
  <2>2. ASSUME state = "Approving", Visible(screen, {"edit"}) = <<>>
        PROVE  screen.line = Prompted(proposal)
    <3>1. Above(screen, {"edit"}) = <<>>
      BY <1>1, <2>2, VisibleParts
    <3> QED BY <2>2, <3>1 DEF ShowInv, ProposalInv
  <2> QED BY <2>1, <2>2 DEF ProposalOnScreen, Prompted
<1>4. AnswerOnScreen
  BY DEF AnswerOnScreen, ShowInv, TextInv
<1> QED BY <1>2, <1>3, <1>4

(* and holds initially.                                                     *)
LEMMA ShowInvInit == AnswerInit => ShowInv
<1> SUFFICES ASSUME AnswerInit
             PROVE  ShowInv
  OBVIOUS
<1>1. NewScreen \in Screens /\ NewScreen.above = <<>> /\ NewScreen.line = <<>>
      /\ NewScreen.spinner_active = FALSE
  BY EmptySeq DEF NewScreen, Screens
<1>2. out = <<>> /\ taken = 0 /\ noise = <<>> /\ held = FALSE /\ display = NewDisplay
  BY DEF AnswerInit, Init
<1>a. 0 \in 0..Len(<<>>)
  OBVIOUS
<1>3. \A kind : ~Noise(kind)
  BY <1>2 DEF Noise
<1>4. ~Failed
  BY <1>2 DEF Failed
<1>5. TextHandled = <<>>
  <2> DEFINE TextOf(event) == IF event.kind = "TextDelta" THEN event.content ELSE <<>>
             seqs == [i \in 1..taken |-> TextOf(out[i])]
             none == {}
  <2>1. Len(seqs) = 0
    BY <1>2
  <2>2. Concatenated(seqs) = <<>>
    <3> HIDE DEF seqs
    <3>1. Len(seqs) \in Nat /\ 1..Len(seqs) = {}
      BY <2>1
    <3>a. \A i \in 1..Len(seqs) : seqs[i] \in Seq(none)
      BY <3>1
    <3>2. ConcatenatedUpTo(seqs)[0] = <<>>
      BY <3>1, <3>a, ConcatenatedDefined
    <3> QED BY <2>1, <3>2 DEF Concatenated
  <2>3. TextHandled = Picked(Concatenated(seqs), {i \in 1..Len(Concatenated(seqs)) : Concatenated(seqs)[i] # LineBreak})
    BY DEF TextHandled
  <2>4. \A P : Picked(<<>>, P) = <<>>
    <3>1. PICK s \in Seq(none) : s = <<>> /\ Len(s) = 0
      BY EmptySeq
    <3>2. \A P : \A i \in 1..Len(s) : i \notin P
      BY <3>1
    <3>3. \A P : Picked(s, P) = <<>>
      BY <3>2, PickedNothing
    <3> QED BY <3>1, <3>3
  <2> HIDE DEF seqs
  <2> QED BY <2>2, <2>3, <2>4
<1>6. ClientTyped
  <2>1. NewParser \in Parsers /\ NoTool \in [id : Nat, input_json : Texts]
    BY EmptySeq DEF NewParser, NoTool, Parsers, Texts, Types
  <2>2. <<>> \in Texts /\ <<>> \in Seq(Events) /\ Len(<<>>) = 0
    BY EmptySeq DEF Texts
  <2>3. single \in BOOLEAN
    BY BackendAssumption DEF AnswerInit, Init
  <2> QED BY <1>2, <2>1, <2>2, <2>3 DEF AnswerInit, Init, ClientTyped
<1>7. display \in Displays
  BY <1>2, EmptySeq DEF NewDisplay, Displays, Texts
<1>8. PiecesOf(<<>>) = <<>>
  <2>1. <<>> \in Seq(Items)
    BY EmptySeq
  <2> QED BY <2>1, PiecesOfTyped
<1>9. \A K : Above(NewScreen, K) = <<>> /\ OnLine(NewScreen, K) = <<>>
  BY <1>1, OfKindsFew DEF Above, OnLine
<1>10. CASE single
  <2>1. /\ state = "Judging" /\ screen = Ask(NewScreen, "judging")
        /\ proposal = [commands |-> <<"command">>, need_yes |-> TRUE, yes_buffer |-> <<>>]
    BY <1>10 DEF AnswerInit, Proposal
  <2>2. "judging" \in ItemKinds
    BY DEF ItemKinds
  <2>3. /\ screen \in Screens /\ screen.spinner_active = FALSE
        /\ \A K : "judging" \notin K => Wiped(screen, NewScreen, K)
    BY <1>1, <2>1, <2>2, AskWipes
  <2>4. \A K : "judging" \notin K => Above(screen, K) = <<>> /\ OnLine(screen, K) = <<>>
    BY <1>9, <2>3 DEF Wiped
  <2>5. proposal \in Proposals /\ proposal.commands # <<>> /\ proposal.yes_buffer = <<>>
    <3>1. "command" \in Commanded /\ <<>> \in Seq({"yes", "other"})
      BY EmptySeq DEF Commanded
    <3> QED BY <2>1, <3>1 DEF Proposals
  <2>6. ShowsTyped
    <3>1. taken \in 0..Len(out) /\ noise \in Seq({"output", "child", "thought"}) /\ held \in BOOLEAN
      BY <1>2, <1>a, EmptySeq
    <3> QED BY <1>7, <2>1, <2>3, <2>5, <3>1 DEF ShowsTyped
  <2>7. Places /\ SpinnerInv /\ FailureInv /\ ProposalInv
    BY <1>2, <1>3, <1>4, <1>10, <2>1, <2>3, <2>4, <2>5
       DEF Places, SpinnerInv, FailureInv, ProposalInv, Labelled
  <2>8. TextInv
    BY <1>10, <2>4 DEF TextInv
  <2> QED BY <1>6, <2>6, <2>7, <2>8 DEF ShowInv
<1>11. CASE ~single
  <2>1. state = "Streaming" /\ screen = SpinnerInitial(NewScreen) /\ proposal = NoProposal
    BY <1>11 DEF AnswerInit
  <2>2. Spinner \in Items /\ Spinner.kind = "spinner"
    <3>1. "spinner" \in ItemKinds
      BY DEF ItemKinds
    <3> QED BY <3>1, LineItem DEF Spinner
  <2>3. /\ screen \in Screens /\ screen.above = <<>> /\ screen.line = <<Spinner>>
        /\ screen.spinner_active = TRUE
    <3>1. <<>> \o <<>> = <<>>
      OBVIOUS
    <3> QED BY <1>1, <2>1, <2>2, <3>1, SpinnerShows
  <2>4. /\ \A K : Above(screen, K) = <<>>
        /\ \A K : "spinner" \notin K => OnLine(screen, K) = <<>>
    BY <2>2, <2>3, OfKindsFew DEF Above, OnLine
  <2>5. proposal \in Proposals /\ proposal.yes_buffer = <<>>
    BY <2>1, EmptySeq DEF NoProposal, Proposals
  <2>6. ShowsTyped
    <3>1. taken \in 0..Len(out) /\ noise \in Seq({"output", "child", "thought"}) /\ held \in BOOLEAN
      BY <1>2, <1>a, EmptySeq
    <3> QED BY <1>7, <2>1, <2>3, <2>5, <3>1 DEF ShowsTyped
  <2>7. display.streaming_text = <<>> /\ display.status = "Idle"
    BY <1>2 DEF NewDisplay
  <2>8. Places /\ SpinnerInv /\ FailureInv /\ ProposalInv
    BY <1>2, <1>3, <1>4, <1>11, <2>1, <2>3, <2>4, <2>5, <2>7
       DEF Places, SpinnerInv, FailureInv, ProposalInv, Labelled
  <2>9. Visible(screen, {"text"}) = <<>>
    BY <2>3, <2>4, VisibleParts
  <2>10. TextInv
    BY <1>5, <1>8, <2>1, <2>7, <2>9 DEF TextInv
  <2> QED BY <1>6, <2>6, <2>8, <2>10 DEF ShowInv
<1> QED BY <1>10, <1>11

(* One noise more.                                                         *)
LEMMA NoiseGrows ==
  ASSUME NEW S, noise \in Seq(S), NEW k \in S, noise' = Append(noise, k)
  PROVE  /\ noise' \in Seq(S)
         /\ Noise(k)'
         /\ \A x : Noise(x) => Noise(x)'
<1>1. /\ noise' \in Seq(S) /\ Len(noise) \in Nat /\ Len(noise') = Len(noise) + 1
      /\ \A i \in 1..Len(noise) : noise'[i] = noise[i]
      /\ noise'[Len(noise) + 1] = k
  BY AppendProperties, LenProperties
<1>2. Len(noise) + 1 \in 1..Len(noise') /\ \A i \in 1..Len(noise) : i \in 1..Len(noise')
  BY <1>1
<1> QED BY <1>1, <1>2 DEF Noise

(* The client only adds to what it has given.                              *)
LEMMA OutGrows ==
  ASSUME ClientTyped, Next
  PROVE  /\ Len(out) \in Nat /\ Len(out') \in Nat /\ Len(out) <= Len(out')
         /\ \A i \in 1..Len(out) : out'[i] = out[i]
<1> DEFINE Grows == /\ Len(out) \in Nat /\ Len(out') \in Nat /\ Len(out) <= Len(out')
                    /\ \A i \in 1..Len(out) : out'[i] = out[i]
<1>1. out \in Seq(Events) /\ Len(out) \in Nat
  BY LenProperties DEF ClientTyped
<1>2. out' = out => Grows
  BY <1>1
<1>3. ASSUME NEW event \in Events, out' = Append(out, event)
      PROVE  Grows
  BY <1>1, <1>3, AppendProperties
<1>4. Done \in Events /\ Error \in Events
  BY EmptySeq DEF Done, Error, Event, Events, Kinds, Texts
<1>5. CASE Deliver
  <2>1. /\ parser.pending \in Seq(Lines) /\ parser.pending # <<>>
        /\ active \in [id : Nat, input_json : Texts]
    BY <1>5 DEF ClientTyped, Parsers, Deliver
  <2>2. Head(parser.pending) \in Lines
    BY <2>1, HeadTailProperties
  <2>3. out' = out \o Process(Head(parser.pending), active)
    BY <1>5 DEF Deliver
  <2>4. CASE Process(Head(parser.pending), active) = <<>>
    <3>1. out' = out
      BY <1>1, <2>3, <2>4, ConcatEmptySeq
    <3> QED BY <1>2, <3>1
  <2>5. CASE \E event \in Events : Process(Head(parser.pending), active) = <<event>>
    <3>1. PICK event \in Events : Process(Head(parser.pending), active) = <<event>>
      BY <2>5
    <3>2. out' = Append(out, event)
      BY <1>1, <2>3, <3>1, AppendIsConcat
    <3> QED BY <1>3, <3>2
  <2> QED BY <2>1, <2>2, <2>4, <2>5, ProcessTyped
<1>6. CASE ReadSingle
  <2>1. Event("TextDelta", 0, rest) \in Events
    BY DEF ClientTyped, Event, Events, Kinds
  <2> QED BY <1>3, <1>4, <1>6, <2>1 DEF ReadSingle, End
<1>7. CASE PostFails \/ Break \/ Finish
  BY <1>3, <1>4, <1>7 DEF PostFails, Break, Finish, End
<1>8. CASE \E answer \in Status, delay \in RetryAfter : PostRefused(answer, delay)
  BY <1>2, <1>3, <1>4, <1>8 DEF PostRefused, Retries, End
<1>9. CASE Wake \/ Close \/ (\E body \in Bodies : PostAccepted(body))
           \/ \E n \in 1..Len(rest) : Receive(n)
  BY <1>2, <1>9 DEF Wake, Close, PostAccepted, Receive
<1> QED BY <1>5, <1>6, <1>7, <1>8, <1>9 DEF Next

(* What has been handled does not change then.                             *)
LEMMA HandledStays ==
  ASSUME ClientTyped, Next, taken \in 0..Len(out), taken' = taken
  PROVE  taken' \in 0..Len(out') /\ (Failed' <=> Failed) /\ TextHandled' = TextHandled
<1>1. /\ Len(out) \in Nat /\ Len(out') \in Nat /\ Len(out) <= Len(out')
      /\ \A i \in 1..Len(out) : out'[i] = out[i]
  BY OutGrows
<1>2. \A i \in 1..taken : out'[i] = out[i]
  BY <1>1
<1>3. Failed' <=> Failed
  <2>1. \A i \in 1..taken : \A j \in i..taken : out'[j] = out[j]
    BY <1>2
  <2> QED BY <1>2, <2>1 DEF Failed
<1>4. TextHandled' = TextHandled
  <2> DEFINE TextOf(event) == IF event.kind = "TextDelta" THEN event.content ELSE <<>>
  <2>1. [i \in 1..taken |-> TextOf(out[i])]' = [i \in 1..taken |-> TextOf(out[i])]
    BY <1>2
  <2> QED BY <2>1 DEF TextHandled
<1> QED BY <1>1, <1>3, <1>4

(* One event more has been handled.                                        *)
LEMMA OneMoreHandled ==
  ASSUME ClientTyped, taken \in 0..Len(out), taken < Len(out), taken' = taken + 1, out' = out,
         NEW event \in Events, event = out[taken + 1]
  PROVE  /\ taken' \in 0..Len(out')
         /\ Failed' <=> event.kind = "Error" \/ (Failed /\ event.kind \notin {"TextDelta", "ThinkingDelta"})
         /\ event.kind = "TextDelta" => TextHandled' = TextHandled \o SeenPieces(event.content)
         /\ event.kind # "TextDelta" => TextHandled' = TextHandled
         /\ TextHandled \in Texts
<1>1. /\ out \in Seq(Events) /\ Len(out) \in Nat /\ taken \in Nat /\ taken + 1 \in 1..Len(out)
      /\ \A i \in 1..Len(out) : out[i] \in Events
  BY LenProperties, ElementOfSeq DEF ClientTyped
<1>2. event.kind = "Error" => event = Error
  BY <1>1 DEF ClientTyped
<1>3. Failed' <=> event.kind = "Error" \/ (Failed /\ event.kind \notin {"TextDelta", "ThinkingDelta"})
  <2>1. Error.kind = "Error"
    BY DEF Error, Event
  <2>2. CASE event.kind = "Error"
    <3>1. /\ taken + 1 \in 1..taken' /\ out'[taken + 1] = Error
          /\ \A j \in (taken + 1)..taken' : j = taken + 1
      BY <1>1, <1>2, <2>2
    <3> QED BY <2>1, <2>2, <3>1 DEF Failed
  <2>3. CASE event.kind \in {"TextDelta", "ThinkingDelta"}
    <3>1. \A i \in 1..taken' : taken + 1 \in i..taken'
      BY <1>1
    <3> QED BY <2>3, <3>1 DEF Failed
  <2>4. CASE event.kind \notin {"Error", "TextDelta", "ThinkingDelta"}
    <3>1. event # Error
      BY <2>1, <2>4
    <3>2. Failed' => Failed
      <4> SUFFICES ASSUME NEW i \in 1..taken', out'[i] = Error,
                          \A j \in i..taken' : out'[j].kind \notin {"TextDelta", "ThinkingDelta"}
                   PROVE  Failed
        BY DEF Failed
      <4>1. i \in 1..taken /\ \A j \in i..taken : j \in i..taken'
        BY <1>1, <3>1
      <4> QED BY <4>1 DEF Failed
    <3>3. Failed => Failed'
      <4> SUFFICES ASSUME NEW i \in 1..taken, out[i] = Error,
                          \A j \in i..taken : out[j].kind \notin {"TextDelta", "ThinkingDelta"}
                   PROVE  Failed'
        BY DEF Failed
      <4>1. i \in 1..taken' /\ \A j \in i..taken' : j \in i..taken \/ j = taken + 1
        BY <1>1
      <4>2. \A j \in i..taken' : out'[j].kind \notin {"TextDelta", "ThinkingDelta"}
        BY <2>4, <4>1
      <4> QED BY <4>1, <4>2 DEF Failed
    <3> QED BY <2>4, <3>2, <3>3
  <2> QED BY <2>2, <2>3, <2>4
<1> DEFINE TextOf(e) == IF e.kind = "TextDelta" THEN e.content ELSE <<>>
           seqs == [i \in 1..taken |-> TextOf(out[i])]
           more == [i \in 1..(taken + 1) |-> TextOf(out[i])]
<1>4. /\ Len(seqs) = taken /\ Len(more) = taken + 1
      /\ \A i \in 1..(taken + 1) : more[i] \in Seq(Pieces)
      /\ \A i \in 1..taken : seqs[i] = more[i] /\ seqs[i] \in Seq(Pieces)
  <2>1. \A i \in 1..Len(out) : TextOf(out[i]) \in Seq(Pieces)
    <3>1. <<>> \in Seq(Pieces)
      BY EmptySeq
    <3> QED BY <1>1, <3>1 DEF Events, Texts
  <2> HIDE DEF TextOf
  <2>2. \A i \in 1..(taken + 1) : i \in 1..Len(out)
    BY <1>1
  <2>3. \A i \in 1..taken : i \in 1..(taken + 1)
    BY <1>1
  <2> QED BY <1>1, <2>1, <2>2, <2>3
<1>5. more[taken + 1] = TextOf(event)
  BY <1>1
<1>6. TextHandled = SeenPieces(Concatenated(seqs))
  BY DEF TextHandled, SeenPieces
<1>7. TextHandled' = SeenPieces(Concatenated(more))
  BY DEF TextHandled, SeenPieces
<1> HIDE DEF seqs, more
<1> HIDE DEF TextOf
<1>8. Concatenated(more) = Concatenated(seqs) \o TextOf(event)
  <2>1. Prolongs(more, seqs, Pieces) /\ Len(more) = taken + 1
    BY <1>1, <1>4 DEF Prolongs
  <2>2. Concatenated(more) = Concatenated(seqs) \o more[Len(more)]
    BY <2>1, ConcatenatedMore
  <2> QED BY <1>5, <2>1, <2>2
<1>9. PICK old \in Seq(Pieces), new \in Seq(Pieces) : old = Concatenated(seqs) /\ new = TextOf(event)
  <2>1. taken + 1 \in 1..(taken + 1)
    BY <1>1
  <2> QED BY <1>1, <1>4, <1>5, <2>1, ConcatenatedTyped
<1>10. SeenPieces(old \o new) = SeenPieces(old) \o SeenPieces(new)
  <2> DEFINE P == {i \in 1..Len(old) : old[i] # LineBreak}
             Q == {i \in 1..Len(new) : new[i] # LineBreak}
             both == old \o new
             U == {i \in 1..Len(both) : both[i] # LineBreak}
  <2>1. /\ Len(old) \in Nat /\ Len(new) \in Nat /\ Len(both) = Len(old) + Len(new)
        /\ \A i \in 1..Len(old) : both[i] = old[i]
        /\ \A i \in 1..Len(new) : both[Len(old) + i] = new[i]
    BY ConcatProperties, LenProperties
  <2>2. Shifted(P, U, 0, Len(old))
    BY <2>1 DEF Shifted
  <2>3. Shifted(Q, U, Len(old), Len(new))
    BY <2>1 DEF Shifted
  <2> HIDE DEF P, Q, U
  <2>4. Picked(old \o new, U) = Picked(old, P) \o Picked(new, Q)
    BY <2>2, <2>3, PickedConcat
  <2> QED BY <2>4 DEF SeenPieces, P, Q, U
<1>11. SeenPieces(old) \in Seq(Pieces)
  <2>1. Len(old) \in Nat /\ \A i \in 1..Len(old) : old[i] \in Pieces
    BY LenProperties, ElementOfSeq
  <2> QED BY <2>1, PickedLen DEF SeenPieces
<1>12. TextHandled' = TextHandled \o SeenPieces(new) /\ TextHandled \in Texts
  BY <1>6, <1>7, <1>8, <1>9, <1>10, <1>11 DEF Texts
<1>a. event.kind = "TextDelta" => new = event.content
  BY <1>9 DEF TextOf
<1>b. event.kind # "TextDelta" => new = <<>>
  BY <1>9 DEF TextOf
<1>13. event.kind # "TextDelta" => TextHandled' = TextHandled
  <2> SUFFICES ASSUME event.kind # "TextDelta"
               PROVE  TextHandled' = TextHandled
    OBVIOUS
  <2>1. Concatenated(more) = Concatenated(seqs)
    BY <1>8, <1>9, <1>b, ConcatEmptySeq
  <2> QED BY <1>6, <1>7, <2>1
<1>14. taken' \in 0..Len(out')
  BY <1>1
<1> QED BY <1>3, <1>12, <1>13, <1>14, <1>a

(* The commands of an answer are texts.                                    *)
LEMMA CommandsTyped ==
  ASSUME ClientTyped, taken \in 0..Len(out)
  PROVE  Commands \in Seq(Commanded)
<1> DEFINE IsCommand(event) == event.kind = "ToolUse" /\ event.content # <<>>
           seqs == [i \in 1..taken |-> IF IsCommand(out[i]) THEN <<out[i].content>> ELSE <<>>]
<1>1. /\ Len(out) \in Nat /\ taken \in Nat /\ \A i \in 1..taken : out[i] \in Events
  BY LenProperties, ElementOfSeq DEF ClientTyped
<1>2. Len(seqs) = taken
  BY <1>1
<1>3. \A i \in 1..taken : seqs[i] \in Seq(Commanded)
  <2> SUFFICES ASSUME NEW i \in 1..taken
               PROVE  seqs[i] \in Seq(Commanded)
    OBVIOUS
  <2>1. out[i].content \in Commanded
    BY <1>1 DEF Events, Commanded
  <2>2. <<out[i].content>> \in Seq(Commanded) /\ <<>> \in Seq(Commanded)
    BY <2>1, EmptySeq
  <2> QED BY <2>2
<1> HIDE DEF seqs
<1>4. Concatenated(seqs) \in Seq(Commanded)
  BY <1>1, <1>2, <1>3, ConcatenatedTyped
<1> QED BY <1>4 DEF Commands, seqs

(* What two steps leave of a line, one after the other.                    *)
LEMMA WipedAgain ==
  ASSUME NEW s, NEW e, NEW t, NEW K, Wiped(t, e, K)
  PROVE  /\ Wiped(e, s, K) => Wiped(t, s, K)
         /\ LineEnded(e, s, K) => LineEnded(t, s, K)
         /\ e = s => Wiped(t, s, K)
BY DEF Wiped, LineEnded

(* If nothing is on the line, it is the same to lose it and to end it.      *)
LEMMA WipedIsEnded ==
  ASSUME NEW s \in Screens, NEW t, NEW K, OnLine(s, K) = <<>>
  PROVE  LineEnded(t, s, K) <=> Wiped(t, s, K)
<1>1. Kept(s, K) = Above(s, K)
  BY KeptParts
<1> QED BY <1>1 DEF Wiped, LineEnded

(* One line ended after another.                                            *)
LEMMA EndedBelow ==
  ASSUME NEW s \in Screens, NEW e, NEW t, NEW K, LineEnded(e, s, K), LineEnded(t, e, K)
  PROVE  LineEnded(t, s, K)
<1>1. e \in Screens /\ OnLine(e, K) = <<>>
  BY DEF LineEnded
<1> QED BY <1>1, WipedIsEnded, WipedAgain

-----------------------------------------------------------------------------
(* The commands and the prompt below them.                                 *)
LEMMA ApprovalShows ==
  ASSUME NEW s \in Screens, NEW commands \in Seq(Commanded)
  PROVE  /\ ApprovalUi(s, commands) \in Screens
         /\ ApprovalUi(s, commands).line = <<Item("prompt", "")>>
         /\ ApprovalUi(s, commands).spinner_active = FALSE
         /\ \A K : {"risk", "prompt"} \cap K = {} => Wiped(ApprovalUi(s, commands), s, K)
         /\ OnLine(ApprovalUi(s, commands), Labelled) = <<>>
         /\ Above(s, Labelled) = <<>> =>
              PiecesOf(Above(ApprovalUi(s, commands), Labelled)) = commands
<1>1. "risk" \in ItemKinds /\ "prompt" \in ItemKinds
  BY DEF ItemKinds
<1>2. PICK l : l = Listed(s, "risk", commands)
  OBVIOUS
<1>a. \A K : Lists(l, s, "risk", commands, K)
  BY <1>1, <1>2, ListedShows
<1>3. /\ l \in Screens
      /\ \A K : "risk" \notin K => Above(l, K) = Above(s, K)
      /\ \A K : "risk" \in K /\ Above(s, K) = <<>> => PiecesOf(Above(l, K)) = commands
  BY <1>a DEF Lists
<1>4. PICK t : t = Ask(l, "prompt")
  OBVIOUS
<1>5. /\ t \in Screens /\ t.line = <<Item("prompt", "")>> /\ t.spinner_active = FALSE
      /\ \A K : "prompt" \notin K => Wiped(t, l, K)
  BY <1>1, <1>3, <1>4, AskWipes
<1>6. ASSUME NEW K, {"risk", "prompt"} \cap K = {}
      PROVE  Wiped(t, s, K)
  <2>1. Wiped(t, l, K) /\ Above(l, K) = Above(s, K)
    BY <1>3, <1>5, <1>6
  <2> QED BY <2>1 DEF Wiped
<1>7. Wiped(t, l, Labelled)
  BY <1>5 DEF Labelled
<1>8. /\ OnLine(t, Labelled) = <<>>
      /\ Above(s, Labelled) = <<>> => PiecesOf(Above(t, Labelled)) = commands
  <2>1. "risk" \in Labelled
    BY DEF Labelled
  <2> QED BY <1>3, <1>7, <2>1 DEF Wiped
<1>9. ApprovalUi(s, commands) = t
  BY <1>2, <1>4 DEF ApprovalUi
<1> QED BY <1>5, <1>6, <1>8, <1>9

-----------------------------------------------------------------------------
(* What becomes of the commands of an answer.                              *)

(* The kinds of items that a gate shows.                                    *)
Gatings == {"warning", "denied", "blocked", "safe", "risk", "pty error", "judging", "prompt"}

(* With a warning, or without.                                              *)
LEMMA WarnedSees ==
  ASSUME NEW e \in Screens, e.line = <<>>, ~e.spinner_active, NEW warned \in {e, Warned(e)}
  PROVE  /\ warned \in Screens /\ ~warned.spinner_active
         /\ \A K : "warning" \notin K => Wiped(warned, e, K)
<1>1. "warning" \in ItemKinds
  BY DEF ItemKinds
<1>2. \A K : OnLine(e, K) = <<>>
  BY OfKindsFew DEF OnLine
<1>3. \A K : "warning" \notin K => Wiped(warned, e, K)
  <2>1. \A K : Wiped(e, e, K)
    BY <1>2, ScreenFields DEF Wiped
  <2>2. \A K : "warning" \notin K => Wiped(Warned(e), e, K)
    BY <1>1, InPlaceWipes DEF Warned
  <2> QED BY <2>1, <2>2
<1>4. warned \in Screens /\ ~warned.spinner_active
  <2>1. Wiped(warned, e, {})
    BY <1>3
  <2> QED BY <2>1 DEF Wiped
<1> QED BY <1>3, <1>4

(* What a gate does to the screen e, whatever it decides.                   *)
Decides(commands, e) ==
  /\ state' \in {"Idle", "Executing", "Judging", "Approving"}
  /\ proposal' \in Proposals
  /\ proposal' = proposal \/ proposal'.yes_buffer = <<>>
  /\ \A K : Gatings \cap K = {} => Wiped(screen', e, K)
  /\ state' # "Idle" =>
       /\ proposal'.commands = commands /\ proposal'.yes_buffer = <<>>
       /\ OnLine(screen', Labelled) = <<>>
  /\ state' = "Judging" => Above(screen', Labelled) = Above(e, Labelled)
  /\ state' \in {"Executing", "Approving"} /\ Above(e, Labelled) = <<>> =>
       PiecesOf(Above(screen', Labelled)) = commands
  /\ state' = "Approving" => screen'.line = <<Item("prompt", "")>>

(* Every decision of the gate does that.                                    *)
LEMMA GatedShows ==
  ASSUME NEW e \in Screens, e.line = <<>>, ~e.spinner_active,
         NEW commands \in Seq(Commanded), commands # <<>>,
         proposal \in Proposals, Gated(commands, e)
  PROVE  Decides(commands, e)
<1>1. PICK warned \in {e, Warned(e)} :
        \/ \E denied \in SUBSET (1..Len(commands)) \ {{}} :
             LET IsDenied(k) == \E i \in denied : commands[i] = commands[k]
                 refused     == Picked(commands, {k \in 1..Len(commands) : IsDenied(k)})
             IN /\ state' = "Idle" /\ UNCHANGED proposal
                /\ screen' = InPlace(Listed(e, "denied", refused), Item("blocked", ""))
        \/ /\ proposal' = Proposal(commands, FALSE)
           /\ LET listed == Listed(warned, "safe", commands) IN
                \/ state' = "Executing" /\ screen' = listed
                \/ state' = "Idle" /\ screen' = Below(listed, Item("pty error", ""))
        \/ \E need_yes \in BOOLEAN :
             /\ proposal' = Proposal(commands, need_yes)
             /\ \/ state' = "Judging" /\ screen' = Ask(warned, "judging")
                \/ state' = "Approving" /\ screen' = ApprovalUi(warned, commands)
  BY DEF Gated
<1>2. /\ warned \in Screens /\ ~warned.spinner_active
      /\ \A K : "warning" \notin K => Wiped(warned, e, K)
  BY WarnedSees
<1>3. /\ "denied" \in ItemKinds /\ "blocked" \in ItemKinds /\ "safe" \in ItemKinds
      /\ "pty error" \in ItemKinds /\ "judging" \in ItemKinds
  BY DEF ItemKinds
<1>4. \A need_yes \in BOOLEAN :
        /\ Proposal(commands, need_yes) \in Proposals
        /\ Proposal(commands, need_yes).commands = commands
        /\ Proposal(commands, need_yes).yes_buffer = <<>>
  BY EmptySeq DEF Proposal, Proposals
<1>5. Wiped(warned, e, Labelled) /\ \A K : Gatings \cap K = {} => Wiped(warned, e, K)
  BY <1>2 DEF Gatings, Labelled
<1>6. CASE \E denied \in SUBSET (1..Len(commands)) \ {{}} :
             LET IsDenied(k) == \E i \in denied : commands[i] = commands[k]
                 refused     == Picked(commands, {k \in 1..Len(commands) : IsDenied(k)})
             IN /\ state' = "Idle" /\ UNCHANGED proposal
                /\ screen' = InPlace(Listed(e, "denied", refused), Item("blocked", ""))
  <2>1. PICK P : /\ state' = "Idle" /\ UNCHANGED proposal
                 /\ screen' = InPlace(Listed(e, "denied", Picked(commands, P)), Item("blocked", ""))
    BY <1>6
  <2>2. Picked(commands, P) \in Seq(Commanded)
    <3>1. Len(commands) \in Nat /\ \A i \in 1..Len(commands) : commands[i] \in Commanded
      BY LenProperties, ElementOfSeq
    <3> QED BY <3>1, PickedLen
  <2>3. PICK l \in Screens : /\ l = Listed(e, "denied", Picked(commands, P))
                             /\ \A K : "denied" \notin K => Above(l, K) = Above(e, K)
    <3>1. PICK refused \in Seq(Commanded) : refused = Picked(commands, P)
      BY <2>2
    <3>2. \A K : Lists(Listed(e, "denied", refused), e, "denied", refused, K)
      BY <1>3, ListedShows
    <3> QED BY <3>1, <3>2 DEF Lists
  <2>4. \A K : "blocked" \notin K => Wiped(screen', l, K)
    BY <1>3, <2>1, <2>3, InPlaceWipes
  <2>5. ASSUME NEW K, Gatings \cap K = {}
        PROVE  Wiped(screen', e, K)
    <3>1. "blocked" \notin K /\ "denied" \notin K
      BY <2>5 DEF Gatings
    <3>2. Wiped(screen', l, K) /\ Above(l, K) = Above(e, K)
      BY <2>3, <2>4, <3>1
    <3> QED BY <3>2 DEF Wiped
  <2> QED BY <2>1, <2>5 DEF Decides
<1>7. CASE /\ proposal' = Proposal(commands, FALSE)
           /\ LET listed == Listed(warned, "safe", commands) IN
                \/ state' = "Executing" /\ screen' = listed
                \/ state' = "Idle" /\ screen' = Below(listed, Item("pty error", ""))
  <2>1. PICK l : l = Listed(warned, "safe", commands)
    OBVIOUS
  <2>2. /\ l \in Screens /\ l.line = <<>> /\ l.spinner_active = FALSE
        /\ \A K : "safe" \notin K => Above(l, K) = Above(warned, K)
        /\ \A K : "safe" \in K /\ Above(warned, K) = <<>> => PiecesOf(Above(l, K)) = commands
    <3>1. \A K : Lists(l, warned, "safe", commands, K)
      BY <1>2, <1>3, <2>1, ListedShows
    <3> QED BY <3>1 DEF Lists
  <2>3. \A K : OnLine(l, K) = <<>>
    BY <2>2, OfKindsFew DEF OnLine
  <2>4. ASSUME NEW K, Gatings \cap K = {}
        PROVE  Wiped(l, e, K)
    <3>1. "safe" \notin K
      BY <2>4 DEF Gatings
    <3>2. Wiped(l, warned, K)
      BY <2>2, <2>3, <3>1 DEF Wiped
    <3> QED BY <1>5, <2>4, <3>2, WipedAgain
  <2>5. /\ proposal' \in Proposals /\ proposal'.commands = commands
        /\ proposal'.yes_buffer = <<>>
    BY <1>4, <1>7
  <2>6. CASE state' = "Executing" /\ screen' = l
    <3>1. Above(e, Labelled) = <<>> => PiecesOf(Above(l, Labelled)) = commands
      <4>1. "safe" \in Labelled /\ Above(warned, Labelled) = Above(e, Labelled)
        BY <1>5 DEF Labelled, Wiped
      <4> QED BY <2>2, <4>1
    <3> QED BY <2>3, <2>4, <2>5, <2>6, <3>1 DEF Decides
  <2>7. CASE state' = "Idle" /\ screen' = Below(l, Item("pty error", ""))
    <3>1. \A K : Gatings \cap K = {} => Wiped(screen', e, K)
      <4> SUFFICES ASSUME NEW K, Gatings \cap K = {}
                   PROVE  Wiped(screen', e, K)
        OBVIOUS
      <4>1. "pty error" \notin K
        BY DEF Gatings
      <4>2. LineEnded(screen', l, K)
        BY <1>3, <2>2, <2>7, <4>1, BelowEnds
      <4>3. Wiped(screen', l, K)
        BY <2>2, <2>3, <4>2, WipedIsEnded
      <4> QED BY <2>4, <4>3, WipedAgain
    <3> QED BY <2>5, <2>7, <3>1 DEF Decides
  <2> QED BY <1>7, <2>1, <2>6, <2>7
<1>8. CASE \E need_yes \in BOOLEAN :
             /\ proposal' = Proposal(commands, need_yes)
             /\ \/ state' = "Judging" /\ screen' = Ask(warned, "judging")
                \/ state' = "Approving" /\ screen' = ApprovalUi(warned, commands)
  <2>1. /\ proposal' \in Proposals /\ proposal'.commands = commands
        /\ proposal'.yes_buffer = <<>>
    BY <1>4, <1>8
  <2>2. CASE state' = "Judging" /\ screen' = Ask(warned, "judging")
    <3>1. \A K : "judging" \notin K => Wiped(screen', warned, K)
      BY <1>2, <1>3, <2>2, AskWipes
    <3>2. /\ Wiped(screen', e, Labelled)
          /\ \A K : Gatings \cap K = {} => Wiped(screen', e, K)
      <4>1. "judging" \notin Labelled /\ \A K : Gatings \cap K = {} => "judging" \notin K
        BY DEF Gatings, Labelled
      <4> QED BY <1>5, <3>1, <4>1, WipedAgain
    <3> QED BY <2>1, <2>2, <3>2 DEF Decides, Wiped
  <2>3. CASE state' = "Approving" /\ screen' = ApprovalUi(warned, commands)
    <3>1. /\ screen'.line = <<Item("prompt", "")>>
          /\ \A K : {"risk", "prompt"} \cap K = {} => Wiped(screen', warned, K)
          /\ OnLine(screen', Labelled) = <<>>
          /\ Above(warned, Labelled) = <<>> => PiecesOf(Above(screen', Labelled)) = commands
      BY <1>2, <2>3, ApprovalShows
    <3>2. Above(warned, Labelled) = Above(e, Labelled)
      BY <1>5 DEF Wiped
    <3>3. \A K : Gatings \cap K = {} => Wiped(screen', e, K)
      <4>1. \A K : Gatings \cap K = {} => {"risk", "prompt"} \cap K = {}
        BY DEF Gatings
      <4> QED BY <1>5, <3>1, <4>1, WipedAgain
    <3> QED BY <2>1, <2>3, <3>1, <3>2, <3>3 DEF Decides
  <2> QED BY <1>8, <2>2, <2>3
<1> QED BY <1>1, <1>6, <1>7, <1>8

(* What the invariant says is kept when the line is ended.                 *)
LEMMA WhatIsKept ==
  ASSUME ShowInv
  PROVE  /\ screen \in Screens
         /\ ~Noise("output") => Kept(screen, {"spinner"}) = <<>>
         /\ state # "Idle" => Kept(screen, {"error"}) = <<>>
         /\ state # "Idle" => Kept(screen, Labelled) = Above(screen, Labelled)
         /\ ~single /\ ~Noise("child") /\ ~Noise("thought") =>
              PiecesOf(Kept(screen, {"text"})) = TextHandled
<1>1. /\ screen \in Screens /\ Places /\ SpinnerInv /\ FailureInv /\ ProposalInv /\ TextInv
      /\ screen.spinner_active \in BOOLEAN
  BY ScreenFields DEF ShowInv, ShowsTyped
<1>2. Kept(screen, {"spinner"}) = Above(screen, {"spinner"})
  BY <1>1, KeptParts DEF SpinnerInv
<1>3. state # "Idle" => Kept(screen, {"error"}) = Above(screen, {"error"})
  BY <1>1, KeptParts DEF FailureInv
<1>4. state # "Idle" => Kept(screen, Labelled) = Above(screen, Labelled)
  BY <1>1, KeptParts DEF ProposalInv
<1>5. ASSUME ~single, ~Noise("child"), ~Noise("thought")
      PROVE  PiecesOf(Kept(screen, {"text"})) = TextHandled
  <2>1. PiecesOf(Visible(screen, {"text"})) = TextHandled
    BY <1>1, <1>5 DEF TextInv
  <2>2. CASE ~screen.spinner_active
    BY <1>1, <2>1, <2>2, KeptParts
  <2>3. CASE screen.spinner_active
    <3>1. TextHandled = <<>>
      BY <1>1, <1>5, <2>3 DEF TextInv, SpinnerInv
    <3>2. Visible(screen, {"text"}) = <<>>
      BY <1>1, <2>1, <3>1, VisibleParts, PiecesOfTyped
    <3>3. Kept(screen, {"text"}) = Visible(screen, {"text"})
      BY <1>1, <2>3, <3>2, VisibleParts, KeptParts
    <3> QED BY <2>1, <3>3
  <2> QED BY <2>2, <2>3
<1> QED BY <1>1, <1>2, <1>3, <1>4, <1>5 DEF SpinnerInv, FailureInv

(* A step of the event loop that takes no event: the client is as it was.  *)
LEMMA ClientStays ==
  ASSUME ClientTyped, taken \in 0..Len(out), UNCHANGED <<vars, taken>>
  PROVE  /\ ClientTyped' /\ taken' \in 0..Len(out') /\ single' = single /\ phase' = phase
         /\ (Failed' <=> Failed) /\ TextHandled' = TextHandled
BY DEF vars, ClientTyped, Failed, TextHandled

(* The line is ended and the stream is over.                               *)
LEMMA EndsKeep ==
  ASSUME ShowInv, state' # "Streaming", UNCHANGED <<vars, taken, noise>>,
         LineEnded(screen', screen, {"spinner"}), LineEnded(screen', screen, {"text"})
  PROVE  SpinnerInv' /\ TextInv'
<1>1. single' = single /\ TextHandled' = TextHandled /\ \A k : Noise(k)' <=> Noise(k)
  BY ClientStays DEF ShowInv, ShowsTyped, Noise
<1>2. SpinnerInv'
  BY <1>1, WhatIsKept DEF SpinnerInv, LineEnded
<1>3. TextInv'
  <2>1. /\ screen' \in Screens /\ OnLine(screen', {"text"}) = <<>>
        /\ Above(screen', {"text"}) = Kept(screen, {"text"})
    BY DEF LineEnded
  <2>2. Visible(screen', {"text"}) = Kept(screen, {"text"})
    BY <2>1, VisibleParts
  <2>3. ~single' /\ ~Noise("child")' /\ ~Noise("thought")' =>
          PiecesOf(Visible(screen', {"text"})) = TextHandled'
    BY <1>1, <2>2, WhatIsKept
  <2> QED BY <2>1, <2>3 DEF TextInv
<1> QED BY <1>2, <1>3

(* Idle: no error is seen but that of a stream that failed, unless the     *)
(* answer was cancelled.                                                   *)
LEMMA IdleKeeps ==
  ASSUME ShowInv, state # "Idle", state' = "Idle", UNCHANGED <<vars, taken, noise>>,
         display' \in Displays, proposal' \in Proposals, held' \in BOOLEAN,
         proposal'.need_yes \/ proposal'.yes_buffer = <<>>,
         \A K : K \in {{"spinner"}, {"text"}} => LineEnded(screen', screen, K),
         \/ Above(screen', {"cancelled"}) # <<>>
         \/ ~Failed /\ LineEnded(screen', screen, {"error"})
         \/ Failed /\ Above(screen', {"error"}) # <<>>
  PROVE  ShowInv'
<1>1. /\ ClientTyped' /\ taken' \in 0..Len(out') /\ single' = single /\ phase' = phase
      /\ (Failed' <=> Failed)
  BY ClientStays DEF ShowInv, ShowsTyped
<1>2. SpinnerInv' /\ TextInv' /\ screen' \in Screens
  BY EndsKeep DEF LineEnded
<1>3. ShowsTyped'
  <2>1. noise' \in Seq({"output", "child", "thought"})
    BY DEF ShowInv, ShowsTyped
  <2> QED BY <1>1, <1>2, <2>1 DEF ShowsTyped
<1>4. Places'
  BY <1>1 DEF ShowInv, Places
<1>5. ProposalInv'
  BY DEF ProposalInv
<1>6. FailureInv'
  <2>1. CASE Above(screen', {"cancelled"}) # <<>>
    <3>1. Visible(screen', {"cancelled"}) # <<>>
      BY <1>2, <2>1, VisibleParts
    <3> QED BY <3>1 DEF FailureInv
  <2>2. CASE ~Failed /\ LineEnded(screen', screen, {"error"})
    <3>1. Above(screen', {"error"}) = <<>> /\ OnLine(screen', {"error"}) = <<>>
      BY <2>2, WhatIsKept DEF LineEnded
    <3>2. Visible(screen', {"error"}) = <<>>
      BY <1>2, <3>1, VisibleParts
    <3> QED BY <1>1, <2>2, <3>2 DEF FailureInv
  <2>3. CASE Failed /\ Above(screen', {"error"}) # <<>>
    <3>1. Visible(screen', {"error"}) # <<>>
      BY <1>2, <2>3, VisibleParts
    <3> QED BY <1>1, <2>3, <3>1 DEF FailureInv
  <2> QED BY <2>1, <2>2, <2>3
<1> QED BY <1>1, <1>2, <1>3, <1>4, <1>5, <1>6 DEF ShowInv

(* What was held back comes before the next line.                          *)
LEMMA FlushedSees ==
  ASSUME ShowsTyped
  PROVE  /\ Flushed \in Screens /\ Flushed.spinner_active = screen.spinner_active
         /\ \A K : "output" \notin K => /\ Above(Flushed, K) = Above(screen, K)
                                        /\ OnLine(Flushed, K) = OnLine(screen, K)
                                        /\ Kept(Flushed, K) = Kept(screen, K)
<1>1. screen \in Screens /\ "output" \in ItemKinds
  BY DEF ShowsTyped, ItemKinds
<1>2. PICK item \in Items : item = Item("output", "") /\ item.kind = "output"
  BY <1>1, LineItem
<1>3. /\ Put(screen, item) \in Screens /\ Put(screen, item).spinner_active = screen.spinner_active
      /\ \A K : Above(Put(screen, item), K) = Above(screen, K)
      /\ \A K : "output" \notin K => OnLine(Put(screen, item), K) = OnLine(screen, K)
  BY <1>1, <1>2, PutSees
<1>4. PICK f : f = Flushed
  OBVIOUS
<1>5. f = screen \/ f = Put(screen, item)
  BY <1>2, <1>4 DEF Flushed
<1>6. /\ f \in Screens /\ f.spinner_active = screen.spinner_active
      /\ \A K : "output" \notin K => /\ Above(f, K) = Above(screen, K)
                                     /\ OnLine(f, K) = OnLine(screen, K)
  BY <1>1, <1>3, <1>5
<1>7. ASSUME NEW K, "output" \notin K
      PROVE  Kept(f, K) = Kept(screen, K)
  <2>1. Above(f, K) = Above(screen, K) /\ OnLine(f, K) = OnLine(screen, K)
    BY <1>6, <1>7
  <2>2. Visible(f, K) = Visible(screen, K)
    BY <1>1, <1>6, <2>1, VisibleParts
  <2>3. CASE f.spinner_active
    BY <1>1, <1>6, <2>1, <2>3, KeptParts
  <2>4. CASE ~f.spinner_active
    BY <1>1, <1>6, <2>2, <2>4, KeptParts
  <2> QED BY <2>3, <2>4
<1> QED BY <1>4, <1>6, <1>7

(* What ends a line after the output ends the line.                         *)
LEMMA FlushedEnds ==
  ASSUME ShowsTyped, NEW t, NEW K, "output" \notin K, LineEnded(t, Flushed, K)
  PROVE  LineEnded(t, screen, K)
BY FlushedSees DEF LineEnded

-----------------------------------------------------------------------------
(* The ways to Idle: control-C, n, and a write to the shell that fails.    *)
LEMMA GivingUpKeeps ==
  ASSUME ShowInv, NEW kind \in {"cancelled", "skipped", "pty error"},
         state \in {"Streaming", "Judging", "Approving"}, kind # "cancelled" => state = "Approving",
         Decided("Idle", Below(Flushed, Item(kind, "")))
  PROVE  ShowInv'
<1>1. /\ state' = "Idle" /\ screen' = Below(Flushed, Item(kind, "")) /\ held' = FALSE
      /\ UNCHANGED <<vars, taken, display, proposal, noise>>
  BY DEF Decided
<1>2. ShowsTyped /\ Flushed \in Screens
  BY FlushedSees DEF ShowInv
<1>3. kind \in ItemKinds
  BY DEF ItemKinds
<1>4. \A K : /\ kind \notin K => LineEnded(screen', Flushed, K)
             /\ kind \in K => Above(screen', K) # <<>>
  BY <1>1, <1>2, <1>3, BelowEnds
<1>5. \A K : kind \notin K /\ "output" \notin K => LineEnded(screen', screen, K)
  BY <1>2, <1>4, FlushedEnds
<1>6. \A K : K \in {{"spinner"}, {"text"}, {"error"}} => LineEnded(screen', screen, K)
  BY <1>5
<1>7. kind = "cancelled" => Above(screen', {"cancelled"}) # <<>>
  BY <1>4
<1>8. state = "Approving" => ~Failed
  BY DEF ShowInv, FailureInv
<1>9. display' \in Displays /\ proposal' \in Proposals /\ held' \in BOOLEAN
  BY <1>1, <1>2 DEF ShowsTyped
<1>10. proposal'.need_yes \/ proposal'.yes_buffer = <<>>
  BY <1>1 DEF ShowInv, Places
<1> QED BY <1>1, <1>6, <1>7, <1>8, <1>9, <1>10, IdleKeeps

(* Control-C.                                                               *)
LEMMA CancelKeeps ==
  ASSUME ShowInv, Cancel
  PROVE  ShowInv'
BY GivingUpKeeps DEF Cancel, Waiting

(* n, or Enter after anything else than yes.                                *)
LEMMA RefuseKeyKeeps ==
  ASSUME ShowInv, RefuseKey
  PROVE  ShowInv'
BY GivingUpKeeps DEF RefuseKey

(* y, or Enter after yes.                                                   *)
LEMMA ApproveKeyKeeps ==
  ASSUME ShowInv, ApproveKey
  PROVE  ShowInv'
<1>1. CASE Decided("Idle", Below(Flushed, Item("pty error", "")))
  BY <1>1, GivingUpKeeps DEF ApproveKey
<1>2. CASE Decided("Executing", Flushed)
  <2>1. /\ state = "Approving" /\ state' = "Executing" /\ screen' = Flushed /\ held' = FALSE
        /\ UNCHANGED <<vars, taken, display, proposal, noise>>
    BY <1>2 DEF Decided, ApproveKey
  <2>2. /\ ShowsTyped /\ Places /\ SpinnerInv /\ FailureInv /\ ProposalInv /\ TextInv
        /\ ~screen.spinner_active /\ screen \in Screens
    BY <2>1 DEF ShowInv, SpinnerInv, ShowsTyped
  <2>3. /\ screen' \in Screens /\ ~screen'.spinner_active
        /\ \A K : "output" \notin K => /\ Above(screen', K) = Above(screen, K)
                                       /\ OnLine(screen', K) = OnLine(screen, K)
    BY <2>1, <2>2, FlushedSees
  <2>4. /\ ClientTyped' /\ taken' \in 0..Len(out') /\ single' = single /\ phase' = phase
        /\ (Failed' <=> Failed) /\ TextHandled' = TextHandled /\ \A k : Noise(k)' <=> Noise(k)
    BY <2>1, <2>2, ClientStays DEF ShowInv, ShowsTyped, Noise
  <2>5. /\ Above(screen', {"spinner"}) = Above(screen, {"spinner"})
        /\ OnLine(screen', {"spinner"}) = OnLine(screen, {"spinner"})
    BY <2>3
  <2>6. Above(screen', {"error"}) = Above(screen, {"error"}) /\ OnLine(screen', {"error"}) = OnLine(screen, {"error"})
    BY <2>3
  <2>7. Above(screen', Labelled) = Above(screen, Labelled) /\ OnLine(screen', Labelled) = OnLine(screen, Labelled)
    BY <2>3 DEF Labelled
  <2>8. Above(screen', {"text"}) = Above(screen, {"text"}) /\ OnLine(screen', {"text"}) = OnLine(screen, {"text"})
    BY <2>3
  <2>9. ShowsTyped'
    BY <2>1, <2>2, <2>3, <2>4 DEF ShowsTyped
  <2>10. Places'
    BY <2>1, <2>2, <2>4 DEF Places
  <2>11. SpinnerInv' /\ FailureInv'
    BY <2>1, <2>2, <2>3, <2>4, <2>5, <2>6 DEF SpinnerInv, FailureInv
  <2>12. ProposalInv'
    BY <2>1, <2>2, <2>7 DEF ProposalInv
  <2>13. TextInv'
    <3>1. Visible(screen', {"text"}) = Visible(screen, {"text"})
      BY <2>2, <2>3, <2>8, VisibleParts, ZenonT(60)
    <3> QED BY <2>1, <2>2, <2>4, <2>8, <3>1 DEF TextInv
  <2> QED BY <2>4, <2>9, <2>10, <2>11, <2>12, <2>13 DEF ShowInv
<1> QED BY <1>1, <1>2 DEF ApproveKey

(* The line of the prompt.                                                 *)
TypedOf(p) == [i \in DOMAIN p.yes_buffer |-> Item("typed", p.yes_buffer[i])]

(* What was typed, item by item,                                            *)
LEMMA TypedItems ==
  ASSUME NEW p \in Proposals
  PROVE  /\ TypedOf(p) \in Seq(Items) /\ p.yes_buffer \in Seq({"yes", "other"})
         /\ Len(p.yes_buffer) \in Nat /\ Len(TypedOf(p)) = Len(p.yes_buffer)
         /\ \A i \in 1..Len(p.yes_buffer) : /\ TypedOf(p)[i] = Item("typed", p.yes_buffer[i])
                                            /\ TypedOf(p)[i] \in Items
                                            /\ TypedOf(p)[i].kind = "typed"
<1>1. /\ p.yes_buffer \in Seq({"yes", "other"}) /\ Len(p.yes_buffer) \in Nat
      /\ DOMAIN p.yes_buffer = 1..Len(p.yes_buffer)
      /\ \A i \in 1..Len(p.yes_buffer) : p.yes_buffer[i] \in {"yes", "other"}
  <2>1. PICK b \in Seq({"yes", "other"}) : b = p.yes_buffer
    BY DEF Proposals
  <2> QED BY <2>1, LenProperties, ElementOfSeq
<1>2. "typed" \in ItemKinds /\ "yes" \in Shown /\ "other" \in Shown
  BY DEF ItemKinds, Shown, Labels
<1>3. \A i \in 1..Len(p.yes_buffer) : /\ Item("typed", p.yes_buffer[i]) \in Items
                                      /\ Item("typed", p.yes_buffer[i]).kind = "typed"
  BY <1>1, <1>2, ItemTyped
<1>4. TypedOf(p) = [i \in 1..Len(p.yes_buffer) |-> Item("typed", p.yes_buffer[i])]
  BY <1>1 DEF TypedOf
<1>5. TypedOf(p) \in Seq(Items) /\ Len(TypedOf(p)) = Len(p.yes_buffer)
  BY <1>1, <1>3, <1>4
<1> QED BY <1>1, <1>3, <1>4, <1>5

(* and the prompt itself.                                                   *)
LEMMA PromptItem ==
  /\ Item("prompt", "") \in Items /\ Item("prompt", "").kind = "prompt"
  /\ <<Item("prompt", "")>> \in Seq(Items)
<1>1. "prompt" \in ItemKinds
  BY DEF ItemKinds
<1>2. PICK item \in Items : item = Item("prompt", "") /\ item.kind = "prompt"
  BY <1>1, LineItem
<1>3. <<item>> \in Seq(Items)
  OBVIOUS
<1> QED BY <1>2, <1>3

(* The prompt's line shows nothing of other kinds.                          *)
LEMMA PromptedShows ==
  ASSUME NEW p \in Proposals, NEW K, "prompt" \notin K, "typed" \notin K
  PROVE  Prompted(p) \in Seq(Items) /\ OfKinds(Prompted(p), K) = <<>>
<1>1. PICK a \in Seq(Items), b \in Seq(Items) : a = <<Item("prompt", "")>> /\ b = TypedOf(p)
  BY TypedItems, PromptItem
<1>2. OfKinds(a, K) = <<>>
  BY <1>1, PromptItem, OfKindsFew
<1>3. OfKinds(b, K) = <<>>
  <2>1. \A i \in 1..Len(b) : b[i].kind \notin K
    BY <1>1, TypedItems
  <2> QED BY <2>1, OfKindsNone
<1>4. \A L : OfKinds(a \o b, L) = OfKinds(a, L) \o OfKinds(b, L)
  BY OfKindsConcat, ZenonT(60)
<1>a. a \o b \in Seq(Items)
  BY ConcatProperties
<1>5. Prompted(p) = a \o b
  BY <1>1 DEF Prompted, TypedOf
<1>6. <<>> \o <<>> = <<>>
  OBVIOUS
<1> QED BY <1>2, <1>3, <1>4, <1>5, <1>6, <1>a

(* The line before anything is typed,                                       *)
LEMMA PromptedFirst ==
  ASSUME NEW p \in Proposals, p.yes_buffer = <<>>
  PROVE  Prompted(p) = <<Item("prompt", "")>>
<1>1. PICK line \in Seq(Items), typed \in Seq(Items) : line = <<Item("prompt", "")>> /\ typed = TypedOf(p)
  BY TypedItems, PromptItem
<1>2. typed = <<>>
  BY <1>1, TypedItems, EmptySeq
<1>3. line \o typed = line
  BY <1>2, ConcatEmptySeq
<1> QED BY <1>1, <1>3 DEF Prompted, TypedOf

(* after a word more,                                                       *)
LEMMA PromptedMore ==
  ASSUME NEW p \in Proposals, NEW q \in Proposals, NEW word \in {"yes", "other"},
         q.yes_buffer = Append(p.yes_buffer, word)
  PROVE  /\ Prompted(q) = Append(Prompted(p), Item("typed", word))
         /\ Prompted(p) \in Seq(Items) /\ Item("typed", word) \in Items
<1>1. PICK line \in Seq(Items), typed \in Seq(Items), more \in Seq(Items) :
        line = <<Item("prompt", "")>> /\ typed = TypedOf(p) /\ more = TypedOf(q)
  BY TypedItems, PromptItem
<1>2. PICK b \in Seq({"yes", "other"}), c \in Seq({"yes", "other"}) :
        b = p.yes_buffer /\ c = q.yes_buffer
  BY TypedItems
<1>3. /\ Len(b) \in Nat /\ Len(c) = Len(b) + 1 /\ c[Len(b) + 1] = word
      /\ \A i \in 1..Len(b) : c[i] = b[i]
  BY <1>2, AppendProperties, LenProperties
<1>4. /\ Len(typed) = Len(b) /\ Len(more) = Len(c)
      /\ \A i \in 1..Len(b) : typed[i] = Item("typed", b[i])
      /\ \A i \in 1..Len(c) : more[i] = Item("typed", c[i]) /\ more[i] \in Items
  BY <1>1, <1>2, TypedItems
<1>5. PICK item \in Items : item = Item("typed", word)
  BY <1>3, <1>4
<1>6. more = Append(typed, item)
  <2>1. /\ Append(typed, item) \in Seq(Items) /\ Len(Append(typed, item)) = Len(typed) + 1
        /\ \A i \in 1..Len(typed) : Append(typed, item)[i] = typed[i]
        /\ Append(typed, item)[Len(typed) + 1] = item
    BY AppendProperties
  <2>2. /\ Len(more) = Len(Append(typed, item)) /\ Len(typed) = Len(b) /\ Len(b) \in Nat
        /\ Len(more) = Len(b) + 1
    BY <1>3, <1>4, <2>1
  <2>3. \A i \in 1..Len(b) : more[i] = Append(typed, item)[i]
    <3> SUFFICES ASSUME NEW i \in 1..Len(b) PROVE more[i] = Append(typed, item)[i]
      OBVIOUS
    <3>1. i \in 1..Len(c) /\ i \in 1..Len(typed)
      BY <1>3, <2>2
    <3>2. more[i] = Item("typed", c[i]) /\ typed[i] = Item("typed", b[i]) /\ c[i] = b[i]
      BY <1>3, <1>4, <3>1
    <3> QED BY <2>1, <3>1, <3>2
  <2>4. more[Len(b) + 1] = Append(typed, item)[Len(b) + 1]
    <3>1. Len(b) + 1 \in 1..Len(c)
      BY <1>3
    <3>2. more[Len(b) + 1] = Item("typed", word)
      BY <1>3, <1>4, <3>1
    <3> QED BY <1>5, <2>1, <2>2, <3>2
  <2>5. \A i \in 1..Len(more) : more[i] = Append(typed, item)[i]
    <3>1. \A i \in 1..Len(more) : i \in 1..Len(b) \/ i = Len(b) + 1
      BY <2>2
    <3> QED BY <2>3, <2>4, <3>1
  <2> QED BY <2>1, <2>2, <2>5, SeqEqual
<1>7. line \o Append(typed, item) = Append(line \o typed, item) /\ line \o typed \in Seq(Items)
  BY ConcatAppend, ConcatProperties, SMTT(40)
<1>8. Prompted(p) = line \o typed /\ Prompted(q) = line \o more
  BY <1>1 DEF Prompted, TypedOf
<1> QED BY <1>5, <1>6, <1>7, <1>8

(* and after a backspace.                                                   *)
LEMMA PromptedLess ==
  ASSUME NEW p \in Proposals, NEW q \in Proposals, p.yes_buffer # <<>>,
         q.yes_buffer = SubSeq(p.yes_buffer, 1, Len(p.yes_buffer) - 1)
  PROVE  Prompted(q) = SubSeq(Prompted(p), 1, Len(Prompted(p)) - 1)
<1>1. PICK b \in Seq({"yes", "other"}), c \in Seq({"yes", "other"}) :
        b = p.yes_buffer /\ c = q.yes_buffer
  BY TypedItems
<1>2. Len(b) \in Nat /\ Len(b) # 0 /\ \A i \in 1..Len(b) : b[i] \in {"yes", "other"}
  BY <1>1, LenProperties, ElementOfSeq, EmptySeq
<1>3. Len(c) = Len(b) - 1 /\ \A i \in 1..(Len(b) - 1) : c[i] = b[i]
  <2>1. \A i \in 1..(Len(b) - 1) : b[i] \in {"yes", "other"}
    BY <1>2
  <2> QED BY <1>1, <1>2, <2>1, SubSeqProperties
<1>4. PICK word \in {"yes", "other"} : word = b[Len(b)]
  BY <1>2
<1>5. b = Append(c, word)
  <2>1. /\ Append(c, word) \in Seq({"yes", "other"}) /\ Len(Append(c, word)) = Len(c) + 1
        /\ \A i \in 1..Len(c) : Append(c, word)[i] = c[i]
        /\ Append(c, word)[Len(c) + 1] = word
    BY AppendProperties
  <2>2. Len(b) = Len(Append(c, word)) /\ \A i \in 1..Len(b) : b[i] = Append(c, word)[i]
    BY <1>2, <1>3, <1>4, <2>1
  <2> QED BY <2>1, <2>2, SeqEqual
<1>6. /\ Prompted(p) = Append(Prompted(q), Item("typed", word))
      /\ Prompted(q) \in Seq(Items) /\ Item("typed", word) \in Items
  BY <1>1, <1>5, PromptedMore
<1> QED BY <1>6, FrontOfAppend

-----------------------------------------------------------------------------
(* There is something to decide on, and the line has been ended.           *)
LEMMA DecidingKeeps ==
  ASSUME ShowInv, state # "Idle", state' \in {"Judging", "Approving", "Executing"},
         UNCHANGED <<vars, taken, noise>>,
         display' \in Displays, proposal' \in Proposals, held' \in BOOLEAN,
         \A K : K \in {{"spinner"}, {"text"}, {"error"}} => LineEnded(screen', screen, K),
         ~Failed, Places', ProposalInv'
  PROVE  ShowInv'
<1>1. /\ ClientTyped' /\ taken' \in 0..Len(out') /\ single' = single /\ phase' = phase
      /\ (Failed' <=> Failed)
  BY ClientStays DEF ShowInv, ShowsTyped
<1>2. SpinnerInv' /\ TextInv' /\ screen' \in Screens
  BY EndsKeep DEF LineEnded
<1>3. ShowsTyped'
  <2>1. noise' \in Seq({"output", "child", "thought"})
    BY DEF ShowInv, ShowsTyped
  <2> QED BY <1>1, <1>2, <2>1 DEF ShowsTyped
<1>4. FailureInv'
  <2>1. Above(screen', {"error"}) = <<>> /\ OnLine(screen', {"error"}) = <<>>
    BY WhatIsKept DEF LineEnded
  <2> QED BY <1>1, <2>1 DEF FailureInv
<1> QED BY <1>1, <1>2, <1>3, <1>4 DEF ShowInv

(* The verdict is told and the user is asked.                               *)
LEMMA HandleVerdictKeeps ==
  ASSUME ShowInv, HandleVerdict
  PROVE  ShowInv'
<1>1. /\ state = "Judging" /\ state' = "Approving" /\ held' = FALSE
      /\ UNCHANGED <<vars, taken, display, proposal, noise>>
  BY DEF HandleVerdict
<1>2. PICK verdict \in {"Safe", "Unsafe", "Error"} :
        screen' = ApprovalUi(VerdictShown(Flushed, verdict), proposal.commands)
  BY DEF HandleVerdict
<1>3. /\ ShowsTyped /\ Places /\ FailureInv /\ ProposalInv /\ SpinnerInv /\ screen \in Screens
      /\ Flushed.spinner_active = screen.spinner_active /\ Flushed \in Screens
  BY FlushedSees DEF ShowInv, ShowsTyped
<1>4. PICK v : v = VerdictShown(Flushed, verdict)
  OBVIOUS
<1>5. v \in Screens /\ \A K : {"output", "verdict"} \cap K = {} => Above(v, K) = Above(screen, K)
  <2>1. "verdict" \in ItemKinds
    BY DEF ItemKinds
  <2>2. \A K : "verdict" \notin K => Wiped(InPlace(Flushed, Item("verdict", "")), Flushed, K)
    BY <1>3, <2>1, InPlaceWipes
  <2>3. v = Flushed \/ v = InPlace(Flushed, Item("verdict", ""))
    BY <1>4 DEF VerdictShown
  <2>4. \A K : "output" \notin K => Above(Flushed, K) = Above(screen, K)
    BY <1>3, FlushedSees
  <2>5. CASE v = Flushed
    BY <1>3, <2>4, <2>5
  <2>6. CASE v = InPlace(Flushed, Item("verdict", ""))
    <3>1. \A K : "verdict" \notin K => Wiped(v, Flushed, K)
      BY <2>2, <2>6
    <3>2. v \in Screens
      <4>1. Wiped(v, Flushed, {})
        BY <3>1
      <4> QED BY <4>1 DEF Wiped
    <3>3. \A K : {"output", "verdict"} \cap K = {} => Above(v, K) = Above(screen, K)
      BY <2>4, <3>1 DEF Wiped
    <3> QED BY <3>2, <3>3
  <2> QED BY <2>3, <2>5, <2>6
<1>6. proposal.commands \in Seq(Commanded) /\ proposal.commands # <<>> /\ proposal.yes_buffer = <<>>
      /\ proposal \in Proposals
  BY <1>1, <1>3 DEF ShowsTyped, Places, Proposals
<1>7. /\ screen' \in Screens /\ screen'.line = <<Item("prompt", "")>>
      /\ \A K : {"risk", "prompt"} \cap K = {} => Wiped(screen', v, K)
      /\ OnLine(screen', Labelled) = <<>>
      /\ Above(v, Labelled) = <<>> => PiecesOf(Above(screen', Labelled)) = proposal.commands
  BY <1>2, <1>4, <1>5, <1>6, ApprovalShows
<1>8. ASSUME NEW K, {"output", "verdict", "risk", "prompt"} \cap K = {}, OnLine(screen, K) = <<>>
      PROVE  LineEnded(screen', screen, K)
  <2>1. Wiped(screen', v, K) /\ Above(v, K) = Above(screen, K)
    BY <1>5, <1>7, <1>8
  <2>2. Wiped(screen', screen, K)
    BY <2>1 DEF Wiped
  <2> QED BY <1>3, <1>8, <2>2, WipedIsEnded
<1>9. ~screen.spinner_active
  BY <1>1, <1>3 DEF SpinnerInv
<1>10. /\ LineEnded(screen', screen, {"spinner"}) /\ LineEnded(screen', screen, {"text"})
       /\ LineEnded(screen', screen, {"error"})
  <2>1. /\ OnLine(screen, {"spinner"}) = <<>> /\ OnLine(screen, {"text"}) = <<>>
        /\ OnLine(screen, {"error"}) = <<>>
    BY <1>1, <1>3, <1>9 DEF SpinnerInv, FailureInv, ShowInv, TextInv
  <2> QED BY <1>8, <2>1
<1>11. ProposalInv'
  <2>1. Above(v, Labelled) = <<>>
    <3>1. {"output", "verdict"} \cap Labelled = {}
      BY DEF Labelled
    <3> QED BY <1>1, <1>3, <1>5, <3>1 DEF ProposalInv
  <2>2. screen'.line = Prompted(proposal)
    BY <1>6, <1>7, PromptedFirst
  <2> QED BY <1>1, <1>7, <2>1, <2>2 DEF ProposalInv
<1>12. Places' /\ ~Failed
  <2>1. single' = single /\ taken' = taken
    BY <1>1 DEF vars
  <2> QED BY <1>1, <1>3, <1>6, <2>1 DEF Places, FailureInv
<1>13. display' \in Displays /\ proposal' \in Proposals /\ held' \in BOOLEAN
  BY <1>1, <1>3 DEF ShowsTyped
<1> QED BY <1>1, <1>10, <1>11, <1>12, <1>13, DecidingKeeps

(* What is typed is seen after the prompt; a note takes its place.         *)
LEMMA TypeKeyKeeps ==
  ASSUME ShowInv, TypeKey
  PROVE  ShowInv'
<1>1. /\ state = "Approving" /\ state' = state
      /\ UNCHANGED <<vars, taken, display, held, noise>>
  BY DEF TypeKey
<1>2. /\ ShowsTyped /\ Places /\ FailureInv /\ ProposalInv /\ SpinnerInv /\ TextInv
      /\ screen \in Screens /\ proposal \in Proposals /\ ~screen.spinner_active
  BY <1>1 DEF ShowInv, ShowsTyped, SpinnerInv
<1>3. /\ OnLine(screen, {"spinner"}) = <<>> /\ OnLine(screen, {"text"}) = <<>>
      /\ OnLine(screen, {"error"}) = <<>> /\ OnLine(screen, Labelled) = <<>>
      /\ PiecesOf(Above(screen, Labelled)) = proposal.commands
  BY <1>1, <1>2 DEF SpinnerInv, FailureInv, TextInv, ProposalInv
<1>4. /\ proposal.yes_buffer \in Seq({"yes", "other"}) /\ Len(proposal.yes_buffer) \in Nat
      /\ proposal.yes_buffer # <<>> => proposal.need_yes
      /\ proposal.need_yes => screen.line = Prompted(proposal)
  BY <1>1, <1>2, TypedItems DEF Places, ProposalInv
<1>5. ASSUME proposal' \in Proposals, proposal'.commands = proposal.commands, proposal'.need_yes,
             screen' \in Screens, ~screen'.spinner_active, screen'.above = screen.above,
             screen'.line = Prompted(proposal')
      PROVE  ShowInv'
  <2>1. \A K : Above(screen', K) = Above(screen, K)
    BY <1>5 DEF Above
  <2>2. \A K : "prompt" \notin K /\ "typed" \notin K => OnLine(screen', K) = <<>>
    BY <1>5, PromptedShows DEF OnLine
  <2>3. \A K : "prompt" \notin K /\ "typed" \notin K => Wiped(screen', screen, K)
    <3>1. screen'.spinner_active = FALSE
      BY <1>5, ScreenFields
    <3> QED BY <1>5, <2>1, <2>2, <3>1 DEF Wiped
  <2>4. /\ LineEnded(screen', screen, {"spinner"}) /\ LineEnded(screen', screen, {"text"})
        /\ LineEnded(screen', screen, {"error"})
    BY <1>2, <1>3, <2>3, WipedIsEnded
  <2>5. ProposalInv'
    <3>1. OnLine(screen', Labelled) = <<>>
      BY <2>2 DEF Labelled
    <3> QED BY <1>1, <1>3, <1>5, <2>1, <3>1 DEF ProposalInv
  <2>6. Places' /\ ~Failed
    <3>1. single' = single /\ taken' = taken
      BY <1>1 DEF vars
    <3> QED BY <1>1, <1>2, <1>5, <3>1 DEF Places, FailureInv
  <2>7. display' \in Displays /\ held' \in BOOLEAN
    BY <1>1, <1>2 DEF ShowsTyped
  <2> QED BY <1>1, <1>5, <2>4, <2>5, <2>6, <2>7, DecidingKeeps
<1>6. CASE \E word \in {"yes", "other"} :
             /\ proposal.need_yes /\ Len(proposal.yes_buffer) < MaxTyped
             /\ proposal' = [proposal EXCEPT !.yes_buffer = Append(@, word)]
             /\ screen' = Echo(screen, word)
  <2>1. PICK word \in {"yes", "other"} :
          /\ proposal.need_yes
          /\ proposal' = [proposal EXCEPT !.yes_buffer = Append(@, word)]
          /\ screen' = Put(screen, Item("typed", word))
    BY <1>6 DEF Echo
  <2>2. Append(proposal.yes_buffer, word) \in Seq({"yes", "other"})
    BY <1>4, AppendProperties
  <2>3. /\ proposal' \in Proposals /\ proposal'.commands = proposal.commands
        /\ proposal'.need_yes = proposal.need_yes
        /\ proposal'.yes_buffer = Append(proposal.yes_buffer, word)
    BY <1>2, <2>1, <2>2 DEF Proposals
  <2>4. Prompted(proposal') = Append(Prompted(proposal), Item("typed", word)) /\ Item("typed", word) \in Items
    BY <1>2, <2>3, PromptedMore
  <2>5. PICK item \in Items : item = Item("typed", word)
    BY <2>4
  <2>6. /\ Put(screen, item) \in Screens /\ Put(screen, item).above = screen.above
        /\ Put(screen, item).line = Append(screen.line, item)
        /\ Put(screen, item).spinner_active = screen.spinner_active
    BY <1>2, PutShows
  <2> QED BY <1>2, <1>4, <1>5, <2>1, <2>3, <2>4, <2>5, <2>6
<1>7. CASE /\ proposal.yes_buffer # <<>>
           /\ proposal' = [proposal EXCEPT !.yes_buffer = SubSeq(@, 1, Len(@) - 1)]
           /\ screen' = Rubout(screen)
  <2>1. SubSeq(proposal.yes_buffer, 1, Len(proposal.yes_buffer) - 1) \in Seq({"yes", "other"})
    <3>1. PICK b \in Seq({"yes", "other"}) : b = proposal.yes_buffer
      BY <1>4
    <3>2. Len(b) \in Nat /\ Len(b) # 0 /\ \A i \in 1..Len(b) : b[i] \in {"yes", "other"}
      BY <1>7, <3>1, LenProperties, ElementOfSeq, EmptySeq
    <3>3. Len(b) - 1 \in Nat /\ \A i \in 1..(Len(b) - 1) : b[i] \in {"yes", "other"}
      BY <3>2
    <3>4. SubSeq(b, 1, Len(b) - 1) \in Seq({"yes", "other"})
      BY <3>2, <3>3, SubSeqProperties
    <3> QED BY <3>1, <3>4
  <2>2. /\ proposal' \in Proposals /\ proposal'.commands = proposal.commands
        /\ proposal'.need_yes = proposal.need_yes
        /\ proposal'.yes_buffer = SubSeq(proposal.yes_buffer, 1, Len(proposal.yes_buffer) - 1)
    BY <1>2, <1>7, <2>1 DEF Proposals
  <2>3. Prompted(proposal') = SubSeq(Prompted(proposal), 1, Len(Prompted(proposal)) - 1)
    BY <1>2, <1>7, <2>2, PromptedLess
  <2>4. screen.line = Prompted(proposal)
    BY <1>4, <1>7
  <2>5. PICK line \in Seq(Items) : line = SubSeq(screen.line, 1, Len(screen.line) - 1)
    <3>1. Prompted(proposal') \in Seq(Items)
      <4> DEFINE none == {}
      <4>1. "prompt" \notin none /\ "typed" \notin none
        OBVIOUS
      <4> HIDE DEF none
      <4> QED BY <2>2, <4>1, PromptedShows
    <3> QED BY <2>3, <2>4, <3>1
  <2>6. screen' = [screen EXCEPT !.line = line]
    BY <1>7, <2>5 DEF Rubout
  <2>7. /\ screen' \in Screens /\ screen'.above = screen.above /\ screen'.line = line
        /\ screen'.spinner_active = screen.spinner_active
    BY <1>2, <2>6 DEF Screens
  <2> QED BY <1>2, <1>4, <1>5, <1>7, <2>2, <2>3, <2>4, <2>5, <2>7
<1>8. CASE /\ ~proposal.need_yes
           /\ screen' = Below(screen, Item("edit", "")) /\ UNCHANGED proposal
  <2>1. "edit" \in ItemKinds
    BY DEF ItemKinds
  <2>2. \A K : /\ "edit" \notin K => LineEnded(screen', screen, K)
               /\ "edit" \in K => Above(screen', K) # <<>>
    BY <1>2, <1>8, <2>1, BelowEnds
  <2>3. /\ LineEnded(screen', screen, {"spinner"}) /\ LineEnded(screen', screen, {"text"})
        /\ LineEnded(screen', screen, {"error"}) /\ Above(screen', {"edit"}) # <<>>
    BY <2>2
  <2>4. LineEnded(screen', screen, Labelled)
    BY <2>2 DEF Labelled
  <2>5. Above(screen', Labelled) = Above(screen, Labelled) /\ OnLine(screen', Labelled) = <<>>
    BY <1>2, <1>3, <2>4, WipedIsEnded DEF Wiped
  <2>6. ProposalInv'
    BY <1>1, <1>3, <1>8, <2>3, <2>5 DEF ProposalInv
  <2>7. Places' /\ ~Failed
    <3>1. single' = single /\ taken' = taken
      BY <1>1 DEF vars
    <3> QED BY <1>1, <1>2, <1>8, <3>1 DEF Places, FailureInv
  <2>8. display' \in Displays /\ proposal' \in Proposals /\ held' \in BOOLEAN
    BY <1>1, <1>2, <1>8 DEF ShowsTyped
  <2> QED BY <1>1, <2>3, <2>6, <2>7, <2>8, DecidingKeeps
<1> QED BY <1>6, <1>7, <1>8 DEF TypeKey

(* The client goes on; nothing is shown for it.                            *)
LEMMA AnsweringKeeps ==
  ASSUME ShowInv, Answering
  PROVE  ShowInv'
<1>1. Next /\ UNCHANGED <<state, taken, display, proposal, held, screen, noise>>
  BY DEF Answering, shows
<1>2. ClientTyped /\ taken \in 0..Len(out) /\ taken' = taken
  BY <1>1 DEF ShowInv, ShowsTyped
<1>3. /\ ClientTyped'
      /\ taken' \in 0..Len(out') /\ (Failed' <=> Failed) /\ TextHandled' = TextHandled
  <2>1. ClientTyped'
    BY <1>1, <1>2, ClientKeepsTypes
  <2> QED BY <1>1, <1>2, <2>1, HandledStays
<1>4. single' = single
  BY <1>1 DEF Next, PostFails, Wake, ReadSingle, Break, Close, Deliver, Finish, PostRefused,
              PostAccepted, Receive, http
<1>5. \A k : Noise(k)' <=> Noise(k)
  BY <1>1 DEF Noise
<1>6. phase # "Ended"
  BY <1>1, EndIsLast
<1>7. ShowsTyped'
  BY <1>1, <1>3 DEF ShowInv, ShowsTyped
<1>8. Places'
  BY <1>1, <1>4, <1>6 DEF ShowInv, Places
<1>9. SpinnerInv'
  BY <1>1, <1>5 DEF ShowInv, SpinnerInv
<1>10. FailureInv'
  BY <1>1, <1>3 DEF ShowInv, FailureInv
<1>11. ProposalInv'
  BY <1>1 DEF ShowInv, ProposalInv
<1>12. TextInv'
  BY <1>1, <1>3, <1>4, <1>5 DEF ShowInv, TextInv
<1> QED BY <1>3, <1>7, <1>8, <1>9, <1>10, <1>11, <1>12 DEF ShowInv

(* A step that changes nothing.                                             *)
(* That the judge's task has panicked is not shown.                         *)
LEMMA StutterKeeps ==
  ASSUME ShowInv, JudgePanics \/ UNCHANGED all
  PROVE  ShowInv'
<1>1. UNCHANGED vars /\ UNCHANGED <<state, taken, display, proposal, held, screen, noise>>
  BY DEF all, shows, JudgePanics
<1>2. /\ ClientTyped' /\ taken' \in 0..Len(out') /\ single' = single /\ phase' = phase
      /\ (Failed' <=> Failed) /\ TextHandled' = TextHandled /\ \A k : Noise(k)' <=> Noise(k)
  BY <1>1, ClientStays DEF ShowInv, ShowsTyped, Noise
<1>3. ShowsTyped' /\ Places' /\ SpinnerInv'
  BY <1>1, <1>2 DEF ShowInv, ShowsTyped, Places, SpinnerInv
<1>4. FailureInv' /\ ProposalInv' /\ TextInv'
  BY <1>1, <1>2 DEF ShowInv, FailureInv, ProposalInv, TextInv
<1> QED BY <1>2, <1>3, <1>4 DEF ShowInv

-----------------------------------------------------------------------------
(* While the answer streams: what no text and no error has touched.        *)
LEMMA StreamingKeeps ==
  ASSUME ShowInv, state = "Streaming", state' = "Streaming", UNCHANGED <<vars, taken, proposal>>,
         display' = display, held' \in BOOLEAN, noise' \in Seq({"output", "child", "thought"}),
         \A k : Noise(k) => Noise(k)',
         screen' \in Screens,
         ~screen'.spinner_active => OnLine(screen', {"spinner"}) = <<>>,
         ~Noise("output")' => Above(screen', {"spinner"}) = <<>>,
         Above(screen', {"error"}) = <<>>, OnLine(screen', {"error"}) = <<>>,
         Above(screen', Labelled) = <<>>, OnLine(screen', Labelled) = <<>>,
         ~single /\ ~Noise("child")' /\ ~Noise("thought")' =>
           /\ Visible(screen', {"text"}) = Visible(screen, {"text"})
           /\ display.streaming_text # <<>> => ~screen'.spinner_active
  PROVE  ShowInv'
<1>1. /\ ClientTyped' /\ taken' \in 0..Len(out') /\ single' = single /\ phase' = phase
      /\ (Failed' <=> Failed) /\ TextHandled' = TextHandled
  BY ClientStays DEF ShowInv, ShowsTyped
<1>2. ShowsTyped' /\ Places' /\ SpinnerInv'
  BY <1>1 DEF ShowInv, ShowsTyped, Places, SpinnerInv
<1>3. FailureInv' /\ ProposalInv'
  BY <1>1 DEF ShowInv, FailureInv, ProposalInv
<1>4. TextInv'
  BY <1>1 DEF ShowInv, TextInv
<1> QED BY <1>1, <1>2, <1>3, <1>4 DEF ShowInv

(* What the invariant says of a screen on which an answer streams.         *)
LEMMA StreamingScreen ==
  ASSUME ShowInv, state = "Streaming"
  PROVE  /\ screen \in Screens /\ display \in Displays /\ ~single
         /\ ~screen.spinner_active => OnLine(screen, {"spinner"}) = <<>>
         /\ ~Noise("output") => Above(screen, {"spinner"}) = <<>>
         /\ Above(screen, {"error"}) = <<>> /\ OnLine(screen, {"error"}) = <<>>
         /\ Above(screen, Labelled) = <<>> /\ OnLine(screen, Labelled) = <<>>
         /\ ~Noise("child") /\ ~Noise("thought") =>
              /\ display.streaming_text = <<>> => Visible(screen, {"text"}) = <<>>
              /\ display.streaming_text # <<>> => ~screen.spinner_active /\ ~display.is_thinking
<1>1. screen \in Screens /\ display \in Displays /\ ~single
  BY DEF ShowInv, ShowsTyped, Places
<1>2. /\ ~screen.spinner_active => OnLine(screen, {"spinner"}) = <<>>
      /\ ~Noise("output") => Above(screen, {"spinner"}) = <<>>
      /\ Above(screen, {"error"}) = <<>> /\ OnLine(screen, {"error"}) = <<>>
      /\ Above(screen, Labelled) = <<>> /\ OnLine(screen, Labelled) = <<>>
  BY DEF ShowInv, SpinnerInv, FailureInv, ProposalInv
<1>3. ASSUME ~Noise("child"), ~Noise("thought")
      PROVE  /\ display.streaming_text = <<>> => Visible(screen, {"text"}) = <<>>
             /\ display.streaming_text # <<>> => ~screen.spinner_active /\ ~display.is_thinking
  <2>1. /\ PiecesOf(Visible(screen, {"text"})) = TextHandled
        /\ display.streaming_text = <<>> => TextHandled = <<>>
        /\ display.streaming_text # <<>> => ~screen.spinner_active /\ ~display.is_thinking
    BY <1>1, <1>3 DEF ShowInv, TextInv
  <2>2. PiecesOf(Visible(screen, {"text"})) = <<>> => Visible(screen, {"text"}) = <<>>
    BY <1>1, VisibleParts, PiecesOfTyped
  <2> QED BY <2>1, <2>2
<1> QED BY <1>1, <1>2, <1>3

(* A tick takes the line before there is text on it.                       *)
LEMMA HandleTickKeeps ==
  ASSUME ShowInv, HandleTick
  PROVE  ShowInv'
<1>1. /\ state = "Streaming" /\ state' = "Streaming" /\ display.streaming_text = <<>>
      /\ UNCHANGED <<vars, taken, proposal, display, held, noise>> /\ screen' = SpinnerTick(screen)
  BY DEF HandleTick, Spins
<1>2. /\ screen \in Screens /\ screen' \in Screens /\ screen'.spinner_active = TRUE
      /\ \A K : Above(screen', K) = Above(screen, K)
      /\ \A K : "spinner" \notin K => OnLine(screen', K) = <<>>
  BY <1>1, TickSees DEF ShowInv, ShowsTyped
<1>3. /\ OnLine(screen', {"error"}) = <<>> /\ OnLine(screen', {"text"}) = <<>>
      /\ OnLine(screen', Labelled) = <<>>
  BY <1>2 DEF Labelled
<1>4. Visible(screen, {"text"}) = <<>> => Visible(screen', {"text"}) = Visible(screen, {"text"})
  BY <1>2, <1>3, VisibleParts
<1>5. held' \in BOOLEAN /\ noise' \in Seq({"output", "child", "thought"}) /\ \A k : Noise(k)' <=> Noise(k)
  BY <1>1 DEF ShowInv, ShowsTyped, Noise
<1> QED BY <1>1, <1>2, <1>3, <1>4, <1>5, StreamingScreen, StreamingKeeps

(* While the user decides, or the judge, what comes in between is not shown*)
LEMMA UnseenKeeps ==
  ASSUME ShowInv, state \in {"Judging", "Approving"},
         UNCHANGED <<vars, state, taken, display, proposal, screen>>, held' \in BOOLEAN,
         noise' \in Seq({"output", "child", "thought"}), \A k : Noise(k) => Noise(k)'
  PROVE  ShowInv'
<1>1. /\ ClientTyped' /\ taken' \in 0..Len(out') /\ single' = single /\ phase' = phase
      /\ (Failed' <=> Failed) /\ TextHandled' = TextHandled
  BY ClientStays DEF ShowInv, ShowsTyped
<1>2. ShowsTyped' /\ Places' /\ SpinnerInv'
  BY <1>1 DEF ShowInv, ShowsTyped, Places, SpinnerInv
<1>3. FailureInv' /\ ProposalInv' /\ TextInv'
  BY <1>1 DEF ShowInv, FailureInv, ProposalInv, TextInv
<1> QED BY <1>1, <1>2, <1>3 DEF ShowInv

(* Output of the shell: it follows what is on the line, or ends the line.  *)
LEMMA HandleOutputKeeps ==
  ASSUME ShowInv, HandleOutput
  PROVE  ShowInv'
<1>1. /\ state \in {"Streaming", "Judging", "Approving"} /\ noise' = Append(noise, "output")
      /\ UNCHANGED <<vars, state, taken, display, proposal>>
  BY DEF HandleOutput, Noisy
<1>2. /\ noise' \in Seq({"output", "child", "thought"}) /\ Noise("output")'
      /\ \A k : Noise(k) => Noise(k)'
  <2>1. noise \in Seq({"output", "child", "thought"})
    BY DEF ShowInv, ShowsTyped
  <2>2. "output" \in {"output", "child", "thought"}
    OBVIOUS
  <2> QED BY <1>1, <2>1, <2>2, NoiseGrows
<1>3. CASE Deciding
  <2>1. held' = TRUE /\ screen' = screen /\ state \in {"Judging", "Approving"}
    BY <1>3 DEF HandleOutput, Deciding
  <2> QED BY <1>1, <1>2, <2>1, UnseenKeeps
<1>4. CASE ~Deciding
  <2>1. state = "Streaming" /\ state' = "Streaming" /\ held' = held
    BY <1>1, <1>4 DEF HandleOutput, Deciding
  <2>2. screen' = Put(screen, Item("output", "")) \/ screen' = NextLine(screen)
    BY <1>4 DEF HandleOutput
  <2>3. screen \in Screens /\ held' \in BOOLEAN
    BY <2>1 DEF ShowInv, ShowsTyped
  <2>4. \A K : "output" \notin K =>
          /\ screen' \in Screens /\ screen'.spinner_active = screen.spinner_active
          /\ Visible(screen', K) = Visible(screen, K)
          /\ OnLine(screen, K) = <<>> => /\ OnLine(screen', K) = <<>>
                                         /\ Above(screen', K) = Above(screen, K)
    <3>1. "output" \in ItemKinds
      BY DEF ItemKinds
    <3>2. PICK item \in Items : item = Item("output", "") /\ item.kind = "output"
      BY <3>1, LineItem
    <3>3. CASE screen' = Put(screen, item)
      BY <2>3, <3>2, <3>3, PutSees, ZenonT(60)
    <3>4. CASE screen' = NextLine(screen)
      BY <2>3, <3>4, NextLineSees, VisibleParts
    <3> QED BY <2>2, <3>2, <3>3, <3>4
  <2>5. /\ screen' \in Screens /\ screen'.spinner_active = screen.spinner_active
        /\ OnLine(screen, {"spinner"}) = <<>> => OnLine(screen', {"spinner"}) = <<>>
    BY <2>4
  <2>6. Visible(screen', {"text"}) = Visible(screen, {"text"})
    BY <2>4
  <2>7. Above(screen', {"error"}) = <<>> /\ OnLine(screen', {"error"}) = <<>>
    BY <2>1, <2>4, StreamingScreen
  <2>8. Above(screen', Labelled) = <<>> /\ OnLine(screen', Labelled) = <<>>
    <3>1. "output" \notin Labelled
      BY DEF Labelled
    <3> QED BY <2>1, <2>4, <3>1, StreamingScreen
  <2> QED BY <1>1, <1>2, <2>1, <2>3, <2>5, <2>6, <2>7, <2>8, StreamingScreen, StreamingKeeps
<1> QED BY <1>3, <1>4

(* A report of an agent takes the line.                                    *)
LEMMA HandleChildKeeps ==
  ASSUME ShowInv, HandleChild
  PROVE  ShowInv'
<1>1. /\ state \in {"Streaming", "Judging", "Approving"} /\ noise' = Append(noise, "child")
      /\ UNCHANGED <<vars, state, taken, display, proposal, held>>
  BY DEF HandleChild, Noisy
<1>2. /\ noise' \in Seq({"output", "child", "thought"}) /\ Noise("child")'
      /\ \A k : Noise(k) => Noise(k)'
  <2>1. noise \in Seq({"output", "child", "thought"})
    BY DEF ShowInv, ShowsTyped
  <2>2. "child" \in {"output", "child", "thought"}
    OBVIOUS
  <2> QED BY <1>1, <2>1, <2>2, NoiseGrows
<1>3. held' \in BOOLEAN
  BY <1>1 DEF ShowInv, ShowsTyped
<1>4. CASE Deciding
  <2>1. screen' = screen /\ state \in {"Judging", "Approving"}
    BY <1>4 DEF HandleChild, Deciding
  <2> QED BY <1>1, <1>2, <1>3, <2>1, UnseenKeeps
<1>5. CASE ~Deciding
  <2>1. /\ state = "Streaming" /\ state' = "Streaming"
        /\ screen' = InPlace(screen, Item("child", ""))
    BY <1>1, <1>5 DEF HandleChild, Deciding
  <2>2. \A K : "child" \notin K => Wiped(screen', screen, K)
    <3>1. "child" \in ItemKinds /\ screen \in Screens
      BY DEF ItemKinds, ShowInv, ShowsTyped
    <3> QED BY <2>1, <3>1, InPlaceWipes
  <2>3. /\ Wiped(screen', screen, {"spinner"}) /\ Wiped(screen', screen, {"error"})
        /\ Wiped(screen', screen, Labelled)
    BY <2>2 DEF Labelled
  <2>4. /\ screen' \in Screens /\ OnLine(screen', {"spinner"}) = <<>>
        /\ Above(screen', {"spinner"}) = Above(screen, {"spinner"})
    BY <2>3 DEF Wiped
  <2>5. /\ Above(screen', {"error"}) = <<>> /\ OnLine(screen', {"error"}) = <<>>
        /\ Above(screen', Labelled) = <<>> /\ OnLine(screen', Labelled) = <<>>
    BY <2>1, <2>3, StreamingScreen DEF Wiped
  <2> QED BY <1>1, <1>2, <1>3, <2>1, <2>4, <2>5, StreamingScreen, StreamingKeeps
<1> QED BY <1>4, <1>5

(* The fields after an event.                                              *)
LEMMA AccumulatedIs ==
  ASSUME NEW d \in Displays, NEW event \in Events, NEW e, e = Accumulated(d, event)
  PROVE  /\ e \in Displays
         /\ e.status = "Error" <=> \/ event.kind = "Error"
                                   \/ d.status = "Error" /\ event.kind \notin {"TextDelta", "ThinkingDelta"}
         /\ event.kind = "TextDelta" => /\ e.streaming_text = d.streaming_text \o event.content
                                        /\ e.is_thinking = FALSE
         /\ event.kind # "TextDelta" => e.streaming_text = d.streaming_text
         /\ event.kind \notin {"TextDelta", "ThinkingDelta"} => e.is_thinking = d.is_thinking
<1>1. /\ event.content \in Texts /\ d.streaming_text \in Texts /\ d.thinking_text \in Texts
      /\ ShowsThought(d, event) \in BOOLEAN
  BY DEF Events, Displays, ShowsThought
<1>2. d.streaming_text \o event.content \in Texts /\ d.thinking_text \o event.content \in Texts
  BY <1>1, ConcatProperties DEF Texts
<1>3. CASE event.kind = "ThinkingDelta"
  <2>1. e = [d EXCEPT !.status = "Thinking", !.is_thinking = TRUE,
                      !.thinking_text = @ \o event.content,
                      !.first_line_shown = @ \/ ShowsThought(d, event)]
    BY <1>3 DEF Accumulated
  <2> QED BY <1>1, <1>2, <1>3, <2>1 DEF Displays
<1>4. CASE event.kind = "TextDelta"
  <2>1. e = [d EXCEPT !.status = "Streaming", !.is_thinking = FALSE,
                      !.streaming_text = @ \o event.content]
    BY <1>4 DEF Accumulated
  <2> QED BY <1>2, <1>4, <2>1 DEF Displays
<1>5. CASE event.kind = "Error"
  <2>1. e = [d EXCEPT !.status = "Error"]
    BY <1>5 DEF Accumulated
  <2> QED BY <1>5, <2>1 DEF Displays
<1>6. CASE event.kind \notin {"ThinkingDelta", "TextDelta", "Error"}
  BY <1>6 DEF Accumulated
<1> QED BY <1>3, <1>4, <1>5, <1>6

(* An event is drawn; text that is handled is text that is shown.          *)
LEMMA HandleChunkKeeps ==
  ASSUME ShowInv, HandleChunk
  PROVE  ShowInv'
<1>1. /\ state = "Streaming" /\ state' = "Streaming" /\ taken < Len(out) /\ taken' = taken + 1
      /\ UNCHANGED <<vars, proposal, held>>
      /\ ClientTyped /\ taken \in 0..Len(out)
  BY DEF HandleChunk, ShowInv, ShowsTyped
<1>2. PICK event \in Events : event = out[taken + 1]
  <2>1. taken + 1 \in 1..Len(out) /\ out \in Seq(Events)
    BY <1>1, LenProperties DEF ClientTyped
  <2> QED BY <2>1, ElementOfSeq
<1>3. /\ display' = Accumulated(display, event)
      /\ screen' = Drawn(display, screen, event)
      /\ noise' = IF event.kind = "ThinkingDelta" /\ display.streaming_text # <<>>
                  THEN Append(noise, "thought") ELSE noise
  BY <1>2 DEF HandleChunk
<1>4. out' = out /\ single' = single /\ phase' = phase
  BY <1>1 DEF vars
<1>5. ClientTyped'
  BY <1>1 DEF ClientTyped, vars
<1>6. /\ taken' \in 0..Len(out')
      /\ Failed' <=> event.kind = "Error" \/ (Failed /\ event.kind \notin {"TextDelta", "ThinkingDelta"})
      /\ event.kind = "TextDelta" => TextHandled' = TextHandled \o SeenPieces(event.content)
      /\ event.kind # "TextDelta" => TextHandled' = TextHandled
      /\ TextHandled \in Texts
  BY <1>1, <1>2, <1>4, OneMoreHandled
<1>7. /\ noise' \in Seq({"output", "child", "thought"}) /\ \A k : Noise(k) => Noise(k)'
      /\ ~Noise("thought")' => ~(event.kind = "ThinkingDelta" /\ display.streaming_text # <<>>)
  <2>1. noise \in Seq({"output", "child", "thought"})
    BY DEF ShowInv, ShowsTyped
  <2>2. CASE noise' = noise /\ ~(event.kind = "ThinkingDelta" /\ display.streaming_text # <<>>)
    BY <2>1, <2>2 DEF Noise
  <2>3. CASE noise' = Append(noise, "thought")
    <3>1. "thought" \in {"output", "child", "thought"}
      OBVIOUS
    <3> QED BY <2>1, <2>3, <3>1, NoiseGrows
  <2> QED BY <1>3, <2>2, <2>3
<1>8. PICK d \in Displays : d = display
  BY <1>1, StreamingScreen
<1>e. PICK e : e = display' /\ e = Accumulated(d, event)
  BY <1>3, <1>8
<1>9. /\ e \in Displays
      /\ e.status = "Error" <=> \/ event.kind = "Error"
                                \/ d.status = "Error" /\ event.kind \notin {"TextDelta", "ThinkingDelta"}
      /\ event.kind = "TextDelta" => /\ e.streaming_text = d.streaming_text \o event.content
                                     /\ e.is_thinking = FALSE
      /\ event.kind # "TextDelta" => e.streaming_text = d.streaming_text
      /\ event.kind \notin {"TextDelta", "ThinkingDelta"} => e.is_thinking = d.is_thinking
  BY <1>8, <1>e, AccumulatedIs
<1>10. PICK s \in Screens : s = screen
  BY <1>1, StreamingScreen
<1>t. PICK t : t = screen' /\ t = Drawn(d, s, event)
  BY <1>3, <1>8, <1>10
<1>11. ASSUME NEW K, "text" \notin K, "thought" \notin K, OfKinds(Left(s), K) = <<>>
       PROVE  /\ t \in Screens /\ Above(t, K) = Above(s, K) /\ OfKinds(Left(t), K) = <<>>
              /\ OnLine(s, K) = <<>> => OnLine(t, K) = <<>>
  BY <1>10, <1>t, <1>11, DrawnKeeps
<1>12. /\ t \in Screens /\ Above(t, {"spinner"}) = Above(s, {"spinner"})
       /\ ~t.spinner_active => OnLine(t, {"spinner"}) = <<>>
  <2>1. OfKinds(Left(s), {"spinner"}) = <<>>
    BY <1>1, <1>10, <1>t, StreamingScreen, OfKindsFew DEF Left, OnLine
  <2>2. /\ t \in Screens /\ Above(t, {"spinner"}) = Above(s, {"spinner"})
        /\ OfKinds(Left(t), {"spinner"}) = <<>>
    BY <1>11, <2>1
  <2> QED BY <2>2 DEF Left, OnLine
<1>13. Above(t, {"error"}) = <<>> /\ OnLine(t, {"error"}) = <<>>
  <2>1. Above(s, {"error"}) = <<>> /\ OnLine(s, {"error"}) = <<>>
    BY <1>1, <1>10, <1>t, StreamingScreen
  <2>2. OfKinds(Left(s), {"error"}) = <<>>
    BY <2>1, KeptParts
  <2> QED BY <1>11, <2>1, <2>2
<1>14. Above(t, Labelled) = <<>> /\ OnLine(t, Labelled) = <<>>
  <2>1. Above(s, Labelled) = <<>> /\ OnLine(s, Labelled) = <<>>
    BY <1>1, <1>10, <1>t, StreamingScreen
  <2>2. OfKinds(Left(s), Labelled) = <<>>
    BY <2>1, KeptParts
  <2>3. "text" \notin Labelled /\ "thought" \notin Labelled
    BY DEF Labelled
  <2> QED BY <1>11, <2>1, <2>2, <2>3
<1>15. ShowsTyped'
  BY <1>1, <1>6, <1>7, <1>8, <1>e, <1>9, <1>10, <1>t, <1>12 DEF ShowInv, ShowsTyped
<1>16. Places'
  BY <1>1, <1>4 DEF ShowInv, Places
<1>17. SpinnerInv'
  BY <1>1, <1>7, <1>10, <1>t, <1>12 DEF ShowInv, SpinnerInv
<1>18. FailureInv'
  BY <1>1, <1>6, <1>8, <1>e, <1>9, <1>10, <1>t, <1>13 DEF ShowInv, FailureInv
<1>19. ProposalInv'
  BY <1>1, <1>10, <1>t, <1>14 DEF ProposalInv
<1>20. TextInv'
  <2> SUFFICES ASSUME ~Noise("child")', ~Noise("thought")'
               PROVE  /\ PiecesOf(Visible(t, {"text"})) = TextHandled'
                      /\ e.streaming_text = <<>> => TextHandled' = <<>>
                      /\ e.streaming_text # <<>> => ~t.spinner_active /\ ~e.is_thinking
    BY <1>1, <1>8, <1>e, <1>10, <1>t DEF TextInv
  <2>1. ~single /\ ~Noise("child") /\ ~Noise("thought")
    BY <1>1, <1>7, StreamingScreen
  <2>2. /\ PiecesOf(Visible(s, {"text"})) = TextHandled
        /\ d.streaming_text = <<>> => TextHandled = <<>>
        /\ d.streaming_text # <<>> => ~s.spinner_active /\ ~d.is_thinking
        /\ d.streaming_text = <<>> => Visible(s, {"text"}) = <<>>
        /\ event.kind = "ThinkingDelta" => d.streaming_text = <<>>
    BY <1>1, <1>7, <1>8, <1>e, <1>10, <1>t, <2>1, StreamingScreen DEF ShowInv, TextInv
  <2>3. CASE event.kind = "TextDelta"
    <3>1. /\ PiecesOf(Visible(t, {"text"})) = PiecesOf(Visible(s, {"text"})) \o SeenPieces(event.content)
          /\ ~t.spinner_active
      BY <1>10, <1>t, <2>2, <2>3, DrawnAddsText
    <3>2. ASSUME e.streaming_text = <<>>
          PROVE  TextHandled' = <<>>
      <4>1. PICK old \in Texts, new \in Texts : old = d.streaming_text /\ new = event.content
        BY DEF Displays, Events
      <4>2. old \o new = <<>>
        BY <1>9, <2>3, <3>2, <4>1
      <4>3. old = <<>> /\ new = <<>>
        BY <4>2, ConcatEqualIffEmpty DEF Texts
      <4>4. SeenPieces(new) = <<>>
        <5>1. Len(new) = 0
          BY <4>3
        <5>2. \A i \in 1..Len(new) : i \notin {j \in 1..Len(new) : new[j] # LineBreak}
          BY <5>1
        <5> QED BY <5>2, PickedNothing DEF SeenPieces, Texts
      <4>5. <<>> \o <<>> = <<>>
        OBVIOUS
      <4> QED BY <1>6, <2>2, <2>3, <4>1, <4>3, <4>4, <4>5
    <3> QED BY <1>6, <1>9, <2>2, <2>3, <3>1, <3>2
  <2>4. CASE event.kind # "TextDelta"
    <3>1. /\ Visible(t, {"text"}) = Visible(s, {"text"})
          /\ d.streaming_text # <<>> => t = s
      BY <1>10, <1>t, <2>2, <2>4, DrawnAddsText
    <3> QED BY <1>6, <1>9, <2>2, <2>4, <3>1
  <2> QED BY <2>3, <2>4
<1> QED BY <1>5, <1>15, <1>16, <1>17, <1>18, <1>19, <1>20 DEF ShowInv

(* The end of the stream is told, and the commands are decided on.         *)
LEMMA HandleDoneKeeps ==
  ASSUME ShowInv, HandleDone
  PROVE  ShowInv'
<1>1. /\ state = "Streaming" /\ phase = "Ended"
      /\ UNCHANGED <<vars, taken, display, held, noise>>
      /\ screen \in Screens /\ proposal \in Proposals /\ ~single /\ ClientTyped
      /\ taken \in 0..Len(out) /\ (display.status = "Error" <=> Failed)
  BY DEF HandleDone, ShowInv, ShowsTyped, Places, FailureInv
<1>2. display' \in Displays /\ held' \in BOOLEAN
  BY <1>1 DEF ShowInv, ShowsTyped
<1>3. proposal.need_yes \/ proposal.yes_buffer = <<>>
  BY DEF ShowInv, Places
<1>4. CASE display.status = "Error"
  <2>1. /\ state' = "Idle" /\ proposal' = proposal
        /\ screen' = Below(StreamEnd(screen), Item("error", ""))
    BY <1>4 DEF HandleDone, Ended
  <2>2. PICK e \in Screens : e = StreamEnd(screen) /\ \A K : LineEnded(e, screen, K)
    <3>1. LineEnded(StreamEnd(screen), screen, {})
      BY <1>1, StreamEndEnds
    <3>2. StreamEnd(screen) \in Screens
      BY <3>1 DEF LineEnded
    <3> QED BY <1>1, <3>2, StreamEndEnds
  <2>3. \A K : /\ "error" \notin K => LineEnded(screen', e, K)
               /\ "error" \in K => Above(screen', K) # <<>>
    <3>1. "error" \in ItemKinds
      BY DEF ItemKinds
    <3> QED BY <2>1, <2>2, <3>1, BelowEnds
  <2>4. \A K : "error" \notin K => LineEnded(screen', screen, K)
    BY <1>1, <2>2, <2>3, EndedBelow
  <2>5. LineEnded(screen', screen, {"spinner"}) /\ LineEnded(screen', screen, {"text"})
        /\ Above(screen', {"error"}) # <<>>
    BY <2>3, <2>4
  <2> QED BY <1>1, <1>2, <1>3, <1>4, <2>1, <2>5, IdleKeeps
<1>5. CASE display.status # "Error"
  <2>1. PICK e \in Screens : /\ e = StreamEnd(screen) /\ e.line = <<>> /\ ~e.spinner_active
                             /\ \A K : LineEnded(e, screen, K)
    BY <1>1, StreamEndShows, StreamEndEnds
  <2>2. Ended(display, screen) = e /\ ~Failed
    BY <1>1, <1>5, <2>1 DEF Ended
  <2>3. CASE Commands = <<>>
    <3>1. state' = "Idle" /\ proposal' = proposal /\ screen' = InPlace(e, Item("footer", ""))
      BY <1>5, <2>2, <2>3 DEF HandleDone
    <3>2. \A K : "footer" \notin K => Wiped(screen', e, K)
      <4>1. "footer" \in ItemKinds
        BY DEF ItemKinds
      <4> QED BY <3>1, <4>1, InPlaceWipes
    <3>3. \A K : "footer" \notin K => LineEnded(screen', screen, K)
      BY <2>1, <3>2, WipedAgain
    <3>4. /\ LineEnded(screen', screen, {"spinner"}) /\ LineEnded(screen', screen, {"text"})
          /\ LineEnded(screen', screen, {"error"})
      BY <3>3
    <3> QED BY <1>1, <1>2, <1>3, <2>2, <3>1, <3>4, IdleKeeps
  <2>4. CASE Commands # <<>>
    <3>1. PICK commands \in Seq(Commanded) : commands = Commands /\ commands # <<>>
      BY <1>1, <2>4, CommandsTyped
    <3>2. Gated(commands, e)
      BY <1>5, <2>2, <2>4, <3>1 DEF HandleDone
    <3>3. Decides(commands, e)
      BY <1>1, <2>1, <3>1, <3>2, GatedShows
    <3>4. \A K : Gatings \cap K = {} => LineEnded(screen', screen, K)
      BY <2>1, <3>3, WipedAgain DEF Decides
    <3>5. /\ LineEnded(screen', screen, {"spinner"}) /\ LineEnded(screen', screen, {"text"})
          /\ LineEnded(screen', screen, {"error"})
      <4>1. /\ Gatings \cap {"spinner"} = {} /\ Gatings \cap {"text"} = {}
            /\ Gatings \cap {"error"} = {}
        BY DEF Gatings
      <4> QED BY <3>4, <4>1
    <3>6. proposal' \in Proposals /\ (proposal'.need_yes \/ proposal'.yes_buffer = <<>>)
      BY <1>3, <3>3 DEF Decides
    <3>7. CASE state' = "Idle"
      BY <1>1, <1>2, <2>2, <3>5, <3>6, <3>7, IdleKeeps
    <3>8. CASE state' # "Idle"
      <4>1. /\ state' \in {"Executing", "Judging", "Approving"}
            /\ proposal'.commands = commands /\ proposal'.yes_buffer = <<>>
            /\ OnLine(screen', Labelled) = <<>>
            /\ state' = "Judging" => Above(screen', Labelled) = Above(e, Labelled)
            /\ state' \in {"Executing", "Approving"} /\ Above(e, Labelled) = <<>> =>
                 PiecesOf(Above(screen', Labelled)) = commands
            /\ state' = "Approving" => screen'.line = <<Item("prompt", "")>>
        BY <3>3, <3>8 DEF Decides
      <4>2. Above(e, Labelled) = <<>>
        <5>1. Kept(screen, Labelled) = <<>>
          BY <1>1, WhatIsKept, StreamingScreen
        <5> QED BY <2>1, <5>1 DEF LineEnded
      <4>3. Places'
        <5>1. single' = single /\ phase' = phase
          BY <1>1 DEF vars
        <5> QED BY <1>1, <3>1, <4>1, <5>1 DEF Places
      <4>4. ProposalInv'
        <5>1. Prompted(proposal') = <<Item("prompt", "")>>
          BY <3>6, <4>1, PromptedFirst
        <5> QED BY <4>1, <4>2, <5>1 DEF ProposalInv
      <4> QED BY <1>1, <1>2, <2>2, <3>5, <3>6, <4>1, <4>3, <4>4, DecidingKeeps
    <3> QED BY <3>7, <3>8
  <2> QED BY <2>3, <2>4
<1> QED BY <1>4, <1>5

-----------------------------------------------------------------------------
(* Every step keeps the invariant.                                          *)
LEMMA ShowStepKeeps ==
  ASSUME ShowInv, [AnswerNext]_all
  PROVE  ShowInv'
BY AnsweringKeeps, HandleChunkKeeps, HandleDoneKeeps, HandleVerdictKeeps, HandleTickKeeps,
   CancelKeeps, ApproveKeyKeeps, RefuseKeyKeeps, TypeKeyKeeps, HandleOutputKeeps,
   HandleChildKeeps, StutterKeeps DEF AnswerNext

(* It holds at all times.                                                   *)
LEMMA AlwaysShown == AnswerSpec => []ShowInv
<1>1. ShowInv /\ [AnswerNext]_all => ShowInv'
  BY ShowStepKeeps
<1> QED BY <1>1, ShowInvInit, PTL DEF AnswerSpec

(* However the body is cut and whatever comes in between, once the stream  *)
(* has ended the spinner has gone for good, a stream that failed is told   *)
(* from one that did not, and proposes nothing.                            *)
THEOREM EndIsTold == AnswerSpec => []ScreenTellsEnd
BY AlwaysShown, ShowInvSuffices, PTL

(* What is to be decided on, or was, is what is on the screen, once and in *)
(* order, and what is typed follows the prompt, for any number of commands.*)
THEOREM DecidedIsShown == AnswerSpec => []ProposalOnScreen
BY AlwaysShown, ShowInvSuffices, PTL

(* The text of any answer stays on the screen, once and in order, as long  *)
(* as no report of an agent and no thought takes its line.                 *)
THEOREM TextStays == AnswerSpec => []AnswerOnScreen
BY AlwaysShown, ShowInvSuffices, PTL
=============================================================================
