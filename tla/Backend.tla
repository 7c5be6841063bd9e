------------------------------- MODULE Backend -------------------------------
(***************************************************************************)
(* The client of the Anthropic API: one request, from the first POST to    *)
(* the last event its caller sees (crates/ua-backend/src/anthropic.rs and  *)
(* sse.rs).                                                                *)
(*                                                                         *)
(* A body is a sequence of pieces of text: the end of a line, a carriage   *)
(* return, the name of a field with its colon, the parts of a JSON object, *)
(* and the two bytes of one character.  It arrives in chunks that are cut  *)
(* between any two pieces.                                                 *)
(***************************************************************************)
EXTENDS Selection, FiniteSets

CONSTANTS
  Bodies,  \* bodies of a successful answer
  Single   \* whether the request may be one that is not streamed

ASSUME BackendAssumption ==
  /\ Single \subseteq BOOLEAN
  /\ \A body \in Bodies : body \in Seq({body[i] : i \in 1..Len(body)})

VARIABLES
  phase,    \* "Posting", "Sleeping", "Reading", "Ended" or "Panicked"
  single,   \* the request is not streamed
  attempt,  \* retries so far
  posts,    \* requests made, as far as the bound counts them
  status,   \* of the last answer
  rest,     \* of the body, not received yet
  text,     \* received and decoded
  closed,   \* the body has ended
  parser,   \* SseStream and its SseParserState
  active,   \* the tool use being accumulated
  out       \* the events the caller has been given

vars == <<phase, single, attempt, posts, status, rest, text, closed, parser, active, out>>

http   == <<single, attempt, posts, status>>
stream == <<rest, text, closed, parser, active>>

max_retries == 5

Status == {200, 400, 429, 529}

-----------------------------------------------------------------------------
(* Server-sent events.                                                     *)

NewLine == "\n"
Return  == "\r"
Lead    == "lead byte"
Trail   == "trail byte"

(* String::from_utf8_lossy, on each chunk alone.                           *)
Decoded(chunk) ==
  LET IsPair(i) == /\ i \in 1..(Len(chunk) - 1)
                   /\ chunk[i] = Lead /\ chunk[i + 1] = Trail
      At(i) == IF IsPair(i) THEN "character"
               ELSE IF IsPair(i - 1) THEN "nothing"
               ELSE IF chunk[i] \in {Lead, Trail} THEN "U+FFFD" ELSE chunk[i]
  IN Picked([i \in 1..Len(chunk) |-> At(i)], {i \in 1..Len(chunk) : At(i) # "nothing"})

NoEvent == ""

NewParser == [line_buf |-> <<>>, event_type |-> NoEvent, data |-> <<>>, pending |-> <<>>]

(* An event is complete; without data it is none, and its type stays.      *)
Emitted(p) ==
  IF p.data = <<>> THEN p
  ELSE [p EXCEPT !.event_type = NoEvent, !.data = <<>>,
                 !.pending = Append(@, [type |-> p.event_type, data |-> p.data])]

Name(pieces) == IF pieces = <<>> THEN NoEvent ELSE pieces[1]

Stripped(line) ==
  IF line # <<>> /\ line[Len(line)] = Return THEN SubSeq(line, 1, Len(line) - 1) ELSE line

(* process_line; the lines of data are joined at once, since a line ends   *)
(* where JSON allows white space, which a carriage return is to it, too.   *)
ProcessLine(p, line) ==
  CASE line = <<>>                             -> Emitted(p)
    [] line # <<>> /\ line[1] = "event:"       -> [p EXCEPT !.event_type = Name(Tail(line))]
    [] line # <<>> /\ line[1] = "data:"        -> [p EXCEPT !.data = @ \o Stripped(Tail(line))]
    [] line # <<>> /\ line[1] \notin {"event:", "data:"} -> p

Feed(p, c) ==
  IF c = NewLine THEN ProcessLine([p EXCEPT !.line_buf = <<>>], Stripped(p.line_buf))
  ELSE [p EXCEPT !.line_buf = Append(@, c)]

(* Mutant of Fed: every chunk begins a line.                               *)
FedFromLineStart(p, chars) ==
  LET fed[i \in 0..Len(chars)] ==
        IF i = 0 THEN [p EXCEPT !.line_buf = <<>>] ELSE Feed(fed[i - 1], chars[i])
  IN fed[Len(chars)]

FedUpTo(p, chars) ==
  LET fed[i \in 0..Len(chars)] == IF i = 0 THEN p ELSE Feed(fed[i - 1], chars[i])
  IN fed

Fed(p, chars) == FedUpTo(p, chars)[Len(chars)]

(* At the end of the body a line and an event that are not complete count. *)
Closed(p) ==
  Emitted(IF p.line_buf = <<>> THEN p
          ELSE ProcessLine([p EXCEPT !.line_buf = <<>>], p.line_buf))

-----------------------------------------------------------------------------
(* StreamEvents.                                                           *)

Event(kind, id, content) == [kind |-> kind, id |-> id, content |-> content]

Done  == Event("Done", 0, <<>>)
Error == Event("Error", 0, <<>>)
Usage == Event("Usage", 0, <<>>)

(* An object is its kind, its content and a brace; the kind of the start of*)
(* a tool use has its id.  What has been cut is not JSON.                  *)
Brace         == "}"
Kind(data)    == IF Len(data) > 1 /\ data[Len(data)] = Brace THEN data[1] ELSE "not JSON"
Content(data) == SubSeq(data, 2, Len(data) - 1)

NoTool         == [id |-> 0, input_json |-> <<>>]
IsToolStart(e) == e.type = "content_block_start" /\ Kind(e.data) \in {"tool 1", "tool 2"}
ToolId(e)      == IF Kind(e.data) = "tool 1" THEN 1 ELSE 2
IsInput(e)     == e.type = "content_block_delta" /\ Kind(e.data) = "input_json_delta"

IsStop(e)      == e.type = "content_block_stop" /\ Kind(e.data) # "not JSON"

(* What SseProcessor::process accumulates, and what it gives.              *)
ActiveAfter(e, tool) ==
  CASE IsToolStart(e)                 -> [id |-> ToolId(e), input_json |-> <<>>]
    [] IsInput(e) /\ tool.id # 0      -> [tool EXCEPT !.input_json = @ \o Content(e.data)]
    [] IsStop(e)                      -> NoTool
    [] OTHER                          -> tool

Process(e, tool) ==
  CASE e.type \in {"message_start", "message_delta"} /\ Kind(e.data) = "usage" -> <<Usage>>
    [] e.type = "content_block_delta" /\ Kind(e.data) = "text_delta" ->
         <<Event("TextDelta", 0, Content(e.data))>>
    [] e.type = "content_block_delta" /\ Kind(e.data) = "thinking_delta" ->
         <<Event("ThinkingDelta", 0, Content(e.data))>>
    [] IsStop(e) /\ tool.id # 0 ->
         <<Event("ToolUse", tool.id, tool.input_json)>>
    [] e.type = "error" /\ Kind(e.data) # "not JSON" -> <<Error>>
    [] OTHER -> <<>>

-----------------------------------------------------------------------------
Init ==
  /\ phase = "Posting" /\ single \in Single
  /\ attempt = 0 /\ posts = 0 /\ status = 0
  /\ rest = <<>> /\ text = <<>> /\ closed = FALSE
  /\ parser = NewParser /\ active = NoTool /\ out = <<>>

(* Bound: posts is counted to one more than can be.                        *)
OneMore(n) == IF n > max_retries + 1 THEN n ELSE n + 1

End(event) == phase' = "Ended" /\ out' = Append(out, event)

(* The connection cannot be made, or times out.                            *)
PostFails ==
  /\ phase = "Posting"
  /\ posts' = OneMore(posts) /\ status' = 0
  /\ End(Error)
  /\ UNCHANGED <<single, attempt, stream>>

(* The retry-after of an answer: absent or not a number, a number of       *)
(* seconds, or one that Duration::from_secs_f64 panics on.                 *)
RetryAfter == {"None", "Seconds", "Negative"}

(* Mutant of Retries: a retry is not counted.                              *)
RetriesUncounted(delay) ==
  /\ attempt < max_retries
  /\ IF delay = "Negative" THEN phase' = "Panicked" /\ UNCHANGED attempt
     ELSE phase' = "Sleeping" /\ UNCHANGED attempt
  /\ UNCHANGED out

Retries(delay) ==
  /\ attempt < max_retries
  /\ IF delay = "Negative" THEN phase' = "Panicked" /\ UNCHANGED attempt
     ELSE phase' = "Sleeping" /\ attempt' = attempt + 1
  /\ UNCHANGED out

(* The API is rate limited or overloaded; any other failure, and the last  *)
(* one of these, is an error.                                              *)
PostRefused(answer, delay) ==
  /\ phase = "Posting" /\ answer # 200
  /\ posts' = OneMore(posts) /\ status' = answer
  /\ IF answer \in {429, 529} /\ attempt < max_retries
     THEN Retries(delay)
     ELSE End(Error) /\ UNCHANGED attempt
  /\ UNCHANGED <<single, stream>>

Wake ==
  /\ phase = "Sleeping" /\ phase' = "Posting"
  /\ UNCHANGED <<http, stream, out>>

PostAccepted(body) ==
  /\ phase = "Posting"
  /\ posts' = OneMore(posts) /\ status' = 200
  /\ phase' = "Reading" /\ rest' = body
  /\ UNCHANGED <<single, attempt, text, closed, parser, active, out>>

(* send_non_streaming: the text of the first block, if the answer is read, *)
(* is JSON, and all its blocks are text.                                   *)
ReadSingle ==
  /\ phase = "Reading" /\ single
  /\ \E event \in {Event("TextDelta", 0, rest), Error} : End(event)
  /\ UNCHANGED <<http, stream>>

Polls == phase = "Reading" /\ ~single /\ parser.pending = <<>>

Receive(n) ==
  /\ Polls /\ ~closed
  /\ rest' = SubSeq(rest, n + 1, Len(rest))
  /\ LET chars == Decoded(SubSeq(rest, 1, n)) IN
       /\ text' = text \o chars
       /\ parser' = Fed(parser, chars)
  /\ UNCHANGED <<phase, http, closed, active, out>>

(* Mutant of Break: the loop is left as at the end of the body.            *)
BreakAndFinish ==
  /\ Polls /\ ~closed
  /\ phase' = "Ended" /\ out' = out \o <<Error, Done>>
  /\ UNCHANGED <<http, stream>>

(* The connection breaks or times out.                                     *)
Break ==
  /\ Polls /\ ~closed
  /\ End(Error)
  /\ UNCHANGED <<http, stream>>

(* The body ends, complete or not.                                         *)
Close ==
  /\ Polls /\ ~closed
  /\ closed' = TRUE /\ parser' = Closed(parser)
  /\ UNCHANGED <<phase, http, rest, text, active, out>>

Deliver ==
  /\ phase = "Reading" /\ parser.pending # <<>>
  /\ LET e == Head(parser.pending) IN
       /\ out' = out \o Process(e, active)
       /\ active' = ActiveAfter(e, active)
  /\ parser' = [parser EXCEPT !.pending = Tail(@)]
  /\ UNCHANGED <<phase, http, rest, text, closed>>

Finish ==
  /\ Polls /\ closed
  /\ End(Done)
  /\ UNCHANGED <<http, stream>>

Next ==
  \/ PostFails \/ Wake \/ ReadSingle \/ Break \/ Close \/ Deliver \/ Finish
  \/ \E answer \in Status, delay \in RetryAfter : PostRefused(answer, delay)
  \/ \E body \in Bodies : PostAccepted(body)
  \/ \E n \in 1..Len(rest) : Receive(n)

-----------------------------------------------------------------------------
(* The stream a text holds, by the lines and events in it.                 *)

(* Where a line begins, and where an event ends.                           *)
LineStart(t) == {i \in 1..Len(t) : i = 1 \/ t[i - 1] = NewLine}

IsBlank(t, i) ==
  \/ t[i] = NewLine
  \/ i < Len(t) /\ t[i] = Return /\ t[i + 1] = NewLine

Blanks(t, ended) ==
  {i \in LineStart(t) : IsBlank(t, i)} \cup IF ended THEN {Len(t) + 1} ELSE {}

Ordered(S) == [k \in 1..Cardinality(S) |-> CHOOSE i \in S : Cardinality({j \in S : j <= i}) = k]

(* The pieces of the lines of a field from a to b, without its name.       *)
FieldOf(t, name, a, b) ==
  LET lines == {i \in LineStart(t) \cap (a..b) : t[i] = name}
      IsOfLine(j) == /\ t[j] \notin {NewLine, Return, name}
                     /\ \E i \in lines : i < j /\ \A k \in i..j : t[k] # NewLine
      pieces == Ordered({j \in a..(b - 1) : IsOfLine(j)})
  IN [k \in 1..Len(pieces) |-> t[pieces[k]]]

EventsOf(t, ended) ==
  LET blanks  == Ordered(Blanks(t, ended))
      From(k) == IF k = 1 THEN 1 ELSE blanks[k - 1]
      Type(k) == FieldOf(t, "event:", From(k), blanks[k])
      HasData(e) == e.data # <<>>
  IN SelectSeq([k \in 1..Len(blanks) |->
                  [type |-> Name(Type(k)),
                   data |-> FieldOf(t, "data:", From(k), blanks[k])]], HasData)

(* The tool use that is open at event k: the last that has been started,   *)
(* with the input between its start and k.                                 *)
OpenTool(events, k) ==
  LET starts == {j \in 1..(k - 1) : IsToolStart(events[j])
                                    /\ \A i \in j..(k - 1) : ~IsStop(events[i])}
      start  == CHOOSE j \in starts : \A i \in starts : i <= j
      Input(i) == IF i > start /\ IsInput(events[i]) THEN Content(events[i].data) ELSE <<>>
  IN IF starts = {} THEN NoTool
     ELSE [id |-> ToolId(events[start]), input_json |-> Concatenated([i \in 1..(k - 1) |-> Input(i)])]

StreamOf(t, ended) ==
  LET events == EventsOf(t, ended)
  IN Concatenated([k \in 1..Len(events) |-> Process(events[k], OpenTool(events, k))])

-----------------------------------------------------------------------------
(* Properties.                                                             *)

(* However the body is cut into chunks, and wherever it ends or breaks, the*)
(* caller is given the events that the lines received so far hold, in      *)
(* order, each tool use with its own input and no other.                   *)
StreamIsText ==
  status = 200 /\ ~single =>
    LET shown == IF phase = "Ended" THEN SubSeq(out, 1, Len(out) - 1) ELSE out
        whole == StreamOf(text, closed)
    IN /\ Len(shown) <= Len(whole) /\ shown = SubSeq(whole, 1, Len(shown))
       /\ parser.pending = <<>> => shown = whole

(* The caller sees one end: Done if the server has ended the body, and an  *)
(* Error otherwise, also after events of the body; an API that is only     *)
(* overloaded is given up after six requests and not before.               *)
OneEnd ==
  /\ \A i \in 1..Len(out) : out[i] = Done => i = Len(out) /\ closed /\ phase = "Ended"
  /\ phase = "Ended" => out[Len(out)] \in {Done, Error} \/ single
  /\ phase = "Ended" /\ status \in {429, 529} => posts = max_retries + 1
=============================================================================
