---------------------------- MODULE Terminal_proofs ----------------------------
(***************************************************************************)
(* The terminal, for any keys, outputs and cuts: the state of the parser   *)
(* is that of the last marker, the history is the end of the output, and   *)
(* every command of the user is recorded.                                  *)
(*                                                                         *)
(* Both parsers are functions of all they have read (FedInv), so that the  *)
(* cuts do not matter, and what they give is shown for all that has been   *)
(* read and is on its way, one byte at a time. What commands may print is  *)
(* a hypothesis of each theorem: markers as a whole or not at all          *)
(* (OutputsWhole, OutputsPlain), and no ESC where the line assembler takes *)
(* it for a part of the sequence before it (OutputsClosed). The record     *)
(* needs a user who presses Enter at the end of a chunk of keys            *)
(* (KeysWait): of two lines in one chunk the first is journaled when the   *)
(* second is entered, without an exit code.                                *)
(***************************************************************************)
EXTENDS Terminal, Selection_proofs

(***************************************************************************)
(* The parser of the markers.                                              *)
(***************************************************************************)

(* Bytes: keys, what the shell prints, and what commands print.            *)
ShellByte == {ESC, BEL, "]", "133", ";", "A", "B", "C", "D", "0", "1", "$", "\n", "a"}
Byte      == Key \cup ShellByte \cup UNION {{bytes[i] : i \in 1..Len(bytes)} : bytes \in Outputs}

LEMMA BytesAre ==
  /\ Typed \subseteq Seq(Key) /\ Typed \subseteq Seq(Byte) /\ Outputs \subseteq Seq(Byte)
  /\ Key \subseteq Byte /\ ShellByte \subseteq Byte
<1>1. Key \subseteq Byte /\ ShellByte \subseteq Byte
  BY DEF Byte
<1>2. Typed \subseteq Seq(Key)
  BY TerminalAssumption
<1>3. ASSUME NEW bytes \in Outputs
      PROVE  bytes \in Seq(Byte)
  <2> DEFINE R == {bytes[i] : i \in 1..Len(bytes)}
  <2>1. bytes \in Seq(R)
    BY TerminalAssumption
  <2>2. R \subseteq Byte
    BY DEF Byte
  <2> HIDE DEF R
  <2> QED BY <2>1, <2>2, SeqMonotonic
<1>4. ASSUME NEW bytes \in Typed
      PROVE  bytes \in Seq(Byte)
  BY <1>1, <1>2, SeqMonotonic
<1> QED BY <1>1, <1>2, <1>3, <1>4

OscParsers == [state : ParseState, param_buf : Seq(Byte), terminal_state : TerminalState]
MarkKind   == {"A", "B", "C", "D"}
Marks      == [kind : MarkKind, code : Int]
OscFeds    == [parser : OscParsers, marks : Seq(Marks)]

(* What is collected is bounded, also before it is known what it is.       *)
Bounded(p) == Bytes(p.param_buf) <= MaxParam /\ (p.state = "OscStart" => Bytes(p.param_buf) <= 3)

LEMMA BytesTyped ==
  ASSUME NEW param \in Seq(Byte)
  PROVE  /\ Bytes(param) \in Nat /\ Bytes(<<>>) = 0
         /\ \A byte \in Byte : param # <<>> => Bytes(Append(param, byte)) = Bytes(param) + 1
         /\ \A byte \in Byte : Bytes(Append(<<>>, byte)) <= 3
<1>1. Bytes(param) \in Nat /\ Bytes(<<>>) = 0
  BY DEF Bytes
<1>2. ASSUME NEW byte \in Byte, param # <<>>
      PROVE  Bytes(Append(param, byte)) = Bytes(param) + 1
  <2>1. Len(Append(param, byte)) = Len(param) + 1 /\ Append(param, byte) # <<>> /\ Append(param, byte)[1] = param[1]
    <3>1. 1 \in 1..Len(param)
      BY <1>2, EmptySeq
    <3> QED BY <3>1, AppendProperties, EmptySeq
  <2> QED BY <2>1, <1>2 DEF Bytes
<1>3. ASSUME NEW byte \in Byte
      PROVE  Bytes(Append(<<>>, byte)) <= 3
  BY DEF Bytes
<1> QED BY <1>1, <1>2, <1>3

(* A byte's marker is one, and the parser stays typed and bounded.         *)
LEMMA MarkAtTyped ==
  ASSUME NEW p \in OscParsers, NEW byte \in Byte
  PROVE  MarkAt(p, byte) = NoMark \/ (MarkAt(p, byte) \in Marks /\ MarkAt(p, byte) # NoMark)
<1>1. p.param_buf \in Seq(Byte)
  BY DEF OscParsers
<1>2. MarkOf(p.param_buf) = NoMark \/ (MarkOf(p.param_buf) \in Marks /\ MarkOf(p.param_buf) # NoMark)
  <2> DEFINE param == p.param_buf
             code  == IF param[1] # "D" \/ Len(param) # 3 \/ param[2] # ";" THEN -1
                      ELSE IF param[3] = "0" THEN 0 ELSE 1
  <2>1. code \in Int
    OBVIOUS
  <2> HIDE DEF code
  <2>2. CASE param = <<>> \/ param[1] \notin MarkKind
    BY <2>2 DEF MarkOf, MarkKind
  <2>3. CASE ~ (param = <<>> \/ param[1] \notin MarkKind)
    <3>1. MarkOf(param) = [kind |-> param[1], code |-> code]
      BY <2>3 DEF MarkOf, MarkKind, NoExitCode, code
    <3>2. param[1] # "none"
      BY <2>3 DEF MarkKind
    <3> QED BY <2>1, <2>3, <3>1, <3>2 DEF Marks, NoMark
  <2> QED BY <2>2, <2>3
<1> QED BY <1>2 DEF MarkAt

(* The parser r is p after a step that has not yet met its marker.         *)
Continues(p, r) ==
  r \in OscParsers /\ r.terminal_state = p.terminal_state /\ (Bounded(p) => Bounded(r))

(* feed, before it looks at the marker that the byte may complete.         *)
LEMMA OscContinues ==
  ASSUME NEW p \in OscParsers, NEW byte \in Byte
  PROVE  Continues(p,
           CASE p.state = "Ground"   -> IF byte = ESC THEN [p EXCEPT !.state = "Escape"] ELSE p
             [] p.state = "Escape"   -> IF byte = "]" THEN Enter(p, "OscStart")
                                        ELSE [p EXCEPT !.state = "Ground"]
             [] p.state = "OscStart" -> OscStart(p, byte)
             [] p.state = "OscParam" -> OscParam(p, byte))
<1> DEFINE fed == CASE p.state = "Ground"   -> IF byte = ESC THEN [p EXCEPT !.state = "Escape"] ELSE p
                    [] p.state = "Escape"   -> IF byte = "]" THEN Enter(p, "OscStart")
                                               ELSE [p EXCEPT !.state = "Ground"]
                    [] p.state = "OscStart" -> OscStart(p, byte)
                    [] p.state = "OscParam" -> OscParam(p, byte)
           more == Append(p.param_buf, byte)
<1>1. p.state \in ParseState /\ p.param_buf \in Seq(Byte) /\ p.terminal_state \in TerminalState
  BY DEF OscParsers
<1>2. more \in Seq(Byte) /\ <<>> \in Seq(Byte)
  BY <1>1
<1>3. /\ Collect(p, byte) \in OscParsers /\ Collect(p, byte).state = p.state
      /\ Collect(p, byte).param_buf = more /\ Collect(p, byte).terminal_state = p.terminal_state
  BY <1>2 DEF Collect, OscParsers
<1>4. ASSUME NEW s \in ParseState
      PROVE  /\ Enter(p, s) \in OscParsers /\ Enter(p, s).state = s
             /\ Enter(p, s).param_buf = <<>> /\ Enter(p, s).terminal_state = p.terminal_state
  BY <1>2 DEF Enter, OscParsers
<1>5. /\ Bytes(p.param_buf) \in Nat /\ Bytes(<<>>) = 0 /\ Bytes(more) \in Nat
      /\ p.param_buf # <<>> => Bytes(more) = Bytes(p.param_buf) + 1
      /\ p.param_buf = <<>> => Bytes(more) <= 3
  BY <1>1, <1>2, BytesTyped
<1>6. MaxParam \in Nat /\ MaxParam > 3
  BY OscAssumption
<1>7. Continues(p, fed)
  <2>1. ASSUME NEW s \in ParseState PROVE Continues(p, Enter(p, s))
    BY <1>4, <1>5, <1>6 DEF Bounded, Continues
  <2>2. CASE p.state = "Ground"
    <3>1. Continues(p, p) /\ Continues(p, [p EXCEPT !.state = "Escape"])
      BY <1>1 DEF OscParsers, ParseState, Bounded, Continues
    <3> QED BY <2>2, <3>1
  <2>3. CASE p.state = "Escape"
    <3>1. Continues(p, [p EXCEPT !.state = "Ground"])
      BY <1>1 DEF OscParsers, ParseState, Bounded, Continues
    <3> QED BY <2>1, <2>3, <3>1 DEF ParseState
  <2>4. CASE p.state = "OscStart"
    <3>1. fed = OscStart(p, byte)
      BY <2>4
    <3>2. ~ (Bytes(more) > 3) => Continues(p, Collect(p, byte))
      BY <1>3, <1>5, <1>6, <2>4 DEF Bounded, Continues
    <3>3. Continues(p, [Collect(p, byte) EXCEPT !.state = "OscParam"])
      <4> DEFINE r == [Collect(p, byte) EXCEPT !.state = "OscParam"]
      <4>1. r \in OscParsers /\ r.state = "OscParam" /\ r.param_buf = more /\ r.terminal_state = p.terminal_state
        BY <1>3 DEF OscParsers, ParseState
      <4> HIDE DEF r
      <4>2. Bounded(p) => Bytes(more) <= MaxParam
        BY <1>5, <1>6, <2>4 DEF Bounded
      <4>3. Continues(p, r)
        BY <4>1, <4>2 DEF Bounded, Continues
      <4> QED BY <4>3 DEF r
    <3>4. Continues(p, Enter(p, "OscParam")) /\ Continues(p, Enter(p, "Ground")) /\ Continues(p, Enter(p, "Escape"))
      BY <2>1 DEF ParseState
    <3>5. Collect(p, byte).param_buf = more
      BY <1>3
    <3> HIDE DEF more, fed
    <3>6. \/ ~ (Bytes(more) > 3) /\ OscStart(p, byte) = Collect(p, byte)
          \/ OscStart(p, byte) = [Collect(p, byte) EXCEPT !.state = "OscParam"]
          \/ OscStart(p, byte) = Enter(p, "OscParam")
          \/ OscStart(p, byte) = Enter(p, "Ground")
          \/ OscStart(p, byte) = Enter(p, "Escape")
      <4>1. \/ byte = ";" /\ p.param_buf = <<"133">>
            \/ byte = BEL \/ byte = ESC
            \/ ~ (byte = ";" /\ p.param_buf = <<"133">>) /\ byte # BEL /\ byte # ESC
        OBVIOUS
      <4> QED BY <3>5, <4>1, Zenon DEF OscStart, BEL, ESC
    <3> QED BY <3>1, <3>2, <3>3, <3>4, <3>6
  <2>5. CASE p.state = "OscParam"
    <3>1. fed = OscParam(p, byte)
      BY <2>5
    <3>2. ~ (Bytes(p.param_buf) + 1 > MaxParam) => Continues(p, Collect(p, byte))
      BY <1>3, <1>5, <1>6, <2>5 DEF Bounded, Continues
    <3>3. Continues(p, Enter(p, "Ground")) /\ Continues(p, Enter(p, "Escape"))
      BY <2>1 DEF ParseState
    <3> HIDE DEF fed
    <3>4. \/ OscParam(p, byte) = Enter(p, "Ground") \/ OscParam(p, byte) = Enter(p, "Escape")
          \/ OscParam(p, byte) = Collect(p, byte) /\ ~ (Bytes(p.param_buf) + 1 > MaxParam)
      BY DEF OscParam
    <3> QED BY <3>1, <3>2, <3>3, <3>4
  <2> HIDE DEF fed
  <2> QED BY <1>1, <2>2, <2>3, <2>4, <2>5 DEF ParseState
<1> QED BY <1>7

LEMMA OscFeedTyped ==
  ASSUME NEW p \in OscParsers, NEW byte \in Byte
  PROVE  OscFeed(p, byte) \in OscParsers /\ (Bounded(p) => Bounded(OscFeed(p, byte)))
<1> DEFINE q == OscFeed(p, byte)
           fed == CASE p.state = "Ground"   -> IF byte = ESC THEN [p EXCEPT !.state = "Escape"] ELSE p
                    [] p.state = "Escape"   -> IF byte = "]" THEN Enter(p, "OscStart")
                                               ELSE [p EXCEPT !.state = "Ground"]
                    [] p.state = "OscStart" -> OscStart(p, byte)
                    [] p.state = "OscParam" -> OscParam(p, byte)
<1>1. p.terminal_state \in TerminalState
  BY DEF OscParsers
<1>2. Continues(p, fed)
  BY OscContinues
<1>3. q = [fed EXCEPT !.terminal_state = TerminalStateAfter(@, MarkAt(p, byte))]
  BY DEF OscFeed
<1> HIDE DEF fed, q
<1>4. TerminalStateAfter(p.terminal_state, MarkAt(p, byte)) \in TerminalState
  BY <1>1, MarkAtTyped DEF TerminalStateAfter, Marks, MarkKind, TerminalState, NoMark
<1>5. q \in OscParsers /\ q.state = fed.state /\ q.param_buf = fed.param_buf
  BY <1>2, <1>3, <1>4 DEF OscParsers, Continues
<1> QED BY <1>2, <1>5 DEF Bounded, Continues, q

(* One byte more, after before.                                            *)
OscFedMore(before, byte) ==
  [parser |-> OscFeed(before.parser, byte),
   marks  |-> IF MarkAt(before.parser, byte) = NoMark THEN before.marks
              ELSE Append(before.marks, MarkAt(before.parser, byte))]

LEMMA OscFedMoreTyped ==
  ASSUME NEW before \in OscFeds, NEW byte \in Byte
  PROVE  OscFedMore(before, byte) \in OscFeds
<1>1. before.parser \in OscParsers /\ before.marks \in Seq(Marks)
  BY DEF OscFeds
<1>2. OscFeed(before.parser, byte) \in OscParsers
  BY <1>1, OscFeedTyped
<1> DEFINE mark == MarkAt(before.parser, byte)
<1>3. mark = NoMark \/ mark \in Marks
  BY <1>1, MarkAtTyped
<1> HIDE DEF mark
<1>4. (IF mark = NoMark THEN before.marks ELSE Append(before.marks, mark)) \in Seq(Marks)
  BY <1>1, <1>3
<1> QED BY <1>2, <1>4 DEF OscFedMore, OscFeds, mark

(* What OscFed is, as its recursive definition says.                       *)
LEMMA OscFedDefined ==
  ASSUME NEW p \in OscParsers, NEW chunk \in Seq(Byte)
  PROVE  /\ OscFed(p, chunk)[0] = [parser |-> p, marks |-> <<>>]
         /\ \A n \in 1..Len(chunk) :
              OscFed(p, chunk)[n] = OscFedMore(OscFed(p, chunk)[n - 1], chunk[n])
         /\ \A n \in 0..Len(chunk) : OscFed(p, chunk)[n] \in OscFeds
<1> DEFINE N == Len(chunk)
           S == OscFeds
           start == [parser |-> p, marks |-> <<>>]
           step == [x \in S \X (1..N) |-> OscFedMore(x[1], chunk[x[2]])]
           P == OscFed(p, chunk)
<1>1. N \in Nat /\ start \in S /\ \A n \in 1..N : chunk[n] \in Byte
  BY LenProperties, ElementOfSeq, EmptySeq DEF OscFeds
<1>2. step \in [S \X (1..N) -> S]
  <2>1. \A s \in S, n \in 1..N : OscFedMore(s, chunk[n]) \in S
    BY <1>1, OscFedMoreTyped
  <2> HIDE DEF S, N
  <2> QED BY <2>1
<1>3. \A s \in S, n \in 1..N : step[<<s, n>>] = OscFedMore(s, chunk[n])
  <2> HIDE DEF S, N
  <2> QED OBVIOUS
<1>4. PICK f \in [0..N -> S] : IsRecursive(f, N, start, step)
  <2> HIDE DEF S, N, start, step
  <2> QED BY <1>1, <1>2, Recursion
<1>5. f = [n \in 0..N |-> IF n = 0 THEN start ELSE OscFedMore(f[n - 1], chunk[n])]
  <2> HIDE DEF S, N, start, step
  <2>1. ASSUME NEW n \in 0..N, n # 0
        PROVE  f[n] = OscFedMore(f[n - 1], chunk[n])
    <3>1. n \in 1..N /\ n - 1 \in 0..N
      BY <1>1, <2>1
    <3> QED BY <1>3, <1>4, <3>1 DEF IsRecursive
  <2>2. f[0] = start
    BY <1>4 DEF IsRecursive
  <2> QED BY <1>4, <2>1, <2>2
<1>6. P = [n \in 0..N |-> IF n = 0 THEN start ELSE OscFedMore(P[n - 1], chunk[n])]
  BY <1>5, ZenonT(60) DEF OscFed, OscFedMore
<1> HIDE DEF P, S, N, start, step
<1>7. P[0] = start /\ \A n \in 1..N : P[n] = OscFedMore(P[n - 1], chunk[n])
  BY <1>1, <1>6
<1> DEFINE T == {n \in 0..N : P[n] \in S}
<1>8. 0 \in T
  BY <1>1, <1>7
<1>9. ASSUME NEW n \in 1..N, n - 1 \in T
      PROVE  n \in T
  <2>1. P[n - 1] \in S /\ n \in 0..N
    BY <1>9
  <2> QED BY <1>1, <1>7, <2>1, OscFedMoreTyped DEF S
<1>10. \A n \in 0..N : n \in T
  <2> HIDE DEF T
  <2> QED BY <1>1, <1>8, <1>9, InductionUpTo
<1> QED BY <1>7, <1>10 DEF P, S, N, start

(***************************************************************************)
(* The history.                                                            *)
(***************************************************************************)

Histories(max_lines) ==
  {h \in [lines : Seq(Seq(Byte)), current_line : Seq(Byte), max_lines : Nat, escape_state : EscapeState] :
     h.max_lines = max_lines /\ Len(h.lines) <= max_lines}

LEMMA HistoryFields ==
  ASSUME NEW max \in Nat, NEW h \in Histories(max)
  PROVE  /\ h.lines \in Seq(Seq(Byte)) /\ h.current_line \in Seq(Byte) /\ h.max_lines = max
         /\ h.escape_state \in EscapeState /\ Len(h.lines) <= max
         /\ h = [lines |-> h.lines, current_line |-> h.current_line, max_lines |-> max,
                 escape_state |-> h.escape_state]
  BY DEF Histories

LEMMA NewHistoryTyped ==
  ASSUME NEW max \in Nat
  PROVE  NewHistory(max) \in Histories(max)
  BY EmptySeq DEF NewHistory, Histories, EscapeState

(* No more lines are kept than asked for.                                  *)
LEMMA EvictTyped ==
  ASSUME NEW R, NEW lines \in Seq(R), NEW max \in Nat
  PROVE  Evict(lines, max) \in Seq(R) /\ Len(Evict(lines, max)) <= max
<1>1. CASE Len(lines) <= max
  BY <1>1 DEF Evict
<1>2. CASE ~ (Len(lines) <= max)
  <2> DEFINE m == Len(lines) - max + 1
             n == Len(lines)
  <2>1. m \in Int /\ n \in Nat /\ m >= 1 /\ Evict(lines, max) = SubSeq(lines, m, n)
    BY <1>2 DEF Evict
  <2>2. \A i \in m..n : i \in 1..Len(lines) /\ lines[i] \in R
    BY <2>1
  <2>3. SubSeq(lines, m, n) \in Seq(R) /\ Len(SubSeq(lines, m, n)) = IF m <= n THEN n - m + 1 ELSE 0
    <3> HIDE DEF m, n
    <3> QED BY <2>1, <2>2, SubSeqProperties
  <2> QED BY <1>2, <2>1, <2>3
<1> QED BY <1>1, <1>2

LEMMA HistoryFeedTyped ==
  ASSUME NEW max \in Nat, NEW h \in Histories(max), NEW byte \in Byte
  PROVE  HistoryFeed(h, byte) \in Histories(max)
<1>1. /\ h.lines \in Seq(Seq(Byte)) /\ h.current_line \in Seq(Byte) /\ h.max_lines = max
      /\ h.escape_state \in EscapeState
  BY HistoryFields
<1>2. ASSUME NEW e \in EscapeState
      PROVE  [h EXCEPT !.escape_state = e] \in Histories(max)
  BY DEF Histories
<1>3. PushLine(h) \in Histories(max)
  <2> DEFINE lines == Evict(Append(h.lines, h.current_line), max)
  <2>1. lines \in Seq(Seq(Byte)) /\ Len(lines) <= max
    <3>1. Append(h.lines, h.current_line) \in Seq(Seq(Byte))
      BY <1>1
    <3> QED BY <3>1, EvictTyped
  <2>2. PushLine(h) = [h EXCEPT !.lines = lines, !.current_line = <<>>]
    BY <1>1 DEF PushLine
  <2> HIDE DEF lines
  <2> QED BY <2>1, <2>2, EmptySeq DEF Histories
<1>4. [h EXCEPT !.current_line = Append(@, byte)] \in Histories(max)
  <2>1. Append(h.current_line, byte) \in Seq(Byte)
    BY <1>1
  <2> QED BY <2>1 DEF Histories
<1>5. CASE h.escape_state = "Ground"
  <2>1. HistoryFeed(h, byte) \in
          {[h EXCEPT !.escape_state = "Escape"], PushLine(h), h, [h EXCEPT !.current_line = Append(@, byte)]}
    BY <1>5 DEF HistoryFeed, Control
  <2>2. [h EXCEPT !.escape_state = "Escape"] \in Histories(max)
    BY <1>2 DEF EscapeState
  <2> QED BY <1>3, <1>4, <2>1, <2>2
<1>6. CASE h.escape_state # "Ground"
  <2>1. \/ HistoryFeed(h, byte) = h
        \/ \E e \in EscapeState : HistoryFeed(h, byte) = [h EXCEPT !.escape_state = e]
    BY <1>1, <1>6 DEF HistoryFeed, EscapeState
  <2> QED BY <1>2, <2>1
<1> QED BY <1>5, <1>6

(* What HistoryFed is, as its recursive definition says.                   *)
LEMMA HistoryFedDefined ==
  ASSUME NEW max \in Nat, NEW h \in Histories(max), NEW chunk \in Seq(Byte)
  PROVE  /\ HistoryFed(h, chunk)[0] = h
         /\ \A n \in 1..Len(chunk) : HistoryFed(h, chunk)[n] = HistoryFeed(HistoryFed(h, chunk)[n - 1], chunk[n])
         /\ \A n \in 0..Len(chunk) : HistoryFed(h, chunk)[n] \in Histories(max)
<1> DEFINE N == Len(chunk)
           S == Histories(max)
           start == h
           step == [x \in S \X (1..N) |-> HistoryFeed(x[1], chunk[x[2]])]
           P == HistoryFed(h, chunk)
<1>1. N \in Nat /\ start \in S /\ \A n \in 1..N : chunk[n] \in Byte
  BY LenProperties, ElementOfSeq
<1>2. step \in [S \X (1..N) -> S]
  <2>1. \A s \in S, n \in 1..N : HistoryFeed(s, chunk[n]) \in S
    BY <1>1, HistoryFeedTyped
  <2> HIDE DEF S, N
  <2> QED BY <2>1
<1>3. \A s \in S, n \in 1..N : step[<<s, n>>] = HistoryFeed(s, chunk[n])
  <2> HIDE DEF S, N
  <2> QED OBVIOUS
<1>4. PICK f \in [0..N -> S] : IsRecursive(f, N, start, step)
  <2> HIDE DEF S, N, start, step
  <2> QED BY <1>1, <1>2, Recursion
<1>5. f = [n \in 0..N |-> IF n = 0 THEN start ELSE HistoryFeed(f[n - 1], chunk[n])]
  <2> HIDE DEF S, N, start, step
  <2>1. ASSUME NEW n \in 0..N, n # 0
        PROVE  f[n] = HistoryFeed(f[n - 1], chunk[n])
    <3>1. n \in 1..N /\ n - 1 \in 0..N
      BY <1>1, <2>1
    <3> QED BY <1>3, <1>4, <3>1 DEF IsRecursive
  <2>2. f[0] = start
    BY <1>4 DEF IsRecursive
  <2> QED BY <1>4, <2>1, <2>2
<1>6. P = [n \in 0..N |-> IF n = 0 THEN start ELSE HistoryFeed(P[n - 1], chunk[n])]
  BY <1>5 DEF HistoryFed
<1> HIDE DEF P, S, N, start, step
<1>7. P[0] = start /\ \A n \in 1..N : P[n] = HistoryFeed(P[n - 1], chunk[n])
  BY <1>1, <1>6
<1> DEFINE T == {n \in 0..N : P[n] \in S}
<1>8. 0 \in T
  BY <1>1, <1>7
<1>9. ASSUME NEW n \in 1..N, n - 1 \in T
      PROVE  n \in T
  <2>1. P[n - 1] \in S /\ n \in 0..N
    BY <1>9
  <2> QED BY <1>1, <1>7, <2>1, HistoryFeedTyped DEF S
<1>10. \A n \in 0..N : n \in T
  <2> HIDE DEF T
  <2> QED BY <1>1, <1>8, <1>9, InductionUpTo
<1> QED BY <1>7, <1>10 DEF P, S, N, start

(***************************************************************************)
(* The keys, and what the markers change.                                  *)
(***************************************************************************)

Option(S) == {None} \cup {Some(v) : v \in S}

Commands == {line \in Seq(Key) : line # <<>> /\ ~IsComment(line)}
Captures == Option(Histories(CaptureLines))
Entries  == [cmd : Commands, code : Int, output : Seq(Seq(Byte))]

Modes == {"Idle", "Turn", "Acting"}

KeyStates == [mode : Modes, cleared : Seq(Key), line_buf : Seq(Key), pending : Option(Commands),
              recorded : Seq(Entries), capture : Captures]
MarkStates == [line_buf : Seq(Key), capture : Captures, pending : Option(Commands),
               recorded : Seq(Entries)]

LEMMA OptionIs ==
  ASSUME NEW S, NEW o \in Option(S)
  PROVE  /\ o.some \in BOOLEAN
         /\ o.some => o.value \in S /\ o = Some(o.value)
         /\ ~o.some => o = None
<1>1. CASE o = None
  BY <1>1 DEF None
<1>2. ASSUME NEW v \in S, o = Some(v)
      PROVE  o.some /\ o.value = v
  BY <1>2 DEF Some
<1> QED BY <1>1, <1>2 DEF Option

(* The kinds of lines, of which there is no other.                         *)
LEMMA LineKinds ==
  ASSUME NEW line \in Seq(Key)
  PROVE  /\ IsInstruction(line) => line # <<>> /\ IsComment(line) /\ line # <<"#">>
         /\ line = <<>> \/ line = <<"#">> => ~IsInstruction(line) /\ (line # <<>> => IsComment(line))
         /\ IsComment(line) /\ ~IsInstruction(line) => line = <<"#">>
<1> DEFINE one   == <<"#">>
           empty == line = <<>>
           same  == line = one
           size  == Len(line)
<1>1. size \in Nat /\ (empty <=> size = 0) /\ (same => size = 1 /\ line[1] = "#")
  BY EmptySeq, LenProperties
<1>2. size = 1 /\ line[1] = "#" => same
  <2> SUFFICES ASSUME size = 1, line[1] = "#"
               PROVE  line = one
    OBVIOUS
  <2>1. one \in Seq(Key) /\ Len(one) = 1 /\ one[1] = "#"
    BY DEF Key
  <2> HIDE DEF one
  <2>2. Len(line) = Len(one) /\ \A i \in 1..Len(line) : line[i] = one[i]
    <3>1. \A i \in 1..1 : i = 1
      OBVIOUS
    <3> QED BY <2>1, <3>1
  <2>3. line \in Seq(Key)
    OBVIOUS
  <2> QED BY ONLY <2>1, <2>2, <2>3, SeqEqual
<1>3. /\ IsInstruction(line) <=> size > 1 /\ line[1] = "#"
      /\ IsComment(line) <=> ~empty /\ line[1] = "#"
  BY DEF IsInstruction, IsComment
<1> HIDE DEF empty, same, size
<1>4. /\ IsInstruction(line) => ~empty /\ IsComment(line) /\ ~same
      /\ empty \/ same => ~IsInstruction(line) /\ (~empty => IsComment(line))
      /\ IsComment(line) /\ ~IsInstruction(line) => same
  BY <1>1, <1>2, <1>3
<1> QED BY <1>4 DEF empty, same

LEMMA EntryTyped ==
  ASSUME NEW cmd \in Commands, NEW code \in Int, NEW cap \in Captures
  PROVE  ShellCommand(cmd, code, cap) \in Entries
<1>1. CaptureLines \in Nat
  BY TerminalAssumption
<1>2. cap.some \in BOOLEAN /\ (cap.some => cap.value.lines \in Seq(Seq(Byte)))
  BY <1>1, OptionIs, HistoryFields DEF Captures
<1>3. OutputOf(cap) \in Seq(Seq(Byte))
  BY <1>2, EmptySeq DEF OutputOf
<1> QED BY <1>3 DEF ShellCommand, Entries

LEMMA EnteredTyped ==
  ASSUME NEW s \in KeyStates
  PROVE  Entered(s) \in KeyStates
<1>1. /\ s.mode \in Modes /\ s.cleared \in Seq(Key) /\ s.line_buf \in Seq(Key)
      /\ s.pending \in Option(Commands) /\ s.recorded \in Seq(Entries) /\ s.capture \in Captures
  BY DEF KeyStates
<1>2. <<>> \in Seq(Key) /\ CTRL_U \in Key /\ None \in Captures /\ "Turn" \in Modes
  BY DEF Key, Captures, Option, Modes
<1>3. CASE IsInstruction(s.line_buf)
  <2>1. Append(s.cleared, CTRL_U) \in Seq(Key)
    BY <1>1, <1>2
  <2>2. [s EXCEPT !.mode = "Turn", !.cleared = Append(@, CTRL_U), !.line_buf = <<>>] \in KeyStates
    BY <1>2, <2>1 DEF KeyStates
  <2>3. s.line_buf # <<>> /\ IsComment(s.line_buf) /\ s.line_buf # <<"#">>
    BY <1>1, <1>3, LineKinds
  <2> QED BY <1>3, <2>2, <2>3 DEF Entered
<1>4. CASE ~IsInstruction(s.line_buf) /\ s.line_buf # <<>> /\ ~IsComment(s.line_buf)
  <2> DEFINE more == IF ~s.pending.some THEN s.recorded
                     ELSE Append(s.recorded, ShellCommand(s.pending.value, NoExitCode, s.capture))
             cap  == IF ~s.pending.some THEN s.capture ELSE None
  <2>1. more \in Seq(Entries)
    <3>1. CASE s.pending.some
      <4>1. s.pending.value \in Commands /\ NoExitCode \in Int
        BY <1>1, <3>1, OptionIs DEF NoExitCode
      <4>2. ShellCommand(s.pending.value, NoExitCode, s.capture) \in Entries
        BY <1>1, <4>1, EntryTyped
      <4> QED BY <1>1, <3>1, <4>2
    <3> QED BY <1>1, <3>1
  <2>2. cap \in Captures
    BY <1>1, <1>2
  <2>3. Some(s.line_buf) \in Option(Commands)
    BY <1>1, <1>4 DEF Option, Commands
  <2>4. Entered(s) = [s EXCEPT !.pending = Some(s.line_buf), !.line_buf = <<>>,
                               !.recorded = more, !.capture = cap]
    <3>1. s.line_buf # <<"#">>
      BY <1>1, <1>4, LineKinds
    <3> QED BY <1>4, <3>1 DEF Entered
  <2> HIDE DEF more, cap
  <2> QED BY <1>2, <2>1, <2>2, <2>3, <2>4 DEF KeyStates
<1>5. CASE s.line_buf = <<>> \/ s.line_buf = <<"#">>
  <2>1. ~IsInstruction(s.line_buf) /\ ~ (s.line_buf # <<>> /\ ~IsComment(s.line_buf))
    BY <1>1, <1>5, LineKinds
  <2>2. Entered(s) = [s EXCEPT !.line_buf = <<>>]
    BY <1>5, <2>1 DEF Entered
  <2> QED BY <1>2, <2>2 DEF KeyStates
<1>6. \/ IsInstruction(s.line_buf) \/ s.line_buf = <<>> \/ s.line_buf = <<"#">>
      \/ ~IsInstruction(s.line_buf) /\ s.line_buf # <<>> /\ ~IsComment(s.line_buf)
  BY <1>1, LineKinds
<1> QED BY <1>3, <1>4, <1>5, <1>6

LEMMA KeyedTyped ==
  ASSUME NEW s \in KeyStates, NEW key \in Key
  PROVE  Keyed(s, key) \in KeyStates
<1>1. [s EXCEPT !.line_buf = <<>>] \in KeyStates
  BY EmptySeq DEF KeyStates
<1>2. [s EXCEPT !.line_buf = Append(@, key)] \in KeyStates
  <2>1. Append(s.line_buf, key) \in Seq(Key)
    BY DEF KeyStates
  <2> QED BY <2>1 DEF KeyStates
<1>3. Entered(s) \in KeyStates
  BY EnteredTyped
<1>4. Keyed(s, key) \in {Entered(s), [s EXCEPT !.line_buf = <<>>], [s EXCEPT !.line_buf = Append(@, key)]}
  BY DEF Keyed
<1> QED BY <1>1, <1>2, <1>3, <1>4

(* What KeyedUpTo is, as its recursive definition says.                    *)
LEMMA KeyedDefined ==
  ASSUME NEW s \in KeyStates, NEW chunk \in Seq(Key)
  PROVE  /\ KeyedUpTo(s, chunk)[0] = s
         /\ \A n \in 1..Len(chunk) : KeyedUpTo(s, chunk)[n] = Keyed(KeyedUpTo(s, chunk)[n - 1], chunk[n])
         /\ \A n \in 0..Len(chunk) : KeyedUpTo(s, chunk)[n] \in KeyStates
<1> DEFINE N == Len(chunk)
           S == KeyStates
           start == s
           step == [x \in S \X (1..N) |-> Keyed(x[1], chunk[x[2]])]
           P == KeyedUpTo(s, chunk)
<1>1. N \in Nat /\ start \in S /\ \A n \in 1..N : chunk[n] \in Key
  BY LenProperties, ElementOfSeq
<1>2. step \in [S \X (1..N) -> S]
  <2>1. \A x \in S, n \in 1..N : Keyed(x, chunk[n]) \in S
    BY <1>1, KeyedTyped
  <2> HIDE DEF S, N
  <2> QED BY <2>1
<1>3. \A x \in S, n \in 1..N : step[<<x, n>>] = Keyed(x, chunk[n])
  <2> HIDE DEF S, N
  <2> QED OBVIOUS
<1>4. PICK f \in [0..N -> S] : IsRecursive(f, N, start, step)
  <2> HIDE DEF S, N, start, step
  <2> QED BY <1>1, <1>2, Recursion
<1>5. f = [n \in 0..N |-> IF n = 0 THEN start ELSE Keyed(f[n - 1], chunk[n])]
  <2> HIDE DEF S, N, start, step
  <2>1. ASSUME NEW n \in 0..N, n # 0
        PROVE  f[n] = Keyed(f[n - 1], chunk[n])
    <3>1. n \in 1..N /\ n - 1 \in 0..N
      BY <1>1, <2>1
    <3> QED BY <1>3, <1>4, <3>1 DEF IsRecursive
  <2>2. f[0] = start
    BY <1>4 DEF IsRecursive
  <2> QED BY <1>4, <2>1, <2>2
<1>6. P = [n \in 0..N |-> IF n = 0 THEN start ELSE Keyed(P[n - 1], chunk[n])]
  BY <1>5 DEF KeyedUpTo
<1> HIDE DEF P, S, N, start, step
<1>7. P[0] = start /\ \A n \in 1..N : P[n] = Keyed(P[n - 1], chunk[n])
  BY <1>1, <1>6
<1> DEFINE T == {n \in 0..N : P[n] \in S}
<1>8. 0 \in T
  BY <1>1, <1>7
<1>9. ASSUME NEW n \in 1..N, n - 1 \in T
      PROVE  n \in T
  <2>1. P[n - 1] \in S /\ n \in 0..N
    BY <1>9
  <2> QED BY <1>1, <1>7, <2>1, KeyedTyped DEF S
<1>10. \A n \in 0..N : n \in T
  <2> HIDE DEF T
  <2> QED BY <1>1, <1>8, <1>9, InductionUpTo
<1> QED BY <1>7, <1>10 DEF P, S, N, start

LEMMA MarkedTyped ==
  ASSUME NEW s \in MarkStates, NEW mark \in Marks
  PROVE  Marked(s, mark) \in MarkStates
<1>1. /\ s.line_buf \in Seq(Key) /\ s.capture \in Captures
      /\ s.pending \in Option(Commands) /\ s.recorded \in Seq(Entries)
  BY DEF MarkStates
<1>2. <<>> \in Seq(Key) /\ None \in Captures /\ None \in Option(Commands)
  BY DEF Captures, Option
<1>3. [s EXCEPT !.line_buf = <<>>] \in MarkStates /\ [s EXCEPT !.capture = None] \in MarkStates
  BY <1>2 DEF MarkStates
<1>4. [s EXCEPT !.capture = Some(NewHistory(CaptureLines))] \in MarkStates
  <2>1. NewHistory(CaptureLines) \in Histories(CaptureLines)
    BY TerminalAssumption, NewHistoryTyped
  <2>2. Some(NewHistory(CaptureLines)) \in Captures
    BY <2>1 DEF Captures, Option
  <2> QED BY <2>2 DEF MarkStates
<1>5. ASSUME s.pending.some
      PROVE  [s EXCEPT !.recorded = Append(@, ShellCommand(s.pending.value, mark.code, s.capture)),
                       !.pending = None, !.capture = None] \in MarkStates
  <2>1. s.pending.value \in Commands /\ mark.code \in Int
    BY <1>1, <1>5, OptionIs DEF Marks
  <2>2. ShellCommand(s.pending.value, mark.code, s.capture) \in Entries
    BY <1>1, <2>1, EntryTyped
  <2>3. Append(s.recorded, ShellCommand(s.pending.value, mark.code, s.capture)) \in Seq(Entries)
    BY <1>1, <2>2
  <2> QED BY <1>2, <2>3 DEF MarkStates
<1>6. \/ Marked(s, mark) \in {s, [s EXCEPT !.line_buf = <<>>], [s EXCEPT !.capture = None],
                             [s EXCEPT !.capture = Some(NewHistory(CaptureLines))]}
      \/ /\ s.pending.some
         /\ Marked(s, mark) = [s EXCEPT !.recorded = Append(@, ShellCommand(s.pending.value, mark.code, s.capture)),
                                        !.pending = None, !.capture = None]
  <2>1. CASE mark.kind = "A"
    BY <2>1 DEF Marked
  <2>2. CASE mark.kind = "C"
    BY <2>2 DEF Marked
  <2>3. CASE mark.kind = "D"
    BY <2>3 DEF Marked
  <2>4. CASE mark.kind = "B"
    BY <2>4 DEF Marked
  <2> QED BY <2>1, <2>2, <2>3, <2>4 DEF Marks, MarkKind
<1> QED BY <1>3, <1>4, <1>5, <1>6

(* What MarkedUpTo is, as its recursive definition says.                   *)
LEMMA MarkedDefined ==
  ASSUME NEW s \in MarkStates, NEW marks \in Seq(Marks)
  PROVE  /\ MarkedUpTo(s, marks)[0] = s
         /\ \A n \in 1..Len(marks) : MarkedUpTo(s, marks)[n] = Marked(MarkedUpTo(s, marks)[n - 1], marks[n])
         /\ \A n \in 0..Len(marks) : MarkedUpTo(s, marks)[n] \in MarkStates
<1> DEFINE N == Len(marks)
           S == MarkStates
           start == s
           step == [x \in S \X (1..N) |-> Marked(x[1], marks[x[2]])]
           P == MarkedUpTo(s, marks)
<1>1. N \in Nat /\ start \in S /\ \A n \in 1..N : marks[n] \in Marks
  BY LenProperties, ElementOfSeq
<1>2. step \in [S \X (1..N) -> S]
  <2>1. \A x \in S, n \in 1..N : Marked(x, marks[n]) \in S
    BY <1>1, MarkedTyped
  <2> HIDE DEF S, N
  <2> QED BY <2>1
<1>3. \A x \in S, n \in 1..N : step[<<x, n>>] = Marked(x, marks[n])
  <2> HIDE DEF S, N
  <2> QED OBVIOUS
<1>4. PICK f \in [0..N -> S] : IsRecursive(f, N, start, step)
  <2> HIDE DEF S, N, start, step
  <2> QED BY <1>1, <1>2, Recursion
<1>5. f = [n \in 0..N |-> IF n = 0 THEN start ELSE Marked(f[n - 1], marks[n])]
  <2> HIDE DEF S, N, start, step
  <2>1. ASSUME NEW n \in 0..N, n # 0
        PROVE  f[n] = Marked(f[n - 1], marks[n])
    <3>1. n \in 1..N /\ n - 1 \in 0..N
      BY <1>1, <2>1
    <3> QED BY <1>3, <1>4, <3>1 DEF IsRecursive
  <2>2. f[0] = start
    BY <1>4 DEF IsRecursive
  <2> QED BY <1>4, <2>1, <2>2
<1>6. P = [n \in 0..N |-> IF n = 0 THEN start ELSE Marked(P[n - 1], marks[n])]
  BY <1>5 DEF MarkedUpTo
<1> HIDE DEF P, S, N, start, step
<1>7. P[0] = start /\ \A n \in 1..N : P[n] = Marked(P[n - 1], marks[n])
  BY <1>1, <1>6
<1> DEFINE T == {n \in 0..N : P[n] \in S}
<1>8. 0 \in T
  BY <1>1, <1>7
<1>9. ASSUME NEW n \in 1..N, n - 1 \in T
      PROVE  n \in T
  <2>1. P[n - 1] \in S /\ n \in 0..N
    BY <1>9
  <2> QED BY <1>1, <1>7, <2>1, MarkedTyped DEF S
<1>10. \A n \in 0..N : n \in T
  <2> HIDE DEF T
  <2> QED BY <1>1, <1>8, <1>9, InductionUpTo
<1> QED BY <1>7, <1>10 DEF P, S, N, start

(***************************************************************************)
(* The types.                                                              *)
(***************************************************************************)

Phases == {"prompting", "prompt", "running", "ended"}
TtyKey == Key \cup {"a"}
Shells == [phase : Phases, line : Seq(TtyKey), output : Seq(Byte)]

LEMMA TtyKeysAre == TtyKey \subseteq Byte /\ Key \subseteq TtyKey
  BY BytesAre DEF TtyKey, ShellByte

TypeInv ==
  /\ mode \in Modes
  /\ parser \in OscParsers /\ Bounded(parser)
  /\ history \in Histories(HistoryLines) /\ capture \in Captures
  /\ line_buf \in Seq(Key) /\ pending \in Option(Commands) /\ recorded \in Seq(Entries)
  /\ tty \in Seq(TtyKey) /\ shell \in Shells /\ wire \in Seq(Byte) /\ seen \in Seq(Byte)

LEMMA TypeInvTypes == TypeInv => TypeOK
<1> SUFFICES ASSUME TypeInv PROVE TypeOK
  OBVIOUS
<1>1. HistoryLines \in Nat /\ CaptureLines \in Nat
  BY TerminalAssumption
<1>2. mode \in {"Idle", "Turn", "Acting"}
  BY DEF TypeInv, Modes
<1>3. /\ parser.state \in ParseState /\ parser.terminal_state \in TerminalState
      /\ Bytes(parser.param_buf) <= MaxParam
  BY DEF TypeInv, OscParsers, Bounded
<1>4. history.escape_state \in EscapeState /\ Len(history.lines) <= HistoryLines
  BY <1>1, HistoryFields DEF TypeInv
<1>5. capture.some => Len(capture.value.lines) <= CaptureLines
  BY <1>1, HistoryFields, OptionIs DEF TypeInv, Captures
<1>6. pending.some => ~IsComment(pending.value) /\ pending.value # <<>>
  <2>1. pending.some => pending.value \in Commands
    BY OptionIs DEF TypeInv
  <2> QED BY <2>1 DEF Commands
<1> QED BY <1>2, <1>3, <1>4, <1>5, <1>6 DEF TypeOK

(* What is fed keeps the types, and the parser's buffer bounded.           *)
LEMMA OscFedTyped ==
  ASSUME NEW p \in OscParsers, NEW chunk \in Seq(Byte), Bounded(p)
  PROVE  \A n \in 0..Len(chunk) : OscFed(p, chunk)[n] \in OscFeds /\ Bounded(OscFed(p, chunk)[n].parser)
<1> DEFINE P == OscFed(p, chunk)
           N == Len(chunk)
           T == {n \in 0..N : Bounded(P[n].parser)}
<1>1. /\ N \in Nat /\ P[0] = [parser |-> p, marks |-> <<>>]
      /\ \A n \in 1..N : P[n] = OscFedMore(P[n - 1], chunk[n])
      /\ \A n \in 0..N : P[n] \in OscFeds
  BY OscFedDefined, LenProperties
<1>2. \A n \in 1..N : chunk[n] \in Byte
  BY ElementOfSeq
<1> HIDE DEF P, N
<1>3. 0 \in T
  BY <1>1
<1>4. ASSUME NEW n \in 1..N, n - 1 \in T
      PROVE  n \in T
  <2>1. n \in 0..N /\ n - 1 \in 0..N /\ Bounded(P[n - 1].parser) /\ P[n - 1] \in OscFeds
    BY <1>1, <1>4
  <2>2. P[n - 1].parser \in OscParsers
    BY <2>1 DEF OscFeds
  <2>3. P[n].parser = OscFeed(P[n - 1].parser, chunk[n])
    <3>1. P[n] = OscFedMore(P[n - 1], chunk[n])
      BY <1>1
    <3> QED BY <3>1 DEF OscFedMore
  <2> QED BY <1>2, <2>1, <2>2, <2>3, OscFeedTyped
<1>5. \A n \in 0..N : n \in T
  <2> HIDE DEF T
  <2> QED BY <1>1, <1>3, <1>4, InductionUpTo
<1> QED BY <1>1, <1>5 DEF P, N

LEMMA OscFeedBytesTyped ==
  ASSUME NEW p \in OscParsers, NEW chunk \in Seq(Byte), Bounded(p)
  PROVE  /\ OscFeedBytes(p, chunk).parser \in OscParsers /\ Bounded(OscFeedBytes(p, chunk).parser)
         /\ OscFeedBytes(p, chunk).marks \in Seq(Marks)
<1>1. Len(chunk) \in 0..Len(chunk)
  BY LenProperties
<1>2. OscFeedBytes(p, chunk) \in OscFeds /\ Bounded(OscFeedBytes(p, chunk).parser)
  BY <1>1, OscFedTyped DEF OscFeedBytes
<1> QED BY <1>2 DEF OscFeds

LEMMA HistoryFeedBytesTyped ==
  ASSUME NEW max \in Nat, NEW h \in Histories(max), NEW chunk \in Seq(Byte)
  PROVE  HistoryFeedBytes(h, chunk) \in Histories(max)
<1>1. Len(chunk) \in 0..Len(chunk)
  BY LenProperties
<1> QED BY <1>1, HistoryFedDefined DEF HistoryFeedBytes

LEMMA AllKeyedTyped ==
  ASSUME NEW s \in KeyStates, NEW chunk \in Seq(Key)
  PROVE  AllKeyed(s, chunk) \in KeyStates
<1>1. Len(chunk) \in 0..Len(chunk)
  BY LenProperties
<1> QED BY <1>1, KeyedDefined DEF AllKeyed

LEMMA AllMarkedTyped ==
  ASSUME NEW s \in MarkStates, NEW marks \in Seq(Marks)
  PROVE  AllMarked(s, marks) \in MarkStates
<1>1. Len(marks) \in 0..Len(marks)
  BY LenProperties
<1> QED BY <1>1, MarkedDefined DEF AllMarked

LEMMA TupleTyped ==
  ASSUME NEW S, NEW a \in S, NEW b \in S, NEW c \in S, NEW d \in S, NEW e \in S, NEW f \in S
  PROVE  <<a, b, c, d, e, f>> \in Seq(S) /\ \A g, h \in S : <<a, b, c, d, e, f, g, h>> \in Seq(S)
  OBVIOUS

(* What the shell prints of its own is made of bytes.                      *)
LEMMA ShellPrintsBytes ==
  /\ \A letter \in MarkKind : Marker(letter) \in Seq(Byte)
  /\ \A code \in {0, 1} : MarkerD(code) \in Seq(Byte)
  /\ <<"\n">> \in Seq(Byte) /\ <<"\n">> \o Marker("C") \in Seq(Byte)
  /\ Marker("A") \o <<"$">> \o Marker("B") \in Seq(Byte)
<1>1. \A byte \in ShellByte : byte \in Byte
  BY BytesAre
<1>2. \A letter \in MarkKind : Marker(letter) \in Seq(Byte)
  <2> SUFFICES ASSUME NEW letter \in MarkKind PROVE Marker(letter) \in Seq(Byte)
    OBVIOUS
  <2>1. ESC \in Byte /\ "]" \in Byte /\ "133" \in Byte /\ ";" \in Byte /\ letter \in Byte /\ BEL \in Byte
    BY <1>1 DEF ShellByte, MarkKind
  <2> QED BY <2>1, TupleTyped DEF Marker
<1>3. \A code \in {0, 1} : MarkerD(code) \in Seq(Byte)
  <2> SUFFICES ASSUME NEW code \in {0, 1} PROVE MarkerD(code) \in Seq(Byte)
    OBVIOUS
  <2> DEFINE digit == IF code = 0 THEN "0" ELSE "1"
  <2>1. /\ ESC \in Byte /\ "]" \in Byte /\ "133" \in Byte /\ ";" \in Byte /\ "D" \in Byte
        /\ digit \in Byte /\ BEL \in Byte
    BY <1>1 DEF ShellByte
  <2> HIDE DEF digit
  <2>2. <<ESC, "]", "133", ";", "D", ";", digit, BEL>> \in Seq(Byte)
    BY <2>1, TupleTyped
  <2> QED BY <2>2 DEF MarkerD, digit
<1>4. <<"\n">> \in Seq(Byte) /\ <<"$">> \in Seq(Byte)
  <2>1. "\n" \in Byte /\ "$" \in Byte
    BY <1>1 DEF ShellByte
  <2> QED BY <2>1
<1>5. Marker("C") \in Seq(Byte) /\ Marker("A") \in Seq(Byte) /\ Marker("B") \in Seq(Byte)
  BY <1>2 DEF MarkKind
<1>6. <<"\n">> \o Marker("C") \in Seq(Byte) /\ Marker("A") \o <<"$">> \in Seq(Byte)
  BY <1>4, <1>5, ConcatProperties
<1>7. (Marker("A") \o <<"$">>) \o Marker("B") \in Seq(Byte)
  BY <1>5, <1>6, ConcatProperties
<1> QED BY <1>2, <1>3, <1>4, <1>6, <1>7

LEMMA EmitTyped ==
  ASSUME wire \in Seq(Byte), NEW bytes \in Seq(Byte), Emit(bytes)
  PROVE  wire' = wire \o bytes /\ wire' \in Seq(Byte)
  BY ConcatProperties DEF Emit

LEMMA InitTyped == Init => TypeInv
<1> SUFFICES ASSUME Init PROVE TypeInv
  OBVIOUS
<1>1. NewOscParser \in OscParsers /\ Bounded(NewOscParser)
  BY EmptySeq, OscAssumption DEF NewOscParser, OscParsers, ParseState, TerminalState, Bounded, Bytes
<1>2. NewHistory(HistoryLines) \in Histories(HistoryLines)
  BY NewHistoryTyped, TerminalAssumption
<1>3. shell \in Shells
  BY EmptySeq DEF Init, AtPrompt, Shells, Phases
<1> QED BY <1>1, <1>2, <1>3, EmptySeq DEF Init, TypeInv, Modes, Captures, Option

LEMMA OnStdinTyped ==
  ASSUME TypeInv, NEW chunk \in Typed, OnStdin(chunk)
  PROVE  /\ mode' \in Modes /\ line_buf' \in Seq(Key) /\ pending' \in Option(Commands)
         /\ recorded' \in Seq(Entries) /\ capture' \in Captures /\ tty' \in Seq(TtyKey)
<1> DEFINE here == [mode |-> mode, cleared |-> <<>>, line_buf |-> line_buf, pending |-> pending,
                    recorded |-> recorded, capture |-> capture]
           s    == IF parser.terminal_state # "Executing" THEN AllKeyed(here, chunk)
                   ELSE [here EXCEPT !.line_buf = <<>>]
<1>1. here \in KeyStates
  BY EmptySeq DEF TypeInv, KeyStates
<1>2. chunk \in Seq(Key) /\ chunk \in Seq(TtyKey)
  BY BytesAre, TtyKeysAre, SeqMonotonic
<1>3. s \in KeyStates
  <2>1. [here EXCEPT !.line_buf = <<>>] \in KeyStates
    BY <1>1, EmptySeq DEF KeyStates
  <2>2. AllKeyed(here, chunk) \in KeyStates
    <3> HIDE DEF here
    <3> QED BY <1>1, <1>2, AllKeyedTyped
  <2> QED BY <2>1, <2>2
<1>4. /\ mode' = s.mode /\ line_buf' = s.line_buf /\ pending' = s.pending
      /\ recorded' = s.recorded /\ capture' = s.capture
      /\ tty' = tty \o (IF s.cleared # <<>> THEN s.cleared ELSE chunk)
  BY DEF OnStdin
<1> HIDE DEF s
<1>5. /\ s.mode \in Modes /\ s.line_buf \in Seq(Key) /\ s.pending \in Option(Commands)
      /\ s.recorded \in Seq(Entries) /\ s.capture \in Captures /\ s.cleared \in Seq(Key)
  BY <1>3 DEF KeyStates
<1>6. s.cleared \in Seq(TtyKey)
  BY <1>5, TtyKeysAre, SeqMonotonic
<1> DEFINE keys == IF s.cleared # <<>> THEN s.cleared ELSE chunk
<1>7. keys \in Seq(TtyKey) /\ tty \in Seq(TtyKey) /\ tty' = tty \o keys
  BY <1>2, <1>4, <1>6 DEF TypeInv
<1> HIDE DEF keys
<1>8. tty' \in Seq(TtyKey)
  BY <1>7, ConcatProperties
<1> QED BY <1>4, <1>5, <1>8

(* What is read is of the output, and so is what is left.                  *)
LEMMA ReadTyped ==
  ASSUME wire \in Seq(Byte), NEW n \in 1..Len(wire)
  PROVE  SubSeq(wire, 1, n) \in Seq(Byte) /\ SubSeq(wire, n + 1, Len(wire)) \in Seq(Byte)
<1> DEFINE N == Len(wire)
           from == n + 1
<1>1. N \in Nat /\ n \in Int /\ from \in Int /\ 1 <= n /\ n <= N
  BY LenProperties
<1>2. (\A i \in 1..n : i \in 1..N) /\ \A i \in from..N : i \in 1..N
  BY <1>1
<1>3. (\A i \in 1..n : wire[i] \in Byte) /\ \A i \in from..N : wire[i] \in Byte
  BY <1>2, ElementOfSeq
<1> HIDE DEF N, from
<1>4. SubSeq(wire, 1, n) \in Seq(Byte) /\ SubSeq(wire, from, N) \in Seq(Byte)
  BY <1>1, <1>3, SubSeqProperties
<1> QED BY <1>4 DEF N, from

LEMMA OnPtyOutputTyped ==
  ASSUME TypeInv, NEW chunk \in Seq(Byte), OnPtyOutput(chunk)
  PROVE  /\ history' \in Histories(HistoryLines) /\ parser' \in OscParsers /\ Bounded(parser')
         /\ line_buf' \in Seq(Key) /\ capture' \in Captures /\ pending' \in Option(Commands)
         /\ recorded' \in Seq(Entries) /\ seen' \in Seq(Byte)
<1> DEFINE fed  == IF Idle /\ capture.some
                   THEN Some(HistoryFeedBytes(capture.value, chunk)) ELSE capture
           read == OscFeedBytes(parser, chunk)
           now  == [line_buf |-> line_buf, capture |-> fed, pending |-> pending, recorded |-> recorded]
           s    == AllMarked(now, read.marks)
<1>1. /\ history' = HistoryFeedBytes(history, chunk) /\ parser' = read.parser
      /\ line_buf' = s.line_buf /\ capture' = s.capture
      /\ pending' = s.pending /\ recorded' = s.recorded /\ seen' = seen \o chunk
  BY DEF OnPtyOutput
<1>2. read.parser \in OscParsers /\ Bounded(read.parser) /\ read.marks \in Seq(Marks)
  BY OscFeedBytesTyped DEF TypeInv
<1>3. fed \in Captures
  <2>1. ASSUME capture.some
        PROVE  Some(HistoryFeedBytes(capture.value, chunk)) \in Captures
    <3>1. CaptureLines \in Nat /\ capture.value \in Histories(CaptureLines)
      BY <2>1, OptionIs, TerminalAssumption DEF TypeInv, Captures
    <3>2. HistoryFeedBytes(capture.value, chunk) \in Histories(CaptureLines)
      BY <3>1, HistoryFeedBytesTyped
    <3> QED BY <3>2 DEF Captures, Option
  <2> QED BY <2>1 DEF TypeInv
<1>4. now \in MarkStates
  <2> HIDE DEF fed
  <2> QED BY <1>3 DEF MarkStates, TypeInv
<1>5. s \in MarkStates
  <2> HIDE DEF now, read
  <2> QED BY <1>2, <1>4, AllMarkedTyped
<1> HIDE DEF s, read
<1>6. /\ s.line_buf \in Seq(Key) /\ s.capture \in Captures
      /\ s.pending \in Option(Commands) /\ s.recorded \in Seq(Entries)
  BY <1>5 DEF MarkStates
<1>7. history' \in Histories(HistoryLines)
  BY <1>1, HistoryFeedBytesTyped, TerminalAssumption DEF TypeInv
<1>8. seen' \in Seq(Byte)
  BY <1>1, ConcatProperties DEF TypeInv
<1> QED BY <1>1, <1>2, <1>6, <1>7, <1>8

LEMMA NextTyped == TypeInv /\ [Next]_vars => TypeInv'
<1> SUFFICES ASSUME TypeInv, [Next]_vars PROVE TypeInv'
  OBVIOUS
<1>1. ASSUME NEW chunk \in Typed, Type(chunk) PROVE TypeInv'
  <2>1. OnStdin(chunk) /\ UNCHANGED <<parser, history, seen, shell, wire>>
    BY <1>1 DEF Type, OnStdin, shellVars
  <2> QED BY <2>1, OnStdinTyped DEF TypeInv
<1>2. ASSUME NEW n \in 1..Len(wire), Read(n) PROVE TypeInv'
  <2> DEFINE chunk == SubSeq(wire, 1, n)
  <2>1. chunk \in Seq(Byte) /\ SubSeq(wire, n + 1, Len(wire)) \in Seq(Byte)
    BY ReadTyped DEF TypeInv
  <2>2. /\ OnPtyOutput(chunk) /\ wire' = SubSeq(wire, n + 1, Len(wire))
        /\ UNCHANGED <<mode, tty, shell>>
    BY <1>2 DEF Read
  <2> HIDE DEF chunk
  <2> QED BY <2>1, <2>2, OnPtyOutputTyped DEF TypeInv
<1>3. CASE AgentWrites
  <2>1. <<"a", NEWLINE>> \in Seq(TtyKey)
    <3>1. "a" \in TtyKey /\ NEWLINE \in TtyKey
      BY DEF Key, TtyKey
    <3> QED BY <3>1
  <2> QED BY <1>3, <2>1 DEF AgentWrites, TypeInv, Modes, shellVars
<1>4. CASE TurnEnds
  BY <1>4 DEF TurnEnds, TypeInv, Modes, shellVars
<1> SUFFICES ASSUME ReadKey \/ Prints \/ ShowPrompt \/ \E code \in {0, 1} : FinishLine(code)
             PROVE  tty' \in Seq(TtyKey) /\ shell' \in Shells /\ wire' \in Seq(Byte)
  <2>1. ASSUME ReadKey \/ Prints \/ ShowPrompt \/ \E code \in {0, 1} : FinishLine(code)
        PROVE  UNCHANGED replVars
    BY <2>1 DEF ReadKey, Prints, ShowPrompt, FinishLine
  <2>2. CASE UNCHANGED vars
    BY <2>2 DEF vars, TypeInv
  <2> QED BY <1>1, <1>2, <1>3, <1>4, <2>1, <2>2 DEF Next, TypeInv, replVars
<1>5. /\ tty \in Seq(TtyKey) /\ wire \in Seq(Byte) /\ shell \in Shells
      /\ shell.line \in Seq(TtyKey) /\ shell.output \in Seq(Byte)
  BY DEF TypeInv, Shells
<1>6. AtPrompt \in Shells /\ [AtPrompt EXCEPT !.phase = "prompting"] \in Shells
  BY EmptySeq DEF AtPrompt, Shells, Phases
<1>7. CASE ReadKey
  <2> DEFINE key == Head(tty)
  <2>1. key \in TtyKey /\ Tail(tty) \in Seq(TtyKey) /\ tty' = Tail(tty)
    BY <1>5, <1>7, HeadTailProperties DEF ReadKey
  <2>2. <<key>> \in Seq(Byte) /\ Append(shell.line, key) \in Seq(TtyKey)
    BY <1>5, <2>1, TtyKeysAre
  <2>3. /\ [shell EXCEPT !.line = Append(@, key)] \in Shells
        /\ [shell EXCEPT !.phase = "ended"] \in Shells /\ [shell EXCEPT !.phase = "running"] \in Shells
    BY <1>5, <2>2 DEF Shells, Phases
  <2>4. \/ shell' = AtPrompt /\ UNCHANGED wire
        \/ shell' = [shell EXCEPT !.line = Append(@, key)] /\ Emit(<<key>>)
        \/ shell' = [shell EXCEPT !.phase = "ended"] /\ Emit(<<"\n">>)
        \/ shell' = [shell EXCEPT !.phase = "running"] /\ Emit(<<"\n">> \o Marker("C"))
    BY <1>7, Zenon DEF ReadKey
  <2> HIDE DEF key
  <2>5. wire' \in Seq(Byte)
    BY <1>5, <2>2, <2>4, EmitTyped, ShellPrintsBytes
  <2> QED BY <1>6, <2>1, <2>3, <2>4, <2>5
<1>8. CASE Prints
  <2>1. PICK bytes \in Outputs : shell' = [shell EXCEPT !.output = @ \o bytes] /\ Emit(bytes)
    BY <1>8 DEF Prints
  <2>2. bytes \in Seq(Byte) /\ shell.output \o bytes \in Seq(Byte)
    BY <1>5, BytesAre, ConcatProperties
  <2>3. shell' \in Shells
    BY <1>5, <2>1, <2>2 DEF Shells
  <2>4. wire' \in Seq(Byte)
    BY <1>5, <2>1, <2>2, EmitTyped
  <2> QED BY <1>5, <1>8, <2>3, <2>4 DEF Prints
<1>9. CASE ShowPrompt
  <2>1. wire' \in Seq(Byte)
    BY <1>5, <1>9, EmitTyped, ShellPrintsBytes DEF ShowPrompt
  <2> QED BY <1>5, <1>6, <1>9, <2>1 DEF ShowPrompt
<1>10. ASSUME NEW code \in {0, 1}, FinishLine(code)
       PROVE  tty' \in Seq(TtyKey) /\ shell' \in Shells /\ wire' \in Seq(Byte)
  <2>1. wire' \in Seq(Byte)
    BY <1>5, <1>10, EmitTyped, ShellPrintsBytes DEF FinishLine
  <2> QED BY <1>5, <1>6, <1>10, <2>1 DEF FinishLine
<1> QED BY <1>7, <1>8, <1>9, <1>10

(* What the REPL keeps of the keys and of the output has its type, and the *)
(* parser's buffer, the history and a capture are bounded, whatever is     *)
(* typed and printed, and however it is cut.                               *)
THEOREM Types == Spec => []TypeOK
<1>1. Spec => []TypeInv
  BY InitTyped, NextTyped, PTL DEF Spec
<1> QED BY <1>1, TypeInvTypes, PTL

(***************************************************************************)
(* What is fed in two chunks is fed as in one.                             *)
(***************************************************************************)

LEMMA OscFedConcat ==
  ASSUME NEW p \in OscParsers, NEW s \in Seq(Byte), NEW t \in Seq(Byte)
  PROVE  /\ \A n \in 0..Len(s) : OscFed(p, s \o t)[n] = OscFed(p, s)[n]
         /\ \A n \in 0..Len(t) :
              /\ OscFed(p, s \o t)[Len(s) + n].parser = OscFed(OscFeedBytes(p, s).parser, t)[n].parser
              /\ OscFed(p, s \o t)[Len(s) + n].marks =
                   OscFeedBytes(p, s).marks \o OscFed(OscFeedBytes(p, s).parser, t)[n].marks
<1> DEFINE both == s \o t
           M == Len(s)
           N == Len(t)
           q == OscFeedBytes(p, s).parser
           P == OscFed(p, both)
           Q == OscFed(p, s)
           R == OscFed(q, t)
           first == OscFeedBytes(p, s).marks
<1>1. /\ M \in Nat /\ N \in Nat /\ both \in Seq(Byte) /\ Len(both) = M + N
      /\ \A n \in 1..M : both[n] = s[n]
      /\ \A n \in 1..N : both[M + n] = t[n]
  BY ConcatProperties, LenProperties
<1>2. /\ Q[0] = [parser |-> p, marks |-> <<>>] /\ (\A n \in 1..M : Q[n] = OscFedMore(Q[n - 1], s[n]))
      /\ \A n \in 0..M : Q[n] \in OscFeds
  BY OscFedDefined
<1>3. q = Q[M].parser /\ first = Q[M].marks /\ M \in 0..M /\ Q[M] \in OscFeds
  BY <1>1, <1>2 DEF OscFeedBytes
<1>4. q \in OscParsers /\ first \in Seq(Marks)
  BY <1>3 DEF OscFeds
<1>5. /\ R[0] = [parser |-> q, marks |-> <<>>] /\ (\A n \in 1..N : R[n] = OscFedMore(R[n - 1], t[n]))
      /\ \A n \in 0..N : R[n] \in OscFeds
  <2> HIDE DEF q
  <2> QED BY <1>4, OscFedDefined
<1>6. P[0] = [parser |-> p, marks |-> <<>>] /\ \A n \in 1..(M + N) : P[n] = OscFedMore(P[n - 1], both[n])
  <2> HIDE DEF both, M, N
  <2>1. P[0] = [parser |-> p, marks |-> <<>>] /\ \A n \in 1..Len(both) : P[n] = OscFedMore(P[n - 1], both[n])
    BY <1>1, OscFedDefined
  <2> QED BY <1>1, <2>1
<1>7. \A n \in 1..N : t[n] \in Byte
  BY ElementOfSeq
<1> HIDE DEF both, M, N, P, Q, R, q, first
<1> DEFINE T == {n \in 0..M : P[n] = Q[n]}
           V == {n \in 0..N : P[M + n].parser = R[n].parser /\ P[M + n].marks = first \o R[n].marks}
<1>8. 0 \in T
  BY <1>1, <1>2, <1>6
<1>9. ASSUME NEW n \in 1..M, n - 1 \in T
      PROVE  n \in T
  <2>1. n \in 0..M /\ n \in 1..(M + N) /\ P[n - 1] = Q[n - 1] /\ both[n] = s[n]
    BY <1>1, <1>9
  <2> QED BY <1>2, <1>6, <2>1
<1>10. \A n \in 0..M : n \in T
  <2> HIDE DEF T
  <2> QED BY <1>1, <1>8, <1>9, InductionUpTo
<1>11. 0 \in V
  <2>1. P[M] = Q[M] /\ M + 0 = M /\ 0 \in 0..N
    BY <1>1, <1>10
  <2>2. first \o <<>> = first
    BY <1>4, ConcatEmptySeq
  <2>3. R[0].parser = q /\ R[0].marks = <<>>
    BY <1>5
  <2>4. P[M + 0].parser = R[0].parser /\ P[M + 0].marks = first \o R[0].marks
    BY <1>3, <2>1, <2>2, <2>3
  <2> QED BY <2>1, <2>4
<1>12. ASSUME NEW n \in 1..N, n - 1 \in V
       PROVE  n \in V
  <2>1. /\ n \in 0..N /\ n - 1 \in 0..N /\ M + n \in 1..(M + N) /\ (M + n) - 1 = M + (n - 1)
        /\ both[M + n] = t[n]
    BY <1>1
  <2>2. /\ P[M + (n - 1)].parser = R[n - 1].parser /\ P[M + (n - 1)].marks = first \o R[n - 1].marks
        /\ R[n - 1].parser \in OscParsers /\ R[n - 1].marks \in Seq(Marks)
    BY <1>5, <1>12, <2>1 DEF OscFeds
  <2>3. P[M + n] = OscFedMore(P[M + (n - 1)], t[n]) /\ R[n] = OscFedMore(R[n - 1], t[n])
    BY <1>5, <1>6, <2>1
  <2>4. P[M + n].parser = R[n].parser
    BY <2>2, <2>3 DEF OscFedMore
  <2> DEFINE mark == MarkAt(R[n - 1].parser, t[n])
             old  == R[n - 1].marks
  <2>5. /\ P[M + n].marks = IF mark = NoMark THEN first \o old ELSE Append(first \o old, mark)
        /\ R[n].marks = IF mark = NoMark THEN old ELSE Append(old, mark)
    BY <2>2, <2>3 DEF OscFedMore
  <2>6. mark = NoMark \/ mark \in Marks
    BY <1>7, <2>2, MarkAtTyped
  <2>7. old \in Seq(Marks)
    BY <2>2
  <2> HIDE DEF mark, old
  <2>8. mark \in Marks => first \o Append(old, mark) = Append(first \o old, mark)
    BY <1>4, <2>7, ConcatAppend
  <2>9. P[M + n].marks = first \o R[n].marks
    BY <2>5, <2>6, <2>8
  <2> QED BY <2>1, <2>4, <2>9
<1>13. \A n \in 0..N : n \in V
  <2> HIDE DEF V
  <2> QED BY <1>1, <1>11, <1>12, InductionUpTo
<1> QED BY <1>10, <1>13 DEF both, M, N, P, Q, R, q, first

LEMMA HistoryFedConcat ==
  ASSUME NEW max \in Nat, NEW h \in Histories(max), NEW s \in Seq(Byte), NEW t \in Seq(Byte)
  PROVE  /\ \A n \in 0..Len(s) : HistoryFed(h, s \o t)[n] = HistoryFed(h, s)[n]
         /\ \A n \in 0..Len(t) :
              HistoryFed(h, s \o t)[Len(s) + n] = HistoryFed(HistoryFeedBytes(h, s), t)[n]
<1> DEFINE both == s \o t
           M == Len(s)
           N == Len(t)
           q == HistoryFeedBytes(h, s)
           P == HistoryFed(h, both)
           Q == HistoryFed(h, s)
           R == HistoryFed(q, t)
<1>1. /\ M \in Nat /\ N \in Nat /\ both \in Seq(Byte) /\ Len(both) = M + N
      /\ \A n \in 1..M : both[n] = s[n]
      /\ \A n \in 1..N : both[M + n] = t[n]
  BY ConcatProperties, LenProperties
<1>2. Q[0] = h /\ \A n \in 1..M : Q[n] = HistoryFeed(Q[n - 1], s[n])
  BY HistoryFedDefined
<1>3. q = Q[M] /\ q \in Histories(max)
  BY HistoryFeedBytesTyped DEF HistoryFeedBytes
<1>4. R[0] = q /\ \A n \in 1..N : R[n] = HistoryFeed(R[n - 1], t[n])
  <2> HIDE DEF q
  <2> QED BY <1>3, HistoryFedDefined
<1>5. P[0] = h /\ \A n \in 1..(M + N) : P[n] = HistoryFeed(P[n - 1], both[n])
  <2> HIDE DEF both, M, N
  <2>1. P[0] = h /\ \A n \in 1..Len(both) : P[n] = HistoryFeed(P[n - 1], both[n])
    BY <1>1, HistoryFedDefined
  <2> QED BY <1>1, <2>1
<1> HIDE DEF both, M, N, P, Q, R, q
<1> DEFINE T == {n \in 0..M : P[n] = Q[n]}
           V == {n \in 0..N : P[M + n] = R[n]}
<1>6. 0 \in T
  BY <1>1, <1>2, <1>5
<1>7. ASSUME NEW n \in 1..M, n - 1 \in T
      PROVE  n \in T
  <2>1. n \in 0..M /\ n \in 1..(M + N) /\ P[n - 1] = Q[n - 1] /\ both[n] = s[n]
    BY <1>1, <1>7
  <2> QED BY <1>2, <1>5, <2>1
<1>8. \A n \in 0..M : n \in T
  <2> HIDE DEF T
  <2> QED BY <1>1, <1>6, <1>7, InductionUpTo
<1>9. 0 \in V
  <2>1. P[M] = Q[M] /\ M + 0 = M /\ 0 \in 0..N
    BY <1>1, <1>8
  <2> QED BY <1>3, <1>4, <2>1
<1>10. ASSUME NEW n \in 1..N, n - 1 \in V
       PROVE  n \in V
  <2>1. /\ n \in 0..N /\ M + n \in 1..(M + N) /\ (M + n) - 1 = M + (n - 1)
        /\ both[M + n] = t[n] /\ P[M + (n - 1)] = R[n - 1]
    BY <1>1, <1>10
  <2> QED BY <1>4, <1>5, <2>1
<1>11. \A n \in 0..N : n \in V
  <2> HIDE DEF V
  <2> QED BY <1>1, <1>9, <1>10, InductionUpTo
<1> QED BY <1>8, <1>11 DEF both, M, N, P, Q, R, q

LEMMA FeedBytesConcat ==
  ASSUME NEW p \in OscParsers, NEW max \in Nat, NEW h \in Histories(max),
         NEW s \in Seq(Byte), NEW t \in Seq(Byte)
  PROVE  /\ OscFeedBytes(p, s \o t).parser = OscFeedBytes(OscFeedBytes(p, s).parser, t).parser
         /\ OscFeedBytes(p, s \o t).marks =
              OscFeedBytes(p, s).marks \o OscFeedBytes(OscFeedBytes(p, s).parser, t).marks
         /\ HistoryFeedBytes(h, s \o t) = HistoryFeedBytes(HistoryFeedBytes(h, s), t)
<1>1. Len(s \o t) = Len(s) + Len(t) /\ Len(t) \in 0..Len(t)
  BY ConcatProperties, LenProperties
<1> DEFINE M == Len(s)
           N == Len(t)
           q == OscFeedBytes(p, s).parser
           k == HistoryFeedBytes(h, s)
<1>2. /\ OscFed(p, s \o t)[M + N].parser = OscFed(q, t)[N].parser
      /\ OscFed(p, s \o t)[M + N].marks = OscFeedBytes(p, s).marks \o OscFed(q, t)[N].marks
  BY <1>1, OscFedConcat
<1>3. HistoryFed(h, s \o t)[M + N] = HistoryFed(k, t)[N]
  BY <1>1, HistoryFedConcat
<1>4. /\ OscFeedBytes(p, s \o t) = OscFed(p, s \o t)[M + N] /\ OscFeedBytes(q, t) = OscFed(q, t)[N]
      /\ HistoryFeedBytes(h, s \o t) = HistoryFed(h, s \o t)[M + N] /\ HistoryFeedBytes(k, t) = HistoryFed(k, t)[N]
  BY <1>1 DEF OscFeedBytes, HistoryFeedBytes
<1> HIDE DEF M, N, q, k
<1>5. /\ OscFeedBytes(p, s \o t).parser = OscFeedBytes(q, t).parser
      /\ OscFeedBytes(p, s \o t).marks = OscFeedBytes(p, s).marks \o OscFeedBytes(q, t).marks
      /\ HistoryFeedBytes(h, s \o t) = HistoryFeedBytes(k, t)
  BY <1>2, <1>3, <1>4
<1> QED BY <1>5 DEF q, k

LEMMA FeedNothing ==
  ASSUME NEW p \in OscParsers, NEW max \in Nat, NEW h \in Histories(max)
  PROVE  /\ OscFeedBytes(p, <<>>).parser = p /\ OscFeedBytes(p, <<>>).marks = <<>>
         /\ HistoryFeedBytes(h, <<>>) = h
<1>1. <<>> \in Seq(Byte) /\ Len(<<>>) = 0
  BY EmptySeq
<1>2. OscFed(p, <<>>)[0] = [parser |-> p, marks |-> <<>>] /\ HistoryFed(h, <<>>)[0] = h
  BY <1>1, OscFedDefined, HistoryFedDefined
<1> QED BY <1>1, <1>2 DEF OscFeedBytes, HistoryFeedBytes

(***************************************************************************)
(* The markers: the parser finds those that are in the output, and no      *)
(* other, if commands print no part of one.                                *)
(***************************************************************************)

(* The parser after a byte, field by field.                                *)
LEMMA OscFeedFields ==
  ASSUME NEW p \in OscParsers, NEW byte \in Byte
  PROVE  /\ OscFeed(p, byte).terminal_state = TerminalStateAfter(p.terminal_state, MarkAt(p, byte))
         /\ p.state = "Ground" => OscFeed(p, byte).state = IF byte = ESC THEN "Escape" ELSE "Ground"
         /\ p.state = "Escape" /\ byte = "]" =>
              OscFeed(p, byte).state = "OscStart" /\ OscFeed(p, byte).param_buf = <<>>
         /\ p.state = "Escape" /\ byte # "]" => OscFeed(p, byte).state = "Ground"
         /\ p.state \in {"OscStart", "OscParam"} /\ byte = BEL => OscFeed(p, byte).state = "Ground"
         /\ p.state \in {"OscStart", "OscParam"} /\ byte = ESC => OscFeed(p, byte).state = "Escape"
         /\ p.state = "OscStart" /\ byte = ";" /\ p.param_buf = <<"133">> =>
              OscFeed(p, byte).state = "OscParam" /\ OscFeed(p, byte).param_buf = <<>>
         /\ p.state = "OscStart" /\ byte \notin {BEL, ESC} /\ ~ (byte = ";" /\ p.param_buf = <<"133">>) =>
              /\ OscFeed(p, byte).state =
                   IF Bytes(Append(p.param_buf, byte)) > 3 THEN "OscParam" ELSE "OscStart"
              /\ OscFeed(p, byte).param_buf = Append(p.param_buf, byte)
         /\ p.state = "OscParam" /\ byte \notin {BEL, ESC} =>
              \/ OscFeed(p, byte).state = "Ground" /\ Bytes(p.param_buf) + 1 > MaxParam
              \/ /\ OscFeed(p, byte).state = "OscParam"
                 /\ OscFeed(p, byte).param_buf = Append(p.param_buf, byte)
<1> DEFINE q == OscFeed(p, byte)
           fed == CASE p.state = "Ground"   -> IF byte = ESC THEN [p EXCEPT !.state = "Escape"] ELSE p
                    [] p.state = "Escape"   -> IF byte = "]" THEN Enter(p, "OscStart")
                                               ELSE [p EXCEPT !.state = "Ground"]
                    [] p.state = "OscStart" -> OscStart(p, byte)
                    [] p.state = "OscParam" -> OscParam(p, byte)
           more == Append(p.param_buf, byte)
           whole == p.param_buf = <<"133">>
           long  == Bytes(more) > 3
           full  == Bytes(p.param_buf) + 1 > MaxParam
<1>1. p.state \in ParseState /\ p.param_buf \in Seq(Byte) /\ p.terminal_state \in TerminalState
  BY DEF OscParsers
<1>2. more \in Seq(Byte) /\ <<>> \in Seq(Byte)
  BY <1>1
<1>3. /\ Collect(p, byte) \in OscParsers /\ Collect(p, byte).state = p.state
      /\ Collect(p, byte).param_buf = more /\ Collect(p, byte).terminal_state = p.terminal_state
  BY <1>2 DEF Collect, OscParsers
<1>4. ASSUME NEW s \in ParseState
      PROVE  /\ Enter(p, s) \in OscParsers /\ Enter(p, s).state = s
             /\ Enter(p, s).param_buf = <<>> /\ Enter(p, s).terminal_state = p.terminal_state
             /\ [p EXCEPT !.state = s] \in OscParsers /\ [p EXCEPT !.state = s].state = s
  BY <1>2 DEF Enter, OscParsers
<1>5. /\ [Collect(p, byte) EXCEPT !.state = "OscParam"].state = "OscParam"
      /\ [Collect(p, byte) EXCEPT !.state = "OscParam"].param_buf = more
  BY <1>3 DEF OscParsers
<1>6. q = [fed EXCEPT !.terminal_state = TerminalStateAfter(@, MarkAt(p, byte))]
  BY DEF OscFeed
<1>7. fed \in OscParsers /\ fed.terminal_state = p.terminal_state
  BY OscContinues DEF Continues
<1> HIDE DEF q, more
<1>8. /\ q.state = fed.state /\ q.param_buf = fed.param_buf
      /\ q.terminal_state = TerminalStateAfter(p.terminal_state, MarkAt(p, byte))
  <2> HIDE DEF fed
  <2> QED BY <1>6, <1>7 DEF OscParsers
<1>9. p.state = "Ground" => fed.state = IF byte = ESC THEN "Escape" ELSE "Ground"
  BY <1>4 DEF ParseState
<1>10. /\ p.state = "Escape" /\ byte = "]" => fed.state = "OscStart" /\ fed.param_buf = <<>>
       /\ p.state = "Escape" /\ byte # "]" => fed.state = "Ground"
  BY <1>4 DEF ParseState
<1>11. /\ p.state = "OscStart" => fed = OscStart(p, byte)
       /\ p.state = "OscParam" => fed = OscParam(p, byte)
  OBVIOUS
<1>12. Bytes(Collect(p, byte).param_buf) > 3 <=> long
  BY <1>3 DEF more
<1> HIDE DEF whole, long, full, fed
<1>13. /\ byte = BEL => OscStart(p, byte) = Enter(p, "Ground")
       /\ byte = ESC => OscStart(p, byte) = Enter(p, "Escape")
       /\ byte = ";" /\ whole => OscStart(p, byte) = Enter(p, "OscParam")
       /\ byte \notin {BEL, ESC} /\ ~ (byte = ";" /\ whole) =>
            OscStart(p, byte) = IF long THEN [Collect(p, byte) EXCEPT !.state = "OscParam"] ELSE Collect(p, byte)
  <2>1. OscStart(p, byte) =
          CASE byte = ";" /\ whole -> Enter(p, "OscParam")
            [] byte = BEL           -> Enter(p, "Ground")
            [] byte = ESC           -> Enter(p, "Escape")
            [] OTHER -> IF long THEN [Collect(p, byte) EXCEPT !.state = "OscParam"] ELSE Collect(p, byte)
    BY <1>12, Zenon DEF OscStart, whole
  <2>2. BEL # ESC /\ BEL # ";" /\ ESC # ";"
    BY DEF BEL, ESC
  <2> QED BY <2>1, <2>2
<1>14. /\ byte = BEL => OscParam(p, byte) = Enter(p, "Ground")
       /\ byte = ESC => OscParam(p, byte) = Enter(p, "Escape")
       /\ byte \notin {BEL, ESC} => OscParam(p, byte) = IF full THEN Enter(p, "Ground") ELSE Collect(p, byte)
  <2>1. OscParam(p, byte) =
          CASE byte = BEL -> Enter(p, "Ground")
            [] byte = ESC -> Enter(p, "Escape")
            [] OTHER -> IF full THEN Enter(p, "Ground") ELSE Collect(p, byte)
    BY Zenon DEF OscParam, full
  <2>2. BEL # ESC
    BY DEF BEL, ESC
  <2> QED BY <2>1, <2>2
<1>15. /\ Enter(p, "Ground").state = "Ground" /\ Enter(p, "Escape").state = "Escape"
       /\ Enter(p, "OscParam").state = "OscParam" /\ Enter(p, "OscParam").param_buf = <<>>
  BY <1>4 DEF ParseState
<1>16. p.state \in {"OscStart", "OscParam"} =>
         /\ byte = BEL => fed.state = "Ground"
         /\ byte = ESC => fed.state = "Escape"
  BY <1>11, <1>13, <1>14, <1>15
<1>17. p.state = "OscStart" /\ byte = ";" /\ whole => fed.state = "OscParam" /\ fed.param_buf = <<>>
  BY <1>11, <1>13, <1>15
<1>18. p.state = "OscStart" /\ byte \notin {BEL, ESC} /\ ~ (byte = ";" /\ whole) =>
         fed.state = (IF long THEN "OscParam" ELSE "OscStart") /\ fed.param_buf = more
  BY <1>3, <1>5, <1>11, <1>13
<1>19. p.state = "OscParam" /\ byte \notin {BEL, ESC} =>
         \/ fed.state = "Ground" /\ full
         \/ fed.state = "OscParam" /\ fed.param_buf = more
  BY <1>3, <1>11, <1>14, <1>15
<1> QED BY <1>8, <1>9, <1>10, <1>16, <1>17, <1>18, <1>19 DEF q, more, whole, long, full

ShellMarkers == {Marker("A"), Marker("B"), Marker("C"), MarkerD(0), MarkerD(1)}

(* The marker m is in the bytes from b on.                                 *)
MarkerAt(bytes, b, m) ==
  b + Len(m) - 1 <= Len(bytes) /\ \A j \in 1..Len(m) : bytes[b + j - 1] = m[j]

(* A 133 is within a marker of the shell's, which does not follow on an    *)
(* ESC; an ESC is not the end, and nor is an ESC ], which no letter of a   *)
(* marker follows.                                                         *)
Whole(bytes) ==
  /\ \A i \in 1..Len(bytes) :
       bytes[i] = "133" =>
         /\ i >= 3 /\ \E m \in ShellMarkers : MarkerAt(bytes, i - 2, m)
         /\ i > 3 => bytes[i - 3] # ESC
  /\ \A i \in 1..Len(bytes) :
       bytes[i] = ESC =>
         /\ i < Len(bytes)
         /\ bytes[i + 1] = "]" => i + 1 < Len(bytes) /\ bytes[i + 2] \notin MarkKind

LEMMA ShellMarkersAre ==
  ASSUME NEW m \in ShellMarkers
  PROVE  /\ m \in Seq(Byte) /\ (Len(m) = 6 \/ Len(m) = 8)
         /\ m[1] = ESC /\ m[2] = "]" /\ m[3] = "133" /\ m[4] = ";" /\ m[5] \in MarkKind
         /\ Len(m) = 6 => m[6] = BEL /\ m[5] # "D"
         /\ Len(m) = 8 => m[5] = "D" /\ m[6] = ";" /\ m[7] \in {"0", "1"} /\ m[8] = BEL
<1>1. m \in Seq(Byte)
  BY ShellPrintsBytes DEF ShellMarkers, MarkKind
<1>2. ASSUME NEW letter \in {"A", "B", "C"}, m = Marker(letter)
      PROVE  /\ Len(m) = 6 /\ m[1] = ESC /\ m[2] = "]" /\ m[3] = "133" /\ m[4] = ";"
             /\ m[5] = letter /\ m[6] = BEL
  BY <1>2 DEF Marker
<1>3. ASSUME NEW code \in {0, 1}, m = MarkerD(code)
      PROVE  /\ Len(m) = 8 /\ m[1] = ESC /\ m[2] = "]" /\ m[3] = "133" /\ m[4] = ";"
             /\ m[5] = "D" /\ m[6] = ";" /\ m[7] = (IF code = 0 THEN "0" ELSE "1") /\ m[8] = BEL
  BY <1>3 DEF MarkerD
<1>4. CASE \E letter \in {"A", "B", "C"} : m = Marker(letter)
  <2>1. PICK letter \in {"A", "B", "C"} : m = Marker(letter)
    BY <1>4
  <2>2. m[1] = ESC /\ m[2] = "]" /\ m[3] = "133" /\ m[4] = ";" /\ m[5] = letter /\ m[6] = BEL
    BY <1>2, <2>1
  <2>3. m[5] \in MarkKind /\ m[5] # "D"
    BY <2>2 DEF MarkKind
  <2>4. Len(m) = 6
    BY <1>2, <2>1
  <2>5. ~ (Len(m) = 8)
    BY <2>4
  <2> QED BY <1>1, <2>2, <2>3, <2>4, <2>5
<1>5. CASE \E code \in {0, 1} : m = MarkerD(code)
  <2>1. PICK code \in {0, 1} : m = MarkerD(code)
    BY <1>5
  <2>2. /\ m[1] = ESC /\ m[2] = "]" /\ m[3] = "133" /\ m[4] = ";" /\ m[5] = "D" /\ m[6] = ";"
        /\ m[7] \in {"0", "1"} /\ m[8] = BEL
    BY <1>3, <2>1
  <2>3. m[5] \in MarkKind
    BY <2>2 DEF MarkKind
  <2>4. Len(m) = 8
    BY <1>3, <2>1
  <2>5. ~ (Len(m) = 6)
    BY <2>4
  <2> QED BY <1>1, <2>2, <2>3, <2>4, <2>5
<1>6. (\E letter \in {"A", "B", "C"} : m = Marker(letter)) \/ \E code \in {0, 1} : m = MarkerD(code)
  BY DEF ShellMarkers
<1> QED BY <1>4, <1>5, <1>6

(* Where a marker's bytes are what.                                        *)
LEMMA InMarkers ==
  ASSUME NEW m \in ShellMarkers, NEW j \in 1..Len(m)
  PROVE  /\ m[j] = ESC <=> j = 1
         /\ m[j] = BEL <=> j = Len(m)
         /\ m[j] = "133" <=> j = 3
         /\ m[j] = "]" <=> j = 2
         /\ m[j] \in Byte
<1>1. /\ m \in Seq(Byte) /\ (Len(m) = 6 \/ Len(m) = 8)
      /\ m[1] = ESC /\ m[2] = "]" /\ m[3] = "133" /\ m[4] = ";" /\ m[5] \in MarkKind
      /\ Len(m) = 6 => m[6] = BEL /\ m[5] # "D"
      /\ Len(m) = 8 => m[5] = "D" /\ m[6] = ";" /\ m[7] \in {"0", "1"} /\ m[8] = BEL
  BY ShellMarkersAre
<1>2. m[j] \in Byte
  BY <1>1, ElementOfSeq
<1>3. CASE Len(m) = 6
  <2>1. j \in {1, 2, 3, 4, 5, 6}
    BY <1>3
  <2>2. CASE j = 1
    BY <1>1, <1>2, <1>3, <2>2 DEF ESC, BEL, MarkKind
  <2>3. CASE j = 2
    BY <1>1, <1>2, <1>3, <2>3 DEF ESC, BEL, MarkKind
  <2>4. CASE j = 3
    BY <1>1, <1>2, <1>3, <2>4 DEF ESC, BEL, MarkKind
  <2>5. CASE j = 4
    BY <1>1, <1>2, <1>3, <2>5 DEF ESC, BEL, MarkKind
  <2>6. CASE j = 5
    BY <1>1, <1>2, <1>3, <2>6 DEF ESC, BEL, MarkKind
  <2>7. CASE j = 6
    BY <1>1, <1>2, <1>3, <2>7 DEF ESC, BEL, MarkKind
  <2> QED BY <2>1, <2>2, <2>3, <2>4, <2>5, <2>6, <2>7
<1>4. CASE Len(m) = 8
  <2>1. j \in {1, 2, 3, 4, 5, 6, 7, 8}
    BY <1>4
  <2>2. CASE j = 1
    BY <1>1, <1>2, <1>4, <2>2 DEF ESC, BEL, MarkKind
  <2>3. CASE j = 2
    BY <1>1, <1>2, <1>4, <2>3 DEF ESC, BEL, MarkKind
  <2>4. CASE j = 3
    BY <1>1, <1>2, <1>4, <2>4 DEF ESC, BEL, MarkKind
  <2>5. CASE j = 4
    BY <1>1, <1>2, <1>4, <2>5 DEF ESC, BEL, MarkKind
  <2>6. CASE j = 5
    BY <1>1, <1>2, <1>4, <2>6 DEF ESC, BEL, MarkKind
  <2>7. CASE j = 6
    BY <1>1, <1>2, <1>4, <2>7 DEF ESC, BEL, MarkKind
  <2>8. CASE j = 7
    BY <1>1, <1>2, <1>4, <2>8 DEF ESC, BEL, MarkKind
  <2>9. CASE j = 8
    BY <1>1, <1>2, <1>4, <2>9 DEF ESC, BEL, MarkKind
  <2> QED BY <2>1, <2>2, <2>3, <2>4, <2>5, <2>6, <2>7, <2>8, <2>9
<1> QED BY <1>1, <1>3, <1>4

(* What is whole stays so when more that is follows.                       *)
LEMMA WholeConcat ==
  ASSUME NEW s \in Seq(Byte), NEW t \in Seq(Byte), Whole(s), Whole(t)
  PROVE  Whole(s \o t)
<1> DEFINE both == s \o t
           M == Len(s)
           N == Len(t)
<1>1. /\ M \in Nat /\ N \in Nat /\ Len(both) = M + N
      /\ \A n \in 1..M : both[n] = s[n]
      /\ \A n \in 1..N : both[M + n] = t[n]
  BY ConcatProperties, LenProperties
<1>2. /\ \A i \in 1..M : s[i] = "133" =>
           /\ i >= 3 /\ \E m \in ShellMarkers : MarkerAt(s, i - 2, m)
           /\ i > 3 => s[i - 3] # ESC
      /\ \A i \in 1..M : s[i] = ESC =>
           i < M /\ (s[i + 1] = "]" => i + 1 < M /\ s[i + 2] \notin MarkKind)
  BY DEF Whole
<1>3. /\ \A i \in 1..N : t[i] = "133" =>
           /\ i >= 3 /\ \E m \in ShellMarkers : MarkerAt(t, i - 2, m)
           /\ i > 3 => t[i - 3] # ESC
      /\ \A i \in 1..N : t[i] = ESC =>
           i < N /\ (t[i + 1] = "]" => i + 1 < N /\ t[i + 2] \notin MarkKind)
  BY DEF Whole
<1>4. ASSUME NEW m \in ShellMarkers, NEW b \in Nat, b >= 1, MarkerAt(s, b, m)
      PROVE  MarkerAt(both, b, m)
  <2>1. Len(m) \in Nat /\ b + Len(m) - 1 <= M /\ \A j \in 1..Len(m) : s[b + j - 1] = m[j]
    <3>1. m \in Seq(Byte)
      BY ShellMarkersAre
    <3> QED BY <1>4, <3>1, LenProperties DEF MarkerAt
  <2>2. \A j \in 1..Len(m) : b + j - 1 \in 1..M
    BY <1>1, <1>4, <2>1
  <2>3. b + Len(m) - 1 <= Len(both) /\ \A j \in 1..Len(m) : both[b + j - 1] = m[j]
    BY <1>1, <2>1, <2>2
  <2> QED BY <2>3 DEF MarkerAt
<1>5. ASSUME NEW m \in ShellMarkers, NEW b \in Nat, b >= 1, MarkerAt(t, b, m)
      PROVE  MarkerAt(both, M + b, m)
  <2>1. Len(m) \in Nat /\ b + Len(m) - 1 <= N /\ \A j \in 1..Len(m) : t[b + j - 1] = m[j]
    <3>1. m \in Seq(Byte)
      BY ShellMarkersAre
    <3> QED BY <1>5, <3>1, LenProperties DEF MarkerAt
  <2>2. \A j \in 1..Len(m) : b + j - 1 \in 1..N /\ (M + b) + j - 1 = M + (b + j - 1)
    BY <1>1, <1>5, <2>1
  <2>3. (M + b) + Len(m) - 1 <= Len(both) /\ \A j \in 1..Len(m) : both[(M + b) + j - 1] = m[j]
    BY <1>1, <2>1, <2>2
  <2> QED BY <2>3 DEF MarkerAt
<1> HIDE DEF both, M, N
<1>6. ASSUME NEW i \in 1..(M + N)
      PROVE  /\ both[i] = "133" =>
                  /\ i >= 3 /\ \E m \in ShellMarkers : MarkerAt(both, i - 2, m)
                  /\ i > 3 => both[i - 3] # ESC
             /\ both[i] = ESC =>
                  i < M + N /\ (both[i + 1] = "]" => i + 1 < M + N /\ both[i + 2] \notin MarkKind)
  <2>1. CASE i <= M
    <3>1. i \in 1..M /\ both[i] = s[i]
      BY <1>1, <2>1
    <3>2. ASSUME s[i] = "133"
          PROVE  /\ i >= 3 /\ \E m \in ShellMarkers : MarkerAt(both, i - 2, m)
                 /\ i > 3 => both[i - 3] # ESC
      <4>1. i >= 3 /\ i - 2 \in Nat /\ i - 2 >= 1
        BY <1>2, <3>1, <3>2
      <4>2. PICK m \in ShellMarkers : MarkerAt(s, i - 2, m)
        BY <1>2, <3>1, <3>2
      <4>3. i > 3 => i - 3 \in 1..M /\ both[i - 3] = s[i - 3]
        BY <1>1, <3>1
      <4> QED BY <1>2, <1>4, <3>1, <3>2, <4>1, <4>2, <4>3
    <3>3. ASSUME s[i] = ESC
          PROVE  i < M + N /\ (both[i + 1] = "]" => i + 1 < M + N /\ both[i + 2] \notin MarkKind)
      <4>1. i < M /\ i + 1 \in 1..M /\ both[i + 1] = s[i + 1]
        BY <1>1, <1>2, <3>1, <3>3
      <4>2. i + 1 < M => i + 2 \in 1..M /\ both[i + 2] = s[i + 2]
        BY <1>1, <3>1
      <4> QED BY <1>1, <1>2, <3>1, <3>3, <4>1, <4>2
    <3> QED BY <3>1, <3>2, <3>3
  <2>2. CASE i > M
    <3> DEFINE k == i - M
    <3>1. k \in 1..N /\ i = M + k
      BY <1>1, <2>2
    <3> HIDE DEF k
    <3>2. both[i] = t[k]
      BY <1>1, <3>1
    <3>3. ASSUME t[k] = "133"
          PROVE  /\ i >= 3 /\ \E m \in ShellMarkers : MarkerAt(both, i - 2, m)
                 /\ i > 3 => both[i - 3] # ESC
      <4>1. k >= 3 /\ k - 2 \in Nat /\ k - 2 >= 1 /\ i - 2 = M + (k - 2) /\ i >= 3
        BY <1>1, <1>3, <3>1, <3>3
      <4>2. PICK m \in ShellMarkers : MarkerAt(t, k - 2, m)
        BY <1>3, <3>1, <3>3
      <4>3. MarkerAt(both, i - 2, m)
        BY <1>5, <4>1, <4>2
      <4>4. k > 3 => both[i - 3] # ESC
        <5>1. k > 3 => k - 3 \in 1..N /\ i - 3 = M + (k - 3) /\ both[M + (k - 3)] = t[k - 3]
          BY <1>1, <3>1
        <5> QED BY <1>3, <3>1, <3>3, <5>1
      <4>5. k = 3 /\ i > 3 => both[i - 3] # ESC
        <5>1. k = 3 /\ i > 3 => M \in 1..M /\ i - 3 = M /\ both[M] = s[M]
          BY <1>1, <3>1
        <5>2. M \in 1..M => s[M] # ESC
          BY <1>1, <1>2
        <5> QED BY <5>1, <5>2
      <4> QED BY <3>1, <4>1, <4>3, <4>4, <4>5
    <3>4. ASSUME t[k] = ESC
          PROVE  i < M + N /\ (both[i + 1] = "]" => i + 1 < M + N /\ both[i + 2] \notin MarkKind)
      <4>1. k < N /\ k + 1 \in 1..N /\ i + 1 = M + (k + 1) /\ both[i + 1] = t[k + 1]
        <5>1. k < N /\ k + 1 \in 1..N /\ i + 1 = M + (k + 1)
          BY <1>1, <1>3, <3>1, <3>4
        <5> QED BY <1>1, <5>1
      <4>2. k + 1 < N => i + 2 = M + (k + 2) /\ both[M + (k + 2)] = t[k + 2]
        <5>1. k + 1 < N => k + 2 \in 1..N /\ i + 2 = M + (k + 2)
          BY <1>1, <3>1
        <5> QED BY <1>1, <5>1
      <4>3. i < M + N /\ (k + 1 < N => i + 1 < M + N)
        BY <1>1, <3>1, <4>1
      <4> QED BY <1>3, <3>1, <3>4, <4>1, <4>2, <4>3
    <3> QED BY <3>2, <3>3, <3>4
  <2> QED BY <1>1, <2>1, <2>2
<1>7. Whole(both)
  BY <1>1, <1>6 DEF Whole
<1> QED BY <1>7 DEF both

LEMMA WholeMarker ==
  ASSUME NEW m \in ShellMarkers
  PROVE  Whole(m)
<1>1. m \in Seq(Byte) /\ (Len(m) = 6 \/ Len(m) = 8) /\ Len(m) \in Nat /\ m[3] = "133"
  <2>1. m \in Seq(Byte) /\ (Len(m) = 6 \/ Len(m) = 8) /\ m[3] = "133"
    BY ShellMarkersAre
  <2>2. Len(m) \in Nat
    BY <2>1, LenProperties
  <2> QED BY <2>1, <2>2
<1>2. MarkerAt(m, 1, m)
  <2>1. \A j \in 1..Len(m) : 1 + j - 1 = j
    BY <1>1
  <2>2. 1 + Len(m) - 1 <= Len(m)
    BY <1>1
  <2> QED BY <2>1, <2>2 DEF MarkerAt
<1>3. ASSUME NEW i \in 1..Len(m), m[i] = "133"
      PROVE  i = 3
  BY <1>3, InMarkers
<1>4. ASSUME NEW i \in 1..Len(m), m[i] = ESC
      PROVE  i < Len(m) /\ (m[i + 1] = "]" => i + 1 < Len(m) /\ m[i + 2] \notin MarkKind)
  <2>1. i = 1
    BY <1>4, InMarkers
  <2>2. i + 2 = 3 /\ i < Len(m) /\ i + 1 < Len(m)
    BY <1>1, <2>1
  <2> QED BY <1>1, <2>2 DEF MarkKind
<1>5. \A i \in 1..Len(m) : i = 3 => i >= 3 /\ ~ (i > 3) /\ i - 2 = 1
  OBVIOUS
<1> QED BY <1>2, <1>3, <1>4, <1>5 DEF Whole

LEMMA WholeByte ==
  ASSUME NEW byte, byte # ESC, byte # "133"
  PROVE  Whole(<<byte>>) /\ Whole(<<>>)
<1>1. Len(<<byte>>) = 1 /\ Len(<<>>) = 0
  OBVIOUS
<1>2. \A i \in 1..Len(<<byte>>) : <<byte>>[i] # ESC /\ <<byte>>[i] # "133"
  OBVIOUS
<1> QED BY <1>1, <1>2 DEF Whole

(* What the shell prints of its own is whole.                              *)
LEMMA ShellPrintsWhole ==
  /\ \A key \in TtyKey : Whole(<<key>>)
  /\ \A code \in {0, 1} : Whole(MarkerD(code))
  /\ Whole(<<"\n">>) /\ Whole(<<"\n">> \o Marker("C")) /\ Whole(Marker("A") \o <<"$">> \o Marker("B"))
<1>1. \A key \in TtyKey : Whole(<<key>>)
  <2>1. \A key \in TtyKey : key # ESC /\ key # "133"
    BY DEF TtyKey, Key, NEWLINE, CTRL_U, ESC
  <2> QED BY <2>1, WholeByte
<1>2. \A code \in {0, 1} : Whole(MarkerD(code))
  BY WholeMarker DEF ShellMarkers
<1>3. Whole(Marker("A")) /\ Whole(Marker("B")) /\ Whole(Marker("C"))
  BY WholeMarker DEF ShellMarkers
<1>4. Whole(<<"\n">>) /\ Whole(<<"$">>)
  BY WholeByte DEF ESC
<1>5. /\ Marker("A") \in Seq(Byte) /\ Marker("B") \in Seq(Byte) /\ Marker("C") \in Seq(Byte)
      /\ <<"\n">> \in Seq(Byte) /\ <<"$">> \in Seq(Byte)
  <2>1. "$" \in Byte
    BY BytesAre DEF ShellByte
  <2> QED BY <2>1, ShellPrintsBytes DEF MarkKind
<1>6. Whole(<<"\n">> \o Marker("C"))
  BY <1>3, <1>4, <1>5, WholeConcat
<1>7. Whole(Marker("A") \o <<"$">>) /\ Marker("A") \o <<"$">> \in Seq(Byte)
  BY <1>3, <1>4, <1>5, WholeConcat, ConcatProperties
<1>8. Whole((Marker("A") \o <<"$">>) \o Marker("B"))
  BY <1>3, <1>5, <1>7, WholeConcat
<1> QED BY <1>1, <1>2, <1>4, <1>6, <1>8

(* Commands print a marker as a whole only, and neither an ESC nor an ESC  *)
(* ] as their last bytes.                                                  *)
OutputsWhole == \A bytes \in Outputs : Whole(bytes)

(* How the parser stands after the first i of the bytes.                   *)
InOsc(bytes, i, r) ==
  \E b \in 1..(i - 1) :
    /\ bytes[b] = ESC /\ bytes[b + 1] = "]" /\ Len(r.param_buf) = i - b - 1
    /\ \A j \in 1..(i - b - 1) : r.param_buf[j] = bytes[b + 1 + j]

InMarker(bytes, i, r) ==
  \E b \in 1..i, m \in ShellMarkers :
    /\ MarkerAt(bytes, b, m) /\ b + 3 <= i /\ i < b + Len(m) - 1 /\ Len(r.param_buf) = i - b - 3
    /\ \A j \in 1..(i - b - 3) : r.param_buf[j] = m[4 + j]

Tracks(bytes, i, r) ==
  /\ r.state = "Escape" => i >= 1 /\ bytes[i] = ESC
  /\ r.state = "OscStart" => InOsc(bytes, i, r)
  /\ r.state = "OscParam" =>
       (r.param_buf # <<>> /\ r.param_buf[1] \notin MarkKind) \/ InMarker(bytes, i, r)

LEMMA TracksMore ==
  ASSUME NEW bytes \in Seq(Byte), Whole(bytes), NEW i \in 0..(Len(bytes) - 1),
         NEW r \in OscParsers, Tracks(bytes, i, r)
  PROVE  Tracks(bytes, i + 1, OscFeed(r, bytes[i + 1]))
<1> DEFINE N    == Len(bytes)
           byte == bytes[i + 1]
           q    == OscFeed(r, byte)
           more == Append(r.param_buf, byte)
<1>1. N \in Nat /\ i \in Nat /\ i + 1 \in 1..N /\ byte \in Byte
  <2>1. N \in Nat /\ i \in Nat /\ i + 1 \in 1..N
    BY LenProperties
  <2> QED BY <2>1, ElementOfSeq
<1>2. r.state \in ParseState /\ r.param_buf \in Seq(Byte) /\ Len(r.param_buf) \in Nat
  BY LenProperties DEF OscParsers
<1>3. /\ more \in Seq(Byte) /\ Len(more) = Len(r.param_buf) + 1 /\ more[Len(r.param_buf) + 1] = byte
      /\ \A j \in 1..Len(r.param_buf) : more[j] = r.param_buf[j]
  BY <1>1, <1>2, AppendProperties
<1>4. CASE r.state = "Ground"
  <2>1. (byte = ESC => q.state = "Escape") /\ (byte # ESC => q.state = "Ground")
    BY <1>1, <1>4, OscFeedFields
  <2> QED BY <1>1, <2>1 DEF Tracks
<1>5. CASE r.state = "Escape"
  <2>1. i \in 1..N /\ bytes[i] = ESC
    BY <1>1, <1>5 DEF Tracks
  <2>2. CASE byte = "]"
    <3>1. q.state = "OscStart" /\ q.param_buf = <<>>
      BY <1>1, <1>5, <2>2, OscFeedFields
    <3>2. InOsc(bytes, i + 1, q)
      <4>1. i \in 1..((i + 1) - 1) /\ Len(q.param_buf) = (i + 1) - i - 1 /\ \A j \in 1..((i + 1) - i - 1) : FALSE
        BY <1>1, <2>1, <3>1
      <4> QED BY <2>1, <2>2, <4>1 DEF InOsc
    <3> QED BY <3>1, <3>2 DEF Tracks
  <2>3. CASE byte # "]"
    <3>1. q.state = "Ground"
      BY <1>1, <1>5, <2>3, OscFeedFields
    <3> QED BY <3>1 DEF Tracks
  <2> QED BY <2>2, <2>3
<1>6. CASE r.state \in {"OscStart", "OscParam"} /\ byte \in {BEL, ESC}
  <2>1. (byte = BEL => q.state = "Ground") /\ (byte = ESC => q.state = "Escape")
    BY <1>1, <1>6, OscFeedFields
  <2> QED BY <1>1, <1>6, <2>1 DEF Tracks
<1>7. CASE r.state = "OscStart" /\ byte \notin {BEL, ESC}
  <2>1. PICK b \in 1..(i - 1) :
          /\ bytes[b] = ESC /\ bytes[b + 1] = "]" /\ Len(r.param_buf) = i - b - 1
          /\ \A j \in 1..(i - b - 1) : r.param_buf[j] = bytes[b + 1 + j]
    BY <1>7 DEF Tracks, InOsc
  <2>2. b \in 1..N /\ b \in 1..i /\ b + 1 < N /\ bytes[b + 2] \notin MarkKind
    <3>1. b \in 1..N /\ b \in 1..i
      BY <1>1
    <3> QED BY <2>1, <3>1 DEF Whole
  <2>3. CASE byte = ";" /\ r.param_buf = <<"133">>
    <3>1. q.state = "OscParam" /\ q.param_buf = <<>>
      BY <1>1, <1>7, <2>3, OscFeedFields
    <3>2. Len(r.param_buf) = 1 /\ r.param_buf[1] = "133"
      <4> DEFINE one == <<"133">>
      <4>1. Len(one) = 1 /\ one[1] = "133" /\ r.param_buf = one
        BY <2>3
      <4> HIDE DEF one
      <4> QED BY <4>1
    <3>3. i = b + 2 /\ 1 \in 1..(i - b - 1) /\ b + 1 + 1 = b + 2 /\ b + 2 \in 1..N /\ (b + 2) - 2 = b
      <4>1. i - b - 1 = 1
        BY <2>1, <3>2
      <4>2. b \in Int /\ b >= 1 /\ b + 1 < N
        BY <2>2
      <4> QED BY <1>1, <4>1, <4>2
    <3>4. bytes[b + 2] = "133"
      BY <2>1, <3>2, <3>3
    <3>5. PICK m \in ShellMarkers : MarkerAt(bytes, b, m)
      <4>1. \E m \in ShellMarkers : MarkerAt(bytes, (b + 2) - 2, m)
        BY <3>3, <3>4 DEF Whole
      <4> QED BY <3>3, <4>1
    <3>6. Len(m) = 6 \/ Len(m) = 8
      BY ShellMarkersAre
    <3>7. b \in 1..(i + 1) /\ b + 3 <= i + 1 /\ i + 1 < b + Len(m) - 1 /\ (i + 1) - b - 3 = 0
      <4> DEFINE size == Len(m)
      <4>1. size \in {6, 8}
        BY <3>6
      <4> HIDE DEF size
      <4>2. b \in Int /\ b >= 1 /\ i = b + 2
        BY <3>3
      <4>3. b \in 1..(i + 1) /\ b + 3 <= i + 1 /\ i + 1 < b + size - 1 /\ (i + 1) - b - 3 = 0
        BY <1>1, <4>1, <4>2
      <4> QED BY <4>3 DEF size
    <3>8. Len(q.param_buf) = (i + 1) - b - 3 /\ \A j \in 1..((i + 1) - b - 3) : FALSE
      BY <3>1, <3>7
    <3>9. InMarker(bytes, i + 1, q)
      BY <3>5, <3>7, <3>8 DEF InMarker
    <3> QED BY <3>1, <3>9 DEF Tracks
  <2>4. CASE ~ (byte = ";" /\ r.param_buf = <<"133">>)
    <3>1. q.param_buf = more /\ q.state \in {"OscStart", "OscParam"}
      BY <1>1, <1>7, <2>4, OscFeedFields
    <3>2. \A j \in 1..((i + 1) - b - 1) : more[j] = bytes[b + 1 + j]
      <4> SUFFICES ASSUME NEW j \in 1..((i + 1) - b - 1) PROVE more[j] = bytes[b + 1 + j]
        OBVIOUS
      <4>1. CASE j \in 1..(i - b - 1)
        BY <1>3, <2>1, <4>1
      <4>2. CASE j \notin 1..(i - b - 1)
        <5>1. j = i - b /\ b + 1 + j = i + 1 /\ j = Len(r.param_buf) + 1
          BY <1>1, <2>1, <4>2
        <5> QED BY <1>3, <5>1
      <4> QED BY <4>1, <4>2
    <3>3. Len(more) = (i + 1) - b - 1 /\ b \in 1..((i + 1) - 1) /\ 1 \in 1..((i + 1) - b - 1) /\ b + 1 + 1 = b + 2
      BY <1>1, <1>3, <2>1
    <3>4. InOsc(bytes, i + 1, q)
      BY <2>1, <3>1, <3>2, <3>3 DEF InOsc
    <3>5. more[1] \notin MarkKind /\ more # <<>>
      <4>1. more[1] = bytes[b + 2]
        BY <3>2, <3>3
      <4>2. Len(more) # 0
        BY <1>2, <1>3
      <4> QED BY <2>2, <4>1, <4>2, EmptySeq
    <3> QED BY <3>1, <3>4, <3>5 DEF Tracks
  <2> QED BY <2>3, <2>4
<1>8. CASE r.state = "OscParam" /\ byte \notin {BEL, ESC}
  <2>1. q.state = "Ground" \/ (q.state = "OscParam" /\ q.param_buf = more)
    BY <1>1, <1>8, OscFeedFields
  <2> SUFFICES ASSUME q.state = "OscParam", q.param_buf = more
               PROVE  (more # <<>> /\ more[1] \notin MarkKind) \/ InMarker(bytes, i + 1, q)
    BY <2>1 DEF Tracks
  <2>2. CASE r.param_buf # <<>> /\ r.param_buf[1] \notin MarkKind
    <3>1. 1 \in 1..Len(r.param_buf) /\ Len(more) # 0
      BY <1>2, <1>3, <2>2, EmptySeq
    <3> QED BY <1>3, <2>2, <3>1, EmptySeq
  <2>3. CASE InMarker(bytes, i, r)
    <3>1. PICK b \in 1..i, m \in ShellMarkers :
            /\ MarkerAt(bytes, b, m) /\ b + 3 <= i /\ i < b + Len(m) - 1 /\ Len(r.param_buf) = i - b - 3
            /\ \A j \in 1..(i - b - 3) : r.param_buf[j] = m[4 + j]
      BY <2>3 DEF InMarker
    <3>2. Len(m) \in Nat /\ m \in Seq(Byte)
      BY ShellMarkersAre, LenProperties
    <3> DEFINE k == i - b + 2
    <3>3. k \in 1..Len(m) /\ b + k - 1 = i + 1
      BY <1>1, <3>1, <3>2
    <3>4. byte = m[k]
      <4>1. \A j \in 1..Len(m) : bytes[b + j - 1] = m[j]
        BY <3>1 DEF MarkerAt
      <4> QED BY <3>3, <4>1
    <3>5. k # Len(m)
      BY <1>8, <3>3, <3>4, InMarkers
    <3>6. /\ b \in 1..(i + 1) /\ b + 3 <= i + 1 /\ i + 1 < b + Len(m) - 1
          /\ Len(more) = (i + 1) - b - 3
      <4> DEFINE size == Len(m)
      <4>1. size \in Nat /\ i < b + size - 1 /\ k # size /\ b \in Int
        BY <3>1, <3>2, <3>5
      <4> HIDE DEF size
      <4>2. b \in 1..(i + 1) /\ b + 3 <= i + 1 /\ i + 1 < b + size - 1
        BY <1>1, <3>1, <4>1
      <4>3. Len(more) = (i + 1) - b - 3
        BY <1>1, <1>3, <3>1
      <4> QED BY <4>2, <4>3 DEF size
    <3>7. \A j \in 1..((i + 1) - b - 3) : more[j] = m[4 + j]
      <4> SUFFICES ASSUME NEW j \in 1..((i + 1) - b - 3) PROVE more[j] = m[4 + j]
        OBVIOUS
      <4>1. CASE j \in 1..(i - b - 3)
        BY <1>3, <3>1, <4>1
      <4>2. CASE j \notin 1..(i - b - 3)
        <5>1. j = i - b - 2 /\ 4 + j = k /\ j = Len(r.param_buf) + 1
          BY <1>1, <3>1, <4>2
        <5> HIDE DEF k
        <5> QED BY <1>3, <3>4, <5>1
      <4> QED BY <4>1, <4>2
    <3> QED BY <3>1, <3>6, <3>7 DEF InMarker
  <2> QED BY <1>8, <2>2, <2>3 DEF Tracks
<1> QED BY <1>2, <1>4, <1>5, <1>6, <1>7, <1>8 DEF ParseState

LEMMA NewParserTyped == NewOscParser \in OscParsers /\ Bounded(NewOscParser)
  BY EmptySeq, OscAssumption DEF NewOscParser, OscParsers, ParseState, TerminalState, Bounded, Bytes

(* The parsers after each of the bytes.                                    *)
Parsers(bytes, n) == OscFed(NewOscParser, bytes)[n].parser

LEMMA ParsersAre ==
  ASSUME NEW bytes \in Seq(Byte)
  PROVE  /\ Parsers(bytes, 0) = NewOscParser
         /\ \A n \in 0..Len(bytes) : Parsers(bytes, n) \in OscParsers
         /\ \A n \in 1..Len(bytes) : Parsers(bytes, n) = OscFeed(Parsers(bytes, n - 1), bytes[n])
<1> DEFINE P == OscFed(NewOscParser, bytes)
<1>1. /\ P[0] = [parser |-> NewOscParser, marks |-> <<>>]
      /\ \A n \in 1..Len(bytes) : P[n] = OscFedMore(P[n - 1], bytes[n])
      /\ \A n \in 0..Len(bytes) : P[n] \in OscFeds
  BY NewParserTyped, OscFedDefined
<1>2. \A n : Parsers(bytes, n) = P[n].parser
  BY DEF Parsers
<1> HIDE DEF P
<1>3. ASSUME NEW n \in 1..Len(bytes)
      PROVE  P[n].parser = OscFeed(P[n - 1].parser, bytes[n])
  <2>1. P[n] = OscFedMore(P[n - 1], bytes[n])
    BY <1>1
  <2> QED BY <2>1 DEF OscFedMore
<1>4. \A n \in 0..Len(bytes) : P[n].parser \in OscParsers
  BY <1>1 DEF OscFeds
<1>5. P[0].parser = NewOscParser
  BY <1>1
<1> QED BY <1>2, <1>3, <1>4, <1>5

LEMMA AllTracked ==
  ASSUME NEW bytes \in Seq(Byte), Whole(bytes)
  PROVE  \A n \in 0..Len(bytes) : Tracks(bytes, n, Parsers(bytes, n))
<1> DEFINE N == Len(bytes)
           T == {n \in 0..N : Tracks(bytes, n, Parsers(bytes, n))}
<1>1. N \in Nat
  BY LenProperties
<1>2. 0 \in T
  <2>1. Parsers(bytes, 0).state = "Ground"
    BY ParsersAre DEF NewOscParser
  <2> QED BY <1>1, <2>1 DEF Tracks
<1>3. ASSUME NEW n \in 1..N, n - 1 \in T
      PROVE  n \in T
  <2>1. n - 1 \in 0..(N - 1) /\ n - 1 \in 0..N /\ (n - 1) + 1 = n /\ n \in 0..N
    BY <1>1
  <2>2. Parsers(bytes, n - 1) \in OscParsers /\ Tracks(bytes, n - 1, Parsers(bytes, n - 1))
    BY <1>3, <2>1, ParsersAre
  <2>3. Tracks(bytes, (n - 1) + 1, OscFeed(Parsers(bytes, n - 1), bytes[(n - 1) + 1]))
    BY <2>1, <2>2, TracksMore
  <2>4. Parsers(bytes, n) = OscFeed(Parsers(bytes, n - 1), bytes[n])
    BY ParsersAre
  <2> QED BY <2>1, <2>3, <2>4
<1>4. \A n \in 0..N : n \in T
  <2> HIDE DEF T
  <2> QED BY <1>1, <1>2, <1>3, InductionUpTo
<1> QED BY <1>4

(* A mark is the end of a marker.                                          *)
LEMMA MarkIsMarker ==
  ASSUME NEW bytes \in Seq(Byte), NEW i \in 0..(Len(bytes) - 1), NEW r \in OscParsers,
         Tracks(bytes, i, r), MarkAt(r, bytes[i + 1]) # NoMark
  PROVE  \E b \in 1..i, m \in ShellMarkers : MarkerAt(bytes, b, m) /\ b + Len(m) - 1 = i + 1
<1> DEFINE byte == bytes[i + 1]
<1>1. r.state = "OscParam" /\ byte \in {BEL, ESC} /\ MarkOf(r.param_buf) # NoMark
  BY DEF MarkAt
<1>2. r.param_buf # <<>> /\ r.param_buf[1] \in MarkKind
  BY <1>1 DEF MarkOf, MarkKind
<1>3. InMarker(bytes, i, r)
  BY <1>1, <1>2 DEF Tracks
<1>4. PICK b \in 1..i, m \in ShellMarkers : MarkerAt(bytes, b, m) /\ b + 3 <= i /\ i < b + Len(m) - 1
  BY <1>3 DEF InMarker
<1> DEFINE size == Len(m)
           k == i - b + 2
<1>5. size \in Nat /\ i \in Int /\ b \in Int /\ b + 3 <= i /\ i < b + size - 1
  <2>1. m \in Seq(Byte)
    BY ShellMarkersAre
  <2>2. Len(m) \in Nat
    BY <2>1, LenProperties
  <2> QED BY <1>4, <2>2
<1>6. k \in 1..size /\ b + k - 1 = i + 1 /\ k # 1
  <2> HIDE DEF size
  <2> QED BY <1>5
<1>7. byte = m[k]
  <2>1. \A j \in 1..Len(m) : bytes[b + j - 1] = m[j]
    BY <1>4 DEF MarkerAt
  <2> QED BY <1>6, <2>1
<1>8. k = size
  BY <1>1, <1>6, <1>7, InMarkers
<1>9. b + size - 1 = i + 1
  <2> HIDE DEF size
  <2> QED BY <1>5, <1>8
<1> QED BY <1>4, <1>9

(* The bytes of a marker, one by one.                                      *)
LEMMA FedEscape ==
  ASSUME NEW p \in OscParsers, p.state # "Escape"
  PROVE  OscFeed(p, ESC).state = "Escape"
<1>1. p.state \in {"Ground", "OscStart", "OscParam"} /\ ESC \in Byte
  BY BytesAre DEF OscParsers, ParseState, ShellByte
<1> QED BY <1>1, OscFeedFields

LEMMA FedBracket ==
  ASSUME NEW p \in OscParsers, p.state = "Escape"
  PROVE  OscFeed(p, "]").state = "OscStart" /\ OscFeed(p, "]").param_buf = <<>>
<1>1. "]" \in Byte
  BY BytesAre DEF ShellByte
<1> QED BY <1>1, OscFeedFields

LEMMA Fed133 ==
  ASSUME NEW p \in OscParsers, p.state = "OscStart", p.param_buf = <<>>
  PROVE  OscFeed(p, "133").state = "OscStart" /\ OscFeed(p, "133").param_buf = <<"133">>
<1> DEFINE one == <<"133">>
           q   == OscFeed(p, "133")
<1>1. "133" \in Byte /\ "133" \notin {BEL, ESC} /\ "133" # ";"
  BY BytesAre DEF ShellByte, BEL, ESC
<1>2. Append(<<>>, "133") = one /\ ~ (Bytes(one) > 3)
  BY DEF Bytes
<1>3. /\ q.state = IF Bytes(Append(p.param_buf, "133")) > 3 THEN "OscParam" ELSE "OscStart"
      /\ q.param_buf = Append(p.param_buf, "133")
  BY <1>1, OscFeedFields
<1> HIDE DEF one, q
<1>4. Append(p.param_buf, "133") = one
  BY <1>2
<1> QED BY <1>2, <1>3, <1>4 DEF one, q

LEMMA FedSemicolon ==
  ASSUME NEW p \in OscParsers, p.state = "OscStart", p.param_buf = <<"133">>
  PROVE  OscFeed(p, ";").state = "OscParam" /\ OscFeed(p, ";").param_buf = <<>>
<1>1. ";" \in Byte
  BY BytesAre DEF ShellByte
<1> QED BY <1>1, OscFeedFields

LEMMA FedParam ==
  ASSUME NEW p \in OscParsers, p.state = "OscParam", NEW byte \in Byte, byte \notin {BEL, ESC},
         ~ (Bytes(p.param_buf) + 1 > MaxParam)
  PROVE  OscFeed(p, byte).state = "OscParam" /\ OscFeed(p, byte).param_buf = Append(p.param_buf, byte)
  BY OscFeedFields

LEMMA FedBell ==
  ASSUME NEW p \in OscParsers, p.state = "OscParam"
  PROVE  OscFeed(p, BEL).state = "Ground"
<1>1. BEL \in Byte
  BY BytesAre DEF ShellByte
<1> QED BY <1>1, OscFeedFields

LEMMA AppendTuple ==
  ASSUME NEW S, NEW x \in S, NEW y \in S, NEW z \in S
  PROVE  Append(<<x>>, y) = <<x, y>> /\ Append(<<x, y>>, z) = <<x, y, z>>
<1> DEFINE one == <<x>>
           two == <<x, y>>
           three == <<x, y, z>>
<1>1. /\ one \in Seq(S) /\ two \in Seq(S) /\ three \in Seq(S)
      /\ Len(one) = 1 /\ Len(two) = 2 /\ Len(three) = 3
      /\ one[1] = x /\ two[1] = x /\ two[2] = y /\ three[1] = x /\ three[2] = y /\ three[3] = z
  OBVIOUS
<1> HIDE DEF one, two, three
<1>2. Append(one, y) = two
  <2> DEFINE a == Append(one, y)
  <2>1. /\ a \in Seq(S) /\ Len(a) = Len(one) + 1 /\ a[Len(one) + 1] = y
        /\ \A i \in 1..Len(one) : a[i] = one[i]
    <3>1. one \in Seq(S)
      BY <1>1
    <3> QED BY <3>1, AppendProperties
  <2> HIDE DEF a
  <2>2. a[1] = x /\ a[2] = y /\ Len(a) = 2
    <3>1. 1 + 1 = 2 /\ 1 \in 1..1
      OBVIOUS
    <3> QED BY <1>1, <2>1, <3>1
  <2>3. \A i \in 1..2 : i = 1 \/ i = 2
    OBVIOUS
  <2>4. \A i \in 1..Len(a) : a[i] = two[i]
    BY <1>1, <2>2, <2>3
  <2>5. a = two
    BY <1>1, <2>1, <2>2, <2>4, SeqEqual
  <2> QED BY <2>5 DEF a
<1>3. Append(two, z) = three
  <2> DEFINE a == Append(two, z)
  <2>1. /\ a \in Seq(S) /\ Len(a) = Len(two) + 1 /\ a[Len(two) + 1] = z
        /\ \A i \in 1..Len(two) : a[i] = two[i]
    <3>1. two \in Seq(S)
      BY <1>1
    <3> QED BY <3>1, AppendProperties
  <2> HIDE DEF a
  <2>2. a[1] = x /\ a[2] = y /\ a[3] = z /\ Len(a) = 3
    <3>1. 2 + 1 = 3 /\ 1 \in 1..2 /\ 2 \in 1..2
      OBVIOUS
    <3> QED BY <1>1, <2>1, <3>1
  <2>3. \A i \in 1..3 : i = 1 \/ i = 2 \/ i = 3
    OBVIOUS
  <2>4. \A i \in 1..Len(a) : a[i] = three[i]
    BY <1>1, <2>2, <2>3
  <2>5. a = three
    BY <1>1, <2>1, <2>2, <2>4, SeqEqual
  <2> QED BY <2>5 DEF a
<1> QED BY <1>2, <1>3 DEF one, two, three

(* What the shell's marker m says.                                         *)
MarkIn(m) ==
  [kind |-> m[5], code |-> IF Len(m) = 6 THEN NoExitCode ELSE IF m[7] = "0" THEN 0 ELSE 1]

(* A marker is found, however the parser stands, if not after an ESC.      *)
LEMMA MarkerFound ==
  ASSUME NEW m \in ShellMarkers, NEW Q,
         \A j \in 0..Len(m) : Q[j] \in OscParsers,
         \A j \in 1..Len(m) : Q[j] = OscFeed(Q[j - 1], m[j]),
         Q[0].state # "Escape"
  PROVE  /\ \A j \in 2..(Len(m) - 1) : MarkAt(Q[j - 1], m[j]) = NoMark
         /\ MarkAt(Q[Len(m) - 1], m[Len(m)]) = MarkIn(m)
         /\ Q[Len(m)].state = "Ground"
<1>1. /\ m \in Seq(Byte) /\ (Len(m) = 6 \/ Len(m) = 8)
      /\ m[1] = ESC /\ m[2] = "]" /\ m[3] = "133" /\ m[4] = ";" /\ m[5] \in MarkKind
      /\ Len(m) = 6 => m[6] = BEL /\ m[5] # "D"
      /\ Len(m) = 8 => m[5] = "D" /\ m[6] = ";" /\ m[7] \in {"0", "1"} /\ m[8] = BEL
  BY ShellMarkersAre
<1>2. \A j \in 1..6 : j \in 1..Len(m) /\ j \in 0..Len(m) /\ j - 1 \in 0..Len(m)
  <2>1. CASE Len(m) = 6
    BY <2>1
  <2>2. CASE Len(m) = 8
    BY <2>2
  <2> QED BY <1>1, <2>1, <2>2
<1>3. /\ m[1] \in Byte /\ m[2] \in Byte /\ m[3] \in Byte /\ m[4] \in Byte /\ m[5] \in Byte /\ m[6] \in Byte
  BY <1>2, InMarkers
<1>4. /\ Q[0] \in OscParsers /\ Q[1] \in OscParsers /\ Q[2] \in OscParsers /\ Q[3] \in OscParsers
      /\ Q[4] \in OscParsers /\ Q[5] \in OscParsers /\ Q[6] \in OscParsers
      /\ Q[1] = OscFeed(Q[0], m[1]) /\ Q[2] = OscFeed(Q[1], m[2]) /\ Q[3] = OscFeed(Q[2], m[3])
      /\ Q[4] = OscFeed(Q[3], m[4]) /\ Q[5] = OscFeed(Q[4], m[5]) /\ Q[6] = OscFeed(Q[5], m[6])
  <2>1. 1 - 1 = 0 /\ 2 - 1 = 1 /\ 3 - 1 = 2 /\ 4 - 1 = 3 /\ 5 - 1 = 4 /\ 6 - 1 = 5
    OBVIOUS
  <2>2. \A j \in 1..6 : Q[j] \in OscParsers /\ Q[j - 1] \in OscParsers /\ Q[j] = OscFeed(Q[j - 1], m[j])
    BY <1>2
  <2> QED BY <2>1, <2>2
<1>5. Q[1].state = "Escape"
  BY <1>1, <1>4, FedEscape
<1>6. Q[2].state = "OscStart" /\ Q[2].param_buf = <<>>
  BY <1>1, <1>4, <1>5, FedBracket
<1> DEFINE b3 == <<"133">>
           b5 == <<m[5]>>
           none == <<>>
<1>7. /\ "133" \notin {BEL, ESC} /\ ";" \notin {BEL, ESC} /\ BEL # ESC /\ m[5] \notin {BEL, ESC}
      /\ "]" \notin {BEL, ESC} /\ "133" # ";" /\ m[5] # "133"
  BY <1>1 DEF BEL, ESC, MarkKind
<1>8. Q[3].state = "OscStart" /\ Q[3].param_buf = b3
  BY <1>1, <1>4, <1>6, Fed133
<1>9. Q[4].state = "OscParam" /\ Q[4].param_buf = none
  BY <1>1, <1>4, <1>8, FedSemicolon, ZenonT(60)
<1>10. Q[5].state = "OscParam" /\ Q[5].param_buf = b5
  <2>1. Append(none, m[5]) = b5
    OBVIOUS
  <2>2. ~ (Bytes(none) + 1 > MaxParam)
    BY OscAssumption DEF Bytes
  <2> HIDE DEF b5, none
  <2>3. Q[5].state = "OscParam" /\ Q[5].param_buf = Append(Q[4].param_buf, m[5])
    <3>1. ~ (Bytes(Q[4].param_buf) + 1 > MaxParam)
      BY <1>9, <2>2
    <3>2. Q[4] \in OscParsers /\ Q[5] = OscFeed(Q[4], m[5]) /\ m[5] \in Byte /\ m[5] \notin {BEL, ESC}
      BY <1>3, <1>4, <1>7
    <3> QED BY <1>9, <3>1, <3>2, FedParam
  <2> QED BY <1>9, <2>1, <2>3
<1>11. \A j \in 2..(Len(m) - 1) : MarkAt(Q[j - 1], m[j]) = NoMark
  <2> SUFFICES ASSUME NEW j \in 2..(Len(m) - 1) PROVE MarkAt(Q[j - 1], m[j]) = NoMark
    OBVIOUS
  <2>1. j \in 1..Len(m) /\ j # 1 /\ j # Len(m)
    <3>1. CASE Len(m) = 6
      BY <3>1
    <3>2. CASE Len(m) = 8
      BY <3>2
    <3> QED BY <1>1, <3>1, <3>2
  <2>2. m[j] \notin {BEL, ESC}
    BY <2>1, InMarkers
  <2> QED BY <2>2 DEF MarkAt
<1>12. CASE Len(m) = 6
  <2>1. m[6] = BEL /\ m[5] # "D"
    BY <1>1, <1>12
  <2>6. Len(m) - 1 = 5
    BY <1>12
  <2>2. MarkOf(b5) = [kind |-> m[5], code |-> NoExitCode]
    <3>1. b5 # <<>> /\ b5[1] = m[5]
      OBVIOUS
    <3> HIDE DEF b5
    <3> QED BY <1>1, <2>1, <3>1 DEF MarkOf, MarkKind
  <2>3. MarkAt(Q[5], m[6]) = MarkOf(b5)
    BY <1>10, <2>1 DEF MarkAt
  <2>4. MarkIn(m) = [kind |-> m[5], code |-> NoExitCode]
    BY <1>12 DEF MarkIn
  <2>5. Q[6].state = "Ground"
    BY <1>4, <1>10, <2>1, FedBell
  <2> QED BY <1>11, <1>12, <2>2, <2>3, <2>4, <2>5, <2>6
<1>13. CASE Len(m) = 8
  <2>1. m[5] = "D" /\ m[6] = ";" /\ m[7] \in {"0", "1"} /\ m[8] = BEL
    BY <1>1, <1>13
  <2>10. Len(m) - 1 = 7 /\ ~ (Len(m) = 6)
    BY <1>13
  <2>2. /\ m[7] \in Byte /\ m[8] \in Byte /\ Q[7] \in OscParsers /\ Q[8] \in OscParsers
        /\ Q[7] = OscFeed(Q[6], m[7]) /\ Q[8] = OscFeed(Q[7], m[8])
    <3>1. 7 \in 1..Len(m) /\ 8 \in 1..Len(m) /\ 7 \in 0..Len(m) /\ 8 \in 0..Len(m) /\ 7 - 1 = 6 /\ 8 - 1 = 7
      BY <1>13
    <3>2. Q[7] = OscFeed(Q[7 - 1], m[7]) /\ Q[8] = OscFeed(Q[8 - 1], m[8])
      BY <3>1
    <3> QED BY <3>1, <3>2, InMarkers
  <2>3. m[7] \notin {BEL, ESC}
    BY <2>1 DEF BEL, ESC
  <2> DEFINE b6 == <<"D", ";">>
             b7 == <<"D", ";", m[7]>>
  <2>4. Q[6].state = "OscParam" /\ Q[6].param_buf = b6
    <3>1. Append(b5, ";") = b6 /\ Bytes(b5) = 1
      <4>1. Len(b5) = 1 /\ b5[1] = "D" /\ Append(b5, ";") = b6
        <5>1. "D" \in Byte /\ ";" \in Byte
          BY BytesAre DEF ShellByte
        <5>2. Append(<<"D">>, ";") = <<"D", ";">>
          BY <5>1, AppendTuple
        <5>3. b5 = <<"D">>
          BY <2>1
        <5> QED BY <2>1, <5>2, <5>3
      <4> HIDE DEF b5, b6
      <4>2. Bytes(b5) = 1
        <5>1. ~ (b5 # <<>> /\ b5[1] = "133")
          BY <4>1
        <5>2. Bytes(b5) = 1 + 0
          BY <4>1, <5>1 DEF Bytes
        <5> QED BY <5>2
      <4> QED BY <4>1, <4>2
    <3>2. ~ (1 + 1 > MaxParam)
      BY OscAssumption
    <3> HIDE DEF b5, b6
    <3>3. Q[6].state = "OscParam" /\ Q[6].param_buf = Append(Q[5].param_buf, ";")
      <4>1. ~ (Bytes(Q[5].param_buf) + 1 > MaxParam)
        BY <1>10, <3>1, <3>2
      <4>2. Q[5] \in OscParsers /\ Q[6] = OscFeed(Q[5], ";") /\ ";" \in Byte /\ ";" \notin {BEL, ESC}
        BY <1>3, <1>4, <1>7, <2>1
      <4> QED BY <1>10, <4>1, <4>2, FedParam
    <3> QED BY <1>10, <3>1, <3>3
  <2>5. Q[7].state = "OscParam" /\ Q[7].param_buf = b7
    <3>1. Append(b6, m[7]) = b7 /\ Bytes(b6) = 2
      <4>1. Len(b6) = 2 /\ b6[1] = "D" /\ Append(b6, m[7]) = b7
        <5>1. "D" \in Byte /\ ";" \in Byte
          BY BytesAre DEF ShellByte
        <5>2. m[7] \in Byte
          BY <2>2
        <5>3. Append(b6, m[7]) = b7
          BY <5>1, <5>2, AppendTuple
        <5>4. Len(b6) = 2 /\ b6[1] = "D"
          OBVIOUS
        <5> QED BY <5>3, <5>4
      <4> HIDE DEF b6, b7
      <4>2. Bytes(b6) = 2
        BY <4>1 DEF Bytes
      <4> QED BY <4>1, <4>2
    <3>2. ~ (2 + 1 > MaxParam)
      BY OscAssumption
    <3> HIDE DEF b6, b7
    <3>3. Q[7].state = "OscParam" /\ Q[7].param_buf = Append(Q[6].param_buf, m[7])
      BY <1>4, <2>2, <2>3, <2>4, <3>1, <3>2, FedParam, ZenonT(60)
    <3> QED BY <2>4, <3>1, <3>3
  <2>6. MarkOf(b7) = [kind |-> "D", code |-> IF m[7] = "0" THEN 0 ELSE 1]
    <3>1. b7 # <<>> /\ b7[1] = "D" /\ Len(b7) = 3 /\ b7[2] = ";" /\ b7[3] = m[7]
      OBVIOUS
    <3> HIDE DEF b7
    <3> QED BY <3>1 DEF MarkOf
  <2>7. MarkAt(Q[7], m[8]) = MarkOf(b7)
    BY <2>1, <2>5 DEF MarkAt
  <2>8. MarkIn(m) = [kind |-> "D", code |-> IF m[7] = "0" THEN 0 ELSE 1]
    BY <2>1, <2>10 DEF MarkIn
  <2>9. Q[8].state = "Ground"
    BY <2>1, <2>2, <2>5, FedBell
  <2> QED BY <1>11, <1>13, <2>6, <2>7, <2>8, <2>9, <2>10
<1> QED BY <1>1, <1>12, <1>13

(* The state the terminal is in after the marker m.                        *)
StateOf(m) == TerminalStateAfter("Idle", [kind |-> m[5], code |-> 0])

LEMMA MarkStateOf ==
  ASSUME NEW m \in ShellMarkers, NEW state
  PROVE  MarkIn(m) # NoMark /\ TerminalStateAfter(state, MarkIn(m)) = StateOf(m)
<1>1. m[5] \in MarkKind
  BY ShellMarkersAre
<1>2. MarkIn(m).kind = m[5]
  BY DEF MarkIn
<1>3. MarkIn(m) # NoMark
  BY <1>1, <1>2 DEF NoMark, MarkKind
<1> DEFINE said == MarkIn(m)
           kind == m[5]
<1>4. TerminalStateAfter(state, said) = TerminalStateAfter("Idle", [kind |-> kind, code |-> 0])
  <2>1. said.kind = kind /\ kind \in MarkKind
    BY <1>1, <1>2
  <2> HIDE DEF said, kind
  <2>2. CASE kind = "A"
    BY <2>1, <2>2 DEF TerminalStateAfter
  <2>3. CASE kind = "B"
    BY <2>1, <2>3 DEF TerminalStateAfter
  <2>4. CASE kind = "C"
    BY <2>1, <2>4 DEF TerminalStateAfter
  <2>5. CASE kind = "D"
    BY <2>1, <2>5 DEF TerminalStateAfter
  <2> QED BY <2>1, <2>2, <2>3, <2>4, <2>5 DEF MarkKind
<1> QED BY <1>3, <1>4 DEF StateOf

(* Where a marker begins and ends.                                         *)
EndOf(b, m) == b + Len(m) - 1

LEMMA MarkerSpan ==
  ASSUME NEW bytes \in Seq(Byte), NEW b \in 1..Len(bytes), NEW m \in ShellMarkers, MarkerAt(bytes, b, m)
  PROVE  /\ EndOf(b, m) \in 1..Len(bytes) /\ b < EndOf(b, m) /\ (Len(m) = 6 \/ Len(m) = 8)
         /\ bytes[b] = ESC /\ \A i \in (b + 1)..EndOf(b, m) : bytes[i] # ESC
<1> DEFINE size == Len(m)
<1>1. (size = 6 \/ size = 8) /\ Len(bytes) \in Nat
  BY ShellMarkersAre, LenProperties
<1>2. b + size - 1 <= Len(bytes) /\ \A j \in 1..size : bytes[b + j - 1] = m[j]
  BY DEF MarkerAt
<1>3. bytes[b] = ESC
  <2>1. 1 \in 1..size /\ b + 1 - 1 = b
    <3> HIDE DEF size
    <3> QED BY <1>1
  <2> QED BY <1>2, <2>1, ShellMarkersAre
<1>4. ASSUME NEW i \in (b + 1)..(b + size - 1)
      PROVE  bytes[i] # ESC
  <2> DEFINE j == i - b + 1
  <2>1. j \in 1..size /\ j # 1 /\ b + j - 1 = i
    <3> HIDE DEF size
    <3> QED BY <1>1, <1>4
  <2>2. bytes[b + j - 1] = m[j] /\ m[j] # ESC
    BY <1>2, <2>1, InMarkers
  <2> HIDE DEF j
  <2> QED BY <2>1, <2>2
<1>5. b + size - 1 \in 1..Len(bytes) /\ b < b + size - 1
  <2> HIDE DEF size
  <2> QED BY <1>1, <1>2
<1> QED BY <1>1, <1>3, <1>4, <1>5 DEF EndOf

(* A marker's mark is found at its end.                                    *)
LEMMA MarkerIsMarked ==
  ASSUME NEW bytes \in Seq(Byte), Whole(bytes), NEW b \in 1..Len(bytes), NEW m \in ShellMarkers,
         MarkerAt(bytes, b, m)
  PROVE  MarkAt(Parsers(bytes, EndOf(b, m) - 1), bytes[EndOf(b, m)]) = MarkIn(m)
<1> DEFINE size == Len(m)
           N    == Len(bytes)
           before == b - 1
           Q    == [j \in 0..size |-> Parsers(bytes, before + j)]
<1>1. (size = 6 \/ size = 8) /\ N \in Nat /\ b \in Int /\ b >= 1 /\ b <= N
  <2>1. size = 6 \/ size = 8
    BY ShellMarkersAre
  <2>2. N \in Nat /\ b \in 1..N
    BY LenProperties
  <2> HIDE DEF size, N
  <2> QED BY <2>1, <2>2
<1>2. b + size - 1 <= N /\ \A j \in 1..size : bytes[b + j - 1] = m[j]
  BY DEF MarkerAt
<1>3. \A j \in 0..size : Q[j] = Parsers(bytes, before + j)
  OBVIOUS
<1> HIDE DEF Q, size
<1>4. /\ before \in 0..N /\ before + 0 = before
      /\ \A j \in 0..size : before + j \in 0..N
      /\ \A j \in 1..size : /\ before + j \in 1..N /\ before + j - 1 = before + (j - 1) /\ b + j - 1 = before + j
                            /\ j \in 0..size /\ j - 1 \in 0..size
      /\ 0 \in 0..size /\ size \in 1..size /\ 3 \in 1..size
      /\ before + (size - 1) = b + size - 1 - 1 /\ before + size = b + size - 1
      /\ before >= 1 => before + 3 > 3 /\ before + 3 - 3 = before /\ before \in 1..N
      /\ before + 3 >= 3 /\ b + 3 - 1 = before + 3
  BY <1>1, <1>2
<1>5. \A j \in 0..size : Q[j] \in OscParsers
  BY <1>3, <1>4, ParsersAre
<1>6. ASSUME NEW j \in 1..size
      PROVE  Q[j] = OscFeed(Q[j - 1], m[j])
  <2>1. Parsers(bytes, before + j) = OscFeed(Parsers(bytes, before + j - 1), bytes[before + j])
    BY <1>4, ParsersAre
  <2>2. bytes[before + j] = m[j]
    BY <1>2, <1>4
  <2>3. Q[j] = Parsers(bytes, before + j) /\ Q[j - 1] = Parsers(bytes, before + j - 1)
    BY <1>3, <1>4
  <2> QED BY <2>1, <2>2, <2>3
<1>7. Q[0].state # "Escape"
  <2>1. Q[0] = Parsers(bytes, before)
    BY <1>3, <1>4
  <2>2. ASSUME Q[0].state = "Escape" PROVE FALSE
    <3>1. before >= 1 /\ bytes[before] = ESC
      BY <1>4, <2>1, <2>2, AllTracked DEF Tracks
    <3>2. before + 3 \in 1..N /\ bytes[before + 3] = "133"
      <4>1. m[3] = "133"
        BY ShellMarkersAre
      <4> QED BY <1>2, <1>4, <4>1
    <3>3. bytes[before + 3 - 3] # ESC
      BY <1>4, <3>1, <3>2 DEF Whole
    <3> QED BY <1>4, <3>1, <3>3
  <2> QED BY <2>2
<1>8. MarkAt(Q[size - 1], m[size]) = MarkIn(m)
  BY <1>5, <1>6, <1>7, MarkerFound DEF size
<1>9. Q[size - 1] = Parsers(bytes, b + size - 1 - 1) /\ m[size] = bytes[b + size - 1]
  BY <1>2, <1>3, <1>4
<1> QED BY <1>8, <1>9 DEF EndOf, size

LEMMA MarkedByMarkers ==
  ASSUME NEW bytes \in Seq(Byte), Whole(bytes), NEW n \in 1..Len(bytes)
  PROVE  \/ /\ MarkAt(Parsers(bytes, n - 1), bytes[n]) = NoMark
            /\ \A b \in 1..Len(bytes), m \in ShellMarkers : MarkerAt(bytes, b, m) => EndOf(b, m) # n
         \/ \E b \in 1..Len(bytes), m \in ShellMarkers :
              /\ MarkerAt(bytes, b, m) /\ EndOf(b, m) = n
              /\ MarkAt(Parsers(bytes, n - 1), bytes[n]) = MarkIn(m)
<1> DEFINE r == Parsers(bytes, n - 1)
           i == n - 1
<1>1. i \in 0..(Len(bytes) - 1) /\ i \in 0..Len(bytes) /\ i + 1 = n /\ \A b \in 1..i : b \in 1..Len(bytes)
  BY LenProperties
<1>2. r \in OscParsers /\ Tracks(bytes, i, r)
  BY <1>1, ParsersAre, AllTracked
<1>3. ASSUME NEW b \in 1..Len(bytes), NEW m \in ShellMarkers, MarkerAt(bytes, b, m), EndOf(b, m) = n
      PROVE  MarkAt(r, bytes[n]) = MarkIn(m)
  BY <1>3, MarkerIsMarked
<1>4. CASE MarkAt(r, bytes[n]) = NoMark
  BY <1>3, <1>4, MarkStateOf
<1>5. CASE MarkAt(r, bytes[n]) # NoMark
  <2> HIDE DEF r, i
  <2>1. PICK b \in 1..i, m \in ShellMarkers : MarkerAt(bytes, b, m) /\ b + Len(m) - 1 = i + 1
    BY <1>1, <1>2, <1>5, MarkIsMarker
  <2>2. b \in 1..Len(bytes) /\ EndOf(b, m) = n
    BY <1>1, <2>1 DEF EndOf
  <2>3. MarkAt(r, bytes[n]) = MarkIn(m)
    BY <1>3, <2>1, <2>2
  <2> QED BY <2>1, <2>2, <2>3 DEF r
<1> QED BY <1>4, <1>5

(* The state is that of the last marker that ends with the first n bytes.  *)
LastMarked(bytes, n, state) ==
  \/ /\ state = "Idle"
     /\ \A b \in 1..Len(bytes), m \in ShellMarkers : MarkerAt(bytes, b, m) => n < EndOf(b, m)
  \/ \E b \in 1..Len(bytes), m \in ShellMarkers :
       /\ MarkerAt(bytes, b, m) /\ EndOf(b, m) <= n /\ state = StateOf(m)
       /\ \A c \in 1..Len(bytes), other \in ShellMarkers :
            MarkerAt(bytes, c, other) /\ EndOf(c, other) <= n => c <= b

LEMMA AllLastMarked ==
  ASSUME NEW bytes \in Seq(Byte), Whole(bytes)
  PROVE  \A n \in 0..Len(bytes) : LastMarked(bytes, n, Parsers(bytes, n).terminal_state)
<1> DEFINE N == Len(bytes)
           state(n) == Parsers(bytes, n).terminal_state
           T == {n \in 0..N : LastMarked(bytes, n, state(n))}
<1>1. N \in Nat
  BY LenProperties
<1>2. \A b \in 1..N, m \in ShellMarkers : MarkerAt(bytes, b, m) => EndOf(b, m) \in 1..N
  BY MarkerSpan
<1>3. 0 \in T
  <2>1. state(0) = "Idle"
    BY ParsersAre DEF NewOscParser
  <2>2. \A b \in 1..N, m \in ShellMarkers : MarkerAt(bytes, b, m) => 0 < EndOf(b, m)
    <3> HIDE DEF N
    <3> QED BY <1>1, <1>2
  <2> QED BY <1>1, <2>1, <2>2 DEF LastMarked
<1>4. ASSUME NEW n \in 1..N, n - 1 \in T
      PROVE  n \in T
  <2>1. n - 1 \in 0..N /\ n \in 0..N /\ n \in Int
    BY <1>1
  <2>2. Parsers(bytes, n - 1) \in OscParsers /\ bytes[n] \in Byte
    BY <2>1, ParsersAre, ElementOfSeq
  <2>3. state(n) = TerminalStateAfter(state(n - 1), MarkAt(Parsers(bytes, n - 1), bytes[n]))
    <3>1. Parsers(bytes, n) = OscFeed(Parsers(bytes, n - 1), bytes[n])
      BY ParsersAre
    <3> DEFINE p == Parsers(bytes, n - 1)
               byte == bytes[n]
    <3>2. p \in OscParsers /\ byte \in Byte
      BY <2>2
    <3> HIDE DEF p, byte
    <3>3. OscFeed(p, byte).terminal_state = TerminalStateAfter(p.terminal_state, MarkAt(p, byte))
      BY <3>2, OscFeedFields
    <3> QED BY <3>1, <3>3 DEF p, byte
  <2>4. LastMarked(bytes, n - 1, state(n - 1))
    BY <1>4
  <2> HIDE DEF state
  <2>5. CASE /\ MarkAt(Parsers(bytes, n - 1), bytes[n]) = NoMark
             /\ \A b \in 1..Len(bytes), m \in ShellMarkers : MarkerAt(bytes, b, m) => EndOf(b, m) # n
    <3>1. state(n) = state(n - 1)
      BY <2>3, <2>5 DEF TerminalStateAfter, NoMark
    <3>2. \A b \in 1..N, m \in ShellMarkers :
            MarkerAt(bytes, b, m) => (EndOf(b, m) <= n <=> EndOf(b, m) <= n - 1) /\ EndOf(b, m) \in Int
      <4> SUFFICES ASSUME NEW b \in 1..N, NEW m \in ShellMarkers, MarkerAt(bytes, b, m)
                   PROVE  (EndOf(b, m) <= n <=> EndOf(b, m) <= n - 1) /\ EndOf(b, m) \in Int
        OBVIOUS
      <4>1. EndOf(b, m) \in Int /\ EndOf(b, m) # n
        BY <1>2, <2>5
      <4> HIDE DEF N
      <4> QED BY <2>1, <4>1
    <3>3. \A b \in 1..N, m \in ShellMarkers : MarkerAt(bytes, b, m) => (n - 1 < EndOf(b, m) <=> n < EndOf(b, m))
      <4> SUFFICES ASSUME NEW b \in 1..N, NEW m \in ShellMarkers, MarkerAt(bytes, b, m)
                   PROVE  n - 1 < EndOf(b, m) <=> n < EndOf(b, m)
        OBVIOUS
      <4>1. EndOf(b, m) \in Int /\ EndOf(b, m) # n
        BY <1>2, <2>5
      <4> HIDE DEF N
      <4> QED BY <2>1, <4>1
    <3>4. LastMarked(bytes, n, state(n))
      BY <2>4, <3>1, <3>2, <3>3 DEF LastMarked
    <3> QED BY <2>1, <3>4 DEF state
  <2>6. ASSUME NEW b \in 1..Len(bytes), NEW m \in ShellMarkers, MarkerAt(bytes, b, m), EndOf(b, m) = n,
               MarkAt(Parsers(bytes, n - 1), bytes[n]) = MarkIn(m)
        PROVE  n \in T
    <3>1. state(n) = StateOf(m)
      BY <2>3, <2>6, MarkStateOf
    <3>2. ASSUME NEW c \in 1..Len(bytes), NEW other \in ShellMarkers, MarkerAt(bytes, c, other), EndOf(c, other) <= n
          PROVE  c <= b
      <4>1. bytes[c] = ESC /\ c < EndOf(c, other) /\ EndOf(c, other) \in 1..Len(bytes)
        BY <3>2, MarkerSpan
      <4>2. \A i \in (b + 1)..n : bytes[i] # ESC
        BY <2>6, MarkerSpan
      <4>3. ~ (c > b)
        <5> SUFFICES ASSUME c > b PROVE FALSE
          OBVIOUS
        <5>1. c \in (b + 1)..n
          <6> HIDE DEF N
          <6> QED BY <1>1, <2>1, <3>2, <4>1
        <5> QED BY <4>1, <4>2, <5>1
      <4> QED BY <4>3
    <3>3. EndOf(b, m) <= n
      BY <2>1, <2>6
    <3>4. LastMarked(bytes, n, state(n))
      BY <2>6, <3>1, <3>2, <3>3 DEF LastMarked
    <3> QED BY <2>1, <3>4 DEF state
  <2> QED BY <2>5, <2>6, MarkedByMarkers
<1>5. \A n \in 0..N : n \in T
  <2> HIDE DEF T
  <2> QED BY <1>1, <1>3, <1>4, InductionUpTo
<1> QED BY <1>5

(* What is on its way and what has been read grow by what is printed.      *)
ShellPrints ==
  {<<key>> : key \in TtyKey} \cup {MarkerD(code) : code \in {0, 1}}
    \cup {<<"\n">>, <<"\n">> \o Marker("C"), Marker("A") \o <<"$">> \o Marker("B")}

LEMMA PrintsAre ==
  /\ ShellPrints \cup Outputs \subseteq Seq(Byte)
  /\ OutputsWhole => \A bytes \in ShellPrints \cup Outputs : Whole(bytes)
<1>1. ASSUME NEW key \in TtyKey
      PROVE  <<key>> \in Seq(Byte)
  BY TtyKeysAre
<1>2. ShellPrints \cup Outputs \subseteq Seq(Byte)
  BY <1>1, ShellPrintsBytes, BytesAre DEF ShellPrints
<1> QED BY <1>2, ShellPrintsWhole DEF ShellPrints, OutputsWhole

LEMMA SplitSeq ==
  ASSUME NEW s \in Seq(Byte), NEW n \in 1..Len(s)
  PROVE  s = SubSeq(s, 1, n) \o SubSeq(s, n + 1, Len(s))
<1> DEFINE N == Len(s)
           from == n + 1
           a == SubSeq(s, 1, n)
           b == SubSeq(s, from, N)
<1>1. a \in Seq(Byte) /\ b \in Seq(Byte)
  <2>1. N \in Nat /\ n \in Int /\ from \in Int /\ 1 <= n /\ n <= N
    BY LenProperties
  <2>2. (\A i \in 1..n : i \in 1..N) /\ \A i \in from..N : i \in 1..N
    BY <2>1
  <2>3. (\A i \in 1..n : s[i] \in Byte) /\ \A i \in from..N : s[i] \in Byte
    BY <2>2, ElementOfSeq
  <2> HIDE DEF N, from
  <2> QED BY <2>1, <2>3, SubSeqProperties DEF N, from
<1>2. /\ N \in Nat /\ n \in Int /\ n >= 1 /\ n <= N /\ from \in Int /\ from = n + 1
  BY LenProperties
<1>3. /\ \A i \in 1..n : s[i] \in Byte
      /\ \A i \in from..N : s[i] \in Byte
  <2>1. (\A i \in 1..n : i \in 1..N) /\ \A i \in from..N : i \in 1..N
    BY <1>2
  <2> QED BY <2>1, ElementOfSeq
<1> HIDE DEF N, from
<1>4. /\ Len(a) = IF 1 <= n THEN n - 1 + 1 ELSE 0
      /\ \A i \in 1..(n - 1 + 1) : a[i] = s[1 + i - 1]
      /\ Len(b) = IF from <= N THEN N - from + 1 ELSE 0
      /\ \A i \in 1..(N - from + 1) : b[i] = s[from + i - 1]
  BY <1>2, <1>3, SubSeqProperties
<1>5. Len(a) = n /\ Len(b) = N - n
  BY <1>2, <1>4
<1>6. /\ a \o b \in Seq(Byte) /\ Len(a \o b) = Len(a) + Len(b)
      /\ \A i \in 1..(Len(a) + Len(b)) : (a \o b)[i] = IF i <= Len(a) THEN a[i] ELSE b[i - Len(a)]
  BY <1>1, ConcatProperties
<1> DEFINE both == a \o b
<1> HIDE DEF a, b
<1>7. Len(both) = N /\ \A i \in 1..N : both[i] = IF i <= n THEN a[i] ELSE b[i - n]
  <2>1. n + (N - n) = N
    BY <1>2
  <2> QED BY <1>5, <1>6, <2>1
<1>8. ASSUME NEW i \in 1..N
      PROVE  both[i] = s[i]
  <2>1. CASE i <= n
    <3>1. i \in 1..(n - 1 + 1) /\ 1 + i - 1 = i
      BY <1>2, <2>1
    <3> QED BY <1>4, <1>7, <2>1, <3>1
  <2>2. CASE ~ (i <= n)
    <3>1. i - n \in 1..(N - from + 1) /\ from + (i - n) - 1 = i
      BY <1>2, <2>2
    <3>2. b[i - n] = s[from + (i - n) - 1]
      BY <1>4, <3>1
    <3> QED BY <1>7, <2>2, <3>1, <3>2
  <2> QED BY <2>1, <2>2
<1>9. s = both
  <2>1. Len(both) = Len(s) /\ \A i \in 1..Len(s) : both[i] = s[i]
    BY <1>7, <1>8 DEF N
  <2> HIDE DEF both
  <2>2. both \in Seq(Byte)
    BY <1>6 DEF both
  <2> QED BY <2>1, <2>2, SeqEqual
<1> QED BY <1>9 DEF a, b, from, N

LEMMA OutputGrows ==
  ASSUME TypeInv, [Next]_vars
  PROVE  \/ seen' \o wire' = seen \o wire
         \/ \E bytes \in ShellPrints \cup Outputs : seen' \o wire' = (seen \o wire) \o bytes
<1>1. wire \in Seq(Byte) /\ seen \in Seq(Byte)
  BY DEF TypeInv
<1>2. ASSUME NEW n \in 1..Len(wire), Read(n)
      PROVE  seen' \o wire' = seen \o wire
  <2> DEFINE a == SubSeq(wire, 1, n)
             b == SubSeq(wire, n + 1, Len(wire))
  <2>1. a \in Seq(Byte) /\ b \in Seq(Byte) /\ wire = a \o b
    BY <1>1, ReadTyped, SplitSeq
  <2>2. seen' = seen \o a /\ wire' = b
    BY <1>2 DEF Read, OnPtyOutput
  <2> HIDE DEF a, b
  <2>3. (seen \o a) \o b = seen \o (a \o b)
    BY <1>1, <2>1, ConcatAssociative
  <2> QED BY <2>1, <2>2, <2>3
<1>3. ASSUME NEW bytes \in ShellPrints \cup Outputs, Emit(bytes), UNCHANGED seen
      PROVE  seen' \o wire' = (seen \o wire) \o bytes
  <2>1. bytes \in Seq(Byte) /\ wire' = wire \o bytes
    BY <1>3, PrintsAre DEF Emit
  <2>2. (seen \o wire) \o bytes = seen \o (wire \o bytes)
    BY <1>1, <2>1, ConcatAssociative
  <2> QED BY <1>3, <2>1, <2>2
<1>4. CASE ReadKey
  <2> DEFINE key == Head(tty)
  <2>1. key \in TtyKey
    BY <1>4, HeadTailProperties DEF ReadKey, TypeInv
  <2>2. UNCHANGED wire \/ Emit(<<key>>) \/ Emit(<<"\n">>) \/ Emit(<<"\n">> \o Marker("C"))
    BY <1>4, Zenon DEF ReadKey
  <2>3. UNCHANGED seen
    BY <1>4 DEF ReadKey, replVars
  <2> HIDE DEF key
  <2>4. /\ <<key>> \in ShellPrints \cup Outputs /\ <<"\n">> \in ShellPrints \cup Outputs
        /\ <<"\n">> \o Marker("C") \in ShellPrints \cup Outputs
    BY <2>1 DEF ShellPrints
  <2> QED BY <1>3, <2>2, <2>3, <2>4
<1>5. CASE Prints
  <2>1. PICK bytes \in Outputs : Emit(bytes)
    BY <1>5 DEF Prints
  <2>2. UNCHANGED seen
    BY <1>5 DEF Prints, replVars
  <2> QED BY <1>3, <2>1, <2>2
<1>6. CASE ShowPrompt
  <2>1. Marker("A") \o <<"$">> \o Marker("B") \in ShellPrints \cup Outputs
    BY DEF ShellPrints
  <2>2. UNCHANGED seen /\ Emit(Marker("A") \o <<"$">> \o Marker("B"))
    BY <1>6 DEF ShowPrompt, replVars
  <2> QED BY <1>3, <2>1, <2>2
<1>7. ASSUME NEW code \in {0, 1}, FinishLine(code)
      PROVE  seen' \o wire' = (seen \o wire) \o MarkerD(code) /\ MarkerD(code) \in ShellPrints \cup Outputs
  <2>1. MarkerD(code) \in ShellPrints \cup Outputs
    BY DEF ShellPrints
  <2>2. UNCHANGED seen /\ Emit(MarkerD(code))
    BY <1>7 DEF FinishLine, replVars
  <2> QED BY <1>3, <2>1, <2>2
<1>8. ASSUME \/ \E chunk \in Typed : Type(chunk)
             \/ AgentWrites \/ TurnEnds \/ UNCHANGED vars
      PROVE  seen' \o wire' = seen \o wire
  <2>1. UNCHANGED <<seen, wire>>
    BY <1>8 DEF Type, OnStdin, AgentWrites, TurnEnds, shellVars, vars
  <2> QED BY <2>1
<1> QED BY <1>2, <1>4, <1>5, <1>6, <1>7, <1>8 DEF Next

(* However the output has been cut, the parser and the history are as if   *)
(* it had been fed whole.                                                  *)
FedInv ==
  /\ parser = OscFeedBytes(NewOscParser, seen).parser
  /\ history = HistoryFeedBytes(NewHistory(HistoryLines), seen)

LEMMA FedStays ==
  /\ Init => FedInv
  /\ TypeInv /\ FedInv /\ [Next]_vars => FedInv'
<1>1. /\ NewOscParser \in OscParsers /\ HistoryLines \in Nat
      /\ NewHistory(HistoryLines) \in Histories(HistoryLines)
  BY NewParserTyped, NewHistoryTyped, TerminalAssumption
<1>2. ASSUME Init PROVE FedInv
  <2>1. parser = NewOscParser /\ history = NewHistory(HistoryLines) /\ seen = <<>>
    BY <1>2 DEF Init
  <2> QED BY <1>1, <2>1, FeedNothing DEF FedInv
<1>3. ASSUME TypeInv, FedInv, NEW n \in 1..Len(wire), Read(n)
      PROVE  FedInv'
  <2> DEFINE chunk == SubSeq(wire, 1, n)
  <2>1. chunk \in Seq(Byte) /\ seen \in Seq(Byte)
    BY <1>3, ReadTyped DEF TypeInv
  <2>2. /\ history' = HistoryFeedBytes(history, chunk) /\ parser' = OscFeedBytes(parser, chunk).parser
        /\ seen' = seen \o chunk
    BY <1>3 DEF Read, OnPtyOutput
  <2> HIDE DEF chunk
  <2>3. /\ OscFeedBytes(NewOscParser, seen \o chunk).parser =
             OscFeedBytes(OscFeedBytes(NewOscParser, seen).parser, chunk).parser
        /\ HistoryFeedBytes(NewHistory(HistoryLines), seen \o chunk) =
             HistoryFeedBytes(HistoryFeedBytes(NewHistory(HistoryLines), seen), chunk)
    BY <1>1, <2>1, FeedBytesConcat, ZenonT(60)
  <2> QED BY <1>3, <2>2, <2>3 DEF FedInv
<1>4. ASSUME FedInv, UNCHANGED <<parser, history, seen>>
      PROVE  FedInv'
  BY <1>4 DEF FedInv
<1>5. ASSUME \/ \E chunk \in Typed : Type(chunk)
             \/ AgentWrites \/ TurnEnds \/ ReadKey \/ Prints \/ ShowPrompt
             \/ \E code \in {0, 1} : FinishLine(code)
             \/ UNCHANGED vars
      PROVE  UNCHANGED <<parser, history, seen>>
  BY <1>5 DEF Type, OnStdin, AgentWrites, TurnEnds, ReadKey, Prints, ShowPrompt, FinishLine, replVars, vars
<1> QED BY <1>2, <1>3, <1>4, <1>5 DEF Next

LEMMA MarkersInAre ==
  ASSUME NEW s \in Seq(Byte), NEW t \in Seq(Byte), NEW b \in 1..Len(s \o t), NEW m \in ShellMarkers
  PROVE  MarkerAt(s \o t, b, m) /\ EndOf(b, m) <= Len(s) <=> <<b, m>> \in MarkersIn(s)
<1> DEFINE both == s \o t
           size == Len(m)
           M    == Len(s)
           end  == b + size - 1
<1>1. /\ Len(both) = M + Len(t) /\ \A i \in 1..M : both[i] = s[i]
      /\ M \in Nat /\ Len(t) \in Nat /\ both \in Seq(Byte)
  <2>1. /\ Len(both) = Len(s) + Len(t) /\ both \in Seq(Byte)
        /\ \A i \in 1..(Len(s) + Len(t)) : both[i] = IF i <= Len(s) THEN s[i] ELSE t[i - Len(s)]
    BY ConcatProperties
  <2>2. M \in Nat /\ Len(t) \in Nat
    BY LenProperties
  <2>3. \A i \in 1..M : i \in 1..(M + Len(t)) /\ i <= M
    BY <2>2
  <2> HIDE DEF both
  <2> QED BY <2>1, <2>2, <2>3
<1>2. m \in Seq(Byte) /\ (size = 6 \/ size = 8)
  BY ShellMarkersAre
<1>3. b \in Int /\ b >= 1 /\ size \in Nat /\ end \in Int
  <2> HIDE DEF size
  <2>1. b \in Int /\ b >= 1
    BY <1>1
  <2> QED BY <1>2, <2>1
<1>4. <<b, m>> \in MarkersIn(s) <=>
        b \in 1..M /\ b + Len(m) - 1 <= M /\ SubSeq(s, b, b + Len(m) - 1) = m
  BY DEF MarkersIn, ShellMarkers
<1>5. ASSUME end <= M
      PROVE  /\ b \in 1..M
             /\ SubSeq(s, b, end) = m <=> \A j \in 1..size : both[b + j - 1] = m[j]
  <2> DEFINE part == SubSeq(s, b, end)
  <2> HIDE DEF size
  <2>1. b \in 1..M /\ end - b + 1 = size /\ b <= end /\ \A i \in b..end : i \in 1..M
    BY <1>1, <1>2, <1>3, <1>5
  <2>2. \A i \in b..end : s[i] \in Byte
    BY <2>1, ElementOfSeq
  <2> HIDE DEF end
  <2>3. /\ part \in Seq(Byte) /\ Len(part) = IF b <= end THEN end - b + 1 ELSE 0
        /\ \A j \in 1..(end - b + 1) : part[j] = s[b + j - 1]
    BY <1>3, <2>2, SubSeqProperties
  <2>4. Len(part) = size /\ \A j \in 1..size : part[j] = s[b + j - 1]
    BY <2>1, <2>3
  <2>5. \A j \in 1..size : both[b + j - 1] = s[b + j - 1]
    <3>1. \A j \in 1..size : b + j - 1 \in 1..M
      BY <1>1, <1>2, <1>3, <1>5 DEF end
    <3> QED BY <1>1, <3>1
  <2>6. part = m <=> \A j \in 1..size : part[j] = m[j]
    <3> HIDE DEF part
    <3>1. ASSUME \A j \in 1..size : part[j] = m[j] PROVE part = m
      BY <1>2, <2>3, <2>4, <3>1, SeqEqual DEF size
    <3> QED BY <3>1
  <2> QED BY <2>1, <2>4, <2>5, <2>6
<1>6. end <= M => end <= Len(both)
  <2> HIDE DEF end, both
  <2> QED BY <1>1, <1>3
<1> QED BY <1>4, <1>5, <1>6 DEF MarkerAt, EndOf

WholeInv == Whole(seen \o wire)

LEMMA WholeStays ==
  ASSUME OutputsWhole
  PROVE  /\ Init => WholeInv
         /\ TypeInv /\ WholeInv /\ [Next]_vars => WholeInv'
<1>1. ASSUME Init PROVE WholeInv
  <2>1. seen \o wire = <<>>
    BY <1>1, ConcatEmptySeq, EmptySeq DEF Init
  <2>2. "$" # ESC /\ "$" # "133"
    BY DEF ESC
  <2> QED BY <2>1, <2>2, WholeByte DEF WholeInv
<1>2. ASSUME TypeInv, WholeInv, [Next]_vars
      PROVE  WholeInv'
  <2> DEFINE both == seen \o wire
  <2>1. both \in Seq(Byte) /\ Whole(both)
    BY <1>2, ConcatProperties DEF TypeInv, WholeInv
  <2>2. \A bytes \in ShellPrints \cup Outputs : Whole(both \o bytes)
    <3> HIDE DEF both
    <3> QED BY <2>1, PrintsAre, WholeConcat
  <2>3. Whole(seen' \o wire')
    BY <1>2, <2>1, <2>2, OutputGrows
  <2> QED BY <2>3 DEF WholeInv
<1> QED BY <1>1, <1>2

LEMMA LastMarkerRead ==
  ASSUME TypeInv, FedInv, WholeInv
  PROVE  TerminalIsLastMarker
<1> DEFINE both  == seen \o wire
           M     == Len(seen)
           state == parser.terminal_state
           marks == MarkersIn(seen)
<1>1. seen \in Seq(Byte) /\ wire \in Seq(Byte) /\ both \in Seq(Byte) /\ Whole(both)
  BY ConcatProperties DEF TypeInv, WholeInv
<1>2. M \in 0..Len(both) /\ M \in 0..M /\ M \in Nat
  <2>1. Len(both) = M + Len(wire) /\ M \in Nat /\ Len(wire) \in Nat
    BY <1>1, ConcatProperties, LenProperties
  <2> HIDE DEF M, both
  <2> QED BY <2>1
<1>3. Parsers(both, M) = parser
  <2>1. OscFed(NewOscParser, seen \o wire)[M] = OscFed(NewOscParser, seen)[M]
    BY <1>1, <1>2, NewParserTyped, OscFedConcat
  <2> QED BY <2>1 DEF Parsers, FedInv, OscFeedBytes
<1>4. LastMarked(both, M, state)
  <2> HIDE DEF both, M
  <2> QED BY <1>1, <1>2, <1>3, AllLastMarked
<1>5. \A b \in 1..Len(both), m \in ShellMarkers :
        MarkerAt(both, b, m) /\ EndOf(b, m) <= M <=> <<b, m>> \in marks
  BY <1>1, MarkersInAre
<1>6. \A x \in marks : x[1] \in 1..Len(both) /\ x[2] \in ShellMarkers /\ x = <<x[1], x[2]>>
  <2>1. \A x \in marks : x[1] \in 1..M /\ x[2] \in ShellMarkers /\ x = <<x[1], x[2]>>
    BY DEF MarkersIn, ShellMarkers
  <2>2. \A b \in 1..M : b \in 1..Len(both)
    <3> HIDE DEF M, both
    <3> QED BY <1>2
  <2> QED BY <2>1, <2>2
<1>7. CASE /\ state = "Idle"
           /\ \A b \in 1..Len(both), m \in ShellMarkers : MarkerAt(both, b, m) => M < EndOf(b, m)
  <2>1. marks = {}
    <3> SUFFICES ASSUME NEW x \in marks PROVE FALSE
      OBVIOUS
    <3> DEFINE b == x[1]
               m == x[2]
    <3>1. b \in 1..Len(both) /\ m \in ShellMarkers /\ MarkerAt(both, b, m) /\ EndOf(b, m) <= M
      BY <1>5, <1>6
    <3> HIDE DEF b, m
    <3>2. M < EndOf(b, m)
      BY <1>7, <3>1
    <3> HIDE DEF both
    <3>3. EndOf(b, m) \in 1..Len(both)
      BY <1>1, <3>1, MarkerSpan
    <3> HIDE DEF M
    <3> QED BY <1>2, <3>1, <3>2, <3>3
  <2> QED BY <1>7, <2>1 DEF TerminalIsLastMarker
<1>8. ASSUME NEW b \in 1..Len(both), NEW m \in ShellMarkers, MarkerAt(both, b, m), EndOf(b, m) <= M,
             state = StateOf(m),
             \A c \in 1..Len(both), other \in ShellMarkers :
               MarkerAt(both, c, other) /\ EndOf(c, other) <= M => c <= b
      PROVE  TerminalIsLastMarker
  <2> DEFINE x == <<b, m>>
  <2>1. x \in marks /\ x[1] = b /\ x[2] = m
    BY <1>5, <1>8
  <2>2. \A other \in marks : other[1] <= b
    BY <1>5, <1>6, <1>8
  <2>3. state = TerminalStateAfter("Idle", [kind |-> m[5], code |-> 0])
    BY <1>8 DEF StateOf
  <2>4. marks # {}
    BY <2>1
  <2> HIDE DEF x, marks
  <2>5. \E y \in marks : /\ \A other \in marks : other[1] <= y[1]
                         /\ state = TerminalStateAfter("Idle", [kind |-> y[2][5], code |-> 0])
    BY <2>1, <2>2, <2>3
  <2> QED BY <2>4, <2>5 DEF TerminalIsLastMarker, marks
<1> QED BY <1>4, <1>7, <1>8 DEF LastMarked

(* If commands print markers as a whole only and no beginning of one, the  *)
(* terminal state is that of the last marker that has been read whole,     *)
(* however the output is cut, whatever other sequences there are, and      *)
(* whatever is not ended.                                                  *)
THEOREM LastMarker ==
  ASSUME OutputsWhole
  PROVE  Spec => []TerminalIsLastMarker
<1>1. Init => TypeInv /\ FedInv /\ WholeInv
  BY InitTyped, FedStays, WholeStays
<1>2. TypeInv /\ FedInv /\ WholeInv /\ [Next]_vars => TypeInv' /\ FedInv' /\ WholeInv'
  BY NextTyped, FedStays, WholeStays
<1>3. TypeInv /\ FedInv /\ WholeInv => TerminalIsLastMarker
  BY LastMarkerRead
<1> QED BY <1>1, <1>2, <1>3, PTL DEF Spec

(***************************************************************************)
(* The lines of the output.                                                *)
(***************************************************************************)

(* The history after a byte, field by field.                               *)
LEMMA HistoryFeedFields ==
  ASSUME NEW max \in Nat, NEW h \in Histories(max), NEW byte \in Byte
  PROVE  /\ h.escape_state = "Ground" /\ byte = ESC =>
              HistoryFeed(h, byte).escape_state = "Escape"
         /\ h.escape_state = "Ground" /\ byte # ESC =>
              HistoryFeed(h, byte).escape_state = "Ground"
         /\ h.escape_state = "Ground" /\ byte = "\n" =>
              /\ HistoryFeed(h, byte).lines = Evict(Append(h.lines, h.current_line), max)
              /\ HistoryFeed(h, byte).current_line = <<>>
         /\ h.escape_state = "Ground" /\ byte \notin Control =>
              /\ HistoryFeed(h, byte).lines = h.lines
              /\ HistoryFeed(h, byte).current_line = Append(h.current_line, byte)
         /\ h.escape_state # "Ground" \/ byte \in Control \ {"\n"} =>
              /\ HistoryFeed(h, byte).lines = h.lines
              /\ HistoryFeed(h, byte).current_line = h.current_line
         /\ h.escape_state = "Escape" =>
              HistoryFeed(h, byte).escape_state =
                IF byte = "[" THEN "Csi" ELSE IF byte = "]" THEN "Osc" ELSE "Ground"
         /\ h.escape_state = "Csi" =>
              HistoryFeed(h, byte).escape_state = IF IsCsiFinal(byte) THEN "Ground" ELSE "Csi"
         /\ h.escape_state = "Osc" =>
              HistoryFeed(h, byte).escape_state =
                IF byte = BEL THEN "Ground" ELSE IF byte = ESC THEN "Escape" ELSE "Osc"
<1> DEFINE q == HistoryFeed(h, byte)
           next == CASE byte = "[" -> "Csi" [] byte = "]" -> "Osc" [] byte \notin {"[", "]"} -> "Ground"
           after == CASE byte = "BEL" -> "Ground" [] byte = "ESC" -> "Escape"
                      [] byte \notin {"BEL", "ESC"} -> h.escape_state
<1>1. /\ h.max_lines = max /\ h.escape_state \in EscapeState
      /\ h \in [lines : Seq(Seq(Byte)), current_line : Seq(Byte), max_lines : Nat, escape_state : EscapeState]
  BY DEF Histories
<1>2. \A e : LET r == [h EXCEPT !.escape_state = e] IN
               r.escape_state = e /\ r.lines = h.lines /\ r.current_line = h.current_line
  BY <1>1
<1>3. CASE h.escape_state = "Ground"
  <2>1. CASE byte = ESC
    <3>1. q = [h EXCEPT !.escape_state = "Escape"]
      <4>1. byte = "ESC" /\ byte # "\n" /\ byte \notin {"\r", "BEL"} /\ ~ (byte \notin Control)
        BY <2>1 DEF Control, ESC
      <4> QED BY <1>3, <4>1 DEF HistoryFeed
    <3>2. q.escape_state = "Escape" /\ q.lines = h.lines /\ q.current_line = h.current_line
      BY <1>2, <3>1
    <3>3. byte \in Control \ {"\n"} /\ byte # "\n"
      BY <2>1 DEF Control, ESC
    <3> HIDE DEF q
    <3> QED BY <1>3, <2>1, <3>2, <3>3 DEF q
  <2>2. CASE byte = "\n"
    <3>1. q = PushLine(h)
      <4>1. byte # "ESC" /\ byte \notin {"\r", "BEL"} /\ ~ (byte \notin Control)
        BY <2>2 DEF Control
      <4> QED BY <1>3, <2>2, <4>1 DEF HistoryFeed
    <3> DEFINE lines == Evict(Append(h.lines, h.current_line), max)
    <3>2. q = [h EXCEPT !.lines = lines, !.current_line = <<>>]
      BY <1>1, <3>1 DEF PushLine
    <3> HIDE DEF q, lines
    <3>3. q.escape_state = "Ground" /\ q.lines = lines /\ q.current_line = <<>>
      BY <1>1, <1>3, <3>2
    <3>4. byte # ESC /\ byte \in Control
      BY <2>2 DEF Control, ESC
    <3> QED BY <1>3, <2>2, <3>3, <3>4 DEF q, lines
  <2>3. CASE byte \in {"\r", "BEL"}
    <3>1. q = h
      <4>1. byte # "ESC" /\ byte # "\n" /\ ~ (byte \notin Control)
        BY <2>3 DEF Control
      <4> QED BY <1>3, <2>3, <4>1 DEF HistoryFeed
    <3>2. byte # ESC /\ byte \in Control \ {"\n"} /\ byte # "\n"
      BY <2>3 DEF Control, ESC
    <3> QED BY <1>3, <3>1, <3>2
  <2>4. CASE byte \notin Control
    <3>1. q = [h EXCEPT !.current_line = Append(@, byte)]
      BY <1>3, <2>4 DEF HistoryFeed, Control
    <3> DEFINE line == Append(h.current_line, byte)
    <3>2. q = [h EXCEPT !.current_line = line]
      BY <1>1, <3>1
    <3> HIDE DEF q, line
    <3>3. q.escape_state = "Ground" /\ q.lines = h.lines /\ q.current_line = line
      BY <1>1, <1>3, <3>2
    <3>4. byte # ESC /\ byte # "\n"
      BY <2>4 DEF Control, ESC
    <3> QED BY <1>3, <2>4, <3>3, <3>4 DEF q, line
  <2> QED BY <2>1, <2>2, <2>3, <2>4 DEF Control, ESC
<1>4. CASE h.escape_state = "Escape"
  <2>1. q = [h EXCEPT !.escape_state = next]
    BY <1>4 DEF HistoryFeed
  <2>2. next = IF byte = "[" THEN "Csi" ELSE IF byte = "]" THEN "Osc" ELSE "Ground"
    OBVIOUS
  <2> HIDE DEF next
  <2>3. q.escape_state = next /\ q.lines = h.lines /\ q.current_line = h.current_line
    BY <1>2, <2>1
  <2> HIDE DEF q
  <2> QED BY <1>4, <2>2, <2>3 DEF q
<1>5. CASE h.escape_state = "Csi"
  <2>1. q = IF IsCsiFinal(byte) THEN [h EXCEPT !.escape_state = "Ground"] ELSE h
    BY <1>5 DEF HistoryFeed
  <2>2. /\ q.escape_state = IF IsCsiFinal(byte) THEN "Ground" ELSE "Csi"
        /\ q.lines = h.lines /\ q.current_line = h.current_line
    BY <1>2, <1>5, <2>1
  <2> HIDE DEF q
  <2> QED BY <1>5, <2>2 DEF q
<1>6. CASE h.escape_state = "Osc"
  <2>1. q = [h EXCEPT !.escape_state = after]
    BY <1>6 DEF HistoryFeed
  <2>2. after = IF byte = BEL THEN "Ground" ELSE IF byte = ESC THEN "Escape" ELSE "Osc"
    BY <1>6 DEF BEL, ESC
  <2> HIDE DEF after
  <2>3. q.escape_state = after /\ q.lines = h.lines /\ q.current_line = h.current_line
    BY <1>2, <2>1
  <2> HIDE DEF q
  <2> QED BY <1>6, <2>2, <2>3 DEF q
<1> QED BY <1>1, <1>3, <1>4, <1>5, <1>6 DEF EscapeState

(* An escape sequence that begins at b and has not ended with the byte n.  *)
CsiOpen(bytes, b, n) ==
  b < n /\ bytes[b] = ESC /\ bytes[b + 1] = "[" /\ \A k \in (b + 2)..n : ~IsCsiFinal(bytes[k])

OscOpen(bytes, b, n) ==
  b < n /\ bytes[b] = ESC /\ bytes[b + 1] = "]" /\ \A k \in (b + 2)..n : bytes[k] \notin {BEL, ESC}

Open(bytes, b, n) == (b = n /\ bytes[b] = ESC) \/ CsiOpen(bytes, b, n) \/ OscOpen(bytes, b, n)

(* An ESC would begin a sequence after the byte n: it neither follows on an*)
(* ESC nor is within a sequence that begins with ESC [, which may be all   *)
(* there is.                                                               *)
Clear(bytes, n) == (n >= 1 => bytes[n] # ESC) /\ \A b \in 1..n : ~CsiOpen(bytes, b, n)

Regular(bytes) == \A i \in 1..Len(bytes) : bytes[i] = ESC => Clear(bytes, i - 1)

(* What a byte more leaves open.                                           *)
LEMMA OpenMore ==
  ASSUME NEW bytes, NEW n \in Nat, NEW b \in 1..(n + 1)
  PROVE  /\ b = n + 1 => (Open(bytes, b, n + 1) <=> bytes[n + 1] = ESC)
         /\ b = n + 1 => ~CsiOpen(bytes, b, n + 1) /\ ~OscOpen(bytes, b, n + 1)
         /\ b = n => (CsiOpen(bytes, b, n + 1) <=> bytes[n] = ESC /\ bytes[n + 1] = "[")
         /\ b = n => (OscOpen(bytes, b, n + 1) <=> bytes[n] = ESC /\ bytes[n + 1] = "]")
         /\ b < n => (CsiOpen(bytes, b, n + 1) <=> CsiOpen(bytes, b, n) /\ ~IsCsiFinal(bytes[n + 1]))
         /\ b < n => (OscOpen(bytes, b, n + 1) <=> OscOpen(bytes, b, n) /\ bytes[n + 1] \notin {BEL, ESC})
         /\ b <= n => (Open(bytes, b, n + 1) <=> CsiOpen(bytes, b, n + 1) \/ OscOpen(bytes, b, n + 1))
<1>1. CASE b = n + 1
  BY <1>1 DEF Open, CsiOpen, OscOpen
<1>2. CASE b = n
  <2>1. (b + 2)..(n + 1) = {} /\ b < n + 1 /\ b + 1 = n + 1 /\ b # n + 1 /\ ~ (b < n)
    BY <1>2
  <2> QED BY <1>2, <2>1 DEF Open, CsiOpen, OscOpen
<1>3. CASE b < n
  <2>1. \A k \in Int : k \in (b + 2)..(n + 1) <=> k \in (b + 2)..n \/ k = n + 1
    BY <1>3
  <2>2. b < n + 1 /\ b # n + 1 /\ b # n /\ n + 1 \in Int
    BY <1>3
  <2>3. (\A k \in (b + 2)..(n + 1) : ~IsCsiFinal(bytes[k])) <=>
          (\A k \in (b + 2)..n : ~IsCsiFinal(bytes[k])) /\ ~IsCsiFinal(bytes[n + 1])
    BY <2>1, <2>2
  <2>4. (\A k \in (b + 2)..(n + 1) : bytes[k] \notin {BEL, ESC}) <=>
          (\A k \in (b + 2)..n : bytes[k] \notin {BEL, ESC}) /\ bytes[n + 1] \notin {BEL, ESC}
    BY <2>1, <2>2
  <2> QED BY <1>3, <2>2, <2>3, <2>4 DEF Open, CsiOpen, OscOpen
<1> QED BY <1>1, <1>2, <1>3

LEMMA InEscapeOpen ==
  ASSUME NEW bytes, NEW n \in Nat
  PROVE  InEscape(bytes, n + 1) <=> bytes[n + 1] = ESC \/ \E b \in 1..n : Open(bytes, b, n)
<1>1. ASSUME NEW b \in 1..(n + 1)
      PROVE  /\ b = n + 1 => n + 1 <= b + 1
             /\ b = n => n + 1 <= b + 1
             /\ b < n => ~ (n + 1 <= b + 1) /\ (n + 1) - 1 = n
             /\ b = n + 1 \/ b = n \/ b < n
             /\ b # n + 1 => b \in 1..n
             /\ b = n => ~ (b < n)
  OBVIOUS
<1>2. \A b \in 1..n : b \in 1..(n + 1) /\ b # n + 1
  OBVIOUS
<1>3. n + 1 \in 1..(n + 1)
  OBVIOUS
<1> DEFINE In(b) == /\ bytes[b] = ESC
                    /\ \/ n + 1 <= b + 1
                       \/ bytes[b + 1] = "[" /\ \A k \in (b + 2)..((n + 1) - 1) : ~IsCsiFinal(bytes[k])
                       \/ bytes[b + 1] = "]" /\ \A k \in (b + 2)..((n + 1) - 1) : bytes[k] \notin {BEL, ESC}
<1>4. InEscape(bytes, n + 1) <=> \E b \in 1..(n + 1) : In(b)
  BY DEF InEscape
<1>5. In(n + 1) <=> bytes[n + 1] = ESC
  BY <1>1, <1>3
<1>6. ASSUME NEW b \in 1..n
      PROVE  In(b) <=> Open(bytes, b, n)
  <2>1. b \in 1..(n + 1)
    BY <1>2
  <2>2. CASE b = n
    BY <1>1, <2>1, <2>2 DEF Open, CsiOpen, OscOpen
  <2>3. CASE b < n
    <3>1. ~ (n + 1 <= b + 1) /\ (n + 1) - 1 = n /\ b # n
      BY <1>1, <2>1, <2>3
    <3> QED BY <2>3, <3>1 DEF Open, CsiOpen, OscOpen
  <2> QED BY <2>2, <2>3
<1> HIDE DEF In
<1> QED BY <1>1, <1>2, <1>3, <1>4, <1>5, <1>6

(* How the history stands: what is open, when the output is regular.       *)
Stands(bytes, n, state) ==
  /\ state = "Ground" => \A c \in 1..n : ~Open(bytes, c, n)
  /\ state = "Escape" => n >= 1 /\ bytes[n] = ESC /\ \A c \in 1..n : Open(bytes, c, n) => c = n
  /\ state = "Csi" => /\ \E b \in 1..n : CsiOpen(bytes, b, n)
                      /\ \A c \in 1..n : Open(bytes, c, n) => CsiOpen(bytes, c, n)
  /\ state = "Osc" => /\ \E b \in 1..n : OscOpen(bytes, b, n)
                      /\ \A c \in 1..n : Open(bytes, c, n) => OscOpen(bytes, c, n)

LEMMA StandsMore ==
  ASSUME NEW bytes \in Seq(Byte), Regular(bytes), NEW n \in 0..(Len(bytes) - 1),
         NEW max \in Nat, NEW h \in Histories(max), Stands(bytes, n, h.escape_state)
  PROVE  Stands(bytes, n + 1, HistoryFeed(h, bytes[n + 1]).escape_state)
<1> DEFINE byte == bytes[n + 1]
           state == HistoryFeed(h, byte).escape_state
<1>1. n \in Nat /\ n + 1 \in 1..Len(bytes) /\ (n + 1) - 1 = n /\ n + 1 >= 1
  BY LenProperties
<1>2. byte \in Byte /\ h.escape_state \in EscapeState
  BY <1>1, ElementOfSeq, HistoryFields
<1>3. \A c \in 1..(n + 1) : c = n + 1 \/ (c \in 1..n /\ c <= n /\ (c = n \/ c < n))
  BY <1>1
<1>4. n + 1 \in 1..(n + 1) /\ \A c \in 1..n : c \in 1..(n + 1) /\ c # n + 1
  BY <1>1
<1>5. n >= 1 => n \in 1..n
  BY <1>1
<1>6. bytes[n] = ESC => Open(bytes, n, n)
  BY DEF Open
<1>7. byte = ESC => (n >= 1 => bytes[n] # ESC) /\ \A b \in 1..n : ~CsiOpen(bytes, b, n)
  BY <1>1 DEF Regular, Clear
<1>8. \A c \in Int : ~CsiOpen(bytes, c, c) /\ ~OscOpen(bytes, c, c)
  BY DEF CsiOpen, OscOpen
<1>9. CASE h.escape_state = "Ground"
  <2>1. \A c \in 1..n : ~Open(bytes, c, n)
    BY <1>9 DEF Stands
  <2>2. n >= 1 => bytes[n] # ESC
    BY <1>5, <1>6, <2>1
  <2>3. \A c \in 1..n : ~CsiOpen(bytes, c, n) /\ ~OscOpen(bytes, c, n)
    BY <2>1 DEF Open
  <2>4. \A c \in 1..n : ~Open(bytes, c, n + 1)
    BY <1>1, <1>3, <1>4, <2>2, <2>3, OpenMore
  <2>5. CASE byte = ESC
    <3>1. state = "Escape"
      BY <1>2, <1>9, <2>5, HistoryFeedFields
    <3>2. \A c \in 1..(n + 1) : Open(bytes, c, n + 1) => c = n + 1
      BY <1>3, <2>4
    <3> HIDE DEF state
    <3> QED BY <1>1, <2>5, <3>1, <3>2 DEF Stands, state
  <2>6. CASE byte # ESC
    <3>1. state = "Ground"
      BY <1>2, <1>9, <2>6, HistoryFeedFields
    <3>2. ~Open(bytes, n + 1, n + 1)
      BY <1>1, <1>4, <2>6, OpenMore
    <3>3. \A c \in 1..(n + 1) : ~Open(bytes, c, n + 1)
      BY <1>3, <2>4, <3>2
    <3> HIDE DEF state
    <3> QED BY <3>1, <3>3 DEF Stands, state
  <2> QED BY <2>5, <2>6
<1>10. CASE h.escape_state = "Escape"
  <2>1. n >= 1 /\ bytes[n] = ESC /\ \A c \in 1..n : Open(bytes, c, n) => c = n
    BY <1>10 DEF Stands
  <2>2. n \in 1..n /\ n \in 1..(n + 1) /\ byte # ESC
    BY <1>4, <1>5, <1>7, <2>1
  <2>3. \A c \in 1..n : c < n => ~CsiOpen(bytes, c, n) /\ ~OscOpen(bytes, c, n) /\ c # n
    BY <1>1, <2>1 DEF Open
  <2>4. \A c \in 1..n : c < n => ~Open(bytes, c, n + 1)
    BY <1>1, <1>3, <1>4, <2>3, OpenMore
  <2>5. ~Open(bytes, n + 1, n + 1)
    BY <1>1, <1>4, <2>2, OpenMore
  <2>6. \A c \in 1..(n + 1) : Open(bytes, c, n + 1) => c = n
    BY <1>3, <2>4, <2>5
  <2>7. /\ CsiOpen(bytes, n, n + 1) <=> byte = "["
        /\ OscOpen(bytes, n, n + 1) <=> byte = "]"
        /\ Open(bytes, n, n + 1) <=> CsiOpen(bytes, n, n + 1) \/ OscOpen(bytes, n, n + 1)
    BY <1>1, <2>1, <2>2, OpenMore
  <2>8. state = IF byte = "[" THEN "Csi" ELSE IF byte = "]" THEN "Osc" ELSE "Ground"
    BY <1>2, <1>10, HistoryFeedFields
  <2> HIDE DEF state, byte
  <2>9. CASE byte = "["
    <3>1. state = "Csi" /\ CsiOpen(bytes, n, n + 1)
      BY <2>7, <2>8, <2>9
    <3> QED BY <2>2, <2>6, <3>1 DEF Stands, state, byte
  <2>10. CASE byte = "]"
    <3>1. state = "Osc" /\ OscOpen(bytes, n, n + 1)
      BY <2>7, <2>8, <2>10
    <3> QED BY <2>2, <2>6, <3>1 DEF Stands, state, byte
  <2>11. CASE byte # "[" /\ byte # "]"
    <3>1. state = "Ground" /\ \A c \in 1..(n + 1) : ~Open(bytes, c, n + 1)
      BY <2>6, <2>7, <2>8, <2>11
    <3> QED BY <3>1 DEF Stands, state, byte
  <2> QED BY <2>9, <2>10, <2>11
<1>11. CASE h.escape_state = "Csi"
  <2>1. /\ \E b \in 1..n : CsiOpen(bytes, b, n)
        /\ \A c \in 1..n : Open(bytes, c, n) => CsiOpen(bytes, c, n)
    BY <1>11 DEF Stands
  <2>2. byte # ESC /\ (n >= 1 => bytes[n] # ESC)
    BY <1>5, <1>6, <1>7, <1>8, <2>1
  <2>3. \A c \in 1..n : CsiOpen(bytes, c, n) => c < n
    BY DEF CsiOpen
  <2>4. \A c \in 1..n : ~OscOpen(bytes, c, n) \/ CsiOpen(bytes, c, n)
    BY <2>1 DEF Open
  <2>5. \A c \in 1..n : ~OscOpen(bytes, c, n)
    <3> SUFFICES ASSUME NEW c \in 1..n, OscOpen(bytes, c, n), CsiOpen(bytes, c, n) PROVE FALSE
      BY <2>4
    <3> QED BY DEF OscOpen, CsiOpen
  <2>6. ~Open(bytes, n + 1, n + 1)
    BY <1>1, <1>4, <2>2, OpenMore
  <2>7. \A c \in 1..n : Open(bytes, c, n + 1) <=> CsiOpen(bytes, c, n) /\ ~IsCsiFinal(byte)
    <3> SUFFICES ASSUME NEW c \in 1..n
                 PROVE  Open(bytes, c, n + 1) <=> CsiOpen(bytes, c, n) /\ ~IsCsiFinal(byte)
      OBVIOUS
    <3>1. c \in 1..(n + 1) /\ c <= n /\ n >= 1
      BY <1>1, <1>4
    <3>2. CASE c = n
      BY <1>1, <1>8, <2>2, <3>1, <3>2, OpenMore
    <3>3. CASE c < n
      BY <1>1, <2>5, <3>1, <3>3, OpenMore
    <3> QED BY <3>1, <3>2, <3>3
  <2>8. \A c \in 1..n : CsiOpen(bytes, c, n) /\ ~IsCsiFinal(byte) => CsiOpen(bytes, c, n + 1)
    BY <1>1, <1>4, <2>3, OpenMore
  <2>9. state = IF IsCsiFinal(byte) THEN "Ground" ELSE "Csi"
    BY <1>2, <1>11, HistoryFeedFields
  <2> HIDE DEF state, byte
  <2>10. CASE IsCsiFinal(byte)
    <3>1. state = "Ground" /\ \A c \in 1..(n + 1) : ~Open(bytes, c, n + 1)
      BY <1>3, <2>6, <2>7, <2>9, <2>10
    <3> QED BY <3>1 DEF Stands, state, byte
  <2>11. CASE ~IsCsiFinal(byte)
    <3>1. state = "Csi" /\ \E b \in 1..(n + 1) : CsiOpen(bytes, b, n + 1)
      BY <1>4, <2>1, <2>8, <2>9, <2>11
    <3>2. \A c \in 1..(n + 1) : Open(bytes, c, n + 1) => CsiOpen(bytes, c, n + 1)
      BY <1>3, <2>6, <2>7, <2>8, <2>11
    <3> QED BY <3>1, <3>2 DEF Stands, state, byte
  <2> QED BY <2>10, <2>11
<1>12. CASE h.escape_state = "Osc"
  <2>1. /\ \E b \in 1..n : OscOpen(bytes, b, n)
        /\ \A c \in 1..n : Open(bytes, c, n) => OscOpen(bytes, c, n)
    BY <1>12 DEF Stands
  <2>2. n >= 1 => bytes[n] # ESC
    BY <1>5, <1>6, <1>8, <2>1
  <2>3. \A c \in 1..n : OscOpen(bytes, c, n) => c < n
    BY DEF OscOpen
  <2>4. \A c \in 1..n : ~CsiOpen(bytes, c, n) \/ OscOpen(bytes, c, n)
    BY <2>1 DEF Open
  <2>5. \A c \in 1..n : ~CsiOpen(bytes, c, n)
    <3> SUFFICES ASSUME NEW c \in 1..n, OscOpen(bytes, c, n), CsiOpen(bytes, c, n) PROVE FALSE
      BY <2>4
    <3> QED BY DEF OscOpen, CsiOpen
  <2>6. Open(bytes, n + 1, n + 1) <=> byte = ESC
    BY <1>1, <1>4, OpenMore
  <2>7. \A c \in 1..n : Open(bytes, c, n + 1) <=> OscOpen(bytes, c, n) /\ byte \notin {BEL, ESC}
    <3> SUFFICES ASSUME NEW c \in 1..n
                 PROVE  Open(bytes, c, n + 1) <=> OscOpen(bytes, c, n) /\ byte \notin {BEL, ESC}
      OBVIOUS
    <3>1. c \in 1..(n + 1) /\ c <= n /\ n >= 1
      BY <1>1, <1>4
    <3>2. CASE c = n
      BY <1>1, <1>8, <2>2, <3>1, <3>2, OpenMore
    <3>3. CASE c < n
      BY <1>1, <2>5, <3>1, <3>3, OpenMore
    <3> QED BY <3>1, <3>2, <3>3
  <2>8. \A c \in 1..n : OscOpen(bytes, c, n) /\ byte \notin {BEL, ESC} => OscOpen(bytes, c, n + 1)
    BY <1>1, <1>4, <2>3, OpenMore
  <2>9. state = IF byte = BEL THEN "Ground" ELSE IF byte = ESC THEN "Escape" ELSE "Osc"
    BY <1>2, <1>12, HistoryFeedFields
  <2>10. BEL # ESC
    BY DEF BEL, ESC
  <2> HIDE DEF state, byte
  <2>11. CASE byte = BEL
    <3>1. state = "Ground" /\ \A c \in 1..(n + 1) : ~Open(bytes, c, n + 1)
      BY <1>3, <2>6, <2>7, <2>9, <2>10, <2>11
    <3> QED BY <3>1 DEF Stands, state, byte
  <2>12. CASE byte = ESC
    <3>1. state = "Escape" /\ \A c \in 1..(n + 1) : Open(bytes, c, n + 1) => c = n + 1
      BY <1>3, <2>7, <2>9, <2>10, <2>12
    <3>2. bytes[n + 1] = ESC
      BY <2>12 DEF byte
    <3> QED BY <1>1, <3>1, <3>2 DEF Stands, state, byte
  <2>13. CASE byte \notin {BEL, ESC}
    <3>1. state = "Osc" /\ \E b \in 1..(n + 1) : OscOpen(bytes, b, n + 1)
      BY <1>4, <2>1, <2>8, <2>9, <2>13
    <3>2. \A c \in 1..(n + 1) : Open(bytes, c, n + 1) => OscOpen(bytes, c, n + 1)
      BY <1>3, <2>6, <2>7, <2>8, <2>13
    <3> QED BY <3>1, <3>2 DEF Stands, state, byte
  <2> QED BY <2>11, <2>12, <2>13
<1> QED BY <1>2, <1>9, <1>10, <1>11, <1>12 DEF EscapeState

LEMMA AllStand ==
  ASSUME NEW bytes \in Seq(Byte), Regular(bytes), NEW max \in Nat
  PROVE  \A n \in 0..Len(bytes) : Stands(bytes, n, HistoryFed(NewHistory(max), bytes)[n].escape_state)
<1> DEFINE N == Len(bytes)
           P == HistoryFed(NewHistory(max), bytes)
           T == {n \in 0..N : Stands(bytes, n, P[n].escape_state)}
<1>1. /\ N \in Nat /\ P[0] = NewHistory(max)
      /\ \A n \in 1..N : P[n] = HistoryFeed(P[n - 1], bytes[n])
      /\ \A n \in 0..N : P[n] \in Histories(max)
  BY NewHistoryTyped, HistoryFedDefined, LenProperties
<1> HIDE DEF P
<1>2. 0 \in T
  <2>1. P[0].escape_state = "Ground"
    BY <1>1 DEF NewHistory
  <2> QED BY <1>1, <2>1 DEF Stands
<1>3. ASSUME NEW n \in 1..N, n - 1 \in T
      PROVE  n \in T
  <2>1. n - 1 \in 0..(N - 1) /\ n - 1 \in 0..N /\ (n - 1) + 1 = n /\ n \in 0..N
    BY <1>1
  <2>2. Stands(bytes, n - 1, P[n - 1].escape_state) /\ P[n - 1] \in Histories(max)
    BY <1>1, <1>3, <2>1
  <2>3. Stands(bytes, (n - 1) + 1, HistoryFeed(P[n - 1], bytes[(n - 1) + 1]).escape_state)
    BY <2>1, <2>2, StandsMore
  <2> QED BY <1>1, <2>1, <2>3
<1>4. \A n \in 0..N : n \in T
  <2> HIDE DEF T
  <2> QED BY <1>1, <1>2, <1>3, InductionUpTo
<1> QED BY <1>4 DEF P

(* What is in an escape sequence, as the history stands.                   *)
LEMMA ShownStands ==
  ASSUME NEW bytes, NEW n \in Nat, NEW state \in EscapeState, Stands(bytes, n, state)
  PROVE  InEscape(bytes, n + 1) <=> state # "Ground" \/ bytes[n + 1] = ESC
<1>1. InEscape(bytes, n + 1) <=> bytes[n + 1] = ESC \/ \E b \in 1..n : Open(bytes, b, n)
  BY InEscapeOpen
<1>2. CASE state = "Ground"
  BY <1>1, <1>2 DEF Stands
<1>3. CASE state = "Escape"
  <2>1. n \in 1..n /\ Open(bytes, n, n)
    BY <1>3 DEF Stands, Open
  <2> QED BY <1>1, <1>3, <2>1
<1>4. CASE state = "Csi"
  <2>1. \E b \in 1..n : Open(bytes, b, n)
    BY <1>4 DEF Stands, Open
  <2> QED BY <1>1, <1>4, <2>1
<1>5. CASE state = "Osc"
  <2>1. \E b \in 1..n : Open(bytes, b, n)
    BY <1>5 DEF Stands, Open
  <2> QED BY <1>1, <1>5, <2>1
<1> QED BY <1>2, <1>3, <1>4, <1>5 DEF EscapeState

(* The last lines of some, position by position.                           *)
Fewer(m, n) == IF m <= n THEN m ELSE n

LEMMA LastIs ==
  ASSUME NEW R, NEW lines \in Seq(R), NEW max \in Nat
  PROVE  /\ Last(lines, max) \in Seq(R) /\ Len(Last(lines, max)) = Fewer(Len(lines), max)
         /\ \A i \in 1..Fewer(Len(lines), max) :
              Last(lines, max)[i] = lines[Len(lines) - Fewer(Len(lines), max) + i]
         /\ Evict(lines, max) \in Seq(R) /\ Len(Evict(lines, max)) = Fewer(Len(lines), max)
         /\ \A i \in 1..Fewer(Len(lines), max) :
              Evict(lines, max)[i] = lines[Len(lines) - Fewer(Len(lines), max) + i]
<1> DEFINE N    == Len(lines)
           size == Fewer(N, max)
           from == N - size + 1
           part == SubSeq(lines, from, N)
<1>1. N \in Nat
  BY LenProperties
<1>2. size = IF N <= max THEN N ELSE max
  BY DEF Fewer
<1> HIDE DEF N, size
<1>3. /\ size \in Nat /\ size <= N /\ from \in Int /\ from >= 1 /\ N \in Int /\ N - from + 1 = size
      /\ (from <= N => N - from + 1 = size) /\ (~ (from <= N) => size = 0)
      /\ \A i \in from..N : i \in 1..N
      /\ \A i \in 1..size : from + i - 1 = N - size + i
      /\ N <= max => from = 1 /\ N - size = 0
      /\ ~ (N <= max) => from = N - max + 1
  <2>1. CASE N <= max
    BY <1>1, <1>2, <2>1
  <2>2. CASE ~ (N <= max)
    BY <1>1, <1>2, <2>2
  <2> QED BY <2>1, <2>2
<1>4. \A i \in from..N : lines[i] \in R
  <2>1. \A i \in 1..N : lines[i] \in R
    BY ElementOfSeq DEF N
  <2> QED BY <1>3, <2>1
<1>5. /\ part \in Seq(R) /\ Len(part) = IF from <= N THEN N - from + 1 ELSE 0
      /\ \A i \in 1..(N - from + 1) : part[i] = lines[from + i - 1]
  <2> HIDE DEF from
  <2> QED BY <1>3, <1>4, SubSeqProperties
<1>6. part \in Seq(R) /\ Len(part) = size /\ \A i \in 1..size : part[i] = lines[N - size + i]
  <2> HIDE DEF from, part
  <2> QED BY <1>3, <1>5
<1>7. Last(lines, max) = part
  BY <1>3 DEF Last, N
<1>8. CASE N <= max
  <2>1. Evict(lines, max) = lines
    BY <1>8 DEF Evict, N
  <2>2. size = N /\ \A i \in 1..size : N - size + i = i
    BY <1>2, <1>3, <1>8
  <2> HIDE DEF part
  <2> QED BY <1>3, <1>6, <1>7, <2>1, <2>2 DEF N, size
<1>9. CASE ~ (N <= max)
  <2>1. Evict(lines, max) = part
    BY <1>3, <1>9 DEF Evict, N
  <2> HIDE DEF part
  <2> QED BY <1>3, <1>6, <1>7, <2>1 DEF N, size
<1> QED BY <1>8, <1>9

LEMMA EvictLast ==
  ASSUME NEW R, NEW lines \in Seq(R), NEW line \in R, NEW max \in Nat
  PROVE  Evict(Append(Last(lines, max), line), max) = Last(Append(lines, line), max)
<1> DEFINE N     == Len(lines)
           kept  == Last(lines, max)
           more  == Append(lines, line)
           tail  == Append(kept, line)
           size  == Fewer(N, max)
           after == Fewer(N + 1, max)
           left  == Fewer(size + 1, max)
<1>1. N \in Nat
  BY LenProperties
<1>2. /\ kept \in Seq(R) /\ Len(kept) = size
      /\ \A i \in 1..size : kept[i] = lines[N - size + i]
  BY LastIs
<1>3. /\ more \in Seq(R) /\ Len(more) = N + 1 /\ more[N + 1] = line
      /\ \A i \in 1..N : more[i] = lines[i]
  BY AppendProperties
<1>4. /\ tail \in Seq(R) /\ Len(tail) = size + 1 /\ tail[size + 1] = line
      /\ \A i \in 1..size : tail[i] = kept[i]
  <2> HIDE DEF kept, size
  <2>1. /\ tail \in Seq(R) /\ Len(tail) = Len(kept) + 1 /\ tail[Len(kept) + 1] = line
        /\ \A i \in 1..Len(kept) : tail[i] = kept[i]
    BY <1>2, AppendProperties
  <2> QED BY <1>2, <2>1
<1> DEFINE a == Evict(tail, max)
           b == Last(more, max)
<1>7. /\ b \in Seq(R) /\ Len(b) = after /\ \A i \in 1..after : b[i] = more[N + 1 - after + i]
  <2>1. /\ b \in Seq(R) /\ Len(b) = after /\ \A i \in 1..after : b[i] = more[Len(more) - after + i]
    <3>1. Len(more) = N + 1
      BY <1>3
    <3>2. more \in Seq(R)
      BY <1>3
    <3> HIDE DEF more
    <3>3. /\ b \in Seq(R) /\ Len(b) = Fewer(Len(more), max)
          /\ \A i \in 1..Fewer(Len(more), max) : b[i] = more[Len(more) - Fewer(Len(more), max) + i]
      BY <3>2, LastIs
    <3> HIDE DEF b
    <3> QED BY <3>1, <3>3
  <2>2. Len(more) = N + 1
    BY <1>3
  <2>3. ASSUME NEW i \in 1..after
        PROVE  b[i] = more[N + 1 - after + i]
    <3>1. b[i] = more[Len(more) - after + i]
      BY <2>1
    <3>2. Len(more) - after + i = N + 1 - after + i
      <4> DEFINE count == Len(more)
      <4>1. count = N + 1 /\ N \in Nat /\ after \in Nat /\ i \in 1..after
        BY <1>1, <2>2 DEF Fewer
      <4> HIDE DEF count, more, N, after, size
      <4>2. count - after + i = N + 1 - after + i
        BY <4>1
      <4> QED BY <4>2 DEF count
    <3> HIDE DEF more, after, b, N
    <3> QED BY <3>1, <3>2
  <2> HIDE DEF more, after, b, N
  <2> QED BY <2>1, <2>3
<1>8. /\ a \in Seq(R) /\ Len(a) = left /\ \A i \in 1..left : a[i] = tail[size + 1 - left + i]
  <2>1. /\ a \in Seq(R) /\ Len(a) = left /\ \A i \in 1..left : a[i] = tail[Len(tail) - left + i]
    <3>1. Len(tail) = size + 1
      BY <1>4
    <3>2. tail \in Seq(R)
      BY <1>4
    <3> HIDE DEF tail, size
    <3>3. /\ a \in Seq(R) /\ Len(a) = Fewer(Len(tail), max)
          /\ \A i \in 1..Fewer(Len(tail), max) : a[i] = tail[Len(tail) - Fewer(Len(tail), max) + i]
      BY <3>2, LastIs
    <3> HIDE DEF a
    <3> QED BY <3>1, <3>3
  <2>2. Len(tail) = size + 1
    BY <1>4
  <2>3. ASSUME NEW i \in 1..left
        PROVE  a[i] = tail[size + 1 - left + i]
    <3>1. a[i] = tail[Len(tail) - left + i]
      BY <2>1
    <3>2. Len(tail) - left + i = size + 1 - left + i
      <4> DEFINE count == Len(tail)
      <4>1. count = size + 1 /\ size \in Nat /\ left \in Nat /\ i \in 1..left
        BY <1>1, <2>2 DEF Fewer
      <4> HIDE DEF count, tail, N, left, size
      <4>2. count - left + i = size + 1 - left + i
        BY <4>1
      <4> QED BY <4>2 DEF count
    <3> HIDE DEF tail, left, a, size
    <3> QED BY <3>1, <3>2
  <2> HIDE DEF tail, left, a, size
  <2> QED BY <2>1, <2>3
<1> HIDE DEF a, b, more, tail, kept, N
<1>9. /\ size = IF N <= max THEN N ELSE max
      /\ after = IF N + 1 <= max THEN N + 1 ELSE max
      /\ left = IF size + 1 <= max THEN size + 1 ELSE max
  BY DEF Fewer
<1> HIDE DEF size, after, left
<1>10. left = after /\ left \in Nat /\ size \in Nat /\ after <= N + 1
  BY <1>1, <1>9
<1>11. ASSUME NEW i \in 1..after
       PROVE  a[i] = b[i]
  <2>1. CASE i = after
    <3>1. size + 1 - left + i = size + 1 /\ N + 1 - after + i = N + 1 /\ i \in 1..left
      BY <1>1, <1>10, <2>1
    <3> QED BY <1>3, <1>4, <1>7, <1>8, <3>1
  <2>2. CASE i # after
    <3>1. /\ size + 1 - left + i \in 1..size /\ N + 1 - after + i \in 1..N
          /\ N - size + (size + 1 - left + i) = N + 1 - after + i /\ i \in 1..left
      BY <1>1, <1>9, <2>2
    <3>2. tail[size + 1 - left + i] = lines[N + 1 - after + i]
      BY <1>2, <1>4, <3>1
    <3>3. more[N + 1 - after + i] = lines[N + 1 - after + i]
      BY <1>3, <3>1
    <3> QED BY <1>7, <1>8, <3>1, <3>2, <3>3
  <2> QED BY <2>1, <2>2
<1>12. a = b
  <2>1. Len(a) = Len(b) /\ \A i \in 1..Len(a) : a[i] = b[i]
    BY <1>7, <1>8, <1>10, <1>11
  <2> QED BY <1>7, <1>8, <2>1, SeqEqual
<1> QED BY <1>12 DEF a, b, more, tail, kept

(* LinesOf, byte by byte: where the lines end, and what the line has that  *)
(* is not ended.                                                           *)
Shown(bytes)   == {i \in 1..Len(bytes) : ~InEscape(bytes, i)}
Ends(bytes)    == {i \in Shown(bytes) : bytes[i] = "\n"}
Numbers(bytes) == [i \in 1..Len(bytes) |-> i]

EndsUpTo(bytes, n) == PickedUpTo(Numbers(bytes), Ends(bytes))[n]

LineFrom(ends, k) == IF k = 1 THEN 1 ELSE ends[k - 1] + 1

LineWithin(bytes, from, to) == {i \in from..to : i \in Shown(bytes) /\ bytes[i] \notin Control}

LinesUpTo(bytes, n) ==
  LET ends == EndsUpTo(bytes, n)
  IN [k \in 1..Len(ends) |-> Picked(bytes, LineWithin(bytes, LineFrom(ends, k), ends[k]))]

Begun(bytes, n) == LineFrom(EndsUpTo(bytes, n), Len(EndsUpTo(bytes, n)) + 1)

CurrentUpTo(bytes, n) == PickedUpTo(bytes, LineWithin(bytes, Begun(bytes, n), Len(bytes)))[n]

LEMMA NumbersAre ==
  ASSUME NEW bytes \in Seq(Byte)
  PROVE  /\ Numbers(bytes) \in Seq(1..Len(bytes)) /\ Len(Numbers(bytes)) = Len(bytes)
         /\ \A i \in 1..Len(bytes) : Numbers(bytes)[i] = i
<1> DEFINE N == Len(bytes)
           R == 1..N
           f == [i \in 1..N |-> i]
<1>1. N \in Nat
  BY LenProperties
<1>2. f \in Seq(R) /\ Len(f) = N /\ \A i \in 1..N : f[i] = i
  <2> HIDE DEF N
  <2>1. f \in [1..N -> R]
    OBVIOUS
  <2> HIDE DEF R
  <2> QED BY <1>1, <2>1
<1> QED BY <1>2 DEF Numbers

LEMMA LinesOfIs ==
  ASSUME NEW bytes \in Seq(Byte)
  PROVE  LinesOf(bytes) = LinesUpTo(bytes, Len(bytes))
<1> DEFINE ends == Picked(Numbers(bytes), Ends(bytes))
<1>1. ends = EndsUpTo(bytes, Len(bytes))
  BY NumbersAre DEF Picked, EndsUpTo
<1>2. LinesOf(bytes) =
        [k \in 1..Len(ends) |-> Picked(bytes, LineWithin(bytes, LineFrom(ends, k), ends[k]))]
  BY DEF LinesOf, LineWithin, LineFrom, Ends, Shown, Numbers
<1> HIDE DEF ends
<1> QED BY <1>1, <1>2 DEF LinesUpTo

LEMMA EndsMore ==
  ASSUME NEW bytes \in Seq(Byte)
  PROVE  /\ EndsUpTo(bytes, 0) = <<>>
         /\ \A n \in 1..Len(bytes) :
              EndsUpTo(bytes, n) = IF n \in Ends(bytes) THEN Append(EndsUpTo(bytes, n - 1), n)
                                   ELSE EndsUpTo(bytes, n - 1)
         /\ \A n \in 0..Len(bytes) : EndsUpTo(bytes, n) \in Seq(1..Len(bytes))
<1> DEFINE N == Len(bytes)
           R == 1..N
           f == Numbers(bytes)
           P == PickedUpTo(f, Ends(bytes))
<1>1. f \in Seq(R) /\ Len(f) = N /\ N \in Nat /\ \A i \in 1..N : f[i] = i
  BY NumbersAre, LenProperties
<1>2. \A i \in 1..Len(f) : f[i] \in R
  BY <1>1
<1> HIDE DEF f, R
<1>3. /\ P[0] = <<>>
      /\ \A n \in 1..Len(f) : P[n] = IF n \in Ends(bytes) THEN Append(P[n - 1], f[n]) ELSE P[n - 1]
      /\ \A n \in 0..Len(f) : P[n] \in Seq(R)
  BY <1>1, <1>2, PickedDefined
<1> HIDE DEF P
<1>4. \A n \in 1..N : P[n] = IF n \in Ends(bytes) THEN Append(P[n - 1], n) ELSE P[n - 1]
  BY <1>1, <1>3
<1> QED BY <1>1, <1>3, <1>4 DEF EndsUpTo, f, P, R

(* What is picked up to a position, and nothing after it.                  *)
LEMMA PickedBefore ==
  ASSUME NEW bytes \in Seq(Byte), NEW n \in 1..Len(bytes), NEW P, NEW Q,
         \A i \in 1..(n - 1) : i \in P <=> i \in Q,
         \A i \in n..Len(bytes) : i \notin P
  PROVE  Picked(bytes, P) = PickedUpTo(bytes, Q)[n - 1]
<1> DEFINE N == Len(bytes)
           F == PickedUpTo(bytes, P)
           G == PickedUpTo(bytes, Q)
           T == {i \in 0..N : IF i <= n - 1 THEN F[i] = G[i] ELSE F[i] = G[n - 1]}
<1>1. N \in Nat /\ n \in 1..N /\ n \in Nat /\ \A i \in 1..N : bytes[i] \in Byte
  BY LenProperties, ElementOfSeq
<1>2. /\ F[0] = <<>> /\ G[0] = <<>>
      /\ \A i \in 1..N : F[i] = IF i \in P THEN Append(F[i - 1], bytes[i]) ELSE F[i - 1]
      /\ \A i \in 1..N : G[i] = IF i \in Q THEN Append(G[i - 1], bytes[i]) ELSE G[i - 1]
  BY <1>1, PickedDefined
<1>3. \A i \in n..N : i \notin P
  OBVIOUS
<1> HIDE DEF N, F, G
<1>4. 0 \in T
  BY <1>1, <1>2
<1>5. ASSUME NEW i \in 1..N, i - 1 \in T
      PROVE  i \in T
  <2>1. i \in 0..N /\ i - 1 \in 0..N
    BY <1>1
  <2>2. CASE i <= n - 1
    <3>1. i \in 1..(n - 1) /\ i - 1 <= n - 1
      BY <1>1, <2>2
    <3>2. F[i - 1] = G[i - 1] /\ (i \in P <=> i \in Q)
      BY <1>5, <3>1
    <3>3. F[i] = G[i]
      BY <1>2, <3>2
    <3> QED BY <2>1, <2>2, <3>3
  <2>3. CASE ~ (i <= n - 1)
    <3>1. i \in n..N
      BY <1>1, <2>3
    <3>2. F[i] = F[i - 1]
      BY <1>2, <1>3, <3>1
    <3>3. F[i - 1] = G[n - 1]
      <4>1. CASE i - 1 <= n - 1
        <5>1. i - 1 = n - 1
          BY <1>1, <2>3, <4>1
        <5> QED BY <1>5, <4>1, <5>1
      <4>2. CASE ~ (i - 1 <= n - 1)
        BY <1>5, <4>2
      <4> QED BY <4>1, <4>2
    <3> QED BY <2>1, <2>3, <3>2, <3>3
  <2> QED BY <2>2, <2>3
<1>6. N \in T
  <2> HIDE DEF T
  <2>1. \A i \in 0..N : i \in T
    BY <1>1, <1>4, <1>5, InductionUpTo
  <2> QED BY <1>1, <2>1
<1>7. F[N] = G[n - 1]
  <2>1. ~ (N <= n - 1)
    BY <1>1
  <2> QED BY <1>6, <2>1
<1> QED BY <1>7 DEF Picked, F, G, N

LEMMA PickedLater ==
  ASSUME NEW bytes \in Seq(Byte), NEW n \in 0..Len(bytes), NEW P, \A i \in 1..n : i \notin P
  PROVE  PickedUpTo(bytes, P)[n] = <<>>
<1> DEFINE N == Len(bytes)
           F == PickedUpTo(bytes, P)
           T == {i \in 0..n : F[i] = <<>>}
<1>1. N \in Nat /\ n \in Nat /\ \A i \in 1..N : bytes[i] \in Byte
  BY LenProperties, ElementOfSeq
<1>2. /\ F[0] = <<>>
      /\ \A i \in 1..N : F[i] = IF i \in P THEN Append(F[i - 1], bytes[i]) ELSE F[i - 1]
  BY <1>1, PickedDefined
<1> HIDE DEF F
<1>3. 0 \in T
  BY <1>1, <1>2
<1>4. ASSUME NEW i \in 1..n, i - 1 \in T
      PROVE  i \in T
  <2>1. i \in 1..N /\ i \in 0..n
    BY <1>1
  <2> QED BY <1>2, <1>4, <2>1
<1>5. \A i \in 0..n : i \in T
  <2> HIDE DEF T, N
  <2> QED BY <1>1, <1>3, <1>4, InductionUpTo
<1> QED BY <1>1, <1>5 DEF F

LEMMA LinesAre ==
  ASSUME NEW bytes \in Seq(Byte), NEW n \in 0..Len(bytes)
  PROVE  /\ LinesUpTo(bytes, n) \in Seq(Seq(Byte)) /\ Len(LinesUpTo(bytes, n)) = Len(EndsUpTo(bytes, n))
         /\ \A k \in 1..Len(EndsUpTo(bytes, n)) :
              LinesUpTo(bytes, n)[k] =
                Picked(bytes, LineWithin(bytes, LineFrom(EndsUpTo(bytes, n), k), EndsUpTo(bytes, n)[k]))
<1> DEFINE ends == EndsUpTo(bytes, n)
           K == Len(ends)
           R == Seq(Byte)
           line == [k \in 1..K |-> Picked(bytes, LineWithin(bytes, LineFrom(ends, k), ends[k]))]
<1>1. K \in Nat
  BY EndsMore, LenProperties
<1>2. \A P : Picked(bytes, P) \in R
  <2>1. Len(bytes) \in Nat /\ \A i \in 1..Len(bytes) : bytes[i] \in Byte
    BY LenProperties, ElementOfSeq
  <2> QED BY <2>1, PickedLen
<1>3. line \in Seq(R) /\ Len(line) = K
  <2>1. line \in [1..K -> R]
    <3> HIDE DEF K, ends, R
    <3> QED BY <1>2
  <2> HIDE DEF line, R, K
  <2> QED BY <1>1, <2>1
<1>4. \A k \in 1..K : line[k] = Picked(bytes, LineWithin(bytes, LineFrom(ends, k), ends[k]))
  <2> HIDE DEF K, ends
  <2> QED OBVIOUS
<1>5. LinesUpTo(bytes, n) = line
  BY DEF LinesUpTo
<1> HIDE DEF line
<1> QED BY <1>3, <1>4, <1>5

LEMMA LinesMore ==
  ASSUME NEW bytes \in Seq(Byte), NEW n \in 1..Len(bytes), Begun(bytes, n - 1) \in 1..n
  PROVE  /\ n \notin Ends(bytes) =>
              /\ LinesUpTo(bytes, n) = LinesUpTo(bytes, n - 1) /\ Begun(bytes, n) = Begun(bytes, n - 1)
              /\ CurrentUpTo(bytes, n) =
                   IF n \in Shown(bytes) /\ bytes[n] \notin Control
                   THEN Append(CurrentUpTo(bytes, n - 1), bytes[n]) ELSE CurrentUpTo(bytes, n - 1)
         /\ n \in Ends(bytes) =>
              /\ LinesUpTo(bytes, n) = Append(LinesUpTo(bytes, n - 1), CurrentUpTo(bytes, n - 1))
              /\ Begun(bytes, n) = n + 1 /\ CurrentUpTo(bytes, n) = <<>>
<1> DEFINE N    == Len(bytes)
           ends == EndsUpTo(bytes, n - 1)
           now  == EndsUpTo(bytes, n)
           K    == Len(ends)
           from == Begun(bytes, n - 1)
           rest == LineWithin(bytes, from, N)
<1>1. /\ N \in Nat /\ n \in Nat /\ n - 1 \in 0..N /\ n \in 0..N
      /\ \A i \in 1..N : bytes[i] \in Byte
  BY LenProperties, ElementOfSeq
<1>2. /\ ends \in Seq(1..N) /\ now \in Seq(1..N) /\ K \in Nat
      /\ now = IF n \in Ends(bytes) THEN Append(ends, n) ELSE ends
  BY <1>1, EndsMore, LenProperties
<1>3. \A P : PickedUpTo(bytes, P)[n] = IF n \in P THEN Append(PickedUpTo(bytes, P)[n - 1], bytes[n])
                                       ELSE PickedUpTo(bytes, P)[n - 1]
  BY <1>1, PickedDefined
<1>4. CASE n \notin Ends(bytes)
  <2>1. now = ends
    BY <1>2, <1>4
  <2>2. LinesUpTo(bytes, n) = LinesUpTo(bytes, n - 1) /\ Begun(bytes, n) = from
    BY <2>1 DEF LinesUpTo, Begun
  <2>3. n \in rest <=> n \in Shown(bytes) /\ bytes[n] \notin Control
    <3>1. n \in from..N
      BY <1>1
    <3> HIDE DEF from, N
    <3> QED BY <3>1 DEF LineWithin
  <2>4. CurrentUpTo(bytes, n) = PickedUpTo(bytes, rest)[n] /\ CurrentUpTo(bytes, n - 1) = PickedUpTo(bytes, rest)[n - 1]
    BY <2>2 DEF CurrentUpTo
  <2> HIDE DEF rest, from
  <2>5. CurrentUpTo(bytes, n) = IF n \in rest THEN Append(CurrentUpTo(bytes, n - 1), bytes[n])
                                ELSE CurrentUpTo(bytes, n - 1)
    BY <1>3, <2>4
  <2> QED BY <1>4, <2>2, <2>3, <2>5 DEF from
<1>5. CASE n \in Ends(bytes)
  <2>1. /\ now = Append(ends, n) /\ Len(now) = K + 1 /\ now[K + 1] = n
        /\ \A k \in 1..K : now[k] = ends[k]
    <3>1. now = Append(ends, n)
      BY <1>2, <1>5
    <3> HIDE DEF ends, now, N
    <3> QED BY <1>2, <3>1, AppendProperties
  <2>2. from = LineFrom(ends, K + 1)
    BY DEF Begun
  <2>3. bytes[n] \in Control
    BY <1>5 DEF Ends, Control
  <2>4. Begun(bytes, n) = n + 1
    <3>1. Begun(bytes, n) = LineFrom(now, Len(now) + 1)
      BY DEF Begun
    <3>2. Len(now) + 1 # 1 /\ (Len(now) + 1) - 1 = K + 1
      BY <1>2, <2>1
    <3> HIDE DEF now, K
    <3> QED BY <2>1, <3>1, <3>2 DEF LineFrom
  <2>5. CurrentUpTo(bytes, n) = <<>>
    <3> DEFINE later == LineWithin(bytes, n + 1, N)
    <3>1. \A i \in 1..n : i \notin later
      BY <1>1 DEF LineWithin
    <3>2. CurrentUpTo(bytes, n) = PickedUpTo(bytes, later)[n]
      BY <2>4 DEF CurrentUpTo
    <3> HIDE DEF later
    <3> QED BY <1>1, <3>1, <3>2, PickedLater
  <2>6. Picked(bytes, LineWithin(bytes, from, n)) = CurrentUpTo(bytes, n - 1)
    <3> DEFINE part == LineWithin(bytes, from, n)
    <3>1. \A i \in 1..(n - 1) : i \in part <=> i \in rest
      <4>1. \A i \in 1..(n - 1) : i \in from..n <=> i \in from..N
        BY <1>1
      <4> HIDE DEF from, N
      <4> QED BY <4>1 DEF LineWithin
    <3>2. \A i \in n..N : i \notin part
      <4>1. \A i \in n..N : i \in from..n => i = n
        BY <1>1
      <4> HIDE DEF from, N
      <4> QED BY <2>3, <4>1 DEF LineWithin
    <3>3. CurrentUpTo(bytes, n - 1) = PickedUpTo(bytes, rest)[n - 1]
      BY DEF CurrentUpTo
    <3> HIDE DEF part, rest
    <3> QED BY <3>1, <3>2, <3>3, PickedBefore DEF part
  <2>7. \A k \in 1..K : LineFrom(now, k) = LineFrom(ends, k)
    <3> SUFFICES ASSUME NEW k \in 1..K PROVE LineFrom(now, k) = LineFrom(ends, k)
      OBVIOUS
    <3>1. k = 1 \/ (k # 1 /\ k - 1 \in 1..K)
      BY <1>2
    <3> HIDE DEF now, ends, K
    <3> QED BY <2>1, <3>1 DEF LineFrom
  <2>8. LineFrom(now, K + 1) = LineFrom(ends, K + 1)
    <3>1. K + 1 = 1 \/ (K + 1 # 1 /\ (K + 1) - 1 \in 1..K)
      BY <1>2
    <3> HIDE DEF now, ends, K
    <3> QED BY <2>1, <3>1 DEF LineFrom
  <2> DEFINE old == LinesUpTo(bytes, n - 1)
             new == LinesUpTo(bytes, n)
             cur == CurrentUpTo(bytes, n - 1)
             more == Append(old, cur)
             R == Seq(Byte)
  <2>9. /\ old \in Seq(R) /\ Len(old) = K
        /\ \A k \in 1..K : old[k] = Picked(bytes, LineWithin(bytes, LineFrom(ends, k), ends[k]))
    BY <1>1, LinesAre
  <2>10. /\ new \in Seq(R) /\ Len(new) = K + 1
         /\ \A k \in 1..(K + 1) : new[k] = Picked(bytes, LineWithin(bytes, LineFrom(now, k), now[k]))
    <3>1. /\ new \in Seq(R) /\ Len(new) = Len(now)
          /\ \A k \in 1..Len(now) : new[k] = Picked(bytes, LineWithin(bytes, LineFrom(now, k), now[k]))
      BY <1>1, LinesAre
    <3> HIDE DEF new, now, K, R
    <3> QED BY <2>1, <3>1
  <2>11. cur \in R
    BY <1>1, PickedDefined DEF CurrentUpTo
  <2> HIDE DEF old, new, cur, R
  <2>12. /\ more \in Seq(R) /\ Len(more) = K + 1 /\ more[K + 1] = cur
         /\ \A k \in 1..K : more[k] = old[k]
    <3>1. /\ more \in Seq(R) /\ Len(more) = Len(old) + 1 /\ more[Len(old) + 1] = cur
          /\ \A k \in 1..Len(old) : more[k] = old[k]
      BY <2>9, <2>11, AppendProperties
    <3> HIDE DEF more, K
    <3> QED BY <2>9, <3>1
  <2> HIDE DEF more, from, now, ends, K
  <2>13. ASSUME NEW k \in 1..(K + 1)
         PROVE  new[k] = more[k]
    <3>1. CASE k = K + 1
      BY <2>1, <2>2, <2>6, <2>8, <2>10, <2>12, <3>1 DEF cur
    <3>2. CASE k # K + 1
      <4>1. k \in 1..K
        BY <1>2, <3>2
      <4> QED BY <2>1, <2>7, <2>9, <2>10, <2>12, <4>1
    <3> QED BY <3>1, <3>2
  <2>14. new = more
    <3>1. Len(new) = Len(more) /\ \A k \in 1..Len(new) : new[k] = more[k]
      BY <2>10, <2>12, <2>13
    <3> QED BY <2>10, <2>12, <3>1, SeqEqual
  <2> QED BY <1>5, <2>4, <2>5, <2>14 DEF new, more, old, cur
<1> QED BY <1>4, <1>5

(* The history after the first n bytes.                                    *)
Tails(bytes, n, h, max) ==
  /\ h.lines = Last(LinesUpTo(bytes, n), max)
  /\ h.current_line = CurrentUpTo(bytes, n)
  /\ Begun(bytes, n) \in 1..(n + 1)

LEMMA NoLines ==
  ASSUME NEW bytes \in Seq(Byte), NEW max \in Nat
  PROVE  Tails(bytes, 0, NewHistory(max), max)
<1>1. 0 \in 0..Len(bytes) /\ EndsUpTo(bytes, 0) = <<>>
  BY EndsMore, LenProperties
<1>2. Begun(bytes, 0) = 1
  BY <1>1 DEF Begun, LineFrom
<1>3. CurrentUpTo(bytes, 0) = <<>>
  <2>1. Len(bytes) \in Nat /\ \A i \in 1..Len(bytes) : bytes[i] \in Byte
    BY LenProperties, ElementOfSeq
  <2> QED BY <2>1, PickedDefined DEF CurrentUpTo
<1> DEFINE none == LinesUpTo(bytes, 0)
<1>4. none \in Seq(Seq(Byte)) /\ Len(none) = 0
  <2>1. none \in Seq(Seq(Byte)) /\ Len(none) = Len(EndsUpTo(bytes, 0))
    BY <1>1, LinesAre
  <2> HIDE DEF none
  <2> QED BY <1>1, <2>1, EmptySeq
<1> HIDE DEF none
<1>5. Last(none, max) = <<>>
  <2>1. Last(none, max) \in Seq(Seq(Byte)) /\ Len(Last(none, max)) = Fewer(Len(none), max)
    BY <1>4, LastIs
  <2>2. Fewer(0, max) = 0
    BY DEF Fewer
  <2> QED BY <1>4, <2>1, <2>2, EmptySeq
<1> QED BY <1>2, <1>3, <1>5 DEF Tails, NewHistory, none

LEMMA TailsMore ==
  ASSUME NEW bytes \in Seq(Byte), NEW n \in 1..Len(bytes), NEW max \in Nat, NEW h \in Histories(max),
         Stands(bytes, n - 1, h.escape_state), Tails(bytes, n - 1, h, max)
  PROVE  Tails(bytes, n, HistoryFeed(h, bytes[n]), max)
<1> DEFINE byte  == bytes[n]
           next  == HistoryFeed(h, byte)
           lines == LinesUpTo(bytes, n - 1)
           cur   == CurrentUpTo(bytes, n - 1)
<1>1. /\ n \in Nat /\ n - 1 \in Nat /\ n - 1 \in 0..Len(bytes) /\ (n - 1) + 1 = n
      /\ byte \in Byte /\ h.escape_state \in EscapeState
  BY LenProperties, ElementOfSeq, HistoryFields
<1>2. h.lines = Last(lines, max) /\ h.current_line = cur /\ Begun(bytes, n - 1) \in 1..n
  BY <1>1 DEF Tails
<1>3. n \in Shown(bytes) <=> h.escape_state = "Ground" /\ byte # ESC
  <2>1. InEscape(bytes, (n - 1) + 1) <=> h.escape_state # "Ground" \/ bytes[(n - 1) + 1] = ESC
    BY <1>1, ShownStands
  <2> QED BY <1>1, <2>1 DEF Shown
<1>4. lines \in Seq(Seq(Byte)) /\ cur \in Seq(Byte)
  <2>1. Len(bytes) \in Nat /\ \A i \in 1..Len(bytes) : bytes[i] \in Byte
    BY LenProperties, ElementOfSeq
  <2> QED BY <1>1, <2>1, LinesAre, PickedDefined DEF CurrentUpTo
<1>5. n \in Ends(bytes) <=> n \in Shown(bytes) /\ byte = "\n"
  BY DEF Ends
<1>6. /\ n \notin Ends(bytes) =>
           /\ LinesUpTo(bytes, n) = lines /\ Begun(bytes, n) = Begun(bytes, n - 1)
           /\ CurrentUpTo(bytes, n) =
                IF n \in Shown(bytes) /\ byte \notin Control THEN Append(cur, byte) ELSE cur
      /\ n \in Ends(bytes) =>
           /\ LinesUpTo(bytes, n) = Append(lines, cur)
           /\ Begun(bytes, n) = n + 1 /\ CurrentUpTo(bytes, n) = <<>>
  BY <1>2, LinesMore
<1>7. /\ h.escape_state = "Ground" /\ byte = "\n" =>
           /\ next.lines = Evict(Append(h.lines, h.current_line), max)
           /\ next.current_line = <<>>
      /\ h.escape_state = "Ground" /\ byte \notin Control =>
           /\ next.lines = h.lines
           /\ next.current_line = Append(h.current_line, byte)
      /\ h.escape_state # "Ground" \/ byte \in Control \ {"\n"} =>
           next.lines = h.lines /\ next.current_line = h.current_line
  BY <1>1, HistoryFeedFields
<1> HIDE DEF byte, next, lines, cur
<1>8. CASE n \in Ends(bytes)
  <2>1. next.lines = Last(Append(lines, cur), max) /\ next.current_line = <<>>
    BY <1>2, <1>3, <1>4, <1>5, <1>7, <1>8, EvictLast
  <2>2. n + 1 \in 1..(n + 1)
    BY <1>1
  <2> QED BY <1>6, <1>8, <2>1, <2>2 DEF Tails, next, byte
<1>9. CASE n \notin Ends(bytes)
  <2>1. Begun(bytes, n) \in 1..(n + 1) /\ LinesUpTo(bytes, n) = lines
    BY <1>1, <1>2, <1>6, <1>9
  <2>2. CASE n \in Shown(bytes) /\ byte \notin Control
    <3>1. next.lines = Last(lines, max) /\ next.current_line = Append(cur, byte)
      BY <1>2, <1>3, <1>7, <2>2
    <3> QED BY <1>6, <1>9, <2>1, <2>2, <3>1 DEF Tails, next, byte
  <2>3. CASE ~ (n \in Shown(bytes) /\ byte \notin Control)
    <3>1. h.escape_state # "Ground" \/ byte \in Control \ {"\n"}
      <4>1. ESC \in Control \ {"\n"}
        BY DEF ESC, Control
      <4> QED BY <1>3, <1>5, <1>9, <2>3, <4>1
    <3>2. next.lines = Last(lines, max) /\ next.current_line = cur
      BY <1>2, <1>7, <3>1
    <3> QED BY <1>6, <1>9, <2>1, <2>3, <3>2 DEF Tails, next, byte
  <2> QED BY <2>2, <2>3
<1> QED BY <1>8, <1>9

LEMMA HistoryFedTails ==
  ASSUME NEW bytes \in Seq(Byte), Regular(bytes), NEW max \in Nat
  PROVE  HistoryFeedBytes(NewHistory(max), bytes).lines = Last(LinesOf(bytes), max)
<1> DEFINE N == Len(bytes)
           P == HistoryFed(NewHistory(max), bytes)
           T == {n \in 0..N : Tails(bytes, n, P[n], max)}
<1>1. /\ N \in Nat /\ P[0] = NewHistory(max)
      /\ \A n \in 1..N : P[n] = HistoryFeed(P[n - 1], bytes[n])
      /\ \A n \in 0..N : P[n] \in Histories(max)
  BY NewHistoryTyped, HistoryFedDefined, LenProperties
<1>2. \A n \in 0..N : Stands(bytes, n, P[n].escape_state)
  BY AllStand
<1> HIDE DEF P
<1>3. 0 \in T
  BY <1>1, NoLines
<1>4. ASSUME NEW n \in 1..N, n - 1 \in T
      PROVE  n \in T
  <2>1. n - 1 \in 0..N /\ n \in 0..N
    BY <1>1
  <2>2. Tails(bytes, n, HistoryFeed(P[n - 1], bytes[n]), max)
    BY <1>1, <1>2, <1>4, <2>1, TailsMore
  <2> QED BY <1>1, <2>1, <2>2
<1>5. N \in T
  <2> HIDE DEF T
  <2>1. \A n \in 0..N : n \in T
    BY <1>1, <1>3, <1>4, InductionUpTo
  <2> QED BY <1>1, <2>1
<1>6. P[N].lines = Last(LinesUpTo(bytes, N), max)
  BY <1>5 DEF Tails
<1> QED BY <1>6, LinesOfIs DEF P, HistoryFeedBytes

(* The history holds the last lines of what has been read, stripped of the *)
(* escape sequences, however the output is cut, as long as no ESC follows  *)
(* on an ESC or is within a sequence that begins with ESC [.               *)
THEOREM RegularHistory == Spec => [](Regular(seen) => HistoryIsTail)
<1>1. TypeInv /\ FedInv => (Regular(seen) => HistoryIsTail)
  BY HistoryFedTails, TerminalAssumption DEF TypeInv, FedInv, HistoryIsTail
<1>2. Init => TypeInv /\ FedInv
  BY InitTyped, FedStays
<1>3. TypeInv /\ FedInv /\ [Next]_vars => TypeInv' /\ FedInv'
  BY NextTyped, FedStays
<1> QED BY <1>1, <1>2, <1>3, PTL DEF Spec

(* An output that is regular, and leaves no such sequence to what follows. *)
Closed(bytes) == Regular(bytes) /\ Clear(bytes, Len(bytes))

LEMMA ClearConcat ==
  ASSUME NEW s \in Seq(Byte), NEW t \in Seq(Byte)
  PROVE  /\ \A n \in 0..Len(s) : Clear(s, n) <=> Clear(s \o t, n)
         /\ Clear(s, Len(s)) => \A n \in 0..Len(t) : Clear(t, n) => Clear(s \o t, Len(s) + n)
<1> DEFINE both == s \o t
           M == Len(s)
           N == Len(t)
<1>1. M \in Nat /\ N \in Nat
  BY LenProperties
<1>2. (\A i \in 1..M : both[i] = s[i]) /\ (\A j \in 1..N : both[M + j] = t[j])
  <2>1. \A i \in 1..(Len(s) + Len(t)) : both[i] = IF i <= Len(s) THEN s[i] ELSE t[i - Len(s)]
    BY ConcatProperties
  <2>2. /\ \A i \in 1..M : i \in 1..(M + N) /\ i <= M
        /\ \A j \in 1..N : M + j \in 1..(M + N) /\ ~ (M + j <= M) /\ (M + j) - M = j
    BY <1>1
  <2> HIDE DEF both
  <2> QED BY <2>1, <2>2
<1> HIDE DEF both, M, N
<1>3. ASSUME NEW n \in 0..M
      PROVE  Clear(s, n) <=> Clear(both, n)
  <2>1. n >= 1 => both[n] = s[n]
    BY <1>1, <1>2
  <2>2. ASSUME NEW b \in 1..n
        PROVE  CsiOpen(s, b, n) <=> CsiOpen(both, b, n)
    <3>1. CASE b < n
      <4>1. b \in 1..M /\ b + 1 \in 1..M /\ \A k \in (b + 2)..n : k \in 1..M
        BY <1>1, <3>1
      <4>2. both[b] = s[b] /\ both[b + 1] = s[b + 1] /\ \A k \in (b + 2)..n : both[k] = s[k]
        BY <1>2, <4>1
      <4> QED BY <4>2 DEF CsiOpen
    <3>2. CASE ~ (b < n)
      BY <3>2 DEF CsiOpen
    <3> QED BY <3>1, <3>2
  <2> QED BY <2>1, <2>2 DEF Clear
<1>4. ASSUME Clear(s, M), NEW n \in 0..N, Clear(t, n)
      PROVE  Clear(both, M + n)
  <2>1. ASSUME M + n >= 1
        PROVE  both[M + n] # ESC
    <3>1. CASE n = 0
      <4>1. M + n = M /\ M \in 1..M /\ M >= 1
        BY <1>1, <2>1, <3>1
      <4> QED BY <1>2, <1>4, <4>1 DEF Clear
    <3>2. CASE n # 0
      <4>1. n \in 1..N /\ n >= 1
        BY <1>1, <3>2
      <4> QED BY <1>2, <1>4, <4>1 DEF Clear
    <3> QED BY <3>1, <3>2
  <2>2. ASSUME NEW b \in 1..(M + n), CsiOpen(both, b, M + n)
        PROVE  FALSE
    <3>1. /\ b < M + n /\ both[b] = ESC /\ both[b + 1] = "["
          /\ \A k \in (b + 2)..(M + n) : ~IsCsiFinal(both[k])
      BY <2>2 DEF CsiOpen
    <3>2. CASE b = M
      <4>1. M \in 1..M /\ M >= 1
        BY <1>1, <3>2
      <4> QED BY <1>2, <1>4, <3>1, <3>2, <4>1 DEF Clear
    <3>3. CASE b < M
      <4>1. /\ b \in 1..M /\ b + 1 \in 1..M
            /\ \A k \in (b + 2)..M : k \in 1..M /\ k \in (b + 2)..(M + n)
        BY <1>1, <3>3
      <4>2. s[b] = ESC /\ s[b + 1] = "[" /\ \A k \in (b + 2)..M : ~IsCsiFinal(s[k])
        BY <1>2, <3>1, <4>1
      <4>3. CsiOpen(s, b, M)
        BY <3>3, <4>2 DEF CsiOpen
      <4> QED BY <1>4, <4>1, <4>3 DEF Clear
    <3>4. CASE b > M
      <4> DEFINE c == b - M
      <4>1. /\ c \in 1..n /\ c \in 1..N /\ c + 1 \in 1..N /\ c < n /\ M + c = b /\ M + (c + 1) = b + 1
            /\ \A k \in (c + 2)..n : k \in 1..N /\ M + k \in (b + 2)..(M + n)
        BY <1>1, <3>1, <3>4
      <4> HIDE DEF c
      <4>2. both[M + c] = t[c] /\ both[M + (c + 1)] = t[c + 1]
        BY <1>2, <4>1
      <4>3. \A k \in (c + 2)..n : ~IsCsiFinal(t[k])
        <5> SUFFICES ASSUME NEW k \in (c + 2)..n PROVE ~IsCsiFinal(t[k])
          OBVIOUS
        <5>1. both[M + k] = t[k] /\ ~IsCsiFinal(both[M + k])
          BY <1>2, <3>1, <4>1
        <5> QED BY <5>1
      <4>4. CsiOpen(t, c, n)
        BY <3>1, <4>1, <4>2, <4>3 DEF CsiOpen
      <4> QED BY <1>4, <4>1, <4>4 DEF Clear
    <3> QED BY <1>1, <3>2, <3>3, <3>4
  <2> QED BY <2>1, <2>2 DEF Clear
<1> QED BY <1>3, <1>4 DEF both, M, N

LEMMA RegularConcat ==
  ASSUME NEW s \in Seq(Byte), NEW t \in Seq(Byte)
  PROVE  /\ Closed(s) /\ Closed(t) => Closed(s \o t)
         /\ Regular(s \o t) => Regular(s)
<1> DEFINE both == s \o t
           M == Len(s)
           N == Len(t)
<1>1. M \in Nat /\ N \in Nat /\ Len(both) = M + N
  BY LenProperties, ConcatProperties
<1>2. (\A i \in 1..M : both[i] = s[i]) /\ (\A j \in 1..N : both[M + j] = t[j])
  <2>1. \A i \in 1..(Len(s) + Len(t)) : both[i] = IF i <= Len(s) THEN s[i] ELSE t[i - Len(s)]
    BY ConcatProperties
  <2>2. /\ \A i \in 1..M : i \in 1..(M + N) /\ i <= M
        /\ \A j \in 1..N : M + j \in 1..(M + N) /\ ~ (M + j <= M) /\ (M + j) - M = j
    BY <1>1
  <2> HIDE DEF both
  <2> QED BY <2>1, <2>2
<1>3. /\ \A n \in 0..M : Clear(s, n) <=> Clear(both, n)
      /\ Clear(s, M) => \A n \in 0..N : Clear(t, n) => Clear(both, M + n)
  BY ClearConcat
<1> HIDE DEF both
<1>4. ASSUME Regular(both)
      PROVE  Regular(s)
  <2>1. \A i \in 1..M : i \in 1..Len(both) /\ i - 1 \in 0..M
    <3> HIDE DEF M, N
    <3> QED BY <1>1
  <2> QED BY <1>2, <1>3, <1>4, <2>1 DEF Regular
<1>5. ASSUME Closed(s), Closed(t)
      PROVE  Closed(both)
  <2>1. Clear(both, Len(both))
    <3>1. N \in 0..N
      BY <1>1
    <3> QED BY <1>1, <1>3, <1>5, <3>1 DEF Closed
  <2>2. ASSUME NEW i \in 1..Len(both), both[i] = ESC
        PROVE  Clear(both, i - 1)
    <3>1. CASE i <= M
      <4>1. i \in 1..M /\ i - 1 \in 0..M
        BY <1>1, <3>1
      <4> QED BY <1>2, <1>3, <1>5, <2>2, <4>1 DEF Closed, Regular
    <3>2. CASE ~ (i <= M)
      <4> DEFINE j == i - M
      <4>1. j \in 1..N /\ j - 1 \in 0..N /\ M + j = i /\ M + (j - 1) = i - 1
        <5> HIDE DEF M, N
        <5> QED BY <1>1, <3>2
      <4> HIDE DEF j
      <4>2. t[j] = ESC
        BY <1>2, <2>2, <4>1
      <4>3. Clear(t, j - 1) /\ Clear(s, M)
        BY <1>5, <4>1, <4>2 DEF Closed, Regular
      <4>4. Clear(both, M + (j - 1))
        BY <1>3, <4>1, <4>3
      <4> QED BY <4>1, <4>4
    <3> QED BY <3>1, <3>2
  <2> QED BY <2>1, <2>2 DEF Closed, Regular
<1> QED BY <1>4, <1>5 DEF both

LEMMA NoEscapeClosed ==
  ASSUME NEW byte, byte # ESC
  PROVE  Closed(<<byte>>) /\ Closed(<<>>)
<1>1. /\ Len(<<byte>>) = 1 /\ Len(<<>>) = 0
      /\ \A i \in 1..1 : <<byte>>[i] # ESC
      /\ \A b \in 1..1 : ~CsiOpen(<<byte>>, b, 1)
  BY DEF CsiOpen
<1> QED BY <1>1 DEF Closed, Regular, Clear

LEMMA MarkersClosed ==
  ASSUME NEW m \in ShellMarkers
  PROVE  Closed(m)
<1>1. \A j \in 1..Len(m) : m[j] = ESC => j = 1
  BY InMarkers
<1>2. m[2] = "]"
  BY ShellMarkersAre
<1>3. Len(m) = 6 \/ Len(m) = 8
  BY ShellMarkersAre
<1>4. \A n \in 1..Len(m) : \A b \in 1..n : ~CsiOpen(m, b, n)
  <2> SUFFICES ASSUME NEW n \in 1..Len(m), NEW b \in 1..n, CsiOpen(m, b, n) PROVE FALSE
    OBVIOUS
  <2>1. b < n /\ m[b] = ESC /\ m[b + 1] = "["
    BY DEF CsiOpen
  <2>2. b \in 1..Len(m)
    OBVIOUS
  <2>3. b = 1 /\ 1 + 1 = 2
    BY <1>1, <2>1, <2>2
  <2> QED BY <1>2, <2>1, <2>3
<1> DEFINE size == Len(m)
<1>5. /\ size \in Nat /\ size >= 1 /\ size # 1 /\ size \in 1..size
      /\ \A i \in 1..size : i = 1 => i - 1 = 0
  <2>1. size = 6 \/ size = 8
    BY <1>3
  <2> HIDE DEF size
  <2> QED BY <2>1
<1> HIDE DEF size
<1>6. Clear(m, size)
  <2>1. m[size] # ESC
    BY <1>1, <1>5 DEF size
  <2>2. \A b \in 1..size : ~CsiOpen(m, b, size)
    BY <1>4, <1>5 DEF size
  <2> QED BY <2>1, <2>2 DEF Clear
<1>7. Clear(m, 0)
  BY DEF Clear
<1>8. \A i \in 1..Len(m) : m[i] = ESC => Clear(m, i - 1)
  BY <1>1, <1>5, <1>7 DEF size
<1> QED BY <1>6, <1>8 DEF Closed, Regular, size

(* Commands print no ESC right after an ESC or within a sequence that      *)
(* begins with ESC [, and no part of one only.                             *)
OutputsClosed == \A bytes \in Outputs : Closed(bytes)

LEMMA PrintsClosed == OutputsClosed => \A bytes \in ShellPrints \cup Outputs : Closed(bytes)
<1>1. \A key \in TtyKey : Closed(<<key>>)
  <2>1. \A key \in TtyKey : key # ESC
    BY DEF TtyKey, Key, NEWLINE, CTRL_U, ESC
  <2> QED BY <2>1, NoEscapeClosed
<1>2. Closed(<<"\n">>) /\ Closed(<<"$">>)
  BY NoEscapeClosed DEF ESC
<1>3. \A code \in {0, 1} : Closed(MarkerD(code))
  BY MarkersClosed DEF ShellMarkers
<1>4. Closed(Marker("A")) /\ Closed(Marker("B")) /\ Closed(Marker("C"))
  BY MarkersClosed DEF ShellMarkers
<1>5. /\ Marker("A") \in Seq(Byte) /\ Marker("B") \in Seq(Byte) /\ Marker("C") \in Seq(Byte)
      /\ <<"\n">> \in Seq(Byte) /\ <<"$">> \in Seq(Byte)
  <2>1. "$" \in Byte
    BY BytesAre DEF ShellByte
  <2> QED BY <2>1, ShellPrintsBytes DEF MarkKind
<1>6. Closed(<<"\n">> \o Marker("C"))
  BY <1>2, <1>4, <1>5, RegularConcat
<1>7. Closed(Marker("A") \o <<"$">>) /\ Marker("A") \o <<"$">> \in Seq(Byte)
  BY <1>2, <1>4, <1>5, RegularConcat, ConcatProperties
<1>8. Closed((Marker("A") \o <<"$">>) \o Marker("B"))
  BY <1>4, <1>5, <1>7, RegularConcat
<1> QED BY <1>1, <1>2, <1>3, <1>6, <1>8 DEF ShellPrints, OutputsClosed

ClosedInv == Closed(seen \o wire)

LEMMA ClosedStays ==
  ASSUME OutputsClosed
  PROVE  /\ Init => ClosedInv
         /\ TypeInv /\ ClosedInv /\ [Next]_vars => ClosedInv'
<1>1. ASSUME Init PROVE ClosedInv
  <2>1. seen \o wire = <<>>
    BY <1>1, ConcatEmptySeq, EmptySeq DEF Init
  <2>2. "$" # ESC
    BY DEF ESC
  <2> QED BY <2>1, <2>2, NoEscapeClosed DEF ClosedInv
<1>2. ASSUME TypeInv, ClosedInv, [Next]_vars
      PROVE  ClosedInv'
  <2> DEFINE both == seen \o wire
  <2>1. both \in Seq(Byte) /\ Closed(both)
    BY <1>2, ConcatProperties DEF TypeInv, ClosedInv
  <2>2. \A bytes \in ShellPrints \cup Outputs : Closed(both \o bytes)
    <3> HIDE DEF both
    <3> QED BY <2>1, PrintsAre, PrintsClosed, RegularConcat
  <2>3. Closed(seen' \o wire')
    BY <1>2, <2>1, <2>2, OutputGrows
  <2> QED BY <2>3 DEF ClosedInv
<1> QED BY <1>1, <1>2

(* So it is with commands that only print whole sequences, whatever they   *)
(* print besides, a title of a window that is not ended included.          *)
THEOREM HistoryTail ==
  ASSUME OutputsClosed
  PROVE  Spec => []HistoryIsTail
<1>1. TypeInv /\ ClosedInv => Regular(seen)
  BY RegularConcat DEF TypeInv, ClosedInv, Closed
<1>2. Init => TypeInv /\ ClosedInv
  BY InitTyped, ClosedStays
<1>3. TypeInv /\ ClosedInv /\ [Next]_vars => TypeInv' /\ ClosedInv'
  BY NextTyped, ClosedStays
<1>4. Spec => []Regular(seen)
  BY <1>1, <1>2, <1>3, PTL DEF Spec
<1> QED BY <1>4, RegularHistory, PTL

(***************************************************************************)
(* The user's commands.  Between the key and the journal a command is in   *)
(* one of four places: nowhere, on its way to the shell, running, or ended *)
(* with its D on its way.  In the last two what has been read of its       *)
(* output is in the capture, and the marks that are on their way are its C *)
(* and its D, and those of the prompt, each at its place.                  *)
(***************************************************************************)

(* A sequence's part, with one more, and of its tail.                      *)
LEMMA SubSeqMore ==
  ASSUME NEW S, NEW s \in Seq(S), NEW m \in 1..Len(s), NEW n \in (m - 1)..(Len(s) - 1)
  PROVE  /\ SubSeq(s, m, n) \in Seq(S)
         /\ SubSeq(s, m, n + 1) = Append(SubSeq(s, m, n), s[n + 1])
<1> DEFINE N == Len(s)
<1>1. N \in Nat /\ m \in Int /\ n \in Int /\ 1 <= m /\ m <= n + 1 /\ n + 1 <= N
  BY LenProperties
<1>2. \A i \in m..n : i \in 1..N
  BY <1>1
<1>3. SubSeq(s, m, n) \in Seq(S)
  <2>1. \A i \in m..n : s[i] \in S
    BY <1>2, ElementOfSeq
  <2> QED BY <1>1, <2>1, SubSeqProperties
<1> DEFINE next == n + 1
<1>4. next \in m..N /\ next - 1 = n /\ next \in 1..N
  <2> HIDE DEF N
  <2> QED BY <1>1
<1>5. s[next] \in S
  BY <1>4, ElementOfSeq
<1> HIDE DEF next
<1>6. SubSeq(s, m, next) = SubSeq(s, m, n) \o <<s[next]>>
  BY <1>4, SubSeqRecursiveSecond
<1>7. SubSeq(s, m, next) = Append(SubSeq(s, m, n), s[next])
  BY <1>3, <1>5, <1>6, AppendIsConcat
<1> QED BY <1>3, <1>7 DEF next

LEMMA SubSeqOfTail ==
  ASSUME NEW S, NEW s \in Seq(S), s # <<>>, NEW m \in 1..Len(s), NEW n \in 1..Len(s)
  PROVE  SubSeq(s, m + 1, n) = SubSeq(Tail(s), m, n - 1)
<1> DEFINE N == Len(s)
<1>1. N \in Nat \ {0} /\ m \in Int /\ n \in Int /\ 1 <= m /\ m <= N /\ 1 <= n /\ n <= N
  BY LenProperties, EmptySeq
<1>2. CASE m + 1 > n
  <2>1. n < m + 1 /\ n - 1 < m /\ m + 1 \in Int /\ n - 1 \in Int
    BY <1>1, <1>2
  <2>2. SubSeq(s, m + 1, n) = <<>>
    BY <1>1, <2>1, SubSeqEmpty
  <2>3. SubSeq(Tail(s), m, n - 1) = <<>>
    BY <1>1, <2>1, SubSeqEmpty
  <2> QED BY <2>2, <2>3
<1>3. CASE ~ (m + 1 > n)
  <2> DEFINE k == n - 1
  <2>1. /\ 2 \in 1..N /\ N \in 1..N /\ m \in 1..(N - 2 + 1) /\ k \in 1..(N - 2 + 1)
        /\ 2 + m - 1 = m + 1 /\ 2 + k - 1 = n
    <3> HIDE DEF N
    <3> QED BY <1>1, <1>3
  <2>2. Tail(s) = SubSeq(s, 2, N)
    BY TailIsSubSeq
  <2> HIDE DEF k
  <2>3. SubSeq(SubSeq(s, 2, N), m, k) = SubSeq(s, 2 + m - 1, 2 + k - 1)
    BY <2>1, SubSeqOfSubSeq
  <2> QED BY <2>1, <2>2, <2>3 DEF k
<1> QED BY <1>2, <1>3

(* The line after the first n of the keys, at first line.                  *)
Holds(line, keys, n, held) ==
  \/ (\A i \in 1..n : keys[i] # CTRL_U) /\ held = line \o SubSeq(keys, 1, n)
  \/ \E u \in 1..n :
       /\ keys[u] = CTRL_U /\ \A i \in (u + 1)..n : keys[i] # CTRL_U
       /\ held = SubSeq(keys, u + 1, n)

(* With no key, the line as it is; with one more, what that makes of it.   *)
LEMMA HoldsNothing ==
  ASSUME NEW line \in Seq(TtyKey), NEW keys, NEW held
  PROVE  Holds(line, keys, 0, held) <=> held = line
<1>1. SubSeq(keys, 1, 0) = <<>>
  BY SubSeqEmpty
<1>2. line \o <<>> = line
  BY ConcatEmptySeq
<1> QED BY <1>1, <1>2 DEF Holds

(* One key more is typed.                                                  *)
KeyHeld(line, key) == IF key = CTRL_U THEN <<>> ELSE Append(line, key)

LEMMA HoldsMore ==
  ASSUME NEW line \in Seq(TtyKey), NEW keys \in Seq(TtyKey), NEW n \in 0..(Len(keys) - 1), NEW held,
         Holds(line, keys, n, held)
  PROVE  Holds(line, keys, n + 1, KeyHeld(held, keys[n + 1]))
<1> DEFINE N == Len(keys)
           next == n + 1
<1>1. N \in Nat /\ n \in Int /\ 0 <= n /\ n + 1 <= N
  BY LenProperties
<1>2. /\ next \in 1..N /\ next \in 1..next /\ 1 \in 1..N /\ n \in (1 - 1)..(N - 1)
      /\ \A i \in 1..next : i \in 1..n \/ i = next
      /\ \A u \in 1..n : u + 1 \in 1..N /\ n \in ((u + 1) - 1)..(N - 1) /\ u \in 1..next
      /\ \A u \in 1..n : \A i \in (u + 1)..next : i \in (u + 1)..n \/ i = next
      /\ \A i \in (next + 1)..next : FALSE
  <2> HIDE DEF N
  <2> QED BY <1>1
<1>3. CASE keys[next] = CTRL_U
  <2>1. SubSeq(keys, next + 1, next) = <<>>
    BY <1>1, SubSeqEmpty
  <2> HIDE DEF next, N
  <2>2. Holds(line, keys, next, <<>>)
    BY <1>2, <1>3, <2>1 DEF Holds
  <2> QED BY <1>3, <2>2 DEF KeyHeld, next
<1>4. ASSUME keys[next] # CTRL_U, \A i \in 1..n : keys[i] # CTRL_U, held = line \o SubSeq(keys, 1, n)
      PROVE  Holds(line, keys, next, KeyHeld(held, keys[next]))
  <2> DEFINE some == SubSeq(keys, 1, n)
  <2>1. some \in Seq(TtyKey) /\ SubSeq(keys, 1, next) = Append(some, keys[next])
    BY <1>2, SubSeqMore
  <2>2. keys[next] \in TtyKey
    BY <1>2, ElementOfSeq
  <2> HIDE DEF some, next, N
  <2>3. Append(held, keys[next]) = line \o Append(some, keys[next])
    <3>1. line \o Append(some, keys[next]) = Append(line \o some, keys[next])
      BY <2>1, <2>2, ConcatAppend, SMTT(40)
    <3>2. held = line \o some
      BY <1>4 DEF some
    <3> QED BY <3>1, <3>2
  <2>4. KeyHeld(held, keys[next]) = line \o SubSeq(keys, 1, next)
    BY <1>4, <2>1, <2>3 DEF KeyHeld
  <2>5. \A i \in 1..next : keys[i] # CTRL_U
    BY <1>2, <1>4
  <2> QED BY <2>4, <2>5 DEF Holds
<1>5. ASSUME keys[next] # CTRL_U, NEW u \in 1..n, keys[u] = CTRL_U, \A i \in (u + 1)..n : keys[i] # CTRL_U,
             held = SubSeq(keys, u + 1, n)
      PROVE  Holds(line, keys, next, KeyHeld(held, keys[next]))
  <2> DEFINE from == u + 1
  <2>1. from \in 1..N /\ n \in (from - 1)..(N - 1) /\ u \in 1..next
    BY <1>2
  <2> HIDE DEF from
  <2>2. SubSeq(keys, from, n + 1) = Append(SubSeq(keys, from, n), keys[n + 1])
    BY <2>1, SubSeqMore
  <2>3. KeyHeld(held, keys[next]) = SubSeq(keys, u + 1, next)
    BY <1>5, <2>2 DEF KeyHeld, from
  <2> HIDE DEF next, N
  <2>4. \A i \in (u + 1)..next : keys[i] # CTRL_U
    BY <1>2, <1>5
  <2> QED BY <1>5, <2>1, <2>3, <2>4 DEF Holds
<1> QED BY <1>3, <1>4, <1>5 DEF Holds

(* The first key is read.                                                  *)
LEMMA HoldsRead ==
  ASSUME NEW line \in Seq(TtyKey), NEW keys \in Seq(TtyKey), keys # <<>>, NEW n \in 1..Len(keys), NEW held,
         Holds(line, keys, n, held)
  PROVE  Holds(KeyHeld(line, Head(keys)), Tail(keys), n - 1, held)
<1> DEFINE N == Len(keys)
           key == keys[1]
           rest == Tail(keys)
           k == n - 1
<1>1. N \in Nat \ {0} /\ n \in Int /\ 1 <= n /\ n <= N /\ 1 \in 1..N
  BY LenProperties, EmptySeq
<1>2. Head(keys) = key /\ key \in TtyKey /\ rest \in Seq(TtyKey) /\ Len(rest) = N - 1
  BY <1>1, HeadTailProperties, ElementOfSeq
<1>3. \A i \in 1..(N - 1) : rest[i] = keys[i + 1]
  BY HeadTailProperties
<1>4. \A m \in 1..N : SubSeq(keys, m + 1, n) = SubSeq(rest, m, k)
  BY SubSeqOfTail
<1>5. /\ \A i \in 1..k : i + 1 \in 1..n /\ i \in 1..(N - 1)
      /\ \A u \in 1..n : u # 1 => /\ u - 1 \in 1..k /\ u - 1 \in 1..(N - 1) /\ u \in 1..N /\ (u - 1) + 1 = u
                                  /\ \A i \in ((u - 1) + 1)..k : i + 1 \in (u + 1)..n /\ i \in 1..(N - 1)
      /\ \A i \in 1..k : i + 1 \in (1 + 1)..n
  <2> HIDE DEF N
  <2> QED BY <1>1
<1> HIDE DEF N, rest, key, k
<1>6. ASSUME \A i \in 1..n : keys[i] # CTRL_U, held = line \o SubSeq(keys, 1, n)
      PROVE  Holds(KeyHeld(line, key), rest, k, held)
  <2> DEFINE tail == SubSeq(rest, 1, k)
  <2>1. SubSeq(keys, 1, n) = <<key>> \o tail
    <3>1. SubSeq(keys, 1, n) = <<keys[1]>> \o SubSeq(keys, 1 + 1, n)
      BY <1>1, SubSeqRecursiveFirst DEF N
    <3> QED BY <1>1, <1>4, <3>1 DEF key
  <2>2. tail \in Seq(TtyKey)
    <3>1. \A i \in 1..k : rest[i] \in TtyKey
      BY <1>2, <1>5, ElementOfSeq
    <3>2. k \in Int
      BY <1>1 DEF k
    <3> QED BY <3>1, <3>2, SubSeqProperties
  <2> HIDE DEF tail
  <2>3. <<key>> \in Seq(TtyKey) /\ line \o <<key>> = Append(line, key)
    BY <1>2, AppendIsConcat
  <2>4. line \o (<<key>> \o tail) = (line \o <<key>>) \o tail
    BY <2>2, <2>3, ConcatAssociative, SMTT(40)
  <2>5. key # CTRL_U
    <3>1. 1 \in 1..n
      BY <1>1
    <3> QED BY <1>6, <3>1 DEF key
  <2>6. held = KeyHeld(line, key) \o tail
    BY <1>6, <2>1, <2>3, <2>4, <2>5 DEF KeyHeld
  <2>7. \A i \in 1..k : rest[i] # CTRL_U
    BY <1>3, <1>5, <1>6
  <2> QED BY <2>6, <2>7 DEF Holds, tail
<1>7. ASSUME NEW u \in 1..n, keys[u] = CTRL_U, \A i \in (u + 1)..n : keys[i] # CTRL_U,
             held = SubSeq(keys, u + 1, n)
      PROVE  Holds(KeyHeld(line, key), rest, k, held)
  <2>1. CASE u = 1
    <3>1. held = SubSeq(rest, 1, k)
      BY <1>1, <1>4, <1>7, <2>1
    <3>2. KeyHeld(line, key) = <<>>
      BY <1>7, <2>1 DEF KeyHeld, key
    <3>3. SubSeq(rest, 1, k) \in Seq(TtyKey)
      <4>1. \A i \in 1..k : rest[i] \in TtyKey
        BY <1>2, <1>5, ElementOfSeq
      <4>2. k \in Int
        BY <1>1 DEF k
      <4> QED BY <4>1, <4>2, SubSeqProperties
    <3>4. held = KeyHeld(line, key) \o SubSeq(rest, 1, k)
      BY <3>1, <3>2, <3>3, ConcatEmptySeq
    <3>5. \A i \in 1..k : rest[i] # CTRL_U
      BY <1>3, <1>5, <1>7, <2>1
    <3> QED BY <3>4, <3>5 DEF Holds
  <2>2. CASE u # 1
    <3> DEFINE w == u - 1
    <3>1. /\ w \in 1..k /\ w \in 1..(N - 1) /\ u \in 1..N /\ w + 1 = u
          /\ \A i \in (w + 1)..k : i + 1 \in (u + 1)..n /\ i \in 1..(N - 1)
      BY <1>5, <2>2
    <3> HIDE DEF w
    <3>2. rest[w] = CTRL_U
      BY <1>3, <1>7, <3>1
    <3>3. \A i \in (w + 1)..k : rest[i] # CTRL_U
      BY <1>3, <1>7, <3>1
    <3>4. held = SubSeq(rest, w + 1, k)
      BY <1>4, <1>7, <3>1
    <3> QED BY <3>1, <3>2, <3>3, <3>4 DEF Holds
  <2> QED BY <2>1, <2>2
<1> QED BY <1>2, <1>6, <1>7 DEF Holds, key, rest, k

(* No marks are made where no byte makes one.                              *)
LEMMA NoMarks ==
  ASSUME NEW p \in OscParsers, NEW t \in Seq(Byte), NEW last \in 0..Len(t),
         \A n \in 1..last : MarkAt(OscFed(p, t)[n - 1].parser, t[n]) = NoMark
  PROVE  \A n \in 0..last :
           OscFed(p, t)[n].marks = <<>> /\ OscFed(p, t)[n].parser.terminal_state = p.terminal_state
<1> DEFINE P == OscFed(p, t)
           Quietly(r) == r.marks = <<>> /\ r.parser.terminal_state = p.terminal_state
           T == {n \in 0..last : Quietly(P[n])}
<1>1. /\ P[0] = [parser |-> p, marks |-> <<>>]
      /\ \A n \in 1..Len(t) : P[n] = OscFedMore(P[n - 1], t[n]) /\ t[n] \in Byte
      /\ \A n \in 0..Len(t) : P[n] \in OscFeds
  BY OscFedDefined, ElementOfSeq
<1>2. last \in Nat /\ \A n \in 1..last : n \in 1..Len(t) /\ n \in 0..last /\ n - 1 \in 0..Len(t)
  BY LenProperties
<1>3. \A n \in 1..last : MarkAt(P[n - 1].parser, t[n]) = NoMark
  OBVIOUS
<1> HIDE DEF P
<1>4. 0 \in T
  BY <1>1, <1>2
<1>5. ASSUME NEW n \in 1..last, n - 1 \in T
      PROVE  n \in T
  <2> DEFINE before == P[n - 1]
             r == before.parser
  <2>1. P[n] = OscFedMore(before, t[n]) /\ Quietly(before) /\ r \in OscParsers /\ t[n] \in Byte
    BY <1>1, <1>2, <1>5 DEF OscFeds
  <2>2. MarkAt(r, t[n]) = NoMark
    BY <1>3
  <2>3. OscFeed(r, t[n]).terminal_state = TerminalStateAfter(r.terminal_state, MarkAt(r, t[n]))
    <3>1. \A x \in OscParsers, y \in Byte :
            OscFeed(x, y).terminal_state = TerminalStateAfter(x.terminal_state, MarkAt(x, y))
      BY OscFeedFields
    <3> HIDE DEF r
    <3> QED BY <2>1, <3>1
  <2>4. TerminalStateAfter(r.terminal_state, NoMark) = r.terminal_state
    BY DEF TerminalStateAfter, NoMark
  <2>5. P[n].parser = OscFeed(r, t[n]) /\ P[n].marks = before.marks
    BY <2>1, <2>2 DEF OscFedMore
  <2> HIDE DEF before
  <2>6. Quietly(P[n])
    BY <2>1, <2>2, <2>3, <2>4, <2>5
  <2> QED BY <1>2, <2>6
<1>6. \A n \in 0..last : n \in T
  <2> HIDE DEF T
  <2> QED BY <1>2, <1>4, <1>5, InductionUpTo
<1> QED BY <1>6 DEF P

(* The parser in what follows on s.                                        *)
LEMMA FollowingOn ==
  ASSUME NEW s \in Seq(Byte), NEW t \in Seq(Byte)
  PROVE  /\ OscFeedBytes(NewOscParser, s).parser \in OscParsers
         /\ Len(s) \in Nat /\ Len(t) \in Nat /\ Len(s \o t) = Len(s) + Len(t) /\ s \o t \in Seq(Byte)
         /\ \A n \in 1..Len(s) : (s \o t)[n] = s[n]
         /\ \A n \in 1..Len(t) : Len(s) + n \in 1..Len(s \o t) /\ (s \o t)[Len(s) + n] = t[n]
         /\ \A n \in 0..Len(t) :
              OscFed(OscFeedBytes(NewOscParser, s).parser, t)[n].parser = Parsers(s \o t, Len(s) + n)
<1> DEFINE M == Len(s)
           N == Len(t)
           both == s \o t
<1>1. /\ M \in Nat /\ N \in Nat /\ both \in Seq(Byte) /\ Len(both) = M + N
      /\ \A n \in 1..(M + N) : both[n] = IF n <= M THEN s[n] ELSE t[n - M]
  BY ConcatProperties, LenProperties
<1>2. OscFeedBytes(NewOscParser, s).parser \in OscParsers
  BY NewParserTyped, OscFeedBytesTyped
<1>3. \A n \in 0..N :
        OscFed(NewOscParser, both)[M + n].parser = OscFed(OscFeedBytes(NewOscParser, s).parser, t)[n].parser
  BY NewParserTyped, OscFedConcat
<1> HIDE DEF both, M, N
<1>4. \A n \in 1..M : both[n] = s[n]
  BY <1>1
<1>5. \A n \in 1..N : M + n \in 1..Len(both) /\ both[M + n] = t[n]
  <2> SUFFICES ASSUME NEW n \in 1..N PROVE M + n \in 1..Len(both) /\ both[M + n] = t[n]
    OBVIOUS
  <2>1. M + n \in 1..(M + N) /\ ~ (M + n <= M) /\ M + n - M = n
    BY <1>1
  <2> QED BY <1>1, <2>1
<1>6. \A n \in 0..N : OscFed(OscFeedBytes(NewOscParser, s).parser, t)[n].parser = Parsers(both, M + n)
  BY <1>3 DEF Parsers
<1> QED BY <1>1, <1>2, <1>4, <1>5, <1>6 DEF both, M, N

(* What is no part of a marker makes no mark, whatever it follows on.      *)
LEMMA PlainMarks ==
  ASSUME NEW s \in Seq(Byte), Whole(s), NEW t \in Seq(Byte), Whole(t),
         \A i \in 1..Len(t) : t[i] # "133"
  PROVE  \A n \in 0..Len(t) :
           LET q == OscFeedBytes(NewOscParser, s).parser IN
           OscFed(q, t)[n].marks = <<>> /\ OscFed(q, t)[n].parser.terminal_state = q.terminal_state
<1> DEFINE M == Len(s)
           N == Len(t)
           both == s \o t
           q == OscFeedBytes(NewOscParser, s).parser
<1>1. /\ q \in OscParsers /\ M \in Nat /\ N \in Nat /\ Len(both) = M + N /\ both \in Seq(Byte)
      /\ \A n \in 1..M : both[n] = s[n]
      /\ \A n \in 1..N : M + n \in 1..Len(both) /\ both[M + n] = t[n]
      /\ \A n \in 0..N : OscFed(q, t)[n].parser = Parsers(both, M + n)
  BY FollowingOn
<1>2. Whole(both)
  BY WholeConcat
<1> HIDE DEF both, M, N, q
<1>3. ASSUME NEW n \in 1..N
      PROVE  MarkAt(OscFed(q, t)[n - 1].parser, t[n]) = NoMark
  <2> DEFINE at == M + n
  <2>1. at \in 1..Len(both) /\ both[at] = t[n] /\ OscFed(q, t)[n - 1].parser = Parsers(both, at - 1)
    <3>1. n - 1 \in 0..N /\ M + (n - 1) = at - 1
      BY <1>1
    <3> QED BY <1>1, <3>1
  <2>2. at \in Int /\ at > M
    BY <1>1
  <2> HIDE DEF at
  <2>3. ASSUME NEW b \in 1..Len(both), NEW m \in ShellMarkers, MarkerAt(both, b, m), EndOf(b, m) = at
        PROVE  FALSE
    <3> DEFINE size == Len(m)
    <3>1. /\ (size = 6 \/ size = 8) /\ m[3] = "133"
          /\ b + size - 1 <= Len(both) /\ \A j \in 1..size : both[b + j - 1] = m[j]
      BY <2>3, ShellMarkersAre DEF MarkerAt
    <3>2. b + size - 1 = at
      BY <2>3 DEF EndOf
    <3>3. b \in Int /\ b >= 1 /\ 3 \in 1..size /\ b + 3 - 1 = b + 2
      <4> HIDE DEF size
      <4> QED BY <1>1, <3>1
    <3>4. both[b + 2] = "133"
      BY <3>1, <3>3
    <3>5. ~ (b + 2 > M)
      <4> SUFFICES ASSUME b + 2 > M PROVE FALSE
        OBVIOUS
      <4> DEFINE i == b + 2 - M
      <4>1. i \in 1..N /\ M + i = b + 2
        <5> HIDE DEF size
        <5> QED BY <1>1, <3>1, <3>3
      <4> HIDE DEF i
      <4>2. t[i] = "133"
        BY <1>1, <3>4, <4>1
      <4> QED BY <4>1, <4>2 DEF N
    <3>6. b + 2 \in 1..M /\ b + 2 - 2 = b
      <4> HIDE DEF size
      <4> QED BY <1>1, <3>3, <3>5
    <3>7. s[b + 2] = "133"
      BY <1>1, <3>4, <3>6
    <3>8. PICK other \in ShellMarkers : MarkerAt(s, b, other)
      BY <3>6, <3>7 DEF Whole, M
    <3> DEFINE less == Len(other)
    <3>9. /\ (less = 6 \/ less = 8) /\ b + less - 1 <= M
          /\ \A j \in 1..less : s[b + j - 1] = other[j]
      BY <3>8, ShellMarkersAre DEF MarkerAt, M
    <3>10. less \in 1..less /\ less \in 1..size /\ less # size /\ b + less - 1 \in 1..M
      <4> HIDE DEF size, less
      <4> QED BY <1>1, <2>2, <3>1, <3>2, <3>3, <3>9, SMTT(40)
    <3>11. other[less] = BEL
      BY <3>10, InMarkers
    <3>12. m[less] = both[b + less - 1] /\ both[b + less - 1] = s[b + less - 1] /\ s[b + less - 1] = other[less]
      BY <1>1, <3>1, <3>9, <3>10
    <3>13. m[less] = BEL
      BY <3>11, <3>12
    <3> HIDE DEF less
    <3>14. less = Len(m)
      BY <3>10, <3>13, InMarkers
    <3> QED BY <3>10, <3>14
  <2>4. MarkAt(Parsers(both, at - 1), both[at]) = NoMark
    BY <1>1, <1>2, <2>1, <2>3, MarkedByMarkers
  <2> QED BY <2>1, <2>4
<1>4. N \in 0..Len(t)
  BY <1>1 DEF N
<1>5. \A n \in 0..N : OscFed(q, t)[n].marks = <<>> /\ OscFed(q, t)[n].parser.terminal_state = q.terminal_state
  BY <1>1, <1>3, <1>4, NoMarks
<1> QED BY <1>5 DEF N, q

(* A marker of the shell's makes its mark with its last byte.              *)
LEMMA MarkerMarks ==
  ASSUME NEW s \in Seq(Byte), Whole(s), NEW m \in ShellMarkers
  PROVE  /\ m \in Seq(Byte) /\ (Len(m) = 6 \/ Len(m) = 8)
         /\ \A n \in 0..(Len(m) - 1) : OscFed(OscFeedBytes(NewOscParser, s).parser, m)[n].marks = <<>>
         /\ OscFed(OscFeedBytes(NewOscParser, s).parser, m)[Len(m)].marks = <<MarkIn(m)>>
         /\ OscFed(OscFeedBytes(NewOscParser, s).parser, m)[Len(m)].parser.terminal_state = StateOf(m)
<1> DEFINE M == Len(s)
           size == Len(m)
           both == s \o m
           q == OscFeedBytes(NewOscParser, s).parser
<1>1. m \in Seq(Byte) /\ (size = 6 \/ size = 8)
  BY ShellMarkersAre
<1>2. /\ q \in OscParsers /\ M \in Nat /\ size \in Nat /\ Len(both) = M + size /\ both \in Seq(Byte)
      /\ \A n \in 1..size : M + n \in 1..Len(both) /\ both[M + n] = m[n]
      /\ \A n \in 0..size : OscFed(q, m)[n].parser = Parsers(both, M + n)
  BY <1>1, FollowingOn
<1>3. Whole(both)
  BY <1>1, WholeMarker, WholeConcat
<1>4. /\ OscFed(q, m)[size] = OscFedMore(OscFed(q, m)[size - 1], m[size])
      /\ \A n \in 0..size : OscFed(q, m)[n] \in OscFeds
  <2>1. size \in 1..Len(m)
    <3>1. size = Len(m)
      OBVIOUS
    <3> HIDE DEF size
    <3>2. size \in 1..size
      BY <1>1
    <3> QED BY <3>1, <3>2
  <2> HIDE DEF q
  <2> QED BY <1>1, <1>2, <2>1, OscFedDefined
<1>5. /\ \A n \in 1..(size - 1) : n \in 1..size /\ n # size /\ n - 1 \in 0..size /\ M + (n - 1) = M + n - 1
      /\ size - 1 \in 0..size /\ size \in 0..size /\ size \in 1..size
      /\ M + 1 \in 1..Len(both) /\ M + 1 + size - 1 = M + size /\ M + 1 + size - 1 - 1 = M + (size - 1)
      /\ \A j \in 1..size : M + 1 + j - 1 = M + j
      /\ size - 1 \in 0..Len(m) /\ M + size <= Len(both)
  <2>1. size \in 0..Len(m) /\ Len(m) = size
    BY <1>2
  <2> HIDE DEF size, both, M
  <2> QED BY <1>1, <1>2, <2>1
<1> HIDE DEF both, M, q
<1>6. ASSUME NEW n \in 1..(size - 1)
      PROVE  MarkAt(OscFed(q, m)[n - 1].parser, m[n]) = NoMark
  <2> DEFINE at == M + n
  <2>1. at \in 1..Len(both) /\ both[at] = m[n] /\ OscFed(q, m)[n - 1].parser = Parsers(both, at - 1)
    BY <1>2, <1>5, SMTT(40)
  <2> HIDE DEF at
  <2>2. m[n] # BEL
    BY <1>5, InMarkers
  <2>3. ASSUME NEW b \in 1..Len(both), NEW other \in ShellMarkers, MarkerAt(both, b, other), EndOf(b, other) = at
        PROVE  FALSE
    <3>1. Len(other) \in 1..Len(other)
      <4> DEFINE k == Len(other)
      <4>1. k = 6 \/ k = 8
        BY ShellMarkersAre
      <4> HIDE DEF k
      <4>2. k \in 1..k
        BY <4>1
      <4> QED BY <4>2 DEF k
    <3>2. both[b + Len(other) - 1] = other[Len(other)] /\ other[Len(other)] = BEL
      BY <2>3, <3>1, InMarkers DEF MarkerAt
    <3> QED BY <2>1, <2>2, <2>3, <3>2 DEF EndOf
  <2>4. MarkAt(Parsers(both, at - 1), both[at]) = NoMark
    BY <1>2, <1>3, <2>1, <2>3, MarkedByMarkers
  <2> QED BY <2>1, <2>4
<1>7. \A n \in 0..(size - 1) : OscFed(q, m)[n].marks = <<>>
  BY <1>1, <1>2, <1>5, <1>6, NoMarks, ZenonT(60)
<1>8. MarkAt(OscFed(q, m)[size - 1].parser, m[size]) = MarkIn(m)
  <2> DEFINE b == M + 1
  <2>1. MarkerAt(both, b, m)
    BY <1>2, <1>5 DEF MarkerAt
  <2>2. b \in 1..Len(both) /\ EndOf(b, m) = M + size /\ EndOf(b, m) - 1 = M + (size - 1)
    BY <1>5 DEF EndOf
  <2> HIDE DEF b
  <2>3. MarkAt(Parsers(both, EndOf(b, m) - 1), both[EndOf(b, m)]) = MarkIn(m)
    BY <1>2, <1>3, <2>1, <2>2, MarkerIsMarked
  <2>4. both[M + size] = m[size] /\ OscFed(q, m)[size - 1].parser = Parsers(both, M + (size - 1))
    BY <1>2, <1>5
  <2> QED BY <2>2, <2>3, <2>4
<1> DEFINE before == OscFed(q, m)[size - 1]
           after  == OscFed(q, m)[size]
<1>9. after = OscFedMore(before, m[size]) /\ before.marks = <<>> /\ before.parser \in OscParsers /\ m[size] \in Byte
  <2>1. before \in OscFeds
    BY <1>4, <1>5
  <2>2. before.marks = <<>>
    <3>1. size - 1 \in 0..(size - 1)
      BY <1>2, <1>5
    <3> QED BY <1>7, <3>1
  <2> QED BY <1>4, <1>5, <2>1, <2>2, InMarkers DEF OscFeds
<1>10. MarkAt(before.parser, m[size]) = MarkIn(m) /\ MarkIn(m) # NoMark
  BY <1>8, MarkStateOf
<1> HIDE DEF before, after
<1>11. after.marks = <<MarkIn(m)>>
  BY <1>9, <1>10 DEF OscFedMore
<1>12. after.parser.terminal_state = StateOf(m)
  <2>1. after.parser = OscFeed(before.parser, m[size])
    BY <1>9 DEF OscFedMore
  <2>2. after.parser.terminal_state = TerminalStateAfter(before.parser.terminal_state, MarkIn(m))
    <3> DEFINE r == before.parser
               byte == m[size]
    <3>1. r \in OscParsers /\ byte \in Byte /\ MarkAt(r, byte) = MarkIn(m) /\ after.parser = OscFeed(r, byte)
      BY <1>9, <1>10, <2>1
    <3> HIDE DEF r, byte
    <3>2. OscFeed(r, byte).terminal_state = TerminalStateAfter(r.terminal_state, MarkAt(r, byte))
      BY <3>1, OscFeedFields
    <3> QED BY <3>1, <3>2 DEF r
  <2> QED BY <2>2, MarkStateOf
<1> QED BY <1>1, <1>7, <1>11, <1>12 DEF q, after

(* The marks in the first n bytes of what is on its way.                   *)
Ahead(n) == OscFed(parser, wire)[n].marks

Quiet == \A n \in 0..Len(wire) : Ahead(n) = <<>>

(* What is on its way once the first n bytes of it have been read.         *)
LEMMA AheadRead ==
  ASSUME TypeInv, NEW n \in 1..Len(wire), Read(n)
  PROVE  /\ Len(wire) \in Nat /\ Len(wire)' = Len(wire) - n
         /\ \A i \in 1..(Len(wire) - n) : wire'[i] = wire[n + i]
         /\ OscFeedBytes(parser, SubSeq(wire, 1, n)).marks = Ahead(n)
         /\ \A i \in 0..(Len(wire) - n) : Ahead(n + i) = Ahead(n) \o Ahead(i)'
         /\ \A i \in 0..(Len(wire) - n) : Ahead(i)' \in Seq(Marks)
         /\ OscFeedBytes(parser, wire)'.parser = OscFeedBytes(parser, wire).parser
<1> DEFINE a == SubSeq(wire, 1, n)
           b == SubSeq(wire, n + 1, Len(wire))
<1>1. /\ a \in Seq(Byte) /\ b \in Seq(Byte) /\ wire = a \o b /\ wire \in Seq(Byte)
      /\ parser \in OscParsers /\ Bounded(parser) /\ Len(wire) \in Nat
  BY ReadTyped, SplitSeq, LenProperties DEF TypeInv
<1>2. wire' = b /\ parser' = OscFeedBytes(parser, a).parser
  BY DEF Read, OnPtyOutput
<1>3. Len(a) = n
  <2>1. n \in Nat /\ 1 <= n /\ \A i \in 1..n : wire[i] \in Byte
    <3>1. n \in Nat /\ 1 <= n /\ \A i \in 1..n : i \in 1..Len(wire)
      BY <1>1
    <3> QED BY <1>1, <3>1, ElementOfSeq
  <2>2. Len(a) = n - 1 + 1
    BY <2>1, SubSeqProperties
  <2> QED BY <2>1, <2>2
<1> HIDE DEF a, b
<1>4. Len(wire) = n + Len(b) /\ Len(b) \in Nat /\ \A i \in 1..Len(b) : wire[n + i] = b[i]
  <2>1. /\ Len(a \o b) = Len(a) + Len(b) /\ Len(b) \in Nat
        /\ \A i \in 1..(Len(a) + Len(b)) : (a \o b)[i] = IF i <= Len(a) THEN a[i] ELSE b[i - Len(a)]
    BY <1>1, ConcatProperties, LenProperties
  <2>2. ASSUME NEW i \in 1..Len(b)
        PROVE  wire[n + i] = b[i]
    <3>1. n + i \in 1..(n + Len(b)) /\ ~ (n + i <= n) /\ n + i - n = i
      BY <1>1, <2>1
    <3> QED BY <1>1, <1>3, <2>1, <3>1
  <2> QED BY <1>1, <1>3, <2>1, <2>2
<1>5. n \in Nat /\ Len(wire) - n = Len(b)
  BY <1>1, <1>4
<1> DEFINE q == OscFeedBytes(parser, a).parser
<1>6. /\ \A i \in 0..Len(a) : OscFed(parser, a \o b)[i] = OscFed(parser, a)[i]
      /\ \A i \in 0..Len(b) :
           /\ OscFed(parser, a \o b)[Len(a) + i].parser = OscFed(q, b)[i].parser
           /\ OscFed(parser, a \o b)[Len(a) + i].marks = OscFeedBytes(parser, a).marks \o OscFed(q, b)[i].marks
  BY <1>1, OscFedConcat
<1>7. Ahead(n) = OscFeedBytes(parser, a).marks
  <2>1. n \in 0..Len(a)
    BY <1>3, <1>5
  <2> QED BY <1>1, <1>3, <1>6, <2>1 DEF Ahead, OscFeedBytes
<1>8. \A i : Ahead(i)' = OscFed(q, b)[i].marks
  BY <1>2 DEF Ahead
<1>9. \A i \in 0..Len(b) : Ahead(n + i) = Ahead(n) \o Ahead(i)'
  <2> SUFFICES ASSUME NEW i \in 0..Len(b) PROVE Ahead(n + i) = Ahead(n) \o Ahead(i)'
    OBVIOUS
  <2>1. Ahead(n + i) = OscFed(parser, a \o b)[Len(a) + i].marks
    BY <1>1, <1>3 DEF Ahead
  <2>2. OscFed(parser, a \o b)[Len(a) + i].marks = OscFeedBytes(parser, a).marks \o OscFed(q, b)[i].marks
    BY <1>6
  <2> HIDE DEF q
  <2> QED BY <1>7, <1>8, <2>1, <2>2
<1>10. q \in OscParsers
  BY <1>1, OscFeedBytesTyped
<1>11. \A i \in 0..Len(b) : Ahead(i)' \in Seq(Marks)
  <2> HIDE DEF q
  <2>1. \A i \in 0..Len(b) : OscFed(q, b)[i] \in OscFeds
    BY <1>1, <1>10, OscFedDefined
  <2> QED BY <1>8, <2>1 DEF OscFeds
<1>12. OscFeedBytes(parser, wire)'.parser = OscFeedBytes(parser, wire).parser
  <2>1. OscFeedBytes(parser, wire)' = OscFed(q, b)[Len(b)]
    BY <1>2 DEF OscFeedBytes
  <2>2. OscFeedBytes(parser, wire) = OscFed(parser, a \o b)[Len(a) + Len(b)]
    BY <1>1, <1>3, <1>4 DEF OscFeedBytes
  <2>3. Len(b) \in 0..Len(b)
    BY <1>4
  <2> QED BY <1>6, <2>1, <2>2, <2>3
<1>13. Len(wire)' = Len(b)
  BY <1>2
<1> QED BY <1>1, <1>2, <1>4, <1>5, <1>7, <1>9, <1>11, <1>12, <1>13 DEF a

(* What is on its way once more has been printed.                          *)
LEMMA AheadEmit ==
  ASSUME TypeInv, FedInv, NEW bytes \in Seq(Byte), Emit(bytes), UNCHANGED parser
  PROVE  /\ Len(wire) \in Nat /\ Len(bytes) \in Nat /\ Len(wire)' = Len(wire) + Len(bytes)
         /\ \A i \in 1..Len(wire) : wire'[i] = wire[i]
         /\ \A i \in 1..Len(bytes) : wire'[Len(wire) + i] = bytes[i]
         /\ \A i \in 0..Len(wire) : Ahead(i)' = Ahead(i)
         /\ \A i \in 0..Len(bytes) :
              OscFed(parser', wire')[Len(wire) + i].marks =
                Ahead(Len(wire)) \o OscFed(OscFeedBytes(NewOscParser, seen \o wire).parser, bytes)[i].marks
         /\ OscFeedBytes(parser, wire).parser = OscFeedBytes(NewOscParser, seen \o wire).parser
         /\ OscFeedBytes(parser, wire)'.parser =
              OscFeedBytes(OscFeedBytes(NewOscParser, seen \o wire).parser, bytes).parser
         /\ Ahead(Len(wire)) \in Seq(Marks) /\ seen \o wire \in Seq(Byte)
<1> DEFINE q == OscFeedBytes(NewOscParser, seen \o wire).parser
<1>1. wire \in Seq(Byte) /\ seen \in Seq(Byte) /\ parser \in OscParsers
  BY DEF TypeInv
<1>2. wire' = wire \o bytes /\ parser' = parser
  BY DEF Emit
<1>3. /\ Len(wire) \in Nat /\ Len(bytes) \in Nat /\ Len(wire \o bytes) = Len(wire) + Len(bytes)
      /\ \A i \in 1..(Len(wire) + Len(bytes)) :
           (wire \o bytes)[i] = IF i <= Len(wire) THEN wire[i] ELSE bytes[i - Len(wire)]
  BY <1>1, ConcatProperties, LenProperties
<1>4. OscFeedBytes(parser, wire).parser = q
  <2> DEFINE new == NewOscParser
             old == NewHistory(HistoryLines)
  <2>1. new \in OscParsers /\ HistoryLines \in Nat /\ old \in Histories(HistoryLines)
    BY NewParserTyped, NewHistoryTyped, TerminalAssumption
  <2> HIDE DEF new, old
  <2>2. OscFeedBytes(new, seen \o wire).parser = OscFeedBytes(OscFeedBytes(new, seen).parser, wire).parser
    BY <1>1, <2>1, FeedBytesConcat, ZenonT(60)
  <2>3. parser = OscFeedBytes(new, seen).parser
    BY DEF FedInv, new
  <2> QED BY <2>2, <2>3 DEF new
<1> HIDE DEF q
<1>5. /\ \A i \in 0..Len(wire) : OscFed(parser, wire \o bytes)[i] = OscFed(parser, wire)[i]
      /\ \A i \in 0..Len(bytes) :
           /\ OscFed(parser, wire \o bytes)[Len(wire) + i].parser = OscFed(q, bytes)[i].parser
           /\ OscFed(parser, wire \o bytes)[Len(wire) + i].marks =
                OscFeedBytes(parser, wire).marks \o OscFed(q, bytes)[i].marks
  BY <1>1, <1>4, OscFedConcat
<1>6. \A i : Ahead(i)' = OscFed(parser, wire \o bytes)[i].marks
  BY <1>2 DEF Ahead
<1>7. Ahead(Len(wire)) = OscFeedBytes(parser, wire).marks
  BY DEF Ahead, OscFeedBytes
<1>8. \A i \in 0..Len(wire) : Ahead(i)' = Ahead(i)
  BY <1>5, <1>6 DEF Ahead
<1>9. \A i \in 0..Len(bytes) :
        OscFed(parser', wire')[Len(wire) + i].marks = Ahead(Len(wire)) \o OscFed(q, bytes)[i].marks
  BY <1>2, <1>5, <1>7
<1>10. OscFeedBytes(parser, wire)'.parser = OscFeedBytes(q, bytes).parser
  <2>1. Len(bytes) \in 0..Len(bytes)
    BY <1>3
  <2>2. OscFeedBytes(parser, wire)' = OscFed(parser, wire \o bytes)[Len(wire) + Len(bytes)]
    BY <1>2, <1>3 DEF OscFeedBytes
  <2> QED BY <1>5, <2>1, <2>2 DEF OscFeedBytes
<1>11. Ahead(Len(wire)) \in Seq(Marks)
  <2>1. OscFeedBytes(parser, wire).marks \in Seq(Marks)
    BY <1>1, OscFeedBytesTyped DEF TypeInv
  <2> QED BY <1>7, <2>1
<1>12. \A i \in 1..Len(wire) : wire'[i] = wire[i]
  <2> SUFFICES ASSUME NEW i \in 1..Len(wire) PROVE wire'[i] = wire[i]
    OBVIOUS
  <2>1. i \in 1..(Len(wire) + Len(bytes)) /\ i <= Len(wire)
    BY <1>3
  <2> QED BY <1>2, <1>3, <2>1
<1>13. \A i \in 1..Len(bytes) : wire'[Len(wire) + i] = bytes[i]
  <2> SUFFICES ASSUME NEW i \in 1..Len(bytes) PROVE wire'[Len(wire) + i] = bytes[i]
    OBVIOUS
  <2>1. Len(wire) + i \in 1..(Len(wire) + Len(bytes)) /\ ~ (Len(wire) + i <= Len(wire)) /\ Len(wire) + i - Len(wire) = i
    BY <1>3
  <2> QED BY <1>2, <1>3, <2>1
<1>14. Len(wire)' = Len(wire) + Len(bytes)
  BY <1>2, <1>3
<1>15. seen \o wire \in Seq(Byte)
  BY <1>1, ConcatProperties
<1> QED BY <1>3, <1>4, <1>8, <1>9, <1>10, <1>11, <1>12, <1>13, <1>14, <1>15 DEF q

(* Two lists of marks are taken as one.                                    *)
LEMMA AllMarkedConcat ==
  ASSUME NEW s \in MarkStates, NEW a \in Seq(Marks), NEW b \in Seq(Marks)
  PROVE  AllMarked(s, a \o b) = AllMarked(AllMarked(s, a), b)
<1> DEFINE both == a \o b
           M == Len(a)
           N == Len(b)
           q == AllMarked(s, a)
           P == MarkedUpTo(s, both)
           Q == MarkedUpTo(s, a)
           R == MarkedUpTo(q, b)
<1>1. /\ M \in Nat /\ N \in Nat /\ both \in Seq(Marks) /\ Len(both) = M + N
      /\ \A n \in 1..(M + N) : both[n] = IF n <= M THEN a[n] ELSE b[n - M]
  BY ConcatProperties, LenProperties
<1>2. Q[0] = s /\ \A n \in 1..M : Q[n] = Marked(Q[n - 1], a[n])
  BY MarkedDefined
<1>3. q = Q[M] /\ q \in MarkStates
  BY AllMarkedTyped DEF AllMarked
<1>4. R[0] = q /\ \A n \in 1..N : R[n] = Marked(R[n - 1], b[n])
  <2> HIDE DEF q
  <2> QED BY <1>3, MarkedDefined
<1>5. P[0] = s /\ \A n \in 1..(M + N) : P[n] = Marked(P[n - 1], both[n])
  <2> HIDE DEF both, M, N
  <2>1. P[0] = s /\ \A n \in 1..Len(both) : P[n] = Marked(P[n - 1], both[n])
    BY <1>1, MarkedDefined
  <2> QED BY <1>1, <2>1
<1>6. AllMarked(s, both) = P[M + N] /\ AllMarked(q, b) = R[N]
  <2> HIDE DEF both
  <2> QED BY <1>1 DEF AllMarked
<1> HIDE DEF both, M, N, P, Q, R, q
<1> DEFINE T == {n \in 0..M : P[n] = Q[n]}
           V == {n \in 0..N : P[M + n] = R[n]}
<1>7. 0 \in T
  BY <1>1, <1>2, <1>5
<1>8. ASSUME NEW n \in 1..M, n - 1 \in T
      PROVE  n \in T
  <2>1. n \in 0..M /\ n \in 1..(M + N) /\ n <= M /\ P[n - 1] = Q[n - 1]
    BY <1>1, <1>8
  <2> QED BY <1>1, <1>2, <1>5, <2>1
<1>9. \A n \in 0..M : n \in T
  <2> HIDE DEF T
  <2> QED BY <1>1, <1>7, <1>8, InductionUpTo
<1>10. 0 \in V
  <2>1. P[M] = Q[M] /\ M + 0 = M /\ 0 \in 0..N
    BY <1>1, <1>9
  <2> QED BY <1>3, <1>4, <2>1
<1>11. ASSUME NEW n \in 1..N, n - 1 \in V
       PROVE  n \in V
  <2>1. /\ n \in 0..N /\ M + n \in 1..(M + N) /\ (M + n) - 1 = M + (n - 1) /\ ~ (M + n <= M)
        /\ M + n - M = n /\ P[M + (n - 1)] = R[n - 1]
    BY <1>1, <1>11
  <2>2. both[M + n] = b[n]
    BY <1>1, <2>1
  <2>3. P[M + n] = Marked(P[M + (n - 1)], both[M + n])
    BY <1>5, <2>1
  <2>4. R[n] = Marked(R[n - 1], b[n])
    BY <1>4
  <2>5. P[M + n] = R[n]
    BY <2>1, <2>2, <2>3, <2>4
  <2> QED BY <2>1, <2>5
<1>12. \A n \in 0..N : n \in V
  <2> HIDE DEF V
  <2> QED BY <1>1, <1>10, <1>11, InductionUpTo
<1>13. P[M + N] = R[N]
  BY <1>1, <1>12
<1> QED BY <1>6, <1>13 DEF both, q

(* One mark, and none.                                                     *)
LEMMA AllMarkedOne ==
  ASSUME NEW s \in MarkStates, NEW mark \in Marks
  PROVE  AllMarked(s, <<mark>>) = Marked(s, mark) /\ AllMarked(s, <<>>) = s
<1> DEFINE one == <<mark>>
<1>1. one \in Seq(Marks) /\ Len(one) = 1 /\ one[1] = mark
  OBVIOUS
<1> HIDE DEF one
<1>2. MarkedUpTo(s, one)[0] = s /\ \A n \in 1..Len(one) : MarkedUpTo(s, one)[n] = Marked(MarkedUpTo(s, one)[n - 1], one[n])
  BY <1>1, MarkedDefined
<1>3. MarkedUpTo(s, one)[1] = Marked(s, mark)
  <2>1. 1 \in 1..Len(one) /\ 1 - 1 = 0
    BY <1>1
  <2> QED BY <1>1, <1>2, <2>1
<1>4. AllMarked(s, <<>>) = s
  <2>1. <<>> \in Seq(Marks) /\ Len(<<>>) = 0
    BY EmptySeq
  <2> QED BY <2>1, MarkedDefined DEF AllMarked
<1> QED BY <1>1, <1>3, <1>4 DEF AllMarked, one

(* A line that is empty stays so; without a command nothing is recorded.   *)
LEMMA AllMarkedKeeps ==
  ASSUME NEW s \in MarkStates, NEW marks \in Seq(Marks)
  PROVE  /\ s.line_buf = <<>> => AllMarked(s, marks).line_buf = <<>>
         /\ s.pending = None =>
              AllMarked(s, marks).pending = None /\ AllMarked(s, marks).recorded = s.recorded
<1> DEFINE N == Len(marks)
           P == MarkedUpTo(s, marks)
           T == {n \in 0..N : /\ s.line_buf = <<>> => P[n].line_buf = <<>>
                              /\ s.pending = None => P[n].pending = None /\ P[n].recorded = s.recorded}
<1>1. /\ N \in Nat /\ P[0] = s /\ \A n \in 1..N : P[n] = Marked(P[n - 1], marks[n])
      /\ \A n \in 0..N : P[n] \in MarkStates
  BY MarkedDefined, LenProperties
<1> HIDE DEF P, N
<1>2. 0 \in T
  BY <1>1
<1>3. ASSUME NEW r \in MarkStates, NEW mark
      PROVE  /\ r.line_buf = <<>> => Marked(r, mark).line_buf = <<>>
             /\ r.pending = None => Marked(r, mark).pending = None /\ Marked(r, mark).recorded = r.recorded
  <2>1. r = [line_buf |-> r.line_buf, capture |-> r.capture, pending |-> r.pending, recorded |-> r.recorded]
    BY DEF MarkStates
  <2>2. r.pending = None => ~r.pending.some
    BY DEF None
  <2>3. \/ Marked(r, mark) = [r EXCEPT !.line_buf = <<>>]
        \/ Marked(r, mark) = [r EXCEPT !.capture = Some(NewHistory(CaptureLines))]
        \/ r.pending.some /\ Marked(r, mark).line_buf = r.line_buf
        \/ Marked(r, mark) = [r EXCEPT !.capture = None]
        \/ Marked(r, mark) = r
    <3> DEFINE full == [r EXCEPT !.recorded = Append(@, ShellCommand(r.pending.value, mark.code, r.capture)),
                                 !.pending = None, !.capture = None]
    <3>1. full.line_buf = r.line_buf
      BY <2>1
    <3> HIDE DEF full
    <3>2. CASE mark.kind = "A"
      BY <3>2 DEF Marked
    <3>3. CASE mark.kind = "C"
      BY <3>3 DEF Marked
    <3>4. CASE mark.kind = "D"
      BY <3>1, <3>4 DEF Marked, full
    <3>5. CASE mark.kind \notin {"A", "C", "D"}
      BY <3>5 DEF Marked
    <3> QED BY <3>2, <3>3, <3>4, <3>5
  <2> QED BY <2>1, <2>2, <2>3
<1>4. ASSUME NEW n \in 1..N, n - 1 \in T
      PROVE  n \in T
  <2>1. n \in 0..N /\ P[n - 1] \in MarkStates /\ P[n] = Marked(P[n - 1], marks[n])
    BY <1>1, <1>4
  <2> QED BY <1>3, <1>4, <2>1
<1>5. \A n \in 0..N : n \in T
  <2> HIDE DEF T
  <2> QED BY <1>1, <1>2, <1>4, InductionUpTo
<1>6. N \in T /\ AllMarked(s, marks) = P[N]
  <2>1. AllMarked(s, marks) = P[N]
    BY DEF AllMarked, P, N
  <2> QED BY <1>1, <1>5, <2>1
<1> QED BY <1>6

(* What each mark does while the agent rests.                              *)
LEMMA MarksDo ==
  ASSUME NEW s \in MarkStates, NEW mark \in Marks, Idle
  PROVE  /\ mark.kind \in {"A", "B"} =>
              /\ Marked(s, mark).pending = s.pending /\ Marked(s, mark).recorded = s.recorded
              /\ Marked(s, mark).capture = s.capture
         /\ mark.kind = "C" =>
              /\ Marked(s, mark).pending = s.pending /\ Marked(s, mark).recorded = s.recorded
              /\ Marked(s, mark).capture = Some(NewHistory(CaptureLines))
         /\ mark.kind = "D" /\ s.pending.some =>
              /\ Marked(s, mark).pending = None
              /\ Marked(s, mark).recorded =
                   Append(s.recorded, ShellCommand(s.pending.value, mark.code, s.capture))
<1>1. s = [line_buf |-> s.line_buf, capture |-> s.capture, pending |-> s.pending, recorded |-> s.recorded]
  BY DEF MarkStates
<1>2. mark.kind = "A" => Marked(s, mark) = [s EXCEPT !.line_buf = <<>>]
  BY DEF Marked
<1>3. mark.kind = "B" => Marked(s, mark) = s
  BY DEF Marked
<1>4. mark.kind = "C" => Marked(s, mark) = [s EXCEPT !.capture = Some(NewHistory(CaptureLines))]
  BY DEF Marked
<1>5. mark.kind = "D" /\ s.pending.some =>
        Marked(s, mark) = [s EXCEPT !.recorded = Append(@, ShellCommand(s.pending.value, mark.code, s.capture)),
                                    !.pending = None, !.capture = None]
  BY DEF Marked
<1>6. mark.kind \in {"A", "B"} =>
        /\ Marked(s, mark).pending = s.pending /\ Marked(s, mark).recorded = s.recorded
        /\ Marked(s, mark).capture = s.capture
  BY <1>1, <1>2, <1>3
<1>7. mark.kind = "C" =>
        /\ Marked(s, mark).pending = s.pending /\ Marked(s, mark).recorded = s.recorded
        /\ Marked(s, mark).capture = Some(NewHistory(CaptureLines))
  BY <1>1, <1>4
<1>8. mark.kind = "D" /\ s.pending.some =>
        /\ Marked(s, mark).pending = None
        /\ Marked(s, mark).recorded = Append(s.recorded, ShellCommand(s.pending.value, mark.code, s.capture))
  BY <1>1, <1>5
<1> QED BY <1>6, <1>7, <1>8

(* What makes no line leaves the lines as they are.                        *)
LEMMA LinesStay ==
  ASSUME NEW max \in Nat, NEW h \in Histories(max), NEW t \in Seq(Byte), \A i \in 1..Len(t) : t[i] # "\n"
  PROVE  HistoryFeedBytes(h, t).lines = h.lines
<1> DEFINE N == Len(t)
           P == HistoryFed(h, t)
           T == {n \in 0..N : P[n].lines = h.lines}
<1>1. /\ N \in Nat /\ P[0] = h /\ \A n \in 1..N : P[n] = HistoryFeed(P[n - 1], t[n])
      /\ \A n \in 0..N : P[n] \in Histories(max)
  BY HistoryFedDefined, LenProperties
<1>2. \A n \in 1..N : t[n] \in Byte /\ t[n] # "\n"
  BY ElementOfSeq
<1> HIDE DEF P, N
<1>3. 0 \in T
  BY <1>1
<1>4. ASSUME NEW g \in Histories(max), NEW byte \in Byte, byte # "\n"
      PROVE  HistoryFeed(g, byte).lines = g.lines
  <2>1. \/ g.escape_state = "Ground" /\ byte = ESC
        \/ g.escape_state = "Ground" /\ byte \notin Control
        \/ g.escape_state # "Ground" \/ byte \in Control \ {"\n"}
    BY <1>4 DEF ESC
  <2>2. g.escape_state = "Ground" /\ byte \notin Control => HistoryFeed(g, byte).lines = g.lines
    BY HistoryFeedFields
  <2>3. g.escape_state # "Ground" \/ byte \in Control \ {"\n"} => HistoryFeed(g, byte).lines = g.lines
    BY HistoryFeedFields
  <2>4. byte = ESC => byte \in Control \ {"\n"}
    BY DEF Control, ESC
  <2> QED BY <2>1, <2>2, <2>3, <2>4
<1>5. ASSUME NEW n \in 1..N, n - 1 \in T
      PROVE  n \in T
  <2>1. n \in 0..N /\ n - 1 \in 0..N /\ P[n - 1].lines = h.lines
    BY <1>1, <1>5
  <2>2. P[n - 1] \in Histories(max) /\ P[n] = HistoryFeed(P[n - 1], t[n])
    BY <1>1, <2>1
  <2> QED BY <1>2, <1>4, <2>1, <2>2
<1>6. \A n \in 0..N : n \in T
  <2> HIDE DEF T
  <2> QED BY <1>1, <1>3, <1>5, InductionUpTo
<1>7. HistoryFeedBytes(h, t) = P[N]
  BY DEF HistoryFeedBytes, P, N
<1> QED BY <1>1, <1>6, <1>7

(* A marker after what is no part of one.                                  *)
LEMMA PlainThenMarker ==
  ASSUME NEW s \in Seq(Byte), Whole(s), NEW t \in Seq(Byte), Whole(t),
         \A i \in 1..Len(t) : t[i] # "133", NEW m \in ShellMarkers
  PROVE  LET q == OscFeedBytes(NewOscParser, s).parser IN
         /\ t \o m \in Seq(Byte) /\ Len(t \o m) = Len(t) + Len(m) /\ Whole(t \o m)
         /\ \A n \in 0..(Len(t) + Len(m) - 1) : OscFed(q, t \o m)[n].marks = <<>>
         /\ OscFed(q, t \o m)[Len(t) + Len(m)].marks = <<MarkIn(m)>>
         /\ OscFed(q, t \o m)[Len(t) + Len(m)].parser.terminal_state = StateOf(m)
<1> DEFINE M == Len(t)
           size == Len(m)
           q == OscFeedBytes(NewOscParser, s).parser
           r == OscFeedBytes(NewOscParser, s \o t).parser
<1>1. m \in Seq(Byte) /\ Whole(m) /\ size \in Nat \ {0} /\ M \in Nat /\ size \in 0..size /\ M \in 0..M
  <2>1. m \in Seq(Byte) /\ Whole(m) /\ (size = 6 \/ size = 8)
    BY ShellMarkersAre, WholeMarker
  <2>2. M \in Nat
    BY LenProperties
  <2> HIDE DEF size, M
  <2> QED BY <2>1, <2>2
<1>2. t \o m \in Seq(Byte) /\ Len(t \o m) = M + size /\ Whole(t \o m)
  BY <1>1, ConcatProperties, WholeConcat
<1>3. s \o t \in Seq(Byte) /\ Whole(s \o t) /\ q \in OscParsers
  BY ConcatProperties, WholeConcat, FollowingOn
<1>4. OscFeedBytes(q, t).parser = r
  <2> DEFINE new == NewOscParser
             old == NewHistory(HistoryLines)
  <2>1. new \in OscParsers /\ HistoryLines \in Nat /\ old \in Histories(HistoryLines)
    BY NewParserTyped, NewHistoryTyped, TerminalAssumption
  <2> HIDE DEF new, old
  <2>2. OscFeedBytes(new, s \o t).parser = OscFeedBytes(OscFeedBytes(new, s).parser, t).parser
    BY <2>1, FeedBytesConcat
  <2> QED BY <2>2 DEF new
<1>5. /\ \A n \in 0..(size - 1) : OscFed(r, m)[n].marks = <<>>
      /\ OscFed(r, m)[size].marks = <<MarkIn(m)>>
      /\ OscFed(r, m)[size].parser.terminal_state = StateOf(m)
  <2> DEFINE both == s \o t
  <2>1. both \in Seq(Byte) /\ Whole(both)
    BY <1>3
  <2> HIDE DEF both
  <2>2. /\ \A n \in 0..(Len(m) - 1) : OscFed(OscFeedBytes(NewOscParser, both).parser, m)[n].marks = <<>>
        /\ OscFed(OscFeedBytes(NewOscParser, both).parser, m)[Len(m)].marks = <<MarkIn(m)>>
        /\ OscFed(OscFeedBytes(NewOscParser, both).parser, m)[Len(m)].parser.terminal_state = StateOf(m)
    BY <2>1, MarkerMarks
  <2> QED BY <2>2 DEF both
<1>6. \A n \in 0..M : OscFed(q, t)[n].marks = <<>>
  BY PlainMarks
<1> HIDE DEF q, r
<1>7. /\ \A n \in 0..M : OscFed(q, t \o m)[n] = OscFed(q, t)[n]
      /\ \A n \in 0..size :
           /\ OscFed(q, t \o m)[M + n].parser = OscFed(r, m)[n].parser
           /\ OscFed(q, t \o m)[M + n].marks = OscFeedBytes(q, t).marks \o OscFed(r, m)[n].marks
  <2>1. q \in OscParsers /\ t \in Seq(Byte) /\ m \in Seq(Byte)
    BY <1>1, <1>3
  <2>2. /\ \A n \in 0..Len(t) : OscFed(q, t \o m)[n] = OscFed(q, t)[n]
        /\ \A n \in 0..Len(m) :
             /\ OscFed(q, t \o m)[Len(t) + n].parser = OscFed(OscFeedBytes(q, t).parser, m)[n].parser
             /\ OscFed(q, t \o m)[Len(t) + n].marks =
                  OscFeedBytes(q, t).marks \o OscFed(OscFeedBytes(q, t).parser, m)[n].marks
    BY <2>1, OscFedConcat
  <2> QED BY <1>4, <2>2
<1>8. OscFeedBytes(q, t).marks = <<>>
  BY <1>1, <1>6 DEF OscFeedBytes
<1> DEFINE F == OscFed(q, t \o m)
           G == OscFed(r, m)
           one == <<MarkIn(m)>>
<1>9. <<>> \o <<>> = <<>> /\ <<>> \o one = one
  OBVIOUS
<1> HIDE DEF M, size, F, G, one
<1>10. ASSUME NEW n \in 0..(M + size - 1)
       PROVE  F[n].marks = <<>>
  <2>1. CASE n \in 0..M
    BY <1>6, <1>7, <2>1 DEF F
  <2>2. CASE n \notin 0..M
    <3> DEFINE j == n - M
    <3>1. j \in 0..(size - 1) /\ j \in 0..size /\ M + j = n
      BY <1>1, <2>2
    <3> HIDE DEF j
    <3>2. F[M + j].marks = <<>> \o G[j].marks /\ G[j].marks = <<>>
      BY <1>5, <1>7, <1>8, <3>1 DEF F, G
    <3> QED BY <1>9, <3>1, <3>2
  <2> QED BY <2>1, <2>2
<1>11. F[M + size].marks = one
  BY <1>1, <1>5, <1>7, <1>8, <1>9 DEF F, G, one
<1>12. F[M + size].parser.terminal_state = StateOf(m)
  BY <1>1, <1>5, <1>7 DEF F
<1> QED BY <1>2, <1>10, <1>11, <1>12 DEF F, M, size, q, one

(* The line is entered: C follows.                                         *)
MarkC == MarkIn(Marker("C"))

(* What is printed when a command is entered, and at a prompt.             *)
LEMMA EnterMarks ==
  ASSUME NEW s \in Seq(Byte), Whole(s)
  PROVE  LET q == OscFeedBytes(NewOscParser, s).parser
             t == <<"\n">> \o Marker("C")
         IN /\ t \in Seq(Byte) /\ Len(t) = 7
            /\ \A n \in 0..6 : OscFed(q, t)[n].marks = <<>>
            /\ OscFed(q, t)[7].marks = <<MarkC>>
<1> DEFINE line == <<"\n">>
           m == Marker("C")
<1>1. line \in Seq(Byte) /\ Whole(line) /\ Len(line) = 1 /\ \A i \in 1..Len(line) : line[i] # "133"
  BY ShellPrintsBytes, ShellPrintsWhole
<1>2. m \in ShellMarkers /\ Len(m) = 6
  BY DEF ShellMarkers, Marker
<1> HIDE DEF line, m
<1> DEFINE p == OscFeedBytes(NewOscParser, s).parser
<1>3. /\ line \o m \in Seq(Byte) /\ Len(line \o m) = Len(line) + Len(m)
      /\ \A n \in 0..(Len(line) + Len(m) - 1) : OscFed(p, line \o m)[n].marks = <<>>
      /\ OscFed(p, line \o m)[Len(line) + Len(m)].marks = <<MarkIn(m)>>
  <2>1. /\ line \in Seq(Byte) /\ Whole(line) /\ m \in ShellMarkers
        /\ \A i \in 1..Len(line) : line[i] # "133"
    BY <1>1, <1>2
  <2> QED BY <2>1, PlainThenMarker
<1>4. Len(line) + Len(m) = 7 /\ Len(line) + Len(m) - 1 = 6
  BY <1>1, <1>2
<1> HIDE DEF p
<1>5. /\ line \o m \in Seq(Byte) /\ Len(line \o m) = 7
      /\ \A n \in 0..6 : OscFed(p, line \o m)[n].marks = <<>>
      /\ OscFed(p, line \o m)[7].marks = <<MarkIn(m)>>
  BY <1>3, <1>4
<1> QED BY <1>5 DEF MarkC, line, m, p

(* The prompt, and the marks that part of it makes.                        *)
PromptShown == Marker("A") \o <<"$">> \o Marker("B")
Prompts     == {<<>>, <<MarkIn(Marker("A"))>>, <<MarkIn(Marker("A")), MarkIn(Marker("B"))>>}

LEMMA PromptMarks ==
  ASSUME NEW s \in Seq(Byte), Whole(s)
  PROVE  LET q == OscFeedBytes(NewOscParser, s).parser IN
         /\ PromptShown \in Seq(Byte) /\ \A i \in 1..Len(PromptShown) : PromptShown[i] # "\n"
         /\ \A n \in 0..Len(PromptShown) : OscFed(q, PromptShown)[n].marks \in Prompts
         /\ OscFeedBytes(q, PromptShown).parser.terminal_state = "Input"
<1> DEFINE a == Marker("A")
           b == Marker("B")
           sign == <<"$">>
           rest == sign \o b
           markA == MarkIn(a)
           markB == MarkIn(b)
           q == OscFeedBytes(NewOscParser, s).parser
           r == OscFeedBytes(NewOscParser, s \o a).parser
<1>1. /\ sign \in Seq(Byte) /\ Whole(sign) /\ Len(sign) = 1 /\ \A i \in 1..Len(sign) : sign[i] # "133"
  <2>1. "$" \in Byte
    BY BytesAre DEF ShellByte
  <2>2. "$" # ESC
    BY DEF ESC
  <2> QED BY <2>1, <2>2, WholeByte
<1>2. /\ a \in ShellMarkers /\ b \in ShellMarkers /\ Len(a) = 6 /\ Len(b) = 6
      /\ a \in Seq(Byte) /\ b \in Seq(Byte) /\ Whole(a) /\ StateOf(b) = "Input"
  <2>1. a \in ShellMarkers /\ b \in ShellMarkers /\ Len(a) = 6 /\ Len(b) = 6 /\ b[5] = "B"
    BY DEF ShellMarkers, Marker
  <2>2. StateOf(b) = "Input"
    BY <2>1 DEF StateOf, TerminalStateAfter
  <2> QED BY <2>1, <2>2, ShellMarkersAre, WholeMarker
<1>3. /\ PromptShown = a \o rest /\ rest \in Seq(Byte) /\ Len(rest) = 7 /\ PromptShown \in Seq(Byte)
      /\ Len(PromptShown) = 13
  <2>1. a \in Seq(Byte) /\ b \in Seq(Byte) /\ sign \in Seq(Byte) /\ Len(a) = 6 /\ Len(b) = 6 /\ Len(sign) = 1
    BY <1>1, <1>2
  <2>2. PromptShown = (a \o sign) \o b
    BY DEF PromptShown
  <2> HIDE DEF a, b, sign
  <2>3. sign \o b \in Seq(Byte) /\ Len(sign \o b) = Len(sign) + Len(b)
    BY <2>1, ConcatProperties
  <2>4. (a \o sign) \o b = a \o (sign \o b)
    BY <2>1, ConcatAssociative
  <2> HIDE DEF rest
  <2>5. rest = sign \o b
    BY DEF rest
  <2>6. rest \in Seq(Byte) /\ Len(rest) = 7
    BY <2>1, <2>3, <2>5
  <2>7. a \o rest \in Seq(Byte) /\ Len(a \o rest) = Len(a) + Len(rest)
    BY <2>1, <2>6, ConcatProperties
  <2>8. PromptShown = a \o rest
    BY <2>2, <2>4, <2>5
  <2> QED BY <2>1, <2>6, <2>7, <2>8
<1>4. \A i \in 1..Len(PromptShown) : PromptShown[i] # "\n"
  <2>1. (\A i \in 1..6 : a[i] # "\n") /\ (\A i \in 1..6 : b[i] # "\n") /\ \A i \in 1..1 : sign[i] # "\n"
    BY DEF Marker, ESC, BEL
  <2> HIDE DEF a, b, sign
  <2>2. ASSUME NEW x \in Seq(Byte), NEW y \in Seq(Byte),
               \A i \in 1..Len(x) : x[i] # "\n", \A i \in 1..Len(y) : y[i] # "\n"
        PROVE  \A i \in 1..Len(x \o y) : (x \o y)[i] # "\n"
    <3> DEFINE xy == x \o y
               M == Len(x)
               N == Len(y)
    <3>1. /\ M \in Nat /\ N \in Nat /\ Len(xy) = M + N
          /\ \A i \in 1..(M + N) : xy[i] = IF i <= M THEN x[i] ELSE y[i - M]
      BY ConcatProperties, LenProperties
    <3>2. (\A i \in 1..M : x[i] # "\n") /\ \A i \in 1..N : y[i] # "\n"
      BY <2>2
    <3> HIDE DEF xy, M, N
    <3>3. \A i \in 1..(M + N) : i \in 1..M \/ (~ (i <= M) /\ i - M \in 1..N)
      BY <3>1
    <3>4. \A i \in 1..(M + N) : xy[i] # "\n"
      BY <3>1, <3>2, <3>3
    <3> QED BY <3>1, <3>4 DEF xy
  <2>3. \A i \in 1..Len(rest) : rest[i] # "\n"
    <3>1. /\ \A i \in 1..Len(sign) : sign[i] # "\n"
          /\ \A i \in 1..Len(b) : b[i] # "\n"
      BY <1>1, <1>2, <2>1
    <3> QED BY <1>1, <1>2, <2>2, <3>1
  <2>4. \A i \in 1..Len(a) : a[i] # "\n"
    BY <1>2, <2>1
  <2> HIDE DEF rest
  <2>5. \A i \in 1..Len(a \o rest) : (a \o rest)[i] # "\n"
    BY <1>2, <1>3, <2>2, <2>3, <2>4
  <2> QED BY <1>3, <2>5
<1>5. q \in OscParsers /\ s \o a \in Seq(Byte) /\ Whole(s \o a)
  BY <1>2, FollowingOn, ConcatProperties, WholeConcat
<1>6. /\ \A n \in 0..5 : OscFed(q, a)[n].marks = <<>>
      /\ OscFed(q, a)[6].marks = <<markA>>
  <2> HIDE DEF a
  <2>1. /\ \A n \in 0..(Len(a) - 1) : OscFed(q, a)[n].marks = <<>>
        /\ OscFed(q, a)[Len(a)].marks = <<MarkIn(a)>>
    BY <1>2, MarkerMarks
  <2>2. Len(a) = 6 /\ Len(a) - 1 = 5
    BY <1>2
  <2> QED BY <2>1, <2>2
<1>7. /\ \A n \in 0..6 : OscFed(r, rest)[n].marks = <<>>
      /\ OscFed(r, rest)[7].marks = <<markB>>
      /\ OscFed(r, rest)[7].parser.terminal_state = "Input"
  <2> DEFINE both == s \o a
             p == OscFeedBytes(NewOscParser, both).parser
  <2> HIDE DEF a, b, sign, both
  <2>1. both \in Seq(Byte) /\ Whole(both)
    BY <1>5 DEF both
  <2>2. /\ \A n \in 0..(Len(sign) + Len(b) - 1) : OscFed(p, sign \o b)[n].marks = <<>>
        /\ OscFed(p, sign \o b)[Len(sign) + Len(b)].marks = <<MarkIn(b)>>
        /\ OscFed(p, sign \o b)[Len(sign) + Len(b)].parser.terminal_state = StateOf(b)
    BY <1>1, <1>2, <2>1, PlainThenMarker, ZenonT(60)
  <2>3. Len(sign) + Len(b) = 7 /\ Len(sign) + Len(b) - 1 = 6
    BY <1>1, <1>2
  <2>4. p = r
    BY DEF both
  <2> HIDE DEF p, r
  <2> QED BY <1>2, <2>2, <2>3, <2>4
<1>8. OscFeedBytes(q, a).parser = r /\ OscFeedBytes(q, a).marks = <<markA>>
  <2> DEFINE new == NewOscParser
             old == NewHistory(HistoryLines)
  <2> HIDE DEF a
  <2>1. new \in OscParsers /\ HistoryLines \in Nat /\ old \in Histories(HistoryLines)
    BY NewParserTyped, NewHistoryTyped, TerminalAssumption
  <2> HIDE DEF new, old
  <2>2. OscFeedBytes(new, s \o a).parser = OscFeedBytes(OscFeedBytes(new, s).parser, a).parser
    BY <1>2, <2>1, FeedBytesConcat
  <2>3. OscFeedBytes(q, a).marks = <<markA>>
    BY <1>2, <1>6 DEF OscFeedBytes
  <2> QED BY <2>2, <2>3 DEF new
<1> HIDE DEF a, rest, q, r
<1>9. /\ \A n \in 0..Len(a) : OscFed(q, a \o rest)[n] = OscFed(q, a)[n]
      /\ \A n \in 0..Len(rest) :
           /\ OscFed(q, a \o rest)[Len(a) + n].parser = OscFed(r, rest)[n].parser
           /\ OscFed(q, a \o rest)[Len(a) + n].marks = OscFeedBytes(q, a).marks \o OscFed(r, rest)[n].marks
  <2>1. q \in OscParsers /\ a \in Seq(Byte) /\ rest \in Seq(Byte)
    BY <1>2, <1>3, <1>5
  <2>2. /\ \A n \in 0..Len(a) : OscFed(q, a \o rest)[n] = OscFed(q, a)[n]
        /\ \A n \in 0..Len(rest) :
             /\ OscFed(q, a \o rest)[Len(a) + n].parser = OscFed(OscFeedBytes(q, a).parser, rest)[n].parser
             /\ OscFed(q, a \o rest)[Len(a) + n].marks =
                  OscFeedBytes(q, a).marks \o OscFed(OscFeedBytes(q, a).parser, rest)[n].marks
    BY <2>1, OscFedConcat
  <2> QED BY <1>8, <2>2
<1> DEFINE F == OscFed(q, a \o rest)
           G == OscFed(r, rest)
<1>10. <<markA>> \o <<>> = <<markA>> /\ <<markA>> \o <<markB>> = <<markA, markB>>
  <2> HIDE DEF markA, markB
  <2> DEFINE S == {markA, markB}
  <2>1. <<markA>> \in Seq(S) /\ markB \in S
    OBVIOUS
  <2>2. <<markA>> \o <<>> = <<markA>> /\ Append(<<markA>>, markB) = <<markA>> \o <<markB>>
    BY <2>1, ConcatEmptySeq, AppendIsConcat
  <2>3. Append(<<markA>>, markB) = <<markA, markB>>
    <3>1. markA \in S /\ markB \in S
      OBVIOUS
    <3> HIDE DEF S
    <3> QED BY <3>1, AppendTuple
  <2> QED BY <2>2, <2>3
<1>11. Prompts = {<<>>, <<markA>>, <<markA, markB>>}
  BY DEF Prompts, a
<1> HIDE DEF F, G, markA, markB
<1>12. ASSUME NEW n \in 0..13
       PROVE  F[n].marks \in Prompts
  <2>1. CASE n \in 0..5
    BY <1>2, <1>6, <1>9, <1>11, <2>1 DEF F
  <2>2. CASE n = 6
    <3>1. n \in 0..Len(a)
      BY <1>2, <2>2
    <3> QED BY <1>6, <1>9, <1>11, <2>2, <3>1 DEF F
  <2>3. CASE n \in 7..13
    <3> DEFINE j == n - 6
    <3>1. j \in 0..7 /\ 6 + j = n /\ (j \in 0..6 \/ j = 7)
      BY <2>3
    <3> HIDE DEF j
    <3>2. F[6 + j].marks = <<markA>> \o G[j].marks
      BY <1>2, <1>3, <1>8, <1>9, <3>1 DEF F, G
    <3>3. G[j].marks = <<>> \/ G[j].marks = <<markB>>
      BY <1>7, <3>1 DEF G
    <3> QED BY <1>10, <1>11, <3>1, <3>2, <3>3
  <2> QED BY <2>1, <2>2, <2>3
<1>13. F[13].parser.terminal_state = "Input"
  <2>1. 7 \in 0..7 /\ 6 + 7 = 13
    OBVIOUS
  <2> QED BY <1>2, <1>3, <1>7, <1>9, <2>1 DEF F
<1> QED BY <1>3, <1>4, <1>12, <1>13 DEF F, q, OscFeedBytes

(* What is typed before Enter is the line, and changes nothing else.       *)
LEMMA KeysTyped ==
  ASSUME NEW s \in KeyStates, NEW chunk \in Seq(Key), NEW last \in 0..Len(chunk),
         \A i \in 1..last : chunk[i] # NEWLINE
  PROVE  \A n \in 0..last :
           LET r == KeyedUpTo(s, chunk)[n] IN
           /\ r \in KeyStates /\ Holds(s.line_buf, chunk, n, r.line_buf)
           /\ r.mode = s.mode /\ r.cleared = s.cleared /\ r.pending = s.pending
           /\ r.recorded = s.recorded /\ r.capture = s.capture
<1> DEFINE P == KeyedUpTo(s, chunk)
           Kept(r) == /\ r.mode = s.mode /\ r.cleared = s.cleared /\ r.pending = s.pending
                      /\ r.recorded = s.recorded /\ r.capture = s.capture
           T == {n \in 0..last : Holds(s.line_buf, chunk, n, P[n].line_buf) /\ Kept(P[n])}
<1>1. /\ P[0] = s /\ \A n \in 1..Len(chunk) : P[n] = Keyed(P[n - 1], chunk[n])
      /\ \A n \in 0..Len(chunk) : P[n] \in KeyStates
  BY KeyedDefined
<1>2. /\ last \in Nat /\ Len(chunk) \in Nat
      /\ \A n \in 1..last : n \in 1..Len(chunk) /\ n \in 0..last /\ n - 1 \in 0..(Len(chunk) - 1) /\ (n - 1) + 1 = n
                            /\ n - 1 \in 0..Len(chunk)
      /\ \A n \in 0..last : n \in 0..Len(chunk)
  <2>1. Len(chunk) \in Nat
    BY LenProperties
  <2> QED BY <2>1
<1>3. s.line_buf \in Seq(TtyKey) /\ chunk \in Seq(TtyKey)
  <2>1. s.line_buf \in Seq(Key)
    BY DEF KeyStates
  <2> QED BY <2>1, TtyKeysAre, SeqMonotonic
<1> HIDE DEF P
<1>4. 0 \in T
  <2>1. Holds(s.line_buf, chunk, 0, s.line_buf)
    BY <1>3, HoldsNothing
  <2> QED BY <1>1, <1>2, <2>1
<1>5. ASSUME NEW n \in 1..last, n - 1 \in T
      PROVE  n \in T
  <2> DEFINE r == P[n - 1]
             key == chunk[n]
  <2>1. r \in KeyStates /\ P[n] = Keyed(r, key) /\ key # NEWLINE
    BY <1>1, <1>2
  <2>2. Holds(s.line_buf, chunk, n - 1, r.line_buf) /\ Kept(r)
    BY <1>5
  <2>3. Holds(s.line_buf, chunk, n, KeyHeld(r.line_buf, key))
    <3> DEFINE m == n - 1
    <3>1. m \in 0..(Len(chunk) - 1) /\ m + 1 = n
      BY <1>2
    <3> HIDE DEF m
    <3>2. Holds(s.line_buf, chunk, m + 1, KeyHeld(r.line_buf, chunk[m + 1]))
      BY <1>3, <2>2, <3>1, HoldsMore DEF m
    <3> QED BY <3>1, <3>2
  <2> HIDE DEF r, key
  <2>4. Keyed(r, key) = [r EXCEPT !.line_buf = KeyHeld(r.line_buf, key)]
    <3>1. CASE key = CTRL_U
      BY <2>1, <3>1 DEF Keyed, KeyHeld
    <3>2. CASE key # CTRL_U
      BY <2>1, <3>2 DEF Keyed, KeyHeld
    <3> QED BY <3>1, <3>2
  <2>5. Keyed(r, key).line_buf = KeyHeld(r.line_buf, key) /\ Kept(Keyed(r, key))
    BY <2>1, <2>2, <2>4 DEF KeyStates
  <2> QED BY <1>2, <2>1, <2>3, <2>5
<1>6. \A n \in 0..last : n \in T
  <2> HIDE DEF T
  <2> QED BY <1>2, <1>4, <1>5, InductionUpTo
<1> QED BY <1>1, <1>2, <1>6 DEF P

(* A part of a sequence; a capture is fed in parts.                        *)
LEMMA SubSeqWithin ==
  ASSUME NEW S, NEW s \in Seq(S), NEW m \in Int, NEW n \in Int, 1 <= m, m <= n + 1, n <= Len(s)
  PROVE  /\ SubSeq(s, m, n) \in Seq(S) /\ Len(SubSeq(s, m, n)) = n - m + 1
         /\ \A i \in 1..(n - m + 1) : SubSeq(s, m, n)[i] = s[m + i - 1]
<1> DEFINE N == Len(s)
           t == SubSeq(s, m, n)
<1>1. N \in Nat /\ n <= N
  BY LenProperties
<1>2. \A i \in m..n : s[i] \in S
  <2>1. \A i \in m..n : i \in 1..N
    BY <1>1
  <2> QED BY <2>1, ElementOfSeq
<1>3. /\ t \in Seq(S) /\ Len(t) = IF m <= n THEN n - m + 1 ELSE 0
      /\ \A i \in 1..(n - m + 1) : t[i] = s[m + i - 1]
  BY <1>2, SubSeqProperties
<1> HIDE DEF t
<1>4. Len(t) = n - m + 1
  BY <1>3
<1> QED BY <1>3, <1>4 DEF t

LEMMA CaptureConcat ==
  ASSUME NEW h \in Histories(CaptureLines), NEW s \in Seq(Byte), NEW t \in Seq(Byte)
  PROVE  HistoryFeedBytes(HistoryFeedBytes(h, s), t) = HistoryFeedBytes(h, s \o t)
<1>1. CaptureLines \in Nat /\ NewOscParser \in OscParsers
  BY TerminalAssumption, NewParserTyped
<1> QED BY <1>1, FeedBytesConcat

(* Of what has been told the last part is w, or w is more than it; what is *)
(* before w has been captured, from somewhere on.                          *)
Arrives(told, w, cap) ==
  LET k == Len(told) - Len(w) IN
  /\ \A i \in 1..Len(w) : k + i >= 1 => w[i] = told[k + i]
  /\ k >= 0 =>
       /\ cap.some
       /\ \E from \in 1..(k + 1) :
            cap.value = HistoryFeedBytes(NewHistory(CaptureLines), SubSeq(told, from, k))

(* More is told, and some of it is read.                                   *)
LEMMA ToldMore ==
  ASSUME NEW told \in Seq(Byte), NEW w \in Seq(Byte), NEW bytes \in Seq(Byte), NEW cap,
         Arrives(told, w, cap)
  PROVE  Arrives(told \o bytes, w \o bytes, cap)
<1> DEFINE T == Len(told)
           W == Len(w)
           B == Len(bytes)
           k == T - W
           told2 == told \o bytes
           w2 == w \o bytes
<1>1. /\ T \in Nat /\ W \in Nat /\ B \in Nat
      /\ Len(told2) = T + B /\ \A i \in 1..(T + B) : told2[i] = IF i <= T THEN told[i] ELSE bytes[i - T]
      /\ Len(w2) = W + B /\ \A i \in 1..(W + B) : w2[i] = IF i <= W THEN w[i] ELSE bytes[i - W]
  BY ConcatProperties, LenProperties
<1>2. /\ \A i \in 1..W : k + i >= 1 => w[i] = told[k + i]
      /\ k >= 0 => cap.some /\ \E from \in 1..(k + 1) :
           cap.value = HistoryFeedBytes(NewHistory(CaptureLines), SubSeq(told, from, k))
  BY DEF Arrives
<1>3. ASSUME NEW m \in 1..(k + 1), k >= 0
      PROVE  SubSeq(told2, m, k) = SubSeq(told, m, k)
  <2>1. CASE m <= k
    <3>1. m \in 1..Len(told) /\ k \in 1..Len(told)
      <4>1. m \in 1..T /\ k \in 1..T
        <5> HIDE DEF T, W
        <5> QED BY <1>1, <1>3, <2>1
      <4> QED BY <4>1
    <3> HIDE DEF k
    <3> QED BY <3>1, SubSeqOfConcat1
  <2>2. CASE ~ (m <= k)
    <3>1. m \in Int /\ k \in Int /\ k < m
      <4> HIDE DEF T, W
      <4> QED BY <1>1, <2>2
    <3> HIDE DEF k, told2
    <3> QED BY <3>1, SubSeqEmpty
  <2> QED BY <2>1, <2>2
<1> HIDE DEF T, W, B, told2, w2
<1>4. (T + B) - (W + B) = k
  BY <1>1
<1>5. ASSUME NEW i \in 1..(W + B), k + i >= 1
      PROVE  w2[i] = told2[k + i]
  <2>1. CASE i <= W
    <3>1. i \in 1..W /\ k + i \in 1..(T + B) /\ k + i <= T
      BY <1>1, <1>5, <2>1
    <3> QED BY <1>1, <1>2, <1>5, <2>1, <3>1
  <2>2. CASE ~ (i <= W)
    <3>1. k + i \in 1..(T + B) /\ ~ (k + i <= T) /\ (k + i) - T = i - W
      BY <1>1, <2>2
    <3>2. told2[k + i] = bytes[(k + i) - T] /\ w2[i] = bytes[i - W]
      BY <1>1, <2>2, <3>1
    <3> QED BY <3>1, <3>2
  <2> QED BY <2>1, <2>2
<1> HIDE DEF k
<1>6. k >= 0 => cap.some /\ \E from \in 1..(k + 1) :
           cap.value = HistoryFeedBytes(NewHistory(CaptureLines), SubSeq(told2, from, k))
  BY <1>2, <1>3
<1>7. Arrives(told2, w2, cap)
  BY <1>1, <1>4, <1>5, <1>6 DEF Arrives
<1> QED BY <1>7 DEF told2, w2

(* The capture is fed what is read, as it has been told.                   *)
LEMMA CaptureRead ==
  ASSUME NEW told \in Seq(Byte), NEW w \in Seq(Byte), NEW n \in 1..Len(w), NEW cap,
         Arrives(told, w, cap), Len(told) - Len(w) >= 0
  PROVE  LET k == Len(told) - Len(w) IN
         /\ cap.some
         /\ \E from \in 1..(k + 1) :
              HistoryFeedBytes(cap.value, SubSeq(w, 1, n)) =
                HistoryFeedBytes(NewHistory(CaptureLines), SubSeq(told, from, k + n))
<1> DEFINE T == Len(told)
           W == Len(w)
           k == T - W
           a == SubSeq(w, 1, n)
           new == NewHistory(CaptureLines)
<1>1. T \in Nat /\ W \in Nat /\ n \in Nat /\ n >= 1 /\ n <= W /\ k \in Nat /\ k = T - W /\ k + n <= T
  <2>1. T \in Nat /\ W \in Nat /\ n \in 1..W /\ T - W >= 0
    BY LenProperties
  <2> HIDE DEF T, W
  <2> QED BY <2>1
<1>2. /\ \A i \in 1..W : k + i >= 1 => w[i] = told[k + i]
      /\ cap.some
      /\ \E from \in 1..(k + 1) : cap.value = HistoryFeedBytes(new, SubSeq(told, from, k))
  BY <1>1 DEF Arrives
<1>3. PICK from \in 1..(k + 1) : cap.value = HistoryFeedBytes(new, SubSeq(told, from, k))
  BY <1>2
<1> DEFINE next == k + 1
           last == k + n
           b == SubSeq(told, next, last)
<1>4. /\ next \in Int /\ last \in Int /\ 1 <= next /\ next <= last + 1 /\ last <= T /\ last - next + 1 = n
      /\ \A i \in 1..n : next + i - 1 = k + i /\ k + i >= 1 /\ i \in 1..W /\ 1 + i - 1 = i
      /\ n - 1 + 1 = n /\ from \in 1..(T + 1) /\ k \in (from - 1)..T /\ last \in k..T
      /\ from \in Int /\ 1 <= from /\ from <= k + 1 /\ k <= T
  <2> HIDE DEF T, W, k
  <2> QED BY <1>1, <1>3
<1>5. /\ a \in Seq(Byte) /\ Len(a) = n /\ \A i \in 1..n : a[i] = w[i]
  <2>1. /\ a \in Seq(Byte) /\ Len(a) = n - 1 + 1 /\ \A i \in 1..(n - 1 + 1) : a[i] = w[1 + i - 1]
    <3>1. n \in Int /\ 1 \in Int /\ 1 <= 1 /\ 1 <= n + 1 /\ n <= Len(w)
      BY <1>1
    <3> QED BY <3>1, SubSeqWithin
  <2> HIDE DEF a
  <2> QED BY <1>4, <2>1
<1>6. /\ b \in Seq(Byte) /\ Len(b) = n /\ \A i \in 1..n : b[i] = told[k + i]
  <2> HIDE DEF next, last, k
  <2>1. /\ b \in Seq(Byte) /\ Len(b) = last - next + 1 /\ \A i \in 1..(last - next + 1) : b[i] = told[next + i - 1]
    BY <1>4, SubSeqWithin DEF T
  <2> HIDE DEF b
  <2> QED BY <1>4, <2>1
<1>7. a = b
  <2> HIDE DEF a, b, W, T, k
  <2>1. Len(a) = Len(b) /\ \A i \in 1..Len(a) : a[i] = b[i]
    BY <1>2, <1>4, <1>5, <1>6
  <2> QED BY <1>5, <1>6, <2>1, SeqEqual
<1> DEFINE before == SubSeq(told, from, k)
<1>8. before \in Seq(Byte) /\ before \o b = SubSeq(told, from, last)
  <2> HIDE DEF last, k
  <2>1. before \in Seq(Byte)
    BY <1>1, <1>4, SubSeqWithin DEF T
  <2>2. SubSeq(told, from, k) \o SubSeq(told, k + 1, last) = SubSeq(told, from, last)
    BY <1>4, ConcatAdjacentSubSeq DEF T
  <2> QED BY <2>1, <2>2 DEF next
<1>9. HistoryFeedBytes(HistoryFeedBytes(new, before), b) = HistoryFeedBytes(new, before \o b)
  <2>1. new \in Histories(CaptureLines)
    BY TerminalAssumption, NewHistoryTyped
  <2>2. before \in Seq(Byte) /\ b \in Seq(Byte)
    BY <1>6, <1>8
  <2> HIDE DEF new, before, b
  <2> QED BY <2>1, <2>2, CaptureConcat
<1>10. HistoryFeedBytes(cap.value, a) = HistoryFeedBytes(new, SubSeq(told, from, last))
  <2> HIDE DEF new, a, b, last, k
  <2> QED BY <1>3, <1>7, <1>8, <1>9
<1> QED BY <1>2, <1>10 DEF last, k, T, W, a, new

LEMMA ToldRead ==
  ASSUME NEW told \in Seq(Byte), NEW w \in Seq(Byte), NEW n \in 1..Len(w), NEW cap,
         NEW w2, NEW cap2, Arrives(told, w, cap),
         Len(w2) = Len(w) - n, \A i \in 1..(Len(w) - n) : w2[i] = w[n + i],
         Len(told) - Len(w) >= 0 => cap2 = Some(HistoryFeedBytes(cap.value, SubSeq(w, 1, n))),
         Len(told) - Len(w) < 0 /\ Len(told) - Len(w) + n >= 0 => cap2 = Some(NewHistory(CaptureLines))
  PROVE  Arrives(told, w2, cap2)
<1> DEFINE T == Len(told)
           W == Len(w)
           k == T - W
           a == SubSeq(w, 1, n)
           new == NewHistory(CaptureLines)
           last == k + n
<1>1. T \in Nat /\ W \in Nat /\ n \in Nat /\ n >= 1 /\ n <= W
  <2>1. T \in Nat /\ W \in Nat /\ n \in 1..W
    BY LenProperties
  <2> HIDE DEF T, W
  <2> QED BY <2>1
<1>2. T - (W - n) = last /\ last \in Int /\ last <= T /\ k \in Int /\ last = k + n
  <2> HIDE DEF T, W
  <2> QED BY <1>1
<1>3. \A i \in 1..W : k + i >= 1 => w[i] = told[k + i]
  BY DEF Arrives
<1>4. ASSUME NEW i \in 1..(W - n), last + i >= 1
      PROVE  w2[i] = told[last + i]
  <2>1. n + i \in 1..W /\ k + (n + i) = last + i
    <3> HIDE DEF T, W
    <3> QED BY <1>1
  <2> HIDE DEF last, k
  <2> QED BY <1>3, <1>4, <2>1
<1>5. ASSUME last >= 0
      PROVE  cap2.some /\ \E from \in 1..(last + 1) : cap2.value = HistoryFeedBytes(new, SubSeq(told, from, last))
  <2>1. CASE k >= 0
    <3>1. PICK from \in 1..(k + 1) : HistoryFeedBytes(cap.value, a) = HistoryFeedBytes(new, SubSeq(told, from, last))
      BY <2>1, CaptureRead
    <3>2. from \in 1..(last + 1)
      <4> HIDE DEF k, last
      <4> QED BY <1>1, <1>2, <3>1
    <3>3. cap2 = Some(HistoryFeedBytes(cap.value, a))
      BY <2>1
    <3> QED BY <3>1, <3>2, <3>3 DEF Some
  <2>2. CASE k < 0
    <3>1. cap2 = Some(new)
      BY <1>5, <2>2
    <3>2. new = HistoryFeedBytes(new, <<>>)
      <4>1. CaptureLines \in Nat /\ new \in Histories(CaptureLines) /\ NewOscParser \in OscParsers
        BY TerminalAssumption, NewHistoryTyped, NewParserTyped
      <4> HIDE DEF new
      <4> QED BY <4>1, FeedNothing
    <3> DEFINE from == last + 1
    <3>3. from \in 1..(last + 1) /\ from \in Int /\ last < from
      <4> HIDE DEF last
      <4> QED BY <1>2, <1>5
    <3>4. SubSeq(told, from, last) = <<>>
      <4> HIDE DEF from, last
      <4> QED BY <1>2, <3>3, SubSeqEmpty
    <3> HIDE DEF from, last, new
    <3> QED BY <3>1, <3>2, <3>3, <3>4 DEF Some
  <2> QED BY <1>2, <2>1, <2>2
<1>6. Len(w2) = W - n
  OBVIOUS
<1> HIDE DEF last, k, W, new
<1> QED BY <1>2, <1>4, <1>5, <1>6 DEF Arrives, T, new

(* What follows on the output and has no line does not change the lines of *)
(* a capture; one that begins behind the output has none.                  *)
LEMMA LinesOfCapture ==
  ASSUME NEW output \in Seq(Byte), NEW more \in Seq(Byte), \A i \in 1..Len(more) : more[i] # "\n",
         NEW last \in Len(output)..(Len(output) + Len(more)), NEW from \in 1..(last + 1)
  PROVE  \E m \in 1..(Len(output) + 1) :
           HistoryFeedBytes(NewHistory(CaptureLines), SubSeq(output \o more, from, last)).lines =
             HistoryFeedBytes(NewHistory(CaptureLines), SubSeq(output, m, Len(output))).lines
<1> DEFINE L == Len(output)
           M == Len(more)
           both == output \o more
           new == NewHistory(CaptureLines)
           next == L + 1
<1>1. /\ L \in Nat /\ M \in Nat /\ both \in Seq(Byte) /\ Len(both) = L + M
      /\ \A i \in 1..(L + M) : both[i] = IF i <= L THEN output[i] ELSE more[i - L]
  BY ConcatProperties, LenProperties
<1>2. /\ last \in Int /\ from \in Int /\ 1 <= from /\ from <= last + 1 /\ L <= last /\ last <= L + M
      /\ next \in Int /\ next \in 1..(L + 1)
  <2> HIDE DEF M
  <2> QED BY <1>1
<1>3. CaptureLines \in Nat /\ new \in Histories(CaptureLines) /\ NewOscParser \in OscParsers
  BY TerminalAssumption, NewHistoryTyped, NewParserTyped
<1> HIDE DEF new
<1>4. HistoryFeedBytes(new, <<>>) = new
  BY <1>3, FeedNothing
<1>5. ASSUME NEW m \in Int, L + 1 <= m, m <= last + 1
      PROVE  SubSeq(both, m, last) \in Seq(Byte) /\ \A i \in 1..Len(SubSeq(both, m, last)) : SubSeq(both, m, last)[i] # "\n"
  <2> DEFINE t == SubSeq(both, m, last)
  <2>1. t \in Seq(Byte) /\ Len(t) = last - m + 1 /\ \A i \in 1..(last - m + 1) : t[i] = both[m + i - 1]
    <3>1. 1 <= m /\ last <= Len(both)
      BY <1>1, <1>2, <1>5
    <3> HIDE DEF both
    <3> QED BY <1>1, <1>2, <1>5, <3>1, SubSeqWithin
  <2>2. \A i \in 1..M : more[i] # "\n"
    OBVIOUS
  <2> HIDE DEF t, both, L, M
  <2>3. ASSUME NEW i \in 1..(last - m + 1)
        PROVE  t[i] # "\n"
    <3> DEFINE at == m + i - 1
    <3>1. at \in 1..(L + M) /\ ~ (at <= L) /\ at - L \in 1..M
      BY <1>1, <1>2, <1>5
    <3> HIDE DEF at
    <3>2. both[at] = more[at - L]
      BY <1>1, <3>1
    <3>3. more[at - L] # "\n"
      BY <2>2, <3>1
    <3> QED BY <2>1, <3>2, <3>3 DEF at
  <2>4. \A i \in 1..Len(t) : t[i] # "\n"
    BY <2>1, <2>3
  <2> QED BY <2>1, <2>4 DEF t
<1>6. CASE from <= L + 1
  <2> DEFINE y == SubSeq(both, from, L)
             z == SubSeq(both, next, last)
  <2>1. y \o z = SubSeq(both, from, last)
    <3>1. from \in 1..(Len(both) + 1) /\ L \in (from - 1)..Len(both) /\ last \in L..Len(both)
      <4> HIDE DEF L, both, M
      <4> QED BY <1>1, <1>2, <1>6
    <3> HIDE DEF L, both
    <3> QED BY <1>1, <3>1, ConcatAdjacentSubSeq DEF next
  <2>2. y \in Seq(Byte)
    <3>1. L \in Int /\ from <= L + 1 /\ L <= Len(both)
      <4> HIDE DEF L, both, M
      <4> QED BY <1>1, <1>6
    <3> HIDE DEF L, both
    <3> QED BY <1>1, <1>2, <3>1, SubSeqWithin
  <2>3. z \in Seq(Byte) /\ \A i \in 1..Len(z) : z[i] # "\n"
    <3>1. next <= last + 1 /\ L + 1 <= next
      <4> HIDE DEF L
      <4> QED BY <1>1, <1>2
    <3> HIDE DEF L, both, next
    <3> QED BY <1>2, <1>5, <3>1
  <2>4. y = SubSeq(output, from, L)
    <3>1. CASE from <= L
      <4>1. from \in 1..Len(output) /\ L \in 1..Len(output)
        <5>1. from \in 1..L /\ L \in 1..L
          <6> HIDE DEF L
          <6> QED BY <1>1, <1>2, <3>1
        <5> QED BY <5>1
      <4> HIDE DEF L
      <4> QED BY <4>1, SubSeqOfConcat1
    <3>2. CASE ~ (from <= L)
      <4>1. L \in Int /\ L < from
        <5> HIDE DEF L
        <5> QED BY <1>1, <1>2, <3>2
      <4> HIDE DEF L, both
      <4> QED BY <1>2, <4>1, SubSeqEmpty
    <3> QED BY <3>1, <3>2
  <2> HIDE DEF y, z, both
  <2>5. HistoryFeedBytes(new, y \o z) = HistoryFeedBytes(HistoryFeedBytes(new, y), z)
    BY <1>3, <2>2, <2>3, CaptureConcat
  <2>6. HistoryFeedBytes(new, y) \in Histories(CaptureLines)
    BY <1>3, <2>2, HistoryFeedBytesTyped
  <2>7. HistoryFeedBytes(HistoryFeedBytes(new, y), z).lines = HistoryFeedBytes(new, y).lines
    BY <1>3, <2>3, <2>6, LinesStay
  <2>8. from \in 1..(L + 1)
    <3> HIDE DEF L
    <3> QED BY <1>1, <1>2, <1>6
  <2> QED BY <2>1, <2>4, <2>5, <2>7, <2>8 DEF new, both
<1>7. CASE ~ (from <= L + 1)
  <2> DEFINE t == SubSeq(both, from, last)
  <2>1. t \in Seq(Byte) /\ \A i \in 1..Len(t) : t[i] # "\n"
    <3>1. L + 1 <= from
      <4> HIDE DEF L
      <4> QED BY <1>1, <1>2, <1>7
    <3> HIDE DEF L, both
    <3> QED BY <1>2, <1>5, <3>1
  <2> HIDE DEF t
  <2>2. HistoryFeedBytes(new, t).lines = new.lines
    BY <1>3, <2>1, LinesStay
  <2>3. SubSeq(output, next, L) = <<>>
    <3>1. L \in Int /\ L < next
      <4> HIDE DEF L
      <4> QED BY <1>1
    <3> HIDE DEF L, next
    <3> QED BY <1>2, <3>1, SubSeqEmpty
  <2> QED BY <1>2, <1>4, <2>2, <2>3 DEF t, new, both
<1> QED BY <1>6, <1>7

(* C is the last of what is before what has been told since: k bytes of    *)
(* that have been read, fewer than none if C has not.  These are the marks *)
(* in the next n bytes, before D.                                          *)
Started(k, n) == IF k < 0 /\ k + n >= 0 THEN <<MarkC>> ELSE <<>>

(* With D, after d bytes, and of what follows the marks in more.           *)
Ended(k, n, d, code, more) ==
  IF k + n < d THEN {Started(k, n)}
  ELSE {(Started(k, n) \o <<MarkIn(MarkerD(code))>>) \o shown : shown \in more}

(* These are marks; and what is left of them once some have been read.     *)
LEMMA MarksAre ==
  /\ MarkC \in Marks /\ MarkC.kind = "C" /\ \A k, n \in Int : Started(k, n) \in Seq(Marks)
  /\ \A code \in {0, 1} : /\ MarkerD(code) \in ShellMarkers /\ Len(MarkerD(code)) = 8
                          /\ MarkIn(MarkerD(code)) \in Marks
                          /\ MarkIn(MarkerD(code)).kind = "D" /\ MarkIn(MarkerD(code)).code = code
  /\ Prompts \subseteq Seq(Marks) /\ <<>> \in Prompts
<1>1. ASSUME NEW m \in ShellMarkers
      PROVE  MarkIn(m) \in Marks /\ MarkIn(m).kind = m[5]
  <2> DEFINE code == IF Len(m) = 6 THEN NoExitCode ELSE IF m[7] = "0" THEN 0 ELSE 1
  <2>1. m[5] \in MarkKind
    BY ShellMarkersAre
  <2>2. code \in Int
    BY DEF NoExitCode
  <2>3. MarkIn(m) = [kind |-> m[5], code |-> code]
    BY DEF MarkIn
  <2> HIDE DEF code
  <2> QED BY <2>1, <2>2, <2>3 DEF Marks
<1>2. ASSUME NEW code \in {0, 1}
      PROVE  /\ MarkerD(code) \in ShellMarkers /\ Len(MarkerD(code)) = 8
             /\ MarkIn(MarkerD(code)) \in Marks
             /\ MarkIn(MarkerD(code)).kind = "D" /\ MarkIn(MarkerD(code)).code = code
  <2> DEFINE m == MarkerD(code)
  <2>1. m \in ShellMarkers
    BY DEF ShellMarkers
  <2>2. Len(m) = 8 /\ m[5] = "D" /\ m[7] = IF code = 0 THEN "0" ELSE "1"
    BY DEF MarkerD
  <2> HIDE DEF m
  <2>3. MarkIn(m).code = code
    <3>1. MarkIn(m).code = IF m[7] = "0" THEN 0 ELSE 1
      BY <2>2 DEF MarkIn
    <3> QED BY <2>2, <3>1
  <2> QED BY <1>1, <2>1, <2>2, <2>3 DEF m
<1>3. /\ Marker("A") \in ShellMarkers /\ Marker("B") \in ShellMarkers /\ Marker("C") \in ShellMarkers
      /\ Marker("C")[5] = "C"
  BY DEF ShellMarkers, Marker
<1>4. MarkC \in Marks /\ MarkC.kind = "C"
  BY <1>1, <1>3 DEF MarkC
<1>5. <<MarkC>> \in Seq(Marks) /\ <<>> \in Seq(Marks)
  BY <1>4
<1>6. Prompts \subseteq Seq(Marks) /\ <<>> \in Prompts
  <2> DEFINE a == MarkIn(Marker("A"))
             b == MarkIn(Marker("B"))
  <2>1. a \in Marks /\ b \in Marks
    BY <1>1, <1>3
  <2> HIDE DEF a, b
  <2>2. <<>> \in Seq(Marks) /\ <<a>> \in Seq(Marks) /\ <<a, b>> \in Seq(Marks)
    BY <2>1
  <2> QED BY <2>2 DEF Prompts, a, b
<1> QED BY <1>2, <1>4, <1>5, <1>6 DEF Started

LEMMA StartedConcat ==
  ASSUME NEW k \in Int, NEW n \in Nat, NEW i \in Nat
  PROVE  Started(k, n + i) = Started(k, n) \o Started(k + n, i)
<1>1. <<>> \in Seq(Marks) /\ <<MarkC>> \in Seq(Marks)
  BY MarksAre
<1>2. <<>> \o <<>> = <<>> /\ <<MarkC>> \o <<>> = <<MarkC>> /\ <<>> \o <<MarkC>> = <<MarkC>>
  BY <1>1, ConcatEmptySeq
<1>3. CASE k < 0 /\ k + n >= 0
  <2>1. k + (n + i) >= 0 /\ ~ (k + n < 0)
    BY <1>3
  <2> QED BY <1>2, <1>3, <2>1 DEF Started
<1>4. CASE k < 0 /\ ~ (k + n >= 0)
  <2>1. k + n < 0 /\ k + (n + i) = (k + n) + i
    BY <1>4
  <2> QED BY <1>2, <1>4, <2>1 DEF Started
<1>5. CASE ~ (k < 0)
  <2>1. ~ (k + n < 0)
    BY <1>5
  <2> QED BY <1>2, <1>5, <2>1 DEF Started
<1> QED BY <1>3, <1>4, <1>5

(* Once n bytes have been read those marks are left that were after them.  *)
LEMMA StartedRest ==
  ASSUME NEW k \in Int, NEW n \in Nat, NEW i \in Nat, NEW x \in Seq(Marks),
         Started(k, n + i) = Started(k, n) \o x
  PROVE  x = Started(k + n, i)
<1>1. Started(k, n) \in Seq(Marks) /\ Started(k + n, i) \in Seq(Marks)
  <2>1. k + n \in Int /\ i \in Int /\ n \in Int
    OBVIOUS
  <2> QED BY <2>1, MarksAre
<1>2. Started(k, n) \o x = Started(k, n) \o Started(k + n, i)
  BY StartedConcat
<1> QED BY <1>1, <1>2, ConcatSimplifications

LEMMA EndedRest ==
  ASSUME NEW k \in Int, NEW n \in Nat, NEW i \in Nat, NEW d \in Int, k + n < d, NEW code \in {0, 1},
         NEW more \in SUBSET Seq(Marks), NEW x \in Seq(Marks),
         Started(k, n) \o x \in Ended(k, n + i, d, code, more)
  PROVE  x \in Ended(k + n, i, d, code, more)
<1>1. k + (n + i) = (k + n) + i
  OBVIOUS
<1>2. CASE (k + n) + i < d
  <2>1. Started(k, n + i) = Started(k, n) \o x
    BY <1>1, <1>2 DEF Ended
  <2>2. x = Started(k + n, i)
    BY <2>1, StartedRest, ZenonT(60)
  <2> QED BY <1>2, <2>2 DEF Ended
<1>3. CASE ~ ((k + n) + i < d)
  <2> DEFINE a == Started(k, n)
             b == Started(k + n, i)
             last == <<MarkIn(MarkerD(code))>>
  <2>1. PICK shown \in more : a \o x = (Started(k, n + i) \o last) \o shown
    BY <1>1, <1>3 DEF Ended
  <2>2. a \in Seq(Marks) /\ b \in Seq(Marks) /\ last \in Seq(Marks) /\ shown \in Seq(Marks)
    <3>1. k + n \in Int /\ i \in Int /\ n \in Int
      OBVIOUS
    <3>2. a \in Seq(Marks) /\ b \in Seq(Marks)
      BY <3>1, MarksAre
    <3>3. MarkIn(MarkerD(code)) \in Marks
      BY MarksAre
    <3>4. last \in Seq(Marks)
      BY <3>3
    <3>5. shown \in Seq(Marks)
      OBVIOUS
    <3> QED BY <3>2, <3>4, <3>5
  <2>3. Started(k, n + i) = a \o b
    BY StartedConcat
  <2> HIDE DEF a, b, last
  <2>4. ((a \o b) \o last) \o shown = a \o ((b \o last) \o shown) /\ (b \o last) \o shown \in Seq(Marks)
    BY <2>2, ConcatFour
  <2>6. a \o x = a \o ((b \o last) \o shown)
    BY <2>1, <2>3, <2>4
  <2>7. x = (b \o last) \o shown
    BY <2>2, <2>4, <2>6, ConcatSimplifications
  <2> QED BY <1>3, <2>7 DEF Ended, b, last
<1> QED BY <1>2, <1>3

(* The user's commands that have ended.                                    *)
EndedCommands == [cmd : Seq(TtyKey), code : {0, 1}, output : Seq(Byte)]

(* The line is about to be entered.                                        *)
Entering(keys) == keys # <<>> /\ keys[Len(keys)] = NEWLINE

(* The keys on their way to the shell, and line_buf, which at a prompt is  *)
(* the line that the shell will have read when no more are on their way;   *)
(* it is not empty only while no marker is on its way that would clear it. *)
LineInv ==
  /\ tty # <<>> => shell.phase = "prompt"
  /\ \A i \in 1..Len(tty) : tty[i] = NEWLINE => i = Len(tty)
  /\ line_buf # <<>> => mode = "Idle" /\ shell.phase = "prompt" /\ ~Entering(tty) /\ Quiet
  /\ shell.phase = "prompt" /\ ~Entering(tty) => Holds(shell.line, tty, Len(tty), line_buf)
  /\ shell.phase = "prompt" => OscFeedBytes(parser, wire).parser.terminal_state = "Input"
  /\ shell.phase # "running" => shell.output = <<>>

(* What is recorded is what has ended, in order.                           *)
IsEndOf(lines, output) ==
  \E from \in 1..(Len(output) + 1) :
    lines = HistoryFeedBytes(NewHistory(CaptureLines), SubSeq(output, from, Len(output))).lines

Noted ==
  /\ Len(recorded) <= Len(ended)
  /\ \A i \in 1..Len(recorded) :
       /\ recorded[i].cmd = ended[i].cmd /\ recorded[i].code = ended[i].code
       /\ IsEndOf(recorded[i].output, ended[i].output)

(* No command of the user is remembered: all that have ended are recorded, *)
(* and what is entered or runs is none.                                    *)
NoCommand ==
  /\ pending = None /\ Len(recorded) = Len(ended)
  /\ shell.phase = "prompt" /\ Entering(tty) =>
       \E line \in {<<>>, <<"#">>, <<"a">>} : Holds(shell.line, tty, Len(tty) - 1, line)
  /\ shell.phase = "running" => shell.line = <<"a">>

(* The command that is remembered is on its way to the shell.              *)
CommandTyped ==
  /\ pending.some /\ mode = "Idle" /\ Len(recorded) = Len(ended)
  /\ shell.phase = "prompt" /\ Entering(tty) /\ Quiet
  /\ Holds(shell.line, tty, Len(tty) - 1, pending.value)

(* The shell runs it; C, or what it has printed since, is on its way.      *)
CommandRuns ==
  LET k == Len(shell.output) - Len(wire) IN
  /\ pending.some /\ mode = "Idle" /\ Len(recorded) = Len(ended)
  /\ shell.phase = "running" /\ shell.line = pending.value
  /\ Arrives(shell.output, wire, capture)
  /\ \A n \in 0..Len(wire) : Ahead(n) = Started(k, n)

(* The shell has ended it, and its D is on its way, and maybe the prompt.  *)
Told(last, phase) ==
  last.output \o (MarkerD(last.code) \o (IF phase = "prompt" THEN PromptShown ELSE <<>>))

AfterD(phase) == IF phase = "prompt" THEN Prompts ELSE {<<>>}

EndedAs(last) ==
  LET told == Told(last, shell.phase)
      k    == Len(told) - Len(wire)
      d    == Len(last.output) + 8
  IN /\ last.cmd = pending.value /\ k < d /\ Arrives(told, wire, capture)
     /\ \A n \in 0..Len(wire) : Ahead(n) \in Ended(k, n, d, last.code, AfterD(shell.phase))

CommandEnded ==
  /\ pending.some /\ mode = "Idle" /\ Len(ended) = Len(recorded) + 1
  /\ shell.phase \in {"prompting", "prompt"} /\ tty = <<>>
  /\ EndedAs(ended[Len(ended)])

(* The inductive invariant, and what it says when nothing is on its way.   *)
RecordInv ==
  /\ LineInv /\ ended \in Seq(EndedCommands) /\ Noted
  /\ NoCommand \/ CommandTyped \/ CommandRuns \/ CommandEnded

LEMMA RecordInvRecords == TypeInv /\ RecordInv => CommandsRecorded
<1> SUFFICES ASSUME TypeInv, RecordInv PROVE CommandsRecorded
  OBVIOUS
<1>1. Noted
  BY DEF RecordInv
<1>2. ASSUME wire = <<>>
      PROVE  Len(recorded) = Len(ended)
  <2>1. CASE CommandEnded
    <3> DEFINE last == ended[Len(ended)]
               told == Told(last, shell.phase)
               more == IF shell.phase = "prompt" THEN PromptShown ELSE <<>>
               marker == MarkerD(last.code)
    <3>1. Len(told) - Len(wire) < Len(last.output) + 8
      BY <2>1 DEF CommandEnded, EndedAs
    <3>2. last \in EndedCommands
      <4>1. ended \in Seq(EndedCommands) /\ Len(ended) = Len(recorded) + 1
        BY <2>1 DEF RecordInv, CommandEnded
      <4>2. Len(ended) \in Nat /\ Len(recorded) \in Nat
        BY <4>1, LenProperties DEF TypeInv
      <4>3. Len(ended) \in 1..Len(ended)
        BY <4>1, <4>2
      <4> QED BY <4>1, <4>3, ElementOfSeq
    <3>3. last.output \in Seq(Byte) /\ marker \in Seq(Byte) /\ Len(marker) = 8 /\ more \in Seq(Byte)
      <4>1. last.code \in {0, 1} /\ last.output \in Seq(Byte)
        BY <3>2 DEF EndedCommands
      <4>2. marker \in Seq(Byte) /\ Len(marker) = 8
        BY <4>1, MarksAre, ShellMarkersAre
      <4> QED BY <4>1, <4>2, ShellPrintsBytes, EmptySeq DEF PromptShown
    <3> HIDE DEF marker, more, last
    <3>4. marker \o more \in Seq(Byte) /\ Len(marker \o more) = Len(marker) + Len(more)
      BY <3>3, ConcatProperties
    <3> DEFINE both == marker \o more
    <3> HIDE DEF both
    <3>5. Len(last.output \o both) = Len(last.output) + Len(both)
      BY <3>3, <3>4, ConcatProperties DEF both
    <3>6. told = last.output \o both
      BY DEF Told, both, marker, more
    <3>7. Len(wire) = 0 /\ Len(last.output) \in Nat /\ Len(more) \in Nat /\ Len(both) = 8 + Len(more)
      BY <1>2, <3>3, <3>4, LenProperties DEF both
    <3> HIDE DEF told
    <3> QED BY <3>1, <3>5, <3>6, <3>7
  <2> QED BY <2>1 DEF RecordInv, NoCommand, CommandTyped, CommandRuns
<1> QED BY <1>1, <1>2 DEF CommandsRecorded, Noted, IsEndOf

(* A chunk is read: the marks in it change what they may.                  *)
FedCapture(n) ==
  IF Idle /\ capture.some THEN Some(HistoryFeedBytes(capture.value, SubSeq(wire, 1, n))) ELSE capture

MarkState(n) ==
  [line_buf |-> line_buf, capture |-> FedCapture(n), pending |-> pending, recorded |-> recorded]

LEMMA ReadMarks ==
  ASSUME TypeInv, NEW n \in 1..Len(wire), Read(n)
  PROVE  /\ MarkState(n) \in MarkStates /\ Ahead(n) \in Seq(Marks)
         /\ line_buf' = AllMarked(MarkState(n), Ahead(n)).line_buf
         /\ capture' = AllMarked(MarkState(n), Ahead(n)).capture
         /\ pending' = AllMarked(MarkState(n), Ahead(n)).pending
         /\ recorded' = AllMarked(MarkState(n), Ahead(n)).recorded
         /\ mode' = mode /\ tty' = tty /\ shell' = shell /\ ended' = ended
         /\ AllMarked(MarkState(n), <<>>) = MarkState(n)
<1> DEFINE chunk == SubSeq(wire, 1, n)
           marks == OscFeedBytes(parser, chunk).marks
<1>1. chunk \in Seq(Byte)
  BY ReadTyped DEF TypeInv
<1>2. marks \in Seq(Marks) /\ marks = Ahead(n)
  <2>1. marks = Ahead(n)
    BY AheadRead
  <2> HIDE DEF chunk
  <2>2. marks \in Seq(Marks)
    BY <1>1, OscFeedBytesTyped DEF TypeInv
  <2> QED BY <2>1, <2>2
<1>3. /\ line_buf' = AllMarked(MarkState(n), marks).line_buf
      /\ capture' = AllMarked(MarkState(n), marks).capture
      /\ pending' = AllMarked(MarkState(n), marks).pending
      /\ recorded' = AllMarked(MarkState(n), marks).recorded
  BY DEF Read, OnPtyOutput, MarkState, FedCapture
<1>4. mode' = mode /\ tty' = tty /\ shell' = shell /\ ended' = ended
  BY DEF Read
<1>5. FedCapture(n) \in Captures
  <2>1. ASSUME capture.some
        PROVE  Some(HistoryFeedBytes(capture.value, chunk)) \in Captures
    <3>1. CaptureLines \in Nat /\ capture.value \in Histories(CaptureLines)
      BY <2>1, OptionIs, TerminalAssumption DEF TypeInv, Captures
    <3> HIDE DEF chunk
    <3>2. HistoryFeedBytes(capture.value, chunk) \in Histories(CaptureLines)
      BY <1>1, <3>1, HistoryFeedBytesTyped
    <3> QED BY <3>2 DEF Captures, Option
  <2> QED BY <2>1 DEF TypeInv, FedCapture
<1>6. MarkState(n) \in MarkStates
  BY <1>5 DEF MarkState, MarkStates, TypeInv
<1>7. AllMarked(MarkState(n), <<>>) = MarkState(n)
  BY <1>6, MarksAre, AllMarkedOne
<1> QED BY <1>2, <1>3, <1>4, <1>6, <1>7

(* The line, of which a chunk of output clears no more than is already     *)
(* empty.                                                                  *)
LEMMA LineRead ==
  ASSUME TypeInv, LineInv, NEW n \in 1..Len(wire), Read(n)
  PROVE  LineInv' /\ (Quiet => Quiet' /\ Ahead(n) = <<>>)
<1>1. /\ Len(wire) \in Nat /\ Len(wire)' = Len(wire) - n
      /\ \A i \in 0..(Len(wire) - n) : Ahead(n + i) = Ahead(n) \o Ahead(i)'
      /\ \A i \in 0..(Len(wire) - n) : Ahead(i)' \in Seq(Marks)
      /\ OscFeedBytes(parser, wire)'.parser = OscFeedBytes(parser, wire).parser
  BY AheadRead
<1>2. ASSUME Quiet
      PROVE  Quiet' /\ Ahead(n) = <<>>
  <2>1. n \in 0..Len(wire)
    BY <1>1
  <2>2. Ahead(n) = <<>>
    BY <1>2, <2>1 DEF Quiet
  <2>3. ASSUME NEW i \in 0..(Len(wire) - n)
        PROVE  Ahead(i)' = <<>>
    <3>1. n + i \in 0..Len(wire)
      BY <1>1
    <3>2. Ahead(n + i) = <<>>
      BY <1>2, <3>1 DEF Quiet
    <3>3. <<>> = <<>> \o Ahead(i)' /\ Ahead(i)' \in Seq(Marks)
      BY <1>1, <2>2, <3>2
    <3>4. <<>> \o Ahead(i)' = Ahead(i)'
      BY <3>3, ConcatEmptySeq
    <3> QED BY <3>3, <3>4
  <2>4. Quiet'
    BY <1>1, <2>3 DEF Quiet
  <2> QED BY <2>2, <2>4
<1>3. line_buf' = line_buf
  <2>1. MarkState(n).line_buf = line_buf
    BY DEF MarkState
  <2>2. CASE line_buf = <<>>
    BY <2>1, <2>2, ReadMarks, AllMarkedKeeps
  <2>3. CASE line_buf # <<>>
    <3>1. Ahead(n) = <<>>
      BY <1>2, <2>3 DEF LineInv
    <3> QED BY <2>1, <3>1, ReadMarks
  <2> QED BY <2>2, <2>3
<1>4. mode' = mode /\ tty' = tty /\ shell' = shell
  BY DEF Read
<1>5. OscFeedBytes(parser', wire').parser = OscFeedBytes(parser, wire).parser
  BY <1>1
<1> QED BY <1>2, <1>3, <1>4, <1>5 DEF LineInv

(* A chunk is read in each of the four cases.                              *)
LEMMA NoCommandRead ==
  ASSUME TypeInv, Noted, NoCommand, NEW n \in 1..Len(wire), Read(n)
  PROVE  Noted' /\ NoCommand'
<1>1. /\ mode' = mode /\ tty' = tty /\ shell' = shell /\ ended' = ended
  BY ReadMarks
<1>2. MarkState(n).pending = None /\ MarkState(n).recorded = recorded
  BY DEF MarkState, NoCommand
<1>3. pending' = None /\ recorded' = recorded
  BY <1>2, ReadMarks, AllMarkedKeeps
<1> QED BY <1>1, <1>3 DEF Noted, NoCommand

LEMMA CommandTypedRead ==
  ASSUME TypeInv, LineInv, Noted, CommandTyped, NEW n \in 1..Len(wire), Read(n)
  PROVE  Noted' /\ CommandTyped'
<1>1. /\ mode' = mode /\ tty' = tty /\ shell' = shell /\ ended' = ended
  BY ReadMarks
<1>2. Quiet' /\ Ahead(n) = <<>>
  BY LineRead DEF CommandTyped
<1>3. pending' = pending /\ recorded' = recorded
  <2>1. MarkState(n).pending = pending /\ MarkState(n).recorded = recorded
    BY DEF MarkState
  <2> QED BY <1>2, <2>1, ReadMarks
<1> QED BY <1>1, <1>2, <1>3 DEF Noted, CommandTyped

(* The capture, of what the shell has told since C.                        *)
LEMMA ToldCaptured ==
  ASSUME TypeInv, NEW n \in 1..Len(wire), Read(n), NEW told \in Seq(Byte), Arrives(told, wire, capture),
         mode = "Idle", pending.some, Ahead(n) = Started(Len(told) - Len(wire), n)
  PROVE  pending' = pending /\ recorded' = recorded /\ Arrives(told, wire', capture')
<1> DEFINE k == Len(told) - Len(wire)
           s == MarkState(n)
<1>1. /\ wire \in Seq(Byte) /\ Len(wire)' = Len(wire) - n /\ \A i \in 1..(Len(wire) - n) : wire'[i] = wire[n + i]
  BY AheadRead DEF TypeInv
<1>2. s \in MarkStates /\ s.pending = pending /\ s.recorded = recorded /\ s.capture = FedCapture(n)
  BY ReadMarks DEF MarkState
<1>3. Idle
  BY DEF Idle
<1>4. k >= 0 => capture.some
  BY DEF Arrives
<1>5. CASE k < 0 /\ k + n >= 0
  <2>1. Ahead(n) = <<MarkC>> /\ MarkC \in Marks /\ MarkC.kind = "C"
    BY <1>5, MarksAre DEF Started
  <2>2. AllMarked(s, Ahead(n)) = Marked(s, MarkC)
    <3> HIDE DEF s
    <3> QED BY <1>2, <2>1, AllMarkedOne
  <2>3. /\ Marked(s, MarkC).pending = s.pending /\ Marked(s, MarkC).recorded = s.recorded
        /\ Marked(s, MarkC).capture = Some(NewHistory(CaptureLines))
    <3> HIDE DEF s
    <3> QED BY <1>2, <1>3, <2>1, MarksDo
  <2>4. pending' = pending /\ recorded' = recorded /\ capture' = Some(NewHistory(CaptureLines))
    BY <1>2, <2>2, <2>3, ReadMarks
  <2>5. ~ (k >= 0)
    <3>1. k \in Int
      BY <1>1, LenProperties
    <3> HIDE DEF k
    <3> QED BY <1>5, <3>1
  <2>6. Arrives(told, wire', capture')
    <3> DEFINE w2 == wire'
               cap2 == capture'
    <3>1. /\ Len(w2) = Len(wire) - n /\ \A i \in 1..(Len(wire) - n) : w2[i] = wire[n + i]
          /\ cap2 = Some(NewHistory(CaptureLines))
      BY <1>1, <2>4
    <3> HIDE DEF w2, cap2
    <3>2. Arrives(told, w2, cap2)
      BY <1>1, <2>5, <3>1, ToldRead
    <3> QED BY <3>2 DEF w2, cap2
  <2> QED BY <2>4, <2>6
<1>6. CASE ~ (k < 0 /\ k + n >= 0)
  <2>1. Ahead(n) = <<>>
    BY <1>6 DEF Started
  <2>2. pending' = pending /\ recorded' = recorded /\ capture' = FedCapture(n)
    BY <1>2, <2>1, ReadMarks
  <2>3. k >= 0 => capture' = Some(HistoryFeedBytes(capture.value, SubSeq(wire, 1, n)))
    BY <1>3, <1>4, <2>2 DEF FedCapture
  <2>4. Arrives(told, wire', capture')
    <3> DEFINE w2 == wire'
               cap2 == capture'
    <3>1. /\ Len(w2) = Len(wire) - n /\ \A i \in 1..(Len(wire) - n) : w2[i] = wire[n + i]
          /\ k >= 0 => cap2 = Some(HistoryFeedBytes(capture.value, SubSeq(wire, 1, n)))
      BY <1>1, <2>3
    <3> HIDE DEF w2, cap2
    <3>2. Arrives(told, w2, cap2)
      BY <1>1, <1>6, <3>1, ToldRead
    <3> QED BY <3>2 DEF w2, cap2
  <2> QED BY <2>2, <2>4
<1> QED BY <1>5, <1>6

LEMMA CommandRunsRead ==
  ASSUME TypeInv, Noted, CommandRuns, NEW n \in 1..Len(wire), Read(n)
  PROVE  Noted' /\ CommandRuns'
<1> DEFINE told == shell.output
           W == Len(wire)
           k == Len(told) - W
           j == k + n
<1>1. /\ mode' = mode /\ tty' = tty /\ shell' = shell /\ ended' = ended
  BY ReadMarks
<1>2. /\ W \in Nat /\ Len(wire)' = W - n /\ n \in Nat /\ n \in 0..W
      /\ \A i \in 0..(W - n) : Ahead(n + i) = Ahead(n) \o Ahead(i)'
      /\ \A i \in 0..(W - n) : Ahead(i)' \in Seq(Marks)
  <2>1. W \in Nat
    BY AheadRead
  <2> QED BY <2>1, AheadRead
<1>3. told \in Seq(Byte) /\ k \in Int
  <2>1. told \in Seq(Byte)
    BY DEF TypeInv, Shells
  <2>2. Len(told) \in Nat
    BY <2>1, LenProperties
  <2> QED BY <1>2, <2>1, <2>2
<1>4. /\ pending.some /\ mode = "Idle" /\ Arrives(told, wire, capture)
      /\ \A m \in 0..W : Ahead(m) = Started(k, m)
  BY DEF CommandRuns
<1>5. pending' = pending /\ recorded' = recorded /\ Arrives(told, wire', capture')
  <2>1. Ahead(n) = Started(Len(told) - Len(wire), n)
    BY <1>2, <1>4
  <2> HIDE DEF told, k, W
  <2> QED BY <1>3, <1>4, <2>1, ToldCaptured
<1>6. ASSUME NEW i \in 0..(W - n)
      PROVE  Ahead(i)' = Started(j, i)
  <2> DEFINE x == Ahead(i)'
  <2>1. n + i \in 0..W /\ i \in Nat
    BY <1>2
  <2>2. Started(k, n + i) = Started(k, n) \o x /\ x \in Seq(Marks)
    BY <1>2, <1>4, <2>1
  <2> HIDE DEF x, k
  <2>3. x = Started(k + n, i)
    BY <1>2, <1>3, <2>1, <2>2, StartedRest
  <2> QED BY <2>3 DEF x
<1>7. Len(told) - (W - n) = j
  <2>1. Len(told) \in Nat
    BY <1>3, LenProperties
  <2> HIDE DEF told, W
  <2> QED BY <1>2, <2>1
<1>8. CommandRuns'
  <2> DEFINE now == Len(shell'.output) - Len(wire')
  <2>1. now = j /\ Len(wire') = W - n
    BY <1>1, <1>2, <1>7
  <2>2. /\ pending'.some /\ mode' = "Idle" /\ Len(recorded') = Len(ended') /\ shell'.phase = "running"
        /\ shell'.line = pending'.value /\ Arrives(shell'.output, wire', capture')
    BY <1>1, <1>5 DEF CommandRuns
  <2>3. \A i \in 0..Len(wire') : Ahead(i)' = Started(now, i)
    BY <1>6, <2>1
  <2> QED BY <2>2, <2>3 DEF CommandRuns
<1> QED BY <1>1, <1>5, <1>8 DEF Noted

(* What is told of a command that has ended, and its length.               *)
LEMMA ToldIs ==
  ASSUME NEW last \in EndedCommands, NEW phase
  PROVE  /\ last.code \in {0, 1} /\ last.output \in Seq(Byte) /\ last.cmd \in Seq(TtyKey)
         /\ Told(last, phase) \in Seq(Byte)
         /\ \E more \in Seq(Byte) :
              /\ Told(last, phase) = last.output \o more /\ \A i \in 1..Len(more) : more[i] # "\n"
              /\ Len(more) \in Nat /\ Len(Told(last, phase)) = Len(last.output) + Len(more)
<1> DEFINE shown == IF phase = "prompt" THEN PromptShown ELSE <<>>
           marker == MarkerD(last.code)
           more == marker \o shown
<1>1. last.code \in {0, 1} /\ last.output \in Seq(Byte) /\ last.cmd \in Seq(TtyKey)
  BY DEF EndedCommands
<1>2. marker \in Seq(Byte) /\ \A i \in 1..Len(marker) : marker[i] # "\n"
  <2>1. marker \in ShellMarkers /\ marker \in Seq(Byte) /\ Len(marker) = 8
    BY <1>1, MarksAre, ShellPrintsBytes
  <2> HIDE DEF marker
  <2>2. /\ marker[1] = ESC /\ marker[2] = "]" /\ marker[3] = "133" /\ marker[4] = ";" /\ marker[5] = "D"
        /\ marker[6] = ";" /\ marker[7] \in {"0", "1"} /\ marker[8] = BEL
    <3>1. Len(marker) = 8
      BY <2>1
    <3> QED BY <2>1, <3>1, ShellMarkersAre
  <2>3. ASSUME NEW i \in 1..8
        PROVE  marker[i] # "\n"
    <3>1. i = 1 \/ i = 2 \/ i = 3 \/ i = 4 \/ i = 5 \/ i = 6 \/ i = 7 \/ i = 8
      OBVIOUS
    <3>2. marker[i] \in {ESC, "]", "133", ";", "D", "0", "1", BEL}
      BY <2>2, <3>1
    <3> QED BY <3>2 DEF ESC, BEL
  <2> QED BY <2>1, <2>3
<1>3. shown \in Seq(Byte) /\ \A i \in 1..Len(shown) : shown[i] # "\n"
  <2>1. <<>> \in Seq(Byte) /\ Whole(<<>>)
    BY EmptySeq DEF Whole
  <2>2. PromptShown \in Seq(Byte) /\ \A i \in 1..Len(PromptShown) : PromptShown[i] # "\n"
    BY <2>1, PromptMarks
  <2>3. \A i \in 1..Len(<<>>) : <<>>[i] # "\n"
    OBVIOUS
  <2> QED BY <2>1, <2>2, <2>3
<1> HIDE DEF marker, shown
<1>4. more \in Seq(Byte) /\ Len(more) \in Nat /\ \A i \in 1..Len(more) : more[i] # "\n"
  <2>1. /\ more \in Seq(Byte) /\ Len(more) = Len(marker) + Len(shown)
        /\ \A i \in 1..Len(more) : more[i] = IF i <= Len(marker) THEN marker[i] ELSE shown[i - Len(marker)]
    BY <1>2, <1>3, ConcatProperties
  <2>2. Len(marker) \in Nat /\ Len(shown) \in Nat /\ Len(more) \in Nat
    BY <1>2, <1>3, <2>1, LenProperties
  <2> HIDE DEF more
  <2>3. ASSUME NEW i \in 1..Len(more)
        PROVE  more[i] # "\n"
    <3>1. CASE i <= Len(marker)
      <4>1. i \in 1..Len(marker)
        BY <2>2, <3>1
      <4> QED BY <1>2, <2>1, <3>1, <4>1
    <3>2. CASE ~ (i <= Len(marker))
      <4>1. i - Len(marker) \in 1..Len(shown)
        BY <2>1, <2>2, <3>2
      <4> QED BY <1>3, <2>1, <3>2, <4>1
    <3> QED BY <3>1, <3>2
  <2> QED BY <2>1, <2>2, <2>3
<1>5. Told(last, phase) = last.output \o more
  BY DEF Told, marker, shown
<1> HIDE DEF more
<1>6. last.output \o more \in Seq(Byte) /\ Len(last.output \o more) = Len(last.output) + Len(more)
  BY <1>1, <1>4, ConcatProperties
<1> QED BY <1>1, <1>4, <1>5, <1>6

(* When D is read, a capture has the end of what the command printed: what *)
(* came between C and D, and of the chunk that D is in what follows it,    *)
(* which is no line.                                                       *)
LEMMA EndIsCaptured ==
  ASSUME NEW last \in EndedCommands, NEW phase, NEW w \in Seq(Byte), NEW n \in 1..Len(w), NEW cap,
         Arrives(Told(last, phase), w, cap), Len(Told(last, phase)) - Len(w) >= 0,
         Len(Told(last, phase)) - Len(w) + n >= Len(last.output) + 8
  PROVE  cap.some /\ IsEndOf(HistoryFeedBytes(cap.value, SubSeq(w, 1, n)).lines, last.output)
<1> DEFINE told == Told(last, phase)
           k == Len(told) - Len(w)
           output == last.output
<1>1. PICK more \in Seq(Byte) :
        /\ told = output \o more /\ \A i \in 1..Len(more) : more[i] # "\n"
        /\ Len(more) \in Nat /\ Len(told) = Len(output) + Len(more)
  BY ToldIs
<1>2. output \in Seq(Byte) /\ told \in Seq(Byte)
  BY ToldIs
<1>3. Len(output) \in Nat /\ Len(told) \in Nat /\ Len(w) \in Nat
  BY <1>2, LenProperties
<1> HIDE DEF told, output
<1>4. PICK from \in 1..(k + 1) :
        HistoryFeedBytes(cap.value, SubSeq(w, 1, n)) =
          HistoryFeedBytes(NewHistory(CaptureLines), SubSeq(told, from, k + n))
  BY <1>2, CaptureRead DEF told
<1>5. cap.some
  BY <1>2, CaptureRead DEF told
<1>6. k >= 0 /\ k + n >= Len(output) + 8 /\ k \in Int /\ k = Len(told) - Len(w)
  BY <1>3 DEF told, output
<1> HIDE DEF k
<1>7. k + n \in Len(output)..(Len(output) + Len(more)) /\ from \in 1..((k + n) + 1)
  BY <1>1, <1>3, <1>6
<1>8. \E m \in 1..(Len(output) + 1) :
        HistoryFeedBytes(NewHistory(CaptureLines), SubSeq(output \o more, from, k + n)).lines =
          HistoryFeedBytes(NewHistory(CaptureLines), SubSeq(output, m, Len(output))).lines
  BY <1>1, <1>2, <1>7, LinesOfCapture
<1>9. HistoryFeedBytes(cap.value, SubSeq(w, 1, n)).lines =
        HistoryFeedBytes(NewHistory(CaptureLines), SubSeq(output \o more, from, k + n)).lines
  BY <1>1, <1>4
<1> QED BY <1>5, <1>8, <1>9 DEF IsEndOf, output

(* A capture that has just begun has the end of it too: nothing.           *)
LEMMA NothingIsEnd ==
  ASSUME NEW output \in Seq(Byte)
  PROVE  IsEndOf(NewHistory(CaptureLines).lines, output)
<1>1. Len(output) \in Nat /\ CaptureLines \in Nat
  BY LenProperties, TerminalAssumption
<1>2. Len(output) + 1 \in 1..(Len(output) + 1)
  BY <1>1
<1>3. SubSeq(output, Len(output) + 1, Len(output)) = <<>>
  BY <1>1, SubSeqWithin, EmptySeq
<1>4. HistoryFeedBytes(NewHistory(CaptureLines), <<>>) = NewHistory(CaptureLines)
  BY <1>1, NewHistoryTyped, NewParserTyped, FeedNothing
<1> QED BY <1>2, <1>3, <1>4 DEF IsEndOf

(* Of a command that has ended, and its output, a chunk is read.           *)
LEMMA BeforeItsD ==
  ASSUME TypeInv, Noted, CommandEnded, ended \in Seq(EndedCommands), NEW n \in 1..Len(wire), Read(n),
         Len(Told(ended[Len(ended)], shell.phase)) - Len(wire) + n < Len(ended[Len(ended)].output) + 8
  PROVE  Noted' /\ CommandEnded'
<1> DEFINE last == ended[Len(ended)]
           told == Told(last, shell.phase)
           W == Len(wire)
           k == Len(told) - W
           d == Len(last.output) + 8
           j == k + n
           more == AfterD(shell.phase)
<1>1. /\ mode' = mode /\ tty' = tty /\ shell' = shell /\ ended' = ended
  BY ReadMarks
<1>2. /\ W \in Nat /\ Len(wire)' = W - n /\ n \in Nat /\ n \in 0..W
      /\ \A i \in 0..(W - n) : Ahead(n + i) = Ahead(n) \o Ahead(i)'
      /\ \A i \in 0..(W - n) : Ahead(i)' \in Seq(Marks)
  <2>1. W \in Nat
    BY AheadRead
  <2> QED BY <2>1, AheadRead, SMTT(40)
<1>3. last \in EndedCommands
  <2>1. Len(ended) = Len(recorded) + 1 /\ Len(recorded) \in Nat
    BY LenProperties DEF CommandEnded, TypeInv
  <2> QED BY <2>1, ElementOfSeq
<1>4. last.code \in {0, 1} /\ told \in Seq(Byte) /\ Len(told) \in Nat /\ k \in Int /\ d \in Int
  <2>1. last.code \in {0, 1} /\ told \in Seq(Byte) /\ last.output \in Seq(Byte)
    BY <1>3, ToldIs
  <2>2. Len(told) \in Nat /\ Len(last.output) \in Nat
    BY <2>1, LenProperties
  <2> HIDE DEF told, last
  <2> QED BY <1>2, <2>1, <2>2
<1>5. /\ pending.some /\ mode = "Idle" /\ Len(ended) = Len(recorded) + 1
      /\ shell.phase \in {"prompting", "prompt"} /\ tty = <<>>
      /\ last.cmd = pending.value /\ Arrives(told, wire, capture)
      /\ \A m \in 0..W : Ahead(m) \in Ended(k, m, d, last.code, more)
  BY DEF CommandEnded, EndedAs
<1>6. j < d /\ more \in SUBSET Seq(Marks)
  <2>1. more \in SUBSET Seq(Marks)
    BY MarksAre DEF AfterD
  <2> QED BY <2>1
<1>7. Ahead(n) = Started(k, n)
  <2>1. Ahead(n) \in Ended(k, n, d, last.code, more)
    BY <1>2, <1>5
  <2> HIDE DEF k, d, last, more
  <2> QED BY <1>6, <2>1 DEF Ended
<1>8. pending' = pending /\ recorded' = recorded /\ Arrives(told, wire', capture')
  <2>1. Ahead(n) = Started(Len(told) - Len(wire), n)
    BY <1>7
  <2> HIDE DEF told, k, W
  <2> QED BY <1>4, <1>5, <2>1, ToldCaptured
<1>9. ASSUME NEW i \in 0..(W - n)
      PROVE  Ahead(i)' \in Ended(j, i, d, last.code, more)
  <2> DEFINE x == Ahead(i)'
             code == last.code
  <2>1. n + i \in 0..W /\ i \in Nat
    BY <1>2
  <2>2. Started(k, n) \o x \in Ended(k, n + i, d, code, more) /\ x \in Seq(Marks)
    BY <1>2, <1>5, <1>7, <2>1
  <2>3. code \in {0, 1} /\ k + n < d
    BY <1>4, <1>6
  <2> HIDE DEF x, k, d, code, more
  <2>4. x \in Ended(k + n, i, d, code, more)
    BY <1>2, <1>4, <1>6, <2>1, <2>2, <2>3, EndedRest
  <2> QED BY <2>4 DEF x, code
<1>10. Len(told) - (W - n) = j
  <2> HIDE DEF told, W
  <2> QED BY <1>2, <1>4
<1>11. EndedAs(last)'
  <2> DEFINE told2 == Told(last', shell'.phase)
             now == Len(told2) - Len(wire')
  <2>1. last' = last /\ told2 = told
    BY <1>1
  <2>2. now = j /\ Len(wire') = W - n
    BY <1>2, <1>10, <2>1
  <2>3. last'.cmd = pending'.value /\ Arrives(told2, wire', capture')
    BY <1>5, <1>8, <2>1
  <2>4. now < Len(last'.output) + 8
    BY <1>6, <2>1, <2>2
  <2>5. \A i \in 0..Len(wire') : Ahead(i)' \in Ended(now, i, Len(last'.output) + 8, last'.code, AfterD(shell'.phase))
    BY <1>1, <1>9, <2>1, <2>2
  <2> QED BY <2>3, <2>4, <2>5 DEF EndedAs
<1>12. CommandEnded'
  BY <1>1, <1>5, <1>8, <1>11 DEF CommandEnded
<1> QED BY <1>1, <1>8, <1>12 DEF Noted

(* D is in the chunk: the command is journaled, with its code and the end  *)
(* of its output.                                                          *)
LEMMA ItsDIsRead ==
  ASSUME TypeInv, Noted, CommandEnded, ended \in Seq(EndedCommands), NEW n \in 1..Len(wire), Read(n),
         ~ (Len(Told(ended[Len(ended)], shell.phase)) - Len(wire) + n < Len(ended[Len(ended)].output) + 8)
  PROVE  Noted' /\ NoCommand'
<1> DEFINE last == ended[Len(ended)]
           told == Told(last, shell.phase)
           W == Len(wire)
           k == Len(told) - W
           d == Len(last.output) + 8
           more == AfterD(shell.phase)
           s == MarkState(n)
           start == Started(k, n)
           markD == MarkIn(MarkerD(last.code))
           a == AllMarked(s, start)
           b == Marked(a, markD)
<1>1. /\ mode' = mode /\ tty' = tty /\ shell' = shell /\ ended' = ended
      /\ s \in MarkStates /\ recorded' = AllMarked(s, Ahead(n)).recorded
      /\ pending' = AllMarked(s, Ahead(n)).pending
  BY ReadMarks
<1>2. last \in EndedCommands /\ Len(recorded) \in Nat /\ recorded \in Seq(Entries)
  <2>1. Len(ended) = Len(recorded) + 1 /\ Len(recorded) \in Nat /\ recorded \in Seq(Entries)
    BY LenProperties DEF CommandEnded, TypeInv
  <2> QED BY <2>1, ElementOfSeq
<1>3. last.code \in {0, 1} /\ told \in Seq(Byte) /\ last.output \in Seq(Byte)
  BY <1>2, ToldIs
<1>4. W \in Nat /\ Len(told) \in Nat /\ Len(last.output) \in Nat /\ k \in Int /\ n \in Int /\ n \in 0..W
  <2>1. W \in Nat /\ Len(told) \in Nat /\ Len(last.output) \in Nat
    BY <1>3, LenProperties DEF TypeInv
  <2> HIDE DEF W, told, last
  <2> QED BY <2>1 DEF W
<1>5. /\ pending.some /\ mode = "Idle" /\ Len(ended) = Len(recorded) + 1
      /\ shell.phase \in {"prompting", "prompt"} /\ tty = <<>>
      /\ last.cmd = pending.value /\ Arrives(told, wire, capture)
      /\ \A m \in 0..W : Ahead(m) \in Ended(k, m, d, last.code, more)
  BY DEF CommandEnded, EndedAs
<1>6. PICK shown \in more : Ahead(n) = (start \o <<markD>>) \o shown
  <2>1. Ahead(n) \in Ended(k, n, d, last.code, more) /\ ~ (k + n < d)
    BY <1>4, <1>5
  <2> HIDE DEF k, d, last, more
  <2> QED BY <2>1 DEF Ended, start, markD
<1>7. /\ start \in Seq(Marks) /\ markD \in Marks /\ markD.kind = "D" /\ markD.code = last.code
      /\ shown \in Seq(Marks) /\ <<markD>> \in Seq(Marks)
  <2>1. start \in Seq(Marks)
    <3> HIDE DEF k
    <3> QED BY <1>4, MarksAre
  <2>2. markD \in Marks /\ markD.kind = "D" /\ markD.code = last.code
    <3> HIDE DEF last
    <3> QED BY <1>3, MarksAre
  <2>3. shown \in Seq(Marks)
    BY MarksAre DEF AfterD
  <2> HIDE DEF markD
  <2> QED BY <2>1, <2>2, <2>3
<1>8. Idle
  BY <1>5 DEF Idle
<1>9. /\ s.pending = pending /\ s.recorded = recorded /\ s.capture = FedCapture(n)
  BY DEF MarkState
<1>10. /\ a \in MarkStates /\ a.pending = pending /\ a.recorded = recorded
       /\ IsEndOf(OutputOf(a.capture), last.output)
  <2>1. a \in MarkStates
    <3> HIDE DEF s, start
    <3> QED BY <1>1, <1>7, AllMarkedTyped
  <2>2. CASE k < 0
    <3>1. start = <<MarkC>>
      <4>1. k + n >= 0
        <5>1. k + n >= Len(last.output) + 8
          BY <1>4
        <5> HIDE DEF k, last
        <5> QED BY <1>4, <5>1
      <4> QED BY <2>2, <4>1 DEF Started
    <3>2. MarkC \in Marks /\ MarkC.kind = "C"
      BY MarksAre
    <3>3. a = Marked(s, MarkC)
      <4> HIDE DEF s, start
      <4> QED BY <1>1, <3>1, <3>2, AllMarkedOne
    <3>4. /\ Marked(s, MarkC).pending = s.pending /\ Marked(s, MarkC).recorded = s.recorded
          /\ Marked(s, MarkC).capture = Some(NewHistory(CaptureLines))
      <4> HIDE DEF s
      <4> QED BY <1>1, <1>8, <3>2, MarksDo
    <3>5. OutputOf(a.capture) = NewHistory(CaptureLines).lines
      <4>1. a.capture = Some(NewHistory(CaptureLines))
        BY <3>3, <3>4
      <4> HIDE DEF a
      <4> QED BY <4>1 DEF OutputOf, Some
    <3> HIDE DEF a, s
    <3> QED BY <1>3, <1>9, <2>1, <3>3, <3>4, <3>5, NothingIsEnd
  <2>3. CASE k >= 0
    <3>1. start = <<>>
      <4>1. ~ (k < 0)
        <5> HIDE DEF k
        <5> QED BY <1>4, <2>3
      <4> QED BY <4>1 DEF Started
    <3>2. a = s
      <4> HIDE DEF s, start
      <4> QED BY <1>1, <1>7, <3>1, AllMarkedOne
    <3>3. /\ capture.some
          /\ IsEndOf(HistoryFeedBytes(capture.value, SubSeq(wire, 1, n)).lines, last.output)
      <4> DEFINE phase == shell.phase
      <4>1. Len(Told(last, phase)) - Len(wire) + n >= Len(last.output) + 8
        <5>1. ~ (k + n < d)
          OBVIOUS
        <5>2. d \in Int
          BY <1>4
        <5>3. k + n >= d
          <6> HIDE DEF k, d
          <6> QED BY <1>4, <5>1, <5>2
        <5> QED BY <5>3
      <4>2. Len(Told(last, phase)) - Len(wire) >= 0 /\ Arrives(Told(last, phase), wire, capture) /\ wire \in Seq(Byte)
        BY <1>5, <2>3 DEF TypeInv
      <4> HIDE DEF last, phase
      <4> QED BY <1>2, <4>1, <4>2, EndIsCaptured
    <3>4. OutputOf(s.capture) = HistoryFeedBytes(capture.value, SubSeq(wire, 1, n)).lines
      <4>1. s.capture = Some(HistoryFeedBytes(capture.value, SubSeq(wire, 1, n)))
        BY <1>8, <1>9, <3>3 DEF FedCapture
      <4> HIDE DEF s
      <4> QED BY <4>1 DEF OutputOf, Some
    <3> HIDE DEF a, s
    <3> QED BY <1>9, <2>1, <3>2, <3>3, <3>4
  <2>4. k < 0 \/ k >= 0
    <3> HIDE DEF k
    <3> QED BY <1>4
  <2> QED BY <2>2, <2>3, <2>4
<1>11. /\ b \in MarkStates /\ b.pending = None
       /\ b.recorded = Append(recorded, ShellCommand(pending.value, last.code, a.capture))
  <2>1. b = AllMarked(a, <<markD>>)
    <3> HIDE DEF a, markD
    <3> QED BY <1>7, <1>10, AllMarkedOne
  <2>2. b \in MarkStates
    <3> HIDE DEF a, markD, b
    <3> QED BY <1>7, <1>10, <2>1, AllMarkedTyped
  <2>3. a.pending.some
    BY <1>5, <1>10
  <2>4. /\ b.pending = None
        /\ b.recorded = Append(a.recorded, ShellCommand(a.pending.value, markD.code, a.capture))
    <3> HIDE DEF a, markD
    <3> QED BY <1>7, <1>8, <1>10, <2>3, MarksDo
  <2> HIDE DEF a, b, markD
  <2> QED BY <1>7, <1>10, <2>2, <2>4
<1>12. AllMarked(s, Ahead(n)) = AllMarked(b, shown)
  <2>1. AllMarked(s, start \o <<markD>>) = AllMarked(a, <<markD>>) /\ start \o <<markD>> \in Seq(Marks)
    <3>1. start \o <<markD>> \in Seq(Marks)
      <4> HIDE DEF start, markD
      <4> QED BY <1>7, ConcatProperties
    <3> HIDE DEF s, start, markD
    <3> QED BY <1>1, <1>7, <3>1, AllMarkedConcat DEF a
  <2>2. AllMarked(a, <<markD>>) = b
    <3> HIDE DEF a, markD
    <3> QED BY <1>7, <1>10, AllMarkedOne
  <2> DEFINE t == start \o <<markD>>
  <2>3. AllMarked(s, t \o shown) = AllMarked(AllMarked(s, t), shown) /\ t \in Seq(Marks)
    <3>1. t \in Seq(Marks)
      BY <2>1
    <3> HIDE DEF s, t
    <3> QED BY <1>1, <1>7, <3>1, AllMarkedConcat
  <2> QED BY <1>6, <2>1, <2>2, <2>3
<1> DEFINE entry == ShellCommand(pending.value, last.code, a.capture)
<1>13. pending' = None /\ recorded' = Append(recorded, entry)
  <2>1. AllMarked(b, shown).pending = None /\ AllMarked(b, shown).recorded = b.recorded
    <3> HIDE DEF b
    <3> QED BY <1>7, <1>11, AllMarkedKeeps
  <2> HIDE DEF a, b
  <2> QED BY <1>1, <1>11, <1>12, <2>1
<1>14. entry.cmd = last.cmd /\ entry.code = last.code /\ IsEndOf(entry.output, last.output)
  <2>1. entry.cmd = pending.value /\ entry.code = last.code /\ entry.output = OutputOf(a.capture)
    BY DEF ShellCommand
  <2> HIDE DEF entry, a
  <2> QED BY <1>5, <1>10, <2>1
<1> DEFINE S == Entries \cup {entry}
<1>15. /\ recorded \in Seq(S) /\ Len(recorded') = Len(ended)
       /\ \A i \in 1..Len(recorded) : recorded'[i] = recorded[i]
       /\ recorded'[Len(ended)] = entry
  <2>1. recorded \in Seq(S) /\ entry \in S
    <3> HIDE DEF entry
    <3> QED BY <1>2
  <2> HIDE DEF S, entry
  <2>2. /\ Len(Append(recorded, entry)) = Len(recorded) + 1
        /\ \A i \in 1..Len(recorded) : Append(recorded, entry)[i] = recorded[i]
        /\ Append(recorded, entry)[Len(recorded) + 1] = entry
    BY <2>1, AppendProperties
  <2> QED BY <1>5, <1>13, <2>1, <2>2
<1>16. Noted'
  <2>1. ASSUME NEW i \in 1..Len(recorded')
        PROVE  /\ recorded'[i].cmd = ended'[i].cmd /\ recorded'[i].code = ended'[i].code
               /\ IsEndOf(recorded'[i].output, ended'[i].output)
    <3>1. CASE i \in 1..Len(recorded)
      <4>1. recorded'[i] = recorded[i]
        BY <1>15, <3>1
      <4> QED BY <1>1, <3>1, <4>1 DEF Noted
    <3>2. CASE i = Len(ended)
      <4> HIDE DEF entry
      <4> QED BY <1>1, <1>14, <1>15, <3>2
    <3> QED BY <1>2, <1>5, <1>15, <3>1, <3>2
  <2>2. Len(recorded') <= Len(ended')
    BY <1>1, <1>2, <1>5, <1>15
  <2> QED BY <2>1, <2>2 DEF Noted
<1>17. NoCommand'
  BY <1>1, <1>5, <1>13, <1>15 DEF NoCommand, Entering
<1> QED BY <1>16, <1>17

(***************************************************************************)
(* The steps.                                                              *)
(***************************************************************************)

LEMMA RecordRead ==
  ASSUME TypeInv, RecordInv, NEW n \in 1..Len(wire), Read(n)
  PROVE  RecordInv'
<1>1. LineInv /\ Noted /\ ended \in Seq(EndedCommands)
  BY DEF RecordInv
<1>2. LineInv' /\ ended' \in Seq(EndedCommands)
  BY <1>1, LineRead, ReadMarks
<1>3. CASE NoCommand
  BY <1>1, <1>2, <1>3, NoCommandRead DEF RecordInv
<1>4. CASE CommandTyped
  BY <1>1, <1>2, <1>4, CommandTypedRead DEF RecordInv
<1>5. CASE CommandRuns
  BY <1>1, <1>2, <1>5, CommandRunsRead DEF RecordInv
<1>6. CASE CommandEnded
  BY <1>1, <1>2, <1>6, BeforeItsD, ItsDIsRead DEF RecordInv
<1> QED BY <1>3, <1>4, <1>5, <1>6 DEF RecordInv

(* At the start.                                                           *)
LEMMA RecordInit == Init => RecordInv
<1> SUFFICES ASSUME Init PROVE RecordInv
  OBVIOUS
<1>1. /\ mode = "Idle" /\ line_buf = <<>> /\ pending = None /\ recorded = <<>> /\ tty = <<>>
      /\ shell.phase = "prompting" /\ shell.output = <<>> /\ ended = <<>>
  BY DEF Init, AtPrompt
<1>2. LineInv
  BY <1>1 DEF LineInv
<1>3. ended \in Seq(EndedCommands) /\ Noted
  BY <1>1, EmptySeq DEF Noted
<1>4. NoCommand
  BY <1>1 DEF NoCommand
<1> QED BY <1>2, <1>3, <1>4 DEF RecordInv

(* Nothing of it changes but that the REPL may now be idle.                *)
LEMMA RecordSame ==
  ASSUME RecordInv, mode' \in {mode, "Idle"},
         UNCHANGED <<parser, history, capture, line_buf, pending, recorded, seen, tty, shell, wire, ended>>
  PROVE  RecordInv'
<1>1. /\ capture' = capture /\ line_buf' = line_buf /\ pending' = pending /\ recorded' = recorded
      /\ tty' = tty /\ shell' = shell /\ wire' = wire /\ ended' = ended /\ parser' = parser
  OBVIOUS
<1>2. Quiet => Quiet'
  BY <1>1 DEF Quiet, Ahead
<1>3. LineInv'
  BY <1>1, <1>2 DEF LineInv, RecordInv
<1>4. ended' \in Seq(EndedCommands) /\ Noted'
  BY <1>1 DEF Noted, RecordInv
<1>5. CASE NoCommand
  BY <1>1, <1>3, <1>4, <1>5 DEF NoCommand, RecordInv
<1>6. CASE CommandTyped
  <2>1. CommandTyped'
    BY <1>1, <1>2, <1>6 DEF CommandTyped
  <2> QED BY <1>3, <1>4, <2>1 DEF RecordInv
<1>7. CASE CommandRuns
  <2>1. CommandRuns'
    BY <1>1, <1>7 DEF CommandRuns, Ahead
  <2> QED BY <1>3, <1>4, <2>1 DEF RecordInv
<1>8. CASE CommandEnded
  <2>1. CommandEnded'
    BY <1>1, <1>8 DEF CommandEnded, EndedAs, Ahead
  <2> QED BY <1>3, <1>4, <2>1 DEF RecordInv
<1> QED BY <1>5, <1>6, <1>7, <1>8 DEF RecordInv

(* A command of the agent is written to a shell at its prompt, and none of *)
(* the user is remembered, or it would be entered or running.              *)
LEMMA RecordAgentWrites ==
  ASSUME TypeInv, RecordInv, AgentWrites
  PROVE  RecordInv'
<1>1. /\ mode = "Turn" /\ mode' = "Acting" /\ tty = <<>> /\ tty' = <<"a", NEWLINE>>
      /\ line_buf' = line_buf /\ pending' = pending /\ recorded' = recorded /\ shell' = shell
      /\ ended' = ended /\ wire' = wire /\ parser' = parser
      /\ shell.phase = "prompt" /\ shell.line = <<>> /\ shell.output = <<>>
  BY DEF AgentWrites, shellVars, AtPrompt
<1>2. NoCommand /\ LineInv /\ Noted /\ ended \in Seq(EndedCommands)
  BY <1>1 DEF RecordInv, CommandTyped, CommandRuns, CommandEnded
<1>3. line_buf = <<>>
  BY <1>1, <1>2 DEF LineInv
<1>4. Len(tty') = 2 /\ tty'[1] = "a" /\ tty'[2] = NEWLINE /\ Entering(tty') /\ tty' \in Seq(TtyKey)
  BY <1>1 DEF Entering, TtyKey, Key, NEWLINE
<1>5. LineInv'
  <2>1. \A i \in 1..Len(tty') : tty'[i] = NEWLINE => i = Len(tty')
    BY <1>4 DEF NEWLINE
  <2>2. OscFeedBytes(parser', wire').parser.terminal_state = "Input"
    BY <1>1, <1>2 DEF LineInv
  <2> QED BY <1>1, <1>3, <1>4, <2>1, <2>2 DEF LineInv
<1>6. Holds(<<>>, tty', 1, <<"a">>)
  <2>1. \A i \in 1..1 : tty'[i] # CTRL_U
    BY <1>4 DEF CTRL_U
  <2>2. SubSeq(tty', 1, 1) = <<"a">>
    <3> DEFINE keys == tty'
    <3>1. keys \in Seq(TtyKey) /\ Len(keys) = 2 /\ keys[1] = "a"
      BY <1>4
    <3> HIDE DEF keys
    <3>2. SubSeq(keys, 1, 0 + 1) = Append(SubSeq(keys, 1, 0), keys[0 + 1])
      <4>1. 1 \in 1..Len(keys) /\ 0 \in (1 - 1)..(Len(keys) - 1)
        BY <3>1
      <4> QED BY <3>1, <4>1, SubSeqMore
    <3>3. SubSeq(keys, 1, 0) = <<>>
      BY <3>1, SubSeqWithin, EmptySeq
    <3>4. Append(<<>>, "a") = <<"a">> /\ 0 + 1 = 1
      OBVIOUS
    <3>5. SubSeq(keys, 1, 1) = <<"a">>
      BY <3>1, <3>2, <3>3, <3>4
    <3> QED BY <3>5 DEF keys
  <2>3. <<>> \o <<"a">> = <<"a">>
    OBVIOUS
  <2> QED BY <2>1, <2>2, <2>3 DEF Holds
<1>7. NoCommand'
  <2>1. Holds(shell'.line, tty', Len(tty') - 1, <<"a">>)
    BY <1>1, <1>4, <1>6
  <2> QED BY <1>1, <1>2, <2>1 DEF NoCommand
<1> QED BY <1>1, <1>2, <1>5, <1>7 DEF RecordInv, Noted

(* Commands print no marker, and no part of one.                           *)
OutputsPlain == \A bytes \in Outputs : Whole(bytes) /\ \A i \in 1..Len(bytes) : bytes[i] # "133"

(* What is on its way once more has been printed.                          *)
Standing == OscFeedBytes(NewOscParser, seen \o wire).parser

LEMMA AheadAfter ==
  ASSUME TypeInv, FedInv, NEW bytes \in Seq(Byte), Emit(bytes), UNCHANGED parser
  PROVE  /\ Len(wire) \in Nat /\ Len(bytes) \in Nat /\ wire' = wire \o bytes
         /\ Len(wire') = Len(wire) + Len(bytes) /\ Ahead(Len(wire)) \in Seq(Marks)
         /\ \A n \in 0..Len(wire') :
              \/ n \in 0..Len(wire) /\ Ahead(n)' = Ahead(n)
              \/ n - Len(wire) \in 1..Len(bytes)
                 /\ Ahead(n)' = Ahead(Len(wire)) \o OscFed(Standing, bytes)[n - Len(wire)].marks
         /\ OscFeedBytes(parser, wire).parser = Standing
         /\ OscFeedBytes(parser', wire').parser = OscFeedBytes(Standing, bytes).parser
<1> DEFINE W == Len(wire)
           B == Len(bytes)
<1>1. /\ W \in Nat /\ B \in Nat /\ Len(wire)' = W + B
      /\ \A i \in 0..W : Ahead(i)' = Ahead(i)
      /\ \A i \in 0..B : OscFed(parser', wire')[W + i].marks = Ahead(W) \o OscFed(Standing, bytes)[i].marks
      /\ OscFeedBytes(parser, wire).parser = Standing
      /\ OscFeedBytes(parser, wire)'.parser = OscFeedBytes(Standing, bytes).parser
      /\ Ahead(W) \in Seq(Marks)
  BY AheadEmit DEF Standing
<1>2. ASSUME NEW n \in 0..Len(wire')
      PROVE  \/ n \in 0..W /\ Ahead(n)' = Ahead(n)
             \/ n - W \in 1..B /\ Ahead(n)' = Ahead(W) \o OscFed(Standing, bytes)[n - W].marks
  <2>1. CASE n <= W
    <3>1. n \in 0..W
      BY <1>1, <2>1
    <3> QED BY <1>1, <3>1
  <2>2. CASE ~ (n <= W)
    <3> DEFINE i == n - W
    <3>1. i \in 1..B /\ W + i = n
      <4> HIDE DEF W, B
      <4> QED BY <1>1, <2>2
    <3>2. OscFed(parser', wire')[W + i].marks = Ahead(W) \o OscFed(Standing, bytes)[i].marks
      <4>1. i \in 0..B
        BY <3>1
      <4> HIDE DEF i
      <4> QED BY <1>1, <4>1
    <3>3. Ahead(n)' = OscFed(parser', wire')[n].marks
      BY DEF Ahead
    <3> QED BY <3>1, <3>2, <3>3
  <2> QED BY <2>1, <2>2
<1> QED BY <1>1, <1>2 DEF Emit

(* No mark comes of what is no part of a marker.                           *)
LEMMA AheadPlain ==
  ASSUME TypeInv, FedInv, WholeInv, NEW bytes \in Seq(Byte), Whole(bytes),
         \A i \in 1..Len(bytes) : bytes[i] # "133", Emit(bytes), UNCHANGED parser
  PROVE  /\ \A n \in 0..Len(wire') :
              \/ n \in 0..Len(wire) /\ Ahead(n)' = Ahead(n)
              \/ n - Len(wire) \in 1..Len(bytes) /\ Ahead(n)' = Ahead(Len(wire))
         /\ OscFeedBytes(parser', wire').parser.terminal_state = OscFeedBytes(parser, wire).parser.terminal_state
         /\ Quiet => Quiet'
<1>1. seen \o wire \in Seq(Byte) /\ Whole(seen \o wire)
  BY ConcatProperties DEF TypeInv, WholeInv
<1>2. \A n \in 0..Len(bytes) :
        /\ OscFed(Standing, bytes)[n].marks = <<>>
        /\ OscFed(Standing, bytes)[n].parser.terminal_state = Standing.terminal_state
  <2> DEFINE s == seen \o wire
  <2> HIDE DEF s
  <2>1. s \in Seq(Byte) /\ Whole(s)
    BY <1>1 DEF s
  <2>2. \A n \in 0..Len(bytes) :
          LET q == OscFeedBytes(NewOscParser, s).parser IN
          OscFed(q, bytes)[n].marks = <<>> /\ OscFed(q, bytes)[n].parser.terminal_state = q.terminal_state
    BY <2>1, PlainMarks
  <2> QED BY <2>2 DEF Standing, s
<1>3. /\ Len(wire) \in Nat /\ Len(bytes) \in Nat /\ Ahead(Len(wire)) \in Seq(Marks)
      /\ Len(wire') = Len(wire) + Len(bytes)
      /\ \A n \in 0..Len(wire') :
           \/ n \in 0..Len(wire) /\ Ahead(n)' = Ahead(n)
           \/ n - Len(wire) \in 1..Len(bytes)
              /\ Ahead(n)' = Ahead(Len(wire)) \o OscFed(Standing, bytes)[n - Len(wire)].marks
      /\ OscFeedBytes(parser, wire).parser = Standing
      /\ OscFeedBytes(parser', wire').parser = OscFeedBytes(Standing, bytes).parser
  BY AheadAfter
<1>4. ASSUME NEW n \in 0..Len(wire')
      PROVE  \/ n \in 0..Len(wire) /\ Ahead(n)' = Ahead(n)
             \/ n - Len(wire) \in 1..Len(bytes) /\ Ahead(n)' = Ahead(Len(wire))
  <2>1. CASE n - Len(wire) \in 1..Len(bytes)
             /\ Ahead(n)' = Ahead(Len(wire)) \o OscFed(Standing, bytes)[n - Len(wire)].marks
    <3>1. OscFed(Standing, bytes)[n - Len(wire)].marks = <<>>
      <4>1. n - Len(wire) \in 0..Len(bytes)
        BY <1>3, <2>1
      <4> QED BY <1>2, <4>1
    <3>2. Ahead(Len(wire)) \o <<>> = Ahead(Len(wire))
      BY <1>3, ConcatEmptySeq
    <3> QED BY <2>1, <3>1, <3>2
  <2> QED BY <1>3, <2>1
<1>5. OscFeedBytes(Standing, bytes).parser.terminal_state = Standing.terminal_state
  BY <1>2, <1>3 DEF OscFeedBytes
<1>6. ASSUME Quiet
      PROVE  Quiet'
  <2>1. ASSUME NEW n \in 0..Len(wire')
        PROVE  Ahead(n)' = <<>>
    <3>1. Ahead(Len(wire)) = <<>>
      <4>1. Len(wire) \in 0..Len(wire)
        BY <1>3
      <4> QED BY <1>6, <4>1 DEF Quiet
    <3> QED BY <1>4, <1>6, <3>1 DEF Quiet
  <2> QED BY <2>1 DEF Quiet
<1> QED BY <1>3, <1>4, <1>5, <1>6

(* At no prompt, no key is on its way and line_buf is empty.               *)
LEMMA AwayFromPrompt ==
  ASSUME LineInv, shell.phase # "prompt"
  PROVE  tty = <<>> /\ line_buf = <<>> /\ ~Entering(tty)
  BY DEF LineInv, Entering

(* A command prints.                                                       *)
LEMMA RecordPrints ==
  ASSUME TypeInv, FedInv, WholeInv, RecordInv, OutputsPlain, Prints
  PROVE  RecordInv'
<1>1. PICK bytes \in Outputs : shell' = [shell EXCEPT !.output = @ \o bytes] /\ Emit(bytes)
  BY DEF Prints
<1>2. /\ shell.phase = "running" /\ tty' = tty /\ ended' = ended /\ mode' = mode /\ parser' = parser
      /\ capture' = capture /\ line_buf' = line_buf /\ pending' = pending /\ recorded' = recorded
  BY DEF Prints, replVars
<1>3. /\ shell \in Shells /\ shell'.phase = "running" /\ shell'.line = shell.line
      /\ shell'.output = shell.output \o bytes
  BY <1>1, <1>2 DEF TypeInv, Shells
<1>4. LineInv /\ Noted /\ ended \in Seq(EndedCommands) /\ tty = <<>> /\ line_buf = <<>>
  BY <1>2, AwayFromPrompt DEF RecordInv
<1>5. LineInv' /\ Noted'
  BY <1>2, <1>3, <1>4 DEF LineInv, Noted, Entering
<1>6. bytes \in Seq(Byte) /\ Whole(bytes) /\ \A i \in 1..Len(bytes) : bytes[i] # "133"
  BY BytesAre DEF OutputsPlain
<1>7. CASE NoCommand
  <2>1. NoCommand'
    BY <1>2, <1>3, <1>7 DEF NoCommand
  <2> QED BY <1>2, <1>4, <1>5, <2>1 DEF RecordInv
<1>8. CASE CommandRuns
  <2> DEFINE told == shell.output
             told2 == told \o bytes
             W == Len(wire)
             k == Len(told) - W
             now == Len(told2) - Len(wire')
  <2>1. told \in Seq(Byte) /\ wire \in Seq(Byte) /\ Len(told) \in Nat /\ W \in Nat /\ k \in Int
    BY LenProperties DEF TypeInv, Shells
  <2>2. /\ Len(bytes) \in Nat /\ wire' = wire \o bytes /\ Len(wire') = W + Len(bytes)
    BY <1>2, <1>6, <1>1, AheadAfter
  <2>3. Len(told2) = Len(told) + Len(bytes)
    BY <1>6, <2>1, ConcatProperties
  <2>4. now = k
    <3> HIDE DEF W, told, told2
    <3> QED BY <2>1, <2>2, <2>3
  <2>5. Arrives(told2, wire', capture')
    <3>1. Arrives(told, wire, capture)
      BY <1>8 DEF CommandRuns
    <3> HIDE DEF told
    <3>2. Arrives(told \o bytes, wire \o bytes, capture)
      BY <1>6, <2>1, <3>1, ToldMore
    <3> QED BY <1>2, <2>2, <3>2
  <2>6. ASSUME NEW n \in 0..Len(wire')
        PROVE  Ahead(n)' = Started(k, n)
    <3>1. \A m \in 0..W : Ahead(m) = Started(k, m)
      BY <1>8 DEF CommandRuns
    <3>2. \/ n \in 0..W /\ Ahead(n)' = Ahead(n)
          \/ n - W \in 1..Len(bytes) /\ Ahead(n)' = Ahead(W)
      BY <1>1, <1>2, <1>6, AheadPlain
    <3>3. CASE n - W \in 1..Len(bytes) /\ Ahead(n)' = Ahead(W)
      <4>1. Ahead(W) = Started(k, W)
        BY <2>1, <3>1
      <4>2. k + W >= 0 /\ k + n >= 0
        <5> HIDE DEF W, told
        <5> QED BY <2>1, <2>2, <3>3
      <4>3. Started(k, W) = Started(k, n)
        BY <4>2 DEF Started
      <4> QED BY <3>3, <4>1, <4>3
    <3> QED BY <3>1, <3>2, <3>3
  <2>7. CommandRuns'
    <3>1. /\ pending'.some /\ mode' = "Idle" /\ Len(recorded') = Len(ended')
          /\ shell'.phase = "running" /\ shell'.line = pending'.value
      BY <1>2, <1>3, <1>8 DEF CommandRuns
    <3>2. Arrives(shell'.output, wire', capture')
      BY <1>3, <2>5
    <3>3. \A n \in 0..Len(wire') : Ahead(n)' = Started(Len(shell'.output) - Len(wire'), n)
      BY <1>3, <2>4, <2>6
    <3> QED BY <3>1, <3>2, <3>3 DEF CommandRuns
  <2> QED BY <1>2, <1>4, <1>5, <2>7 DEF RecordInv
<1> QED BY <1>2, <1>7, <1>8 DEF RecordInv, CommandTyped, CommandEnded

(* A line ends: of a command of the user D is printed after its output.    *)
LEMMA RecordFinishLine ==
  ASSUME TypeInv, FedInv, WholeInv, RecordInv, NEW code \in {0, 1}, FinishLine(code)
  PROVE  RecordInv'
<1>1. /\ shell.phase \in {"running", "ended"} /\ tty' = tty /\ mode' = mode /\ parser' = parser
      /\ capture' = capture /\ line_buf' = line_buf /\ pending' = pending /\ recorded' = recorded
      /\ Emit(MarkerD(code)) /\ shell'.phase = "prompting" /\ shell'.output = <<>>
  BY DEF FinishLine, replVars, AtPrompt
<1>2. LineInv /\ Noted /\ ended \in Seq(EndedCommands) /\ tty = <<>> /\ line_buf = <<>>
  BY <1>1, AwayFromPrompt DEF RecordInv
<1>3. LineInv'
  BY <1>1, <1>2 DEF LineInv
<1>4. CASE NoCommand
  <2>1. ended' = ended
    BY <1>1, <1>4 DEF FinishLine, NoCommand
  <2>2. NoCommand'
    BY <1>1, <1>2, <1>4, <2>1 DEF NoCommand
  <2> QED BY <1>1, <1>2, <1>3, <2>1, <2>2 DEF RecordInv, Noted
<1>5. CASE CommandRuns
  <2> DEFINE output == shell.output
             marker == MarkerD(code)
             last == [cmd |-> shell.line, code |-> code, output |-> output]
             told2 == output \o marker
             W == Len(wire)
             k == Len(output) - W
             now == Len(told2) - Len(wire')
             d == Len(output) + 8
  <2>1. /\ shell.phase = "running" /\ shell.line = pending.value /\ pending.some /\ mode = "Idle"
        /\ Len(recorded) = Len(ended) /\ Arrives(output, wire, capture)
        /\ \A n \in 0..W : Ahead(n) = Started(k, n)
    BY <1>5 DEF CommandRuns
  <2>2. shell.line # <<"a">>
    <3>1. pending.value \in Seq(Key) /\ pending.value # <<>>
      BY <2>1, OptionIs DEF TypeInv, Commands
    <3>2. 1 \in 1..Len(pending.value)
      BY <3>1, LenProperties, EmptySeq
    <3>3. pending.value[1] \in Key
      BY <3>1, <3>2, ElementOfSeq
    <3>4. <<"a">>[1] = "a" /\ "a" \notin Key
      BY DEF Key, NEWLINE, CTRL_U
    <3> QED BY <2>1, <3>3, <3>4
  <2>3. ended' = Append(ended, last)
    BY <2>1, <2>2 DEF FinishLine
  <2>4. /\ last \in EndedCommands /\ output \in Seq(Byte) /\ wire \in Seq(Byte)
        /\ last.cmd = shell.line /\ last.code = code /\ last.output = output
    <3>1. output \in Seq(Byte) /\ shell.line \in Seq(TtyKey) /\ wire \in Seq(Byte)
      BY DEF TypeInv, Shells
    <3> QED BY <3>1 DEF EndedCommands
  <2>5. marker \in ShellMarkers /\ marker \in Seq(Byte) /\ Len(marker) = 8
    BY MarksAre, ShellPrintsBytes
  <2> HIDE DEF marker, last
  <2>6. /\ ended' \in Seq(EndedCommands) /\ Len(ended') = Len(ended) + 1 /\ ended'[Len(ended')] = last
        /\ \A i \in 1..Len(ended) : ended'[i] = ended[i]
        /\ Len(recorded) \in Nat /\ Len(ended) \in Nat
    <3>1. Len(recorded) \in Nat /\ Len(ended) \in Nat
      BY <1>2, LenProperties DEF TypeInv
    <3> QED BY <1>2, <2>3, <2>4, <3>1, AppendProperties
  <2>7. Noted'
    <3>1. Len(recorded') <= Len(ended')
      BY <1>1, <2>1, <2>6
    <3>2. \A i \in 1..Len(recorded) : ended'[i] = ended[i]
      BY <2>1, <2>6
    <3> QED BY <1>1, <1>2, <3>1, <3>2 DEF Noted
  <2>8. Told(last, shell'.phase) = told2
    <3>1. Told(last, "prompting") = output \o (marker \o <<>>)
      BY <2>4 DEF Told, marker
    <3>2. marker \o <<>> = marker
      BY <2>5, ConcatEmptySeq
    <3> QED BY <1>1, <3>1, <3>2
  <2>9. /\ W \in Nat /\ Len(output) \in Nat /\ wire' = wire \o marker /\ Len(wire') = W + 8
        /\ Len(told2) = Len(output) + 8
        /\ Ahead(W) \in Seq(Marks)
    <3>1. Emit(marker) /\ parser' = parser
      BY <1>1 DEF marker
    <3>2. Len(told2) = Len(output) + 8 /\ Len(output) \in Nat
      <4>1. Len(told2) = Len(output) + Len(marker)
        <5> HIDE DEF output
        <5> QED BY <2>4, <2>5, ConcatProperties
      <4>2. Len(output) \in Nat
        BY <2>4, LenProperties
      <4> QED BY <2>5, <4>1, <4>2
    <3> QED BY <2>5, <3>1, <3>2, AheadAfter
  <2>10. now = k /\ now < d
    <3> HIDE DEF told2, output, W
    <3> QED BY <2>9
  <2>11. Arrives(told2, wire', capture')
    <3> HIDE DEF output
    <3>1. Arrives(output \o marker, wire \o marker, capture)
      BY <2>1, <2>4, <2>5, ToldMore
    <3> QED BY <1>1, <2>9, <3>1
  <2>12. ASSUME NEW n \in 0..Len(wire')
         PROVE  Ahead(n)' \in Ended(k, n, d, code, {<<>>})
    <3>1. /\ \/ n \in 0..W /\ Ahead(n)' = Ahead(n)
             \/ n - W \in 1..8 /\ Ahead(n)' = Ahead(W) \o OscFed(Standing, marker)[n - W].marks
      <4>1. Emit(marker) /\ parser' = parser
        BY <1>1 DEF marker
      <4> QED BY <2>5, <4>1, AheadAfter
    <3>2. CASE n \in 0..W /\ Ahead(n)' = Ahead(n)
      <4>1. k + n < d
        <5> HIDE DEF W, output
        <5> QED BY <2>9, <3>2
      <4>2. Ahead(n)' = Started(k, n)
        BY <2>1, <3>2
      <4> QED BY <4>1, <4>2 DEF Ended
    <3>3. CASE n - W \in 1..8 /\ Ahead(n)' = Ahead(W) \o OscFed(Standing, marker)[n - W].marks
      <4>1. /\ \A i \in 0..7 : OscFed(Standing, marker)[i].marks = <<>>
            /\ OscFed(Standing, marker)[8].marks = <<MarkIn(marker)>>
        <5> DEFINE s == seen \o wire
        <5>1. s \in Seq(Byte) /\ Whole(s)
          BY ConcatProperties DEF TypeInv, WholeInv
        <5> HIDE DEF s
        <5>2. /\ \A i \in 0..(Len(marker) - 1) : OscFed(OscFeedBytes(NewOscParser, s).parser, marker)[i].marks = <<>>
              /\ OscFed(OscFeedBytes(NewOscParser, s).parser, marker)[Len(marker)].marks = <<MarkIn(marker)>>
          BY <2>5, <5>1, MarkerMarks
        <5>3. 8 - 1 = 7
          OBVIOUS
        <5> QED BY <2>5, <5>2, <5>3 DEF Standing, s
      <4>2. Ahead(W) = Started(k, W)
        BY <2>1, <2>9
      <4>3. k + W >= 0 /\ k + n >= 0 /\ k \in Int /\ n \in Int
        <5> HIDE DEF W, output
        <5> QED BY <2>9, <3>3
      <4>4. Started(k, W) = Started(k, n) /\ Started(k, n) \in Seq(Marks)
        <5>1. Started(k, n) \in Seq(Marks)
          <6> HIDE DEF k
          <6> QED BY <4>3, MarksAre
        <5> QED BY <4>3, <5>1 DEF Started
      <4>5. CASE n - W < 8
        <5>1. n - W \in 0..7 /\ k + n < d
          <6> HIDE DEF W, output
          <6> QED BY <2>9, <3>3, <4>5
        <5>2. Ahead(n)' = Started(k, n) \o <<>>
          BY <3>3, <4>1, <4>2, <4>4, <5>1
        <5>3. Started(k, n) \o <<>> = Started(k, n)
          <6> HIDE DEF k
          <6> QED BY <4>4, ConcatEmptySeq
        <5> QED BY <5>1, <5>2, <5>3 DEF Ended
      <4>6. CASE n - W = 8
        <5>1. ~ (k + n < d)
          <6> HIDE DEF W, output
          <6> QED BY <2>9, <3>3, <4>6
        <5>2. Ahead(n)' = Started(k, n) \o <<MarkIn(marker)>>
          BY <3>3, <4>1, <4>2, <4>4, <4>6
        <5> DEFINE start == Started(k, n) \o <<MarkIn(marker)>>
        <5>3. start \o <<>> = start
          <6>1. MarkIn(marker) \in Marks
            BY MarksAre DEF marker
          <6>2. <<MarkIn(marker)>> \in Seq(Marks)
            BY <6>1
          <6>3. start \in Seq(Marks)
            BY <4>4, <6>2, ConcatProperties
          <6> HIDE DEF start
          <6> QED BY <6>3, ConcatEmptySeq
        <5>4. start \o <<>> \in Ended(k, n, d, code, {<<>>})
          BY <5>1 DEF Ended, marker
        <5> QED BY <5>2, <5>3, <5>4
      <4> QED BY <3>3, <4>5, <4>6, SMTT(40)
    <3> QED BY <3>1, <3>2, <3>3
  <2>13. CommandEnded'
    <3> DEFINE e == ended'[Len(ended')]
               told3 == Told(e, shell'.phase)
    <3>1. e = last /\ told3 = told2 /\ e.cmd = pending'.value /\ e.code = code /\ e.output = output
      BY <1>1, <2>1, <2>4, <2>6, <2>8
    <3>2. Len(told3) - Len(wire') = k
      BY <2>10, <3>1
    <3>3. Len(told3) - Len(wire') < Len(e.output) + 8 /\ Arrives(told3, wire', capture')
      BY <2>10, <2>11, <3>1
    <3>4. \A n \in 0..Len(wire') :
            Ahead(n)' \in Ended(Len(told3) - Len(wire'), n, Len(e.output) + 8, e.code, AfterD(shell'.phase))
      <4>1. AfterD(shell'.phase) = {<<>>}
        BY <1>1 DEF AfterD
      <4> QED BY <2>12, <3>1, <3>2, <4>1
    <3>5. /\ pending'.some /\ mode' = "Idle" /\ Len(ended') = Len(recorded') + 1
          /\ shell'.phase \in {"prompting", "prompt"} /\ tty' = <<>>
      BY <1>1, <1>2, <2>1, <2>6
    <3> QED BY <3>1, <3>3, <3>4, <3>5 DEF CommandEnded, EndedAs
  <2> QED BY <1>3, <2>6, <2>7, <2>13 DEF RecordInv
<1> QED BY <1>1, <1>4, <1>5 DEF RecordInv, CommandTyped, CommandEnded

(* The prompt is shown, after the D of a command that has ended.           *)
LEMMA RecordShowPrompt ==
  ASSUME TypeInv, FedInv, WholeInv, RecordInv, ShowPrompt
  PROVE  RecordInv'
<1>1. /\ shell.phase = "prompting" /\ tty' = tty /\ mode' = mode /\ parser' = parser /\ ended' = ended
      /\ capture' = capture /\ line_buf' = line_buf /\ pending' = pending /\ recorded' = recorded
      /\ Emit(PromptShown) /\ shell'.phase = "prompt" /\ shell'.line = <<>> /\ shell'.output = <<>>
  BY DEF ShowPrompt, replVars, AtPrompt, PromptShown
<1>2. LineInv /\ Noted /\ ended \in Seq(EndedCommands) /\ tty = <<>> /\ line_buf = <<>>
  BY <1>1, AwayFromPrompt DEF RecordInv
<1>3. /\ PromptShown \in Seq(Byte) /\ \A n \in 0..Len(PromptShown) : OscFed(Standing, PromptShown)[n].marks \in Prompts
      /\ OscFeedBytes(Standing, PromptShown).parser.terminal_state = "Input"
  <2> DEFINE s == seen \o wire
  <2>1. s \in Seq(Byte) /\ Whole(s)
    BY ConcatProperties DEF TypeInv, WholeInv
  <2> HIDE DEF s
  <2>2. LET q == OscFeedBytes(NewOscParser, s).parser IN
        /\ PromptShown \in Seq(Byte)
        /\ \A n \in 0..Len(PromptShown) : OscFed(q, PromptShown)[n].marks \in Prompts
        /\ OscFeedBytes(q, PromptShown).parser.terminal_state = "Input"
    BY <2>1, PromptMarks
  <2> QED BY <2>2 DEF Standing, s
<1>4. /\ Len(wire) \in Nat /\ Len(PromptShown) \in Nat /\ wire' = wire \o PromptShown
      /\ Len(wire') = Len(wire) + Len(PromptShown) /\ Ahead(Len(wire)) \in Seq(Marks)
      /\ \A n \in 0..Len(wire') :
           \/ n \in 0..Len(wire) /\ Ahead(n)' = Ahead(n)
           \/ n - Len(wire) \in 1..Len(PromptShown)
              /\ Ahead(n)' = Ahead(Len(wire)) \o OscFed(Standing, PromptShown)[n - Len(wire)].marks
      /\ OscFeedBytes(parser', wire').parser = OscFeedBytes(Standing, PromptShown).parser
  BY <1>1, <1>3, AheadAfter
<1>5. LineInv'
  <2>1. Holds(shell'.line, tty', Len(tty'), line_buf')
    <3>1. Holds(<<>>, <<>>, 0, <<>>)
      BY HoldsNothing, EmptySeq
    <3>2. Len(tty') = 0
      BY <1>1, <1>2, EmptySeq
    <3> QED BY <1>1, <1>2, <3>1, <3>2
  <2>2. OscFeedBytes(parser', wire').parser.terminal_state = "Input"
    BY <1>3, <1>4
  <2> QED BY <1>1, <1>2, <2>1, <2>2 DEF LineInv
<1>6. CASE NoCommand
  <2>1. NoCommand'
    BY <1>1, <1>2, <1>6 DEF NoCommand, Entering
  <2> QED BY <1>1, <1>2, <1>5, <2>1 DEF RecordInv, Noted
<1>7. CASE CommandEnded
  <2> DEFINE last == ended[Len(ended)]
             told == Told(last, "prompting")
             told2 == Told(last, "prompt")
             W == Len(wire)
             k == Len(told) - W
             now == Len(told2) - Len(wire')
             d == Len(last.output) + 8
             markD == MarkIn(MarkerD(last.code))
  <2>1. /\ pending.some /\ mode = "Idle" /\ Len(ended) = Len(recorded) + 1
        /\ last.cmd = pending.value /\ k < d /\ Arrives(told, wire, capture)
        /\ \A n \in 0..W : Ahead(n) \in Ended(k, n, d, last.code, {<<>>})
    BY <1>1, <1>7 DEF CommandEnded, EndedAs, AfterD
  <2>2. last \in EndedCommands
    <3>1. Len(ended) = Len(recorded) + 1 /\ Len(recorded) \in Nat
      BY <2>1, LenProperties DEF TypeInv
    <3> QED BY <1>2, <3>1, ElementOfSeq
  <2>3. /\ last.code \in {0, 1} /\ last.output \in Seq(Byte) /\ told \in Seq(Byte)
        /\ MarkerD(last.code) \in Seq(Byte) /\ Len(MarkerD(last.code)) = 8
        /\ markD \in Marks /\ wire \in Seq(Byte)
    <3>1. last.code \in {0, 1} /\ last.output \in Seq(Byte) /\ told \in Seq(Byte)
      BY <2>2, ToldIs
    <3> HIDE DEF last, told
    <3> QED BY <3>1, MarksAre, ShellPrintsBytes DEF TypeInv
  <2>4. told2 = told \o PromptShown /\ Len(told) = Len(last.output) + 8 /\ Len(last.output) \in Nat
    <3> DEFINE marker == MarkerD(last.code)
               output == last.output
    <3>1. told = output \o (marker \o <<>>) /\ told2 = output \o (marker \o PromptShown)
      BY DEF Told
    <3>2. marker \in Seq(Byte) /\ output \in Seq(Byte) /\ Len(marker) = 8
      BY <2>3
    <3> HIDE DEF marker, output, told, told2
    <3>3. marker \o <<>> = marker
      BY <3>2, ConcatEmptySeq
    <3>4. (output \o marker) \o PromptShown = output \o (marker \o PromptShown)
      BY <1>3, <3>2, ConcatAssociative, SMTT(40)
    <3>5. Len(output \o marker) = Len(output) + 8 /\ Len(output) \in Nat
      <4>1. Len(output \o marker) = Len(output) + Len(marker)
        BY <3>2, ConcatProperties
      <4> QED BY <3>2, <4>1, LenProperties
    <3> QED BY <3>1, <3>3, <3>4, <3>5 DEF output
  <2>5. now = k /\ now < d
    <3>1. Len(told2) = Len(told) + Len(PromptShown)
      <4> HIDE DEF told, told2
      <4> QED BY <1>3, <2>3, <2>4, ConcatProperties
    <3>2. Len(told) \in Nat /\ Len(last.output) \in Nat
      BY <2>4
    <3>3. now = k
      <4> HIDE DEF told, told2
      <4> QED BY <1>4, <3>1, <3>2
    <3> QED BY <2>1, <3>3
  <2>6. Arrives(told2, wire', capture')
    <3> HIDE DEF told, told2
    <3>1. Arrives(told \o PromptShown, wire \o PromptShown, capture)
      BY <1>3, <2>1, <2>3, ToldMore
    <3> QED BY <1>1, <1>4, <2>4, <3>1
  <2>7. ASSUME NEW n \in 0..Len(wire')
        PROVE  Ahead(n)' \in Ended(k, n, d, last.code, Prompts)
    <3>1. CASE n \in 0..W /\ Ahead(n)' = Ahead(n)
      <4>1. Ahead(n) \in Ended(k, n, d, last.code, {<<>>})
        BY <2>1, <3>1
      <4>2. <<>> \in Prompts
        BY MarksAre
      <4> HIDE DEF k, d, last
      <4> QED BY <3>1, <4>1, <4>2 DEF Ended
    <3>2. CASE n - W \in 1..Len(PromptShown)
               /\ Ahead(n)' = Ahead(W) \o OscFed(Standing, PromptShown)[n - W].marks
      <4> DEFINE shown == OscFed(Standing, PromptShown)[n - W].marks
                 start == Started(k, n) \o <<markD>>
      <4>1. shown \in Prompts
        <5>1. n - W \in 0..Len(PromptShown)
          BY <1>4, <3>2
        <5> QED BY <1>3, <5>1
      <4>2. /\ k + W >= d /\ k + n >= d /\ k + W >= 0 /\ k + n >= 0 /\ k \in Int /\ n \in Int /\ W \in 0..W
            /\ d \in Int /\ ~ (k + W < d) /\ ~ (k + n < d)
        <5> DEFINE size == Len(last.output)
        <5>1. Len(told) = size + 8 /\ size \in Nat /\ d = size + 8
          BY <2>4
        <5> HIDE DEF told, W, size, d
        <5> QED BY <1>4, <3>2, <5>1 DEF W
      <4>3. Started(k, W) = Started(k, n) /\ Started(k, n) \in Seq(Marks)
        <5>1. Started(k, n) \in Seq(Marks)
          <6> HIDE DEF k
          <6> QED BY <4>2, MarksAre
        <5> HIDE DEF k, W
        <5> QED BY <4>2, <5>1 DEF Started
      <4>4. Ahead(W) = start
        <5>1. Ahead(W) \in Ended(k, W, d, last.code, {<<>>})
          BY <2>1, <4>2
        <5>2. Ahead(W) = (Started(k, W) \o <<markD>>) \o <<>>
          <6> HIDE DEF k, W, d, last
          <6> QED BY <4>2, <5>1 DEF Ended, markD
        <5>3. start \in Seq(Marks)
          <6>1. <<markD>> \in Seq(Marks)
            <7> HIDE DEF markD
            <7> QED BY <2>3
          <6> HIDE DEF k, markD
          <6> QED BY <4>3, <6>1, ConcatProperties
        <5>4. start \o <<>> = start
          <6> HIDE DEF start
          <6> QED BY <5>3, ConcatEmptySeq
        <5> QED BY <4>3, <5>2, <5>4
      <4>5. Ahead(n)' = (Started(k, n) \o <<markD>>) \o shown
        BY <3>2, <4>4
      <4> HIDE DEF k, d, last, shown
      <4> QED BY <4>1, <4>2, <4>5 DEF Ended, markD
    <3> QED BY <1>4, <3>1, <3>2
  <2>8. CommandEnded'
    <3> DEFINE e == ended'[Len(ended')]
               told3 == Told(e, shell'.phase)
    <3>1. e = last /\ told3 = told2
      BY <1>1
    <3>2. Len(told3) - Len(wire') = k
      BY <2>5, <3>1
    <3>3. /\ e.cmd = pending'.value /\ Len(told3) - Len(wire') < Len(e.output) + 8
          /\ Arrives(told3, wire', capture')
      BY <1>1, <2>1, <2>5, <2>6, <3>1
    <3>4. \A n \in 0..Len(wire') :
            Ahead(n)' \in Ended(Len(told3) - Len(wire'), n, Len(e.output) + 8, e.code, AfterD(shell'.phase))
      <4>1. AfterD(shell'.phase) = Prompts
        BY <1>1 DEF AfterD
      <4> QED BY <2>7, <3>1, <3>2, <4>1
    <3>5. /\ pending'.some /\ mode' = "Idle" /\ Len(ended') = Len(recorded') + 1
          /\ shell'.phase \in {"prompting", "prompt"} /\ tty' = <<>>
      BY <1>1, <1>2, <2>1
    <3> QED BY <3>3, <3>4, <3>5 DEF CommandEnded, EndedAs
  <2> QED BY <1>1, <1>2, <1>5, <2>8 DEF RecordInv, Noted
<1> QED BY <1>1, <1>6, <1>7 DEF RecordInv, CommandTyped, CommandRuns

(* The shell reads a key that does not enter a line.                       *)
LEMMA RecordEcho ==
  ASSUME TypeInv, RecordInv, FedInv, WholeInv, ReadKey, Head(tty) # NEWLINE
  PROVE  RecordInv'
<1> DEFINE key == Head(tty)
           keys == Tail(tty)
<1>1. /\ tty # <<>> /\ shell.phase = "prompt" /\ tty' = keys /\ mode' = mode /\ parser' = parser
      /\ ended' = ended /\ capture' = capture /\ line_buf' = line_buf /\ pending' = pending
      /\ recorded' = recorded
  BY DEF ReadKey, replVars
<1>2. tty \in Seq(TtyKey) /\ Len(tty) \in Nat /\ Len(tty) >= 1 /\ key \in TtyKey /\ key = tty[1]
      /\ shell.line \in Seq(TtyKey)
  <2>1. tty \in Seq(TtyKey) /\ Len(tty) \in Nat /\ shell.line \in Seq(TtyKey)
    BY LenProperties DEF TypeInv, Shells
  <2>2. Len(tty) # 0
    BY <1>1, <2>1, EmptySeq
  <2>3. key = tty[1] /\ 1 \in 1..Len(tty)
    BY <1>1, <2>1, <2>2, HeadTailProperties
  <2> QED BY <2>1, <2>2, <2>3, ElementOfSeq
<1>3. Len(keys) = Len(tty) - 1 /\ \A i \in 1..Len(keys) : keys[i] = tty[i + 1]
  BY <1>1, <1>2, HeadTailProperties
<1>4. LineInv /\ Noted /\ ended \in Seq(EndedCommands)
  BY DEF RecordInv
<1>5. shell'.phase = "prompt" /\ shell'.line = KeyHeld(shell.line, key) /\ shell'.output = <<>>
  <2>1. shell.output = <<>> /\ shell \in Shells
    BY <1>1, <1>4 DEF LineInv, TypeInv
  <2>2. CASE key = CTRL_U
    <3>1. shell' = AtPrompt
      BY <2>2 DEF ReadKey
    <3> QED BY <2>2, <3>1 DEF AtPrompt, KeyHeld
  <2>3. CASE key # CTRL_U
    <3>1. shell' = [shell EXCEPT !.line = Append(@, key)]
      BY <2>3 DEF ReadKey
    <3>2. shell'.phase = shell.phase /\ shell'.line = Append(shell.line, key) /\ shell'.output = shell.output
      BY <2>1, <3>1 DEF Shells
    <3> QED BY <1>1, <2>1, <2>3, <3>2 DEF KeyHeld
  <2> QED BY <2>2, <2>3
<1>6. /\ Quiet => Quiet'
      /\ OscFeedBytes(parser', wire').parser.terminal_state = OscFeedBytes(parser, wire).parser.terminal_state
  <2>1. CASE wire' = wire
    BY <1>1, <2>1 DEF Quiet, Ahead
  <2>2. CASE Emit(<<key>>)
    <3>1. key # "133" /\ Whole(<<key>>) /\ <<key>> \in Seq(Byte)
      <4>1. key # "133"
        BY <1>2 DEF TtyKey, Key, NEWLINE, CTRL_U
      <4>2. key \in Byte
        BY <1>2, TtyKeysAre
      <4> QED BY <1>2, <4>1, <4>2, ShellPrintsWhole
    <3>2. \A i \in 1..Len(<<key>>) : <<key>>[i] # "133"
      BY <3>1
    <3> DEFINE bytes == <<key>>
    <3>3. bytes \in Seq(Byte) /\ Whole(bytes) /\ Emit(bytes) /\ \A i \in 1..Len(bytes) : bytes[i] # "133"
      BY <2>2, <3>1, <3>2
    <3> HIDE DEF bytes
    <3> QED BY <1>1, <3>3, AheadPlain
  <2>3. wire' = wire \/ Emit(<<key>>)
    BY DEF ReadKey
  <2> QED BY <2>1, <2>2, <2>3
<1>7. Entering(keys) <=> Entering(tty)
  <2>1. CASE keys = <<>>
    <3>1. Len(tty) = 1
      <4>1. Len(keys) = 0
        BY <2>1, EmptySeq
      <4> HIDE DEF keys
      <4> QED BY <1>2, <1>3, <4>1
    <3> QED BY <1>2, <2>1, <3>1 DEF Entering
  <2>2. CASE keys # <<>>
    <3>1. keys \in Seq(TtyKey)
      BY <1>1, <1>2, HeadTailProperties
    <3>2. Len(keys) # 0 /\ Len(keys) \in Nat
      BY <2>2, <3>1, EmptySeq, LenProperties
    <3>3. keys[Len(keys)] = tty[Len(tty)]
      <4> HIDE DEF keys
      <4> QED BY <1>2, <1>3, <3>2
    <3> HIDE DEF keys
    <3> QED BY <1>1, <2>2, <3>3 DEF Entering
  <2> QED BY <2>1, <2>2
<1>8. ASSUME NEW n \in 1..Len(tty), NEW held, Holds(shell.line, tty, n, held)
      PROVE  Holds(shell'.line, tty', n - 1, held)
  BY <1>1, <1>2, <1>5, <1>8, HoldsRead
<1>9. LineInv'
  <2>1. \A i \in 1..Len(keys) : keys[i] = NEWLINE => i = Len(keys)
    <3> HIDE DEF keys
    <3>1. \A i \in 1..Len(tty) : tty[i] = NEWLINE => i = Len(tty)
      BY <1>4 DEF LineInv
    <3> QED BY <1>2, <1>3, <3>1
  <2>2. line_buf # <<>> => mode = "Idle" /\ ~Entering(tty) /\ Quiet
    BY <1>4 DEF LineInv
  <2>3. ASSUME ~Entering(tty)
        PROVE  Holds(shell'.line, tty', Len(tty'), line_buf)
    <3>1. Holds(shell.line, tty, Len(tty), line_buf)
      BY <1>1, <1>4, <2>3 DEF LineInv
    <3>2. Len(tty) \in 1..Len(tty)
      BY <1>2
    <3> QED BY <1>1, <1>3, <1>8, <3>1, <3>2
  <2>4. OscFeedBytes(parser, wire).parser.terminal_state = "Input"
    BY <1>1, <1>4 DEF LineInv
  <2> HIDE DEF keys
  <2> QED BY <1>1, <1>5, <1>6, <1>7, <2>1, <2>2, <2>3, <2>4 DEF LineInv
<1>10. ASSUME NEW held, Entering(tty), Holds(shell.line, tty, Len(tty) - 1, held)
       PROVE  Holds(shell'.line, tty', Len(tty') - 1, held)
  <2>1. Len(tty) # 1
    BY <1>2, <1>10 DEF Entering
  <2>2. Len(tty) - 1 \in 1..Len(tty) /\ Len(tty') = Len(tty) - 1
    BY <1>1, <1>2, <1>3, <2>1
  <2> QED BY <1>8, <1>10, <2>2
<1>11. Noted' /\ ended' \in Seq(EndedCommands)
  BY <1>1, <1>4 DEF Noted
<1>12. CASE NoCommand
  <2>1. NoCommand'
    <3> HIDE DEF keys
    <3> QED BY <1>1, <1>5, <1>7, <1>10, <1>12 DEF NoCommand
  <2> QED BY <1>9, <1>11, <2>1 DEF RecordInv
<1>13. CASE CommandTyped
  <2>1. CommandTyped'
    <3> HIDE DEF keys
    <3> QED BY <1>1, <1>5, <1>6, <1>7, <1>10, <1>13 DEF CommandTyped
  <2> QED BY <1>9, <1>11, <2>1 DEF RecordInv
<1> QED BY <1>1, <1>12, <1>13 DEF RecordInv, CommandRuns, CommandEnded

(* The shell reads Enter: a command runs.                                  *)
LEMMA RecordEnter ==
  ASSUME TypeInv, RecordInv, FedInv, WholeInv, ReadKey, Head(tty) = NEWLINE
  PROVE  RecordInv'
<1>1. /\ tty # <<>> /\ shell.phase = "prompt" /\ tty' = Tail(tty) /\ mode' = mode /\ parser' = parser
      /\ ended' = ended /\ capture' = capture /\ line_buf' = line_buf /\ pending' = pending
      /\ recorded' = recorded
  BY DEF ReadKey, replVars
<1>2. LineInv /\ Noted /\ ended \in Seq(EndedCommands) /\ shell.line \in Seq(TtyKey)
  BY DEF RecordInv, TypeInv, Shells
<1>3. Len(tty) = 1 /\ Entering(tty) /\ tty' = <<>>
  <2>1. tty \in Seq(TtyKey) /\ Len(tty) \in Nat
    BY LenProperties DEF TypeInv
  <2>2. Len(tty) # 0
    BY <1>1, <2>1, EmptySeq
  <2>3. tty[1] = NEWLINE /\ 1 \in 1..Len(tty)
    BY <1>1, <2>1, <2>2, HeadTailProperties
  <2>4. Len(tty) = 1
    BY <1>2, <2>3 DEF LineInv
  <2>5. Tail(tty) \in Seq(TtyKey) /\ Len(Tail(tty)) = 0
    BY <1>1, <2>1, <2>4, HeadTailProperties
  <2> QED BY <1>1, <2>3, <2>4, <2>5, EmptySeq DEF Entering
<1>4. line_buf = <<>> /\ shell.output = <<>> /\ shell \in Shells
  BY <1>1, <1>2, <1>3 DEF LineInv, TypeInv
<1>5. \A held : Holds(shell.line, tty, Len(tty) - 1, held) => shell.line = held
  BY <1>2, <1>3, HoldsNothing
<1>6. /\ shell'.line = shell.line /\ shell'.output = <<>>
      /\ IF shell.line = <<>> \/ IsComment(shell.line) THEN shell'.phase = "ended"
         ELSE shell'.phase = "running" /\ Emit(<<"\n">> \o Marker("C"))
  <2>1. CTRL_U # NEWLINE
    BY DEF CTRL_U, NEWLINE
  <2>2. IF shell.line = <<>> \/ IsComment(shell.line)
        THEN shell' = [shell EXCEPT !.phase = "ended"]
        ELSE shell' = [shell EXCEPT !.phase = "running"] /\ Emit(<<"\n">> \o Marker("C"))
    BY <2>1 DEF ReadKey
  <2>3. CASE shell.line = <<>> \/ IsComment(shell.line)
    <3>1. shell' = [shell EXCEPT !.phase = "ended"]
      BY <2>2, <2>3
    <3>2. shell'.phase = "ended" /\ shell'.line = shell.line /\ shell'.output = shell.output
      BY <1>4, <3>1 DEF Shells
    <3> QED BY <1>4, <2>3, <3>2
  <2>4. CASE ~ (shell.line = <<>> \/ IsComment(shell.line))
    <3>1. shell' = [shell EXCEPT !.phase = "running"] /\ Emit(<<"\n">> \o Marker("C"))
      BY <2>2, <2>4
    <3>2. shell'.phase = "running" /\ shell'.line = shell.line /\ shell'.output = shell.output
      BY <1>4, <3>1 DEF Shells
    <3> QED BY <1>4, <2>4, <3>1, <3>2
  <2> QED BY <2>3, <2>4
<1>7. LineInv' /\ Noted' /\ ended' \in Seq(EndedCommands)
  <2>1. shell'.phase # "prompt" /\ shell'.output = <<>> /\ tty' = <<>> /\ line_buf' = <<>>
    BY <1>1, <1>3, <1>4, <1>6
  <2>2. \A i \in 1..Len(tty') : tty'[i] = NEWLINE => i = Len(tty')
    <3>1. \A i \in 1..Len(tty') : FALSE
      BY <2>1
    <3> QED BY <3>1
  <2>3. LineInv'
    BY <2>1, <2>2 DEF LineInv
  <2> QED BY <1>1, <1>2, <2>3 DEF Noted
<1>8. CASE NoCommand
  <2>1. shell.line \in {<<>>, <<"#">>, <<"a">>}
    BY <1>1, <1>3, <1>5, <1>8 DEF NoCommand
  <2>2. IsComment(<<"#">>)
    BY DEF IsComment
  <2>3. shell'.phase = "running" => shell'.line = <<"a">>
    BY <1>6, <2>1, <2>2
  <2>4. NoCommand'
    BY <1>1, <1>3, <1>6, <1>8, <2>3 DEF NoCommand, Entering
  <2> QED BY <1>7, <2>4 DEF RecordInv
<1>9. CASE CommandTyped
  <2> DEFINE bytes == <<"\n">> \o Marker("C")
             W == Len(wire)
             k == 0 - (W + 7)
  <2>1. shell.line = pending.value /\ pending.some /\ mode = "Idle" /\ Len(recorded) = Len(ended) /\ Quiet
    BY <1>5, <1>9 DEF CommandTyped
  <2>2. shell.line # <<>> /\ ~IsComment(shell.line)
    BY <2>1, OptionIs DEF TypeInv, Commands
  <2>3. shell'.phase = "running" /\ Emit(bytes)
    BY <1>6, <2>2
  <2>4. /\ bytes \in Seq(Byte) /\ Len(bytes) = 7
        /\ \A n \in 0..6 : OscFed(Standing, bytes)[n].marks = <<>>
        /\ OscFed(Standing, bytes)[7].marks = <<MarkC>>
    <3> DEFINE s == seen \o wire
    <3>1. s \in Seq(Byte) /\ Whole(s)
      BY ConcatProperties DEF TypeInv, WholeInv
    <3> HIDE DEF s
    <3>2. LET q == OscFeedBytes(NewOscParser, s).parser
              t == <<"\n">> \o Marker("C")
          IN /\ t \in Seq(Byte) /\ Len(t) = 7
             /\ \A n \in 0..6 : OscFed(q, t)[n].marks = <<>>
             /\ OscFed(q, t)[7].marks = <<MarkC>>
      BY <3>1, EnterMarks
    <3> QED BY <3>2 DEF Standing, s
  <2> HIDE DEF bytes
  <2>5. /\ W \in Nat /\ Len(wire') = W + 7
        /\ \A n \in 0..Len(wire') :
             \/ n \in 0..W /\ Ahead(n)' = Ahead(n)
             \/ n - W \in 1..7 /\ Ahead(n)' = Ahead(W) \o OscFed(Standing, bytes)[n - W].marks
    BY <1>1, <2>3, <2>4, AheadAfter
  <2>6. ASSUME NEW n \in 0..Len(wire')
        PROVE  Ahead(n)' = Started(k, n)
    <3>1. CASE n \in 0..W /\ Ahead(n)' = Ahead(n)
      <4>1. ~ (k + n >= 0)
        <5> HIDE DEF W
        <5> QED BY <2>5, <3>1
      <4>2. Ahead(n)' = <<>>
        BY <2>1, <3>1 DEF Quiet
      <4> QED BY <4>1, <4>2 DEF Started
    <3>2. CASE n - W \in 1..7 /\ Ahead(n)' = Ahead(W) \o OscFed(Standing, bytes)[n - W].marks
      <4>1. Ahead(W) = <<>>
        <5>1. W \in 0..W
          BY <2>5
        <5> QED BY <2>1, <5>1 DEF Quiet
      <4>2. CASE n - W < 7
        <5>1. n - W \in 0..6 /\ ~ (k + n >= 0)
          <6> HIDE DEF W
          <6> QED BY <2>5, <3>2, <4>2
        <5>2. Ahead(n)' = <<>> \o <<>> /\ <<>> \o <<>> = <<>>
          BY <2>4, <3>2, <4>1, <5>1, SMTT(40)
        <5> QED BY <5>1, <5>2 DEF Started
      <4>3. CASE n - W = 7
        <5>1. k < 0 /\ k + n >= 0
          <6> HIDE DEF W
          <6> QED BY <2>5, <3>2, <4>3
        <5>2. <<>> \o <<MarkC>> = <<MarkC>>
          <6>1. <<MarkC>> \in Seq(Marks)
            BY MarksAre
          <6> QED BY <6>1, ConcatEmptySeq
        <5>3. Ahead(n)' = <<MarkC>>
          BY <2>4, <3>2, <4>1, <4>3, <5>2
        <5> QED BY <5>1, <5>3 DEF Started
      <4> QED BY <2>5, <3>2, <4>2, <4>3
    <3> QED BY <2>5, <3>1, <3>2
  <2>7. Len(shell'.output) - Len(wire') = k
    <3>1. Len(shell'.output) = 0
      BY <1>6, EmptySeq
    <3> HIDE DEF W
    <3> QED BY <2>5, <3>1
  <2>8. Arrives(shell'.output, wire', capture')
    <3>1. /\ \A i \in 1..Len(wire') : ~ (k + i >= 1)
          /\ ~ (k >= 0)
      <4> HIDE DEF W
      <4> QED BY <2>5
    <3> HIDE DEF k
    <3> QED BY <2>7, <3>1 DEF Arrives
  <2>9. CommandRuns'
    <3>1. \A n \in 0..Len(wire') : Ahead(n)' = Started(Len(shell'.output) - Len(wire'), n)
      BY <2>6, <2>7
    <3> QED BY <1>1, <1>6, <2>1, <2>3, <2>8, <3>1 DEF CommandRuns
  <2> QED BY <1>7, <2>9 DEF RecordInv
<1> QED BY <1>1, <1>3, <1>8, <1>9 DEF RecordInv, CommandRuns, CommandEnded

(* Enter in a chunk is its end: the user waits for the prompt.             *)
KeysWait == \A chunk \in Typed : \A i \in 1..Len(chunk) : chunk[i] = NEWLINE => i = Len(chunk)

(* What a line that is entered is.                                         *)
LEMMA EnteredIs ==
  ASSUME NEW r \in KeyStates, r.pending = None
  PROVE  LET e == Entered(r) IN
         /\ e.line_buf = <<>> /\ e.recorded = r.recorded /\ e.capture = r.capture
         /\ \/ e.mode = "Turn" /\ e.cleared = Append(r.cleared, CTRL_U) /\ e.pending = None
            \/ e.mode = r.mode /\ e.cleared = r.cleared /\ e.pending = Some(r.line_buf)
            \/ /\ e.mode = r.mode /\ e.cleared = r.cleared /\ e.pending = None
               /\ r.line_buf \in {<<>>, <<"#">>}
<1>1. r.line_buf \in Seq(Key) /\ ~r.pending.some
  BY DEF KeyStates, None
<1> DEFINE instr == IsInstruction(r.line_buf)
           blank == r.line_buf = <<>> \/ r.line_buf = <<"#">>
           comm  == r.line_buf # <<>> /\ ~IsComment(r.line_buf)
<1>2. CASE instr
  <2>1. Entered(r) = [r EXCEPT !.mode = "Turn", !.cleared = Append(@, CTRL_U), !.line_buf = <<>>]
    <3>1. ~blank /\ ~comm
      BY <1>1, <1>2, LineKinds
    <3> QED BY <1>2, <3>1 DEF Entered
  <2> QED BY <2>1 DEF KeyStates
<1>3. CASE comm
  <2>1. Entered(r) = [r EXCEPT !.pending = Some(r.line_buf), !.line_buf = <<>>,
                               !.recorded = r.recorded, !.capture = r.capture]
    <3>1. ~instr /\ ~blank
      BY <1>1, <1>3, LineKinds
    <3> QED BY <1>1, <1>3, <3>1 DEF Entered
  <2> QED BY <2>1 DEF KeyStates
<1>4. CASE blank
  <2>1. Entered(r) = [r EXCEPT !.line_buf = <<>>]
    <3>1. ~instr /\ ~comm
      BY <1>1, <1>4, LineKinds
    <3> QED BY <1>4, <3>1 DEF Entered
  <2> QED BY <1>4, <2>1 DEF KeyStates
<1>5. instr \/ comm \/ blank
  BY <1>1, LineKinds
<1> QED BY <1>2, <1>3, <1>4, <1>5

(* Something is typed, at a prompt and with nothing on its way: no command *)
(* is remembered and line_buf is the shell's line.                         *)
LEMMA RecordType ==
  ASSUME TypeInv, RecordInv, KeysWait, NEW chunk \in Typed, Type(chunk)
  PROVE  RecordInv'
<1> DEFINE here == [mode |-> mode, cleared |-> <<>>, line_buf |-> line_buf, pending |-> pending,
                    recorded |-> recorded, capture |-> capture]
           s == AllKeyed(here, chunk)
           N == Len(chunk)
<1>1. /\ mode = "Idle" /\ shell.phase = "prompt" /\ wire = <<>> /\ tty = <<>>
      /\ shell' = shell /\ wire' = wire /\ ended' = ended /\ parser' = parser
  BY DEF Type, OnStdin, shellVars
<1>2. LineInv /\ Noted /\ ended \in Seq(EndedCommands) /\ ~Entering(tty)
  BY <1>1 DEF RecordInv, Entering
<1>3. NoCommand
  <2>1. ~CommandEnded
    <3>1. CommandsRecorded
      BY RecordInvRecords
    <3>2. Len(recorded) = Len(ended) /\ Len(recorded) \in Nat
      BY <1>1, <3>1, LenProperties DEF CommandsRecorded, TypeInv
    <3> QED BY <3>2 DEF CommandEnded
  <2> QED BY <1>1, <1>2, <2>1 DEF RecordInv, CommandTyped, CommandRuns
<1>4. parser.terminal_state = "Input" /\ Quiet
  <2>1. OscFeedBytes(parser, <<>>).parser = parser /\ OscFeedBytes(parser, <<>>).marks = <<>>
    BY NewHistoryTyped, TerminalAssumption, FeedNothing DEF TypeInv
  <2>2. Len(wire) = 0
    BY <1>1, EmptySeq
  <2>3. Ahead(0) = <<>>
    BY <1>1, <2>1, <2>2 DEF Ahead, OscFeedBytes
  <2> QED BY <1>1, <1>2, <2>1, <2>2, <2>3 DEF LineInv, Quiet
<1>5. Quiet' /\ OscFeedBytes(parser', wire').parser.terminal_state = "Input"
  BY <1>1, <1>2, <1>4 DEF Quiet, Ahead, LineInv
<1>6. line_buf = shell.line /\ shell.line \in Seq(TtyKey) /\ shell.output = <<>>
  <2>1. shell.line \in Seq(TtyKey) /\ Len(tty) = 0
    BY <1>1, EmptySeq DEF TypeInv, Shells
  <2>2. Holds(shell.line, tty, 0, line_buf)
    BY <1>1, <1>2, <2>1 DEF LineInv
  <2> QED BY <1>1, <1>2, <2>1, <2>2, HoldsNothing DEF LineInv
<1>7. /\ chunk \in Seq(Key) /\ here \in KeyStates /\ N \in Nat
  <2>1. chunk \in Seq(Key)
    BY TerminalAssumption
  <2>2. here \in KeyStates
    BY EmptySeq DEF TypeInv, KeyStates
  <2> QED BY <2>1, <2>2, LenProperties
<1>8. /\ mode' = s.mode /\ line_buf' = s.line_buf /\ pending' = s.pending
      /\ recorded' = s.recorded /\ capture' = s.capture
      /\ tty' = <<>> \o (IF s.cleared # <<>> THEN s.cleared ELSE chunk)
  BY <1>1, <1>4 DEF Type, OnStdin
<1>9. <<>> \o chunk = chunk
  BY <1>7, ConcatEmptySeq
<1>10. /\ here.mode = "Idle" /\ here.cleared = <<>> /\ here.line_buf = shell.line
       /\ here.pending = None /\ here.recorded = recorded /\ here.capture = capture
  BY <1>1, <1>3, <1>6 DEF NoCommand
<1>11. Noted /\ Len(recorded) = Len(ended)
  BY <1>2, <1>3 DEF NoCommand
<1> HIDE DEF here
<1>12. CASE \A i \in 1..N : chunk[i] # NEWLINE
  <2>1. LET r == KeyedUpTo(here, chunk)[N] IN
        /\ r \in KeyStates /\ Holds(here.line_buf, chunk, N, r.line_buf)
        /\ r.mode = here.mode /\ r.cleared = here.cleared /\ r.pending = here.pending
        /\ r.recorded = here.recorded /\ r.capture = here.capture
    <3>1. N \in 0..N
      BY <1>7
    <3> QED BY <1>7, <1>12, <3>1, KeysTyped
  <2>2. /\ Holds(shell.line, chunk, N, s.line_buf) /\ s.mode = "Idle" /\ s.cleared = <<>>
        /\ s.pending = None /\ s.recorded = recorded
    BY <1>10, <2>1 DEF AllKeyed
  <2>3. tty' = chunk /\ ~Entering(chunk)
    <3>1. tty' = chunk
      BY <1>8, <1>9, <2>2
    <3>2. ASSUME chunk # <<>>
          PROVE  N \in 1..N
      BY <1>7, <3>2, EmptySeq
    <3> QED BY <1>12, <3>1, <3>2 DEF Entering
  <2>4. LineInv'
    <3> HIDE DEF s
    <3> QED BY <1>1, <1>5, <1>6, <1>8, <1>12, <2>2, <2>3 DEF LineInv
  <2>5. NoCommand'
    <3> HIDE DEF s
    <3> QED BY <1>1, <1>8, <1>11, <2>2, <2>3 DEF NoCommand
  <2> HIDE DEF s
  <2> QED BY <1>1, <1>2, <1>8, <2>2, <2>4, <2>5 DEF RecordInv, Noted
<1>13. CASE \E i \in 1..N : chunk[i] = NEWLINE
  <2> DEFINE r == KeyedUpTo(here, chunk)[N - 1]
  <2>1. N \in 1..N /\ chunk[N] = NEWLINE /\ \A i \in 1..N : chunk[i] = NEWLINE => i = N
    BY <1>7, <1>13 DEF KeysWait
  <2>2. /\ r \in KeyStates /\ Holds(here.line_buf, chunk, N - 1, r.line_buf)
        /\ r.mode = here.mode /\ r.cleared = here.cleared /\ r.pending = here.pending
        /\ r.recorded = here.recorded /\ r.capture = here.capture
    <3>1. N - 1 \in 0..N /\ N - 1 \in 0..(N - 1) /\ \A i \in 1..(N - 1) : chunk[i] # NEWLINE
      BY <1>7, <2>1
    <3> DEFINE last == N - 1
    <3>2. last \in 0..Len(chunk) /\ last \in 0..last /\ \A i \in 1..last : chunk[i] # NEWLINE
      BY <3>1
    <3> HIDE DEF last
    <3>3. \A n \in 0..last :
            LET q == KeyedUpTo(here, chunk)[n] IN
            /\ q \in KeyStates /\ Holds(here.line_buf, chunk, n, q.line_buf)
            /\ q.mode = here.mode /\ q.cleared = here.cleared /\ q.pending = here.pending
            /\ q.recorded = here.recorded /\ q.capture = here.capture
      BY <1>7, <3>2, KeysTyped
    <3> QED BY <3>2, <3>3 DEF last
  <2>3. s = Entered(r)
    <3>1. KeyedUpTo(here, chunk)[N] = Keyed(KeyedUpTo(here, chunk)[N - 1], chunk[N])
      BY <1>7, <2>1, KeyedDefined
    <3>2. CTRL_U # NEWLINE
      BY DEF CTRL_U, NEWLINE
    <3>3. Keyed(r, NEWLINE) = Entered(r)
      BY <3>2 DEF Keyed
    <3> QED BY <2>1, <3>1, <3>3 DEF AllKeyed, r
  <2>4. /\ r.mode = "Idle" /\ r.cleared = <<>> /\ r.pending = None /\ r.recorded = recorded
        /\ Holds(shell.line, chunk, N - 1, r.line_buf)
    BY <1>10, <2>2
  <2> HIDE DEF r
  <2>5. /\ s.line_buf = <<>> /\ s.recorded = recorded
        /\ \/ s.mode = "Turn" /\ s.cleared = Append(<<>>, CTRL_U) /\ s.pending = None
           \/ s.mode = "Idle" /\ s.cleared = <<>> /\ s.pending = Some(r.line_buf)
           \/ s.mode = "Idle" /\ s.cleared = <<>> /\ s.pending = None /\ r.line_buf \in {<<>>, <<"#">>}
    <3> HIDE DEF s
    <3> QED BY <2>2, <2>3, <2>4, EnteredIs
  <2> HIDE DEF s
  <2>6. line_buf' = <<>> /\ recorded' = recorded /\ Noted'
    BY <1>1, <1>2, <1>8, <2>5 DEF Noted
  <2>7. ASSUME s.cleared = <<>>
        PROVE  tty' = chunk /\ Entering(chunk) /\ LineInv'
    <3>1. tty' = chunk
      BY <1>8, <1>9, <2>7
    <3>2. Entering(chunk)
      BY <1>7, <2>1, EmptySeq DEF Entering
    <3>3. LineInv'
      BY <1>1, <1>5, <1>6, <2>1, <2>6, <3>1, <3>2 DEF LineInv
    <3> QED BY <3>1, <3>2, <3>3
  <2>8. CASE s.mode = "Turn" /\ s.cleared = Append(<<>>, CTRL_U) /\ s.pending = None
    <3>1. Append(<<>>, CTRL_U) = <<CTRL_U>> /\ <<CTRL_U>> # <<>> /\ <<>> \o <<CTRL_U>> = <<CTRL_U>>
      OBVIOUS
    <3>2. tty' = <<CTRL_U>>
      BY <1>8, <2>8, <3>1
    <3>3. /\ Len(tty') = 1 /\ tty'[1] = CTRL_U /\ CTRL_U # NEWLINE
      BY <3>2 DEF CTRL_U, NEWLINE
    <3>4. ~Entering(tty') /\ \A i \in 1..Len(tty') : tty'[i] = NEWLINE => i = Len(tty')
      BY <3>3 DEF Entering
    <3>5. Holds(shell.line, tty', Len(tty'), <<>>)
      <4> DEFINE keys == tty'
      <4>1. Len(keys) = 1 /\ keys[1] = CTRL_U /\ keys \in Seq(TtyKey)
        BY <3>2, <3>3 DEF TtyKey, Key
      <4> HIDE DEF keys
      <4>2. SubSeq(keys, 1 + 1, 1) = <<>>
        BY <4>1, SubSeqWithin, EmptySeq
      <4>3. 1 \in 1..1 /\ \A i \in (1 + 1)..1 : keys[i] # CTRL_U
        OBVIOUS
      <4>4. Holds(shell.line, keys, 1, <<>>)
        BY <4>1, <4>2, <4>3 DEF Holds
      <4> QED BY <4>1, <4>4 DEF keys
    <3>6. LineInv'
      BY <1>1, <1>5, <1>6, <2>6, <3>4, <3>5 DEF LineInv
    <3>7. NoCommand'
      BY <1>1, <1>8, <1>11, <2>6, <2>8, <3>4 DEF NoCommand
    <3> QED BY <1>1, <1>2, <2>6, <3>6, <3>7 DEF RecordInv
  <2>9. CASE s.mode = "Idle" /\ s.cleared = <<>> /\ s.pending = Some(r.line_buf)
    <3>1. pending'.some /\ pending'.value = r.line_buf
      BY <1>8, <2>9 DEF Some
    <3>2. CommandTyped'
      BY <1>1, <1>5, <1>8, <1>11, <2>4, <2>6, <2>7, <2>9, <3>1 DEF CommandTyped
    <3> QED BY <1>1, <1>2, <2>6, <2>7, <2>9, <3>2 DEF RecordInv
  <2>10. CASE s.mode = "Idle" /\ s.cleared = <<>> /\ s.pending = None /\ r.line_buf \in {<<>>, <<"#">>}
    <3>1. NoCommand'
      BY <1>1, <1>8, <1>11, <2>4, <2>6, <2>7, <2>10 DEF NoCommand
    <3> QED BY <1>1, <1>2, <2>6, <2>7, <2>10, <3>1 DEF RecordInv
  <2> QED BY <2>5, <2>8, <2>9, <2>10
<1> QED BY <1>12, <1>13

(* Every step.                                                             *)
LEMMA RecordStays ==
  ASSUME OutputsPlain, KeysWait
  PROVE  TypeInv /\ FedInv /\ WholeInv /\ RecordInv /\ [Next]_vars => RecordInv'
<1> SUFFICES ASSUME TypeInv, FedInv, WholeInv, RecordInv, [Next]_vars
             PROVE  RecordInv'
  OBVIOUS
<1>1. ASSUME NEW chunk \in Typed, Type(chunk)
      PROVE  RecordInv'
  BY <1>1, RecordType
<1>2. ASSUME NEW n \in 1..Len(wire), Read(n)
      PROVE  RecordInv'
  BY <1>2, RecordRead
<1>3. CASE AgentWrites
  BY <1>3, RecordAgentWrites
<1>4. CASE TurnEnds
  BY <1>4, RecordSame DEF TurnEnds, shellVars
<1>5. CASE ReadKey
  BY <1>5, RecordEcho, RecordEnter
<1>6. CASE Prints
  BY <1>6, RecordPrints
<1>7. CASE ShowPrompt
  BY <1>7, RecordShowPrompt
<1>8. ASSUME NEW code \in {0, 1}, FinishLine(code)
      PROVE  RecordInv'
  BY <1>8, RecordFinishLine
<1>9. CASE UNCHANGED vars
  BY <1>9, RecordSame DEF vars
<1> QED BY <1>1, <1>2, <1>3, <1>4, <1>5, <1>6, <1>7, <1>8, <1>9 DEF Next

(* If commands print no marker and no part of one, and Enter ends a chunk  *)
(* of keys, every command that has ended is journaled once, in order, with *)
(* its own exit code and the end of its own output, however the output is  *)
(* cut, and also between turns of the agent and when one is interrupted.   *)
THEOREM EveryCommandRecorded ==
  ASSUME OutputsPlain, KeysWait
  PROVE  Spec => []CommandsRecorded
<1>1. OutputsWhole
  BY DEF OutputsPlain, OutputsWhole
<1>2. Init => TypeInv /\ FedInv /\ WholeInv /\ RecordInv
  BY <1>1, InitTyped, FedStays, WholeStays, RecordInit
<1>3. TypeInv /\ FedInv /\ WholeInv /\ RecordInv /\ [Next]_vars
        => TypeInv' /\ FedInv' /\ WholeInv' /\ RecordInv'
  BY <1>1, NextTyped, FedStays, WholeStays, RecordStays
<1>4. TypeInv /\ FedInv /\ WholeInv /\ RecordInv => CommandsRecorded
  BY RecordInvRecords
<1> QED BY <1>2, <1>3, <1>4, PTL DEF Spec
=============================================================================
