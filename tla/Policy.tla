-------------------------------- MODULE Policy --------------------------------
(***************************************************************************)
(* How risky a command line is (crates/ua-core/src/policy.rs).             *)
(*                                                                         *)
(* A line is a sequence of lexemes: words, operators and quotes.  Blanks   *)
(* separate words; one kind of quote stands for both; backslashes, paths   *)
(* before a binary and the case of letters are left out.  The word "/"     *)
(* stands for every absolute path.  Of each table of the code the words    *)
(* that several rules look at are kept, and a few of the others.           *)
(***************************************************************************)
EXTENDS Selection, FiniteSets

Risk == {"ReadOnly", "BuildTest", "Write", "Destructive", "Network", "Privileged", "Denied"}

(* The order of the enumeration, from least to most dangerous.             *)
Rank ==
  [ReadOnly |-> 0, BuildTest |-> 1, Write |-> 2, Destructive |-> 3,
   Network |-> 4, Privileged |-> 5, Denied |-> 6]

-----------------------------------------------------------------------------
(* The lexical structure of a line.                                        *)

Operator == {"|", "||", "&&", ";"}
Quote    == "'"

RangeOf(seq) == {seq[i] : i \in 1..Len(seq)}

(* Position i lies within quotes.                                          *)
InQuotes(line, i) == Cardinality({j \in 1..(i - 1) : line[j] = Quote}) % 2 = 1

(* Mutant of Cuts: only pipes and semicolons cut.                          *)
CutsNotAtAnd(line) ==
  {i \in 0..(Len(line) + 1) :
     i \in {0, Len(line) + 1} \/ (line[i] \in {"|", ";"} /\ ~InQuotes(line, i))}

(* Where split_chain cuts, with both ends.                                 *)
Cuts(line) ==
  {i \in 0..(Len(line) + 1) :
     i \in {0, Len(line) + 1} \/ (line[i] \in Operator /\ ~InQuotes(line, i))}

(* The bounds of its segments, which may be empty.                         *)
Bounds(line) ==
  LET cuts == Cuts(line)
  IN {b \in cuts \X cuts : b[1] < b[2] /\ \A i \in cuts : i <= b[1] \/ b[2] <= i}

Segment(line, b) == SubSeq(line, b[1] + 1, b[2] - 1)

Segments(line) == {Segment(line, b) : b \in Bounds(line)}

(* A token of several quoted words is none of the words the rules look for.*)
Text == "text"

WordAt(segment, i) ==
  IF InQuotes(segment, i) /\ segment[i] # Quote
     /\ (segment[i - 1] # Quote \/ i = Len(segment) \/ segment[i + 1] # Quote)
  THEN Text ELSE segment[i]

(* tokenize                                                                *)
Tokens(segment) ==
  Picked([i \in 1..Len(segment) |-> WordAt(segment, i)],
         {i \in 1..Len(segment) : segment[i] # Quote})

Wrapper    == {"env", "nice", "time", "command", "builtin"}
Assignment == {"A=1"}

(* parse_command: the binary after the wrappers, and after the assignments *)
(* of an env that is the last of them; args begins with the binary.        *)
Parse(segment) ==
  LET tokens == Tokens(segment)
      n == Len(tokens)
      wrappers == Cardinality({i \in 1..n : \A j \in 1..i : tokens[j] \in Wrapper})
      assigned == {i \in (wrappers + 1)..n : \A j \in (wrappers + 1)..i : tokens[j] \in Assignment}
      start == IF wrappers > 0 /\ tokens[wrappers] = "env"
               THEN wrappers + Cardinality(assigned) ELSE wrappers
  IN IF start >= n THEN [binary |-> "", args |-> <<>>]
     ELSE [binary |-> tokens[start + 1], args |-> SubSeq(tokens, start + 1, n)]

-----------------------------------------------------------------------------
(* The rules.                                                              *)

Has(p, words) == RangeOf(p.args) \cap words # {}

IsPrivilegeEscalation(p) == p.binary \in {"sudo", "su", "doas"}

IsNetworkCommand(p) ==
  \/ p.binary \in {"curl", "wget", "http", "ssh", "rsync", "osascript"}
  \/ p.binary = "git" /\ Has(p, {"push", "pull", "fetch", "clone", "remote"})
  \/ p.binary \in {"npm", "cargo"} /\ Has(p, {"publish"})
  \/ p.binary = "docker" /\ Has(p, {"pull", "push", "login"})

IsDestructive(p) ==
  \/ p.binary \in {"rm", "rmdir", "chmod", "chown"}
  \/ p.binary = "git" /\ Has(p, {"reset", "clean", "push", "--force", "-f"})

IsWriteCommand(p) ==
  \/ p.binary \in {"mkdir", "cp", "mv", "tee", "patch"}
  \/ p.binary = "git" /\ Has(p, {"add", "commit", "merge", "checkout", "branch", "init"})
  \/ p.binary = "sed" /\ Has(p, {"-i"})

IsBuildCommand(p) ==
  \/ p.binary \in {"make", "gcc", "rustc", "pytest", "python", "node", "go"}
  \/ p.binary = "cargo" /\ Has(p, {"build", "test", "check", "run"})
  \/ p.binary = "npm" /\ Has(p, {"install", "ci", "test", "build", "run", "start"})
  \/ p.binary = "pip" /\ Has(p, {"install"})

Executes == {"-exec", "-execdir", "-delete"}

IsReadOnly(p) ==
  /\ p.binary \in {"ls", "cat", "find", "grep", "sed", "echo", "head"}
  /\ p.binary = "find" => ~Has(p, Executes)
  /\ p.binary = "sed" => ~Has(p, {"-i"})

(* Deny patterns: words in a row, several such phrases in any order, and   *)
(* words after a first.                                                    *)
DeniedPhrases == {<<"rm", "-rf", "/">>, <<"mkfs">>, <<"nc", "-e">>, <<"cat", "~/.ssh/">>}
DeniedTogether == {{<<"osascript">>, <<"do", "shell", "script">>},
                   {<<"python">>, <<"socket">>, <<"/bin/sh">>},
                   {<<"base64">>, <<"~/.ssh/">>}, {<<"curl">>, <<"-d", "@file">>}}
DeniedAfter == {<<"dd", "of=/dev/sda">>, <<"tar", "~/.ssh/">>, <<"rsync", "~/.ssh/">>}

Holds(segment, phrase) ==
  \E i \in 0..(Len(segment) - Len(phrase)) : \A j \in 1..Len(phrase) : segment[i + j] = phrase[j]

(* is_denied, on the text of the segment as it stands, quotes or not.      *)
IsDenied(segment) ==
  \/ \E phrase \in DeniedPhrases : Holds(segment, phrase)
  \/ \E phrases \in DeniedTogether : \A phrase \in phrases : Holds(segment, phrase)
  \/ \E pair \in DeniedAfter :
       segment # <<>> /\ segment[1] = pair[1] /\ pair[2] \in RangeOf(segment)

-----------------------------------------------------------------------------
(* Classification.                                                         *)

(* Mutant of RiskOf: network commands are looked for after destructive     *)
(* ones, so that git push is destructive only.                             *)
RiskOfDestructiveFirst(p) ==
  CASE IsPrivilegeEscalation(p) -> "Privileged"
    [] ~IsPrivilegeEscalation(p) /\ IsDestructive(p) -> "Destructive"
    [] ~IsPrivilegeEscalation(p) /\ ~IsDestructive(p) /\ IsNetworkCommand(p) -> "Network"
    [] OTHER -> "Write"

(* The first rule that holds; what no rule knows is taken for a write.     *)
RiskOf(p) ==
  IF IsPrivilegeEscalation(p) THEN "Privileged"
  ELSE IF IsNetworkCommand(p) THEN "Network"
  ELSE IF IsDestructive(p) THEN "Destructive"
  ELSE IF IsWriteCommand(p) THEN "Write"
  ELSE IF IsBuildCommand(p) THEN "BuildTest"
  ELSE IF IsReadOnly(p) THEN "ReadOnly"
  ELSE "Write"

(* classify_command                                                        *)
Classify(segment) ==
  IF segment = <<>> THEN "ReadOnly"
  ELSE IF IsDenied(segment) THEN "Denied"
  ELSE RiskOf(Parse(segment))

(* detect_network_to_shell: a downloader directly before a shell.          *)
NetworkToShell(line) ==
  LET bounds == Bounds(line)
  IN \E b, c \in bounds :
    /\ b[2] = c[1]
    /\ Parse(Segment(line, b)).binary \in {"curl", "wget", "http"}
    /\ Parse(Segment(line, c)).binary \in {"bash", "sh"}

(* analyze_pipe_chain: the maximum over the segments.                      *)
LineRisk(line) ==
  IF NetworkToShell(line) THEN "Denied"
  ELSE LET risks == {Classify(s) : s \in Segments(line)}
       IN CHOOSE risk \in risks : \A other \in risks : Rank[other] <= Rank[risk]

(* validate_arguments: the REPL warns of these.                            *)
IsDangerous(line) ==
  \E s \in Segments(line) :
    LET p == Parse(s) IN
    \/ p.binary = "git" /\ Has(p, {"-c"})
    \/ p.binary = "tar" /\ Has(p, {"--checkpoint-action"})
    \/ p.binary = "curl" /\ Has(p, {"-F"})
    \/ p.binary = "find" /\ Has(p, Executes)
    \/ p.binary = "rsync" /\ Has(p, {"-e"})
    \/ p.binary = "xargs" /\ Len(p.args) <= 1
=============================================================================
