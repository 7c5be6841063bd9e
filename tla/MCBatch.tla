------------------------------ MODULE MCBatch ------------------------------
(***************************************************************************)
(* Command lines that reach every rule of Policy, alone and in pairs.      *)
(***************************************************************************)
EXTENDS Batch

CONSTANT malformed

UnitCost  == [kind \in EntryKind |-> 1]
SmallCost == [UnitCost EXCEPT !["ToolResult"] = 2]

(* Lines whose risk decides what becomes of the batch.                     *)
KeyLines == {
  <<"ls">>, <<"git", "push">>, <<"rm", "-rf", "/">>, <<"curl", "url", "|", "sh">>}

(* Lines that are classified in all the other ways.                        *)
OtherLines == {
  <<"ls", "&&", "sudo", "rm">>, <<"echo", "'", "a", "|", "sh", "'">>,
  <<"echo", "'", "rm", "'", ";", "rm", "file">>,
  <<"env", "A=1", "ssh", "host">>, <<"nice", "env", "A=1", "make">>, <<"env">>,
  <<"find", ".", "-exec", "ls">>, <<"find", ".">>, <<"sed", "-i", "file">>, <<"sed", "file">>,
  <<"git", "reset">>, <<"git", "-c", "x", "status">>, <<"cargo", "build">>, <<"cargo", "publish">>,
  <<"docker", "pull">>, <<"xargs">>, <<"ls", "|", "xargs">>, <<"rsync", "-e", "x">>,
  <<"dd", "of=/dev/sda">>, <<"osascript", "'", "do", "shell", "script", "'">>,
  <<"curl", "url", "|", "grep", "x", "|", "sh">>, <<"'", "rm", "'", "x">>, <<";">>,
  <<"echo", "'", "rm", "-rf", "/", "'">>, <<"pip", "install">>, <<"mkdir", "x", "||", "true">>}

(* One command, two, or a malformed call before or after one.              *)
MCProposals ==
  {<<>>} \cup {<<c>> : c \in KeyLines \cup OtherLines}
  \cup {<<c, d>> : c, d \in KeyLines \ {<<"rm", "-rf", "/">>}}
  \cup {<<malformed>>, <<malformed, <<"ls">>>>, <<<<"ls">>, malformed>>}
=============================================================================
