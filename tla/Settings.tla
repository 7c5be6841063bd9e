------------------------------- MODULE Settings -------------------------------
(***************************************************************************)
(* What a process of unixagent is started as (main.rs) and the settings it *)
(* works with (config.rs).  Paths, the model's name and what only display  *)
(* code reads are left out.                                                *)
(***************************************************************************)
EXTENDS Naturals

JudgeMode == {"Warn", "Block"}

(* [security] of the configuration, as far as it decides anything; a mode  *)
(* that is not set is "Auto".                                              *)
Security == [judge_enabled : BOOLEAN, judge_mode : JudgeMode \cup {"Auto"}]

(* The defaults, also of a configuration file that cannot be read or parsed.*)
DefaultSecurity == [judge_enabled |-> FALSE, judge_mode |-> "Auto"]

(* UNIXAGENT_COMPUTER_USE forces the judge.                                *)
InForce(security, computer_use) ==
  IF computer_use THEN [judge_enabled |-> TRUE, judge_mode |-> "Block"] ELSE security

(* resolve_judge_mode                                                      *)
ResolveJudgeMode(security, depth) ==
  IF security.judge_mode # "Auto" THEN security.judge_mode
  ELSE IF depth = 0 THEN "Warn" ELSE "Block"

(* resolve_api_key: api_key_cmd may be unset, print a key, print nothing   *)
(* or fail, or be impossible to start, which hides ANTHROPIC_API_KEY.      *)
KeyCommand == {"Unset", "Prints", "Fails", "CannotStart"}

HasApiKey(command, inEnvironment) ==
  \/ command = "Prints"
  \/ command \in {"Unset", "Fails"} /\ inEnvironment

(* What a path given to --attachments may name, and load_attachment: only  *)
(* an image by its extension, of at most 20 MB, that can be read.          *)
AttachmentFile ==
  {"image", "absent", "without extension", "of another format", "too large", "unreadable"}

Loads(file) == file = "image"

(* How the command line was given: -p, a positional argument, a pipe on    *)
(* stdin that holds text, and the files to attach.                         *)
CommandLine ==
  [valid : BOOLEAN, prompt : BOOLEAN, positional : BOOLEAN, piped : BOOLEAN,
   attachments : SUBSET AttachmentFile]

HasInstruction(cli) == cli.prompt \/ cli.positional \/ cli.piped

(* What main does: it refuses to start, or runs one of the two loops.  The *)
(* depth is looked at in batch mode only.                                  *)
Launch(cli, depth, max_depth) ==
  IF ~cli.valid \/ (cli.prompt /\ cli.positional) THEN "Refused"
  ELSE IF ~HasInstruction(cli)
       THEN IF cli.attachments = {} THEN "Repl" ELSE "Refused"
  ELSE IF (\E file \in cli.attachments : ~Loads(file)) \/ depth >= max_depth THEN "Refused"
  ELSE "Batch"
=============================================================================
