------------------------------- MODULE MCAgents -------------------------------
(***************************************************************************)
(* Four processes: the shell of the REPL, an agent, its shell and an agent *)
(* below it, or siblings and orphans of the same number.  And the default  *)
(* configuration over the places of a file system that matter.             *)
(***************************************************************************)
EXTENDS Agents, TLC

PidSymmetry == Permutations(Pid)

Places == {"/usr", "/proc", "/tmp", "/dev", "$CWD", "$CWD/Cargo.toml", "$HOME",
           "$HOME/.ssh", "$HOME/.config", "$HOME/.local/share/unixagent"}

InHome == {"$HOME/.ssh", "$HOME/.config", "$HOME/.local/share/unixagent"}

MCFolders ==
  [p \in Places |-> {p} \cup (IF p \in InHome THEN {"$HOME"} ELSE {})
                         \cup (IF p = "$CWD/Cargo.toml" THEN {"$CWD"} ELSE {})]

MCCanonical == [p \in Places |-> p]

(* The default of max_agent_depth is three; with two, four processes do.   *)
MCConfig == [sandbox |-> DefaultSandbox, max_agent_depth |-> 2]
=============================================================================
