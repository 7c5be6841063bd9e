------------------------------- MODULE Sandbox -------------------------------
(***************************************************************************)
(* The sandbox (crates/ua-sandbox) as the access a process has to files:   *)
(* what a policy allows under Landlock and under Seatbelt, how a policy is *)
(* made from the configuration, and when it is applied.                    *)
(*                                                                         *)
(* A path is a place in the file system.  Folders[p] are the places that   *)
(* hold p when its symlinks are resolved, p's own place included.  Access  *)
(* that the owner and the mode of a file refuse is left out.               *)
(***************************************************************************)
CONSTANTS
  Path,
  Canonical,  \* where a path leads
  Folders,
  Existing,   \* the paths that exist when the sandbox is applied
  System,     \* writable under Seatbelt whatever the policy says
  Kernel,     \* what can be enforced: "Landlock", "Seatbelt" or "None"
  Proc,       \* the process table of Linux
  ConfigFile, \* config.toml
  Sessions    \* the directory of the session journals

ASSUME SandboxAssumption ==
  /\ Canonical \in [Path -> Path]
  /\ \A p \in Path : Canonical[Canonical[p]] = Canonical[p]
  /\ Folders \in [Path -> SUBSET Path]
  /\ \A p \in Path : Canonical[p] \in Folders[p]
  /\ \A p \in Existing : Canonical[p] \in Existing
  /\ Existing \subseteq Path /\ System \subseteq Path
  /\ Kernel \in {"Landlock", "Seatbelt", "None"}
  /\ {Proc, ConfigFile, Sessions} \subseteq Path

Policy  == [writable : SUBSET Path, readable : SUBSET Path, denied : SUBSET Path]
Allowed == [Path -> SUBSET {"read", "write"}]

Anything == [p \in Path |-> {"read", "write"}]

Under(p, paths) == Folders[p] \cap paths # {}

(* SandboxConfig::default                                                  *)
DefaultSandbox ==
  [enabled  |-> TRUE,
   writable |-> {"$CWD", "/tmp", "$HOME/.local/share/unixagent"},
   readable |-> {"/usr", "/bin", "/sbin", "/lib", "/lib64", "/etc", "/opt",
                 "/dev/null", "/dev/urandom", "/dev/tty"},
   denied   |-> {"$HOME/.ssh", "$HOME/.gnupg", "$HOME/.aws"}]

(* resolve_and_canonicalize                                                *)
BothForms(paths) == paths \cup {Canonical[p] : p \in paths \cap Existing}

(* SandboxPolicy::from_config: denied paths are only resolved.             *)
FromConfig(config) ==
  [writable |-> BothForms(config.writable),
   readable |-> BothForms(config.readable),
   denied   |-> config.denied]

(* apply_landlock: a rule is made of an open file, so of the place a path  *)
(* leads to; none for a path that does not exist, none for a denied one.   *)
Ruled(paths) == {Canonical[p] : p \in paths \cap Existing}

LandlockAccess(policy) ==
  [p \in Path |-> IF Under(p, Ruled(policy.writable)) THEN {"read", "write"}
                  ELSE IF Under(p, Ruled(policy.readable)) THEN {"read"} ELSE {}]

(* generate_sbpl: rules name places, the last one that matches counts.     *)
SeatbeltAccess(policy) ==
  [p \in Path |-> IF Under(p, policy.denied) THEN {}
                  ELSE IF Under(p, policy.writable \cup System) THEN {"read", "write"}
                  ELSE {"read"}]

AccessOf(policy) ==
  IF Kernel = "Landlock" THEN LandlockAccess(policy) ELSE SeatbeltAccess(policy)

(* A process keeps no access that it had not before.                       *)
Narrowed(access, other) == [p \in Path |-> access[p] \cap other[p]]

(* What main does with the sandbox of its configuration: without support of*)
(* the kernel it warns and goes on.                                        *)
Applied(access, config) ==
  IF config.enabled /\ Kernel # "None" THEN Narrowed(access, AccessOf(FromConfig(config)))
  ELSE access

(* exec_sandboxed (unixagent --sandbox-exec): the access the command has if*)
(* it is executed; without a policy in the environment, or support of the  *)
(* kernel, the process exits.                                              *)
ExecSandboxed(access, policies) ==
  IF Kernel = "None" THEN {}
  ELSE {Narrowed(access, AccessOf(policy)) : policy \in policies}

-----------------------------------------------------------------------------
(* What agents need access for.                                            *)

MayRead(access, p)  == "read" \in access[p]
MayWrite(access, p) == "write" \in access[p]

(* process_info is a system call on macOS; on Linux it reads files, and the*)
(* exe of a process only if that is not outside of a Landlock sandbox that *)
(* the reader is in: an agent that has applied its own sees none above it. *)
SeesBelow(access)         == Kernel = "Landlock" => MayRead(access, Proc)
SeesAbove(access, config) == SeesBelow(access) /\ (Kernel = "Landlock" => ~config.enabled)

(* Config::load_or_default                                                 *)
Loaded(access, config, default) == IF MayRead(access, ConfigFile) THEN config ELSE default
=============================================================================
