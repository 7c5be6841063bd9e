-------------------------------- MODULE Agents --------------------------------
(***************************************************************************)
(* The agents under a REPL as processes: a batch agent counts the agents   *)
(* above it in the kernel's process tree before it starts (process.rs), and*)
(* the REPL polls the agents below it and reports those that have appeared *)
(* and ended (repl.rs, agents.rs).  Neither reads the tree in one step.    *)
(*                                                                         *)
(* A process runs the image of unixagent ("Agent") or another one: a shell *)
(* or a tool.  The children of a process that ends go to init, which is    *)
(* NoPid here.  The REPL and every agent apply the sandbox when they start,*)
(* and all that they start inherits it.                                    *)
(*                                                                         *)
(* Left out: a pid that is used again, a tool that turns into unixagent    *)
(* while it has children, an agent that started the REPL, and one that is  *)
(* started in another directory than the REPL.                             *)
(***************************************************************************)
EXTENDS Naturals, FiniteSets, Sandbox

CONSTANTS
  Pid,       \* the processes besides the REPL
  Repl,      \* the pid of the REPL
  NoPid,     \* init, or no process
  Config,    \* config.toml, as far as sandbox and max_agent_depth go
  Default,   \* Config::default()
  MaxPolls   \* bound: polls

ASSUME AgentsAssumption ==
  /\ Repl \notin Pid /\ NoPid \notin Pid \cup {Repl}
  /\ Config.max_agent_depth \in Nat /\ Default.max_agent_depth \in Nat
  /\ MaxPolls \in Nat

Process == Pid \cup {Repl}

VARIABLES
  phase,      \* of each process
  parent,     \* its parent
  image,      \* the program it runs
  walk,       \* of a starting agent: the pid it looks at next and its count
  journal,    \* of each pid, what agent-{pid}.jsonl ends with
  poll,       \* the pids the REPL's poll has not looked at, and those found
  known,      \* known_children
  started,    \* how often each pid was reported as started
  done,       \* and as done
  polls       \* counts for the bound

vars == <<phase, parent, image, walk, journal, poll, known, started, done, polls>>

tree  == <<phase, parent, image>>
views == <<poll, known, started, done, polls>>

NoWalk == [at |-> NoPid, depth |-> 0]
NoPoll == [open |-> FALSE, left |-> {}, found |-> {}]

Exists(p)   == phase[p] \notin {"Unborn", "Gone"}
Children(p) == {q \in Pid : Exists(q) /\ parent[q] = p}

(* The chain of parents, up to init.                                       *)
Ancestors(p) ==
  LET Above[q \in Process] ==
        IF parent[q] = NoPid THEN {} ELSE {parent[q]} \cup Above[parent[q]]
  IN  Above[p]

AgentsAbove(p) == {q \in Ancestors(p) : image[q] = "Agent"}

(* The REPL reads config.toml before it applies the sandbox, an agent below*)
(* it inside that of the REPL; its own adds the same once more.            *)
ReplAccess  == Applied(Anything, Config.sandbox)
AgentConfig == Loaded(ReplAccess, Config, Default)
AgentAccess == Applied(ReplAccess, AgentConfig.sandbox)

Init ==
  /\ phase = [p \in Process |-> IF p = Repl THEN "Repl" ELSE "Unborn"]
  /\ parent = [p \in Process |-> NoPid]
  /\ image = [p \in Process |-> IF p = Repl THEN "Agent" ELSE "Other"]
  /\ walk = [p \in Pid |-> NoWalk]
  /\ journal = [p \in Pid |-> "None"]
  /\ poll = NoPoll
  /\ known = {}
  /\ started = [p \in Pid |-> 0] /\ done = [p \in Pid |-> 0]
  /\ polls = 0

-----------------------------------------------------------------------------
(* The kernel and the programs                                             *)

(* A child is a copy of its parent until it executes another program.  The *)
(* REPL forks its shell only, a batch agent a shell for one command after  *)
(* the other, which it waits for.                                          *)
Fork(p, q) ==
  /\ phase[p] \in {"Repl", "Tool", "Batch"}
  /\ phase[p] = "Repl" => \A other \in Pid : phase[other] = "Unborn"
  /\ phase[p] = "Batch" => Children(p) = {}
  /\ phase[q] = "Unborn"
  /\ phase' = [phase EXCEPT ![q] = "Forked"]
  /\ parent' = [parent EXCEPT ![q] = p]
  /\ image' = [image EXCEPT ![q] = image[p]]
  /\ UNCHANGED <<walk, journal, views>>

(* An agent executes shells only, a shell anything.  unixagent starts with *)
(* the walk up from its parent.                                            *)
ExecTool(p) ==
  /\ phase[p] = "Forked"
  /\ phase' = [phase EXCEPT ![p] = "Tool"]
  /\ image' = [image EXCEPT ![p] = "Other"]
  /\ UNCHANGED <<parent, walk, journal, views>>

ExecAgent(p) ==
  /\ phase[p] = "Forked" /\ image[p] = "Other"
  /\ phase' = [phase EXCEPT ![p] = "Starting"]
  /\ image' = [image EXCEPT ![p] = "Agent"]
  /\ walk' = [walk EXCEPT ![p] = [at |-> parent[p], depth |-> 0]]
  /\ UNCHANGED <<parent, journal, views>>

(* What the kernel does when p ends.                                       *)
Ends(p) ==
  /\ phase' = [phase EXCEPT ![p] = "Gone"]
  /\ parent' = [q \in Process |-> IF q = p \/ parent[q] = p THEN NoPid ELSE parent[q]]
  /\ image' = [image EXCEPT ![p] = "Other"]
  /\ walk' = [walk EXCEPT ![p] = NoWalk]

(* A tool ends, or any process but the REPL is killed.                     *)
Dies(p) ==
  /\ Exists(p)
  /\ Ends(p)
  /\ UNCHANGED <<journal, views>>

-----------------------------------------------------------------------------
(* A batch agent                                                           *)

(* count_matching_ancestors: one process, which may have gone meanwhile;   *)
(* the walk ends where process_info does not answer.                       *)
Counting(p) == phase[p] = "Starting" /\ walk[p].at # NoPid

CountAncestor(p) ==
  /\ Counting(p)
  /\ LET q == walk[p].at IN
       walk' = [walk EXCEPT ![p] =
                  IF ~Exists(q) \/ ~SeesAbove(AgentAccess, AgentConfig.sandbox) THEN [at |-> NoPid, depth |-> walk[p].depth]
                  ELSE [at |-> parent[q],
                        depth |-> walk[p].depth + (IF image[q] = "Agent" THEN 1 ELSE 0)]]
  /\ UNCHANGED <<tree, journal, views>>

(* Mutant of AtLimit: one agent more.                                      *)
AtLimitOffByOne(p) == walk[p].depth > AgentConfig.max_agent_depth

(* check_depth                                                             *)
AtLimit(p) == walk[p].depth >= AgentConfig.max_agent_depth

(* Also without an API key; nothing is journaled.                          *)
Refuse(p) ==
  /\ phase[p] = "Starting" /\ ~Counting(p)
  /\ Ends(p)
  /\ UNCHANGED <<journal, views>>

(* run_batch, with a journal if it can be opened, and the depth counted.   *)
RunBatch(p) ==
  /\ phase[p] = "Starting" /\ ~Counting(p) /\ ~AtLimit(p)
  /\ phase' = [phase EXCEPT ![p] = "Batch"]
  /\ \E opened \in {FALSE} \cup {MayWrite(AgentAccess, Sessions)} :
       journal' = IF opened THEN [journal EXCEPT ![p] = "Instruction"] ELSE journal
  /\ UNCHANGED <<parent, image, walk, views>>

(* The depth that the system prompt of an agent is written for, and whether*)
(* it offers to delegate (build_agent_capabilities_prompt).                *)
DepthTold(p) == IF p = Repl THEN 0 ELSE walk[p].depth
LimitTold(p) == IF p = Repl THEN Config.max_agent_depth ELSE AgentConfig.max_agent_depth

(* Mutant of OffersDelegation: an agent at the last depth may delegate too.*)
OffersBelowLimit(p) == DepthTold(p) < LimitTold(p)

OffersDelegation(p) == DepthTold(p) + 1 < LimitTold(p)

(* write_summary, after which the process ends.                            *)
Summarise(p) ==
  /\ phase[p] = "Batch" /\ Children(p) = {}
  /\ phase' = [phase EXCEPT ![p] = "Ending"]
  /\ journal' = [journal EXCEPT ![p] = IF @ = "None" THEN @ ELSE "Summary"]
  /\ walk' = [walk EXCEPT ![p] = NoWalk]
  /\ UNCHANGED <<parent, image, views>>

-----------------------------------------------------------------------------
(* The REPL                                                                *)

(* Event::ChildPoll: list_all_pids,                                        *)
StartPoll ==
  /\ ~poll.open /\ polls < MaxPolls
  /\ polls' = polls + 1
  /\ poll' = [open |-> TRUE, found |-> {},
              left |-> {p \in Pid : Exists(p) /\ SeesBelow(ReplAccess)}]
  /\ UNCHANGED <<tree, walk, journal, known, started, done>>

(* then collect_descendant_agents_core, one pid after the other,           *)
LookAt(p) ==
  /\ p \in poll.left
  /\ poll' = [poll EXCEPT !.left = @ \ {p},
                !.found = IF Exists(p) /\ image[p] = "Agent" /\ Repl \in Ancestors(p)
                          THEN @ \cup {p} ELSE @]
  /\ UNCHANGED <<tree, walk, journal, known, started, done, polls>>

(* Mutant of AfterPoll: an agent that has gone is not forgotten.           *)
AfterPollKeeping(found) == known \cup found

(* known_children is replaced, whether something is reported or not.       *)
AfterPoll(found) == found

OneMore(count, pids) == [p \in Pid |-> IF p \in pids THEN count[p] + 1 ELSE count[p]]

(* read_child_summary: the last line of the journal is a Summary.          *)
HasSummary(p) == MayRead(ReplAccess, Sessions) /\ journal[p] = "Summary"

(* then the reports, but in Approving and Judging: an agent that has gone is*)
(* read from its journal.                                                  *)
EndPoll ==
  \E deciding \in BOOLEAN :
  LET appeared == IF deciding THEN {} ELSE poll.found \ known
      ended    == IF deciding THEN {} ELSE {p \in known \ poll.found : HasSummary(p)}
  IN  /\ poll.open /\ poll.left = {}
      /\ started' = OneMore(started, appeared)
      /\ done' = OneMore(done, ended)
      /\ known' = AfterPoll(poll.found)
      /\ poll' = NoPoll
      /\ UNCHANGED <<tree, walk, journal, polls>>

Next ==
  \/ \E p \in Process, q \in Pid : Fork(p, q)
  \/ \E p \in Pid :
       \/ ExecTool(p) \/ ExecAgent(p) \/ Dies(p)
       \/ CountAncestor(p) \/ Refuse(p) \/ RunBatch(p) \/ Summarise(p)
       \/ LookAt(p)
  \/ StartPoll \/ EndPoll

Spec == Init /\ [][Next]_vars

-----------------------------------------------------------------------------
(* Properties                                                              *)

(* However many processes end while an agent walks up the tree, and        *)
(* afterwards, fewer than max_agent_depth agents are above a running one:  *)
(* a process that ends takes what the walk has missed off the chain.       *)
DepthBounded ==
  \A p \in Pid : phase[p] = "Batch" => Cardinality(AgentsAbove(p)) < Config.max_agent_depth

(* What an agent is told to do is not refused: an agent that is turned down*)
(* for its depth was not started by one, the nearest above it, whose prompt*)
(* offers to delegate.                                                     *)
OfferHonoured ==
  \A p \in Pid : phase[p] = "Starting" /\ ~Counting(p) /\ AtLimit(p) =>
    \A q \in AgentsAbove(p) :
      OffersDelegation(q) => \E r \in AgentsAbove(p) : q \in Ancestors(r)

(* An agent is reported started once and done once at most, although the  *)
(* list is not read in one step and an agent may leave it while it runs,   *)
(* and done only when it has written the Summary that the report shows.    *)
ReportedOnce ==
  \A p \in Pid :
    /\ started[p] <= 1 /\ done[p] <= 1
    /\ done[p] = 1 => journal[p] = "Summary" /\ p \notin known
=============================================================================
