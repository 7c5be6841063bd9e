------------------------------ MODULE BatchRun ------------------------------
(***************************************************************************)
(* What the REPL promises about a batch of commands the user let run: the  *)
(* commands run one after the other, in the order in which they were       *)
(* proposed; none runs after one that failed; the agent is told "done" or  *)
(* "failed" only when nothing of the batch is left running; and after an   *)
(* abort nothing but the command that was already running still ends.      *)
(*                                                                         *)
(* ran is the sequence of the commands that have ended, with their exit    *)
(* codes.  Dispatch implements this specification.                         *)
(***************************************************************************)
EXTENDS Integers, Sequences

CONSTANTS Command,  \* the commands a batch is made of
          Exits     \* the exit codes a command can end with

VARIABLES batch, ran, status

vars == <<batch, ran, status>>

Result == [cmd : Command, code : Exits]

AllSucceeded == \A i \in 1..Len(ran) : ran[i].code = 0

Init == batch = <<>> /\ ran = <<>> /\ status = "idle"

Submit ==
  /\ status # "running"
  /\ batch' \in Seq(Command) /\ batch' # <<>>
  /\ ran' = <<>>
  /\ status' = "running"

(* The next command of the batch ends, all those before it having          *)
(* succeeded.                                                              *)
Finish(code) ==
  /\ status \in {"running", "aborted"}
  /\ Len(ran) < Len(batch)
  /\ AllSucceeded
  /\ ran' = Append(ran, [cmd |-> batch[Len(ran) + 1], code |-> code])
  /\ status' = IF status = "aborted" THEN "stopped" ELSE status
  /\ UNCHANGED batch

Done ==
  /\ status = "running"
  /\ Len(ran) = Len(batch)
  /\ status' = "done"
  /\ UNCHANGED <<batch, ran>>

Failed ==
  /\ status = "running"
  /\ 0 < Len(ran) /\ Len(ran) < Len(batch)
  /\ ran[Len(ran)].code # 0
  /\ status' = "failed"
  /\ UNCHANGED <<batch, ran>>

(* Control-C: the command that was running, if any, may still end.         *)
Abort ==
  /\ status = "running"
  /\ status' = "aborted"
  /\ UNCHANGED <<batch, ran>>

(* The next command cannot be handed over: nothing more runs.              *)
Stop ==
  /\ status = "running"
  /\ status' = "stopped"
  /\ UNCHANGED <<batch, ran>>

(* The first command of a new batch cannot be handed over.                 *)
Refuse ==
  /\ status # "running"
  /\ batch' \in Seq(Command)
  /\ ran' = <<>>
  /\ status' = "stopped"

Next ==
  \/ Submit \/ Refuse
  \/ \E code \in Exits : Finish(code)
  \/ Done \/ Failed \/ Abort \/ Stop

Spec == Init /\ [][Next]_vars
=============================================================================
