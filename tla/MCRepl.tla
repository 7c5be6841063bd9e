------------------------------- MODULE MCRepl -------------------------------
(***************************************************************************)
(* Values of Repl's parameter Marks for model checking.                    *)
(***************************************************************************)
EXTENDS Repl

(* The markers around the prompts of a shell: after a command that failed, *)
(* after one that succeeded, and those of the prompt alone; and the output *)
(* of a command.                                                           *)
FailureMarks == {MarkA, MarkB, MarkD(1)}
SuccessMarks == {MarkA, MarkB, MarkD(0), Text}
PromptMarks  == {MarkA, MarkB}
OutputMarks  == {MarkC, Text}
=============================================================================
