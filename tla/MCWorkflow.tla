----------------------------- MODULE MCWorkflow -----------------------------
(* The workflow of one project, with stages named after their statuses.         *)
EXTENDS WorkflowPublish
StageStatus == [s \in StageNames |-> CASE s = "todo" -> "TODO" [] s = "doing" -> "IN_PROGRESS" [] s = "done" -> "DONE"]
=============================================================================
