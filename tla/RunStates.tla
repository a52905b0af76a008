------------------------------ MODULE RunStates ------------------------------
(* The states of a stage instance and of a run, and the transition tables      *)
(* every writer is held to (packages/workflow-spec/src/state).  Only the rows  *)
(* of work nodes are listed: a container (loop, map, sub-workflow) and a wait  *)
(* have rows of their own.                                                      *)

\* inAttempt: an executor frame holds the lease of an instance in these states.
Attempt == {"starting", "running", "validating"}

TerminalStage == {"completed", "failed", "skipped", "cancelled"}

\* "absent" stands for an instance whose row does not exist yet.
StageState == {"absent", "pending", "ready", "awaiting_input", "retry_wait", "paused"}
              \cup Attempt \cup TerminalStage

TerminalRun == {"completed", "failed", "cancelled"}

RunLive == {"running", "waiting"}

RunState == {"created", "starting", "paused", "finalizing", "cancelling"}
            \cup RunLive \cup TerminalRun

\* The rows of STAGE_RUN_TRANSITIONS that apply to a work node.
StageRows ==
  ({"pending"} \X {"ready", "skipped", "cancelled"})
  \cup ({"ready"} \X {"starting", "skipped", "paused", "cancelled", "failed"})
  \cup (Attempt \X {"retry_wait", "failed", "paused", "cancelled"})
  \cup { <<"starting", "running">>, <<"running", "validating">>, <<"running", "awaiting_input">>,
         <<"validating", "running">>, <<"validating", "completed">> }
  \cup ({"awaiting_input"} \X {"running", "ready", "paused", "failed", "cancelled"})
  \cup ({"retry_wait"} \X {"ready", "paused", "cancelled"})
  \cup ({"paused"} \X {"ready", "retry_wait", "skipped", "failed", "cancelled"})

RunRows ==
  { <<"created", "starting">>, <<"running", "waiting">>, <<"waiting", "running">>,
    <<"paused", "running">>, <<"paused", "finalizing">>, <<"finalizing", "cancelling">>,
    <<"cancelling", "cancelled">> }
  \cup ({"starting"} \X {"running", "failed", "finalizing"})
  \cup (RunLive \X {"paused", "finalizing"})
  \cup ({"finalizing"} \X {"completed", "failed"})
  \cup (({"created", "starting", "paused"} \cup RunLive) \X {"cancelling"})

=============================================================================
