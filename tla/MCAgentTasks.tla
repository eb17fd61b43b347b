---------------------------- MODULE MCAgentTasks ----------------------------
(***************************************************************************)
(* AgentTasks with the handlers of the four agents.                        *)
(***************************************************************************)
EXTENDS AgentTasks, TLC

CONSTANTS e1, e2, e3, t1

Impl == INSTANCE AgentServers

MCHandlers == Impl!HandlerTable
MCArtifactName == Impl!ArtifactNames
MCWholeTaskCancel == Impl!CancelsWholeTask \cap Server
MCEchoesMetadata == Impl!CopiesMetadata \cap Server
MCInterruptible == Impl!StopsOnCancel \cap Server

\* Executions are alike: one that has not started yet is as good as another.
MCSymmetry == Permutations(Exec)

\* Every message.
MCRequest == Request

\* A message of each kind: one that waits, one that streams, one that asks for
\* input, the follow-ups, a reply without a task, and the Java agent's own.
MCFewRequests ==
    {"task-cancel", "multi-turn", "streaming", "done", "more", "reject",
     "multi", "stream", "tck-input-required"}

\* The same in small, for executions that overlap.
MCOverlapRequests ==
    {"task-cancel", "multi-turn", "done", "message-only", "tck-complete-task",
     "reject"}
=============================================================================
