---------------------------- MODULE PythonAgent ----------------------------
(***************************************************************************)
(* The Python spec agent, src/src/AgentBin.Python/spec_agent.py: the       *)
(* events each coroutine enqueues and the coroutine that execute picks.    *)
(***************************************************************************)
EXTENDS Scenarios

\* TaskUpdater.submit enqueues a status update.
submit == Status("submitted")

handle_message_only == Handler("_handle_message_only", {<<Message>>})

handle_task_lifecycle ==
    Handler("_handle_task_lifecycle",
            {Lifecycle(submit, <<Artifact("result")>>, "completed")})

handle_task_failure ==
    Handler("_handle_task_failure", {Lifecycle(submit, <<>>, "failed")})

handle_task_cancel ==
    Handler("_handle_task_cancel", {Lifecycle(submit, <<Delay>>, "completed")})

handle_multi_turn ==
    Handler("_handle_multi_turn",
            {<<submit, Artifact("turn-1"), Status("input-required")>>})

handle_multi_turn_continuation(is_done) ==
    Handler("_handle_multi_turn",
            {IF is_done
             THEN <<Status("working"), Artifact("final"), Status("completed")>>
             ELSE <<Status("working"), Artifact(TurnArtifact),
                    Status("input-required")>>})

\* The first chunk is not delayed.
handle_streaming ==
    Handler("_handle_streaming",
            {Lifecycle(submit, Tail(Paced(Chunks("stream-result", 4))),
                       "completed")})

\* A delay follows every step but the last.
handle_long_running ==
    LET round(i) == <<Status("working"), Artifact(StepName[i])>>
                        \o (IF i < 5 THEN <<Delay>> ELSE <<>>)
    IN  Handler("_handle_long_running",
                {<<submit>> \o FlattenSeq([i \in 1 .. 5 |-> round(i)])
                    \o <<Status("completed")>>})

handle_data_types ==
    Handler("_handle_data_types",
            {Lifecycle(submit, DataTypesArtifacts, "completed")})

handle_help == Handler("_handle_help", {<<Message>>})

tck_core == TckCoreHandlers(submit)

tck_stream == TckStreamHandlers(submit)

\* A "tck-" identifier with no known prefix gets the help text.
route_tck(m) ==
    LET handlers == tck_core @@ tck_stream
    IN  IF m \in DOMAIN handlers THEN handlers[m] ELSE handle_help

\* The if-chain on the first word of the text.
Skills ==
    "message-only" :> handle_message_only
    @@ "task-lifecycle" :> handle_task_lifecycle
    @@ "task-failure" :> handle_task_failure
    @@ "task-cancel" :> handle_task_cancel
    @@ "multi-turn" :> handle_multi_turn
    @@ "streaming" :> handle_streaming
    @@ "long-running" :> handle_long_running
    @@ "data-types" :> handle_data_types

\* execute: TCK identifiers, then the continuation of a task that waits for
\* input, then the keywords.
Route(m, phase) ==
    IF m \in TckPrefix \cup {"tck-unknown"} THEN route_tck(m)
    ELSE IF phase = "input-required" THEN handle_multi_turn_continuation(m = "done")
    ELSE IF m \in DOMAIN Skills THEN Skills[m]
    ELSE handle_help
=============================================================================
