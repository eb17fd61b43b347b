------------------------------ MODULE GoAgent ------------------------------
(***************************************************************************)
(* The Go spec agent, src/src/AgentBin.Go/specagent.go: the events each    *)
(* iterator yields, in order, and the iterator that Execute picks.         *)
(***************************************************************************)
EXTENDS Scenarios

\* a2a.NewSubmittedTask is a whole Task, not a status update.
Submit == TaskStep("submitted")

handleMessageOnly == Handler("handleMessageOnly", {<<Message>>})

handleTaskLifecycle ==
    Handler("handleTaskLifecycle",
            {Lifecycle(Submit, <<Artifact("result")>>, "completed")})

handleTaskFailure ==
    Handler("handleTaskFailure", {Lifecycle(Submit, <<>>, "failed")})

handleTaskCancel ==
    Handler("handleTaskCancel", {Lifecycle(Submit, <<Delay>>, "completed")})

handleMultiTurn ==
    Handler("handleMultiTurn",
            {<<Submit, Artifact("turn-1"), Status("input-required")>>})

\* The continuation goes straight to work on the stored task.
handleMultiTurnContinuation(isDone) ==
    Handler("handleMultiTurn",
            {IF isDone
             THEN <<Status("working"), Artifact("final"), Status("completed")>>
             ELSE <<Status("working"), Artifact(TurnArtifact),
                    Status("input-required")>>})

\* The first chunk is not delayed.
handleStreaming ==
    Handler("handleStreaming",
            {Lifecycle(Submit, Tail(Paced(Chunks("stream-result", 4))),
                       "completed")})

\* A delay follows every step but the last.
handleLongRunning ==
    LET round(i) == <<Status("working"), Artifact(StepName[i])>>
                        \o (IF i < 5 THEN <<Delay>> ELSE <<>>)
    IN  Handler("handleLongRunning",
                {<<Submit>> \o FlattenSeq([i \in 1 .. 5 |-> round(i)])
                    \o <<Status("completed")>>})

handleDataTypes ==
    Handler("handleDataTypes", {Lifecycle(Submit, DataTypesArtifacts, "completed")})

handleHelp == Handler("handleHelp", {<<Message>>})

tckCore == TckCoreHandlers(Submit)

tckStream == TckStreamHandlers(Submit)

\* A "tck-" identifier with no known prefix gets the help text.
routeTck(m) ==
    LET known == tckCore @@ tckStream
    IN  IF m \in DOMAIN known THEN known[m] ELSE handleHelp

\* The switch on the first word of the text.
Skills ==
    "message-only" :> handleMessageOnly
    @@ "task-lifecycle" :> handleTaskLifecycle
    @@ "task-failure" :> handleTaskFailure
    @@ "task-cancel" :> handleTaskCancel
    @@ "multi-turn" :> handleMultiTurn
    @@ "streaming" :> handleStreaming
    @@ "long-running" :> handleLongRunning
    @@ "data-types" :> handleDataTypes

\* Execute: TCK identifiers first, whatever the state of the stored task; then
\* a continuation, but only of a task that waits for input; then the keywords.
Route(m, phase) ==
    IF m \in TckPrefix \cup {"tck-unknown"} THEN routeTck(m)
    ELSE IF phase = "input-required" THEN handleMultiTurnContinuation(m = "done")
    ELSE IF m \in DOMAIN Skills THEN Skills[m]
    ELSE handleHelp
=============================================================================
