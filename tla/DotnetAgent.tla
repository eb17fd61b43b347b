---------------------------- MODULE DotnetAgent ----------------------------
(***************************************************************************)
(* The .NET spec agent, src/src/AgentBin/Agents/SpecAgent.cs: what each    *)
(* handler enqueues, in which order, and which handler a message reaches.  *)
(***************************************************************************)
EXTENDS Scenarios

\* TaskUpdater.SubmitAsync enqueues a whole Task, not a status update.
Submit == TaskStep("submitted")

HandleMessageOnly == Handler("HandleMessageOnly", {<<Message>>})

HandleTaskLifecycle ==
    Handler("HandleTaskLifecycle",
            {Lifecycle(Submit, <<Artifact("result")>>, "completed")})

HandleTaskFailure ==
    Handler("HandleTaskFailure", {Lifecycle(Submit, <<>>, "failed")})

HandleTaskCancel ==
    Handler("HandleTaskCancel", {Lifecycle(Submit, <<Delay>>, "completed")})

HandleMultiTurn ==
    Handler("HandleMultiTurn",
            {<<Submit, Artifact("turn-1"), Status("input-required")>>})

\* The same method with context.IsContinuation: it submits the task again.
HandleContinuation(done) ==
    Handler("HandleMultiTurn",
            {IF done
             THEN Lifecycle(Submit, <<Artifact("final")>>, "completed")
             ELSE Lifecycle(Submit, <<Artifact(TurnArtifact)>>, "input-required")})

HandleStreaming ==
    Handler("HandleStreaming",
            {Lifecycle(Submit, Paced(Chunks("stream-result", 4)), "completed")})

HandleLongRunning ==
    LET round(i) == <<Status("working"), Delay, Artifact(StepName[i])>>
    IN  Handler("HandleLongRunning",
                {<<Submit>> \o FlattenSeq([i \in 1 .. 5 |-> round(i)])
                    \o <<Status("completed")>>})

HandleDataTypes ==
    Handler("HandleDataTypes", {Lifecycle(Submit, DataTypesArtifacts, "completed")})

HandleHelp == Handler("HandleHelp", {<<Message>>})

TckCore == TckCoreHandlers(Submit)

TckStream == TckStreamHandlers(Submit)

\* TryRouteTck: an identifier it does not know is left to the keywords.
TckRoutes == TckCore @@ TckStream

\* The keywords a message text may start with.
Skills ==
    "message-only" :> HandleMessageOnly
    @@ "task-lifecycle" :> HandleTaskLifecycle
    @@ "tck-unknown" :> HandleTaskLifecycle    \* by the keyword in its text
    @@ "task-failure" :> HandleTaskFailure
    @@ "task-cancel" :> HandleTaskCancel
    @@ "multi-turn" :> HandleMultiTurn
    @@ "streaming" :> HandleStreaming
    @@ "long-running" :> HandleLongRunning
    @@ "data-types" :> HandleDataTypes

\* ExecuteAsync: a message for a known task is a continuation, whatever it says.
Route(m, phase) ==
    IF phase # "none" THEN HandleContinuation(m = "done")
    ELSE IF m \in DOMAIN TckRoutes THEN TckRoutes[m]
    ELSE IF m \in DOMAIN Skills THEN Skills[m]
    ELSE HandleHelp
=============================================================================
