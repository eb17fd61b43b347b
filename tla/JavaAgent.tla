----------------------------- MODULE JavaAgent -----------------------------
(***************************************************************************)
(* The Java spec agent,                                                    *)
(* src/src/AgentBin.Java/src/main/java/io/agentbin/SpecAgentExecutor.java: *)
(* what each method emits and the method that execute picks.  The methods  *)
(* are synchronous: nothing in them waits, or stops for a cancel.          *)
(***************************************************************************)
EXTENDS Scenarios

\* AgentEmitter.submit is a status update.
submit == Status("submitted")

\* "if (emitter.getTaskId() == null) emitter.submit()": whether the emitter
\* already has an identifier is the SDK's business, so a run may do either.
MaybeSubmit(name, steps) == Handler(name, {steps, <<submit>> \o steps})

handleComplete ==
    MaybeSubmit("handleComplete", <<Status("working"), Status("completed")>>)

handleArtifact ==
    MaybeSubmit("handleArtifact",
                <<Status("working"), Artifact("result-artifact"),
                  Status("completed")>>)

handleFile ==
    MaybeSubmit("handleFile",
                <<Status("working"), Artifact("file-artifact"),
                  Status("completed")>>)

handleReject == MaybeSubmit("handleReject", <<Status("rejected")>>)

handleInput == MaybeSubmit("handleInput", <<Status("input-required")>>)

handleStream ==
    MaybeSubmit("handleStream",
                <<Status("working")>> \o Chunks("stream-artifact", 3)
                    \o <<Status("completed")>>)

handleMulti ==
    MaybeSubmit("handleMulti",
                <<Status("working"), Artifact("turn-1"),
                  Status("input-required")>>)

handleMultiTurnContinuation(isDone) ==
    Handler("handleMulti",
            {IF isDone
             THEN <<Status("working"), Artifact("final"), Status("completed")>>
             ELSE <<Status("working"), Artifact(TurnArtifact),
                    Status("input-required")>>})

handleEcho == Handler("handleEcho", {<<Message>>})

tckCore == TckCoreHandlers(submit)

tckStream == TckStreamHandlers(submit)

\* A "tck-" identifier with no known prefix is echoed.
routeTck(m) ==
    LET known == tckCore @@ tckStream
    IN  IF m \in DOMAIN known THEN known[m] ELSE handleEcho

\* The switch on the first word of the text.
Skills ==
    "complete" :> handleComplete
    @@ "artifact" :> handleArtifact
    @@ "file" :> handleFile
    @@ "reject" :> handleReject
    @@ "input" :> handleInput
    @@ "stream" :> handleStream
    @@ "multi" :> handleMulti

\* execute: TCK identifiers, then the continuation of a task that waits for
\* input, then the keywords.
Route(m, phase) ==
    IF m \in TckPrefix \cup {"tck-unknown"} THEN routeTck(m)
    ELSE IF phase = "input-required" THEN handleMultiTurnContinuation(m = "done")
    ELSE IF m \in DOMAIN Skills THEN Skills[m]
    ELSE handleEcho
=============================================================================
