----------------------------- MODULE Scenarios -----------------------------
(***************************************************************************)
(* The step sequences that the four spec agents have in common.  They      *)
(* differ in how a task is submitted: the .NET and Go agents enqueue a     *)
(* whole Task, the Python and Java agents a status update.  submit is that *)
(* step.                                                                   *)
(***************************************************************************)
EXTENDS A2A, SequencesExt

\* submitted, working, some artifacts and the state that ends the run.
Lifecycle(submit, artifacts, end) ==
    <<submit, Status("working")>> \o artifacts \o <<Status(end)>>

\* The handlers of the TCK's core scenarios, by message identifier.
TckCoreHandlers(submit) ==
    LET runs ==
            "tck-complete-task" :> Lifecycle(submit, <<>>, "completed")
            @@ "tck-artifact-text" :>
                Lifecycle(submit, <<Artifact("text-artifact")>>, "completed")
            @@ "tck-artifact-file" :>
                Lifecycle(submit, <<Artifact("file-artifact")>>, "completed")
            @@ "tck-artifact-file-url" :>
                Lifecycle(submit, <<Artifact("file-url-artifact")>>, "completed")
            @@ "tck-artifact-data" :>
                Lifecycle(submit, <<Artifact("data-artifact")>>, "completed")
            @@ "tck-message-response" :> <<Message>>
            @@ "tck-input-required" :> <<submit, Status("input-required")>>
            @@ "tck-reject-task" :> <<submit, Status("failed")>>
    IN  [m \in DOMAIN runs |-> Handler(m, {runs[m]})]

\* The handlers of the TCK's streaming scenarios.
TckStreamHandlers(submit) ==
    LET one(id) == Lifecycle(submit, <<Artifact(id)>>, "completed")
        runs ==
            "tck-stream-001" :> one("stream-artifact")
            @@ "tck-stream-002" :> <<submit, Status("completed")>>
            @@ "tck-stream-003" :> one("stream-artifact")
            @@ "tck-stream-ordering-001" :> one("stream-artifact")
            @@ "tck-stream-artifact-text" :> one("stream-text-artifact")
            @@ "tck-stream-artifact-file" :> one("stream-file-artifact")
            @@ "tck-stream-artifact-chunked" :>
                Lifecycle(submit, Chunks("chunked-artifact", 2), "completed")
    IN  [m \in DOMAIN runs |-> Handler(m, {runs[m]})]

\* The artifacts of a task of n long-running rounds.
StepName == <<"step-1", "step-2", "step-3", "step-4", "step-5">>

\* The four artifacts of the data-types skill.
DataTypesArtifacts ==
    <<Artifact("text-artifact"), Artifact("data-artifact"),
      Artifact("file-artifact"), Artifact("multi-part-artifact")>>

\* Every artifact name of an agent, and the one that stands for turn ids.
AgentArtifacts ==
    {"result", "turn-1", "final", "stream-result", "text-artifact",
     "data-artifact", "file-artifact", "multi-part-artifact",
     "file-url-artifact", "stream-artifact", "stream-text-artifact",
     "stream-file-artifact", "chunked-artifact", "result-artifact"}
    \cup {StepName[i] : i \in 1 .. 5}
=============================================================================
