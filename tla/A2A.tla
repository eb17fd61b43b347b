-------------------------------- MODULE A2A --------------------------------
(***************************************************************************)
(* The A2A v1.0 vocabulary shared by the modules of this project: the      *)
(* states of a task, the events an agent handler sends, and what the SDK's *)
(* task store makes of an event.  The SDKs are libraries outside this      *)
(* repository; the operators below say of them what the handlers under     *)
(* src/AgentBin* take for granted.                                         *)
(***************************************************************************)
EXTENDS Naturals, Sequences

\* The end of a task: no further message or cancel is accepted.
Terminal == {"completed", "failed", "canceled", "rejected"}

\* States in which nobody has to do anything unless a client calls again.
Settled == Terminal \cup {"input-required"}

\* States that promise the client that the server is at work.
Unsettled == {"submitted", "working"}

\* "none" is the phase of a task identifier that the store does not hold.
Phase == {"none"} \cup Unsettled \cup Settled

(***************************************************************************)
(* A step of a handler.  "task" enqueues a whole Task object, "status" and *)
(* "artifact" an update of one, "message" a direct reply that creates no   *)
(* task, and "delay" waits for a timer or for the cancellation token.      *)
(* chunk numbers the pieces of a streamed artifact; append and last are    *)
(* the flags of a TaskArtifactUpdateEvent.  Texts, roles and timestamps    *)
(* are left out.                                                           *)
(***************************************************************************)
NoArtifact == "-"

TaskStep(st) ==
    [op |-> "task", st |-> st, id |-> NoArtifact, chunk |-> 0,
     append |-> FALSE, last |-> FALSE]

Status(st) == [TaskStep(st) EXCEPT !.op = "status"]

Chunk(id, n, append, last) ==
    [op |-> "artifact", st |-> "none", id |-> id, chunk |-> n,
     append |-> append, last |-> last]

Artifact(id) == Chunk(id, 1, FALSE, FALSE)

Message == [TaskStep("none") EXCEPT !.op = "message"]

Delay == [TaskStep("none") EXCEPT !.op = "delay"]

\* The artifact of a follow-up turn: its name is new each time it is emitted.
TurnArtifact == "turn-*"

\* A handler of an agent: its name, and the step sequences it may run.
Handler(name, runs) == [name |-> name, runs |-> runs]

\* The artifact events of n chunks of one artifact: the first creates it, the
\* others append to it and only the last one closes it.
Chunks(id, n) == [i \in 1 .. n |-> Chunk(id, i, i > 1, i = n)]

\* Every step of s after a wait, as in a loop that sleeps before it sends.
Paced(s) ==
    [i \in 1 .. 2 * Len(s) |-> IF i % 2 = 1 THEN Delay ELSE s[i \div 2]]

(***************************************************************************)
(* What a client may write: the eight keywords of the .NET, Go and Python  *)
(* agents, the seven of the Java agent, follow-ups with and without the    *)
(* word "done", and messages whose identifier has one of the TCK prefixes. *)
(* The message "tck-unknown" has an identifier with no known prefix and a  *)
(* text that starts with "task-lifecycle".                                 *)
(***************************************************************************)
Keyword == {"message-only", "task-lifecycle", "task-failure", "task-cancel",
            "multi-turn", "streaming", "long-running", "data-types"}

JavaKeyword == {"complete", "artifact", "file", "reject", "input", "stream",
                "multi"}

TckArtifact == {"tck-artifact-text", "tck-artifact-file",
                "tck-artifact-file-url", "tck-artifact-data", "tck-stream-001",
                "tck-stream-003", "tck-stream-ordering-001",
                "tck-stream-artifact-text", "tck-stream-artifact-file"}

TckPrefix == TckArtifact \cup
             {"tck-complete-task", "tck-message-response", "tck-input-required",
              "tck-reject-task", "tck-stream-002", "tck-stream-artifact-chunked"}

FollowUp == {"done", "more"}

Request == Keyword \cup JavaKeyword \cup FollowUp \cup TckPrefix
             \cup {"tck-unknown"}
=============================================================================
