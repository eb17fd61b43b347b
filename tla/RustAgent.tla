----------------------------- MODULE RustAgent ------------------------------
(***************************************************************************)
(* The Rust spec agent.  Its handlers do not stream: handle_message returns*)
(* one task, and the handlers of the streaming requests also spawn a tokio *)
(* task that broadcasts the completed task 50 ms later.                    *)
(*                                                                         *)
(* The SDK (a2a-rs-server, 1.0.26 as Cargo.toml asks) subscribes a stream  *)
(* before it calls the handler, stores the reply and broadcasts it.  It    *)
(* completes tasks that nobody completed after 30 s.  A call that starts a *)
(* task gives the task its own name.                                       *)
(***************************************************************************)
EXTENDS A2A

CONSTANTS
    Call,       \* calls of clients; their number bounds the tasks
    Msg         \* what clients write

MultiTurn == {"multi-turn", "multi-turn-done"}

RustRequest == Request \cup MultiTurn

VARIABLES
    step,       \* a call is idle, streaming, done
    msg,        \* the message of a call
    ref,        \* the task the client wants to continue; its own name if none
    id,         \* the task the reply is about
    streamed,   \* was it a streaming call?
    seen,       \* what a stream was told last: a state, and were there artifacts
    store,      \* the tasks of the SDK: a state, and are there artifacts
    timer       \* the delayed completion of a task: off, set, fired

vars == <<step, msg, ref, id, streamed, seen, store, timer>>

Told(st, art) == [st |-> st, art |-> art]
Unknown == Told("none", FALSE)
-----------------------------------------------------------------------------
(* The handlers: what handle_message and route_tck return for a message.   *)

\* Answered with a message: no task is created.
Stateless == {"message-only", "tck-message-response", "tck-unknown"}

\* The tck_stream_* handlers, all of them by way of tck_streaming_task.
TckStream == {"tck-stream-001", "tck-stream-002", "tck-stream-003",
              "tck-stream-ordering-001", "tck-stream-artifact-text",
              "tck-stream-artifact-file", "tck-stream-artifact-chunked"}

\* Answered with a working task and completed by send_delayed_completion.
Delayed == {"streaming"} \cup TckStream

\* The artifacts of the delayed completion.
CompletionArtifacts(m) == m # "tck-stream-002"

\* The tasks that are not working when handle_message returns them.
Finished == {"task-lifecycle", "long-running", "data-types", "multi-turn-done",
             "tck-complete-task"} \cup (TckArtifact \ TckStream)
Failed == {"task-failure", "tck-reject-task"}
Waiting == {"multi-turn", "tck-input-required"}

\* A plausible bug: a state that the protocol does not have.
ReplyRejected(m) ==
    IF m \in Finished THEN Told("completed", m # "tck-complete-task")
    ELSE IF m \in Failed THEN Told("refused", FALSE)
    ELSE IF m \in Waiting THEN Told("input-required", m = "multi-turn")
    ELSE Told("working", FALSE)

\* handle_task_cancel_sync, tck_streaming_task, handle_streaming_sync and, for
\* any text without a keyword, handle_generic_working leave it at work.
Reply(m) ==
    IF m \in Finished THEN Told("completed", m # "tck-complete-task")
    ELSE IF m \in Failed THEN Told("failed", FALSE)
    ELSE IF m \in Waiting THEN Told("input-required", m = "multi-turn")
    ELSE Told("working", FALSE)

\* Only handle_multi_turn takes the task of the message.
TaskOf(c, m, r) == IF m \in MultiTurn THEN r ELSE c
-----------------------------------------------------------------------------
(* The SDK: its store, its event channel, its timer.                       *)

\* A broadcast about task t reaches the streams subscribed by now.
Listening(c, t) == step[c] = "streaming" /\ id[c] = t

Heard(t, told) == [c \in Call |-> IF Listening(c, t) THEN told ELSE seen[c]]

\* The end of its task closes a stream.
Ended(t, told) ==
    [c \in Call |-> IF Listening(c, t) /\ told.st \in Terminal THEN "done"
                    ELSE step[c]]

\* A streaming call after its reply.
Opened(told) == IF told.st \in Terminal THEN "done" ELSE "streaming"

Live(t) == store[t].st \notin Terminal \cup {"none"}

Init ==
    /\ step = [c \in Call |-> "idle"]
    /\ msg = [c \in Call |-> "-"]
    /\ ref = [c \in Call |-> c]
    /\ id = [c \in Call |-> c]
    /\ streamed = [c \in Call |-> FALSE]
    /\ seen = [c \in Call |-> Unknown]
    /\ store = [t \in Call |-> Unknown]
    /\ timer = [t \in Call |-> "off"]

\* A client writes m, for a new task or for task r that has not ended.
Write(c, m, viaStream, r) ==
    /\ step[c] = "idle"
    /\ r = c \/ Live(r)
    /\ msg' = [msg EXCEPT ![c] = m]
    /\ ref' = [ref EXCEPT ![c] = r]
    /\ streamed' = [streamed EXCEPT ![c] = viaStream]

\* The handler answers with a message.
HandleStateless(c, m, viaStream, r) ==
    /\ m \in Stateless
    /\ Write(c, m, viaStream, r)
    /\ step' = [step EXCEPT ![c] = "done"]
    /\ UNCHANGED <<id, seen, store, timer>>

\* The handler returns a task, which the SDK stores and broadcasts.
HandleMessage(c, m, viaStream, r) ==
    /\ m \notin Stateless
    /\ Write(c, m, viaStream, r)
    /\ LET t == TaskOf(c, m, r)
           task == Reply(m)
       IN  /\ id' = [id EXCEPT ![c] = t]
           /\ store' = [store EXCEPT ![t] = task]
           /\ timer' = IF m \in Delayed THEN [timer EXCEPT ![t] = "set"] ELSE timer
           /\ seen' = [Heard(t, task) EXCEPT ![c] = IF viaStream THEN task ELSE @]
           /\ step' = [Ended(t, task) EXCEPT
                          ![c] = IF viaStream THEN Opened(task) ELSE "done"]

\* 50 ms are over: send_delayed_completion broadcasts, and stores nothing.
SendDelayedCompletion(t) ==
    /\ timer[t] = "set"
    /\ timer' = [timer EXCEPT ![t] = "fired"]
    /\ LET task == Told("completed", CompletionArtifacts(msg[t]))
       IN  seen' = Heard(t, task) /\ step' = Ended(t, task)
    /\ UNCHANGED <<msg, ref, id, streamed, store>>

\* A plausible bug: auto_complete_delay is shorter than the 50 ms.
AutoCompleteSoon(t) ==
    /\ Live(t)
    /\ LET task == [store[t] EXCEPT !.st = "completed"]
       IN  /\ store' = [store EXCEPT ![t] = task]
           /\ seen' = Heard(t, task)
           /\ step' = Ended(t, task)
    /\ UNCHANGED <<msg, ref, id, streamed, timer>>

\* A plausible bug: auto_complete_delay is left at the SDK's default, None.
AutoCompleteNever(t) == t \notin Call /\ UNCHANGED vars

\* 30 s are over (auto_complete_delay), long after the 50 ms.
AutoComplete(t) ==
    /\ Live(t)
    /\ timer[t] # "set"
    /\ LET task == [store[t] EXCEPT !.st = "completed"]
       IN  /\ store' = [store EXCEPT ![t] = task]
           /\ seen' = Heard(t, task)
           /\ step' = Ended(t, task)
    /\ UNCHANGED <<msg, ref, id, streamed, timer>>

\* A client cancels a task; cancel_task agrees, and stops no timer.
CancelTask(t) ==
    /\ Live(t)
    /\ LET task == [store[t] EXCEPT !.st = "canceled"]
       IN  /\ store' = [store EXCEPT ![t] = task]
           /\ seen' = Heard(t, task)
           /\ step' = Ended(t, task)
    /\ UNCHANGED <<msg, ref, id, streamed, timer>>

Next ==
    \/ \E c, r \in Call, m \in Msg, viaStream \in BOOLEAN :
          \/ HandleStateless(c, m, viaStream, r)
          \/ HandleMessage(c, m, viaStream, r)
    \/ \E t \in Call :
          \/ SendDelayedCompletion(t)
          \/ AutoComplete(t)
          \/ CancelTask(t)

Spec == Init /\ [][Next]_vars

\* tokio runs the spawned tasks and the SDK its own; clients promise nothing.
FairSpec ==
    /\ Spec
    /\ \A c \in Call :
        /\ WF_vars(SendDelayedCompletion(c))
        /\ WF_vars(AutoComplete(c))
-----------------------------------------------------------------------------
View == [st : Phase, art : BOOLEAN]

\* Every variable keeps its type; the states a client is told are states of A2A.
TypeOK ==
    /\ step \in [Call -> {"idle", "streaming", "done"}]
    /\ msg \in [Call -> Msg \cup {"-"}]
    /\ ref \in [Call -> Call]
    /\ id \in [Call -> Call]
    /\ streamed \in [Call -> BOOLEAN]
    /\ seen \in [Call -> View]
    /\ store \in [Call -> View]
    /\ timer \in [Call -> {"off", "set", "fired"}]

\* A stream of a streaming request that was told the task is complete was given
\* its artifacts with that, and not the bare completion of the SDK's timer; but
\* handle_multi_turn may have answered for the task in between.
StreamGetsArtifacts ==
    \A c \in Call :
        /\ streamed[c] /\ msg[c] \in Delayed /\ seen[c].st = "completed"
        /\ \A d \in Call \ {c} : id[d] # c
        => seen[c].art = CompletionArtifacts(msg[c])

\* A follow-up in a multi-turn conversation is answered with its task.
FollowUpStaysOnTask ==
    \A c \in Call :
        msg[c] \in FollowUp /\ msg[ref[c]] = "multi-turn" => id[c] = ref[c]

\* Every stream ends: by its reply, by the delayed completion, by a cancel, by
\* what a multi-turn message makes of its task, or by the SDK's timer.
StreamsEnd == \A c \in Call : step[c] = "streaming" ~> step[c] = "done"

\* The store does not contradict for ever what a stream was told: where a stream
\* saw a task end, the stored task ends too.
StoreCatchesUp ==
    \A c \in Call : seen[c].st \in Terminal ~> store[id[c]].st \in Terminal
=============================================================================
