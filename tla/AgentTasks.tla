----------------------------- MODULE AgentTasks -----------------------------
(***************************************************************************)
(* The spec agents of AgentBin (.NET, Go, Python, Java) at run time: the   *)
(* executions of their handlers, the cancels that interrupt them, and the  *)
(* task store their events end up in.                                      *)
(*                                                                         *)
(* An execution is one call of an agent by its SDK: ExecuteAsync for a     *)
(* message, CancelAsync for a cancel.  A handler is the sequence of steps  *)
(* that Handlers gives for the message and the state of the task; the      *)
(* events it sends wait in the queue of the execution until the SDK applies*)
(* them to the stored task.  Clients send messages and cancels when they   *)
(* please.                                                                 *)
(***************************************************************************)
EXTENDS A2A

CONSTANTS
    Server,           \* the agents: each behaviour is of one of them
    Task,             \* task identifiers
    Exec,             \* executions; their number bounds the clients' calls
    Msg,              \* the messages clients send
    ArtifactName,     \* the artifact names of the handlers
    Handlers,         \* Handlers[v][m][p] handles m in phase p on server v
    WholeTaskCancel,  \* servers whose cancel enqueues the whole task
    EchoesMetadata,   \* servers whose cancel returns the request's metadata
    Interruptible,    \* servers whose handlers stop at a cancellation
    Overlap           \* may a task have a second execution while one is busy?

Step == [op : {"task", "status", "artifact", "message", "delay"},
         st : Phase,
         id : ArtifactName \cup {TurnArtifact, NoArtifact},
         chunk : Nat, append : BOOLEAN, last : BOOLEAN]

\* The step leaves the task in a state of S.
SetsTo(s, S) == s.op \in {"task", "status"} /\ s.st \in S

\* A run may be the one reply of a stateless handler, or it settles the task,
\* with its last step and only with that one.
Settling(r) ==
    /\ r # <<>>
    /\ \A i \in 1 .. Len(r) : SetsTo(r[i], Settled) <=> i = Len(r)
    /\ \A i \in 1 .. Len(r) : ~SetsTo(r[i], {"none"})
Stateless(r) == \A i \in 1 .. Len(r) : r[i].op = "message"

ASSUME HandlersAssumption ==
    \A v \in Server, m \in Msg, p \in Phase \ Terminal :
        \A r \in Handlers[v][m][p].runs :
            /\ r \in Seq(Step)
            /\ Settling(r) \/ Stateless(r)

\* The sequence has a step that leaves the task in a state of S.
Sets(r, S) == \E i \in 1 .. Len(r) : SetsTo(r[i], S)

\* A run does not submit its task again after it has worked on it, and one for
\* a task that waits for input works before it ends the task.
NeverBack(r) ==
    \A i \in 1 .. Len(r), j \in 1 .. Len(r) :
        j < i /\ SetsTo(r[i], {"submitted"}) => ~SetsTo(r[j], {"working"})
WorksFirst(r) ==
    \A i \in 1 .. Len(r) : SetsTo(r[i], Terminal) =>
        \E j \in 1 .. Len(r) : j < i /\ SetsTo(r[j], Unsettled)

ASSUME OrderAssumption ==
    \A v \in Server, m \in Msg, p \in {"none", "input-required"} :
        \A r \in Handlers[v][m][p].runs :
            /\ ~Sets(r, {"canceled"})
            /\ NeverBack(r)
            /\ p = "input-required" => WorksFirst(r)

\* Two steps are about one artifact.
SameArtifact(x, y) == x.op = "artifact" /\ y.op = "artifact" /\ x.id = y.id

\* The chunk of step i comes right after that of step j.
Follows(r, j, i) ==
    /\ j < i /\ SameArtifact(r[j], r[i]) /\ r[i].chunk = r[j].chunk + 1
    /\ \A k \in 1 .. Len(r) : j < k /\ k < i =>
           ~SameArtifact(r[k], r[i]) /\ r[k].op # "task"

\* A run sends the chunks of an artifact in order, from the first one on, and
\* goes on until it has sent the last.
InSequence(r) ==
    \A i \in 1 .. Len(r) : r[i].op = "artifact" =>
        IF r[i].append THEN \E j \in 1 .. Len(r) : Follows(r, j, i)
        ELSE r[i].chunk = 1
GoesOn(r) ==
    \A i \in 1 .. Len(r) :
        r[i].op = "artifact" /\ r[i].chunk > 1 /\ ~r[i].last =>
            \E j \in 1 .. Len(r) : i < j /\ SameArtifact(r[j], r[i])

\* The identifiers of follow-ups' artifacts are no handler's artifact names.
ASSUME ChunksAssumption ==
    /\ \A e \in Exec : e \notin ArtifactName \cup {NoArtifact}
    /\ \A v \in Server, m \in Msg, p \in {"none", "input-required"} :
           \A r \in Handlers[v][m][p].runs : InSequence(r) /\ GoesOn(r)

ASSUME ServerAssumption ==
    /\ WholeTaskCancel \subseteq Server
    /\ EchoesMetadata \subseteq Server
    /\ Interruptible \subseteq Server
    /\ Overlap \in BOOLEAN

VARIABLES
    server,     \* the agent under test
    st,         \* task store: the state of each task
    arts,       \* task store: the artifacts of each task
    meta,       \* task store: does the task bear a cancel's metadata?
    owner,      \* history: the handler that was given the task's first message
    kind,       \* what each execution is: idle, run, cancel, refused
    task,       \* the task of an execution
    name,       \* the handler of a run
    script,     \* the steps an execution still has to take
    signalled,  \* has the cancellation token of the execution fired?
    queue,      \* the events of an execution that the SDK has not applied yet
    snap,       \* the artifacts in the whole tasks the execution enqueues
    md          \* does the cancel request carry metadata?

store == <<st, arts, meta, owner>>
vars == <<server, st, arts, meta, owner, kind, task, name, script, signalled,
          queue, snap, md>>
-----------------------------------------------------------------------------
(* Artifacts.                                                              *)

\* A follow-up's artifact has an identifier of its own: its execution.
ArtifactId == ArtifactName \cup Exec

Content == [chunks : Seq(Nat), closed : BOOLEAN]
Absent == [chunks |-> <<>>, closed |-> FALSE]
NoArts == [k \in ArtifactId |-> Absent]

Key(e, id) == IF id = TurnArtifact THEN e ELSE id

\* A TaskArtifactUpdateEvent adds a chunk to an artifact or replaces it.
Update(contents, k, s) ==
    [contents EXCEPT ![k] =
        [chunks |-> (IF s.append THEN @.chunks ELSE <<>>) \o <<s.chunk>>,
         closed |-> s.last]]
-----------------------------------------------------------------------------
(* Executions.                                                             *)

Busy(e) == script[e] # <<>> \/ queue[e] # <<>>

On(e, t) == kind[e] # "idle" /\ task[e] = t

\* Nothing is under way for the task.
Free(t) == \A e \in Exec : On(e, t) => ~Busy(e)

\* A plausible bug: the cancel waits for the handlers to return, but not for
\* the events they have sent.
DrainedScripts(e) ==
    \A f \in Exec \ {e} : On(f, task[e]) =>
        IF kind[f] = "run" THEN script[f] = <<>> ELSE queue[f] = <<>>

\* The runs of the cancel's task are over and no other cancel of it is.
Drained(e) ==
    \A f \in Exec \ {e} : On(f, task[e]) =>
        IF kind[f] = "run" THEN ~Busy(f) ELSE queue[f] = <<>>

\* A plausible bug: a state that the protocol does not have.
CancelStepMisspelt ==
    IF server \in WholeTaskCancel THEN TaskStep("cancelled") ELSE Status("canceled")

\* What the cancel handler of the server enqueues.
CancelStep ==
    IF server \in WholeTaskCancel THEN TaskStep("canceled") ELSE Status("canceled")

\* A plausible bug: only the task a run was at work on gets the metadata.
EchoWhileWorking(e) ==
    /\ kind[e] = "cancel" /\ md[e] /\ server \in EchoesMetadata
    /\ st[task[e]] = "working"

\* The event of the cancel bears the metadata of its request.
Echoes(e) == kind[e] = "cancel" /\ md[e] /\ server \in EchoesMetadata

Start(e, k, t, r) ==
    /\ kind[e] = "idle"
    /\ kind' = [kind EXCEPT ![e] = k]
    /\ task' = [task EXCEPT ![e] = t]
    /\ script' = [script EXCEPT ![e] = r]
-----------------------------------------------------------------------------
Init ==
    /\ server \in Server
    /\ st = [t \in Task |-> "none"]
    /\ arts = [t \in Task |-> NoArts]
    /\ meta = [t \in Task |-> FALSE]
    /\ owner = [t \in Task |-> "-"]
    /\ kind = [e \in Exec |-> "idle"]
    /\ task \in {[e \in Exec |-> t] : t \in Task}
    /\ name = [e \in Exec |-> "-"]
    /\ script = [e \in Exec |-> <<>>]
    /\ signalled = [e \in Exec |-> FALSE]
    /\ queue = [e \in Exec |-> <<>>]
    /\ snap = [e \in Exec |-> NoArts]
    /\ md = [e \in Exec |-> FALSE]

(***************************************************************************)
(* A client sends a message: for a new task, whose identifier is then not  *)
(* in use, or for a stored one.  The SDK refuses one for an ended task, and*)
(* unless Overlap one for a task that is being worked on.                  *)
(***************************************************************************)
SendMessage(e, t, m) ==
    /\ st[t] \notin Terminal
    /\ st[t] = "none" \/ ~Overlap => Free(t)
    /\ LET h == Handlers[server][m][st[t]]
       IN  /\ \E r \in h.runs : Start(e, "run", t, r)
           /\ name' = [name EXCEPT ![e] = h.name]
           /\ owner' = IF st[t] = "none" THEN [owner EXCEPT ![t] = h.name]
                       ELSE owner
    /\ UNCHANGED <<server, st, arts, meta, signalled, queue, snap, md>>

(***************************************************************************)
(* A client cancels a task, with or without metadata.  The SDK refuses a   *)
(* task it does not know or that has ended; otherwise it reads the task and*)
(* fires the token of the runs at work on it.                              *)
(***************************************************************************)
CancelTask(e, t, withMetadata) ==
    /\ st[t] \notin Terminal \cup {"none"}
    /\ Start(e, "cancel", t, <<CancelStep>>)
    /\ snap' = [snap EXCEPT ![e] = arts[t]]
    /\ md' = [md EXCEPT ![e] = withMetadata]
    /\ signalled' = [f \in Exec |->
                        signalled[f] \/ (kind[f] = "run" /\ On(f, t) /\ Busy(f))]
    /\ UNCHANGED <<server, st, arts, meta, owner, name, queue>>

\* A handler enqueues its next event.
Emit(e) ==
    /\ kind[e] = "run"
    /\ script[e] # <<>>
    /\ Head(script[e]).op # "delay"
    /\ queue' = [queue EXCEPT ![e] = Append(@, Head(script[e]))]
    /\ script' = [script EXCEPT ![e] = Tail(@)]
    /\ UNCHANGED <<server, store, kind, task, name, signalled, snap, md>>

\* A plausible bug: the cancellation disposes of the timer that a handler waits
\* for, and the handler does not look at its token.
ElapseUnlessSignalled(e) ==
    /\ kind[e] = "run"
    /\ ~signalled[e]
    /\ script[e] # <<>>
    /\ Head(script[e]).op = "delay"
    /\ script' = [script EXCEPT ![e] = Tail(@)]
    /\ UNCHANGED <<server, store, kind, task, name, signalled, queue, snap, md>>

\* The timer a handler waits for runs out.
Elapse(e) ==
    /\ kind[e] = "run"
    /\ script[e] # <<>>
    /\ Head(script[e]).op = "delay"
    /\ script' = [script EXCEPT ![e] = Tail(@)]
    /\ UNCHANGED <<server, store, kind, task, name, signalled, queue, snap, md>>

\* A plausible bug: the handler runs under the token of its request, which
\* fires when the client hangs up, and not only for a cancel.
InterruptAtHangUp(e) ==
    /\ kind[e] = "run"
    /\ server \in Interruptible
    /\ script[e] # <<>>
    /\ script' = [script EXCEPT ![e] = <<>>]
    /\ UNCHANGED <<server, store, kind, task, name, signalled, queue, snap, md>>

\* A plausible bug: the token ends the handler's loop, and what follows the
\* loop reports the task completed.
InterruptCompletes(e) ==
    /\ kind[e] = "run"
    /\ server \in Interruptible
    /\ signalled[e]
    /\ script[e] # <<>>
    /\ script' = [script EXCEPT ![e] = <<Status("completed")>>]
    /\ UNCHANGED <<server, store, kind, task, name, signalled, queue, snap, md>>

\* A handler notices that its token has fired, at a delay or at an event.
Interrupt(e) ==
    /\ kind[e] = "run"
    /\ server \in Interruptible
    /\ signalled[e]
    /\ script[e] # <<>>
    /\ script' = [script EXCEPT ![e] = <<>>]
    /\ UNCHANGED <<server, store, kind, task, name, signalled, queue, snap, md>>

\* A plausible bug: the cancel handler runs for a working task only.
RunCancelOfWorking(e) ==
    /\ kind[e] = "cancel"
    /\ script[e] # <<>>
    /\ Drained(e)
    /\ st[task[e]] \in Unsettled
    /\ queue' = [queue EXCEPT ![e] = Append(@, Head(script[e]))]
    /\ script' = [script EXCEPT ![e] = Tail(@)]
    /\ \E read \in {snap[e], arts[task[e]]} : snap' = [snap EXCEPT ![e] = read]
    /\ UNCHANGED <<server, store, kind, task, name, signalled, md>>

\* A plausible bug: the cancel relies on the task it read before it waited.
RunCancelOfEnded(e) ==
    /\ kind[e] = "cancel"
    /\ script[e] # <<>>
    /\ Drained(e)
    /\ queue' = [queue EXCEPT ![e] = Append(@, Head(script[e]))]
    /\ script' = [script EXCEPT ![e] = Tail(@)]
    /\ \E read \in {snap[e], arts[task[e]]} : snap' = [snap EXCEPT ![e] = read]
    /\ UNCHANGED <<server, store, kind, task, name, signalled, md>>

(***************************************************************************)
(* The runs have drained and the task has still not ended: the SDK calls   *)
(* the agent's cancel handler.  The task it hands over is the one read with*)
(* the request or the one stored now.                                      *)
(***************************************************************************)
RunCancel(e) ==
    /\ kind[e] = "cancel"
    /\ script[e] # <<>>
    /\ Drained(e)
    /\ st[task[e]] \notin Terminal
    /\ queue' = [queue EXCEPT ![e] = Append(@, Head(script[e]))]
    /\ script' = [script EXCEPT ![e] = Tail(@)]
    /\ \E read \in {snap[e], arts[task[e]]} : snap' = [snap EXCEPT ![e] = read]
    /\ UNCHANGED <<server, store, kind, task, name, signalled, md>>

\* A plausible bug: a cancel that had to wait is refused whatever came of it.
RefuseLateCancel(e) ==
    /\ kind[e] = "cancel"
    /\ script[e] # <<>>
    /\ Drained(e)
    /\ kind' = [kind EXCEPT ![e] = "refused"]
    /\ script' = [script EXCEPT ![e] = <<>>]
    /\ UNCHANGED <<server, store, task, name, signalled, queue, snap, md>>

\* The task ended before the cancel's turn came: TaskNotCancelable.
RefuseCancel(e) ==
    /\ kind[e] = "cancel"
    /\ script[e] # <<>>
    /\ Drained(e)
    /\ st[task[e]] \in Terminal
    /\ kind' = [kind EXCEPT ![e] = "refused"]
    /\ script' = [script EXCEPT ![e] = <<>>]
    /\ UNCHANGED <<server, store, task, name, signalled, queue, snap, md>>

\* The SDK applies the oldest event of an execution to the stored task.
Apply(e) ==
    /\ queue[e] # <<>>
    /\ LET s == Head(queue[e])
           t == task[e]
           sets == s.op \in {"task", "status"}
       IN  /\ st' = IF sets THEN [st EXCEPT ![t] = s.st] ELSE st
           /\ arts' = IF s.op = "task" THEN [arts EXCEPT ![t] = snap[e]]
                      ELSE IF s.op = "artifact"
                      THEN [arts EXCEPT ![t] = Update(@, Key(e, s.id), s)]
                      ELSE arts
           /\ meta' = IF sets
                      THEN [meta EXCEPT ![t] = Echoes(e) \/ (s.op = "status" /\ @)]
                      ELSE meta
    /\ queue' = [queue EXCEPT ![e] = Tail(@)]
    /\ UNCHANGED <<server, owner, kind, task, name, script, signalled, snap, md>>

Next ==
    \E e \in Exec :
        \/ \E t \in Task, m \in Msg : SendMessage(e, t, m)
        \/ \E t \in Task, withMetadata \in BOOLEAN : CancelTask(e, t, withMetadata)
        \/ Emit(e)
        \/ Elapse(e)
        \/ Interrupt(e)
        \/ RunCancel(e)
        \/ RefuseCancel(e)
        \/ Apply(e)

Spec == Init /\ [][Next]_vars

(***************************************************************************)
(* The runtimes schedule a handler that can go on, timers run out, and the *)
(* SDKs consume their queues and call the cancel handler: each execution   *)
(* that can take a step of its own takes it.  Clients promise nothing, and *)
(* a handler need not notice the token before its timer.                   *)
(***************************************************************************)
FairSpec ==
    /\ Spec
    /\ \A e \in Exec :
        /\ WF_vars(Emit(e) \/ Elapse(e))
        /\ WF_vars(RunCancel(e) \/ RefuseCancel(e))
        /\ WF_vars(Apply(e))
-----------------------------------------------------------------------------
\* Every variable keeps its type, whatever clients send and when they cancel.
TypeOK ==
    /\ server \in Server
    /\ st \in [Task -> Phase]
    /\ arts \in [Task -> [ArtifactId -> Content]]
    /\ meta \in [Task -> BOOLEAN]
    /\ DOMAIN owner = Task
    /\ kind \in [Exec -> {"idle", "run", "cancel", "refused"}]
    /\ task \in [Exec -> Task]
    /\ DOMAIN name = Exec
    /\ script \in [Exec -> Seq(Step)]
    /\ signalled \in [Exec -> BOOLEAN]
    /\ queue \in [Exec -> Seq(Step)]
    /\ snap \in [Exec -> [ArtifactId -> Content]]
    /\ md \in [Exec -> BOOLEAN]

\* The last step of s settles the task.
SettlesAtEnd(s) == s # <<>> /\ SetsTo(s[Len(s)], Settled)

\* The execution has yet to settle its task: with the end of its script, with
\* the end of its queue, or as a cancel whose turn comes.
Pledged(e) ==
    \/ kind[e] = "cancel" /\ Busy(e)
    \/ kind[e] = "run" /\ SettlesAtEnd(script[e])
    \/ kind[e] = "run" /\ script[e] = <<>> /\ SettlesAtEnd(queue[e])

\* A task that the store shows as submitted or working always has somebody who
\* will settle it: the handler, its undelivered events, or the cancel that
\* stopped the handler.  A handler that is interrupted and swallows the
\* cancellation (SpecAgent.cs catches OperationCanceledException, specagent.go
\* returns on ctx.Done) relies on the cancel for it.
NobodyLeftWorking ==
    \A t \in Task : st[t] \in Unsettled => \E e \in Exec : On(e, t) /\ Pledged(e)

\* A completed task holds every artifact from its first chunk to its last, in
\* order, and no artifact of several chunks is left open: what the streaming
\* handlers' append and lastChunk flags promise to a reader of the task.
StreamsWhole ==
    \A t \in Task : st[t] = "completed" =>
        \A k \in ArtifactId :
            LET c == arts[t][k]
            IN  /\ \A i \in 1 .. Len(c.chunks) : c.chunks[i] = i
                /\ Len(c.chunks) > 1 => c.closed

\* No reader ever finds a hole in an artifact: at any time, also of a task that
\* is being worked on, was stopped in the middle of a stream, was overwritten by
\* the whole task a cancel had read, or was submitted anew, the chunks stored are
\* the first ones in order.
NoChunkMissing ==
    \A t \in Task, k \in ArtifactId : \A i \in 1 .. Len(arts[t][k].chunks) :
        arts[t][k].chunks[i] = i

\* An ended task never changes again, neither its state nor its artifacts: no
\* event of a run that was interrupted or raced with a cancel arrives late.
TerminalIsFinal ==
    [][\A t \in Task : st[t] \in Terminal => st'[t] = st[t] /\ arts'[t] = arts[t]]_vars

\* A cancel that took effect and carried metadata has left it on the task.
CancelEchoesMetadata ==
    \A e \in Exec :
        kind[e] = "cancel" /\ ~Busy(e) /\ md[e] => meta[task[e]]

\* The agents that copy the metadata of a cancel leave it on the task.
MetadataEchoed == server \in EchoesMetadata => CancelEchoesMetadata

\* A follow-up is handled by the handler that was given the task's first
\* message.
ContinuationGoesToOwner ==
    \A e \in Exec : kind[e] = "run" /\ Busy(e) => name[e] = owner[task[e]]

\* Whatever the clients do, a task under way ends or asks for input.
Settles == \A t \in Task : st[t] \in Unsettled ~> st[t] \in Settled

\* A cancel the SDK accepted leads to an ended task, and never back to a task
\* that waits for input.
CancelEffective ==
    \A e \in Exec : \A t \in Task :
        kind[e] = "cancel" /\ task[e] = t /\ Busy(e) ~> st[t] \in Terminal

\* The tasks of the agents live the life that TaskLifecycle describes.
Lifecycle == INSTANCE TaskLifecycle WITH Task <- Task, st <- st
LifecycleSpec == Lifecycle!LifecycleSpec
=============================================================================
