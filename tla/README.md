# AgentBin in TLA+

AgentBin is an interoperability test bed for the A2A (agent to agent) protocol.
It holds five servers that implement the same "spec agent" with five SDKs, a
compatibility layer for v0.3 clients, client test programs, a harness that runs
them and publishes dashboards, and a playground, a web page that talks to the
agents. The agents are small, but each of them runs under an SDK that
interleaves their handlers with cancels, follow-ups, timers and streams; the
page is one JavaScript bundle whose callbacks interleave with its user; the
harness shares files with programs that outlive it. This directory models that.

## Inventory

| Part | Source | State it keeps | Operations | Status |
| --- | --- | --- | --- | --- |
| .NET spec agent | `src/AgentBin/Agents/SpecAgent.cs` | none of its own; the SDK's task store | `ExecuteAsync`, `CancelAsync`, 8 skills, 15 TCK handlers | modelled |
| Go spec agent | `src/AgentBin.Go/specagent.go` | as above | `Execute`, `Cancel`, 8 skills, 15 TCK handlers | modelled |
| Python spec agent | `src/AgentBin.Python/spec_agent.py` | as above | `execute`, `cancel`, 8 skills, 15 TCK handlers | modelled |
| Java spec agent | `src/AgentBin.Java/.../SpecAgentExecutor.java` | as above | `execute`, `cancel`, 7 keywords, 15 TCK handlers | modelled |
| Rust spec agent | `src/AgentBin.Rust/src/spec_agent.rs`, `main.rs` | the sender of the event channel; a 50 ms timer for each streamed task | `handle_message`, `cancel_task`, `auto_complete_delay`, 8 skills, 15 TCK handlers | modelled |
| v0.3 compatibility | `src/AgentBin/V03Compat/` | a buffer for each request | the middleware; translate request, response, stream | modelled |
| Playground: chat | `docs/a2a-playground.js`, 71, 74, 90 | the chat store, an abort controller, the streams under way | send, resend, retry, clear, stop; events, ends and failures of streams | modelled |
| Playground: connection | `docs/a2a-playground.js`, 16, 67, 93, 97 | the agent, its card, a token, a device code and the timer of its poll | select, connect, disconnect, edit; token requests, device-code flow | partly |
| Playground: editor loader, scroll lock | `docs/a2a-playground.js`, 26, 27, 64 | the loader's promise; a count, a style sheet and a stack on the page | mount and unmount an editor; open and close a modal | modelled |
| Harness | `tests/run-all.py` | `results.json` of each client, pages, published pages | run clients, collect, dashboards, publish | partly |
| TCK scripts, reports | `run-tck-all.py`, `generate_compliance.py` | files | read results, write a page | not modelled |
| Echo agents, cards, hosting | `EchoAgent.*`, `cards.*`, `Program.cs`, `main.*` | none | stateless replies, constants, routing | not modelled |
| Client tests, smoke test | `tests/ClientTests`, `smoke-test.py`, `acceptance.yaml` | none | requests and expectations | quoted by the findings |
| Infrastructure, squad files, docs | `infra`, `.squad`, `docs` | none | | not modelled |

(Paths are below `src/`. The bundle of the playground has very long lines: the
numbers are its lines, and `PROJECT.json` names the function on each.)

How they interact: a client calls the SDK of a server (SendMessage,
SendStreamingMessage, CancelTask). The SDK calls the agent, gives it a queue (or
an iterator, an emitter) and applies the events the agent sends to its task
store. For a cancel the SDK fires the cancellation token of the handler at work
and then calls the agent's cancel method. In the Rust SDK the handler returns
one task; streams are fed from a broadcast channel that the agent may also use.
The v0.3 middleware sits before the .NET SDK: it rewrites a request, collects
the whole answer in memory and translates it. The playground fetches cards,
sends messages and reads streams of server-sent events; its stores are changed
by the user and by whatever comes back. The harness starts the client programs
one after another and reads the files they leave.

What is hard:

* in the agents, a handler that waits (30 s in `task-cancel`, half seconds in
  `streaming`) while a cancel comes in; events still queued when the cancel's own
  event is sent; follow-ups on tasks that another handler started; .NET and Go
  handlers that end silently when they are interrupted and rely on the cancel;
  whole-task events that replace what the store holds; the Rust agent's
  completion after 50 ms, which only streams are told of, against the SDK's own
  completion, a cancel, and a call that takes the task over;
* in the page, everything that happens between two awaits: a chat that is cleared
  or a message that is sent again while a stream runs, a stop that races with the
  end, a fallback whose bubble is gone, a card or a token that arrives for an
  agent no longer selected, an edit that makes the card unreadable while the page
  stays connected, a poll under way when its flow is cancelled, an editor
  unmounted before its script is there, modals that close in another order;
* in the compatibility layer, two translation tables that must fit each other and
  a stream that is rewritten line by line;
* in the harness, results of earlier runs and programs that go on after a timeout.

`PROJECT.json` lists each hazard at its line.

What makes the parts correct. Agents: every task that is submitted or working
settles; an ended task stays as it is; an accepted cancel ends its task; streamed
artifacts arrive whole, and nobody who reads a task finds a hole in one; metadata
of a cancel comes back; a stream ends, and with its artifacts. Page: no spinner
without a stream, no lock without a request, one answer per question, nothing
stopped or failed painted as completed, messages sent to the agent whose card is
shown, no token of an earlier selection; what is waited for arrives or fails.
Compatibility layer: a client is answered in its dialect, with its own message
intact, every event once and in order. Harness: a page shows results of its own
run, or says nothing.

## Modules

The agents:

* `A2A` - the vocabulary: states, the steps of handlers, the messages a client
  may write. Texts, roles, timestamps and identifiers are abstracted away; a
  message is the keyword, the TCK prefix or the kind of follow-up it is. An
  artifact's content is the sequence of the numbers of its chunks.
* `Scenarios` - the step sequences that the agents have in common.
* `DotnetAgent`, `GoAgent`, `PythonAgent`, `JavaAgent` - one operator per handler
  of the agent, with the name it has in the code, and `Route`, the agent's
  dispatch. A handler is a set of possible step sequences ("task", "status",
  "artifact", "message", "delay"), in the order of the code's calls.
* `AgentServers` - the four agents side by side as a table, and what
  distinguishes their cancel methods.
* `AgentTasks` - the state machine: the SDK with its store, the executions of
  handlers, their queues, and the cancels. Actions:
  `SendMessage` (the SDK calls `ExecuteAsync`, `Execute`, `execute`), `Emit` (one
  enqueue or yield), `Elapse` (one timer), `Interrupt` (a handler sees its token),
  `CancelTask` (a client's request), `RunCancel` and `RefuseCancel` (the agent's
  cancel method runs, or the SDK refuses), `Apply` (the SDK applies an event).
* `TaskLifecycle` - the abstract specification: which state of a task may follow
  which, and that work settles. `AgentTasks` instantiates it with its `st`; run
  `agents_liveness` checks that it implements it.
* `RustAgent` - the Rust agent with its SDK (1.0.26, `Cargo.toml`, which
  subscribes a stream before it calls the handler): the reply, the delayed
  completion, the SDK's auto-completion and cancels. It is a module of its own
  because its handlers are not sequences of events: they return one task.

The compatibility layer:

* `V03Translation` - a request with the part of a message it carries, the
  middleware (`InvokeNext`, `InvokeTranslated`, `HandlerReturns`), the v1.0 handler
  behind it (`HandlerEmits`, `HandlerAnswers`, `HandlerThrows`: the SDK, external)
  and the client's reader of server-sent events (`ClientReads`, `ClientEnds`). The
  translator is a set of operators on methods, parts, messages, results and lines;
  a part is the kind it names and the set of members it has.
* `EventRelay` - the abstract specification of a relay: the events in order, each
  once, in the end all of them or a stream that is seen to be lost. It knows no
  buffers, lines or dialects. `V03Translation` implements it (property
  `RelaysEvents`); the mapping takes the number of results the handler sent, the
  numbers of the results the client has, and what the client knows of the end.

The playground. JavaScript runs one callback at a time, so that an action is what
a function does up to its next await, or from there:

* `PlaygroundChat` - the chat store and its streaming client. Per request: where
  its async function stands, how many events were read, what the agent last
  reported; for the page: the list of messages (the last `Cap` of them), the
  bubbles, `isStreaming`, `contextId` and the abort controller.
* `PlaygroundConnection` - the connection store: card fetches, tokens and the
  device-code flow with its chain of timers and polls. `Select` is a click on an
  agent; for one of `Clients`, listed with client credentials, it waits for a
  token and `SelectGoesOn` connects to the URL of that moment; one of `Keyed`
  brings a token of its own. `HostConnect` and `HostSelect` are what the host page
  may start with, `ConnectButton` and `EditUrl` the URL field. The editor's text
  may become another card (`EditCard`, which moves messages to the URL that card
  names), no card at all (`BreakCard`: the page stays connected), or nothing
  (`ClearCard`). The card of an agent of `Nameless` names no URL.
* `EditorLoader` - the loader of the Monaco editor and the editors that mount and
  unmount around its one script. `ScrollLock` - how modals lock the page: the
  attribute that counts them, the one style sheet, the stack. Both are libraries
  that the page bundles (`@monaco-editor/loader`, `react-remove-scroll`): the
  models are of the code as it is in the bundle and of how the page uses it.
* `PlaygroundPage` - the three side by side. They share no variable, so that one
  of them moves in a behaviour; a property of one is a property of the page.

The harness:

* `InteropHarness` - `run-all.py`: a run starts the test program of each client,
  reads its `results.json`, writes the pages of its label and publishes them. The
  programs write, crash, spoil their file, or outlive the timeout that gave them
  up (`StragglerEnds`), into a later run.

`MCAgentTasks`, `MCRustAgent`, `MCV03Translation`, `MCPlaygroundChat`,
`MCPlaygroundPage`, `MCInteropHarness` are the instances for TLC;
`AgentTasksProofs`, `RustAgentProofs`, `V03TranslationProofs`, `V03RelayProofs`,
`PlaygroundChatProofs`, `PlaygroundConnectionProofs`, `PlaygroundPageProofs` and
`InteropHarnessProofs` hold the theorems.

Variables called "history" in a comment are not in the code. They remember what
the user did, so that a property can name the case in which the code does not
promise it (for instance `disturbed`: the user cleared the chat while a request
ran). Operators called "a plausible bug" or defined just above a definition whose
name they extend are variants of it. They are used by no specification;
`PROJECT.json` ("mutants") says which property notices each.

## What is assumed of what is outside

The SDKs are libraries outside the repository. The models say of them what the
code, its comments, its tests and the team's notes rely on:

* the events of one execution are applied in the order in which they were sent;
* messages and cancels for an ended task are refused (`acceptance.yaml`);
* one execution works on a task at a time (constant `Overlap` lifts this);
* a cancel fires the token, waits until the handler and its events have drained,
  and then calls the cancel method if the task has still not ended
  (`Drained`). The sources show this for .NET (`SpecAgent.cs:191-194`,
  `.squad/agents/v1-agents/history.md`) and Go (`specagent.go:139`). For Python
  and Java it is assumed: a Python cancel that enqueues while `execute` still
  sleeps (`spec_agent.py:93`) is not explored;
* a whole Task replaces the stored one, an update changes it;
* the task that `CancelAsync` gets is the one read with the request or the
  current one: both are allowed;
* a handler that its token interrupts sends nothing any more. Java handlers are
  synchronous and are not interrupted;
* whether a Java emitter has a task identifier before `submit` is left open;
* Rust: `a2a-rs-server` subscribes a stream before it calls the handler, which it
  does since 1.0.19 (`.squad/decisions.md`, "SDK Race Condition Workaround");
  `Cargo.toml` asks for 1.0.26. A broadcast that ends the task closes the stream;
  `auto_complete_delay` completes what nobody completed; a broadcast by the agent
  changes no store;
* the v1.0 handler behind the middleware answers a stream with events, and
  everything else, and what it refuses, with one document;
* an agent the page talks to sends nothing on a stream after an event that ends
  it; an aborted fetch delivers nothing more; v0.3 clients send the members a kind
  of part has (`PartsAssumption`), and any part of a kind v0.3 does not have;
* a modal's effects run before another modal is rendered (React's commits).

## Runs

All runs say `CHECK_DEADLOCK FALSE`: executions, calls, requests and runs are
used once, so a behaviour stops when they are used up.

| Run | Shows | Bounds |
| --- | --- | --- |
| `agents` | safety of the four agents: `NobodyLeftWorking`, `StreamsWhole`, `NoChunkMissing`, `MetadataEchoed`, `TerminalIsFinal` | all 33 messages, one task, three executions, symmetric (91,511 states) |
| `agents_liveness` | `Settles`, `CancelEffective`, and that the agents implement `TaskLifecycle` | nine messages, one of each kind |
| `agents_overlap` | nobody is left working even if an SDK runs executions of a task at once | six messages |
| `rust` | a stream that is told of its completion has its artifacts; streams end; the store catches up | all messages, two calls |
| `chat` | the chat: `TypeOK` and six safety invariants, and that it unlocks | two requests of any kind, two events per stream, three messages kept (461,970 states) |
| `page` | safety of the page: late cards and tokens, edited and broken cards, editors, modals | two agents, one with client credentials and a card without URL, one with a token of its own; two calls, one flow; three editors; three modals (about 1.06 million states) |
| `page_liveness` | the device-code flow and the editors: `CodeHasPoller`, `DeviceFlowEnds`, `MountsSettle` | one agent, two flows, three editors (138,000 states) |
| `v03` | dialects, the message's round trip, and that the layer implements `EventRelay` | every request with one of nine parts, up to three events (5,765 states) |
| `harness` | where the results on a page come from; runs end | two clients with a script and one without, two runs with any options, one label and none (433,860 states) |
| `dotnet_owner` | finding: .NET follow-ups go to `HandleMultiTurn`, not to the handler that owns the task | |
| `cancel_metadata` | finding: Python and Java do not echo a cancel's metadata | |
| `rust_follow_up` | finding: a Rust follow-up without keyword starts another task | |

Why the bounds are enough to be interesting. Agents: tasks share nothing but the
SDK's bookkeeping, so one task suffices; three executions allow a first turn, a
follow-up and a cancel, or a run with two racing cancels. In `RustAgent` two calls
allow a stream and a call that takes its task over; cancels are not calls and are
not bounded, except that a task ends once. Chat: two requests can overlap in every
way two can, two events allow a break, a stop or an end after the first and after
the last, and three messages are fewer than two questions with their answers, so
that the cap cuts off a bubble that is still written to. Page: two calls are what
it takes for a card to be late, two flows for a poll to be; calls and flows meet
only in the selection a token is for, which one flow shows; three modals can close
in an order that is neither that of opening nor its reverse. v0.3: with three
events one is neither the first nor the last. Harness: two runs let a program of
the first write into the second.

Fairness. `FairSpec` of the agents: a handler that can go on does, timers run out,
the SDK consumes its queues and calls cancel methods. That is what the thread
pool, the goroutine scheduler, the event loop and tokio do. Clients promise
nothing, and no handler has to notice its token before its timer. In `RustAgent`
the spawned completion and the auto-completion are fair.
In the playground every fetch ends in an answer, an end or a failure, timers fire,
and a device code expires; the user owes nothing. In `V03Translation` the
middleware and the reader go on and the handler's streams end, since a run of an
agent does. In `InteropHarness` the harness goes on and its timeout fires; nothing
is assumed of the programs.

Some of what the code does no property forbids. In the playground the answer that
arrives last wins over the agent selected last, and a card without a URL leaves
messages going where the previous one sent them (`MessagesFollowCard` says only
that a card that is shown and names a URL is where messages go); a token under way
lands in the credentials of another agent (`crossed`); a request that ran when the
chat was cleared brings its context back, and the end of an older request changes
the send button of the next (`disturbed`); a modal that is rendered in the commit
that closes another measures the page as that one left it (`misfit`). v0.3
resubscriptions get their events untranslated (`resubscribe`). A dashboard shows
the results of an earlier run for a client whose program crashed before it wrote,
and those of a straggler that wrote over the file. No text of the repository says
otherwise, so none of these is listed as a finding. The properties exempt them by
name, and the hazards that describe them are listed without a property and say so.

## What is proved

The proofs are for all values of the constants. What is proved of a run's property
is listed in `PROJECT.json` ("theorems").

The agents, for any number of tasks, executions and messages, and any handlers
whose runs either settle the task with their last step and only with that one, or
are stateless replies (`HandlersAssumption`):

* `TypeCorrect`: `Spec => []TypeOK`.
* `NobodyIsLeftWorking`: `Spec => []NobodyLeftWorking`, whatever `Overlap` is.
  The property alone is not inductive. An interrupted run has no script left, so
  who settles the task is the cancel that interrupted it: `Stopped` says that this
  cancel still has its turn, and `WellFormed` which shapes the rest of an
  execution can have (a run's settling step is the last of its script, or of its
  queue).
* `EndIsFinal`: if `Overlap = FALSE`, `Spec => TerminalIsFinal`. The invariant
  adds that an ending step is the last of its run (`Orderly`), that a task has
  one busy run (`OneRun`), that a cancel's event waits alone (`Alone`) and that
  nothing is on its way to an ended task (`Final`).
* `LivesSafely`: if `Overlap = FALSE`, `Spec => Lifecycle!SafeSpec`, the safety half
  of the refinement of `TaskLifecycle`. It needs `OrderAssumption` too: no run
  submits its task again once it has worked on it, and a run for a task that waits
  for input works before it ends it. The invariant (`Ahead`) relates the state of a
  task to the states that the queue and the script of its run still have for it;
  that a message finds its task new or waiting for input (`FoundAtRest`) follows
  from `NobodyLeftWorking`.
* `StreamsAreWhole`: if `Overlap = FALSE`, `Spec => []StreamsWhole`, for handlers
  that send the chunks of an artifact in order and go on to the last
  (`ChunksAssumption`). A completed task is the work of several turns whose events
  come in one by one, so the invariant speaks of what is still to come: the queue
  and then the script of a run go on from what the task holds (`Promising`), an
  artifact left open has its next chunk among them, and a task at rest holds whole
  artifacts only (`RestsWhole`), from which the next turn starts. A run that a
  cancel has interrupted breaks its promise. It counts as stopped (not `Live`):
  its queue ends no task, and the cancel that stopped it is busy until it has
  canceled it. Delivering an event and passing over a delay are both the removal
  of one step from a sequence; the lemmas on `Removed` say what survives that.
* `ArtifactsHaveNoHoles`: if `Overlap = FALSE`, `Spec => []NoChunkMissing`: whoever
  reads a task, at any moment, finds of each artifact its first chunks in order. It
  is the part of the argument for `StreamsWhole` that survives an interruption. A
  task need not hold whole artifacts, but what it holds grows from the front:
  `SteadyRun` says that the queue and the script of a busy run, stopped or not,
  only go on from it, and `ReadInOrder` that the task a cancel has read
  before its turn was in order as well, since the cancel may write it back.
* `MetadataStays`: if `Overlap = FALSE`, `Spec => []MetadataEchoed`. A later event
  could put the metadata off again; the invariant (`EchoInv`) says that the task of
  a cancel that is done has ended, and by `Final` none comes.

The three assumptions on the handlers, and the one on the servers
(`ServerAssumption`), are evaluated by TLC on the tables of the four agents
whenever it loads `MCAgentTasks`, so that the theorems hold of these agents.

The Rust agent, for any number of calls:

* `RustTypeCorrect`: `Spec => []TypeOK`.
* `CompletionBringsArtifacts`: `Spec => []StreamGetsArtifacts`. The invariant
  `Timed` says that a task with a timer has the name of its call, so that the call's
  stream listens to its completion and has ended once that was sent, and `Given` that
  a call that awaits a delayed completion has had a timer since it was answered, so
  that the SDK's own timer finds its stream ended.

The compatibility layer, for any requests and streams of any length:

* `AnsweredInItsDialect` and `MessageRoundTrip`. `TypeInv` carries both: it says
  of every result on its way, in the buffer, on the wire or in the reader's frame
  which message it quotes and which dialect it has, according to whether it has
  passed the translation.
* `RelaysSafely`: the safety half of `RelaysEvents`, initial states and steps. The
  invariant numbers the lines of a stream from its start: the data of result k is
  line 2k - 1, every other line is blank, and a client that has k results has read
  2k lines, or 2k + 1 when it is in a frame. It holds through the change of place
  (buffer, then wire) and the extra blank line of the translation.
* `HeldBack`: `Spec => []TypeOK`, whose content is that nothing of an answer that
  is translated reaches the wire before the handler has returned and nothing is
  kept back after, and that a client has no more results than were sent. That
  follows from the numbers of the lines; `Bounded` adds the bound on the events.

The chat, for any number of requests and events and any cap: all of the chat's
invariants, as `ChatTypeCorrect`, `SpinnersAreServed`, `GateIsRight`,
`StopHitsLiveStream`, `StoppedStaysStopped`, `BadNewsStays`, `OneAnswerEach`. They
rest on one invariant, `ChatInv`. Per request (`RequestInv`): one that has not
been sent, or waits for a plain answer, has no answer in the list; one with a
stream has only its bubble; a bubble that spins as working, or is shown completed,
has brought no bad news. For the chat (`GateInv`): two requests run at once only
if the user brought it about. The list is the difficult part: `OneAnswer` must
survive appending, cutting at the cap, cutting at a retry and the removal of a
bubble, each of which is a lemma about sequences (`Added`, `KeptIsPart`,
`StretchIsPart`, `BubbleGone`).

The rest of the page, for any agents, calls, flows, editors and modals:
`MessagesGoToCard`, `TokenStaysWithSelection`, `CodeIsPolled`,
`GoneEditorsStayGone`, `LastModalUnlocks`, `LockFollowsModals`, `PageTypeCorrect`.
For `MessagesGoToCard` the invariant says which agents a call that is under way
may ask (`CallsInv`) and that a readable card that names a URL is where a
connected page sends (`CardInv`). For `LockFollowsModals` the invariant `StackInv`
says that the stack holds each mounted modal once; a modal that closes may be
anywhere in it, and what is left without it is a lemma about `Without`, which
removes the one place the modal has. `PageTypeCorrect` rests on the invariants of
the three parts (`FieldsInv`, `TimerInv`, `SheetInv` and those above); the lemmas
of the connection are in `PlaygroundConnectionProofs`.

The harness, for any clients, labels and number of runs: `PagesStayHonest`. The
invariant `HarnessInv` says of the files and of the programs that were given up
that they belong to runs up to now, and that a straggler's run is marked late
(`FilesInv`); of the run at work which clients are still to come, what the file of a
program that wrote it may hold when an older program can write over it (`Wrote`),
and that the clients done with are shown honestly (`RunInv`); and of the pages that
they are of runs that are over and have their label (`PageInv`).

Every safety invariant and every action property of a passing run is stated by one
of these theorems. Only model-checked: liveness (`Settles`, `CancelEffective`,
`StreamsEnd`, `StoreCatchesUp`, `ChatUnlocks`, `DeviceFlowEnds`, `MountsSettle`,
`RunsEnd`) and the fairness half of the two refinements (`LifecycleSpec`,
`RelaysEvents`), which are beyond the prover, and what the findings' runs show.

## What is not modelled

* Playground: the pop-up flows of authorization code and OpenID Connect and the
  refresh of their tokens (they need a second window and the network), the mock
  agents one reaches by typing their URL, the highlighted entry of the list, the
  texts of forms, the log and the compliance checks, which only look; React, the
  Markdown renderer, the highlighter and the widgets, which are third-party code.
* Compatibility layer: `TranslateAgentCardResponse` and `TranslateAgentCardToV03`,
  which nothing calls.
* Harness: the TCK scripts, compliance reports and the statistics of the index,
  each of which reads files and writes one page; `--results-dir`.
* The stateless parts (echo agents, cards, routing), the wording of messages, push
  notifications and list operations (SDK only), client tests, infrastructure.

## Plan

1. Done: the agents (`AgentTasks` with its four tables), `TaskLifecycle`,
   `RustAgent`; the compatibility layer with `EventRelay`; the playground; the
   harness; their runs and the proofs above.
2. Turn identifiers by clock (`turn-<time>`), where two follow-ups can collide:
   then two turns share an artifact, and a property should count turns.
3. The pop-up flows of the playground.
