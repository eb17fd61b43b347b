--------------------------- MODULE PlaygroundChat ---------------------------
(***************************************************************************)
(* The chat of the A2A playground, the page of docs/ that talks to the     *)
(* agents from a browser: the chat store, the streaming client it reads    *)
(* the agent's events with, and the buttons that drive both.               *)
(*                                                                         *)
(* A request is the number of a send.  Its phase is where its async        *)
(* function stands: "post" waits for the response of a streaming call,     *)
(* "read" reads its events, "plain" waits for a call without streaming and *)
(* "fallback" for the plain call that replaces a stream that would not     *)
(* open.  JavaScript runs one callback at a time: what a callback does up  *)
(* to its next await is one action.                                        *)
(***************************************************************************)
EXTENDS Naturals, Sequences, FiniteSets, SequencesExt

CONSTANTS MaxRequests,   \* bound: requests of one behaviour
          MaxEvents,     \* bound: events the agent sends on one stream
          Cap            \* messages the page keeps (200 in the code)

ASSUME MaxRequestsAssumption == MaxRequests \in Nat \ {0}
ASSUME MaxEventsAssumption == MaxEvents \in Nat
ASSUME CapAssumption == Cap \in Nat \ {0, 1}

Requests == 1 .. MaxRequests
None == 0   \* no request: the null of contextId and of the controller

Kinds == {"stream", "plain", "mock"}
Running == {"post", "read", "plain", "fallback"}
Phases == {"unsent", "done"} \union Running
Unhappy == {"failed", "input-required"}
Said == {"nothing", "working", "completed"} \union Unhappy
Statuses == {"working", "completed", "canceled"} \union Unhappy

VARIABLES
  messages,     \* the list shown, <<request, kind of message>>
  bubble,       \* per request: the message a stream writes to
  isStreaming,  \* the flag that disables the send button
  contextId,    \* the conversation: the request whose answer named it
  controller,   \* the request whose abort controller Stop would use
  phase,        \* per request, see above
  events,       \* per request: events read so far
  aborted,      \* the requests whose controller was aborted
  said,         \* history: the state the agent last reported, per request
  disturbed     \* history: the requests that ran while the user cleared the
                \* chat, retried, or had another request sent

store == <<messages, bubble, isStreaming, contextId, controller>>
calls == <<phase, events, aborted>>
history == <<said, disturbed>>
vars == <<store, calls, history>>

InFlight == {r \in Requests : phase[r] \in Running}
Shown(list, r, kind) == \E i \in DOMAIN list : list[i] = <<r, kind>>

KeptUncut(list) == list

Kept(list) ==
  IF Len(list) > Cap THEN SubSeq(list, Len(list) - Cap + 1, Len(list)) ELSE list

\* The filter on the identifier: no two messages have the same.
Without(list, m) == RemoveAt(list, CHOOSE i \in DOMAIN list : list[i] = m)

Init ==
  /\ messages = <<>>
  /\ bubble = [r \in Requests |-> [status |-> "working", streaming |-> FALSE]]
  /\ isStreaming = FALSE
  /\ contextId = None
  /\ controller = None
  /\ phase = [r \in Requests |-> "unsent"]
  /\ events = [r \in Requests |-> 0]
  /\ aborted = {}
  /\ said = [r \in Requests |-> "nothing"]
  /\ disturbed = {}

-----------------------------------------------------------------------------
(* Sending: the part of sendMessage and sendRawRequest up to the first     *)
(* await.  A mock agent answers in the page, without one.                  *)

\* A write to the bubble of r: the store drops it when the bubble is gone.
SetBubble(r, b) ==
  bubble' = IF Shown(messages, r, "bubble") THEN [bubble EXCEPT ![r] = b] ELSE bubble

Disturb(r) == disturbed' = disturbed \union (IF InFlight = {} THEN {} ELSE InFlight \union {r})

SendStream(list, r) ==
  /\ messages' = Kept(list \o <<<<r, "question">>, <<r, "bubble">>>>)
  /\ bubble' = [bubble EXCEPT ![r].streaming = TRUE]
  /\ controller' = r
  /\ phase' = [phase EXCEPT ![r] = "post"]
  /\ isStreaming' = TRUE
  /\ UNCHANGED contextId

SendPlain(list, r) ==
  /\ messages' = Kept(Append(list, <<r, "question">>))
  /\ phase' = [phase EXCEPT ![r] = "plain"]
  /\ isStreaming' = TRUE
  /\ UNCHANGED <<bubble, controller, contextId>>

SendMock(list, r) ==
  /\ phase' = [phase EXCEPT ![r] = "done"]
  /\ isStreaming' = FALSE
  /\ \/ /\ messages' = Kept(list \o <<<<r, "question">>, <<r, "reply">>>>)
        /\ contextId' = r
     \/ /\ messages' = Kept(list \o <<<<r, "question">>, <<r, "error">>>>)
        /\ UNCHANGED contextId
  /\ UNCHANGED <<bubble, controller>>

Send(list, r, kind) ==
  /\ \A q \in Requests : phase[q] = "unsent" <=> q >= r   \* r is the next request
  /\ Disturb(r)
  /\ CASE kind = "stream" -> SendStream(list, r)
       [] kind = "plain"  -> SendPlain(list, r)
       [] kind = "mock"   -> SendMock(list, r)
  /\ UNCHANGED <<events, aborted, said>>

SendMessage(r, kind) ==
  /\ ~isStreaming
  /\ Send(messages, r, kind)

\* Resending an edited request of the log does not look at isStreaming.
SendRaw(r, kind) ==
  /\ kind # "mock"
  /\ Send(messages, r, kind)

\* An edited request whose body has no message parts.
SendRawInvalid ==
  /\ messages' = Kept(Append(messages, <<None, "error">>))
  /\ UNCHANGED <<bubble, isStreaming, contextId, controller, calls, history>>

\* Retry drops the question and what follows, then sends it again; while
\* isStreaming holds, the second half returns at once.
Retry(i, r, kind) ==
  /\ i \in DOMAIN messages /\ messages[i][2] = "question"
  /\ ~isStreaming
  /\ Send(SubSeq(messages, 1, i - 1), r, kind)

RetryWhileStreaming(i) ==
  /\ i \in DOMAIN messages /\ messages[i][2] = "question"
  /\ isStreaming
  /\ messages' = SubSeq(messages, 1, i - 1)
  /\ disturbed' = disturbed \union InFlight
  /\ UNCHANGED <<bubble, isStreaming, contextId, controller, calls, said>>

\* Clear, and the selection of another agent.
ClearChat ==
  /\ messages' = <<>>
  /\ contextId' = None
  /\ isStreaming' = FALSE
  /\ disturbed' = disturbed \union InFlight
  /\ UNCHANGED <<bubble, controller, calls, said>>

\* The Stop button.
CancelStream ==
  /\ isStreaming
  /\ controller # None
  /\ aborted' = aborted \union {controller}
  /\ controller' = None
  /\ UNCHANGED <<messages, bubble, isStreaming, contextId, phase, events, history>>

-----------------------------------------------------------------------------
(* A streaming call: the response opens, events arrive, the stream ends,   *)
(* breaks, or is aborted.  An aborted fetch delivers nothing more.         *)

ListeningToAborted(r) == phase[r] \in {"post", "read"}
Listening(r) == phase[r] \in {"post", "read"} /\ r \notin aborted

FinishLocked(r) ==
  /\ events' = [events EXCEPT ![r] = 0]
  /\ phase' = [phase EXCEPT ![r] = "done"]
  /\ controller' = IF controller = r THEN None ELSE controller
  /\ UNCHANGED isStreaming

FinishKeepsController(r) ==
  /\ events' = [events EXCEPT ![r] = 0]
  /\ phase' = [phase EXCEPT ![r] = "done"]
  /\ isStreaming' = FALSE
  /\ UNCHANGED controller

\* The finally blocks of the stream and of the send.  How many events were
\* read no longer matters.
Finish(r) ==
  /\ events' = [events EXCEPT ![r] = 0]
  /\ phase' = [phase EXCEPT ![r] = "done"]
  /\ isStreaming' = FALSE
  /\ controller' = IF controller = r THEN None ELSE controller

StreamOpens(r) ==
  /\ phase[r] = "post" /\ Listening(r)
  /\ phase' = [phase EXCEPT ![r] = "read"]
  /\ UNCHANGED <<store, events, aborted, history>>

StreamRefusedKeepsBubble(r) ==
  /\ Listening(r) /\ events[r] = 0
  /\ phase' = [phase EXCEPT ![r] = "fallback"]
  /\ UNCHANGED <<store, events, aborted, history>>

\* The response is an error, has no body, or the stream breaks before its
\* first event: the empty bubble goes and the call is made without streaming.
StreamRefused(r) ==
  /\ Listening(r) /\ events[r] = 0
  /\ IF Shown(messages, r, "bubble")
     THEN /\ messages' = Without(messages, <<r, "bubble">>)
          /\ phase' = [phase EXCEPT ![r] = "fallback"]
          /\ UNCHANGED <<isStreaming, controller, events>>
     ELSE /\ Finish(r)
          /\ UNCHANGED messages
  /\ UNCHANGED <<bubble, contextId, aborted, history>>

\* The agent sends in the order of the task's life cycle: after a state that
\* ends the stream it reports no other.
MayReport(r) ==
  /\ phase[r] = "read" /\ Listening(r)
  /\ events[r] < MaxEvents
  /\ said[r] \in {"nothing", "working"}

Read(r) == events' = [events EXCEPT ![r] = @ + 1]

StatusUpdate(r, state) ==
  /\ MayReport(r)
  /\ Read(r)
  /\ said' = [said EXCEPT ![r] = state]
  /\ SetBubble(r, [bubble[r] EXCEPT !.status = state])
  /\ contextId' = r
  /\ UNCHANGED <<messages, isStreaming, controller, phase, aborted, disturbed>>

ArtifactUpdate(r) ==
  /\ MayReport(r)
  /\ Read(r)
  /\ contextId' = r
  /\ UNCHANGED <<messages, bubble, isStreaming, controller, phase, aborted, history>>

\* A whole task ends the bubble's spinner whatever its state, and its state
\* is shown only when it has parts.
TaskEvent(r, state, withParts) ==
  /\ MayReport(r)
  /\ Read(r)
  /\ said' = [said EXCEPT ![r] = state]
  /\ SetBubble(r, [status |-> IF withParts THEN state ELSE bubble[r].status,
                   streaming |-> FALSE])
  /\ contextId' = IF withParts THEN r ELSE contextId
  /\ UNCHANGED <<messages, isStreaming, controller, phase, aborted, disturbed>>

\* A JSON-RPC error in the stream; reading goes on.
ErrorEvent(r) ==
  /\ MayReport(r)
  /\ Read(r)
  /\ said' = [said EXCEPT ![r] = "failed"]
  /\ SetBubble(r, [status |-> "failed", streaming |-> FALSE])
  /\ UNCHANGED <<messages, isStreaming, contextId, controller, phase, aborted, disturbed>>

\* A message, or data that is not JSON: read, and shown nowhere.
OtherEvent(r) ==
  /\ MayReport(r)
  /\ Read(r)
  /\ UNCHANGED <<store, phase, aborted, history>>

StreamEndsCompleted(r) ==
  /\ phase[r] = "read" /\ Listening(r)
  /\ SetBubble(r, [bubble[r] EXCEPT !.streaming = FALSE, !.status = "completed"])
  /\ Finish(r)
  /\ UNCHANGED <<messages, contextId, aborted, history>>

\* The end of the stream settles a bubble that still spins.
StreamEnds(r) ==
  /\ phase[r] = "read" /\ Listening(r)
  /\ SetBubble(r, IF bubble[r].streaming
                  THEN [bubble[r] EXCEPT !.streaming = FALSE,
                          !.status = IF @ = "working" THEN "completed" ELSE @]
                  ELSE bubble[r])
  /\ Finish(r)
  /\ UNCHANGED <<messages, contextId, aborted, history>>

FailedStillSpinning(b) == [b EXCEPT !.status = "failed"]
Failed(b) == [b EXCEPT !.status = "failed", !.streaming = FALSE]

\* Once an event was read, a break is an error shown in the bubble.
StreamBreaks(r) ==
  /\ phase[r] = "read" /\ Listening(r) /\ events[r] > 0
  /\ SetBubble(r, Failed(bubble[r]))
  /\ Finish(r)
  /\ UNCHANGED <<messages, contextId, aborted, history>>

\* An abort after the first event is such a break.
StreamAborted(r) ==
  /\ phase[r] \in {"post", "read"} /\ r \in aborted
  /\ SetBubble(r, IF events[r] > 0 THEN Failed(bubble[r])
                  ELSE [bubble[r] EXCEPT !.status = "canceled", !.streaming = FALSE])
  /\ Finish(r)
  /\ UNCHANGED <<messages, contextId, aborted, history>>

-----------------------------------------------------------------------------
(* A call without streaming: of its own, or after a refused stream.        *)

PlainAnswersSilentReturn(r) ==
  /\ phase[r] \in {"plain", "fallback"}
  /\ phase' = [phase EXCEPT ![r] = "done"]
  /\ \/ /\ messages' = Kept(Append(messages, <<r, "reply">>))
        /\ contextId' = r
        /\ isStreaming' = FALSE
     \/ UNCHANGED <<messages, contextId, isStreaming>>
  /\ UNCHANGED <<bubble, controller, events, aborted, history>>

PlainAnswers(r) ==
  /\ phase[r] \in {"plain", "fallback"}
  /\ \/ /\ messages' = Kept(Append(messages, <<r, "reply">>))
        /\ contextId' = r
     \/ UNCHANGED <<messages, contextId>>      \* a reply without parts: nothing is shown
     \/ /\ messages' = Kept(Append(messages, <<r, "error">>))
        /\ UNCHANGED contextId
  /\ Finish(r)
  /\ UNCHANGED <<bubble, aborted, history>>

-----------------------------------------------------------------------------
User ==
  \/ \E r \in Requests, kind \in Kinds :
       \/ SendMessage(r, kind)
       \/ SendRaw(r, kind)
       \/ \E i \in 1 .. Cap : Retry(i, r, kind)
  \/ \E i \in 1 .. Cap : RetryWhileStreaming(i)
  \/ SendRawInvalid \/ ClearChat \/ CancelStream

Report(r) ==
  \/ \E state \in {"working", "completed"} \union Unhappy :
       StatusUpdate(r, state) \/ \E withParts \in BOOLEAN : TaskEvent(r, state, withParts)
  \/ ArtifactUpdate(r) \/ ErrorEvent(r) \/ OtherEvent(r)

\* What ends a wait for the network: the agent's answer, its end, a failure.
Network(r) ==
  \/ StreamOpens(r) \/ StreamRefused(r) \/ StreamEnds(r)
  \/ StreamBreaks(r) \/ StreamAborted(r) \/ PlainAnswers(r)

Next == User \/ \E r \in Requests : Report(r) \/ Network(r)

\* The user owes nothing; every fetch ends in an answer, an end or a failure.
Fairness == \A r \in Requests : WF_vars(Network(r))
Spec == Init /\ [][Next]_vars
FairSpec == Spec /\ Fairness

-----------------------------------------------------------------------------
TypeOK ==
  /\ Len(messages) <= Cap
  /\ \A i \in DOMAIN messages :
       messages[i] \in (Requests \union {None}) \X {"question", "bubble", "reply", "error"}
  /\ bubble \in [Requests -> [status : Statuses, streaming : BOOLEAN]]
  /\ isStreaming \in BOOLEAN
  /\ contextId \in Requests \union {None} /\ controller \in Requests \union {None}
  /\ phase \in [Requests -> Phases]
  /\ events \in [Requests -> 0 .. MaxEvents]
  /\ said \in [Requests -> Said]
  /\ aborted \subseteq Requests /\ disturbed \subseteq Requests

(* A bubble on the page never spins without a stream behind it: every way  *)
(* out of the streaming call, and every interleaving with clear, retry and *)
(* resend, settles it or takes it away.                                    *)
SpinnerHasStream ==
  \A r \in Requests :
    Shown(messages, r, "bubble") /\ bubble[r].streaming => phase[r] \in {"post", "read"}

(* The send button follows the requests: nothing running means it is       *)
(* enabled, and it is enabled over a running request only when that one    *)
(* ran while the user cleared, retried or resent.                          *)
GateMatchesRequests ==
  /\ InFlight = {} => ~isStreaming
  /\ ~isStreaming => InFlight \subseteq disturbed

(* The controller Stop would abort belongs to a request that still runs,   *)
(* was not stopped before, and is the last stream that was started: a      *)
(* request never leaves its controller behind for the next one.            *)
ControllerIsLive ==
  controller # None =>
    /\ phase[controller] \in {"post", "read", "fallback"}
    /\ controller \notin aborted
    /\ \A q \in Requests : q > controller => phase[q] \notin {"post", "read", "fallback"}

(* A stream the user stopped never ends as completed: its bubble says      *)
(* canceled, or failed when events had already been read.                  *)
StoppedNeverCompletes ==
  \A r \in aborted :
    Shown(messages, r, "bubble") /\ phase[r] = "done" => bubble[r].status \in {"canceled", "failed"}

(* The page never shows as completed a task whose agent last reported that *)
(* it failed or wants input: the "completed" given to a stream that just   *)
(* ends is for tasks the agent left working.                               *)
BadNewsIsShown ==
  \A r \in Requests : bubble[r].status = "completed" => said[r] \notin Unhappy

(* One question has at most one answer on the page: a stream that falls    *)
(* back, fails or is stopped leaves one message, never a bubble and a      *)
(* reply or an error.                                                      *)
AtMostOneAnswer ==
  \A r \in Requests :
    Cardinality({i \in DOMAIN messages : messages[i][1] = r /\ messages[i][2] # "question"}) <= 1

(* Whatever the user does, the chat does not stay locked: a disabled send  *)
(* button is enabled again, provided every fetch ends.                     *)
ChatUnlocks == isStreaming ~> ~isStreaming
=============================================================================
