------------------------ MODULE PlaygroundConnection ------------------------
(***************************************************************************)
(* The connection store of the playground: the agent it talks to, the card *)
(* it shows, and the token its requests carry.  A call fetches the card of *)
(* the URL it was started with; its answer is applied to the store of the  *)
(* time it arrives.  A token request and a device-code flow answer for the *)
(* credentials they were started with, whatever was selected meanwhile.    *)
(*                                                                         *)
(* An agent stands for its URL and for a card that names it.  Which entry  *)
(* of the list is highlighted, the forms' texts, and the mock agents one   *)
(* reaches by typing their URL, are left out.                              *)
(***************************************************************************)
EXTENDS Naturals, FiniteSets

CONSTANTS Agents,        \* the agents of the list
          Nameless,      \* those whose card names no URL
          Clients,       \* those listed with client credentials but no token
          Keyed,         \* those listed with a token of their own
          NoAgent,       \* the empty URL, and no card
          Broken,        \* a text in the editor that is no card
          MaxCalls,      \* bound: card fetches of one behaviour
          MaxFlows       \* bound: device-code flows of one behaviour

ASSUME AgentsAssumption ==
  /\ Nameless \union Clients \union Keyed \subseteq Agents
  /\ Clients \intersect Keyed = {}
  /\ NoAgent \notin Agents /\ Broken \notin Agents
ASSUME CallsAssumption == MaxCalls \in Nat \ {0} /\ MaxFlows \in Nat \ {0}

Calls == 1 .. MaxCalls
Flows == 1 .. MaxFlows
Unstarted == [pc |-> "unsent", agent |-> NoAgent, clears |-> FALSE]
Answered == [Unstarted EXCEPT !.pc = "done"]

VARIABLES
  url,           \* the URL field
  messagingUrl,  \* where messages are sent
  status,        \* connectionStatus
  card,          \* what the editor holds, and the panels show
  calls,         \* per call: where it stands, the agent it asks, and whether
                 \* its failure clears the card
  selection,     \* the call of the last selection, 0 before the first
  token,         \* the selection whose credentials got the token, or None
  isTokenLoading,
  asks,          \* the selections with a token request under way
  code,          \* deviceCodeState: the flow whose code is shown, or 0
  expired,       \* that code has expired
  chain,         \* per flow: where its polling stands
  pollFor,       \* per flow: the selection its poll was sent for
  timer,         \* the flow whose timer Cancel would clear, or 0
  crossed        \* history: a selection was made while a token was on its way

connection == <<url, messagingUrl, status, card, calls, selection>>
device == <<code, expired, chain, pollFor, timer>>
connVars == <<connection, token, isTokenLoading, asks, device, crossed>>

None == MaxCalls + 1       \* no token
Selections == 0 .. MaxCalls
InFlight == {k \in Calls : calls[k].pc = "fetch"}
Pollers == {f \in Flows : chain[f] \in {"timer", "poll"}}
TokenUnderWay ==
  \/ asks # {}
  \/ \E f \in Flows : chain[f] \in {"starting", "timer", "poll"}
  \/ \E k \in Calls : calls[k].pc = "token"
Target == IF messagingUrl # NoAgent THEN messagingUrl ELSE url

ConnInit ==
  /\ url = NoAgent /\ messagingUrl = NoAgent /\ card = NoAgent
  /\ status = "disconnected"
  /\ calls = [k \in Calls |-> Unstarted]
  /\ selection = 0
  /\ token = None /\ isTokenLoading = FALSE /\ asks = {}
  /\ code = 0 /\ expired = FALSE /\ timer = 0
  /\ chain = [f \in Flows |-> "none"]
  /\ pollFor = [f \in Flows |-> 0]
  /\ crossed = FALSE

-----------------------------------------------------------------------------
(* Starting a connection.                                                  *)

IsNext(k) == \A j \in Calls : calls[j].pc = "unsent" <=> j >= k

\* connect, up to the await: it asks for the card of the URL it finds.
Connect(k, a, clears) ==
  /\ calls' = [calls EXCEPT ![k] = [pc |-> "fetch", agent |-> a, clears |-> clears]]
  /\ status' = "connecting"

OwnUrl(a) == IF a \in Nameless THEN messagingUrl ELSE a

ChooseKeepsToken(k, a) ==
  /\ IsNext(k)
  /\ url' = a /\ selection' = k
  /\ token' = token
  /\ crossed' = TokenUnderWay

\* The entry's URL and credentials replace the ones of the store.
Choose(k, a) ==
  /\ IsNext(k)
  /\ url' = a /\ selection' = k
  /\ token' = IF a \in Keyed THEN k ELSE None
  /\ crossed' = TokenUnderWay

\* A click on an agent; one with client credentials gets its token first.
Select(k, a) ==
  /\ Choose(k, a)
  /\ IF a \in Clients
     THEN /\ calls' = [calls EXCEPT ![k] = [pc |-> "token", agent |-> a, clears |-> TRUE]]
          /\ isTokenLoading' = TRUE /\ status' = status
     ELSE Connect(k, a, TRUE) /\ isTokenLoading' = isTokenLoading
  /\ UNCHANGED <<messagingUrl, card, asks, device>>

\* The token or its failure: connect runs with the URL of this moment, and
\* on an empty one it gives up, which empties the editor.
SelectGoesOn(k) ==
  /\ calls[k].pc = "token"
  /\ isTokenLoading' = FALSE
  /\ token' \in {token, k}
  /\ IF url = NoAgent
     THEN calls' = [calls EXCEPT ![k] = Answered] /\ card' = NoAgent /\ status' = status
     ELSE Connect(k, url, TRUE) /\ card' = card
  /\ UNCHANGED <<url, messagingUrl, selection, asks, device, crossed>>

\* The first thing the page does when the host page names an agent's URL...
HostConnect(k, a) ==
  /\ k = 1 /\ IsNext(k)
  /\ Connect(k, a, FALSE)
  /\ url' = a
  /\ UNCHANGED <<messagingUrl, card, selection, token, isTokenLoading, asks, device, crossed>>

\* ... or an entry of the list, which waits for no token.
HostSelect(k, a) ==
  /\ k = 1
  /\ Choose(k, a)
  /\ Connect(k, a, FALSE)
  /\ UNCHANGED <<messagingUrl, card, isTokenLoading, asks, device>>

\* The Connect button, for the URL in the field.
ConnectButton(k) ==
  /\ url \in Agents /\ IsNext(k)
  /\ Connect(k, url, FALSE)
  /\ UNCHANGED <<url, messagingUrl, card, selection, token, isTokenLoading, asks, device, crossed>>

EditUrl(a) ==
  /\ url # a
  /\ url' = a
  /\ UNCHANGED <<messagingUrl, status, card, calls, selection, token, isTokenLoading, asks,
                 device, crossed>>

-----------------------------------------------------------------------------
(* The answers.                                                            *)

CardArrivesForUrl(k) ==
  /\ k \in InFlight
  /\ calls' = [calls EXCEPT ![k] = Answered]
  /\ status' = "connected"
  /\ card' = calls[k].agent
  /\ messagingUrl' = OwnUrl(url)
  /\ UNCHANGED <<url, selection, token, isTokenLoading, asks, device, crossed>>

\* The card and its URL are those of the agent asked, whatever was selected
\* since; a card without a URL leaves the messaging URL as it was.
CardArrives(k) ==
  /\ k \in InFlight
  /\ calls' = [calls EXCEPT ![k] = Answered]
  /\ status' = "connected"
  /\ card' = calls[k].agent
  /\ messagingUrl' = OwnUrl(calls[k].agent)
  /\ UNCHANGED <<url, selection, token, isTokenLoading, asks, device, crossed>>

CardFails(k) ==
  /\ k \in InFlight
  /\ calls' = [calls EXCEPT ![k] = Answered]
  /\ status' = "error"
  /\ card' = IF calls[k].clears THEN NoAgent ELSE card
  /\ UNCHANGED <<url, messagingUrl, selection, token, isTokenLoading, asks, device, crossed>>

\* Disconnect leaves the card, the credentials and the flows alone.
Disconnect ==
  /\ status = "connected"
  /\ status' = "disconnected"
  /\ messagingUrl' = NoAgent
  /\ isTokenLoading' = FALSE
  /\ UNCHANGED <<url, card, calls, selection, token, asks, device, crossed>>

\* The editor emptied by hand, or by its Reset.
ClearCard ==
  /\ card' = NoAgent /\ url' = NoAgent
  /\ status' = "disconnected"
  /\ messagingUrl' = NoAgent
  /\ isTokenLoading' = FALSE
  /\ UNCHANGED <<calls, selection, token, asks, device, crossed>>

\* An edit after which the text is a card, perhaps one that names another URL.
EditCard(a) ==
  /\ card' = a
  /\ messagingUrl' = OwnUrl(a)
  /\ UNCHANGED <<url, status, calls, selection, token, isTokenLoading, asks, device, crossed>>

\* An edit after which it is none: only the card goes.
BreakCard ==
  /\ card' = Broken
  /\ UNCHANGED <<url, messagingUrl, status, calls, selection, token, isTokenLoading, asks,
                 device, crossed>>

-----------------------------------------------------------------------------
(* Tokens: the client-credentials request, and the device-code flow.       *)

RequestToken ==
  /\ card \in Agents /\ ~isTokenLoading
  /\ isTokenLoading' = TRUE
  /\ asks' = asks \union {selection}
  /\ UNCHANGED <<connection, token, device, crossed>>

\* The answer writes back the credentials the request was made with.
TokenAnswers(s) ==
  /\ s \in asks
  /\ asks' = asks \ {s}
  /\ isTokenLoading' = FALSE
  /\ token' \in {token, s}
  /\ UNCHANGED <<connection, device, crossed>>

StartDeviceCode(f) ==
  /\ card \in Agents /\ ~isTokenLoading /\ code = 0
  /\ \A g \in Flows : chain[g] = "none" <=> g >= f
  /\ isTokenLoading' = TRUE
  /\ chain' = [chain EXCEPT ![f] = "starting"]
  /\ UNCHANGED <<connection, token, asks, code, expired, pollFor, timer, crossed>>

DeviceCodeStarts(f) ==
  /\ chain[f] = "starting"
  /\ isTokenLoading' = FALSE
  /\ \/ /\ chain' = [chain EXCEPT ![f] = "timer"]
        /\ code' = f /\ expired' = FALSE /\ timer' = f
     \/ /\ chain' = [chain EXCEPT ![f] = "ended"]
        /\ UNCHANGED <<code, expired, timer>>
  /\ UNCHANGED <<connection, token, asks, pollFor, crossed>>

CodeExpires ==
  /\ code # 0 /\ ~expired
  /\ expired' = TRUE
  /\ UNCHANGED <<connection, token, isTokenLoading, asks, code, chain, pollFor, timer, crossed>>

EndChainKeepsTimer(f) ==
  /\ chain' = [chain EXCEPT ![f] = "ended"]
  /\ pollFor' = [pollFor EXCEPT ![f] = 0]
  /\ timer' = timer

EndChain(f) ==
  /\ chain' = [chain EXCEPT ![f] = "ended"]
  /\ pollFor' = [pollFor EXCEPT ![f] = 0]
  /\ timer' = 0

FireIgnoresExpiry(f) ==
  /\ chain[f] = "timer"
  /\ IF code = 0
     THEN EndChain(f) /\ UNCHANGED <<code, expired>>
     ELSE /\ chain' = [chain EXCEPT ![f] = "poll"]
          /\ pollFor' = [pollFor EXCEPT ![f] = selection]
          /\ UNCHANGED <<code, expired, timer>>
  /\ UNCHANGED <<connection, token, isTokenLoading, asks, crossed>>

\* The timer of a chain polls for the code of the moment, even of another flow.
Fire(f) ==
  /\ chain[f] = "timer"
  /\ IF code = 0 \/ expired
     THEN EndChain(f) /\ code' = 0 /\ expired' = FALSE
     ELSE /\ chain' = [chain EXCEPT ![f] = "poll"]
          /\ pollFor' = [pollFor EXCEPT ![f] = selection]
          /\ UNCHANGED <<code, expired, timer>>
  /\ UNCHANGED <<connection, token, isTokenLoading, asks, crossed>>

PollPendingStops(f) ==
  /\ chain[f] = "poll"
  /\ EndChain(f)
  /\ UNCHANGED <<connection, token, isTokenLoading, asks, code, expired, crossed>>

\* Pending, slow down, or no answer: another timer.
PollPending(f) ==
  /\ chain[f] = "poll"
  /\ chain' = [chain EXCEPT ![f] = "timer"]
  /\ pollFor' = [pollFor EXCEPT ![f] = 0]
  /\ timer' = f
  /\ UNCHANGED <<connection, token, isTokenLoading, asks, code, expired, crossed>>

\* A token or a refusal: the code goes, whichever flow it is of.
PollEnds(f) ==
  /\ chain[f] = "poll"
  /\ token' \in {token, pollFor[f]}
  /\ EndChain(f)
  /\ code' = 0 /\ expired' = FALSE
  /\ UNCHANGED <<connection, isTokenLoading, asks, crossed>>

\* Cancel clears the timer it knows of; a poll under way it cannot.
CancelDeviceCode ==
  /\ code # 0
  /\ code' = 0 /\ expired' = FALSE
  /\ timer' = 0
  /\ chain' = IF timer # 0 /\ chain[timer] = "timer"
              THEN [chain EXCEPT ![timer] = "ended"] ELSE chain
  /\ UNCHANGED <<connection, token, isTokenLoading, asks, pollFor, crossed>>

-----------------------------------------------------------------------------
ConnUser ==
  \/ \E k \in Calls, a \in Agents : Select(k, a) \/ HostConnect(k, a) \/ HostSelect(k, a)
  \/ \E k \in Calls : ConnectButton(k)
  \/ \E a \in Agents \union {NoAgent} : EditUrl(a)
  \/ \E a \in Agents : EditCard(a)
  \/ Disconnect \/ ClearCard \/ BreakCard
  \/ RequestToken \/ CancelDeviceCode
  \/ \E f \in Flows : StartDeviceCode(f)

Polls(f) == DeviceCodeStarts(f) \/ Fire(f) \/ PollPending(f) \/ PollEnds(f)

ConnNext ==
  \/ ConnUser
  \/ \E k \in Calls : CardArrives(k) \/ CardFails(k) \/ SelectGoesOn(k)
  \/ \E s \in Selections : TokenAnswers(s)
  \/ \E f \in Flows : Polls(f)
  \/ CodeExpires

\* A timer fires, a poll is answered, and time passes.
ConnFairness ==
  /\ WF_connVars(CodeExpires)
  /\ \A f \in Flows : WF_device(Polls(f))

-----------------------------------------------------------------------------
ConnTypeOK ==
  /\ {url, messagingUrl} \subseteq Agents \union {NoAgent}
  /\ card \in Agents \union {NoAgent, Broken}
  /\ status \in {"disconnected", "connecting", "connected", "error"}
  /\ calls \in [Calls -> [pc : {"unsent", "token", "fetch", "done"}, agent : Agents \union {NoAgent},
                          clears : BOOLEAN]]
  /\ selection \in Selections /\ token \in Selections \union {None}
  /\ asks \subseteq Selections
  /\ {isTokenLoading, expired, crossed} \subseteq BOOLEAN
  /\ chain \in [Flows -> {"none", "starting", "timer", "poll", "ended"}]
  /\ pollFor \in [Flows -> Selections]
  /\ code \in Flows \union {0} /\ timer \in Flows \union {0}
  /\ expired => code # 0
  /\ timer # 0 => timer \in Pollers     \* Cancel knows of no dead timer

(* While the page says it is connected, messages go to the agent whose card*)
(* it shows, if that card names a URL: however selections, late cards,     *)
(* tokens, edits, resets and disconnects interleave, the URL field never   *)
(* decides where they go, and no card leaves its URL to the next one.      *)
MessagesFollowCard ==
  status = "connected" /\ card \in Agents \ Nameless => Target = card

(* A token is never carried over to another agent: after a selection the   *)
(* store holds none of an earlier one, unless a request or a flow of that  *)
(* one was still under way when the selection was made.                    *)
TokenOfThisSelection == token # None /\ ~crossed => token = selection

(* While a device code is shown somebody polls for it: no way through      *)
(* cancels, restarts and late answers leaves a code that only waits.       *)
CodeHasPoller == code # 0 => Pollers # {}

(* A device code does not stay on the page for ever: it is answered,       *)
(* cancelled or expires, provided timers fire and polls are answered.      *)
DeviceFlowEnds == code # 0 ~> code = 0
=============================================================================
