---------------------- MODULE PlaygroundConnectionProofs ----------------------
(***************************************************************************)
(* Proofs about PlaygroundConnection, for any agents and any number of     *)
(* calls and device-code flows: each invariant holds at the start and is   *)
(* kept by every step.                                                     *)
(***************************************************************************)
EXTENDS PlaygroundConnection, TLAPS

ChainType ==
  /\ chain \in [Flows -> {"none", "starting", "timer", "poll", "ended"}]
  /\ code \in Flows \union {0}

LEMMA FlowsType == 0 \notin Flows /\ MaxFlows \in Nat /\ \A f \in Flows : f \in Nat
  BY CallsAssumption DEF Flows

-----------------------------------------------------------------------------
(* Polling.  That somebody polls is not inductive: somebody else might end.*)
(* The flow whose code is shown polls itself.                              *)

PollingInv == ChainType /\ (code # 0 => chain[code] \in {"timer", "poll"})

LEMMA PollingInit == ConnInit => PollingInv
  BY FlowsType DEF ConnInit, PollingInv, ChainType

LEMMA PollingImplies == PollingInv => CodeHasPoller
  BY DEF PollingInv, ChainType, CodeHasPoller, Pollers

LEMMA PollingNext == PollingInv /\ [ConnNext]_connVars => PollingInv'
  <1> SUFFICES ASSUME PollingInv, [ConnNext]_connVars PROVE PollingInv'
    OBVIOUS
  <1> USE FlowsType DEF PollingInv, ChainType
  <1>0. ASSUME UNCHANGED <<code, chain>> PROVE PollingInv'
    BY <1>0
  <1>1. ASSUME NEW k \in Calls, NEW a \in Agents, Select(k, a) \/ HostConnect(k, a) \/ HostSelect(k, a)
        PROVE PollingInv'
    BY <1>0, <1>1 DEF Select, HostConnect, HostSelect, device
  <1>2. ASSUME NEW k \in Calls, ConnectButton(k) \/ CardArrives(k) \/ CardFails(k) \/ SelectGoesOn(k)
        PROVE PollingInv'
    BY <1>0, <1>2 DEF ConnectButton, CardArrives, CardFails, SelectGoesOn, device
  <1>3. ASSUME NEW a, EditUrl(a) \/ EditCard(a) PROVE PollingInv'
    BY <1>0, <1>3 DEF EditUrl, EditCard, device
  <1>4. CASE Disconnect \/ ClearCard \/ BreakCard \/ RequestToken
    BY <1>0, <1>4 DEF Disconnect, ClearCard, BreakCard, RequestToken, device
  <1>5. CASE CancelDeviceCode
    BY <1>5 DEF CancelDeviceCode
  <1>6. ASSUME NEW f \in Flows, StartDeviceCode(f) PROVE PollingInv'
    BY <1>6 DEF StartDeviceCode
  <1>7. ASSUME NEW s \in Selections, TokenAnswers(s) PROVE PollingInv'
    BY <1>0, <1>7 DEF TokenAnswers, device
  <1>8. ASSUME NEW f \in Flows, DeviceCodeStarts(f) PROVE PollingInv'
    BY <1>8 DEF DeviceCodeStarts
  <1>9. ASSUME NEW f \in Flows, Fire(f) PROVE PollingInv'
    BY <1>9 DEF Fire, EndChain
  <1>10. ASSUME NEW f \in Flows, PollPending(f) PROVE PollingInv'
    BY <1>10 DEF PollPending
  <1>11. ASSUME NEW f \in Flows, PollEnds(f) PROVE PollingInv'
    BY <1>11 DEF PollEnds, EndChain
  <1>12. CASE CodeExpires
    BY <1>0, <1>12 DEF CodeExpires
  <1>13. CASE UNCHANGED connVars
    BY <1>0, <1>13 DEF connVars, device
  <1> QED
    BY <1>1, <1>2, <1>3, <1>4, <1>5, <1>6, <1>7, <1>8, <1>9, <1>10, <1>11, <1>12, <1>13
       DEF ConnNext, ConnUser, Polls

-----------------------------------------------------------------------------
(* The calls and the card.  A call asks an agent, and a page that is       *)
(* connected has the messaging URL of its card.                            *)

CallType == [pc : {"unsent", "token", "fetch", "done"}, agent : Agents \union {NoAgent},
             clears : BOOLEAN]

CallsInv ==
  /\ calls \in [Calls -> CallType]
  /\ url \in Agents \union {NoAgent}
  /\ \A k \in Calls : calls[k].pc = "fetch" => calls[k].agent \in Agents

CardInv == CallsInv /\ (status = "connected" /\ card \in Agents \ Nameless => messagingUrl = card)

LEMMA CardInit == ConnInit => CardInv
  <1> SUFFICES ASSUME ConnInit PROVE CardInv
    OBVIOUS
  <1>1. Unstarted \in CallType /\ Unstarted.pc = "unsent"
    BY DEF Unstarted, CallType
  <1>2. calls \in [Calls -> CallType] /\ \A k \in Calls : calls[k].pc = "unsent"
    BY <1>1 DEF ConnInit
  <1> QED BY <1>2 DEF ConnInit, CardInv, CallsInv

LEMMA CardImplies == CardInv => MessagesFollowCard
  BY AgentsAssumption DEF CardInv, MessagesFollowCard, Target

\* Replacing one call.
LEMMA CallsReplaced ==
    ASSUME CallsInv, NEW k \in Calls, NEW call \in CallType,
           call.pc = "fetch" => call.agent \in Agents,
           calls' = [calls EXCEPT ![k] = call], url' \in Agents \union {NoAgent}
    PROVE  CallsInv' /\ \A l \in Calls : calls'[l] = IF l = k THEN call ELSE calls[l]
  <1>1. calls' \in [Calls -> CallType] /\ \A l \in Calls : calls'[l] = IF l = k THEN call ELSE calls[l]
    BY DEF CallsInv
  <1> QED BY <1>1 DEF CallsInv

LEMMA AnsweredType == Answered \in CallType /\ Answered.pc = "done"
  BY DEF Answered, Unstarted, CallType

\* A step of the store replaces one call at most.
LEMMA CallsNext == CallsInv /\ [ConnNext]_connVars => CallsInv'
  <1> SUFFICES ASSUME CallsInv, [ConnNext]_connVars PROVE CallsInv'
    OBVIOUS
  <1>0. ASSUME calls' = calls, url' \in Agents \union {NoAgent} PROVE CallsInv'
    BY <1>0 DEF CallsInv
  <1>c. ASSUME NEW k \in Calls, NEW a \in Agents, NEW clears \in BOOLEAN, Connect(k, a, clears),
               url' \in Agents \union {NoAgent}
        PROVE CallsInv'
    <2>1. [pc |-> "fetch", agent |-> a, clears |-> clears] \in CallType
      BY DEF CallType
    <2> QED BY <1>c, <2>1, CallsReplaced DEF Connect
  <1>1. ASSUME NEW k \in Calls, NEW a \in Agents, Select(k, a) PROVE CallsInv'
    <2>1. CASE a \in Clients
      <3>1. [pc |-> "token", agent |-> a, clears |-> TRUE] \in CallType
        BY DEF CallType
      <3> QED BY <1>1, <2>1, <3>1, CallsReplaced DEF Select, Choose
    <2>2. CASE a \notin Clients
      BY <1>1, <1>c, <2>2 DEF Select, Choose
    <2> QED BY <2>1, <2>2
  <1>2. ASSUME NEW k \in Calls, NEW a \in Agents, HostConnect(k, a) \/ HostSelect(k, a) PROVE CallsInv'
    BY <1>2, <1>c DEF HostConnect, HostSelect, Choose
  <1>3. ASSUME NEW k \in Calls, ConnectButton(k) PROVE CallsInv'
    <2>1. url \in Agents /\ Connect(k, url, FALSE) /\ url' = url
      BY <1>3 DEF ConnectButton
    <2> QED BY <2>1, <1>c
  <1>4. ASSUME NEW k \in Calls, CardArrives(k) \/ CardFails(k) PROVE CallsInv'
    <2>1. calls' = [calls EXCEPT ![k] = Answered] /\ url' = url
      BY <1>4 DEF CardArrives, CardFails
    <2> QED BY <2>1, AnsweredType, CallsReplaced DEF CallsInv
  <1>5. ASSUME NEW k \in Calls, SelectGoesOn(k) PROVE CallsInv'
    <2>1. url' = url /\ url \in Agents \union {NoAgent}
      BY <1>5 DEF SelectGoesOn, CallsInv
    <2>2. CASE url = NoAgent
      BY <1>5, <2>1, <2>2, AnsweredType, CallsReplaced DEF SelectGoesOn
    <2>3. CASE url # NoAgent
      <3>1. url \in Agents /\ Connect(k, url, TRUE)
        BY <1>5, <2>1, <2>3 DEF SelectGoesOn
      <3> QED BY <2>1, <3>1, <1>c
    <2> QED BY <2>2, <2>3
  <1>6. ASSUME NEW a \in Agents \union {NoAgent}, EditUrl(a) PROVE CallsInv'
    BY <1>0, <1>6 DEF EditUrl
  <1>7. ASSUME NEW a \in Agents, EditCard(a) PROVE CallsInv'
    BY <1>0, <1>7 DEF EditCard, CallsInv
  <1>8. CASE Disconnect \/ ClearCard \/ BreakCard
    BY <1>0, <1>8 DEF Disconnect, ClearCard, BreakCard, CallsInv
  <1>9. CASE RequestToken \/ CancelDeviceCode \/ CodeExpires
    BY <1>0, <1>9 DEF RequestToken, CancelDeviceCode, CodeExpires, connection, CallsInv
  <1>10. ASSUME NEW f \in Flows, StartDeviceCode(f) \/ Polls(f) PROVE CallsInv'
    BY <1>0, <1>10 DEF StartDeviceCode, Polls, DeviceCodeStarts, Fire, PollPending, PollEnds,
                       connection, CallsInv
  <1>11. ASSUME NEW s \in Selections, TokenAnswers(s) PROVE CallsInv'
    BY <1>0, <1>11 DEF TokenAnswers, connection, CallsInv
  <1>12. CASE UNCHANGED connVars
    BY <1>0, <1>12 DEF connVars, connection, CallsInv
  <1> QED
    BY <1>1, <1>2, <1>3, <1>4, <1>5, <1>6, <1>7, <1>8, <1>9, <1>10, <1>11, <1>12
       DEF ConnNext, ConnUser

LEMMA CardNext == CardInv /\ [ConnNext]_connVars => CardInv'
  <1> SUFFICES ASSUME CardInv, [ConnNext]_connVars PROVE CardInv'
    OBVIOUS
  <1>i. CallsInv'
    BY CallsNext DEF CardInv
  <1>0. ASSUME UNCHANGED <<messagingUrl, status, card>> PROVE CardInv'
    BY <1>i, <1>0 DEF CardInv
  <1>1. ASSUME status' # "connected" PROVE CardInv'
    BY <1>i, <1>1 DEF CardInv
  <1>2. ASSUME NEW k \in Calls, NEW a \in Agents, Select(k, a) PROVE CardInv'
    BY <1>0, <1>1, <1>2 DEF Select, Connect
  <1>3. ASSUME NEW k \in Calls, NEW a \in Agents, HostConnect(k, a) \/ HostSelect(k, a) PROVE CardInv'
    BY <1>1, <1>3 DEF HostConnect, HostSelect, Connect
  <1>4. ASSUME NEW k \in Calls, ConnectButton(k) \/ CardFails(k) PROVE CardInv'
    BY <1>1, <1>4 DEF ConnectButton, CardFails, Connect
  <1>5. ASSUME NEW k \in Calls, SelectGoesOn(k) PROVE CardInv'
    <2>1. CASE url = NoAgent
      <3>1. card' = NoAgent
        BY <1>5, <2>1 DEF SelectGoesOn
      <3> QED BY <1>i, <3>1, AgentsAssumption DEF CardInv
    <2>2. CASE url # NoAgent
      BY <1>1, <1>5, <2>2 DEF SelectGoesOn, Connect
    <2> QED BY <2>1, <2>2
  <1>6. ASSUME NEW k \in Calls, CardArrives(k) PROVE CardInv'
    <2>1. card' = calls[k].agent /\ messagingUrl' = OwnUrl(calls[k].agent)
      BY <1>6 DEF CardArrives
    <2> QED BY <1>i, <2>1 DEF CardInv, OwnUrl
  <1>7. ASSUME NEW a \in Agents, EditCard(a) PROVE CardInv'
    BY <1>i, <1>7 DEF EditCard, CardInv, OwnUrl
  <1>8. CASE BreakCard
    BY <1>i, <1>8, AgentsAssumption DEF BreakCard, CardInv
  <1>9. CASE Disconnect \/ ClearCard
    BY <1>1, <1>9 DEF Disconnect, ClearCard
  <1>10. ASSUME NEW a, EditUrl(a) PROVE CardInv'
    BY <1>0, <1>10 DEF EditUrl
  <1>11. CASE RequestToken \/ CancelDeviceCode \/ CodeExpires
    BY <1>0, <1>11 DEF RequestToken, CancelDeviceCode, CodeExpires, connection
  <1>12. ASSUME NEW f \in Flows, StartDeviceCode(f) \/ Polls(f) PROVE CardInv'
    BY <1>0, <1>12 DEF StartDeviceCode, Polls, DeviceCodeStarts, Fire, PollPending, PollEnds,
                       connection
  <1>13. ASSUME NEW s \in Selections, TokenAnswers(s) PROVE CardInv'
    BY <1>0, <1>13 DEF TokenAnswers, connection
  <1>14. CASE UNCHANGED connVars
    BY <1>0, <1>14 DEF connVars, connection
  <1> QED
    BY <1>2, <1>3, <1>4, <1>5, <1>6, <1>7, <1>8, <1>9, <1>10, <1>11, <1>12, <1>13, <1>14
       DEF ConnNext, ConnUser

-----------------------------------------------------------------------------
(* Tokens.  Unless a selection was made while a token was on its way, all  *)
(* that is under way is asked for the agent selected now, and a selection  *)
(* that waits for its token is the last one.                               *)

TokenInv ==
  /\ ChainType
  /\ pollFor \in [Flows -> Selections]
  /\ selection \in Selections /\ token \in Selections \union {None}
  /\ ~crossed =>
       /\ asks \subseteq {selection}
       /\ \A f \in Flows : chain[f] = "poll" => pollFor[f] = selection
       /\ token \in {None, selection}
       /\ \A k \in Calls : calls[k].pc = "token" => k = selection

LEMMA SelectionsType == 0 \in Selections /\ \A k \in Calls : k \in Selections
  BY CallsAssumption DEF Selections, Calls

LEMMA TokenInit == ConnInit => TokenInv
  BY FlowsType, SelectionsType DEF ConnInit, TokenInv, ChainType, Unstarted

LEMMA TokenImplies == TokenInv => TokenOfThisSelection
  BY DEF TokenInv, TokenOfThisSelection

\* A call replaced by one that waits for no token.
LEMMA TokenCalls ==
    ASSUME TokenInv, CallsInv, ChainType', NEW k \in Calls, NEW call, call.pc # "token",
           calls' = [calls EXCEPT ![k] = call],
           UNCHANGED <<selection, token, asks, chain, pollFor, crossed>>
    PROVE  TokenInv'
  <1>1. \A l \in Calls : calls'[l] = IF l = k THEN call ELSE calls[l]
    BY DEF CallsInv
  <1> QED BY <1>1 DEF TokenInv

\* A selection when no token was on its way.
LEMMA TokenChosen ==
    ASSUME TokenInv, CallsInv, ChainType', NEW k \in Calls, NEW a, NEW call, Choose(k, a),
           calls' = [calls EXCEPT ![k] = call], UNCHANGED <<asks, chain, pollFor>>
    PROVE  TokenInv'
  <1>1. \A l \in Calls : calls'[l] = IF l = k THEN call ELSE calls[l]
    BY DEF CallsInv
  <1>2. selection' = k /\ token' \in {None, k} /\ crossed' = TokenUnderWay
    BY DEF Choose
  <1>3. ~crossed' => /\ asks = {} /\ \A f \in Flows : chain[f] # "poll"
                     /\ \A l \in Calls : calls[l].pc # "token"
    BY <1>2 DEF TokenUnderWay
  <1> QED BY <1>1, <1>2, <1>3, SelectionsType DEF TokenInv

LEMMA TokenNext == PollingInv /\ CallsInv /\ TokenInv /\ [ConnNext]_connVars => TokenInv'
  <1> SUFFICES ASSUME PollingInv, CallsInv, TokenInv, [ConnNext]_connVars PROVE TokenInv'
    OBVIOUS
  <1>c. ChainType'
    BY PollingNext DEF PollingInv
  <1>k. ASSUME NEW k \in Calls, NEW a, NEW clears, Connect(k, a, clears),
               UNCHANGED <<selection, token, asks, chain, pollFor, crossed>>
        PROVE TokenInv'
    BY <1>c, <1>k, TokenCalls DEF Connect
  <1>1. ASSUME NEW k \in Calls, NEW a \in Agents, Select(k, a) \/ HostSelect(k, a) PROVE TokenInv'
    BY <1>c, <1>1, TokenChosen DEF Select, HostSelect, Connect, device
  <1>2. ASSUME NEW k \in Calls, NEW a \in Agents, HostConnect(k, a) PROVE TokenInv'
    BY <1>k, <1>2 DEF HostConnect, device
  <1>3. ASSUME NEW k \in Calls, ConnectButton(k) PROVE TokenInv'
    BY <1>k, <1>3 DEF ConnectButton, device
  <1>16. ASSUME NEW k \in Calls, CardArrives(k) \/ CardFails(k) PROVE TokenInv'
    BY <1>c, <1>16, AnsweredType, TokenCalls DEF CardArrives, CardFails, device
  <1>17. ASSUME NEW k \in Calls, SelectGoesOn(k) PROVE TokenInv'
    <2>1. PICK call : call.pc # "token" /\ calls' = [calls EXCEPT ![k] = call]
      BY <1>17, AnsweredType DEF SelectGoesOn, Connect
    <2>2. \A l \in Calls : calls'[l] = IF l = k THEN call ELSE calls[l]
      BY <2>1 DEF CallsInv
    <2>3. /\ calls[k].pc = "token" /\ token' \in {token, k}
          /\ UNCHANGED <<selection, asks, chain, pollFor, crossed>>
      BY <1>17 DEF SelectGoesOn, device
    <2> QED BY <1>c, <2>1, <2>2, <2>3, SelectionsType DEF TokenInv
  <1> USE SelectionsType DEF TokenInv
  <1>0. ASSUME UNCHANGED <<calls, selection, token, asks, chain, pollFor, crossed>> PROVE TokenInv'
    BY <1>c, <1>0
  <1>4. ASSUME NEW a, EditUrl(a) \/ EditCard(a) PROVE TokenInv'
    BY <1>0, <1>4 DEF EditUrl, EditCard, device
  <1>5. CASE Disconnect \/ ClearCard \/ BreakCard
    BY <1>0, <1>5 DEF Disconnect, ClearCard, BreakCard, device
  <1>6. CASE RequestToken
    BY <1>c, <1>6 DEF RequestToken, connection, device
  <1>7. CASE CancelDeviceCode
    BY <1>c, <1>7 DEF CancelDeviceCode, connection, ChainType
  <1>8. ASSUME NEW f \in Flows, StartDeviceCode(f) PROVE TokenInv'
    BY <1>c, <1>8 DEF StartDeviceCode, connection, ChainType
  <1>9. ASSUME NEW s \in Selections, TokenAnswers(s) PROVE TokenInv'
    BY <1>c, <1>9 DEF TokenAnswers, connection, device
  <1>10. ASSUME NEW f \in Flows, DeviceCodeStarts(f) PROVE TokenInv'
    BY <1>c, <1>10 DEF DeviceCodeStarts, connection, ChainType
  <1>11. ASSUME NEW f \in Flows, Fire(f) PROVE TokenInv'
    BY <1>c, <1>11 DEF Fire, EndChain, connection, ChainType
  <1>12. ASSUME NEW f \in Flows, PollPending(f) PROVE TokenInv'
    BY <1>c, <1>12 DEF PollPending, connection, ChainType
  <1>13. ASSUME NEW f \in Flows, PollEnds(f) PROVE TokenInv'
    BY <1>c, <1>13 DEF PollEnds, EndChain, connection, ChainType
  <1>14. CASE CodeExpires
    BY <1>0, <1>14 DEF CodeExpires, connection
  <1>15. CASE UNCHANGED connVars
    BY <1>0, <1>15 DEF connVars, connection, device
  <1> QED
    BY <1>1, <1>2, <1>3, <1>4, <1>5, <1>6, <1>7, <1>8, <1>9, <1>10, <1>11, <1>12, <1>13,
       <1>14, <1>15, <1>16, <1>17
       DEF ConnNext, ConnUser, Polls

-----------------------------------------------------------------------------
(* Types.  The calls, the chains and the tokens are typed above; what is   *)
(* left are the fields of the store, and that Cancel's timer is no dead one*)

FieldsInv ==
  /\ messagingUrl \in Agents \union {NoAgent}
  /\ card \in Agents \union {NoAgent, Broken}
  /\ status \in {"disconnected", "connecting", "connected", "error"}
  /\ asks \subseteq Selections
  /\ isTokenLoading \in BOOLEAN /\ crossed \in BOOLEAN

TimerInv ==
  /\ expired \in BOOLEAN /\ (expired => code # 0)
  /\ timer \in Flows \union {0}
  /\ timer # 0 => chain[timer] \in {"timer", "poll"}

LEMMA FieldsInit == ConnInit => FieldsInv
  BY DEF ConnInit, FieldsInv

LEMMA FieldsNext == CallsInv /\ TokenInv /\ FieldsInv /\ [ConnNext]_connVars => FieldsInv'
  <1> SUFFICES ASSUME CallsInv, TokenInv, FieldsInv, [ConnNext]_connVars PROVE FieldsInv'
    OBVIOUS
  <1> USE DEF FieldsInv
  <1>s. selection \in Selections
    BY DEF TokenInv
  <1>0. ASSUME UNCHANGED <<connection, asks, isTokenLoading, crossed>> PROVE FieldsInv'
    BY <1>0 DEF connection
  <1>u. TokenUnderWay \in BOOLEAN
    BY DEF TokenUnderWay
  <1>1. ASSUME NEW k \in Calls, NEW a \in Agents, Select(k, a) \/ HostSelect(k, a) PROVE FieldsInv'
    BY <1>1, <1>u DEF Select, HostSelect, Choose, Connect
  <1>2. ASSUME NEW k \in Calls, NEW a \in Agents, HostConnect(k, a) PROVE FieldsInv'
    BY <1>2 DEF HostConnect, Connect
  <1>3. ASSUME NEW k \in Calls, ConnectButton(k) PROVE FieldsInv'
    BY <1>3 DEF ConnectButton, Connect
  <1>16. ASSUME NEW k \in Calls, SelectGoesOn(k) PROVE FieldsInv'
    BY <1>16 DEF SelectGoesOn, Connect
  <1>4. ASSUME NEW a, EditUrl(a) PROVE FieldsInv'
    BY <1>4 DEF EditUrl
  <1>5. ASSUME NEW k \in Calls, CardArrives(k) PROVE FieldsInv'
    <2>1. calls[k].agent \in Agents
      BY <1>5 DEF CardArrives, InFlight, CallsInv
    <2> QED BY <1>5, <2>1 DEF CardArrives, OwnUrl
  <1>6. ASSUME NEW k \in Calls, CardFails(k) PROVE FieldsInv'
    BY <1>6 DEF CardFails
  <1>7. CASE Disconnect
    BY <1>7 DEF Disconnect
  <1>8. CASE ClearCard \/ BreakCard
    BY <1>8 DEF ClearCard, BreakCard
  <1>9. ASSUME NEW a \in Agents, EditCard(a) PROVE FieldsInv'
    BY <1>9 DEF EditCard, OwnUrl
  <1>10. CASE RequestToken
    BY <1>s, <1>10 DEF RequestToken, connection
  <1>11. ASSUME NEW s \in Selections, TokenAnswers(s) PROVE FieldsInv'
    BY <1>11 DEF TokenAnswers, connection
  <1>12. ASSUME NEW f \in Flows, StartDeviceCode(f) \/ DeviceCodeStarts(f) PROVE FieldsInv'
    BY <1>12 DEF StartDeviceCode, DeviceCodeStarts, connection
  <1>13. ASSUME NEW f \in Flows, Fire(f) \/ PollPending(f) \/ PollEnds(f) PROVE FieldsInv'
    BY <1>0, <1>13 DEF Fire, PollPending, PollEnds
  <1>14. CASE CancelDeviceCode \/ CodeExpires
    BY <1>0, <1>14 DEF CancelDeviceCode, CodeExpires
  <1>15. CASE UNCHANGED connVars
    BY <1>0, <1>15 DEF connVars
  <1> QED
    BY <1>1, <1>2, <1>3, <1>4, <1>5, <1>6, <1>7, <1>8, <1>9, <1>10, <1>11, <1>12, <1>13,
       <1>14, <1>15, <1>16
       DEF ConnNext, ConnUser, Polls

LEMMA TimerInit == ConnInit => TimerInv
  BY DEF ConnInit, TimerInv

LEMMA TimerNext == PollingInv /\ TimerInv /\ [ConnNext]_connVars => TimerInv'
  <1> SUFFICES ASSUME PollingInv, TimerInv, [ConnNext]_connVars PROVE TimerInv'
    OBVIOUS
  <1> USE FlowsType DEF TimerInv, PollingInv, ChainType
  <1>0. ASSUME UNCHANGED device PROVE TimerInv'
    BY <1>0 DEF device
  <1>1. ASSUME NEW k \in Calls, NEW a \in Agents, Select(k, a) \/ HostConnect(k, a) \/ HostSelect(k, a)
        PROVE TimerInv'
    BY <1>0, <1>1 DEF Select, HostConnect, HostSelect
  <1>2. ASSUME NEW k \in Calls, ConnectButton(k) \/ CardArrives(k) \/ CardFails(k) \/ SelectGoesOn(k)
        PROVE TimerInv'
    BY <1>0, <1>2 DEF ConnectButton, CardArrives, CardFails, SelectGoesOn
  <1>3. ASSUME NEW a, EditUrl(a) \/ EditCard(a) PROVE TimerInv'
    BY <1>0, <1>3 DEF EditUrl, EditCard
  <1>4. CASE Disconnect \/ ClearCard \/ BreakCard \/ RequestToken
    BY <1>0, <1>4 DEF Disconnect, ClearCard, BreakCard, RequestToken
  <1>5. CASE CancelDeviceCode
    BY <1>5 DEF CancelDeviceCode
  <1>6. ASSUME NEW f \in Flows, StartDeviceCode(f) PROVE TimerInv'
    BY <1>6 DEF StartDeviceCode
  <1>7. ASSUME NEW s \in Selections, TokenAnswers(s) PROVE TimerInv'
    BY <1>0, <1>7 DEF TokenAnswers
  <1>8. ASSUME NEW f \in Flows, DeviceCodeStarts(f) PROVE TimerInv'
    <2>1. chain[f] = "starting" /\ f # 0
      BY <1>8 DEF DeviceCodeStarts
    <2>2. CASE chain' = [chain EXCEPT ![f] = "timer"] /\ code' = f /\ expired' = FALSE /\ timer' = f
      BY <2>1, <2>2
    <2>3. CASE chain' = [chain EXCEPT ![f] = "ended"] /\ UNCHANGED <<code, expired, timer>>
      BY <2>1, <2>3
    <2> QED BY <1>8, <2>2, <2>3 DEF DeviceCodeStarts
  <1>9. ASSUME NEW f \in Flows, Fire(f) PROVE TimerInv'
    BY <1>9 DEF Fire, EndChain
  <1>10. ASSUME NEW f \in Flows, PollPending(f) PROVE TimerInv'
    BY <1>10 DEF PollPending
  <1>11. ASSUME NEW f \in Flows, PollEnds(f) PROVE TimerInv'
    BY <1>11 DEF PollEnds, EndChain
  <1>12. CASE CodeExpires
    BY <1>12 DEF CodeExpires
  <1>13. CASE UNCHANGED connVars
    BY <1>0, <1>13 DEF connVars
  <1> QED
    BY <1>1, <1>2, <1>3, <1>4, <1>5, <1>6, <1>7, <1>8, <1>9, <1>10, <1>11, <1>12, <1>13
       DEF ConnNext, ConnUser, Polls

\* Everything the store holds is of its type, and Cancel knows of no timer
\* that has fired for the last time.
LEMMA ConnTypes == PollingInv /\ TokenInv /\ CardInv /\ FieldsInv /\ TimerInv => ConnTypeOK
  <1> SUFFICES ASSUME PollingInv, TokenInv, CardInv, FieldsInv, TimerInv PROVE ConnTypeOK
    OBVIOUS
  <1>1. {url, messagingUrl} \subseteq Agents \union {NoAgent} /\ card \in Agents \union {NoAgent, Broken}
    BY DEF FieldsInv, CardInv, CallsInv
  <1>2. calls \in [Calls -> [pc : {"unsent", "token", "fetch", "done"},
                             agent : Agents \union {NoAgent}, clears : BOOLEAN]]
    BY DEF CardInv, CallsInv, CallType
  <1>3. {isTokenLoading, expired, crossed} \subseteq BOOLEAN
    BY DEF FieldsInv, TimerInv
  <1>4. timer # 0 => timer \in Pollers
    BY DEF TimerInv, Pollers
  <1>5. code \in Flows \union {0} /\ chain \in [Flows -> {"none", "starting", "timer", "poll", "ended"}]
    BY DEF PollingInv, ChainType
  <1> QED BY <1>1, <1>2, <1>3, <1>4, <1>5 DEF FieldsInv, TokenInv, TimerInv, ConnTypeOK
=============================================================================
