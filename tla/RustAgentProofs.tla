-------------------------- MODULE RustAgentProofs --------------------------
(***************************************************************************)
(* Proofs about RustAgent, for any number of calls and any messages.       *)
(***************************************************************************)
EXTENDS RustAgent, TLAPS

-----------------------------------------------------------------------------
(* Types.                                                                  *)

\* What a client can be told is a state of A2A.
LEMMA ToldType ==
    ASSUME NEW s \in Phase, NEW b \in BOOLEAN
    PROVE  Told(s, b) \in View
  BY DEF Told, View

\* Whatever is written, the reply is a state of A2A.
LEMMA ReplyType == ASSUME NEW m PROVE Reply(m) \in View
  <1>1. {"completed", "failed", "input-required", "working"} \subseteq Phase
    BY DEF Phase, Unsettled, Settled, Terminal
  <1>2. (m # "tck-complete-task") \in BOOLEAN /\ (m = "multi-turn") \in BOOLEAN
    OBVIOUS
  <1>3. CASE m \in Finished
    BY <1>1, <1>2, <1>3, ToldType DEF Reply
  <1>4. CASE m \notin Finished /\ m \in Failed
    BY <1>1, <1>4, ToldType DEF Reply
  <1>5. CASE m \notin Finished /\ m \notin Failed /\ m \in Waiting
    BY <1>1, <1>2, <1>5, ToldType DEF Reply
  <1>6. CASE m \notin Finished /\ m \notin Failed /\ m \notin Waiting
    BY <1>1, <1>6, ToldType DEF Reply
  <1> QED BY <1>3, <1>4, <1>5, <1>6

\* A broadcast changes what streams have seen and whether they are open.
LEMMA BroadcastType ==
    ASSUME TypeOK, NEW t \in Call, NEW told \in View
    PROVE  /\ Heard(t, told) \in [Call -> View]
           /\ Ended(t, told) \in [Call -> {"idle", "streaming", "done"}]
  BY DEF TypeOK, Heard, Ended

\* TypeOK holds at the start.
LEMMA RustTypeInit == Init => TypeOK
  BY DEF Init, TypeOK, Unknown, Told, View, Phase

\* Every step keeps TypeOK.
LEMMA RustTypeNext == TypeOK /\ [Next]_vars => TypeOK'
  <1> SUFFICES ASSUME TypeOK, [Next]_vars PROVE TypeOK'
    OBVIOUS
  <1>t. TypeOK
    OBVIOUS
  <1> USE DEF TypeOK
  <1>1. ASSUME NEW c \in Call, NEW r \in Call, NEW m \in Msg, NEW v \in BOOLEAN,
               HandleStateless(c, m, v, r)
        PROVE TypeOK'
    BY <1>1 DEF HandleStateless, Write
  <1>2. ASSUME NEW c \in Call, NEW r \in Call, NEW m \in Msg, NEW v \in BOOLEAN,
               HandleMessage(c, m, v, r)
        PROVE TypeOK'
    <2> DEFINE t == TaskOf(c, m, r)
               reply == Reply(m)
    <2>1. t \in Call /\ reply \in View
      BY ReplyType DEF TaskOf
    <2>2. /\ Heard(t, reply) \in [Call -> View]
          /\ Ended(t, reply) \in [Call -> {"idle", "streaming", "done"}]
      BY <1>t, <2>1, BroadcastType
    <2>3. Opened(reply) \in {"streaming", "done"}
      BY DEF Opened
    <2>4. /\ id' = [id EXCEPT ![c] = t]
          /\ store' = [store EXCEPT ![t] = reply]
          /\ timer' = IF m \in Delayed THEN [timer EXCEPT ![t] = "set"] ELSE timer
          /\ seen' = [Heard(t, reply) EXCEPT ![c] = IF v THEN reply ELSE @]
          /\ step' = [Ended(t, reply) EXCEPT ![c] = IF v THEN Opened(reply) ELSE "done"]
      BY <1>2 DEF HandleMessage
    <2>5. /\ msg' \in [Call -> Msg \cup {"-"}] /\ ref' \in [Call -> Call]
          /\ streamed' \in [Call -> BOOLEAN]
      BY <1>2 DEF HandleMessage, Write
    <2> HIDE DEF t, reply
    <2>6. seen' \in [Call -> View] /\ store' \in [Call -> View]
      BY <2>1, <2>2, <2>4
    <2>7. step' \in [Call -> {"idle", "streaming", "done"}]
      BY <2>2, <2>3, <2>4
    <2>8. id' \in [Call -> Call] /\ timer' \in [Call -> {"off", "set", "fired"}]
      BY <2>1, <2>4
    <2> QED BY <2>4, <2>5, <2>6, <2>7, <2>8
  <1>4. ASSUME NEW t \in Call, SendDelayedCompletion(t) PROVE TypeOK'
    <2>1. "completed" \in Phase /\ CompletionArtifacts(msg[t]) \in BOOLEAN
      BY DEF Phase, Settled, Terminal, CompletionArtifacts
    <2>2. Told("completed", CompletionArtifacts(msg[t])) \in View
      BY <2>1, ToldType
    <2> QED BY <1>t, <1>4, <2>2, BroadcastType DEF SendDelayedCompletion
  <1>5. ASSUME NEW t \in Call, AutoComplete(t) \/ CancelTask(t) PROVE TypeOK'
    <2>1. PICK s \in {"completed", "canceled"} :
              /\ store' = [store EXCEPT ![t] = [store[t] EXCEPT !.st = s]]
              /\ seen' = Heard(t, [store[t] EXCEPT !.st = s])
              /\ step' = Ended(t, [store[t] EXCEPT !.st = s])
              /\ UNCHANGED <<msg, ref, id, streamed, timer>>
      BY <1>5 DEF AutoComplete, CancelTask
    <2>2. [store[t] EXCEPT !.st = s] \in View
      BY DEF View, Phase, Settled, Terminal
    <2> QED BY <1>t, <2>1, <2>2, BroadcastType
  <1>6. CASE UNCHANGED vars
    BY <1>6 DEF vars
  <1> QED BY <1>1, <1>2, <1>4, <1>5, <1>6 DEF Next

\* Every variable keeps its type; the states a client is told are states of A2A.
THEOREM RustTypeCorrect == Spec => []TypeOK
  BY RustTypeInit, RustTypeNext, PTL DEF Spec
-----------------------------------------------------------------------------
(* The delayed completion ends the stream it is for.                       *)
(*                                                                         *)
(* The completion is broadcast for the task that has the name of the call, *)
(* so the invariant has to say that this is the task the call's stream     *)
(* listens to, once a timer exists.                                        *)

Timed(c) ==
    /\ timer[c] # "off" => id[c] = c /\ step[c] # "idle"
    /\ streamed[c] /\ timer[c] = "fired" => step[c] = "done"
DelayInv == TypeOK /\ \A c \in Call : Timed(c)

\* Requests with a delayed completion start a task of their own.
LEMMA DelayedStartsTask ==
    ASSUME NEW c, NEW r, NEW m \in Delayed PROVE TaskOf(c, m, r) = c
  BY DEF Delayed, TckStream, MultiTurn, TaskOf

\* A call that hears a broadcast stays timed.
LEMMA TimedHears ==
    ASSUME NEW c \in Call, Timed(c), NEW t, NEW told,
           step'[c] = IF Listening(c, t) /\ told.st \in Terminal THEN "done"
                      ELSE step[c],
           id'[c] = id[c], streamed'[c] = streamed[c], timer'[c] = timer[c]
    PROVE  Timed(c)'
  BY DEF Timed

\* Every step keeps the invariant.
LEMMA DelayNext == DelayInv /\ [Next]_vars => DelayInv'
  <1> SUFFICES ASSUME DelayInv, [Next]_vars, NEW d \in Call PROVE Timed(d)'
    BY RustTypeNext DEF DelayInv
  <1>d. Timed(d)
    BY DEF DelayInv
  <1> USE DEF DelayInv, TypeOK
  <1>1. ASSUME NEW c \in Call, NEW r \in Call, NEW m \in Msg, NEW v \in BOOLEAN,
               HandleStateless(c, m, v, r)
        PROVE Timed(d)'
    BY <1>1, <1>d DEF HandleStateless, Write, Timed
  <1>2. ASSUME NEW c \in Call, NEW r \in Call, NEW m \in Msg, NEW v \in BOOLEAN,
               HandleMessage(c, m, v, r)
        PROVE Timed(d)'
    <2> DEFINE t == TaskOf(c, m, r)
               reply == Reply(m)
    <2>1. /\ id' = [id EXCEPT ![c] = t]
          /\ timer' = IF m \in Delayed THEN [timer EXCEPT ![t] = "set"] ELSE timer
          /\ step' = [Ended(t, reply) EXCEPT ![c] = IF v THEN Opened(reply) ELSE "done"]
          /\ streamed' = [streamed EXCEPT ![c] = v]
          /\ step[c] = "idle"
      BY <1>2 DEF HandleMessage, Write
    <2>2. m \in Delayed => t = c
      BY DelayedStartsTask
    <2>3. t \in Call
      BY DEF TaskOf
    <2>4. CASE d = c
      <3>1. timer[c] = "off"
        BY <1>d, <2>1, <2>4 DEF Timed
      <3>2. timer'[c] \in {"off", "set"} /\ (timer'[c] = "set" => t = c)
        BY <2>1, <2>2, <2>3, <3>1
      <3>3. step'[c] # "idle" /\ id'[c] = t
        BY <2>1 DEF Ended, Opened
      <3> QED BY <2>4, <3>2, <3>3 DEF Timed
    <2>5. CASE d # c
      <3>1. /\ id'[d] = id[d] /\ streamed'[d] = streamed[d] /\ timer'[d] = timer[d]
            /\ step'[d] = Ended(t, reply)[d]
        BY <2>1, <2>2, <2>3, <2>5 DEF Ended
      <3>2. step'[d] = IF Listening(d, t) /\ reply.st \in Terminal THEN "done"
                       ELSE step[d]
        BY <3>1 DEF Ended
      <3> HIDE DEF t, reply
      <3> QED BY <1>d, <3>1, <3>2, TimedHears
    <2> QED BY <2>4, <2>5
  <1>4. ASSUME NEW t \in Call, SendDelayedCompletion(t) PROVE Timed(d)'
    <2> DEFINE told == Told("completed", CompletionArtifacts(msg[t]))
    <2>1. /\ timer[t] = "set"
          /\ timer' = [timer EXCEPT ![t] = "fired"]
          /\ id' = id /\ streamed' = streamed /\ step' = Ended(t, told)
      BY <1>4 DEF SendDelayedCompletion
    <2>2. told.st \in Terminal
      BY DEF Told, Terminal
    <2>3. step'[d] = IF Listening(d, t) /\ told.st \in Terminal THEN "done"
                     ELSE step[d]
      BY <2>1 DEF Ended
    <2> HIDE DEF told
    <2>4. CASE d = t
      <3>1. id[t] = t /\ step[t] \in {"streaming", "done"}
        BY <1>d, <2>1, <2>4 DEF Timed
      <3>2. step'[t] = "done"
        BY <2>2, <2>3, <2>4, <3>1 DEF Listening
      <3> QED BY <2>1, <2>4, <3>1, <3>2 DEF Timed
    <2>5. CASE d # t
      BY <1>d, <2>1, <2>3, <2>5, TimedHears
    <2> QED BY <2>4, <2>5
  <1>5. ASSUME NEW t \in Call, AutoComplete(t) \/ CancelTask(t) PROVE Timed(d)'
    <2>1. PICK told : /\ step' = Ended(t, told)
                      /\ UNCHANGED <<id, streamed, timer>>
      BY <1>5 DEF AutoComplete, CancelTask
    <2>2. step'[d] = IF Listening(d, t) /\ told.st \in Terminal THEN "done"
                     ELSE step[d]
      BY <2>1 DEF Ended
    <2> QED BY <1>d, <2>1, <2>2, TimedHears
  <1>6. CASE UNCHANGED vars
    BY <1>6, <1>d DEF vars, Timed
  <1> QED BY <1>1, <1>2, <1>4, <1>5, <1>6 DEF Next
-----------------------------------------------------------------------------
(* A stream is given the artifacts with the completion.                    *)
(*                                                                         *)
(* The SDK's timer would tell a stream a bare completion.  It waits for the*)
(* delayed completion, which has ended the stream by then (Timed); so the  *)
(* invariant says that such a call has had a timer since it was answered.  *)

\* Nobody else has been answered with the task of the call.
OwnTask(c) == \A d \in Call \ {c} : id[d] # c
Awaits(c) == streamed[c] /\ msg[c] \in Delayed

Given(c) ==
    /\ step[c] = "idle" => id[c] = c /\ ~streamed[c]
    /\ Awaits(c) => timer[c] # "off"
    /\ Awaits(c) /\ OwnTask(c) /\ seen[c].st = "completed" =>
         seen[c].art = CompletionArtifacts(msg[c])
GivenInv == DelayInv /\ \A c \in Call : Given(c)

\* The reply to a request with a delayed completion leaves the task at work.
LEMMA DelayedIsWorking == ASSUME NEW m \in Delayed PROVE Reply(m).st = "working"
  <1>1. m \notin Finished /\ m \notin Failed /\ m \notin Waiting
    BY DEF Delayed, TckStream, Finished, Failed, Waiting, TckArtifact
  <1>2. Reply(m) = Told("working", FALSE)
    BY <1>1 DEF Reply
  <1> QED BY <1>2 DEF Told

\* A call keeps what it was given, if it hears of the end of another task, or
\* of its own what it is to hear.
LEMMA GivenKept ==
    ASSUME NEW c \in Call, Given(c),
           step'[c] # "idle" \/ (step'[c] = step[c] /\ id'[c] = id[c]),
           streamed'[c] = streamed[c], msg'[c] = msg[c],
           timer[c] # "off" => timer'[c] # "off",
           OwnTask(c)' => OwnTask(c),
           Awaits(c) /\ OwnTask(c)' /\ seen'[c].st = "completed" =>
             seen'[c] = seen[c] \/ seen'[c].art = CompletionArtifacts(msg[c])
    PROVE  Given(c)'
  <1>1. Awaits(c)' <=> Awaits(c)
    BY DEF Awaits
  <1>2. CompletionArtifacts(msg[c])' = CompletionArtifacts(msg[c])
    BY DEF CompletionArtifacts
  <1>3. step'[c] = "idle" => id'[c] = c /\ ~streamed'[c]
    BY DEF Given
  <1>4. Awaits(c)' => timer'[c] # "off"
    BY <1>1 DEF Given
  <1>5. ASSUME Awaits(c)', OwnTask(c)', seen'[c].st = "completed"
        PROVE  seen'[c].art = CompletionArtifacts(msg[c])'
    BY <1>1, <1>2, <1>5 DEF Given
  <1> QED BY <1>3, <1>4, <1>5 DEF Given

\* Every step keeps the invariant.
LEMMA GivenNext == GivenInv /\ [Next]_vars => GivenInv'
  <1> SUFFICES ASSUME GivenInv, [Next]_vars, NEW d \in Call PROVE Given(d)'
    BY DelayNext DEF GivenInv
  <1>t. DelayInv /\ TypeOK /\ Given(d) /\ Timed(d)
    BY DEF GivenInv, DelayInv
  <1> USE DEF TypeOK
  \* Steps that leave the calls' tasks alone.
  <1>i. ASSUME id' = id PROVE OwnTask(d)' <=> OwnTask(d)
    BY <1>i DEF OwnTask
  <1>1. ASSUME NEW c \in Call, NEW r \in Call, NEW m \in Msg, NEW v \in BOOLEAN,
               HandleStateless(c, m, v, r)
        PROVE Given(d)'
    <2>1. /\ step[c] = "idle" /\ m \in Stateless /\ msg' = [msg EXCEPT ![c] = m]
          /\ streamed' = [streamed EXCEPT ![c] = v] /\ step' = [step EXCEPT ![c] = "done"]
          /\ id' = id /\ seen' = seen /\ timer' = timer
      BY <1>1 DEF HandleStateless, Write
    <2>2. CASE d = c
      <3>1. m \notin Delayed
        BY <2>1 DEF Stateless, Delayed, TckStream
      <3> QED BY <1>t, <2>1, <2>2, <3>1 DEF Given, Awaits
    <2>3. CASE d # c
      BY <1>i, <1>t, <2>1, <2>3, GivenKept
    <2> QED BY <2>2, <2>3
  <1>2. ASSUME NEW c \in Call, NEW r \in Call, NEW m \in Msg, NEW v \in BOOLEAN,
               HandleMessage(c, m, v, r)
        PROVE Given(d)'
    <2> DEFINE t == TaskOf(c, m, r)
               reply == Reply(m)
    <2>1. /\ id' = [id EXCEPT ![c] = t]
          /\ timer' = IF m \in Delayed THEN [timer EXCEPT ![t] = "set"] ELSE timer
          /\ step' = [Ended(t, reply) EXCEPT ![c] = IF v THEN Opened(reply) ELSE "done"]
          /\ seen' = [Heard(t, reply) EXCEPT ![c] = IF v THEN reply ELSE @]
          /\ streamed' = [streamed EXCEPT ![c] = v]
          /\ msg' = [msg EXCEPT ![c] = m]
          /\ step[c] = "idle"
      BY <1>2 DEF HandleMessage, Write
    <2>2. m \in Delayed => t = c /\ reply.st = "working"
      BY DelayedStartsTask, DelayedIsWorking
    <2>3. t \in Call /\ reply \in View
      BY ReplyType DEF TaskOf
    <2>4. CASE d = c
      <3>1. step'[c] # "idle"
        BY <2>1 DEF Ended, Opened
      <3>2. msg'[c] = m /\ streamed'[c] = v
        BY <1>t, <2>1
      <3>3. m \in Delayed => timer'[c] # "off"
        BY <1>t, <2>1, <2>2
      <3>4. v /\ m \in Delayed => seen'[c].st # "completed"
        <4>1. v => seen'[c] = reply
          BY <2>1 DEF Heard
        <4> HIDE DEF t, reply
        <4> QED BY <2>2, <4>1
      <3> QED BY <2>4, <3>1, <3>2, <3>3, <3>4 DEF Given, Awaits
    <2>5. CASE d # c
      <3>1. /\ id'[d] = id[d] /\ streamed'[d] = streamed[d] /\ msg'[d] = msg[d]
            /\ step'[d] = Ended(t, reply)[d] /\ seen'[d] = Heard(t, reply)[d]
        BY <1>t, <2>1, <2>5 DEF Ended, Heard
      <3>2. timer[d] # "off" => timer'[d] # "off"
        BY <1>t, <2>1, <2>3
      <3> HIDE DEF t, reply
      <3>3. step'[d] = "done" \/ step'[d] = step[d]
        BY <3>1 DEF Ended
      <3>4. OwnTask(d)' => OwnTask(d) /\ t # d
        <4>1. id[c] = c
          BY <2>1 DEF GivenInv, Given
        <4> QED BY <1>t, <2>1, <2>5, <4>1 DEF OwnTask
      <3>5. Awaits(d) /\ OwnTask(d)' => seen'[d] = seen[d]
        <4>1. Awaits(d) => id[d] = d
          BY <1>t DEF Given, Timed
        <4> QED BY <3>1, <3>4, <4>1 DEF Heard, Listening
      <3> QED BY <1>t, <3>1, <3>2, <3>3, <3>4, <3>5, GivenKept
    <2> QED BY <2>4, <2>5
  <1>4. ASSUME NEW t \in Call, SendDelayedCompletion(t) PROVE Given(d)'
    <2> DEFINE told == Told("completed", CompletionArtifacts(msg[t]))
    <2>1. /\ timer' = [timer EXCEPT ![t] = "fired"]
          /\ id' = id /\ streamed' = streamed /\ msg' = msg
          /\ step' = Ended(t, told) /\ seen' = Heard(t, told)
      BY <1>4 DEF SendDelayedCompletion
    <2>2. told.art = CompletionArtifacts(msg[t])
      BY DEF Told
    <2> HIDE DEF told
    <2>3. step'[d] \in {"done", step[d]} /\ seen'[d] = IF Listening(d, t) THEN told ELSE seen[d]
      BY <2>1 DEF Ended, Heard
    <2>4. Awaits(d) => id[d] = d
      BY <1>t DEF Given, Timed
    <2>5. Awaits(d) => seen'[d] = seen[d] \/ seen'[d].art = CompletionArtifacts(msg[d])
      BY <2>2, <2>3, <2>4 DEF Listening
    <2>6. timer[d] # "off" => timer'[d] # "off"
      BY <1>t, <2>1
    <2> QED BY <1>i, <1>t, <2>1, <2>3, <2>5, <2>6, GivenKept
  <1>5. ASSUME NEW t \in Call, AutoComplete(t) PROVE Given(d)'
    <2>1. PICK told : /\ step' = Ended(t, told) /\ seen' = Heard(t, told)
                      /\ UNCHANGED <<id, msg, streamed, timer>> /\ timer[t] # "set"
      BY <1>5 DEF AutoComplete
    <2>2. step'[d] \in {"done", step[d]} /\ seen'[d] = IF Listening(d, t) THEN told ELSE seen[d]
      BY <2>1 DEF Ended, Heard
    <2>3. Awaits(d) => ~Listening(d, t)
      <3>1. Awaits(d) => id[d] = d /\ timer[d] \in {"set", "fired"}
        BY <1>t DEF Given, Timed
      <3>2. Awaits(d) /\ timer[d] = "fired" => step[d] = "done"
        BY <1>t DEF Timed, Awaits
      <3> QED BY <2>1, <3>1, <3>2 DEF Listening
    <2> QED BY <1>i, <1>t, <2>1, <2>2, <2>3, GivenKept
  <1>6. ASSUME NEW t \in Call, CancelTask(t) PROVE Given(d)'
    <2>1. PICK told : /\ step' = Ended(t, told) /\ seen' = Heard(t, told)
                      /\ UNCHANGED <<id, msg, streamed, timer>> /\ told.st = "canceled"
      <3>1. [store[t] EXCEPT !.st = "canceled"].st = "canceled"
        BY DEF View
      <3> QED BY <1>6, <3>1 DEF CancelTask
    <2>2. step'[d] \in {"done", step[d]} /\ seen'[d] = IF Listening(d, t) THEN told ELSE seen[d]
      BY <2>1 DEF Ended, Heard
    <2>3. seen'[d].st = "completed" => seen'[d] = seen[d]
      BY <2>1, <2>2
    <2> QED BY <1>i, <1>t, <2>1, <2>2, <2>3, GivenKept
  <1>7. CASE UNCHANGED vars
    BY <1>7, <1>i, <1>t, GivenKept DEF vars
  <1> QED BY <1>1, <1>2, <1>4, <1>5, <1>6, <1>7 DEF Next

\* A streaming request that is told its task is complete is told so with its
\* artifacts, unless a multi-turn message was answered with the same task: the
\* SDK's own bare completion never gets in before the delayed one.
THEOREM CompletionBringsArtifacts == Spec => []StreamGetsArtifacts
  <1>1. Init => GivenInv
    BY RustTypeInit DEF Init, GivenInv, DelayInv, Timed, Given, Awaits
  <1>2. GivenInv /\ [Next]_vars => GivenInv'
    BY GivenNext
  <1>3. GivenInv => StreamGetsArtifacts
    BY DEF GivenInv, Given, Awaits, OwnTask, StreamGetsArtifacts
  <1> QED BY <1>1, <1>2, <1>3, PTL DEF Spec
=============================================================================
