-------------------------- MODULE AgentTasksProofs --------------------------
(***************************************************************************)
(* Proofs about AgentTasks, for any number of tasks and executions and for *)
(* any handlers and servers that satisfy the assumptions of that module.   *)
(***************************************************************************)
EXTENDS AgentTasks, TLAPS

-----------------------------------------------------------------------------
(* Facts about the sequences of steps.                                     *)

\* The empty sequence has no element.
LEMMA EmptyLen == Len(<<>>) = 0
  OBVIOUS

\* A sequence without elements is the empty one.
LEMMA NoLen == \A s \in Seq(Step) : Len(s) = 0 => s = <<>>
  OBVIOUS

\* What Head and Tail of a sequence of steps are.
LEMMA HeadAndTail ==
    ASSUME NEW s \in Seq(Step), s # <<>>
    PROVE  /\ Head(s) \in Step
           /\ Tail(s) \in Seq(Step)
           /\ Head(s) = s[1]
           /\ Len(Tail(s)) = Len(s) - 1
           /\ \A i \in 1 .. Len(Tail(s)) : Tail(s)[i] = s[i + 1]
  OBVIOUS

\* What Append adds to a sequence of steps.
LEMMA AppendLast ==
    ASSUME NEW s \in Seq(Step), NEW x \in Step
    PROVE  /\ Append(s, x) \in Seq(Step)
           /\ Append(s, x) # <<>>
           /\ Append(s, x)[Len(Append(s, x))] = x
           /\ Len(Append(s, x)) = Len(s) + 1
           /\ \A i \in 1 .. Len(s) : Append(s, x)[i] = s[i]
  OBVIOUS

\* The event of a cancel handler is a step.
LEMMA CancelStepType == CancelStep \in Step
  BY DEF CancelStep, Step, TaskStep, Status, Phase, Unsettled, Settled, Terminal

\* The phases of a task that a message can be for.
LEMMA RunType ==
    ASSUME server \in Server,
           NEW m \in Msg, NEW p \in Phase, p \notin Terminal,
           NEW r \in Handlers[server][m][p].runs
    PROVE  r \in Seq(Step) /\ (Settling(r) \/ Stateless(r))
  BY HandlersAssumption
-----------------------------------------------------------------------------
(* Types.                                                                  *)

\* A chunk leaves the contents of a task well typed.
LEMMA UpdateType ==
    ASSUME NEW c \in [ArtifactId -> Content], NEW k, NEW s \in Step
    PROVE  Update(c, k, s) \in [ArtifactId -> Content]
  <1>1. CASE k \in ArtifactId
    <2>1. c[k].chunks \in Seq(Nat) /\ s.chunk \in Nat /\ s.last \in BOOLEAN
      BY <1>1 DEF Content, Step
    <2>2. (IF s.append THEN c[k].chunks ELSE <<>>) \o <<s.chunk>> \in Seq(Nat)
      BY <2>1
    <2> QED BY <1>1, <2>1, <2>2 DEF Update, Content
  <1>2. CASE k \notin ArtifactId
    BY <1>2 DEF Update
  <1> QED BY <1>1, <1>2

\* TypeOK holds at the start.
LEMMA TypeInit == Init => TypeOK
  BY DEF Init, TypeOK, NoArts, Absent, Content, Phase

\* Every step keeps TypeOK.
LEMMA TypeNext == TypeOK /\ [Next]_vars => TypeOK'
  <1> SUFFICES ASSUME TypeOK, [Next]_vars PROVE TypeOK'
    OBVIOUS
  <1> USE DEF TypeOK
  <1>1. ASSUME NEW e \in Exec, NEW t \in Task, NEW m \in Msg, SendMessage(e, t, m)
        PROVE TypeOK'
    <2> DEFINE h == Handlers[server][m][st[t]]
    <2>1. PICK r \in h.runs : Start(e, "run", t, r)
      BY <1>1 DEF SendMessage
    <2>2. r \in Seq(Step)
      BY <1>1, <2>1, RunType DEF SendMessage
    <2>3. /\ kind' \in [Exec -> {"idle", "run", "cancel", "refused"}]
          /\ task' \in [Exec -> Task]
          /\ script' \in [Exec -> Seq(Step)]
      BY <2>1, <2>2 DEF Start
    <2>4. DOMAIN owner' = Task /\ DOMAIN name' = Exec
      BY <1>1 DEF SendMessage
    <2> QED BY <1>1, <2>3, <2>4 DEF SendMessage
  <1>2. ASSUME NEW e \in Exec, NEW t \in Task, NEW w \in BOOLEAN, CancelTask(e, t, w)
        PROVE TypeOK'
    <2>1. /\ kind' \in [Exec -> {"idle", "run", "cancel", "refused"}]
          /\ task' \in [Exec -> Task]
          /\ script' \in [Exec -> Seq(Step)]
      BY <1>2, CancelStepType DEF CancelTask, Start
    <2>2. /\ snap' \in [Exec -> [ArtifactId -> Content]]
          /\ md' \in [Exec -> BOOLEAN]
          /\ signalled' \in [Exec -> BOOLEAN]
      BY <1>2 DEF CancelTask
    <2> QED BY <1>2, <2>1, <2>2 DEF CancelTask
  <1>3. ASSUME NEW e \in Exec, Emit(e) PROVE TypeOK'
    BY <1>3, HeadAndTail, AppendLast DEF Emit, store
  <1>4. ASSUME NEW e \in Exec, Elapse(e) PROVE TypeOK'
    BY <1>4, HeadAndTail DEF Elapse, store
  <1>5. ASSUME NEW e \in Exec, Interrupt(e) PROVE TypeOK'
    BY <1>5 DEF Interrupt, store
  <1>6. ASSUME NEW e \in Exec, RunCancel(e) PROVE TypeOK'
    BY <1>6, HeadAndTail, AppendLast DEF RunCancel, store
  <1>7. ASSUME NEW e \in Exec, RefuseCancel(e) PROVE TypeOK'
    BY <1>7 DEF RefuseCancel, store
  <1>8. ASSUME NEW e \in Exec, Apply(e) PROVE TypeOK'
    <2> DEFINE s == Head(queue[e])
               t == task[e]
    <2>1. s \in Step /\ Tail(queue[e]) \in Seq(Step)
      BY <1>8, HeadAndTail DEF Apply
    <2>2. st' \in [Task -> Phase]
      BY <1>8, <2>1 DEF Apply, Step
    <2>3. arts' \in [Task -> [ArtifactId -> Content]]
      <3>1. snap[e] \in [ArtifactId -> Content] /\ arts[t] \in [ArtifactId -> Content]
        OBVIOUS
      <3>2. Update(arts[t], Key(e, s.id), s) \in [ArtifactId -> Content]
        BY <2>1, <3>1, UpdateType
      <3>3. arts' = IF s.op = "task" THEN [arts EXCEPT ![t] = snap[e]]
                    ELSE IF s.op = "artifact"
                    THEN [arts EXCEPT ![t] = Update(arts[t], Key(e, s.id), s)]
                    ELSE arts
        BY <1>8 DEF Apply
      <3> QED BY <3>1, <3>2, <3>3
    <2>4. meta' \in [Task -> BOOLEAN]
      <3> DEFINE b == Echoes(e) \/ (s.op = "status" /\ meta[t])
      <3>1. meta' = meta \/ meta' = [meta EXCEPT ![t] = b]
        BY <1>8 DEF Apply
      <3>2. b \in BOOLEAN
        OBVIOUS
      <3> HIDE DEF b
      <3> QED BY <3>1, <3>2
    <2>5. queue' \in [Exec -> Seq(Step)]
      BY <1>8, <2>1 DEF Apply
    <2> QED BY <1>8, <2>2, <2>3, <2>4, <2>5 DEF Apply
  <1>9. CASE UNCHANGED vars
    BY <1>9 DEF vars
  <1> QED BY <1>1, <1>2, <1>3, <1>4, <1>5, <1>6, <1>7, <1>8, <1>9 DEF Next

\* Every variable keeps its type, whatever clients send and when they cancel.
THEOREM TypeCorrect == Spec => []TypeOK
  BY TypeInit, TypeNext, PTL DEF Spec
-----------------------------------------------------------------------------
(* A task under way has somebody who will settle it.                       *)
(*                                                                         *)
(* NobodyLeftWorking is not inductive: an interrupted run leaves its events*)
(* behind and relies on the cancel that fired its token, so the invariant  *)
(* has to say that this cancel has not had its turn (Stopped), and what is *)
(* left of every execution (WellFormed).                                   *)

\* What is left of a run: its settling step, in the script or in the queue; or
\* replies that touch no task; or the events of a run that was interrupted.
RunForm(e) ==
    \/ SettlesAtEnd(script[e])
    \/ Stateless(script[e]) /\ Stateless(queue[e])
    \/ script[e] = <<>> /\ SettlesAtEnd(queue[e])
    \/ script[e] = <<>> /\ signalled[e]

\* What is left of a cancel: its turn, its event, or nothing.
CancelForm(e) ==
    \/ script[e] = <<CancelStep>> /\ queue[e] = <<>>
    \/ script[e] = <<>> /\ queue[e] \in {<<>>, <<CancelStep>>}

ExecForm(e) ==
    /\ kind[e] = "idle" => ~Busy(e) /\ ~signalled[e]
    /\ kind[e] = "refused" => ~Busy(e)
    /\ kind[e] = "cancel" => CancelForm(e)
    /\ kind[e] = "run" => RunForm(e)
WellFormed == \A e \in Exec : ExecForm(e)

\* A run whose token has fired is waited for by the cancel that fired it.
Awaited(f) ==
    \E g \in Exec : kind[g] = "cancel" /\ On(g, task[f]) /\ script[g] # <<>>
Stopped ==
    \A f \in Exec : kind[f] = "run" /\ signalled[f] /\ Busy(f) => Awaited(f)

SettledInv == TypeOK /\ WellFormed /\ Stopped /\ NobodyLeftWorking

\* What remains of a sequence that settles its task at the end does so too, and
\* the last step to go is the one that settles.
LEMMA SettlesTail ==
    ASSUME NEW s \in Seq(Step), SettlesAtEnd(s)
    PROVE  /\ s # <<>>
           /\ Tail(s) # <<>> => SettlesAtEnd(Tail(s))
           /\ Tail(s) = <<>> => SetsTo(Head(s), Settled)
  <1>1. s # <<>>
    BY DEF SettlesAtEnd
  <1>2. /\ Tail(s) \in Seq(Step)
        /\ Len(s) \in Nat
        /\ Len(Tail(s)) = Len(s) - 1
    BY <1>1, HeadAndTail
  <1>3. Tail(s) = <<>> => Head(s) = s[Len(s)]
    <2> SUFFICES ASSUME Tail(s) = <<>> PROVE Head(s) = s[Len(s)]
      OBVIOUS
    <2>1. Len(Tail(s)) = 0
      BY EmptyLen
    <2>2. Len(s) = 1
      BY <1>2, <2>1
    <2>3. Head(s) = s[1]
      BY <1>1, HeadAndTail
    <2> QED BY <2>2, <2>3
  <1>4. Tail(s) # <<>> => Tail(s)[Len(Tail(s))] = s[Len(s)]
    <2> SUFFICES ASSUME Tail(s) # <<>> PROVE Tail(s)[Len(Tail(s))] = s[Len(s)]
      OBVIOUS
    <2>1. Len(Tail(s)) \in 1 .. Len(Tail(s))
      BY <1>2
    <2> QED BY <1>1, <1>2, <2>1, HeadAndTail
  <1> QED BY <1>1, <1>3, <1>4 DEF SettlesAtEnd

\* A settling step makes the sequence it is added to settle the task.
LEMMA SettlesAppend ==
    ASSUME NEW s \in Seq(Step), NEW x \in Step, SetsTo(x, Settled)
    PROVE  SettlesAtEnd(Append(s, x))
  BY AppendLast DEF SettlesAtEnd

\* What remains of a sequence of replies is one, and its first step is a reply.
LEMMA StatelessTail ==
    ASSUME NEW s \in Seq(Step), s # <<>>, Stateless(s)
    PROVE  Stateless(Tail(s)) /\ Head(s).op = "message"
  <1>1. Len(Tail(s)) = Len(s) - 1 /\ Len(s) \in Nat /\ Len(s) # 0
    BY HeadAndTail
  <1>2. \A i \in 1 .. Len(Tail(s)) : i + 1 \in 1 .. Len(s) /\ Tail(s)[i] = s[i + 1]
    BY <1>1, HeadAndTail
  <1> QED BY <1>1, <1>2, HeadAndTail DEF Stateless

\* A reply added to a sequence of replies makes one.
LEMMA StatelessAppend ==
    ASSUME NEW s \in Seq(Step), NEW x \in Step, Stateless(s), x.op = "message"
    PROVE  Stateless(Append(s, x))
  BY AppendLast DEF Stateless

\* The empty sequence touches no task.
LEMMA StatelessEmpty == Stateless(<<>>)
  BY DEF Stateless

\* A run starts with its settling step ahead, or without any.
LEMMA SettlingEnds ==
    ASSUME NEW r \in Seq(Step), Settling(r)
    PROVE  SettlesAtEnd(r)
  <1>1. Len(r) \in 1 .. Len(r)
    BY DEF Settling
  <1> QED BY <1>1 DEF Settling, SettlesAtEnd

\* A cancel handler's event settles the task.
LEMMA CancelSettles == SetsTo(CancelStep, Settled)
  BY DEF CancelStep, SetsTo, TaskStep, Status, Settled, Terminal

\* The executions that a step does not concern keep their form.
LEMMA ExecFormFrame ==
    ASSUME NEW f \in Exec, ExecForm(f), server' = server,
           kind'[f] = kind[f], script'[f] = script[f], queue'[f] = queue[f],
           kind[f] = "run" /\ signalled[f] => signalled'[f],
           kind[f] = "idle" => signalled'[f] = signalled[f]
    PROVE  ExecForm(f)'
  BY DEF ExecForm, Busy, CancelForm, RunForm, CancelStep

\* Every step leaves every execution in one of its forms.
LEMMA WellFormedNext ==
    ASSUME TypeOK, WellFormed, [Next]_vars PROVE WellFormed'
  <1> USE DEF TypeOK
  <1> SUFFICES ASSUME NEW f \in Exec PROVE ExecForm(f)'
    BY DEF WellFormed
  <1>f. ExecForm(f)
    BY DEF WellFormed
  <1>1. ASSUME NEW e \in Exec, NEW t \in Task, NEW m \in Msg, SendMessage(e, t, m)
        PROVE ExecForm(f)'
    <2>1. CASE f # e
      BY <1>1, <1>f, <2>1, ExecFormFrame DEF SendMessage, Start
    <2>2. CASE f = e
      <3>1. PICK r \in Handlers[server][m][st[t]].runs : Start(e, "run", t, r)
        BY <1>1 DEF SendMessage
      <3>2. r \in Seq(Step) /\ (Settling(r) \/ Stateless(r))
        BY <1>1, <3>1, RunType DEF SendMessage
      <3>3. kind'[e] = "run" /\ script'[e] = r /\ queue'[e] = queue[e]
        BY <1>1, <3>1 DEF SendMessage, Start
      <3>4. queue[e] = <<>>
        BY <1>f, <2>2, <3>1 DEF ExecForm, Busy, Start
      <3>5. SettlesAtEnd(r) \/ (Stateless(r) /\ Stateless(<<>>))
        BY <3>2, SettlingEnds, StatelessEmpty
      <3> QED BY <2>2, <3>3, <3>4, <3>5 DEF ExecForm, RunForm
    <2> QED BY <2>1, <2>2
  <1>2. ASSUME NEW e \in Exec, NEW t \in Task, NEW w \in BOOLEAN, CancelTask(e, t, w)
        PROVE ExecForm(f)'
    <2>1. CASE f # e
      BY <1>2, <1>f, <2>1, ExecFormFrame DEF CancelTask, Start
    <2>2. CASE f = e
      <3>1. /\ kind'[e] = "cancel"
            /\ script'[e] = <<CancelStep>>
            /\ queue'[e] = queue[e]
            /\ server' = server
        BY <1>2 DEF CancelTask, Start
      <3>2. queue[e] = <<>>
        BY <1>2, <1>f, <2>2 DEF ExecForm, Busy, CancelTask, Start
      <3>3. CancelStep' = CancelStep
        BY <3>1 DEF CancelStep
      <3> QED BY <2>2, <3>1, <3>2, <3>3 DEF ExecForm, CancelForm
    <2> QED BY <2>1, <2>2
  <1>3. ASSUME NEW e \in Exec, Emit(e) PROVE ExecForm(f)'
    <2>1. CASE f # e
      BY <1>3, <1>f, <2>1, ExecFormFrame DEF Emit
    <2>2. CASE f = e
      <3> DEFINE s == Head(script[e])
                 rest == Tail(script[e])
                 q == Append(queue[e], s)
      <3>1. /\ kind[e] = "run" /\ kind'[e] = "run"
            /\ script[e] # <<>>
            /\ script'[e] = rest /\ queue'[e] = q
        BY <1>3 DEF Emit
      <3>2. s \in Step /\ rest \in Seq(Step)
        BY <3>1, HeadAndTail
      <3>3. SettlesAtEnd(script[e]) \/ (Stateless(script[e]) /\ Stateless(queue[e]))
        BY <1>f, <2>2, <3>1 DEF ExecForm, RunForm
      <3>4. CASE SettlesAtEnd(script[e])
        <4>1. CASE rest # <<>>
          BY <2>2, <3>1, <3>4, <4>1, SettlesTail DEF ExecForm, RunForm
        <4>2. CASE rest = <<>>
          <5>1. SetsTo(s, Settled)
            BY <3>4, <4>2, SettlesTail
          <5>2. SettlesAtEnd(q)
            BY <3>2, <5>1, SettlesAppend
          <5> QED BY <2>2, <3>1, <4>2, <5>2 DEF ExecForm, RunForm
        <4> QED BY <4>1, <4>2
      <3>5. CASE Stateless(script[e]) /\ Stateless(queue[e])
        <4>1. Stateless(rest) /\ s.op = "message"
          BY <3>1, <3>5, StatelessTail
        <4>2. Stateless(q)
          BY <3>2, <3>5, <4>1, StatelessAppend
        <4> QED BY <2>2, <3>1, <4>1, <4>2 DEF ExecForm, RunForm
      <3> QED BY <3>3, <3>4, <3>5
    <2> QED BY <2>1, <2>2
  <1>4. ASSUME NEW e \in Exec, Elapse(e) PROVE ExecForm(f)'
    <2>1. CASE f # e
      BY <1>4, <1>f, <2>1, ExecFormFrame DEF Elapse
    <2>2. CASE f = e
      <3> DEFINE s == Head(script[e])
                 rest == Tail(script[e])
      <3>1. /\ kind[e] = "run" /\ kind'[e] = "run"
            /\ script[e] # <<>> /\ s.op = "delay"
            /\ script'[e] = rest /\ queue'[e] = queue[e]
        BY <1>4 DEF Elapse
      <3>2. SettlesAtEnd(script[e])
        <4>1. ~Stateless(script[e])
          BY <3>1, StatelessTail
        <4> QED BY <1>f, <2>2, <3>1, <4>1 DEF ExecForm, RunForm
      <3>3. rest # <<>>
        BY <3>1, <3>2, SettlesTail DEF SetsTo
      <3>4. SettlesAtEnd(rest)
        BY <3>2, <3>3, SettlesTail
      <3> QED BY <2>2, <3>1, <3>4 DEF ExecForm, RunForm
    <2> QED BY <2>1, <2>2
  <1>5. ASSUME NEW e \in Exec, Interrupt(e) PROVE ExecForm(f)'
    <2>1. CASE f # e
      BY <1>5, <1>f, <2>1, ExecFormFrame DEF Interrupt
    <2>2. CASE f = e
      BY <1>5, <2>2 DEF Interrupt, ExecForm, RunForm
    <2> QED BY <2>1, <2>2
  <1>6. ASSUME NEW e \in Exec, RunCancel(e) PROVE ExecForm(f)'
    <2>1. CASE f # e
      BY <1>6, <1>f, <2>1, ExecFormFrame DEF RunCancel
    <2>2. CASE f = e
      <3>1. /\ kind[e] = "cancel" /\ kind'[e] = "cancel"
            /\ script[e] # <<>>
            /\ script'[e] = Tail(script[e])
            /\ queue'[e] = Append(queue[e], Head(script[e]))
            /\ server' = server
        BY <1>6 DEF RunCancel
      <3>2. script[e] = <<CancelStep>> /\ queue[e] = <<>>
        BY <1>f, <2>2, <3>1 DEF ExecForm, CancelForm
      <3>3. script'[e] = <<>> /\ queue'[e] = <<CancelStep>>
        BY <3>1, <3>2
      <3>4. CancelStep' = CancelStep
        BY <3>1 DEF CancelStep
      <3> QED BY <2>2, <3>1, <3>3, <3>4 DEF ExecForm, CancelForm
    <2> QED BY <2>1, <2>2
  <1>7. ASSUME NEW e \in Exec, RefuseCancel(e) PROVE ExecForm(f)'
    <2>1. CASE f # e
      BY <1>7, <1>f, <2>1, ExecFormFrame DEF RefuseCancel
    <2>2. CASE f = e
      <3>1. kind[e] = "cancel" /\ kind'[e] = "refused" /\ script[e] # <<>>
            /\ script'[e] = <<>> /\ queue'[e] = queue[e]
        BY <1>7 DEF RefuseCancel
      <3>2. queue[e] = <<>>
        BY <1>f, <2>2, <3>1 DEF ExecForm, CancelForm
      <3> QED BY <2>2, <3>1, <3>2 DEF ExecForm, Busy
    <2> QED BY <2>1, <2>2
  <1>8. ASSUME NEW e \in Exec, Apply(e) PROVE ExecForm(f)'
    <2>1. CASE f # e
      BY <1>8, <1>f, <2>1, ExecFormFrame DEF Apply
    <2>2. CASE f = e
      <3> DEFINE rest == Tail(queue[e])
      <3>1. /\ kind'[e] = kind[e] /\ script'[e] = script[e]
            /\ signalled'[e] = signalled[e] /\ server' = server
            /\ queue[e] # <<>> /\ queue'[e] = rest
        BY <1>8 DEF Apply
      <3>2. kind[e] \in {"run", "cancel"}
        BY <1>f, <2>2, <3>1 DEF ExecForm, Busy
      <3>3. CASE kind[e] = "cancel"
        <4>1. script[e] = <<>> /\ queue[e] = <<CancelStep>>
          BY <1>f, <2>2, <3>1, <3>3 DEF ExecForm, CancelForm
        <4>2. rest = <<>>
          BY <4>1
        <4> QED BY <2>2, <3>1, <3>3, <4>1, <4>2 DEF ExecForm, CancelForm
      <3>4. CASE kind[e] = "run"
        <4>1. RunForm(e)
          BY <1>f, <2>2, <3>4 DEF ExecForm
        <4>2. RunForm(e)'
          <5>1. CASE SettlesAtEnd(script[e])
            BY <3>1, <5>1 DEF RunForm
          <5>2. CASE Stateless(script[e]) /\ Stateless(queue[e])
            BY <3>1, <5>2, StatelessTail DEF RunForm
          <5>3. CASE script[e] = <<>> /\ SettlesAtEnd(queue[e])
            <6>1. rest = <<>> \/ SettlesAtEnd(rest)
              BY <5>3, SettlesTail
            <6> QED BY <3>1, <5>3, <6>1, StatelessEmpty DEF RunForm
          <5>4. CASE script[e] = <<>> /\ signalled[e]
            BY <3>1, <5>4 DEF RunForm
          <5> QED BY <4>1, <5>1, <5>2, <5>3, <5>4 DEF RunForm
        <4> QED BY <2>2, <3>1, <3>4, <4>2 DEF ExecForm
      <3> QED BY <3>2, <3>3, <3>4
    <2> QED BY <2>1, <2>2
  <1>9. CASE UNCHANGED vars
    BY <1>9, <1>f, ExecFormFrame DEF vars
  <1> QED BY <1>1, <1>2, <1>3, <1>4, <1>5, <1>6, <1>7, <1>8, <1>9 DEF Next

\* The cancel that fired a token keeps its turn until the run is over.
LEMMA StoppedNext ==
    ASSUME TypeOK, WellFormed, Stopped, [Next]_vars PROVE Stopped'
  <1> USE DEF TypeOK
  <1> SUFFICES ASSUME NEW f \in Exec,
                      kind'[f] = "run", signalled'[f], Busy(f)'
               PROVE  Awaited(f)'
    BY DEF Stopped
  <1>f. ExecForm(f)
    BY DEF WellFormed
  <1>1. ASSUME NEW e \in Exec, NEW t \in Task, NEW m \in Msg, SendMessage(e, t, m)
        PROVE Awaited(f)'
    <2>1. f # e
      BY <1>1, <1>f DEF SendMessage, Start, ExecForm
    <2>2. Awaited(f)
      BY <1>1, <2>1 DEF SendMessage, Start, Stopped, Busy
    <2>3. PICK g \in Exec : kind[g] = "cancel" /\ On(g, task[f]) /\ script[g] # <<>>
      BY <2>2 DEF Awaited
    <2>4. g # e
      BY <1>1, <2>3 DEF SendMessage, Start
    <2> QED BY <1>1, <2>1, <2>3, <2>4 DEF SendMessage, Start, Awaited, On
  <1>2. ASSUME NEW e \in Exec, NEW t \in Task, NEW w \in BOOLEAN, CancelTask(e, t, w)
        PROVE Awaited(f)'
    <2>1. f # e /\ kind[f] = "run" /\ task'[f] = task[f] /\ Busy(f)
      BY <1>2 DEF CancelTask, Start, Busy
    <2>2. CASE signalled[f]
      <3>1. PICK g \in Exec : kind[g] = "cancel" /\ On(g, task[f]) /\ script[g] # <<>>
        BY <2>1, <2>2 DEF Stopped, Awaited
      <3>2. g # e
        BY <1>2, <3>1 DEF CancelTask, Start
      <3> QED BY <1>2, <2>1, <3>1, <3>2 DEF CancelTask, Start, Awaited, On
    <2>3. CASE ~signalled[f]
      <3>1. On(f, t)
        BY <1>2, <2>3 DEF CancelTask
      <3>2. kind'[e] = "cancel" /\ task'[e] = t /\ script'[e] # <<>>
        BY <1>2 DEF CancelTask, Start
      <3> QED BY <2>1, <3>1, <3>2 DEF Awaited, On
    <2> QED BY <2>2, <2>3
  <1>3. ASSUME NEW e \in Exec, Emit(e) \/ Elapse(e) \/ Interrupt(e) \/ Apply(e)
        PROVE Awaited(f)'
    <2>1. kind' = kind /\ task' = task /\ signalled' = signalled
      BY <1>3 DEF Emit, Elapse, Interrupt, Apply
    <2>2. \A g \in Exec : kind[g] = "cancel" => script'[g] = script[g]
      BY <1>3 DEF Emit, Elapse, Interrupt, Apply
    <2>3. Busy(f)
      <3>1. CASE Apply(e)
        BY <3>1 DEF Apply, Busy
      <3>2. CASE Emit(e) \/ Elapse(e) \/ Interrupt(e)
        BY <3>2 DEF Emit, Elapse, Interrupt, Busy
      <3> QED BY <1>3, <3>1, <3>2
    <2>4. PICK g \in Exec : kind[g] = "cancel" /\ On(g, task[f]) /\ script[g] # <<>>
      BY <2>1, <2>3 DEF Stopped, Awaited
    <2> QED BY <2>1, <2>2, <2>4 DEF Awaited, On
  <1>4. ASSUME NEW e \in Exec, RunCancel(e) \/ RefuseCancel(e)
        PROVE Awaited(f)'
    <2>1. /\ task' = task /\ signalled' = signalled /\ f # e
          /\ \A g \in Exec \ {e} : kind'[g] = kind[g] /\ script'[g] = script[g]
          /\ \A g \in Exec \ {e} : queue'[g] = queue[g]
          /\ kind[e] = "cancel" /\ Drained(e)
      BY <1>4 DEF RunCancel, RefuseCancel
    <2>2. Busy(f) /\ kind[f] = "run" /\ signalled[f]
      BY <2>1 DEF Busy
    <2>3. PICK g \in Exec : kind[g] = "cancel" /\ On(g, task[f]) /\ script[g] # <<>>
      BY <2>2 DEF Stopped, Awaited
    <2>4. g # e
      BY <2>1, <2>2, <2>3 DEF Drained, On
    <2> QED BY <2>1, <2>3, <2>4 DEF Awaited, On
  <1>5. CASE UNCHANGED vars
    BY <1>5 DEF vars, Stopped, Awaited, On, Busy
  <1> QED BY <1>1, <1>2, <1>3, <1>4, <1>5 DEF Next

\* Executions that a step does not concern keep their pledge.
LEMMA PledgeFrame ==
    ASSUME NEW f \in Exec, NEW t \in Task, On(f, t), Pledged(f),
           kind'[f] = kind[f], task'[f] = task[f],
           script'[f] = script[f], queue'[f] = queue[f]
    PROVE  On(f, t)' /\ Pledged(f)'
  BY DEF On, Pledged, Busy

\* Whatever step is taken, a task under way has somebody who will settle it.
LEMMA LeftNext ==
    ASSUME SettledInv, [Next]_vars PROVE NobodyLeftWorking'
  <1> USE DEF TypeOK, SettledInv
  <1> SUFFICES ASSUME NEW t \in Task, st'[t] \in Unsettled
               PROVE  \E f \in Exec : On(f, t)' /\ Pledged(f)'
    BY DEF NobodyLeftWorking
  <1>1. ASSUME NEW e \in Exec,
               \/ \E u \in Task, m \in Msg : SendMessage(e, u, m)
               \/ \E u \in Task, w \in BOOLEAN : CancelTask(e, u, w)
        PROVE  \E f \in Exec : On(f, t)' /\ Pledged(f)'
    <2>1. /\ st' = st /\ queue' = queue
          /\ kind[e] = "idle"
          /\ \A f \in Exec \ {e} : /\ kind'[f] = kind[f]
                                    /\ task'[f] = task[f]
                                    /\ script'[f] = script[f]
      BY <1>1 DEF SendMessage, CancelTask, Start
    <2>2. PICK f \in Exec : On(f, t) /\ Pledged(f)
      BY <2>1 DEF NobodyLeftWorking
    <2>3. f # e
      BY <2>1, <2>2 DEF Pledged
    <2> QED BY <2>1, <2>2, <2>3, PledgeFrame
  <1>2. ASSUME NEW e \in Exec, Emit(e) \/ Elapse(e)
        PROVE  \E f \in Exec : On(f, t)' /\ Pledged(f)'
    <2>1. /\ st' = st /\ kind' = kind /\ task' = task /\ kind[e] = "run"
          /\ \A f \in Exec \ {e} : script'[f] = script[f] /\ queue'[f] = queue[f]
          /\ script[e] # <<>> /\ script'[e] = Tail(script[e])
      BY <1>2 DEF Emit, Elapse, store
    <2>2. PICK f \in Exec : On(f, t) /\ Pledged(f)
      BY <2>1 DEF NobodyLeftWorking
    <2>3. CASE f # e
      BY <2>1, <2>2, <2>3, PledgeFrame
    <2>4. CASE f = e
      <3>1. SettlesAtEnd(script[e])
        BY <2>1, <2>2, <2>4 DEF Pledged
      <3>2. CASE Tail(script[e]) # <<>>
        <4>1. SettlesAtEnd(script'[e])
          BY <2>1, <3>1, <3>2, SettlesTail
        <4> QED BY <2>1, <2>2, <2>4, <4>1 DEF Pledged, On
      <3>3. CASE Tail(script[e]) = <<>>
        <4>1. SetsTo(Head(script[e]), Settled) /\ Head(script[e]) \in Step
          BY <2>1, <3>1, <3>3, SettlesTail, HeadAndTail
        <4>2. Emit(e)
          BY <1>2, <4>1 DEF Elapse, SetsTo
        <4>3. queue'[e] = Append(queue[e], Head(script[e]))
          BY <4>2 DEF Emit
        <4>4. SettlesAtEnd(queue'[e])
          BY <4>1, <4>3, SettlesAppend
        <4> QED BY <2>1, <2>2, <2>4, <3>3, <4>4 DEF Pledged, On
      <3> QED BY <3>2, <3>3
    <2> QED BY <2>3, <2>4
  <1>3. ASSUME NEW e \in Exec, Interrupt(e)
        PROVE  \E f \in Exec : On(f, t)' /\ Pledged(f)'
    <2>1. /\ st' = st /\ kind' = kind /\ task' = task /\ queue' = queue
          /\ kind[e] = "run" /\ signalled[e] /\ script[e] # <<>>
          /\ \A f \in Exec \ {e} : script'[f] = script[f]
      BY <1>3 DEF Interrupt, store
    <2>2. PICK f \in Exec : On(f, t) /\ Pledged(f)
      BY <2>1 DEF NobodyLeftWorking
    <2>3. CASE f # e
      BY <2>1, <2>2, <2>3, PledgeFrame
    <2>4. CASE f = e
      <3>1. PICK g \in Exec : kind[g] = "cancel" /\ On(g, task[e]) /\ script[g] # <<>>
        BY <2>1 DEF Stopped, Awaited, Busy
      <3>2. On(g, t) /\ Pledged(g) /\ g # e
        BY <2>1, <2>2, <2>4, <3>1 DEF On, Pledged, Busy
      <3> QED BY <2>1, <3>2, PledgeFrame
    <2> QED BY <2>3, <2>4
  <1>4. ASSUME NEW e \in Exec, RunCancel(e)
        PROVE  \E f \in Exec : On(f, t)' /\ Pledged(f)'
    <2>1. /\ st' = st /\ kind' = kind /\ task' = task /\ kind[e] = "cancel"
          /\ \A f \in Exec \ {e} : script'[f] = script[f] /\ queue'[f] = queue[f]
          /\ script[e] # <<>> /\ queue'[e] = Append(queue[e], Head(script[e]))
      BY <1>4 DEF RunCancel, store
    <2>2. PICK f \in Exec : On(f, t) /\ Pledged(f)
      BY <2>1 DEF NobodyLeftWorking
    <2>3. queue'[e] # <<>>
      BY <2>1, HeadAndTail, AppendLast
    <2>4. CASE f # e
      BY <2>1, <2>2, <2>4, PledgeFrame
    <2>5. CASE f = e
      BY <2>1, <2>2, <2>3, <2>5 DEF On, Pledged, Busy
    <2> QED BY <2>4, <2>5
  <1>5. ASSUME NEW e \in Exec, RefuseCancel(e)
        PROVE  \E f \in Exec : On(f, t)' /\ Pledged(f)'
    <2>1. /\ st' = st /\ task' = task /\ queue' = queue
          /\ st[task[e]] \in Terminal
          /\ \A f \in Exec \ {e} : script'[f] = script[f] /\ kind'[f] = kind[f]
      BY <1>5 DEF RefuseCancel, store
    <2>2. PICK f \in Exec : On(f, t) /\ Pledged(f)
      BY <2>1 DEF NobodyLeftWorking
    <2>3. f # e
      BY <2>1, <2>2 DEF On, Terminal, Unsettled
    <2> QED BY <2>1, <2>2, <2>3, PledgeFrame
  <1>6. ASSUME NEW e \in Exec, Apply(e)
        PROVE  \E f \in Exec : On(f, t)' /\ Pledged(f)'
    <2> DEFINE s == Head(queue[e])
               rest == Tail(queue[e])
    <2>1. /\ kind' = kind /\ task' = task /\ script' = script
          /\ \A f \in Exec \ {e} : queue'[f] = queue[f]
          /\ queue[e] # <<>> /\ queue'[e] = rest
          /\ st' = IF s.op \in {"task", "status"} THEN [st EXCEPT ![task[e]] = s.st]
                   ELSE st
      BY <1>6 DEF Apply
    <2>2. ExecForm(e) /\ kind[e] \in {"run", "cancel"}
      BY <2>1 DEF WellFormed, ExecForm, Busy
    <2>3. CASE task[e] # t
      <3>1. PICK f \in Exec : On(f, t) /\ Pledged(f)
        BY <2>1, <2>3 DEF NobodyLeftWorking
      <3>2. f # e
        BY <2>3, <3>1 DEF On
      <3> QED BY <2>1, <3>1, <3>2, PledgeFrame
    <2>4. CASE task[e] = t
      <3>1. ~SetsTo(s, Settled)
        BY <2>1, <2>4 DEF SetsTo, Settled, Unsettled, Terminal
      <3>2. kind[e] = "run" /\ RunForm(e)
        <4>1. CASE kind[e] = "cancel"
          <5>1. queue[e] = <<CancelStep>>
            BY <2>1, <2>2, <4>1 DEF ExecForm, CancelForm
          <5>2. s = CancelStep
            BY <5>1
          <5> QED BY <3>1, <5>2, CancelSettles
        <4> QED BY <2>2, <4>1 DEF ExecForm
      <3>3. CASE \/ SettlesAtEnd(script[e])
                 \/ script[e] = <<>> /\ SettlesAtEnd(queue[e])
        <4>1. SettlesAtEnd(queue[e]) => SettlesAtEnd(rest)
          BY <3>1, SettlesTail
        <4> QED BY <2>1, <2>4, <3>2, <3>3, <4>1 DEF Pledged, On
      <3>4. CASE Stateless(script[e]) /\ Stateless(queue[e])
        <4>1. s.op = "message"
          BY <2>1, <3>4, StatelessTail
        <4>2. st' = st
          BY <2>1, <4>1
        <4>3. PICK f \in Exec : On(f, t) /\ Pledged(f)
          BY <4>2 DEF NobodyLeftWorking
        <4>4. CASE f # e
          BY <2>1, <4>3, <4>4, PledgeFrame
        <4>5. CASE f = e
          <5>1. SettlesAtEnd(queue[e]) => SettlesAtEnd(rest)
            BY <3>1, SettlesTail
          <5> QED BY <2>1, <2>4, <3>2, <4>3, <4>5, <5>1 DEF Pledged, On
        <4> QED BY <4>4, <4>5
      <3>5. CASE script[e] = <<>> /\ signalled[e]
        <4>1. PICK g \in Exec : kind[g] = "cancel" /\ On(g, task[e]) /\ script[g] # <<>>
          BY <2>1, <3>2, <3>5 DEF Stopped, Awaited, Busy
        <4>2. On(g, t) /\ Pledged(g) /\ g # e
          BY <2>4, <3>2, <4>1 DEF Pledged, Busy
        <4> QED BY <2>1, <4>2, PledgeFrame
      <3> QED BY <3>2, <3>3, <3>4, <3>5 DEF RunForm
    <2> QED BY <2>3, <2>4
  <1>7. CASE UNCHANGED vars
    BY <1>7 DEF vars, NobodyLeftWorking, On, Pledged, Busy
  <1> QED BY <1>1, <1>2, <1>3, <1>4, <1>5, <1>6, <1>7 DEF Next

\* The invariant holds at the start: nothing is under way.
LEMMA SettledInit == Init => SettledInv
  <1> SUFFICES ASSUME Init PROVE SettledInv
    OBVIOUS
  <1>1. TypeOK
    BY TypeInit
  <1>2. WellFormed /\ Stopped
    BY DEF Init, WellFormed, ExecForm, Stopped, Busy
  <1>3. NobodyLeftWorking
    BY DEF Init, NobodyLeftWorking, Unsettled
  <1> QED BY <1>1, <1>2, <1>3 DEF SettledInv

\* A task that the store shows as submitted or working always has a handler,
\* an undelivered event or a cancel that will settle it, however its messages
\* and cancels overlap.
THEOREM NobodyIsLeftWorking == Spec => []NobodyLeftWorking
  <1>1. SettledInv /\ [Next]_vars => SettledInv'
    BY TypeNext, WellFormedNext, StoppedNext, LeftNext DEF SettledInv
  <1>2. SettledInv => NobodyLeftWorking
    BY DEF SettledInv
  <1> QED BY SettledInit, <1>1, <1>2, PTL DEF Spec
-----------------------------------------------------------------------------
(* The end of a task is final, when executions of a task do not overlap.   *)
(*                                                                         *)
(* An event that arrives after the end would have to wait in a queue while *)
(* the event that ends the task is applied.  The invariant says why none   *)
(* does: a run ends its task with its last event (Orderly), it is the only *)
(* run of its task (OneRun), and a cancel's event waits alone (Alone).     *)

EndsLast(s) == \A i \in 1 .. Len(s) : SetsTo(s[i], Terminal) => i = Len(s)
EndsNot(s) == \A i \in 1 .. Len(s) : ~SetsTo(s[i], Terminal)

OrderlyRun(e) ==
    kind[e] = "run" =>
        /\ EndsLast(script[e]) /\ EndsLast(queue[e])
        /\ script[e] # <<>> => EndsNot(queue[e])
Orderly == \A e \in Exec : OrderlyRun(e)

BusyRun(e, t) == kind[e] = "run" /\ task[e] = t /\ Busy(e)
OneRun ==
    \A t \in Task : \A e, f \in Exec : BusyRun(e, t) /\ BusyRun(f, t) => e = f

\* No event for t is on its way from e, and none will come from a run.
Quiet(e, t) == On(e, t) => queue[e] = <<>> /\ ~BusyRun(e, t)
Sending(e, t) == kind[e] = "cancel" /\ task[e] = t /\ queue[e] # <<>>
Alone ==
    \A t \in Task : \A e \in Exec : Sending(e, t) =>
        \A f \in Exec \ {e} : Quiet(f, t)
Final == \A t \in Task : st[t] \in Terminal => \A e \in Exec : Quiet(e, t)

FinalInv == TypeOK /\ WellFormed /\ Orderly /\ OneRun /\ Alone /\ Final

\* Arithmetic of a sequence and its tail.
LEMMA OneLess ==
    \A m, n \in Nat : m = n + 1 =>
        (1 = m => n = 0) /\ \A i \in 1 .. n : i + 1 = m => i = n
  OBVIOUS

\* The tail of a sequence that ends a task last does so too.
LEMMA EndsTail ==
    ASSUME NEW s \in Seq(Step), s # <<>>, EndsLast(s)
    PROVE  /\ EndsLast(Tail(s))
           /\ EndsNot(s) => EndsNot(Tail(s))
           /\ SetsTo(Head(s), Terminal) => Tail(s) = <<>>
           /\ Tail(s) # <<>> => ~SetsTo(Head(s), Terminal)
  <1>1. Len(s) \in Nat /\ Len(s) # 0 /\ Len(Tail(s)) \in Nat
    BY HeadAndTail
  <1>h. Head(s) = s[1] /\ Tail(s) \in Seq(Step)
    BY HeadAndTail
  <1>l. Len(s) = Len(Tail(s)) + 1
    BY HeadAndTail
  <1>2. \A i \in 1 .. Len(Tail(s)) : i + 1 \in 1 .. Len(s) /\ Tail(s)[i] = s[i + 1]
    BY <1>1, <1>l, HeadAndTail
  <1>3. EndsLast(Tail(s))
    <2> SUFFICES ASSUME NEW i \in 1 .. Len(Tail(s)), SetsTo(Tail(s)[i], Terminal)
                 PROVE  i = Len(Tail(s))
      BY DEF EndsLast
    <2>1. i + 1 = Len(s)
      BY <1>2 DEF EndsLast
    <2> QED BY <1>1, <1>l, <2>1, OneLess
  <1>4. EndsNot(s) => EndsNot(Tail(s))
    BY <1>2 DEF EndsNot
  <1>5. SetsTo(Head(s), Terminal) => Tail(s) = <<>>
    <2> SUFFICES ASSUME SetsTo(s[1], Terminal) PROVE Tail(s) = <<>>
      BY <1>h
    <2>1. 1 \in 1 .. Len(s)
      BY <1>1
    <2>2. 1 = Len(s)
      BY <2>1 DEF EndsLast
    <2>3. Len(Tail(s)) = 0
      BY <1>1, <1>l, <2>2, OneLess
    <2> QED BY <1>h, <2>3, NoLen
  <1> QED BY <1>3, <1>4, <1>5

\* A step that ends the task may be added to a sequence that does not end it.
LEMMA EndsAppend ==
    ASSUME NEW s \in Seq(Step), NEW x \in Step, EndsNot(s)
    PROVE  /\ EndsLast(Append(s, x))
           /\ ~SetsTo(x, Terminal) => EndsNot(Append(s, x))
  <1>1. /\ Len(s) \in Nat /\ Len(Append(s, x)) = Len(s) + 1
        /\ Append(s, x)[Len(Append(s, x))] = x
        /\ \A i \in 1 .. Len(s) : Append(s, x)[i] = s[i]
    BY AppendLast
  <1>2. \A i \in 1 .. Len(Append(s, x)) : i \in 1 .. Len(s) \/ i = Len(Append(s, x))
    BY <1>1
  <1> QED BY <1>1, <1>2 DEF EndsLast, EndsNot

\* A handler's run ends its task with its last step, or not at all.
LEMMA RunEnds ==
    ASSUME NEW r \in Seq(Step), Settling(r) \/ Stateless(r)
    PROVE  EndsLast(r)
  BY DEF EndsLast, Settling, Stateless, SetsTo, Settled

\* The empty sequence ends no task.
LEMMA EmptyEnds == EndsNot(<<>>) /\ EndsLast(<<>>)
  BY EmptyLen DEF EndsNot, EndsLast

\* A sequence whose head ends the task is not one that ends none.
LEMMA EndsHere ==
    ASSUME NEW s \in Seq(Step), s # <<>>, SetsTo(Head(s), Terminal)
    PROVE  ~EndsNot(s)
  <1>1. 1 \in 1 .. Len(s) /\ Head(s) = s[1]
    BY HeadAndTail
  <1> QED BY <1>1 DEF EndsNot

\* Runs stay orderly.
LEMMA OrderlyNext ==
    ASSUME TypeOK, WellFormed, Orderly, [Next]_vars PROVE Orderly'
  <1> USE DEF TypeOK
  <1> SUFFICES ASSUME NEW f \in Exec PROVE OrderlyRun(f)'
    BY DEF Orderly
  <1>f. OrderlyRun(f) /\ ExecForm(f)
    BY DEF Orderly, WellFormed
  <1>u. ASSUME kind'[f] = kind[f] \/ kind'[f] # "run",
               script'[f] = script[f], queue'[f] = queue[f]
        PROVE  OrderlyRun(f)'
    BY <1>f, <1>u DEF OrderlyRun, EndsLast, EndsNot
  <1>1. ASSUME NEW e \in Exec, NEW t \in Task, NEW m \in Msg, SendMessage(e, t, m)
        PROVE OrderlyRun(f)'
    <2>1. CASE f # e
      BY <1>1, <1>u, <2>1 DEF SendMessage, Start
    <2>2. CASE f = e
      <3>1. PICK r \in Handlers[server][m][st[t]].runs : Start(e, "run", t, r)
        BY <1>1 DEF SendMessage
      <3>2. EndsLast(r)
        BY <1>1, <3>1, RunType, RunEnds DEF SendMessage
      <3>3. script'[e] = r /\ queue'[e] = <<>>
        BY <1>1, <1>f, <2>2, <3>1 DEF SendMessage, Start, ExecForm, Busy
      <3>4. EndsLast(script'[e]) /\ EndsLast(queue'[e]) /\ EndsNot(queue'[e])
        BY <3>2, <3>3, EmptyEnds
      <3> QED BY <2>2, <3>4 DEF OrderlyRun, EndsLast, EndsNot
    <2> QED BY <2>1, <2>2
  <1>2. ASSUME NEW e \in Exec, NEW t \in Task, NEW w \in BOOLEAN, CancelTask(e, t, w)
        PROVE OrderlyRun(f)'
    <2>1. CASE f # e
      BY <1>2, <1>u, <2>1 DEF CancelTask, Start
    <2>2. CASE f = e
      BY <1>2, <2>2 DEF CancelTask, Start, OrderlyRun
    <2> QED BY <2>1, <2>2
  <1>3. ASSUME NEW e \in Exec, Emit(e) \/ Elapse(e) PROVE OrderlyRun(f)'
    <2>1. CASE f # e
      BY <1>3, <1>u, <2>1 DEF Emit, Elapse
    <2>2. CASE f = e
      <3> DEFINE s == Head(script[e])
                 rest == Tail(script[e])
      <3>1. /\ kind[e] = "run" /\ script[e] # <<>> /\ script'[e] = rest
            /\ queue'[e] = queue[e] \/ queue'[e] = Append(queue[e], s)
            /\ EndsLast(script[e]) /\ EndsNot(queue[e]) /\ EndsLast(queue[e])
        BY <1>3, <1>f, <2>2 DEF Emit, Elapse, OrderlyRun
      <3>2. EndsLast(rest) /\ (rest # <<>> => ~SetsTo(s, Terminal))
        BY <3>1, EndsTail
      <3>s. s \in Step
        BY <3>1, HeadAndTail
      <3> HIDE DEF s, rest
      <3>3. EndsLast(queue'[e]) /\ (rest # <<>> => EndsNot(queue'[e]))
        <4>1. CASE queue'[e] = queue[e]
          BY <3>1, <4>1
        <4>2. CASE queue'[e] = Append(queue[e], s)
          BY <3>1, <3>2, <3>s, <4>2, EndsAppend
        <4> QED BY <3>1, <4>1, <4>2
      <3> QED BY <2>2, <3>1, <3>2, <3>3 DEF OrderlyRun, EndsLast, EndsNot
    <2> QED BY <2>1, <2>2
  <1>4. ASSUME NEW e \in Exec, Interrupt(e) PROVE OrderlyRun(f)'
    <2>1. CASE f # e
      BY <1>4, <1>u, <2>1 DEF Interrupt
    <2>2. CASE f = e
      BY <1>4, <1>f, <2>2, EmptyEnds DEF Interrupt, OrderlyRun, EndsLast, EndsNot
    <2> QED BY <2>1, <2>2
  <1>5. ASSUME NEW e \in Exec, RunCancel(e) \/ RefuseCancel(e) PROVE OrderlyRun(f)'
    <2>1. CASE f # e
      BY <1>5, <1>u, <2>1 DEF RunCancel, RefuseCancel
    <2>2. CASE f = e
      BY <1>5, <2>2 DEF RunCancel, RefuseCancel, OrderlyRun
    <2> QED BY <2>1, <2>2
  <1>6. ASSUME NEW e \in Exec, Apply(e) PROVE OrderlyRun(f)'
    <2>1. CASE f # e
      BY <1>6, <1>u, <2>1 DEF Apply
    <2>2. CASE f = e
      <3>1. /\ queue[e] # <<>> /\ queue'[e] = Tail(queue[e])
            /\ script'[e] = script[e] /\ kind'[e] = kind[e]
        BY <1>6 DEF Apply
      <3>2. kind[e] = "run" => /\ EndsLast(Tail(queue[e]))
                               /\ EndsNot(queue[e]) => EndsNot(Tail(queue[e]))
        BY <1>f, <2>2, <3>1, EndsTail DEF OrderlyRun
      <3> QED BY <1>f, <2>2, <3>1, <3>2 DEF OrderlyRun, EndsLast, EndsNot
    <2> QED BY <2>1, <2>2
  <1>7. CASE UNCHANGED vars
    BY <1>7, <1>u DEF vars
  <1> QED BY <1>1, <1>2, <1>3, <1>4, <1>5, <1>6, <1>7 DEF Next

\* A step after which no execution is busier or less quiet than before.
Calmer ==
    \A f \in Exec :
        /\ \A u \in Task : BusyRun(f, u)' => BusyRun(f, u)
        /\ \A u \in Task : Quiet(f, u) => Quiet(f, u)'
        /\ \A u \in Task : Sending(f, u)' => Sending(f, u)

\* A step that makes nobody busier keeps the three parts of the invariant, the
\* last one if it changes no state.
LEMMA CalmerKeeps ==
    ASSUME TypeOK, OneRun, Alone, Final, Calmer
    PROVE  OneRun' /\ Alone' /\ (st' = st => Final')
  <1>1. OneRun'
    BY DEF OneRun, Calmer
  <1>2. Alone'
    <2> SUFFICES ASSUME NEW u \in Task, NEW g \in Exec, Sending(g, u)',
                        NEW f \in Exec \ {g}
                 PROVE  Quiet(f, u)'
      BY DEF Alone
    <2>1. Quiet(f, u)
      BY DEF Calmer, Alone
    <2> QED BY <2>1 DEF Calmer
  <1>3. ASSUME st' = st PROVE Final'
    <2> SUFFICES ASSUME NEW u \in Task, st[u] \in Terminal, NEW f \in Exec
                 PROVE  Quiet(f, u)'
      BY <1>3 DEF Final
    <2> QED BY DEF Final, Calmer
  <1> QED BY <1>1, <1>2, <1>3

\* The execution does not change.
Same(f) == /\ kind'[f] = kind[f] /\ task'[f] = task[f]
           /\ script'[f] = script[f] /\ queue'[f] = queue[f]

\* An execution that does not change stays as busy and as quiet as it was.
LEMMA SameKeeps ==
    ASSUME NEW f \in Exec, Same(f)
    PROVE  /\ \A u \in Task : BusyRun(f, u)' <=> BusyRun(f, u)
           /\ \A u \in Task : Quiet(f, u)' <=> Quiet(f, u)
           /\ \A u \in Task : Sending(f, u)' <=> Sending(f, u)
  BY DEF Same, BusyRun, Quiet, Sending, On, Busy

\* It is enough to look at the execution that takes the step.
LEMMA CalmerBut ==
    ASSUME NEW e \in Exec, \A f \in Exec \ {e} : Same(f),
           \A u \in Task : BusyRun(e, u)' => BusyRun(e, u),
           \A u \in Task : Quiet(e, u) => Quiet(e, u)',
           \A u \in Task : Sending(e, u)' => Sending(e, u)
    PROVE  Calmer
  <1> SUFFICES ASSUME NEW f \in Exec
               PROVE  /\ \A u \in Task : BusyRun(f, u)' => BusyRun(f, u)
                      /\ \A u \in Task : Quiet(f, u) => Quiet(f, u)'
                      /\ \A u \in Task : Sending(f, u)' => Sending(f, u)
    BY DEF Calmer
  <1>1. CASE f = e
    BY <1>1
  <1>2. CASE f # e
    BY <1>2, SameKeeps
  <1> QED BY <1>1, <1>2

\* Every step keeps one run for a task, lone cancels and quiet ends.
LEMMA CalmNext ==
    ASSUME FinalInv, [Next]_vars, Overlap = FALSE
    PROVE  OneRun' /\ Alone' /\ Final'
  <1> USE DEF FinalInv, TypeOK
  <1>t. TypeOK
    OBVIOUS
  <1>1. ASSUME NEW e \in Exec, NEW t \in Task, NEW m \in Msg, SendMessage(e, t, m)
        PROVE OneRun' /\ Alone' /\ Final'
    <2>1. PICK r \in Handlers[server][m][st[t]].runs : Start(e, "run", t, r)
      BY <1>1 DEF SendMessage
    <2>2. /\ st' = st /\ st[t] \notin Terminal /\ Free(t)
          /\ kind'[e] = "run" /\ task'[e] = t
      BY <1>1, <2>1 DEF SendMessage, Start
    <2>3. \A f \in Exec \ {e} : Same(f)
      BY <1>1, <2>1 DEF SendMessage, Start, Same
    <2>4. \A f \in Exec : On(f, t) => ~Busy(f)
      BY <2>2 DEF Free
    <2>5. OneRun'
      <3> SUFFICES ASSUME NEW u \in Task, NEW g \in Exec, NEW h \in Exec,
                          BusyRun(g, u)', BusyRun(h, u)'
                   PROVE  g = h
        BY DEF OneRun
      <3>1. ASSUME NEW f \in Exec \ {e}, BusyRun(f, u)' PROVE BusyRun(f, u) /\ u # t
        <4>1. BusyRun(f, u)
          BY <2>3, <3>1, SameKeeps
        <4> QED BY <2>4, <4>1 DEF BusyRun, On
      <3>2. BusyRun(e, u)' => u = t
        BY <2>2 DEF BusyRun
      <3> QED BY <3>1, <3>2 DEF OneRun
    <2>6. Alone'
      <3> SUFFICES ASSUME NEW u \in Task, NEW g \in Exec, Sending(g, u)',
                          NEW f \in Exec \ {g}
                   PROVE  Quiet(f, u)'
        BY DEF Alone
      <3>1. g # e
        BY <2>2 DEF Sending
      <3>2. Sending(g, u)
        BY <2>3, <3>1, SameKeeps
      <3>3. CASE f = e
        <4>1. u # t
          BY <2>4, <3>2 DEF Sending, On, Busy
        <4> QED BY <2>2, <3>3, <4>1 DEF Quiet, On, BusyRun
      <3>4. CASE f # e
        BY <2>3, <3>2, <3>4, SameKeeps DEF Alone
      <3> QED BY <3>3, <3>4
    <2>7. Final'
      <3> SUFFICES ASSUME NEW u \in Task, st[u] \in Terminal, NEW f \in Exec
                   PROVE  Quiet(f, u)'
        BY <2>2 DEF Final
      <3>1. CASE f = e
        BY <2>2, <3>1 DEF Quiet, On
      <3>2. CASE f # e
        BY <2>3, <3>2, SameKeeps DEF Final
      <3> QED BY <3>1, <3>2
    <2> QED BY <2>5, <2>6, <2>7
  <1>2. ASSUME NEW e \in Exec, NEW t \in Task, NEW w \in BOOLEAN, CancelTask(e, t, w)
        PROVE OneRun' /\ Alone' /\ Final'
    <2>1. /\ st' = st /\ kind'[e] = "cancel" /\ queue'[e] = queue[e]
          /\ kind[e] = "idle"
      BY <1>2 DEF CancelTask, Start
    <2>2. \A f \in Exec \ {e} : Same(f)
      BY <1>2 DEF CancelTask, Start, Same
    <2>3. queue[e] = <<>>
      BY <2>1 DEF WellFormed, ExecForm, Busy
    <2>4. Calmer
      <3>1. \A u \in Task : ~BusyRun(e, u)' /\ Quiet(e, u)' /\ ~Sending(e, u)'
        BY <2>1, <2>3 DEF BusyRun, Quiet, Sending
      <3> QED BY <2>1, <2>2, <2>3, <3>1, CalmerBut
    <2> QED BY <1>t, <2>1, <2>4, CalmerKeeps
  <1>3. ASSUME NEW e \in Exec, Emit(e) \/ Elapse(e)
        PROVE OneRun' /\ Alone' /\ Final'
    <2>1. /\ st' = st /\ kind' = kind /\ task' = task
          /\ kind[e] = "run" /\ script[e] # <<>>
      BY <1>3 DEF Emit, Elapse, store
    <2>2. \A f \in Exec \ {e} : Same(f)
      BY <1>3 DEF Emit, Elapse, Same
    <2>3. \A u \in Task : /\ BusyRun(e, u)' => BusyRun(e, u)
                          /\ Quiet(e, u) => Quiet(e, u)'
                          /\ Sending(e, u)' => Sending(e, u)
      BY <2>1 DEF BusyRun, Quiet, Sending, On, Busy
    <2>4. Calmer
      BY <2>1, <2>2, <2>3, CalmerBut
    <2> QED BY <1>t, <2>1, <2>4, CalmerKeeps
  <1>4. ASSUME NEW e \in Exec, Interrupt(e) \/ RefuseCancel(e)
        PROVE OneRun' /\ Alone' /\ Final'
    <2>1. /\ st' = st /\ task' = task /\ queue' = queue /\ script'[e] = <<>>
          /\ kind'[e] \in {kind[e], "refused"} /\ kind[e] # "idle"
      BY <1>4 DEF Interrupt, RefuseCancel, store
    <2>2. \A f \in Exec \ {e} : Same(f)
      BY <1>4 DEF Interrupt, RefuseCancel, Same
    <2>3. \A u \in Task : /\ BusyRun(e, u)' => BusyRun(e, u)
                          /\ Quiet(e, u) => Quiet(e, u)'
                          /\ Sending(e, u)' => Sending(e, u)
      BY <2>1 DEF BusyRun, Quiet, Sending, On, Busy
    <2>4. Calmer
      BY <2>1, <2>2, <2>3, CalmerBut
    <2> QED BY <1>t, <2>1, <2>4, CalmerKeeps
  <1>5. ASSUME NEW e \in Exec, RunCancel(e)
        PROVE OneRun' /\ Alone' /\ Final'
    <2>1. /\ st' = st /\ kind' = kind /\ task' = task
          /\ kind[e] = "cancel" /\ st[task[e]] \notin Terminal /\ Drained(e)
      BY <1>5 DEF RunCancel, store
    <2>2. \A f \in Exec \ {e} : Same(f)
      BY <1>5 DEF RunCancel, Same
    <2>3. \A f \in Exec \ {e} : \A u \in Task : u = task[e] => Quiet(f, u)
      BY <2>1 DEF Drained, Quiet, BusyRun, Busy
    <2>4. \A u \in Task : ~BusyRun(e, u)'
      BY <2>1 DEF BusyRun
    <2>5. OneRun'
      <3> SUFFICES ASSUME NEW u \in Task, NEW g \in Exec, NEW h \in Exec,
                          BusyRun(g, u)', BusyRun(h, u)'
                   PROVE  g = h
        BY DEF OneRun
      <3>1. g # e /\ h # e
        BY <2>4
      <3> QED BY <2>2, <3>1, SameKeeps DEF OneRun
    <2>6. Alone'
      <3> SUFFICES ASSUME NEW u \in Task, NEW g \in Exec, Sending(g, u)',
                          NEW f \in Exec \ {g}
                   PROVE  Quiet(f, u)'
        BY DEF Alone
      <3>1. CASE g = e
        <4>1. Quiet(f, u)
          BY <2>1, <2>3, <3>1 DEF Sending
        <4> QED BY <2>2, <3>1, <4>1, SameKeeps
      <3>2. CASE g # e
        <4>1. Sending(g, u)
          BY <2>2, <3>2, SameKeeps
        <4>2. u # task[e]
          BY <2>3, <3>2, <4>1 DEF Quiet, On, Sending
        <4>3. CASE f = e
          BY <2>1, <4>2, <4>3 DEF Quiet, On, BusyRun
        <4>4. CASE f # e
          BY <2>2, <4>1, <4>4, SameKeeps DEF Alone
        <4> QED BY <4>3, <4>4
      <3> QED BY <3>1, <3>2
    <2>7. Final'
      <3> SUFFICES ASSUME NEW u \in Task, st[u] \in Terminal, NEW f \in Exec
                   PROVE  Quiet(f, u)'
        BY <2>1 DEF Final
      <3>1. CASE f = e
        BY <2>1, <3>1 DEF Quiet, On
      <3>2. CASE f # e
        BY <2>2, <3>2, SameKeeps DEF Final
      <3> QED BY <3>1, <3>2
    <2> QED BY <2>5, <2>6, <2>7
  <1>6. ASSUME NEW e \in Exec, Apply(e)
        PROVE OneRun' /\ Alone' /\ Final'
    <2> DEFINE s == Head(queue[e])
    <2>1. /\ kind' = kind /\ task' = task /\ script' = script
          /\ queue[e] # <<>> /\ queue'[e] = Tail(queue[e])
      BY <1>6 DEF Apply
    <2>2. \A f \in Exec \ {e} : Same(f)
      BY <1>6 DEF Apply, Same
    <2>3. kind[e] \in {"run", "cancel"}
      BY <2>1 DEF WellFormed, ExecForm, Busy
    <2>4. \A u \in Task : /\ BusyRun(e, u)' => BusyRun(e, u)
                          /\ Quiet(e, u) => Quiet(e, u)'
                          /\ Sending(e, u)' => Sending(e, u)
      BY <2>1, <2>3 DEF BusyRun, Quiet, Sending, On, Busy
    <2>5. Calmer
      BY <2>1, <2>2, <2>4, CalmerBut
    <2>6. OneRun' /\ Alone'
      BY <1>t, <2>5, CalmerKeeps
    <2>7. Final'
      <3> SUFFICES ASSUME NEW u \in Task, st'[u] \in Terminal, NEW f \in Exec
                   PROVE  Quiet(f, u)'
        BY DEF Final
      <3>1. CASE st[u] \in Terminal
        BY <2>5, <3>1 DEF Final, Calmer
      <3>2. CASE st[u] \notin Terminal
        <4>1. u = task[e] /\ SetsTo(s, Terminal)
          BY <1>6, <3>2 DEF Apply, SetsTo
        <4>2. CASE f = e
          <5>1. CASE kind[e] = "cancel"
            <6>1. queue[e] = <<CancelStep>>
              BY <2>1, <5>1 DEF WellFormed, ExecForm, CancelForm
            <6> QED BY <2>1, <4>2, <5>1, <6>1 DEF Quiet, BusyRun
          <5>2. CASE kind[e] = "run"
            <6>1. OrderlyRun(e)
              BY DEF Orderly
            <6>2. Tail(queue[e]) = <<>> /\ ~EndsNot(queue[e])
              BY <2>1, <4>1, <5>2, <6>1, EndsTail, EndsHere DEF OrderlyRun
            <6>3. script[e] = <<>>
              BY <5>2, <6>1, <6>2 DEF OrderlyRun
            <6> QED BY <2>1, <4>2, <6>2, <6>3 DEF Quiet, BusyRun, Busy
          <5> QED BY <2>3, <5>1, <5>2
        <4>3. CASE f # e
          <5>1. CASE kind[e] = "cancel"
            BY <2>1, <2>5, <4>1, <4>3, <5>1 DEF Alone, Sending, Calmer
          <5>2. CASE kind[e] = "run"
            <6>1. BusyRun(e, u)
              BY <2>1, <4>1, <5>2 DEF BusyRun, Busy
            <6>2. ~BusyRun(f, u)
              BY <4>3, <6>1 DEF OneRun
            <6>3. ASSUME On(f, u), kind[f] = "cancel" PROVE queue[f] = <<>>
              <7>1. task[f] = u
                BY <6>3 DEF On
              <7> QED BY <4>3, <5>2, <6>1, <6>3, <7>1 DEF Alone, Sending, Quiet, On, BusyRun
            <6>4. Quiet(f, u)
              BY <6>2, <6>3 DEF Quiet, On, BusyRun, WellFormed, ExecForm, Busy
            <6> QED BY <2>5, <6>4 DEF Calmer
          <5> QED BY <2>3, <5>1, <5>2
        <4> QED BY <4>2, <4>3
      <3> QED BY <3>1, <3>2
    <2> QED BY <2>6, <2>7
  <1>7. CASE UNCHANGED vars
    <2>1. st' = st /\ \A f \in Exec : Same(f)
      BY <1>7 DEF vars, Same
    <2>2. Calmer
      BY <2>1, SameKeeps DEF Calmer
    <2> QED BY <1>t, <2>1, <2>2, CalmerKeeps
  <1> QED BY <1>1, <1>2, <1>3, <1>4, <1>5, <1>6, <1>7 DEF Next

\* The invariant holds at the start.
LEMMA FinalInit == Init => FinalInv
  <1> SUFFICES ASSUME Init PROVE FinalInv
    OBVIOUS
  <1>1. TypeOK /\ WellFormed
    BY SettledInit DEF SettledInv
  <1>2. \A e \in Exec : kind[e] = "idle"
    BY DEF Init
  <1>3. \A t \in Task : st[t] = "none"
    BY DEF Init
  <1> QED BY <1>1, <1>2, <1>3
          DEF FinalInv, Orderly, OrderlyRun, OneRun, BusyRun, Alone, Sending, Final,
              Terminal

\* Every step keeps the invariant.
LEMMA FinalNext ==
    ASSUME Overlap = FALSE PROVE FinalInv /\ [Next]_vars => FinalInv'
  <1> SUFFICES ASSUME FinalInv, [Next]_vars PROVE FinalInv'
    OBVIOUS
  <1>1. TypeOK /\ WellFormed /\ Orderly
    BY DEF FinalInv
  <1>2. TypeOK' /\ WellFormed' /\ Orderly'
    BY <1>1, TypeNext, WellFormedNext, OrderlyNext
  <1> QED BY <1>2, CalmNext DEF FinalInv

\* While Final holds no step touches an ended task.
LEMMA FinalKeeps ==
    ASSUME FinalInv, [Next]_vars, NEW t \in Task, st[t] \in Terminal
    PROVE  st'[t] = st[t] /\ arts'[t] = arts[t]
  <1>1. ASSUME NEW e \in Exec, Apply(e) PROVE st'[t] = st[t] /\ arts'[t] = arts[t]
    <2>1. queue[e] # <<>>
      BY <1>1 DEF Apply
    <2>2. kind[e] # "idle"
      BY <2>1 DEF FinalInv, WellFormed, ExecForm, Busy
    <2>3. task[e] # t
      BY <2>1, <2>2 DEF FinalInv, Final, Quiet, On
    <2>4. /\ st' = st \/ \E x : st' = [st EXCEPT ![task[e]] = x]
          /\ arts' = arts \/ \E x : arts' = [arts EXCEPT ![task[e]] = x]
      BY <1>1 DEF Apply
    <2> QED BY <2>3, <2>4 DEF FinalInv, TypeOK
  <1>2. CASE UNCHANGED <<st, arts>>
    BY <1>2
  <1>3. (\E e \in Exec : Apply(e)) \/ UNCHANGED <<st, arts>>
    BY DEF Next, SendMessage, CancelTask, Emit, Elapse, Interrupt, RunCancel,
           RefuseCancel, store, vars
  <1> QED BY <1>1, <1>2, <1>3

\* Where a task never has two executions at once, an ended task keeps its state
\* and its artifacts: no event of an interrupted run or of a racing cancel
\* arrives late.
THEOREM EndIsFinal == ASSUME Overlap = FALSE PROVE Spec => TerminalIsFinal
  <1>1. Init => FinalInv
    BY FinalInit
  <1>2. FinalInv /\ [Next]_vars => FinalInv'
    BY FinalNext
  <1>3. FinalInv /\ [Next]_vars =>
            [\A t \in Task : st[t] \in Terminal => st'[t] = st[t] /\ arts'[t] = arts[t]]_vars
    BY FinalKeeps
  <1> QED BY <1>1, <1>2, <1>3, PTL DEF Spec, TerminalIsFinal
-----------------------------------------------------------------------------
(* The tasks live the life of TaskLifecycle, when executions of a task do  *)
(* not overlap.                                                            *)
(*                                                                         *)
(* TerminalIsFinal says what follows an end.  For the other states the     *)
(* invariant says which states a run has ahead of it (Ahead), given the one*)
(* its task is in: what waits in the queue comes before what is left of the*)
(* script.  By NobodyLeftWorking a message finds its task new or waiting   *)
(* for input, the phases that OrderAssumption speaks of.                   *)

\* A run asks for input with its last step.
AsksLast(r) ==
    \A i \in 1 .. Len(r) : SetsTo(r[i], {"input-required"}) => i = Len(r)

Ahead(p, q, r) ==
    /\ ~Sets(q, {"none", "canceled"}) /\ ~Sets(r, {"none", "canceled"})
    /\ AsksLast(q) /\ AsksLast(r)
    /\ r # <<>> => ~Sets(q, {"input-required"})
    /\ NeverBack(q) /\ NeverBack(r)
    /\ Sets(q, {"submitted"}) => p # "working"
    /\ Sets(r, {"submitted"}) => p # "working" /\ ~Sets(q, {"working"})
    /\ p = "input-required" => WorksFirst(q) /\ (WorksFirst(r) \/ Sets(q, Unsettled))

RunAhead(e) ==
    kind[e] = "run" /\ Busy(e) => Ahead(st[task[e]], queue[e], script[e])
CancelKnows(e) == kind[e] = "cancel" => st[task[e]] # "none"

LifeInv ==
    /\ FinalInv
    /\ SettledInv
    /\ \A e \in Exec : RunAhead(e) /\ CancelKnows(e)

\* Arithmetic of the places in a sequence and in its tail.
LEMMA Shift ==
    ASSUME NEW n \in Nat
    PROVE  /\ 1 \in 1 .. n + 1
           /\ \A i \in 1 .. n : i + 1 \in 1 .. n + 1 /\ 1 < i + 1
           /\ \A i \in 1 .. n : i + 1 = n + 1 => i = n
           /\ 1 = n + 1 => n = 0
           /\ \A i, j \in 1 .. n : j < i => j + 1 < i + 1
           /\ \A j \in 1 .. n + 1 : ~(j < 1)
           /\ \A j \in 1 .. n + 1 : j = 1 \/ (\E k \in 1 .. n : k + 1 = j)
           /\ \A j, k \in 1 .. n : j + 1 < k + 1 => j < k
  <1>1. \A j \in 1 .. n + 1 : j = 1 \/ (j - 1 \in 1 .. n /\ (j - 1) + 1 = j)
    OBVIOUS
  <1>2. \A j \in 1 .. n + 1 : j = 1 \/ (\E k \in 1 .. n : k + 1 = j)
    BY <1>1
  <1> QED BY <1>2

\* What a sequence sets, its head or its tail sets.
LEMMA SetsTail ==
    ASSUME NEW s \in Seq(Step), s # <<>>, NEW S
    PROVE  Sets(s, S) <=> SetsTo(Head(s), S) \/ Sets(Tail(s), S)
  <1> DEFINE n == Len(Tail(s))
  <1>1. /\ n \in Nat /\ Len(s) = n + 1 /\ Head(s) = s[1]
        /\ \A i \in 1 .. n : Tail(s)[i] = s[i + 1]
    BY HeadAndTail
  <1>2. Sets(s, S) <=> \E i \in 1 .. n + 1 : SetsTo(s[i], S)
    BY <1>1 DEF Sets
  <1>3. Sets(Tail(s), S) <=> \E i \in 1 .. n : SetsTo(Tail(s)[i], S)
    BY DEF Sets
  <1> HIDE DEF n
  <1> QED BY <1>1, <1>2, <1>3, Shift

\* What a longer sequence sets, the sequence or the new step sets.
LEMMA SetsAppend ==
    ASSUME NEW s \in Seq(Step), NEW x \in Step, NEW S
    PROVE  Sets(Append(s, x), S) <=> Sets(s, S) \/ SetsTo(x, S)
  <1>1. /\ Len(s) \in Nat /\ Len(Append(s, x)) = Len(s) + 1
        /\ Append(s, x)[Len(s) + 1] = x
        /\ \A i \in 1 .. Len(s) : Append(s, x)[i] = s[i]
    BY AppendLast
  <1>2. \A i \in 1 .. Len(s) + 1 : i \in 1 .. Len(s) \/ i = Len(s) + 1
    BY <1>1
  <1>3. Len(s) + 1 \in 1 .. Len(s) + 1 /\ \A i \in 1 .. Len(s) : i \in 1 .. Len(s) + 1
    BY <1>1
  <1> QED BY <1>1, <1>2, <1>3 DEF Sets

\* What is asked of a sequence holds of its tail.
LEMMA OrderTail ==
    ASSUME NEW s \in Seq(Step), s # <<>>
    PROVE  /\ AsksLast(s) => /\ AsksLast(Tail(s))
                             /\ SetsTo(Head(s), {"input-required"}) => Tail(s) = <<>>
           /\ NeverBack(s) => /\ NeverBack(Tail(s))
                              /\ Sets(Tail(s), {"submitted"}) => ~SetsTo(Head(s), {"working"})
           /\ WorksFirst(s) => /\ ~SetsTo(Head(s), Terminal)
                               /\ WorksFirst(Tail(s)) \/ SetsTo(Head(s), Unsettled)
  <1> DEFINE n == Len(Tail(s))
  <1>1. /\ n \in Nat /\ Len(s) = n + 1 /\ Head(s) = s[1] /\ Tail(s) \in Seq(Step)
        /\ \A i \in 1 .. n : Tail(s)[i] = s[i + 1]
    BY HeadAndTail
  <1>0. n = Len(Tail(s))
    OBVIOUS
  <1> HIDE DEF n
  <1>2. /\ 1 \in 1 .. n + 1
        /\ \A i \in 1 .. n : i + 1 \in 1 .. n + 1 /\ 1 < i + 1
        /\ \A i \in 1 .. n : i + 1 = n + 1 => i = n
        /\ 1 = n + 1 => n = 0
        /\ \A i, j \in 1 .. n : j < i => j + 1 < i + 1
        /\ \A j \in 1 .. n + 1 : ~(j < 1)
    BY <1>1, Shift
  <1>3. AsksLast(s) => /\ AsksLast(Tail(s))
                       /\ SetsTo(Head(s), {"input-required"}) => Tail(s) = <<>>
    <2> SUFFICES ASSUME AsksLast(s)
                 PROVE  /\ AsksLast(Tail(s))
                        /\ SetsTo(Head(s), {"input-required"}) => Tail(s) = <<>>
      OBVIOUS
    <2>1. AsksLast(Tail(s))
      BY <1>0, <1>1, <1>2 DEF AsksLast
    <2>2. SetsTo(Head(s), {"input-required"}) => 1 = n + 1
      BY <1>1, <1>2 DEF AsksLast
    <2> QED BY <1>0, <1>1, <1>2, <2>1, <2>2, NoLen
  <1>4. NeverBack(s) => /\ NeverBack(Tail(s))
                        /\ Sets(Tail(s), {"submitted"}) => ~SetsTo(Head(s), {"working"})
    <2> SUFFICES ASSUME NeverBack(s)
                 PROVE  /\ NeverBack(Tail(s))
                        /\ Sets(Tail(s), {"submitted"}) => ~SetsTo(Head(s), {"working"})
      OBVIOUS
    <2>1. \A i, j \in 1 .. n + 1 :
            j < i /\ SetsTo(s[i], {"submitted"}) => ~SetsTo(s[j], {"working"})
      BY <1>1 DEF NeverBack
    <2>2. NeverBack(Tail(s))
      BY <1>0, <1>1, <1>2, <2>1 DEF NeverBack
    <2>3. Sets(Tail(s), {"submitted"}) => ~SetsTo(Head(s), {"working"})
      BY <1>0, <1>1, <1>2, <2>1 DEF Sets
    <2> QED BY <2>2, <2>3
  <1>5. WorksFirst(s) => /\ ~SetsTo(Head(s), Terminal)
                         /\ WorksFirst(Tail(s)) \/ SetsTo(Head(s), Unsettled)
    <2> SUFFICES ASSUME WorksFirst(s)
                 PROVE  /\ ~SetsTo(Head(s), Terminal)
                        /\ WorksFirst(Tail(s)) \/ SetsTo(Head(s), Unsettled)
      OBVIOUS
    <2>1. \A i \in 1 .. n + 1 : SetsTo(s[i], Terminal) =>
            \E j \in 1 .. n + 1 : j < i /\ SetsTo(s[j], Unsettled)
      BY <1>1 DEF WorksFirst
    <2>3. ~SetsTo(Head(s), Terminal)
      BY <1>1, <1>2, <2>1
    <2>4. ASSUME ~SetsTo(Head(s), Unsettled), NEW i \in 1 .. n, SetsTo(Tail(s)[i], Terminal)
          PROVE  \E k \in 1 .. n : k < i /\ SetsTo(Tail(s)[k], Unsettled)
      <3>1. PICK j \in 1 .. n + 1 : j < i + 1 /\ SetsTo(s[j], Unsettled)
        BY <1>1, <1>2, <2>1, <2>4
      <3>2. PICK k \in 1 .. n : k + 1 = j /\ k < i
        <4>1. j # 1
          BY <1>1, <2>4, <3>1
        <4>2. PICK k \in 1 .. n : k + 1 = j
          BY <1>1, <4>1, Shift
        <4>3. k < i
          BY <1>1, <3>1, <4>2, Shift
        <4> QED BY <4>2, <4>3
      <3> QED BY <1>1, <3>1, <3>2
    <2> QED BY <1>0, <2>3, <2>4 DEF WorksFirst
  <1> QED BY <1>3, <1>4, <1>5

\* What is asked of a sequence holds when a step is added that may come last.
LEMMA OrderAppend ==
    ASSUME NEW s \in Seq(Step), NEW x \in Step
    PROVE  /\ ~Sets(s, {"input-required"}) => AsksLast(Append(s, x))
           /\ NeverBack(s) /\ (SetsTo(x, {"submitted"}) => ~Sets(s, {"working"})) =>
                NeverBack(Append(s, x))
           /\ WorksFirst(s) /\ (SetsTo(x, Terminal) => Sets(s, Unsettled)) =>
                WorksFirst(Append(s, x))
  <1> DEFINE n == Len(s)
             z == Append(s, x)
  <1>1. /\ n \in Nat /\ Len(z) = n + 1 /\ z[n + 1] = x
        /\ \A i \in 1 .. n : z[i] = s[i]
    BY AppendLast
  <1> HIDE DEF n, z
  <1>2. /\ \A i \in 1 .. n + 1 : i \in 1 .. n \/ i = n + 1
        /\ \A i \in 1 .. n : i \in 1 .. n + 1 /\ i < n + 1
        /\ \A i, j \in 1 .. n + 1 : j < i => j \in 1 .. n
    BY <1>1
  <1>3. ~Sets(s, {"input-required"}) => AsksLast(z)
    BY <1>1, <1>2 DEF Sets, AsksLast, n
  <1>4. NeverBack(s) /\ (SetsTo(x, {"submitted"}) => ~Sets(s, {"working"})) => NeverBack(z)
    <2> SUFFICES ASSUME NeverBack(s), SetsTo(x, {"submitted"}) => ~Sets(s, {"working"}),
                        NEW i \in 1 .. n + 1, NEW j \in 1 .. n + 1,
                        j < i, SetsTo(z[i], {"submitted"})
                 PROVE  ~SetsTo(z[j], {"working"})
      BY <1>1 DEF NeverBack
    <2>1. j \in 1 .. n /\ z[j] = s[j]
      BY <1>1, <1>2
    <2>2. CASE i \in 1 .. n
      BY <1>1, <2>1, <2>2 DEF NeverBack, n
    <2>3. CASE i = n + 1
      BY <1>1, <2>1, <2>3 DEF Sets, n
    <2> QED BY <1>2, <2>2, <2>3
  <1>5. WorksFirst(s) /\ (SetsTo(x, Terminal) => Sets(s, Unsettled)) => WorksFirst(z)
    <2> SUFFICES ASSUME WorksFirst(s), SetsTo(x, Terminal) => Sets(s, Unsettled),
                        NEW i \in 1 .. n + 1, SetsTo(z[i], Terminal)
                 PROVE  \E j \in 1 .. n + 1 : j < i /\ SetsTo(z[j], Unsettled)
      BY <1>1 DEF WorksFirst
    <2>1. \E j \in 1 .. n : j < i /\ SetsTo(s[j], Unsettled)
      <3>1. CASE i \in 1 .. n
        BY <1>1, <3>1 DEF WorksFirst, n
      <3>2. CASE i = n + 1
        BY <1>1, <1>2, <3>2 DEF Sets, n
      <3> QED BY <1>2, <3>1, <3>2
    <2> QED BY <1>1, <1>2, <2>1
  <1> QED BY <1>3, <1>4, <1>5 DEF z

\* The empty sequence sets nothing.
LEMMA EmptySets ==
    /\ \A S : ~Sets(<<>>, S)
    /\ AsksLast(<<>>) /\ NeverBack(<<>>) /\ WorksFirst(<<>>)
  BY EmptyLen DEF Sets, AsksLast, NeverBack, WorksFirst

\* The next step goes from the script to the queue.
LEMMA AheadEmit ==
    ASSUME NEW p, NEW q \in Seq(Step), NEW r \in Seq(Step), r # <<>>, Ahead(p, q, r)
    PROVE  Ahead(p, Append(q, Head(r)), Tail(r))
  <1> DEFINE h == Head(r)
             rest == Tail(r)
             more == Append(q, h)
  <1>1. h \in Step /\ rest \in Seq(Step)
    BY HeadAndTail
  <1>2. \A S : Sets(r, S) <=> SetsTo(h, S) \/ Sets(rest, S)
    BY SetsTail
  <1>3. \A S : Sets(more, S) <=> Sets(q, S) \/ SetsTo(h, S)
    BY <1>1, SetsAppend
  <1>4. /\ AsksLast(rest) /\ (SetsTo(h, {"input-required"}) => rest = <<>>)
        /\ NeverBack(rest) /\ (Sets(rest, {"submitted"}) => ~SetsTo(h, {"working"}))
        /\ WorksFirst(r) =>
             ~SetsTo(h, Terminal) /\ (WorksFirst(rest) \/ SetsTo(h, Unsettled))
    BY OrderTail DEF Ahead
  <1>5. /\ ~Sets(q, {"input-required"}) => AsksLast(more)
        /\ NeverBack(q) /\ (SetsTo(h, {"submitted"}) => ~Sets(q, {"working"})) =>
             NeverBack(more)
        /\ WorksFirst(q) /\ (SetsTo(h, Terminal) => Sets(q, Unsettled)) =>
             WorksFirst(more)
    BY <1>1, OrderAppend
  <1> HIDE DEF h, rest, more
  <1>6. Ahead(p, more, rest)
    BY <1>2, <1>3, <1>4, <1>5 DEF Ahead
  <1> QED BY <1>6 DEF h, rest, more

\* A step that sets nothing leaves the script.
LEMMA AheadElapse ==
    ASSUME NEW p, NEW q \in Seq(Step), NEW r \in Seq(Step), r # <<>>, Ahead(p, q, r),
           Head(r).op = "delay"
    PROVE  Ahead(p, q, Tail(r))
  <1> DEFINE h == Head(r)
             rest == Tail(r)
  <1>1. \A S : ~SetsTo(h, S)
    BY DEF SetsTo
  <1>2. \A S : Sets(r, S) <=> SetsTo(h, S) \/ Sets(rest, S)
    BY SetsTail
  <1>3. AsksLast(rest) /\ NeverBack(rest) /\ (WorksFirst(r) => WorksFirst(rest))
    BY <1>1, OrderTail DEF Ahead
  <1> HIDE DEF h, rest
  <1>4. Ahead(p, q, rest)
    BY <1>1, <1>2, <1>3 DEF Ahead
  <1> QED BY <1>4 DEF rest

\* The script is dropped.
LEMMA AheadInterrupt ==
    ASSUME NEW p, NEW q, NEW r, Ahead(p, q, r)
    PROVE  Ahead(p, q, <<>>)
  BY EmptySets DEF Ahead

\* The oldest event takes the task to a state that may follow, and what comes
\* after it fits that state.
LEMMA AheadApply ==
    ASSUME NEW p \in Phase \ Terminal, NEW q \in Seq(Step), NEW r \in Seq(Step),
           q # <<>>, Ahead(p, q, r)
    PROVE  /\ Head(q).op \notin {"task", "status"} => Ahead(p, Tail(q), r)
           /\ Head(q).op \in {"task", "status"} =>
                /\ Head(q).st \in Lifecycle!Successors(p) \cup {p}
                /\ Head(q).st # "none"
                /\ Tail(q) # <<>> \/ r # <<>> => Ahead(Head(q).st, Tail(q), r)
  <1> DEFINE h == Head(q)
             rest == Tail(q)
  <1>1. h \in Step /\ rest \in Seq(Step)
    BY HeadAndTail
  <1>2. \A S : Sets(q, S) <=> SetsTo(h, S) \/ Sets(rest, S)
    BY SetsTail
  <1>3. /\ AsksLast(rest) /\ (SetsTo(h, {"input-required"}) => rest = <<>>)
        /\ NeverBack(rest) /\ (Sets(rest, {"submitted"}) => ~SetsTo(h, {"working"}))
        /\ WorksFirst(q) =>
             ~SetsTo(h, Terminal) /\ (WorksFirst(rest) \/ SetsTo(h, Unsettled))
    BY OrderTail DEF Ahead
  <1> HIDE DEF h, rest
  <1>4. ASSUME h.op \notin {"task", "status"} PROVE Ahead(p, rest, r)
    <2>1. \A S : ~SetsTo(h, S)
      BY <1>4 DEF SetsTo
    <2> QED BY <1>2, <1>3, <2>1 DEF Ahead
  <1>5. ASSUME h.op \in {"task", "status"}
        PROVE  /\ h.st \in Lifecycle!Successors(p) \cup {p}
               /\ h.st # "none"
               /\ rest # <<>> \/ r # <<>> => Ahead(h.st, rest, r)
    <2>1. \A S : SetsTo(h, S) <=> h.st \in S
      BY <1>5 DEF SetsTo
    <2>2. h.st \in Phase /\ h.st \notin {"none", "canceled"}
      <3>1. ~SetsTo(h, {"none", "canceled"})
        BY <1>2 DEF Ahead
      <3> QED BY <1>1, <2>1, <3>1 DEF Step
    <2>3. p = "working" => h.st # "submitted"
      <3>1. SetsTo(h, {"submitted"}) => p # "working"
        BY <1>2 DEF Ahead
      <3> QED BY <2>1, <3>1
    <2>4. p = "input-required" => h.st \notin Terminal
      <3>1. p = "input-required" => ~SetsTo(h, Terminal)
        BY <1>3 DEF Ahead
      <3> QED BY <2>1, <3>1
    <2>5. h.st \in Lifecycle!Successors(p) \cup {p}
      BY <2>2, <2>3, <2>4
         DEF Lifecycle!Successors, Lifecycle!Phase, Lifecycle!Settled, Lifecycle!Terminal,
             Lifecycle!Unsettled, Phase, Settled, Terminal, Unsettled
    <2>6. ASSUME rest # <<>> \/ r # <<>> PROVE h.st # "input-required"
      <3>1. ~SetsTo(h, {"input-required"})
        BY <1>2, <1>3, <2>6 DEF Ahead
      <3> QED BY <2>1, <3>1
    <2>7. ASSUME rest # <<>> \/ r # <<>> PROVE Ahead(h.st, rest, r)
      <3>1. h.st = "working" => ~Sets(rest, {"submitted"}) /\ ~Sets(r, {"submitted"})
        <4>1. SetsTo(h, {"working"}) => ~Sets(rest, {"submitted"}) /\ ~Sets(r, {"submitted"})
          BY <1>2, <1>3 DEF Ahead
        <4> QED BY <2>1, <4>1
      <3>2. h.st # "input-required"
        BY <2>6, <2>7
      <3>3. \A S : ~Sets(q, S) => ~Sets(rest, S)
        BY <1>2
      <3> QED BY <1>3, <3>1, <3>2, <3>3 DEF Ahead
    <2> QED BY <2>2, <2>5, <2>7
  <1> QED BY <1>4, <1>5 DEF h, rest

\* A message finds its task new or waiting for input.
LEMMA FoundAtRest ==
    ASSUME SettledInv, Overlap = FALSE,
           NEW e \in Exec, NEW t \in Task, NEW m \in Msg, SendMessage(e, t, m)
    PROVE  st[t] \in {"none", "input-required"}
  <1>1. Free(t) /\ st[t] \in Phase /\ st[t] \notin Terminal
    BY DEF SendMessage, SettledInv, TypeOK
  <1>2. st[t] \notin Unsettled
    <2> SUFFICES ASSUME st[t] \in Unsettled PROVE FALSE
      OBVIOUS
    <2>1. PICK f \in Exec : On(f, t) /\ Pledged(f)
      BY DEF SettledInv, NobodyLeftWorking
    <2>2. Busy(f)
      BY <2>1 DEF Pledged, SettlesAtEnd, Busy
    <2> QED BY <1>1, <2>1, <2>2 DEF Free
  <1> QED BY <1>1, <1>2 DEF Phase, Settled

\* What a run for a task at rest has ahead of it.
LEMMA AheadStart ==
    ASSUME server \in Server, NEW m \in Msg, NEW p \in {"none", "input-required"},
           NEW r \in Handlers[server][m][p].runs
    PROVE  Ahead(p, <<>>, r)
  <1>1. ~Sets(r, {"canceled"}) /\ NeverBack(r) /\ (p = "input-required" => WorksFirst(r))
    BY OrderAssumption
  <1>2. r \in Seq(Step) /\ (Settling(r) \/ Stateless(r))
    BY RunType DEF Phase, Terminal, Settled
  <1>3. ~Sets(r, {"none"}) /\ AsksLast(r)
    <2>1. CASE Settling(r)
      BY <2>1 DEF Settling, Sets, AsksLast, SetsTo, Settled
    <2>2. CASE Stateless(r)
      BY <2>2 DEF Stateless, Sets, AsksLast, SetsTo
    <2> QED BY <1>2, <2>1, <2>2
  <1>4. ~Sets(r, {"none", "canceled"})
    BY <1>1, <1>3 DEF Sets, SetsTo
  <1> QED BY <1>1, <1>3, <1>4, EmptySets DEF Ahead

\* An execution that does not change keeps its part while its task does.
LEMMA LifeFrame ==
    ASSUME NEW f \in Exec, RunAhead(f), CancelKnows(f), Same(f),
           kind[f] = "cancel" \/ BusyRun(f, task[f]) =>
             st'[task[f]] = st[task[f]] \/ (kind[f] = "cancel" /\ st'[task[f]] # "none")
    PROVE  RunAhead(f)' /\ CancelKnows(f)'
  <1>1. /\ kind'[f] = kind[f] /\ task'[f] = task[f]
        /\ script'[f] = script[f] /\ queue'[f] = queue[f]
    BY DEF Same
  <1>2. Busy(f)' <=> Busy(f)
    BY <1>1 DEF Busy
  <1>3. CancelKnows(f)'
    BY <1>1 DEF CancelKnows
  <1>4. RunAhead(f)'
    <2> SUFFICES ASSUME kind'[f] = "run", Busy(f)'
                 PROVE  Ahead(st'[task'[f]], queue'[f], script'[f])
      BY DEF RunAhead, Ahead, Sets, SetsTo, AsksLast, NeverBack, WorksFirst
    <2>1. st'[task[f]] = st[task[f]]
      BY <1>1, <1>2 DEF BusyRun
    <2>2. Ahead(st[task[f]], queue[f], script[f])
      BY <1>1, <1>2 DEF RunAhead
    <2> QED BY <1>1, <2>1, <2>2
  <1> QED BY <1>3, <1>4

\* Every step keeps each execution's part, and changes the states as the life
\* of a task allows.
LEMMA LifeStep ==
    ASSUME LifeInv, [Next]_vars, Overlap = FALSE
    PROVE  /\ \A f \in Exec : RunAhead(f)' /\ CancelKnows(f)'
           /\ [Lifecycle!LifecycleNext]_st
  <1> USE DEF TypeOK
  <1>t. /\ TypeOK /\ WellFormed /\ OneRun /\ Alone /\ Final /\ SettledInv
        /\ \A f \in Exec : RunAhead(f) /\ CancelKnows(f)
    BY DEF LifeInv, FinalInv
  <1> DEFINE Kept == \A f \in Exec : RunAhead(f)' /\ CancelKnows(f)'
             Life == [Lifecycle!LifecycleNext]_st
  \* Where no state changes only the execution that takes the step matters.
  <1>s. ASSUME NEW e \in Exec, \A f \in Exec \ {e} : Same(f), st' = st,
               RunAhead(e)' /\ CancelKnows(e)'
        PROVE  Kept /\ Life
    <2> SUFFICES ASSUME NEW f \in Exec PROVE RunAhead(f)' /\ CancelKnows(f)'
      BY <1>s
    <2>1. CASE f = e
      BY <1>s, <2>1
    <2>2. CASE f # e
      BY <1>s, <1>t, <2>2, LifeFrame
    <2> QED BY <2>1, <2>2
  <1>r. ASSUME NEW e \in Exec, kind'[e] = "run",
               Busy(e)' => Ahead(st'[task'[e]], queue'[e], script'[e])
        PROVE  RunAhead(e)' /\ CancelKnows(e)'
    BY <1>r DEF RunAhead, CancelKnows, Ahead, Sets, SetsTo, AsksLast, NeverBack, WorksFirst
  <1>c. ASSUME NEW e \in Exec, kind'[e] # "run", st'[task'[e]] # "none"
        PROVE  RunAhead(e)' /\ CancelKnows(e)'
    BY <1>c DEF RunAhead, CancelKnows
  <1>1. ASSUME NEW e \in Exec, NEW t \in Task, NEW m \in Msg, SendMessage(e, t, m)
        PROVE  Kept /\ Life
    <2>1. PICK r \in Handlers[server][m][st[t]].runs : Start(e, "run", t, r)
      BY <1>1 DEF SendMessage
    <2>2. /\ kind'[e] = "run" /\ task'[e] = t /\ script'[e] = r /\ queue'[e] = <<>>
          /\ st' = st /\ \A f \in Exec \ {e} : Same(f)
      BY <1>1, <1>t, <2>1 DEF SendMessage, Start, Same, WellFormed, ExecForm, Busy
    <2>3. st[t] \in {"none", "input-required"}
      BY <1>1, <1>t, FoundAtRest
    <2>4. Ahead(st[t], <<>>, r)
      BY <1>t, <2>3, AheadStart
    <2>5. RunAhead(e)' /\ CancelKnows(e)'
      BY <1>r, <2>2, <2>4
    <2> QED BY <1>s, <2>2, <2>5
  <1>2. ASSUME NEW e \in Exec, NEW t \in Task, NEW w \in BOOLEAN, CancelTask(e, t, w)
        PROVE  Kept /\ Life
    <2>1. /\ kind'[e] = "cancel" /\ task'[e] = t /\ st' = st /\ st[t] # "none"
          /\ \A f \in Exec \ {e} : Same(f)
      BY <1>2, <1>t DEF CancelTask, Start, Same
    <2> QED BY <1>c, <1>s, <2>1
  <1>3. ASSUME NEW e \in Exec, Emit(e) \/ Elapse(e) \/ Interrupt(e)
        PROVE  Kept /\ Life
    <2>1. /\ kind[e] = "run" /\ kind'[e] = "run" /\ task'[e] = task[e] /\ st' = st
          /\ script[e] # <<>> /\ \A f \in Exec \ {e} : Same(f)
      BY <1>3, <1>t DEF Emit, Elapse, Interrupt, Same, store
    <2>2. Ahead(st[task[e]], queue[e], script[e])
      BY <1>t, <2>1 DEF RunAhead, Busy
    <2>3. Ahead(st[task[e]], queue'[e], script'[e])
      <3>1. CASE Emit(e)
        <4>1. script'[e] = Tail(script[e]) /\ queue'[e] = Append(queue[e], Head(script[e]))
          BY <1>t, <3>1 DEF Emit
        <4> QED BY <1>t, <2>1, <2>2, <4>1, AheadEmit
      <3>2. CASE Elapse(e)
        <4>1. /\ script'[e] = Tail(script[e]) /\ queue'[e] = queue[e]
              /\ Head(script[e]).op = "delay"
          BY <1>t, <3>2 DEF Elapse
        <4> QED BY <1>t, <2>1, <2>2, <4>1, AheadElapse
      <3>3. CASE Interrupt(e)
        <4>1. script'[e] = <<>> /\ queue'[e] = queue[e]
          BY <1>t, <3>3 DEF Interrupt
        <4> QED BY <2>2, <4>1, AheadInterrupt
      <3> QED BY <1>3, <3>1, <3>2, <3>3
    <2> QED BY <1>r, <1>s, <2>1, <2>3
  <1>4. ASSUME NEW e \in Exec, RunCancel(e) \/ RefuseCancel(e)
        PROVE  Kept /\ Life
    <2>1. /\ kind[e] = "cancel" /\ kind'[e] \in {"cancel", "refused"}
          /\ task'[e] = task[e] /\ st' = st /\ \A f \in Exec \ {e} : Same(f)
      BY <1>4, <1>t DEF RunCancel, RefuseCancel, Same, store
    <2>2. st[task[e]] # "none"
      BY <1>t, <2>1 DEF CancelKnows
    <2> QED BY <1>c, <1>s, <2>1, <2>2
  <1>5. ASSUME NEW e \in Exec, Apply(e)
        PROVE  Kept /\ Life
    <2> DEFINE h == Head(queue[e])
               t == task[e]
    <2>1. /\ queue[e] # <<>> /\ queue'[e] = Tail(queue[e]) /\ script'[e] = script[e]
          /\ kind' = kind /\ task' = task /\ \A f \in Exec \ {e} : Same(f)
          /\ st' = IF h.op \in {"task", "status"} THEN [st EXCEPT ![t] = h.st] ELSE st
      BY <1>5, <1>t DEF Apply, Same
    <2>2. kind[e] \in {"run", "cancel"} /\ t \in Task
      BY <1>t, <2>1 DEF WellFormed, ExecForm, Busy
    <2>3. st[t] \in Phase \ Terminal
      BY <1>t, <2>1, <2>2 DEF Final, Quiet, On
    <2>4. /\ h.op \in {"task", "status"} =>
               h.st \in Lifecycle!Successors(st[t]) \cup {st[t]} /\ h.st # "none"
          /\ RunAhead(e)' /\ CancelKnows(e)'
      <3>1. CASE kind[e] = "run"
        <4>1. Ahead(st[t], queue[e], script[e])
          BY <1>t, <2>1, <3>1 DEF RunAhead, Busy
        <4>2. /\ h.op \notin {"task", "status"} => Ahead(st[t], Tail(queue[e]), script[e])
              /\ h.op \in {"task", "status"} =>
                   /\ h.st \in Lifecycle!Successors(st[t]) \cup {st[t]}
                   /\ h.st # "none"
                   /\ Tail(queue[e]) # <<>> \/ script[e] # <<>> =>
                        Ahead(h.st, Tail(queue[e]), script[e])
          BY <1>t, <2>1, <2>3, <4>1, AheadApply
        <4>3. st'[t] = IF h.op \in {"task", "status"} THEN h.st ELSE st[t]
          BY <1>t, <2>1, <2>2
        <4>4. Busy(e)' => Tail(queue[e]) # <<>> \/ script[e] # <<>>
          BY <2>1 DEF Busy
        <4> HIDE DEF h, t
        <4>5. Busy(e)' => Ahead(st'[t], queue'[e], script'[e])
          BY <2>1, <4>2, <4>3, <4>4
        <4> QED BY <1>r, <2>1, <3>1, <4>2, <4>5 DEF t
      <3>2. CASE kind[e] = "cancel"
        <4>1. queue[e] = <<CancelStep>> /\ st[t] # "none"
          BY <1>t, <2>1, <3>2 DEF WellFormed, ExecForm, CancelForm, CancelKnows
        <4>2. h.op \in {"task", "status"} /\ h.st = "canceled"
          BY <4>1 DEF CancelStep, TaskStep, Status
        <4>3. st'[t] = "canceled"
          BY <1>t, <2>1, <2>2, <4>2
        <4>4. h.st \in Lifecycle!Successors(st[t])
          BY <2>3, <4>1, <4>2
             DEF Lifecycle!Successors, Lifecycle!Phase, Lifecycle!Settled,
                 Lifecycle!Terminal, Lifecycle!Unsettled, Phase, Settled, Terminal, Unsettled
        <4> QED BY <1>c, <2>1, <3>2, <4>2, <4>3, <4>4
      <3> QED BY <2>2, <3>1, <3>2
    <2>5. Life
      <3>1. CASE h.op \notin {"task", "status"} \/ h.st = st[t]
        <4>1. st' = st
          BY <1>t, <2>1, <2>2, <3>1
        <4> QED BY <4>1
      <3>2. CASE h.op \in {"task", "status"} /\ h.st # st[t]
        <4>1. h.st \in Lifecycle!Successors(st[t]) /\ st' = [st EXCEPT ![t] = h.st]
          BY <2>1, <2>4, <3>2
        <4> QED BY <2>2, <4>1 DEF Lifecycle!LifecycleNext, Lifecycle!Change
      <3> QED BY <3>1, <3>2
    <2>6. ASSUME NEW f \in Exec, f # e PROVE RunAhead(f)' /\ CancelKnows(f)'
      <3>1. task[f] # t => st'[task[f]] = st[task[f]]
        BY <1>t, <2>1, <2>2
      <3>2. task[f] = t => ~BusyRun(f, t)
        <4>1. CASE kind[e] = "run"
          <5>1. BusyRun(e, t)
            BY <2>1, <4>1 DEF BusyRun, Busy
          <5> QED BY <1>t, <2>2, <2>6, <5>1 DEF OneRun
        <4>2. CASE kind[e] = "cancel"
          <5>1. Sending(e, t)
            BY <2>1, <4>2 DEF Sending
          <5>2. Quiet(f, t)
            BY <1>t, <2>2, <2>6, <5>1 DEF Alone
          <5> QED BY <5>2 DEF Quiet, On, BusyRun
        <4> QED BY <2>2, <4>1, <4>2
      <3>3. task[f] = t /\ kind[f] = "cancel" => st'[task[f]] # "none"
        <4>1. kind[f] = "cancel" => st[task[f]] # "none"
          BY <1>t DEF CancelKnows
        <4>2. st'[t] = IF h.op \in {"task", "status"} THEN h.st ELSE st[t]
          BY <1>t, <2>1, <2>2
        <4> HIDE DEF h
        <4> QED BY <2>4, <4>1, <4>2
      <3> HIDE DEF t
      <3> QED BY <1>t, <2>1, <2>6, <3>1, <3>2, <3>3, LifeFrame
    <2> QED BY <2>4, <2>5, <2>6
  <1>6. CASE UNCHANGED vars
    <2>1. st' = st /\ \A f \in Exec : Same(f)
      BY <1>6 DEF vars, Same
    <2> QED BY <1>t, <2>1, LifeFrame
  <1> QED BY <1>1, <1>2, <1>3, <1>4, <1>5, <1>6 DEF Next

\* The invariant of the life of the tasks is kept.
LEMMA LifeNext ==
    ASSUME Overlap = FALSE PROVE LifeInv /\ [Next]_vars => LifeInv'
  <1> SUFFICES ASSUME LifeInv, [Next]_vars PROVE LifeInv'
    OBVIOUS
  <1>1. FinalInv'
    BY FinalNext DEF LifeInv
  <1>2. SettledInv'
    BY TypeNext, WellFormedNext, StoppedNext, LeftNext DEF LifeInv, SettledInv
  <1> QED BY <1>1, <1>2, LifeStep DEF LifeInv

\* The agents implement TaskLifecycle, where a task never has two executions
\* at once: every task starts unknown to the store, and every change of its
\* state, by whichever handler, late event or cancel, is one that may follow.
THEOREM LivesSafely == ASSUME Overlap = FALSE PROVE Spec => Lifecycle!SafeSpec
  <1>1. Init => LifeInv /\ Lifecycle!LifecycleInit
    BY FinalInit, SettledInit
       DEF Init, LifeInv, RunAhead, CancelKnows, Lifecycle!LifecycleInit
  <1>2. LifeInv /\ [Next]_vars => LifeInv' /\ [Lifecycle!LifecycleNext]_st
    BY LifeNext, LifeStep
  <1> QED BY <1>1, <1>2, PTL DEF Spec, Lifecycle!SafeSpec

-----------------------------------------------------------------------------
(* A cancel's metadata.  That a cancel has left its metadata on the task is*)
(* not inductive: a later event could put it off again.  None comes, since *)
(* the cancel has ended its task.                                          *)

Done(e) == kind[e] = "cancel" /\ ~Busy(e)
EchoInv ==
    \A e \in Exec : Done(e) /\ md[e] /\ server \in EchoesMetadata =>
        meta[task[e]] /\ st[task[e]] \in Terminal

\* A step that is no event's leaves the tasks and what is done as they are.
LEMMA EchoFrame ==
    ASSUME EchoInv, UNCHANGED <<server, st, meta>>,
           \A e \in Exec : Done(e)' => Done(e) /\ task'[e] = task[e] /\ md'[e] = md[e]
    PROVE  EchoInv'
  BY DEF EchoInv

\* Every step keeps what a finished cancel has left.
LEMMA EchoNext == FinalInv /\ EchoInv /\ [Next]_vars => EchoInv'
  <1> SUFFICES ASSUME FinalInv, EchoInv, [Next]_vars PROVE EchoInv'
    OBVIOUS
  <1>t. TypeOK /\ WellFormed /\ Final
    BY DEF FinalInv
  <1> USE DEF TypeOK
  <1>1. ASSUME NEW e \in Exec, NEW t \in Task, NEW m \in Msg, SendMessage(e, t, m)
        PROVE EchoInv'
    <2>1. PICK r \in Handlers[server][m][st[t]].runs : Start(e, "run", t, r)
      BY <1>1 DEF SendMessage
    <2>2. \A f \in Exec : Done(f)' => Done(f) /\ task'[f] = task[f] /\ md'[f] = md[f]
      BY <1>1, <1>t, <2>1 DEF SendMessage, Start, Done, Busy
    <2> QED BY <1>1, <2>2, EchoFrame DEF SendMessage
  <1>2. ASSUME NEW e \in Exec, NEW t \in Task, NEW w \in BOOLEAN, CancelTask(e, t, w)
        PROVE EchoInv'
    <2>1. script'[e] # <<>>
      BY <1>2, <1>t DEF CancelTask, Start
    <2>2. \A f \in Exec : Done(f)' => Done(f) /\ task'[f] = task[f] /\ md'[f] = md[f]
      BY <1>2, <1>t, <2>1 DEF CancelTask, Start, Done, Busy
    <2> QED BY <1>2, <2>2, EchoFrame DEF CancelTask
  <1>3. ASSUME NEW e \in Exec, Emit(e) \/ Elapse(e) \/ Interrupt(e) PROVE EchoInv'
    <2>1. /\ UNCHANGED <<server, st, meta, kind, task, md>> /\ kind[e] = "run"
          /\ \A f \in Exec \ {e} : script'[f] = script[f] /\ queue'[f] = queue[f]
      BY <1>3, <1>t DEF Emit, Elapse, Interrupt, store
    <2>2. \A f \in Exec : Done(f)' => Done(f)
      BY <2>1 DEF Done, Busy
    <2> QED BY <2>1, <2>2, EchoFrame
  <1>4. ASSUME NEW e \in Exec, RunCancel(e) PROVE EchoInv'
    <2>1. /\ UNCHANGED <<server, st, meta, kind, task, md>>
          /\ \A f \in Exec \ {e} : script'[f] = script[f] /\ queue'[f] = queue[f]
          /\ queue'[e] = Append(queue[e], Head(script[e])) /\ script[e] # <<>>
      BY <1>4, <1>t DEF RunCancel, store
    <2>2. queue'[e] # <<>>
      BY <1>t, <2>1, HeadAndTail, AppendLast
    <2>3. \A f \in Exec : Done(f)' => Done(f)
      BY <2>1, <2>2 DEF Done, Busy
    <2> QED BY <2>1, <2>3, EchoFrame
  <1>5. ASSUME NEW e \in Exec, RefuseCancel(e) PROVE EchoInv'
    <2>1. \A f \in Exec : Done(f)' => Done(f)
      BY <1>5, <1>t DEF RefuseCancel, Done, Busy
    <2> QED BY <1>5, <2>1, EchoFrame DEF RefuseCancel, store
  <1>6. ASSUME NEW e \in Exec, Apply(e) PROVE EchoInv'
    <2> DEFINE t == task[e]
               h == Head(queue[e])
               b == Echoes(e) \/ (h.op = "status" /\ meta[t])
    <2>1. /\ queue[e] # <<>> /\ queue' = [queue EXCEPT ![e] = Tail(queue[e])]
          /\ UNCHANGED <<server, kind, task, script, md>>
          /\ st' = IF h.op \in {"task", "status"} THEN [st EXCEPT ![t] = h.st] ELSE st
          /\ meta' = IF h.op \in {"task", "status"} THEN [meta EXCEPT ![t] = b] ELSE meta
      BY <1>6 DEF Apply
    <2>2. kind[e] \in {"run", "cancel"} /\ t \in Task
      BY <1>t, <2>1 DEF WellFormed, ExecForm, Busy
    <2>3. st[t] \notin Terminal
      BY <1>t, <2>1, <2>2 DEF Final, Quiet, On
    <2>4. \A f \in Exec \ {e} : Done(f)' <=> Done(f)
      BY <1>t, <2>1 DEF Done, Busy
    <2>5. \A u \in Task : u # t => st'[u] = st[u] /\ meta'[u] = meta[u]
      BY <1>t, <2>1
    <2>6. ASSUME kind[e] = "cancel"
          PROVE  st'[t] = "canceled" /\ (md[e] /\ server \in EchoesMetadata => meta'[t])
      <3>1. queue[e] = <<CancelStep>>
        BY <1>t, <2>1, <2>6 DEF WellFormed, ExecForm, CancelForm
      <3>2. h.op \in {"task", "status"} /\ h.st = "canceled"
        BY <3>1 DEF CancelStep, TaskStep, Status
      <3>3. md[e] /\ server \in EchoesMetadata => b
        BY <2>6 DEF Echoes
      <3> HIDE DEF b, h
      <3> QED BY <1>t, <2>1, <2>2, <3>2, <3>3
    <2> HIDE DEF t
    <2> SUFFICES ASSUME NEW f \in Exec, Done(f)', md'[f], server' \in EchoesMetadata
                 PROVE  meta'[task'[f]] /\ st'[task'[f]] \in Terminal
      BY DEF EchoInv
    <2>7. CASE f = e
      BY <2>1, <2>2, <2>6, <2>7 DEF Done, Terminal, t
    <2>8. CASE f # e
      <3>1. meta[task[f]] /\ st[task[f]] \in Terminal
        BY <2>1, <2>4, <2>8 DEF EchoInv
      <3>2. task[f] # t
        BY <2>3, <3>1
      <3> QED BY <1>t, <2>1, <2>5, <3>1, <3>2
    <2> QED BY <2>7, <2>8
  <1>7. CASE UNCHANGED vars
    BY <1>7, EchoFrame DEF vars, Done, Busy
  <1> QED BY <1>1, <1>2, <1>3, <1>4, <1>5, <1>6, <1>7 DEF Next

\* A cancel that took effect leaves its metadata on the task for good, where
\* the cancel handler copies it: no event of the run it stopped puts it off.
THEOREM MetadataStays == ASSUME Overlap = FALSE PROVE Spec => []MetadataEchoed
  <1>1. Init => FinalInv /\ EchoInv
    BY FinalInit DEF Init, EchoInv, Done
  <1>2. FinalInv /\ EchoInv /\ [Next]_vars => (FinalInv /\ EchoInv)'
    BY FinalNext, EchoNext
  <1>3. EchoInv => MetadataEchoed
    BY DEF EchoInv, Done, MetadataEchoed, CancelEchoesMetadata
  <1> QED BY <1>1, <1>2, <1>3, PTL DEF Spec

-----------------------------------------------------------------------------
(* Streamed artifacts are whole, when executions of a task do not overlap. *)
(*                                                                         *)
(* A completed task is the work of turns, and of events that come in one by*)
(* one.  The invariant says of the events that a run still has to deliver, *)
(* what waits and then what is left of the script, that they go on from    *)
(* what the task holds already (Promising); that a task at rest holds whole*)
(* artifacts only, for the next turn to start from; and which runs deliver *)
(* all they have promised (Live): not those that a cancel has stopped, for *)
(* which the cancel answers.                                               *)

InOrder(c) == \A i \in 1 .. Len(c.chunks) : c.chunks[i] = i
Open(c) == Len(c.chunks) > 1 /\ ~c.closed
AllWhole(c) == \A k \in ArtifactId : InOrder(c[k]) /\ ~Open(c[k])

\* Step i of s is the first for its artifact, and its chunk the next of c.
Continues(e, c, s, i) ==
    /\ \A j \in 1 .. Len(s) : j < i => ~SameArtifact(s[j], s[i]) /\ s[j].op # "task"
    /\ Key(e, s[i].id) \in ArtifactId => s[i].chunk = Len(c[Key(e, s[i].id)].chunks) + 1

InPlace(e, c, s, i) ==
    IF s[i].append THEN (\E j \in 1 .. Len(s) : Follows(s, j, i)) \/ Continues(e, c, s, i)
    ELSE s[i].chunk = 1

ToCome(e, k, s) ==
    \E i \in 1 .. Len(s) : s[i].op = "artifact" /\ Key(e, s[i].id) = k

\* The chunks that are there and those to come leave no hole.
Steady(e, c, s) ==
    /\ \A k \in ArtifactId : InOrder(c[k])
    /\ \A i \in 1 .. Len(s) : s[i].op = "artifact" => InPlace(e, c, s, i)

Promising(e, c, s) ==
    /\ Steady(e, c, s)
    /\ \A k \in ArtifactId : Open(c[k]) => ToCome(e, k, s)
    /\ GoesOn(s)

\* w is s without its step p.
Past(p, i) == IF i < p THEN i ELSE i + 1
Removed(s, p, w) ==
    /\ p \in 1 .. Len(s) /\ Len(s) = Len(w) + 1
    /\ \A i \in 1 .. Len(w) : w[i] = s[Past(p, i)]

\* The places of w in s.
LEMMA PastPlaces ==
    ASSUME NEW n \in Nat, NEW p \in 1 .. n + 1
    PROVE  /\ \A i \in 1 .. n : Past(p, i) \in 1 .. n + 1 /\ Past(p, i) # p
           /\ \A i, j \in 1 .. n : i < j <=> Past(p, i) < Past(p, j)
           /\ \A j \in 1 .. n + 1 : j # p => \E i \in 1 .. n : Past(p, i) = j
           /\ \A i \in 1 .. n : p = 1 => p < Past(p, i)
  <1>1. /\ \A i \in 1 .. n : Past(p, i) \in 1 .. n + 1 /\ Past(p, i) # p
        /\ \A i, j \in 1 .. n : i < j <=> Past(p, i) < Past(p, j)
        /\ \A i \in 1 .. n : p = 1 => p < Past(p, i)
    BY DEF Past
  <1>2. ASSUME NEW j \in 1 .. n + 1, j # p PROVE \E i \in 1 .. n : Past(p, i) = j
    <2>1. CASE j < p
      <3>1. j \in 1 .. n /\ Past(p, j) = j
        BY <2>1 DEF Past
      <3> QED BY <3>1
    <2>2. CASE p < j
      <3>1. j - 1 \in 1 .. n /\ Past(p, j - 1) = j
        BY <2>2 DEF Past
      <3> QED BY <3>1
    <2> QED BY <1>2, <2>1, <2>2
  <1> QED BY <1>1, <1>2

\* The facts that the lemmas on w use.
LEMMA RemovedPlaces ==
    ASSUME NEW s \in Seq(Step), NEW w \in Seq(Step), NEW p, Removed(s, p, w)
    PROVE  /\ Len(w) \in Nat /\ p \in 1 .. Len(w) + 1 /\ Len(s) = Len(w) + 1
           /\ \A i \in 1 .. Len(w) : /\ w[i] = s[Past(p, i)]
                                     /\ Past(p, i) \in 1 .. Len(s)
                                     /\ p = 1 => p < Past(p, i)
           /\ \A i, j \in 1 .. Len(w) : i < j <=> Past(p, i) < Past(p, j)
           /\ \A j \in 1 .. Len(s) : j # p => \E i \in 1 .. Len(w) : Past(p, i) = j
  <1> DEFINE n == Len(w)
  <1>1. /\ n \in Nat /\ p \in 1 .. n + 1 /\ Len(s) = n + 1
        /\ \A i \in 1 .. n : w[i] = s[Past(p, i)]
    BY DEF Removed
  <1> HIDE DEF n
  <1>2. /\ \A i \in 1 .. n : Past(p, i) \in 1 .. n + 1 /\ Past(p, i) # p
        /\ \A i, j \in 1 .. n : i < j <=> Past(p, i) < Past(p, j)
        /\ \A j \in 1 .. n + 1 : j # p => \E i \in 1 .. n : Past(p, i) = j
        /\ \A i \in 1 .. n : p = 1 => p < Past(p, i)
    BY <1>1, PastPlaces
  <1> QED BY <1>1, <1>2 DEF n

\* A chunk that follows another one in s follows it in w.
LEMMA RemovedFollows ==
    ASSUME NEW s \in Seq(Step), NEW w \in Seq(Step), NEW p, Removed(s, p, w),
           NEW i \in 1 .. Len(w), NEW y \in 1 .. Len(s), y # p, Follows(s, y, Past(p, i))
    PROVE  \E j \in 1 .. Len(w) : Follows(w, j, i)
  <1>1. PICK j \in 1 .. Len(w) : Past(p, j) = y
    BY RemovedPlaces
  <1> DEFINE x == Past(p, i)
  <1>2. w[i] = s[x] /\ w[j] = s[y] /\ (y < x => j < i)
    BY <1>1, RemovedPlaces
  <1>3. \A k \in 1 .. Len(w) : /\ w[k] = s[Past(p, k)] /\ Past(p, k) \in 1 .. Len(s)
                               /\ j < k /\ k < i => y < Past(p, k) /\ Past(p, k) < x
    BY <1>1, RemovedPlaces
  <1>4. Follows(s, y, x)
    OBVIOUS
  <1> HIDE DEF x
  <1>5. Follows(w, j, i)
    BY <1>2, <1>3, <1>4 DEF Follows
  <1> QED BY <1>5

\* A run that goes on does so when a step goes that is no artifact's, or the
\* first.
LEMMA RemovedGoesOn ==
    ASSUME NEW s \in Seq(Step), NEW w \in Seq(Step), NEW p, Removed(s, p, w),
           s[p].op # "artifact" \/ p = 1, GoesOn(s)
    PROVE  GoesOn(w)
  <1> SUFFICES ASSUME NEW i \in 1 .. Len(w),
                      w[i].op = "artifact", w[i].chunk > 1, ~w[i].last
               PROVE  \E j \in 1 .. Len(w) : i < j /\ SameArtifact(w[j], w[i])
    BY DEF GoesOn
  <1> DEFINE x == Past(p, i)
  <1>1. x \in 1 .. Len(s) /\ w[i] = s[x] /\ (p = 1 => p < x)
    BY RemovedPlaces
  <1> HIDE DEF x
  <1>2. PICK y \in 1 .. Len(s) : x < y /\ SameArtifact(s[y], s[x])
    BY <1>1 DEF GoesOn
  <1>3. y # p
    <2>1. s[y].op = "artifact"
      BY <1>2 DEF SameArtifact
    <2> QED BY <1>1, <1>2, <2>1
  <1>4. PICK j \in 1 .. Len(w) : Past(p, j) = y
    BY <1>3, RemovedPlaces
  <1>5. i < j /\ w[j] = s[y]
    BY <1>2, <1>4, RemovedPlaces DEF x
  <1> QED BY <1>1, <1>2, <1>5

\* What is to come in s is to come in w, but for what goes.
LEMMA RemovedToCome ==
    ASSUME NEW s \in Seq(Step), NEW w \in Seq(Step), NEW p, Removed(s, p, w),
           NEW e, NEW k, ToCome(e, k, s), ~(s[p].op = "artifact" /\ Key(e, s[p].id) = k)
    PROVE  ToCome(e, k, w)
  <1>1. PICK y \in 1 .. Len(s) : s[y].op = "artifact" /\ Key(e, s[y].id) = k
    BY DEF ToCome
  <1>2. PICK j \in 1 .. Len(w) : Past(p, j) = y
    BY <1>1, RemovedPlaces
  <1>3. w[j] = s[y]
    BY <1>2, RemovedPlaces
  <1> QED BY <1>1, <1>3 DEF ToCome

\* A step that is neither an artifact's nor a whole task goes: no hole appears.
LEMMA SteadySkips ==
    ASSUME NEW e \in Exec, NEW c \in [ArtifactId -> Content],
           NEW s \in Seq(Step), NEW w \in Seq(Step), NEW p, Removed(s, p, w),
           s[p].op \notin {"artifact", "task"}, Steady(e, c, s)
    PROVE  Steady(e, c, w)
  <1>1. s[p].op # "artifact" /\ s[p].op # "task"
    OBVIOUS
  <1>2. ASSUME NEW i \in 1 .. Len(w), w[i].op = "artifact" PROVE InPlace(e, c, w, i)
    <2> DEFINE x == Past(p, i)
    <2>1. x \in 1 .. Len(s) /\ w[i] = s[x]
      BY RemovedPlaces
    <2>2. InPlace(e, c, s, x)
      BY <1>2, <2>1 DEF Steady
    <2>3. ASSUME NEW y \in 1 .. Len(s), Follows(s, y, x)
          PROVE  \E j \in 1 .. Len(w) : Follows(w, j, i)
      <3>1. y # p
        BY <1>1, <2>3 DEF Follows, SameArtifact
      <3> QED BY <2>3, <3>1, RemovedFollows
    <2>4. ASSUME Continues(e, c, s, x) PROVE Continues(e, c, w, i)
      BY <2>1, <2>4, RemovedPlaces DEF Continues
    <2> HIDE DEF x
    <2>5. CASE w[i].append
      <3>1. (\E y \in 1 .. Len(s) : Follows(s, y, x)) \/ Continues(e, c, s, x)
        BY <2>1, <2>2, <2>5 DEF InPlace
      <3> QED BY <2>3, <2>4, <2>5, <3>1 DEF InPlace
    <2>6. CASE ~w[i].append
      BY <2>1, <2>2, <2>6 DEF InPlace
    <2> QED BY <2>5, <2>6
  <1> QED BY <1>2 DEF Steady

\* A step that is neither an artifact's nor a whole task goes: what is promised
\* stays the same.
LEMMA PromiseSkips ==
    ASSUME NEW e \in Exec, NEW c \in [ArtifactId -> Content],
           NEW s \in Seq(Step), NEW w \in Seq(Step), NEW p, Removed(s, p, w),
           s[p].op \notin {"artifact", "task"}, Promising(e, c, s)
    PROVE  Promising(e, c, w)
  <1>1. s[p].op # "artifact" /\ s[p].op # "task"
    OBVIOUS
  <1>2. GoesOn(w)
    BY <1>1, RemovedGoesOn DEF Promising
  <1>3. ASSUME NEW k \in ArtifactId, Open(c[k]) PROVE ToCome(e, k, w)
    BY <1>1, <1>3, RemovedToCome DEF Promising
  <1>4. Steady(e, c, w)
    BY SteadySkips DEF Promising
  <1> QED BY <1>2, <1>3, <1>4 DEF Promising

\* Artifacts of different identifiers are kept apart.
LEMMA KeyOwn ==
    ASSUME NEW e \in Exec, NEW a \in ArtifactName \cup {TurnArtifact, NoArtifact},
           NEW b \in ArtifactName \cup {TurnArtifact, NoArtifact}, a # b
    PROVE  Key(e, a) # Key(e, b)
  BY ChunksAssumption DEF Key

\* A chunk concerns one artifact of a task.
LEMMA UpdateOnly ==
    ASSUME NEW c \in [ArtifactId -> Content], NEW k, NEW s \in Step, NEW j \in ArtifactId
    PROVE  j # k => Update(c, k, s)[j] = c[j]
  BY DEF Update

\* What a chunk makes of the artifact it is for.
LEMMA UpdateChunks ==
    ASSUME NEW c \in [ArtifactId -> Content], NEW k \in ArtifactId, NEW s \in Step
    PROVE  Update(c, k, s)[k].chunks =
             (IF s.append THEN c[k].chunks ELSE <<>>) \o <<s.chunk>>
  BY DEF Update

\* What a chunk makes of the flag of the artifact it is for.
LEMMA UpdateClosed ==
    ASSUME NEW c \in [ArtifactId -> Content], NEW k \in ArtifactId, NEW s \in Step
    PROVE  Update(c, k, s)[k].closed = s.last
  BY DEF Update

\* The next chunk goes where it belongs.
LEMMA NextChunk ==
    ASSUME NEW q \in Seq(Nat), \A i \in 1 .. Len(q) : q[i] = i
    PROVE  /\ Len(q \o <<Len(q) + 1>>) = Len(q) + 1
           /\ \A i \in 1 .. Len(q) + 1 : (q \o <<Len(q) + 1>>)[i] = i
  OBVIOUS

\* The first step is an artifact's: its chunk goes where it belongs, and those to
\* come go on from there.
LEMMA SteadyChunk ==
    ASSUME NEW e \in Exec, NEW c \in [ArtifactId -> Content],
           NEW s \in Seq(Step), NEW w \in Seq(Step), Removed(s, 1, w),
           s[1].op = "artifact", Steady(e, c, s)
    PROVE  LET k0 == Key(e, s[1].id)
               d == Update(c, k0, s[1])
           IN  /\ Steady(e, d, w)
               /\ k0 \in ArtifactId => Len(d[k0].chunks) = s[1].chunk
  <1> DEFINE h == s[1]
             k0 == Key(e, h.id)
             d == Update(c, k0, h)
  <1>1. 1 \in 1 .. Len(s) /\ h \in Step /\ InPlace(e, c, s, 1) /\ h = s[1]
    BY DEF Removed, Steady
  <1>3. \A k \in ArtifactId : k # k0 => d[k] = c[k]
    BY <1>1, UpdateOnly
  <1>4. k0 \in ArtifactId =>
          d[k0].chunks = (IF h.append THEN c[k0].chunks ELSE <<>>) \o <<h.chunk>>
    BY <1>1, UpdateChunks
  <1>0. k0 = Key(e, h.id)
    OBVIOUS
  <1> HIDE DEF h, k0, d
  <1>5. ASSUME k0 \in ArtifactId PROVE InOrder(d[k0]) /\ Len(d[k0].chunks) = h.chunk
    <2> DEFINE q == IF h.append THEN c[k0].chunks ELSE <<>>
    <2>1. q \in Seq(Nat)
      BY <1>5 DEF Content
    <2>2. (\A i \in 1 .. Len(q) : q[i] = i) /\ h.chunk = Len(q) + 1
      <3>1. CASE h.append
        <4>1. \A y \in 1 .. Len(s) : ~Follows(s, y, 1)
          BY <1>1 DEF Follows
        <4>2. Continues(e, c, s, 1)
          BY <1>1, <3>1, <4>1 DEF InPlace
        <4>3. h.chunk = Len(c[k0].chunks) + 1
          BY <1>0, <1>1, <1>5, <4>2 DEF Continues
        <4> QED BY <1>5, <3>1, <4>3 DEF Steady, InOrder
      <3>2. CASE ~h.append
        BY <1>1, <3>2, EmptyLen DEF InPlace
      <3> QED BY <3>1, <3>2
    <2>3. d[k0].chunks = q \o <<h.chunk>>
      BY <1>4, <1>5
    <2> HIDE DEF q
    <2> QED BY <2>1, <2>2, <2>3, NextChunk DEF InOrder
  <1>6. \A k \in ArtifactId : InOrder(d[k])
    BY <1>3, <1>5 DEF Steady
  <1>8. ASSUME NEW i \in 1 .. Len(w), w[i].op = "artifact" PROVE InPlace(e, d, w, i)
    <2> DEFINE x == Past(1, i)
    <2>1. x \in 1 .. Len(s) /\ w[i] = s[x] /\ 1 < x /\ w[i] \in Step
      BY RemovedPlaces
    <2>p. \A j \in 1 .. Len(w) : /\ w[j] = s[Past(1, j)] /\ Past(1, j) \in 1 .. Len(s)
                                 /\ 1 < Past(1, j) /\ (j < i => Past(1, j) < x)
      BY RemovedPlaces
    <2>2. InPlace(e, c, s, x)
      BY <1>8, <2>1 DEF Steady
    <2>3. ASSUME NEW y \in 1 .. Len(s), y # 1, Follows(s, y, x)
          PROVE  \E j \in 1 .. Len(w) : Follows(w, j, i)
      BY <2>3, RemovedFollows
    <2> HIDE DEF x
    <2>4. ASSUME Follows(s, 1, x) PROVE Continues(e, d, w, i)
      <3>1. \A j \in 1 .. Len(w) : j < i => ~SameArtifact(w[j], w[i]) /\ w[j].op # "task"
        BY <2>1, <2>p, <2>4 DEF Follows
      <3>2. w[i].id = h.id /\ w[i].chunk = h.chunk + 1
        BY <1>1, <2>1, <2>4 DEF Follows, SameArtifact
      <3>3. k0 \in ArtifactId => w[i].chunk = Len(d[k0].chunks) + 1
        BY <1>5, <3>2
      <3> QED BY <1>0, <3>1, <3>2, <3>3 DEF Continues
    <2>5. ASSUME Continues(e, c, s, x) PROVE Continues(e, d, w, i)
      <3>1. \A j \in 1 .. Len(w) : j < i => ~SameArtifact(w[j], w[i]) /\ w[j].op # "task"
        BY <2>1, <2>p, <2>5 DEF Continues
      <3>2. h.id # w[i].id
        <4>1. ~SameArtifact(h, w[i])
          BY <1>1, <2>1, <2>5 DEF Continues
        <4> QED BY <1>1, <1>8, <4>1 DEF SameArtifact
      <3>3. Key(e, w[i].id) # k0
        <4>1. /\ h.id \in ArtifactName \cup {TurnArtifact, NoArtifact}
              /\ w[i].id \in ArtifactName \cup {TurnArtifact, NoArtifact}
          BY <1>1, <2>1 DEF Step
        <4> QED BY <1>0, <3>2, <4>1, KeyOwn
      <3>4. Key(e, w[i].id) \in ArtifactId =>
              w[i].chunk = Len(d[Key(e, w[i].id)].chunks) + 1
        <4>1. Key(e, w[i].id) \in ArtifactId =>
                w[i].chunk = Len(c[Key(e, w[i].id)].chunks) + 1
          BY <2>1, <2>5 DEF Continues
        <4> QED BY <1>3, <3>3, <4>1
      <3> QED BY <3>1, <3>4 DEF Continues
    <2>6. CASE w[i].append
      <3>1. (\E y \in 1 .. Len(s) : Follows(s, y, x)) \/ Continues(e, c, s, x)
        BY <2>1, <2>2, <2>6 DEF InPlace
      <3> QED BY <2>3, <2>4, <2>5, <2>6, <3>1 DEF InPlace
    <2>7. CASE ~w[i].append
      BY <2>1, <2>2, <2>7 DEF InPlace
    <2> QED BY <2>6, <2>7
  <1>9. Steady(e, d, w) /\ (k0 \in ArtifactId => Len(d[k0].chunks) = h.chunk)
    BY <1>5, <1>6, <1>8 DEF Steady
  <1> QED BY <1>9 DEF d, k0, h

\* The first step is an artifact's: the task gets the chunk that was promised,
\* and what is promised goes on from there.
LEMMA PromiseChunk ==
    ASSUME NEW e \in Exec, NEW c \in [ArtifactId -> Content],
           NEW s \in Seq(Step), NEW w \in Seq(Step), Removed(s, 1, w),
           s[1].op = "artifact", Promising(e, c, s)
    PROVE  Promising(e, Update(c, Key(e, s[1].id), s[1]), w)
  <1> DEFINE h == s[1]
             k0 == Key(e, h.id)
             d == Update(c, k0, h)
  <1>1. 1 \in 1 .. Len(s) /\ h \in Step /\ GoesOn(s) /\ h = s[1]
    BY DEF Removed, Promising
  <1>2. GoesOn(w)
    BY <1>1, RemovedGoesOn
  <1>3. \A k \in ArtifactId : k # k0 => d[k] = c[k]
    BY <1>1, UpdateOnly
  <1>4. k0 \in ArtifactId =>
          /\ d[k0].chunks = (IF h.append THEN c[k0].chunks ELSE <<>>) \o <<h.chunk>>
          /\ d[k0].closed = h.last
    BY <1>1, UpdateChunks, UpdateClosed
  <1>0. k0 = Key(e, h.id)
    OBVIOUS
  <1> HIDE DEF h, k0, d
  <1>5. /\ Steady(e, d, w)
        /\ k0 \in ArtifactId => Len(d[k0].chunks) = h.chunk
    <2>1. Steady(e, c, s)
      BY DEF Promising
    <2> QED BY <2>1, SteadyChunk DEF d, k0, h
  <1>6. ASSUME k0 \in ArtifactId, Open(d[k0]) PROVE ToCome(e, k0, w)
    <2>1. h.chunk > 1 /\ ~h.last
      BY <1>4, <1>5, <1>6 DEF Open
    <2>2. PICK y \in 1 .. Len(s) : 1 < y /\ SameArtifact(s[y], h)
      BY <1>1, <2>1 DEF GoesOn
    <2>3. PICK i \in 1 .. Len(w) : Past(1, i) = y
      BY <2>2, RemovedPlaces
    <2>4. w[i] = s[y]
      BY <2>3, RemovedPlaces
    <2> QED BY <1>0, <2>2, <2>4 DEF ToCome, SameArtifact
  <1>7. ASSUME NEW k \in ArtifactId PROVE Open(d[k]) => ToCome(e, k, w)
    <2>1. CASE k = k0
      BY <1>6, <2>1
    <2>2. CASE k # k0
      <3>1. Open(c[k]) => ToCome(e, k, s)
        BY DEF Promising
      <3>2. ToCome(e, k, s) => ToCome(e, k, w)
        BY <1>0, <1>1, <2>2, RemovedToCome
      <3> QED BY <1>3, <2>2, <3>1, <3>2
    <2> QED BY <2>1, <2>2
  <1>8. Promising(e, d, w)
    BY <1>2, <1>5, <1>7 DEF Promising
  <1> QED BY <1>8 DEF d, k0, h

\* The first step is a whole task without artifacts: those to come start anew.
LEMMA SteadyTask ==
    ASSUME NEW e \in Exec, NEW c \in [ArtifactId -> Content],
           NEW s \in Seq(Step), NEW w \in Seq(Step), Removed(s, 1, w),
           s[1].op = "task", Steady(e, c, s)
    PROVE  Steady(e, NoArts, w)
  <1>1. 1 \in 1 .. Len(s)
    BY DEF Removed
  <1>3. ASSUME NEW k \in ArtifactId PROVE InOrder(NoArts[k])
    BY EmptyLen DEF NoArts, Absent, InOrder
  <1>4. ASSUME NEW i \in 1 .. Len(w), w[i].op = "artifact" PROVE InPlace(e, NoArts, w, i)
    <2> DEFINE x == Past(1, i)
    <2>1. x \in 1 .. Len(s) /\ w[i] = s[x] /\ 1 < x
      BY RemovedPlaces
    <2>2. InPlace(e, c, s, x)
      BY <1>4, <2>1 DEF Steady
    <2>3. ASSUME NEW y \in 1 .. Len(s), Follows(s, y, x)
          PROVE  \E j \in 1 .. Len(w) : Follows(w, j, i)
      <3>1. y # 1
        BY <2>3 DEF Follows, SameArtifact
      <3> QED BY <2>3, <3>1, RemovedFollows
    <2>4. ~Continues(e, c, s, x)
      BY <1>1, <2>1 DEF Continues
    <2> HIDE DEF x
    <2>5. CASE w[i].append
      <3>1. (\E y \in 1 .. Len(s) : Follows(s, y, x)) \/ Continues(e, c, s, x)
        BY <2>1, <2>2, <2>5 DEF InPlace
      <3> QED BY <2>3, <2>4, <2>5, <3>1 DEF InPlace
    <2>6. CASE ~w[i].append
      BY <2>1, <2>2, <2>6 DEF InPlace
    <2> QED BY <2>5, <2>6
  <1> QED BY <1>3, <1>4 DEF Steady

\* The first step is a whole task without artifacts: what comes after it goes
\* on from none.
LEMMA PromiseTask ==
    ASSUME NEW e \in Exec, NEW c \in [ArtifactId -> Content],
           NEW s \in Seq(Step), NEW w \in Seq(Step), Removed(s, 1, w),
           s[1].op = "task", Promising(e, c, s)
    PROVE  Promising(e, NoArts, w)
  <1>1. Steady(e, NoArts, w)
    BY SteadyTask DEF Promising
  <1>2. GoesOn(w)
    BY RemovedGoesOn DEF Promising
  <1>3. ASSUME NEW k \in ArtifactId PROVE ~Open(NoArts[k])
    BY EmptyLen DEF NoArts, Absent, Open
  <1> QED BY <1>1, <1>2, <1>3 DEF Promising

\* A run starts without holes.
LEMMA SteadyStart ==
    ASSUME NEW e \in Exec, NEW c \in [ArtifactId -> Content],
           \A k \in ArtifactId : InOrder(c[k]),
           server \in Server, NEW m \in Msg, NEW p \in {"none", "input-required"},
           NEW r \in Handlers[server][m][p].runs
    PROVE  Steady(e, c, r)
  <1>1. InSequence(r)
    BY ChunksAssumption
  <1> QED BY <1>1 DEF InSequence, InPlace, Steady

\* A run that starts on whole artifacts promises them.
LEMMA PromiseStart ==
    ASSUME NEW e \in Exec, NEW c \in [ArtifactId -> Content], AllWhole(c),
           server \in Server, NEW m \in Msg, NEW p \in {"none", "input-required"},
           NEW r \in Handlers[server][m][p].runs
    PROVE  Promising(e, c, r)
  <1>1. GoesOn(r)
    BY ChunksAssumption
  <1>2. Steady(e, c, r)
    BY SteadyStart DEF AllWhole
  <1> QED BY <1>1, <1>2 DEF Promising, AllWhole

\* Where nothing is to come the promise is kept.
LEMMA PromiseDone ==
    ASSUME NEW e \in Exec, NEW c \in [ArtifactId -> Content], Promising(e, c, <<>>)
    PROVE  AllWhole(c)
  BY EmptyLen DEF Promising, Steady, AllWhole, ToCome
-----------------------------------------------------------------------------
(* What a run still has to deliver: what waits, then its script.           *)

\* The next event goes from the script to the queue.
LEMMA PassOn ==
    ASSUME NEW q \in Seq(Step), NEW r \in Seq(Step), r # <<>>
    PROVE  Append(q, Head(r)) \o Tail(r) = q \o r
  OBVIOUS

\* The first step of the script goes.
LEMMA DropNext ==
    ASSUME NEW q \in Seq(Step), NEW r \in Seq(Step), r # <<>>
    PROVE  /\ q \o r \in Seq(Step) /\ q \o Tail(r) \in Seq(Step)
           /\ Removed(q \o r, Len(q) + 1, q \o Tail(r))
           /\ (q \o r)[Len(q) + 1] = Head(r)
  BY DEF Removed, Past

\* The oldest event goes.
LEMMA DropOldest ==
    ASSUME NEW q \in Seq(Step), NEW r \in Seq(Step), q # <<>>
    PROVE  /\ q \o r \in Seq(Step) /\ Tail(q) \o r \in Seq(Step)
           /\ Removed(q \o r, 1, Tail(q) \o r)
           /\ (q \o r)[1] = Head(q)
  BY DEF Removed, Past

\* Sequences that hold nothing add nothing.
LEMMA NothingLeft ==
    ASSUME NEW r \in Seq(Step)
    PROVE  <<>> \o r = r
  OBVIOUS

-----------------------------------------------------------------------------
(* The invariant: each run that is not stopped keeps its promise, and a    *)
(* task at rest holds whole artifacts.                                     *)

\* The run delivers all that it still has to: a run that was interrupted does
\* not, and leaves its queue without a step that settles the task.
Live(e) ==
    /\ kind[e] = "run" /\ Busy(e)
    /\ script[e] # <<>> \/ ~signalled[e] \/ SettlesAtEnd(queue[e])

Promises(e) == Live(e) => Promising(e, arts[task[e]], queue[e] \o script[e])

\* A run has no artifacts in the whole tasks that it enqueues.
NoneRead(e) == kind[e] \in {"idle", "run"} => snap[e] = NoArts

Resting(t) == st[t] \in {"none", "input-required"} /\ Free(t)
RestsWhole(t) == Resting(t) => AllWhole(arts[t])

StreamInv ==
    /\ LifeInv
    /\ \A e \in Exec : NoneRead(e) /\ Promises(e)
    /\ \A t \in Task : RestsWhole(t)
    /\ StreamsWhole

\* The promise in the next state.
LEMMA PromisesNext ==
    ASSUME NEW e \in Exec,
           Live(e)' => Promising(e, arts'[task'[e]], queue'[e] \o script'[e])
    PROVE  Promises(e)'
  BY DEF Promises, Promising, Steady, InOrder, Open, ToCome, InPlace, Follows, Continues,
         GoesOn, SameArtifact, Key, ArtifactId

\* A run that a step does not concern keeps its promise.
LEMMA PromisesFrame ==
    ASSUME NEW f \in Exec, Promises(f), Same(f), signalled[f] => signalled'[f],
           BusyRun(f, task[f]) => arts'[task[f]] = arts[task[f]]
    PROVE  Promises(f)'
  <1>1. /\ kind'[f] = kind[f] /\ task'[f] = task[f]
        /\ script'[f] = script[f] /\ queue'[f] = queue[f]
    BY DEF Same
  <1>2. Live(f)' => Live(f) /\ BusyRun(f, task[f])
    BY <1>1 DEF Live, Busy, BusyRun, SettlesAtEnd
  <1>3. Live(f)' => Promising(f, arts'[task'[f]], queue'[f] \o script'[f])
    BY <1>1, <1>2 DEF Promises
  <1> QED BY <1>3, PromisesNext

\* A task that a step does not concern stays whole at rest.
LEMMA RestsFrame ==
    ASSUME NEW t \in Task, RestsWhole(t), st'[t] = st[t], arts'[t] = arts[t],
           Free(t)' => Free(t)
    PROVE  RestsWhole(t)'
  BY DEF RestsWhole, Resting, AllWhole, InOrder, Open, ArtifactId

\* A task is no freer than before when the one execution that takes a step is
\* no less busy with it.
LEMMA FreeBut ==
    ASSUME NEW e \in Exec, \A f \in Exec \ {e} : Same(f), NEW t \in Task,
           On(e, t) /\ Busy(e) => On(e, t)' /\ Busy(e)', Free(t)'
    PROVE  Free(t)
  BY DEF Free, On, Busy, Same

\* Contents in the next state.
LEMMA WholeNext ==
    ASSUME NEW t \in Task, AllWhole(arts'[t])
    PROVE  RestsWhole(t)'
  BY DEF RestsWhole, AllWhole, InOrder, Open, ArtifactId

\* A step that changes nothing in the store and concerns one execution.
LEMMA StreamBut ==
    ASSUME StreamInv, NEW e \in Exec, \A f \in Exec \ {e} : Same(f),
           UNCHANGED <<st, arts>>,
           \A f \in Exec \ {e} : (signalled[f] => signalled'[f]) /\ snap'[f] = snap[f],
           NoneRead(e)', Promises(e)',
           \A t \in Task : On(e, t) /\ Busy(e) => RestsWhole(t)' \/ (On(e, t)' /\ Busy(e)')
    PROVE  /\ \A f \in Exec : NoneRead(f)' /\ Promises(f)'
           /\ \A t \in Task : RestsWhole(t)'
           /\ StreamsWhole'
  <1>1. ASSUME NEW f \in Exec PROVE NoneRead(f)' /\ Promises(f)'
    <2>1. CASE f = e
      BY <2>1
    <2>2. CASE f # e
      <3>1. Promises(f)'
        BY <2>2, PromisesFrame DEF StreamInv
      <3>2. NoneRead(f)'
        BY <2>2 DEF StreamInv, NoneRead, Same, NoArts, ArtifactId
      <3> QED BY <3>1, <3>2
    <2> QED BY <2>1, <2>2
  <1>2. ASSUME NEW t \in Task PROVE RestsWhole(t)'
    <2>1. CASE On(e, t) /\ Busy(e) => On(e, t)' /\ Busy(e)'
      <3>1. Free(t)' => Free(t)
        BY <2>1, FreeBut
      <3> QED BY <3>1, RestsFrame DEF StreamInv
    <2> QED BY <2>1
  <1>3. StreamsWhole'
    BY DEF StreamInv, StreamsWhole, ArtifactId
  <1> QED BY <1>1, <1>2, <1>3

\* A run whose token has fired leaves its task to a busy cancel.
LEMMA StoppedNotFree ==
    ASSUME SettledInv, NEW e \in Exec, kind[e] = "run", signalled[e], Busy(e)
    PROVE  \E g \in Exec \ {e} : kind[g] = "cancel" /\ On(g, task[e]) /\ Busy(g)
  <1>1. Awaited(e)
    BY DEF SettledInv, Stopped
  <1> QED BY <1>1 DEF Awaited, Busy

\* Messages, cancels, events that are sent and scripts that are cut short keep
\* the invariant.
LEMMA StreamCalm ==
    ASSUME StreamInv, Overlap = FALSE, NEW e \in Exec,
           \/ \E t \in Task, m \in Msg : SendMessage(e, t, m)
           \/ \E t \in Task, w \in BOOLEAN : CancelTask(e, t, w)
           \/ Emit(e) \/ Elapse(e) \/ Interrupt(e) \/ RunCancel(e) \/ RefuseCancel(e)
    PROVE  /\ \A f \in Exec : NoneRead(f)' /\ Promises(f)'
           /\ \A t \in Task : RestsWhole(t)'
           /\ StreamsWhole'
  <1>t. /\ TypeOK /\ WellFormed /\ SettledInv /\ Orderly
        /\ \A f \in Exec : RunAhead(f) /\ NoneRead(f) /\ Promises(f)
        /\ \A t \in Task : RestsWhole(t)
    BY DEF StreamInv, LifeInv, FinalInv
  <1> USE DEF TypeOK
  <1>1. ASSUME NEW t \in Task, NEW m \in Msg, SendMessage(e, t, m)
        PROVE  /\ \A f \in Exec : NoneRead(f)' /\ Promises(f)'
               /\ \A u \in Task : RestsWhole(u)'
               /\ StreamsWhole'
    <2>1. PICK r \in Handlers[server][m][st[t]].runs : Start(e, "run", t, r)
      BY <1>1 DEF SendMessage
    <2>2. st[t] \in {"none", "input-required"}
      BY <1>1, <1>t, FoundAtRest
    <2>3. /\ kind[e] = "idle" /\ task'[e] = t /\ script'[e] = r /\ queue'[e] = queue[e]
          /\ UNCHANGED <<st, arts, signalled, snap>> /\ \A f \in Exec \ {e} : Same(f)
      BY <1>1, <1>t, <2>1 DEF SendMessage, Start, Same
    <2>4. queue[e] = <<>> /\ script[e] = <<>>
      BY <1>t, <2>3 DEF WellFormed, ExecForm, Busy
    <2>5. AllWhole(arts[t])
      BY <1>1, <1>t, <2>2 DEF SendMessage, RestsWhole, Resting
    <2>6. r \in Seq(Step)
      BY <1>1, <1>t, <2>1, RunType DEF SendMessage
    <2>7. Promising(e, arts[t], r)
      BY <1>t, <2>2, <2>5, PromiseStart
    <2>8. Promises(e)'
      <3>1. queue'[e] \o script'[e] = r
        BY <2>3, <2>4, <2>6, NothingLeft
      <3>2. Promising(e, arts'[task'[e]], queue'[e] \o script'[e])
        BY <2>3, <2>7, <3>1
      <3> QED BY <3>2, PromisesNext
    <2>9. NoneRead(e)'
      BY <1>t, <2>3 DEF NoneRead, NoArts, ArtifactId
    <2> QED BY <2>3, <2>4, <2>8, <2>9, StreamBut DEF Busy
  <1>2. ASSUME NEW t \in Task, NEW w \in BOOLEAN, CancelTask(e, t, w)
        PROVE  /\ \A f \in Exec : NoneRead(f)' /\ Promises(f)'
               /\ \A u \in Task : RestsWhole(u)'
               /\ StreamsWhole'
    <2>1. /\ kind[e] = "idle" /\ kind'[e] = "cancel" /\ UNCHANGED <<st, arts>>
          /\ \A f \in Exec \ {e} : Same(f) /\ snap'[f] = snap[f]
          /\ \A f \in Exec \ {e} : signalled[f] => signalled'[f]
      BY <1>2, <1>t DEF CancelTask, Start, Same
    <2>2. NoneRead(e)' /\ Promises(e)'
      BY <2>1 DEF NoneRead, Promises, Live
    <2>3. ~Busy(e)
      BY <1>t, <2>1 DEF WellFormed, ExecForm
    <2> QED BY <2>1, <2>2, <2>3, StreamBut
  <1>3. ASSUME Emit(e) \/ Elapse(e)
        PROVE  /\ \A f \in Exec : NoneRead(f)' /\ Promises(f)'
               /\ \A u \in Task : RestsWhole(u)'
               /\ StreamsWhole'
    <2>1. /\ kind[e] = "run" /\ script[e] # <<>> /\ script'[e] = Tail(script[e])
          /\ UNCHANGED <<st, arts, kind, task, signalled, snap>>
          /\ \A f \in Exec \ {e} : Same(f)
      BY <1>3, <1>t DEF Emit, Elapse, Same, store
    <2> DEFINE c == arts[task[e]]
               q == queue[e]
               r == script[e]
    <2>2. /\ c \in [ArtifactId -> Content] /\ q \in Seq(Step) /\ r \in Seq(Step)
          /\ r # <<>>
      BY <1>t, <2>1
    <2>3. Promising(e, c, q \o r)
      BY <1>t, <2>1 DEF Promises, Live, Busy
    <2>4. Promising(e, c, queue'[e] \o Tail(r))
      <3>1. CASE Emit(e)
        <4>1. queue'[e] = Append(q, Head(r))
          BY <1>t, <3>1 DEF Emit
        <4> HIDE DEF c, q, r
        <4>2. queue'[e] \o Tail(r) = q \o r
          BY <2>2, <4>1, PassOn
        <4> QED BY <2>3, <4>2
      <3>2. CASE Elapse(e)
        <4>1. queue'[e] = q /\ Head(r).op = "delay"
          BY <1>t, <3>2 DEF Elapse
        <4> HIDE DEF c, q, r
        <4>2. Promising(e, c, q \o Tail(r))
          <5>1. /\ q \o r \in Seq(Step) /\ q \o Tail(r) \in Seq(Step)
                /\ Removed(q \o r, Len(q) + 1, q \o Tail(r))
                /\ (q \o r)[Len(q) + 1].op = "delay"
            BY <2>2, <4>1, DropNext
          <5> QED BY <2>2, <2>3, <5>1, PromiseSkips
        <4> QED BY <4>1, <4>2
      <3> QED BY <1>3, <3>1, <3>2
    <2>5. Promises(e)'
      <3>1. Promising(e, arts'[task'[e]], queue'[e] \o script'[e])
        BY <2>1, <2>4
      <3> QED BY <3>1, PromisesNext
    <2>6. NoneRead(e)'
      BY <1>t, <2>1 DEF NoneRead, NoArts, ArtifactId
    <2>7. ASSUME NEW u \in Task, On(e, u), ~(On(e, u)' /\ Busy(e)')
          PROVE  RestsWhole(u)'
      <3>1. queue'[e] = <<>> /\ Tail(r) = <<>> /\ task[e] = u
        BY <2>1, <2>7 DEF On, Busy
      <3>2. Promising(e, c, <<>>)
        <4>1. <<>> \o <<>> = <<>>
          OBVIOUS
        <4> QED BY <2>4, <3>1, <4>1
      <3>3. AllWhole(arts'[u])
        <4>1. AllWhole(c)
          BY <2>2, <3>2, PromiseDone
        <4> QED BY <2>1, <3>1, <4>1
      <3> QED BY <3>3, WholeNext
    <2> QED BY <2>1, <2>5, <2>6, <2>7, StreamBut
  <1>4. ASSUME Interrupt(e)
        PROVE  /\ \A f \in Exec : NoneRead(f)' /\ Promises(f)'
               /\ \A u \in Task : RestsWhole(u)'
               /\ StreamsWhole'
    <2>1. /\ kind[e] = "run" /\ script[e] # <<>> /\ script'[e] = <<>> /\ signalled[e]
          /\ UNCHANGED <<st, arts, kind, task, signalled, snap, queue>>
          /\ \A f \in Exec \ {e} : Same(f)
      BY <1>4, <1>t DEF Interrupt, Same, store
    <2>2. ~SettlesAtEnd(queue[e])
      <3>1. ~Sets(queue[e], {"input-required"})
        BY <1>t, <2>1 DEF RunAhead, Ahead, Busy
      <3>2. EndsNot(queue[e])
        BY <1>t, <2>1 DEF Orderly, OrderlyRun
      <3>3. queue[e] # <<>> => Len(queue[e]) \in 1 .. Len(queue[e])
        BY <1>t
      <3> QED BY <3>1, <3>2, <3>3 DEF SettlesAtEnd, Sets, EndsNot, SetsTo, Settled
    <2>3. Promises(e)'
      BY <2>1, <2>2 DEF Promises, Live, SettlesAtEnd
    <2>4. NoneRead(e)'
      BY <1>t, <2>1 DEF NoneRead, NoArts, ArtifactId
    <2>5. ASSUME NEW u \in Task, On(e, u) PROVE RestsWhole(u)'
      <3>1. PICK g \in Exec \ {e} : kind[g] = "cancel" /\ On(g, task[e]) /\ Busy(g)
        BY <1>t, <2>1, StoppedNotFree DEF Busy
      <3>2. On(g, u)' /\ Busy(g)'
        BY <2>1, <2>5, <3>1 DEF On, Busy, Same
      <3> QED BY <3>2 DEF RestsWhole, Resting, Free
    <2> QED BY <2>1, <2>3, <2>4, <2>5, StreamBut
  <1>5. ASSUME RunCancel(e)
        PROVE  /\ \A f \in Exec : NoneRead(f)' /\ Promises(f)'
               /\ \A u \in Task : RestsWhole(u)'
               /\ StreamsWhole'
    <2>1. /\ kind[e] = "cancel" /\ UNCHANGED <<st, arts, kind, task, signalled>>
          /\ \A f \in Exec \ {e} : Same(f) /\ snap'[f] = snap[f]
          /\ script[e] # <<>> /\ queue'[e] = Append(queue[e], Head(script[e]))
      BY <1>5, <1>t DEF RunCancel, Same, store
    <2>2. NoneRead(e)' /\ Promises(e)'
      BY <2>1 DEF NoneRead, Promises, Live
    <2>3. queue'[e] # <<>>
      BY <1>t, <2>1, HeadAndTail, AppendLast
    <2> QED BY <2>1, <2>2, <2>3, StreamBut DEF On, Busy
  <1>6. ASSUME RefuseCancel(e)
        PROVE  /\ \A f \in Exec : NoneRead(f)' /\ Promises(f)'
               /\ \A u \in Task : RestsWhole(u)'
               /\ StreamsWhole'
    <2>1. /\ kind'[e] = "refused" /\ st[task[e]] \in Terminal
          /\ UNCHANGED <<st, arts, task, signalled, snap>>
          /\ \A f \in Exec \ {e} : Same(f)
      BY <1>6, <1>t DEF RefuseCancel, Same, store
    <2>2. NoneRead(e)' /\ Promises(e)'
      BY <2>1 DEF NoneRead, Promises, Live
    <2>3. \A u \in Task : On(e, u) => RestsWhole(u)'
      BY <2>1 DEF On, RestsWhole, Resting, Terminal
    <2> QED BY <2>1, <2>2, <2>3, StreamBut
  <1> QED BY <1>1, <1>2, <1>3, <1>4, <1>5, <1>6

\* A run delivers its oldest event: what it still has to deliver goes on from
\* what the task holds then.
LEMMA PromiseApplied ==
    ASSUME TypeOK, NEW e \in Exec, Apply(e), snap[e] = NoArts,
           Promising(e, arts[task[e]], queue[e] \o script[e])
    PROVE  Promising(e, arts'[task[e]], Tail(queue[e]) \o script[e])
  <1> USE DEF TypeOK
  <1> DEFINE t == task[e]
             c == arts[t]
             q == queue[e]
             r == script[e]
             h == Head(q)
  <1>1. /\ c \in [ArtifactId -> Content] /\ q \in Seq(Step) /\ r \in Seq(Step)
        /\ q # <<>> /\ t \in Task /\ Promising(e, c, q \o r)
    BY DEF Apply
  <1>2. arts'[t] = IF h.op = "task" THEN NoArts
                   ELSE IF h.op = "artifact" THEN Update(c, Key(e, h.id), h)
                   ELSE c
    BY <1>1 DEF Apply
  <1> HIDE DEF t, c, q, r, h
  <1>3. /\ q \o r \in Seq(Step) /\ Tail(q) \o r \in Seq(Step)
        /\ Removed(q \o r, 1, Tail(q) \o r) /\ (q \o r)[1] = h
    BY <1>1, DropOldest DEF h
  <1>4. CASE h.op = "task"
    <2>1. Promising(e, NoArts, Tail(q) \o r)
      BY <1>1, <1>3, <1>4, PromiseTask
    <2> QED BY <1>2, <1>4, <2>1 DEF t, q, r
  <1>5. CASE h.op = "artifact"
    <2>1. Promising(e, Update(c, Key(e, h.id), h), Tail(q) \o r)
      BY <1>1, <1>3, <1>5, PromiseChunk
    <2>2. arts'[t] = Update(c, Key(e, h.id), h)
      BY <1>2, <1>5
    <2> QED BY <2>1, <2>2 DEF t, q, r
  <1>6. CASE h.op \notin {"task", "artifact"}
    <2>1. Promising(e, c, Tail(q) \o r)
      BY <1>1, <1>3, <1>6, PromiseSkips
    <2> QED BY <1>2, <1>6, <2>1 DEF t, q, r
  <1> QED BY <1>4, <1>5, <1>6

\* An event that the SDK applies keeps the invariant.
LEMMA StreamApply ==
    ASSUME StreamInv, TypeOK', Overlap = FALSE, NEW e \in Exec, Apply(e), [Next]_vars
    PROVE  /\ \A f \in Exec : NoneRead(f)' /\ Promises(f)'
           /\ \A t \in Task : RestsWhole(t)'
           /\ StreamsWhole'
  <1>t. /\ TypeOK /\ WellFormed /\ SettledInv /\ Orderly /\ OneRun /\ Alone /\ FinalInv
        /\ \A f \in Exec : NoneRead(f) /\ Promises(f)
        /\ \A t \in Task : RestsWhole(t)
        /\ StreamsWhole
    BY DEF StreamInv, LifeInv, FinalInv
  <1> USE DEF TypeOK
  <1> DEFINE t == task[e]
             h == Head(queue[e])
  <1>1. /\ queue[e] # <<>> /\ queue'[e] = Tail(queue[e])
        /\ UNCHANGED <<kind, task, script, signalled, snap>>
        /\ \A f \in Exec \ {e} : Same(f)
        /\ st' = IF h.op \in {"task", "status"} THEN [st EXCEPT ![t] = h.st] ELSE st
        /\ \A u \in Task \ {t} : arts'[u] = arts[u]
    BY <1>t DEF Apply, Same
  <1>2. /\ kind[e] \in {"run", "cancel"} /\ t \in Task
        /\ arts'[t] \in [ArtifactId -> Content]
    BY <1>t, <1>1 DEF WellFormed, ExecForm, Busy
  <1>3. kind[e] = "cancel" => st'[t] = "canceled"
    <2> SUFFICES ASSUME kind[e] = "cancel" PROVE st'[t] = "canceled"
      OBVIOUS
    <2>1. queue[e] = <<CancelStep>>
      BY <1>t, <1>1 DEF WellFormed, ExecForm, CancelForm
    <2>2. h.op \in {"task", "status"} /\ h.st = "canceled"
      BY <2>1 DEF CancelStep, TaskStep, Status
    <2> HIDE DEF h
    <2> QED BY <1>t, <1>1, <1>2, <2>2
  \* A run that keeps its promise still does so, and in the end has kept it.
  <1>4. ASSUME Live(e)
        PROVE  /\ Promising(e, arts'[t], queue'[e] \o script'[e])
               /\ ~Busy(e)' => AllWhole(arts'[t])
    <2>1. Promising(e, arts'[t], Tail(queue[e]) \o script[e])
      <3>1. snap[e] = NoArts
        BY <1>t, <1>4 DEF NoneRead, Live
      <3>2. Promising(e, arts[t], queue[e] \o script[e])
        BY <1>t, <1>4 DEF Promises
      <3> QED BY <1>t, <3>1, <3>2, PromiseApplied
    <2>2. Promising(e, arts'[t], queue'[e] \o script'[e])
      BY <1>1, <2>1
    <2>3. ASSUME ~Busy(e)' PROVE AllWhole(arts'[t])
      <3>1. queue'[e] = <<>> /\ script'[e] = <<>> /\ <<>> \o <<>> = <<>>
        BY <2>3 DEF Busy
      <3>2. Promising(e, arts'[t], <<>>)
        BY <2>2, <3>1
      <3> HIDE DEF t
      <3> QED BY <1>2, <3>2, PromiseDone
    <2> QED BY <2>2, <2>3
  <1>5. Promises(e)'
    <2>1. SettlesAtEnd(Tail(queue[e])) => SettlesAtEnd(queue[e])
      <3> SUFFICES ASSUME Tail(queue[e]) # <<>>
                   PROVE  Tail(queue[e])[Len(Tail(queue[e]))] = queue[e][Len(queue[e])]
        BY <1>1 DEF SettlesAtEnd
      <3>1. /\ Len(queue[e]) = Len(Tail(queue[e])) + 1
            /\ Len(Tail(queue[e])) \in 1 .. Len(Tail(queue[e]))
        BY <1>t, <1>1, HeadAndTail
      <3> QED BY <1>t, <1>1, <3>1, HeadAndTail
    <2>2. Live(e)' => Live(e)
      BY <1>1, <2>1 DEF Live, Busy, SettlesAtEnd
    <2>3. Live(e)' => Promising(e, arts'[task'[e]], queue'[e] \o script'[e])
      BY <1>1, <1>4, <2>2
    <2> QED BY <2>3, PromisesNext
  <1>6. ASSUME NEW f \in Exec PROVE NoneRead(f)' /\ Promises(f)'
    <2>1. NoneRead(f)'
      BY <1>t, <1>1 DEF NoneRead, NoArts, ArtifactId
    <2>2. CASE f # e
      <3>1. task[f] = t => ~BusyRun(f, t)
        <4>1. CASE kind[e] = "run"
          <5>1. BusyRun(e, t)
            BY <1>1, <4>1 DEF BusyRun, Busy
          <5> QED BY <1>t, <1>2, <2>2, <5>1 DEF OneRun
        <4>2. CASE kind[e] = "cancel"
          <5>1. Sending(e, t)
            BY <1>1, <4>2 DEF Sending
          <5>2. Quiet(f, t)
            BY <1>t, <1>2, <2>2, <5>1 DEF Alone
          <5> QED BY <5>2 DEF Quiet, On, BusyRun
        <4> QED BY <1>2, <4>1, <4>2
      <3>2. BusyRun(f, task[f]) => arts'[task[f]] = arts[task[f]]
        BY <1>t, <1>1, <3>1
      <3> QED BY <1>t, <1>1, <2>1, <2>2, <3>2, PromisesFrame
    <2> QED BY <1>5, <2>1, <2>2
  <1>7. ASSUME NEW u \in Task PROVE RestsWhole(u)'
    <2>1. CASE u # t
      <3>1. st'[u] = st[u] /\ arts'[u] = arts[u]
        BY <1>t, <1>1, <2>1
      <3>2. Free(u)' => Free(u)
        BY <1>1, <2>1, FreeBut DEF On
      <3> QED BY <1>t, <3>1, <3>2, RestsFrame
    <2>2. CASE u = t
      <3> SUFFICES ASSUME Resting(u)' PROVE RestsWhole(u)'
        BY DEF RestsWhole
      <3>1. st'[u] # "canceled" /\ Free(u)'
        BY DEF Resting
      <3>2. kind[e] = "run" /\ ~Busy(e)'
        BY <1>1, <1>2, <1>3, <2>2, <3>1 DEF Free, On
      <3>3. Live(e)
        <4>1. ASSUME signalled[e] PROVE FALSE
          <5>1. PICK g \in Exec \ {e} : kind[g] = "cancel" /\ On(g, t) /\ Busy(g)
            BY <1>t, <1>1, <3>2, <4>1, StoppedNotFree DEF Busy
          <5>2. On(g, u)' /\ Busy(g)'
            BY <1>1, <2>2, <5>1 DEF On, Busy, Same
          <5> QED BY <3>1, <5>2 DEF Free
        <4> QED BY <1>1, <3>2, <4>1 DEF Live, Busy
      <3>4. AllWhole(arts'[u])
        BY <1>4, <2>2, <3>2, <3>3
      <3> QED BY <3>4, WholeNext
    <2> QED BY <2>1, <2>2
  <1>8. StreamsWhole'
    <2> SUFFICES ASSUME NEW u \in Task, st'[u] = "completed"
                 PROVE  AllWhole(arts'[u])
      BY DEF StreamsWhole, AllWhole, InOrder, Open, ArtifactId
    <2>1. CASE st[u] = "completed"
      <3>1. arts'[u] = arts[u]
        BY <1>t, <2>1, FinalKeeps DEF Terminal
      <3>2. AllWhole(arts[u])
        BY <1>t, <2>1 DEF StreamsWhole, AllWhole, InOrder, Open
      <3> QED BY <3>1, <3>2
    <2>2. CASE st[u] # "completed"
      <3>1. u = t /\ SetsTo(h, Terminal) /\ kind[e] = "run"
        BY <1>t, <1>1, <1>2, <1>3, <2>2 DEF SetsTo, Terminal
      <3>2. script[e] = <<>> /\ Tail(queue[e]) = <<>>
        <4>1. OrderlyRun(e)
          BY <1>t DEF Orderly
        <4>2. Tail(queue[e]) = <<>> /\ ~EndsNot(queue[e])
          BY <1>t, <1>1, <3>1, <4>1, EndsTail, EndsHere DEF OrderlyRun
        <4> QED BY <3>1, <4>1, <4>2 DEF OrderlyRun
      <3>3. SettlesAtEnd(queue[e])
        <4>1. Len(queue[e]) = 1
          <5>1. Len(Tail(queue[e])) = 0
            BY <3>2, EmptyLen
          <5> QED BY <1>t, <1>1, <5>1, HeadAndTail
        <4>2. h = queue[e][1]
          BY <1>t, <1>1, HeadAndTail
        <4> QED BY <1>1, <3>1, <4>1, <4>2 DEF SettlesAtEnd, SetsTo, Settled
      <3>4. Live(e) /\ ~Busy(e)'
        BY <1>1, <3>1, <3>2, <3>3 DEF Live, Busy
      <3> QED BY <1>4, <3>1, <3>4
    <2> QED BY <2>1, <2>2
  <1> QED BY <1>6, <1>7, <1>8

\* The invariant holds at the start.
LEMMA StreamInit == Init => StreamInv
  <1> SUFFICES ASSUME Init PROVE StreamInv
    OBVIOUS
  <1>1. LifeInv
    BY FinalInit, SettledInit DEF Init, LifeInv, RunAhead, CancelKnows
  <1>2. \A k \in ArtifactId : InOrder(NoArts[k]) /\ ~Open(NoArts[k])
    BY EmptyLen DEF NoArts, Absent, InOrder, Open
  <1>3. \A t \in Task : RestsWhole(t)
    BY <1>2 DEF Init, RestsWhole, AllWhole
  <1>4. \A e \in Exec : NoneRead(e) /\ Promises(e)
    BY DEF Init, NoneRead, Promises, Live
  <1>5. StreamsWhole
    BY DEF Init, StreamsWhole
  <1> QED BY <1>1, <1>3, <1>4, <1>5 DEF StreamInv

\* Every step keeps the invariant.
LEMMA StreamNext ==
    ASSUME Overlap = FALSE PROVE StreamInv /\ [Next]_vars => StreamInv'
  <1> SUFFICES ASSUME StreamInv, [Next]_vars PROVE StreamInv'
    OBVIOUS
  <1>1. LifeInv'
    BY LifeNext DEF StreamInv
  <1>2. TypeOK'
    BY <1>1 DEF LifeInv, FinalInv
  <1> DEFINE Kept == /\ \A f \in Exec : NoneRead(f)' /\ Promises(f)'
                     /\ \A t \in Task : RestsWhole(t)'
                     /\ StreamsWhole'
  <1>3. ASSUME NEW e \in Exec, Apply(e) PROVE Kept
    BY <1>2, <1>3, StreamApply
  <1>4. ASSUME NEW e \in Exec,
               \/ \E t \in Task, m \in Msg : SendMessage(e, t, m)
               \/ \E t \in Task, w \in BOOLEAN : CancelTask(e, t, w)
               \/ Emit(e) \/ Elapse(e) \/ Interrupt(e) \/ RunCancel(e) \/ RefuseCancel(e)
        PROVE  Kept
    BY <1>4, StreamCalm
  <1>5. ASSUME UNCHANGED vars PROVE Kept
    <2>1. /\ UNCHANGED <<st, arts, snap, signalled>>
          /\ \A f \in Exec : Same(f)
      BY <1>5 DEF vars, Same
    <2>2. \A f \in Exec : Promises(f)'
      BY <2>1, PromisesFrame DEF StreamInv
    <2>3. \A f \in Exec : NoneRead(f)'
      BY <2>1 DEF StreamInv, NoneRead, Same, NoArts, ArtifactId
    <2>4. \A t \in Task : Free(t)' => Free(t)
      BY <2>1 DEF Free, On, Busy, Same
    <2>5. \A t \in Task : RestsWhole(t)'
      BY <2>1, <2>4, RestsFrame DEF StreamInv
    <2>6. StreamsWhole'
      BY <2>1 DEF StreamInv, StreamsWhole, ArtifactId
    <2> QED BY <2>2, <2>3, <2>5, <2>6
  <1>6. Kept
    BY <1>3, <1>4, <1>5 DEF Next
  <1> QED BY <1>1, <1>6 DEF StreamInv

\* A completed task holds whole artifacts, each with its chunks in order and
\* the last one closing it, whatever cancels and follow-ups came in between.
THEOREM StreamsAreWhole == ASSUME Overlap = FALSE PROVE Spec => []StreamsWhole
  <1>1. StreamInv => StreamsWhole
    BY DEF StreamInv
  <1> QED BY StreamInit, StreamNext, <1>1, PTL DEF Spec
-----------------------------------------------------------------------------
(* No artifact ever has a hole.  What a task that is stopped, or that nobody *)
(* works on, holds is in order as well (NoChunkMissing), and so is what a    *)
(* cancel has read and may write back; a busy run, stopped or not, only adds *)
(* chunks that go on from what the task holds (SteadyRun).                   *)

SteadyRun(e) ==
    BusyRun(e, task[e]) => Steady(e, arts[task[e]], queue[e] \o script[e])
ReadInOrder(e) == \A k \in ArtifactId : InOrder(snap[e][k])

SteadyInv ==
    /\ NoChunkMissing
    /\ \A e \in Exec : ReadInOrder(e) /\ SteadyRun(e)

\* A script that is cut short leaves no hole in what it has sent.
LEMMA SteadyCut ==
    ASSUME NEW e \in Exec, NEW c \in [ArtifactId -> Content],
           NEW q \in Seq(Step), NEW r \in Seq(Step), Steady(e, c, q \o r)
    PROVE  Steady(e, c, q)
  <1> DEFINE s == q \o r
  <1>1. /\ Len(q) \in Nat /\ Len(s) \in Nat /\ Len(q) <= Len(s)
        /\ \A i \in 1 .. Len(q) : i \in 1 .. Len(s) /\ s[i] = q[i]
    OBVIOUS
  <1>2. Steady(e, c, s)
    OBVIOUS
  <1> HIDE DEF s
  <1>3. ASSUME NEW i \in 1 .. Len(q), q[i].op = "artifact" PROVE InPlace(e, c, q, i)
    <2>1. InPlace(e, c, s, i)
      BY <1>1, <1>2, <1>3 DEF Steady
    <2>2. ASSUME NEW j \in 1 .. Len(s), Follows(s, j, i)
          PROVE  \E m \in 1 .. Len(q) : Follows(q, m, i)
      <3>1. j \in 1 .. Len(q)
        BY <1>1, <2>2 DEF Follows
      <3>2. Follows(q, j, i)
        BY <1>1, <2>2, <3>1 DEF Follows
      <3> QED BY <3>1, <3>2
    <2>3. Continues(e, c, s, i) => Continues(e, c, q, i)
      BY <1>1 DEF Continues
    <2> QED BY <1>1, <2>1, <2>2, <2>3 DEF InPlace
  <1> QED BY <1>2, <1>3 DEF Steady

\* A run delivers its oldest event, and leaves no hole.
LEMMA SteadyApplied ==
    ASSUME TypeOK, NEW e \in Exec, Apply(e), snap[e] = NoArts,
           Steady(e, arts[task[e]], queue[e] \o script[e])
    PROVE  Steady(e, arts'[task[e]], Tail(queue[e]) \o script[e])
  <1> USE DEF TypeOK
  <1> DEFINE t == task[e]
             c == arts[t]
             q == queue[e]
             r == script[e]
             h == Head(q)
  <1>1. /\ c \in [ArtifactId -> Content] /\ q \in Seq(Step) /\ r \in Seq(Step)
        /\ q # <<>> /\ t \in Task /\ Steady(e, c, q \o r)
    BY DEF Apply
  <1>2. arts'[t] = IF h.op = "task" THEN NoArts
                   ELSE IF h.op = "artifact" THEN Update(c, Key(e, h.id), h)
                   ELSE c
    BY <1>1 DEF Apply
  <1> HIDE DEF t, c, q, r, h
  <1>3. /\ q \o r \in Seq(Step) /\ Tail(q) \o r \in Seq(Step)
        /\ Removed(q \o r, 1, Tail(q) \o r) /\ (q \o r)[1] = h
    BY <1>1, DropOldest DEF h
  <1>4. CASE h.op = "task"
    <2>1. Steady(e, NoArts, Tail(q) \o r)
      BY <1>1, <1>3, <1>4, SteadyTask
    <2> QED BY <1>2, <1>4, <2>1 DEF t, q, r
  <1>5. CASE h.op = "artifact"
    <2>1. Steady(e, Update(c, Key(e, h.id), h), Tail(q) \o r)
      BY <1>1, <1>3, <1>5, SteadyChunk
    <2>2. arts'[t] = Update(c, Key(e, h.id), h)
      BY <1>2, <1>5
    <2> QED BY <2>1, <2>2 DEF t, q, r
  <1>6. CASE h.op \notin {"task", "artifact"}
    <2>1. Steady(e, c, Tail(q) \o r)
      BY <1>1, <1>3, <1>6, SteadySkips
    <2> QED BY <1>2, <1>6, <2>1 DEF t, q, r
  <1> QED BY <1>4, <1>5, <1>6

\* The parts of the invariant in the next state.
LEMMA SteadyRunNext ==
    ASSUME NEW e \in Exec,
           BusyRun(e, task[e])' => Steady(e, arts'[task'[e]], queue'[e] \o script'[e])
    PROVE  SteadyRun(e)'
  BY DEF SteadyRun, Steady, InOrder, InPlace, Follows, Continues, SameArtifact, Key, ArtifactId
LEMMA ReadNext ==
    ASSUME NEW e \in Exec, NEW c \in [ArtifactId -> Content],
           \A k \in ArtifactId : InOrder(c[k]), snap'[e] = c
    PROVE  ReadInOrder(e)'
  BY DEF ReadInOrder, InOrder, ArtifactId

\* A run that a step does not concern goes on from what the task holds.
LEMMA SteadyFrame ==
    ASSUME NEW f \in Exec, SteadyRun(f), Same(f),
           BusyRun(f, task[f]) => arts'[task[f]] = arts[task[f]]
    PROVE  SteadyRun(f)'
  <1>1. /\ kind'[f] = kind[f] /\ task'[f] = task[f]
        /\ script'[f] = script[f] /\ queue'[f] = queue[f]
    BY DEF Same
  <1>2. BusyRun(f, task[f])' => BusyRun(f, task[f])
    BY <1>1 DEF Busy, BusyRun
  <1>3. BusyRun(f, task[f])' => Steady(f, arts'[task'[f]], queue'[f] \o script'[f])
    BY <1>1, <1>2 DEF SteadyRun
  <1> QED BY <1>3, SteadyRunNext

\* A step that changes no artifact and concerns one execution.
LEMMA SteadyBut ==
    ASSUME SteadyInv, NEW e \in Exec, \A f \in Exec \ {e} : Same(f), arts' = arts,
           \A f \in Exec \ {e} : snap'[f] = snap[f],
           SteadyRun(e)', ReadInOrder(e)'
    PROVE  SteadyInv'
  <1>1. NoChunkMissing'
    BY DEF SteadyInv, NoChunkMissing, ArtifactId
  <1>2. ASSUME NEW f \in Exec PROVE ReadInOrder(f)' /\ SteadyRun(f)'
    <2>1. CASE f = e
      BY <2>1
    <2>2. CASE f # e
      <3>1. SteadyRun(f)'
        BY <2>2, SteadyFrame DEF SteadyInv
      <3>2. ReadInOrder(f)'
        BY <2>2 DEF SteadyInv, ReadInOrder, InOrder, ArtifactId
      <3> QED BY <3>1, <3>2
    <2> QED BY <2>1, <2>2
  <1> QED BY <1>1, <1>2 DEF SteadyInv

\* Messages, cancels, events that are sent and scripts that are cut short leave
\* no hole.
LEMMA SteadyCalm ==
    ASSUME StreamInv, SteadyInv, Overlap = FALSE, NEW e \in Exec,
           \/ \E t \in Task, m \in Msg : SendMessage(e, t, m)
           \/ \E t \in Task, w \in BOOLEAN : CancelTask(e, t, w)
           \/ Emit(e) \/ Elapse(e) \/ Interrupt(e) \/ RunCancel(e) \/ RefuseCancel(e)
    PROVE  SteadyInv'
  <1>t. /\ TypeOK /\ WellFormed /\ SettledInv /\ Orderly
        /\ \A f \in Exec : RunAhead(f) /\ SteadyRun(f) /\ ReadInOrder(f)
        /\ \A t \in Task, k \in ArtifactId : InOrder(arts[t][k])
    BY DEF StreamInv, LifeInv, FinalInv, SteadyInv, NoChunkMissing, InOrder
  <1> USE DEF TypeOK
  <1>1. ASSUME NEW t \in Task, NEW m \in Msg, SendMessage(e, t, m) PROVE SteadyInv'
    <2>1. PICK r \in Handlers[server][m][st[t]].runs : Start(e, "run", t, r)
      BY <1>1 DEF SendMessage
    <2>2. st[t] \in {"none", "input-required"}
      BY <1>1, <1>t, FoundAtRest
    <2>3. /\ kind[e] = "idle" /\ task'[e] = t /\ script'[e] = r /\ queue'[e] = queue[e]
          /\ UNCHANGED <<arts, snap>> /\ \A f \in Exec \ {e} : Same(f)
      BY <1>1, <1>t, <2>1 DEF SendMessage, Start, Same
    <2>4. queue[e] = <<>>
      BY <1>t, <2>3 DEF WellFormed, ExecForm, Busy
    <2>5. r \in Seq(Step)
      BY <1>1, <1>t, <2>1, RunType DEF SendMessage
    <2>6. Steady(e, arts[t], r)
      BY <1>t, <2>2, SteadyStart
    <2>7. SteadyRun(e)'
      <3>1. queue'[e] \o script'[e] = r
        BY <2>3, <2>4, <2>5, NothingLeft
      <3>2. Steady(e, arts'[task'[e]], queue'[e] \o script'[e])
        BY <2>3, <2>6, <3>1
      <3> QED BY <3>2, SteadyRunNext
    <2>8. ReadInOrder(e)'
      BY <1>t, <2>3, ReadNext DEF ReadInOrder
    <2> QED BY <2>3, <2>7, <2>8, SteadyBut
  <1>2. ASSUME NEW t \in Task, NEW w \in BOOLEAN, CancelTask(e, t, w) PROVE SteadyInv'
    <2>1. /\ kind'[e] = "cancel" /\ arts' = arts /\ snap'[e] = arts[t]
          /\ \A f \in Exec \ {e} : Same(f) /\ snap'[f] = snap[f]
      BY <1>2, <1>t DEF CancelTask, Start, Same
    <2>2. SteadyRun(e)'
      BY <2>1 DEF SteadyRun, BusyRun
    <2>3. ReadInOrder(e)'
      BY <1>t, <2>1, ReadNext
    <2> QED BY <2>1, <2>2, <2>3, SteadyBut
  <1>3. ASSUME Emit(e) \/ Elapse(e) PROVE SteadyInv'
    <2>1. /\ kind[e] = "run" /\ script[e] # <<>> /\ script'[e] = Tail(script[e])
          /\ UNCHANGED <<arts, task, snap>>
          /\ \A f \in Exec \ {e} : Same(f)
      BY <1>3, <1>t DEF Emit, Elapse, Same, store
    <2> DEFINE c == arts[task[e]]
               q == queue[e]
               r == script[e]
    <2>2. /\ c \in [ArtifactId -> Content] /\ q \in Seq(Step) /\ r \in Seq(Step)
          /\ r # <<>>
      BY <1>t, <2>1
    <2>3. Steady(e, c, q \o r)
      BY <1>t, <2>1 DEF SteadyRun, BusyRun, Busy
    <2>4. Steady(e, c, queue'[e] \o Tail(r))
      <3>1. CASE Emit(e)
        <4>1. queue'[e] = Append(q, Head(r))
          BY <1>t, <3>1 DEF Emit
        <4> HIDE DEF c, q, r
        <4>2. queue'[e] \o Tail(r) = q \o r
          BY <2>2, <4>1, PassOn
        <4> QED BY <2>3, <4>2
      <3>2. CASE Elapse(e)
        <4>1. queue'[e] = q /\ Head(r).op = "delay"
          BY <1>t, <3>2 DEF Elapse
        <4> HIDE DEF c, q, r
        <4>2. Steady(e, c, q \o Tail(r))
          <5>1. /\ q \o r \in Seq(Step) /\ q \o Tail(r) \in Seq(Step)
                /\ Removed(q \o r, Len(q) + 1, q \o Tail(r))
                /\ (q \o r)[Len(q) + 1].op = "delay"
            BY <2>2, <4>1, DropNext
          <5> QED BY <2>2, <2>3, <5>1, SteadySkips
        <4> QED BY <4>1, <4>2
      <3> QED BY <1>3, <3>1, <3>2
    <2>5. SteadyRun(e)'
      <3>1. Steady(e, arts'[task'[e]], queue'[e] \o script'[e])
        BY <2>1, <2>4
      <3> QED BY <3>1, SteadyRunNext
    <2>6. ReadInOrder(e)'
      BY <1>t, <2>1, ReadNext DEF ReadInOrder
    <2> QED BY <2>1, <2>5, <2>6, SteadyBut
  <1>4. ASSUME Interrupt(e) PROVE SteadyInv'
    <2>1. /\ kind[e] = "run" /\ script[e] # <<>> /\ script'[e] = <<>>
          /\ UNCHANGED <<arts, task, snap, queue>>
          /\ \A f \in Exec \ {e} : Same(f)
      BY <1>4, <1>t DEF Interrupt, Same, store
    <2>2. SteadyRun(e)'
      <3>1. Steady(e, arts[task[e]], queue[e] \o script[e])
        BY <1>t, <2>1 DEF SteadyRun, BusyRun, Busy
      <3>2. Steady(e, arts[task[e]], queue[e])
        BY <1>t, <3>1, SteadyCut
      <3>3. queue'[e] \o script'[e] = queue[e]
        BY <1>t, <2>1
      <3>4. Steady(e, arts'[task'[e]], queue'[e] \o script'[e])
        BY <2>1, <3>2, <3>3
      <3> QED BY <3>4, SteadyRunNext
    <2>3. ReadInOrder(e)'
      BY <1>t, <2>1, ReadNext DEF ReadInOrder
    <2> QED BY <2>1, <2>2, <2>3, SteadyBut
  <1>5. ASSUME RunCancel(e) PROVE SteadyInv'
    <2>1. /\ kind'[e] = "cancel" /\ arts' = arts
          /\ snap'[e] \in {snap[e], arts[task[e]]}
          /\ \A f \in Exec \ {e} : Same(f) /\ snap'[f] = snap[f]
      BY <1>5, <1>t DEF RunCancel, Same, store
    <2>2. SteadyRun(e)'
      BY <2>1 DEF SteadyRun, BusyRun
    <2>3. ReadInOrder(e)'
      <3>1. CASE snap'[e] = snap[e]
        BY <1>t, <3>1, ReadNext DEF ReadInOrder
      <3>2. CASE snap'[e] = arts[task[e]]
        BY <1>t, <3>2, ReadNext
      <3> QED BY <2>1, <3>1, <3>2
    <2> QED BY <2>1, <2>2, <2>3, SteadyBut
  <1>6. ASSUME RefuseCancel(e) PROVE SteadyInv'
    <2>1. /\ kind'[e] = "refused" /\ UNCHANGED <<arts, snap>>
          /\ \A f \in Exec \ {e} : Same(f)
      BY <1>6, <1>t DEF RefuseCancel, Same, store
    <2>2. SteadyRun(e)'
      BY <2>1 DEF SteadyRun, BusyRun
    <2>3. ReadInOrder(e)'
      BY <1>t, <2>1, ReadNext DEF ReadInOrder
    <2> QED BY <2>1, <2>2, <2>3, SteadyBut
  <1> QED BY <1>1, <1>2, <1>3, <1>4, <1>5, <1>6

\* An event that the SDK applies leaves no hole: the run goes on from what the
\* task holds, and the whole task of a cancel was read without one.
LEMMA SteadyApply ==
    ASSUME StreamInv, SteadyInv, NEW e \in Exec, Apply(e)
    PROVE  SteadyInv'
  <1>t. /\ TypeOK /\ WellFormed /\ OneRun /\ Alone
        /\ \A f \in Exec : NoneRead(f) /\ SteadyRun(f) /\ ReadInOrder(f)
        /\ \A t \in Task, k \in ArtifactId : InOrder(arts[t][k])
    BY DEF StreamInv, LifeInv, FinalInv, SteadyInv, NoChunkMissing, InOrder
  <1> USE DEF TypeOK
  <1> DEFINE t == task[e]
  <1>1. /\ queue[e] # <<>> /\ queue'[e] = Tail(queue[e])
        /\ UNCHANGED <<kind, task, script, snap>>
        /\ \A f \in Exec \ {e} : Same(f)
        /\ \A u \in Task \ {t} : arts'[u] = arts[u]
    BY <1>t DEF Apply, Same
  <1>2. kind[e] \in {"run", "cancel"} /\ t \in Task
    BY <1>t, <1>1 DEF WellFormed, ExecForm, Busy
  <1>3. ASSUME kind[e] = "run"
        PROVE  Steady(e, arts'[t], queue'[e] \o script'[e])
    <2>1. snap[e] = NoArts
      BY <1>t, <1>3 DEF NoneRead
    <2>2. Steady(e, arts[t], queue[e] \o script[e])
      BY <1>t, <1>1, <1>3 DEF SteadyRun, BusyRun, Busy
    <2>3. Steady(e, arts'[t], Tail(queue[e]) \o script[e])
      BY <1>t, <2>1, <2>2, SteadyApplied
    <2> QED BY <1>1, <2>3
  <1>4. ASSUME NEW k \in ArtifactId PROVE InOrder(arts'[t][k])
    <2>1. CASE kind[e] = "run"
      BY <1>3, <2>1 DEF Steady
    <2>2. CASE kind[e] = "cancel"
      <3>1. Head(queue[e]) = CancelStep
        <4>1. queue[e] = <<CancelStep>>
          BY <1>t, <1>1, <2>2 DEF WellFormed, ExecForm, CancelForm
        <4> QED BY <4>1
      <3>2. CancelStep.op \in {"task", "status"}
        BY DEF CancelStep, TaskStep, Status
      <3>3. arts'[t] \in {snap[e], arts[t]}
        BY <1>t, <1>2, <3>1, <3>2 DEF Apply
      <3> QED BY <1>t, <1>2, <3>3 DEF ReadInOrder
    <2> QED BY <1>2, <2>1, <2>2
  <1>5. NoChunkMissing'
    <2>1. ASSUME NEW u \in Task, NEW k \in ArtifactId PROVE InOrder(arts'[u][k])
      BY <1>t, <1>1, <1>4
    <2> QED BY <2>1 DEF NoChunkMissing, InOrder, ArtifactId
  <1>6. ASSUME NEW f \in Exec PROVE ReadInOrder(f)' /\ SteadyRun(f)'
    <2>1. ReadInOrder(f)'
      BY <1>t, <1>1, ReadNext DEF ReadInOrder
    <2>2. CASE f = e
      <3>1. BusyRun(e, task[e])' => kind[e] = "run"
        BY <1>1 DEF BusyRun
      <3>2. BusyRun(e, task[e])' => Steady(e, arts'[task'[e]], queue'[e] \o script'[e])
        BY <1>1, <1>3, <3>1
      <3> QED BY <2>1, <2>2, <3>2, SteadyRunNext
    <2>3. CASE f # e
      <3>1. task[f] = t => ~BusyRun(f, t)
        <4>1. CASE kind[e] = "run"
          <5>1. BusyRun(e, t)
            BY <1>1, <4>1 DEF BusyRun, Busy
          <5> QED BY <1>t, <1>2, <2>3, <5>1 DEF OneRun
        <4>2. CASE kind[e] = "cancel"
          <5>1. Sending(e, t)
            BY <1>1, <4>2 DEF Sending
          <5>2. Quiet(f, t)
            BY <1>t, <1>2, <2>3, <5>1 DEF Alone
          <5> QED BY <5>2 DEF Quiet, On, BusyRun
        <4> QED BY <1>2, <4>1, <4>2
      <3>2. BusyRun(f, task[f]) => arts'[task[f]] = arts[task[f]]
        BY <1>t, <1>1, <3>1
      <3> QED BY <1>t, <1>1, <2>1, <2>3, <3>2, SteadyFrame
    <2> QED BY <2>2, <2>3
  <1> QED BY <1>5, <1>6 DEF SteadyInv

\* Every step keeps the invariant.
LEMMA SteadyNext ==
    ASSUME Overlap = FALSE PROVE StreamInv /\ SteadyInv /\ [Next]_vars => SteadyInv'
  <1> SUFFICES ASSUME StreamInv, SteadyInv, [Next]_vars PROVE SteadyInv'
    OBVIOUS
  <1>1. ASSUME NEW e \in Exec, Apply(e) PROVE SteadyInv'
    BY <1>1, SteadyApply
  <1>2. ASSUME NEW e \in Exec,
               \/ \E t \in Task, m \in Msg : SendMessage(e, t, m)
               \/ \E t \in Task, w \in BOOLEAN : CancelTask(e, t, w)
               \/ Emit(e) \/ Elapse(e) \/ Interrupt(e) \/ RunCancel(e) \/ RefuseCancel(e)
        PROVE  SteadyInv'
    BY <1>2, SteadyCalm
  <1>3. ASSUME UNCHANGED vars PROVE SteadyInv'
    <2>1. UNCHANGED <<arts, snap>> /\ \A f \in Exec : Same(f)
      BY <1>3 DEF vars, Same
    <2>2. \A f \in Exec : SteadyRun(f)'
      BY <2>1, SteadyFrame DEF SteadyInv
    <2>3. \A f \in Exec : ReadInOrder(f)'
      BY <2>1 DEF SteadyInv, ReadInOrder, InOrder, ArtifactId
    <2>4. NoChunkMissing'
      BY <2>1 DEF SteadyInv, NoChunkMissing, ArtifactId
    <2> QED BY <2>2, <2>3, <2>4 DEF SteadyInv
  <1> QED BY <1>1, <1>2, <1>3 DEF Next

\* No artifact ever has a hole, whatever is interrupted, cancelled or written
\* back in between.
THEOREM ArtifactsHaveNoHoles == ASSUME Overlap = FALSE PROVE Spec => []NoChunkMissing
  <1>1. Init => StreamInv /\ SteadyInv
    <2> SUFFICES ASSUME Init PROVE StreamInv /\ SteadyInv
      OBVIOUS
    <2>1. \A k \in ArtifactId : InOrder(NoArts[k])
      BY EmptyLen DEF NoArts, Absent, InOrder
    <2>2. NoChunkMissing
      BY <2>1 DEF Init, NoChunkMissing, InOrder
    <2>3. \A e \in Exec : ReadInOrder(e) /\ SteadyRun(e)
      BY <2>1 DEF Init, ReadInOrder, SteadyRun, BusyRun
    <2> QED BY <2>2, <2>3, StreamInit DEF SteadyInv
  <1>2. StreamInv /\ SteadyInv /\ [Next]_vars => (StreamInv /\ SteadyInv)'
    BY StreamNext, SteadyNext
  <1>3. SteadyInv => NoChunkMissing
    BY DEF SteadyInv
  <1> QED BY <1>1, <1>2, <1>3, PTL DEF Spec
=============================================================================
