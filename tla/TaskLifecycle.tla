--------------------------- MODULE TaskLifecycle ---------------------------
(***************************************************************************)
(* What an A2A server promises a client about the state of its tasks: which*)
(* state may follow which, that the end of a task is final, and that a task*)
(* the server is at work on does not stay so for ever.  It says nothing of *)
(* handlers, queues or cancels: AgentTasks implements it.                  *)
(***************************************************************************)
EXTENDS A2A

CONSTANT Task

VARIABLE st     \* the stored state of each task, "none" before it exists

\* A task may be born in any state but "canceled": only a task that exists can
\* be canceled.  A task that has left "submitted" is submitted again only by a
\* follow-up, that is from "input-required", which no run leaves for an end of
\* its own: it works first.
Successors(s) ==
    CASE s = "none"           -> Phase \ {"none", "canceled"}
      [] s = "submitted"      -> Phase \ {"none"}
      [] s = "working"        -> Settled \cup {"working"}
      [] s = "input-required" -> {"submitted", "working", "canceled"}
      [] s \in Terminal       -> {}

LifecycleInit == st = [t \in Task |-> "none"]

Change(t) == \E s \in Successors(st[t]) : st' = [st EXCEPT ![t] = s]

Settle(t) ==
    /\ st[t] \in Unsettled
    /\ \E s \in Settled : st' = [st EXCEPT ![t] = s]

LifecycleNext == \E t \in Task : Change(t)

\* The safety part of the promise: every change is an allowed one.
SafeSpec == LifecycleInit /\ [][LifecycleNext]_st

LifecycleSpec == SafeSpec /\ \A t \in Task : WF_st(Settle(t))
=============================================================================
