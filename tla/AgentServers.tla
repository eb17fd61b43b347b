---------------------------- MODULE AgentServers ----------------------------
(***************************************************************************)
(* The four spec agents side by side, as the constants of AgentTasks: the  *)
(* handler each one picks for a message in a phase of the task, and what   *)
(* their cancel handlers do.                                               *)
(***************************************************************************)
EXTENDS A2A

Dotnet == INSTANCE DotnetAgent
Go == INSTANCE GoAgent
Python == INSTANCE PythonAgent
Java == INSTANCE JavaAgent
Names == INSTANCE Scenarios

Agents == {"dotnet", "go", "python", "java"}

HandlerOf(v, m, phase) ==
    CASE v = "dotnet" -> Dotnet!Route(m, phase)
      [] v = "go"     -> Go!Route(m, phase)
      [] v = "python" -> Python!Route(m, phase)
      [] v = "java"   -> Java!Route(m, phase)

HandlerTable ==
    [v \in Agents |-> [m \in Request |->
        [p \in Phase \ Terminal |-> HandlerOf(v, m, p)]]]

ArtifactNames == Names!AgentArtifacts

\* CancelAsync of the .NET agent enqueues the whole task, the other agents'
\* cancel handlers send a status update.
CancelsWholeTask == {"dotnet"}

\* The .NET and Go cancel handlers copy the metadata of the request.
CopiesMetadata == {"dotnet", "go"}

\* Handlers that a cancellation stops before their end: at an await that takes
\* the token (.NET), at ctx.Done or a yield that returns false (Go), at any
\* await (Python).  The Java handlers are synchronous and never look.
StopsOnCancel == {"dotnet", "go", "python"}
=============================================================================
