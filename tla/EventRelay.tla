----------------------------- MODULE EventRelay -----------------------------
(***************************************************************************)
(* What a relay between an agent and a client promises of a stream: the    *)
(* client gets the agent's events in order, each once, none that the agent *)
(* did not send, and in the end all of them, or it learns that the stream  *)
(* was lost.  It says nothing of buffers, lines or dialects.               *)
(***************************************************************************)
EXTENDS Naturals, Sequences

VARIABLES
  sent,   \* how many events the agent has sent
  got,    \* the numbers of the events the client has got
  over    \* what the client knows of the end

relayVars == <<sent, got, over>>

RelayInit == sent = 0 /\ got = <<>> /\ over = "open"

Send == over = "open" /\ sent' = sent + 1 /\ UNCHANGED <<got, over>>

Get ==
  /\ over = "open" /\ Len(got) < sent
  /\ got' = Append(got, Len(got) + 1)
  /\ UNCHANGED <<sent, over>>

Complete == over = "open" /\ Len(got) = sent /\ over' = "complete" /\ UNCHANGED <<sent, got>>
Lose == over = "open" /\ over' = "lost" /\ UNCHANGED <<sent, got>>

RelayNext == Send \/ Get \/ Complete \/ Lose

RelaySpec == RelayInit /\ [][RelayNext]_relayVars /\ WF_relayVars(Get \/ Complete)
=============================================================================
