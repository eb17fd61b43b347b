-------------------------- MODULE MCPlaygroundChat --------------------------
(* The playground's chat on a small page: two requests, two events per     *)
(* stream, the last three messages kept.                                   *)
EXTENDS PlaygroundChat
=============================================================================
