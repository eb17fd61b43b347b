--------------------------- MODULE MCPlaygroundPage ---------------------------
(* MCPlaygroundPage.cfg: two agents, one of which has a card without a URL *)
(* and gets its token at selection; two card fetches and one device-code   *)
(* flow.  MCPageLiveness.cfg: one agent and two overlapping flows.  Both:  *)
(* three editors and three overlapping modals.                             *)
EXTENDS PlaygroundPage
=============================================================================
