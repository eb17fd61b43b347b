----------------------------- MODULE MCRustAgent ----------------------------
(***************************************************************************)
(* RustAgent with two calls and every message.                             *)
(***************************************************************************)
EXTENDS RustAgent

CONSTANTS c1, c2

MCRequest == RustRequest
=============================================================================
