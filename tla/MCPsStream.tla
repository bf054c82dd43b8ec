----------------------------- MODULE MCPsStream -----------------------------
(* TLC instances of PsStream. *)
EXTENDS PsStream
=============================================================================
