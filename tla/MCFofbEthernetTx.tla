-------------------------- MODULE MCFofbEthernetTx --------------------------
(* TLC instances of FofbEthernetTx. *)
EXTENDS FofbEthernetTx
=============================================================================
