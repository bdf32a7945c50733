------------------------------ MODULE MCInbound ------------------------------
(* Inbound for TLC. *)
EXTENDS Inbound
=============================================================================
