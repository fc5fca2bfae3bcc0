----------------------------- MODULE MCStartup -----------------------------
(* Startup on two connections.                                             *)
EXTENDS Startup
=============================================================================
