----------------------------- MODULE MCBackend -----------------------------
(* A finite instance of Backend for TLC.                                   *)
EXTENDS Backend
=============================================================================
