---------------------------- MODULE MCProcStat -----------------------------
(* Finite instances of ProcStat for TLC.                                   *)
EXTENDS ProcStat
=============================================================================
