---------------------------- MODULE MCProcScan -----------------------------
(* Finite instances of ProcScan and ProcTree for TLC.                                   *)
EXTENDS ProcTree, TLC

(* Only init is told from the other lives.                                 *)
Symmetry == Permutations(Lives \ {InitLife})
=============================================================================
