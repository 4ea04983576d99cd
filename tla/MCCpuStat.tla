----------------------------- MODULE MCCpuStat -----------------------------
(* Finite instances of CpuStat for TLC.                                    *)
EXTENDS CpuStat, TLC

(* All lines are parsed by the same code.                                  *)
Symmetry == Permutations(Cpus)
=============================================================================
