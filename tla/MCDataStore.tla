---------------------------- MODULE MCDataStore ----------------------------
(* Finite instances of DataStore for TLC: the monitor is the one writer.   *)
EXTENDS DataStore, TLC

(* Reader threads run the same code, and no step tells two keys or two     *)
(* values apart except through Zero, which stays fixed.                    *)
Symmetry == Permutations(Readers) \cup Permutations(Keys)
=============================================================================
