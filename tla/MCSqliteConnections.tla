-------------------------- MODULE MCSqliteConnections --------------------------
(* Constants for model-checking SqliteConnections. *)
EXTENDS SqliteConnections, TLC

CONSTANTS k1, k2, k3,   \* coroutines
          th1, th2      \* threads

Symmetry == Permutations(Task) \cup Permutations(Thread)
=============================================================================
