------------------------- MODULE MCRequestUnitOfWork -------------------------
(* Constants for model-checking RequestUnitOfWork. *)
EXTENDS RequestUnitOfWork

CONSTANTS main, spawned,   \* tasks
          x1, x2, x3       \* transaction contexts
=============================================================================
