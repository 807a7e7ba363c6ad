----------------------------- MODULE MCMigrator -----------------------------
(* Constants for model-checking Migrator. *)
EXTENDS Migrator

CONSTANTS w1, w2, w3,   \* workers
          a, b          \* file contents

\* Both migrations, from content a.
Full == [m \in Id |-> a]
\* The last deployment's directory: migration 2 is not there yet.
Old == [Full EXCEPT ![2] = None]
\* Migration 2 was edited.
Edited == [Full EXCEPT ![2] = b]

Deployments == {Full, Old, Edited}
=============================================================================
