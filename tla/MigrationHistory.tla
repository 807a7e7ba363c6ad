-------------------------- MODULE MigrationHistory --------------------------
(***************************************************************************)
(* What the migrator of pyxle-db promises about one database, at two       *)
(* strengths.  Spec: a migration is recorded at most once, from one file   *)
(* content, after every earlier file of the same directory, and its        *)
(* statements take effect once each, at the moment the tracking row        *)
(* appears.  LogSpec: statements may take effect before the row does, and  *)
(* more than once, but never before the earlier files are recorded, and    *)
(* the row still means that all of them did.  Nothing here says who        *)
(* applies a migration, under which lock, or what fails on the way.        *)
(***************************************************************************)
EXTENDS Naturals

CONSTANTS Id,          \* migration ids, ordered by their numeric prefix
          Content,     \* file contents, told apart by their checksum
          None,        \* no file, no tracking row
          NumStmts,    \* statements in a migration
          Directories  \* what a migrations directory may hold

VARIABLES tracked,   \* tracked[m]: the checksum in the tracking row of m, or None
          effects    \* effects[m][c][s]: how often statement s of content c took effect

Statements == 1..NumStmts

Init == /\ tracked = [m \in Id |-> None]
        /\ effects = [m \in Id |-> [c \in Content |-> [s \in Statements |-> 0]]]

\* Directory d has a file for m, and all its earlier files are recorded.
Reached(m, d) ==
    /\ d[m] # None
    /\ \A k \in Id : k < m /\ d[k] # None => tracked[k] = d[k]

\* The statements `stmts' of content c take effect, once each.
Run(m, c, stmts) ==
    effects' = [effects EXCEPT ![m][c] =
                  [s \in Statements |-> IF s \in stmts THEN effects[m][c][s] + 1
                                        ELSE effects[m][c][s]]]

Apply(m, d) ==
    /\ Reached(m, d) /\ tracked[m] = None
    /\ Run(m, d[m], Statements)
    /\ tracked' = [tracked EXCEPT ![m] = d[m]]

Next == \E m \in Id, d \in Directories : Apply(m, d)

Spec == Init /\ [][Next]_<<tracked, effects>>
-----------------------------------------------------------------------------
\* Part of a script takes effect on its own.
Execute(m, d, stmts) ==
    /\ Reached(m, d)
    /\ Run(m, d[m], stmts)
    /\ UNCHANGED tracked

\* The rest of the script and the tracking row.
Record(m, d, stmts) ==
    /\ Reached(m, d) /\ tracked[m] = None
    /\ \A s \in Statements \ stmts : effects[m][d[m]][s] > 0
    /\ Run(m, d[m], stmts)
    /\ tracked' = [tracked EXCEPT ![m] = d[m]]

LogNext ==
    \E m \in Id, d \in Directories, stmts \in SUBSET Statements :
        Execute(m, d, stmts) \/ Record(m, d, stmts)

LogSpec == Init /\ [][LogNext]_<<tracked, effects>>
=============================================================================
