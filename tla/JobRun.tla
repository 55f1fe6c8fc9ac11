------------------------------- MODULE JobRun -------------------------------
(***************************************************************************)
(* The row a collector job keeps in collection_runs (data/storage/          *)
(* duckdb_store.py): started before any work, finished in a finally, left  *)
(* "running" by a killed process until the next job marks it abandoned.    *)
(* The database file has a single writer, so jobs do not overlap.          *)
(***************************************************************************)
EXTENDS Naturals

CONSTANT MaxRuns    \* bound: jobs ever started

VARIABLES
    alive,      \* a collector process is running
    started,    \* rows of collection_runs
    unfinished  \* and those still marked "running"

run == <<alive, started, unfinished>>

RunInit == alive = FALSE /\ started = 0 /\ unfinished = 0

\* Single-writer file: any row still marked running belongs to a dead process, and is now
\* marked abandoned.
StartRun ==
    /\ ~alive /\ started < MaxRuns
    /\ alive' = TRUE /\ started' = started + 1 /\ unfinished' = 1
\* In the finally of every job: ok, failed or interrupted.
FinishRun == alive /\ alive' = FALSE /\ unfinished' = unfinished - 1 /\ UNCHANGED started
\* A hard kill: nothing in memory survives, nothing more is written.
Kill == alive /\ alive' = FALSE /\ UNCHANGED <<started, unfinished>>
=============================================================================
