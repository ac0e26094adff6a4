---------------------------- MODULE AsyncEffect ----------------------------
(***************************************************************************)
(* utils/async-effect.ts: a function of which only the last call counts.   *)
(* Calling it aborts the run before, which goes on until it looks at its   *)
(* signal; an error of a run is logged and nothing else.                   *)
(***************************************************************************)
EXTENDS FiniteSets, Naturals

CONSTANT MaxRuns   \* bound: runs under way when one more is started

Abort(runs) == {[r EXCEPT !.aborted = TRUE] : r \in runs}
Live(runs) == {r \in runs : ~r.aborted}
Room(runs) == Cardinality(runs) <= MaxRuns
Replace(runs, r, s) == (runs \ {r}) \cup {s}

\* A run is started.
Started(runs, r) == Abort(runs) \cup {r}
=============================================================================
