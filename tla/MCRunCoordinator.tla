----------------------------- MODULE MCRunCoordinator -----------------------------
(* RunCoordinator on small instances; the cfg files give the constants. *)
EXTENDS RunCoordinator, TLC

\* Workers are interchangeable, and so are runs (with the key and turn id that
\* are the same model value).
WorkerSymmetry == Permutations(Workers) \cup Permutations(Runs)
=============================================================================
