----------------------------- MODULE MCPersistedStream -----------------------------
(* PersistedStream on a small instance: two workers, one run, one client. *)
EXTENDS PersistedStream, TLC

WorkerSymmetry == Permutations(Workers) \cup Permutations(Clients)
=============================================================================
