----------------------------- MODULE MCSessionStore -----------------------------
(* SessionStore on small instances; the cfg files give the constants. *)
EXTENDS SessionStore, TLC

\* Holders are interchangeable: no definition tells two of them apart.
HolderSymmetry == Permutations(Holders)
=============================================================================
