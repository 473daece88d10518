---------------------------- MODULE MCWebClient -----------------------------
(* WebClient for TLC: the databases are alike. *)
EXTENDS WebClient, TLC

CONSTANTS d1, d2, expired

DatabaseSymmetry == Permutations(Databases)
=============================================================================
