------------------------------- MODULE Totals -------------------------------
(***************************************************************************)
(* Sums over sets of rows, as the SUMs of the ledger's queries.            *)
(***************************************************************************)
EXTENDS Integers, FiniteSets, FiniteSetsExt

\* The sum of f over a set.
Total(f, S) == MapThenSumSet(LAMBDA x : f[x], S)
=============================================================================
