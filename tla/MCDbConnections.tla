-------------------------- MODULE MCDbConnections --------------------------
(* An instance of DbConnections for TLC: a thread that queries and one     *)
(* that prepares the database, each of which may do either.                *)
EXTENDS DbConnections, TLC
CONSTANTS t1, t2
TwoThreads == {t1, t2}
Symmetry == Permutations(TwoThreads)
=============================================================================
