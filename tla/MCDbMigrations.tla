--------------------------- MODULE MCDbMigrations ---------------------------
(* Instances of DbMigrations for TLC: the migrations of the repository.    *)
EXTENDS DbMigrations, SchemaMigrations, TLC
CONSTANTS p1, p2

(* Every third version: the windows of Ahead migrations overlap.            *)
ThirdVersions == {v \in 0 .. Len(AllMigrations) : v = 0 \/ v % 3 = 1}

TwoCallers == {p1, p2}
Symmetry   == Permutations(TwoCallers)
=============================================================================
