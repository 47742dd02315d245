------------------------------ MODULE MCCatalog ------------------------------
\* An instance of Catalog for TLC: one workspace, two managed sessions started
\* at times 1 and 2, and native conversations created at 2 and 3, all of codex.
EXTENDS Catalog, TLC

CONSTANTS n1, n2, m1, m2

MCAdapters == <<"codex", "claudecode">>
MCAdapterOf == [id \in Ids |-> "codex"]
MCPathOf == [id \in Ids |-> "p"]
MCCreatedAt == (m1 :> 1) @@ (m2 :> 2) @@ (n1 :> 2) @@ (n2 :> 3)
MCPlace == (m1 :> 1) @@ (m2 :> 2) @@ (n1 :> 3) @@ (n2 :> 4)
MCNamed == {<<m2, n1>>}
Symmetry == Permutations(Refreshers)
=============================================================================
