--------------------------- MODULE MCSessionStore ---------------------------
\* Instances of SessionStore for TLC: the values of the constants are in the cfgs.
EXTENDS SessionStore, TLC

\* Nothing tells one native conversation from another.
Symmetry == Permutations(Natives)
=============================================================================
