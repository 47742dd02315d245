----------------------------- MODULE MCSession -----------------------------
\* Instances of Session for TLC, and the mutated definitions of its runs.
EXTENDS Session
=============================================================================
