----------------------------- MODULE MCEventHub -----------------------------
\* Instances of EventHub for TLC: the values of the constants are in the cfgs.
EXTENDS EventHub
=============================================================================
