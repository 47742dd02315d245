---------------------------- MODULE MCOutputPump ----------------------------
\* An instance of OutputPump for TLC: the values of the constants are in the cfg.
EXTENDS OutputPump
=============================================================================
