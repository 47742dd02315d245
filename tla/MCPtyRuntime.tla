---------------------------- MODULE MCPtyRuntime ----------------------------
\* An instance of PtyRuntime for TLC: the values of the constants are in the cfg.
EXTENDS PtyRuntime
=============================================================================
