--------------------------- MODULE MCStdioRuntime ---------------------------
\* Instances of StdioRuntime for TLC: the values of the constants are in the cfgs.
EXTENDS StdioRuntime
=============================================================================
