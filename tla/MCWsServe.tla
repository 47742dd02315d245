----------------------------- MODULE MCWsServe -----------------------------
\* An instance of WsServe for TLC: the values of the constants are in the cfg.
EXTENDS WsServe
=============================================================================
