---------------------------- MODULE MCPromptArg ----------------------------
\* An instance of PromptArgRuntime for TLC.
EXTENDS PromptArgRuntime

MCArgLists == {<<>>, <<"plain", "slot">>}
=============================================================================
