---------------------------- MODULE MCPageMemory ----------------------------
EXTENDS PageMemory
=============================================================================
