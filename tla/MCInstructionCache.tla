------------------------- MODULE MCInstructionCache -------------------------
EXTENDS InstructionCache

\* A list of one instruction and one it can split in two.
MCProgs  == {"short", "long"}
MCLength == [p \in MCProgs |-> IF p = "short" THEN 1 ELSE 3]
MCTarget == [p \in MCProgs |-> IF p = "short" THEN 0 ELSE 1]
=============================================================================
