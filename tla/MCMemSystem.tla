---------------------------- MODULE MCMemSystem ----------------------------
EXTENDS MemSystem
OneShared == [k \in Bank |-> IF k = 0 THEN 1 ELSE 0]
AllShared == [k \in Bank |-> 1]
=============================================================================
