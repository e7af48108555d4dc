------------------------------- MODULE MCDevice -------------------------------
\* Every constant of Device is given in the .cfg files.
EXTENDS Device
=============================================================================
