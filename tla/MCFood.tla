------------------------------- MODULE MCFood -------------------------------
EXTENDS Food, TLC

=============================================================================
