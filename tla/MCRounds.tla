------------------------------ MODULE MCRounds ------------------------------
EXTENDS Rounds, TLC

=============================================================================
