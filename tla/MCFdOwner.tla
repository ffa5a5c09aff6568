------------------------------ MODULE MCFdOwner ------------------------------
EXTENDS FdOwner, TLC

CONSTANTS p, q, u, v

=============================================================================
