------------------------------ MODULE MCBufIde ------------------------------
EXTENDS BufIde

CONSTANTS p1, p2, b1, b2, k1, k2, k3
=============================================================================
