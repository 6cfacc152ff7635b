------------------------------ MODULE MCHostCmd ------------------------------
EXTENDS HostCmd
CONSTANTS g, f
=============================================================================
