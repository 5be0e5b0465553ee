------------------------------- MODULE MCHbdp -------------------------------
EXTENDS Hbdp
=============================================================================
