------------------------------- MODULE MCDesk -------------------------------
EXTENDS Desk
=============================================================================
