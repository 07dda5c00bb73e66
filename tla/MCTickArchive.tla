---------------------------- MODULE MCTickArchive ----------------------------
EXTENDS TickArchive
=============================================================================
