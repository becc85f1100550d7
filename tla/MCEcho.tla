------------------------------- MODULE MCEcho -------------------------------
EXTENDS Echo
=============================================================================
