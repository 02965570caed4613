----------------------------- MODULE MC_Forwarder -----------------------------
EXTENDS Forwarder
=============================================================================
