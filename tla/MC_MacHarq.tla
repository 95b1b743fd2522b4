------------------------------ MODULE MC_MacHarq ------------------------------
EXTENDS MacHarq_props
=============================================================================
