---------------------------- MODULE MC_LbtAccess ----------------------------
EXTENDS LbtAccess_props
=============================================================================
