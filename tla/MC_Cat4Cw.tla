----------------------------- MODULE MC_Cat4Cw ------------------------------
EXTENDS Cat4Cw
=============================================================================
