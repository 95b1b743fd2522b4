--------------------------- MODULE MC_SpectrumPhy ---------------------------
EXTENDS SpectrumPhy_props
=============================================================================
