------------------------- MODULE MC_GymSession -------------------------
EXTENDS GymSession_props

========================================================================
