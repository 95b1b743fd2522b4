------------------------ MODULE MC_GnbChannelAccess ------------------------
EXTENDS GnbChannelAccess_props
=============================================================================
