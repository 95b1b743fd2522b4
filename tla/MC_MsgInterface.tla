-------------------------- MODULE MC_MsgInterface ---------------------------
EXTENDS MsgInterface_props
=============================================================================
