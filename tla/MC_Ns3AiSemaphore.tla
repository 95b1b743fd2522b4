------------------------- MODULE MC_Ns3AiSemaphore --------------------------
EXTENDS Ns3AiSemaphore, TLC

CONSTANTS p1, p2, p3

MCProcs == {p1, p2, p3}

=============================================================================
