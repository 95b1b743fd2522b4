-------------------------- MODULE GymSession_props --------------------------
(***************************************************************************)
(* What makes a training session correct: the agent and the simulation in  *)
(* step, every observation what the agent takes it for, and every call     *)
(* answered.                                                               *)
(***************************************************************************)
EXTENDS GymSession

AtRest == [c2pEmpty |-> 1, c2pFull |-> 0, p2cEmpty |-> 1, p2cFull |-> 0]

\* An observation reports the parameters that were in force while it was measured.  With
\* Reaches = FALSE, as for the threshold of energy detection, TLC finds this violated.
ParametersMatchWindow ==
    py = "ready" => obs.measured = obs.reported

\* The code applies an action at the end of the step after the one that brings it, so
\* that the n-th observation measures the action before the last; the final one is
\* sent before anything new is measured, and repeats the window before.  This is of the
\* parameters that reach who uses them.
ObservationLag ==
    py = "ready" =>
        LET window == IF obs.over THEN acts - 1 ELSE acts
        IN  obs.measured = IF window = 0 THEN 0 ELSE window - 1

\* A new ns-3 process finds the semaphores as a new segment has them: reset() does not
\* kill the old process, in order for them to get there (environments.py).
SemaphoresReset ==
    py = "launched" /\ sim = "change" => sem = AtRest

\* Python spins on a semaphore nobody has posted, waits for the old process, or has given
\* up; the ns-3 process spins on one, or is not there.
PyStuck ==
    \/ py \in {"recvInit", "recvState"} /\ sem.c2pFull = 0
    \/ py \in {"sendAck", "sendAct", "sendOver", "sendClose"} /\ sem.p2cEmpty = 0
    \/ py = "run" /\ sim \notin {"none", "exited"}
    \/ py = "failed"
SimStuck ==
    \/ sim = "notify" /\ sem.c2pEmpty = 0
    \/ sim \in {"initRecv", "stateRecv"} /\ sem.p2cFull = 0
    \/ sim \in {"none", "exited"}

\* If ns-3 processes leave promptly the two never wait for each other, through any number
\* of episodes on one segment.
NoMutualWait == prompt => ~(PyStuck /\ SimStuck)

\* The agent's side of the session.  It has an observation once the call that asked for
\* it returns: the final one is received before its close command is sent.
closing == py \in {"sendOver", "postOver"}
Gym == INSTANCE GymEnv WITH
    call <- CASE py = "ready" -> "none"
              [] py = "closed" -> "closed"
              [] py \in {"sendAct", "postAct"} -> "step"
              [] py \in {"recvState", "gotState", "sendOver", "postOver"} /\ envDirty -> "step"
              [] OTHER -> "reset",
    episode <- obs.episode,
    step <- IF closing THEN obs.step - 1 ELSE obs.step,
    done <- obs.over /\ ~closing

\* The session is a gym environment, however late an ns-3 process leaves: step() gives the
\* next observation of the episode, reset() the first of a new one, and no call returns
\* anything else (Ns3Env in environments.py).
ImplementsGymSafely == Gym!SafeSpec

\* If ns-3 processes leave promptly each call returns: no order of the handshake, the
\* close command, the kill and the end of a simulation leaves Python spinning.
CallsReturn == prompt => Gym!Returns

=============================================================================
