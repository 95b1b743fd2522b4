------------------------------- MODULE GymEnv -------------------------------
(***************************************************************************)
(* What an agent is promised by the environment it trains in (the gym API  *)
(* that Ns3Env offers): step() returns the next observation of the same    *)
(* episode, reset() the first one of a new episode, and both return.       *)
(***************************************************************************)
EXTENDS Naturals

CONSTANTS
    NSteps,         \* the observation that ends an episode
    MaxEpisodes     \* bound: episodes

VARIABLES
    call,           \* the call the agent is in, or "none", or "closed"
    episode,        \* the episode of the last observation returned
    step,           \* its number in the episode
    done            \* whether it ended the episode

vars == <<call, episode, step, done>>

\* The constructor is the reset of episode 1.
Init ==
    /\ call = "reset"
    /\ episode = 0
    /\ step = 0
    /\ done = FALSE

Step ==
    /\ call = "none" /\ ~done
    /\ call' = "step"
    /\ UNCHANGED <<episode, step, done>>

StepReturns ==
    /\ call = "step"
    /\ call' = "none"
    /\ step' = step + 1
    /\ done' = (step' = NSteps)
    /\ UNCHANGED episode

Reset ==
    /\ call = "none" /\ step > 0
    /\ episode < MaxEpisodes
    /\ call' = "reset"
    /\ UNCHANGED <<episode, step, done>>

ResetReturns ==
    /\ call = "reset"
    /\ call' = "none"
    /\ episode' = episode + 1
    /\ step' = 0
    /\ done' = FALSE

Close ==
    /\ call = "none"
    /\ call' = "closed"
    /\ UNCHANGED <<episode, step, done>>

Next == Step \/ StepReturns \/ Reset \/ ResetReturns \/ Close

SafeSpec == Init /\ [][Next]_vars

\* Each call returns.
Returns == WF_vars(StepReturns \/ ResetReturns)

Spec == SafeSpec /\ Returns

=============================================================================
