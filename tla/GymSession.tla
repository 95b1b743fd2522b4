----------------------------- MODULE GymSession -----------------------------
(***************************************************************************)
(* A training session: the Python environment (Ns3Env in environments.py), *)
(* the runner of the ns-3 process (Experiment in ns3ai_utils.py), and the  *)
(* ns-3 process (OpenGymInterface and the events of nr-ai-mac.cc), over    *)
(* the semaphores and buffers of the shared segment.                       *)
(*                                                                         *)
(* The Python process creates the segment once; the ns-3 process opens it. *)
(* Every episode is a new ns-3 process on the segment as the last one left *)
(* it.  MsgInterface shows that a Begin .. End pair has its buffer to      *)
(* itself; here a message is written with the Begin and read with the End. *)
(***************************************************************************)
EXTENDS Integers

CONSTANTS
    NSteps,         \* state reads in a simulation: its time over the time step
    MaxEpisodes,    \* bound: episodes
    Reaches         \* whether what UpdateMacParameters sets reaches who uses it; the
                    \* threshold of energy detection does not, and baselineMode sets none

ASSUME SessionAssumption ==
    /\ NSteps \in Nat \ {0}
    /\ MaxEpisodes \in Nat \ {0}
    /\ Reaches \in BOOLEAN

VARIABLES
    sem,            \* Ns3AiMsgSync: the four counts
    toPy,           \* the Cpp2Py buffer: an EnvStateMsg (a SimInitMsg has no content)
    toSim,          \* the Py2Cpp buffer: a SimInitAck or EnvActMsg
    sim,            \* where the ns-3 process is; "none": there is none
    simStep,        \* state reads done
    initSent,       \* m_initSimMsgSent
    simEnd,         \* m_simEnd
    mac,            \* which action's parameters are where; see Mac
    py,             \* where the Python process is
    acts,           \* actions sent in this episode
    obs,            \* the last observation received
    episode,        \* ns-3 processes started
    prompt          \* whether an ns-3 process told to stop is out of the segment before
                    \* Experiment.run() kills it: nothing in the code says so

segment == <<sem, toPy, toSim>>
simVars == <<sim, simStep, initSent, simEnd, mac>>
pyVars == <<py, acts, obs, episode, prompt>>
vars == <<sem, toPy, toSim, sim, simStep, initSent, simEnd, mac, py, acts, obs, episode,
          prompt>>

Fresh == [c2pEmpty |-> 1, c2pFull |-> 0, p2cEmpty |-> 1, p2cFull |-> 0]

Actions == 0 .. NSteps
Observation == [episode : 0 .. MaxEpisodes, step : Actions, over : BOOLEAN,
                measured : Actions, reported : Actions]

\* The n-th action of an episode sets the MAC parameters to "n"; 0 are those it starts
\* with.  received: m_new_* of NrMacEnv; global: g_* of nr-ai-mac.cc; applied: in use
\* by access manager, scheduler and radio; measured: in force in the window last measured; reported: what
\* NrMacEnv gives as the observed parameters.
Mac == [received : Actions, global : Actions, applied : Actions, measured : Actions,
        reported : Actions]

StartMac == [received |-> 0, global |-> 0, applied |-> 0, measured |-> 0, reported |-> 0]

NoObs == [episode |-> 0, step |-> 0, over |-> FALSE, measured |-> 0, reported |-> 0]

\* An answer to the simulation: does it ask it to stop, and with which action.
Answer(stop, act) == [stop |-> stop, act |-> act]

SimStates == {"none", "change", "notify", "initPost", "initRecv", "initGot", "statePost",
              "stateRecv", "stateGot", "update", "exited"}
PyStates == {"run", "launched", "recvInit", "gotInit", "sendAck", "postAck", "recvState",
             "gotState", "ready", "sendAct", "postAct", "sendOver", "postOver",
             "sendClose", "postClose", "failed", "closed"}

TypeOK ==
    /\ sem \in [c2pEmpty : Nat, c2pFull : Nat, p2cEmpty : Nat, p2cFull : Nat]
    /\ toPy \in Observation
    /\ toSim \in [stop : BOOLEAN, act : Actions]
    /\ sim \in SimStates
    /\ simStep \in 0 .. NSteps
    /\ initSent \in BOOLEAN
    /\ simEnd \in BOOLEAN
    /\ mac \in Mac
    /\ py \in PyStates
    /\ acts \in Actions
    /\ obs \in Observation
    /\ episode \in 0 .. MaxEpisodes
    /\ prompt \in BOOLEAN

\* Ns3Env.__init__ has created the Experiment, and with it the segment.
Init ==
    /\ sem = Fresh
    /\ toPy = NoObs
    /\ toSim = Answer(FALSE, 0)
    /\ sim = "none"
    /\ simStep = 0
    /\ initSent = FALSE
    /\ simEnd = FALSE
    /\ mac = StartMac
    /\ py = "run"
    /\ acts = 0
    /\ obs = NoObs
    /\ episode = 0
    /\ prompt \in BOOLEAN

\* sem_wait and sem_post on one of the counts.
Wait(count) ==
    /\ sem[count] > 0
    /\ sem' = [sem EXCEPT ![count] = @ - 1]

Post(count) == sem' = [sem EXCEPT ![count] = @ + 1]

SimGoto(from, to) == sim = from /\ sim' = to
PyGoto(from, to) == py = from /\ py' = to

-----------------------------------------------------------------------------
(* The ns-3 process.                                                       *)

\* Mutant: the new parameters are reported, for those in force.
ChangeMacTypeReportsNew ==
    /\ SimGoto("change", "notify")
    /\ mac' = [mac EXCEPT !.measured = mac.applied, !.reported = mac.received,
                          !.global = mac.received]
    /\ UNCHANGED <<segment, simStep, initSent, simEnd, pyVars>>

\* The events of a time step before the state read: the window is measured, then
\* ChangeMacTypeAlt reports the parameters in force and takes over the new ones.
ChangeMacType ==
    /\ SimGoto("change", "notify")
    /\ mac' = [mac EXCEPT !.measured = mac.applied, !.reported = mac.global,
                          !.global = mac.received]
    /\ UNCHANGED <<segment, simStep, initSent, simEnd, pyVars>>

\* Init(), from the first NotifyCurrentState: the spaces are sent ...
InitSendBegin ==
    /\ ~initSent
    /\ SimGoto("notify", "initPost")
    /\ Wait("c2pEmpty")
    /\ initSent' = TRUE
    /\ UNCHANGED <<toPy, toSim, simStep, simEnd, mac, pyVars>>

InitSendEnd ==
    /\ SimGoto("initPost", "initRecv")
    /\ Post("c2pFull")
    /\ UNCHANGED <<toPy, toSim, simStep, initSent, simEnd, mac, pyVars>>

InitRecvBegin ==
    /\ SimGoto("initRecv", "initGot")
    /\ Wait("p2cFull")
    /\ UNCHANGED <<toPy, toSim, simStep, initSent, simEnd, mac, pyVars>>

\* ... and the acknowledgement is read: it may ask to stop, which ends the process.
InitRecvEnd ==
    /\ SimGoto("initGot", IF toSim.stop THEN "exited" ELSE "notify")
    /\ Post("p2cEmpty")
    /\ UNCHANGED <<toPy, toSim, simStep, initSent, simEnd, mac, pyVars>>

\* NotifyCurrentState: the state is sent ...
NotifySendBegin ==
    /\ initSent
    /\ SimGoto("notify", "statePost")
    /\ Wait("c2pEmpty")
    /\ toPy' = [episode |-> episode, step |-> simStep, over |-> simEnd,
                measured |-> mac.measured, reported |-> mac.reported]
    /\ UNCHANGED <<toSim, simStep, initSent, simEnd, mac, pyVars>>

NotifySendEnd ==
    /\ SimGoto("statePost", "stateRecv")
    /\ Post("c2pFull")
    /\ UNCHANGED <<toPy, toSim, simStep, initSent, simEnd, mac, pyVars>>

NotifyRecvBegin ==
    /\ SimGoto("stateRecv", "stateGot")
    /\ Wait("p2cFull")
    /\ UNCHANGED <<toPy, toSim, simStep, initSent, simEnd, mac, pyVars>>

\* Mutant: a process that is to stop leaves before it has given the buffer back.
NotifyRecvEndStopsFirst ==
    /\ SimGoto("stateGot", IF simEnd \/ toSim.stop THEN "exited" ELSE "update")
    /\ IF simEnd \/ toSim.stop THEN UNCHANGED sem ELSE Post("p2cEmpty")
    /\ mac' = IF simEnd \/ toSim.stop THEN mac ELSE [mac EXCEPT !.received = toSim.act]
    /\ UNCHANGED <<toPy, toSim, simStep, initSent, simEnd, pyVars>>

\* ... and the answer is read: after the end of the simulation it is dropped, a stop
\* ends the process, an action is stored by ExecuteActions.
NotifyRecvEnd ==
    /\ SimGoto("stateGot", IF simEnd \/ toSim.stop THEN "exited" ELSE "update")
    /\ Post("p2cEmpty")
    /\ mac' = IF simEnd \/ toSim.stop THEN mac ELSE [mac EXCEPT !.received = toSim.act]
    /\ UNCHANGED <<toPy, toSim, simStep, initSent, simEnd, pyVars>>

\* Mutant: the action just received is applied.
NewParametersAtOnce == IF Reaches THEN mac.received ELSE mac.applied

\* What UpdateMacParameters applies.  NrLbtAccessManager::SetEdThreshold keeps the new
\* threshold to itself: the radio has had its CcaMode1Threshold from SetNrSpectrumPhy.
NewParameters == IF Reaches THEN mac.global ELSE mac.applied

\* Whether it is the last time.
LastStep == simStep + 1 = NSteps

\* UpdateMacParameters, the last event of the time step.  Then the clock moves on to
\* the next one, or to the end: Simulator::Stop comes before the events of its instant,
\* and the program calls NotifySimulationEnd.
UpdateMacParameters ==
    /\ SimGoto("update", IF LastStep THEN "notify" ELSE "change")
    /\ mac' = [mac EXCEPT !.applied = NewParameters]
    /\ simStep' = simStep + 1
    /\ simEnd' = LastStep
    /\ UNCHANGED <<segment, initSent, pyVars>>

SimStep ==
    \/ ChangeMacType
    \/ InitSendBegin \/ InitSendEnd \/ InitRecvBegin \/ InitRecvEnd
    \/ NotifySendBegin \/ NotifySendEnd \/ NotifyRecvBegin \/ NotifyRecvEnd
    \/ UpdateMacParameters

-----------------------------------------------------------------------------
(* The Python process: Ns3Env and Experiment.  Between two calls of the    *)
(* agent it is "ready"; newStateRx then holds, so that the rx_env_state of *)
(* a reset returns at once.                                                *)

envDirty == acts > 0

\* Experiment.run(): what is left of the old process is killed, wherever it is, and a
\* new one is started.  The segment stays as it is.
Run ==
    /\ PyGoto("run", "launched")
    /\ prompt => sim \in {"none", "exited"}
    /\ sim' = "change"
    /\ simStep' = 0
    /\ initSent' = FALSE
    /\ simEnd' = FALSE
    /\ mac' = StartMac
    /\ episode' = episode + 1
    /\ acts' = 0
    /\ UNCHANGED <<segment, obs, prompt>>

\* ... and after half a second it must still be there; one out of the segment may be.
SubprocessAlive ==
    /\ PyGoto("launched", "recvInit")
    /\ UNCHANGED <<segment, simVars, acts, obs, episode, prompt>>

SubprocessDied ==
    /\ sim = "exited"
    /\ PyGoto("launched", "failed")
    /\ UNCHANGED <<segment, simVars, acts, obs, episode, prompt>>

\* initialize_env: the spaces are received and acknowledged.
InitializeRecvBegin ==
    /\ PyGoto("recvInit", "gotInit")
    /\ Wait("c2pFull")
    /\ UNCHANGED <<toPy, toSim, simVars, acts, obs, episode, prompt>>

InitializeRecvEnd ==
    /\ PyGoto("gotInit", "sendAck")
    /\ Post("c2pEmpty")
    /\ UNCHANGED <<toPy, toSim, simVars, acts, obs, episode, prompt>>

\* PySendBegin, at a place of the program, with a message.
SendBegin(from, to, msg) ==
    /\ PyGoto(from, to)
    /\ Wait("p2cEmpty")
    /\ toSim' = msg
    /\ UNCHANGED <<toPy, simVars, acts, obs, episode, prompt>>

\* PySendEnd.
SendEnd(from, to) ==
    /\ PyGoto(from, to)
    /\ Post("p2cFull")
    /\ UNCHANGED <<toPy, toSim, simVars, acts, obs, episode, prompt>>

InitializeSendBegin == SendBegin("sendAck", "postAck", Answer(FALSE, 0))
InitializeSendEnd == SendEnd("postAck", "recvState")

\* rx_env_state: the state is received; the last one is answered with a close command.
RxEnvStateBegin ==
    /\ PyGoto("recvState", "gotState")
    /\ Wait("c2pFull")
    /\ UNCHANGED <<toPy, toSim, simVars, acts, obs, episode, prompt>>

\* Mutant: the last state is not answered.
RxEnvStateEndNoClose ==
    /\ PyGoto("gotState", "ready")
    /\ Post("c2pEmpty")
    /\ obs' = toPy
    /\ UNCHANGED <<toPy, toSim, simVars, acts, episode, prompt>>

RxEnvStateEnd ==
    /\ PyGoto("gotState", IF toPy.over THEN "sendOver" ELSE "ready")
    /\ Post("c2pEmpty")
    /\ obs' = toPy
    /\ UNCHANGED <<toPy, toSim, simVars, acts, episode, prompt>>

OverSendBegin == SendBegin("sendOver", "postOver", Answer(TRUE, 0))
OverSendEnd == SendEnd("postOver", "ready")

\* step(): send_actions, then rx_env_state.  An agent does not step past the end.
Step ==
    /\ ~obs.over
    /\ PyGoto("ready", "sendAct")
    /\ acts' = acts + 1
    /\ UNCHANGED <<segment, simVars, obs, episode, prompt>>

ActionSendBegin == SendBegin("sendAct", "postAct", Answer(FALSE, acts))

\* Mutant: send_actions leaves newStateRx set.
ActionSendEndStateKept == SendEnd("postAct", "ready")
ActionSendEnd == SendEnd("postAct", "recvState")

\* reset() after at least one step; before, it returns the first observation again.
Reset ==
    /\ envDirty
    /\ episode < MaxEpisodes
    /\ PyGoto("ready", IF obs.over THEN "run" ELSE "sendClose")
    /\ UNCHANGED <<segment, simVars, acts, obs, episode, prompt>>

CloseSendBegin == SendBegin("sendClose", "postClose", Answer(TRUE, 0))
CloseSendEnd == SendEnd("postClose", "run")

\* close(): the process is killed and the segment removed.
Close ==
    /\ PyGoto("ready", "closed")
    /\ sim' = "none"
    /\ UNCHANGED <<segment, simStep, initSent, simEnd, mac, acts, obs, episode, prompt>>

\* What Python does by itself, once the agent has called it.
PyStep ==
    \/ Run \/ SubprocessAlive \/ SubprocessDied
    \/ InitializeRecvBegin \/ InitializeRecvEnd
    \/ InitializeSendBegin \/ InitializeSendEnd
    \/ RxEnvStateBegin \/ RxEnvStateEnd \/ OverSendBegin \/ OverSendEnd
    \/ ActionSendBegin \/ ActionSendEnd \/ CloseSendBegin \/ CloseSendEnd

Next == SimStep \/ PyStep \/ Step \/ Reset \/ Close

\* Two running processes; what the agent calls, and when, is its own business.
Spec == Init /\ [][Next]_vars /\ WF_vars(SimStep) /\ WF_vars(PyStep)

=============================================================================
