------------------------- MODULE GymSession_proof -------------------------
(***************************************************************************)
(* Proofs about a training session, for any number of steps and episodes,  *)
(* and however late an ns-3 process told to stop leaves the segment.       *)
(*                                                                         *)
(* The inductive invariant says, for every place of the Python process,    *)
(* where the ns-3 process can be, what lies in the two buffers, and how    *)
(* the two counters of steps compare.                                      *)
(***************************************************************************)
EXTENDS GymSession_props, TLAPS

\* One if somebody holds a buffer, between his wait and his post.
Held(b) == IF b THEN 1 ELSE 0

\* Two tokens go round.  The Cpp2Py one is never lost: who kills the ns-3 process does
\* so while it is out of that buffer.  The Py2Cpp one is lost with a process killed
\* between its wait and its post.
Tokens ==
    /\ sem.c2pEmpty + sem.c2pFull + Held(sim \in {"initPost", "statePost"})
          + Held(py \in {"gotInit", "gotState"}) = 1
    /\ sem.p2cEmpty + sem.p2cFull + Held(sim \in {"initGot", "stateGot"})
          + Held(py \in {"postAck", "postAct", "postOver", "postClose"}) <= 1

\* The action whose parameters were in force in the window that the n-th state shows.
WindowOf(n) ==
    LET window == IF n = NSteps THEN n - 1 ELSE n
    IN  IF window = 0 THEN 0 ELSE window - 1

\* The action in force once that one has been applied.
InForce(n) == IF Reaches THEN n ELSE 0

\* The state message of this moment.
StateMsg == [episode |-> episode, step |-> simStep, over |-> simEnd,
             measured |-> InForce(WindowOf(simStep)), reported |-> WindowOf(simStep)]

\* The simulation ends with its last step.
ClockInv ==
    /\ simEnd <=> simStep = NSteps
    /\ sim \in {"change", "update"} => ~simEnd

\* Where the parameters of the last action are, at every place of the time step.
MacInv ==
    /\ sim = "change" => /\ mac.received = simStep
                         /\ mac.global = IF simStep = 0 THEN 0 ELSE simStep - 1
                         /\ mac.applied = InForce(mac.global)
    /\ sim \in {"notify", "initPost", "initRecv", "initGot", "statePost", "stateRecv",
                "stateGot"} /\ ~simEnd => mac.received = simStep /\ mac.global = simStep
    /\ sim = "update" => mac.received = simStep + 1 /\ mac.global = simStep
    /\ sim \notin {"none", "change", "exited"} =>
          /\ mac.measured = InForce(WindowOf(simStep))
          /\ mac.reported = WindowOf(simStep)
    /\ ~Reaches => mac.applied = 0

\* Where the Python process is: before the acknowledgement, for a state, or with one.
Opening == py \in {"launched", "recvInit", "gotInit", "sendAck", "postAck"}
AwaitingState == py \in {"recvState", "gotState"}
HasState == py \in {"ready", "sendAct", "postAct", "sendOver", "postOver", "sendClose",
                    "postClose"}

\* Before a process is started: the old one is on its way out, or will read a stop.
RunInv ==
    py = "run" =>
        /\ sim \in {"none", "stateRecv", "stateGot", "exited"}
        /\ sim = "none" => sem.p2cFull = 0
        /\ sim # "none" => toSim.stop
        /\ sem.c2pFull = 0
        /\ obs.episode = episode /\ episode < MaxEpisodes

\* While the spaces are exchanged.  The old process may have left its stop unread.
OpeningInv ==
    Opening =>
        /\ sim \in {"change", "notify", "initPost", "initRecv", "initGot", "exited"}
        /\ acts = 0 /\ simStep = 0 /\ episode = obs.episode + 1
        /\ initSent <=> sim \notin {"change", "notify"}
        /\ IF py \in {"launched", "recvInit"}
           THEN sem.c2pFull = 1 <=> sim \in {"initRecv", "initGot", "exited"}
           ELSE sem.c2pFull = 0 /\ sim \in {"initRecv", "initGot", "exited"}
        /\ IF py = "postAck"
           THEN ~toSim.stop
           ELSE sem.p2cFull = 1 \/ sim = "initGot" => toSim.stop

\* Until the first state: a process that took an old stop for its acknowledgement
\* leaves the new acknowledgement behind, and no state comes.
FirstStateInv ==
    AwaitingState /\ acts = 0 =>
        /\ sim \in {"initRecv", "initGot", "exited", "notify", "statePost", "stateRecv"}
        /\ simStep = 0 /\ initSent /\ episode = obs.episode + 1
        /\ ~toSim.stop
        /\ sem.p2cFull = 1 => sim \in {"initRecv", "exited"}

\* Within step(): the ns-3 process has yet to take the action, or is a step further.
StepInv ==
    AwaitingState /\ acts > 0 =>
        /\ initSent /\ obs.episode = episode /\ obs.step = acts - 1 /\ ~obs.over
        /\ toSim = Answer(FALSE, acts)
        /\ \/ /\ py = "recvState" /\ simStep = acts - 1 /\ sem.c2pFull = 0
              /\ sim \in {"stateRecv", "stateGot", "update"}
              /\ sem.p2cFull = 1 <=> sim = "stateRecv"
           \/ /\ simStep = acts /\ sem.p2cFull = 0
              /\ sim \in {"change", "notify", "statePost", "stateRecv"}

\* A state on its way is that of this moment.
StateSentInv ==
    AwaitingState /\ simStep = acts =>
        /\ py = "gotState" => sim = "stateRecv"
        /\ py = "recvState" => (sem.c2pFull = 1 <=> sim = "stateRecv")
        /\ sim \in {"statePost", "stateRecv"} => toPy = StateMsg

\* From a state to the answer to it.
HasStateInv ==
    HasState =>
        /\ initSent /\ sem.c2pFull = 0
        /\ obs = StateMsg
        /\ acts = IF py \in {"sendAct", "postAct"} THEN simStep + 1 ELSE simStep
        /\ py \in {"sendOver", "postOver"} => obs.over
        /\ py \in {"sendAct", "postAct", "sendClose", "postClose"} => ~obs.over
        /\ py \in {"sendClose", "postClose"} => acts > 0 /\ episode < MaxEpisodes
        /\ py = "postAct" => toSim = Answer(FALSE, acts)
        /\ py \in {"postOver", "postClose"} => toSim.stop
        /\ IF py = "ready" /\ obs.over
           THEN sim \in {"stateRecv", "stateGot", "exited"} /\ toSim.stop
           ELSE sim = "stateRecv" /\ sem.p2cFull = 0

\* The inductive invariant.
SessionInv ==
    /\ TypeOK
    /\ Tokens
    /\ ClockInv
    /\ MacInv
    /\ RunInv
    /\ OpeningInv
    /\ FirstStateInv
    /\ StepInv
    /\ StateSentInv
    /\ HasStateInv
    /\ py = "failed" => sim = "exited"
    /\ py = "closed" => sim = "none"

-----------------------------------------------------------------------------
(* What the semaphore operations do to the four counts.                    *)

LEMMA Waited ==
    ASSUME sem \in [c2pEmpty : Nat, c2pFull : Nat, p2cEmpty : Nat, p2cFull : Nat]
    PROVE  /\ Wait("c2pEmpty") =>
                /\ sem' \in [c2pEmpty : Nat, c2pFull : Nat, p2cEmpty : Nat, p2cFull : Nat]
                /\ sem.c2pEmpty > 0 /\ sem'.c2pEmpty = sem.c2pEmpty - 1
                /\ sem'.c2pFull = sem.c2pFull
                /\ sem'.p2cEmpty = sem.p2cEmpty /\ sem'.p2cFull = sem.p2cFull
           /\ Wait("c2pFull") =>
                /\ sem' \in [c2pEmpty : Nat, c2pFull : Nat, p2cEmpty : Nat, p2cFull : Nat]
                /\ sem.c2pFull > 0 /\ sem'.c2pFull = sem.c2pFull - 1
                /\ sem'.c2pEmpty = sem.c2pEmpty
                /\ sem'.p2cEmpty = sem.p2cEmpty /\ sem'.p2cFull = sem.p2cFull
           /\ Wait("p2cEmpty") =>
                /\ sem' \in [c2pEmpty : Nat, c2pFull : Nat, p2cEmpty : Nat, p2cFull : Nat]
                /\ sem.p2cEmpty > 0 /\ sem'.p2cEmpty = sem.p2cEmpty - 1
                /\ sem'.p2cFull = sem.p2cFull
                /\ sem'.c2pEmpty = sem.c2pEmpty /\ sem'.c2pFull = sem.c2pFull
           /\ Wait("p2cFull") =>
                /\ sem' \in [c2pEmpty : Nat, c2pFull : Nat, p2cEmpty : Nat, p2cFull : Nat]
                /\ sem.p2cFull > 0 /\ sem'.p2cFull = sem.p2cFull - 1
                /\ sem'.p2cEmpty = sem.p2cEmpty
                /\ sem'.c2pEmpty = sem.c2pEmpty /\ sem'.c2pFull = sem.c2pFull
BY DEF Wait

LEMMA Posted ==
    ASSUME sem \in [c2pEmpty : Nat, c2pFull : Nat, p2cEmpty : Nat, p2cFull : Nat]
    PROVE  /\ Post("c2pEmpty") =>
                /\ sem' \in [c2pEmpty : Nat, c2pFull : Nat, p2cEmpty : Nat, p2cFull : Nat]
                /\ sem'.c2pEmpty = sem.c2pEmpty + 1
                /\ sem'.c2pFull = sem.c2pFull
                /\ sem'.p2cEmpty = sem.p2cEmpty /\ sem'.p2cFull = sem.p2cFull
           /\ Post("c2pFull") =>
                /\ sem' \in [c2pEmpty : Nat, c2pFull : Nat, p2cEmpty : Nat, p2cFull : Nat]
                /\ sem'.c2pFull = sem.c2pFull + 1
                /\ sem'.c2pEmpty = sem.c2pEmpty
                /\ sem'.p2cEmpty = sem.p2cEmpty /\ sem'.p2cFull = sem.p2cFull
           /\ Post("p2cEmpty") =>
                /\ sem' \in [c2pEmpty : Nat, c2pFull : Nat, p2cEmpty : Nat, p2cFull : Nat]
                /\ sem'.p2cEmpty = sem.p2cEmpty + 1
                /\ sem'.p2cFull = sem.p2cFull
                /\ sem'.c2pEmpty = sem.c2pEmpty /\ sem'.c2pFull = sem.c2pFull
           /\ Post("p2cFull") =>
                /\ sem' \in [c2pEmpty : Nat, c2pFull : Nat, p2cEmpty : Nat, p2cFull : Nat]
                /\ sem'.p2cFull = sem.p2cFull + 1
                /\ sem'.p2cEmpty = sem.p2cEmpty
                /\ sem'.c2pEmpty = sem.c2pEmpty /\ sem'.c2pFull = sem.c2pFull
BY DEF Post

LEMMA SessionInvInit == Init => SessionInv
<1> SUFFICES ASSUME Init PROVE SessionInv
  OBVIOUS
<1> USE SessionAssumption DEF Init
<1>1. TypeOK
  <2>1. 0 \in Actions /\ 0 \in 0 .. MaxEpisodes
    BY DEF Actions
  <2>2. /\ NoObs \in Observation /\ StartMac \in Mac
        /\ Answer(FALSE, 0) \in [stop : BOOLEAN, act : Actions]
    BY <2>1 DEF NoObs, Observation, StartMac, Mac, Answer
  <2>3. Fresh \in [c2pEmpty : Nat, c2pFull : Nat, p2cEmpty : Nat, p2cFull : Nat]
    BY DEF Fresh
  <2> QED
    BY <2>1, <2>2, <2>3 DEF TypeOK, SimStates, PyStates, Actions
<1>2. Tokens /\ ClockInv /\ MacInv /\ RunInv
  BY SessionAssumption DEF Tokens, Held, Fresh, ClockInv, MacInv, InForce, StartMac, RunInv, NoObs
<1> QED
  BY <1>1, <1>2 DEF SessionInv, OpeningInv, FirstStateInv, StepInv, StateSentInv,
         HasStateInv, Opening, AwaitingState, HasState

-----------------------------------------------------------------------------
(* The steps of the ns-3 process.                                          *)

LEMMA SimStepKeepsInv == SessionInv /\ SimStep => SessionInv'
<1> SUFFICES ASSUME SessionInv, SimStep PROVE SessionInv'
  OBVIOUS
<1> USE SessionAssumption
    DEF SessionInv, TypeOK, Tokens, ClockInv, MacInv, RunInv, OpeningInv,
       FirstStateInv, StepInv, StateSentInv, HasStateInv, Answer, SimGoto, segment, pyVars,
       SimStates, PyStates, Actions, Observation, Mac, Held, WindowOf, InForce, StateMsg, Opening,
       AwaitingState, HasState
<1>1. CASE ChangeMacType
  <2> USE <1>1 DEF ChangeMacType
  <2>1. TypeOK'
    OBVIOUS
  <2>2. (Tokens /\ ClockInv /\ MacInv /\ RunInv)'
    OBVIOUS
  <2>3. (OpeningInv /\ FirstStateInv)'
    OBVIOUS
  <2>4. (StepInv /\ StateSentInv)'
    OBVIOUS
  <2>5. HasStateInv'
    OBVIOUS
  <2> QED
    BY <2>1, <2>2, <2>3, <2>4, <2>5
<1>2. CASE InitSendBegin
  <2> USE <1>2, Waited DEF InitSendBegin
  <2>1. TypeOK'
    OBVIOUS
  <2>2. (Tokens /\ ClockInv /\ MacInv /\ RunInv)'
    OBVIOUS
  <2>3. (OpeningInv /\ FirstStateInv)'
    OBVIOUS
  <2>4. (StepInv /\ StateSentInv)'
    OBVIOUS
  <2>5. HasStateInv'
    OBVIOUS
  <2> QED
    BY <2>1, <2>2, <2>3, <2>4, <2>5
<1>3. CASE InitSendEnd
  <2> USE <1>3, Posted DEF InitSendEnd
  <2>1. TypeOK'
    OBVIOUS
  <2>2. (Tokens /\ ClockInv /\ MacInv /\ RunInv)'
    OBVIOUS
  <2>3. (OpeningInv /\ FirstStateInv)'
    OBVIOUS
  <2>4. (StepInv /\ StateSentInv)'
    OBVIOUS
  <2>5. HasStateInv'
    OBVIOUS
  <2> QED
    BY <2>1, <2>2, <2>3, <2>4, <2>5
<1>4. CASE InitRecvBegin
  <2> USE <1>4, Waited DEF InitRecvBegin
  <2>1. TypeOK'
    OBVIOUS
  <2>2. (Tokens /\ ClockInv /\ MacInv /\ RunInv)'
    OBVIOUS
  <2>3. OpeningInv'
    OBVIOUS
  <2>4. FirstStateInv'
    OBVIOUS
  <2>5. (StepInv /\ StateSentInv)'
    OBVIOUS
  <2>6. HasStateInv'
    OBVIOUS
  <2> QED
    BY <2>1, <2>2, <2>3, <2>4, <2>5, <2>6
<1>5. CASE InitRecvEnd
  <2> USE <1>5, Posted DEF InitRecvEnd
  <2>1. TypeOK'
    OBVIOUS
  <2>2. (Tokens /\ ClockInv /\ MacInv /\ RunInv)'
    OBVIOUS
  <2>3. (OpeningInv /\ FirstStateInv)'
    OBVIOUS
  <2>4. (StepInv /\ StateSentInv)'
    OBVIOUS
  <2>5. HasStateInv'
    OBVIOUS
  <2> QED
    BY <2>1, <2>2, <2>3, <2>4, <2>5
<1>6. CASE NotifySendBegin
  <2> USE <1>6, Waited DEF NotifySendBegin
  <2>1. TypeOK'
    OBVIOUS
  <2>2. (Tokens /\ ClockInv /\ MacInv /\ RunInv)'
    OBVIOUS
  <2>3. (OpeningInv /\ FirstStateInv)'
    OBVIOUS
  <2>4. (StepInv /\ StateSentInv)'
    OBVIOUS
  <2>5. HasStateInv'
    OBVIOUS
  <2> QED
    BY <2>1, <2>2, <2>3, <2>4, <2>5
<1>7. CASE NotifySendEnd
  <2> USE <1>7, Posted DEF NotifySendEnd
  <2>1. TypeOK'
    OBVIOUS
  <2>2. (Tokens /\ ClockInv /\ MacInv /\ RunInv)'
    OBVIOUS
  <2>3. (OpeningInv /\ FirstStateInv)'
    OBVIOUS
  <2>4. (StepInv /\ StateSentInv)'
    OBVIOUS
  <2>5. HasStateInv'
    OBVIOUS
  <2> QED
    BY <2>1, <2>2, <2>3, <2>4, <2>5
<1>8. CASE NotifyRecvBegin
  <2> USE <1>8, Waited DEF NotifyRecvBegin
  <2>1. TypeOK'
    OBVIOUS
  <2>2. (Tokens /\ ClockInv /\ MacInv /\ RunInv)'
    OBVIOUS
  <2>3. (OpeningInv /\ FirstStateInv)'
    OBVIOUS
  <2>4. StepInv'
    OBVIOUS
  <2>6. StateSentInv'
    OBVIOUS
  <2>5. HasStateInv'
    OBVIOUS
  <2> QED
    BY <2>1, <2>2, <2>3, <2>4, <2>5, <2>6
<1>9. CASE NotifyRecvEnd
  <2> USE <1>9, Posted DEF NotifyRecvEnd
  <2>1. TypeOK'
    OBVIOUS
  <2>2. (Tokens /\ ClockInv /\ MacInv /\ RunInv)'
    OBVIOUS
  <2>3. (OpeningInv /\ FirstStateInv)'
    OBVIOUS
  <2>4. (StepInv /\ StateSentInv)'
    OBVIOUS
  <2>5. HasStateInv'
    OBVIOUS
  <2> QED
    BY <2>1, <2>2, <2>3, <2>4, <2>5
<1>10. CASE UpdateMacParameters
  <2> USE <1>10 DEF UpdateMacParameters, NewParameters, LastStep
  <2>1. TypeOK'
    OBVIOUS
  <2>2. (Tokens /\ ClockInv /\ MacInv /\ RunInv)'
    OBVIOUS
  <2>3. (OpeningInv /\ FirstStateInv)'
    OBVIOUS
  <2>4. (StepInv /\ StateSentInv)'
    <3>1. StepInv'
      OBVIOUS
    <3>2. StateSentInv'
      OBVIOUS
    <3> QED
      BY ONLY <3>1, <3>2
  <2>5. HasStateInv'
    OBVIOUS
  <2> QED
    BY <2>1, <2>2, <2>3, <2>4, <2>5
<1> QED
  BY <1>1, <1>2, <1>3, <1>4, <1>5, <1>6, <1>7, <1>8, <1>9, <1>10 DEF SimStep

-----------------------------------------------------------------------------
(* The steps of the Python process, and the calls of the agent.            *)

LEMMA PyStepKeepsInv == SessionInv /\ PyStep => SessionInv'
<1> SUFFICES ASSUME SessionInv, PyStep PROVE SessionInv'
  OBVIOUS
<1> USE SessionAssumption
    DEF SessionInv, TypeOK, Tokens, ClockInv, MacInv, RunInv, OpeningInv,
       FirstStateInv, StepInv, StateSentInv, HasStateInv, Answer, PyGoto, segment, simVars,
       SimStates, PyStates, Actions, Observation, Mac, Held, WindowOf, InForce, StateMsg, Opening,
       AwaitingState, HasState
<1>1. CASE Run
  <2> USE <1>1 DEF Run, StartMac
  <2>1. TypeOK'
    <3>1. StartMac \in Mac /\ 0 \in Actions
      OBVIOUS
    <3>2. episode' \in 0 .. MaxEpisodes
      OBVIOUS
    <3>3. (/\ simStep \in 0 .. NSteps /\ initSent \in BOOLEAN /\ simEnd \in BOOLEAN
           /\ sim \in SimStates /\ py \in PyStates /\ acts \in Actions /\ mac \in Mac)'
      BY <3>1
    <3>4. (/\ sem \in [c2pEmpty : Nat, c2pFull : Nat, p2cEmpty : Nat, p2cFull : Nat]
           /\ toPy \in Observation /\ obs \in Observation
           /\ toSim \in [stop : BOOLEAN, act : Actions])'
      OBVIOUS
    <3> QED
      BY <3>2, <3>3, <3>4
  <2>2. (Tokens /\ ClockInv /\ MacInv /\ RunInv)'
    OBVIOUS
  <2>3. OpeningInv'
    OBVIOUS
  <2>4. (FirstStateInv /\ StepInv)'
    OBVIOUS
  <2>5. (StateSentInv /\ HasStateInv)'
    OBVIOUS
  <2> QED
    BY <2>1, <2>2, <2>3, <2>4, <2>5
<1>2. CASE SubprocessAlive \/ SubprocessDied
  <2>1. CASE SubprocessAlive
    BY <2>1 DEF SubprocessAlive
  <2>2. CASE SubprocessDied
    BY <2>2 DEF SubprocessDied
  <2> QED
    BY <1>2, <2>1, <2>2
<1>3. CASE InitializeRecvBegin
  <2> USE <1>3, Waited DEF InitializeRecvBegin
  <2>1. TypeOK'
    OBVIOUS
  <2>2. (Tokens /\ ClockInv /\ MacInv /\ RunInv)'
    OBVIOUS
  <2>3. OpeningInv'
    OBVIOUS
  <2>4. (FirstStateInv /\ StepInv)'
    OBVIOUS
  <2>5. (StateSentInv /\ HasStateInv)'
    OBVIOUS
  <2> QED
    BY <2>1, <2>2, <2>3, <2>4, <2>5
<1>4. CASE InitializeRecvEnd
  <2> USE <1>4, Posted DEF InitializeRecvEnd
  <2>1. TypeOK'
    OBVIOUS
  <2>2. (Tokens /\ ClockInv /\ MacInv /\ RunInv)'
    OBVIOUS
  <2>3. (OpeningInv /\ FirstStateInv)'
    OBVIOUS
  <2>4. (StepInv /\ StateSentInv)'
    OBVIOUS
  <2>5. HasStateInv'
    OBVIOUS
  <2> QED
    BY <2>1, <2>2, <2>3, <2>4, <2>5
<1>5. CASE InitializeSendBegin
  <2> USE <1>5, Waited DEF InitializeSendBegin, SendBegin
  <2>1. TypeOK'
    OBVIOUS
  <2>2. (Tokens /\ ClockInv /\ MacInv /\ RunInv)'
    OBVIOUS
  <2>3. (OpeningInv /\ FirstStateInv)'
    OBVIOUS
  <2>4. (StepInv /\ StateSentInv)'
    OBVIOUS
  <2>5. HasStateInv'
    OBVIOUS
  <2> QED
    BY <2>1, <2>2, <2>3, <2>4, <2>5
<1>6. CASE InitializeSendEnd
  <2> USE <1>6, Posted DEF InitializeSendEnd, SendEnd
  <2>1. TypeOK'
    OBVIOUS
  <2>2. (Tokens /\ ClockInv /\ MacInv /\ RunInv)'
    OBVIOUS
  <2>3. (OpeningInv /\ FirstStateInv)'
    OBVIOUS
  <2>4. (StepInv /\ StateSentInv)'
    OBVIOUS
  <2>5. HasStateInv'
    OBVIOUS
  <2> QED
    BY <2>1, <2>2, <2>3, <2>4, <2>5
<1>7. CASE RxEnvStateBegin
  <2>1. TypeOK'
    BY <1>7, Waited DEF RxEnvStateBegin
  <2>2. (Tokens /\ ClockInv /\ MacInv /\ RunInv)'
    BY <1>7, Waited DEF RxEnvStateBegin
  <2>3. (OpeningInv /\ FirstStateInv)'
    BY <1>7, Waited DEF RxEnvStateBegin
  <2>4. /\ py = "recvState" /\ py' = "gotState" /\ sem.c2pFull > 0 /\ sem'.c2pFull = 0
        /\ sem'.p2cFull = sem.p2cFull /\ UNCHANGED <<toPy, toSim, simVars, acts, obs, episode>>
    BY <1>7, Waited DEF RxEnvStateBegin
  <2>5. StepInv'
    BY <2>1, <2>2, <2>4
  <2>6. StateSentInv'
    BY <2>1, <2>2, <2>4
  <2>7. HasStateInv'
    BY <2>4
  <2> QED
    BY <1>7, <2>1, <2>2, <2>3, <2>5, <2>6, <2>7 DEF RxEnvStateBegin
<1>8. CASE RxEnvStateEnd
  <2>1. TypeOK'
    BY <1>8, Posted DEF RxEnvStateEnd
  <2>2. (Tokens /\ ClockInv /\ MacInv /\ RunInv)'
    BY <1>8, Posted DEF RxEnvStateEnd
  <2>3. (OpeningInv /\ FirstStateInv)'
    BY <1>8, Posted DEF RxEnvStateEnd
  <2>4. (StepInv /\ StateSentInv)'
    BY <1>8, Posted DEF RxEnvStateEnd
  <2>5. /\ py = "gotState" /\ py' = IF toPy.over THEN "sendOver" ELSE "ready"
        /\ sem'.c2pFull = sem.c2pFull /\ sem'.p2cFull = sem.p2cFull
        /\ obs' = toPy /\ UNCHANGED <<toPy, toSim, simVars, acts, episode>>
    BY <1>8, Posted DEF RxEnvStateEnd
  <2>6. simStep = acts
    BY <2>5
  <2>7. sim = "stateRecv" /\ initSent /\ toPy = StateMsg
    BY <2>5, <2>6
  <2>8. sem.c2pFull = 0
    BY <2>5
  <2>9. sem.p2cFull = 0
    <3>1. sem.p2cFull # 1
      BY <2>5, <2>6, <2>7
    <3>2. sem.p2cFull \in {0, 1}
      BY <2>5
    <3> QED
      BY <3>1, <3>2
  <2>10. HasStateInv'
    BY <2>5, <2>6, <2>7, <2>8, <2>9
  <2> QED
    BY <1>8, <2>1, <2>2, <2>3, <2>4, <2>10 DEF RxEnvStateEnd
<1>9. CASE OverSendBegin
  <2> USE <1>9, Waited DEF OverSendBegin, SendBegin
  <2>1. TypeOK'
    OBVIOUS
  <2>2. (Tokens /\ ClockInv /\ MacInv /\ RunInv)'
    OBVIOUS
  <2>3. (OpeningInv /\ FirstStateInv)'
    OBVIOUS
  <2>4. (StepInv /\ StateSentInv)'
    OBVIOUS
  <2>5. HasStateInv'
    OBVIOUS
  <2> QED
    BY <2>1, <2>2, <2>3, <2>4, <2>5
<1>10. CASE OverSendEnd
  <2> USE <1>10, Posted DEF OverSendEnd, SendEnd
  <2>1. TypeOK'
    OBVIOUS
  <2>2. (Tokens /\ ClockInv /\ MacInv /\ RunInv)'
    OBVIOUS
  <2>3. (OpeningInv /\ FirstStateInv)'
    OBVIOUS
  <2>4. (StepInv /\ StateSentInv)'
    OBVIOUS
  <2>5. HasStateInv'
    OBVIOUS
  <2> QED
    BY <2>1, <2>2, <2>3, <2>4, <2>5
<1>11. CASE ActionSendBegin
  <2> USE <1>11, Waited DEF ActionSendBegin, SendBegin
  <2>1. TypeOK'
    OBVIOUS
  <2>2. (Tokens /\ ClockInv /\ MacInv /\ RunInv)'
    OBVIOUS
  <2>3. (OpeningInv /\ FirstStateInv)'
    OBVIOUS
  <2>4. (StepInv /\ StateSentInv)'
    OBVIOUS
  <2>5. HasStateInv'
    OBVIOUS
  <2> QED
    BY <2>1, <2>2, <2>3, <2>4, <2>5
<1>12. CASE ActionSendEnd
  <2> USE <1>12, Posted DEF ActionSendEnd, SendEnd
  <2>1. TypeOK'
    OBVIOUS
  <2>2. (Tokens /\ ClockInv /\ MacInv /\ RunInv)'
    OBVIOUS
  <2>3. (OpeningInv /\ FirstStateInv)'
    OBVIOUS
  <2>4. (StepInv /\ StateSentInv)'
    OBVIOUS
  <2>5. HasStateInv'
    OBVIOUS
  <2> QED
    BY <2>1, <2>2, <2>3, <2>4, <2>5
<1>13. CASE CloseSendBegin
  <2> USE <1>13, Waited DEF CloseSendBegin, SendBegin
  <2>1. TypeOK'
    OBVIOUS
  <2>2. (Tokens /\ ClockInv /\ MacInv /\ RunInv)'
    OBVIOUS
  <2>3. (OpeningInv /\ FirstStateInv)'
    OBVIOUS
  <2>4. (StepInv /\ StateSentInv)'
    OBVIOUS
  <2>5. HasStateInv'
    OBVIOUS
  <2> QED
    BY <2>1, <2>2, <2>3, <2>4, <2>5
<1>14. CASE CloseSendEnd
  <2> USE <1>14, Posted DEF CloseSendEnd, SendEnd
  <2>1. TypeOK'
    OBVIOUS
  <2>2. (Tokens /\ ClockInv /\ MacInv /\ RunInv)'
    OBVIOUS
  <2>3. (OpeningInv /\ FirstStateInv)'
    OBVIOUS
  <2>4. (StepInv /\ StateSentInv)'
    OBVIOUS
  <2>5. HasStateInv'
    OBVIOUS
  <2> QED
    BY <2>1, <2>2, <2>3, <2>4, <2>5
<1> QED
  BY <1>1, <1>2, <1>3, <1>4, <1>5, <1>6, <1>7, <1>8, <1>9, <1>10, <1>11, <1>12, <1>13,
     <1>14 DEF PyStep

LEMMA CallKeepsInv == SessionInv /\ (Step \/ Reset \/ Close) => SessionInv'
<1> SUFFICES ASSUME SessionInv, Step \/ Reset \/ Close PROVE SessionInv'
  OBVIOUS
<1> USE SessionAssumption
    DEF SessionInv, TypeOK, Tokens, ClockInv, MacInv, RunInv, OpeningInv,
       FirstStateInv, StepInv, StateSentInv, HasStateInv, Answer, PyGoto, segment, simVars,
       SimStates, PyStates, Actions, Observation, Mac, Held, WindowOf, InForce, StateMsg, Opening,
       AwaitingState, HasState
<1>1. CASE Step
  BY <1>1 DEF Step
<1>2. CASE Reset
  BY <1>2 DEF Reset, envDirty
<1>3. CASE Close
  <2> USE <1>3 DEF Close
  <2>1. TypeOK'
    OBVIOUS
  <2>2. (Tokens /\ ClockInv /\ MacInv /\ RunInv)'
    OBVIOUS
  <2>3. OpeningInv'
    OBVIOUS
  <2>4. (FirstStateInv /\ StepInv /\ StateSentInv /\ HasStateInv)'
    OBVIOUS
  <2> QED
    BY <2>1, <2>2, <2>3, <2>4
<1> QED
  BY <1>1, <1>2, <1>3

LEMMA StutterKeepsInv == SessionInv /\ UNCHANGED vars => SessionInv'
<1> SUFFICES ASSUME SessionInv, UNCHANGED vars PROVE SessionInv'
  OBVIOUS
<1> USE DEF SessionInv, vars
<1>1. TypeOK'
  BY DEF TypeOK
<1>2. (Tokens /\ ClockInv /\ MacInv /\ RunInv /\ OpeningInv)'
  BY DEF Tokens, ClockInv, MacInv, RunInv, OpeningInv, Opening
<1>3. (FirstStateInv /\ StepInv /\ StateSentInv /\ HasStateInv)'
  BY DEF FirstStateInv, StepInv, StateSentInv, HasStateInv, AwaitingState, HasState,
         StateMsg
<1> QED
  BY <1>1, <1>2, <1>3

\* The invariant: where the two processes can be, together, is known at every moment.
LEMMA SessionInvariant == Spec => []SessionInv
<1>1. SessionInv /\ [Next]_vars => SessionInv'
  BY SimStepKeepsInv, PyStepKeepsInv, CallKeepsInv, StutterKeepsInv DEF Next
<1> QED
  BY <1>1, SessionInvInit, PTL DEF Spec

-----------------------------------------------------------------------------

\* The parameters that an observation reports are those that were in force while what it
\* reports was measured (ChangeMacTypeAlt, nr-ai-mac.cc).
THEOREM SessionParametersMatchWindow ==
  ASSUME Reaches
  PROVE  Spec => []ParametersMatchWindow
<1>1. SessionInv => ParametersMatchWindow
  BY DEF SessionInv, HasStateInv, HasState, StateMsg, InForce, ParametersMatchWindow
<1> QED
  BY <1>1, SessionInvariant, PTL

\* An observation measures the action before the last one sent; the final one repeats the
\* window before it (NotifyCurrentState and UpdateMacParameters, nr-ai-mac.cc).  This too
\* is of the parameters that reach who uses them.
THEOREM SessionObservationLag ==
  ASSUME Reaches
  PROVE  Spec => []ObservationLag
<1>1. SessionInv => ObservationLag
  BY DEF SessionInv, TypeOK, ClockInv, HasStateInv, HasState, StateMsg, WindowOf, InForce,
         ObservationLag
<1> QED
  BY <1>1, SessionInvariant, PTL

\* The agent's side of the session is a gym environment: no interleaving of the two
\* processes makes step() skip, repeat or invent an observation, or reset() return one
\* of the old episode (Ns3Env, environments.py).
THEOREM SessionIsGym == Spec => ImplementsGymSafely
<1>1. Init => Gym!Init
  BY SessionAssumption DEF Init, NoObs, Gym!Init, closing
<1>2. SessionInv /\ SessionInv' /\ [Next]_vars => [Gym!Next]_Gym!vars
  <2> SUFFICES ASSUME SessionInv, SessionInv', [Next]_vars PROVE [Gym!Next]_Gym!vars
    OBVIOUS
  <2>1. CASE SimStep
    <3>1. UNCHANGED pyVars
      BY <2>1 DEF SimStep, ChangeMacType, InitSendBegin, InitSendEnd, InitRecvBegin,
         InitRecvEnd, NotifySendBegin, NotifySendEnd, NotifyRecvBegin, NotifyRecvEnd,
         UpdateMacParameters
    <3> QED
      BY <3>1 DEF pyVars, Gym!vars, closing, envDirty
  <2>2. CASE Run
    BY <2>2 DEF Run, PyGoto, Gym!vars, closing, envDirty
  <2>3. CASE SubprocessAlive \/ SubprocessDied
    BY <2>3 DEF SubprocessAlive, SubprocessDied, PyGoto, Gym!vars, closing, envDirty
  <2>4. CASE InitializeRecvBegin \/ InitializeRecvEnd
    BY <2>4 DEF InitializeRecvBegin, InitializeRecvEnd, PyGoto, Gym!vars, closing, envDirty
  <2>5. CASE InitializeSendBegin \/ InitializeSendEnd
    <3>1. acts = 0
      BY <2>5 DEF InitializeSendBegin, InitializeSendEnd, SendBegin, SendEnd, PyGoto,
         SessionInv, OpeningInv, Opening
    <3>2. CASE InitializeSendBegin
      BY <3>1, <3>2 DEF InitializeSendBegin, SendBegin, PyGoto, Gym!vars, closing, envDirty
    <3>3. CASE InitializeSendEnd
      BY <3>1, <3>3 DEF InitializeSendEnd, SendEnd, PyGoto, Gym!vars, closing, envDirty
    <3> QED
      BY <2>5, <3>2, <3>3
  <2>6. CASE RxEnvStateBegin
    BY <2>6 DEF RxEnvStateBegin, PyGoto, Gym!vars, closing, envDirty
  <2>7. CASE RxEnvStateEnd
    <3>1. /\ py = "gotState" /\ py' = IF toPy.over THEN "sendOver" ELSE "ready"
          /\ obs' = toPy /\ acts' = acts
      BY <2>7 DEF RxEnvStateEnd, PyGoto
    <3>2. acts \in Nat /\ simEnd \in BOOLEAN /\ AwaitingState
      BY <3>1, SessionAssumption DEF SessionInv, TypeOK, Actions, AwaitingState
    <3>3. simStep = acts
      <4>1. FirstStateInv /\ StepInv
        BY DEF SessionInv
      <4>2. acts = 0 \/ acts > 0
        BY <3>2
      <4> QED
        BY <3>1, <3>2, <4>1, <4>2 DEF FirstStateInv, StepInv
    <3>4. toPy = StateMsg
      BY <3>1, <3>2, <3>3 DEF SessionInv, StateSentInv
    <3>5. toPy.step = acts /\ toPy.over \in BOOLEAN /\ (toPy.over <=> acts = NSteps)
      BY <3>2, <3>3, <3>4 DEF StateMsg, SessionInv, ClockInv
    <3>6. CASE acts = 0
      <4>1. toPy.episode = obs.episode + 1 /\ ~toPy.over
        BY <3>2, <3>4, <3>5, <3>6, SessionAssumption DEF SessionInv, FirstStateInv, StateMsg
      <4>2. Gym!ResetReturns
        BY <3>1, <3>5, <3>6, <4>1 DEF Gym!ResetReturns, closing, envDirty
      <4> QED
        BY <4>2 DEF Gym!Next
    <3>7. CASE acts > 0
      <4>1. /\ toPy.episode = obs.episode /\ obs.step = acts - 1
            /\ obs.over \in BOOLEAN /\ ~obs.over
        BY <3>2, <3>4, <3>7 DEF SessionInv, TypeOK, Observation, StepInv, StateMsg
      <4>2. CASE toPy.over
        <5>1. UNCHANGED Gym!vars
          BY <3>1, <3>2, <3>5, <3>7, <4>1, <4>2 DEF Gym!vars, closing, envDirty
        <5> QED
          BY <5>1
      <4>3. CASE ~toPy.over
        <5>1. Gym!StepReturns
          BY <3>1, <3>2, <3>5, <3>7, <4>1, <4>3 DEF Gym!StepReturns, closing, envDirty
        <5> QED
          BY <5>1 DEF Gym!Next
      <4> QED
        BY <4>2, <4>3
    <3> QED
      BY <3>2, <3>6, <3>7
  <2>8. CASE OverSendBegin
    BY <2>8 DEF OverSendBegin, SendBegin, PyGoto, Gym!vars, closing, envDirty
  <2>9. CASE OverSendEnd
    <3>1. py = "postOver" /\ py' = "ready" /\ obs' = obs /\ acts' = acts
      BY <2>9 DEF OverSendEnd, SendEnd, PyGoto
    <3>2. obs.over /\ obs.step = NSteps /\ acts > 0
      BY <3>1, SessionAssumption DEF SessionInv, ClockInv, HasStateInv, HasState, StateMsg
    <3>3. Gym!StepReturns
      BY <3>1, <3>2, SessionAssumption DEF Gym!StepReturns, closing, envDirty
    <3> QED
      BY <3>3 DEF Gym!Next
  <2>10. CASE ActionSendBegin \/ ActionSendEnd
    <3>1. py \in {"sendAct", "postAct"}
      BY <2>10 DEF ActionSendBegin, ActionSendEnd, SendBegin, SendEnd, PyGoto
    <3>2. acts = simStep + 1 /\ simStep \in Nat
      <4>1. simStep \in Nat
        BY SessionAssumption DEF SessionInv, TypeOK
      <4>2. HasState /\ HasStateInv
        BY <3>1 DEF SessionInv, HasState
      <4> QED
        BY <3>1, <4>1, <4>2 DEF HasStateInv
    <3>3. acts > 0
      BY <3>2
    <3> QED
      BY <2>10, <3>3 DEF ActionSendBegin, ActionSendEnd, SendBegin, SendEnd, PyGoto,
         Gym!vars, closing, envDirty
  <2>11. CASE CloseSendBegin \/ CloseSendEnd
    BY <2>11 DEF CloseSendBegin, CloseSendEnd, SendBegin, SendEnd, PyGoto, Gym!vars,
       closing, envDirty
  <2>12. CASE Step
    BY <2>12 DEF Step, PyGoto, Gym!Next, Gym!Step, closing, envDirty
  <2>13. CASE Reset
    <3>1. /\ py = "ready" /\ py' \in {"run", "sendClose"} /\ obs' = obs
          /\ acts > 0 /\ episode < MaxEpisodes
      BY <2>13 DEF Reset, PyGoto, envDirty
    <3>2. obs.step = acts /\ obs.episode = episode
      BY <3>1 DEF SessionInv, HasStateInv, HasState, StateMsg
    <3>3. Gym!Reset
      BY <3>1, <3>2 DEF Gym!Reset, closing
    <3> QED
      BY <3>3 DEF Gym!Next
  <2>14. CASE Close
    BY <2>14 DEF Close, PyGoto, Gym!Next, Gym!Close, closing, envDirty
  <2>15. CASE UNCHANGED vars
    BY <2>15 DEF vars, Gym!vars, closing, envDirty
  <2> QED
    BY <2>1, <2>2, <2>3, <2>4, <2>5, <2>6, <2>7, <2>8, <2>9, <2>10, <2>11, <2>12, <2>13,
       <2>14, <2>15 DEF Next, PyStep
<1> QED
  BY <1>1, <1>2, SessionInvariant, PTL DEF Spec, ImplementsGymSafely, Gym!SafeSpec

-----------------------------------------------------------------------------
(* Processes that leave promptly.                                          *)

\* No token is lost, and a stop is read by the process it is meant for: the new process
\* finds the Py2Cpp buffer empty until it is sent its acknowledgement.
PromptInv ==
    /\ py # "closed" =>
          sem.p2cEmpty + sem.p2cFull + Held(sim \in {"initGot", "stateGot"})
             + Held(py \in {"postAck", "postAct", "postOver", "postClose"}) = 1
    /\ py = "run" => (sem.p2cFull = 1 <=> sim = "stateRecv")
    /\ Opening => sim \in {"change", "notify", "initPost", "initRecv"} /\ sem.p2cFull = 0
    /\ AwaitingState /\ acts = 0 => sim # "exited" /\ (sem.p2cFull = 1 <=> sim = "initRecv")
    /\ py = "ready" /\ obs.over => (sem.p2cFull = 1 <=> sim = "stateRecv")
    /\ py # "failed"

LEMMA SimStepKeepsPrompt == SessionInv /\ PromptInv /\ SimStep => PromptInv'
<1> SUFFICES ASSUME SessionInv, PromptInv, SimStep PROVE PromptInv'
  OBVIOUS
<1> USE SessionAssumption
    DEF SessionInv, TypeOK, RunInv, OpeningInv, FirstStateInv, StepInv, HasStateInv,
        PromptInv, Held, Answer, SimGoto, segment, pyVars, Opening, AwaitingState, HasState
<1>1. CASE ChangeMacType
  BY <1>1 DEF ChangeMacType
<1>2. CASE InitSendBegin
  BY <1>2, Waited DEF InitSendBegin
<1>3. CASE InitSendEnd
  BY <1>3, Posted DEF InitSendEnd
<1>4. CASE InitRecvBegin
  BY <1>4, Waited DEF InitRecvBegin
<1>5. CASE InitRecvEnd
  BY <1>5, Posted DEF InitRecvEnd
<1>6. CASE NotifySendBegin
  BY <1>6, Waited DEF NotifySendBegin
<1>7. CASE NotifySendEnd
  BY <1>7, Posted DEF NotifySendEnd
<1>8. CASE NotifyRecvBegin
  BY <1>8, Waited DEF NotifyRecvBegin
<1>9. CASE NotifyRecvEnd
  BY <1>9, Posted DEF NotifyRecvEnd
<1>10. CASE UpdateMacParameters
  BY <1>10 DEF UpdateMacParameters
<1> HIDE DEF PromptInv
<1> QED
  BY <1>1, <1>2, <1>3, <1>4, <1>5, <1>6, <1>7, <1>8, <1>9, <1>10
     DEF SimStep

LEMMA PyStepKeepsPrompt == prompt /\ SessionInv /\ PromptInv /\ PyStep => PromptInv'
<1> SUFFICES ASSUME prompt, SessionInv, PromptInv, PyStep PROVE PromptInv'
  OBVIOUS
<1> USE SessionAssumption
    DEF SessionInv, TypeOK, ClockInv, RunInv, OpeningInv, FirstStateInv, StepInv,
        HasStateInv, PromptInv, Held, Answer, PyGoto, segment, simVars, Opening,
        AwaitingState, HasState
<1>1. CASE Run
  BY <1>1 DEF Run
<1>2. CASE SubprocessAlive \/ SubprocessDied
  BY <1>2 DEF SubprocessAlive, SubprocessDied
<1>3. CASE InitializeRecvBegin
  BY <1>3, Waited DEF InitializeRecvBegin
<1>4. CASE InitializeRecvEnd
  BY <1>4, Posted DEF InitializeRecvEnd
<1>5. CASE InitializeSendBegin
  BY <1>5, Waited DEF InitializeSendBegin, SendBegin
<1>6. CASE InitializeSendEnd
  BY <1>6, Posted DEF InitializeSendEnd, SendEnd
<1>7. CASE RxEnvStateBegin
  BY <1>7, Waited DEF RxEnvStateBegin
<1>8. CASE RxEnvStateEnd
  BY <1>8, Posted DEF RxEnvStateEnd
<1>9. CASE OverSendBegin
  BY <1>9, Waited DEF OverSendBegin, SendBegin
<1>10. CASE OverSendEnd
  BY <1>10, Posted DEF OverSendEnd, SendEnd
<1>11. CASE ActionSendBegin
  BY <1>11, Waited DEF ActionSendBegin, SendBegin
<1>12. CASE ActionSendEnd
  BY <1>12, Posted DEF ActionSendEnd, SendEnd
<1>13. CASE CloseSendBegin
  BY <1>13, Waited DEF CloseSendBegin, SendBegin
<1>14. CASE CloseSendEnd
  BY <1>14, Posted DEF CloseSendEnd, SendEnd
<1> HIDE DEF PromptInv
<1> QED
  BY <1>1, <1>2, <1>3, <1>4, <1>5, <1>6, <1>7, <1>8, <1>9, <1>10, <1>11, <1>12, <1>13, <1>14 DEF PyStep

\* Whether processes leave promptly is settled at the start.
LEMMA PromptStays == [Next]_vars => prompt' = prompt
BY DEF Next, vars, SimStep, PyStep, pyVars, ChangeMacType, InitSendBegin, InitSendEnd,
   InitRecvBegin, InitRecvEnd, NotifySendBegin, NotifySendEnd, NotifyRecvBegin,
   NotifyRecvEnd, UpdateMacParameters, Run, SubprocessAlive, SubprocessDied,
   InitializeRecvBegin, InitializeRecvEnd, InitializeSendBegin, InitializeSendEnd,
   RxEnvStateBegin, RxEnvStateEnd, OverSendBegin, OverSendEnd, ActionSendBegin,
   ActionSendEnd, CloseSendBegin, CloseSendEnd, SendBegin, SendEnd, Step, Reset, Close

LEMMA PromptInvariant == Spec => [](SessionInv /\ (prompt => PromptInv))
<1>1. Init => PromptInv
  BY DEF Init, PromptInv, Fresh, Held, Opening, AwaitingState
<1>2. SessionInv /\ (prompt => PromptInv) /\ [Next]_vars => (prompt => PromptInv)'
  <2> SUFFICES ASSUME SessionInv, prompt => PromptInv, [Next]_vars, prompt'
               PROVE  PromptInv'
    OBVIOUS
  <2>3. prompt
    BY PromptStays
  <2>4. PromptInv
    BY <2>3
  <2>1. CASE Step \/ Reset \/ Close
    BY <2>1, <2>4 DEF Step, Reset, Close, PyGoto, segment, simVars, SessionInv, HasStateInv,
       HasState, PromptInv, Held, Opening, AwaitingState, Tokens, TypeOK
  <2>2. CASE UNCHANGED vars
    BY <2>2, <2>4 DEF vars, PromptInv, Opening, AwaitingState
  <2> QED
    BY <2>1, <2>2, <2>3, <2>4, SimStepKeepsPrompt, PyStepKeepsPrompt DEF Next
<1> QED
  BY <1>1, <1>2, SessionInvariant, PTL DEF Spec

\* What reset() relies on when it does not kill the old process (environments.py): a new
\* ns-3 process finds the semaphores as a new segment has them, if the old ones leave
\* before they are killed.
THEOREM PromptExitResetsSemaphores == Spec => [](prompt => SemaphoresReset)
<1>1. SessionInv /\ (prompt => PromptInv) => (prompt => SemaphoresReset)
  <2> SUFFICES ASSUME SessionInv, PromptInv, py = "launched", sim = "change"
               PROVE  sem = AtRest
    BY DEF SemaphoresReset
  <2>1. sem \in [c2pEmpty : Nat, c2pFull : Nat, p2cEmpty : Nat, p2cFull : Nat]
    BY DEF SessionInv, TypeOK
  <2>2. sem.c2pFull # 1 /\ sem.p2cFull = 0
    BY DEF SessionInv, OpeningInv, Opening, PromptInv
  <2>3. sem.c2pEmpty = 1 /\ sem.c2pFull = 0 /\ sem.p2cEmpty = 1
    BY <2>1, <2>2 DEF SessionInv, Tokens, PromptInv, Held
  <2> QED
    BY <2>1, <2>2, <2>3 DEF AtRest
<1> QED
  BY <1>1, PromptInvariant, PTL

\* The safety half of "each call returns": then Python and ns-3 never wait for each
\* other, for any number of steps and episodes.
THEOREM SessionNeverHangs == Spec => []NoMutualWait
<1>1. SessionInv /\ (prompt => PromptInv) => NoMutualWait
  <2> SUFFICES ASSUME SessionInv, PromptInv, PyStuck, SimStuck PROVE FALSE
    BY DEF NoMutualWait
  <2> USE SessionAssumption
      DEF SessionInv, TypeOK, Tokens, Held, OpeningInv, FirstStateInv, StepInv, StateSentInv,
          HasStateInv, PromptInv, Opening, AwaitingState, HasState, SimStuck
  <2>1. CASE py \in {"recvInit", "recvState"} /\ sem.c2pFull = 0
    <3>1. sim # "notify"
      BY <2>1
    <3>2. CASE py = "recvInit"
      BY <2>1, <3>1, <3>2
    <3>3. CASE py = "recvState" /\ acts = 0
      BY <2>1, <3>1, <3>3
    <3>4. CASE py = "recvState" /\ acts > 0
      BY <2>1, <3>1, <3>4
    <3>5. acts \in Nat
      BY DEF Actions
    <3>6. acts = 0 \/ acts > 0
      BY <3>5
    <3> QED
      BY <2>1, <3>2, <3>3, <3>4, <3>6, Zenon
  <2>2. CASE py \in {"sendAck", "sendAct", "sendOver", "sendClose"} /\ sem.p2cEmpty = 0
    <3>1. sem.p2cFull = 0 /\ sim \notin {"initGot", "stateGot"}
      BY <2>2
    <3>2. sem.p2cEmpty = 1
      <4> HIDE DEF OpeningInv, FirstStateInv, StepInv, StateSentInv, HasStateInv, SimStuck
      <4> QED
        BY <2>2, <3>1
    <3> QED
      BY <2>2, <3>2
  <2>3. CASE py = "run" /\ sim \notin {"none", "exited"}
    BY <2>3 DEF RunInv
  <2>4. py # "failed"
    OBVIOUS
  <2> HIDE DEF SimStuck
  <2> QED
    BY <2>1, <2>2, <2>3, <2>4, Zenon DEF PyStuck
<1> QED
  BY <1>1, PromptInvariant, PTL

=============================================================================
