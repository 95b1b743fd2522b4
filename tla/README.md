# A verification project for the NR-U MAC learning framework

The repository trains reinforcement-learning agents that design the MAC of 5G NR in
unlicensed spectrum (NR-U). An ns-3 simulation and a Python environment run as two processes
and talk through shared memory; inside the simulation gNBs share the channel by
listen-before-talk (LBT), and the agent sets their MAC parameters. This directory holds TLA+
modules of the parts where that can go wrong, the TLC configurations that check them on small
instances, and TLAPS proofs for all instances.

Contents: the inventory (1), the modules and how they correspond to the code (2), what each run
checks, its bounds and its fairness (3), what is proved and how (4), where the code and its
documentation disagree (5), what is not modelled (6), and the plan (7).

## 1. Inventory

Paths: `ai` is `src/contrib/ai`, `gym` is `ai/examples/nr-ai-mac/use-gym`, `nr-u` is
`src/src/nr-u/model`, `nr` is `src/src/nr/model`.

| component | state | operations | hard behaviour | what makes it correct |
|---|---|---|---|---|
| semaphore `ai/model/msg-interface/ns3-ai-semaphore.h` | one byte | `sem_wait` (a spin loop of load and compare-and-swap), `sem_post` | interleaving of atomic instructions, wrap of the byte | an atomic counting semaphore; the loop is lock-free |
| message interface `.../ns3-ai-msg-interface.h` | four semaphores, two buffers, the finished flag | `CppSendBegin/End`, `CppRecvBegin/End`, the same for `Py`, `CppSetFinished`, `PyGetFinished` | two processes on plain memory, either may be first; finishing while a message is unread | one owner per buffer; every message once, whole, in order; no lost wake-up; "finished" seen last |
| OpenGymInterface `ai/model/gym-interface/cpp` | `m_initSimMsgSent`, `m_simEnd`, `m_stopEnvRequested` | `Init`, `NotifyCurrentState`, `NotifySimulationEnd` | handshake, step, close and end of simulation share the two buffers | simulation and agent in lockstep |
| Python environment `gym/environments.py` | `newStateRx`, `envDirty`, `gameOver`, the observation | constructor, `step`, `reset`, `close` | one segment outlives many simulation processes | a gym environment: each call returns, with the right observation |
| runner `ai/python_utils/ns3ai_utils.py` | the ns-3 process | `run`, `kill`, `isalive` | kills the old process at any point | a new process starts on fresh semaphores |
| scenario `gym/nr-ai-mac.cc`, `nr-mac-env.cc` | parameters received (`m_new_*`), taken over (`g_*`), applied | `ChangeMacTypeAlt`, state read, `UpdateMacParameters`, each time step | the order of the events of one instant | an observation is labelled with the parameters it was measured under |
| LBT access manager `nr-u/nr-lbt-access-manager.cc` | state, request flag, backoff, three events, last busy time | `RequestAccess`, `Cancel`, `TransitionToBusy`, the events, the setters | the channel goes busy at any moment; parameters change during a wait; cancelled requests | grants only after the whole defer time in force, only on request, eventually; no backoff slots for free |
| Cat4 contention window (same file) | window, feedback counters, retries | `GetBackoffSlots`, `UpdateCwBasedOnHarq`, the setters | feedback is slots late, the algorithm is switched between | draws follow feedback and the agent's minimum |
| Cat2 LBT `nr-u/nr-lbt-access-manager.cc`, on-off manager `nr-u/nr-on-off-access-manager.cc` | as above, one-shot; the duty cycle and the request kept over it | `RequestAccess`, `NotifyAccessDenied`, `Cancel`, `Start`, `ShutDown` | a signal, a cancellation and a new request while the defer time runs; requests across duty cycles | granted only when idle; their assertions hold; a request ends with its slot |
| spectrum PHY and interference `nr/nr-spectrum-phy.cc`, `nr/nr-interference.cc` | TX/RX/CCA state, the check that ends CCA_BUSY, the list of power changes | `StartRx`, `StartTx...`, `EndRx...`, `MaybeCcaBusy`, `CheckIfStillBusy`, `GetEnergyDuration` | signals that begin while the radio is doing something else; a check set before a reception and due in it | the energy is measured exactly; busy is reported to LBT; the radio returns to IDLE |
| gNB PHY `nr/nr-gnb-phy.cc`, `nr/nr-phy.cc` | `m_channelStatus`, `m_channelLostTimer`, the slot, `m_slotAllocInfo` | `StartSlot`, `EndSlot`, `ChannelAccessGranted/Lost`, `DoSendReservationSignal`, `PushFront/BackSlotAllocInfo` | an answer, the timer and the end of a slot in any order; a queue pushed back by refusals | on the air no longer than the grant is counted for; every allocation sent once, in order; waits only while an answer is owed |
| UE PHY `nr/nr-ue-phy.cc` | `m_channelStatus`, `m_lbtEvent`, the DCIs of the slot, queued control messages | `StartSlot`, `StartVarTti`, `EndVarTti`, `TryToPerformLbt`, `RequestAccess`, `PhyCtrlMessagesReceived` | the request is scheduled ahead of the control symbol, and the slot changes after; a grant that outlives its slot | one request per slot, ended with it; granted only when idle; feedback is sent some day |
| HARQ in the scheduler `nr/nr-mac-scheduler-ns3.cc`, `nr-mac-scheduler-harq-rr.cc`, `nr-mac-harq-vector.cc`, at the receiver `nr-harq-phy.cc` | the processes of each UE with their timers, the postponed retransmissions, the receiver's history | `DoSchedDlTriggerReq`, `DoSchedUlTriggerReq`, `EndRxData`, `DoDlHarqFeedback` | numbers are reused, feedback is late (a UE that is refused the channel) or never comes, there is no room | what the scheduler believes of a block is so; no process waits for ever |
| the rest: `nr` MAC, the sharing of resources, RLC, lte, wifi, core, vr-app, set-up and output code | | | | vendored or configuration; not modelled |

How they interact. `Experiment` creates the segment and the semaphores and starts ns-3; `Ns3Env`
exchanges one message at a time with `OpenGymInterface` through the message interface. Every
time step (`g_timeStep`) the simulation measures, sends the state, waits for the action, and
hands it on to `NrMacEnv`, to the globals of `nr-ai-mac.cc` and, through
`NrSingleBwpSetup::ChangeX`, to the access managers. An access manager is called by the PHY of
its node (`RequestAccess`, `Cancel`), hears the channel through the `ChannelOccupied` trace of
`NrSpectrumPhy` (`TransitionToBusy`), and calls the PHY back with a grant. The Cat4 window also
listens to the MAC's `DlHarqFeedback` trace. A UE sends its HARQ feedback when its own access
manager lets it, while the scheduler's timers run.

`PROJECT.json` lists the hazards line by line ("hazards"), with the properties that cover each.

## 2. Modules

Every operator, property and theorem has a comment of its own. Definitions keep the names of
the source; `PROJECT.json` ("map") gives the lines each stands for. Definitions whose comment
begins with "Mutant" are deliberate mistakes: they are what a property must be able to tell from
the real definition, and nothing else uses them.

* `Ns3AiSemaphore` - one action per atomic instruction: `Load`, `Swap` (the compare-and-swap
  succeeds), `Retry` (it fails, and its old value is tried), `Post`. `c` is the local of
  `atomic_add_unless8`. `CountingSemaphore` is what callers are promised. Because the one
  refines the other, all further modules take a semaphore operation as one step.
* `MsgInterface` - both sides with a program counter; a message has two words (`size`, the
  bytes) that are written and read one at a time, so that a torn message would be seen. A side
  calls `Send`, `Receive`, and on the C++ side `CppSetFinished`, in any order. `MsgChannel` is
  the abstract one-place channel. `MsgInterface_props` has the properties and the refinement
  mapping.
* `GymSession` - the Python process (constructor, `step`, `reset`, `close`, with
  `Experiment.run` and its kill) and the ns-3 process (`Init`, `NotifyCurrentState`,
  `NotifySimulationEnd`, the events of a time step) over the four semaphores. Since
  `MsgInterface` shows that a `Begin .. End` pair owns its buffer, a message is written with
  the Begin and read with the End. Actions are numbered, and `mac` tracks which action's
  parameters have got how far. `Reaches` says whether what `UpdateMacParameters` sets reaches who
  uses it: it does for all parameters but the ED threshold (see 5), and in `baselineMode` nothing is
  set. `prompt`, chosen at the start, says whether an ns-3 process that was told to stop
  is out of the segment before it is killed. `GymEnv` is the gym contract the agent
  relies on: `SafeSpec` what a call may return, `Returns` that it does.
* `LbtAccess` - the state machine `NrLbtAccessManager`. Time is in ticks relative to now; an
  event is a countdown; what is due must run before time passes, in any order, and the
  environment's calls come at any moment in between. `idleFor` is `now - m_lastBusyTime`.
  An event that is scheduled over a pending one, as happens after a cancellation, leaves that one
  running with no id to cancel it: `strays`. `drawn`, `served` and `cuts` are history, as are
  `waitedFor` (the defer time in force when the last wait began), `changed` (a parameter was) and
  `cancels` (requests were). In `RequestAccess` the backoff draw is any element
  of `Draws`; how the draw is bounded is the business of
* `Cat4Cw` - the contention window: `DoInitialize` at every request, `GetBackoffSlots` with its
  update rules, the four algorithms, feedback at any moment and the agent's changes.
* `GnbChannelAccess` - `NrGnbPhy` between its MAC and its access manager. The disjuncts of
  `StartSlot` are the branches of the function: with a grant, granted at once, refused (or still
  waiting), and nothing to send; `PushFront`, `PushBack` and `Merge` are the queue's functions.
  A call of the MAC makes one downlink and one uplink allocation, with any amount of data. A
  tick is the nanosecond by which the code separates the timer, the reservation signal and the
  data from the events around them; slots are a few ticks long. `startDue` separates the end of a slot
  from the start of the next one, which are events of one instant. The access manager is only
  assumed to answer a request at most once, which is what `GrantsAreEarned` says of
  `LbtAccess`. `txLeft` and `reserveLeft` measure what is on the air, `grantLeft` what was
  granted, and `usableLeft` how long the code makes use of it (to the end of the slot after the one
  the grant came in, if that is later); `sent` numbers the downlink allocations put there.
* `UeChannelAccess` - `NrUePhy` with each of the managers a UE can have here: `Cat2Lbt` and
  `OnOffAccess` are modules of their own, instantiated over the UE's variables, AlwaysOn is two
  lines. Time is the position in the slot; an event is the next start or end of a DCI. The UE is
  composed with the manager call by call: `RequestAccess`, `Cancel`, the grant and the denial
  happen within the action that makes them. A downlink DCI for which the gNB has no packets is
  silent (`DlDataOfNone`).
* `SpectrumPhy` - the radio: `events` is the simulator's queue of ends (of a signal, a reception, a
  transmission, a check), `changes` the list `NrInterference` walks, oldest first. The access
  manager is what it hears: `idleFor` grows while `ChannelOccupied` is not reported. Signals have
  integer powers, and frames end a little before the slot does, as both PHYs take a nanosecond off.
* `MacHarq` - the processes of one UE in one direction. Time is the slots in which the scheduler is
  called; `Trigger` is one such call, from the expired processes over the feedback to the
  retransmissions and a new process. How much room a slot has is any of `Rooms`, of
  which other UEs may take part while the loop runs, so that a NACK may be served, buffered or, in the
  uplink, forgotten in any combination. `block` numbers
  what a process carries, so that an answer can be told from one about an earlier block, which the
  code cannot; `fate` is what the scheduler believes of a block, `decoded` what is so; `late` records
  that a process expired with its attempt or its answer still under way.

`X_props` EXTENDS `X` with the properties when there are many, `MC_X` is what TLC runs, `X_proof`
holds the proofs.

## 3. Runs

| run | cfg | question and bounds |
|---|---|---|
| semaphore | `MC_Ns3AiSemaphore` | Three processes, two permits, the real word of 256. With three processes one can be overtaken twice between its load and its swap. |
| msg_interface | `MC_MsgInterface` | Three messages each way, both sides free to call anything, finishing included. Three messages fill, empty and refill a buffer, so that an old message could be mistaken for a new one. A side that waits for a peer that never calls is legal, hence no deadlock check. |
| gym_session | `MC_GymSession` | Three episodes of four steps at most, cut short by `reset` after any step or played to the end. Four steps separate reception, takeover, application and measurement of an action. Old processes either leave promptly, and then nobody waits for ever (`NoMutualWait`, `CallsReturn`), or are killed wherever they are: the session may then hang or fail, hence no deadlock check, but no call returns anything wrong (`ImplementsGymSafely`). |
| gym_semaphores | `MC_GymSession_semaphores` | Violation, see 5. |
| lbt | `MC_LbtAccess` | Two defer times and two slot lengths, changed at any moment, draws 0, 1 and 3, a request cancelled and made anew, three busy periods shorter than a slot or as long as the defer time: a backoff is suspended twice, at the edge of a slot and inside one. |
| cat4_cw | `MC_Cat4Cw` | All rules and algorithms, minima 3 and 7, a maximum (12) that doubling 7 passes and doubling 3 does not, five feedbacks (enough to tell 10 % and 80 % apart). |
| cat4_growth | `MC_Cat4Cw_growth` | Violation, see 5. The default rule and algorithm, nothing changed by the agent. |
| gnb_access | `MC_GnbChannelAccess` | Six slots of five ticks, grants of less than a slot, of one and of two slots exactly, of between one and two and of between two and three, any answer at any tick, a broadcast every three slots. Six slots hold a grant that is used up, one that is given up, and a queue pushed back several times. It stops at the last slot, hence no deadlock check. |
| ue_access | `MC_UeChannelAccess` | Slots of five symbols of five ticks, two ticks to the microsecond (so that cutting the symbol off to microseconds loses something), a request eight ticks ahead, a defer time of eight, duty cycles of 60, four kinds of slots, others heard three times, for two ticks or for twelve: shorter and longer than the time ahead. |
| spectrum | `MC_SpectrumPhy` | Three signals of others, weaker (2) or stronger (4) than the threshold (3), and two frames of its own, of one, two or four ticks: two weak signals are heard together, and a signal may begin or end before, in or after any reception, transmission and check. |
| srs_sensing | `MC_SpectrumPhy_srs` | Violation, see 5. |
| mac_harq | `MC_MacHarq` | Two processes, which expire after two slots; uplink answers that are just in time, downlink answers that are just in time or late; two attempts per block (four in the code), two sizes, slots with room for nothing, a small or a large attempt, or two small ones; three blocks, so that a number is reused while another block is open. |

Fairness. The semaphore: a process inside `sem_wait` keeps running, as the operating system
schedules both processes (`WF` of each process's step). The message interface: a side inside an
operation continues; nothing makes it start one. The session: both processes run (`WF(SimStep)`,
`WF(PyStep)`); what the agent calls is its own choice. LBT: the simulator executes what is due
and then advances the clock (`WF(Scheduled \/ Tick)`); calls of the user and of the radio are
not fair. The UE and the radio: the same. HARQ: slots go by and attempts end
(`WF(Trigger \/ Arrival)`), as long as the gNB is not refused the channel for ever, since the
scheduler is not called then; when a UE may send its feedback is left open. No strong fairness is
used.

What the runs show, in short:

* the spin loop is a correct semaphore, and the interface built from it a correct channel;
* if an old ns-3 process is out of the way in time, the session is a gym environment; if not, it
  may hang, but no call ever returns a wrong observation;
* the agent's n-th observation of an episode measures its action n-1 (its final observation
  repeats the window before), and is labelled with the right parameters, but for the ED threshold (see 5);
* LBT grants exactly as it should until a request is cancelled, also when the agent changes
  parameters; three idle slots are three idle slots, but for the fraction each suspension rounds
  up (`NoFreeSlots` states the exact allowance);
* every request is answered once the channel stays idle, while the parameters stay what they are
  and nobody cancels. When the defer time grows after a grant in which nothing was sent,
  `RequestAccess` in state `TXOP_GRANTED` schedules nothing (lines 185-200), and the request waits
  for the next busy period: without `changed` in `RequestAnswered` TLC finds that behaviour.
  Without `cancelled` it finds an event of a cancelled backoff in state BUSY, which is the fatal
  error "Unreachable?";
* the Cat4 window follows the feedback since the last draw, and only that: what failed before is
  forgotten (see 5);
* what a gNB has on the air ends with its grant or, if the grant is shorter than two slots, at the
  latest with the slot after the one it came in, which may be past the grant (see 5); it never waits for
  an answer nobody owes, sends every downlink allocation once and in order however often it is
  refused, and no refusal makes the MAC allocate a slot twice;
* a UE asks once per slot, its request ends with the slot, and Cat2 holds the channel only when
  it was idle; what it is granted may outlive the slot (see 5); its
  feedback is sent some day if the defer time is no longer than the time it asks ahead
  (with `Defer = 22` in `MC_UeChannelAccess.cfg` the safety properties still hold, and
  `FeedbackSent` does not);
* a radio knows to the instant how long its channel is busy, tells its access manager of all of it
  but the reception of an SRS, and returns to IDLE; `force_sensing_navid`, which measures in every
  slot of a backoff, then finds nothing that was not reported, and in an SRS does harm (see 5);
* what the HARQ scheduler takes for delivered was decoded, and what it gives up was not, while
  nothing of an expired process is left over. In the uplink nothing ever is. In the downlink it is
  when a UE is refused the channel for as long as a process lives; `HarqAssertionsHold` holds
  all the same. What the code does then (late feedback taken for a new block's, a history of two
  blocks) no property catches: they are promised up to that moment, and section 5 names it. No block is
  left open for ever; a NACK that is forgotten passes here, since the expiry of its process ends the block.

## 4. Proofs

All are checked by `tlapm` with Z3, Zenon and LS4.

* `Ns3AiSemaphore_proof`. For any set of processes, word and permits (`WordAssumption`):
  `Inv` = types, the word is the permits less those taken, and nobody is about to swap with
  `c = 0`. The last part makes it inductive: a swap succeeds only on the value it compared, so
  that it takes from a word that is not empty. From `Inv` every step is a step or a stutter of
  `CountingSemaphore`.
* `MsgInterface_proof`. For any number of messages: the inductive invariant ties the two counts
  of a buffer and the two program counters together (exactly one of: empty, being written, full,
  being read), the content of the buffer to `sent`, and what was read to `rcvd`. From it:
  `OneOwner`, `InOrderIntact`, `SpinsForAReason`, `FinishedIsLast`, and the refinement of
  `MsgChannel`.
* `LbtAccess_proof`. For any defer times, slots, draws and durations, changing at any moment,
  requests being cancelled, under `ProperUse`: the two members without initializer start as IDLE
  and 0. The invariant adds to `OnePendingEvent` what the state says about the request
  (`RequestInv`) and about the channel (`ChannelInv`: a pending defer ends when a defer time has
  been idle; a backoff runs only after one, `waitedFor` being the defer time it was
  scheduled with). `OnePendingEvent` alone is not inductive: that a
  station in IDLE has no request and no backoff (`IdleHasNoBackoff`) is needed when the channel
  becomes free. All this is promised until a request is cancelled; `Types` and `BackoffCountsDown`
  hold ever after, and from any memory. `BackoffIsServed` (`NoFreeSlots`) adds `SlotInv`: a running
  backoff has paid for what it is counted down by with idle ticks; `CutCosts` is the arithmetic of a
  suspension. `NoStrandedRequest` is the safety half of `RequestAnswered`, which TLAPS cannot prove:
  `DeferMet` says that grants and backoffs come after the whole defer time in force, so that a request
  which finds the time short also finds an event pending.
  The second half is about the window (`Cat4Cw`): `DrawWithinOneUpdate` for all parameters, from
  `CwTypeOK` and a lemma on what each algorithm makes of the minimum: it says how far the window does
  adapt, where the documentation promises more (see 5); `FeedbackMovesWindow`
  because feedback of one kind decides `UpdateFailed` the same way under every rule
  (`OneKindOfFeedback`). `WindowFollowsFeedback` assumes an increment and minima above 0: an
  increment of 0 widens nothing, and EIED takes a minimum of 0, which is in the agent's action
  space, to 0 / 2 + 1 on a success.
* `GnbChannelAccess_proof`. For any slot length, grants and number of slots. `AccessInv` says
  that the timer runs only within a grant; `AssertionsHold` alone does not survive a grant that
  is given up. `ReservationInv` keeps the signal within its slot. `AirInv` is the argument
  for the time on the air: while the gNB holds a grant there is a number m of whole slots that
  still fit into it, and the timer ends before one more than m would begin (`Covers(m)`); a slot
  that begins takes one off. `AirWithinUse` follows for grants of any length, `Usable` being what the
  smallest count of one slot makes of a grant. For the queue, `QueueInv` has
  two parts. `Booked`: every allocation has a slot of its own; it carries the downlink of at most
  one call of the MAC and the uplink of at most one, the downlink of one that has been made for a
  slot before `dl`, the uplink before `ul`; only the first is a dummy. `Numbered`: the downlink
  calls made and not yet sent are all in the queue, in order. A refusal lays
  the queue out again, slot after slot behind the refused allocation; the lemma `Places` says that the
  position of an allocation in the queue is no later than its slot and keeps the order, hence nothing
  is pushed back by more than a slot or overtakes. `SentOnceInOrder`, `NotDoubleBooked` and
  `QueueStaysShort` follow.
* `GymSession_proof`. For any number of episodes and steps, and an old process that is killed
  wherever it is. `SessionInv` says, for each place of the Python process, where the ns-3 process
  can be, what lies in the two buffers and how the two step counters compare. `Tokens` counts the
  semaphores: the one towards Python never loses its token, the one towards ns-3 may lose it with
  a process that is killed; `MacInv` says which action's parameters have got how far at each point
  of the time step. From these: `ParametersMatchWindow`, `ObservationLag`, and `ImplementsGymSafely`,
  since every step of the two processes is a step of `GymEnv` or none. The first two assume `Reaches`;
  the refinement does not. With `prompt`, `PromptInv` adds
  that no token is lost and that a stop is read by the process it is meant for. This gives what
  `environments.py:329` relies on (`SemaphoresReset`, which fails without it, see 5), and
  `NoMutualWait`, the safety half of "each call returns".
* `UeChannelAccess_proof`. For every layout of the slots, symbol length, time ahead, defer time and
  duty cycle within `UeAssumption`. `SlotInv` says that the DCIs of a slot follow each other and the
  uplink control comes last; `RequestInv` that there is one request, made at one position, for the
  control symbol ahead; `Cat2Inv` where in the slot a defer time can end, which is what keeps its
  event from meeting another state. No
  one of them is inductive without the others: a defer time that ended after the next request would
  break the second.
* `MacHarq_proof`. For any number of processes, flight times, sizes, room and blocks.
  `TriggerIsSlot` reduces a call of the scheduler to what it does to the processes (`Slot`). Under
  `CurrentInv` (an attempt or answer is about the last attempt of a waiting process, and the only one of
  it) such a slot leaves alone every process that has something under way (`SlotLeavesAlone`); that
  is why `AnswerInv` (an ACK is of a decoded block, which is settled or has an ACK under way) and
  the rest survive it. `CurrentInv` is promised while not `late`; `UplinkInv` ties the timer to
  the flight (`timer + due = UlFlight`), so that in the uplink, with `UlFlight < NumHarq`, it is
  never late, and `AssertionsOfHarq` follows. `CountInv` is the count of processes.

* `SpectrumPhy_proof`. For any signals, frames, powers and threshold. The difficulty is that the radio
  decides from a list of past and coming changes of power, while what is on the air is given by the
  queue of events. The two are compared as sums: `Air(q, t)` is what the events of the queue will
  take off after t, `PowerAt(list, first, t)` is the list read up to t. `Tracks` says that they agree at
  every instant from now on, and `RisesArePast` that only falls lie ahead; hence
  `EnergyDurationExact`. The control part has `AllFit` (every end in the queue fits the state, so that
  no assertion fails), `Single` (one reception, transmission and check), `LoudUntil` (the energy
  lasts as long as the busy time found) and `Waits`. The lemma `MaybeSettles`
  is the heart of it: `MaybeCcaBusy` never returns to IDLE with a check still scheduled, because a
  busy time found earlier is not over before the energy is. `NoFatal` and `HeardByManager` alone say
  nothing about the queue and are not inductive. `WaitsEnd`, the safety half of `ReturnsToIdle`,
  follows from the control part and is proved only. Two hypotheses: `~SrsWhileSensing` (section 5
  shows why), and `NoTie`, that no sum of powers equals the threshold exactly. Powers are doubles in
  the code; at a tie the list and `MaybeCcaBusy` compare differently, and the radio could be IDLE
  with a check to come.

Induction. The library's induction theorems take an operator, which the provers here cannot
instantiate. `SpectrumPhy_proof` states the principle for sets instead (`Inductive`: a set with 0
and every successor has all naturals), proves it from the least element of a set, and uses it for
the sums and for the lists kept in order.

Only model-checked: liveness (`ImplementsFairSemaphore`, `AwaitedMessageArrives`,
`FinishIsLearnt`, `CallsReturn`, `RequestAnswered`, `FeedbackSent`, `ReturnsToIdle`,
`NoBlockForgotten`), which TLAPS cannot do. Every safety property that a passing run checks is
stated by a theorem, under the hypotheses named above; what the violation runs check is proved at most under
a hypothesis that the run refutes (`SemaphoresReset` if ns-3 leaves promptly).

## 5. Where code and documentation disagree

| run | what |
|---|---|
| gym_semaphores | `environments.py:329` relies on the old process leaving by itself so that the semaphores reset; `Experiment.run` kills it first thing. The stale close command is then taken for the acknowledgement of the next process, which exits; Python hangs or exits. |
| srs_sensing | `EndRxSrs` asserts that the radio is still in `RX_UL_SRS` (`nr-spectrum-phy.cc:1410`). `force_sensing_navid` (`nr-lbt-access-manager.cc:407`) has the radio measure in every slot of a backoff, in any state, and `ChangeState` does not report an SRS as it reports other receptions: the measurement takes the radio out of `RX_UL_SRS`. |
| cat4_growth | `nr-lbt-access-manager.h:412`: after an unsuccessful transmission the window increases exponentially, and `RetryLimit` is "How many times to try to retransmit with the current CW before reseting it" (`.cc:854`). Every request resets the window (`.cc:911`), as `IsInitialized` is never true: the second failure draws from the window of the first. |

Stated and seen violated, without a run of their own (each is a definition that can be put in the cfg
named here as one more invariant):

* `BackoffEndsWaiting`, in `MC_LbtAccess.cfg`. `nr-ch-access-manager.h:118`: `Cancel` is to "Cancel a
  previously invoked request". It resets a flag (`nr-lbt-access-manager.cc:539`); the events stay and
  grant the request, and when a new one is granted at once meanwhile, the backoff of the old one meets
  `NS_FATAL_ERROR ("Unreachable?")`. `NrUePhy` cancels whatever manager it has;
* `OnAirWithinGrant`, in `MC_GnbChannelAccess.cfg` with `Grants = {5}`. The Mcot is "the maximum channel
  occupancy time" (`nr-lbt-access-manager.h:166`, 173). What is left of a grant after the slot it came in
  counts as one slot even if it is less (`nr-gnb-phy.cc:1934`): with an Mcot of 1 ms, one slot of
  numerology 0, the gNB is on the air after its grant has ended;
* `ParametersMatchWindow`, in `MC_GymSession.cfg` with `Reaches = FALSE`. `SetEdThreshold` is to set the
  threshold "used in LBT algorithm and energy detection" (`nr-lbt-access-manager.h:123`). The radio has
  its own copy, set once (`.cc:126`): after `ChangeEdThreshold` the observation reports a threshold that
  nothing was measured with;
* `GrantEndsWithSlot`, in `MC_UeChannelAccess.cfg` with `Kinds = {"Cat2"}`. "That will be granted only till
  the end of the slot" (`nr-ue-phy.cc:168`): a grant for which `UlCtrl` finds no messages (line 812), or
  which comes after it, survives its slot, and the next one sends on it without a request.

Seen in passing:

* EIED halves the window below `Cat4MinCw`, "The minimum value of the contention window"
  (`nr-lbt-access-manager.cc:859`, 1088);
* `TryToPerformLbt` cuts the symbol off to whole microseconds (`nr-ue-phy.cc:544-556`): from numerology
  2 on, data that ends right before the control symbol may be taken to end outside the shared
  occupancy, and under Cat2 its feedback is refused; an SRS right before the symbol denies it too;
* a loop over uplink NACKs ends with the last free symbol (`nr-mac-scheduler-harq-rr.cc:244`); its
  comment says that "the feedback is buffered for the next slot" (line 226). NACKs that come after the
  last symbol are forgotten, and their blocks expire;
* "the expired HARQs are canceled" is said to come last (`nr-mac-scheduler-ns3.cc:2229`); it comes first;
* "Feedback that arrived late (i.e., their process has been marked inactive" (line 2266): if its number
  has been given to a new block, late feedback is taken for that block's answer, and the receiver
  combines the new block with the attempts of the old.

## 6. Not modelled

The encoding of spaces and observations (data); rewards; SIGINT; a crash of the ns-3 process in
mid-step (the code has no recovery: Python spins for ever); two interfaces in one process (the
`static` segment); how signals attenuate, and with which error they are decoded; licensed mode;
topology, traffic and output; how the scheduler shares a slot between UEs and beams (numerical), the
buffers of the MAC's HARQ packets and its process-to-K1 map, RLC, and everything below `src/src`
that ns-3 and the NR module vendor: this is by far the largest part of the tree, and none of it is
this program's own logic. Of the UE: Cat3 and Cat4 managers (the NR-U program sets its UEs to
AlwaysOn; the scenarios' `ueCamType` offers Cat2 and on-off besides), the delay of uplink grants, power control, measurements, initial access.
Of the gNB: packet bursts, statistics, the uplink control a refused slot still listens for, TDD
patterns with slots that are not flexible, and `StartSlot2`/`EndSlot2`, which nothing calls. A
reservation event due in the very instant a slot ends asks the simulator for a delay of -1 ns;
the model sends nothing, a build with assertions stops there.
Defer times of 0, which the agent's range allows, are outside `LbtAssumption`. A minimum window of 0, which it
allows as well (`environments.py:410`), is not in a run: EIED then widens the window on a success
(`nr-lbt-access-manager.cc:1088`), and `WindowFollowsFeedback` excludes it.

## 7. Plan

Done: the shared-memory stack from the semaphore to the gym session, LBT, the Cat4 window, the
channel access of gNB and UE with all the managers, the radio, and HARQ. What is left, in order of
importance:

1. An abstract access manager (each request answered at most once, by a grant or a denial), with
   `LbtAccess` shown to implement it until a request is cancelled, and `GnbChannelAccess` composed
   with it, so that what the gNB assumes and what the manager provides meet.
2. The scheduler's record of uplink allocations (`m_ulAllocationMap`) against a queue that the PHY has
   pushed back.
3. `LbtAccess` over `SpectrumPhy`, with defer times and minimum windows of 0.
