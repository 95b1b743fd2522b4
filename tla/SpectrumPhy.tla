----------------------------- MODULE SpectrumPhy -----------------------------
(***************************************************************************)
(* The radio as its channel access manager sees it: the states of          *)
(* NrSpectrumPhy (nr/model/nr-spectrum-phy.cc) in unlicensed mode, and the *)
(* list of power changes by which NrInterference (nr/model/                *)
(* nr-interference.cc) tells how long the channel stays busy.              *)
(*                                                                         *)
(* Times are relative to now.  Scheduled events run in the simulator's     *)
(* order: by time, then as they were scheduled.  Signals and the node's    *)
(* own transmissions begin between any two of them.  Power is a number;    *)
(* no sum of powers is equal to the threshold.                             *)
(***************************************************************************)
EXTENDS Integers, Sequences, SequencesExt

CONSTANTS
    Powers,         \* powers a signal may arrive with
    Threshold,      \* m_ccaMode1ThresholdW
    Durations,      \* how long a frame may last
    Defer,          \* the defer time of the access manager
    SrsWhileSensing,\* whether force_sensing_navid comes in the reception of an SRS too
    MaxSignals,     \* bound: signals that arrive
    MaxFrames       \* bound: frames sent

ASSUME SpectrumAssumption ==
    /\ SrsWhileSensing \in BOOLEAN
    /\ Powers \subseteq Nat \ {0} /\ Threshold \in Nat \ {0}
    /\ Durations \subseteq Nat \ {0}
    /\ Defer \in Nat \ {0}
    /\ MaxSignals \in Nat /\ MaxFrames \in Nat

VARIABLES
    isEnb,          \* IsEnb()
    state,          \* m_state
    power,          \* m_allSignals of m_interferenceData
    firstPower,     \* its m_firstPower
    changes,        \* its m_niChanges
    receiving,      \* its m_receiving
    rxStarts,       \* whether m_firstRxStart is now
    busyEnds,       \* m_busyTimeEnds - now, 0 once it is past
    events,         \* what the simulator has scheduled for this radio
    idleFor,        \* the access manager's now - m_lastBusyTime
    signals, frames \* how many signals came, and how many frames were sent

interference == <<power, firstPower, changes>>
fixed == <<isEnb, signals, frames>>
vars == <<isEnb, state, power, firstPower, changes, receiving, rxStarts, busyEnds, events,
          idleFor, signals, frames>>

Init ==
    /\ isEnb \in BOOLEAN
    /\ state = "IDLE"
    /\ power = 0 /\ firstPower = 0 /\ changes = <<>> /\ receiving = FALSE
    /\ rxStarts = FALSE /\ busyEnds = 0
    /\ events = <<>>
    /\ idleFor = 0
    /\ signals = 0 /\ frames = 0

\* std::upper_bound: how many of a queue are due by t.
DueBy(queue, t) == Cardinality({i \in DOMAIN queue : queue[i].at <= t})

\* After all that is due as early, as the simulator's queue has it too.
Insert(queue, x) == InsertAt(queue, DueBy(queue, x.at) + 1, x)

\* The sums of the first n of a list of numbers, for each n.
PartialSums(list) ==
    LET upTo[n \in 0 .. Len(list)] == IF n = 0 THEN 0 ELSE upTo[n - 1] + list[n]
    IN  upTo

Sum(list) == PartialSums(list)[Len(list)]

Event(kind, after) == [at |-> after, kind |-> kind, power |-> 0]

-----------------------------------------------------------------------------
(* NrInterference.                                                         *)

\* The power after the first n changes of a list.
PowerAfter(list, n, first) ==
    first + PartialSums([i \in DOMAIN list |-> list[i].delta])[n]

FirstPower == PowerAfter(changes, DueBy(changes, 0), firstPower)

\* AppendEvent: while no data is received the list is first emptied until now.
AppendEvent(p, d) ==
    LET ahead == <<[at |-> 0, delta |-> p]>>
                    \o SubSeq(changes, DueBy(changes, 0) + 1, Len(changes))
    IN  /\ firstPower' = IF receiving THEN firstPower ELSE FirstPower
        /\ changes' = Insert(IF receiving THEN Insert(changes, [at |-> 0, delta |-> p])
                             ELSE ahead,
                             [at |-> d, delta |-> -p])

\* Mutant: the first change that is not past ends the loop.
LoopEndsAtOnce(list, first) ==
    LET over == {i \in DOMAIN list : list[i].at >= 0}
    IN  IF over = {} THEN Len(list) ELSE CHOOSE i \in over : \A j \in over : i <= j

\* Where the loop of GetEnergyDuration ends: at the first change, not past, after which
\* the power is below the threshold, else at the last change.
LoopEnds(list, first) ==
    LET over == {i \in DOMAIN list :
                    list[i].at >= 0 /\ PowerAfter(list, i, first) < Threshold}
    IN  IF over = {} THEN Len(list) ELSE CHOOSE i \in over : \A j \in over : i <= j

\* GetEnergyDuration of an interference with that power, list and first power.
EnergyDuration(now, list, first) ==
    IF now > Threshold /\ list # <<>> /\ list[LoopEnds(list, first)].at > 0
    THEN list[LoopEnds(list, first)].at
    ELSE 0

-----------------------------------------------------------------------------
(* What the handlers call.                                                 *)

\* ChannelOccupied(d), as the access manager takes it.
Occupied(d) == IF -d < idleFor THEN -d ELSE idleFor

IsCheck(e) == e.kind = "CheckIfStillBusy"

\* Mutant: there is no check.
RescheduledNever(queue, d) == queue

WithoutCheck(queue) ==
    LET checks == {i \in DOMAIN queue : IsCheck(queue[i])}
    IN  IF checks = {} THEN queue ELSE RemoveAt(queue, CHOOSE i \in checks : TRUE)

Rescheduled(queue, d) == Insert(WithoutCheck(queue), Event("CheckIfStillBusy", d))

\* MaybeCcaBusy, with "queue" what is scheduled, when the channel stays busy for d.
MaybeCcaBusy(queue, d) ==
    \/ /\ d > 0
       /\ state' = "CCA_BUSY"
       /\ idleFor' = Occupied(d)
       /\ busyEnds' = IF busyEnds < d THEN d ELSE busyEnds
       /\ events' = IF busyEnds < d THEN Rescheduled(queue, d) ELSE queue
    \/ /\ d = 0
       /\ state' = "IDLE"
       /\ events' = queue
       /\ UNCHANGED <<idleFor, busyEnds>>

EnergyNow == EnergyDuration(power, changes, firstPower)

\* ChangeState to a reception or a transmission that lasts d and ends with "end".
Occupy(queue, new, end, d) ==
    /\ state' = new
    /\ idleFor' = IF new = "RX_UL_SRS" THEN idleFor ELSE Occupied(d)
    /\ events' = Insert(queue, Event(end, d))
    /\ UNCHANGED busyEnds

\* AddSignal, and the queue with the event that takes it off again.
AddSignal(p, d) ==
    /\ signals < MaxSignals
    /\ signals' = signals + 1
    /\ power' = power + p
    /\ AppendEvent(p, d)
    /\ UNCHANGED <<isEnb, frames>>

WithEndOf(p, d) == Insert(events, [at |-> d, kind |-> "DoSubtractSignal", power |-> p])

Due(kind) == events # <<>> /\ Head(events).at = 0 /\ Head(events).kind = kind

\* No frame begins in the instant in which data ends: each ends a nanosecond before the
\* symbol does.
DataEnds == \E i \in DOMAIN events : events[i].at = 0 /\ events[i].kind = "EndRxData"

-----------------------------------------------------------------------------
(* StartRx.  Own signals come as the cell has scheduled them.              *)

\* A signal of another cell or technology.
StartRx ==
    /\ ~DataEnds
    /\ \E p \in Powers, d \in Durations :
         /\ AddSignal(p, d)
         /\ \/ /\ state = "IDLE"
               /\ MaybeCcaBusy(WithEndOf(p, d), EnergyDuration(power', changes', firstPower'))
            \/ /\ state # "IDLE"
               /\ events' = WithEndOf(p, d)
               /\ UNCHANGED <<state, idleFor, busyEnds>>
    /\ UNCHANGED <<receiving, rxStarts>>

Free == state \in {"IDLE", "CCA_BUSY"}

\* The first signal of a reception.
Receive(new, end) ==
    /\ Free
    /\ \E p \in Powers, d \in Durations :
         AddSignal(p, d) /\ Occupy(WithEndOf(p, d), new, end, d)
    /\ rxStarts' = TRUE

StartRxData == Receive("RX_DATA", "EndRxData") /\ receiving' = TRUE

StartRxDlCtrl == ~isEnb /\ Receive("RX_DL_CTRL", "EndRxCtrl") /\ UNCHANGED receiving

StartRxUlCtrl == isEnb /\ Receive("RX_UL_CTRL", "EndRxCtrl") /\ UNCHANGED receiving

StartRxSrs == isEnb /\ Receive("RX_UL_SRS", "EndRxSrs") /\ UNCHANGED receiving

\* The signal of a second UE, which begins and ends with the first.
StartRxAnother ==
    /\ isEnb /\ rxStarts
    /\ state \in {"RX_DATA", "RX_UL_CTRL"}
    /\ \E i \in DOMAIN events, p \in Powers :
         /\ events[i].kind \in {"EndRxData", "EndRxCtrl"}
         /\ AddSignal(p, events[i].at)
         /\ events' = WithEndOf(p, events[i].at)
         /\ idleFor' = IF state = "RX_DATA" THEN Occupied(events[i].at) ELSE idleFor
    /\ UNCHANGED <<state, receiving, rxStarts, busyEnds>>

\* StartTxDataFrames, StartTxDlControlFrames, StartTxUlControlFrames.
StartTx ==
    /\ frames < MaxFrames
    /\ frames' = frames + 1
    /\ Free
    /\ \E d \in Durations : Occupy(events, "TX", "EndTx", d)
    /\ UNCHANGED <<isEnb, interference, receiving, rxStarts, signals>>

-----------------------------------------------------------------------------
(* The scheduled events.                                                   *)

DoSubtractSignal ==
    /\ Due("DoSubtractSignal")
    /\ power' = power - Head(events).power
    /\ events' = Tail(events)
    /\ UNCHANGED <<state, firstPower, changes, receiving, rxStarts, busyEnds, idleFor, fixed>>

\* Mutant: as with a licence.
EndTxIdle ==
    /\ Due("EndTx")
    /\ state' = "IDLE" /\ events' = Tail(events)
    /\ UNCHANGED <<interference, receiving, rxStarts, busyEnds, idleFor, fixed>>

EndTx ==
    /\ Due("EndTx")
    /\ MaybeCcaBusy(Tail(events), EnergyNow)
    /\ UNCHANGED <<interference, receiving, rxStarts, fixed>>

EndRxData ==
    /\ Due("EndRxData")
    /\ receiving' = FALSE
    /\ MaybeCcaBusy(Tail(events), EnergyNow)
    /\ UNCHANGED <<interference, rxStarts, fixed>>

EndRxCtrl ==
    /\ Due("EndRxCtrl")
    /\ MaybeCcaBusy(Tail(events), EnergyNow)
    /\ UNCHANGED <<interference, receiving, rxStarts, fixed>>

EndRxSrs ==
    /\ Due("EndRxSrs")
    /\ MaybeCcaBusy(Tail(events), EnergyNow)
    /\ UNCHANGED <<interference, receiving, rxStarts, fixed>>

\* Mutant: the state is not looked at.
CheckIfStillBusyAlways ==
    /\ Due("CheckIfStillBusy")
    /\ MaybeCcaBusy(Tail(events), EnergyNow)
    /\ UNCHANGED <<interference, receiving, rxStarts, fixed>>

\* In a reception or a transmission it only looks.
CheckIfStillBusy ==
    /\ Due("CheckIfStillBusy")
    /\ \/ /\ state = "CCA_BUSY"
          /\ MaybeCcaBusy(Tail(events), EnergyNow)
       \/ /\ state # "CCA_BUSY"
          /\ events' = Tail(events)
          /\ UNCHANGED <<state, busyEnds, idleFor>>
    /\ UNCHANGED <<interference, receiving, rxStarts, fixed>>

\* force_sensing_navid of the access manager, which is in backoff and so has heard
\* nothing for its defer time.
ForceSensing ==
    /\ idleFor >= Defer
    /\ SrsWhileSensing \/ state # "RX_UL_SRS"
    /\ MaybeCcaBusy(events, EnergyNow)
    /\ UNCHANGED <<interference, receiving, rxStarts, fixed>>

Tick ==
    /\ \A i \in DOMAIN events : events[i].at > 0
    /\ events' = [i \in DOMAIN events |-> [events[i] EXCEPT !.at = @ - 1]]
    /\ changes' = [i \in DOMAIN changes |->
                      [changes[i] EXCEPT !.at = IF @ < 0 THEN @ ELSE @ - 1]]
    /\ busyEnds' = IF busyEnds = 0 THEN 0 ELSE busyEnds - 1
    /\ idleFor' = IF idleFor < Defer THEN idleFor + 1 ELSE idleFor
    /\ rxStarts' = FALSE
    /\ UNCHANGED <<state, power, firstPower, receiving, fixed>>

Scheduled ==
    \/ DoSubtractSignal
    \/ EndTx
    \/ EndRxData
    \/ EndRxCtrl
    \/ EndRxSrs
    \/ CheckIfStillBusy

Next ==
    \/ StartRx
    \/ StartRxData
    \/ StartRxDlCtrl
    \/ StartRxUlCtrl
    \/ StartRxSrs
    \/ StartRxAnother
    \/ StartTx
    \/ Scheduled
    \/ ForceSensing
    \/ Tick

\* The simulator runs what is due and then moves the clock on.
Spec == Init /\ [][Next]_vars /\ WF_vars(Scheduled \/ Tick)

=============================================================================
