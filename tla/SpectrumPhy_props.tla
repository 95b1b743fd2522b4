-------------------------- MODULE SpectrumPhy_props --------------------------
(***************************************************************************)
(* What the radio promises its channel access manager.                     *)
(***************************************************************************)
EXTENDS SpectrumPhy

\* The power of the signals on the air that last longer than t, by the events that will
\* take them off.
OnAirBeyond(t) ==
    Sum([i \in DOMAIN events |-> IF events[i].at > t THEN events[i].power ELSE 0])

Settled == \A i \in DOMAIN events : events[i].at > 0

\* No handler finds the radio in a state it does not expect: the assertions of EndTx,
\* EndRxCtrl and EndRxSrs, and the aborts of CheckIfStillBusy and of MaybeCcaBusy
\* ("returning to IDLE while there is an event running ...").
NoFatal ==
    /\ Due("EndTx") => state = "TX"
    /\ Due("EndRxCtrl") => state \in {"RX_DL_CTRL", "RX_UL_CTRL"}
    /\ Due("EndRxSrs") => state = "RX_UL_SRS"
    /\ state = "IDLE" => \A i \in DOMAIN events : ~IsCheck(events[i])

\* GetEnergyDuration, which walks a list of past and coming changes, tells exactly when
\* the signals on the air fall below the threshold for the first time.
EnergyDurationExact ==
    LET ends == {0} \union {events[i].at : i \in DOMAIN events}
        quiet == {t \in ends : OnAirBeyond(t) < Threshold}
    IN  ~receiving => EnergyNow = CHOOSE t \in quiet : \A u \in quiet : t <= u

\* While the access manager believes the channel idle, there is no energy above the
\* threshold and the radio is IDLE, however signals, receptions and transmissions
\* overlapped: the sensing that force_sensing_navid adds in every slot of a backoff finds
\* nothing that was not reported.  The exception is the reception of an SRS, which
\* ChangeState does not report.
HeardByManager ==
    Settled /\ idleFor >= 0 /\ state # "RX_UL_SRS" =>
        power <= Threshold /\ (idleFor >= Defer => state = "IDLE" /\ EnergyNow = 0)

\* The radio waits for one thing at a time, and it will come: a reception or transmission
\* has one end scheduled, CCA_BUSY a check, for when the busy time found so far ends; and
\* however often the check is set anew or passed over, there is never a second.
WaitsEnd ==
    LET checks == {i \in DOMAIN events : IsCheck(events[i])}
        ends == {i \in DOMAIN events :
                    events[i].kind \in {"EndTx", "EndRxData", "EndRxCtrl", "EndRxSrs"}}
    IN  /\ state = "CCA_BUSY" => checks # {}
        /\ state \notin {"IDLE", "CCA_BUSY"} <=> ends # {}
        /\ \A i \in checks : events[i].at = busyEnds
        /\ \A i, j \in checks : i = j
        /\ \A i, j \in ends : i = j

\* When no more signals come the radio returns to IDLE, and stays: the check that ends
\* CCA_BUSY is neither lost nor forgotten when a reception comes in between.
ReturnsToIdle == <>[](state = "IDLE")

=============================================================================
