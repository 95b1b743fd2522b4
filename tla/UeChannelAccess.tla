--------------------------- MODULE UeChannelAccess ---------------------------
(***************************************************************************)
(* The channel access of NrUePhy (nr/model/nr-ue-phy.cc): the slot loop of *)
(* the UE, its request for the channel ahead of the uplink control symbol, *)
(* and what it sends without a request; with the access manager it was     *)
(* given, AlwaysOn, OnOff or Cat2.                                         *)
(*                                                                         *)
(* A tick is the nanosecond by which receptions and transmissions are      *)
(* shorter than their symbols; Symbol and Micro are far smaller than the   *)
(* real numbers of ticks, in the same order.  The order of the events of   *)
(* one instant is left open.                                               *)
(***************************************************************************)
EXTENDS Integers, Sequences

CONSTANTS
    Kinds,          \* the access managers the helper may have installed
    Symbols,        \* GetSymbolsPerSlot(); control takes one symbol
    Symbol,         \* GetSymbolPeriod()
    Micro,          \* a microsecond
    Threshold,      \* attribute LBTThresholdForCtrl
    Lead,           \* MicroSeconds(25)
    Defer,          \* m_deferTime of Cat2
    ChangeTime,     \* m_changeTime of OnOff
    Pattern,        \* what the slots hold, cyclically: the TDD type, and what the gNB's
                    \* scheduler may have put in, the uplink sets and the downlink data
    Durations,      \* how long others are heard
    MaxBusy         \* bound: how often they are

Period == Symbols * Symbol

DataDcis == [type : {"SRS", "DATA"}, format : {"DL", "UL"}, sym : Nat, num : Nat \ {0}]

Apart(x, y) == x.sym + x.num <= y.sym \/ y.sym + y.num <= x.sym

ASSUME UeAssumption ==
    /\ Kinds \subseteq {"AlwaysOn", "OnOff", "Cat2"}
    /\ Symbols \in Nat \ {0} /\ Symbol \in Nat \ {0, 1} /\ Micro \in Nat \ {0}
    /\ Threshold \in Nat
    /\ Lead \in Nat \ {0} /\ Lead < (Symbols - 2) * Symbol
    /\ Defer \in Nat \ {0} /\ Defer < Period /\ ChangeTime \in Nat \ {0}
    /\ Durations \subseteq Nat \ {0} /\ MaxBusy \in Nat

\* The DCIs of a slot come after its downlink and before its uplink control; those of the
\* uplink do not overlap.
ASSUME PatternAssumption ==
    /\ Pattern \in Seq([type : {"DL", "F", "UL"}, ul : SUBSET (SUBSET DataDcis), dl : SUBSET DataDcis])
    /\ Pattern # <<>>
    /\ \A i \in DOMAIN Pattern :
         /\ \A dci \in (UNION Pattern[i].ul) \union Pattern[i].dl :
              /\ dci.sym >= IF Pattern[i].type = "UL" THEN 0 ELSE 1
              /\ dci.sym + dci.num <= IF Pattern[i].type = "DL" THEN Symbols ELSE Symbols - 1
         /\ \A list \in Pattern[i].ul : \A x, y \in list : x = y \/ Apart(x, y)

VARIABLES
    pos,            \* now - m_lastSlotStart
    index,          \* m_currentSlot, modulo the pattern
    status,         \* m_channelStatus
    allocs,         \* the DCIs left in m_currSlotAllocInfo
    event,          \* the pending StartSlot, StartVarTti or EndVarTti, with its DCI
    tryLbt,         \* m_tryToPerformLbt
    lbtEvent,       \* m_lbtEvent, a countdown
    ctrl,           \* whether m_ctrlMsgs holds messages
    hearing,        \* whether the downlink control of this slot is being received
    kind,           \* which access manager it is, and the state of Cat2 and of OnOff
    state, grantRequested, idleFor, deferEvent, busyEvent,
    grant, call, changeEvent,
    busyCalls       \* how often others were heard

Cat2 == INSTANCE Cat2Lbt
OnOff == INSTANCE OnOffAccess

cat2 == <<state, grantRequested, idleFor, deferEvent, busyEvent>>
onOff == <<grant, call, changeEvent>>
slot == <<index, allocs>>
vars == <<pos, slot, status, event, tryLbt, lbtEvent, ctrl, hearing, kind, cat2, onOff,
          busyCalls>>

Off == -1

CtrlAt(format, sym) == [type |-> "CTRL", format |-> format, sym |-> sym, num |-> 1]
DlCtrlDci == CtrlAt("DL", 0)
UlCtrlDci == CtrlAt("UL", Symbols - 1)

\* The first slot starts at once.
Init ==
    /\ pos = Period /\ index = 1
    /\ event = [type |-> "StartSlot", dci |-> UlCtrlDci, at |-> Period]
    /\ allocs = {}
    /\ status = "NONE" /\ tryLbt = FALSE /\ lbtEvent = Off
    /\ ctrl = FALSE /\ hearing = FALSE
    /\ kind \in Kinds
    /\ Cat2!Init
    /\ OnOff!Init
    /\ busyCalls = 0

-----------------------------------------------------------------------------
(* The access manager, whichever it is.                                    *)

\* NrUePhy::RequestAccess, the event.
RequestAccess ==
    /\ lbtEvent = 0
    /\ lbtEvent' = Off
    /\ \/ kind = "AlwaysOn" /\ status' = "GRANTED" /\ UNCHANGED <<cat2, onOff>>
       \/ kind = "OnOff" /\ ~call /\ OnOff!RequestAccess /\ UNCHANGED cat2
       \/ kind = "Cat2" /\ Cat2!RequestAccess /\ UNCHANGED onOff
    /\ UNCHANGED <<pos, slot, event, tryLbt, ctrl, hearing, kind, busyCalls>>

\* Mutant: it is not called.
CancelForgotten == UNCHANGED <<cat2, onOff>>

CancelRequest ==
    \/ kind = "AlwaysOn" /\ UNCHANGED <<cat2, onOff>>
    \/ kind = "OnOff" /\ OnOff!Cancel /\ UNCHANGED cat2
    \/ kind = "Cat2" /\ Cat2!Cancel /\ UNCHANGED onOff

\* The radio's ChannelOccupied, which only Cat2 hears.
Occupied(d) ==
    /\ IF kind = "Cat2" THEN Cat2!TransitionToBusy(d) ELSE UNCHANGED cat2
    /\ UNCHANGED onOff

StatusAfterBusy == IF kind = "Cat2" THEN Cat2!AfterBusy ELSE status

\* The scheduled events of the managers.
Manager ==
    /\ \/ kind = "Cat2" /\ Cat2!RequestAccessAfterDefer /\ UNCHANGED onOff
       \/ kind = "Cat2" /\ Cat2!TransitionFromBusy /\ UNCHANGED onOff
       \/ kind = "OnOff" /\ OnOff!Start /\ UNCHANGED cat2
       \/ kind = "OnOff" /\ OnOff!ShutDown /\ UNCHANGED cat2
    /\ UNCHANGED <<pos, slot, event, tryLbt, lbtEvent, ctrl, hearing, kind, busyCalls>>

\* Somebody else is heard.
GoesBusy ==
    /\ kind = "Cat2" /\ busyCalls < MaxBusy
    /\ busyCalls' = busyCalls + 1
    /\ \E d \in Durations : Occupied(d)
    /\ status' = StatusAfterBusy
    /\ UNCHANGED <<pos, slot, event, tryLbt, lbtEvent, ctrl, hearing, kind>>

-----------------------------------------------------------------------------
(* The slot.                                                               *)

PushCtrlAllocations(type) ==
    (IF type = "UL" THEN {} ELSE {DlCtrlDci}) \union (IF type = "DL" THEN {} ELSE {UlCtrlDci})

\* Mutant: the start of the data is compared, not its end.
InSharedCotByStart(dci) ==
    (Period - Symbol - Threshold) \div Micro < dci.sym * (Symbol \div Micro)

\* Whether uplink control may follow a transmission at once, in whole microseconds:
\* GetMicroSeconds() cuts off the rest, of the limit and of the symbol.
InSharedCot(dci) ==
    (Period - Symbol - Threshold) \div Micro < (dci.num + dci.sym) * (Symbol \div Micro)

\* TryToPerformLbt with the DCIs "list", "now" after the start of the slot.
TryToPerformLbt(list, now) ==
    LET data == {dci \in list : dci.type = "DATA"}
    IN  \/ UlCtrlDci \notin list /\ UNCHANGED <<status, lbtEvent>>
        \/ /\ UlCtrlDci \in list /\ \E dci \in data : InSharedCot(dci)
           /\ status' = "GRANTED" /\ lbtEvent' = Off
        \/ /\ UlCtrlDci \in list /\ \A dci \in data : ~InSharedCot(dci)
           /\ lbtEvent' = IF status = "GRANTED" THEN lbtEvent
                          ELSE UlCtrlDci.sym * Symbol - Lead - now
           /\ UNCHANGED status

\* The first of the DCIs is taken off and its StartVarTti scheduled.
StartVarTtiOfFirst(list) ==
    \E first \in list :
        /\ \A dci \in list : first.sym <= dci.sym
        /\ allocs' = list \ {first}
        /\ event' = [type |-> "StartVarTti", dci |-> first, at |-> first.sym * Symbol]

Happens(type) == event.type = type /\ pos = event.at

StartSlot ==
    /\ Happens("StartSlot")
    /\ pos' = 0
    /\ \E ul \in Pattern[index].ul :
         LET list == ul \union PushCtrlAllocations(Pattern[index].type)
         IN  TryToPerformLbt(list, 0) /\ StartVarTtiOfFirst(list)
    /\ ctrl' \in {ctrl, TRUE}
    /\ UNCHANGED <<index, tryLbt, hearing, kind, cat2, onOff, busyCalls>>

\* A DCI arrives with the last of the downlink control: InsertAllocation.
PhyCtrlMessagesReceived ==
    /\ hearing /\ pos = event.at - 1
    /\ hearing' = FALSE
    /\ \E new \in {{}} \union {{dci} : dci \in Pattern[index].dl} :
         /\ \A x \in new, y \in allocs : Apart(x, y)
         /\ allocs' = allocs \union new
    /\ UNCHANGED <<pos, index, status, event, tryLbt, lbtEvent, ctrl, kind, cat2, onOff,
                   busyCalls>>

Length == event.dci.num * Symbol

\* StartVarTti, for one kind of DCI.
StartVarTti(type, format) ==
    /\ Happens("StartVarTti")
    /\ event.dci.type = type /\ event.dci.format = format
    /\ event' = [event EXCEPT !.type = "EndVarTti", !.at = pos + Length]
    /\ UNCHANGED <<pos, slot, lbtEvent, kind, busyCalls>>

\* The gNB may have had to push its slot back, and then there is nothing to hear.
DlCtrl ==
    /\ StartVarTti("CTRL", "DL")
    /\ tryLbt' = TRUE
    /\ \/ Occupied(Length - 1) /\ status' = StatusAfterBusy /\ hearing' = TRUE
       \/ UNCHANGED <<cat2, onOff, status, hearing>>
    /\ UNCHANGED <<ctrl>>

\* The SRS, sent without a look at the channel; then the status is reset.
UlSrs ==
    /\ StartVarTti("SRS", "UL")
    /\ Occupied(Length - 1)
    /\ status' = "NONE"
    /\ UNCHANGED <<tryLbt, ctrl, hearing>>

\* The uplink control symbol: no messages, or no grant, or the messages are sent.
UlCtrlEmpty ==
    /\ StartVarTti("CTRL", "UL")
    /\ ~ctrl
    /\ CancelRequest
    /\ UNCHANGED <<status, tryLbt, ctrl, hearing>>

UlCtrlNotGranted ==
    /\ StartVarTti("CTRL", "UL")
    /\ ctrl /\ status # "GRANTED"
    /\ CancelRequest
    /\ UNCHANGED <<status, tryLbt, ctrl, hearing>>

UlCtrlSent ==
    /\ StartVarTti("CTRL", "UL")
    /\ ctrl /\ status = "GRANTED"
    /\ Occupied(Length - 1)
    /\ ctrl' = FALSE /\ status' = "NONE"
    /\ UNCHANGED <<tryLbt, hearing>>

\* Data is received, or sent, without a look at the channel.
Data(format) ==
    /\ StartVarTti("DATA", format)
    /\ Occupied(Length - 1)
    /\ status' = StatusAfterBusy
    /\ UNCHANGED <<tryLbt, ctrl, hearing>>

\* The gNB sends nothing in a DCI that it has no packets for.
DlDataOfNone ==
    /\ StartVarTti("DATA", "DL")
    /\ UNCHANGED <<cat2, onOff, status, tryLbt, ctrl, hearing>>

DlData == Data("DL") \/ DlDataOfNone
UlData == Data("UL")

EndVarTti ==
    /\ Happens("EndVarTti")
    /\ tryLbt' = FALSE
    /\ IF tryLbt THEN TryToPerformLbt(allocs, pos) ELSE UNCHANGED <<status, lbtEvent>>
    /\ \/ /\ allocs = {}
          /\ index' = (index % Len(Pattern)) + 1
          /\ event' = [event EXCEPT !.type = "StartSlot", !.at = Period]
          /\ UNCHANGED allocs
       \/ allocs # {} /\ StartVarTtiOfFirst(allocs) /\ UNCHANGED index
    /\ UNCHANGED <<pos, ctrl, hearing, kind, cat2, onOff, busyCalls>>

-----------------------------------------------------------------------------

Tick ==
    /\ pos < event.at /\ lbtEvent # 0
    /\ ~(hearing /\ pos = event.at - 1)
    /\ pos' = pos + 1
    /\ lbtEvent' = Cat2!Countdown(lbtEvent)
    /\ IF kind = "Cat2" THEN Cat2!Tick ELSE UNCHANGED cat2
    /\ IF kind = "OnOff" THEN OnOff!Tick ELSE UNCHANGED onOff
    /\ UNCHANGED <<slot, status, event, tryLbt, ctrl, hearing, kind, busyCalls>>

Scheduled ==
    \/ RequestAccess
    \/ Manager
    \/ StartSlot
    \/ PhyCtrlMessagesReceived
    \/ DlCtrl
    \/ UlSrs
    \/ UlCtrlEmpty
    \/ UlCtrlNotGranted
    \/ UlCtrlSent
    \/ DlData
    \/ UlData
    \/ EndVarTti

Next == Scheduled \/ GoesBusy \/ Tick

SafeSpec == Init /\ [][Next]_vars

\* The simulator runs what is due and then moves the clock on.
Spec == SafeSpec /\ WF_vars(Scheduled \/ Tick)

=============================================================================
