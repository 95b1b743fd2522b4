-------------------------- MODULE GnbChannelAccess --------------------------
(***************************************************************************)
(* The channel access of NrGnbPhy (nr/model/nr-gnb-phy.cc): the slot loop, *)
(* m_channelStatus, the timer that ends a grant, the reservation signal,   *)
(* and the queue of slot allocations (nr/model/nr-phy.cc), which is pushed *)
(* back by a slot whenever the channel is not there.                       *)
(*                                                                         *)
(* The channel access manager is any that answers each request at most     *)
(* once, at once or later, with a grant or a denial: LbtAccess is one.     *)
(* A tick is the nanosecond the code takes off to separate events; Period  *)
(* and Micro are far smaller than the real numbers of ticks, but in the    *)
(* same order.  The order of the events of one instant is left open.       *)
(***************************************************************************)
EXTENDS Integers, Sequences, FiniteSets

CONSTANTS
    Period,         \* GetSlotPeriod()
    Micro,          \* MicroSeconds(1), the delay of the reservation signal
    CtrlTime,       \* how long the downlink of a slot that is not full lasts
    Grants,         \* durations a grant may have
    Latency,        \* GetL1L2CtrlLatency(), 2
    N2Delay,        \* attribute N2Delay
    BroadcastEvery, \* slots between a MIB and a SIB of the primary cell
    MaxSlot         \* bound: the last slot

ASSUME GnbAssumption ==
    /\ Period \in Nat \ {0} /\ Micro \in 1 .. Period - 1
    /\ CtrlTime \in 1 .. Period - 1
    /\ Grants \subseteq Nat
    /\ Latency \in Nat \ {0, 1}
    /\ N2Delay \in Nat
    /\ BroadcastEvery \in Nat \ {0}
    /\ MaxSlot \in Nat

VARIABLES
    status,         \* m_channelStatus
    slot,           \* m_currentSlot, counted from 0
    sinceStart,     \* now - m_lastSlotStart
    startDue,       \* whether StartSlot is scheduled for this instant
    lostTimer,      \* m_channelLostTimer
    reserveEvent,   \* the pending DoSendReservationSignal
    queue,          \* m_slotAllocInfo
    asked,          \* whether the access manager owes an answer
    txLeft,         \* how long the downlink of this slot is still on the air
    reserveLeft,    \* how long the reservation signal is
    grantLeft,      \* history: what is left of the last granted duration
    usableLeft,     \* history: the same, or to the end of the slot after that of the grant
    calls,          \* history: calls of the MAC, which number its downlink allocations
    sent            \* history: those put on the air

air == <<txLeft, reserveLeft>>
left == <<grantLeft, usableLeft>>
vars == <<status, slot, sinceStart, startDue, lostTimer, reserveEvent, queue, asked,
          txLeft, reserveLeft, left, calls, sent>>

Off == -1

\* A slot's allocation: the MAC's downlink and uplink calls it comes from, whether there
\* is downlink control, how far downlink data goes, and what uplink there is but control.
Allocation == [sfn : Nat, dl : SUBSET Nat, ul : SUBSET Nat, ctrl : BOOLEAN,
               dlData : {"none", "part", "full"}, ulData : {"none", "srs", "data"}]

TypeOK ==
    /\ status \in {"NONE", "REQUESTED", "GRANTED", "TO_LOSE"}
    /\ slot \in Nat
    /\ sinceStart \in 0 .. Period
    /\ startDue \in BOOLEAN
    /\ lostTimer \in Nat \union {Off}
    /\ reserveEvent \in 0 .. Micro \union {Off}
    /\ queue \subseteq Allocation
    /\ asked \in BOOLEAN
    /\ txLeft \in 0 .. Period
    /\ reserveLeft \in 0 .. Period
    /\ grantLeft \in Nat /\ usableLeft \in Nat
    /\ calls \in Nat
    /\ sent \in Seq(Nat)

\* StartEventLoop: the first slot starts at once.
Init ==
    /\ status = "NONE"
    /\ slot = 0 /\ sinceStart = 0 /\ startDue = TRUE
    /\ lostTimer = Off /\ reserveEvent = Off
    /\ queue = {}
    /\ asked = FALSE
    /\ txLeft = 0 /\ reserveLeft = 0
    /\ grantLeft = 0 /\ usableLeft = 0
    /\ calls = 0 /\ sent = <<>>

-----------------------------------------------------------------------------
(* The queue of allocations.                                               *)

Dummy == [sfn |-> slot, dl |-> {}, ul |-> {}, ctrl |-> FALSE,
          dlData |-> "none", ulData |-> "none"]

\* Mutant: it stays in the queue.
RestWithCurrent == queue

\* RetrieveSlotAllocInfo takes this slot's allocation off the queue.
Rest == {a \in queue : a.sfn # slot}

BroadcastDue == slot % BroadcastEvery = 0

\* m_currSlotAllocInfo: a broadcast adds downlink control where there is none.
Current ==
    LET found == {a \in queue : a.sfn = slot}
        base == IF found = {} THEN Dummy ELSE CHOOSE a \in found : TRUE
    IN  [base EXCEPT !.ctrl = @ \/ BroadcastDue]

Empty(a) == a.dl = {} /\ a.ul = {} /\ ~a.ctrl

Stronger(x, y, weakest) == IF x = weakest THEN y ELSE x

\* SlotAllocInfo::Merge
Merge(a, b) ==
    [sfn |-> a.sfn, dl |-> a.dl \union b.dl, ul |-> a.ul \union b.ul,
     ctrl |-> a.ctrl \/ b.ctrl,
     dlData |-> Stronger(a.dlData, b.dlData, "none"),
     ulData |-> Stronger(a.ulData, b.ulData, "none")]

\* PushBackSlotAllocInfo
PushBack(q, b) ==
    IF \E a \in q : a.sfn = b.sfn
    THEN {IF a.sfn = b.sfn THEN Merge(a, b) ELSE a : a \in q}
    ELSE q \union {b}

\* Mutant: the allocation that could not be sent goes behind the others.
PushFrontLast(a) ==
    LET Place(b) == Cardinality({c \in Rest : c.sfn < b.sfn})
    IN  {[b EXCEPT !.sfn = slot + 1 + Place(b)] : b \in Rest}
        \union {[a EXCEPT !.sfn = slot + 1 + Cardinality(Rest)]}

\* PushFrontSlotAllocInfo: the allocation moves to the next slot and the others, in
\* order, to the slots that follow it.
PushFront(a) ==
    LET Place(b) == Cardinality({c \in Rest : c.sfn < b.sfn})
    IN  {[a EXCEPT !.sfn = slot + 1]}
        \union {[b EXCEPT !.sfn = slot + 2 + Place(b)] : b \in Rest}

\* CallMacForSlotIndication, for a pattern of flexible slots: an uplink allocation, then
\* a downlink one, which has control always.
CallMac ==
    /\ calls' = calls + 1
    /\ \E ulData \in {"none", "srs", "data"}, dlData \in {"none", "part", "full"} :
         LET up == [Dummy EXCEPT !.sfn = slot + N2Delay + Latency, !.ul = {calls + 1},
                                 !.ulData = ulData]
             down == [Dummy EXCEPT !.sfn = slot + Latency, !.dl = {calls + 1},
                                   !.ctrl = TRUE, !.dlData = dlData]
         IN  queue' = PushBack(PushBack(Rest, up), down)

-----------------------------------------------------------------------------
(* The grant.                                                              *)

ToNextSlot == Period - sinceStart

\* Mutant: what is left of this slot is not taken off.
SlotsGrantedUncut(t, toNext) == t \div Period

SlotsGranted(t, toNext) ==
    LET whole == (t - toNext) \div Period IN IF whole < 1 THEN 1 ELSE whole

\* How long a grant of t is made use of: to its end, or to the end of the slot that begins
\* in "toNext" if that is later.
Usable(t, toNext) == IF t < toNext + Period THEN toNext + Period ELSE t

\* The rest of ChannelAccessGranted(t), once t is known to last a slot, with "toNext" to
\* go to the next one.  There is no reservation signal in the first half second.
Granted(t, toNext) ==
    /\ t >= Period
    /\ lostTimer' = Period * SlotsGranted(t, toNext) - 1
    /\ reserveEvent' \in {reserveEvent, Micro}
    /\ grantLeft' = t /\ usableLeft' = Usable(t, toNext)

\* The answer comes later than the request: ChannelAccessGranted,
AccessGranted ==
    /\ asked
    /\ asked' = FALSE
    /\ \E t \in Grants : Granted(t, ToNextSlot)
    /\ status' = "GRANTED"
    /\ UNCHANGED <<slot, sinceStart, startDue, queue, air, calls, sent>>

\* Mutant: the state is not set back.
GrantTooShortStillRequested ==
    /\ asked
    /\ asked' = FALSE
    /\ \E t \in Grants : t < Period
    /\ UNCHANGED <<status, slot, sinceStart, startDue, lostTimer, reserveEvent, queue, air,
                   left, calls, sent>>

\* ChannelAccessGranted for less than a slot, which is ignored,
GrantTooShort ==
    /\ asked
    /\ asked' = FALSE
    /\ \E t \in Grants : t < Period
    /\ status' = "NONE"
    /\ UNCHANGED <<slot, sinceStart, startDue, lostTimer, reserveEvent, queue, air,
                   left, calls, sent>>

\* or the denial, whose callback is ChannelAccessLost.
AccessDenied ==
    /\ asked
    /\ asked' = FALSE
    /\ status' = "NONE"
    /\ UNCHANGED <<slot, sinceStart, startDue, lostTimer, reserveEvent, queue, air,
                   left, calls, sent>>

\* ChannelAccessLost, from the timer.
ChannelAccessLost ==
    /\ lostTimer = 0
    /\ lostTimer' = Off
    /\ status' = "NONE"
    /\ UNCHANGED <<slot, sinceStart, startDue, reserveEvent, queue, asked, air, left,
                   calls, sent>>

ReservationLength == Period - sinceStart - 1

\* DoSendReservationSignal: unless the radio sends, receives or finds the channel busy.
\* Between the end of a slot and the start of the next the length is negative; the
\* simulator refuses it, by an assertion, and nothing goes on the air.
DoSendReservationSignal ==
    /\ reserveEvent = 0
    /\ reserveEvent' = Off
    /\ \/ txLeft = 0 /\ ReservationLength >= 0 /\ reserveLeft' = ReservationLength
       \/ UNCHANGED reserveLeft
    /\ UNCHANGED <<status, slot, sinceStart, startDue, lostTimer, queue, asked, txLeft,
                   left, calls, sent>>

-----------------------------------------------------------------------------
(* StartSlot.                                                              *)

BeginSlot ==
    /\ startDue
    /\ startDue' = FALSE
    /\ sinceStart' = 0
    /\ UNCHANGED slot

\* DoStartSlot, in state GRANTED: an empty slot keeps the grant; one whose downlink data
\* ends long before the slot does will lose it.  What has neither data nor control
\* messages is not sent after all.
DoStartSlot ==
    IF Empty(Current)
    THEN status' = "GRANTED" /\ UNCHANGED <<txLeft, sent>>
    ELSE /\ status' = IF Current.dlData = "full" THEN "GRANTED" ELSE "TO_LOSE"
         /\ txLeft' \in {0} \union (IF Current.dlData = "full" THEN {Period - 1}
                                    ELSE IF Current.ctrl THEN {CtrlTime} ELSE {})
         /\ \E order \in [1 .. Cardinality(Current.dl) -> Current.dl] :
              /\ \A i, j \in DOMAIN order : i # j => order[i] # order[j]
              /\ sent' = sent \o order

HasUlDci ==
    /\ N2Delay > 0
    /\ \E a \in Rest : a.sfn = slot + N2Delay /\ (a.dlData # "none" \/ a.ulData # "none")

NeedsChannel ==
    Current.dlData # "none" \/ Current.ulData = "data" \/ Current.ctrl \/ HasUlDci

StartSlotGranted ==
    /\ BeginSlot
    /\ status = "GRANTED"
    /\ CallMac
    /\ DoStartSlot
    /\ UNCHANGED <<lostTimer, reserveEvent, asked, reserveLeft, left>>

\* RequestAccess grants at once: m_lastSlotStart is now.
StartSlotGrantedAtOnce ==
    /\ BeginSlot
    /\ status = "NONE"
    /\ NeedsChannel
    /\ \E t \in Grants : Granted(t, Period)
    /\ CallMac
    /\ DoStartSlot
    /\ UNCHANGED <<asked, reserveLeft>>

\* Mutant: the MAC is asked for a new slot all the same.
StartSlotWaitsButCallsMac ==
    /\ BeginSlot
    /\ status \in {"NONE", "REQUESTED"}
    /\ NeedsChannel
    /\ status' = "REQUESTED" /\ asked' = TRUE
    /\ calls' = calls + 1
    /\ queue' = PushBack(PushFront(Current),
                         [Dummy EXCEPT !.sfn = slot + Latency, !.dl = {calls + 1},
                                       !.ctrl = TRUE])
    /\ UNCHANGED <<lostTimer, reserveEvent, air, left, sent>>

\* The request stays open, or is denied, or granted for too short a time, at once; or it
\* was made before.  The allocation is queued back and the MAC is not called.
StartSlotWaits ==
    /\ BeginSlot
    /\ NeedsChannel
    /\ \/ status = "NONE" /\ status' = "REQUESTED" /\ asked' = TRUE
       \/ status = "NONE" /\ UNCHANGED <<status, asked>>
       \/ status = "REQUESTED" /\ UNCHANGED <<status, asked>>
    /\ queue' = PushFront(Current)
    /\ UNCHANGED <<lostTimer, reserveEvent, air, left, calls, sent>>

\* Nothing to send: whatever uplink control there is needs no channel.
StartSlotEmpty ==
    /\ BeginSlot
    /\ status \in {"NONE", "REQUESTED"}
    /\ ~NeedsChannel
    /\ CallMac
    /\ UNCHANGED <<status, lostTimer, reserveEvent, asked, air, left, sent>>

\* Mutant: the timer of the grant that is given up keeps running.
EndSlotKeepsTimer ==
    /\ sinceStart = Period /\ ~startDue
    /\ slot < MaxSlot
    /\ startDue' = TRUE
    /\ slot' = slot + 1
    /\ status' = IF status = "TO_LOSE" THEN "NONE" ELSE status
    /\ UNCHANGED <<sinceStart, lostTimer, reserveEvent, queue, asked, air, left,
                   calls, sent>>

\* EndSlot: a grant that the slot did not fill is given up.
EndSlot ==
    /\ sinceStart = Period /\ ~startDue
    /\ slot < MaxSlot
    /\ startDue' = TRUE
    /\ slot' = slot + 1
    /\ IF status = "TO_LOSE"
       THEN status' = "NONE" /\ lostTimer' = Off
       ELSE UNCHANGED <<status, lostTimer>>
    /\ UNCHANGED <<sinceStart, reserveEvent, queue, asked, air, left, calls, sent>>

-----------------------------------------------------------------------------

Countdown(e) == IF e = Off THEN Off ELSE e - 1
Less(n) == IF n = 0 THEN 0 ELSE n - 1

Tick ==
    /\ ~startDue /\ sinceStart < Period
    /\ lostTimer # 0 /\ reserveEvent # 0
    /\ sinceStart' = sinceStart + 1
    /\ lostTimer' = Countdown(lostTimer)
    /\ reserveEvent' = Countdown(reserveEvent)
    /\ txLeft' = Less(txLeft)
    /\ reserveLeft' = Less(reserveLeft)
    /\ grantLeft' = Less(grantLeft) /\ usableLeft' = Less(usableLeft)
    /\ UNCHANGED <<status, slot, startDue, queue, asked, calls, sent>>

StartSlot ==
    \/ StartSlotGranted
    \/ StartSlotGrantedAtOnce
    \/ StartSlotWaits
    \/ StartSlotEmpty

Answer ==
    \/ AccessGranted
    \/ GrantTooShort
    \/ AccessDenied

Next ==
    \/ StartSlot
    \/ EndSlot
    \/ Answer
    \/ ChannelAccessLost
    \/ DoSendReservationSignal
    \/ Tick

Spec == Init /\ [][Next]_vars

=============================================================================
