------------------------------ MODULE LbtAccess ------------------------------
(***************************************************************************)
(* NrLbtAccessManager (nr-u/model/nr-lbt-access-manager.cc), the listen-   *)
(* before-talk state machine that Cat3 and Cat4 share: wait until the      *)
(* channel is idle, defer, count down a random backoff, grant.             *)
(*                                                                         *)
(* Time is counted in ticks and kept relative to now.  A scheduled event   *)
(* is a countdown: Off when none is pending, due at 0, and time does not   *)
(* pass an event that is due.  The order of the events of one instant is   *)
(* left open, as the events of other nodes come in between.  An event that *)
(* is scheduled over a pending one leaves that one running with no id to   *)
(* cancel it: it becomes a stray.                                          *)
(***************************************************************************)
EXTENDS Integers, FiniteSets, Sequences

CONSTANTS
    Defers,         \* values m_deferTime may take: the first from the attribute,
                    \* the others from the learning agent (SetDeferTime)
    Slots,          \* likewise for m_slotTime
    Draws,          \* values GetBackoffSlots() may return
    Durations,      \* durations of TransitionToBusy
    MaxBusy,        \* bound: calls of TransitionToBusy from the radio
    MaxCancels,     \* bound: calls of Cancel(), as NrUePhy makes them, with a request
                    \* pending
    InitStates,     \* m_state and m_backoffCount have no initializer; these are
    InitBackoffs    \* the values the memory may hold

ASSUME LbtAssumption ==
    /\ Defers \subseteq Nat \ {0} /\ Defers # {}
    /\ Slots \subseteq Nat \ {0} /\ Slots # {}
    /\ Draws \subseteq Nat
    /\ Durations \subseteq Nat \ {0}
    /\ MaxBusy \in Nat
    /\ MaxCancels \in Nat
    /\ InitStates \subseteq {"IDLE", "BUSY", "WAIT_FOR_DEFER", "WAIT_FOR_BACKOFF",
                             "TXOP_GRANTED"}
    /\ InitBackoffs \subseteq Nat

VARIABLES
    deferTime,      \* m_deferTime
    slotTime,       \* m_slotTime
    state,          \* m_state
    grantRequested, \* m_grantRequested
    backoffCount,   \* m_backoffCount
    idleFor,        \* now - m_lastBusyTime; negative while the channel is busy
    backoffFor,     \* now - m_backoffStartTime, in WAIT_FOR_BACKOFF
    deferEvent,     \* m_waitForDeferEventId
    backoffEvent,   \* m_waitForBackoffEventId
    busyEvent,      \* m_waitForBusyEventId
    strays,         \* pending events whose id has been overwritten
    sensing,        \* the pending force_sensing_navid events
    busyCalls,      \* calls of TransitionToBusy so far
    drawn,          \* history: the backoff drawn for the last request
    served,         \* history: idle ticks spent in backoff for it
    cuts,           \* history: times its backoff was suspended
    waitedFor,      \* history: the defer time in force when the last wait began
    changed,        \* history: whether the agent has changed a parameter
    cancels         \* requests cancelled so far

params == <<deferTime, slotTime>>
events == <<deferEvent, backoffEvent, busyEvent, strays>>
counts == <<drawn, served, cuts>>
history == <<counts, waitedFor, changed, cancels>>
vars == <<deferTime, slotTime, state, grantRequested, backoffCount, idleFor, backoffFor,
          deferEvent, backoffEvent, busyEvent, strays, sensing, busyCalls, drawn, served,
          cuts, waitedFor, changed, cancels>>

Off == -1

\* The scheduled functions an id is kept of.
Kinds == {"Defer", "Backoff", "Busy"}

States == {"IDLE", "BUSY", "WAIT_FOR_DEFER", "WAIT_FOR_BACKOFF", "TXOP_GRANTED"}

TypeOK ==
    /\ deferTime \in Defers
    /\ slotTime \in Slots
    /\ state \in States
    /\ grantRequested \in BOOLEAN
    /\ backoffCount \in Nat
    /\ idleFor \in Int
    /\ backoffFor \in Nat
    /\ deferEvent \in Nat \union {Off}
    /\ backoffEvent \in Nat \union {Off}
    /\ busyEvent \in Nat \union {Off}
    /\ strays \in Seq([kind : Kinds, at : Nat])
    /\ sensing \in SUBSET Nat
    /\ busyCalls \in 0 .. MaxBusy
    /\ drawn \in Nat /\ served \in Nat /\ cuts \in Nat
    /\ waitedFor \in Defers
    /\ changed \in BOOLEAN
    /\ cancels \in 0 .. MaxCancels

\* m_lastBusyTime is 0 and so is the time.
Init ==
    /\ deferTime \in Defers
    /\ slotTime \in Slots
    /\ state \in InitStates
    /\ grantRequested = FALSE
    /\ backoffCount \in InitBackoffs
    /\ idleFor = 0
    /\ backoffFor = 0
    /\ deferEvent = Off /\ backoffEvent = Off /\ busyEvent = Off /\ strays = <<>>
    /\ sensing = {}
    /\ busyCalls = 0
    /\ drawn = 0 /\ served = 0 /\ cuts = 0
    /\ waitedFor = deferTime
    /\ changed = FALSE
    /\ cancels = 0

-----------------------------------------------------------------------------

\* Mutant: the request outlives its grant.
SetGrantKeepsRequest == state' = "TXOP_GRANTED" /\ UNCHANGED grantRequested

\* SetGrant: the callbacks run, then the state is reset.
SetGrant ==
    /\ state' = "TXOP_GRANTED"
    /\ grantRequested' = FALSE

\* Mutant: the slot that just began is taken off too.
SlotsElapsedPlusOne == backoffFor \div slotTime + 1

\* How many slots the while loop of TransitionToBusy takes off: one for every full and
\* fractional slot since the backoff started.
SlotsElapsed == (backoffFor + slotTime - 1) \div slotTime

\* Mutant: the loop does not test m_backoffCount, which wraps.
BackoffLeftWraps(count) == (count - SlotsElapsed) % 2^16

\* What is left of a backoff of "count" slots.
BackoffLeft(count) == IF SlotsElapsed < count THEN count - SlotsElapsed ELSE 0

\* The strays once an event has been scheduled over one that is due in e.
Overwritten(kind, e, others) ==
    IF e = Off THEN others ELSE Append(others, [kind |-> kind, at |-> e])

\* What is left pending of a kind when one of its events runs: the one the id knows,
\* due in e, or a stray.
Taken(kind, e) ==
    {[own |-> Off, others |-> strays] : i \in {0} \intersect {e}}
        \union {[own |-> e, others |-> SubSeq(strays, 1, i - 1)
                                          \o SubSeq(strays, i + 1, Len(strays))] :
                    i \in {j \in DOMAIN strays : strays[j] = [kind |-> kind, at |-> 0]}}

\* Mutant: it is not cancelled.
CancelledNever(wait, event) == event

\* The event of a wait that ends, if the state is that wait.
Cancelled(wait, event) == IF state = wait THEN Off ELSE event

\* Mutant: the end of the busy period is awaited only if somebody has asked.
TransitionToBusyIfAsked(d, requested, count) ==
    /\ state' = "BUSY"
    /\ idleFor' = IF state = "BUSY" /\ idleFor < -d THEN idleFor ELSE -d
    /\ busyEvent' = IF busyEvent = Off /\ requested THEN -idleFor' ELSE busyEvent
    /\ UNCHANGED strays
    /\ deferEvent' = Cancelled("WAIT_FOR_DEFER", deferEvent)
    /\ backoffEvent' = Cancelled("WAIT_FOR_BACKOFF", backoffEvent)
    /\ backoffCount' = IF state = "WAIT_FOR_BACKOFF" THEN BackoffLeft(count) ELSE count

\* TransitionToBusy(d), called when m_grantRequested is "requested" and m_backoffCount
\* is "count".
TransitionToBusy(d, requested, count) ==
    \/ /\ state # "BUSY"
       /\ state' = "BUSY"
       /\ idleFor' = -d
       /\ busyEvent' = d /\ strays' = Overwritten("Busy", busyEvent, strays)
       /\ deferEvent' = Cancelled("WAIT_FOR_DEFER", deferEvent)
       /\ backoffEvent' = Cancelled("WAIT_FOR_BACKOFF", backoffEvent)
       /\ backoffCount' = IF state = "WAIT_FOR_BACKOFF" THEN BackoffLeft(count) ELSE count
    \/ /\ state = "BUSY"
       /\ idleFor' = IF -d < idleFor THEN -d ELSE idleFor
       /\ busyEvent' = IF busyEvent = Off /\ requested THEN -idleFor' ELSE busyEvent
       /\ backoffCount' = count
       /\ UNCHANGED <<state, deferEvent, backoffEvent, strays>>

-----------------------------------------------------------------------------
(* RequestAccess.  A request while one is pending is ignored.              *)

\* The channel has been idle for the defer time.
RequestGranted ==
    /\ ~grantRequested
    /\ idleFor >= deferTime
    /\ SetGrant
    /\ UNCHANGED <<params, backoffCount, idleFor, backoffFor, events, sensing, busyCalls,
                   history>>

\* It has not: draw a backoff, and wait for the rest of the defer time, or for the end
\* of the busy period, or else for whatever is pending.
RequestWaits ==
    /\ ~grantRequested
    /\ idleFor < deferTime
    /\ grantRequested' = TRUE
    /\ \E n \in Draws :
         /\ drawn' = n /\ served' = 0 /\ cuts' = 0
         /\ \/ /\ state = "IDLE"
               /\ state' = "WAIT_FOR_DEFER"
               /\ deferEvent' = deferTime - idleFor
               /\ strays' = Overwritten("Defer", deferEvent, strays)
               /\ waitedFor' = deferTime
               /\ backoffCount' = n
               /\ UNCHANGED <<idleFor, backoffEvent, busyEvent>>
            \/ /\ state # "IDLE" /\ idleFor < 0
               /\ TransitionToBusy(-idleFor, TRUE, n)
               /\ UNCHANGED waitedFor
            \/ /\ state # "IDLE" /\ idleFor >= 0
               /\ backoffCount' = n
               /\ UNCHANGED <<state, idleFor, events, waitedFor>>
    /\ UNCHANGED <<params, backoffFor, sensing, busyCalls, changed, cancels>>

\* Cancel: nothing that is scheduled is cancelled.
Cancel ==
    /\ cancels < MaxCancels
    /\ grantRequested
    /\ grantRequested' = FALSE
    /\ cancels' = cancels + 1
    /\ UNCHANGED <<params, state, backoffCount, idleFor, backoffFor, events, sensing,
                   busyCalls, counts, waitedFor, changed>>

-----------------------------------------------------------------------------
(* The radio: NrSpectrumPhy's ChannelOccupied trace, for the node's own    *)
(* transmissions as for those of others.                                   *)

ChannelOccupied(d) ==
    /\ busyCalls < MaxBusy
    /\ busyCalls' = busyCalls + 1
    /\ TransitionToBusy(d, grantRequested, backoffCount)
    /\ cuts' = IF state = "WAIT_FOR_BACKOFF" THEN cuts + 1 ELSE cuts
    /\ UNCHANGED <<params, grantRequested, backoffFor, drawn, served, waitedFor, changed,
                   cancels>>

GoesBusy == \E d \in Durations : ChannelOccupied(d) /\ UNCHANGED sensing

\* force_sensing_navid: while in backoff it asks the radio to measure the channel,
\* which may find it busy, and schedules itself again; elsewhere it dies out.
ForceSensing ==
    /\ 0 \in sensing
    /\ IF state = "WAIT_FOR_BACKOFF"
       THEN /\ sensing' = (sensing \ {0}) \union {slotTime}
            /\ \/ \E d \in Durations : ChannelOccupied(d)
               \/ UNCHANGED <<params, state, grantRequested, backoffCount, idleFor,
                              backoffFor, events, busyCalls, history>>
       ELSE /\ sensing' = sensing \ {0}
            /\ UNCHANGED <<params, state, grantRequested, backoffCount, idleFor,
                           backoffFor, events, busyCalls, history>>

-----------------------------------------------------------------------------
(* The scheduled events.                                                   *)

\* Mutant: the wait is for the shortest defer time there is, not for the one in force.
TransitionFromBusyShortDefer ==
    /\ busyEvent = 0
    /\ \/ /\ idleFor < 0
          /\ busyEvent' = -idleFor
          /\ UNCHANGED <<state, deferEvent, waitedFor>>
       \/ /\ idleFor >= 0
          /\ busyEvent' = Off
          /\ IF grantRequested
             THEN /\ deferEvent' = CHOOSE d \in Defers : \A e \in Defers : d <= e
                  /\ waitedFor' = deferTime
                  /\ state' = "WAIT_FOR_DEFER"
             ELSE state' = "IDLE" /\ UNCHANGED <<deferEvent, waitedFor>>
    /\ UNCHANGED <<params, grantRequested, backoffCount, idleFor, backoffFor,
                   backoffEvent, strays, sensing, busyCalls, counts, changed, cancels>>

\* Whatever the state has become since it was scheduled.
TransitionFromBusy ==
    /\ \E busy \in Taken("Busy", busyEvent) :
         \/ /\ idleFor < 0
            /\ busyEvent' = -idleFor
            /\ strays' = Overwritten("Busy", busy.own, busy.others)
            /\ state' = "BUSY"
            /\ UNCHANGED <<deferEvent, waitedFor>>
         \/ /\ idleFor >= 0 /\ grantRequested
            /\ busyEvent' = busy.own
            /\ deferEvent' = deferTime /\ waitedFor' = deferTime
            /\ strays' = Overwritten("Defer", deferEvent, busy.others)
            /\ state' = "WAIT_FOR_DEFER"
         \/ /\ idleFor >= 0 /\ ~grantRequested
            /\ busyEvent' = busy.own /\ strays' = busy.others
            /\ state' = "IDLE"
            /\ UNCHANGED <<deferEvent, waitedFor>>
    /\ UNCHANGED <<params, grantRequested, backoffCount, idleFor, backoffFor,
                   backoffEvent, sensing, busyCalls, counts, changed, cancels>>

RequestAccessAfterDefer ==
    /\ \E defer \in Taken("Defer", deferEvent) :
         \/ /\ state = "WAIT_FOR_DEFER" /\ backoffCount = 0
            /\ SetGrant
            /\ deferEvent' = defer.own /\ strays' = defer.others
            /\ UNCHANGED <<backoffFor, backoffEvent, sensing, waitedFor>>
         \/ /\ state = "WAIT_FOR_DEFER" /\ backoffCount > 0
            /\ backoffFor' = 0
            /\ backoffEvent' = slotTime * backoffCount
            /\ state' = "WAIT_FOR_BACKOFF"
            /\ sensing' = sensing \union {slotTime}
            /\ deferEvent' = defer.own
            /\ strays' = Overwritten("Backoff", backoffEvent, defer.others)
            /\ UNCHANGED <<grantRequested, waitedFor>>
         \/ /\ state # "WAIT_FOR_DEFER"
            /\ deferEvent' = deferTime /\ waitedFor' = deferTime
            /\ strays' = Overwritten("Defer", defer.own, defer.others)
            /\ state' = "WAIT_FOR_DEFER"
            /\ UNCHANGED <<grantRequested, backoffFor, backoffEvent, sensing>>
    /\ UNCHANGED <<params, backoffCount, idleFor, busyEvent, busyCalls, counts, changed,
                   cancels>>

\* In any other state the program ends here, in NS_FATAL_ERROR ("Unreachable?").
RequestAccessAfterBackoff ==
    /\ \E backoff \in Taken("Backoff", backoffEvent) :
         /\ state = "WAIT_FOR_BACKOFF"
         /\ SetGrant
         /\ backoffCount' = 0
         /\ backoffEvent' = backoff.own /\ strays' = backoff.others
    /\ UNCHANGED <<params, idleFor, backoffFor, deferEvent, busyEvent, sensing, busyCalls,
                   history>>

\* SetDeferTime and SetSlotTime, from NrSingleBwpSetup, at any moment.
ChangeParameters ==
    /\ deferTime' \in Defers
    /\ slotTime' \in Slots
    /\ changed' = (changed \/ params' # params)
    /\ UNCHANGED <<state, grantRequested, backoffCount, idleFor, backoffFor, events,
                   sensing, busyCalls, counts, waitedFor, cancels>>

-----------------------------------------------------------------------------

Countdown(e) == IF e = Off THEN Off ELSE e - 1

\* Time passes.  How long ago the channel was busy matters up to the longest defer.
Tick ==
    /\ deferEvent # 0 /\ backoffEvent # 0 /\ busyEvent # 0 /\ 0 \notin sensing
    /\ \A i \in DOMAIN strays : strays[i].at # 0
    /\ idleFor' = IF \E d \in Defers : idleFor < d THEN idleFor + 1 ELSE idleFor
    /\ deferEvent' = Countdown(deferEvent)
    /\ backoffEvent' = Countdown(backoffEvent)
    /\ busyEvent' = Countdown(busyEvent)
    /\ strays' = [i \in DOMAIN strays |-> [strays[i] EXCEPT !.at = @ - 1]]
    /\ sensing' = {e - 1 : e \in sensing}
    /\ IF state = "WAIT_FOR_BACKOFF"
       THEN backoffFor' = backoffFor + 1 /\ served' = served + 1
       ELSE UNCHANGED <<backoffFor, served>>
    /\ UNCHANGED <<params, state, grantRequested, backoffCount, busyCalls, drawn, cuts,
                   waitedFor, changed, cancels>>

Scheduled ==
    \/ TransitionFromBusy
    \/ RequestAccessAfterDefer
    \/ RequestAccessAfterBackoff
    \/ ForceSensing

Next ==
    \/ RequestGranted
    \/ RequestWaits
    \/ Cancel
    \/ GoesBusy
    \/ Scheduled
    \/ ChangeParameters
    \/ Tick

SafeSpec == Init /\ [][Next]_vars

\* The simulator runs what is due and then moves the clock on.
Fairness == WF_vars(Scheduled \/ Tick)

Spec == SafeSpec /\ Fairness

=============================================================================
