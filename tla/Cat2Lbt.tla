------------------------------- MODULE Cat2Lbt -------------------------------
(***************************************************************************)
(* NrCat2LbtAccessManager (nr-u/model/nr-lbt-access-manager.cc), the       *)
(* listen-before-talk without a backoff: a request is granted after one    *)
(* idle defer time, and denied as soon as the channel is busy.             *)
(*                                                                         *)
(* These are the operations of a manager another module owns.  "status" is *)
(* what its callbacks set, m_channelStatus of that user.  Times are        *)
(* relative to now, as in LbtAccess.                                       *)
(***************************************************************************)
EXTENDS Integers

CONSTANTS Defer             \* m_deferTime, the attribute Cat2DeferTime

VARIABLES
    state,          \* m_state
    grantRequested, \* m_grantRequested
    idleFor,        \* now - m_lastBusyTime; negative while the channel is busy
    deferEvent,     \* m_waitForDeferEventId
    busyEvent,      \* m_waitForBusyEventId
    status          \* the user's m_channelStatus

vars == <<state, grantRequested, idleFor, deferEvent, busyEvent>>

Off == -1

Init ==
    /\ state = "IDLE" /\ grantRequested = FALSE
    /\ idleFor = 0
    /\ deferEvent = Off /\ busyEvent = Off

\* SetGrant: the callbacks run, then the state is reset.
SetGrant ==
    /\ state' = "TXOP_GRANTED"
    /\ grantRequested' = FALSE
    /\ status' = "GRANTED"

NotifyAccessDenied == grantRequested' = FALSE /\ status' = "NONE"

\* Mutant: the end of the busy period is enough.
LongIdleNow == idleFor >= 0

LongIdle == idleFor >= Defer

RequestAccess ==
    \/ grantRequested /\ UNCHANGED <<vars, status>>
    \/ /\ ~grantRequested /\ LongIdle
       /\ SetGrant
       /\ UNCHANGED <<idleFor, deferEvent, busyEvent>>
    \/ /\ ~grantRequested /\ ~LongIdle /\ state = "IDLE"
       /\ grantRequested' = TRUE
       /\ deferEvent' = Defer - idleFor
       /\ state' = "WAIT_FOR_DEFER"
       /\ UNCHANGED <<idleFor, busyEvent, status>>
    \/ /\ ~grantRequested /\ ~LongIdle /\ state # "IDLE"
       /\ NotifyAccessDenied
       /\ UNCHANGED <<state, idleFor, deferEvent, busyEvent>>

\* In any other state the program ends here, in NS_ABORT_MSG.
RequestAccessAfterDefer ==
    /\ deferEvent = 0
    /\ state = "WAIT_FOR_DEFER"
    /\ SetGrant
    /\ deferEvent' = Off
    /\ UNCHANGED <<idleFor, busyEvent>>

Longer(d) == IF -d < idleFor THEN -d ELSE idleFor

\* TransitionToBusy(d).  What it does to the user's status is AfterBusy.
TransitionToBusy(d) ==
    \/ /\ state # "BUSY"
       /\ state' = "BUSY"
       /\ idleFor' = -d
       /\ busyEvent' = d
       /\ deferEvent' = IF state = "WAIT_FOR_DEFER" THEN Off ELSE deferEvent
       /\ grantRequested' = (state # "WAIT_FOR_DEFER" /\ grantRequested)
    \/ /\ state = "BUSY"
       /\ idleFor' = Longer(d)
       /\ busyEvent' = IF busyEvent = Off /\ grantRequested THEN -idleFor' ELSE busyEvent
       /\ UNCHANGED <<state, deferEvent, grantRequested>>

\* A wait that is cut short is denied.
AfterBusy == IF state = "WAIT_FOR_DEFER" THEN "NONE" ELSE status

TransitionFromBusy ==
    /\ busyEvent = 0
    /\ \/ /\ idleFor < 0
          /\ busyEvent' = -idleFor
          /\ state' = "BUSY" /\ UNCHANGED deferEvent
       \/ /\ idleFor >= 0 /\ grantRequested
          /\ busyEvent' = Off
          /\ state' = "WAIT_FOR_DEFER" /\ deferEvent' = Defer
       \/ /\ idleFor >= 0 /\ ~grantRequested
          /\ busyEvent' = Off
          /\ state' = "IDLE" /\ UNCHANGED deferEvent
    /\ UNCHANGED <<grantRequested, idleFor, status>>

\* Cancel: nothing that is scheduled is cancelled.
Cancel == grantRequested' = FALSE /\ UNCHANGED <<state, idleFor, deferEvent, busyEvent>>

Due == deferEvent = 0 \/ busyEvent = 0

Countdown(e) == IF e = Off THEN Off ELSE e - 1

Tick ==
    /\ ~Due
    /\ idleFor' = IF idleFor < Defer THEN idleFor + 1 ELSE idleFor
    /\ deferEvent' = Countdown(deferEvent)
    /\ busyEvent' = Countdown(busyEvent)
    /\ UNCHANGED <<state, grantRequested>>

=============================================================================
