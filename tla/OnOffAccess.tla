----------------------------- MODULE OnOffAccess -----------------------------
(***************************************************************************)
(* NrOnOffAccessManager (nr-u/model/nr-on-off-access-manager.cc): a duty   *)
(* cycle of equal ON and OFF periods.  A request made in an OFF period is  *)
(* granted when it ends.                                                   *)
(*                                                                         *)
(* These are the operations of a manager another module owns; "status" is  *)
(* what its callback sets, m_channelStatus of that user.                   *)
(***************************************************************************)
EXTENDS Integers

CONSTANTS ChangeTime        \* m_changeTime

VARIABLES
    grant,          \* m_grant
    call,           \* m_call
    changeEvent,    \* m_changeStateEvent, a countdown: ShutDown if m_grant, else Start
    status          \* the user's m_channelStatus

vars == <<grant, call, changeEvent>>

\* The constructor schedules Start for time 0.
Init == grant = FALSE /\ call = FALSE /\ changeEvent = 0

\* Start, when its time has come.
Start ==
    /\ changeEvent = 0 /\ ~grant
    /\ grant' = TRUE
    /\ changeEvent' = ChangeTime
    /\ status' = IF call THEN "GRANTED" ELSE status
    /\ call' = FALSE

ShutDown ==
    /\ changeEvent = 0 /\ grant
    /\ grant' = FALSE
    /\ changeEvent' = ChangeTime
    /\ UNCHANGED <<call, status>>

\* In an ON period Start is called at once, which takes m_call back.
RequestAccess ==
    /\ call' = ~grant
    /\ status' = IF grant THEN "GRANTED" ELSE status
    /\ UNCHANGED <<grant, changeEvent>>

Cancel == call' = FALSE /\ UNCHANGED <<grant, changeEvent>>

Due == changeEvent = 0

Tick == ~Due /\ changeEvent' = changeEvent - 1 /\ UNCHANGED <<grant, call>>

=============================================================================
