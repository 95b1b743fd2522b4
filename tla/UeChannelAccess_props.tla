------------------------ MODULE UeChannelAccess_props ------------------------
(***************************************************************************)
(* What makes the UE's channel access correct, whichever manager it has.   *)
(***************************************************************************)
EXTENDS UeChannelAccess

\* The UE never asks an on-off manager that already holds its request (NS_ASSERT of
\* NrOnOffAccessManager::RequestAccess), the defer time of Cat2 never ends outside
\* WAIT_FOR_DEFER (NS_ABORT_MSG), and no request is scheduled for the past.
ManagerAssertionsHold ==
    /\ kind = "OnOff" /\ lbtEvent = 0 => ~call
    /\ kind = "Cat2" /\ deferEvent # Off => state = "WAIT_FOR_DEFER"
    /\ lbtEvent \in Nat \union {Off}

\* A request that was not answered does not outlive the uplink control symbol it was made
\* for, although the answer may come in the same instant.
RequestsEndAtUlCtrl ==
    call \/ grantRequested =>
        /\ Pattern[index].type # "DL"
        /\ pos \in Period - Symbol - Lead .. Period - Symbol

\* Cat2 holds the channel as granted only while it has been idle for a whole defer time,
\* whatever was sent, received or heard since the request.
GrantedMeansIdle == state = "TXOP_GRANTED" => idleFor >= Defer

\* What ChannelAccessGranted says of the grant: "That will be granted only till the end of
\* the slot" (nr-ue-phy.cc:168), so that every slot has its own request.  It outlives the
\* slot, as nothing but UlCtrl with messages, an SRS or a denial ends it: as an invariant of
\* MC_UeChannelAccess.cfg, with Kinds = {"Cat2"}, TLC finds this violated.
GrantEndsWithSlot == Happens("StartSlot") => status # "GRANTED"

\* Control messages are sent some day, if others are heard now and then only, and if the
\* data of some slot does not end where its length in whole microseconds hides it.
FeedbackSent == ctrl ~> ~ctrl

=============================================================================
