----------------------- MODULE GnbChannelAccess_props -----------------------
(***************************************************************************)
(* What makes the gNB's channel access correct.                            *)
(***************************************************************************)
EXTENDS GnbChannelAccess

\* The assertions of StartSlot and ChannelAccessGranted (nr-gnb-phy.cc:678 and 1935): no
\* slot begins while the grant is about to be given up, and when a grant comes the timer
\* of the one before it has stopped, whatever order the two timers, the end of the slot
\* and the answers took.
AssertionsHold ==
    /\ startDue => status # "TO_LOSE"
    /\ asked => lostTimer = Off

\* The gNB waits for an answer exactly while the access manager owes one.  Otherwise it
\* would wait for ever, or be granted a channel it did not ask for.
AgreesWithManager == status = "REQUESTED" <=> asked

\* Nothing the gNB has on the air, downlink or reservation signal, outlasts the grant it
\* stands on, or, where that ends before the slot after the one it came in does
\* (ChannelAccessGranted counts less than one slot as one), that slot: although a grant
\* begins anywhere in a slot and its timer, rounded down, ends in the middle of one.
OnAirWithinUse == txLeft <= usableLeft /\ reserveLeft <= usableLeft

\* What NrLbtAccessManager says of the duration it grants, "the maximum channel
\* occupancy time": the gNB is off the air by its end.  It is not
\* where the grant is shorter than two slots: as an invariant of MC_GnbChannelAccess.cfg,
\* with Grants = {5}, TLC finds this violated.
OnAirWithinGrant == txLeft <= grantLeft /\ reserveLeft <= grantLeft

\* A reservation signal ends before the slot it is sent in, which need not be the slot in
\* which the channel was granted.
ReservationEndsWithSlot == reserveLeft > 0 => sinceStart + reserveLeft < Period

\* The downlink allocations of the MAC are put on the air each once and in the MAC's
\* order, however often the queue is pushed back.
SentOnceInOrder == \A i \in 1 .. Len(sent) : sent[i] = i

\* Pushing the queue back moves no allocation onto a slot for which the MAC allocates
\* again; and what Merge asserts: an allocation of no type, the dummy of a slot that is
\* pushed back, is taken off before the MAC may add to it.
NotDoubleBooked ==
    \A a \in queue :
        /\ Cardinality(a.dl) <= 1 /\ Cardinality(a.ul) <= 1
        /\ (a.dl = {} /\ a.ul = {}) => a.sfn <= slot + 1

\* The queue does not grow while the channel is refused: it never reaches further ahead
\* than the MAC allocates.
QueueStaysShort == \A a \in queue : a.sfn <= slot + Latency + N2Delay

=============================================================================
