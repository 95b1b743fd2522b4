--------------------------- MODULE LbtAccess_proof ---------------------------
(***************************************************************************)
(* Proofs about the LBT state machine, for any defer times, slots, draws   *)
(* and busy durations, the defer and slot times changing at any moment,    *)
(* and about the contention window of its Cat4 variety, for all            *)
(* parameters.                                                             *)
(*                                                                         *)
(* The state machine needs one thing the code leaves to chance: the        *)
(* uninitialized members start as IDLE and 0.  Until a request is          *)
(* cancelled the state is as Inv says; from then on only the types are     *)
(* known.                                                                  *)
(***************************************************************************)
EXTENDS LbtAccess_props, Cat4Cw, SequenceTheorems, TLAPS

ProperUse ==
    /\ InitStates = {"IDLE"}
    /\ InitBackoffs = {0}

\* What the state says about the request.
RequestInv ==
    /\ WaitsOnRequest
    /\ state = "IDLE" => ~grantRequested
    /\ ~grantRequested => backoffCount = 0

\* What the state says about the channel.
ChannelInv ==
    /\ state = "BUSY" => idleFor <= -busyEvent
    /\ state # "BUSY" => idleFor >= 0
    /\ state = "WAIT_FOR_DEFER" => idleFor + deferEvent >= waitedFor
    /\ state = "WAIT_FOR_BACKOFF" => idleFor >= waitedFor

\* No event is scheduled over a pending one.
NoStrays == strays = <<>>

Promise == EventsMatchState /\ NoStrays /\ RequestInv /\ ChannelInv

Inv == TypeOK /\ Promise

Good == TypeOK /\ (cancelled \/ Inv)

LEMMA SlotsTimesCount == ASSUME TypeOK PROVE slotTime * backoffCount \in Nat
<1>1. \A a, b \in Nat : a * b \in Nat
  OBVIOUS
<1> QED
  BY <1>1, LbtAssumption DEF TypeOK

LEMMA SlotsElapsedNat == ASSUME TypeOK PROVE SlotsElapsed \in Nat
<1>1. ASSUME NEW a \in Nat, NEW b \in Nat \ {0} PROVE (a + b - 1) \div b \in Nat
  OBVIOUS
<1>2. slotTime \in Nat \ {0}
  BY LbtAssumption DEF TypeOK
<1> QED
  BY <1>1, <1>2 DEF TypeOK, SlotsElapsed

StrayEvents == Seq([kind : Kinds, at : Nat])

LEMMA OverwrittenTypes ==
    ASSUME NEW kind \in Kinds, NEW e \in Nat \union {Off}, NEW others \in StrayEvents
    PROVE  Overwritten(kind, e, others) \in StrayEvents
<1>1. CASE e = Off
  BY <1>1 DEF Overwritten
<1>2. CASE e # Off
  <2>1. [kind |-> kind, at |-> e] \in [kind : Kinds, at : Nat]
    BY <1>2
  <2> QED
    BY <1>2, <2>1, AppendProperties DEF Overwritten, StrayEvents
<1> QED
  BY <1>1, <1>2

LEMMA TakenTypes ==
    ASSUME NEW kind, NEW e \in Nat \union {Off}, strays \in StrayEvents,
           NEW t \in Taken(kind, e)
    PROVE  t.own \in Nat \union {Off} /\ t.others \in StrayEvents
<1>1. CASE t = [own |-> Off, others |-> strays]
  BY <1>1
<1>2. CASE \E i \in DOMAIN strays :
             t = [own |-> e, others |-> SubSeq(strays, 1, i - 1)
                                          \o SubSeq(strays, i + 1, Len(strays))]
  <2>1. PICK i \in DOMAIN strays :
             t = [own |-> e, others |-> SubSeq(strays, 1, i - 1)
                                          \o SubSeq(strays, i + 1, Len(strays))]
    BY <1>2
  <2>2. Len(strays) \in Nat /\ i \in 1 .. Len(strays)
    BY LenProperties DEF StrayEvents
  <2> DEFINE Event == [kind : Kinds, at : Nat]
  <2>3. \A j \in 1 .. Len(strays) : strays[j] \in Event
    BY LenProperties DEF StrayEvents
  <2>4. StrayEvents = Seq(Event)
    BY DEF StrayEvents
  <2> HIDE DEF Event
  <2>5. SubSeq(strays, 1, i - 1) \in StrayEvents
    <3>1. \A j \in 1 .. i - 1 : strays[j] \in Event
      BY <2>2, <2>3
    <3> QED
      BY <2>2, <2>4, <3>1, SubSeqProperties
  <2>6. SubSeq(strays, i + 1, Len(strays)) \in StrayEvents
    <3>1. \A j \in i + 1 .. Len(strays) : strays[j] \in Event
      BY <2>2, <2>3
    <3> QED
      BY <2>2, <2>4, <3>1, SubSeqProperties
  <2> QED
    BY <2>1, <2>4, <2>5, <2>6, ConcatProperties
<1> QED
  BY <1>1, <1>2 DEF Taken

LEMMA CountedDownTypes ==
    ASSUME strays \in StrayEvents, \A i \in DOMAIN strays : strays[i].at # 0
    PROVE  [i \in DOMAIN strays |-> [strays[i] EXCEPT !.at = @ - 1]] \in StrayEvents
<1> DEFINE Event == [kind : Kinds, at : Nat]
<1>1. /\ Len(strays) \in Nat /\ DOMAIN strays = 1 .. Len(strays)
      /\ \A i \in 1 .. Len(strays) : strays[i] \in Event
  BY LenProperties DEF StrayEvents
<1>2. ASSUME NEW e \in Event, e.at # 0 PROVE [e EXCEPT !.at = @ - 1] \in Event
  BY <1>2
<1>3. StrayEvents = Seq(Event)
  BY DEF StrayEvents
<1> HIDE DEF Event
<1>4. \A i \in 1 .. Len(strays) : [strays[i] EXCEPT !.at = @ - 1] \in Event
  BY <1>1, <1>2
<1>5. [i \in DOMAIN strays |-> [strays[i] EXCEPT !.at = @ - 1]]
          \in [1 .. Len(strays) -> Event]
  BY <1>1, <1>4
<1> QED
  BY <1>1, <1>3, <1>5, SeqDef

\* With no strays about, the event that runs is the one the id knows.
LEMMA TakenIsOwn ==
    ASSUME NoStrays, NEW kind, NEW e, NEW t \in Taken(kind, e)
    PROVE  e = 0 /\ t.own = Off /\ t.others = <<>>
<1>1. DOMAIN strays = {}
  BY EmptySeq, LenProperties DEF NoStrays
<1> QED
  BY <1>1 DEF Taken, NoStrays

\* What TransitionToBusy leaves behind, from whatever state.
LEMMA TransitionToBusyTypes ==
    ASSUME TypeOK, NEW d \in Nat \ {0}, NEW r \in BOOLEAN, NEW n \in Nat,
           TransitionToBusy(d, r, n)
    PROVE  /\ state' = "BUSY"
           /\ deferEvent' \in Nat \union {Off}
           /\ backoffEvent' \in Nat \union {Off}
           /\ busyEvent' \in Nat \union {Off}
           /\ strays' \in StrayEvents
           /\ idleFor' \in Int
           /\ backoffCount' \in 0 .. n
<1>1. CASE state = "BUSY"
  BY <1>1 DEF TransitionToBusy, TypeOK, Off, StrayEvents
<1>2. CASE state # "BUSY"
  <2>1. strays' \in StrayEvents
    <3>1. strays' = Overwritten("Busy", busyEvent, strays)
      BY <1>2 DEF TransitionToBusy
    <3> QED
      BY <3>1, OverwrittenTypes DEF TypeOK, StrayEvents, Kinds
  <2> QED
    BY <1>2, <2>1, SlotsElapsedNat
       DEF TransitionToBusy, Cancelled, BackoffLeft, TypeOK, Off
<1> QED
  BY <1>1, <1>2

LEMMA AfterTransitionToBusy ==
    ASSUME Inv, NEW d \in Nat \ {0}, NEW r \in BOOLEAN, NEW n \in Nat,
           TransitionToBusy(d, r, n)
    PROVE  /\ state' = "BUSY"
           /\ deferEvent' = Off /\ backoffEvent' = Off /\ busyEvent' \in Nat
           /\ strays' = <<>>
           /\ idleFor' \in Int /\ idleFor' <= -busyEvent'
           /\ state # "WAIT_FOR_BACKOFF" => backoffCount' = n
<1> USE DEF Inv, Promise, TypeOK, EventsMatchState, NoStrays, ChannelInv, Off
<1>1. CASE state = "BUSY"
  BY <1>1 DEF TransitionToBusy
<1>2. CASE state # "BUSY"
  BY <1>2 DEF TransitionToBusy, Cancelled, Overwritten, States
<1> QED
  BY <1>1, <1>2

LEMMA ChannelOccupiedKeepsTypes ==
    ASSUME TypeOK, NEW d \in Durations, ChannelOccupied(d), sensing' \in SUBSET Nat
    PROVE  TypeOK' /\ backoffCount' <= backoffCount
<1>1. d \in Nat \ {0} /\ grantRequested \in BOOLEAN /\ backoffCount \in Nat
  BY LbtAssumption DEF TypeOK
<1>2. /\ TransitionToBusy(d, grantRequested, backoffCount)
      /\ busyCalls < MaxBusy /\ busyCalls' = busyCalls + 1
      /\ cuts' \in {cuts, cuts + 1}
      /\ UNCHANGED <<params, grantRequested, backoffFor, drawn, served, waitedFor, changed,
                     cancels>>
  BY DEF ChannelOccupied
<1>3. /\ state' = "BUSY"
      /\ deferEvent' \in Nat \union {Off}
      /\ backoffEvent' \in Nat \union {Off}
      /\ busyEvent' \in Nat \union {Off}
      /\ strays' \in StrayEvents
      /\ idleFor' \in Int
      /\ backoffCount' \in 0 .. backoffCount
  BY <1>1, <1>2, TransitionToBusyTypes
<1> QED
  BY <1>1, <1>2, <1>3, LbtAssumption DEF TypeOK, params, States, StrayEvents

LEMMA ChannelOccupiedKeepsInv ==
    ASSUME Inv, NEW d \in Durations, ChannelOccupied(d)
    PROVE  Promise'
<1>1. d \in Nat \ {0} /\ grantRequested \in BOOLEAN /\ backoffCount \in Nat
  BY LbtAssumption DEF Inv, TypeOK
<1>2. TransitionToBusy(d, grantRequested, backoffCount) /\ UNCHANGED grantRequested
  BY DEF ChannelOccupied
<1>3. /\ state' = "BUSY"
      /\ deferEvent' = Off /\ backoffEvent' = Off /\ busyEvent' \in Nat
      /\ strays' = <<>>
      /\ idleFor' \in Int /\ idleFor' <= -busyEvent'
      /\ state # "WAIT_FOR_BACKOFF" => backoffCount' = backoffCount
  BY <1>1, <1>2, AfterTransitionToBusy
<1>4. EventsMatchState' /\ NoStrays'
  BY <1>3 DEF EventsMatchState, NoStrays, Off
<1>5. ChannelInv'
  BY <1>3 DEF ChannelInv
<1>6. RequestInv'
  BY <1>1, <1>2, <1>3 DEF Inv, Promise, RequestInv, WaitsOnRequest
<1> QED
  BY <1>4, <1>5, <1>6 DEF Promise

\* The types hold whatever anybody does.
LEMMA TypesStep == TypeOK /\ [Next]_vars => TypeOK'
<1> SUFFICES ASSUME TypeOK, [Next]_vars PROVE TypeOK'
  OBVIOUS
<1> USE LbtAssumption DEF States, Off, TypeOK
<1>1. CASE RequestGranted
  BY <1>1 DEF RequestGranted, SetGrant, params, events, history, counts
<1>2. CASE RequestWaits
  <2>1. PICK n \in Draws :
          \/ /\ state = "IDLE"
             /\ state' = "WAIT_FOR_DEFER"
             /\ deferEvent' = deferTime - idleFor
             /\ strays' = Overwritten("Defer", deferEvent, strays)
             /\ waitedFor' = deferTime
             /\ backoffCount' = n
             /\ UNCHANGED <<idleFor, backoffEvent, busyEvent>>
          \/ /\ state # "IDLE" /\ idleFor < 0
             /\ TransitionToBusy(-idleFor, TRUE, n)
             /\ UNCHANGED waitedFor
          \/ /\ state # "IDLE" /\ idleFor >= 0
             /\ backoffCount' = n
             /\ UNCHANGED <<state, idleFor, events, waitedFor>>
    BY <1>2 DEF RequestWaits
  <2>2. /\ idleFor < deferTime
        /\ grantRequested' \in BOOLEAN
        /\ drawn' \in Nat /\ served' = 0 /\ cuts' = 0
        /\ UNCHANGED <<params, backoffFor, sensing, busyCalls, changed, cancels>>
    BY <1>2 DEF RequestWaits
  <2>3. CASE idleFor < 0 /\ TransitionToBusy(-idleFor, TRUE, n) /\ UNCHANGED waitedFor
    <3>1. -idleFor \in Nat \ {0} /\ n \in Nat /\ TRUE \in BOOLEAN
      BY <2>3
    <3>2. ASSUME NEW d \in Nat \ {0}, NEW r \in BOOLEAN, TransitionToBusy(d, r, n)
          PROVE  /\ state' = "BUSY"
                 /\ deferEvent' \in Nat \union {Off}
                 /\ backoffEvent' \in Nat \union {Off}
                 /\ busyEvent' \in Nat \union {Off}
                 /\ strays' \in StrayEvents
                 /\ idleFor' \in Int
                 /\ backoffCount' \in 0 .. n
      <4> HIDE DEF TypeOK
      <4> QED
        BY <3>1, <3>2, TransitionToBusyTypes
    <3>3. /\ state' = "BUSY"
          /\ deferEvent' \in Nat \union {Off}
          /\ backoffEvent' \in Nat \union {Off}
          /\ busyEvent' \in Nat \union {Off}
          /\ strays' \in StrayEvents
          /\ idleFor' \in Int
          /\ backoffCount' \in 0 .. n
      <4> HIDE DEF TypeOK
      <4> QED
        BY <2>3, <3>1, <3>2, Zenon
    <3> QED
      BY <2>2, <2>3, <3>1, <3>3 DEF params, StrayEvents
  <2>4. CASE /\ state' = "WAIT_FOR_DEFER"
             /\ deferEvent' = deferTime - idleFor
             /\ strays' = Overwritten("Defer", deferEvent, strays)
             /\ waitedFor' = deferTime
             /\ backoffCount' = n
             /\ UNCHANGED <<idleFor, backoffEvent, busyEvent>>
    <3>1. strays' \in StrayEvents
      BY <2>4, OverwrittenTypes DEF StrayEvents, Kinds
    <3> QED
      BY <2>2, <2>4, <3>1 DEF params, StrayEvents
  <2>5. CASE backoffCount' = n /\ UNCHANGED <<state, idleFor, events, waitedFor>>
    BY <2>2, <2>5 DEF params, events
  <2> QED
    BY <2>1, <2>3, <2>4, <2>5
<1>3. CASE Cancel
  <2>1. cancels' \in 0 .. MaxCancels /\ grantRequested' = FALSE
    BY <1>3 DEF Cancel
  <2>2. UNCHANGED <<deferTime, slotTime, state, backoffCount, idleFor, backoffFor,
                    deferEvent, backoffEvent, busyEvent, strays, sensing, busyCalls,
                    drawn, served, cuts, waitedFor, changed>>
    BY <1>3 DEF Cancel, params, events, counts
  <2> QED
    BY <2>1, <2>2
<1>4. CASE GoesBusy
  BY <1>4, ChannelOccupiedKeepsTypes DEF GoesBusy
<1>5. CASE ForceSensing
  <2>1. sensing' \in SUBSET Nat
    BY <1>5 DEF ForceSensing
  <2>2. CASE \E d \in Durations : ChannelOccupied(d)
    BY <2>1, <2>2, ChannelOccupiedKeepsTypes
  <2>3. CASE UNCHANGED <<params, state, grantRequested, backoffCount, idleFor,
                         backoffFor, events, busyCalls, history>>
    BY <2>1, <2>3 DEF params, events, history, counts
  <2> QED
    BY <1>5, <2>2, <2>3 DEF ForceSensing
<1>6. CASE TransitionFromBusy
  <2>1. PICK busy \in Taken("Busy", busyEvent) :
          \/ /\ idleFor < 0
             /\ busyEvent' = -idleFor
             /\ strays' = Overwritten("Busy", busy.own, busy.others)
             /\ state' = "BUSY"
             /\ UNCHANGED <<deferEvent, waitedFor>>
          \/ /\ idleFor >= 0 /\ grantRequested
             /\ busyEvent' = busy.own
             /\ deferEvent' = deferTime /\ waitedFor' = deferTime
             /\ strays' = Overwritten("Defer", deferEvent, busy.others)
             /\ state' = "WAIT_FOR_DEFER"
          \/ /\ idleFor >= 0 /\ ~grantRequested
             /\ busyEvent' = busy.own /\ strays' = busy.others
             /\ state' = "IDLE"
             /\ UNCHANGED <<deferEvent, waitedFor>>
    BY <1>6 DEF TransitionFromBusy
  <2>2. busy.own \in Nat \union {Off} /\ busy.others \in StrayEvents
    BY TakenTypes DEF StrayEvents
  <2>3. /\ Overwritten("Busy", busy.own, busy.others) \in StrayEvents
        /\ Overwritten("Defer", deferEvent, busy.others) \in StrayEvents
    BY <2>2, OverwrittenTypes DEF Kinds
  <2>4. UNCHANGED <<deferTime, slotTime, grantRequested, backoffCount, idleFor, backoffFor,
                    backoffEvent, sensing, busyCalls, drawn, served, cuts, changed, cancels>>
    BY <1>6 DEF TransitionFromBusy, params, counts
  <2>5. /\ state' \in States /\ waitedFor' \in Defers /\ strays' \in StrayEvents
        /\ busyEvent' \in Nat \union {Off} /\ deferEvent' \in Nat \union {Off}
    BY <2>1, <2>2, <2>3
  <2> QED
    BY <2>4, <2>5 DEF StrayEvents
<1>7. CASE RequestAccessAfterDefer
  <2>1. slotTime * backoffCount \in Nat /\ slotTime \in Nat
    BY SlotsTimesCount
  <2>2. UNCHANGED <<deferTime, slotTime, backoffCount, idleFor, busyEvent, busyCalls,
                    drawn, served, cuts, changed, cancels>>
    BY <1>7 DEF RequestAccessAfterDefer, params, counts
  <2>3. PICK defer \in Taken("Defer", deferEvent) :
          \/ /\ SetGrant
             /\ deferEvent' = defer.own /\ strays' = defer.others
             /\ UNCHANGED <<backoffFor, backoffEvent, sensing, waitedFor>>
          \/ /\ backoffFor' = 0 /\ backoffEvent' = slotTime * backoffCount
             /\ state' = "WAIT_FOR_BACKOFF" /\ sensing' = sensing \union {slotTime}
             /\ deferEvent' = defer.own
             /\ strays' = Overwritten("Backoff", backoffEvent, defer.others)
             /\ UNCHANGED <<grantRequested, waitedFor>>
          \/ /\ deferEvent' = deferTime /\ waitedFor' = deferTime
             /\ strays' = Overwritten("Defer", defer.own, defer.others)
             /\ state' = "WAIT_FOR_DEFER"
             /\ UNCHANGED <<grantRequested, backoffFor, backoffEvent, sensing>>
    <3> HIDE DEF TypeOK
    <3> QED
      BY <1>7, Zenon DEF RequestAccessAfterDefer
  <2>4. defer.own \in Nat \union {Off} /\ defer.others \in StrayEvents
    BY TakenTypes DEF StrayEvents
  <2>5. /\ Overwritten("Backoff", backoffEvent, defer.others) \in StrayEvents
        /\ Overwritten("Defer", defer.own, defer.others) \in StrayEvents
    BY <2>4, OverwrittenTypes DEF Kinds
  <2>6. CASE /\ SetGrant
             /\ deferEvent' = defer.own /\ strays' = defer.others
             /\ UNCHANGED <<backoffFor, backoffEvent, sensing, waitedFor>>
    BY <2>2, <2>4, <2>6 DEF SetGrant, StrayEvents
  <2>7. CASE /\ backoffFor' = 0 /\ backoffEvent' = slotTime * backoffCount
             /\ state' = "WAIT_FOR_BACKOFF" /\ sensing' = sensing \union {slotTime}
             /\ deferEvent' = defer.own
             /\ strays' = Overwritten("Backoff", backoffEvent, defer.others)
             /\ UNCHANGED <<grantRequested, waitedFor>>
    BY <2>1, <2>2, <2>4, <2>5, <2>7 DEF StrayEvents
  <2>8. CASE /\ deferEvent' = deferTime /\ waitedFor' = deferTime
             /\ strays' = Overwritten("Defer", defer.own, defer.others)
             /\ state' = "WAIT_FOR_DEFER"
             /\ UNCHANGED <<grantRequested, backoffFor, backoffEvent, sensing>>
    BY <2>2, <2>5, <2>8 DEF StrayEvents
  <2> HIDE DEF TypeOK
  <2> QED
    BY <2>3, <2>6, <2>7, <2>8, Zenon
<1>8. CASE RequestAccessAfterBackoff
  <2>1. PICK backoff \in Taken("Backoff", backoffEvent) :
          /\ SetGrant /\ backoffCount' = 0
          /\ backoffEvent' = backoff.own /\ strays' = backoff.others
    BY <1>8 DEF RequestAccessAfterBackoff
  <2>2. backoff.own \in Nat \union {Off} /\ backoff.others \in StrayEvents
    BY TakenTypes DEF StrayEvents
  <2> QED
    BY <1>8, <2>1, <2>2
       DEF RequestAccessAfterBackoff, SetGrant, params, history, counts, StrayEvents
<1>9. CASE ChangeParameters
  <2>1. changed' \in BOOLEAN
    <3>1. \/ changed' = (changed \/ params' # params)
      BY <1>9 DEF ChangeParameters
    <3> QED
      BY <3>1, Zenon
  <2> QED
    BY <1>9, <2>1 DEF ChangeParameters, events, counts
<1>10. CASE Tick
  <2>1. strays' \in StrayEvents
    <3>1. strays \in StrayEvents
      BY DEF StrayEvents
    <3> HIDE DEF TypeOK
    <3> QED
      BY <1>10, <3>1, CountedDownTypes DEF Tick
  <2> QED
    <3>0. /\ deferEvent # 0 /\ backoffEvent # 0 /\ busyEvent # 0 /\ 0 \notin sensing
          /\ idleFor' = IF \E d \in Defers : idleFor < d THEN idleFor + 1 ELSE idleFor
          /\ deferEvent' = Countdown(deferEvent)
          /\ backoffEvent' = Countdown(backoffEvent)
          /\ busyEvent' = Countdown(busyEvent)
          /\ sensing' = {e - 1 : e \in sensing}
          /\ IF state = "WAIT_FOR_BACKOFF"
             THEN backoffFor' = backoffFor + 1 /\ served' = served + 1
             ELSE UNCHANGED <<backoffFor, served>>
      <4> HIDE DEF TypeOK
      <4> QED
        BY <1>10, Zenon DEF Tick
    <3>1. /\ deferEvent' \in Nat \union {Off} /\ backoffEvent' \in Nat \union {Off}
          /\ busyEvent' \in Nat \union {Off}
      BY <3>0 DEF Countdown
    <3>2. sensing' \in SUBSET Nat
      BY <3>0
    <3>3. idleFor' \in Int /\ backoffFor' \in Nat /\ served' \in Nat
      BY <3>0
    <3>4. UNCHANGED <<deferTime, slotTime, state, grantRequested, backoffCount, busyCalls,
                      drawn, cuts, waitedFor, changed, cancels>>
      BY <1>10 DEF Tick, params
    <3> QED
      BY <2>1, <3>1, <3>2, <3>3, <3>4 DEF StrayEvents
<1>11. CASE UNCHANGED vars
  BY <1>11 DEF vars
<1> QED
  BY <1>1, <1>2, <1>3, <1>4, <1>5, <1>6, <1>7, <1>8, <1>9, <1>10, <1>11
     DEF Next, Scheduled

LEMMA InitTypes == Init => TypeOK
<1> SUFFICES ASSUME Init PROVE TypeOK
  OBVIOUS
<1> USE LbtAssumption DEF States, Off
<1>1. deferTime \in Defers /\ slotTime \in Slots /\ state \in States
  BY DEF Init
<1>2. /\ grantRequested \in BOOLEAN /\ sensing \in SUBSET Nat
      /\ changed \in BOOLEAN /\ cancels \in 0 .. MaxCancels
      /\ waitedFor \in Defers /\ strays \in Seq([kind : Kinds, at : Nat])
  <2>1. <<>> \in Seq([kind : Kinds, at : Nat])
    BY EmptySeq
  <2>2. 0 \in 0 .. MaxCancels
    OBVIOUS
  <2> QED
    BY <2>1, <2>2 DEF Init
<1>3. /\ backoffCount \in Nat /\ idleFor \in Int /\ backoffFor \in Nat
      /\ busyCalls \in 0 .. MaxBusy
      /\ drawn \in Nat /\ served \in Nat /\ cuts \in Nat
  BY DEF Init
<1>4. /\ deferEvent \in Nat \union {Off}
      /\ backoffEvent \in Nat \union {Off}
      /\ busyEvent \in Nat \union {Off}
  BY DEF Init
<1> QED
  BY <1>1, <1>2, <1>3, <1>4 DEF TypeOK

\* Type correctness, whatever the memory holds at first.
THEOREM Types == SafeSpec => []TypeOK
<1> QED
  BY InitTypes, TypesStep, PTL DEF SafeSpec

LEMMA InitGood == ProperUse /\ Init => Good
<1> SUFFICES ASSUME ProperUse, Init PROVE TypeOK /\ Inv
  BY DEF Good
<1> USE LbtAssumption DEF ProperUse, States, Off
<1>1. TypeOK
  BY InitTypes
<1>2. EventsMatchState /\ NoStrays /\ RequestInv /\ ChannelInv
  BY DEF Init, EventsMatchState, NoStrays, RequestInv, WaitsOnRequest, ChannelInv
<1> QED
  BY <1>1, <1>2 DEF Inv, Promise

\* Each state has its one event, knows whether it was asked to wait, and knows how long
\* the channel has been idle or will be busy: every step keeps that, but for Cancel.
LEMMA InvStep == Inv /\ [Next]_vars => Inv' \/ Cancel
<1> SUFFICES ASSUME Inv, [Next]_vars PROVE Promise' \/ Cancel
  BY TypesStep DEF Inv
<1> USE LbtAssumption
    DEF States, Off, Inv, Promise, TypeOK, EventsMatchState, NoStrays, RequestInv,
        WaitsOnRequest, ChannelInv
<1>1. ASSUME RequestGranted PROVE Promise'
  <2>1. EventsMatchState' /\ NoStrays'
    BY <1>1 DEF RequestGranted, SetGrant, params, events, history, counts
  <2>2. RequestInv'
    BY <1>1 DEF RequestGranted, SetGrant, params, events, history, counts
  <2>3. ChannelInv'
    BY <1>1 DEF RequestGranted, SetGrant, params, events, history, counts
  <2> QED
    BY <2>1, <2>2, <2>3
<1>2. ASSUME RequestWaits PROVE Promise'
  <2>1. PICK n \in Draws :
          \/ /\ state = "IDLE"
             /\ state' = "WAIT_FOR_DEFER"
             /\ deferEvent' = deferTime - idleFor
             /\ strays' = Overwritten("Defer", deferEvent, strays)
             /\ waitedFor' = deferTime
             /\ backoffCount' = n
             /\ UNCHANGED <<idleFor, backoffEvent, busyEvent>>
          \/ /\ state # "IDLE" /\ idleFor < 0
             /\ TransitionToBusy(-idleFor, TRUE, n)
             /\ UNCHANGED waitedFor
          \/ /\ state # "IDLE" /\ idleFor >= 0
             /\ backoffCount' = n
             /\ UNCHANGED <<state, idleFor, events, waitedFor>>
    BY <1>2 DEF RequestWaits
  <2>2. /\ ~grantRequested /\ grantRequested' /\ idleFor < deferTime
        /\ grantRequested' \in BOOLEAN
        /\ drawn' \in Nat /\ served' = 0 /\ cuts' = 0
        /\ UNCHANGED <<params, backoffFor, sensing, busyCalls>>
    BY <1>2 DEF RequestWaits
  <2>3. CASE state = "IDLE"
    <3>1. EventsMatchState' /\ NoStrays'
      BY <2>1, <2>2, <2>3 DEF params, Overwritten
    <3>2. RequestInv'
      BY <2>1, <2>2, <2>3 DEF params
    <3>3. ChannelInv'
      BY <2>1, <2>2, <2>3 DEF params
    <3> QED
      BY <3>1, <3>2, <3>3
  <2>4. CASE state # "IDLE" /\ idleFor < 0
    <3>1. ~(idleFor >= 0)
      BY <2>4
    <3>2. TransitionToBusy(-idleFor, TRUE, n)
      BY <2>1, <2>4, <3>1, Zenon
    <3>3. -idleFor \in Nat \ {0} /\ n \in Nat /\ TRUE \in BOOLEAN
      BY <2>4
    <3>4. /\ state' = "BUSY"
          /\ deferEvent' = Off /\ backoffEvent' = Off /\ busyEvent' \in Nat
          /\ strays' = <<>>
          /\ idleFor' \in Int /\ idleFor' <= -busyEvent'
      <4> HIDE DEF Inv, Promise, TypeOK, EventsMatchState, NoStrays, RequestInv,
               ChannelInv
      <4>1. ASSUME NEW d \in Nat \ {0}, NEW r \in BOOLEAN, TransitionToBusy(d, r, n)
            PROVE  /\ state' = "BUSY"
                   /\ deferEvent' = Off /\ backoffEvent' = Off /\ busyEvent' \in Nat
                   /\ strays' = <<>>
                   /\ idleFor' \in Int /\ idleFor' <= -busyEvent'
        BY <3>3, <4>1, AfterTransitionToBusy
      <4> QED
        BY <3>2, <3>3, <4>1, Zenon
    <3>5. EventsMatchState' /\ NoStrays'
      BY <3>4
    <3>6. RequestInv'
      BY <2>2, <3>4
    <3>7. ChannelInv'
      BY <3>4
    <3> QED
      BY <3>5, <3>6, <3>7
  <2>5. CASE state # "IDLE" /\ idleFor >= 0
    <3>1. /\ backoffCount' = n /\ n \in Nat
          /\ UNCHANGED <<state, idleFor, deferEvent, backoffEvent, busyEvent, strays,
                         waitedFor>>
      <4>1. ~(idleFor < 0)
        BY <2>5
      <4>2. backoffCount' = n /\ UNCHANGED <<state, idleFor, events, waitedFor>>
        BY <2>1, <2>5, <4>1, Zenon
      <4> QED
        BY <4>2 DEF events
    <3>2. EventsMatchState' /\ NoStrays'
      BY <3>1
    <3>3. RequestInv'
      BY <2>2, <2>5, <3>1
    <3>4. ChannelInv'
      BY <3>1
    <3> QED
      BY <3>2, <3>3, <3>4
  <2>6. state = "IDLE" \/ idleFor < 0 \/ idleFor >= 0
    OBVIOUS
  <2> HIDE DEF Promise
  <2> QED
    BY <2>3, <2>4, <2>5, <2>6, Zenon
<1>3. ASSUME GoesBusy PROVE Promise'
  <2>1. PICK d \in Durations : ChannelOccupied(d)
    BY <1>3 DEF GoesBusy
  <2> QED
    BY <2>1, ChannelOccupiedKeepsInv
<1>4. ASSUME ForceSensing PROVE Promise'
  <2>1. CASE \E d \in Durations : ChannelOccupied(d)
    BY <2>1, ChannelOccupiedKeepsInv
  <2>2. CASE UNCHANGED <<params, state, grantRequested, backoffCount, idleFor,
                         backoffFor, events, busyCalls, history>>
    BY <2>2 DEF params, events, history, counts
  <2> QED
    BY <1>4, <2>1, <2>2 DEF ForceSensing
<1>5. ASSUME TransitionFromBusy PROVE Promise'
  <2>1. /\ UNCHANGED <<grantRequested, backoffCount, idleFor, backoffEvent>>
        /\ busyEvent = 0 /\ deferEvent = Off
        /\ \/ /\ idleFor < 0
              /\ busyEvent' = -idleFor
              /\ strays' = <<>>
              /\ state' = "BUSY"
              /\ UNCHANGED <<deferEvent, waitedFor>>
           \/ /\ idleFor >= 0 /\ grantRequested
              /\ busyEvent' = Off
              /\ deferEvent' = deferTime /\ waitedFor' = deferTime
              /\ strays' = <<>>
              /\ state' = "WAIT_FOR_DEFER"
           \/ /\ idleFor >= 0 /\ ~grantRequested
              /\ busyEvent' = Off /\ strays' = <<>>
              /\ state' = "IDLE"
              /\ UNCHANGED <<deferEvent, waitedFor>>
    BY <1>5, TakenIsOwn DEF TransitionFromBusy, Overwritten
  <2>2. EventsMatchState' /\ NoStrays'
    BY <2>1
  <2>3. RequestInv'
    BY <2>1
  <2>4. ChannelInv'
    BY <2>1
  <2> QED
    BY <2>2, <2>3, <2>4
<1>6. ASSUME RequestAccessAfterDefer PROVE Promise'
  <2>1. deferEvent = 0 /\ state = "WAIT_FOR_DEFER"
    BY <1>6, TakenIsOwn DEF RequestAccessAfterDefer
  <2>2. /\ UNCHANGED <<deferTime, slotTime, backoffCount, idleFor, busyEvent,
                       busyCalls, drawn, served, cuts, waitedFor>>
        /\ deferEvent' = Off /\ strays' = <<>>
    BY <1>6, <2>1, TakenIsOwn DEF RequestAccessAfterDefer, params, counts, Overwritten
  <2>3. idleFor >= waitedFor
    BY <2>1
  <2>4. CASE backoffCount = 0
    <3>1. /\ state' = "TXOP_GRANTED" /\ grantRequested' = FALSE
          /\ UNCHANGED <<backoffFor, backoffEvent, sensing>>
      BY <1>6, <2>1, <2>4 DEF RequestAccessAfterDefer, SetGrant
    <3>2. EventsMatchState' /\ NoStrays'
      BY <2>1, <2>2, <3>1
    <3>3. RequestInv'
      BY <2>2, <2>4, <3>1
    <3>4. ChannelInv'
      BY <2>1, <2>2, <3>1
    <3> QED
      BY <3>2, <3>3, <3>4
  <2>5. CASE backoffCount > 0
    <3>1. /\ state' = "WAIT_FOR_BACKOFF" /\ UNCHANGED grantRequested
          /\ backoffFor' = 0 /\ backoffEvent' = slotTime * backoffCount
          /\ sensing' = sensing \union {slotTime}
      <4>1. backoffCount # 0
        BY <2>5
      <4> QED
        BY <1>6, <2>1, <4>1, Zenon DEF RequestAccessAfterDefer
    <3>2. backoffEvent' \in Nat /\ slotTime \in Nat
      BY <3>1, SlotsTimesCount
    <3>3. EventsMatchState' /\ NoStrays'
      BY <2>1, <2>2, <3>1, <3>2
    <3>4. RequestInv'
      BY <2>1, <2>2, <3>1
    <3>5. ChannelInv'
      BY <2>1, <2>2, <2>3, <3>1
    <3> QED
      BY <3>3, <3>4, <3>5
  <2>6. backoffCount = 0 \/ backoffCount > 0
    OBVIOUS
  <2> HIDE DEF Promise
  <2> QED
    BY <2>4, <2>5, <2>6, Zenon
<1>7. ASSUME RequestAccessAfterBackoff PROVE Promise'
  <2>1. /\ state = "WAIT_FOR_BACKOFF" /\ state' = "TXOP_GRANTED"
        /\ grantRequested' = FALSE /\ backoffCount' = 0
        /\ backoffEvent' = Off /\ strays' = <<>>
        /\ UNCHANGED <<idleFor, deferEvent, busyEvent, waitedFor>>
    BY <1>7, TakenIsOwn DEF RequestAccessAfterBackoff, SetGrant, history
  <2>2. EventsMatchState' /\ NoStrays'
    BY <2>1
  <2>3. RequestInv'
    BY <2>1
  <2>4. ChannelInv'
    BY <2>1
  <2> QED
    BY <2>2, <2>3, <2>4
<1>8. ASSUME ChangeParameters PROVE Promise'
  <2>1. EventsMatchState' /\ NoStrays'
    BY <1>8 DEF ChangeParameters, events, history, counts
  <2>2. RequestInv'
    BY <1>8 DEF ChangeParameters, events, history, counts
  <2>3. ChannelInv'
    BY <1>8 DEF ChangeParameters, events, history, counts
  <2> QED
    BY <2>1, <2>2, <2>3
<1>9. ASSUME Tick PROVE Promise'
  <2>1. EventsMatchState' /\ NoStrays'
    <3>1. /\ UNCHANGED state
          /\ deferEvent # 0 /\ deferEvent' = Countdown(deferEvent)
          /\ backoffEvent # 0 /\ backoffEvent' = Countdown(backoffEvent)
          /\ busyEvent # 0 /\ busyEvent' = Countdown(busyEvent)
          /\ strays' = [i \in DOMAIN strays |-> [strays[i] EXCEPT !.at = @ - 1]]
      BY <1>9, Zenon DEF Tick
    <3>2. \A e \in Nat \union {Off} : e # 0 => (Countdown(e) # Off <=> e # Off)
      BY DEF Countdown
    <3>3. EventsMatchState'
      BY <3>1, <3>2
    <3>4. strays' = <<>>
      <4>1. strays = <<>>
        OBVIOUS
      <4> QED
        BY <3>1, <4>1
    <3> QED
      BY <3>3, <3>4
  <2>2. RequestInv'
    BY <1>9 DEF Tick, Countdown, params
  <2>3. ChannelInv'
    <3>1. /\ UNCHANGED <<state, waitedFor>>
          /\ idleFor' \in {idleFor, idleFor + 1}
          /\ idleFor' = idleFor => idleFor >= waitedFor
          /\ deferEvent # 0 /\ deferEvent' = Countdown(deferEvent)
          /\ busyEvent # 0 /\ busyEvent' = Countdown(busyEvent)
      BY <1>9 DEF Tick
    <3>2. waitedFor \in Nat /\ idleFor \in Int
      OBVIOUS
    <3>3. CASE state = "WAIT_FOR_DEFER"
      <4>1. deferEvent \in Nat \ {0} /\ deferEvent' = deferEvent - 1
        BY <3>1, <3>3 DEF Countdown
      <4>2. idleFor + deferEvent >= waitedFor
        BY <3>3
      <4>3. idleFor >= 0
        BY <3>3
      <4> HIDE DEF Inv, Promise, TypeOK, EventsMatchState, NoStrays, RequestInv
      <4>4. idleFor' + deferEvent' >= waitedFor
        <5>1. CASE idleFor' = idleFor + 1
          BY <3>2, <4>1, <4>2, <5>1
        <5>2. CASE idleFor' = idleFor
          <6>1. idleFor >= waitedFor
            BY <3>1, <5>2
          <6>2. deferEvent' \in Nat
            BY <4>1
          <6>3. \A a \in Int, b, c \in Nat : a >= c => a + b >= c
            OBVIOUS
          <6>4. idleFor + deferEvent' >= waitedFor
            BY <3>2, <6>1, <6>2, <6>3
          <6> QED
            BY <5>2, <6>4
        <5> QED
          BY <3>1, <5>1, <5>2
      <4> QED
        BY <3>1, <3>2, <3>3, <4>3, <4>4
    <3>4. CASE state = "BUSY"
      <4>1. busyEvent \in Nat \ {0} /\ busyEvent' = busyEvent - 1
        BY <3>1, <3>4 DEF Countdown
      <4>2. idleFor <= -busyEvent
        BY <3>4
      <4> QED
        BY <3>1, <3>2, <3>4, <4>1, <4>2
    <3>5. CASE state \notin {"WAIT_FOR_DEFER", "BUSY"}
      BY <3>1, <3>2, <3>5
    <3> QED
      BY <3>3, <3>4, <3>5
  <2> QED
    BY <2>1, <2>2, <2>3
<1>10. CASE UNCHANGED vars
  BY <1>10 DEF vars
<1> QED
  BY <1>1, <1>2, <1>3, <1>4, <1>5, <1>6, <1>7, <1>8, <1>9, <1>10 DEF Next, Scheduled

LEMMA CancelledStays == TypeOK /\ [Next]_vars /\ cancelled => cancelled'
<1> SUFFICES ASSUME TypeOK, [Next]_vars, cancelled PROVE cancelled'
  OBVIOUS
<1>1. CASE UNCHANGED cancels
  BY <1>1 DEF cancelled
<1>2. CASE Cancel
  BY <1>2 DEF Cancel, cancelled, TypeOK
<1> QED
  BY <1>1, <1>2
     DEF Next, Scheduled, vars, history, RequestGranted, RequestWaits, GoesBusy,
         ChannelOccupied, ForceSensing, TransitionFromBusy, RequestAccessAfterDefer,
         RequestAccessAfterBackoff, ChangeParameters, Tick

LEMMA ChangedStays == [Next]_vars /\ changed => changed'
<1> SUFFICES ASSUME [Next]_vars, changed PROVE changed'
  OBVIOUS
<1>1. CASE UNCHANGED changed
  BY <1>1
<1>2. CASE ChangeParameters
  BY <1>2, Zenon DEF ChangeParameters
<1> QED
  BY <1>1, <1>2
     DEF Next, Scheduled, vars, history, RequestGranted, RequestWaits, Cancel, GoesBusy,
         ChannelOccupied, ForceSensing, TransitionFromBusy, RequestAccessAfterDefer,
         RequestAccessAfterBackoff, Tick

\* The inductive invariant: once a request has been cancelled only the types are left.
LEMMA Invariant == ASSUME ProperUse PROVE SafeSpec => []Good
<1>1. Init => Good
  BY InitGood
<1>2. Good /\ [Next]_vars => Good'
  <2> SUFFICES ASSUME Good, [Next]_vars PROVE Good'
    OBVIOUS
  <2>1. TypeOK'
    BY TypesStep DEF Good
  <2>2. cancelled => cancelled'
    BY CancelledStays DEF Good
  <2>3. Inv => Inv' \/ cancelled'
    BY InvStep DEF Good, Cancel, cancelled, TypeOK
  <2> QED
    BY <2>1, <2>2, <2>3 DEF Good
<1> QED
  BY <1>1, <1>2, PTL DEF SafeSpec

\* Each wait has its one event, and no event outlives its wait, whatever the radio and
\* the learning agent do.
THEOREM OneEventPerWait == ASSUME ProperUse PROVE SafeSpec => []OnePendingEvent
<1>1. Good => OnePendingEvent
  BY DEF Good, Inv, Promise, OnePendingEvent
<1> QED
  BY <1>1, Invariant, PTL

\* The fatal error in RequestAccessAfterBackoff is not reached.
THEOREM UnreachableIsUnreachable == ASSUME ProperUse PROVE SafeSpec => []NoUnreachable
<1>1. Good => NoUnreachable
  BY TakenIsOwn DEF Good, Inv, Promise, EventsMatchState, NoUnreachable, BackoffEndsWaiting, Off
<1> QED
  BY <1>1, Invariant, PTL

\* A station that goes idle has no backoff left, which is what the assertion of
\* TransitionToBusy demands.
THEOREM IdleMeansNoBackoff == ASSUME ProperUse PROVE SafeSpec => []IdleHasNoBackoff
<1>1. Good => IdleHasNoBackoff
  BY DEF Good, Inv, Promise, RequestInv, IdleHasNoBackoff
<1> QED
  BY <1>1, Invariant, PTL

\* At every grant the channel has been idle for the defer time.
LEMMA GrantFollowsDefer == ASSUME ProperUse, Inv, Next PROVE IdleBeforeGrant
<1> USE LbtAssumption DEF IdleBeforeGrant
<1>1. CASE RequestGranted
  BY <1>1 DEF RequestGranted, Inv, TypeOK
<1>2. CASE RequestAccessAfterDefer
  <2>1. deferEvent = 0
    BY <1>2, TakenIsOwn DEF RequestAccessAfterDefer, Inv, Promise
  <2>2. state = "WAIT_FOR_DEFER" /\ idleFor + deferEvent >= waitedFor /\ grantRequested
    BY <2>1 DEF Inv, Promise, EventsMatchState, ChannelInv, RequestInv, WaitsOnRequest, Off
  <2> QED
    BY <2>1, <2>2 DEF Inv, TypeOK
<1>3. CASE RequestAccessAfterBackoff
  BY <1>3 DEF RequestAccessAfterBackoff, Inv, Promise, ChannelInv, RequestInv, WaitsOnRequest
<1>4. CASE RequestWaits
  BY <1>4 DEF RequestWaits, TransitionToBusy
<1>5. CASE GoesBusy \/ ForceSensing
  BY <1>5 DEF GoesBusy, ForceSensing, ChannelOccupied, TransitionToBusy
<1>6. CASE TransitionFromBusy \/ ChangeParameters \/ Cancel \/ Tick
  BY <1>6 DEF TransitionFromBusy, ChangeParameters, Cancel, Tick
<1> QED
  BY <1>1, <1>2, <1>3, <1>4, <1>5, <1>6 DEF Next, Scheduled

\* A scheduled grant answers a request.
LEMMA GrantAnswersRequest == ASSUME Inv PROVE RequestBeforeGrant
BY DEF RequestBeforeGrant, Inv, Promise, RequestInv, WaitsOnRequest, EventsMatchState,
       RequestAccessAfterDefer, RequestAccessAfterBackoff, Off

\* Until a request is cancelled every grant follows a whole defer time of idle channel,
\* and a scheduled one answers a request.
THEOREM GrantsEarned == ASSUME ProperUse PROVE SafeSpec => GrantsAreEarned
<1>1. Good /\ [Next]_vars => [~cancelled => IdleBeforeGrant /\ RequestBeforeGrant]_vars
  BY GrantFollowsDefer, GrantAnswersRequest DEF Good
<1> QED
  BY <1>1, Invariant, PTL DEF SafeSpec, GrantsAreEarned

\* While a request is pending its backoff counter only goes down, even when requests are
\* cancelled and the slot is shortened during the backoff.
THEOREM BackoffCountsDown == SafeSpec => BackoffNeverGrows
<1>1. TypeOK /\ [Next]_vars =>
        [grantRequested /\ grantRequested' => backoffCount' <= backoffCount]_vars
  <2> SUFFICES ASSUME TypeOK, Next, grantRequested, grantRequested'
               PROVE  backoffCount' <= backoffCount
    OBVIOUS
  <2>1. backoffCount \in Nat /\ sensing \in SUBSET Nat /\ slotTime \in Nat
    BY LbtAssumption DEF TypeOK
  <2>2. CASE RequestGranted \/ TransitionFromBusy \/ RequestAccessAfterDefer
             \/ ChangeParameters \/ Tick
    BY <2>1, <2>2 DEF RequestGranted, TransitionFromBusy, RequestAccessAfterDefer,
                      ChangeParameters, Tick
  <2>3. CASE RequestWaits \/ Cancel \/ RequestAccessAfterBackoff
    BY <2>3 DEF RequestWaits, Cancel, RequestAccessAfterBackoff, SetGrant
  <2>4. CASE GoesBusy
    BY <2>1, <2>4, ChannelOccupiedKeepsTypes DEF GoesBusy
  <2>5. CASE ForceSensing
    <3>1. sensing' \in SUBSET Nat
      BY <2>1, <2>5 DEF ForceSensing
    <3> QED
      BY <2>1, <2>5, <3>1, ChannelOccupiedKeepsTypes DEF ForceSensing
  <2> QED
    BY <2>2, <2>3, <2>4, <2>5 DEF Next, Scheduled
<1> QED
  BY <1>1, Types, PTL DEF SafeSpec, BackoffNeverGrows

-----------------------------------------------------------------------------
(* No free slots.                                                          *)

\* The idle ticks of the suspended parts of the backoff: those of the part that runs
\* count when it is suspended.
Spent == IF state = "WAIT_FOR_BACKOFF" THEN served - backoffFor ELSE served

Paid ==
    /\ (drawn - backoffCount) * slotTime <= Spent + cuts * (slotTime - 1)
    /\ state = "WAIT_FOR_BACKOFF" => backoffEvent = slotTime * backoffCount - backoffFor

SlotInv == cancelled \/ changed \/ Paid

\* A suspended part costs at least the slots it takes off, but for the last one's rest.
LEMMA CutCosts ==
    ASSUME NEW dr \in Nat, NEW c \in Nat, NEW sl \in Nat \ {0}, NEW sv \in Nat,
           NEW b \in Nat, NEW cu \in Nat, NEW left \in Nat,
           (dr - c) * sl <= sv - b + cu * (sl - 1),
           left >= c - (b + sl - 1) \div sl
    PROVE  (dr - left) * sl <= sv + (cu + 1) * (sl - 1)
<1> DEFINE e == (b + sl - 1) \div sl
<1>1. e \in Nat /\ e * sl <= b + sl - 1
  <2>1. \A x \in Nat, y \in Nat \ {0} : x \div y \in Nat /\ (x \div y) * y <= x
    OBVIOUS
  <2>2. b + sl - 1 \in Nat
    OBVIOUS
  <2> QED
    BY <2>1, <2>2
<1>2. dr - left <= (dr - c) + e
  OBVIOUS
<1> HIDE DEF e
<1>3. (dr - left) * sl <= ((dr - c) + e) * sl
  <2>1. \A x, y \in Int, z \in Nat : x <= y => x * z <= y * z
    OBVIOUS
  <2> QED
    BY <1>1, <1>2, <2>1
<1>4. ((dr - c) + e) * sl = (dr - c) * sl + e * sl
  <2>1. \A x, y, z \in Int : (x + y) * z = x * z + y * z
    OBVIOUS
  <2> QED
    BY <1>1, <2>1
<1>5. (cu + 1) * (sl - 1) = cu * (sl - 1) + (sl - 1)
  <2>1. \A x, z \in Int : (x + 1) * z = x * z + z
    OBVIOUS
  <2> QED
    BY <2>1
<1> DEFINE p == (dr - left) * sl
           q == (dr - c) * sl
           r == e * sl
           t == cu * (sl - 1)
           u == (cu + 1) * (sl - 1)
           w == ((dr - c) + e) * sl
<1>6. \A x, y \in Int : x * y \in Int
  OBVIOUS
<1>7. p \in Int /\ q \in Int /\ r \in Int /\ t \in Int /\ u \in Int /\ w \in Int
  BY <1>1, <1>6
<1>8. p <= w /\ w = q + r /\ u = t + (sl - 1) /\ q <= sv - b + t /\ r <= b + sl - 1
  BY <1>1, <1>3, <1>4, <1>5
<1> HIDE DEF p, q, r, t, u, w
<1>9. p <= sv + u
  BY <1>7, <1>8
<1> QED
  BY <1>9 DEF p, u

LEMMA OccupiedPays ==
    ASSUME TypeOK, Paid, NEW d \in Durations, ChannelOccupied(d)
    PROVE  Paid'
<1>1. /\ d \in Nat \ {0} /\ slotTime \in Nat \ {0}
      /\ backoffCount \in Nat /\ backoffFor \in Nat
      /\ drawn \in Nat /\ served \in Nat /\ cuts \in Nat
  BY LbtAssumption DEF TypeOK
<1>2. /\ TransitionToBusy(d, grantRequested, backoffCount)
      /\ UNCHANGED <<slotTime, drawn, served>>
  BY DEF ChannelOccupied, params
<1>3. state' = "BUSY"
  BY <1>2 DEF TransitionToBusy
<1>4. CASE state = "WAIT_FOR_BACKOFF"
  <2>1. cuts' = cuts + 1 /\ backoffCount' = BackoffLeft(backoffCount)
    BY <1>2, <1>4 DEF ChannelOccupied, TransitionToBusy
  <2>2. /\ BackoffLeft(backoffCount) \in Nat
        /\ BackoffLeft(backoffCount) >= backoffCount - SlotsElapsed
    BY <1>1, SlotsElapsedNat DEF BackoffLeft
  <2>3. (drawn - backoffCount) * slotTime <= served - backoffFor + cuts * (slotTime - 1)
    BY <1>4 DEF Paid, Spent
  <2>4. (drawn - BackoffLeft(backoffCount)) * slotTime <= served + (cuts + 1) * (slotTime - 1)
    BY <1>1, <2>2, <2>3, CutCosts DEF SlotsElapsed
  <2> QED
    BY <1>2, <1>3, <2>1, <2>4 DEF Paid, Spent
<1>5. CASE state # "WAIT_FOR_BACKOFF"
  <2>1. backoffCount' = backoffCount
    BY <1>2, <1>5 DEF TransitionToBusy
  <2>2. cuts' = cuts
    BY <1>5 DEF ChannelOccupied
  <2> QED
    BY <1>2, <1>3, <1>5, <2>1, <2>2 DEF Paid, Spent
<1> QED
  BY <1>4, <1>5

\* Every step pays for the slots it takes off, while the slot stays what it was.
LEMMA PaidStep ==
    ASSUME Inv, Paid, [Next]_vars, ~cancelled', ~changed'
    PROVE  Paid'
<1> USE LbtAssumption
    DEF Inv, Promise, RequestInv, WaitsOnRequest, EventsMatchState, NoStrays, Off
<1>1. /\ slotTime \in Nat \ {0} /\ backoffCount \in Nat /\ backoffFor \in Nat
      /\ drawn \in Nat /\ served \in Nat /\ cuts \in Nat
  BY DEF TypeOK
<1> USE DEF Paid, Spent
<1>2. ASSUME UNCHANGED <<slotTime, state, backoffCount, backoffFor, backoffEvent, counts>>
      PROVE  Paid'
  BY <1>2 DEF counts
<1>3. ASSUME /\ UNCHANGED <<slotTime, backoffCount, counts>>
             /\ state # "WAIT_FOR_BACKOFF" /\ state' # "WAIT_FOR_BACKOFF"
      PROVE  Paid'
  BY <1>3 DEF counts
<1>4. CASE RequestGranted
  <2>1. state # "WAIT_FOR_BACKOFF" /\ state' # "WAIT_FOR_BACKOFF"
    BY <1>4 DEF RequestGranted, SetGrant
  <2>2. UNCHANGED <<slotTime, backoffCount, counts>>
    BY <1>4 DEF RequestGranted, params, history, counts
  <2> QED
    BY <1>3, <2>1, <2>2
<1>5. CASE RequestWaits
  <2>1. PICK n \in Draws :
          /\ drawn' = n /\ served' = 0 /\ cuts' = 0
          /\ \/ /\ state = "IDLE"
                /\ state' = "WAIT_FOR_DEFER"
                /\ backoffCount' = n
             \/ /\ idleFor < 0
                /\ TransitionToBusy(-idleFor, TRUE, n)
             \/ backoffCount' = n /\ UNCHANGED state
    BY <1>5 DEF RequestWaits
  <2>2. n \in Nat /\ slotTime' = slotTime /\ state # "WAIT_FOR_BACKOFF"
    BY <1>5 DEF RequestWaits, params
  <2>3. backoffCount' = n /\ state' # "WAIT_FOR_BACKOFF"
    BY <2>1, <2>2 DEF TransitionToBusy
  <2>4. (n - n) * slotTime = 0 /\ 0 * (slotTime - 1) = 0
    BY <1>1, <2>2
  <2> QED
    BY <2>1, <2>2, <2>3, <2>4
<1>6. CASE GoesBusy
  BY <1>6, OccupiedPays DEF GoesBusy
<1>7. CASE ForceSensing
  <2>1. CASE \E d \in Durations : ChannelOccupied(d)
    BY <2>1, OccupiedPays
  <2>2. CASE UNCHANGED <<params, state, backoffCount, backoffFor, events, history>>
    BY <1>2, <2>2 DEF params, events, history
  <2> QED
    BY <1>7, <2>1, <2>2 DEF ForceSensing
<1>8. CASE TransitionFromBusy
  <2>1. state # "WAIT_FOR_BACKOFF" /\ state' # "WAIT_FOR_BACKOFF"
    BY <1>8, TakenIsOwn DEF TransitionFromBusy
  <2>2. UNCHANGED <<slotTime, backoffCount, counts>>
    BY <1>8 DEF TransitionFromBusy, params
  <2> QED
    BY <1>3, <2>1, <2>2
<1>9. CASE RequestAccessAfterDefer
  <2>1. state = "WAIT_FOR_DEFER"
    BY <1>9, TakenIsOwn DEF RequestAccessAfterDefer
  <2>2. UNCHANGED <<slotTime, backoffCount, counts>>
    BY <1>9 DEF RequestAccessAfterDefer, params
  <2>3. CASE SetGrant
    BY <1>3, <2>1, <2>2, <2>3 DEF SetGrant
  <2>4. CASE /\ backoffFor' = 0 /\ backoffEvent' = slotTime * backoffCount
             /\ state' = "WAIT_FOR_BACKOFF"
    <3>1. slotTime * backoffCount \in Nat
      BY SlotsTimesCount
    <3> QED
      BY <1>1, <2>1, <2>2, <2>4, <3>1 DEF counts
  <2> QED
    BY <1>9, <2>1, <2>3, <2>4 DEF RequestAccessAfterDefer
<1>10. CASE RequestAccessAfterBackoff
  <2>1. /\ state = "WAIT_FOR_BACKOFF" /\ backoffEvent = 0
        /\ state' = "TXOP_GRANTED" /\ backoffCount' = 0
        /\ UNCHANGED <<slotTime, drawn, served, cuts>>
    BY <1>10, TakenIsOwn DEF RequestAccessAfterBackoff, SetGrant, params, history, counts
  <2>2. slotTime * backoffCount = backoffFor
    <3>1. slotTime * backoffCount \in Nat
      BY SlotsTimesCount
    <3> QED
      BY <1>1, <2>1, <3>1
  <2>3. (drawn - backoffCount) * slotTime = drawn * slotTime - slotTime * backoffCount
    <3>1. \A x, y, z \in Int : (x - y) * z = x * z - z * y
      OBVIOUS
    <3> QED
      BY <1>1, <3>1
  <2>4. drawn - 0 = drawn
    BY <1>1
  <2>5. (drawn - backoffCount) * slotTime <= served - backoffFor + cuts * (slotTime - 1)
    BY <2>1
  <2>6. drawn * slotTime <= served + cuts * (slotTime - 1)
    <3>1. drawn * slotTime \in Int /\ cuts * (slotTime - 1) \in Int
      <4>1. \A x, y \in Int : x * y \in Int
        OBVIOUS
      <4> QED
        BY <1>1, <4>1
    <3> QED
      BY <1>1, <2>2, <2>3, <2>5, <3>1
  <2> QED
    BY <2>1, <2>4, <2>6
<1>11. CASE ChangeParameters
  <2>1. UNCHANGED <<slotTime, state, backoffCount, backoffFor, backoffEvent, counts>>
    BY <1>11 DEF ChangeParameters, params, events
  <2> QED
    BY <1>2, <2>1
<1>12. CASE Tick
  <2>1. /\ UNCHANGED <<slotTime, state, backoffCount, drawn, cuts>>
        /\ backoffEvent # 0 /\ backoffEvent' = Countdown(backoffEvent)
    BY <1>12 DEF Tick, params
  <2>2. CASE state = "WAIT_FOR_BACKOFF"
    <3>1. backoffFor' = backoffFor + 1 /\ served' = served + 1
      BY <1>12, <2>2 DEF Tick
    <3>2. backoffEvent' = backoffEvent - 1
      BY <2>1, <2>2 DEF Countdown
    <3>3. slotTime * backoffCount \in Int
      BY SlotsTimesCount
    <3>4. /\ (drawn - backoffCount) * slotTime <= served - backoffFor + cuts * (slotTime - 1)
          /\ backoffEvent = slotTime * backoffCount - backoffFor
      BY <2>2
    <3>5. served' - backoffFor' = served - backoffFor
      BY <1>1, <3>1
    <3>6. backoffEvent' = slotTime * backoffCount - backoffFor'
      BY <1>1, <3>1, <3>2, <3>3, <3>4
    <3> QED
      BY <2>1, <2>2, <3>4, <3>5, <3>6
  <2>3. CASE state # "WAIT_FOR_BACKOFF"
    <3>1. UNCHANGED <<backoffFor, served>>
      BY <1>12, <2>3 DEF Tick
    <3> QED
      BY <2>1, <2>3, <3>1
  <2> QED
    BY <2>2, <2>3
<1>13. CASE Cancel
  BY <1>13 DEF Cancel, cancelled, TypeOK
<1>14. CASE UNCHANGED vars
  BY <1>2, <1>14 DEF vars, counts
<1> QED
  BY <1>4, <1>5, <1>6, <1>7, <1>8, <1>9, <1>10, <1>11, <1>12, <1>13, <1>14
     DEF Next, Scheduled

\* While no request is cancelled and the slot stays what it was, what a backoff has gone
\* down by was spent idle, but for what each suspension rounds up.
THEOREM BackoffIsServed == ASSUME ProperUse PROVE SafeSpec => []NoFreeSlots
<1>1. Init => SlotInv
  <2> SUFFICES ASSUME Init PROVE Paid
    BY DEF SlotInv
  <2>1. /\ backoffCount = 0 /\ drawn = 0 /\ served = 0 /\ cuts = 0
        /\ state = "IDLE" /\ slotTime \in Nat
    BY LbtAssumption DEF Init, ProperUse
  <2>2. (0 - 0) * slotTime = 0 /\ 0 * (slotTime - 1) = 0
    BY <2>1
  <2> QED
    BY <2>1, <2>2 DEF Paid, Spent
<1>2. SlotInv /\ Good /\ [Next]_vars => SlotInv'
  <2> SUFFICES ASSUME SlotInv, Good, [Next]_vars PROVE SlotInv'
    OBVIOUS
  <2>1. cancelled => cancelled'
    BY CancelledStays DEF Good
  <2>2. changed => changed'
    BY ChangedStays
  <2> QED
    BY <2>1, <2>2, PaidStep DEF SlotInv, Good
<1>3. SlotInv /\ Good => NoFreeSlots
  <2> SUFFICES ASSUME TypeOK, Paid
               PROVE  (drawn - backoffCount) * slotTime <= served + cuts * (slotTime - 1)
    BY DEF SlotInv, Good, NoFreeSlots
  <2>1. /\ served \in Nat /\ backoffFor \in Nat
        /\ (drawn - backoffCount) * slotTime \in Int /\ cuts * (slotTime - 1) \in Int
    <3>1. \A x, y \in Int : x * y \in Int
      OBVIOUS
    <3>2. /\ drawn - backoffCount \in Int /\ slotTime \in Int
          /\ cuts \in Int /\ slotTime - 1 \in Int
      BY LbtAssumption DEF TypeOK
    <3> QED
      BY <3>1, <3>2 DEF TypeOK
  <2> QED
    BY <2>1 DEF Paid, Spent
<1> QED
  BY <1>1, <1>2, <1>3, Invariant, PTL DEF SafeSpec

-----------------------------------------------------------------------------
(* A request is not stranded.                                              *)

\* While the defer time stays what it was, a grant and a backoff come after the whole of
\* it, and the end of a defer completes it; a grant leaves no request.  So a request that
\* finds the defer time short finds an event pending too.
DeferMet ==
    /\ state = "TXOP_GRANTED" => idleFor >= deferTime /\ ~grantRequested
    /\ state = "WAIT_FOR_DEFER" => idleFor + deferEvent >= deferTime
    /\ state = "WAIT_FOR_BACKOFF" => idleFor >= deferTime

LEMMA DeferMetStep ==
    ASSUME Inv, DeferMet, [Next]_vars, ~cancelled', ~changed'
    PROVE  DeferMet'
<1> USE LbtAssumption DEF Inv, Promise, EventsMatchState, RequestInv, WaitsOnRequest, Off
<1>1. /\ deferTime \in Nat \ {0} /\ deferTime \in Defers /\ idleFor \in Int
      /\ deferEvent \in Nat \union {Off} /\ grantRequested \in BOOLEAN
  BY DEF TypeOK
<1> USE DEF DeferMet
<1>2. ASSUME UNCHANGED <<deferTime, state, grantRequested, idleFor, deferEvent>>
      PROVE  DeferMet'
  BY <1>2
<1>3. ASSUME state' \in {"BUSY", "IDLE"} PROVE DeferMet'
  BY <1>3
<1>4. CASE RequestGranted
  BY <1>1, <1>4 DEF RequestGranted, SetGrant, params
<1>5. CASE RequestWaits
  <2>1. PICK n \in Draws :
          \/ /\ state = "IDLE"
             /\ state' = "WAIT_FOR_DEFER"
             /\ deferEvent' = deferTime - idleFor
             /\ UNCHANGED idleFor
          \/ TransitionToBusy(-idleFor, TRUE, n)
          \/ UNCHANGED <<state, idleFor, deferEvent>>
    BY <1>5 DEF RequestWaits, events
  <2>2. ~grantRequested /\ idleFor < deferTime /\ deferTime' = deferTime
    BY <1>5 DEF RequestWaits, params
  <2>3. CASE TransitionToBusy(-idleFor, TRUE, n)
    <3>1. state' = "BUSY"
      BY <2>3 DEF TransitionToBusy
    <3> QED
      BY <1>3, <3>1
  <2>4. CASE state = "IDLE" /\ state' = "WAIT_FOR_DEFER" /\ deferEvent' = deferTime - idleFor
             /\ UNCHANGED idleFor
    BY <1>1, <2>2, <2>4
  <2>5. CASE UNCHANGED <<state, idleFor, deferEvent>>
    <3>1. state \notin {"TXOP_GRANTED", "WAIT_FOR_DEFER", "WAIT_FOR_BACKOFF"}
      BY <1>1, <2>2
    <3> QED
      BY <2>5, <3>1
  <2> QED
    BY <2>1, <2>3, <2>4, <2>5
<1>6. ASSUME NEW d \in Durations, ChannelOccupied(d) PROVE DeferMet'
  BY <1>3, <1>6 DEF ChannelOccupied, TransitionToBusy
<1>7. CASE GoesBusy
  BY <1>6, <1>7 DEF GoesBusy
<1>8. CASE ForceSensing
  <2>1. CASE UNCHANGED <<params, state, grantRequested, backoffCount, idleFor,
                         backoffFor, events, busyCalls, history>>
    BY <1>2, <2>1 DEF params, events
  <2> QED
    BY <1>6, <1>8, <2>1 DEF ForceSensing
<1>9. CASE TransitionFromBusy
  <2>1. CASE state' \in {"BUSY", "IDLE"}
    BY <1>3, <2>1
  <2>2. CASE /\ idleFor >= 0 /\ deferEvent' = deferTime /\ state' = "WAIT_FOR_DEFER"
    BY <1>1, <1>9, <2>2 DEF TransitionFromBusy, params
  <2> QED
    BY <1>9, <2>1, <2>2 DEF TransitionFromBusy
<1>10. CASE RequestAccessAfterDefer
  <2>1. state = "WAIT_FOR_DEFER" /\ deferEvent = 0 /\ UNCHANGED <<deferTime, idleFor>>
    BY <1>10, TakenIsOwn DEF RequestAccessAfterDefer, params
  <2>2. idleFor >= deferTime
    BY <1>1, <2>1
  <2>3. \/ state' = "TXOP_GRANTED" /\ grantRequested' = FALSE
        \/ state' = "WAIT_FOR_BACKOFF"
    BY <1>10, <2>1 DEF RequestAccessAfterDefer, SetGrant
  <2> QED
    BY <2>1, <2>2, <2>3
<1>11. CASE RequestAccessAfterBackoff
  BY <1>11 DEF RequestAccessAfterBackoff, SetGrant, params
<1>12. CASE ChangeParameters
  <2>1. params' = params
    BY <1>12, Zenon DEF ChangeParameters
  <2>2. UNCHANGED <<deferTime, state, grantRequested, idleFor, deferEvent>>
    BY <1>12, <2>1 DEF ChangeParameters, params, events
  <2> QED
    BY <1>2, <2>2
<1>13. CASE Tick
  <2>1. /\ UNCHANGED <<deferTime, state, grantRequested>>
        /\ deferEvent # 0 /\ deferEvent' = Countdown(deferEvent)
        /\ idleFor' = IF \E d \in Defers : idleFor < d THEN idleFor + 1 ELSE idleFor
    BY <1>13 DEF Tick, params
  <2>2. idleFor' \in {idleFor, idleFor + 1} /\ (idleFor' = idleFor => idleFor >= deferTime)
    BY <1>1, <2>1
  <2>3. state = "WAIT_FOR_DEFER" => deferEvent \in Nat \ {0} /\ deferEvent' = deferEvent - 1
    BY <1>1, <2>1 DEF Countdown
  <2> QED
    BY <1>1, <2>1, <2>2, <2>3
<1>14. CASE Cancel
  BY <1>14 DEF Cancel, cancelled, TypeOK
<1>15. CASE UNCHANGED vars
  BY <1>2, <1>15 DEF vars
<1> QED
  BY <1>4, <1>5, <1>7, <1>8, <1>9, <1>10, <1>11, <1>12, <1>13, <1>14, <1>15
     DEF Next, Scheduled

StandingInv == ~cancelled /\ ~changed => DeferMet

\* The safety half of "every request is answered": while the parameters stay what they
\* are and nobody cancels, NrLbtAccessManager never holds a request without an event
\* that will look at it again.
THEOREM RequestsAreNotStranded == ASSUME ProperUse PROVE SafeSpec => []NoStrandedRequest
<1>1. Init => StandingInv
  BY DEF Init, ProperUse, StandingInv, DeferMet
<1>2. StandingInv /\ Good /\ [Next]_vars => StandingInv'
  BY CancelledStays, ChangedStays, DeferMetStep DEF StandingInv, Good
<1>3. StandingInv /\ Good => NoStrandedRequest
  <2> SUFFICES ASSUME Inv, DeferMet, grantRequested
               PROVE  busyEvent # Off \/ deferEvent # Off \/ backoffEvent # Off
    BY DEF StandingInv, Good, NoStrandedRequest
  <2>1. state \in {"BUSY", "WAIT_FOR_DEFER", "WAIT_FOR_BACKOFF"}
    BY DEF Inv, Promise, RequestInv, TypeOK, States, DeferMet
  <2> QED
    BY <2>1 DEF Inv, Promise, EventsMatchState
<1> QED
  BY <1>1, <1>2, <1>3, Invariant, PTL DEF SafeSpec

-----------------------------------------------------------------------------
(* The contention window of NrCat4LbtAccessManager never moves more than   *)
(* one update away from its minimum, and moves the way the feedback says.  *)

LEMMA AtMostIsMinimum ==
    ASSUME NEW x \in Nat, NEW m \in Nat
    PROVE  AtMost(x, m) \in Nat /\ AtMost(x, m) <= m /\ AtMost(x, m) <= x
BY DEF AtMost

\* Narrowed without its division.
LEMMA HalfOf ==
    ASSUME NEW w \in Nat
    PROVE  w \div 2 + 1 \in Nat /\ (w > 0 => w \div 2 + 1 <= w) /\ (w = 0 => w \div 2 + 1 = 1)
OBVIOUS

\* What each algorithm makes of the minimum lies within one update of it.
LEMMA OneUpdateBounds ==
    ASSUME CwTypeOK
    PROVE  /\ cwMin \in Nat
           /\ cwMin <= OneUpdate(cwMin)
           /\ Widened(cwMin) \in Nat /\ Widened(cwMin) <= OneUpdate(cwMin)
           /\ Narrowed(cwMin) \in Nat /\ Narrowed(cwMin) <= OneUpdate(cwMin)
<1>1. cwMin \in Nat /\ cwMin <= CwMax /\ CwMax \in Nat /\ CwMax > 0 /\ LinBackoff \in Nat
  BY Cat4Assumption DEF Cat4Assumption, CwTypeOK
<1>2. cwMin <= OneUpdate(cwMin)
  BY <1>1 DEF OneUpdate, AtMost
<1>3. Widened(cwMin) \in Nat /\ Widened(cwMin) <= OneUpdate(cwMin)
  <2>1. backoffType \in {Linear, EIED, Constant, BEB}
    BY Cat4Assumption DEF Cat4Assumption, CwTypeOK
  <2>2. CASE backoffType \in {EIED, BEB}
    <3>1. Widened(cwMin) = AtMost(2 * (cwMin + 1) - 1, CwMax)
      BY <2>2 DEF Widened, Linear, EIED, Constant, BEB
    <3> QED BY <1>1, <3>1 DEF OneUpdate, AtMost
  <2>3. CASE backoffType = Linear
    <3>1. Widened(cwMin) = AtMost(LinBackoff + cwMin, CwMax)
      BY <2>3 DEF Widened, Linear, EIED, Constant, BEB
    <3> QED BY <1>1, <3>1 DEF OneUpdate, AtMost
  <2>4. CASE backoffType = Constant
    <3>1. Widened(cwMin) = cwMin
      BY <2>4 DEF Widened, Linear, EIED, Constant, BEB
    <3> QED BY <1>1, <1>2, <3>1
  <2> QED BY <2>1, <2>2, <2>3, <2>4
<1>4. Narrowed(cwMin) \in Nat /\ Narrowed(cwMin) <= OneUpdate(cwMin)
  <2>1. CASE backoffType = EIED
    <3>1. Narrowed(cwMin) = cwMin \div 2 + 1
      BY <2>1 DEF Narrowed
    <3>2. Narrowed(cwMin) \in Nat /\ (cwMin > 0 => Narrowed(cwMin) <= cwMin)
             /\ (cwMin = 0 => Narrowed(cwMin) = 1)
      BY <1>1, <3>1, HalfOf
    <3>3. OneUpdate(cwMin) \in Nat /\ (cwMin = 0 => OneUpdate(cwMin) >= 1)
      BY <1>1 DEF OneUpdate, AtMost
    <3> HIDE DEF Narrowed
    <3> QED BY <1>1, <1>2, <3>2, <3>3
  <2>2. CASE backoffType # EIED
    BY <1>1, <1>2, <2>2 DEF Narrowed
  <2> QED BY <2>1, <2>2
<1> QED BY <1>1, <1>2, <1>3, <1>4

\* A draw leaves a window made of the minimum in force, and stays inside it.
LEMMA DrawStep ==
    ASSUME CwTypeOK, RequestBackoff
    PROVE  cw' \in Nat /\ cw' <= OneUpdate(cwMin) /\ slots' \in 0 .. cw'
<1>1. cw' \in {cwMin, Widened(cwMin), Narrowed(cwMin)}
  BY DEF RequestBackoff, AfterInitialize
<1>2. slots' \in 0 .. cw'
  BY DEF RequestBackoff
<1> QED BY <1>1, <1>2, OneUpdateBounds

\* Type correctness of the contention window of NrCat4LbtAccessManager, counters
\* included: it needs the bounds on what the algorithms return.
THEOREM Cat4CwTyped == CwSpec => []CwTypeOK
<1>1. CwInit => CwTypeOK
  <2>1. 0 \in 0 .. RetryLimit
    BY Cat4Assumption DEF Cat4Assumption
  <2> SUFFICES ASSUME CwInit PROVE CwTypeOK
    OBVIOUS
  <2>2. 0 \in Nat /\ cw = 0 /\ acks = 0 /\ nacks = 0 /\ slots = 0 /\ attempts = 0
        /\ drawnFrom = 0
    BY DEF CwInit
  <2>3. requested \in BOOLEAN /\ cwMin \in CwMins /\ backoffType \in BackoffTypes
          /\ rule \in UpdateRules
    BY ZenonT(20) DEF CwInit
  <2> QED BY <2>1, <2>2, <2>3, ZenonT(20) DEF CwTypeOK
<1>2. CwTypeOK /\ [CwNext]_cwVars => CwTypeOK'
  <2> SUFFICES ASSUME CwTypeOK, [CwNext]_cwVars
               PROVE  CwTypeOK'
    OBVIOUS
  <2>0. RetryLimit \in Nat
    BY Cat4Assumption DEF Cat4Assumption
  <2>1. CASE RequestNoBackoff
    BY <2>1, OneUpdateBounds
       DEF RequestNoBackoff, AfterInitialize, CwTypeOK, config
  <2>2. CASE RequestBackoff
    <3>1. cw' \in Nat /\ slots' \in Nat /\ drawnFrom' \in Nat
      BY <2>2, DrawStep, Cat4Assumption DEF RequestBackoff
    <3>2. attempts' \in 0 .. RetryLimit
      <4>1. attempts' = attempts \/ (attempts < RetryLimit /\ attempts' = attempts + 1)
              \/ attempts' = 0
        BY <2>2 DEF RequestBackoff, TriesLeft
      <4> QED BY <2>0, <4>1 DEF CwTypeOK
    <3>3. acks' = 0 /\ nacks' = 0 /\ requested' = TRUE /\ UNCHANGED config
      BY <2>2 DEF RequestBackoff
    <3> QED BY <3>1, <3>2, <3>3 DEF CwTypeOK, config
  <2>3. CASE Granted
    BY <2>3 DEF Granted, CwTypeOK, config
  <2>4. CASE UpdateCwBasedOnHarq
    BY <2>4 DEF UpdateCwBasedOnHarq, CwTypeOK, config
  <2>5. CASE ChangeCwParameters
    BY <2>5 DEF ChangeCwParameters, CwTypeOK
  <2>6. CASE UNCHANGED cwVars
    BY <2>6 DEF CwTypeOK, cwVars
  <2> QED BY <2>1, <2>2, <2>3, <2>4, <2>5, <2>6 DEF CwNext
<1> QED BY <1>1, <1>2, PTL DEF CwSpec

\* However many HARQ failures GetBackoffSlots has counted, it draws from a window within
\* one update of the minimum in force.  The attributes promise more (see the run
\* cat4_growth): this says for all parameters how much the code does instead.
THEOREM DrawsStayWithinOneUpdate ==
    CwSpec => DrawWithinOneUpdate
<1>1. CwTypeOK /\ [CwNext]_cwVars =>
        [requested' /\ ~requested => cw' <= OneUpdate(cwMin) /\ slots' <= cw']_cwVars
  <2> SUFFICES ASSUME CwTypeOK, CwNext, requested' /\ ~requested
               PROVE  cw' <= OneUpdate(cwMin) /\ slots' <= cw'
    OBVIOUS
  <2>1. RequestBackoff
    BY DEF CwNext, RequestNoBackoff, Granted, UpdateCwBasedOnHarq,
           ChangeCwParameters
  <2> QED BY <2>1, DrawStep, Cat4Assumption
<1> QED BY <1>1, Cat4CwTyped, PTL DEF CwSpec, DrawWithinOneUpdate

\* Feedback of one kind decides UpdateFailed the same way under every rule.
LEMMA OneKindOfFeedback ==
    ASSUME CwTypeOK
    PROVE  /\ nacks > 0 /\ acks = 0 => UpdateFailed
           /\ acks > 0 /\ nacks = 0 => ~UpdateFailed
<1>1. acks \in Nat /\ nacks \in Nat
  BY DEF CwTypeOK
<1>2. rule \in {"ALL_NACKS", "ANY_NACK", "NACKS_10_PERCENT", "NACKS_80_PERCENT"}
  BY Cat4Assumption DEF Cat4Assumption, CwTypeOK
<1>3. CASE rule = "ALL_NACKS"
  BY <1>1, <1>3 DEF UpdateFailed
<1>4. CASE rule = "ANY_NACK"
  BY <1>1, <1>4 DEF UpdateFailed
<1>5. CASE rule = "NACKS_10_PERCENT"
  BY <1>1, <1>5 DEF UpdateFailed
<1>6. CASE rule = "NACKS_80_PERCENT"
  BY <1>1, <1>6 DEF UpdateFailed
<1> QED BY <1>2, <1>3, <1>4, <1>5, <1>6

\* An algorithm that adapts widens a window short of the maximum, if the linear one has
\* an increment, and narrows none, if the minimum is not 0.
LEMMA AdaptingAlgorithms ==
    ASSUME CwTypeOK, backoffType # Constant,
           LinBackoff > 0, 0 \notin CwMins
    PROVE  /\ Widened(cwMin) > cwMin \/ Widened(cwMin) = CwMax
           /\ Narrowed(cwMin) <= cwMin
<1>1. cwMin \in Nat /\ cwMin > 0 /\ CwMax \in Nat /\ LinBackoff \in Nat
  BY Cat4Assumption DEF Cat4Assumption, CwTypeOK
<1>2. CASE backoffType \in {EIED, BEB}
  <2>1. Widened(cwMin) = AtMost(2 * (cwMin + 1) - 1, CwMax)
    BY <1>2 DEF Widened, Linear, EIED, Constant, BEB
  <2>2. Narrowed(cwMin) <= cwMin
    BY <1>1, HalfOf DEF Narrowed
  <2> QED BY <1>1, <2>1, <2>2 DEF AtMost
<1>3. CASE backoffType = Linear
  <2>1. Widened(cwMin) = AtMost(LinBackoff + cwMin, CwMax)
    BY <1>3 DEF Widened, Linear, EIED, Constant, BEB
  <2>2. Narrowed(cwMin) = cwMin
    BY <1>3 DEF Narrowed, Linear, EIED
  <2> QED BY <1>1, <2>1, <2>2 DEF AtMost
<1> QED BY <1>2, <1>3, Cat4Assumption DEF Cat4Assumption, CwTypeOK

\* Whatever the rule and the algorithm, NACKs alone widen the window of the next draw and
\* ACKs alone do not (GetBackoffSlots, nr-lbt-access-manager.cc), for every increment and
\* minimum but 0: an increment of 0 widens nothing, and EIED takes a minimum of 0, which
\* the agent's action space has, to 0 / 2 + 1.
THEOREM WindowFollowsFeedback ==
    ASSUME LinBackoff > 0, 0 \notin CwMins
    PROVE  CwSpec => FeedbackMovesWindow
<1>1. CwTypeOK /\ [CwNext]_cwVars =>
        [requested' /\ ~requested /\ backoffType # Constant =>
            /\ nacks > 0 /\ acks = 0 => cw' > cwMin \/ cw' = CwMax
            /\ acks > 0 /\ nacks = 0 => cw' <= cwMin]_cwVars
  <2> SUFFICES ASSUME CwTypeOK, CwNext, requested' /\ ~requested,
                      backoffType # Constant
               PROVE  /\ nacks > 0 /\ acks = 0 => cw' > cwMin \/ cw' = CwMax
                      /\ acks > 0 /\ nacks = 0 => cw' <= cwMin
    OBVIOUS
  <2>1. RequestBackoff
    BY DEF CwNext, RequestNoBackoff, Granted, UpdateCwBasedOnHarq,
           ChangeCwParameters
  <2>2. cwMin \in Nat
    BY Cat4Assumption, OneUpdateBounds
  <2>3. /\ nacks > 0 /\ acks = 0 => cw' = Widened(cwMin)
        /\ acks > 0 /\ nacks = 0 => cw' \in {cwMin, Narrowed(cwMin)}
    BY <2>1, OneKindOfFeedback
       DEF RequestBackoff, AfterInitialize, CwTypeOK
  <2> QED BY <2>2, <2>3, Cat4Assumption, AdaptingAlgorithms
<1> QED BY <1>1, Cat4CwTyped, PTL DEF CwSpec, FeedbackMovesWindow

=============================================================================
