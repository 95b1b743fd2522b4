----------------------- MODULE GnbChannelAccess_proof -----------------------
(***************************************************************************)
(* The assertions of the gNB's slot loop, its agreement with the access    *)
(* manager, what is on the air, and the queue of allocations, for every    *)
(* length of the slot, every latency, set of grants and number of slots.   *)
(***************************************************************************)
EXTENDS GnbChannelAccess_props, FiniteSetTheorems, SequenceTheorems, TLAPS

\* The state alone says whether the timer runs: it does not while there is no grant.
AccessInv ==
    /\ status \in {"NONE", "REQUESTED", "GRANTED", "TO_LOSE"}
    /\ startDue \in BOOLEAN
    /\ asked \in BOOLEAN
    /\ startDue => status # "TO_LOSE"
    /\ status = "REQUESTED" <=> asked
    /\ status \in {"NONE", "REQUESTED"} => lostTimer = Off

\* The invariant implies both properties.
LEMMA AccessInvSuffices == AccessInv => AssertionsHold /\ AgreesWithManager
BY DEF AccessInv, AssertionsHold, AgreesWithManager

\* Every step of the gNB, of the manager and of time preserves it.
LEMMA AccessInvInductive == AccessInv /\ [Next]_vars => AccessInv'
<1> SUFFICES ASSUME AccessInv, [Next]_vars PROVE AccessInv'
    OBVIOUS
<1> USE DEF AccessInv
<1>1. CASE StartSlotGranted
    BY <1>1 DEF StartSlotGranted, BeginSlot, DoStartSlot
<1>2. CASE StartSlotGrantedAtOnce
    BY <1>2 DEF StartSlotGrantedAtOnce, BeginSlot, DoStartSlot
<1>3. CASE StartSlotWaits
    <2>1. /\ ~startDue' /\ startDue' \in BOOLEAN
          /\ lostTimer' = lostTimer
        BY <1>3 DEF StartSlotWaits, BeginSlot
    <2>2. CASE status = "NONE" /\ status' = "REQUESTED" /\ asked' = TRUE
        BY <2>1, <2>2
    <2>3. CASE status \in {"NONE", "REQUESTED"} /\ UNCHANGED <<status, asked>>
        BY <2>1, <2>3
    <2> QED
        BY <1>3, <2>2, <2>3 DEF StartSlotWaits
<1>4. CASE StartSlotEmpty
    BY <1>4 DEF StartSlotEmpty, BeginSlot
<1>5. CASE EndSlot
    BY <1>5 DEF EndSlot
<1>6. CASE AccessGranted
    BY <1>6 DEF AccessGranted
<1>7. CASE GrantTooShort
    BY <1>7 DEF GrantTooShort
<1>8. CASE AccessDenied
    BY <1>8 DEF AccessDenied
<1>9. CASE ChannelAccessLost
    BY <1>9 DEF ChannelAccessLost, Off
<1>10. CASE DoSendReservationSignal
    BY <1>10 DEF DoSendReservationSignal
<1>11. CASE Tick
    BY <1>11 DEF Tick, Countdown
<1>12. CASE UNCHANGED vars
    BY <1>12 DEF vars
<1> QED
    BY <1>1, <1>2, <1>3, <1>4, <1>5, <1>6, <1>7, <1>8, <1>9, <1>10, <1>11, <1>12
    DEF Next, StartSlot, Answer

\* In every execution no slot begins in TO_LOSE, and no grant finds the timer running.
THEOREM GnbAssertions == Spec => []AssertionsHold
<1>1. Init => AccessInv
    BY DEF Init, AccessInv
<1> QED
    BY <1>1, AccessInvInductive, AccessInvSuffices, PTL DEF Spec

\* In every execution the gNB waits exactly while the manager owes it an answer.
THEOREM GnbAgrees == Spec => []AgreesWithManager
<1>1. Init => AccessInv
    BY DEF Init, AccessInv
<1> QED
    BY <1>1, AccessInvInductive, AccessInvSuffices, PTL DEF Spec

-----------------------------------------------------------------------------

\* A slot that is about to begin finds no reservation signal on the air: its predecessor
\* is over, or it is the first one, before which nothing was granted.
ReservationInv ==
    /\ sinceStart \in 0 .. Period
    /\ reserveLeft \in Nat
    /\ reserveLeft > 0 => sinceStart + reserveLeft < Period
    /\ startDue => (sinceStart = Period \/ (reserveEvent = Off /\ ~asked))
    /\ startDue => reserveLeft = 0

\* Every step of the gNB, of the manager and of time preserves it.
LEMMA ReservationInvInductive ==
    ReservationInv /\ [Next]_vars => ReservationInv'
<1> SUFFICES ASSUME ReservationInv, [Next]_vars PROVE ReservationInv'
    OBVIOUS
<1> USE GnbAssumption DEF ReservationInv
<1>1. CASE StartSlotGranted
    BY <1>1 DEF StartSlotGranted, BeginSlot
<1>2. CASE StartSlotGrantedAtOnce
    BY <1>2 DEF StartSlotGrantedAtOnce, BeginSlot
<1>3. CASE StartSlotWaits
    BY <1>3 DEF StartSlotWaits, BeginSlot, air
<1>4. CASE StartSlotEmpty
    BY <1>4 DEF StartSlotEmpty, BeginSlot, air
<1>5. CASE EndSlot
    BY <1>5 DEF EndSlot, air
<1>6. CASE AccessGranted
    BY <1>6 DEF AccessGranted, air
<1>7. CASE GrantTooShort
    BY <1>7 DEF GrantTooShort, air
<1>8. CASE AccessDenied
    BY <1>8 DEF AccessDenied, air
<1>9. CASE ChannelAccessLost
    BY <1>9 DEF ChannelAccessLost, air
<1>10. CASE DoSendReservationSignal
    <2>1. sinceStart' = sinceStart /\ startDue' = startDue
        BY <1>10 DEF DoSendReservationSignal
    <2>2. CASE UNCHANGED reserveLeft
        BY <1>10, <2>1, <2>2 DEF DoSendReservationSignal, Off
    <2>3. CASE ReservationLength >= 0 /\ reserveLeft' = ReservationLength
        <3>1. sinceStart # Period /\ reserveEvent # Off
            BY <1>10, <2>3 DEF DoSendReservationSignal, ReservationLength, Off
        <3> QED
            BY <2>1, <2>3, <3>1 DEF ReservationLength
    <2> QED
        BY <1>10, <2>2, <2>3 DEF DoSendReservationSignal
<1>11. CASE Tick
    BY <1>11 DEF Tick, Less
<1>12. CASE UNCHANGED vars
    BY <1>12 DEF vars, air
<1> QED
    BY <1>1, <1>2, <1>3, <1>4, <1>5, <1>6, <1>7, <1>8, <1>9, <1>10, <1>11, <1>12
    DEF Next, StartSlot, Answer

\* In every execution a reservation signal ends before its slot.
THEOREM ReservationFits == Spec => []ReservationEndsWithSlot
<1>1. Init => ReservationInv
    BY GnbAssumption DEF Init, ReservationInv
<1>2. ReservationInv => ReservationEndsWithSlot
    BY DEF ReservationInv, ReservationEndsWithSlot
<1> QED
    BY <1>1, <1>2, ReservationInvInductive, PTL DEF Spec

-----------------------------------------------------------------------------

\* m whole slots, of which the first is the one after this, still fit in what the
\* grant is used for, and
\* the timer stops them before one more begins.
Covers(m) ==
    /\ m \in Nat
    /\ usableLeft >= m * Period + (Period - sinceStart)
    /\ lostTimer < m * Period + (Period - sinceStart)

\* A reservation signal that is still to be sent, in this slot or in the next one, ends
\* within it too.
Reservable ==
    /\ usableLeft >= Period - sinceStart
    /\ reserveEvent >= Period - sinceStart => usableLeft >= 2 * Period - sinceStart

Holding == status \in {"GRANTED", "TO_LOSE"}

AirInv ==
    /\ sinceStart \in 0 .. Period
    /\ usableLeft \in Nat /\ txLeft \in Nat /\ reserveLeft \in Nat
    /\ lostTimer \in Nat \union {Off}
    /\ reserveEvent \in 0 .. Micro \union {Off}
    /\ txLeft < Period /\ reserveLeft < Period
    /\ startDue => (sinceStart = Period \/ status = "NONE")
    /\ txLeft <= usableLeft /\ reserveLeft <= usableLeft
    /\ reserveEvent # Off => Reservable
    /\ Holding => lostTimer # Off /\ \E m \in Nat : Covers(m)

\* The slots a grant is counted as begin after what is left of this one and fit in what it
\* is used for.
LEMMA SlotsFit ==
    ASSUME NEW t \in Nat, NEW toNext \in 0 .. Period, t >= Period
    PROVE  /\ SlotsGranted(t, toNext) \in Nat \ {0}
           /\ SlotsGranted(t, toNext) * Period + toNext <= Usable(t, toNext)
           /\ Period * SlotsGranted(t, toNext) = SlotsGranted(t, toNext) * Period
           /\ SlotsGranted(t, toNext) * Period >= Period
           /\ Usable(t, toNext) \in Nat /\ Usable(t, toNext) >= toNext + Period
<1> DEFINE q == (t - toNext) \div Period
<1>1. t - toNext \in Nat /\ Period \in Nat \ {0} /\ toNext \in Nat
    BY GnbAssumption
<1>2. \A x \in Nat, p \in Nat \ {0} : x \div p \in Nat /\ (x \div p) * p <= x
    OBVIOUS
<1>3. \A n \in Nat \ {0}, p \in Nat \ {0} : n * p = p * n /\ n * p >= p /\ n * p \in Nat
    OBVIOUS
<1>4. q \in Nat /\ q * Period <= t - toNext
    BY <1>1, <1>2
<1>5. Usable(t, toNext) \in Nat /\ Usable(t, toNext) >= toNext + Period /\ Usable(t, toNext) >= t
    BY <1>1 DEF Usable
<1>6. SlotsGranted(t, toNext) = IF q < 1 THEN 1 ELSE q
    BY DEF SlotsGranted
<1> HIDE DEF q
<1>7. CASE q < 1
    BY <1>1, <1>5, <1>6, <1>7
<1>8. CASE q >= 1
    BY <1>1, <1>3, <1>4, <1>5, <1>6, <1>8
<1> QED
    BY <1>4, <1>7, <1>8

\* What Granted establishes, with "toNext" to go.
LEMMA GrantedCovers ==
    ASSUME AirInv, NEW t \in Grants, NEW toNext \in 0 .. Period, Granted(t, toNext)
    PROVE  /\ usableLeft' \in Nat /\ usableLeft' >= toNext + Period
           /\ lostTimer' \in Nat
           /\ reserveEvent' \in 0 .. Micro \union {Off}
           /\ \E m \in Nat : /\ usableLeft' >= m * Period + toNext
                            /\ lostTimer' < m * Period + toNext
<1>1. t \in Nat /\ t >= Period /\ usableLeft' = Usable(t, toNext)
    BY GnbAssumption DEF Granted
<1>2. PICK k \in Nat \ {0} : k = SlotsGranted(t, toNext)
    BY <1>1, SlotsFit
<1>3. /\ k * Period + toNext <= usableLeft' /\ Period * k = k * Period
      /\ k * Period >= Period /\ usableLeft' \in Nat /\ usableLeft' >= toNext + Period
    BY <1>1, <1>2, SlotsFit
<1>4. lostTimer' = Period * k - 1
    BY <1>2 DEF Granted
<1>5. \A n \in Nat, p \in Nat \ {0} : n * p \in Nat
    OBVIOUS
<1>6. k * Period \in Nat
    BY <1>5, GnbAssumption
<1>7. lostTimer' \in Nat /\ lostTimer' < k * Period + toNext
    BY <1>3, <1>4, <1>6, GnbAssumption
<1>8. reserveEvent' \in 0 .. Micro \union {Off}
    BY GnbAssumption DEF AirInv, Granted
<1> QED
    BY <1>3, <1>7, <1>8

\* Every step preserves it: where a slot begins within a grant, one slot fewer is to come.
LEMMA AirInvInductive ==
    AccessInv /\ ReservationInv /\ AirInv /\ [Next]_vars => AirInv'
<1> SUFFICES ASSUME AccessInv, ReservationInv, AirInv, [Next]_vars PROVE AirInv'
    OBVIOUS
<1>a. Period \in Nat \ {0} /\ Micro \in 1 .. Period - 1 /\ CtrlTime \in 1 .. Period - 1
    BY GnbAssumption
<1>b. \A m \in Nat, p \in Nat \ {0} : m * p \in Nat
    OBVIOUS
<1>c. AirInv
    OBVIOUS
<1>d. reserveEvent \in Nat => reserveEvent < Period
    BY <1>a DEF AirInv, Off
<1>e. ASSUME UNCHANGED <<status, sinceStart, startDue, lostTimer, reserveEvent, air, left>>
      PROVE  AirInv'
    BY <1>e DEF AirInv, Holding, Covers, Reservable, air, left
<1>f. ASSUME startDue, sinceStart' = 0, reserveEvent' = reserveEvent, UNCHANGED left
      PROVE  (reserveEvent # Off => Reservable)'
    BY <1>a, <1>d, <1>f DEF AirInv, ReservationInv, Reservable, left, Off
<1>1. CASE StartSlotGranted
    <2>1. /\ startDue /\ ~startDue' /\ sinceStart' = 0
          /\ status = "GRANTED" /\ status' \in {"GRANTED", "TO_LOSE"}
          /\ UNCHANGED <<lostTimer, reserveEvent, reserveLeft, left>> /\ usableLeft' = usableLeft
          /\ txLeft' \in {txLeft, 0, Period - 1, CtrlTime}
        BY <1>1 DEF StartSlotGranted, BeginSlot, DoStartSlot, left
    <2>2. sinceStart = Period
        BY <2>1 DEF AirInv
    <2>3. PICK m \in Nat : Covers(m)
        BY <2>1 DEF AirInv, Holding
    <2>4. usableLeft >= m * Period /\ lostTimer < m * Period /\ lostTimer \in Nat
        BY <1>a, <1>b, <2>1, <2>2, <2>3 DEF Covers, AirInv, Holding
    <2>5. \A n \in Nat, p \in Nat \ {0}, x \in Nat :
              x < n * p => n - 1 \in Nat /\ (n - 1) * p + p = n * p
        OBVIOUS
    <2>6. m - 1 \in Nat /\ (m - 1) * Period + Period = m * Period
        BY <1>a, <2>4, <2>5
    <2>7. Covers(m - 1)'
        BY <1>a, <1>b, <2>1, <2>4, <2>6 DEF Covers, AirInv
    <2>8. usableLeft >= Period
        BY <1>a, <1>b, <2>4, <2>6 DEF AirInv
    <2>9. txLeft' \in Nat /\ txLeft' < Period /\ txLeft' <= usableLeft'
        BY <1>a, <2>1, <2>8 DEF AirInv
    <2>10. (Holding => lostTimer # Off /\ \E n \in Nat : Covers(n))'
        BY <2>1, <2>4, <2>6, <2>7 DEF Off
    <2> QED
        <3>1. (reserveEvent # Off => Reservable)'
            BY <1>f, <2>1
        <3> QED
            BY <1>a, <2>1, <2>9, <2>10, <3>1 DEF AirInv
<1>2. CASE StartSlotGrantedAtOnce
    <2>1. /\ ~startDue' /\ sinceStart' = 0
          /\ UNCHANGED reserveLeft
          /\ txLeft' \in {txLeft, 0, Period - 1, CtrlTime}
        BY <1>2 DEF StartSlotGrantedAtOnce, BeginSlot, DoStartSlot
    <2>2. PICK t \in Grants : Granted(t, Period)
        BY <1>2 DEF StartSlotGrantedAtOnce
    <2>3. Period \in 0 .. Period
        BY <1>a
    <2>4. /\ usableLeft' \in Nat /\ usableLeft' >= Period + Period
          /\ lostTimer' \in Nat
          /\ reserveEvent' \in 0 .. Micro \union {Off}
          /\ \E m \in Nat : /\ usableLeft' >= m * Period + Period
                           /\ lostTimer' < m * Period + Period
        BY <2>2, <2>3, GrantedCovers
    <2>5. PICK m \in Nat : /\ usableLeft' >= m * Period + Period
                           /\ lostTimer' < m * Period + Period
        BY <2>4
    <2>6. Covers(m)'
        BY <1>a, <1>b, <2>1, <2>5 DEF Covers
    <2>7. txLeft' \in Nat /\ txLeft' < Period /\ txLeft' <= usableLeft'
        BY <1>a, <2>1, <2>4 DEF AirInv
    <2>8. reserveLeft' \in Nat /\ reserveLeft' < Period /\ reserveLeft' <= usableLeft'
        BY <1>a, <2>1, <2>4 DEF AirInv
    <2>9. (Holding => lostTimer # Off /\ \E n \in Nat : Covers(n))'
        BY <2>4, <2>6 DEF Off
    <2>10. sinceStart' \in 0 .. Period /\ lostTimer' \in Nat \union {Off}
        BY <1>a, <2>1, <2>4
    <2>11. (reserveEvent # Off => Reservable)'
        BY <1>a, <2>1, <2>4 DEF Reservable
    <2> QED
        BY <2>1, <2>4, <2>7, <2>8, <2>9, <2>10, <2>11 DEF AirInv
<1>3. CASE StartSlotWaits
    <2>1. /\ startDue /\ ~startDue' /\ sinceStart' = 0
          /\ status' \in {"NONE", "REQUESTED"}
          /\ UNCHANGED <<lostTimer, reserveEvent, air, left>>
        BY <1>3 DEF StartSlotWaits, BeginSlot
    <2>2. ~Holding'
        BY <2>1 DEF Holding
    <2>3. sinceStart' \in 0 .. Period
        BY <1>a, <2>1
    <2>4. (reserveEvent # Off => Reservable)'
        BY <1>f, <2>1
    <2> QED
        BY <2>1, <2>2, <2>3, <2>4 DEF AirInv, air, left
<1>4. CASE StartSlotEmpty
    <2>1. /\ startDue /\ ~startDue' /\ sinceStart' = 0
          /\ status' \in {"NONE", "REQUESTED"}
          /\ UNCHANGED <<lostTimer, reserveEvent, air, left>>
        BY <1>4 DEF StartSlotEmpty, BeginSlot
    <2>2. ~Holding'
        BY <2>1 DEF Holding
    <2>3. sinceStart' \in 0 .. Period
        BY <1>a, <2>1
    <2>4. (reserveEvent # Off => Reservable)'
        BY <1>f, <2>1
    <2> QED
        BY <2>1, <2>2, <2>3, <2>4 DEF AirInv, air, left
<1>5. CASE EndSlot
    <2>1. sinceStart = Period /\ UNCHANGED <<sinceStart, reserveEvent, air, left>>
        BY <1>5 DEF EndSlot
    <2>2. CASE status' = "NONE" /\ lostTimer' = Off
        BY <2>1, <2>2 DEF AirInv, Holding, Reservable, air, left
    <2>3. CASE UNCHANGED <<status, lostTimer>>
        BY <2>1, <2>3 DEF AirInv, Holding, Covers, Reservable, air, left
    <2> QED
        BY <1>5, <2>2, <2>3 DEF EndSlot
<1>6. CASE AccessGranted
    <2>1. /\ asked /\ status' = "GRANTED"
          /\ UNCHANGED <<sinceStart, startDue, air>>
        BY <1>6 DEF AccessGranted
    <2>2. startDue' => sinceStart' = Period
        BY <2>1 DEF ReservationInv
    <2>3. PICK t \in Grants : Granted(t, ToNextSlot)
        BY <1>6 DEF AccessGranted
    <2>4. ToNextSlot \in 0 .. Period /\ ToNextSlot = Period - sinceStart'
        BY <1>a, <2>1 DEF AirInv, ToNextSlot
    <2>5. /\ usableLeft' \in Nat /\ usableLeft' >= ToNextSlot + Period
          /\ lostTimer' \in Nat
          /\ reserveEvent' \in 0 .. Micro \union {Off}
          /\ \E m \in Nat : /\ usableLeft' >= m * Period + ToNextSlot
                           /\ lostTimer' < m * Period + ToNextSlot
        BY <2>3, <2>4, GrantedCovers
    <2>6. PICK m \in Nat : /\ usableLeft' >= m * Period + ToNextSlot
                           /\ lostTimer' < m * Period + ToNextSlot
        BY <2>5
    <2>7. Covers(m)'
        BY <1>a, <1>b, <2>1, <2>4, <2>6 DEF Covers
    <2>8. /\ txLeft' \in Nat /\ txLeft' < Period /\ txLeft' <= usableLeft'
          /\ reserveLeft' \in Nat /\ reserveLeft' < Period /\ reserveLeft' <= usableLeft'
        BY <1>a, <2>1, <2>4, <2>5 DEF AirInv, air
    <2>9. (Holding => lostTimer # Off /\ \E n \in Nat : Covers(n))'
        BY <2>5, <2>7 DEF Off
    <2>10. (reserveEvent # Off => Reservable)'
        BY <1>a, <2>1, <2>4, <2>5 DEF Reservable, AirInv
    <2>11. sinceStart' \in 0 .. Period
        BY <2>1 DEF AirInv
    <2> QED
        BY <2>2, <2>5, <2>8, <2>9, <2>10, <2>11 DEF AirInv
<1>7. CASE GrantTooShort
    BY <1>7 DEF GrantTooShort, AirInv, Holding, Reservable, air, left
<1>8. CASE AccessDenied
    BY <1>8 DEF AccessDenied, AirInv, Holding, Reservable, air, left
<1>9. CASE ChannelAccessLost
    BY <1>9 DEF ChannelAccessLost, AirInv, Holding, Reservable, air, left
<1>10. CASE DoSendReservationSignal
    <2>1. /\ reserveEvent = 0 /\ reserveEvent' = Off
          /\ UNCHANGED <<status, sinceStart, startDue, lostTimer, txLeft>>
          /\ usableLeft' = usableLeft
        BY <1>10 DEF DoSendReservationSignal, left
    <2>2. usableLeft >= Period - sinceStart
        BY <1>a, <2>1 DEF AirInv, Reservable, Off
    <2>3. reserveLeft' \in Nat /\ reserveLeft' < Period /\ reserveLeft' <= usableLeft'
        <3>1. CASE UNCHANGED reserveLeft
            BY <2>1, <3>1 DEF AirInv
        <3>2. CASE ReservationLength >= 0 /\ reserveLeft' = ReservationLength
            BY <1>a, <2>1, <2>2, <3>2 DEF AirInv, ReservationLength
        <3> QED
            BY <1>10, <3>1, <3>2 DEF DoSendReservationSignal
    <2>4. (Holding => lostTimer # Off /\ \E n \in Nat : Covers(n))'
        BY <2>1 DEF AirInv, Holding, Covers
    <2> QED
        BY <2>1, <2>3, <2>4 DEF AirInv
<1>11. CASE Tick
    <2>1. /\ ~startDue' /\ sinceStart < Period /\ sinceStart' = sinceStart + 1
          /\ lostTimer # 0 /\ reserveEvent # 0
          /\ lostTimer' = Countdown(lostTimer) /\ reserveEvent' = Countdown(reserveEvent)
          /\ txLeft' = Less(txLeft) /\ reserveLeft' = Less(reserveLeft)
          /\ usableLeft' = Less(usableLeft) /\ UNCHANGED status
        BY <1>11 DEF Tick
    <2>2. /\ sinceStart' \in 0 .. Period /\ lostTimer' \in Nat \union {Off}
          /\ reserveEvent' \in 0 .. Micro \union {Off}
        BY <1>a, <2>1 DEF AirInv, Countdown, Off
    <2>3. /\ usableLeft' \in Nat /\ txLeft' \in Nat /\ reserveLeft' \in Nat
          /\ txLeft' < Period /\ reserveLeft' < Period
          /\ txLeft' <= usableLeft' /\ reserveLeft' <= usableLeft'
        BY <1>a, <2>1 DEF AirInv, Less
    <2>4. (reserveEvent # Off => Reservable)'
        BY <1>a, <2>1 DEF AirInv, Reservable, Countdown, Less, Off
    <2>5. CASE Holding
        <3>1. PICK m \in Nat : Covers(m)
            BY <2>5 DEF AirInv
        <3>2. lostTimer \in Nat \ {0} /\ lostTimer' = lostTimer - 1
            BY <2>1, <2>5 DEF AirInv, Countdown
        <3>3. usableLeft >= m * Period + (Period - sinceStart) /\ m * Period \in Nat
            BY <1>a, <1>b, <3>1 DEF Covers
        <3>4. usableLeft' = usableLeft - 1
            BY <1>a, <2>1, <3>3 DEF AirInv, Less
        <3>5. Covers(m)'
            BY <1>a, <2>1, <3>1, <3>2, <3>3, <3>4 DEF Covers, AirInv
        <3> QED
            BY <2>1, <2>2, <2>3, <2>4, <3>2, <3>5 DEF AirInv, Off
    <2>6. CASE ~Holding
        BY <2>1, <2>2, <2>3, <2>4, <2>6 DEF AirInv, Holding
    <2> QED
        BY <2>5, <2>6
<1>12. CASE UNCHANGED vars
    <2>1. UNCHANGED <<status, sinceStart, startDue, lostTimer, reserveEvent, air, left>>
        BY <1>12, Zenon DEF vars, air, left
    <2> QED
        BY <1>e, <2>1
<1> QED
    BY <1>1, <1>2, <1>3, <1>4, <1>5, <1>6, <1>7, <1>8, <1>9, <1>10, <1>11, <1>12
    DEF Next, StartSlot, Answer

\* Whatever the slot and the grants, nothing is on the air past the end of the last grant
\* or of the slot after the one it came in.
THEOREM AirWithinUse == Spec => []OnAirWithinUse
<1>1. Init => AccessInv /\ ReservationInv /\ AirInv
    <2>1. Init => AccessInv
        BY DEF Init, AccessInv
    <2>2. Init => ReservationInv
        BY GnbAssumption DEF Init, ReservationInv
    <2>3. Init => AirInv
        BY GnbAssumption DEF Init, AirInv, Holding, Off
    <2> QED
        BY <2>1, <2>2, <2>3
<1>2. AirInv => OnAirWithinUse
    BY DEF AirInv, OnAirWithinUse
<1> QED
    BY <1>1, <1>2, AccessInvInductive, ReservationInvInductive, AirInvInductive, PTL
    DEF Spec

-----------------------------------------------------------------------------
(* The queue of allocations.                                               *)

AtMostOne(S) == \A x, y \in S : x = y

\* The allocations of a queue: each has a slot of its own, "first" or a later one, and at
\* most one downlink and one uplink call.  Those with downlink come before slot "dl" and
\* have control; those with uplink come before slot "ul"; a dummy can only be the first.
Booked(q, first, dl, ul) ==
    /\ q \subseteq Allocation
    /\ \A a, b \in q : a.sfn = b.sfn => a = b
    /\ \A a \in q : a.sfn >= first
    /\ \A a \in q : AtMostOne(a.dl) /\ AtMostOne(a.ul)
    /\ \A a \in q : a.dl # {} => a.ctrl /\ a.sfn < dl
    /\ \A a \in q : a.ul # {} => a.sfn < ul
    /\ \A a \in q : a.dl = {} /\ a.ul = {} => a.sfn = first

\* The downlink calls that are not sent, "done" + 1 to "made", are in the queue in order.
Numbered(q, done, made) ==
    /\ \A a \in q : a.dl \subseteq done + 1 .. made
    /\ \A k \in done + 1 .. made : \E a \in q : k \in a.dl
    /\ \A a, b \in q : \A i \in a.dl, j \in b.dl : a.sfn < b.sfn => i < j

\* The slot that starts next.
NextStart == IF startDue THEN slot ELSE slot + 1

QueueInv ==
    /\ slot \in Nat /\ startDue \in BOOLEAN
    /\ calls \in Nat /\ sent \in Seq(Nat) /\ Len(sent) <= calls
    /\ Booked(queue, NextStart, NextStart + Latency, NextStart + Latency + N2Delay)
    /\ Numbered(queue, Len(sent), calls)
    /\ SentOnceInOrder

\* How many allocations of R come before b.
Before(R, b) == Cardinality({c \in R : c.sfn < b.sfn})

\* In a queue with a slot for each allocation, the number of those before one of them
\* leaves it where it is or moves it forward, and keeps the order.
LEMMA Places ==
    ASSUME NEW R \in SUBSET Allocation, \A a, b \in R : a.sfn = b.sfn => a = b,
           NEW lo \in Nat, \A a \in R : a.sfn >= lo
    PROVE  /\ \A b \in R : Before(R, b) \in Nat /\ lo + Before(R, b) <= b.sfn
           /\ \A b, c \in R : b.sfn < c.sfn => Before(R, b) < Before(R, c)
<1> DEFINE Earlier(b) == {c \in R : c.sfn < b.sfn}
<1>1. ASSUME NEW b \in R
      PROVE  /\ IsFiniteSet(Earlier(b)) /\ Before(R, b) \in Nat
             /\ lo + Before(R, b) <= b.sfn
    <2> DEFINE f == [c \in Earlier(b) |-> c.sfn]
    <2>1. b.sfn \in Nat /\ b.sfn >= lo
        BY DEF Allocation
    <2>2. f \in Injection(Earlier(b), lo .. b.sfn - 1)
        <3>1. \A c \in Earlier(b) : c.sfn \in lo .. b.sfn - 1
            BY <2>1 DEF Allocation
        <3>2. \A c, d \in Earlier(b) : f[c] = f[d] => c = d
            OBVIOUS
        <3> QED
            BY <3>1, <3>2 DEF Injection, IsInjective
    <2>3. /\ IsFiniteSet(lo .. b.sfn - 1)
          /\ Cardinality(lo .. b.sfn - 1) = IF lo > b.sfn - 1 THEN 0 ELSE b.sfn - lo
        <3>1. lo \in Int /\ b.sfn - 1 \in Int /\ (b.sfn - 1) - lo + 1 = b.sfn - lo
            BY <2>1
        <3>2. /\ IsFiniteSet(lo .. b.sfn - 1)
              /\ Cardinality(lo .. b.sfn - 1)
                    = IF lo > b.sfn - 1 THEN 0 ELSE (b.sfn - 1) - lo + 1
            BY <3>1, FS_Interval
        <3> QED
            BY <3>1, <3>2
    <2> HIDE DEF f
    <2>4. /\ IsFiniteSet(Earlier(b))
          /\ Cardinality(Earlier(b)) <= Cardinality(lo .. b.sfn - 1)
        BY <2>2, <2>3, FS_Injection
    <2>5. Cardinality(Earlier(b)) \in Nat
        BY <2>4, FS_CardinalityType
    <2> QED
        BY <2>1, <2>3, <2>4, <2>5 DEF Before
<1>2. ASSUME NEW b \in R, NEW c \in R, b.sfn < c.sfn
      PROVE  Before(R, b) < Before(R, c)
    <2>1. b.sfn \in Nat /\ c.sfn \in Nat /\ b \notin Earlier(b) /\ b \in Earlier(c)
        BY <1>2 DEF Allocation
    <2>2. Earlier(b) \union {b} \in SUBSET Earlier(c)
        BY <1>2 DEF Allocation
    <2>3. Cardinality(Earlier(b) \union {b}) = Cardinality(Earlier(b)) + 1
        BY <1>1, <2>1, FS_AddElement
    <2>4. Cardinality(Earlier(b) \union {b}) <= Cardinality(Earlier(c))
        BY <1>1, <2>2, FS_Subset
    <2>5. Before(R, b) \in Nat /\ Before(R, c) \in Nat
        BY <1>1
    <2>6. Before(R, b) + 1 <= Before(R, c)
        BY <2>3, <2>4 DEF Before
    <2> QED
        BY <2>5, <2>6
<1> QED
    BY <1>1, <1>2

\* Taking this slot's allocation off leaves the later ones, none of which is a dummy; and
\* what is taken off is this slot's, or a dummy.
LEMMA TakenOff ==
    ASSUME NEW d, NEW u, slot \in Nat, Booked(queue, slot, d, u)
    PROVE  /\ Booked(Rest, slot + 1, d, u)
           /\ \A a \in Rest : a.sfn >= slot + 1 /\ (a.dl # {} \/ a.ul # {})
           /\ Current \in Allocation /\ Current.sfn = slot
           /\ \/ /\ Current.dl = {} /\ Current.ul = {}
                 /\ \A a \in queue : a \in Rest
              \/ \E a \in queue : /\ a.sfn = slot /\ a.dl = Current.dl /\ a.ul = Current.ul
                                  /\ a.ctrl => Current.ctrl
                                  /\ \A b \in queue : b \in Rest \/ b = a
<1> DEFINE found == {a \in queue : a.sfn = slot}
<1>1. \A a \in queue : a \in Allocation /\ a.sfn \in Nat
    BY DEF Booked, Allocation
<1>2. \A a \in Rest : a \in queue /\ a.sfn >= slot + 1
    BY <1>1 DEF Booked, Rest
<1>3. \A a \in Rest : a.dl # {} \/ a.ul # {}
    BY <1>1, <1>2 DEF Booked
<1>4. Booked(Rest, slot + 1, d, u)
    BY <1>2, <1>3 DEF Booked
<1>5. CASE found = {}
    <2>1. Current = [Dummy EXCEPT !.ctrl = @ \/ BroadcastDue]
        BY <1>5 DEF Current
    <2>2. /\ Current \in Allocation /\ Current.sfn = slot
          /\ Current.dl = {} /\ Current.ul = {}
        BY <2>1 DEF Dummy, Allocation, BroadcastDue
    <2>3. \A a \in queue : a \in Rest
        BY <1>5 DEF Rest
    <2> QED
        BY <1>2, <1>3, <1>4, <2>2, <2>3
<1>6. CASE found # {}
    <2>1. PICK a \in found : Current = [a EXCEPT !.ctrl = @ \/ BroadcastDue]
        BY <1>6 DEF Current
    <2>2. a \in queue /\ a.sfn = slot /\ a \in Allocation
        BY <1>1
    <2>3. /\ Current \in Allocation /\ Current.sfn = slot
          /\ Current.dl = a.dl /\ Current.ul = a.ul /\ (a.ctrl => Current.ctrl)
        BY <2>1, <2>2 DEF Allocation, BroadcastDue
    <2>4. \A b \in queue : b \in Rest \/ b = a
        BY <2>2 DEF Rest, Booked
    <2> QED
        BY <1>2, <1>3, <1>4, <2>2, <2>3, <2>4
<1> QED
    BY <1>5, <1>6

\* What merging two allocations of a slot gives.
LEMMA Merged ==
    ASSUME NEW a \in Allocation, NEW b \in Allocation
    PROVE  /\ Merge(a, b) \in Allocation
           /\ Merge(a, b).sfn = a.sfn
           /\ Merge(a, b).dl = a.dl \union b.dl /\ Merge(a, b).ul = a.ul \union b.ul
           /\ Merge(a, b).ctrl = (a.ctrl \/ b.ctrl)
<1>1. /\ Stronger(a.dlData, b.dlData, "none") \in {"none", "part", "full"}
      /\ Stronger(a.ulData, b.ulData, "none") \in {"none", "srs", "data"}
    BY DEF Stronger, Allocation
<1>2. a.sfn \in Nat /\ a.dl \union b.dl \in SUBSET Nat /\ a.ul \union b.ul \in SUBSET Nat
    BY DEF Allocation
<1>3. (a.ctrl \/ b.ctrl) \in BOOLEAN
    OBVIOUS
<1> QED
    BY <1>1, <1>2, <1>3 DEF Merge, Allocation

\* A queue of allocations.
IsQueue(q) == q \subseteq Allocation

\* What is in a queue after PushBack: what was there, one merged with the allocation that
\* is pushed, or else that allocation besides.
LEMMA PushedBack ==
    ASSUME NEW q, IsQueue(q), NEW b \in Allocation
    PROVE  /\ \A x \in PushBack(q, b) :
                 \/ x \in q /\ x.sfn # b.sfn
                 \/ \E a \in q : a.sfn = b.sfn /\ x = Merge(a, b)
                 \/ x = b /\ \A a \in q : a.sfn # b.sfn
           /\ \A a \in q : \E x \in PushBack(q, b) : x.sfn = a.sfn /\ a.dl \subseteq x.dl
           /\ \E x \in PushBack(q, b) : x.sfn = b.sfn /\ b.dl \subseteq x.dl
<1>1. CASE \E a \in q : a.sfn = b.sfn
    <2>1. PushBack(q, b) = {IF a.sfn = b.sfn THEN Merge(a, b) ELSE a : a \in q}
        BY <1>1 DEF PushBack
    <2>2. \A a \in q : /\ Merge(a, b).sfn = a.sfn
                      /\ a.dl \subseteq Merge(a, b).dl /\ b.dl \subseteq Merge(a, b).dl
        BY Merged DEF IsQueue
    <2>3. \A x \in PushBack(q, b) :
                 \/ x \in q /\ x.sfn # b.sfn
                 \/ \E a \in q : a.sfn = b.sfn /\ x = Merge(a, b)
        BY <2>1
    <2>4. \A a \in q : \E x \in PushBack(q, b) : x.sfn = a.sfn /\ a.dl \subseteq x.dl
        BY <2>1, <2>2
    <2>5. \E x \in PushBack(q, b) : x.sfn = b.sfn /\ b.dl \subseteq x.dl
        BY <1>1, <2>1, <2>2
    <2> QED
        BY <2>3, <2>4, <2>5
<1>2. CASE ~\E a \in q : a.sfn = b.sfn
    BY <1>2 DEF PushBack
<1> QED
    BY <1>1, <1>2

\* A new downlink allocation for the slot after those that have one, and an uplink one
\* likewise, leave at most one call of each kind in a slot.
LEMMA AddedBooked ==
    ASSUME NEW q, NEW b \in Allocation,
           NEW first \in Nat, NEW d \in Nat, NEW u \in Nat, NEW d2 \in Nat, NEW u2 \in Nat,
           Booked(q, first, d, u), d <= d2, u <= u2,
           b.sfn >= first, b.dl # {} \/ b.ul # {}, AtMostOne(b.dl), AtMostOne(b.ul),
           b.dl # {} => b.ctrl /\ b.sfn = d /\ d < d2,
           b.ul # {} => b.sfn = u /\ u < u2
    PROVE  Booked(PushBack(q, b), first, d2, u2)
<1> DEFINE r == PushBack(q, b)
<1>0. IsQueue(q)
    BY DEF Booked, IsQueue
<1>1. q \in SUBSET Allocation /\ \A a \in Allocation : a.sfn \in Nat
    BY DEF Booked, Allocation
<1>2. ASSUME NEW a \in q, a.sfn = b.sfn
      PROVE  /\ Merge(a, b) \in Allocation /\ Merge(a, b).sfn = b.sfn
             /\ AtMostOne(Merge(a, b).dl) /\ AtMostOne(Merge(a, b).ul)
             /\ Merge(a, b).dl # {} => Merge(a, b).ctrl /\ b.sfn < d2
             /\ Merge(a, b).ul # {} => b.sfn < u2
             /\ Merge(a, b).dl # {} \/ Merge(a, b).ul # {}
    <2>1. /\ Merge(a, b) \in Allocation /\ Merge(a, b).sfn = a.sfn
          /\ Merge(a, b).dl = a.dl \union b.dl /\ Merge(a, b).ul = a.ul \union b.ul
          /\ Merge(a, b).ctrl = (a.ctrl \/ b.ctrl)
        BY <1>1, Merged
    <2>2. a.sfn \in Nat /\ AtMostOne(a.dl) /\ AtMostOne(a.ul)
        BY <1>1 DEF Booked
    <2>3. (a.dl # {} => a.ctrl /\ a.sfn < d) /\ (a.ul # {} => a.sfn < u)
        BY DEF Booked
    <2>4. (a.dl = {} \/ b.dl = {}) /\ (a.ul = {} \/ b.ul = {})
        BY <1>2, <2>2, <2>3
    <2>5. (a.dl \union b.dl # {} => b.sfn < d2) /\ (a.ul \union b.ul # {} => b.sfn < u2)
        BY <1>2, <2>2, <2>3
    <2> QED
        BY <1>2, <2>1, <2>2, <2>3, <2>4, <2>5 DEF AtMostOne
<1>3. ASSUME NEW x \in r
      PROVE  /\ x \in Allocation /\ x.sfn >= first
             /\ AtMostOne(x.dl) /\ AtMostOne(x.ul)
             /\ x.dl # {} => x.ctrl /\ x.sfn < d2
             /\ x.ul # {} => x.sfn < u2
             /\ x.dl = {} /\ x.ul = {} => x.sfn = first
             /\ \/ x \in q /\ x.sfn # b.sfn
                \/ \E a \in q : a.sfn = b.sfn /\ x = Merge(a, b)
                \/ x = b /\ \A a \in q : a.sfn # b.sfn
    <2>0. \/ x \in q /\ x.sfn # b.sfn
          \/ \E a \in q : a.sfn = b.sfn /\ x = Merge(a, b)
          \/ x = b /\ \A a \in q : a.sfn # b.sfn
        BY <1>0, PushedBack
    <2>1. CASE x \in q /\ x.sfn # b.sfn
        <3>1. /\ x \in Allocation /\ x.sfn >= first /\ x.sfn \in Nat
              /\ AtMostOne(x.dl) /\ AtMostOne(x.ul)
              /\ x.dl # {} => x.ctrl /\ x.sfn < d
              /\ x.ul # {} => x.sfn < u
              /\ x.dl = {} /\ x.ul = {} => x.sfn = first
            BY <1>1, <2>1 DEF Booked
        <3> QED
            BY <2>1, <3>1
    <2>2. CASE \E a \in q : a.sfn = b.sfn /\ x = Merge(a, b)
        BY <1>2, <2>2
    <2>3. CASE x = b /\ \A a \in q : a.sfn # b.sfn
        BY <1>1, <2>3
    <2> QED
        BY <2>0, <2>1, <2>2, <2>3
<1>4. ASSUME NEW x \in r, NEW y \in r, x.sfn = y.sfn
      PROVE  x = y
    <2>1. \A a, c \in q : a.sfn = c.sfn => a = c
        BY DEF Booked
    <2>2. CASE x.sfn = b.sfn
        <3>1. \/ \E a \in q : a.sfn = b.sfn /\ x = Merge(a, b)
              \/ x = b /\ \A a \in q : a.sfn # b.sfn
            BY <1>3, <2>2
        <3>2. \/ \E a \in q : a.sfn = b.sfn /\ y = Merge(a, b)
              \/ y = b /\ \A a \in q : a.sfn # b.sfn
            BY <1>3, <1>4, <2>2
        <3> QED
            BY <2>1, <3>1, <3>2
    <2>3. CASE x.sfn # b.sfn
        <3>1. x \in q /\ y \in q
            BY <1>2, <1>3, <1>4, <2>3
        <3> QED
            BY <1>4, <2>1, <3>1
    <2> QED
        BY <2>2, <2>3
<1> HIDE DEF r
<1>5. Booked(r, first, d2, u2)
    BY <1>3, <1>4 DEF Booked
<1> QED
    BY <1>5 DEF r

\* An allocation without downlink does not change the numbers in the queue.
LEMMA AddedUplink ==
    ASSUME NEW q \in SUBSET Allocation, NEW b \in Allocation, b.dl = {},
           NEW done \in Nat, NEW made \in Nat, Numbered(q, done, made)
    PROVE  Numbered(PushBack(q, b), done, made)
<1>0. IsQueue(q)
    BY DEF IsQueue
<1>1. \A x \in PushBack(q, b) : x.dl # {} => \E a \in q : x.sfn = a.sfn /\ x.dl = a.dl
    <2>1. \A x \in PushBack(q, b) :
              \/ x \in q /\ x.sfn # b.sfn
              \/ \E a \in q : a.sfn = b.sfn /\ x = Merge(a, b)
              \/ x = b
        BY <1>0, PushedBack
    <2>2. \A a \in q : Merge(a, b).sfn = a.sfn /\ Merge(a, b).dl = a.dl
        <3>1. \A a \in q : Merge(a, b).sfn = a.sfn /\ Merge(a, b).dl = a.dl \union b.dl
            BY <1>0, Merged
        <3> QED
            BY <3>1
    <2> QED
        BY <2>1, <2>2
<1>2. \A a \in q : \E x \in PushBack(q, b) : x.sfn = a.sfn /\ a.dl \subseteq x.dl
    BY <1>0, PushedBack
<1>3. \A x \in PushBack(q, b) : x.dl \subseteq done + 1 .. made
    BY <1>1 DEF Numbered
<1>4. \A k \in done + 1 .. made : \E x \in PushBack(q, b) : k \in x.dl
    BY <1>2 DEF Numbered
<1>5. \A x, y \in PushBack(q, b) : \A i \in x.dl, j \in y.dl : x.sfn < y.sfn => i < j
    BY <1>1 DEF Numbered
<1> QED
    BY <1>3, <1>4, <1>5 DEF Numbered

\* The next call's downlink goes behind all that have one.
LEMMA AddedDownlink ==
    ASSUME NEW q \in SUBSET Allocation, NEW b \in Allocation,
           NEW done \in Nat, NEW made \in Nat
    PROVE  /\ Numbered(q, done, made) /\ done <= made
           /\ b.dl = {made + 1} /\ \A a \in q : a.dl # {} => a.sfn < b.sfn
           => Numbered(PushBack(q, b), done, made + 1)
<1>0. IsQueue(q)
    BY DEF IsQueue
<1>a. \A x \in PushBack(q, b) :
          \/ x \in q /\ x.sfn # b.sfn
          \/ \E a \in q : a.sfn = b.sfn /\ x = Merge(a, b)
          \/ x = b
    BY <1>0, PushedBack
<1>b. \A a \in q : \E x \in PushBack(q, b) : x.sfn = a.sfn /\ a.dl \subseteq x.dl
    BY <1>0, PushedBack
<1>c. \E x \in PushBack(q, b) : b.dl \subseteq x.dl
    BY <1>0, PushedBack
<1>d. \A a \in q : Merge(a, b).sfn = a.sfn /\ Merge(a, b).dl = a.dl \union b.dl
    BY <1>0, Merged
<1> SUFFICES ASSUME Numbered(q, done, made), done <= made, b.dl = {made + 1},
                    \A a \in q : a.dl # {} => a.sfn < b.sfn
             PROVE  Numbered(PushBack(q, b), done, made + 1)
    OBVIOUS
<1>1. ASSUME NEW x \in PushBack(q, b)
      PROVE  \/ x.dl = {made + 1} /\ x.sfn = b.sfn
             \/ \E a \in q : x.sfn = a.sfn /\ x.dl = a.dl /\ (x.dl # {} => x.sfn < b.sfn)
    <2>1. \/ x \in q /\ x.sfn # b.sfn
          \/ \E a \in q : a.sfn = b.sfn /\ x = Merge(a, b)
          \/ x = b
        BY <1>a
    <2>2. ASSUME NEW a \in q, a.sfn = b.sfn, x = Merge(a, b)
          PROVE  x.dl = {made + 1} /\ x.sfn = b.sfn
        <3>1. a.dl = {}
            BY <2>2 DEF Allocation
        <3> QED
            BY <1>d, <2>2, <3>1
    <2> QED
        BY <2>1, <2>2
<1>2. \E x \in PushBack(q, b) : made + 1 \in x.dl
    BY <1>c
<1> DEFINE r == PushBack(q, b)
<1> HIDE DEF r
<1>4. \A a \in q : a.dl \subseteq done + 1 .. made
    BY DEF Numbered
<1>5. \A x \in r : x.dl \subseteq done + 1 .. made + 1
    BY <1>1, <1>4 DEF r
<1>6. \A k \in done + 1 .. made + 1 : \E x \in r : k \in x.dl
    <2>1. \A k \in done + 1 .. made : \E x \in r : k \in x.dl
        BY <1>b DEF Numbered, r
    <2> QED
        BY <1>2, <2>1 DEF r
<1>7. ASSUME NEW x \in r, NEW y \in r, NEW i \in x.dl, NEW j \in y.dl, x.sfn < y.sfn
      PROVE  i < j
    <2>0. x.sfn \in Nat /\ y.sfn \in Nat /\ b.sfn \in Nat
        BY <1>1 DEF r, Allocation
    <2>1. PICK a \in q : x.sfn = a.sfn /\ x.dl = a.dl
        BY <1>1, <1>7, <2>0 DEF r
    <2>2. i \in done + 1 .. made
        BY <1>4, <2>1
    <2>3. CASE y.dl = {made + 1}
        BY <2>2, <2>3
    <2>4. CASE y.dl # {made + 1}
        <3>1. PICK c \in q : y.sfn = c.sfn /\ y.dl = c.dl
            BY <1>1, <2>4 DEF r
        <3> QED
            BY <1>7, <2>1, <3>1 DEF Numbered
    <2> QED
        BY <2>3, <2>4
<1>8. Numbered(r, done, made + 1)
    BY <1>5, <1>6, <1>7 DEF Numbered
<1> QED
    BY <1>8 DEF r

\* An allocation that could not be sent, and the queue pushed back behind it, keep their
\* order; none moves by more than a slot.
LEMMA PushedFront ==
    ASSUME slot \in Nat, Booked(queue, slot, slot + Latency, slot + Latency + N2Delay),
           NEW done \in Nat, NEW made \in Nat, Numbered(queue, done, made)
    PROVE  /\ Booked(PushFront(Current), slot + 1,
                     slot + 1 + Latency, slot + 1 + Latency + N2Delay)
           /\ Numbered(PushFront(Current), done, made)
<1> DEFINE first == [Current EXCEPT !.sfn = slot + 1]
           Next1(b) == [b EXCEPT !.sfn = slot + 2 + Before(Rest, b)]
           q == PushFront(Current)
<1>a. Latency \in Nat /\ Latency >= 2 /\ N2Delay \in Nat
    BY GnbAssumption
<1>b. /\ slot + Latency \in Nat /\ slot + Latency + N2Delay \in Nat
      /\ Booked(Rest, slot + 1, slot + Latency, slot + Latency + N2Delay)
      /\ \A a \in Rest : a.sfn >= slot + 1 /\ (a.dl # {} \/ a.ul # {})
      /\ Current \in Allocation /\ Current.sfn = slot
      /\ \/ /\ Current.dl = {} /\ Current.ul = {}
            /\ \A a \in queue : a \in Rest
         \/ \E a \in queue : /\ a.sfn = slot /\ a.dl = Current.dl /\ a.ul = Current.ul
                             /\ a.ctrl => Current.ctrl
                             /\ \A b \in queue : b \in Rest \/ b = a
    BY <1>a, TakenOff
<1>c. Rest \in SUBSET Allocation /\ \A a, b \in Rest : a.sfn = b.sfn => a = b
    BY <1>b DEF Booked
<1>d. /\ \A b \in Rest : Before(Rest, b) \in Nat /\ slot + 1 + Before(Rest, b) <= b.sfn
      /\ \A b, c \in Rest : b.sfn < c.sfn => Before(Rest, b) < Before(Rest, c)
    <2>1. slot + 1 \in Nat /\ \A a \in Rest : a.sfn >= slot + 1
        BY <1>b
    <2> QED
        BY <1>c, <2>1, Places
<1>e. q = {first} \union {Next1(b) : b \in Rest}
    BY DEF PushFront, Before
<1>f. /\ first \in Allocation /\ first.sfn = slot + 1
      /\ first.dl = Current.dl /\ first.ul = Current.ul /\ first.ctrl = Current.ctrl
    BY <1>b DEF Allocation
<1>g. ASSUME NEW b \in Rest
      PROVE  /\ Next1(b) \in Allocation
             /\ Next1(b).sfn = slot + 2 + Before(Rest, b)
             /\ Next1(b).dl = b.dl /\ Next1(b).ul = b.ul /\ Next1(b).ctrl = b.ctrl
             /\ Next1(b).sfn >= slot + 2 /\ Next1(b).sfn <= b.sfn + 1
    <2>1. b \in Allocation /\ b.sfn \in Nat /\ slot + 2 + Before(Rest, b) \in Nat
        BY <1>c, <1>d DEF Allocation
    <2>2. /\ Next1(b) \in Allocation /\ Next1(b).sfn = slot + 2 + Before(Rest, b)
          /\ Next1(b).dl = b.dl /\ Next1(b).ul = b.ul /\ Next1(b).ctrl = b.ctrl
        BY <2>1 DEF Allocation
    <2>3. Before(Rest, b) \in Nat /\ slot + 1 + Before(Rest, b) <= b.sfn
        BY <1>d
    <2> QED
        BY <2>1, <2>2, <2>3
<1>h. \A a \in queue : a.sfn \in Nat
    BY DEF Booked, Allocation
<1> HIDE DEF first, Next1, q
<1>1. Booked(q, slot + 1, slot + 1 + Latency, slot + 1 + Latency + N2Delay)
    <2>1. ASSUME NEW x \in q
          PROVE  /\ x \in Allocation /\ x.sfn >= slot + 1
                 /\ AtMostOne(x.dl) /\ AtMostOne(x.ul)
                 /\ x.dl # {} => x.ctrl /\ x.sfn < slot + 1 + Latency
                 /\ x.ul # {} => x.sfn < slot + 1 + Latency + N2Delay
                 /\ x.dl = {} /\ x.ul = {} => x.sfn = slot + 1
        <3>1. CASE x = first
            <4>1. /\ AtMostOne(Current.dl) /\ AtMostOne(Current.ul)
                  /\ Current.dl # {} => Current.ctrl
                BY <1>b DEF Booked, AtMostOne
            <4> QED
                BY <1>a, <1>f, <3>1, <4>1
        <3>2. CASE \E b \in Rest : x = Next1(b)
            <4>1. PICK b \in Rest : x = Next1(b)
                BY <3>2
            <4>2. /\ AtMostOne(b.dl) /\ AtMostOne(b.ul) /\ b.sfn \in Nat
                  /\ b.dl # {} => b.ctrl /\ b.sfn < slot + Latency
                  /\ b.ul # {} => b.sfn < slot + Latency + N2Delay
                  /\ b.dl # {} \/ b.ul # {}
                BY <1>b, <1>c DEF Booked, Allocation
            <4>3. x.sfn \in Nat
                BY <1>g, <4>1 DEF Allocation
            <4> QED
                BY <1>a, <1>g, <4>1, <4>2, <4>3
        <3> QED
            BY <1>e, <3>1, <3>2
    <2>2. ASSUME NEW x \in q, NEW y \in q, x.sfn = y.sfn
          PROVE  x = y
        <3>1. ASSUME NEW b \in Rest, NEW c \in Rest, x = Next1(b), y = Next1(c)
              PROVE  x = y
            <4>1. Before(Rest, b) = Before(Rest, c)
                BY <1>d, <1>g, <2>2, <3>1
            <4>2. b.sfn \in Nat /\ c.sfn \in Nat /\ Before(Rest, b) \in Nat
                BY <1>c, <1>d DEF Allocation
            <4>3. ~(b.sfn < c.sfn) /\ ~(c.sfn < b.sfn)
                BY <1>d, <4>1, <4>2
            <4> QED
                BY <1>c, <3>1, <4>2, <4>3
        <3>2. \A b \in Rest : Next1(b).sfn # first.sfn
            BY <1>f, <1>g
        <3> QED
            BY <1>e, <2>2, <3>1, <3>2
    <2> QED
        BY <2>1, <2>2 DEF Booked
<1>2. Numbered(q, done, made)
    <2>1. ASSUME NEW x \in q
          PROVE  x.dl \subseteq done + 1 .. made
        <3>1. \A a \in queue : a.dl \subseteq done + 1 .. made
            BY DEF Numbered
        <3>2. CASE x = first
            BY <1>b, <1>f, <3>1, <3>2
        <3>3. CASE \E b \in Rest : x = Next1(b)
            BY <1>g, <3>1, <3>3 DEF Rest
        <3> QED
            BY <1>e, <3>2, <3>3
    <2>2. ASSUME NEW k \in done + 1 .. made
          PROVE  \E x \in q : k \in x.dl
        <3>1. PICK a \in queue : k \in a.dl
            BY DEF Numbered
        <3>2. CASE a \in Rest
            BY <1>e, <1>g, <3>1, <3>2
        <3>3. CASE a \notin Rest
            BY <1>b, <1>e, <1>f, <3>1, <3>3
        <3> QED
            BY <3>2, <3>3
    <2>3. ASSUME NEW x \in q, NEW y \in q, NEW i \in x.dl, NEW j \in y.dl, x.sfn < y.sfn
          PROVE  i < j
        <3>1. \A a, b \in queue : \A m \in a.dl, n \in b.dl : a.sfn < b.sfn => m < n
            BY DEF Numbered
        <3>2. \A b \in Rest : b \in queue /\ b.sfn \in Nat
            BY <1>h DEF Rest
        <3>3. PICK c \in Rest : y = Next1(c)
            <4>1. CASE y = first
                <5>1. CASE x = first
                    BY <1>f, <2>3, <4>1, <5>1
                <5>2. CASE \E b \in Rest : x = Next1(b)
                    <6>1. x.sfn \in Nat /\ x.sfn >= slot + 2
                        BY <1>g, <5>2 DEF Allocation
                    <6> QED
                        BY <1>f, <2>3, <4>1, <6>1
                <5> QED
                    BY <1>e, <5>1, <5>2
            <4> QED
                BY <1>e, <4>1
        <3>4. j \in c.dl /\ c.sfn >= slot + 1 /\ c.sfn \in Nat /\ c \in queue
            BY <1>b, <1>g, <3>2, <3>3
        <3>5. CASE x = first
            <4>1. PICK a \in queue : a.sfn = slot /\ a.dl = Current.dl
                BY <1>b, <1>f, <3>5
            <4> QED
                BY <1>f, <3>1, <3>4, <3>5, <4>1
        <3>6. CASE \E b \in Rest : x = Next1(b)
            <4>1. PICK b \in Rest : x = Next1(b)
                BY <3>6
            <4>2. i \in b.dl /\ Before(Rest, b) < Before(Rest, c)
                BY <1>d, <1>g, <2>3, <3>3, <4>1
            <4>3. b.sfn \in Nat /\ b \in queue
                BY <3>2
            <4>4. Before(Rest, b) \in Nat /\ Before(Rest, c) \in Nat
                BY <1>d
            <4>5. ~(c.sfn < b.sfn) /\ b.sfn # c.sfn
                BY <1>c, <1>d, <4>2, <4>4
            <4> QED
                BY <3>1, <3>4, <4>2, <4>3, <4>5
        <3> QED
            BY <1>e, <3>5, <3>6
    <2> QED
        BY <2>1, <2>2, <2>3 DEF Numbered
<1> QED
    BY <1>1, <1>2 DEF q

\* A call of the MAC books one slot further, and numbers its downlink.
LEMMA MacCalled ==
    ASSUME slot \in Nat, calls \in Nat, CallMac,
           Booked(queue, slot, slot + Latency, slot + Latency + N2Delay),
           NEW done \in Nat, done <= calls, Numbered(Rest, done, calls)
    PROVE  /\ Booked(queue', slot + 1, slot + 1 + Latency, slot + 1 + Latency + N2Delay)
           /\ Numbered(queue', done, calls') /\ calls' = calls + 1
<1> DEFINE d == slot + Latency
           u == slot + Latency + N2Delay
<1>a. Latency \in Nat /\ Latency >= 2 /\ N2Delay \in Nat
    BY GnbAssumption
<1>1. PICK ulData \in {"none", "srs", "data"}, dlData \in {"none", "part", "full"} :
          queue' = PushBack(PushBack(Rest,
                        [Dummy EXCEPT !.sfn = slot + N2Delay + Latency, !.ul = {calls + 1},
                                      !.ulData = ulData]),
                        [Dummy EXCEPT !.sfn = slot + Latency, !.dl = {calls + 1},
                                      !.ctrl = TRUE, !.dlData = dlData])
    BY DEF CallMac
<1> DEFINE up == [Dummy EXCEPT !.sfn = slot + N2Delay + Latency, !.ul = {calls + 1},
                               !.ulData = ulData]
           down == [Dummy EXCEPT !.sfn = slot + Latency, !.dl = {calls + 1},
                                 !.ctrl = TRUE, !.dlData = dlData]
           between == PushBack(Rest, up)
<1>2. up \in Allocation /\ up.sfn = u /\ up.dl = {} /\ up.ul = {calls + 1}
    <2>1. Dummy \in Allocation /\ Dummy.dl = {}
        BY DEF Dummy, Allocation
    <2>2. /\ slot + N2Delay + Latency \in Nat /\ slot + N2Delay + Latency = u
          /\ {calls + 1} \in SUBSET Nat /\ {} \in SUBSET Nat
        BY <1>a
    <2> QED
        BY <2>1, <2>2 DEF Allocation
<1>3. /\ down \in Allocation /\ down.sfn = d /\ down.dl = {calls + 1} /\ down.ul = {}
      /\ down.ctrl
    <2>1. Dummy \in Allocation /\ Dummy.ul = {}
        BY DEF Dummy, Allocation
    <2>2. d \in Nat /\ {calls + 1} \in SUBSET Nat /\ {} \in SUBSET Nat
        BY <1>a
    <2> QED
        BY <2>1, <2>2 DEF Allocation
<1>4. queue' = PushBack(between, down) /\ calls' = calls + 1
    BY <1>1 DEF CallMac
<1>5. /\ slot + 1 \in Nat /\ d \in Nat /\ u \in Nat /\ d + 1 \in Nat /\ u + 1 \in Nat
      /\ d >= slot + 1 /\ u >= slot + 1
    BY <1>a
<1>6. Booked(Rest, slot + 1, d, u)
    BY <1>5, TakenOff
<1> HIDE DEF up, down, d, u
<1>7. Booked(between, slot + 1, d, u + 1)
    BY <1>2, <1>5, <1>6, AddedBooked DEF AtMostOne
<1> HIDE DEF between
<1>8. Booked(queue', slot + 1, d + 1, u + 1)
    <2>1. d <= d + 1 /\ u + 1 <= u + 1 /\ d < d + 1 /\ down.sfn >= slot + 1
        BY <1>3, <1>5
    <2>2. AtMostOne(down.dl) /\ AtMostOne(down.ul) /\ down.dl # {}
        BY <1>3 DEF AtMostOne
    <2>3. Booked(PushBack(between, down), slot + 1, d + 1, u + 1)
        BY <1>3, <1>5, <1>7, <2>1, <2>2, AddedBooked
    <2> QED
        BY <1>4, <2>3
<1>9. Numbered(between, done, calls)
    <2>1. Rest \in SUBSET Allocation
        BY <1>6 DEF Booked
    <2> QED
        BY <1>2, <2>1, AddedUplink DEF between
<1>10. Numbered(queue', done, calls + 1)
    <2>1. between \in SUBSET Allocation /\ \A a \in between : a.dl # {} => a.sfn < down.sfn
        BY <1>3, <1>7 DEF Booked
    <2> QED
        BY <1>3, <1>4, <1>9, <2>1, AddedDownlink
<1>11. d + 1 = slot + 1 + Latency /\ u + 1 = slot + 1 + Latency + N2Delay
    BY <1>a DEF d, u
<1> QED
    BY <1>4, <1>8, <1>10, <1>11

\* An allocation without downlink takes no number away.
LEMMA NoneSent ==
    ASSUME slot \in Nat, Booked(queue, slot, slot + Latency, slot + Latency + N2Delay),
           NEW done \in Nat, NEW made \in Nat, Numbered(queue, done, made), Current.dl = {}
    PROVE  Numbered(Rest, done, made)
<1>1. slot + Latency \in Nat /\ slot + Latency + N2Delay \in Nat
    BY GnbAssumption
<1>2. \A a \in queue : a \in Rest \/ a.dl = {}
    BY <1>1, TakenOff
<1>3. Rest \subseteq queue
    BY DEF Rest
<1> QED
    BY <1>2, <1>3 DEF Numbered

\* What DoStartSlot sends is the next downlink call.
LEMMA NextIsSent ==
    ASSUME slot \in Nat, calls \in Nat, sent \in Seq(Nat), SentOnceInOrder,
           Booked(queue, slot, slot + Latency, slot + Latency + N2Delay),
           Numbered(queue, Len(sent), calls), Len(sent) <= calls, DoStartSlot
    PROVE  /\ sent' \in Seq(Nat) /\ SentOnceInOrder' /\ Len(sent') <= calls
           /\ Numbered(Rest, Len(sent'), calls)
<1>1. Len(sent) \in Nat
    BY LenProperties
<1>2. CASE Current.dl = {}
    <2>1. sent' = sent
        <3>1. CASE Empty(Current)
            BY <3>1 DEF DoStartSlot
        <3>2. CASE ~Empty(Current)
            <4>1. Cardinality(Current.dl) = 0
                BY <1>2, FS_EmptySet
            <4>2. PICK order \in [1 .. 0 -> {}] : sent' = sent \o order
                BY <1>2, <3>2, <4>1 DEF DoStartSlot
            <4>3. order = <<>>
                BY <4>2
            <4> QED
                BY <4>2, <4>3
        <3> QED
            BY <3>1, <3>2
    <2> QED
        BY <1>1, <1>2, <2>1, NoneSent DEF SentOnceInOrder
<1>3. CASE Current.dl # {}
    <2>a. slot + Latency \in Nat /\ slot + Latency + N2Delay \in Nat
        BY GnbAssumption
    <2>1. PICK a \in queue : /\ a.sfn = slot /\ a.dl = Current.dl
                             /\ \A b \in queue : b \in Rest \/ b = a
        BY <1>3, <2>a, TakenOff
    <2>2. PICK k \in a.dl : a.dl = {k}
        <3>1. PICK k \in a.dl : TRUE
            BY <1>3, <2>1
        <3>2. \A x \in a.dl : x = k
            BY DEF Booked, AtMostOne
        <3> QED
            BY <3>1, <3>2
    <2>3. k \in Len(sent) + 1 .. calls
        BY <2>2 DEF Numbered
    <2>4. k = Len(sent) + 1
        <3>1. PICK b \in queue : Len(sent) + 1 \in b.dl
            BY <1>1, <2>3 DEF Numbered
        <3>2. CASE b = a
            BY <2>2, <3>1, <3>2
        <3>3. CASE b # a
            <4>1. b.sfn \in Nat /\ b.sfn >= slot /\ b.sfn # slot
                BY <2>1, <3>3 DEF Booked, Allocation
            <4>2. k < Len(sent) + 1
                <5>1. \A x, y \in queue : \A i \in x.dl, j \in y.dl : x.sfn < y.sfn => i < j
                    BY DEF Numbered
                <5>2. a.sfn < b.sfn
                    BY <2>1, <4>1
                <5> QED
                    BY <3>1, <5>1, <5>2
            <4> QED
                BY <1>1, <2>3, <4>2
        <3> QED
            BY <3>2, <3>3
    <2>5. PICK order \in [1 .. 1 -> {k}] : sent' = sent \o order
        <3>1. Cardinality(Current.dl) = 1
            BY <2>1, <2>2, FS_Singleton
        <3>2. ~Empty(Current)
            BY <1>3 DEF Empty
        <3> QED
            BY <2>1, <2>2, <3>1, <3>2 DEF DoStartSlot
    <2>6. order \in Seq(Nat) /\ Len(order) = 1 /\ order[1] = k
        <3>1. k \in Nat /\ order \in [1 .. 1 -> Nat] /\ order[1] = k
            BY <1>1, <2>3, <2>5
        <3>2. order \in Seq(Nat)
            <4>1. order \in UNION {[1 .. n -> Nat] : n \in Nat}
                BY <3>1
            <4>2. Seq(Nat) = UNION {[1 .. n -> Nat] : n \in Nat}
                BY SeqDef
            <4> QED
                BY <4>1, <4>2
        <3>3. Len(order) = 1
            BY <3>1, <3>2, LenProperties
        <3> QED
            BY <3>1, <3>2, <3>3
    <2>7. /\ sent' \in Seq(Nat) /\ Len(sent') = Len(sent) + 1
          /\ \A i \in 1 .. Len(sent) + 1 :
                 sent'[i] = IF i <= Len(sent) THEN sent[i] ELSE order[i - Len(sent)]
        <3>1. sent \in Seq(Nat) /\ order \in Seq(Nat)
            BY <2>6
        <3>2. /\ sent \o order \in Seq(Nat) /\ Len(sent \o order) = Len(sent) + Len(order)
              /\ \A i \in 1 .. Len(sent) + Len(order) :
                     (sent \o order)[i] = IF i <= Len(sent) THEN sent[i]
                                         ELSE order[i - Len(sent)]
            BY <3>1, ConcatProperties, Zenon
        <3> QED
            BY <2>5, <2>6, <3>2
    <2>8. SentOnceInOrder'
        <3>1. ASSUME NEW i \in 1 .. Len(sent) + 1
              PROVE  sent'[i] = i
            <4>1. CASE i <= Len(sent)
                BY <1>1, <2>7, <4>1 DEF SentOnceInOrder
            <4>2. CASE i = Len(sent) + 1
                <5>1. i - Len(sent) = 1 /\ ~(i <= Len(sent))
                    BY <1>1, <4>2
                <5> QED
                    BY <2>4, <2>6, <2>7, <4>2, <5>1
            <4> QED
                BY <1>1, <4>1, <4>2
        <3> QED
            BY <2>7, <3>1 DEF SentOnceInOrder
    <2>9. Numbered(Rest, Len(sent'), calls)
        <3>1. \A b \in Rest : b \in queue /\ b.sfn \in Nat /\ b.sfn > slot
            BY DEF Rest, Booked, Allocation
        <3>2. ASSUME NEW b \in Rest
              PROVE  b.dl \subseteq Len(sent) + 2 .. calls
            <4>1. b.dl \subseteq Len(sent) + 1 .. calls
                BY <3>1 DEF Numbered
            <4>2. \A j \in b.dl : k < j
                BY <2>1, <2>2, <3>1 DEF Numbered
            <4> QED
                BY <1>1, <2>4, <4>1, <4>2
        <3>3. \A i \in Len(sent) + 2 .. calls : \E b \in Rest : i \in b.dl
            <4>1. \A i \in Len(sent) + 1 .. calls : \E b \in queue : i \in b.dl
                BY DEF Numbered
            <4> QED
                BY <1>1, <2>1, <2>2, <2>4, <4>1
        <3>4. \A b, c \in Rest : \A i \in b.dl, j \in c.dl : b.sfn < c.sfn => i < j
            BY <3>1 DEF Numbered
        <3>5. Len(sent') + 1 = Len(sent) + 2
            BY <1>1, <2>7
        <3> QED
            BY <3>2, <3>3, <3>4, <3>5 DEF Numbered
    <2> QED
        BY <1>1, <2>3, <2>4, <2>7, <2>8, <2>9
<1> QED
    BY <1>2, <1>3

\* Every step preserves the order and the bounds of the queue.
LEMMA QueueInvInductive == QueueInv /\ [Next]_vars => QueueInv'
<1> SUFFICES ASSUME QueueInv, [Next]_vars PROVE QueueInv'
    OBVIOUS
<1>a. Latency \in Nat /\ Latency >= 2 /\ N2Delay \in Nat
    BY GnbAssumption
<1>b. ASSUME startDue
      PROVE  /\ slot \in Nat /\ calls \in Nat /\ sent \in Seq(Nat) /\ Len(sent) <= calls
             /\ Booked(queue, slot, slot + Latency, slot + Latency + N2Delay)
             /\ Numbered(queue, Len(sent), calls) /\ SentOnceInOrder
    BY <1>b DEF QueueInv, NextStart
<1>c. ASSUME slot' = slot, slot \in Nat, ~startDue', startDue' \in BOOLEAN,
             calls' \in Nat, sent' \in Seq(Nat), Len(sent') <= calls', SentOnceInOrder',
             Booked(queue', slot + 1, slot + 1 + Latency, slot + 1 + Latency + N2Delay),
             Numbered(queue', Len(sent'), calls')
      PROVE  QueueInv'
    BY <1>c DEF QueueInv, NextStart
<1>d. ASSUME UNCHANGED <<slot, startDue, queue, calls, sent>>
      PROVE  QueueInv'
    BY <1>d DEF QueueInv, NextStart, SentOnceInOrder
<1>e. Len(sent) \in Nat
    BY LenProperties DEF QueueInv
<1>1. CASE StartSlotGranted \/ StartSlotGrantedAtOnce
    <2>1. startDue /\ startDue' = FALSE /\ slot' = slot /\ CallMac /\ DoStartSlot
        BY <1>1 DEF StartSlotGranted, StartSlotGrantedAtOnce, BeginSlot
    <2>2. /\ sent' \in Seq(Nat) /\ SentOnceInOrder' /\ Len(sent') <= calls
          /\ Numbered(Rest, Len(sent'), calls)
        BY <1>b, <2>1, NextIsSent
    <2>3. Len(sent') \in Nat
        BY <2>2, LenProperties
    <2>4. /\ Booked(queue', slot + 1, slot + 1 + Latency, slot + 1 + Latency + N2Delay)
          /\ Numbered(queue', Len(sent'), calls') /\ calls' = calls + 1
        BY <1>b, <2>1, <2>2, <2>3, MacCalled
    <2>5. calls' \in Nat /\ Len(sent') <= calls'
        BY <1>b, <2>1, <2>2, <2>3, <2>4
    <2> QED
        BY <1>b, <1>c, <2>1, <2>2, <2>4, <2>5
<1>2. CASE StartSlotWaits
    <2>1. /\ startDue /\ startDue' = FALSE /\ slot' = slot
          /\ queue' = PushFront(Current) /\ UNCHANGED <<calls, sent>>
        BY <1>2 DEF StartSlotWaits, BeginSlot
    <2>2. /\ Booked(queue', slot + 1, slot + 1 + Latency, slot + 1 + Latency + N2Delay)
          /\ Numbered(queue', Len(sent), calls)
        BY <1>b, <1>e, <2>1, PushedFront
    <2>3. SentOnceInOrder'
        BY <1>b, <2>1 DEF SentOnceInOrder
    <2> QED
        BY <1>b, <1>c, <2>1, <2>2, <2>3
<1>3. CASE StartSlotEmpty
    <2>1. /\ startDue /\ startDue' = FALSE /\ slot' = slot
          /\ CallMac /\ ~NeedsChannel /\ UNCHANGED sent
        BY <1>3 DEF StartSlotEmpty, BeginSlot
    <2>2. Current.dl = {}
        <3>1. ~Current.ctrl
            BY <2>1 DEF NeedsChannel
        <3>2. slot + Latency \in Nat /\ slot + Latency + N2Delay \in Nat
            BY <1>a, <1>b, <2>1
        <3>3. \/ Current.dl = {}
              \/ \E a \in queue : a.dl = Current.dl /\ (a.ctrl => Current.ctrl)
            BY <1>b, <2>1, <3>2, TakenOff
        <3> QED
            BY <1>b, <2>1, <3>1, <3>3 DEF Booked
    <2>3. Numbered(Rest, Len(sent), calls)
        BY <1>b, <1>e, <2>1, <2>2, NoneSent
    <2>4. /\ Booked(queue', slot + 1, slot + 1 + Latency, slot + 1 + Latency + N2Delay)
          /\ Numbered(queue', Len(sent), calls') /\ calls' = calls + 1
        BY <1>b, <1>e, <2>1, <2>3, MacCalled
    <2>5. calls' \in Nat /\ Len(sent) <= calls' /\ SentOnceInOrder'
        BY <1>b, <1>e, <2>1, <2>4 DEF SentOnceInOrder
    <2> QED
        BY <1>b, <1>c, <2>1, <2>4, <2>5
<1>4. CASE EndSlot
    <2>1. /\ ~startDue /\ startDue' = TRUE /\ slot' = slot + 1
          /\ UNCHANGED <<queue, calls, sent>>
        BY <1>4 DEF EndSlot
    <2>2. NextStart' = NextStart /\ slot' \in Nat
        BY <2>1 DEF QueueInv, NextStart
    <2> QED
        BY <2>1, <2>2 DEF QueueInv, SentOnceInOrder
<1>5. CASE AccessGranted
    BY <1>5, <1>d DEF AccessGranted
<1>6. CASE GrantTooShort
    BY <1>6, <1>d DEF GrantTooShort
<1>7. CASE AccessDenied
    BY <1>7, <1>d DEF AccessDenied
<1>8. CASE ChannelAccessLost
    BY <1>8, <1>d DEF ChannelAccessLost
<1>9. CASE DoSendReservationSignal
    BY <1>9, <1>d DEF DoSendReservationSignal
<1>10. CASE Tick
    BY <1>10, <1>d DEF Tick
<1>11. CASE UNCHANGED vars
    BY <1>11, <1>d DEF vars
<1> QED
    BY <1>1, <1>2, <1>3, <1>4, <1>5, <1>6, <1>7, <1>8, <1>9, <1>10, <1>11
    DEF Next, StartSlot, Answer

\* What the invariant says of a queue, in the words of the properties.
LEMMA QueueInvSuffices ==
    QueueInv => SentOnceInOrder /\ NotDoubleBooked /\ QueueStaysShort
<1> SUFFICES ASSUME QueueInv PROVE SentOnceInOrder /\ NotDoubleBooked /\ QueueStaysShort
    OBVIOUS
<1>1. SentOnceInOrder /\ slot \in Nat
    BY DEF QueueInv
<1>2. /\ NextStart \in Nat /\ NextStart <= slot + 1
      /\ Booked(queue, NextStart, NextStart + Latency, NextStart + Latency + N2Delay)
    BY DEF QueueInv, NextStart
<1>3. ASSUME NEW a \in queue
      PROVE  /\ Cardinality(a.dl) <= 1 /\ Cardinality(a.ul) <= 1
             /\ (a.dl = {} /\ a.ul = {}) => a.sfn <= slot + 1
             /\ a.sfn <= slot + Latency + N2Delay
    <2>1. \A S : AtMostOne(S) => Cardinality(S) <= 1
        <3> SUFFICES ASSUME NEW S, AtMostOne(S) PROVE Cardinality(S) <= 1
            OBVIOUS
        <3>1. S = {} \/ \E x : S = {x}
            BY DEF AtMostOne
        <3> QED
            BY <3>1, FS_EmptySet, FS_Singleton
    <2>2. a.sfn \in Nat /\ AtMostOne(a.dl) /\ AtMostOne(a.ul)
        BY <1>2 DEF Booked, Allocation
    <2>3. /\ a.dl # {} => a.sfn < NextStart + Latency
          /\ a.ul # {} => a.sfn < NextStart + Latency + N2Delay
          /\ a.dl = {} /\ a.ul = {} => a.sfn = NextStart
        BY <1>2 DEF Booked
    <2>4. Latency \in Nat /\ Latency >= 2 /\ N2Delay \in Nat
        BY GnbAssumption
    <2> QED
        BY <1>1, <1>2, <2>1, <2>2, <2>3, <2>4
<1> QED
    BY <1>1, <1>3 DEF NotDoubleBooked, QueueStaysShort

\* Nothing is queued, numbered or sent at first.
LEMMA QueueInvInit == Init => QueueInv
<1> SUFFICES ASSUME Init PROVE QueueInv
    OBVIOUS
<1>1. /\ slot = 0 /\ startDue = TRUE /\ calls = 0 /\ sent = <<>> /\ queue = {}
      /\ sent \in Seq(Nat) /\ Len(sent) = 0
    BY EmptySeq DEF Init
<1> QED
    BY <1>1 DEF QueueInv, NextStart, Booked, Numbered, SentOnceInOrder

\* In every execution the MAC's downlink allocations go on the air each once and in
\* order, however often the channel is refused.
THEOREM AllocationsSentInOrder == Spec => []SentOnceInOrder
BY QueueInvInit, QueueInvInductive, QueueInvSuffices, PTL DEF Spec

\* In every execution a slot has one downlink and one uplink allocation at most, and what
\* the MAC may add to is no dummy.
THEOREM SlotsBookedOnce == Spec => []NotDoubleBooked
BY QueueInvInit, QueueInvInductive, QueueInvSuffices, PTL DEF Spec

\* In every execution the queue reaches no further ahead than the MAC allocates.
THEOREM QueueIsBounded == Spec => []QueueStaysShort
BY QueueInvInit, QueueInvInductive, QueueInvSuffices, PTL DEF Spec

=============================================================================
