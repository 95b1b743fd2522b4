------------------------ MODULE UeChannelAccess_proof ------------------------
(***************************************************************************)
(* The UE's channel access is correct for every slot length, pattern of    *)
(* slots, defer and change time within the assumptions of UeChannelAccess, *)
(* however often others are heard.                                         *)
(***************************************************************************)
EXTENDS UeChannelAccess_props, TLAPS

\* When the uplink control begins, and when the UE asks for it.
Ctrl == Period - Symbol
Asks == Ctrl - Lead

Dcis == {DlCtrlDci, UlCtrlDci} \union DataDcis

Last(type) == IF type = "DL" THEN Symbols ELSE Symbols - 1

\* Whether the uplink control of this slot is still to come.
CtrlAhead ==
    UlCtrlDci \in allocs \/ (event.type = "StartVarTti" /\ event.dci = UlCtrlDci)

\* The DCIs of a slot follow each other: those left begin after the present one, and the
\* uplink control is the last.
SlotInv ==
    /\ index \in DOMAIN Pattern
    /\ pos \in 0 .. event.at
    /\ event \in [type : {"StartSlot", "StartVarTti", "EndVarTti"}, dci : Dcis, at : Int]
    /\ allocs \subseteq Dcis
    /\ \A x \in allocs : event.dci.sym + event.dci.num <= x.sym
    /\ \A x, y \in allocs : x = y \/ Apart(x, y)
    /\ \/ event.type = "StartSlot" /\ event.at = Period /\ allocs = {}
       \/ event.type = "StartVarTti" /\ event.at = event.dci.sym * Symbol
       \/ event.type = "EndVarTti" /\ event.at = (event.dci.sym + event.dci.num) * Symbol
    /\ event.type # "StartSlot" =>
         \A x \in allocs \union {event.dci} :
            x = UlCtrlDci \/ x.sym + x.num <= Last(Pattern[index].type)
    /\ event.type # "StartSlot" /\ DlCtrlDci \in allocs \union {event.dci} =>
         Pattern[index].type # "UL"
    /\ CtrlAhead => Pattern[index].type # "DL"
    /\ hearing \/ tryLbt => event.type = "EndVarTti" /\ event.dci = DlCtrlDci
    /\ hearing => pos < event.at

\* There is one request, for the uplink control that is ahead.
RequestInv ==
    /\ call \in BOOLEAN /\ grant \in BOOLEAN /\ grantRequested \in BOOLEAN
    /\ lbtEvent \in Nat \union {Off}
    /\ lbtEvent # Off => CtrlAhead /\ pos + lbtEvent = Asks /\ ~call /\ ~grantRequested
    /\ call \/ grantRequested => CtrlAhead /\ pos >= Asks
    /\ call => kind = "OnOff" /\ status # "GRANTED"
    /\ kind = "OnOff" /\ lbtEvent # Off => status # "GRANTED"
    /\ grantRequested => kind = "Cat2" /\ state = "WAIT_FOR_DEFER"

\* The defer time of Cat2 ends when the channel has been idle for as long, and before the
\* next request; nothing is granted before.
Cat2Inv ==
    /\ idleFor \in Int /\ idleFor <= Defer
    /\ deferEvent \in Nat \union {Off} /\ busyEvent \in Nat \union {Off}
    /\ deferEvent # Off <=> state = "WAIT_FOR_DEFER"
    /\ busyEvent # Off <=> state = "BUSY"
    /\ state = "IDLE" => idleFor >= 0
    /\ state = "BUSY" => busyEvent + idleFor <= 0
    /\ state = "WAIT_FOR_DEFER" =>
         /\ deferEvent + idleFor = Defer
         /\ pos + deferEvent <= Asks + Defer
         /\ pos < Asks \/ lbtEvent # Off => pos + deferEvent < Asks
    /\ state = "TXOP_GRANTED" => idleFor >= Defer
    /\ kind # "Cat2" => state = "IDLE"

Inv == SlotInv /\ RequestInv /\ Cat2Inv

-----------------------------------------------------------------------------
(* The slot in ticks.                                                      *)

\* The products of the slot's arithmetic.
LEMMA Times ==
    ASSUME NEW a \in Nat, NEW b \in Nat
    PROVE  /\ a * Symbol \in Nat
           /\ (a + b) * Symbol = a * Symbol + b * Symbol
           /\ a <= b => a * Symbol <= b * Symbol
<1>1. Symbol \in Nat
  BY UeAssumption
<1>2. \A x \in Nat, y \in Nat, z \in Nat :
        x * z \in Nat /\ (x + y) * z = x * z + y * z /\ (x <= y => x * z <= y * z)
  <2>1. \A x \in Nat, z \in Nat : x * z \in Nat
    OBVIOUS
  <2>2. \A x \in Nat, y \in Nat, z \in Nat : (x + y) * z = x * z + y * z
    OBVIOUS
  <2>3. \A x \in Nat, y \in Nat, z \in Nat : x <= y => x * z <= y * z
    <3> TAKE x \in Nat, y \in Nat, z \in Nat
    <3> HAVE x <= y
    <3>1. y - x \in Nat /\ y = x + (y - x)
      OBVIOUS
    <3>2. y * z = x * z + (y - x) * z
      BY <2>2, <3>1
    <3> QED BY <2>1, <3>1, <3>2
  <2> QED BY <2>1, <2>2, <2>3
<1> QED BY <1>1, <1>2

\* The uplink control is the last symbol, and the UE asks for it after the downlink control.
LEMMA Layout ==
    /\ Symbols \in Nat /\ Symbols >= 3 /\ Symbol \in Nat /\ Symbol > 1
    /\ Period \in Nat /\ Ctrl \in Nat /\ Asks \in Nat
    /\ Period = Symbols * Symbol /\ Ctrl = (Symbols - 1) * Symbol
    /\ Symbol < Asks /\ Asks = Ctrl - Lead /\ Asks < Ctrl /\ Ctrl < Period
<1>1. Symbols \in Nat /\ Symbol \in Nat /\ Symbol > 1 /\ Lead \in Nat /\ Lead > 0
      /\ Lead < (Symbols - 2) * Symbol
  BY UeAssumption
<1>2. Symbols >= 3
  <2> SUFFICES ASSUME Symbols - 2 <= 0
               PROVE  FALSE
    BY <1>1
  <2>1. \A x \in Int, y \in Nat : x <= 0 => x * y <= 0
    OBVIOUS
  <2> QED BY <1>1, <2>1
<1>3. Symbols * Symbol = (Symbols - 1) * Symbol + Symbol
      /\ (Symbols - 1) * Symbol = (Symbols - 2) * Symbol + Symbol
      /\ (Symbols - 2) * Symbol \in Nat
  <2>1. 1 * Symbol = Symbol
    BY <1>1
  <2>2. (Symbols - 1 + 1) * Symbol = (Symbols - 1) * Symbol + 1 * Symbol
    BY <1>1, <1>2, Times
  <2>3. (Symbols - 2 + 1) * Symbol = (Symbols - 2) * Symbol + 1 * Symbol
    BY <1>1, <1>2, Times
  <2>4. Symbols - 1 + 1 = Symbols /\ Symbols - 2 + 1 = Symbols - 1 /\ Symbols - 2 \in Nat
    BY <1>1, <1>2
  <2> QED BY <2>1, <2>2, <2>3, <2>4, Times, <1>1
<1> QED BY <1>1, <1>2, <1>3 DEF Period, Ctrl, Asks

\* What is known of a DCI.
LEMMA DciFacts ==
    ASSUME NEW x \in Dcis
    PROVE  /\ x.sym \in Nat /\ x.num \in Nat /\ x.num > 0
           /\ (x.type = "CTRL" /\ x.format = "DL") => x = DlCtrlDci
           /\ (x.type = "CTRL" /\ x.format = "UL") => x = UlCtrlDci
           /\ x = UlCtrlDci => x.type = "CTRL" /\ x.format = "UL" /\ x.sym = Symbols - 1 /\ x.num = 1
           /\ x = DlCtrlDci => x.type = "CTRL" /\ x.format = "DL" /\ x.sym = 0 /\ x.num = 1
<1>1. Symbols - 1 \in Nat
  BY Layout
<1>2. CASE x \in DataDcis
  BY <1>2 DEF DataDcis, UlCtrlDci, DlCtrlDci, CtrlAt
<1>3. CASE x = DlCtrlDci
  BY <1>3 DEF UlCtrlDci, DlCtrlDci, CtrlAt
<1>4. CASE x = UlCtrlDci
  BY <1>1, <1>4 DEF UlCtrlDci, DlCtrlDci, CtrlAt
<1> QED BY <1>2, <1>3, <1>4 DEF Dcis

\* What the slot holds lies within it.
LEMMA PatternFacts ==
    ASSUME NEW i \in DOMAIN Pattern, NEW list \in Pattern[i].ul \union {Pattern[i].dl}
    PROVE  /\ Pattern[i].type \in {"DL", "F", "UL"}
           /\ list \subseteq DataDcis
           /\ \A x \in list : x.sym + x.num <= Last(Pattern[i].type)
           /\ Pattern[i].type # "UL" => \A x \in list : x.sym >= 1
<1> DEFINE Slots == [type : {"DL", "F", "UL"}, ul : SUBSET (SUBSET DataDcis), dl : SUBSET DataDcis]
<1>1. Pattern[i] \in Slots
  <2>1. Pattern \in Seq(Slots)
    BY PatternAssumption
  <2> HIDE DEF Slots
  <2> QED BY <2>1
<1>2. list \subseteq (UNION Pattern[i].ul) \union Pattern[i].dl
  OBVIOUS
<1> QED BY <1>1, <1>2, PatternAssumption DEF Last

\* While the uplink control is ahead it is not yet time for it.
LEMMA AheadIsBefore ==
    ASSUME SlotInv, CtrlAhead
    PROVE  pos <= Ctrl /\ event.type # "StartSlot"
<1>1. pos <= event.at /\ pos \in Nat /\ event.at \in Nat
  <2>1. event.at \in Int
    BY Layout, DciFacts, Times DEF SlotInv
  <2> QED BY <2>1 DEF SlotInv
<1>2. CASE UlCtrlDci \in allocs
  <2>1. event.dci.sym \in Nat /\ event.dci.num \in Nat
        /\ event.dci.sym + event.dci.num <= Symbols - 1
    BY <1>2, DciFacts DEF SlotInv
  <2>2. event.dci.sym * Symbol <= (Symbols - 1) * Symbol
        /\ (event.dci.sym + event.dci.num) * Symbol <= (Symbols - 1) * Symbol
    <3>1. Symbols - 1 \in Nat /\ event.dci.sym + event.dci.num \in Nat
          /\ event.dci.sym <= Symbols - 1
      BY <2>1, Layout
    <3> QED BY <2>1, <3>1, Times
  <2>3. event.at <= Ctrl
    BY <1>2, <2>2, Layout DEF SlotInv
  <2> QED BY <1>1, <1>2, <2>3, Layout DEF SlotInv
<1>3. CASE event.type = "StartVarTti" /\ event.dci = UlCtrlDci
  BY <1>1, <1>3, Layout, DciFacts DEF SlotInv
<1> QED BY <1>2, <1>3 DEF CtrlAhead
-----------------------------------------------------------------------------
(* The DCIs of a slot.                                                     *)

LEMMA StartFacts ==
    ASSUME SlotInv, NEW type, NEW format, StartVarTti(type, format)
    PROVE  /\ event.type = "StartVarTti" /\ pos = event.at /\ pos \in Nat
           /\ event.dci.type = type /\ event.dci.format = format
           /\ event.dci.sym \in Nat /\ event.dci.num \in Nat
           /\ event' \in [type : {"StartSlot", "StartVarTti", "EndVarTti"}, dci : Dcis, at : Int]
           /\ event'.type = "EndVarTti" /\ event'.dci = event.dci
           /\ event'.at = (event.dci.sym + event.dci.num) * Symbol
           /\ pos < event'.at
           /\ Length - 1 \in Nat
           /\ pos' = pos /\ UNCHANGED <<index, allocs>>
<1>1. event.type = "StartVarTti" /\ pos = event.at /\ event.dci.type = type
      /\ event.dci.format = format /\ pos' = pos /\ UNCHANGED <<index, allocs>>
  BY DEF StartVarTti, Happens, slot
<1>2. event.dci \in Dcis /\ event.at \in Int /\ event.at = event.dci.sym * Symbol
  BY <1>1 DEF SlotInv
<1>3. event.dci.sym \in Nat /\ event.dci.num \in Nat /\ event.dci.num > 0
  BY <1>2, DciFacts
<1>4. /\ event.dci.sym * Symbol \in Nat /\ Length \in Nat
      /\ (event.dci.sym + event.dci.num) * Symbol = event.dci.sym * Symbol + Length
  BY <1>3, Times DEF Length
<1>5. Length >= Symbol
  <2>1. 1 * Symbol <= event.dci.num * Symbol
    <3>1. 1 \in Nat /\ event.dci.num \in Nat /\ 1 <= event.dci.num
      BY <1>3
    <3> HIDE <1>3
    <3> QED BY <3>1, Times
  <2> QED BY <2>1, Layout DEF Length
<1>6. event' = [type |-> "EndVarTti", dci |-> event.dci, at |-> pos + Length]
  BY <1>1 DEF StartVarTti, SlotInv
<1> QED BY <1>1, <1>2, <1>3, <1>4, <1>5, <1>6, Layout

\* A DCI that begins stays within the slot, and is ahead no longer.
LEMMA StartKeepsSlot ==
    ASSUME SlotInv, NEW type, NEW format, StartVarTti(type, format),
           hearing' \/ tryLbt' => hearing \/ tryLbt \/ (type = "CTRL" /\ format = "DL")
    PROVE  SlotInv' /\ (CtrlAhead' <=> UlCtrlDci \in allocs)
<1>1. event.type = "StartVarTti" /\ event'.type = "EndVarTti" /\ event'.dci = event.dci
      /\ UNCHANGED <<pos, index, allocs>>
  BY StartFacts
<1>2. CtrlAhead' <=> UlCtrlDci \in allocs
  <2>1. UlCtrlDci' = UlCtrlDci
    BY DEF UlCtrlDci, CtrlAt
  <2> QED BY <1>1, <2>1 DEF CtrlAhead
<1>3. (hearing' \/ tryLbt') => event.dci = DlCtrlDci
  BY <1>1, StartFacts, DciFacts DEF SlotInv
<1>4. pos' \in 0 .. event'.at /\ pos' < event'.at
  BY StartFacts
<1>5. event' \in [type : {"StartSlot", "StartVarTti", "EndVarTti"}, dci : Dcis, at : Int]
      /\ event'.at = (event.dci.sym + event.dci.num) * Symbol
  BY StartFacts
<1>6. \A x \in allocs \union {event.dci} :
        x = UlCtrlDci \/ x.sym + x.num <= Last(Pattern[index].type)
  BY <1>1 DEF SlotInv
<1>7. CtrlAhead' => Pattern[index].type # "DL"
  BY <1>2 DEF SlotInv, CtrlAhead
<1>8. DlCtrlDci \in allocs \union {event.dci} => Pattern[index].type # "UL"
  BY <1>1 DEF SlotInv
<1> QED BY <1>1, <1>2, <1>3, <1>4, <1>5, <1>6, <1>7, <1>8
        DEF SlotInv, Dcis, DlCtrlDci, UlCtrlDci, CtrlAt, Apart, Last

\* The first of a list begins at its own symbol, and leaves the others for later.
LEMMA FirstKeeps ==
    ASSUME NEW list \in SUBSET Dcis, list # {}, StartVarTtiOfFirst(list),
           \A x, y \in list : x = y \/ Apart(x, y)
    PROVE  /\ allocs' \subseteq list
           /\ event' \in [type : {"StartSlot", "StartVarTti", "EndVarTti"}, dci : list, at : Int]
           /\ event'.type = "StartVarTti" /\ event'.at = event'.dci.sym * Symbol
           /\ list = allocs' \union {event'.dci}
           /\ \A x \in allocs' : event'.dci.sym + event'.dci.num <= x.sym
<1>1. PICK first \in list :
        /\ \A dci \in list : first.sym <= dci.sym
        /\ allocs' = list \ {first}
        /\ event' = [type |-> "StartVarTti", dci |-> first, at |-> first.sym * Symbol]
  BY DEF StartVarTtiOfFirst
<1>2. first.sym \in Nat /\ first.num \in Nat /\ first.sym * Symbol \in Nat
  BY DciFacts, Times
<1>3. \A x \in allocs' : first.sym + first.num <= x.sym
  <2> TAKE x \in allocs'
  <2>1. x \in list /\ x # first /\ x.sym \in Nat /\ x.num \in Nat /\ x.num > 0
    BY <1>1, DciFacts
  <2>2. Apart(first, x) /\ first.sym <= x.sym
    BY <1>1, <2>1
  <2> QED BY <1>2, <2>1, <2>2 DEF Apart
<1> QED BY <1>1, <1>2, <1>3
-----------------------------------------------------------------------------
(* The access manager.                                                     *)

\* A signal, the UE's own or another's, ends what Cat2 was asked for.
LEMMA OccupiedKeeps ==
    ASSUME Cat2Inv, RequestInv, NEW d \in Nat, Occupied(d), UNCHANGED <<pos, lbtEvent, kind>>
    PROVE  /\ Cat2Inv' /\ grantRequested' = FALSE
           /\ UNCHANGED <<call, grant>>
           /\ StatusAfterBusy \in {"NONE", status}
<1>1. UNCHANGED <<call, grant>> /\ StatusAfterBusy \in {"NONE", status}
  BY DEF Occupied, onOff, StatusAfterBusy, Cat2!AfterBusy
<1>2. CASE kind = "Cat2"
  <2>1. Cat2!TransitionToBusy(d)
    BY <1>2 DEF Occupied
  <2>2. CASE state # "BUSY"
    <3>1. /\ state' = "BUSY" /\ idleFor' = -d /\ busyEvent' = d
          /\ deferEvent' = (IF state = "WAIT_FOR_DEFER" THEN Off ELSE deferEvent)
          /\ grantRequested' = (state # "WAIT_FOR_DEFER" /\ grantRequested)
      BY <2>1, <2>2 DEF Cat2!TransitionToBusy, Cat2!Off, Off
    <3>2. deferEvent' = Off
      BY <3>1 DEF Cat2Inv, Off
    <3>3. grantRequested' = FALSE
      BY <3>1 DEF RequestInv
    <3>4. Cat2Inv'
      BY <1>2, <3>1, <3>2, UeAssumption DEF Cat2Inv, Off
    <3> QED BY <1>1, <3>3, <3>4
  <2>3. CASE state = "BUSY"
    <3>1. /\ state' = "BUSY" /\ UNCHANGED <<deferEvent, grantRequested>>
          /\ idleFor' = (IF -d < idleFor THEN -d ELSE idleFor)
          /\ busyEvent' = (IF busyEvent = Off /\ grantRequested THEN -idleFor' ELSE busyEvent)
      BY <2>1, <2>3 DEF Cat2!TransitionToBusy, Cat2!Longer, Cat2!Off, Off
    <3>2. grantRequested = FALSE
      BY <2>3 DEF RequestInv
    <3>3. Cat2Inv'
      BY <1>2, <2>3, <3>1, <3>2, UeAssumption DEF Cat2Inv, Off
    <3> QED BY <1>1, <3>1, <3>2, <3>3
  <2> QED BY <2>2, <2>3
<1>3. CASE kind # "Cat2"
  <2>1. UNCHANGED cat2
    BY <1>3 DEF Occupied
  <2>2. Cat2Inv'
    BY <2>1 DEF cat2, Cat2Inv, Asks, Ctrl, Period
  <2>3. grantRequested' = FALSE
    BY <1>3, <2>1 DEF cat2, RequestInv
  <2> QED BY <1>1, <2>2, <2>3
<1> QED BY <1>2, <1>3

\* A DCI that is not the uplink control begins, and may be heard.
LEMMA OtherBegins ==
    ASSUME Inv, NEW type, NEW format, StartVarTti(type, format),
           ~(type = "CTRL" /\ format = "UL"),
           hearing' \/ tryLbt' => hearing \/ tryLbt \/ (type = "CTRL" /\ format = "DL"),
           Cat2Inv', grantRequested' \in BOOLEAN,
           grantRequested' => grantRequested /\ state' = state,
           status' \in {"NONE", status}, UNCHANGED <<call, grant>>
    PROVE  Inv'
<1>1. SlotInv' /\ (CtrlAhead' <=> UlCtrlDci \in allocs)
  BY StartKeepsSlot DEF Inv
<1>2. UNCHANGED <<pos, lbtEvent, kind>>
  BY DEF StartVarTti
<1>3. CtrlAhead' <=> CtrlAhead
  <2>1. event.dci # UlCtrlDci
    BY StartFacts DEF Inv, UlCtrlDci, CtrlAt
  <2> QED BY <1>1, <2>1 DEF CtrlAhead
<1>4. RequestInv'
  BY <1>2, <1>3 DEF Inv, RequestInv, Asks, Ctrl, Period
<1> QED BY <1>1, <1>4 DEF Inv

\* The uplink control begins: what was asked for it has to be over.
LEMMA UlCtrlBegins ==
    ASSUME Inv, StartVarTti("CTRL", "UL"), UNCHANGED <<hearing, tryLbt>>,
           Cat2Inv', grantRequested' = FALSE, call' = FALSE, UNCHANGED grant
    PROVE  Inv'
<1>1. SlotInv' /\ (CtrlAhead' <=> UlCtrlDci \in allocs)
  BY StartKeepsSlot DEF Inv
<1>2. event.type = "StartVarTti" /\ event.dci = UlCtrlDci /\ pos = Ctrl
  <2>1. event.type = "StartVarTti" /\ event.dci = UlCtrlDci /\ pos = event.at
    BY StartFacts, DciFacts DEF Inv, SlotInv
  <2> QED BY <2>1, Layout, DciFacts DEF Inv, SlotInv, Dcis
<1>3. lbtEvent = Off
  <2>1. Lead > 0 /\ Lead \in Nat
    BY UeAssumption
  <2> QED BY <1>2, <2>1, Layout DEF Inv, RequestInv
<1>4. ~CtrlAhead'
  <2>1. event.dci.sym = Symbols - 1 /\ event.dci.num = 1
    BY <1>2, DciFacts DEF Dcis
  <2>2. UlCtrlDci \notin allocs
    BY <1>2, <2>1, Layout DEF Inv, SlotInv
  <2> QED BY <1>1, <2>2
<1>5. RequestInv'
  BY <1>3, <1>4 DEF StartVarTti, Inv, RequestInv
<1> QED BY <1>1, <1>5 DEF Inv
-----------------------------------------------------------------------------
(* The steps.                                                              *)

LEMMA InitKeeps == Init => Inv
<1> SUFFICES ASSUME Init
             PROVE  Inv
  OBVIOUS
<1>1. SlotInv
  <2>1. UlCtrlDci \in Dcis /\ Period \in Int /\ pos \in 0 .. event.at
    BY Layout DEF Init, Dcis
  <2>2. index \in DOMAIN Pattern
    BY PatternAssumption DEF Init
  <2> QED BY <2>1, <2>2 DEF Init, SlotInv, CtrlAhead
<1>2. /\ call = FALSE /\ grant = FALSE /\ grantRequested = FALSE /\ state = "IDLE" /\ idleFor = 0
      /\ deferEvent = -1 /\ busyEvent = -1 /\ lbtEvent = -1 /\ status = "NONE"
  BY DEF Init, Cat2!Init, OnOff!Init, Cat2!Off, Off
<1>3. RequestInv
  BY <1>2 DEF RequestInv, Off
<1>4. Cat2Inv
  BY <1>2, UeAssumption DEF Cat2Inv, Off
<1> QED BY <1>1, <1>3, <1>4 DEF Inv

\* The request: Cat2 is IDLE or busy, since no earlier defer time lasts until now.
LEMMA RequestKeeps ==
    ASSUME Inv, RequestAccess
    PROVE  Inv'
<1>1. /\ lbtEvent = 0 /\ lbtEvent' = Off /\ UNCHANGED <<pos, index, allocs, event, kind>>
      /\ UNCHANGED <<tryLbt, hearing>>
  BY DEF RequestAccess, slot
<1>2. CtrlAhead /\ pos = Asks /\ ~call /\ ~grantRequested
  BY <1>1, Layout DEF Inv, RequestInv, SlotInv, Off
<1>3. SlotInv' /\ CtrlAhead'
  BY <1>1, <1>2 DEF Inv, SlotInv, CtrlAhead, Dcis, DlCtrlDci, UlCtrlDci, CtrlAt, Apart, Last
<1>4. CASE kind = "AlwaysOn" /\ UNCHANGED <<cat2, onOff>>
  BY <1>1, <1>2, <1>3, <1>4 DEF cat2, onOff, Inv, RequestInv, Cat2Inv, Asks, Ctrl, Period
<1>5. CASE kind = "OnOff" /\ OnOff!RequestAccess /\ UNCHANGED cat2
  <2>1. status # "GRANTED"
    BY <1>1, <1>5 DEF Inv, RequestInv, Off
  <2>2. Cat2Inv'
    BY <1>1, <1>5 DEF cat2, Inv, Cat2Inv, Asks, Ctrl, Period
  <2>3. RequestInv'
    BY <1>1, <1>2, <1>3, <1>5, <2>1, Layout DEF OnOff!RequestAccess, cat2, Inv, RequestInv, Asks, Ctrl, Period
  <2> QED BY <1>3, <2>2, <2>3 DEF Inv
<1>6. CASE kind = "Cat2" /\ Cat2!RequestAccess /\ UNCHANGED onOff
  <2>1. state # "WAIT_FOR_DEFER"
    BY <1>1, <1>2, Layout DEF Inv, Cat2Inv, Off
  <2>2. CASE Cat2!LongIdle /\ Cat2!SetGrant /\ UNCHANGED <<idleFor, deferEvent, busyEvent>>
    <3>1. state # "BUSY"
      BY <2>2, UeAssumption DEF Cat2!LongIdle, Inv, Cat2Inv, Off
    <3>2. Cat2Inv'
      BY <1>1, <1>6, <2>1, <2>2, <3>1 DEF Cat2!LongIdle, Cat2!SetGrant, Inv, Cat2Inv
    <3>3. RequestInv'
      BY <1>1, <1>2, <1>6, <2>2 DEF Cat2!SetGrant, onOff, Inv, RequestInv
    <3> QED BY <1>3, <3>2, <3>3 DEF Inv
  <2>3. CASE /\ state = "IDLE" /\ ~Cat2!LongIdle
             /\ grantRequested' = TRUE /\ deferEvent' = Defer - idleFor
             /\ state' = "WAIT_FOR_DEFER" /\ UNCHANGED <<idleFor, busyEvent, status>>
    <3>1. idleFor \in Nat /\ idleFor < Defer /\ Defer \in Nat
      BY <2>3, UeAssumption DEF Cat2!LongIdle, Inv, Cat2Inv
    <3>2. Cat2Inv'
      BY <1>1, <1>2, <1>6, <2>3, <3>1, Layout DEF Inv, Cat2Inv, Off, Asks, Ctrl, Period
    <3>3. RequestInv'
      BY <1>1, <1>2, <1>3, <1>6, <2>3, Layout DEF onOff, Inv, RequestInv, Asks, Ctrl, Period
    <3> QED BY <1>3, <3>2, <3>3 DEF Inv
  <2>4. CASE Cat2!NotifyAccessDenied /\ UNCHANGED <<state, idleFor, deferEvent, busyEvent>>
    <3>1. Cat2Inv'
      BY <1>1, <1>6, <2>1, <2>4 DEF Inv, Cat2Inv
    <3>2. RequestInv'
      BY <1>1, <1>2, <1>6, <2>4 DEF Cat2!NotifyAccessDenied, onOff, Inv, RequestInv
    <3> QED BY <1>3, <3>1, <3>2 DEF Inv
  <2> QED BY <1>2, <1>6, <2>2, <2>3, <2>4 DEF Cat2!RequestAccess
<1> QED BY <1>4, <1>5, <1>6 DEF RequestAccess

\* What the managers have scheduled.
LEMMA ManagerKeeps ==
    ASSUME Inv, Manager
    PROVE  Inv'
<1>1. UNCHANGED <<pos, index, allocs, event, tryLbt, lbtEvent, hearing, kind>>
  BY DEF Manager, slot
<1>2. SlotInv' /\ (CtrlAhead' <=> CtrlAhead)
  BY <1>1 DEF Inv, SlotInv, CtrlAhead, Dcis, DlCtrlDci, UlCtrlDci, CtrlAt, Apart, Last
<1>3. CASE kind = "Cat2" /\ Cat2!RequestAccessAfterDefer /\ UNCHANGED onOff
  <2>1. state = "WAIT_FOR_DEFER" /\ deferEvent = 0 /\ deferEvent' = Off
        /\ state' = "TXOP_GRANTED" /\ grantRequested' = FALSE /\ UNCHANGED <<idleFor, busyEvent>>
    BY <1>3 DEF Cat2!RequestAccessAfterDefer, Cat2!SetGrant, Cat2!Off, Off
  <2>2. Cat2Inv'
    BY <1>1, <1>3, <2>1, UeAssumption DEF Inv, Cat2Inv, Off
  <2>3. RequestInv'
    BY <1>1, <1>2, <1>3, <2>1 DEF onOff, Inv, RequestInv, Asks, Ctrl, Period
  <2> QED BY <1>2, <2>2, <2>3 DEF Inv
<1>4. CASE kind = "Cat2" /\ Cat2!TransitionFromBusy /\ UNCHANGED onOff
  <2>1. busyEvent = 0 /\ UNCHANGED <<grantRequested, idleFor, status>>
    BY <1>4 DEF Cat2!TransitionFromBusy
  <2>2. state = "BUSY" /\ grantRequested = FALSE
    BY <2>1 DEF Inv, Cat2Inv, RequestInv, Off
  <2>3. UNCHANGED deferEvent
        /\ \/ idleFor < 0 /\ busyEvent' = -idleFor /\ state' = "BUSY"
           \/ idleFor >= 0 /\ busyEvent' = Off /\ state' = "IDLE"
    BY <1>4, <2>2 DEF Cat2!TransitionFromBusy, Cat2!Off, Off
  <2>4. Cat2Inv'
    BY <1>1, <1>4, <2>1, <2>2, <2>3, UeAssumption DEF Inv, Cat2Inv, Off
  <2>5. RequestInv'
    BY <1>1, <1>2, <1>4, <2>1, <2>2 DEF onOff, Inv, RequestInv, Asks, Ctrl, Period
  <2> QED BY <1>2, <2>4, <2>5 DEF Inv
<1>5. CASE kind = "OnOff" /\ OnOff!Start /\ UNCHANGED cat2
  <2>1. Cat2Inv'
    BY <1>1, <1>5 DEF cat2, Inv, Cat2Inv, Asks, Ctrl, Period
  <2>2. RequestInv'
    BY <1>1, <1>2, <1>5 DEF OnOff!Start, cat2, Inv, RequestInv, Asks, Ctrl, Period
  <2> QED BY <1>2, <2>1, <2>2 DEF Inv
<1>6. CASE kind = "OnOff" /\ OnOff!ShutDown /\ UNCHANGED cat2
  <2>1. Cat2Inv'
    BY <1>1, <1>6 DEF cat2, Inv, Cat2Inv, Asks, Ctrl, Period
  <2>2. RequestInv'
    BY <1>1, <1>2, <1>6 DEF OnOff!ShutDown, cat2, Inv, RequestInv, Asks, Ctrl, Period
  <2> QED BY <1>2, <2>1, <2>2 DEF Inv
<1> QED BY <1>3, <1>4, <1>5, <1>6 DEF Manager

\* The DCI that comes with the downlink control is for after it.
LEMMA PhyCtrlKeeps ==
    ASSUME Inv, PhyCtrlMessagesReceived
    PROVE  Inv'
<1>1. PICK new \in {{}} \union {{dci} : dci \in Pattern[index].dl} :
        /\ \A x \in new, y \in allocs : Apart(x, y)
        /\ allocs' = allocs \union new
  BY DEF PhyCtrlMessagesReceived
<1>2. /\ hearing /\ hearing' = FALSE /\ event.type = "EndVarTti" /\ event.dci = DlCtrlDci
      /\ UNCHANGED <<pos, index, event, tryLbt, lbtEvent, kind, status, cat2, onOff>>
  BY DEF PhyCtrlMessagesReceived, Inv, SlotInv
<1>3. index \in DOMAIN Pattern /\ Pattern[index].type # "UL"
  BY <1>2 DEF Inv, SlotInv
<1>4. \A x \in new : /\ x \in DataDcis /\ x.sym >= 1
                     /\ x.sym + x.num <= Last(Pattern[index].type)
  <2>1. Pattern[index].dl \in Pattern[index].ul \union {Pattern[index].dl}
    OBVIOUS
  <2> QED BY <1>3, <2>1, PatternFacts
<1>5. new \subseteq Dcis /\ UlCtrlDci \notin new /\ DlCtrlDci \notin new
  BY <1>4 DEF Dcis, DataDcis, UlCtrlDci, DlCtrlDci, CtrlAt
<1>6. event.dci.sym = 0 /\ event.dci.num = 1
  BY <1>2, DciFacts DEF Dcis
<1>7. CtrlAhead' <=> CtrlAhead
  BY <1>1, <1>2, <1>5 DEF CtrlAhead, UlCtrlDci, CtrlAt
<1>8. \A x, y \in allocs' : x = y \/ Apart(x, y)
  BY <1>1 DEF Inv, SlotInv, Apart
<1>9. SlotInv'
  <2>1. allocs' \subseteq Dcis /\ \A x \in allocs' : event.dci.sym + event.dci.num <= x.sym
    BY <1>1, <1>4, <1>5, <1>6 DEF Inv, SlotInv
  <2>2. \A x \in allocs' \union {event.dci} :
          x = UlCtrlDci \/ x.sym + x.num <= Last(Pattern[index].type)
    BY <1>1, <1>2, <1>4 DEF Inv, SlotInv
  <2>3. CtrlAhead' => Pattern[index].type # "DL"
    BY <1>7 DEF Inv, SlotInv
  <2> QED BY <1>2, <1>3, <1>8, <2>1, <2>2, <2>3
          DEF Inv, SlotInv, Dcis, DlCtrlDci, UlCtrlDci, CtrlAt, Apart, Last
<1>10. RequestInv' /\ Cat2Inv'
  <2>1. UNCHANGED <<pos, lbtEvent, kind, status, state, grantRequested, idleFor, deferEvent,
                    busyEvent, grant, call>>
    BY <1>2 DEF cat2, onOff
  <2>2. RequestInv'
    BY <1>7, <2>1 DEF Inv, RequestInv, Asks, Ctrl, Period
  <2>3. Cat2Inv'
    BY <2>1 DEF Inv, Cat2Inv, Asks, Ctrl, Period
  <2> QED BY <2>2, <2>3
<1> QED BY <1>9, <1>10 DEF Inv

\* What TryToPerformLbt schedules is the request for the uplink control on the list.
LEMMA LbtFacts ==
    ASSUME Inv, NEW list, NEW now \in {0, Symbol}, TryToPerformLbt(list, now),
           lbtEvent = Off \/ now + lbtEvent = Asks
    PROVE  /\ lbtEvent' \in Nat \union {Off}
           /\ lbtEvent' # Off => now + lbtEvent' = Asks
           /\ lbtEvent' # Off => lbtEvent' = lbtEvent \/ (UlCtrlDci \in list /\ status # "GRANTED")
           /\ status' = status \/ (status' = "GRANTED" /\ UlCtrlDci \in list /\ lbtEvent' = Off)
<1>1. lbtEvent \in Nat \union {Off}
  BY DEF Inv, RequestInv
<1>2. UlCtrlDci.sym * Symbol - Lead - now = Asks - now /\ Asks - now \in Nat
  BY Layout DEF UlCtrlDci, CtrlAt
<1>3. CASE UNCHANGED <<status, lbtEvent>>
  BY <1>1, <1>3
<1>4. CASE UlCtrlDci \in list /\ status' = "GRANTED" /\ lbtEvent' = Off
  BY <1>4
<1>5. CASE /\ UlCtrlDci \in list /\ UNCHANGED status
           /\ lbtEvent' = IF status = "GRANTED" THEN lbtEvent ELSE Asks - now
  <2>1. CASE status = "GRANTED"
    BY <1>1, <1>5, <2>1
  <2>2. CASE status # "GRANTED"
    BY <1>2, <1>5, <2>2, Layout
  <2> QED BY <2>1, <2>2
<1> QED BY <1>2, <1>3, <1>4, <1>5 DEF TryToPerformLbt

\* The slot begins with nothing left of the one before.
LEMMA StartSlotKeeps ==
    ASSUME Inv, StartSlot
    PROVE  Inv'
<1>1. event.type = "StartSlot" /\ allocs = {} /\ pos = Period /\ pos' = 0
      /\ UNCHANGED <<index, tryLbt, hearing, kind, cat2, onOff>>
  BY DEF StartSlot, Happens, Inv, SlotInv
<1>2. ~CtrlAhead /\ lbtEvent = Off /\ ~call /\ ~grantRequested
  BY <1>1 DEF Inv, RequestInv, CtrlAhead
<1>3. PICK ul \in Pattern[index].ul :
        /\ TryToPerformLbt(ul \union PushCtrlAllocations(Pattern[index].type), 0)
        /\ StartVarTtiOfFirst(ul \union PushCtrlAllocations(Pattern[index].type))
  BY DEF StartSlot
<1> DEFINE type == Pattern[index].type
           list == ul \union PushCtrlAllocations(type)
<1>4. index \in DOMAIN Pattern /\ type \in {"DL", "F", "UL"}
      /\ ul \subseteq DataDcis
      /\ (\A x \in ul : x.sym + x.num <= Last(type))
      /\ (type # "UL" => \A x \in ul : x.sym >= 1)
      /\ (\A x, y \in ul : x = y \/ Apart(x, y))
  BY <1>3, PatternFacts, PatternAssumption DEF Inv, SlotInv
<1>5. list \in SUBSET Dcis /\ list # {}
  BY <1>4 DEF Dcis, PushCtrlAllocations
<1>6. UlCtrlDci \in list <=> type # "DL"
  BY <1>4 DEF PushCtrlAllocations, DataDcis, UlCtrlDci, DlCtrlDci, CtrlAt
<1>7. DlCtrlDci \in list <=> type # "UL"
  BY <1>4 DEF PushCtrlAllocations, DataDcis, UlCtrlDci, DlCtrlDci, CtrlAt
<1>8. \A x \in list : x = UlCtrlDci \/ x.sym + x.num <= Last(type)
  BY <1>4, Layout DEF PushCtrlAllocations, DlCtrlDci, CtrlAt, Last
<1>9. \A x, y \in list : x = y \/ Apart(x, y)
  <2> SUFFICES ASSUME NEW x \in list, NEW y \in list, x # y
               PROVE  Apart(x, y)
    OBVIOUS
  <2>1. x.sym \in Nat /\ x.num \in Nat /\ y.sym \in Nat /\ y.num \in Nat
    BY <1>5, DciFacts
  <2>2. \A z \in ul : (DlCtrlDci \in list => z.sym >= 1)
                    /\ (UlCtrlDci \in list => z.sym + z.num <= Symbols - 1)
    BY <1>4, <1>6, <1>7 DEF Last
  <2>3. DlCtrlDci.sym + DlCtrlDci.num = 1 /\ UlCtrlDci.sym = Symbols - 1
    BY DEF DlCtrlDci, UlCtrlDci, CtrlAt
  <2>4. Apart(DlCtrlDci, UlCtrlDci) /\ Apart(UlCtrlDci, DlCtrlDci)
    BY <2>3, Layout DEF Apart, DlCtrlDci, UlCtrlDci, CtrlAt
  <2>5. list \subseteq ul \union {DlCtrlDci, UlCtrlDci}
    BY DEF PushCtrlAllocations
  <2>6. CASE x \in ul /\ y \in ul
    BY <1>4, <2>6
  <2>7. CASE x \in ul /\ y \in {DlCtrlDci, UlCtrlDci}
    BY <2>1, <2>2, <2>3, <2>7 DEF Apart
  <2>8. CASE y \in ul /\ x \in {DlCtrlDci, UlCtrlDci}
    BY <2>1, <2>2, <2>3, <2>8 DEF Apart
  <2>9. CASE x \in {DlCtrlDci, UlCtrlDci} /\ y \in {DlCtrlDci, UlCtrlDci}
    BY <2>4, <2>9
  <2> QED BY <2>5, <2>6, <2>7, <2>8, <2>9
<1>10. TryToPerformLbt(list, 0) /\ StartVarTtiOfFirst(list)
  BY <1>3
<1> HIDE DEF list, type
<1>11. /\ allocs' \subseteq list
       /\ event' \in [type : {"StartSlot", "StartVarTti", "EndVarTti"}, dci : list, at : Int]
       /\ event'.type = "StartVarTti" /\ event'.at = event'.dci.sym * Symbol
       /\ list = allocs' \union {event'.dci}
       /\ \A x \in allocs' : event'.dci.sym + event'.dci.num <= x.sym
  BY <1>5, <1>9, <1>10, FirstKeeps
<1>12. CtrlAhead' <=> UlCtrlDci \in list
  BY <1>11 DEF CtrlAhead, UlCtrlDci, CtrlAt
<1>13. SlotInv'
  <2>1. event'.dci \in Dcis /\ event'.dci.sym * Symbol \in Nat
    BY <1>5, <1>11, DciFacts, Times
  <2>2. pos' \in 0 .. event'.at
    BY <1>1, <1>11, <2>1
  <2>3. ~hearing' /\ ~tryLbt'
    BY <1>1 DEF Inv, SlotInv
  <2>4. \A x, y \in allocs' : x = y \/ Apart(x, y)
    BY <1>9, <1>11
  <2>5. (CtrlAhead' => type # "DL") /\ (DlCtrlDci \in allocs' \union {event'.dci} => type # "UL")
    BY <1>6, <1>7, <1>11, <1>12
  <2>6. \A x \in allocs' \union {event'.dci} : x = UlCtrlDci \/ x.sym + x.num <= Last(type)
    BY <1>8, <1>11
  <2>7. index' = index /\ type = Pattern[index] .type
    BY <1>1 DEF type
  <2> QED BY <1>4, <1>5, <1>11, <2>1, <2>2, <2>3, <2>4, <2>5, <2>6, <2>7
          DEF SlotInv, Dcis, DlCtrlDci, UlCtrlDci, CtrlAt, Apart, Last
<1>14. /\ lbtEvent' \in Nat \union {Off}
       /\ lbtEvent' # Off => lbtEvent' = Asks /\ UlCtrlDci \in list /\ status # "GRANTED"
       /\ status' = status \/ (status' = "GRANTED" /\ UlCtrlDci \in list /\ lbtEvent' = Off)
  <2>1. /\ lbtEvent' \in Nat \union {Off}
        /\ lbtEvent' # Off => 0 + lbtEvent' = Asks
        /\ lbtEvent' # Off => lbtEvent' = lbtEvent \/ (UlCtrlDci \in list /\ status # "GRANTED")
        /\ status' = status \/ (status' = "GRANTED" /\ UlCtrlDci \in list /\ lbtEvent' = Off)
    BY <1>2, <1>10, LbtFacts
  <2> QED BY <1>2, <2>1, Layout DEF Off
<1>15. RequestInv'
  <2>1. lbtEvent' # Off => CtrlAhead' /\ pos' + lbtEvent' = Asks /\ status' # "GRANTED"
    BY <1>1, <1>12, <1>14, Layout
  <2>2. UNCHANGED <<call, grant, grantRequested, state, kind>>
    BY <1>1 DEF cat2, onOff
  <2> QED BY <1>2, <1>14, <2>1, <2>2 DEF Inv, RequestInv, Asks, Ctrl, Period
<1>16. Cat2Inv'
  <2>1. UNCHANGED <<state, idleFor, deferEvent, busyEvent, kind>>
    BY <1>1 DEF cat2
  <2>2. state = "WAIT_FOR_DEFER" => deferEvent \in Nat /\ deferEvent < Asks
    BY <1>1, Layout, UeAssumption DEF Inv, Cat2Inv, Off
  <2> QED BY <1>1, <2>1, <2>2, Layout, UeAssumption DEF Inv, Cat2Inv, Asks, Ctrl, Period
<1> QED BY <1>13, <1>15, <1>16 DEF Inv

\* A DCI ends: the next begins, or the next slot.
LEMMA EndVarTtiKeeps ==
    ASSUME Inv, EndVarTti
    PROVE  Inv'
<1>1. event.type = "EndVarTti" /\ pos = event.at /\ tryLbt' = FALSE
      /\ UNCHANGED <<pos, hearing, kind, cat2, onOff>>
  BY DEF EndVarTti, Happens
<1>2. CtrlAhead <=> UlCtrlDci \in allocs
  BY <1>1 DEF CtrlAhead
<1>3. ~hearing
  BY <1>1, Layout, DciFacts, Times DEF Inv, SlotInv
<1>4. /\ event.dci.sym \in Nat /\ event.dci.num \in Nat
      /\ pos = (event.dci.sym + event.dci.num) * Symbol /\ pos \in Nat
  BY <1>1, DciFacts, Times DEF Inv, SlotInv
<1>5. tryLbt => pos = Symbol
  <2> SUFFICES ASSUME tryLbt
               PROVE  pos = Symbol
    OBVIOUS
  <2>1. event.dci.sym = 0 /\ event.dci.num = 1
    BY DciFacts DEF Inv, SlotInv, Dcis
  <2> QED BY <1>4, <2>1, Layout
<1>6. /\ lbtEvent' \in Nat \union {Off}
      /\ lbtEvent' # Off => pos + lbtEvent' = Asks
      /\ lbtEvent' # Off => lbtEvent' = lbtEvent \/ (UlCtrlDci \in allocs /\ status # "GRANTED")
      /\ status' = status \/ (status' = "GRANTED" /\ UlCtrlDci \in allocs /\ lbtEvent' = Off)
  <2>1. lbtEvent \in Nat \union {Off} /\ (lbtEvent # Off => pos + lbtEvent = Asks)
    BY DEF Inv, RequestInv
  <2>2. CASE tryLbt
    <3>1. TryToPerformLbt(allocs, pos) /\ pos \in {0, Symbol}
      BY <1>5, <2>2 DEF EndVarTti
    <3> QED BY <2>1, <3>1, LbtFacts
  <2>3. CASE ~tryLbt
    BY <2>1, <2>3 DEF EndVarTti
  <2> QED BY <2>2, <2>3
<1>7. SlotInv' /\ (CtrlAhead' <=> UlCtrlDci \in allocs)
  <2>1. CASE /\ allocs = {} /\ UNCHANGED allocs
             /\ index' = (index % Len(Pattern)) + 1
             /\ event' = [event EXCEPT !.type = "StartSlot", !.at = Period]
    <3>1. index' \in DOMAIN Pattern
      <4>1. Len(Pattern) \in Nat /\ DOMAIN Pattern = 1 .. Len(Pattern) /\ Len(Pattern) > 0
        <5> DEFINE Slots == [type : {"DL", "F", "UL"}, ul : SUBSET (SUBSET DataDcis), dl : SUBSET DataDcis]
        <5>1. Pattern \in Seq(Slots) /\ Pattern # <<>>
          BY PatternAssumption
        <5> HIDE DEF Slots
        <5> QED BY <5>1
      <4>2. index \in 1 .. Len(Pattern)
        BY <4>1 DEF Inv, SlotInv
      <4> QED BY <2>1, <4>1, <4>2
    <3>2. event' = [type |-> "StartSlot", dci |-> event.dci, at |-> Period] /\ event.dci \in Dcis
      BY <2>1 DEF Inv, SlotInv
    <3>3. pos <= Period
      <4>1. event.dci.sym + event.dci.num <= Symbols /\ event.dci.sym + event.dci.num \in Nat
        <5>1. CASE event.dci = UlCtrlDci
          BY <5>1, DciFacts, Layout DEF Inv, SlotInv, Dcis
        <5>2. CASE event.dci # UlCtrlDci
          BY <1>1, <1>4, <5>2, Layout DEF Inv, SlotInv, Last
        <5> QED BY <5>1, <5>2
      <4> QED BY <1>4, <4>1, Layout, Times
    <3>4. CtrlAhead' <=> UlCtrlDci \in allocs
      BY <2>1, <3>2 DEF CtrlAhead, UlCtrlDci, CtrlAt
    <3>5. pos' \in 0 .. event'.at /\ Period \in Int
      BY <1>1, <1>4, <3>2, <3>3, Layout
    <3> QED BY <1>1, <1>3, <2>1, <3>1, <3>2, <3>4, <3>5
            DEF SlotInv, Dcis, DlCtrlDci, UlCtrlDci, CtrlAt, Period
  <2>2. CASE allocs # {} /\ StartVarTtiOfFirst(allocs) /\ UNCHANGED index
    <3>1. allocs \in SUBSET Dcis /\ (\A x, y \in allocs : x = y \/ Apart(x, y))
      BY DEF Inv, SlotInv
    <3>2. /\ allocs' \subseteq allocs
          /\ event' \in [type : {"StartSlot", "StartVarTti", "EndVarTti"}, dci : allocs, at : Int]
          /\ event'.type = "StartVarTti" /\ event'.at = event'.dci.sym * Symbol
          /\ allocs = allocs' \union {event'.dci}
          /\ \A x \in allocs' : event'.dci.sym + event'.dci.num <= x.sym
      BY <2>2, <3>1, FirstKeeps
    <3>3. CtrlAhead' <=> UlCtrlDci \in allocs
      BY <3>2 DEF CtrlAhead, UlCtrlDci, CtrlAt
    <3>4. event'.dci \in Dcis /\ event'.dci.sym \in Nat
      BY <3>1, <3>2, DciFacts
    <3>5. event.dci.sym + event.dci.num <= event'.dci.sym /\ event.dci.sym + event.dci.num \in Nat
      BY <1>4, <3>2 DEF Inv, SlotInv
    <3>6. pos <= event'.at
      BY <1>4, <3>2, <3>4, <3>5, Times
    <3>7. pos' \in 0 .. event'.at
      BY <1>1, <1>4, <3>2, <3>4, <3>6, Times
    <3>8. \A x \in allocs : x = UlCtrlDci \/ x.sym + x.num <= Last(Pattern[index].type)
      BY <1>1 DEF Inv, SlotInv
    <3>9. (UlCtrlDci \in allocs => Pattern[index].type # "DL")
          /\ (DlCtrlDci \in allocs => Pattern[index].type # "UL")
      BY <1>1, <1>2 DEF Inv, SlotInv
    <3>10. index \in DOMAIN Pattern
      BY DEF Inv, SlotInv
    <3> QED BY <1>1, <1>3, <2>2, <3>1, <3>2, <3>3, <3>4, <3>7, <3>8, <3>9, <3>10
            DEF SlotInv, Dcis, DlCtrlDci, UlCtrlDci, CtrlAt, Apart, Last
  <2> QED BY <2>1, <2>2 DEF EndVarTti
<1>8. UNCHANGED <<call, grant, grantRequested, state, idleFor, deferEvent, busyEvent, kind>>
  BY <1>1 DEF cat2, onOff
<1>9. RequestInv'
  <2>1. lbtEvent' # Off =>
          CtrlAhead' /\ pos' + lbtEvent' = Asks /\ ~call /\ ~grantRequested
    <3>1. lbtEvent' # Off => CtrlAhead'
      BY <1>2, <1>6, <1>7 DEF Inv, RequestInv
    <3>2. pos < Asks /\ lbtEvent' # Off => ~call /\ ~grantRequested
      BY <1>4, Layout DEF Inv, RequestInv
    <3>3. pos >= Asks /\ lbtEvent' # Off => lbtEvent # Off
      <4> SUFFICES ASSUME pos >= Asks, lbtEvent' # Off
                   PROVE  lbtEvent # Off
        OBVIOUS
      <4>1. ~tryLbt
        BY <1>5, Layout
      <4> QED BY <4>1 DEF EndVarTti
    <3>4. lbtEvent # Off => ~call /\ ~grantRequested
      BY DEF Inv, RequestInv
    <3> QED BY <1>1, <1>4, <1>6, <3>1, <3>2, <3>3, <3>4, Layout
  <2>2. kind = "OnOff" /\ lbtEvent' # Off => status' # "GRANTED"
    BY <1>6 DEF Inv, RequestInv
  <2>3. call \/ grantRequested => CtrlAhead' /\ pos >= Asks /\ lbtEvent' = Off
    BY <1>2, <1>7, <2>1 DEF Inv, RequestInv
  <2>4. call => status' # "GRANTED"
    <3> SUFFICES ASSUME call
                 PROVE  status' # "GRANTED"
      OBVIOUS
    <3>1. ~tryLbt
      BY <1>5, Layout DEF Inv, RequestInv
    <3> QED BY <3>1 DEF EndVarTti, Inv, RequestInv
  <2> QED BY <1>1, <1>6, <1>8, <2>1, <2>2, <2>3, <2>4 DEF Inv, RequestInv, Asks, Ctrl, Period
<1>10. Cat2Inv'
  <2>1. pos < Asks \/ lbtEvent' # Off => pos < Asks \/ lbtEvent # Off
    <3> SUFFICES ASSUME lbtEvent' # Off, pos >= Asks
                 PROVE  lbtEvent # Off
      BY <1>4, Layout
    <3>1. ~tryLbt
      BY <1>5, Layout
    <3> QED BY <3>1 DEF EndVarTti
  <2> QED BY <1>1, <1>8, <2>1 DEF Inv, Cat2Inv, Asks, Ctrl, Period
<1> QED BY <1>7, <1>9, <1>10 DEF Inv

\* Time passes, up to the next event.
LEMMA TickKeeps ==
    ASSUME Inv, Tick
    PROVE  Inv'
<1>1. /\ pos < event.at /\ lbtEvent # 0 /\ ~(hearing /\ pos = event.at - 1)
      /\ pos' = pos + 1 /\ lbtEvent' = (IF lbtEvent = Off THEN Off ELSE lbtEvent - 1)
      /\ UNCHANGED <<index, allocs, status, event, tryLbt, hearing, kind>>
  BY DEF Tick, Cat2!Countdown, Cat2!Off, Off, slot
<1>2. pos \in Nat /\ event.at \in Int
  BY DEF Inv, SlotInv
<1>3. SlotInv' /\ (CtrlAhead' <=> CtrlAhead)
  <2>1. pos' \in 0 .. event'.at /\ (hearing' => pos' < event'.at)
    BY <1>1, <1>2
  <2> QED BY <1>1, <2>1
          DEF Inv, SlotInv, CtrlAhead, Dcis, DlCtrlDci, UlCtrlDci, CtrlAt, Apart, Last
<1>4. UNCHANGED <<call, grant, grantRequested, state>>
  BY DEF Tick, Cat2!Tick, OnOff!Tick, cat2, onOff
<1>5. RequestInv'
  <2>1. lbtEvent' \in Nat \union {Off} /\ (lbtEvent' # Off => lbtEvent # Off)
        /\ (lbtEvent' # Off => pos' + lbtEvent' = Asks)
    BY <1>1, <1>2, Layout DEF Inv, RequestInv, Off
  <2>2. call \/ grantRequested => pos' >= Asks
    BY <1>1, <1>2, Layout DEF Inv, RequestInv
  <2> QED BY <1>1, <1>3, <1>4, <2>1, <2>2 DEF Inv, RequestInv, Asks, Ctrl, Period
<1>6. Cat2Inv'
  <2>1. CASE kind = "Cat2"
    <3>1. /\ deferEvent # 0 /\ busyEvent # 0
          /\ idleFor' = (IF idleFor < Defer THEN idleFor + 1 ELSE idleFor)
          /\ deferEvent' = (IF deferEvent = Off THEN Off ELSE deferEvent - 1)
          /\ busyEvent' = (IF busyEvent = Off THEN Off ELSE busyEvent - 1)
      BY <2>1 DEF Tick, Cat2!Tick, Cat2!Due, Cat2!Countdown, Cat2!Off, Off
    <3>2. idleFor' \in Int /\ idleFor' <= Defer
          /\ deferEvent' \in Nat \union {Off} /\ busyEvent' \in Nat \union {Off}
          /\ (deferEvent' # Off <=> deferEvent # Off) /\ (busyEvent' # Off <=> busyEvent # Off)
      BY <3>1, UeAssumption DEF Inv, Cat2Inv, Off
    <3>3. CASE state = "WAIT_FOR_DEFER"
      <4>1. deferEvent \in Nat /\ deferEvent > 0 /\ deferEvent' = deferEvent - 1
            /\ idleFor' = idleFor + 1
        BY <3>1, <3>3, UeAssumption DEF Inv, Cat2Inv, Off
      <4>2. pos' < Asks \/ lbtEvent' # Off => pos < Asks \/ lbtEvent # Off
        BY <1>1, <1>2, Layout
      <4>3. /\ deferEvent' + idleFor' = Defer
            /\ pos' + deferEvent' <= Asks + Defer
            /\ pos' < Asks \/ lbtEvent' # Off => pos' + deferEvent' < Asks
        BY <1>1, <1>2, <3>3, <4>1, <4>2, Layout, UeAssumption DEF Inv, Cat2Inv
      <4> QED BY <1>1, <1>4, <3>2, <3>3, <4>3 DEF Inv, Cat2Inv, Asks, Ctrl, Period
    <3>4. CASE state # "WAIT_FOR_DEFER"
      <4>1. /\ state = "IDLE" => idleFor' >= 0
            /\ state = "BUSY" => busyEvent' + idleFor' <= 0
            /\ state = "TXOP_GRANTED" => idleFor' >= Defer
        BY <3>1, UeAssumption DEF Inv, Cat2Inv, Off
      <4> QED BY <1>1, <1>4, <2>1, <3>2, <3>4, <4>1 DEF Inv, Cat2Inv
    <3> QED BY <3>3, <3>4
  <2>2. CASE kind # "Cat2"
    <3>1. UNCHANGED cat2
      BY <2>2 DEF Tick
    <3>2. state = "IDLE"
      BY <2>2 DEF Inv, Cat2Inv
    <3> QED BY <1>1, <3>1, <3>2 DEF cat2, Inv, Cat2Inv
  <2> QED BY <2>1, <2>2
<1> QED BY <1>3, <1>5, <1>6 DEF Inv

\* Another's signal changes nothing of the slot.
LEMMA GoesBusyKeeps ==
    ASSUME Inv, GoesBusy
    PROVE  Inv'
<1>1. PICK d \in Durations : Occupied(d)
  BY DEF GoesBusy
<1>2. /\ UNCHANGED <<pos, index, allocs, event, tryLbt, lbtEvent, hearing, kind>>
      /\ status' = StatusAfterBusy /\ d \in Nat
  BY UeAssumption DEF GoesBusy, slot
<1>3. Cat2Inv' /\ grantRequested' = FALSE /\ UNCHANGED <<call, grant>> /\ status' \in {"NONE", status}
  BY <1>1, <1>2, OccupiedKeeps DEF Inv
<1>4. SlotInv' /\ (CtrlAhead' <=> CtrlAhead)
  BY <1>2 DEF Inv, SlotInv, CtrlAhead, Dcis, DlCtrlDci, UlCtrlDci, CtrlAt, Apart, Last
<1>5. RequestInv'
  BY <1>2, <1>3, <1>4 DEF Inv, RequestInv, Asks, Ctrl, Period
<1> QED BY <1>3, <1>4, <1>5 DEF Inv

\* A DCI begins.
LEMMA BeginKeeps ==
    ASSUME Inv, DlCtrl \/ UlSrs \/ UlCtrlEmpty \/ UlCtrlNotGranted \/ UlCtrlSent \/ DlData \/ UlData
    PROVE  Inv'
<1>1. CASE DlCtrl
  <2>1. StartVarTti("CTRL", "DL")
    BY <1>1 DEF DlCtrl
  <2>2. UNCHANGED <<pos, lbtEvent, kind>> /\ Length - 1 \in Nat
    BY <2>1, StartFacts DEF Inv, StartVarTti
  <2>3. CASE Occupied(Length - 1) /\ status' = StatusAfterBusy
    <3>1. Cat2Inv' /\ grantRequested' = FALSE /\ UNCHANGED <<call, grant>>
          /\ status' \in {"NONE", status}
      BY <2>2, <2>3, OccupiedKeeps DEF Inv
    <3> QED BY <1>1, <2>1, <3>1, OtherBegins DEF DlCtrl
  <2>4. CASE UNCHANGED <<cat2, onOff, status, hearing>>
    <3>1. Cat2Inv'
      BY <2>2, <2>4 DEF cat2, Inv, Cat2Inv, Asks, Ctrl, Period
    <3>2. grantRequested' \in BOOLEAN /\ UNCHANGED <<grantRequested, state, call, grant>>
      BY <1>1, <2>4 DEF DlCtrl, cat2, onOff, Inv, RequestInv
    <3> QED BY <2>1, <2>4, <3>1, <3>2, OtherBegins
  <2> QED BY <1>1, <2>3, <2>4 DEF DlCtrl
<1>2. CASE UlSrs
  <2>1. StartVarTti("SRS", "UL") /\ Occupied(Length - 1) /\ status' = "NONE"
        /\ UNCHANGED <<tryLbt, hearing>>
    BY <1>2 DEF UlSrs
  <2>2. UNCHANGED <<pos, lbtEvent, kind>> /\ Length - 1 \in Nat
    BY <2>1, StartFacts DEF Inv, StartVarTti
  <2>3. Cat2Inv' /\ grantRequested' = FALSE /\ UNCHANGED <<call, grant>>
    BY <2>1, <2>2, OccupiedKeeps DEF Inv
  <2> QED BY <2>1, <2>3, OtherBegins
<1>3. ASSUME NEW format \in {"DL", "UL"}, Data(format)
      PROVE  Inv'
  <2>1. StartVarTti("DATA", format) /\ Occupied(Length - 1) /\ status' = StatusAfterBusy
        /\ UNCHANGED <<tryLbt, hearing>>
    BY <1>3 DEF Data
  <2>2. UNCHANGED <<pos, lbtEvent, kind>> /\ Length - 1 \in Nat
    BY <2>1, StartFacts DEF Inv, StartVarTti
  <2>3. Cat2Inv' /\ grantRequested' = FALSE /\ UNCHANGED <<call, grant>>
        /\ status' \in {"NONE", status}
    BY <2>1, <2>2, OccupiedKeeps DEF Inv
  <2> QED BY <2>1, <2>3, OtherBegins
<1>4. CASE UlCtrlSent
  <2>1. StartVarTti("CTRL", "UL") /\ status = "GRANTED" /\ Occupied(Length - 1)
        /\ status' = "NONE" /\ UNCHANGED <<hearing, tryLbt>>
    BY <1>4 DEF UlCtrlSent
  <2>2. UNCHANGED <<pos, lbtEvent, kind>> /\ Length - 1 \in Nat
    BY <2>1, StartFacts DEF Inv, StartVarTti
  <2>3. Cat2Inv' /\ grantRequested' = FALSE /\ UNCHANGED <<call, grant>>
    BY <2>1, <2>2, OccupiedKeeps DEF Inv
  <2>4. call' = FALSE
    BY <2>1, <2>3 DEF Inv, RequestInv
  <2> QED BY <2>1, <2>3, <2>4, UlCtrlBegins
<1>5. CASE UlCtrlEmpty \/ UlCtrlNotGranted
  <2>1. StartVarTti("CTRL", "UL") /\ CancelRequest /\ UNCHANGED <<status, tryLbt, hearing>>
    BY <1>5 DEF UlCtrlEmpty, UlCtrlNotGranted
  <2>2. UNCHANGED <<pos, lbtEvent, kind>>
    BY <2>1 DEF StartVarTti
  <2>3. grantRequested' = FALSE /\ call' = FALSE /\ UNCHANGED grant
        /\ UNCHANGED <<state, idleFor, deferEvent, busyEvent>>
    <3>1. CASE kind = "AlwaysOn" /\ UNCHANGED <<cat2, onOff>>
      BY <3>1 DEF cat2, onOff, Inv, RequestInv
    <3>2. CASE kind = "OnOff" /\ OnOff!Cancel /\ UNCHANGED cat2
      BY <3>2 DEF cat2, OnOff!Cancel, Inv, RequestInv
    <3>3. CASE kind = "Cat2" /\ Cat2!Cancel /\ UNCHANGED onOff
      BY <3>3 DEF onOff, Cat2!Cancel, Inv, RequestInv
    <3> QED BY <2>1, <3>1, <3>2, <3>3 DEF CancelRequest
  <2>4. Cat2Inv'
    BY <2>2, <2>3 DEF Inv, Cat2Inv, Asks, Ctrl, Period
  <2> QED BY <2>1, <2>3, <2>4, UlCtrlBegins
<1>6. CASE DlDataOfNone
  <2>1. StartVarTti("DATA", "DL") /\ UNCHANGED <<cat2, onOff, status, tryLbt, hearing>>
    BY <1>6 DEF DlDataOfNone
  <2>2. UNCHANGED <<pos, lbtEvent, kind>>
    BY <2>1 DEF StartVarTti
  <2>3. Cat2Inv'
    BY <2>1, <2>2 DEF cat2, Inv, Cat2Inv, Asks, Ctrl, Period
  <2>4. grantRequested' \in BOOLEAN /\ UNCHANGED <<grantRequested, state, call, grant>>
    BY <2>1 DEF cat2, onOff, Inv, RequestInv
  <2> QED BY <2>1, <2>3, <2>4, OtherBegins
<1> QED BY <1>1, <1>2, <1>3, <1>4, <1>5, <1>6 DEF DlData, UlData

LEMMA NextKeeps == Inv /\ [Next]_vars => Inv'
<1> SUFFICES ASSUME Inv, [Next]_vars
             PROVE  Inv'
  OBVIOUS
<1>1. CASE UNCHANGED vars
  <2>1. SlotInv'
    BY <1>1 DEF vars, slot, Inv, SlotInv, CtrlAhead, Dcis, DlCtrlDci, UlCtrlDci, CtrlAt, Apart, Last
  <2>2. RequestInv'
    BY <1>1 DEF vars, slot, cat2, onOff, Inv, RequestInv, CtrlAhead, UlCtrlDci, CtrlAt, Asks, Ctrl, Period
  <2>3. Cat2Inv'
    BY <1>1 DEF vars, cat2, Inv, Cat2Inv, Asks, Ctrl, Period
  <2> QED BY <2>1, <2>2, <2>3 DEF Inv
<1> QED BY <1>1, RequestKeeps, ManagerKeeps, PhyCtrlKeeps, StartSlotKeeps, EndVarTtiKeeps,
           TickKeeps, GoesBusyKeeps, BeginKeeps DEF Next, Scheduled
-----------------------------------------------------------------------------
(* The theorems.                                                           *)

LEMMA Invariant == SafeSpec => []Inv
  BY InitKeeps, NextKeeps, PTL DEF SafeSpec

\* Cat2 holds the channel as granted only after a whole idle defer time, whatever was sent,
\* received or heard since the request, for every layout of the slots.
THEOREM GrantedIsIdle == SafeSpec => []GrantedMeansIdle
<1>1. Inv => GrantedMeansIdle
  BY DEF Inv, Cat2Inv, GrantedMeansIdle
<1> QED BY <1>1, Invariant, PTL

\* The assertions and aborts of the managers are never met, and no request is scheduled for
\* the past.
THEOREM ManagersAgree == SafeSpec => []ManagerAssertionsHold
<1>1. Inv => ManagerAssertionsHold
  BY DEF Inv, RequestInv, Cat2Inv, ManagerAssertionsHold, Off
<1> QED BY <1>1, Invariant, PTL

\* A request ends, one way or the other, when its uplink control symbol begins.
THEOREM RequestsEnd == SafeSpec => []RequestsEndAtUlCtrl
<1>1. Inv => RequestsEndAtUlCtrl
  <2> SUFFICES ASSUME Inv, call \/ grantRequested
               PROVE  Pattern[index].type # "DL" /\ pos \in Asks .. Ctrl
    BY Layout DEF RequestsEndAtUlCtrl, Asks, Ctrl
  <2>1. CtrlAhead /\ pos >= Asks
    BY DEF Inv, RequestInv
  <2>2. pos <= Ctrl /\ Pattern[index].type # "DL" /\ pos \in Int
    BY <2>1, AheadIsBefore DEF Inv, SlotInv
  <2> QED BY <2>1, <2>2, Layout
<1> QED BY <1>1, Invariant, PTL

=============================================================================
