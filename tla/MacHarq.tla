------------------------------- MODULE MacHarq -------------------------------
(***************************************************************************)
(* The HARQ processes of one UE in one direction: the gNB's scheduler      *)
(* (nr-mac-scheduler-ns3.cc, nr-mac-scheduler-harq-rr.cc, nr-mac-harq-     *)
(* vector.cc), the attempts it puts on the air, the receiver that decodes  *)
(* them with what it kept of earlier ones (NrHarqPhy) and the feedback.    *)
(*                                                                         *)
(* Time is counted in the slots in which the scheduler is called.  In the  *)
(* downlink the receiver is the UE, whose feedback waits until it has the  *)
(* channel; in the uplink the gNB itself.                                  *)
(***************************************************************************)
EXTENDS Integers, FiniteSets, Functions

CONSTANTS
    NumHarq,        \* NumHarqProcess: the processes, and the slots one waits
    DlFlight,       \* slots from the scheduling of an attempt to its transmission:
    UlFlight,       \* L1L2CtrlLatency, and that and N2Delay
    Sizes,          \* resources (RBG times symbols, symbols) an attempt may take
    Rooms,          \* resources a slot may have for the direction
    LastRv,         \* the redundancy version of the last attempt, 3 in the code
    MaxBlocks       \* bound: transport blocks

ASSUME HarqAssumption ==
    /\ NumHarq \in Nat \ {0}
    /\ DlFlight \in Nat /\ UlFlight \in Nat
    /\ Sizes \subseteq Nat \ {0}
    /\ Rooms \subseteq Nat
    /\ LastRv \in Nat
    /\ MaxBlocks \in Nat

VARIABLES
    direction,      \* "DL" or "UL"
    status,         \* m_status of each process; m_active is that it is not INACTIVE
    timer,          \* m_timer of each process
    rv,             \* m_dciElement->m_rv of each process
    size,           \* the resources of its m_dciElement
    block,          \* the transport block it carries
    used,           \* m_usedSize
    toRetransmit,   \* m_dlHarqToRetransmit or m_ulHarqToRetransmit: their processes
    received,       \* the feedback at the gNB's MAC
    atUe,           \* the feedback of the UE that waits for the channel
    onAir,          \* the attempts that are scheduled and not over
    history,        \* NrHarqPhy: the blocks whose attempts it keeps for each process
    blocks,         \* the blocks so far
    decoded,        \* those the receiver has decoded
    fate,           \* what the scheduler believes of each block
    late            \* history: a process has expired before its attempt was answered

process == <<status, timer, rv, size, block, used>>
vars == <<direction, process, toRetransmit, received, atUe, onAir, history, blocks,
          decoded, fate, late>>

Ids == 0 .. NumHarq - 1
Blocks == 1 .. MaxBlocks
Flight == IF direction = "DL" THEN DlFlight ELSE UlFlight
Attempts == [id : Ids, block : Blocks, rv : 0 .. LastRv, due : Nat]
Feedback == [id : Ids, block : Blocks, rv : 0 .. LastRv, ack : BOOLEAN]

TypeOK ==
    /\ direction \in {"DL", "UL"}
    /\ status \in [Ids -> {"INACTIVE", "WAITING_FEEDBACK", "RECEIVED_FEEDBACK"}]
    /\ timer \in [Ids -> 0 .. NumHarq]
    /\ rv \in [Ids -> 0 .. LastRv]
    /\ size \in [Ids -> Sizes \union {0}]
    /\ block \in [Ids -> 0 .. MaxBlocks]
    /\ used \in Int
    /\ toRetransmit \subseteq Ids
    /\ received \subseteq Feedback
    /\ atUe \subseteq Feedback
    /\ onAir \subseteq Attempts
    /\ history \in [Ids -> SUBSET Blocks]
    /\ blocks \in 0 .. MaxBlocks
    /\ decoded \subseteq Blocks
    /\ fate \in [Blocks -> {"none", "open", "acked", "givenUp", "expired"}]
    /\ late \in BOOLEAN

Init ==
    /\ direction \in {"DL", "UL"}
    /\ status = [i \in Ids |-> "INACTIVE"]
    /\ timer = [i \in Ids |-> 0]
    /\ rv = [i \in Ids |-> 0]
    /\ size = [i \in Ids |-> 0]
    /\ block = [i \in Ids |-> 0]
    /\ used = 0
    /\ toRetransmit = {}
    /\ received = {} /\ atUe = {} /\ onAir = {}
    /\ history = [i \in Ids |-> {}]
    /\ blocks = 0
    /\ decoded = {}
    /\ fate = [b \in Blocks |-> "none"]
    /\ late = FALSE

Active == {i \in Ids : status[i] # "INACTIVE"}

\* Nothing that is due in this slot is still to come: the next may begin.
SlotOver == \A a \in onAir : a.due > 0

-----------------------------------------------------------------------------
(* The scheduler, once a slot.                                             *)

\* Mutant: a process whose NACK is known is left alone.
CountedWaiting(i) == IF status[i] = "WAITING_FEEDBACK" THEN timer[i] + 1 ELSE timer[i]

\* ResetExpiredHARQ counts the slots of the active processes ...
Counted(i) == IF i \in Active THEN timer[i] + 1 ELSE timer[i]

\* ... and erases those that had counted to the end.
Expired == {i \in Active : timer[i] >= NumHarq}

Unanswered(i) == \E a \in onAir \union atUe : a.id = i

\* MergeHARQ and what follows it: the feedback of this slot, but for that of inactive
\* processes and, in the downlink, all but one for each process, the buffered one first.
Heard(F, alive) ==
    LET known == {f \in received : f.id \in alive}
    IN  IF direction = "UL" THEN F = known
        ELSE /\ F \subseteq {f \in known : f.id \notin toRetransmit}
             /\ \A f \in known : f.id \in toRetransmit \/ \E g \in F : g.id = f.id
             /\ \A f, g \in F : f.id = g.id => f = g

\* ProcessHARQFeedbacks erases these.
Done(F, alive) ==
    {f.id : f \in {g \in F : g.ack \/ rv[g.id] = LastRv}}
        \union {i \in toRetransmit \intersect alive : rv[i] = LastRv}

\* What a set of retransmissions takes.
Needs(S) == FoldFunctionOnSet(+, 0, size, S)

\* ScheduleDlHarq, which comes to at most one process of a UE and buffers the rest: one
\* that fits, if any does.
ScheduleDlHarq(room, nacked, served, buffered) ==
    LET fitting == {i \in nacked : size[i] <= room}
    IN  /\ served \subseteq fitting /\ Cardinality(served) = (IF fitting = {} THEN 0 ELSE 1)
        /\ buffered = nacked \ served

\* ScheduleUlHarq goes through the feedback of all UEs until no symbol is left.  What does
\* not fit in the symbols that are left then is buffered; what comes after the last one is
\* gone, which another UE may take, is forgotten.
ScheduleUlHarq(room, served, buffered) ==
    /\ Needs(served) <= room
    /\ served \intersect buffered = {}
    /\ IF Needs(served) < room
       THEN \A i \in buffered : size[i] > 1
       ELSE buffered # {} => \E j \in served : \A i \in buffered : size[i] > size[j]

ScheduleHarq(room, nacked, served, buffered) ==
    IF direction = "DL" THEN ScheduleDlHarq(room, nacked, served, buffered)
                        ELSE ScheduleUlHarq(room, served, buffered)

\* What a retransmission takes: in the downlink it may be more than before, as RBGs are
\* rounded up.
Retaken(room, i) == IF direction = "DL" THEN size[i] .. room ELSE {size[i]}

\* Mutant: an expired process is not counted off.
UsedAfterDone(done) == used - Cardinality(done)

\* NrMacHarqVector::Erase counts each process off.
UsedAfter(done) == used - Cardinality(Expired \union done)

\* DoScheduleDlData and DoScheduleUlData give new data a process, unless the UE has a
\* retransmission in the slot or no process is free.
NewProcess(room, served, done, new, newSize) ==
    \/ new = {}
    \/ /\ served = {}
       /\ blocks < MaxBlocks
       /\ UsedAfter(done) < NumHarq
       /\ \E i \in (Ids \ Active) \union Expired \union done :
            new = {i} /\ newSize[i] <= room

\* Mutant: MergeHARQ leaves what it took.
StillToRetransmitAll(buffered) == toRetransmit \union buffered

StillToRetransmit(buffered) == buffered

\* What becomes of the process vector.
Update(nacked, served, buffered, done, new, newSize) ==
    LET gone == (Expired \union done) \ new
        waits == served \union buffered
    IN  /\ status' = [i \in Ids |->
              CASE i \in new \union waits -> "WAITING_FEEDBACK"
                [] i \in gone             -> "INACTIVE"
                [] i \in nacked \ waits   -> "RECEIVED_FEEDBACK"
                [] OTHER                  -> status[i]]
        /\ timer' = [i \in Ids |->
              IF i \in new \union waits \union gone THEN 0 ELSE Counted(i)]
        /\ rv' = [i \in Ids |->
              IF i \in new \union gone THEN 0
              ELSE IF i \in served THEN rv[i] + 1 ELSE rv[i]]
        /\ size' = [i \in Ids |->
              IF i \in new \union served THEN newSize[i]
              ELSE IF i \in gone THEN 0 ELSE size[i]]
        /\ block' = [i \in Ids |->
              IF i \in new THEN blocks + 1 ELSE IF i \in gone THEN 0 ELSE block[i]]
        /\ used' = UsedAfter(done) + Cardinality(new)

\* What the scheduler takes the blocks to have come to.
NewFate(F, done, new) ==
    [b \in Blocks |->
        IF b = blocks + 1 /\ new # {} THEN "open"
        ELSE IF \E i \in Expired : block[i] = b THEN "expired"
        ELSE IF \E f \in F : block[f.id] = b /\ f.ack THEN "acked"
        ELSE IF \E i \in done : block[i] = b THEN "givenUp"
        ELSE fate[b]]

\* DoSchedDlTriggerReq, DoSchedUlTriggerReq.
Trigger ==
    /\ SlotOver
    /\ \E room \in Rooms, F \in SUBSET received :
         LET alive == Active \ Expired
             done == Done(F, alive)
             nacked == ({f.id : f \in F} \union (toRetransmit \intersect alive)) \ done
         IN  /\ Heard(F, alive)
             /\ \E served \in SUBSET nacked, buffered \in SUBSET nacked :
                /\ ScheduleHarq(room, nacked, served, buffered)
                /\ \E new \in SUBSET Ids : \E newSize \in [served \union new -> Sizes] :
                  /\ \A i \in served : newSize[i] \in Retaken(room, i)
                  /\ NewProcess(room, served, done, new, newSize)
                  /\ Update(nacked, served, buffered, done, new, newSize)
                  /\ toRetransmit' = StillToRetransmit(buffered)
                  /\ blocks' = blocks + Cardinality(new)
                  /\ fate' = NewFate(F, done, new)
                  /\ onAir' = {[a EXCEPT !.due = @ - 1] : a \in onAir} \union
                              {[id |-> i, block |-> block'[i], rv |-> rv'[i], due |-> Flight] :
                                  i \in served \union new}
    /\ received' = {}
    /\ late' = (late \/ \E i \in Expired : Unanswered(i))
    /\ UNCHANGED <<direction, atUe, history, decoded>>

-----------------------------------------------------------------------------
(* The receiver.                                                           *)

\* Mutant: only success clears it.
HistoryAfterKept(a, ok) == IF ok THEN {} ELSE history[a.id] \union {a.block}

\* NrHarqPhy keeps a failed attempt for the next, up to the last.
HistoryAfter(a, ok) == IF ok \/ a.rv = LastRv THEN {} ELSE history[a.id] \union {a.block}

\* EndRxData: the attempt is decoded or not, and feedback made of it.
Receive(a) ==
    /\ a.due = 0
    /\ onAir' = onAir \ {a}
    /\ \E ok \in BOOLEAN :
         LET f == [id |-> a.id, block |-> a.block, rv |-> a.rv, ack |-> ok]
         IN  /\ history' = [history EXCEPT ![a.id] = HistoryAfter(a, ok)]
             /\ decoded' = IF ok THEN decoded \union {a.block} ELSE decoded
             /\ IF direction = "DL"
                THEN atUe' = atUe \union {f} /\ UNCHANGED received
                ELSE received' = received \union {f} /\ UNCHANGED atUe
    /\ UNCHANGED <<direction, process, toRetransmit, blocks, fate, late>>

\* Nothing is sent, as the sender's buffer is empty, or nothing received.
Missed(a) ==
    /\ a.due = 0
    /\ onAir' = onAir \ {a}
    /\ UNCHANGED <<direction, process, toRetransmit, received, atUe, history, blocks,
                   decoded, fate, late>>

\* UlCtrl of a UE that has the channel, and DoDlHarqFeedback of the gNB.
SendFeedback ==
    /\ \E F \in SUBSET atUe :
         F # {} /\ received' = received \union F /\ atUe' = atUe \ F
    /\ UNCHANGED <<direction, process, toRetransmit, onAir, history, blocks, decoded,
                   fate, late>>

Arrival == \E a \in onAir : Receive(a) \/ Missed(a)

Next == Trigger \/ Arrival \/ SendFeedback

SafeSpec == Init /\ [][Next]_vars

\* Slots go by.  When the UE gets the channel for its feedback is left open.
Fairness == WF_vars(Trigger \/ Arrival)

Spec == SafeSpec /\ Fairness

=============================================================================
