--------------------------- MODULE MacHarq_proof ---------------------------
(***************************************************************************)
(* What MacHarq promises, for every number of processes, flight times,     *)
(* sizes and blocks.  While nothing is left over of an earlier block, what *)
(* is on its way is known to be about the process's last attempt, and all  *)
(* else follows; Slot says what the scheduler does to the processes,       *)
(* without how it shares the resources.                                    *)
(***************************************************************************)
EXTENDS MacHarq_props, FiniteSetTheorems, TLAPS

Answers == atUe \union received

\* An active process carries a block of its own, whose fate is open, and what waits for
\* its retransmission may have one.
ProcessInv ==
    /\ \A i \in Active : block[i] \in 1 .. blocks /\ fate[block[i]] = "open"
    /\ \A i, j \in Active : block[i] = block[j] => i = j
    /\ \A b \in Blocks : b > blocks => fate[b] = "none"
    /\ \A i \in toRetransmit : status[i] = "WAITING_FEEDBACK" /\ rv[i] # LastRv

\* FeedbackIsCurrent, and that it is of what is at the gNB too.
CurrentInv ==
    /\ \A x \in onAir \union Answers :
         /\ status[x.id] = "WAITING_FEEDBACK"
         /\ block[x.id] = x.block /\ rv[x.id] = x.rv
         /\ x.id \notin toRetransmit
    /\ \A x, y \in onAir : x.id = y.id => x = y
    /\ \A x, y \in Answers : x.id = y.id => x = y
    /\ \A x \in onAir : \A y \in Answers : x.id # y.id
    /\ \A x \in atUe : x \notin received

\* An answer tells what has become of the attempt, and the receiver has not gone on.
AnswerInv ==
    /\ \A x \in Answers : x.ack => x.block \in decoded
    /\ \A x \in Answers : x.ack \/ x.rv = LastRv => history[x.id] = {}
    /\ \A b \in decoded : \/ fate[b] \in {"acked", "expired"}
                          \/ \E x \in Answers : x.ack /\ x.block = b

\* The timer of a process counts the slots its attempt is on its way: in the uplink the
\* answer is there when it is over.
UplinkInv ==
    direction = "UL" =>
        /\ ~late /\ atUe = {}
        /\ \A a \in onAir : timer[a.id] + a.due = UlFlight
        /\ \A f \in received : timer[f.id] = UlFlight

\* What a slot does to the processes.
Slot(F, done, nacked, served, buffered, new) ==
    /\ SlotOver
    /\ F \subseteq received
    /\ \A f \in F : f.id \in Active \ Expired
    /\ \A f \in received : f.id \in Active \ Expired =>
         f.id \in toRetransmit \/ \E g \in F : g.id = f.id
    /\ \A f \in F : f.ack => f.id \in done
    /\ done \subseteq Active \ Expired
    /\ \A i \in done : \/ \E f \in F : f.id = i /\ (f.ack \/ rv[i] = LastRv)
                       \/ i \in toRetransmit /\ rv[i] = LastRv
    /\ nacked \subseteq (Active \ Expired) \ done
    /\ \A i \in nacked : rv[i] # LastRv /\ (i \in toRetransmit \/ \E f \in F : f.id = i)
    /\ served \subseteq nacked /\ buffered \subseteq nacked /\ served \intersect buffered = {}
    /\ new \subseteq (Ids \ Active) \union Expired \union done
    /\ new = {} \/ (blocks < MaxBlocks /\ \E i \in Ids : new = {i})
    /\ \E newSize \in [served \union new -> Sizes] :
         Update(nacked, served, buffered, done, new, newSize)
    /\ toRetransmit' = buffered
    /\ blocks' = blocks + Cardinality(new)
    /\ fate' = NewFate(F, done, new)
    /\ onAir' = {[a EXCEPT !.due = @ - 1] : a \in onAir} \union
                {[id |-> i, block |-> block'[i], rv |-> rv'[i], due |-> Flight] :
                    i \in served \union new}
    /\ received' = {}
    /\ late' = (late \/ \E i \in Expired : Unanswered(i))
    /\ UNCHANGED <<direction, atUe, history, decoded>>

LEMMA TriggerIsSlot ==
    ASSUME TypeOK, Trigger
    PROVE  \E F \in SUBSET received : \E done, nacked, served, buffered, new \in SUBSET Ids :
             Slot(F, done, nacked, served, buffered, new)
<1>1. PICK room \in Rooms, F \in SUBSET received :
         LET alive == Active \ Expired
             done == Done(F, alive)
             nacked == ({f.id : f \in F} \union (toRetransmit \intersect alive)) \ done
         IN  /\ Heard(F, alive)
             /\ \E served \in SUBSET nacked, buffered \in SUBSET nacked :
                /\ ScheduleHarq(room, nacked, served, buffered)
                /\ \E new \in SUBSET Ids : \E newSize \in [served \union new -> Sizes] :
                  /\ \A i \in served : newSize[i] \in Retaken(room, i)
                  /\ NewProcess(room, served, done, new, newSize)
                  /\ Update(nacked, served, buffered, done, new, newSize)
                  /\ toRetransmit' = StillToRetransmit(buffered)
                  /\ blocks' = blocks + Cardinality(new)
                  /\ fate' = NewFate(F, done, new)
                  /\ onAir' = {[a EXCEPT !.due = @ - 1] : a \in onAir} \union
                              {[id |-> i, block |-> block'[i], rv |-> rv'[i], due |-> Flight] :
                                  i \in served \union new}
  BY DEF Trigger
<1> DEFINE alive == Active \ Expired
           done == Done(F, alive)
           nacked == ({f.id : f \in F} \union (toRetransmit \intersect alive)) \ done
<1>2. PICK served \in SUBSET nacked, buffered \in SUBSET nacked :
                /\ ScheduleHarq(room, nacked, served, buffered)
                /\ \E new \in SUBSET Ids : \E newSize \in [served \union new -> Sizes] :
                  /\ \A i \in served : newSize[i] \in Retaken(room, i)
                  /\ NewProcess(room, served, done, new, newSize)
                  /\ Update(nacked, served, buffered, done, new, newSize)
                  /\ toRetransmit' = StillToRetransmit(buffered)
                  /\ blocks' = blocks + Cardinality(new)
                  /\ fate' = NewFate(F, done, new)
                  /\ onAir' = {[a EXCEPT !.due = @ - 1] : a \in onAir} \union
                              {[id |-> i, block |-> block'[i], rv |-> rv'[i], due |-> Flight] :
                                  i \in served \union new}
  BY <1>1
<1>3. PICK new \in SUBSET Ids : \E newSize \in [served \union new -> Sizes] :
                  /\ \A i \in served : newSize[i] \in Retaken(room, i)
                  /\ NewProcess(room, served, done, new, newSize)
                  /\ Update(nacked, served, buffered, done, new, newSize)
                  /\ toRetransmit' = StillToRetransmit(buffered)
                  /\ blocks' = blocks + Cardinality(new)
                  /\ fate' = NewFate(F, done, new)
                  /\ onAir' = {[a EXCEPT !.due = @ - 1] : a \in onAir} \union
                              {[id |-> i, block |-> block'[i], rv |-> rv'[i], due |-> Flight] :
                                  i \in served \union new}
  BY <1>2
<1>4. PICK newSize \in [served \union new -> Sizes] :
                  /\ \A i \in served : newSize[i] \in Retaken(room, i)
                  /\ NewProcess(room, served, done, new, newSize)
                  /\ Update(nacked, served, buffered, done, new, newSize)
                  /\ toRetransmit' = StillToRetransmit(buffered)
                  /\ blocks' = blocks + Cardinality(new)
                  /\ fate' = NewFate(F, done, new)
                  /\ onAir' = {[a EXCEPT !.due = @ - 1] : a \in onAir} \union
                              {[id |-> i, block |-> block'[i], rv |-> rv'[i], due |-> Flight] :
                                  i \in served \union new}
  BY <1>3
<1>5. Heard(F, alive)
  BY <1>1
<1>6. F \subseteq received /\ \A f \in F : f.id \in alive
  BY <1>5 DEF Heard
<1>7. alive \subseteq Ids /\ toRetransmit \subseteq Ids
  BY DEF Active, TypeOK
<1>8. \A f \in received : f.id \in alive => f.id \in toRetransmit \/ \E g \in F : g.id = f.id
  BY <1>5 DEF Heard
<1>9. done \subseteq alive
  BY <1>6 DEF Done
<1>10. \A f \in F : f.ack => f.id \in done
  BY DEF Done
<1>11. \A i \in done : \/ \E f \in F : f.id = i /\ (f.ack \/ rv[i] = LastRv)
                       \/ i \in toRetransmit /\ rv[i] = LastRv
  BY DEF Done
<1>12. nacked \subseteq alive \ done
  BY <1>6
<1>13. \A i \in nacked : rv[i] # LastRv /\ (i \in toRetransmit \/ \E f \in F : f.id = i)
  BY <1>6 DEF Done
<1>14. served \intersect buffered = {}
  BY <1>2 DEF ScheduleHarq, ScheduleDlHarq, ScheduleUlHarq
<1>15. /\ new \subseteq (Ids \ Active) \union Expired \union done
       /\ new = {} \/ (blocks < MaxBlocks /\ \E i \in Ids : new = {i})
  <2>1. CASE new = {}
    BY <2>1
  <2>2. CASE new # {}
    <3>1. blocks < MaxBlocks /\ \E i \in (Ids \ Active) \union Expired \union done : new = {i}
      BY <1>4, <2>2 DEF NewProcess
    <3> QED BY <3>1
  <2> QED BY <2>1, <2>2
<1>16. /\ SlotOver /\ received' = {}
       /\ late' = (late \/ \E i \in Expired : Unanswered(i))
       /\ UNCHANGED <<direction, atUe, history, decoded>>
  BY DEF Trigger
<1>17. toRetransmit' = buffered
  BY <1>4 DEF StillToRetransmit
<1> HIDE DEF done, nacked
<1>18. Slot(F, done, nacked, served, buffered, new)
  BY <1>4, <1>6, <1>8, <1>9, <1>10, <1>11, <1>12, <1>13, <1>14, <1>15, <1>16, <1>17
     DEF Slot
<1>19. done \in SUBSET Ids /\ nacked \in SUBSET Ids
  BY <1>7, <1>9, <1>12
<1>20. served \in SUBSET Ids /\ buffered \in SUBSET Ids /\ new \in SUBSET Ids
  BY <1>18, <1>19 DEF Slot
<1> QED BY <1>18, <1>19, <1>20

\* What becomes of each process.
LEMMA Moves ==
    ASSUME TypeOK, NEW F, NEW done, NEW nacked, NEW served, NEW buffered, NEW new,
           Slot(F, done, nacked, served, buffered, new)
    PROVE  /\ \A i \in new : /\ status'[i] = "WAITING_FEEDBACK" /\ timer'[i] = 0
                             /\ rv'[i] = 0 /\ block'[i] = blocks + 1
           /\ \A i \in served \union buffered :
                /\ status'[i] = "WAITING_FEEDBACK" /\ timer'[i] = 0 /\ block'[i] = block[i]
                /\ rv'[i] = IF i \in served THEN rv[i] + 1 ELSE rv[i]
           /\ \A i \in (Expired \union done) \ new :
                status'[i] = "INACTIVE" /\ timer'[i] = 0 /\ rv'[i] = 0 /\ block'[i] = 0
           /\ \A i \in nacked \ (served \union buffered) :
                /\ status'[i] = "RECEIVED_FEEDBACK" /\ timer'[i] = timer[i] + 1
                /\ rv'[i] = rv[i] /\ block'[i] = block[i]
           /\ \A i \in Ids \ (Expired \union done \union nacked \union new) :
                /\ status'[i] = status[i] /\ timer'[i] = Counted(i)
                /\ rv'[i] = rv[i] /\ block'[i] = block[i]
           /\ Active' = (Active \ (Expired \union done)) \union new
<1> USE DEF Slot, Update
<1>1. /\ nacked \subseteq Active \ (Expired \union done \union new)
      /\ new \intersect Active \subseteq Expired \union done
      /\ served \subseteq nacked /\ buffered \subseteq nacked
      /\ new \subseteq Ids /\ done \subseteq Active /\ Expired \subseteq Active /\ Active \subseteq Ids
  BY DEF Expired, Active
<1>2. \A i \in new : /\ status'[i] = "WAITING_FEEDBACK" /\ timer'[i] = 0
                     /\ rv'[i] = 0 /\ block'[i] = blocks + 1
  BY <1>1
<1>3. \A i \in served \union buffered :
        /\ status'[i] = "WAITING_FEEDBACK" /\ timer'[i] = 0 /\ block'[i] = block[i]
        /\ rv'[i] = IF i \in served THEN rv[i] + 1 ELSE rv[i]
  BY <1>1
<1>4. \A i \in (Expired \union done) \ new :
        status'[i] = "INACTIVE" /\ timer'[i] = 0 /\ rv'[i] = 0 /\ block'[i] = 0
  BY <1>1
<1>5. \A i \in nacked \ (served \union buffered) :
        /\ status'[i] = "RECEIVED_FEEDBACK" /\ timer'[i] = timer[i] + 1
        /\ rv'[i] = rv[i] /\ block'[i] = block[i]
  BY <1>1 DEF Counted
<1>6. \A i \in Ids \ (Expired \union done \union nacked \union new) :
        /\ status'[i] = status[i] /\ timer'[i] = Counted(i)
        /\ rv'[i] = rv[i] /\ block'[i] = block[i]
  BY <1>1
<1>7. Active' = {i \in Ids : status'[i] # "INACTIVE"}
  BY DEF Active
<1>8. \A i \in Ids : i \in Active' <=> i \in (Active \ (Expired \union done)) \union new
  <2> SUFFICES ASSUME NEW i \in Ids
               PROVE  i \in Active' <=> i \in (Active \ (Expired \union done)) \union new
    OBVIOUS
  <2>1. CASE i \in new \union nacked
    BY <2>1, <1>1, <1>2, <1>3, <1>5, <1>7
  <2>2. CASE i \in (Expired \union done) \ new
    BY <2>2, <1>4, <1>7
  <2>3. CASE i \in Ids \ (Expired \union done \union nacked \union new)
    BY <2>3, <1>6, <1>7 DEF Active
  <2> QED BY <2>1, <2>2, <2>3
<1>9. Active' = (Active \ (Expired \union done)) \union new
  BY <1>1, <1>7, <1>8
<1> QED BY <1>2, <1>3, <1>4, <1>5, <1>6, <1>9

LEMMA NewCount ==
    ASSUME TypeOK, NEW new, new = {} \/ (blocks < MaxBlocks /\ \E i \in Ids : new = {i})
    PROVE  /\ Cardinality(new) = IF new = {} THEN 0 ELSE 1
           /\ blocks + Cardinality(new) \in 0 .. MaxBlocks
           /\ new # {} => blocks + 1 \in Blocks
<1> USE HarqAssumption
<1>1. CASE new = {}
  BY <1>1, FS_EmptySet DEF TypeOK
<1>2. CASE blocks < MaxBlocks /\ \E i \in Ids : new = {i}
  <2>1. new # {} /\ Cardinality(new) = 1
    BY <1>2, FS_Singleton
  <2>2. blocks + 1 \in 0 .. MaxBlocks /\ blocks + 1 \in Blocks
    BY <1>2 DEF TypeOK, Blocks
  <2> QED BY <2>1, <2>2
<1> QED BY <1>1, <1>2

LEMMA SlotTypes ==
    ASSUME TypeOK, ProcessInv, NEW F, NEW done, NEW nacked, NEW served, NEW buffered, NEW new,
           Slot(F, done, nacked, served, buffered, new)
    PROVE  TypeOK'
<1> USE HarqAssumption
<1>1. /\ nacked \subseteq Active \ (Expired \union done \union new)
      /\ served \subseteq nacked /\ buffered \subseteq nacked
      /\ new \subseteq Ids /\ done \subseteq Active /\ Expired \subseteq Active /\ Active \subseteq Ids
  BY DEF Slot, Expired, Active
<1>2. /\ Cardinality(new) = (IF new = {} THEN 0 ELSE 1)
      /\ blocks + Cardinality(new) \in 0 .. MaxBlocks
      /\ new # {} => blocks + 1 \in Blocks
  BY NewCount DEF Slot
<1>3. status' \in [Ids -> {"INACTIVE", "WAITING_FEEDBACK", "RECEIVED_FEEDBACK"}]
  BY DEF Slot, Update, TypeOK
<1>4. timer' \in [Ids -> 0 .. NumHarq]
  BY DEF Slot, Update, TypeOK, Counted, Expired
<1>5. rv' \in [Ids -> 0 .. LastRv]
  <2>1. \A i \in served : rv[i] + 1 \in 0 .. LastRv
    <3>1. TAKE i \in served
    <3>2. i \in Ids /\ rv[i] \in 0 .. LastRv
      BY <1>1 DEF TypeOK
    <3>3. rv[i] # LastRv
      BY DEF Slot
    <3> QED BY <3>2, <3>3
  <2> QED BY <2>1 DEF Slot, Update, TypeOK
<1>6. size' \in [Ids -> Sizes \union {0}]
  <2>1. PICK newSize \in [served \union new -> Sizes] :
          Update(nacked, served, buffered, done, new, newSize)
    BY DEF Slot
  <2> QED BY <2>1 DEF Update, TypeOK
<1>7. block' \in [Ids -> 0 .. MaxBlocks]
  <2>1. \A i \in new : blocks + 1 \in 0 .. MaxBlocks
    BY <1>2 DEF Blocks
  <2> QED BY <2>1 DEF Slot, Update, TypeOK
<1>8. used' \in Int
  <2>1. Cardinality(Expired \union done) \in Nat
    <3>1. IsFiniteSet(Ids)
      BY FS_Interval DEF Ids
    <3> QED BY <1>1, <3>1, FS_Subset, FS_CardinalityType
  <2> QED BY <1>2, <2>1 DEF Slot, Update, UsedAfter, TypeOK
<1>9. onAir' \subseteq Attempts
  <2>1. \A a \in onAir : [a EXCEPT !.due = @ - 1] \in Attempts
    BY DEF Slot, SlotOver, TypeOK, Attempts
  <2>2. \A i \in served \union new :
          [id |-> i, block |-> block'[i], rv |-> rv'[i], due |-> Flight] \in Attempts
    <3>1. \A i \in served : block'[i] \in Blocks
      BY <1>1, Moves DEF ProcessInv, TypeOK, Blocks, Active
    <3>2. \A i \in new : block'[i] \in Blocks
      BY <1>2, Moves
    <3>3. Flight \in Nat
      BY DEF Flight
    <3> QED BY <1>1, <1>5, <3>1, <3>2, <3>3 DEF Attempts
  <2> QED BY <2>1, <2>2 DEF Slot
<1>10. fate' \in [Blocks -> {"none", "open", "acked", "givenUp", "expired"}]
  BY DEF Slot, NewFate, TypeOK
<1>11. late' \in BOOLEAN
  BY DEF Slot, TypeOK
<1>12. toRetransmit' \subseteq Ids /\ received' \subseteq Feedback /\ blocks' \in 0 .. MaxBlocks
  BY <1>1, <1>2 DEF Slot
<1>13. /\ direction' \in {"DL", "UL"} /\ atUe' \subseteq Feedback
       /\ history' \in [Ids -> SUBSET Blocks] /\ decoded' \subseteq Blocks
  BY DEF Slot, TypeOK
<1> QED BY <1>3, <1>4, <1>5, <1>6, <1>7, <1>8, <1>9, <1>10, <1>11, <1>12, <1>13 DEF TypeOK

LEMMA ReceiverTypes ==
    ASSUME TypeOK, ProcessInv, Arrival \/ SendFeedback
    PROVE  TypeOK' /\ ProcessInv'
<1>1. ASSUME NEW a \in onAir, Receive(a)
      PROVE  TypeOK' /\ ProcessInv'
  <2>1. PICK ok \in BOOLEAN :
         LET f == [id |-> a.id, block |-> a.block, rv |-> a.rv, ack |-> ok]
         IN  /\ history' = [history EXCEPT ![a.id] = HistoryAfter(a, ok)]
             /\ decoded' = IF ok THEN decoded \union {a.block} ELSE decoded
             /\ IF direction = "DL"
                THEN atUe' = atUe \union {f} /\ UNCHANGED received
                ELSE received' = received \union {f} /\ UNCHANGED atUe
    BY <1>1 DEF Receive
  <2>2. a.id \in Ids /\ a.block \in Blocks /\ a.rv \in 0 .. LastRv
    BY DEF TypeOK, Attempts
  <2>3. [id |-> a.id, block |-> a.block, rv |-> a.rv, ack |-> ok] \in Feedback
    BY <2>2 DEF Feedback
  <2>4. atUe' \subseteq Feedback /\ received' \subseteq Feedback
    BY <2>1, <2>3 DEF TypeOK
  <2>5. HistoryAfter(a, ok) \subseteq Blocks
    BY <2>2 DEF HistoryAfter, TypeOK
  <2>6. history' \in [Ids -> SUBSET Blocks] /\ decoded' \subseteq Blocks
    BY <2>1, <2>2, <2>5 DEF TypeOK
  <2>7. /\ onAir' = onAir \ {a}
        /\ UNCHANGED <<direction, process, toRetransmit, blocks, fate, late>>
    BY <1>1 DEF Receive
  <2>8. TypeOK'
    BY <2>4, <2>6, <2>7 DEF TypeOK, process
  <2>9. ProcessInv'
    BY <2>7 DEF ProcessInv, process, Active
  <2> QED BY <2>8, <2>9
<1>2. ASSUME NEW a \in onAir, Missed(a)
      PROVE  TypeOK' /\ ProcessInv'
  BY <1>2 DEF Missed, TypeOK, ProcessInv, process, Active
<1>3. ASSUME SendFeedback
      PROVE  TypeOK' /\ ProcessInv'
  <2>1. atUe' \subseteq Feedback /\ received' \subseteq Feedback
    BY <1>3 DEF SendFeedback, TypeOK
  <2>2. UNCHANGED <<direction, process, toRetransmit, onAir, history, blocks, decoded,
                    fate, late>>
    BY <1>3 DEF SendFeedback
  <2> QED BY <2>1, <2>2 DEF TypeOK, ProcessInv, process, Active
<1> QED BY <1>1, <1>2, <1>3 DEF Arrival

LEMMA SlotProcesses ==
    ASSUME TypeOK, ProcessInv, NEW F, NEW done, NEW nacked, NEW served, NEW buffered, NEW new,
           Slot(F, done, nacked, served, buffered, new)
    PROVE  ProcessInv'
<1> USE HarqAssumption
<1>1. /\ nacked \subseteq Active \ (Expired \union done \union new)
      /\ served \subseteq nacked /\ buffered \subseteq nacked
      /\ new \subseteq Ids /\ done \subseteq Active /\ Expired \subseteq Active /\ Active \subseteq Ids
      /\ \A i, j \in new : i = j
      /\ served \intersect buffered = {}
  BY DEF Slot, Expired, Active
<1>2. /\ blocks' = IF new = {} THEN blocks ELSE blocks + 1
      /\ blocks' \in 0 .. MaxBlocks
      /\ new # {} => blocks + 1 \in Blocks
  BY NewCount DEF Slot, TypeOK
<1> DEFINE stay == Active \ (Expired \union done)
<1>3. Active' = stay \union new
  BY Moves
<1>4. \A i \in stay : block'[i] = block[i] /\ (i \in new => FALSE)
  <2>1. new \intersect Active \subseteq Expired \union done
    BY DEF Slot, Active, Expired
  <2> QED BY <1>1, <2>1, Moves
<1>5. \A i \in new : block'[i] = blocks + 1 /\ blocks' = blocks + 1
  BY <1>2, Moves
<1>6. fate' = NewFate(F, done, new)
  BY DEF Slot
<1>7. \A i \in stay : fate'[block[i]] = "open"
  <2> SUFFICES ASSUME NEW i \in stay
               PROVE  fate'[block[i]] = "open"
    OBVIOUS
  <2>1. block[i] \in Blocks /\ block[i] <= blocks /\ fate[block[i]] = "open"
    BY <1>1 DEF ProcessInv, TypeOK, Blocks
  <2>2. \A j \in Active : block[j] = block[i] => j = i
    BY DEF ProcessInv
  <2>3. ~ \E j \in Expired \union done : block[j] = block[i]
    BY <1>1, <2>2
  <2>4. ~ \E f \in F : block[f.id] = block[i] /\ f.ack
    BY <2>2 DEF Slot
  <2>5. block[i] # blocks + 1
    BY <2>1 DEF TypeOK
  <2> QED BY <1>6, <2>1, <2>3, <2>4, <2>5 DEF NewFate
<1>8. new # {} => fate'[blocks + 1] = "open" /\ blocks + 1 \in Blocks
  BY <1>2, <1>6 DEF NewFate
<1>9. \A i \in Active' : block'[i] \in 1 .. blocks' /\ fate'[block'[i]] = "open"
  <2>1. \A i \in stay : block'[i] \in 1 .. blocks' /\ fate'[block'[i]] = "open"
    BY <1>2, <1>4, <1>7 DEF ProcessInv, TypeOK
  <2>2. \A i \in new : block'[i] \in 1 .. blocks' /\ fate'[block'[i]] = "open"
    BY <1>5, <1>8 DEF TypeOK, Blocks
  <2> QED BY <1>3, <2>1, <2>2
<1>10. \A i, j \in Active' : block'[i] = block'[j] => i = j
  <2>1. \A i \in stay : block'[i] <= blocks /\ block'[i] \in Int
    BY <1>4 DEF ProcessInv, TypeOK
  <2>2. \A i, j \in stay : block'[i] = block'[j] => i = j
    BY <1>4 DEF ProcessInv
  <2>3. \A i \in stay, j \in new : block'[i] # block'[j]
    BY <1>5, <2>1 DEF TypeOK
  <2> HIDE DEF stay
  <2> QED BY <1>1, <1>3, <2>2, <2>3
<1>11. \A b \in Blocks : b > blocks' => fate'[b] = "none"
  <2> SUFFICES ASSUME NEW b \in Blocks, b > blocks'
               PROVE  fate'[b] = "none"
    OBVIOUS
  <2>1. b > blocks /\ ~(b = blocks + 1 /\ new # {})
    BY <1>2 DEF TypeOK, Blocks
  <2>2. \A i \in Active : block[i] # b
    BY <2>1 DEF ProcessInv, TypeOK, Blocks
  <2>3. \A f \in F : f.id \in Active
    BY DEF Slot
  <2> QED BY <1>1, <1>6, <2>1, <2>2, <2>3 DEF NewFate, ProcessInv
<1>12. \A i \in toRetransmit' : status'[i] = "WAITING_FEEDBACK" /\ rv'[i] # LastRv
  <2>1. toRetransmit' = buffered /\ \A i \in nacked : rv[i] # LastRv
    BY DEF Slot
  <2>2. \A i \in buffered : status'[i] = "WAITING_FEEDBACK" /\ rv'[i] = rv[i]
    BY <1>1, Moves
  <2> QED BY <1>1, <2>1, <2>2
<1> QED BY <1>9, <1>10, <1>11, <1>12 DEF ProcessInv

LEMMA InitTypes == Init => TypeOK /\ ProcessInv
<1> SUFFICES ASSUME Init
             PROVE  TypeOK /\ ProcessInv
  OBVIOUS
<1> USE HarqAssumption DEF Init
<1>1. TypeOK
  <2>1. 0 \in 0 .. NumHarq /\ 0 \in 0 .. LastRv /\ 0 \in 0 .. MaxBlocks /\ 0 \in Int
    OBVIOUS
  <2>2. /\ direction \in {"DL", "UL"} /\ late \in BOOLEAN
        /\ status \in [Ids -> {"INACTIVE", "WAITING_FEEDBACK", "RECEIVED_FEEDBACK"}]
        /\ fate \in [Blocks -> {"none", "open", "acked", "givenUp", "expired"}]
    OBVIOUS
  <2>3. /\ timer \in [Ids -> 0 .. NumHarq] /\ rv \in [Ids -> 0 .. LastRv]
        /\ size \in [Ids -> Sizes \union {0}] /\ block \in [Ids -> 0 .. MaxBlocks]
        /\ history \in [Ids -> SUBSET Blocks]
    BY <2>1
  <2> QED BY <2>1, <2>2, <2>3 DEF TypeOK
<1>2. Active = {} /\ toRetransmit = {}
  BY DEF Active
<1>3. ProcessInv
  BY <1>2 DEF ProcessInv
<1> QED BY <1>1, <1>3

LEMMA TypesStep ==
    ASSUME TypeOK, ProcessInv, [Next]_vars
    PROVE  TypeOK' /\ ProcessInv'
<1>1. CASE Trigger
  BY <1>1, TriggerIsSlot, SlotTypes, SlotProcesses
<1>2. CASE Arrival \/ SendFeedback
  BY <1>2, ReceiverTypes
<1>3. CASE UNCHANGED vars
  BY <1>3 DEF vars, TypeOK, ProcessInv, process, Active
<1> QED BY <1>1, <1>2, <1>3 DEF Next

-----------------------------------------------------------------------------
(* The count of processes.                                                 *)

CountInv == used = Cardinality(Active)

LEMMA SlotCount ==
    ASSUME TypeOK, CountInv, NEW F, NEW done, NEW nacked, NEW served, NEW buffered, NEW new,
           Slot(F, done, nacked, served, buffered, new)
    PROVE  CountInv'
<1> DEFINE gone == Expired \union done
<1>1. gone \subseteq Active /\ new \intersect (Active \ gone) = {} /\ new \subseteq Ids
  BY DEF Slot, Expired, Active
<1>2. IsFiniteSet(Active) /\ IsFiniteSet(gone) /\ IsFiniteSet(new)
  <2>1. IsFiniteSet(Ids) /\ Active \subseteq Ids
    BY HarqAssumption, FS_Interval DEF Ids, Active
  <2> QED BY <1>1, <2>1, FS_Subset
<1>3. used' = used - Cardinality(gone) + Cardinality(new)
  BY DEF Slot, Update, UsedAfter
<1>4. Active' = (Active \ gone) \union new
  BY Moves
<1> HIDE DEF gone
<1>5. Cardinality(Active) \in Nat /\ Cardinality(gone) \in Nat /\ Cardinality(new) \in Nat
  BY <1>2, FS_CardinalityType
<1>6. /\ IsFiniteSet(Active \ gone)
      /\ Cardinality(Active \ gone) = Cardinality(Active) - Cardinality(gone)
  <2>1. Active \intersect gone = gone
    BY <1>1
  <2> QED BY <1>2, <2>1, FS_Difference
<1>7. Cardinality((Active \ gone) \union new) = Cardinality(Active \ gone) + Cardinality(new)
  <2>1. Cardinality((Active \ gone) \intersect new) = 0
    <3>1. (Active \ gone) \intersect new = {}
      BY <1>1
    <3> QED BY <3>1, FS_EmptySet
  <2>2. Cardinality((Active \ gone) \union new)
          = Cardinality(Active \ gone) + Cardinality(new) - Cardinality((Active \ gone) \intersect new)
    BY <1>2, <1>6, FS_Union
  <2>3. Cardinality(Active \ gone) \in Nat
    BY <1>6, FS_CardinalityType
  <2> QED BY <1>5, <2>1, <2>2, <2>3
<1> QED BY <1>3, <1>4, <1>5, <1>6, <1>7 DEF CountInv

-----------------------------------------------------------------------------
(* Attempts and answers, while none is left over.                          *)

\* A slot leaves alone the processes whose attempt or answer is still under way.
LEMMA SlotLeavesAlone ==
    ASSUME TypeOK, CurrentInv, ~late',
           NEW F, NEW done, NEW nacked, NEW served, NEW buffered, NEW new,
           Slot(F, done, nacked, served, buffered, new),
           NEW x \in onAir \union atUe
    PROVE  /\ x.id \in Active
           /\ x.id \in Ids \ (Expired \union done \union nacked \union new)
<1>1. x.id \in Active /\ x.id \in Ids
  BY DEF CurrentInv, Active, TypeOK, Attempts, Feedback, Answers
<1>2. x.id \notin Expired
  BY DEF Slot, Unanswered
<1>3. \A f \in F : f.id # x.id
  <2> SUFFICES ASSUME NEW f \in F, f.id = x.id
               PROVE  FALSE
    OBVIOUS
  <2>1. f \in received
    BY DEF Slot
  <2>2. CASE x \in onAir
    BY <2>1, <2>2 DEF CurrentInv, Answers
  <2>3. CASE x \in atUe
    BY <2>1, <2>3 DEF CurrentInv, Answers
  <2> QED BY <2>2, <2>3
<1>4. x.id \notin toRetransmit
  BY DEF CurrentInv, Answers
<1>5. x.id \notin done /\ x.id \notin nacked
  BY <1>3, <1>4 DEF Slot
<1>6. x.id \notin new
  BY <1>1, <1>2, <1>5 DEF Slot
<1> QED BY <1>1, <1>2, <1>5, <1>6

LEMMA SlotCurrent ==
    ASSUME TypeOK, ProcessInv, CurrentInv, ~late',
           NEW F, NEW done, NEW nacked, NEW served, NEW buffered, NEW new,
           Slot(F, done, nacked, served, buffered, new)
    PROVE  CurrentInv'
<1> DEFINE Old == {[a EXCEPT !.due = @ - 1] : a \in onAir}
           New == {[id |-> i, block |-> block'[i], rv |-> rv'[i], due |-> Flight] :
                    i \in served \union new}
<1>1. onAir' = Old \union New /\ Answers' = atUe /\ received' = {} /\ toRetransmit' = buffered
  BY DEF Slot, Answers
<1>2. /\ served \subseteq nacked /\ buffered \subseteq nacked
      /\ served \intersect buffered = {} /\ new \intersect nacked = {}
  BY DEF Slot
<1>3. \A x \in onAir \union atUe :
        /\ x.id \in Ids \ (Expired \union done \union nacked \union new)
        /\ status[x.id] = "WAITING_FEEDBACK" /\ block[x.id] = x.block /\ rv[x.id] = x.rv
  BY SlotLeavesAlone DEF CurrentInv, Answers
<1>4. \A x \in onAir \union atUe :
        /\ status'[x.id] = "WAITING_FEEDBACK" /\ block'[x.id] = x.block /\ rv'[x.id] = x.rv
        /\ x.id \notin buffered /\ x.id \notin served \union new
  BY <1>2, <1>3, Moves
<1>5. \A x \in Old : \E a \in onAir : /\ x = [a EXCEPT !.due = @ - 1]
                                     /\ x.id = a.id /\ x.block = a.block /\ x.rv = a.rv
  BY DEF TypeOK, Attempts
<1>6. \A x \in New : /\ x.id \in served \union new
                     /\ x = [id |-> x.id, block |-> block'[x.id], rv |-> rv'[x.id], due |-> Flight]
  OBVIOUS
<1>7. \A i \in served \union new : status'[i] = "WAITING_FEEDBACK" /\ i \notin buffered
  BY <1>2, Moves
<1>8. \A x \in New : /\ status'[x.id] = "WAITING_FEEDBACK" /\ x.id \notin buffered
                     /\ block'[x.id] = x.block /\ rv'[x.id] = x.rv
  BY <1>6, <1>7
<1> HIDE DEF New, Old
<1>9. \A x \in onAir' \union Answers' :
        /\ status'[x.id] = "WAITING_FEEDBACK"
        /\ block'[x.id] = x.block /\ rv'[x.id] = x.rv
        /\ x.id \notin toRetransmit'
  BY <1>1, <1>4, <1>5, <1>8
<1>10. \A x, y \in onAir' : x.id = y.id => x = y
  <2>1. \A x, y \in Old : x.id = y.id => x = y
    BY <1>5 DEF CurrentInv
  <2>2. \A x \in Old, y \in New : x.id # y.id
    BY <1>4, <1>5, <1>6
  <2>3. \A x, y \in New : x.id = y.id => x = y
    BY <1>6
  <2> QED BY <1>1, <2>1, <2>2, <2>3
<1>11. \A x \in onAir' : \A y \in Answers' : x.id # y.id
  <2>1. \A x \in Old, y \in atUe : x.id # y.id
    BY <1>5 DEF CurrentInv, Answers
  <2>2. \A x \in New, y \in atUe : x.id # y.id
    BY <1>4, <1>6
  <2> QED BY <1>1, <2>1, <2>2
<1>12. \A x, y \in Answers' : x.id = y.id => x = y
  BY <1>1 DEF CurrentInv, Answers
<1>13. \A x \in atUe' : x \notin received'
  BY <1>1
<1> QED BY <1>9, <1>10, <1>11, <1>12, <1>13 DEF CurrentInv

\* What has been settled stays so, and what an expired process carries is settled.
LEMMA FateStays ==
    ASSUME TypeOK, ProcessInv, NEW F, NEW done, NEW nacked, NEW served, NEW buffered, NEW new,
           Slot(F, done, nacked, served, buffered, new)
    PROVE  /\ \A b \in Blocks : fate[b] \notin {"none", "open"} => fate'[b] = fate[b]
           /\ \A i \in Expired : fate'[block[i]] = "expired"
           /\ \A f \in F : f.ack => fate'[block[f.id]] = "acked"
           /\ \A b \in Blocks : fate'[b] \in {"acked", "givenUp"} /\ fate[b] # fate'[b] =>
                IF \E f \in F : block[f.id] = b /\ f.ack
                THEN fate'[b] = "acked"
                ELSE fate'[b] = "givenUp" /\ \E i \in done : block[i] = b
<1>1. fate' = NewFate(F, done, new)
  BY DEF Slot
<1>2. /\ \A f \in F : f.id \in Active \ Expired
      /\ done \subseteq Active \ Expired /\ Expired \subseteq Active
  BY DEF Slot, Expired
<1>3. \A i \in Active : /\ block[i] \in Blocks /\ fate[block[i]] = "open"
                        /\ block[i] # blocks + 1
  <2> SUFFICES ASSUME NEW i \in Active
               PROVE  block[i] \in Blocks /\ fate[block[i]] = "open" /\ block[i] # blocks + 1
    OBVIOUS
  <2>1. block[i] \in 1 .. blocks /\ fate[block[i]] = "open"
    BY DEF ProcessInv
  <2>2. blocks \in 0 .. MaxBlocks /\ MaxBlocks \in Nat
    BY HarqAssumption DEF TypeOK
  <2>3. block[i] \in 1 .. MaxBlocks /\ block[i] # blocks + 1
    BY <2>1, <2>2
  <2> QED BY <2>1, <2>3 DEF Blocks
<1>4. \A b \in Blocks : fate[b] \notin {"none", "open"} => fate'[b] = fate[b]
  <2> SUFFICES ASSUME NEW b \in Blocks, fate[b] \notin {"none", "open"}
               PROVE  fate'[b] = fate[b]
    OBVIOUS
  <2>1. b # blocks + 1
    BY DEF ProcessInv, TypeOK, Blocks
  <2>2. \A i \in Active : block[i] # b
    BY <1>3
  <2> QED BY <1>1, <1>2, <2>1, <2>2 DEF NewFate
<1>5. \A i \in Expired : fate'[block[i]] = "expired"
  BY <1>1, <1>2, <1>3 DEF NewFate
<1>6. \A f \in F : f.ack => fate'[block[f.id]] = "acked"
  <2> SUFFICES ASSUME NEW f \in F, f.ack
               PROVE  fate'[block[f.id]] = "acked"
    OBVIOUS
  <2>1. ~ \E i \in Expired : block[i] = block[f.id]
    BY <1>2 DEF ProcessInv
  <2> QED BY <1>1, <1>2, <1>3, <2>1 DEF NewFate
<1>7. \A b \in Blocks : fate'[b] \in {"acked", "givenUp"} /\ fate[b] # fate'[b] =>
        IF \E f \in F : block[f.id] = b /\ f.ack
        THEN fate'[b] = "acked"
        ELSE fate'[b] = "givenUp" /\ \E i \in done : block[i] = b
  BY <1>1 DEF NewFate
<1> QED BY <1>4, <1>5, <1>6, <1>7

LEMMA SlotAnswers ==
    ASSUME TypeOK, ProcessInv, CurrentInv, AnswerInv, ~late',
           NEW F, NEW done, NEW nacked, NEW served, NEW buffered, NEW new,
           Slot(F, done, nacked, served, buffered, new)
    PROVE  AnswerInv'
<1>1. Answers' = atUe /\ UNCHANGED <<decoded, history>>
  BY DEF Slot, Answers
<1>2. ASSUME NEW b \in decoded
      PROVE  fate'[b] \in {"acked", "expired"} \/ \E x \in atUe : x.ack /\ x.block = b
  <2>1. CASE fate[b] \in {"acked", "expired"}
    BY <2>1, FateStays DEF TypeOK
  <2>2. ASSUME NEW x \in received, x.ack, x.block = b
        PROVE  fate'[b] \in {"acked", "expired"}
    <3>1. x.id \in Active /\ block[x.id] = b /\ x.id \notin toRetransmit
      BY <2>2 DEF CurrentInv, Answers, Active, TypeOK, Feedback
    <3>2. CASE x.id \in Expired
      BY <3>1, <3>2, FateStays
    <3>3. CASE x.id \notin Expired
      <4>1. PICK g \in F : g.id = x.id
        BY <3>1, <3>3 DEF Slot
      <4>2. g = x
        BY <4>1 DEF Slot, CurrentInv, Answers
      <4> QED BY <2>2, <3>1, <4>2, FateStays
    <3> QED BY <3>2, <3>3
  <2> QED BY <2>1, <2>2 DEF AnswerInv, Answers
<1>3. \A x \in atUe : (x.ack => x.block \in decoded) /\ (x.ack \/ x.rv = LastRv => history[x.id] = {})
  BY DEF AnswerInv, Answers
<1> QED BY <1>1, <1>2, <1>3 DEF AnswerInv

OwnHistory ==
    \A i \in Ids : \A b \in history[i] :
        (i \in Active /\ b = block[i]) \/ fate[b] = "expired"

LEMMA SlotHistory ==
    ASSUME TypeOK, ProcessInv, CurrentInv, AnswerInv, OwnHistory,
           NEW F, NEW done, NEW nacked, NEW served, NEW buffered, NEW new,
           Slot(F, done, nacked, served, buffered, new)
    PROVE  OwnHistory'
<1>1. history' = history /\ Active' = (Active \ (Expired \union done)) \union new
  <2>1. history' = history
    BY DEF Slot
  <2>2. Active' = (Active \ (Expired \union done)) \union new
    BY Moves
  <2> QED BY <2>1, <2>2
<1>2. ASSUME NEW i \in Ids, NEW b \in history[i]
      PROVE  (i \in Active' /\ b = block'[i]) \/ fate'[b] = "expired"
  <2>1. b \in Blocks
    BY DEF TypeOK
  <2>2. CASE fate[b] = "expired"
    BY <2>1, <2>2, FateStays
  <2>3. CASE i \in Active /\ b = block[i]
    <3>1. CASE i \in Expired
      BY <2>3, <3>1, FateStays
    <3>2. i \notin done
      <4>1. \A f \in F : f.id = i => ~f.ack /\ f.rv # LastRv /\ f.rv = rv[i]
        BY DEF Slot, AnswerInv, CurrentInv, Answers
      <4>2. i \in toRetransmit => rv[i] # LastRv
        BY DEF ProcessInv
      <4> QED BY <4>1, <4>2 DEF Slot
    <3>3. CASE i \notin Expired
      <4>1. i \in Active' /\ i \notin new
        BY <1>1, <2>3, <3>2, <3>3 DEF Slot
      <4>2. block'[i] = block[i]
        BY <3>2, <3>3, <4>1, Moves
      <4> QED BY <2>3, <4>1, <4>2
    <3> QED BY <3>1, <3>3
  <2> QED BY <2>2, <2>3 DEF OwnHistory
<1> QED BY <1>1, <1>2 DEF OwnHistory

AckRight ==
    \A b \in Blocks : /\ fate[b] = "acked" => b \in decoded
                      /\ fate[b] = "givenUp" => b \notin decoded

LEMMA SlotAcks ==
    ASSUME TypeOK, ProcessInv, CurrentInv, AnswerInv, AckRight, ~late',
           NEW F, NEW done, NEW nacked, NEW served, NEW buffered, NEW new,
           Slot(F, done, nacked, served, buffered, new)
    PROVE  AckRight'
<1>1. decoded' = decoded /\ F \subseteq received
  BY DEF Slot
<1>2. ASSUME NEW b \in Blocks, fate'[b] = "acked"
      PROVE  b \in decoded
  <2>1. CASE fate[b] = "acked"
    BY <2>1 DEF AckRight
  <2>2. CASE fate[b] # "acked"
    <3>1. PICK f \in F : block[f.id] = b /\ f.ack
      BY <1>2, <2>2, FateStays
    <3>2. f.block = b
      BY <1>1, <3>1 DEF CurrentInv, Answers
    <3> QED BY <1>1, <3>1, <3>2 DEF AnswerInv, Answers
  <2> QED BY <2>1, <2>2
<1>3. ASSUME NEW b \in Blocks, fate'[b] = "givenUp", b \in decoded
      PROVE  FALSE
  <2>1. fate[b] # "givenUp"
    BY <1>3 DEF AckRight
  <2>2. ~ \E f \in F : block[f.id] = b /\ f.ack
    BY <1>3, <2>1, FateStays
  <2>3. PICK i \in done : block[i] = b
    BY <1>3, <2>1, <2>2, FateStays
  <2>4. i \in Active /\ fate[b] = "open"
    BY <2>3 DEF Slot, ProcessInv
  <2>5. PICK x \in Answers : x.ack /\ x.block = b
    BY <1>3, <2>4 DEF AnswerInv
  <2>6. x.id \in Active /\ block[x.id] = b /\ x.id \notin toRetransmit
    BY <2>5 DEF CurrentInv, Active, TypeOK, Feedback, Answers
  <2>7. x.id = i
    BY <2>3, <2>4, <2>6 DEF ProcessInv
  <2>8. x \notin atUe
    BY <2>7, SlotLeavesAlone
  <2>9. PICK g \in F : g.id = x.id
    BY <2>5, <2>6, <2>7, <2>8 DEF Slot, Answers
  <2>10. g = x
    BY <1>1, <2>9 DEF CurrentInv, Answers
  <2> QED BY <2>2, <2>5, <2>6, <2>10
<1> QED BY <1>1, <1>2, <1>3 DEF AckRight

\* All that is promised while nothing is left over of an earlier block.
Good == CurrentInv /\ AnswerInv /\ OwnHistory /\ AckRight

Inv == TypeOK /\ ProcessInv /\ CountInv /\ (late \/ Good)

LEMMA ReceiveGood ==
    ASSUME TypeOK, ProcessInv, Good, NEW a \in onAir, Receive(a)
    PROVE  Good'
<1>1. PICK ok \in BOOLEAN :
         LET f == [id |-> a.id, block |-> a.block, rv |-> a.rv, ack |-> ok]
         IN  /\ history' = [history EXCEPT ![a.id] = HistoryAfter(a, ok)]
             /\ decoded' = IF ok THEN decoded \union {a.block} ELSE decoded
             /\ IF direction = "DL"
                THEN atUe' = atUe \union {f} /\ UNCHANGED received
                ELSE received' = received \union {f} /\ UNCHANGED atUe
  BY DEF Receive
<1> DEFINE f == [id |-> a.id, block |-> a.block, rv |-> a.rv, ack |-> ok]
<1>2. /\ onAir' = onAir \ {a}
      /\ UNCHANGED <<process, toRetransmit, blocks, fate>>
  BY DEF Receive
<1>3. Answers' = Answers \union {f} /\ atUe' \subseteq atUe \union {f}
      /\ received' \subseteq received \union {f} /\ (atUe' = atUe \/ received' = received)
  BY <1>1 DEF Answers
<1>4. f.id = a.id /\ f.block = a.block /\ f.rv = a.rv /\ f.ack = ok
  OBVIOUS
<1>5. /\ a.id \in Ids /\ a.id \in Active /\ a.block \in Blocks
      /\ status[a.id] = "WAITING_FEEDBACK" /\ block[a.id] = a.block /\ rv[a.id] = a.rv
      /\ a.id \notin toRetransmit /\ fate[a.block] = "open"
  BY DEF Good, CurrentInv, TypeOK, Attempts, Active, ProcessInv
<1>6. \A x \in Answers : x.id # a.id
  BY DEF Good, CurrentInv
<1>7. history' = [history EXCEPT ![a.id] = HistoryAfter(a, ok)]
  BY <1>1
<1>8. decoded' = IF ok THEN decoded \union {a.block} ELSE decoded
  BY <1>1
<1> HIDE DEF f
<1>9. CurrentInv'
  <2>1. \A x \in onAir' \union Answers' :
          /\ status[x.id] = "WAITING_FEEDBACK"
          /\ block[x.id] = x.block /\ rv[x.id] = x.rv
          /\ x.id \notin toRetransmit
    BY <1>2, <1>3, <1>4, <1>5 DEF Good, CurrentInv
  <2>2. \A x, y \in onAir' : x.id = y.id => x = y
    BY <1>2 DEF Good, CurrentInv
  <2>3. \A x, y \in Answers' : x.id = y.id => x = y
    BY <1>3, <1>4, <1>6 DEF Good, CurrentInv
  <2>4. \A x \in onAir' : \A y \in Answers' : x.id # y.id
    BY <1>2, <1>3, <1>4 DEF Good, CurrentInv
  <2>5. \A x \in atUe' : x \notin received'
    <3>1. f \notin Answers
      BY <1>4, <1>6
    <3> QED BY <1>3, <3>1 DEF Good, CurrentInv, Answers
  <2> QED BY <1>2, <2>1, <2>2, <2>3, <2>4, <2>5 DEF CurrentInv, process
<1>10. AnswerInv'
  <2>1. \A x \in Answers : history'[x.id] = history[x.id]
    BY <1>6, <1>7
  <2>2. f.ack \/ f.rv = LastRv => history'[f.id] = {}
    BY <1>4, <1>5, <1>7 DEF HistoryAfter, TypeOK
  <2>3. \A x \in Answers' : x.ack => x.block \in decoded'
    BY <1>3, <1>4, <1>8 DEF Good, AnswerInv
  <2>4. \A x \in Answers' : x.ack \/ x.rv = LastRv => history'[x.id] = {}
    BY <1>3, <2>1, <2>2 DEF Good, AnswerInv
  <2>5. \A b \in decoded' : fate[b] \in {"acked", "expired"} \/ \E x \in Answers' : x.ack /\ x.block = b
    BY <1>3, <1>4, <1>8 DEF Good, AnswerInv
  <2> QED BY <1>2, <2>3, <2>4, <2>5 DEF AnswerInv
<1>11. OwnHistory'
  <2>1. \A i \in Ids \ {a.id} : history'[i] = history[i]
    BY <1>5, <1>7 DEF TypeOK
  <2>2. history'[a.id] \subseteq history[a.id] \union {a.block}
    BY <1>5, <1>7 DEF HistoryAfter, TypeOK
  <2> QED BY <1>2, <1>5, <2>1, <2>2 DEF Good, OwnHistory, process, Active
<1>12. AckRight'
  BY <1>2, <1>5, <1>8 DEF Good, AckRight
<1> QED BY <1>9, <1>10, <1>11, <1>12 DEF Good

LEMMA InvInit == Init => Inv
<1> SUFFICES ASSUME Init
             PROVE  Inv
  OBVIOUS
<1>1. TypeOK /\ ProcessInv
  BY InitTypes
<1>2. Active = {} /\ used = 0
  BY DEF Init, Active
<1>3. CountInv
  BY <1>2, FS_EmptySet DEF CountInv
<1>4. Answers = {} /\ onAir = {}
  BY DEF Init, Answers
<1>5. CurrentInv /\ AnswerInv
  BY <1>4 DEF Init, CurrentInv, AnswerInv
<1>6. OwnHistory /\ AckRight
  BY DEF Init, OwnHistory, AckRight
<1> QED BY <1>1, <1>3, <1>5, <1>6 DEF Inv, Good

LEMMA InvStep ==
    ASSUME Inv, [Next]_vars
    PROVE  Inv'
<1>1. TypeOK' /\ ProcessInv'
  BY TypesStep DEF Inv
<1>2. CASE Trigger
  <2>1. PICK F \in SUBSET received : \E done, nacked, served, buffered, new \in SUBSET Ids :
               Slot(F, done, nacked, served, buffered, new)
    BY <1>2, TriggerIsSlot DEF Inv
  <2>2. PICK done, nacked, served, buffered, new \in SUBSET Ids :
               Slot(F, done, nacked, served, buffered, new)
    BY <2>1
  <2>3. CountInv'
    BY <2>2, SlotCount DEF Inv
  <2>4. ASSUME ~late'
        PROVE  Good'
    <3>1. Good
      BY <2>2, <2>4 DEF Slot, Inv
    <3>2. CurrentInv'
      BY <2>2, <2>4, <3>1, SlotCurrent DEF Inv, Good
    <3>3. AnswerInv'
      BY <2>2, <2>4, <3>1, SlotAnswers DEF Inv, Good
    <3>4. OwnHistory'
      BY <2>2, <2>4, <3>1, SlotHistory DEF Inv, Good
    <3>5. AckRight'
      BY <2>2, <2>4, <3>1, SlotAcks DEF Inv, Good
    <3> QED BY <3>2, <3>3, <3>4, <3>5 DEF Good
  <2> QED BY <1>1, <2>3, <2>4 DEF Inv
<1>3. ASSUME NEW a \in onAir, Receive(a)
      PROVE  Inv'
  <2>1. late' = late /\ UNCHANGED process
    BY <1>3 DEF Receive
  <2>2. CountInv'
    BY <2>1 DEF Inv, CountInv, process, Active
  <2>3. Good => Good'
    BY <1>3, ReceiveGood DEF Inv
  <2> QED BY <1>1, <2>1, <2>2, <2>3 DEF Inv
<1>4. ASSUME NEW a \in onAir, Missed(a)
      PROVE  Inv'
  <2>1. /\ onAir' = onAir \ {a}
        /\ UNCHANGED <<process, toRetransmit, received, atUe, history, blocks, decoded, fate, late>>
    BY <1>4 DEF Missed
  <2>2. CountInv'
    BY <2>1 DEF Inv, CountInv, process, Active
  <2>3. CurrentInv => CurrentInv'
    BY <2>1 DEF CurrentInv, process, Answers
  <2>4. AnswerInv => AnswerInv'
    BY <2>1 DEF AnswerInv, Answers
  <2>5. OwnHistory /\ AckRight => OwnHistory' /\ AckRight'
    BY <2>1 DEF OwnHistory, AckRight, process, Active
  <2> QED BY <1>1, <2>1, <2>2, <2>3, <2>4, <2>5 DEF Inv, Good
<1>5. CASE SendFeedback
  <2>1. PICK F \in SUBSET atUe : received' = received \union F /\ atUe' = atUe \ F
    BY <1>5 DEF SendFeedback
  <2>2. UNCHANGED <<direction, process, toRetransmit, onAir, history, blocks, decoded,
                    fate, late>>
    BY <1>5 DEF SendFeedback
  <2>3. Answers' = Answers
    BY <2>1 DEF Answers
  <2>4. CountInv'
    BY <2>2 DEF Inv, CountInv, process, Active
  <2>5. CurrentInv => CurrentInv'
    BY <2>1, <2>2, <2>3 DEF CurrentInv, process
  <2>6. AnswerInv => AnswerInv'
    BY <2>2, <2>3 DEF AnswerInv
  <2>7. OwnHistory /\ AckRight => OwnHistory' /\ AckRight'
    BY <2>2 DEF OwnHistory, AckRight, process, Active
  <2> QED BY <1>1, <2>2, <2>4, <2>5, <2>6, <2>7 DEF Inv, Good
<1>6. CASE UNCHANGED vars
  <2>1. CountInv'
    BY <1>6 DEF Inv, CountInv, vars, process, Active
  <2>2. CurrentInv /\ AnswerInv => CurrentInv' /\ AnswerInv'
    BY <1>6 DEF CurrentInv, AnswerInv, vars, process, Answers
  <2>3. OwnHistory /\ AckRight => OwnHistory' /\ AckRight'
    BY <1>6 DEF OwnHistory, AckRight, vars, process, Active
  <2> QED BY <1>1, <1>6, <2>1, <2>2, <2>3 DEF Inv, Good, vars
<1> QED BY <1>2, <1>3, <1>4, <1>5, <1>6 DEF Next, Arrival

LEMMA Invariance == Spec => []Inv
<1>1. Inv /\ [Next]_vars => Inv'
  BY InvStep
<1> QED BY InvInit, <1>1, PTL DEF Spec, SafeSpec

\* What a process hears, while nothing of an earlier block is left over, is about the
\* attempt it made last (FeedbackIsCurrent).
THEOREM FeedbackIsAboutNow == Spec => []FeedbackIsCurrent
<1>1. Inv => FeedbackIsCurrent
  <2> SUFFICES ASSUME CurrentInv
               PROVE  FeedbackIsCurrent
    BY DEF Inv, Good, FeedbackIsCurrent
  <2>1. Outstanding = onAir \union Answers
    BY DEF Outstanding, Answers
  <2> QED BY <2>1 DEF CurrentInv, FeedbackIsCurrent, Answers
<1> QED BY <1>1, Invariance, PTL

\* What the scheduler takes for delivered was decoded, and what it gives up was not.
THEOREM DeliveryIsKnown == Spec => []AckMeansDecoded
<1>1. Inv => AckMeansDecoded
  BY DEF Inv, Good, AckRight, AckMeansDecoded
<1> QED BY <1>1, Invariance, PTL

\* The receiver combines attempts of one block, or of one that was let expire.
THEOREM CombiningIsSound == Spec => []HistoryIsOwn
<1>1. Inv => HistoryIsOwn
  BY DEF Inv, Good, OwnHistory, HistoryIsOwn, Active
<1> QED BY <1>1, Invariance, PTL

-----------------------------------------------------------------------------
(* The uplink.                                                             *)

LEMMA UplinkStep ==
    ASSUME UlFlight < NumHarq, Inv, UplinkInv, [Next]_vars
    PROVE  UplinkInv'
<1> SUFFICES ASSUME direction' = "UL"
             PROVE  UplinkInv'
  BY DEF UplinkInv
<1>1. direction = "UL"
  <2>1. direction' = direction
    BY DEF Next, Trigger, Arrival, Receive, Missed, SendFeedback, vars
  <2> QED BY <2>1
<1>2. /\ ~late /\ atUe = {}
      /\ \A a \in onAir : timer[a.id] + a.due = UlFlight
      /\ \A f \in received : timer[f.id] = UlFlight
  BY <1>1 DEF UplinkInv
<1>3. Good
  BY <1>2 DEF Inv
<1>4. TypeOK /\ UlFlight \in Nat /\ NumHarq \in Nat
  BY HarqAssumption DEF Inv
<1>5. CASE Trigger
  <2>1. PICK F \in SUBSET received : \E done, nacked, served, buffered, new \in SUBSET Ids :
               Slot(F, done, nacked, served, buffered, new)
    BY <1>4, <1>5, TriggerIsSlot
  <2>2. PICK done, nacked, served, buffered, new \in SUBSET Ids :
               Slot(F, done, nacked, served, buffered, new)
    BY <2>1
  <2>3. ~late'
    <3>1. \A a \in onAir : a.id \notin Expired
      <4> SUFFICES ASSUME NEW a \in onAir, a.id \in Expired
                   PROVE  FALSE
        OBVIOUS
      <4>1. timer[a.id] >= NumHarq /\ timer[a.id] \in Nat /\ a.due \in Nat
        BY <1>4 DEF Expired, TypeOK, Attempts
      <4>2. timer[a.id] + a.due = UlFlight
        BY <1>2
      <4> QED BY <1>4, <4>1, <4>2
    <3>2. \A i \in Expired : ~Unanswered(i)
      BY <1>2, <3>1 DEF Unanswered
    <3>3. late' = (late \/ \E i \in Expired : Unanswered(i))
      BY <2>2 DEF Slot
    <3> QED BY <1>2, <3>2, <3>3
  <2>4. atUe' = {} /\ received' = {}
    BY <1>2, <2>2 DEF Slot
  <2>5. ASSUME NEW a \in onAir
        PROVE  /\ timer'[a.id] + (a.due - 1) = UlFlight
               /\ [a EXCEPT !.due = @ - 1].id = a.id
               /\ [a EXCEPT !.due = @ - 1].due = a.due - 1
    <3>1. a.id \in Ids \ (Expired \union done \union nacked \union new) /\ a.id \in Active
      BY <1>3, <1>4, <2>2, <2>3, SlotLeavesAlone DEF Good
    <3>2. timer'[a.id] = timer[a.id] + 1
      BY <1>4, <2>2, <3>1, Moves DEF Counted
    <3>3. timer[a.id] + a.due = UlFlight /\ timer[a.id] \in Int /\ a.due \in Int
      BY <1>2, <1>4 DEF TypeOK, Attempts
    <3>4. timer'[a.id] + (a.due - 1) = UlFlight
      BY <1>4, <3>2, <3>3
    <3>5. [a EXCEPT !.due = @ - 1].id = a.id /\ [a EXCEPT !.due = @ - 1].due = a.due - 1
      BY <1>4 DEF TypeOK, Attempts
    <3> QED BY <3>4, <3>5
  <2>6. \A i \in served \union new : timer'[i] = 0
    BY <1>4, <2>2, Moves
  <2>7. Flight = UlFlight
    BY <1>1 DEF Flight
  <2>8. ASSUME NEW x \in onAir'
        PROVE  timer'[x.id] + x.due = UlFlight
    <3>1. onAir' = {[a EXCEPT !.due = @ - 1] : a \in onAir} \union
                   {[id |-> i, block |-> block'[i], rv |-> rv'[i], due |-> Flight] :
                       i \in served \union new}
      BY <2>2 DEF Slot
    <3>2. CASE x \in {[a EXCEPT !.due = @ - 1] : a \in onAir}
      BY <2>5, <3>2
    <3>3. CASE x \in {[id |-> i, block |-> block'[i], rv |-> rv'[i], due |-> Flight] :
                          i \in served \union new}
      <4>1. x.id \in served \union new /\ x.due = UlFlight
        BY <2>7, <3>3
      <4> QED BY <1>4, <2>6, <4>1
    <3> QED BY <3>1, <3>2, <3>3
  <2> QED BY <2>3, <2>4, <2>8 DEF UplinkInv
<1>6. ASSUME NEW a \in onAir, Receive(a)
      PROVE  UplinkInv'
  <2>1. PICK ok \in BOOLEAN :
          received' = received \union
                        {[id |-> a.id, block |-> a.block, rv |-> a.rv, ack |-> ok]}
    BY <1>1, <1>6 DEF Receive
  <2>2. a.due = 0 /\ onAir' = onAir \ {a} /\ atUe' = atUe /\ timer' = timer /\ late' = late
    BY <1>1, <1>6 DEF Receive, process
  <2>3. timer[a.id] = UlFlight
    BY <1>2, <1>4, <2>2 DEF TypeOK, Attempts
  <2> QED BY <1>2, <2>1, <2>2, <2>3 DEF UplinkInv
<1>7. ASSUME NEW a \in onAir, Missed(a)
      PROVE  UplinkInv'
  BY <1>2, <1>7 DEF Missed, UplinkInv, process
<1>8. CASE SendFeedback
  BY <1>2, <1>8 DEF SendFeedback
<1>9. CASE UNCHANGED vars
  BY <1>2, <1>9 DEF vars, process, UplinkInv
<1> QED BY <1>5, <1>6, <1>7, <1>8, <1>9 DEF Next, Arrival

\* In the uplink, where the answer to an attempt is there as soon as the attempt is over,
\* nothing is ever left over of an expired process, if a process lives longer than an
\* attempt takes.
THEOREM UplinkIsInTime ==
    ASSUME UlFlight < NumHarq
    PROVE  Spec => [](direction = "UL" => ~late)
<1>1. Init => UplinkInv
  BY DEF Init, UplinkInv
<1>2. Inv /\ UplinkInv /\ [Next]_vars => UplinkInv'
  BY UplinkStep
<1>3. UplinkInv => (direction = "UL" => ~late)
  BY DEF UplinkInv
<1> QED BY <1>1, <1>2, <1>3, Invariance, PTL DEF Spec, SafeSpec

\* The scheduler's assertions hold: a process is free when the count says so, and in the
\* uplink no process has two answers.
THEOREM AssertionsOfHarq ==
    ASSUME UlFlight < NumHarq
    PROVE  Spec => []HarqAssertionsHold
<1>1. Inv /\ (direction = "UL" => ~late) => HarqAssertionsHold
  BY DEF Inv, Good, CountInv, CurrentInv, HarqAssertionsHold, Answers
<1> QED BY <1>1, Invariance, UplinkIsInTime, PTL
=============================================================================
