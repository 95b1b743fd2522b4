------------------------- MODULE MsgInterface_proof -------------------------
(***************************************************************************)
(* Proofs about the message interface, for any number of messages.         *)
(*                                                                         *)
(* The argument: each buffer has one token, and the token is in exactly    *)
(* one of five places.  Where it is says what the buffer holds, how far    *)
(* the two counters are apart and which side may be where.                 *)
(***************************************************************************)
EXTENDS MsgInterface_props, TLAPS

Holds(s) == pc[s] \in Writing \union Finishing
Takes(s) == pc[Peer(s)] \in Reading
Closed(s) == s = "cpp" /\ pc["cpp"] = "closed"
Drained(s) == s = "cpp" /\ pc["py"] = "closed"

\* In the Empty count.
Free(s) ==
    /\ empty[s] = 1 /\ full[s] = 0
    /\ ~Holds(s) /\ ~Takes(s) /\ ~Closed(s) /\ ~Drained(s)
    /\ sent[s] = rcvd[s]

\* With the sender.
Held(s) ==
    /\ empty[s] = 0 /\ full[s] = 0
    /\ Holds(s) /\ ~Takes(s) /\ ~Drained(s)
    /\ sent[s] = rcvd[s]
    /\ pc[s] \in Writing => sent[s] < MaxMsgs
    /\ pc[s] \in {"writeBody", "sendEnd"} => buf[s].size = sent[s] + 1
    /\ pc[s] = "sendEnd" => buf[s].body = sent[s] + 1

\* The buffer holds the message that is to be received, or the finished flag is up.
Loaded(s) ==
    \/ ~Closed(s) /\ sent[s] = rcvd[s] + 1 /\ buf[s] = Msg(sent[s])
    \/ Closed(s) /\ sent[s] = rcvd[s]

\* In the Full count.
Posted(s) ==
    /\ empty[s] = 0 /\ full[s] = 1
    /\ ~Holds(s) /\ ~Takes(s) /\ ~Drained(s)
    /\ Loaded(s)

\* With the receiver.
Taken(s) ==
    /\ empty[s] = 0 /\ full[s] = 0
    /\ ~Holds(s) /\ Takes(s)
    /\ Loaded(s)
    /\ pc[Peer(s)] # "readFin" => ~Closed(s)
    /\ pc[Peer(s)] \in {"readBody", "recvEnd"} => got[Peer(s)].size = sent[s]
    /\ pc[Peer(s)] = "recvEnd" => got[Peer(s)].body = sent[s]

\* With a Python side that has left on seeing the flag.
Gone(s) ==
    /\ empty[s] = 0 /\ full[s] = 0
    /\ Closed(s) /\ Drained(s)
    /\ sent[s] = rcvd[s]

Token(s) == Free(s) \/ Held(s) \/ Posted(s) \/ Taken(s) \/ Gone(s)

FinishedFlags ==
    /\ shmFinished <=> pc["cpp"] \in {"finEnd", "closed"}
    /\ finished["py"] <=> pc["py"] = "closed"
    /\ shmFinished => HandleFinish
    /\ pc["py"] \notin {"finWait"} \union Finishing
    /\ pc["cpp"] # "readFin"
    /\ ~HandleFinish => pc["cpp"] \notin {"finWait"} \union Finishing

Pending == \A s \in Sides : pc[s] = "sendWait" => sent[s] < MaxMsgs

Inv ==
    /\ TypeOK
    /\ \A s \in Sides : Token(s)
    /\ FinishedFlags
    /\ Pending
    /\ InOrderIntact

-----------------------------------------------------------------------------

\* The inductive invariant: a Begin moves the token of its buffer out of a count, an
\* End moves it into the other count, and nothing else moves it.
LEMMA Invariant == SafeSpec => []Inv
<1> USE MsgInterfaceAssumption DEF Sides, Peer, Msg, Writing, Reading, Finishing
<1>1. Init => Inv
  <2> SUFFICES ASSUME Init PROVE Inv
    OBVIOUS
  <2>1. TypeOK
    <3>1. 0 \in 0 .. MaxMsgs /\ Msg(0) \in [size : 0 .. MaxMsgs, body : 0 .. MaxMsgs]
      OBVIOUS
    <3> QED
      BY <3>1 DEF Init, TypeOK
  <2>2. \A s \in Sides : Free(s)
    BY DEF Init, Free, Holds, Takes, Closed, Drained
  <2>3. FinishedFlags /\ Pending /\ InOrderIntact
    BY DEF Init, FinishedFlags, Pending, InOrderIntact
  <2> QED
    BY <2>1, <2>2, <2>3 DEF Inv, Token
<1>2. Inv /\ [Next]_vars => Inv'
  <2> SUFFICES ASSUME Inv, [Next]_vars PROVE Inv'
    OBVIOUS
  <2> USE DEF Inv, TypeOK, Token, Free, Held, Loaded, Posted, Taken, Gone, Holds,
              Takes, Closed, Drained, FinishedFlags, Pending, InOrderIntact
  <2>1. ASSUME NEW s \in Sides, CallSend(s) PROVE Inv'
    BY <2>1 DEF CallSend, Goto, shm
  <2>2. ASSUME NEW s \in Sides, SendBegin(s) PROVE Inv'
    BY <2>2 DEF SendBegin, Goto, shm
  <2>3. ASSUME NEW s \in Sides, WriteSize(s) PROVE Inv'
    BY <2>3 DEF WriteSize, Goto, shm
  <2>4. ASSUME NEW s \in Sides, WriteBody(s) PROVE Inv'
    BY <2>4 DEF WriteBody, Goto, shm
  <2>5. ASSUME NEW s \in Sides, SendEnd(s) PROVE Inv'
    BY <2>5 DEF SendEnd, Goto, shm
  <2>6. ASSUME NEW s \in Sides, CallRecv(s) PROVE Inv'
    BY <2>6 DEF CallRecv, Goto, shm
  <2>7. ASSUME NEW s \in Sides, RecvBegin(s) PROVE Inv'
    BY <2>7 DEF RecvBegin, Goto, shm
  <2>8. ASSUME NEW s \in Sides, ReadSize(s) PROVE Inv'
    BY <2>8 DEF ReadSize, Goto, shm
  <2>9. ASSUME NEW s \in Sides, ReadBody(s) PROVE Inv'
    BY <2>9 DEF ReadBody, Goto, shm
  <2>10. ASSUME NEW s \in Sides, RecvEnd(s) PROVE Inv'
    BY <2>10 DEF RecvEnd, Goto, shm
  <2>11. ASSUME CopyFinished PROVE Inv'
    BY <2>11 DEF CopyFinished, Goto, shm
  <2>12. ASSUME CallSetFinished PROVE Inv'
    BY <2>12 DEF CallSetFinished, Goto, shm
  <2>13. ASSUME FinishBegin PROVE Inv'
    BY <2>13 DEF FinishBegin, Goto, shm
  <2>14. ASSUME FinishWrite PROVE Inv'
    BY <2>14 DEF FinishWrite, Goto, shm
  <2>15. ASSUME FinishEnd PROVE Inv'
    BY <2>15 DEF FinishEnd, Goto, shm
  <2>16. CASE UNCHANGED vars
    BY <2>16 DEF vars
  <2> QED
    BY <2>1, <2>2, <2>3, <2>4, <2>5, <2>6, <2>7, <2>8, <2>9, <2>10, <2>11, <2>12, <2>13, <2>14, <2>15, <2>16 DEF Next, Inside
<1> QED
  BY <1>1, <1>2, PTL DEF SafeSpec

\* Every value stays in its range: the counts never pass 1.
THEOREM MsgInterfaceTyped == SafeSpec => []TypeOK
<1>1. Inv => TypeOK
  BY DEF Inv
<1> QED
  BY <1>1, Invariant, PTL

\* A buffer and the finished flag are never written and read at the same time.
THEOREM BuffersHaveOneOwner == SafeSpec => []OneOwner
<1>1. Inv => OneOwner
  BY DEF Inv, OneOwner, TypeOK, Token, Free, Held, Posted, Taken, Gone, Holds, Takes,
         Closed, Drained, FinishedFlags, Sides, Peer, Writing, Reading, Finishing
<1> QED
  BY <1>1, Invariant, PTL

\* Messages arrive whole, once and in order, for any number of messages.
THEOREM MessagesArriveIntact == SafeSpec => []InOrderIntact
<1>1. Inv => InOrderIntact
  BY DEF Inv
<1> QED
  BY <1>1, Invariant, PTL

\* A side that spins has not missed what it waits for.
THEOREM NoLostWakeup == SafeSpec => []SpinsForAReason
<1>1. Inv => SpinsForAReason
  BY DEF Inv, SpinsForAReason, TypeOK, Token, Free, Held, Posted, Taken, Gone, Holds,
         Takes, Loaded, Closed, Drained, FinishedFlags, Sides, Peer, Writing, Reading,
         Finishing
<1> QED
  BY <1>1, Invariant, PTL

\* Python leaves only when nothing of the C++ side is left to receive.
THEOREM FinishComesLast == SafeSpec => []FinishedIsLast
<1>1. Inv => FinishedIsLast
  <2> SUFFICES ASSUME Inv, finished["py"] PROVE Gone("cpp")
    BY DEF Gone, Closed, FinishedIsLast
  <2>1. pc["py"] = "closed" /\ Token("cpp")
    BY DEF Inv, FinishedFlags, Sides
  <2>2. Drained("cpp") /\ ~Takes("cpp")
    BY <2>1 DEF Drained, Takes, Peer, Reading
  <2> QED
    BY <2>1, <2>2 DEF Token, Free, Held, Posted, Taken
<1> QED
  BY <1>1, Invariant, PTL

\* The semaphores and buffers implement the one-place channel: SendEnd is its Send,
\* RecvEnd its Receive, FinishEnd its Finish and CopyFinished, when the flag is up, its
\* Learn; every other step is invisible to it.
THEOREM ChannelRefinement == SafeSpec => ImplementsChannel
<1> USE MsgInterfaceAssumption DEF Sides, Peer, Msg, Channel!Sides, Channel!Peer, Channel!Msg
<1>1. Init => Channel!Init
  BY DEF Init, Channel!Init
<1>2. Inv /\ [Next]_vars => [Channel!Next]_Channel!vars
  <2> SUFFICES ASSUME Inv, [Next]_vars PROVE [Channel!Next]_Channel!vars
    OBVIOUS
  <2> USE DEF Inv, TypeOK, Token, Free, Held, Loaded, Posted, Taken, Gone, Holds,
              Takes, Closed, Drained, FinishedFlags, InOrderIntact, Writing, Reading, Finishing
  <2>1. ASSUME NEW s \in Sides, SendEnd(s) PROVE Channel!Send(s)
    BY <2>1 DEF SendEnd, Goto, Channel!Send
  <2>2. ASSUME NEW s \in Sides, RecvEnd(s) PROVE Channel!Receive(s)
    <3>1. Peer(s) \in Sides /\ Taken(Peer(s))
      BY <2>2 DEF RecvEnd, Goto
    <3>2. sent[Peer(s)] = rcvd[Peer(s)] + 1
      BY <2>2, <3>1 DEF RecvEnd, Goto
    <3>3. got[s] = Msg(sent[Peer(s)])
      BY <2>2, <3>1 DEF RecvEnd, Goto
    <3>4. inbox' = [inbox EXCEPT ![s] = Msg(rcvd[Peer(s)] + 1)]
      BY <2>2, <3>2, <3>3 DEF RecvEnd
    <3>5. rcvd[Peer(s)] < sent[Peer(s)]
      BY <3>1, <3>2
    <3>6. pc'["cpp"] = "closed" <=> pc["cpp"] = "closed"
      BY <2>2 DEF RecvEnd, Goto
    <3> QED
      BY <2>2, <3>4, <3>5, <3>6 DEF RecvEnd, Channel!Receive
  <2>3. ASSUME FinishEnd PROVE Channel!Finish
    BY <2>3 DEF FinishEnd, Goto, Channel!Finish
  <2>4. ASSUME CopyFinished PROVE Channel!Learn \/ UNCHANGED Channel!vars
    BY <2>4 DEF CopyFinished, Goto, shm, Channel!Learn, Channel!vars
  <2>5. ASSUME NEW s \in Sides,
               \/ CallSend(s) \/ SendBegin(s) \/ WriteSize(s) \/ WriteBody(s)
               \/ CallRecv(s) \/ RecvBegin(s) \/ ReadSize(s) \/ ReadBody(s)
        PROVE  UNCHANGED Channel!vars
    BY <2>5 DEF CallSend, SendBegin, WriteSize, WriteBody, CallRecv, RecvBegin, ReadSize,
                ReadBody, Goto, shm, Channel!vars
  <2>6. ASSUME CallSetFinished \/ FinishBegin \/ FinishWrite
        PROVE  UNCHANGED Channel!vars
    BY <2>6 DEF CallSetFinished, FinishBegin, FinishWrite, Goto, shm, Channel!vars
  <2>7. CASE UNCHANGED vars
    BY <2>7 DEF vars, Channel!vars
  <2> QED
    BY <2>1, <2>2, <2>3, <2>4, <2>5, <2>6, <2>7 DEF Next, Inside, Channel!Next
<1> QED
  BY <1>1, <1>2, Invariant, PTL DEF SafeSpec, ImplementsChannel, Channel!Spec

=============================================================================
