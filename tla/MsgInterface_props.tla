------------------------- MODULE MsgInterface_props -------------------------
(* The properties of MsgInterface.                                         *)
EXTENDS MsgInterface

\* Mutual exclusion on each buffer and on the finished flag, which are plain memory: a
\* side that writes one and a side that reads it are never between their Begin and End
\* together, whatever the order in which the two programs call the interface.
OneOwner ==
    \A s \in Sides :
        pc[s] \in Writing \union Finishing => pc[Peer(s)] \notin Reading

\* A receiver ends up with the message that was sent, whole and in its turn: never the
\* size of one message with the bytes of another, none twice, none skipped.
InOrderIntact == \A s \in Sides : inbox[s] = Msg(rcvd[Peer(s)])

\* No lost wake-up: a side that finds its semaphore at 0 has a reason to spin.  A
\* sender spins only while its peer has not taken the last message, a receiver only
\* while there is nothing to take, and Python never once the C++ side has closed.
SpinsForAReason ==
    \A s \in Sides :
        /\ pc[s] \in {"sendWait", "finWait"} /\ empty[s] = 0 => rcvd[s] < sent[s]
        /\ pc[s] = "recvWait" /\ full[Peer(s)] = 0 =>
               /\ rcvd[Peer(s)] = sent[Peer(s)]
               /\ pc[Peer(s)] = "closed" => s = "cpp"

\* Python takes the simulation for finished only when CppSetFinished has run to its
\* end and every message of the C++ side has been received: none is left behind.
FinishedIsLast ==
    finished["py"] => pc["cpp"] = "closed" /\ rcvd["cpp"] = sent["cpp"]

\* The semaphores, the buffers and the flag implement a channel of one place per
\* direction.
Channel == INSTANCE MsgChannel WITH
               over <- pc["cpp"] = "closed", known <- finished["py"]

ImplementsChannel == Channel!Spec

\* A message that has been sent reaches a peer that waits for it.
AwaitedMessageArrives ==
    \A s \in Sides :
        (rcvd[s] < sent[s] /\ pc[Peer(s)] = "recvWait") ~> (rcvd[s] = sent[s])

\* A Python side that waits in a receive when the C++ side closes is let go: it does
\* not spin for ever on a process that is gone.
FinishIsLearnt ==
    (pc["cpp"] = "closed" /\ pc["py"] = "recvWait" /\ rcvd["cpp"] = sent["cpp"])
        ~> (pc["py"] = "closed")

=============================================================================
