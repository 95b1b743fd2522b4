---------------------------- MODULE MsgInterface ----------------------------
(***************************************************************************)
(* Ns3AiMsgInterfaceImpl (contrib/ai/model/msg-interface/                  *)
(* ns3-ai-msg-interface.h), the struct-based interface between the ns-3    *)
(* process and the Python process.  Each direction has one buffer in the   *)
(* shared segment and two semaphores, "empty" and "full".                  *)
(*                                                                         *)
(* A side is a process that calls Send or Receive in whatever order it     *)
(* likes.  A semaphore operation is one step (Ns3AiSemaphore shows why     *)
(* that is sound); the two words of a message are written, and read, one   *)
(* at a time.                                                              *)
(***************************************************************************)
EXTENDS Integers

CONSTANTS
    MaxMsgs,        \* bound: messages each side sends
    HandleFinish    \* the handle_finish argument of both constructors

ASSUME MsgInterfaceAssumption == MaxMsgs \in Nat /\ HandleFinish \in BOOLEAN

Sides == {"cpp", "py"}

Peer(s) == IF s = "cpp" THEN "py" ELSE "cpp"

\* The n-th message of a side: the size word and the bytes of the buffer.
Msg(n) == [size |-> n, body |-> n]

VARIABLES
    empty,          \* empty[s]: the Empty count of the buffer side s writes
    full,           \* full[s]: its Full count
    buf,            \* buf[s]: that buffer
    shmFinished,    \* m_sync->m_isFinished
    finished,       \* finished[s]: side s's own m_isFinished
    pc,             \* where each side is
    got,            \* got[s]: the words side s has read so far
    inbox,          \* inbox[s]: the last message side s has received
    sent,           \* sent[s]: messages side s has sent
    rcvd            \* rcvd[s]: those of them its peer has received

shm == <<empty, full, buf, shmFinished>>
vars == <<empty, full, buf, shmFinished, finished, pc, got, inbox, sent, rcvd>>

\* Inside Send between Begin and End, inside Receive between Begin and End, and inside
\* CppSetFinished.
Writing == {"writeSize", "writeBody", "sendEnd"}
Reading == {"readFin", "readSize", "readBody", "recvEnd"}
Finishing == {"finWrite", "finEnd"}

TypeOK ==
    /\ empty \in [Sides -> {0, 1}]
    /\ full \in [Sides -> {0, 1}]
    /\ buf \in [Sides -> [size : 0 .. MaxMsgs, body : 0 .. MaxMsgs]]
    /\ shmFinished \in BOOLEAN
    /\ finished \in [Sides -> BOOLEAN]
    /\ pc \in [Sides -> {"idle", "sendWait", "recvWait", "finWait", "closed"}
                            \union Writing \union Reading \union Finishing]
    /\ got \in [Sides -> [size : 0 .. MaxMsgs, body : 0 .. MaxMsgs]]
    /\ inbox \in [Sides -> [size : 0 .. MaxMsgs, body : 0 .. MaxMsgs]]
    /\ sent \in [Sides -> 0 .. MaxMsgs]
    /\ rcvd \in [Sides -> 0 .. MaxMsgs]

\* Ns3AiMsgSync and the buffers as the creator constructs them.
Init ==
    /\ empty = [s \in Sides |-> 1]
    /\ full = [s \in Sides |-> 0]
    /\ buf = [s \in Sides |-> Msg(0)]
    /\ shmFinished = FALSE
    /\ finished = [s \in Sides |-> FALSE]
    /\ pc = [s \in Sides |-> "idle"]
    /\ got = [s \in Sides |-> Msg(0)]
    /\ inbox = [s \in Sides |-> Msg(0)]
    /\ sent = [s \in Sides |-> 0]
    /\ rcvd = [s \in Sides |-> 0]

Goto(s, from, to) ==
    /\ pc[s] = from
    /\ pc' = [pc EXCEPT ![s] = to]

-----------------------------------------------------------------------------
(* Send: CppSendBegin .. CppSendEnd and PySendBegin .. PySendEnd.          *)

CallSend(s) ==
    /\ sent[s] < MaxMsgs
    /\ Goto(s, "idle", "sendWait")
    /\ UNCHANGED <<shm, finished, got, inbox, sent, rcvd>>

\* Mutant: the buffer is written without waiting for it.
SendBeginNoWait(s) ==
    /\ Goto(s, "sendWait", "writeSize")
    /\ UNCHANGED <<shm, finished, got, inbox, sent, rcvd>>

SendBegin(s) ==
    /\ Goto(s, "sendWait", "writeSize")
    /\ empty[s] > 0
    /\ empty' = [empty EXCEPT ![s] = @ - 1]
    /\ UNCHANGED <<full, buf, shmFinished, finished, got, inbox, sent, rcvd>>

WriteSize(s) ==
    /\ Goto(s, "writeSize", "writeBody")
    /\ buf' = [buf EXCEPT ![s].size = sent[s] + 1]
    /\ UNCHANGED <<empty, full, shmFinished, finished, got, inbox, sent, rcvd>>

WriteBody(s) ==
    /\ Goto(s, "writeBody", "sendEnd")
    /\ buf' = [buf EXCEPT ![s].body = sent[s] + 1]
    /\ UNCHANGED <<empty, full, shmFinished, finished, got, inbox, sent, rcvd>>

\* Mutant: the receiver is not told.
SendEndNoPost(s) ==
    /\ Goto(s, "sendEnd", "idle")
    /\ sent' = [sent EXCEPT ![s] = @ + 1]
    /\ UNCHANGED <<shm, finished, got, inbox, rcvd>>

SendEnd(s) ==
    /\ Goto(s, "sendEnd", "idle")
    /\ full' = [full EXCEPT ![s] = @ + 1]
    /\ sent' = [sent EXCEPT ![s] = @ + 1]
    /\ UNCHANGED <<empty, buf, shmFinished, finished, got, inbox, rcvd>>

-----------------------------------------------------------------------------
(* Receive: CppRecvBegin .. CppRecvEnd and PyRecvBegin .. PyRecvEnd.       *)

CallRecv(s) ==
    /\ Goto(s, "idle", "recvWait")
    /\ UNCHANGED <<shm, finished, got, inbox, sent, rcvd>>

\* Only Python's RecvBegin goes on to look at m_isFinished.
RecvBegin(s) ==
    /\ Goto(s, "recvWait",
            IF s = "py" /\ HandleFinish THEN "readFin" ELSE "readSize")
    /\ full[Peer(s)] > 0
    /\ full' = [full EXCEPT ![Peer(s)] = @ - 1]
    /\ UNCHANGED <<empty, buf, shmFinished, finished, got, inbox, sent, rcvd>>

\* PyRecvBegin copies the flag; a caller that finds PyGetFinished() true leaves.
CopyFinished ==
    /\ Goto("py", "readFin", IF shmFinished THEN "closed" ELSE "readSize")
    /\ finished' = [finished EXCEPT !["py"] = shmFinished]
    /\ UNCHANGED <<shm, got, inbox, sent, rcvd>>

ReadSize(s) ==
    /\ Goto(s, "readSize", "readBody")
    /\ got' = [got EXCEPT ![s].size = buf[Peer(s)].size]
    /\ UNCHANGED <<shm, finished, inbox, sent, rcvd>>

ReadBody(s) ==
    /\ Goto(s, "readBody", "recvEnd")
    /\ got' = [got EXCEPT ![s].body = buf[Peer(s)].body]
    /\ UNCHANGED <<shm, finished, inbox, sent, rcvd>>

\* Mutant: the sender is not told.
RecvEndNoPost(s) ==
    /\ Goto(s, "recvEnd", "idle")
    /\ rcvd' = [rcvd EXCEPT ![Peer(s)] = @ + 1]
    /\ inbox' = [inbox EXCEPT ![s] = got[s]]
    /\ UNCHANGED <<shm, finished, got, sent>>

RecvEnd(s) ==
    /\ Goto(s, "recvEnd", "idle")
    /\ empty' = [empty EXCEPT ![Peer(s)] = @ + 1]
    /\ rcvd' = [rcvd EXCEPT ![Peer(s)] = @ + 1]
    /\ inbox' = [inbox EXCEPT ![s] = got[s]]
    /\ UNCHANGED <<full, buf, shmFinished, finished, got, sent>>

-----------------------------------------------------------------------------
(* CppSetFinished, from the destructor of the C++ side.                    *)

CallSetFinished ==
    /\ HandleFinish
    /\ Goto("cpp", "idle", "finWait")
    /\ finished' = [finished EXCEPT !["cpp"] = TRUE]
    /\ UNCHANGED <<shm, got, inbox, sent, rcvd>>

\* Mutant: the flag is set without waiting for the last message to be read.
FinishBeginNoWait ==
    /\ Goto("cpp", "finWait", "finWrite")
    /\ UNCHANGED <<shm, finished, got, inbox, sent, rcvd>>

FinishBegin ==
    /\ Goto("cpp", "finWait", "finWrite")
    /\ empty["cpp"] > 0
    /\ empty' = [empty EXCEPT !["cpp"] = @ - 1]
    /\ UNCHANGED <<full, buf, shmFinished, finished, got, inbox, sent, rcvd>>

FinishWrite ==
    /\ Goto("cpp", "finWrite", "finEnd")
    /\ shmFinished' = TRUE
    /\ UNCHANGED <<empty, full, buf, finished, got, inbox, sent, rcvd>>

\* Mutant: Python is not woken up.
FinishEndNoPost ==
    /\ Goto("cpp", "finEnd", "closed")
    /\ UNCHANGED <<shm, finished, got, inbox, sent, rcvd>>

FinishEnd ==
    /\ Goto("cpp", "finEnd", "closed")
    /\ full' = [full EXCEPT !["cpp"] = @ + 1]
    /\ UNCHANGED <<empty, buf, shmFinished, finished, got, inbox, sent, rcvd>>

-----------------------------------------------------------------------------

\* What a side does once it is inside an operation.
Inside(s) ==
    \/ SendBegin(s) \/ WriteSize(s) \/ WriteBody(s) \/ SendEnd(s)
    \/ RecvBegin(s) \/ ReadSize(s) \/ ReadBody(s) \/ RecvEnd(s)
    \/ s = "py" /\ CopyFinished
    \/ s = "cpp" /\ (FinishBegin \/ FinishWrite \/ FinishEnd)

Next ==
    \/ \E s \in Sides : CallSend(s) \/ CallRecv(s) \/ Inside(s)
    \/ CallSetFinished

SafeSpec == Init /\ [][Next]_vars

\* A side inside an operation keeps running; nothing makes it start one.
Fairness == \A s \in Sides : WF_vars(Inside(s))

Spec == SafeSpec /\ Fairness

=============================================================================
