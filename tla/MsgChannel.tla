----------------------------- MODULE MsgChannel -----------------------------
(***************************************************************************)
(* What the users of Ns3AiMsgInterfaceImpl (ns3-ai-msg-interface.h) are    *)
(* promised: between the C++ and the Python side, in each direction, a     *)
(* place for one message.  The k-th message received is the k-th sent, and *)
(* whole; a side cannot send again before its last message was received;   *)
(* the C++ side's "finished" is seen after everything it sent.             *)
(***************************************************************************)
EXTENDS Naturals

CONSTANT MaxMsgs    \* bound: messages each side sends

Sides == {"cpp", "py"}

Peer(s) == IF s = "cpp" THEN "py" ELSE "cpp"

\* The n-th message of a side: both words of the buffer carry its number.
Msg(n) == [size |-> n, body |-> n]

VARIABLES
    sent,       \* sent[s]: messages side s has sent
    rcvd,       \* rcvd[s]: those of them its peer has received
    inbox,      \* inbox[s]: the last message side s has received
    over,       \* the C++ side has finished
    known       \* the Python side has learnt it

vars == <<sent, rcvd, inbox, over, known>>

Init ==
    /\ sent = [s \in Sides |-> 0]
    /\ rcvd = [s \in Sides |-> 0]
    /\ inbox = [s \in Sides |-> Msg(0)]
    /\ over = FALSE
    /\ known = FALSE

Send(s) ==
    /\ sent[s] = rcvd[s]
    /\ sent[s] < MaxMsgs
    /\ ~(s = "cpp" /\ over)
    /\ sent' = [sent EXCEPT ![s] = @ + 1]
    /\ UNCHANGED <<rcvd, inbox, over, known>>

Receive(s) ==
    /\ rcvd[Peer(s)] < sent[Peer(s)]
    /\ rcvd' = [rcvd EXCEPT ![Peer(s)] = @ + 1]
    /\ inbox' = [inbox EXCEPT ![s] = Msg(rcvd[Peer(s)] + 1)]
    /\ UNCHANGED <<sent, over, known>>

\* The C++ side finishes when its last message was received.
Finish ==
    /\ ~over
    /\ sent["cpp"] = rcvd["cpp"]
    /\ over' = TRUE
    /\ UNCHANGED <<sent, rcvd, inbox, known>>

Learn ==
    /\ over
    /\ known' = TRUE
    /\ UNCHANGED <<sent, rcvd, inbox, over>>

Next ==
    \/ \E s \in Sides : Send(s) \/ Receive(s)
    \/ Finish
    \/ Learn

Spec == Init /\ [][Next]_vars

=============================================================================
