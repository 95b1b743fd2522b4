---------------------------- MODULE MacHarq_props ----------------------------
(***************************************************************************)
(* The properties of MacHarq.  The scheduler tells neither feedback nor an *)
(* attempt of an expired process from those of the next block that is      *)
(* given its number: most of what follows is promised while none is left   *)
(* over ("late").                                                          *)
(***************************************************************************)
EXTENDS MacHarq

\* The assertions of the scheduler: the count of processes is that of the active ones,
\* so that an insertion finds a free one; and in the uplink, where duplicates are not
\* looked for, no process has two answers at once, the second of which would meet a
\* process that is erased (NS_FATAL_ERROR) or already scheduled.
HarqAssertionsHold ==
    /\ used = Cardinality(Active)
    /\ direction = "UL" => \A f, g \in received : f.id = g.id => f = g
    /\ direction = "UL" => \A f \in received : f.id \notin toRetransmit

Outstanding == onAir \union atUe \union received

\* What is on its way, attempt or feedback, is the last attempt of the block its process
\* has now, and there is no other of that process, nor a retransmission waiting: nothing
\* the scheduler hears is about an earlier attempt.
FeedbackIsCurrent ==
    ~late =>
        /\ \A x \in Outstanding :
             status[x.id] = "WAITING_FEEDBACK" =>
                block[x.id] = x.block /\ rv[x.id] = x.rv /\ x.id \notin toRetransmit
        /\ \A x \in onAir \union atUe : status[x.id] = "WAITING_FEEDBACK"
        /\ \A x, y \in Outstanding : x.id = y.id => x = y

\* What the scheduler takes for delivered has been decoded, and what it gives up has not.
AckMeansDecoded ==
    ~late => \A b \in Blocks : /\ fate[b] = "acked" => b \in decoded
                               /\ fate[b] = "givenUp" => b \notin decoded

\* The receiver combines an attempt with none of another block, but of one that was let
\* expire: it is not told that its number is used anew.
HistoryIsOwn ==
    ~late => \A i \in Ids : \A b \in history[i] :
                (status[i] # "INACTIVE" /\ b = block[i]) \/ fate[b] = "expired"

Buffered(b) == \E i \in toRetransmit : block[i] = b

\* No process waits for ever: a block is acknowledged, given up or let expire, or its
\* retransmission is put off for want of room.
NoBlockForgotten ==
    \A b \in Blocks : fate[b] = "open" /\ ~Buffered(b) ~> fate[b] # "open" \/ Buffered(b)

=============================================================================
