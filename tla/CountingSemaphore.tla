-------------------------- MODULE CountingSemaphore --------------------------
(***************************************************************************)
(* What the callers of Ns3AiSemaphore (ns3-ai-semaphore.h) are promised:   *)
(* a counting semaphore.  A process that calls sem_wait waits until it     *)
(* takes one permit, in one step; sem_post puts one permit back, in one    *)
(* step.  A permit may be put back by another process than its taker, as   *)
(* the two sides of the message interface do.                              *)
(***************************************************************************)
EXTENDS Naturals, FiniteSets

CONSTANTS
    Procs,          \* the threads of control that share the word
    Permits         \* its initial value

VARIABLES
    permits,        \* permits in the word
    out,            \* permits taken and not yet put back
    waiting         \* processes inside sem_wait

vars == <<permits, out, waiting>>

Init ==
    /\ permits = Permits
    /\ out = 0
    /\ waiting = {}

\* A process enters sem_wait.
Call(p) ==
    /\ p \notin waiting
    /\ waiting' = waiting \union {p}
    /\ UNCHANGED <<permits, out>>

\* A waiting process takes a permit and returns.
Take(p) ==
    /\ p \in waiting
    /\ permits > 0
    /\ permits' = permits - 1
    /\ out' = out + 1
    /\ waiting' = waiting \ {p}

\* A process that is not waiting puts a permit back.
Post(p) ==
    /\ p \notin waiting
    /\ out > 0
    /\ permits' = permits + 1
    /\ out' = out - 1
    /\ UNCHANGED waiting

Next == \E p \in Procs : Call(p) \/ Take(p) \/ Post(p)

SafeSpec == Init /\ [][Next]_vars

\* No process is promised its turn (the word keeps no queue), but while permits
\* are there and somebody waits, somebody takes one.
Spec == SafeSpec /\ WF_vars(\E p \in Procs : Take(p))

TypeOK ==
    /\ permits \in Nat
    /\ out \in Nat
    /\ waiting \subseteq Procs

=============================================================================
