--------------------------- MODULE Ns3AiSemaphore ---------------------------
(***************************************************************************)
(* The spinning semaphore of the shared-memory segment                     *)
(* (contrib/ai/model/msg-interface/ns3-ai-semaphore.h): one byte, a load,  *)
(* a compare-and-swap and a fetch-and-add.  One atomic instruction is one  *)
(* step; the local variable "c" of atomic_add_unless8 lives between them.  *)
(***************************************************************************)
EXTENDS Integers, FiniteSets

CONSTANTS
    Procs,          \* the threads of control that share the word
    Word,           \* 2^8: the word is a uint8_t
    Permits         \* its initial value

ASSUME WordAssumption == Word \in Nat \ {0} /\ Permits \in 0 .. Word - 1

VARIABLES
    mem,            \* *mem, the shared byte
    pc,             \* "out": outside; "load": about to read; "cas": about to swap
    c,              \* the local c of atomic_add_unless8
    out             \* history: permits taken by sem_wait and not yet posted

vars == <<mem, pc, c, out>>

TypeOK ==
    /\ mem \in 0 .. Word - 1
    /\ pc \in [Procs -> {"out", "load", "cas"}]
    /\ c \in [Procs -> 0 .. Word - 1]
    /\ out \in 0 .. Permits

Init ==
    /\ mem = Permits
    /\ pc = [p \in Procs |-> "out"]
    /\ c = [p \in Procs |-> 0]
    /\ out = 0

\* sem_wait is called.
Call(p) ==
    /\ pc[p] = "out"
    /\ pc' = [pc EXCEPT ![p] = "load"]
    /\ UNCHANGED <<mem, c, out>>

\* Where atomic_add_unless8(mem, -1, 0) goes with old value v in c: v = 0 makes it
\* return false, and sem_wait calls it again; any other v is tried with the swap.
Try(p, v) ==
    /\ c' = [c EXCEPT ![p] = v]
    /\ pc' = [pc EXCEPT ![p] = IF v = 0 THEN "load" ELSE "cas"]

\* atomic_read8
Load(p) ==
    /\ pc[p] = "load"
    /\ Try(p, mem)
    /\ UNCHANGED <<mem, out>>

\* atomic_cas8 finds c in the word: it stores c + 255 (mod 2^8) and sem_wait returns.
Swap(p) ==
    /\ pc[p] = "cas"
    /\ mem = c[p]
    /\ mem' = (c[p] + (Word - 1)) % Word
    /\ pc' = [pc EXCEPT ![p] = "out"]
    /\ out' = out + 1
    /\ UNCHANGED c

\* atomic_cas8 finds another value, which becomes c.
Retry(p) ==
    /\ pc[p] = "cas"
    /\ mem # c[p]
    /\ Try(p, mem)
    /\ UNCHANGED <<mem, out>>

\* sem_post, one fetch-and-add.  A caller posts only a permit that was taken.
Post(p) ==
    /\ pc[p] = "out"
    /\ out > 0
    /\ mem' = (mem + 1) % Word
    /\ out' = out - 1
    /\ UNCHANGED <<pc, c>>

\* Mutant: a swap that fails is not tried again.
WaitNoRetry(p) == Load(p) \/ Swap(p)

\* sem_wait, once it is called.
Wait(p) == Load(p) \/ Swap(p) \/ Retry(p)

Next == \E p \in Procs : Call(p) \/ Wait(p) \/ Post(p)

SafeSpec == Init /\ [][Next]_vars

\* The scheduler runs a spinning process again and again.
Fairness == \A p \in Procs : WF_vars(Wait(p))

Spec == SafeSpec /\ Fairness

-----------------------------------------------------------------------------

\* No permit is lost or made up, whatever loads, failed swaps and posts come between
\* the load and the swap of a process: the byte is always the initial value less the
\* permits taken.  In particular it never wraps, at 0 or at 2^8.
PermitsConserved == mem = Permits - out

\* Strengthening: a process never sits on the swap with c = 0: a swap that then succeeded would take
\* a permit from an empty word and leave 255 in it (the "unless_this" test, l. 53-57).
NeverSwapsZero == \A p \in Procs : pc[p] = "cas" => c[p] # 0

Inv == TypeOK /\ PermitsConserved /\ NeverSwapsZero

\* The word implements a counting semaphore, each of whose operations is one step:
\* what lets every other module take sem_wait and sem_post as atomic.
Abstract == INSTANCE CountingSemaphore WITH
                permits <- mem, waiting <- {p \in Procs : pc[p] # "out"}

ImplementsSemaphore == Abstract!SafeSpec

\* With a fair scheduler the loop is lock-free: while the word holds permits and
\* processes spin, they cannot all fail for ever.
ImplementsFairSemaphore == Abstract!Spec

=============================================================================
