------------------------ MODULE Ns3AiSemaphore_proof ------------------------
(***************************************************************************)
(* Proofs about the spinning semaphore, for any processes, any word width  *)
(* and any number of permits that fits the word.                           *)
(***************************************************************************)
EXTENDS Ns3AiSemaphore, TLAPS

\* The inductive invariant: typing, conservation of permits, and no process about to
\* swap from 0.  The last is what makes c + 255 a decrement that cannot wrap.
LEMMA SemaphoreInvariant == SafeSpec => []Inv
<1>1. Init => Inv
  BY WordAssumption DEF Init, Inv, TypeOK, PermitsConserved, NeverSwapsZero
<1>2. Inv /\ [Next]_vars => Inv'
  <2> SUFFICES ASSUME Inv, [Next]_vars PROVE Inv'
    OBVIOUS
  <2> USE WordAssumption DEF Inv, TypeOK, PermitsConserved, NeverSwapsZero
  <2>1. ASSUME NEW p \in Procs, Call(p) PROVE Inv'
    BY <2>1 DEF Call
  <2>2. ASSUME NEW p \in Procs, Load(p) PROVE Inv'
    BY <2>2 DEF Load, Try
  <2>3. ASSUME NEW p \in Procs, Swap(p) PROVE Inv'
    <3>1. c[p] \in 1 .. Word - 1 /\ mem = c[p]
      BY <2>3 DEF Swap
    <3>2. (c[p] + (Word - 1)) % Word = c[p] - 1
      <4> DEFINE m == c[p]
      <4>1. m \in Nat /\ m >= 1 /\ m < Word /\ Word \in Nat
        BY <3>1
      <4> HIDE DEF m
      <4>2. (m + (Word - 1)) % Word = m - 1
        BY <4>1
      <4> QED
        BY <4>2 DEF m
    <3>3. mem' = mem - 1 /\ out' = out + 1
      BY <2>3, <3>1, <3>2 DEF Swap
    <3> QED
      BY <2>3, <3>1, <3>3 DEF Swap
  <2>4. ASSUME NEW p \in Procs, Retry(p) PROVE Inv'
    BY <2>4 DEF Retry, Try
  <2>5. ASSUME NEW p \in Procs, Post(p) PROVE Inv'
    <3>1. mem + 1 < Word
      BY <2>5 DEF Post
    <3>2. mem' = mem + 1 /\ out' = out - 1
      BY <2>5, <3>1 DEF Post
    <3> QED
      BY <2>5, <3>1, <3>2 DEF Post
  <2>6. CASE UNCHANGED vars
    BY <2>6 DEF vars
  <2> QED
    BY <2>1, <2>2, <2>3, <2>4, <2>5, <2>6 DEF Next, Wait
<1> QED
  BY <1>1, <1>2, PTL DEF SafeSpec

\* sem_wait and sem_post lose and make no permit, whatever the processes, the
\* interleaving and the initial value.
THEOREM SemaphoreConservesPermits == SafeSpec => [](TypeOK /\ PermitsConserved)
<1>1. Inv => TypeOK /\ PermitsConserved
  BY DEF Inv
<1> QED
  BY <1>1, SemaphoreInvariant, PTL

\* Every step of the byte-level semaphore is a step of the counting semaphore, or none.
THEOREM SemaphoreRefinement == SafeSpec => ImplementsSemaphore
<1>1. Init => Abstract!Init
  BY DEF Init, Abstract!Init
<1>2. Inv /\ Inv' /\ [Next]_vars => [Abstract!Next]_Abstract!vars
  <2> SUFFICES ASSUME Inv, Inv', [Next]_vars PROVE [Abstract!Next]_Abstract!vars
    OBVIOUS
  <2> USE DEF Inv, TypeOK
  <2> DEFINE Inside == {q \in Procs : pc[q] # "out"}
  <2>1. ASSUME NEW p \in Procs, Call(p) PROVE Abstract!Call(p)
    <3>1. Inside' = Inside \union {p} /\ p \notin Inside
      BY <2>1 DEF Call
    <3> QED
      BY <2>1, <3>1 DEF Call, Abstract!Call
  <2>2. ASSUME NEW p \in Procs, Load(p) \/ Retry(p) PROVE UNCHANGED Abstract!vars
    <3>1. Inside' = Inside
      BY <2>2 DEF Load, Retry, Try
    <3> QED
      BY <2>2, <3>1 DEF Load, Retry, Abstract!vars
  <2>3. ASSUME NEW p \in Procs, Swap(p) PROVE Abstract!Take(p)
    <3>1. Inside' = Inside \ {p} /\ p \in Inside
      BY <2>3 DEF Swap
    <3>2. mem > 0 /\ out' = out + 1
      BY <2>3 DEF Swap, NeverSwapsZero
    <3>3. mem' = mem - 1
      BY <3>2, WordAssumption DEF PermitsConserved
    <3> QED
      BY <2>3, <3>1, <3>2, <3>3 DEF Abstract!Take
  <2>4. ASSUME NEW p \in Procs, Post(p) PROVE Abstract!Post(p)
    <3>1. Inside' = Inside /\ p \notin Inside
      BY <2>4 DEF Post
    <3>2. out' = out - 1
      BY <2>4 DEF Post
    <3>3. mem' = mem + 1
      BY <3>2, WordAssumption DEF PermitsConserved
    <3> QED
      BY <2>4, <3>1, <3>2, <3>3 DEF Post, Abstract!Post
  <2>5. CASE UNCHANGED vars
    BY <2>5 DEF vars, Abstract!vars
  <2> QED
    BY <2>1, <2>2, <2>3, <2>4, <2>5 DEF Next, Wait, Abstract!Next
<1> QED
  BY <1>1, <1>2, SemaphoreInvariant, PTL
     DEF SafeSpec, ImplementsSemaphore, Abstract!SafeSpec

=============================================================================
