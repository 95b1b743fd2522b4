------------------------------- MODULE Cat4Cw -------------------------------
(***************************************************************************)
(* The contention window of NrCat4LbtAccessManager (nr-u/model/            *)
(* nr-lbt-access-manager.cc): HARQ feedback is counted as it arrives, and  *)
(* looked at when the next backoff is drawn.                               *)
(*                                                                         *)
(* RequestAccess calls DoInitialize while IsInitialized() is false, and    *)
(* nothing calls Initialize() on an access manager: it does so every time. *)
(***************************************************************************)
EXTENDS Integers

CONSTANTS
    CwMins,         \* values of Cat4MinCw: the attribute's and the agent's
    CwMax,          \* Cat4MaxCw
    LinBackoff,     \* Cat4LinearBackoff
    BackoffTypes,   \* values of BackOffType, the attribute's and the agent's
    UpdateRules,    \* values of Cat4CwUpdateRule
    RetryLimit,     \* RetryLimit, m_nRetry
    MaxFeedback     \* bound: HARQ feedback between two backoffs

Linear == 0
EIED == 1
Constant == 2
BEB == 3

ASSUME Cat4Assumption ==
    /\ CwMins \subseteq Nat /\ CwMins # {}
    /\ CwMax \in Nat \ {0} /\ \A m \in CwMins : m <= CwMax
    /\ LinBackoff \in Nat
    /\ BackoffTypes \subseteq {Linear, EIED, Constant, BEB}
    /\ UpdateRules \subseteq {"ALL_NACKS", "ANY_NACK", "NACKS_10_PERCENT",
                              "NACKS_80_PERCENT"}
    /\ RetryLimit \in 0 .. 255
    /\ MaxFeedback \in Nat

VARIABLES
    cw,             \* m_cat4ContentionWindowTracedValue
    cwMin,          \* m_cat4CwMin
    backoffType,    \* m_backoffType
    rule,           \* m_cat4CwUpdateRule
    acks, nacks,    \* m_acks, m_nacks
    attempts,       \* m_numberOfAttempts
    requested,      \* m_grantRequested
    slots,          \* the backoff drawn last
    drawnFrom       \* history: the window it was drawn from

cwVars == <<cw, cwMin, backoffType, rule, acks, nacks, attempts, requested, slots,
            drawnFrom>>
config == <<cwMin, backoffType, rule>>

CwTypeOK ==
    /\ cw \in Nat
    /\ cwMin \in CwMins
    /\ backoffType \in BackoffTypes
    /\ rule \in UpdateRules
    /\ acks \in Nat /\ nacks \in Nat
    /\ attempts \in 0 .. RetryLimit
    /\ requested \in BOOLEAN
    /\ slots \in Nat /\ drawnFrom \in Nat

\* The traced value starts at 0.
CwInit ==
    /\ cw = 0
    /\ cwMin \in CwMins
    /\ backoffType \in BackoffTypes
    /\ rule \in UpdateRules
    /\ acks = 0 /\ nacks = 0
    /\ attempts = 0
    /\ requested = FALSE
    /\ slots = 0 /\ drawnFrom = 0

-----------------------------------------------------------------------------
(* The update rules and algorithms, as functions of the window.            *)

\* Mutant: m_acks for m_nacks.
UpdateFailedOnAcks == acks > 0

\* Does the feedback count as a failure?  The ratios are compared without dividing.
UpdateFailed ==
    CASE rule = "ALL_NACKS" -> acks = 0
      [] rule = "ANY_NACK" -> nacks > 0
      [] rule = "NACKS_80_PERCENT" -> 10 * nacks >= 8 * (acks + nacks)
      [] rule = "NACKS_10_PERCENT" -> 10 * nacks >= acks + nacks

AtMost(x, m) == IF x < m THEN x ELSE m

\* UpdateFailedCw, UpdateFailedCwLinear and UpdateFailedCwConstant
Widened(w) ==
    CASE backoffType \in {EIED, BEB} -> AtMost(2 * (w + 1) - 1, CwMax)
      [] backoffType = Linear -> AtMost(LinBackoff + w, CwMax)
      [] backoffType = Constant -> w

\* ResetCw and ResetCwExp: what a success does once RetryLimit successes were let pass.
Narrowed(w) == IF backoffType = EIED THEN w \div 2 + 1 ELSE cwMin

\* Is a success still let pass?
TriesLeft == attempts < RetryLimit

-----------------------------------------------------------------------------

\* DoInitialize, at the head of every RequestAccess: the window it leaves.
AfterInitialize == cwMin

\* RequestAccess that draws no backoff: a request is pending already, or the channel is
\* free and it is granted at once.  DoInitialize has run all the same.
RequestNoBackoff ==
    /\ cw' = AfterInitialize
    /\ UNCHANGED <<config, acks, nacks, attempts, requested, slots, drawnFrom>>

\* RequestAccess that draws a backoff: DoInitialize, then GetBackoffSlots.
RequestBackoff ==
    /\ ~requested
    /\ requested' = TRUE
    /\ \/ /\ acks = 0 /\ nacks = 0
          /\ cw' = AfterInitialize
          /\ UNCHANGED attempts
       \/ /\ acks + nacks > 0 /\ UpdateFailed
          /\ cw' = Widened(AfterInitialize)
          /\ UNCHANGED attempts
       \/ /\ acks + nacks > 0 /\ ~UpdateFailed
          /\ TriesLeft
          /\ attempts' = attempts + 1
          /\ cw' = AfterInitialize
       \/ /\ acks + nacks > 0 /\ ~UpdateFailed
          /\ ~TriesLeft
          /\ attempts' = 0
          /\ cw' = Narrowed(AfterInitialize)
    /\ acks' = 0 /\ nacks' = 0
    /\ slots' \in 0 .. cw' /\ drawnFrom' = cw'
    /\ UNCHANGED config

\* The pending request is granted.
Granted ==
    /\ requested
    /\ requested' = FALSE
    /\ UNCHANGED <<config, cw, acks, nacks, attempts, slots, drawnFrom>>

\* UpdateCwBasedOnHarq, at any moment: the feedback of a transmission comes slots later.
UpdateCwBasedOnHarq ==
    /\ acks + nacks < MaxFeedback
    /\ \/ acks' = acks + 1 /\ UNCHANGED nacks
       \/ nacks' = nacks + 1 /\ UNCHANGED acks
    /\ UNCHANGED <<config, cw, attempts, requested, slots, drawnFrom>>

\* SetCat4MinCw and SetCat4BackoffType, from the learning agent.
ChangeCwParameters ==
    /\ cwMin' \in CwMins
    /\ backoffType' \in BackoffTypes
    /\ UNCHANGED <<rule, cw, acks, nacks, attempts, requested, slots, drawnFrom>>

CwNext ==
    \/ RequestNoBackoff
    \/ RequestBackoff
    \/ Granted
    \/ UpdateCwBasedOnHarq
    \/ ChangeCwParameters

CwSpec == CwInit /\ [][CwNext]_cwVars

-----------------------------------------------------------------------------

\* The widest window one failed update can make of a minimum.
OneUpdate(m) ==
    LET widest == IF 2 * m + 1 < LinBackoff + m THEN LinBackoff + m ELSE 2 * m + 1
    IN  AtMost(widest, CwMax)

\* After an unsuccessful transmission the window widens, up to the maximum
\* (NrCat4LbtAccessManager::UpdateFailedCw): a backoff drawn on a failure is drawn from a
\* wider window than the last, while the agent leaves the parameters alone.  It is not:
\* DoInitialize has put the window back in between.  See the run cat4_growth.
FailuresKeepWidening ==
    [][requested' /\ ~requested /\ acks + nacks > 0 /\ UpdateFailed
        => cw' > drawnFrom \/ cw' = CwMax]_cwVars

\* How far the code's backoff does adapt: however many transmissions failed before, it is
\* drawn from a window within one update of the minimum in force.
DrawWithinOneUpdate ==
    [][requested' /\ ~requested => cw' <= OneUpdate(cwMin) /\ slots' <= cw']_cwVars

\* Under every update rule and every algorithm that adapts, a draw after nothing but
\* NACKs is from a wider window than the minimum, and one after nothing but ACKs is not.
FeedbackMovesWindow ==
    [][requested' /\ ~requested /\ backoffType # Constant =>
        /\ nacks > 0 /\ acks = 0 => cw' > cwMin \/ cw' = CwMax
        /\ acks > 0 /\ nacks = 0 => cw' <= cwMin]_cwVars

=============================================================================
