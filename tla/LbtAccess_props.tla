--------------------------- MODULE LbtAccess_props ---------------------------
(***************************************************************************)
(* The properties of LbtAccess.  Cancel leaves events behind that later    *)
(* grant a request nobody wants: most of what follows is promised to those *)
(* who do not use it.                                                      *)
(***************************************************************************)
EXTENDS LbtAccess

\* Whether a request has been cancelled.
cancelled == cancels > 0

EventsMatchState ==
    /\ busyEvent # Off <=> state = "BUSY"
    /\ deferEvent # Off <=> state = "WAIT_FOR_DEFER"
    /\ backoffEvent # Off <=> state = "WAIT_FOR_BACKOFF"

\* Of the three waits exactly the one the state names has its event pending, and no
\* event of an earlier wait is left over: an event that is forgotten strands the
\* request, one that survives grants a channel that has become busy.
OnePendingEvent == ~cancelled => EventsMatchState

\* The event of the backoff never finds another state: NS_FATAL_ERROR ("Unreachable?")
\* in RequestAccessAfterBackoff is not reached.  (It is,
\* after a cancellation: as an invariant of MC_LbtAccess.cfg TLC finds this violated.)
BackoffEndsWaiting == Taken("Backoff", backoffEvent) # {} => state = "WAIT_FOR_BACKOFF"

\* It is not until a request is cancelled.
NoUnreachable == ~cancelled => BackoffEndsWaiting

\* A station that goes idle has used up its backoff: none is resumed by a request that
\* did not draw it.
IdleHasNoBackoff == ~cancelled /\ state = "IDLE" => backoffCount = 0

\* While a station waits to defer or to back off, somebody asked it to.
WaitsOnRequest == state \in {"WAIT_FOR_DEFER", "WAIT_FOR_BACKOFF"} => grantRequested

\* The whole defer time has been idle at every grant, however often the channel went busy
\* in between: the one in force when the wait began, or now if there was no wait.
IdleBeforeGrant ==
    (state' = "TXOP_GRANTED" /\ state # "TXOP_GRANTED")
        => idleFor >= IF grantRequested THEN waitedFor ELSE deferTime

\* A grant the user did not just ask for answers a request that is still wanted.
RequestBeforeGrant ==
    (RequestAccessAfterDefer \/ RequestAccessAfterBackoff) /\ state' = "TXOP_GRANTED"
        => grantRequested

\* Until a request is cancelled every grant is earned: somebody waits for it, and the
\* channel was idle for its defer time (RequestAccess and the two scheduled events).
GrantsAreEarned == [][~cancelled => IdleBeforeGrant /\ RequestBeforeGrant]_vars

\* A suspended station resumes the backoff it had: until it is granted its counter
\* only goes down, even when requests are cancelled and the slot is changed.
BackoffNeverGrows ==
    [][grantRequested /\ grantRequested' => backoffCount' <= backoffCount]_vars

\* No free slots: while the slot is what it was, what the counter has gone down by was
\* spent idle in backoff, but for the fraction of a slot that each suspension rounds up.
NoFreeSlots ==
    ~cancelled /\ ~changed =>
        (drawn - backoffCount) * slotTime <= served + cuts * (slotTime - 1)

\* A request that is wanted has an event to come, in whatever order the channel went busy,
\* requests were made and events ran: nothing but a change of the parameters, or a
\* cancellation, leaves it to the next busy period.
NoStrandedRequest ==
    grantRequested /\ ~changed /\ ~cancelled =>
        busyEvent # Off \/ deferEvent # Off \/ backoffEvent # Off

\* Every request is answered once the channel stays idle, unless one was cancelled before,
\* or the agent has changed a parameter: MaxBusy bounds how often the channel goes busy,
\* so that it is idle in the end.  (After either it may not be: see the README.)
RequestAnswered ==
    grantRequested ~> (~grantRequested \/ changed \/ cancelled)

=============================================================================
