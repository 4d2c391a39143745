---------------------- MODULE RunCoordinatorRefinement ----------------------
(* RunCoordinator, with its flag, its queue and its two-step hand-over, seen *)
(* as the abstract first-come first-served lock of FifoLock.                 *)
EXTENDS RunCoordinator

\* A caller that was handed the lock but has not resumed still waits, first
\* in line; a queued one waits behind it and behind the earlier waiters.
Status == [c \in Callers |->
    IF pc[c] \in {"outside", "refused"} THEN "out"
    ELSE IF pc[c] = "running" THEN "in" ELSE "waiting"]

Granted == {d \in Callers : pc[d] = "granted"}
Before(c) == {d \in Callers : \E k, m \in DOMAIN waiters :
                  k < m /\ waiters[k] = d /\ waiters[m] = c}
Ahead == [c \in Callers |->
    IF pc[c] = "queued" THEN Granted \cup Before(c) ELSE {}]

Abstract == INSTANCE FifoLock WITH status <- Status, ahead <- Ahead

\* The coordinator is the abstract lock: callers enter one at a time, in the
\* order of their arrival, and each one that waits enters in the end.
ImplementsFifoLock == Abstract!Spec
=============================================================================
