--------------------------- MODULE RunCoordinator ---------------------------
(***************************************************************************)
(* src/src/services/run-coordinator.ts: the in-process lock every treasury *)
(* review, accounting snapshot and unwind takes for the whole of its task. *)
(*                                                                         *)
(* JavaScript runs one callback at a time, so everything runExclusive does *)
(* between two awaits is one step.  The awaits are the promise of a queued *)
(* waiter and the task itself; resolving a waiter's promise only schedules *)
(* its continuation, so a caller that was handed the lock is "granted" for *)
(* a while before it is "running", and other callers may act meanwhile.    *)
(***************************************************************************)
EXTENDS Naturals, Sequences

CONSTANT Callers    \* the calls of runExclusive that may be in progress

VARIABLES
    locked,         \* RunCoordinator.locked
    waiters,        \* RunCoordinator.waiters, the resolvers named by caller
    pc              \* where each caller is inside runExclusive

vars == <<locked, waiters, pc>>

PCs == {"outside", "refused", "queued", "granted", "running"}

Init ==
    /\ locked = FALSE
    /\ waiters = <<>>
    /\ pc = [c \in Callers |-> "outside"]

-----------------------------------------------------------------------------
(* Plausible bugs, each a replacement for the definition it is named after. *)

\* Enqueue inserts at the front (unshift for push).
EnqueueAtFront(c) ==
    /\ pc[c] = "outside"
    /\ locked
    /\ waiters' = <<c>> \o waiters
    /\ pc' = [pc EXCEPT ![c] = "queued"]
    /\ UNCHANGED locked

\* finally wakes the next waiter and opens the lock as well.
HandOverAndOpen(c) ==
    /\ waiters # <<>>
    /\ waiters' = Tail(waiters)
    /\ pc' = [pc EXCEPT ![c] = "outside", ![Head(waiters)] = "granted"]
    /\ locked' = FALSE

\* finally shifts the queue and forgets to resolve what it took.
HandOverDropsWaiter(c) ==
    /\ waiters # <<>>
    /\ waiters' = Tail(waiters)
    /\ pc' = [pc EXCEPT ![c] = "outside"]
    /\ UNCHANGED locked

\* finally takes the newest waiter (pop for shift).
HandOverNewest(c) ==
    /\ waiters # <<>>
    /\ waiters' = SubSeq(waiters, 1, Len(waiters) - 1)
    /\ pc' = [pc EXCEPT ![c] = "outside", ![waiters[Len(waiters)]] = "granted"]
    /\ UNCHANGED locked

\* finally forgets to open the lock when nobody waits.
OpenForgotten(c) ==
    /\ waiters = <<>>
    /\ pc' = [pc EXCEPT ![c] = "outside"]
    /\ UNCHANGED <<locked, waiters>>

-----------------------------------------------------------------------------
(* The call.  Its three alternatives are the branches before the task.     *)

\* The lock is free: take it and start the task without yielding.
Acquire(c) ==
    /\ pc[c] = "outside"
    /\ ~locked
    /\ locked' = TRUE
    /\ pc' = [pc EXCEPT ![c] = "running"]
    /\ UNCHANGED waiters

\* Mode "fail" on a held lock throws RunCoordinatorBusyError, and the caller
\* learns of it when the rejected promise's continuation runs.
Reject(c) ==
    /\ pc[c] = "outside"
    /\ locked
    /\ pc' = [pc EXCEPT ![c] = "refused"]
    /\ UNCHANGED <<locked, waiters>>

LearnOfRefusal(c) ==
    /\ pc[c] = "refused"
    /\ pc' = [pc EXCEPT ![c] = "outside"]
    /\ UNCHANGED <<locked, waiters>>

\* Mode "wait" on a held lock pushes a resolver and awaits it.
Enqueue(c) ==
    /\ pc[c] = "outside"
    /\ locked
    /\ waiters' = Append(waiters, c)
    /\ pc' = [pc EXCEPT ![c] = "queued"]
    /\ UNCHANGED locked

\* The continuation of a resolved waiter runs and starts its task.
Resume(c) ==
    /\ pc[c] = "granted"
    /\ pc' = [pc EXCEPT ![c] = "running"]
    /\ UNCHANGED <<locked, waiters>>

\* The task settled (returned or threw) and the finally block ran: the lock
\* goes to the oldest waiter without ever being free, or is opened.
HandOver(c) ==
    /\ waiters # <<>>
    /\ waiters' = Tail(waiters)
    /\ pc' = [pc EXCEPT ![c] = "outside", ![Head(waiters)] = "granted"]
    /\ UNCHANGED locked

Open(c) ==
    /\ waiters = <<>>
    /\ locked' = FALSE
    /\ pc' = [pc EXCEPT ![c] = "outside"]
    /\ UNCHANGED waiters

Settle(c) ==
    /\ pc[c] = "running"
    /\ HandOver(c) \/ Open(c)

Next == \E c \in Callers :
    \/ Acquire(c) \/ Reject(c) \/ LearnOfRefusal(c)
    \/ Enqueue(c) \/ Resume(c) \/ Settle(c)

\* A resolved promise's continuation always runs, and a task settles: every
\* await in it is a network call the caller bounds or the peer answers.
Fairness == \A c \in Callers : WF_vars(Resume(c)) /\ WF_vars(Settle(c))

SafeSpec == Init /\ [][Next]_vars
Spec == SafeSpec /\ Fairness

-----------------------------------------------------------------------------
(* Properties.                                                             *)

TypeOK ==
    /\ locked \in BOOLEAN
    /\ waiters \in Seq(Callers)
    /\ pc \in [Callers -> PCs]

Holds(c) == pc[c] \in {"granted", "running"}

\* Two runs never overlap: at most one caller is past the lock, also while a
\* hand-over is under way and new callers arrive.
MutualExclusion == \A c, d \in Callers : Holds(c) /\ Holds(d) => c = d

\* The flag that isBusy exposes is up exactly while some caller owns the lock,
\* so it is never left up by a finished run nor down under a running one.
LockedIffHeld == locked <=> \E c \in Callers : Holds(c)

\* The queue holds each queued caller exactly once and nobody else, so no
\* caller awaits a promise that no finally block will ever resolve.
Queued == {c \in Callers : pc[c] = "queued"}
QueueIsExact ==
    /\ {waiters[i] : i \in DOMAIN waiters} = Queued
    /\ \A i, j \in DOMAIN waiters : waiters[i] = waiters[j] => i = j

\* Nobody waits at an open lock.
NobodyWaitsAtOpenLock == waiters # <<>> => locked

\* The inductive invariant of the proofs.
IInv == TypeOK /\ MutualExclusion /\ LockedIffHeld /\ QueueIsExact
            /\ NobodyWaitsAtOpenLock

\* A caller that arrives never barges past one that is already waiting: while
\* the queue is not empty the lock only ever passes to the queue's head.
NoBarging == [][\A c \in Callers :
    ~Holds(c) /\ Holds(c)' =>
        IF waiters = <<>> THEN pc[c] = "outside" ELSE c = Head(waiters)]_vars

\* Every caller that waits eventually runs its task.
EveryWaiterRuns == \A c \in Callers : pc[c] = "queued" ~> pc[c] = "running"
=============================================================================
