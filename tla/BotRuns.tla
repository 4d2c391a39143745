------------------------------ MODULE BotRuns -------------------------------
(***************************************************************************)
(* The three services that share the run coordinator, composed with it:    *)
(*   TreasuryReviewService.run      src/src/services/treasury-review.ts    *)
(*   AccountingService.run          src/src/services/accounting.ts         *)
(*   DeterministicUnwindService.run src/src/services/deterministic-unwind.ts*)
(* together with their callers (cron in mode "wait", HTTP and Telegram in  *)
(* mode "fail") and the operator's pause switch.                           *)
(*                                                                         *)
(* What a run reads, plans and writes is abstracted to the number of       *)
(* actions it executes; every await at which another caller, or /pause,    *)
(* can act is a step boundary.                                             *)
(***************************************************************************)
EXTENDS Naturals, Sequences, FiniteSets

CONSTANTS
    Reviews, Accountings, Unwinds,  \* concurrent calls of the three services
    CanWait,                        \* the calls made in mode "wait" (cron)
    MaxActions,                     \* bound: actions in a plan or a wave
    MaxWaves,                       \* UNWIND_MAX_WAVES
    MaxRuns                         \* bound: runs started in a behaviour

Calls == Reviews \cup Accountings \cup Unwinds

ASSUME CallsAssumption ==
    /\ Reviews \cap Accountings = {}
    /\ (Reviews \cup Accountings) \cap Unwinds = {}
    /\ CanWait \subseteq Reviews \cup Accountings
    /\ MaxActions \in Nat \ {0} /\ MaxWaves \in Nat \ {0} /\ MaxRuns \in Nat

VARIABLES
    locked, waiters, pc,    \* the coordinator's, see RunCoordinator
    signing,            \* ENABLE_TRANSACTION_SIGNING, fixed at boot
    paused,             \* OperatorPauseStore.isPaused()
    reviewRunning,      \* TreasuryReviewService.running
    accountingRunning,  \* AccountingService.running
    step,               \* where each call is in its service
    trading,            \* tradingEnabled, as captured by each review's task
    todo,               \* actions of the plan or wave still to be executed
    confirmed,          \* whether one of them was confirmed
    wave,               \* the unwind's wave counter
    runs,               \* calls made so far
    result,             \* the status of each accounting call's run
    latestAccounting,   \* the status of AccountingState.latest
    startedPaused       \* history: whether the switch was on when the task began

coordination == <<locked, waiters, pc>>
work == <<trading, todo, confirmed, wave>>
books == <<runs, result, latestAccounting>>
vars == <<coordination, signing, paused, reviewRunning, accountingRunning,
          step, work, books, startedPaused>>

Lock == INSTANCE RunCoordinator WITH Callers <- Calls

Statuses == {"none", "completed", "failed", "busy"}
TaskSteps == {"planning", "executing", "reconciling", "publishing",
              "recording", "snapshot", "reading"}
Steps == TaskSteps \cup {"idle", "waiting", "refused", "released", "notifying"}

Init ==
    /\ Lock!Init
    /\ signing \in BOOLEAN /\ paused = FALSE
    /\ reviewRunning = FALSE /\ accountingRunning = FALSE
    /\ step = [c \in Calls |-> "idle"]
    /\ trading = [c \in Calls |-> FALSE]
    /\ todo = [c \in Calls |-> 0]
    /\ confirmed = [c \in Calls |-> FALSE]
    /\ wave = [c \in Calls |-> 0]
    /\ runs = 0
    /\ result = [c \in Accountings |-> "none"]
    /\ latestAccounting = "none"
    /\ startedPaused = [c \in Calls |-> FALSE]

Goto(c, s) == step' = [step EXCEPT ![c] = s]
CountCall == runs < MaxRuns /\ runs' = runs + 1

-----------------------------------------------------------------------------
(* Entering the coordinator.  The task starts in the step that takes the   *)
(* lock, or that resumes a waiter: execute() runs up to its first await.   *)

\* Bug: the runtime switch is not consulted.
CaptureSigningOnly == signing

\* A review's task starts: execute() captures tradingEnabled.
CaptureTrading == signing /\ ~paused
BeginTask(c, first) ==
    /\ Goto(c, first)
    /\ trading' = [trading EXCEPT ![c] = c \in Reviews /\ CaptureTrading]
    /\ startedPaused' = [startedPaused EXCEPT ![c] = paused]

StayOut(c, s) == Goto(c, s) /\ UNCHANGED <<trading, startedPaused>>

RunExclusive(c, first) ==
    \/ Lock!Acquire(c) /\ BeginTask(c, first)
    \/ c \in CanWait /\ Lock!Enqueue(c) /\ StayOut(c, "waiting")
    \/ c \notin CanWait /\ Lock!Reject(c) /\ StayOut(c, "refused")

ResumeTask(c) ==
    /\ step[c] = "waiting"
    /\ Lock!Resume(c)
    /\ BeginTask(c, IF c \in Reviews THEN "planning" ELSE "snapshot")
    /\ UNCHANGED <<signing, paused, reviewRunning, accountingRunning, todo,
                   confirmed, wave, books>>

\* Bug: the service goes on without waiting for the task to settle.
ReleaseTooEarly(c, s) ==
    /\ Goto(c, s)
    /\ UNCHANGED <<coordination, trading, confirmed, wave, startedPaused>>

\* The task's promise settles: the lock moves on and the task's locals are gone.
Release(c, s) ==
    /\ Lock!Settle(c)
    /\ Goto(c, s)
    /\ trading' = [trading EXCEPT ![c] = FALSE]
    /\ confirmed' = [confirmed EXCEPT ![c] = FALSE]
    /\ wave' = [wave EXCEPT ![c] = 0]
    /\ startedPaused' = [startedPaused EXCEPT ![c] = FALSE]

LeaveLock(c) ==
    IF step[c] = "refused" THEN Lock!LearnOfRefusal(c) ELSE UNCHANGED coordination

-----------------------------------------------------------------------------
(* TreasuryReviewService.                                                  *)

\* run() refuses a second call while one is in progress or still waiting.
CallReview(c) ==
    /\ step[c] = "idle"
    /\ CountCall
    /\ IF reviewRunning
       THEN UNCHANGED <<coordination, reviewRunning, step, trading, startedPaused>>
       ELSE /\ reviewRunning' = TRUE
            /\ RunExclusive(c, "planning")
    /\ UNCHANGED <<signing, paused, accountingRunning, todo, confirmed, wave,
                   result, latestAccounting>>

\* The agent answered and the plan was judged.  Only an approved plan of a
\* trading run is executed; every other end (no plan, agent or ordering error,
\* blocked, dry run, nothing to do) goes straight to the notification.
PlanReview(c) ==
    /\ step[c] = "planning"
    /\ \/ Goto(c, "publishing") /\ UNCHANGED <<todo, confirmed>>
       \/ /\ trading[c]
          /\ \E n \in 1..MaxActions : todo' = [todo EXCEPT ![c] = n]
          /\ confirmed' = [confirmed EXCEPT ![c] = FALSE]
          /\ Goto(c, "executing")
    /\ UNCHANGED <<coordination, signing, paused, reviewRunning,
                   accountingRunning, trading, wave, books, startedPaused>>

\* executeAction (and the batch and compose calls) sign and submit, and never
\* throw: an error is a failed outcome and the loop goes on.
Submit(c) ==
    /\ step[c] = "executing"
    /\ todo[c] > 0
    /\ todo' = [todo EXCEPT ![c] = @ - 1]
    /\ \E ok \in BOOLEAN : confirmed' = [confirmed EXCEPT ![c] = @ \/ ok]
    /\ UNCHANGED <<coordination, signing, paused, reviewRunning,
                   accountingRunning, step, trading, wave, books, startedPaused>>

EndExecution(c) ==
    /\ c \in Reviews /\ step[c] = "executing" /\ todo[c] = 0
    /\ Goto(c, IF confirmed[c] THEN "reconciling" ELSE "publishing")
    /\ UNCHANGED <<coordination, signing, paused, reviewRunning,
                   accountingRunning, work, books, startedPaused>>

\* The portfolio is read again, the digest is sent, the run becomes the latest
\* one: none of these can fail the run.
Conclude(c) ==
    /\ \/ step[c] = "reconciling" /\ Goto(c, "publishing")
       \/ step[c] = "publishing" /\ Goto(c, "recording")
    /\ UNCHANGED <<coordination, signing, paused, reviewRunning,
                   accountingRunning, work, books, startedPaused>>

\* reviewStore.putLatest came back: the task returns and the lock moves on.
RecordReview(c) ==
    /\ step[c] = "recording"
    /\ Release(c, "released")
    /\ UNCHANGED <<signing, paused, reviewRunning, accountingRunning, todo, books>>

\* Bug: the flag is reset after a run but not after a refusal.
ReturnReviewKeepsFlag(c) ==
    /\ c \in Reviews /\ step[c] \in {"refused", "released"}
    /\ reviewRunning' = (step[c] = "refused")
    /\ Goto(c, "idle") /\ LeaveLock(c)
    /\ UNCHANGED <<signing, paused, accountingRunning, work, books, startedPaused>>

\* run()'s own finally, after the coordinator's.
ReturnReview(c) ==
    /\ c \in Reviews /\ step[c] \in {"refused", "released"}
    /\ reviewRunning' = FALSE
    /\ Goto(c, "idle") /\ LeaveLock(c)
    /\ UNCHANGED <<signing, paused, accountingRunning, work,
                   books, startedPaused>>

-----------------------------------------------------------------------------
(* AccountingService.                                                      *)

\* run() refuses a second call while one is in progress or still waiting.
CallAccounting(c) ==
    /\ step[c] = "idle"
    /\ CountCall
    /\ IF accountingRunning
       THEN UNCHANGED <<coordination, accountingRunning, step, trading, startedPaused>>
       ELSE /\ accountingRunning' = TRUE
            /\ RunExclusive(c, "snapshot")
    /\ UNCHANGED <<signing, paused, reviewRunning, todo, confirmed, wave,
                   result, latestAccounting>>

\* execute(): a summary, or an error that run() turns into a failed result.
TakeSnapshot(c) ==
    /\ step[c] = "snapshot"
    /\ \E s \in {"completed", "failed"} : result' = [result EXCEPT ![c] = s]
    /\ Release(c, "released")
    /\ UNCHANGED <<signing, paused, reviewRunning, accountingRunning, todo,
                   runs, latestAccounting>>

\* run()'s finally: the flag comes down before the digest is sent.  A busy
\* coordinator is not an error here but a result of its own.
FinishAccounting(c) ==
    /\ c \in Accountings /\ step[c] \in {"refused", "released"}
    /\ accountingRunning' = FALSE
    /\ result' = [result EXCEPT ![c] = IF step[c] = "refused" THEN "busy" ELSE @]
    /\ Goto(c, "notifying") /\ LeaveLock(c)
    /\ UNCHANGED <<signing, paused, reviewRunning, work, runs,
                   latestAccounting, startedPaused>>

\* The digest was sent, or failed: the result becomes the latest and is returned.
PublishAccounting(c) ==
    /\ step[c] = "notifying"
    /\ latestAccounting' = result[c]
    /\ Goto(c, "idle")
    /\ result' = [result EXCEPT ![c] = "none"]
    /\ UNCHANGED <<coordination, signing, paused, reviewRunning,
                   accountingRunning, work, runs, startedPaused>>

-----------------------------------------------------------------------------
(* DeterministicUnwindService, always called in mode "fail".               *)

\* Paused, without signing or with the coordinator busy it throws at once;
\* otherwise the lock is free and is taken in the same step.
CallUnwind(c) ==
    /\ step[c] = "idle"
    /\ CountCall
    /\ IF paused \/ ~signing \/ locked
       THEN UNCHANGED <<coordination, step, trading, wave, startedPaused>>
       ELSE /\ Lock!Acquire(c)
            /\ BeginTask(c, "reading")
            /\ wave' = [wave EXCEPT ![c] = 1]
    /\ UNCHANGED <<signing, paused, reviewRunning, accountingRunning, todo,
                   confirmed, result, latestAccounting>>

\* The run ends: its promise settles and the lock moves on.
EndUnwind(c) ==
    /\ Release(c, "idle")
    /\ UNCHANGED todo

\* The portfolio was read and the wave planned: flat, stuck, blocked by the
\* policy or failed ends the run; otherwise there are actions to execute.
PlanWave(c) ==
    /\ step[c] = "reading"
    /\ \/ EndUnwind(c)
       \/ /\ \E n \in 1..MaxActions : todo' = [todo EXCEPT ![c] = n]
          /\ confirmed' = [confirmed EXCEPT ![c] = FALSE]
          /\ Goto(c, "executing")
          /\ UNCHANGED <<coordination, trading, wave, startedPaused>>
    /\ UNCHANGED <<signing, paused, reviewRunning, accountingRunning, books>>

\* Bug: the loop runs until the portfolio is flat, without a bound.
EndWaveUnbounded(c) ==
    /\ c \in Unwinds /\ step[c] = "executing" /\ todo[c] = 0
    /\ Goto(c, "reading")
    /\ UNCHANGED <<coordination, trading, wave, todo, confirmed, startedPaused,
                   signing, paused, reviewRunning, accountingRunning, books>>

\* After a wave: a wave without a confirmation may have ended the run as
\* stuck (if something failed), the last wave always ends it.
EndWave(c) ==
    /\ c \in Unwinds /\ step[c] = "executing" /\ todo[c] = 0
    /\ \/ /\ ~confirmed[c] \/ wave[c] = MaxWaves
          /\ EndUnwind(c)
       \/ /\ wave[c] < MaxWaves
          /\ wave' = [wave EXCEPT ![c] = @ + 1]
          /\ Goto(c, "reading")
          /\ UNCHANGED <<coordination, trading, todo, confirmed, startedPaused>>
    /\ UNCHANGED <<signing, paused, reviewRunning, accountingRunning, books>>

-----------------------------------------------------------------------------
\* /pause and /resume change the switch in memory at once.
SetPaused(p) ==
    /\ paused # p
    /\ paused' = p
    /\ UNCHANGED <<coordination, signing, reviewRunning, accountingRunning,
                   step, work, books, startedPaused>>

CallSteps(c) ==
    \/ c \in Reviews /\ CallReview(c)
    \/ c \in Accountings /\ CallAccounting(c)
    \/ c \in Unwinds /\ CallUnwind(c)

TaskStep(c) ==
    \/ ResumeTask(c)
    \/ PlanReview(c) \/ Submit(c) \/ EndExecution(c) \/ Conclude(c)
    \/ RecordReview(c) \/ ReturnReview(c)
    \/ TakeSnapshot(c) \/ FinishAccounting(c) \/ PublishAccounting(c)
    \/ PlanWave(c) \/ EndWave(c)

Next ==
    \/ \E c \in Calls : CallSteps(c) \/ TaskStep(c)
    \/ \E p \in BOOLEAN : SetPaused(p)

\* A started call goes on: its awaits are answered or time out.  Nobody has
\* to call anything, and nobody has to pause or resume.
Fairness == \A c \in Calls : WF_vars(TaskStep(c))

SafeSpec == Init /\ [][Next]_vars
Spec == SafeSpec /\ Fairness

-----------------------------------------------------------------------------
(* Properties.                                                             *)

TypeOK ==
    /\ Lock!TypeOK
    /\ {signing, paused, reviewRunning, accountingRunning} \subseteq BOOLEAN
    /\ step \in [Calls -> Steps]
    /\ trading \in [Calls -> BOOLEAN] /\ confirmed \in [Calls -> BOOLEAN]
    /\ startedPaused \in [Calls -> BOOLEAN]
    /\ todo \in [Calls -> 0..MaxActions] /\ wave \in [Calls -> 0..MaxWaves]
    /\ runs \in 0..MaxRuns
    /\ result \in [Accountings -> Statuses]
    /\ latestAccounting \in Statuses

InProgress(S) == {c \in S : step[c] \notin {"idle", "notifying"}}

\* Each service's running flag is up exactly while one call of it is under way,
\* also while that call only waits for the lock; no path leaves it stuck.
FlagsMatchCalls ==
    /\ Cardinality(InProgress(Reviews)) = (IF reviewRunning THEN 1 ELSE 0)
    /\ Cardinality(InProgress(Accountings)) = (IF accountingRunning THEN 1 ELSE 0)

\* A call is in its task exactly while the coordinator has it running, so
\* reads, plans, trades and bookkeeping of different runs never interleave.
TaskInsideLock == \A c \in Calls : step[c] \in TaskSteps <=> pc[c] = "running"

\* A task that began while trading was paused never signs anything, even if
\* its call was made before /pause and it only waited for the lock, and even
\* if /resume arrives while it runs; nor does any without the signing flag.
NoTradingIfStartedPaused ==
    \A c \in Calls : step[c] = "executing" => signing /\ ~startedPaused[c]

\* Every call is answered, so no service stays blocked for ever.
EveryCallAnswered == \A c \in Calls : step[c] # "idle" ~> step[c] = "idle"

\* README.md:545 says /pause holds trading.
PauseHoldsTrading == [][\A c \in Calls : Submit(c) => ~paused]_vars

\* app.ts:405 tells the reader that no accounting snapshot has completed yet
\* when the latest run has no summary: once one was shown, one stays shown.
SnapshotStaysVisible ==
    [][latestAccounting = "completed" =>
           latestAccounting' = "completed"]_vars
=============================================================================
