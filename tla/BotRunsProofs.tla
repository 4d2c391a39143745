--------------------------- MODULE BotRunsProofs ----------------------------
(* Machine-checked proofs about BotRuns: any number of reviews, accountings  *)
(* and unwinds, any plans, and /pause and /resume at any time.               *)
EXTENDS BotRuns, FiniteSetTheorems, TLAPS

LockProofs == INSTANCE RunCoordinatorProofs WITH Callers <- Calls

-----------------------------------------------------------------------------
(* The coordinator.                                                        *)

LEMMA StepUsesLock == [Next]_vars => [Lock!Next]_(Lock!vars)
<1> SUFFICES ASSUME [Next]_vars PROVE [Lock!Next]_(Lock!vars)
  OBVIOUS
<1>1. UNCHANGED coordination => UNCHANGED Lock!vars
  BY DEF coordination, Lock!vars
<1>2. ASSUME NEW c \in Calls,
             \/ Lock!Acquire(c) \/ Lock!Reject(c) \/ Lock!LearnOfRefusal(c)
             \/ Lock!Enqueue(c) \/ Lock!Resume(c) \/ Lock!Settle(c)
      PROVE  Lock!Next
  BY <1>2 DEF Lock!Next
<1>3. ASSUME NEW c \in Calls, CallSteps(c)
      PROVE  UNCHANGED coordination \/ Lock!Next
  BY <1>2, <1>3 DEF CallSteps, CallReview, CallAccounting, CallUnwind, RunExclusive
<1>4. ASSUME NEW c \in Calls, TaskStep(c)
      PROVE  UNCHANGED coordination \/ Lock!Next
  BY <1>2, <1>4 DEF TaskStep, ResumeTask, PlanReview, Submit, EndExecution, Conclude,
       RecordReview, ReturnReview, TakeSnapshot, FinishAccounting, PublishAccounting,
       PlanWave, EndWave, EndUnwind, Release, LeaveLock
<1>5. CASE UNCHANGED vars
  BY <1>1, <1>5 DEF vars
<1>6. ASSUME NEW p, SetPaused(p) PROVE UNCHANGED coordination
  BY <1>6 DEF SetPaused
<1>7. QED
  BY <1>1, <1>3, <1>4, <1>5, <1>6 DEF Next

LEMMA SameLock ==
  /\ Lock!Init <=> LockProofs!Init
  /\ [Lock!Next]_(Lock!vars) <=> [LockProofs!Next]_(LockProofs!vars)
  /\ Lock!IInv <=> LockProofs!IInv
<1>1. Lock!Init <=> LockProofs!Init
  BY DEF Lock!Init, LockProofs!Init
<1>2. Lock!vars = LockProofs!vars /\ (UNCHANGED Lock!vars <=> UNCHANGED LockProofs!vars)
  BY DEF Lock!vars, LockProofs!vars
<1>3. Lock!Next <=> LockProofs!Next
  BY DEF Lock!Next, Lock!Acquire, Lock!Reject, Lock!LearnOfRefusal, Lock!Enqueue,
         Lock!Resume, Lock!Settle, Lock!HandOver, Lock!Open,
         LockProofs!Next, LockProofs!Acquire, LockProofs!Reject,
         LockProofs!LearnOfRefusal, LockProofs!Enqueue, LockProofs!Resume,
         LockProofs!Settle, LockProofs!HandOver, LockProofs!Open
<1>4. Lock!IInv <=> LockProofs!IInv
  BY DEF Lock!IInv, Lock!TypeOK, Lock!PCs, Lock!MutualExclusion, Lock!LockedIffHeld, Lock!Holds,
         Lock!QueueIsExact, Lock!Queued, Lock!NobodyWaitsAtOpenLock,
         LockProofs!IInv, LockProofs!TypeOK, LockProofs!PCs, LockProofs!MutualExclusion,
         LockProofs!LockedIffHeld, LockProofs!Holds, LockProofs!QueueIsExact,
         LockProofs!Queued, LockProofs!NobodyWaitsAtOpenLock
<1>5. QED
  BY <1>1, <1>2, <1>3, <1>4

LEMMA LockInv == SafeSpec => []Lock!IInv
<1>1. Init => Lock!IInv
  BY SameLock, LockProofs!InitHasIInv DEF Init
<1>2. Lock!IInv /\ [Next]_vars => Lock!IInv'
  <2> SUFFICES ASSUME Lock!IInv, [Next]_vars PROVE Lock!IInv'
    OBVIOUS
  <2>1. LockProofs!IInv'
    BY SameLock, StepUsesLock, LockProofs!StepKeepsIInv
  <2>2. LockProofs!IInv' => Lock!IInv'
    BY DEF Lock!IInv, Lock!TypeOK, Lock!PCs, Lock!MutualExclusion, Lock!LockedIffHeld, Lock!Holds,
           Lock!QueueIsExact, Lock!Queued, Lock!NobodyWaitsAtOpenLock,
           LockProofs!IInv, LockProofs!TypeOK, LockProofs!PCs, LockProofs!MutualExclusion,
           LockProofs!LockedIffHeld, LockProofs!Holds, LockProofs!QueueIsExact,
           LockProofs!Queued, LockProofs!NobodyWaitsAtOpenLock
  <2>3. QED
    BY <2>1, <2>2
<1>3. QED
  BY <1>1, <1>2, PTL DEF SafeSpec

-----------------------------------------------------------------------------
(* The invariant.                                                          *)

\* Where a call is in its service and where it is in the coordinator.
Match(s, p) ==
    \/ s \in {"idle", "released", "notifying"} /\ p = "outside"
    \/ s = "refused" /\ p = "refused"
    \/ s = "waiting" /\ p \in {"queued", "granted"}
    \/ s \in TaskSteps /\ p = "running"

StepsOf(c) ==
    IF c \in Reviews
    THEN {"idle", "waiting", "refused", "planning", "executing", "reconciling",
          "publishing", "recording", "released"}
    ELSE IF c \in Accountings
    THEN {"idle", "waiting", "refused", "snapshot", "released", "notifying"}
    ELSE {"idle", "reading", "executing"}

StepsInv ==
    /\ signing \in BOOLEAN /\ paused \in BOOLEAN
    /\ DOMAIN step = Calls /\ DOMAIN trading = Calls /\ DOMAIN startedPaused = Calls
    /\ \A c \in Calls : step[c] \in StepsOf(c) /\ Match(step[c], pc[c])

Up(f, c) == f[c] \notin {"idle", "notifying"}

\* The flag of the calls S is up for the one of them that is under way.
Flagged(flag, S, f) ==
    /\ flag \in BOOLEAN
    /\ flag => \E c \in S : Up(f, c)
    /\ \A c \in S : Up(f, c) => flag
    /\ \A c, d \in S : Up(f, c) /\ Up(f, d) => c = d

FlagsInv ==
    /\ Flagged(reviewRunning, Reviews, step)
    /\ Flagged(accountingRunning, Accountings, step)

\* A call that may trade began while trading was on.
MayTrade(c) ==
    \/ trading[c] = TRUE
    \/ c \in Unwinds /\ step[c] \in {"reading", "executing"}

TradeInv ==
    \A c \in Calls :
      /\ MayTrade(c) => signing /\ ~startedPaused[c]
      /\ c \in Reviews /\ step[c] = "executing" => trading[c] = TRUE

RunsInv == StepsInv /\ FlagsInv /\ TradeInv

-----------------------------------------------------------------------------
(* One step.                                                               *)

LEMMA KindsDiffer ==
  \A c \in Calls : /\ c \in Reviews => c \notin Accountings /\ c \notin Unwinds
                   /\ c \in Accountings => c \notin Reviews /\ c \notin Unwinds
                   /\ c \in Unwinds => c \notin Reviews /\ c \notin Accountings
                   /\ c \in Reviews \/ c \in Accountings \/ c \in Unwinds
  BY CallsAssumption DEF Calls

\* What a step of the coordinator does to the caller c, and to nobody else but a
\* waiter that it wakes.
Turns(c, p) ==
    /\ pc'[c] = p
    /\ \A d \in Calls \ {c} : pc'[d] = pc[d] \/ (pc[d] = "queued" /\ pc'[d] = "granted")

LEMMA LockTurns ==
  ASSUME Lock!IInv, NEW c \in Calls
  PROVE  /\ Lock!Acquire(c) => Turns(c, "running")
         /\ Lock!Reject(c) => Turns(c, "refused")
         /\ Lock!LearnOfRefusal(c) => Turns(c, "outside")
         /\ Lock!Enqueue(c) => Turns(c, "queued")
         /\ Lock!Resume(c) => Turns(c, "running")
         /\ Lock!Settle(c) => Turns(c, "outside")
<1>1. DOMAIN pc = Calls
  BY DEF Lock!IInv, Lock!TypeOK
<1>2. /\ Lock!Acquire(c) => Turns(c, "running")
      /\ Lock!Reject(c) => Turns(c, "refused")
      /\ Lock!LearnOfRefusal(c) => Turns(c, "outside")
      /\ Lock!Enqueue(c) => Turns(c, "queued")
      /\ Lock!Resume(c) => Turns(c, "running")
  BY <1>1 DEF Turns, Lock!Acquire, Lock!Reject, Lock!LearnOfRefusal, Lock!Enqueue, Lock!Resume
<1>3. ASSUME Lock!Settle(c) PROVE Turns(c, "outside")
  <2>1. CASE Lock!Open(c)
    BY <1>1, <2>1 DEF Turns, Lock!Open
  <2>2. CASE Lock!HandOver(c)
    <3> DEFINE h == Head(waiters)
    <3>1. waiters \in Seq(Calls) /\ waiters # <<>>
      BY <2>2 DEF Lock!HandOver, Lock!IInv, Lock!TypeOK
    <3>2. 1 \in DOMAIN waiters /\ h = waiters[1]
      BY <3>1
    <3>3. h \in Calls /\ pc[h] = "queued"
      BY <3>2 DEF Lock!IInv, Lock!QueueIsExact, Lock!Queued
    <3>4. pc[c] = "running"
      BY <1>3 DEF Lock!Settle
    <3>5. pc' = [pc EXCEPT ![c] = "outside", ![h] = "granted"]
      BY <2>2 DEF Lock!HandOver
    <3> HIDE DEF h
    <3>6. h # c
      BY <3>3, <3>4
    <3>7. QED
      BY <1>1, <3>3, <3>5, <3>6 DEF Turns
  <2>3. QED
    BY <1>3, <2>1, <2>2 DEF Lock!Settle
<1>4. QED
  BY <1>2, <1>3

\* A call goes to s, and is then where s says in the coordinator.
LEMMA GotoKeepsSteps ==
  ASSUME StepsInv, NEW c \in Calls, NEW s, Goto(c, s), s \in StepsOf(c),
         DOMAIN trading' = Calls, DOMAIN startedPaused' = Calls,
         UNCHANGED <<signing, paused>>,
         \/ pc' = pc /\ Match(s, pc[c])
         \/ \E p : Turns(c, p) /\ Match(s, p)
  PROVE  StepsInv'
<1>1. step' = [d \in Calls |-> IF d = c THEN s ELSE step[d]]
  BY DEF Goto, StepsInv
<1>2. Match(step'[c], pc'[c])
  BY <1>1 DEF Turns
<1>3. ASSUME NEW d \in Calls, d # c PROVE Match(step'[d], pc'[d])
  <2>1. step'[d] = step[d] /\ Match(step[d], pc[d])
    BY <1>1, <1>3 DEF StepsInv
  <2>2. pc'[d] = pc[d] \/ (pc[d] = "queued" /\ pc'[d] = "granted")
    BY <1>3 DEF Turns
  <2>3. QED
    BY <2>1, <2>2 DEF Match, TaskSteps
<1>4. \A d \in Calls : step'[d] \in StepsOf(d)
  BY <1>1 DEF StepsInv
<1>5. QED
  BY <1>1, <1>2, <1>3, <1>4 DEF StepsInv, StepsOf

LEMMA FlagKeeps ==
  ASSUME NEW S, NEW f, NEW flag, Flagged(flag, S, f), NEW g, NEW flag1, NEW c,
         \A d \in S : d # c => g[d] = f[d],
         \/ c \notin S /\ flag1 = flag
         \/ c \in S /\ (Up(f, c) <=> Up(g, c)) /\ flag1 = flag
         \/ c \in S /\ flag = FALSE /\ Up(g, c) /\ flag1 = TRUE
         \/ c \in S /\ Up(f, c) /\ ~Up(g, c) /\ flag1 = FALSE
  PROVE  Flagged(flag1, S, g)
<1>1. \A d \in S : d # c => (Up(g, d) <=> Up(f, d))
  BY DEF Up
<1> DEFINE U(d) == Up(f, d)
           V(d) == Up(g, d)
<1>2. /\ \A d \in S : d # c => (V(d) <=> U(d))
      /\ flag \in BOOLEAN
      /\ flag => \E d \in S : U(d)
      /\ \A d \in S : U(d) => flag
      /\ \A d, e \in S : U(d) /\ U(e) => d = e
  BY <1>1 DEF Flagged
<1>3. \/ c \notin S /\ flag1 = flag
      \/ c \in S /\ (U(c) <=> V(c)) /\ flag1 = flag
      \/ c \in S /\ flag = FALSE /\ V(c) /\ flag1 = TRUE
      \/ c \in S /\ U(c) /\ ~V(c) /\ flag1 = FALSE
  OBVIOUS
<1> HIDE DEF U, V
<1>4. /\ flag1 \in BOOLEAN
      /\ flag1 => \E d \in S : V(d)
      /\ \A d \in S : V(d) => flag1
      /\ \A d, e \in S : V(d) /\ V(e) => d = e
  <2>1. CASE c \notin S /\ flag1 = flag
    BY <1>2, <2>1
  <2>2. CASE c \in S /\ (U(c) <=> V(c)) /\ flag1 = flag
    <3>1. \A d \in S : V(d) <=> U(d)
      BY <1>2, <2>2
    <3>2. QED
      BY <1>2, <2>2, <3>1
  <2>3. CASE c \in S /\ flag = FALSE /\ V(c) /\ flag1 = TRUE
    <3>1. \A d \in S : d # c => ~V(d)
      BY <1>2, <2>3
    <3>2. QED
      BY <2>3, <3>1
  <2>4. CASE c \in S /\ U(c) /\ ~V(c) /\ flag1 = FALSE
    <3>1. \A d \in S : ~V(d)
      BY <1>2, <2>4
    <3>2. QED
      BY <2>4, <3>1
  <2>5. QED
    BY <1>3, <2>1, <2>2, <2>3, <2>4
<1>5. QED
  BY <1>4 DEF Flagged, V

\* Nothing that matters for trading changes but where the call is.
LEMMA TradeKeeps ==
  ASSUME StepsInv, TradeInv, NEW c \in Calls, NEW s, Goto(c, s),
         UNCHANGED <<trading, startedPaused, signing>>,
         c \in Reviews /\ s = "executing" => trading[c] = TRUE,
         c \in Unwinds /\ s \in {"reading", "executing"} =>
             step[c] \in {"reading", "executing"}
  PROVE  TradeInv'
<1>1. step' = [d \in Calls |-> IF d = c THEN s ELSE step[d]]
  BY DEF Goto, StepsInv
<1>2. ASSUME NEW d \in Calls
      PROVE  /\ MayTrade(d)' => signing /\ ~startedPaused'[d]
             /\ d \in Reviews /\ step'[d] = "executing" => trading'[d] = TRUE
  <2>1. CASE d = c
    <3>1. step'[d] = s /\ trading' = trading /\ startedPaused' = startedPaused
      BY <1>1, <2>1
    <3>2. QED
      BY <2>1, <3>1 DEF TradeInv, MayTrade
  <2>2. CASE d # c
    <3>1. step'[d] = step[d] /\ trading' = trading /\ startedPaused' = startedPaused
      BY <1>1, <2>2
    <3>2. QED
      BY <3>1 DEF TradeInv, MayTrade
  <2>3. QED
    BY <2>1, <2>2
<1>3. QED
  BY <1>2 DEF TradeInv

\* A task begins, and captures the switch.
LEMMA BeginKeeps ==
  ASSUME StepsInv, TradeInv, NEW c \in Calls, NEW s, BeginTask(c, s), UNCHANGED signing,
         s # "executing",
         c \in Unwinds => signing /\ ~paused
  PROVE  /\ TradeInv' /\ Goto(c, s)
         /\ DOMAIN trading' = Calls /\ DOMAIN startedPaused' = Calls
<1>1. /\ step' = [d \in Calls |-> IF d = c THEN s ELSE step[d]]
      /\ trading' = [d \in Calls |-> IF d = c THEN c \in Reviews /\ CaptureTrading
                                       ELSE trading[d]]
      /\ startedPaused' = [d \in Calls |-> IF d = c THEN paused ELSE startedPaused[d]]
      /\ Goto(c, s)
  BY DEF BeginTask, Goto, StepsInv
<1>0. paused \in BOOLEAN /\ signing \in BOOLEAN
  BY DEF StepsInv
<1>2. ASSUME NEW d \in Calls, d # c
      PROVE  /\ step'[d] = step[d] /\ trading'[d] = trading[d]
             /\ startedPaused'[d] = startedPaused[d]
  BY <1>1, <1>2
<1>3. /\ step'[c] = s /\ startedPaused'[c] = paused
      /\ trading'[c] = (c \in Reviews /\ CaptureTrading)
  BY <1>1
<1>4. ASSUME NEW d \in Calls
      PROVE  /\ MayTrade(d)' => signing /\ ~startedPaused'[d]
             /\ d \in Reviews /\ step'[d] = "executing" => trading'[d] = TRUE
  <2>1. CASE d = c
    BY <1>0, <1>3, <2>1 DEF MayTrade, CaptureTrading
  <2>2. CASE d # c
    BY <1>2, <2>2 DEF TradeInv, MayTrade
  <2>3. QED
    BY <2>1, <2>2
<1>5. QED
  BY <1>1, <1>4 DEF TradeInv

\* A task ends, and its locals are gone.
LEMMA ReleaseKeeps ==
  ASSUME StepsInv, TradeInv, Lock!IInv, NEW c \in Calls, NEW s, Release(c, s),
         s \in {"released", "idle"}, s \in StepsOf(c), UNCHANGED <<signing, paused>>
  PROVE  TradeInv' /\ StepsInv' /\ Goto(c, s)
<1>1. /\ step' = [d \in Calls |-> IF d = c THEN s ELSE step[d]]
      /\ trading' = [d \in Calls |-> IF d = c THEN FALSE ELSE trading[d]]
      /\ startedPaused' = [d \in Calls |-> IF d = c THEN FALSE ELSE startedPaused[d]]
      /\ Goto(c, s) /\ Lock!Settle(c)
  BY DEF Release, Goto, StepsInv
<1>2. Turns(c, "outside") /\ Match(s, "outside")
  BY <1>1, LockTurns DEF Match
<1>3. StepsInv'
  BY <1>1, <1>2, GotoKeepsSteps
<1>4. TradeInv'
  BY <1>1 DEF TradeInv, MayTrade
<1>5. QED
  BY <1>1, <1>3, <1>4

LEMMA GotoIs ==
  ASSUME StepsInv, NEW c \in Calls, NEW s, Goto(c, s)
  PROVE  step'[c] = s /\ \A d \in Calls : d # c => step'[d] = step[d]
  BY DEF Goto, StepsInv

\* The flags of the services, after c went from one step to another.
LEMMA FlagsKeep ==
  ASSUME StepsInv, FlagsInv, NEW c \in Calls, NEW s, Goto(c, s),
         LET up == step[c] \notin {"idle", "notifying"}
             up1 == s \notin {"idle", "notifying"}
             Moved(flag, flag1) == \/ (up <=> up1) /\ flag1 = flag
                                   \/ flag = FALSE /\ up1 /\ flag1 = TRUE
                                   \/ up /\ ~up1 /\ flag1 = FALSE
         IN  /\ IF c \in Reviews THEN Moved(reviewRunning, reviewRunning')
                                 ELSE reviewRunning' = reviewRunning
             /\ IF c \in Accountings THEN Moved(accountingRunning, accountingRunning')
                                     ELSE accountingRunning' = accountingRunning
  PROVE  FlagsInv'
<1>1. step'[c] = s /\ \A d \in Calls : d # c => step'[d] = step[d]
  BY GotoIs
<1>2. Reviews \subseteq Calls /\ Accountings \subseteq Calls
  BY DEF Calls
<1>3. (Up(step, c) <=> step[c] \notin {"idle", "notifying"})
      /\ (Up(step', c) <=> s \notin {"idle", "notifying"})
  BY <1>1 DEF Up
<1>4. Flagged(reviewRunning', Reviews, step')
  <2>1. Flagged(reviewRunning, Reviews, step)
    BY DEF FlagsInv
  <2>2. \/ c \notin Reviews /\ reviewRunning' = reviewRunning
        \/ c \in Reviews /\ (Up(step, c) <=> Up(step', c)) /\ reviewRunning' = reviewRunning
        \/ c \in Reviews /\ reviewRunning = FALSE /\ Up(step', c) /\ reviewRunning' = TRUE
        \/ c \in Reviews /\ Up(step, c) /\ ~Up(step', c) /\ reviewRunning' = FALSE
    BY <1>3
  <2>3. \A d \in Reviews : d # c => step'[d] = step[d]
    BY <1>1, <1>2
  <2>4. QED
    BY <2>1, <2>2, <2>3, FlagKeeps
<1>5. Flagged(accountingRunning', Accountings, step')
  <2>1. Flagged(accountingRunning, Accountings, step)
    BY DEF FlagsInv
  <2>2. \/ c \notin Accountings /\ accountingRunning' = accountingRunning
        \/ c \in Accountings /\ (Up(step, c) <=> Up(step', c)) /\ accountingRunning' = accountingRunning
        \/ c \in Accountings /\ accountingRunning = FALSE /\ Up(step', c) /\ accountingRunning' = TRUE
        \/ c \in Accountings /\ Up(step, c) /\ ~Up(step', c) /\ accountingRunning' = FALSE
    BY <1>3
  <2>3. \A d \in Accountings : d # c => step'[d] = step[d]
    BY <1>1, <1>2
  <2>4. QED
    BY <2>1, <2>2, <2>3, FlagKeeps
<1>6. QED
  BY <1>4, <1>5 DEF FlagsInv, Flagged, Up

LEMMA RunExclusiveKeeps ==
  ASSUME StepsInv, TradeInv, Lock!IInv, NEW c \in Calls, step[c] = "idle",
         NEW first \in {"planning", "snapshot"}, first \in StepsOf(c), c \notin Unwinds,
         RunExclusive(c, first), UNCHANGED <<signing, paused>>
  PROVE  /\ StepsInv' /\ TradeInv'
         /\ \E s : Goto(c, s) /\ s \notin {"idle", "notifying"}
<1>1. c \in Reviews \/ c \in Accountings
  BY DEF Calls
<1>2. CASE Lock!Acquire(c) /\ BeginTask(c, first)
  <2>1. TradeInv' /\ Goto(c, first) /\ DOMAIN trading' = Calls /\ DOMAIN startedPaused' = Calls
    BY <1>2, BeginKeeps
  <2>2. Turns(c, "running") /\ Match(first, "running")
    BY <1>2, LockTurns DEF Match, TaskSteps
  <2>3. StepsInv'
    BY <2>1, <2>2, GotoKeepsSteps
  <2>4. QED
    BY <2>1, <2>3
<1>3. ASSUME NEW s \in {"waiting", "refused"}, StayOut(c, s),
             NEW p, Turns(c, p), Match(s, p)
      PROVE  StepsInv' /\ TradeInv' /\ Goto(c, s)
  <2>1. Goto(c, s) /\ UNCHANGED <<trading, startedPaused>>
    BY <1>3 DEF StayOut
  <2>2. s \in StepsOf(c)
    BY <1>1, <1>3 DEF StepsOf
  <2>3. DOMAIN trading' = Calls /\ DOMAIN startedPaused' = Calls
    BY <2>1 DEF StepsInv
  <2>4. StepsInv'
    BY <1>3, <2>1, <2>2, <2>3, GotoKeepsSteps
  <2>5. TradeInv'
    BY <1>3, <2>1, TradeKeeps
  <2>6. QED
    BY <2>1, <2>4, <2>5
<1>4. Match("waiting", "queued") /\ Match("refused", "refused")
  BY DEF Match
<1>5. CASE Lock!Enqueue(c) /\ StayOut(c, "waiting")
  <2>1. Turns(c, "queued")
    BY <1>5, LockTurns
  <2>2. StepsInv' /\ TradeInv' /\ Goto(c, "waiting")
    BY <1>3, <1>4, <1>5, <2>1
  <2>3. QED
    BY <2>2
<1>6. CASE Lock!Reject(c) /\ StayOut(c, "refused")
  <2>1. Turns(c, "refused")
    BY <1>6, LockTurns
  <2>2. StepsInv' /\ TradeInv' /\ Goto(c, "refused")
    BY <1>3, <1>4, <1>6, <2>1
  <2>3. QED
    BY <2>2
<1>7. QED
  BY <1>2, <1>5, <1>6 DEF RunExclusive

LEMMA SameKeeps ==
  ASSUME RunsInv,
         UNCHANGED <<pc, signing, reviewRunning, accountingRunning, step, trading,
                     startedPaused>>,
         paused' \in BOOLEAN
  PROVE  RunsInv'
<1>1. StepsInv'
  BY DEF RunsInv, StepsInv, StepsOf
<1>2. FlagsInv'
  BY DEF RunsInv, FlagsInv, Flagged, Up
<1>3. TradeInv'
  BY DEF RunsInv, TradeInv, MayTrade
<1>4. QED
  BY <1>1, <1>2, <1>3 DEF RunsInv

LEMMA CallReviewKeeps ==
  ASSUME RunsInv, Lock!IInv, NEW c \in Reviews, CallReview(c)
  PROVE  RunsInv'
<1>1. c \in Calls /\ c \notin Accountings /\ c \notin Unwinds
  BY CallsAssumption DEF Calls
<1>2. CASE reviewRunning
  <2>1. UNCHANGED <<pc, signing, paused, reviewRunning, accountingRunning, step, trading,
                    startedPaused>>
    BY <1>2 DEF CallReview, coordination
  <2>2. paused' \in BOOLEAN
    BY <2>1 DEF RunsInv, StepsInv
  <2>3. QED
    BY <2>1, <2>2, SameKeeps
<1>3. CASE ~reviewRunning
  <2>1. /\ RunExclusive(c, "planning") /\ reviewRunning' = TRUE /\ step[c] = "idle"
        /\ UNCHANGED <<signing, paused, accountingRunning>>
    BY <1>3 DEF CallReview
  <2>2. "planning" \in StepsOf(c) /\ StepsInv /\ TradeInv /\ FlagsInv
    BY DEF StepsOf, RunsInv
  <2>3. StepsInv' /\ TradeInv' /\ \E s : Goto(c, s) /\ s \notin {"idle", "notifying"}
    BY <1>1, <2>1, <2>2, RunExclusiveKeeps
  <2>4. PICK s : Goto(c, s) /\ s \notin {"idle", "notifying"}
    BY <2>3
  <2>5. reviewRunning = FALSE
    BY <1>3, <2>2 DEF FlagsInv, Flagged
  <2>6. FlagsInv'
    BY <1>1, <2>1, <2>2, <2>4, <2>5, FlagsKeep
  <2>7. QED
    BY <2>3, <2>6 DEF RunsInv
<1>4. QED
  BY <1>2, <1>3

LEMMA CallAccountingKeeps ==
  ASSUME RunsInv, Lock!IInv, NEW c \in Accountings, CallAccounting(c)
  PROVE  RunsInv'
<1>1. c \in Calls /\ c \notin Reviews /\ c \notin Unwinds
  BY CallsAssumption DEF Calls
<1>2. CASE accountingRunning
  <2>1. UNCHANGED <<pc, signing, paused, reviewRunning, accountingRunning, step, trading,
                    startedPaused>>
    BY <1>2 DEF CallAccounting, coordination
  <2>2. paused' \in BOOLEAN
    BY <2>1 DEF RunsInv, StepsInv
  <2>3. QED
    BY <2>1, <2>2, SameKeeps
<1>3. CASE ~accountingRunning
  <2>1. /\ RunExclusive(c, "snapshot") /\ accountingRunning' = TRUE /\ step[c] = "idle"
        /\ UNCHANGED <<signing, paused, reviewRunning>>
    BY <1>3 DEF CallAccounting
  <2>2. "snapshot" \in StepsOf(c) /\ StepsInv /\ TradeInv /\ FlagsInv
    BY <1>1 DEF StepsOf, RunsInv
  <2>3. StepsInv' /\ TradeInv' /\ \E s : Goto(c, s) /\ s \notin {"idle", "notifying"}
    BY <1>1, <2>1, <2>2, RunExclusiveKeeps
  <2>4. PICK s : Goto(c, s) /\ s \notin {"idle", "notifying"}
    BY <2>3
  <2>5. accountingRunning = FALSE
    BY <1>3, <2>2 DEF FlagsInv, Flagged
  <2>6. FlagsInv'
    BY <1>1, <2>1, <2>2, <2>4, <2>5, FlagsKeep
  <2>7. QED
    BY <2>3, <2>6 DEF RunsInv
<1>4. QED
  BY <1>2, <1>3

LEMMA CallUnwindKeeps ==
  ASSUME RunsInv, Lock!IInv, NEW c \in Unwinds, CallUnwind(c)
  PROVE  RunsInv'
<1>1. c \in Calls /\ c \notin Reviews /\ c \notin Accountings
  BY CallsAssumption DEF Calls
<1>2. StepsInv /\ TradeInv /\ FlagsInv
  BY DEF RunsInv
<1>3. UNCHANGED <<signing, paused, reviewRunning, accountingRunning>> /\ step[c] = "idle"
  BY DEF CallUnwind
<1>4. CASE paused \/ ~signing \/ locked
  <2>1. UNCHANGED <<pc, step, trading, startedPaused>>
    BY <1>4 DEF CallUnwind, coordination
  <2>2. paused' \in BOOLEAN
    BY <1>2, <1>3 DEF StepsInv
  <2>3. QED
    BY <1>3, <2>1, <2>2, SameKeeps
<1>5. CASE ~(paused \/ ~signing \/ locked)
  <2>1. Lock!Acquire(c) /\ BeginTask(c, "reading") /\ signing /\ ~paused
    BY <1>5 DEF CallUnwind
  <2>2. TradeInv' /\ Goto(c, "reading") /\ DOMAIN trading' = Calls /\ DOMAIN startedPaused' = Calls
    BY <1>1, <1>2, <1>3, <2>1, BeginKeeps
  <2>3. Turns(c, "running") /\ Match("reading", "running") /\ "reading" \in StepsOf(c)
    BY <1>1, <2>1, LockTurns DEF Match, TaskSteps, StepsOf
  <2>4. StepsInv'
    BY <1>1, <1>2, <1>3, <2>2, <2>3, GotoKeepsSteps
  <2>5. FlagsInv'
    BY <1>1, <1>2, <1>3, <2>2, FlagsKeep
  <2>6. QED
    BY <2>2, <2>4, <2>5 DEF RunsInv
<1>6. QED
  BY <1>4, <1>5

LEMMA ResumeKeeps ==
  ASSUME RunsInv, Lock!IInv, NEW c \in Calls, ResumeTask(c)
  PROVE  RunsInv'
<1> DEFINE s == IF c \in Reviews THEN "planning" ELSE "snapshot"
<1>1. StepsInv /\ TradeInv /\ FlagsInv
  BY DEF RunsInv
<1>2. /\ UNCHANGED <<signing, paused, reviewRunning, accountingRunning>>
      /\ step[c] = "waiting" /\ Lock!Resume(c) /\ BeginTask(c, s)
  BY DEF ResumeTask
<1>3. step[c] \in StepsOf(c)
  BY <1>1 DEF StepsInv
<1>4. c \in Reviews \/ c \in Accountings
  BY <1>2, <1>3 DEF StepsOf
<1>5. c \notin Unwinds /\ s \in StepsOf(c) /\ s \in {"planning", "snapshot"}
  BY <1>4, CallsAssumption DEF StepsOf
<1>6. Turns(c, "running") /\ Match(s, "running")
  BY <1>2, <1>5, LockTurns DEF Match, TaskSteps
<1> HIDE DEF s
<1>7. TradeInv' /\ Goto(c, s) /\ DOMAIN trading' = Calls /\ DOMAIN startedPaused' = Calls
  BY <1>1, <1>2, <1>5, BeginKeeps
<1>8. StepsInv'
  BY <1>1, <1>2, <1>5, <1>6, <1>7, GotoKeepsSteps
<1>9. FlagsInv'
  BY <1>1, <1>2, <1>5, <1>7, FlagsKeep
<1>10. QED
  BY <1>7, <1>8, <1>9 DEF RunsInv

\* A step within the task.
LEMMA LocalKeeps ==
  ASSUME RunsInv, NEW c \in Calls, NEW s \in TaskSteps, Goto(c, s), s \in StepsOf(c),
         step[c] \in TaskSteps,
         UNCHANGED <<pc, signing, paused, reviewRunning, accountingRunning, trading,
                     startedPaused>>,
         c \in Reviews /\ s = "executing" => trading[c] = TRUE,
         c \in Unwinds /\ s \in {"reading", "executing"} =>
             step[c] \in {"reading", "executing"}
  PROVE  RunsInv'
<1>1. StepsInv /\ TradeInv /\ FlagsInv
  BY DEF RunsInv
<1>2. Match(step[c], pc[c])
  BY <1>1 DEF StepsInv
<1>3. Match(s, pc[c])
  BY <1>2 DEF Match, TaskSteps
<1>4. DOMAIN trading' = Calls /\ DOMAIN startedPaused' = Calls
  BY <1>1 DEF StepsInv
<1>5. StepsInv'
  BY <1>1, <1>3, <1>4, GotoKeepsSteps
<1>6. TradeInv'
  BY <1>1, TradeKeeps
<1>7. step[c] \notin {"idle", "notifying"} /\ s \notin {"idle", "notifying"}
  BY DEF TaskSteps
<1>8. FlagsInv'
  BY <1>1, <1>7, FlagsKeep
<1>9. QED
  BY <1>5, <1>6, <1>8 DEF RunsInv

LEMMA TaskKeeps ==
  ASSUME RunsInv, NEW c \in Calls,
         \/ PlanReview(c) \/ Submit(c) \/ EndExecution(c) \/ Conclude(c)
         \/ PlanWave(c) /\ ~EndUnwind(c)
         \/ EndWave(c) /\ ~EndUnwind(c)
  PROVE  RunsInv'
<1>1. StepsInv /\ step[c] \in StepsOf(c)
  BY DEF RunsInv, StepsInv
<1>2. /\ UNCHANGED <<pc, signing, paused, reviewRunning, accountingRunning, trading,
                      startedPaused>>
      /\ step[c] \in TaskSteps
  BY DEF PlanReview, Submit, EndExecution, Conclude, PlanWave, EndWave, coordination, work,
         TaskSteps
<1>3. paused' \in BOOLEAN
  BY <1>1, <1>2 DEF StepsInv
<1>4. CASE Submit(c)
  <2>1. step' = step
    BY <1>4 DEF Submit
  <2>2. QED
    BY <1>2, <1>3, <2>1, SameKeeps
<1>5. CASE PlanReview(c)
  <2>1. c \in Reviews
    BY <1>1, <1>5 DEF PlanReview, StepsOf
  <2>2. PICK s \in {"publishing", "executing"} :
          Goto(c, s) /\ (s = "executing" => trading[c])
    BY <1>5 DEF PlanReview
  <2>3. s = "executing" => trading[c] = TRUE
    <3>1. CASE s = "executing"
      <4>1. trading[c]
        BY <2>2, <3>1
      <4>2. QED
        BY <1>5, <3>1, <4>1 DEF PlanReview, RunsInv, StepsInv
    <3>2. QED
      BY <3>1
  <2>4. s \in TaskSteps /\ s \in StepsOf(c) /\ c \notin Unwinds
    BY <2>1, CallsAssumption DEF TaskSteps, StepsOf
  <2>5. QED
    BY <1>2, <2>2, <2>3, <2>4, LocalKeeps
<1>6. CASE EndExecution(c) \/ Conclude(c)
  <2>1. PICK s \in {"reconciling", "publishing", "recording"} : Goto(c, s)
    BY <1>6 DEF EndExecution, Conclude
  <2>2. c \in Reviews
    BY <1>1, <1>6 DEF EndExecution, Conclude, StepsOf
  <2>3. s \in TaskSteps /\ s \in StepsOf(c) /\ c \notin Unwinds
    BY <2>2, CallsAssumption DEF TaskSteps, StepsOf
  <2>4. QED
    BY <1>2, <2>1, <2>3, LocalKeeps
<1>7. CASE (PlanWave(c) \/ EndWave(c)) /\ ~EndUnwind(c)
  <2>1. c \in Unwinds
    BY <1>1, <1>7 DEF PlanWave, EndWave, StepsOf, Calls
  <2>2. PICK s \in {"reading", "executing"} : Goto(c, s)
    BY <1>7 DEF PlanWave, EndWave
  <2>3. step[c] \in {"reading", "executing"}
    BY <1>7 DEF PlanWave, EndWave
  <2>4. c \notin Reviews /\ c \notin Accountings
    BY <2>1, CallsAssumption
  <2>5. s \in TaskSteps /\ s \in StepsOf(c)
    BY <2>4 DEF TaskSteps, StepsOf
  <2>6. QED
    BY <1>2, <2>2, <2>3, <2>4, <2>5, LocalKeeps
<1>8. QED
  BY <1>4, <1>5, <1>6, <1>7

\* The task settles.
LEMMA SettleKeeps ==
  ASSUME RunsInv, Lock!IInv, NEW c \in Calls,
         RecordReview(c) \/ TakeSnapshot(c)
         \/ (EndUnwind(c) /\ (PlanWave(c) \/ EndWave(c)))
  PROVE  RunsInv'
<1>1. StepsInv /\ TradeInv /\ FlagsInv /\ step[c] \in StepsOf(c)
  BY DEF RunsInv, StepsInv
<1>2. UNCHANGED <<signing, paused, reviewRunning, accountingRunning>>
  BY DEF RecordReview, TakeSnapshot, PlanWave, EndWave
<1>3. CASE RecordReview(c) \/ TakeSnapshot(c)
  <2>1. Release(c, "released") /\ step[c] \in {"recording", "snapshot"}
    BY <1>3 DEF RecordReview, TakeSnapshot
  <2>2. "released" \in StepsOf(c)
    BY <1>1, <2>1 DEF StepsOf
  <2>3. StepsInv' /\ TradeInv' /\ Goto(c, "released")
    BY <1>1, <1>2, <2>1, <2>2, ReleaseKeeps
  <2>4. FlagsInv'
    BY <1>1, <1>2, <2>1, <2>3, FlagsKeep
  <2>5. QED
    BY <2>3, <2>4 DEF RunsInv
<1>4. CASE EndUnwind(c) /\ (PlanWave(c) \/ EndWave(c))
  <2>1. Release(c, "idle")
    BY <1>4 DEF EndUnwind
  <2>2. c \in Unwinds
    BY <1>1, <1>4 DEF PlanWave, EndWave, StepsOf, Calls
  <2>3. c \notin Reviews /\ c \notin Accountings /\ "idle" \in StepsOf(c)
    BY <2>2, CallsAssumption DEF StepsOf
  <2>4. StepsInv' /\ TradeInv' /\ Goto(c, "idle")
    BY <1>1, <1>2, <2>1, <2>3, ReleaseKeeps
  <2>5. FlagsInv'
    BY <1>1, <1>2, <2>3, <2>4, FlagsKeep
  <2>6. QED
    BY <2>4, <2>5 DEF RunsInv
<1>5. QED
  BY <1>3, <1>4

\* run() of the service returns.
LEMMA ReturnKeeps ==
  ASSUME RunsInv, Lock!IInv, NEW c \in Calls,
         ReturnReview(c) \/ FinishAccounting(c) \/ PublishAccounting(c)
  PROVE  RunsInv'
<1>1. StepsInv /\ TradeInv /\ FlagsInv /\ step[c] \in StepsOf(c) /\ Match(step[c], pc[c])
  BY DEF RunsInv, StepsInv
<1>2. UNCHANGED <<signing, paused, trading, startedPaused>>
  BY DEF ReturnReview, FinishAccounting, PublishAccounting, work
<1>3. DOMAIN trading' = Calls /\ DOMAIN startedPaused' = Calls
  BY <1>1, <1>2 DEF StepsInv
<1>4. PICK s \in {"idle", "notifying"} :
        /\ Goto(c, s)
        /\ ReturnReview(c) \/ PublishAccounting(c) => s = "idle"
        /\ FinishAccounting(c) => s = "notifying"
  <2>1. ReturnReview(c) => Goto(c, "idle") /\ step[c] \in {"refused", "released"} /\ c \in Reviews
    BY DEF ReturnReview
  <2>2. FinishAccounting(c) => /\ Goto(c, "notifying") /\ c \in Accountings
                               /\ step[c] \in {"refused", "released"}
    BY DEF FinishAccounting
  <2>3. PublishAccounting(c) => Goto(c, "idle") /\ step[c] = "notifying"
    BY DEF PublishAccounting
  <2>4. c \in Accountings => c \notin Reviews
    BY CallsAssumption
  <2>5. CASE FinishAccounting(c)
    <3>1. ~ReturnReview(c) /\ ~PublishAccounting(c)
      BY <2>1, <2>2, <2>3, <2>4, <2>5
    <3>2. QED
      BY <2>2, <2>5, <3>1
  <2>6. CASE ~FinishAccounting(c)
    BY <2>1, <2>3, <2>6
  <2>7. QED
    BY <2>5, <2>6
<1>5. TradeInv'
  BY <1>1, <1>2, <1>4, TradeKeeps
<1>6. Match(s, "outside")
  BY DEF Match
<1>7. Turns(c, "outside") \/ (pc' = pc /\ pc[c] = "outside")
  <2>1. CASE PublishAccounting(c)
    BY <1>1, <2>1 DEF PublishAccounting, coordination, Match, TaskSteps
  <2>2. CASE LeaveLock(c) /\ step[c] = "refused"
    BY <2>2, LockTurns DEF LeaveLock
  <2>3. CASE LeaveLock(c) /\ step[c] = "released"
    BY <1>1, <2>3 DEF LeaveLock, coordination, Match, TaskSteps
  <2>4. QED
    BY <2>1, <2>2, <2>3 DEF ReturnReview, FinishAccounting
<1>8. s \in StepsOf(c)
  <2>1. FinishAccounting(c) => c \in Accountings /\ c \notin Reviews
    BY CallsAssumption DEF FinishAccounting
  <2>2. QED
    BY <1>4, <2>1 DEF StepsOf
<1>9. StepsInv'
  <2>1. \/ pc' = pc /\ Match(s, pc[c])
        \/ \E p : Turns(c, p) /\ Match(s, p)
    BY <1>6, <1>7
  <2>2. QED
    BY <1>1, <1>2, <1>3, <1>4, <1>8, <2>1, GotoKeepsSteps
<1>10. FlagsInv'
  <2>1. CASE ReturnReview(c)
    <3>1. /\ c \in Reviews /\ step[c] \in {"refused", "released"} /\ s = "idle"
          /\ reviewRunning' = FALSE /\ accountingRunning' = accountingRunning
      BY <1>4, <2>1 DEF ReturnReview
    <3>2. c \notin Accountings
      BY <3>1, CallsAssumption
    <3>3. QED
      BY <1>1, <1>4, <3>1, <3>2, FlagsKeep
  <2>2. CASE FinishAccounting(c)
    <3>1. /\ c \in Accountings /\ step[c] \in {"refused", "released"} /\ s = "notifying"
          /\ accountingRunning' = FALSE /\ reviewRunning' = reviewRunning
      BY <1>4, <2>2 DEF FinishAccounting
    <3>2. c \notin Reviews
      BY <3>1, CallsAssumption
    <3>3. QED
      BY <1>1, <1>4, <3>1, <3>2, FlagsKeep
  <2>3. CASE PublishAccounting(c)
    <3>1. /\ step[c] = "notifying" /\ s = "idle"
          /\ accountingRunning' = accountingRunning /\ reviewRunning' = reviewRunning
      BY <1>4, <2>3 DEF PublishAccounting
    <3>2. QED
      BY <1>1, <1>4, <3>1, FlagsKeep
  <2>4. QED
    BY <2>1, <2>2, <2>3
<1>11. QED
  BY <1>5, <1>9, <1>10 DEF RunsInv

LEMMA RunsInvHolds == SafeSpec => []RunsInv
<1>1. Init => RunsInv
  <2> SUFFICES ASSUME Init PROVE RunsInv
    OBVIOUS
  <2>1. /\ step = [c \in Calls |-> "idle"] /\ trading = [c \in Calls |-> FALSE]
        /\ startedPaused = [c \in Calls |-> FALSE] /\ pc = [c \in Calls |-> "outside"]
        /\ signing \in BOOLEAN /\ paused = FALSE
        /\ reviewRunning = FALSE /\ accountingRunning = FALSE
    BY DEF Init, Lock!Init
  <2>2. StepsInv
    BY <2>1 DEF StepsInv, StepsOf, Match
  <2>3. FlagsInv
    BY <2>1 DEF FlagsInv, Flagged, Up, Calls
  <2>4. TradeInv
    BY <2>1 DEF TradeInv, MayTrade
  <2>5. QED
    BY <2>2, <2>3, <2>4 DEF RunsInv
<1>2. RunsInv /\ Lock!IInv /\ [Next]_vars => RunsInv'
  <2> SUFFICES ASSUME RunsInv, Lock!IInv, [Next]_vars PROVE RunsInv'
    OBVIOUS
  <2>1. CASE UNCHANGED vars
    <3>1. UNCHANGED <<pc, signing, reviewRunning, accountingRunning, step, trading,
                      startedPaused, paused>>
      BY <2>1 DEF vars, coordination, work
    <3>2. paused' \in BOOLEAN
      BY <3>1 DEF RunsInv, StepsInv
    <3>3. QED
      BY <3>1, <3>2, SameKeeps
  <2>2. ASSUME NEW p \in BOOLEAN, SetPaused(p) PROVE RunsInv'
    BY <2>2, SameKeeps DEF SetPaused, coordination, work
  <2>3. ASSUME NEW c \in Calls, CallSteps(c) PROVE RunsInv'
    BY <2>3, CallReviewKeeps, CallAccountingKeeps, CallUnwindKeeps DEF CallSteps
  <2>4. ASSUME NEW c \in Calls, TaskStep(c) PROVE RunsInv'
    BY <2>4, ResumeKeeps, TaskKeeps, SettleKeeps, ReturnKeeps DEF TaskStep
  <2>5. QED
    BY <2>1, <2>2, <2>3, <2>4 DEF Next
<1>3. QED
  BY <1>1, <1>2, LockInv, PTL DEF SafeSpec

-----------------------------------------------------------------------------
(* The theorems.                                                           *)

\* Each service's running flag is up exactly while one call of it is under way
\* (TreasuryReviewService.running, AccountingService.running).
THEOREM FlagsAreTrue == SafeSpec => []FlagsMatchCalls
<1>1. ASSUME NEW S, NEW flag, Flagged(flag, S, step)
      PROVE  Cardinality(InProgress(S)) = (IF flag THEN 1 ELSE 0)
  <2>1. CASE flag
    <3>1. PICK c \in S : Up(step, c)
      BY <1>1, <2>1 DEF Flagged
    <3>2. InProgress(S) = {c}
      BY <1>1, <3>1 DEF InProgress, Flagged, Up
    <3>3. QED
      BY <2>1, <3>2, FS_Singleton
  <2>2. CASE ~flag
    <3>1. InProgress(S) = {}
      BY <1>1, <2>2 DEF InProgress, Flagged, Up
    <3>2. QED
      BY <2>2, <3>1, FS_EmptySet
  <2>3. QED
    BY <2>1, <2>2
<1>2. RunsInv => FlagsMatchCalls
  <2> SUFFICES ASSUME RunsInv PROVE FlagsMatchCalls
    OBVIOUS
  <2>1. Flagged(reviewRunning, Reviews, step) /\ Flagged(accountingRunning, Accountings, step)
    BY DEF RunsInv, FlagsInv
  <2>2. QED
    BY <1>1, <2>1 DEF FlagsMatchCalls
<1>3. QED
  BY <1>2, RunsInvHolds, PTL

\* Reads, plans, trades and bookkeeping of different runs never interleave: a call
\* is in its task exactly while runExclusive has it running.
THEOREM TasksAreExclusive == SafeSpec => []TaskInsideLock
<1>1. RunsInv => TaskInsideLock
  <2> SUFFICES ASSUME RunsInv, NEW c \in Calls
               PROVE  step[c] \in TaskSteps <=> pc[c] = "running"
    BY DEF TaskInsideLock
  <2>1. Match(step[c], pc[c])
    BY DEF RunsInv, StepsInv
  <2>2. QED
    BY <2>1 DEF Match, TaskSteps
<1>2. QED
  BY <1>1, RunsInvHolds, PTL

\* A run that began while trading was paused, or without the signing flag, never
\* signs (execute() of the review, the guard of the unwind).
THEOREM PausedRunsDoNotSign == SafeSpec => []NoTradingIfStartedPaused
<1>1. RunsInv => NoTradingIfStartedPaused
  <2> SUFFICES ASSUME RunsInv, NEW c \in Calls, step[c] = "executing"
               PROVE  signing /\ ~startedPaused[c]
    BY DEF NoTradingIfStartedPaused
  <2>1. step[c] \in StepsOf(c)
    BY DEF RunsInv, StepsInv
  <2>2. c \in Reviews \/ c \in Unwinds
    BY <2>1 DEF StepsOf, Calls
  <2>3. MayTrade(c)
    BY <2>2 DEF RunsInv, TradeInv, MayTrade
  <2>4. QED
    BY <2>3 DEF RunsInv, TradeInv
<1>2. QED
  BY <1>1, RunsInvHolds, PTL
=============================================================================
