------------------------ MODULE RunCoordinatorProofs ------------------------
(* Machine-checked proofs about RunCoordinator, for any set of callers.     *)
EXTENDS RunCoordinatorRefinement, TLAPS

\* What the hand-over does to the queue: dropping the head of a queue without
\* repetitions leaves exactly the other callers, still without repetitions.
LEMMA TailOfExactQueue ==
    ASSUME NEW S, NEW q \in Seq(S), q # <<>>,
           \A i, j \in DOMAIN q : q[i] = q[j] => i = j
    PROVE  /\ Tail(q) \in Seq(S)
           /\ Head(q) \in S
           /\ {Tail(q)[i] : i \in DOMAIN Tail(q)} =
                  {q[i] : i \in DOMAIN q} \ {Head(q)}
           /\ \A i, j \in DOMAIN Tail(q) : Tail(q)[i] = Tail(q)[j] => i = j
<1>1. /\ Len(q) \in Nat /\ Len(q) > 0
      /\ DOMAIN q = 1..Len(q)
      /\ Head(q) = q[1] /\ q[1] \in S
  OBVIOUS
<1>2. /\ Tail(q) \in Seq(S)
      /\ DOMAIN Tail(q) = 1..(Len(q) - 1)
      /\ \A i \in 1..(Len(q) - 1) : Tail(q)[i] = q[i + 1]
  BY <1>1
<1>3. {Tail(q)[i] : i \in DOMAIN Tail(q)} =
          {q[i] : i \in DOMAIN q} \ {Head(q)}
  <2>1. ASSUME NEW x \in {Tail(q)[i] : i \in DOMAIN Tail(q)}
        PROVE  x \in {q[i] : i \in DOMAIN q} \ {Head(q)}
    <3>1. PICK i \in 1..(Len(q) - 1) : x = q[i + 1]
      BY <1>2
    <3>2. i + 1 \in DOMAIN q /\ 1 \in DOMAIN q /\ i + 1 # 1
      BY <1>1, <3>1
    <3>3. QED
      BY <1>1, <3>1, <3>2
  <2>2. ASSUME NEW x \in {q[i] : i \in DOMAIN q} \ {Head(q)}
        PROVE  x \in {Tail(q)[i] : i \in DOMAIN Tail(q)}
    <3>1. PICK i \in DOMAIN q : x = q[i]
      OBVIOUS
    <3>2. i \in 2..Len(q)
      BY <1>1, <3>1
    <3>3. i - 1 \in DOMAIN Tail(q) /\ Tail(q)[i - 1] = q[i]
      BY <1>1, <1>2, <3>2
    <3>4. QED
      BY <3>1, <3>3
  <2>3. QED
    BY <2>1, <2>2
<1>4. \A i, j \in DOMAIN Tail(q) : Tail(q)[i] = Tail(q)[j] => i = j
  <2>1. SUFFICES ASSUME NEW i \in 1..(Len(q) - 1), NEW j \in 1..(Len(q) - 1),
                        q[i + 1] = q[j + 1]
                 PROVE  i = j
    BY <1>2
  <2>2. i + 1 \in DOMAIN q /\ j + 1 \in DOMAIN q
    BY <1>1
  <2>3. i + 1 = j + 1
    BY <2>1, <2>2
  <2>4. QED
    BY <2>3
<1>5. QED
  BY <1>1, <1>2, <1>3, <1>4

\* What a new waiter does to the queue.
LEMMA AppendToExactQueue ==
    ASSUME NEW S, NEW q \in Seq(S), NEW c \in S,
           c \notin {q[i] : i \in DOMAIN q},
           \A i, j \in DOMAIN q : q[i] = q[j] => i = j
    PROVE  /\ Append(q, c) \in Seq(S)
           /\ Append(q, c) # <<>>
           /\ {Append(q, c)[i] : i \in DOMAIN Append(q, c)} =
                  {q[i] : i \in DOMAIN q} \cup {c}
           /\ \A i, j \in DOMAIN Append(q, c) :
                  Append(q, c)[i] = Append(q, c)[j] => i = j
<1> DEFINE r == Append(q, c)
<1>1. /\ Len(q) \in Nat /\ DOMAIN q = 1..Len(q)
      /\ r \in Seq(S) /\ r # <<>>
      /\ DOMAIN r = 1..(Len(q) + 1)
      /\ \A i \in 1..Len(q) : r[i] = q[i]
      /\ r[Len(q) + 1] = c
  OBVIOUS
<1> HIDE DEF r
<1>2. {r[i] : i \in DOMAIN r} = {q[i] : i \in DOMAIN q} \cup {c}
  <2>1. ASSUME NEW x \in {r[i] : i \in DOMAIN r}
        PROVE  x \in {q[i] : i \in DOMAIN q} \cup {c}
    <3>1. PICK i \in 1..(Len(q) + 1) : x = r[i]
      BY <1>1
    <3>2. i \in 1..Len(q) \/ i = Len(q) + 1
      BY <1>1
    <3>3. QED
      BY <1>1, <3>1, <3>2
  <2>2. ASSUME NEW i \in DOMAIN q
        PROVE  q[i] \in {r[k] : k \in DOMAIN r}
    <3>1. i \in DOMAIN r /\ r[i] = q[i]
      BY <1>1
    <3>2. QED
      BY <3>1
  <2>3. c \in {r[i] : i \in DOMAIN r}
    <3>1. Len(q) + 1 \in DOMAIN r
      BY <1>1
    <3>2. QED
      BY <1>1, <3>1
  <2>4. QED
    BY <2>1, <2>2, <2>3
<1>3. \A i, j \in DOMAIN r : r[i] = r[j] => i = j
  <2>1. SUFFICES ASSUME NEW i \in 1..(Len(q) + 1), NEW j \in 1..(Len(q) + 1),
                        r[i] = r[j]
                 PROVE  i = j
    BY <1>1
  <2>2. CASE i \in 1..Len(q) /\ j \in 1..Len(q)
    BY <1>1, <2>1, <2>2
  <2>3. CASE i = Len(q) + 1 /\ j \in 1..Len(q)
    <3>1. q[j] = c
      BY <1>1, <2>1, <2>3
    <3>2. QED
      BY <1>1, <2>3, <3>1
  <2>4. CASE i \in 1..Len(q) /\ j = Len(q) + 1
    <3>1. q[i] = c
      BY <1>1, <2>1, <2>4
    <3>2. QED
      BY <1>1, <2>4, <3>1
  <2>5. QED
    BY <1>1, <2>2, <2>3, <2>4
<1>4. QED
  BY <1>1, <1>2, <1>3 DEF r

-----------------------------------------------------------------------------
\* A step keeps the inductive invariant: one step of the proof per branch of
\* runExclusive, each showing the conjuncts that the branch can disturb.
LEMMA StepKeepsIInv == IInv /\ [Next]_vars => IInv'
<1> SUFFICES ASSUME IInv, [Next]_vars PROVE IInv'
  OBVIOUS
<1> USE DEF IInv, TypeOK, PCs
<1>1. ASSUME NEW c \in Callers, Acquire(c) PROVE IInv'
  <2> USE <1>1 DEF Acquire
  <2>1. TypeOK'
    OBVIOUS
  <2>2. \A d \in Callers : ~Holds(d)
    BY DEF LockedIffHeld
  <2>3. \A d \in Callers : Holds(d)' <=> d = c
    BY <2>2 DEF Holds
  <2>4. MutualExclusion' /\ LockedIffHeld'
    BY <2>3 DEF MutualExclusion, LockedIffHeld
  <2>5. Queued' = Queued
    BY DEF Queued
  <2>6. QueueIsExact'
    BY <2>5 DEF QueueIsExact
  <2>7. QED
    BY <2>1, <2>4, <2>6 DEF NobodyWaitsAtOpenLock
<1>2. ASSUME NEW c \in Callers, Reject(c) \/ LearnOfRefusal(c) PROVE IInv'
  <2> USE <1>2 DEF Reject, LearnOfRefusal
  <2>1. TypeOK'
    OBVIOUS
  <2>2. \A d \in Callers : Holds(d)' <=> Holds(d)
    BY DEF Holds
  <2>3. MutualExclusion' /\ LockedIffHeld'
    BY <2>2 DEF MutualExclusion, LockedIffHeld
  <2>4. Queued' = Queued
    BY DEF Queued
  <2>5. QED
    BY <2>1, <2>3, <2>4 DEF QueueIsExact, NobodyWaitsAtOpenLock
<1>3. ASSUME NEW c \in Callers, Enqueue(c) PROVE IInv'
  <2> USE <1>3 DEF Enqueue
  <2>1. c \notin {waiters[i] : i \in DOMAIN waiters}
    BY DEF QueueIsExact, Queued
  <2>2. /\ waiters' \in Seq(Callers)
        /\ {waiters[i] : i \in DOMAIN waiters}' =
               {waiters[i] : i \in DOMAIN waiters} \cup {c}
        /\ \A i, j \in DOMAIN waiters' : waiters'[i] = waiters'[j] => i = j
    BY <2>1, AppendToExactQueue DEF QueueIsExact
  <2>3. TypeOK'
    BY <2>2
  <2>4. \A d \in Callers : Holds(d)' <=> Holds(d)
    BY DEF Holds
  <2>5. MutualExclusion' /\ LockedIffHeld'
    BY <2>4 DEF MutualExclusion, LockedIffHeld
  <2>6. Queued' = Queued \cup {c}
    BY DEF Queued
  <2>7. QueueIsExact'
    BY <2>2, <2>6 DEF QueueIsExact
  <2>8. QED
    BY <2>3, <2>5, <2>7 DEF NobodyWaitsAtOpenLock
<1>4. ASSUME NEW c \in Callers, Resume(c) PROVE IInv'
  <2> USE <1>4 DEF Resume
  <2>1. TypeOK'
    OBVIOUS
  <2>2. \A d \in Callers : Holds(d)' <=> Holds(d)
    BY DEF Holds
  <2>3. MutualExclusion' /\ LockedIffHeld'
    BY <2>2 DEF MutualExclusion, LockedIffHeld
  <2>4. Queued' = Queued
    BY DEF Queued
  <2>5. QED
    BY <2>1, <2>3, <2>4 DEF QueueIsExact, NobodyWaitsAtOpenLock
<1>5. ASSUME NEW c \in Callers, Settle(c), HandOver(c) PROVE IInv'
  <2> USE <1>5 DEF Settle, HandOver
  <2> DEFINE h == Head(waiters)
  <2>1. /\ waiters' \in Seq(Callers)
        /\ h \in Callers
        /\ {waiters[i] : i \in DOMAIN waiters}' =
               {waiters[i] : i \in DOMAIN waiters} \ {h}
        /\ \A i, j \in DOMAIN waiters' : waiters'[i] = waiters'[j] => i = j
    <3>1. /\ waiters \in Seq(Callers) /\ waiters # <<>>
          /\ \A i, j \in DOMAIN waiters : waiters[i] = waiters[j] => i = j
          /\ waiters' = Tail(waiters)
      BY DEF QueueIsExact
    <3>2. /\ Tail(waiters) \in Seq(Callers)
          /\ Head(waiters) \in Callers
          /\ {Tail(waiters)[i] : i \in DOMAIN Tail(waiters)} =
                 {waiters[i] : i \in DOMAIN waiters} \ {Head(waiters)}
          /\ \A i, j \in DOMAIN Tail(waiters) :
                 Tail(waiters)[i] = Tail(waiters)[j] => i = j
      BY <3>1, TailOfExactQueue, Zenon
    <3>3. {waiters[i] : i \in DOMAIN waiters}' =
              {Tail(waiters)[i] : i \in DOMAIN Tail(waiters)}
      BY <3>1, Zenon
    <3>4. \A i, j \in DOMAIN waiters' : waiters'[i] = waiters'[j] => i = j
      BY <3>1, <3>2, Zenon
    <3>5. waiters' \in Seq(Callers) /\ h \in Callers
      BY <3>1, <3>2, Zenon
    <3>6. QED
      BY <3>2, <3>3, <3>4, <3>5, Zenon
  <2>2. h \in {waiters[i] : i \in DOMAIN waiters}
    <3>1. 1 \in DOMAIN waiters /\ h = waiters[1]
      OBVIOUS
    <3>2. QED
      BY <3>1
  <2>3. pc[h] = "queued" /\ h # c
    BY <2>2 DEF QueueIsExact, Queued
  <2> HIDE DEF h
  <2>4. pc' = [pc EXCEPT ![c] = "outside", ![h] = "granted"]
    BY DEF h
  <2>5. TypeOK'
    BY <2>1, <2>4
  <2>6. \A d \in Callers : Holds(d) <=> d = c
    BY DEF MutualExclusion, Holds
  <2>7. \A d \in Callers : Holds(d)' <=> d = h
    BY <2>1, <2>3, <2>4, <2>6 DEF Holds
  <2>8. MutualExclusion' /\ LockedIffHeld'
    <3>1. locked /\ locked' = locked
      BY <2>6 DEF LockedIffHeld
    <3>2. QED
      BY <2>1, <2>7, <3>1 DEF MutualExclusion, LockedIffHeld
  <2>9. Queued' = Queued \ {h}
    BY <2>1, <2>3, <2>4 DEF Queued
  <2>10. QueueIsExact'
    BY <2>1, <2>9 DEF QueueIsExact
  <2>11. NobodyWaitsAtOpenLock'
    BY DEF NobodyWaitsAtOpenLock
  <2>12. QED
    BY <2>5, <2>8, <2>10, <2>11
<1>6. ASSUME NEW c \in Callers, Settle(c), Open(c) PROVE IInv'
  <2> USE <1>6 DEF Settle, Open
  <2>1. TypeOK'
    OBVIOUS
  <2>2. \A d \in Callers : Holds(d) <=> d = c
    BY DEF MutualExclusion, Holds
  <2>3. \A d \in Callers : ~Holds(d)'
    BY <2>2 DEF Holds
  <2>4. MutualExclusion' /\ LockedIffHeld'
    BY <2>3 DEF MutualExclusion, LockedIffHeld
  <2>5. Queued' = Queued
    BY DEF Queued
  <2>6. QED
    BY <2>1, <2>4, <2>5 DEF QueueIsExact, NobodyWaitsAtOpenLock
<1>7. CASE UNCHANGED vars
  BY <1>7 DEF vars, MutualExclusion, LockedIffHeld, Holds, QueueIsExact,
              Queued, NobodyWaitsAtOpenLock
<1>8. QED
  BY <1>1, <1>2, <1>3, <1>4, <1>5, <1>6, <1>7 DEF Next, Settle

LEMMA InitHasIInv == Init => IInv
<1> SUFFICES ASSUME Init PROVE IInv
  OBVIOUS
<1>1. waiters = <<>> /\ DOMAIN waiters = {} /\ waiters \in Seq(Callers)
  BY DEF Init
<1>2. TypeOK
  BY <1>1 DEF Init, TypeOK, PCs
<1>3. Queued = {}
  BY DEF Init, Queued
<1>4. QED
  BY <1>1, <1>2, <1>3 DEF Init, IInv, MutualExclusion, LockedIffHeld, Holds,
       QueueIsExact, NobodyWaitsAtOpenLock

\* The strengthened invariant holds in every reachable state.
THEOREM Invariance == SafeSpec => []IInv
BY InitHasIInv, StepKeepsIInv, PTL DEF SafeSpec

\* The coordinator's fields always have their types.
THEOREM TypeCorrect == SafeSpec => []TypeOK
<1>1. IInv => TypeOK
  BY DEF IInv
<1>2. QED
  BY <1>1, Invariance, PTL

\* No two runs are ever past the lock together.
THEOREM RunsExclude == SafeSpec => []MutualExclusion
<1>1. IInv => MutualExclusion
  BY DEF IInv
<1>2. QED
  BY <1>1, Invariance, PTL

\* isBusy tells the truth: the flag is up exactly while a caller owns the lock.
THEOREM BusyIsTruthful == SafeSpec => []LockedIffHeld
<1>1. IInv => LockedIffHeld
  BY DEF IInv
<1>2. QED
  BY <1>1, Invariance, PTL

\* Nobody awaits a resolver that the queue has lost, and the queue is never
\* left behind at an open lock.
THEOREM NoLostWaiter == SafeSpec => [](QueueIsExact /\ NobodyWaitsAtOpenLock)
<1>1. IInv => QueueIsExact /\ NobodyWaitsAtOpenLock
  BY DEF IInv
<1>2. QED
  BY <1>1, Invariance, PTL

\* Nobody barges: a call that finds the lock open finds an empty queue too.
THEOREM ArrivalOrder == SafeSpec => NoBarging
<1> DEFINE Fair(c) == ~Holds(c) /\ Holds(c)' =>
             IF waiters = <<>> THEN pc[c] = "outside" ELSE c = Head(waiters)
<1>1. ASSUME IInv, [Next]_vars, NEW c \in Callers PROVE Fair(c)
  <2> USE <1>1 DEF IInv, TypeOK, PCs, Holds
  <2>1. ASSUME NEW d \in Callers, Acquire(d) PROVE Fair(c)
    BY <2>1 DEF Acquire, NobodyWaitsAtOpenLock
  <2>2. ASSUME NEW d \in Callers, Reject(d) \/ LearnOfRefusal(d) PROVE Fair(c)
    BY <2>2 DEF Reject, LearnOfRefusal
  <2>3. ASSUME NEW d \in Callers, Enqueue(d) PROVE Fair(c)
    BY <2>3 DEF Enqueue
  <2>4. ASSUME NEW d \in Callers, Resume(d) PROVE Fair(c)
    BY <2>4 DEF Resume
  <2>5. ASSUME NEW d \in Callers, Settle(d) PROVE Fair(c)
    BY <2>5 DEF Settle, HandOver, Open
  <2>6. CASE UNCHANGED vars
    BY <2>6 DEF vars
  <2>7. QED
    BY <2>1, <2>2, <2>3, <2>4, <2>5, <2>6 DEF Next
<1>2. IInv /\ [Next]_vars => [\A c \in Callers : Fair(c)]_vars
  BY <1>1
<1>3. QED
  BY <1>2, Invariance, PTL DEF SafeSpec, NoBarging

-----------------------------------------------------------------------------
\* Every step of the coordinator is a step of the abstract lock or, for a
\* rejected call, none at all.
LEMMA StepRefines ==
    IInv /\ [Next]_vars => [Abstract!Next]_(Abstract!vars)
<1> SUFFICES ASSUME IInv, [Next]_vars
             PROVE  [Abstract!Next]_(Abstract!vars)
  OBVIOUS
<1> USE DEF IInv, TypeOK, PCs
<1>1. ASSUME NEW c \in Callers, Acquire(c) PROVE Abstract!Walk(c)
  <2> USE <1>1 DEF Acquire
  <2>1. waiters = <<>> /\ \A d \in Callers : ~Holds(d)
    BY DEF NobodyWaitsAtOpenLock, LockedIffHeld
  <2>2. \A d \in Callers : pc[d] \in {"outside", "refused"}
    BY <2>1 DEF Holds, QueueIsExact, Queued
  <2>3. Status = [d \in Callers |-> "out"]
    BY <2>2 DEF Status
  <2>4. Status' = [Status EXCEPT ![c] = "in"]
    BY <2>2, <2>3 DEF Status
  <2>5. Ahead' = Ahead
    BY <2>2 DEF Ahead
  <2>6. QED
    BY <2>3, <2>4, <2>5 DEF Abstract!Walk, Abstract!Empty, Abstract!Waiting
<1>2. ASSUME NEW c \in Callers, Reject(c) \/ LearnOfRefusal(c)
      PROVE  UNCHANGED Abstract!vars
  <2> USE <1>2 DEF Reject, LearnOfRefusal
  <2>1. Status' = Status
    BY DEF Status
  <2>2. Granted' = Granted /\ \A d \in Callers : Before(d)' = Before(d)
    BY DEF Granted, Before
  <2>3. Ahead' = Ahead
    BY <2>2 DEF Ahead
  <2>4. QED
    BY <2>1, <2>3 DEF Abstract!vars
<1>3. ASSUME NEW c \in Callers, Enqueue(c) PROVE Abstract!Arrive(c)
  <2> USE <1>3 DEF Enqueue
  <2>1. c \notin {waiters[i] : i \in DOMAIN waiters}
    BY DEF QueueIsExact, Queued
  <2>2. /\ Len(waiters) \in Nat
        /\ DOMAIN waiters = 1..Len(waiters)
        /\ DOMAIN waiters' = 1..(Len(waiters) + 1)
        /\ \A i \in 1..Len(waiters) : waiters'[i] = waiters[i]
        /\ waiters'[Len(waiters) + 1] = c
    OBVIOUS
  <2>3. Granted' = Granted
    BY DEF Granted
  <2>4. ASSUME NEW d \in Callers, d # c PROVE Before(d)' = Before(d)
    BY <2>1, <2>2, <2>4 DEF Before
  <2>5. Before(c)' = Queued
    <3>1. ASSUME NEW d \in Before(c)' PROVE d \in Queued
      <4>1. PICK k, m \in 1..(Len(waiters) + 1) :
                k < m /\ waiters'[k] = d /\ waiters'[m] = c
        BY <2>2, <3>1 DEF Before
      <4>2. k \in 1..Len(waiters) /\ waiters[k] = d
        BY <2>2, <4>1
      <4>3. QED
        BY <2>2, <4>2 DEF QueueIsExact
    <3>2. ASSUME NEW d \in Queued PROVE d \in Before(c)'
      <4>1. PICK k \in 1..Len(waiters) : waiters[k] = d
        BY <2>2, <3>2 DEF QueueIsExact
      <4>2. /\ k \in DOMAIN waiters' /\ Len(waiters) + 1 \in DOMAIN waiters'
            /\ k < Len(waiters) + 1
            /\ waiters'[k] = d /\ waiters'[Len(waiters) + 1] = c
        BY <2>2, <4>1
      <4>3. d \in Callers
        BY <3>2 DEF Queued
      <4>4. QED
        BY <4>2, <4>3 DEF Before
    <3>3. QED
      BY <3>1, <3>2
  <2>6. Abstract!Waiting = Granted \cup Queued
    BY DEF Abstract!Waiting, Status, Granted, Queued
  <2>7. Status[c] = "out" /\ Status' = [Status EXCEPT ![c] = "waiting"]
    BY DEF Status
  <2>8. Ahead' = [Ahead EXCEPT ![c] = Abstract!Waiting]
    BY <2>3, <2>4, <2>5, <2>6 DEF Ahead
  <2>9. QED
    BY <2>7, <2>8 DEF Abstract!Arrive
<1>4. ASSUME NEW c \in Callers, Resume(c) PROVE Abstract!Enter(c)
  <2> USE <1>4 DEF Resume
  <2>1. \A d \in Callers : Holds(d) <=> d = c
    BY DEF MutualExclusion, Holds
  <2>2. Granted = {c} /\ Granted' = {}
    BY <2>1 DEF Granted, Holds
  <2>3. \A d \in Callers : Before(d)' = Before(d) /\ c \notin Before(d)
    BY DEF Before, QueueIsExact, Queued
  <2>4. Ahead' = [d \in Callers |-> Ahead[d] \ {c}]
    BY <2>2, <2>3 DEF Ahead
  <2>5. Status[c] = "waiting" /\ Status' = [Status EXCEPT ![c] = "in"]
    BY DEF Status
  <2>6. Abstract!Empty
    BY <2>1 DEF Abstract!Empty, Status, Holds
  <2>7. Ahead[c] = {}
    BY DEF Ahead
  <2>8. QED
    BY <2>4, <2>5, <2>6, <2>7 DEF Abstract!Enter
<1>5. ASSUME NEW c \in Callers, Settle(c), HandOver(c) PROVE Abstract!Leave(c)
  <2> USE <1>5 DEF Settle, HandOver
  <2> DEFINE h == Head(waiters)
  <2>1. /\ Len(waiters) \in Nat /\ Len(waiters) > 0
        /\ DOMAIN waiters = 1..Len(waiters)
        /\ DOMAIN waiters' = 1..(Len(waiters) - 1)
        /\ h = waiters[1] /\ h \in Callers
        /\ \A i \in 1..(Len(waiters) - 1) : waiters'[i] = waiters[i + 1]
    OBVIOUS
  <2>2. pc[h] = "queued" /\ h # c
    <3>1. 1 \in DOMAIN waiters
      BY <2>1
    <3>2. QED
      BY <2>1, <3>1 DEF QueueIsExact, Queued
  <2>3. pc' = [pc EXCEPT ![c] = "outside", ![h] = "granted"]
    OBVIOUS
  <2> HIDE DEF h
  <2>4. \A d \in Callers : Holds(d) <=> d = c
    BY DEF MutualExclusion, Holds
  <2>5. Granted = {} /\ Granted' = {h}
    BY <2>1, <2>2, <2>3, <2>4 DEF Granted, Holds
  <2>6. Before(h) = {}
    BY <2>1 DEF Before, QueueIsExact
  <2>7. ASSUME NEW d \in Callers, pc[d] = "queued", d # h
        PROVE  Before(d) = {h} \cup Before(d)'
    <3>1. PICK m \in 2..Len(waiters) : waiters[m] = d
      BY <2>1, <2>7 DEF QueueIsExact, Queued
    <3>2. h \in Before(d)
      BY <2>1, <3>1 DEF Before
    <3>3. ASSUME NEW e \in Before(d), e # h PROVE e \in Before(d)'
      <4>1. PICK k, n \in DOMAIN waiters :
                k < n /\ waiters[k] = e /\ waiters[n] = d
        BY DEF Before
      <4>2. k # 1
        BY <2>1, <3>3, <4>1
      <4>3. /\ k - 1 \in DOMAIN waiters' /\ n - 1 \in DOMAIN waiters'
            /\ k - 1 < n - 1
            /\ waiters'[k - 1] = e /\ waiters'[n - 1] = d
        BY <2>1, <4>1, <4>2
      <4>4. e \in Callers
        BY DEF Before
      <4>5. QED
        BY <4>3, <4>4 DEF Before
    <3>4. ASSUME NEW e \in Before(d)' PROVE e \in Before(d)
      <4>1. PICK k, n \in DOMAIN waiters' :
                k < n /\ waiters'[k] = e /\ waiters'[n] = d
        BY DEF Before
      <4>2. /\ k + 1 \in DOMAIN waiters /\ n + 1 \in DOMAIN waiters
            /\ k + 1 < n + 1
            /\ waiters[k + 1] = e /\ waiters[n + 1] = d
        BY <2>1, <4>1
      <4>3. e \in Callers
        BY DEF Before
      <4>4. QED
        BY <4>2, <4>3 DEF Before
    <3>5. QED
      BY <3>2, <3>3, <3>4
  <2>8. Ahead' = Ahead
    <3>1. ASSUME NEW d \in Callers PROVE Ahead'[d] = Ahead[d]
      <4>1. CASE pc[d] = "queued" /\ d # h
        BY <2>2, <2>3, <2>5, <2>7, <4>1 DEF Ahead
      <4>2. CASE d = h
        BY <2>2, <2>3, <2>5, <2>6, <4>2 DEF Ahead
      <4>3. CASE pc[d] # "queued"
        BY <2>2, <2>3, <4>3 DEF Ahead
      <4>4. QED
        BY <4>1, <4>2, <4>3
    <3>2. QED
      BY <3>1 DEF Ahead
  <2>9. Status[c] = "in" /\ Status' = [Status EXCEPT ![c] = "out"]
    BY <2>1, <2>2, <2>3 DEF Status
  <2>10. QED
    BY <2>8, <2>9 DEF Abstract!Leave
<1>6. ASSUME NEW c \in Callers, Settle(c), Open(c) PROVE Abstract!Leave(c)
  <2> USE <1>6 DEF Settle, Open
  <2>1. \A d \in Callers : pc[d] # "queued"
    BY DEF QueueIsExact, Queued
  <2>2. Status[c] = "in" /\ Status' = [Status EXCEPT ![c] = "out"]
    BY DEF Status
  <2>3. Ahead' = Ahead
    BY <2>1 DEF Ahead
  <2>4. QED
    BY <2>2, <2>3 DEF Abstract!Leave
<1>7. CASE UNCHANGED vars
  BY <1>7 DEF vars, Abstract!vars, Status, Ahead, Granted, Before
<1>8. QED
  BY <1>1, <1>2, <1>3, <1>4, <1>5, <1>6, <1>7
     DEF Next, Settle, Abstract!Next

\* The coordinator implements the abstract first-come first-served lock (its
\* safety part; fairness and the waiters' progress are model-checked).
THEOREM RefinesFifoLock == SafeSpec => Abstract!SafeSpec
<1>1. Init => Abstract!Init
  BY DEF Init, Abstract!Init, Status, Ahead
<1>2. QED
  BY <1>1, StepRefines, Invariance, PTL DEF SafeSpec, Abstract!SafeSpec
=============================================================================
