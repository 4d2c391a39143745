----------------------- MODULE OperatorControlProofs ------------------------
(* Machine-checked proofs about OperatorControl: any number of updates and   *)
(* crashes, answers of any length.                                          *)
EXTENDS OperatorControl, TLAPS, FiniteSetTheorems, WellFoundedInduction

-----------------------------------------------------------------------------
(* The oldest update of an answer, and the offset behind a set of updates.   *)

\* Every set of updates has an oldest one, and Min names it.
LEMMA OldestIsFirst ==
  ASSUME NEW S \in SUBSET Nat, S # {}
  PROVE  Min(S) \in S /\ \A x \in S : Min(S) <= x
<1> DEFINE R == OpToRel(<, Nat)
<1>1. PICK x \in S : \A y \in S : <<y, x>> \notin R
  <2>1. IsWellFoundedOn(R, Nat)
    BY NatLessThanWellFounded
  <2> HIDE DEF R
  <2>2. QED
    BY <2>1, WFMin
<1>2. \A y \in S : x <= y
  <2> SUFFICES ASSUME NEW y \in S PROVE x <= y
    OBVIOUS
  <2>1. x \in Nat /\ y \in Nat
    OBVIOUS
  <2>2. ~(y < x)
    BY <1>1, <2>1 DEF OpToRel
  <2>3. QED
    BY <2>1, <2>2
<1> HIDE DEF R
<1>3. \E z \in S : \A y \in S : z <= y
  BY <1>2
<1>4. QED
  BY <1>3 DEF Min

\* The offset behind a bounded set of updates is above each of them, and is the
\* old one or the next after one of them.
LEMMA PastIsBehind ==
  ASSUME NEW S \in SUBSET Nat, NEW n \in Nat, \A i \in S : i <= n, NEW off \in Nat
  PROVE  /\ Past(S, off) \in Nat /\ off <= Past(S, off)
         /\ \A i \in S : i < Past(S, off)
         /\ Past(S, off) = off \/ \E i \in S : Past(S, off) = i + 1
<1> DEFINE T == {off} \cup {i + 1 : i \in S}
           B == {u \in Nat : \A x \in T : x <= u}
<1>1. T \in SUBSET Nat /\ off \in T
  OBVIOUS
<1>2. off + n + 1 \in B
  OBVIOUS
<1>3. Min(B) \in B /\ \A u \in B : Min(B) <= u
  <2>1. B \in SUBSET Nat /\ B # {}
    BY <1>2
  <2> HIDE DEF B
  <2>2. QED
    BY <2>1, OldestIsFirst
<1>4. Min(B) \in T
  <2> SUFFICES ASSUME Min(B) \notin T PROVE FALSE
    OBVIOUS
  <2> DEFINE m == Min(B)
  <2>1. m \in Nat /\ \A x \in T : x <= m
    BY <1>3
  <2>2. \A u \in B : m <= u
    BY <1>3
  <2>3. m \notin T
    OBVIOUS
  <2> HIDE DEF m
  <2>4. \A x \in T : x <= m - 1 /\ m - 1 \in Nat
    BY <1>1, <2>1, <2>3
  <2>5. m - 1 \in B
    BY <1>1, <2>4
  <2>6. QED
    BY <2>1, <2>2, <2>5
<1>5. \E x \in T : \A y \in T : x >= y
  BY <1>1, <1>3, <1>4
<1>6. /\ Max(T) \in T
      /\ \A y \in T : Max(T) >= y
  BY <1>5 DEF Max
<1>7. Past(S, off) = Max(T)
  BY DEF Past
<1>8. /\ Max(T) = off \/ \E i \in S : Max(T) = i + 1
      /\ Max(T) >= off /\ \A i \in S : Max(T) >= i + 1
  BY <1>6
<1>9. Max(T) \in Nat
  BY <1>1, <1>6
<1> HIDE DEF T
<1>10. \A i \in S : i < Max(T)
  BY <1>8, <1>9
<1>11. QED
  BY <1>7, <1>8, <1>9, <1>10

\* Of a bounded set of updates the oldest ones come before all the others.
LEMMA OldestComeFirst ==
  ASSUME NEW n \in Nat, NEW S \in SUBSET (1..n),
         NEW j \in S, j \notin Oldest(S), NEW k \in Oldest(S)
  PROVE  k < j
<1> DEFINE Before(x) == {y \in S : y < x}
<1>1. IsFiniteSet(S)
  <2>1. IsFiniteSet(1..n)
    <3>1. 1 \in Int /\ n \in Int
      OBVIOUS
    <3>2. QED
      BY <3>1, FS_Interval
  <2>2. QED
    BY <2>1, FS_Subset
<1>2. k \in S /\ Cardinality(Before(k)) < BatchLimit
  BY DEF Oldest
<1>3. ~(Cardinality(Before(j)) < BatchLimit)
  BY DEF Oldest
<1>4. ASSUME j <= k PROVE FALSE
  <2>1. Before(j) \in SUBSET Before(k)
    <3>1. S \subseteq Int /\ j \in Int /\ k \in Int
      BY <1>2
    <3>2. \A y \in S : y < j => y < k
      BY <1>4, <3>1
    <3>3. QED
      BY <3>2
  <2>2. IsFiniteSet(Before(k)) /\ IsFiniteSet(Before(j))
    BY <1>1, FS_Subset
  <2>3. Cardinality(Before(j)) <= Cardinality(Before(k))
    BY <2>1, <2>2, FS_Subset
  <2>4. Cardinality(Before(j)) \in Nat /\ Cardinality(Before(k)) \in Nat
    BY <2>2, FS_CardinalityType
  <2> HIDE DEF Before
  <2>5. QED
    BY <1>2, <1>3, <2>3, <2>4, ControlAssumption
<1>5. QED
  BY <1>2, <1>4

-----------------------------------------------------------------------------
(* The loop.                                                               *)

\* The process has drained and reads its updates.
Reading == phase \notin {"down", "draining"}

\* What Telegram holds was sent; the answer in hand is the oldest part of what
\* it holds from the offset on, and is empty unless it is being handled.
Answer ==
    /\ pending \subseteq 1..sent /\ backlog <= sent /\ offset <= sent + 1
    /\ batch \subseteq pending
    /\ phase \in {"down", "draining", "polling"} => batch = {}
    /\ phase \in {"down", "draining"} => offset = 0
    /\ \A i \in batch : offset <= i
    /\ \A j \in pending \ batch : offset <= j => \A k \in batch : k < j

\* What lies behind the offset has been dealt with.
Dealt ==
    Reading => \A j \in pending : j < offset =>
        handled[j] > 0 \/ command[j] = "ignored" \/ j <= backlog

\* After complete drains, what was dispatched lies behind the offset or is gone
\* from Telegram, and what lies before it is newer than the drain.
Once ==
    /\ \A i \in Ids : handled[i] > 0 => i <= sent
    /\ "drain" \notin faults =>
        /\ \A i \in Ids : handled[i] <= 1
        /\ Reading => \A i \in pending :
            /\ handled[i] > 0 => i < offset
            /\ offset <= i => backlog < i

\* Of the types of the state, those the loop relies on.
Numbers ==
    /\ sent \in 0..MaxUpdates /\ offset \in Nat /\ backlog \in Nat
    /\ handled \in [Ids -> Nat] /\ command \in [Ids -> Commands]

LoopInv == Numbers /\ Answer /\ Dealt /\ Once

LEMMA LoopInvInit == Init => LoopInv
<1> SUFFICES ASSUME Init PROVE LoopInv
  OBVIOUS
<1>1. Numbers
  BY ControlAssumption DEF Init, Numbers, Commands
<1>2. Answer /\ Dealt
  BY DEF Init, Answer, Dealt, Reading
<1>3. Once
  BY DEF Init, Once, Reading
<1>4. QED
  BY <1>1, <1>2, <1>3 DEF LoopInv

\* An update Telegram holds is one of the bound's.
LEMMA PendingIsSent ==
  ASSUME LoopInv
  PROVE  /\ sent \in Nat /\ offset \in Nat /\ backlog \in Nat
         /\ pending \in SUBSET (1..sent) /\ pending \in SUBSET Nat
         /\ \A i \in pending : i \in Ids /\ i <= sent
         /\ Ids \subseteq Nat
  BY ControlAssumption DEF LoopInv, Numbers, Answer, Ids

\* A step that leaves the loop's state alone.
LEMMA LoopUntouched ==
  ASSUME LoopInv, UNCHANGED <<sent, command, pending, offset, batch, handled, backlog>>,
         "drain" \in faults => "drain" \in faults',
         Reading, Reading', phase' = "polling" => batch = {}
  PROVE  LoopInv'
<1>1. Numbers' /\ Answer'
  BY DEF LoopInv, Numbers, Answer, Reading
<1>2. Dealt' /\ Once'
  BY DEF LoopInv, Dealt, Once
<1>3. QED
  BY <1>1, <1>2 DEF LoopInv

LEMMA SendKeepsLoopInv ==
  ASSUME LoopInv, NEW c \in Commands, Send(c)
  PROVE  LoopInv'
<1>1. /\ sent \in Nat /\ offset \in Nat /\ backlog \in Nat
      /\ pending \in SUBSET (1..sent) /\ pending \in SUBSET Nat
      /\ \A i \in pending : i \in Ids /\ i <= sent
      /\ Ids \subseteq Nat
  BY PendingIsSent
<1>2. /\ sent < MaxUpdates /\ sent' = sent + 1 /\ sent + 1 \in Ids
      /\ pending' = pending \cup {sent + 1}
      /\ command' = [command EXCEPT ![sent + 1] = c]
      /\ UNCHANGED <<phase, offset, batch, handled, backlog, faults>>
  BY <1>1, ControlAssumption DEF Send, loop, history, Ids
<1>3. sent' \in Nat /\ sent' \in 0..MaxUpdates
  BY <1>1, <1>2, ControlAssumption
<1>4. Numbers'
  BY <1>1, <1>2, <1>3 DEF LoopInv, Numbers
<1>5. Answer'
  <2>1. pending' \subseteq 1..sent' /\ backlog' <= sent' /\ offset' <= sent' + 1
    BY <1>1, <1>2 DEF LoopInv, Answer
  <2>2. batch' \subseteq pending' /\ \A k \in batch : k <= sent
    BY <1>1, <1>2 DEF LoopInv, Answer
  <2>3. \A j \in pending' \ batch' : offset' <= j => \A k \in batch' : k < j
    <3>1. \A k \in batch : k < sent + 1
      BY <1>1, <2>2 DEF LoopInv, Answer
    <3>2. QED
      BY <1>2, <3>1 DEF LoopInv, Answer
  <2>4. QED
    BY <1>2, <2>1, <2>2, <2>3 DEF LoopInv, Answer
<1>6. Dealt'
  <2>1. \A j \in pending : command'[j] = command[j]
    BY <1>1, <1>2 DEF LoopInv, Numbers
  <2>2. ~(sent + 1 < offset)
    BY <1>1 DEF LoopInv, Answer
  <2>3. QED
    BY <1>1, <1>2, <2>1, <2>2 DEF LoopInv, Dealt, Reading
<1>7. Once'
  <2>1. handled[sent + 1] = 0
    BY <1>1, <1>2 DEF LoopInv, Once, Numbers
  <2>2. backlog < sent + 1
    BY <1>1 DEF LoopInv, Answer
  <2>3. \A i \in Ids : handled'[i] > 0 => i <= sent'
    BY <1>1, <1>2 DEF LoopInv, Once
  <2>4. QED
    BY <1>2, <2>1, <2>2, <2>3 DEF LoopInv, Once, Reading
<1>8. QED
  BY <1>4, <1>5, <1>6, <1>7 DEF LoopInv

\* The process ends or begins: it has no updates in hand, and the next drain
\* decides what it makes of those Telegram holds.
LEMMA CrashAndBootKeepLoopInv ==
  ASSUME LoopInv, Crash \/ Boot
  PROVE  LoopInv'
<1>1. /\ phase' \in {"down", "draining"} /\ offset' = 0 /\ batch' = {}
      /\ UNCHANGED <<sent, command, pending, handled, backlog>>
      /\ "drain" \in faults => "drain" \in faults'
  BY DEF Crash, Boot, chat, history
<1>2. Numbers' /\ Answer'
  BY <1>1, PendingIsSent DEF LoopInv, Numbers, Answer
<1>3. Dealt' /\ Once'
  BY <1>1 DEF LoopInv, Dealt, Once, Reading
<1>4. QED
  BY <1>2, <1>3 DEF LoopInv

LEMMA DrainKeepsLoopInv ==
  ASSUME LoopInv, Drain
  PROVE  LoopInv'
<1>1. /\ sent \in Nat /\ offset \in Nat /\ backlog \in Nat
      /\ pending \in SUBSET (1..sent) /\ pending \in SUBSET Nat
      /\ \A i \in pending : i \in Ids /\ i <= sent
      /\ Ids \subseteq Nat
  BY PendingIsSent
<1>2. /\ phase = "draining" /\ phase' = "polling" /\ backlog' = sent
      /\ offset' = Past(Oldest(Kept(offset)), offset) /\ pending' = Kept(offset)
      /\ Kept(offset) # Oldest(Kept(offset)) => "drain" \in faults'
      /\ "drain" \in faults => "drain" \in faults'
      /\ UNCHANGED <<sent, command, batch, handled>>
  BY DEF Drain
<1>3. batch = {} /\ offset = 0 /\ Kept(offset) = pending
  <2>1. batch = {} /\ offset = 0
    BY <1>2 DEF LoopInv, Answer
  <2>2. \A i \in pending : i >= offset
    BY <1>1, <2>1
  <2>3. QED
    BY <2>1, <2>2 DEF Kept
<1> DEFINE S == Oldest(pending)
<1>4. S \in SUBSET Nat /\ S \subseteq pending /\ \A i \in S : i <= sent
  BY <1>1 DEF Oldest
<1>5. /\ offset' \in Nat /\ \A i \in S : i < offset'
      /\ offset' = 0 \/ \E i \in S : offset' = i + 1
  <2> HIDE DEF S
  <2>1. offset' = Past(S, 0)
    BY <1>2, <1>3 DEF S
  <2>2. QED
    BY <1>1, <1>4, <2>1, PastIsBehind
<1>6. Numbers'
  BY <1>1, <1>2, <1>5 DEF LoopInv, Numbers
<1>7. Answer'
  <2>1. offset' <= sent' + 1
    BY <1>1, <1>2, <1>4, <1>5
  <2>2. pending' = pending /\ batch' = {} /\ sent' = sent /\ phase' = "polling"
    BY <1>2, <1>3
  <2>3. backlog' <= sent'
    BY <1>1, <1>2
  <2>4. QED
    BY <1>1, <2>1, <2>2, <2>3 DEF Answer
<1>8. Dealt'
  <2>1. \A j \in pending' : j <= backlog'
    BY <1>1, <1>2, <1>3
  <2>2. QED
    BY <2>1 DEF Dealt
<1>9. Once'
  <2>1. \A i \in Ids : handled'[i] > 0 => i <= sent'
    BY <1>2 DEF LoopInv, Once
  <2>2. ASSUME "drain" \notin faults'
        PROVE  /\ \A i \in Ids : handled'[i] <= 1
               /\ \A i \in pending' : i < offset' /\ i \in Nat
    <3>1. S = pending'
      BY <1>2, <1>3, <2>2
    <3>2. QED
      BY <1>1, <1>2, <1>4, <1>5, <2>2, <3>1 DEF LoopInv, Once
  <2>3. \A i \in pending' : i < offset' => ~(offset' <= i)
    <3>1. pending' \in SUBSET Nat /\ offset' \in Nat
      BY <1>1, <1>2, <1>3, <1>5
    <3>2. QED
      BY <3>1
  <2>4. QED
    BY <2>1, <2>2, <2>3 DEF Once
<1>10. QED
  BY <1>6, <1>7, <1>8, <1>9 DEF LoopInv

LEMMA DrainFailsKeepsLoopInv ==
  ASSUME LoopInv, DrainFails
  PROVE  LoopInv'
<1>1. /\ phase = "draining" /\ phase' = "polling" /\ backlog' = sent
      /\ "drain" \in faults'
      /\ UNCHANGED <<sent, command, pending, offset, batch, handled>>
  BY DEF DrainFails, chat
<1>2. Numbers' /\ Answer'
  BY <1>1, PendingIsSent DEF LoopInv, Numbers, Answer
<1>3. Dealt' /\ Once'
  BY <1>1, PendingIsSent DEF LoopInv, Dealt, Once
<1>4. QED
  BY <1>2, <1>3 DEF LoopInv

\* getUpdates confirms what lies behind the offset, which has been dealt with.
LEMMA PollKeepsLoopInv ==
  ASSUME LoopInv, Poll \/ PollLost
  PROVE  LoopInv'
<1>1. /\ sent \in Nat /\ offset \in Nat /\ backlog \in Nat
      /\ pending \in SUBSET (1..sent) /\ pending \in SUBSET Nat
      /\ \A i \in pending : i \in Ids /\ i <= sent
      /\ Ids \subseteq Nat
  BY PendingIsSent
<1>2. /\ phase = "polling" /\ pending' = Kept(offset)
      /\ phase' \in {"polling", "handling"}
      /\ phase' = "polling" => batch' = {}
      /\ batch' \in {{}, Oldest(Kept(offset))}
      /\ UNCHANGED <<sent, command, offset, handled, backlog, faults>>
  <2>1. CASE Poll
    BY <2>1 DEF Poll, history
  <2>2. CASE PollLost
    BY <2>2 DEF PollLost, loop, history, LoopInv, Answer
  <2>3. QED
    BY <2>1, <2>2
<1>3. pending' \subseteq pending /\ \A i \in pending' : offset <= i /\ ~(i < offset)
  BY <1>1, <1>2 DEF Kept
<1>4. Numbers'
  BY <1>2 DEF LoopInv, Numbers
<1>5. Answer'
  <2>1. batch' \subseteq pending'
    BY <1>2 DEF Oldest
  <2>2. ASSUME NEW j \in pending' \ batch', NEW k \in batch' PROVE k < j
    <3>1. pending' \in SUBSET (1..sent) /\ batch' = Oldest(pending')
      BY <1>1, <1>2, <1>3, <2>2
    <3>2. QED
      BY <1>1, <2>2, <3>1, OldestComeFirst
  <2>3. QED
    BY <1>2, <1>3, <2>1, <2>2 DEF LoopInv, Answer
<1>6. Dealt' /\ Once'
  BY <1>2, <1>3 DEF LoopInv, Dealt, Once, Reading
<1>7. QED
  BY <1>4, <1>5, <1>6 DEF LoopInv

\* The update that is handled is the oldest of those not dealt with, and under
\* complete drains it was never dispatched.
LEMMA HandledIsNext ==
  ASSUME LoopInv, NEW i \in batch, Handle(i)
  PROVE  /\ offset' = i + 1 /\ offset <= i /\ i \in pending
         /\ \A k \in batch : i <= k
         /\ \A j \in pending : j < i => j < offset
         /\ "drain" \notin faults => handled[i] = 0 /\ backlog < i
<1>1. /\ sent \in Nat /\ offset \in Nat /\ backlog \in Nat
      /\ pending \in SUBSET Nat /\ \A k \in pending : k \in Ids
  BY PendingIsSent
<1>2. batch \subseteq pending /\ batch \in SUBSET Nat /\ batch # {} /\ offset <= i
  BY <1>1 DEF LoopInv, Answer
<1>3. phase = "handling" /\ i = Min(batch) /\ offset' = Past({i}, offset)
  BY DEF Handle
<1>4. i \in Nat /\ \A k \in batch : i <= k
  BY <1>2, <1>3, OldestIsFirst
<1>5. offset' = i + 1
  <2>1. {i} \in SUBSET Nat /\ \A k \in {i} : k <= i
    BY <1>4
  <2>2. /\ offset' \in Nat /\ i < offset'
        /\ offset' = offset \/ offset' = i + 1
    BY <1>1, <1>3, <1>4, <2>1, PastIsBehind
  <2>3. QED
    BY <1>1, <1>2, <1>4, <2>2
<1>6. ASSUME NEW j \in pending, j < i PROVE j < offset
  <2>1. j \in Nat /\ j \notin batch
    BY <1>1, <1>4, <1>6
  <2>2. offset <= j => i < j
    BY <2>1 DEF LoopInv, Answer
  <2>3. QED
    BY <1>1, <1>4, <1>6, <2>1, <2>2
<1>7. ASSUME "drain" \notin faults PROVE handled[i] = 0 /\ backlog < i
  <2>1. i \in pending /\ i \in Ids /\ Reading
    BY <1>1, <1>2, <1>3 DEF Reading
  <2>2. handled[i] \in Nat
    BY <2>1 DEF LoopInv, Numbers
  <2>3. handled[i] > 0 => i < offset
    BY <1>7, <2>1 DEF LoopInv, Once
  <2>4. backlog < i
    BY <1>2, <1>7, <2>1 DEF LoopInv, Once
  <2>5. QED
    BY <1>1, <1>2, <1>4, <2>2, <2>3, <2>4
<1>8. QED
  BY <1>2, <1>4, <1>5, <1>6, <1>7

LEMMA HandleKeepsLoopInv ==
  ASSUME LoopInv, NEW i \in batch, Handle(i)
  PROVE  LoopInv'
<1>1. /\ sent \in Nat /\ offset \in Nat /\ backlog \in Nat
      /\ pending \in SUBSET Nat /\ \A k \in pending : k \in Ids /\ k <= sent
  BY PendingIsSent
<1>2. /\ offset' = i + 1 /\ offset <= i /\ i \in pending
      /\ \A k \in batch : i <= k
      /\ \A j \in pending : j < i => j < offset
      /\ "drain" \notin faults => handled[i] = 0 /\ backlog < i
  BY HandledIsNext
<1>3. /\ phase = "handling" /\ batch' = batch \ {i}
      /\ UNCHANGED <<sent, command, pending, backlog, faults>>
      /\ \/ /\ command[i] = "ignored" /\ handled' = handled
            /\ phase' = AfterUpdate(batch \ {i})
         \/ /\ handled' = [handled EXCEPT ![i] = @ + 1]
            /\ phase' \in {"replying", "persisting"}
  BY DEF Handle, chat
<1>4. i \in Nat /\ i \in Ids /\ Reading /\ Reading'
  BY <1>1, <1>2, <1>3 DEF Reading, AfterUpdate
<1>5. Numbers'
  BY <1>1, <1>2, <1>3, <1>4 DEF LoopInv, Numbers
<1>6. Answer'
  <2>1. offset' <= sent' + 1 /\ backlog' <= sent' /\ pending' \subseteq 1..sent'
    BY <1>1, <1>2, <1>3 DEF LoopInv, Answer
  <2>2. batch' \subseteq pending' /\ batch' \in SUBSET Nat
    BY <1>1, <1>3 DEF LoopInv, Answer
  <2>3. /\ phase' \in {"down", "draining", "polling"} => batch' = {}
        /\ phase' \in {"down", "draining"} => offset' = 0
    BY <1>3 DEF AfterUpdate
  <2>4. \A k \in batch' : offset' <= k
    BY <1>2, <1>3, <1>4, <2>2
  <2>5. ASSUME NEW j \in pending' \ batch', offset' <= j, NEW k \in batch' PROVE k < j
    <3>1. j \in pending /\ j # i /\ offset <= j
      BY <1>1, <1>2, <1>3, <1>4, <2>5
    <3>2. j \notin batch /\ k \in batch
      BY <1>3, <2>5, <3>1
    <3>3. QED
      BY <3>1, <3>2 DEF LoopInv, Answer
  <2>6. QED
    BY <2>1, <2>2, <2>3, <2>4, <2>5 DEF Answer
<1>7. Dealt'
  <2> SUFFICES ASSUME NEW j \in pending, j < i + 1
               PROVE  handled'[j] > 0 \/ command[j] = "ignored" \/ j <= backlog
    BY <1>2, <1>3 DEF Dealt
  <2>1. handled \in [Ids -> Nat] /\ j \in Ids /\ j \in Nat
    BY <1>1 DEF LoopInv, Numbers
  <2>2. CASE j = i
    BY <1>3, <2>1, <2>2
  <2>3. CASE j # i
    <3>1. j < offset
      BY <1>2, <1>4, <2>1, <2>3
    <3>2. handled[j] > 0 \/ command[j] = "ignored" \/ j <= backlog
      BY <1>4, <3>1 DEF LoopInv, Dealt
    <3>3. handled'[j] = handled[j]
      BY <1>3, <2>1, <2>3
    <3>4. QED
      BY <3>2, <3>3
  <2>4. QED
    BY <2>2, <2>3
<1>8. Once'
  <2>1. handled \in [Ids -> Nat]
    BY DEF LoopInv, Numbers
  <2>2. \A j \in Ids : j # i => handled'[j] = handled[j]
    BY <1>3, <2>1
  <2>3. handled'[i] \in {handled[i], handled[i] + 1}
    BY <1>3, <1>4, <2>1
  <2>4. \A j \in Ids : handled'[j] > 0 => j <= sent'
    BY <1>1, <1>2, <1>3, <2>2 DEF LoopInv, Once
  <2>5. ASSUME "drain" \notin faults
        PROVE  /\ \A j \in Ids : handled'[j] <= 1
               /\ \A j \in pending :
                    /\ handled'[j] > 0 => j < i + 1
                    /\ i + 1 <= j => backlog < j
    <3>1. /\ \A j \in Ids : handled[j] <= 1
          /\ \A j \in pending : /\ handled[j] > 0 => j < offset
                                /\ offset <= j => backlog < j
      BY <1>4, <2>5 DEF LoopInv, Once
    <3>2. \A j \in Ids : handled'[j] <= 1
      BY <1>2, <2>2, <2>3, <2>5, <3>1
    <3>3. ASSUME NEW j \in pending, handled'[j] > 0 PROVE j < i + 1
      BY <1>1, <1>2, <1>4, <2>2, <3>1, <3>3
    <3>4. \A j \in pending : i + 1 <= j => backlog < j
      BY <1>1, <1>2, <1>4, <3>1
    <3>5. QED
      BY <3>2, <3>3, <3>4
  <2>6. QED
    BY <1>2, <1>3, <2>4, <2>5 DEF Once
<1>9. QED
  BY <1>5, <1>6, <1>7, <1>8 DEF LoopInv

LEMMA LoopInvStep == LoopInv /\ [Next]_vars => LoopInv'
<1> SUFFICES ASSUME LoopInv, [Next]_vars PROVE LoopInv'
  OBVIOUS
<1>1. CASE Boot \/ Crash
  BY <1>1, CrashAndBootKeepLoopInv
<1>2. CASE Drain
  BY <1>2, DrainKeepsLoopInv
<1>3. CASE DrainFails
  BY <1>3, DrainFailsKeepsLoopInv
<1>4. CASE Poll \/ PollLost
  BY <1>4, PollKeepsLoopInv
<1>5. CASE \E i \in batch : Handle(i)
  BY <1>5, HandleKeepsLoopInv
<1>6. CASE OpenFile \/ WriteFile \/ PersistFails \/ \E d \in BOOLEAN : Reply(d)
  <2>1. /\ UNCHANGED <<sent, command, pending, offset, batch, handled, backlog>>
        /\ "drain" \in faults => "drain" \in faults'
    BY <1>6 DEF OpenFile, WriteFile, PersistFails, Reply, chat, history
  <2>2. Reading /\ Reading'
    BY <1>6 DEF OpenFile, WriteFile, PersistFails, Reply, Reading, AfterUpdate
  <2>3. phase' = "polling" => batch = {}
    BY <1>6 DEF OpenFile, WriteFile, PersistFails, Reply, AfterUpdate
  <2>4. QED
    BY <2>1, <2>2, <2>3, LoopUntouched
<1>7. CASE \E c \in Commands : Send(c)
  BY <1>7, SendKeepsLoopInv
<1>8. CASE UNCHANGED vars
  <2>1. UNCHANGED <<sent, command, pending, phase, offset, batch, handled, backlog, faults>>
    BY <1>8 DEF vars, chat, loop, history
  <2>2. Numbers' /\ Answer' /\ Dealt' /\ Once'
    BY <2>1 DEF LoopInv, Numbers, Answer, Dealt, Once, Reading
  <2>3. QED
    BY <2>2 DEF LoopInv
<1>9. QED
  BY <1>1, <1>2, <1>3, <1>4, <1>5, <1>6, <1>7, <1>8 DEF Next, Process

\* The inductive invariant of the loop.
LEMMA LoopInvariance == SafeSpec => []LoopInv
  BY LoopInvInit, LoopInvStep, PTL DEF SafeSpec

\* No update is dispatched twice, across any number of restarts, as long as each
\* boot drained its whole backlog.
THEOREM CommandsRunOnce == SafeSpec => []AtMostOnce
<1>1. LoopInv => AtMostOnce
  BY DEF LoopInv, Once, AtMostOnce
<1>2. QED
  BY <1>1, LoopInvariance, PTL

\* What a process dispatches was sent after that process drained the backlog.
THEOREM NothingStaleAfterDrain == SafeSpec => NoReplayAfterDrain
<1> DEFINE Fresh == \A i \in Ids : handled'[i] # handled[i] /\ "drain" \notin faults => i > backlog
<1>1. LoopInv /\ [Next]_vars => [Fresh]_vars
  <2> SUFFICES ASSUME LoopInv, Next PROVE Fresh
    OBVIOUS
  <2>1. ASSUME NEW i \in batch, Handle(i) PROVE Fresh
    <3>1. "drain" \notin faults => backlog < i
      BY <2>1, HandledIsNext
    <3>2. handled' = handled \/ handled' = [handled EXCEPT ![i] = @ + 1]
      BY <2>1 DEF Handle
    <3>3. handled \in [Ids -> Nat] /\ backlog \in Nat /\ i \in Ids /\ i \in Nat
      BY PendingIsSent DEF LoopInv, Numbers, Answer
    <3>4. \A j \in Ids : j # i => handled'[j] = handled[j]
      BY <3>2, <3>3
    <3>5. QED
      BY <3>1, <3>3, <3>4
  <2>2. ASSUME ~\E i \in batch : Handle(i) PROVE handled' = handled
    BY <2>2 DEF Next, Process, Boot, Drain, DrainFails, Poll, PollLost, OpenFile,
                WriteFile, PersistFails, Reply, Crash, Send, history
  <2>3. QED
    BY <2>1, <2>2
<1>2. QED
  BY <1>1, LoopInvariance, PTL DEF SafeSpec, NoReplayAfterDrain

\* Telegram is told to drop an update only when it was dispatched, carries no
\* command or was sent before the process drained.
THEOREM NoCommandIsLost == SafeSpec => NoCommandSkipped
<1> DEFINE Kind == \A i \in pending \ pending' :
                      handled[i] > 0 \/ command[i] = "ignored" \/ i <= backlog
<1>1. LoopInv /\ [Next]_vars => [Kind]_vars
  <2> SUFFICES ASSUME LoopInv, Next PROVE Kind
    OBVIOUS
  <2>1. offset \in Nat /\ pending \in SUBSET Nat
    BY PendingIsSent
  <2>2. CASE pending' = Kept(offset)
    <3>1. \A i \in pending \ pending' : i < offset
      BY <2>1, <2>2 DEF Kept
    <3>2. CASE Reading
      BY <3>1, <3>2 DEF LoopInv, Dealt
    <3>3. CASE ~Reading
      BY <2>1, <3>1, <3>3 DEF LoopInv, Answer, Reading
    <3>4. QED
      BY <3>2, <3>3
  <2>3. CASE pending' # Kept(offset)
    <3>1. pending \subseteq pending'
      BY <2>3 DEF Next, Process, Boot, Drain, DrainFails, Poll, PollLost, Handle,
                  OpenFile, WriteFile, PersistFails, Reply, Crash, Send, chat
    <3>2. QED
      BY <3>1
  <2>4. QED
    BY <2>2, <2>3
<1>2. QED
  BY <1>1, LoopInvariance, PTL DEF SafeSpec, NoCommandSkipped

-----------------------------------------------------------------------------
(* The switch.                                                             *)

Durable == faults \cap {"write", "torn"} = {}

\* As long as every write came to its end: the operator can account for what
\* the process has and for what a restart would find, and outside of a write the
\* two are the same.
SwitchInv ==
    /\ paused \in BOOLEAN
    /\ Durable =>
        /\ phase # "down" => paused \in expected
        /\ phase # "writing" => Hydrated \in expected
        /\ phase \notin {"down", "persisting", "writing"} => paused = Hydrated

LEMMA SwitchInvInit == Init => SwitchInv
  BY Zenon DEF Init, SwitchInv, Hydrated

\* A step that leaves the switch, its file and the faults of writes alone.
LEMMA SwitchUntouched ==
  ASSUME SwitchInv, UNCHANGED <<paused, file, expected>>, Durable' => Durable,
         phase \notin {"down", "persisting", "writing"},
         phase' \notin {"down", "persisting", "writing"}
  PROVE  SwitchInv'
  BY Zenon DEF SwitchInv, Hydrated

LEMMA SwitchInvStep == SwitchInv /\ [Next]_vars => SwitchInv'
<1> SUFFICES ASSUME SwitchInv, [Next]_vars PROVE SwitchInv'
  OBVIOUS
<1>1. Durable' => Durable
  BY DEF Next, Process, Boot, Drain, DrainFails, Poll, PollLost, Handle, OpenFile,
         WriteFile, PersistFails, Reply, Crash, Send, vars, history, Durable
<1>2. CASE Boot
  <2>1. /\ phase = "down" /\ phase' = "draining" /\ paused' = Hydrated
        /\ UNCHANGED <<file, expected>>
    BY <1>2 DEF Boot, history
  <2>2. QED
    BY <1>1, <2>1, Zenon DEF SwitchInv, Hydrated
<1>3. CASE Drain \/ DrainFails \/ Poll \/ PollLost
  <2>1. /\ phase \in {"draining", "polling"} /\ phase' \in {"polling", "handling"}
        /\ UNCHANGED <<paused, file, expected>>
    BY <1>3 DEF Drain, DrainFails, Poll, PollLost, history, loop
  <2>2. QED
    BY <1>1, <2>1, SwitchUntouched
<1>4. ASSUME NEW i \in batch, Handle(i) PROVE SwitchInv'
  <2>1. CASE command[i] \in {"ignored", "run"}
    <3>1. /\ phase = "handling" /\ phase' \in {"polling", "handling", "replying"}
          /\ UNCHANGED <<paused, file, expected>>
      BY <1>4, <2>1 DEF Handle, AfterUpdate
    <3>2. QED
      BY <1>1, <3>1, SwitchUntouched
  <2>2. CASE command[i] \notin {"ignored", "run"}
    <3>1. /\ phase = "handling" /\ phase' = "persisting"
          /\ expected' = expected \cup {paused'} /\ file' = file
          /\ paused' \in BOOLEAN
      BY <1>4, <2>2 DEF Handle
    <3>2. QED
      BY <1>1, <3>1, Zenon DEF SwitchInv, Hydrated
  <2>3. QED
    BY <2>1, <2>2
<1>5. CASE OpenFile
  <2>1. /\ phase = "persisting" /\ phase' = "writing"
        /\ UNCHANGED <<paused, expected>>
    BY <1>5 DEF OpenFile, history
  <2>2. QED
    BY <1>1, <2>1, Zenon DEF SwitchInv
<1>6. CASE WriteFile
  <2>1. /\ phase = "writing" /\ phase' = "replying"
        /\ UNCHANGED <<paused, expected>>
        /\ file' = IF paused THEN "on" ELSE "off"
    BY <1>6 DEF WriteFile, history
  <2>2. Hydrated' = paused
    <3>1. CASE paused = TRUE
      BY <2>1, <3>1 DEF Hydrated
    <3>2. CASE paused = FALSE
      BY <2>1, <3>2 DEF Hydrated
    <3>3. QED
      BY <3>1, <3>2 DEF SwitchInv
  <2>3. QED
    BY <1>1, <2>1, <2>2, Zenon DEF SwitchInv
<1>7. CASE PersistFails
  BY <1>7 DEF PersistFails, SwitchInv, Durable
<1>8. ASSUME NEW d \in BOOLEAN, Reply(d) PROVE SwitchInv'
  <2>1. /\ phase = "replying" /\ phase' \in {"polling", "handling"}
        /\ UNCHANGED <<paused, file>> /\ expected' \in {expected, {paused}}
    BY <1>8 DEF Reply, AfterUpdate
  <2>2. QED
    BY <1>1, <2>1, Zenon DEF SwitchInv, Hydrated
<1>9. CASE Crash
  <2>1. /\ phase # "down" /\ phase' = "down" /\ UNCHANGED <<file, expected>>
        /\ paused' = FALSE
        /\ phase = "writing" => "torn" \in faults'
    BY <1>9 DEF Crash
  <2>2. CASE phase = "writing"
    BY <2>1, <2>2 DEF SwitchInv, Durable
  <2>3. CASE phase # "writing"
    BY <1>1, <2>1, <2>3, Zenon DEF SwitchInv, Hydrated
  <2>4. QED
    BY <2>2, <2>3
<1>10. ASSUME NEW c \in Commands, Send(c) PROVE SwitchInv'
  BY <1>1, <1>10, Zenon DEF Send, loop, history, SwitchInv, Hydrated
<1>11. CASE UNCHANGED vars
  BY <1>1, <1>11, Zenon DEF vars, loop, history, SwitchInv, Hydrated
<1>12. QED
  BY <1>2, <1>3, <1>4, <1>5, <1>6, <1>7, <1>8, <1>9, <1>10, <1>11 DEF Next, Process

\* A live process has a value of the switch that the operator was told or asked
\* for since, whatever crashes, unless a write failed or was cut off.
THEOREM SwitchIsKept == SafeSpec => []SwitchIsAccountedFor
<1>1. SwitchInv => SwitchIsAccountedFor
  BY Zenon DEF SwitchInv, SwitchIsAccountedFor, Durable
<1>2. QED
  BY <1>1, SwitchInvInit, SwitchInvStep, PTL DEF SafeSpec
=============================================================================
