------------------------ MODULE PaymentBudgetProofs -------------------------
(* Machine-checked proofs about the daily x402 budget: any number of builds  *)
(* and charges at once, any amounts, days, crashes and failed writes.        *)
EXTENDS PaymentBudget, TLAPS, FiniteSetTheorems

-----------------------------------------------------------------------------
(* Types.                                                                  *)

LEMMA DaysAre == Days \subseteq Nat /\ 1 \in Days /\ \A d \in Days : d \in 0..MaxDays
BY BudgetAssumption DEF Days

LEMMA RollOverType ==
  ASSUME TypeOK, NEW d \in Days
  PROVE  UsedOn(d) \in Nat /\ (RollOver(d) => dayUtc' \in Days /\ used' \in Nat)
BY DEF TypeOK, UsedOn, RollOver

LEMMA ReturnType ==
  ASSUME TypeOK, NEW S, Return(S)
  PROVE  /\ stage' \in [Users -> Stages]
         /\ now' \in [Payers -> Days] /\ amount' \in [Payers -> 0..Ceiling]
         /\ body' \in [Users -> [day : 0..MaxDays, used : Nat]]
BY DaysAre, BudgetAssumption DEF TypeOK, Return, NoRecord, Stages

LEMMA ReleaseType ==
  ASSUME TypeOK, NEW u \in Users, Release(u)
  PROVE  released' \in [Days -> Nat]
<1>1. CASE u \in Payers
  <2>1. now[u] \in Days /\ amount[u] \in Nat
    BY <1>1, BudgetAssumption DEF TypeOK
  <2>2. released[now[u]] + amount[u] \in Nat
    BY <2>1 DEF TypeOK
  <2>3. QED
    BY <1>1, <2>1, <2>2 DEF TypeOK, Release
<1>2. CASE u \notin Payers
  BY <1>2 DEF TypeOK, Release
<1>3. QED
  BY <1>1, <1>2

LEMMA HydratedType == TypeOK => Hydrated \in Nat
BY DEF TypeOK, Hydrated

LEMMA TypeInit == Init => TypeOK
<1>1. NoRecord \in [day : 0..MaxDays, used : Nat]
  BY BudgetAssumption DEF NoRecord
<1>2. QED
  BY <1>1, DaysAre, BudgetAssumption DEF Init, TypeOK, Stages, Users

LEMMA TypeStep == TypeOK /\ [Next]_vars => TypeOK'
<1> SUFFICES ASSUME TypeOK, [Next]_vars PROVE TypeOK'
  OBVIOUS
<1>0. clock \in Days
  BY DEF TypeOK
<1>1. ASSUME NEW p \in Payers, Check(p) PROVE TypeOK'
  <2>1. PICK a \in 1..Ceiling : Check(p)!2!(a)
    BY <1>1 DEF Check
  <2>2. dayUtc' \in Days /\ used' \in Nat
    BY <1>0, <2>1, RollOverType
  <2>3. a \in 0..Ceiling
    BY BudgetAssumption
  <2>4. p \in Users
    BY DEF Users
  <2>5. Hit("overlap", At("signing") # {}) \subseteq Hazards
    BY DEF Hit, Hazards
  <2>6. CASE Affordable(a, clock)
    BY <1>0, <1>1, <2>1, <2>2, <2>3, <2>4, <2>5, <2>6 DEF TypeOK, Check, Goto, Stages
  <2>7. CASE ~Affordable(a, clock)
    BY <1>1, <2>1, <2>2, <2>7 DEF TypeOK, Check
  <2>8. QED
    BY <2>6, <2>7
<1>2. ASSUME NEW p \in Payers, ParamsFail(p) PROVE TypeOK'
  BY <1>2, ReturnType DEF ParamsFail, TypeOK, memory
<1>3. ASSUME NEW p \in Payers, Sign(p) PROVE TypeOK'
  <2>1. now[p] \in Days /\ amount[p] \in Nat /\ p \in Users
    BY BudgetAssumption DEF TypeOK, Users
  <2>2. UsedOn(now[p]) \in Nat
    BY <2>1, RollOverType
  <2>3. dayUtc' \in Days /\ used' \in Nat
    BY <1>3, <2>1, <2>2 DEF Sign
  <2>4. [day |-> dayUtc', used |-> used'] \in [day : 0..MaxDays, used : Nat]
    BY <2>3, DaysAre
  <2>5. hazards' \subseteq Hazards
    BY <1>3 DEF Sign, Hit, Hazards, TypeOK
  <2>6. QED
    BY <1>3, <2>1, <2>3, <2>4, <2>5 DEF Sign, TypeOK, Goto, Stages
<1>4. ASSUME NEW c \in Charges, Charge(c) PROVE TypeOK'
  <2>1. dayUtc' \in Days /\ used' \in Nat
    BY <1>0, <1>4, RollOverType DEF Charge
  <2>2. [day |-> dayUtc', used |-> used'] \in [day : 0..MaxDays, used : Nat]
    BY <2>1, DaysAre
  <2>3. hazards' \subseteq Hazards /\ c \in Users
    BY <1>4 DEF Charge, Hit, Hazards, TypeOK, Users
  <2>4. QED
    BY <1>4, <2>1, <2>2, <2>3 DEF Charge, TypeOK, Goto, Stages
<1>5. ASSUME NEW u \in Users, OpenFile(u) PROVE TypeOK'
  <2>1. NoRecord \in [day : 0..MaxDays, used : Nat]
    BY BudgetAssumption DEF NoRecord
  <2>2. QED
    BY <1>5, <2>1 DEF OpenFile, TypeOK, Goto, Stages, memory
<1>6. ASSUME NEW u \in Users, WriteFile(u) PROVE TypeOK'
  <2>1. released' \in [Days -> Nat]
    BY <1>6, ReleaseType DEF WriteFile
  <2>2. file' \in [day : 0..MaxDays, used : Nat]
    BY <1>6 DEF WriteFile, TypeOK
  <2>3. QED
    BY <1>6, <2>1, <2>2, ReturnType DEF WriteFile, TypeOK, memory
<1>7. ASSUME NEW u \in Users, PersistFails(u) PROVE TypeOK'
  <2>1. released' \in [Days -> Nat]
    BY <1>7, ReleaseType DEF PersistFails
  <2>2. hazards' \subseteq Hazards
    BY <1>7 DEF PersistFails, TypeOK, Hazards
  <2>3. QED
    BY <1>7, <2>1, <2>2, ReturnType DEF PersistFails, TypeOK, memory
<1>8. CASE Report
  <2>1. dayUtc' \in Days /\ used' \in Nat
    BY <1>0, <1>8, RollOverType DEF Report
  <2>2. QED
    BY <1>8, <2>1 DEF Report, TypeOK, locals
<1>9. CASE Restart
  <2>1. hazards' \subseteq Hazards /\ crashes' \in 0..MaxCrashes
    BY <1>9, BudgetAssumption DEF Restart, TypeOK, Hit, Hazards
  <2>2. QED
    BY <1>0, <1>9, <2>1, ReturnType, HydratedType DEF Restart, TypeOK
<1>10. CASE Midnight
  <2>1. clock' \in Days
    BY <1>0, <1>10, BudgetAssumption DEF Midnight, Days
  <2>2. QED
    BY <1>10, <2>1 DEF Midnight, TypeOK, memory, locals
<1>11. CASE UNCHANGED vars
  BY <1>11 DEF vars, memory, locals, TypeOK
<1>12. QED
  BY <1>1, <1>2, <1>3, <1>4, <1>5, <1>6, <1>7, <1>8, <1>9, <1>10, <1>11 DEF Next

\* The types of the budget's state.
THEOREM TypeCorrect == SafeSpec => []TypeOK
BY TypeInit, TypeStep, PTL DEF SafeSpec

-----------------------------------------------------------------------------
(* Totals.  t is the sum of w over the payers when some function that gives *)
(* the sum of each set of payers gives t for all of them.                   *)

IsTotal(w, t) ==
    \E sum \in [SUBSET Payers -> Nat] :
      /\ sum[{}] = 0
      /\ \A T \in SUBSET Payers : \A p \in Payers \ T : sum[T \cup {p}] = sum[T] + w[p]
      /\ t = sum[Payers]

\* Nothing adds up to nothing.
LEMMA TotalOfNothing ==
  ASSUME NEW w, \A p \in Payers : w[p] = 0
  PROVE  IsTotal(w, 0)
<1> DEFINE sum == [T \in SUBSET Payers |-> 0]
<1>1. sum \in [SUBSET Payers -> Nat] /\ sum[{}] = 0 /\ sum[Payers] = 0
  OBVIOUS
<1>2. \A T \in SUBSET Payers : \A p \in Payers \ T : sum[T \cup {p}] = sum[T] + w[p]
  OBVIOUS
<1> HIDE DEF sum
<1>3. QED
  BY <1>1, <1>2 DEF IsTotal

\* A total changes by as much as one of its parts.
LEMMA TotalOfChange ==
  ASSUME NEW w \in [Payers -> Nat], NEW v \in [Payers -> Nat], NEW p \in Payers,
         \A q \in Payers \ {p} : v[q] = w[q],
         NEW t \in Nat, IsTotal(w, t)
  PROVE  w[p] <= t /\ IsTotal(v, (t - w[p]) + v[p])
<1>1. PICK sum \in [SUBSET Payers -> Nat] :
        /\ sum[{}] = 0
        /\ \A T \in SUBSET Payers : \A q \in Payers \ T : sum[T \cup {q}] = sum[T] + w[q]
        /\ t = sum[Payers]
  BY DEF IsTotal
<1> DEFINE moved == [T \in SUBSET Payers |->
                        IF p \in T THEN (sum[T] - w[p]) + v[p] ELSE sum[T]]
<1>2. ASSUME NEW T \in SUBSET Payers, p \in T
      PROVE  sum[T] \in Nat /\ w[p] <= sum[T] /\ (sum[T] - w[p]) + v[p] \in Nat
  <2>1. (T \ {p}) \cup {p} = T /\ T \ {p} \in SUBSET Payers
    BY <1>2
  <2>2. sum[T] = sum[T \ {p}] + w[p] /\ sum[T \ {p}] \in Nat
    BY <1>1, <2>1
  <2>3. QED
    BY <2>2
<1>3. moved \in [SUBSET Payers -> Nat]
  BY <1>2
<1>4. ASSUME NEW T \in SUBSET Payers, NEW q \in Payers \ T
      PROVE  moved[T \cup {q}] = moved[T] + v[q]
  <2>1. sum[T \cup {q}] = sum[T] + w[q] /\ sum[T] \in Nat /\ T \cup {q} \in SUBSET Payers
    BY <1>1
  <2>2. CASE q = p
    BY <2>1, <2>2
  <2>3. CASE q # p /\ p \in T
    <3>1. w[p] <= sum[T] /\ v[q] = w[q]
      BY <1>2, <2>3
    <3>2. QED
      BY <2>1, <2>3, <3>1
  <2>4. CASE q # p /\ p \notin T
    BY <2>1, <2>4
  <2>5. QED
    BY <2>2, <2>3, <2>4
<1>5. moved[{}] = 0 /\ moved[Payers] = (t - w[p]) + v[p]
  BY <1>1
<1> HIDE DEF moved
<1>6. IsTotal(v, (t - w[p]) + v[p])
  BY <1>3, <1>4, <1>5 DEF IsTotal
<1>7. QED
  BY <1>1, <1>2, <1>6

-----------------------------------------------------------------------------
(* The invariant behind the counter.                                       *)

\* What the builds that are writing will add to a day.
Due(d) == [p \in Payers |-> IF p \in Persisting /\ now[p] = d THEN amount[p] ELSE 0]

\* What is released and what is due do not exceed x together.
Owes(r, w, x) == \E t \in Nat : IsTotal(w, t) /\ r + t <= x

UsedIn(b) == IF b.day = clock THEN b.used ELSE 0
Bound == Limit + (Cardinality(Payers) - 1) * Ceiling

\* Nothing is ahead of the clock.
SpanInv ==
    /\ dayUtc <= clock
    /\ \A p \in Payers : stage[p] # "idle" => now[p] <= clock
    /\ \A d \in Days : d > clock => released[d] = 0

\* Nothing is ahead of the counter either, and the builds that may still sign on
\* its day leave room for each other: one of them was checked last.
Sig == {p \in Payers : stage[p] = "signing" /\ now[p] = dayUtc}
Room(S, x) == S = {} \/ \E p \in S : x + amount[p] + (Cardinality(S) - 1) * Ceiling <= Bound
Aligned ==
    /\ \A p \in Payers : stage[p] # "idle" => now[p] <= dayUtc
    /\ \A d \in Days : d > dayUtc => released[d] = 0
    /\ used <= Bound /\ file.used <= Bound /\ \A u \in Users : body[u].used <= Bound
    /\ Room(Sig, used)
StraightInv == None({"straddle"}) => Aligned

\* The counter covers what is released and due on its day, the bound that of any.
DurableInv ==
    None({"straddle"}) /\ Durable =>
      /\ \A d \in Days : Owes(released[d], Due(d), Bound)
      /\ Owes(released[dayUtc], Due(dayUtc), used)

\* The file, or the body that is being written, covers the day as well.
Recalled ==
    /\ \A u, v \in Persisting : u = v
    /\ At("writing") = {} => released[clock] <= Hydrated
    /\ \A u \in Persisting : Owes(released[clock], Due(clock), UsedIn(body[u]))
RecallInv == None({"straddle", "race", "lost"}) => Recalled

CounterInv == SpanInv /\ StraightInv /\ DurableInv /\ RecallInv

LEMMA DueType == ASSUME TypeOK, NEW d PROVE Due(d) \in [Payers -> Nat]
BY BudgetAssumption DEF TypeOK, Due

LEMMA OwesMore ==
  ASSUME NEW r \in Nat, NEW w, NEW x \in Int, NEW y \in Int, x <= y, Owes(r, w, x)
  PROVE  Owes(r, w, y) /\ r <= x
BY DEF Owes

LEMMA OwesNothing ==
  ASSUME NEW r \in Nat, NEW w, NEW x \in Int, r <= x, \A p \in Payers : w[p] = 0
  PROVE  Owes(r, w, x)
BY TotalOfNothing DEF Owes

LEMMA OwesChange ==
  ASSUME NEW w \in [Payers -> Nat], NEW v \in [Payers -> Nat], NEW p \in Payers,
         \A q \in Payers \ {p} : v[q] = w[q],
         NEW r \in Nat, NEW s \in Nat, NEW x \in Int, NEW y \in Int,
         s + v[p] + x <= r + w[p] + y, Owes(r, w, x)
  PROVE  Owes(s, v, y)
<1>1. PICK t \in Nat : IsTotal(w, t) /\ r + t <= x
  BY DEF Owes
<1>2. w[p] <= t /\ IsTotal(v, (t - w[p]) + v[p])
  BY <1>1, TotalOfChange
<1>3. (t - w[p]) + v[p] \in Nat /\ s + ((t - w[p]) + v[p]) <= y
  BY <1>1, <1>2
<1>4. QED
  BY <1>2, <1>3 DEF Owes

-----------------------------------------------------------------------------
(* What a step does to what is released and due.                           *)

\* Only a signature and its release change anything.
Quiet ==
    \/ \E p \in Payers : Check(p) \/ ParamsFail(p)
    \/ \E c \in Charges : Charge(c)
    \/ \E u \in Users : OpenFile(u)
    \/ Report \/ Midnight \/ UNCHANGED vars

LEMMA QuietSteps ==
  ASSUME TypeOK, Quiet
  PROVE  released' = released /\ \A d : Due(d)' = Due(d)
<1>1. ASSUME NEW q \in Payers
      PROVE  /\ q \in Persisting' <=> q \in Persisting
             /\ q \in Persisting => now'[q] = now[q] /\ amount'[q] = amount[q]
  <2>1. q \in Users /\ q \notin Charges
    BY BudgetAssumption DEF Users
  <2>2. ASSUME NEW p \in Payers, Check(p) PROVE <1>1!2
    <3>1. p \in Users
      BY DEF Users
    <3>2. QED
      BY <2>1, <2>2, <3>1 DEF Check, Goto, Persisting, At, TypeOK
  <2>3. ASSUME NEW p \in Payers, ParamsFail(p) PROVE <1>1!2
    BY <2>1, <2>3 DEF ParamsFail, Return, Persisting, At, TypeOK
  <2>4. ASSUME NEW c \in Charges, Charge(c) PROVE <1>1!2
    BY <2>1, <2>4 DEF Charge, Goto, Persisting, At, TypeOK
  <2>5. ASSUME NEW u \in Users, OpenFile(u) PROVE <1>1!2
    BY <2>1, <2>5 DEF OpenFile, Goto, Persisting, At, TypeOK
  <2>6. CASE Report \/ Midnight \/ UNCHANGED vars
    BY <2>1, <2>6 DEF Report, Midnight, vars, memory, locals, Persisting, At
  <2>7. QED
    BY <2>2, <2>3, <2>4, <2>5, <2>6 DEF Quiet
<1>2. \A d : Due(d)' = Due(d)
  BY <1>1 DEF Due
<1>3. released' = released
  BY DEF Quiet, Check, ParamsFail, Charge, OpenFile, Report, Midnight, vars
<1>4. QED
  BY <1>2, <1>3

\* A signature is due on the day of its check.
LEMMA SignOwes ==
  ASSUME TypeOK, NEW p \in Payers, Sign(p), NEW d \in Days, NEW x \in Int,
         Owes(released[d], Due(d), x)
  PROVE  /\ Owes(released'[d], Due(d)', x + amount[p])
         /\ d # now[p] => Owes(released'[d], Due(d)', x)
<1>1. released' = released /\ now' = now /\ amount' = amount
  BY DEF Sign
<1>2. p \in Users /\ amount[p] \in Nat /\ released[d] \in Nat
  BY BudgetAssumption DEF TypeOK, Users
<1>3. /\ p \notin Persisting /\ p \in Persisting'
      /\ \A q \in Payers \ {p} : q \in Persisting' <=> q \in Persisting
  BY <1>2 DEF Sign, Goto, Persisting, At, TypeOK, Users
<1>4. Due(d) \in [Payers -> Nat] /\ Due(d)' \in [Payers -> Nat]
  BY <1>1, BudgetAssumption DEF TypeOK, Due
<1>5. \A q \in Payers \ {p} : Due(d)'[q] = Due(d)[q]
  BY <1>1, <1>3 DEF Due
<1>6. Due(d)[p] = 0 /\ Due(d)'[p] = IF d = now[p] THEN amount[p] ELSE 0
  BY <1>1, <1>3 DEF Due
<1>7. Owes(released[d], Due(d)', x + amount[p])
  <2>1. released[d] + Due(d)'[p] + x <= released[d] + Due(d)[p] + (x + amount[p])
    BY <1>2, <1>6
  <2>2. x + amount[p] \in Int
    BY <1>2
  <2>3. QED
    BY <1>2, <1>4, <1>5, <2>1, <2>2, OwesChange
<1>8. ASSUME d # now[p] PROVE Owes(released[d], Due(d)', x)
  <2>1. released[d] + Due(d)'[p] + x <= released[d] + Due(d)[p] + x
    BY <1>2, <1>6, <1>8
  <2>2. QED
    BY <1>2, <1>4, <1>5, <2>1, OwesChange
<1>9. QED
  BY <1>1, <1>7, <1>8

\* Handing out a signature moves its amount from what is due.
LEMMA ReleaseOwes ==
  ASSUME TypeOK, NEW u \in Users, WriteFile(u) \/ PersistFails(u),
         NEW d \in Days, NEW x \in Int, Owes(released[d], Due(d), x)
  PROVE  Owes(released'[d], Due(d)', x)
<1>1. u \in Persisting /\ Return({u}) /\ Release(u)
  BY DEF WriteFile, PersistFails, Persisting, At
<1>2. /\ \A q \in Payers \ {u} : /\ q \in Persisting' <=> q \in Persisting
                                 /\ now'[q] = now[q] /\ amount'[q] = amount[q]
      /\ u \notin Persisting'
  BY <1>1 DEF Return, Persisting, At, Users
<1>3. CASE u \notin Payers
  <2>1. released' = released
    BY <1>1, <1>3 DEF Release
  <2>2. Due(d)' = Due(d)
    BY <1>2, <1>3 DEF Due
  <2>3. QED
    BY <2>1, <2>2
<1>4. CASE u \in Payers
  <2>1. amount[u] \in Nat /\ released[d] \in Nat /\ now[u] \in Days
    BY <1>4, BudgetAssumption DEF TypeOK
  <2>2. Due(d) \in [Payers -> Nat]
    BY DueType
  <2>3. \A q \in Payers \ {u} : Due(d)'[q] = Due(d)[q]
    BY <1>2 DEF Due
  <2>4. Due(d)'[u] = 0 /\ Due(d)[u] = IF now[u] = d THEN amount[u] ELSE 0
    BY <1>1, <1>2, <1>4 DEF Due
  <2>5. Due(d)' \in [Payers -> Nat]
    <3>1. \A q \in Payers : Due(d)'[q] \in Nat
      BY <2>2, <2>3, <2>4
    <3>2. Due(d)' = [q \in Payers |-> Due(d)'[q]]
      BY DEF Due
    <3>3. QED
      BY <3>1, <3>2
  <2>6. released'[d] = released[d] + IF now[u] = d THEN amount[u] ELSE 0
    BY <1>1, <1>4, <2>1 DEF Release, TypeOK
  <2>7. released'[d] \in Nat /\ released'[d] + Due(d)'[u] + x <= released[d] + Due(d)[u] + x
    BY <2>1, <2>4, <2>6
  <2>8. QED
    BY <1>4, <2>1, <2>2, <2>3, <2>5, <2>7, OwesChange
<1>5. QED
  BY <1>3, <1>4

\* Nothing is forgotten of what went wrong.
LEMMA HazardsGrow == [Next]_vars => hazards \subseteq hazards' /\ crashes' \in {crashes, crashes + 1}
BY DEF Next, vars, Check, ParamsFail, Sign, Charge, OpenFile, WriteFile, PersistFails,
       Report, Restart, Midnight

-----------------------------------------------------------------------------
(* Every step keeps the invariant.                                         *)

LEMMA SpanKeeps == TypeOK /\ SpanInv /\ [Next]_vars => SpanInv'
<1> SUFFICES ASSUME TypeOK, SpanInv, [Next]_vars PROVE SpanInv'
  OBVIOUS
<1>0. /\ clock \in Nat /\ dayUtc \in Nat /\ Payers \subseteq Users /\ Days \subseteq Nat
      /\ \A p \in Payers : now[p] \in Nat /\ now[p] \in Days
  BY DaysAre DEF TypeOK, Users
<1>1. ASSUME NEW p \in Payers, Check(p) PROVE SpanInv'
  BY <1>0, <1>1 DEF SpanInv, TypeOK, Check, Goto, RollOver
<1>2. ASSUME NEW p \in Payers, ParamsFail(p) PROVE SpanInv'
  BY <1>0, <1>2 DEF SpanInv, TypeOK, ParamsFail, Return, memory
<1>3. ASSUME NEW p \in Payers, Sign(p) PROVE SpanInv'
  BY <1>0, <1>3 DEF SpanInv, TypeOK, Sign, Goto
<1>4. ASSUME NEW c \in Charges, Charge(c) PROVE SpanInv'
  BY <1>0, <1>4, BudgetAssumption DEF SpanInv, TypeOK, Charge, Goto, RollOver
<1>5. ASSUME NEW u \in Users, OpenFile(u) PROVE SpanInv'
  BY <1>0, <1>5 DEF SpanInv, TypeOK, OpenFile, Goto, memory
<1>6. ASSUME NEW u \in Users, WriteFile(u) \/ PersistFails(u) PROVE SpanInv'
  <2>1. /\ dayUtc' = dayUtc /\ clock' = clock /\ Return({u}) /\ Release(u)
        /\ stage[u] # "idle"
    BY <1>6 DEF WriteFile, PersistFails, memory
  <2>2. \A d \in Days : d > clock => released'[d] = released[d]
    <3>1. CASE u \in Payers
      BY <1>0, <2>1, <3>1 DEF Release, SpanInv, TypeOK
    <3>2. CASE u \notin Payers
      BY <2>1, <3>2 DEF Release
    <3>3. QED
      BY <3>1, <3>2
  <2>3. \A p \in Payers : stage'[p] # "idle" => stage[p] # "idle" /\ now'[p] = now[p]
    BY <1>0, <2>1 DEF Return
  <2>4. QED
    BY <2>1, <2>2, <2>3 DEF SpanInv
<1>7. CASE Report
  <2>1. dayUtc' = clock /\ clock' = clock /\ released' = released /\ stage' = stage /\ now' = now
    BY <1>7 DEF Report, RollOver, locals
  <2>2. QED
    BY <1>0, <2>1 DEF SpanInv
<1>8. CASE Restart
  BY <1>0, <1>8 DEF SpanInv, Restart, Return
<1>9. CASE Midnight
  BY <1>0, <1>9 DEF SpanInv, Midnight, memory, locals, TypeOK
<1>10. CASE UNCHANGED vars
  BY <1>10 DEF SpanInv, vars, memory, locals
<1>11. QED
  BY <1>1, <1>2, <1>3, <1>4, <1>5, <1>6, <1>7, <1>8, <1>9, <1>10 DEF Next

\* Multiples of the ceiling.
LEMMA Multiples ==
  \A j, k \in Nat : /\ j * Ceiling \in Nat
                    /\ j <= k => j * Ceiling <= k * Ceiling
                    /\ (j + 1) * Ceiling = j * Ceiling + Ceiling
BY BudgetAssumption

LEMMA PayersCount ==
  /\ Cardinality(Payers) \in Nat \ {0} /\ Bound \in Nat /\ Limit <= Bound
  /\ \A S \in SUBSET Payers :
        /\ IsFiniteSet(S) /\ Cardinality(S) \in Nat /\ Cardinality(S) <= Cardinality(Payers)
        /\ S # {} => Cardinality(S) - 1 \in Nat
        /\ \A p \in S : Cardinality(S \ {p}) = Cardinality(S) - 1
<1>1. ASSUME NEW S \in SUBSET Payers
      PROVE  /\ IsFiniteSet(S) /\ Cardinality(S) \in Nat /\ Cardinality(S) <= Cardinality(Payers)
             /\ S # {} => Cardinality(S) - 1 \in Nat
             /\ \A p \in S : Cardinality(S \ {p}) = Cardinality(S) - 1
  <2>1. IsFiniteSet(S) /\ Cardinality(S) <= Cardinality(Payers)
    BY BudgetAssumption, FS_Subset
  <2>2. Cardinality(S) \in Nat /\ (Cardinality(S) = 0 <=> S = {})
    BY <2>1, FS_CardinalityType, FS_EmptySet
  <2>3. \A p \in S : Cardinality(S \ {p}) = Cardinality(S) - 1
    BY <2>1, FS_RemoveElement
  <2>4. QED
    BY <2>1, <2>2, <2>3
<1>2. Cardinality(Payers) \in Nat /\ Cardinality(Payers) - 1 \in Nat
  BY <1>1, BudgetAssumption
<1>3. (Cardinality(Payers) - 1) * Ceiling \in Nat
  BY <1>2, Multiples
<1>4. Bound \in Nat /\ Limit <= Bound
  BY <1>3, BudgetAssumption DEF Bound
<1>5. QED
  BY <1>1, <1>2, <1>4

\* One that leaves without signing leaves its room, one that signs takes its
\* amount of it.
LEMMA RoomShrinks ==
  ASSUME TypeOK, NEW S \in SUBSET Payers, NEW p \in S, Room(S, used)
  PROVE  /\ Room(S \ {p}, used) /\ Room(S \ {p}, used + amount[p])
         /\ used + amount[p] <= Bound
<1> DEFINE n == Cardinality(S)
           R == S \ {p}
<1>1. PICK w \in S : used + amount[w] + (n - 1) * Ceiling <= Bound
  BY DEF Room
<1>2. n - 1 \in Nat /\ Cardinality(R) = n - 1 /\ R \in SUBSET Payers /\ n \in Nat
  BY PayersCount
<1>3. /\ used \in Nat /\ Bound \in Nat /\ Ceiling \in Nat
      /\ \A q \in S : amount[q] \in Nat /\ amount[q] <= Ceiling
  BY PayersCount, BudgetAssumption DEF TypeOK
<1>4. (n - 1) * Ceiling \in Nat
  BY <1>2, Multiples
<1>5. ASSUME NEW q \in R
      PROVE  /\ n - 2 \in Nat /\ (Cardinality(R) - 1) * Ceiling \in Nat
             /\ (Cardinality(R) - 1) * Ceiling + Ceiling = (n - 1) * Ceiling
  <2>1. Cardinality(R) - 1 \in Nat
    BY <1>2, PayersCount
  <2>2. n - 2 \in Nat /\ (n - 2) + 1 = n - 1 /\ Cardinality(R) - 1 = n - 2
    BY <1>2, <2>1
  <2>3. QED
    BY <2>2, Multiples
<1> HIDE DEF n
<1>6. ASSUME NEW q \in R
      PROVE  /\ used + amount[q] + (Cardinality(R) - 1) * Ceiling <= Bound
             /\ \/ used + amount[p] + amount[q] + (Cardinality(R) - 1) * Ceiling <= Bound
                \/ used + amount[p] + amount[w] + (Cardinality(R) - 1) * Ceiling <= Bound /\ w \in R
             /\ used + amount[p] <= Bound
  <2>1. /\ (Cardinality(R) - 1) * Ceiling \in Nat
        /\ (Cardinality(R) - 1) * Ceiling + Ceiling = (n - 1) * Ceiling
    BY <1>5
  <2>2. used + amount[q] + (Cardinality(R) - 1) * Ceiling <= Bound
    BY <1>1, <1>3, <1>4, <2>1
  <2>3. CASE w = p
    BY <1>1, <1>3, <1>4, <2>1, <2>2, <2>3
  <2>4. CASE w # p
    BY <1>1, <1>3, <1>4, <2>1, <2>2, <2>4
  <2>5. QED
    BY <2>3, <2>4, <2>2
<1>7. CASE R = {}
  <2>1. w = p
    BY <1>7
  <2>2. used + amount[p] <= Bound
    BY <1>1, <1>3, <1>4, <2>1
  <2>3. QED
    BY <1>7, <2>2 DEF Room
<1>8. CASE R # {}
  BY <1>6, <1>8 DEF Room
<1>9. QED
  BY <1>7, <1>8

LEMMA NoneGrows ==
  ASSUME [Next]_vars, NEW H
  PROVE  None(H)' => None(H)
BY HazardsGrow DEF None

\* A counter that rolls over has nobody left to wait for.
LEMMA RollOverRoom ==
  ASSUME TypeOK, SpanInv, Aligned, RollOver(clock), clock' = clock,
         now' = now, amount' = amount, file' = file, released' = released,
         \A p \in Payers : /\ stage'[p] = "signing" <=> stage[p] = "signing"
                           /\ stage'[p] # "idle" => stage[p] # "idle"
  PROVE  /\ dayUtc' = clock /\ used' \in Nat /\ used' <= Bound /\ Room(Sig, used)'
         /\ \A p \in Payers : stage'[p] # "idle" => now'[p] <= dayUtc'
         /\ \A d \in Days : d > dayUtc' => released'[d] = 0
         /\ file'.used <= Bound
<1>1. /\ clock \in Nat /\ dayUtc \in Nat /\ used \in Nat /\ Bound \in Nat /\ Days \subseteq Nat
      /\ \A p \in Payers : now[p] \in Nat
  BY PayersCount, DaysAre DEF TypeOK
<1>2. CASE dayUtc = clock
  <2>1. used' = used /\ dayUtc' = dayUtc
    BY <1>2 DEF RollOver, UsedOn
  <2>2. Sig' = Sig
    BY <2>1 DEF Sig
  <2>3. Room(Sig, used)'
    BY <2>1, <2>2 DEF Aligned, Room
  <2>4. QED
    BY <1>1, <1>2, <2>1, <2>3 DEF Aligned
<1>3. CASE dayUtc # clock
  <2>1. used' = 0 /\ dayUtc' = clock /\ dayUtc < clock
    BY <1>1, <1>3 DEF RollOver, UsedOn, SpanInv
  <2>2. Sig' = {}
    BY <1>1, <2>1 DEF Sig, Aligned
  <2>3. Room(Sig, used)'
    BY <2>2 DEF Room
  <2>4. QED
    BY <1>1, <2>1, <2>3 DEF Aligned, SpanInv
<1>4. QED
  BY <1>2, <1>3

\* Who is checked last leaves room for all the others.
LEMMA CheckRoom ==
  ASSUME TypeOK, SpanInv, Aligned, NEW p \in Payers, Check(p)
  PROVE  Aligned'
<1>0. /\ clock \in Nat /\ clock \in Days /\ dayUtc \in Nat /\ used \in Nat /\ Bound \in Nat
      /\ Days \subseteq Nat /\ p \in Users
      /\ \A q \in Payers : now[q] \in Nat /\ q \in Users
      /\ Limit \in Nat /\ Ceiling \in Nat
  BY PayersCount, DaysAre, BudgetAssumption DEF TypeOK, Users
<1>1. PICK a \in 1..Ceiling : Check(p)!2!(a)
  BY DEF Check
<1>2. RollOver(clock) /\ UsedOn(clock) \in Nat
  BY <1>0, <1>1, RollOverType
<1>3. clock' = clock /\ released' = released /\ file' = file /\ body' = body
  BY DEF Check
<1>4. CASE ~Affordable(a, clock)
  <2>1. amount' = amount /\ now' = now /\ stage' = stage
    BY <1>1, <1>4
  <2>2. QED
    BY <1>2, <1>3, <2>1, RollOverRoom DEF Aligned
<1>5. CASE Affordable(a, clock)
  <2>1. /\ amount' = [amount EXCEPT ![p] = a] /\ now' = [now EXCEPT ![p] = clock]
        /\ stage' = [stage EXCEPT ![p] = "signing"]
    BY <1>1, <1>5 DEF Goto
  <2>2. dayUtc' = clock /\ used' = UsedOn(clock) /\ used' + a <= Limit /\ a \in Nat
    BY <1>0, <1>2, <1>5 DEF RollOver, Affordable
  <2>3. used' <= Bound
    BY <1>0, <1>2, <2>2, PayersCount
  <2>4. \A q \in Payers : stage'[q] # "idle" => now'[q] <= dayUtc'
    BY <1>0, <2>1, <2>2 DEF SpanInv, TypeOK
  <2>5. Sig' \in SUBSET Payers /\ p \in Sig' /\ amount'[p] = a
    BY <1>0, <2>1, <2>2 DEF Sig, TypeOK
  <2>6. used' + amount'[p] + (Cardinality(Sig') - 1) * Ceiling <= Bound
    <3>1. /\ Cardinality(Sig') - 1 \in Nat /\ Cardinality(Payers) - 1 \in Nat
          /\ Cardinality(Sig') - 1 <= Cardinality(Payers) - 1
      BY <2>5, PayersCount
    <3>2. /\ (Cardinality(Sig') - 1) * Ceiling <= (Cardinality(Payers) - 1) * Ceiling
          /\ (Cardinality(Sig') - 1) * Ceiling \in Nat /\ (Cardinality(Payers) - 1) * Ceiling \in Nat
      BY <3>1, Multiples
    <3>3. QED
      BY <1>0, <1>2, <2>2, <2>5, <3>2 DEF Bound
  <2>7. Room(Sig, used)'
    BY <2>5, <2>6 DEF Room
  <2>8. QED
    BY <1>0, <1>3, <2>2, <2>3, <2>4, <2>7 DEF Aligned, SpanInv
<1>6. QED
  BY <1>4, <1>5

LEMMA StraightKeeps == TypeOK /\ SpanInv /\ StraightInv /\ [Next]_vars => StraightInv'
<1> SUFFICES ASSUME TypeOK, SpanInv, Aligned, [Next]_vars, None({"straddle"})'
             PROVE  Aligned'
  BY NoneGrows DEF StraightInv
<1>0. /\ clock \in Nat /\ dayUtc \in Nat /\ used \in Nat /\ Bound \in Nat /\ Days \subseteq Nat
      /\ \A q \in Payers : /\ now[q] \in Nat /\ now[q] \in Days /\ q \in Users
                           /\ q \notin Charges /\ amount[q] \in Nat
      /\ Sig \in SUBSET Payers
  <2>1. \A q \in Payers : /\ now[q] \in Nat /\ now[q] \in Days /\ q \in Users
                          /\ q \notin Charges /\ amount[q] \in Nat
    <3>1. \A q \in Payers : q \in Users /\ q \notin Charges
      BY BudgetAssumption DEF Users
    <3>2. ASSUME NEW q \in Payers
          PROVE  now[q] \in Nat /\ now[q] \in Days /\ amount[q] \in Nat
      <4>1. now[q] \in Days /\ amount[q] \in 0..Ceiling
        BY DEF TypeOK
      <4>2. now[q] \in Nat
        BY <4>1, DaysAre
      <4>3. amount[q] \in Nat
        BY <4>1, BudgetAssumption
      <4>4. QED
        BY <4>1, <4>2, <4>3
    <3>3. QED
      BY <3>1, <3>2
  <2>2. QED
    BY <2>1, PayersCount, DaysAre DEF TypeOK, Sig
<1>1. ASSUME NEW p \in Payers, Check(p) PROVE Aligned'
  BY <1>1, CheckRoom
<1>2. ASSUME NEW p \in Payers, ParamsFail(p) PROVE Aligned'
  <2>1. /\ \A q \in Payers \ {p} : /\ stage'[q] = stage[q] /\ now'[q] = now[q]
                                   /\ amount'[q] = amount[q]
        /\ stage'[p] = "idle" /\ dayUtc' = dayUtc /\ used' = used /\ released' = released
        /\ file' = file /\ stage[p] = "signing"
    BY <1>0, <1>2 DEF ParamsFail, Return, memory
  <2>2. \A u \in Users : body'[u].used <= Bound
    BY <1>0, <1>2 DEF ParamsFail, Return, NoRecord, Aligned
  <2>3. Sig' = Sig \ {p}
    BY <2>1 DEF Sig
  <2>4. Room(Sig \ {p}, used)
    <3>1. CASE p \in Sig
      BY <1>0, <3>1, RoomShrinks DEF Aligned
    <3>2. CASE p \notin Sig
      BY <3>2, Sig \ {p} = Sig DEF Aligned
    <3>3. QED
      BY <3>1, <3>2
  <2>5. Room(Sig, used)'
    BY <2>1, <2>3, <2>4 DEF Room, Sig
  <2>6. QED
    BY <1>0, <2>1, <2>2, <2>5 DEF Aligned
<1>3. ASSUME NEW p \in Payers, Sign(p) PROVE Aligned'
  <2>1. now[p] = dayUtc
    BY <1>3 DEF Sign, Hit, None
  <2>2. used' = used + amount[p] /\ dayUtc' = dayUtc /\ p \in Sig
    BY <1>3, <2>1 DEF Sign, UsedOn, Sig
  <2>3. Room(Sig \ {p}, used') /\ used' <= Bound
    BY <1>0, <2>2, RoomShrinks DEF Aligned
  <2>4. /\ now' = now /\ amount' = amount /\ released' = released /\ file' = file
        /\ stage' = [stage EXCEPT ![p] = "opening"]
    BY <1>3 DEF Sign, Goto
  <2>5. Sig' = Sig \ {p}
    BY <1>0, <2>2, <2>4 DEF Sig, TypeOK
  <2>6. Room(Sig, used)'
    BY <2>3, <2>4, <2>5 DEF Room
  <2>7. \A u \in Users : body'[u].used <= Bound
    BY <1>0, <1>3, <2>3 DEF Sign, Aligned, TypeOK
  <2>8. \A q \in Payers : stage'[q] # "idle" => now'[q] <= dayUtc'
    BY <1>0, <1>3, <2>1, <2>2, <2>4 DEF Sign, Aligned, TypeOK
  <2>9. QED
    BY <2>2, <2>3, <2>4, <2>6, <2>7, <2>8 DEF Aligned
<1>4. ASSUME NEW c \in Charges, Charge(c) PROVE Aligned'
  <2>1. /\ clock' = clock /\ now' = now /\ amount' = amount /\ file' = file
        /\ released' = released /\ RollOver(clock)
        /\ \A p \in Payers : stage'[p] = stage[p]
        /\ body' = [body EXCEPT ![c] = [day |-> dayUtc', used |-> used']]
    BY <1>0, <1>4 DEF Charge, Goto, TypeOK
  <2>2. /\ used' <= Bound /\ Room(Sig, used)' /\ file'.used <= Bound
        /\ \A p \in Payers : stage'[p] # "idle" => now'[p] <= dayUtc'
        /\ \A d \in Days : d > dayUtc' => released'[d] = 0
    BY <2>1, RollOverRoom
  <2>3. \A u \in Users : body'[u].used <= Bound
    BY <2>1, <2>2 DEF Aligned, TypeOK
  <2>4. QED
    BY <2>2, <2>3 DEF Aligned
<1>5. ASSUME NEW u \in Users, OpenFile(u) PROVE Aligned'
  <2>1. /\ dayUtc' = dayUtc /\ used' = used /\ now' = now /\ amount' = amount /\ body' = body
        /\ released' = released /\ file' = NoRecord
        /\ stage' = [stage EXCEPT ![u] = "writing"] /\ stage[u] = "opening"
    BY <1>5 DEF OpenFile, Goto, memory
  <2>2. Sig' = Sig /\ file'.used <= Bound
    BY <1>0, <2>1 DEF Sig, NoRecord, TypeOK
  <2>3. \A q \in Payers : stage'[q] # "idle" => stage[q] # "idle"
    BY <1>0, <2>1 DEF TypeOK
  <2>4. Room(Sig, used)'
    BY <2>1, <2>2 DEF Room, Aligned
  <2>5. QED
    BY <2>1, <2>2, <2>3, <2>4 DEF Aligned
<1>6. ASSUME NEW u \in Users, WriteFile(u) \/ PersistFails(u) PROVE Aligned'
  <2>1. /\ dayUtc' = dayUtc /\ used' = used /\ Return({u}) /\ Release(u)
        /\ stage[u] \in {"opening", "writing"} /\ file' \in {file, body[u]}
    BY <1>6 DEF WriteFile, PersistFails, memory
  <2>2. /\ \A q \in Payers \ {u} : /\ stage'[q] = stage[q] /\ now'[q] = now[q]
                                   /\ amount'[q] = amount[q]
        /\ stage'[u] = "idle"
    BY <1>0, <2>1 DEF Return
  <2>3. \A v \in Users : body'[v].used <= Bound
    BY <1>0, <2>1 DEF Return, NoRecord, Aligned
  <2>4. file'.used <= Bound
    BY <2>1 DEF Aligned
  <2>5. Sig' = Sig /\ u \notin Sig
    BY <2>1, <2>2 DEF Sig
  <2>6. Room(Sig, used)'
    BY <2>1, <2>2, <2>5 DEF Room, Aligned, Sig
  <2>7. \A d \in Days : d > dayUtc => released'[d] = 0
    <3>1. CASE u \in Payers
      <4>1. now[u] <= dayUtc
        BY <2>1, <3>1 DEF Aligned
      <4>2. QED
        BY <1>0, <2>1, <3>1, <4>1 DEF Release, Aligned, TypeOK
    <3>2. CASE u \notin Payers
      BY <2>1, <3>2 DEF Release, Aligned
    <3>3. QED
      BY <3>1, <3>2
  <2>8. QED
    BY <2>1, <2>2, <2>3, <2>4, <2>6, <2>7 DEF Aligned
<1>7. CASE Report
  <2>1. /\ clock' = clock /\ now' = now /\ amount' = amount /\ file' = file
        /\ released' = released /\ RollOver(clock) /\ stage' = stage /\ body' = body
    BY <1>7 DEF Report, locals
  <2>2. QED
    BY <2>1, RollOverRoom DEF Aligned
<1>8. CASE Restart
  <2>1. /\ dayUtc' = clock /\ used' = Hydrated /\ file' = file /\ released' = released
        /\ \A u \in Users : stage'[u] = "idle" /\ body'[u] = NoRecord
    BY <1>8 DEF Restart, Return
  <2>2. used' <= Bound /\ Sig' = {}
    BY <1>0, <2>1 DEF Hydrated, Aligned, Sig
  <2>3. \A d \in Days : d > dayUtc' => released'[d] = 0
    BY <2>1 DEF SpanInv
  <2>4. QED
    BY <1>0, <2>1, <2>2, <2>3 DEF Aligned, Room, NoRecord
<1>9. CASE Midnight \/ UNCHANGED vars
  <2>1. /\ dayUtc' = dayUtc /\ used' = used /\ now' = now /\ amount' = amount /\ body' = body
        /\ released' = released /\ file' = file /\ stage' = stage
    BY <1>9 DEF Midnight, vars, memory, locals
  <2>2. QED
    BY <2>1 DEF Aligned, Room, Sig
<1>10. QED
  BY <1>1, <1>2, <1>3, <1>4, <1>5, <1>6, <1>7, <1>8, <1>9 DEF Next

\* Before its first build of a day nothing is owed on it.
LEMMA NothingAhead ==
  ASSUME TypeOK, Aligned, NEW d \in Days, d > dayUtc
  PROVE  released[d] = 0 /\ \A p \in Payers : Due(d)[p] = 0
<1>1. \A p \in Payers : p \in Persisting => stage[p] # "idle"
  BY DEF Persisting, At
<1>2. dayUtc \in Nat /\ d \in Nat /\ \A p \in Payers : now[p] \in Nat
  BY DaysAre DEF TypeOK
<1>3. QED
  BY <1>1, <1>2 DEF Aligned, Due

\* What a counter that rolls over starts with is what is owed.
LEMMA RollOverOwes ==
  ASSUME TypeOK, SpanInv, Aligned, Owes(released[dayUtc], Due(dayUtc), used),
         RollOver(clock)
  PROVE  Owes(released[clock], Due(clock), used')
<1>1. clock \in Days /\ clock \in Nat /\ dayUtc \in Nat /\ released[clock] \in Nat
  BY DaysAre DEF TypeOK
<1>2. CASE dayUtc = clock
  BY <1>2 DEF RollOver, UsedOn
<1>3. CASE dayUtc # clock
  <2>1. clock > dayUtc /\ used' = 0
    BY <1>1, <1>3 DEF SpanInv, RollOver, UsedOn
  <2>2. released[clock] = 0 /\ \A p \in Payers : Due(clock)[p] = 0
    BY <1>1, <2>1, NothingAhead
  <2>3. QED
    BY <1>1, <2>1, <2>2, OwesNothing
<1>4. QED
  BY <1>2, <1>3

LEMMA DurableKeeps ==
  TypeOK /\ SpanInv /\ StraightInv /\ DurableInv /\ RecallInv /\ [Next]_vars => DurableInv'
<1> SUFFICES ASSUME TypeOK, SpanInv, StraightInv, DurableInv, RecallInv, [Next]_vars,
                    None({"straddle"})', Durable'
             PROVE  /\ \A d \in Days : Owes(released'[d], Due(d)', Bound)
                    /\ Owes(released'[dayUtc'], Due(dayUtc)', used')
  BY DEF DurableInv
<1>0. /\ clock \in Days /\ dayUtc \in Days /\ clock \in Nat /\ used \in Nat
      /\ Bound \in Nat /\ Limit <= Bound /\ crashes \in Nat
      /\ \A d \in Days : d \in Nat /\ released[d] \in Nat
  BY PayersCount, DaysAre DEF TypeOK
<1>1. Aligned /\ Aligned' /\ TypeOK'
  BY StraightKeeps, NoneGrows, TypeStep DEF StraightInv
<1>2. Durable
  <2>1. crashes' = 0 => crashes = 0
    BY <1>0, HazardsGrow
  <2>2. QED
    BY <2>1, NoneGrows DEF Durable
<1>3. /\ \A d \in Days : Owes(released[d], Due(d), Bound)
      /\ Owes(released[dayUtc], Due(dayUtc), used)
  BY <1>2, NoneGrows DEF DurableInv
<1>4. used' \in Nat /\ used' <= Bound /\ dayUtc' \in Days
  BY <1>1 DEF Aligned, TypeOK
<1>5. CASE Quiet
  <2>1. released' = released /\ \A d : Due(d)' = Due(d)
    BY <1>5, QuietSteps
  <2>2. (dayUtc' = dayUtc /\ used' = used) \/ RollOver(clock)
    BY <1>5 DEF Quiet, Check, ParamsFail, Charge, OpenFile, Report, Midnight, vars, memory
  <2>3. CASE dayUtc' = dayUtc /\ used' = used
    <3>1. Due(dayUtc)' = Due(dayUtc)
      BY <2>1, <2>3 DEF Due
    <3>2. QED
      BY <1>3, <2>1, <2>3, <3>1
  <2>4. CASE RollOver(clock)
    <3>1. dayUtc' = clock /\ Owes(released[clock], Due(clock), used')
      BY <1>1, <1>3, <2>4, RollOverOwes DEF RollOver
    <3>2. Due(dayUtc)' = [p \in Payers |->
            IF p \in Persisting' /\ now'[p] = dayUtc' THEN amount'[p] ELSE 0]
      BY DEF Due
    <3>3. Due(clock)' = [p \in Payers |->
            IF p \in Persisting' /\ now'[p] = clock' THEN amount'[p] ELSE 0]
      BY DEF Due
    <3>4. Due(dayUtc)' = Due(clock)
      <4>1. PICK d \in Days : d = clock
        BY <1>0
      <4>2. Due(d)' = Due(d)
        BY <2>1
      <4>3. Due(d)' = Due(dayUtc)' /\ Due(d) = Due(clock)
        BY <3>1, <4>1 DEF Due
      <4>4. QED
        BY <4>2, <4>3
    <3>5. QED
      BY <1>3, <2>1, <3>1, <3>4
  <2>5. QED
    BY <2>2, <2>3, <2>4
<1>6. ASSUME NEW p \in Payers, Sign(p)
      PROVE  /\ \A d \in Days : Owes(released'[d], Due(d)', Bound)
             /\ Owes(released'[dayUtc'], Due(dayUtc)', used')
  <2>1. now[p] = dayUtc
    BY <1>6 DEF Sign, Hit, None
  <2>2. used' = used + amount[p] /\ dayUtc' = dayUtc /\ released' = released
    BY <1>6, <2>1 DEF Sign, UsedOn
  <2>3. PICK e \in Days : e = dayUtc
    BY <1>0
  <2>4. Owes(released'[e], Due(e)', used')
    <3>1. Owes(released[e], Due(e), used) /\ used \in Int
      BY <1>0, <1>3, <2>3
    <3>2. QED
      BY <1>6, <2>2, <3>1, SignOwes
  <2>5. Due(dayUtc)' = Due(e)'
    BY <2>2, <2>3 DEF Due
  <2>6. ASSUME NEW d \in Days PROVE Owes(released'[d], Due(d)', Bound)
    <3>1. CASE d = e
      BY <1>0, <1>4, <2>2, <2>4, <3>1, OwesMore
    <3>2. CASE d # e
      <4>1. Owes(released[d], Due(d), Bound) /\ Bound \in Int /\ d # now[p]
        BY <1>0, <1>3, <2>1, <2>3, <3>2
      <4>2. QED
        BY <1>6, <4>1, SignOwes
    <3>3. QED
      BY <3>1, <3>2
  <2>7. QED
    BY <2>2, <2>3, <2>4, <2>5, <2>6
<1>7. ASSUME NEW u \in Users, WriteFile(u) \/ PersistFails(u)
      PROVE  /\ \A d \in Days : Owes(released'[d], Due(d)', Bound)
             /\ Owes(released'[dayUtc'], Due(dayUtc)', used')
  <2>1. used' = used /\ dayUtc' = dayUtc
    BY <1>7 DEF WriteFile, PersistFails, memory
  <2>2. PICK e \in Days : e = dayUtc
    BY <1>0
  <2>3. Owes(released'[e], Due(e)', used)
    <3>1. Owes(released[e], Due(e), used) /\ used \in Int
      BY <1>0, <1>3, <2>2
    <3>2. QED
      BY <1>7, <3>1, ReleaseOwes
  <2>4. Due(dayUtc)' = Due(e)'
    BY <2>1, <2>2 DEF Due
  <2>5. ASSUME NEW d \in Days PROVE Owes(released'[d], Due(d)', Bound)
    <3>1. Owes(released[d], Due(d), Bound) /\ Bound \in Int
      BY <1>0, <1>3
    <3>2. QED
      BY <1>7, <3>1, ReleaseOwes
  <2>6. QED
    BY <2>1, <2>2, <2>3, <2>4, <2>5
<1>8. CASE Restart
  <2>1. /\ dayUtc' = clock /\ used' = Hydrated /\ released' = released /\ crashes' = crashes + 1
        /\ \A u \in Users : stage'[u] = "idle"
    BY <1>8 DEF Restart, Return
  <2>2. None({"race", "lost"})'
    BY <1>0, <2>1 DEF Durable
  <2>3. At("writing") = {}
    BY <1>8, <2>2 DEF Restart, Hit, None
  <2>4. released[clock] <= Hydrated
    BY <2>2, <2>3, HazardsGrow DEF RecallInv, Recalled, None
  <2>5. \A p \in Payers : p \notin Persisting'
    BY <2>1 DEF Persisting, At, Users
  <2>6. /\ \A p \in Payers : Due(dayUtc)'[p] = 0
        /\ \A d : \A p \in Payers : Due(d)'[p] = 0
    BY <2>5 DEF Due
  <2>7. Owes(released'[dayUtc'], Due(dayUtc)', used')
    <3>1. released[clock] \in Nat /\ used' \in Int /\ released[clock] <= used'
      BY <1>0, <1>4, <2>1, <2>4
    <3>2. QED
      BY <2>1, <2>6, <3>1, OwesNothing
  <2>8. ASSUME NEW d \in Days PROVE Owes(released'[d], Due(d)', Bound)
    <3>1. released[d] <= Bound /\ Bound \in Int
      BY <1>0, <1>3, OwesMore
    <3>2. QED
      BY <1>0, <2>1, <2>6, <3>1, OwesNothing
  <2>9. QED
    BY <2>7, <2>8
<1>9. QED
  BY <1>5, <1>6, <1>7, <1>8 DEF Next, Quiet

\* A body that is about to be written covers its day.
LEMMA RecallKeeps ==
  TypeOK /\ SpanInv /\ StraightInv /\ DurableInv /\ RecallInv /\ [Next]_vars => RecallInv'
<1> SUFFICES ASSUME TypeOK, SpanInv, StraightInv, DurableInv, RecallInv, [Next]_vars,
                    None({"straddle", "race", "lost"})'
             PROVE  Recalled'
  BY DEF RecallInv
<1>0. /\ clock \in Days /\ dayUtc \in Days /\ clock \in Nat /\ used \in Nat
      /\ dayUtc \in Nat /\ Days \subseteq Nat
      /\ \A d \in Days : d \in Nat /\ released[d] \in Nat
  BY DaysAre DEF TypeOK
<1>1. Aligned /\ Aligned' /\ TypeOK' /\ SpanInv'
  BY StraightKeeps, SpanKeeps, NoneGrows, TypeStep DEF StraightInv, None
<1>2. /\ \A u, v \in Persisting : u = v
      /\ At("writing") = {} => released[clock] <= Hydrated
      /\ \A u \in Persisting : Owes(released[clock], Due(clock), UsedIn(body[u]))
  BY NoneGrows DEF RecallInv, Recalled
<1>3. Owes(released[dayUtc], Due(dayUtc), used)
  <2>1. None({"straddle"}) /\ Durable
    BY NoneGrows DEF None, Durable
  <2>2. QED
    BY <2>1 DEF DurableInv
<1>4. Owes(released'[clock'], Due(clock)', IF dayUtc' = clock' THEN used' ELSE 0)
  <2>1. /\ clock' \in Nat /\ dayUtc' \in Nat /\ clock' \in Days /\ dayUtc' <= clock'
        /\ \A q \in Payers : now'[q] \in Nat
    BY <1>1, DaysAre DEF SpanInv, TypeOK
  <2>2. CASE dayUtc' = clock'
    <3>1. DurableInv' /\ None({"straddle"})' /\ Durable'
      BY DurableKeeps DEF None, Durable
    <3>2. Owes(released'[dayUtc'], Due(dayUtc)', used')
      BY <3>1 DEF DurableInv
    <3>3. Due(dayUtc)' = Due(clock)'
      BY <2>2 DEF Due
    <3>4. QED
      BY <2>2, <3>2, <3>3
  <2>3. CASE dayUtc' # clock'
    <3>1. \A q \in Payers : q \in Persisting' => now'[q] # clock'
      BY <1>1, <2>1, <2>3 DEF Aligned, Persisting, At
    <3>2. \A q \in Payers : Due(clock)'[q] = 0
      BY <3>1 DEF Due
    <3>3. released'[clock'] = 0
      BY <1>1, <2>1, <2>3 DEF Aligned
    <3>4. QED
      BY <2>3, <3>2, <3>3, OwesNothing
  <2>4. QED
    BY <2>2, <2>3
<1>5. ASSUME NEW u \in Users, Persisting = {}, Persisting' = {u}, clock' = clock, file' = file,
             released' = released, body'[u] = [day |-> dayUtc', used |-> used']
      PROVE  Recalled'
  <2>1. At("writing") = {} /\ Hydrated' = Hydrated
    BY <1>5 DEF Persisting, Hydrated
  <2>2. UsedIn(body[u])' = IF dayUtc' = clock' THEN used' ELSE 0
    BY <1>5 DEF UsedIn
  <2>3. QED
    BY <1>2, <1>4, <1>5, <2>1, <2>2 DEF Recalled
<1>6. ASSUME NEW p \in Payers, Sign(p) PROVE Recalled'
  <2>1. Persisting = {} /\ p \in Users
    BY <1>6 DEF Sign, Hit, None, Users
  <2>2. Persisting' = {p}
    BY <1>6, <2>1 DEF Sign, Goto, Persisting, At, TypeOK
  <2>3. body'[p] = [day |-> dayUtc', used |-> used']
    BY <1>6, <2>1 DEF Sign, TypeOK
  <2>4. QED
    BY <1>5, <1>6, <2>1, <2>2, <2>3 DEF Sign
<1>7. ASSUME NEW c \in Charges, Charge(c) PROVE Recalled'
  <2>1. Persisting = {} /\ c \in Users
    BY <1>7 DEF Charge, Hit, None, Users
  <2>2. Persisting' = {c}
    BY <1>7, <2>1 DEF Charge, Goto, Persisting, At, TypeOK
  <2>3. body'[c] = [day |-> dayUtc', used |-> used']
    BY <1>7, <2>1 DEF Charge, TypeOK
  <2>4. QED
    BY <1>5, <1>7, <2>1, <2>2, <2>3 DEF Charge
<1>8. ASSUME Quiet, Persisting' = Persisting, At("writing")' = At("writing") \/ At("writing")' # {},
             clock' = clock, file' = file \/ At("writing")' # {},
             \A u \in Persisting : body'[u] = body[u]
      PROVE  Recalled'
  <2>1. released' = released /\ \A d : Due(d)' = Due(d)
    BY <1>8, QuietSteps
  <2>2. Due(clock)' = Due(clock)
    <3>1. PICK d \in Days : d = clock
      BY <1>0
    <3>2. Due(d)' = Due(d)
      BY <2>1
    <3>3. Due(d)' = Due(clock)' /\ Due(d) = Due(clock)
      BY <1>8, <3>1 DEF Due
    <3>4. QED
      BY <3>2, <3>3
  <2>3. \A u \in Persisting : UsedIn(body[u])' = UsedIn(body[u])
    BY <1>8 DEF UsedIn
  <2>4. At("writing")' = {} => Hydrated' = Hydrated
    BY <1>8 DEF Hydrated
  <2>5. QED
    <3>1. \A u \in Persisting' :
            Owes(released'[clock'], Due(clock)', UsedIn(body[u])')
      BY <1>2, <1>8, <2>1, <2>2, <2>3
    <3>2. At("writing")' = {} => released'[clock'] <= Hydrated'
      BY <1>2, <1>8, <2>1, <2>4
    <3>3. QED
      BY <1>2, <1>8, <3>1, <3>2 DEF Recalled
<1>9. ASSUME NEW p \in Payers, Check(p) PROVE Recalled'
  <2>1. p \in Users /\ stage[p] = "idle" /\ stage' \in {stage, [stage EXCEPT ![p] = "signing"]}
    BY <1>9 DEF Check, Goto, Users
  <2>2. Persisting' = Persisting /\ At("writing")' = At("writing")
    BY <2>1 DEF Persisting, At, TypeOK
  <2>3. QED
    BY <1>8, <1>9, <2>2 DEF Check, Quiet
<1>10. ASSUME NEW p \in Payers, ParamsFail(p) PROVE Recalled'
  <2>1. p \in Users /\ stage[p] = "signing" /\ Return({p}) /\ clock' = clock /\ file' = file
    BY <1>10 DEF ParamsFail, Users
  <2>2. /\ Persisting' = Persisting /\ At("writing")' = At("writing") /\ p \notin Persisting
    BY <2>1 DEF Persisting, At, Return, TypeOK
  <2>3. \A u \in Persisting : body'[u] = body[u]
    BY <2>1, <2>2 DEF Return, Persisting, At
  <2>4. QED
    BY <1>8, <1>10, <2>1, <2>2, <2>3 DEF Quiet
<1>11. ASSUME NEW u \in Users, OpenFile(u) PROVE Recalled'
  <2>1. Persisting' = Persisting /\ u \in At("writing")'
    BY <1>11 DEF OpenFile, Goto, Persisting, At, TypeOK
  <2>2. QED
    BY <1>8, <1>11, <2>1 DEF OpenFile, Quiet
<1>12. CASE Report \/ UNCHANGED vars
  <2>1. /\ Persisting' = Persisting /\ At("writing")' = At("writing")
        /\ clock' = clock /\ file' = file /\ body' = body
    BY <1>12 DEF Report, vars, locals, Persisting, At
  <2>2. QED
    BY <1>8, <1>12, <2>1 DEF Quiet
<1>13. CASE Midnight
  <2>1. /\ clock' = clock + 1 /\ Persisting' = Persisting /\ released' = released
        /\ body' = body /\ now' = now /\ stage' = stage
    BY <1>13 DEF Midnight, locals, Persisting, At
  <2>2. clock' \in Days /\ released'[clock'] = 0
    BY <1>0, <1>1, <2>1 DEF SpanInv, TypeOK
  <2>3. \A q \in Payers : q \in Persisting' => now'[q] # clock'
    BY <1>0, <2>1 DEF SpanInv, Persisting, At, TypeOK
  <2>4. \A q \in Payers : Due(clock)'[q] = 0
    BY <2>3 DEF Due
  <2>5. \A u \in Users : UsedIn(body[u])' \in Nat
    BY <1>1 DEF UsedIn, TypeOK
  <2>6. Hydrated' \in Nat
    BY <1>1 DEF Hydrated, TypeOK
  <2>7. \A u \in Persisting' : Owes(released'[clock'], Due(clock)', UsedIn(body[u])')
    BY <2>2, <2>4, <2>5, OwesNothing DEF Persisting, At
  <2>8. QED
    BY <1>2, <2>1, <2>2, <2>6, <2>7 DEF Recalled
<1>14. ASSUME NEW u \in Users, WriteFile(u) PROVE Recalled'
  <2>1. u \in Persisting /\ Return({u}) /\ clock' = clock /\ file' = body[u]
    BY <1>14 DEF WriteFile, Persisting, At
  <2>2. Persisting' = {}
    BY <1>2, <2>1 DEF Persisting, At, Return
  <2>3. UsedIn(body[u]) \in Nat /\ Hydrated' = UsedIn(body[u])
    BY <2>1 DEF UsedIn, Hydrated, TypeOK
  <2>4. Owes(released'[clock], Due(clock)', UsedIn(body[u]))
    <3>1. PICK d \in Days : d = clock
      BY <1>0
    <3>2. Owes(released[d], Due(d), UsedIn(body[u])) /\ UsedIn(body[u]) \in Int
      BY <1>2, <2>1, <2>3, <3>1
    <3>3. Owes(released'[d], Due(d)', UsedIn(body[u]))
      BY <1>14, <3>2, ReleaseOwes
    <3>4. Due(d)' = Due(clock)'
      BY <2>1, <3>1 DEF Due
    <3>5. QED
      BY <3>1, <3>3, <3>4
  <2>5. released'[clock] <= UsedIn(body[u])
    <3>1. released'[clock] \in Nat /\ UsedIn(body[u]) \in Int /\ UsedIn(body[u]) <= UsedIn(body[u])
      BY <1>0, <1>1, <2>3 DEF TypeOK
    <3>2. QED
      BY <2>4, <3>1, OwesMore
  <2>6. QED
    <3>1. released'[clock'] <= Hydrated'
      BY <2>1, <2>3, <2>5
    <3>2. QED
      BY <2>2, <3>1 DEF Recalled
<1>15. ASSUME NEW u \in Users, PersistFails(u) PROVE Recalled'
  BY <1>15 DEF PersistFails, None
<1>16. CASE Restart
  <2>1. At("writing") = {} /\ clock' = clock /\ file' = file /\ released' = released
    BY <1>16 DEF Restart, Hit, None
  <2>2. Persisting' = {}
    BY <1>16 DEF Restart, Return, Persisting, At
  <2>3. Hydrated' = Hydrated
    BY <2>1 DEF Hydrated
  <2>4. QED
    BY <1>2, <2>1, <2>2, <2>3 DEF Recalled
<1>17. QED
  BY <1>6, <1>7, <1>9, <1>10, <1>11, <1>12, <1>13, <1>14, <1>15, <1>16 DEF Next

LEMMA CounterInvInit == Init => CounterInv
<1> SUFFICES ASSUME Init PROVE CounterInv
  OBVIOUS
<1>1. /\ Bound \in Nat /\ 1 \in Days /\ TypeOK
  BY PayersCount, DaysAre, TypeInit
<1>2. At("signing") = {} /\ Persisting = {} /\ Sig = {}
  BY DEF Init, At, Persisting, Sig, Users
<1>3. \A d : \A p \in Payers : Due(d)[p] = 0
  BY <1>2 DEF Due
<1>4. \A d \in Days : released[d] = 0
  BY DEF Init
<1>5. SpanInv
  BY <1>4, DaysAre DEF Init, SpanInv, Users
<1>6. StraightInv
  BY <1>1, <1>2, <1>4 DEF Init, StraightInv, Aligned, Room, NoRecord, Users
<1>7. DurableInv
  <2>1. \A d \in Days : Owes(released[d], Due(d), Bound)
    BY <1>1, <1>3, <1>4, OwesNothing
  <2>2. Owes(released[dayUtc], Due(dayUtc), used)
    BY <1>1, <1>3, <1>4, OwesNothing DEF Init
  <2>3. QED
    BY <2>1, <2>2 DEF DurableInv
<1>8. RecallInv
  BY <1>1, <1>2, <1>4 DEF Init, RecallInv, Recalled, Hydrated, NoRecord
<1>9. QED
  BY <1>5, <1>6, <1>7, <1>8 DEF CounterInv

LEMMA CounterInvStep == TypeOK /\ CounterInv /\ [Next]_vars => CounterInv'
BY SpanKeeps, StraightKeeps, DurableKeeps, RecallKeeps DEF CounterInv

LEMMA CounterInvHolds == SafeSpec => [](TypeOK /\ CounterInv)
<1>1. TypeOK /\ CounterInv /\ [Next]_vars => (TypeOK /\ CounterInv)'
  BY TypeStep, CounterInvStep
<1>2. QED
  BY <1>1, TypeInit, CounterInvInit, PTL DEF SafeSpec

\* As long as the counter is on its day it covers every signature of that day.
THEOREM CounterIsComplete == SafeSpec => []CounterCoversReleased
<1>1. TypeOK /\ CounterInv => CounterCoversReleased
  <2> SUFFICES ASSUME TypeOK, DurableInv, None({"straddle"}), Durable
               PROVE  released[dayUtc] <= used
    BY DEF CounterInv, CounterCoversReleased
  <2>1. Owes(released[dayUtc], Due(dayUtc), used)
    BY DEF DurableInv
  <2>2. released[dayUtc] \in Nat /\ used \in Int /\ used <= used
    BY DEF TypeOK
  <2>3. QED
    BY <2>1, <2>2, OwesMore
<1>2. QED
  BY <1>1, CounterInvHolds, PTL

\* However many builds overlap, one ceiling for each but the first is the most
\* that a day exceeds the cap by.
THEOREM OvershootHasBound == SafeSpec => []OvershootIsBounded
<1>1. TypeOK /\ CounterInv => OvershootIsBounded
  <2> SUFFICES ASSUME TypeOK, DurableInv, None({"straddle"}), Durable, NEW d \in Days
               PROVE  released[d] <= Bound
    BY DEF CounterInv, OvershootIsBounded, Bound
  <2>1. Owes(released[d], Due(d), Bound)
    BY DEF DurableInv
  <2>2. released[d] \in Nat /\ Bound \in Int /\ Bound <= Bound
    BY PayersCount DEF TypeOK
  <2>3. QED
    BY <2>1, <2>2, OwesMore
<1>2. QED
  BY <1>1, CounterInvHolds, PTL

\* A restart finds every signature of the day that was handed out before it.
THEOREM RestartIsInformed == SafeSpec => []RestartRemembers
<1>1. TypeOK /\ CounterInv => RestartRemembers
  BY DEF CounterInv, RecallInv, Recalled, RestartRemembers
<1>2. QED
  BY <1>1, CounterInvHolds, PTL

-----------------------------------------------------------------------------
(* The cap itself, when no two builds overlap and the file is intact.      *)

\* What is released of a day, and any one amount that is due, is at most x.
Covered(d, x) == released[d] <= x /\ \A p \in Payers : released[d] + Due(d)[p] <= x

\* One build signs and one writes at a time; the one that signs still fits.
Capped ==
    /\ \A p, q \in At("signing") \cap Payers : p = q
    /\ \A u, v \in Persisting : u = v
    /\ \A d \in Days : Covered(d, Limit)
    /\ \A d \in Days : d >= clock => Covered(d, UsedOn(d))
    /\ \A p \in At("signing") \cap Payers : \A d \in Days :
          /\ d = now[p] => Covered(d, Limit - amount[p])
          /\ d > now[p] => Covered(d, 0)
    /\ At("writing") = {} => released[clock] <= Hydrated
    /\ \A u \in Persisting : \A d \in Days : d = clock => Covered(d, UsedIn(body[u]))
CapInv == None({"overlap", "race", "lost"}) => Capped

LEMMA CoveredMore ==
  ASSUME TypeOK, NEW d \in Days, NEW x \in Int, NEW y \in Int, x <= y, Covered(d, x)
  PROVE  Covered(d, y)
<1>1. released[d] \in Nat /\ \A p \in Payers : Due(d)[p] \in Nat
  BY DueType DEF TypeOK
<1>2. QED
  BY <1>1 DEF Covered

\* Ahead of the clock there is nothing to cover.
LEMMA AheadIsCovered ==
  TypeOK /\ SpanInv => \A d \in Days : d > clock => Covered(d, 0)
<1> SUFFICES ASSUME TypeOK, SpanInv, NEW d \in Days, d > clock PROVE Covered(d, 0)
  OBVIOUS
<1>1. released[d] = 0
  BY DEF SpanInv
<1>2. \A p \in Payers : Due(d)[p] = 0
  <2>1. \A p \in Payers : p \in Persisting => now[p] # d
    BY DaysAre DEF SpanInv, TypeOK, Persisting, At
  <2>2. QED
    BY <2>1 DEF Due
<1>3. QED
  BY <1>1, <1>2 DEF Covered

LEMMA QuietCovers ==
  ASSUME TypeOK, Quiet, NEW d, NEW x, Covered(d, x)
  PROVE  Covered(d, x)'
<1>1. released' = released /\ Due(d)' = Due(d)
  BY QuietSteps
<1>2. QED
  BY <1>1 DEF Covered

LEMMA SignCovers ==
  ASSUME TypeOK, NEW p \in Payers, Sign(p), Persisting = {}, NEW d \in Days, NEW x \in Int
  PROVE  /\ Covered(d, x - amount[p]) => Covered(d, x)'
         /\ d # now[p] /\ Covered(d, x) => Covered(d, x)'
<1>1. released' = released /\ now' = now /\ amount' = amount
  BY DEF Sign
<1>2. p \in Users /\ amount[p] \in Nat /\ released[d] \in Nat
  BY BudgetAssumption DEF TypeOK, Users
<1>3. Persisting' = {p}
  BY <1>2 DEF Sign, Goto, Persisting, At, TypeOK
<1>4. \A q \in Payers : Due(d)'[q] = IF q = p /\ now[p] = d THEN amount[p] ELSE 0
  BY <1>1, <1>3 DEF Due
<1>5. QED
  BY <1>1, <1>2, <1>4 DEF Covered

\* When the only build that writes is done, nothing is due.
LEMMA WriteCovers ==
  ASSUME TypeOK, NEW u \in Users, WriteFile(u), \A v, w \in Persisting : v = w,
         NEW d \in Days, NEW x \in Int, Covered(d, x)
  PROVE  Covered(d, x)'
<1>1. u \in Persisting /\ Return({u}) /\ Release(u)
  BY DEF WriteFile, Persisting, At
<1>2. Persisting' = {}
  BY <1>1 DEF Persisting, At, Return
<1>3. \A q \in Payers : Due(d)'[q] = 0
  BY <1>2 DEF Due
<1>4. released'[d] \in Nat /\ released'[d] <= x
  <2>1. CASE u \notin Payers
    BY <1>1, <2>1 DEF Release, Covered, TypeOK
  <2>2. CASE u \in Payers
    <3>1. amount[u] \in Nat /\ released[d] \in Nat /\ now[u] \in Days
      BY <2>2, BudgetAssumption DEF TypeOK
    <3>2. released'[d] = released[d] + IF now[u] = d THEN amount[u] ELSE 0
      BY <1>1, <2>2, <3>1 DEF Release, TypeOK
    <3>3. Due(d)[u] = IF now[u] = d THEN amount[u] ELSE 0
      BY <1>1, <2>2 DEF Due
    <3>4. QED
      BY <2>2, <3>1, <3>2, <3>3 DEF Covered
  <2>3. QED
    BY <2>1, <2>2
<1>5. QED
  BY <1>3, <1>4 DEF Covered

LEMMA CapKeeps == TypeOK /\ SpanInv /\ CapInv /\ [Next]_vars => CapInv'
<1> SUFFICES ASSUME TypeOK, SpanInv, CapInv, [Next]_vars, None({"overlap", "race", "lost"})'
             PROVE  Capped'
  BY DEF CapInv
<1>0. /\ clock \in Days /\ dayUtc \in Days /\ clock \in Nat /\ used \in Nat /\ Limit \in Nat
      /\ dayUtc \in Nat /\ dayUtc <= clock /\ Days \subseteq Nat /\ TypeOK' /\ SpanInv'
      /\ \A d \in Days : d \in Nat /\ released[d] \in Nat /\ UsedOn(d) \in Nat
      /\ \A p \in Payers : /\ p \in Users /\ p \notin Charges /\ now[p] \in Days
                           /\ now[p] \in Nat /\ amount[p] \in Nat
  <2>1. \A p \in Payers : /\ p \in Users /\ p \notin Charges /\ now[p] \in Days
                          /\ now[p] \in Nat /\ amount[p] \in Nat
    <3>1. \A p \in Payers : p \in Users /\ p \notin Charges
      BY BudgetAssumption DEF Users
    <3>2. \A p \in Payers : now[p] \in Days /\ now[p] \in Nat
      BY DaysAre DEF TypeOK
    <3>3. \A p \in Payers : amount[p] \in Nat
      BY BudgetAssumption DEF TypeOK
    <3>4. QED
      BY <3>1, <3>2, <3>3
  <2>2. TypeOK' /\ SpanInv'
    BY SpanKeeps, TypeStep
  <2>3. QED
    BY <2>1, <2>2, DaysAre, BudgetAssumption DEF TypeOK, SpanInv, UsedOn
<1>1. Capped
  BY HazardsGrow DEF CapInv, None
<1>2. /\ \A d \in Days : UsedOn(d)' = IF d = dayUtc' THEN used' ELSE 0
      /\ RollOver(clock) => \A d \in Days : d >= clock => UsedOn(d)' = UsedOn(d)
  <2>1. \A d \in Days : UsedOn(d)' = IF d = dayUtc' THEN used' ELSE 0
    BY DEF UsedOn
  <2>2. ASSUME RollOver(clock), NEW d \in Days, d >= clock PROVE UsedOn(d)' = UsedOn(d)
    BY <1>0, <2>2 DEF UsedOn, RollOver
  <2>3. QED
    BY <2>1, <2>2
<1>3. ASSUME Quiet, clock' = clock
      PROVE  \A d \in Days : /\ Covered(d, Limit)'
                             /\ d >= clock => Covered(d, UsedOn(d))'
  <2> SUFFICES ASSUME NEW d \in Days
               PROVE  Covered(d, Limit)' /\ (d >= clock => Covered(d, UsedOn(d))')
    OBVIOUS
  <2>1. Covered(d, Limit)'
    BY <1>1, <1>3, QuietCovers DEF Capped
  <2>2. ASSUME d >= clock PROVE Covered(d, UsedOn(d))'
    <3>1. released' = released /\ Due(d)' = Due(d)
      BY <1>3, QuietSteps
    <3>2. UsedOn(d)' = UsedOn(d)
      <4>1. RollOver(clock) \/ (dayUtc' = dayUtc /\ used' = used)
        BY <1>3 DEF Quiet, Check, ParamsFail, Charge, OpenFile, Report, Midnight, vars, memory
      <4>2. QED
        BY <1>2, <2>2, <4>1 DEF UsedOn
    <3>3. Covered(d, UsedOn(d))
      BY <1>1, <2>2 DEF Capped
    <3>4. QED
      BY <3>1, <3>2, <3>3 DEF Covered
  <2>3. QED
    BY <2>1, <2>2
\* A step on which nobody signs or writes who did not before.
<1>4. ASSUME Quiet, clock' = clock, Persisting' = Persisting,
             At("writing")' # {} \/ (At("writing")' = At("writing") /\ file' = file),
             \A u \in Persisting : body'[u] = body[u],
             \A p \in At("signing")' \cap Payers :
               p \in At("signing") /\ now'[p] = now[p] /\ amount'[p] = amount[p]
      PROVE  Capped'
  <2>1. \A p, q \in At("signing")' \cap Payers : p = q
    BY <1>1, <1>4 DEF Capped
  <2>2. \A u, v \in Persisting' : u = v
    BY <1>1, <1>4 DEF Capped
  <2>3. ASSUME NEW p \in At("signing")' \cap Payers, NEW d \in Days
        PROVE  /\ d = now'[p] => Covered(d, Limit - amount[p])'
               /\ d > now'[p] => Covered(d, 0)'
    <3>1. /\ d = now[p] => Covered(d, Limit - amount[p])
          /\ d > now[p] => Covered(d, 0)
      BY <1>1, <1>4 DEF Capped
    <3>2. released' = released /\ Due(d)' = Due(d)
      BY <1>4, QuietSteps
    <3>3. QED
      BY <1>4, <3>1, <3>2 DEF Covered
  <2>4. At("writing")' = {} => released'[clock'] <= Hydrated'
    <3>1. released' = released
      BY <1>4, QuietSteps
    <3>2. QED
      BY <1>1, <1>4, <3>1 DEF Capped, Hydrated
  <2>5. ASSUME NEW u \in Persisting', NEW d \in Days, d = clock'
        PROVE  Covered(d, UsedIn(body[u]))'
    <3>1. Covered(d, UsedIn(body[u]))
      BY <1>1, <1>4, <2>5 DEF Capped
    <3>2. UsedIn(body[u])' = UsedIn(body[u])
      BY <1>4, <2>5 DEF UsedIn
    <3>3. released' = released /\ Due(d)' = Due(d)
      BY <1>4, QuietSteps
    <3>4. QED
      BY <3>1, <3>2, <3>3 DEF Covered
  <2>6. QED
    BY <1>3, <1>4, <2>1, <2>2, <2>3, <2>4, <2>5 DEF Capped
<1>5. ASSUME NEW p \in Payers, Check(p) PROVE Capped'
  <2>1. PICK a \in 1..Ceiling : Check(p)!2!(a)
    BY <1>5 DEF Check
  <2>2. /\ clock' = clock /\ file' = file /\ body' = body /\ Quiet
        /\ stage[p] = "idle" /\ p \in Users /\ a \in Nat
    BY <1>0, <1>5, BudgetAssumption DEF Check, Quiet
  <2>3. CASE ~Affordable(a, clock)
    <3>1. stage' = stage /\ now' = now /\ amount' = amount
      BY <2>1, <2>3
    <3>2. QED
      BY <1>4, <2>2, <3>1 DEF Persisting, At
  <2>4. CASE Affordable(a, clock)
    <3>1. /\ stage' = [stage EXCEPT ![p] = "signing"] /\ now' = [now EXCEPT ![p] = clock]
          /\ amount' = [amount EXCEPT ![p] = a] /\ At("signing") = {}
          /\ dayUtc' = clock /\ used' = UsedOn(clock) /\ UsedOn(clock) + a <= Limit
      BY <2>1, <2>4 DEF Goto, Hit, None, RollOver, Affordable
    <3>2. At("signing")' = {p} /\ Persisting' = Persisting /\ At("writing")' = At("writing")
      BY <2>2, <3>1 DEF Persisting, At, TypeOK
    <3>3. now'[p] = clock /\ amount'[p] = a
      BY <3>1 DEF TypeOK
    <3>4. ASSUME NEW d \in Days
          PROVE  /\ d = clock => Covered(d, Limit - a)'
                 /\ d > clock => Covered(d, 0)'
      <4>1. ASSUME d = clock PROVE Covered(d, Limit - a)'
        <5>1. Covered(d, UsedOn(d)) /\ UsedOn(d) \in Int /\ Limit - a \in Int
              /\ UsedOn(d) <= Limit - a
          BY <1>0, <1>1, <2>2, <3>1, <4>1 DEF Capped
        <5>2. Covered(d, Limit - a)
          BY <5>1, CoveredMore
        <5>3. QED
          BY <2>2, <5>2, QuietCovers
      <4>2. ASSUME d > clock PROVE Covered(d, 0)'
        <5>1. Covered(d, 0)
          BY <4>2, AheadIsCovered
        <5>2. QED
          BY <2>2, <5>1, QuietCovers
      <4>3. QED
        BY <4>1, <4>2
    <3>5. \A q \in At("signing")' \cap Payers : \A d \in Days :
            /\ d = now'[q] => Covered(d, Limit - amount[q])'
            /\ d > now'[q] => Covered(d, 0)'
      <4>1. \A d \in Days : d = now'[p] => Covered(d, Limit - amount[p])'
        BY <3>3, <3>4 DEF Covered
      <4>2. QED
        BY <3>2, <3>3, <3>4, <4>1
    <3>6. At("writing")' = {} => released'[clock'] <= Hydrated'
      BY <1>1, <1>5, <2>2, <3>2 DEF Capped, Hydrated, Check
    <3>7. ASSUME NEW u \in Persisting', NEW d \in Days, d = clock'
          PROVE  Covered(d, UsedIn(body[u]))'
      <4>1. Covered(d, UsedIn(body[u])) /\ UsedIn(body[u])' = UsedIn(body[u])
        BY <1>1, <2>2, <3>2, <3>7 DEF Capped, UsedIn
      <4>2. released' = released /\ Due(d)' = Due(d)
        BY <2>2, QuietSteps
      <4>3. QED
        BY <4>1, <4>2 DEF Covered
    <3>8. QED
      BY <1>1, <1>3, <2>2, <3>2, <3>5, <3>6, <3>7 DEF Capped
  <2>5. QED
    BY <2>3, <2>4
<1>6. ASSUME NEW p \in Payers, ParamsFail(p) PROVE Capped'
  <2>1. p \in Users /\ stage[p] = "signing" /\ Return({p}) /\ clock' = clock /\ file' = file
    BY <1>0, <1>6 DEF ParamsFail
  <2>2. /\ Persisting' = Persisting /\ At("writing")' = At("writing") /\ p \notin Persisting
        /\ At("signing")' = At("signing") \ {p}
    BY <2>1 DEF Persisting, At, Return, TypeOK
  <2>3. \A u \in Persisting : body'[u] = body[u]
    BY <2>1, <2>2 DEF Return, Persisting, At
  <2>4. \A q \in At("signing")' \cap Payers : now'[q] = now[q] /\ amount'[q] = amount[q]
    BY <2>1, <2>2 DEF Return
  <2>5. QED
    BY <1>4, <1>6, <2>1, <2>2, <2>3, <2>4 DEF Quiet
<1>7. ASSUME NEW p \in Payers, Sign(p) PROVE Capped'
  <2>1. Persisting = {} /\ p \in Users /\ p \in At("signing") \cap Payers
    BY <1>0, <1>7 DEF Sign, Hit, None, At
  <2>2. /\ Persisting' = {p} /\ At("signing")' = At("signing") \ {p}
        /\ At("writing")' = At("writing") /\ now' = now /\ amount' = amount
        /\ clock' = clock /\ file' = file /\ released' = released
        /\ dayUtc' = now[p] /\ used' = UsedOn(now[p]) + amount[p]
        /\ body'[p] = [day |-> dayUtc', used |-> used']
    BY <1>7, <2>1 DEF Sign, Goto, Persisting, At, TypeOK
  <2>3. At("signing")' \cap Payers = {}
    BY <1>1, <2>1, <2>2 DEF Capped
  <2>4. ASSUME NEW d \in Days PROVE Covered(d, Limit)'
    <3>1. CASE d = now[p]
      BY <1>0, <1>1, <1>7, <2>1, <3>1, SignCovers DEF Capped
    <3>2. CASE d # now[p]
      BY <1>0, <1>1, <1>7, <2>1, <3>2, SignCovers DEF Capped
    <3>3. QED
      BY <3>1, <3>2
  <2>5. ASSUME NEW d \in Days, d >= clock PROVE Covered(d, UsedOn(d))'
    <3>1. CASE d = now[p]
      <4>1. Covered(d, UsedOn(d)) /\ UsedOn(d)' = UsedOn(d) + amount[p]
        BY <1>1, <1>2, <2>2, <2>5, <3>1 DEF Capped
      <4>2. UsedOn(d) + amount[p] \in Int /\ (UsedOn(d) + amount[p]) - amount[p] = UsedOn(d)
        BY <1>0
      <4>3. PICK y \in Int : y = UsedOn(d) + amount[p]
        BY <4>2
      <4>4. Covered(d, y - amount[p])
        BY <4>1, <4>2, <4>3
      <4>5. Covered(d, y)'
        BY <1>7, <2>1, <4>4, SignCovers
      <4>6. QED
        BY <4>1, <4>3, <4>5 DEF Covered
    <3>2. CASE d # now[p]
      <4>1. now[p] <= clock
        BY <1>0, <2>1 DEF SpanInv, At
      <4>2. d > now[p]
        BY <1>0, <2>5, <3>2, <4>1
      <4>3. Covered(d, 0)
        BY <1>1, <2>1, <4>2 DEF Capped
      <4>4. Covered(d, 0)'
        BY <1>7, <2>1, <3>2, <4>3, SignCovers
      <4>5. UsedOn(d)' = 0
        BY <1>2, <2>2, <3>2
      <4>6. QED
        BY <4>4, <4>5 DEF Covered
    <3>3. QED
      BY <3>1, <3>2
  <2>6. At("writing")' = {} => released'[clock'] <= Hydrated'
    BY <1>1, <2>2 DEF Capped, Hydrated
  <2>7. ASSUME NEW d \in Days, d = clock' PROVE Covered(d, UsedIn(body[p]))'
    <3>1. UsedIn(body[p])' = UsedOn(d)'
      BY <1>2, <2>2, <2>7 DEF UsedIn
    <3>2. Covered(d, UsedOn(d))'
      BY <1>0, <2>2, <2>5, <2>7
    <3>3. QED
      BY <3>1, <3>2 DEF Covered
  <2>8. QED
    BY <2>2, <2>3, <2>4, <2>5, <2>6, <2>7 DEF Capped
<1>8. ASSUME NEW c \in Charges, Charge(c) PROVE Capped'
  <2>1. Persisting = {} /\ c \in Users /\ Quiet
    BY <1>8 DEF Charge, Hit, None, Users, Quiet
  <2>2. /\ Persisting' = {c} /\ At("signing")' = At("signing") /\ now' = now /\ amount' = amount
        /\ At("writing")' = At("writing") /\ clock' = clock /\ file' = file /\ released' = released
        /\ dayUtc' = clock /\ body'[c] = [day |-> dayUtc', used |-> used']
    BY <1>8, <2>1 DEF Charge, Goto, RollOver, Persisting, At, TypeOK
  <2>3. ASSUME NEW p \in At("signing")' \cap Payers, NEW d \in Days
        PROVE  /\ d = now'[p] => Covered(d, Limit - amount[p])'
               /\ d > now'[p] => Covered(d, 0)'
    <3>1. /\ d = now[p] => Covered(d, Limit - amount[p])
          /\ d > now[p] => Covered(d, 0)
      BY <1>1, <2>2 DEF Capped
    <3>2. released' = released /\ Due(d)' = Due(d)
      BY <2>1, QuietSteps
    <3>3. QED
      BY <2>2, <3>1, <3>2 DEF Covered
  <2>4. At("writing")' = {} => released'[clock'] <= Hydrated'
    BY <1>1, <2>2 DEF Capped, Hydrated
  <2>5. ASSUME NEW d \in Days, d = clock' PROVE Covered(d, UsedIn(body[c]))'
    <3>1. UsedIn(body[c])' = UsedOn(d)'
      BY <1>2, <2>2, <2>5 DEF UsedIn
    <3>2. Covered(d, UsedOn(d))'
      BY <1>0, <1>3, <2>1, <2>2, <2>5
    <3>3. QED
      BY <3>1, <3>2 DEF Covered
  <2>6. QED
    BY <1>1, <1>3, <2>1, <2>2, <2>3, <2>4, <2>5 DEF Capped
<1>9. ASSUME NEW u \in Users, OpenFile(u) PROVE Capped'
  <2>1. /\ Persisting' = Persisting /\ u \in At("writing")' /\ At("signing")' = At("signing")
        /\ now' = now /\ amount' = amount /\ body' = body /\ clock' = clock /\ Quiet
    BY <1>9 DEF OpenFile, Goto, Persisting, At, TypeOK, Quiet
  <2>2. QED
    BY <1>4, <2>1
<1>10. ASSUME NEW u \in Users, WriteFile(u) PROVE Capped'
  <2>1. u \in Persisting /\ Return({u}) /\ clock' = clock /\ file' = body[u]
        /\ dayUtc' = dayUtc /\ used' = used /\ \A v, w \in Persisting : v = w
    BY <1>1, <1>10 DEF WriteFile, Persisting, At, memory, Capped
  <2>2. /\ Persisting' = {} /\ u \notin At("signing")'
        /\ \A q \in At("signing")' \cap Payers :
              q \in At("signing") /\ now'[q] = now[q] /\ amount'[q] = amount[q]
    BY <2>1 DEF Persisting, At, Return
  <2>3. \A d \in Days : UsedOn(d)' = UsedOn(d) /\ UsedOn(d) \in Int
    BY <1>0, <2>1 DEF UsedOn
  <2>4. ASSUME NEW d \in Days, NEW x \in Int, Covered(d, x) PROVE Covered(d, x)'
    BY <1>10, <2>1, <2>4, WriteCovers
  <2>5. \A d \in Days : Covered(d, Limit)' /\ (d >= clock' => Covered(d, UsedOn(d))')
    <3>1. \A d \in Days : Covered(d, Limit)'
      BY <1>0, <1>1, <2>4 DEF Capped
    <3>2. ASSUME NEW d \in Days, d >= clock' PROVE Covered(d, UsedOn(d))'
      <4>1. PICK y \in Int : y = UsedOn(d)
        BY <2>3
      <4>2. Covered(d, y)'
        BY <1>1, <2>1, <2>4, <3>2, <4>1 DEF Capped
      <4>3. QED
        BY <2>3, <4>1, <4>2 DEF Covered
    <3>3. QED
      BY <3>1, <3>2
  <2>6. ASSUME NEW p \in At("signing")' \cap Payers, NEW d \in Days
        PROVE  /\ d = now'[p] => Covered(d, Limit - amount[p])'
               /\ d > now'[p] => Covered(d, 0)'
    <3>1. PICK y \in Int : y = Limit - amount[p]
      BY <1>0, <2>6
    <3>2. /\ d = now[p] => Covered(d, y)'
          /\ d > now[p] => Covered(d, 0)'
      BY <1>1, <2>2, <2>4, <3>1 DEF Capped
    <3>3. now'[p] = now[p] /\ amount'[p] = amount[p]
      BY <2>2
    <3>4. QED
      BY <3>1, <3>2, <3>3 DEF Covered
  <2>7. released'[clock'] <= Hydrated'
    <3>1. PICK d \in Days : d = clock
      BY <1>0
    <3>2. PICK y \in Int : y = UsedIn(body[u])
      BY DEF UsedIn, TypeOK
    <3>3. Covered(d, y)'
      BY <1>1, <2>1, <2>4, <3>1, <3>2 DEF Capped
    <3>4. Hydrated' = y
      BY <2>1, <3>2 DEF Hydrated, UsedIn
    <3>5. QED
      BY <2>1, <3>1, <3>3, <3>4 DEF Covered
  <2>8. QED
    BY <1>1, <2>2, <2>5, <2>6, <2>7 DEF Capped
<1>11. ASSUME NEW u \in Users, PersistFails(u) PROVE Capped'
  BY <1>11 DEF PersistFails, None
<1>12. CASE Report \/ UNCHANGED vars
  <2>1. /\ Persisting' = Persisting /\ At("writing")' = At("writing")
        /\ At("signing")' = At("signing") /\ now' = now /\ amount' = amount
        /\ clock' = clock /\ file' = file /\ body' = body /\ Quiet
    BY <1>12 DEF Report, vars, locals, Persisting, At, Quiet
  <2>2. QED
    BY <1>4, <2>1
<1>13. CASE Restart
  <2>1. At("writing") = {} /\ clock' = clock /\ file' = file /\ released' = released
        /\ dayUtc' = clock /\ used' = Hydrated
    BY <1>13 DEF Restart, Hit, None
  <2>2. Persisting' = {} /\ At("signing")' = {}
    BY <1>13 DEF Restart, Return, Persisting, At
  <2>3. Hydrated' = Hydrated /\ Hydrated \in Nat /\ released[clock] <= Hydrated
    BY <1>1, <2>1, HydratedType DEF Hydrated, Capped
  <2>4. \A d \in Days : \A q \in Payers : Due(d)'[q] = 0
    BY <2>2 DEF Due
  <2>5. ASSUME NEW d \in Days PROVE Covered(d, Limit)'
    BY <1>0, <1>1, <2>1, <2>4 DEF Capped, Covered
  <2>6. ASSUME NEW d \in Days, d >= clock' PROVE Covered(d, UsedOn(d))'
    <3>1. released[d] <= UsedOn(d)'
      BY <1>0, <1>2, <2>1, <2>3, <2>6 DEF SpanInv
    <3>2. QED
      BY <1>0, <2>1, <2>4, <3>1 DEF Covered
  <2>7. QED
    BY <2>1, <2>2, <2>3, <2>5, <2>6 DEF Capped
<1>14. CASE Midnight
  <2>1. /\ clock' = clock + 1 /\ Persisting' = Persisting /\ At("writing")' = At("writing")
        /\ At("signing")' = At("signing") /\ now' = now /\ amount' = amount
        /\ body' = body /\ released' = released /\ dayUtc' = dayUtc /\ Quiet
    BY <1>14 DEF Midnight, locals, memory, Persisting, At, Quiet
  <2>2. clock' \in Days /\ clock' > clock
    BY <1>0, <2>1 DEF TypeOK
  <2>3. ASSUME NEW d \in Days, d >= clock' PROVE Covered(d, 0)'
    <3>1. d > clock
      BY <1>0, <2>1, <2>3
    <3>2. Covered(d, 0)
      BY <3>1, AheadIsCovered
    <3>3. QED
      BY <2>1, <3>2, QuietCovers
  <2>4. ASSUME NEW d \in Days, d >= clock' PROVE Covered(d, UsedOn(d))'
    <3>1. d # dayUtc'
      BY <1>0, <2>1, <2>4
    <3>2. UsedOn(d)' = 0
      BY <1>2, <3>1
    <3>3. QED
      BY <2>3, <2>4, <3>2 DEF Covered
  <2>5. ASSUME NEW d \in Days PROVE Covered(d, Limit)'
    BY <1>1, <2>1, QuietCovers DEF Capped
  <2>6. ASSUME NEW p \in At("signing")' \cap Payers, NEW d \in Days
        PROVE  /\ d = now'[p] => Covered(d, Limit - amount[p])'
               /\ d > now'[p] => Covered(d, 0)'
    <3>1. /\ d = now[p] => Covered(d, Limit - amount[p])
          /\ d > now[p] => Covered(d, 0)
      BY <1>1, <2>1 DEF Capped
    <3>2. released' = released /\ Due(d)' = Due(d)
      BY <2>1, QuietSteps
    <3>3. QED
      BY <2>1, <3>1, <3>2 DEF Covered
  <2>7. released'[clock'] <= Hydrated'
    <3>1. released'[clock'] = 0
      BY <1>0, <2>1, <2>2 DEF SpanInv
    <3>2. Hydrated' \in Nat
      BY <1>0, HydratedType DEF Hydrated, TypeOK
    <3>3. QED
      BY <3>1, <3>2
  <2>8. ASSUME NEW u \in Persisting', NEW d \in Days, d = clock'
        PROVE  Covered(d, UsedIn(body[u]))'
    <3>1. Covered(d, 0)' /\ TypeOK' /\ u \in Users
      BY <1>0, <2>2, <2>3, <2>8 DEF Persisting, At
    <3>2. UsedIn(body[u])' \in Nat
      BY <1>0, <3>1 DEF UsedIn, TypeOK
    <3>3. \A q \in Payers : Due(d)'[q] = Due(d)[q]
      BY <2>1, QuietSteps
    <3>4. released'[d] \in Nat /\ \A q \in Payers : Due(d)'[q] \in Nat
      BY <1>0, <2>1, <3>3, DueType
    <3>5. QED
      BY <3>1, <3>2, <3>4 DEF Covered
  <2>9. QED
    BY <1>0, <1>1, <2>1, <2>4, <2>5, <2>6, <2>7, <2>8 DEF Capped
<1>15. QED
  BY <1>5, <1>6, <1>7, <1>8, <1>9, <1>10, <1>11, <1>12, <1>13, <1>14 DEF Next

LEMMA CapInvInit == Init => CapInv
<1> SUFFICES ASSUME Init PROVE Capped
  BY DEF CapInv
<1>1. TypeOK /\ 1 \in Days /\ Limit \in Nat
  BY TypeInit, DaysAre, BudgetAssumption
<1>2. At("signing") = {} /\ Persisting = {}
  BY DEF Init, At, Persisting, Users
<1>3. \A d : \A p \in Payers : Due(d)[p] = 0
  BY <1>2 DEF Due
<1>4. \A d \in Days : released[d] = 0 /\ UsedOn(d) = 0
  BY DEF Init, UsedOn
<1>5. Hydrated = 0
  BY DEF Init, Hydrated, NoRecord
<1>6. QED
  BY <1>1, <1>2, <1>3, <1>4, <1>5 DEF Init, Capped, Covered

\* Unless builds overlap or the file is damaged, the signatures of a day never
\* add up to more than the cap, across midnight, restarts, charges and reports.
THEOREM CapHolds == SafeSpec => []CapHoldsUnlessOverlap
<1>1. TypeOK /\ SpanInv /\ CapInv => CapHoldsUnlessOverlap
  BY DEF CapInv, Capped, Covered, CapHoldsUnlessOverlap, DailyCap
<1>2. Init => TypeOK /\ SpanInv /\ CapInv
  BY TypeInit, CapInvInit, CounterInvInit DEF CounterInv
<1>3. TypeOK /\ SpanInv /\ CapInv /\ [Next]_vars => (TypeOK /\ SpanInv /\ CapInv)'
  BY TypeStep, SpanKeeps, CapKeeps
<1>4. QED
  BY <1>1, <1>2, <1>3, PTL DEF SafeSpec
=============================================================================
