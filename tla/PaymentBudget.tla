--------------------------- MODULE PaymentBudget ----------------------------
(***************************************************************************)
(* The daily x402 budget: AlgorandPaymentBuilder.build                     *)
(* (src/src/integrations/canix402/payment.ts) on the durable counters of   *)
(* DailySpendStore (src/src/services/daily-spend.ts), wired as in app.ts.  *)
(*                                                                         *)
(* Builds run concurrently: one portfolio read asks for positions and      *)
(* claimable rewards side by side, and an unwind preview reads outside the *)
(* run coordinator.  Inference charges are recorded in the same file.      *)
(*                                                                         *)
(* Amounts are small numbers, days are numbered from 1.  A missing file    *)
(* and an unreadable one are hydrated alike and are both NoRecord.  The    *)
(* inference counter itself only shows up through the bodies it writes.    *)
(***************************************************************************)
EXTENDS Naturals, FiniteSets

CONSTANTS
    Payers,         \* payment builds that may be under way at once
    Charges,        \* inference charges that may be recorded at once
    Limit,          \* MAX_DAILY_X402_BASE_UNITS
    Ceiling,        \* the endpoint ceiling
    MaxDays,        \* bound: UTC days in a behaviour
    MaxCrashes      \* bound: crashes and redeploys

ASSUME BudgetAssumption ==
    /\ IsFiniteSet(Payers) /\ Payers # {} /\ Payers \cap Charges = {}
    /\ Limit \in Nat /\ Ceiling \in Nat /\ MaxDays \in Nat \ {0}
    /\ MaxCrashes \in Nat

VARIABLES
    clock,      \* the UTC day it is
    dayUtc,     \* DailySpendStore.dayUtc
    used,       \* DailySpendStore.canixBaseUnits
    stage,      \* where each build or charge is
    now,        \* the day each build captured
    amount,     \* the amount each build wants to pay
    body,       \* what each one is about to write
    file,       \* the record on disk
    crashes,
    released,   \* history: per day, the sum of the signatures handed out
    hazards     \* history: which of the Hazards happened

memory == <<dayUtc, used>>
locals == <<stage, now, amount, body>>
vars == <<clock, memory, locals, file, crashes, released, hazards>>

Days == 1..MaxDays
Users == Payers \cup Charges
\* A build passed the cap while another one was not counted yet; a payment was
\* counted on another day than the counter's; two writes of the file were under
\* way at once; a write failed or a crash hit inside it.
Hazards == {"overlap", "straddle", "race", "lost"}
Stages == {"idle", "signing", "opening", "writing"}
NoRecord == [day |-> 0, used |-> 0]

Init ==
    /\ clock = 1 /\ dayUtc = 1 /\ used = 0
    /\ stage = [u \in Users |-> "idle"]
    /\ now = [p \in Payers |-> 1] /\ amount = [p \in Payers |-> 0]
    /\ body = [u \in Users |-> NoRecord]
    /\ file = NoRecord /\ crashes = 0
    /\ released = [d \in Days |-> 0] /\ hazards = {}

Hit(h, happened) == IF happened THEN {h} ELSE {}
At(s) == {u \in Users : stage[u] = s}
Persisting == At("opening") \cup At("writing")

Goto(u, s) == stage' = [stage EXCEPT ![u] = s]

\* rolloverIfNeeded: the counter starts again whenever the day differs.
UsedOn(d) == IF d = dayUtc THEN used ELSE 0
RollOver(d) == dayUtc' = d /\ used' = UsedOn(d)

-----------------------------------------------------------------------------
(* AlgorandPaymentBuilder.build.                                           *)

\* Bug: the new amount is left out of the comparison.
AffordableAlready(a, d) == UsedOn(d) <= Limit

\* Bug: the day's spend is left out of the comparison.
AffordableAlone(a, d) == a <= Limit

Affordable(a, d) == UsedOn(d) + a <= Limit

\* Up to the call for suggested parameters: a payment over the ceiling is
\* refused before the counter is looked at, one over the cap after it.
Check(p) ==
    /\ stage[p] = "idle"
    /\ \E a \in 1..Ceiling :
         /\ RollOver(clock)
         /\ IF Affordable(a, clock)
            THEN /\ amount' = [amount EXCEPT ![p] = a]
                 /\ now' = [now EXCEPT ![p] = clock] /\ Goto(p, "signing")
                 /\ hazards' = hazards \cup Hit("overlap", At("signing") # {})
            ELSE UNCHANGED <<amount, now, stage, hazards>>
    /\ UNCHANGED <<clock, body, file, crashes, released>>

\* The call returned or threw; its locals are gone.
Return(S) ==
    /\ stage' = [u \in Users |-> IF u \in S THEN "idle" ELSE stage[u]]
    /\ body' = [u \in Users |-> IF u \in S THEN NoRecord ELSE body[u]]
    /\ amount' = [p \in Payers |-> IF p \in S THEN 0 ELSE amount[p]]
    /\ now' = [p \in Payers |-> IF p \in S THEN 1 ELSE now[p]]

\* loadSuggestedParams threw.
ParamsFail(p) ==
    /\ stage[p] = "signing"
    /\ Return({p})
    /\ UNCHANGED <<clock, memory, file, crashes, released, hazards>>

\* Bug: the body that is written is the counter before the payment.
SignStaleBody(p) ==
    /\ stage[p] = "signing"
    /\ dayUtc' = now[p] /\ used' = UsedOn(now[p]) + amount[p]
    /\ body' = [body EXCEPT ![p] = [day |-> now[p], used |-> UsedOn(now[p])]]
    /\ Goto(p, "opening")
    /\ hazards' = hazards \cup Hit("straddle", now[p] # dayUtc)
                         \cup Hit("race", Persisting # {})
    /\ UNCHANGED <<clock, now, amount, file, crashes, released>>

\* Bug: the counter is set to the amount.
SignLastOnly(p) ==
    /\ stage[p] = "signing"
    /\ dayUtc' = now[p] /\ used' = amount[p]
    /\ body' = [body EXCEPT ![p] = [day |-> dayUtc', used |-> used']]
    /\ Goto(p, "opening")
    /\ hazards' = hazards \cup Hit("straddle", now[p] # dayUtc)
                         \cup Hit("race", Persisting # {})
    /\ UNCHANGED <<clock, now, amount, file, crashes, released>>

\* The parameters came: sign, count the amount on the day of the check, and
\* start to persist.
Sign(p) ==
    /\ stage[p] = "signing"
    /\ dayUtc' = now[p] /\ used' = UsedOn(now[p]) + amount[p]
    /\ body' = [body EXCEPT ![p] = [day |-> dayUtc', used |-> used']]
    /\ Goto(p, "opening")
    /\ hazards' = hazards \cup Hit("straddle", now[p] # dayUtc)
                         \cup Hit("race", Persisting # {})
    /\ UNCHANGED <<clock, now, amount, file, crashes, released>>

-----------------------------------------------------------------------------
(* DailySpendStore.                                                        *)

\* recordZsUsdc: counts in another lane of the same record.
Charge(c) ==
    /\ stage[c] = "idle"
    /\ RollOver(clock)
    /\ body' = [body EXCEPT ![c] = [day |-> dayUtc', used |-> used']]
    /\ Goto(c, "opening")
    /\ hazards' = hazards \cup Hit("race", Persisting # {})
    /\ UNCHANGED <<clock, now, amount, file, crashes, released>>

\* /status and /health show the report, which rolls the counters over.
Report ==
    /\ RollOver(clock)
    /\ UNCHANGED <<clock, locals, file, crashes, released, hazards>>

\* A build whose spend is persisted, or failed to be, hands out its signature.
Release(u) ==
    released' = IF u \in Payers
                THEN [released EXCEPT ![now[u]] = @ + amount[u]]
                ELSE released

\* persist(): mkdir, then writeFile opens the file with truncation and writes.
OpenFile(u) ==
    /\ stage[u] = "opening"
    /\ file' = NoRecord /\ Goto(u, "writing")
    /\ UNCHANGED <<clock, memory, now, amount, body, crashes, released, hazards>>

WriteFile(u) ==
    /\ stage[u] = "writing"
    /\ file' = body[u]
    /\ Release(u) /\ Return({u})
    /\ UNCHANGED <<clock, memory, crashes, hazards>>

\* Every storage error is logged and swallowed.
PersistFails(u) ==
    /\ stage[u] \in {"opening", "writing"}
    /\ Release(u) /\ Return({u})
    /\ hazards' = hazards \cup {"lost"}
    /\ UNCHANGED <<clock, memory, file, crashes>>

\* hydrate(): a record of another day is rolled over at once.
Hydrated == IF file.day = clock THEN file.used ELSE 0

\* A crash and the boot after it: every build under way is gone.
Restart ==
    /\ crashes < MaxCrashes
    /\ crashes' = crashes + 1
    /\ dayUtc' = clock /\ used' = Hydrated
    /\ Return(Users)
    /\ hazards' = hazards \cup Hit("lost", At("writing") # {})
    /\ UNCHANGED <<clock, file, released>>

Midnight ==
    /\ clock < MaxDays
    /\ clock' = clock + 1
    /\ UNCHANGED <<memory, locals, file, crashes, released, hazards>>

Next ==
    \/ \E p \in Payers : Check(p) \/ ParamsFail(p) \/ Sign(p)
    \/ \E c \in Charges : Charge(c)
    \/ \E u \in Users : OpenFile(u) \/ WriteFile(u) \/ PersistFails(u)
    \/ Report \/ Restart \/ Midnight

SafeSpec == Init /\ [][Next]_vars

-----------------------------------------------------------------------------
(* Properties.                                                             *)

TypeOK ==
    /\ clock \in Days /\ dayUtc \in Days /\ used \in Nat
    /\ stage \in [Users -> Stages]
    /\ now \in [Payers -> Days] /\ amount \in [Payers -> 0..Ceiling]
    /\ body \in [Users -> [day : 0..MaxDays, used : Nat]]
    /\ file \in [day : 0..MaxDays, used : Nat]
    /\ crashes \in 0..MaxCrashes
    /\ released \in [Days -> Nat] /\ hazards \subseteq Hazards

\* README.md:143, "A separate daily x402 cap applies": the signatures handed
\* out for one day never add up to more than the cap.
DailyCap == \A d \in Days : released[d] <= Limit

None(H) == hazards \cap H = {}

\* No restart has read the file, or the file was always written properly.
Durable == crashes = 0 \/ None({"race", "lost"})

\* The cap can only be exceeded when builds overlap, or when a restart reads a
\* file that was not written properly: neither midnight nor a restart on any day
\* nor a charge or a report in between does it.
CapHoldsUnlessOverlap == None({"overlap", "race", "lost"}) => DailyCap

\* What the check before an await costs: builds that were checked before each
\* other was counted exceed the cap by at most one ceiling each but the first.
OvershootIsBounded ==
    None({"straddle"}) /\ Durable =>
        \A d \in Days : released[d] <= Limit + (Cardinality(Payers) - 1) * Ceiling

\* As long as the counter is on its day, it covers every signature of that day,
\* whatever else was counted, reported or refused in between.
CounterCoversReleased ==
    None({"straddle"}) /\ Durable => released[dayUtc] <= used

\* daily-spend.ts:57, "durable": a restart finds every signature of the day that
\* was handed out before it.
RestartRemembers ==
    None({"straddle", "race", "lost"}) /\ At("writing") = {} =>
        released[clock] <= Hydrated
=============================================================================
