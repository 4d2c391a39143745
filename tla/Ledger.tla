------------------------------- MODULE Ledger -------------------------------
(***************************************************************************)
(* Accounting on its store: AccountingService.execute and recordCashflow   *)
(* (src/src/services/accounting.ts), the P&L windows                       *)
(* (src/src/services/pnl-windows.ts), the transaction lookup               *)
(* (src/src/integrations/algorand/cashflow-tx.ts) and both backends of     *)
(* AccountingStore (src/src/integrations/storage/accounting-store.ts).     *)
(*                                                                         *)
(* Money moves in and out of the wallet from outside and prices stand      *)
(* still, so that a right P&L is zero: whatever else a run reports comes   *)
(* from a transfer it saw or counted at the wrong time, or from an asset   *)
(* that only one of its two totals has a price for.  The local store       *)
(* truncates a file and then writes it; Spaces puts an object at once.     *)
(* A list of objects is read at one moment.                                *)
(***************************************************************************)
EXTENDS Integers, FiniteSets, FiniteSetsExt

CONSTANTS
    Null, Torn,
    Flows,          \* transfers between the wallet and the outside
    Amount,         \* USD value of each, negative for a withdrawal
    MonthLength,    \* clock ticks in a month
    Window,         \* ticks a rolling P&L window looks back
    MaxTime,        \* bound: the last tick
    MaxRuns,        \* bound: accounting runs
    MaxFaults       \* bound: crashes, exceptions, missing prices and wrong dates

ASSUME LedgerAssumption ==
    /\ IsFiniteSet(Flows) /\ Amount \in [Flows -> Int]
    /\ {MonthLength, MaxRuns} \subseteq Nat \ {0}
    /\ {Window, MaxTime, MaxFaults} \subseteq Nat

VARIABLES
    backend,    \* which AccountingStore is configured
    clock,
    when,       \* the tick each transfer happened at
    cash,       \* cashflows/<year>/<month>/<eventId>.json
    snaps,      \* snapshots/..., one for each run
    latest,     \* state/latest.json
    acc,        \* the accounting run
    rec,        \* what each way of recording a cashflow is doing
    used,       \* runs so far
    faults,     \* faults so far
    raced, byHand   \* history: transfers recorded by two at once, or by hand

store == <<cash, snaps, latest>>
world == <<backend, clock, when>>
history == <<faults, raced, byHand>>
ledger == <<world, store, acc, rec, used, history>>

Ticks == 0..MaxTime
Never == MaxTime + 1
Months == 0..(MaxTime \div MonthLength)
MonthOf(t) == t \div MonthLength
Runs == 1..MaxRuns
Careful == {"command", "review"}
Recorders == Careful \cup {"manual"}
Keys == Flows \X Months
Happened == {f \in Flows : when[f] <= clock}
Nav(S) == MapThenSumSet(LAMBDA f : Amount[f], S)

\* A summary and a snapshot hold the same: the total, and whether it is known.
\* What the run saw, and what of it the total leaves out, are only there for the
\* properties.
NoPnl == [known |-> FALSE, value |-> 0, since |-> Null]
IdleRun == [pc |-> "idle", previous |-> Null, seen |-> {}, left |-> {}, known |-> TRUE,
            asOf |-> 0, daily |-> NoPnl, roll |-> NoPnl, all |-> NoPnl, listed |-> {}]
IdleRec == [pc |-> "idle", flow |-> Null, at |-> 0]

\* The baseline committed at tick 0, when the wallet was empty.
Inception == [asOf |-> 0, nav |-> 0, known |-> TRUE, seen |-> {}, left |-> {}]

LedgerInit ==
    /\ backend \in {"local", "spaces"} /\ clock = 0
    /\ when = [f \in Flows |-> Never]
    /\ cash = [k \in Keys |-> Null]
    /\ snaps = [i \in Runs |-> Null] /\ latest = Null
    /\ acc = IdleRun /\ rec = [r \in Recorders |-> IdleRec]
    /\ used = 0
    /\ faults = 0 /\ raced = {} /\ byHand = {}

Stored(x) == x \notin {Null, Torn}
TornIn(file) == \E k \in DOMAIN file : file[k] = Torn

Spend(fault) == faults' = (IF fault THEN faults + 1 ELSE faults) /\ faults' <= MaxFaults

-----------------------------------------------------------------------------
(* The outside.                                                            *)

Tick ==
    /\ clock < MaxTime /\ clock' = clock + 1
    /\ UNCHANGED <<backend, when, store, acc, rec, used, history>>

Transfer(f) ==
    /\ clock > 0 /\ when[f] = Never
    /\ when' = [when EXCEPT ![f] = clock]
    /\ UNCHANGED <<backend, clock, store, acc, rec, used, history>>

-----------------------------------------------------------------------------
(* AccountingService.execute.                                              *)

Step(a) == acc' = a /\ UNCHANGED <<world, rec, used, history>>
ReadOnly == UNCHANGED store

\* The run is answered, as "failed" when something threw; what it has stored stays.
EndRun == Step(IdleRun) /\ ReadOnly

\* getLatestSummary, which throws on half a file.
BeginRun ==
    /\ acc.pc = "idle" /\ used < MaxRuns
    /\ acc' = IF latest = Torn THEN acc ELSE [acc EXCEPT !.pc = "begun", !.previous = latest]
    /\ used' = used + 1
    /\ UNCHANGED <<world, store, rec, history>>

\* PortfolioReader.read and the pricing: the total sums what has a price and leaves
\* the rest out (priceWalletAsas, sumProtocolValues, combineKnownTotals); it is
\* unknown only when nothing has one.
ReadPortfolio ==
    /\ acc.pc = "begun"
    /\ \E left \in SUBSET Happened, known \in BOOLEAN :
         /\ ~known => left = Happened
         /\ acc' = [acc EXCEPT !.pc = "read", !.seen = Happened, !.left = left, !.known = known]
         /\ Spend(left # {} \/ ~known)
    /\ UNCHANGED <<world, store, rec, used, raced, byHand>>

\* getTokenPrices came in between: asOf is taken after it.
Stamp ==
    /\ acc.pc = "read"
    /\ Step([acc EXCEPT !.pc = "stamped", !.asOf = clock])
    /\ ReadOnly

\* Anything execute awaits may throw.
RunThrows ==
    /\ acc.pc \notin {"idle", "summary", "summarising", "publish"}
    /\ acc' = IdleRun /\ Spend(TRUE)
    /\ UNCHANGED <<world, store, rec, used, raced, byHand>>

\* Bug: the window begins at the last snapshot itself.
InWindowClosed(at, from, to) == from <= at /\ at <= to

\* cashflowWindowFrom and cashflowWindowTo on listCashflows: after the last
\* snapshot, up to and with this one.
InWindow(at, from, to) == from < at /\ at <= to

Listed(from, to) ==
    {k \in Keys : Stored(cash[k]) /\ InWindow(cash[k].at, from, to)}

\* What is in the total of the run.
Counted == Nav(acc.seen \ acc.left)

\* computeWindowPnl and the daily P&L: the change of the total less what came in.
Pnl(start) ==
    IF start = Null \/ ~acc.known \/ ~start.known THEN NoPnl
    ELSE [known |-> TRUE, since |-> start,
          value |-> Counted - start.nav
                    - MapThenSumSet(LAMBDA k : Amount[k[1]], Listed(start.asOf, acc.asOf))]

\* The transfers of which no record is dated wrong, and that have one if the run
\* saw them.
Settled ==
    {f \in Flows : LET at == {cash[<<f, m>>].at : m \in {n \in Months : Stored(cash[<<f, n>>])}}
                   IN at = {when[f]} \/ (at = {} /\ f \notin acc.seen)}

\* listCashflows, when there is a total to compare with.
ListCashflows ==
    /\ acc.pc = "stamped"
    /\ IF acc.previous # Null /\ acc.previous.known /\ acc.known /\ TornIn(cash)
       THEN EndRun
       ELSE /\ Step([acc EXCEPT !.pc = "compared", !.daily = Pnl(acc.previous),
                                !.listed = Settled])
            /\ ReadOnly

\* pickSnapshotAtOrBefore.
StartSnapshot(target) ==
    LET S == {i \in Runs : Stored(snaps[i]) /\ snaps[i].known /\ snaps[i].asOf <= target}
    IN IF S = {} THEN Null
       ELSE snaps[CHOOSE i \in S : \A j \in S : snaps[i].asOf >= snaps[j].asOf]

\* getInception, which finds a committed baseline or none, listSnapshotsBetween and
\* buildPnlWindows, which lists the cashflows of a window that has a start.
BuildWindows ==
    /\ acc.pc = "compared"
    /\ \E inception \in {Inception, Null} :
         LET start == StartSnapshot(acc.asOf - Window)
         IN IF TornIn(snaps) \/ (TornIn(cash) /\ {start, inception} # {Null})
            THEN EndRun
            ELSE /\ Step([acc EXCEPT !.pc = "snapshot", !.roll = Pnl(start),
                            !.all = Pnl(inception), !.listed = @ \cap Settled])
                 /\ ReadOnly

Total == [asOf |-> acc.asOf, nav |-> Counted, known |-> acc.known,
          seen |-> acc.seen, left |-> acc.left]

\* The file is truncated: half of LocalFilesystemAccountingStore.putMutableJson.
OpenSnapshot ==
    /\ backend = "local" /\ acc.pc = "snapshot"
    /\ snaps' = [snaps EXCEPT ![used] = Torn]
    /\ Step([acc EXCEPT !.pc = "snapshotting"])
    /\ UNCHANGED <<cash, latest>>

Ready(pc, writing) == acc.pc = IF backend = "local" THEN writing ELSE pc

\* Bug: a snapshot that could not be written is only a note.
PutSnapshotOrNote ==
    /\ Ready("snapshot", "snapshotting")
    /\ snaps' \in {snaps, [snaps EXCEPT ![used] = Total]}
    /\ Step([acc EXCEPT !.pc = "summary"])
    /\ UNCHANGED <<cash, latest>>

\* putSnapshot is over: the object is there.
PutSnapshot ==
    /\ Ready("snapshot", "snapshotting")
    /\ snaps' = [snaps EXCEPT ![used] = Total]
    /\ Step([acc EXCEPT !.pc = "summary"])
    /\ UNCHANGED <<cash, latest>>

OpenLatest ==
    /\ backend = "local" /\ acc.pc = "summary"
    /\ latest' = Torn
    /\ Step([acc EXCEPT !.pc = "summarising"])
    /\ UNCHANGED <<cash, snaps>>

\* putLatestSummary and putMonthlySummary, which nothing reads back.
PutLatest ==
    /\ Ready("summary", "summarising")
    /\ latest' = Total
    /\ Step([acc EXCEPT !.pc = "publish"])
    /\ UNCHANGED <<cash, snaps>>

\* A failing write of the summary is only a note.
SummaryFails ==
    /\ acc.pc \in {"summary", "summarising"}
    /\ acc' = [acc EXCEPT !.pc = "publish"] /\ Spend(TRUE)
    /\ UNCHANGED <<world, store, rec, used, raced, byHand>>

\* putPublicPnl, whose failure is a note as well, and the end of the run.
Publish == acc.pc = "publish" /\ EndRun

-----------------------------------------------------------------------------
(* Recording a cashflow.                                                   *)

Rec(r, x) == rec' = [rec EXCEPT ![r] = x] /\ UNCHANGED <<world, acc, used>>

\* The round time of the transaction, or now if the indexer gives none; by hand
\* the operator states any time, also one before the transfer or to come.
Date(r, f) ==
    \E at \in IF r = "manual" THEN Ticks ELSE {when[f], clock} :
      Rec(r, [pc |-> "priced", flow |-> f, at |-> at]) /\ Spend(at # when[f])
Meet(r, f) == raced' = raced \cup IF \E q \in Recorders \ {r} : rec[q].flow = f THEN {f} ELSE {}

\* Bug: the store is not asked for the transaction.
UnknownAlways(f) == TRUE

\* getCashflowByEventId over all months.
Unknown(f) == \A m \in Months : cash[<<f, m>>] = Null

\* recordCashflowFromTx up to resolve and getTokenPrices, for a transaction that
\* is confirmed and a transfer of this wallet, and one row of commitReview in
\* src/src/services/inception-review.ts, which runs in a process of its own.
LookUp(r, f) ==
    /\ rec[r].pc = "idle" /\ f \in Happened
    /\ Unknown(f) /\ Date(r, f) /\ Meet(r, f)
    /\ UNCHANGED <<store, byHand>>

\* POST /accounting/cashflows: recordCashflow without a lookup, once for each
\* transfer here.
Post(f) ==
    /\ rec["manual"].pc = "idle" /\ f \in Happened \ byHand
    /\ Date("manual", f) /\ Meet("manual", f)
    /\ byHand' = byHand \cup {f}
    /\ UNCHANGED store

Target(r) == <<rec[r].flow, MonthOf(rec[r].at)>>

\* putCashflow and putImmutableJson: an object under the key is a conflict, as no
\* two recordings have the same recordedAt and so the same checksum.
CheckKey(r) ==
    /\ rec[r].pc = "priced"
    /\ Rec(r, IF cash[Target(r)] = Null THEN [rec[r] EXCEPT !.pc = "writing"] ELSE IdleRec)
    /\ UNCHANGED <<store, history>>

OpenCashflow(r) ==
    /\ backend = "local" /\ rec[r].pc = "writing"
    /\ cash' = [cash EXCEPT ![Target(r)] = Torn]
    /\ Rec(r, [rec[r] EXCEPT !.pc = "open"])
    /\ UNCHANGED <<snaps, latest, history>>

PutCashflow(r) ==
    /\ rec[r].pc = IF backend = "local" THEN "open" ELSE "writing"
    /\ cash' = [cash EXCEPT ![Target(r)] = [at |-> rec[r].at, by |-> r]]
    /\ Rec(r, IdleRec)
    /\ UNCHANGED <<snaps, latest, history>>

\* Anything a recording awaits may throw, also half way through a file.
RecordingFails(r) ==
    /\ rec[r].pc # "idle"
    /\ Rec(r, IdleRec) /\ Spend(TRUE)
    /\ UNCHANGED <<store, raced, byHand>>

\* The bot's process ends; files it was writing stay half written.
CrashLedger ==
    /\ Spend(TRUE)
    /\ acc' = IdleRun
    /\ rec' = [r \in Recorders |-> IF r = "review" THEN rec[r] ELSE IdleRec]
    /\ UNCHANGED <<world, store, used, raced, byHand>>

RunSteps ==
    \/ BeginRun \/ ReadPortfolio \/ Stamp \/ ListCashflows \/ BuildWindows
    \/ OpenSnapshot \/ PutSnapshot \/ OpenLatest \/ PutLatest \/ SummaryFails
    \/ Publish \/ RunThrows

LedgerNext ==
    \/ Tick \/ RunSteps \/ CrashLedger
    \/ \E f \in Flows : Transfer(f) \/ Post(f) \/ \E r \in Careful : LookUp(r, f)
    \/ \E r \in Recorders : CheckKey(r) \/ OpenCashflow(r) \/ PutCashflow(r) \/ RecordingFails(r)

LedgerSpec == LedgerInit /\ [][LedgerNext]_ledger

-----------------------------------------------------------------------------
(* Properties.                                                             *)

\* The transfers a total missed although they happened no later than it says.
Straddled(total) == {f \in Flows : when[f] <= total.asOf} \ total.seen

\* The windows of the run, once they are built, whose two totals missed no
\* transfer, with every transfer recorded in time and dated right.
SettledWindows ==
    IF \/ acc.pc \in {"idle", "begun", "read", "stamped", "compared"}
       \/ acc.listed # Flows \/ Straddled(acc) # {}
    THEN {}
    ELSE {pnl \in {acc.daily, acc.roll, acc.all} : pnl.known /\ Straddled(pnl.since) = {}}

\* Over a settled window the P&L of a market that stands still is what the two
\* totals leave out differently, to the cent: deposits and withdrawals cancel, and
\* only assets that had a price at one end of the window and not at the other
\* are taken for profit or loss.
PnlIsFlowNeutral ==
    \A pnl \in SettledWindows : pnl.value = Nav(pnl.since.left) - Nav(acc.left)

\* A cashflow is stored once and for all, whoever else records: it takes two
\* recordings of one transfer at once, or one by hand, to store it under two
\* months, and two at once to replace it.
CashflowsAreImmutable ==
    [][\A f \in Flows :
         /\ (Cardinality({m \in Months : cash'[<<f, m>>] # Null}) > 1
               => f \in raced' \cup byHand')
         /\ \A m \in Months : (Stored(cash[<<f, m>>]) /\ f \notin raced')
                               => cash'[<<f, m>>] = cash[<<f, m>>]]_ledger

\* A total the next run compares with is one whose snapshot is stored: after any
\* crash or failed write, the summary never runs ahead of the history.
SummaryHasSnapshot == Stored(latest) => \E i \in Runs : snaps[i] = latest
=============================================================================
