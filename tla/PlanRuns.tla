------------------------------ MODULE PlanRuns ------------------------------
(***************************************************************************)
(* From a plan to executor calls and back to a status: the two runs that    *)
(* trade, one at a time under the run lock and over the same wallet.       *)
(*   TreasuryReviewService.execute    src/src/services/treasury-review.ts  *)
(*   DeterministicUnwindService.run   src/src/services/deterministic-unwind.ts *)
(* with the builders of unwind actions in protocol-verify.ts.              *)
(*                                                                         *)
(* The executor is seen from outside, as module Execution describes it: a   *)
(* confirmed action is on chain, and one reported as failed may be, or may *)
(* become so later (late; the swap of a compose call that threw).  The     *)
(* wallet is the set of open positions with the shape keys they list, and  *)
(* the liquid assets.  The gateway lists the positions as it last saw them, *)
(* and leaves out those of a protocol that it cannot read.                 *)
(***************************************************************************)
EXTENDS PlanPolicy

\* isLstUnstakeShape
Redeems(s) == Has(s, {"unstake", "redeem", "burn"})

CONSTANTS
    Plans,          \* plans the agent may come to: sequences of actions
    Desk,           \* the claim desk of the snapshot, when it was read
    Positions,      \* [id, opp, asset, amount, debt, start, sticky, yields]:
                    \* start: the keys listed at first; sticky: rewards accrue
                    \* so fast that the claim stays listed; yields: the assets
                    \* that the close pays out
    Starts,         \* the positions a wallet may have at first
    Catalogs,       \* what loading the opportunities may give, the sequences of
                    \* [id, ready, tvl, shapes, family, receipt]
    Preparations,   \* the keys that name a setup, an opt-in or a creation
    Liquid,         \* the assets held at first
    XAlgo,          \* FOLKS_XALGO_ASSET_ID
    Cash,           \* ALGO and USDC
    MaxWaves,       \* UNWIND_MAX_WAVES
    MaxRuns,        \* bound: runs in a behaviour
    MaxLate         \* bound: groups in flight at the same time

ASSUME PlanRunsAssumption ==
    /\ MaxWaves \in Nat \ {0} /\ MaxRuns \in Nat /\ MaxLate \in Nat
    /\ IsFiniteSet(Positions) /\ \A p, q \in Positions : p.id = q.id => p = q
    /\ \A there \in Starts : there \subseteq {p.id : p \in Positions}
    /\ \A p \in Positions : p.id # Null /\ {Null, "lst"} \cap p.start = {}
    /\ Null # 0 /\ {"xalgo-unstake", "myth-redeem"} \cap Preparations = {}

\* What is known of opportunities: an id and a key name one, of which find takes
\* the first; the keys that the unwind looks for name redemptions, a key
\* tells preparations, and a redemption is no preparation of an enter.
Coherent(opps) ==
    /\ \A o, p \in opps : o.id = p.id => o = p
    /\ \A o \in opps :
        /\ DOMAIN o = {"id", "ready", "tvl", "shapes", "family", "receipt"}
        /\ \A s, t \in o.shapes : s.key = t.key => s = t
        /\ \A s \in o.shapes :
            /\ s.order \in Nat
            /\ s.key \in {"xalgo-unstake", "myth-redeem"} => Redeems(s)
            /\ Preparatory(s) <=> s.key \in Preparations
            /\ Redeems(s) => ~Preparatory(s)

ASSUME CatalogAssumption ==
    \A list \in Catalogs : list \in Seq(ToSet(list)) /\ Coherent(ToSet(list))

VARIABLES
    signing,        \* ENABLE_TRANSACTION_SIGNING
    kind,           \* the run that holds the lock, or the last one
    stage,          \* where it is
    trading,        \* tradingEnabled of a review
    snap,           \* the snapshot it works from
    catalog,        \* the opportunities it works with
    plan,           \* the normalized actions, of a review or of a wave
    queue,          \* executor calls still to be made: [kind, acts, skipped]
    outcomes,       \* what the executor answered, by action
    wave, print,    \* the unwind's wave and previousFingerprint, {} at first
    status,         \* what the run ended with
    runs,
    open, held,     \* the wallet: keys by open position, liquid assets
    listed,         \* the positions and keys that the gateway knows of
    flying,         \* groups whose confirmation was given up: [act, by, redeems]
    asked,          \* history: the actions sent in this run, or wave
    landed,         \* history: those of them that landed
    unseen,         \* history: ... that landed, or may yet, though reported failed
    troubled        \* history: an action of this run was reported as failed,
                    \* or a group given up earlier landed during it

wallet == <<open, held, listed, flying>>
history == <<asked, landed, unseen, troubled>>
work == <<trading, snap, catalog, plan, queue, outcomes, wave, print>>
vars == <<signing, kind, stage, work, status, runs, wallet, history>>

Of(id) == CHOOSE p \in Positions : p.id = id

\* A snapshot: the liquid assets of the account, and rows, positions and their
\* keys.  It is incomplete when a protocol could not be read, or for a caveat of
\* another kind.
Snapshot(rows, complete) ==
    [complete |-> complete, held |-> held,
     positions |-> {[id |-> p, opp |-> Of(p).opp, keys |-> rows[p],
                     amount |-> Of(p).amount, asset |-> Of(p).asset] : p \in DOMAIN rows}]

\* The listing once the gateway has caught up with the chain on some positions.
CaughtUp(fresh) ==
    [p \in (DOMAIN listed \ fresh) \cup (fresh \cap DOMAIN open) |->
        IF p \in fresh THEN open[p] ELSE listed[p]]

\* AlgorandPortfolioReader.read: what is listed, be it stale, but for the
\* positions of protocols that cannot be read.
Listings == {CaughtUp(fresh) : fresh \in SUBSET DOMAIN listed}
Views(listing) ==
    {Snapshot(listing, TRUE)} \cup
    {Snapshot([p \in shown |-> listing[p]], FALSE) : shown \in SUBSET DOMAIN listing}

Init ==
    /\ signing \in BOOLEAN
    /\ kind = "none" /\ stage = "idle" /\ trading = FALSE
    /\ \E there \in Starts : open = [p \in there |-> Of(p).start]
    /\ held = Liquid /\ listed = open /\ flying = {}
    /\ snap = Null /\ catalog = <<>> /\ plan = <<>> /\ queue = <<>>
    /\ outcomes = <<>> /\ wave = 0 /\ print = {}
    /\ status = "none" /\ runs = 0
    /\ asked = <<>> /\ landed = {} /\ unseen = {} /\ troubled = FALSE

-----------------------------------------------------------------------------
(* The executor and the chain.                                             *)

Known(o) == {x \in ToSet(catalog) : x.id = o}
IsUnstake(a) == a.type = "open" /\ \E s \in ShapeOf(a, ToSet(catalog)) : Redeems(s)

\* What the chain and the protocols admit.
Possible(a) ==
    CASE a.type \in {"claim", "close"} -> a.pos \in DOMAIN open /\ a.key \in open[a.pos]
      [] IsUnstake(a) -> a.from \in held /\ \E o \in Known(a.opp) : o.receipt = a.from
      [] OTHER -> TRUE

OpenAfter(a) ==
    IF a.pos \notin DOMAIN open THEN open
    ELSE IF a.type = "claim"
    THEN [open EXCEPT ![a.pos] = IF Of(a.pos).sticky THEN @ ELSE @ \ {a.key}]
    ELSE IF a.type = "close" /\ a.key = "uncommit"
    THEN [open EXCEPT ![a.pos] = @ \ {a.key}]
    ELSE IF a.type = "close" THEN [p \in DOMAIN open \ {a.pos} |-> open[p]] ELSE open

HeldAfter(a, redeems) ==
    IF a.type = "close" /\ a.key # "uncommit" /\ a.pos \in DOMAIN open
    THEN held \cup Of(a.pos).yields
    ELSE IF a.type = "swap" THEN held \cup {a.to}
    ELSE IF redeems THEN held \ {a.from} ELSE held

Lands(a) ==
    /\ Possible(a) /\ open' = OpenAfter(a) /\ held' = HeldAfter(a, IsUnstake(a))
    /\ landed' = landed \cup {a.id}
NothingLands == UNCHANGED <<open, held, landed>>

Flight(a) == [act |-> a, by |-> kind, redeems |-> IsUnstake(a)]

\* A group that was given up for lost is confirmed after all, or never.
LandLate ==
    \E f \in flying :
        /\ flying' = flying \ {f}
        /\ \/ /\ IF f.redeems THEN f.act.from \in held ELSE Possible(f.act)
              /\ open' = OpenAfter(f.act) /\ held' = HeldAfter(f.act, f.redeems)
              /\ troubled' = TRUE
           \/ UNCHANGED <<open, held, troubled>>
        /\ UNCHANGED <<signing, kind, stage, work, status, runs, listed, asked, landed,
                       unseen>>

Call == Head(queue)
Answered(st) ==
    [id \in DOMAIN outcomes \cup {a.id : a \in ToSet(Call.acts)} |->
        IF \E i \in DOMAIN Call.acts : Call.acts[i].id = id
        THEN st[CHOOSE i \in DOMAIN Call.acts : Call.acts[i].id = id] ELSE outcomes[id]]

NextCall(st) ==
    /\ stage = "execute" /\ queue # <<>>
    /\ outcomes' = Answered(st)
    /\ queue' = Tail(queue)
    /\ asked' = asked \o Call.acts
    /\ troubled' = (troubled \/ "failed" \in ToSet(st))
    /\ UNCHANGED <<signing, kind, stage, trading, snap, catalog, plan, wave, print,
                   status, runs, listed>>

\* executeAction answers; it turns every error into a failed outcome.
Confirm ==
    /\ queue # <<>> /\ Call.kind = "single" /\ NextCall(<<"confirmed">>)
    /\ Lands(Call.acts[1]) /\ UNCHANGED <<flying, unseen>>

Fail ==
    /\ queue # <<>> /\ Call.kind = "single" /\ NextCall(<<"failed">>)
    /\ NothingLands /\ UNCHANGED <<flying, unseen>>

TimeOut ==
    /\ queue # <<>> /\ Call.kind = "single" /\ NextCall(<<"failed">>)
    /\ NothingLands /\ Possible(Call.acts[1]) /\ Cardinality(flying) < MaxLate
    /\ flying' = flying \cup {Flight(Call.acts[1])}
    /\ unseen' = unseen \cup {Call.acts[1].id}

\* executeClaimBatch: the claims are sent one after the other up to the first
\* that fails; duplicates and the rest are skipped.
ClaimBatch ==
    /\ queue # <<>> /\ Call.kind = "claims"
    /\ \E n \in 0..Len(Call.acts), late \in BOOLEAN :
        LET st == [i \in DOMAIN Call.acts |->
                    IF Call.acts[i].id \in Call.skipped THEN "skipped"
                    ELSE IF i <= n THEN "confirmed"
                    ELSE IF i = n + 1 THEN "failed" ELSE "skipped"]
            done == {i \in DOMAIN st : st[i] = "confirmed"}
            lost == {i \in DOMAIN st : st[i] = "failed" /\ late}
        IN  /\ late => lost # {} /\ Cardinality(flying) < MaxLate
            /\ \A i \in done \cup lost : Possible(Call.acts[i])
            /\ NextCall(st)
            /\ open' = [p \in DOMAIN open |-> open[p] \ {Call.acts[i].key : i \in
                            {j \in done : Call.acts[j].pos = p /\ ~Of(p).sticky}}]
            /\ landed' = landed \cup {Call.acts[i].id : i \in done}
            /\ flying' = flying \cup {Flight(Call.acts[i]) : i \in lost}
            /\ unseen' = unseen \cup {Call.acts[i].id : i \in lost}
            /\ UNCHANGED held

\* executeComposeEnter <<enter, swap>>: when it throws both have failed, whether
\* or not the swap is on chain.
Compose ==
    /\ queue # <<>> /\ Call.kind = "compose"
    /\ LET swap == Call.acts[2]
       IN \/ /\ NextCall(<<"confirmed", "confirmed">>)
             /\ held' = HeldAfter(swap, FALSE)
             /\ landed' = landed \cup IdsOf(Call.acts)
             /\ UNCHANGED <<open, flying, unseen>>
          \/ /\ NextCall(<<"failed", "failed">>)
             /\ Lands(swap)
             /\ unseen' = unseen \cup {swap.id} /\ UNCHANGED flying
          \/ /\ NextCall(<<"failed", "failed">>)
             /\ NothingLands /\ UNCHANGED <<flying, unseen>>

\* The preparation of a claim batch precedes its try: the run ends in its catch.
ClaimBatchThrows ==
    /\ stage = "execute" /\ queue # <<>> /\ Call.kind = "claims"
    /\ stage' = "idle" /\ status' = "failed" /\ queue' = <<>>
    /\ UNCHANGED <<signing, kind, trading, snap, catalog, plan, outcomes, wave, print,
                   runs, wallet, history>>

-----------------------------------------------------------------------------
(* TreasuryReviewService.execute.                                          *)

Begin(k) ==
    /\ stage = "idle" /\ runs < MaxRuns
    /\ kind' = k /\ stage' = "plan" /\ status' = "none" /\ runs' = runs + 1
    /\ catalog' = <<>> /\ plan' = <<>> /\ outcomes' = <<>>
    /\ wave' = 1 /\ print' = {}
    /\ asked' = <<>> /\ landed' = {} /\ unseen' = {} /\ troubled' = FALSE
    /\ UNCHANGED <<signing, queue, open, held, flying>>

\* The switch decides whether a review trades, and the agent reads the wallet.
BeginReview ==
    /\ trading' \in {signing, FALSE} /\ Begin("review")
    /\ \E listing \in Listings : listed' = listing /\ snap' \in Views(listing)

End(st) ==
    /\ stage' = "idle" /\ status' = st
    /\ UNCHANGED <<signing, kind, trading, snap, wave, print, runs, wallet, history>>

\* The agent fails, or reports without a plan.
AgentGivesUp ==
    /\ stage = "plan" /\ kind = "review"
    /\ \E st \in {"failed", "reported"} : End(st)
    /\ UNCHANGED <<catalog, plan, queue, outcomes>>

\* Bug: a claim of the batch or an action of a pair is also executed alone.
ReviewCallsTwice(actions, desk, opps) ==
    LET order == Ordered(actions)
        batch == SelectSeq(order, LAMBDA a :
                    a.type = "claim" /\ a.deps = {} /\ HasDeskQuote(a, desk))
    IN  (IF batch = <<>> THEN <<>> ELSE
            <<[kind |-> "claims", acts |-> batch, skipped |-> {}]>>) \o
        [i \in DOMAIN SelectSeq(order, LAMBDA a : a.type # "hold" /\ a.deps = {}) |->
            [kind |-> "single", skipped |-> {},
             acts |-> <<SelectSeq(order, LAMBDA a : a.type # "hold" /\ a.deps = {})[i]>>]]

\* Bug: what depends on earlier steps of the plan is executed in order, too.
ReviewCallsAll(actions, desk, opps) ==
    LET all == SelectSeq(Ordered(actions), LAMBDA a : a.type # "hold")
    IN  [i \in DOMAIN all |->
            [kind |-> "single", acts |-> <<all[i]>>, skipped |-> {}]]

\* The calls of a review: the claims the desk can quote in one batch, then the
\* pairs of a swap and an enter, then the rest of the foundation wave.
ReviewCalls(actions, desk, opps) ==
    LET order == Ordered(actions)
        batch == Those(order, {a \in ToSet(order) :
                    a.type = "claim" /\ a.deps = {} /\ HasDeskQuote(a, desk)})
        pairs == ComposePairs(order, [a \in ToSet(order) |-> Shapes(a, opps)])
        enters == Those(order, {p[2] : p \in pairs})
        served == IdsOf(batch) \cup (UNION {{p[1].id, p[2].id} : p \in pairs})
        alone == Those(order, {a \in ToSet(order) :
                    a.type # "hold" /\ a.deps = {} /\ a.id \notin served})
    IN  (IF batch = <<>> THEN <<>> ELSE
            <<[kind |-> "claims", acts |-> batch,
               skipped |-> PlanClaims(batch, desk).skipped]>>)
        \o [i \in DOMAIN enters |->
            [kind |-> "compose", skipped |-> {},
             acts |-> <<enters[i], (CHOOSE p \in pairs : p[2] = enters[i])[1]>>]]
        \o [i \in DOMAIN alone |->
            [kind |-> "single", acts |-> <<alone[i]>>, skipped |-> {}]]

\* A plan that is not approved, or that only a dry run checks, calls nothing; a
\* cycle of dependencies throws.
PlanReview ==
    /\ stage = "plan" /\ kind = "review"
    /\ \E raw \in Plans, loaded \in Catalogs, desk \in {Desk, <<>>} :
        LET opps == ToSet(loaded)
            actions == Normalize(raw, snap, opps)
            goes == trading /\ Approved(actions, snap, opps, signing, TRUE)
        IN  /\ catalog' = loaded /\ plan' = actions /\ outcomes' = <<>>
            /\ queue' = IF goes /\ ~Cyclic(actions)
                        THEN ReviewCalls(actions, desk, opps) ELSE <<>>
            /\ IF goes /\ Cyclic(actions) THEN End("failed")
               ELSE /\ stage' = "execute"
                    /\ UNCHANGED <<signing, kind, trading, snap, wave, print, status,
                                   runs, wallet, history>>

\* The executions as the run records them, in execution order; a dry run takes
\* the plan as it is.
Executions(actions) ==
    LET order == IF trading THEN Ordered(actions) ELSE actions
    IN  [k \in DOMAIN order |->
            [act |-> order[k].id,
             status |-> IF order[k].type = "hold" THEN "skipped"
                        ELSE IF ~trading THEN "validated-dry-run"
                        ELSE IF order[k].id \in DOMAIN outcomes
                        THEN outcomes[order[k].id] ELSE "skipped"]]

ConcludeReview ==
    /\ stage = "execute" /\ kind = "review" /\ queue = <<>>
    /\ LET approved == Approved(plan, snap, ToSet(catalog), signing, TRUE)
       IN  End(Status(plan, approved, IF approved THEN Executions(plan) ELSE <<>>, trading))
    /\ UNCHANGED <<catalog, plan, queue, outcomes>>

-----------------------------------------------------------------------------
(* The unwind planner.                                                     *)

\* Bug: a close comes first.
NextKeyCloseFirst(keys) ==
    IF "exit" \in keys THEN "exit" ELSE IF keys = {} THEN Null ELSE CHOOSE k \in keys : TRUE

\* pickNextPositionStep: claim, then uncommit, then what is left.
NextKey(keys) ==
    IF "claim" \in keys THEN "claim" ELSE IF "uncommit" \in keys THEN "uncommit"
    ELSE IF keys = {} THEN Null ELSE CHOOSE k \in keys : TRUE

Action(id, type) ==
    [id |-> id, type |-> type, deps |-> {}, opp |-> Null, pos |-> Null, key |-> Null,
     from |-> Null, to |-> Null, amount |-> Null, spends |-> {}, filled |-> FALSE,
     input |-> [asset |-> Null, amount |-> Null, assetAmount |-> Null]]

\* The agent's actions have these fields, too.
ASSUME PlansAssumption ==
    \A raw \in Plans :
        /\ raw \in Seq(ToSet(raw))
        /\ \A a \in ToSet(raw) : DOMAIN a = DOMAIN Action(Null, Null)

\* buildClaimAction and buildExitAction
StepOf(p) ==
    LET key == NextKey(p.keys)
        type == IF key = "claim" THEN "claim" ELSE "close"
    IN  [Action(<<key, p.id>>, type) EXCEPT !.opp = p.opp, !.pos = p.id, !.key = key,
            !.from = p.asset, !.amount = IF type = "close" THEN p.amount ELSE Null]

\* Bug: only staked ALGO is looked for.
KnownReceiptsXAlgo(snapshot, opps) == snapshot.held \cap {XAlgo}

\* knownLstReceiptAssetIds: xALGO always, the others by their opportunity.
KnownReceipts(snapshot, opps) ==
    snapshot.held \cap ({XAlgo} \cup
        ({o.receipt : o \in {x \in ToSet(opps) :
            \/ x.family \in {"folks", "myth"}
            \/ x.family = "tinyman" /\ \E s \in x.shapes : Redeems(s)}} \ Cash))

Redeem(key, receipt) ==
    [key |-> key, order |-> 1, tags |-> {"unstake"}, assets |-> {receipt},
     escrowInput |-> FALSE]

\* enrichOpportunitiesForLstUnstake: the unstake shape of xALGO goes to a Folks
\* opportunity, which moves to the end, or to one of its own; the first
\* Myth opportunity of a receipt gets its redeem shape.
Enrich(opps, receipts) ==
    LET lists(o) == \E s \in o.shapes : s.key = "xalgo-unstake"
        folks == Those(opps, {o \in ToSet(opps) : o.family = "folks"})
        donor == IF folks # <<>> THEN folks[1]
                 ELSE [id |-> "xalgo-stake", ready |-> TRUE, tvl |-> TRUE, shapes |-> {},
                       family |-> "folks", receipt |-> XAlgo]
        first == IF XAlgo \notin receipts \/ \E o \in ToSet(opps) : lists(o) THEN opps
                 ELSE Append(Those(opps, {o \in ToSet(opps) : o.id # donor.id}),
                             [donor EXCEPT !.shapes = @ \cup {Redeem("xalgo-unstake", XAlgo)}])
        myth(r) == Those(first, {o \in ToSet(first) : o.family = "myth" /\ o.receipt = r})
        mended(o) == IF o.family = "myth" /\ o.receipt \in receipts \ {XAlgo}
                        /\ o = myth(o.receipt)[1]
                        /\ ~\E s \in o.shapes : s.key = "myth-redeem"
                     THEN [o EXCEPT !.shapes = @ \cup {Redeem("myth-redeem", o.receipt)}]
                     ELSE o
    IN  [i \in DOMAIN first |-> mended(first[i])]

\* resolveLstUnstake: the filter by receipt compares the receipt with itself
\* (resolveLstReceiptAssetId returns the one it is given), so the first
\* opportunity that redeems anything is taken.
Unstaking(opps, receipt) ==
    Those(opps, {o \in ToSet(opps) : \E s \in o.shapes : Redeems(s)})

UnstakeKey(o, receipt) ==
    LET own == {s \in o.shapes : s.key = "xalgo-unstake" /\ receipt = XAlgo}
        all == {s \in o.shapes : Redeems(s)}
    IN  IF own # {} THEN "xalgo-unstake"
        ELSE (CHOOSE s \in all : \A t \in all : s.order <= t.order).key

\* buildLstUnstakeAction: an open of the opportunity with its unstake shape.
UnstakeOf(opps, receipt) ==
    LET o == Unstaking(opps, receipt)[1]
    IN  [Action(<<"lst", receipt>>, "open") EXCEPT !.opp = o.id, !.from = receipt,
            !.key = UnstakeKey(o, receipt), !.amount = 1,
            !.spends = {[asset |-> receipt, amount |-> 1]}]

Priority(a) ==
    CASE a.type = "claim" -> 0 [] a.key = "uncommit" -> 1 [] a.type = "close" -> 2
      [] OTHER -> 3

\* planUnwindWave: debt, empty positions and those without a key are skipped.
Steps(snapshot) ==
    {StepOf(p) : p \in {q \in snapshot.positions :
        ~Of(q.id).debt /\ q.amount # 0 /\ NextKey(q.keys) # Null}}
Unstakes(snapshot, opps) ==
    {UnstakeOf(opps, r) : r \in
        {x \in KnownReceipts(snapshot, opps) : Unstaking(opps, x) # <<>>}}

WaveOf(snapshot, opps) ==
    LET all == Steps(snapshot) \cup Unstakes(snapshot, opps)
        of(n) == SetToSeq({a \in all : Priority(a) = n})
    IN  of(0) \o of(1) \o of(2) \o of(3)

\* Bug: the key is no part of the fingerprint.
FingerprintNoStep(actions) ==
    {<<a.pos, a.from>> : a \in ToSet(actions)}

Fingerprint(actions) ==
    {<<a.type, a.pos, a.from, a.key, a.amount>> : a \in ToSet(actions)}

-----------------------------------------------------------------------------
(* DeterministicUnwindService.run.                                         *)

BeginUnwind ==
    /\ signing /\ trading' = TRUE /\ Begin("unwind")
    /\ snap' = Null /\ UNCHANGED listed

\* An opportunity's TVL does not count: minTvlUsd is 0.
Waived(opps) == {[o EXCEPT !.tvl = TRUE] : o \in ToSet(opps)}

\* What a wave drafts from a snapshot and a catalog, and whether it goes on.
Draft(loaded, seen) ==
    LET opps == Enrich(loaded, KnownReceipts(seen, loaded))
        drafted == WaveOf(seen, opps)
        actions == Normalize(drafted, seen, Waived(opps))
        verdict ==
            IF drafted = <<>> THEN IF wave = 1 THEN "no-op" ELSE "completed"
            ELSE IF Fingerprint(drafted) = print THEN "stuck"
            ELSE IF ~Approved(actions, seen, Waived(opps), signing, FALSE) THEN "stuck"
            ELSE "none"
    IN  /\ catalog' = opps /\ plan' = actions /\ print' = Fingerprint(drafted)
        /\ queue' = IF verdict # "none" THEN <<>> ELSE
                    [i \in DOMAIN actions |->
                        [kind |-> "single", acts |-> <<actions[i]>>, skipped |-> {}]]
        /\ stage' = IF verdict # "none" THEN "idle" ELSE "execute"
        /\ status' = verdict

\* A wave reads the wallet and the catalog anew; unwindPolicyConfig lets it go on
\* with an incomplete snapshot.
PlanWave ==
    /\ stage = "plan" /\ kind = "unwind"
    /\ \E loaded \in Catalogs, listing \in Listings : \E seen \in Views(listing) :
        listed' = listing /\ snap' = seen /\ Draft(loaded, seen)
    /\ outcomes' = <<>> /\ asked' = <<>> /\ landed' = {} /\ unseen' = {}
    /\ UNCHANGED <<signing, kind, trading, wave, runs, open, held, flying, troubled>>

\* The portfolio cannot be read.
WaveThrows ==
    /\ stage = "plan" /\ kind = "unwind"
    /\ End("failed") /\ UNCHANGED <<catalog, plan, queue, outcomes>>

\* A wave of failures only gives up; the wave limit ends even a flat unwind.
EndWave ==
    /\ stage = "execute" /\ kind = "unwind" /\ queue = <<>>
    /\ LET got == {outcomes[id] : id \in DOMAIN outcomes}
           verdict == IF "confirmed" \notin got /\ "failed" \in got THEN "stuck"
                      ELSE IF wave = MaxWaves THEN "max-waves" ELSE "none"
       IN  /\ status' = verdict
           /\ stage' = IF verdict = "none" THEN "plan" ELSE "idle"
           /\ wave' = IF verdict = "none" THEN wave + 1 ELSE wave
    /\ UNCHANGED <<signing, kind, trading, snap, catalog, plan, queue, outcomes, print,
                   runs, wallet, history>>

Next ==
    \/ BeginReview \/ AgentGivesUp \/ PlanReview \/ ConcludeReview
    \/ BeginUnwind \/ PlanWave \/ WaveThrows \/ EndWave
    \/ Confirm \/ Fail \/ TimeOut \/ ClaimBatch \/ ClaimBatchThrows \/ Compose
    \/ LandLate

Spec == Init /\ [][Next]_vars

-----------------------------------------------------------------------------
(* Properties.                                                             *)

\* Types: the wallet, which the gateway's listing is never ahead of, the work in
\* hand and the statuses.
TypeOK ==
    /\ DOMAIN open \subseteq DOMAIN listed /\ DOMAIN listed \subseteq {p.id : p \in Positions}
    /\ \A p \in DOMAIN listed : listed[p] \subseteq Of(p).start
    /\ \A p \in DOMAIN open : open[p] \subseteq listed[p]
    /\ stage \in {"idle", "plan", "execute"} /\ wave \in 0..MaxWaves
    /\ queue # <<>> => stage = "execute" /\ trading
    /\ \A id \in DOMAIN outcomes : outcomes[id] \in {"confirmed", "failed", "skipped"}

\* However an action is served, in the claim batch, in a compose pair or alone,
\* the executor is given it once, and only if it is an action of the plan.
EachActionOnce ==
    /\ \A i, j \in DOMAIN asked : i # j =>
        asked[i].id # asked[j].id
    /\ kind = "review" => \A i \in DOMAIN asked : asked[i].id \in IdsOf(plan)

\* POLICY.md: a review executes the foundation wave only; an action that depends
\* on earlier steps is executed together with the swap it waits for or not at all.
DependentsWait ==
    kind = "review" =>
        \A i \in DOMAIN asked : asked[i].deps # {} =>
            \E j \in DOMAIN asked : asked[j].type = "swap" /\ asked[j].id \in asked[i].deps

\* What a finished review is called agrees with the chain: confirmed means that
\* every action landed, and of a run that is not called executed, in part or in
\* whole, nothing landed that the executor had seen.
StatusTellsTruth ==
    kind = "review" /\ stage = "idle" =>
        /\ status = "confirmed" =>
            \A i \in DOMAIN plan : plan[i].type # "hold" => plan[i].id \in landed
        /\ status \notin {"confirmed", "partially-executed"} => landed \subseteq unseen

\* The unwind skips debt, empty positions and those that list no key.
Closable(p) == ~Of(p).debt /\ Of(p).amount # 0 /\ open[p] # {}

\* An unwind that says completed or no-op leaves a position it could close only
\* if the last snapshot left it out, and then that snapshot said it was
\* incomplete; and, as long as nothing given up lands late and brings them in,
\* no xALGO and no dualSTAKE receipt of an opportunity it saw, whatever failed
\* or came out of a close meanwhile.
FlatMeansFlat ==
    kind = "unwind" /\ stage = "idle" /\ status \in {"completed", "no-op"} =>
        /\ \A p \in DOMAIN open : Closable(p) =>
            ~snap.complete /\ \A q \in snap.positions : q.id # p
        /\ held = snap.held =>
            /\ XAlgo \notin held
            /\ \A o \in ToSet(catalog) : o.family = "myth" => o.receipt \notin held \ Cash

\* claim, uncommit, exit: the unwind never gives up the rewards or the
\* commitment of a position by closing it while they are still listed, be it
\* with a close that lands after the run; a review may.
NeverForfeits ==
    [][\A p \in DOMAIN open \ DOMAIN open' :
        \/ open[p] \cap {"claim", "uncommit"} = {}
        \/ kind = "review" /\ flying' = flying
        \/ \E f \in flying \ flying' : f.by = "review"]_vars

\* What the gateway listed and the chain no longer holds.
Stale == \E q \in snap.positions : q.id \notin DOMAIN open \/ q.keys # open[q.id]

\* An unwind is stuck for a cause: an action failed, a claim came back, the
\* unstake of a receipt was rejected, or the gateway still listed what was done;
\* progress that the snapshot shows is never taken for a standstill.
StuckHasCause ==
    kind = "unwind" /\ stage = "idle" /\ status = "stuck" =>
        \/ troubled \/ Stale
        \/ \E p \in DOMAIN open : Of(p).sticky /\ "claim" \in open[p]
        \/ \E a \in ToSet(plan) : a.type = "open" /\ ActionFaults(a, plan, snap, Waived(catalog)) # {}
=============================================================================
