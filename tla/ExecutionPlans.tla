---------------------------- MODULE ExecutionPlans --------------------------
(***************************************************************************)
(* What AlgorandExecutionService decides before it submits anything: which *)
(* execution shapes an action runs and in which order, how an amount is    *)
(* clamped to the wallet, which claims share a batch and which compiled    *)
(* quote belongs to which claim, and when a swap and an enter collapse     *)
(* into one compose call                                                   *)
(* (src/src/integrations/algorand/execution.ts, folks-execution.ts,        *)
(* src/src/services/claim-desk.ts).                                        *)
(*                                                                         *)
(* An action is a record [id, type, deps, opp, pos, key, from, to, amount, *)
(* spends, input]; an opportunity a set of shapes [key, order, tags,       *)
(* assets, escrowInput].  The code matches regular expressions against     *)
(* shape key, action and variant; tags holds the words they contain.       *)
(***************************************************************************)
EXTENDS Integers, FiniteSets, Sequences, SequencesExt

CONSTANT Null       \* an absent field

Enters == {"open", "increase"}

\* Array.filter: the elements that are in a set, in their order.
Those(seq, set) ==
    LET those[n \in 0..Len(seq)] ==
            IF n = 0 THEN <<>>
            ELSE IF seq[n] \in set THEN Append(those[n - 1], seq[n]) ELSE those[n - 1]
    IN  those[Len(seq)]

-----------------------------------------------------------------------------
(* Shapes.                                                                 *)

Has(shape, words) == shape.tags \cap words # {}

\* classifyFolksShape: credit shapes first, then setup, opt and deposit.
FolksRole(shape) ==
    IF Has(shape, {"loanescrow", "addcollateral", "borrow", "repay", "collateral"})
    THEN "other"
    ELSE IF \/ Has(shape, {"depositescrow"})
            \/ Has(shape, {"setup"}) /\ ~Has(shape, {"opt"})
    THEN "setup"
    ELSE IF Has(shape, {"optescrow", "optin"}) \/ Has(shape, {"setup"})
    THEN "opt"
    ELSE IF Has(shape, {"deposit"}) THEN "deposit" ELSE "other"

NeedsSequentialEscrow(shapes) ==
    /\ Cardinality(shapes) > 1
    /\ \E s \in shapes : FolksRole(s) \in {"setup", "opt"} \/ s.escrowInput

\* sortExecutionShapes; the shapes of one opportunity differ in their order.
Sorted(shapes) == SetToSortSeq(shapes, LAMBDA s, t : s.order < t.order)

\* resolveDepositAssetId: the asset of the input or of the action, else the first
\* that a shape requires.
DepositAsset(action, shapes) ==
    LET asking == Sorted({s \in shapes : s.assets # {}})
    IN  IF action.input.asset # Null THEN action.input.asset
        ELSE IF action.from # Null THEN action.from
        ELSE IF asking = <<>> THEN Null ELSE CHOOSE x \in asking[1].assets : TRUE

\* Bug: the opt-in of the escrow is taken for done as soon as there is one.
EscrowShapesNoOpt(shapes, hasEscrow, escrowOpted) ==
    Sorted({s \in shapes : ~hasEscrow \/ FolksRole(s) \notin {"setup", "opt"}})

\* selectEscrowShapesToRun
EscrowShapes(shapes, hasEscrow, escrowOpted) ==
    Sorted({s \in shapes :
        \/ ~hasEscrow
        \/ FolksRole(s) \notin {"setup", "opt"}
        \/ FolksRole(s) = "opt" /\ ~escrowOpted})

\* isExitOrRedeemShape.  The expression also names removeLiquidity, but it is
\* matched against a lower-cased key and never fits.
IsExit(shape) == Has(shape, {"unstake", "redeem", "withdraw", "burn", "claim"})
IsPrerequisite(shape) == Has(shape, {"setup", "optin", "create", "opt", "deployescrow"})
ConfirmsFirst(shape) == Has(shape, {"deployescrow"})

\* buildQuoteRequests: the chosen shape, for an enter with the prerequisites
\* that come before it; an exit shape, a key that the opportunity does not list
\* and any other action are quoted alone.
QuotedShapes(action, shapes) ==
    LET target == {s \in shapes : s.key = action.key}
    IN  target \cup
        {s \in shapes :
            /\ action.type \in Enters
            /\ IsPrerequisite(s) /\ ~IsExit(s)
            /\ \E t \in target : ~IsExit(t) /\ s.order <= t.order}

\* collectPotentialReceiveAssetIds: what the wallet may have to opt in to.
Receivable(action, shapes, native) ==
    ((UNION {s.assets : s \in shapes}) \cup {action.to}) \ {Null, native}

-----------------------------------------------------------------------------
(* Amounts.                                                                *)

SpendsOf(action, asset) == {s \in action.spends : s.asset = asset}

\* resolveCapitalEnterSpendAssetId
SpendAsset(action) ==
    IF action.input.asset # Null THEN action.input.asset
    ELSE IF Cardinality(action.spends) = 1
    THEN (CHOOSE s \in action.spends : TRUE).asset
    ELSE action.from

\* clampCapitalEnterToSpendable: a borrow does not spend what it names.
Clamps(action, shapes) ==
    /\ action.type \in Enters
    /\ ~\E s \in shapes : s.key = action.key /\ Has(s, {"borrow"})
    /\ SpendAsset(action) # Null

\* resolvePlannedSpendAmountRaw
Planned(action, asset) ==
    IF SpendsOf(action, asset) # {}
    THEN (CHOOSE s \in SpendsOf(action, asset) : TRUE).amount
    ELSE IF action.amount # Null /\ asset \in {action.from, action.input.asset}
    THEN action.amount
    ELSE action.input.amount

\* Bug: only the declared spend is reduced, not what the quote is asked for.
ClampSpendOnly(action, asset, spendable) ==
    IF Planned(action, asset) = Null \/ spendable = 0 THEN action
    ELSE [action EXCEPT !.spends = {[s EXCEPT !.amount =
              IF @ > spendable THEN spendable ELSE @] : s \in action.spends}]

\* clampActionAmountToSpendable: every statement of the planned amount is
\* replaced, a statement of another amount is left alone.
Clamp(action, asset, spendable) ==
    LET planned == Planned(action, asset)
        cut(x)  == IF x = planned THEN spendable ELSE x
    IN  IF planned = Null THEN action
        ELSE IF planned <= spendable \/ spendable = 0 THEN action
        ELSE [action EXCEPT
                !.amount = cut(@),
                !.input.amount = IF @ = Null /\ action.amount = planned
                                 THEN spendable ELSE cut(@),
                !.input.assetAmount = cut(@),
                !.spends = {IF s.asset = asset THEN [s EXCEPT !.amount = cut(@)]
                            ELSE s : s \in action.spends}]

\* The amounts a quote for the action names, and all amounts it states.
QuotedAmounts(action) == {action.input.amount, action.input.assetAmount} \ {Null}
StatedAmounts(action, asset) ==
    (QuotedAmounts(action) \cup {action.amount} \cup
        {s.amount : s \in SpendsOf(action, asset)}) \ {Null}

-----------------------------------------------------------------------------
(* The claim desk: rows [claimKey, pos, opp, keys, quotes]; a quote is a    *)
(* record [key, input], and two quotes with equal fields are the same.     *)

\* matchExactClaimableRow: by position, else by opportunity, else by shape.
MatchRow(action, desk) ==
    LET rows  == {r \in ToSet(desk) : action.key \in r.keys \cup {r.claimKey}}
        byPos == {r \in rows : action.pos # Null /\ r.pos = action.pos}
        byOpp == {r \in rows : action.opp # Null /\ r.opp = action.opp}
        found == IF byPos # {} THEN byPos ELSE IF byOpp # {} THEN byOpp ELSE rows
    IN  IF action.key = Null \/ rows = {} THEN <<>> ELSE <<Those(desk, found)[1]>>

\* findClaimableRows: all rows that share the claim key of the match.
RowsOf(action, desk) ==
    LET match == MatchRow(action, desk)
    IN  IF match = <<>> THEN <<>>
        ELSE IF match[1].claimKey = Null THEN match
        ELSE Those(desk, {r \in ToSet(desk) : r.claimKey = match[1].claimKey})

\* What a Map keyed by the elements keeps: the first of those that are equal.
FirstOfEach(seq) ==
    LET firsts == Those([i \in DOMAIN seq |-> i],
                        {i \in DOMAIN seq : \A j \in 1..(i - 1) : seq[j] # seq[i]})
    IN  [k \in DOMAIN firsts |-> seq[firsts[k]]]

\* quoteRequestsForClaimAction: the quotes of the rows, without repetition.
QuotesOf(action, desk) ==
    LET rows == RowsOf(action, desk)
    IN  FirstOfEach(FlattenSeq([i \in DOMAIN rows |-> rows[i].quotes]))

HasDeskQuote(action, desk) == QuotesOf(action, desk) # <<>>

\* planClaimQuoteRequests, one action: the first with a claim key or a quote wins.
TakeClaim(acc, action, desk) ==
    LET quotes   == QuotesOf(action, desk)
        claimKey == RowsOf(action, desk)[1].claimKey
        novel    == Those(quotes, ToSet(quotes) \ {p.quote : p \in ToSet(acc.planned)})
    IN  IF quotes = <<>> THEN acc
        ELSE IF claimKey \in acc.claimKeys \/ novel = <<>>
        THEN [acc EXCEPT !.skipped = @ \cup {action.id}]
        ELSE [acc EXCEPT
                !.claimKeys = @ \cup ({claimKey} \ {Null}),
                !.planned = @ \o [i \in DOMAIN novel |->
                                    [act |-> action.id, quote |-> novel[i]]]]

PlanClaims(actions, desk) ==
    LET plan[n \in 0..Len(actions)] ==
            IF n = 0 THEN [planned |-> <<>>, skipped |-> {}, claimKeys |-> {}]
            ELSE TakeClaim(plan[n - 1], actions[n], desk)
    IN  plan[Len(actions)]

\* Bug: the compiled quotes are paired with the requests by position.
AlignByPosition(requests, responses) == [i \in DOMAIN requests |-> i]

\* alignQuotesByShapeKey: for each request in turn the response at its own
\* index if that one is still free and has its shape key, else the first that
\* does; the empty sequence when a request finds none.
Align(requests, responses) ==
    LET free(n, taken) == {j \in DOMAIN responses \ ToSet(taken) :
                              responses[j].key = requests[n].key}
        pairs[n \in 0..Len(requests)] ==
            IF n = 0 THEN <<>>
            ELSE IF Len(pairs[n - 1]) < n - 1 \/ free(n, pairs[n - 1]) = {}
            THEN pairs[n - 1]
            ELSE Append(pairs[n - 1], IF n \in free(n, pairs[n - 1]) THEN n
                                      ELSE Min(free(n, pairs[n - 1])))
        all == pairs[Len(requests)]
    IN  IF Len(all) = Len(requests) /\ Len(requests) = Len(responses)
        THEN all ELSE <<>>

-----------------------------------------------------------------------------
(* Compose.                                                                *)

\* uniqueEnterRequiredAssetId
UniqueRequiredAsset(enter, shapes) ==
    LET needed == UNION {s.assets : s \in {t \in shapes : t.key = enter.key}}
    IN  IF Cardinality(needed) = 1 THEN CHOOSE a \in needed : TRUE ELSE Null

\* canComposeEnter
CanCompose(enter, swap, shapes) ==
    /\ enter.type \in Enters /\ swap.type = "swap"
    /\ swap.deps = {} /\ swap.id \in enter.deps
    /\ Null \notin {swap.from, swap.to, swap.amount}
    /\ enter.opp # Null /\ shapes # {}
    /\ ~NeedsSequentialEscrow(shapes)
    /\ ~\E s \in shapes : ConfirmsFirst(s)
    /\ UniqueRequiredAsset(enter, shapes) # Null
    /\ swap.from # UniqueRequiredAsset(enter, shapes)
    /\ swap.to = UniqueRequiredAsset(enter, shapes)

\* findComposePairs: each enter with its only swap dependency, each swap once,
\* by the first that can use it.
ComposePairs(actions, shapesOf) ==
    LET swapsOf(e) == {s \in ToSet(actions) : s.type = "swap" /\ s.id \in e.deps}
        users(s) == {i \in DOMAIN actions :
                        /\ actions[i].type \in Enters /\ swapsOf(actions[i]) = {s}
                        /\ CanCompose(actions[i], s, shapesOf[actions[i]])}
    IN  {<<s, actions[Min(users(s))]>> : s \in {t \in ToSet(actions) : users(t) # {}}}
=============================================================================
