------------------------------- MODULE PlanPolicy ---------------------------
(***************************************************************************)
(* What the host does with a plan before anything is executed:             *)
(* normalizePortfolioPlan and PortfolioPolicy.validate                     *)
(* (src/src/services/portfolio-policy.ts), the completion of execution     *)
(* inputs (shape-execution-input.ts) and the order of the actions          *)
(* (orderActions in treasury-review.ts).                                   *)
(*                                                                         *)
(* On top of what ExecutionPlans says, an action has the field filled (it  *)
(* has an execution input) and a shape the tags of its action.  opps is a  *)
(* set of opportunities [id, ready, tvl, shapes]; a snapshot is a record   *)
(* [complete, positions, held] with positions [id, opp, keys, amount,      *)
(* asset] and the liquid assets it holds.  tvl is FALSE below MIN_TVL_USD  *)
(* in a market that no preferred asset exempts.  A key is the word that    *)
(* names what its shape does.  Left out are the protocols of actions (each *)
(* is taken to be that of its opportunity or position) and the             *)
(* allocations of a plan: faults of either reject a plan, as others do.    *)
(***************************************************************************)
EXTENDS ExecutionPlans

IdsOf(actions) == {actions[i].id : i \in DOMAIN actions}
Only(set) == IF Cardinality(set) = 1 THEN CHOOSE x \in set : TRUE ELSE Null

\* The first match, as a set of at most one.
Position(action, snapshot) == {p \in snapshot.positions : p.id = action.pos}
Opportunity(action, opps) == {o \in opps : o.id = action.opp}
Shapes(action, opps) == UNION {o.shapes : o \in Opportunity(action, opps)}
ShapeOf(action, opps) == {s \in Shapes(action, opps) : s.key = action.key}

-----------------------------------------------------------------------------
(* completeActionExecutionInput.                                           *)

\* findOpportunityForAction: the opportunity of the position stands in for one
\* that the catalog does not have.
Found(action, snapshot, opps) ==
    IF Opportunity(action, opps) # {} THEN Opportunity(action, opps)
    ELSE {o \in opps : \E p \in Position(action, snapshot) : o.id = p.opp}

\* resolveShapeForAction: the advertised shape; else one inferred from the key,
\* for an exit or a claim, and for an increase of a position.  asks: it needs an
\* amount.  A claiming key and a collateral key need none.
Resolved(action, snapshot, opps) ==
    LET advertised == {s \in UNION {o.shapes : o \in Found(action, snapshot, opps)} :
                            s.key = action.key}
    IN  IF action.key = Null THEN {}
        ELSE IF advertised # {} THEN {[asks |-> Has(s, {"amount"})] : s \in advertised}
        ELSE IF action.type \in {"close", "reduce"} THEN {[asks |-> TRUE]}
        ELSE IF action.type = "claim" THEN {[asks |-> action.key # "claim"]}
        ELSE IF action.type = "increase" /\ Position(action, snapshot) # {}
        THEN {[asks |-> action.key # "collateral"]} ELSE {}

\* What completeExecutionInput states for an amount that nothing else states: what
\* the position holds, else a declared spend.
Stated(action, held) ==
    IF held # {} THEN Only({p.amount : p \in held})
    ELSE IF action.spends # {} THEN (CHOOSE s \in action.spends : TRUE).amount ELSE Null

\* completeActionExecutionInput: the opportunity, the amount and the asset come
\* from the position when the plan has none, the amount also from the completed
\* input; a claim of everything states no amount, and a zero amount of a claim is
\* cleared in any case.
Complete(action, snapshot, opps) ==
    LET held  == Position(action, snapshot)
        bound == IF action.opp = Null /\ held # {}
                 THEN [action EXCEPT !.opp = Only({p.opp : p \in held})] ELSE action
        shape == Resolved(bound, snapshot, opps)
        sized == IF action.type = "claim" /\ \E s \in shape : ~s.asks THEN Null
                 ELSE IF action.amount # Null THEN action.amount
                 ELSE IF held # {} /\ action.type \in {"close", "reduce", "claim"}
                 THEN Only({p.amount : p \in held})
                 ELSE IF action.input.amount # Null THEN action.input.amount
                 ELSE IF \E s \in shape : s.asks THEN Stated(action, held) ELSE Null
    IN  IF shape = {}
        THEN [bound EXCEPT !.amount = IF action.type = "claim" /\ @ = 0 THEN Null ELSE @]
        ELSE [bound EXCEPT !.amount = sized, !.filled = TRUE,
                 !.from = IF @ = Null THEN Only({p.asset : p \in held}) ELSE @]

\* syncSwapAuthorizedSpend
SyncSwap(action) ==
    IF action.type = "swap" /\ action.from # Null /\ action.amount \notin {Null, 0}
    THEN [action EXCEPT !.spends = {[asset |-> action.from, amount |-> action.amount]}]
    ELSE action

-----------------------------------------------------------------------------
(* normalizePortfolioPlan.                                                 *)

IsEnter(action) == action.type \in Enters /\ action.opp # Null

\* isPrerequisiteShape: the shape's action alone decides.
Preparatory(s) == Has(s, {"setup", "optin", "create"})

\* shapesByKey: the shapes of the whole catalog.  A key names the action of its
\* shape, so those with one key are preparatory together or not at all.
Keyed(action, opps) == {s \in UNION {o.shapes : o \in opps} : s.key = action.key}

\* capitalOpportunityIds and droppedIds
Dropped(actions, opps) ==
    LET enters == {a \in ToSet(actions) : IsEnter(a)}
        capital == {a.opp : a \in {b \in enters :
                        \E s \in Keyed(b, opps) : ~Preparatory(s)}}
    IN  {a.id : a \in {b \in enters : b.opp \in capital /\
                        \E s \in Keyed(b, opps) : Preparatory(s)}}

\* Redundant setup enters go, the inputs are completed, and a dependency that is
\* dropped or is no action of the plan is forgotten.
Normalize(actions, snapshot, opps) ==
    LET dropped == Dropped(actions, opps)
        kept == Those(actions, {a \in ToSet(actions) : a.id \notin dropped})
        done == [i \in DOMAIN kept |-> SyncSwap(Complete(kept[i], snapshot, opps))]
    IN  [i \in DOMAIN done |-> [done[i] EXCEPT !.deps = @ \cap IdsOf(kept)]]

-----------------------------------------------------------------------------
(* PortfolioPolicy.validate: the hard violations, as <<action, reason>>.   *)

\* effectiveRequiredAssetIds: a single-sided add needs what it deposits.
Deposited(action) ==
    IF action.input.asset # Null THEN action.input.asset
    ELSE IF action.from # Null THEN action.from
    ELSE Only({s.asset : s \in action.spends})

Required(action, opps) ==
    LET chosen == ShapeOf(action, opps)
    IN  IF chosen = {} THEN UNION {s.assets : s \in Shapes(action, opps)}
        ELSE IF (\E s \in chosen : Has(s, {"single"})) /\ Deposited(action) # Null
        THEN {Deposited(action)} ELSE UNION {s.assets : s \in chosen}

\* actionRequiresDeclaredSpend: a borrow receives and collateral stays in escrow;
\* what is repaid is no spend of the treasury.
MustDeclare(action, opps) ==
    LET chosen == ShapeOf(action, opps)
    IN  /\ action.key \notin {"borrow", "collateral"}
        /\ ~\E s \in chosen : Has(s, {"borrow", "collateral"})
        /\ \/ action.amount \notin {Null, 0}
           \/ \E s \in chosen : Has(s, {"amount"}) /\ ~Has(s, {"repay"})

\* validateRequiredAssets
Uncovered(action, actions, snapshot, opps) ==
    Required(action, opps) \ (snapshot.held \cup
        {a.to : a \in {b \in ToSet(actions) : b.type = "swap" /\ b.id \in action.deps}})

SwapFaults(a) ==
    {r \in {"incomplete", "spend"} :
        \/ r = "incomplete" /\ (Null \in {a.from, a.to, a.amount} \/ a.from = a.to)
        \/ r = "spend" /\ a.spends # {[asset |-> a.from, amount |-> a.amount]}}

\* An enter whose opportunity is not known may only top up a position.
TopsUp(a, snapshot) ==
    /\ a.type = "increase" /\ a.key # Null /\ a.filled
    /\ \E p \in Position(a, snapshot) : a.opp \in {Null, p.opp}

EnterFaults(a, actions, snapshot, opps) ==
    LET known == Opportunity(a, opps)
        fault ==
            [unknown    |-> known = {} /\ ~TopsUp(a, snapshot),
             research   |-> \E o \in known : ~o.ready \/ o.shapes = {},
             key        |-> \E o \in known : o.shapes # {} /\ a.key # Null
                                             /\ ShapeOf(a, opps) = {},
             undeclared |-> a.spends = {} /\ MustDeclare(a, opps),
             assets     |-> known # {} /\ Uncovered(a, actions, snapshot, opps) # {},
             tvl        |-> \E o \in known : ~o.tvl]
    IN  {r \in DOMAIN fault : fault[r]}

ExitFaults(a, snapshot) ==
    LET at == Position(a, snapshot)
        fault == [position |-> at = {},
                  manage   |-> \E p \in at : a.key # Null /\ a.key \notin p.keys]
    IN  {r \in DOMAIN fault : fault[r]}

ActionFaults(a, actions, snapshot, opps) ==
    LET ids == IdsOf(actions)
        common == {r \in {"self", "missing"} :
                    \/ r = "self" /\ a.id \in a.deps
                    \/ r = "missing" /\ a.id \notin a.deps /\ ~(a.deps \subseteq ids)}
        sized == {r \in {"zero", "spends"} :
                    \/ r = "zero" /\ a.amount = 0
                    \/ r = "spends" /\ \E s, t \in a.spends : s # t /\ s.asset = t.asset}
        shape == {r \in {"shape"} : a.key = Null \/ ~a.filled}
    IN  IF a.type = "hold" THEN common
        ELSE IF a.type = "swap" THEN common \cup sized \cup SwapFaults(a)
        ELSE common \cup sized \cup shape \cup
            (IF a.type \in Enters THEN EnterFaults(a, actions, snapshot, opps)
             ELSE ExitFaults(a, snapshot))

Violations(actions, snapshot, opps, blockIncomplete) ==
    (UNION {{<<actions[i].id, r>> : r \in
                ActionFaults(actions[i], actions, snapshot, opps)} : i \in DOMAIN actions})
    \cup {<<actions[i].id, "duplicate">> : i \in {j \in DOMAIN actions :
            \E k \in 1..(j - 1) : actions[k].id = actions[j].id}}
    \cup {<<Null, "incomplete">> : x \in {y \in {blockIncomplete} : y
            /\ ~snapshot.complete /\ \E i \in DOMAIN actions : actions[i].type # "hold"}}

\* Without signing every plan is approved.
Approved(actions, snapshot, opps, signing, blockIncomplete) ==
    signing => Violations(actions, snapshot, opps, blockIncomplete) = {}

-----------------------------------------------------------------------------
(* orderActions: depth first, dependencies before what depends on them; the *)
(* dependencies of one action are taken in plan order.  The next action is  *)
(* found from the first one not yet visited: down to its first dependency   *)
(* not yet visited, as long as there is one.                               *)

\* validate rejects only an action that depends on itself.
Cyclic(actions) ==
    LET grow(ids, i) == ids \cup
            {a.id : a \in {b \in ToSet(actions) : b.deps \cap ids # {}}}
        from(a) == FoldLeft(grow, {b.id : b \in {c \in ToSet(actions) : a.id \in c.deps}},
                            actions)
    IN  \E a \in ToSet(actions) : a.id \in from(a)

Ordered(actions) ==
    LET n == Len(actions)
        rest(done) == (1..n) \ ToSet(done)
        waits(i, done) == {j \in rest(done) : actions[j].id \in actions[i].deps}
        next(done) ==
            LET down[m \in 0..n] ==
                    IF m = 0 THEN Min(rest(done))
                    ELSE LET at == down[m - 1]
                         IN  IF waits(at, done) = {} THEN at ELSE Min(waits(at, done))
            IN  down[n]
        visited[k \in 0..n] ==
            IF k = 0 THEN <<>>
            ELSE LET done == visited[k - 1] IN Append(done, next(done))
        order == visited[n]
    IN  [k \in 1..n |-> actions[order[k]]]

-----------------------------------------------------------------------------
(* determineStatus: outcomes is the sequence of [act, status].             *)

\* Bug: a run with confirmed actions is called failed when others were not.
StatusAllOrNothing(actions, approved, outcomes, trading) ==
    LET actionable == {i \in DOMAIN actions : actions[i].type # "hold"}
        done == {i \in DOMAIN outcomes : outcomes[i].status = "confirmed"}
    IN  IF actionable = {} THEN "no-op" ELSE IF ~approved THEN "planned"
        ELSE IF ~trading THEN "validated-dry-run"
        ELSE IF Cardinality(done) = Cardinality(actionable) THEN "confirmed" ELSE "failed"

Status(actions, approved, outcomes, trading) ==
    LET actionable == {i \in DOMAIN actions : actions[i].type # "hold"}
        count(st) == Cardinality({i \in DOMAIN outcomes : outcomes[i].status \in st})
    IN  IF actionable = {} THEN "no-op"
        ELSE IF ~approved THEN "planned"
        ELSE IF ~trading
        THEN IF count({"failed", "skipped"}) > 0 THEN "planned" ELSE "validated-dry-run"
        ELSE IF count({"confirmed"}) > 0 /\ count({"failed", "skipped"}) > 0
        THEN "partially-executed"
        ELSE IF count({"confirmed"}) = Cardinality(actionable) THEN "confirmed"
        ELSE "failed"
=============================================================================
