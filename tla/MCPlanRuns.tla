----------------------------- MODULE MCPlanRuns -----------------------------
(* Reviews and unwinds in any order over one small wallet. *)
EXTENDS PlanRuns

CONSTANTS algo, usdc, lst, xalgo, lend, pool, stake, dual, farm, plain, debt, hot

Shape(key, order, tags, assets) ==
    [key |-> key, order |-> order, tags |-> tags, assets |-> assets, escrowInput |-> FALSE]
Opp(id, family, receipt, shapes) ==
    [id |-> id, ready |-> TRUE, tvl |-> TRUE, shapes |-> shapes, family |-> family,
     receipt |-> receipt]

Lend == Opp(lend, "other", usdc,
            {Shape("prepare", 1, {"setup"}, {}), Shape("add", 2, {"add"}, {usdc})})
Pool == Opp(pool, "other", usdc, {Shape("add", 1, {"add", "amount"}, {usdc}),
                                  Shape("drop", 2, {"burn"}, {algo})})
Stake == Opp(stake, "folks", xalgo, {Shape("stake", 1, {"stake"}, {algo})})
Dual == Opp(dual, "myth", lst, {Shape("mint", 1, {"mint"}, {algo})})

MCCatalogs ==
    {<<>>, <<Pool, Lend, Dual>>,
     <<[Dual EXCEPT !.ready = FALSE, !.shapes = @ \cup {Redeem("myth-redeem", lst)}], Stake>>}

Place(id, keys, yields) ==
    [id |-> id, opp |-> pool, asset |-> usdc, amount |-> 1, debt |-> FALSE,
     start |-> keys, sticky |-> FALSE, yields |-> yields]
MCPositions ==
    {Place(farm, {"claim", "uncommit", "exit"}, {lst}), Place(plain, {"exit"}, {xalgo}),
     [Place(debt, {"exit"}, {}) EXCEPT !.debt = TRUE],
     [Place(hot, {"claim", "exit"}, {}) EXCEPT !.sticky = TRUE]}

MCStarts == {{farm}, {farm, hot}, {plain, debt}}

Id(name) == <<"plan", name>>
Ids(names) == {Id(n) : n \in names}
Swap(id) == [Action(Id(id), "swap") EXCEPT !.from = algo, !.to = usdc, !.amount = 1]
Enter(id, opp, key, deps) ==
    [Action(Id(id), "open") EXCEPT !.opp = opp, !.key = key, !.deps = Ids(deps),
        !.from = usdc, !.amount = 1, !.spends = {[asset |-> usdc, amount |-> 1]}]
Claim(id, pos) == [Action(Id(id), "claim") EXCEPT !.key = "claim", !.pos = pos]
Close(id, pos, deps) ==
    [Action(Id(id), "close") EXCEPT !.key = "exit", !.pos = pos, !.deps = Ids(deps)]

MCDesk == <<[claimKey |-> "row", pos |-> farm, opp |-> Null, keys |-> {"claim"},
             quotes |-> <<[key |-> "claim", input |-> 1]>>]>>

MCPlans ==
    {<<Swap("s"), Enter("e", pool, "add", {"s", "junk"}), Close("x", plain, {"e"})>>,
     <<Enter("e", pool, "add", {"s"}), Swap("s"), Enter("f", pool, "add", {"s"})>>,
     <<Claim("c", farm), Claim("d", farm), Close("x", farm, {"c"}), Action(Id("h"), "hold")>>,
     <<Close("x", plain, {"y"}), Close("y", debt, {"x"})>>,
     <<Enter("p", lend, "prepare", {}), Enter("e", lend, "add", {"p", "s"}), Swap("s")>>,
     <<[Close("x", plain, {}) EXCEPT !.amount = 0]>>,
     <<Action(Id("h"), "hold")>>,
     <<Claim("c", hot), Close("x", farm, {}), [Swap("s") EXCEPT !.to = xalgo]>>}
=============================================================================
