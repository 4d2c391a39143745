----------------------------- MODULE MCExecution ----------------------------
(* Executor calls of every kind over one wallet. *)
EXTENDS Execution

CONSTANTS algo, usdc, lp, farm, k1, k2, row1, row2

Nothing == [asset |-> Null, amount |-> Null, assetAmount |-> Null]
Act(id, type) ==
    [id |-> id, type |-> type, deps |-> {}, opp |-> farm, pos |-> Null, key |-> Null,
     from |-> Null, to |-> Null, amount |-> Null, spends |-> {}, input |-> Nothing]
Shape(key, order, tags, assets) ==
    [key |-> key, order |-> order, tags |-> tags, assets |-> assets,
     escrowInput |-> FALSE]
Of(kind, acts) ==
    [kind |-> kind, acts |-> acts, shapes |-> {}, cosigned |-> FALSE,
     analytics |-> FALSE, known |-> FALSE]

\* An enter whose amount is stated three times, alike or not.
Enter(key, asset, x, y, z) ==
    [Act("enter", "open") EXCEPT !.key = key, !.from = asset, !.amount = x,
        !.spends = IF y = Null THEN {} ELSE {[asset |-> asset, amount |-> y]},
        !.input = [asset |-> asset, amount |-> Null, assetAmount |-> z]]

Folks == {Shape("setup", 1, {"setup", "depositescrow"}, {}),
          Shape("opt", 2, {"optescrow"}, {usdc}),
          Shape("deposit", 3, {"deposit"}, {usdc})}
Pact == {Shape("deploy", 1, {"deployescrow"}, {}),
         Shape("add", 2, {"add"}, {lp}),
         Shape("remove", 3, {"burn"}, {lp}),
         Shape("single", 4, {"add"}, {lp})}
Withdraw == {Shape("withdraw", 1, {"withdraw"}, {})}

Swap == [Act("swap", "swap") EXCEPT !.from = algo, !.to = usdc, !.amount = 1]
Claim(id, key, pos) == [Act(id, "claim") EXCEPT !.key = key, !.pos = pos]

MCDesk ==
    <<[claimKey |-> row1, pos |-> "p1", opp |-> Null, keys |-> {k1, k2},
       quotes |-> <<[key |-> k1, input |-> 1], [key |-> k1, input |-> 1],
                    [key |-> k2, input |-> 1]>>],
      [claimKey |-> row2, pos |-> "p2", opp |-> Null, keys |-> {k1},
       quotes |-> <<[key |-> k1, input |-> 2]>>]>>

MCCalls ==
    {Of("hold", <<Act("hold", "hold")>>),
     Of("swap", <<Swap>>),
     Of("compose", <<Enter("add", usdc, 1, 1, 1), Swap>>),
     [Of("shape", <<Enter("add", usdc, 2, 2, 2)>>) EXCEPT
        !.shapes = Pact, !.cosigned = TRUE],
     [Of("shape", <<Enter("remove", usdc, 1, Null, 2)>>) EXCEPT !.shapes = Pact],
     [Of("shape", <<Enter("single", algo, 2, 1, 2)>>) EXCEPT
        !.shapes = {s \in Pact : s.key = "single"}, !.cosigned = TRUE],
     [Of("shape", <<Claim("c1", k1, "p1")>>) EXCEPT
        !.shapes = {Shape("withdraw", 1, {"withdraw"}, {lp})}, !.cosigned = TRUE],
     [Of("shape", <<Enter("deposit", usdc, 1, 1, 1)>>) EXCEPT
        !.shapes = Folks],
     [Of("shape", <<Enter("deposit", usdc, 2, Null, 2)>>) EXCEPT
        !.shapes = Folks, !.known = TRUE],
     [Of("shape", <<[Act("exit", "close") EXCEPT !.key = "withdraw"]>>) EXCEPT
        !.shapes = Withdraw, !.known = TRUE],
     Of("claims", <<Claim("c1", k1, "p1"), Claim("c2", k1, "p2"),
                    Claim("c3", k1, "p1"), Claim("c4", "none", Null)>>),
     [Of("claims", <<Claim("c1", k2, "p1")>>) EXCEPT
        !.shapes = {Shape(k2, 1, {"claim"}, {lp})}, !.cosigned = TRUE],
     [Of("claims", <<Claim("c2", k1, "p2"), Claim("c3", "none", Null)>>) EXCEPT
        !.analytics = TRUE]}
=============================================================================
