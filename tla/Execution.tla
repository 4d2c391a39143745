------------------------------- MODULE Execution ----------------------------
(***************************************************************************)
(* AlgorandExecutionService (src/src/integrations/algorand/execution.ts)   *)
(* with the store of Folks escrow keys (folks-escrow-store.ts), on a chain *)
(* that confirms a group soon, late or never, and across crashes.          *)
(*                                                                         *)
(* The runs hold the run lock, so one executor call is served at a time.   *)
(* A call turns into legs: transaction groups that are quoted, signed,     *)
(* submitted and awaited one after the other.  What is on chain (landed,   *)
(* escrows, optedIn) is kept apart from what the process knows (legs,      *)
(* secret), what it stored (record) and what it reported (report).         *)
(***************************************************************************)
EXTENDS ExecutionPlans

CONSTANTS
    Calls,          \* executor calls [kind, acts, shapes, cosigned, analytics,
                    \* known]; known: the input names the escrow's pool
    Torn,           \* a stored record that is not whole
    Native,         \* ALGO, which needs no opt-in
    Desk,           \* the claim desk's rows
    MaxAmount,      \* bound: spendable balances that are read
    MaxCalls,       \* bound: executor calls in a behaviour
    MaxCrashes      \* bound: crashes and redeploys

ASSUME ExecutionAssumption ==
    /\ MaxCalls \in Nat /\ MaxCrashes \in Nat /\ MaxAmount \in Nat
    /\ Null \notin 1..MaxCalls /\ Torn \notin 1..MaxCalls

\* Shapes differ in their order, so that any of them can be sorted.
ASSUME ShapesAssumption ==
    \A c \in Calls :
      /\ \A s \in c.shapes : s.order \in Nat
      /\ \A S \in SUBSET c.shapes :
            LET run == Sorted(S)
            IN  /\ run \in Seq(S) /\ ToSet(run) = S
                /\ \A i, j \in DOMAIN run : i < j => run[i].order < run[j].order

\* The gateway always lists setup, opt-in and deposit, and in this order.
ASSUME EscrowAssumption ==
    \A c \in Calls : NeedsSequentialEscrow(c.shapes) =>
      LET in(role) == {s \in c.shapes : FolksRole(s) = role}
      IN  /\ in("opt") \cup in("deposit") # {} => in("setup") # {}
          /\ in("deposit") # {} => in("opt") # {}
          /\ \A s \in in("setup"), t \in in("opt") \cup in("deposit") : s.order < t.order
          /\ \A s \in in("opt"), t \in in("deposit") : s.order < t.order

\* The fields of a planned action.
ASSUME ActsAssumption ==
    \A c \in Calls :
      /\ c.acts \in Seq(ToSet(c.acts))
      /\ {"amount", "spends", "input"} \subseteq DOMAIN c.acts[1]
      /\ {"amount", "assetAmount"} \subseteq DOMAIN c.acts[1].input

\* The desk is an array of rows, each with an array of quotes.
ASSUME DeskAssumption ==
    /\ Desk \in Seq(ToSet(Desk))
    /\ \A r \in ToSet(Desk) : r.quotes \in Seq(ToSet(r.quotes))

VARIABLES
    signing,        \* ENABLE_TRANSACTION_SIGNING
    call,           \* the call in progress or, at "idle", the last one
    number,         \* its number: how many calls were started
    stage,          \* the await it is at
    funds,          \* the spendable balance it read, or Null
    legs,           \* its groups so far: [act, role, quote, assets, state]
    at,             \* the group it is working on
    secret,         \* the escrow whose key is in memory; an escrow is named by
                    \* the call that created it
    record,         \* the stored escrow record: Null, Torn or an escrow
    flying,         \* groups sent whose fate is open
    landed,         \* groups of the call that are on chain
    escrows,        \* escrows that are on chain
    deployed,       \* the Pact farm escrow is on chain
    optedIn,        \* assets the wallet, and <<escrow, asset>> an escrow holds
    report,         \* what the last call answered for each action
    gaps,           \* history: calls that crashed, gave up waiting or could
                    \* not store a key
    crashes

chain == <<flying, landed, escrows, deployed, optedIn>>
work == <<funds, legs, at, secret>>
vars == <<signing, call, number, stage, work, record, chain, report, gaps, crashes>>

Escrows == 1..MaxCalls
Stages == {"idle", "prepare", "quote", "submit", "wait",
           "save", "write", "resave", "rewrite"}
Roles == {"optin", "swap", "enter", "exit", "setup", "opt", "deposit", "deploy",
          "claim", "post", "other"}

Ids(c) == {c.acts[i].id : i \in DOMAIN c.acts}
Main == call.acts[1]
Sequential == Main.type \in Enters /\ NeedsSequentialEscrow(call.shapes)
Stepwise == call.kind = "shape" /\
    (Sequential \/ \E i \in DOMAIN legs : legs[i].role = "deploy")

Leg(act, role, quote, assets) ==
    [act |-> act, role |-> role, quote |-> quote, assets |-> assets, state |-> "todo"]
Current == legs[at]
Mark(i, state) == [legs EXCEPT ![i].state = state]
Group == [number |-> number, leg |-> at, role |-> Current.role,
          assets |-> Current.assets, escrow |-> secret]

Init ==
    /\ signing \in BOOLEAN
    /\ call = Null /\ number = 0 /\ stage = "idle" /\ funds = Null
    /\ legs = <<>> /\ at = 0 /\ secret = Null /\ record = Null
    /\ flying = {} /\ landed = {} /\ escrows = {} /\ deployed = FALSE
    /\ optedIn = {} /\ report = <<>> /\ gaps = {} /\ crashes = 0

-----------------------------------------------------------------------------
(* What a call answers: ls are its groups, threw whether it ended with an   *)
(* exception (a submission that does not confirm always throws).            *)

Confirmed(ls, id) == \E i \in DOMAIN ls : ls[i].act = id /\ ls[i].state = "confirmed"
Planned1(ls, id) == \E i \in DOMAIN ls : ls[i].act = id

\* executeClaimBatch: an action that confirmed once stays confirmed, the one
\* that failed is failed, those behind it and the duplicates are skipped; when
\* no quote arrived all planned ones have failed.
ClaimOutcome(ls, id, threw) ==
    IF Confirmed(ls, id) THEN "confirmed"
    ELSE IF threw /\ Planned1(ls, id) /\ (at = 0 \/ ls[at].act = id) THEN "failed"
    ELSE "skipped"

\* executeComposeEnter: an exception fails both, else the swap counts as
\* confirmed and the enter has the outcome of the last group.
ComposeOutcome(ls, id, threw) == IF threw THEN "failed" ELSE "confirmed"

\* Bug: a prerequisite that was skipped as complete fails its action.
ActionOutcomeStrict(ls, id, threw) ==
    IF ~threw /\ \A i \in DOMAIN ls : ls[i].state = "confirmed"
    THEN "confirmed" ELSE "failed"

\* executeAction: an exception fails the action, and so does a call in which
\* every step was skipped.
ActionOutcome(ls, id, threw) ==
    IF ~threw /\ Confirmed(ls, id) THEN "confirmed" ELSE "failed"

Outcome(ls, id, threw) ==
    CASE call.kind = "claims"  -> ClaimOutcome(ls, id, threw)
      [] call.kind = "compose" -> ComposeOutcome(ls, id, threw)
      [] OTHER                 -> ActionOutcome(ls, id, threw)

\* A claim that has no desk quote gets no outcome from the batch.
Answered == {id \in Ids(call) : call.kind = "claims" =>
                \E i \in DOMAIN call.acts :
                    call.acts[i].id = id /\ HasDeskQuote(call.acts[i], Desk)}

Finish(ls, threw) ==
    /\ report' = [id \in Answered |-> Outcome(ls, id, threw)]
    /\ stage' = "idle" /\ secret' = Null

Throw == Finish(legs, TRUE) /\ UNCHANGED <<legs, at>>

-----------------------------------------------------------------------------
(* Starting a call.                                                        *)

Begin(c) ==
    /\ number' = number + 1 /\ call' = c
    /\ legs' = <<>> /\ at' = 0 /\ landed' = {} /\ funds' = Null

\* hold is skipped, and without signing every action is a validated dry run.
AnswerAtOnce(c) ==
    /\ Begin(c)
    /\ ~signing \/ c.kind = "hold"
    /\ report' = [id \in Ids(c) |->
                    IF c.kind = "hold" THEN "skipped" ELSE "validated-dry-run"]
    /\ UNCHANGED <<signing, stage, secret, record, flying, escrows, deployed,
                   optedIn, gaps, crashes>>

StartCall(c) ==
    /\ Begin(c)
    /\ signing /\ c.kind # "hold"
    /\ report' = <<>>
    /\ stage' = IF c.kind \in {"shape", "claims"} THEN "prepare" ELSE "quote"
    /\ UNCHANGED <<signing, secret, record, flying, escrows, deployed, optedIn,
                   gaps, crashes>>

\* The run that holds the lock makes a call.
NextCall ==
    /\ stage = "idle" /\ number < MaxCalls
    /\ \E c \in Calls : AnswerAtOnce(c) \/ StartCall(c)

\* executeClaimBatch up to its first try: a failed read of an escrow record
\* rejects the whole batch, which then has no outcomes at all.
PrepareClaims ==
    LET planned == PlanClaims(call.acts, Desk).planned
        role == IF call.analytics THEN "post" ELSE "claim"
        receive(id) == UNION {Receivable(a, call.shapes, Native) :
                                a \in {b \in ToSet(call.acts) : b.id = id}}
    IN  /\ stage = "prepare" /\ call.kind = "claims"
        /\ \/ /\ legs' = [i \in DOMAIN planned |-> Leg(planned[i].act, role,
                    planned[i].quote, receive(planned[i].act))]
              /\ IF planned = <<>> THEN Finish(<<>>, FALSE)
                 ELSE stage' = "quote" /\ UNCHANGED <<secret, report>>
           \/ stage' = "idle" /\ UNCHANGED <<legs, secret, report>>
        /\ UNCHANGED <<signing, call, number, funds, at, record, chain, gaps, crashes>>

\* executeSequentialEscrowShapes: what the store and the chain say of the
\* escrow selects the shapes.
EscrowLegs ==
    LET known == record \in Escrows
        asset == DepositAsset(Main, call.shapes)
        run   == EscrowShapes(call.shapes, known, <<record, asset>> \in optedIn)
    IN  [i \in DOMAIN run |-> Leg(Main.id, FolksRole(run[i]), run[i].key, {asset})]

\* executeBatchedShapes: the desk's quotes of a claim, else the quote requests of
\* the action.
BatchLegs ==
    LET desk == IF Main.type = "claim" THEN PlanClaims(<<Main>>, Desk).planned ELSE <<>>
        run  == Sorted(QuotedShapes(Main, call.shapes))
        receive == Receivable(Main, call.shapes, Native)
        own == IF Main.type \in Enters THEN "enter" ELSE "exit"
        role(s) == IF ConfirmsFirst(s) THEN "deploy" ELSE own
    IN  IF desk # <<>>
        THEN [i \in DOMAIN desk |-> Leg(Main.id, own, desk[i].quote, receive)]
        ELSE IF run = <<>> THEN <<Leg(Main.id, own, Main.key, receive)>>
        ELSE [i \in DOMAIN run |-> Leg(Main.id, role(run[i]), run[i].key, receive)]

\* executeShape: clampCapitalEnterToSpendable, then the sequential escrow path
\* or the batch; both read the escrow record, which may be unreadable; a deposit
\* needs an asset, and the escrow may leave no shape to run.
PrepareShape ==
    /\ stage = "prepare" /\ call.kind = "shape"
    /\ \E balance \in IF Clamps(Main, call.shapes) THEN 0..MaxAmount ELSE {Null} :
        /\ funds' = balance
        /\ IF \/ balance = 0 /\ Planned(Main, SpendAsset(Main)) # Null
              \/ (Sequential \/ call.known) /\ record = Torn
              \/ Sequential /\ (EscrowLegs = <<>> \/ DepositAsset(Main, call.shapes) = Null)
           THEN Throw
           ELSE /\ legs' = IF Sequential THEN EscrowLegs ELSE BatchLegs
                /\ stage' = "quote"
                /\ secret' = IF (Sequential \/ call.known) /\ record \in Escrows
                             THEN record ELSE Null
                /\ UNCHANGED <<at, report>>
    /\ UNCHANGED <<signing, call, number, record, chain, gaps, crashes>>

\* What the quotes ask for: the action after clamping.
Asked == IF funds = Null THEN Main ELSE Clamp(Main, SpendAsset(Main), funds)

-----------------------------------------------------------------------------
(* Quotes.                                                                 *)

Quoted == at' = at + 1 /\ stage' = "submit"

\* canix_get_quote and canix_optin; after an opt-in only the quote is renewed.
QuoteSwap ==
    LET swap == Leg(Main.id, "swap", Null, {})
    IN  /\ stage = "quote" /\ call.kind = "swap"
        /\ legs' = IF at > 0 THEN Append(legs, swap)
                   ELSE IF Main.to \in optedIn \cup {Native} THEN <<swap>>
                   ELSE <<Leg(Main.id, "optin", Null, {Main.to})>>
        /\ Quoted
        /\ UNCHANGED <<signing, call, number, funds, secret, record, chain, report,
                       gaps, crashes>>

\* executeComposeEnterInner: an opt-in is submitted first and ages the quote,
\* so that the compose is requested again.  swapCompiled is FALSE when the
\* gateway answers that nothing needs to be swapped (a "hint").
QuoteCompose(swapCompiled) ==
    LET swap  == Leg(call.acts[2].id, "swap", Null, {})
        enter == Leg(Main.id, "enter", Main.key, {})
        needed == {call.acts[2].to} \ (optedIn \cup {Native})
    IN  /\ stage = "quote" /\ call.kind = "compose"
        /\ legs' = IF at = 0 /\ needed # {}
                   THEN <<Leg(Main.id, "optin", Null, needed)>>
                   ELSE legs \o (IF swapCompiled THEN <<swap, enter>> ELSE <<enter>>)
        /\ Quoted
        /\ UNCHANGED <<signing, call, number, funds, secret, record, chain, report,
                       gaps, crashes>>

\* requestQuotes for all legs of a claim batch: the gateway may answer in
\* another order, and each compiled quote is paired with a request.
QuoteClaims ==
    /\ stage = "quote" /\ call.kind = "claims"
    /\ \E order \in {f \in [DOMAIN legs -> DOMAIN legs] : IsInjective(f)} :
        LET asked  == [i \in DOMAIN legs |-> legs[i].quote]
            answer == [i \in DOMAIN legs |-> asked[order[i]]]
            pairs  == Align(asked, answer)
        IN  legs' = [i \in DOMAIN legs |->
                        [legs[i] EXCEPT !.quote = answer[pairs[i]]]]
    /\ Quoted
    /\ UNCHANGED <<signing, call, number, funds, secret, record, chain, report, gaps,
                   crashes>>

\* executeBatchedShapes asks for all quotes at once, the other two paths for the
\* next leg's; the quote of a setup brings the key of the new escrow.
QuoteShape ==
    /\ stage = "quote" /\ call.kind = "shape"
    /\ Stepwise => ~(legs[at + 1].role = "deploy" /\ deployed)
    /\ Quoted
    /\ secret' = IF Stepwise /\ legs[at + 1].role = "setup" THEN number ELSE secret
    /\ UNCHANGED <<signing, call, number, funds, legs, record, chain, report, gaps,
                   crashes>>

\* isSkippablePrerequisiteQuoteError: the farm escrow exists already.
SkipDeployed ==
    /\ stage = "quote" /\ call.kind = "shape" /\ Stepwise
    /\ legs[at + 1].role = "deploy" /\ deployed
    /\ at' = at + 1 /\ legs' = Mark(at + 1, "skipped")
    /\ IF at + 1 = Len(legs) THEN Finish(Mark(at + 1, "skipped"), FALSE)
       ELSE UNCHANGED <<stage, secret, report>>
    /\ UNCHANGED <<signing, call, number, funds, record, chain, gaps, crashes>>

\* Before anything is sent: a read or the gateway fails, another number of
\* quotes, an expired one, a blocking warning, too much price impact, a blocked
\* or deferred compose step, a missing signer or signature, a group refused by
\* algod.
Fails ==
    /\ \/ stage \in {"quote", "submit"}
       \/ stage = "prepare" /\ call.kind = "shape"
    /\ Throw
    /\ UNCHANGED <<signing, call, number, funds, record, chain, gaps, crashes>>

-----------------------------------------------------------------------------
(* Submission.                                                             *)

Missing == Current.assets \ (optedIn \cup {Null, Native})
NeedsOptInFirst ==
    /\ call.cosigned /\ Current.role \in {"enter", "exit", "deploy", "claim"}
    /\ Missing # {}

\* prepareStandaloneOptInsOnly: a group that a provider has signed cannot be
\* regrouped, so the missing opt-ins go first, in a group of their own.  (The
\* groups of an escrow are signed by the wallet and the escrow, both here.)
OptInFirst ==
    /\ stage = "submit" /\ NeedsOptInFirst
    /\ legs' = InsertAt(legs, at, Leg(Current.act, "optin", Null, Missing))
    /\ UNCHANGED <<signing, call, number, stage, funds, at, secret, record, chain,
                   report, gaps, crashes>>

\* After a group: a new quote, the next group, or the answer.
Advance(ls) ==
    LET requote == \/ call.kind \in {"swap", "compose"} /\ Current.role = "optin"
                   \/ Stepwise /\ Current.role # "optin" /\ at < Len(ls)
    IN  /\ legs' = ls
        /\ IF requote THEN stage' = "quote" /\ UNCHANGED <<at, report, secret>>
           ELSE IF at < Len(ls)
           THEN stage' = "submit" /\ at' = at + 1 /\ UNCHANGED <<report, secret>>
           ELSE Finish(ls, FALSE) /\ UNCHANGED at

Sendable ==
    /\ stage = "submit" /\ ~NeedsOptInFirst
    /\ Current.role # "post"
    /\ Current.role \in {"setup", "opt", "exit"} /\ (Sequential \/ call.known)
       => secret # Null

\* Bug: the confirmation is not awaited.
SendNoWait ==
    /\ Sendable
    /\ Advance(Mark(at, "confirmed"))
    /\ flying' = flying \cup {Group}
    /\ UNCHANGED <<signing, call, number, funds, record, landed, escrows, deployed,
                   optedIn, gaps, crashes>>

\* sendRawTransaction accepts the group (signAndSubmitEncoded,
\* signAndSubmitGroupMembers); all members that need it were signed.
Send ==
    /\ Sendable
    /\ legs' = Mark(at, "sent") /\ stage' = "wait"
    /\ flying' = flying \cup {Group}
    /\ UNCHANGED <<signing, call, number, funds, at, secret, record, landed, escrows,
                   deployed, optedIn, report, gaps, crashes>>

\* submitTinymanAnalyticsClaim: Tinyman submits the group; HTTP success counts
\* as confirmation.
Post ==
    /\ stage = "submit" /\ Current.role = "post"
    /\ Advance(Mark(at, "confirmed"))
    /\ UNCHANGED <<signing, call, number, funds, record, chain, gaps, crashes>>

\* The chain confirms a group, the process waiting or not.
Land(g) ==
    /\ flying' = flying \ {g}
    /\ landed' = landed \cup (IF g.number = number /\ call # Null THEN {g.leg} ELSE {})
    /\ escrows' = escrows \cup (IF g.role = "setup" THEN {g.escrow} ELSE {})
    /\ deployed' = (deployed \/ g.role = "deploy")
    /\ optedIn' = optedIn \cup
        (IF g.role = "opt" THEN {g.escrow} \X g.assets
         ELSE IF g.role \in {"setup", "deposit", "swap"} THEN {} ELSE g.assets)
    /\ UNCHANGED <<signing, call, number, stage, work, record, report, gaps, crashes>>

Confirms == stage = "wait" /\ at \in landed

Confirm ==
    /\ Confirms /\ Current.role # "setup"
    /\ Advance(Mark(at, "confirmed"))
    /\ UNCHANGED <<signing, call, number, funds, record, chain, gaps, crashes>>

\* Bug: the key is stored only when the quoted input names the pool.
ConfirmSetupOnce ==
    /\ Confirms /\ Current.role = "setup"
    /\ IF call.known THEN legs' = Mark(at, "confirmed") /\ stage' = "save"
                          /\ UNCHANGED <<at, secret, report>>
       ELSE Advance(Mark(at, "confirmed"))
    /\ UNCHANGED <<signing, call, number, funds, record, chain, gaps, crashes>>

\* A confirmed setup is saved by persistFolksEscrowFromQuoteMetadata, if the
\* input names the pool, and again by executeSequentialEscrowShapes.
ConfirmSetup ==
    /\ Confirms /\ Current.role = "setup"
    /\ legs' = Mark(at, "confirmed")
    /\ stage' = IF call.known THEN "save" ELSE "resave"
    /\ UNCHANGED <<signing, call, number, funds, at, secret, record, chain, report,
                   gaps, crashes>>

\* waitForConfirmation gives up after 8 rounds, or its polling fails; the group
\* may land all the same.
GiveUp ==
    /\ stage = "wait"
    /\ Throw
    /\ gaps' = gaps \cup {number}
    /\ UNCHANGED <<signing, call, number, funds, record, chain, crashes>>

-----------------------------------------------------------------------------
(* FolksEscrowStore.save: the file is opened and truncated, then written.  *)

OpenRecord ==
    /\ stage \in {"save", "resave"}
    /\ record' = Torn
    /\ stage' = IF stage = "save" THEN "write" ELSE "rewrite"
    /\ UNCHANGED <<signing, call, number, work, chain, report, gaps, crashes>>

WriteRecord ==
    /\ stage \in {"write", "rewrite"}
    /\ record' = secret
    /\ IF stage = "write" THEN stage' = "resave" /\ UNCHANGED <<legs, at, secret, report>>
       ELSE Advance(legs)
    /\ UNCHANGED <<signing, call, number, funds, chain, gaps, crashes>>

\* The key is in memory only and is dropped with the exception.
SaveFails ==
    /\ stage \in {"save", "resave", "write", "rewrite"}
    /\ Throw
    /\ gaps' = gaps \cup {number}
    /\ UNCHANGED <<signing, call, number, funds, record, chain, crashes>>

-----------------------------------------------------------------------------
\* A crash loses what is in memory, the report included.
Crash ==
    /\ stage # "idle" /\ crashes < MaxCrashes
    /\ crashes' = crashes + 1
    /\ gaps' = gaps \cup {number}
    /\ call' = Null /\ stage' = "idle" /\ report' = <<>>
    /\ legs' = <<>> /\ at' = 0 /\ funds' = Null /\ secret' = Null /\ landed' = {}
    /\ UNCHANGED <<signing, number, record, flying, escrows, deployed, optedIn>>

\* All calls of the bound were made.
Rest == stage = "idle" /\ number = MaxCalls /\ UNCHANGED vars

Next ==
    \/ NextCall \/ PrepareClaims \/ PrepareShape
    \/ QuoteSwap \/ QuoteClaims \/ QuoteShape \/ SkipDeployed \/ Fails
    \/ \E compiled \in BOOLEAN : QuoteCompose(compiled)
    \/ OptInFirst \/ Send \/ Post
    \/ \E g \in flying : Land(g)
    \/ Confirm \/ ConfirmSetup \/ GiveUp
    \/ OpenRecord \/ WriteRecord \/ SaveFails
    \/ Crash \/ Rest

Spec == Init /\ [][Next]_vars

-----------------------------------------------------------------------------
Assets == UNION {(UNION {s.assets : s \in c.shapes}) \cup
                 {c.acts[i].to : i \in DOMAIN c.acts} \cup
                 {DepositAsset(c.acts[i], c.shapes) : i \in DOMAIN c.acts} : c \in Calls} \ {Null}

\* The type invariant of the executor's state.
TypeOK ==
    /\ signing \in BOOLEAN /\ deployed \in BOOLEAN
    /\ call \in Calls \cup {Null} /\ number \in 0..MaxCalls
    /\ stage \in Stages /\ (stage # "idle" => call # Null)
    /\ funds \in 0..MaxAmount \cup {Null}
    /\ \A i \in DOMAIN legs :
        /\ legs[i].role \in Roles /\ legs[i].assets \subseteq Assets
        /\ legs[i].state \in {"todo", "sent", "confirmed", "skipped"}
    /\ at \in 0..Len(legs) /\ (stage \notin {"idle", "prepare", "quote"} => at > 0)
    /\ secret \in Escrows \cup {Null}
    /\ record \in Escrows \cup {Null, Torn}
    /\ \A g \in flying : g.number \in 1..number /\ g.role \in Roles \ {"post"}
    /\ landed \subseteq DOMAIN legs
    /\ escrows \subseteq Escrows /\ gaps \subseteq 1..number
    /\ optedIn \subseteq Assets \cup (Escrows \X Assets)
    /\ \A id \in DOMAIN report :
        report[id] \in {"confirmed", "failed", "skipped", "validated-dry-run"}
    /\ crashes \in 0..MaxCrashes

LegsOf(id) == {i \in DOMAIN legs : legs[i].act = id /\ legs[i].state # "skipped"}

\* What is reported as confirmed is on chain: all groups of the action, one of
\* them for a claim, whose other quotes may have failed; a claim that Tinyman
\* submits is taken on its word.
ConfirmedMeansLanded ==
    \A id \in DOMAIN report : report[id] = "confirmed" =>
        IF call.kind = "claims"
        THEN \E i \in LegsOf(id) : i \in landed \/ legs[i].role = "post"
        ELSE LegsOf(id) \subseteq landed

\* Nothing on chain goes unreported: when all groups of an action landed, it is
\* reported confirmed, unless the wait for one was given up (or its key not
\* stored), or it is the swap of a compose whose enter failed afterwards.
LandedIsReported ==
    \A id \in DOMAIN report :
        (/\ LegsOf(id) # {} /\ LegsOf(id) \subseteq landed
         /\ Last(legs).role # "optin"
         /\ number \notin gaps
         /\ call.kind = "compose" => DOMAIN legs \subseteq landed)
        => report[id] = "confirmed"

\* The key of an escrow that is on chain is stored or at least in memory, and
\* there is one such escrow, unless its setup crashed, was given up or could not
\* be stored; a stored key is that of an escrow on chain.
EscrowIsSafe ==
    /\ escrows \ gaps \subseteq {record, secret}
    /\ Cardinality(escrows \ gaps) <= 1
    /\ record \in Escrows => record \in escrows

\* A deposit is sent only into an escrow whose key is stored and that holds an
\* opt-in for the asset.
DepositIsCovered ==
    \A g \in flying : g.role = "deposit" =>
        record \in Escrows /\ g.escrow = record /\ {record} \X g.assets \subseteq optedIn

\* An enter whose statements of the amount agree is never quoted for more than
\* was spendable.  (An amount that only the input states, and not as its "amount",
\* is not taken for the planned one and not clamped.)
QuotedWithinSpendable ==
    (/\ funds # Null /\ stage \in {"quote", "submit", "wait"}
     /\ Planned(Main, SpendAsset(Main)) # Null
     /\ \A x, y \in StatedAmounts(Main, SpendAsset(Main)) : x = y)
    => \A x \in QuotedAmounts(Asked) : x <= funds

\* Two planned quotes share a shape key and the batch was answered in another
\* order: alignment by shape key cannot tell them apart.
Ambiguous ==
    LET planned == PlanClaims(call.acts, Desk).planned
    IN  \E i, j \in DOMAIN planned :
            i # j /\ planned[i].quote.key = planned[j].quote.key

\* Each claim submits the quote compiled for it, and no quote is submitted twice
\* in a batch, whatever the order in which the gateway answers.
ClaimsAsPlanned ==
    LET claims  == {i \in DOMAIN legs : legs[i].role \in {"claim", "post"}}
        rank(i) == Cardinality({j \in claims : j <= i})
        planned == PlanClaims(call.acts, Desk).planned
    IN  call # Null /\ call.kind = "claims" =>
        /\ \A i, j \in claims : legs[i].quote = legs[j].quote => i = j
        /\ ~Ambiguous => \A i \in claims :
            [act |-> legs[i].act, quote |-> legs[i].quote] = planned[rank(i)]
=============================================================================
