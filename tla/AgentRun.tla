------------------------------ MODULE AgentRun ------------------------------
(***************************************************************************)
(* One planning run of the portfolio agent: OpenAiPortfolioAgent.run       *)
(* (src/src/services/portfolio-agent.ts) with the portfolio reader         *)
(* (src/src/integrations/algorand/portfolio.ts) and the host's own         *)
(* research (src/src/services/host-research.ts), on the shared client of   *)
(* CanixClient.  A caller may also be a bare portfolio read, as accounting *)
(* and the unwind preview make while a run is under way.                   *)
(*                                                                         *)
(* What the model answers, and what the chain, the catalogue and the plan  *)
(* text hold, is chosen freely.  Receipts are counted, not told apart.     *)
(***************************************************************************)
EXTENDS CanixClient

CONSTANTS
    Runners,        \* callers
    Crews,          \* what the callers may be: a mode for each of them
    MaxToolCalls,   \* options.maxToolCalls
    MaxTurn,        \* bound: function calls in one turn of the model
    MaxSearches,    \* bound: searches for preferred holdings
    MaxPages        \* HELD_PROTOCOL_MAX_PAGES, over all protocols

Modes == {"full", "lite", "read", "probe", "off"}

ASSUME AgentAssumption ==
    /\ Crews \subseteq [Runners -> Modes]
    /\ Slots = Runners \X {"positions", "claimable", "work"}
    /\ {MaxToolCalls, MaxTurn, MaxSearches, MaxPages} \subseteq Nat

\* For each caller a record of
\*   mode        options.aiMode, "read" for a bare read, "probe" for a health
\*               check, or "off" for no call
\*   stage       where it is
\*   calls       runFull: the function calls counted so far
\*   todo        the function calls of this turn still to be handled
\*   left        searches or pages still to ask for
\*   researched  toolCalls holds a research tool
\*   found       the search for held positions found something
\*   paid        receipts of that search
\*   payments    receipts of the run's result
\*   unseen      history: receipts left out of the result
VARIABLE run

vars == <<client, run>>

Kinds == {"research", "quote", "local"}
Final == {"planned", "reported", "read", "failed"}
Stages ==
    {"idle", "probing", "listing", "reading", "pricing", "personalized", "listed", "search",
     "searching", "pages", "paging", "thinking", "tools", "calling", "repairing"}
    \cup Final

NoRun ==
    [mode |-> "off", stage |-> "idle", calls |-> 0, todo |-> <<>>, left |-> 0,
     researched |-> FALSE, found |-> FALSE, paid |-> 0, payments |-> 0, unseen |-> 0]

Init ==
    /\ ClientInit
    /\ \E crew \in Crews :
         run = [r \in Runners |-> [NoRun EXCEPT !.mode = crew[r]]]

Work(r) == <<r, "work">>
Positions(r) == <<r, "positions">>
Claimable(r) == <<r, "claimable">>

At(r, s) == run[r].stage = s
Become(r, R) == run' = [run EXCEPT ![r] = R]
In(R, s) == [R EXCEPT !.stage = s]
Paid(R, n) == [R EXCEPT !.payments = @ + n]
Quiet == UNCHANGED client
Heard(r) == Take({Work(r)})
Ask(r, style) == Issue(<<Work(r)>>, style, {Positions(r), Claimable(r)})

\* An exception: the run's result is lost.
Throw(r) == Become(r, [NoRun EXCEPT !.mode = run[r].mode, !.stage = "failed"])

\* The call in the run's own slot has failed, and with it the run.
CallFails(r, stages) ==
    /\ run[r].stage \in stages /\ Replied(Work(r)) /\ ~Succeeded(Work(r))
    /\ Heard(r) /\ Throw(r)

Arrived(r, s) == At(r, s) /\ Succeeded(Work(r))

-----------------------------------------------------------------------------
(* run and PortfolioReader.read.                                           *)

BeginAgent(r) ==
    /\ At(r, "idle") /\ run[r].mode \in {"full", "lite"}
    /\ Ask(r, "list") /\ Become(r, In(run[r], "listing"))

\* getPositions, readClaimable and readAccountState, side by side.
StartRead(r) ==
    /\ Issue(<<Positions(r), Claimable(r)>>, "managed", {Work(r)})
    /\ Become(r, In(run[r], "reading"))

BeginRead(r) == At(r, "idle") /\ run[r].mode = "read" /\ StartRead(r)

\* Canix402Client.health, whose failure is its caller's to report.
BeginProbe(r) ==
    /\ At(r, "idle") /\ run[r].mode = "probe"
    /\ Ask(r, "list") /\ Become(r, In(run[r], "probing"))

ProbeReplied(r) ==
    /\ Arrived(r, "probing") /\ Heard(r) /\ Become(r, In(run[r], "read"))

\* assertRequiredCapabilities, which may find a tool missing.
ToolsListed(r) ==
    /\ Arrived(r, "listing")
    /\ StartRead(r) \/ (Heard(r) /\ Throw(r))

\* Promise.all: the read ends with the first failure, and the other calls go
\* on unheard.  Claimable rewards that cannot be read are only a caveat.
ReadFails(r) ==
    /\ At(r, "reading")
    /\ Replied(Positions(r)) /\ ~Succeeded(Positions(r))
    /\ Quiet /\ Throw(r)

\* Algod did not answer, which may show at any time.
AccountFails(r) ==
    /\ At(r, "reading")
    /\ Quiet /\ Throw(r)

\* Bug: only the receipt for the positions is kept.
ReadReceiptsPositions(r) == Receipt(Positions(r))

ReadReceipts(r) == Receipt(Positions(r)) + Receipt(Claimable(r))

\* Both reads are in; getTokenPrices follows, as there is always ALGO to price.
ReadArrives(r) ==
    /\ At(r, "reading")
    /\ Succeeded(Positions(r)) /\ Replied(Claimable(r))
    /\ Ask(r, "plain")
    /\ Become(r, In(Paid(run[r], ReadReceipts(r)), "pricing"))

\* A bare read is over; lite mode asks for the catalogue, full mode does not.
PricesArrive(r) ==
    /\ Arrived(r, "pricing")
    /\ \/ /\ run[r].mode = "read"
          /\ Heard(r) /\ Become(r, In(run[r], "read"))
       \/ /\ run[r].mode = "lite" /\ Ask(r, "catalog")
          /\ Become(r, In(run[r], "personalized"))
       \/ /\ run[r].mode = "full" /\ Heard(r)
          /\ \E n \in 0..MaxSearches :
               Become(r, [In(run[r], "search") EXCEPT !.left = n])

-----------------------------------------------------------------------------
(* The host's research.                                                    *)

PersonalizedArrives(r) ==
    /\ Arrived(r, "personalized") /\ Ask(r, "catalog")
    /\ Become(r, In(Paid(run[r], Receipt(Work(r))), "listed"))

ListArrives(r) ==
    /\ Arrived(r, "listed") /\ Heard(r)
    /\ \E n \in 0..MaxSearches :
         Become(r, [In(Paid(run[r], Receipt(Work(r))), "search") EXCEPT !.left = n])

\* enrichOpportunitiesWithPreferredHolds.
Search(r) ==
    /\ At(r, "search") /\ run[r].left > 0
    /\ Ask(r, "managed")
    /\ Become(r, [In(run[r], "searching") EXCEPT !.left = @ - 1])

\* A search that failed is logged and left out.
SearchReplied(r) ==
    /\ At(r, "searching") /\ Replied(Work(r)) /\ Heard(r)
    /\ Become(r, [In(Paid(run[r], Receipt(Work(r))), "search") EXCEPT
                    !.researched = @ \/ Succeeded(Work(r))])

SearchesDone(r) ==
    /\ At(r, "search") /\ run[r].left = 0 /\ Quiet
    /\ \/ /\ run[r].mode = "full" /\ Become(r, In(run[r], "thinking"))
       \/ /\ run[r].mode = "lite"
          /\ \E n \in 0..MaxPages :
               Become(r, [In(run[r], "pages") EXCEPT !.left = n])

\* enrichOpportunitiesWithHeldPositions: as many pages as are needed.
Page(r) ==
    /\ At(r, "pages") /\ run[r].left > 0
    /\ Ask(r, "managed")
    /\ Become(r, [In(run[r], "paging") EXCEPT !.left = @ - 1])

\* A page may hold what was looked for, and may be the last one.
PageArrives(r) ==
    /\ Arrived(r, "paging") /\ Heard(r)
    /\ \E hit \in BOOLEAN, n \in {0, run[r].left} :
         Become(r, [In(run[r], "pages") EXCEPT
                      !.left = n, !.found = @ \/ hit, !.paid = @ + Receipt(Work(r))])

\* runFull takes the search over, receipts included, only when it found
\* something.
KeepsReceipts(R) == R.found \/ R.mode = "lite"

\* prefetchHostResearch throws when nothing at all was found.
PagesDone(r) ==
    /\ At(r, "pages") /\ run[r].left = 0 /\ Quiet
    /\ LET R == IF KeepsReceipts(run[r])
                THEN [Paid(run[r], run[r].paid) EXCEPT !.paid = 0]
                ELSE [run[r] EXCEPT !.unseen = @ + run[r].paid, !.paid = 0]
       IN \/ R.mode = "full" /\ Become(r, In(R, "planned"))
          \/ R.mode = "lite" /\ Become(r, In(R, "thinking"))
          \/ R.mode = "lite" /\ ~R.found /\ Throw(r)

-----------------------------------------------------------------------------
(* The model's turns.                                                      *)

\* createAgentResponse failed, or a function call came with arguments that cannot
\* be read, which ends the run whatever was called before.
ModelFails(r) ==
    /\ run[r].stage \in {"thinking", "repairing"} \/ (At(r, "tools") /\ run[r].todo # <<>>)
    /\ Quiet /\ Throw(r)

Turns == UNION {[1..n -> Kinds] : n \in 1..MaxTurn}

OverBudget(R, turn) == R.calls + Len(turn) > MaxToolCalls

\* Every function call counts, those the host refuses too; a turn that goes over
\* the budget ends the run before any of it is made.  Lite mode has no tools.
ModelCalls(r) ==
    /\ At(r, "thinking") /\ Quiet
    /\ \E turn \in Turns :
         IF run[r].mode = "lite" \/ OverBudget(run[r], turn)
         THEN Throw(r)
         ELSE Become(r, [In(run[r], "tools") EXCEPT
                           !.calls = @ + Len(turn), !.todo = turn])

\* EXECUTION_HOST_ONLY and TOOL_NOT_AVAILABLE.
RefuseTool(r) ==
    /\ At(r, "tools") /\ run[r].todo # <<>> /\ Head(run[r].todo) = "local"
    /\ Quiet /\ Become(r, [run[r] EXCEPT !.todo = Tail(@)])

CallTool(r) ==
    /\ At(r, "tools") /\ run[r].todo # <<>> /\ Head(run[r].todo) # "local"
    /\ Ask(r, "managed")
    /\ Become(r, In(run[r], "calling"))

ResearchTools == {"research"}

\* A failure is told to the model, and the tool counts as called.
ToolReplied(r) ==
    /\ At(r, "calling") /\ Replied(Work(r)) /\ Heard(r)
    /\ Become(r, [In(Paid(run[r], Receipt(Work(r))), "tools") EXCEPT
                    !.todo = Tail(@),
                    !.researched = @ \/ Head(run[r].todo) \in ResearchTools])

TurnEnds(r) ==
    /\ At(r, "tools") /\ run[r].todo = <<>>
    /\ Quiet /\ Become(r, In(run[r], "thinking"))

\* A plan could be read from the answer: runFull completes it with the held
\* positions.
PlanRead(r) ==
    IF run[r].mode = "lite"
    THEN Become(r, In(run[r], "planned"))
    ELSE \E n \in 0..MaxPages : Become(r, [In(run[r], "pages") EXCEPT !.left = n])

\* The model answers with a plan, or with something that is none, which gets one
\* turn to be repaired.  A plan without research is an error.
ModelPlans(r) ==
    /\ At(r, "thinking") /\ Quiet
    /\ IF run[r].mode = "full" /\ ~run[r].researched
       THEN Throw(r)
       ELSE PlanRead(r) \/ Become(r, In(run[r], "repairing"))

Repair(r) ==
    /\ At(r, "repairing") /\ Quiet
    /\ PlanRead(r) \/ Become(r, In(run[r], "reported"))

-----------------------------------------------------------------------------
Answer(r) ==
    \/ CallFails(r, {"probing", "listing", "pricing", "personalized", "listed", "paging"})
    \/ ProbeReplied(r) \/ ToolsListed(r) \/ ReadFails(r) \/ ReadArrives(r) \/ PricesArrive(r)
    \/ PersonalizedArrives(r) \/ ListArrives(r)
    \/ Search(r) \/ SearchReplied(r) \/ SearchesDone(r)
    \/ Page(r) \/ PageArrives(r) \/ PagesDone(r)
    \/ ModelFails(r) \/ ModelCalls(r) \/ RefuseTool(r) \/ CallTool(r)
    \/ ToolReplied(r) \/ TurnEnds(r) \/ ModelPlans(r) \/ Repair(r)

Next ==
    \/ ClientNext /\ UNCHANGED run
    \/ \E r \in Runners : BeginAgent(r) \/ BeginRead(r) \/ BeginProbe(r)
                           \/ AccountFails(r) \/ Answer(r)

\* Awaits return: the client answers, as does the model, within its timeout.
Spec ==
    /\ Init /\ [][Next]_vars
    /\ ClientFairness
    /\ \A r \in Runners : WF_vars(Answer(r))

-----------------------------------------------------------------------------
(* Properties.                                                             *)

RunRecords ==
    [mode : Modes, stage : Stages, calls : 0..MaxToolCalls,
     todo : {<<>>} \cup Turns, left : 0..(MaxSearches + MaxPages),
     researched : BOOLEAN, found : BOOLEAN, paid : 0..MaxPages,
     payments : Nat, unseen : 0..MaxPages]

TypeOK ==
    /\ ClientTypeOK
    /\ DOMAIN run = Runners
    /\ \A r \in Runners : run[r] \in RunRecords

\* Every payment that settled for a run that ended well is in its result, but
\* for one at most per fault the run met and for the pages of a search for held
\* positions that found nothing; and the result holds no receipt of a payment
\* that did not settle.
ChargesAreReported ==
    \A r \in Runners : run[r].stage \in Final \ {"failed"} =>
      /\ run[r].payments <= charged[r]
      /\ charged[r] <= run[r].payments + run[r].unseen + faults[r]

\* Every run ends, however often requests fail and sessions die.
EveryRunEnds ==
    \A r \in Runners : run[r].stage # "idle" ~> run[r].stage \in Final
=============================================================================
