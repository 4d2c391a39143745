---------------------------- MODULE CanixClient ----------------------------
(***************************************************************************)
(* The Canix402 MCP client: McpSdkToolCaller and Canix402Client of         *)
(* src/src/integrations/canix402/client.ts.                                *)
(*                                                                         *)
(* Every request goes through one promise queue.  The request at its head  *)
(* is on the wire; it is sent again once, on a fresh session, after a      *)
(* timeout or a closed connection, as far as its error is recognised as    *)
(* one.  Around that, each kind of call has a retry of its own:            *)
(*   managed  callManagedTool: preflight and payment start over            *)
(*   catalog  getPaidOpportunities: the same request, the same signature   *)
(*   plain    getTokenPrices: a free request, sent again                   *)
(*   list     listTools and health: no retry of their own                  *)
(*                                                                         *)
(* A request that reached the server may have been paid for although its   *)
(* answer never arrives; one that was answered with data was paid for.     *)
(* A payment that settles after the client's timeout counts from then on.  *)
(***************************************************************************)
EXTENDS Naturals, Sequences, FiniteSets, FiniteSetsExt

CONSTANTS
    Slots,      \* places for a call: pairs of the caller and the call's name
    MaxFaults,  \* bound: timeouts, lost connections and failing answers
    MaxDeaths   \* bound: sessions that die while nothing is on the wire

ASSUME ClientAssumption ==
    /\ IsFiniteSet(Slots) /\ \A s \in Slots : Len(s) = 2
    /\ MaxFaults \in Nat /\ MaxDeaths \in Nat

VARIABLES
    queue,      \* McpSdkToolCaller.queue: the head is on the wire
    attempt,    \* withReconnectRetry: which try the head is on
    connected,  \* McpSdkToolCaller.connected
    alive,      \* the server still knows the session
    call,       \* the call made from each slot
    charged,    \* history: payments settled for each caller
    faults,     \* history: faults each caller met
    deaths

wire == <<queue, attempt, connected, alive>>
client == <<wire, call, charged, faults, deaths>>

Callers == {s[1] : s \in Slots}
Styles == {"managed", "catalog", "plain", "list"}
Phases == {"idle", "asking", "building", "paying", "answered"}
Answers == {"none", "data", "receipt", "refused", "transient", "broken"}

NoCall == [style |-> "list", phase |-> "idle", retried |-> FALSE,
           settled |-> FALSE, built |-> 0, met |-> 0, answer |-> "none"]

ClientInit ==
    /\ queue = <<>> /\ attempt = 1 /\ connected = FALSE /\ alive = FALSE
    /\ call = [s \in Slots |-> NoCall]
    /\ charged = [c \in Callers |-> 0] /\ faults = [c \in Callers |-> 0]
    /\ deaths = 0

-----------------------------------------------------------------------------
(* What a caller does: start calls, and take their answers.                *)

\* The caller has its answer and drops what it was about.
Dropped(S) == [s \in Slots |-> IF s \in S THEN NoCall ELSE call[s]]
Take(S) ==
    /\ call' = Dropped(S)
    /\ UNCHANGED <<wire, charged, faults, deaths>>

\* The caller's answers are taken, and it makes the calls of the sequence ss.
Issue(ss, style, S) ==
    /\ queue' = queue \o ss
    /\ call' = [s \in Slots |->
                  IF \E i \in DOMAIN ss : ss[i] = s
                  THEN [NoCall EXCEPT !.style = style, !.phase = "asking"]
                  ELSE Dropped(S)[s]]
    /\ UNCHANGED <<attempt, connected, alive, charged, faults, deaths>>

Replied(s) == call[s].phase = "answered"
Succeeded(s) == Replied(s) /\ call[s].answer \in {"data", "receipt"}
Receipt(s) == IF call[s].answer = "receipt" THEN 1 ELSE 0

-----------------------------------------------------------------------------
(* The wire.                                                               *)

OnWire(s) ==
    /\ queue # <<>> /\ s = Head(queue)
    /\ call[s].phase \in {"asking", "paying"}

\* Bug: nothing takes the queue on to the next request.
LeaveStuck == queue' = queue /\ attempt' = 1

\* enqueue: the queue goes on however the request ended.
Leave == queue' = Tail(queue) /\ attempt' = 1

Rejoin(s) == queue' = Append(Tail(queue), s) /\ attempt' = 1

\* ensureConnected: a session that is thought to be there is used as it is.
Reaches == connected => alive
Session == connected' = TRUE /\ alive' = TRUE

Ended(c, answer) == [c EXCEPT !.phase = "answered", !.answer = answer]
Put(s, c) == call' = [call EXCEPT ![s] = c]
Met(c) == [c EXCEPT !.met = @ + 1]
Fault(s) ==
    /\ MapThenSumSet(LAMBDA c : faults[c], Callers) < MaxFaults
    /\ faults' = [faults EXCEPT ![s[1]] = @ + 1]

\* The payment of the request may settle: only once, and only if it has one.
MaySettle(c) == c.phase = "paying" /\ ~c.settled
Settle(s, now) ==
    charged' = [charged EXCEPT ![s[1]] = @ + (IF now THEN 1 ELSE 0)]

\* isRetryableCanixTransient where a retry is in place.  callToolWithRetry
\* only catches what callTool throws, not an error inside its payload.
Retryable(c, payload) ==
    /\ ~c.retried
    /\ c.style = "managed" \/ (c.style \in {"catalog", "plain"} /\ ~payload)

\* Bug: a paid catalogue call starts over from the preflight.
AgainFromStart(c) ==
    [c EXCEPT !.retried = TRUE, !.phase = "asking", !.settled = FALSE]

\* A managed call starts over, the others send the same request again.
Again(c) ==
    IF c.style = "managed"
    THEN [c EXCEPT !.retried = TRUE, !.phase = "asking", !.settled = FALSE]
    ELSE [c EXCEPT !.retried = TRUE]

\* The request of record c ended in an error the classifiers call transient.
Transient(s, c, payload) ==
    IF Retryable(c, payload)
    THEN Put(s, Again(c)) /\ Rejoin(s)
    ELSE Put(s, Ended(c, "transient")) /\ Leave

\* The preflight or a free request is answered.
ReplyAsk(s) ==
    /\ OnWire(s) /\ Reaches /\ call[s].phase = "asking"
    /\ Session /\ Leave
    /\ \/ /\ call[s].style \in {"managed", "catalog"}
          /\ Put(s, [call[s] EXCEPT !.phase = "building",
                       !.retried = @ /\ call[s].style = "managed"])
       \/ Put(s, Ended(call[s], "data"))
    /\ UNCHANGED <<charged, faults, deaths>>

\* The paid request is answered with data.
ReplyPaid(s) ==
    /\ OnWire(s) /\ Reaches /\ call[s].phase = "paying"
    /\ Session /\ Leave
    /\ Put(s, Ended([call[s] EXCEPT !.settled = TRUE], "receipt"))
    /\ Settle(s, ~call[s].settled)
    /\ UNCHANGED <<faults, deaths>>

\* The server refuses the request.
Refuse(s) ==
    /\ OnWire(s) /\ Reaches
    /\ Session /\ Leave /\ Put(s, Ended(call[s], "refused"))
    /\ UNCHANGED <<charged, faults, deaths>>

-----------------------------------------------------------------------------
(* Faults, at most MaxFaults of them.                                      *)

\* The answer reports a failure behind the gateway: a timeout (504), which is
\* transient, or another one.  The payment may have settled.
GatewayFault(s) ==
    /\ OnWire(s) /\ Reaches
    /\ Session /\ Fault(s)
    /\ \E now \in {FALSE, MaySettle(call[s])}, timeout \in BOOLEAN :
         LET c == [Met(call[s]) EXCEPT !.settled = @ \/ now] IN
         /\ Settle(s, now)
         /\ IF timeout THEN Transient(s, c, TRUE)
                       ELSE Put(s, Ended(c, "refused")) /\ Leave
    /\ UNCHANGED deaths

\* Bug: the flag survives the reset, so that no session is opened.
ResetKeepsFlag == connected' = connected /\ alive' = alive

\* resetConnection.
Reset == connected' = FALSE /\ alive' = FALSE

\* withReconnectRetry and the retries around it: the request failed on the wire.
\* isRetryableMcpTransportError recognises two codes and three texts: the first
\* such error resets the session, the second leaves it as it is.  What it does
\* not recognise (an HTTP status of the transport, "fetch failed") ends the call
\* at once, and leaves the session as it is, too.
WireError(s, c, left) ==
    \/ /\ attempt = 1
       /\ Reset /\ attempt' = 2 /\ Put(s, c) /\ UNCHANGED queue
    \/ /\ attempt # 1
       /\ connected' = left.connected /\ alive' = left.alive
       /\ Transient(s, c, FALSE)
    \/ /\ connected' = left.connected /\ alive' = left.alive
       /\ Put(s, Ended(c, "broken")) /\ Leave

\* An error of the transport, a timeout or a closed connection, while connecting
\* or while the request is under way; the session may be lost with it.
WireFault(s) ==
    /\ OnWire(s) /\ Reaches
    /\ Fault(s)
    /\ \E now \in {FALSE, MaySettle(call[s])}, open \in BOOLEAN, ok \in BOOLEAN :
         /\ (now \/ ok) => open
         /\ Settle(s, now)
         /\ WireError(s, [Met(call[s]) EXCEPT !.settled = @ \/ now],
                      [connected |-> open \/ connected, alive |-> ok])
    /\ UNCHANGED deaths

\* The request is sent on a session the server has forgotten.  Unless its answer
\* is recognised the client goes on to believe in it.
DeadSession(s) ==
    /\ OnWire(s) /\ ~Reaches
    /\ WireError(s, call[s], [connected |-> TRUE, alive |-> FALSE])
    /\ UNCHANGED <<charged, faults, deaths>>

SessionDies ==
    /\ connected /\ alive /\ deaths < MaxDeaths
    /\ alive' = FALSE /\ deaths' = deaths + 1
    /\ UNCHANGED <<queue, attempt, connected, call, charged, faults>>

-----------------------------------------------------------------------------
(* The payment: resource checks and AlgorandPaymentBuilder.build.          *)

Build(s) ==
    /\ call[s].phase = "building"
    /\ Put(s, [call[s] EXCEPT !.phase = "paying", !.built = @ + 1])
    /\ queue' = Append(queue, s)
    /\ UNCHANGED <<attempt, connected, alive, charged, faults, deaths>>

\* Another resource or wallet, a ceiling or the day's cap.
BuildRefused(s) ==
    /\ call[s].phase = "building"
    /\ Put(s, Ended(call[s], "refused"))
    /\ UNCHANGED <<wire, charged, faults, deaths>>

ClientNext ==
    \/ \E s \in Slots :
         \/ ReplyAsk(s) \/ ReplyPaid(s) \/ Refuse(s)
         \/ GatewayFault(s) \/ WireFault(s) \/ DeadSession(s)
         \/ Build(s) \/ BuildRefused(s)
    \/ SessionDies

\* A request on the wire is answered or times out, and a build returns.
ClientFairness ==
    \A s \in Slots :
      /\ WF_client(ReplyAsk(s) \/ ReplyPaid(s) \/ Refuse(s) \/ GatewayFault(s)
                   \/ WireFault(s) \/ DeadSession(s))
      /\ WF_client(Build(s) \/ BuildRefused(s))

-----------------------------------------------------------------------------
(* Properties.                                                             *)

CallRecords ==
    [style : Styles, phase : Phases, retried : BOOLEAN, settled : BOOLEAN,
     built : 0..2, met : 0..MaxFaults, answer : Answers]

ClientTypeOK ==
    /\ queue \in Seq(Slots) /\ attempt \in 1..2
    /\ connected \in BOOLEAN /\ alive \in BOOLEAN
    /\ DOMAIN call = Slots
    /\ \A s \in Slots : call[s] \in CallRecords
    /\ charged \in [Callers -> Nat] /\ faults \in [Callers -> 0..MaxFaults]
    /\ deaths \in 0..MaxDeaths

\* A managed call fails with an error its classifiers recognise only if two faults
\* hit it, another one, whose retry does not look into payloads, if one did.
\* Whether its attempts find a dead session, too, makes no difference, nor does
\* what the session was left in by a call that failed.
KnownFaultsAreSurvived ==
    \A s \in Slots :
      call[s].answer = "transient" =>
        call[s].met >= IF call[s].style = "managed" THEN 2 ELSE 1

\* A call pays a second time only when it is a managed one and a fault hit its
\* first payment or the request it was for, and never a third time.
SecondPaymentNeedsFault ==
    \A s \in Slots :
      /\ call[s].built <= 2
      /\ call[s].built = 2 => (call[s].style = "managed" /\ call[s].met > 0)
=============================================================================
