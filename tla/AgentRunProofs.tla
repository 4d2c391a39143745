--------------------------- MODULE AgentRunProofs ---------------------------
(* Machine-checked proofs about CanixClient under AgentRun: any number of    *)
(* callers, faults, dying sessions and tool calls.                          *)
EXTENDS AgentRun, TLAPS

-----------------------------------------------------------------------------
(* One call.                                                               *)

Records ==
    [style : Styles, phase : Phases, retried : BOOLEAN, settled : BOOLEAN,
     built : Nat, met : Nat, answer : Answers]

\* How often a call of this style may build: again if it was retried from the
\* start.
Builds(c) == IF c.style = "managed" /\ c.retried THEN 2 ELSE 1

Priced(c) == c.style \in {"managed", "catalog"}

\* A call was retried only after a fault.  It builds once for each time it asked.
\* It ends as transient after its last fault.  Only a call with a price has
\* anything to do with payments, and only an answered call has an answer.
Sound(c) ==
    /\ c \in Records
    /\ c.retried => c.met > 0
    /\ c.built <= Builds(c)
    /\ c.phase \in {"asking", "building"} => c.built < Builds(c)
    /\ c.answer = "transient" => c.met >= (IF c.style = "managed" THEN 2 ELSE 1)
    /\ c.phase \in {"building", "paying"} \/ c.settled \/ c.answer = "receipt" => Priced(c)
    /\ c.phase # "answered" => c.answer = "none"

LEMMA SoundIdle == Sound(NoCall)
  BY DEF Sound, Builds, Priced, NoCall, Records, Styles, Phases, Answers

LEMMA SoundAsking ==
  ASSUME NEW style \in Styles
  PROVE  Sound([NoCall EXCEPT !.style = style, !.phase = "asking"])
<1> DEFINE d == [NoCall EXCEPT !.style = style, !.phase = "asking"]
<1>1. NoCall \in Records
  BY SoundIdle DEF Sound
<1>2. /\ d \in Records /\ d.retried = NoCall.retried /\ d.built = NoCall.built
      /\ d.answer = NoCall.answer /\ d.settled = NoCall.settled /\ d.phase = "asking"
  BY <1>1 DEF Records, Phases
<1>3. /\ NoCall.retried = FALSE /\ NoCall.built = 0 /\ NoCall.answer = "none"
      /\ NoCall.settled = FALSE
  BY DEF NoCall
<1> HIDE DEF d
<1>4. Sound(d)
  BY <1>2, <1>3 DEF Sound, Builds
<1>5. QED
  BY <1>4 DEF d

LEMMA AgainIs ==
  ASSUME NEW c \in Records
  PROVE  /\ Again(c) \in Records
         /\ Again(c).style = c.style /\ Again(c).retried = TRUE
         /\ Again(c).phase = IF c.style = "managed" THEN "asking" ELSE c.phase
         /\ Again(c).built = c.built /\ Again(c).met = c.met
         /\ Again(c).answer = c.answer
         /\ Again(c).settled = IF c.style = "managed" THEN FALSE ELSE c.settled
<1>1. CASE c.style = "managed"
  BY <1>1 DEF Again, Records, Phases
<1>2. CASE c.style # "managed"
  BY <1>2 DEF Again, Records
<1>3. QED
  BY <1>1, <1>2

LEMMA EndedIs ==
  ASSUME NEW c \in Records, NEW answer \in Answers
  PROVE  /\ Ended(c, answer) \in Records
         /\ Ended(c, answer).style = c.style /\ Ended(c, answer).retried = c.retried
         /\ Ended(c, answer).phase = "answered"
         /\ Ended(c, answer).built = c.built /\ Ended(c, answer).met = c.met
         /\ Ended(c, answer).answer = answer /\ Ended(c, answer).settled = c.settled
  BY DEF Ended, Records, Phases

LEMMA SettledIs ==
  ASSUME NEW c \in Records, NEW b \in BOOLEAN
  PROVE  LET d == [c EXCEPT !.settled = b] IN
         /\ d \in Records
         /\ d.style = c.style /\ d.retried = c.retried /\ d.phase = c.phase
         /\ d.built = c.built /\ d.met = c.met /\ d.answer = c.answer
         /\ d.settled = b
  BY DEF Records

LEMMA MetIs ==
  ASSUME NEW c \in Records
  PROVE  /\ Met(c) \in Records
         /\ Met(c).style = c.style /\ Met(c).retried = c.retried
         /\ Met(c).phase = c.phase /\ Met(c).settled = c.settled
         /\ Met(c).built = c.built
         /\ Met(c).met = c.met + 1 /\ Met(c).answer = c.answer
  BY DEF Met, Records

-----------------------------------------------------------------------------
(* One step of the client.                                                 *)

\* On its second try a request opens the session it needs.
ClientInv ==
    /\ DOMAIN call = Slots /\ \A s \in Slots : Sound(call[s])
    /\ attempt \in {1, 2} /\ (attempt = 2 => ~connected)

\* What a step leaves in a slot is sound.
LEMMA PutKeeps ==
  ASSUME ClientInv, NEW s \in Slots, NEW c, Sound(c), Put(s, c)
  PROVE  DOMAIN call' = Slots /\ \A t \in Slots : Sound(call'[t])
<1>1. call' = [t \in Slots |-> IF t = s THEN c ELSE call[t]]
  BY DEF ClientInv, Put
<1>2. QED
  BY <1>1 DEF ClientInv

\* A call that may be retried once more, or whose last fault is counted.
Struck(c) ==
    /\ Sound(c) /\ c.met > 0 /\ c.phase \in {"asking", "paying"}
    /\ (c.style = "managed" /\ c.retried) => c.met > 1

LEMMA SoundAgain ==
  ASSUME NEW c, Struck(c), ~c.retried
  PROVE  Sound(Again(c))
<1>1. c \in Records
  BY DEF Struck, Sound
<1> DEFINE d == Again(c)
<1>2. /\ d \in Records
      /\ d.style = c.style /\ d.retried = TRUE
      /\ d.phase = (IF c.style = "managed" THEN "asking" ELSE c.phase)
      /\ d.built = c.built /\ d.met = c.met
      /\ d.answer = c.answer
      /\ d.settled = (IF c.style = "managed" THEN FALSE ELSE c.settled)
  BY <1>1, AgainIs
<1> HIDE DEF d
<1>3. d.retried => d.met > 0
  BY <1>2 DEF Struck
<1>4. c.built <= 1 /\ c.built \in Nat
  BY <1>1 DEF Struck, Sound, Builds, Records
<1>5. CASE c.style = "managed"
  <2>1. Builds(d) = 2
    BY <1>2, <1>5 DEF Builds
  <2>2. QED
    BY <1>2, <1>3, <1>4, <1>5, <2>1 DEF Struck, Sound, Priced, d
<1>6. CASE c.style # "managed"
  <2>1. Builds(d) = Builds(c)
    BY <1>2, <1>6 DEF Builds
  <2>2. QED
    BY <1>2, <1>3, <1>6, <2>1 DEF Struck, Sound, Priced, d
<1>7. QED
  BY <1>5, <1>6

LEMMA SoundEnded ==
  ASSUME NEW c, Sound(c), NEW answer \in Answers,
         answer = "receipt" => Priced(c),
         answer = "transient" => c.met >= (IF c.style = "managed" THEN 2 ELSE 1)
  PROVE  Sound(Ended(c, answer))
<1>1. c \in Records
  BY DEF Sound
<1> DEFINE d == Ended(c, answer)
<1>2. /\ d \in Records
      /\ d.style = c.style /\ d.retried = c.retried
      /\ d.phase = "answered"
      /\ d.built = c.built /\ d.met = c.met
      /\ d.answer = answer /\ d.settled = c.settled
  BY <1>1, EndedIs
<1> HIDE DEF d
<1>3. Builds(d) = Builds(c) /\ (Priced(d) <=> Priced(c))
  BY <1>2 DEF Builds, Priced
<1>4. Sound(d)
  BY <1>2, <1>3 DEF Sound
<1>5. QED
  BY <1>4 DEF d

LEMMA TransientKeeps ==
  ASSUME ClientInv, NEW s \in Slots, NEW c, Struck(c),
         NEW payload \in BOOLEAN, Transient(s, c, payload)
  PROVE  /\ DOMAIN call' = Slots /\ \A t \in Slots : Sound(call'[t])
         /\ attempt' = 1
<1>1. CASE Retryable(c, payload)
  <2>1. Put(s, Again(c)) /\ attempt' = 1
    BY <1>1 DEF Transient, Rejoin
  <2>2. Sound(Again(c))
    BY <1>1, SoundAgain DEF Retryable
  <2>3. QED
    BY <2>1, <2>2, PutKeeps
<1>2. CASE ~Retryable(c, payload)
  <2>1. Put(s, Ended(c, "transient")) /\ attempt' = 1
    BY <1>2 DEF Transient, Leave
  <2>2. c.met >= (IF c.style = "managed" THEN 2 ELSE 1)
    BY <1>2 DEF Retryable, Struck, Sound, Records
  <2>3. "transient" \in Answers
    BY DEF Answers
  <2>4. Sound(Ended(c, "transient"))
    BY <2>2, <2>3, SoundEnded DEF Struck
  <2>5. QED
    BY <2>1, <2>4, PutKeeps
<1>3. QED
  BY <1>1, <1>2

\* A call that has just met a fault.
LEMMA MetIsStruck ==
  ASSUME NEW c, Sound(c), c.phase \in {"asking", "paying"},
         NEW b \in BOOLEAN, b => Priced(c)
  PROVE  Struck([Met(c) EXCEPT !.settled = b])
<1>1. c \in Records /\ c.met \in Nat
  BY DEF Sound, Records
<1> DEFINE e == [Met(c) EXCEPT !.settled = b]
<1>2. /\ Met(c) \in Records
      /\ Met(c).style = c.style /\ Met(c).retried = c.retried
      /\ Met(c).phase = c.phase /\ Met(c).built = c.built
      /\ Met(c).met = c.met + 1 /\ Met(c).answer = c.answer
  BY <1>1, MetIs
<1>3. /\ e \in Records
      /\ e.style = Met(c).style /\ e.retried = Met(c).retried
      /\ e.phase = Met(c).phase /\ e.built = Met(c).built
      /\ e.met = Met(c).met /\ e.answer = Met(c).answer /\ e.settled = b
  BY <1>2, SettledIs
<1> HIDE DEF e
<1>4. /\ e.style = c.style /\ e.retried = c.retried /\ e.phase = c.phase
      /\ e.built = c.built /\ e.met = c.met + 1 /\ e.answer = c.answer
  BY <1>2, <1>3
<1>5. Builds(e) = Builds(c) /\ (Priced(e) <=> Priced(c))
  BY <1>4 DEF Builds, Priced
<1>6. e.met > 0 /\ e.met >= c.met /\ (c.retried => e.met > 1)
  BY <1>1, <1>4 DEF Sound
<1>7. Sound(e)
  BY <1>1, <1>3, <1>4, <1>5, <1>6 DEF Sound
<1>8. QED
  BY <1>4, <1>6, <1>7 DEF Struck, e

-----------------------------------------------------------------------------
(* Every action.                                                           *)

LEMMA AnswerKeeps ==
  ASSUME ClientInv, NEW s \in Slots, ReplyAsk(s) \/ ReplyPaid(s) \/ Refuse(s)
  PROVE  ClientInv'
<1>1. attempt' = 1
  BY DEF ReplyAsk, ReplyPaid, Refuse, Leave
<1>2. Sound(call[s]) /\ call[s] \in Records
  BY DEF ClientInv, Sound
<1>3. {"data", "receipt", "refused"} \subseteq Answers
  BY DEF Answers
<1>4. CASE ReplyAsk(s)
  <2>1. CASE Put(s, Ended(call[s], "data"))
    <3>1. Sound(Ended(call[s], "data"))
      BY <1>2, <1>3, SoundEnded
    <3>2. QED
      BY <1>1, <2>1, <3>1, PutKeeps DEF ClientInv
  <2>2. CASE /\ Priced(call[s])
             /\ Put(s, [call[s] EXCEPT !.phase = "building",
                          !.retried = @ /\ call[s].style = "managed"])
    <3> DEFINE c == call[s]
               d == [c EXCEPT !.phase = "building",
                       !.retried = @ /\ c.style = "managed"]
    <3>1. c.phase = "asking"
      BY <1>4 DEF ReplyAsk
    <3>2. /\ d \in Records /\ d.style = c.style
          /\ d.retried = (c.retried /\ c.style = "managed")
          /\ d.built = c.built /\ d.met = c.met /\ d.answer = c.answer
      BY <1>2 DEF Records, Phases
    <3>3. Sound(c) /\ Priced(c)
      BY <1>2, <2>2
    <3>4. Put(s, d)
      BY <2>2
    <3> HIDE DEF c, d
    <3>5. Builds(d) = Builds(c) /\ Priced(d)
      BY <3>2, <3>3 DEF Builds, Priced
    <3>6. Sound(d)
      BY <3>1, <3>2, <3>3, <3>5 DEF Sound
    <3>7. QED
      BY <1>1, <3>4, <3>6, PutKeeps DEF ClientInv
  <2>3. QED
    BY <1>4, <2>1, <2>2 DEF ReplyAsk, Priced
<1>5. CASE ReplyPaid(s)
  <2> DEFINE c == call[s]
             d == [c EXCEPT !.settled = TRUE]
  <2>1. /\ d \in Records
        /\ d.style = c.style /\ d.retried = c.retried /\ d.phase = c.phase
        /\ d.built = c.built /\ d.met = c.met /\ d.answer = c.answer
    BY <1>2, SettledIs
  <2>2. Put(s, Ended(d, "receipt"))
    BY <1>5 DEF ReplyPaid
  <2>3. Sound(c) /\ c.phase = "paying"
    BY <1>2, <1>5 DEF ReplyPaid
  <2> HIDE DEF c, d
  <2>4. Builds(d) = Builds(c) /\ Priced(d) /\ Priced(c)
    BY <2>1, <2>3 DEF Builds, Sound, Priced
  <2>5. Sound(d)
    BY <2>1, <2>3, <2>4 DEF Sound
  <2>6. Sound(Ended(d, "receipt"))
    BY <1>3, <2>4, <2>5, SoundEnded
  <2>7. QED
    BY <1>1, <2>2, <2>6, PutKeeps DEF ClientInv
<1>6. CASE Refuse(s)
  <2>1. Sound(Ended(call[s], "refused"))
    BY <1>2, <1>3, SoundEnded
  <2>2. Put(s, Ended(call[s], "refused"))
    BY <1>6 DEF Refuse
  <2>3. QED
    BY <1>1, <2>1, <2>2, PutKeeps DEF ClientInv
<1>7. QED
  BY <1>4, <1>5, <1>6

LEMMA GatewayFaultKeeps ==
  ASSUME ClientInv, NEW s \in Slots, GatewayFault(s)
  PROVE  ClientInv'
<1>1. Sound(call[s]) /\ call[s] \in Records
  BY DEF ClientInv, Sound
<1>2. call[s].phase \in {"asking", "paying"}
  BY DEF GatewayFault, OnWire
<1>3. PICK now \in {FALSE, MaySettle(call[s])}, timeout \in BOOLEAN :
        LET c == [Met(call[s]) EXCEPT !.settled = @ \/ now]
        IN  IF timeout THEN Transient(s, c, TRUE)
            ELSE Put(s, Ended(c, "refused")) /\ Leave
  BY DEF GatewayFault
<1> DEFINE b == Met(call[s]).settled \/ now
           c == [Met(call[s]) EXCEPT !.settled = b]
<1>4. b \in BOOLEAN /\ (b => Priced(call[s]))
  <2>1. Met(call[s]).settled = call[s].settled
    BY <1>1, MetIs
  <2>2. now => call[s].phase = "paying"
    BY DEF MaySettle
  <2>3. QED
    BY <1>1, <2>1, <2>2 DEF Sound
<1>5. IF timeout THEN Transient(s, c, TRUE)
      ELSE Put(s, Ended(c, "refused")) /\ Leave
  BY <1>3
<1> HIDE DEF b
<1>6. Struck(c)
  BY <1>1, <1>2, <1>4, MetIsStruck
<1> HIDE DEF c
<1>7. CASE timeout
  <2>1. Transient(s, c, TRUE)
    BY <1>5, <1>7
  <2>2. DOMAIN call' = Slots /\ (\A t \in Slots : Sound(call'[t])) /\ attempt' = 1
    BY <1>6, <2>1, TRUE \in BOOLEAN, TransientKeeps
  <2>3. QED
    BY <2>2 DEF ClientInv
<1>8. CASE ~timeout
  <2>1. Put(s, Ended(c, "refused")) /\ attempt' = 1
    BY <1>5, <1>8 DEF Leave
  <2>2. "refused" \in Answers
    BY DEF Answers
  <2>3. Sound(Ended(c, "refused"))
    BY <1>6, <2>2, SoundEnded DEF Struck
  <2>4. QED
    BY <2>1, <2>3, PutKeeps DEF ClientInv
<1>9. QED
  BY <1>7, <1>8

\* Only a request that met a fault gives up; the first failure of a try just
\* opens another session.
LEMMA WireErrorKeeps ==
  ASSUME ClientInv, NEW s \in Slots, NEW c, NEW left, WireError(s, c, left),
         Sound(c), attempt = 2 => Struck(c)
  PROVE  ClientInv'
<1>1. CASE Reset /\ attempt' = 2 /\ Put(s, c)
  <2>1. ~connected' /\ attempt' = 2 /\ Put(s, c)
    BY <1>1 DEF Reset
  <2>2. QED
    BY <2>1, PutKeeps DEF ClientInv
<1>2. CASE attempt # 1 /\ Transient(s, c, FALSE)
  <2>1. Transient(s, c, FALSE) /\ Struck(c)
    BY <1>2 DEF ClientInv
  <2>2. DOMAIN call' = Slots /\ (\A t \in Slots : Sound(call'[t])) /\ attempt' = 1
    BY <2>1, FALSE \in BOOLEAN, TransientKeeps
  <2>3. QED
    BY <2>2 DEF ClientInv
<1>3. CASE Put(s, Ended(c, "broken")) /\ Leave
  <2>1. "broken" \in Answers
    BY DEF Answers
  <2>2. Sound(Ended(c, "broken"))
    BY <2>1, SoundEnded
  <2>3. attempt' = 1
    BY <1>3 DEF Leave
  <2>4. QED
    BY <1>3, <2>2, <2>3, PutKeeps DEF ClientInv
<1>4. QED
  BY <1>1, <1>2, <1>3 DEF WireError

LEMMA WireFaultKeeps ==
  ASSUME ClientInv, NEW s \in Slots, WireFault(s)
  PROVE  ClientInv'
<1>1. /\ Sound(call[s]) /\ call[s] \in Records
      /\ call[s].phase \in {"asking", "paying"}
  BY DEF ClientInv, Sound, WireFault, OnWire
<1>2. PICK now \in {FALSE, MaySettle(call[s])}, open \in BOOLEAN, ok \in BOOLEAN :
        WireError(s, [Met(call[s]) EXCEPT !.settled = @ \/ now],
                  [connected |-> open \/ connected, alive |-> ok])
  BY DEF WireFault
<1> DEFINE b == Met(call[s]).settled \/ now
           c == [Met(call[s]) EXCEPT !.settled = b]
           left == [connected |-> open \/ connected, alive |-> ok]
<1>3. b \in BOOLEAN /\ (b => Priced(call[s]))
  <2>1. Met(call[s]).settled = call[s].settled
    BY <1>1, MetIs
  <2>2. now => call[s].phase = "paying"
    BY DEF MaySettle
  <2>3. QED
    BY <1>1, <2>1, <2>2 DEF Sound
<1>4. WireError(s, c, left)
  BY <1>2
<1> HIDE DEF b
<1>5. Struck(c)
  BY <1>1, <1>3, MetIsStruck
<1> HIDE DEF c, left
<1>6. Sound(c)
  BY <1>5 DEF Struck
<1>7. QED
  BY <1>4, <1>5, <1>6, WireErrorKeeps

\* A second try opens its session, so that it cannot find a dead one.
LEMMA DeadSessionKeeps ==
  ASSUME ClientInv, NEW s \in Slots, DeadSession(s)
  PROVE  ClientInv'
<1> DEFINE left == [connected |-> TRUE, alive |-> FALSE]
<1>1. WireError(s, call[s], left) /\ ~Reaches
  BY DEF DeadSession
<1>2. attempt # 2
  BY <1>1 DEF Reaches, ClientInv
<1>3. Sound(call[s])
  BY DEF ClientInv
<1> HIDE DEF left
<1>4. QED
  BY <1>1, <1>2, <1>3, WireErrorKeeps

LEMMA BuildKeeps ==
  ASSUME ClientInv, NEW s \in Slots, Build(s) \/ BuildRefused(s)
  PROVE  ClientInv'
<1> DEFINE c == call[s]
<1>1. Sound(c) /\ c \in Records /\ c.phase = "building"
  BY DEF ClientInv, Sound, Build, BuildRefused
<1>2. UNCHANGED <<attempt, connected>>
  BY DEF Build, BuildRefused, wire
<1>3. CASE Build(s)
  <2> DEFINE d == [c EXCEPT !.phase = "paying", !.built = @ + 1]
  <2>1. /\ d \in Records /\ d.style = c.style /\ d.retried = c.retried
        /\ d.phase = "paying"
        /\ d.built = c.built + 1 /\ d.met = c.met /\ d.answer = c.answer
    <3> HIDE DEF c
    <3>1. c.built + 1 \in Nat /\ "paying" \in Phases
      BY <1>1 DEF Records, Phases
    <3>2. QED
      BY <1>1, <3>1 DEF Records
  <2>2. Put(s, d)
    BY <1>3 DEF Build
  <2> HIDE DEF d, c
  <2>3. /\ Builds(d) = Builds(c) /\ (Priced(d) <=> Priced(c))
        /\ Builds(c) \in {1, 2} /\ c.built \in Nat
    BY <1>1, <2>1 DEF Builds, Priced, Records
  <2>4. d.built <= Builds(d)
    BY <1>1, <2>1, <2>3 DEF Sound
  <2>5. Sound(d)
    BY <1>1, <2>1, <2>3, <2>4 DEF Sound
  <2>6. QED
    BY <1>2, <2>2, <2>5, PutKeeps DEF ClientInv
<1>4. CASE BuildRefused(s)
  <2>1. Put(s, Ended(c, "refused"))
    BY <1>4 DEF BuildRefused
  <2>2. "refused" \in Answers
    BY DEF Answers
  <2> HIDE DEF c
  <2>3. Sound(Ended(c, "refused"))
    BY <1>1, <2>2, SoundEnded
  <2>4. QED
    BY <1>2, <2>1, <2>3, PutKeeps DEF ClientInv
<1>5. QED
  BY <1>3, <1>4

LEMMA ClientNextKeeps ==
  ASSUME ClientInv, ClientNext
  PROVE  ClientInv'
<1>1. CASE SessionDies
  BY <1>1 DEF SessionDies, ClientInv
<1>2. ASSUME NEW s \in Slots,
             \/ ReplyAsk(s) \/ ReplyPaid(s) \/ Refuse(s)
             \/ GatewayFault(s) \/ WireFault(s) \/ DeadSession(s)
             \/ Build(s) \/ BuildRefused(s)
      PROVE  ClientInv'
  BY <1>2, AnswerKeeps, GatewayFaultKeeps, WireFaultKeeps, DeadSessionKeeps, BuildKeeps
<1>3. QED
  BY <1>1, <1>2 DEF ClientNext

\* What a caller does.
LEMMA TakeKeeps ==
  ASSUME ClientInv, NEW S, Take(S)
  PROVE  ClientInv'
  BY SoundIdle DEF ClientInv, Take, Dropped, wire

LEMMA IssueKeeps ==
  ASSUME ClientInv, NEW ss, NEW style \in Styles, NEW S, Issue(ss, style, S)
  PROVE  ClientInv'
<1> DEFINE asked == [NoCall EXCEPT !.style = style, !.phase = "asking"]
<1>1. Sound(asked)
  BY SoundAsking
<1>2. call' = [s \in Slots |-> IF \E i \in DOMAIN ss : ss[i] = s
                              THEN asked ELSE Dropped(S)[s]]
      /\ UNCHANGED <<attempt, connected>>
  BY DEF Issue
<1> HIDE DEF asked
<1>3. \A s \in Slots : Sound(Dropped(S)[s])
  BY SoundIdle DEF ClientInv, Dropped
<1>4. \A s \in Slots : call'[s] = asked \/ call'[s] = Dropped(S)[s]
  BY <1>2
<1>5. \A s \in Slots : Sound(call'[s])
  BY <1>1, <1>3, <1>4
<1>6. QED
  BY <1>2, <1>5 DEF ClientInv

LEMMA QuietKeeps ==
  ASSUME ClientInv, Quiet
  PROVE  ClientInv'
  BY DEF ClientInv, Quiet, client, wire

\* Whatever a caller does, it asks, listens or leaves the client alone.
LEMMA CallerKeeps ==
  ASSUME ClientInv, NEW r \in Runners,
         BeginAgent(r) \/ BeginRead(r) \/ BeginProbe(r) \/ AccountFails(r) \/ Answer(r)
  PROVE  ClientInv'
<1>1. \A style \in Styles : Ask(r, style) => ClientInv'
  BY IssueKeeps DEF Ask
<1>2. Heard(r) => ClientInv'
  BY TakeKeeps DEF Heard
<1>3. StartRead(r) => ClientInv'
  BY IssueKeeps DEF StartRead, Styles
<1>4. Quiet => ClientInv'
  BY QuietKeeps
<1>5. Ask(r, "list") \/ Ask(r, "managed") \/ Ask(r, "plain") \/ Ask(r, "catalog")
        => ClientInv'
  BY <1>1 DEF Styles
<1> HIDE DEF Ask, Heard, Quiet, StartRead
<1>6. CASE BeginAgent(r) \/ BeginRead(r) \/ BeginProbe(r) \/ AccountFails(r)
  BY <1>3, <1>4, <1>5, <1>6 DEF BeginAgent, BeginRead, BeginProbe, AccountFails
<1>7. CASE Answer(r)
  <2>1. CASE \/ CallFails(r, {"probing", "listing", "pricing", "personalized", "listed",
                             "paging"})
             \/ ProbeReplied(r) \/ ToolsListed(r) \/ ReadFails(r)
             \/ ReadArrives(r) \/ PricesArrive(r)
    BY <1>2, <1>3, <1>4, <1>5, <2>1
       DEF CallFails, ProbeReplied, ToolsListed, ReadFails, ReadArrives, PricesArrive
  <2>2. CASE \/ PersonalizedArrives(r) \/ ListArrives(r)
             \/ Search(r) \/ SearchReplied(r) \/ SearchesDone(r)
             \/ Page(r) \/ PageArrives(r) \/ PagesDone(r)
    BY <1>2, <1>4, <1>5, <2>2
       DEF PersonalizedArrives, ListArrives, Search, SearchReplied, SearchesDone,
           Page, PageArrives, PagesDone
  <2>3. CASE \/ ModelFails(r) \/ ModelCalls(r) \/ RefuseTool(r) \/ CallTool(r)
             \/ ToolReplied(r) \/ TurnEnds(r) \/ ModelPlans(r) \/ Repair(r)
    BY <1>2, <1>4, <1>5, <2>3
       DEF ModelFails, ModelCalls, RefuseTool, CallTool, ToolReplied, TurnEnds,
           ModelPlans, Repair
  <2>4. QED
    BY <1>7, <2>1, <2>2, <2>3 DEF Answer
<1>8. QED
  BY <1>6, <1>7

LEMMA ClientInvHolds == Spec => []ClientInv
<1>1. Init => ClientInv
  BY SoundIdle DEF Init, ClientInit, ClientInv
<1>2. ClientInv /\ [Next]_vars => ClientInv'
  <2> SUFFICES ASSUME ClientInv, [Next]_vars PROVE ClientInv'
    OBVIOUS
  <2>1. CASE UNCHANGED vars
    BY <2>1 DEF vars, client, wire, ClientInv
  <2>2. CASE Next
    BY <2>2, ClientNextKeeps, CallerKeeps DEF Next
  <2>3. QED
    BY <2>1, <2>2
<1>3. QED
  BY <1>1, <1>2, PTL DEF Spec

-----------------------------------------------------------------------------
(* The theorems.                                                           *)

\* A managed call (callManagedTool) ends in an error its classifiers recognise only
\* after two faults, any other after one, whatever session its attempts find.
THEOREM KnownFaultsAreRetried == Spec => []KnownFaultsAreSurvived
<1>1. ClientInv => KnownFaultsAreSurvived
  BY DEF ClientInv, Sound, KnownFaultsAreSurvived
<1>2. QED
  BY <1>1, ClientInvHolds, PTL

\* Only a managed call pays twice, after a fault, and none a third time.
THEOREM PaysTwiceAfterFault == Spec => []SecondPaymentNeedsFault
<1>1. ClientInv => SecondPaymentNeedsFault
  <2> SUFFICES ASSUME ClientInv, NEW s \in Slots
               PROVE  /\ call[s].built <= 2
                      /\ call[s].built = 2 => (call[s].style = "managed" /\ call[s].met > 0)
    BY DEF SecondPaymentNeedsFault
  <2> DEFINE c == call[s]
  <2>1. Sound(c)
    BY DEF ClientInv
  <2> HIDE DEF c
  <2>2. c.built \in Nat /\ c.built <= Builds(c) /\ (c.retried => c.met > 0)
    BY <2>1 DEF Sound, Records
  <2>3. c.built <= 2 /\ (c.built = 2 => (c.style = "managed" /\ c.met > 0))
    BY <2>2 DEF Builds
  <2>4. QED
    BY <2>3 DEF c
<1>2. QED
  BY <1>1, ClientInvHolds, PTL

-----------------------------------------------------------------------------
(* What a run reports and what was charged.                                *)

Count(b) == IF b THEN 1 ELSE 0

\* A receipt that waits to be taken, and a payment whose receipt is lost so far.
Got(c) == Count(c.answer = "receipt")
Owed(c) == Count(c.settled /\ c.answer # "receipt")

Waits(r) == Got(call[Positions(r)]) + Got(call[Claimable(r)]) + Got(call[Work(r)])
Lost(r) == Owed(call[Positions(r)]) + Owed(call[Claimable(r)]) + Owed(call[Work(r)])
Kept(R) == R.payments + R.paid + R.unseen

RunFields ==
    [mode : Modes, stage : Stages, calls : Nat, todo : Seq(Kinds), left : Nat,
     researched : BOOLEAN, found : BOOLEAN, paid : Nat, payments : Nat, unseen : Nat]

\* The stages in which the run waits for the call in its own slot.
Waiting == {"probing", "listing", "pricing", "personalized", "listed", "searching",
            "paging", "calling"}
Free == {"probing", "listing", "pricing"}

\* What stage R is at says which calls are under way.
Agrees(R, p, c, w) ==
    /\ R.stage # "reading" => (p = NoCall /\ c = NoCall)
    /\ R.stage \notin Waiting => w = NoCall
    /\ R.stage \in Free => w.style \in {"plain", "list"}
    /\ R.stage \notin {"pages", "paging"} => R.paid = 0
    /\ R.stage = "calling" => R.todo # <<>>

\* Each payment that settled has its receipt, kept or waiting, or met a fault.
Balanced(r) ==
    /\ Kept(run[r]) + Waits(r) + Lost(r) <= charged[r]
    /\ charged[r] <= Kept(run[r]) + Waits(r) + faults[r]

RunInv(r) ==
    run[r].stage # "failed" =>
      /\ Agrees(run[r], call[Positions(r)], call[Claimable(r)], call[Work(r)])
      /\ Balanced(r)

AgentInv ==
    /\ DOMAIN run = Runners /\ \A r \in Runners : run[r] \in RunFields
    /\ charged \in [Runners -> Nat] /\ faults \in [Runners -> Nat]
    /\ \A r \in Runners : RunInv(r)

-----------------------------------------------------------------------------
(* Slots and callers.                                                      *)

LEMMA SlotsAre ==
  /\ Callers = Runners
  /\ \A s \in Slots : s[1] \in Runners
                      /\ s \in {Positions(s[1]), Claimable(s[1]), Work(s[1])}
  /\ \A r \in Runners :
       /\ {Positions(r), Claimable(r), Work(r)} \subseteq Slots
       /\ Positions(r) # Claimable(r) /\ Positions(r) # Work(r) /\ Claimable(r) # Work(r)
       /\ Positions(r)[1] = r /\ Claimable(r)[1] = r /\ Work(r)[1] = r
<1>1. Slots = Runners \X {"positions", "claimable", "work"}
  BY AgentAssumption
<1>2. ASSUME NEW s \in Slots
      PROVE  s[1] \in Runners /\ s \in {Positions(s[1]), Claimable(s[1]), Work(s[1])}
  BY <1>1 DEF Positions, Claimable, Work
<1>3. ASSUME NEW r \in Runners
      PROVE  /\ {Positions(r), Claimable(r), Work(r)} \subseteq Slots
             /\ Positions(r) # Claimable(r) /\ Positions(r) # Work(r)
             /\ Claimable(r) # Work(r)
             /\ Positions(r)[1] = r /\ Claimable(r)[1] = r /\ Work(r)[1] = r
  BY <1>1 DEF Positions, Claimable, Work
<1>4. Callers = Runners
  BY <1>2, <1>3 DEF Callers
<1>5. QED
  BY <1>2, <1>3, <1>4

LEMMA CountIs == \A b \in BOOLEAN : Count(b) \in {0, 1}
  BY DEF Count

LEMMA GotIs == \A c : Got(c) \in {0, 1} /\ Owed(c) \in {0, 1}
  BY DEF Got, Owed, Count

LEMMA IdleOwesNothing == Got(NoCall) = 0 /\ Owed(NoCall) = 0
  BY DEF NoCall, Got, Owed, Count

LEMMA KeptIs == \A R \in RunFields : Kept(R) \in Nat
  BY DEF Kept, RunFields

-----------------------------------------------------------------------------
(* A step of the client.                                                   *)

\* The step changes the call from c to d, with x payments settled and f faults.
Shift(c, d, x, f) ==
    /\ c.phase # "idle" /\ d.style = c.style
    /\ x \in {0, 1} /\ f \in {0, 1}
    /\ Got(d) + Owed(d) <= Got(c) + Owed(c) + x
    /\ Got(c) + x <= Got(d) + f

Moves(s, d, x, f) ==
    /\ Put(s, d)
    /\ charged' = [charged EXCEPT ![s[1]] = @ + x]
    /\ faults' = [faults EXCEPT ![s[1]] = @ + f]
    /\ Shift(call[s], d, x, f)

LEMMA MoveKeeps ==
  ASSUME AgentInv, ClientInv, UNCHANGED run,
         NEW s \in Slots, NEW d, NEW x, NEW f, Moves(s, d, x, f)
  PROVE  AgentInv'
<1>1. /\ call' = [t \in Slots |-> IF t = s THEN d ELSE call[t]]
      /\ x \in {0, 1} /\ f \in {0, 1}
  BY DEF Moves, Shift, Put, ClientInv
<1>2. s[1] \in Runners
  BY SlotsAre
<1>3. /\ charged' \in [Runners -> Nat] /\ faults' \in [Runners -> Nat]
      /\ charged'[s[1]] = charged[s[1]] + x /\ faults'[s[1]] = faults[s[1]] + f
      /\ \A r \in Runners \ {s[1]} : charged'[r] = charged[r] /\ faults'[r] = faults[r]
  BY <1>1, <1>2 DEF AgentInv, Moves
<1>4. ASSUME NEW r \in Runners, run[r].stage # "failed" PROVE RunInv(r)'
  <2> DEFINE p == call[Positions(r)]
             c == call[Claimable(r)]
             w == call[Work(r)]
             p1 == call'[Positions(r)]
             c1 == call'[Claimable(r)]
             w1 == call'[Work(r)]
  <2>1. /\ {Positions(r), Claimable(r), Work(r)} \subseteq Slots
        /\ Positions(r) # Claimable(r) /\ Positions(r) # Work(r)
        /\ Claimable(r) # Work(r)
        /\ Positions(r)[1] = r /\ Claimable(r)[1] = r /\ Work(r)[1] = r
    BY SlotsAre
  <2>2. Agrees(run[r], p, c, w) /\ Balanced(r) /\ run[r] \in RunFields
    BY <1>4 DEF AgentInv, RunInv
  <2>3. Kept(run[r]) \in Nat /\ charged[r] \in Nat /\ faults[r] \in Nat
    BY <2>2, KeptIs DEF AgentInv
  <2>4. CASE s[1] # r
    <3>1. p1 = p /\ c1 = c /\ w1 = w
      BY <1>1, <2>1, <2>4
    <3>2. charged'[r] = charged[r] /\ faults'[r] = faults[r]
      BY <1>3, <2>4
    <3>3. QED
      BY <2>2, <3>1, <3>2 DEF RunInv, Balanced, Waits, Lost, Kept, Positions, Claimable, Work
  <2>5. CASE s[1] = r
    <3>1. charged'[r] = charged[r] + x /\ faults'[r] = faults[r] + f
      BY <1>3, <2>5
    <3>2. s \in {Positions(r), Claimable(r), Work(r)}
      BY <2>5, SlotsAre
    <3>3. Shift(call[s], d, x, f) /\ NoCall.phase = "idle"
      BY DEF Moves, NoCall
    <3> HIDE DEF p, c, w, p1, c1, w1
    <3>4. /\ Waits(r) = Got(p) + Got(c) + Got(w)
          /\ Lost(r) = Owed(p) + Owed(c) + Owed(w)
          /\ Waits(r)' = Got(p1) + Got(c1) + Got(w1)
          /\ Lost(r)' = Owed(p1) + Owed(c1) + Owed(w1)
      BY DEF Waits, Lost, p, c, w, p1, c1, w1, Positions, Claimable, Work, Got, Owed
    <3>5. \A k : Got(k) \in {0, 1} /\ Owed(k) \in {0, 1}
      BY GotIs
    <3>6. Agrees(run[r], p1, c1, w1)
      <4>1. CASE s = Work(r)
        <5>1. p1 = p /\ c1 = c /\ w1 = d /\ w = call[s]
          BY <1>1, <2>1, <4>1 DEF p, c, w, p1, c1, w1
        <5>2. QED
          BY <2>2, <3>3, <5>1 DEF Agrees, Shift
      <4>2. CASE s = Positions(r)
        <5>1. p1 = d /\ c1 = c /\ w1 = w /\ p = call[s]
          BY <1>1, <2>1, <4>2 DEF p, c, w, p1, c1, w1
        <5>2. QED
          BY <2>2, <3>3, <5>1 DEF Agrees, Shift
      <4>3. CASE s = Claimable(r)
        <5>1. p1 = p /\ c1 = d /\ w1 = w /\ c = call[s]
          BY <1>1, <2>1, <4>3 DEF p, c, w, p1, c1, w1
        <5>2. QED
          BY <2>2, <3>3, <5>1 DEF Agrees, Shift
      <4>4. QED
        BY <3>2, <4>1, <4>2, <4>3
    <3>7. /\ Waits(r)' + Lost(r)' <= Waits(r) + Lost(r) + x
          /\ Waits(r) + x <= Waits(r)' + f
      <4>1. CASE s = Work(r)
        <5>1. p1 = p /\ c1 = c /\ w1 = d /\ w = call[s]
          BY <1>1, <2>1, <4>1 DEF p, c, w, p1, c1, w1
        <5>2. QED
          BY <1>1, <3>3, <3>4, <3>5, <5>1 DEF Shift
      <4>2. CASE s = Positions(r)
        <5>1. p1 = d /\ c1 = c /\ w1 = w /\ p = call[s]
          BY <1>1, <2>1, <4>2 DEF p, c, w, p1, c1, w1
        <5>2. QED
          BY <1>1, <3>3, <3>4, <3>5, <5>1 DEF Shift
      <4>3. CASE s = Claimable(r)
        <5>1. p1 = p /\ c1 = d /\ w1 = w /\ c = call[s]
          BY <1>1, <2>1, <4>3 DEF p, c, w, p1, c1, w1
        <5>2. QED
          BY <1>1, <3>3, <3>4, <3>5, <5>1 DEF Shift
      <4>4. QED
        BY <3>2, <4>1, <4>2, <4>3
    <3>8. Waits(r) \in Nat /\ Lost(r) \in Nat /\ Waits(r)' \in Nat /\ Lost(r)' \in Nat
      BY <3>4, <3>5
    <3>9. Kept(run[r])' = Kept(run[r])
      BY DEF Kept
    <3>10. Balanced(r)'
      BY <1>1, <2>2, <2>3, <3>1, <3>7, <3>8, <3>9 DEF Balanced
    <3>11. Agrees(run[r], call[Positions(r)], call[Claimable(r)], call[Work(r)])'
      BY <3>6 DEF p1, c1, w1, Positions, Claimable, Work, Agrees
    <3>12. QED
      BY <3>10, <3>11 DEF RunInv
  <2>6. QED
    BY <2>4, <2>5
<1>5. \A r \in Runners : RunInv(r)'
  BY <1>4 DEF RunInv
<1>6. QED
  BY <1>3, <1>5 DEF AgentInv

\* A call that is open has no answer yet; what it owes is what has settled.
Open(c) == c.phase \in {"asking", "paying", "building"}

LEMMA OpenOwes ==
  ASSUME NEW c, Sound(c), Open(c)
  PROVE  Got(c) = 0 /\ Owed(c) = Count(c.settled) /\ c.settled \in BOOLEAN
         /\ c \in Records
<1>1. c.answer = "none" /\ c.settled \in BOOLEAN /\ c \in Records
  BY DEF Open, Sound, Records
<1>2. QED
  BY <1>1 DEF Got, Owed, Count

\* An error leaves the call without a receipt, and with no more than has settled.
LEMMA TransientOwes ==
  ASSUME NEW s, NEW c \in Records, c.answer = "none", NEW payload \in BOOLEAN,
         Transient(s, c, payload)
  PROVE  \E d : /\ Put(s, d) /\ d.style = c.style
               /\ Got(d) = 0 /\ Owed(d) <= Count(c.settled)
<1>1. CASE Retryable(c, payload)
  <2> DEFINE d == Again(c)
  <2>1. /\ d.style = c.style /\ d.answer = "none" /\ c.settled \in BOOLEAN
        /\ d.settled = IF c.style = "managed" THEN FALSE ELSE c.settled
    BY AgainIs DEF Records
  <2>2. Put(s, d)
    BY <1>1 DEF Transient
  <2> HIDE DEF d
  <2>3. Got(d) = 0 /\ Owed(d) <= Count(c.settled)
    BY <2>1 DEF Got, Owed, Count
  <2>4. QED
    BY <2>1, <2>2, <2>3
<1>2. CASE ~Retryable(c, payload)
  <2> DEFINE d == Ended(c, "transient")
  <2>1. "transient" \in Answers
    BY DEF Answers
  <2>2. /\ d.style = c.style /\ d.answer = "transient" /\ d.settled = c.settled
        /\ c.settled \in BOOLEAN
    BY <2>1, EndedIs DEF Records
  <2>3. Put(s, d)
    BY <1>2 DEF Transient
  <2> HIDE DEF d
  <2>4. Got(d) = 0 /\ Owed(d) <= Count(c.settled)
    BY <2>2 DEF Got, Owed, Count
  <2>5. QED
    BY <2>2, <2>3, <2>4
<1>3. QED
  BY <1>1, <1>2

\* With no payment and no fault, the counters stay.
LEMMA CountersStay ==
  ASSUME AgentInv, NEW s \in Slots, UNCHANGED <<charged, faults>>
  PROVE  /\ charged' = [charged EXCEPT ![s[1]] = @ + 0]
         /\ faults' = [faults EXCEPT ![s[1]] = @ + 0]
<1>1. s[1] \in Runners
  BY SlotsAre
<1>2. charged[s[1]] + 0 = charged[s[1]] /\ faults[s[1]] + 0 = faults[s[1]]
  BY <1>1 DEF AgentInv
<1>3. QED
  BY <1>1, <1>2 DEF AgentInv

LEMMA FaultsStay ==
  ASSUME AgentInv, NEW s \in Slots, UNCHANGED faults
  PROVE  faults' = [faults EXCEPT ![s[1]] = @ + 0]
<1>1. s[1] \in Runners
  BY SlotsAre
<1>2. faults[s[1]] + 0 = faults[s[1]]
  BY <1>1 DEF AgentInv
<1>3. QED
  BY <1>1, <1>2 DEF AgentInv

LEMMA EndsOwed ==
  ASSUME NEW c, Sound(c), Open(c)
  PROVE  \A answer \in {"data", "refused"} :
           Shift(c, Ended(c, answer), 0, 0)
<1> TAKE answer \in {"data", "refused"}
<1>1. Got(c) = 0 /\ Owed(c) = Count(c.settled) /\ c.settled \in BOOLEAN /\ c \in Records
  BY OpenOwes
<1> DEFINE d == Ended(c, answer)
<1>2. answer \in Answers
  BY DEF Answers
<1>3. d.style = c.style /\ d.answer = answer /\ d.settled = c.settled
  BY <1>1, <1>2, EndedIs
<1> HIDE DEF d
<1>4. Got(d) = 0 /\ Owed(d) = Count(c.settled)
  BY <1>1, <1>3 DEF Got, Owed, Count
<1>5. Count(c.settled) \in {0, 1}
  BY <1>1, CountIs
<1>6. c.phase # "idle"
  BY DEF Open
<1>7. Shift(c, d, 0, 0)
  BY <1>1, <1>3, <1>4, <1>5, <1>6 DEF Shift
<1>8. QED
  BY <1>7 DEF d

\* The answers.
LEMMA AnswerMoves ==
  ASSUME AgentInv, ClientInv, NEW s \in Slots,
         ReplyAsk(s) \/ Refuse(s) \/ BuildRefused(s) \/ Build(s)
  PROVE  \E d : Moves(s, d, 0, 0)
<1> DEFINE c == call[s]
<1>1. Sound(c) /\ Open(c)
  BY DEF ClientInv, ReplyAsk, Refuse, BuildRefused, Build, OnWire, Open
<1>2. /\ charged' = [charged EXCEPT ![s[1]] = @ + 0]
      /\ faults' = [faults EXCEPT ![s[1]] = @ + 0]
  BY CountersStay DEF ReplyAsk, Refuse, BuildRefused, Build
<1>3. Got(c) = 0 /\ Owed(c) = Count(c.settled) /\ c.settled \in BOOLEAN /\ c \in Records
      /\ c.phase # "idle" /\ c.answer = "none" /\ Count(c.settled) \in {0, 1}
  BY <1>1, OpenOwes, CountIs DEF Open, Sound
<1>4. CASE Put(s, Ended(c, "data")) \/ Put(s, Ended(c, "refused"))
  BY <1>1, <1>2, <1>4, EndsOwed DEF Moves
<1>5. ASSUME NEW d, Put(s, d), d.style = c.style, d.answer = c.answer, d.settled = c.settled
      PROVE  Moves(s, d, 0, 0)
  <2> HIDE DEF c
  <2>1. Got(d) = 0 /\ Owed(d) = Count(c.settled)
    BY <1>3, <1>5 DEF Got, Owed
  <2>2. Shift(c, d, 0, 0)
    BY <1>3, <1>5, <2>1 DEF Shift
  <2>3. QED
    BY <1>2, <1>5, <2>2 DEF Moves, c
<1>6. CASE Put(s, [c EXCEPT !.phase = "building", !.retried = @ /\ c.style = "managed"])
  <2> DEFINE d == [c EXCEPT !.phase = "building", !.retried = @ /\ c.style = "managed"]
  <2>1. d.style = c.style /\ d.answer = c.answer /\ d.settled = c.settled
    BY <1>3 DEF Records
  <2>2. QED
    BY <1>5, <1>6, <2>1
<1>7. CASE Build(s)
  <2> DEFINE d == [c EXCEPT !.phase = "paying", !.built = @ + 1]
  <2>1. d.style = c.style /\ d.answer = c.answer /\ d.settled = c.settled
    BY <1>3 DEF Records
  <2>2. Put(s, d)
    BY <1>7 DEF Build
  <2>3. QED
    BY <1>5, <2>1, <2>2
<1>8. QED
  BY <1>4, <1>6, <1>7 DEF ReplyAsk, Refuse, BuildRefused

\* The receipt arrives: for a payment that has settled, or settles with it.
LEMMA ReplyPaidMoves ==
  ASSUME AgentInv, ClientInv, NEW s \in Slots, ReplyPaid(s)
  PROVE  \E d, x : Moves(s, d, x, 0)
<1> DEFINE c == call[s]
           e == [c EXCEPT !.settled = TRUE]
           d == Ended(e, "receipt")
           x == Count(~c.settled)
<1>1. Sound(c) /\ Open(c)
  BY DEF ClientInv, ReplyPaid, OnWire, Open
<1>2. Got(c) = 0 /\ Owed(c) = Count(c.settled) /\ c.settled \in BOOLEAN /\ c \in Records
      /\ c.phase # "idle"
  BY <1>1, OpenOwes DEF Open
<1>3. e \in Records /\ e.style = c.style
  BY <1>2, SettledIs
<1>4. Put(s, d) /\ charged' = [charged EXCEPT ![s[1]] = @ + x]
  BY DEF ReplyPaid, Settle, Count
<1>5. faults' = [faults EXCEPT ![s[1]] = @ + 0]
  BY FaultsStay DEF ReplyPaid
<1>6. "receipt" \in Answers
  BY DEF Answers
<1> HIDE DEF e, c
<1>7. d.style = c.style /\ d.answer = "receipt"
  BY <1>3, <1>6, EndedIs
<1> HIDE DEF d
<1>8. Got(d) = 1 /\ Owed(d) = 0
  BY <1>7 DEF Got, Owed, Count
<1>9. x \in {0, 1} /\ Count(c.settled) \in {0, 1} /\ Count(c.settled) + x = 1
  BY <1>2 DEF Count
<1> HIDE DEF x
<1>10. Shift(c, d, x, 0)
  BY <1>2, <1>7, <1>8, <1>9 DEF Shift
<1>11. Moves(s, d, x, 0)
  BY <1>4, <1>5, <1>10 DEF Moves, c
<1>12. QED
  BY <1>11

\* The payment may settle with the fault: one fault, one payment at most.
LEMMA FaultMoves ==
  ASSUME AgentInv, ClientInv, NEW s \in Slots, Sound(call[s]), Open(call[s]),
         NEW now \in {FALSE, MaySettle(call[s])}, Fault(s), Settle(s, now),
         NEW d, Put(s, d), d.style = call[s].style, Got(d) = 0,
         Owed(d) <= Count(call[s].settled \/ now)
  PROVE  \E x : Moves(s, d, x, 1)
<1> DEFINE c == call[s]
           x == Count(now)
<1>1. Got(c) = 0 /\ Owed(c) = Count(c.settled) /\ c.settled \in BOOLEAN /\ c.phase # "idle"
  BY OpenOwes DEF Open
<1>2. now \in BOOLEAN /\ ~(now /\ c.settled)
  BY DEF MaySettle
<1>3. x \in {0, 1} /\ Count(c.settled \/ now) = Count(c.settled) + x
      /\ Count(c.settled) \in {0, 1}
  BY <1>1, <1>2 DEF Count
<1>4. charged' = [charged EXCEPT ![s[1]] = @ + x] /\ faults' = [faults EXCEPT ![s[1]] = @ + 1]
  BY DEF Settle, Count, Fault
<1>5. Owed(d) \in {0, 1} /\ Owed(d) <= Count(c.settled \/ now)
  BY GotIs
<1>6. d.style = c.style
  OBVIOUS
<1> HIDE DEF c, x
<1>7. Shift(c, d, x, 1)
  BY <1>1, <1>3, <1>5, <1>6 DEF Shift
<1>8. QED
  BY <1>4, <1>7 DEF Moves, c

LEMMA MetOwes ==
  ASSUME NEW c, Sound(c), Open(c), NEW b \in BOOLEAN
  PROVE  LET e == [Met(c) EXCEPT !.settled = b] IN
         /\ e \in Records /\ e.style = c.style /\ e.answer = "none" /\ e.settled = b
         /\ Met(c).settled = c.settled
<1>1. c \in Records /\ c.answer = "none"
  BY OpenOwes DEF Open, Sound
<1>2. Met(c) \in Records /\ Met(c).style = c.style /\ Met(c).answer = c.answer
      /\ Met(c).settled = c.settled
  BY <1>1, MetIs
<1>3. QED
  BY <1>1, <1>2, SettledIs

LEMMA GatewayMoves ==
  ASSUME AgentInv, ClientInv, NEW s \in Slots, GatewayFault(s)
  PROVE  \E d, x : Moves(s, d, x, 1)
<1>1. Sound(call[s]) /\ Open(call[s])
  BY DEF ClientInv, GatewayFault, OnWire, Open
<1>2. PICK now \in {FALSE, MaySettle(call[s])}, timeout \in BOOLEAN :
        LET c == [Met(call[s]) EXCEPT !.settled = @ \/ now]
        IN  /\ Settle(s, now)
            /\ IF timeout THEN Transient(s, c, TRUE)
                ELSE Put(s, Ended(c, "refused")) /\ Leave
  BY DEF GatewayFault
<1> DEFINE b == Met(call[s]).settled \/ now
           c == [Met(call[s]) EXCEPT !.settled = b]
<1>3. Settle(s, now) /\ Fault(s) /\ (Transient(s, c, TRUE) \/ Put(s, Ended(c, "refused")))
  BY <1>2 DEF GatewayFault
<1>4. b \in BOOLEAN
  OBVIOUS
<1> HIDE DEF b
<1>5. /\ c \in Records /\ c.style = call[s].style /\ c.answer = "none" /\ c.settled = b
      /\ Met(call[s]).settled = call[s].settled
  BY <1>1, <1>4, MetOwes
<1> HIDE DEF c
<1>6. Count(c.settled) = Count(call[s].settled \/ now)
  BY <1>5 DEF b
<1>7. \E d : Put(s, d) /\ d.style = c.style /\ Got(d) = 0 /\ Owed(d) <= Count(c.settled)
  <2>1. CASE Transient(s, c, TRUE)
    <3>1. TRUE \in BOOLEAN
      OBVIOUS
    <3>2. QED
      BY <1>5, <2>1, <3>1, TransientOwes
  <2>2. CASE Put(s, Ended(c, "refused"))
    <3> DEFINE d == Ended(c, "refused")
    <3>1. "refused" \in Answers
      BY DEF Answers
    <3>2. d.style = c.style /\ d.answer = "refused" /\ d.settled = c.settled
      BY <1>5, <3>1, EndedIs
    <3>3. Put(s, d)
      BY <2>2
    <3>4. c.settled \in BOOLEAN
      BY <1>5 DEF Records
    <3> HIDE DEF d
    <3>5. Got(d) = 0 /\ Owed(d) <= Count(c.settled)
      BY <3>2, <3>4 DEF Got, Owed, Count
    <3>6. QED
      BY <3>2, <3>3, <3>5
  <2>3. QED
    BY <1>3, <2>1, <2>2
<1>8. PICK d : Put(s, d) /\ d.style = c.style /\ Got(d) = 0 /\ Owed(d) <= Count(c.settled)
  BY <1>7
<1>9. d.style = call[s].style /\ Owed(d) <= Count(call[s].settled \/ now)
  BY <1>5, <1>6, <1>8
<1>10. QED
  BY <1>1, <1>3, <1>8, <1>9, FaultMoves

LEMMA WireErrorMoves ==
  ASSUME AgentInv, ClientInv, NEW s \in Slots, NEW c \in Records, NEW left,
         c.answer = "none", WireError(s, c, left)
  PROVE  \E d : Put(s, d) /\ d.style = c.style /\ Got(d) = 0 /\ Owed(d) <= Count(c.settled)
<1>1. c.settled \in BOOLEAN
  BY DEF Records
<1>2. CASE Put(s, c)
  <2>1. Got(c) = 0 /\ Owed(c) <= Count(c.settled)
    BY <1>1 DEF Got, Owed, Count
  <2>2. QED
    BY <1>2, <2>1
<1>3. CASE Transient(s, c, FALSE)
  <2>1. FALSE \in BOOLEAN
    OBVIOUS
  <2>2. QED
    BY <1>3, <2>1, TransientOwes
<1>4. CASE Put(s, Ended(c, "broken"))
  <2> DEFINE d == Ended(c, "broken")
  <2>1. "broken" \in Answers
    BY DEF Answers
  <2>2. d.style = c.style /\ d.answer = "broken" /\ d.settled = c.settled
    BY <2>1, EndedIs
  <2>3. Put(s, d)
    BY <1>4
  <2> HIDE DEF d
  <2>4. Got(d) = 0 /\ Owed(d) <= Count(c.settled)
    BY <1>1, <2>2 DEF Got, Owed, Count
  <2>5. QED
    BY <2>2, <2>3, <2>4
<1>5. QED
  BY <1>2, <1>3, <1>4 DEF WireError

LEMMA WireFaultMoves ==
  ASSUME AgentInv, ClientInv, NEW s \in Slots, WireFault(s)
  PROVE  \E d, x : Moves(s, d, x, 1)
<1>1. Sound(call[s]) /\ Open(call[s])
  BY DEF ClientInv, WireFault, OnWire, Open
<1>2. PICK now \in {FALSE, MaySettle(call[s])}, open \in BOOLEAN, ok \in BOOLEAN :
        /\ Settle(s, now)
        /\ WireError(s, [Met(call[s]) EXCEPT !.settled = @ \/ now],
                     [connected |-> open \/ connected, alive |-> ok])
  BY DEF WireFault
<1> DEFINE b == Met(call[s]).settled \/ now
           c == [Met(call[s]) EXCEPT !.settled = b]
           left == [connected |-> open \/ connected, alive |-> ok]
<1>3. Settle(s, now) /\ Fault(s) /\ WireError(s, c, left)
  BY <1>2 DEF WireFault
<1>4. b \in BOOLEAN
  OBVIOUS
<1> HIDE DEF b, left
<1>5. /\ c \in Records /\ c.style = call[s].style /\ c.answer = "none" /\ c.settled = b
      /\ Met(call[s]).settled = call[s].settled
  BY <1>1, <1>4, MetOwes
<1> HIDE DEF c
<1>6. Count(c.settled) = Count(call[s].settled \/ now)
  BY <1>5 DEF b
<1>7. PICK d : Put(s, d) /\ d.style = c.style /\ Got(d) = 0 /\ Owed(d) <= Count(c.settled)
  BY <1>3, <1>5, WireErrorMoves
<1>8. d.style = call[s].style /\ Owed(d) <= Count(call[s].settled \/ now)
  BY <1>5, <1>6, <1>7
<1>9. QED
  BY <1>1, <1>3, <1>7, <1>8, FaultMoves

LEMMA DeadSessionMoves ==
  ASSUME AgentInv, ClientInv, NEW s \in Slots, DeadSession(s)
  PROVE  \E d : Moves(s, d, 0, 0)
<1> DEFINE c == call[s]
           left == [connected |-> TRUE, alive |-> FALSE]
<1>1. Sound(c) /\ Open(c)
  BY DEF ClientInv, DeadSession, OnWire, Open
<1>2. /\ c \in Records /\ c.answer = "none" /\ c.phase # "idle"
      /\ Got(c) = 0 /\ Owed(c) = Count(c.settled) /\ Count(c.settled) \in {0, 1}
  BY <1>1, OpenOwes, CountIs DEF Open, Sound
<1>3. WireError(s, c, left)
  BY DEF DeadSession
<1> HIDE DEF c, left
<1>4. PICK d : Put(s, d) /\ d.style = c.style /\ Got(d) = 0 /\ Owed(d) <= Count(c.settled)
  BY <1>2, <1>3, WireErrorMoves
<1>5. Owed(d) \in {0, 1}
  BY GotIs
<1>6. Shift(c, d, 0, 0)
  BY <1>2, <1>4, <1>5 DEF Shift
<1>7. /\ charged' = [charged EXCEPT ![s[1]] = @ + 0]
      /\ faults' = [faults EXCEPT ![s[1]] = @ + 0]
  BY CountersStay DEF DeadSession
<1>8. QED
  BY <1>4, <1>6, <1>7 DEF Moves, c

LEMMA ClientKeepsBalance ==
  ASSUME AgentInv, ClientInv, ClientNext, UNCHANGED run
  PROVE  AgentInv'
<1>1. CASE SessionDies
  BY <1>1 DEF SessionDies, AgentInv, RunInv, Balanced, Agrees, Waits, Lost, Kept,
              Positions, Claimable, Work, Got, Owed
<1>2. ASSUME NEW s \in Slots,
             \/ ReplyAsk(s) \/ ReplyPaid(s) \/ Refuse(s)
             \/ GatewayFault(s) \/ WireFault(s) \/ DeadSession(s)
             \/ Build(s) \/ BuildRefused(s)
      PROVE  AgentInv'
  <2>1. \E d, x, f : Moves(s, d, x, f)
    BY <1>2, AnswerMoves, ReplyPaidMoves, GatewayMoves, WireFaultMoves, DeadSessionMoves
  <2>2. QED
    BY <2>1, MoveKeeps
<1>3. QED
  BY <1>1, <1>2 DEF ClientNext

-----------------------------------------------------------------------------
(* A step of a caller.                                                     *)

\* What r's step leaves: the receipts that waited are kept, and nothing is owed.
LEMMA CallerStep ==
  ASSUME AgentInv, NEW r \in Runners, NEW R \in RunFields, Become(r, R),
         UNCHANGED <<charged, faults>>,
         \A s \in Slots : s[1] # r => call'[s] = call[s],
         R.stage # "failed" =>
           /\ run[r].stage # "failed"
           /\ Agrees(R, call'[Positions(r)], call'[Claimable(r)], call'[Work(r)])
           /\ \A s \in {Positions(r), Claimable(r), Work(r)} :
                Got(call'[s]) = 0 /\ Owed(call'[s]) = 0
           /\ Kept(R) = Kept(run[r]) + Waits(r)
  PROVE  AgentInv'
<1>1. /\ DOMAIN run' = Runners /\ run'[r] = R
      /\ \A q \in Runners : run'[q] \in RunFields
      /\ \A q \in Runners \ {r} : run'[q] = run[q]
  BY DEF Become, AgentInv
<1>2. ASSUME NEW q \in Runners, q # r PROVE RunInv(q)'
  <2>1. /\ {Positions(q), Claimable(q), Work(q)} \subseteq Slots
        /\ Positions(q)[1] = q /\ Claimable(q)[1] = q /\ Work(q)[1] = q
    BY SlotsAre
  <2>2. /\ call'[Positions(q)] = call[Positions(q)]
        /\ call'[Claimable(q)] = call[Claimable(q)]
        /\ call'[Work(q)] = call[Work(q)]
    BY <1>2, <2>1
  <2>3. run'[q] = run[q] /\ RunInv(q)
    BY <1>1, <1>2 DEF AgentInv
  <2>4. QED
    BY <2>2, <2>3 DEF RunInv, Balanced, Agrees, Waits, Lost, Kept, Positions, Claimable, Work
<1>3. RunInv(r)'
  <2> SUFFICES ASSUME R.stage # "failed" PROVE RunInv(r)'
    BY <1>1 DEF RunInv
  <2>1. Balanced(r) /\ charged[r] \in Nat /\ faults[r] \in Nat
    BY DEF AgentInv, RunInv
  <2>2. Waits(r)' = 0 /\ Lost(r)' = 0
    <3>1. \A s \in {Positions(r), Claimable(r), Work(r)} :
            Got(call'[s]) = 0 /\ Owed(call'[s]) = 0
      OBVIOUS
    <3>2. QED
      BY <3>1 DEF Waits, Lost, Got, Owed, Positions, Claimable, Work
  <2>3. Waits(r) \in Nat /\ Lost(r) \in Nat
    BY GotIs DEF Waits, Lost
  <2>4. run[r] \in RunFields
    BY DEF AgentInv
  <2>5. Kept(run[r]) \in Nat
    BY <2>4, KeptIs
  <2>6. Kept(run[r])' = Kept(run[r]) + Waits(r)
    BY <1>1 DEF Kept
  <2>7. Balanced(r)'
    BY <2>1, <2>2, <2>3, <2>5, <2>6 DEF Balanced
  <2>8. Agrees(run[r], call[Positions(r)], call[Claimable(r)], call[Work(r)])'
    BY <1>1 DEF Agrees, Positions, Claimable, Work
  <2>9. QED
    BY <2>7, <2>8 DEF RunInv
<1>4. QED
  BY <1>1, <1>2, <1>3 DEF AgentInv

Busy == Waiting \cup {"reading"}

\* The receipts that wait, by the stage the run is at.
LEMMA WaitsAre ==
  ASSUME AgentInv, ClientInv, NEW r \in Runners, run[r].stage # "failed"
  PROVE  /\ run[r].stage \notin Busy => Waits(r) = 0
         /\ run[r].stage = "reading" => Waits(r) = ReadReceipts(r)
         /\ run[r].stage \in Waiting => Waits(r) = Receipt(Work(r))
         /\ run[r].stage \in Free => Waits(r) = 0
         /\ Receipt(Work(r)) \in Nat /\ ReadReceipts(r) \in Nat
<1>1. Agrees(run[r], call[Positions(r)], call[Claimable(r)], call[Work(r)])
  BY DEF AgentInv, RunInv
<1>2. \A s : Receipt(s) = Got(call[s]) /\ Got(call[s]) \in {0, 1}
  BY GotIs DEF Receipt, Got, Count
<1>3. Got(NoCall) = 0
  BY IdleOwesNothing
<1>4. run[r].stage \in Free => Got(call[Work(r)]) = 0
  <2> SUFFICES ASSUME run[r].stage \in Free PROVE Got(call[Work(r)]) = 0
    OBVIOUS
  <2>1. Sound(call[Work(r)])
    BY SlotsAre DEF ClientInv
  <2>2. call[Work(r)].style \in {"plain", "list"}
    BY <1>1 DEF Agrees
  <2>3. call[Work(r)].answer # "receipt"
    BY <2>1, <2>2 DEF Sound, Priced
  <2>4. QED
    BY <2>3 DEF Got, Count
<1>5. run[r].stage \notin Busy => Waits(r) = 0
  BY <1>1, <1>2, <1>3 DEF Agrees, Busy, Waits
<1>6. run[r].stage = "reading" => Waits(r) = ReadReceipts(r)
  BY <1>1, <1>2, <1>3 DEF Agrees, Waiting, Waits, ReadReceipts
<1>7. run[r].stage \in Waiting => Waits(r) = Receipt(Work(r))
  BY <1>1, <1>2, <1>3 DEF Agrees, Waiting, Waits
<1>8. Free \subseteq Waiting
  BY DEF Free, Waiting
<1>9. ReadReceipts(r) \in Nat /\ Receipt(Work(r)) \in Nat
  BY <1>2 DEF ReadReceipts
<1>10. QED
  BY <1>2, <1>4, <1>5, <1>6, <1>7, <1>8, <1>9

\* What the caller does to the client touches only its own slots.
LEMMA ThrowKeeps ==
  ASSUME AgentInv, ClientInv, NEW r \in Runners, Throw(r), Quiet \/ Heard(r)
  PROVE  AgentInv'
<1> DEFINE R == [NoRun EXCEPT !.mode = run[r].mode, !.stage = "failed"]
<1>1. run[r].mode \in Modes
  BY DEF AgentInv, RunFields
<1>2. NoRun \in RunFields
  BY DEF NoRun, RunFields, Modes, Stages
<1>3. R \in RunFields /\ R.stage = "failed"
  BY <1>1, <1>2 DEF RunFields, Stages, Final
<1>4. Become(r, R)
  BY DEF Throw
<1>5. UNCHANGED <<charged, faults>> /\ \A s \in Slots : s[1] # r => call'[s] = call[s]
  <2>1. Work(r)[1] = r
    BY SlotsAre
  <2>2. CASE Quiet
    BY <2>2 DEF Quiet, client
  <2>3. CASE Heard(r)
    BY <2>1, <2>3 DEF Heard, Take, Dropped
  <2>4. QED
    BY <2>2, <2>3
<1> HIDE DEF R
<1>6. QED
  BY <1>3, <1>4, <1>5, CallerStep

LEMMA QuietStep ==
  ASSUME AgentInv, ClientInv, NEW r \in Runners, NEW R \in RunFields, Become(r, R), Quiet,
         run[r].stage \notin Busy \cup {"failed"}, R.stage \notin Busy,
         R.stage \notin {"pages", "paging"} => R.paid = 0,
         Kept(R) = Kept(run[r])
  PROVE  AgentInv'
<1>1. Agrees(run[r], call[Positions(r)], call[Claimable(r)], call[Work(r)])
  BY DEF AgentInv, RunInv
<1>2. /\ call[Positions(r)] = NoCall /\ call[Claimable(r)] = NoCall
      /\ call[Work(r)] = NoCall
  BY <1>1 DEF Agrees, Busy
<1>3. call' = call /\ UNCHANGED <<charged, faults>>
  BY DEF Quiet, client
<1>4. Agrees(R, NoCall, NoCall, NoCall)
  BY DEF Agrees, Busy, Waiting, Free
<1>5. Kept(R) = Kept(run[r]) + Waits(r)
  <2>1. Waits(r) = 0
    <3>1. run[r].stage # "failed" /\ run[r].stage \notin Busy
      OBVIOUS
    <3>2. QED
      BY <3>1, WaitsAre
  <2>2. run[r] \in RunFields
    BY DEF AgentInv
  <2>3. Kept(run[r]) \in Nat
    BY <2>2, KeptIs
  <2>4. QED
    BY <2>1, <2>3
<1>6. \A s \in {Positions(r), Claimable(r), Work(r)} : Got(call'[s]) = 0 /\ Owed(call'[s]) = 0
  BY <1>2, <1>3, IdleOwesNothing
<1>7. Agrees(R, call'[Positions(r)], call'[Claimable(r)], call'[Work(r)])
  BY <1>2, <1>3, <1>4
<1>8. QED
  BY <1>3, <1>5, <1>6, <1>7, CallerStep

LEMMA HeardStep ==
  ASSUME AgentInv, ClientInv, NEW r \in Runners, NEW R \in RunFields, Become(r, R), Heard(r),
         run[r].stage \in Waiting, R.stage \notin Busy,
         R.stage \notin {"pages", "paging"} => R.paid = 0,
         Kept(R) = Kept(run[r]) + Waits(r)
  PROVE  AgentInv'
<1>0. run[r].stage # "failed" /\ run[r].stage # "reading"
  BY DEF Waiting
<1>1. Agrees(run[r], call[Positions(r)], call[Claimable(r)], call[Work(r)])
  BY <1>0 DEF AgentInv, RunInv
<1>2. call[Positions(r)] = NoCall /\ call[Claimable(r)] = NoCall
  BY <1>0, <1>1 DEF Agrees
<1>3. UNCHANGED <<charged, faults>> /\ \A s \in Slots : call'[s] = IF s = Work(r) THEN NoCall ELSE call[s]
  BY DEF Heard, Take, Dropped
<1>4. /\ {Positions(r), Claimable(r), Work(r)} \subseteq Slots
      /\ Positions(r) # Work(r) /\ Claimable(r) # Work(r) /\ Work(r)[1] = r
  BY SlotsAre
<1>5. /\ call'[Positions(r)] = NoCall /\ call'[Claimable(r)] = NoCall
      /\ call'[Work(r)] = NoCall
  BY <1>2, <1>3, <1>4
<1>6. Agrees(R, NoCall, NoCall, NoCall)
  BY DEF Agrees, Busy, Waiting, Free
<1>7. \A s \in {Positions(r), Claimable(r), Work(r)} : Got(call'[s]) = 0 /\ Owed(call'[s]) = 0
  BY <1>5, IdleOwesNothing
<1>8. \A s \in Slots : s[1] # r => call'[s] = call[s]
  BY <1>3, <1>4
<1>9. Agrees(R, call'[Positions(r)], call'[Claimable(r)], call'[Work(r)])
  BY <1>5, <1>6
<1>10. QED
  BY <1>0, <1>3, <1>7, <1>8, <1>9, CallerStep

LEMMA AskedOwes ==
  ASSUME NEW style \in Styles
  PROVE  LET asked == [NoCall EXCEPT !.style = style, !.phase = "asking"] IN
         Got(asked) = 0 /\ Owed(asked) = 0 /\ asked.style = style
<1> DEFINE asked == [NoCall EXCEPT !.style = style, !.phase = "asking"]
<1>1. NoCall \in Records
  BY SoundIdle DEF Sound
<1>2. /\ asked.style = style /\ asked.answer = NoCall.answer
      /\ asked.settled = NoCall.settled
  BY <1>1 DEF Records
<1>3. NoCall.answer = "none" /\ NoCall.settled = FALSE
  BY DEF NoCall
<1> HIDE DEF asked
<1>4. Got(asked) = 0 /\ Owed(asked) = 0
  BY <1>2, <1>3 DEF Got, Owed, Count
<1>5. QED
  BY <1>2, <1>4 DEF asked

LEMMA AskStep ==
  ASSUME AgentInv, ClientInv, NEW r \in Runners, NEW R \in RunFields, Become(r, R),
         NEW style \in Styles, Ask(r, style), run[r].stage # "failed",
         R.stage \in Waiting, R.stage \in Free => style \in {"plain", "list"},
         R.stage \notin {"pages", "paging"} => R.paid = 0,
         R.stage = "calling" => R.todo # <<>>,
         Kept(R) = Kept(run[r]) + Waits(r)
  PROVE  AgentInv'
<1> DEFINE asked == [NoCall EXCEPT !.style = style, !.phase = "asking"]
<1>1. Got(asked) = 0 /\ Owed(asked) = 0 /\ asked.style = style
  BY AskedOwes
<1>2. /\ UNCHANGED <<charged, faults>>
      /\ call' = [s \in Slots |->
                   IF \E i \in DOMAIN <<Work(r)>> : <<Work(r)>>[i] = s THEN asked
                   ELSE Dropped({Positions(r), Claimable(r)})[s]]
  BY DEF Ask, Issue
<1> HIDE DEF asked
<1>3. \A s \in Slots : (\E i \in DOMAIN <<Work(r)>> : <<Work(r)>>[i] = s) <=> s = Work(r)
  OBVIOUS
<1>4. \A s \in Slots :
        call'[s] = IF s = Work(r) THEN asked
                   ELSE IF s \in {Positions(r), Claimable(r)} THEN NoCall ELSE call[s]
  BY <1>2, <1>3 DEF Dropped
<1>5. /\ {Positions(r), Claimable(r), Work(r)} \subseteq Slots
      /\ Positions(r) # Work(r) /\ Claimable(r) # Work(r)
      /\ Positions(r)[1] = r /\ Claimable(r)[1] = r /\ Work(r)[1] = r
  BY SlotsAre
<1>6. /\ call'[Positions(r)] = NoCall /\ call'[Claimable(r)] = NoCall
      /\ call'[Work(r)] = asked
  BY <1>4, <1>5
<1>7. Agrees(R, NoCall, NoCall, asked)
  BY <1>1 DEF Agrees
<1>8. \A s \in {Positions(r), Claimable(r), Work(r)} : Got(call'[s]) = 0 /\ Owed(call'[s]) = 0
  BY <1>1, <1>6, IdleOwesNothing
<1>9. \A s \in Slots : s[1] # r => call'[s] = call[s]
  BY <1>4, <1>5
<1>10. Agrees(R, call'[Positions(r)], call'[Claimable(r)], call'[Work(r)])
  BY <1>6, <1>7
<1>11. QED
  BY <1>2, <1>8, <1>9, <1>10, CallerStep

LEMMA StartReadStep ==
  ASSUME AgentInv, ClientInv, NEW r \in Runners, StartRead(r), run[r].stage # "failed",
         run[r].paid = 0, Waits(r) = 0
  PROVE  AgentInv'
<1> DEFINE asked == [NoCall EXCEPT !.style = "managed", !.phase = "asking"]
           R == In(run[r], "reading")
<1>1. Got(asked) = 0 /\ Owed(asked) = 0
  BY AskedOwes DEF Styles
<1>2. /\ UNCHANGED <<charged, faults>>
      /\ call' = [s \in Slots |->
                   IF \E i \in DOMAIN <<Positions(r), Claimable(r)>> :
                        <<Positions(r), Claimable(r)>>[i] = s THEN asked
                   ELSE Dropped({Work(r)})[s]]
  BY DEF StartRead, Issue
<1> HIDE DEF asked
<1>3. \A s \in Slots : (\E i \in DOMAIN <<Positions(r), Claimable(r)>> :
                          <<Positions(r), Claimable(r)>>[i] = s)
                      <=> s \in {Positions(r), Claimable(r)}
  <2>1. DOMAIN <<Positions(r), Claimable(r)>> = {1, 2}
    OBVIOUS
  <2>2. QED
    BY <2>1
<1>4. \A s \in Slots :
        call'[s] = IF s \in {Positions(r), Claimable(r)} THEN asked
                   ELSE IF s = Work(r) THEN NoCall ELSE call[s]
  BY <1>2, <1>3 DEF Dropped
<1>5. /\ {Positions(r), Claimable(r), Work(r)} \subseteq Slots
      /\ Positions(r) # Work(r) /\ Claimable(r) # Work(r)
      /\ Positions(r)[1] = r /\ Claimable(r)[1] = r /\ Work(r)[1] = r
  BY SlotsAre
<1>6. /\ call'[Positions(r)] = asked /\ call'[Claimable(r)] = asked
      /\ call'[Work(r)] = NoCall
  BY <1>4, <1>5
<1>7. run[r] \in RunFields
  BY DEF AgentInv
<1>8. /\ R \in RunFields /\ R.stage = "reading" /\ R.paid = run[r].paid
      /\ R.payments = run[r].payments /\ R.unseen = run[r].unseen
  BY <1>7 DEF RunFields, In, Stages
<1>9. Become(r, R)
  BY DEF StartRead
<1> HIDE DEF R
<1>10. Agrees(R, asked, asked, NoCall)
  BY <1>8 DEF Agrees, Free, Waiting
<1>11. Kept(R) = Kept(run[r]) + Waits(r)
  BY <1>7, <1>8 DEF Kept, RunFields
<1>12. \A s \in {Positions(r), Claimable(r), Work(r)} : Got(call'[s]) = 0 /\ Owed(call'[s]) = 0
  BY <1>1, <1>6, IdleOwesNothing
<1>13. \A s \in Slots : s[1] # r => call'[s] = call[s]
  BY <1>4, <1>5
<1>14. Agrees(R, call'[Positions(r)], call'[Claimable(r)], call'[Work(r)])
  BY <1>6, <1>10
<1>15. QED
  BY <1>2, <1>8, <1>9, <1>11, <1>12, <1>13, <1>14, CallerStep

-----------------------------------------------------------------------------
(* The records a run goes through.                                         *)

\* R is at this stage and keeps what Q keeps, and n receipts more.
Grown(Q, R, stage, n) ==
    /\ R \in RunFields /\ R.stage = stage
    /\ R.paid = Q.paid /\ R.unseen = Q.unseen /\ R.payments = Q.payments + n
    /\ R.todo = Q.todo /\ R.left = Q.left /\ R.calls = Q.calls
    /\ R.researched = Q.researched /\ R.found = Q.found /\ R.mode = Q.mode

LEMMA InGrows ==
  ASSUME NEW Q \in RunFields, NEW stage \in Stages
  PROVE  Grown(Q, In(Q, stage), stage, 0)
<1>1. Q.payments \in Nat
  BY DEF RunFields
<1>2. QED
  BY <1>1 DEF Grown, In, RunFields

LEMMA PaidGrows ==
  ASSUME NEW Q \in RunFields, NEW stage \in Stages, NEW n \in Nat
  PROVE  Grown(Q, In(Paid(Q, n), stage), stage, n)
<1>1. Q.payments \in Nat
  BY DEF RunFields
<1>2. Grown(Q, Paid(Q, n), Q.stage, n)
  BY <1>1 DEF Grown, Paid, RunFields
<1> DEFINE P == Paid(Q, n)
<1>3. P \in RunFields
  BY <1>2 DEF Grown
<1> HIDE DEF P
<1>4. Grown(P, In(P, stage), stage, 0)
  BY <1>3, InGrows
<1>5. In(P, stage).payments = Q.payments + n
  BY <1>1, <1>2, <1>4 DEF Grown, P
<1>6. QED
  BY <1>2, <1>4, <1>5 DEF Grown, P

LEMMA LeftKeeps ==
  ASSUME NEW Q \in RunFields, NEW R, NEW stage, NEW n, Grown(Q, R, stage, n), NEW m \in Nat
  PROVE  LET L == [R EXCEPT !.left = m] IN
         /\ L \in RunFields /\ L.stage = stage /\ L.paid = Q.paid
         /\ L.unseen = Q.unseen /\ L.payments = Q.payments + n
         /\ L.researched = Q.researched
  BY DEF Grown, RunFields

LEMMA KeptGrows ==
  ASSUME NEW Q \in RunFields, NEW R \in RunFields, NEW n \in Nat,
         R.paid = Q.paid, R.unseen = Q.unseen, R.payments = Q.payments + n
  PROVE  Kept(R) = Kept(Q) + n
<1>1. Q.paid \in Nat /\ Q.unseen \in Nat /\ Q.payments \in Nat
  BY DEF RunFields
<1>2. QED
  BY <1>1 DEF Kept

-----------------------------------------------------------------------------
(* Every action of a caller.                                               *)

\* What the invariant says of a run that has not failed.
LEMMA RunIs ==
  ASSUME AgentInv, NEW r \in Runners
  PROVE  /\ run[r] \in RunFields
         /\ run[r].stage \notin {"failed", "pages", "paging"} => run[r].paid = 0
         /\ run[r].stage = "calling" => run[r].todo # <<>>
<1>1. run[r].stage # "failed" =>
        Agrees(run[r], call[Positions(r)], call[Claimable(r)], call[Work(r)])
  BY DEF AgentInv, RunInv
<1>2. run[r] \in RunFields
  BY DEF AgentInv
<1>3. QED
  BY <1>1, <1>2 DEF Agrees

\* The steps that only start a call, or a read.
LEMMA AsksKeep ==
  ASSUME AgentInv, ClientInv, NEW r \in Runners,
         \/ BeginAgent(r) \/ BeginProbe(r) \/ CallTool(r) \/ Search(r) \/ Page(r)
  PROVE  AgentInv'
<1>1. /\ run[r] \in RunFields /\ run[r].stage \in {"idle", "tools", "search", "pages"}
      /\ run[r].stage # "pages" => run[r].paid = 0
  BY RunIs DEF BeginAgent, BeginProbe, CallTool, Search, Page, At
<1>2. run[r].stage # "failed" /\ Waits(r) = 0
  <2>1. run[r].stage # "failed" /\ run[r].stage \notin Busy
    BY <1>1 DEF Busy, Waiting
  <2>2. QED
    BY <2>1, WaitsAre
<1>3. Kept(run[r]) \in Nat
  BY <1>1, KeptIs
<1>4. CASE BeginAgent(r) \/ BeginProbe(r) \/ CallTool(r)
  <2>1. PICK stage \in {"listing", "probing", "calling"}, style \in {"list", "managed"} :
          /\ Ask(r, style) /\ Become(r, In(run[r], stage))
          /\ stage = "calling" => run[r].todo # <<>>
          /\ stage # "calling" => style = "list"
          /\ run[r].stage # "pages"
    BY <1>4 DEF BeginAgent, BeginProbe, CallTool, At
  <2> DEFINE R == In(run[r], stage)
  <2>2. Grown(run[r], R, stage, 0)
    BY <1>1, InGrows DEF Stages
  <2>3. Become(r, R)
    BY <2>1
  <2> HIDE DEF R
  <2>4. /\ R \in RunFields /\ R.stage = stage /\ R.paid = 0 /\ R.todo = run[r].todo
    BY <1>1, <2>1, <2>2 DEF Grown
  <2>5. Kept(R) = Kept(run[r]) + Waits(r)
    BY <1>1, <1>2, <2>2, KeptGrows DEF Grown
  <2>6. /\ R.stage \in Waiting /\ style \in Styles
        /\ R.stage \in Free => style \in {"plain", "list"}
        /\ R.stage = "calling" => R.todo # <<>>
    BY <2>1, <2>4 DEF Waiting, Styles, Free
  <2>7. QED
    BY <1>2, <2>1, <2>3, <2>4, <2>5, <2>6, AskStep
<1>5. CASE Search(r) \/ Page(r)
  <2>1. PICK stage \in {"searching", "paging"} :
          /\ Ask(r, "managed")
          /\ Become(r, [In(run[r], stage) EXCEPT !.left = @ - 1])
          /\ run[r].left > 0
          /\ stage = "searching" => run[r].stage = "search"
    BY <1>5 DEF Search, Page, At
  <2> DEFINE Q == In(run[r], stage)
             R == [Q EXCEPT !.left = Q.left - 1]
  <2>2. Grown(run[r], Q, stage, 0)
    BY <1>1, InGrows DEF Stages
  <2>3. Become(r, R)
    BY <2>1
  <2> HIDE DEF Q
  <2>4. Q.left - 1 \in Nat
    BY <1>1, <2>1, <2>2 DEF Grown, RunFields
  <2>5. /\ R \in RunFields /\ R.stage = stage /\ R.paid = run[r].paid
        /\ R.unseen = run[r].unseen /\ R.payments = run[r].payments + 0
    BY <1>1, <2>2, <2>4, LeftKeeps
  <2> HIDE DEF R
  <2>6. Kept(R) = Kept(run[r]) + Waits(r)
    BY <1>1, <1>2, <2>5, KeptGrows
  <2>7. /\ R.stage \in Waiting /\ R.stage \notin Free /\ "managed" \in Styles
        /\ R.stage # "calling"
        /\ R.stage \notin {"pages", "paging"} => R.paid = 0
    BY <1>1, <2>1, <2>5 DEF Waiting, Styles, Free
  <2>8. QED
    BY <1>2, <2>1, <2>3, <2>5, <2>6, <2>7, AskStep
<1>6. QED
  BY <1>4, <1>5 DEF BeginAgent, BeginProbe, CallTool, Search, Page

\* The steps that take an answer and ask for the next thing.
LEMMA ChainsKeep ==
  ASSUME AgentInv, ClientInv, NEW r \in Runners,
         \/ ReadArrives(r) \/ PersonalizedArrives(r)
         \/ At(r, "pricing") /\ Ask(r, "catalog") /\ Become(r, In(run[r], "personalized"))
  PROVE  AgentInv'
<1>1. /\ run[r] \in RunFields /\ run[r].stage \in {"reading", "personalized", "pricing"}
      /\ run[r].paid = 0
  BY RunIs DEF ReadArrives, PersonalizedArrives, Arrived, At
<1>2. run[r].stage # "failed"
  BY <1>1
<1>3. /\ run[r].stage = "reading" => Waits(r) = ReadReceipts(r)
      /\ run[r].stage = "personalized" => Waits(r) = Receipt(Work(r))
      /\ run[r].stage = "pricing" => Waits(r) = 0
      /\ Waits(r) \in Nat
  BY <1>1, <1>2, WaitsAre DEF Waiting, Free
<1>4. ASSUME NEW stage \in {"pricing", "listed", "personalized"}, NEW style \in {"plain", "catalog"},
             NEW R, Ask(r, style), Become(r, R), Grown(run[r], R, stage, Waits(r)),
             stage = "pricing" => style = "plain"
      PROVE  AgentInv'
  <2>1. R \in RunFields /\ R.stage = stage /\ R.paid = 0
    BY <1>1, <1>4 DEF Grown
  <2>2. Kept(R) = Kept(run[r]) + Waits(r)
    BY <1>1, <1>3, <1>4, <2>1, KeptGrows DEF Grown
  <2>3. /\ R.stage \in Waiting /\ style \in Styles /\ R.stage # "calling"
        /\ R.stage \in Free => style \in {"plain", "list"}
    BY <1>4, <2>1 DEF Waiting, Styles, Free
  <2>4. QED
    BY <1>2, <1>4, <2>1, <2>2, <2>3, AskStep
<1>5. \A stage \in Stages : /\ Grown(run[r], In(Paid(run[r], Waits(r)), stage), stage, Waits(r))
                            /\ Grown(run[r], In(run[r], stage), stage, 0)
  BY <1>1, <1>3, InGrows, PaidGrows
<1>6. {"pricing", "listed", "personalized"} \subseteq Stages
  BY DEF Stages
<1>7. CASE ReadArrives(r)
  <2>1. Ask(r, "plain") /\ Become(r, In(Paid(run[r], Waits(r)), "pricing"))
    BY <1>3, <1>7 DEF ReadArrives, At
  <2>2. QED
    BY <1>4, <1>5, <1>6, <2>1
<1>8. CASE PersonalizedArrives(r)
  <2>1. Ask(r, "catalog") /\ Become(r, In(Paid(run[r], Waits(r)), "listed"))
    BY <1>3, <1>8 DEF PersonalizedArrives, Arrived, At
  <2>2. QED
    BY <1>4, <1>5, <1>6, <2>1
<1>9. CASE At(r, "pricing") /\ Ask(r, "catalog") /\ Become(r, In(run[r], "personalized"))
  <2>1. Waits(r) = 0
    BY <1>3, <1>9 DEF At
  <2>2. QED
    BY <1>4, <1>5, <1>6, <1>9, <2>1
<1>10. QED
  BY <1>7, <1>8, <1>9

\* The steps that take an answer and ask for nothing.
LEMMA HeardsKeep ==
  ASSUME AgentInv, ClientInv, NEW r \in Runners,
         \/ ProbeReplied(r) \/ ListArrives(r) \/ SearchReplied(r)
         \/ PageArrives(r) \/ ToolReplied(r)
         \/ PricesArrive(r) /\ Heard(r)
  PROVE  AgentInv'
<1> DEFINE Q == run[r]
           n == Waits(r)
<1>1. /\ Q \in RunFields /\ Q.stage \in Waiting
      /\ Q.stage \in {"probing", "listed", "searching", "paging", "calling", "pricing"}
      /\ Q.stage # "paging" => Q.paid = 0
      /\ Q.stage = "calling" => Q.todo # <<>>
  BY RunIs DEF ProbeReplied, ListArrives, SearchReplied, PageArrives, ToolReplied,
               PricesArrive, Arrived, At, Waiting
<1>2. /\ n = Receipt(Work(r)) /\ n \in Nat
      /\ Q.stage \in {"probing", "pricing"} => n = 0
  <2>1. Q.stage # "failed"
    BY <1>1
  <2>2. QED
    BY <1>1, <2>1, WaitsAre DEF Free
<1>3. Heard(r)
  BY DEF ProbeReplied, ListArrives, SearchReplied, PageArrives, ToolReplied
<1>4. ASSUME NEW R \in RunFields, Become(r, R), Kept(R) = Kept(Q) + n,
             R.stage \in {"read", "search", "pages", "tools"},
             R.stage # "pages" => R.paid = 0
      PROVE  AgentInv'
  <2>1. R.stage \notin Busy
    BY <1>4 DEF Busy, Waiting
  <2>2. QED
    BY <1>1, <1>3, <1>4, <2>1, HeardStep
<1>5. \A stage \in {"read", "search", "pages", "tools"} :
        /\ Grown(Q, In(Paid(Q, n), stage), stage, n)
        /\ Grown(Q, In(Q, stage), stage, 0)
  <2>1. {"read", "search", "pages", "tools"} \subseteq Stages
    BY DEF Stages, Final
  <2>2. QED
    BY <1>1, <1>2, <2>1, InGrows, PaidGrows
<1>6. 0..MaxSearches \subseteq Nat /\ 0..MaxPages \subseteq Nat
  OBVIOUS
<1> HIDE DEF n
<1>7. CASE ProbeReplied(r) \/ (PricesArrive(r) /\ Become(r, In(Q, "read")))
  <2> DEFINE R == In(Q, "read")
  <2>1. Become(r, R) /\ Q.stage \in {"probing", "pricing"}
    BY <1>7 DEF ProbeReplied, PricesArrive, Arrived, At
  <2>2. Grown(Q, R, "read", 0)
    BY <1>5
  <2> HIDE DEF R, Q
  <2>3. R \in RunFields /\ R.stage = "read" /\ R.paid = 0 /\ Kept(R) = Kept(Q) + n
    BY <1>1, <1>2, <2>1, <2>2, KeptGrows DEF Grown
  <2>4. QED
    BY <1>4, <2>1, <2>3
<1>8. CASE ListArrives(r) \/ (PricesArrive(r) /\ \E m \in 0..MaxSearches :
                                Become(r, [In(Q, "search") EXCEPT !.left = m]))
  <2>1. PICK m \in Nat :
          \/ Become(r, [In(Paid(Q, n), "search") EXCEPT !.left = m]) /\ Q.stage = "listed"
          \/ Become(r, [In(Q, "search") EXCEPT !.left = m]) /\ Q.stage = "pricing"
    BY <1>2, <1>6, <1>8 DEF ListArrives, PricesArrive, Arrived, At
  <2>2. PICK P : /\ Grown(Q, P, "search", n) /\ Become(r, [P EXCEPT !.left = m])
                 /\ Q.stage # "paging"
    BY <1>2, <1>5, <2>1
  <2> DEFINE R == [P EXCEPT !.left = m]
  <2>3. /\ R \in RunFields /\ R.stage = "search" /\ R.paid = Q.paid
        /\ R.unseen = Q.unseen /\ R.payments = Q.payments + n
    BY <1>1, <2>2, LeftKeeps
  <2>4. Become(r, R)
    BY <2>2
  <2> HIDE DEF R, Q
  <2>5. R.paid = 0 /\ Kept(R) = Kept(Q) + n
    BY <1>1, <1>2, <2>2, <2>3, KeptGrows
  <2>6. QED
    BY <1>4, <2>3, <2>4, <2>5
<1>9. CASE SearchReplied(r)
  <2> DEFINE P == In(Paid(Q, n), "search")
             R == [P EXCEPT !.researched = P.researched \/ Succeeded(Work(r))]
  <2>1. Grown(Q, P, "search", n)
    BY <1>5
  <2>2. Become(r, R) /\ Q.stage = "searching"
    BY <1>2, <1>9 DEF SearchReplied, At
  <2> HIDE DEF P
  <2>3. /\ R \in RunFields /\ R.stage = "search" /\ R.paid = Q.paid
        /\ R.unseen = Q.unseen /\ R.payments = Q.payments + n
    BY <2>1 DEF Grown, RunFields
  <2> HIDE DEF R, Q
  <2>4. R.paid = 0 /\ Kept(R) = Kept(Q) + n
    BY <1>1, <1>2, <2>2, <2>3, KeptGrows
  <2>5. QED
    BY <1>4, <2>2, <2>3, <2>4
<1>10. CASE PageArrives(r)
  <2> DEFINE P == In(Q, "pages")
  <2>1. Grown(Q, P, "pages", 0)
    BY <1>5
  <2>2. PICK hit \in BOOLEAN, m \in {0, Q.left} :
          Become(r, [P EXCEPT !.left = m, !.found = @ \/ hit, !.paid = @ + n])
    BY <1>2, <1>10 DEF PageArrives
  <2> DEFINE R == [P EXCEPT !.left = m, !.found = @ \/ hit, !.paid = @ + n]
  <2>3. m \in Nat /\ P.paid + n \in Nat /\ Q.payments \in Nat /\ P \in RunFields
    BY <1>1, <1>2, <2>1 DEF Grown, RunFields
  <2>4. Become(r, R)
    BY <2>2
  <2> HIDE DEF P
  <2>5. /\ R \in RunFields /\ R.stage = P.stage /\ R.paid = P.paid + n
        /\ R.unseen = P.unseen /\ R.payments = P.payments
    BY <2>3 DEF RunFields
  <2> HIDE DEF R, Q
  <2>6. R.stage = "pages" /\ Kept(R) = Kept(Q) + n
    <3>1. Q.paid \in Nat /\ Q.unseen \in Nat /\ Q.payments \in Nat
      BY <1>1 DEF RunFields
    <3>2. /\ R.paid = Q.paid + n /\ R.unseen = Q.unseen /\ R.payments = Q.payments
          /\ R.stage = "pages"
      BY <2>1, <2>5, <3>1 DEF Grown
    <3>3. QED
      BY <1>2, <3>1, <3>2 DEF Kept
  <2>7. QED
    BY <1>4, <2>4, <2>5, <2>6
<1>11. CASE ToolReplied(r)
  <2> DEFINE P == In(Paid(Q, n), "tools")
             more == Head(Q.todo) \in ResearchTools
             R == [P EXCEPT !.todo = Tail(@), !.researched = @ \/ more]
  <2>1. Grown(Q, P, "tools", n)
    BY <1>5
  <2>2. Become(r, R) /\ Q.stage = "calling"
    BY <1>2, <1>11 DEF ToolReplied, At
  <2> HIDE DEF P, more
  <2>3. Tail(P.todo) \in Seq(Kinds) /\ P \in RunFields
    <3>1. P.todo \in Seq(Kinds) /\ P.todo # <<>> /\ P \in RunFields
      BY <1>1, <2>1, <2>2 DEF Grown, RunFields
    <3>2. QED
      BY <3>1
  <2>4. more \in BOOLEAN
    BY DEF more
  <2>5. /\ R \in RunFields /\ R.stage = P.stage /\ R.paid = P.paid
        /\ R.unseen = P.unseen /\ R.payments = P.payments
    BY <2>3, <2>4 DEF RunFields
  <2> HIDE DEF R, Q
  <2>6. R.stage = "tools" /\ R.paid = 0 /\ Kept(R) = Kept(Q) + n
    BY <1>1, <1>2, <2>1, <2>2, <2>5, KeptGrows DEF Grown
  <2>7. QED
    BY <1>4, <2>2, <2>5, <2>6
<1>12. CASE PricesArrive(r) /\ Heard(r) /\ ~Ask(r, "catalog")
  BY <1>7, <1>8, <1>12 DEF PricesArrive
<1>13. ~(Heard(r) /\ Ask(r, "catalog"))
  <2>1. Work(r) \in Slots
    BY SlotsAre
  <2>2. Heard(r) => call'[Work(r)].phase = "idle"
    BY <2>1 DEF Heard, Take, Dropped, NoCall
  <2>3. Ask(r, "catalog") => call'[Work(r)].phase = "asking"
    <3>1. \E i \in DOMAIN <<Work(r)>> : <<Work(r)>>[i] = Work(r)
      <4>1. 1 \in DOMAIN <<Work(r)>> /\ <<Work(r)>>[1] = Work(r)
        OBVIOUS
      <4>2. QED
        BY <4>1
    <3>2. NoCall \in Records
      BY SoundIdle DEF Sound
    <3>3. [NoCall EXCEPT !.style = "catalog", !.phase = "asking"].phase = "asking"
      BY <3>2 DEF Records
    <3>4. QED
      BY <2>1, <3>1, <3>3 DEF Ask, Issue
  <2>4. QED
    BY <2>2, <2>3
<1>14. QED
  BY <1>7, <1>8, <1>9, <1>10, <1>11, <1>12, <1>13

\* The steps that leave the client alone.
LEMMA QuietsKeep ==
  ASSUME AgentInv, ClientInv, NEW r \in Runners, ~Throw(r),
         \/ SearchesDone(r) \/ PagesDone(r) \/ ModelCalls(r) \/ RefuseTool(r)
         \/ TurnEnds(r) \/ ModelPlans(r) \/ Repair(r)
  PROVE  AgentInv'
<1> DEFINE Q == run[r]
           Ends == {"thinking", "tools", "pages", "planned", "repairing", "reported"}
<1>1. /\ Q \in RunFields
      /\ Q.stage \in {"search", "pages", "thinking", "tools", "repairing"}
      /\ Q.stage # "pages" => Q.paid = 0
  BY RunIs DEF SearchesDone, PagesDone, ModelCalls, RefuseTool, TurnEnds, ModelPlans,
               Repair, At
<1>2. Quiet
  BY DEF SearchesDone, PagesDone, ModelCalls, RefuseTool, TurnEnds, ModelPlans, Repair
<1>3. ASSUME NEW R \in RunFields, Become(r, R), Kept(R) = Kept(Q), R.stage \in Ends,
             R.stage # "pages" => R.paid = 0
      PROVE  AgentInv'
  <2>1. R.stage \notin Busy /\ Q.stage \notin Busy \cup {"failed"}
    BY <1>1, <1>3 DEF Busy, Waiting
  <2>2. QED
    BY <1>1, <1>2, <1>3, <2>1, QuietStep
<1>4. Ends \subseteq Stages
  BY DEF Stages, Final
<1>5. ASSUME NEW P \in RunFields, P.paid = Q.paid, P.unseen = Q.unseen, P.payments = Q.payments
      PROVE  Kept(P) = Kept(Q)
  BY <1>5 DEF Kept
<1>6. \A stage \in Ends :
        LET P == In(Q, stage) IN
        /\ Grown(Q, P, stage, 0) /\ P \in RunFields /\ P.stage = stage
        /\ P.paid = Q.paid /\ P.unseen = Q.unseen /\ P.payments = Q.payments
  <2> TAKE stage \in Ends
  <2>1. Grown(Q, In(Q, stage), stage, 0)
    BY <1>1, <1>4, InGrows
  <2>2. Q.payments \in Nat
    BY <1>1 DEF RunFields
  <2>3. QED
    BY <2>1, <2>2 DEF Grown
<1> HIDE DEF Ends
<1>7. ASSUME NEW stage \in Ends, Become(r, In(Q, stage)), Q.stage # "pages"
      PROVE  AgentInv'
  BY <1>1, <1>3, <1>5, <1>6, <1>7
<1>8. ASSUME NEW stage \in Ends, NEW m \in Nat, Q.stage # "pages",
             Become(r, [In(Q, stage) EXCEPT !.left = m])
      PROVE  AgentInv'
  <2> DEFINE R == [In(Q, stage) EXCEPT !.left = m]
  <2>1. /\ R \in RunFields /\ R.stage = stage /\ R.paid = Q.paid
        /\ R.unseen = Q.unseen /\ R.payments = Q.payments + 0
    BY <1>1, <1>6, LeftKeeps
  <2>2. Q.payments \in Nat
    BY <1>1 DEF RunFields
  <2>3. Become(r, R)
    BY <1>8
  <2> HIDE DEF R, Q
  <2>4. R.payments = Q.payments
    BY <2>1, <2>2
  <2>5. QED
    BY <1>1, <1>3, <1>5, <1>8, <2>1, <2>3, <2>4
<1>9. CASE SearchesDone(r)
  <2>1. Q.stage = "search"
    BY <1>9 DEF SearchesDone, At
  <2>2. {"thinking", "pages"} \subseteq Ends /\ 0..MaxPages \subseteq Nat
    BY DEF Ends
  <2>3. QED
    BY <1>7, <1>8, <1>9, <2>1, <2>2 DEF SearchesDone
<1>10. CASE TurnEnds(r)
  <2>1. "thinking" \in Ends /\ Q.stage = "tools"
    BY <1>10 DEF Ends, TurnEnds, At
  <2>2. QED
    BY <1>7, <1>10, <2>1 DEF TurnEnds
<1>11. CASE ModelPlans(r) \/ Repair(r)
  <2>1. Q.stage \in {"thinking", "repairing"}
    BY <1>11 DEF ModelPlans, Repair, At
  <2>2. {"planned", "pages", "repairing", "reported"} \subseteq Ends /\ 0..MaxPages \subseteq Nat
    BY DEF Ends
  <2>3. PlanRead(r) => AgentInv'
    BY <1>7, <1>8, <2>1, <2>2 DEF PlanRead
  <2>4. Become(r, In(Q, "repairing")) \/ Become(r, In(Q, "reported")) => AgentInv'
    BY <1>7, <2>1, <2>2
  <2>5. QED
    BY <1>11, <2>3, <2>4 DEF ModelPlans, Repair
<1>12. CASE RefuseTool(r)
  <2> DEFINE R == [Q EXCEPT !.todo = Tail(@)]
  <2>1. Q.stage = "tools" /\ Q.todo # <<>> /\ Become(r, R)
    BY <1>12 DEF RefuseTool, At
  <2>2. Q.todo \in Seq(Kinds)
    BY <1>1 DEF RunFields
  <2>3. Tail(Q.todo) \in Seq(Kinds)
    BY <2>1, <2>2
  <2> HIDE DEF Q
  <2>4. /\ R \in RunFields /\ R.stage = Q.stage /\ R.paid = Q.paid
        /\ R.unseen = Q.unseen /\ R.payments = Q.payments
    BY <1>1, <2>3 DEF RunFields
  <2>5. "tools" \in Ends
    BY DEF Ends
  <2> HIDE DEF R
  <2>6. QED
    BY <1>1, <1>3, <1>5, <2>1, <2>4, <2>5
<1>13. CASE ModelCalls(r)
  <2> DEFINE P == In(Q, "tools")
  <2>1. PICK turn \in Turns :
          Become(r, [P EXCEPT !.calls = @ + Len(turn), !.todo = turn])
    BY <1>13 DEF ModelCalls
  <2> DEFINE R == [P EXCEPT !.calls = @ + Len(turn), !.todo = turn]
  <2>2. turn \in Seq(Kinds) /\ Len(turn) \in Nat
    <3>1. PICK n \in 1..MaxTurn : turn \in [1..n -> Kinds]
      BY DEF Turns
    <3>2. n \in Nat
      OBVIOUS
    <3>3. turn \in Seq(Kinds)
      BY <3>1, <3>2
    <3>4. QED
      BY <3>3
  <2>3. /\ P \in RunFields /\ P.stage = "tools"
        /\ P.paid = Q.paid /\ P.unseen = Q.unseen /\ P.payments = Q.payments
    BY <1>6 DEF Ends
  <2>4. Q.stage = "thinking" /\ Become(r, R)
    BY <1>13, <2>1 DEF ModelCalls, At
  <2> HIDE DEF P, Q
  <2>5. P.calls + Len(turn) \in Nat
    BY <2>2, <2>3 DEF RunFields
  <2>6. /\ R \in RunFields /\ R.stage = P.stage /\ R.paid = P.paid
        /\ R.unseen = P.unseen /\ R.payments = P.payments
    BY <2>2, <2>3, <2>5 DEF RunFields
  <2>7. "tools" \in Ends
    BY DEF Ends
  <2> HIDE DEF R
  <2>8. QED
    BY <1>1, <1>3, <1>5, <2>3, <2>4, <2>6, <2>7
<1>14. CASE PagesDone(r)
  <2> DEFINE P == IF KeepsReceipts(Q)
                  THEN [Paid(Q, Q.paid) EXCEPT !.paid = 0]
                  ELSE [Q EXCEPT !.unseen = @ + Q.paid, !.paid = 0]
  <2>1. Q.paid \in Nat /\ Q.payments \in Nat /\ Q.unseen \in Nat
    BY <1>1 DEF RunFields
  <2>2. P \in RunFields /\ P.paid = 0
        /\ P.unseen + P.payments = Q.unseen + Q.payments + Q.paid
        /\ P.unseen \in Nat /\ P.payments \in Nat
    <3>1. CASE KeepsReceipts(Q)
      <4> DEFINE A == Paid(Q, Q.paid)
                 B == [A EXCEPT !.paid = 0]
      <4>1. A \in RunFields /\ A.payments = Q.payments + Q.paid /\ A.unseen = Q.unseen
        BY <1>1, <2>1 DEF Paid, RunFields
      <4> HIDE DEF A
      <4>2. B \in RunFields /\ B.paid = 0 /\ B.payments = A.payments /\ B.unseen = A.unseen
        BY <4>1 DEF RunFields
      <4>3. P = B
        BY <3>1 DEF A
      <4> HIDE DEF B, P
      <4>4. QED
        BY <2>1, <4>1, <4>2, <4>3
    <3>2. CASE ~KeepsReceipts(Q)
      <4> DEFINE B == [Q EXCEPT !.unseen = @ + Q.paid, !.paid = 0]
      <4> HIDE DEF Q
      <4>1. Q.unseen + Q.paid \in Nat
        BY <2>1
      <4>2. /\ B \in RunFields /\ B.paid = 0 /\ B.payments = Q.payments
            /\ B.unseen = Q.unseen + Q.paid
        BY <1>1, <4>1 DEF RunFields
      <4>3. P = B
        BY <3>2
      <4> HIDE DEF B, P
      <4>4. QED
        BY <2>1, <4>2, <4>3
    <3>3. QED
      BY <3>1, <3>2
  <2>3. PICK stage \in {"planned", "thinking"} : Become(r, In(P, stage))
    BY <1>14 DEF PagesDone
  <2>4. stage \in Ends /\ stage \in Stages
    BY <1>4 DEF Ends
  <2> HIDE DEF P, Q
  <2> DEFINE R == In(P, stage)
  <2>5. Grown(P, R, stage, 0)
    BY <2>2, <2>4, InGrows
  <2> HIDE DEF R
  <2>6. /\ R \in RunFields /\ R.stage = stage /\ R.paid = 0
        /\ R.unseen = P.unseen /\ R.payments = P.payments
    BY <2>2, <2>5 DEF Grown
  <2>7. Kept(R) = Kept(Q)
    BY <2>1, <2>2, <2>6 DEF Kept
  <2>8. Become(r, R)
    BY <2>3 DEF R
  <2>9. QED
    BY <1>3, <2>4, <2>6, <2>7, <2>8
<1>15. QED
  BY <1>9, <1>10, <1>11, <1>12, <1>13, <1>14

LEMMA CallerKeepsBalance ==
  ASSUME AgentInv, ClientInv, NEW r \in Runners,
         BeginAgent(r) \/ BeginRead(r) \/ BeginProbe(r) \/ AccountFails(r) \/ Answer(r)
  PROVE  AgentInv'
<1>1. CASE Throw(r)
  <2>1. CASE Quiet \/ Heard(r)
    BY <1>1, <2>1, ThrowKeeps
  <2>2. CASE ~(Quiet \/ Heard(r))
    <3>1. \A R : Become(r, R) /\ Throw(r) => R.stage = "failed"
      <4> TAKE R
      <4> SUFFICES ASSUME Become(r, R), Throw(r) PROVE R.stage = "failed"
        OBVIOUS
      <4>1. run'[r] = R
        BY DEF Become, AgentInv
      <4>2. run'[r] = [NoRun EXCEPT !.mode = run[r].mode, !.stage = "failed"]
        BY DEF Throw, Become, AgentInv
      <4>3. NoRun \in RunFields
        BY DEF NoRun, RunFields, Modes, Stages
      <4>4. QED
        BY <4>1, <4>2, <4>3 DEF RunFields
    <3>2. StartRead(r) => FALSE
      <4>1. In(run[r], "reading").stage = "reading"
        BY RunIs DEF In, RunFields
      <4>2. QED
        BY <1>1, <3>1, <4>1 DEF StartRead
    <3>3. QED
      BY <1>1, <2>2, <3>2, AsksKeep, ChainsKeep
         DEF Answer, BeginRead, AccountFails, CallFails, ProbeReplied, ToolsListed, ReadFails,
             PricesArrive, ListArrives, SearchReplied, SearchesDone, PageArrives, PagesDone,
             ModelFails, ModelCalls, RefuseTool, ToolReplied, TurnEnds, ModelPlans, Repair,
             Arrived
  <2>3. QED
    BY <2>1, <2>2
<1>2. CASE ~Throw(r)
  <2>1. CASE StartRead(r) /\ run[r].stage \in {"idle", "listing"}
    <3>1. run[r].stage # "failed"
      BY <2>1
    <3>2. run[r].stage \notin Busy \/ run[r].stage \in Free
      BY <2>1 DEF Busy, Waiting, Free
    <3>3. Waits(r) = 0 /\ run[r].paid = 0
      BY <2>1, <3>1, <3>2, WaitsAre, RunIs
    <3>4. QED
      BY <2>1, <3>1, <3>3, StartReadStep
  <2>2. BeginRead(r) \/ ToolsListed(r) => StartRead(r) /\ run[r].stage \in {"idle", "listing"}
    BY <1>2 DEF BeginRead, ToolsListed, Arrived, At
  <2>3. ~AccountFails(r) /\ ~ReadFails(r) /\ ~ModelFails(r)
        /\ ~CallFails(r, {"probing", "listing", "pricing", "personalized", "listed", "paging"})
    BY <1>2 DEF AccountFails, ReadFails, ModelFails, CallFails
  <2>4. CASE PricesArrive(r)
    <3>1. CASE Heard(r)
      BY <2>4, <3>1, HeardsKeep
    <3>2. CASE ~Heard(r)
      <4>1. At(r, "pricing") /\ Ask(r, "catalog") /\ Become(r, In(run[r], "personalized"))
        BY <2>4, <3>2 DEF PricesArrive, Arrived
      <4>2. QED
        BY <4>1, ChainsKeep
    <3>3. QED
      BY <3>1, <3>2
  <2>5. QED
    BY <1>2, <2>1, <2>2, <2>3, <2>4, AsksKeep, ChainsKeep, HeardsKeep, QuietsKeep DEF Answer
<1>3. QED
  BY <1>1, <1>2

-----------------------------------------------------------------------------
(* The theorem.                                                            *)

LEMMA AgentInvHolds == Spec => []AgentInv
<1>1. Init => AgentInv
  <2> SUFFICES ASSUME Init PROVE AgentInv
    OBVIOUS
  <2>1. PICK crew \in Crews : run = [r \in Runners |-> [NoRun EXCEPT !.mode = crew[r]]]
    BY DEF Init
  <2>2. NoRun \in RunFields /\ NoRun.stage = "idle" /\ NoRun.paid = 0
        /\ NoRun.payments = 0 /\ NoRun.unseen = 0
    BY DEF NoRun, RunFields, Modes, Stages
  <2>3. ASSUME NEW r \in Runners
        PROVE  /\ run[r] \in RunFields /\ run[r].stage = "idle" /\ run[r].paid = 0
               /\ run[r].payments = 0 /\ run[r].unseen = 0
    <3>1. crew[r] \in Modes
      BY AgentAssumption
    <3>2. run[r] = [NoRun EXCEPT !.mode = crew[r]]
      BY <2>1
    <3>3. QED
      BY <2>2, <3>1, <3>2 DEF RunFields
  <2>4. call = [s \in Slots |-> NoCall]
    BY DEF Init, ClientInit
  <2>5. charged = [c \in Runners |-> 0] /\ faults = [c \in Runners |-> 0]
    BY SlotsAre DEF Init, ClientInit
  <2>6. ASSUME NEW r \in Runners PROVE RunInv(r)
    <3>1. /\ call[Positions(r)] = NoCall /\ call[Claimable(r)] = NoCall
          /\ call[Work(r)] = NoCall
      BY <2>4, SlotsAre
    <3>2. Agrees(run[r], NoCall, NoCall, NoCall)
      BY <2>3 DEF Agrees, Free
    <3>3. Kept(run[r]) = 0
      BY <2>3 DEF Kept
    <3>4. Waits(r) = 0 /\ Lost(r) = 0
      BY <3>1, IdleOwesNothing DEF Waits, Lost
    <3>5. Balanced(r)
      BY <2>5, <3>3, <3>4 DEF Balanced
    <3>6. QED
      BY <3>1, <3>2, <3>5 DEF RunInv
  <2>7. QED
    BY <2>1, <2>3, <2>5, <2>6 DEF AgentInv
<1>2. AgentInv /\ ClientInv /\ [Next]_vars => AgentInv'
  <2> SUFFICES ASSUME AgentInv, ClientInv, [Next]_vars PROVE AgentInv'
    OBVIOUS
  <2>1. CASE UNCHANGED vars
    BY <2>1 DEF vars, client, AgentInv, RunInv, Balanced, Agrees, Waits, Lost, Kept,
                Positions, Claimable, Work, Got, Owed
  <2>2. CASE Next
    BY <2>2, ClientKeepsBalance, CallerKeepsBalance DEF Next
  <2>3. QED
    BY <2>1, <2>2
<1>3. QED
  BY <1>1, <1>2, ClientInvHolds, PTL DEF Spec

\* OpenAiPortfolioAgent.run: a run that ended well reports every payment that
\* settled for it, but for one at most per fault and for the pages of a search that
\* found nothing; and it reports none that did not settle.
THEOREM NothingIsHidden == Spec => []ChargesAreReported
<1>1. AgentInv /\ ClientInv => ChargesAreReported
  <2> SUFFICES ASSUME AgentInv, ClientInv, NEW r \in Runners,
                      run[r].stage \in Final \ {"failed"}
               PROVE  /\ run[r].payments <= charged[r]
                      /\ charged[r] <= run[r].payments + run[r].unseen + faults[r]
    BY DEF ChargesAreReported
  <2>1. run[r].stage # "failed" /\ run[r].stage \notin Busy \cup {"pages", "paging"}
    BY DEF Final, Busy, Waiting
  <2>2. Waits(r) = 0 /\ run[r].paid = 0 /\ run[r] \in RunFields /\ Balanced(r)
    BY <2>1, WaitsAre, RunIs DEF AgentInv, RunInv
  <2>3. Lost(r) \in Nat
    BY GotIs DEF Lost
  <2>4. /\ run[r].payments \in Nat /\ run[r].unseen \in Nat
        /\ charged[r] \in Nat /\ faults[r] \in Nat
    BY <2>2 DEF RunFields, AgentInv
  <2>5. QED
    BY <2>2, <2>3, <2>4 DEF Balanced, Kept
<1>2. QED
  BY <1>1, AgentInvHolds, ClientInvHolds, PTL
=============================================================================
