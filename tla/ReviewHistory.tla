---------------------------- MODULE ReviewHistory ----------------------------
(***************************************************************************)
(* The review run store (src/src/integrations/storage/review-run-store.ts) *)
(* behind TreasuryReviewService, GET /runs and /history.                *)
(*                                                                         *)
(* A finished review is put under the day it started on, then as latest,   *)
(* and the dated reviews that are a week old are deleted.  A listing walks *)
(* the same keys one by one meanwhile.  The local store truncates a file   *)
(* and then writes it; Spaces puts an object at once.                      *)
(***************************************************************************)
EXTENDS Integers, FiniteSets, SequencesExt

CONSTANTS
    Missing, Half,
    DayLength,      \* clock ticks in a day
    Retention,      \* ticks a review is kept (REVIEW_HISTORY_RETENTION_MS)
    Limit,          \* summaries in a listing
    LastTick,       \* bound: the last tick
    MaxReviews,     \* bound: reviews
    MaxStops        \* bound: crashes and failing writes

ASSUME HistoryAssumption ==
    /\ {DayLength, Retention, Limit, MaxReviews} \subseteq Nat \ {0}
    /\ {LastTick, MaxStops} \subseteq Nat
    /\ {Missing, Half} \cap Nat = {} /\ Missing # Half

VARIABLES
    disk,       \* which store is configured
    now,
    started,    \* when each review started
    dated,      \* reviews/<year>/<month>/<day>/<id>.json
    last,       \* reviews/latest.json
    memory,     \* TreasuryReviewState.latest
    writer,     \* putLatest of the one review that runs
    reader,     \* one listing
    stops

reviewVars == <<disk, now, started, dated, last, memory, writer, reader, stops>>

Reviews == 1..MaxReviews
Day(t) == t \div DayLength
NoWriter == [pc |-> "idle", run |-> 0, now |-> 0, keys |-> <<>>]
NoReader == [pc |-> "idle", now |-> 0, keys |-> <<>>, there |-> {}, shown |-> {}]

HistoryInit ==
    /\ disk \in {"local", "spaces"} /\ now = 0
    /\ started = [i \in Reviews |-> Missing] /\ dated = started
    /\ last = Missing /\ memory = Missing
    /\ writer = NoWriter /\ reader = NoReader /\ stops = 0

Written == {i \in Reviews : dated[i] # Missing}

\* listDatedReviewKeys: in the order of the directory, or of the keys.
KeyOrders == {SetToSeq(Written), Reverse(SetToSeq(Written))}

\* isExpiredReviewStartedAt.
ExpiredAt(t, at) == at - t >= Retention

\* Bug: an unreadable review is dated by the first moment of its day.
ExpiredKeyEarly(i, at) == at - DayLength * Day(started[i]) >= Retention

\* isExpiredReviewKey: by the last moment of the day in the key.
ExpiredKey(i, at) == at - (DayLength * (Day(started[i]) + 1) - 1) >= Retention

\* loadDatedReview, and what it means for the age of the review.
Expired(i, at) ==
    IF dated[i] \in {Half, Missing} THEN ExpiredKey(i, at) ELSE ExpiredAt(dated[i], at)

-----------------------------------------------------------------------------
Pass ==
    /\ now < LastTick /\ now' = now + 1
    /\ UNCHANGED <<disk, started, dated, last, memory, writer, reader, stops>>

Writes(w) == writer' = w /\ UNCHANGED <<disk, now, started, reader, stops>>

StartReview(i) ==
    /\ writer.pc = "idle" /\ started[i] = Missing
    /\ \A j \in Reviews : j < i => started[j] # Missing
    /\ started' = [started EXCEPT ![i] = now]
    /\ writer' = [NoWriter EXCEPT !.pc = "running", !.run = i]
    /\ UNCHANGED <<disk, now, dated, last, memory, reader, stops>>

\* The review has been reported; putLatest is called with the time of the call.
EndReview ==
    /\ writer.pc = "running"
    /\ memory' = started[writer.run]
    /\ Writes([writer EXCEPT !.pc = "dated", !.now = now])
    /\ UNCHANGED <<dated, last>>

\* The first half of writeFile on the local store.
OpenFile ==
    /\ disk = "local"
    /\ \/ /\ writer.pc = "dated" /\ Writes([writer EXCEPT !.pc = "dating"])
          /\ dated' = [dated EXCEPT ![writer.run] = Half] /\ last' = last
       \/ /\ writer.pc = "latest" /\ Writes([writer EXCEPT !.pc = "renewing"])
          /\ last' = Half /\ dated' = dated
    /\ UNCHANGED memory

At(pc, writing) == writer.pc = IF disk = "local" THEN writing ELSE pc

PutDated ==
    /\ At("dated", "dating")
    /\ dated' = [dated EXCEPT ![writer.run] = started[writer.run]]
    /\ Writes([writer EXCEPT !.pc = "latest"])
    /\ UNCHANGED <<last, memory>>

PutLast ==
    /\ At("latest", "renewing")
    /\ last' = started[writer.run]
    /\ \E keys \in KeyOrders : Writes([writer EXCEPT !.pc = "rotating", !.keys = keys])
    /\ UNCHANGED <<dated, memory>>

\* rotateReviewHistory: the next key.
Rotate ==
    /\ writer.pc = "rotating" /\ writer.keys # <<>>
    /\ LET i == Head(writer.keys)
       IN dated' = IF Expired(i, writer.now) THEN [dated EXCEPT ![i] = Missing] ELSE dated
    /\ Writes([writer EXCEPT !.keys = Tail(@)])
    /\ UNCHANGED <<last, memory>>

Rotated ==
    /\ writer.pc = "rotating" /\ writer.keys = <<>>
    /\ Writes(NoWriter)
    /\ UNCHANGED <<dated, last, memory>>

\* putLatest throws, which is logged; what it has done so far stays.
PutFails ==
    /\ writer.pc \notin {"idle", "running"}
    /\ stops < MaxStops /\ stops' = stops + 1
    /\ writer' = NoWriter
    /\ UNCHANGED <<disk, now, started, dated, last, memory, reader>>

\* The process ends and createApp reads latest.json: half a file counts as none.
Restart ==
    /\ stops < MaxStops /\ stops' = stops + 1
    /\ memory' = IF last = Half THEN Missing ELSE last
    /\ writer' = NoWriter /\ reader' = NoReader
    /\ UNCHANGED <<disk, now, started, dated, last>>

-----------------------------------------------------------------------------
Reads(r) ==
    reader' = r /\ UNCHANGED <<disk, now, started, dated, last, memory, writer, stops>>

BeginList ==
    /\ reader.pc = "idle"
    /\ \E keys \in KeyOrders :
         Reads([NoReader EXCEPT !.pc = "reading", !.now = now, !.keys = keys, !.there = Written])

\* A summary carries when its review started, or the first moment of its day.
ReadKey ==
    /\ reader.pc = "reading" /\ reader.keys # <<>>
    /\ LET i == Head(reader.keys)
           at == IF dated[i] = Half THEN DayLength * Day(started[i]) ELSE dated[i]
           shown == IF dated[i] = Missing \/ Expired(i, reader.now) THEN {}
                    ELSE {[run |-> i, at |-> at]}
       IN Reads([reader EXCEPT !.keys = Tail(@), !.shown = @ \cup shown])

\* The newest summaries first, up to the limit.
Newest(S) ==
    {s \in S : Cardinality({z \in S : z.at > s.at \/ (z.at = s.at /\ z.run > s.run)}) < Limit}

AnswerList ==
    /\ reader.pc = "reading" /\ reader.keys = <<>>
    /\ Reads([reader EXCEPT !.pc = "answered", !.shown = Newest(@)])

EndList == reader.pc = "answered" /\ Reads(NoReader)

HistoryNext ==
    \/ Pass \/ (\E i \in Reviews : StartReview(i)) \/ EndReview
    \/ OpenFile \/ PutDated \/ PutLast \/ Rotate \/ Rotated \/ PutFails \/ Restart
    \/ BeginList \/ ReadKey \/ AnswerList \/ EndList

HistorySpec == HistoryInit /\ [][HistoryNext]_reviewVars

-----------------------------------------------------------------------------
(* Properties.                                                             *)

\* A review younger than a week whose file was there when the listing began is
\* shown, whatever rotation deleted meanwhile and even when a crash left half of
\* it, unless the limit is filled by reviews of its day or of later ones.
RecentReviewsAreListed ==
    reader.pc = "answered" =>
      \A i \in reader.there :
        ~ExpiredAt(started[i], now) =>
          \/ \E s \in reader.shown : s.run = i
          \/ /\ Cardinality(reader.shown) = Limit
             /\ \A s \in reader.shown : Day(s.at) >= Day(started[i])
=============================================================================
