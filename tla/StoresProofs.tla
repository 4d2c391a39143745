---------------------------- MODULE StoresProofs ----------------------------
(* Machine-checked proofs about the two stores.  Ledger: any transfers, any *)
(* number of runs, any bounds, both stores.  ReviewHistory: any number of   *)
(* reviews, days, crashes and failing writes, both stores.                  *)
EXTENDS Ledger, ReviewHistory, FiniteSetTheorems, TLAPS

-----------------------------------------------------------------------------
(* Days and expiry.                                                        *)

\* A day holds the moments it is made of, and days follow each other.
LEMMA DayHolds ==
    ASSUME NEW t \in Nat
    PROVE  /\ Day(t) \in Nat /\ DayLength * Day(t) \in Nat
           /\ DayLength * Day(t) <= t /\ t <= DayLength * (Day(t) + 1) - 1
           /\ Day(DayLength * Day(t)) = Day(t)
<1>1. PICK d \in Nat \ {0} : d = DayLength
  BY HistoryAssumption
<1>2. t \div d \in Nat /\ d * (t \div d) <= t /\ t < d * ((t \div d) + 1)
  OBVIOUS
<1>3. PICK q \in Nat : q = t \div d
  BY <1>2
<1>4. (d * q) \div d = q /\ d * q \in Nat /\ d * (q + 1) \in Nat
  OBVIOUS
<1>5. QED
  BY <1>1, <1>2, <1>3, <1>4 DEF Day

LEMMA DaysFollow ==
    ASSUME NEW s \in Nat, NEW t \in Nat, s <= t
    PROVE  Day(s) <= Day(t)
<1>1. PICK d \in Nat \ {0} : d = DayLength
  BY HistoryAssumption
<1>2. s \div d <= t \div d
  OBVIOUS
<1>3. QED
  BY <1>1, <1>2 DEF Day

\* A review that rotation or a listing takes for a week old is that old, though
\* only half of it is there.
LEMMA ExpiredIsOld ==
    ASSUME NEW i, started[i] \in Nat, dated[i] \in {Half, started[i]},
           NEW at \in Nat, NEW later \in Nat, at <= later, Expired(i, at)
    PROVE  ExpiredAt(started[i], later)
<1>1. PICK t \in Nat : t = started[i]
  OBVIOUS
<1>2. PICK end : end = DayLength * (Day(t) + 1) - 1
  OBVIOUS
<1>3. end \in Int /\ t <= end
  <2>1. Day(t) \in Nat /\ DayLength \in Nat /\ t <= DayLength * (Day(t) + 1) - 1
    BY DayHolds, HistoryAssumption
  <2>2. DayLength * (Day(t) + 1) \in Nat
    BY <2>1
  <2>3. QED
    BY <1>2, <2>1, <2>2
<1>4. at - t >= Retention \/ at - end >= Retention
  BY <1>1, <1>2, HistoryAssumption DEF Expired, ExpiredAt, ExpiredKey
<1>5. Retention \in Nat
  BY HistoryAssumption
<1>6. QED
  BY <1>1, <1>3, <1>4, <1>5 DEF ExpiredAt

-----------------------------------------------------------------------------
(* The keys of a listing, and the newest summaries.                        *)

Visits(keys, S) == keys \in Seq(S) /\ \A i \in S : \E k \in DOMAIN keys : keys[k] = i

LEMMA KeysAreWritten ==
    ASSUME DOMAIN dated = Reviews, NEW keys \in KeyOrders
    PROVE  Visits(keys, Written)
<1>1. IsFiniteSet(Written)
  <2>1. IsFiniteSet(Reviews)
    BY HistoryAssumption, FS_Interval DEF Reviews
  <2>2. Written \subseteq Reviews
    BY DEF Written
  <2>3. QED
    BY <2>1, <2>2, FS_Subset
<1>2. PICK n \in Nat : n = Cardinality(Written) /\ ExistsBijection(1..n, Written)
  BY <1>1, FS_CardinalityType
<1>3. PICK s : s = SetToSeq(Written)
  OBVIOUS
<1>4. s \in [1..n -> Written] /\ IsInjective(s)
  <2>1. \E f \in [1..n -> Written] : IsInjective(f)
    BY <1>2 DEF ExistsBijection, Bijection, Injection, IsInjective
  <2>2. QED
    BY <1>2, <1>3, <2>1 DEF SetToSeq
<1>5. \A i \in Written : \E k \in 1..n : s[k] = i
  <2>1. IsFiniteSet(1..n) /\ Cardinality(1..n) = n
    BY FS_Interval
  <2>2. s \in Injection(1..n, Written)
    BY <1>4 DEF Injection, IsInjective
  <2>3. s \in Surjection(1..n, Written)
    BY <1>1, <1>2, <2>1, <2>2, FS_Injection
  <2>4. QED
    BY <2>3 DEF Surjection
<1>6. CASE keys = s
  BY <1>4, <1>5, <1>6 DEF Visits
<1>7. CASE keys = Reverse(s)
  <2>1. Len(s) = n
    BY <1>4
  <2>2. keys = [k \in 1..n |-> s[(n - k) + 1]]
    BY <1>7, <2>1 DEF Reverse
  <2>3. keys \in [1..n -> Written]
    BY <1>4, <2>2
  <2>4. ASSUME NEW i \in Written
        PROVE  \E k \in 1..n : keys[k] = i
    <3>1. PICK k \in 1..n : s[k] = i
      BY <1>5
    <3>2. (n - k) + 1 \in 1..n /\ (n - ((n - k) + 1)) + 1 = k
      OBVIOUS
    <3>3. keys[(n - k) + 1] = i
      BY <2>2, <3>1, <3>2
    <3>4. QED
      BY <3>2, <3>3
  <2>5. QED
    BY <2>3, <2>4 DEF Visits
<1>8. QED
  BY <1>3, <1>6, <1>7 DEF KeyOrders

Summaries == [run : Reviews, at : Nat]
Ahead(z, s) == z.at > s.at \/ (z.at = s.at /\ z.run > s.run)

LEMMA AheadOrders ==
    ASSUME NEW x \in Summaries, NEW y \in Summaries, NEW z \in Summaries
    PROVE  /\ ~Ahead(x, x) /\ (x = y \/ Ahead(x, y) \/ Ahead(y, x))
           /\ Ahead(x, y) /\ Ahead(y, z) => Ahead(x, z)
<1>1. /\ x = [run |-> x.run, at |-> x.at] /\ y = [run |-> y.run, at |-> y.at]
      /\ {x.run, y.run, z.run} \subseteq Int /\ {x.at, y.at, z.at} \subseteq Int
  BY HistoryAssumption DEF Summaries, Reviews
<1>2. QED
  BY <1>1 DEF Ahead

\* What does not make it into a listing is behind all of the listing, which is
\* full.
LEMMA NewestFillsUp ==
    ASSUME NEW S \in SUBSET Summaries, IsFiniteSet(S), NEW s \in S, s \notin Newest(S)
    PROVE  /\ Cardinality(Newest(S)) = Limit
           /\ \A t \in Newest(S) : Ahead(t, s)
<1> DEFINE Better(x) == {z \in S : Ahead(z, x)}
<1>1. PICK rank : rank = [x \in S |-> Cardinality(Better(x))]
  OBVIOUS
<1>2. PICK n \in Nat : n = Cardinality(S)
  BY FS_CardinalityType
<1>3. ASSUME NEW x \in S
      PROVE  rank[x] \in 0..(n - 1)
  <2>1. x \notin Better(x)
    BY AheadOrders
  <2>2. Better(x) \subseteq S /\ Better(x) # S
    BY <2>1
  <2>3. IsFiniteSet(Better(x)) /\ Cardinality(Better(x)) <= n /\ Cardinality(Better(x)) # n
    BY <1>2, <2>2, FS_Subset
  <2>4. Cardinality(Better(x)) \in Nat
    BY <2>3, FS_CardinalityType
  <2>5. QED
    BY <1>1, <2>3, <2>4
<1>4. ASSUME NEW x \in S, NEW y \in S, Ahead(x, y)
      PROVE  rank[x] < rank[y]
  <2>1. Better(x) \subseteq Better(y)
    BY <1>4, AheadOrders
  <2>2. x \in Better(y) /\ x \notin Better(x)
    BY <1>4, AheadOrders
  <2>3. IsFiniteSet(Better(y))
    BY FS_Subset
  <2>4. Cardinality(Better(x)) <= Cardinality(Better(y))
        /\ Cardinality(Better(x)) # Cardinality(Better(y))
    BY <2>1, <2>2, <2>3, FS_Subset
  <2>5. rank[x] = Cardinality(Better(x)) /\ rank[y] = Cardinality(Better(y))
    BY <1>1
  <2>6. rank[x] \in Int /\ rank[y] \in Int
    BY <1>3
  <2>7. QED
    BY <2>4, <2>5, <2>6
<1>5. \A x, y \in S : rank[x] = rank[y] => x = y
  <2>1. ASSUME NEW x \in S, NEW y \in S, rank[x] = rank[y], x # y
        PROVE  FALSE
    <3>1. rank[x] \in Int /\ ~(rank[x] < rank[y]) /\ ~(rank[y] < rank[x])
      BY <1>3, <2>1
    <3>2. Ahead(x, y) \/ Ahead(y, x)
      BY <2>1, AheadOrders
    <3>3. QED
      BY <1>4, <3>1, <3>2
  <2>2. QED
    BY <2>1
<1>6. \A r \in 0..(n - 1) : \E x \in S : rank[x] = r
  <2>1. rank \in Injection(S, 0..(n - 1))
    BY <1>1, <1>3, <1>5 DEF Injection, IsInjective
  <2>2. IsFiniteSet(0..(n - 1)) /\ Cardinality(0..(n - 1)) = n
    BY FS_Interval
  <2>3. rank \in Surjection(S, 0..(n - 1))
    BY <1>2, <2>1, <2>2, FS_Injection
  <2>4. QED
    BY <2>3 DEF Surjection
<1>7. PICK N : N = Newest(S)
  OBVIOUS
<1>8. N = {x \in S : rank[x] < Limit} /\ Limit \in Nat
  BY <1>1, <1>7, HistoryAssumption DEF Newest, Ahead
<1>9. rank[s] >= Limit
  BY <1>3, <1>7, <1>8
<1>10. Cardinality(N) = Limit
  <2>1. PICK top : top = [x \in N |-> rank[x]]
    OBVIOUS
  <2>2. top \in [N -> 0..(Limit - 1)]
    BY <1>3, <1>8, <2>1
  <2>3. top \in Injection(N, 0..(Limit - 1))
    BY <1>5, <1>8, <2>1, <2>2 DEF Injection, IsInjective
  <2>4. ASSUME NEW r \in 0..(Limit - 1) PROVE \E x \in N : top[x] = r
    <3>1. r \in 0..(n - 1)
      BY <1>3, <1>8, <1>9
    <3>2. PICK x \in S : rank[x] = r
      BY <1>6, <3>1
    <3>3. x \in N
      BY <1>8, <3>2
    <3>4. QED
      BY <2>1, <3>2, <3>3
  <2>5. top \in Surjection(N, 0..(Limit - 1))
    BY <2>2, <2>4 DEF Surjection
  <2>6. IsFiniteSet(0..(Limit - 1)) /\ Cardinality(0..(Limit - 1)) = Limit
    BY <1>8, FS_Interval
  <2>7. QED
    BY <2>3, <2>5, <2>6, FS_Injection
<1>11. ASSUME NEW t \in N PROVE Ahead(t, s)
  <2>1. t \in S /\ rank[t] < Limit
    BY <1>8
  <2>2. ~Ahead(s, t)
    BY <1>3, <1>4, <1>8, <1>9, <2>1
  <2>3. t # s
    BY <1>7
  <2>4. QED
    BY <2>1, <2>2, <2>3, AheadOrders
<1>12. QED
  BY <1>7, <1>10, <1>11

-----------------------------------------------------------------------------
(* What a listing owes to the reviews that were there.                     *)

\* A review is stored under its own start, or half of it is.
FilesInv ==
    /\ now \in Nat /\ DOMAIN started = Reviews /\ DOMAIN dated = Reviews
    /\ \A i \in Reviews :
         /\ started[i] # Missing => started[i] \in Nat
         /\ dated[i] # Missing => started[i] \in Nat /\ dated[i] \in {Half, started[i]}

WriterInv ==
    /\ writer = [pc |-> writer.pc, run |-> writer.run, now |-> writer.now,
                 keys |-> writer.keys]
    /\ writer.now \in 0..now /\ writer.keys \in Seq(Reviews)
    /\ writer.pc # "idle" => writer.run \in Reviews /\ started[writer.run] # Missing

\* A summary carries a moment of the day its review started on.
Truthful(shown) ==
    /\ shown \subseteq Summaries /\ IsFiniteSet(shown)
    /\ \A s \in shown : started[s.run] \in Nat /\ Day(s.at) = Day(started[s.run])

ReaderInv ==
    /\ reader = [pc |-> reader.pc, now |-> reader.now, keys |-> reader.keys,
                 there |-> reader.there, shown |-> reader.shown]
    /\ reader.now \in 0..now /\ reader.keys \in Seq(Reviews)
    /\ reader.there \subseteq Reviews /\ Truthful(reader.shown)

\* A young review that was there is still to be read or shown, and is shown, or
\* the limit is filled, when the listing is over.
ToRead(i, keys) == \E k \in DOMAIN keys : keys[k] = i
Shown(i, shown) == \E s \in shown : s.run = i
Filled(i, shown) ==
    Cardinality(shown) = Limit /\ \A s \in shown : Day(s.at) >= Day(started[i])
Owed(i) ==
    /\ started[i] \in Nat
    /\ ~ExpiredAt(started[i], now) =>
         /\ reader.pc = "reading" =>
              dated[i] # Missing /\ (ToRead(i, reader.keys) \/ Shown(i, reader.shown))
         /\ reader.pc = "answered" => Shown(i, reader.shown) \/ Filled(i, reader.shown)

ListingInv == FilesInv /\ WriterInv /\ ReaderInv /\ \A i \in reader.there : Owed(i)

LEMMA ListingInvInit == HistoryInit => ListingInv
<1> SUFFICES ASSUME HistoryInit PROVE ListingInv
  OBVIOUS
<1> USE DEF HistoryInit, NoWriter, NoReader
<1>1. FilesInv
  BY DEF FilesInv
<1>2. WriterInv
  BY DEF WriterInv
<1>3. ReaderInv
  BY FS_EmptySet DEF ReaderInv, Truthful
<1>4. QED
  BY <1>1, <1>2, <1>3 DEF ListingInv

\* What the files may do while a listing is under way: a review that was there
\* stays, or is half written, until it is a week old.
FilesGoOn ==
    /\ now <= now' /\ FilesInv'
    /\ \A i \in Reviews : started[i] # Missing => started'[i] = started[i]
    /\ \A i \in Reviews :
         (dated[i] # Missing /\ ~ExpiredAt(started[i], now)) => dated'[i] # Missing

LEMMA ReaderWaits ==
    ASSUME ListingInv, FilesGoOn, reader' \in {reader, NoReader}
    PROVE  ReaderInv' /\ \A i \in reader'.there : Owed(i)'
<1>1. now \in Nat /\ now' \in Nat /\ now <= now' /\ Missing \notin Nat /\ Retention \in Nat
  BY HistoryAssumption DEF ListingInv, FilesInv, FilesGoOn
<1>2. CASE reader' = NoReader
  BY <1>1, <1>2, FS_EmptySet DEF NoReader, ReaderInv, Truthful
<1>3. CASE reader' = reader
  <2>1. \A i \in Reviews : started[i] \in Nat => started'[i] = started[i]
    BY <1>1 DEF FilesGoOn
  <2>2. Truthful(reader.shown)
    BY DEF ListingInv, ReaderInv
  <2>3. Truthful(reader.shown)'
    <3>1. ASSUME NEW s \in reader.shown
          PROVE  started'[s.run] = started[s.run]
      <4>1. s.run \in Reviews /\ started[s.run] \in Nat
        BY <2>2 DEF Truthful, Summaries
      <4>2. QED
        BY <2>1, <4>1
    <3>2. QED
      BY <1>3, <2>2, <3>1 DEF Truthful
  <2>4. ReaderInv'
    BY <1>1, <1>3, <2>3 DEF ListingInv, ReaderInv
  <2>5. ASSUME NEW i \in reader.there PROVE Owed(i)'
    <3>1. i \in Reviews /\ Owed(i) /\ started[i] \in Nat /\ started'[i] = started[i]
      BY <2>1 DEF ListingInv, ReaderInv, Owed
    <3>2. ExpiredAt(started[i], now) => ExpiredAt(started[i], now')
      BY <1>1, <3>1 DEF ExpiredAt
    <3>3. dated[i] # Missing /\ ~ExpiredAt(started[i], now) => dated'[i] # Missing
      BY <3>1 DEF FilesGoOn
    <3>4. Filled(i, reader.shown) => Filled(i, reader.shown)'
      BY <1>3, <3>1 DEF Filled
    <3>5. QED
      BY <1>3, <3>1, <3>2, <3>3, <3>4 DEF Owed, Shown, ToRead
  <2>6. QED
    BY <1>3, <2>4, <2>5
<1>4. QED
  BY <1>2, <1>3

LEMMA FilesStay ==
    ASSUME FilesInv, UNCHANGED <<now, started, dated>>
    PROVE  FilesGoOn
  BY DEF FilesInv, FilesGoOn

\* Every step of the writer, of the clock and of a restart.
LEMMA WriterStep ==
    ASSUME ListingInv,
           \/ Pass \/ EndReview \/ OpenFile \/ PutDated \/ PutLast \/ Rotate \/ Rotated
           \/ PutFails \/ Restart \/ \E i \in Reviews : StartReview(i)
    PROVE  ListingInv'
<1>1. /\ FilesInv /\ WriterInv
      /\ now \in Nat /\ Missing \notin Nat /\ Half \notin Nat /\ Missing # Half
  BY HistoryAssumption DEF ListingInv, FilesInv
<1>2. ASSUME FilesGoOn, WriterInv', reader' \in {reader, NoReader}
      PROVE  ListingInv'
  BY <1>2, ReaderWaits DEF ListingInv, FilesGoOn
<1>3. ASSUME writer' = NoWriter, now \in Nat, now' = now
      PROVE  WriterInv'
  BY <1>3 DEF WriterInv, NoWriter
<1>4. CASE Pass
  <2>1. FilesGoOn
    BY <1>1, <1>4 DEF Pass, FilesInv, FilesGoOn
  <2>2. WriterInv'
    BY <1>1, <1>4 DEF Pass, WriterInv
  <2>3. QED
    BY <1>2, <1>4, <2>1, <2>2 DEF Pass
<1>5. ASSUME NEW i \in Reviews, StartReview(i) PROVE ListingInv'
  <2>1. /\ started' = [started EXCEPT ![i] = now] /\ started[i] = Missing
        /\ writer' = [NoWriter EXCEPT !.pc = "running", !.run = i]
        /\ UNCHANGED <<now, dated, reader>>
    BY <1>5 DEF StartReview
  <2>2. /\ \A j \in Reviews : started'[j] = IF j = i THEN now ELSE started[j]
        /\ DOMAIN started' = Reviews
    BY <1>1, <2>1 DEF FilesInv
  <2>3. FilesGoOn
    BY <1>1, <2>1, <2>2 DEF FilesInv, FilesGoOn
  <2>4. writer' = [pc |-> "running", run |-> i, now |-> 0, keys |-> <<>>]
    BY <2>1 DEF NoWriter
  <2>5. WriterInv'
    <3>1. started'[i] = now /\ <<>> \in Seq(Reviews) /\ 0 \in 0..now' /\ now # Missing
      BY <1>1, <2>1, <2>2
    <3>2. /\ writer'.pc = "running" /\ writer'.run = i /\ writer'.now = 0
          /\ writer'.keys = <<>>
      BY <2>4
    <3>3. QED
      BY <2>4, <3>1, <3>2 DEF WriterInv
  <2>6. QED
    BY <1>2, <2>1, <2>3, <2>5
\* The writer goes on with its review.
<1>6. ASSUME writer.pc # "idle", NEW pc, NEW at \in 0..now, NEW keys \in Seq(Reviews),
             writer' = [pc |-> pc, run |-> writer.run, now |-> at, keys |-> keys],
             UNCHANGED <<now, started>>
      PROVE  WriterInv'
  BY <1>1, <1>6 DEF WriterInv
<1>7. CASE EndReview
  <2>1. writer' = [writer EXCEPT !.pc = "dated", !.now = now]
        /\ UNCHANGED <<now, started, dated, reader>> /\ writer.pc = "running"
    BY <1>7 DEF EndReview, Writes
  <2>2. writer' = [pc |-> "dated", run |-> writer.run, now |-> now, keys |-> writer.keys]
        /\ writer.keys \in Seq(Reviews)
    BY <1>1, <2>1 DEF WriterInv
  <2>3. WriterInv'
    <3>1. PICK keys \in Seq(Reviews) : keys = writer.keys
      BY <2>2
    <3>2. now \in 0..now
      BY <1>1
    <3>3. QED
      BY <1>6, <2>1, <2>2, <3>1, <3>2
  <2>4. QED
    BY <1>1, <1>2, <2>1, <2>3, FilesStay
<1>8. CASE OpenFile \/ PutDated \/ PutLast
  <2>1. PICK pc, keys : writer' = [writer EXCEPT !.pc = pc, !.keys = keys]
                        /\ keys \in KeyOrders \cup {writer.keys}
    <3>1. CASE OpenFile \/ PutDated
      <4>1. PICK pc : writer' = [writer EXCEPT !.pc = pc]
        BY <3>1 DEF OpenFile, PutDated, Writes
      <4>2. writer' = [writer EXCEPT !.pc = pc, !.keys = writer.keys]
        BY <1>1, <4>1 DEF WriterInv
      <4>3. QED
        BY <4>2
    <3>2. CASE PutLast
      BY <3>2 DEF PutLast, Writes
    <3>3. QED
      BY <1>8, <3>1, <3>2
  <2>2. writer.pc # "idle" /\ UNCHANGED <<now, started, reader>>
    BY <1>8 DEF OpenFile, PutDated, PutLast, Writes, At
  <2>3. writer' = [pc |-> pc, run |-> writer.run, now |-> writer.now, keys |-> keys]
    BY <1>1, <2>1 DEF WriterInv
  <2>4. keys \in Seq(Reviews)
    <3>1. CASE keys = writer.keys
      BY <1>1, <3>1 DEF WriterInv
    <3>2. CASE keys \in KeyOrders
      <4>1. keys \in Seq(Written)
        BY <1>1, <3>2, KeysAreWritten DEF FilesInv, Visits
      <4>2. QED
        BY <4>1 DEF Written
    <3>3. QED
      BY <2>1, <3>1, <3>2
  <2>5. WriterInv'
    BY <1>1, <1>6, <2>2, <2>3, <2>4 DEF WriterInv
  <2>6. FilesGoOn
    <3>1. CASE UNCHANGED dated
      BY <1>1, <2>2, <3>1, FilesStay
    <3>2. CASE ~UNCHANGED dated
      <4>1. PICK r \in Reviews : /\ \E x \in {Half, started[r]} : dated' = [dated EXCEPT ![r] = x]
                                 /\ started[r] \in Nat
        BY <1>1, <1>8, <2>2, <3>2 DEF OpenFile, PutDated, PutLast, WriterInv, FilesInv
      <4>2. PICK x \in {Half, started[r]} : dated' = [dated EXCEPT ![r] = x]
        BY <4>1
      <4>3. x # Missing
        BY <1>1, <4>1
      <4>4. QED
        BY <1>1, <2>2, <4>1, <4>2, <4>3 DEF FilesInv, FilesGoOn
    <3>3. QED
      BY <3>1, <3>2
  <2>7. QED
    BY <1>2, <2>2, <2>5, <2>6
<1>9. CASE Rotate
  <2>1. PICK i : i = Head(writer.keys)
    OBVIOUS
  <2>2. /\ writer.pc = "rotating" /\ UNCHANGED <<now, started, reader>>
        /\ dated' = IF Expired(i, writer.now) THEN [dated EXCEPT ![i] = Missing] ELSE dated
        /\ writer' = [writer EXCEPT !.keys = Tail(@)]
        /\ writer.keys # <<>>
    BY <1>9, <2>1 DEF Rotate, Writes
  <2>3. /\ writer' = [pc |-> writer.pc, run |-> writer.run, now |-> writer.now,
                      keys |-> Tail(writer.keys)]
        /\ writer.keys \in Seq(Reviews) /\ writer.now \in 0..now
    BY <1>1, <2>2 DEF WriterInv
  <2>4. i \in Reviews /\ Tail(writer.keys) \in Seq(Reviews)
    BY <2>1, <2>2, <2>3
  <2>5. WriterInv'
    BY <1>1, <1>6, <2>2, <2>3, <2>4
  <2>6. FilesGoOn
    <3>1. CASE dated' = dated
      BY <1>1, <2>2, <3>1, FilesStay
    <3>2. CASE dated' # dated
      <4>1. Expired(i, writer.now) /\ dated' = [dated EXCEPT ![i] = Missing]
        BY <2>2, <3>2
      <4>2. dated[i] # Missing => ExpiredAt(started[i], now)
        BY <1>1, <2>3, <2>4, <4>1, ExpiredIsOld DEF FilesInv
      <4>3. QED
        BY <1>1, <2>2, <2>4, <4>1, <4>2 DEF FilesInv, FilesGoOn
    <3>3. QED
      BY <3>1, <3>2
  <2>7. QED
    BY <1>2, <2>2, <2>5, <2>6
<1>10. CASE Rotated \/ PutFails \/ Restart
  <2>1. /\ writer' = NoWriter /\ UNCHANGED <<now, started, dated>>
        /\ reader' \in {reader, NoReader}
    BY <1>10 DEF Rotated, PutFails, Restart, Writes
  <2>2. QED
    BY <1>1, <1>2, <1>3, <2>1, FilesStay
<1>11. QED
  BY <1>4, <1>5, <1>7, <1>8, <1>9, <1>10

\* The reader takes the next key.
LEMMA ReadKeyStep == ListingInv /\ ReadKey => ListingInv'
<1> SUFFICES ASSUME ListingInv, ReadKey PROVE ListingInv'
  OBVIOUS
<1>1. /\ FilesInv /\ WriterInv /\ ReaderInv /\ \A i \in reader.there : Owed(i)
      /\ now \in Nat /\ Missing \notin Nat /\ Half \notin Nat /\ Missing # Half
  BY HistoryAssumption DEF ListingInv, FilesInv
<1>2. PICK i : i = Head(reader.keys)
  OBVIOUS
<1>3. PICK at : at = IF dated[i] = Half THEN DayLength * Day(started[i]) ELSE dated[i]
  OBVIOUS
<1>4. PICK more : more = IF dated[i] = Missing \/ Expired(i, reader.now) THEN {}
                         ELSE {[run |-> i, at |-> at]}
  OBVIOUS
<1>5. PICK rest : rest = Tail(reader.keys)
  OBVIOUS
<1>6. /\ reader.pc = "reading" /\ reader.keys # <<>>
      /\ reader' = [reader EXCEPT !.keys = rest, !.shown = reader.shown \cup more]
      /\ UNCHANGED <<now, started, dated, writer>>
  BY <1>2, <1>3, <1>4, <1>5 DEF ReadKey, Reads
<1>7. reader' = [pc |-> "reading", now |-> reader.now, keys |-> rest,
                 there |-> reader.there, shown |-> reader.shown \cup more]
  BY <1>1, <1>6 DEF ReaderInv
<1>8. i \in Reviews /\ rest \in Seq(Reviews) /\ reader.keys \in Seq(Reviews)
  BY <1>1, <1>2, <1>5, <1>6 DEF ReaderInv
\* What is shown of it is its start, or the first moment of that day.
<1>9. ASSUME dated[i] # Missing
      PROVE  started[i] \in Nat /\ dated[i] \in {Half, started[i]} /\ at \in Nat
             /\ Day(at) = Day(started[i])
  <2>1. started[i] \in Nat /\ dated[i] \in {Half, started[i]}
    BY <1>1, <1>8, <1>9 DEF FilesInv
  <2>2. QED
    BY <1>3, <2>1, DayHolds
<1>10. Truthful(reader.shown \cup more)
  <2>1. Truthful(reader.shown)
    BY <1>1 DEF ReaderInv
  <2>2. CASE more = {}
    BY <2>1, <2>2
  <2>3. CASE more # {}
    <3>1. dated[i] # Missing /\ more = {[run |-> i, at |-> at]}
      BY <1>4, <2>3
    <3>2. PICK s : s = [run |-> i, at |-> at]
      OBVIOUS
    <3>3. s \in Summaries /\ started[s.run] \in Nat /\ Day(s.at) = Day(started[s.run])
      BY <1>8, <1>9, <3>1, <3>2 DEF Summaries
    <3>4. IsFiniteSet(reader.shown \cup {s})
      BY <2>1, FS_AddElement DEF Truthful
    <3>5. QED
      BY <2>1, <3>1, <3>2, <3>3, <3>4 DEF Truthful
  <2>4. QED
    BY <2>2, <2>3
<1>11. ReaderInv'
  BY <1>1, <1>6, <1>7, <1>8, <1>10 DEF ReaderInv, Truthful
<1>12. ASSUME NEW j \in reader.there PROVE Owed(j)'
  <2>1. Owed(j) /\ started[j] \in Nat /\ j \in Reviews
    BY <1>1 DEF Owed, ReaderInv
  <2>2. CASE ExpiredAt(started[j], now)
    BY <1>6, <2>1, <2>2 DEF Owed
  <2>3. CASE ~ExpiredAt(started[j], now)
    <3>1. dated[j] # Missing /\ (ToRead(j, reader.keys) \/ Shown(j, reader.shown))
      BY <1>6, <2>1, <2>3 DEF Owed
    <3>2. ASSUME j = i PROVE Shown(j, reader.shown \cup more)
      <4>1. ~Expired(i, reader.now)
        <5>1. reader.now \in Nat /\ reader.now <= now
          BY <1>1 DEF ReaderInv
        <5>2. QED
          BY <1>1, <1>9, <2>3, <3>1, <3>2, <5>1, ExpiredIsOld
      <4>2. more = {[run |-> i, at |-> at]}
        BY <1>4, <3>1, <3>2, <4>1
      <4>3. [run |-> i, at |-> at].run = j
        BY <3>2
      <4>4. QED
        BY <4>2, <4>3 DEF Shown
    <3>3. ASSUME j # i, ToRead(j, reader.keys) PROVE ToRead(j, rest)
      <4>1. PICK keys \in Seq(Reviews) : keys = reader.keys
        BY <1>8
      <4>2. PICK k \in 1..Len(keys) : keys[k] = j
        BY <3>3, <4>1 DEF ToRead
      <4>3. k # 1
        BY <1>2, <3>3, <4>1, <4>2
      <4>4. rest = Tail(keys) /\ keys # <<>>
        BY <1>5, <1>6, <4>1
      <4>5. Len(rest) = Len(keys) - 1 /\ \A m \in 1..Len(rest) : rest[m] = keys[m + 1]
        BY <4>4
      <4>6. k - 1 \in 1..Len(rest) /\ rest[k - 1] = j
        BY <4>2, <4>3, <4>5
      <4>7. k - 1 \in DOMAIN rest
        BY <1>8, <4>6
      <4>8. QED
        BY <4>6, <4>7 DEF ToRead
    <3>4. ToRead(j, rest) \/ Shown(j, reader.shown \cup more)
      BY <3>1, <3>2, <3>3 DEF Shown
    <3>5. QED
      BY <1>6, <1>7, <2>1, <3>1, <3>4 DEF Owed
  <2>4. QED
    BY <2>2, <2>3
<1>13. FilesInv' /\ WriterInv'
  BY <1>1, <1>6 DEF FilesInv, WriterInv
<1>14. QED
  BY <1>7, <1>11, <1>12, <1>13 DEF ListingInv

\* The reader begins, answers and ends.
LEMMA AnswerStep == ListingInv /\ (BeginList \/ AnswerList \/ EndList) => ListingInv'
<1> SUFFICES ASSUME ListingInv, BeginList \/ AnswerList \/ EndList PROVE ListingInv'
  OBVIOUS
<1>1. /\ FilesInv /\ WriterInv /\ ReaderInv /\ \A i \in reader.there : Owed(i)
      /\ now \in Nat /\ Missing \notin Nat /\ UNCHANGED <<now, started, dated, writer>>
  BY HistoryAssumption DEF ListingInv, FilesInv, BeginList, AnswerList, EndList, Reads
<1>2. FilesInv' /\ WriterInv'
  BY <1>1 DEF FilesInv, WriterInv
<1>3. CASE EndList
  BY <1>1, <1>2, <1>3, FilesStay, ReaderWaits DEF EndList, Reads, ListingInv
<1>4. CASE BeginList
  <2>1. PICK keys \in KeyOrders :
          reader' = [NoReader EXCEPT !.pc = "reading", !.now = now, !.keys = keys,
                                     !.there = Written]
    BY <1>4 DEF BeginList, Reads
  <2>2. reader' = [pc |-> "reading", now |-> now, keys |-> keys, there |-> Written,
                   shown |-> {}]
    BY <2>1 DEF NoReader
  <2>3. keys \in Seq(Reviews) /\ Written \subseteq Reviews
    <3>1. keys \in Seq(Written)
      BY <1>1, KeysAreWritten DEF FilesInv, Visits
    <3>2. QED
      BY <3>1 DEF Written
  <2>4. ReaderInv'
    BY <1>1, <2>2, <2>3, FS_EmptySet DEF ReaderInv, Truthful
  <2>5. ASSUME NEW i \in Written PROVE Owed(i)'
    <3>1. dated[i] # Missing /\ started[i] \in Nat
      BY <1>1 DEF Written, FilesInv
    <3>2. ToRead(i, keys)
      BY <1>1, KeysAreWritten DEF FilesInv, Visits, ToRead
    <3>3. QED
      BY <1>1, <2>2, <3>1, <3>2 DEF Owed
  <2>6. QED
    BY <1>2, <2>2, <2>4, <2>5 DEF ListingInv
<1>5. CASE AnswerList
  <2>1. PICK S : S = reader.shown
    OBVIOUS
  <2>2. PICK N : N = Newest(S)
    OBVIOUS
  <2>3. reader' = [pc |-> "answered", now |-> reader.now, keys |-> reader.keys,
                   there |-> reader.there, shown |-> N] /\ reader.keys = <<>>
        /\ reader.pc = "reading"
    BY <1>1, <1>5, <2>1, <2>2 DEF AnswerList, Reads, ReaderInv
  <2>4. Truthful(S) /\ N \subseteq S /\ IsFiniteSet(S) /\ S \subseteq Summaries
    BY <1>1, <2>1, <2>2 DEF ReaderInv, Truthful, Newest
  <2>5. Truthful(N)
    BY <2>4, FS_Subset DEF Truthful
  <2>6. ReaderInv'
    BY <1>1, <2>3, <2>5 DEF ReaderInv, Truthful
  <2>7. ASSUME NEW i \in reader.there, ~ExpiredAt(started[i], now)
        PROVE  Shown(i, N) \/ Filled(i, N)
    <3>1. PICK s \in S : s.run = i
      BY <1>1, <2>1, <2>3, <2>7 DEF Owed, Shown, ToRead
    <3>2. CASE s \in N
      BY <3>1, <3>2 DEF Shown
    <3>3. CASE s \notin N
      <4>1. Cardinality(N) = Limit /\ \A t \in N : Ahead(t, s)
        BY <2>2, <2>4, <3>3, NewestFillsUp
      <4>2. ASSUME NEW t \in N PROVE Day(t.at) >= Day(started[i])
        <5>1. t.at \in Nat /\ s.at \in Nat /\ t.at >= s.at
          BY <2>4, <4>1 DEF Summaries, Ahead
        <5>2. Day(s.at) <= Day(t.at) /\ Day(s.at) \in Nat /\ Day(t.at) \in Nat
          BY <5>1, DaysFollow, DayHolds
        <5>3. Day(s.at) = Day(started[i])
          BY <2>4, <3>1 DEF Truthful
        <5>4. QED
          BY <5>2, <5>3
      <4>3. QED
        BY <4>1, <4>2 DEF Filled
    <3>4. QED
      BY <3>2, <3>3
  <2>8. ASSUME NEW i \in reader.there PROVE Owed(i)'
    <3>1. started[i] \in Nat
      BY <1>1 DEF Owed
    <3>2. Filled(i, N) <=> (Cardinality(N) = Limit /\ \A s \in N : Day(s.at) >= Day(started'[i]))
      BY <1>1 DEF Filled
    <3>3. QED
      BY <1>1, <2>3, <2>7, <3>1, <3>2 DEF Owed, Filled
  <2>9. QED
    BY <1>2, <2>3, <2>6, <2>8 DEF ListingInv
<1>6. QED
  BY <1>3, <1>4, <1>5

LEMMA ListingInvStep == ListingInv /\ [HistoryNext]_reviewVars => ListingInv'
<1> SUFFICES ASSUME ListingInv, [HistoryNext]_reviewVars PROVE ListingInv'
  OBVIOUS
<1>1. CASE UNCHANGED reviewVars
  <2>1. UNCHANGED <<now, started, dated, writer, reader>>
    BY <1>1 DEF reviewVars
  <2>2. FilesInv' /\ WriterInv'
    BY <2>1 DEF ListingInv, FilesInv, WriterInv
  <2>3. QED
    BY <2>1, <2>2, FilesStay, ReaderWaits DEF ListingInv
<1>2. CASE HistoryNext
  BY <1>2, WriterStep, ReadKeyStep, AnswerStep DEF HistoryNext
<1>3. QED
  BY <1>1, <1>2

\* A review younger than a week that was there when the listing began is shown,
\* unless the limit is filled by reviews of its day or of later ones
\* (src/src/integrations/storage/review-run-store.ts, list and rotation).
THEOREM YoungReviewsAreListed == HistorySpec => []RecentReviewsAreListed
<1>1. ListingInv => RecentReviewsAreListed
  BY DEF ListingInv, Owed, Shown, Filled, RecentReviewsAreListed
<1>2. QED
  BY ListingInvInit, ListingInvStep, <1>1, PTL DEF HistorySpec

USE DEF Recorders, Careful, Keys

-----------------------------------------------------------------------------
(* The summary never runs ahead of the snapshots.                          *)

RunPcs == {"idle", "begun", "read", "stamped", "compared", "snapshot",
           "snapshotting", "summary", "summarising", "publish"}
Unwritten == {"begun", "read", "stamped", "compared", "snapshot", "snapshotting"}

\* The run is a record of the shape the actions update.
RunShape ==
    acc = [pc |-> acc.pc, previous |-> acc.previous, seen |-> acc.seen,
           left |-> acc.left, known |-> acc.known, asOf |-> acc.asOf, daily |-> acc.daily,
           roll |-> acc.roll, all |-> acc.all, listed |-> acc.listed]

\* The summary of the last run repeats the snapshot of an earlier one, which the
\* run in progress, numbered used, does not write; once past its own snapshot
\* the run has it stored as it will repeat it.
HistoryInv ==
    /\ RunShape /\ acc.pc \in RunPcs
    /\ used \in 0..MaxRuns /\ DOMAIN snaps = Runs
    /\ acc.pc # "idle" => used \in Runs
    /\ acc.pc \in {"summary", "summarising"} => snaps[used] = Total
    /\ Stored(latest) => \E i \in Runs : /\ snaps[i] = latest /\ i <= used
                                         /\ acc.pc \in Unwritten => i < used

LEMMA HistoryInvInit == LedgerInit => HistoryInv
  BY LedgerAssumption
     DEF LedgerInit, HistoryInv, RunShape, RunPcs, IdleRun, Runs, Stored

\* What the run does to its own record, to the store and to its number.
LEMMA HistoryInvStep == HistoryInv /\ [LedgerNext]_ledger => HistoryInv'
<1> SUFFICES ASSUME HistoryInv, [LedgerNext]_ledger
             PROVE  HistoryInv'
  OBVIOUS
<1> USE LedgerAssumption DEF HistoryInv, RunShape, RunPcs, Unwritten, Runs
<1>1. ASSUME acc' = IdleRun, UNCHANGED <<snaps, latest, used>>
      PROVE  HistoryInv'
  BY <1>1 DEF IdleRun, Stored
<1>2. ASSUME UNCHANGED <<acc, snaps, latest, used>>
      PROVE  HistoryInv'
  BY <1>2 DEF Total, Counted, Stored
<1>3. ASSUME RunShape', acc.pc \in Unwritten, acc'.pc \in Unwritten,
             UNCHANGED <<snaps, latest, used>>
      PROVE  HistoryInv'
  BY <1>3 DEF Stored
<1>4. CASE BeginRun
  <2>1. CASE latest = Torn
    BY <1>4, <2>1 DEF BeginRun, store, Stored
  <2>2. CASE latest # Torn
    <3>1. /\ acc' = [acc EXCEPT !.pc = "begun", !.previous = latest]
          /\ used' = used + 1 /\ used' \in Runs
          /\ UNCHANGED <<snaps, latest>>
      BY <1>4, <2>2 DEF BeginRun, store
    <3>2. RunShape' /\ acc'.pc = "begun"
      BY <3>1
    <3>3. QED
      BY <3>1, <3>2 DEF Stored
  <2>3. QED
    BY <2>1, <2>2
<1>5. CASE ReadPortfolio
  BY <1>3, <1>5 DEF ReadPortfolio, store
<1>6. CASE Stamp
  BY <1>3, <1>6 DEF Stamp, Step, ReadOnly, store
<1>7. CASE ListCashflows
  BY <1>1, <1>3, <1>7 DEF ListCashflows, EndRun, Step, ReadOnly, store
<1>8. CASE BuildWindows
  BY <1>1, <1>3, <1>8 DEF BuildWindows, EndRun, Step, ReadOnly, store
<1>9. CASE OpenSnapshot
  <2>1. /\ acc.pc = "snapshot" /\ acc' = [acc EXCEPT !.pc = "snapshotting"]
        /\ snaps' = [snaps EXCEPT ![used] = Torn]
        /\ UNCHANGED <<latest, used>>
    BY <1>9 DEF OpenSnapshot, Step
  <2>2. RunShape' /\ acc'.pc = "snapshotting"
    BY <2>1
  <2>3. QED
    BY <2>1, <2>2 DEF Stored
<1>10. CASE PutSnapshot
  <2>1. /\ acc.pc \in {"snapshot", "snapshotting"}
        /\ acc' = [acc EXCEPT !.pc = "summary"]
        /\ snaps' = [snaps EXCEPT ![used] = Total]
        /\ UNCHANGED <<latest, used>>
    BY <1>10 DEF PutSnapshot, Step, Ready
  <2>2. RunShape' /\ acc'.pc = "summary" /\ Total' = Total
    BY <2>1 DEF Total, Counted
  <2>3. snaps'[used'] = Total'
    BY <2>1, <2>2
  <2>4. QED
    BY <2>1, <2>2, <2>3 DEF Stored
<1>11. CASE OpenLatest
  <2>1. /\ acc.pc = "summary" /\ acc' = [acc EXCEPT !.pc = "summarising"]
        /\ latest' = Torn /\ UNCHANGED <<snaps, used>>
    BY <1>11 DEF OpenLatest, Step
  <2>2. RunShape' /\ acc'.pc = "summarising" /\ Total' = Total
    BY <2>1 DEF Total, Counted
  <2>3. QED
    BY <2>1, <2>2 DEF Stored
<1>12. CASE PutLatest
  <2>1. /\ acc.pc \in {"summary", "summarising"}
        /\ acc' = [acc EXCEPT !.pc = "publish"]
        /\ latest' = Total /\ UNCHANGED <<snaps, used>>
    BY <1>12 DEF PutLatest, Step, Ready
  <2>2. RunShape' /\ acc'.pc = "publish"
    BY <2>1
  <2>3. used \in Runs /\ snaps'[used] = latest'
    BY <2>1
  <2>4. QED
    BY <2>1, <2>2, <2>3
<1>13. CASE SummaryFails
  <2>1. /\ acc.pc \in {"summary", "summarising"}
        /\ acc' = [acc EXCEPT !.pc = "publish"]
        /\ UNCHANGED <<snaps, latest, used>>
    BY <1>13 DEF SummaryFails, store
  <2>2. RunShape' /\ acc'.pc = "publish"
    BY <2>1
  <2>3. QED
    BY <2>1, <2>2 DEF Stored
<1>14. CASE Publish \/ RunThrows \/ CrashLedger
  BY <1>1, <1>14 DEF Publish, RunThrows, CrashLedger, EndRun, Step, ReadOnly, store
<1>15. CASE \/ Tick \/ UNCHANGED ledger
            \/ \E f \in Flows : Transfer(f) \/ Post(f) \/ \E r \in Careful : LookUp(r, f)
            \/ \E r \in Recorders : CheckKey(r) \/ OpenCashflow(r) \/ PutCashflow(r)
                                    \/ RecordingFails(r)
  BY <1>2, <1>15
     DEF Tick, ledger, Transfer, Post, LookUp, CheckKey, OpenCashflow, PutCashflow,
         RecordingFails, Date, Rec, store, world, history
<1>16. QED
  BY <1>4, <1>5, <1>6, <1>7, <1>8, <1>9, <1>10, <1>11, <1>12, <1>13, <1>14, <1>15
     DEF LedgerNext, RunSteps

\* After any crash or failed write the summary the next run compares with is one
\* whose snapshot is stored (src/src/services/accounting.ts, execute).
THEOREM SummaryNeverAhead == LedgerSpec => []SummaryHasSnapshot
<1>1. HistoryInv => SummaryHasSnapshot
  BY DEF HistoryInv, SummaryHasSnapshot
<1>2. QED
  BY HistoryInvInit, HistoryInvStep, <1>1, PTL DEF LedgerSpec

-----------------------------------------------------------------------------
(* A cashflow is stored once.                                              *)

RecPcs == {"idle", "priced", "writing", "open"}
Busy(r) == rec[r].pc # "idle"
Marked(f) == f \in raced \cup byHand

RecShape ==
    /\ DOMAIN rec = Recorders /\ DOMAIN cash = Keys
    /\ \A r \in Recorders :
         /\ rec[r] = [pc |-> rec[r].pc, flow |-> rec[r].flow, at |-> rec[r].at]
         /\ rec[r].pc \in RecPcs
         /\ Busy(r) => rec[r].flow \in Flows

\* Two recordings of one transfer are known to race, and whatever the operator
\* posts is known to be posted by hand.
Noted ==
    /\ \A r, q \in Recorders :
         (r # q /\ Busy(r) /\ Busy(q) /\ rec[r].flow = rec[q].flow) => rec[r].flow \in raced
    /\ Busy("manual") => rec["manual"].flow \in byHand

\* Who has found the key free and is not racing still finds it free, and his own
\* half file is what he completes.
KeyIsOurs ==
    \A r \in Recorders :
      (Busy(r) /\ rec[r].flow \notin raced /\ Target(r) \in Keys) =>
        /\ rec[r].pc = "writing" => cash[Target(r)] = Null
        /\ rec[r].pc = "open" => cash[Target(r)] = Torn

\* Who looked the transfer up is the first to store it, under one month only.
FirstToStore ==
    \A r \in Careful : \A m \in Months :
      (Busy(r) /\ ~Marked(rec[r].flow) /\ cash[<<rec[r].flow, m>>] # Null) =>
        rec[r].pc = "open" /\ m = MonthOf(rec[r].at)

OneMonth ==
    \A f \in Flows : ~Marked(f) =>
      \A m, n \in Months : (cash[<<f, m>>] # Null /\ cash[<<f, n>>] # Null) => m = n

CashInv == RecShape /\ Noted /\ KeyIsOurs /\ FirstToStore /\ OneMonth

LEMMA CashInvInit == LedgerInit => CashInv
  BY DEF LedgerInit, CashInv, RecShape, Noted, KeyIsOurs, FirstToStore, OneMonth,
         IdleRec, Busy, RecPcs

\* A recorder that gives up, or is taken down with others, loosens every promise.
LEMMA GivingUp ==
    ASSUME CashInv, UNCHANGED <<cash, raced, byHand>>, DOMAIN rec' = Recorders,
           \A r \in Recorders : rec'[r] \in {rec[r], IdleRec}
    PROVE  CashInv'
<1> USE DEF CashInv, Busy, Marked
<1>1. RecShape'
  BY DEF RecShape, IdleRec, RecPcs
<1>2. Noted'
  BY DEF Noted, IdleRec
<1>3. KeyIsOurs'
  BY DEF KeyIsOurs, IdleRec, Target
<1>4. FirstToStore'
  BY DEF FirstToStore, IdleRec
<1>5. OneMonth'
  BY DEF OneMonth
<1>6. QED
  BY <1>1, <1>2, <1>3, <1>4, <1>5

\* A recording begins: by a careful recorder, who found nothing, or by hand.
LEMMA Beginning ==
    ASSUME CashInv, NEW r \in Recorders, NEW f \in Flows, NEW at, Meet(r, f),
           rec' = [rec EXCEPT ![r] = [pc |-> "priced", flow |-> f, at |-> at]],
           UNCHANGED cash, ~Busy(r), byHand \subseteq byHand',
           r = "manual" => f \in byHand',
           r \in Careful => Unknown(f)
    PROVE  CashInv'
<1> USE DEF CashInv, Busy, Marked
<1>1. /\ raced \subseteq raced' /\ rec'[r] = [pc |-> "priced", flow |-> f, at |-> at]
      /\ \A q \in Recorders \ {r} : rec'[q] = rec[q]
      /\ \A q \in Recorders \ {r} : rec[q].flow = f => f \in raced'
  BY DEF Meet, RecShape
<1>2. RecShape'
  BY <1>1 DEF RecShape, RecPcs
<1>3. Noted'
  BY <1>1, <1>2 DEF Noted, RecShape
<1>4. KeyIsOurs'
  BY <1>1 DEF KeyIsOurs, Target
<1>5. FirstToStore'
  <2>1. ASSUME NEW q \in Careful, NEW m \in Months, Busy(q)', ~Marked(rec[q].flow)',
               cash'[<<rec'[q].flow, m>>] # Null
        PROVE  rec'[q].pc = "open" /\ m = MonthOf(rec'[q].at)
    <3>1. CASE q = r
      BY <1>1, <2>1, <3>1 DEF Unknown
    <3>2. CASE q # r
      BY <1>1, <2>1, <3>2 DEF FirstToStore
    <3>3. QED
      BY <3>1, <3>2
  <2>2. QED
    BY <2>1 DEF FirstToStore
<1>6. OneMonth'
  BY <1>1 DEF OneMonth
<1>7. QED
  BY <1>2, <1>3, <1>4, <1>5, <1>6

\* A recorder finds its key free.
LEMMA Finding ==
    ASSUME CashInv, NEW r \in Recorders, rec[r].pc = "priced", cash[Target(r)] = Null,
           rec' = [rec EXCEPT ![r] = [rec[r] EXCEPT !.pc = "writing"]],
           UNCHANGED <<cash, raced, byHand>>
    PROVE  CashInv'
<1> USE DEF CashInv, Busy, Marked
<1>1. /\ rec'[r] = [pc |-> "writing", flow |-> rec[r].flow, at |-> rec[r].at]
      /\ DOMAIN rec' = Recorders /\ \A q \in Recorders \ {r} : rec'[q] = rec[q]
  BY DEF RecShape
<1>2. RecShape'
  BY <1>1 DEF RecShape, RecPcs
<1>3. Noted'
  BY <1>1 DEF Noted
<1>4. KeyIsOurs'
  BY <1>1 DEF KeyIsOurs, Target
<1>5. FirstToStore'
  BY <1>1 DEF FirstToStore
<1>6. OneMonth'
  BY DEF OneMonth
<1>7. QED
  BY <1>2, <1>3, <1>4, <1>5, <1>6

\* The object under the key is written by who may write it: half of it, or all.
LEMMA Storing ==
    ASSUME CashInv, NEW r \in Recorders, NEW object,
           \/ /\ rec[r].pc = "writing" /\ object = Torn
              /\ rec' = [rec EXCEPT ![r] = [rec[r] EXCEPT !.pc = "open"]]
           \/ rec[r].pc \in {"writing", "open"} /\ rec' = [rec EXCEPT ![r] = IdleRec],
           cash' = [cash EXCEPT ![Target(r)] = object],
           UNCHANGED <<raced, byHand>>
    PROVE  CashInv'
<1> DEFINE f == rec[r].flow
           open == rec' = [rec EXCEPT ![r] = [rec[r] EXCEPT !.pc = "open"]]
<1> USE DEF CashInv, Busy, Marked
<1>1. /\ DOMAIN rec' = Recorders /\ \A q \in Recorders \ {r} : rec'[q] = rec[q]
      /\ DOMAIN cash' = Keys /\ \A k \in Keys \ {Target(r)} : cash'[k] = cash[k]
      /\ Target(r) \in Keys => cash'[Target(r)] = object
      /\ f \in Flows
  BY DEF RecShape
<1>2. \/ rec'[r] = IdleRec
      \/ rec'[r] = [pc |-> "open", flow |-> f, at |-> rec[r].at] /\ object = Torn
  BY <1>1 DEF RecShape, IdleRec
<1>3. RecShape'
  BY <1>1, <1>2 DEF RecShape, RecPcs, IdleRec
<1>4. Noted'
  BY <1>1, <1>2 DEF Noted, IdleRec
<1>5. KeyIsOurs'
  <2>1. ASSUME NEW q \in Recorders, q # r, Busy(q), rec[q].flow \notin raced
        PROVE  Target(q) # Target(r)
    BY <2>1 DEF Noted, Target
  <2>2. QED
    BY <1>1, <1>2, <2>1 DEF KeyIsOurs, Target, IdleRec
<1>6. FirstToStore'
  <2>1. ASSUME NEW q \in Careful, NEW m \in Months, Busy(q)', ~Marked(rec[q].flow)',
               cash'[<<rec'[q].flow, m>>] # Null
        PROVE  rec'[q].pc = "open" /\ m = MonthOf(rec'[q].at)
    <3>1. CASE q = r
      <4>1. rec'[r] = [pc |-> "open", flow |-> f, at |-> rec[r].at] /\ rec[r].pc = "writing"
        BY <1>1, <1>2, <2>1, <3>1 DEF IdleRec, RecShape
      <4>2. <<f, m>> \in Keys /\ (m # MonthOf(rec[r].at) => <<f, m>> # Target(r))
        BY <1>1 DEF Target
      <4>3. QED
        BY <1>1, <2>1, <3>1, <4>1, <4>2 DEF FirstToStore
    <3>2. CASE q # r
      <4>1. rec'[q] = rec[q] /\ rec[q].flow # f
        BY <1>1, <2>1, <3>2 DEF Noted
      <4>2. <<rec[q].flow, m>> \in Keys \ {Target(r)}
        BY <2>1, <3>2, <4>1 DEF RecShape, Target
      <4>3. QED
        BY <1>1, <2>1, <4>1, <4>2 DEF FirstToStore
    <3>3. QED
      BY <3>1, <3>2
  <2>2. QED
    BY <2>1 DEF FirstToStore
<1>7. OneMonth'
  <2>1. ASSUME NEW g \in Flows, ~Marked(g), NEW m \in Months, NEW n \in Months,
               cash'[<<g, m>>] # Null, cash'[<<g, n>>] # Null
        PROVE  m = n
    <3>1. CASE g # f
      BY <1>1, <2>1, <3>1 DEF OneMonth, Target
    <3>2. CASE g = f
      <4>1. r \in Careful
        BY <2>1, <3>2 DEF Noted
      <4>2. \A l \in Months : cash[<<f, l>>] # Null => l = MonthOf(rec[r].at)
        BY <2>1, <3>2, <4>1 DEF FirstToStore
      <4>3. \A l \in Months : cash'[<<f, l>>] # Null => l = MonthOf(rec[r].at)
        BY <1>1, <4>2 DEF Target
      <4>4. QED
        BY <2>1, <3>2, <4>3
    <3>3. QED
      BY <3>1, <3>2
  <2>2. QED
    BY <2>1 DEF OneMonth
<1>8. QED
  BY <1>3, <1>4, <1>5, <1>6, <1>7

LEMMA CashInvStep == CashInv /\ [LedgerNext]_ledger => CashInv'
<1> SUFFICES ASSUME CashInv, [LedgerNext]_ledger
             PROVE  CashInv'
  OBVIOUS
<1>1. CASE RunSteps \/ CrashLedger \/ Tick \/ UNCHANGED ledger \/ \E f \in Flows : Transfer(f)
  <2>1. CASE RunSteps \/ Tick \/ UNCHANGED ledger \/ \E f \in Flows : Transfer(f)
    <3>1. UNCHANGED <<cash, rec, raced, byHand>>
      BY <2>1 DEF RunSteps, BeginRun, ReadPortfolio, Stamp, ListCashflows, BuildWindows,
                  OpenSnapshot, PutSnapshot, OpenLatest, PutLatest, SummaryFails, Publish,
                  RunThrows, EndRun, Step, ReadOnly, Tick, Transfer, ledger, store, world,
                  history
    <3>2. QED
      BY <3>1, GivingUp DEF CashInv, RecShape
  <2>2. CASE CrashLedger
    BY <2>2, GivingUp DEF CrashLedger, store
  <2>3. QED
    BY <1>1, <2>1, <2>2
<1>2. ASSUME NEW f \in Flows, Post(f)
      PROVE  CashInv'
  <2>1. PICK at : Rec("manual", [pc |-> "priced", flow |-> f, at |-> at])
    BY <1>2 DEF Post, Date
  <2>2. QED
    BY <1>2, <2>1, Beginning DEF Post, Rec, store, Busy
<1>3. ASSUME NEW f \in Flows, NEW r \in Careful, LookUp(r, f)
      PROVE  CashInv'
  <2>1. PICK at : Rec(r, [pc |-> "priced", flow |-> f, at |-> at])
    BY <1>3 DEF LookUp, Date
  <2>2. QED
    BY <1>3, <2>1, Beginning DEF LookUp, Rec, store, Busy
<1>4. ASSUME NEW r \in Recorders, CheckKey(r)
      PROVE  CashInv'
  <2>1. CASE cash[Target(r)] = Null
    BY <1>4, <2>1, Finding DEF CheckKey, Rec, store, history
  <2>2. CASE cash[Target(r)] # Null
    BY <1>4, <2>2, GivingUp DEF CheckKey, Rec, store, history, CashInv, RecShape
  <2>3. QED
    BY <2>1, <2>2
<1>5. ASSUME NEW r \in Recorders, OpenCashflow(r)
      PROVE  CashInv'
  BY <1>5, Storing DEF OpenCashflow, Rec, history
<1>6. ASSUME NEW r \in Recorders, PutCashflow(r)
      PROVE  CashInv'
  BY <1>6, Storing DEF PutCashflow, Rec, history
<1>7. ASSUME NEW r \in Recorders, RecordingFails(r)
      PROVE  CashInv'
  BY <1>7, GivingUp DEF RecordingFails, Rec, store, CashInv, RecShape
<1>8. QED
  BY <1>1, <1>2, <1>3, <1>4, <1>5, <1>6, <1>7 DEF LedgerNext

\* A step writes only under the key of a recorder that found it free.
LEMMA StoredStays ==
    ASSUME CashInv, [LedgerNext]_ledger, NEW f \in Flows, NEW m \in Months,
           Stored(cash[<<f, m>>]), f \notin raced'
    PROVE  cash'[<<f, m>>] = cash[<<f, m>>]
<1>1. CASE \E r \in Recorders : OpenCashflow(r) \/ PutCashflow(r)
  <2>1. PICK r \in Recorders : OpenCashflow(r) \/ PutCashflow(r)
    BY <1>1
  <2>2. /\ rec[r].pc \in {"writing", "open"} /\ raced' = raced
        /\ \E object : cash' = [cash EXCEPT ![Target(r)] = object]
    BY <2>1 DEF OpenCashflow, PutCashflow, history
  <2>3. CASE rec[r].flow \in raced
    BY <2>2, <2>3 DEF CashInv, RecShape, Target
  <2>4. CASE Target(r) \notin Keys
    BY <2>2, <2>4 DEF CashInv, RecShape
  <2>5. CASE Target(r) \in Keys /\ rec[r].flow \notin raced
    <3>1. ~Stored(cash[Target(r)])
      BY <2>2, <2>5 DEF CashInv, KeyIsOurs, Busy, Stored
    <3>2. QED
      BY <2>2, <3>1 DEF CashInv, RecShape
  <2>6. QED
    BY <2>3, <2>4, <2>5
<1>2. CASE ~\E r \in Recorders : OpenCashflow(r) \/ PutCashflow(r)
  BY <1>2 DEF LedgerNext, RunSteps, BeginRun, ReadPortfolio, Stamp, ListCashflows,
              BuildWindows, OpenSnapshot, PutSnapshot, OpenLatest, PutLatest, SummaryFails,
              Publish, RunThrows, CrashLedger, EndRun, Step, ReadOnly, Tick, Transfer, Post,
              LookUp, CheckKey, RecordingFails, Rec, ledger, store, world, history
<1>3. QED
  BY <1>1, <1>2

\* A set without two different elements.
LEMMA AtMostOne ==
    ASSUME NEW S, \A x, y \in S : x = y
    PROVE  ~(Cardinality(S) > 1)
<1>1. CASE S = {}
  BY <1>1, FS_EmptySet
<1>2. CASE S # {}
  <2>1. PICK x \in S : TRUE
    BY <1>2
  <2>2. S = {x}
    BY <2>1
  <2>3. QED
    BY <2>2, FS_Singleton
<1>3. QED
  BY <1>1, <1>2

\* A cashflow is stored once and for all: recorded by the command or by a review
\* it is never replaced nor stored under a second month, unless two recordings
\* of it race or it is posted by hand (recordCashflowFromTx, putCashflow).
THEOREM CashflowsStay == LedgerSpec => CashflowsAreImmutable
<1> DEFINE Stays(f) ==
             /\ (Cardinality({m \in Months : cash'[<<f, m>>] # Null}) > 1
                   => f \in raced' \cup byHand')
             /\ \A m \in Months : (Stored(cash[<<f, m>>]) /\ f \notin raced')
                                   => cash'[<<f, m>>] = cash[<<f, m>>]
<1>1. ASSUME CashInv, CashInv', [LedgerNext]_ledger, NEW f \in Flows
      PROVE  Stays(f)
  <2>1. ASSUME f \notin raced' \cup byHand'
        PROVE  ~(Cardinality({m \in Months : cash'[<<f, m>>] # Null}) > 1)
    <3>1. \A l, n \in {m \in Months : cash'[<<f, m>>] # Null} : l = n
      BY <1>1, <2>1 DEF CashInv, OneMonth, Marked
    <3>2. QED
      BY <3>1, AtMostOne
  <2>2. QED
    BY <1>1, <2>1, StoredStays
<1>2. CashInv /\ CashInv' /\ [LedgerNext]_ledger => [\A f \in Flows : Stays(f)]_ledger
  BY <1>1
<1>3. QED
  BY <1>2, CashInvInit, CashInvStep, PTL DEF LedgerSpec, CashflowsAreImmutable

-----------------------------------------------------------------------------
(* Sums over finite sets.  The induction runs over a set of sets, as the   *)
(* provers cannot instantiate an operator.                                 *)

LEMMA SetInduction ==
    ASSUME NEW S, IsFiniteSet(S), NEW Good,
           \A T \in SUBSET S : (\A U \in SUBSET T : U # T => U \in Good) => T \in Good
    PROVE  \A T \in SUBSET S : T \in Good
<1> DEFINE Bad == {T \in SUBSET S : T \notin Good}
<1>1. SUFFICES ASSUME Bad # {} PROVE FALSE
  OBVIOUS
<1>2. FiniteSubsetsOf(S) = SUBSET S
  BY FS_FiniteSubsetsOfFinite
<1>3. IsWellFoundedOn(StrictSubsetOrdering(S), SUBSET S)
  BY <1>2, FS_StrictSubsetOrderingWellFounded
<1>4. PICK T \in Bad : \A U \in Bad : <<U, T>> \notin StrictSubsetOrdering(S)
  <2>1. PICK B : B = Bad
    OBVIOUS
  <2>2. B \subseteq SUBSET S /\ B # {}
    BY <1>1, <2>1
  <2>3. \E T \in B : \A U \in B : ~ (<<U, T>> \in StrictSubsetOrdering(S))
    BY ONLY <1>3, <2>2, WFMin
  <2>4. QED
    BY <2>1, <2>3
<1>5. \A U \in SUBSET T : U # T => U \in Good
  BY <1>4 DEF StrictSubsetOrdering
<1>6. QED
  BY <1>4, <1>5

\* What MapThenSumSet iterates: the sum of w over each part of S, element by
\* element.
Pick(s) == CHOOSE x \in s : TRUE
Iterates(w, S, sum) ==
    sum = [s \in SUBSET S |-> IF s = {} THEN 0 ELSE w[Pick(s)] + sum[s \ {Pick(s)}]]
Sum(w, S) == (CHOOSE sum : Iterates(w, S, sum))[S]

LEMMA PickIs == \A s : s # {} => Pick(s) \in s /\ s \ {Pick(s)} # s
  BY DEF Pick

LEMMA SumsAgree ==
    ASSUME NEW w, NEW S, NEW T, NEW R, IsFiniteSet(R), R \subseteq S, R \subseteq T,
           NEW f, NEW g, Iterates(w, S, f), Iterates(w, T, g)
    PROVE  f[R] = g[R]
<1> DEFINE Good == {U \in SUBSET R : f[U] = g[U]}
<1>1. ASSUME NEW U \in SUBSET R, \A V \in SUBSET U : V # U => V \in Good
      PROVE  U \in Good
  <2>1. /\ f[U] = IF U = {} THEN 0 ELSE w[Pick(U)] + f[U \ {Pick(U)}]
        /\ g[U] = IF U = {} THEN 0 ELSE w[Pick(U)] + g[U \ {Pick(U)}]
    BY DEF Iterates
  <2>2. U # {} => f[U \ {Pick(U)}] = g[U \ {Pick(U)}]
    BY <1>1, PickIs
  <2>3. QED
    BY <2>1, <2>2
<1> HIDE DEF Good
<1>2. R \in Good
  BY <1>1, SetInduction
<1>3. QED
  BY <1>2 DEF Good

LEMMA SumExists ==
    ASSUME NEW w, NEW S, IsFiniteSet(S)
    PROVE  \E sum : Iterates(w, S, sum)
<1> DEFINE Good == {T \in SUBSET S : \E sum : Iterates(w, T, sum)}
<1>1. ASSUME NEW T \in SUBSET S, \A U \in SUBSET T : U # T => U \in Good
      PROVE  T \in Good
  <2> DEFINE sum == [s \in SUBSET T |->
                       IF s = {} THEN 0 ELSE w[Pick(s)] + Sum(w, s \ {Pick(s)})]
  <2>1. ASSUME NEW s \in SUBSET T, s # {}
        PROVE  sum[s \ {Pick(s)}] = Sum(w, s \ {Pick(s)})
    <3>1. PICK U : U = s \ {Pick(s)}
      OBVIOUS
    <3>2. U \in SUBSET T /\ U # T /\ IsFiniteSet(U)
      BY <2>1, <3>1, PickIs, FS_Subset
    <3>3. PICK f : f = CHOOSE h : Iterates(w, U, h)
      OBVIOUS
    <3>4. Iterates(w, U, f) /\ Sum(w, U) = f[U]
      BY <1>1, <3>2, <3>3 DEF Sum
    <3>5. f[U] = IF U = {} THEN 0 ELSE w[Pick(U)] + f[U \ {Pick(U)}]
      BY <3>4 DEF Iterates
    <3>6. ASSUME U # {} PROVE f[U \ {Pick(U)}] = Sum(w, U \ {Pick(U)})
      <4>1. PICK V : V = U \ {Pick(U)}
        OBVIOUS
      <4>2. V \in SUBSET U /\ V \in SUBSET T /\ V # T /\ IsFiniteSet(V)
        BY <3>2, <3>6, <4>1, PickIs, FS_Subset
      <4>3. PICK g : g = CHOOSE h : Iterates(w, V, h)
        OBVIOUS
      <4>4. Iterates(w, V, g) /\ Sum(w, V) = g[V]
        BY <1>1, <4>2, <4>3 DEF Sum
      <4>5. f[V] = g[V]
        BY <3>4, <4>2, <4>4, SumsAgree
      <4>6. QED
        BY <4>1, <4>4, <4>5
    <3>7. sum[U] = IF U = {} THEN 0 ELSE w[Pick(U)] + Sum(w, U \ {Pick(U)})
      BY <3>2
    <3>8. QED
      BY <3>1, <3>4, <3>5, <3>6, <3>7
  <2>2. Iterates(w, T, sum)
    BY <2>1 DEF Iterates
  <2>3. QED
    BY <2>2
<1> HIDE DEF Good
<1>2. S \in Good
  BY <1>1, SetInduction
<1>3. QED
  BY <1>2 DEF Good

LEMMA SumIs ==
    ASSUME NEW w, NEW S, IsFiniteSet(S)
    PROVE  Sum(w, S) = IF S = {} THEN 0 ELSE w[Pick(S)] + Sum(w, S \ {Pick(S)})
<1>1. PICK f : f = CHOOSE h : Iterates(w, S, h)
  OBVIOUS
<1>2. Iterates(w, S, f) /\ Sum(w, S) = f[S]
  BY <1>1, SumExists DEF Sum
<1>3. f[S] = IF S = {} THEN 0 ELSE w[Pick(S)] + f[S \ {Pick(S)}]
  BY <1>2 DEF Iterates
<1>4. ASSUME S # {} PROVE f[S \ {Pick(S)}] = Sum(w, S \ {Pick(S)})
  <2>1. PICK U : U = S \ {Pick(S)}
    OBVIOUS
  <2>2. PICK g : g = CHOOSE h : Iterates(w, U, h)
    OBVIOUS
  <2>3. U \subseteq S /\ IsFiniteSet(U)
    BY <2>1, FS_Subset
  <2>4. Iterates(w, U, g) /\ Sum(w, U) = g[U]
    BY <2>2, <2>3, SumExists DEF Sum
  <2>5. f[U] = g[U]
    BY <1>2, <2>3, <2>4, SumsAgree
  <2>6. QED
    BY <2>1, <2>4, <2>5
<1>5. QED
  BY <1>2, <1>3, <1>4

\* The total of the wallet and of the cashflows are such sums.
LEMMA NavIsSum ==
    ASSUME NEW S, IsFiniteSet(S)
    PROVE  Nav(S) = Sum(Amount, S)
<1>1. \E sum : Iterates(Amount, S, sum)
  BY SumExists
<1>2. QED
  BY <1>1 DEF Nav, MapThenSumSet, MapThenFoldSet, Iterates, Sum, Pick

LEMMA SumOfOne ==
    ASSUME NEW w, NEW x, w[x] \in Int
    PROVE  Sum(w, {x}) = w[x] /\ Sum(w, {}) = 0
<1>1. IsFiniteSet({x}) /\ IsFiniteSet({}) /\ {x} # {}
  BY FS_Singleton, FS_EmptySet
<1>2. Sum(w, {}) = 0
  BY <1>1, SumIs
<1>3. Pick({x}) = x
  BY DEF Pick
<1>4. {x} \ {Pick({x})} = {}
  BY <1>3
<1>5. Sum(w, {x}) = w[Pick({x})] + Sum(w, {x} \ {Pick({x})})
  BY <1>1, SumIs
<1>6. Sum(w, {x}) = w[x] + 0
  BY ONLY <1>2, <1>3, <1>4, <1>5
<1>7. QED
  BY <1>2, <1>6

LEMMA SumsSplit ==
    ASSUME NEW w, NEW S, IsFiniteSet(S), \A x \in S : w[x] \in Int
    PROVE  /\ Sum(w, S) \in Int
           /\ \A T \in SUBSET S : Sum(w, S) = Sum(w, T) + Sum(w, S \ T)
<1> DEFINE Parts(R) == /\ Sum(w, R) \in Int
                       /\ \A T \in SUBSET R : Sum(w, R) = Sum(w, T) + Sum(w, R \ T)
           Good == {R \in SUBSET S : Parts(R)}
<1>1. ASSUME NEW R \in SUBSET S, \A U \in SUBSET R : U # R => U \in Good
      PROVE  R \in Good
  <2>1. CASE R = {}
    <3>1. Sum(w, {}) = 0
      BY SumIs, FS_EmptySet
    <3>2. ASSUME NEW T \in SUBSET R
          PROVE  Sum(w, R) = Sum(w, T) + Sum(w, R \ T)
      <4>1. R = {} /\ T = {} /\ R \ T = {}
        BY <2>1
      <4>2. Sum(w, R) = 0 /\ Sum(w, T) = 0 /\ Sum(w, R \ T) = 0
        BY ONLY <3>1, <4>1
      <4>3. QED
        BY ONLY <4>2
    <3>3. Sum(w, R) \in Int
      BY <2>1, <3>1
    <3>4. QED
      BY <3>2, <3>3
  <2>2. CASE R # {}
    <3>1. PICK x : x = Pick(R)
      OBVIOUS
    <3>2. x \in R /\ w[x] \in Int /\ Parts(R \ {x})
      BY <1>1, <2>2, <3>1, PickIs
    <3>3. Sum(w, R) = w[x] + Sum(w, R \ {x})
      BY <2>2, <3>1, SumIs, FS_Subset
    <3>4. Sum(w, {x}) = w[x] /\ Sum(w, {}) = 0
      BY <3>2, SumOfOne
    \* The sum of a part other than the whole, by the element taken first.
    <3>5. ASSUME NEW T \in SUBSET R, T # R, x \in T
          PROVE  Sum(w, T) = w[x] + Sum(w, T \ {x}) /\ Sum(w, T) \in Int
      BY <1>1, <3>4, <3>5
    <3>6. ASSUME NEW T \in SUBSET R, x \in T
          PROVE  Sum(w, R) = Sum(w, T) + Sum(w, R \ T)
      <4>1. CASE T = R
        <5>1. Sum(w, R) \in Int /\ R \ T = {}
          BY <3>2, <3>3, <4>1
        <5>2. Sum(w, R \ T) = 0
          BY ONLY <3>4, <5>1
        <5>3. QED
          BY ONLY <4>1, <5>1, <5>2
      <4>2. CASE T # R
        <5>1. Sum(w, T) = w[x] + Sum(w, T \ {x})
          BY <3>5, <3>6, <4>2
        <5>2. PICK A : A = T \ {x}
          OBVIOUS
        <5>3. A \in SUBSET (R \ {x}) /\ (R \ {x}) \ A = R \ T
          BY <3>6, <5>2
        <5>4. Sum(w, R \ {x}) = Sum(w, A) + Sum(w, R \ T)
          BY <3>2, <5>3
        <5>5. R \ T # R /\ A # R
          BY <3>2, <3>6, <5>2
        <5>6. Sum(w, A) \in Int /\ Sum(w, R \ T) \in Int
          BY <1>1, <5>3, <5>5
        <5>7. QED
          BY <3>2, <3>3, <5>1, <5>2, <5>4, <5>6
      <4>3. QED
        BY <4>1, <4>2
    <3>7. ASSUME NEW T \in SUBSET R
          PROVE  Sum(w, R) = Sum(w, T) + Sum(w, R \ T)
      <4>1. CASE x \in T
        BY <3>6, <4>1
      <4>2. CASE x \notin T
        <5>1. PICK A : A = R \ T
          OBVIOUS
        <5>2. A \in SUBSET R /\ x \in A /\ R \ A = T
          BY <3>2, <4>2, <5>1
        <5>3. Sum(w, R) = Sum(w, A) + Sum(w, T)
          BY <3>6, <5>2
        <5>4. Sum(w, T) \in Int
          BY <1>1, <3>2, <4>2
        <5>5. Sum(w, A) \in Int
          <6>1. CASE A = R
            BY <3>2, <3>3, <6>1
          <6>2. CASE A # R
            BY <1>1, <5>2, <6>2
          <6>3. QED
            BY <6>1, <6>2
        <5>6. QED
          BY <5>1, <5>3, <5>4, <5>5
      <4>3. QED
        BY <4>1, <4>2
    <3>8. Sum(w, R) \in Int
      BY <3>2, <3>3
    <3>9. QED
      BY <3>7, <3>8
  <2>3. QED
    BY <2>1, <2>2
<1> HIDE DEF Good
<1>2. S \in Good
  BY <1>1, SetInduction
<1> USE DEF Good
<1>3. QED
  BY <1>2

\* Counted by keys that name different elements, a sum is the same.
LEMMA SumsRename ==
    ASSUME NEW v, NEW w, NEW K, IsFiniteSet(K), \A k \in K : v[k] = w[k[1]],
           \A k \in K : w[k[1]] \in Int, \A j, k \in K : j[1] = k[1] => j = k
    PROVE  Sum(v, K) = Sum(w, {k[1] : k \in K})
<1> DEFINE Named(J) == {k[1] : k \in J}
           Good == {J \in SUBSET K : Sum(v, J) = Sum(w, Named(J))}
<1>1. ASSUME NEW J \in SUBSET K, \A U \in SUBSET J : U # J => U \in Good
      PROVE  J \in Good
  <2>1. CASE J = {}
    <3>1. Sum(v, {}) = 0 /\ Sum(w, {}) = 0 /\ Named(J) = {}
      BY <2>1, SumIs, FS_EmptySet
    <3>2. QED
      BY <2>1, <3>1
  <2>2. CASE J # {}
    <3>1. PICK k : k = Pick(J)
      OBVIOUS
    <3>2. k \in J /\ J \ {k} # J /\ IsFiniteSet(J)
      BY <2>2, <3>1, PickIs, FS_Subset
    <3>3. Sum(v, J) = v[k] + Sum(v, J \ {k})
      BY <2>2, <3>1, <3>2, SumIs
    <3>4. Sum(v, J \ {k}) = Sum(w, Named(J \ {k}))
      BY <1>1, <3>2
    <3>5. Named(J \ {k}) = Named(J) \ {k[1]} /\ k[1] \in Named(J)
      BY <3>2
    <3>6. IsFiniteSet(Named(J)) /\ \A x \in Named(J) : w[x] \in Int
      <4>1. [j \in J |-> j[1]] \in Surjection(J, Named(J))
        BY DEF Surjection
      <4>2. IsFiniteSet(J)
        BY FS_Subset
      <4>3. QED
        BY <4>1, <4>2, FS_Surjection
    <3>7. PICK N : N = Named(J)
      OBVIOUS
    <3>8. PICK x : x = k[1]
      OBVIOUS
    <3> HIDE DEF Named
    <3>9. Sum(w, N) = Sum(w, {x}) + Sum(w, N \ {x})
      BY <3>5, <3>6, <3>7, <3>8, SumsSplit
    <3>10. v[k] = w[x] /\ w[x] \in Int
      BY <3>2, <3>8
    <3>11. Sum(w, {x}) = w[x]
      BY <3>10, SumOfOne
    <3>12. Sum(v, J \ {k}) = Sum(w, N \ {x})
      BY <3>4, <3>5, <3>7, <3>8
    <3>13. Sum(v, J) = Sum(w, N)
      BY <3>3, <3>9, <3>10, <3>11, <3>12
    <3>14. QED
      BY <3>7, <3>13
  <2>3. QED
    BY <2>1, <2>2
<1> HIDE DEF Good
<1>2. K \in Good
  BY <1>1, SetInduction
<1> USE DEF Good
<1>3. QED
  BY <1>2

-----------------------------------------------------------------------------
(* Funding is not profit.                                                  *)

\* A total with what it saw: every transfer it saw had happened by its asOf.
Sound(w, t, by) ==
    /\ t.asOf \in Nat /\ t.asOf <= by
    /\ t.seen \subseteq Flows /\ t.left \subseteq t.seen /\ t.nav = Nav(t.seen \ t.left)
    /\ \A f \in t.seen : w[f] <= t.asOf

ClockInv ==
    /\ clock \in 0..MaxTime /\ DOMAIN when = Flows
    /\ \A f \in Flows : when[f] \in 0..clock \cup {Never}

\* What has happened keeps its time.
Kept == clock <= clock' /\ \A f \in Flows : when[f] <= clock => when'[f] = when[f]

\* A cashflow is recorded once its transfer has happened, under the month of its
\* date.
DatesInv ==
    /\ \A k \in Keys : Stored(cash[k]) =>
         /\ cash[k].at \in Nat /\ k[2] = MonthOf(cash[k].at)
         /\ when[k[1]] <= clock
    /\ \A r \in Recorders : Busy(r) =>
         /\ rec[r].flow \in Flows /\ rec[r].at \in Nat
         /\ when[rec[r].flow] <= clock

\* By when a run has seen what it has seen.
Stamped == acc.pc \notin {"idle", "begun", "read"}
SeenBy == IF Stamped THEN acc.asOf ELSE clock

TotalsInv ==
    /\ \A i \in Runs : Stored(snaps[i]) => Sound(when, snaps[i], clock)
    /\ Stored(latest) => Sound(when, latest, clock)
    /\ acc.pc # "idle" /\ acc.previous # Null => Sound(when, acc.previous, SeenBy)
    /\ acc.seen \subseteq Flows /\ \A f \in acc.seen : when[f] <= SeenBy
    /\ acc.left \subseteq acc.seen
    /\ Stamped => acc.asOf \in 0..clock

\* The cashflows K that a P&L was reduced by are, of the settled transfers, those
\* since its start.
CashSum(K) == MapThenSumSet(LAMBDA k : Amount[k[1]], K)
Counts(K, since, listed) ==
    \A f \in listed :
      \/ f \notin acc.seen /\ \A n \in Months : <<f, n>> \notin K
      \/ /\ when[f] <= clock
         /\ \E m \in Months : \A n \in Months :
              <<f, n>> \in K <=> n = m /\ since.asOf < when[f] /\ when[f] <= acc.asOf
BalancedFor(pnl, listed) ==
    pnl.known =>
      /\ Sound(when, pnl.since, acc.asOf)
      /\ \E K \in SUBSET Keys : /\ Counts(K, pnl.since, listed)
                                /\ pnl.value = Counted - pnl.since.nav - CashSum(K)
Balanced(pnl) == BalancedFor(pnl, acc.listed)

Early == acc.pc \in {"idle", "begun", "read", "stamped"}
PnlInv ==
    /\ acc.listed \subseteq Flows
    /\ \A pnl \in {acc.daily, acc.roll, acc.all} :
         IF Early THEN pnl.known = FALSE ELSE Balanced(pnl)

NeutralInv == ClockInv /\ DatesInv /\ TotalsInv /\ PnlInv

LEMMA KeysAreFinite == IsFiniteSet(Keys)
<1>1. MaxTime \div MonthLength \in Int
  BY LedgerAssumption
<1>2. IsFiniteSet(Months)
  BY <1>1, FS_Interval DEF Months
<1>3. QED
  BY <1>2, LedgerAssumption, FS_Product

LEMMA CashIsSum ==
    ASSUME NEW K \in SUBSET Keys
    PROVE  CashSum(K) = Sum([k \in Keys |-> Amount[k[1]]], K)
<1>1. PICK w : w = [k \in Keys |-> Amount[k[1]]]
  OBVIOUS
<1> DEFINE Like(sum) ==
             sum = [s \in SUBSET K |-> IF s = {} THEN 0
                                       ELSE LET x == CHOOSE x \in s : TRUE
                                            IN  Amount[x[1]] + sum[s \ {x}]]
<1>2. IsFiniteSet(K)
  BY KeysAreFinite, FS_Subset
<1>3. \A sum : Like(sum) <=> Iterates(w, K, sum)
  <2> SUFFICES ASSUME NEW sum
               PROVE  Like(sum) <=> Iterates(w, K, sum)
    OBVIOUS
  <2>1. ASSUME NEW s \in SUBSET K, s # {} PROVE w[Pick(s)] = Amount[Pick(s)[1]]
    BY <1>1, <2>1, PickIs
  <2>2. [s \in SUBSET K |-> IF s = {} THEN 0 ELSE Amount[Pick(s)[1]] + sum[s \ {Pick(s)}]]
        = [s \in SUBSET K |-> IF s = {} THEN 0 ELSE w[Pick(s)] + sum[s \ {Pick(s)}]]
    BY <2>1
  <2>3. Like(sum) <=> sum = [s \in SUBSET K |-> IF s = {} THEN 0 ELSE
                               Amount[Pick(s)[1]] + sum[s \ {Pick(s)}]]
    BY DEF Pick
  <2>4. QED
    BY <2>2, <2>3 DEF Iterates
<1>4. PICK f : f = CHOOSE sum : Like(sum)
  OBVIOUS
<1>5. PICK g : g = CHOOSE sum : Iterates(w, K, sum)
  OBVIOUS
<1> HIDE DEF Like
<1>6. Iterates(w, K, f) /\ Iterates(w, K, g)
  <2>1. \E sum : Iterates(w, K, sum)
    BY <1>2, SumExists
  <2>2. Iterates(w, K, g)
    BY <1>5, <2>1
  <2>3. Like(f)
    BY <1>3, <1>4, <2>1
  <2>4. QED
    BY <1>3, <2>2, <2>3
<1> USE DEF Like
<1>7. f[K] = g[K]
  BY <1>2, <1>6, SumsAgree
<1>8. CashSum(K) = f[K]
  BY <1>4 DEF CashSum, MapThenSumSet, MapThenFoldSet
<1>9. Sum(w, K) = g[K]
  BY <1>5 DEF Sum
<1>10. QED
  BY <1>1, <1>7, <1>8, <1>9

\* A total is all of what was seen but for what it leaves out.
LEMMA PartsAdd ==
    ASSUME NEW S \in SUBSET Flows, NEW T \in SUBSET S
    PROVE  /\ Nav(S) = Nav(T) + Nav(S \ T)
           /\ Nav(S) \in Int /\ Nav(T) \in Int /\ Nav(S \ T) \in Int
<1>1. IsFiniteSet(S) /\ IsFiniteSet(T) /\ IsFiniteSet(S \ T)
  BY LedgerAssumption, FS_Subset
<1>2. \A x \in S : Amount[x] \in Int
  BY LedgerAssumption
<1>3. Sum(Amount, S) = Sum(Amount, T) + Sum(Amount, S \ T) /\ Sum(Amount, S) \in Int
  BY <1>1, <1>2, SumsSplit
<1>4. \A R \in SUBSET Flows : IsFiniteSet(R) /\ Sum(Amount, R) \in Int
  BY LedgerAssumption, FS_Subset, SumsSplit
<1>5. Sum(Amount, T) \in Int /\ Sum(Amount, S \ T) \in Int
  BY <1>4
<1>6. QED
  BY <1>1, <1>3, <1>5, NavIsSum

\* A balanced P&L is what its ends leave out differently when nothing was missed at
\* them and every transfer is settled.
LEMMA BalancedIsNeutral ==
    ASSUME NeutralInv, NEW pnl, Balanced(pnl), pnl.known,
           Straddled(acc) = {}, Straddled(pnl.since) = {}, acc.listed = Flows,
           Stamped
    PROVE  pnl.value = Nav(pnl.since.left) - Nav(acc.left)
<1>1. PICK since : since = pnl.since
  OBVIOUS
<1>2. PICK K \in SUBSET Keys : /\ Counts(K, since, acc.listed)
                               /\ pnl.value = Counted - since.nav - CashSum(K)
  BY <1>1 DEF Balanced, BalancedFor
<1>3. Sound(when, since, acc.asOf) /\ acc.asOf \in Nat
  BY <1>1 DEF Balanced, BalancedFor, NeutralInv, TotalsInv, ClockInv
<1>4. /\ acc.seen \subseteq Flows /\ since.seen \subseteq Flows
      /\ \A f \in Flows : when[f] \in Int
  BY <1>3, LedgerAssumption DEF NeutralInv, TotalsInv, ClockInv, Sound, Never
<1>5. \A f \in Flows : (f \in acc.seen <=> when[f] <= acc.asOf)
                       /\ (f \in since.seen <=> when[f] <= since.asOf)
  BY <1>1, <1>3 DEF Straddled, NeutralInv, TotalsInv, Sound, SeenBy
<1>6. since.seen \subseteq acc.seen
  BY <1>3, <1>4, <1>5 DEF Sound
<1>7. ASSUME NEW f \in Flows
      PROVE  \/ f \notin acc.seen /\ \A n \in Months : <<f, n>> \notin K
             \/ \E m \in Months : \A n \in Months :
                  <<f, n>> \in K <=> n = m /\ f \in acc.seen \ since.seen
  <2>1. CASE f \notin acc.seen /\ \A n \in Months : <<f, n>> \notin K
    BY <2>1
  <2>2. CASE \E m \in Months : \A n \in Months :
               <<f, n>> \in K <=> n = m /\ since.asOf < when[f] /\ when[f] <= acc.asOf
    <3>1. since.asOf < when[f] /\ when[f] <= acc.asOf <=> f \in acc.seen \ since.seen
      BY <1>3, <1>4, <1>5 DEF Sound
    <3>2. QED
      BY <2>2, <3>1
  <2>3. QED
    BY <1>2, <2>1, <2>2 DEF Counts
<1>8. \A k \in K : /\ k[1] \in acc.seen \ since.seen /\ k[2] \in Months /\ k = <<k[1], k[2]>>
                  /\ \E m \in Months : \A n \in Months : <<k[1], n>> \in K <=> n = m
  <2>1. ASSUME NEW k \in K PROVE k[1] \in Flows /\ k[2] \in Months /\ k = <<k[1], k[2]>>
    BY <2>1
  <2>2. QED
    BY <1>7, <2>1
<1>9. \A j, k \in K : j[1] = k[1] => j = k
  <2> SUFFICES ASSUME NEW j \in K, NEW k \in K, j[1] = k[1]
               PROVE  j = k
    OBVIOUS
  <2>1. PICK m \in Months : \A n \in Months : <<k[1], n>> \in K <=> n = m
    BY <1>8
  <2>2. j[2] = m /\ k[2] = m
    BY <1>8, <2>1
  <2>3. QED
    BY <1>8, <2>2
<1>10. {k[1] : k \in K} = acc.seen \ since.seen
  <2>1. \A k \in K : k[1] \in acc.seen \ since.seen
    BY <1>8
  <2>2. ASSUME NEW f \in acc.seen \ since.seen PROVE \E k \in K : k[1] = f
    <3>1. PICK m \in Months : <<f, m>> \in K
      BY <1>4, <1>7, <2>2
    <3>2. QED
      BY <3>1
  <2>3. QED
    BY <2>1, <2>2
<1>11. CashSum(K) = Nav(acc.seen \ since.seen)
  <2>1. PICK v : v = [k \in Keys |-> Amount[k[1]]]
    OBVIOUS
  <2>2. IsFiniteSet(K)
    BY KeysAreFinite, FS_Subset
  <2>3. \A k \in K : v[k] = Amount[k[1]] /\ Amount[k[1]] \in Int
    BY <2>1, LedgerAssumption
  <2>4. Sum(v, K) = Sum(Amount, {k[1] : k \in K})
    BY <1>9, <2>2, <2>3, SumsRename
  <2>5. IsFiniteSet(acc.seen \ since.seen)
    BY <1>4, LedgerAssumption, FS_Subset
  <2>6. QED
    BY <1>10, <2>1, <2>4, <2>5, CashIsSum, NavIsSum
<1>12. /\ Nav(acc.seen) = Nav(since.seen) + Nav(acc.seen \ since.seen)
       /\ Nav(since.seen) \in Int /\ Nav(acc.seen \ since.seen) \in Int
  BY <1>4, <1>6, PartsAdd
<1>13. Nav(acc.seen) = Nav(acc.left) + Counted /\ Nav(acc.left) \in Int /\ Counted \in Int
  BY <1>4, PartsAdd DEF NeutralInv, TotalsInv, Counted
<1>14. /\ Nav(since.seen) = Nav(since.left) + since.nav
       /\ Nav(since.left) \in Int /\ since.nav \in Int
  <2>1. since.left \in SUBSET since.seen /\ since.nav = Nav(since.seen \ since.left)
    BY <1>3 DEF Sound
  <2>2. PICK S : S = since.seen
    OBVIOUS
  <2>3. PICK T : T = since.left
    OBVIOUS
  <2>4. /\ Nav(S) = Nav(T) + Nav(S \ T)
        /\ Nav(T) \in Int /\ Nav(S \ T) \in Int
    BY <1>4, <2>1, <2>2, <2>3, PartsAdd
  <2>5. QED
    BY <2>1, <2>2, <2>3, <2>4
<1>15. ASSUME NEW a \in Int, NEW b \in Int, NEW c \in Int, NEW d \in Int, NEW e \in Int,
              NEW total \in Int, NEW start \in Int, c = d + e, c = a + total, d = b + start
       PROVE  total - start - e = b - a
  BY <1>15
<1>16. Counted - since.nav - Nav(acc.seen \ since.seen) = Nav(since.left) - Nav(acc.left)
  <2>1. PICK a : a = Nav(acc.left) OBVIOUS
  <2>2. PICK b : b = Nav(since.left) OBVIOUS
  <2>3. PICK c : c = Nav(acc.seen) OBVIOUS
  <2>4. PICK d : d = Nav(since.seen) OBVIOUS
  <2>5. PICK e : e = Nav(acc.seen \ since.seen) OBVIOUS
  <2>6. PICK total : total = Counted OBVIOUS
  <2>7. PICK start : start = since.nav OBVIOUS
  <2>8. /\ a \in Int /\ b \in Int /\ c \in Int /\ d \in Int /\ e \in Int
        /\ total \in Int /\ start \in Int /\ c = d + e /\ c = a + total /\ d = b + start
    BY <1>12, <1>13, <1>14, <2>1, <2>2, <2>3, <2>4, <2>5, <2>6, <2>7
  <2>9. total - start - e = b - a
    BY <1>15, <2>8
  <2>10. QED
    BY <2>1, <2>2, <2>5, <2>6, <2>7, <2>9
<1>17. QED
  BY <1>1, <1>2, <1>11, <1>16

LEMMA NeutralInvInit == LedgerInit => NeutralInv
<1> SUFFICES ASSUME LedgerInit PROVE NeutralInv
  OBVIOUS
<1> USE DEF LedgerInit, IdleRun, IdleRec, NoPnl
<1>1. ClockInv
  BY LedgerAssumption DEF ClockInv
<1>2. DatesInv
  BY DEF DatesInv, Stored, Busy
<1>3. TotalsInv
  BY DEF TotalsInv, Stored, Stamped
<1>4. PnlInv
  BY DEF PnlInv, Early
<1>5. QED
  BY <1>1, <1>2, <1>3, <1>4 DEF NeutralInv

LEMMA ClockStep ==
    ASSUME ClockInv, [LedgerNext]_ledger
    PROVE  ClockInv' /\ Kept
<1> USE LedgerAssumption DEF ClockInv, Kept, Never
<1>1. CASE Tick
  BY <1>1 DEF Tick
<1>2. ASSUME NEW f \in Flows, Transfer(f)
      PROVE  ClockInv' /\ Kept
  BY <1>2 DEF Transfer
<1>3. CASE UNCHANGED <<clock, when>>
  BY <1>3
<1>4. CASE \/ RunSteps \/ CrashLedger \/ UNCHANGED ledger
           \/ \E f \in Flows : Post(f) \/ \E r \in Careful : LookUp(r, f)
           \/ \E r \in Recorders : CheckKey(r) \/ OpenCashflow(r) \/ PutCashflow(r)
                                   \/ RecordingFails(r)
  <2>1. UNCHANGED <<clock, when>>
    BY <1>4 DEF RunSteps, BeginRun, ReadPortfolio, Stamp, ListCashflows, BuildWindows,
                OpenSnapshot, PutSnapshot, OpenLatest, PutLatest, SummaryFails, Publish,
                RunThrows, CrashLedger, EndRun, Step, ReadOnly, Post, LookUp, Date, CheckKey,
                OpenCashflow, PutCashflow, RecordingFails, Rec, ledger, world
  <2>2. QED
    BY <1>3, <2>1
<1>5. QED
  BY <1>1, <1>2, <1>4 DEF LedgerNext

\* The dates of what is stored and of what is being recorded.
LEMMA DatesStep ==
    ASSUME ClockInv, DatesInv, CashInv, [LedgerNext]_ledger
    PROVE  DatesInv'
<1>1. Kept /\ ClockInv'
  BY ClockStep
<1>2. RecShape
  BY DEF CashInv
<1> USE DEF DatesInv, Busy
<1>3. ASSUME UNCHANGED cash, DOMAIN rec' = Recorders,
             \A r \in Recorders :
               \/ rec'[r].pc = "idle"
               \/ Busy(r) /\ rec'[r].flow = rec[r].flow /\ rec'[r].at = rec[r].at
      PROVE  DatesInv'
  <2>1. \A f \in Flows : when[f] <= clock => when'[f] = when[f] /\ when'[f] <= clock'
    BY <1>1, LedgerAssumption DEF Kept, ClockInv, Never
  <2>2. ASSUME NEW k \in Keys, Stored(cash'[k])
        PROVE  /\ cash'[k].at \in Nat /\ k[2] = MonthOf(cash'[k].at)
               /\ when'[k[1]] <= clock'
    BY <1>3, <2>1, <2>2
  <2>3. ASSUME NEW r \in Recorders, rec'[r].pc # "idle"
        PROVE  /\ rec'[r].flow \in Flows /\ rec'[r].at \in Nat
               /\ when'[rec'[r].flow] <= clock'
    <3>1. Busy(r) /\ rec'[r].flow = rec[r].flow /\ rec'[r].at = rec[r].at
      BY <1>3, <2>3
    <3>2. /\ rec[r].flow \in Flows /\ rec[r].at \in Nat
          /\ when[rec[r].flow] <= clock
      BY <3>1
    <3>3. QED
      BY <2>1, <3>1, <3>2
  <2>4. QED
    BY <2>2, <2>3 DEF Stored
<1>4. ASSUME NEW r \in Recorders, NEW f \in Flows, Date(r, f), f \in Happened, UNCHANGED cash
      PROVE  DatesInv'
  <2>1. PICK at \in Ticks \cup {when[f], clock} :
          rec' = [rec EXCEPT ![r] = [pc |-> "priced", flow |-> f, at |-> at]]
    BY <1>4 DEF Date, Rec
  <2>2. /\ rec'[r].flow = f /\ rec'[r].at = at
        /\ \A q \in Recorders \ {r} : rec'[q] = rec[q]
    BY <1>2, <2>1 DEF RecShape
  <2>3. when[f] <= clock /\ when[f] \in Nat /\ clock \in Nat /\ when'[f] = when[f]
    BY <1>1, <1>4, LedgerAssumption DEF Happened, Kept, ClockInv, Never
  <2>4. UNCHANGED <<clock, when>>
    BY <1>4 DEF Date, Rec, world
  <2>5. at \in Nat
    BY <2>1, <2>3, LedgerAssumption DEF Ticks
  <2>6. QED
    BY <1>4, <2>2, <2>3, <2>4, <2>5
<1>5. CASE RunSteps \/ Tick \/ UNCHANGED ledger \/ \E f \in Flows : Transfer(f)
  <2>1. UNCHANGED <<cash, rec>>
    BY <1>5 DEF RunSteps, BeginRun, ReadPortfolio, Stamp, ListCashflows, BuildWindows,
                OpenSnapshot, PutSnapshot, OpenLatest, PutLatest, SummaryFails, Publish,
                RunThrows, EndRun, Step, ReadOnly, Tick, Transfer, ledger, store, world
  <2>2. QED
    BY <1>2, <1>3, <2>1 DEF RecShape
<1>6. CASE CrashLedger
  <2>1. UNCHANGED cash /\ DOMAIN rec' = Recorders
    BY <1>6 DEF CrashLedger, store
  <2>2. ASSUME NEW r \in Recorders
        PROVE  rec'[r] = rec[r] \/ rec'[r].pc = "idle"
    BY <1>6 DEF CrashLedger, IdleRec
  <2>3. QED
    BY <1>3, <2>1, <2>2
<1>7. ASSUME NEW f \in Flows, Post(f) \/ \E r \in Careful : LookUp(r, f)
      PROVE  DatesInv'
  BY <1>4, <1>7 DEF Post, LookUp, store
<1>8. ASSUME NEW r \in Recorders, CheckKey(r) \/ RecordingFails(r)
      PROVE  DatesInv'
  <2>1. UNCHANGED cash /\ DOMAIN rec' = Recorders
    BY <1>2, <1>8 DEF CheckKey, RecordingFails, Rec, store, RecShape
  <2>2. \A q \in Recorders \ {r} : rec'[q] = rec[q]
    BY <1>2, <1>8 DEF CheckKey, RecordingFails, Rec, RecShape
  <2>3. \/ rec'[r] = IdleRec
        \/ rec'[r] = [rec[r] EXCEPT !.pc = "writing"] /\ Busy(r)
    BY <1>2, <1>8 DEF CheckKey, RecordingFails, Rec, RecShape
  <2>4. \/ rec'[r].pc = "idle"
        \/ Busy(r) /\ rec'[r].flow = rec[r].flow /\ rec'[r].at = rec[r].at
    <3>1. rec[r] = [pc |-> rec[r].pc, flow |-> rec[r].flow, at |-> rec[r].at]
      BY <1>2 DEF RecShape
    <3>2. QED
      BY <2>3, <3>1 DEF IdleRec
  <2>5. QED
    BY <1>3, <2>1, <2>2, <2>4
<1>9. ASSUME NEW r \in Recorders, OpenCashflow(r) \/ PutCashflow(r)
      PROVE  DatesInv'
  <2>1. PICK object : /\ cash' = [cash EXCEPT ![Target(r)] = object]
                      /\ object = Torn \/ object = [at |-> rec[r].at, by |-> r]
    BY <1>9 DEF OpenCashflow, PutCashflow
  <2>2. /\ Busy(r) /\ UNCHANGED <<clock, when>>
        /\ rec' = [rec EXCEPT ![r] = IdleRec] \/ rec' = [rec EXCEPT ![r] = [rec[r] EXCEPT !.pc = "open"]]
    BY <1>9 DEF OpenCashflow, PutCashflow, Rec, world
  <2>3. \A k \in Keys : Stored(cash'[k]) =>
          \/ cash'[k] = cash[k]
          \/ k = Target(r) /\ cash'[k].at = rec[r].at
    BY <1>2, <2>1 DEF RecShape, Stored
  <2>4. \A k \in Keys : k = Target(r) => k[1] = rec[r].flow /\ k[2] = MonthOf(rec[r].at)
    BY DEF Target
  <2>5. \A k \in Keys : Stored(cash[k])' =>
          /\ cash'[k].at \in Nat /\ k[2] = MonthOf(cash'[k].at)
          /\ when[k[1]] <= clock
    BY <2>2, <2>3, <2>4 DEF Stored
  <2>6. ASSUME NEW q \in Recorders, rec'[q].pc # "idle"
        PROVE  Busy(q) /\ rec'[q].flow = rec[q].flow /\ rec'[q].at = rec[q].at
    BY <1>2, <2>2, <2>6 DEF RecShape, IdleRec
  <2>7. QED
    BY <2>2, <2>5, <2>6
<1>10. QED
  BY <1>5, <1>6, <1>7, <1>8, <1>9 DEF LedgerNext

LEMMA SoundStays ==
    ASSUME ClockInv, Kept, NEW t, NEW by, NEW later, by <= later, by \in Int, later \in Int,
           by <= clock, Sound(when, t, by)
    PROVE  Sound(when', t, later)
<1>1. /\ t.asOf \in Nat /\ t.asOf <= by /\ t.seen \subseteq Flows
      /\ t.left \subseteq t.seen /\ t.nav = Nav(t.seen \ t.left)
      /\ \A f \in t.seen : when[f] <= t.asOf
  BY DEF Sound
<1>2. clock \in Int /\ \A f \in Flows : when[f] \in Int
  BY LedgerAssumption DEF ClockInv, Never
<1>3. \A f \in t.seen : when'[f] <= t.asOf
  BY <1>1, <1>2 DEF Kept
<1>4. QED
  BY <1>1, <1>2, <1>3 DEF Sound

\* What a run carries over to its next step, but for the step itself.
SameRun == /\ acc'.previous = acc.previous /\ acc'.seen = acc.seen /\ acc'.known = acc.known
           /\ acc'.asOf = acc.asOf /\ acc'.left = acc.left
SamePnl == acc'.daily = acc.daily /\ acc'.roll = acc.roll /\ acc'.all = acc.all

LEMMA TotalIsSound ==
    ASSUME ClockInv, TotalsInv, Stamped
    PROVE  Sound(when, Total, clock)
<1>1. clock \in Nat /\ acc.asOf \in Nat /\ acc.asOf <= clock
  BY LedgerAssumption DEF ClockInv, TotalsInv
<1>2. /\ acc.seen \subseteq Flows /\ acc.left \subseteq acc.seen
      /\ \A f \in acc.seen : when[f] <= acc.asOf
  BY DEF TotalsInv, SeenBy
<1>3. QED
  BY <1>1, <1>2 DEF Sound, Total, Counted

\* The totals that are stored, when the run goes on or ends.
LEMMA StoresStaySound ==
    ASSUME ClockInv, TotalsInv, [LedgerNext]_ledger, HistoryInv
    PROVE  /\ \A i \in Runs : Stored(snaps'[i]) => Sound(when', snaps'[i], clock')
           /\ Stored(latest') => Sound(when', latest', clock')
<1>1. Kept /\ ClockInv'
  BY ClockStep
<1>2. clock \in Int /\ clock' \in Int /\ clock <= clock'
  BY <1>1, LedgerAssumption DEF ClockInv, Kept
<1>3. ASSUME NEW t, Sound(when, t, clock)
      PROVE  Sound(when', t, clock')
  BY <1>1, <1>2, <1>3, SoundStays
<1>4. ASSUME \A i \in Runs : (snaps'[i] = snaps[i]) \/ (snaps'[i] = Torn)
                             \/ (Stamped /\ snaps'[i] = Total),
             latest' \in {latest, Torn} \/ (Stamped /\ latest' = Total)
      PROVE  /\ \A i \in Runs : Stored(snaps'[i]) => Sound(when', snaps'[i], clock')
             /\ Stored(latest') => Sound(when', latest', clock')
  <2>1. Stamped => Sound(when', Total, clock')
    BY <1>3, TotalIsSound
  <2>2. Stored(latest) => Sound(when', latest, clock')
    BY <1>3 DEF TotalsInv
  <2>3. \A i \in Runs : Stored(snaps[i]) => Sound(when', snaps[i], clock')
    BY <1>3 DEF TotalsInv
  <2>4. ~Stored(Torn)
    BY DEF Stored
  <2>5. ASSUME NEW i \in Runs, Stored(snaps'[i])
        PROVE  Sound(when', snaps'[i], clock')
    BY <1>4, <2>1, <2>3, <2>4, <2>5
  <2>6. ASSUME Stored(latest') PROVE Sound(when', latest', clock')
    BY <1>4, <2>1, <2>2, <2>4, <2>6
  <2>7. QED
    BY <2>5, <2>6
<1>5. CASE OpenSnapshot \/ PutSnapshot
  <2>1. PICK object \in {Torn, Total} :
          /\ snaps' = [snaps EXCEPT ![used] = object] /\ UNCHANGED latest
          /\ acc.pc \in {"snapshot", "snapshotting"}
    BY <1>5 DEF OpenSnapshot, PutSnapshot, Ready
  <2>2. \A i \in Runs : snaps'[i] \in {snaps[i], object}
    BY <2>1 DEF HistoryInv
  <2>3. Stamped
    BY <2>1 DEF Stamped
  <2>4. QED
    BY <1>4, <2>1, <2>2, <2>3
<1>6. CASE OpenLatest \/ PutLatest
  <2>1. latest' \in {Torn, Total} /\ UNCHANGED snaps /\ acc.pc \in {"summary", "summarising"}
    BY <1>6 DEF OpenLatest, PutLatest, Ready
  <2>2. Stamped
    BY <2>1 DEF Stamped
  <2>3. QED
    BY <1>4, <2>1, <2>2
<1>7. CASE \/ BeginRun \/ ReadPortfolio \/ Stamp \/ ListCashflows \/ BuildWindows
           \/ SummaryFails \/ Publish \/ RunThrows \/ Tick \/ CrashLedger \/ UNCHANGED ledger
           \/ \E f \in Flows : Transfer(f) \/ Post(f) \/ \E r \in Careful : LookUp(r, f)
           \/ \E r \in Recorders : CheckKey(r) \/ OpenCashflow(r) \/ PutCashflow(r)
                                   \/ RecordingFails(r)
  <2>1. UNCHANGED <<snaps, latest>>
    BY <1>7 DEF BeginRun, ReadPortfolio, Stamp, ListCashflows, BuildWindows, SummaryFails,
                Publish, RunThrows, Tick, CrashLedger, Transfer, Post, LookUp, CheckKey,
                OpenCashflow, PutCashflow, RecordingFails, EndRun, Step, ReadOnly, ledger,
                store
  <2>2. QED
    BY <1>4, <2>1
<1>8. QED
  BY <1>5, <1>6, <1>7 DEF LedgerNext, RunSteps

LEMMA TotalsStep ==
    ASSUME ClockInv, TotalsInv, [LedgerNext]_ledger, HistoryInv
    PROVE  TotalsInv'
<1>1. Kept /\ ClockInv'
  BY ClockStep
<1>2. clock \in Nat /\ clock' \in Nat /\ clock <= clock' /\ \A f \in Flows : when[f] \in Int
  BY <1>1, LedgerAssumption DEF ClockInv, Kept, Never
<1>3. SeenBy \in Nat /\ SeenBy <= clock
  BY <1>2, LedgerAssumption DEF TotalsInv, SeenBy
<1> DEFINE RunInv == /\ acc.pc # "idle" /\ acc.previous # Null => Sound(when, acc.previous, SeenBy)
                     /\ acc.seen \subseteq Flows /\ \A f \in acc.seen : when[f] <= SeenBy
                     /\ acc.left \subseteq acc.seen
                     /\ Stamped => acc.asOf \in 0..clock
<1>4. SUFFICES RunInv'
  BY <1>4, StoresStaySound DEF TotalsInv
\* What was seen by then is seen by a later moment.
<1>5. ASSUME NEW late \in Nat, SeenBy <= late
      PROVE  /\ acc.pc # "idle" /\ acc.previous # Null => Sound(when', acc.previous, late)
             /\ acc.seen \subseteq Flows /\ \A f \in acc.seen : when'[f] <= late
  <2>1. ASSUME acc.pc # "idle", acc.previous # Null
        PROVE  Sound(when', acc.previous, late)
    <3>1. PICK t, by : t = acc.previous /\ by = SeenBy
      OBVIOUS
    <3>2. Sound(when, t, by)
      BY <2>1, <3>1 DEF TotalsInv
    <3>3. Sound(when', t, late)
      BY <1>1, <1>2, <1>3, <1>5, <3>1, <3>2, SoundStays
    <3>4. QED
      BY <3>1, <3>3
  <2>2. \A f \in acc.seen : f \in Flows /\ when[f] <= SeenBy /\ when[f] <= clock
    BY <1>2, <1>3 DEF TotalsInv
  <2>3. \A f \in acc.seen : when'[f] <= late
    BY <1>1, <1>2, <1>3, <1>5, <2>2 DEF Kept
  <2>4. QED
    BY <2>1, <2>3 DEF TotalsInv
<1>6. ASSUME acc' = IdleRun PROVE RunInv'
  BY <1>6 DEF IdleRun, Stamped
<1>7. ASSUME SameRun, acc'.pc # "idle" => acc.pc # "idle",
             Stamped' <=> Stamped
      PROVE  RunInv'
  <2>1. SeenBy' \in Nat /\ SeenBy <= SeenBy'
    BY <1>2, <1>3, <1>7, LedgerAssumption DEF SeenBy, SameRun, TotalsInv
  <2>2. PICK late : late = SeenBy'
    OBVIOUS
  <2>3. /\ acc.pc # "idle" /\ acc.previous # Null => Sound(when', acc.previous, late)
        /\ acc.seen \subseteq Flows /\ \A f \in acc.seen : when'[f] <= late
    BY <1>5, <2>1, <2>2
  <2>4. Stamped' => acc'.asOf \in 0..clock'
    BY <1>2, <1>7 DEF SameRun, TotalsInv
  <2>5. QED
    BY <1>7, <2>2, <2>3, <2>4 DEF SameRun, TotalsInv
<1>8. ASSUME UNCHANGED acc PROVE RunInv'
  BY <1>7, <1>8 DEF SameRun, Stamped
<1>9. CASE BeginRun
  <2>1. acc.pc = "idle" /\ UNCHANGED <<clock, when>>
    BY <1>9 DEF BeginRun, world
  <2>2. CASE latest = Torn
    BY <1>8, <1>9, <2>2 DEF BeginRun
  <2>3. CASE latest # Torn
    <3>1. acc' = [acc EXCEPT !.pc = "begun", !.previous = latest]
      BY <1>9, <2>3 DEF BeginRun
    <3>2. /\ acc'.pc = "begun" /\ acc'.previous = latest
          /\ acc'.seen = acc.seen /\ acc'.left = acc.left
      BY <3>1 DEF HistoryInv, RunShape
    <3>3. latest # Null => Sound(when, latest, clock)
      BY <2>3 DEF TotalsInv, Stored
    <3>4. QED
      BY <2>1, <3>2, <3>3 DEF TotalsInv, SeenBy, Stamped
  <2>4. QED
    BY <2>2, <2>3
<1>10. CASE ReadPortfolio
  <2>1. PICK left \in SUBSET Happened, known \in BOOLEAN :
          acc' = [acc EXCEPT !.pc = "read", !.seen = Happened, !.left = left, !.known = known]
    BY <1>10 DEF ReadPortfolio
  <2>2. acc'.pc = "read" /\ acc'.previous = acc.previous /\ acc'.seen = Happened /\ acc'.left = left
    BY <2>1 DEF HistoryInv, RunShape
  <2>3. acc.pc = "begun" /\ UNCHANGED <<clock, when>>
    BY <1>10 DEF ReadPortfolio, world
  <2>4. QED
    BY <2>2, <2>3 DEF TotalsInv, SeenBy, Stamped, Happened
<1>11. CASE Stamp
  <2>1. acc' = [acc EXCEPT !.pc = "stamped", !.asOf = clock]
    BY <1>11 DEF Stamp, Step
  <2>2. /\ acc'.pc = "stamped" /\ acc'.previous = acc.previous /\ acc'.seen = acc.seen
        /\ acc'.left = acc.left /\ acc'.asOf = clock
    BY <2>1 DEF HistoryInv, RunShape
  <2>3. acc.pc = "read" /\ UNCHANGED <<clock, when>>
    BY <1>11 DEF Stamp, Step, world
  <2>4. QED
    BY <1>2, <2>2, <2>3 DEF TotalsInv, SeenBy, Stamped
<1>12. CASE ListCashflows \/ BuildWindows
  <2>1. CASE acc' = IdleRun
    BY <1>6, <2>1
  <2>2. CASE acc' # IdleRun
    <3>1. \/ /\ acc.pc = "stamped"
             /\ acc' = [acc EXCEPT !.pc = "compared", !.daily = Pnl(acc.previous),
                                   !.listed = Settled]
          \/ /\ acc.pc = "compared"
             /\ \E inception \in {Inception, Null} :
                  acc' = [acc EXCEPT !.pc = "snapshot",
                            !.roll = Pnl(StartSnapshot(acc.asOf - Window)),
                            !.all = Pnl(inception), !.listed = @ \cap Settled]
      BY <1>12, <2>2 DEF ListCashflows, BuildWindows, EndRun, Step
    <3>2. SameRun /\ acc'.pc \in {"compared", "snapshot"}
      BY <3>1 DEF HistoryInv, RunShape, SameRun
    <3>3. QED
      BY <1>7, <3>1, <3>2 DEF Stamped
  <2>3. QED
    BY <2>1, <2>2
<1>13. CASE OpenSnapshot \/ PutSnapshot \/ OpenLatest \/ PutLatest \/ SummaryFails
  <2>1. /\ acc.pc \in {"snapshot", "snapshotting", "summary", "summarising"}
        /\ \E pc \in {"snapshotting", "summary", "summarising", "publish"} :
             acc' = [acc EXCEPT !.pc = pc]
    BY <1>13 DEF OpenSnapshot, PutSnapshot, OpenLatest, PutLatest, SummaryFails, Ready, Step
  <2>2. SameRun /\ acc'.pc \in {"snapshotting", "summary", "summarising", "publish"}
    BY <2>1 DEF HistoryInv, RunShape, SameRun
  <2>3. QED
    BY <1>7, <2>1, <2>2 DEF Stamped
<1>14. CASE Publish \/ RunThrows \/ CrashLedger
  BY <1>6, <1>14 DEF Publish, RunThrows, CrashLedger, EndRun, Step
<1>15. CASE \/ Tick \/ UNCHANGED ledger
            \/ \E f \in Flows : Transfer(f) \/ Post(f) \/ \E r \in Careful : LookUp(r, f)
            \/ \E r \in Recorders : CheckKey(r) \/ OpenCashflow(r) \/ PutCashflow(r)
                                    \/ RecordingFails(r)
  BY <1>8, <1>15
     DEF Tick, ledger, Transfer, Post, LookUp, CheckKey, OpenCashflow, PutCashflow,
         RecordingFails, Date, Rec
<1>16. QED
  BY <1>9, <1>10, <1>11, <1>12, <1>13, <1>14, <1>15 DEF LedgerNext, RunSteps

\* What a P&L is reduced by counts every transfer that is recorded rightly.
LEMMA PnlSettles ==
    ASSUME ClockInv, DatesInv, TotalsInv, Stamped, NEW start,
           start # Null => Sound(when, start, acc.asOf)
    PROVE  BalancedFor(Pnl(start), Settled)
<1>1. PICK pnl : pnl = Pnl(start)
  OBVIOUS
<1>2. CASE ~pnl.known
  BY <1>1, <1>2 DEF BalancedFor
<1>3. CASE pnl.known
  <2>1. PICK K : K = Listed(start.asOf, acc.asOf)
    OBVIOUS
  <2>2. start # Null /\ pnl.since = start
        /\ pnl.value = Counted - start.nav - CashSum(K)
    BY <1>1, <1>3, <2>1 DEF Pnl, NoPnl, CashSum
  <2>3. /\ K \subseteq Keys
        /\ \A k \in Keys : k \in K <=> Stored(cash[k]) /\ start.asOf < cash[k].at
                                       /\ cash[k].at <= acc.asOf
    BY <2>1 DEF Listed, InWindow
  <2>4. clock \in Nat /\ acc.asOf \in Nat /\ \A f \in Flows : when[f] \in Int
    BY LedgerAssumption DEF ClockInv, TotalsInv, Never
  <2>5. ASSUME NEW f \in Settled
        PROVE  \/ f \notin acc.seen /\ \A n \in Months : <<f, n>> \notin K
               \/ /\ when[f] <= clock
                  /\ \E m \in Months : \A n \in Months :
                       <<f, n>> \in K <=> n = m /\ start.asOf < when[f] /\ when[f] <= acc.asOf
    <3>1. PICK at : at = {cash[<<f, m>>].at : m \in {n \in Months : Stored(cash[<<f, n>>])}}
      OBVIOUS
    <3>2. f \in Flows /\ (at = {when[f]} \/ (at = {} /\ f \notin acc.seen))
      BY <2>5, <3>1 DEF Settled
    <3>3. \A n \in Months : <<f, n>> \in K <=> Stored(cash[<<f, n>>])
                              /\ start.asOf < cash[<<f, n>>].at /\ cash[<<f, n>>].at <= acc.asOf
      BY <2>3, <3>2
    <3>4. CASE at = {} /\ f \notin acc.seen
      BY <3>1, <3>3, <3>4
    <3>5. CASE at = {when[f]}
      <4>1. \A m \in Months : Stored(cash[<<f, m>>]) => cash[<<f, m>>].at = when[f]
        BY <3>1, <3>5
      <4>2. PICK m \in Months : Stored(cash[<<f, m>>])
        BY <3>1, <3>5
      <4>3. ASSUME NEW n \in Months, Stored(cash[<<f, n>>])
            PROVE  n = MonthOf(when[f]) /\ when[f] <= clock
        <5>1. <<f, n>> \in Keys /\ <<f, n>>[1] = f /\ <<f, n>>[2] = n
          BY <3>2
        <5>2. n = MonthOf(cash[<<f, n>>].at) /\ when[f] <= clock
          BY <4>3, <5>1 DEF DatesInv
        <5>3. QED
          BY <4>1, <4>3, <5>2
      <4>4. when[f] <= clock /\ \A n \in Months : Stored(cash[<<f, n>>]) <=> n = m
        BY <4>2, <4>3
      <4>5. QED
        BY <3>3, <4>1, <4>4
    <3>6. QED
      BY <3>2, <3>4, <3>5
  <2>7. Counts(K, start, Settled)
    BY <2>5 DEF Counts
  <2>8. Sound(when, start, acc.asOf)
    BY <2>2
  <2>9. QED
    BY <1>1, <2>2, <2>3, <2>7, <2>8 DEF BalancedFor
<1>4. QED
  BY <1>2, <1>3

\* A P&L stays settled while the clock goes on and no transfer joins the list.
LEMMA BalancedStays ==
    ASSUME ClockInv, Kept, ClockInv', TotalsInv, Stamped, NEW pnl, NEW listed,
           BalancedFor(pnl, listed), listed \subseteq Flows, acc'.listed \subseteq listed,
           acc'.asOf = acc.asOf, acc'.seen = acc.seen, acc'.left = acc.left
    PROVE  Balanced(pnl)'
<1>1. CASE ~pnl.known
  BY <1>1 DEF Balanced, BalancedFor
<1>2. CASE pnl.known
  <2>1. PICK K \in SUBSET Keys : /\ Counts(K, pnl.since, listed)
                                 /\ pnl.value = Counted - pnl.since.nav - CashSum(K)
    BY <1>2 DEF BalancedFor
  <2>2. /\ clock \in Int /\ clock' \in Int /\ clock <= clock' /\ acc.asOf \in Int
        /\ acc.asOf <= clock /\ \A f \in Flows : when[f] \in Int
    BY LedgerAssumption DEF ClockInv, Kept, TotalsInv, Never
  <2>3. \A f \in Flows : when[f] <= clock => when'[f] = when[f]
    BY DEF Kept
  <2>4. Sound(when', pnl.since, acc.asOf)
    <3>1. PICK by : by = acc.asOf
      OBVIOUS
    <3>2. PICK since : since = pnl.since
      OBVIOUS
    <3>3. Sound(when, since, by)
      BY <1>2, <3>1, <3>2 DEF BalancedFor
    <3>4. Sound(when', since, by)
      BY <2>2, <3>1, <3>3, SoundStays
    <3>5. QED
      BY <3>1, <3>2, <3>4
  <2>5. ASSUME NEW f \in acc'.listed
        PROVE  \/ f \notin acc'.seen /\ \A n \in Months : <<f, n>> \notin K
               \/ /\ when'[f] <= clock'
                  /\ \E m \in Months : \A n \in Months :
                       <<f, n>> \in K <=> /\ n = m /\ pnl.since.asOf < when'[f]
                                        /\ when'[f] <= acc'.asOf
    <3>1. f \in listed /\ f \in Flows
      OBVIOUS
    <3>2. CASE f \notin acc.seen /\ \A n \in Months : <<f, n>> \notin K
      BY <3>2
    <3>3. CASE /\ when[f] <= clock
               /\ \E m \in Months : \A n \in Months :
                    <<f, n>> \in K <=> /\ n = m /\ pnl.since.asOf < when[f]
                                     /\ when[f] <= acc.asOf
      <4>1. when'[f] = when[f] /\ when'[f] <= clock'
        BY <2>2, <2>3, <3>1, <3>3
      <4>2. QED
        BY <3>3, <4>1
    <3>4. QED
      BY <2>1, <3>1, <3>2, <3>3 DEF Counts
  <2>6. Counted' = Counted
    BY DEF Counted
  <2>7. Counts(K, pnl.since, acc.listed)'
    BY <2>5 DEF Counts
  <2>8. QED
    BY <2>1, <2>4, <2>6, <2>7 DEF Balanced, BalancedFor
<1>3. QED
  BY <1>1, <1>2

\* Of finitely many, one is the latest.
LEMMA LatestExists ==
    ASSUME NEW S, IsFiniteSet(S), NEW w, \A x \in S : w[x] \in Int, S # {}
    PROVE  \E x \in S : \A y \in S : w[x] >= w[y]
<1> DEFINE Good == {T \in SUBSET S : T # {} => \E x \in T : \A y \in T : w[x] >= w[y]}
<1>1. ASSUME NEW T \in SUBSET S, \A U \in SUBSET T : U # T => U \in Good
      PROVE  T \in Good
  <2>1. ASSUME NEW x \in T PROVE \E z \in T : \A y \in T : w[z] >= w[y]
    <3>1. CASE T = {x}
      BY <3>1
    <3>2. CASE T # {x}
      <4>1. T \ {x} # {} /\ T \ {x} \in Good
        BY <1>1, <3>2
      <4>2. PICK z \in T \ {x} : \A y \in T \ {x} : w[z] >= w[y]
        BY <4>1
      <4>3. QED
        BY <4>2
    <3>3. QED
      BY <3>1, <3>2
  <2>2. QED
    BY <2>1
<1> HIDE DEF Good
<1>2. S \in Good
  BY <1>1, SetInduction
<1> USE DEF Good
<1>3. QED
  BY <1>2

\* Every start a P&L is taken from is a sound total.
LEMMA StartsAreSound ==
    ASSUME ClockInv, TotalsInv, Stamped
    PROVE  /\ Sound(when, Inception, acc.asOf)
           /\ LET start == StartSnapshot(acc.asOf - Window)
              IN  start # Null => Sound(when, start, acc.asOf)
<1>1. acc.asOf \in Nat /\ Window \in Nat
  BY LedgerAssumption DEF TotalsInv
<1>2. Sound(when, Inception, acc.asOf)
  <2>1. Nav({}) = 0
    BY NavIsSum, SumIs, FS_EmptySet
  <2>2. QED
    BY <1>1, <2>1 DEF Sound, Inception
<1>3. PICK S : S = {i \in Runs : /\ Stored(snaps[i]) /\ snaps[i].known
                                 /\ snaps[i].asOf <= acc.asOf - Window}
  OBVIOUS
<1>4. PICK start : start = StartSnapshot(acc.asOf - Window)
  OBVIOUS
<1>5. ASSUME start # Null PROVE Sound(when, start, acc.asOf)
  <2>1. S # {} /\ start = snaps[CHOOSE i \in S : \A j \in S : snaps[i].asOf >= snaps[j].asOf]
    BY <1>3, <1>4, <1>5 DEF StartSnapshot
  <2>2. \A i \in S : snaps[i].asOf \in Int
    <3>1. ASSUME NEW t, NEW w, NEW by, Sound(w, t, by) PROVE t.asOf \in Int
      BY <3>1 DEF Sound
    <3>2. \A i \in S : Sound(when, snaps[i], clock)
      BY <1>3 DEF TotalsInv
    <3>3. QED
      BY <3>1, <3>2
  <2>3. \E i \in S : \A j \in S : snaps[i].asOf >= snaps[j].asOf
    <3>1. PICK w : w = [i \in S |-> snaps[i].asOf]
      OBVIOUS
    <3>2. IsFiniteSet(S)
      <4>1. IsFiniteSet(Runs)
        BY LedgerAssumption, FS_Interval DEF Runs
      <4>2. S \subseteq Runs
        BY <1>3
      <4>3. QED
        BY <4>1, <4>2, FS_Subset
    <3>3. \A i \in S : w[i] = snaps[i].asOf /\ w[i] \in Int
      BY <2>2, <3>1
    <3>4. PICK i \in S : \A j \in S : w[i] >= w[j]
      BY <2>1, <3>2, <3>3, LatestExists
    <3>5. QED
      BY <3>3, <3>4
  <2>4. PICK i \in S : start = snaps[i]
    BY <2>1, <2>3
  <2>5. Sound(when, snaps[i], clock) /\ snaps[i].asOf <= acc.asOf - Window
    BY <1>3 DEF TotalsInv
  <2>6. QED
    BY <1>1, <2>4, <2>5 DEF Sound
<1>6. QED
  BY <1>2, <1>4, <1>5

LEMMA PnlStep ==
    ASSUME NeutralInv, HistoryInv, [LedgerNext]_ledger
    PROVE  PnlInv'
<1>1. ClockInv /\ TotalsInv /\ DatesInv /\ PnlInv /\ Kept /\ ClockInv'
  BY ClockStep DEF NeutralInv
<1>2. Settled \subseteq Flows
  BY DEF Settled
<1>3. ASSUME acc'.listed \subseteq Flows, Early', acc'.daily.known = FALSE,
             acc'.roll.known = FALSE, acc'.all.known = FALSE
      PROVE  PnlInv'
  BY <1>3 DEF PnlInv
<1>4. ASSUME acc' = IdleRun PROVE PnlInv'
  BY <1>3, <1>4 DEF IdleRun, NoPnl, Early
<1>5. ASSUME Early, Early', SamePnl, acc'.listed = acc.listed
      PROVE  PnlInv'
  BY <1>1, <1>3, <1>5 DEF PnlInv, SamePnl
<1>6. ASSUME ~Early, ~Early', SamePnl, acc'.asOf = acc.asOf, acc'.seen = acc.seen,
             acc'.left = acc.left, acc'.listed = acc.listed
      PROVE  PnlInv'
  <2>1. ASSUME NEW pnl \in {acc.daily, acc.roll, acc.all}
        PROVE  Balanced(pnl)'
    <3>1. BalancedFor(pnl, acc.listed) /\ Stamped
      BY <1>1, <1>6, <2>1 DEF PnlInv, Balanced, Early, Stamped
    <3>2. PICK listed : listed = acc.listed
      OBVIOUS
    <3>3. QED
      BY <1>1, <1>6, <3>1, <3>2, BalancedStays DEF PnlInv
  <2>2. QED
    BY <1>1, <1>6, <2>1 DEF PnlInv, SamePnl
<1>7. ASSUME UNCHANGED acc PROVE PnlInv'
  BY <1>5, <1>6, <1>7 DEF Early, SamePnl
<1>8. CASE BeginRun
  <2>1. CASE latest = Torn
    BY <1>7, <1>8, <2>1 DEF BeginRun
  <2>2. CASE latest # Torn
    <3>1. acc.pc = "idle" /\ acc' = [acc EXCEPT !.pc = "begun", !.previous = latest]
      BY <1>8, <2>2 DEF BeginRun
    <3>2. acc'.pc = "begun" /\ SamePnl /\ acc'.listed = acc.listed
      BY <3>1 DEF HistoryInv, RunShape, SamePnl
    <3>3. QED
      BY <1>5, <3>1, <3>2 DEF Early
  <2>3. QED
    BY <2>1, <2>2
<1>9. CASE ReadPortfolio
  <2>1. PICK left \in SUBSET Happened, known \in BOOLEAN :
          acc' = [acc EXCEPT !.pc = "read", !.seen = Happened, !.left = left, !.known = known]
    BY <1>9 DEF ReadPortfolio
  <2>2. acc'.pc = "read" /\ SamePnl /\ acc'.listed = acc.listed
    BY <2>1 DEF HistoryInv, RunShape, SamePnl
  <2>3. QED
    BY <1>5, <1>9, <2>2 DEF Early, ReadPortfolio
<1>10. CASE Stamp
  <2>1. acc' = [acc EXCEPT !.pc = "stamped", !.asOf = clock]
    BY <1>10 DEF Stamp, Step
  <2>2. acc'.pc = "stamped" /\ SamePnl /\ acc'.listed = acc.listed
    BY <2>1 DEF HistoryInv, RunShape, SamePnl
  <2>3. QED
    BY <1>5, <1>10, <2>2 DEF Early, Stamp
<1>11. CASE ListCashflows
  <2>1. CASE acc' = IdleRun
    BY <1>4, <2>1
  <2>2. CASE acc' # IdleRun
    <3>1. PICK daily : daily = Pnl(acc.previous)
      OBVIOUS
    <3>2. PICK listed : listed = Settled
      OBVIOUS
    <3>3. /\ acc.pc = "stamped"
          /\ acc' = [acc EXCEPT !.pc = "compared", !.daily = daily, !.listed = listed]
      BY <1>11, <2>2, <3>1, <3>2 DEF ListCashflows, EndRun, Step
    <3>4. /\ acc'.pc = "compared" /\ acc'.daily = daily /\ acc'.listed = listed
          /\ acc'.roll = acc.roll /\ acc'.all = acc.all
          /\ acc'.asOf = acc.asOf /\ acc'.seen = acc.seen /\ acc'.left = acc.left
      BY <3>3 DEF HistoryInv, RunShape
    <3>5. BalancedFor(daily, listed)
      <4>1. PICK start : start = acc.previous
        OBVIOUS
      <4>2. Stamped /\ start # Null => Sound(when, start, acc.asOf)
        BY <1>1, <3>3, <4>1 DEF TotalsInv, Stamped, SeenBy
      <4>3. QED
        BY <1>1, <3>1, <3>2, <3>3, <4>1, <4>2, PnlSettles DEF Stamped
    <3>6. Balanced(daily)'
      BY <1>1, <1>2, <3>2, <3>3, <3>4, <3>5, BalancedStays DEF Stamped
    <3>7. \A pnl \in {acc.roll, acc.all} : Balanced(pnl)'
      BY <1>1, <3>3 DEF PnlInv, Early, Balanced, BalancedFor
    <3>8. \A pnl \in {daily, acc.roll, acc.all} : Balanced(pnl)'
      BY <3>6, <3>7
    <3>9. QED
      BY <1>2, <3>2, <3>4, <3>8 DEF PnlInv, Early
  <2>3. QED
    BY <2>1, <2>2
<1>12. CASE BuildWindows
  <2>1. CASE acc' = IdleRun
    BY <1>4, <2>1
  <2>2. CASE acc' # IdleRun
    <3>1. PICK roll : roll = Pnl(StartSnapshot(acc.asOf - Window))
      OBVIOUS
    <3>2. PICK inception \in {Inception, Null} :
            /\ acc.pc = "compared"
            /\ acc' = [acc EXCEPT !.pc = "snapshot",
                         !.roll = Pnl(StartSnapshot(acc.asOf - Window)),
                         !.all = Pnl(inception), !.listed = @ \cap Settled]
      BY <1>12, <2>2 DEF BuildWindows, EndRun, Step
    <3>20. PICK all : all = Pnl(inception)
      OBVIOUS
    <3>3. PICK listed : listed = Settled
      OBVIOUS
    <3>4. /\ acc.pc = "compared"
          /\ acc' = [acc EXCEPT !.pc = "snapshot", !.roll = roll, !.all = all,
                                !.listed = acc.listed \cap listed]
      BY <3>1, <3>2, <3>3, <3>20
    <3>5. /\ acc'.pc = "snapshot" /\ acc'.daily = acc.daily /\ acc'.roll = roll
          /\ acc'.all = all /\ acc'.listed = acc.listed \cap listed
          /\ acc'.asOf = acc.asOf /\ acc'.seen = acc.seen /\ acc'.left = acc.left
      BY <3>4 DEF HistoryInv, RunShape
    <3>6. Stamped
      BY <3>4 DEF Stamped
    <3>7. Balanced(roll)'
      <4>1. PICK start : start = StartSnapshot(acc.asOf - Window)
        OBVIOUS
      <4>2. start # Null => Sound(when, start, acc.asOf)
        BY <1>1, <3>6, <4>1, StartsAreSound
      <4>3. BalancedFor(roll, listed)
        BY <1>1, <3>1, <3>3, <3>6, <4>1, <4>2, PnlSettles
      <4>4. QED
        BY <1>1, <1>2, <3>3, <3>5, <3>6, <4>3, BalancedStays
    <3>8. Balanced(all)'
      <4>1. PICK start : start = inception
        OBVIOUS
      <4>2. start # Null => Sound(when, start, acc.asOf)
        BY <1>1, <3>2, <3>6, <4>1, StartsAreSound
      <4>3. BalancedFor(all, listed)
        BY <1>1, <3>3, <3>6, <3>20, <4>1, <4>2, PnlSettles
      <4>4. QED
        BY <1>1, <1>2, <3>3, <3>5, <3>6, <4>3, BalancedStays
    <3>9. \A daily : daily = acc.daily => Balanced(daily)'
      <4>1. SUFFICES ASSUME NEW daily, daily = acc.daily PROVE Balanced(daily)'
        OBVIOUS
      <4>2. PICK before : before = acc.listed
        OBVIOUS
      <4>3. BalancedFor(daily, before) /\ before \subseteq Flows
        BY <1>1, <3>4, <4>1, <4>2 DEF PnlInv, Early, Balanced
      <4>4. QED
        BY <1>1, <3>5, <3>6, <4>2, <4>3, BalancedStays
    <3>10. PICK daily : daily = acc.daily
      OBVIOUS
    <3>11. \A pnl \in {daily, roll, all} : Balanced(pnl)'
      BY <3>7, <3>8, <3>9, <3>10
    <3>12. acc'.listed \subseteq Flows
      BY <1>2, <3>3, <3>5
    <3>13. QED
      BY <3>5, <3>10, <3>11, <3>12 DEF PnlInv, Early
  <2>3. QED
    BY <2>1, <2>2
<1>13. CASE OpenSnapshot \/ PutSnapshot \/ OpenLatest \/ PutLatest \/ SummaryFails
  <2>1. /\ acc.pc \in {"snapshot", "snapshotting", "summary", "summarising"}
        /\ \E pc \in {"snapshotting", "summary", "summarising", "publish"} :
             acc' = [acc EXCEPT !.pc = pc]
    BY <1>13 DEF OpenSnapshot, PutSnapshot, OpenLatest, PutLatest, SummaryFails, Ready, Step
  <2>2. /\ acc'.pc \in {"snapshotting", "summary", "summarising", "publish"}
        /\ SamePnl /\ acc'.asOf = acc.asOf /\ acc'.seen = acc.seen /\ acc'.left = acc.left
        /\ acc'.listed = acc.listed
    BY <2>1 DEF HistoryInv, RunShape, SamePnl
  <2>3. QED
    BY <1>6, <2>1, <2>2 DEF Early
<1>14. CASE Publish \/ RunThrows \/ CrashLedger
  BY <1>4, <1>14 DEF Publish, RunThrows, CrashLedger, EndRun, Step
<1>15. CASE \/ Tick \/ UNCHANGED ledger
            \/ \E f \in Flows : Transfer(f) \/ Post(f) \/ \E r \in Careful : LookUp(r, f)
            \/ \E r \in Recorders : CheckKey(r) \/ OpenCashflow(r) \/ PutCashflow(r)
                                    \/ RecordingFails(r)
  BY <1>7, <1>15
     DEF Tick, ledger, Transfer, Post, LookUp, CheckKey, OpenCashflow, PutCashflow,
         RecordingFails, Date, Rec
<1>16. QED
  BY <1>8, <1>9, <1>10, <1>11, <1>12, <1>13, <1>14, <1>15 DEF LedgerNext, RunSteps

LEMMA NeutralInvStep ==
    NeutralInv /\ HistoryInv /\ CashInv /\ [LedgerNext]_ledger => NeutralInv'
<1> SUFFICES ASSUME NeutralInv, HistoryInv, CashInv, [LedgerNext]_ledger
             PROVE  NeutralInv'
  OBVIOUS
<1>1. ClockInv'
  BY ClockStep DEF NeutralInv
<1>2. DatesInv'
  BY DatesStep DEF NeutralInv
<1>3. TotalsInv'
  BY TotalsStep DEF NeutralInv
<1>4. PnlInv'
  BY PnlStep
<1>5. QED
  BY <1>1, <1>2, <1>3, <1>4 DEF NeutralInv

\* In a market that stands still the reported P&L, over every window whose ends
\* missed no transfer and whose transfers were recorded in time and dated right, is
\* what its two totals leave out differently for want of a price, to the cent
\* (src/src/services/pnl-windows.ts, src/src/services/accounting.ts).
THEOREM PnlIsNeutral == LedgerSpec => []PnlIsFlowNeutral
<1>1. NeutralInv => PnlIsFlowNeutral
  <2> SUFFICES ASSUME NeutralInv, NEW pnl \in SettledWindows
               PROVE  pnl.value = Nav(pnl.since.left) - Nav(acc.left)
    BY DEF PnlIsFlowNeutral
  <2>1. /\ pnl \in {acc.daily, acc.roll, acc.all} /\ pnl.known /\ Straddled(pnl.since) = {}
        /\ acc.listed = Flows /\ Straddled(acc) = {} /\ Stamped /\ ~Early
    BY DEF SettledWindows, Stamped, Early
  <2>2. Balanced(pnl)
    BY <2>1 DEF NeutralInv, PnlInv
  <2>3. QED
    BY <2>1, <2>2, BalancedIsNeutral
<1>2. QED
  BY HistoryInvInit, HistoryInvStep, CashInvInit, CashInvStep, NeutralInvInit, NeutralInvStep,
     <1>1, PTL DEF LedgerSpec
=============================================================================
