-------------------------- MODULE ExecutionProofs ---------------------------
(* Machine-checked proofs about the executor, for any number of calls of     *)
(* any kind, crashes, lost confirmations and failed writes: it does not lose *)
(* an escrow, it reports what landed and nothing else, it quotes a shape     *)
(* within the balance it read, it deposits only into an escrow that is on    *)
(* record and opted in, and it submits for each claim of a batch the quote   *)
(* compiled for it.                                                          *)
EXTENDS Execution, TLAPS, SequenceTheorems, FiniteSetTheorems,
        WellFoundedInduction

-----------------------------------------------------------------------------
(* Naturals: least elements, induction and recursion up to a bound.  A set  *)
(* and a function stand for the predicate and the operator.                 *)

LEMMA Least ==
    ASSUME NEW S \in SUBSET Nat, S # {}
    PROVE  /\ Min(S) \in S
           /\ \A y \in S : Min(S) <= y
<1> DEFINE R == OpToRel(<, Nat)
<1>1. PICK m \in S : \A y \in S : <<y, m>> \notin R
  <2>1. IsWellFoundedOn(R, Nat)
    BY NatLessThanWellFounded
  <2> HIDE DEF R
  <2>2. QED
    BY <2>1, WFMin
<1>2. \A y \in S : m <= y
  <2> SUFFICES ASSUME NEW y \in S PROVE m <= y
    OBVIOUS
  <2>1. m \in Nat /\ y \in Nat
    OBVIOUS
  <2>2. ~(y < m)
    BY <1>1, <2>1 DEF OpToRel
  <2>3. QED
    BY <2>1, <2>2
<1> HIDE DEF R
<1>3. \E x \in S : \A y \in S : x <= y
  BY <1>2
<1>4. QED
  BY <1>3 DEF Min

LEMMA UpTo ==
    ASSUME NEW n \in Nat, NEW Good, 0 \in Good,
           \A k \in 1..n : k - 1 \in Good => k \in Good
    PROVE  \A k \in 0..n : k \in Good
<1> DEFINE Bad == {k \in 0..n : k \notin Good}
<1>1. SUFFICES ASSUME Bad # {} PROVE FALSE
  OBVIOUS
<1>2. PICK m : m = Min(Bad)
  OBVIOUS
<1>3. m \in Bad /\ \A y \in Bad : m <= y
  <2>1. Bad \in SUBSET Nat
    OBVIOUS
  <2>2. QED
    BY ONLY <1>1, <1>2, <2>1, Least
<1>4. m \in 1..n /\ m - 1 \in 0..n /\ m - 1 \notin Bad
  BY <1>3
<1>5. QED
  BY <1>3, <1>4

Recurs(f, n, base, g) == f[0] = base /\ \A k \in 1..n : f[k] = g[<<k, f[k - 1]>>]

LEMMA Recursion ==
    ASSUME NEW n \in Nat, NEW S, NEW base \in S, NEW g \in [(1..n) \X S -> S]
    PROVE  \E f \in [0..n -> S] : Recurs(f, n, base, g)
<1> DEFINE Good == {m \in 0..n : \E f \in [0..m -> S] : Recurs(f, m, base, g)}
<1>1. 0 \in Good
  <2>1. PICK f : f = [k \in 0..0 |-> base]
    OBVIOUS
  <2>2. f \in [0..0 -> S] /\ Recurs(f, 0, base, g) /\ 0 \in 0..n
    BY <2>1 DEF Recurs
  <2>3. QED
    BY <2>2
<1>2. ASSUME NEW m \in 1..n, m - 1 \in Good
      PROVE  m \in Good
  <2>1. PICK f \in [0..(m - 1) -> S] : Recurs(f, m - 1, base, g)
    BY <1>2
  <2>2. PICK h : h = [k \in 0..m |-> IF k = m THEN g[<<m, f[m - 1]>>] ELSE f[k]]
    OBVIOUS
  <2>3. f[m - 1] \in S /\ g[<<m, f[m - 1]>>] \in S
    <3>1. m - 1 \in 0..(m - 1) /\ m \in 1..n
      OBVIOUS
    <3>2. f[m - 1] \in S
      BY <3>1
    <3>3. <<m, f[m - 1]>> \in (1..n) \X S
      BY <3>1, <3>2
    <3>4. QED
      BY <3>2, <3>3
  <2>4. h \in [0..m -> S]
    BY <2>2, <2>3
  <2>5. Recurs(h, m, base, g)
    <3>1. h[0] = base
      BY <2>1, <2>2 DEF Recurs
    <3>2. ASSUME NEW k \in 1..m
          PROVE  h[k] = g[<<k, h[k - 1]>>]
      <4>1. k - 1 \in 0..(m - 1) /\ k - 1 # m
        OBVIOUS
      <4>2. h[k - 1] = f[k - 1]
        BY <2>2, <4>1
      <4>3. CASE k = m
        <5>1. m \in 0..m /\ h[m] = g[<<m, f[m - 1]>>]
          BY <2>2
        <5>2. QED
          BY <4>2, <4>3, <5>1
      <4>4. CASE k # m
        <5>1. k \in 1..(m - 1) /\ k \in 0..m
          BY <4>4
        <5>2. f[k] = g[<<k, f[k - 1]>>]
          BY <2>1, <5>1 DEF Recurs
        <5>3. h[k] = f[k]
          BY <2>2, <4>4, <5>1
        <5>4. QED
          BY <4>2, <5>2, <5>3
      <4>5. QED
        BY <4>3, <4>4
    <3>3. QED
      BY <3>1, <3>2 DEF Recurs
  <2>6. QED
    BY <2>4, <2>5
<1>3. n \in Good
  <2> HIDE DEF Good
  <2>1. \A k \in 0..n : k \in Good
    BY ONLY <1>1, <1>2, UpTo, n \in Nat
  <2>2. QED
    BY <2>1
<1>4. QED
  BY <1>3

-----------------------------------------------------------------------------
(* Those: the filter keeps members, loses none and repeats none.           *)

LEMMA ThoseIs ==
    ASSUME NEW T, NEW seq \in Seq(T), NEW set
    PROVE  /\ Those(seq, set) \in Seq(T)
           /\ ToSet(Those(seq, set)) = ToSet(seq) \cap set
           /\ IsInjective(seq) => IsInjective(Those(seq, set))
<1> DEFINE Takes(those) ==
        those = [n \in 0..Len(seq) |->
            IF n = 0 THEN <<>>
            ELSE IF seq[n] \in set THEN Append(those[n - 1], seq[n]) ELSE those[n - 1]]
<1>1. PICK n \in Nat : n = Len(seq) /\ DOMAIN seq = 1..n /\ \A i \in 1..n : seq[i] \in T
  OBVIOUS
<1>2. \E those \in [0..n -> Seq(T)] : Takes(those)
  <2> DEFINE g == [x \in (1..n) \X Seq(T) |->
                    IF seq[x[1]] \in set THEN Append(x[2], seq[x[1]]) ELSE x[2]]
  <2>1. \A k \in 1..n, s \in Seq(T) :
            g[<<k, s>>] = IF seq[k] \in set THEN Append(s, seq[k]) ELSE s
    OBVIOUS
  <2>2. g \in [(1..n) \X Seq(T) -> Seq(T)]
    <3>1. \A x \in (1..n) \X Seq(T) : x[1] \in 1..n /\ x[2] \in Seq(T)
      OBVIOUS
    <3>2. \A x \in (1..n) \X Seq(T) :
            (IF seq[x[1]] \in set THEN Append(x[2], seq[x[1]]) ELSE x[2]) \in Seq(T)
      BY <1>1, <3>1
    <3>3. QED
      BY <3>2
  <2>3. <<>> \in Seq(T)
    OBVIOUS
  <2> HIDE DEF g
  <2>4. PICK f \in [0..n -> Seq(T)] : Recurs(f, n, <<>>, g)
    BY <2>2, <2>3, Recursion
  <2>5. \A k \in 1..n : f[k] = IF seq[k] \in set THEN Append(f[k - 1], seq[k]) ELSE f[k - 1]
    <3>1. \A k \in 1..n : k - 1 \in 0..n /\ f[k - 1] \in Seq(T)
      OBVIOUS
    <3>2. QED
      BY <2>1, <2>4, <3>1 DEF Recurs
  <2>6. Takes(f)
    <3>1. PICK h : h = [k \in 0..n |->
                    IF k = 0 THEN <<>>
                    ELSE IF seq[k] \in set THEN Append(f[k - 1], seq[k]) ELSE f[k - 1]]
      OBVIOUS
    <3>2. \A k \in 0..n : k = 0 \/ k \in 1..n
      OBVIOUS
    <3>3. \A k \in 0..n : f[k] = h[k]
      BY <2>4, <2>5, <3>1, <3>2 DEF Recurs
    <3>4. f = h
      BY <3>1, <3>3
    <3>5. QED
      BY <1>1, <3>1, <3>4
  <2>7. QED
    BY <2>6
<1>3. PICK those : those = (CHOOSE f : Takes(f))
  OBVIOUS
<1>4. Takes(those) /\ Those(seq, set) = those[n]
  <2>1. \E f : Takes(f)
    BY <1>2
  <2>2. Takes(those)
    <3> HIDE DEF Takes
    <3>1. QED
      BY <1>3, <2>1
  <2>3. Those(seq, set) = those[n]
    BY <1>1, <1>3 DEF Those
  <2>4. QED
    BY <2>2, <2>3
<1>5. /\ those[0] = <<>>
      /\ \A k \in 1..n : those[k] = IF seq[k] \in set THEN Append(those[k - 1], seq[k])
                                    ELSE those[k - 1]
  <2>1. PICK h : h = [k \in 0..n |->
                    IF k = 0 THEN <<>>
                    ELSE IF seq[k] \in set THEN Append(those[k - 1], seq[k]) ELSE those[k - 1]]
    OBVIOUS
  <2>2. those = h
    BY <1>1, <1>4, <2>1
  <2>3. 0 \in 0..n /\ \A k \in 1..n : k \in 0..n /\ k # 0
    OBVIOUS
  <2>4. h[0] = <<>> /\ \A k \in 1..n : h[k] = IF seq[k] \in set THEN Append(those[k - 1], seq[k])
                                    ELSE those[k - 1]
    BY <2>1, <2>3
  <2>5. QED
    BY <2>2, <2>4
<1> HIDE DEF Takes
<1> DEFINE Part(k) == {seq[i] : i \in 1..k}
           Right(part, k) ==
            /\ part \in Seq(T)
            /\ ToSet(part) = Part(k) \cap set
            /\ IsInjective(seq) => IsInjective(part)
           Good == {k \in 0..n : Right(those[k], k)}
<1>6. 0 \in Good
  <2>1. those[0] = <<>> /\ <<>> \in Seq(T) /\ DOMAIN <<>> = {}
    BY <1>5
  <2>2. ToSet(<<>>) = {} /\ Part(0) = {}
    BY <2>1 DEF ToSet
  <2>3. IsInjective(<<>>)
    BY <2>1 DEF IsInjective
  <2>4. Right(<<>>, 0)
    BY <2>1, <2>2, <2>3
  <2> HIDE DEF Right
  <2>5. QED
    BY <2>1, <2>4
<1>7. ASSUME NEW k \in 1..n, k - 1 \in Good
      PROVE  k \in Good
  <2>1. Right(those[k - 1], k - 1)
    <3> HIDE DEF Right
    <3>1. QED
      BY <1>7
  <2>2. PICK s \in Seq(T) : s = those[k - 1]
    BY <2>1
  <2>3. CASE seq[k] \notin set
    <3>1. those[k] = s
      BY <1>5, <2>2, <2>3
    <3>2. Part(k) \cap set = Part(k - 1) \cap set
      <4>1. \A i \in 1..k : i \in 1..(k - 1) \/ i = k
        OBVIOUS
      <4>2. \A i \in 1..(k - 1) : i \in 1..k
        OBVIOUS
      <4>3. QED
        BY <2>3, <4>1, <4>2
    <3> HIDE DEF Part
    <3>3. Right(s, k)
      BY <2>1, <2>2, <3>2
    <3> HIDE DEF Right
    <3>4. QED
      BY <3>1, <3>3
  <2>4. CASE seq[k] \in set
    <3>1. those[k] = Append(s, seq[k]) /\ seq[k] \in T
      BY <1>1, <1>5, <2>2, <2>4
    <3>2. PICK t \in Seq(T) : t = Append(s, seq[k])
      <4>1. PICK x \in T : x = seq[k]
        BY <3>1
      <4>2. Append(s, x) \in Seq(T)
        OBVIOUS
      <4>3. QED
        BY <4>1, <4>2
    <3>3. /\ DOMAIN s = 1..Len(s) /\ DOMAIN t = 1..(Len(s) + 1) /\ Len(s) \in Nat
          /\ \A i \in 1..Len(s) : t[i] = s[i]
          /\ t[Len(s) + 1] = seq[k]
      BY <3>1, <3>2
    <3>4. ToSet(t) = ToSet(s) \cup {seq[k]}
      BY <3>3 DEF ToSet
    <3>5. Part(k) = Part(k - 1) \cup {seq[k]}
      <4>1. \A i \in 1..k : i \in 1..(k - 1) \/ i = k
        OBVIOUS
      <4>2. \A i \in 1..(k - 1) : i \in 1..k
        OBVIOUS
      <4>3. QED
        BY <4>1, <4>2
    <3>6. ASSUME IsInjective(seq)
          PROVE  IsInjective(t)
      <4>1. IsInjective(s) /\ ToSet(s) \subseteq Part(k - 1)
        BY <2>1, <2>2, <3>6
      <4>2. \A i \in 1..(k - 1) : seq[i] # seq[k]
        BY SMTT(20), <1>1, <3>6 DEF IsInjective
      <4>3. seq[k] \notin Part(k - 1)
        BY <4>2
      <4>4. \A i \in 1..Len(s) : s[i] \in ToSet(s)
        BY <3>3 DEF ToSet
      <4>5. \A i \in 1..Len(s) : s[i] # seq[k]
        BY <4>1, <4>3, <4>4
      <4>6. QED
        BY <3>3, <4>1, <4>5 DEF IsInjective
    <3> HIDE DEF Part
    <3>7. ToSet(t) = Part(k) \cap set
      BY <2>1, <2>2, <2>4, <3>4, <3>5
    <3>8. IsInjective(seq) => IsInjective(t)
      BY <3>6
    <3>9. Right(t, k)
      BY <3>7, <3>8
    <3>10. those[k] = t /\ k \in 0..n
      BY <3>1, <3>2
    <3> HIDE DEF Right
    <3>11. QED
      BY <3>9, <3>10
  <2>5. QED
    BY <2>3, <2>4
<1>8. Right(those[n], n)
  <2>1. \A k \in 0..n : k \in Good
    <3> HIDE DEF Good
    <3>1. QED
      BY ONLY <1>6, <1>7, UpTo, n \in Nat
  <2> HIDE DEF Right
  <2>2. QED
    BY <2>1
<1>9. QED
  BY <1>1, <1>4, <1>8 DEF ToSet

-----------------------------------------------------------------------------
(* The plan of a claim batch.                                              *)

\* The quotes of a row's first occurrences: no two are equal, none is lost.
LEMMA FirstOfEachIs ==
    ASSUME NEW T, NEW seq \in Seq(T)
    PROVE  FirstOfEach(seq) \in Seq(T) /\ IsInjective(FirstOfEach(seq))
<1> DEFINE places == [i \in DOMAIN seq |-> i]
           first  == {i \in DOMAIN seq : \A j \in 1..(i - 1) : seq[j] # seq[i]}
           firsts == Those(places, first)
<1>1. PICK n \in Nat : n = Len(seq) /\ DOMAIN seq = 1..n /\ \A i \in 1..n : seq[i] \in T
  OBVIOUS
<1>2. places \in Seq(1..n) /\ ToSet(places) = 1..n /\ IsInjective(places)
  <2>1. places = [i \in 1..n |-> i]
    BY <1>1
  <2>2. QED
    BY <2>1 DEF ToSet, IsInjective
<1>3. firsts \in Seq(1..n) /\ ToSet(firsts) = first /\ IsInjective(firsts)
  <2> HIDE DEF places, first
  <2>1. ToSet(Those(places, first)) = (1..n) \cap first
    BY <1>2, ThoseIs
  <2>2. first \subseteq 1..n
    BY <1>1 DEF first
  <2>3. QED
    BY <1>2, <2>1, <2>2, ThoseIs
<1> HIDE DEF places, firsts
<1>4. PICK u : u = FirstOfEach(seq)
  OBVIOUS
<1>5. u = [k \in DOMAIN firsts |-> seq[firsts[k]]]
  BY <1>4 DEF FirstOfEach, firsts, places
<1>6. PICK m \in Nat : m = Len(firsts) /\ DOMAIN firsts = 1..m /\ \A k \in 1..m : firsts[k] \in 1..n
  BY <1>3
<1>7. \A k \in 1..m : firsts[k] \in first
  BY <1>3, <1>6 DEF ToSet
<1>8. u \in Seq(T) /\ DOMAIN u = 1..m
  <2>1. u \in [1..m -> T]
    BY <1>1, <1>5, <1>6
  <2>2. QED
    BY <2>1
<1>9. IsInjective(u)
  <2> SUFFICES ASSUME NEW k \in 1..m, NEW l \in 1..m, u[k] = u[l] PROVE k = l
    BY <1>8 DEF IsInjective
  <2>1. PICK i \in 1..n, j \in 1..n : i = firsts[k] /\ j = firsts[l]
    BY <1>6
  <2>2. seq[i] = seq[j] /\ i \in first /\ j \in first
    BY <1>5, <1>6, <1>7, <2>1
  <2>3. ~(i < j) /\ ~(j < i)
    <3>1. i < j => i \in 1..(j - 1)
      OBVIOUS
    <3>2. j < i => j \in 1..(i - 1)
      OBVIOUS
    <3>3. QED
      BY <2>2, <3>1, <3>2
  <2>4. firsts[k] = firsts[l]
    BY <2>1, <2>3
  <2>5. QED
    BY <1>3, <1>6, <2>4 DEF IsInjective
<1>10. QED
  BY <1>4, <1>8, <1>9

\* Joining sequences of one type.
LEMMA FlattenIs ==
    ASSUME NEW T, NEW seqs \in Seq(Seq(T))
    PROVE  FlattenSeq(seqs) \in Seq(T)
<1> DEFINE Joins(f) ==
        f = [i \in 1..Len(seqs) |-> IF i = 1 THEN seqs[i] ELSE f[i - 1] \o seqs[i]]
<1>1. PICK n \in Nat : n = Len(seqs) /\ \A i \in 1..n : seqs[i] \in Seq(T)
  OBVIOUS
<1>2. CASE n = 0
  <2>1. seqs = <<>> /\ FlattenSeq(seqs) = seqs
    BY <1>1, <1>2, EmptySeq DEF FlattenSeq
  <2>2. <<>> \in Seq(T)
    OBVIOUS
  <2>3. QED
    BY <2>1, <2>2
<1>3. CASE n # 0
  <2>1. n - 1 \in Nat /\ seqs[1] \in Seq(T)
    BY <1>1, <1>3
  <2> DEFINE g == [x \in (1..(n - 1)) \X Seq(T) |-> x[2] \o seqs[x[1] + 1]]
  <2>2. \A k \in 1..(n - 1), s \in Seq(T) : g[<<k, s>>] = s \o seqs[k + 1]
    OBVIOUS
  <2>3. g \in [(1..(n - 1)) \X Seq(T) -> Seq(T)]
    <3>1. \A x \in (1..(n - 1)) \X Seq(T) : x[1] + 1 \in 1..n /\ x[2] \in Seq(T)
      OBVIOUS
    <3>2. \A x \in (1..(n - 1)) \X Seq(T) : (x[2] \o seqs[x[1] + 1]) \in Seq(T)
      BY <1>1, <3>1
    <3>3. QED
      BY <3>2
  <2> HIDE DEF g
  <2>4. PICK f \in [0..(n - 1) -> Seq(T)] : Recurs(f, n - 1, seqs[1], g)
    BY <2>1, <2>3, Recursion
  <2>5. PICK h : h = [i \in 1..n |-> f[i - 1]]
    OBVIOUS
  <2>6. ASSUME NEW i \in 1..n
        PROVE  h[i] = IF i = 1 THEN seqs[i] ELSE h[i - 1] \o seqs[i]
    <3>1. CASE i = 1
      BY <2>4, <2>5, <3>1 DEF Recurs
    <3>2. CASE i # 1
      <4>1. PICK k \in 1..(n - 1) : k = i - 1
        BY <3>2
      <4>2. f[k] = g[<<k, f[k - 1]>>] /\ f[k - 1] \in Seq(T)
        BY <2>4, <4>1 DEF Recurs
      <4>3. f[k] = f[k - 1] \o seqs[k + 1]
        BY <2>2, <4>2
      <4>4. h[i] = f[k] /\ h[i - 1] = f[k - 1] /\ k + 1 = i
        BY <2>5, <4>1
      <4>5. QED
        BY <3>2, <4>3, <4>4
    <3>3. QED
      BY <3>1, <3>2
  <2>7. Joins(h)
    <3>1. PICK j : j = [i \in 1..n |-> IF i = 1 THEN seqs[i] ELSE h[i - 1] \o seqs[i]]
      OBVIOUS
    <3>2. h = j
      BY <2>5, <2>6, <3>1
    <3>3. QED
      BY <1>1, <3>1, <3>2
  <2>8. PICK flat : flat = (CHOOSE j : Joins(j))
    OBVIOUS
  <2>9. Joins(flat) /\ FlattenSeq(seqs) = flat[n]
    <3>1. \E j : Joins(j)
      BY <2>7
    <3>2. Joins(flat)
      <4> HIDE DEF Joins
      <4>1. QED
        BY <2>8, <3>1
    <3>3. FlattenSeq(seqs) = flat[n]
      BY <1>1, <1>3, <2>8 DEF FlattenSeq
    <3>4. QED
      BY <3>2, <3>3
  <2>10. \A i \in 1..n : flat[i] = IF i = 1 THEN seqs[i] ELSE flat[i - 1] \o seqs[i]
    <3>1. PICK j : j = [i \in 1..n |-> IF i = 1 THEN seqs[i] ELSE flat[i - 1] \o seqs[i]]
      OBVIOUS
    <3>2. flat = j
      BY <1>1, <2>9, <3>1
    <3>3. QED
      BY <3>1, <3>2
  <2> HIDE DEF Joins
  <2> DEFINE Good == {k \in 0..(n - 1) : flat[k + 1] \in Seq(T)}
  <2>11. 0 \in Good
    BY <1>1, <2>1, <2>10
  <2>12. ASSUME NEW k \in 1..(n - 1), k - 1 \in Good
         PROVE  k \in Good
    <3>1. k + 1 \in 1..n /\ k + 1 # 1 /\ (k + 1) - 1 = k /\ (k - 1) + 1 = k /\ k \in 0..(n - 1)
      OBVIOUS
    <3>2. flat[k + 1] = flat[k] \o seqs[k + 1] /\ flat[k] \in Seq(T) /\ seqs[k + 1] \in Seq(T)
      BY <1>1, <2>10, <2>12, <3>1
    <3>3. flat[k + 1] \in Seq(T)
      BY <3>2
    <3>4. QED
      BY <3>1, <3>3
  <2>13. \A k \in 0..(n - 1) : k \in Good
    <3> HIDE DEF Good
    <3>1. QED
      BY ONLY <2>1, <2>11, <2>12, UpTo
  <2>14. n - 1 \in 0..(n - 1) /\ (n - 1) + 1 = n
    BY <2>1
  <2>15. flat[n] \in Seq(T)
    BY <2>13, <2>14
  <2>16. QED
    BY <2>9, <2>15
<1>4. QED
  BY <1>2, <1>3

\* The desk whose rows are arrays, and the quotes in them.
IsDesk(desk) ==
    desk \in Seq(ToSet(desk)) /\ \A r \in ToSet(desk) : r.quotes \in Seq(ToSet(r.quotes))
DeskQuotes(desk) == UNION {ToSet(r.quotes) : r \in ToSet(desk)}

LEMMA MatchIs ==
    ASSUME NEW desk, desk \in Seq(ToSet(desk)), NEW action
    PROVE  MatchRow(action, desk) \in Seq(ToSet(desk))
<1> DEFINE rows  == {r \in ToSet(desk) : action.key \in r.keys \cup {r.claimKey}}
           byPos == {r \in rows : action.pos # Null /\ r.pos = action.pos}
           byOpp == {r \in rows : action.opp # Null /\ r.opp = action.opp}
           found == IF byPos # {} THEN byPos ELSE IF byOpp # {} THEN byOpp ELSE rows
           match == Those(desk, found)
<1>1. CASE action.key = Null \/ rows = {}
  <2>1. MatchRow(action, desk) = <<>>
    BY <1>1 DEF MatchRow
  <2>2. QED
    BY <2>1
<1>2. CASE ~(action.key = Null \/ rows = {})
  <2>1. found # {} /\ found \subseteq ToSet(desk)
    BY <1>2
  <2>2. MatchRow(action, desk) = <<match[1]>>
    BY <1>2 DEF MatchRow
  <2> HIDE DEF found
  <2>3. match \in Seq(ToSet(desk)) /\ ToSet(match) = ToSet(desk) \cap found
    BY ThoseIs
  <2>4. ToSet(match) # {}
    BY <2>1, <2>3
  <2> HIDE DEF match
  <2>5. match # <<>>
    BY <2>4 DEF ToSet
  <2>6. match[1] \in ToSet(desk)
    BY <2>3, <2>5
  <2>7. <<match[1]>> \in Seq(ToSet(desk))
    BY <2>6
  <2>8. QED
    BY <2>2, <2>7
<1>3. QED
  BY <1>1, <1>2

LEMMA RowsAre ==
    ASSUME NEW desk, desk \in Seq(ToSet(desk)), NEW action
    PROVE  RowsOf(action, desk) \in Seq(ToSet(desk))
<1> DEFINE match == MatchRow(action, desk)
           same  == {r \in ToSet(desk) : r.claimKey = match[1].claimKey}
<1>1. match \in Seq(ToSet(desk))
  BY MatchIs
<1>2. Those(desk, same) \in Seq(ToSet(desk))
  <2> HIDE DEF same
  <2>1. QED
    BY ThoseIs
<1>3. RowsOf(action, desk) \in {<<>>, match, Those(desk, same)}
  BY DEF RowsOf
<1>4. <<>> \in Seq(ToSet(desk))
  OBVIOUS
<1> HIDE DEF match, same
<1>5. QED
  BY <1>1, <1>2, <1>3, <1>4

\* The quotes of a claim are desk quotes, each of them once.
LEMMA QuotesAre ==
    ASSUME NEW desk, IsDesk(desk), NEW action
    PROVE  /\ QuotesOf(action, desk) \in Seq(DeskQuotes(desk))
           /\ IsInjective(QuotesOf(action, desk))
<1> DEFINE rows == RowsOf(action, desk)
           each == [i \in DOMAIN rows |-> rows[i].quotes]
<1>1. rows \in Seq(ToSet(desk))
  BY RowsAre DEF IsDesk
<1>2. \A r \in ToSet(desk) : r.quotes \in Seq(DeskQuotes(desk))
  <2> SUFFICES ASSUME NEW r \in ToSet(desk) PROVE r.quotes \in Seq(DeskQuotes(desk))
    OBVIOUS
  <2>1. r.quotes \in Seq(ToSet(r.quotes)) /\ ToSet(r.quotes) \subseteq DeskQuotes(desk)
    BY DEF IsDesk, DeskQuotes
  <2>2. QED
    BY <2>1, SeqMonotonic
<1> HIDE DEF rows
<1>3. each \in Seq(Seq(DeskQuotes(desk)))
  <2>1. PICK n \in Nat : DOMAIN rows = 1..n /\ \A i \in 1..n : rows[i] \in ToSet(desk)
    BY <1>1
  <2>2. \A i \in 1..n : rows[i].quotes \in Seq(DeskQuotes(desk))
    BY <1>2, <2>1
  <2>3. QED
    BY <2>1, <2>2
<1>4. QuotesOf(action, desk) = FirstOfEach(FlattenSeq(each))
  BY DEF QuotesOf, rows
<1> HIDE DEF each
<1>5. FlattenSeq(each) \in Seq(DeskQuotes(desk))
  BY <1>3, FlattenIs
<1>6. QED
  BY <1>4, <1>5, FirstOfEachIs

\* A plan: claims of some actions, no two with the same quote.
Distinct(planned) ==
    \A i, j \in DOMAIN planned : planned[i].quote = planned[j].quote => i = j
Plans(I, K, Q) ==
    {acc \in [planned : Seq([act : I, quote : Q]), skipped : SUBSET I,
              claimKeys : SUBSET K] : Distinct(acc.planned)}

LEMMA TakeClaimKeeps ==
    ASSUME NEW desk, IsDesk(desk), NEW action, NEW I, NEW K, action.id \in I,
           RowsOf(action, desk)[1].claimKey \in K,
           NEW acc \in Plans(I, K, DeskQuotes(desk))
    PROVE  TakeClaim(acc, action, desk) \in Plans(I, K, DeskQuotes(desk))
<1> DEFINE Q        == DeskQuotes(desk)
           quotes   == QuotesOf(action, desk)
           claimKey == RowsOf(action, desk)[1].claimKey
           old      == {p.quote : p \in ToSet(acc.planned)}
           novel    == Those(quotes, ToSet(quotes) \ old)
           more     == [i \in DOMAIN novel |-> [act |-> action.id, quote |-> novel[i]]]
           next     == TakeClaim(acc, action, desk)
<1> HIDE DEF Q
<1>1. quotes \in Seq(Q) /\ IsInjective(quotes)
  BY QuotesAre DEF Q
<1>2. novel \in Seq(Q) /\ IsInjective(novel) /\ ToSet(novel) \cap old = {}
  <2> HIDE DEF quotes, old
  <2>1. ToSet(novel) = ToSet(quotes) \cap (ToSet(quotes) \ old)
    BY <1>1, ThoseIs
  <2>2. QED
    BY <1>1, <2>1, ThoseIs
<1>3. /\ acc \in [planned : Seq([act : I, quote : Q]), skipped : SUBSET I,
                  claimKeys : SUBSET K]
      /\ Distinct(acc.planned)
  BY DEF Plans, Q
<1>4. /\ claimKey \in K
      /\ \/ next = acc
         \/ next = [acc EXCEPT !.skipped = @ \cup {action.id}]
         \/ next = [acc EXCEPT !.claimKeys = @ \cup ({claimKey} \ {Null}),
                               !.planned = @ \o more]
  BY DEF TakeClaim
<1> HIDE DEF quotes, claimKey, novel, next
<1>5. PICK m \in Nat : m = Len(novel) /\ DOMAIN novel = 1..m /\ \A i \in 1..m : novel[i] \in Q
  BY <1>2
<1>6. more \in Seq([act : I, quote : Q]) /\ Len(more) = m
  <2>1. more \in [1..m -> [act : I, quote : Q]]
    BY <1>5
  <2>2. QED
    BY <2>1
<1>7. \A i \in 1..m : more[i].quote = novel[i] /\ novel[i] \in ToSet(novel)
  BY <1>5 DEF ToSet
<1>8. acc.planned \in Seq([act : I, quote : Q])
  BY <1>3
<1> DEFINE joined == acc.planned \o more
<1>9. PICK l \in Nat : l = Len(acc.planned) /\ DOMAIN acc.planned = 1..l
  BY <1>8
<1>10. /\ joined \in Seq([act : I, quote : Q]) /\ DOMAIN joined = 1..(l + m)
       /\ \A i \in 1..l : joined[i] = acc.planned[i]
       /\ \A i \in 1..(l + m) : ~(i <= l) => joined[i] = more[i - l] /\ i - l \in 1..m
  <2> HIDE DEF more
  <2>1. joined \in Seq([act : I, quote : Q]) /\ Len(joined) = l + m
    BY <1>6, <1>8, <1>9, ConcatProperties
  <2>2. \A i \in 1..(l + m) :
            joined[i] = IF i <= l THEN acc.planned[i] ELSE more[i - l]
    BY <1>6, <1>8, <1>9, ConcatProperties
  <2>3. \A i \in 1..l : i \in 1..(l + m) /\ i <= l
    OBVIOUS
  <2>4. \A i \in 1..(l + m) : ~(i <= l) => i - l \in 1..m
    OBVIOUS
  <2>5. DOMAIN joined = 1..(l + m)
    BY <2>1
  <2>6. QED
    BY <2>1, <2>2, <2>3, <2>4, <2>5
<1> HIDE DEF more, joined
<1>11. \A i \in 1..l : joined[i].quote \in old
  <2>1. \A i \in 1..l : acc.planned[i] \in ToSet(acc.planned)
    BY <1>9 DEF ToSet
  <2>2. QED
    BY <1>10, <2>1
<1>12. \A i \in 1..(l + m) : ~(i <= l) =>
          joined[i].quote = novel[i - l] /\ joined[i].quote \notin old /\ i - l \in 1..m
  BY <1>2, <1>7, <1>10
<1> HIDE DEF old
<1>13. Distinct(joined)
  <2> SUFFICES ASSUME NEW i \in 1..(l + m), NEW j \in 1..(l + m),
                      joined[i].quote = joined[j].quote
               PROVE  i = j
    BY <1>10 DEF Distinct
  <2>1. CASE i <= l /\ j <= l
    <3>1. i \in 1..l /\ j \in 1..l
      BY <2>1
    <3>2. QED
      BY <1>3, <1>9, <1>10, <3>1 DEF Distinct
  <2>2. CASE ~(i <= l) /\ ~(j <= l)
    <3>1. novel[i - l] = novel[j - l] /\ i - l \in 1..m /\ j - l \in 1..m
      BY <1>12, <2>2
    <3>2. i - l = j - l
      BY <1>2, <1>5, <3>1 DEF IsInjective
    <3>3. QED
      BY <3>2
  <2>3. CASE i <= l /\ ~(j <= l)
    <3>1. i \in 1..l
      BY <2>3
    <3>2. QED
      BY <1>11, <1>12, <2>3, <3>1
  <2>4. CASE ~(i <= l) /\ j <= l
    <3>1. j \in 1..l
      BY <2>4
    <3>2. QED
      BY <1>11, <1>12, <2>4, <3>1
  <2>5. QED
    BY <2>1, <2>2, <2>3, <2>4
<1>14. \/ next = acc
       \/ next = [acc EXCEPT !.skipped = @ \cup {action.id}]
       \/ next = [acc EXCEPT !.claimKeys = @ \cup ({claimKey} \ {Null}), !.planned = joined]
  BY <1>4 DEF joined
<1>15. /\ next \in [planned : Seq([act : I, quote : Q]), skipped : SUBSET I,
                   claimKeys : SUBSET K]
       /\ Distinct(next.planned)
  <2>1. CASE next = acc
    BY <1>3, <2>1
  <2>2. CASE next = [acc EXCEPT !.skipped = @ \cup {action.id}]
    <3>1. acc.skipped \cup {action.id} \in SUBSET I
      BY <1>3
    <3>2. /\ next \in [planned : Seq([act : I, quote : Q]), skipped : SUBSET I,
                       claimKeys : SUBSET K]
          /\ next.planned = acc.planned
      BY <1>3, <2>2, <3>1
    <3>3. QED
      BY <1>3, <3>2
  <2>3. CASE next = [acc EXCEPT !.claimKeys = @ \cup ({claimKey} \ {Null}),
                                !.planned = joined]
    <3>1. acc.claimKeys \cup ({claimKey} \ {Null}) \in SUBSET K
      BY <1>3, <1>4
    <3>2. /\ next \in [planned : Seq([act : I, quote : Q]), skipped : SUBSET I,
                       claimKeys : SUBSET K]
          /\ next.planned = joined
      BY <1>3, <1>10, <2>3, <3>1
    <3>3. QED
      BY <1>13, <3>2
  <2>4. QED
    BY <1>14, <2>1, <2>2, <2>3
<1>16. QED
  BY <1>15 DEF Plans, Q, next

\* planClaimQuoteRequests: the plan is a sequence, and no quote is in it twice.
IsPlan(planned) ==
    /\ \E P : planned \in Seq(P)
    /\ \A i \in DOMAIN planned :
            planned[i] = [act |-> planned[i].act, quote |-> planned[i].quote]
    /\ Distinct(planned)

LEMMA PlanIs ==
    ASSUME NEW desk, IsDesk(desk), NEW T, NEW actions \in Seq(T)
    PROVE  IsPlan(PlanClaims(actions, desk).planned)
<1> DEFINE none == [planned |-> <<>>, skipped |-> {}, claimKeys |-> {}]
           Takes(plan) ==
            plan = [n \in 0..Len(actions) |->
                      IF n = 0 THEN none ELSE TakeClaim(plan[n - 1], actions[n], desk)]
           I == {actions[i].id : i \in DOMAIN actions}
           K == {RowsOf(actions[i], desk)[1].claimKey : i \in DOMAIN actions}
           S == Plans(I, K, DeskQuotes(desk))
<1>1. PICK n \in Nat : n = Len(actions) /\ DOMAIN actions = 1..n
  OBVIOUS
<1>2. none \in S
  <2>1. <<>> \in Seq([act : I, quote : DeskQuotes(desk)]) /\ DOMAIN <<>> = {}
    OBVIOUS
  <2>2. none \in [planned : Seq([act : I, quote : DeskQuotes(desk)]), skipped : SUBSET I,
                  claimKeys : SUBSET K]
    BY <2>1
  <2>3. Distinct(none.planned)
    BY <2>1 DEF Distinct
  <2>4. QED
    BY <2>2, <2>3 DEF Plans
<1>3. \A k \in 1..n, acc \in S : TakeClaim(acc, actions[k], desk) \in S
  <2> SUFFICES ASSUME NEW k \in 1..n, NEW acc \in S
               PROVE  TakeClaim(acc, actions[k], desk) \in S
    OBVIOUS
  <2>1. actions[k].id \in I /\ RowsOf(actions[k], desk)[1].claimKey \in K
    BY <1>1
  <2> HIDE DEF I, K
  <2>2. QED
    BY <2>1, TakeClaimKeeps
<1> HIDE DEF I, K, S, none
<1>4. \E plan : Takes(plan)
  <2> DEFINE g == [x \in (1..n) \X S |-> TakeClaim(x[2], actions[x[1]], desk)]
  <2>1. \A k \in 1..n, acc \in S : g[<<k, acc>>] = TakeClaim(acc, actions[k], desk)
    OBVIOUS
  <2>2. g \in [(1..n) \X S -> S]
    <3>1. \A x \in (1..n) \X S : TakeClaim(x[2], actions[x[1]], desk) \in S
      BY <1>3
    <3>2. QED
      BY <3>1
  <2> HIDE DEF g
  <2>3. PICK f \in [0..n -> S] : Recurs(f, n, none, g)
    BY <1>2, <2>2, Recursion
  <2>4. \A k \in 1..n : f[k] = TakeClaim(f[k - 1], actions[k], desk)
    <3>1. \A k \in 1..n : k - 1 \in 0..n
      OBVIOUS
    <3>2. \A k \in 1..n : f[k - 1] \in S /\ f[k] = g[<<k, f[k - 1]>>]
      BY <2>3, <3>1 DEF Recurs
    <3>3. QED
      BY <2>1, <3>2
  <2>5. Takes(f)
    <3>1. PICK h : h = [k \in 0..n |->
                    IF k = 0 THEN none ELSE TakeClaim(f[k - 1], actions[k], desk)]
      OBVIOUS
    <3>2. \A k \in 0..n : k = 0 \/ k \in 1..n
      OBVIOUS
    <3>3. \A k \in 0..n : f[k] = h[k]
      BY <2>3, <2>4, <3>1, <3>2 DEF Recurs
    <3>4. f = h
      BY <3>1, <3>3
    <3>5. QED
      BY <1>1, <3>1, <3>4
  <2> HIDE DEF Takes
  <2>6. QED
    BY <2>5
<1>5. PICK plan : plan = (CHOOSE f : Takes(f))
  OBVIOUS
<1>6. Takes(plan) /\ PlanClaims(actions, desk) = plan[n]
  <2>1. Takes(plan)
    <3> HIDE DEF Takes
    <3>1. QED
      BY <1>4, <1>5
  <2>2. PlanClaims(actions, desk) = plan[n]
    BY <1>1, <1>5 DEF PlanClaims, none
  <2>3. QED
    BY <2>1, <2>2
<1>7. plan[0] = none /\ \A k \in 1..n : plan[k] = TakeClaim(plan[k - 1], actions[k], desk)
  <2>1. PICK h : h = [k \in 0..n |->
                    IF k = 0 THEN none ELSE TakeClaim(plan[k - 1], actions[k], desk)]
    OBVIOUS
  <2>2. plan = h
    BY <1>1, <1>6, <2>1
  <2>3. 0 \in 0..n /\ \A k \in 1..n : k \in 0..n /\ k # 0
    OBVIOUS
  <2>4. h[0] = none /\ \A k \in 1..n : h[k] = TakeClaim(plan[k - 1], actions[k], desk)
    BY <2>1, <2>3
  <2>5. QED
    BY <2>2, <2>4
<1> HIDE DEF Takes
<1> DEFINE Good == {k \in 0..n : plan[k] \in S}
<1>8. 0 \in Good
  BY <1>2, <1>7
<1>9. ASSUME NEW k \in 1..n, k - 1 \in Good
      PROVE  k \in Good
  <2>1. plan[k - 1] \in S /\ k \in 0..n
    BY <1>9
  <2>2. plan[k] \in S
    BY <1>3, <1>7, <2>1
  <2>3. QED
    BY <2>1, <2>2
<1>10. n \in Good
  <2> HIDE DEF Good
  <2>1. \A k \in 0..n : k \in Good
    BY ONLY <1>8, <1>9, UpTo, n \in Nat
  <2>2. QED
    BY <2>1
<1>11. PlanClaims(actions, desk) \in S
  BY <1>6, <1>10
<1>12. /\ PlanClaims(actions, desk).planned \in Seq([act : I, quote : DeskQuotes(desk)])
       /\ Distinct(PlanClaims(actions, desk).planned)
  BY <1>11 DEF S, Plans
<1>13. PICK planned : planned = PlanClaims(actions, desk).planned
  OBVIOUS
<1>14. \A i \in DOMAIN planned : planned[i] = [act |-> planned[i].act, quote |-> planned[i].quote]
  <2>1. \A i \in DOMAIN planned : planned[i] \in [act : I, quote : DeskQuotes(desk)]
    <3>1. PICK P : P = [act : I, quote : DeskQuotes(desk)]
      OBVIOUS
    <3>2. planned \in Seq(P)
      BY <1>12, <1>13, <3>1
    <3>3. \A i \in DOMAIN planned : planned[i] \in P
      BY <3>2
    <3>4. QED
      BY <3>1, <3>3
  <2>2. QED
    BY <2>1
<1>15. QED
  BY <1>12, <1>13, <1>14 DEF IsPlan

-----------------------------------------------------------------------------
(* The compiled quotes of a batch find their requests.                     *)

\* A function into a finite set that repeats nothing and is as long as the set
\* reaches all of it.
LEMMA Onto ==
    ASSUME NEW n \in Nat, NEW order \in [1..n -> 1..n], IsInjective(order),
           NEW i \in 1..n
    PROVE  \E j \in 1..n : order[j] = i
<1>1. SUFFICES ASSUME \A j \in 1..n : order[j] # i PROVE FALSE
  OBVIOUS
<1>2. IsFiniteSet(1..n) /\ Cardinality(1..n) = n
  BY FS_Interval
<1>3. IsFiniteSet((1..n) \ {i}) /\ Cardinality((1..n) \ {i}) < Cardinality(1..n)
  <2>1. /\ IsFiniteSet((1..n) \ {i})
        /\ Cardinality((1..n) \ {i}) = Cardinality(1..n) - 1
    BY <1>2, FS_RemoveElement
  <2>2. QED
    BY <1>2, <2>1
<1>4. order \in [1..n -> (1..n) \ {i}]
  BY <1>1
<1>5. \E x, y \in 1..n : x # y /\ order[x] = order[y]
  BY <1>2, <1>3, <1>4, FS_PigeonHole
<1>6. QED
  BY <1>5 DEF IsInjective

\* What is left for a request: the answers with its key that no earlier request
\* took.  The earlier ones with this key are fewer than the answers with it.
Paired(n, key, order, k, taken) ==
    /\ n \in Nat /\ order \in [1..n -> 1..n] /\ IsInjective(order)
    /\ k \in 1..n /\ taken \in [1..(k - 1) -> 1..n]
    /\ \A i \in 1..(k - 1) : key[order[taken[i]]] = key[i]
Finds(n, key, order, k, taken) ==
    \E j \in 1..n : /\ \A i \in 1..(k - 1) : taken[i] # j
                    /\ key[order[j]] = key[k]

LEMMA OneIsFree ==
    ASSUME NEW n, NEW key, NEW order, NEW k, NEW taken, Paired(n, key, order, k, taken)
    PROVE  Finds(n, key, order, k, taken)
<1>1. SUFFICES ASSUME \A j \in 1..n : key[order[j]] = key[k] =>
                          \E i \in 1..(k - 1) : taken[i] = j
               PROVE  FALSE
  BY DEF Finds
<1>0. /\ n \in Nat /\ order \in [1..n -> 1..n] /\ IsInjective(order)
      /\ k \in 1..n /\ taken \in [1..(k - 1) -> 1..n]
      /\ \A i \in 1..(k - 1) : key[order[taken[i]]] = key[i]
  BY DEF Paired
<1> DEFINE like == {i \in 1..n : key[i] = key[k]}
           meets(a, i) == i \in 1..(k - 1) /\ order[taken[i]] = a
<1>2. IsFiniteSet(like) /\ k \in like
  <2>1. IsFiniteSet(1..n)
    BY <1>0, FS_Interval
  <2>2. like \in SUBSET (1..n)
    OBVIOUS
  <2>3. QED
    BY <1>0, <2>1, <2>2, FS_Subset
<1>3. \A a \in like : \E i \in like \ {k} : meets(a, i)
  <2> SUFFICES ASSUME NEW a \in like PROVE \E i \in like \ {k} : meets(a, i)
    OBVIOUS
  <2>1. PICK j \in 1..n : order[j] = a
    BY <1>0, Onto
  <2>2. PICK i \in 1..(k - 1) : taken[i] = j
    BY <1>0, <1>1, <2>1
  <2>3. key[i] = key[a] /\ key[a] = key[k]
    BY <1>0, <2>1, <2>2
  <2>4. i \in 1..n /\ i # k
    BY <1>0
  <2>5. QED
    BY <2>1, <2>2, <2>3, <2>4
<1> DEFINE h == [a \in like |-> CHOOSE i \in like \ {k} : meets(a, i)]
<1> HIDE DEF like, meets
<1>4. \A a \in like : h[a] \in like \ {k} /\ meets(a, h[a])
  BY <1>3
<1>5. h \in [like -> like \ {k}]
  BY <1>4
<1> HIDE DEF h
<1>6. /\ IsFiniteSet(like \ {k}) /\ Cardinality(like) \in Nat
      /\ Cardinality(like \ {k}) = Cardinality(like) - 1
  BY <1>2, FS_RemoveElement, FS_CardinalityType
<1>7. Cardinality(like \ {k}) < Cardinality(like)
  BY <1>6
<1>8. PICK a \in like, b \in like : a # b /\ h[a] = h[b]
  <2>1. \E x, y \in like : x # y /\ h[x] = h[y]
    BY ONLY <1>2, <1>5, <1>6, <1>7, FS_PigeonHole
  <2>2. QED
    BY <2>1
<1>9. order[taken[h[a]]] = a /\ order[taken[h[b]]] = b
  BY <1>4 DEF meets
<1>10. QED
  BY <1>8, <1>9

\* alignQuotesByShapeKey: when the answers are the requested quotes in another
\* order, each request gets one with its key and no two get the same.
Shuffled(n, asked, order, answer) ==
    /\ n \in Nat /\ DOMAIN asked = 1..n /\ Len(asked) = n
    /\ order \in [1..n -> 1..n] /\ IsInjective(order)
    /\ answer = [i \in 1..n |-> asked[order[i]]] /\ Len(answer) = n
Aligned(n, asked, answer, pairs) ==
    /\ pairs \in [1..n -> 1..n] /\ IsInjective(pairs)
    /\ \A i \in 1..n : answer[pairs[i]].key = asked[i].key

LEMMA AlignIs ==
    ASSUME NEW n \in Nat, NEW asked, DOMAIN asked = 1..n, Len(asked) = n,
           NEW order \in [1..n -> 1..n], IsInjective(order),
           NEW answer, answer = [i \in 1..n |-> asked[order[i]]], Len(answer) = n
    PROVE  Aligned(n, asked, answer, Align(asked, answer))
<1> DEFINE free(m, taken) == {j \in DOMAIN answer \ ToSet(taken) :
                                answer[j].key = asked[m].key}
           next(m, taken) ==
            IF Len(taken) < m - 1 \/ free(m, taken) = {} THEN taken
            ELSE Append(taken, IF m \in free(m, taken) THEN m
                               ELSE Min(free(m, taken)))
           Takes(pairs) == pairs = [m \in 0..Len(asked) |->
                IF m = 0 THEN <<>> ELSE next(m, pairs[m - 1])]
<1>1. \A m, taken : free(m, taken) \subseteq 1..n
  OBVIOUS
<1>2. ASSUME NEW m \in 1..n, NEW taken \in Seq(1..n)
      PROVE  /\ next(m, taken) \in Seq(1..n)
             /\ ~(Len(taken) < m - 1) /\ free(m, taken) # {} =>
                    \E j \in free(m, taken) : next(m, taken) = Append(taken, j)
  <2> HIDE DEF free
  <2>1. CASE Len(taken) < m - 1 \/ free(m, taken) = {}
    BY <2>1
  <2>2. CASE ~(Len(taken) < m - 1 \/ free(m, taken) = {})
    <3>1. free(m, taken) \in SUBSET Nat /\ free(m, taken) # {}
      BY <1>1, <2>2
    <3>2. Min(free(m, taken)) \in free(m, taken)
      BY <3>1, Least
    <3>3. PICK j : j = IF m \in free(m, taken) THEN m ELSE Min(free(m, taken))
      OBVIOUS
    <3>4. j \in free(m, taken) /\ j \in 1..n
      BY <1>1, <3>2, <3>3
    <3>5. next(m, taken) = Append(taken, j)
      BY <2>2, <3>3
    <3>6. Append(taken, j) \in Seq(1..n)
      BY <3>4
    <3>7. QED
      BY <3>4, <3>5, <3>6
  <2>3. QED
    BY <2>1, <2>2
<1> HIDE DEF next
<1>3. \E pairs : Takes(pairs)
  <2> DEFINE g == [x \in (1..n) \X Seq(1..n) |-> next(x[1], x[2])]
  <2>1. \A m \in 1..n, s \in Seq(1..n) : g[<<m, s>>] = next(m, s)
    OBVIOUS
  <2>2. g \in [(1..n) \X Seq(1..n) -> Seq(1..n)]
    <3>1. \A x \in (1..n) \X Seq(1..n) : next(x[1], x[2]) \in Seq(1..n)
      BY <1>2
    <3>2. QED
      BY <3>1
  <2>3. <<>> \in Seq(1..n)
    OBVIOUS
  <2> HIDE DEF g
  <2>4. PICK f \in [0..n -> Seq(1..n)] : Recurs(f, n, <<>>, g)
    BY <2>2, <2>3, Recursion
  <2>5. \A m \in 1..n : f[m] = next(m, f[m - 1])
    <3>1. \A m \in 1..n : m - 1 \in 0..n
      OBVIOUS
    <3>2. \A m \in 1..n : f[m - 1] \in Seq(1..n) /\ f[m] = g[<<m, f[m - 1]>>]
      BY <2>4, <3>1 DEF Recurs
    <3>3. QED
      BY <2>1, <3>2
  <2>6. Takes(f)
    <3>1. PICK h : h = [m \in 0..n |-> IF m = 0 THEN <<>> ELSE next(m, f[m - 1])]
      OBVIOUS
    <3>2. \A m \in 0..n : m = 0 \/ m \in 1..n
      OBVIOUS
    <3>3. \A m \in 0..n : f[m] = h[m]
      BY <2>4, <2>5, <3>1, <3>2 DEF Recurs
    <3>4. f = h
      BY <3>1, <3>3
    <3>5. QED
      BY <3>1, <3>4
  <2> HIDE DEF Takes
  <2>7. QED
    BY <2>6
<1>4. PICK pairs : pairs = (CHOOSE f : Takes(f))
  OBVIOUS
<1>5. /\ Takes(pairs)
      /\ Align(asked, answer) = IF Len(pairs[n]) = n THEN pairs[n] ELSE <<>>
  <2>1. Takes(pairs)
    <3> HIDE DEF Takes
    <3>1. QED
      BY <1>3, <1>4
  <2>2. Align(asked, answer) = IF Len(pairs[n]) = n THEN pairs[n] ELSE <<>>
    <3>1. Align(asked, answer) =
            IF Len(pairs[Len(asked)]) = Len(asked) /\ Len(asked) = Len(answer)
            THEN pairs[Len(asked)] ELSE <<>>
      BY <1>4, SMTT(40) DEF Align, next
    <3> HIDE DEF Takes
    <3>2. QED
      BY <3>1
  <2>3. QED
    BY <2>1, <2>2
<1>6. pairs[0] = <<>> /\ \A m \in 1..n : pairs[m] = next(m, pairs[m - 1])
  <2>1. PICK h : h = [m \in 0..n |-> IF m = 0 THEN <<>> ELSE next(m, pairs[m - 1])]
    OBVIOUS
  <2>2. pairs = h
    BY <1>5, <2>1
  <2>3. 0 \in 0..n /\ \A m \in 1..n : m \in 0..n /\ m # 0
    OBVIOUS
  <2>4. h[0] = <<>> /\ \A m \in 1..n : h[m] = next(m, pairs[m - 1])
    BY <2>1, <2>3
  <2>5. QED
    BY <2>2, <2>4
<1> HIDE DEF Takes
<1> DEFINE Right(s, m) ==
            /\ s \in Seq(1..n) /\ Len(s) = m /\ IsInjective(s)
            /\ \A i \in 1..m : answer[s[i]].key = asked[i].key
           Good == {m \in 0..n : Right(pairs[m], m)}
<1>7. 0 \in Good
  <2>1. <<>> \in Seq(1..n) /\ Len(<<>>) = 0 /\ IsInjective(<<>>)
    BY DEF IsInjective
  <2>2. Right(<<>>, 0)
    BY <2>1
  <2> HIDE DEF Right
  <2>3. QED
    BY <1>6, <2>2
<1>8. ASSUME NEW m \in 1..n, m - 1 \in Good
      PROVE  m \in Good
  <2>1. Right(pairs[m - 1], m - 1)
    <3> HIDE DEF Right
    <3>1. QED
      BY <1>8
  <2>2. PICK s \in Seq(1..n) : s = pairs[m - 1]
    BY <2>1
  <2>3. /\ Len(s) = m - 1 /\ DOMAIN s = 1..(m - 1) /\ s \in [1..(m - 1) -> 1..n]
        /\ IsInjective(s)
        /\ \A i \in 1..(m - 1) : answer[s[i]].key = asked[i].key
    <3>1. Len(s) = m - 1 /\ IsInjective(s)
      BY <2>1, <2>2
    <3>2. s \in [1..Len(s) -> 1..n] /\ DOMAIN s = 1..Len(s)
      BY LenProperties
    <3>3. \A i \in 1..(m - 1) : answer[s[i]].key = asked[i].key
      BY <2>1, <2>2
    <3>4. QED
      BY <3>1, <3>2, <3>3
  <2>4. free(m, s) # {}
    <3>1. PICK key : key = [i \in 1..n |-> asked[i].key]
      OBVIOUS
    <3>2. ASSUME NEW i \in 1..(m - 1)
          PROVE  key[order[s[i]]] = key[i]
      <4>1. PICK a \in 1..n : a = s[i]
        BY <2>3
      <4>2. PICK b \in 1..n : b = order[a]
        OBVIOUS
      <4>3. answer[a] = asked[b] /\ answer[a].key = asked[i].key /\ i \in 1..n
        <5>1. \A c \in 1..n : answer[c] = asked[order[c]]
          OBVIOUS
        <5>2. answer[a] = asked[b]
          BY <4>2, <5>1
        <5>3. answer[a].key = asked[i].key
          BY <2>3, <4>1
        <5>4. QED
          BY <5>2, <5>3
      <4>4. asked[b].key = asked[i].key
        BY <4>3
      <4>5. key[b] = key[i]
        BY <3>1, <4>3, <4>4
      <4>6. QED
        BY <4>1, <4>2, <4>5
    <3>3. Paired(n, key, order, m, s)
      BY <2>3, <3>2 DEF Paired
    <3>4. PICK j \in 1..n : /\ \A i \in 1..(m - 1) : s[i] # j
                            /\ key[order[j]] = key[m]
      <4>1. Finds(n, key, order, m, s)
        BY <3>3, OneIsFree
      <4>2. QED
        BY <4>1 DEF Finds
    <3>5. asked[order[j]].key = asked[m].key
      BY <3>1, <3>4
    <3>6. j \notin ToSet(s)
      BY <2>3, <3>4 DEF ToSet
    <3>7. QED
      BY <3>4, <3>5, <3>6
  <2>5. PICK j \in free(m, s) : next(m, s) = Append(s, j)
    <3> HIDE DEF free
    <3>1. ~(Len(s) < m - 1)
      BY <2>3
    <3>2. QED
      BY <1>2, <2>4, <3>1
  <2>6. j \in 1..n /\ j \notin ToSet(s) /\ answer[j].key = asked[m].key
    OBVIOUS
  <2>7. PICK t \in Seq(1..n) : t = Append(s, j)
    <3>1. Append(s, j) \in Seq(1..n)
      BY <2>6
    <3>2. QED
      BY <3>1
  <2>8. /\ Len(t) = m /\ DOMAIN t = 1..m /\ t[m] = j
        /\ \A i \in 1..(m - 1) : t[i] = s[i]
    BY <2>3, <2>7
  <2>9. \A i \in 1..(m - 1) : t[i] # j
    BY <2>3, <2>6, <2>8 DEF ToSet
  <2>10. \A i \in 1..m : i = m \/ i \in 1..(m - 1)
    OBVIOUS
  <2>11. IsInjective(t)
    <3> SUFFICES ASSUME NEW a \in 1..m, NEW b \in 1..m, t[a] = t[b] PROVE a = b
      BY <2>8 DEF IsInjective
    <3>1. CASE a = m \/ b = m
      BY <2>8, <2>9, <2>10, <3>1
    <3>2. CASE a # m /\ b # m
      <4>1. a \in 1..(m - 1) /\ b \in 1..(m - 1) /\ s[a] = s[b]
        BY <2>8, <2>10, <3>2
      <4>2. QED
        BY <2>3, <4>1 DEF IsInjective
    <3>3. QED
      BY <3>1, <3>2
  <2>12. \A i \in 1..m : answer[t[i]].key = asked[i].key
    BY <2>3, <2>6, <2>8, <2>10
  <2>13. Right(t, m)
    BY <2>8, <2>11, <2>12
  <2>14. pairs[m] = t /\ m \in 0..n
    <3>1. pairs[m] = next(m, pairs[m - 1])
      BY <1>6
    <3>2. QED
      BY <2>2, <2>5, <2>7, <3>1
  <2> HIDE DEF Right
  <2>15. QED
    BY <2>13, <2>14
<1>9. Right(pairs[n], n)
  <2>1. \A m \in 0..n : m \in Good
    <3> HIDE DEF Good
    <3>1. QED
      BY ONLY <1>7, <1>8, UpTo, n \in Nat
  <2> HIDE DEF Right
  <2>2. QED
    BY <2>1
<1>10. Align(asked, answer) = pairs[n]
  BY <1>5, <1>9
<1>11. pairs[n] \in [1..n -> 1..n]
  <2>1. PICK s \in Seq(1..n) : s = pairs[n] /\ Len(s) = n
    BY <1>9
  <2>2. s \in [1..Len(s) -> 1..n]
    BY LenProperties
  <2>3. QED
    BY <2>1, <2>2
<1>12. QED
  BY <1>9, <1>10, <1>11 DEF Aligned

LEMMA ShuffledIsAligned ==
    \A n, asked, order, answer :
        Shuffled(n, asked, order, answer) => Aligned(n, asked, answer, Align(asked, answer))
<1> SUFFICES ASSUME NEW n, NEW asked, NEW order, NEW answer,
                    Shuffled(n, asked, order, answer)
             PROVE  Aligned(n, asked, answer, Align(asked, answer))
  OBVIOUS
<1>1. /\ n \in Nat /\ DOMAIN asked = 1..n /\ Len(asked) = n
      /\ order \in [1..n -> 1..n] /\ IsInjective(order)
      /\ answer = [i \in 1..n |-> asked[order[i]]] /\ Len(answer) = n
  BY DEF Shuffled
<1>2. QED
  BY <1>1, AlignIs

-----------------------------------------------------------------------------
(* The groups of a call.                                                   *)

IsLeg(g) ==
    g = [act |-> g.act, role |-> g.role, quote |-> g.quote, assets |-> g.assets,
         state |-> g.state]

IsLegs(ls) == (\E S : ls \in Seq(S)) /\ \A i \in DOMAIN ls : IsLeg(ls[i])

\* The groups keep their places and their roles.
Alike(ls, ms) ==
    /\ IsLegs(ms) /\ Len(ms) = Len(ls) /\ DOMAIN ms = DOMAIN ls
    /\ \A i \in DOMAIN ls : ms[i].role = ls[i].role /\ ms[i].assets = ls[i].assets

LEMMA LegIs ==
  \A a, r, q, s : IsLeg(Leg(a, r, q, s)) /\ Leg(a, r, q, s).role = r
  BY DEF IsLeg, Leg

LEMMA LenIs ==
  ASSUME NEW ls, IsLegs(ls)
  PROVE  Len(ls) \in Nat /\ DOMAIN ls = 1..Len(ls)
  BY LenProperties DEF IsLegs

LEMMA NoLegs == IsLegs(<<>>) /\ Len(<<>>) = 0 /\ DOMAIN <<>> = {}
<1>1. <<>> \in Seq({}) /\ Len(<<>>) = 0
  BY EmptySeq
<1>2. DOMAIN <<>> = {}
  BY <1>1, LenProperties
<1>3. QED
  BY <1>1, <1>2 DEF IsLegs

LEMMA MarkIs ==
  ASSUME NEW ls, IsLegs(ls), NEW i \in DOMAIN ls, NEW x
  PROVE  Alike(ls, [ls EXCEPT ![i].state = x])
<1> DEFINE g == [ls[i] EXCEPT !.state = x]
           ms == [ls EXCEPT ![i].state = x]
<1>1. IsLeg(ls[i])
  BY DEF IsLegs
<1>2. g = [act |-> ls[i].act, role |-> ls[i].role, quote |-> ls[i].quote,
           assets |-> ls[i].assets, state |-> x]
  BY <1>1 DEF IsLeg
<1>3. IsLeg(g) /\ g.role = ls[i].role /\ g.assets = ls[i].assets
  BY <1>2 DEF IsLeg
<1>4. PICK S : ls \in Seq(S)
  BY DEF IsLegs
<1>5. ls \in Seq(S \cup {g}) /\ g \in S \cup {g}
  BY <1>4, SeqMonotonic
<1>6. Len(ls) \in Nat /\ DOMAIN ls = 1..Len(ls)
  BY LenIs
<1>7. ms = [ls EXCEPT ![i] = g]
  OBVIOUS
<1> HIDE DEF g, ms
<1>8. /\ ms \in Seq(S \cup {g}) /\ Len(ms) = Len(ls)
      /\ \A j \in 1..Len(ls) : ms[j] = IF j = i THEN g ELSE ls[j]
  BY <1>5, <1>6, <1>7, ExceptSeq
<1>9. DOMAIN ms = DOMAIN ls
  BY <1>6, <1>8, LenProperties
<1>10. \A j \in DOMAIN ls : IsLeg(ms[j]) /\ ms[j].role = ls[j].role /\ ms[j].assets = ls[j].assets
  BY <1>3, <1>6, <1>8 DEF IsLegs
<1>11. QED
  BY <1>8, <1>9, <1>10 DEF Alike, IsLegs, ms

\* Joined groups.
LEMMA JoinIs ==
  ASSUME NEW ls, NEW ms, IsLegs(ls), IsLegs(ms)
  PROVE  /\ IsLegs(ls \o ms) /\ Len(ls \o ms) = Len(ls) + Len(ms)
         /\ DOMAIN (ls \o ms) = 1..(Len(ls) + Len(ms))
         /\ \A i \in 1..Len(ls) : (ls \o ms)[i] = ls[i]
         /\ ToSet(ls \o ms) \subseteq ToSet(ls) \cup ToSet(ms)
<1>1. PICK S : ls \in Seq(S)
  BY DEF IsLegs
<1>2. PICK T : ms \in Seq(T)
  BY DEF IsLegs
<1>3. ls \in Seq(S \cup T) /\ ms \in Seq(S \cup T)
  BY <1>1, <1>2, SeqMonotonic
<1>4. /\ ls \o ms \in Seq(S \cup T) /\ Len(ls \o ms) = Len(ls) + Len(ms)
      /\ \A i \in 1..(Len(ls) + Len(ms)) :
            (ls \o ms)[i] = IF i <= Len(ls) THEN ls[i] ELSE ms[i - Len(ls)]
  BY <1>3, ConcatProperties
<1>5. /\ Len(ls) \in Nat /\ DOMAIN ls = 1..Len(ls)
      /\ Len(ms) \in Nat /\ DOMAIN ms = 1..Len(ms)
  BY LenIs
<1>6. DOMAIN (ls \o ms) = 1..(Len(ls) + Len(ms))
  BY <1>4, LenProperties
<1>7. ASSUME NEW i \in DOMAIN (ls \o ms)
      PROVE  \/ \E j \in DOMAIN ls : (ls \o ms)[i] = ls[j]
             \/ \E j \in DOMAIN ms : (ls \o ms)[i] = ms[j]
  <2>1. i \in 1..(Len(ls) + Len(ms))
    BY <1>6
  <2>2. CASE i <= Len(ls)
    <3>1. i \in DOMAIN ls /\ (ls \o ms)[i] = ls[i]
      BY <1>4, <1>5, <2>1, <2>2
    <3>2. QED
      BY <3>1
  <2>3. CASE ~(i <= Len(ls))
    <3>1. i - Len(ls) \in DOMAIN ms /\ (ls \o ms)[i] = ms[i - Len(ls)]
      BY <1>4, <1>5, <2>1, <2>3
    <3>2. QED
      BY <3>1
  <2>4. QED
    BY <2>2, <2>3
<1>8. \A i \in 1..Len(ls) : (ls \o ms)[i] = ls[i]
  BY <1>4, <1>5
<1>9. \A i \in DOMAIN (ls \o ms) : IsLeg((ls \o ms)[i])
  BY <1>7 DEF IsLegs
<1>10. ToSet(ls \o ms) \subseteq ToSet(ls) \cup ToSet(ms)
  BY <1>7 DEF ToSet
<1>11. QED
  BY <1>4, <1>6, <1>8, <1>9, <1>10 DEF IsLegs

LEMMA OneLeg ==
  ASSUME NEW g, IsLeg(g)
  PROVE  IsLegs(<<g>>) /\ Len(<<g>>) = 1 /\ ToSet(<<g>>) = {g}
<1>1. <<g>> \in Seq({g}) /\ Len(<<g>>) = 1 /\ <<g>>[1] = g
  OBVIOUS
<1>2. DOMAIN <<g>> = 1..1
  BY <1>1, LenProperties
<1>3. \A i \in DOMAIN <<g>> : <<g>>[i] = g
  BY <1>1, <1>2
<1>4. (\E S : <<g>> \in Seq(S)) /\ \A i \in DOMAIN <<g>> : IsLeg(<<g>>[i])
  BY <1>1, <1>3, Zenon
<1>5. ToSet(<<g>>) = {g}
  BY <1>1, <1>2, <1>3 DEF ToSet
<1>6. QED
  BY <1>1, <1>4, <1>5 DEF IsLegs

\* A part of the groups.
LEMMA PartIs ==
  ASSUME NEW ls, IsLegs(ls), NEW m \in 1..(Len(ls) + 1), NEW n \in 0..Len(ls)
  PROVE  /\ IsLegs(SubSeq(ls, m, n))
         /\ Len(SubSeq(ls, m, n)) = IF m <= n THEN n - m + 1 ELSE 0
         /\ ToSet(SubSeq(ls, m, n)) \subseteq ToSet(ls)
<1>1. PICK S : ls \in Seq(S)
  BY DEF IsLegs
<1>2. Len(ls) \in Nat /\ DOMAIN ls = 1..Len(ls)
  BY LenIs
<1>3. m \in Int /\ n \in Int /\ \A i \in m..n : ls[i] \in S
  BY <1>1, <1>2, ElementOfSeq
<1>4. /\ SubSeq(ls, m, n) \in Seq(S)
      /\ Len(SubSeq(ls, m, n)) = IF m <= n THEN n - m + 1 ELSE 0
      /\ \A i \in 1..n - m + 1 : SubSeq(ls, m, n)[i] = ls[m + i - 1]
  BY <1>3, SubSeqProperties
<1>5. DOMAIN SubSeq(ls, m, n) = 1..Len(SubSeq(ls, m, n))
  BY <1>4, LenProperties
<1>6. ASSUME NEW i \in DOMAIN SubSeq(ls, m, n)
      PROVE  \E j \in DOMAIN ls : SubSeq(ls, m, n)[i] = ls[j]
  <2>1. i \in 1..n - m + 1
    BY <1>2, <1>4, <1>5
  <2>2. m + i - 1 \in DOMAIN ls
    BY <1>2, <2>1
  <2>3. QED
    BY <1>4, <2>1, <2>2
<1>7. \A i \in DOMAIN SubSeq(ls, m, n) : IsLeg(SubSeq(ls, m, n)[i])
  BY <1>6 DEF IsLegs
<1>8. ToSet(SubSeq(ls, m, n)) \subseteq ToSet(ls)
  BY <1>6 DEF ToSet
<1>9. QED
  BY <1>4, <1>7, <1>8 DEF IsLegs

\* A group between two parts.
LEMMA BetweenIs ==
  ASSUME NEW ls, NEW ms, IsLegs(ls), IsLegs(ms), NEW g, IsLeg(g)
  PROVE  \E all : /\ all = (ls \o <<g>>) \o ms
                  /\ IsLegs(all) /\ Len(all) = Len(ls) + 1 + Len(ms)
                  /\ all[Len(ls) + 1] = g
                  /\ ToSet(all) \subseteq ToSet(ls) \cup ToSet(ms) \cup {g}
<1>1. IsLegs(<<g>>) /\ Len(<<g>>) = 1 /\ ToSet(<<g>>) = {g}
  BY OneLeg
<1>2. Len(ls) \in Nat /\ Len(ms) \in Nat
  BY LenIs
<1>3. PICK front : front = ls \o <<g>>
  OBVIOUS
<1>4. IsLegs(front) /\ Len(front) = Len(ls) + 1 /\ ToSet(front) \subseteq ToSet(ls) \cup {g}
  BY <1>1, <1>3, JoinIs
<1>5. front[Len(ls) + 1] = g
  <2>1. PICK S : ls \in Seq(S)
    BY DEF IsLegs
  <2>2. front = Append(ls, g)
    BY <1>3, <2>1
  <2>3. QED
    BY <1>2, <2>1, <2>2
<1>6. PICK all : all = front \o ms
  OBVIOUS
<1>7. /\ IsLegs(all) /\ Len(all) = Len(front) + Len(ms)
      /\ \A i \in 1..Len(front) : all[i] = front[i]
      /\ ToSet(all) \subseteq ToSet(front) \cup ToSet(ms)
  BY <1>4, <1>6, JoinIs
<1>8. all[Len(ls) + 1] = g
  BY <1>2, <1>4, <1>5, <1>7
<1>9. Len(all) = Len(ls) + 1 + Len(ms)
  BY <1>2, <1>4, <1>7
<1>10. all = (ls \o <<g>>) \o ms
  BY <1>3, <1>6
<1>11. QED
  BY <1>4, <1>7, <1>8, <1>9, <1>10

\* A group put in front of the one at i.
LEMMA InsertIs ==
  ASSUME NEW ls, IsLegs(ls), NEW i \in DOMAIN ls, NEW g, IsLeg(g)
  PROVE  /\ IsLegs(InsertAt(ls, i, g)) /\ Len(InsertAt(ls, i, g)) = Len(ls) + 1
         /\ InsertAt(ls, i, g)[i] = g
         /\ ToSet(InsertAt(ls, i, g)) \subseteq ToSet(ls) \cup {g}
<1>1. Len(ls) \in Nat /\ i \in 1..Len(ls)
  BY LenIs
<1>2. PICK first : first = SubSeq(ls, 1, i - 1)
  OBVIOUS
<1>3. PICK rest : rest = SubSeq(ls, i, Len(ls))
  OBVIOUS
<1>4. IsLegs(first) /\ Len(first) = i - 1 /\ ToSet(first) \subseteq ToSet(ls)
  <2>1. 1 \in 1..(Len(ls) + 1) /\ i - 1 \in 0..Len(ls)
    BY <1>1
  <2>2. /\ IsLegs(first) /\ Len(first) = IF 1 <= i - 1 THEN i - 1 - 1 + 1 ELSE 0
        /\ ToSet(first) \subseteq ToSet(ls)
    BY <1>2, <2>1, PartIs
  <2>3. QED
    BY <1>1, <2>2
<1>5. IsLegs(rest) /\ Len(rest) = Len(ls) - i + 1 /\ ToSet(rest) \subseteq ToSet(ls)
  <2>1. i \in 1..(Len(ls) + 1) /\ Len(ls) \in 0..Len(ls)
    BY <1>1
  <2>2. /\ IsLegs(rest) /\ Len(rest) = IF i <= Len(ls) THEN Len(ls) - i + 1 ELSE 0
        /\ ToSet(rest) \subseteq ToSet(ls)
    BY <1>3, <2>1, PartIs
  <2>3. QED
    BY <1>1, <2>2
<1>6. IsLegs(first) /\ IsLegs(rest) /\ IsLeg(g)
  BY <1>4, <1>5
<1>7. PICK all : /\ all = (first \o <<g>>) \o rest
                 /\ IsLegs(all) /\ Len(all) = Len(first) + 1 + Len(rest)
                 /\ all[Len(first) + 1] = g
                 /\ ToSet(all) \subseteq ToSet(first) \cup ToSet(rest) \cup {g}
  BY ONLY <1>6, BetweenIs
<1>8. Len(all) = Len(ls) + 1 /\ all[i] = g
  <2>1. i \in Nat /\ Len(ls) \in Nat /\ Len(first) = i - 1 /\ Len(rest) = Len(ls) - i + 1
    BY <1>1, <1>4, <1>5
  <2>2. Len(first) + 1 = i /\ Len(first) + 1 + Len(rest) = Len(ls) + 1
    BY ONLY <2>1
  <2>3. Len(all) = Len(first) + 1 + Len(rest) /\ all[Len(first) + 1] = g
    BY <1>7
  <2>4. QED
    BY ONLY <2>2, <2>3
<1>9. InsertAt(ls, i, g) = all
  BY <1>2, <1>3, <1>7 DEF InsertAt
<1>10. QED
  BY <1>4, <1>5, <1>7, <1>8, <1>9

\* One group for each of a sequence.
LEMMA EachIs ==
  ASSUME NEW S, NEW s \in Seq(S), NEW ls,
         ls = [i \in DOMAIN s |-> ls[i]], \A i \in DOMAIN s : IsLeg(ls[i])
  PROVE  IsLegs(ls) /\ Len(ls) = Len(s) /\ DOMAIN ls = DOMAIN s
<1>1. Len(s) \in Nat /\ DOMAIN s = 1..Len(s)
  BY LenProperties
<1>2. DOMAIN ls = 1..Len(s)
  BY <1>1
<1>3. ls \in Seq({ls[i] : i \in 1..Len(s)})
  BY <1>1, <1>2
<1>4. Len(ls) = Len(s)
  BY <1>1, <1>2, <1>3, LenProperties
<1>5. IsLegs(ls)
  BY <1>2, <1>1, <1>3 DEF IsLegs
<1>6. QED
  BY <1>1, <1>2, <1>4, <1>5

-----------------------------------------------------------------------------
(* The invariant.                                                          *)

Plain(ls) == \A g \in ToSet(ls) : g.role # "setup"
EscrowOnly(ls) == \A g \in ToSet(ls) : g.role \in {"setup", "opt", "deposit", "other"}

Saving == {"save", "write", "resave", "rewrite"}
Working == {"submit", "wait"} \cup Saving

\* Where the call is among its groups.
ProgressInv ==
    /\ number \in 0..MaxCalls /\ gaps \subseteq 1..number
    /\ stage \in Stages
    /\ stage # "idle" => number > 0 /\ number \notin gaps /\ call \in Calls
    /\ IsLegs(legs) /\ at \in 0..Len(legs)
    /\ stage \in Working => at > 0
    /\ stage = "prepare" => at = 0 /\ legs = <<>> /\ landed = {}
    /\ stage = "quote" /\ call.kind \in {"shape", "claims"} => at < Len(legs)
    /\ stage # "idle" => \A i \in landed : i \in 1..at /\ (stage = "submit" => i # at)

\* Only a call that found no escrow has a setup among its groups, and its key is
\* the one in memory.
RoleInv ==
    /\ \/ Plain(legs)
       \/ /\ EscrowOnly(legs) /\ call.kind = "shape" /\ Sequential
          /\ record \notin Escrows \/ record = number
    /\ stage \in Working /\ Current.role = "setup" => secret = number
    /\ stage \in Saving => Current.role = "setup"
    /\ stage \in {"idle", "prepare"} => secret = Null
    /\ \/ secret = Null
       \/ secret \in Escrows /\ (secret = record \/ (secret = number /\ record \notin Escrows))

\* A group whose fate is open is the awaited one, or one of a call in gaps.
FlightInv ==
    \A g \in flying :
      /\ g.number \in 1..number
      /\ g.role = "setup" => g.escrow = g.number
      /\ g.number \notin gaps => stage = "wait" /\ g = Group /\ at \notin landed

\* Whose key an escrow's is.
KeyInv ==
    /\ record \in Escrows \cup {Null, Torn}
    /\ escrows \subseteq 1..number
    /\ \A e \in escrows \ gaps : e = record \/ e = secret
    /\ record \in Escrows => record \in escrows
    /\ number \in escrows \ gaps =>
        record = number \/ stage \in Saving \/ (stage = "wait" /\ Current.role = "setup")
    /\ stage \in Saving => number \in escrows
    /\ stage = "wait" /\ Current.role = "setup" /\ at \in landed => number \in escrows

EscrowInv == ProgressInv /\ RoleInv /\ FlightInv /\ KeyInv

-----------------------------------------------------------------------------
(* Lemmas about parts of a step.                                           *)

LEMMA AlikeKeeps ==
  ASSUME NEW ls, NEW ms, Alike(ls, ms)
  PROVE  (Plain(ls) => Plain(ms)) /\ (EscrowOnly(ls) => EscrowOnly(ms))
<1>1. \A g \in ToSet(ms) : \E h \in ToSet(ls) : g.role = h.role
  BY DEF Alike, ToSet
<1>2. QED
  BY <1>1 DEF Plain, EscrowOnly

LEMMA NoLegsIsPlain == Plain(<<>>)
  BY NoLegs DEF Plain, ToSet

LEMMA PlainAt ==
  ASSUME NEW ls, Plain(ls), NEW i \in DOMAIN ls
  PROVE  ls[i].role # "setup"
  BY DEF Plain, ToSet

LEMMA CurrentIs ==
  ASSUME ProgressInv, stage \in Working
  PROVE  at \in DOMAIN legs /\ at \in Nat /\ at > 0 /\ Len(legs) \in Nat /\ at <= Len(legs)
  BY LenIs DEF ProgressInv

\* Outside "wait", and in it once the group has landed, nothing is awaited.
LEMMA NothingAwaited ==
  ASSUME FlightInv, stage # "wait" \/ at \in landed
  PROVE  \A g \in flying : g.number \in gaps
  BY DEF FlightInv

LEMMA FlightKeeps ==
  ASSUME FlightInv, ProgressInv, \A g \in flying : g.number \in gaps',
         flying' = flying, number' \in Nat, number <= number'
  PROVE  FlightInv'
<1>1. number \in Nat
  BY ExecutionAssumption DEF ProgressInv
<1>2. ASSUME NEW g \in flying
      PROVE  g.number \in 1..number' /\ (g.role = "setup" => g.escrow = g.number)
  BY <1>1 DEF FlightInv
<1>3. QED
  BY <1>2 DEF FlightInv

\* A step away from the confirmation of a setup, between two others.
LEMMA KeyKeeps ==
  ASSUME KeyInv, ProgressInv, UNCHANGED <<number, escrows, record, gaps>>,
         stage \notin Saving, stage = "wait" => Current.role # "setup",
         stage' \notin Saving, stage' # "wait",
         secret' = secret \/ (secret = record /\ secret' = number) \/ secret = Null
  PROVE  KeyInv'
<1>1. \A e \in escrows : e \notin gaps => e = record \/ e = secret
  BY DEF KeyInv
<1>2. Null \notin escrows
  <2>1. escrows \subseteq 1..number /\ number \in 0..MaxCalls
    BY DEF KeyInv, ProgressInv
  <2>2. Null \notin 1..MaxCalls /\ MaxCalls \in Nat
    BY ExecutionAssumption
  <2>3. escrows \subseteq 1..MaxCalls
    BY <2>1, <2>2
  <2>4. QED
    BY <2>2, <2>3
<1>3. \A e \in escrows : e \notin gaps => e = record \/ e = secret'
  BY <1>1, <1>2
<1>4. number \in escrows /\ number \notin gaps => record = number
  BY DEF KeyInv
<1>5. QED
  BY <1>3, <1>4 DEF KeyInv

\* The end of a call.
LEMMA EndKeeps ==
  ASSUME EscrowInv, stage # "idle", stage' = "idle", secret' = Null,
         UNCHANGED <<number, escrows, flying>>,
         IsLegs(legs'), at' \in 0..Len(legs'),
         \/ Plain(legs')
         \/ (Plain(legs) => Plain(legs')) /\ (EscrowOnly(legs) => EscrowOnly(legs')) /\ call' = call,
         \/ gaps' = gaps \cup {number}
         \/ /\ gaps' = gaps
            /\ stage = "wait" => at \in landed
            /\ number \in escrows => record' = number,
         record' = record \/ (record' = number /\ number \in escrows /\ secret = number)
  PROVE  EscrowInv'
<1>1. /\ ProgressInv /\ RoleInv /\ FlightInv /\ KeyInv
      /\ number \in Nat /\ number > 0 /\ number <= MaxCalls /\ MaxCalls \in Nat
  BY ExecutionAssumption DEF EscrowInv, ProgressInv
<1>2. number \in Escrows /\ escrows \subseteq Escrows
  BY <1>1 DEF Escrows, KeyInv
<1>3. gaps' \subseteq 1..number
  <2>1. gaps \subseteq 1..number /\ number \in 1..number
    BY <1>1 DEF ProgressInv
  <2>2. QED
    BY <2>1
<1>4. ProgressInv'
  BY <1>1, <1>3 DEF ProgressInv, Stages, Working, Saving
<1>5. RoleInv'
  <2>1. \/ Plain(legs')
        \/ /\ EscrowOnly(legs') /\ call'.kind = "shape" /\ Sequential'
           /\ record' \notin Escrows \/ record' = number'
    <3>1. CASE Plain(legs')
      BY <3>1
    <3>2. CASE ~Plain(legs')
      <4>1. call' = call /\ EscrowOnly(legs') /\ ~Plain(legs)
        BY <1>1, <3>2 DEF RoleInv
      <4>2. call.kind = "shape" /\ Sequential /\ (record \notin Escrows \/ record = number)
        BY <1>1, <4>1 DEF RoleInv
      <4>3. Sequential' <=> Sequential
        BY <4>1 DEF Sequential, Main
      <4>4. QED
        BY <4>1, <4>2, <4>3
    <3>3. QED
      BY <3>1, <3>2
  <2>2. QED
    BY <2>1 DEF RoleInv, Working, Saving, Escrows
<1>6. FlightInv'
  <2>1. ASSUME NEW g \in flying PROVE g.number \in gaps'
    <3>1. CASE gaps' = gaps \cup {number}
      BY <1>1, <3>1 DEF FlightInv, Group
    <3>2. CASE gaps' = gaps /\ (stage = "wait" => at \in landed)
      BY <1>1, <3>2, NothingAwaited
    <3>3. QED
      BY <3>1, <3>2
  <2>2. QED
    BY <1>1, <2>1, FlightKeeps
<1>7. KeyInv'
  <2>1. ASSUME NEW e \in escrows, e \notin gaps' PROVE e = record'
    <3>1. e \notin gaps /\ e \in Escrows /\ (e = record \/ e = secret)
      BY <1>1, <1>2, <2>1 DEF KeyInv
    <3>2. CASE e = number
      BY <1>1, <2>1, <3>2
    <3>3. CASE e # number
      <4>0. Null \notin Escrows
        BY ExecutionAssumption DEF Escrows
      <4>1. e = record
        <5>1. \/ secret = Null
              \/ secret = record \/ secret = number
          BY <1>1 DEF RoleInv
        <5>2. QED
          BY <3>1, <3>3, <4>0, <5>1
      <4>2. secret # number
        <5>1. \/ secret = Null
              \/ secret = record \/ record \notin Escrows
          BY <1>1 DEF RoleInv
        <5>2. QED
          BY <1>2, <3>1, <3>3, <4>0, <4>1, <5>1
      <4>3. QED
        BY <4>1, <4>2
    <3>4. QED
      BY <3>2, <3>3
  <2>2. record' \in Escrows \cup {Null, Torn} /\ (record' \in Escrows => record' \in escrows)
    BY <1>1, <1>2 DEF KeyInv
  <2>3. number \in escrows /\ number \notin gaps' => record' = number
    BY <2>1
  <2>4. QED
    BY <1>1, <2>1, <2>2, <2>3 DEF KeyInv, Saving, Escrows
<1>8. QED
  BY <1>4, <1>5, <1>6, <1>7 DEF EscrowInv

\* A step between two groups, away from the chain and the store.
LEMMA QuietKeeps ==
  ASSUME EscrowInv, UNCHANGED <<number, call, gaps, record, flying, escrows, landed>>,
         stage \in {"prepare", "quote", "submit"}, stage' \in {"quote", "submit"},
         IsLegs(legs'), at' \in 0..Len(legs'),
         stage' = "submit" => at' > 0,
         stage' = "quote" /\ call.kind \in {"shape", "claims"} => at' < Len(legs'),
         \A i \in landed : i \in 1..at' /\ (stage' = "submit" => i # at'),
         \/ Plain(legs')
         \/ /\ EscrowOnly(legs') /\ call.kind = "shape" /\ Sequential
            /\ record \notin Escrows \/ record = number,
         stage' = "submit" /\ legs'[at'].role = "setup" => secret' = number,
         \/ secret' = secret
         \/ secret = Null /\ record \in Escrows /\ secret' = record
         \/ secret' = number /\ (record \notin Escrows \/ record = number)
  PROVE  EscrowInv'
<1>1. /\ ProgressInv /\ RoleInv /\ FlightInv /\ KeyInv
      /\ number \in Nat /\ number > 0 /\ number <= MaxCalls /\ MaxCalls \in Nat
      /\ stage # "idle" /\ stage' # "idle" /\ number \in Escrows
  BY ExecutionAssumption DEF EscrowInv, ProgressInv, Escrows
<1>2. ProgressInv'
  BY <1>1 DEF ProgressInv, Stages, Working, Saving
<1>3. RoleInv'
  <2>1. Sequential' <=> Sequential
    BY DEF Sequential, Main
  <2>2. Escrows' = Escrows
    BY DEF Escrows
  <2>3. \/ Plain(legs')
        \/ /\ EscrowOnly(legs') /\ call'.kind = "shape" /\ Sequential'
           /\ record' \notin Escrows' \/ record' = number'
    BY <2>1, <2>2
  <2>4. stage' \in Working /\ Current'.role = "setup" => secret' = number'
    BY DEF Working, Saving, Current
  <2>5. \/ secret' = Null
        \/ /\ secret' \in Escrows'
           /\ secret' = record' \/ (secret' = number' /\ record' \notin Escrows')
    BY <1>1, <2>2 DEF RoleInv
  <2>6. stage' \notin Saving /\ stage' \notin {"idle", "prepare"}
    BY DEF Saving
  <2>7. QED
    BY <2>3, <2>4, <2>5, <2>6 DEF RoleInv
<1>4. FlightInv'
  <2>1. \A g \in flying : g.number \in gaps'
    BY <1>1, NothingAwaited
  <2>2. QED
    BY <1>1, <2>1, FlightKeeps
<1>5. KeyInv'
  <2>1. secret' = secret \/ (secret = record /\ secret' = number) \/ secret = Null
        \/ (secret' = number /\ secret = number)
    BY <1>1 DEF RoleInv
  <2>2. secret' = secret \/ (secret = record /\ secret' = number) \/ secret = Null
    BY <2>1
  <2>3. stage \notin Saving /\ stage # "wait" /\ stage' \notin Saving /\ stage' # "wait"
    BY DEF Saving
  <2>4. QED
    BY <1>1, <2>2, <2>3, KeyKeeps
<1>6. QED
  BY <1>2, <1>3, <1>4, <1>5 DEF EscrowInv

\* Advance(ls), after a group that is done and needs nothing more.
LEMMA AdvanceKeeps ==
  ASSUME EscrowInv, NEW ls, Alike(legs, ls), Advance(ls),
         UNCHANGED <<number, call, gaps, flying, landed, escrows>>,
         stage \in {"submit", "wait", "rewrite"},
         stage = "wait" => at \in landed /\ Current.role # "setup",
         \/ stage # "rewrite" /\ record' = record
         \/ stage = "rewrite" /\ record' = number /\ secret = number,
         stage = "submit" => Current.role # "setup"
  PROVE  EscrowInv'
<1>1. /\ ProgressInv /\ RoleInv /\ FlightInv /\ KeyInv
      /\ number \in Nat /\ number > 0 /\ number <= MaxCalls /\ MaxCalls \in Nat
      /\ stage # "idle" /\ number \in Escrows
  BY ExecutionAssumption DEF EscrowInv, ProgressInv, Escrows
<1>2. at \in DOMAIN legs /\ at \in Nat /\ at > 0 /\ Len(legs) \in Nat /\ at <= Len(legs)
      /\ DOMAIN legs = 1..Len(legs)
  BY <1>1, CurrentIs, LenIs DEF Working, Saving, ProgressInv
<1>3. /\ IsLegs(ls) /\ Len(ls) = Len(legs) /\ legs' = ls
      /\ (Plain(legs) => Plain(ls)) /\ (EscrowOnly(legs) => EscrowOnly(ls))
      /\ \A i \in DOMAIN legs : ls[i].role = legs[i].role
  BY AlikeKeeps DEF Alike, Advance
<1>4. number \in escrows /\ number \notin gaps => record' = number
  BY <1>1 DEF KeyInv, Saving
<1>5. number \notin gaps
  BY <1>1 DEF ProgressInv
<1>6. stage = "rewrite" => number \in escrows
  BY <1>1 DEF KeyInv, Saving
<1>7. CASE stage' = "idle"
  <2>1. secret' = Null /\ at' = at
    BY <1>7 DEF Advance, Finish
  <2>2. record' = record \/ (record' = number /\ number \in escrows /\ secret = number)
    BY <1>6
  <2>3. \/ gaps' = gaps \cup {number}
        \/ /\ gaps' = gaps
           /\ stage = "wait" => at \in landed
           /\ number \in escrows => record' = number
    BY <1>4, <1>5
  <2>4. IsLegs(legs') /\ at' \in 0..Len(legs')
    BY <1>2, <1>3, <2>1
  <2>5. (Plain(legs) => Plain(legs')) /\ (EscrowOnly(legs) => EscrowOnly(legs')) /\ call' = call
    BY <1>3
  <2>6. QED
    BY <1>1, <1>7, <2>1, <2>2, <2>3, <2>4, <2>5, EndKeeps
<1>8. CASE stage' # "idle"
  <2> DEFINE requote == \/ call.kind \in {"swap", "compose"} /\ Current.role = "optin"
                        \/ Stepwise /\ Current.role # "optin" /\ at < Len(ls)
  <2>1. \/ requote /\ stage' = "quote" /\ at' = at
        \/ ~requote /\ at < Len(ls) /\ stage' = "submit" /\ at' = at + 1
    BY <1>8 DEF Advance, Finish
  <2>2. secret' = secret
    BY <1>8 DEF Advance, Finish
  <2>3. /\ IsLegs(legs') /\ at' \in 0..Len(legs')
        /\ stage' = "submit" => at' > 0
        /\ \A i \in landed : i \in 1..at' /\ (stage' = "submit" => i # at')
    <3>1. \A i \in landed : i \in 1..at
      BY <1>1 DEF ProgressInv
    <3>2. at' \in {at, at + 1} /\ (stage' = "submit" => at' = at + 1 /\ at < Len(ls))
      BY <2>1
    <3>3. QED
      BY <1>2, <1>3, <2>1, <3>1, <3>2
  <2>4. stage' = "quote" /\ call.kind \in {"shape", "claims"} => at' < Len(legs')
    BY <1>3, <2>1 DEF Stepwise
  <2>5. \/ Plain(legs')
        \/ /\ EscrowOnly(legs') /\ EscrowOnly(legs) /\ call.kind = "shape" /\ Sequential
           /\ record' \notin Escrows \/ record' = number
    BY <1>1, <1>3 DEF RoleInv
  <2>6. stage' = "submit" => legs'[at'].role # "setup"
    <3>1. CASE Plain(legs')
      <4>1. stage' = "submit" => at' \in DOMAIN legs'
        BY <1>2, <1>3, <2>1, LenIs
      <4>2. QED
        BY <3>1, <4>1, PlainAt
    <3>2. CASE ~Plain(legs')
      <4>1. Stepwise /\ EscrowOnly(legs)
        BY <2>5, <3>2 DEF Stepwise
      <4>2. Current.role # "optin"
        BY <1>2, <4>1 DEF EscrowOnly, ToSet, Current
      <4>3. QED
        BY <2>1, <4>1, <4>2
    <3>3. QED
      BY <3>1, <3>2
  <2>7. ProgressInv'
    <3>1. stage' \in {"quote", "submit"}
      BY <2>1
    <3>2. QED
      BY <1>1, <2>3, <2>4, <3>1 DEF ProgressInv, Stages, Working, Saving
  <2>8. RoleInv'
    <3>1. Sequential' <=> Sequential
      BY DEF Sequential, Main
    <3>2. Escrows' = Escrows
      BY DEF Escrows
    <3>3. \/ secret' = Null
          \/ /\ secret' \in Escrows
             /\ secret' = record' \/ (secret' = number' /\ record' \notin Escrows)
      BY <1>1, <2>2 DEF RoleInv
    <3>4. stage' \in {"quote", "submit"}
      BY <2>1
    <3>5. stage' \in Working => Current'.role # "setup"
      BY <2>6, <3>4 DEF Working, Saving, Current
    <3>6. QED
      BY <2>5, <3>1, <3>2, <3>3, <3>4, <3>5 DEF RoleInv, Saving
  <2>9. FlightInv'
    <3>1. \A g \in flying : g.number \in gaps'
      BY <1>1, NothingAwaited
    <3>2. QED
      BY <1>1, <3>1, FlightKeeps
  <2>10. KeyInv'
    <3>1. stage' \notin Saving /\ stage' # "wait"
      BY <2>1 DEF Saving
    <3>2. record' \in Escrows \cup {Null, Torn} /\ (record' \in Escrows => record' \in escrows)
      BY <1>1, <1>6 DEF KeyInv
    <3>3. \A e \in escrows : e \notin gaps => e = record' \/ e = secret'
      <4>1. \A e \in escrows : e \notin gaps => e = record \/ e = secret
        BY <1>1 DEF KeyInv
      <4>2. record' # record => \A e \in escrows : e = record => e = number
        <5>1. escrows \subseteq Escrows
          BY <1>1 DEF KeyInv, Escrows
        <5>2. Null \notin Escrows
          BY ExecutionAssumption DEF Escrows
        <5>3. QED
          BY <1>1, <5>1, <5>2 DEF RoleInv
      <4>3. QED
        BY <2>2, <4>1, <4>2
    <3>4. QED
      BY <1>1, <1>4, <3>1, <3>2, <3>3 DEF KeyInv, Escrows
  <2>11. QED
    BY <2>7, <2>8, <2>9, <2>10 DEF EscrowInv
<1>9. QED
  BY <1>7, <1>8

-----------------------------------------------------------------------------
(* Starting a call.                                                        *)

LEMMA BeginKeeps ==
  ASSUME EscrowInv, stage = "idle", number < MaxCalls,
         NEW c \in Calls, AnswerAtOnce(c) \/ StartCall(c)
  PROVE  EscrowInv'
<1>1. /\ ProgressInv /\ RoleInv /\ FlightInv /\ KeyInv
      /\ number \in Nat /\ number < MaxCalls /\ MaxCalls \in Nat
  BY ExecutionAssumption DEF EscrowInv, ProgressInv
<1>2. /\ stage = "idle" /\ number' = number + 1 /\ call' = c /\ legs' = <<>> /\ at' = 0
      /\ landed' = {} /\ UNCHANGED <<secret, record, flying, escrows, gaps>>
      /\ stage' \in {"idle", "prepare", "quote"}
      /\ stage' = "quote" => call'.kind \notin {"shape", "claims"}
  BY DEF AnswerAtOnce, StartCall, Begin
<1>3. secret = Null
  BY <1>1, <1>2 DEF RoleInv
<1>4. gaps \subseteq 1..number'
  <2>1. gaps \subseteq 1..number
    BY <1>1 DEF ProgressInv
  <2>2. QED
    BY <1>1, <1>2, <2>1
<1>5. ProgressInv'
  <2>1. number' \in 0..MaxCalls /\ number' > 0
    BY <1>1, <1>2
  <2>2. number' \notin gaps
    <3>1. gaps \subseteq 1..number
      BY <1>1 DEF ProgressInv
    <3>2. QED
      BY <1>1, <1>2, <3>1
  <2>3. IsLegs(legs') /\ at' \in 0..Len(legs')
    BY <1>2, NoLegs
  <2>4. QED
    BY <1>2, <1>4, <2>1, <2>2, <2>3 DEF ProgressInv, Stages, Working, Saving
<1>6. RoleInv'
  <2>1. Plain(legs')
    BY <1>2, NoLegsIsPlain
  <2>2. QED
    BY <1>2, <1>3, <2>1 DEF RoleInv, Working, Saving
<1>7. FlightInv'
  <2>1. \A g \in flying : g.number \in gaps'
    BY <1>1, <1>2, NothingAwaited
  <2>2. QED
    BY <1>1, <1>2, <2>1, FlightKeeps
<1>8. KeyInv'
  <2>1. escrows \subseteq 1..number
    BY <1>1 DEF KeyInv
  <2>2. escrows' \subseteq 1..number' /\ number' \notin escrows'
    BY <1>1, <1>2, <2>1
  <2>3. QED
    BY <1>1, <1>2, <1>3, <2>2 DEF KeyInv, Saving
<1>9. QED
  BY <1>5, <1>6, <1>7, <1>8 DEF EscrowInv

\* The groups of a claim batch.
LEMMA ClaimLegs ==
  ASSUME NEW s, \E P : s \in Seq(P), NEW role \in {"post", "claim"}, NEW ls,
         \E r : ls = [i \in DOMAIN s |-> Leg(s[i].act, role, s[i].quote, r[i])]
  PROVE  IsLegs(ls) /\ Len(ls) = Len(s) /\ Plain(ls) /\ Len(s) \in Nat
<1>1. PICK r : ls = [i \in DOMAIN s |-> Leg(s[i].act, role, s[i].quote, r[i])]
  OBVIOUS
<1>2. \A i \in DOMAIN s : ls[i] = Leg(s[i].act, role, s[i].quote, r[i])
  BY <1>1
<1>3. ls = [i \in DOMAIN s |-> ls[i]] /\ DOMAIN ls = DOMAIN s
  BY <1>1
<1>4. \A i \in DOMAIN s : IsLeg(ls[i]) /\ ls[i].role = role
  BY <1>2, LegIs
<1>5. IsLegs(ls) /\ Len(ls) = Len(s)
  BY <1>3, <1>4, EachIs
<1>6. Plain(ls)
  BY <1>3, <1>4 DEF Plain, ToSet
<1>7. QED
  BY <1>5, <1>6, LenProperties

LEMMA PrepareClaimsKeeps == EscrowInv /\ PrepareClaims => EscrowInv'
<1> SUFFICES ASSUME EscrowInv, PrepareClaims PROVE EscrowInv'
  OBVIOUS
<1> DEFINE planned == PlanClaims(call.acts, Desk).planned
           role == IF call.analytics THEN "post" ELSE "claim"
           receive(id) == UNION {Receivable(a, call.shapes, Native) :
                                   a \in {b \in ToSet(call.acts) : b.id = id}}
<1>1. /\ ProgressInv /\ RoleInv /\ FlightInv /\ KeyInv
  BY DEF EscrowInv
<1>2. /\ stage = "prepare" /\ call.kind = "claims"
      /\ UNCHANGED <<signing, call, number, funds, at, record, chain, gaps, crashes>>
      /\ \/ /\ legs' = [i \in DOMAIN planned |-> Leg(planned[i].act, role,
                     planned[i].quote, receive(planned[i].act))]
            /\ IF planned = <<>> THEN Finish(<<>>, FALSE)
               ELSE stage' = "quote" /\ UNCHANGED <<secret, report>>
         \/ stage' = "idle" /\ UNCHANGED <<legs, secret, report>>
  BY DEF PrepareClaims
<1>3. call \in Calls /\ legs = <<>> /\ at = 0 /\ landed = {} /\ secret = Null
  BY <1>1, <1>2 DEF ProgressInv, RoleInv
<1>4. \E P : planned \in Seq(P)
  <2>1. IsDesk(Desk) /\ call.acts \in Seq(ToSet(call.acts))
    BY <1>3, DeskAssumption, ActsAssumption DEF IsDesk
  <2>2. QED
    BY <2>1, PlanIs DEF IsPlan
<1>5. role \in {"post", "claim"}
  OBVIOUS
<1>6. number \in escrows => record = number
  BY <1>1, <1>2 DEF ProgressInv, KeyInv, Saving
<1>7. ASSUME stage' = "idle", secret' = Null, IsLegs(legs'), Plain(legs')
      PROVE  EscrowInv'
  <2>1. at' \in 0..Len(legs')
    BY <1>2, <1>3, <1>7, LenIs
  <2>2. UNCHANGED <<number, escrows, flying, gaps, record>>
    BY <1>2 DEF chain
  <2>3. QED
    BY <1>2, <1>6, <1>7, <2>1, <2>2, EndKeeps
<1>8. CASE legs' = [i \in DOMAIN planned |-> Leg(planned[i].act, role,
                     planned[i].quote, receive(planned[i].act))]
           /\ IF planned = <<>> THEN Finish(<<>>, FALSE)
              ELSE stage' = "quote" /\ UNCHANGED <<secret, report>>
  <2>1. \E r : legs' = [i \in DOMAIN planned |-> Leg(planned[i].act, role, planned[i].quote, r[i])]
    <3> DEFINE f == [i \in DOMAIN planned |-> receive(planned[i].act)]
    <3>1. legs' = [i \in DOMAIN planned |-> Leg(planned[i].act, role, planned[i].quote, f[i])]
      BY <1>8
    <3> HIDE DEF f, planned, role
    <3>2. QED
      BY <3>1
  <2> HIDE DEF planned, role, receive
  <2>2. IsLegs(legs') /\ Len(legs') = Len(planned) /\ Plain(legs') /\ Len(planned) \in Nat
    BY <1>4, <1>5, <2>1, ClaimLegs
  <2>3. CASE planned = <<>>
    BY <1>7, <1>8, <2>2, <2>3 DEF Finish
  <2>4. CASE planned # <<>>
    <3>1. Len(planned) > 0
      BY <1>4, <2>2, <2>4, EmptySeq
    <3>2. stage' = "quote" /\ secret' = secret /\ at' = 0
      BY <1>2, <1>3, <1>8, <2>4
    <3>3. UNCHANGED <<number, call, gaps, record, flying, escrows, landed>>
      BY <1>2 DEF chain
    <3>4. at' \in 0..Len(legs') /\ at' < Len(legs')
      BY <2>2, <3>1, <3>2
    <3>5. QED
      BY <1>2, <1>3, <2>2, <3>2, <3>3, <3>4, QuietKeeps
  <2>5. QED
    BY <2>3, <2>4
<1>9. CASE stage' = "idle" /\ UNCHANGED <<legs, secret, report>>
  BY <1>3, <1>7, <1>9, NoLegs, NoLegsIsPlain
<1>10. QED
  BY <1>2, <1>8, <1>9

\* The groups of a shape call are those of shapes that can be sorted.
LEMMA RunLegs ==
  ASSUME NEW T, NEW s \in Seq(T), NEW R, NEW ls, DOMAIN ls = DOMAIN s,
         ls = [i \in DOMAIN s |-> ls[i]],
         \A i \in DOMAIN s : IsLeg(ls[i]) /\ ls[i].role \in R
  PROVE  IsLegs(ls) /\ Len(ls) = Len(s) /\ Len(s) \in Nat /\ \A g \in ToSet(ls) : g.role \in R
<1>1. IsLegs(ls) /\ Len(ls) = Len(s)
  BY EachIs
<1>2. \A g \in ToSet(ls) : g.role \in R
  BY DEF ToSet
<1>3. QED
  BY <1>1, <1>2, LenProperties

LEMMA FolksRoles == \A s : FolksRole(s) \in {"setup", "opt", "deposit", "other"}
  BY DEF FolksRole

LEMMA EscrowLegsAre ==
  ASSUME call \in Calls
  PROVE  /\ IsLegs(EscrowLegs) /\ EscrowOnly(EscrowLegs)
         /\ record \in Escrows => Plain(EscrowLegs)
         /\ EscrowLegs # <<>> => Len(EscrowLegs) > 0
<1> DEFINE known == record \in Escrows
           opted == <<record, DepositAsset(Main, call.shapes)>> \in optedIn
           part == {s \in call.shapes :
                      \/ ~known
                      \/ FolksRole(s) \notin {"setup", "opt"}
                      \/ FolksRole(s) = "opt" /\ ~opted}
           run == EscrowShapes(call.shapes, known, opted)
           ls == EscrowLegs
           R == IF known THEN {"opt", "deposit", "other"} ELSE {"setup", "opt", "deposit", "other"}
<1>1. run = Sorted(part)
  BY DEF EscrowShapes
<1>2. run \in Seq(part)
  <2>1. part \in SUBSET call.shapes
    OBVIOUS
  <2> HIDE DEF part
  <2>2. QED
    BY <1>1, <2>1, ShapesAssumption
<1>3. ls = [i \in DOMAIN run |-> Leg(Main.id, FolksRole(run[i]), run[i].key, {DepositAsset(Main, call.shapes)})]
  BY DEF EscrowLegs
<1>4. \A s \in part : FolksRole(s) \in R
  BY FolksRoles
<1> HIDE DEF run, part, ls, R
<1>5. \A i \in DOMAIN run : run[i] \in part
  BY <1>2, LenProperties
<1>6. DOMAIN ls = DOMAIN run /\ ls = [i \in DOMAIN run |-> ls[i]]
  BY <1>3
<1>7. \A i \in DOMAIN run : IsLeg(ls[i]) /\ ls[i].role \in R
  BY <1>3, <1>4, <1>5, LegIs
<1>8. /\ IsLegs(ls) /\ Len(ls) = Len(run) /\ Len(run) \in Nat
      /\ \A g \in ToSet(ls) : g.role \in R
  BY <1>2, <1>6, <1>7, RunLegs
<1>9. EscrowOnly(ls) /\ (record \in Escrows => Plain(ls))
  BY <1>8 DEF EscrowOnly, Plain, R
<1>10. ls # <<>> => Len(ls) > 0
  <2>1. PICK S : ls \in Seq(S)
    BY <1>8 DEF IsLegs
  <2>2. QED
    BY <1>8, <2>1, EmptySeq
<1>11. QED
  BY <1>8, <1>9, <1>10 DEF ls

LEMMA BatchLegsAre ==
  ASSUME call \in Calls
  PROVE  IsLegs(BatchLegs) /\ Plain(BatchLegs) /\ Len(BatchLegs) > 0
<1> DEFINE part == QuotedShapes(Main, call.shapes)
           run == Sorted(part)
           receive == Receivable(Main, call.shapes, Native)
           own == IF Main.type \in Enters THEN "enter" ELSE "exit"
           role(s) == IF ConfirmsFirst(s) THEN "deploy" ELSE own
           desk == IF Main.type = "claim" THEN PlanClaims(<<Main>>, Desk).planned ELSE <<>>
           ds == [i \in DOMAIN desk |-> Leg(Main.id, own, desk[i].quote, receive)]
           ls == [i \in DOMAIN run |-> Leg(Main.id, role(run[i]), run[i].key, receive)]
           one == Leg(Main.id, own, Main.key, receive)
           R == {"deploy", "enter", "exit"}
<1>1. run \in Seq(part)
  <2>1. part \in SUBSET call.shapes
    BY DEF QuotedShapes
  <2> HIDE DEF part
  <2>2. QED
    BY <2>1, ShapesAssumption
<1>2. BatchLegs = IF desk # <<>> THEN ds ELSE IF run = <<>> THEN <<one>> ELSE ls
  BY DEF BatchLegs
<1>6. CASE desk # <<>>
  <2>1. PICK P : desk \in Seq(P)
    <3>1. IsDesk(Desk)
      BY DeskAssumption DEF IsDesk
    <3>2. PICK m : m = Main
      OBVIOUS
    <3>3. <<m>> \in Seq({m})
      OBVIOUS
    <3>4. IsPlan(PlanClaims(<<Main>>, Desk).planned)
      BY <3>1, <3>2, <3>3, PlanIs
    <3>5. QED
      BY <1>6, <3>4 DEF IsPlan
  <2>2. ds = [i \in DOMAIN desk |-> ds[i]] /\ DOMAIN ds = DOMAIN desk
    OBVIOUS
  <2>3. \A i \in DOMAIN desk : ds[i] = Leg(Main.id, own, desk[i].quote, receive)
    OBVIOUS
  <2>4. own \in R
    OBVIOUS
  <2> HIDE DEF desk, ds, own, R, receive
  <2>5. \A i \in DOMAIN desk : IsLeg(ds[i]) /\ ds[i].role \in R
    BY <2>3, <2>4, LegIs
  <2>6. /\ IsLegs(ds) /\ Len(ds) = Len(desk) /\ Len(desk) \in Nat
        /\ \A g \in ToSet(ds) : g.role \in R
    BY <2>1, <2>2, <2>5, RunLegs
  <2>7. Plain(ds)
    BY <2>6 DEF Plain, R
  <2>8. Len(desk) > 0
    BY <1>6, <2>1, <2>6, EmptySeq
  <2>9. QED
    BY <1>2, <1>6, <2>6, <2>7, <2>8
<1>3. CASE desk = <<>> /\ run = <<>>
  <2>1. IsLeg(one) /\ one.role \in {"enter", "exit"}
    BY LegIs
  <2> HIDE DEF one
  <2>2. IsLegs(<<one>>) /\ Len(<<one>>) = 1 /\ ToSet(<<one>>) = {one}
    BY <2>1, OneLeg
  <2>3. Plain(<<one>>)
    BY <2>1, <2>2 DEF Plain
  <2>4. QED
    BY <1>2, <1>3, <2>2, <2>3
<1>4. CASE desk = <<>> /\ run # <<>>
  <2>1. ls = [i \in DOMAIN run |-> ls[i]] /\ DOMAIN ls = DOMAIN run
    OBVIOUS
  <2>2. \A i \in DOMAIN run : ls[i] = Leg(Main.id, role(run[i]), run[i].key, receive)
    OBVIOUS
  <2>3. \A s : role(s) \in R
    OBVIOUS
  <2> HIDE DEF part, run, ls, role, own, R, receive, desk, ds
  <2>4. \A i \in DOMAIN run : IsLeg(ls[i]) /\ ls[i].role \in R
    BY <2>2, <2>3, LegIs
  <2>5. /\ IsLegs(ls) /\ Len(ls) = Len(run) /\ Len(run) \in Nat
        /\ \A g \in ToSet(ls) : g.role \in R
    BY <1>1, <2>1, <2>4, RunLegs
  <2>6. Plain(ls)
    BY <2>5 DEF Plain, R
  <2>7. Len(run) > 0
    BY <1>1, <1>4, <2>5, EmptySeq
  <2>8. QED
    BY <1>2, <1>4, <2>5, <2>6, <2>7
<1>5. QED
  BY <1>3, <1>4, <1>6

LEMMA PrepareShapeKeeps == EscrowInv /\ PrepareShape => EscrowInv'
<1> SUFFICES ASSUME EscrowInv, PrepareShape PROVE EscrowInv'
  OBVIOUS
<1>1. /\ ProgressInv /\ RoleInv /\ FlightInv /\ KeyInv
  BY DEF EscrowInv
<1>2. stage = "prepare" /\ call.kind = "shape" /\ UNCHANGED <<call, number, record, chain, gaps>>
  BY DEF PrepareShape
<1>3. call \in Calls /\ legs = <<>> /\ at = 0 /\ landed = {} /\ secret = Null
  BY <1>1, <1>2 DEF ProgressInv, RoleInv
<1>4. UNCHANGED <<number, call, gaps, record, flying, escrows, landed>>
  BY <1>2 DEF chain
<1>5. \/ Throw
      \/ /\ legs' = IF Sequential THEN EscrowLegs ELSE BatchLegs
         /\ Sequential => EscrowLegs # <<>>
         /\ stage' = "quote"
         /\ secret' = IF (Sequential \/ call.known) /\ record \in Escrows THEN record ELSE Null
         /\ UNCHANGED at
  BY DEF PrepareShape
<1>6. CASE Throw
  <2>1. stage' = "idle" /\ secret' = Null /\ legs' = legs /\ at' = at
    BY <1>6 DEF Throw, Finish
  <2>2. IsLegs(legs') /\ Plain(legs') /\ at' \in 0..Len(legs')
    BY <1>3, <2>1, NoLegs, NoLegsIsPlain
  <2>3. number \in escrows => record' = number
    BY <1>1, <1>2, <1>4 DEF ProgressInv, KeyInv, Saving
  <2>4. QED
    BY <1>2, <1>4, <2>1, <2>2, <2>3, EndKeeps
<1>7. CASE ~Throw
  <2>1. /\ legs' = IF Sequential THEN EscrowLegs ELSE BatchLegs
        /\ Sequential => EscrowLegs # <<>>
        /\ stage' = "quote"
        /\ secret' = IF (Sequential \/ call.known) /\ record \in Escrows THEN record ELSE Null
        /\ at' = 0
    BY <1>3, <1>5, <1>7
  <2>2. /\ IsLegs(legs') /\ Len(legs') > 0
        /\ Plain(legs') \/ (EscrowOnly(legs') /\ Sequential /\ record \notin Escrows)
    <3>1. CASE Sequential
      <4>1. legs' = EscrowLegs /\ EscrowLegs # <<>>
        BY <2>1, <3>1
      <4>2. /\ IsLegs(EscrowLegs) /\ EscrowOnly(EscrowLegs)
            /\ record \in Escrows => Plain(EscrowLegs)
            /\ EscrowLegs # <<>> => Len(EscrowLegs) > 0
        BY <1>3, EscrowLegsAre
      <4> HIDE DEF EscrowLegs
      <4>3. QED
        BY <3>1, <4>1, <4>2
    <3>2. CASE ~Sequential
      <4>1. legs' = BatchLegs
        BY <2>1, <3>2
      <4>2. IsLegs(BatchLegs) /\ Plain(BatchLegs) /\ Len(BatchLegs) > 0
        BY <1>3, BatchLegsAre
      <4>3. QED
        BY <4>1, <4>2
    <3>3. QED
      BY <3>1, <3>2
  <2>3. at' \in 0..Len(legs') /\ at' < Len(legs')
    BY <2>1, <2>2, LenIs
  <2>4. \/ secret' = secret
        \/ secret = Null /\ record \in Escrows /\ secret' = record
    BY <1>3, <2>1
  <2>5. QED
    BY <1>2, <1>3, <1>4, <2>1, <2>2, <2>3, <2>4, QuietKeeps
<1>8. QED
  BY <1>6, <1>7

-----------------------------------------------------------------------------
(* Quotes.                                                                 *)

LEMMA AppendIs ==
  ASSUME NEW ls, IsLegs(ls), NEW g, IsLeg(g)
  PROVE  /\ IsLegs(Append(ls, g)) /\ Len(Append(ls, g)) = Len(ls) + 1
         /\ ToSet(Append(ls, g)) \subseteq ToSet(ls) \cup {g}
<1>1. PICK S : ls \in Seq(S)
  BY DEF IsLegs
<1>2. Append(ls, g) = ls \o <<g>>
  BY <1>1
<1>3. IsLegs(<<g>>) /\ Len(<<g>>) = 1 /\ ToSet(<<g>>) = {g}
  BY OneLeg
<1>4. /\ IsLegs(ls \o <<g>>) /\ Len(ls \o <<g>>) = Len(ls) + 1
      /\ ToSet(ls \o <<g>>) \subseteq ToSet(ls) \cup {g}
  BY <1>3, JoinIs
<1>5. QED
  BY <1>2, <1>4

LEMMA QuoteSwapKeeps == EscrowInv /\ QuoteSwap => EscrowInv'
<1> SUFFICES ASSUME EscrowInv, QuoteSwap PROVE EscrowInv'
  OBVIOUS
<1> DEFINE swap == Leg(Main.id, "swap", Null, {})
           optin == Leg(Main.id, "optin", Null, {Main.to})
<1>1. /\ ProgressInv /\ RoleInv /\ FlightInv /\ KeyInv
  BY DEF EscrowInv
<1>2. /\ stage = "quote" /\ stage' = "submit" /\ call.kind = "swap" /\ at' = at + 1
      /\ \/ legs' = Append(legs, swap)
         \/ at = 0 /\ legs' \in {<<swap>>, <<optin>>}
      /\ UNCHANGED <<number, call, gaps, record, flying, escrows, landed, secret>>
  <2>1. at \in Nat
    BY <1>1, LenIs DEF ProgressInv
  <2>2. legs' = IF at > 0 THEN Append(legs, swap)
                ELSE IF Main.to \in optedIn \cup {Native} THEN <<swap>> ELSE <<optin>>
    BY DEF QuoteSwap
  <2> HIDE DEF swap, optin
  <2>3. legs' = Append(legs, swap) \/ (at = 0 /\ legs' \in {<<swap>>, <<optin>>})
    BY <2>1, <2>2
  <2>4. QED
    BY <2>3 DEF QuoteSwap, Quoted, chain
<1>3. Plain(legs) /\ IsLegs(legs) /\ at \in 0..Len(legs) /\ Len(legs) \in Nat
      /\ \A i \in landed : i \in 1..at
  BY <1>1, <1>2, LenIs DEF ProgressInv, RoleInv
<1>4. IsLeg(swap) /\ swap.role = "swap" /\ IsLeg(optin) /\ optin.role = "optin"
  BY LegIs
<1> HIDE DEF swap, optin
<1>5. IsLegs(legs') /\ Plain(legs') /\ at' \in 0..Len(legs')
  <2>1. CASE legs' = Append(legs, swap)
    <3>1. /\ IsLegs(legs') /\ Len(legs') = Len(legs) + 1
          /\ ToSet(legs') \subseteq ToSet(legs) \cup {swap}
      BY <1>3, <1>4, <2>1, AppendIs
    <3>2. Plain(legs')
      BY <1>3, <1>4, <3>1 DEF Plain
    <3>3. QED
      BY <1>2, <1>3, <3>1, <3>2
  <2>2. CASE at = 0 /\ legs' \in {<<swap>>, <<optin>>}
    <3>1. PICK g \in {swap, optin} : legs' = <<g>>
      BY <2>2
    <3>2. IsLegs(<<g>>) /\ Len(<<g>>) = 1 /\ ToSet(<<g>>) = {g}
      BY <1>4, <3>1, OneLeg
    <3>3. Plain(legs')
      BY <1>4, <3>1, <3>2 DEF Plain
    <3>4. QED
      BY <1>2, <2>2, <3>1, <3>2, <3>3
  <2>3. QED
    BY <1>2, <2>1, <2>2
<1>6. at' > 0 /\ \A i \in landed : i \in 1..at' /\ i # at'
  BY <1>2, <1>3
<1>7. legs'[at'].role # "setup"
  <2>1. at' \in DOMAIN legs'
    BY <1>5, <1>6, LenIs
  <2>2. QED
    BY <1>5, <2>1, PlainAt
<1>8. QED
  BY <1>2, <1>5, <1>6, <1>7, QuietKeeps

LEMMA QuoteComposeKeeps ==
  ASSUME EscrowInv, NEW compiled \in BOOLEAN, QuoteCompose(compiled)
  PROVE  EscrowInv'
<1> DEFINE swap  == Leg(call.acts[2].id, "swap", Null, {})
           enter == Leg(Main.id, "enter", Main.key, {})
           needed == {call.acts[2].to} \ (optedIn \cup {Native})
           optin == Leg(Main.id, "optin", Null, needed)
<1>1. /\ ProgressInv /\ RoleInv /\ FlightInv /\ KeyInv
  BY DEF EscrowInv
<1>2. /\ stage = "quote" /\ stage' = "submit" /\ call.kind = "compose" /\ at' = at + 1
      /\ \/ at = 0 /\ legs' = <<optin>>
         \/ legs' = legs \o <<swap, enter>>
         \/ legs' = legs \o <<enter>>
      /\ UNCHANGED <<number, call, gaps, record, flying, escrows, landed, secret>>
  BY DEF QuoteCompose, Quoted, chain
<1>3. Plain(legs) /\ IsLegs(legs) /\ at \in 0..Len(legs) /\ Len(legs) \in Nat
      /\ \A i \in landed : i \in 1..at
  BY <1>1, <1>2, LenIs DEF ProgressInv, RoleInv
<1>4. /\ IsLeg(swap) /\ swap.role = "swap" /\ IsLeg(optin) /\ optin.role = "optin"
      /\ IsLeg(enter) /\ enter.role = "enter"
  BY LegIs
<1> HIDE DEF swap, optin, enter
<1>5. /\ IsLegs(<<enter>>) /\ Len(<<enter>>) = 1 /\ ToSet(<<enter>>) = {enter}
      /\ IsLegs(<<optin>>) /\ Len(<<optin>>) = 1 /\ ToSet(<<optin>>) = {optin}
      /\ IsLegs(<<swap>>) /\ Len(<<swap>>) = 1 /\ ToSet(<<swap>>) = {swap}
  BY <1>4, OneLeg
<1>6. /\ IsLegs(<<swap, enter>>) /\ Len(<<swap, enter>>) = 2
      /\ ToSet(<<swap, enter>>) \subseteq {swap, enter}
  <2>1. <<swap, enter>> = Append(<<swap>>, enter)
    OBVIOUS
  <2>2. /\ IsLegs(Append(<<swap>>, enter)) /\ Len(Append(<<swap>>, enter)) = Len(<<swap>>) + 1
        /\ ToSet(Append(<<swap>>, enter)) \subseteq ToSet(<<swap>>) \cup {enter}
    BY ONLY <1>4, <1>5, AppendIs
  <2>3. QED
    BY ONLY <1>5, <2>1, <2>2
<1>7. IsLegs(legs') /\ Plain(legs') /\ at' \in 0..Len(legs')
  <2>1. CASE at = 0 /\ legs' = <<optin>>
    BY <1>2, <1>4, <1>5, <2>1 DEF Plain
  <2>2. CASE legs' = legs \o <<swap, enter>>
    <3>1. /\ IsLegs(legs') /\ Len(legs') = Len(legs) + 2
          /\ ToSet(legs') \subseteq ToSet(legs) \cup {swap, enter}
      <4>1. PICK ms : ms = <<swap, enter>>
        OBVIOUS
      <4>2. IsLegs(ms) /\ Len(ms) = 2 /\ ToSet(ms) \subseteq {swap, enter}
        BY <1>6, <4>1
      <4>3. IsLegs(legs)
        BY <1>3
      <4>4. /\ IsLegs(legs \o ms) /\ Len(legs \o ms) = Len(legs) + Len(ms)
            /\ ToSet(legs \o ms) \subseteq ToSet(legs) \cup ToSet(ms)
        BY ONLY <4>2, <4>3, JoinIs
      <4>5. legs' = legs \o ms
        BY <2>2, <4>1
      <4>6. QED
        BY ONLY <4>2, <4>4, <4>5
    <3>2. Plain(legs')
      BY <1>3, <1>4, <3>1 DEF Plain
    <3>3. QED
      BY <1>2, <1>3, <3>1, <3>2
  <2>3. CASE legs' = legs \o <<enter>>
    <3>1. /\ IsLegs(legs') /\ Len(legs') = Len(legs) + 1
          /\ ToSet(legs') \subseteq ToSet(legs) \cup {enter}
      BY <1>3, <1>5, <2>3, JoinIs
    <3>2. Plain(legs')
      BY <1>3, <1>4, <3>1 DEF Plain
    <3>3. QED
      BY <1>2, <1>3, <3>1, <3>2
  <2>4. QED
    BY <1>2, <2>1, <2>2, <2>3
<1>8. at' > 0 /\ \A i \in landed : i \in 1..at' /\ i # at'
  BY <1>2, <1>3
<1>9. legs'[at'].role # "setup"
  <2>1. at' \in DOMAIN legs'
    BY <1>7, <1>8, LenIs
  <2>2. QED
    BY <1>7, <2>1, PlainAt
<1>10. QED
  BY <1>2, <1>7, <1>8, <1>9, QuietKeeps

\* The answer to the quotes of a claim batch changes nothing but the quotes.
LEMMA QuotesMayMove ==
  ASSUME QuoteClaims
  PROVE  \E q : legs' = [i \in DOMAIN legs |-> [legs[i] EXCEPT !.quote = q[i]]]
<1>1. PICK order : LET asked  == [i \in DOMAIN legs |-> legs[i].quote]
                       answer == [i \in DOMAIN legs |-> asked[order[i]]]
                       pairs  == Align(asked, answer)
                   IN  legs' = [i \in DOMAIN legs |->
                                  [legs[i] EXCEPT !.quote = answer[pairs[i]]]]
  BY DEF QuoteClaims
<1> DEFINE asked  == [i \in DOMAIN legs |-> legs[i].quote]
           answer == [i \in DOMAIN legs |-> asked[order[i]]]
           pairs  == Align(asked, answer)
           q      == [i \in DOMAIN legs |-> answer[pairs[i]]]
<1>2. \A i \in DOMAIN legs : q[i] = answer[pairs[i]]
  OBVIOUS
<1>3. legs' = [i \in DOMAIN legs |-> [legs[i] EXCEPT !.quote = answer[pairs[i]]]]
  BY <1>1
<1> HIDE DEF q, asked, answer, pairs
<1>4. legs' = [i \in DOMAIN legs |-> [legs[i] EXCEPT !.quote = q[i]]]
  BY <1>2, <1>3
<1>5. QED
  BY <1>4

LEMMA QuoteClaimsKeeps == EscrowInv /\ QuoteClaims => EscrowInv'
<1> SUFFICES ASSUME EscrowInv, QuoteClaims PROVE EscrowInv'
  OBVIOUS
<1>1. /\ ProgressInv /\ RoleInv /\ FlightInv /\ KeyInv
  BY DEF EscrowInv
<1>2. /\ stage = "quote" /\ stage' = "submit" /\ call.kind = "claims" /\ at' = at + 1
      /\ \E q : legs' = [i \in DOMAIN legs |-> [legs[i] EXCEPT !.quote = q[i]]]
      /\ UNCHANGED <<number, call, gaps, record, flying, escrows, landed, secret>>
  BY QuotesMayMove DEF QuoteClaims, Quoted, chain
<1>3. /\ Plain(legs) /\ IsLegs(legs) /\ at \in 0..Len(legs) /\ Len(legs) \in Nat
      /\ DOMAIN legs = 1..Len(legs) /\ at < Len(legs) /\ \A i \in landed : i \in 1..at
  BY <1>1, <1>2, LenIs DEF ProgressInv, RoleInv
<1>4. PICK q : legs' = [i \in DOMAIN legs |-> [legs[i] EXCEPT !.quote = q[i]]]
  BY <1>2
<1>5. \A i \in DOMAIN legs : IsLeg(legs'[i]) /\ legs'[i].role = legs[i].role
  <2> SUFFICES ASSUME NEW i \in DOMAIN legs
               PROVE IsLeg(legs'[i]) /\ legs'[i].role = legs[i].role
    OBVIOUS
  <2>1. IsLeg(legs[i])
    BY <1>3 DEF IsLegs
  <2>2. legs'[i] = [act |-> legs[i].act, role |-> legs[i].role, quote |-> q[i],
                    assets |-> legs[i].assets, state |-> legs[i].state]
    BY <1>4, <2>1 DEF IsLeg
  <2>3. QED
    BY <2>2 DEF IsLeg
<1>6. DOMAIN legs' = DOMAIN legs /\ legs' = [i \in DOMAIN legs |-> legs'[i]]
  BY <1>4
<1>7. IsLegs(legs') /\ Len(legs') = Len(legs)
  <2>1. PICK S : legs \in Seq(S)
    BY <1>3 DEF IsLegs
  <2>2. QED
    BY <1>5, <1>6, <2>1, EachIs
<1>8. Plain(legs')
  BY <1>3, <1>5, <1>6 DEF Plain, ToSet
<1>9. at' \in 0..Len(legs') /\ at' > 0 /\ \A i \in landed : i \in 1..at' /\ i # at'
  BY <1>2, <1>3, <1>7
<1>10. legs'[at'].role # "setup"
  <2>1. at' \in DOMAIN legs'
    BY <1>7, <1>9, LenIs
  <2>2. QED
    BY <1>8, <2>1, PlainAt
<1>11. QED
  BY <1>2, <1>7, <1>8, <1>9, <1>10, QuietKeeps

LEMMA QuoteShapeKeeps == EscrowInv /\ QuoteShape => EscrowInv'
<1> SUFFICES ASSUME EscrowInv, QuoteShape PROVE EscrowInv'
  OBVIOUS
<1>1. /\ ProgressInv /\ RoleInv /\ FlightInv /\ KeyInv
  BY DEF EscrowInv
<1>2. /\ stage = "quote" /\ stage' = "submit" /\ call.kind = "shape" /\ at' = at + 1
      /\ legs' = legs
      /\ secret' = IF Stepwise /\ legs[at + 1].role = "setup" THEN number ELSE secret
      /\ UNCHANGED <<number, call, gaps, record, flying, escrows, landed>>
  BY DEF QuoteShape, Quoted, chain
<1>3. /\ IsLegs(legs) /\ at \in 0..Len(legs) /\ Len(legs) \in Nat
      /\ DOMAIN legs = 1..Len(legs) /\ at < Len(legs) /\ \A i \in landed : i \in 1..at
  BY <1>1, <1>2, LenIs DEF ProgressInv
<1>4. IsLegs(legs') /\ at' \in 0..Len(legs') /\ at' > 0 /\ at + 1 \in DOMAIN legs
      /\ \A i \in landed : i \in 1..at' /\ i # at'
  BY <1>2, <1>3
<1>5. \/ Plain(legs)
      \/ /\ EscrowOnly(legs) /\ call.kind = "shape" /\ Sequential
         /\ record \notin Escrows \/ record = number
  BY <1>1 DEF RoleInv
<1>6. legs[at + 1].role = "setup" => Stepwise /\ (record \notin Escrows \/ record = number)
  BY <1>4, <1>5, PlainAt DEF Stepwise
<1>7. legs'[at'].role = "setup" => secret' = number
  BY <1>2, <1>6
<1>8. secret' = secret \/ (secret' = number /\ (record \notin Escrows \/ record = number))
  BY <1>2, <1>6
<1>9. QED
  BY <1>2, <1>4, <1>5, <1>7, <1>8, QuietKeeps

LEMMA SkipKeeps == EscrowInv /\ SkipDeployed => EscrowInv'
<1> SUFFICES ASSUME EscrowInv, SkipDeployed PROVE EscrowInv'
  OBVIOUS
<1>1. /\ ProgressInv /\ RoleInv /\ FlightInv /\ KeyInv
  BY DEF EscrowInv
<1>2. /\ stage = "quote" /\ call.kind = "shape" /\ at' = at + 1
      /\ legs' = [legs EXCEPT ![at + 1].state = "skipped"]
      /\ \/ at + 1 = Len(legs) /\ stage' = "idle" /\ secret' = Null
         \/ at + 1 # Len(legs) /\ UNCHANGED <<stage, secret>>
      /\ UNCHANGED <<number, call, gaps, record, flying, escrows, landed>>
  BY DEF SkipDeployed, Mark, Finish, chain
<1>3. /\ IsLegs(legs) /\ at \in 0..Len(legs) /\ Len(legs) \in Nat
      /\ DOMAIN legs = 1..Len(legs) /\ at < Len(legs) /\ \A i \in landed : i \in 1..at
  BY <1>1, <1>2, LenIs DEF ProgressInv
<1>4. Alike(legs, legs')
  <2>1. at + 1 \in DOMAIN legs
    BY <1>3
  <2>2. QED
    BY <1>2, <1>3, <2>1, MarkIs
<1>5. /\ IsLegs(legs') /\ Len(legs') = Len(legs)
      /\ (Plain(legs) => Plain(legs')) /\ (EscrowOnly(legs) => EscrowOnly(legs'))
  BY <1>4, AlikeKeeps DEF Alike
<1>6. at' \in 0..Len(legs')
  BY <1>2, <1>3, <1>5
<1>7. CASE stage' = "idle" /\ secret' = Null
  <2>1. number \in escrows => record' = number
    BY <1>1, <1>2 DEF ProgressInv, KeyInv, Saving
  <2>2. QED
    BY <1>2, <1>5, <1>6, <1>7, <2>1, EndKeeps
<1>8. CASE at + 1 # Len(legs) /\ UNCHANGED <<stage, secret>>
  <2>1. at' < Len(legs') /\ \A i \in landed : i \in 1..at'
    BY <1>2, <1>3, <1>5, <1>8
  <2>2. \/ Plain(legs')
        \/ /\ EscrowOnly(legs') /\ call.kind = "shape" /\ Sequential
           /\ record \notin Escrows \/ record = number
    BY <1>1, <1>5 DEF RoleInv
  <2>3. stage' = "quote" /\ secret' = secret
    BY <1>2, <1>8
  <2>4. QED
    BY <1>2, <1>5, <1>6, <2>1, <2>2, <2>3, QuietKeeps
<1>9. QED
  BY <1>2, <1>7, <1>8

-----------------------------------------------------------------------------
(* Calls that end early.                                                   *)

LEMMA ThrowKeeps ==
  ASSUME EscrowInv, stage # "idle",
         \/ Throw /\ (Fails \/ GiveUp \/ SaveFails)
         \/ Crash
  PROVE  EscrowInv'
<1>1. /\ ProgressInv /\ RoleInv /\ FlightInv /\ KeyInv
  BY DEF EscrowInv
<1>2. stage' = "idle" /\ secret' = Null /\ UNCHANGED <<number, escrows, flying, record>>
  BY DEF Throw, Finish, Fails, GiveUp, SaveFails, Crash, chain
<1>3. \/ legs' = legs /\ at' = at /\ call' = call
      \/ legs' = <<>> /\ at' = 0
  BY DEF Throw, Fails, GiveUp, SaveFails, Crash
<1>4. /\ IsLegs(legs') /\ at' \in 0..Len(legs')
      /\ \/ Plain(legs')
         \/ /\ (Plain(legs) => Plain(legs')) /\ (EscrowOnly(legs) => EscrowOnly(legs'))
            /\ call' = call
  <2>1. CASE legs' = legs /\ at' = at /\ call' = call
    BY <1>1, <2>1 DEF ProgressInv
  <2>2. CASE legs' = <<>> /\ at' = 0
    BY <2>2, NoLegs, NoLegsIsPlain
  <2>3. QED
    BY <1>3, <2>1, <2>2
<1>5. \/ gaps' = gaps \cup {number}
      \/ /\ gaps' = gaps
         /\ stage = "wait" => at \in landed
         /\ number \in escrows => record' = number
  <2>1. CASE Fails
    <3>1. stage \in {"prepare", "quote", "submit"} /\ gaps' = gaps
      BY <2>1 DEF Fails
    <3>2. number \in escrows => record = number
      BY <1>1, <3>1 DEF ProgressInv, KeyInv, Saving
    <3>3. QED
      BY <1>2, <3>1, <3>2
  <2>2. CASE GiveUp \/ SaveFails \/ Crash
    BY <2>2 DEF GiveUp, SaveFails, Crash
  <2>3. QED
    BY <2>1, <2>2
<1>6. QED
  BY <1>2, <1>4, <1>5, EndKeeps

-----------------------------------------------------------------------------
(* Submission.                                                             *)

LEMMA OptInFirstKeeps == EscrowInv /\ OptInFirst => EscrowInv'
<1> SUFFICES ASSUME EscrowInv, OptInFirst PROVE EscrowInv'
  OBVIOUS
<1> DEFINE optin == Leg(Current.act, "optin", Null, Missing)
<1>1. /\ ProgressInv /\ RoleInv /\ FlightInv /\ KeyInv
  BY DEF EscrowInv
<1>2. /\ stage = "submit" /\ stage' = "submit" /\ at' = at /\ Current.role \in {"enter", "exit", "deploy", "claim"}
      /\ legs' = InsertAt(legs, at, optin)
      /\ UNCHANGED <<number, call, gaps, record, flying, escrows, landed, secret>>
  BY DEF OptInFirst, NeedsOptInFirst, chain
<1>3. /\ IsLegs(legs) /\ at \in DOMAIN legs /\ at \in Nat /\ at > 0 /\ Len(legs) \in Nat
      /\ at <= Len(legs) /\ \A i \in landed : i \in 1..at /\ i # at
  BY <1>1, <1>2, CurrentIs DEF ProgressInv, Working
<1>4. IsLeg(optin) /\ optin.role = "optin"
  BY LegIs
<1> HIDE DEF optin
<1>5. /\ IsLegs(legs') /\ Len(legs') = Len(legs) + 1 /\ legs'[at] = optin
      /\ ToSet(legs') \subseteq ToSet(legs) \cup {optin}
  BY <1>2, <1>3, <1>4, InsertIs
<1>6. Plain(legs')
  <2>1. ~EscrowOnly(legs)
    BY <1>2, <1>3 DEF EscrowOnly, ToSet, Current
  <2>2. Plain(legs)
    BY <1>1, <2>1 DEF RoleInv
  <2>3. QED
    BY <1>4, <1>5, <2>2 DEF Plain
<1>7. at' \in 0..Len(legs') /\ at' > 0 /\ \A i \in landed : i \in 1..at' /\ i # at'
  BY <1>2, <1>3, <1>5
<1>8. legs'[at'].role # "setup"
  BY <1>2, <1>4, <1>5
<1>9. QED
  BY <1>2, <1>5, <1>6, <1>7, <1>8, QuietKeeps

LEMMA SendKeeps == EscrowInv /\ Send => EscrowInv'
<1> SUFFICES ASSUME EscrowInv, Send PROVE EscrowInv'
  OBVIOUS
<1>1. /\ ProgressInv /\ RoleInv /\ FlightInv /\ KeyInv
  BY DEF EscrowInv
<1>2. /\ stage = "submit" /\ stage' = "wait" /\ at' = at
      /\ legs' = [legs EXCEPT ![at].state = "sent"] /\ flying' = flying \cup {Group}
      /\ UNCHANGED <<number, call, gaps, record, escrows, landed, secret>>
  BY DEF Send, Sendable, Mark
<1>3. /\ IsLegs(legs) /\ at \in DOMAIN legs /\ at \in Nat /\ at > 0 /\ Len(legs) \in Nat
      /\ at <= Len(legs) /\ \A i \in landed : i \in 1..at /\ i # at
  BY <1>1, <1>2, CurrentIs DEF ProgressInv, Working
<1>4. Alike(legs, legs')
  BY <1>2, <1>3, MarkIs
<1>5. /\ IsLegs(legs') /\ Len(legs') = Len(legs)
      /\ (Plain(legs) => Plain(legs')) /\ (EscrowOnly(legs) => EscrowOnly(legs'))
      /\ legs'[at].role = legs[at].role /\ legs'[at].assets = legs[at].assets
  BY <1>3, <1>4, AlikeKeeps DEF Alike
<1>6. /\ Current'.role = Current.role /\ Current'.assets = Current.assets
      /\ Group' = Group
  BY <1>2, <1>5 DEF Current, Group
<1>7. ProgressInv'
  <2>1. at' \in 0..Len(legs') /\ at' > 0
    BY <1>2, <1>3, <1>5
  <2>2. QED
    BY <1>1, <1>2, <1>3, <1>5, <2>1 DEF ProgressInv, Stages, Working, Saving
<1>8. Current.role = "setup" => secret = number
  BY <1>1, <1>2 DEF RoleInv, Working
<1>9. RoleInv'
  <2>1. Sequential' <=> Sequential
    BY <1>2 DEF Sequential, Main
  <2>2. QED
    BY <1>1, <1>2, <1>5, <1>6, <1>8, <2>1 DEF RoleInv, Saving, Working, Escrows
<1>10. FlightInv'
  <2>1. \A g \in flying : g.number \in gaps
    BY <1>1, <1>2, NothingAwaited
  <2>2. /\ Group.number = number /\ (Group.role = "setup" => Group.escrow = Group.number)
        /\ number \in 1..number /\ at \notin landed
    BY <1>1, <1>2, <1>3, <1>8 DEF Group, ProgressInv
  <2>3. ASSUME NEW g \in flying'
        PROVE  /\ g.number \in 1..number' /\ (g.role = "setup" => g.escrow = g.number)
               /\ g.number \notin gaps' => stage' = "wait" /\ g = Group' /\ at' \notin landed'
    <3>1. CASE g \in flying
      BY <1>1, <1>2, <2>1, <3>1 DEF FlightInv
    <3>2. CASE g = Group
      BY <1>2, <1>6, <2>2, <3>2
    <3>3. QED
      BY <1>2, <3>1, <3>2
  <2>4. QED
    BY <2>3 DEF FlightInv
<1>11. KeyInv'
  <2>1. at \notin landed
    BY <1>3
  <2>2. QED
    BY <1>1, <1>2, <1>6, <2>1 DEF KeyInv, Saving, Escrows
<1>12. QED
  BY <1>7, <1>9, <1>10, <1>11 DEF EscrowInv

LEMMA PostKeeps == EscrowInv /\ Post => EscrowInv'
<1> SUFFICES ASSUME EscrowInv, Post PROVE EscrowInv'
  OBVIOUS
<1>1. ProgressInv /\ stage = "submit" /\ Current.role = "post"
  BY DEF EscrowInv, Post
<1>2. Alike(legs, Mark(at, "confirmed"))
  BY <1>1, CurrentIs, MarkIs DEF Mark, ProgressInv, Working
<1>3. Advance(Mark(at, "confirmed")) /\ UNCHANGED <<number, call, gaps, record, chain>>
  BY DEF Post
<1>4. UNCHANGED <<flying, landed, escrows>>
  BY <1>3 DEF chain
<1>5. QED
  BY <1>1, <1>2, <1>3, <1>4, AdvanceKeeps

LEMMA LandKeeps ==
  ASSUME EscrowInv, NEW g \in flying, Land(g)
  PROVE  EscrowInv'
<1>1. /\ ProgressInv /\ RoleInv /\ FlightInv /\ KeyInv
  BY DEF EscrowInv
<1>2. /\ flying' = flying \ {g}
      /\ landed' = landed \cup (IF g.number = number /\ call # Null THEN {g.leg} ELSE {})
      /\ escrows' = escrows \cup (IF g.role = "setup" THEN {g.escrow} ELSE {})
      /\ UNCHANGED <<call, number, stage, legs, at, secret, record, gaps>>
  BY DEF Land, work
<1>3. /\ g.number \in 1..number /\ (g.role = "setup" => g.escrow = g.number)
      /\ g.number \notin gaps => stage = "wait" /\ g = Group /\ at \notin landed
  BY <1>1 DEF FlightInv
<1>4. stage # "idle" /\ g.number = number => stage = "wait" /\ g = Group
  BY <1>1, <1>3 DEF ProgressInv
<1>5. Group.leg = at /\ Group.role = Current.role /\ Group.number = number /\ Group.escrow = secret
  BY DEF Group
<1>6. stage = "wait" => at \in 1..at
  BY <1>1, CurrentIs DEF Working
<1>7. ProgressInv'
  <2>1. stage # "idle" => \A i \in landed' : i \in 1..at /\ (stage = "submit" => i # at)
    <3> SUFFICES ASSUME stage # "idle", NEW i \in landed'
                 PROVE i \in 1..at /\ (stage = "submit" => i # at)
      OBVIOUS
    <3>1. CASE i \in landed
      BY <1>1, <3>1 DEF ProgressInv
    <3>2. CASE i \notin landed
      <4>1. g.number = number /\ i = g.leg
        BY <1>2, <3>2
      <4>2. QED
        BY <1>4, <1>5, <1>6, <4>1
    <3>3. QED
      BY <3>1, <3>2
  <2>2. stage # "prepare" \/ landed' = {}
    BY <1>1, <1>2, <1>4 DEF ProgressInv
  <2>3. QED
    BY <1>1, <1>2, <2>1, <2>2 DEF ProgressInv
<1>8. RoleInv'
  <2>1. (Sequential' <=> Sequential) /\ Current' = Current
    BY <1>2 DEF Sequential, Main, Current
  <2>2. QED
    BY <1>1, <1>2, <2>1 DEF RoleInv, Escrows
<1>9. FlightInv'
  <2>1. Group' = Group
    BY <1>2 DEF Group, Current
  <2>2. ASSUME NEW h \in flying'
        PROVE  /\ h.number \in 1..number /\ (h.role = "setup" => h.escrow = h.number)
               /\ h.number \notin gaps => stage = "wait" /\ h = Group /\ at \notin landed'
    <3>1. /\ h \in flying /\ h # g
          /\ h.number \in 1..number /\ (h.role = "setup" => h.escrow = h.number)
          /\ h.number \notin gaps => stage = "wait" /\ h = Group /\ at \notin landed
      BY <1>1, <1>2 DEF FlightInv
    <3>2. h.number \notin gaps => g.number # number
      BY <1>4, <3>1
    <3>3. QED
      BY <1>2, <3>1, <3>2
  <2>3. QED
    BY <1>2, <2>1, <2>2 DEF FlightInv
<1>10. KeyInv'
  <2>1. Current' = Current
    BY <1>2 DEF Current
  <2>2. g.role = "setup" /\ g.number \notin gaps =>
          /\ g.escrow = secret /\ stage = "wait" /\ Current.role = "setup" /\ g.number = number
    BY <1>3, <1>5
  <2>3. escrows' \subseteq 1..number
    BY <1>1, <1>2, <1>3 DEF KeyInv
  <2>4. \A e \in escrows' : e \notin gaps => e = record \/ e = secret
    BY <1>1, <1>2, <1>3, <2>2 DEF KeyInv
  <2>5. number \in escrows' /\ number \notin gaps =>
          record = number \/ stage \in Saving \/ (stage = "wait" /\ Current.role = "setup")
    BY <1>1, <1>2, <1>3, <2>2 DEF KeyInv
  <2>6. stage = "wait" /\ Current.role = "setup" /\ at \in landed' => number \in escrows'
    <3> SUFFICES ASSUME stage = "wait", Current.role = "setup", at \in landed'
                 PROVE number \in escrows'
      OBVIOUS
    <3>1. CASE at \in landed
      BY <1>1, <1>2, <3>1 DEF KeyInv
    <3>2. CASE at \notin landed
      <4>1. g.number = number
        BY <1>2, <3>2
      <4>2. g = Group
        BY <1>4, <4>1
      <4>3. g.role = "setup" /\ g.escrow = number
        BY <1>3, <1>5, <4>1, <4>2
      <4>4. QED
        BY <1>2, <4>3
    <3>3. QED
      BY <3>1, <3>2
  <2>7. escrows \subseteq escrows'
    BY <1>2
  <2>8. QED
    BY <1>1, <1>2, <2>1, <2>3, <2>4, <2>5, <2>6, <2>7 DEF KeyInv, Escrows
<1>11. QED
  BY <1>7, <1>8, <1>9, <1>10 DEF EscrowInv

LEMMA ConfirmKeeps == EscrowInv /\ Confirm => EscrowInv'
<1> SUFFICES ASSUME EscrowInv, Confirm PROVE EscrowInv'
  OBVIOUS
<1>1. ProgressInv /\ stage = "wait" /\ at \in landed /\ Current.role # "setup"
  BY DEF EscrowInv, Confirm, Confirms
<1>2. Alike(legs, Mark(at, "confirmed"))
  BY <1>1, CurrentIs, MarkIs DEF Mark, ProgressInv, Working
<1>3. Advance(Mark(at, "confirmed")) /\ UNCHANGED <<number, call, gaps, record, chain>>
  BY DEF Confirm
<1>4. UNCHANGED <<flying, landed, escrows>>
  BY <1>3 DEF chain
<1>5. QED
  BY <1>1, <1>2, <1>3, <1>4, AdvanceKeeps

-----------------------------------------------------------------------------
(* The store.                                                              *)

\* A step towards the end of saving the key of the call's own escrow.
LEMMA SavingKeeps ==
  ASSUME EscrowInv, Alike(legs, legs'), stage' \in Saving,
         stage \in Saving \/ (stage = "wait" /\ at \in landed /\ Current.role = "setup"),
         UNCHANGED <<number, call, gaps, flying, escrows, landed, secret, at>>,
         record' \in {record, Torn, secret}
  PROVE  EscrowInv'
<1>1. /\ ProgressInv /\ RoleInv /\ FlightInv /\ KeyInv
      /\ stage \in Working /\ stage' \in Working
  BY DEF EscrowInv, Working, Saving
<1>2. Current.role = "setup" /\ secret = number /\ number \in escrows
  BY <1>1 DEF RoleInv, KeyInv
<1>3. at \in DOMAIN legs /\ at \in Nat /\ at > 0 /\ Len(legs) \in Nat /\ at <= Len(legs)
  BY <1>1, CurrentIs
<1>4. /\ IsLegs(legs') /\ Len(legs') = Len(legs) /\ Current'.role = "setup"
      /\ (Plain(legs) => Plain(legs')) /\ (EscrowOnly(legs) => EscrowOnly(legs'))
  BY <1>2, <1>3, AlikeKeeps DEF Alike, Current
<1>5. /\ number \in Escrows /\ Torn \notin Escrows /\ Null \notin Escrows
      /\ escrows \subseteq Escrows
  <2>1. number \in 1..number /\ number \in 0..MaxCalls /\ MaxCalls \in Nat
    BY <1>1, <1>2, ExecutionAssumption DEF ProgressInv, KeyInv
  <2>2. escrows \subseteq 1..number
    BY <1>1 DEF KeyInv
  <2>3. QED
    BY <2>1, <2>2, ExecutionAssumption DEF Escrows
<1>6. ~Plain(legs)
  BY <1>2, <1>3, PlainAt DEF Current
<1>7. record \notin Escrows \/ record = number
  BY <1>1, <1>6 DEF RoleInv
<1>8. record' \in {record, Torn, number}
  BY <1>2
<1>9. record' \notin Escrows \/ record' = number
  BY <1>5, <1>7, <1>8
<1>10. ProgressInv'
  BY <1>1, <1>3, <1>4 DEF ProgressInv, Stages, Saving, Working
<1>11. RoleInv'
  <2>1. Sequential' <=> Sequential
    BY DEF Sequential, Main
  <2>2. QED
    BY <1>1, <1>2, <1>4, <1>5, <1>6, <1>9, <2>1 DEF RoleInv, Saving, Escrows
<1>12. FlightInv'
  <2>1. \A g \in flying : g.number \in gaps'
    BY <1>1, NothingAwaited DEF Saving
  <2>2. number \in Nat /\ number' \in Nat /\ number <= number'
    BY <1>1, ExecutionAssumption DEF ProgressInv
  <2>3. QED
    BY <1>1, <2>1, <2>2, FlightKeeps
<1>13. KeyInv'
  <2>1. \A e \in escrows : e \notin gaps => e = secret
    BY <1>1, <1>2, <1>5, <1>7 DEF KeyInv
  <2>2. record' \in Escrows \cup {Null, Torn} /\ (record' \in Escrows => record' \in escrows)
    BY <1>1, <1>2, <1>5, <1>8, <1>9 DEF KeyInv
  <2>3. QED
    BY <1>1, <1>2, <2>1, <2>2 DEF KeyInv, Escrows, Saving
<1>14. QED
  BY <1>10, <1>11, <1>12, <1>13 DEF EscrowInv

LEMMA ConfirmSetupKeeps == EscrowInv /\ ConfirmSetup => EscrowInv'
<1> SUFFICES ASSUME EscrowInv, ConfirmSetup PROVE EscrowInv'
  OBVIOUS
<1>1. /\ ProgressInv /\ stage = "wait" /\ at \in landed /\ Current.role = "setup"
      /\ legs' = [legs EXCEPT ![at].state = "confirmed"] /\ stage' \in Saving
      /\ UNCHANGED <<number, call, gaps, flying, escrows, landed, secret, at, record>>
  BY DEF EscrowInv, ConfirmSetup, Confirms, Mark, Saving, chain
<1>2. Alike(legs, legs')
  BY <1>1, CurrentIs, MarkIs DEF ProgressInv, Working
<1>3. QED
  BY <1>1, <1>2, SavingKeeps

LEMMA StoreKeeps == EscrowInv /\ (OpenRecord \/ WriteRecord) => EscrowInv'
<1> SUFFICES ASSUME EscrowInv, OpenRecord \/ WriteRecord PROVE EscrowInv'
  OBVIOUS
<1>1. ProgressInv /\ RoleInv /\ KeyInv /\ IsLegs(legs)
  BY DEF EscrowInv, ProgressInv
<1>2. Alike(legs, legs)
  BY <1>1 DEF Alike
<1>3. CASE OpenRecord \/ (WriteRecord /\ stage = "write")
  <2>1. /\ stage \in Saving /\ stage' \in Saving /\ legs' = legs
        /\ UNCHANGED <<number, call, gaps, flying, escrows, landed, secret, at>>
        /\ record' \in {record, Torn, secret}
    BY <1>3 DEF OpenRecord, WriteRecord, Saving, work, chain
  <2>2. Alike(legs, legs')
    BY <1>2, <2>1
  <2>3. QED
    BY <2>1, <2>2, SavingKeeps
<1>4. CASE WriteRecord /\ stage # "write"
  <2>1. /\ stage = "rewrite" /\ record' = secret /\ Advance(legs)
        /\ UNCHANGED <<number, call, gaps, flying, escrows, landed>>
    BY <1>4 DEF WriteRecord, chain
  <2>2. secret = number
    BY <1>1, <2>1 DEF RoleInv, Working, Saving
  <2>3. QED
    BY <1>2, <2>1, <2>2, AdvanceKeeps
<1>5. QED
  BY <1>3, <1>4

-----------------------------------------------------------------------------
(* The theorem.                                                            *)

LEMMA EscrowInvInit == Init => EscrowInv
<1> SUFFICES ASSUME Init PROVE EscrowInv
  OBVIOUS
<1>1. IsLegs(<<>>) /\ Len(<<>>) = 0 /\ Plain(<<>>)
  BY NoLegs, NoLegsIsPlain
<1>2. ProgressInv
  BY <1>1, ExecutionAssumption DEF Init, ProgressInv, Stages, Working, Saving
<1>3. RoleInv
  BY <1>1 DEF Init, RoleInv, Working, Saving
<1>4. FlightInv
  BY DEF Init, FlightInv
<1>5. KeyInv
  BY ExecutionAssumption DEF Init, KeyInv, Escrows, Saving
<1>6. QED
  BY <1>2, <1>3, <1>4, <1>5 DEF EscrowInv

LEMMA StutterKeeps == EscrowInv /\ UNCHANGED vars => EscrowInv'
<1> SUFFICES ASSUME EscrowInv, UNCHANGED vars PROVE EscrowInv'
  OBVIOUS
<1>1. /\ ProgressInv /\ RoleInv /\ FlightInv /\ KeyInv
      /\ UNCHANGED <<call, number, stage, legs, at, secret, record, flying, landed, escrows, gaps>>
  BY DEF EscrowInv, vars, work, chain
<1>2. (Sequential' <=> Sequential) /\ Current' = Current /\ Group' = Group
  BY <1>1 DEF Sequential, Main, Current, Group
<1>3. ProgressInv' /\ FlightInv'
  BY <1>1, <1>2 DEF ProgressInv, FlightInv
<1>4. RoleInv' /\ KeyInv'
  BY <1>1, <1>2 DEF RoleInv, KeyInv, Escrows
<1>5. QED
  BY <1>3, <1>4 DEF EscrowInv

LEMMA EscrowInvStep == EscrowInv /\ [Next]_vars => EscrowInv'
<1> SUFFICES ASSUME EscrowInv, [Next]_vars PROVE EscrowInv'
  OBVIOUS
<1>1. CASE NextCall
  BY <1>1, BeginKeeps DEF NextCall
<1>2. CASE PrepareClaims
  BY <1>2, PrepareClaimsKeeps
<1>3. CASE PrepareShape
  BY <1>3, PrepareShapeKeeps
<1>4. CASE QuoteSwap \/ QuoteClaims \/ QuoteShape \/ SkipDeployed
  BY <1>4, QuoteSwapKeeps, QuoteClaimsKeeps, QuoteShapeKeeps, SkipKeeps
<1>5. CASE \E compiled \in BOOLEAN : QuoteCompose(compiled)
  BY <1>5, QuoteComposeKeeps
<1>6. CASE Fails \/ GiveUp \/ SaveFails \/ Crash
  <2>1. stage # "idle" /\ (Throw \/ Crash)
    BY <1>6 DEF Fails, GiveUp, SaveFails, Crash
  <2>2. QED
    BY <1>6, <2>1, ThrowKeeps
<1>7. CASE OptInFirst \/ Send \/ Post
  BY <1>7, OptInFirstKeeps, SendKeeps, PostKeeps
<1>8. CASE \E g \in flying : Land(g)
  BY <1>8, LandKeeps
<1>9. CASE Confirm \/ ConfirmSetup \/ OpenRecord \/ WriteRecord
  BY <1>9, ConfirmKeeps, ConfirmSetupKeeps, StoreKeeps
<1>10. CASE Rest \/ UNCHANGED vars
  BY <1>10, StutterKeeps DEF Rest
<1>11. QED
  BY <1>1, <1>2, <1>3, <1>4, <1>5, <1>6, <1>7, <1>8, <1>9, <1>10 DEF Next

LEMMA EscrowInvHolds == Spec => []EscrowInv
  BY EscrowInvInit, EscrowInvStep, PTL DEF Spec

\* FolksEscrowStore and executeSequentialEscrowShapes: the key of an escrow that is
\* on chain is stored or in memory and there is one such escrow, unless its setup
\* crashed, was given up or could not be stored; a stored key has its escrow.
THEOREM NoEscrowIsLost == Spec => []EscrowIsSafe
<1>1. EscrowInv => EscrowIsSafe
  <2> SUFFICES ASSUME EscrowInv PROVE EscrowIsSafe
    OBVIOUS
  <2>1. RoleInv /\ KeyInv /\ ProgressInv
    BY DEF EscrowInv
  <2>2. escrows \ gaps \subseteq {record, secret} /\ (record \in Escrows => record \in escrows)
    BY <2>1 DEF KeyInv
  <2>3. escrows \subseteq Escrows /\ Null \notin Escrows
    <3>1. escrows \subseteq 1..number /\ number \in 0..MaxCalls /\ MaxCalls \in Nat
      BY <2>1, ExecutionAssumption DEF KeyInv, ProgressInv
    <3>2. QED
      BY <3>1, ExecutionAssumption DEF Escrows
  <2>4. \E x : escrows \ gaps \subseteq {x}
    <3>1. CASE record \in escrows
      <4>1. \A e \in escrows \ gaps : e = record
        BY <2>1, <2>2, <2>3, <3>1 DEF RoleInv
      <4>2. QED
        BY <4>1
    <3>2. CASE record \notin escrows
      <4>1. escrows \ gaps \subseteq {secret}
        BY <2>2, <3>2
      <4>2. QED
        BY <4>1
    <3>3. QED
      BY <3>1, <3>2
  <2>5. Cardinality(escrows \ gaps) <= 1
    <3>1. PICK x : escrows \ gaps \subseteq {x}
      BY <2>4
    <3>2. IsFiniteSet({x}) /\ Cardinality({x}) = 1
      BY FS_Singleton
    <3>3. QED
      BY <3>1, <3>2, FS_Subset
  <2>6. QED
    BY <2>2, <2>5 DEF EscrowIsSafe
<1>2. QED
  BY <1>1, EscrowInvHolds, PTL
-----------------------------------------------------------------------------
(* What a call answers.                                                    *)

Done == {"confirmed", "skipped"}
Open == {"todo", "sent"}

\* The groups up to k are done and the others are not.
DoneTo(ls, k) ==
    \A i \in DOMAIN ls : /\ i <= k => ls[i].state \in Done
                         /\ i > k => ls[i].state \in Open

\* What is marked as confirmed is on chain, or was posted.
Landed(ls) ==
    \A i \in DOMAIN ls :
      /\ ls[i].state = "confirmed" => i \in landed \/ ls[i].role = "post"
      /\ ls[i].role = "post" => call.kind = "claims"

\* The groups work for the action of the call.
ForMain(ls) ==
    call.kind \notin {"claims", "compose"} => \A i \in DOMAIN ls : ls[i].act = Main.id

\* Only a first group of its own opts a swap or a compose in.
OptsInFirst(ls) ==
    call.kind \notin {"shape", "claims"} =>
      \A i \in DOMAIN ls : IF ls[i].role = "optin" THEN i = 1 ELSE ls[i].assets = {}

Through == IF stage \in {"submit", "wait"} THEN at - 1 ELSE at

\* A swap or a compose that is quoted has at most its opt-in behind it.
AloneInv ==
    call.kind \notin {"shape", "claims"} =>
      /\ stage = "quote" => at = Len(legs) /\ (at > 0 => legs[at].role = "optin")
      /\ stage \in {"submit", "wait"} /\ legs[at].role = "optin" => at = Len(legs)

WorkInv ==
    /\ report = <<>>
    /\ DoneTo(legs, Through) /\ Landed(legs) /\ ForMain(legs) /\ OptsInFirst(legs)
    /\ AloneInv

\* During a call nothing is reported; what is reported after it is so.
TruthInv ==
    IF stage = "idle" THEN ConfirmedMeansLanded /\ LandedIsReported ELSE WorkInv

LEMMA LegParts ==
  \A a, r, q, s : /\ Leg(a, r, q, s).act = a /\ Leg(a, r, q, s).role = r
                  /\ Leg(a, r, q, s).assets = s /\ Leg(a, r, q, s).state = "todo"
                  /\ Leg(a, r, q, s).quote = q
  BY DEF Leg

\* Only the state of the group at i changes.
LEMMA MarkParts ==
  ASSUME NEW ls, IsLegs(ls), NEW i \in DOMAIN ls, NEW x,
         NEW ms, ms = [ls EXCEPT ![i].state = x]
  PROVE  /\ DOMAIN ms = DOMAIN ls /\ ms[i].state = x
         /\ \A j \in DOMAIN ls : /\ ms[j].act = ls[j].act /\ ms[j].role = ls[j].role
                                 /\ ms[j].assets = ls[j].assets
                                 /\ j # i => ms[j].state = ls[j].state
<1>1. IsLeg(ls[i])
  BY DEF IsLegs
<1>2. DOMAIN ms = DOMAIN ls /\ \A j \in DOMAIN ls : j # i => ms[j] = ls[j]
  OBVIOUS
<1>3. ms[i] = [ls[i] EXCEPT !.state = x]
  OBVIOUS
<1>4. ms[i] = [act |-> ls[i].act, role |-> ls[i].role, quote |-> ls[i].quote,
               assets |-> ls[i].assets, state |-> x]
  BY <1>1, <1>3 DEF IsLeg
<1>5. QED
  BY <1>2, <1>4

LEMMA MarkQuotes ==
  ASSUME NEW ls, IsLegs(ls), NEW i \in DOMAIN ls, NEW x,
         NEW ms, ms = [ls EXCEPT ![i].state = x]
  PROVE  \A j \in DOMAIN ls : ms[j].quote = ls[j].quote
<1>1. IsLeg(ls[i])
  BY DEF IsLegs
<1>2. \A j \in DOMAIN ls : j # i => ms[j] = ls[j]
  OBVIOUS
<1>3. ms[i] = [ls[i] EXCEPT !.state = x]
  OBVIOUS
<1>4. ms[i] = [act |-> ls[i].act, role |-> ls[i].role, quote |-> ls[i].quote,
               assets |-> ls[i].assets, state |-> x]
  BY <1>1, <1>3 DEF IsLeg
<1>5. QED
  BY <1>2, <1>4

LEMMA InsertParts ==
  ASSUME NEW ls, IsLegs(ls), NEW i \in DOMAIN ls, NEW g,
         NEW ms, ms = InsertAt(ls, i, g)
  PROVE  /\ DOMAIN ms = 1..(Len(ls) + 1)
         /\ \A j \in DOMAIN ms :
              ms[j] = IF j < i THEN ls[j] ELSE IF j = i THEN g ELSE ls[j - 1]
<1>1. Len(ls) \in Nat /\ DOMAIN ls = 1..Len(ls) /\ i \in 1..Len(ls)
  BY LenIs
<1>2. PICK S : ls \in Seq(S)
  BY DEF IsLegs
<1>3. PICK T : T = S \cup {g}
  OBVIOUS
<1>4. ls \in Seq(T) /\ \A j \in 1..Len(ls) : ls[j] \in T
  BY <1>2, <1>3, SeqMonotonic, ElementOfSeq
<1>5. PICK first : first = SubSeq(ls, 1, i - 1)
  OBVIOUS
<1>6. PICK rest : rest = SubSeq(ls, i, Len(ls))
  OBVIOUS
<1>7. first \in Seq(T) /\ Len(first) = i - 1 /\ \A j \in 1..(i - 1) : first[j] = ls[j]
  <2>1. 1 \in Int /\ i - 1 \in Int /\ \A j \in 1..(i - 1) : ls[j] \in T
    BY <1>1, <1>4
  <2>2. /\ first \in Seq(T) /\ Len(first) = IF 1 <= i - 1 THEN i - 1 - 1 + 1 ELSE 0
        /\ \A j \in 1..i - 1 - 1 + 1 : first[j] = ls[1 + j - 1]
    BY <1>5, <2>1, SubSeqProperties
  <2>3. QED
    BY <1>1, <2>2
<1>8. rest \in Seq(T) /\ Len(rest) = Len(ls) - i + 1
      /\ \A j \in 1..(Len(ls) - i + 1) : rest[j] = ls[i + j - 1]
  <2>1. i \in Int /\ Len(ls) \in Int /\ \A j \in i..Len(ls) : ls[j] \in T
    BY <1>1, <1>4
  <2>2. /\ rest \in Seq(T) /\ Len(rest) = IF i <= Len(ls) THEN Len(ls) - i + 1 ELSE 0
        /\ \A j \in 1..Len(ls) - i + 1 : rest[j] = ls[i + j - 1]
    BY <1>6, <2>1, SubSeqProperties
  <2>3. QED
    BY <1>1, <2>2
<1>9. PICK front : front = first \o <<g>>
  OBVIOUS
<1>10. /\ front \in Seq(T) /\ Len(front) = i /\ front[i] = g
       /\ \A j \in 1..(i - 1) : front[j] = ls[j]
  <2>1. <<g>> \in Seq(T) /\ Len(<<g>>) = 1 /\ <<g>>[1] = g
    BY <1>3
  <2>2. /\ front \in Seq(T) /\ Len(front) = Len(first) + 1
        /\ \A j \in 1..(Len(first) + 1) :
             front[j] = IF j <= Len(first) THEN first[j] ELSE <<g>>[j - Len(first)]
    BY <1>7, <1>9, <2>1, ConcatProperties
  <2>3. Len(front) = i
    BY <1>1, <1>7, <2>2
  <2>4. front[i] = g
    <3>1. i \in 1..(Len(first) + 1) /\ ~(i <= Len(first)) /\ i - Len(first) = 1
      BY <1>1, <1>7
    <3>2. front[i] = <<g>>[i - Len(first)]
      BY <2>2, <3>1
    <3>3. QED
      BY <2>1, <3>1, <3>2
  <2>5. ASSUME NEW j \in 1..(i - 1) PROVE front[j] = ls[j]
    <3>1. j \in 1..(Len(first) + 1) /\ j <= Len(first)
      BY <1>1, <1>7
    <3>2. QED
      BY <1>7, <2>2, <3>1
  <2>6. QED
    BY <2>2, <2>3, <2>4, <2>5
<1>11. ms = front \o rest
  BY <1>5, <1>6, <1>9 DEF InsertAt
<1>12. /\ ms \in Seq(T) /\ Len(ms) = Len(front) + Len(rest)
       /\ \A j \in 1..(Len(front) + Len(rest)) :
            ms[j] = IF j <= Len(front) THEN front[j] ELSE rest[j - Len(front)]
  <2>1. front \in Seq(T) /\ rest \in Seq(T)
    BY <1>8, <1>10
  <2>2. QED
    BY <1>11, <2>1, ConcatProperties
<1>13. DOMAIN ms = 1..(Len(ls) + 1)
  BY <1>1, <1>8, <1>10, <1>12, LenProperties
<1>14. ASSUME NEW j \in 1..(Len(ls) + 1)
       PROVE  ms[j] = IF j < i THEN ls[j] ELSE IF j = i THEN g ELSE ls[j - 1]
  <2>1. CASE j <= i
    <3>1. ms[j] = front[j] /\ (j < i => j \in 1..(i - 1)) /\ (~(j < i) => j = i)
      BY <1>1, <1>8, <1>10, <1>12, <2>1
    <3>2. QED
      BY <1>10, <3>1
  <2>2. CASE j > i
    <3>1. j - i \in 1..(Len(ls) - i + 1) /\ i + (j - i) - 1 = j - 1
      BY <1>1, <2>2
    <3>2. ms[j] = rest[j - i]
      BY <1>1, <1>8, <1>10, <1>12, <2>2
    <3>3. QED
      BY <1>1, <1>8, <2>2, <3>1, <3>2
  <2>3. QED
    BY <1>1, <2>1, <2>2
<1>15. QED
  BY <1>13, <1>14

\* Groups that are put behind those of a call.
LEMMA JoinParts ==
  ASSUME NEW ls, NEW ms, IsLegs(ls), IsLegs(ms), NEW all, all = ls \o ms
  PROVE  /\ DOMAIN all = 1..(Len(ls) + Len(ms))
         /\ \A i \in DOMAIN all : IF i <= Len(ls) THEN i \in DOMAIN ls /\ all[i] = ls[i]
                                  ELSE i - Len(ls) \in DOMAIN ms /\ all[i] = ms[i - Len(ls)]
<1>1. PICK S : ls \in Seq(S)
  BY DEF IsLegs
<1>2. PICK T : ms \in Seq(T)
  BY DEF IsLegs
<1>3. ls \in Seq(S \cup T) /\ ms \in Seq(S \cup T)
  BY <1>1, <1>2, SeqMonotonic
<1>4. /\ all \in Seq(S \cup T) /\ Len(all) = Len(ls) + Len(ms)
      /\ \A i \in 1..(Len(ls) + Len(ms)) :
            all[i] = IF i <= Len(ls) THEN ls[i] ELSE ms[i - Len(ls)]
  BY <1>3, ConcatProperties
<1>5. /\ Len(ls) \in Nat /\ DOMAIN ls = 1..Len(ls)
      /\ Len(ms) \in Nat /\ DOMAIN ms = 1..Len(ms)
  BY LenIs
<1>6. DOMAIN all = 1..(Len(ls) + Len(ms))
  BY <1>4, LenProperties
<1>7. QED
  BY <1>4, <1>5, <1>6

-----------------------------------------------------------------------------
(* The end of a call.                                                      *)

\* All groups are done.
LEMMA EndsWell ==
  ASSUME NEW ls, Finish(ls, FALSE), legs' = ls, landed' = landed, call' = call,
         number' = number, Landed(ls), \A i \in DOMAIN ls : ls[i].state \in Done
  PROVE  TruthInv'
<1>1. /\ stage' = "idle" /\ report' = [id \in Answered |-> Outcome(ls, id, FALSE)]
  BY DEF Finish
<1>2. ASSUME NEW id \in DOMAIN report', report'[id] = "confirmed"
      PROVE  IF call.kind = "claims"
             THEN \E i \in LegsOf(id)' : i \in landed \/ ls[i].role = "post"
             ELSE LegsOf(id)' \subseteq landed
  <2>1. LegsOf(id)' = {i \in DOMAIN ls : ls[i].act = id /\ ls[i].state # "skipped"}
    BY DEF LegsOf
  <2>2. Outcome(ls, id, FALSE) = "confirmed"
    BY <1>1, <1>2
  <2>3. CASE call.kind = "claims"
    <3>1. Confirmed(ls, id)
      BY <2>2, <2>3 DEF Outcome, ClaimOutcome
    <3>2. QED
      BY <2>1, <2>3, <3>1 DEF Confirmed, Landed
  <2>4. CASE call.kind # "claims"
    BY <2>1, <2>4 DEF Landed, Done
  <2>5. QED
    BY <2>3, <2>4
<1>3. ASSUME NEW id \in DOMAIN report', LegsOf(id)' # {}
      PROVE  report'[id] = "confirmed"
  <2>1. LegsOf(id)' = {i \in DOMAIN ls : ls[i].act = id /\ ls[i].state # "skipped"}
    BY DEF LegsOf
  <2>2. Confirmed(ls, id)
    BY <1>3, <2>1 DEF Confirmed, Done
  <2>3. Outcome(ls, id, FALSE) = "confirmed"
    BY <2>2 DEF Outcome, ClaimOutcome, ComposeOutcome, ActionOutcome
  <2>4. QED
    BY <1>1, <2>3
<1>4. ConfirmedMeansLanded'
  BY <1>2 DEF ConfirmedMeansLanded
<1>5. LandedIsReported'
  BY <1>3 DEF LandedIsReported
<1>6. QED
  BY <1>1, <1>4, <1>5 DEF TruthInv

\* An exception.
LEMMA EndsBadly ==
  ASSUME ProgressInv, WorkInv, Throw, stage # "idle",
         landed' = landed, call' = call, number' = number,
         stage \in {"prepare", "quote", "submit"} \/ number \in gaps'
  PROVE  TruthInv'
<1>1. /\ stage' = "idle" /\ report' = [id \in Answered |-> Outcome(legs, id, TRUE)]
      /\ legs' = legs /\ at' = at /\ call \in Calls
  BY DEF Throw, Finish, ProgressInv
<1>2. /\ DoneTo(legs, Through) /\ Landed(legs) /\ ForMain(legs) /\ OptsInFirst(legs) /\ AloneInv
      /\ IsLegs(legs) /\ Len(legs) \in Nat /\ DOMAIN legs = 1..Len(legs) /\ at \in 0..Len(legs)
      /\ \A i \in landed : i \in 1..at /\ (stage = "submit" => i # at)
  BY LenIs DEF WorkInv, ProgressInv
<1>3. \A id : LegsOf(id)' = {i \in DOMAIN legs : legs[i].act = id /\ legs[i].state # "skipped"}
  BY <1>1 DEF LegsOf
<1>4. \A id : Outcome(legs, id, TRUE) = "confirmed" => call.kind = "claims" /\ Confirmed(legs, id)
  BY DEF Outcome, ClaimOutcome, ComposeOutcome, ActionOutcome
<1>5. ConfirmedMeansLanded'
  <2> SUFFICES ASSUME NEW id \in DOMAIN report', report'[id] = "confirmed"
               PROVE  IF call.kind = "claims"
                      THEN \E i \in LegsOf(id)' : i \in landed \/ legs[i].role = "post"
                      ELSE LegsOf(id)' \subseteq landed
    BY <1>1 DEF ConfirmedMeansLanded
  <2>1. call.kind = "claims" /\ Confirmed(legs, id)
    BY <1>1, <1>4
  <2>2. QED
    BY <1>2, <1>3, <2>1 DEF Confirmed, Landed
<1>6. LandedIsReported'
  <2> SUFFICES ASSUME NEW id \in DOMAIN report', LegsOf(id)' # {}, LegsOf(id)' \subseteq landed,
                      Last(legs).role # "optin", number \notin gaps',
                      call.kind = "compose" => DOMAIN legs \subseteq landed
               PROVE  report'[id] = "confirmed"
    BY <1>1 DEF LandedIsReported
  <2>1. stage \in {"prepare", "quote", "submit"}
    OBVIOUS
  <2>2. PICK i \in DOMAIN legs : legs[i].act = id /\ legs[i].state # "skipped" /\ i \in landed
    BY <1>3
  <2>3. i \in 1..at /\ (stage = "submit" => i # at)
    BY <1>2, <2>2
  <2>4. CASE call.kind = "claims"
    <3>1. i <= Through
      BY <1>2, <2>1, <2>3 DEF Through
    <3>2. Confirmed(legs, id)
      BY <1>2, <2>2, <3>1 DEF DoneTo, Done, Confirmed
    <3>3. Outcome(legs, id, TRUE) = "confirmed"
      BY <2>4, <3>2 DEF Outcome, ClaimOutcome
    <3>4. QED
      BY <1>1, <3>3
  <2>5. CASE call.kind = "shape"
    <3>1. stage \in {"quote", "submit"} /\ id = Main.id
      BY <1>2, <2>1, <2>2, <2>3, <2>5 DEF ProgressInv, ForMain
    <3>2. PICK j \in DOMAIN legs : j > Through /\ j \notin landed
      <4>1. CASE stage = "quote"
        <5>1. at < Len(legs)
          BY <2>5, <4>1 DEF ProgressInv
        <5>2. at + 1 \in DOMAIN legs /\ at + 1 > Through /\ at + 1 \notin landed
          BY <1>2, <4>1, <5>1 DEF Through
        <5>3. QED
          BY <5>2
      <4>2. CASE stage = "submit"
        <5>1. at \in DOMAIN legs /\ at > Through /\ at \notin landed
          BY <1>2, <4>2 DEF Through, ProgressInv, Working
        <5>2. QED
          BY <5>1
      <4>3. QED
        BY <3>1, <4>1, <4>2
    <3>3. legs[j].act = id /\ legs[j].state # "skipped"
      BY <1>2, <2>5, <3>1, <3>2 DEF ForMain, DoneTo, Open
    <3>4. j \in LegsOf(id)'
      BY <1>3, <3>3
    <3>5. QED
      BY <3>2, <3>4
  <2>6. CASE call.kind \notin {"claims", "shape"}
    <3>1. CASE stage = "submit"
      <4>1. at \in DOMAIN legs /\ at > Through /\ at \notin landed
        BY <1>2, <3>1 DEF Through, ProgressInv, Working
      <4>2. call.kind # "compose" /\ id = Main.id
        BY <1>2, <2>2, <2>6, <4>1 DEF ForMain
      <4>3. legs[at].act = id /\ legs[at].state # "skipped"
        BY <1>2, <2>6, <4>1, <4>2 DEF ForMain, DoneTo, Open
      <4>4. at \in LegsOf(id)'
        BY <1>3, <4>1, <4>3
      <4>5. QED
        BY <4>1, <4>4
    <3>2. CASE stage = "quote"
      <4>1. at > 0
        BY <1>2, <2>3
      <4>2. at = Len(legs) /\ legs[at].role = "optin"
        BY <1>2, <2>6, <3>2, <4>1 DEF AloneInv
      <4>3. QED
        BY <4>2 DEF Last
    <3>3. CASE stage = "prepare"
      BY <2>3, <3>3, <1>2 DEF ProgressInv
    <3>4. QED
      BY <2>1, <3>1, <3>2, <3>3
  <2>7. QED
    BY <2>4, <2>5, <2>6
<1>7. QED
  BY <1>1, <1>5, <1>6 DEF TruthInv

-----------------------------------------------------------------------------
(* Every step tells the truth.                                             *)

\* Nothing is reported, whether the call began anew or crashed.
LEMMA NothingTold ==
  ASSUME stage' = "idle",
         report' = <<>> \/ (legs' = <<>> /\ \A id \in DOMAIN report' : report'[id] # "confirmed")
  PROVE  TruthInv'
<1>1. DOMAIN <<>> = {}
  BY NoLegs
<1>2. ASSUME NEW id \in DOMAIN report' PROVE LegsOf(id)' = {} /\ report'[id] # "confirmed"
  BY <1>1, <1>2 DEF LegsOf
<1>3. ConfirmedMeansLanded' /\ LandedIsReported'
  BY <1>2 DEF ConfirmedMeansLanded, LandedIsReported
<1>4. QED
  BY <1>3 DEF TruthInv

LEMMA BeginTells ==
  ASSUME stage = "idle", NEW c \in Calls, AnswerAtOnce(c) \/ StartCall(c)
  PROVE  TruthInv'
<1>1. legs' = <<>> /\ at' = 0 /\ landed' = {} /\ DOMAIN <<>> = {} /\ Len(<<>>) = 0
  BY NoLegs DEF AnswerAtOnce, StartCall, Begin
<1>2. CASE AnswerAtOnce(c)
  <2>1. stage' = "idle" /\ \A id \in DOMAIN report' : report'[id] # "confirmed"
    BY <1>2 DEF AnswerAtOnce, Begin
  <2>2. QED
    BY <1>1, <2>1, NothingTold
<1>3. CASE StartCall(c)
  <2>1. stage' \in {"prepare", "quote"} /\ report' = <<>>
    BY <1>3 DEF StartCall
  <2>2. DoneTo(legs, Through)' /\ Landed(legs)' /\ ForMain(legs)' /\ OptsInFirst(legs)'
    BY <1>1 DEF DoneTo, Landed, ForMain, OptsInFirst
  <2>3. AloneInv'
    BY <1>1, <2>1 DEF AloneInv
  <2>4. QED
    BY <2>1, <2>2, <2>3 DEF TruthInv, WorkInv
<1>4. QED
  BY <1>2, <1>3

\* Groups that were just planned.
LEMMA PlannedTells ==
  ASSUME IsLegs(legs'), stage' = "quote", at' = 0, report' = <<>>, call' = call,
         call.kind \in {"shape", "claims"},
         \A i \in DOMAIN legs' :
           /\ legs'[i].state = "todo"
           /\ legs'[i].role = "post" => call.kind = "claims"
           /\ call.kind # "claims" => legs'[i].act = Main.id
  PROVE  TruthInv'
<1>1. Through' = 0 /\ Main' = Main /\ \A i \in DOMAIN legs' : i > 0
  BY LenIs DEF Through, Main
<1>2. DoneTo(legs, Through)' /\ Landed(legs)' /\ ForMain(legs)' /\ OptsInFirst(legs)' /\ AloneInv'
  BY <1>1 DEF DoneTo, Landed, ForMain, OptsInFirst, AloneInv, Open
<1>3. QED
  BY <1>2 DEF TruthInv, WorkInv

LEMMA PrepareClaimsTells ==
  ASSUME ProgressInv, ProgressInv', WorkInv, PrepareClaims
  PROVE  TruthInv'
<1> DEFINE planned == PlanClaims(call.acts, Desk).planned
           role == IF call.analytics THEN "post" ELSE "claim"
           receive(id) == UNION {Receivable(a, call.shapes, Native) :
                                   a \in {b \in ToSet(call.acts) : b.id = id}}
<1>1. /\ stage = "prepare" /\ call.kind = "claims" /\ at = 0 /\ call \in Calls /\ legs = <<>>
      /\ call' = call /\ at' = at /\ landed' = landed /\ number' = number /\ report = <<>>
      /\ \/ /\ legs' = [i \in DOMAIN planned |-> Leg(planned[i].act, role,
                     planned[i].quote, receive(planned[i].act))]
            /\ IF planned = <<>> THEN Finish(<<>>, FALSE)
               ELSE stage' = "quote" /\ UNCHANGED <<secret, report>>
         \/ stage' = "idle" /\ UNCHANGED <<legs, secret, report>>
  BY DEF PrepareClaims, ProgressInv, WorkInv, chain
<1>2. IsLegs(legs')
  BY DEF ProgressInv
<1>3. CASE stage' = "idle" /\ UNCHANGED <<legs, secret, report>>
  BY <1>1, <1>3, NothingTold
<1>4. CASE /\ legs' = [i \in DOMAIN planned |-> Leg(planned[i].act, role,
                     planned[i].quote, receive(planned[i].act))]
           /\ IF planned = <<>> THEN Finish(<<>>, FALSE)
              ELSE stage' = "quote" /\ UNCHANGED <<secret, report>>
  <2>1. DOMAIN legs' = DOMAIN planned /\ \A i \in DOMAIN legs' : legs'[i].state = "todo"
    BY <1>4, LegParts
  <2>2. CASE planned = <<>>
    <3>1. Finish(<<>>, FALSE) /\ DOMAIN legs' = {} /\ Len(legs') = 0
      <4>1. DOMAIN legs' = {}
        BY <2>1, <2>2, NoLegs
      <4>2. Len(legs') \in Nat /\ DOMAIN legs' = 1..Len(legs')
        BY <1>2, LenIs
      <4>3. Len(legs') = 0
        <5>1. Len(legs') > 0 => 1 \in DOMAIN legs'
          BY <4>2
        <5>2. QED
          BY <4>1, <4>2, <5>1
      <4>4. QED
        BY <1>4, <2>2, <4>1, <4>3
    <3>2. legs' = <<>>
      <4>1. PICK S : legs' \in Seq(S)
        BY <1>2 DEF IsLegs
      <4>2. QED
        BY <3>1, <4>1, EmptySeq
    <3>3. PICK ls : ls = <<>>
      OBVIOUS
    <3>4. Finish(ls, FALSE) /\ legs' = ls /\ DOMAIN ls = {}
      BY <3>1, <3>2, <3>3
    <3>5. Landed(ls) /\ \A i \in DOMAIN ls : ls[i].state \in Done
      BY <3>4 DEF Landed
    <3>6. QED
      BY <1>1, <3>4, <3>5, EndsWell
  <2>3. CASE planned # <<>>
    <3>1. stage' = "quote" /\ report' = <<>>
      BY <1>1, <1>4, <2>3
    <3>2. QED
      BY <1>1, <1>2, <2>1, <3>1, PlannedTells
  <2>4. QED
    BY <2>2, <2>3
<1>5. QED
  BY <1>1, <1>3, <1>4

\* The roles of a planned group.
LEMMA ShapeLegs ==
  /\ \A i \in DOMAIN EscrowLegs : /\ EscrowLegs[i].state = "todo" /\ EscrowLegs[i].act = Main.id
                                  /\ EscrowLegs[i].role # "post"
  /\ \A i \in DOMAIN BatchLegs : /\ BatchLegs[i].state = "todo" /\ BatchLegs[i].act = Main.id
                                 /\ BatchLegs[i].role # "post"
<1>1. \A i \in DOMAIN EscrowLegs : /\ EscrowLegs[i].state = "todo" /\ EscrowLegs[i].act = Main.id
                                   /\ EscrowLegs[i].role # "post"
  <2> DEFINE run == EscrowShapes(call.shapes, record \in Escrows,
                                 <<record, DepositAsset(Main, call.shapes)>> \in optedIn)
             ls == EscrowLegs
  <2>1. ls = [i \in DOMAIN run |-> Leg(Main.id, FolksRole(run[i]), run[i].key, {DepositAsset(Main, call.shapes)})]
    BY DEF EscrowLegs
  <2> HIDE DEF run, ls
  <2>2. \A i \in DOMAIN ls : ls[i] = Leg(Main.id, FolksRole(run[i]), run[i].key, {DepositAsset(Main, call.shapes)})
    BY <2>1
  <2>3. \A i \in DOMAIN ls : ls[i].state = "todo" /\ ls[i].act = Main.id /\ ls[i].role # "post"
    BY <2>2, LegParts, FolksRoles
  <2>4. QED
    BY <2>3 DEF ls
<1>2. \A i \in DOMAIN BatchLegs : /\ BatchLegs[i].state = "todo" /\ BatchLegs[i].act = Main.id
                                  /\ BatchLegs[i].role # "post"
  <2> DEFINE run == Sorted(QuotedShapes(Main, call.shapes))
             receive == Receivable(Main, call.shapes, Native)
             own == IF Main.type \in Enters THEN "enter" ELSE "exit"
             role(s) == IF ConfirmsFirst(s) THEN "deploy" ELSE own
             desk == IF Main.type = "claim" THEN PlanClaims(<<Main>>, Desk).planned ELSE <<>>
             ds == [i \in DOMAIN desk |-> Leg(Main.id, own, desk[i].quote, receive)]
             ls == [i \in DOMAIN run |-> Leg(Main.id, role(run[i]), run[i].key, receive)]
             one == Leg(Main.id, own, Main.key, receive)
  <2>1. BatchLegs = IF desk # <<>> THEN ds ELSE IF run = <<>> THEN <<one>> ELSE ls
    BY DEF BatchLegs
  <2>2. \A i \in DOMAIN ls : ls[i].state = "todo" /\ ls[i].act = Main.id /\ ls[i].role # "post"
    <3>1. \A i \in DOMAIN ls : ls[i] = Leg(Main.id, role(run[i]), run[i].key, receive)
      OBVIOUS
    <3>2. \A s : role(s) # "post"
      OBVIOUS
    <3> HIDE DEF ls, role, run, receive, own
    <3>3. QED
      BY <3>1, <3>2, LegParts
  <2>5. \A i \in DOMAIN ds : ds[i].state = "todo" /\ ds[i].act = Main.id /\ ds[i].role # "post"
    <3>1. \A i \in DOMAIN ds : ds[i] = Leg(Main.id, own, desk[i].quote, receive)
      OBVIOUS
    <3>2. own # "post"
      OBVIOUS
    <3> HIDE DEF ds, desk, receive, own
    <3>3. QED
      BY <3>1, <3>2, LegParts
  <2>3. \A i \in DOMAIN <<one>> : <<one>>[i].state = "todo" /\ <<one>>[i].act = Main.id
                                  /\ <<one>>[i].role # "post"
    <3>1. one.state = "todo" /\ one.act = Main.id /\ one.role # "post" /\ IsLeg(one)
      BY LegParts, LegIs
    <3> HIDE DEF one
    <3>2. \A i \in DOMAIN <<one>> : <<one>>[i] = one
      <4>1. ToSet(<<one>>) = {one}
        BY <3>1, OneLeg
      <4>2. QED
        BY <4>1 DEF ToSet
    <3>3. QED
      BY <3>1, <3>2
  <2> HIDE DEF ls, one, run, ds, desk
  <2>4. QED
    BY <2>1, <2>2, <2>3, <2>5
<1>3. QED
  BY <1>1, <1>2

LEMMA PrepareShapeTells ==
  ASSUME ProgressInv, ProgressInv', WorkInv, PrepareShape
  PROVE  TruthInv'
<1>1. /\ stage = "prepare" /\ call.kind = "shape" /\ at = 0 /\ IsLegs(legs') /\ report = <<>>
      /\ call' = call /\ landed' = landed /\ number' = number
  BY DEF PrepareShape, ProgressInv, WorkInv, chain
<1>2. CASE Throw
  BY <1>1, <1>2, EndsBadly
<1>3. CASE ~Throw
  <2>1. /\ legs' = IF Sequential THEN EscrowLegs ELSE BatchLegs
        /\ stage' = "quote" /\ at' = 0 /\ report' = <<>>
    BY <1>1, <1>3 DEF PrepareShape
  <2>2. \A i \in DOMAIN legs' : /\ legs'[i].state = "todo" /\ legs'[i].act = Main.id
                                /\ legs'[i].role # "post"
    BY <2>1, ShapeLegs
  <2>3. QED
    BY <1>1, <2>1, <2>2, PlannedTells
<1>4. QED
  BY <1>2, <1>3

\* The next group is quoted.
LEMMA QuotedTells ==
  ASSUME ProgressInv, ProgressInv', WorkInv, stage = "quote", stage' = "submit", at' = at + 1,
         UNCHANGED <<call, report, landed>>,
         DoneTo(legs', at), Landed(legs'), ForMain(legs'), OptsInFirst(legs'),
         call.kind \notin {"shape", "claims"} /\ legs'[at + 1].role = "optin" => at + 1 = Len(legs')
  PROVE  TruthInv'
<1>1. at \in Int /\ Main' = Main /\ Through' = at
  BY LenIs DEF ProgressInv, Main, Through
<1>2. DoneTo(legs, Through)' /\ Landed(legs)' /\ ForMain(legs)' /\ OptsInFirst(legs)'
  BY <1>1 DEF DoneTo, Landed, ForMain, OptsInFirst
<1>3. AloneInv'
  BY <1>1 DEF AloneInv
<1>4. report' = <<>>
  BY DEF WorkInv
<1>5. QED
  BY <1>2, <1>3, <1>4 DEF TruthInv, WorkInv

\* Groups put behind those of a swap or a compose.
LEMMA BehindTells ==
  ASSUME ProgressInv, WorkInv, stage = "quote", call.kind \notin {"shape", "claims"},
         NEW ms, IsLegs(ms), NEW all, all = legs \o ms,
         \A i \in DOMAIN ms : /\ ms[i].state = "todo" /\ ms[i].role \notin {"post", "optin"}
                              /\ ms[i].assets = {}
                              /\ call.kind # "compose" => ms[i].act = Main.id
  PROVE  DoneTo(all, at) /\ Landed(all) /\ ForMain(all) /\ OptsInFirst(all)
<1>1. /\ DoneTo(legs, at) /\ Landed(legs) /\ ForMain(legs) /\ OptsInFirst(legs) /\ at = Len(legs)
      /\ IsLegs(legs)
  BY DEF WorkInv, Through, AloneInv, ProgressInv
<1>2. /\ DOMAIN all = 1..(Len(legs) + Len(ms))
      /\ \A i \in DOMAIN all : IF i <= Len(legs) THEN i \in DOMAIN legs /\ all[i] = legs[i]
                               ELSE i - Len(legs) \in DOMAIN ms /\ all[i] = ms[i - Len(legs)]
  BY <1>1, JoinParts
<1>3. Len(legs) \in Nat /\ Len(ms) \in Nat
  BY <1>1, LenIs
<1>4. ASSUME NEW i \in DOMAIN all
      PROVE  /\ i <= at => i \in DOMAIN legs /\ all[i] = legs[i]
             /\ i > at => /\ all[i].state = "todo" /\ all[i].role \notin {"post", "optin"}
                          /\ all[i].assets = {} /\ (call.kind # "compose" => all[i].act = Main.id)
             /\ i <= at \/ i > at
  BY <1>1, <1>2, <1>3
<1>5. DoneTo(all, at)
  BY <1>1, <1>4 DEF DoneTo, Open
<1>6. Landed(all) /\ ForMain(all)
  BY <1>1, <1>4 DEF Landed, ForMain
<1>7. OptsInFirst(all)
  BY <1>1, <1>4 DEF OptsInFirst
<1>8. QED
  BY <1>5, <1>6, <1>7

\* The opt-in that a swap or a compose begins with.
LEMMA FirstTells ==
  ASSUME NEW ls, NEW a, NEW q, NEW s, ls = <<Leg(a, "optin", q, s)>>,
         call.kind # "compose" => a = Main.id
  PROVE  /\ DoneTo(ls, 0) /\ Landed(ls) /\ ForMain(ls) /\ OptsInFirst(ls)
         /\ Len(ls) = 1
<1>1. PICK g : g = Leg(a, "optin", q, s)
  OBVIOUS
<1>2. ls = <<g>> /\ IsLeg(g) /\ g.act = a /\ g.role = "optin" /\ g.state = "todo"
  BY <1>1, LegParts, LegIs
<1>3. IsLegs(ls) /\ Len(ls) = 1 /\ ToSet(ls) = {g}
  BY <1>2, OneLeg
<1>4. DOMAIN ls = 1..1 /\ \A i \in DOMAIN ls : ls[i] = g
  BY <1>3, LenIs DEF ToSet
<1>5. \A i \in DOMAIN ls : i = 1 /\ i > 0 /\ ~(i <= 0)
  BY <1>4
<1>6. QED
  BY <1>2, <1>3, <1>4, <1>5 DEF DoneTo, Landed, ForMain, OptsInFirst, Open

LEMMA QuoteSwapTells ==
  ASSUME ProgressInv, ProgressInv', WorkInv, QuoteSwap
  PROVE  TruthInv'
<1>1. /\ stage = "quote" /\ call.kind = "swap" /\ stage' = "submit" /\ at' = at + 1
      /\ UNCHANGED <<call, report, landed>>
      /\ legs' = IF at > 0 THEN Append(legs, Leg(Main.id, "swap", Null, {}))
                 ELSE IF Main.to \in optedIn \cup {Native} THEN <<Leg(Main.id, "swap", Null, {})>>
                 ELSE <<Leg(Main.id, "optin", Null, {Main.to})>>
  BY DEF QuoteSwap, Quoted, chain
<1>2. PICK g : g = Leg(Main.id, "swap", Null, {})
  OBVIOUS
<1>3. IsLeg(g) /\ g.act = Main.id /\ g.role = "swap" /\ g.state = "todo" /\ g.assets = {}
  BY <1>2, LegParts, LegIs
<1>4. PICK ms : ms = <<g>>
  OBVIOUS
<1>5. /\ IsLegs(ms) /\ Len(ms) = 1
      /\ \A i \in DOMAIN ms : ms[i] = g
  BY <1>3, <1>4, OneLeg DEF ToSet
<1>6. IsLegs(legs) /\ at = Len(legs) /\ Len(legs) \in Nat
  BY <1>1, LenIs DEF ProgressInv, WorkInv, AloneInv
<1>7. PICK S : legs \in Seq(S)
  BY <1>6 DEF IsLegs
<1>8. CASE legs' = legs \o ms
  <2>1. PICK all : all = legs \o ms
    OBVIOUS
  <2>2. \A i \in DOMAIN ms : /\ ms[i].state = "todo" /\ ms[i].role \notin {"post", "optin"}
                             /\ ms[i].assets = {}
                             /\ call.kind # "compose" => ms[i].act = Main.id
    BY <1>3, <1>5
  <2>3. DoneTo(all, at) /\ Landed(all) /\ ForMain(all) /\ OptsInFirst(all)
    BY <1>1, <1>5, <2>1, <2>2, BehindTells
  <2>4. Len(all) = at + 1
    <3>1. Len(legs \o ms) = Len(legs) + Len(ms)
      BY <1>5, <1>6, JoinIs
    <3>2. QED
      BY <1>5, <1>6, <2>1, <3>1
  <2>5. QED
    BY <1>1, <1>8, <2>1, <2>3, <2>4, QuotedTells
<1>9. CASE legs' # legs \o ms
  <2>1. Append(legs, g) = legs \o ms
    BY <1>4, <1>7
  <2>2. at = 0
    BY <1>1, <1>2, <1>6, <1>9, <2>1
  <2>3. legs = <<>>
    BY <1>6, <1>7, <2>2, EmptySeq
  <2>4. legs \o ms = ms
    BY <1>4, <2>3
  <2>5. PICK ls : ls = <<Leg(Main.id, "optin", Null, {Main.to})>>
    OBVIOUS
  <2>6. legs' = ls
    BY <1>1, <1>2, <1>4, <1>9, <2>2, <2>4, <2>5
  <2>7. DoneTo(ls, 0) /\ Landed(ls) /\ ForMain(ls) /\ OptsInFirst(ls) /\ Len(ls) = 1
    BY <2>5, FirstTells
  <2>8. QED
    BY <1>1, <2>2, <2>6, <2>7, QuotedTells
<1>10. QED
  BY <1>8, <1>9

LEMMA QuoteComposeTells ==
  ASSUME ProgressInv, ProgressInv', WorkInv, NEW compiled \in BOOLEAN, QuoteCompose(compiled)
  PROVE  TruthInv'
<1> DEFINE needed == {call.acts[2].to} \ (optedIn \cup {Native})
           more == IF compiled THEN <<Leg(call.acts[2].id, "swap", Null, {}),
                                      Leg(Main.id, "enter", Main.key, {})>>
                   ELSE <<Leg(Main.id, "enter", Main.key, {})>>
<1>1. /\ stage = "quote" /\ call.kind = "compose" /\ stage' = "submit" /\ at' = at + 1
      /\ UNCHANGED <<call, report, landed>>
      /\ legs' = IF at = 0 /\ needed # {} THEN <<Leg(Main.id, "optin", Null, needed)>>
                 ELSE legs \o more
  BY DEF QuoteCompose, Quoted, chain
<1>2. PICK g : g = Leg(call.acts[2].id, "swap", Null, {})
  OBVIOUS
<1>3. PICK h : h = Leg(Main.id, "enter", Main.key, {})
  OBVIOUS
<1>4. /\ IsLeg(g) /\ g.role = "swap" /\ g.state = "todo" /\ g.assets = {}
      /\ IsLeg(h) /\ h.role = "enter" /\ h.state = "todo" /\ h.assets = {}
  BY <1>2, <1>3, LegParts, LegIs
<1>5. PICK ms : ms = IF compiled THEN <<g, h>> ELSE <<h>>
  OBVIOUS
<1>6. /\ IsLegs(ms) /\ Len(ms) \in 1..2
      /\ \A i \in DOMAIN ms : ms[i] \in {g, h}
  <2>1. CASE compiled
    <3>1. ms = <<g, h>> /\ ms \in Seq({g, h}) /\ Len(ms) = 2
      BY <1>5, <2>1
    <3>2. DOMAIN ms = 1..2 /\ \A i \in DOMAIN ms : ms[i] \in {g, h}
      BY <3>1, LenProperties, ElementOfSeq
    <3>3. (\E S : ms \in Seq(S)) /\ \A i \in DOMAIN ms : IsLeg(ms[i])
      BY <1>4, <3>1, <3>2, Zenon
    <3>4. QED
      BY <3>1, <3>2, <3>3 DEF IsLegs
  <2>2. CASE ~compiled
    BY <1>4, <1>5, <2>2, OneLeg DEF ToSet
  <2>3. QED
    BY <2>1, <2>2
<1>7. IsLegs(legs) /\ at = Len(legs) /\ Len(legs) \in Nat
  BY <1>1, LenIs DEF ProgressInv, WorkInv, AloneInv
<1>8. CASE at = 0 /\ needed # {}
  <2>1. PICK ls : ls = <<Leg(Main.id, "optin", Null, needed)>>
    OBVIOUS
  <2>2. DoneTo(ls, 0) /\ Landed(ls) /\ ForMain(ls) /\ OptsInFirst(ls) /\ Len(ls) = 1
    BY <2>1, FirstTells
  <2>3. QED
    BY <1>1, <1>8, <2>1, <2>2, QuotedTells
<1>9. CASE ~(at = 0 /\ needed # {})
  <2>1. PICK all : all = legs \o ms
    OBVIOUS
  <2>2. legs' = all
    BY <1>1, <1>2, <1>3, <1>5, <1>9, <2>1
  <2>3. \A i \in DOMAIN ms : /\ ms[i].state = "todo" /\ ms[i].role \notin {"post", "optin"}
                             /\ ms[i].assets = {}
                             /\ call.kind # "compose" => ms[i].act = Main.id
    BY <1>1, <1>4, <1>6
  <2>4. DoneTo(all, at) /\ Landed(all) /\ ForMain(all) /\ OptsInFirst(all)
    BY <1>1, <1>6, <2>1, <2>3, BehindTells
  <2>5. all[at + 1].role # "optin"
    <3>1. /\ DOMAIN all = 1..(Len(legs) + Len(ms))
          /\ \A i \in DOMAIN all : IF i <= Len(legs) THEN i \in DOMAIN legs /\ all[i] = legs[i]
                             ELSE i - Len(legs) \in DOMAIN ms /\ all[i] = ms[i - Len(legs)]
      BY <1>6, <1>7, <2>1, JoinParts
    <3>2. at + 1 \in DOMAIN all /\ ~(at + 1 <= Len(legs))
      <4>1. Len(legs) \in Nat /\ Len(ms) \in Nat /\ at = Len(legs) /\ Len(ms) > 0
        BY <1>6, <1>7
      <4>2. at + 1 \in 1..(Len(legs) + Len(ms)) /\ ~(at + 1 <= Len(legs))
        BY ONLY <4>1
      <4>3. QED
        BY <3>1, <4>2
    <3>3. (at + 1) - Len(legs) \in DOMAIN ms /\ all[at + 1] = ms[(at + 1) - Len(legs)]
      BY <3>1, <3>2
    <3>4. QED
      BY <2>3, <3>3
  <2>6. QED
    BY <1>1, <2>2, <2>4, <2>5, QuotedTells
<1>10. QED
  BY <1>8, <1>9

LEMMA QuoteClaimsTells ==
  ASSUME ProgressInv, ProgressInv', WorkInv, QuoteClaims
  PROVE  TruthInv'
<1>1. /\ stage = "quote" /\ call.kind = "claims" /\ stage' = "submit" /\ at' = at + 1
      /\ UNCHANGED <<call, report, landed>>
      /\ \E q : legs' = [i \in DOMAIN legs |-> [legs[i] EXCEPT !.quote = q[i]]]
  BY QuotesMayMove DEF QuoteClaims, Quoted, chain
<1>2. DOMAIN legs' = DOMAIN legs /\ IsLegs(legs)
  BY <1>1 DEF ProgressInv
<1>3. ASSUME NEW i \in DOMAIN legs
      PROVE  legs'[i].role = legs[i].role /\ legs'[i].state = legs[i].state
  <2>1. PICK q : legs'[i] = [legs[i] EXCEPT !.quote = q]
    BY <1>1
  <2>2. IsLeg(legs[i])
    BY <1>2 DEF IsLegs
  <2>3. legs'[i] = [act |-> legs[i].act, role |-> legs[i].role, quote |-> q,
                    assets |-> legs[i].assets, state |-> legs[i].state]
    BY <2>1, <2>2 DEF IsLeg
  <2>4. QED
    BY <2>3
<1>4. DoneTo(legs, at) /\ Landed(legs)
  BY <1>1 DEF WorkInv, Through
<1>5. PICK ms : ms = legs'
  OBVIOUS
<1>6. DoneTo(ms, at) /\ Landed(ms) /\ ForMain(ms) /\ OptsInFirst(ms)
  <2>1. DoneTo(ms, at)
    BY <1>2, <1>3, <1>4, <1>5 DEF DoneTo
  <2>2. Landed(ms)
    BY <1>2, <1>3, <1>4, <1>5 DEF Landed
  <2>3. ForMain(ms) /\ OptsInFirst(ms)
    BY <1>1 DEF ForMain, OptsInFirst
  <2>4. QED
    BY <2>1, <2>2, <2>3
<1>7. QED
  BY <1>1, <1>5, <1>6, QuotedTells

LEMMA QuoteShapeTells ==
  ASSUME ProgressInv, ProgressInv', WorkInv, QuoteShape
  PROVE  TruthInv'
<1>1. /\ stage = "quote" /\ call.kind = "shape" /\ stage' = "submit" /\ at' = at + 1
      /\ UNCHANGED <<call, report, landed, legs>>
  BY DEF QuoteShape, Quoted, chain
<1>2. DoneTo(legs, at) /\ Landed(legs) /\ ForMain(legs) /\ OptsInFirst(legs)
  BY <1>1 DEF WorkInv, Through
<1>3. QED
  BY <1>1, <1>2, QuotedTells

LEMMA SkipTells ==
  ASSUME ProgressInv, ProgressInv', WorkInv, SkipDeployed
  PROVE  TruthInv'
<1>1. PICK ms : ms = [legs EXCEPT ![at + 1].state = "skipped"]
  OBVIOUS
<1>2. /\ stage = "quote" /\ call.kind = "shape" /\ at' = at + 1 /\ legs' = ms
      /\ UNCHANGED <<call, landed, number>>
      /\ IF at + 1 = Len(legs) THEN Finish(ms, FALSE) ELSE UNCHANGED <<stage, secret, report>>
  BY <1>1 DEF SkipDeployed, Mark, chain
<1>3. /\ IsLegs(legs) /\ Len(legs) \in Nat /\ DOMAIN legs = 1..Len(legs) /\ at \in 0..Len(legs)
      /\ at < Len(legs)
  BY <1>2, LenIs DEF ProgressInv
<1>4. at + 1 \in DOMAIN legs
  BY <1>3
<1>5. /\ DOMAIN ms = DOMAIN legs /\ ms[at + 1].state = "skipped"
      /\ \A j \in DOMAIN legs : /\ ms[j].act = legs[j].act /\ ms[j].role = legs[j].role
                                /\ ms[j].assets = legs[j].assets
                                /\ j # at + 1 => ms[j].state = legs[j].state
  BY <1>1, <1>3, <1>4, MarkParts
<1>6. DoneTo(legs, at) /\ Landed(legs) /\ ForMain(legs) /\ report = <<>>
  BY <1>2 DEF WorkInv, Through
<1>7. DoneTo(ms, at + 1)
  <2> SUFFICES ASSUME NEW i \in DOMAIN ms
               PROVE  /\ i <= at + 1 => ms[i].state \in Done
                      /\ i > at + 1 => ms[i].state \in Open
    BY DEF DoneTo
  <2>1. CASE i = at + 1
    BY <1>3, <1>5, <2>1 DEF Done
  <2>2. CASE i # at + 1
    <3>1. ms[i].state = legs[i].state /\ i \in DOMAIN legs
      BY <1>5, <2>2
    <3>2. (i <= at + 1 => i <= at) /\ (i > at + 1 => i > at)
      BY <1>3, <2>2, <3>1
    <3>3. QED
      BY <1>6, <3>1, <3>2 DEF DoneTo
  <2>3. QED
    BY <2>1, <2>2
<1>8. Landed(ms)
  BY <1>4, <1>5, <1>6 DEF Landed
<1>9. CASE at + 1 = Len(legs)
  <2>1. \A i \in DOMAIN ms : i <= at + 1
    BY <1>3, <1>5, <1>9
  <2>2. \A i \in DOMAIN ms : ms[i].state \in Done
    BY <1>7, <2>1 DEF DoneTo
  <2>3. QED
    BY <1>2, <1>8, <1>9, <2>2, EndsWell
<1>10. CASE at + 1 # Len(legs)
  <2>1. stage' = "quote" /\ report' = <<>> /\ Main' = Main
    BY <1>2, <1>6, <1>10 DEF Main
  <2>2. DoneTo(legs, Through)'
    BY <1>2, <1>7, <2>1 DEF Through
  <2>3. Landed(legs)'
    BY <1>2, <1>8 DEF Landed
  <2>4. ForMain(legs)'
    BY <1>2, <1>5, <1>6, <2>1 DEF ForMain
  <2>5. OptsInFirst(legs)' /\ AloneInv'
    BY <1>2 DEF OptsInFirst, AloneInv
  <2>6. QED
    BY <2>1, <2>2, <2>3, <2>4, <2>5 DEF TruthInv, WorkInv
<1>11. QED
  BY <1>9, <1>10

LEMMA ThrowTells ==
  ASSUME EscrowInv, WorkInv, Fails \/ GiveUp \/ SaveFails \/ Crash
  PROVE  TruthInv'
<1>1. ProgressInv
  BY DEF EscrowInv
<1>2. CASE Fails
  BY <1>1, <1>2, EndsBadly DEF Fails, chain
<1>3. CASE GiveUp
  <2>1. Throw /\ stage # "idle" /\ UNCHANGED <<landed, call, number>> /\ number \in gaps'
    BY <1>3 DEF GiveUp, chain
  <2>2. QED
    BY <1>1, <2>1, EndsBadly
<1>4. CASE SaveFails
  <2>1. Throw /\ stage # "idle" /\ UNCHANGED <<landed, call, number>> /\ number \in gaps'
    BY <1>4 DEF SaveFails, chain
  <2>2. QED
    BY <1>1, <2>1, EndsBadly
<1>5. CASE Crash
  BY <1>5, NothingTold DEF Crash
<1>6. QED
  BY <1>2, <1>3, <1>4, <1>5

-----------------------------------------------------------------------------
(* Submission and confirmation.                                            *)

LEMMA OptInFirstTells ==
  ASSUME ProgressInv, WorkInv, OptInFirst
  PROVE  TruthInv'
<1>1. PICK g : g = Leg(Current.act, "optin", Null, Missing)
  OBVIOUS
<1>2. PICK ms : ms = InsertAt(legs, at, g)
  OBVIOUS
<1>3. /\ stage = "submit" /\ stage' = "submit" /\ legs' = ms /\ at' = at /\ landed' = landed
      /\ call' = call /\ report' = report /\ NeedsOptInFirst
  BY <1>1, <1>2 DEF OptInFirst, chain
<1>4. g.act = Current.act /\ g.role = "optin" /\ g.state = "todo"
  BY <1>1, LegParts
<1>5. at \in DOMAIN legs /\ at \in Nat /\ at > 0 /\ Len(legs) \in Nat /\ IsLegs(legs)
      /\ DOMAIN legs = 1..Len(legs)
  BY <1>3, CurrentIs, LenIs DEF Working, ProgressInv
<1>6. /\ DOMAIN ms = 1..(Len(legs) + 1)
      /\ \A j \in DOMAIN ms :
           ms[j] = IF j < at THEN legs[j] ELSE IF j = at THEN g ELSE legs[j - 1]
  <2>1. IsLegs(legs) /\ at \in DOMAIN legs
    BY <1>5
  <2>2. QED
    BY ONLY <1>2, <2>1, InsertParts
<1>7. DoneTo(legs, at - 1) /\ Landed(legs) /\ ForMain(legs) /\ OptsInFirst(legs) /\ report = <<>>
  BY <1>3 DEF WorkInv, Through
<1>8. ASSUME NEW j \in DOMAIN ms
      PROVE  \/ j < at /\ j <= at - 1 /\ j \in DOMAIN legs /\ ms[j] = legs[j]
             \/ j = at /\ ms[j] = g
             \/ j > at /\ j - 1 \in DOMAIN legs /\ j - 1 > at - 1 /\ ms[j] = legs[j - 1]
  BY <1>5, <1>6
<1>9. \A j \in DOMAIN ms : j \in Int
  BY <1>6
<1>10. DoneTo(ms, at - 1)
  BY <1>4, <1>5, <1>7, <1>8, <1>9 DEF DoneTo, Open
<1>11. Landed(ms)
  <2> SUFFICES ASSUME NEW j \in DOMAIN ms
               PROVE  /\ ms[j].state = "confirmed" => j \in landed \/ ms[j].role = "post"
                      /\ ms[j].role = "post" => call.kind = "claims"
    BY DEF Landed
  <2>1. CASE j < at
    BY <1>7, <1>8, <2>1, <1>9, <1>5 DEF Landed
  <2>2. CASE j = at
    BY <1>4, <1>5, <1>8, <2>2
  <2>3. CASE j > at
    <3>1. j - 1 \in DOMAIN legs /\ j - 1 > at - 1 /\ ms[j] = legs[j - 1]
      BY <1>5, <1>8, <1>9, <2>3
    <3>2. legs[j - 1].state \in Open
      BY <1>7, <3>1 DEF DoneTo
    <3>3. QED
      BY <1>7, <3>1, <3>2 DEF Landed, Open
  <2>4. QED
    BY <1>5, <1>9, <2>1, <2>2, <2>3
<1>12. ForMain(ms)
  <2>1. call.kind \notin {"claims", "compose"} => Current.act = Main.id
    BY <1>5, <1>7 DEF ForMain, Current
  <2>2. QED
    BY <1>4, <1>7, <1>8, <2>1 DEF ForMain
<1>13. call.kind \in {"shape", "claims"}
  <2>1. Current.role # "optin" /\ Current.assets # {}
    BY <1>3 DEF NeedsOptInFirst, Missing
  <2>2. QED
    BY <1>5, <1>7, <2>1 DEF OptsInFirst, Current
<1>14. Through' = at - 1 /\ Main' = Main
  BY <1>3 DEF Through, Main
<1>15. DoneTo(legs, Through)' /\ Landed(legs)' /\ ForMain(legs)'
  <2>1. DoneTo(legs, Through)'
    BY <1>3, <1>10, <1>14 DEF DoneTo
  <2>2. Landed(legs)'
    BY <1>3, <1>11 DEF Landed
  <2>3. ForMain(legs)'
    BY <1>3, <1>12, <1>14 DEF ForMain
  <2>4. QED
    BY <2>1, <2>2, <2>3
<1>16. OptsInFirst(legs)' /\ AloneInv'
  BY <1>3, <1>13 DEF OptsInFirst, AloneInv
<1>17. QED
  BY <1>3, <1>7, <1>15, <1>16 DEF TruthInv, WorkInv

LEMMA SendTells ==
  ASSUME ProgressInv, WorkInv, Send
  PROVE  TruthInv'
<1>1. PICK ms : ms = [legs EXCEPT ![at].state = "sent"]
  OBVIOUS
<1>2. /\ stage = "submit" /\ stage' = "wait" /\ legs' = ms /\ at' = at /\ landed' = landed
      /\ call' = call /\ report' = report
  BY <1>1 DEF Send, Sendable, Mark
<1>3. at \in DOMAIN legs /\ at \in Nat /\ at > 0 /\ Len(legs) \in Nat /\ IsLegs(legs)
      /\ DOMAIN legs = 1..Len(legs)
  BY <1>2, CurrentIs, LenIs DEF Working, ProgressInv
<1>4. /\ DOMAIN ms = DOMAIN legs /\ ms[at].state = "sent"
      /\ \A j \in DOMAIN legs : /\ ms[j].act = legs[j].act /\ ms[j].role = legs[j].role
                                /\ ms[j].assets = legs[j].assets
                                /\ j # at => ms[j].state = legs[j].state
  BY <1>1, <1>3, MarkParts
<1>5. Len(ms) = Len(legs)
  BY <1>1, <1>3, MarkIs DEF Alike
<1>6. /\ DoneTo(legs, at - 1) /\ Landed(legs) /\ ForMain(legs) /\ OptsInFirst(legs) /\ AloneInv
      /\ report = <<>>
  BY <1>2 DEF WorkInv, Through
<1>7. Through' = at - 1 /\ Main' = Main
  BY <1>2 DEF Through, Main
<1>8. DoneTo(legs, Through)'
  <2>1. \A i \in DOMAIN ms : IF i = at THEN ms[i].state = "sent" /\ ~(i <= at - 1)
                             ELSE ms[i].state = legs[i].state
    BY <1>3, <1>4
  <2>2. QED
    BY <1>2, <1>4, <1>6, <1>7, <2>1 DEF DoneTo, Open
<1>9. Landed(legs)'
  BY <1>2, <1>3, <1>4, <1>6 DEF Landed
<1>10. ForMain(legs)' /\ OptsInFirst(legs)'
  BY <1>2, <1>4, <1>6, <1>7 DEF ForMain, OptsInFirst
<1>11. AloneInv'
  BY <1>2, <1>3, <1>4, <1>5, <1>6 DEF AloneInv
<1>12. QED
  BY <1>2, <1>6, <1>8, <1>9, <1>10, <1>11 DEF TruthInv, WorkInv

\* The awaited group is done.
LEMMA MarkedIsDone ==
  ASSUME ProgressInv, WorkInv, stage \in {"submit", "wait"},
         at \in landed \/ Current.role = "post",
         NEW ms, ms = Mark(at, "confirmed")
  PROVE  /\ Alike(legs, ms) /\ DoneTo(ms, at) /\ Landed(ms) /\ ForMain(ms) /\ OptsInFirst(ms)
<1>1. at \in DOMAIN legs /\ at \in Nat /\ at > 0 /\ Len(legs) \in Nat /\ IsLegs(legs)
      /\ DOMAIN legs = 1..Len(legs)
  BY CurrentIs, LenIs DEF Working, ProgressInv
<1>2. Alike(legs, ms)
  BY <1>1, MarkIs DEF Mark
<1>3. ms = [legs EXCEPT ![at].state = "confirmed"]
  BY DEF Mark
<1>4. /\ DOMAIN ms = DOMAIN legs /\ ms[at].state = "confirmed"
      /\ \A j \in DOMAIN legs : /\ ms[j].act = legs[j].act /\ ms[j].role = legs[j].role
                                /\ ms[j].assets = legs[j].assets
                                /\ j # at => ms[j].state = legs[j].state
  <2>1. IsLegs(legs) /\ at \in DOMAIN legs
    BY <1>1
  <2>2. PICK ns : ns = [legs EXCEPT ![at].state = "confirmed"]
    OBVIOUS
  <2>3. /\ DOMAIN ns = DOMAIN legs /\ ns[at].state = "confirmed"
        /\ \A j \in DOMAIN legs : /\ ns[j].act = legs[j].act /\ ns[j].role = legs[j].role
                                  /\ ns[j].assets = legs[j].assets
                                  /\ j # at => ns[j].state = legs[j].state
    BY <2>1, <2>2, MarkParts
  <2>4. ms = ns
    BY <1>3, <2>2
  <2>5. QED
    BY <2>3, <2>4
<1>5. DoneTo(legs, at - 1) /\ Landed(legs) /\ ForMain(legs) /\ OptsInFirst(legs)
  BY DEF WorkInv, Through
<1>6. DoneTo(ms, at)
  <2> SUFFICES ASSUME NEW i \in DOMAIN ms
               PROVE  /\ i <= at => ms[i].state \in Done
                      /\ i > at => ms[i].state \in Open
    BY DEF DoneTo
  <2>1. CASE i = at
    BY <1>1, <1>4, <2>1 DEF Done
  <2>2. CASE i # at
    <3>1. ms[i].state = legs[i].state /\ i \in DOMAIN legs
      BY <1>4, <2>2
    <3>2. (i <= at => i <= at - 1) /\ (i > at => i > at - 1)
      BY <1>1, <2>2, <3>1
    <3>3. QED
      BY <1>5, <3>1, <3>2 DEF DoneTo
  <2>3. QED
    BY <2>1, <2>2
<1>7. Landed(ms)
  BY <1>1, <1>4, <1>5 DEF Landed, Current
<1>8. ForMain(ms) /\ OptsInFirst(ms)
  BY <1>4, <1>5 DEF ForMain, OptsInFirst
<1>9. QED
  BY <1>2, <1>6, <1>7, <1>8

\* The call goes on behind a group that is done.
LEMMA AdvanceTells ==
  ASSUME ProgressInv, WorkInv, stage \in Working, stage \in {"submit", "wait"} \/ call.kind = "shape",
         NEW ls, Alike(legs, ls), DoneTo(ls, at), Landed(ls), ForMain(ls), OptsInFirst(ls),
         Advance(ls), UNCHANGED <<call, number, landed>>
  PROVE  TruthInv'
<1>1. /\ at \in DOMAIN legs /\ at \in Nat /\ at > 0 /\ Len(ls) = Len(legs) /\ Len(legs) \in Nat
      /\ DOMAIN ls = 1..Len(ls) /\ ls[at].role = Current.role
  BY CurrentIs, LenIs DEF Alike, Current, ProgressInv
<1>2. legs' = ls /\ Main' = Main /\ report = <<>> /\ AloneInv
  BY DEF Advance, Main, WorkInv
<1>3. Landed(legs)' /\ ForMain(legs)' /\ OptsInFirst(legs)'
  BY <1>2 DEF Landed, ForMain, OptsInFirst
<1>4. CASE stage' = "quote" /\ UNCHANGED <<at, report, secret>>
           /\ \/ call.kind \in {"swap", "compose"} /\ Current.role = "optin"
              \/ call.kind = "shape"
  <2>1. DoneTo(legs, Through)'
    BY <1>2, <1>4 DEF DoneTo, Through
  <2>2. AloneInv'
    <3>1. CASE call.kind = "shape"
      BY <3>1 DEF AloneInv
    <3>2. CASE call.kind # "shape"
      <4>1. at = Len(legs)
        BY <1>2, <1>4, <3>2 DEF AloneInv, Current
      <4>2. QED
        BY <1>1, <1>2, <1>4, <3>2, <4>1 DEF AloneInv
    <3>3. QED
      BY <3>1, <3>2
  <2>3. QED
    BY <1>2, <1>3, <1>4, <2>1, <2>2 DEF TruthInv, WorkInv
<1>5. CASE stage' = "submit" /\ at' = at + 1 /\ UNCHANGED <<report, secret>> /\ at < Len(ls)
  <2>1. Through' = at
    BY <1>1, <1>5 DEF Through
  <2>2. DoneTo(legs, Through)'
    BY <1>2, <2>1 DEF DoneTo
  <2>3. AloneInv'
    <3>1. at + 1 \in DOMAIN ls /\ at + 1 # 1
      BY <1>1, <1>5
    <3>2. call.kind \notin {"shape", "claims"} => ls[at + 1].role # "optin"
      BY <3>1 DEF OptsInFirst
    <3>3. QED
      BY <1>2, <1>5, <3>2 DEF AloneInv
  <2>4. QED
    BY <1>2, <1>3, <1>5, <2>2, <2>3 DEF TruthInv, WorkInv
<1>6. CASE Finish(ls, FALSE) /\ ~(at < Len(ls))
  <2>1. \A i \in DOMAIN ls : i <= at
    BY <1>1, <1>6
  <2>2. \A i \in DOMAIN ls : ls[i].state \in Done
    BY <2>1 DEF DoneTo
  <2>3. QED
    BY <1>2, <1>6, <2>2, EndsWell
<1>7. QED
  BY <1>4, <1>5, <1>6 DEF Advance, Stepwise

LEMMA ConfirmTells ==
  ASSUME ProgressInv, WorkInv, Post \/ Confirm
  PROVE  TruthInv'
<1>1. PICK ms : ms = Mark(at, "confirmed")
  OBVIOUS
<1>2. /\ stage \in {"submit", "wait"} /\ stage \in Working
      /\ at \in landed \/ Current.role = "post"
      /\ Advance(ms) /\ UNCHANGED <<call, number, landed>>
  BY <1>1 DEF Post, Confirm, Confirms, Working, chain
<1>3. Alike(legs, ms) /\ DoneTo(ms, at) /\ Landed(ms) /\ ForMain(ms) /\ OptsInFirst(ms)
  BY <1>1, <1>2, MarkedIsDone
<1>4. QED
  BY <1>2, <1>3, AdvanceTells

-----------------------------------------------------------------------------
(* The store.                                                              *)

LEMMA SetupIsShape ==
  ASSUME ProgressInv, RoleInv, stage \in Working, Current.role = "setup"
  PROVE  call.kind = "shape"
<1>1. ~Plain(legs)
  BY CurrentIs, PlainAt DEF Current
<1>2. QED
  BY <1>1 DEF RoleInv

LEMMA ConfirmSetupTells ==
  ASSUME ProgressInv, RoleInv, WorkInv, ConfirmSetup
  PROVE  TruthInv'
<1>1. PICK ms : ms = Mark(at, "confirmed")
  OBVIOUS
<1>2. /\ stage = "wait" /\ stage' \in {"save", "resave"} /\ at \in landed /\ legs' = ms /\ at' = at
      /\ UNCHANGED <<call, landed, report>> /\ Current.role = "setup"
  BY <1>1 DEF ConfirmSetup, Confirms, chain
<1>3. DoneTo(ms, at) /\ Landed(ms) /\ ForMain(ms)
  BY <1>1, <1>2, MarkedIsDone
<1>4. call.kind = "shape"
  BY <1>2, SetupIsShape DEF Working
<1>5. Through' = at /\ Main' = Main /\ report = <<>>
  BY <1>2 DEF Through, Main, WorkInv
<1>6. DoneTo(legs, Through)' /\ Landed(legs)' /\ ForMain(legs)'
  BY <1>2, <1>3, <1>5 DEF DoneTo, Landed, ForMain
<1>7. OptsInFirst(legs)' /\ AloneInv'
  BY <1>2, <1>4 DEF OptsInFirst, AloneInv
<1>8. QED
  BY <1>2, <1>5, <1>6, <1>7 DEF TruthInv, WorkInv

LEMMA StoreTells ==
  ASSUME ProgressInv, RoleInv, WorkInv, OpenRecord \/ WriteRecord
  PROVE  TruthInv'
<1>1. stage \in Saving /\ stage \in Working
  BY DEF OpenRecord, WriteRecord, Saving, Working
<1>2. call.kind = "shape"
  BY <1>1, SetupIsShape DEF RoleInv
<1>3. /\ DoneTo(legs, at) /\ Landed(legs) /\ ForMain(legs) /\ OptsInFirst(legs) /\ report = <<>>
  BY <1>1 DEF WorkInv, Through, Saving
<1>4. CASE OpenRecord \/ (WriteRecord /\ stage = "write")
  <2>1. stage' \in Saving /\ UNCHANGED <<legs, at, call, landed, report>>
    BY <1>4 DEF OpenRecord, WriteRecord, Saving, work, chain
  <2>2. Through' = at /\ Main' = Main
    BY <2>1 DEF Through, Saving, Main
  <2>3. DoneTo(legs, Through)' /\ Landed(legs)' /\ ForMain(legs)' /\ OptsInFirst(legs)'
    BY <1>3, <2>1, <2>2 DEF DoneTo, Landed, ForMain, OptsInFirst
  <2>4. AloneInv'
    BY <1>2, <2>1 DEF AloneInv
  <2>5. QED
    BY <1>3, <2>1, <2>3, <2>4 DEF TruthInv, WorkInv, Saving
<1>5. CASE WriteRecord /\ stage # "write"
  <2>1. Advance(legs) /\ UNCHANGED <<call, number, landed>>
    BY <1>5 DEF WriteRecord, chain
  <2>2. Alike(legs, legs)
    BY DEF Alike, ProgressInv
  <2>3. QED
    BY <1>1, <1>2, <1>3, <2>1, <2>2, AdvanceTells
<1>6. QED
  BY <1>4, <1>5

-----------------------------------------------------------------------------
(* The chain.                                                              *)

LEMMA LandTells ==
  ASSUME ProgressInv, FlightInv, TruthInv, NEW g \in flying, Land(g)
  PROVE  TruthInv'
<1>1. /\ landed' = landed \cup (IF g.number = number /\ call # Null THEN {g.leg} ELSE {})
      /\ UNCHANGED <<call, number, stage, legs, at, report, gaps>>
  BY DEF Land, work
<1>2. landed \subseteq landed' /\ Main' = Main /\ Through' = Through
  BY <1>1 DEF Main, Through
<1>3. CASE stage = "idle"
  <2>1. ConfirmedMeansLanded /\ LandedIsReported
    BY <1>3 DEF TruthInv
  <2>2. \A id : LegsOf(id)' = LegsOf(id)
    BY <1>1 DEF LegsOf
  <2>3. ConfirmedMeansLanded'
    BY <1>1, <1>2, <2>1, <2>2 DEF ConfirmedMeansLanded
  <2>4. number \notin gaps => landed' = landed
    <3>1. g.number \in gaps
      BY <1>3 DEF FlightInv
    <3>2. QED
      BY <1>1, <3>1
  <2>5. LandedIsReported'
    BY <1>1, <2>1, <2>2, <2>4 DEF LandedIsReported
  <2>6. QED
    BY <1>1, <1>3, <2>3, <2>5 DEF TruthInv
<1>4. CASE stage # "idle"
  <2>1. WorkInv
    BY <1>4 DEF TruthInv
  <2>2. DoneTo(legs, Through)' /\ ForMain(legs)' /\ OptsInFirst(legs)'
    BY <1>1, <1>2, <2>1 DEF WorkInv, DoneTo, ForMain, OptsInFirst
  <2>3. Landed(legs)'
    BY <1>1, <1>2, <2>1 DEF WorkInv, Landed
  <2>4. AloneInv'
    BY <1>1, <2>1 DEF WorkInv, AloneInv
  <2>5. QED
    BY <1>1, <1>4, <2>1, <2>2, <2>3, <2>4 DEF TruthInv, WorkInv
<1>5. QED
  BY <1>3, <1>4

LEMMA StutterTells == TruthInv /\ UNCHANGED vars => TruthInv'
<1> SUFFICES ASSUME TruthInv, UNCHANGED vars PROVE TruthInv'
  OBVIOUS
<1>1. UNCHANGED <<call, number, stage, legs, at, report, gaps, landed>>
  BY DEF vars, work, chain
<1>2. Main' = Main /\ Through' = Through /\ \A id : LegsOf(id)' = LegsOf(id)
  BY <1>1 DEF Main, Through, LegsOf
<1>3. CASE stage = "idle"
  BY <1>1, <1>2, <1>3 DEF TruthInv, ConfirmedMeansLanded, LandedIsReported
<1>4. CASE stage # "idle"
  <2>1. WorkInv
    BY <1>4 DEF TruthInv
  <2>2. DoneTo(legs, Through)' /\ ForMain(legs)' /\ OptsInFirst(legs)' /\ Landed(legs)' /\ AloneInv'
    BY <1>1, <1>2, <2>1 DEF WorkInv, DoneTo, ForMain, OptsInFirst, Landed, AloneInv
  <2>3. QED
    BY <1>1, <1>4, <2>1, <2>2 DEF TruthInv, WorkInv
<1>5. QED
  BY <1>3, <1>4

LEMMA TruthInit == Init => TruthInv
<1> SUFFICES ASSUME Init PROVE TruthInv
  OBVIOUS
<1>1. stage = "idle" /\ report = <<>> /\ DOMAIN report = {}
  BY NoLegs DEF Init
<1>2. QED
  BY <1>1 DEF TruthInv, ConfirmedMeansLanded, LandedIsReported

LEMMA TruthStep == EscrowInv /\ TruthInv /\ [Next]_vars => TruthInv'
<1> SUFFICES ASSUME EscrowInv, TruthInv, [Next]_vars PROVE TruthInv'
  OBVIOUS
<1>1. ProgressInv /\ RoleInv /\ FlightInv /\ ProgressInv'
  BY EscrowInvStep DEF EscrowInv
<1>2. stage # "idle" => WorkInv
  BY DEF TruthInv
<1>3. CASE NextCall
  BY <1>3, BeginTells DEF NextCall
<1>4. CASE PrepareClaims \/ PrepareShape
  <2>1. WorkInv
    BY <1>2, <1>4 DEF PrepareClaims, PrepareShape
  <2>2. QED
    BY <1>1, <1>4, <2>1, PrepareClaimsTells, PrepareShapeTells
<1>5. CASE QuoteSwap \/ QuoteClaims \/ QuoteShape \/ SkipDeployed
  <2>1. WorkInv
    BY <1>2, <1>5 DEF QuoteSwap, QuoteClaims, QuoteShape, SkipDeployed
  <2>2. QED
    BY <1>1, <1>5, <2>1, QuoteSwapTells, QuoteClaimsTells, QuoteShapeTells, SkipTells
<1>6. CASE \E compiled \in BOOLEAN : QuoteCompose(compiled)
  <2>1. WorkInv
    BY <1>2, <1>6 DEF QuoteCompose
  <2>2. QED
    BY <1>1, <1>6, <2>1, QuoteComposeTells
<1>7. CASE Fails \/ GiveUp \/ SaveFails \/ Crash
  <2>1. WorkInv
    BY <1>2, <1>7 DEF Fails, GiveUp, SaveFails, Crash
  <2>2. QED
    BY <1>7, <2>1, ThrowTells
<1>8. CASE OptInFirst \/ Send \/ Post \/ Confirm
  <2>1. WorkInv
    BY <1>2, <1>8 DEF OptInFirst, Send, Sendable, Post, Confirm, Confirms
  <2>2. QED
    BY <1>1, <1>8, <2>1, OptInFirstTells, SendTells, ConfirmTells
<1>9. CASE ConfirmSetup \/ OpenRecord \/ WriteRecord
  <2>1. WorkInv
    BY <1>2, <1>9 DEF ConfirmSetup, Confirms, OpenRecord, WriteRecord
  <2>2. QED
    BY <1>1, <1>9, <2>1, ConfirmSetupTells, StoreTells
<1>10. CASE \E g \in flying : Land(g)
  BY <1>1, <1>10, LandTells
<1>11. CASE Rest \/ UNCHANGED vars
  BY <1>11, StutterTells DEF Rest
<1>12. QED
  BY <1>3, <1>4, <1>5, <1>6, <1>7, <1>8, <1>9, <1>10, <1>11 DEF Next

LEMMA TruthHolds == Spec => []TruthInv
  BY TruthInit, TruthStep, EscrowInvHolds, PTL DEF Spec

\* executeAction, executeComposeEnter and executeClaimBatch: what a call answers as
\* confirmed is on chain, whatever failed, crashed or came late.
THEOREM ReportsAreTrue == Spec => []ConfirmedMeansLanded
<1>1. TruthInv => ConfirmedMeansLanded
  BY NoLegs DEF TruthInv, WorkInv, ConfirmedMeansLanded
<1>2. QED
  BY <1>1, TruthHolds, PTL

\* The same three: when all groups of an action are on chain the call answers
\* confirmed, unless the wait for one was given up or its key not stored.
THEOREM NothingUnreported == Spec => []LandedIsReported
<1>1. TruthInv => LandedIsReported
  BY NoLegs DEF TruthInv, WorkInv, LandedIsReported
<1>2. QED
  BY <1>1, TruthHolds, PTL

-----------------------------------------------------------------------------
(* Amounts.                                                                *)

\* What was spendable was read for a shape call, and a call with nothing to spend
\* was not quoted.
FundsInv ==
  funds # Null /\ stage # "idle" =>
    /\ call.kind = "shape" /\ call \in Calls /\ funds \in 0..MaxAmount
    /\ funds = 0 => Planned(Main, SpendAsset(Main)) = Null

LEMMA FundsInvStep == FundsInv /\ ProgressInv /\ [Next]_vars => FundsInv'
<1> SUFFICES ASSUME FundsInv, ProgressInv, [Next]_vars PROVE FundsInv'
  OBVIOUS
<1>1. CASE UNCHANGED <<funds, call>> /\ (stage = "idle" => stage' = "idle")
  <2>1. Main' = Main
    BY <1>1 DEF Main
  <2>2. QED
    BY <1>1, <2>1 DEF FundsInv
<1>2. CASE funds' = Null
  BY <1>2 DEF FundsInv
<1>3. CASE PrepareShape
  <2>1. /\ stage = "prepare" /\ call.kind = "shape" /\ call \in Calls /\ call' = call
        /\ Main' = Main
    BY <1>3 DEF PrepareShape, ProgressInv, Main
  <2>2. \/ funds' = Null \/ stage' = "idle"
        \/ funds' \in 0..MaxAmount /\ (funds' = 0 => Planned(Main, SpendAsset(Main)) = Null)
    BY <1>3 DEF PrepareShape, Throw, Finish
  <2>3. QED
    BY <2>1, <2>2 DEF FundsInv
<1>4. CASE NextCall
  BY <1>2, <1>4 DEF NextCall, AnswerAtOnce, StartCall, Begin
<1>5. CASE PrepareClaims \/ QuoteSwap \/ QuoteClaims \/ QuoteShape \/ SkipDeployed
  BY <1>1, <1>5 DEF PrepareClaims, QuoteSwap, QuoteClaims, QuoteShape, SkipDeployed
<1>6. CASE \E compiled \in BOOLEAN : QuoteCompose(compiled)
  BY <1>1, <1>6 DEF QuoteCompose
<1>7. CASE Fails \/ GiveUp \/ SaveFails
  BY <1>1, <1>7 DEF Fails, GiveUp, SaveFails
<1>8. CASE OptInFirst \/ Send \/ Post \/ Confirm \/ ConfirmSetup
  BY <1>1, <1>8 DEF OptInFirst, Send, Sendable, Post, Confirm, ConfirmSetup, Confirms
<1>9. CASE OpenRecord \/ WriteRecord \/ \E g \in flying : Land(g)
  BY <1>1, <1>9 DEF OpenRecord, WriteRecord, Land, work
<1>10. CASE Crash
  BY <1>2, <1>10 DEF Crash
<1>11. CASE Rest \/ UNCHANGED vars
  BY <1>1, <1>11 DEF Rest, vars, work
<1>12. QED
  BY <1>3, <1>4, <1>5, <1>6, <1>7, <1>8, <1>9, <1>10, <1>11 DEF Next

\* The amount that is clamped is one of those stated.
LEMMA PlannedIsStated ==
  ASSUME NEW m, NEW a, Planned(m, a) # Null
  PROVE  Planned(m, a) \in StatedAmounts(m, a)
<1>1. CASE SpendsOf(m, a) # {}
  <2>1. (CHOOSE s \in SpendsOf(m, a) : TRUE) \in SpendsOf(m, a)
    BY <1>1
  <2>2. Planned(m, a) = (CHOOSE s \in SpendsOf(m, a) : TRUE).amount
    BY <1>1 DEF Planned
  <2>3. Planned(m, a) \in {s.amount : s \in SpendsOf(m, a)}
    BY <2>1, <2>2
  <2>4. QED
    BY <2>3 DEF StatedAmounts
<1>2. CASE SpendsOf(m, a) = {}
  BY <1>2 DEF Planned, StatedAmounts, QuotedAmounts
<1>3. QED
  BY <1>1, <1>2

\* A clamped action is quoted for what is spendable, or for less.
LEMMA ClampFits ==
  ASSUME NEW m, NEW a, NEW n \in Nat, n # 0, Planned(m, a) # Null,
         {"amount", "spends", "input"} \subseteq DOMAIN m,
         {"amount", "assetAmount"} \subseteq DOMAIN m.input,
         \A x, y \in StatedAmounts(m, a) : x = y,
         NEW x \in QuotedAmounts(Clamp(m, a, n))
  PROVE  x <= n
<1> DEFINE p == Planned(m, a)
<1>1. \A y \in StatedAmounts(m, a) : y = p
  BY PlannedIsStated
<1>2. \A y \in {m.input.amount, m.input.assetAmount, m.amount} : y = Null \/ y = p
  BY <1>1 DEF StatedAmounts, QuotedAmounts
<1>3. CASE p <= n
  <2>1. Clamp(m, a, n) = m
    BY <1>3 DEF Clamp
  <2>2. x = p
    BY <1>2, <2>1 DEF QuotedAmounts
  <2>3. QED
    BY <1>3, <2>2
<1>4. CASE ~(p <= n)
  <2> DEFINE cut(y) == IF y = p THEN n ELSE y
             first == IF m.input.amount = Null /\ m.amount = p THEN n ELSE cut(m.input.amount)
             all == {IF s.asset = a THEN [s EXCEPT !.amount = cut(@)] ELSE s : s \in m.spends}
  <2>1. Clamp(m, a, n) =
          [m EXCEPT !.amount = cut(m.amount), !.input.amount = first,
                    !.input.assetAmount = cut(m.input.assetAmount), !.spends = all]
    BY <1>4 DEF Clamp
  <2> HIDE DEF all, first, cut
  <2>2. /\ Clamp(m, a, n).input.amount = first
        /\ Clamp(m, a, n).input.assetAmount = cut(m.input.assetAmount)
    <3>1. PICK w : w = cut(m.amount)
      OBVIOUS
    <3>2. PICK z : z = cut(m.input.assetAmount)
      OBVIOUS
    <3>3. PICK v : v = first
      OBVIOUS
    <3>4. Clamp(m, a, n) = [m EXCEPT !.amount = w, !.input.amount = v,
                                     !.input.assetAmount = z, !.spends = all]
      BY <2>1, <3>1, <3>2, <3>3
    <3>5. Clamp(m, a, n).input.amount = v /\ Clamp(m, a, n).input.assetAmount = z
      <4>1. LET r == [m EXCEPT !.amount = w, !.input.amount = v, !.input.assetAmount = z,
                               !.spends = all]
            IN  r.input.amount = v /\ r.input.assetAmount = z
        OBVIOUS
      <4>2. QED
        BY ONLY <3>4, <4>1
    <3>6. QED
      BY <3>2, <3>3, <3>5
  <2>3. x \in {Clamp(m, a, n).input.amount, Clamp(m, a, n).input.assetAmount} /\ x # Null
    BY DEF QuotedAmounts
  <2>4. x = n
    BY <1>2, <2>2, <2>3 DEF first, cut
  <2>5. QED
    BY <2>4
<1>5. QED
  BY <1>3, <1>4

\* clampCapitalEnterToSpendable and buildQuoteRequests: an enter whose statements
\* of the amount agree is never quoted for more than was spendable.
THEOREM QuotesAreCovered == Spec => []QuotedWithinSpendable
<1>1. Init => FundsInv
  BY DEF Init, FundsInv
<1>2. FundsInv /\ ProgressInv => QuotedWithinSpendable
  <2> SUFFICES ASSUME FundsInv, ProgressInv, funds # Null, stage \in {"quote", "submit", "wait"},
                      Planned(Main, SpendAsset(Main)) # Null,
                      \A x, y \in StatedAmounts(Main, SpendAsset(Main)) : x = y,
                      NEW x \in QuotedAmounts(Asked)
               PROVE  x <= funds
    BY DEF QuotedWithinSpendable
  <2>1. funds \in Nat /\ funds # 0 /\ call \in Calls
    BY ExecutionAssumption DEF FundsInv
  <2>2. /\ {"amount", "spends", "input"} \subseteq DOMAIN Main
        /\ {"amount", "assetAmount"} \subseteq DOMAIN Main.input
    BY <2>1, ActsAssumption DEF Main
  <2>3. x \in QuotedAmounts(Clamp(Main, SpendAsset(Main), funds))
    BY DEF Asked
  <2>4. QED
    BY <2>1, <2>2, <2>3, ClampFits
<1>3. EscrowInv => ProgressInv
  BY DEF EscrowInv
<1>4. QED
  BY <1>1, <1>2, <1>3, FundsInvStep, EscrowInvHolds, PTL DEF Spec

-----------------------------------------------------------------------------
(* Escrow groups in their order.                                           *)

\* The groups that work on an escrow, in their order.
Bare(ls) == \A g \in ToSet(ls) : g.role \notin {"setup", "opt", "deposit"}
InOrder(ls) ==
    \A i, j \in DOMAIN ls :
      /\ ls[i].role \in {"opt", "deposit"} => ls[i].assets = {DepositAsset(Main, call.shapes)}
      /\ ls[i].role = "setup" /\ ls[j].role \in {"opt", "deposit"} => i < j
Fits(ls) ==
    \/ Bare(ls)
    \/ EscrowOnly(ls) /\ InOrder(ls) /\ call.kind = "shape" /\ Sequential

\* The last group that is behind the call, and a group that is still before j.
Behind == IF stage = "quote" THEN at ELSE at - 1
Ahead(j, role) == \E i \in DOMAIN legs : i < j /\ i > Behind /\ legs[i].role = role
Ready == record \in Escrows /\ secret = record
Opted(s) == {record} \X s \subseteq optedIn

\* An opt-in or a deposit has the key of its escrow stored, or the setup is ahead
\* of it; a deposit has its escrow opted in and no setup, or the opt-in ahead.
Covered ==
    \A j \in DOMAIN legs : j > Behind =>
      /\ legs[j].role \in {"opt", "deposit"} => Ready \/ Ahead(j, "setup")
      /\ legs[j].role = "deposit" =>
           Ahead(j, "opt") \/ (Ready /\ Opted(legs[j].assets) /\ ~Ahead(j, "setup"))

\* An opt-in that landed has opted the escrow in.
OptLanded ==
    stage = "wait" /\ at \in landed /\ Current.role = "opt"
    => {secret} \X Current.assets \subseteq optedIn

DepositsFly ==
    \A g \in flying : g.role = "deposit" =>
      /\ record \in Escrows /\ record <= g.number
      /\ g.escrow = record /\ Opted(g.assets)

CoverInv ==
    /\ stage \notin {"idle", "prepare"} => Fits(legs) /\ Covered /\ OptLanded
    /\ DepositsFly

LEMMA AlikeFits ==
  ASSUME NEW ls, NEW ms, Alike(ls, ms)
  PROVE  /\ Bare(ls) => Bare(ms)
         /\ Fits(ls) => Fits(ms)
<1>1. Bare(ls) => Bare(ms)
  <2>1. \A g \in ToSet(ms) : \E h \in ToSet(ls) : g.role = h.role
    BY DEF Alike, ToSet
  <2>2. QED
    BY <2>1 DEF Bare
<1>2. EscrowOnly(ls) => EscrowOnly(ms)
  BY AlikeKeeps
<1>3. InOrder(ls) => InOrder(ms)
  BY DEF Alike, InOrder
<1>4. QED
  BY <1>1, <1>2, <1>3 DEF Fits

LEMMA BareAt ==
  ASSUME NEW ls, Bare(ls), NEW i \in DOMAIN ls
  PROVE  ls[i].role \notin {"setup", "opt", "deposit"}
  BY DEF Bare, ToSet

\* A step that takes no key away and sends nothing.
LEMMA DepositsKeep ==
  ASSUME DepositsFly, record' = record, optedIn \subseteq optedIn', flying' \subseteq flying
  PROVE  DepositsFly'
<1>1. \A s : Opted(s) => Opted(s)'
  BY DEF Opted
<1>2. QED
  BY <1>1 DEF DepositsFly, Escrows

\* Groups that do not touch an escrow.
LEMMA BareCovers ==
  ASSUME Bare(legs'), stage' = "wait" => at' \in DOMAIN legs', DepositsFly'
  PROVE  CoverInv'
<1>1. \A i \in DOMAIN legs' : legs'[i].role \notin {"setup", "opt", "deposit"}
  BY BareAt
<1>2. Fits(legs)'
  <2>1. Bare(legs)'
    BY DEF Bare
  <2>2. QED
    BY <2>1 DEF Fits
<1>3. Covered' /\ OptLanded'
  BY <1>1 DEF Covered, OptLanded, Current
<1>4. QED
  BY <1>2, <1>3 DEF CoverInv

\* The call is over.
LEMMA OverCovers ==
  ASSUME stage' \in {"idle", "prepare"}, DepositsFly'
  PROVE  CoverInv'
  BY DEF CoverInv

\* While a key is stored no deposit is on its way.
LEMMA NoDepositFlies ==
  ASSUME EscrowInv, DepositsFly, stage \in Saving
  PROVE  \A g \in flying : g.role # "deposit"
<1> SUFFICES ASSUME NEW g \in flying, g.role = "deposit" PROVE FALSE
  OBVIOUS
<1>1. /\ ProgressInv /\ RoleInv /\ FlightInv
      /\ record \in Escrows /\ record <= g.number
  BY DEF EscrowInv, DepositsFly
<1>2. ~Plain(legs)
  <2>1. Current.role = "setup" /\ at \in DOMAIN legs
    BY <1>1, CurrentIs DEF RoleInv, Working
  <2>2. QED
    BY <2>1, PlainAt DEF Current
<1>3. record = number
  BY <1>1, <1>2 DEF RoleInv
<1>4. g.number \in 1..number /\ number \in 0..MaxCalls /\ MaxCalls \in Nat
  BY <1>1, ExecutionAssumption DEF FlightInv, ProgressInv
<1>5. g.number = number
  BY <1>1, <1>3, <1>4
<1>6. g.number \notin gaps
  BY <1>1, <1>5 DEF ProgressInv, Saving
<1>7. QED
  BY <1>1, <1>6 DEF FlightInv, Saving

-----------------------------------------------------------------------------
(* The plan of a shape call.                                               *)

LEMMA BatchIsBare ==
  ASSUME call \in Calls
  PROVE  Bare(BatchLegs)
<1> DEFINE run == Sorted(QuotedShapes(Main, call.shapes))
           receive == Receivable(Main, call.shapes, Native)
           own == IF Main.type \in Enters THEN "enter" ELSE "exit"
           role(s) == IF ConfirmsFirst(s) THEN "deploy" ELSE own
           desk == IF Main.type = "claim" THEN PlanClaims(<<Main>>, Desk).planned ELSE <<>>
           ds == [i \in DOMAIN desk |-> Leg(Main.id, own, desk[i].quote, receive)]
           ls == [i \in DOMAIN run |-> Leg(Main.id, role(run[i]), run[i].key, receive)]
           one == Leg(Main.id, own, Main.key, receive)
<1>1. BatchLegs = IF desk # <<>> THEN ds ELSE IF run = <<>> THEN <<one>> ELSE ls
  BY DEF BatchLegs
<1>2. Bare(ls)
  <2>1. \A i \in DOMAIN ls : ls[i] = Leg(Main.id, role(run[i]), run[i].key, receive)
    OBVIOUS
  <2>2. \A s : role(s) \in {"deploy", "enter", "exit"}
    OBVIOUS
  <2> HIDE DEF ls, role, run, receive, own
  <2>3. \A i \in DOMAIN ls : ls[i].role \in {"deploy", "enter", "exit"}
    BY <2>1, <2>2, LegIs
  <2>4. QED
    BY <2>3 DEF Bare, ToSet
<1>3. Bare(<<one>>)
  <2>1. IsLeg(one) /\ one.role \in {"enter", "exit"}
    BY LegIs
  <2> HIDE DEF one
  <2>2. ToSet(<<one>>) = {one}
    BY <2>1, OneLeg
  <2>3. QED
    BY <2>1, <2>2 DEF Bare
<1>4. Bare(ds)
  <2>1. \A i \in DOMAIN ds : ds[i] = Leg(Main.id, own, desk[i].quote, receive)
    OBVIOUS
  <2>2. own \in {"enter", "exit"}
    OBVIOUS
  <2> HIDE DEF ds, own, desk, receive
  <2>3. \A i \in DOMAIN ds : ds[i].role \in {"enter", "exit"}
    BY <2>1, <2>2, LegIs
  <2>4. QED
    BY <2>3 DEF Bare, ToSet
<1> HIDE DEF ls, one, run, ds, desk
<1>5. QED
  BY <1>1, <1>2, <1>3, <1>4

\* What the store and the chain say of the escrow leaves out what is done.
LEMMA EscrowFits ==
  ASSUME call \in Calls, Sequential, call.kind = "shape"
  PROVE  /\ Fits(EscrowLegs)
         /\ \A j \in DOMAIN EscrowLegs :
              LET ahead(role) == \E i \in DOMAIN EscrowLegs : i < j /\ EscrowLegs[i].role = role
              IN  /\ EscrowLegs[j].role \in {"opt", "deposit"} =>
                       record \in Escrows \/ ahead("setup")
                  /\ EscrowLegs[j].role = "deposit" =>
                       \/ ahead("opt")
                       \/ /\ record \in Escrows /\ Opted(EscrowLegs[j].assets)
                          /\ ~ahead("setup")
<1> DEFINE known == record \in Escrows
           asset == DepositAsset(Main, call.shapes)
           opted == <<record, asset>> \in optedIn
           part == {s \in call.shapes :
                      \/ ~known
                      \/ FolksRole(s) \notin {"setup", "opt"}
                      \/ FolksRole(s) = "opt" /\ ~opted}
           run == EscrowShapes(call.shapes, known, opted)
           ls == EscrowLegs
<1>1. run = Sorted(part)
  BY DEF EscrowShapes
<1>2. /\ run \in Seq(part) /\ ToSet(run) = part
      /\ \A i, j \in DOMAIN run : i < j => run[i].order < run[j].order
  <2>1. part \in SUBSET call.shapes
    OBVIOUS
  <2> HIDE DEF part, run
  <2>2. QED
    BY <1>1, <2>1, ShapesAssumption
<1>3. ls = [i \in DOMAIN run |-> Leg(Main.id, FolksRole(run[i]), run[i].key, {asset})]
  BY DEF EscrowLegs
<1>4. NeedsSequentialEscrow(call.shapes)
  BY DEF Sequential
<1>5. /\ part \subseteq call.shapes
      /\ ~known => part = call.shapes
      /\ \A s \in call.shapes : FolksRole(s) = "opt" => s \in part \/ (known /\ opted)
      /\ \A s \in part : known => FolksRole(s) # "setup"
  OBVIOUS
<1> HIDE DEF part, run, ls, known, opted, asset
<1>6. DOMAIN ls = DOMAIN run
  BY <1>3
<1>7. \A i \in DOMAIN ls : ls[i].role = FolksRole(run[i]) /\ ls[i].assets = {asset}
  BY <1>3, <1>6, LegParts
<1>8. \A i \in DOMAIN ls : run[i] \in part /\ i \in Nat
  BY <1>2, <1>6, LenProperties
<1>9. \A s \in part : \E i \in DOMAIN ls : run[i] = s
  BY <1>2, <1>6 DEF ToSet
<1>10. \A s \in call.shapes : s.order \in Nat
  BY ShapesAssumption
<1>11. /\ \A s, t \in call.shapes :
            FolksRole(s) = "setup" /\ FolksRole(t) \in {"opt", "deposit"} => s.order < t.order
       /\ \A s, t \in call.shapes :
            FolksRole(s) = "opt" /\ FolksRole(t) = "deposit" => s.order < t.order
       /\ \A s \in call.shapes : FolksRole(s) \in {"opt", "deposit"} =>
            \E t \in call.shapes : FolksRole(t) = "setup"
       /\ \A s \in call.shapes : FolksRole(s) = "deposit" =>
            \E t \in call.shapes : FolksRole(t) = "opt"
  <2> DEFINE in(role) == {s \in call.shapes : FolksRole(s) = role}
  <2>1. /\ in("opt") \cup in("deposit") # {} => in("setup") # {}
        /\ in("deposit") # {} => in("opt") # {}
        /\ \A s \in in("setup"), t \in in("opt") \cup in("deposit") : s.order < t.order
        /\ \A s \in in("opt"), t \in in("deposit") : s.order < t.order
    BY <1>4, EscrowAssumption
  <2>2. QED
    BY <2>1
<1>12. ASSUME NEW i \in DOMAIN ls, NEW j \in DOMAIN ls, run[i].order < run[j].order
       PROVE  i < j
  <2>1. i \in Nat /\ j \in Nat /\ run[i].order \in Nat /\ run[j].order \in Nat
    BY <1>5, <1>8, <1>10
  <2>2. CASE j < i
    <3>1. run[j].order < run[i].order
      BY <1>2, <1>6, <2>2
    <3>2. QED
      BY <1>12, <2>1, <3>1
  <2>3. CASE j = i
    BY <1>12, <2>1, <2>3
  <2>4. QED
    BY <2>1, <2>2, <2>3
<1>13. Fits(ls)
  <2>1. EscrowOnly(ls)
    BY <1>7, FolksRoles DEF EscrowOnly, ToSet
  <2>2. InOrder(ls)
    <3>1. \A i \in DOMAIN ls : ls[i].assets = {DepositAsset(Main, call.shapes)}
      BY <1>7 DEF asset
    <3>2. ASSUME NEW i \in DOMAIN ls, NEW j \in DOMAIN ls,
                 ls[i].role = "setup", ls[j].role \in {"opt", "deposit"}
          PROVE  i < j
      <4>1. run[i].order < run[j].order
        BY <1>5, <1>7, <1>8, <1>11, <3>2
      <4>2. QED
        BY <1>12, <4>1
    <3>3. QED
      BY <3>1, <3>2 DEF InOrder
  <2>3. QED
    BY <2>1, <2>2 DEF Fits
<1>14. ASSUME NEW j \in DOMAIN ls, ls[j].role \in {"opt", "deposit"}
       PROVE  known \/ \E i \in DOMAIN ls : i < j /\ ls[i].role = "setup"
  <2> SUFFICES ASSUME ~known PROVE \E i \in DOMAIN ls : i < j /\ ls[i].role = "setup"
    OBVIOUS
  <2>1. PICK t \in call.shapes : FolksRole(t) = "setup"
    BY <1>5, <1>7, <1>8, <1>11, <1>14
  <2>2. PICK i \in DOMAIN ls : run[i] = t
    BY <1>5, <1>9, <2>1
  <2>3. run[i].order < run[j].order
    BY <1>5, <1>7, <1>8, <1>11, <1>14, <2>1, <2>2
  <2>4. i < j /\ ls[i].role = "setup"
    BY <1>7, <1>12, <2>1, <2>2, <2>3
  <2>5. QED
    BY <2>4
<1>15. ASSUME NEW j \in DOMAIN ls, ls[j].role = "deposit"
       PROVE  \/ \E i \in DOMAIN ls : i < j /\ ls[i].role = "opt"
              \/ /\ known /\ Opted(ls[j].assets)
                 /\ ~\E i \in DOMAIN ls : i < j /\ ls[i].role = "setup"
  <2>1. PICK t \in call.shapes : FolksRole(t) = "opt"
    BY <1>5, <1>7, <1>8, <1>11, <1>15
  <2>2. CASE t \in part
    <3>1. PICK i \in DOMAIN ls : run[i] = t
      BY <1>9, <2>2
    <3>2. run[i].order < run[j].order
      BY <1>5, <1>7, <1>8, <1>11, <1>15, <2>1, <3>1
    <3>3. i < j /\ ls[i].role = "opt"
      BY <1>7, <1>12, <2>1, <3>1, <3>2
    <3>4. QED
      BY <3>3
  <2>3. CASE t \notin part
    <3>1. known /\ opted
      BY <1>5, <2>1, <2>3
    <3>2. Opted(ls[j].assets)
      BY <1>7, <3>1 DEF Opted, opted
    <3>3. \A i \in DOMAIN ls : ls[i].role # "setup"
      BY <1>5, <1>7, <1>8, <3>1
    <3>4. QED
      BY <3>1, <3>2, <3>3
  <2>4. QED
    BY <2>2, <2>3
<1>16. QED
  BY <1>13, <1>14, <1>15 DEF ls, known

LEMMA PrepareShapeCovers ==
  ASSUME EscrowInv, EscrowInv', CoverInv, PrepareShape
  PROVE  CoverInv'
<1>1. /\ ProgressInv /\ IsLegs(legs') /\ stage = "prepare" /\ call.kind = "shape" /\ call \in Calls
      /\ at = 0 /\ call' = call /\ UNCHANGED <<record, optedIn, flying>>
  BY DEF PrepareShape, EscrowInv, ProgressInv, chain
<1>2. DepositsFly'
  BY <1>1, DepositsKeep DEF CoverInv
<1>3. CASE Throw
  BY <1>2, <1>3, OverCovers DEF Throw, Finish
<1>4. CASE ~Throw
  <2>1. /\ legs' = IF Sequential THEN EscrowLegs ELSE BatchLegs
        /\ stage' = "quote" /\ at' = 0
        /\ secret' = IF (Sequential \/ call.known) /\ record \in Escrows THEN record ELSE Null
    BY <1>1, <1>4 DEF PrepareShape
  <2>2. CASE ~Sequential
    <3>1. Bare(legs')
      BY <1>1, <2>1, <2>2, BatchIsBare
    <3>2. QED
      BY <1>2, <2>1, <3>1, BareCovers
  <2>3. CASE Sequential
    <3>1. PICK ls : ls = EscrowLegs
      OBVIOUS
    <3>2. /\ Fits(ls)
          /\ \A j \in DOMAIN ls :
              LET ahead(role) == \E i \in DOMAIN ls : i < j /\ ls[i].role = role
              IN  /\ ls[j].role \in {"opt", "deposit"} => record \in Escrows \/ ahead("setup")
                  /\ ls[j].role = "deposit" =>
                       \/ ahead("opt")
                       \/ record \in Escrows /\ Opted(ls[j].assets) /\ ~ahead("setup")
      BY ONLY <1>1, <2>3, <3>1, EscrowFits
    <3>3. legs' = ls /\ Behind' = 0 /\ (record \in Escrows => Ready')
      BY <2>1, <2>3, <3>1 DEF Behind, Ready, PrepareShape, Escrows
    <3>4. Main' = Main /\ (Sequential' <=> Sequential) /\ \A s : Opted(s)' <=> Opted(s)
      BY <1>1 DEF Main, Sequential, Opted
    <3>5. Fits(legs)'
      BY <1>1, <3>2, <3>3, <3>4 DEF Fits, InOrder, EscrowOnly, Bare
    <3>6. \A i \in DOMAIN ls : i > 0
      BY <1>1, <3>3, LenIs
    <3>7. \A j \in DOMAIN ls : \A role : Ahead(j, role)' <=> \E i \in DOMAIN ls : i < j /\ ls[i].role = role
      BY <3>3, <3>6 DEF Ahead
    <3>8. Covered'
      BY <3>2, <3>3, <3>4, <3>7 DEF Covered
    <3>9. QED
      BY <1>2, <2>1, <3>5, <3>8 DEF CoverInv, OptLanded
  <2>4. QED
    BY <2>2, <2>3
<1>5. QED
  BY <1>3, <1>4

-----------------------------------------------------------------------------
(* A step among the groups.                                                *)

\* The group behind which the call stands stays the same, and so does the key.
LEMMA SameCovers ==
  ASSUME CoverInv, stage \notin {"idle", "prepare"}, Alike(legs, legs'), Behind' = Behind,
         UNCHANGED <<call, record, secret>>, optedIn \subseteq optedIn', OptLanded', DepositsFly'
  PROVE  CoverInv'
<1>1. Fits(legs) /\ Covered
  BY DEF CoverInv
<1>2. Main' = Main /\ (Sequential' <=> Sequential) /\ (Ready' <=> Ready)
  BY DEF Main, Sequential, Ready, Escrows
<1>3. Fits(legs)'
  BY <1>1, <1>2, AlikeFits DEF Fits, InOrder
<1>4. /\ DOMAIN legs' = DOMAIN legs
      /\ \A i \in DOMAIN legs : legs'[i].role = legs[i].role /\ legs'[i].assets = legs[i].assets
  BY DEF Alike
<1>5. \A j, role : Ahead(j, role)' <=> Ahead(j, role)
  BY <1>4 DEF Ahead
<1>6. \A s : Opted(s) => Opted(s)'
  BY DEF Opted
<1>7. Covered'
  BY <1>1, <1>2, <1>4, <1>5, <1>6 DEF Covered
<1>8. QED
  BY <1>3, <1>7 DEF CoverInv

\* The next group is a setup: whatever is behind it waits for it.
LEMMA SetupCovers ==
  ASSUME CoverInv, stage \notin {"idle", "prepare"}, IsLegs(legs), Alike(legs, legs'),
         Behind \in Nat, Behind + 1 \in DOMAIN legs, legs[Behind + 1].role = "setup",
         Behind' = Behind, call' = call, OptLanded', DepositsFly'
  PROVE  CoverInv'
<1>1. Fits(legs) /\ Covered
  BY DEF CoverInv
<1>2. Main' = Main /\ (Sequential' <=> Sequential)
  BY DEF Main, Sequential
<1>3. Fits(legs)'
  BY <1>1, <1>2, AlikeFits DEF Fits, InOrder
<1>4. /\ DOMAIN legs' = DOMAIN legs
      /\ \A i \in DOMAIN legs : legs'[i].role = legs[i].role /\ legs'[i].assets = legs[i].assets
  BY DEF Alike
<1>5. \A j, role : Ahead(j, role)' <=> Ahead(j, role)
  BY <1>4 DEF Ahead
<1>6. ASSUME NEW j \in DOMAIN legs, j > Behind, legs[j].role \in {"opt", "deposit"}
      PROVE  Ahead(j, "setup")
  <2>1. j \in Nat /\ j # Behind + 1
    BY <1>6, LenIs
  <2>2. Behind + 1 < j /\ Behind + 1 > Behind
    BY <1>6, <2>1
  <2>3. QED
    BY <2>2 DEF Ahead
<1>7. Covered'
  BY <1>1, <1>4, <1>5, <1>6 DEF Covered
<1>8. QED
  BY <1>3, <1>7 DEF CoverInv

\* The call passes a group.
LEMMA PassedCovers ==
  ASSUME CoverInv, stage \notin {"idle", "prepare"}, IsLegs(legs), Alike(legs, legs'),
         Behind \in Nat, NEW k, k = Behind + 1, k \in DOMAIN legs, Behind' = k,
         stage' # "wait", UNCHANGED <<call, record, secret, optedIn>>, DepositsFly',
         legs[k].role # "setup",
         legs[k].role = "opt" => {secret} \X legs[k].assets \subseteq optedIn
  PROVE  CoverInv'
<1>1. Fits(legs) /\ Covered
  BY DEF CoverInv
<1>2. /\ Main' = Main /\ (Sequential' <=> Sequential) /\ (Ready' <=> Ready)
      /\ \A s : Opted(s)' <=> Opted(s)
  BY DEF Main, Sequential, Ready, Escrows, Opted
<1>3. Fits(legs)'
  BY <1>1, <1>2, AlikeFits DEF Fits, InOrder
<1>4. /\ DOMAIN legs' = DOMAIN legs
      /\ \A i \in DOMAIN legs : /\ legs'[i].role = legs[i].role /\ legs'[i].assets = legs[i].assets
                                /\ i \in Nat
  BY LenIs DEF Alike
<1>5. ASSUME NEW j, NEW role, Ahead(j, role), legs[k].role # role
      PROVE  Ahead(j, role)'
  <2>1. PICK i \in DOMAIN legs : i < j /\ i > Behind /\ legs[i].role = role
    BY <1>5 DEF Ahead
  <2>2. i > k
    BY <1>4, <1>5, <2>1
  <2>3. QED
    BY <1>4, <2>1, <2>2 DEF Ahead
<1>6. ASSUME NEW j, NEW role, Ahead(j, role)' PROVE Ahead(j, role)
  <2>1. PICK i \in DOMAIN legs : i < j /\ i > k /\ legs[i].role = role
    BY <1>4, <1>6 DEF Ahead
  <2>2. i > Behind
    BY <1>4, <2>1
  <2>3. QED
    BY <2>1, <2>2 DEF Ahead
<1>7. Covered'
  <2> SUFFICES ASSUME NEW j \in DOMAIN legs, j > k
               PROVE  /\ legs[j].role \in {"opt", "deposit"} => Ready \/ Ahead(j, "setup")'
                      /\ legs[j].role = "deposit" =>
                           \/ Ahead(j, "opt")'
                           \/ Ready /\ Opted(legs[j].assets) /\ ~Ahead(j, "setup")'
    BY <1>2, <1>4 DEF Covered
  <2>1. j > Behind
    BY <1>4
  <2>2. legs[j].role \in {"opt", "deposit"} => Ready \/ Ahead(j, "setup")'
    BY <1>1, <1>5, <2>1 DEF Covered
  <2>3. CASE legs[j].role = "deposit" /\ legs[k].role = "opt"
    <3>1. Ready
      <4>1. Ready \/ Ahead(k, "setup")
        BY <1>1, <1>4, <2>3 DEF Covered
      <4>2. ~Ahead(k, "setup")
        BY <1>4 DEF Ahead
      <4>3. QED
        BY <4>1, <4>2
    <3>2. InOrder(legs)
      BY <1>1, <2>3, BareAt DEF Fits
    <3>3. Opted(legs[j].assets)
      <4>1. legs[j].assets = legs[k].assets
        BY <2>3, <3>2 DEF InOrder
      <4>2. QED
        BY <2>3, <3>1, <4>1 DEF Opted, Ready
    <3>4. ~Ahead(j, "setup")'
      <4> SUFFICES ASSUME NEW i \in DOMAIN legs, i > k, legs[i].role = "setup" PROVE FALSE
        BY <1>4 DEF Ahead
      <4>1. i < k
        BY <2>3, <3>2 DEF InOrder
      <4>2. QED
        BY <1>4, <4>1
    <3>5. QED
      BY <2>2, <3>1, <3>3, <3>4
  <2>4. CASE legs[j].role = "deposit" /\ legs[k].role # "opt"
    BY <1>1, <1>5, <1>6, <2>1, <2>2, <2>4 DEF Covered
  <2>5. QED
    BY <2>2, <2>3, <2>4
<1>8. QED
  BY <1>3, <1>7 DEF CoverInv, OptLanded

\* A group is done and the call goes on.
LEMMA AdvanceCovers ==
  ASSUME EscrowInv, CoverInv, stage \in {"submit", "wait"}, NEW ls, Alike(legs, ls), Advance(ls),
         UNCHANGED <<call, record, optedIn, flying>>, Current.role # "setup",
         Current.role = "opt" => stage = "wait" /\ at \in landed
  PROVE  CoverInv'
<1>1. ProgressInv /\ IsLegs(legs) /\ legs' = ls
  BY DEF EscrowInv, ProgressInv, Advance
<1>2. at \in DOMAIN legs /\ at \in Nat /\ at > 0
  BY <1>1, CurrentIs DEF Working
<1>3. DepositsFly'
  BY DepositsKeep DEF CoverInv
<1>4. \/ stage' = "idle"
      \/ stage' = "quote" /\ at' = at /\ secret' = secret
      \/ stage' = "submit" /\ at' = at + 1 /\ secret' = secret
  BY DEF Advance, Finish
<1>5. CASE stage' = "idle"
  BY <1>3, <1>5, OverCovers
<1>6. CASE stage' # "idle"
  <2>1. /\ Behind \in Nat /\ at = Behind + 1 /\ Behind' = at /\ stage' # "wait"
        /\ secret' = secret
    BY <1>2, <1>4, <1>6 DEF Behind
  <2>2. legs[at].role # "setup"
        /\ (legs[at].role = "opt" => {secret} \X legs[at].assets \subseteq optedIn)
    BY DEF CoverInv, OptLanded, Current
  <2>3. QED
    BY <1>1, <1>2, <1>3, <2>1, <2>2, PassedCovers
<1>7. QED
  BY <1>5, <1>6

-----------------------------------------------------------------------------
(* The steps.                                                              *)

LEMMA BeginCovers ==
  ASSUME CoverInv, stage = "idle", NEW c \in Calls, AnswerAtOnce(c) \/ StartCall(c)
  PROVE  CoverInv'
<1>1. DepositsFly'
  BY DepositsKeep DEF CoverInv, AnswerAtOnce, StartCall
<1>2. legs' = <<>> /\ (stage' \in {"idle", "prepare"} \/ stage' = "quote")
  BY DEF AnswerAtOnce, StartCall, Begin
<1>3. Bare(legs')
  BY <1>2, NoLegs DEF Bare, ToSet
<1>4. QED
  BY <1>1, <1>2, <1>3, OverCovers, BareCovers

LEMMA PrepareClaimsCovers ==
  ASSUME CoverInv, PrepareClaims
  PROVE  CoverInv'
<1> DEFINE planned == PlanClaims(call.acts, Desk).planned
           role == IF call.analytics THEN "post" ELSE "claim"
           receive(id) == UNION {Receivable(a, call.shapes, Native) :
                                   a \in {b \in ToSet(call.acts) : b.id = id}}
<1>1. DepositsFly'
  BY DepositsKeep DEF CoverInv, PrepareClaims, chain
<1>2. \/ /\ legs' = [i \in DOMAIN planned |-> Leg(planned[i].act, role,
                     planned[i].quote, receive(planned[i].act))]
         /\ stage' \in {"idle", "quote"}
      \/ stage' = "idle"
  BY DEF PrepareClaims, Finish
<1>3. CASE stage' = "idle"
  BY <1>1, <1>3, OverCovers
<1>4. CASE stage' # "idle"
  <2>2. role \in {"post", "claim"}
    OBVIOUS
  <2>1. \A i \in DOMAIN legs' : legs'[i].role = role
    <3> HIDE DEF planned, role, receive
    <3>1. legs' = [i \in DOMAIN planned |-> Leg(planned[i].act, role,
                     planned[i].quote, receive(planned[i].act))]
      BY <1>2, <1>4
    <3>2. \A i \in DOMAIN legs' : legs'[i] = Leg(planned[i].act, role,
                     planned[i].quote, receive(planned[i].act))
      BY <3>1
    <3>3. QED
      BY <3>2, LegParts
  <2> HIDE DEF role
  <2>3. Bare(legs')
    BY <2>1, <2>2 DEF Bare, ToSet
  <2>4. QED
    BY <1>1, <1>2, <1>4, <2>3, BareCovers
<1>5. QED
  BY <1>3, <1>4

LEMMA QuotesAreBare ==
  ASSUME IsLegs(legs), Bare(legs),
         \/ QuoteSwap \/ QuoteClaims
         \/ \E compiled \in BOOLEAN : QuoteCompose(compiled)
  PROVE  Bare(legs')
<1>1. ASSUME NEW g, IsLeg(g), g.role \in {"swap", "optin", "enter"}
      PROVE  Bare(<<g>>) /\ Bare(Append(legs, g)) /\ IsLegs(Append(legs, g))
             /\ Append(legs, g) = legs \o <<g>>
  <2>1. ToSet(<<g>>) = {g}
    BY <1>1, OneLeg
  <2>2. ToSet(Append(legs, g)) \subseteq ToSet(legs) \cup {g} /\ IsLegs(Append(legs, g))
    BY <1>1, AppendIs
  <2>3. PICK S : legs \in Seq(S)
    BY DEF IsLegs
  <2>4. Append(legs, g) = legs \o <<g>>
    BY <2>3
  <2>5. QED
    BY <1>1, <2>1, <2>2, <2>4 DEF Bare
<1>2. CASE QuoteSwap
  <2>1. PICK g : g = Leg(Main.id, "swap", Null, {})
    OBVIOUS
  <2>2. PICK h : h = Leg(Main.id, "optin", Null, {Main.to})
    OBVIOUS
  <2>3. legs' \in {Append(legs, g), <<g>>, <<h>>}
    BY <1>2, <2>1, <2>2 DEF QuoteSwap
  <2>4. IsLeg(g) /\ g.role = "swap" /\ IsLeg(h) /\ h.role = "optin"
    BY <2>1, <2>2, LegIs
  <2>5. QED
    BY <1>1, <2>3, <2>4
<1>3. CASE \E compiled \in BOOLEAN : QuoteCompose(compiled)
  <2>1. PICK compiled \in BOOLEAN : QuoteCompose(compiled)
    BY <1>3
  <2>2. PICK g : g = Leg(call.acts[2].id, "swap", Null, {})
    OBVIOUS
  <2>3. PICK h : h = Leg(Main.id, "enter", Main.key, {})
    OBVIOUS
  <2>4. PICK o : o = Leg(Main.id, "optin", Null, {call.acts[2].to} \ (optedIn \cup {Native}))
    OBVIOUS
  <2>5. legs' \in {<<o>>, legs \o <<g, h>>, legs \o <<h>>}
    BY <2>1, <2>2, <2>3, <2>4 DEF QuoteCompose
  <2>6. /\ IsLeg(g) /\ g.role = "swap" /\ IsLeg(h) /\ h.role = "enter"
        /\ IsLeg(o) /\ o.role = "optin"
    BY <2>2, <2>3, <2>4, LegIs
  <2>7. Bare(<<o>>) /\ Bare(legs \o <<h>>)
    BY <1>1, <2>6
  <2>8. Bare(legs \o <<g, h>>)
    <3>1. PICK ms : ms = Append(legs, g)
      OBVIOUS
    <3>2. IsLegs(ms) /\ Bare(ms)
      BY <1>1, <2>6, <3>1
    <3>3. ToSet(Append(ms, h)) \subseteq ToSet(ms) \cup {h}
      BY <2>6, <3>2, AppendIs
    <3>4. Bare(Append(ms, h))
      BY <2>6, <3>2, <3>3 DEF Bare
    <3>5. PICK S : legs \in Seq(S)
      BY DEF IsLegs
    <3>6. PICK T : T = S \cup {g, h}
      OBVIOUS
    <3>7. legs \in Seq(T) /\ g \in T /\ h \in T
      BY <3>5, <3>6, SeqMonotonic
    <3>8. legs \o <<g, h>> = Append(Append(legs, g), h)
      BY <3>7
    <3>9. QED
      BY <3>1, <3>4, <3>8
  <2>9. QED
    BY <2>5, <2>7, <2>8
<1>4. CASE QuoteClaims
  <2>1. \E q : legs' = [i \in DOMAIN legs |-> [legs[i] EXCEPT !.quote = q[i]]]
    BY <1>4, QuotesMayMove
  <2>2. DOMAIN legs' = DOMAIN legs
    BY <2>1
  <2>3. ASSUME NEW i \in DOMAIN legs PROVE legs'[i].role = legs[i].role
    <3>1. PICK q : legs'[i] = [legs[i] EXCEPT !.quote = q]
      BY <2>1
    <3>2. IsLeg(legs[i])
      BY DEF IsLegs
    <3>3. legs'[i] = [act |-> legs[i].act, role |-> legs[i].role, quote |-> q,
                      assets |-> legs[i].assets, state |-> legs[i].state]
      BY <3>1, <3>2 DEF IsLeg
    <3>4. QED
      BY <3>3
  <2>4. QED
    BY <2>2, <2>3 DEF Bare, ToSet
<1>5. QED
  BY <1>2, <1>3, <1>4

LEMMA QuoteCovers ==
  ASSUME EscrowInv, CoverInv,
         \/ QuoteSwap \/ QuoteClaims
         \/ \E compiled \in BOOLEAN : QuoteCompose(compiled)
  PROVE  CoverInv'
<1>1. /\ stage = "quote" /\ stage' = "submit" /\ call.kind # "shape" /\ IsLegs(legs)
      /\ UNCHANGED <<record, optedIn, flying>>
  BY DEF QuoteSwap, QuoteClaims, QuoteCompose, Quoted, chain, EscrowInv, ProgressInv
<1>2. Bare(legs)
  BY <1>1 DEF CoverInv, Fits
<1>3. Bare(legs')
  BY <1>1, <1>2, QuotesAreBare
<1>4. DepositsFly'
  BY <1>1, DepositsKeep DEF CoverInv
<1>5. QED
  BY <1>1, <1>3, <1>4, BareCovers

LEMMA QuoteShapeCovers ==
  ASSUME EscrowInv, CoverInv, QuoteShape
  PROVE  CoverInv'
<1>1. /\ stage = "quote" /\ stage' = "submit" /\ call.kind = "shape" /\ at' = at + 1
      /\ secret' = IF Stepwise /\ legs[at + 1].role = "setup" THEN number ELSE secret
      /\ UNCHANGED <<legs, call, record, optedIn, flying>>
  BY DEF QuoteShape, Quoted, chain
<1>2. /\ IsLegs(legs) /\ at \in Nat /\ at + 1 \in DOMAIN legs
  BY <1>1, LenIs DEF EscrowInv, ProgressInv
<1>3. Behind = at /\ Behind' = at /\ Alike(legs, legs') /\ OptLanded'
  BY <1>1, <1>2 DEF Behind, Alike, OptLanded
<1>4. DepositsFly'
  BY <1>1, DepositsKeep DEF CoverInv
<1>5. CASE legs[at + 1].role = "setup"
  BY <1>1, <1>2, <1>3, <1>4, <1>5, SetupCovers
<1>6. CASE legs[at + 1].role # "setup"
  <2>1. secret' = secret
    BY <1>1, <1>6
  <2>2. QED
    BY <1>1, <1>3, <1>4, <2>1, SameCovers
<1>7. QED
  BY <1>5, <1>6

LEMMA SkipCovers ==
  ASSUME EscrowInv, CoverInv, SkipDeployed
  PROVE  CoverInv'
<1>1. /\ stage = "quote" /\ at' = at + 1 /\ legs' = [legs EXCEPT ![at + 1].state = "skipped"]
      /\ \/ at + 1 = Len(legs) /\ stage' = "idle"
         \/ at + 1 # Len(legs) /\ UNCHANGED <<stage, secret>>
      /\ UNCHANGED <<call, record, optedIn, flying>> /\ call.kind = "shape"
      /\ legs[at + 1].role = "deploy"
  BY DEF SkipDeployed, Mark, Finish, chain
<1>2. /\ IsLegs(legs) /\ at \in Nat /\ at + 1 \in DOMAIN legs
  BY <1>1, LenIs DEF EscrowInv, ProgressInv
<1>3. DepositsFly'
  BY <1>1, DepositsKeep DEF CoverInv
<1>4. CASE stage' = "idle"
  BY <1>3, <1>4, OverCovers
<1>5. CASE at + 1 # Len(legs) /\ UNCHANGED <<stage, secret>>
  <2>1. Alike(legs, legs')
    BY <1>1, <1>2, MarkIs
  <2>2. Behind = at /\ Behind' = at + 1
    BY <1>1, <1>5 DEF Behind
  <2>3. QED
    BY <1>1, <1>2, <1>3, <1>5, <2>1, <2>2, PassedCovers
<1>6. QED
  BY <1>1, <1>4, <1>5

LEMMA ThrowCovers ==
  ASSUME CoverInv, Fails \/ GiveUp \/ SaveFails \/ Crash
  PROVE  CoverInv'
<1>1. stage' = "idle" /\ UNCHANGED <<record, optedIn, flying>>
  BY DEF Fails, GiveUp, SaveFails, Crash, Throw, Finish, chain
<1>2. QED
  BY <1>1, DepositsKeep, OverCovers DEF CoverInv

LEMMA OptInFirstCovers ==
  ASSUME EscrowInv, CoverInv, OptInFirst
  PROVE  CoverInv'
<1>1. PICK g : g = Leg(Current.act, "optin", Null, Missing)
  OBVIOUS
<1>2. /\ stage = "submit" /\ stage' = "submit" /\ Current.role \in {"enter", "exit", "deploy", "claim"}
      /\ legs' = InsertAt(legs, at, g) /\ UNCHANGED <<record, optedIn, flying>>
  BY <1>1 DEF OptInFirst, NeedsOptInFirst, chain
<1>3. IsLegs(legs) /\ at \in DOMAIN legs
  BY <1>2, CurrentIs DEF EscrowInv, ProgressInv, Working
<1>4. IsLeg(g) /\ g.role = "optin"
  BY <1>1, LegIs
<1>5. ToSet(legs') \subseteq ToSet(legs) \cup {g}
  BY <1>2, <1>3, <1>4, InsertIs
<1>6. Bare(legs)
  <2>1. ~EscrowOnly(legs)
    BY <1>2, <1>3 DEF EscrowOnly, ToSet, Current
  <2>2. QED
    BY <1>2, <2>1 DEF CoverInv, Fits
<1>7. Bare(legs')
  BY <1>4, <1>5, <1>6 DEF Bare
<1>8. DepositsFly'
  BY <1>2, DepositsKeep DEF CoverInv
<1>9. QED
  BY <1>2, <1>7, <1>8, BareCovers

LEMMA SendCovers ==
  ASSUME EscrowInv, CoverInv, Send
  PROVE  CoverInv'
<1>1. /\ stage = "submit" /\ stage' = "wait" /\ at' = at /\ flying' = flying \cup {Group}
      /\ legs' = [legs EXCEPT ![at].state = "sent"]
      /\ UNCHANGED <<call, record, secret, optedIn, landed>>
  BY DEF Send, Sendable, Mark
<1>2. /\ IsLegs(legs) /\ at \in DOMAIN legs /\ at \in Nat /\ at > 0 /\ at \notin landed
      /\ number \in Nat
  BY <1>1, CurrentIs, ExecutionAssumption DEF EscrowInv, ProgressInv, Working
<1>3. Alike(legs, legs')
  BY <1>1, <1>2, MarkIs
<1>4. Behind = at - 1 /\ Behind' = at - 1 /\ OptLanded'
  BY <1>1, <1>2 DEF Behind, OptLanded
<1>5. ASSUME Current.role = "deposit"
      PROVE  record \in Escrows /\ record <= number /\ secret = record /\ Opted(Current.assets)
  <2>1. \A role : ~Ahead(at, role)
    BY <1>2, <1>4, LenIs DEF Ahead
  <2>2. Ready /\ Opted(Current.assets)
    <3>1. at > Behind
      BY <1>2, <1>4
    <3>2. QED
      BY <1>1, <1>2, <1>5, <2>1, <3>1 DEF CoverInv, Covered, Current
  <2>3. record \in escrows /\ escrows \subseteq 1..number
    BY <2>2 DEF EscrowInv, KeyInv, Ready
  <2>4. record \in 1..number
    BY <2>3
  <2>5. QED
    BY <1>2, <2>2, <2>4 DEF Ready
<1>6. DepositsFly'
  <2>1. \A s : Opted(s)' <=> Opted(s)
    BY <1>1 DEF Opted
  <2>2. /\ Group.role = Current.role /\ Group.number = number
        /\ Group.escrow = secret /\ Group.assets = Current.assets
    BY DEF Group
  <2>3. ASSUME NEW g \in flying', g.role = "deposit"
        PROVE  record \in Escrows /\ record <= g.number /\ g.escrow = record /\ Opted(g.assets)
    BY <1>1, <1>5, <2>2, <2>3 DEF CoverInv, DepositsFly
  <2>4. QED
    BY <1>1, <2>1, <2>3 DEF DepositsFly, Escrows
<1>7. QED
  BY <1>1, <1>3, <1>4, <1>6, SameCovers

LEMMA ConfirmCovers ==
  ASSUME EscrowInv, CoverInv, Post \/ Confirm
  PROVE  CoverInv'
<1>1. PICK ms : ms = Mark(at, "confirmed")
  OBVIOUS
<1>2. /\ stage \in {"submit", "wait"} /\ stage \in Working /\ Advance(ms)
      /\ Current.role # "setup"
      /\ Current.role = "opt" => stage = "wait" /\ at \in landed
      /\ UNCHANGED <<call, record, optedIn, flying>>
  BY <1>1 DEF Post, Confirm, Confirms, Working, chain
<1>3. Alike(legs, ms)
  BY <1>1, <1>2, CurrentIs, MarkIs DEF Mark, EscrowInv, ProgressInv
<1>4. QED
  BY <1>2, <1>3, AdvanceCovers

LEMMA ConfirmSetupCovers ==
  ASSUME EscrowInv, CoverInv, ConfirmSetup
  PROVE  CoverInv'
<1>1. /\ stage = "wait" /\ stage' \in {"save", "resave"} /\ at' = at /\ Current.role = "setup"
      /\ legs' = [legs EXCEPT ![at].state = "confirmed"]
      /\ UNCHANGED <<call, record, optedIn, flying>>
  BY DEF ConfirmSetup, Confirms, Mark, chain
<1>2. IsLegs(legs) /\ at \in DOMAIN legs /\ at \in Nat /\ at > 0
  BY <1>1, CurrentIs DEF EscrowInv, ProgressInv, Working
<1>3. Alike(legs, legs')
  BY <1>1, <1>2, MarkIs
<1>4. /\ Behind \in Nat /\ Behind + 1 = at /\ Behind' = Behind /\ OptLanded'
  BY <1>1, <1>2 DEF Behind, OptLanded
<1>5. DepositsFly'
  BY <1>1, DepositsKeep DEF CoverInv
<1>6. legs[Behind + 1].role = "setup" /\ Behind + 1 \in DOMAIN legs
  BY <1>1, <1>2, <1>4 DEF Current
<1>7. QED
  BY <1>1, <1>2, <1>3, <1>4, <1>5, <1>6, SetupCovers

LEMMA StoreCovers ==
  ASSUME EscrowInv, CoverInv, OpenRecord \/ WriteRecord
  PROVE  CoverInv'
<1>1. /\ stage \in Saving /\ stage \in Working /\ UNCHANGED <<call, optedIn, flying>>
      /\ ProgressInv /\ RoleInv
  BY DEF OpenRecord, WriteRecord, Saving, Working, chain, EscrowInv
<1>2. /\ IsLegs(legs) /\ at \in DOMAIN legs /\ at \in Nat /\ at > 0
      /\ Current.role = "setup" /\ secret = number
  BY <1>1, CurrentIs DEF ProgressInv, RoleInv
<1>3. Behind \in Nat /\ Behind + 1 = at
  BY <1>1, <1>2 DEF Behind, Saving
<1>4. DepositsFly'
  BY <1>1, NoDepositFlies DEF CoverInv, DepositsFly
<1>5. CASE OpenRecord \/ (WriteRecord /\ stage = "write")
  <2>1. /\ stage' \in Saving /\ UNCHANGED <<legs, at>>
    BY <1>5 DEF OpenRecord, WriteRecord, Saving, work
  <2>2. Alike(legs, legs') /\ Behind' = Behind /\ OptLanded'
    BY <1>1, <1>2, <2>1 DEF Alike, Behind, Saving, OptLanded
  <2>3. legs[Behind + 1].role = "setup" /\ Behind + 1 \in DOMAIN legs
    BY <1>2, <1>3 DEF Current
  <2>4. stage \notin {"idle", "prepare"}
    BY <1>1 DEF Saving
  <2>5. QED
    BY <1>1, <1>2, <1>3, <1>4, <2>2, <2>3, <2>4, SetupCovers
<1>6. CASE WriteRecord /\ stage # "write"
  <2>1. Advance(legs) /\ record' = secret /\ legs' = legs
    BY <1>6 DEF WriteRecord, Advance
  <2>2. \/ stage' = "idle"
        \/ stage' = "quote" /\ at' = at /\ secret' = secret
        \/ stage' = "submit" /\ at' = at + 1 /\ secret' = secret
    BY <2>1 DEF Advance, Finish
  <2>3. CASE stage' = "idle"
    BY <1>4, <2>3, OverCovers
  <2>4. CASE stage' # "idle"
    <3>1. Behind' = at /\ secret' = secret /\ stage' # "wait"
      BY <1>2, <2>2, <2>4 DEF Behind
    <3>2. Ready'
      <4>1. number \in Escrows
        BY <1>1, ExecutionAssumption DEF ProgressInv, Saving, Escrows
      <4>2. QED
        BY <1>2, <2>1, <3>1, <4>1 DEF Ready, Escrows
    <3>3. Fits(legs) /\ Covered
      BY <1>1 DEF CoverInv, Saving
    <3>4. Fits(legs)'
      <4>1. Main' = Main /\ (Sequential' <=> Sequential)
        BY <1>1 DEF Main, Sequential
      <4>2. QED
        BY <1>1, <2>1, <3>3, <4>1 DEF Fits, InOrder, Bare, EscrowOnly
    <3>5. ASSUME NEW j \in DOMAIN legs, j > at, legs[j].role = "deposit"
          PROVE  Ahead(j, "opt")'
      <4>1. j \in Nat /\ j > Behind /\ Behind < at
        BY <1>2, <1>3, <3>5, LenIs
      <4>2. Ahead(j, "setup")
        BY <1>2, <3>5, <4>1 DEF Ahead, Current
      <4>3. PICK i \in DOMAIN legs : i < j /\ i > Behind /\ legs[i].role = "opt"
        BY <3>3, <3>5, <4>1, <4>2 DEF Covered, Ahead
      <4>4. i > at
        <5>1. i # at /\ i \in Nat
          BY <1>2, <4>3, LenIs DEF Current
        <5>2. QED
          BY <1>2, <1>3, <4>3, <5>1
      <4>5. QED
        BY <2>1, <3>1, <4>3, <4>4 DEF Ahead
    <3>6. Covered'
      BY <2>1, <3>1, <3>2, <3>5 DEF Covered
    <3>7. QED
      BY <1>4, <3>1, <3>4, <3>6 DEF CoverInv, OptLanded
  <2>5. QED
    BY <2>3, <2>4
<1>7. QED
  BY <1>5, <1>6

LEMMA LandCovers ==
  ASSUME EscrowInv, CoverInv, NEW g \in flying, Land(g)
  PROVE  CoverInv'
<1>1. /\ flying' \subseteq flying /\ optedIn \subseteq optedIn'
      /\ landed' = landed \cup (IF g.number = number /\ call # Null THEN {g.leg} ELSE {})
      /\ g.role = "opt" => {g.escrow} \X g.assets \subseteq optedIn'
      /\ UNCHANGED <<call, number, stage, legs, at, secret, record>>
  BY DEF Land, work
<1>2. DepositsFly'
  BY <1>1, DepositsKeep DEF CoverInv
<1>3. CASE stage \in {"idle", "prepare"}
  BY <1>1, <1>2, <1>3, OverCovers
<1>4. CASE stage \notin {"idle", "prepare"}
  <2>1. OptLanded'
    <3> SUFFICES ASSUME stage = "wait", at \in landed', Current.role = "opt"
                 PROVE  {secret} \X Current.assets \subseteq optedIn'
      BY <1>1 DEF OptLanded, Current
    <3>1. CASE at \in landed
      BY <1>1, <1>4, <3>1 DEF CoverInv, OptLanded
    <3>2. CASE at \notin landed
      <4>1. g.number = number
        BY <1>1, <3>2
      <4>2. g = Group
        BY <4>1 DEF EscrowInv, ProgressInv, FlightInv
      <4>3. g.role = "opt" /\ g.escrow = secret /\ g.assets = Current.assets
        BY <4>2 DEF Group
      <4>4. QED
        BY <1>1, <4>3
    <3>3. QED
      BY <3>1, <3>2
  <2>2. Alike(legs, legs') /\ Behind' = Behind
    BY <1>1 DEF Alike, Behind, EscrowInv, ProgressInv
  <2>3. QED
    BY <1>1, <1>2, <1>4, <2>1, <2>2, SameCovers
<1>5. QED
  BY <1>3, <1>4

LEMMA StutterCovers == CoverInv /\ IsLegs(legs) /\ UNCHANGED vars => CoverInv'
<1> SUFFICES ASSUME CoverInv, IsLegs(legs), UNCHANGED vars PROVE CoverInv'
  OBVIOUS
<1>1. UNCHANGED <<call, stage, legs, at, secret, record, flying, landed, optedIn>>
  BY DEF vars, work, chain
<1>2. DepositsFly'
  BY <1>1, DepositsKeep DEF CoverInv
<1>3. CASE stage \in {"idle", "prepare"}
  BY <1>1, <1>2, <1>3, OverCovers
<1>4. CASE stage \notin {"idle", "prepare"}
  <2>1. OptLanded' /\ Alike(legs, legs') /\ Behind' = Behind
    BY <1>1, <1>4 DEF CoverInv, OptLanded, Current, Alike, Behind
  <2>2. QED
    BY <1>1, <1>2, <1>4, <2>1, SameCovers
<1>5. QED
  BY <1>3, <1>4

LEMMA CoverInvStep == EscrowInv /\ CoverInv /\ [Next]_vars => CoverInv'
<1> SUFFICES ASSUME EscrowInv, CoverInv, [Next]_vars PROVE CoverInv'
  OBVIOUS
<1>1. EscrowInv' /\ IsLegs(legs)
  BY EscrowInvStep DEF EscrowInv, ProgressInv
<1>2. CASE NextCall
  BY <1>2, BeginCovers DEF NextCall
<1>3. CASE PrepareClaims \/ PrepareShape
  BY <1>1, <1>3, PrepareClaimsCovers, PrepareShapeCovers
<1>4. CASE QuoteSwap \/ QuoteClaims \/ \E compiled \in BOOLEAN : QuoteCompose(compiled)
  BY <1>4, QuoteCovers
<1>5. CASE QuoteShape \/ SkipDeployed
  BY <1>5, QuoteShapeCovers, SkipCovers
<1>6. CASE Fails \/ GiveUp \/ SaveFails \/ Crash
  BY <1>6, ThrowCovers
<1>7. CASE OptInFirst \/ Send \/ Post \/ Confirm
  BY <1>7, OptInFirstCovers, SendCovers, ConfirmCovers
<1>8. CASE ConfirmSetup \/ OpenRecord \/ WriteRecord
  BY <1>8, ConfirmSetupCovers, StoreCovers
<1>9. CASE \E g \in flying : Land(g)
  BY <1>9, LandCovers
<1>10. CASE Rest \/ UNCHANGED vars
  BY <1>1, <1>10, StutterCovers DEF Rest
<1>11. QED
  BY <1>2, <1>3, <1>4, <1>5, <1>6, <1>7, <1>8, <1>9, <1>10 DEF Next

\* executeSequentialEscrowShapes: a deposit is sent only into an escrow whose key is
\* stored and that holds an opt-in for the asset, after any crash or lost answer.
THEOREM DepositsAreCovered == Spec => []DepositIsCovered
<1>1. Init => CoverInv
  BY DEF Init, CoverInv, DepositsFly
<1>2. CoverInv => DepositIsCovered
  BY DEF CoverInv, DepositsFly, DepositIsCovered, Opted
<1>3. QED
  BY <1>1, <1>2, CoverInvStep, EscrowInvHolds, PTL DEF Spec

-----------------------------------------------------------------------------
(* The groups of a claim batch.  They follow the plan, with opt-ins between *)
(* them and, once quoted, with the quotes of equal keys exchanged.          *)

Plan == PlanClaims(call.acts, Desk).planned
IsClaim(g) == g.role \in {"claim", "post"}

AsPlanned(ls, planned) ==
    /\ DOMAIN ls = DOMAIN planned
    /\ \A i \in DOMAIN ls : /\ IsClaim(ls[i])
                            /\ ls[i].act = planned[i].act
                            /\ ls[i].quote = planned[i].quote

\* The k-th planned claim is the group at pos[k]; it has the quote of the
\* perm[k]-th.
Lines(ls, planned, pos, perm) ==
    /\ \A k, l \in DOMAIN planned : k < l => pos[k] < pos[l]
    /\ IsInjective(perm)
    /\ \A i \in DOMAIN ls : IsClaim(ls[i]) <=> \E k \in DOMAIN planned : pos[k] = i
    /\ \A k \in DOMAIN planned :
        /\ ls[pos[k]].act = planned[k].act
        /\ ls[pos[k]].quote = planned[perm[k]].quote
        /\ planned[perm[k]].quote.key = planned[k].quote.key

LinedUp(ls, planned) ==
    \E pos \in [DOMAIN planned -> DOMAIN ls], perm \in [DOMAIN planned -> DOMAIN planned] :
        Lines(ls, planned, pos, perm)

ClaimInv ==
    call # Null =>
        /\ call \in Calls
        /\ call.kind = "claims" =>
            /\ legs = <<>> \/ LinedUp(legs, Plan)
            /\ stage = "quote" => AsPlanned(legs, Plan)

LEMMA AsPlannedLinesUp ==
  ASSUME NEW ls, NEW planned, AsPlanned(ls, planned)
  PROVE  LinedUp(ls, planned)
<1> DEFINE same == [k \in DOMAIN planned |-> k]
<1>1. same \in [DOMAIN planned -> DOMAIN ls] /\ same \in [DOMAIN planned -> DOMAIN planned]
  BY DEF AsPlanned
<1>2. \A k \in DOMAIN planned : same[k] = k
  OBVIOUS
<1>3. IsInjective(same)
  BY DEF IsInjective
<1> HIDE DEF same
<1>4. Lines(ls, planned, same, same)
  BY <1>2, <1>3 DEF AsPlanned, Lines
<1>5. QED
  BY <1>1, <1>4 DEF LinedUp

\* Groups that keep their action, role and quote.
LEMMA StaysLinedUp ==
  ASSUME NEW ls, NEW ms, NEW planned, LinedUp(ls, planned), DOMAIN ms = DOMAIN ls,
         \A i \in DOMAIN ls : /\ ms[i].act = ls[i].act /\ ms[i].role = ls[i].role
                              /\ ms[i].quote = ls[i].quote
  PROVE  LinedUp(ms, planned)
<1>1. PICK pos \in [DOMAIN planned -> DOMAIN ls], perm \in [DOMAIN planned -> DOMAIN planned] :
            Lines(ls, planned, pos, perm)
  BY DEF LinedUp
<1>2. \A k \in DOMAIN planned : pos[k] \in DOMAIN ls
  OBVIOUS
<1>3. Lines(ms, planned, pos, perm)
  BY <1>1, <1>2 DEF Lines, IsClaim
<1>4. QED
  BY <1>1, <1>3 DEF LinedUp

\* prepareStandaloneOptInsOnly: the opt-ins push the claims behind them back.
LEMMA InsertLinesUp ==
  ASSUME NEW ls, IsLegs(ls), NEW i \in DOMAIN ls, NEW g, g.role = "optin",
         NEW planned, LinedUp(ls, planned)
  PROVE  LinedUp(InsertAt(ls, i, g), planned)
<1>1. PICK ms : ms = InsertAt(ls, i, g)
  OBVIOUS
<1>2. /\ DOMAIN ms = 1..(Len(ls) + 1)
      /\ \A j \in DOMAIN ms :
            ms[j] = IF j < i THEN ls[j] ELSE IF j = i THEN g ELSE ls[j - 1]
  BY <1>1, InsertParts
<1>3. PICK n \in Nat : n = Len(ls) /\ DOMAIN ls = 1..n
  BY LenIs
<1>4. PICK pos \in [DOMAIN planned -> 1..n], perm \in [DOMAIN planned -> DOMAIN planned] :
            Lines(ls, planned, pos, perm)
  BY <1>3 DEF LinedUp
<1> DEFINE moved == [k \in DOMAIN planned |-> IF pos[k] < i THEN pos[k] ELSE pos[k] + 1]
<1>5. \A k \in DOMAIN planned :
        /\ pos[k] \in 1..n
        /\ moved[k] = IF pos[k] < i THEN pos[k] ELSE pos[k] + 1
        /\ moved[k] \in 1..(n + 1)
  BY <1>3
<1>6. moved \in [DOMAIN planned -> DOMAIN ms]
  BY <1>2, <1>3, <1>5
<1> HIDE DEF moved
<1>7. \A k \in DOMAIN planned : ms[moved[k]] = ls[pos[k]]
  <2> SUFFICES ASSUME NEW k \in DOMAIN planned PROVE ms[moved[k]] = ls[pos[k]]
    OBVIOUS
  <2>1. PICK p \in 1..n : p = pos[k]
    BY <1>5
  <2>2. PICK q \in 1..(n + 1) : q = moved[k]
    BY <1>5
  <2>3. q = IF p < i THEN p ELSE p + 1
    BY <1>5, <2>1, <2>2
  <2>4. ms[q] = IF q < i THEN ls[q] ELSE IF q = i THEN g ELSE ls[q - 1]
    BY <1>2, <1>3
  <2>5. ms[q] = ls[p]
    BY <1>3, <2>3, <2>4
  <2>6. QED
    BY <2>1, <2>2, <2>5
<1>8. \A k, l \in DOMAIN planned : k < l => moved[k] < moved[l]
  <2> SUFFICES ASSUME NEW k \in DOMAIN planned, NEW l \in DOMAIN planned, k < l
               PROVE  moved[k] < moved[l]
    OBVIOUS
  <2>1. pos[k] < pos[l]
    BY <1>4 DEF Lines
  <2>2. QED
    BY <1>3, <1>5, <2>1
<1>9. ASSUME NEW j \in DOMAIN ms
      PROVE  IsClaim(ms[j]) <=> \E k \in DOMAIN planned : moved[k] = j
  <2>1. j \in 1..(n + 1) /\ i \in 1..n
    BY <1>2, <1>3
  <2>2. CASE j = i
    <3>1. ~IsClaim(ms[j])
      BY <1>2, <2>2 DEF IsClaim
    <3>2. \A k \in DOMAIN planned : moved[k] # i
      BY <1>5, <2>1
    <3>3. QED
      BY <2>2, <3>1, <3>2
  <2>3. CASE j # i
    <3>1. PICK p \in 1..n : j = IF p < i THEN p ELSE p + 1
      <4>1. CASE j < i
        BY <2>1, <4>1
      <4>2. CASE ~(j < i)
        <5>1. j - 1 \in 1..n /\ ~(j - 1 < i) /\ j = (j - 1) + 1
          BY <2>1, <2>3, <4>2
        <5>2. QED
          BY <5>1
      <4>3. QED
        BY <4>1, <4>2
    <3>2. ms[j] = ls[p]
      BY <1>2, <2>1, <3>1
    <3>3. IsClaim(ls[p]) <=> \E k \in DOMAIN planned : pos[k] = p
      BY <1>3, <1>4 DEF Lines
    <3>4. \A k \in DOMAIN planned : pos[k] = p <=> moved[k] = j
      BY <1>5, <2>1, <3>1
    <3>5. QED
      BY <3>2, <3>3, <3>4
  <2>4. QED
    BY <2>2, <2>3
<1>10. Lines(ms, planned, moved, perm)
  BY <1>4, <1>7, <1>8, <1>9 DEF Lines
<1>11. QED
  BY <1>1, <1>6, <1>10 DEF LinedUp

\* requestQuotes: whatever the order of the answer, each claim gets a quote with
\* its key, and no quote goes to two claims.
LEMMA QuotesLineUp ==
  ASSUME QuoteClaims, IsLegs(legs), NEW planned, AsPlanned(legs, planned)
  PROVE  LinedUp(legs', planned)
<1>1. PICK n \in Nat : n = Len(legs) /\ DOMAIN legs = 1..n
  BY LenIs
<1>2. PICK order \in {f \in [DOMAIN legs -> DOMAIN legs] : IsInjective(f)} :
        LET asked  == [i \in DOMAIN legs |-> legs[i].quote]
            answer == [i \in DOMAIN legs |-> asked[order[i]]]
            pairs  == Align(asked, answer)
        IN  legs' = [i \in DOMAIN legs |-> [legs[i] EXCEPT !.quote = answer[pairs[i]]]]
  BY DEF QuoteClaims
<1> DEFINE asked  == [i \in DOMAIN legs |-> legs[i].quote]
           answer == [i \in DOMAIN legs |-> asked[order[i]]]
           pairs  == Align(asked, answer)
           T      == {legs[i].quote : i \in 1..n}
<1>3. legs' = [i \in DOMAIN legs |-> [legs[i] EXCEPT !.quote = answer[pairs[i]]]]
  BY <1>2
<1>4. order \in [1..n -> 1..n] /\ IsInjective(order)
  BY <1>1
<1>5. asked \in [1..n -> T] /\ \A i \in 1..n : asked[i] = legs[i].quote
  BY <1>1
<1>6. answer = [i \in 1..n |-> asked[order[i]]]
  BY <1>1
<1> HIDE DEF asked, answer, pairs, T
<1>7. answer \in [1..n -> T] /\ \A i \in 1..n : answer[i] = asked[order[i]]
  BY <1>4, <1>5, <1>6
<1>8. Aligned(n, asked, answer, pairs)
  <2>1. /\ asked \in Seq(T) /\ DOMAIN asked = 1..n
        /\ answer \in Seq(T) /\ DOMAIN answer = 1..n
    BY <1>5, <1>7
  <2>2. Len(asked) = n /\ Len(answer) = n
    BY <2>1, LenProperties
  <2>3. Shuffled(n, asked, order, answer)
    BY <1>4, <1>6, <2>1, <2>2 DEF Shuffled
  <2>4. QED
    BY <2>3, ShuffledIsAligned DEF pairs
<1>9. /\ pairs \in [1..n -> 1..n] /\ IsInjective(pairs)
       /\ \A i \in 1..n : answer[pairs[i]].key = asked[i].key
  BY <1>8 DEF Aligned
<1> DEFINE same == [k \in 1..n |-> k]
           perm == [k \in 1..n |-> order[pairs[k]]]
<1>10. /\ same \in [1..n -> 1..n] /\ \A k \in 1..n : same[k] = k
      /\ perm \in [1..n -> 1..n] /\ \A k \in 1..n : perm[k] = order[pairs[k]]
  BY <1>4, <1>9
<1> HIDE DEF same, perm
<1>11. IsInjective(perm)
  <2> SUFFICES ASSUME NEW a \in 1..n, NEW b \in 1..n, perm[a] = perm[b] PROVE a = b
    BY <1>10 DEF IsInjective
  <2>1. pairs[a] \in 1..n /\ pairs[b] \in 1..n /\ order[pairs[a]] = order[pairs[b]]
    BY <1>10, <1>9
  <2>2. pairs[a] = pairs[b]
    BY <1>4, <2>1 DEF IsInjective
  <2>3. QED
    BY <1>9, <2>2 DEF IsInjective
<1>12. DOMAIN planned = 1..n
  BY <1>1 DEF AsPlanned
<1>13. ASSUME NEW i \in 1..n
       PROVE  /\ legs'[i].act = planned[i].act /\ IsClaim(legs'[i])
              /\ legs'[i].quote = planned[perm[i]].quote
              /\ planned[perm[i]].quote.key = planned[i].quote.key
  <2>1. IsLeg(legs[i])
    BY <1>1 DEF IsLegs
  <2>2. legs'[i] = [legs[i] EXCEPT !.quote = answer[pairs[i]]]
    BY <1>1, <1>3
  <2>3. PICK p \in 1..n : p = pairs[i]
    BY <1>9
  <2>4. PICK q \in 1..n : q = order[p]
    BY <1>4
  <2>5. perm[i] = q
    BY <1>10, <2>3, <2>4
  <2>6. answer[p] = asked[q]
    BY <1>7, <2>4
  <2>7. asked[q] = planned[q].quote /\ asked[i] = planned[i].quote
    <3>1. asked[q] = legs[q].quote /\ asked[i] = legs[i].quote
      BY <1>5
    <3>2. legs[q].quote = planned[q].quote /\ legs[i].quote = planned[i].quote
      BY <1>1 DEF AsPlanned
    <3>3. QED
      BY <3>1, <3>2
  <2>8. answer[p].key = asked[i].key
    BY <1>9, <2>3
  <2>9. legs'[i] = [act |-> legs[i].act, role |-> legs[i].role, quote |-> planned[q].quote,
                    assets |-> legs[i].assets, state |-> legs[i].state]
    BY <2>1, <2>2, <2>3, <2>6, <2>7 DEF IsLeg
  <2>10. legs[i].act = planned[i].act /\ IsClaim(legs[i])
    BY <1>1 DEF AsPlanned
  <2>11. legs'[i].act = planned[i].act /\ IsClaim(legs'[i])
    BY <2>9, <2>10 DEF IsClaim
  <2>12. legs'[i].quote = planned[q].quote
    BY <2>9
  <2>13. planned[q].quote.key = planned[i].quote.key
    BY <2>6, <2>7, <2>8
  <2>14. QED
    BY <2>5, <2>11, <2>12, <2>13
<1>14. PICK ms : ms = legs'
  OBVIOUS
<1>15. DOMAIN ms = 1..n
  BY <1>1, <1>3, <1>14
<1>16. Lines(ms, planned, same, perm)
  BY <1>10, <1>11, <1>12, <1>13, <1>14, <1>15 DEF Lines
<1>17. LinedUp(ms, planned)
  BY <1>10, <1>12, <1>15, <1>16 DEF LinedUp
<1>18. QED
  BY <1>14, <1>17

\* The k-th of increasing positions has rank k among them.
Rank(T, i) == Cardinality({j \in T : j <= i})
Ranks(n, m, pos, T, k) ==
    /\ k \in 1..n /\ n \in Nat /\ m \in Nat /\ pos \in [1..n -> 1..m]
    /\ \A l, h \in 1..n : l < h => pos[l] < pos[h]
    /\ \A i : i \in T <=> \E l \in 1..n : pos[l] = i

LEMMA RankIs ==
  ASSUME NEW n, NEW m, NEW pos, NEW T, NEW k, Ranks(n, m, pos, T, k)
  PROVE  Rank(T, pos[k]) = k
<1>0. /\ k \in 1..n /\ n \in Nat /\ m \in Nat /\ pos \in [1..n -> 1..m]
      /\ \A l, h \in 1..n : l < h => pos[l] < pos[h]
      /\ \A i : i \in T <=> \E l \in 1..n : pos[l] = i
  BY DEF Ranks
<1>1. PICK U : U = {i \in T : i <= pos[k]}
  OBVIOUS
<1>2. PICK f : f = [l \in 1..k |-> pos[l]]
  OBVIOUS
<1>3. \A l \in 1..n : pos[l] \in 1..m /\ pos[l] \in T /\ (pos[l] <= pos[k] <=> l <= k)
  <2> SUFFICES ASSUME NEW l \in 1..n
               PROVE  pos[l] \in 1..m /\ pos[l] \in T /\ (pos[l] <= pos[k] <=> l <= k)
    OBVIOUS
  <2>1. pos[l] \in 1..m /\ pos[k] \in 1..m /\ pos[l] \in T
    BY <1>0
  <2>2. (l < k => pos[l] < pos[k]) /\ (k < l => pos[k] < pos[l])
    BY <1>0
  <2>3. l < k \/ l = k \/ k < l
    BY <1>0
  <2>4. QED
    BY <1>0, <2>1, <2>2, <2>3
<1>4. f \in [1..k -> U]
  <2>1. \A l \in 1..k : l \in 1..n /\ l <= k
    BY <1>0
  <2>2. \A l \in 1..k : f[l] = pos[l] /\ pos[l] \in U
    BY <1>1, <1>2, <1>3, <2>1
  <2>3. QED
    BY <1>2, <2>2
<1>5. \A a, b \in 1..k : f[a] = f[b] => a = b
  <2> SUFFICES ASSUME NEW a \in 1..k, NEW b \in 1..k, f[a] = f[b] PROVE a = b
    OBVIOUS
  <2>1. a \in 1..n /\ b \in 1..n /\ pos[a] = pos[b]
    BY <1>0, <1>2
  <2>2. ~(a < b) /\ ~(b < a)
    BY <1>0, <2>1
  <2>3. QED
    BY <1>0, <2>2
<1>6. \A i \in U : \E l \in 1..k : f[l] = i
  <2> SUFFICES ASSUME NEW i \in U PROVE \E l \in 1..k : f[l] = i
    OBVIOUS
  <2>1. PICK l \in 1..n : pos[l] = i
    BY <1>0, <1>1
  <2>2. l \in 1..k
    BY <1>0, <1>1, <1>3, <2>1
  <2>3. QED
    BY <1>2, <2>1, <2>2
<1>7. f \in Bijection(1..k, U)
  BY <1>4, <1>5, <1>6 DEF Bijection, Injection, Surjection, IsInjective
<1>8. IsFiniteSet(1..k) /\ Cardinality(1..k) = k
  BY <1>0, FS_Interval
<1>9. Cardinality(U) = Cardinality(1..k)
  BY <1>7, <1>8, FS_Bijection DEF ExistsBijection
<1>10. QED
  BY <1>1, <1>8, <1>9 DEF Rank

Follows(ls, planned) ==
    LET claims == {i \in DOMAIN ls : IsClaim(ls[i])}
    IN  /\ \A i, j \in claims : ls[i].quote = ls[j].quote => i = j
        /\ (\A i, j \in DOMAIN planned :
                i # j => planned[i].quote.key # planned[j].quote.key) =>
           \A i \in claims :
                [act |-> ls[i].act, quote |-> ls[i].quote] = planned[Rank(claims, i)]

\* Groups that are lined up with a plan submit what was planned.
LEMMA LinedUpFollows ==
  ASSUME NEW ls, IsLegs(ls), NEW planned, IsPlan(planned), LinedUp(ls, planned)
  PROVE  Follows(ls, planned)
<1> DEFINE claims == {i \in DOMAIN ls : IsClaim(ls[i])}
<1>1. PICK m \in Nat : m = Len(ls) /\ DOMAIN ls = 1..m
  BY LenIs
<1>2. PICK n \in Nat : n = Len(planned) /\ DOMAIN planned = 1..n
  BY LenProperties DEF IsPlan
<1>3. PICK pos \in [1..n -> 1..m], perm \in [1..n -> 1..n] : Lines(ls, planned, pos, perm)
  BY <1>1, <1>2 DEF LinedUp
<1>4. /\ \A k, l \in 1..n : k < l => pos[k] < pos[l]
      /\ IsInjective(perm)
      /\ \A i \in 1..m : IsClaim(ls[i]) <=> \E k \in 1..n : pos[k] = i
      /\ \A k \in 1..n : /\ ls[pos[k]].act = planned[k].act
                         /\ ls[pos[k]].quote = planned[perm[k]].quote
                         /\ planned[perm[k]].quote.key = planned[k].quote.key
  BY <1>1, <1>2, <1>3 DEF Lines
<1>5. \A i : i \in claims <=> \E k \in 1..n : pos[k] = i
  BY <1>1, <1>4
<1> HIDE DEF claims
<1>6. ASSUME NEW i \in claims, NEW j \in claims, ls[i].quote = ls[j].quote
      PROVE  i = j
  <2>1. PICK k \in 1..n, l \in 1..n : pos[k] = i /\ pos[l] = j
    BY <1>5
  <2>2. PICK a \in 1..n, b \in 1..n : a = perm[k] /\ b = perm[l]
    BY <1>3
  <2>3. planned[a].quote = planned[b].quote
    BY <1>4, <1>6, <2>1, <2>2
  <2>4. a = b
    BY <1>2, <2>3 DEF IsPlan, Distinct
  <2>5. k = l
    <3>1. \A x, y \in 1..n : perm[x] = perm[y] => x = y
      BY <1>4 DEF IsInjective
    <3>2. QED
      BY <2>2, <2>4, <3>1
  <2>6. QED
    BY <2>1, <2>5
<1>7. ASSUME \A i, j \in DOMAIN planned :
                i # j => planned[i].quote.key # planned[j].quote.key,
             NEW i \in claims
      PROVE  [act |-> ls[i].act, quote |-> ls[i].quote] =
             planned[Rank(claims, i)]
  <2>1. PICK k \in 1..n : pos[k] = i
    BY <1>5
  <2>2. Rank(claims, pos[k]) = k
    <3>1. Ranks(n, m, pos, claims, k)
      BY <1>3, <1>4, <1>5 DEF Ranks
    <3>2. QED
      BY <3>1, RankIs
  <2>3. PICK a \in 1..n : a = perm[k]
    BY <1>3
  <2>4. planned[a].quote.key = planned[k].quote.key
    BY <1>4, <2>3
  <2>5. a = k
    BY <1>2, <1>7, <2>4
  <2>6. ls[i].act = planned[k].act /\ ls[i].quote = planned[k].quote
    <3>1. /\ ls[pos[k]].act = planned[k].act
          /\ ls[pos[k]].quote = planned[perm[k]].quote
      BY <1>4
    <3>2. QED
      BY <2>1, <2>3, <2>5, <3>1
  <2>7. planned[k] = [act |-> planned[k].act, quote |-> planned[k].quote]
    BY <1>2 DEF IsPlan
  <2>8. QED
    BY <2>1, <2>2, <2>6, <2>7
<1>8. QED
  BY <1>6, <1>7 DEF Follows, claims

-----------------------------------------------------------------------------
(* The steps.                                                              *)

\* The plan of a call.
LEMMA CallPlan ==
  ASSUME call \in Calls
  PROVE  IsPlan(Plan)
<1>1. IsDesk(Desk) /\ call.acts \in Seq(ToSet(call.acts))
  BY DeskAssumption, ActsAssumption DEF IsDesk
<1>2. QED
  BY <1>1, PlanIs DEF Plan

LEMMA PrepareClaimsLinesUp ==
  ASSUME ProgressInv, PrepareClaims
  PROVE  ClaimInv'
<1> DEFINE role == IF call.analytics THEN "post" ELSE "claim"
           receive(id) == UNION {Receivable(a, call.shapes, Native) :
                                   a \in {b \in ToSet(call.acts) : b.id = id}}
<1>1. /\ call' = call /\ call \in Calls /\ legs = <<>>
      /\ \/ legs' = [i \in DOMAIN Plan |-> Leg(Plan[i].act, role, Plan[i].quote,
                                               receive(Plan[i].act))]
         \/ legs' = legs /\ stage' = "idle"
  BY DEF PrepareClaims, Plan, ProgressInv
<1>2. Plan' = Plan
  BY <1>1 DEF Plan
<1>3. CASE legs' = [i \in DOMAIN Plan |-> Leg(Plan[i].act, role, Plan[i].quote,
                                              receive(Plan[i].act))]
  <2>1. role \in {"claim", "post"}
    OBVIOUS
  <2> HIDE DEF role, receive
  <2>2. DOMAIN legs' = DOMAIN Plan
    BY <1>3
  <2>3. \A i \in DOMAIN Plan : legs'[i] = Leg(Plan[i].act, role, Plan[i].quote,
                                              receive(Plan[i].act))
    BY <1>3
  <2>4. \A i \in DOMAIN Plan : /\ legs'[i].role = role /\ legs'[i].act = Plan[i].act
                               /\ legs'[i].quote = Plan[i].quote
    BY <2>3, LegParts
  <2>5. AsPlanned(legs', Plan)
    BY <2>1, <2>2, <2>4 DEF AsPlanned, IsClaim
  <2>6. LinedUp(legs', Plan)
    BY <2>5, AsPlannedLinesUp
  <2>7. QED
    BY <1>1, <1>2, <2>5, <2>6 DEF ClaimInv
<1>4. CASE legs' = legs /\ stage' = "idle"
  BY <1>1, <1>4 DEF ClaimInv
<1>5. QED
  BY <1>1, <1>3, <1>4

\* A step that keeps the groups, but for the state of one.
LEMMA SameLinesUp ==
  ASSUME ClaimInv, ProgressInv, call' = call,
         \/ legs' = legs
         \/ \E i \in DOMAIN legs : \E x : legs' = [legs EXCEPT ![i].state = x],
         stage' = "quote" => stage = "quote" /\ legs' = legs
  PROVE  ClaimInv'
<1>1. Plan' = Plan
  BY DEF Plan
<1>2. CASE legs' = legs
  BY <1>1, <1>2 DEF ClaimInv
<1>3. CASE \E i \in DOMAIN legs : \E x : legs' = [legs EXCEPT ![i].state = x] /\ legs # <<>>
  <2> SUFFICES ASSUME call # Null, call.kind = "claims", stage' # "quote"
               PROVE  LinedUp(legs', Plan)
    BY <1>1, <1>2 DEF ClaimInv
  <2>0. PICK i \in DOMAIN legs : \E x : legs' = [legs EXCEPT ![i].state = x]
    BY <1>3
  <2>1. PICK x : legs' = [legs EXCEPT ![i].state = x]
    BY <2>0
  <2>2. IsLegs(legs)
    BY DEF ProgressInv
  <2>3. /\ DOMAIN legs' = DOMAIN legs
        /\ \A j \in DOMAIN legs : /\ legs'[j].act = legs[j].act
                                  /\ legs'[j].role = legs[j].role
                                  /\ legs'[j].quote = legs[j].quote
    BY <2>1, <2>2, MarkParts, MarkQuotes
  <2>4. LinedUp(legs, Plan)
    BY <1>3 DEF ClaimInv
  <2>5. PICK ms : ms = legs'
    OBVIOUS
  <2>6. LinedUp(ms, Plan)
    BY <2>3, <2>4, <2>5, StaysLinedUp
  <2>7. QED
    BY <2>5, <2>6
<1>4. CASE legs = <<>>
  BY <1>2, <1>4, NoLegs
<1>5. QED
  BY <1>2, <1>3, <1>4

\* Advance: the claims of a batch are not quoted again.
LEMMA AdvanceLinesUp ==
  ASSUME ClaimInv, ProgressInv, call' = call, NEW ls, Advance(ls),
         \/ ls = legs
         \/ \E i \in DOMAIN legs : \E x : ls = [legs EXCEPT ![i].state = x]
  PROVE  ClaimInv'
<1>1. CASE call.kind = "claims"
  <2>1. legs' = ls /\ stage' # "quote"
    BY <1>1 DEF Advance, Stepwise, Finish
  <2>2. QED
    BY <2>1, SameLinesUp
<1>2. CASE call.kind # "claims"
  BY <1>2 DEF ClaimInv
<1>3. QED
  BY <1>1, <1>2

LEMMA OptInFirstLinesUp ==
  ASSUME ClaimInv, ProgressInv, OptInFirst
  PROVE  ClaimInv'
<1>1. PICK g : g = Leg(Current.act, "optin", Null, Missing)
  OBVIOUS
<1>2. /\ stage = "submit" /\ stage' = "submit" /\ call' = call
      /\ legs' = InsertAt(legs, at, g)
  BY <1>1 DEF OptInFirst
<1>3. IsLegs(legs) /\ at \in DOMAIN legs /\ g.role = "optin"
  BY <1>1, <1>2, CurrentIs, LegIs DEF ProgressInv, Working
<1>4. Plan' = Plan
  BY <1>2 DEF Plan
<1>5. legs # <<>>
  BY <1>3, NoLegs
<1>6. ASSUME LinedUp(legs, Plan) PROVE LinedUp(legs', Plan)
  BY <1>2, <1>3, <1>6, InsertLinesUp
<1>7. QED
  BY <1>2, <1>4, <1>5, <1>6 DEF ClaimInv

LEMMA QuoteClaimsLinesUp ==
  ASSUME ClaimInv, ProgressInv, QuoteClaims
  PROVE  ClaimInv'
<1>1. stage = "quote" /\ stage' = "submit" /\ call.kind = "claims" /\ call' = call
  BY DEF QuoteClaims, Quoted
<1>2. Plan' = Plan
  BY <1>1 DEF Plan
<1>3. call # Null => LinedUp(legs', Plan)
  BY <1>1, QuotesLineUp DEF ClaimInv, ProgressInv
<1>4. QED
  BY <1>1, <1>2, <1>3 DEF ClaimInv

LEMMA ClaimInvStep == ProgressInv /\ ClaimInv /\ [Next]_vars => ClaimInv'
<1> SUFFICES ASSUME ProgressInv, ClaimInv, [Next]_vars PROVE ClaimInv'
  OBVIOUS
<1>1. CASE NextCall
  <2>1. PICK c \in Calls : AnswerAtOnce(c) \/ StartCall(c)
    BY <1>1 DEF NextCall
  <2>2. stage = "idle" /\ call' = c /\ legs' = <<>>
    BY <1>1, <2>1 DEF NextCall, AnswerAtOnce, StartCall, Begin
  <2>3. stage' = "quote" => c.kind # "claims"
    BY <2>1, <2>2 DEF AnswerAtOnce, StartCall
  <2>4. QED
    BY <2>1, <2>2, <2>3 DEF ClaimInv
<1>2. CASE PrepareClaims
  BY <1>2, PrepareClaimsLinesUp
<1>3. CASE QuoteClaims
  BY <1>3, QuoteClaimsLinesUp
<1>4. CASE OptInFirst
  BY <1>4, OptInFirstLinesUp
<1>5. CASE \/ PrepareShape \/ QuoteSwap \/ QuoteShape \/ SkipDeployed
           \/ \E compiled \in BOOLEAN : QuoteCompose(compiled)
  <2>1. call' = call /\ call.kind # "claims"
    BY <1>5 DEF PrepareShape, QuoteSwap, QuoteShape, SkipDeployed, QuoteCompose
  <2>2. QED
    BY <2>1 DEF ClaimInv
<1>6. CASE Fails \/ GiveUp \/ SaveFails
  <2>1. call' = call /\ legs' = legs /\ stage' = "idle"
    BY <1>6 DEF Fails, GiveUp, SaveFails, Throw, Finish
  <2>2. QED
    BY <2>1, SameLinesUp
<1>7. CASE Send
  <2>1. call' = call /\ legs' = [legs EXCEPT ![at].state = "sent"] /\ stage' = "wait"
    BY <1>7 DEF Send, Mark
  <2>2. at \in DOMAIN legs
    BY <1>7, CurrentIs DEF Send, Sendable, ProgressInv, Working
  <2>3. QED
    BY <2>1, <2>2, SameLinesUp
<1>8. CASE Post \/ Confirm
  <2>1. call' = call /\ Advance([legs EXCEPT ![at].state = "confirmed"])
    BY <1>8 DEF Post, Confirm, Mark
  <2>2. at \in DOMAIN legs
    BY <1>8, CurrentIs DEF Post, Confirm, Confirms, ProgressInv, Working
  <2>3. QED
    BY <2>1, <2>2, AdvanceLinesUp
<1>9. CASE ConfirmSetup
  <2>1. call' = call /\ legs' = [legs EXCEPT ![at].state = "confirmed"] /\ stage' # "quote"
    BY <1>9 DEF ConfirmSetup, Mark
  <2>2. at \in DOMAIN legs
    BY <1>9, CurrentIs DEF ConfirmSetup, Confirms, ProgressInv, Working
  <2>3. QED
    BY <2>1, <2>2, SameLinesUp
<1>10. CASE OpenRecord
  <2>1. call' = call /\ legs' = legs /\ stage' # "quote"
    BY <1>10 DEF OpenRecord, work
  <2>2. QED
    BY <2>1, SameLinesUp
<1>11. CASE WriteRecord
  <2>1. /\ call' = call
        /\ \/ legs' = legs /\ stage' = "resave"
           \/ Advance(legs)
    BY <1>11 DEF WriteRecord
  <2>2. QED
    BY <2>1, SameLinesUp, AdvanceLinesUp
<1>12. CASE \/ \E g \in flying : Land(g)
            \/ Rest \/ UNCHANGED vars
  <2>1. UNCHANGED <<call, legs, stage>>
    BY <1>12 DEF Land, Rest, vars, work
  <2>2. QED
    BY <2>1, SameLinesUp
<1>13. CASE Crash
  BY <1>13 DEF Crash, ClaimInv
<1>14. QED
  BY <1>1, <1>2, <1>3, <1>4, <1>5, <1>6, <1>7, <1>8, <1>9, <1>10, <1>11, <1>12, <1>13
     DEF Next

\* executeClaimBatch, requestQuotes: each claim submits the quote compiled for it and
\* no quote is submitted twice in a batch, for any desk, any batch and any order in
\* which the gateway answers.
THEOREM ClaimsFollowThePlan == Spec => []ClaimsAsPlanned
<1>1. Init => ClaimInv
  BY DEF Init, ClaimInv
<1>2. ProgressInv /\ ClaimInv => ClaimsAsPlanned
  <2> SUFFICES ASSUME ProgressInv, ClaimInv, call # Null, call.kind = "claims"
               PROVE  ClaimsAsPlanned
    BY DEF ClaimsAsPlanned
  <2>1. IsLegs(legs) /\ IsPlan(Plan) /\ (legs = <<>> \/ LinedUp(legs, Plan))
    BY CallPlan DEF ProgressInv, ClaimInv
  <2>2. Follows(legs, Plan)
    <3>1. CASE legs = <<>>
      <4>1. DOMAIN legs = {}
        BY <3>1, NoLegs
      <4>2. QED
        BY <4>1 DEF Follows
    <3>2. CASE LinedUp(legs, Plan)
      BY <2>1, <3>2, LinedUpFollows
    <3>3. QED
      BY <2>1, <3>1, <3>2
  <2>3. ~Ambiguous => \A i, j \in DOMAIN Plan : i # j => Plan[i].quote.key # Plan[j].quote.key
    BY DEF Ambiguous, Plan
  <2>4. QED
    BY <2>2, <2>3 DEF Follows, Rank, IsClaim, ClaimsAsPlanned, Plan
<1>3. QED
  BY <1>1, <1>2, ClaimInvStep, EscrowInvHolds, PTL DEF Spec, EscrowInv

=============================================================================
