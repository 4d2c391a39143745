--------------------------- MODULE PlanRunsProofs ---------------------------
(* Machine-checked proofs about PlanRuns: any plans, desk, catalogs and      *)
(* positions, any number of runs, waves and groups in flight.               *)
EXTENDS PlanRuns, FiniteSetTheorems, SequenceTheorems, WellFoundedInduction, TLAPS

-----------------------------------------------------------------------------
(* Naturals: least elements, induction and recursion up to a bound.  A set  *)
(* and a function stand for the predicate and the operator.                 *)

LEMMA Least ==
    ASSUME NEW S \in SUBSET Nat, S # {}
    PROVE  /\ Min(S) \in S
           /\ \A y \in S : Min(S) <= y
<1> DEFINE R == OpToRel(<, Nat)
<1>1. PICK m \in S : \A y \in S : <<y, m>> \notin R
  <2>1. IsWellFoundedOn(R, Nat)
    BY NatLessThanWellFounded
  <2> HIDE DEF R
  <2>2. QED
    BY <2>1, WFMin
<1>2. \A y \in S : m <= y
  <2> SUFFICES ASSUME NEW y \in S PROVE m <= y
    OBVIOUS
  <2>1. m \in Nat /\ y \in Nat
    OBVIOUS
  <2>2. ~(y < m)
    BY <1>1, <2>1 DEF OpToRel
  <2>3. QED
    BY <2>1, <2>2
<1> HIDE DEF R
<1>3. \E x \in S : \A y \in S : x <= y
  BY <1>2
<1>4. QED
  BY <1>3 DEF Min

LEMMA UpTo ==
    ASSUME NEW n \in Nat, NEW Good, 0 \in Good,
           \A k \in 1..n : k - 1 \in Good => k \in Good
    PROVE  \A k \in 0..n : k \in Good
<1> DEFINE Bad == {k \in 0..n : k \notin Good}
<1>1. SUFFICES ASSUME Bad # {} PROVE FALSE
  OBVIOUS
<1>2. PICK m : m = Min(Bad)
  OBVIOUS
<1>3. m \in Bad /\ \A y \in Bad : m <= y
  <2>1. Bad \in SUBSET Nat
    OBVIOUS
  <2>2. QED
    BY ONLY <1>1, <1>2, <2>1, Least
<1>4. m \in 1..n /\ m - 1 \in 0..n /\ m - 1 \notin Bad
  BY <1>3
<1>5. QED
  BY <1>3, <1>4

Recurs(f, n, base, g) == f[0] = base /\ \A k \in 1..n : f[k] = g[<<k, f[k - 1]>>]

LEMMA Recursion ==
    ASSUME NEW n \in Nat, NEW S, NEW base \in S, NEW g \in [(1..n) \X S -> S]
    PROVE  \E f \in [0..n -> S] : Recurs(f, n, base, g)
<1> DEFINE Good == {m \in 0..n : \E f \in [0..m -> S] : Recurs(f, m, base, g)}
<1>1. 0 \in Good
  <2>1. PICK f : f = [k \in 0..0 |-> base]
    OBVIOUS
  <2>2. f \in [0..0 -> S] /\ Recurs(f, 0, base, g) /\ 0 \in 0..n
    BY <2>1 DEF Recurs
  <2>3. QED
    BY <2>2
<1>2. ASSUME NEW m \in 1..n, m - 1 \in Good
      PROVE  m \in Good
  <2>1. PICK f \in [0..(m - 1) -> S] : Recurs(f, m - 1, base, g)
    BY <1>2
  <2>2. PICK h : h = [k \in 0..m |-> IF k = m THEN g[<<m, f[m - 1]>>] ELSE f[k]]
    OBVIOUS
  <2>3. f[m - 1] \in S /\ g[<<m, f[m - 1]>>] \in S
    <3>1. m - 1 \in 0..(m - 1) /\ m \in 1..n
      OBVIOUS
    <3>2. f[m - 1] \in S
      BY <3>1
    <3>3. <<m, f[m - 1]>> \in (1..n) \X S
      BY <3>1, <3>2
    <3>4. QED
      BY <3>2, <3>3
  <2>4. h \in [0..m -> S]
    BY <2>2, <2>3
  <2>5. Recurs(h, m, base, g)
    <3>1. h[0] = base
      BY <2>1, <2>2 DEF Recurs
    <3>2. ASSUME NEW k \in 1..m
          PROVE  h[k] = g[<<k, h[k - 1]>>]
      <4>1. k - 1 \in 0..(m - 1) /\ k - 1 # m
        OBVIOUS
      <4>2. h[k - 1] = f[k - 1]
        BY <2>2, <4>1
      <4>3. CASE k = m
        <5>1. m \in 0..m /\ h[m] = g[<<m, f[m - 1]>>]
          BY <2>2
        <5>2. QED
          BY <4>2, <4>3, <5>1
      <4>4. CASE k # m
        <5>1. k \in 1..(m - 1) /\ k \in 0..m
          BY <4>4
        <5>2. f[k] = g[<<k, f[k - 1]>>]
          BY <2>1, <5>1 DEF Recurs
        <5>3. h[k] = f[k]
          BY <2>2, <4>4, <5>1
        <5>4. QED
          BY <4>2, <5>2, <5>3
      <4>5. QED
        BY <4>3, <4>4
    <3>3. QED
      BY <3>1, <3>2 DEF Recurs
  <2>6. QED
    BY <2>4, <2>5
<1>3. n \in Good
  <2> HIDE DEF Good
  <2>1. \A k \in 0..n : k \in Good
    BY ONLY <1>1, <1>2, UpTo, n \in Nat
  <2>2. QED
    BY <2>1
<1>4. QED
  BY <1>3

-----------------------------------------------------------------------------
(* Those: the filter keeps members, loses none and repeats none.           *)

LEMMA ThoseIs ==
    ASSUME NEW T, NEW seq \in Seq(T), NEW set
    PROVE  /\ Those(seq, set) \in Seq(T)
           /\ ToSet(Those(seq, set)) = ToSet(seq) \cap set
           /\ IsInjective(seq) => IsInjective(Those(seq, set))
<1> DEFINE Takes(those) ==
        those = [n \in 0..Len(seq) |->
            IF n = 0 THEN <<>>
            ELSE IF seq[n] \in set THEN Append(those[n - 1], seq[n]) ELSE those[n - 1]]
<1>1. PICK n \in Nat : n = Len(seq) /\ DOMAIN seq = 1..n /\ \A i \in 1..n : seq[i] \in T
  OBVIOUS
<1>2. \E those \in [0..n -> Seq(T)] : Takes(those)
  <2> DEFINE g == [x \in (1..n) \X Seq(T) |->
                    IF seq[x[1]] \in set THEN Append(x[2], seq[x[1]]) ELSE x[2]]
  <2>1. \A k \in 1..n, s \in Seq(T) :
            g[<<k, s>>] = IF seq[k] \in set THEN Append(s, seq[k]) ELSE s
    OBVIOUS
  <2>2. g \in [(1..n) \X Seq(T) -> Seq(T)]
    <3>1. \A x \in (1..n) \X Seq(T) : x[1] \in 1..n /\ x[2] \in Seq(T)
      OBVIOUS
    <3>2. \A x \in (1..n) \X Seq(T) :
            (IF seq[x[1]] \in set THEN Append(x[2], seq[x[1]]) ELSE x[2]) \in Seq(T)
      BY <1>1, <3>1
    <3>3. QED
      BY <3>2
  <2>3. <<>> \in Seq(T)
    OBVIOUS
  <2> HIDE DEF g
  <2>4. PICK f \in [0..n -> Seq(T)] : Recurs(f, n, <<>>, g)
    BY <2>2, <2>3, Recursion
  <2>5. \A k \in 1..n : f[k] = IF seq[k] \in set THEN Append(f[k - 1], seq[k]) ELSE f[k - 1]
    <3>1. \A k \in 1..n : k - 1 \in 0..n /\ f[k - 1] \in Seq(T)
      OBVIOUS
    <3>2. QED
      BY <2>1, <2>4, <3>1 DEF Recurs
  <2>6. Takes(f)
    <3>1. PICK h : h = [k \in 0..n |->
                    IF k = 0 THEN <<>>
                    ELSE IF seq[k] \in set THEN Append(f[k - 1], seq[k]) ELSE f[k - 1]]
      OBVIOUS
    <3>2. \A k \in 0..n : k = 0 \/ k \in 1..n
      OBVIOUS
    <3>3. \A k \in 0..n : f[k] = h[k]
      BY <2>4, <2>5, <3>1, <3>2 DEF Recurs
    <3>4. f = h
      BY <3>1, <3>3
    <3>5. QED
      BY <1>1, <3>1, <3>4
  <2>7. QED
    BY <2>6
<1>3. PICK those : those = (CHOOSE f : Takes(f))
  OBVIOUS
<1>4. Takes(those) /\ Those(seq, set) = those[n]
  <2>1. \E f : Takes(f)
    BY <1>2
  <2>2. Takes(those)
    <3> HIDE DEF Takes
    <3>1. QED
      BY <1>3, <2>1
  <2>3. Those(seq, set) = those[n]
    BY <1>1, <1>3 DEF Those
  <2>4. QED
    BY <2>2, <2>3
<1>5. /\ those[0] = <<>>
      /\ \A k \in 1..n : those[k] = IF seq[k] \in set THEN Append(those[k - 1], seq[k])
                                    ELSE those[k - 1]
  <2>1. PICK h : h = [k \in 0..n |->
                    IF k = 0 THEN <<>>
                    ELSE IF seq[k] \in set THEN Append(those[k - 1], seq[k]) ELSE those[k - 1]]
    OBVIOUS
  <2>2. those = h
    BY <1>1, <1>4, <2>1
  <2>3. 0 \in 0..n /\ \A k \in 1..n : k \in 0..n /\ k # 0
    OBVIOUS
  <2>4. h[0] = <<>> /\ \A k \in 1..n : h[k] = IF seq[k] \in set THEN Append(those[k - 1], seq[k])
                                    ELSE those[k - 1]
    BY <2>1, <2>3
  <2>5. QED
    BY <2>2, <2>4
<1> HIDE DEF Takes
<1> DEFINE Part(k) == {seq[i] : i \in 1..k}
           Right(part, k) ==
            /\ part \in Seq(T)
            /\ ToSet(part) = Part(k) \cap set
            /\ IsInjective(seq) => IsInjective(part)
           Good == {k \in 0..n : Right(those[k], k)}
<1>6. 0 \in Good
  <2>1. those[0] = <<>> /\ <<>> \in Seq(T) /\ DOMAIN <<>> = {}
    BY <1>5
  <2>2. ToSet(<<>>) = {} /\ Part(0) = {}
    BY <2>1 DEF ToSet
  <2>3. IsInjective(<<>>)
    BY <2>1 DEF IsInjective
  <2>4. Right(<<>>, 0)
    BY <2>1, <2>2, <2>3
  <2> HIDE DEF Right
  <2>5. QED
    BY <2>1, <2>4
<1>7. ASSUME NEW k \in 1..n, k - 1 \in Good
      PROVE  k \in Good
  <2>1. Right(those[k - 1], k - 1)
    <3> HIDE DEF Right
    <3>1. QED
      BY <1>7
  <2>2. PICK s \in Seq(T) : s = those[k - 1]
    BY <2>1
  <2>3. CASE seq[k] \notin set
    <3>1. those[k] = s
      BY <1>5, <2>2, <2>3
    <3>2. Part(k) \cap set = Part(k - 1) \cap set
      <4>1. \A i \in 1..k : i \in 1..(k - 1) \/ i = k
        OBVIOUS
      <4>2. \A i \in 1..(k - 1) : i \in 1..k
        OBVIOUS
      <4>3. QED
        BY <2>3, <4>1, <4>2
    <3> HIDE DEF Part
    <3>3. Right(s, k)
      BY <2>1, <2>2, <3>2
    <3> HIDE DEF Right
    <3>4. QED
      BY <3>1, <3>3
  <2>4. CASE seq[k] \in set
    <3>1. those[k] = Append(s, seq[k]) /\ seq[k] \in T
      BY <1>1, <1>5, <2>2, <2>4
    <3>2. PICK t \in Seq(T) : t = Append(s, seq[k])
      <4>1. PICK x \in T : x = seq[k]
        BY <3>1
      <4>2. Append(s, x) \in Seq(T)
        OBVIOUS
      <4>3. QED
        BY <4>1, <4>2
    <3>3. /\ DOMAIN s = 1..Len(s) /\ DOMAIN t = 1..(Len(s) + 1) /\ Len(s) \in Nat
          /\ \A i \in 1..Len(s) : t[i] = s[i]
          /\ t[Len(s) + 1] = seq[k]
      BY <3>1, <3>2
    <3>4. ToSet(t) = ToSet(s) \cup {seq[k]}
      BY <3>3 DEF ToSet
    <3>5. Part(k) = Part(k - 1) \cup {seq[k]}
      <4>1. \A i \in 1..k : i \in 1..(k - 1) \/ i = k
        OBVIOUS
      <4>2. \A i \in 1..(k - 1) : i \in 1..k
        OBVIOUS
      <4>3. QED
        BY <4>1, <4>2
    <3>6. ASSUME IsInjective(seq)
          PROVE  IsInjective(t)
      <4>1. IsInjective(s) /\ ToSet(s) \subseteq Part(k - 1)
        BY <2>1, <2>2, <3>6
      <4>2. \A i \in 1..(k - 1) : seq[i] # seq[k]
        BY SMTT(20), <1>1, <3>6 DEF IsInjective
      <4>3. seq[k] \notin Part(k - 1)
        BY <4>2
      <4>4. \A i \in 1..Len(s) : s[i] \in ToSet(s)
        BY <3>3 DEF ToSet
      <4>5. \A i \in 1..Len(s) : s[i] # seq[k]
        BY <4>1, <4>3, <4>4
      <4>6. QED
        BY <3>3, <4>1, <4>5 DEF IsInjective
    <3> HIDE DEF Part
    <3>7. ToSet(t) = Part(k) \cap set
      BY <2>1, <2>2, <2>4, <3>4, <3>5
    <3>8. IsInjective(seq) => IsInjective(t)
      BY <3>6
    <3>9. Right(t, k)
      BY <3>7, <3>8
    <3>10. those[k] = t /\ k \in 0..n
      BY <3>1, <3>2
    <3> HIDE DEF Right
    <3>11. QED
      BY <3>9, <3>10
  <2>5. QED
    BY <2>3, <2>4
<1>8. Right(those[n], n)
  <2>1. \A k \in 0..n : k \in Good
    <3> HIDE DEF Good
    <3>1. QED
      BY ONLY <1>6, <1>7, UpTo, n \in Nat
  <2> HIDE DEF Right
  <2>2. QED
    BY <2>1
<1>9. QED
  BY <1>1, <1>4, <1>8 DEF ToSet

-----------------------------------------------------------------------------
(* Sequences of no type: a set as a sequence, tails, concatenations.       *)

IsSequence(s) == s \in Seq(ToSet(s))

LEMMA Sequences ==
    ASSUME NEW T, NEW s \in Seq(T)
    PROVE  /\ IsSequence(s) /\ Len(s) \in Nat /\ DOMAIN s = 1..Len(s)
           /\ ToSet(s) \subseteq T
<1>1. Len(s) \in Nat /\ s \in [1..Len(s) -> T] /\ DOMAIN s = 1..Len(s)
  OBVIOUS
<1>2. s \in [1..Len(s) -> ToSet(s)] /\ ToSet(s) \subseteq T
  BY <1>1 DEF ToSet
<1>3. s \in Seq(ToSet(s))
  BY <1>1, <1>2
<1>4. QED
  BY <1>1, <1>2, <1>3 DEF IsSequence

LEMMA SequenceIs ==
    ASSUME NEW s, IsSequence(s)
    PROVE  /\ Len(s) \in Nat /\ DOMAIN s = 1..Len(s)
           /\ \A i \in DOMAIN s : s[i] \in ToSet(s)
  BY DEF IsSequence, ToSet

\* A function over 1..n is a sequence.
LEMMA Indexed ==
    ASSUME NEW s, NEW n \in Nat, NEW f, s = [i \in 1..n |-> f[i]]
    PROVE  IsSequence(s) /\ Len(s) = n /\ DOMAIN s = 1..n
<1>1. s \in [1..n -> ToSet(s)]
  BY DEF ToSet
<1>2. s \in Seq(ToSet(s))
  BY <1>1
<1>3. QED
  BY <1>1, <1>2 DEF IsSequence

LEMMA TailIs ==
    ASSUME NEW s, IsSequence(s), s # <<>>
    PROVE  /\ IsSequence(Tail(s)) /\ Len(Tail(s)) = Len(s) - 1
           /\ 1 \in DOMAIN s /\ Head(s) = s[1]
           /\ \A i \in DOMAIN Tail(s) : i + 1 \in DOMAIN s /\ Tail(s)[i] = s[i + 1]
           /\ ToSet(Tail(s)) \subseteq ToSet(s)
<1>1. PICK T : T = ToSet(s) /\ s \in Seq(T)
  BY DEF IsSequence
<1>2. PICK t : t = Tail(s)
  OBVIOUS
<1>3. /\ t \in Seq(T) /\ Len(t) = Len(s) - 1 /\ Len(s) \in Nat \ {0}
      /\ \A i \in 1..Len(t) : t[i] = s[i + 1]
  BY <1>1, <1>2, HeadTailProperties, EmptySeq
<1>4. DOMAIN s = 1..Len(s) /\ DOMAIN t = 1..Len(t) /\ Head(s) = s[1]
  BY <1>1, <1>3
<1>5. IsSequence(t) /\ ToSet(t) \subseteq T
  BY <1>3, Sequences
<1>6. \A i \in 1..Len(t) : i + 1 \in 1..Len(s)
  BY <1>3
<1>7. QED
  BY <1>1, <1>2, <1>3, <1>4, <1>5, <1>6

LEMMA ConcatIs ==
    ASSUME NEW s, NEW t, IsSequence(s), IsSequence(t)
    PROVE  /\ IsSequence(s \o t) /\ Len(s \o t) = Len(s) + Len(t)
           /\ \A i \in DOMAIN s : (s \o t)[i] = s[i]
           /\ \A i \in DOMAIN t : (s \o t)[Len(s) + i] = t[i]
           /\ \A k \in DOMAIN (s \o t) : \/ k \in DOMAIN s
                                         \/ k > Len(s) /\ k - Len(s) \in DOMAIN t
           /\ ToSet(s \o t) = ToSet(s) \cup ToSet(t)
           /\ IsInjective(s) /\ IsInjective(t) /\ ToSet(s) \cap ToSet(t) = {}
                => IsInjective(s \o t)
<1>1. PICK T : T = ToSet(s) \cup ToSet(t)
  OBVIOUS
<1>2. s \in Seq(T) /\ t \in Seq(T)
  <2>1. PICK S : S = ToSet(s) /\ s \in Seq(S) /\ S \subseteq T
    BY <1>1 DEF IsSequence
  <2>2. PICK R : R = ToSet(t) /\ t \in Seq(R) /\ R \subseteq T
    BY <1>1 DEF IsSequence
  <2>3. QED
    BY ONLY <2>1, <2>2, SeqMonotonic
<1>3. PICK u : u = s \o t
  OBVIOUS
<1>4. PICK m \in Nat, n \in Nat :
        /\ Len(s) = m /\ Len(t) = n /\ Len(u) = m + n /\ u \in Seq(T)
        /\ DOMAIN s = 1..m /\ DOMAIN t = 1..n /\ DOMAIN u = 1..(m + n)
        /\ \A i \in 1..(m + n) : u[i] = IF i <= m THEN s[i] ELSE t[i - m]
  <2>1. PICK m \in Nat, n \in Nat : m = Len(s) /\ n = Len(t)
    BY <1>2
  <2>2. /\ u \in Seq(T) /\ Len(u) = m + n
        /\ \A i \in 1..(m + n) : u[i] = IF i <= m THEN s[i] ELSE t[i - m]
    BY <1>2, <1>3, <2>1, ConcatProperties
  <2>3. DOMAIN s = 1..m /\ DOMAIN t = 1..n /\ DOMAIN u = 1..(m + n)
    BY <1>2, <2>1, <2>2
  <2>4. QED
    BY <2>1, <2>2, <2>3
<1>5. /\ \A i \in 1..m : i \in 1..(m + n) /\ u[i] = s[i]
      /\ \A i \in 1..n : m + i \in 1..(m + n) /\ u[m + i] = t[i]
      /\ \A i \in 1..(m + n) : i \in 1..m \/ (i > m /\ i - m \in 1..n)
  <2>1. ASSUME NEW i \in 1..n
        PROVE  m + i \in 1..(m + n) /\ u[m + i] = t[i]
    <3>1. m + i \in 1..(m + n) /\ ~(m + i <= m) /\ (m + i) - m = i
      OBVIOUS
    <3>2. PICK k : k = m + i
      OBVIOUS
    <3>3. u[k] = t[k - m] /\ k - m = i
      BY <1>4, <3>1, <3>2
    <3>4. QED
      BY <3>1, <3>2, <3>3
  <2>2. \A i \in 1..m : i \in 1..(m + n) /\ u[i] = s[i]
    BY <1>4
  <2>3. ASSUME NEW i \in 1..(m + n)
        PROVE  i \in 1..m \/ (i > m /\ i - m \in 1..n)
    <3>1. CASE i <= m
      BY <3>1
    <3>2. CASE i > m
      BY <3>2
    <3>3. QED
      BY <3>1, <3>2
  <2>4. QED
    BY ONLY <2>1, <2>2, <2>3
<1>6. ToSet(u) = ToSet(s) \cup ToSet(t)
  <2>1. ASSUME NEW i \in 1..(m + n)
        PROVE  u[i] \in ToSet(s) \cup ToSet(t)
    <3>1. CASE i \in 1..m
      BY <1>4, <1>5, <3>1 DEF ToSet
    <3>2. CASE i \notin 1..m
      <4>1. i - m \in 1..n /\ u[i] = t[i - m]
        BY <1>4, <1>5, <3>2
      <4>2. QED
        BY <1>4, <4>1 DEF ToSet
    <3>3. QED
      BY <3>1, <3>2
  <2>2. \A i \in 1..m : s[i] \in ToSet(u)
    BY <1>4, <1>5 DEF ToSet
  <2>3. \A i \in 1..n : t[i] \in ToSet(u)
    BY <1>4, <1>5 DEF ToSet
  <2>4. ToSet(u) \subseteq ToSet(s) \cup ToSet(t)
    BY <1>4, <2>1 DEF ToSet
  <2>5. ToSet(s) \subseteq ToSet(u)
    BY <1>4, <2>2 DEF ToSet
  <2>6. ToSet(t) \subseteq ToSet(u)
    BY <1>4, <2>3 DEF ToSet
  <2>7. QED
    BY <2>4, <2>5, <2>6
<1>7. ASSUME IsInjective(s), IsInjective(t), ToSet(s) \cap ToSet(t) = {}
      PROVE  IsInjective(u)
  <2>1. ASSUME NEW i \in 1..(m + n), NEW j \in 1..(m + n), u[i] = u[j]
        PROVE  i = j
    <3>1. CASE i \in 1..m /\ j \in 1..m
      BY SMTT(20), <1>4, <1>5, <1>7, <2>1, <3>1 DEF IsInjective
    <3>2. CASE i \notin 1..m /\ j \notin 1..m
      <4>1. i - m \in 1..n /\ j - m \in 1..n /\ u[i] = t[i - m] /\ u[j] = t[j - m]
        BY <1>4, <1>5, <3>2
      <4>2. i - m = j - m
        BY <1>4, <1>7, <2>1, <4>1 DEF IsInjective
      <4>3. QED
        BY <4>2
    <3>3. CASE i \in 1..m /\ j \notin 1..m
      <4>1. u[i] = s[i] /\ j - m \in 1..n /\ u[j] = t[j - m]
        BY <1>4, <1>5, <3>3
      <4>2. u[i] \in ToSet(s) /\ u[j] \in ToSet(t)
        BY <1>4, <3>3, <4>1 DEF ToSet
      <4>3. QED
        BY <1>7, <2>1, <4>2
    <3>4. CASE i \notin 1..m /\ j \in 1..m
      <4>1. u[j] = s[j] /\ i - m \in 1..n /\ u[i] = t[i - m]
        BY <1>4, <1>5, <3>4
      <4>2. u[j] \in ToSet(s) /\ u[i] \in ToSet(t)
        BY <1>4, <3>4, <4>1 DEF ToSet
      <4>3. QED
        BY <1>7, <2>1, <4>2
    <3>5. QED
      BY <3>1, <3>2, <3>3, <3>4
  <2>2. QED
    BY <1>4, <2>1 DEF IsInjective
<1>8. IsSequence(u)
  BY <1>4, Sequences
<1>9. QED
  BY <1>3, <1>4, <1>5, <1>6, <1>7, <1>8

LEMMA SetToSeqIs ==
    ASSUME NEW S, IsFiniteSet(S)
    PROVE  IsSequence(SetToSeq(S)) /\ ToSet(SetToSeq(S)) = S /\ IsInjective(SetToSeq(S))
<1>1. PICK n \in Nat : n = Cardinality(S) /\ ExistsBijection(1..n, S)
  BY FS_CardinalityType
<1>2. PICK f \in [1..n -> S] : IsInjective(f)
  BY <1>1 DEF ExistsBijection, Bijection, Injection, IsInjective
<1>3. PICK s : s = SetToSeq(S)
  OBVIOUS
<1>4. s \in [1..n -> S] /\ IsInjective(s)
  BY <1>1, <1>2, <1>3 DEF SetToSeq
<1>5. ToSet(s) = S
  <2>1. s \in Injection(1..n, S)
    BY <1>4 DEF Injection, IsInjective
  <2>2. IsFiniteSet(1..n) /\ Cardinality(1..n) = n
    BY FS_Interval
  <2>3. s \in Surjection(1..n, S)
    BY <1>1, <2>1, <2>2, FS_Injection
  <2>4. QED
    BY <1>4, <2>3 DEF Surjection, ToSet
<1>6. s \in Seq(S)
  BY <1>4
<1>7. QED
  BY <1>3, <1>4, <1>5, <1>6, Sequences

-----------------------------------------------------------------------------
(* Actions, and what the host completes in them.                           *)

IsAction(a) == DOMAIN a = DOMAIN Action(Null, Null)

\* completing leaves alone what an action is, and of what.
Same(a, b) ==
    /\ IsAction(b)
    /\ b.id = a.id /\ b.type = a.type /\ b.pos = a.pos /\ b.key = a.key /\ b.to = a.to

LEMMA ActionFields ==
    /\ DOMAIN Action(Null, Null) =
            {"id", "type", "deps", "opp", "pos", "key", "from", "to", "amount", "spends",
             "filled", "input"}
    /\ \A id, type : IsAction(Action(id, type))
  BY DEF IsAction, Action

LEMMA CompleteKeeps ==
    ASSUME NEW a, IsAction(a), NEW snapshot, NEW opps
    PROVE  /\ Same(a, Complete(a, snapshot, opps))
           /\ Complete(a, snapshot, opps).deps = a.deps
<1>1. PICK c : c = Complete(a, snapshot, opps)
  OBVIOUS
<1>2. PICK o : o = Only({p.opp : p \in Position(a, snapshot)})
  OBVIOUS
<1>3. PICK b : b = IF a.opp = Null /\ Position(a, snapshot) # {} THEN [a EXCEPT !.opp = o] ELSE a
  OBVIOUS
<1>4. /\ DOMAIN b = DOMAIN a
      /\ \A f \in DOMAIN a : f # "opp" => b[f] = a[f]
  BY <1>3
<1>5. \E size, from :
        \/ c = [b EXCEPT !.amount = size]
        \/ c = [b EXCEPT !.amount = size, !.filled = TRUE, !.from = from]
  BY <1>1, <1>2, <1>3 DEF Complete
<1>6. /\ DOMAIN c = DOMAIN b
      /\ \A f \in DOMAIN b : f \notin {"amount", "filled", "from"} => c[f] = b[f]
  BY <1>5
<1>7. IsAction(c) /\ \A f \in {"id", "type", "pos", "key", "to", "deps"} : c[f] = a[f]
  BY <1>4, <1>6, ActionFields DEF IsAction
<1>8. QED
  BY <1>1, <1>7 DEF Same

LEMMA SyncSwapKeeps ==
    ASSUME NEW a, IsAction(a)
    PROVE  Same(a, SyncSwap(a)) /\ SyncSwap(a).deps = a.deps
<1>1. PICK c : c = SyncSwap(a)
  OBVIOUS
<1>2. \E spends : c = a \/ c = [a EXCEPT !.spends = spends]
  BY <1>1 DEF SyncSwap
<1>3. DOMAIN c = DOMAIN a /\ \A f \in DOMAIN a : f # "spends" => c[f] = a[f]
  BY <1>2
<1>4. IsAction(c) /\ \A f \in {"id", "type", "pos", "key", "to", "deps"} : c[f] = a[f]
  BY <1>3, ActionFields DEF IsAction
<1>5. QED
  BY <1>1, <1>4 DEF Same

Normal(a, ids, snapshot, opps) ==
    [SyncSwap(Complete(a, snapshot, opps)) EXCEPT !.deps = @ \cap ids]

LEMMA NormalKeeps ==
    ASSUME NEW a, IsAction(a), NEW ids, NEW snapshot, NEW opps
    PROVE  /\ Same(a, Normal(a, ids, snapshot, opps))
           /\ Normal(a, ids, snapshot, opps).deps = a.deps \cap ids
<1>1. PICK c : c = Complete(a, snapshot, opps) /\ Same(a, c) /\ c.deps = a.deps
  BY CompleteKeeps
<1>2. PICK d : d = SyncSwap(c) /\ Same(c, d) /\ d.deps = c.deps
  BY <1>1, SyncSwapKeeps DEF Same
<1>3. PICK e : e = [d EXCEPT !.deps = @ \cap ids]
  OBVIOUS
<1>4. DOMAIN e = DOMAIN d /\ \A f \in DOMAIN d : f # "deps" => e[f] = d[f]
  BY <1>3
<1>5. IsAction(d)
  BY <1>2 DEF Same
<1>6. IsAction(e) /\ e.deps = d.deps \cap ids
  BY <1>3, <1>4, <1>5, ActionFields DEF IsAction
<1>7. \A f \in {"id", "type", "pos", "key", "to"} : e[f] = d[f]
  BY <1>4, <1>5, ActionFields DEF IsAction
<1>8. e = Normal(a, ids, snapshot, opps)
  BY <1>1, <1>2, <1>3 DEF Normal
<1>9. Same(a, e) /\ e.deps = a.deps \cap ids
  BY <1>1, <1>2, <1>6, <1>7 DEF Same
<1>10. QED
  BY <1>8, <1>9

\* The actions that Normalize keeps, each completed, in their order.
LEMMA NormalizeIs ==
    ASSUME NEW actions, IsSequence(actions), NEW snapshot, NEW opps
    PROVE  \E kept :
            /\ IsSequence(kept)
            /\ ToSet(kept) = {a \in ToSet(actions) : a.id \notin Dropped(actions, opps)}
            /\ IsInjective(actions) => IsInjective(kept)
            /\ IsSequence(Normalize(actions, snapshot, opps))
            /\ DOMAIN Normalize(actions, snapshot, opps) = DOMAIN kept
            /\ \A i \in DOMAIN kept :
                Normalize(actions, snapshot, opps)[i] =
                    Normal(kept[i], IdsOf(kept), snapshot, opps)
<1>1. PICK keep : keep = {a \in ToSet(actions) : a.id \notin Dropped(actions, opps)}
  OBVIOUS
<1>2. PICK kept : kept = Those(actions, keep)
  OBVIOUS
<1>3. PICK T : T = ToSet(actions) /\ actions \in Seq(T)
  BY DEF IsSequence
<1>4. /\ kept \in Seq(T) /\ ToSet(kept) = T \cap keep
      /\ IsInjective(actions) => IsInjective(kept)
  BY <1>2, <1>3, ThoseIs
<1>5. IsSequence(kept) /\ ToSet(kept) = keep /\ Len(kept) \in Nat /\ DOMAIN kept = 1..Len(kept)
  BY <1>1, <1>3, <1>4, Sequences
<1>6. PICK done : done = [i \in DOMAIN kept |-> SyncSwap(Complete(kept[i], snapshot, opps))]
  OBVIOUS
<1>7. PICK new : new = [i \in DOMAIN done |-> [done[i] EXCEPT !.deps = @ \cap IdsOf(kept)]]
  OBVIOUS
<1>8. new = Normalize(actions, snapshot, opps)
  BY <1>1, <1>2, <1>6, <1>7 DEF Normalize
<1>9. DOMAIN new = DOMAIN kept /\ IsSequence(new)
  <2>1. DOMAIN new = 1..Len(kept) /\ new = [i \in 1..Len(kept) |-> new[i]]
    BY <1>5, <1>6, <1>7
  <2>2. QED
    BY <1>5, <2>1, Indexed
<1>10. \A i \in DOMAIN kept : new[i] = Normal(kept[i], IdsOf(kept), snapshot, opps)
  BY <1>6, <1>7 DEF Normal
<1>11. QED
  BY <1>1, <1>4, <1>5, <1>8, <1>9, <1>10

-----------------------------------------------------------------------------
(* The steps of an unwind wave.                                            *)

LEMMA NextKeyIs ==
    ASSUME NEW keys, Null \notin keys
    PROVE  /\ NextKey(keys) = Null <=> keys = {}
           /\ keys # {} => NextKey(keys) \in keys
           /\ NextKey(keys) \notin {"claim", "uncommit"} => keys \cap {"claim", "uncommit"} = {}
           /\ NextKey(keys) = "uncommit" => "claim" \notin keys
  BY DEF NextKey

LEMMA StepIs ==
    ASSUME NEW p
    PROVE  LET a == StepOf(p)
           IN  /\ IsAction(a)
               /\ a.id = <<NextKey(p.keys), p.id>> /\ a.deps = {}
               /\ a.type = IF NextKey(p.keys) = "claim" THEN "claim" ELSE "close"
               /\ a.pos = p.id /\ a.key = NextKey(p.keys) /\ a.opp = p.opp
               /\ a.from = p.asset
               /\ a.amount = IF a.type = "close" THEN p.amount ELSE Null
               /\ a.spends = {} /\ ~a.filled
  BY DEF StepOf, Action, IsAction

LEMMA UnstakeIs ==
    ASSUME NEW opps, NEW receipt
    PROVE  LET a == UnstakeOf(opps, receipt)
           IN  /\ IsAction(a)
               /\ a.id = <<"lst", receipt>> /\ a.type = "open" /\ a.deps = {}
               /\ a.pos = Null /\ a.from = receipt /\ a.amount = 1
               /\ a.opp = Unstaking(opps, receipt)[1].id
               /\ a.key = UnstakeKey(Unstaking(opps, receipt)[1], receipt)
  BY DEF UnstakeOf, Action, IsAction

LEMMA ImageIsFinite ==
    ASSUME NEW f, IsFiniteSet(DOMAIN f)
    PROVE  IsFiniteSet({f[x] : x \in DOMAIN f})
<1>1. PICK S, T : S = DOMAIN f /\ T = {f[x] : x \in DOMAIN f}
  OBVIOUS
<1>2. PICK g \in [S -> T] : g = [x \in S |-> f[x]]
  BY <1>1
<1>3. g \in Surjection(S, T)
  BY <1>1, <1>2 DEF Surjection
<1>4. QED
  BY <1>1, <1>3, FS_Surjection

LEMMA WaveIs ==
    ASSUME NEW snapshot, NEW opps, IsFiniteSet(snapshot.positions), IsSequence(opps)
    PROVE  /\ IsSequence(WaveOf(snapshot, opps)) /\ IsInjective(WaveOf(snapshot, opps))
           /\ ToSet(WaveOf(snapshot, opps)) = Steps(snapshot) \cup Unstakes(snapshot, opps)
<1>1. PICK S : S = Steps(snapshot) \cup Unstakes(snapshot, opps)
  OBVIOUS
<1>2. IsFiniteSet(S)
  <2>1. IsFiniteSet(Steps(snapshot))
    <3>1. PICK P : P = {q \in snapshot.positions :
                ~Of(q.id).debt /\ q.amount # 0 /\ NextKey(q.keys) # Null}
      OBVIOUS
    <3>2. IsFiniteSet(P)
      BY <3>1, FS_Subset
    <3>3. PICK f : f = [p \in P |-> StepOf(p)]
      OBVIOUS
    <3>4. Steps(snapshot) = {f[p] : p \in DOMAIN f} /\ DOMAIN f = P
      BY <3>1, <3>3 DEF Steps
    <3>5. QED
      BY <3>2, <3>4, ImageIsFinite
  <2>2. IsFiniteSet(Unstakes(snapshot, opps))
    <3>1. IsFiniteSet(ToSet(opps))
      <4>1. Len(opps) \in Nat /\ DOMAIN opps = 1..Len(opps)
        BY SequenceIs
      <4>2. IsFiniteSet(DOMAIN opps)
        BY <4>1, FS_Interval
      <4>3. QED
        BY <4>2, ImageIsFinite DEF ToSet
    <3>2. IsFiniteSet({o.receipt : o \in ToSet(opps)})
      <4>1. PICK f : f = [o \in ToSet(opps) |-> o.receipt]
        OBVIOUS
      <4>2. {o.receipt : o \in ToSet(opps)} = {f[o] : o \in DOMAIN f} /\ DOMAIN f = ToSet(opps)
        BY <4>1
      <4>3. QED
        BY <3>1, <4>2, ImageIsFinite
    <3>3. PICK R : R = {o.receipt : o \in ToSet(opps)} \cup {XAlgo}
      OBVIOUS
    <3>4. IsFiniteSet(R)
      BY <3>2, <3>3, FS_AddElement
    <3>5. PICK Q : Q = {x \in KnownReceipts(snapshot, opps) : Unstaking(opps, x) # <<>>}
      OBVIOUS
    <3>6. Q \subseteq R
      BY <3>3, <3>5 DEF KnownReceipts
    <3>7. IsFiniteSet(Q)
      BY <3>4, <3>6, FS_Subset
    <3>8. PICK f : f = [x \in Q |-> UnstakeOf(opps, x)]
      OBVIOUS
    <3>9. Unstakes(snapshot, opps) = {f[x] : x \in DOMAIN f} /\ DOMAIN f = Q
      BY <3>5, <3>8 DEF Unstakes
    <3>10. QED
      BY <3>7, <3>9, ImageIsFinite
  <2>3. QED
    BY <1>1, <2>1, <2>2, FS_Union
<1> DEFINE Rank(n) == {a \in S : Priority(a) = n}
           Band(n) == SetToSeq(Rank(n))
<1>3. \A a \in S : Priority(a) \in 0..3
  BY DEF Priority
<1>4. ASSUME NEW n
      PROVE  IsSequence(Band(n)) /\ ToSet(Band(n)) = Rank(n) /\ IsInjective(Band(n))
  <2>1. IsFiniteSet(Rank(n))
    BY <1>2, FS_Subset
  <2> HIDE DEF Rank
  <2>2. QED
    BY <2>1, SetToSeqIs
<1>5. WaveOf(snapshot, opps) = Band(0) \o Band(1) \o Band(2) \o Band(3)
  BY <1>1 DEF WaveOf
<1>6. \A m, n : m # n => Rank(m) \cap Rank(n) = {}
  OBVIOUS
<1>7. Rank(0) \cup Rank(1) \cup Rank(2) \cup Rank(3) = S
  BY <1>3
<1> HIDE DEF Band, Rank
<1>8. PICK s01 : s01 = Band(0) \o Band(1)
  OBVIOUS
<1>9. IsSequence(s01) /\ IsInjective(s01) /\ ToSet(s01) = Rank(0) \cup Rank(1)
  BY <1>4, <1>6, <1>8, ConcatIs
<1>10. PICK s012 : s012 = s01 \o Band(2)
  OBVIOUS
<1>11. /\ IsSequence(s012) /\ IsInjective(s012)
       /\ ToSet(s012) = Rank(0) \cup Rank(1) \cup Rank(2)
  <2>1. ToSet(s01) \cap ToSet(Band(2)) = {}
    BY <1>4, <1>6, <1>9
  <2>2. QED
    BY <1>4, <1>9, <1>10, <2>1, ConcatIs
<1>12. PICK all : all = s012 \o Band(3)
  OBVIOUS
<1>13. IsSequence(all) /\ IsInjective(all) /\ ToSet(all) = S
  <2>1. ToSet(s012) \cap ToSet(Band(3)) = {}
    BY <1>4, <1>6, <1>11
  <2>2. /\ IsSequence(all) /\ IsInjective(all)
        /\ ToSet(all) = (Rank(0) \cup Rank(1) \cup Rank(2)) \cup Rank(3)
    BY <1>4, <1>11, <1>12, <2>1, ConcatIs
  <2>3. QED
    BY <1>7, <2>2
<1>14. QED
  BY <1>1, <1>5, <1>8, <1>10, <1>12, <1>13

-----------------------------------------------------------------------------
(* The order of execution is an order of the plan.                         *)

Permutes(order, n) ==
    /\ order \in [1..n -> 1..n] /\ IsInjective(order)
    /\ \A i \in 1..n : \E k \in 1..n : order[k] = i

\* Sequences of fewer than n elements of 1..n miss one of them.
LEMMA SomeAreLeft ==
    ASSUME NEW n \in Nat, NEW k \in 1..n, NEW done \in Seq(1..n), Len(done) = k - 1
    PROVE  (1..n) \ ToSet(done) # {}
<1>1. SUFFICES ASSUME (1..n) \subseteq ToSet(done) PROVE FALSE
  OBVIOUS
<1>2. PICK m \in Nat : m = Len(done) /\ m < n
  OBVIOUS
<1>3. done \in [1..m -> 1..n]
  BY <1>2
<1>4. done \in Surjection(1..m, 1..n)
  BY <1>1, <1>3 DEF Surjection, ToSet
<1>5. IsFiniteSet(1..m) /\ Cardinality(1..m) = m /\ Cardinality(1..n) = n
  <2>1. \A l \in Nat : IsFiniteSet(1..l) /\ Cardinality(1..l) = l
    <3>1. SUFFICES ASSUME NEW l \in Nat
                   PROVE  IsFiniteSet(1..l) /\ Cardinality(1..l) = l
      OBVIOUS
    <3>2. IsFiniteSet(1..l) /\ Cardinality(1..l) = IF 1 > l THEN 0 ELSE l - 1 + 1
      BY FS_Interval, 1 \in Int, l \in Int
    <3>3. QED
      BY <3>2
  <2>2. m \in Nat /\ n \in Nat
    BY <1>2
  <2>3. QED
    BY <2>1, <2>2
<1>6. n <= m
  BY <1>4, <1>5, FS_Surjection
<1>7. QED
  BY <1>2, <1>6

LEMMA OrderedIs ==
    ASSUME NEW actions, IsSequence(actions)
    PROVE  \E order :
            /\ Permutes(order, Len(actions))
            /\ Ordered(actions) = [k \in 1..Len(actions) |-> actions[order[k]]]
<1>1. PICK n \in Nat : n = Len(actions)
  BY SequenceIs
<1>2. PICK D : D = (1..n) \cup {Min({})}
  OBVIOUS
<1> DEFINE rest(done) == (1..n) \ ToSet(done)
           waits(i, done) == {j \in rest(done) : actions[j].id \in actions[i].deps}
           Goes(down, done) ==
              down = [m \in 0..n |-> IF m = 0 THEN Min(rest(done))
                        ELSE LET at == down[m - 1]
                             IN  IF waits(at, done) = {} THEN at ELSE Min(waits(at, done))]
           next(done) == (CHOOSE down : Goes(down, done))[n]
           Visits(visited) ==
              visited = [k \in 0..n |-> IF k = 0 THEN <<>>
                            ELSE LET done == visited[k - 1] IN Append(done, next(done))]
<1>3. ASSUME NEW done
      PROVE  next(done) \in D /\ (rest(done) # {} => next(done) \in rest(done))
  <2>1. PICK R, first : R = rest(done) /\ first = Min(R)
    OBVIOUS
  <2>2. R \subseteq 1..n /\ first \in D /\ (R # {} => first \in R)
    <3>1. R \subseteq 1..n /\ R \in SUBSET Nat
      BY <2>1
    <3>2. CASE R = {}
      BY <1>2, <2>1, <3>1, <3>2
    <3>3. CASE R # {}
      BY <1>2, <2>1, <3>1, <3>3, Least
    <3>4. QED
      BY <3>2, <3>3
  <2>3. PICK W : W = [i \in D |-> waits(i, done)]
    OBVIOUS
  <2>4. \A i \in D : W[i] \subseteq R /\ (W[i] # {} => Min(W[i]) \in W[i])
    <3>1. \A i \in D : W[i] \subseteq R
      BY <2>1, <2>3
    <3>2. ASSUME NEW i \in D, W[i] # {}
          PROVE  Min(W[i]) \in W[i]
      <4>1. PICK V : V = W[i]
        OBVIOUS
      <4>2. V \subseteq R /\ V # {}
        BY <3>1, <3>2, <4>1
      <4>3. V \subseteq 1..n
        BY <2>2, <4>2
      <4>4. V \in SUBSET Nat
        BY <4>3
      <4>5. QED
        BY <4>1, <4>2, <4>4, Least
    <3>3. QED
      BY <3>1, <3>2
  <2>5. PICK step : step = [i \in D |-> IF W[i] = {} THEN i ELSE Min(W[i])]
    OBVIOUS
  <2>6. step \in [D -> D] /\ \A i \in R : step[i] \in R
    BY <1>2, <2>2, <2>4, <2>5
  <2>7. PICK g : g = [x \in (1..n) \X D |-> step[x[2]]]
    OBVIOUS
  <2>8. g \in [(1..n) \X D -> D] /\ \A m \in 1..n : \A i \in D : g[<<m, i>>] = step[i]
    BY <2>6, <2>7
  <2>9. PICK f \in [0..n -> D] : Recurs(f, n, first, g)
    BY <2>2, <2>8, Recursion
  <2>10. f[0] = first /\ \A m \in 1..n : f[m - 1] \in D /\ f[m] = step[f[m - 1]]
    <3>1. \A m \in 1..n : m - 1 \in 0..n /\ f[m - 1] \in D
      OBVIOUS
    <3>2. QED
      BY <2>8, <2>9, <3>1 DEF Recurs
  <2>11. Goes(f, done)
    <3>1. PICK h : h = [m \in 0..n |-> IF m = 0 THEN Min(rest(done))
                        ELSE LET at == f[m - 1]
                             IN  IF waits(at, done) = {} THEN at ELSE Min(waits(at, done))]
      OBVIOUS
    <3>2. h[0] = f[0]
      BY <2>1, <2>10, <3>1
    <3>3. ASSUME NEW m \in 1..n
          PROVE  h[m] = f[m]
      <4>1. PICK at \in D : at = f[m - 1]
        BY <2>10
      <4>2. h[m] = IF waits(at, done) = {} THEN at ELSE Min(waits(at, done))
        BY <3>1, <4>1
      <4>3. h[m] = step[at]
        BY <2>3, <2>5, <4>2
      <4>4. QED
        BY <2>10, <4>1, <4>3
    <3>4. \A m \in 0..n : m = 0 \/ m \in 1..n
      OBVIOUS
    <3>5. f = h
      BY <3>1, <3>2, <3>3, <3>4
    <3>6. QED
      BY <3>1, <3>5
  <2>12. PICK down : down = (CHOOSE walk : Goes(walk, done))
    OBVIOUS
  <2>13. Goes(down, done)
    <3> HIDE DEF Goes
    <3>1. QED
      BY <2>11, <2>12
  <2>14. down[0] = first /\ \A m \in 1..n : down[m - 1] \in D => down[m] = step[down[m - 1]]
    <3>1. PICK h : h = [m \in 0..n |-> IF m = 0 THEN Min(rest(done))
                        ELSE LET at == down[m - 1]
                             IN  IF waits(at, done) = {} THEN at ELSE Min(waits(at, done))]
      OBVIOUS
    <3>2. down = h
      BY <2>13, <3>1
    <3>3. h[0] = first
      BY <2>1, <3>1
    <3>4. ASSUME NEW m \in 1..n, down[m - 1] \in D
          PROVE  h[m] = step[down[m - 1]]
      <4>1. PICK at \in D : at = down[m - 1]
        BY <3>4
      <4>2. h[m] = IF waits(at, done) = {} THEN at ELSE Min(waits(at, done))
        BY <3>1, <4>1
      <4>3. QED
        BY <2>3, <2>5, <4>1, <4>2
    <3>5. QED
      BY <3>2, <3>3, <3>4
  <2> HIDE DEF Goes, rest, waits
  <2> DEFINE Good == {m \in 0..n : down[m] \in D /\ (R # {} => down[m] \in R)}
  <2>15. 0 \in Good
    BY <2>2, <2>14
  <2>16. ASSUME NEW m \in 1..n, m - 1 \in Good
         PROVE  m \in Good
    BY <2>6, <2>14, <2>16
  <2>17. n \in Good
    <3> HIDE DEF Good
    <3>1. \A m \in 0..n : m \in Good
      BY ONLY <2>15, <2>16, UpTo, n \in Nat
    <3>2. QED
      BY <3>1
  <2>18. QED
    BY <2>1, <2>12, <2>17
<1>4. PICK visited : visited = (CHOOSE f : Visits(f))
  OBVIOUS
<1>5. Ordered(actions) = [k \in 1..n |-> actions[visited[n][k]]]
  BY <1>1, <1>4 DEF Ordered
<1> HIDE DEF rest, next
<1>6. \E f : Visits(f)
  <2>1. PICK S : S = Seq(D)
    OBVIOUS
  <2>2. PICK g : g = [x \in (1..n) \X S |-> Append(x[2], next(x[2]))]
    OBVIOUS
  <2>3. /\ g \in [(1..n) \X S -> S] /\ <<>> \in S
        /\ \A k \in 1..n : \A s \in S : g[<<k, s>>] = Append(s, next(s))
    <3>1. \A s \in S : Append(s, next(s)) \in S
      <4>1. SUFFICES ASSUME NEW s \in Seq(D), NEW x \in D PROVE Append(s, x) \in Seq(D)
        BY <1>3, <2>1
      <4>2. QED
        OBVIOUS
    <3>2. <<>> \in S
      BY <2>1
    <3>3. QED
      BY <2>2, <3>1, <3>2
  <2>4. PICK f \in [0..n -> S] : Recurs(f, n, <<>>, g)
    BY <2>3, Recursion
  <2>5. f[0] = <<>> /\ \A k \in 1..n : f[k] = Append(f[k - 1], next(f[k - 1]))
    <3>1. \A k \in 1..n : k - 1 \in 0..n /\ f[k - 1] \in S
      OBVIOUS
    <3>2. QED
      BY <2>3, <2>4, <3>1 DEF Recurs
  <2>6. PICK h : h = [k \in 0..n |-> IF k = 0 THEN <<>>
                            ELSE LET done == f[k - 1] IN Append(done, next(done))]
    OBVIOUS
  <2>7. \A k \in 0..n : k = 0 \/ k \in 1..n
    OBVIOUS
  <2>8. \A k \in 0..n : f[k] = h[k]
    BY <2>5, <2>6, <2>7
  <2>9. f = h
    BY <2>6, <2>8
  <2>10. QED
    BY <2>6, <2>9
<1>7. Visits(visited)
  <2> HIDE DEF Visits
  <2>1. QED
    BY <1>4, <1>6
<1>8. /\ visited[0] = <<>>
      /\ \A k \in 1..n : visited[k] = Append(visited[k - 1], next(visited[k - 1]))
  <2>1. PICK h : h = [k \in 0..n |-> IF k = 0 THEN <<>>
                            ELSE LET done == visited[k - 1] IN Append(done, next(done))]
    OBVIOUS
  <2>2. visited = h
    BY <1>7, <2>1
  <2>3. h[0] = <<>> /\ \A k \in 1..n : h[k] = Append(visited[k - 1], next(visited[k - 1]))
    BY <2>1
  <2>4. QED
    BY <2>2, <2>3
<1> HIDE DEF Visits
<1> DEFINE Right(s, k) == s \in Seq(1..n) /\ Len(s) = k /\ IsInjective(s)
           Good == {k \in 0..n : Right(visited[k], k)}
<1>9. 0 \in Good
  <2>1. Right(<<>>, 0)
    BY DEF IsInjective
  <2> HIDE DEF Right
  <2>2. QED
    BY <1>8, <2>1
<1>10. ASSUME NEW k \in 1..n, k - 1 \in Good
       PROVE  k \in Good
  <2>1. PICK s : s = visited[k - 1]
    OBVIOUS
  <2>2. Right(s, k - 1)
    <3> HIDE DEF Right
    <3>1. QED
      BY <1>10, <2>1
  <2>3. PICK x : x = next(s)
    OBVIOUS
  <2>4. x \in 1..n /\ x \notin ToSet(s)
    <3>1. rest(s) # {}
      BY <2>2, SomeAreLeft DEF rest
    <3>2. QED
      BY <1>3, <2>3, <3>1 DEF rest
  <2>5. PICK t : t = Append(s, x)
    OBVIOUS
  <2>6. /\ t \in Seq(1..n) /\ Len(t) = k /\ DOMAIN t = 1..k /\ DOMAIN s = 1..(k - 1)
        /\ \A i \in 1..(k - 1) : t[i] = s[i]
        /\ t[k] = x
    <3>1. /\ t \in Seq(1..n) /\ Len(t) = Len(s) + 1
          /\ \A i \in 1..Len(s) : t[i] = s[i]
          /\ t[Len(s) + 1] = x
      BY <2>2, <2>4, <2>5, AppendProperties
    <3>2. Len(s) = k - 1 /\ Len(s) + 1 = k
      BY <2>2
    <3>3. DOMAIN t = 1..Len(t) /\ DOMAIN s = 1..Len(s)
      BY <2>2, <3>1
    <3>4. QED
      BY <3>1, <3>2, <3>3
  <2>7. IsInjective(t)
    <3>1. \A i \in 1..(k - 1) : s[i] # x
      BY <2>4, <2>6 DEF ToSet
    <3>2. \A i, j \in 1..(k - 1) : s[i] = s[j] => i = j
      BY <2>2, <2>6 DEF IsInjective
    <3>3. \A i \in 1..k : i \in 1..(k - 1) \/ i = k
      OBVIOUS
    <3>4. QED
      BY <2>6, <3>1, <3>2, <3>3 DEF IsInjective
  <2>8. Right(t, k)
    BY <2>6, <2>7
  <2>9. visited[k] = t
    BY <1>8, <2>1, <2>3, <2>5
  <2> HIDE DEF Right
  <2>10. QED
    BY <2>8, <2>9
<1>11. Right(visited[n], n)
  <2>1. \A k \in 0..n : k \in Good
    <3> HIDE DEF Good
    <3>1. QED
      BY ONLY <1>9, <1>10, UpTo, n \in Nat
  <2> HIDE DEF Right
  <2>2. QED
    BY <2>1
<1>12. PICK order : order = visited[n]
  OBVIOUS
<1>13. Permutes(order, n)
  <2>1. order \in [1..n -> 1..n] /\ IsInjective(order)
    BY <1>11, <1>12
  <2>2. order \in Injection(1..n, 1..n)
    BY <2>1 DEF Injection, IsInjective
  <2>3. IsFiniteSet(1..n)
    BY FS_Interval
  <2>4. order \in Surjection(1..n, 1..n)
    BY <2>2, <2>3, FS_Injection
  <2>5. QED
    BY <2>1, <2>4 DEF Permutes, Surjection
<1>14. QED
  BY <1>1, <1>5, <1>12, <1>13

-----------------------------------------------------------------------------
(* The calls of a review, or of a wave: an agenda of the plan's actions.   *)

Unique(A) == \A a, b \in A : a.id = b.id => a = b
Distinct(s) == \A i, j \in DOMAIN s : s[i].id = s[j].id => i = j

\* A call that the executor may be given, of actions in A.
Ready(c, A) ==
    /\ IsSequence(c.acts) /\ c.acts # <<>> /\ ToSet(c.acts) \subseteq A /\ Distinct(c.acts)
    /\ \A a \in ToSet(c.acts) : a.type # "hold"
    /\ \/ c.kind = "claims" /\ \A a \in ToSet(c.acts) : a.type = "claim" /\ a.deps = {}
       \/ c.kind = "single" /\ Len(c.acts) = 1 /\ c.acts[1].deps = {}
       \/ /\ c.kind = "compose" /\ Len(c.acts) = 2
          /\ c.acts[2].type = "swap" /\ c.acts[2].deps = {}
          /\ c.acts[2].id \in c.acts[1].deps

\* The batch of claims comes first, and no two calls share an action.
Agenda(q, A) ==
    /\ IsSequence(q)
    /\ \A i \in DOMAIN q : Ready(q[i], A) /\ (q[i].kind = "claims" => i = 1)
    /\ \A i, j \in DOMAIN q : i # j => IdsOf(q[i].acts) \cap IdsOf(q[j].acts) = {}

IdsIn(q) == UNION {IdsOf(q[i].acts) : i \in DOMAIN q}

LEMMA NoAgenda == ASSUME NEW A PROVE Agenda(<<>>, A) /\ IdsIn(<<>>) = {}
<1>1. <<>> \in Seq(ToSet(<<>>)) /\ DOMAIN <<>> = {}
  OBVIOUS
<1>2. QED
  BY <1>1 DEF Agenda, IsSequence, IdsIn

LEMMA AgendaConcat ==
    ASSUME NEW A, NEW q, NEW r, Agenda(q, A), Agenda(r, A),
           \A i \in DOMAIN r : r[i].kind # "claims",
           IdsIn(q) \cap IdsIn(r) = {}
    PROVE  Agenda(q \o r, A) /\ IdsIn(q \o r) = IdsIn(q) \cup IdsIn(r)
<1>1. IsSequence(q) /\ IsSequence(r)
  BY DEF Agenda
<1>2. PICK u : u = q \o r
  OBVIOUS
<1>3. /\ IsSequence(u)
      /\ \A i \in DOMAIN q : u[i] = q[i]
      /\ \A i \in DOMAIN r : u[Len(q) + i] = r[i]
      /\ \A k \in DOMAIN u : \/ k \in DOMAIN q
                             \/ k > Len(q) /\ k - Len(q) \in DOMAIN r
      /\ Len(u) = Len(q) + Len(r)
  BY <1>1, <1>2, ConcatIs
<1>4. PICK m \in Nat, n \in Nat :
        /\ m = Len(q) /\ n = Len(r)
        /\ DOMAIN q = 1..m /\ DOMAIN r = 1..n /\ DOMAIN u = 1..(m + n)
  BY <1>1, <1>3, SequenceIs
<1>5. ASSUME NEW k \in 1..(m + n), k \notin 1..m
      PROVE  k - m \in 1..n /\ u[k] = r[k - m]
  <2>1. PICK i \in 1..n : i = k - m
    BY <1>5
  <2>2. u[m + i] = r[i] /\ m + i = k
    BY <1>3, <1>4, <2>1
  <2>3. QED
    BY <2>1, <2>2
<1>6. \A k \in 1..(m + n) : Ready(u[k], A) /\ (u[k].kind = "claims" => k = 1)
  <2>1. ASSUME NEW k \in 1..m
        PROVE  Ready(u[k], A) /\ (u[k].kind = "claims" => k = 1)
    BY <1>3, <1>4 DEF Agenda
  <2>2. ASSUME NEW k \in 1..(m + n), k \notin 1..m
        PROVE  Ready(u[k], A) /\ u[k].kind # "claims"
    <3>1. PICK i \in 1..n : u[k] = r[i]
      BY <1>5, <2>2
    <3>2. QED
      BY <1>4, <3>1 DEF Agenda
  <2>3. QED
    BY <2>1, <2>2
<1>7. /\ \A i \in 1..m : IdsOf(u[i].acts) \subseteq IdsIn(q)
      /\ \A i \in 1..(m + n) : i \notin 1..m => IdsOf(u[i].acts) \subseteq IdsIn(r)
  <2>1. \A i \in 1..m : IdsOf(u[i].acts) \subseteq IdsIn(q)
    BY <1>3, <1>4 DEF IdsIn
  <2>2. ASSUME NEW k \in 1..(m + n), k \notin 1..m
        PROVE  IdsOf(u[k].acts) \subseteq IdsIn(r)
    <3>1. PICK i \in 1..n : u[k] = r[i]
      BY <1>5, <2>2
    <3>2. QED
      BY <1>4, <3>1 DEF IdsIn
  <2>3. QED
    BY <2>1, <2>2
<1>8. ASSUME NEW k \in 1..(m + n), NEW l \in 1..(m + n), k # l
      PROVE  IdsOf(u[k].acts) \cap IdsOf(u[l].acts) = {}
  <2>1. CASE k \in 1..m /\ l \in 1..m
    BY <1>3, <1>4, <1>8, <2>1 DEF Agenda
  <2>2. CASE k \notin 1..m /\ l \notin 1..m
    <3>1. /\ k - m \in 1..n /\ l - m \in 1..n /\ k - m # l - m
          /\ u[k] = r[k - m] /\ u[l] = r[l - m]
      BY <1>5, <1>8, <2>2
    <3>2. PICK i \in 1..n, j \in 1..n : i # j /\ u[k] = r[i] /\ u[l] = r[j]
      BY <3>1
    <3>3. IdsOf(r[i].acts) \cap IdsOf(r[j].acts) = {}
      BY <1>4, <3>2 DEF Agenda
    <3>4. QED
      BY <3>2, <3>3
  <2>3. CASE k \in 1..m /\ l \notin 1..m
    BY <1>7, <2>3
  <2>4. CASE k \notin 1..m /\ l \in 1..m
    BY <1>7, <2>4
  <2>5. QED
    BY <2>1, <2>2, <2>3, <2>4
<1>9. Agenda(u, A)
  BY <1>3, <1>4, <1>6, <1>8 DEF Agenda
<1>10. IdsIn(u) = IdsIn(q) \cup IdsIn(r)
  <2>1. IdsIn(u) \subseteq IdsIn(q) \cup IdsIn(r)
    <3>1. SUFFICES ASSUME NEW x \in IdsIn(u) PROVE x \in IdsIn(q) \cup IdsIn(r)
      OBVIOUS
    <3>2. PICK k \in 1..(m + n) : x \in IdsOf(u[k].acts)
      BY <1>4 DEF IdsIn
    <3>3. IdsOf(u[k].acts) \subseteq IdsIn(q) \/ IdsOf(u[k].acts) \subseteq IdsIn(r)
      BY <1>7
    <3>4. QED
      BY <3>2, <3>3
  <2>2. IdsIn(q) \subseteq IdsIn(u)
    <3>1. \A i \in 1..m : i \in 1..(m + n) /\ u[i] = q[i]
      BY <1>3, <1>4
    <3>2. QED
      BY <1>4, <3>1 DEF IdsIn
  <2>3. IdsIn(r) \subseteq IdsIn(u)
    <3>1. ASSUME NEW i \in 1..n
          PROVE  \E k \in 1..(m + n) : u[k] = r[i]
      <4>1. PICK k \in 1..(m + n) : k = m + i
        OBVIOUS
      <4>2. QED
        BY <1>3, <1>4, <4>1
    <3>2. QED
      BY <1>4, <3>1 DEF IdsIn
  <2>4. QED
    BY <2>1, <2>2, <2>3
<1>11. QED
  BY <1>2, <1>9, <1>10

LEMMA OrderedKeeps ==
    ASSUME NEW actions, IsSequence(actions)
    PROVE  /\ IsSequence(Ordered(actions)) /\ Len(Ordered(actions)) = Len(actions)
           /\ ToSet(Ordered(actions)) = ToSet(actions)
           /\ Distinct(actions) => Distinct(Ordered(actions)) /\ IsInjective(Ordered(actions))
<1>1. PICK n \in Nat : n = Len(actions) /\ DOMAIN actions = 1..n
  BY SequenceIs
<1>2. PICK order : /\ Permutes(order, n)
                   /\ Ordered(actions) = [k \in 1..n |-> actions[order[k]]]
  BY <1>1, OrderedIs
<1>3. PICK s : s = Ordered(actions)
  OBVIOUS
<1>4. IsSequence(s) /\ Len(s) = n /\ DOMAIN s = 1..n /\ \A k \in 1..n : s[k] = actions[order[k]]
  <2>1. PICK f : f = [k \in 1..n |-> actions[order[k]]]
    OBVIOUS
  <2>2. s = [k \in 1..n |-> f[k]]
    BY <1>2, <1>3, <2>1
  <2>3. QED
    BY <1>2, <1>3, <2>2, Indexed
<1>5. ToSet(s) = ToSet(actions)
  <2>1. \A k \in 1..n : order[k] \in 1..n
    BY <1>2 DEF Permutes
  <2>2. \A i \in 1..n : \E k \in 1..n : order[k] = i
    BY <1>2 DEF Permutes
  <2>3. \A k \in 1..n : s[k] \in ToSet(actions)
    BY <1>1, <1>4, <2>1 DEF ToSet
  <2>4. ASSUME NEW i \in 1..n
        PROVE  actions[i] \in ToSet(s)
    <3>1. PICK k \in 1..n : order[k] = i
      BY <2>2
    <3>2. s[k] = actions[i]
      BY <1>4, <3>1
    <3>3. QED
      BY <1>4, <3>2 DEF ToSet
  <2>5. QED
    BY <1>1, <1>4, <2>3, <2>4 DEF ToSet
<1>6. ASSUME Distinct(actions)
      PROVE  Distinct(s) /\ IsInjective(s)
  <2>1. ASSUME NEW k \in 1..n, NEW l \in 1..n, s[k].id = s[l].id
        PROVE  k = l
    <3>1. PICK i \in 1..n, j \in 1..n : i = order[k] /\ j = order[l]
      BY <1>2 DEF Permutes
    <3>2. actions[i].id = actions[j].id
      BY <1>4, <2>1, <3>1
    <3>3. i = j
      BY <1>1, <1>6, <3>2 DEF Distinct
    <3>4. QED
      BY <1>2, <3>1, <3>3 DEF Permutes, IsInjective
  <2>2. QED
    BY <1>4, <2>1 DEF Distinct, IsInjective
<1>7. QED
  BY <1>1, <1>3, <1>4, <1>5, <1>6

LEMMA ThoseAre ==
    ASSUME NEW s, IsSequence(s), NEW set
    PROVE  /\ IsSequence(Those(s, set)) /\ ToSet(Those(s, set)) = ToSet(s) \cap set
           /\ IsInjective(s) => IsInjective(Those(s, set))
<1>1. PICK T : T = ToSet(s) /\ s \in Seq(T)
  BY DEF IsSequence
<1>2. Those(s, set) \in Seq(T)
  BY <1>1, ThoseIs
<1>3. QED
  BY <1>1, <1>2, ThoseIs, Sequences

\* Without repetition, members of a set with unique ids have distinct ids.
LEMMA DistinctIn ==
    ASSUME NEW s, NEW A, IsSequence(s), ToSet(s) \subseteq A, Unique(A), IsInjective(s)
    PROVE  Distinct(s)
<1>1. \A i \in DOMAIN s : s[i] \in A
  BY SequenceIs
<1>2. QED
  BY <1>1 DEF Distinct, Unique, IsInjective

LEMMA UniqueIn ==
    ASSUME NEW s, IsSequence(s), Distinct(s)
    PROVE  Unique(ToSet(s))
  BY DEF Distinct, Unique, ToSet

LEMMA PairsAre ==
    ASSUME NEW order, IsSequence(order), NEW shapesOf, NEW p \in ComposePairs(order, shapesOf)
    PROVE  \E s, e \in ToSet(order) :
            /\ p = <<s, e>> /\ s.type = "swap" /\ s.deps = {} /\ s.id \in e.deps
            /\ e.type \in Enters
            /\ {t \in ToSet(order) : t.type = "swap" /\ t.id \in e.deps} = {s}
            /\ \A q \in ComposePairs(order, shapesOf) : q[1] = s => q = p
<1> DEFINE swapsOf(e) == {s \in ToSet(order) : s.type = "swap" /\ s.id \in e.deps}
           users(s) == {i \in DOMAIN order :
                        /\ order[i].type \in Enters /\ swapsOf(order[i]) = {s}
                        /\ CanCompose(order[i], s, shapesOf[order[i]])}
<1>1. ComposePairs(order, shapesOf) =
        {<<s, order[Min(users(s))]>> : s \in {t \in ToSet(order) : users(t) # {}}}
  BY DEF ComposePairs
<1>2. PICK s \in ToSet(order) : users(s) # {} /\ p = <<s, order[Min(users(s))]>>
  BY <1>1
<1>3. PICK i : i = Min(users(s))
  OBVIOUS
<1>4. i \in users(s)
  <2>1. DOMAIN order \subseteq Nat
    BY SequenceIs
  <2>2. PICK U : U = users(s)
    OBVIOUS
  <2>3. U \in SUBSET Nat /\ U # {}
    BY <1>2, <2>1, <2>2
  <2>4. Min(U) \in U
    BY <2>3, Least
  <2>5. QED
    BY <1>3, <2>2, <2>4
<1>5. PICK e : e = order[i]
  OBVIOUS
<1>6. e \in ToSet(order) /\ e.type \in Enters /\ swapsOf(e) = {s}
  BY <1>4, <1>5, SequenceIs
<1>7. s.type = "swap" /\ s.deps = {} /\ s.id \in e.deps
  BY <1>4, <1>5 DEF CanCompose
<1>8. p = <<s, e>>
  BY <1>2, <1>3, <1>5
<1>9. ASSUME NEW q \in ComposePairs(order, shapesOf), q[1] = s
      PROVE  q = p
  <2>1. PICK t \in ToSet(order) : q = <<t, order[Min(users(t))]>>
    BY <1>1
  <2>2. t = s
    BY <1>9, <2>1
  <2>3. QED
    BY <1>2, <2>1, <2>2
<1>10. QED
  BY <1>6, <1>7, <1>8, <1>9

\* Each action in a call of its own.
LEMMA AloneIs ==
    ASSUME NEW s, IsSequence(s), Distinct(s), NEW A, ToSet(s) \subseteq A,
           \A a \in ToSet(s) : a.type # "hold" /\ a.deps = {},
           NEW q, q = [i \in DOMAIN s |->
                        [kind |-> "single", acts |-> <<s[i]>>, skipped |-> {}]]
    PROVE  /\ Agenda(q, A) /\ IdsIn(q) \subseteq IdsOf(s)
           /\ \A i \in DOMAIN q : q[i].kind = "single"
           /\ DOMAIN q = DOMAIN s /\ \A i \in DOMAIN q : ToSet(q[i].acts) = {s[i]}
<1>1. PICK n \in Nat : n = Len(s) /\ DOMAIN s = 1..n
  BY SequenceIs
<1>2. IsSequence(q) /\ DOMAIN q = 1..n
  <2>1. q = [i \in 1..n |-> q[i]]
    BY <1>1
  <2>2. QED
    BY <1>1, <2>1, Indexed
<1>3. ASSUME NEW i \in 1..n
      PROVE  /\ Ready(q[i], A) /\ q[i].kind = "single" /\ ToSet(q[i].acts) = {s[i]}
             /\ IdsOf(q[i].acts) = {s[i].id}
  <2>1. PICK a \in A : a = s[i] /\ a.type # "hold" /\ a.deps = {}
    BY <1>1, SequenceIs
  <2>2. PICK acts \in Seq(A) : acts = <<a>>
    <3>1. <<a>> \in Seq(A)
      OBVIOUS
    <3>2. QED
      BY <3>1
  <2>3. Len(acts) = 1 /\ DOMAIN acts = {1} /\ acts[1] = a /\ acts # <<>>
    BY <2>2
  <2>4. q[i].kind = "single" /\ q[i].acts = acts
    BY <1>1, <2>1, <2>2
  <2>5. IsSequence(acts)
    BY <2>2, Sequences
  <2>6. ToSet(acts) = {a}
    BY <2>3 DEF ToSet
  <2>7. Distinct(acts) /\ IdsOf(acts) = {a.id}
    BY <2>3 DEF Distinct, IdsOf
  <2>8. Ready(q[i], A)
    BY <2>1, <2>3, <2>4, <2>5, <2>6, <2>7 DEF Ready
  <2>9. QED
    BY <2>1, <2>4, <2>6, <2>7, <2>8
<1>4. \A i, j \in 1..n : i # j => s[i].id # s[j].id
  BY <1>1 DEF Distinct
<1>5. ASSUME NEW i \in 1..n, NEW j \in 1..n, i # j
      PROVE  IdsOf(q[i].acts) \cap IdsOf(q[j].acts) = {}
  <2>1. IdsOf(q[i].acts) = {s[i].id} /\ IdsOf(q[j].acts) = {s[j].id}
    BY <1>3
  <2>2. s[i].id # s[j].id
    BY <1>4, <1>5
  <2>3. QED
    BY <2>1, <2>2
<1>6. IdsIn(q) \subseteq IdsOf(s)
  <2>1. \A i \in 1..n : s[i].id \in IdsOf(s)
    BY <1>1 DEF IdsOf
  <2>2. \A i \in 1..n : IdsOf(q[i].acts) \subseteq IdsOf(s)
    BY <1>3, <2>1
  <2>3. SUFFICES ASSUME NEW x \in IdsIn(q) PROVE x \in IdsOf(s)
    OBVIOUS
  <2>4. PICK i \in 1..n : x \in IdsOf(q[i].acts)
    BY <1>2 DEF IdsIn
  <2>5. QED
    BY <2>2, <2>4
<1>7. Agenda(q, A)
  BY <1>2, <1>3, <1>5 DEF Agenda
<1>8. QED
  BY <1>1, <1>2, <1>3, <1>6, <1>7

LEMMA ReviewCallsAre ==
    ASSUME NEW actions, IsSequence(actions), Distinct(actions), NEW desk, NEW opps
    PROVE  Agenda(ReviewCalls(actions, desk, opps), ToSet(actions))
<1>1. PICK A : A = ToSet(actions) /\ Unique(A)
  BY UniqueIn
<1>2. PICK order : order = Ordered(actions)
  OBVIOUS
<1>3. IsSequence(order) /\ IsInjective(order) /\ ToSet(order) = A
  BY <1>1, <1>2, OrderedKeeps
<1>4. PICK claims, batch :
        /\ claims = {a \in ToSet(order) : a.type = "claim" /\ a.deps = {} /\ HasDeskQuote(a, desk)}
        /\ batch = Those(order, claims)
  OBVIOUS
<1>5. PICK pairs : pairs = ComposePairs(order, [a \in ToSet(order) |-> Shapes(a, opps)])
  OBVIOUS
<1>6. PICK second, enters : second = {p[2] : p \in pairs} /\ enters = Those(order, second)
  OBVIOUS
<1>7. PICK paired, served :
        /\ paired = UNION {{p[1].id, p[2].id} : p \in pairs}
        /\ served = IdsOf(batch) \cup paired
  OBVIOUS
<1>8. PICK rest, alone :
        /\ rest = {a \in ToSet(order) : a.type # "hold" /\ a.deps = {} /\ a.id \notin served}
        /\ alone = Those(order, rest)
  OBVIOUS
<1>9. PICK first : first = IF batch = <<>> THEN <<>> ELSE
            <<[kind |-> "claims", acts |-> batch, skipped |-> PlanClaims(batch, desk).skipped]>>
  OBVIOUS
<1>10. PICK mid : mid = [i \in DOMAIN enters |->
            [kind |-> "compose", skipped |-> {},
             acts |-> <<enters[i], (CHOOSE p \in pairs : p[2] = enters[i])[1]>>]]
  OBVIOUS
<1>11. PICK last : last = [i \in DOMAIN alone |->
            [kind |-> "single", acts |-> <<alone[i]>>, skipped |-> {}]]
  OBVIOUS
<1>12. ReviewCalls(actions, desk, opps) = first \o mid \o last
  BY <1>2, <1>4, <1>5, <1>6, <1>7, <1>8, <1>9, <1>10, <1>11 DEF ReviewCalls
<1>13. Agenda(first, A) /\ IdsIn(first) = IdsOf(batch)
  <2>1. IsSequence(batch) /\ IsInjective(batch) /\ ToSet(batch) = claims /\ claims \subseteq A
    BY <1>3, <1>4, ThoseAre
  <2>2. Distinct(batch)
    BY <1>1, <2>1, DistinctIn
  <2>3. CASE batch = <<>>
    <3>1. first = <<>> /\ IdsOf(batch) = {}
      BY <1>9, <2>3 DEF IdsOf
    <3>2. QED
      BY <3>1, NoAgenda
  <2>4. CASE batch # <<>>
    <3>1. PICK c : c = [kind |-> "claims", acts |-> batch,
                        skipped |-> PlanClaims(batch, desk).skipped]
      OBVIOUS
    <3>2. c.kind = "claims" /\ c.acts = batch
      BY <3>1
    <3>3. first = <<c>>
      BY <1>9, <2>4, <3>1
    <3>4. DOMAIN first = {1} /\ first[1] = c /\ IsSequence(first)
      <4>1. first \in Seq({c}) /\ Len(first) = 1 /\ first[1] = c
        BY <3>3
      <4>2. QED
        BY <4>1, Sequences
    <3>5. Ready(c, A)
      BY <1>4, <2>1, <2>2, <2>4, <3>2 DEF Ready
    <3>6. QED
      BY <3>2, <3>4, <3>5 DEF Agenda, IdsIn
  <2>5. QED
    BY <2>3, <2>4
<1>14. Agenda(mid, A) /\ IdsIn(mid) \subseteq paired /\ \A i \in DOMAIN mid : mid[i].kind = "compose"
  <2>1. /\ IsSequence(enters) /\ IsInjective(enters) /\ ToSet(enters) \subseteq A
        /\ ToSet(enters) \subseteq second
    BY <1>3, <1>6, ThoseAre
  <2>2. Distinct(enters)
    BY <1>1, <2>1, DistinctIn
  <2>3. PICK n \in Nat : n = Len(enters) /\ DOMAIN enters = 1..n
    BY <2>1, SequenceIs
  <2>4. IsSequence(mid) /\ DOMAIN mid = 1..n
    <3>1. mid = [i \in 1..n |-> mid[i]]
      BY <1>10, <2>3
    <3>2. QED
      BY <2>3, <3>1, Indexed
  <2> DEFINE Serves(i, s, e) ==
                /\ <<s, e>> \in pairs /\ e = enters[i] /\ mid[i].kind = "compose"
                /\ mid[i].acts = <<e, s>>
                /\ s.type = "swap" /\ s.deps = {} /\ s.id \in e.deps /\ e.type \in Enters
                /\ \A q \in pairs : q[1] = s => q = <<s, e>>
  <2>5. ASSUME NEW i \in 1..n
        PROVE  \E s, e \in A : Serves(i, s, e)
    <3>1. PICK p : p = (CHOOSE x \in pairs : x[2] = enters[i])
      OBVIOUS
    <3>2. p \in pairs /\ p[2] = enters[i]
      <4>1. enters[i] \in second
        BY <2>1, <2>3, SequenceIs
      <4>2. QED
        BY <1>6, <3>1, <4>1
    <3>3. PICK s \in A, e \in A :
            /\ p = <<s, e>> /\ s.type = "swap" /\ s.deps = {} /\ s.id \in e.deps
            /\ e.type \in Enters
            /\ \A q \in pairs : q[1] = s => q = p
      BY <1>3, <1>5, <3>2, PairsAre
    <3>4. p[1] = s /\ p[2] = e
      BY <3>3
    <3>5. mid[i] = [kind |-> "compose", skipped |-> {}, acts |-> <<e, s>>]
      BY <1>10, <2>3, <3>1, <3>2, <3>4
    <3>6. mid[i].kind = "compose" /\ mid[i].acts = <<e, s>>
      BY <3>5
    <3>7. <<s, e>> \in pairs /\ e = enters[i] /\ \A q \in pairs : q[1] = s => q = <<s, e>>
      BY <3>2, <3>3, <3>4
    <3>8. Serves(i, s, e)
      BY <3>3, <3>6, <3>7
    <3> HIDE DEF Serves
    <3>9. QED
      BY <3>8
  <2>6. ASSUME NEW i \in 1..n
        PROVE  Ready(mid[i], A) /\ mid[i].kind = "compose" /\ IdsOf(mid[i].acts) \subseteq paired
    <3> HIDE DEF Serves
    <3>0. PICK s \in A, e \in A : Serves(i, s, e)
      BY <2>5
    <3> USE DEF Serves
    <3>1. /\ <<s, e>> \in pairs /\ e = enters[i] /\ mid[i].kind = "compose"
          /\ mid[i].acts = <<e, s>>
          /\ s.type = "swap" /\ s.deps = {} /\ s.id \in e.deps /\ e.type \in Enters
      BY <3>0
    <3> HIDE DEF Serves
    <3>2. PICK acts \in Seq(A) : acts = <<e, s>> /\ acts = mid[i].acts
      <4>1. <<e, s>> \in Seq(A)
        OBVIOUS
      <4>2. QED
        BY <3>1, <4>1
    <3>3. Len(acts) = 2 /\ DOMAIN acts = {1, 2} /\ acts[1] = e /\ acts[2] = s /\ acts # <<>>
      BY <3>2
    <3>4. IsSequence(acts) /\ ToSet(acts) = {e, s}
      BY <3>2, <3>3, Sequences DEF ToSet
    <3>5. e.type # s.type /\ e.type # "hold" /\ s.type # "hold"
      BY <3>1 DEF Enters
    <3>6. e.id # s.id
      BY <1>1, <3>5 DEF Unique
    <3>7. Distinct(acts)
      BY <3>3, <3>6 DEF Distinct
    <3>8. Ready(mid[i], A)
      BY <3>1, <3>2, <3>3, <3>4, <3>5, <3>7 DEF Ready
    <3>9. PICK p \in pairs : p = <<s, e>>
      BY <3>1
    <3>10. p[1] = s /\ p[2] = e
      BY <3>9
    <3>11. IdsOf(acts) = {e.id, s.id}
      BY <3>3 DEF IdsOf
    <3>12. QED
      BY <1>7, <3>1, <3>2, <3>8, <3>9, <3>10, <3>11
  <2>7. ASSUME NEW i \in 1..n, NEW j \in 1..n, i # j
        PROVE  IdsOf(mid[i].acts) \cap IdsOf(mid[j].acts) = {}
    <3> HIDE DEF Serves
    <3>0. PICK s \in A, e \in A, t \in A, f \in A : Serves(i, s, e) /\ Serves(j, t, f)
      <4>1. PICK s \in A, e \in A : Serves(i, s, e)
        BY <2>5
      <4>2. PICK t \in A, f \in A : Serves(j, t, f)
        BY <2>5
      <4>3. QED
        BY <4>1, <4>2
    <3> USE DEF Serves
    <3>1. /\ <<s, e>> \in pairs /\ e = enters[i]
          /\ mid[i].acts = <<e, s>> /\ s.type = "swap" /\ e.type \in Enters
          /\ \A q \in pairs : q[1] = s => q = <<s, e>>
      BY <3>0
    <3>2. /\ <<t, f>> \in pairs /\ f = enters[j]
          /\ mid[j].acts = <<f, t>> /\ t.type = "swap" /\ f.type \in Enters
      BY <3>0
    <3> HIDE DEF Serves
    <3>3. e.id # f.id
      BY <2>2, <2>3, <2>7, <3>1, <3>2 DEF Distinct
    <3>4. s # t
      <4>1. PICK q \in pairs : q = <<t, f>>
        BY <3>2
      <4>2. q[1] = t /\ q[2] = f
        BY <4>1
      <4>3. ASSUME s = t PROVE FALSE
        <5>1. q = <<s, e>>
          BY <3>1, <4>2, <4>3
        <5>2. q[2] = e
          BY <5>1
        <5>3. QED
          BY <3>3, <4>2, <5>2
      <4>4. QED
        BY <4>3
    <3>5. s.id # t.id
      BY <1>1, <3>4 DEF Unique
    <3>6. e.id # t.id /\ f.id # s.id
      BY <1>1, <3>1, <3>2 DEF Unique, Enters
    <3>7. IdsOf(mid[i].acts) = {e.id, s.id} /\ IdsOf(mid[j].acts) = {f.id, t.id}
      <4>1. ASSUME NEW x, NEW y, NEW acts, acts = <<x, y>>
            PROVE  IdsOf(acts) = {x.id, y.id}
        <5>1. DOMAIN acts = {1, 2} /\ acts[1] = x /\ acts[2] = y
          BY <4>1
        <5>2. QED
          BY <5>1 DEF IdsOf
      <4>2. QED
        BY <3>1, <3>2, <4>1
    <3>8. QED
      BY <3>3, <3>5, <3>6, <3>7
  <2>8. IdsIn(mid) \subseteq paired
    BY <2>4, <2>6 DEF IdsIn
  <2>9. QED
    BY <2>4, <2>6, <2>7, <2>8 DEF Agenda
<1>15. Agenda(last, A) /\ IdsIn(last) \cap served = {} /\ \A i \in DOMAIN last : last[i].kind = "single"
  <2>1. /\ IsSequence(alone) /\ IsInjective(alone) /\ ToSet(alone) = rest /\ rest \subseteq A
    BY <1>3, <1>8, ThoseAre
  <2>2. Distinct(alone)
    BY <1>1, <2>1, DistinctIn
  <2>3. \A a \in rest : a.type # "hold" /\ a.deps = {} /\ a.id \notin served
    BY <1>8
  <2>4. /\ Agenda(last, A) /\ IdsIn(last) \subseteq IdsOf(alone)
        /\ \A i \in DOMAIN last : last[i].kind = "single"
    BY <1>11, <2>1, <2>2, <2>3, AloneIs
  <2>5. IdsOf(alone) \cap served = {}
    <3>1. \A i \in DOMAIN alone : alone[i] \in rest
      BY <2>1, SequenceIs
    <3>2. QED
      BY <2>3, <3>1 DEF IdsOf
  <2>6. QED
    BY <2>4, <2>5
<1>16. IdsOf(batch) \cap paired = {}
  <2>1. SUFFICES ASSUME NEW x \in IdsOf(batch), x \in paired PROVE FALSE
    OBVIOUS
  <2>2. PICK b \in A : b.id = x /\ b.type = "claim"
    <3>1. IsSequence(batch) /\ ToSet(batch) = claims /\ claims \subseteq A
      BY <1>3, <1>4, ThoseAre
    <3>2. PICK i \in DOMAIN batch : x = batch[i].id
      BY <2>1 DEF IdsOf
    <3>3. batch[i] \in claims
      BY <3>1, SequenceIs
    <3>4. QED
      BY <1>4, <3>1, <3>2, <3>3
  <2>3. PICK p \in pairs : x \in {p[1].id, p[2].id}
    BY <1>7, <2>1
  <2>4. PICK s \in A, e \in A : p = <<s, e>> /\ s.type = "swap" /\ e.type \in Enters
    BY <1>3, <1>5, PairsAre
  <2>5. p[1] = s /\ p[2] = e
    BY <2>4
  <2>6. QED
    BY <1>1, <2>2, <2>3, <2>4, <2>5 DEF Unique, Enters
<1>17. PICK most : most = first \o mid
  OBVIOUS
<1>18. Agenda(most, A) /\ IdsIn(most) = IdsIn(first) \cup IdsIn(mid)
  <2>1. (\A i \in DOMAIN mid : mid[i].kind # "claims") /\ IdsIn(first) \cap IdsIn(mid) = {}
    BY <1>13, <1>14, <1>16
  <2>2. QED
    <3>1. Agenda(first, A) /\ Agenda(mid, A)
      BY <1>13, <1>14
    <3>2. Agenda(first \o mid, A) /\ IdsIn(first \o mid) = IdsIn(first) \cup IdsIn(mid)
      BY ONLY <2>1, <3>1, AgendaConcat
    <3>3. QED
      BY <1>17, <3>2
<1>19. Agenda(most \o last, A)
  <2>1. (\A i \in DOMAIN last : last[i].kind # "claims") /\ IdsIn(most) \cap IdsIn(last) = {}
    BY <1>7, <1>13, <1>14, <1>15, <1>18
  <2>2. QED
    BY <1>15, <1>18, <2>1, AgendaConcat
<1>20. QED
  BY <1>1, <1>12, <1>17, <1>19

-----------------------------------------------------------------------------
(* The catalog of a wave.                                                  *)

Opp == {"id", "ready", "tvl", "shapes", "family", "receipt"}

GoodOpp(o) ==
    /\ DOMAIN o = Opp
    /\ \A s, t \in o.shapes : s.key = t.key => s = t
    /\ \A s \in o.shapes :
        /\ s.order \in Nat
        /\ s.key \in {"xalgo-unstake", "myth-redeem"} => Redeems(s)
        /\ Preparatory(s) <=> s.key \in Preparations
        /\ Redeems(s) => ~Preparatory(s)

LEMMA CoherentIs ==
    ASSUME NEW S
    PROVE  Coherent(S) <=> Unique(S) /\ \A o \in S : GoodOpp(o)
  BY DEF Coherent, GoodOpp, Opp, Unique

CanRedeem(o) == \E s \in o.shapes : Redeems(s)

LEMMA RedeemAdded ==
    ASSUME NEW o, GoodOpp(o), NEW key \in {"xalgo-unstake", "myth-redeem"}, NEW receipt,
           \A s \in o.shapes : s.key # key
    PROVE  LET p == [o EXCEPT !.shapes = @ \cup {Redeem(key, receipt)}]
           IN  /\ GoodOpp(p) /\ CanRedeem(p)
               /\ p.id = o.id /\ p.family = o.family /\ p.receipt = o.receipt
<1>1. PICK r : r = Redeem(key, receipt)
  OBVIOUS
<1>2. r.key = key /\ r.order = 1 /\ Redeems(r) /\ ~Preparatory(r)
  BY <1>1 DEF Redeem, Redeems, Preparatory, Has
<1>3. PICK p : p = [o EXCEPT !.shapes = @ \cup {r}]
  OBVIOUS
<1>4. /\ DOMAIN p = Opp /\ p.shapes = o.shapes \cup {r}
      /\ p.id = o.id /\ p.family = o.family /\ p.receipt = o.receipt
  BY <1>3 DEF GoodOpp, Opp
<1>5. \A s, t \in p.shapes : s.key = t.key => s = t
  BY <1>2, <1>4 DEF GoodOpp
<1>6. GoodOpp(p)
  BY <1>2, <1>4, <1>5, PlanRunsAssumption DEF GoodOpp
<1>7. CanRedeem(p)
  BY <1>2, <1>4 DEF CanRedeem
<1>8. QED
  BY <1>1, <1>3, <1>4, <1>6, <1>7

LEMMA AppendIs ==
    ASSUME NEW s, IsSequence(s), NEW x
    PROVE  /\ IsSequence(Append(s, x)) /\ ToSet(Append(s, x)) = ToSet(s) \cup {x}
<1>1. PICK T : T = ToSet(s) \cup {x}
  OBVIOUS
<1>2. s \in Seq(T) /\ x \in T
  <2>1. PICK S : S = ToSet(s) /\ s \in Seq(S) /\ S \subseteq T
    BY <1>1 DEF IsSequence
  <2>2. QED
    BY <1>1, <2>1, SeqMonotonic
<1>3. PICK t : t = Append(s, x)
  OBVIOUS
<1>4. /\ t \in Seq(T) /\ Len(t) = Len(s) + 1
      /\ \A i \in 1..Len(s) : t[i] = s[i]
      /\ t[Len(s) + 1] = x
  BY <1>2, <1>3, AppendProperties
<1>5. PICK n \in Nat : n = Len(s) /\ DOMAIN s = 1..n /\ DOMAIN t = 1..(n + 1)
  BY <1>2, <1>4
<1>6. ToSet(t) = ToSet(s) \cup {x}
  <2>1. \A i \in 1..(n + 1) : i \in 1..n \/ i = n + 1
    OBVIOUS
  <2>2. \A i \in 1..n : i \in 1..(n + 1)
    OBVIOUS
  <2>3. \A i \in 1..n : t[i] = s[i]
    BY <1>4, <1>5
  <2>4. n + 1 \in 1..(n + 1) /\ t[n + 1] = x
    BY <1>4, <1>5
  <2>5. ToSet(t) \subseteq ToSet(s) \cup {x}
    BY <1>5, <2>1, <2>3, <2>4 DEF ToSet
  <2>6. ToSet(s) \subseteq ToSet(t)
    BY <1>5, <2>2, <2>3 DEF ToSet
  <2>7. x \in ToSet(t)
    BY <1>5, <2>4 DEF ToSet
  <2>8. QED
    BY <2>5, <2>6, <2>7
<1>7. QED
  BY <1>3, <1>4, <1>6, Sequences

\* Once a receipt is enriched for, some opportunity redeems.
LEMMA EnrichIs ==
    ASSUME NEW list \in Catalogs, NEW receipts
    PROVE  LET opps == Enrich(list, receipts)
           IN  /\ IsSequence(opps) /\ Coherent(ToSet(opps))
               /\ XAlgo \in receipts => \E o \in ToSet(opps) : CanRedeem(o)
               /\ \A o \in ToSet(opps) : o.family = "myth" =>
                    /\ \E p \in ToSet(list) : p.family = "myth" /\ p.receipt = o.receipt
                    /\ o.receipt \in receipts => \E p \in ToSet(opps) : CanRedeem(p)
<1>1. PICK A : /\ A = ToSet(list) /\ IsSequence(list) /\ Unique(A)
               /\ \A o \in A : GoodOpp(o)
  BY CatalogAssumption, CoherentIs DEF IsSequence
<1> DEFINE lists(o) == \E s \in o.shapes : s.key = "xalgo-unstake"
<1> DEFINE folks0 == Those(list, {o \in ToSet(list) : o.family = "folks"})
           donor0 == IF folks0 # <<>> THEN folks0[1]
                 ELSE [id |-> "xalgo-stake", ready |-> TRUE, tvl |-> TRUE, shapes |-> {},
                       family |-> "folks", receipt |-> XAlgo]
           first0 == IF XAlgo \notin receipts \/ \E o \in ToSet(list) : lists(o) THEN list
                ELSE Append(Those(list, {o \in ToSet(list) : o.id # donor0.id}),
                            [donor0 EXCEPT !.shapes = @ \cup {Redeem("xalgo-unstake", XAlgo)}])
           myth0(r) == Those(first0, {o \in ToSet(first0) : o.family = "myth" /\ o.receipt = r})
           mended0(o) ==
                IF o.family = "myth" /\ o.receipt \in receipts \ {XAlgo} /\ o = myth0(o.receipt)[1]
                    /\ ~\E s \in o.shapes : s.key = "myth-redeem"
                THEN [o EXCEPT !.shapes = @ \cup {Redeem("myth-redeem", o.receipt)}] ELSE o
<1>0. Enrich(list, receipts) = [i \in DOMAIN first0 |-> mended0(first0[i])]
  BY DEF Enrich
<1>2. PICK folks : folks = folks0
  OBVIOUS
<1>3. IsSequence(folks) /\ \A o \in ToSet(folks) : o \in A /\ o.family = "folks"
  <2>1. PICK F : F = {o \in ToSet(list) : o.family = "folks"}
    OBVIOUS
  <2>2. IsSequence(folks) /\ ToSet(folks) = A \cap F
    BY <1>1, <1>2, <2>1, ThoseAre
  <2>3. QED
    BY <2>1, <2>2
<1>4. PICK donor : donor = donor0 /\ donor = IF folks # <<>> THEN folks[1]
                 ELSE [id |-> "xalgo-stake", ready |-> TRUE, tvl |-> TRUE, shapes |-> {},
                       family |-> "folks", receipt |-> XAlgo]
  BY <1>2
<1> HIDE DEF folks0, donor0
<1>5. PICK first : first = first0 /\ first =
        IF XAlgo \notin receipts \/ \E o \in ToSet(list) : lists(o) THEN list
        ELSE Append(Those(list, {o \in ToSet(list) : o.id # donor.id}),
                    [donor EXCEPT !.shapes = @ \cup {Redeem("xalgo-unstake", XAlgo)}])
  BY <1>4
<1> HIDE DEF first0
<1> DEFINE myth(r) == Those(first, {o \in ToSet(first) : o.family = "myth" /\ o.receipt = r})
           mended(o) ==
                IF o.family = "myth" /\ o.receipt \in receipts \ {XAlgo} /\ o = myth(o.receipt)[1]
                    /\ ~\E s \in o.shapes : s.key = "myth-redeem"
                THEN [o EXCEPT !.shapes = @ \cup {Redeem("myth-redeem", o.receipt)}] ELSE o
<1>6. PICK opps : opps = [i \in DOMAIN first |-> mended(first[i])]
  OBVIOUS
<1>7. opps = Enrich(list, receipts)
  BY <1>0, <1>5, <1>6
<1>8. /\ IsSequence(first) /\ Unique(ToSet(first)) /\ \A o \in ToSet(first) : GoodOpp(o)
      /\ \A o \in ToSet(first) : o.family = "myth" => o \in A
      /\ XAlgo \in receipts => \E o \in ToSet(first) : CanRedeem(o)
  <2>1. CASE XAlgo \notin receipts \/ \E o \in ToSet(list) : lists(o)
    <3>1. first = list
      BY <1>5, <2>1
    <3>2. \A o \in A : lists(o) => CanRedeem(o)
      BY <1>1 DEF CanRedeem, GoodOpp
    <3>3. QED
      BY <1>1, <2>1, <3>1, <3>2
  <2>2. CASE ~(XAlgo \notin receipts \/ \E o \in ToSet(list) : lists(o))
    <3>1. GoodOpp(donor) /\ donor.family # "myth"
      <4>1. CASE folks # <<>>
        <5>1. folks[1] \in ToSet(folks)
          BY <1>3, <4>1, TailIs, SequenceIs
        <5>2. QED
          BY <1>1, <1>3, <1>4, <4>1, <5>1
      <4>2. CASE folks = <<>>
        <5>1. DOMAIN donor = Opp /\ donor.shapes = {} /\ donor.family = "folks"
          BY <1>4, <4>2 DEF Opp
        <5>2. QED
          BY <5>1 DEF GoodOpp
      <4>3. QED
        BY <4>1, <4>2
    <3>2. \A s \in donor.shapes : s.key # "xalgo-unstake"
      <4>1. CASE folks # <<>>
        <5>1. folks[1] \in ToSet(folks)
          BY <1>3, <4>1, TailIs, SequenceIs
        <5>2. donor \in A
          BY <1>3, <1>4, <4>1, <5>1
        <5>3. QED
          BY <1>1, <2>2, <5>2
      <4>2. CASE folks = <<>>
        BY <1>4, <4>2
      <4>3. QED
        BY <4>1, <4>2
    <3>3. PICK d : d = [donor EXCEPT !.shapes = @ \cup {Redeem("xalgo-unstake", XAlgo)}]
      OBVIOUS
    <3>4. GoodOpp(d) /\ CanRedeem(d) /\ d.id = donor.id /\ d.family # "myth"
      BY <3>1, <3>2, <3>3, RedeemAdded
    <3>5. PICK others : others = Those(list, {o \in ToSet(list) : o.id # donor.id})
      OBVIOUS
    <3>6. IsSequence(others) /\ \A o \in ToSet(others) : o \in A /\ o.id # donor.id
      <4>1. PICK F : F = {o \in ToSet(list) : o.id # donor.id}
        OBVIOUS
      <4>2. IsSequence(others) /\ ToSet(others) = A \cap F
        BY <1>1, <3>5, <4>1, ThoseAre
      <4>3. QED
        BY <4>1, <4>2
    <3>7. first = Append(others, d)
      BY <1>5, <2>2, <3>3, <3>5
    <3>8. IsSequence(first) /\ ToSet(first) = ToSet(others) \cup {d}
      BY <3>6, <3>7, AppendIs
    <3>9. /\ Unique(ToSet(first)) /\ \A o \in ToSet(first) : GoodOpp(o)
          /\ \A o \in ToSet(first) : o.family = "myth" => o \in A
      BY <1>1, <3>4, <3>6, <3>8 DEF Unique
    <3>10. QED
      BY <3>4, <3>8, <3>9
  <2>3. QED
    BY <2>1, <2>2
<1>9. ASSUME NEW o \in ToSet(first)
      PROVE  /\ GoodOpp(mended(o)) /\ mended(o).id = o.id /\ (CanRedeem(o) => CanRedeem(mended(o)))
             /\ mended(o).family = o.family /\ mended(o).receipt = o.receipt
             /\ o.family = "myth" /\ o.receipt \in receipts \ {XAlgo} /\ o = myth(o.receipt)[1]
                    => CanRedeem(mended(o))
  <2>0. PICK Mends : Mends <=>
            /\ o.family = "myth" /\ o.receipt \in receipts \ {XAlgo} /\ o = myth(o.receipt)[1]
            /\ ~\E s \in o.shapes : s.key = "myth-redeem"
    OBVIOUS
  <2>1. GoodOpp(o)
    BY <1>8
  <2>2. CASE Mends
    <3>1. PICK m : m = [o EXCEPT !.shapes = @ \cup {Redeem("myth-redeem", o.receipt)}]
      OBVIOUS
    <3>2. /\ GoodOpp(m) /\ CanRedeem(m) /\ m.id = o.id
          /\ m.family = o.family /\ m.receipt = o.receipt
      BY <2>0, <2>1, <2>2, <3>1, RedeemAdded
    <3>3. mended(o) = m
      BY <2>0, <2>2, <3>1
    <3> HIDE DEF mended
    <3>4. QED
      BY <3>2, <3>3
  <2>3. CASE ~Mends
    <3>1. mended(o) = o
      BY <2>0, <2>3
    <3>2. o.family = "myth" /\ o.receipt \in receipts \ {XAlgo} /\ o = myth(o.receipt)[1]
            => CanRedeem(o)
      BY <2>0, <2>1, <2>3 DEF GoodOpp, CanRedeem
    <3> HIDE DEF mended, myth
    <3>3. QED
      BY <2>1, <3>1, <3>2
  <2>4. QED
    BY <2>2, <2>3
<1>90. ASSUME NEW o \in ToSet(first), o.family = "myth"
       PROVE  /\ myth(o.receipt)[1] \in ToSet(first) /\ myth(o.receipt)[1].family = "myth"
              /\ myth(o.receipt)[1].receipt = o.receipt
  <2>1. PICK r, F : r = o.receipt /\ F = {x \in ToSet(first) : x.family = "myth" /\ x.receipt = r}
    OBVIOUS
  <2>2. PICK found : found = Those(first, F) /\ found = myth(o.receipt)
    BY <2>1
  <2>25. IsSequence(first)
    BY <1>8
  <2>3. IsSequence(found) /\ ToSet(found) = ToSet(first) \cap F
    BY ONLY <2>2, <2>25, ThoseAre
  <2>4. o \in ToSet(found)
    BY <1>90, <2>1, <2>3
  <2>5. found # <<>>
    BY <2>4 DEF ToSet
  <2>6. found[1] \in ToSet(found)
    BY <2>3, <2>5, TailIs, SequenceIs
  <2>7. QED
    BY <2>1, <2>2, <2>3, <2>6
<1> HIDE DEF mended, myth
<1>10. PICK n \in Nat : n = Len(first) /\ DOMAIN first = 1..n /\ \A i \in 1..n : first[i] \in ToSet(first)
  BY <1>8, SequenceIs
<1>11. IsSequence(opps) /\ DOMAIN opps = 1..n
  <2>1. opps = [i \in 1..n |-> opps[i]]
    BY <1>6, <1>10
  <2>2. QED
    BY <2>1, Indexed
<1>12. ToSet(opps) = {mended(o) : o \in ToSet(first)}
  BY <1>6, <1>10, <1>11 DEF ToSet
<1>13. Unique(ToSet(opps)) /\ \A o \in ToSet(opps) : GoodOpp(o)
  <2>1. ASSUME NEW o \in ToSet(first), NEW p \in ToSet(first), mended(o).id = mended(p).id
        PROVE  mended(o) = mended(p)
    <3>1. o.id = p.id
      BY <1>9, <2>1
    <3>2. o = p
      BY <1>8, <3>1 DEF Unique
    <3>3. QED
      BY <3>2
  <2>2. QED
    BY <1>9, <1>12, <2>1 DEF Unique
<1>14. Coherent(ToSet(opps))
  BY <1>13, CoherentIs
<1>15. XAlgo \in receipts => \E o \in ToSet(opps) : CanRedeem(o)
  BY <1>8, <1>9, <1>12
<1>16. ASSUME NEW o \in ToSet(opps), o.family = "myth"
       PROVE  /\ \E p \in ToSet(list) : p.family = "myth" /\ p.receipt = o.receipt
              /\ o.receipt \in receipts => \E p \in ToSet(opps) : CanRedeem(p)
  <2>1. PICK p \in ToSet(first) : o = mended(p)
    BY <1>12
  <2>2. p \in ToSet(list) /\ p.family = "myth" /\ p.receipt = o.receipt
    BY <1>1, <1>8, <1>9, <1>16, <2>1
  <2>3. ASSUME o.receipt \in receipts, o.receipt # XAlgo
        PROVE  \E x \in ToSet(opps) : CanRedeem(x)
    <3>1. PICK f : f = myth(p.receipt)[1]
      OBVIOUS
    <3>2. f \in ToSet(first) /\ f.family = "myth" /\ f.receipt = p.receipt
      BY <1>90, <2>2, <3>1
    <3>3. f.receipt \in receipts \ {XAlgo} /\ f = myth(f.receipt)[1]
      BY <2>2, <2>3, <3>1, <3>2
    <3>4. CanRedeem(mended(f))
      BY <1>9, <3>2, <3>3
    <3>5. QED
      BY <1>12, <3>2, <3>4
  <2>4. QED
    BY <1>15, <2>2, <2>3
<1>17. QED
  BY <1>7, <1>11, <1>14, <1>15, <1>16

-----------------------------------------------------------------------------
(* The plan of a wave: the next step of each position, and the receipts.   *)

Wallet ==
    /\ DOMAIN open \subseteq DOMAIN listed /\ DOMAIN listed \subseteq {p.id : p \in Positions}
    /\ \A p \in DOMAIN listed : listed[p] \subseteq Of(p).start
    /\ \A p \in DOMAIN open : open[p] \subseteq listed[p]

\* A listing is never ahead of the chain, and so are the snapshots that show it.
LEMMA ListingIs ==
    ASSUME Wallet, NEW listing \in Listings
    PROVE  /\ DOMAIN open \subseteq DOMAIN listing /\ DOMAIN listing \subseteq DOMAIN listed
           /\ \A p \in DOMAIN listing : listing[p] \subseteq Of(p).start
           /\ \A p \in DOMAIN open : open[p] \subseteq listing[p]
<1>1. PICK fresh \in SUBSET DOMAIN listed : listing = CaughtUp(fresh)
  BY DEF Listings
<1>2. PICK D : D = (DOMAIN listed \ fresh) \cup (fresh \cap DOMAIN open)
  OBVIOUS
<1>3. /\ DOMAIN listing = D
      /\ \A p \in D : listing[p] = IF p \in fresh THEN open[p] ELSE listed[p]
  BY <1>1, <1>2 DEF CaughtUp
<1>4. DOMAIN open \subseteq D /\ D \subseteq DOMAIN listed
  BY <1>2 DEF Wallet
<1>5. ASSUME NEW p \in D
      PROVE  listing[p] \subseteq Of(p).start /\ (p \in DOMAIN open => open[p] \subseteq listing[p])
  <2>1. CASE p \in fresh
    <3>1. p \in DOMAIN open /\ listing[p] = open[p]
      BY <1>2, <1>3, <1>5, <2>1
    <3>2. open[p] \subseteq listed[p] /\ listed[p] \subseteq Of(p).start
      BY <3>1 DEF Wallet
    <3>3. QED
      BY <3>1, <3>2
  <2>2. CASE p \notin fresh
    <3>1. p \in DOMAIN listed /\ listing[p] = listed[p]
      BY <1>3, <1>4, <1>5, <2>2
    <3>2. QED
      BY <3>1 DEF Wallet
  <2>3. QED
    BY <2>1, <2>2
<1>6. QED
  BY <1>3, <1>4, <1>5

\* What a wave may see of the wallet.
Row(q) ==
    /\ q.amount = Of(q.id).amount
    /\ q.id # Null /\ {Null, "lst"} \cap q.keys = {}
    /\ q.id \in DOMAIN open => open[q.id] \subseteq q.keys

Seen(s) ==
    /\ IsFiniteSet(s.positions) /\ s.held = held
    /\ \A q \in s.positions : Row(q) /\ {r \in s.positions : r.id = q.id} = {q}
    /\ s.complete => \A p \in DOMAIN open : \E q \in s.positions : q.id = p

LEMMA SnapshotIs ==
    ASSUME Wallet, NEW listing \in Listings, NEW rows, NEW complete \in BOOLEAN,
           DOMAIN rows \subseteq DOMAIN listing,
           \A p \in DOMAIN rows : rows[p] = listing[p],
           complete => DOMAIN rows = DOMAIN listing
    PROVE  Seen(Snapshot(rows, complete))
<1> DEFINE row(p) == [id |-> p, opp |-> Of(p).opp, keys |-> rows[p],
                      amount |-> Of(p).amount, asset |-> Of(p).asset]
<1>1. PICK s : s = Snapshot(rows, complete)
  OBVIOUS
<1>2. s.positions = {row(p) : p \in DOMAIN rows} /\ s.held = held /\ s.complete = complete
  BY <1>1 DEF Snapshot
<1>3. \A p \in DOMAIN rows :
        row(p).id = p /\ row(p).keys = rows[p] /\ row(p).amount = Of(p).amount
  OBVIOUS
<1>4. DOMAIN rows \subseteq {p.id : p \in Positions}
  BY ListingIs DEF Wallet
<1>5. IsFiniteSet({row(p) : p \in DOMAIN rows})
  <2>1. IsFiniteSet({p.id : p \in Positions})
    <3>1. PICK f : f = [p \in Positions |-> p.id]
      OBVIOUS
    <3>2. {p.id : p \in Positions} = {f[p] : p \in DOMAIN f} /\ DOMAIN f = Positions
      BY <3>1
    <3>4. IsFiniteSet(DOMAIN f)
      BY <3>2, PlanRunsAssumption
    <3>5. IsFiniteSet({f[p] : p \in DOMAIN f})
      BY ONLY <3>4, ImageIsFinite
    <3>6. QED
      BY <3>2, <3>5
  <2>2. IsFiniteSet(DOMAIN rows)
    <3>1. PICK D, I : D = DOMAIN rows /\ I = {p.id : p \in Positions}
      OBVIOUS
    <3>2. D \subseteq I /\ IsFiniteSet(I)
      BY <1>4, <2>1, <3>1
    <3>3. IsFiniteSet(D)
      BY ONLY <3>2, FS_Subset
    <3>4. QED
      BY <3>1, <3>3
  <2>3. PICK f : f = [p \in DOMAIN rows |-> row(p)]
    OBVIOUS
  <2>4. {row(p) : p \in DOMAIN rows} = {f[p] : p \in DOMAIN f} /\ DOMAIN f = DOMAIN rows
    BY <2>3
  <2>5. QED
    BY <2>2, <2>4, ImageIsFinite
<1> HIDE DEF row
<1>6. \A q \in s.positions : \E p \in DOMAIN rows : q = row(p)
  BY <1>2
<1>7. \A q, r \in s.positions : q.id = r.id => q = r
  BY <1>3, <1>6
<1>8. ASSUME NEW q \in s.positions PROVE Row(q)
  <2>1. PICK p \in DOMAIN rows : q = row(p)
    BY <1>6
  <2>2. q.id = p /\ q.keys = listing[p] /\ q.amount = Of(p).amount /\ p \in DOMAIN listing
    BY <1>3, <2>1
  <2>3. listing[p] \subseteq Of(p).start /\ (p \in DOMAIN open => open[p] \subseteq listing[p])
    BY <2>2, ListingIs
  <2>4. \E x \in Positions : x.id = p
    BY <1>4, <2>1
  <2>5. Of(p) \in Positions /\ Of(p).id = p
    BY <2>4 DEF Of
  <2>6. p # Null /\ {Null, "lst"} \cap listing[p] = {}
    BY <2>3, <2>5, PlanRunsAssumption
  <2>7. QED
    BY <2>2, <2>3, <2>6 DEF Row
<1>9. \A q \in s.positions : {r \in s.positions : r.id = q.id} = {q}
  BY <1>7
<1>10. s.complete => \A p \in DOMAIN open : \E q \in s.positions : q.id = p
  BY <1>2, <1>3, ListingIs
<1>11. QED
  BY <1>1, <1>2, <1>5, <1>8, <1>9, <1>10 DEF Seen

LEMMA ViewIs ==
    ASSUME Wallet, NEW listing \in Listings, NEW s \in Views(listing)
    PROVE  Seen(s)
<1>1. CASE s = Snapshot(listing, TRUE)
  BY <1>1, SnapshotIs
<1>2. CASE \E shown \in SUBSET DOMAIN listing : s = Snapshot([p \in shown |-> listing[p]], FALSE)
  <2>1. PICK shown \in SUBSET DOMAIN listing : s = Snapshot([p \in shown |-> listing[p]], FALSE)
    BY <1>2
  <2>2. PICK rows : rows = [p \in shown |-> listing[p]]
    OBVIOUS
  <2>3. DOMAIN rows \subseteq DOMAIN listing /\ \A p \in DOMAIN rows : rows[p] = listing[p]
    BY <2>2
  <2>4. Seen(Snapshot(rows, FALSE))
    BY <2>3, SnapshotIs
  <2>5. QED
    BY <2>1, <2>2, <2>4
<1>3. QED
  BY <1>1, <1>2 DEF Views

LEMMA UnstakesAre ==
    ASSUME NEW opps, IsSequence(opps), Coherent(ToSet(opps)),
           NEW receipt, Unstaking(opps, receipt) # <<>>
    PROVE  LET a == UnstakeOf(opps, receipt)
           IN  /\ IsAction(a) /\ a.id = <<"lst", receipt>> /\ a.type = "open" /\ a.deps = {}
               /\ a.pos = Null /\ a.from = receipt
               /\ \E s \in ShapeOf(a, ToSet(opps)) : Redeems(s)
<1>1. PICK F : F = {o \in ToSet(opps) : CanRedeem(o)}
  OBVIOUS
<1>2. PICK found : found = Unstaking(opps, receipt) /\ found = Those(opps, F)
  BY <1>1 DEF Unstaking, CanRedeem
<1>3. IsSequence(found) /\ ToSet(found) = ToSet(opps) \cap F
  BY <1>2, ThoseAre
<1>4. PICK o : o = found[1]
  OBVIOUS
<1>5. o \in ToSet(opps) /\ CanRedeem(o) /\ GoodOpp(o)
  <2>1. o \in ToSet(found)
    BY <1>2, <1>3, <1>4, TailIs, SequenceIs
  <2>2. QED
    BY <1>1, <1>3, <2>1, CoherentIs
<1>6. \E s \in o.shapes : s.key = UnstakeKey(o, receipt) /\ Redeems(s)
  <2>1. PICK own, all :
            /\ own = {s \in o.shapes : s.key = "xalgo-unstake" /\ receipt = XAlgo}
            /\ all = {s \in o.shapes : Redeems(s)}
    OBVIOUS
  <2>2. UnstakeKey(o, receipt) =
            IF own # {} THEN "xalgo-unstake"
            ELSE (CHOOSE s \in all : \A t \in all : s.order <= t.order).key
    BY <2>1 DEF UnstakeKey
  <2>3. CASE own # {}
    BY <1>5, <2>1, <2>2, <2>3 DEF GoodOpp
  <2>4. CASE own = {}
    <3>1. PICK orders : orders = {s.order : s \in all}
      OBVIOUS
    <3>2. orders \in SUBSET Nat /\ orders # {}
      <4>1. \A s \in all : s.order \in Nat
        BY <1>5, <2>1 DEF GoodOpp
      <4>2. \E s : s \in all
        BY <1>5, <2>1 DEF CanRedeem
      <4>3. QED
        BY <3>1, <4>1, <4>2
    <3>3. \E s \in all : \A t \in all : s.order <= t.order
      <4>1. PICK m : m \in orders /\ \A y \in orders : m <= y
        BY <3>2, Least
      <4>2. QED
        BY <3>1, <4>1
    <3>4. PICK s : s = (CHOOSE x \in all : \A t \in all : x.order <= t.order)
      OBVIOUS
    <3>5. s \in all /\ UnstakeKey(o, receipt) = s.key
      BY <2>2, <2>4, <3>3, <3>4
    <3>6. QED
      BY <2>1, <3>5
  <2>5. QED
    BY <2>3, <2>4
<1>7. PICK a : a = UnstakeOf(opps, receipt)
  OBVIOUS
<1>8. a.opp = o.id /\ a.key = UnstakeKey(o, receipt)
  <2>1. Unstaking(opps, receipt)[1] = o
    BY <1>2, <1>4
  <2>2. /\ a.opp = Unstaking(opps, receipt)[1].id
        /\ a.key = UnstakeKey(Unstaking(opps, receipt)[1], receipt)
    BY <1>7, UnstakeIs
  <2>3. QED
    BY <2>1, <2>2
<1>9. \E s \in ShapeOf(a, ToSet(opps)) : Redeems(s)
  <2>1. PICK s \in o.shapes : s.key = a.key /\ Redeems(s)
    BY <1>6, <1>8
  <2>2. o \in Opportunity(a, ToSet(opps))
    BY <1>5, <1>8 DEF Opportunity
  <2>3. s \in Shapes(a, ToSet(opps))
    BY <2>1, <2>2 DEF Shapes
  <2>4. QED
    BY <2>1, <2>3 DEF ShapeOf
<1>10. QED
  BY <1>7, <1>9, UnstakeIs

LEMMA WaivedShapes ==
    ASSUME NEW opps, Coherent(ToSet(opps)), NEW a
    PROVE  /\ ShapeOf(a, Waived(opps)) = ShapeOf(a, ToSet(opps))
           /\ \A s, t \in ShapeOf(a, ToSet(opps)) : s = t
<1>1. PICK S : S = ToSet(opps) /\ Unique(S) /\ \A o \in S : GoodOpp(o)
  BY CoherentIs
<1>2. \A o \in S : /\ [o EXCEPT !.tvl = TRUE].id = o.id
                   /\ [o EXCEPT !.tvl = TRUE].shapes = o.shapes
  BY <1>1 DEF GoodOpp, Opp
<1>3. \A s : s \in Shapes(a, S) <=> \E o \in S : o.id = a.opp /\ s \in o.shapes
  BY DEF Shapes, Opportunity
<1>4. \A s : s \in Shapes(a, Waived(opps)) <=> \E o \in S : o.id = a.opp /\ s \in o.shapes
  <2>1. \A s : s \in Shapes(a, Waived(opps)) <=>
                \E w \in Waived(opps) : w.id = a.opp /\ s \in w.shapes
    BY DEF Shapes, Opportunity
  <2>2. Waived(opps) = {[o EXCEPT !.tvl = TRUE] : o \in S}
    BY <1>1 DEF Waived
  <2>3. ASSUME NEW s, NEW o \in S, o.id = a.opp, s \in o.shapes
        PROVE  s \in Shapes(a, Waived(opps))
    <3>1. PICK w \in Waived(opps) : w = [o EXCEPT !.tvl = TRUE]
      BY <2>2
    <3>2. w.id = a.opp /\ s \in w.shapes
      BY <1>2, <2>3, <3>1
    <3>3. QED
      BY <2>1, <3>2
  <2>4. ASSUME NEW s, s \in Shapes(a, Waived(opps))
        PROVE  \E o \in S : o.id = a.opp /\ s \in o.shapes
    <3>1. PICK w \in Waived(opps) : w.id = a.opp /\ s \in w.shapes
      BY <2>1, <2>4
    <3>2. PICK o \in S : w = [o EXCEPT !.tvl = TRUE]
      BY <2>2
    <3>3. QED
      BY <1>2, <3>1, <3>2
  <2>5. QED
    BY <2>3, <2>4
<1>5. ShapeOf(a, Waived(opps)) = ShapeOf(a, S)
  BY <1>3, <1>4 DEF ShapeOf
<1>6. ASSUME NEW s \in ShapeOf(a, S), NEW t \in ShapeOf(a, S)
      PROVE  s = t
  <2>1. s.key = t.key /\ s \in Shapes(a, S) /\ t \in Shapes(a, S)
    BY DEF ShapeOf
  <2>2. PICK o \in S, p \in S : o.id = p.id /\ s \in o.shapes /\ t \in p.shapes
    BY <1>3, <2>1
  <2>3. o = p
    BY <1>1, <2>2 DEF Unique
  <2>4. QED
    BY <1>1, <2>1, <2>2, <2>3 DEF GoodOpp
<1>7. QED
  BY <1>1, <1>5, <1>6

LEMMA KeyedInWaived ==
    ASSUME NEW opps, Coherent(ToSet(opps)), NEW a, NEW s \in Keyed(a, Waived(opps))
    PROVE  s.key = a.key /\ \E o \in ToSet(opps) : s \in o.shapes
<1>1. PICK w \in Waived(opps) : s \in w.shapes /\ s.key = a.key
  BY DEF Keyed
<1>2. PICK o \in ToSet(opps) : w = [o EXCEPT !.tvl = TRUE]
  BY <1>1 DEF Waived
<1>3. w.shapes = o.shapes
  BY <1>2, CoherentIs DEF GoodOpp, Opp
<1>4. QED
  BY <1>1, <1>3

LEMMA OnlyIs == (\A x : Only({x}) = x) /\ Only({}) = Null
<1>1. ASSUME NEW x PROVE Only({x}) = x
  <2>1. Cardinality({x}) = 1
    BY FS_Singleton
  <2>2. QED
    BY <2>1 DEF Only
<1>2. Cardinality({}) = 0
  BY FS_EmptySet
<1>3. QED
  BY <1>1, <1>2 DEF Only

\* The step of a position, completed, is what the policy accepts.
LEMMA StepHasNoFaults ==
    ASSUME NEW s, Seen(s), NEW q \in s.positions, q.amount # 0, NextKey(q.keys) # Null,
           NEW ids, NEW opps, NEW actions
    PROVE  ActionFaults(Normal(StepOf(q), ids, s, opps), actions, s, opps) = {}
<1>1. PICK a : a = StepOf(q)
  OBVIOUS
<1>2. /\ IsAction(a) /\ a.deps = {} /\ a.spends = {} /\ a.pos = q.id /\ a.opp = q.opp
      /\ a.key = NextKey(q.keys) /\ a.key # Null
      /\ a.type = IF a.key = "claim" THEN "claim" ELSE "close"
      /\ a.amount = IF a.type = "close" THEN q.amount ELSE Null
  BY <1>1, StepIs
<1>3. Position(a, s) = {q} /\ a.key \in q.keys
  <2>1. Position(a, s) = {q}
    BY <1>2 DEF Position, Seen
  <2>2. Null \notin q.keys
    BY DEF Seen, Row
  <2>3. QED
    BY <1>2, <2>1, <2>2, NextKeyIs
<1>4. PICK b : b = IF a.opp = Null THEN [a EXCEPT !.opp = Only({p.opp : p \in {q}})] ELSE a
  OBVIOUS
<1>5. DOMAIN b = DOMAIN a /\ \A f \in DOMAIN a : f # "opp" => b[f] = a[f]
  BY <1>4
<1>6. /\ b.type = a.type /\ b.key = a.key /\ b.amount = a.amount /\ b.from = a.from
      /\ b.pos = a.pos /\ b.spends = a.spends /\ b.deps = a.deps
  BY <1>2, <1>5, ActionFields DEF IsAction
<1>7. PICK shape : shape = Resolved(b, s, opps) /\ shape # {}
  <2>1. Resolved(b, s, opps) # {}
    <3>1. PICK known : known = {x \in UNION {o.shapes : o \in Found(b, s, opps)} :
                                    x.key = b.key}
      OBVIOUS
    <3>2. CASE known # {}
      BY <1>2, <1>6, <3>1, <3>2 DEF Resolved
    <3>3. CASE known = {}
      BY <1>2, <1>6, <3>1, <3>3 DEF Resolved
    <3>4. QED
      BY <3>2, <3>3
  <2>2. QED
    BY <2>1
<1>8. PICK sized : sized =
        IF b.type = "claim" /\ \E x \in shape : ~x.asks THEN Null
        ELSE IF b.amount # Null THEN b.amount
        ELSE IF {q} # {} /\ b.type \in {"close", "reduce", "claim"}
        THEN Only({p.amount : p \in {q}})
        ELSE IF b.input.amount # Null THEN b.input.amount
        ELSE IF \E x \in shape : x.asks THEN Stated(b, {q}) ELSE Null
  OBVIOUS
<1>9. sized \in {Null, q.amount}
  <2>1. Only({p.amount : p \in {q}}) = q.amount
    <3>1. {p.amount : p \in {q}} = {q.amount}
      OBVIOUS
    <3>2. QED
      BY <3>1, OnlyIs
  <2>2. QED
    BY <1>2, <1>6, <1>8, <2>1
<1>10. \E from : Complete(a, s, opps) = [b EXCEPT !.amount = sized, !.filled = TRUE, !.from = from]
  BY ZenonT(60), <1>2, <1>3, <1>4, <1>6, <1>7, <1>8 DEF Complete
<1>11. PICK c, from : c = Complete(a, s, opps) /\ c = [b EXCEPT !.amount = sized, !.filled = TRUE, !.from = from]
  BY <1>10
<1>12. /\ DOMAIN c = DOMAIN b /\ c["amount"] = sized /\ c["filled"] = TRUE
       /\ \A f \in DOMAIN b : f \notin {"amount", "filled", "from"} => c[f] = b[f]
  BY <1>2, <1>5, <1>11, ActionFields DEF IsAction
<1>13. /\ c.type = a.type /\ c.key = a.key /\ c.pos = a.pos /\ c.spends = {} /\ c.deps = {}
       /\ c.amount = sized /\ c.filled = TRUE
  BY <1>2, <1>5, <1>6, <1>12, ActionFields DEF IsAction
<1>14. PICK d : d = [c EXCEPT !.deps = @ \cap ids]
  OBVIOUS
<1>15. d = Normal(a, ids, s, opps)
  <2>1. SyncSwap(c) = c
    BY <1>2, <1>13 DEF SyncSwap
  <2>2. QED
    BY <1>11, <1>14, <2>1 DEF Normal
<1>16. DOMAIN d = DOMAIN c /\ \A f \in DOMAIN c : d[f] = c[f]
  BY <1>13, <1>14
<1>17. /\ d.type = a.type /\ d.key = a.key /\ d.pos = a.pos /\ d.spends = {} /\ d.deps = {}
       /\ d.amount = sized /\ d.filled = TRUE
  BY <1>2, <1>5, <1>12, <1>13, <1>16, ActionFields DEF IsAction
<1>18. ExitFaults(d, s) = {}
  <2>1. Position(d, s) = {q}
    BY <1>3, <1>17 DEF Position
  <2>2. PICK fault : fault = [position |-> FALSE, manage |-> FALSE]
    OBVIOUS
  <2>3. /\ (Position(d, s) = {}) = FALSE
        /\ (\E p \in Position(d, s) : d.key # Null /\ d.key \notin p.keys) = FALSE
    BY <1>3, <1>17, <2>1
  <2>4. ExitFaults(d, s) = {r \in DOMAIN fault : fault[r]}
    BY <2>2, <2>3 DEF ExitFaults
  <2>5. \A r \in DOMAIN fault : ~fault[r]
    BY <2>2
  <2>6. QED
    BY <2>4, <2>5
<1>19. ActionFaults(d, actions, s, opps) = {}
  <2>1. d.type \notin {"hold", "swap"} \cup Enters
    BY <1>2, <1>17 DEF Enters
  <2>2. d.amount # 0
    BY <1>9, <1>17, PlanRunsAssumption
  <2>3. d.key # Null /\ d.filled
    BY <1>2, <1>17
  <2>4. QED
    BY <1>17, <1>18, <2>1, <2>2, <2>3 DEF ActionFaults
<1>20. QED
  BY <1>1, <1>15, <1>19

\* The unstake of a receipt stays one.
LEMMA UnstakeKeeps ==
    ASSUME NEW s, Seen(s), NEW a, IsAction(a), a.type = "open", a.pos = Null, NEW ids, NEW opps
    PROVE  LET b == Normal(a, ids, s, opps) IN b.opp = a.opp /\ b.from = a.from
<1>1. Position(a, s) = {}
  <2>1. \A q \in s.positions : q.id # Null
    BY DEF Seen, Row
  <2>2. QED
    BY <2>1 DEF Position
<1>2. PICK c : c = Complete(a, s, opps)
  OBVIOUS
<1>3. \E size : \/ c = [a EXCEPT !.amount = size]
                \/ c = [a EXCEPT !.amount = size, !.filled = TRUE, !.from = a.from]
  <2>1. {p.asset : p \in {}} = {} /\ Only({}) = Null
    BY OnlyIs
  <2>2. (IF a.from = Null THEN Only({p.asset : p \in {}}) ELSE a.from) = a.from
    BY <2>1
  <2>3. QED
    BY <1>1, <1>2, <2>2 DEF Complete
<1>4. DOMAIN c = DOMAIN a /\ \A f \in DOMAIN a : f \notin {"amount", "filled"} => c[f] = a[f]
  BY <1>3
<1>5. c.type = "open" /\ c.opp = a.opp /\ c.from = a.from
  BY <1>4, ActionFields DEF IsAction
<1>6. SyncSwap(c) = c
  BY <1>5 DEF SyncSwap
<1>7. PICK d : d = [c EXCEPT !.deps = @ \cap ids]
  OBVIOUS
<1>8. d = Normal(a, ids, s, opps)
  BY <1>2, <1>6, <1>7 DEF Normal
<1>9. DOMAIN d = DOMAIN c /\ \A f \in DOMAIN c : f # "deps" => d[f] = c[f]
  BY <1>7
<1>10. d.opp = a.opp /\ d.from = a.from
  BY <1>4, <1>5, <1>9, ActionFields DEF IsAction
<1>11. QED
  BY <1>8, <1>10

\* What an action of a wave is: the next step of a position, which the policy
\* accepts, or an unstake.
WaveStep(b, actions, opps, s) ==
    \/ /\ \E q \in s.positions :
            q.id = b.pos /\ Row(q) /\ b.key \in q.keys /\ b.key = NextKey(q.keys)
       /\ b.type = IF b.key = "claim" THEN "claim" ELSE "close"
       /\ ActionFaults(b, actions, s, Waived(opps)) = {}
    \/ /\ b.type = "open" /\ b.from \in held
       /\ \E shape \in ShapeOf(b, ToSet(opps)) : Redeems(shape)

Matches(a, b) ==
    /\ b.type = a.type /\ b.pos = a.pos /\ b.key = a.key
    /\ a.type = "open" => b.from = a.from

LEMMA DraftIs ==
    ASSUME NEW s, Seen(s), NEW opps, IsSequence(opps), Coherent(ToSet(opps))
    PROVE  LET drafted == WaveOf(s, opps)
           IN  /\ IsSequence(drafted) /\ IsInjective(drafted) /\ Unique(ToSet(drafted))
               /\ ToSet(drafted) = Steps(s) \cup Unstakes(s, opps)
               /\ Dropped(drafted, Waived(opps)) = {}
<1>1. PICK drafted : drafted = WaveOf(s, opps)
  OBVIOUS
<1>2. /\ IsSequence(drafted) /\ IsInjective(drafted)
      /\ ToSet(drafted) = Steps(s) \cup Unstakes(s, opps)
  BY <1>1, WaveIs DEF Seen
<1>3. \A a \in Steps(s) : \E q \in s.positions :
        a = StepOf(q) /\ q.amount # 0 /\ NextKey(q.keys) # Null
  BY DEF Steps
<1>4. \A a \in Unstakes(s, opps) : \E r :
        a = UnstakeOf(opps, r) /\ Unstaking(opps, r) # <<>> /\ r \in held
  BY DEF Unstakes, KnownReceipts, Seen
<1>5. Unique(ToSet(drafted))
  <2>1. ASSUME NEW a \in Steps(s), NEW b \in Steps(s), a.id = b.id
        PROVE  a = b
    <3>1. PICK q \in s.positions, r \in s.positions : a = StepOf(q) /\ b = StepOf(r)
      BY <1>3
    <3>2. a.id = <<NextKey(q.keys), q.id>> /\ b.id = <<NextKey(r.keys), r.id>>
      BY <3>1, StepIs
    <3>3. q.id = r.id
      <4>1. a.id[2] = q.id /\ b.id[2] = r.id
        BY <3>2
      <4>2. QED
        BY <2>1, <4>1
    <3>4. q = r
      BY <3>3 DEF Seen
    <3>5. QED
      BY <3>1, <3>4
  <2>2. ASSUME NEW a \in Unstakes(s, opps), NEW b \in Unstakes(s, opps), a.id = b.id
        PROVE  a = b
    <3>1. PICK q, r : a = UnstakeOf(opps, q) /\ b = UnstakeOf(opps, r)
      BY <1>4
    <3>2. a.id = <<"lst", q>> /\ b.id = <<"lst", r>>
      BY <3>1, UnstakeIs
    <3>3. q = r
      <4>1. a.id[2] = q /\ b.id[2] = r
        BY <3>2
      <4>2. QED
        BY <2>2, <4>1
    <3>4. QED
      BY <3>1, <3>3
  <2>3. ASSUME NEW a \in Steps(s), NEW b \in Unstakes(s, opps)
        PROVE  a.id # b.id
    <3>1. PICK q \in s.positions : a = StepOf(q) /\ NextKey(q.keys) # Null
      BY <1>3
    <3>2. PICK r : b = UnstakeOf(opps, r)
      BY <1>4
    <3>3. a.id = <<NextKey(q.keys), q.id>> /\ b.id = <<"lst", r>>
      BY <3>1, <3>2, StepIs, UnstakeIs
    <3>4. {Null, "lst"} \cap q.keys = {}
      BY DEF Seen, Row
    <3>5. NextKey(q.keys) # "lst"
      BY <3>1, <3>4, NextKeyIs
    <3>6. QED
      BY <3>3, <3>5
  <2>4. QED
    BY <1>2, <2>1, <2>2, <2>3 DEF Unique
<1>6. Dropped(drafted, Waived(opps)) = {}
  <2>1. ASSUME NEW b \in ToSet(drafted), IsEnter(b), NEW shape \in Keyed(b, Waived(opps))
        PROVE  ~Preparatory(shape)
    <3>1. b.type \in Enters
      BY <2>1 DEF IsEnter
    <3>2. b \notin Steps(s)
      <4>1. ASSUME b \in Steps(s) PROVE FALSE
        <5>1. PICK q : b = StepOf(q)
          BY <1>3, <4>1
        <5>2. b.type \in {"claim", "close"}
          BY <5>1, StepIs
        <5>3. QED
          BY <3>1, <5>2 DEF Enters
      <4>2. QED
        BY <4>1
    <3>3. PICK r : b = UnstakeOf(opps, r) /\ Unstaking(opps, r) # <<>>
      BY <1>2, <1>4, <3>2
    <3>4. PICK t \in ShapeOf(b, ToSet(opps)) : Redeems(t)
      BY <3>3, UnstakesAre
    <3>5. PICK o \in ToSet(opps) : t \in o.shapes /\ t.key = b.key
      BY <3>4 DEF ShapeOf, Shapes, Opportunity
    <3>6. b.key \notin Preparations
      BY <3>4, <3>5, CoherentIs DEF GoodOpp
    <3>7. PICK p \in ToSet(opps) : shape \in p.shapes /\ shape.key = b.key
      BY <2>1, KeyedInWaived
    <3>8. QED
      BY <3>6, <3>7, CoherentIs DEF GoodOpp
  <2>2. QED
    BY <2>1 DEF Dropped
<1>7. QED
  BY <1>1, <1>2, <1>5, <1>6

LEMMA WavePlanIs ==
    ASSUME NEW s, Seen(s), NEW opps, IsSequence(opps), Coherent(ToSet(opps)),
           NEW drafted, drafted = WaveOf(s, opps),
           NEW actions, actions = Normalize(drafted, s, Waived(opps))
    PROVE  /\ IsSequence(actions) /\ Distinct(actions)
           /\ \A b \in ToSet(actions) : b.deps = {} /\ WaveStep(b, actions, opps, s)
           /\ \A a \in ToSet(drafted) : \E b \in ToSet(actions) : Matches(a, b)
           /\ \A b \in ToSet(actions) : \E a \in ToSet(drafted) : Matches(a, b)
<1>1. /\ IsSequence(drafted) /\ IsInjective(drafted) /\ Unique(ToSet(drafted))
      /\ ToSet(drafted) = Steps(s) \cup Unstakes(s, opps)
      /\ Dropped(drafted, Waived(opps)) = {}
  BY DraftIs
<1>2. PICK kept :
        /\ IsSequence(kept) /\ ToSet(kept) = ToSet(drafted) /\ IsInjective(kept)
        /\ IsSequence(actions) /\ DOMAIN actions = DOMAIN kept
        /\ \A i \in DOMAIN kept :
            actions[i] = Normal(kept[i], IdsOf(kept), s, Waived(opps))
  <2>1. PICK kept :
            /\ IsSequence(kept)
            /\ ToSet(kept) = {a \in ToSet(drafted) : a.id \notin Dropped(drafted, Waived(opps))}
            /\ IsInjective(drafted) => IsInjective(kept)
            /\ IsSequence(actions) /\ DOMAIN actions = DOMAIN kept
            /\ \A i \in DOMAIN kept :
                actions[i] = Normal(kept[i], IdsOf(kept), s, Waived(opps))
    BY <1>1, NormalizeIs
  <2>2. ToSet(kept) = ToSet(drafted)
    BY <1>1, <2>1
  <2>3. QED
    BY <1>1, <2>1, <2>2
<1>3. PICK ids : ids = IdsOf(kept)
  OBVIOUS
<1>4. PICK W : W = Waived(opps)
  OBVIOUS
<1>5. ASSUME NEW a \in ToSet(drafted), NEW b, b = Normal(a, ids, s, W)
      PROVE  b.deps = {} /\ WaveStep(b, actions, opps, s) /\ Matches(a, b) /\ b.id = a.id
  <2>1. CASE a \in Steps(s)
    <3>1. PICK q \in s.positions : a = StepOf(q) /\ q.amount # 0 /\ NextKey(q.keys) # Null
      BY <2>1 DEF Steps
    <3>2. /\ IsAction(a) /\ a.deps = {} /\ a.pos = q.id
          /\ a.key = NextKey(q.keys) /\ a.type = IF a.key = "claim" THEN "claim" ELSE "close"
      BY <3>1, StepIs
    <3>3. Row(q) /\ Null \notin q.keys
      BY DEF Seen, Row
    <3>4. NextKey(q.keys) \in q.keys
      BY <3>1, <3>3, NextKeyIs
    <3>5. Same(a, b) /\ b.deps = {}
      BY <1>5, <3>2, NormalKeeps
    <3>6. ActionFaults(b, actions, s, W) = {}
      BY <1>5, <3>1, StepHasNoFaults
    <3>7. b.type = a.type /\ b.pos = a.pos /\ b.key = a.key /\ b.id = a.id
      BY <3>5 DEF Same
    <3>8. a.type # "open"
      BY <3>2
    <3>9. WaveStep(b, actions, opps, s)
      BY <1>4, <3>2, <3>3, <3>4, <3>6, <3>7 DEF WaveStep
    <3>10. QED
      BY <3>5, <3>7, <3>8, <3>9 DEF Matches
  <2>2. CASE a \in Unstakes(s, opps)
    <3>1. PICK r \in held : a = UnstakeOf(opps, r) /\ Unstaking(opps, r) # <<>>
      BY <2>2 DEF Unstakes, KnownReceipts, Seen
    <3>2. /\ IsAction(a) /\ a.type = "open" /\ a.deps = {} /\ a.pos = Null /\ a.from = r
          /\ \E shape \in ShapeOf(a, ToSet(opps)) : Redeems(shape)
      BY <3>1, UnstakesAre
    <3>3. Same(a, b) /\ b.deps = {}
      BY <1>5, <3>2, NormalKeeps
    <3>4. b.opp = a.opp /\ b.from = a.from
      BY <1>5, <3>2, UnstakeKeeps
    <3>5. b.type = a.type /\ b.pos = a.pos /\ b.key = a.key /\ b.id = a.id
      BY <3>3 DEF Same
    <3>6. ShapeOf(b, ToSet(opps)) = ShapeOf(a, ToSet(opps))
      BY <3>4, <3>5 DEF ShapeOf, Shapes, Opportunity
    <3>7. WaveStep(b, actions, opps, s)
      BY <3>2, <3>4, <3>5, <3>6 DEF WaveStep
    <3>8. QED
      BY <3>3, <3>4, <3>5, <3>7 DEF Matches
  <2>3. QED
    BY <1>1, <2>1, <2>2
<1>6. \A i \in DOMAIN kept : kept[i] \in ToSet(drafted)
  BY <1>2, SequenceIs
<1>7. ASSUME NEW i \in DOMAIN actions
      PROVE  /\ actions[i].deps = {} /\ WaveStep(actions[i], actions, opps, s)
             /\ Matches(kept[i], actions[i]) /\ actions[i].id = kept[i].id
  <2>1. actions[i] = Normal(kept[i], ids, s, W) /\ kept[i] \in ToSet(drafted)
    BY <1>2, <1>3, <1>4, <1>6
  <2>2. QED
    BY <1>5, <2>1
<1>8. Distinct(actions)
  <2>1. Distinct(kept)
    BY <1>1, <1>2, DistinctIn
  <2>2. QED
    BY <1>2, <1>7, <2>1 DEF Distinct
<1>9. \A b \in ToSet(actions) : b.deps = {} /\ WaveStep(b, actions, opps, s)
  BY <1>7 DEF ToSet
<1>10. ASSUME NEW a \in ToSet(drafted)
       PROVE  \E b \in ToSet(actions) : Matches(a, b)
  <2>1. PICK i \in DOMAIN kept : a = kept[i]
    BY <1>2 DEF ToSet
  <2>2. actions[i] \in ToSet(actions)
    BY <1>2, <2>1 DEF ToSet
  <2>3. QED
    BY <1>2, <1>7, <2>1, <2>2
<1>11. ASSUME NEW b \in ToSet(actions)
       PROVE  \E a \in ToSet(drafted) : Matches(a, b)
  <2>1. PICK i \in DOMAIN actions : b = actions[i]
    BY DEF ToSet
  <2>2. kept[i] \in ToSet(drafted)
    BY <1>2, <1>6
  <2>3. QED
    BY <1>7, <2>1, <2>2
<1>12. QED
  BY <1>2, <1>8, <1>9, <1>10, <1>11

\* A wave without a draft leaves nothing that it saw and could close or redeem.
LEMMA FlatIs ==
    ASSUME NEW s, Seen(s), NEW list \in Catalogs,
           NEW opps, opps = Enrich(list, KnownReceipts(s, list)),
           WaveOf(s, opps) = <<>>
    PROVE  /\ \A p \in DOMAIN open : Closable(p) =>
                ~s.complete /\ \A q \in s.positions : q.id # p
           /\ XAlgo \notin held
           /\ \A o \in ToSet(opps) : o.family = "myth" => o.receipt \notin held \ Cash
<1>1. PICK receipts : receipts = KnownReceipts(s, list)
  OBVIOUS
<1>2. /\ IsSequence(opps) /\ Coherent(ToSet(opps))
      /\ XAlgo \in receipts => \E o \in ToSet(opps) : CanRedeem(o)
      /\ \A o \in ToSet(opps) : o.family = "myth" =>
            /\ \E p \in ToSet(list) : p.family = "myth" /\ p.receipt = o.receipt
            /\ o.receipt \in receipts => \E p \in ToSet(opps) : CanRedeem(p)
  BY <1>1, EnrichIs
<1>3. Steps(s) = {} /\ Unstakes(s, opps) = {}
  <2>1. ToSet(<<>>) = {}
    BY DEF ToSet
  <2>2. ToSet(WaveOf(s, opps)) = Steps(s) \cup Unstakes(s, opps)
    BY <1>2, DraftIs
  <2>3. QED
    BY <2>1, <2>2
<1>4. ASSUME NEW p \in DOMAIN open, Closable(p)
      PROVE  ~s.complete /\ \A q \in s.positions : q.id # p
  <2>1. ASSUME NEW q \in s.positions, q.id = p PROVE FALSE
    <3>1. Row(q) /\ open[p] \subseteq q.keys /\ q.amount = Of(p).amount /\ Null \notin q.keys
      BY <2>1 DEF Seen, Row
    <3>2. Of(q.id).debt \/ q.amount = 0 \/ NextKey(q.keys) = Null
      BY <1>3 DEF Steps
    <3>3. NextKey(q.keys) = Null => q.keys = {}
      BY <3>1, NextKeyIs
    <3>4. QED
      BY <1>4, <2>1, <3>1, <3>2, <3>3 DEF Closable
  <2>2. QED
    BY <2>1 DEF Seen
<1>5. ASSUME NEW x \in KnownReceipts(s, opps), NEW o \in ToSet(opps), CanRedeem(o)
      PROVE  FALSE
  <2>1. PICK F : F = {p \in ToSet(opps) : CanRedeem(p)}
    OBVIOUS
  <2>2. Unstaking(opps, x) = Those(opps, F)
    BY <2>1 DEF Unstaking, CanRedeem
  <2>3. ToSet(Unstaking(opps, x)) = ToSet(opps) \cap F
    BY <1>2, <2>2, ThoseAre
  <2>4. o \in ToSet(Unstaking(opps, x))
    BY <1>5, <2>1, <2>3
  <2>5. Unstaking(opps, x) # <<>>
    BY <2>4 DEF ToSet
  <2>6. UnstakeOf(opps, x) \in Unstakes(s, opps)
    BY <2>5 DEF Unstakes
  <2>7. QED
    BY <1>3, <2>6
<1>6. XAlgo \notin held
  <2>1. SUFFICES ASSUME XAlgo \in held PROVE FALSE
    OBVIOUS
  <2>2. XAlgo \in receipts /\ XAlgo \in KnownReceipts(s, opps)
    BY <1>1, <2>1 DEF KnownReceipts, Seen
  <2>3. QED
    BY <1>2, <1>5, <2>2
<1>7. ASSUME NEW o \in ToSet(opps), o.family = "myth", o.receipt \in held \ Cash
      PROVE  FALSE
  <2>1. PICK p \in ToSet(list) : p.family = "myth" /\ p.receipt = o.receipt
    BY <1>2, <1>7
  <2>2. \A S, x : x \in ToSet(S) /\ x.family = "myth" /\ x.receipt \in held \ Cash
                    => x.receipt \in KnownReceipts(s, S)
    BY DEF KnownReceipts, Seen
  <2>3. o.receipt \in receipts /\ o.receipt \in KnownReceipts(s, opps)
    BY <1>1, <1>7, <2>1, <2>2
  <2>4. QED
    BY <1>2, <1>5, <1>7, <2>3
<1>8. QED
  BY <1>4, <1>6, <1>7

-----------------------------------------------------------------------------
(* A call: the head of the agenda goes, its actions have been asked.       *)

TailIn(q) == \A i \in DOMAIN Tail(q) : \E j \in DOMAIN q : Tail(q)[i] = q[j]
HeadOrTail(q) ==
    \A j \in DOMAIN q : q[j] = Head(q) \/ \E i \in DOMAIN Tail(q) : Tail(q)[i] = q[j]
NoClaims(q) == \A i \in DOMAIN q : q[i].kind # "claims"

LEMMA AgendaTail ==
    ASSUME NEW A, NEW q, Agenda(q, A), q # <<>>
    PROVE  /\ Ready(Head(q), A) /\ Agenda(Tail(q), A)
           /\ IdsOf(Head(q).acts) \cap IdsIn(Tail(q)) = {}
           /\ IdsIn(q) = IdsOf(Head(q).acts) \cup IdsIn(Tail(q))
           /\ NoClaims(Tail(q))
           /\ TailIn(q)
           /\ HeadOrTail(q)
<1>1. PICK t : t = Tail(q)
  OBVIOUS
<1>2. /\ IsSequence(q) /\ IsSequence(t) /\ Len(t) = Len(q) - 1
      /\ 1 \in DOMAIN q /\ Head(q) = q[1]
      /\ \A i \in DOMAIN t : i + 1 \in DOMAIN q /\ t[i] = q[i + 1]
  BY <1>1, TailIs DEF Agenda
<1>3. PICK n \in Nat : n = Len(t) /\ DOMAIN t = 1..n /\ DOMAIN q = 1..(n + 1)
  BY <1>2, SequenceIs
<1>4. \A j \in 1..(n + 1) : j = 1 \/ j - 1 \in 1..n
  OBVIOUS
<1>5. \A j \in 1..(n + 1) : j # 1 => j - 1 \in 1..n /\ t[j - 1] = q[j]
  <2>1. SUFFICES ASSUME NEW j \in 1..(n + 1), j # 1
                 PROVE  j - 1 \in 1..n /\ t[j - 1] = q[j]
    OBVIOUS
  <2>2. PICK i \in 1..n : i = j - 1
    BY <1>4, <2>1
  <2>3. t[i] = q[i + 1] /\ i + 1 = j
    BY <1>2, <1>3, <2>2
  <2>4. QED
    BY <2>2, <2>3
<1>6. ASSUME NEW i \in 1..n
      PROVE  \E j \in 1..(n + 1) : j = i + 1 /\ j # 1 /\ t[i] = q[j]
  BY <1>2, <1>3
<1>7. Ready(Head(q), A)
  BY <1>2 DEF Agenda
<1>8. \A i \in 1..n : Ready(t[i], A) /\ t[i].kind # "claims"
  BY <1>3, <1>6 DEF Agenda
<1>9. ASSUME NEW i \in 1..n, NEW k \in 1..n, i # k
      PROVE  IdsOf(t[i].acts) \cap IdsOf(t[k].acts) = {}
  <2>1. PICK j \in 1..(n + 1), l \in 1..(n + 1) :
            j = i + 1 /\ t[i] = q[j] /\ l = k + 1 /\ t[k] = q[l]
    BY <1>6
  <2>2. j # l
    BY <1>9, <2>1
  <2>3. QED
    BY <1>3, <2>1, <2>2 DEF Agenda
<1>10. Agenda(t, A)
  BY <1>2, <1>3, <1>8, <1>9 DEF Agenda
<1>11. IdsOf(Head(q).acts) \cap IdsIn(t) = {}
  <2>1. SUFFICES ASSUME NEW x \in IdsOf(Head(q).acts), x \in IdsIn(t) PROVE FALSE
    OBVIOUS
  <2>2. PICK i \in 1..n : x \in IdsOf(t[i].acts)
    BY <1>3, <2>1 DEF IdsIn
  <2>3. PICK j \in 1..(n + 1) : j # 1 /\ t[i] = q[j]
    BY <1>6
  <2>4. IdsOf(q[1].acts) \cap IdsOf(q[j].acts) = {}
    BY <1>2, <1>3, <2>3 DEF Agenda
  <2>5. QED
    BY <1>2, <2>1, <2>2, <2>3, <2>4
<1>12. IdsIn(q) = IdsOf(Head(q).acts) \cup IdsIn(t)
  <2>1. ASSUME NEW x \in IdsIn(q) PROVE x \in IdsOf(Head(q).acts) \cup IdsIn(t)
    <3>1. PICK j \in 1..(n + 1) : x \in IdsOf(q[j].acts)
      BY <1>3, <2>1 DEF IdsIn
    <3>2. CASE j = 1
      BY <1>2, <3>1, <3>2
    <3>3. CASE j # 1
      <4>1. PICK i \in 1..n : t[i] = q[j]
        BY <1>5, <3>3
      <4>2. QED
        BY <1>3, <3>1, <4>1 DEF IdsIn
    <3>4. QED
      BY <3>2, <3>3
  <2>2. ASSUME NEW x \in IdsIn(t) PROVE x \in IdsIn(q)
    <3>1. PICK i \in 1..n : x \in IdsOf(t[i].acts)
      BY <1>3, <2>2 DEF IdsIn
    <3>2. PICK j \in 1..(n + 1) : t[i] = q[j]
      BY <1>6
    <3>3. QED
      BY <1>3, <3>1, <3>2 DEF IdsIn
  <2>3. IdsOf(Head(q).acts) \subseteq IdsIn(q)
    BY <1>2 DEF IdsIn
  <2>4. QED
    BY <2>1, <2>2, <2>3
<1>13. \A i \in DOMAIN t : \E j \in DOMAIN q : t[i] = q[j]
  BY <1>2
<1>14. \A j \in DOMAIN q : q[j] = Head(q) \/ \E i \in DOMAIN t : t[i] = q[j]
  <2>1. SUFFICES ASSUME NEW j \in 1..(n + 1), j # 1
                 PROVE  \E i \in 1..n : t[i] = q[j]
    BY <1>2, <1>3
  <2>2. QED
    BY <1>5, <2>1
<1>15. QED
  <2>1. NoClaims(t)
    BY <1>3, <1>8 DEF NoClaims
  <2>2. HeadOrTail(q)
    BY <1>1, <1>14 DEF HeadOrTail
  <2>3. TailIn(q)
    BY <1>1, <1>13 DEF TailIn
  <2>4. QED
    BY <1>1, <1>7, <1>10, <1>11, <1>12, <2>1, <2>2, <2>3

LEMMA ReadyWaits ==
    ASSUME NEW A, NEW c, Ready(c, A)
    PROVE  \A a \in ToSet(c.acts) : a.deps # {} =>
                \E b \in ToSet(c.acts) : b.type = "swap" /\ b.id \in a.deps
<1>1. PICK s : s = c.acts /\ IsSequence(s) /\ s # <<>>
  BY DEF Ready
<1>2. CASE c.kind = "claims"
  BY <1>2 DEF Ready
<1>3. CASE c.kind = "single"
  <2>1. DOMAIN s = {1} /\ s[1].deps = {}
    BY <1>1, <1>3, SequenceIs DEF Ready
  <2>2. QED
    BY <1>1, <2>1 DEF ToSet
<1>4. CASE c.kind = "compose"
  <2>1. DOMAIN s = {1, 2} /\ s[2].type = "swap" /\ s[2].deps = {} /\ s[2].id \in s[1].deps
    BY <1>1, <1>4, SequenceIs DEF Ready
  <2>2. QED
    BY <1>1, <2>1 DEF ToSet
<1>5. QED
  BY <1>2, <1>3, <1>4 DEF Ready

LEMMA ApprovedAreDistinct ==
    ASSUME NEW actions, IsSequence(actions), NEW snapshot, NEW opps,
           Violations(actions, snapshot, opps, TRUE) = {}
    PROVE  Distinct(actions)
<1>1. PICK n \in Nat : n = Len(actions) /\ DOMAIN actions = 1..n
  BY SequenceIs
<1>2. ASSUME NEW k \in 1..n, NEW j \in 1..n, k < j, actions[k].id = actions[j].id
      PROVE  FALSE
  <2>1. k \in 1..(j - 1)
    BY <1>2
  <2> DEFINE J == {l \in DOMAIN actions : \E m \in 1..(l - 1) : actions[m].id = actions[l].id}
             Duplicates == {<<actions[l].id, "duplicate">> : l \in J}
  <2>2. j \in J
    BY <1>1, <1>2, <2>1
  <2>3. <<actions[j].id, "duplicate">> \in Duplicates
    <3> HIDE DEF J
    <3>1. QED
      BY <2>2
  <2>4. \A x \in Duplicates : x \in Violations(actions, snapshot, opps, TRUE)
    <3> DEFINE Others == UNION {{<<actions[i].id, r>> : r \in
                    ActionFaults(actions[i], actions, snapshot, opps)} : i \in DOMAIN actions}
               Missing == {<<Null, "incomplete">> : x \in {y \in {TRUE} : y
            /\ ~snapshot.complete /\ \E i \in DOMAIN actions : actions[i].type # "hold"}}
    <3>1. Violations(actions, snapshot, opps, TRUE) = Others \cup Duplicates \cup Missing
      BY Zenon DEF Violations
    <3> HIDE DEF Duplicates, Others, Missing
    <3>2. QED
      BY <3>1
  <2> HIDE DEF Duplicates
  <2>5. QED
    BY <2>3, <2>4
<1>3. \A i, j \in 1..n : i # j => i < j \/ j < i
  OBVIOUS
<1>4. QED
  BY <1>1, <1>2, <1>3 DEF Distinct

-----------------------------------------------------------------------------
(* The wallet only shrinks, as far as positions go.                        *)

Shrinks(after) ==
    /\ DOMAIN after \subseteq DOMAIN open
    /\ \A p \in DOMAIN after : after[p] \subseteq open[p]

\* An action is done when its key is gone, or comes back by itself.
Done(a) == a.pos \in DOMAIN open /\ a.key \in open[a.pos] => a.type = "claim" /\ Of(a.pos).sticky

LEMMA OpenAfterIs ==
    ASSUME NEW a
    PROVE  LET after == OpenAfter(a)
           IN  /\ Shrinks(after)
               /\ a.type # "close" \/ a.key = "uncommit" => DOMAIN after = DOMAIN open
               /\ \A p \in DOMAIN open \ DOMAIN after : p = a.pos
               /\ a.type \in {"claim", "close"} /\ a.pos \in DOMAIN after /\ a.key \in after[a.pos]
                    => a.type = "claim" /\ Of(a.pos).sticky
  BY DEF OpenAfter, Shrinks

LEMMA BatchIs ==
    ASSUME NEW after, NEW gone, after = [p \in DOMAIN open |-> open[p] \ gone[p]]
    PROVE  Shrinks(after) /\ DOMAIN after = DOMAIN open
  BY DEF Shrinks

\* Every step: what it may take from the wallet.
LEMMA StepShrinks ==
    ASSUME [Next]_vars
    PROVE  Shrinks(open')
<1>1. ASSUME UNCHANGED open PROVE Shrinks(open')
  BY <1>1 DEF Shrinks
<1>2. CASE Confirm
  BY <1>2, OpenAfterIs DEF Confirm, Lands
<1>3. CASE Compose
  <2>1. CASE UNCHANGED open
    BY <1>1, <2>1
  <2>2. CASE Lands(Call.acts[2])
    BY <2>2, OpenAfterIs DEF Lands
  <2>3. QED
    BY <1>3, <2>1, <2>2 DEF Compose, NothingLands
<1>4. CASE ClaimBatch
  <2>1. PICK gone : open' = [p \in DOMAIN open |-> open[p] \ gone[p]]
    <3>1. PICK done : open' = [p \in DOMAIN open |-> open[p] \ {Call.acts[i].key : i \in
                            {j \in done : Call.acts[j].pos = p /\ ~Of(p).sticky}}]
      BY <1>4 DEF ClaimBatch
    <3>2. PICK gone : gone = [p \in DOMAIN open |-> {Call.acts[i].key : i \in
                            {j \in done : Call.acts[j].pos = p /\ ~Of(p).sticky}}]
      OBVIOUS
    <3>3. open' = [p \in DOMAIN open |-> open[p] \ gone[p]]
      BY <3>1, <3>2
    <3>4. QED
      BY <3>3
  <2>2. QED
    BY <2>1, BatchIs
<1>5. CASE LandLate
  <2>1. CASE UNCHANGED open
    BY <1>1, <2>1
  <2>2. CASE \E a : open' = OpenAfter(a)
    BY <2>2, OpenAfterIs
  <2>3. QED
    BY <1>5, <2>1, <2>2 DEF LandLate
<1>6. CASE Fail \/ TimeOut
  BY <1>1, <1>6 DEF Fail, TimeOut, NothingLands
<1>7. CASE BeginReview \/ BeginUnwind
  BY <1>1, <1>7 DEF BeginReview, BeginUnwind, Begin, wallet
<1>8. CASE AgentGivesUp \/ ConcludeReview \/ WaveThrows
  BY <1>1, <1>8 DEF AgentGivesUp, ConcludeReview, WaveThrows, End, wallet
<1>9. CASE PlanReview
  BY <1>1, <1>9 DEF PlanReview, End, wallet
<1>10. CASE PlanWave \/ EndWave \/ ClaimBatchThrows
  BY <1>1, <1>10 DEF PlanWave, EndWave, ClaimBatchThrows, wallet
<1>11. CASE UNCHANGED vars
  BY <1>1, <1>11 DEF vars, wallet
<1>12. QED
  BY <1>2, <1>3, <1>4, <1>5, <1>6, <1>7, <1>8, <1>9, <1>10, <1>11 DEF Next

\* The listing stays, but for a read, and is never ahead.
LEMMA ListingKept ==
    ASSUME [Next]_vars
    PROVE  listed' = listed \/ (listed' \in Listings /\ open' = open)
<1>1. CASE \E st : NextCall(st)
  BY <1>1 DEF NextCall
<1>2. CASE BeginReview
  BY <1>2 DEF BeginReview, Begin
<1>3. CASE PlanWave
  BY <1>3 DEF PlanWave
<1>4. CASE BeginUnwind \/ LandLate
  BY <1>4 DEF BeginUnwind, LandLate
<1>5. CASE AgentGivesUp \/ ConcludeReview \/ WaveThrows
  BY <1>5 DEF AgentGivesUp, ConcludeReview, WaveThrows, End, wallet
<1>6. CASE PlanReview
  BY <1>6 DEF PlanReview, End, wallet
<1>7. CASE EndWave \/ ClaimBatchThrows \/ UNCHANGED vars
  BY <1>7 DEF EndWave, ClaimBatchThrows, vars, wallet
<1>8. Confirm \/ Fail \/ TimeOut \/ ClaimBatch \/ Compose => \E st : NextCall(st)
  BY DEF Confirm, Fail, TimeOut, ClaimBatch, Compose
<1>9. QED
  BY <1>1, <1>2, <1>3, <1>4, <1>5, <1>6, <1>7, <1>8 DEF Next

LEMMA WalletKept == ASSUME Wallet, [Next]_vars PROVE Wallet'
<1>1. Shrinks(open')
  BY StepShrinks
<1>2. CASE listed' = listed
  <2>1. ASSUME NEW p \in DOMAIN open' PROVE open'[p] \subseteq listed[p]
    BY <1>1, <2>1 DEF Wallet, Shrinks
  <2>2. DOMAIN open' \subseteq DOMAIN listed
    BY <1>1 DEF Wallet, Shrinks
  <2>3. QED
    BY <1>2, <2>1, <2>2 DEF Wallet
<1>3. CASE listed' \in Listings /\ open' = open
  BY <1>3, ListingIs DEF Wallet
<1>4. QED
  BY <1>2, <1>3, ListingKept

-----------------------------------------------------------------------------
(* What has been asked, and what is still to be.                           *)

Control ==
    /\ kind \in {"none", "review", "unwind"} /\ stage \in {"idle", "plan", "execute"}
    /\ kind = "none" => stage = "idle"
    /\ trading => signing
    /\ kind = "unwind" => trading
    /\ stage # "execute" => queue = <<>>
    /\ queue # <<>> => trading
    /\ wave \in 0..MaxWaves

Sent ==
    /\ IsSequence(plan) /\ IsSequence(asked) /\ Agenda(queue, ToSet(plan))
    /\ Distinct(asked) /\ ToSet(asked) \subseteq ToSet(plan)
    /\ \A a \in ToSet(asked) :
        /\ a.type # "hold"
        /\ a.deps # {} => \E b \in ToSet(asked) : b.type = "swap" /\ b.id \in a.deps
    /\ IdsIn(queue) \cap IdsOf(asked) = {}
    /\ \A i \in DOMAIN queue : queue[i].kind = "claims" => asked = <<>>
    /\ \A i \in DOMAIN queue : kind = "unwind" => queue[i].kind = "single"
    /\ kind = "review" /\ stage = "plan" => asked = <<>>
    /\ kind = "review" /\ (asked # <<>> \/ queue # <<>>) =>
        trading /\ Approved(plan, snap, ToSet(catalog), signing, TRUE)

LEMMA IdsAre ==
    ASSUME NEW s, IsSequence(s)
    PROVE  /\ \A x : x \in IdsOf(s) <=> \E a \in ToSet(s) : a.id = x
           /\ Distinct(s) => \A a, b \in ToSet(s) : a.id = b.id => a = b
  BY DEF IdsOf, ToSet, Distinct

LEMMA DistinctConcat ==
    ASSUME NEW s, NEW t, IsSequence(s), IsSequence(t), Distinct(s), Distinct(t),
           IdsOf(s) \cap IdsOf(t) = {}
    PROVE  Distinct(s \o t)
<1>1. PICK u : u = s \o t
  OBVIOUS
<1>2. /\ \A i \in DOMAIN s : u[i] = s[i]
      /\ \A i \in DOMAIN t : u[Len(s) + i] = t[i]
      /\ \A k \in DOMAIN u : \/ k \in DOMAIN s
                             \/ k > Len(s) /\ k - Len(s) \in DOMAIN t
      /\ IsSequence(u)
  BY <1>1, ConcatIs
<1>3. PICK m \in Nat, n \in Nat, l \in Nat :
        DOMAIN s = 1..m /\ DOMAIN t = 1..n /\ DOMAIN u = 1..l /\ m = Len(s)
  BY <1>2, SequenceIs
<1>4. ASSUME NEW k \in 1..l, k \notin 1..m
      PROVE  \E i \in 1..n : i = k - m /\ u[k] = t[i]
  <2>1. PICK i \in 1..n : i = k - m
    BY <1>2, <1>3, <1>4
  <2>2. u[m + i] = t[i] /\ m + i = k
    BY <1>2, <1>3, <2>1
  <2>3. QED
    BY <2>1, <2>2
<1>5. /\ \A i \in 1..m : s[i].id \in IdsOf(s)
      /\ \A i \in 1..n : t[i].id \in IdsOf(t)
  BY <1>3 DEF IdsOf
<1>6. ASSUME NEW j \in 1..l, NEW k \in 1..l, u[j].id = u[k].id
      PROVE  j = k
  <2>1. CASE j \in 1..m /\ k \in 1..m
    BY <1>2, <1>3, <1>6, <2>1 DEF Distinct
  <2>2. CASE j \notin 1..m /\ k \notin 1..m
    <3>1. PICK h \in 1..n, i \in 1..n : h = j - m /\ i = k - m /\ u[j] = t[h] /\ u[k] = t[i]
      BY <1>4, <2>2
    <3>2. h = i
      BY <1>3, <1>6, <3>1 DEF Distinct
    <3>3. QED
      BY <3>1, <3>2
  <2>3. CASE j \in 1..m /\ k \notin 1..m
    <3>1. PICK i \in 1..n : u[k] = t[i]
      BY <1>4, <2>3
    <3>2. u[j] = s[j]
      BY <1>2, <1>3, <2>3
    <3>3. QED
      BY <1>5, <1>6, <2>3, <3>1, <3>2
  <2>4. CASE j \notin 1..m /\ k \in 1..m
    <3>1. PICK i \in 1..n : u[j] = t[i]
      BY <1>4, <2>4
    <3>2. u[k] = s[k]
      BY <1>2, <1>3, <2>4
    <3>3. QED
      BY <1>5, <1>6, <2>4, <3>1, <3>2
  <2>5. QED
    BY <2>1, <2>2, <2>3, <2>4
<1>7. QED
  BY <1>1, <1>3, <1>6 DEF Distinct

LEMMA NothingAsked ==
    /\ IsSequence(<<>>) /\ Distinct(<<>>) /\ ToSet(<<>>) = {} /\ IdsOf(<<>>) = {}
<1>1. <<>> \in Seq(ToSet(<<>>)) /\ DOMAIN <<>> = {}
  OBVIOUS
<1>2. QED
  BY <1>1 DEF IsSequence, Distinct, ToSet, IdsOf

LEMMA CallIs ==
    ASSUME Sent, NEW st, NextCall(st)
    PROVE  /\ Ready(Call, ToSet(plan)) /\ \E i \in DOMAIN queue : queue[i] = Call
           /\ IsSequence(asked') /\ Distinct(asked')
           /\ ToSet(asked') = ToSet(asked) \cup ToSet(Call.acts)
           /\ IdsOf(asked') = IdsOf(asked) \cup IdsOf(Call.acts)
           /\ IdsOf(asked) \cap IdsOf(Call.acts) = {}
<1>1. queue # <<>> /\ Call = Head(queue) /\ asked' = asked \o Call.acts
  BY DEF NextCall, Call
<1>2. Ready(Call, ToSet(plan)) /\ IdsOf(Call.acts) \subseteq IdsIn(queue)
  <2>1. PICK q, A : q = queue /\ A = ToSet(plan)
    OBVIOUS
  <2>2. Agenda(q, A) /\ q # <<>>
    BY <1>1, <2>1 DEF Sent
  <2>3. Ready(Head(q), A)
    BY ONLY <2>2, AgendaTail
  <2>4. IdsIn(q) = IdsOf(Head(q).acts) \cup IdsIn(Tail(q))
    BY ONLY <2>2, AgendaTail
  <2>5. Call = Head(q)
    BY <1>1, <2>1
  <2>6. Ready(Call, ToSet(plan))
    BY <2>1, <2>3, <2>5
  <2>7. IdsOf(Head(q).acts) \subseteq IdsIn(queue)
    BY <2>1, <2>4
  <2>8. QED
    BY <2>5, <2>6, <2>7
<1>3. IsSequence(Call.acts) /\ Distinct(Call.acts) /\ IsSequence(asked) /\ Distinct(asked)
  BY <1>2 DEF Ready, Sent
<1>4. IdsOf(asked) \cap IdsOf(Call.acts) = {}
  BY <1>2 DEF Sent
<1>5. Distinct(asked')
  BY <1>1, <1>3, <1>4, DistinctConcat
<1>6. IsSequence(asked') /\ ToSet(asked') = ToSet(asked) \cup ToSet(Call.acts)
  BY <1>1, <1>3, ConcatIs
<1>7. IdsOf(asked') = IdsOf(asked) \cup IdsOf(Call.acts)
  <2>1. ASSUME NEW x PROVE x \in IdsOf(asked') <=> x \in IdsOf(asked) \/ x \in IdsOf(Call.acts)
    BY <1>3, <1>6, IdsAre
  <2>2. QED
    BY <2>1
<1>8. \E i \in DOMAIN queue : queue[i] = Call
  BY <1>1, TailIs DEF Sent, Agenda
<1>9. QED
  BY <1>2, <1>4, <1>5, <1>6, <1>7, <1>8

LEMMA CallKeepsSent ==
    ASSUME Control, Sent, NEW st, NextCall(st)
    PROVE  Sent'
<1>1. /\ Ready(Call, ToSet(plan))
      /\ IsSequence(asked') /\ Distinct(asked')
      /\ ToSet(asked') = ToSet(asked) \cup ToSet(Call.acts)
      /\ IdsOf(asked') = IdsOf(asked) \cup IdsOf(Call.acts)
  BY CallIs
<1>2. /\ queue # <<>> /\ queue' = Tail(queue) /\ Call = Head(queue) /\ stage = "execute"
      /\ UNCHANGED <<signing, kind, stage, trading, snap, catalog, plan>>
  BY DEF NextCall, Call
<1>3. /\ Agenda(queue', ToSet(plan)) /\ IdsOf(Call.acts) \cap IdsIn(queue') = {}
      /\ IdsIn(queue') \subseteq IdsIn(queue)
      /\ \A i \in DOMAIN queue' : queue'[i].kind # "claims"
      /\ \A i \in DOMAIN queue' : \E j \in DOMAIN queue : queue'[i] = queue[j]
  <2>1. PICK q, A : q = queue /\ A = ToSet(plan)
    OBVIOUS
  <2>2. Agenda(q, A) /\ q # <<>>
    BY <1>2, <2>1 DEF Sent
  <2>3. Call = Head(q) /\ queue' = Tail(q)
    BY <1>2, <2>1
  <2>4. Agenda(Tail(q), A)
    BY ONLY <2>2, AgendaTail
  <2>5. IdsOf(Head(q).acts) \cap IdsIn(Tail(q)) = {}
    BY ONLY <2>2, AgendaTail
  <2>6. IdsIn(q) = IdsOf(Head(q).acts) \cup IdsIn(Tail(q))
    BY ONLY <2>2, AgendaTail
  <2>7. NoClaims(Tail(q))
    BY ONLY <2>2, AgendaTail
  <2>8. TailIn(q)
    BY ONLY <2>2, AgendaTail
  <2>9. Agenda(queue', ToSet(plan)) /\ IdsOf(Call.acts) \cap IdsIn(queue') = {}
    BY <2>1, <2>3, <2>4, <2>5
  <2>10. IdsIn(queue') \subseteq IdsIn(queue)
    BY <2>1, <2>3, <2>6
  <2>11. QED
    BY <2>1, <2>3, <2>7, <2>8, <2>9, <2>10 DEF NoClaims, TailIn
<1>4. ToSet(asked') \subseteq ToSet(plan) /\ \A a \in ToSet(asked') : a.type # "hold"
  BY <1>1 DEF Sent, Ready
<1>5. \A a \in ToSet(asked') : a.deps # {} =>
            \E b \in ToSet(asked') : b.type = "swap" /\ b.id \in a.deps
  <2>1. \A a \in ToSet(Call.acts) : a.deps # {} =>
                \E b \in ToSet(Call.acts) : b.type = "swap" /\ b.id \in a.deps
    BY <1>1, ReadyWaits
  <2>2. \A a \in ToSet(asked) : a.deps # {} =>
                \E b \in ToSet(asked) : b.type = "swap" /\ b.id \in a.deps
    BY DEF Sent
  <2>3. QED
    BY <1>1, <2>1, <2>2
<1>6. IdsIn(queue') \cap IdsOf(asked') = {}
  BY <1>1, <1>3 DEF Sent
<1>7. kind = "review" => trading /\ Approved(plan, snap, ToSet(catalog), signing, TRUE)
  BY <1>2 DEF Sent
<1>8. \A i \in DOMAIN queue' : kind = "unwind" => queue'[i].kind = "single"
  BY <1>3 DEF Sent
<1>9. IsSequence(plan)
  BY DEF Sent
<1> HIDE DEF Agenda, Approved, IdsIn, IdsOf, Distinct
<1>10. QED
  BY <1>1, <1>2, <1>3, <1>4, <1>5, <1>6, <1>7, <1>8, <1>9 DEF Sent

LEMMA ControlKept == ASSUME Control, [Next]_vars PROVE Control'
<1>1. CASE BeginReview \/ BeginUnwind
  <2>1. 1 \in 0..MaxWaves
    BY PlanRunsAssumption
  <2>2. /\ stage = "idle" /\ kind' \in {"review", "unwind"} /\ stage' = "plan" /\ wave' = 1
        /\ signing' = signing /\ queue' = queue
        /\ trading' => signing
        /\ kind' = "unwind" => trading'
    <3>1. CASE BeginReview
      <4>1. trading' \in {signing, FALSE} /\ Begin("review")
        BY <3>1 DEF BeginReview
      <4>2. trading' => signing
        BY <4>1, Zenon
      <4>3. /\ stage = "idle" /\ kind' = "review" /\ stage' = "plan" /\ wave' = 1
            /\ signing' = signing /\ queue' = queue
        BY <4>1 DEF Begin
      <4>4. kind' # "unwind"
        BY <4>3
      <4>5. QED
        BY <4>2, <4>3, <4>4
    <3>2. CASE BeginUnwind
      BY <3>2 DEF BeginUnwind, Begin
    <3>3. QED
      BY <1>1, <3>1, <3>2
  <2>3. QED
    BY <2>1, <2>2 DEF Control
<1>2. CASE AgentGivesUp \/ ConcludeReview \/ WaveThrows
  <2>1. /\ queue' = queue /\ stage' = "idle"
        /\ UNCHANGED <<signing, kind, trading, wave>>
        /\ queue = <<>> \/ stage = "plan"
    BY <1>2 DEF AgentGivesUp, ConcludeReview, WaveThrows, End
  <2>2. QED
    BY <2>1 DEF Control
<1>3. CASE PlanReview
  <2>1. /\ kind' = kind /\ signing' = signing /\ trading' = trading /\ wave' = wave
        /\ kind = "review" /\ stage' \in {"idle", "execute"}
        /\ queue' # <<>> => trading /\ stage' = "execute"
    BY <1>3 DEF PlanReview, End
  <2>2. QED
    BY <2>1 DEF Control
<1>4. CASE PlanWave
  <2>1. kind' = kind /\ signing' = signing /\ trading' = trading /\ wave' = wave /\ kind = "unwind"
    BY <1>4 DEF PlanWave
  <2>2. PICK loaded, seen : Draft(loaded, seen)
    <3> HIDE DEF Draft
    <3>1. QED
      BY <1>4 DEF PlanWave
  <2>3. stage' \in {"idle", "execute"} /\ (queue' # <<>> => stage' = "execute")
    BY <2>2 DEF Draft
  <2>4. QED
    BY <2>1, <2>3 DEF Control
<1>5. CASE EndWave
  <2>1. wave # MaxWaves => wave + 1 \in 0..MaxWaves
    BY PlanRunsAssumption DEF Control
  <2>2. QED
    BY <1>5, <2>1 DEF EndWave, Control
<1>6. CASE \E st : NextCall(st)
  <2>1. queue # <<>> /\ UNCHANGED <<signing, kind, stage, trading, wave>> /\ stage = "execute"
    BY <1>6 DEF NextCall
  <2>2. QED
    BY <2>1 DEF Control
<1>7. CASE ClaimBatchThrows
  BY <1>7 DEF ClaimBatchThrows, Control
<1>8. CASE LandLate \/ UNCHANGED vars
  BY <1>8 DEF LandLate, vars, work, Control
<1>9. Confirm \/ Fail \/ TimeOut \/ ClaimBatch \/ Compose => \E st : NextCall(st)
  BY DEF Confirm, Fail, TimeOut, ClaimBatch, Compose
<1>10. QED
  BY <1>1, <1>2, <1>3, <1>4, <1>5, <1>6, <1>7, <1>8, <1>9 DEF Next

LEMMA SentKept == ASSUME Control, Sent, Wallet, [Next]_vars PROVE Sent'
<1> USE DEF NoClaims
<1>1. CASE BeginReview \/ BeginUnwind
  <2>1. /\ plan' = <<>> /\ asked' = <<>> /\ queue' = queue /\ stage = "idle"
    BY <1>1 DEF BeginReview, BeginUnwind, Begin
  <2>2. queue' = <<>>
    BY <2>1 DEF Control
  <2>3. PICK A : A = ToSet(plan')
    OBVIOUS
  <2>4. Agenda(queue', ToSet(plan')) /\ IdsIn(queue') = {}
    BY <2>2, <2>3, NoAgenda
  <2>5. DOMAIN queue' = {}
    BY <2>2
  <2>6. /\ IsSequence(plan') /\ IsSequence(asked') /\ Distinct(asked') /\ ToSet(asked') = {}
    BY <2>1, NothingAsked
  <2>7. QED
    BY <2>1, <2>2, <2>4, <2>5, <2>6 DEF Sent
<1>2. CASE AgentGivesUp \/ ConcludeReview \/ WaveThrows
  <2>1. /\ stage' = "idle"
        /\ UNCHANGED <<signing, kind, trading, snap, catalog, plan, queue, asked>>
    BY <1>2 DEF AgentGivesUp, ConcludeReview, WaveThrows, End, history
  <2>2. QED
    BY <2>1 DEF Sent
<1>3. CASE PlanReview
  <2>1. /\ kind = "review" /\ stage = "plan" /\ asked = <<>>
    BY <1>3 DEF PlanReview, Sent
  <2>2. /\ asked' = <<>> /\ kind' = kind /\ trading' = trading /\ snap' = snap
        /\ signing' = signing /\ stage' # "plan"
    BY <1>3, <2>1 DEF PlanReview, End, history
  <2>3. PICK raw \in Plans, loaded \in Catalogs, desk \in {Desk, <<>>},
             goes \in BOOLEAN :
            /\ catalog' = loaded /\ plan' = Normalize(raw, snap, ToSet(loaded))
            /\ goes => trading /\ Approved(plan', snap, ToSet(loaded), signing, TRUE)
            /\ queue' = IF goes THEN ReviewCalls(plan', desk, ToSet(loaded)) ELSE <<>>
    <3>1. PICK raw \in Plans, loaded \in Catalogs, desk \in {Desk, <<>>} :
            LET opps == ToSet(loaded)
                actions == Normalize(raw, snap, opps)
                goes == trading /\ Approved(actions, snap, opps, signing, TRUE)
            IN  /\ catalog' = loaded /\ plan' = actions
                /\ queue' = IF goes /\ ~Cyclic(actions)
                            THEN ReviewCalls(actions, desk, opps) ELSE <<>>
      BY <1>3 DEF PlanReview
    <3>2. PICK goes \in BOOLEAN :
            goes = (/\ trading /\ Approved(plan', snap, ToSet(loaded), signing, TRUE)
                    /\ ~Cyclic(plan'))
      OBVIOUS
    <3>3. QED
      BY <3>1, <3>2
  <2>4. IsSequence(raw)
    BY PlansAssumption DEF IsSequence
  <2>5. PICK actions, opps : actions = plan' /\ opps = ToSet(loaded)
    OBVIOUS
  <2>6. IsSequence(actions)
    BY <2>3, <2>4, <2>5, NormalizeIs
  <2>7. ASSUME goes
        PROVE  /\ Agenda(queue', ToSet(plan')) /\ trading
               /\ Approved(plan', snap, ToSet(loaded), signing, TRUE)
    <3>1. trading /\ Approved(actions, snap, opps, signing, TRUE)
      BY <2>3, <2>5, <2>7
    <3>2. signing
      BY <3>1 DEF Control
    <3>3. Distinct(actions)
      BY <2>6, <3>1, <3>2, ApprovedAreDistinct DEF Approved
    <3>4. Agenda(ReviewCalls(actions, desk, opps), ToSet(actions))
      BY <2>6, <3>3, ReviewCallsAre
    <3>5. queue' = ReviewCalls(actions, desk, opps)
      BY <2>3, <2>5, <2>7
    <3>6. QED
      BY <2>5, <3>1, <3>4, <3>5
  <2>8. ASSUME ~goes PROVE Agenda(queue', ToSet(plan')) /\ queue' = <<>>
    <3>1. queue' = <<>>
      BY <2>3, <2>8
    <3>2. PICK A : A = ToSet(plan')
      OBVIOUS
    <3>3. QED
      BY <3>1, <3>2, NoAgenda
  <2>9. Agenda(queue', ToSet(plan'))
    BY <2>7, <2>8
  <2>10. queue' # <<>> => trading' /\ Approved(plan', snap', ToSet(catalog'), signing', TRUE)
    BY <2>2, <2>3, <2>7, <2>8
  <2>11. IsSequence(plan')
    BY <2>5, <2>6
  <2>12. /\ IsSequence(asked') /\ Distinct(asked') /\ ToSet(asked') = {} /\ IdsOf(asked') = {}
    BY <2>2, NothingAsked
  <2> HIDE DEF Agenda, Approved, IdsIn, IdsOf, Distinct, IsSequence
  <2>13. kind' # "unwind"
    BY <2>1, <2>2
  <2>14. QED
    BY <2>1, <2>2, <2>9, <2>10, <2>11, <2>12, <2>13 DEF Sent
<1>4. CASE PlanWave
  <2>0. PICK loaded \in Catalogs, listing \in Listings :
            \E seen \in Views(listing) : Draft(loaded, seen)
    <3> HIDE DEF Draft
    <3>1. QED
      BY <1>4 DEF PlanWave
  <2>00. PICK seen \in Views(listing) : Draft(loaded, seen)
    BY <2>0
  <2>1. PICK opps, drafted, actions, verdict :
            /\ opps = Enrich(loaded, KnownReceipts(seen, loaded))
            /\ drafted = WaveOf(seen, opps)
            /\ actions = Normalize(drafted, seen, Waived(opps))
            /\ verdict = IF drafted = <<>> THEN IF wave = 1 THEN "no-op" ELSE "completed"
                         ELSE IF Fingerprint(drafted) = print THEN "stuck"
                         ELSE IF ~Approved(actions, seen, Waived(opps), signing, FALSE)
                         THEN "stuck" ELSE "none"
    OBVIOUS
  <2>2. IsSequence(opps) /\ Coherent(ToSet(opps))
    BY <2>1, EnrichIs
  <2>3. /\ actions = plan'
        /\ queue' = IF verdict # "none" THEN <<>> ELSE
                    [i \in DOMAIN actions |->
                        [kind |-> "single", acts |-> <<actions[i]>>, skipped |-> {}]]
    BY <2>00, <2>1 DEF Draft
  <2>4. /\ IsSequence(actions) /\ Distinct(actions)
        /\ \A b \in ToSet(actions) : b.deps = {} /\ WaveStep(b, actions, opps, seen)
    BY <2>1, <2>2, <2>3, ViewIs, WavePlanIs
  <2>5. \A b \in ToSet(actions) : b.type # "hold"
    BY <2>4 DEF WaveStep
  <2>6. Agenda(queue', ToSet(actions)) /\ \A i \in DOMAIN queue' : queue'[i].kind = "single"
    <3>1. CASE verdict # "none"
      <4>1. queue' = <<>>
        BY <2>3, <3>1
      <4>2. DOMAIN queue' = {}
        BY <4>1
      <4>3. Agenda(queue', ToSet(actions))
        <5>1. PICK A : A = ToSet(actions)
          OBVIOUS
        <5>2. QED
          BY <4>1, <5>1, NoAgenda
      <4>4. QED
        BY <4>2, <4>3
    <3>2. CASE verdict = "none"
      <4>1. PICK q : q = [i \in DOMAIN actions |->
                            [kind |-> "single", acts |-> <<actions[i]>>, skipped |-> {}]]
        OBVIOUS
      <4>2. queue' = q
        BY <2>1, <2>3, <3>2, <4>1
      <4>3. Agenda(q, ToSet(actions)) /\ \A i \in DOMAIN q : q[i].kind = "single"
        <5>1. PICK A : A = ToSet(actions)
          OBVIOUS
        <5>2. /\ IsSequence(actions) /\ Distinct(actions) /\ ToSet(actions) \subseteq A
              /\ \A a \in ToSet(actions) : a.type # "hold" /\ a.deps = {}
          BY <2>4, <2>5, <5>1
        <5>3. Agenda(q, A) /\ \A i \in DOMAIN q : q[i].kind = "single"
          BY ONLY <4>1, <5>2, AloneIs
        <5>4. QED
          BY <5>1, <5>3
      <4>4. QED
        BY <4>2, <4>3
    <3>3. QED
      BY <3>1, <3>2
  <2>7. asked' = <<>> /\ kind' = "unwind"
    BY <1>4 DEF PlanWave
  <2>8. /\ IsSequence(asked') /\ Distinct(asked') /\ ToSet(asked') = {} /\ IdsOf(asked') = {}
    BY <2>7, NothingAsked
  <2>9. /\ Agenda(queue', ToSet(plan')) /\ IsSequence(plan')
        /\ \A i \in DOMAIN queue' : queue'[i].kind = "single"
    BY <2>3, <2>4, <2>6
  <2> HIDE DEF Agenda, Approved, IdsIn, IdsOf, Distinct, IsSequence
  <2>10. kind' # "review"
    BY <2>7
  <2>11. QED
    BY <2>7, <2>8, <2>9, <2>10 DEF Sent
<1>5. CASE EndWave
  <2>1. kind = "unwind" /\ UNCHANGED <<signing, kind, trading, snap, catalog, plan, queue, asked>>
    BY <1>5 DEF EndWave, history
  <2>2. QED
    BY <2>1 DEF Sent
<1>6. CASE \E st : NextCall(st)
  BY <1>6, CallKeepsSent
<1>7. CASE ClaimBatchThrows
  <2>1. /\ queue' = <<>> /\ stage' = "idle"
        /\ UNCHANGED <<signing, kind, trading, snap, catalog, plan, asked>>
    BY <1>7 DEF ClaimBatchThrows, history
  <2>2. DOMAIN queue' = {}
    BY <2>1
  <2>3. Agenda(queue', ToSet(plan)) /\ IdsIn(queue') = {}
    <3>1. PICK A : A = ToSet(plan)
      OBVIOUS
    <3>2. QED
      BY <2>1, <3>1, NoAgenda
  <2>4. QED
    BY <2>1, <2>2, <2>3 DEF Sent
<1>8. CASE LandLate \/ UNCHANGED vars
  <2>1. UNCHANGED <<signing, kind, stage, trading, snap, catalog, plan, queue, asked>>
    BY <1>8 DEF LandLate, vars, work, history
  <2>2. QED
    BY <2>1 DEF Sent
<1>9. Confirm \/ Fail \/ TimeOut \/ ClaimBatch \/ Compose => \E st : NextCall(st)
  BY DEF Confirm, Fail, TimeOut, ClaimBatch, Compose
<1>10. QED
  BY <1>1, <1>2, <1>3, <1>4, <1>5, <1>6, <1>7, <1>8, <1>9 DEF Next

-----------------------------------------------------------------------------
(* The invariants.                                                         *)

\* What the executor answered agrees with what is on chain.
Answers ==
    /\ DOMAIN outcomes = IdsOf(asked) /\ landed \subseteq IdsOf(asked)
    /\ \A id \in DOMAIN outcomes :
        /\ outcomes[id] \in {"confirmed", "failed", "skipped"}
        /\ outcomes[id] = "failed" => troubled
        /\ outcomes[id] = "confirmed" => id \in landed
    /\ \A id \in landed : id \in unseen \/ outcomes[id] = "confirmed"

\* A close gives nothing up.
Spares(a) ==
    a.type = "close" /\ a.key # "uncommit" /\ a.pos \in DOMAIN open
        => open[a.pos] \cap {"claim", "uncommit"} = {}

Sparing ==
    /\ kind # "review" => \A i \in DOMAIN queue : \A a \in ToSet(queue[i].acts) : Spares(a)
    /\ \A f \in flying : f.by # "review" => Spares(f.act)

\* The wave that was drafted is the one that is executed, and what has been
\* asked of it is done unless something failed.
Drafted(x, b) ==
    x[1] = b.type /\ x[2] = b.pos /\ x[4] = b.key /\ (b.type = "open" => x[3] = b.from)

Served ==
    \A b \in ToSet(plan) : \/ b \in ToSet(asked)
                           \/ \E i \in DOMAIN queue : b \in ToSet(queue[i].acts)
Shaped ==
    \A b \in ToSet(plan) : IF b.type = "open" THEN IsUnstake(b) ELSE b.type \in {"claim", "close"}
Printed ==
    /\ \A b \in ToSet(plan) : \E x \in print : Drafted(x, b)
    /\ \A x \in print : \E b \in ToSet(plan) : Drafted(x, b)
Advanced ==
    ~troubled =>
        /\ \A b \in ToSet(asked) : b.type # "open" => Done(b)
        /\ (\A b \in ToSet(plan) : b.type = "open") => \A b \in ToSet(asked) : b.from \notin held

Progress == kind = "unwind" /\ stage # "idle" => Served /\ Shaped /\ Printed /\ Advanced

\* What the last wave saw of a wallet that it called flat.
Flat ==
    kind = "unwind" /\ stage = "idle" /\ status \in {"completed", "no-op"} =>
        /\ \A p \in DOMAIN open : Closable(p) =>
            ~snap.complete /\ \A q \in snap.positions : q.id # p
        /\ XAlgo \notin snap.held
        /\ \A o \in ToSet(catalog) : o.family = "myth" => o.receipt \notin snap.held \ Cash

-----------------------------------------------------------------------------
(* The answers.                                                            *)

LEMMA AnsweredIs ==
    ASSUME NEW A, Ready(Call, A), NEW st
    PROVE  /\ DOMAIN Answered(st) = DOMAIN outcomes \cup IdsOf(Call.acts)
           /\ \A i \in DOMAIN Call.acts : Answered(st)[Call.acts[i].id] = st[i]
           /\ \A id \in DOMAIN outcomes \ IdsOf(Call.acts) : Answered(st)[id] = outcomes[id]
<1>1. PICK acts : acts = Call.acts
  OBVIOUS
<1>2. IsSequence(acts) /\ Distinct(acts)
  BY <1>1 DEF Ready
<1>3. IdsOf(acts) = {a.id : a \in ToSet(acts)}
  BY DEF IdsOf, ToSet
<1>4. PICK f : f = [id \in DOMAIN outcomes \cup IdsOf(acts) |->
                      IF \E i \in DOMAIN acts : acts[i].id = id
                      THEN st[CHOOSE i \in DOMAIN acts : acts[i].id = id] ELSE outcomes[id]]
  OBVIOUS
<1>5. f = Answered(st)
  BY <1>1, <1>3, <1>4 DEF Answered
<1>6. DOMAIN f = DOMAIN outcomes \cup IdsOf(acts)
  BY <1>4
<1>7. ASSUME NEW i \in DOMAIN acts
      PROVE  f[acts[i].id] = st[i]
  <2>1. acts[i].id \in IdsOf(acts)
    BY DEF IdsOf
  <2>2. (CHOOSE j \in DOMAIN acts : acts[j].id = acts[i].id) = i
    BY <1>2 DEF Distinct
  <2>3. QED
    BY <1>4, <2>1, <2>2
<1>8. ASSUME NEW id \in DOMAIN outcomes, id \notin IdsOf(acts)
      PROVE  f[id] = outcomes[id]
  <2>1. ~\E i \in DOMAIN acts : acts[i].id = id
    BY <1>8 DEF IdsOf
  <2>2. QED
    BY <1>4, <2>1
<1>9. QED
  BY <1>1, <1>5, <1>6, <1>7, <1>8

LEMMA CallAnswers ==
    ASSUME Answers, Sent, NEW st, NextCall(st), DOMAIN st = DOMAIN Call.acts,
           \A i \in DOMAIN st : /\ st[i] \in {"confirmed", "failed", "skipped"}
                                /\ st[i] = "confirmed" => Call.acts[i].id \in landed',
           landed \subseteq landed', unseen \subseteq unseen',
           \A id \in landed' \ landed : \E i \in DOMAIN Call.acts :
                Call.acts[i].id = id /\ (st[i] = "confirmed" \/ id \in unseen')
    PROVE  Answers'
<1>1. PICK acts : acts = Call.acts
  OBVIOUS
<1>2. /\ Ready(Call, ToSet(plan)) /\ IdsOf(asked') = IdsOf(asked) \cup IdsOf(acts)
      /\ IdsOf(asked) \cap IdsOf(acts) = {}
  BY <1>1, CallIs
<1>3. /\ outcomes' = Answered(st) /\ troubled' = (troubled \/ "failed" \in ToSet(st))
  BY DEF NextCall
<1>4. /\ DOMAIN outcomes' = DOMAIN outcomes \cup IdsOf(acts)
      /\ \A i \in DOMAIN acts : outcomes'[acts[i].id] = st[i]
      /\ \A id \in DOMAIN outcomes \ IdsOf(acts) : outcomes'[id] = outcomes[id]
  <2>1. PICK A : A = ToSet(plan)
    OBVIOUS
  <2>2. Ready(Call, A)
    BY <1>2, <2>1
  <2>3. PICK f : f = Answered(st)
    OBVIOUS
  <2>4. /\ DOMAIN f = DOMAIN outcomes \cup IdsOf(acts)
        /\ \A i \in DOMAIN acts : f[acts[i].id] = st[i]
        /\ \A id \in DOMAIN outcomes \ IdsOf(acts) : f[id] = outcomes[id]
    BY ONLY <1>1, <2>2, <2>3, AnsweredIs
  <2>5. QED
    BY <1>3, <2>3, <2>4
<1>5. DOMAIN outcomes' = IdsOf(asked')
  BY <1>2, <1>4 DEF Answers
<1>6. \A id \in IdsOf(acts) : \E i \in DOMAIN acts : acts[i].id = id
  BY DEF IdsOf
<1>7. landed' \subseteq IdsOf(asked')
  <2>1. \A i \in DOMAIN acts : acts[i].id \in IdsOf(acts)
    BY DEF IdsOf
  <2>2. QED
    BY <1>1, <1>2, <2>1 DEF Answers
<1>8. ASSUME NEW id \in DOMAIN outcomes'
      PROVE  /\ outcomes'[id] \in {"confirmed", "failed", "skipped"}
             /\ outcomes'[id] = "failed" => troubled'
             /\ outcomes'[id] = "confirmed" => id \in landed'
  <2>1. CASE id \in IdsOf(acts)
    <3>1. PICK i \in DOMAIN acts : acts[i].id = id /\ outcomes'[id] = st[i]
      BY <1>4, <1>6, <2>1
    <3>2. i \in DOMAIN st /\ st[i] \in ToSet(st)
      BY <1>1 DEF ToSet
    <3>3. QED
      BY <1>1, <1>3, <3>1, <3>2
  <2>2. CASE id \notin IdsOf(acts)
    <3>1. id \in DOMAIN outcomes /\ outcomes'[id] = outcomes[id]
      BY <1>4, <2>2
    <3>2. QED
      BY <1>3, <3>1 DEF Answers
  <2>3. QED
    BY <2>1, <2>2
<1>9. ASSUME NEW id \in landed'
      PROVE  id \in unseen' \/ outcomes'[id] = "confirmed"
  <2>1. CASE id \in landed
    <3>1. id \in IdsOf(asked) /\ id \in DOMAIN outcomes /\ id \notin IdsOf(acts)
      BY <1>2, <2>1 DEF Answers
    <3>2. QED
      BY <1>4, <2>1, <3>1 DEF Answers
  <2>2. CASE id \notin landed
    BY <1>1, <1>4, <2>2
  <2>3. QED
    BY <2>1, <2>2
<1>10. QED
  BY <1>5, <1>7, <1>8, <1>9 DEF Answers

LEMMA BatchAnswers ==
    ASSUME Answers, Sent, ClaimBatch
    PROVE  Answers'
<1>1. PICK n \in 0..Len(Call.acts), late \in BOOLEAN :
        LET st == [i \in DOMAIN Call.acts |->
                    IF Call.acts[i].id \in Call.skipped THEN "skipped"
                    ELSE IF i <= n THEN "confirmed"
                    ELSE IF i = n + 1 THEN "failed" ELSE "skipped"]
            done == {i \in DOMAIN st : st[i] = "confirmed"}
            lost == {i \in DOMAIN st : st[i] = "failed" /\ late}
        IN  /\ late => lost # {} /\ Cardinality(flying) < MaxLate
            /\ \A i \in done \cup lost : Possible(Call.acts[i])
            /\ NextCall(st)
            /\ open' = [p \in DOMAIN open |-> open[p] \ {Call.acts[i].key : i \in
                            {j \in done : Call.acts[j].pos = p /\ ~Of(p).sticky}}]
            /\ landed' = landed \cup {Call.acts[i].id : i \in done}
            /\ flying' = flying \cup {Flight(Call.acts[i]) : i \in lost}
            /\ unseen' = unseen \cup {Call.acts[i].id : i \in lost}
            /\ UNCHANGED held
  BY DEF ClaimBatch
<1>2. PICK acts : acts = Call.acts
  OBVIOUS
<1>3. PICK st : st = [i \in DOMAIN Call.acts |->
                    IF Call.acts[i].id \in Call.skipped THEN "skipped"
                    ELSE IF i <= n THEN "confirmed"
                    ELSE IF i = n + 1 THEN "failed" ELSE "skipped"]
  OBVIOUS
<1>4. PICK done : done = {i \in DOMAIN st : st[i] = "confirmed"}
  OBVIOUS
<1>5. PICK lost : lost = {i \in DOMAIN st : st[i] = "failed" /\ late}
  OBVIOUS
<1>6. /\ NextCall(st)
      /\ landed' = landed \cup {acts[i].id : i \in done}
      /\ unseen' = unseen \cup {acts[i].id : i \in lost}
  BY <1>1, <1>2, <1>3, <1>4, <1>5
<1>7. DOMAIN st = DOMAIN acts /\ \A i \in DOMAIN st : st[i] \in {"confirmed", "failed", "skipped"}
  BY <1>2, <1>3
<1>8. \A i \in DOMAIN st : st[i] = "confirmed" => acts[i].id \in landed'
  BY <1>4, <1>6
<1>9. \A id \in landed' \ landed : \E i \in DOMAIN acts : acts[i].id = id /\ st[i] = "confirmed"
  BY <1>4, <1>6, <1>7
<1>10. landed \subseteq landed' /\ unseen \subseteq unseen'
  BY <1>6
<1>11. QED
  BY <1>2, <1>6, <1>7, <1>8, <1>9, <1>10, CallAnswers

LEMMA AnswersKept == ASSUME Control, Sent, Answers, [Next]_vars PROVE Answers'
<1>1. CASE BeginReview \/ BeginUnwind
  <2>1. asked' = <<>> /\ landed' = {} /\ outcomes' = <<>>
    BY <1>1 DEF BeginReview, BeginUnwind, Begin
  <2>2. IdsOf(asked') = {} /\ DOMAIN outcomes' = {}
    BY <2>1, NothingAsked
  <2>3. QED
    BY <2>1, <2>2 DEF Answers
<1>2. CASE AgentGivesUp \/ ConcludeReview \/ WaveThrows \/ EndWave \/ ClaimBatchThrows
  <2>1. UNCHANGED <<outcomes, asked, landed, unseen, troubled>>
    BY <1>2 DEF AgentGivesUp, ConcludeReview, WaveThrows, EndWave, ClaimBatchThrows, End, history
  <2>2. QED
    BY <2>1 DEF Answers
<1>3. CASE PlanReview
  <2>1. kind = "review" /\ stage = "plan" /\ outcomes' = <<>>
        /\ UNCHANGED <<asked, landed, unseen, troubled>>
    BY <1>3 DEF PlanReview, End, history
  <2>2. asked = <<>>
    BY <2>1 DEF Sent
  <2>3. IdsOf(asked) = {} /\ DOMAIN outcomes' = {}
    BY <2>1, <2>2, NothingAsked
  <2>4. landed' = {}
    BY <2>1, <2>3 DEF Answers
  <2>5. QED
    BY <2>1, <2>3, <2>4 DEF Answers
<1>4. CASE PlanWave
  <2>1. asked' = <<>> /\ landed' = {} /\ outcomes' = <<>>
    BY <1>4 DEF PlanWave
  <2>2. IdsOf(asked') = {} /\ DOMAIN outcomes' = {}
    BY <2>1, NothingAsked
  <2>3. QED
    BY <2>1, <2>2 DEF Answers
<1>5. ASSUME Confirm \/ Fail \/ TimeOut
      PROVE  Answers'
  <2>1. PICK x \in {"confirmed", "failed"} :
            /\ queue # <<>> /\ Call.kind = "single" /\ NextCall(<<x>>)
            /\ x = "confirmed" => landed' = landed \cup {Call.acts[1].id}
            /\ x # "confirmed" => landed' = landed
            /\ unseen \subseteq unseen'
    BY <1>5 DEF Confirm, Fail, TimeOut, Lands, NothingLands
  <2>2. Ready(Call, ToSet(plan))
    BY <2>1, CallIs
  <2>3. DOMAIN Call.acts = {1}
    <3>1. PICK s : s = Call.acts
      OBVIOUS
    <3>2. IsSequence(s) /\ Len(s) = 1
      BY <2>1, <2>2, <3>1 DEF Ready
    <3>3. QED
      BY <3>1, <3>2, SequenceIs
  <2>4. DOMAIN <<x>> = {1} /\ <<x>>[1] = x
    OBVIOUS
  <2>5. PICK st : st = <<x>>
    OBVIOUS
  <2>6. /\ NextCall(st) /\ DOMAIN st = DOMAIN Call.acts /\ DOMAIN st = {1} /\ st[1] = x
    BY <2>1, <2>3, <2>4, <2>5
  <2>7. QED
    BY <2>1, <2>3, <2>6, CallAnswers
<1>6. CASE ClaimBatch
  BY <1>6, BatchAnswers
<1>7. CASE Compose
  <2>1. PICK x \in {"confirmed", "failed"} :
            /\ queue # <<>> /\ Call.kind = "compose" /\ NextCall(<<x, x>>)
            /\ x = "confirmed" => landed' = landed \cup IdsOf(Call.acts)
            /\ unseen \subseteq unseen' /\ landed \subseteq landed'
            /\ x # "confirmed" => landed' \subseteq landed \cup (unseen' \cap {Call.acts[2].id})
    BY <1>7 DEF Compose, Lands, NothingLands
  <2>2. Ready(Call, ToSet(plan))
    BY <2>1, CallIs
  <2>3. DOMAIN Call.acts = {1, 2}
    <3>1. PICK s : s = Call.acts
      OBVIOUS
    <3>2. IsSequence(s) /\ Len(s) = 2
      BY <2>1, <2>2, <3>1 DEF Ready
    <3>3. QED
      BY <3>1, <3>2, SequenceIs
  <2>4. PICK st : st = <<x, x>>
    OBVIOUS
  <2>5. /\ NextCall(st) /\ DOMAIN st = {1, 2} /\ st[1] = x /\ st[2] = x
    BY <2>1, <2>4
  <2>6. \A id : id \in IdsOf(Call.acts) <=> id = Call.acts[1].id \/ id = Call.acts[2].id
    BY <2>3 DEF IdsOf
  <2>7. QED
    BY <2>1, <2>3, <2>5, <2>6, CallAnswers
<1>8. CASE LandLate
  <2>1. UNCHANGED <<outcomes, asked, landed, unseen>> /\ (troubled => troubled')
    BY <1>8 DEF LandLate, work
  <2>2. QED
    BY <2>1 DEF Answers
<1>9. CASE UNCHANGED vars
  BY <1>9 DEF vars, work, history, Answers
<1>10. QED
  BY <1>1, <1>2, <1>3, <1>4, <1>5, <1>6, <1>7, <1>8, <1>9 DEF Next

-----------------------------------------------------------------------------
(* What a close may cost.                                                  *)

LEMMA SparesKept ==
    ASSUME [Next]_vars, NEW a, Spares(a)
    PROVE  Spares(a)'
  BY StepShrinks DEF Spares, Shrinks

\* What a call takes out of the queue, and what is still in it.
LEMMA QueueIs ==
    ASSUME Sent, NEW st, NextCall(st)
    PROVE  /\ \A i \in DOMAIN queue' : \E j \in DOMAIN queue : queue'[i] = queue[j]
           /\ \E j \in DOMAIN queue : queue[j] = Call
           /\ \A j \in DOMAIN queue : queue[j] = Call \/ \E i \in DOMAIN queue' : queue'[i] = queue[j]
<1>1. PICK q, A : q = queue /\ A = ToSet(plan)
  OBVIOUS
<1>2. Agenda(q, A) /\ q # <<>>
  BY <1>1 DEF Sent, NextCall
<1>3. Call = Head(q) /\ queue' = Tail(q)
  BY <1>1 DEF NextCall, Call
<1>4. TailIn(q)
  BY ONLY <1>2, AgendaTail
<1>5. HeadOrTail(q)
  BY ONLY <1>2, AgendaTail
<1>6. \E j \in DOMAIN queue : queue[j] = Call
  BY CallIs
<1>7. QED
  BY <1>1, <1>3, <1>4, <1>5, <1>6 DEF HeadOrTail, TailIn

\* The flights that a step begins are of actions that the executor was given.
LEMMA FlightsAre ==
    ASSUME Sent, [Next]_vars
    PROVE  \A f \in flying' \ flying :
                /\ f.by = kind /\ \E j \in DOMAIN queue : f.act \in ToSet(queue[j].acts)
<1>1. CASE TimeOut
  <2>1. /\ flying' = flying \cup {Flight(Call.acts[1])} /\ Call.kind = "single"
        /\ NextCall(<<"failed">>)
    BY <1>1 DEF TimeOut
  <2>2. Ready(Call, ToSet(plan)) /\ \E j \in DOMAIN queue : queue[j] = Call
    BY <2>1, CallIs
  <2>3. Call.acts[1] \in ToSet(Call.acts)
    <3>1. PICK s : s = Call.acts
      OBVIOUS
    <3>2. IsSequence(s) /\ Len(s) = 1
      BY <2>1, <2>2, <3>1 DEF Ready
    <3>3. 1 \in DOMAIN s
      BY <3>2, SequenceIs
    <3>4. QED
      BY <3>1, <3>3 DEF ToSet
  <2>4. /\ Flight(Call.acts[1]).by = kind /\ Flight(Call.acts[1]).act = Call.acts[1]
    BY DEF Flight
  <2>5. QED
    BY <2>1, <2>2, <2>3, <2>4
<1>2. CASE ClaimBatch
  <2>1. PICK S, st : /\ flying' = flying \cup {Flight(Call.acts[i]) : i \in S}
                     /\ S \subseteq DOMAIN Call.acts /\ NextCall(st)
    <3>1. PICK n \in 0..Len(Call.acts), late \in BOOLEAN :
            LET st == [i \in DOMAIN Call.acts |->
                        IF Call.acts[i].id \in Call.skipped THEN "skipped"
                        ELSE IF i <= n THEN "confirmed"
                        ELSE IF i = n + 1 THEN "failed" ELSE "skipped"]
                lost == {i \in DOMAIN st : st[i] = "failed" /\ late}
            IN  /\ NextCall(st)
                /\ flying' = flying \cup {Flight(Call.acts[i]) : i \in lost}
      BY <1>2 DEF ClaimBatch
    <3>2. PICK st : st = [i \in DOMAIN Call.acts |->
                        IF Call.acts[i].id \in Call.skipped THEN "skipped"
                        ELSE IF i <= n THEN "confirmed"
                        ELSE IF i = n + 1 THEN "failed" ELSE "skipped"]
      OBVIOUS
    <3>3. PICK S : S = {i \in DOMAIN st : st[i] = "failed" /\ late}
      OBVIOUS
    <3>4. /\ NextCall(st) /\ flying' = flying \cup {Flight(Call.acts[i]) : i \in S}
      BY <3>1, <3>2, <3>3
    <3>5. S \subseteq DOMAIN Call.acts
      BY <3>2, <3>3
    <3>6. QED
      BY <3>4, <3>5
  <2>2. \E j \in DOMAIN queue : queue[j] = Call
    BY <2>1, CallIs
  <2>3. SUFFICES ASSUME NEW f \in flying' \ flying
                 PROVE  f.by = kind /\ f.act \in ToSet(Call.acts)
    BY <2>2
  <2>4. PICK i \in S : f = Flight(Call.acts[i])
    BY <2>1, <2>3
  <2>5. Call.acts[i] \in ToSet(Call.acts)
    BY <2>1 DEF ToSet
  <2>6. QED
    BY <2>4, <2>5 DEF Flight
<1>3. CASE flying' \subseteq flying
  BY <1>3
<1>4. CASE Confirm \/ Fail \/ Compose
  BY <1>3, <1>4 DEF Confirm, Fail, Compose
<1>5. CASE LandLate
  BY <1>3, <1>5 DEF LandLate
<1>6. CASE BeginReview \/ BeginUnwind
  BY <1>3, <1>6 DEF BeginReview, BeginUnwind, Begin, wallet
<1>7. CASE AgentGivesUp \/ ConcludeReview \/ WaveThrows
  BY <1>3, <1>7 DEF AgentGivesUp, ConcludeReview, WaveThrows, End, wallet
<1>8. CASE PlanReview
  BY <1>3, <1>8 DEF PlanReview, End, wallet
<1>9. CASE PlanWave \/ EndWave \/ ClaimBatchThrows
  BY <1>3, <1>9 DEF PlanWave, EndWave, ClaimBatchThrows, wallet
<1>10. CASE UNCHANGED vars
  BY <1>3, <1>10 DEF vars, wallet
<1>11. QED
  BY <1>1, <1>2, <1>4, <1>5, <1>6, <1>7, <1>8, <1>9, <1>10 DEF Next

\* What a wave drafts takes the rewards and the commitment of a position first.
LEMMA WaveSpares ==
    ASSUME NEW b, NEW actions, NEW opps, NEW s, WaveStep(b, actions, opps, s)
    PROVE  Spares(b)
<1>1. SUFFICES ASSUME b.type = "close", b.key # "uncommit", b.pos \in DOMAIN open
               PROVE  open[b.pos] \cap {"claim", "uncommit"} = {}
  BY DEF Spares
<1>2. PICK q \in s.positions :
            q.id = b.pos /\ Row(q) /\ b.key = NextKey(q.keys) /\ b.key # "claim"
  BY <1>1 DEF WaveStep
<1>3. Null \notin q.keys /\ open[b.pos] \subseteq q.keys
  BY <1>1, <1>2 DEF Row
<1>4. q.keys \cap {"claim", "uncommit"} = {}
  BY <1>1, <1>2, <1>3, NextKeyIs
<1>5. QED
  BY <1>3, <1>4

\* What a wave leaves: the plan, the calls and the verdict follow from what it drafted.
Waved(seen, loaded, opps, drafted, verdict) ==
    /\ Seen(seen) /\ loaded \in Catalogs
    /\ opps = Enrich(loaded, KnownReceipts(seen, loaded))
    /\ drafted = WaveOf(seen, opps)
    /\ IsSequence(opps) /\ Coherent(ToSet(opps))
    /\ IsSequence(plan') /\ Distinct(plan')
    /\ \A b \in ToSet(plan') : WaveStep(b, plan', opps, seen)
    /\ \A a \in ToSet(drafted) : \E b \in ToSet(plan') : Matches(a, b)
    /\ \A b \in ToSet(plan') : \E a \in ToSet(drafted) : Matches(a, b)
    /\ plan' = Normalize(drafted, seen, Waived(opps))
    /\ verdict = IF drafted = <<>> THEN IF wave = 1 THEN "no-op" ELSE "completed"
                 ELSE IF Fingerprint(drafted) = print THEN "stuck"
                 ELSE IF ~Approved(plan', seen, Waived(opps), signing, FALSE)
                 THEN "stuck" ELSE "none"
    /\ snap' = seen /\ catalog' = opps /\ print' = Fingerprint(drafted)
    /\ queue' = IF verdict # "none" THEN <<>> ELSE
                [i \in DOMAIN plan' |->
                    [kind |-> "single", acts |-> <<plan'[i]>>, skipped |-> {}]]
    /\ stage' = (IF verdict # "none" THEN "idle" ELSE "execute") /\ status' = verdict
    /\ asked' = <<>>

\* A wave: what is queued is what it drafted.
LEMMA PlanWaveIs ==
    ASSUME Wallet, PlanWave
    PROVE  \E seen, loaded, opps, drafted, verdict :
                Waved(seen, loaded, opps, drafted, verdict)
<1>0. PICK loaded \in Catalogs, listing \in Listings :
            \E seen \in Views(listing) : snap' = seen /\ Draft(loaded, seen)
  <2> HIDE DEF Draft
  <2>1. QED
    BY DEF PlanWave
<1>1. PICK seen \in Views(listing) : snap' = seen /\ Draft(loaded, seen)
  BY <1>0
<1>10. Seen(seen)
  BY ViewIs
<1>2. PICK opps, drafted, actions, verdict :
        /\ opps = Enrich(loaded, KnownReceipts(seen, loaded))
        /\ drafted = WaveOf(seen, opps)
        /\ actions = Normalize(drafted, seen, Waived(opps))
        /\ verdict = IF drafted = <<>> THEN IF wave = 1 THEN "no-op" ELSE "completed"
                     ELSE IF Fingerprint(drafted) = print THEN "stuck"
                     ELSE IF ~Approved(actions, seen, Waived(opps), signing, FALSE)
                     THEN "stuck" ELSE "none"
  OBVIOUS
<1>3. /\ snap' = seen /\ catalog' = opps /\ plan' = actions
      /\ print' = Fingerprint(drafted)
      /\ queue' = IF verdict # "none" THEN <<>> ELSE
                  [i \in DOMAIN actions |->
                      [kind |-> "single", acts |-> <<actions[i]>>, skipped |-> {}]]
      /\ stage' = (IF verdict # "none" THEN "idle" ELSE "execute")
      /\ status' = verdict
  BY <1>1, <1>2 DEF Draft
<1>4. IsSequence(opps) /\ Coherent(ToSet(opps))
  BY <1>2, EnrichIs
<1>5. /\ IsSequence(actions) /\ Distinct(actions)
      /\ \A b \in ToSet(actions) : b.deps = {} /\ WaveStep(b, actions, opps, seen)
      /\ \A a \in ToSet(drafted) : \E b \in ToSet(actions) : Matches(a, b)
      /\ \A b \in ToSet(actions) : \E a \in ToSet(drafted) : Matches(a, b)
  BY <1>2, <1>4, <1>10, WavePlanIs
<1>6. asked' = <<>>
  BY DEF PlanWave
<1> HIDE DEF Enrich, WaveOf, Normalize, Waived, Fingerprint, Approved, Coherent, IsSequence, Seen
<1>7. Waved(seen, loaded, opps, drafted, verdict)
  BY <1>2, <1>3, <1>4, <1>5, <1>6, <1>10 DEF Waved
<1>8. QED
  BY <1>7

LEMMA SparingKept == ASSUME Control, Sent, Wallet, Sparing, [Next]_vars PROVE Sparing'
<1>1. \A f \in flying' : f.by # "review" => Spares(f.act)'
  <2>1. SUFFICES ASSUME NEW f \in flying', f.by # "review" PROVE Spares(f.act)'
    OBVIOUS
  <2>2. CASE f \in flying
    BY <2>1, <2>2, SparesKept DEF Sparing
  <2>3. CASE f \notin flying
    <3>1. PICK j \in DOMAIN queue : f.by = kind /\ f.act \in ToSet(queue[j].acts)
      BY <2>3, FlightsAre
    <3>2. Spares(f.act)
      BY <2>1, <3>1 DEF Sparing
    <3>3. QED
      BY <3>2, SparesKept
  <2>4. QED
    BY <2>2, <2>3
<1>2. ASSUME kind' # "review", NEW i \in DOMAIN queue', NEW a \in ToSet(queue'[i].acts)
      PROVE  Spares(a)'
  <2>1. CASE PlanWave
    <3>0. PICK seen, loaded, opps, drafted, verdict :
            Waved(seen, loaded, opps, drafted, verdict)
      BY <2>1, PlanWaveIs
    <3>1. /\ \A b \in ToSet(plan') : WaveStep(b, plan', opps, seen)
          /\ queue' = IF verdict # "none" THEN <<>> ELSE
                      [k \in DOMAIN plan' |->
                          [kind |-> "single", acts |-> <<plan'[k]>>, skipped |-> {}]]
      BY <3>0 DEF Waved
    <3>2. verdict = "none"
      BY <1>2, <3>1
    <3>3. i \in DOMAIN plan' /\ queue'[i].acts = <<plan'[i]>>
      BY <1>2, <3>1, <3>2
    <3>4. ToSet(<<plan'[i]>>) = {plan'[i]}
      BY DEF ToSet
    <3>5. a = plan'[i]
      BY <1>2, <3>3, <3>4
    <3>6. a \in ToSet(plan')
      BY <3>3, <3>5 DEF ToSet
    <3>7. Spares(a)
      BY <3>1, <3>6, WaveSpares
    <3>8. QED
      BY <3>7, SparesKept
  <2>2. CASE kind' = kind /\ \E j \in DOMAIN queue : queue'[i] = queue[j]
    BY <1>2, <2>2, SparesKept DEF Sparing
  <2>3. CASE \E st : NextCall(st)
    <3>1. kind' = kind
      BY <2>3 DEF NextCall
    <3>2. QED
      BY <1>2, <2>2, <2>3, <3>1, QueueIs
  <2>4. CASE BeginReview \/ BeginUnwind
    <3>1. stage = "idle" /\ queue' = queue
      BY <2>4 DEF BeginReview, BeginUnwind, Begin
    <3>2. queue' = <<>>
      BY <3>1 DEF Control
    <3>3. QED
      BY <1>2, <3>2
  <2>5. CASE PlanReview
    BY <1>2, <2>5 DEF PlanReview, End
  <2>6. CASE ClaimBatchThrows
    <3>1. queue' = <<>>
      BY <2>6 DEF ClaimBatchThrows
    <3>2. QED
      BY <1>2, <3>1
  <2>7. CASE queue' = queue /\ kind' = kind
    BY <1>2, <2>2, <2>7
  <2>8. CASE AgentGivesUp \/ ConcludeReview \/ WaveThrows \/ EndWave
    BY <2>7, <2>8 DEF AgentGivesUp, ConcludeReview, WaveThrows, EndWave, End
  <2>9. CASE LandLate \/ UNCHANGED vars
    BY <2>7, <2>9 DEF LandLate, vars, work
  <2>10. Confirm \/ Fail \/ TimeOut \/ ClaimBatch \/ Compose => \E st : NextCall(st)
    BY DEF Confirm, Fail, TimeOut, ClaimBatch, Compose
  <2>11. QED
    BY <2>1, <2>3, <2>4, <2>5, <2>6, <2>8, <2>9, <2>10 DEF Next
<1>3. QED
  BY <1>1, <1>2 DEF Sparing

\* A position goes only with a close of its own.
Forfeits(p) ==
    \/ open[p] \cap {"claim", "uncommit"} = {}
    \/ kind = "review" /\ flying' = flying
    \/ \E f \in flying \ flying' : f.by = "review"

LEMMA NothingForfeited ==
    ASSUME Control, Sent, Sparing, [Next]_vars, NEW p \in DOMAIN open \ DOMAIN open'
    PROVE  Forfeits(p)
<1>1. ASSUME NEW a, open' = OpenAfter(a)
      PROVE  p = a.pos /\ a.type = "close" /\ a.key # "uncommit"
  BY <1>1, OpenAfterIs
<1>2. CASE Confirm
  <2>1. /\ open' = OpenAfter(Call.acts[1]) /\ Call.kind = "single" /\ NextCall(<<"confirmed">>)
        /\ flying' = flying
    BY <1>2 DEF Confirm, Lands
  <2>2. CASE kind = "review"
    BY <2>1, <2>2 DEF Forfeits
  <2>3. CASE kind # "review"
    <3>1. Ready(Call, ToSet(plan)) /\ \E j \in DOMAIN queue : queue[j] = Call
      BY <2>1, CallIs
    <3>2. Call.acts[1] \in ToSet(Call.acts)
      <4>1. PICK s : s = Call.acts
        OBVIOUS
      <4>2. IsSequence(s) /\ Len(s) = 1
        BY <2>1, <3>1, <4>1 DEF Ready
      <4>3. 1 \in DOMAIN s
        BY <4>2, SequenceIs
      <4>4. QED
        BY <4>1, <4>3 DEF ToSet
    <3>3. Spares(Call.acts[1])
      BY <2>3, <3>1, <3>2 DEF Sparing
    <3>4. p = Call.acts[1].pos /\ Call.acts[1].type = "close" /\ Call.acts[1].key # "uncommit"
      BY <1>1, <2>1
    <3>5. QED
      BY <3>3, <3>4 DEF Spares, Forfeits
  <2>4. QED
    BY <2>2, <2>3
<1>3. CASE LandLate
  <2>1. PICK f \in flying : flying' = flying \ {f} /\ (open' = open \/ open' = OpenAfter(f.act))
    BY <1>3 DEF LandLate
  <2>2. f \in flying \ flying' /\ open' = OpenAfter(f.act)
    BY <2>1
  <2>3. p = f.act.pos /\ f.act.type = "close" /\ f.act.key # "uncommit"
    BY <1>1, <2>2
  <2>4. CASE f.by = "review"
    BY <2>2, <2>4 DEF Forfeits
  <2>5. CASE f.by # "review"
    <3>1. Spares(f.act)
      BY <2>5 DEF Sparing
    <3>2. QED
      BY <2>3, <3>1 DEF Spares, Forfeits
  <2>6. QED
    BY <2>4, <2>5
<1>4. CASE Compose
  <2>1. open' = open \/ open' = OpenAfter(Call.acts[2])
    BY <1>4 DEF Compose, Lands, NothingLands
  <2>2. Call.kind = "compose" /\ \E st : NextCall(st)
    BY <1>4 DEF Compose
  <2>3. Ready(Call, ToSet(plan))
    BY <2>2, CallIs
  <2>4. Call.acts[2].type = "swap"
    BY <2>2, <2>3 DEF Ready
  <2>5. QED
    BY <1>1, <2>1, <2>4
<1>5. CASE ClaimBatch
  <2>1. DOMAIN open' = DOMAIN open
    BY <1>5 DEF ClaimBatch
  <2>2. QED
    BY <2>1
<1>6. ASSUME UNCHANGED open PROVE FALSE
  BY <1>6
<1>7. CASE Fail \/ TimeOut
  BY <1>6, <1>7 DEF Fail, TimeOut, NothingLands
<1>8. CASE BeginReview \/ BeginUnwind
  BY <1>6, <1>8 DEF BeginReview, BeginUnwind, Begin, wallet
<1>9. CASE AgentGivesUp \/ ConcludeReview \/ WaveThrows
  BY <1>6, <1>9 DEF AgentGivesUp, ConcludeReview, WaveThrows, End, wallet
<1>10. CASE PlanReview
  BY <1>6, <1>10 DEF PlanReview, End, wallet
<1>11. CASE PlanWave \/ EndWave \/ ClaimBatchThrows
  BY <1>6, <1>11 DEF PlanWave, EndWave, ClaimBatchThrows, wallet
<1>12. CASE UNCHANGED vars
  BY <1>6, <1>12 DEF vars, wallet
<1>13. QED
  BY <1>2, <1>3, <1>4, <1>5, <1>7, <1>8, <1>9, <1>10, <1>11, <1>12 DEF Next

-----------------------------------------------------------------------------
(* The progress of an unwind.                                              *)

LEMMA DoneKept ==
    ASSUME [Next]_vars, NEW a, Done(a)
    PROVE  Done(a)'
  BY StepShrinks DEF Done, Shrinks

\* An unwind's calls are of single actions.
LEMMA SingleCalls ==
    ASSUME Sent, kind = "unwind", NEW st, NextCall(st)
    PROVE  /\ Call.kind = "single" /\ ToSet(Call.acts) = {Call.acts[1]}
           /\ Call.acts[1] \in ToSet(plan)
           /\ ToSet(asked') = ToSet(asked) \cup {Call.acts[1]}
<1>1. /\ Ready(Call, ToSet(plan)) /\ \E i \in DOMAIN queue : queue[i] = Call
      /\ ToSet(asked') = ToSet(asked) \cup ToSet(Call.acts)
  BY CallIs
<1>2. Call.kind = "single"
  BY <1>1 DEF Sent
<1>3. PICK s : s = Call.acts
  OBVIOUS
<1>4. IsSequence(s) /\ Len(s) = 1 /\ ToSet(s) \subseteq ToSet(plan)
  BY <1>1, <1>2, <1>3 DEF Ready
<1>5. DOMAIN s = {1}
  BY <1>4, SequenceIs
<1>6. ToSet(s) = {s[1]}
  BY <1>5 DEF ToSet
<1>7. QED
  BY <1>1, <1>2, <1>3, <1>4, <1>6

LEMMA ServedKept ==
    ASSUME Sent, Served, NEW st, NextCall(st)
    PROVE  Served'
<1>1. plan' = plan /\ ToSet(asked') = ToSet(asked) \cup ToSet(Call.acts)
  BY CallIs DEF NextCall
<1>2. SUFFICES ASSUME NEW b \in ToSet(plan)
               PROVE  \/ b \in ToSet(asked')
                      \/ \E i \in DOMAIN queue' : b \in ToSet(queue'[i].acts)
  BY <1>1 DEF Served
<1>3. CASE b \in ToSet(asked)
  BY <1>1, <1>3
<1>4. CASE \E j \in DOMAIN queue : b \in ToSet(queue[j].acts)
  <2>1. PICK j \in DOMAIN queue : b \in ToSet(queue[j].acts)
    BY <1>4
  <2>2. CASE queue[j] = Call
    BY <1>1, <2>1, <2>2
  <2>3. CASE \E i \in DOMAIN queue' : queue'[i] = queue[j]
    BY <2>1, <2>3
  <2>4. QED
    BY <2>2, <2>3, QueueIs
<1>5. QED
  BY <1>3, <1>4 DEF Served

\* What does not touch the wave, or begins it, keeps its shape.
LEMMA ShapedKept == ASSUME Shaped, UNCHANGED <<plan, catalog>> PROVE Shaped'
<1>1. \A b : IsUnstake(b) = IsUnstake(b)'
  BY DEF IsUnstake
<1>2. QED
  BY <1>1 DEF Shaped

LEMMA PrintedKept == ASSUME Printed, UNCHANGED <<plan, print>> PROVE Printed'
  BY DEF Printed

LEMMA AdvancedKept ==
    ASSUME Sent, Shaped, Advanced, kind = "unwind", Confirm \/ Fail \/ TimeOut
    PROVE  Advanced'
<1>1. PICK st : NextCall(st) /\ st \in {<<"confirmed">>, <<"failed">>}
  BY DEF Confirm, Fail, TimeOut
<1>2. PICK a : a = Call.acts[1]
  OBVIOUS
<1>3. a \in ToSet(plan) /\ ToSet(asked') = ToSet(asked) \cup {a}
  BY <1>1, <1>2, SingleCalls
<1>4. plan' = plan
  BY <1>1 DEF NextCall
<1>5. CASE Confirm
  <2>1. /\ troubled' = (troubled \/ "failed" \in ToSet(<<"confirmed">>))
        /\ open' = OpenAfter(a) /\ held' = HeldAfter(a, IsUnstake(a))
    BY <1>2, <1>5 DEF Confirm, NextCall, Lands
  <2>2. SUFFICES ASSUME ~troubled'
                 PROVE  /\ \A b \in ToSet(asked') : b.type # "open" => Done(b)'
                        /\ (\A b \in ToSet(plan) : b.type = "open") =>
                                \A b \in ToSet(asked') : b.from \notin held'
    BY <1>4 DEF Advanced
  <2>3. /\ \A b \in ToSet(asked) : b.type # "open" => Done(b)
        /\ (\A b \in ToSet(plan) : b.type = "open") => \A b \in ToSet(asked) : b.from \notin held
    BY <2>1, <2>2 DEF Advanced
  <2>4. ASSUME NEW b \in ToSet(asked'), b.type # "open"
        PROVE  Done(b)'
    <3>1. CASE b \in ToSet(asked)
      <4>1. Next
        BY <1>5 DEF Next
      <4>2. QED
        BY <2>3, <2>4, <3>1, <4>1, DoneKept
    <3>2. CASE b = a
      <4>1. a.type \in {"claim", "close"}
        BY <1>3, <2>4, <3>2 DEF Shaped
      <4>2. a.pos \in DOMAIN open' /\ a.key \in open'[a.pos] => a.type = "claim" /\ Of(a.pos).sticky
        BY <2>1, <4>1, OpenAfterIs
      <4>3. QED
        BY <3>2, <4>2 DEF Done
    <3>3. QED
      BY <1>3, <3>1, <3>2
  <2>5. ASSUME \A b \in ToSet(plan) : b.type = "open", NEW b \in ToSet(asked')
        PROVE  b.from \notin held'
    <3>1. a.type = "open" /\ IsUnstake(a)
      BY <1>3, <2>5 DEF Shaped
    <3>2. held' = held \ {a.from}
      BY <2>1, <3>1 DEF HeldAfter
    <3>3. QED
      BY <1>3, <2>3, <2>5, <3>2
  <2>6. QED
    BY <2>4, <2>5
<1>6. CASE Fail \/ TimeOut
  <2>1. NextCall(<<"failed">>)
    BY <1>6 DEF Fail, TimeOut
  <2>2. "failed" \in ToSet(<<"failed">>)
    BY DEF ToSet
  <2>3. troubled'
    BY <2>1, <2>2 DEF NextCall
  <2>4. QED
    BY <2>3 DEF Advanced
<1>7. QED
  BY <1>5, <1>6

LEMMA FingerprintIs ==
    ASSUME NEW drafted
    PROVE  /\ \A x \in Fingerprint(drafted) : \E a \in ToSet(drafted) :
                /\ x[1] = a.type /\ x[2] = a.pos /\ x[3] = a.from /\ x[4] = a.key
           /\ \A a \in ToSet(drafted) : \E x \in Fingerprint(drafted) :
                /\ x[1] = a.type /\ x[2] = a.pos /\ x[3] = a.from /\ x[4] = a.key
<1>1. ASSUME NEW a, NEW x, x = <<a.type, a.pos, a.from, a.key, a.amount>>
      PROVE  x[1] = a.type /\ x[2] = a.pos /\ x[3] = a.from /\ x[4] = a.key
  BY <1>1
<1>2. ASSUME NEW x \in Fingerprint(drafted)
      PROVE  \E a \in ToSet(drafted) :
                /\ x[1] = a.type /\ x[2] = a.pos /\ x[3] = a.from /\ x[4] = a.key
  <2>1. PICK a \in ToSet(drafted) : x = <<a.type, a.pos, a.from, a.key, a.amount>>
    BY <1>2 DEF Fingerprint
  <2>2. QED
    BY <1>1, <2>1
<1>3. ASSUME NEW a \in ToSet(drafted)
      PROVE  \E x \in Fingerprint(drafted) :
                /\ x[1] = a.type /\ x[2] = a.pos /\ x[3] = a.from /\ x[4] = a.key
  <2>1. PICK x : x = <<a.type, a.pos, a.from, a.key, a.amount>>
    OBVIOUS
  <2>2. x \in Fingerprint(drafted)
    BY <2>1 DEF Fingerprint
  <2>3. QED
    BY <1>1, <2>1, <2>2
<1>4. QED
  BY <1>2, <1>3

LEMMA WaveProgress == ASSUME Wallet, PlanWave, stage' # "idle" PROVE Progress'
<1>0. PICK seen, loaded, opps, drafted, verdict :
        Waved(seen, loaded, opps, drafted, verdict)
  BY PlanWaveIs
<1>1. /\ \A b \in ToSet(plan') : WaveStep(b, plan', opps, seen)
      /\ \A a \in ToSet(drafted) : \E b \in ToSet(plan') : Matches(a, b)
      /\ \A b \in ToSet(plan') : \E a \in ToSet(drafted) : Matches(a, b)
      /\ catalog' = opps /\ print' = Fingerprint(drafted)
      /\ queue' = IF verdict # "none" THEN <<>> ELSE
                  [k \in DOMAIN plan' |->
                      [kind |-> "single", acts |-> <<plan'[k]>>, skipped |-> {}]]
      /\ stage' = (IF verdict # "none" THEN "idle" ELSE "execute")
      /\ asked' = <<>>
  BY <1>0 DEF Waved
<1>2. verdict = "none"
  BY <1>1
<1>3. Served'
  <2>1. SUFFICES ASSUME NEW b \in ToSet(plan')
                 PROVE  \E i \in DOMAIN queue' : b \in ToSet(queue'[i].acts)
    BY DEF Served
  <2>2. PICK i \in DOMAIN plan' : b = plan'[i]
    BY <2>1 DEF ToSet
  <2>3. i \in DOMAIN queue' /\ queue'[i].acts = <<plan'[i]>>
    BY <1>1, <1>2
  <2>4. ToSet(<<b>>) = {b}
    BY DEF ToSet
  <2>5. QED
    BY <2>2, <2>3, <2>4
<1>4. Shaped'
  <2>1. SUFFICES ASSUME NEW b \in ToSet(plan')
                 PROVE  IF b.type = "open" THEN IsUnstake(b)' ELSE b.type \in {"claim", "close"}
    BY DEF Shaped
  <2>2. WaveStep(b, plan', opps, seen)
    BY <1>1, <2>1
  <2>3. CASE b.type = "open"
    <3>1. \E s \in ShapeOf(b, ToSet(opps)) : Redeems(s)
      BY <2>2, <2>3 DEF WaveStep
    <3>2. QED
      BY <1>1, <2>3, <3>1 DEF IsUnstake
  <2>4. CASE b.type # "open"
    BY <2>2, <2>4 DEF WaveStep
  <2>5. QED
    BY <2>3, <2>4
<1>5. Printed'
  <2>1. ASSUME NEW b \in ToSet(plan') PROVE \E x \in print' : Drafted(x, b)
    <3>1. PICK a \in ToSet(drafted) : Matches(a, b)
      BY <1>1, <2>1
    <3>2. PICK x \in Fingerprint(drafted) :
            x[1] = a.type /\ x[2] = a.pos /\ x[3] = a.from /\ x[4] = a.key
      BY <3>1, FingerprintIs
    <3>3. QED
      BY <1>1, <3>1, <3>2 DEF Matches, Drafted
  <2>2. ASSUME NEW x \in print' PROVE \E b \in ToSet(plan') : Drafted(x, b)
    <3>1. PICK a \in ToSet(drafted) :
            x[1] = a.type /\ x[2] = a.pos /\ x[3] = a.from /\ x[4] = a.key
      BY <1>1, <2>2, FingerprintIs
    <3>2. PICK b \in ToSet(plan') : Matches(a, b)
      BY <1>1, <3>1
    <3>3. QED
      BY <3>1, <3>2 DEF Matches, Drafted
  <2>3. QED
    BY <2>1, <2>2 DEF Printed
<1>6. Advanced'
  <2>1. ToSet(asked') = {}
    BY <1>1, NothingAsked
  <2>2. QED
    BY <2>1 DEF Advanced
<1>7. QED
  BY <1>3, <1>4, <1>5, <1>6 DEF Progress

LEMMA ProgressKept == ASSUME Control, Sent, Wallet, Progress, [Next]_vars PROVE Progress'
<1>1. SUFFICES ASSUME kind' = "unwind", stage' # "idle"
               PROVE  Served' /\ Shaped' /\ Printed' /\ Advanced'
  BY DEF Progress
<1>2. CASE BeginUnwind
  <2>1. plan' = <<>> /\ asked' = <<>> /\ print' = {}
    BY <1>2 DEF BeginUnwind, Begin
  <2>2. ToSet(plan') = {} /\ ToSet(asked') = {}
    BY <2>1, NothingAsked
  <2>3. QED
    BY <2>1, <2>2 DEF Served, Shaped, Printed, Advanced
<1>3. CASE PlanWave
  <2>1. Progress'
    BY <1>1, <1>3, WaveProgress
  <2>2. QED
    BY <1>1, <2>1 DEF Progress
<1>4. CASE Confirm \/ Fail \/ TimeOut
  <2>1. PICK st : NextCall(st)
    BY <1>4 DEF Confirm, Fail, TimeOut
  <2>2. kind = "unwind" /\ stage = "execute" /\ UNCHANGED <<plan, catalog, print>>
    BY <1>1, <2>1 DEF NextCall
  <2>3. Served /\ Shaped /\ Printed /\ Advanced
    BY <2>2 DEF Progress
  <2>4. QED
    BY <1>4, <2>1, <2>2, <2>3, ServedKept, ShapedKept, PrintedKept, AdvancedKept
<1>5. CASE ClaimBatch \/ Compose
  <2>1. PICK st : NextCall(st)
    BY <1>5 DEF ClaimBatch, Compose
  <2>2. kind = "unwind"
    BY <1>1, <2>1 DEF NextCall
  <2>3. Call.kind = "single"
    BY <2>1, <2>2, SingleCalls
  <2>4. QED
    BY <1>5, <2>3 DEF ClaimBatch, Compose
<1>6. CASE EndWave \/ LandLate \/ UNCHANGED vars
  <2>1. /\ kind' = kind /\ stage # "idle"
        /\ UNCHANGED <<plan, catalog, print, queue, asked>>
    BY <1>1, <1>6 DEF EndWave, LandLate, vars, work, history
  <2>2. Served /\ Shaped /\ Printed /\ Advanced
    BY <1>1, <2>1 DEF Progress
  <2>3. troubled' \/ (~troubled' /\ ~troubled /\ open' = open /\ held' = held)
                  \/ (troubled /\ troubled')
    <3>1. CASE EndWave \/ UNCHANGED vars
      <4>1. troubled' = troubled /\ open' = open /\ held' = held
        BY <3>1 DEF EndWave, vars, wallet, history
      <4>2. QED
        BY <4>1
    <3>2. CASE LandLate
      BY <3>2, Zenon DEF LandLate
    <3>3. QED
      BY <1>6, <3>1, <3>2
  <2>4. Served'
    BY <2>1, <2>2 DEF Served
  <2>5. Advanced'
    <3>1. SUFFICES ASSUME ~troubled' PROVE Advanced'
      BY DEF Advanced
    <3>2. ~troubled /\ open' = open /\ held' = held
      BY <2>3, <3>1
    <3>3. \A b : Done(b)' <=> Done(b)
      BY <3>2 DEF Done
    <3>4. QED
      BY <2>1, <2>2, <3>2, <3>3 DEF Advanced
  <2>6. QED
    BY <2>1, <2>2, <2>4, <2>5, ShapedKept, PrintedKept
<1>7. CASE BeginReview
  <2>1. kind' = "review"
    BY <1>7 DEF BeginReview, Begin
  <2>2. QED
    BY <1>1, <2>1
<1>8. CASE AgentGivesUp \/ ConcludeReview \/ WaveThrows \/ ClaimBatchThrows
  <2>1. stage' = "idle"
    BY <1>8 DEF AgentGivesUp, ConcludeReview, WaveThrows, ClaimBatchThrows, End
  <2>2. QED
    BY <1>1, <2>1
<1>9. CASE PlanReview
  <2>1. kind' = "review"
    BY <1>9 DEF PlanReview, End
  <2>2. QED
    BY <1>1, <2>1
<1>10. QED
  BY <1>2, <1>3, <1>4, <1>5, <1>6, <1>7, <1>8, <1>9 DEF Next

-----------------------------------------------------------------------------
(* The causes of a standstill.                                             *)

\* A fingerprint that repeats: a claim came back, the snapshot shows what is no
\* longer there, or the wave only redeemed, and what it redeemed is gone.
LEMMA RepeatHasCause ==
    ASSUME Control, Progress, kind = "unwind", stage = "plan", ~troubled,
           NEW seen, NEW opps, NEW drafted, drafted # <<>>, IsSequence(drafted),
           Fingerprint(drafted) = print, NEW actions,
           \A b \in ToSet(actions) : WaveStep(b, actions, opps, seen),
           \A a \in ToSet(drafted) : \E b \in ToSet(actions) : Matches(a, b)
    PROVE  \/ \E p \in DOMAIN open : Of(p).sticky /\ "claim" \in open[p]
           \/ \E q \in seen.positions : q.id \notin DOMAIN open \/ q.keys # open[q.id]
<1>1. Served /\ Shaped /\ Printed /\ Advanced /\ queue = <<>>
  BY DEF Progress, Control
<1>2. \A b \in ToSet(plan) : b \in ToSet(asked)
  <2>1. DOMAIN queue = {}
    BY <1>1
  <2>2. QED
    BY <1>1, <2>1 DEF Served
<1>3. ASSUME NEW a \in ToSet(drafted)
      PROVE  \E x \in print, b \in ToSet(plan), c \in ToSet(actions) :
                /\ x[1] = a.type /\ x[2] = a.pos /\ x[3] = a.from /\ x[4] = a.key
                /\ Drafted(x, b) /\ Matches(a, c) /\ WaveStep(c, actions, opps, seen)
  <2>1. PICK x \in print :
            x[1] = a.type /\ x[2] = a.pos /\ x[3] = a.from /\ x[4] = a.key
    BY FingerprintIs
  <2>2. PICK b \in ToSet(plan) : Drafted(x, b)
    BY <1>1 DEF Printed
  <2>3. PICK c \in ToSet(actions) : Matches(a, c) /\ WaveStep(c, actions, opps, seen)
    OBVIOUS
  <2>4. QED
    BY <2>1, <2>2, <2>3
<1>4. CASE \E a \in ToSet(drafted) : a.type # "open"
  <2>1. PICK a \in ToSet(drafted) : a.type # "open"
    BY <1>4
  <2>2. PICK x \in print, b \in ToSet(plan), c \in ToSet(actions) :
            /\ x[1] = a.type /\ x[2] = a.pos /\ x[3] = a.from /\ x[4] = a.key
            /\ Drafted(x, b) /\ Matches(a, c) /\ WaveStep(c, actions, opps, seen)
    BY <1>3
  <2>3. b.type = c.type /\ b.pos = c.pos /\ b.key = c.key /\ c.type # "open"
    BY <2>1, <2>2 DEF Drafted, Matches
  <2>4. Done(b)
    BY <1>1, <1>2, <2>3 DEF Advanced
  <2>5. PICK q \in seen.positions : q.id = c.pos /\ c.key \in q.keys
    BY <2>2, <2>3 DEF WaveStep
  <2>6. CASE q.id \notin DOMAIN open \/ q.keys # open[q.id]
    BY <2>6
  <2>7. CASE q.id \in DOMAIN open /\ q.keys = open[q.id]
    <3>1. c.pos \in DOMAIN open /\ c.key \in open[c.pos]
      BY <2>5, <2>7
    <3>2. c.type = IF c.key = "claim" THEN "claim" ELSE "close"
      BY <2>2, <2>3 DEF WaveStep
    <3>3. c.type = "claim" /\ Of(c.pos).sticky
      BY <2>3, <2>4, <3>1 DEF Done
    <3>4. c.key = "claim"
      BY <3>2, <3>3
    <3>5. QED
      BY <3>1, <3>3, <3>4
  <2>8. QED
    BY <2>6, <2>7
<1>5. CASE \A a \in ToSet(drafted) : a.type = "open"
  <2>1. \A b \in ToSet(plan) : b.type = "open"
    <3>1. SUFFICES ASSUME NEW b \in ToSet(plan) PROVE b.type = "open"
      OBVIOUS
    <3>2. PICK x \in print : Drafted(x, b)
      BY <1>1 DEF Printed
    <3>3. PICK a \in ToSet(drafted) : x[1] = a.type
      BY FingerprintIs
    <3>4. QED
      BY <1>5, <3>2, <3>3 DEF Drafted
  <2>2. \A b \in ToSet(asked) : b.from \notin held
    BY <1>1, <2>1 DEF Advanced
  <2>3. PICK a \in ToSet(drafted) : TRUE
    BY TailIs, SequenceIs
  <2>4. PICK x \in print, b \in ToSet(plan), c \in ToSet(actions) :
            /\ x[1] = a.type /\ x[2] = a.pos /\ x[3] = a.from /\ x[4] = a.key
            /\ Drafted(x, b) /\ Matches(a, c) /\ WaveStep(c, actions, opps, seen)
    BY <1>3
  <2>5. b.type = "open" /\ b.from = a.from /\ c.from = a.from /\ c.type = "open"
    BY <1>5, <2>1, <2>4 DEF Drafted, Matches
  <2>6. c.from \in held
    BY <2>4, <2>5 DEF WaveStep
  <2>7. QED
    BY <1>2, <2>2, <2>5, <2>6
<1>6. QED
  BY <1>4, <1>5

\* A wave is only rejected for what it redeems.
LEMMA RejectionHasCause ==
    ASSUME NEW seen, NEW opps, NEW actions, IsSequence(actions), Distinct(actions),
           \A b \in ToSet(actions) : WaveStep(b, actions, opps, seen),
           ~Approved(actions, seen, Waived(opps), signing, FALSE)
    PROVE  \E a \in ToSet(actions) :
                a.type = "open" /\ ActionFaults(a, actions, seen, Waived(opps)) # {}
<1> DEFINE Others == UNION {{<<actions[i].id, r>> : r \in
                ActionFaults(actions[i], actions, seen, Waived(opps))} : i \in DOMAIN actions}
           Duplicates == {<<actions[i].id, "duplicate">> : i \in {j \in DOMAIN actions :
                            \E k \in 1..(j - 1) : actions[k].id = actions[j].id}}
           Missing == {<<Null, "incomplete">> : x \in {y \in {FALSE} : y
            /\ ~seen.complete /\ \E i \in DOMAIN actions : actions[i].type # "hold"}}
<1>1. Violations(actions, seen, Waived(opps), FALSE) = Others \cup Duplicates \cup Missing
  BY Zenon DEF Violations
<1>2. Violations(actions, seen, Waived(opps), FALSE) # {}
  BY DEF Approved
<1>3. Missing = {}
  OBVIOUS
<1>4. Duplicates = {}
  <2>1. PICK n \in Nat : DOMAIN actions = 1..n
    BY SequenceIs
  <2>2. SUFFICES ASSUME NEW j \in 1..n, NEW k \in 1..(j - 1), actions[k].id = actions[j].id
                 PROVE  FALSE
    BY <2>1
  <2>3. k \in 1..n /\ k # j
    OBVIOUS
  <2>4. QED
    BY <2>1, <2>2, <2>3 DEF Distinct
<1>5. PICK v : v \in Others
  <2> HIDE DEF Others, Duplicates, Missing
  <2>1. QED
    BY <1>1, <1>2, <1>3, <1>4
<1>6. PICK i \in DOMAIN actions :
        v \in {<<actions[i].id, r>> : r \in
                ActionFaults(actions[i], actions, seen, Waived(opps))}
  BY <1>5
<1>7. ActionFaults(actions[i], actions, seen, Waived(opps)) # {}
  BY <1>6
<1>8. actions[i] \in ToSet(actions)
  BY DEF ToSet
<1>9. actions[i].type = "open"
  BY <1>7, <1>8 DEF WaveStep
<1>10. QED
  BY <1>7, <1>8, <1>9

LEMMA StuckKept ==
    ASSUME Control, Sent, Wallet, Answers, Progress, StuckHasCause, [Next]_vars
    PROVE  StuckHasCause'
<1>1. SUFFICES ASSUME kind' = "unwind", stage' = "idle", status' = "stuck"
               PROVE  \/ troubled' \/ Stale'
                      \/ \E p \in DOMAIN open' : Of(p).sticky /\ "claim" \in open'[p]
                      \/ \E a \in ToSet(plan') : a.type = "open" /\
                            ActionFaults(a, plan', snap', Waived(catalog')) # {}
  BY DEF StuckHasCause
<1>2. CASE PlanWave
  <2>0. PICK seen, loaded, opps, drafted, verdict :
            Waved(seen, loaded, opps, drafted, verdict)
    BY <1>2, PlanWaveIs
  <2>1. /\ loaded \in Catalogs /\ Seen(seen)
        /\ drafted = WaveOf(seen, opps)
        /\ IsSequence(opps) /\ Coherent(ToSet(opps))
        /\ IsSequence(plan') /\ Distinct(plan')
        /\ \A b \in ToSet(plan') : WaveStep(b, plan', opps, seen)
        /\ \A a \in ToSet(drafted) : \E b \in ToSet(plan') : Matches(a, b)
        /\ verdict = IF drafted = <<>> THEN IF wave = 1 THEN "no-op" ELSE "completed"
                     ELSE IF Fingerprint(drafted) = print THEN "stuck"
                     ELSE IF ~Approved(plan', seen, Waived(opps), signing, FALSE)
                     THEN "stuck" ELSE "none"
        /\ snap' = seen /\ catalog' = opps /\ status' = verdict
    BY <2>0 DEF Waved
  <2>2. /\ kind = "unwind" /\ stage = "plan" /\ troubled' = troubled /\ open' = open
    BY <1>2 DEF PlanWave
  <2>3. drafted # <<>>
    BY <1>1, <2>1
  <2>4. IsSequence(drafted)
    BY <2>1, DraftIs
  <2>5. PICK actions : actions = plan'
    OBVIOUS
  <2>6. CASE Fingerprint(drafted) = print
    <3>1. CASE troubled
      BY <2>2, <3>1
    <3>2. CASE ~troubled
      <4>1. \/ \E p \in DOMAIN open : Of(p).sticky /\ "claim" \in open[p]
            \/ \E q \in seen.positions : q.id \notin DOMAIN open \/ q.keys # open[q.id]
        BY <2>1, <2>2, <2>3, <2>4, <2>5, <2>6, <3>2, RepeatHasCause
      <4>2. QED
        BY <2>1, <2>2, <4>1 DEF Stale
    <3>3. QED
      BY <3>1, <3>2
  <2>7. CASE Fingerprint(drafted) # print
    <3>1. ~Approved(actions, seen, Waived(opps), signing, FALSE)
      BY <1>1, <2>1, <2>3, <2>5, <2>7
    <3>2. \E a \in ToSet(actions) :
                a.type = "open" /\ ActionFaults(a, actions, seen, Waived(opps)) # {}
      BY <2>1, <2>5, <3>1, RejectionHasCause
    <3>3. QED
      BY <2>1, <2>5, <3>2
  <2>8. QED
    BY <2>6, <2>7
<1>3. CASE EndWave
  <2>1. /\ "failed" \in {outcomes[id] : id \in DOMAIN outcomes} /\ troubled' = troubled
    BY <1>1, <1>3 DEF EndWave, history
  <2>2. PICK id \in DOMAIN outcomes : outcomes[id] = "failed"
    BY <2>1
  <2>3. QED
    BY <2>1, <2>2 DEF Answers
<1>4. CASE LandLate
  <2>1. CASE troubled'
    BY <2>1
  <2>2. CASE ~troubled'
    <3>1. open' = open /\ troubled' = troubled
      BY <1>4, <2>2 DEF LandLate
    <3>2. UNCHANGED <<kind, stage, status, plan, snap, catalog>>
      BY <1>4 DEF LandLate, work
    <3>3. QED
      BY <1>1, <3>1, <3>2 DEF StuckHasCause, Stale
  <2>3. QED
    BY <2>1, <2>2
<1>5. CASE UNCHANGED vars
  BY <1>1, <1>5 DEF vars, work, wallet, history, StuckHasCause, Stale
<1>6. CASE \E st : NextCall(st)
  <2>1. stage' = "execute"
    BY <1>6 DEF NextCall
  <2>2. QED
    BY <1>1, <2>1
<1>7. CASE BeginReview \/ BeginUnwind
  <2>1. stage' = "plan"
    BY <1>7 DEF BeginReview, BeginUnwind, Begin
  <2>2. QED
    BY <1>1, <2>1
<1>8. CASE AgentGivesUp \/ ConcludeReview \/ PlanReview
  <2>1. kind' = "review"
    BY <1>8 DEF AgentGivesUp, ConcludeReview, PlanReview, End
  <2>2. QED
    BY <1>1, <2>1
<1>9. CASE WaveThrows \/ ClaimBatchThrows
  <2>1. status' = "failed"
    BY <1>9 DEF WaveThrows, ClaimBatchThrows, End
  <2>2. QED
    BY <1>1, <2>1
<1>10. Confirm \/ Fail \/ TimeOut \/ ClaimBatch \/ Compose => \E st : NextCall(st)
  BY DEF Confirm, Fail, TimeOut, ClaimBatch, Compose
<1>11. QED
  BY <1>2, <1>3, <1>4, <1>5, <1>6, <1>7, <1>8, <1>9, <1>10 DEF Next

-----------------------------------------------------------------------------
(* A wallet called flat.                                                   *)

LEMMA FlatKept == ASSUME Control, Wallet, Flat, [Next]_vars PROVE Flat'
<1>1. SUFFICES ASSUME kind' = "unwind", stage' = "idle", status' \in {"completed", "no-op"}
               PROVE  /\ \A p \in DOMAIN open' : Closable(p)' =>
                            ~snap'.complete /\ \A q \in snap'.positions : q.id # p
                      /\ XAlgo \notin snap'.held
                      /\ \A o \in ToSet(catalog') : o.family = "myth" =>
                            o.receipt \notin snap'.held \ Cash
  BY DEF Flat
<1>2. CASE PlanWave
  <2>0. PICK seen, loaded, opps, drafted, verdict :
            Waved(seen, loaded, opps, drafted, verdict)
    BY <1>2, PlanWaveIs
  <2>1. /\ Seen(seen) /\ loaded \in Catalogs
        /\ opps = Enrich(loaded, KnownReceipts(seen, loaded))
        /\ drafted = WaveOf(seen, opps)
        /\ verdict = IF drafted = <<>> THEN IF wave = 1 THEN "no-op" ELSE "completed"
                     ELSE IF Fingerprint(drafted) = print THEN "stuck"
                     ELSE IF ~Approved(plan', seen, Waived(opps), signing, FALSE)
                     THEN "stuck" ELSE "none"
        /\ snap' = seen /\ catalog' = opps /\ status' = verdict
    BY <2>0 DEF Waved
  <2>2. drafted = <<>>
    BY <1>1, <2>1
  <2>3. open' = open /\ snap'.held = held
    BY <1>2, <2>1 DEF PlanWave, Seen
  <2>4. /\ \A p \in DOMAIN open : Closable(p) =>
            ~seen.complete /\ \A q \in seen.positions : q.id # p
        /\ XAlgo \notin held
        /\ \A o \in ToSet(opps) : o.family = "myth" => o.receipt \notin held \ Cash
    BY <2>1, <2>2, FlatIs
  <2>5. \A p : Closable(p)' <=> Closable(p)
    BY <2>3 DEF Closable
  <2>6. QED
    BY <2>1, <2>3, <2>4, <2>5
<1>3. CASE LandLate \/ UNCHANGED vars
  <2>1. UNCHANGED <<kind, stage, status, snap, catalog>>
    BY <1>3 DEF LandLate, vars, work
  <2>2. Shrinks(open')
    BY StepShrinks
  <2>3. \A p \in DOMAIN open' : p \in DOMAIN open /\ (Closable(p)' => Closable(p))
    BY <2>2 DEF Closable, Shrinks
  <2>4. QED
    BY <1>1, <2>1, <2>3 DEF Flat
<1>4. CASE EndWave
  <2>1. status' \in {"stuck", "max-waves", "none"}
    BY <1>4 DEF EndWave
  <2>2. QED
    BY <1>1, <2>1
<1>5. CASE \E st : NextCall(st)
  <2>1. stage' = "execute"
    BY <1>5 DEF NextCall
  <2>2. QED
    BY <1>1, <2>1
<1>6. CASE BeginReview \/ BeginUnwind
  <2>1. stage' = "plan"
    BY <1>6 DEF BeginReview, BeginUnwind, Begin
  <2>2. QED
    BY <1>1, <2>1
<1>7. CASE AgentGivesUp \/ ConcludeReview \/ PlanReview
  <2>1. kind' = "review"
    BY <1>7 DEF AgentGivesUp, ConcludeReview, PlanReview, End
  <2>2. QED
    BY <1>1, <2>1
<1>8. CASE WaveThrows \/ ClaimBatchThrows
  <2>1. status' = "failed"
    BY <1>8 DEF WaveThrows, ClaimBatchThrows, End
  <2>2. QED
    BY <1>1, <2>1
<1>9. Confirm \/ Fail \/ TimeOut \/ ClaimBatch \/ Compose => \E st : NextCall(st)
  BY DEF Confirm, Fail, TimeOut, ClaimBatch, Compose
<1>10. QED
  BY <1>2, <1>3, <1>4, <1>5, <1>6, <1>7, <1>8, <1>9 DEF Next

-----------------------------------------------------------------------------
(* The status of a review.                                                 *)

LEMMA NothingLanded == ASSUME Answers, asked = <<>> PROVE landed = {}
  BY NothingAsked DEF Answers

LEMMA SomeCounted ==
    ASSUME NEW n \in Nat, NEW S, S \subseteq 1..n
    PROVE  Cardinality(S) \in Nat /\ (Cardinality(S) > 0 <=> S # {})
<1>1. IsFiniteSet(S)
  <2>1. 1 \in Int /\ n \in Int
    OBVIOUS
  <2>2. IsFiniteSet(1..n)
    BY <2>1, FS_Interval
  <2>3. QED
    BY <2>2, FS_Subset
<1>2. QED
  BY <1>1, FS_CardinalityType, FS_EmptySet

\* A review that traded: how the status follows from the answers.
LEMMA TradedStatus ==
    ASSUME Sent, Answers, trading, NEW st, st = Status(plan, TRUE, Executions(plan), TRUE)
    PROVE  /\ st = "confirmed" =>
                \A i \in DOMAIN plan : plan[i].type # "hold" => plan[i].id \in landed
           /\ st \notin {"confirmed", "partially-executed"} => landed \subseteq unseen
<1>1. PICK order : order = Ordered(plan)
  OBVIOUS
<1>2. PICK n \in Nat : /\ n = Len(plan) /\ DOMAIN plan = 1..n /\ DOMAIN order = 1..n
                       /\ ToSet(order) = ToSet(plan)
  <2>1. IsSequence(plan)
    BY DEF Sent
  <2>2. PICK p : p = plan
    OBVIOUS
  <2>3. IsSequence(order) /\ Len(order) = Len(p) /\ ToSet(order) = ToSet(p)
    BY <1>1, <2>1, <2>2, OrderedKeeps
  <2>4. QED
    BY <2>1, <2>2, <2>3, SequenceIs
<1>3. PICK execs : execs = [k \in 1..n |->
            [act |-> order[k].id,
             status |-> IF order[k].type = "hold" THEN "skipped"
                        ELSE IF order[k].id \in DOMAIN outcomes
                        THEN outcomes[order[k].id] ELSE "skipped"]]
  OBVIOUS
<1>4. execs = Executions(plan) /\ DOMAIN execs = 1..n
  BY <1>1, <1>2, <1>3 DEF Executions
<1>5. PICK C, F, P : /\ C = {k \in 1..n : execs[k].status \in {"confirmed"}}
                     /\ F = {k \in 1..n : execs[k].status \in {"failed", "skipped"}}
                     /\ P = {i \in 1..n : plan[i].type # "hold"}
  OBVIOUS
<1>6. st = IF P = {} THEN "no-op"
           ELSE IF Cardinality(C) > 0 /\ Cardinality(F) > 0 THEN "partially-executed"
           ELSE IF Cardinality(C) = Cardinality(P) THEN "confirmed" ELSE "failed"
  BY <1>2, <1>4, <1>5 DEF Status
<1>7. /\ Cardinality(C) \in Nat /\ (Cardinality(C) > 0 <=> C # {})
      /\ Cardinality(F) \in Nat /\ (Cardinality(F) > 0 <=> F # {})
      /\ Cardinality(P) \in Nat /\ (Cardinality(P) > 0 <=> P # {})
  BY <1>5, SomeCounted
<1>8. \A k \in 1..n : execs[k].status = IF order[k].type = "hold" THEN "skipped"
                        ELSE IF order[k].id \in DOMAIN outcomes
                        THEN outcomes[order[k].id] ELSE "skipped"
  BY <1>3
<1>9. \A k \in 1..n : k \in C \/ k \in F
  BY <1>5, <1>8 DEF Answers
<1>10. \A k \in C : order[k].type # "hold" /\ order[k].id \in landed
  BY <1>5, <1>8 DEF Answers
<1>11. \A i \in 1..n : \E k \in 1..n : order[k] = plan[i]
  BY <1>2 DEF ToSet
<1>12. \A k \in 1..n : \E i \in 1..n : order[k] = plan[i]
  BY <1>2 DEF ToSet
<1>13. ASSUME st = "confirmed", NEW i \in 1..n
       PROVE  plan[i].id \in landed
  <2>1. F = {}
    BY <1>6, <1>7, <1>13
  <2>2. PICK k \in 1..n : order[k] = plan[i]
    BY <1>11
  <2>3. k \in C
    BY <1>9, <2>1
  <2>4. QED
    BY <1>10, <2>2, <2>3
<1>14. ASSUME st \notin {"confirmed", "partially-executed"}, NEW id \in landed, id \notin unseen
       PROVE  FALSE
  <2>1. outcomes[id] = "confirmed" /\ id \in DOMAIN outcomes /\ id \in IdsOf(asked)
    BY <1>14 DEF Answers
  <2>2. PICK a \in ToSet(asked) : a.id = id
    BY <2>1, IdsAre DEF Sent
  <2>3. a \in ToSet(order) /\ a.type # "hold"
    BY <1>2, <2>2 DEF Sent
  <2>4. PICK k \in 1..n : order[k] = a
    BY <1>2, <2>3 DEF ToSet
  <2>5. k \in C
    BY <1>5, <1>8, <2>1, <2>2, <2>3, <2>4
  <2>6. PICK i \in 1..n : plan[i] = a
    BY <1>12, <2>4
  <2>7. i \in P
    BY <1>5, <2>3, <2>6
  <2>8. F = {}
    BY <1>6, <1>7, <1>14, <2>5, <2>7
  <2>9. C = 1..n
    BY <1>5, <1>9, <2>8
  <2>10. P = 1..n
    <3>1. SUFFICES ASSUME NEW j \in 1..n PROVE plan[j].type # "hold"
      BY <1>5
    <3>2. PICK l \in 1..n : order[l] = plan[j]
      BY <1>11
    <3>3. QED
      BY <1>10, <2>9, <3>2
  <2>11. QED
    BY <1>6, <1>14, <2>7, <2>9, <2>10
<1>15. QED
  BY <1>2, <1>13, <1>14

LEMMA TruthKept ==
    ASSUME Control, Sent, Answers, StatusTellsTruth, [Next]_vars
    PROVE  StatusTellsTruth'
<1>1. SUFFICES ASSUME kind' = "review", stage' = "idle"
               PROVE  /\ status' = "confirmed" => \A i \in DOMAIN plan' :
                            plan'[i].type # "hold" => plan'[i].id \in landed'
                      /\ status' \notin {"confirmed", "partially-executed"} =>
                            landed' \subseteq unseen'
  BY DEF StatusTellsTruth
<1>2. CASE ConcludeReview
  <2>1. PICK approved : approved = Approved(plan, snap, ToSet(catalog), signing, TRUE)
    OBVIOUS
  <2>2. /\ status' = Status(plan, approved, IF approved THEN Executions(plan) ELSE <<>>, trading)
        /\ UNCHANGED <<plan, landed, unseen>> /\ kind = "review"
    BY <1>2, <2>1 DEF ConcludeReview, End, history
  <2>3. CASE ~approved
    <3>1. status' \in {"no-op", "planned"}
      BY <2>2, <2>3 DEF Status
    <3>2. asked = <<>>
      BY <2>1, <2>2, <2>3 DEF Sent
    <3>3. QED
      BY <2>2, <3>1, <3>2, NothingLanded
  <2>4. CASE ~trading
    <3>1. status' \in {"no-op", "planned", "validated-dry-run"}
      BY <2>2, <2>4 DEF Status
    <3>2. asked = <<>>
      BY <2>2, <2>4 DEF Sent
    <3>3. QED
      BY <2>2, <3>1, <3>2, NothingLanded
  <2>5. CASE approved /\ trading
    <3>1. PICK st : st = status'
      OBVIOUS
    <3>2. st = Status(plan, TRUE, Executions(plan), TRUE)
      BY <2>2, <2>5, <3>1 DEF Status
    <3>3. QED
      BY <2>2, <2>5, <3>1, <3>2, TradedStatus
  <2>6. QED
    BY <2>3, <2>4, <2>5
<1>3. CASE AgentGivesUp \/ PlanReview
  <2>1. /\ kind = "review" /\ stage = "plan" /\ status' \in {"failed", "reported"}
        /\ landed' = landed
    <3>1. CASE AgentGivesUp
      BY <3>1 DEF AgentGivesUp, End, history
    <3>2. CASE PlanReview
      <4>1. kind = "review" /\ stage = "plan" /\ (stage' = "execute" \/ End("failed"))
        BY <3>2 DEF PlanReview
      <4>2. End("failed")
        BY <1>1, <4>1
      <4>3. QED
        BY <4>1, <4>2 DEF End, history
    <3>3. QED
      BY <1>3, <3>1, <3>2
  <2>2. landed = {}
    BY <2>1, NothingLanded DEF Sent
  <2>3. QED
    BY <2>1, <2>2
<1>4. CASE ClaimBatchThrows
  <2>1. /\ queue # <<>> /\ Head(queue).kind = "claims" /\ status' = "failed" /\ landed' = landed
    BY <1>4 DEF ClaimBatchThrows, Call, history
  <2>2. PICK i \in DOMAIN queue : Head(queue) = queue[i]
    BY <2>1, TailIs DEF Sent, Agenda
  <2>3. asked = <<>>
    BY <2>1, <2>2 DEF Sent
  <2>4. QED
    BY <2>1, <2>3, NothingLanded
<1>5. CASE LandLate \/ UNCHANGED vars
  <2>1. UNCHANGED <<kind, stage, status, plan, landed, unseen>>
    BY <1>5 DEF LandLate, vars, work, history
  <2>2. QED
    BY <1>1, <2>1 DEF StatusTellsTruth
<1>6. CASE \E st : NextCall(st)
  <2>1. stage' = "execute"
    BY <1>6 DEF NextCall
  <2>2. QED
    BY <1>1, <2>1
<1>7. CASE BeginReview \/ BeginUnwind
  <2>1. stage' = "plan"
    BY <1>7 DEF BeginReview, BeginUnwind, Begin
  <2>2. QED
    BY <1>1, <2>1
<1>8. CASE PlanWave \/ WaveThrows \/ EndWave
  <2>1. kind' = "unwind"
    BY <1>8 DEF PlanWave, WaveThrows, EndWave, End
  <2>2. QED
    BY <1>1, <2>1
<1>9. Confirm \/ Fail \/ TimeOut \/ ClaimBatch \/ Compose => \E st : NextCall(st)
  BY DEF Confirm, Fail, TimeOut, ClaimBatch, Compose
<1>10. QED
  BY <1>2, <1>3, <1>4, <1>5, <1>6, <1>7, <1>8, <1>9 DEF Next

-----------------------------------------------------------------------------
(* The theorems.                                                           *)

IInv ==
    /\ Control /\ Wallet /\ Sent /\ Answers /\ Sparing /\ Progress
    /\ Flat /\ StuckHasCause /\ StatusTellsTruth

LEMMA InitIInv == Init => IInv
<1>1. SUFFICES ASSUME Init PROVE IInv
  OBVIOUS
<1>2. /\ kind = "none" /\ stage = "idle" /\ trading = FALSE /\ queue = <<>> /\ wave = 0
      /\ plan = <<>> /\ asked = <<>> /\ outcomes = <<>> /\ landed = {} /\ flying = {}
  BY <1>1 DEF Init
<1>3. Control
  BY <1>2, PlanRunsAssumption DEF Control
<1>4. Wallet
  <2>1. PICK there \in Starts : open = [p \in there |-> Of(p).start]
    BY <1>1 DEF Init
  <2>2. there \subseteq {p.id : p \in Positions} /\ listed = open
    BY <1>1, PlanRunsAssumption DEF Init
  <2>3. QED
    BY <2>1, <2>2 DEF Wallet
<1>5. DOMAIN queue = {} /\ DOMAIN outcomes = {}
  BY <1>2
<1>6. Sent
  <2>1. PICK A : A = ToSet(plan)
    OBVIOUS
  <2>2. Agenda(queue, ToSet(plan)) /\ IdsIn(queue) = {}
    BY <1>2, <2>1, NoAgenda
  <2>3. /\ IsSequence(plan) /\ IsSequence(asked) /\ Distinct(asked) /\ ToSet(asked) = {}
        /\ IdsOf(asked) = {}
    BY <1>2, NothingAsked
  <2> HIDE DEF Agenda, Approved, IdsIn, IdsOf, Distinct, IsSequence
  <2>4. QED
    BY <1>2, <1>5, <2>2, <2>3 DEF Sent
<1>7. Answers
  BY <1>2, <1>5, NothingAsked DEF Answers
<1>8. Sparing
  BY <1>2, <1>5 DEF Sparing
<1>9. Progress /\ Flat /\ StuckHasCause /\ StatusTellsTruth
  BY <1>2 DEF Progress, Flat, StuckHasCause, StatusTellsTruth
<1>10. QED
  BY <1>3, <1>4, <1>6, <1>7, <1>8, <1>9 DEF IInv

LEMMA NextIInv == IInv /\ [Next]_vars => IInv'
<1>1. SUFFICES ASSUME IInv, [Next]_vars PROVE IInv'
  OBVIOUS
<1>2. /\ Control /\ Wallet /\ Sent /\ Answers /\ Sparing /\ Progress
      /\ Flat /\ StuckHasCause /\ StatusTellsTruth
  BY <1>1 DEF IInv
<1>3. Control' /\ Wallet'
  BY <1>1, <1>2, ControlKept, WalletKept
<1>4. Sent' /\ Answers'
  BY <1>1, <1>2, SentKept, AnswersKept
<1>5. Sparing' /\ Progress'
  BY <1>1, <1>2, SparingKept, ProgressKept
<1>6. Flat' /\ StuckHasCause' /\ StatusTellsTruth'
  BY <1>1, <1>2, FlatKept, StuckKept, TruthKept
<1>7. QED
  BY <1>3, <1>4, <1>5, <1>6 DEF IInv

\* What the wallet lists, what is queued and what has been answered is of the
\* right kind in every state of the two runs.
THEOREM WorkIsTyped == Spec => []TypeOK
<1>1. IInv => TypeOK
  BY DEF IInv, Control, Wallet, Answers, TypeOK
<1>2. QED
  BY InitIInv, NextIInv, <1>1, PTL DEF Spec

\* For every plan the agent may come to and whatever the executor answers, no
\* action is given to it twice, in the batch, a pair or alone, and a review
\* gives it only actions of its plan.
THEOREM ActionsAreSentOnce == Spec => []EachActionOnce
<1>1. IInv => EachActionOnce
  <2>1. SUFFICES ASSUME IInv PROVE EachActionOnce
    OBVIOUS
  <2>2. Distinct(asked) /\ ToSet(asked) \subseteq ToSet(plan)
    BY <2>1 DEF IInv, Sent
  <2>3. ASSUME NEW i \in DOMAIN asked PROVE asked[i].id \in IdsOf(plan)
    <3>1. asked[i] \in ToSet(plan)
      BY <2>2 DEF ToSet
    <3>2. QED
      BY <3>1 DEF IdsOf, ToSet
  <2>4. QED
    BY <2>2, <2>3 DEF EachActionOnce, Distinct
<1>2. QED
  BY InitIInv, NextIInv, <1>1, PTL DEF Spec

\* What depends on earlier steps is executed with the swap it waits for or not
\* at all.
THEOREM DependentsWaitAlways == Spec => []DependentsWait
<1>1. IInv => DependentsWait
  <2>1. SUFFICES ASSUME IInv, NEW i \in DOMAIN asked, asked[i].deps # {}
                 PROVE  \E j \in DOMAIN asked :
                            asked[j].type = "swap" /\ asked[j].id \in asked[i].deps
    BY DEF DependentsWait
  <2>2. asked[i] \in ToSet(asked)
    BY DEF ToSet
  <2>3. PICK b \in ToSet(asked) : b.type = "swap" /\ b.id \in asked[i].deps
    BY <2>1, <2>2 DEF IInv, Sent
  <2>4. QED
    BY <2>3 DEF ToSet
<1>2. QED
  BY InitIInv, NextIInv, <1>1, PTL DEF Spec

\* A finished review is called what happened on chain, as far as the executor
\* saw it.
THEOREM StatusesAreTrue == Spec => []StatusTellsTruth
<1>1. IInv => StatusTellsTruth
  BY DEF IInv
<1>2. QED
  BY InitIInv, NextIInv, <1>1, PTL DEF Spec

\* An unwind that says completed or no-op leaves nothing it could close but what
\* an incomplete snapshot kept from it, and no receipt it knows of unless a group
\* given up earlier lands late.
THEOREM FlatIsFlat == Spec => []FlatMeansFlat
<1>1. IInv => FlatMeansFlat
  BY DEF IInv, Flat, FlatMeansFlat
<1>2. QED
  BY InitIInv, NextIInv, <1>1, PTL DEF Spec

\* An unwind gives up only for a cause: its fingerprint never takes progress that
\* the gateway already lists for a standstill.
THEOREM StandstillsHaveCauses == Spec => []StuckHasCause
<1>1. IInv => StuckHasCause
  BY DEF IInv
<1>2. QED
  BY InitIInv, NextIInv, <1>1, PTL DEF Spec

\* The unwind closes no position whose rewards or commitment are still listed,
\* with no step and with no close that lands after the run.
THEOREM UnwindsForfeitNothing == Spec => NeverForfeits
<1>1. IInv /\ [Next]_vars =>
        [\A p \in DOMAIN open \ DOMAIN open' :
            \/ open[p] \cap {"claim", "uncommit"} = {}
            \/ kind = "review" /\ flying' = flying
            \/ \E f \in flying \ flying' : f.by = "review"]_vars
  BY NothingForfeited DEF IInv, Forfeits
<1>2. QED
  BY InitIInv, NextIInv, <1>1, PTL DEF Spec, NeverForfeits
=============================================================================
