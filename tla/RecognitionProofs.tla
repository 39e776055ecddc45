-------------------------- MODULE RecognitionProofs ---------------------------
(***************************************************************************)
(* Theorems about Recognition, for whatever the backends read and however  *)
(* many frames a track has. Induction over data (sums, votes, characters   *)
(* of a text) goes by a smallest counterexample, as a set of naturals.     *)
(***************************************************************************)
EXTENDS Recognition, SequenceTheorems, FiniteSetTheorems, WellFoundedInduction, TLAPS

-------------------------------------------------------------------------------
(* Sets of naturals. *)

LEMMA Smallest ==
  ASSUME NEW S \in SUBSET Nat, S # {}
  PROVE  \E m \in S : \A k \in S : m <= k
<1> DEFINE R == {ss \in Nat \X Nat : ss[1] < ss[2]}
<1>1. IsWellFoundedOn(R, Nat)
  BY NatLessThanWellFounded DEF OpToRel
<1>2. PICK m \in S : \A k \in S : ~ (<<k, m>> \in R)
  <2> HIDE DEF R
  <2> QED
    BY <1>1, WFMin
<1>3. ASSUME NEW k \in S PROVE m <= k
  <2>1. k \in Nat /\ m \in Nat /\ ~ (<<k, m>> \in R)
    BY <1>2
  <2>2. ~ (k < m)
    BY <2>1
  <2> QED
    BY <2>1, <2>2
<1> QED
  BY <1>3

(* A set with 0 and the successors of its members below n has all up to n. *)
LEMMA UpTo ==
  ASSUME NEW n \in Nat, NEW S, 0 \in S, \A i \in 1 .. n : i - 1 \in S => i \in S
  PROVE  \A i \in 0 .. n : i \in S
<1> DEFINE D == {i \in 0 .. n : i \notin S}
<1> SUFFICES ASSUME D # {} PROVE FALSE
  OBVIOUS
<1>1. PICK m \in D : \A k \in D : m <= k
  <2>1. D \in SUBSET Nat
    OBVIOUS
  <2> HIDE DEF D
  <2> QED
    BY <2>1, Smallest
<1>2. m # 0 /\ m - 1 \in 0 .. n /\ ~ (m <= m - 1)
  BY <1>1
<1>3. m - 1 \in S
  BY <1>1, <1>2
<1> QED
  BY <1>1, <1>2, <1>3

LEMMA MinFacts ==
  ASSUME NEW S \in SUBSET Nat, S # {}
  PROVE  Min(S) \in S /\ \A y \in S : Min(S) <= y
BY Smallest DEF Min

LEMMA MaxFacts ==
  ASSUME NEW S \in SUBSET Nat, S # {}, NEW b \in Nat, \A y \in S : y <= b
  PROVE  Max(S) \in S /\ \A y \in S : Max(S) >= y
<1> DEFINE D == {k \in Nat : \E y \in S : y + k = b}
<1>1. \A y \in S : b - y \in D
  OBVIOUS
<1>2. PICK m \in D : \A k \in D : m <= k
  BY <1>1, Smallest
<1>3. PICK x \in S : x + m = b
  OBVIOUS
<1>4. \A y \in S : x >= y
  BY <1>1, <1>2, <1>3
<1> QED
  BY <1>3, <1>4 DEF Max

-------------------------------------------------------------------------------
(* Sums. *)

Total(h, p, S) == MapThenSumSet(LAMBDA i : h[i].confs[p], S)

LEMMA SumBounds ==
  ASSUME NEW S, IsFiniteSet(S), NEW h, NEW p, \A i \in S : h[i].confs[p] \in 0 .. 100
  PROVE  Total(h, p, S) \in 0 .. 100 * Cardinality(S)
<1> DEFINE pick(s) == CHOOSE x \in s : TRUE
           Sums(f, D) == f = [s \in D |-> IF s = {} THEN 0
                                          ELSE h[pick(s)].confs[p] + f[s \ {pick(s)}]]
           D(n) == {s \in SUBSET S : Cardinality(s) <= n}
           B == {n \in Nat : \E f : Sums(f, D(n))}
<1>1. /\ Cardinality(S) \in Nat
      /\ \A s \in SUBSET S : IsFiniteSet(s) /\ Cardinality(s) \in Nat /\ Cardinality(s) <= Cardinality(S)
  BY FS_Subset, FS_CardinalityType
<1>2. \A s \in SUBSET S : s # {} =>
        /\ pick(s) \in s /\ s \ {pick(s)} \in SUBSET S
        /\ Cardinality(s \ {pick(s)}) = Cardinality(s) - 1
  BY <1>1, FS_RemoveElement
<1> HIDE DEF pick
<1>3. 0 \in B
  <2>1. \A s \in D(0) : s = {}
    BY <1>1, FS_EmptySet
  <2>2. Sums([s \in D(0) |-> 0], D(0))
    BY <2>1
  <2> QED
    BY <2>2
<1>4. ASSUME NEW n \in 1 .. Cardinality(S), n - 1 \in B PROVE n \in B
  <2>1. PICK f : f = [s \in D(n - 1) |-> IF s = {} THEN 0
                                          ELSE h[pick(s)].confs[p] + f[s \ {pick(s)}]]
    BY <1>4
  <2> DEFINE g == [s \in D(n) |-> IF s = {} THEN 0
                                   ELSE h[pick(s)].confs[p] + f[s \ {pick(s)}]]
  <2>2. n \in Nat /\ D(n - 1) \subseteq D(n)
    BY <1>1
  <2>3. \A s \in D(n) : s # {} => s \ {pick(s)} \in D(n - 1)
    BY <1>1, <1>2
  <2>4. \A s \in D(n - 1) : f[s] = IF s = {} THEN 0 ELSE h[pick(s)].confs[p] + f[s \ {pick(s)}]
    <3> HIDE DEF D
    <3> QED
      BY <2>1
  <2>5. \A s \in D(n - 1) : g[s] = f[s]
    <3> HIDE DEF D
    <3> QED
      BY <2>2, <2>4
  <2>6. Sums(g, D(n))
    <3> SUFFICES ASSUME NEW s \in D(n), s # {}
                 PROVE  g[s \ {pick(s)}] = f[s \ {pick(s)}]
      <4> HIDE DEF D
      <4> QED
        OBVIOUS
    <3> HIDE DEF D, g
    <3> QED
      BY <2>3, <2>5
  <2>7. \E x : Sums(x, D(n))
    <3> HIDE DEF g, D
    <3> QED
      BY <2>6
  <2> QED
    BY <2>2, <2>7
<1>5. \E x : Sums(x, SUBSET S)
  <2>1. \A n \in 0 .. Cardinality(S) : n \in B
    <3> HIDE DEF B
    <3> QED
      BY <1>1, <1>3, <1>4, UpTo
  <2>2. Cardinality(S) \in B
    <3> HIDE DEF B
    <3> QED
      BY <1>1, <2>1
  <2>3. D(Cardinality(S)) = SUBSET S
    BY <1>1
  <2> QED
    BY <2>2, <2>3
<1> DEFINE iter == CHOOSE x : Sums(x, SUBSET S)
           C == {n \in Nat : \A s \in SUBSET S : Cardinality(s) = n => iter[s] \in 0 .. 100 * n}
<1>6. \A s \in SUBSET S : iter[s] = IF s = {} THEN 0 ELSE h[pick(s)].confs[p] + iter[s \ {pick(s)}]
  <2>1. Sums(iter, SUBSET S)
    BY <1>5
  <2> HIDE DEF iter
  <2> QED
    BY <2>1
<1>7. Total(h, p, S) = iter[S]
  BY DEF Total, MapThenSumSet, MapThenFoldSet, pick
<1> HIDE DEF iter
<1>8. 0 \in C
  <2> SUFFICES ASSUME NEW s \in SUBSET S, Cardinality(s) = 0 PROVE iter[s] \in 0 .. 0
    OBVIOUS
  <2>1. s = {}
    BY <1>1, FS_EmptySet
  <2>2. iter[s] = 0
    <3> HIDE DEF C
    <3> QED
      BY <1>6, <2>1
  <2> QED
    BY <2>2
<1>9. ASSUME NEW n \in 1 .. Cardinality(S), n - 1 \in C PROVE n \in C
  <2> SUFFICES ASSUME NEW s \in SUBSET S, Cardinality(s) = n PROVE iter[s] \in 0 .. 100 * n
    OBVIOUS
  <2>1. s # {}
    BY FS_EmptySet
  <2>2. iter[s \ {pick(s)}] \in 0 .. 100 * (n - 1)
    BY <1>2, <1>9, <2>1
  <2>3. h[pick(s)].confs[p] \in 0 .. 100
    BY <1>2, <2>1
  <2>4. iter[s] = h[pick(s)].confs[p] + iter[s \ {pick(s)}]
    BY <1>6, <2>1
  <2>5. \A x \in 0 .. 100, y \in 0 .. 100 * (n - 1) : x + y \in 0 .. 100 * n
    OBVIOUS
  <2> QED
    BY <2>2, <2>3, <2>4, <2>5
<1>10. Cardinality(S) \in C
  <2> HIDE DEF C
  <2> QED
    BY <1>1, <1>8, <1>9, UpTo
<1> QED
  BY <1>7, <1>10

LEMMA MeanBounds ==
  ASSUME NEW S, IsFiniteSet(S), S # {}, NEW h, NEW p, \A i \in S : h[i].confs[p] \in 0 .. 100
  PROVE  Mean(h, p, S) \in 0 .. 100
<1> DEFINE total == Total(h, p, S)
           c == Cardinality(S)
<1>1. total \in 0 .. 100 * c
  BY SumBounds
<1>2. c \in Nat \ {0}
  BY FS_CardinalityType, FS_EmptySet
<1>3. Mean(h, p, S) = total \div c
  BY DEF Mean, Total
<1> HIDE DEF total, c
<1>4. total \div c \in 0 .. 100
  BY <1>1, <1>2
<1> QED
  BY <1>3, <1>4

-------------------------------------------------------------------------------
(* Fusion. *)

Symbols == Chars \cup {Unsure}
Reads == Seq([char: Chars, conf: 0 .. 100])
Reading == {x \in [text: Seq(Chars), confs: Seq(0 .. 100)] : Len(x.confs) = Len(x.text)}

(* What FusionKeepsEvidence says of the reading f fused from a and b. *)
Keeps(f, a, b) ==
  LET Read(p) == {o[p] : o \in {i \in {a, b} : p <= Len(i)}}
  IN  \A p \in DOMAIN a \cup DOMAIN b :
        /\ p \in DOMAIN f.text
        /\ [char |-> f.text[p], conf |-> f.confs[p]] \in Read(p)
        /\ \A o \in Read(p) : o.conf <= f.confs[p]

LEMMA FuseFacts ==
  ASSUME NEW a \in Reads, NEW b \in Reads
  PROVE  Fuse(a, b) \in Reading /\ Keeps(Fuse(a, b), a, b)
<1> DEFINE n == Max({Len(a), Len(b)})
           Best(i) == IF i > Len(b) \/ (i <= Len(a) /\ a[i].conf >= b[i].conf) THEN a[i] ELSE b[i]
           f == Fuse(a, b)
<1>1. Len(a) \in Nat /\ Len(b) \in Nat /\ DOMAIN a = 1 .. Len(a) /\ DOMAIN b = 1 .. Len(b)
  BY DEF Reads
<1>2. n \in {Len(a), Len(b)} /\ n >= Len(a) /\ n >= Len(b)
  <2>1. {Len(a), Len(b)} \in SUBSET Nat /\ Len(a) + Len(b) \in Nat
        /\ \A y \in {Len(a), Len(b)} : y <= Len(a) + Len(b)
    BY <1>1
  <2> QED
    BY <2>1, MaxFacts
<1> HIDE DEF n
<1>3. \A i \in 1 .. Len(a) : a[i] \in [char: Chars, conf: 0 .. 100]
  BY ElementOfSeq DEF Reads
<1>4. \A i \in 1 .. Len(b) : b[i] \in [char: Chars, conf: 0 .. 100]
  BY ElementOfSeq DEF Reads
<1>5. \A i \in 1 .. n :
        /\ i \in 1 .. Len(a) \/ i \in 1 .. Len(b)
        /\ i \in 1 .. Len(a) /\ (i \notin 1 .. Len(b) \/ a[i].conf >= b[i].conf) => Best(i) = a[i]
        /\ i \in 1 .. Len(b) /\ (i \notin 1 .. Len(a) \/ ~ (a[i].conf >= b[i].conf)) => Best(i) = b[i]
  BY <1>1, <1>2
<1> HIDE DEF Best
<1>6. \A i \in 1 .. n : Best(i) \in [char: Chars, conf: 0 .. 100]
  BY <1>3, <1>4, <1>5
<1>7. f = [text |-> [i \in 1 .. n |-> Best(i).char], confs |-> [i \in 1 .. n |-> Best(i).conf]]
  BY DEF Fuse, n, Best
<1> HIDE DEF f
<1>8. f.text \in Seq(Chars) /\ f.confs \in Seq(0 .. 100) /\ Len(f.text) = n /\ Len(f.confs) = n
  <2>1. n \in Nat
    BY <1>1, <1>2
  <2>2. \A i \in 1 .. n : Best(i).char \in Chars /\ Best(i).conf \in 0 .. 100
    BY <1>6
  <2>3. \A g : g \in [1 .. n -> Chars] => g \in Seq(Chars) /\ Len(g) = n
    BY <2>1
  <2>4. \A g : g \in [1 .. n -> 0 .. 100] => g \in Seq(0 .. 100) /\ Len(g) = n
    BY <2>1
  <2> QED
    BY <1>7, <2>2, <2>3, <2>4
<1>9. f \in Reading
  BY <1>7, <1>8 DEF Reading
<1>10. ASSUME NEW p \in DOMAIN a \cup DOMAIN b
       PROVE  LET R == {o[p] : o \in {i \in {a, b} : p <= Len(i)}}
              IN  /\ p \in DOMAIN f.text
                  /\ [char |-> f.text[p], conf |-> f.confs[p]] \in R
                  /\ \A o \in R : o.conf <= f.confs[p]
  <2> DEFINE R == {o[p] : o \in {i \in {a, b} : p <= Len(i)}}
  <2>1. p \in 1 .. n /\ f.text[p] = Best(p).char /\ f.confs[p] = Best(p).conf /\ p \in DOMAIN f.text
    BY <1>1, <1>2, <1>7
  <2>2. [char |-> f.text[p], conf |-> f.confs[p]] = Best(p)
    BY <1>6, <2>1
  <2>3. \A o \in R : (o = a[p] /\ p \in 1 .. Len(a)) \/ (o = b[p] /\ p \in 1 .. Len(b))
    BY <1>1
  <2>4. p \in 1 .. Len(a) => a[p] \in R
    BY <1>1
  <2>5. p \in 1 .. Len(b) => b[p] \in R
    BY <1>1
  <2> HIDE DEF R
  <2>6. Best(p) \in R
    BY <1>5, <2>1, <2>4, <2>5
  <2>7. ASSUME NEW o \in R PROVE o.conf <= Best(p).conf
    <3>0. (o = a[p] /\ p \in 1 .. Len(a)) \/ (o = b[p] /\ p \in 1 .. Len(b))
      BY <2>3
    <3>1. /\ p \in 1 .. Len(a) => a[p].conf \in Int
          /\ p \in 1 .. Len(b) => b[p].conf \in Int
      <4>1. \A r \in [char: Chars, conf: 0 .. 100] : r.conf \in Int
        OBVIOUS
      <4> QED
        BY <1>3, <1>4, <4>1
    <3>2. CASE p \in 1 .. Len(a) /\ (p \notin 1 .. Len(b) \/ a[p].conf >= b[p].conf)
      <4>1. Best(p) = a[p]
        BY <1>5, <2>1, <3>2
      <4>2. Best(p).conf = a[p].conf /\ a[p].conf \in Int
        BY <1>1, <3>1, <3>2, <4>1
      <4>3. CASE o = a[p]
        <5>1. o.conf = a[p].conf
          BY <4>3
        <5> QED
          BY <4>2, <5>1
      <4>4. CASE o = b[p] /\ p \in 1 .. Len(b)
        <5>1. o.conf = b[p].conf /\ b[p].conf \in Int
          BY <1>1, <3>1, <4>4
        <5>2. b[p].conf <= a[p].conf
          BY <3>2, <4>2, <4>4, <5>1
        <5> QED
          BY <4>2, <5>1, <5>2
      <4> QED
        BY <3>0, <4>3, <4>4
    <3>3. CASE p \in 1 .. Len(b) /\ (p \notin 1 .. Len(a) \/ ~ (a[p].conf >= b[p].conf))
      <4>1. Best(p) = b[p]
        BY <1>5, <2>1, <3>3
      <4>2. Best(p).conf = b[p].conf /\ b[p].conf \in Int
        BY <1>1, <3>1, <3>3, <4>1
      <4>3. CASE o = b[p]
        <5>1. o.conf = b[p].conf
          BY <4>3
        <5> QED
          BY <4>2, <5>1
      <4>4. CASE o = a[p] /\ p \in 1 .. Len(a)
        <5>1. o.conf = a[p].conf /\ a[p].conf \in Int
          BY <1>1, <3>1, <4>4
        <5>2. a[p].conf <= b[p].conf
          BY <3>3, <4>2, <4>4, <5>1
        <5> QED
          BY <4>2, <5>1, <5>2
      <4> QED
        BY <3>0, <4>3, <4>4
    <3> QED
      BY <1>5, <2>1, <3>2, <3>3
  <2> QED
    BY <2>1, <2>2, <2>6, <2>7 DEF R
<1> QED
  BY <1>9, <1>10 DEF Keeps, f

-------------------------------------------------------------------------------
(* Votes. *)

LEMMA ReadingFacts ==
  ASSUME NEW h \in Seq(Reading)
  PROVE  /\ Len(h) \in Nat /\ DOMAIN h = 1 .. Len(h)
         /\ \A i \in DOMAIN h :
              /\ h[i].text \in Seq(Chars) /\ h[i].confs \in Seq(0 .. 100)
              /\ Len(h[i].text) \in Nat /\ Len(h[i].confs) = Len(h[i].text)
         /\ \A i \in DOMAIN h : \A p \in 1 .. Len(h[i].text) :
              h[i].text[p] \in Chars /\ h[i].confs[p] \in 0 .. 100
<1>1. Len(h) \in Nat /\ DOMAIN h = 1 .. Len(h) /\ \A i \in DOMAIN h : h[i] \in Reading
  OBVIOUS
<1>2. \A x \in Reading : /\ x.text \in Seq(Chars) /\ x.confs \in Seq(0 .. 100)
                         /\ Len(x.confs) = Len(x.text) /\ Len(x.text) \in Nat
                         /\ \A p \in 1 .. Len(x.text) : x.text[p] \in Chars /\ x.confs[p] \in 0 .. 100
  BY ElementOfSeq, LenProperties DEF Reading
<1> QED
  BY <1>1, <1>2

LEMMA SupportersFacts ==
  ASSUME NEW h \in Seq(Reading), NEW p, NEW c
  PROVE  /\ IsFiniteSet(Supporters(h, p, c)) /\ Cardinality(Supporters(h, p, c)) \in Nat
         /\ Cardinality(Supporters(h, p, c)) <= Len(h)
         /\ \A d : d # c => Cardinality(Supporters(h, p, c)) + Cardinality(Supporters(h, p, d)) <= Len(h)
<1> DEFINE S(x) == Supporters(h, p, x)
<1>1. Len(h) \in Nat /\ IsFiniteSet(1 .. Len(h)) /\ Cardinality(1 .. Len(h)) = Len(h)
  <2>1. Len(h) \in Nat
    OBVIOUS
  <2> QED
    BY <2>1, FS_Interval
<1>2. \A x : S(x) \in SUBSET (1 .. Len(h))
  BY DEF Supporters
<1>3. \A x : IsFiniteSet(S(x)) /\ Cardinality(S(x)) \in Nat /\ Cardinality(S(x)) <= Len(h)
  BY <1>1, <1>2, FS_Subset, FS_CardinalityType
<1>4. ASSUME NEW d, d # c PROVE Cardinality(S(c)) + Cardinality(S(d)) <= Len(h)
  <2>1. S(c) \cap S(d) = {}
    BY <1>4 DEF Supporters
  <2> HIDE DEF S
  <2>2. Cardinality(S(c) \cup S(d)) = Cardinality(S(c)) + Cardinality(S(d)) - 0
    BY <1>3, <2>1, FS_Union, FS_EmptySet
  <2>3. Cardinality(S(c) \cup S(d)) <= Cardinality(1 .. Len(h))
    BY <1>1, <1>2, FS_Subset
  <2> QED
    BY <1>1, <1>3, <2>2, <2>3
<1> QED
  BY <1>3, <1>4

(* Reading i is the one a vote at position p goes by: no character is read *)
(* more often there than its own, and none as often before it.             *)
Decides(h, p, i) ==
  /\ i \in DOMAIN h /\ p <= Len(h[i].text)
  /\ \A j \in DOMAIN h : p <= Len(h[j].text) =>
       LET mine == Cardinality(Supporters(h, p, h[i].text[p]))
           its == Cardinality(Supporters(h, p, h[j].text[p]))
       IN  its < mine \/ (its = mine /\ i <= j)

(* The character voted first has a supporter and no fewer than any other.  *)
LEMMA BestVoteFacts ==
  ASSUME NEW h \in Seq(Reading), NEW p \in Nat \ {0}, \E i \in DOMAIN h : p <= Len(h[i].text)
  PROVE  /\ BestVote(h, p) \in Chars /\ Supporters(h, p, BestVote(h, p)) # {}
         /\ \A c : Cardinality(Supporters(h, p, c)) <= Cardinality(Supporters(h, p, BestVote(h, p)))
         /\ \E i : Decides(h, p, i) /\ BestVote(h, p) = h[i].text[p]
<1> DEFINE F == {i \in DOMAIN h : p <= Len(h[i].text)}
           Votes(c) == Cardinality({i \in F : h[i].text[p] = c})
           W == {Votes(h[i].text[p]) : i \in F}
           First(i) == \A j \in F :
                          \/ Votes(h[j].text[p]) < Votes(h[i].text[p])
                          \/ Votes(h[j].text[p]) = Votes(h[i].text[p]) /\ i <= j
<1>1. F # {} /\ F \in SUBSET Nat /\ \A i \in F : h[i].text[p] \in Chars
  BY ReadingFacts
<1>2. \A c : Supporters(h, p, c) = {i \in F : h[i].text[p] = c}
  BY DEF Supporters
<1>3. \A c : Votes(c) = Cardinality(Supporters(h, p, c))
  BY <1>2
<1> HIDE DEF Votes
<1>4. Len(h) \in Nat /\ \A c : Votes(c) \in Nat /\ Votes(c) <= Len(h)
  BY <1>3, SupportersFacts
<1>5. \E i \in F : First(i)
  <2>1. W \in SUBSET Nat /\ W # {} /\ \A y \in W : y <= Len(h)
    BY <1>1, <1>4
  <2>2. PICK m \in W : \A y \in W : m >= y
    <3> HIDE DEF W
    <3> QED
      BY <1>4, <2>1, MaxFacts
  <2> DEFINE I == {i \in F : Votes(h[i].text[p]) = m}
  <2>3. I \in SUBSET Nat /\ I # {}
    BY <1>1, <2>2
  <2>4. PICK i \in I : \A k \in I : i <= k
    <3> HIDE DEF I
    <3> QED
      BY <2>3, Smallest
  <2>5. \A j \in F : Votes(h[j].text[p]) <= m
    BY <1>4, <2>1, <2>2
  <2>6. m \in Nat
    BY <2>1, <2>2
  <2> QED
    BY <1>4, <2>4, <2>5, <2>6
<1> DEFINE first == CHOOSE i \in F : First(i)
<1>6. first \in F /\ First(first)
  <2> HIDE DEF First, F
  <2> QED
    BY <1>5
<1>7. BestVote(h, p) = h[first].text[p]
  BY DEF BestVote, Votes
<1> HIDE DEF first
<1>8. BestVote(h, p) \in Chars /\ first \in Supporters(h, p, BestVote(h, p))
  BY <1>1, <1>2, <1>6, <1>7
<1>9. ASSUME NEW c PROVE Votes(c) <= Votes(BestVote(h, p))
  <2>1. CASE Supporters(h, p, c) = {}
    <3>1. Votes(c) = Cardinality({})
      BY <1>3, <2>1
    <3>2. Votes(c) = 0 /\ Votes(BestVote(h, p)) \in Nat
      BY <1>4, <3>1, FS_EmptySet
    <3> QED
      BY <3>2
  <2>2. CASE Supporters(h, p, c) # {}
    <3>1. PICK j \in F : h[j].text[p] = c
      BY <1>2, <2>2
    <3>2. Votes(h[j].text[p]) <= Votes(h[first].text[p])
      BY <1>4, <1>6
    <3> QED
      BY <1>7, <3>1, <3>2
  <2> QED
    BY <2>1, <2>2
<1>10. Decides(h, p, first)
  BY <1>3, <1>6 DEF Decides
<1> QED
  BY <1>3, <1>7, <1>8, <1>9, <1>10

LEMMA LongestFacts ==
  ASSUME NEW h \in Seq(Reading), h # <<>>
  PROVE  /\ Longest(h) \in Nat
         /\ \A i \in DOMAIN h : Len(h[i].text) <= Longest(h)
         /\ \E i \in DOMAIN h : Len(h[i].text) = Longest(h)
<1> DEFINE L == {Len(h[i].text) : i \in DOMAIN h}
           B == {n \in Nat : \E b \in Nat : \A i \in DOMAIN h : i <= n => Len(h[i].text) <= b}
<1>1. Len(h) \in Nat /\ Len(h) > 0 /\ DOMAIN h = 1 .. Len(h) /\ \A i \in DOMAIN h : Len(h[i].text) \in Nat
  <2>1. Len(h) \in Nat /\ Len(h) > 0
    OBVIOUS
  <2> QED
    BY <2>1, ReadingFacts
<1>2. L \in SUBSET Nat /\ L # {}
  <2>1. 1 \in DOMAIN h
    BY <1>1
  <2> QED
    BY <1>1, <2>1
<1>3. 0 \in B
  BY <1>1
<1>4. ASSUME NEW n \in 1 .. Len(h), n - 1 \in B PROVE n \in B
  <2>1. PICK b \in Nat : \A i \in DOMAIN h : i <= n - 1 => Len(h[i].text) <= b
    BY <1>4
  <2>2. n \in DOMAIN h /\ b + Len(h[n].text) \in Nat
    BY <1>1, <2>1
  <2>3. ASSUME NEW i \in DOMAIN h, i <= n PROVE Len(h[i].text) <= b + Len(h[n].text)
    <3>1. Len(h[i].text) \in Nat /\ Len(h[n].text) \in Nat /\ i \in Nat /\ n \in Nat
      BY <1>1, <2>2
    <3>2. i = n \/ i <= n - 1
      BY <2>3, <3>1
    <3> QED
      BY <2>1, <3>1, <3>2
  <2>4. n \in Nat
    OBVIOUS
  <2> QED
    BY <2>2, <2>3, <2>4
<1>5. Len(h) \in B
  <2> HIDE DEF B
  <2>1. \A i \in 0 .. Len(h) : i \in B
    BY <1>1, <1>3, <1>4, UpTo
  <2> QED
    BY <1>1, <2>1
<1>6. PICK b \in Nat : \A i \in DOMAIN h : Len(h[i].text) <= b
  BY <1>1, <1>5
<1>7. \A y \in L : y <= b
  BY <1>6
<1>8. Max(L) \in L /\ \A y \in L : Max(L) >= y
  <2> HIDE DEF L
  <2> QED
    BY <1>2, <1>7, MaxFacts
<1> DEFINE m == Max(L)
<1>9. m = Longest(h)
  BY DEF Longest
<1> HIDE DEF m
<1>10. m \in L /\ \A y \in L : m >= y
  BY <1>8 DEF m
<1> QED
  BY <1>1, <1>9, <1>10

(* What voting makes of each position, and of each reading.                *)
LEMMA VoteFacts ==
  ASSUME NEW h \in Seq(Reading), h # <<>>
  PROVE  LET v == Vote(h)
         IN  /\ v.text \in Seq(Symbols) /\ v.confs \in Seq(0 .. 100) /\ Len(v.confs) = Len(v.text)
             /\ \A p \in DOMAIN v.text :
                  LET best == BestVote(h, p)
                      votes == Cardinality(Supporters(h, p, best))
                  IN  /\ p \in Nat \ {0} /\ best \in Chars /\ p \in DOMAIN v.confs
                      /\ \A c : Cardinality(Supporters(h, p, c)) <= votes
                      /\ Quorum(votes, Len(h)) => v.text[p] = best
                      /\ ~ Quorum(votes, Len(h)) => v.text[p] = Unsure /\ v.confs[p] = 0
             /\ \A i \in DOMAIN h : DOMAIN h[i].text \subseteq DOMAIN v.text
<1> DEFINE v == Vote(h)
           n == Longest(h)
           Who(p) == Voters(h, p)
           char(p) == IF Wins(h, p) THEN BestVote(h, p) ELSE Unsure
           conf(p) == IF Wins(h, p) THEN Mean(h, p, Who(p)) ELSE 0
<1>1. n \in Nat /\ \A i \in DOMAIN h : Len(h[i].text) <= n
  BY LongestFacts
<1>2. v = [text |-> [p \in 1 .. n |-> char(p)], confs |-> [p \in 1 .. n |-> conf(p)]]
  BY DEF Vote, VotedText
<1> HIDE DEF v, n
<1>3. ASSUME NEW p \in 1 .. n
      PROVE  /\ p \in Nat \ {0} /\ BestVote(h, p) \in Chars /\ Who(p) # {}
             /\ \A c : Cardinality(Supporters(h, p, c)) <= Cardinality(Who(p))
             /\ char(p) \in Symbols /\ conf(p) \in 0 .. 100
  <2>1. PICK i \in DOMAIN h : Len(h[i].text) = n
    BY LongestFacts DEF n
  <2>2. p \in Nat \ {0} /\ p <= Len(h[i].text)
    BY <1>1, <2>1
  <2>3. /\ BestVote(h, p) \in Chars /\ Who(p) # {}
        /\ \A c : Cardinality(Supporters(h, p, c)) <= Cardinality(Who(p))
    BY <2>2, BestVoteFacts DEF Voters
  <2>4. IsFiniteSet(Who(p))
    BY SupportersFacts DEF Voters
  <2>5. \A k \in Who(p) : k \in DOMAIN h /\ p \in 1 .. Len(h[k].text)
    BY <2>2, ReadingFacts DEF Supporters, Voters
  <2>6. \A k \in Who(p) : h[k].confs[p] \in 0 .. 100
    BY <2>5, ReadingFacts
  <2> HIDE DEF Who
  <2>7. Mean(h, p, Who(p)) \in 0 .. 100
    BY <2>3, <2>4, <2>6, MeanBounds
  <2> QED
    BY <2>2, <2>3, <2>7 DEF Symbols
<1> HIDE DEF char, conf
<1>4. \A g : g \in [1 .. n -> Symbols] => g \in Seq(Symbols) /\ Len(g) = n
  BY <1>1
<1>5. \A g : g \in [1 .. n -> 0 .. 100] => g \in Seq(0 .. 100) /\ Len(g) = n
  BY <1>1
<1>6. v.text \in Seq(Symbols) /\ v.confs \in Seq(0 .. 100) /\ Len(v.confs) = Len(v.text)
  <2>1. v.text \in [1 .. n -> Symbols]
    BY <1>2, <1>3
  <2>2. v.confs \in [1 .. n -> 0 .. 100]
    BY <1>2, <1>3
  <2> QED
    BY <1>4, <1>5, <2>1, <2>2
<1>7. DOMAIN v.text = 1 .. n /\ DOMAIN v.confs = 1 .. n
  BY <1>2
<1>8. ASSUME NEW p \in 1 .. n
      PROVE  /\ Wins(h, p) => v.text[p] = BestVote(h, p)
             /\ ~ Wins(h, p) => v.text[p] = Unsure /\ v.confs[p] = 0
  BY <1>2 DEF char, conf
<1>9. ASSUME NEW i \in DOMAIN h PROVE DOMAIN h[i].text \subseteq DOMAIN v.text
  <2>1. h[i].text \in Seq(Chars) /\ Len(h[i].text) \in Nat /\ Len(h[i].text) <= n
    BY <1>1, ReadingFacts
  <2> QED
    BY <1>1, <1>7, <2>1
<1>10. ASSUME NEW p \in DOMAIN v.text
       PROVE  LET best == BestVote(h, p)
                  votes == Cardinality(Supporters(h, p, best))
              IN  /\ p \in Nat \ {0} /\ best \in Chars /\ p \in DOMAIN v.confs
                  /\ \A c : Cardinality(Supporters(h, p, c)) <= votes
                  /\ Quorum(votes, Len(h)) => v.text[p] = best
                  /\ ~ Quorum(votes, Len(h)) => v.text[p] = Unsure /\ v.confs[p] = 0
  BY <1>3, <1>7, <1>8 DEF Wins, Voters
<1> QED
  BY <1>6, <1>9, <1>10 DEF v

(* What most of three or more readings have at a position is voted there.  *)
LEMMA MajorityFacts ==
  ASSUME NEW h \in Seq(Reading), Len(h) >= 3, NEW p \in DOMAIN Vote(h).text, NEW c \in Chars,
         2 * Cardinality(Supporters(h, p, c)) > Len(h)
  PROVE  Vote(h).text[p] = c
<1> DEFINE best == BestVote(h, p)
           votes(x) == Cardinality(Supporters(h, p, x))
<1>1. h # <<>> /\ Len(h) \in Nat
  OBVIOUS
<1>2. /\ \A x : votes(x) <= votes(best)
      /\ Quorum(votes(best), Len(h)) => Vote(h).text[p] = best
  BY <1>1, VoteFacts
<1>3. votes(c) \in Nat /\ votes(best) \in Nat /\ (best # c => votes(c) + votes(best) <= Len(h))
  BY SupportersFacts
<1>4. 2 * votes(c) > Len(h)
  OBVIOUS
<1> HIDE DEF best, votes
<1>5. best = c
  BY <1>1, <1>2, <1>3, <1>4
<1>6. votes(best) >= 2
  BY <1>1, <1>3, <1>4, <1>5
<1> QED
  BY <1>2, <1>5, <1>6 DEF Quorum, MinVotes

-------------------------------------------------------------------------------
(* Characters and texts. *)

LEMMA UpperFacts == \A c \in Symbols : Upper(c) \in Symbols
BY DEF Symbols, Chars, Letters, Upper

(* A confusion is another character, and there are at most two of them.    *)
LEMMA ConfusionFacts ==
  ASSUME NEW r \in Regions, NEW c \in Symbols
  PROVE  /\ DOMAIN Confusions(r, c) \subseteq {1, 2}
         /\ \A k \in DOMAIN Confusions(r, c) : Confusions(r, c)[k] \in Chars \ {c}
<1> DEFINE C == Confusions(r, c)
<1>1. /\ c = "0" => C = <<"O">>
      /\ c = "1" => C = <<"I">> \/ C = <<"I", "L">>
      /\ c = "5" => C = <<"S">>
      /\ c = "O" => C = <<"0">>
      /\ c = "I" => C = <<"1">>
      /\ c = "S" => C = <<"5">>
  BY DEF Confusions
<1>2. /\ c = "L" => C = <<"1">> \/ C = <<>>
      /\ c = "8" => C = <<"B">> \/ C = <<>>
      /\ c = "2" => C = <<"Z">> \/ C = <<>>
      /\ c = "B" => C = <<"8">> \/ C = <<>>
      /\ c = "Z" => C = <<"2">> \/ C = <<>>
  BY DEF Confusions
<1>3. c \notin {"0", "1", "5", "O", "I", "S", "L", "8", "2", "B", "Z"} => C = <<>>
  BY DEF Confusions
<1> HIDE DEF C
<1>4. {"O", "I", "L", "S", "0", "1", "5", "B", "Z", "8", "2"} \subseteq Chars
  BY DEF Chars, Letters, Digits
<1>5. DOMAIN C \subseteq {1, 2} /\ \A k \in DOMAIN C : C[k] \in Chars /\ C[k] # c
  <2>1. c = "1" => DOMAIN C \subseteq {1, 2} /\ \A k \in DOMAIN C : C[k] \in {"I", "L"}
    BY <1>1
  <2>2. C = <<>> => DOMAIN C = {}
    OBVIOUS
  <2>3. ASSUME NEW x, C = <<x>> PROVE DOMAIN C = {1} /\ C[1] = x
    BY <2>3
  <2> QED
    BY <1>1, <1>2, <1>3, <1>4, <2>1, <2>2, <2>3
<1> QED
  BY <1>5 DEF C

Solid(text) == \A p \in DOMAIN text : text[p] # " "

LEMMA NormalFacts ==
  ASSUME NEW text \in Seq(Symbols)
  PROVE  /\ Normal(text) \in Seq(Symbols)
         /\ Solid(text) => /\ DOMAIN Normal(text) = DOMAIN text /\ Solid(Normal(text))
                           /\ \A p \in DOMAIN text : Normal(text)[p] = Upper(text[p])
<1> DEFINE solid == {i \in DOMAIN text : text[i] # " "}
           cut == IF solid = {} THEN <<>> ELSE SubSeq(text, Min(solid), Max(solid))
<1>1. PICK n \in Nat : n = Len(text) /\ DOMAIN text = 1 .. n /\ \A i \in 1 .. n : text[i] \in Symbols
  OBVIOUS
<1>2. solid # {} => /\ Min(solid) \in solid /\ Max(solid) \in solid
                    /\ \A i \in solid : Min(solid) <= i /\ i <= Max(solid)
  <2>1. solid \in SUBSET (1 .. n)
    BY <1>1
  <2> HIDE DEF solid
  <2>2. solid \in SUBSET Nat /\ \A i \in solid : i <= n
    BY <2>1
  <2>3. solid # {} => Min(solid) \in solid /\ \A i \in solid : Min(solid) <= i
    BY <2>2, MinFacts
  <2>4. solid # {} => Max(solid) \in solid /\ \A i \in solid : Max(solid) >= i
    BY <2>2, MaxFacts
  <2> QED
    BY <2>2, <2>3, <2>4
<1>3. cut \in Seq(Symbols)
  <2>1. CASE solid = {}
    <3>1. cut = <<>>
      BY <2>1
    <3> HIDE DEF cut
    <3> QED
      BY <3>1
  <2>2. CASE solid # {}
    <3> DEFINE k == Min(solid)
               m == Max(solid)
    <3>1. k \in 1 .. n /\ m \in 1 .. n
      BY <1>1, <1>2, <2>2
    <3>2. cut = SubSeq(text, k, m)
      BY <2>2
    <3> HIDE DEF k, m, cut
    <3>3. \A i \in k .. m : text[i] \in Symbols
      BY <1>1, <3>1
    <3> QED
      BY <3>1, <3>2, <3>3, SubSeqProperties
  <2> QED
    BY <2>1, <2>2
<1>4. Solid(text) => cut = text
  <2> SUFFICES ASSUME Solid(text) PROVE cut = text
    OBVIOUS
  <2>1. solid = 1 .. n
    BY <1>1 DEF Solid
  <2>2. CASE n = 0
    BY <1>1, <2>1, <2>2
  <2>3. CASE n # 0
    <3>1. 1 \in 1 .. n /\ n \in 1 .. n
      BY <2>3
    <3>2. \A k \in 1 .. n : (k <= 1 => k = 1) /\ (n <= k => k = n)
      OBVIOUS
    <3>3. solid # {} /\ Min(solid) \in 1 .. n /\ Min(solid) <= 1 /\ Max(solid) \in 1 .. n /\ n <= Max(solid)
      <4> HIDE DEF solid
      <4> QED
        BY <1>2, <2>1, <3>1
    <3> DEFINE k == Min(solid)
               m == Max(solid)
    <3>4. cut = SubSeq(text, k, m)
      BY <3>3
    <3>5. k \in 1 .. n /\ k <= 1 /\ m \in 1 .. n /\ n <= m
      BY <3>3
    <3> HIDE DEF solid, cut, k, m
    <3> QED
      BY <1>1, <3>2, <3>4, <3>5, SubSeqFull
  <2> QED
    BY <2>2, <2>3
<1>5. Normal(text) = [i \in DOMAIN cut |-> Upper(cut[i])]
  BY DEF Normal
<1> HIDE DEF cut
<1>6. Len(cut) \in Nat /\ DOMAIN cut = 1 .. Len(cut) /\ \A i \in 1 .. Len(cut) : Upper(cut[i]) \in Symbols
  BY <1>3, UpperFacts
<1>7. Normal(text) \in Seq(Symbols)
  BY <1>5, <1>6
<1>8. \A c \in Symbols : c # " " => Upper(c) # " "
  BY DEF Upper
<1>9. \A i \in DOMAIN text : text[i] \in Symbols
  BY <1>1
<1> QED
  BY <1>4, <1>5, <1>7, <1>8, <1>9 DEF Solid

LEMMA SqueezedFacts ==
  ASSUME NEW text \in Seq(Symbols)
  PROVE  /\ Squeezed(text) \in Seq(Symbols)
         /\ Solid(text) => Squeezed(text) = text
<1>1. PICK n \in Nat : n = Len(text) /\ DOMAIN text = 1 .. n /\ \A i \in 1 .. n : text[i] \in Symbols
  OBVIOUS
<1> DEFINE Step(f, i) == IF i = 0 THEN <<>>
                         ELSE IF text[i] = " " THEN f[i - 1] ELSE Append(f[i - 1], text[i])
           B == {m \in Nat : \E f : f = [i \in 0 .. m |-> Step(f, i)]}
<1>2. 0 \in B
  <2>1. [i \in 0 .. 0 |-> <<>>] = [i \in 0 .. 0 |-> Step([j \in 0 .. 0 |-> <<>>], i)]
    OBVIOUS
  <2> QED
    BY <2>1
<1>3. ASSUME NEW m \in 1 .. n, m - 1 \in B PROVE m \in B
  <2>1. PICK f : f = [i \in 0 .. m - 1 |-> Step(f, i)]
    BY <1>3
  <2>2. m \in Nat /\ 0 .. m - 1 \subseteq 0 .. m
        /\ \A i \in 0 .. m : i # 0 => i - 1 \in 0 .. m - 1
    OBVIOUS
  <2> DEFINE g == [i \in 0 .. m |-> Step(f, i)]
  <2>3. \A i \in 0 .. m - 1 : g[i] = f[i]
    <3> HIDE DEF Step
    <3>1. \A i \in 0 .. m - 1 : f[i] = Step(f, i)
      BY <2>1
    <3> QED
      BY <2>2, <3>1
  <2>4. \A i \in 0 .. m : Step(g, i) = Step(f, i)
    <3> HIDE DEF g
    <3> QED
      BY <2>2, <2>3
  <2>5. g = [i \in 0 .. m |-> Step(g, i)]
    <3> HIDE DEF Step
    <3> QED
      BY <2>4
  <2> HIDE DEF g, Step
  <2> QED
    BY <2>2, <2>5
<1>4. \E f : f = [i \in 0 .. n |-> Step(f, i)]
  <2>1. \A m \in 0 .. n : m \in B
    <3> HIDE DEF B
    <3> QED
      BY <1>2, <1>3, UpTo
  <2>2. n \in B
    <3> HIDE DEF B
    <3> QED
      BY <2>1
  <2> QED
    BY <2>2
<1> DEFINE upTo == CHOOSE f : f = [i \in 0 .. n |-> Step(f, i)]
<1>5. \A i \in 0 .. n : upTo[i] = Step(upTo, i)
  <2>1. upTo = [i \in 0 .. n |-> Step(upTo, i)]
    BY <1>4
  <2> HIDE DEF upTo, Step
  <2> QED
    BY <2>1
<1>6. Squeezed(text) = upTo[n]
  BY <1>1 DEF Squeezed
<1> HIDE DEF upTo
<1>7. upTo[0] = <<>> /\ \A i \in 1 .. n : upTo[i] = IF text[i] = " " THEN upTo[i - 1]
                                                     ELSE Append(upTo[i - 1], text[i])
  <2>1. 0 \in 0 .. n /\ \A i \in 1 .. n : i \in 0 .. n /\ i # 0
    OBVIOUS
  <2> QED
    BY <1>5, <2>1
<1> HIDE DEF Step
<1> DEFINE T == {m \in Nat : upTo[m] \in Seq(Symbols)}
           I == {m \in Nat : upTo[m] = SubSeq(text, 1, m)}
<1>8. n \in T
  <2>1. 0 \in T
    <3>1. <<>> \in Seq(Symbols)
      OBVIOUS
    <3>2. upTo[0] \in Seq(Symbols)
      BY <1>7, <3>1
    <3> QED
      BY <3>2
  <2>2. ASSUME NEW m \in 1 .. n, m - 1 \in T PROVE m \in T
    <3>1. upTo[m - 1] \in Seq(Symbols) /\ text[m] \in Symbols /\ m \in Nat
      BY <1>1, <2>2
    <3>2. upTo[m] = upTo[m - 1] \/ upTo[m] = Append(upTo[m - 1], text[m])
      BY <1>7
    <3>3. Append(upTo[m - 1], text[m]) \in Seq(Symbols)
      BY <3>1
    <3>4. upTo[m] \in Seq(Symbols)
      BY <3>1, <3>2, <3>3
    <3> QED
      BY <3>1, <3>4
  <2> HIDE DEF T
  <2>3. \A m \in 0 .. n : m \in T
    BY <2>1, <2>2, UpTo
  <2> QED
    BY <2>3
<1>9. Solid(text) => n \in I
  <2> SUFFICES ASSUME Solid(text) PROVE n \in I
    OBVIOUS
  <2>1. 0 \in I
    <3>1. SubSeq(text, 1, 0) = <<>>
      BY SubSeqEmpty
    <3>2. upTo[0] = SubSeq(text, 1, 0)
      BY <1>7, <3>1
    <3> QED
      BY <3>2
  <2>2. ASSUME NEW m \in 1 .. n, m - 1 \in I PROVE m \in I
    <3>0. upTo[m - 1] = SubSeq(text, 1, m - 1) /\ m \in Nat
      BY <2>2
    <3>1. upTo[m] = Append(SubSeq(text, 1, m - 1), text[m])
      <4>1. text[m] # " "
        BY <1>1 DEF Solid
      <4>2. upTo[m] = Append(upTo[m - 1], text[m])
        BY <1>7, <4>1
      <4> QED
        BY <3>0, <4>2
    <3>2. SubSeq(text, 1, m) = Append(SubSeq(text, 1, m - 1), text[m])
      BY <1>1
    <3> QED
      BY <3>0, <3>1, <3>2
  <2> HIDE DEF I
  <2>3. \A m \in 0 .. n : m \in I
    BY <2>1, <2>2, UpTo
  <2> QED
    BY <2>3
<1> QED
  BY <1>1, <1>6, <1>8, <1>9, SubSeqFull

-------------------------------------------------------------------------------
(* Confusions undone. *)

(* t is text with some characters, one at least, replaced by a candidate.  *)
Near(r, text, t) ==
  /\ t \in Seq(Symbols) /\ DOMAIN t = DOMAIN text
  /\ \E i \in DOMAIN text : t[i] # text[i]
  /\ \A i \in DOMAIN text : t[i] # text[i] =>
       \E k \in DOMAIN Confusions(r, text[i]) : t[i] = Confusions(r, text[i])[k]

LEMMA SwapFacts ==
  ASSUME NEW r \in Regions, NEW text \in Seq(Symbols), NEW i \in DOMAIN text,
         NEW k \in DOMAIN Confusions(r, text[i])
  PROVE  LET t == [text EXCEPT ![i] = Confusions(r, text[i])[k]]
         IN  /\ Near(r, text, t) /\ t \in SwapsOf(r, text)
             /\ \A j \in DOMAIN text : (t[j] # text[j] <=> j = i)
<1> DEFINE x == Confusions(r, text[i])[k]
           t == [text EXCEPT ![i] = x]
<1>1. text[i] \in Symbols
  OBVIOUS
<1>2. x \in Symbols /\ x # text[i]
  BY <1>1, ConfusionFacts DEF Symbols
<1>3. t \in SwapsOf(r, text)
  BY DEF SwapsOf
<1>4. x = Confusions(r, text[i])[k]
  OBVIOUS
<1> HIDE DEF x
<1>5. /\ t \in Seq(Symbols) /\ DOMAIN t = DOMAIN text
      /\ t[i] = x /\ \A j \in DOMAIN text : j # i => t[j] = text[j]
  BY <1>2
<1> HIDE DEF t
<1>6. Near(r, text, t)
  BY <1>2, <1>4, <1>5 DEF Near
<1> QED
  BY <1>2, <1>3, <1>5, <1>6 DEF t, x

LEMMA SwapsAreNear ==
  ASSUME NEW r \in Regions, NEW text \in Seq(Symbols), NEW u \in SwapsOf(r, text)
  PROVE  \E i \in DOMAIN text : \E k \in DOMAIN Confusions(r, text[i]) :
           /\ u = [text EXCEPT ![i] = Confusions(r, text[i])[k]]
           /\ Near(r, text, u) /\ \A j \in DOMAIN text : (u[j] # text[j] <=> j = i)
<1>1. PICK i \in DOMAIN text : \E k \in DOMAIN Confusions(r, text[i]) :
        u = [text EXCEPT ![i] = Confusions(r, text[i])[k]]
  BY DEF SwapsOf
<1>2. PICK k \in DOMAIN Confusions(r, text[i]) : u = [text EXCEPT ![i] = Confusions(r, text[i])[k]]
  BY <1>1
<1>3. Near(r, text, u) /\ \A j \in DOMAIN text : (u[j] # text[j] <=> j = i)
  <2> DEFINE t == [text EXCEPT ![i] = Confusions(r, text[i])[k]]
  <2>1. Near(r, text, t) /\ \A j \in DOMAIN text : (t[j] # text[j] <=> j = i)
    BY SwapFacts
  <2>2. u = t
    BY <1>2
  <2> HIDE DEF t
  <2> QED
    BY <2>1, <2>2
<1> QED
  BY <1>2, <1>3

LEMMA PairsAreNear ==
  ASSUME NEW r \in Regions, NEW text \in Seq(Symbols), NEW u \in PairsOf(r, text)
  PROVE  Near(r, text, u)
<1>1. PICK t \in SwapsOf(r, text) : u \in SwapsOf(r, t)
  BY DEF PairsOf
<1>2. Cardinality({i \in DOMAIN text : u[i] # text[i]}) = 2
  BY DEF PairsOf
<1>3. PICK i \in DOMAIN text : /\ Near(r, text, t)
                               /\ \A j \in DOMAIN text : (t[j] # text[j] <=> j = i)
  BY SwapsAreNear
<1>4. t \in Seq(Symbols) /\ DOMAIN t = DOMAIN text
  BY <1>3 DEF Near
<1>5. PICK m \in DOMAIN t : /\ Near(r, t, u)
                            /\ \A j \in DOMAIN t : (u[j] # t[j] <=> j = m)
  BY <1>1, <1>4, SwapsAreNear
<1>6. u \in Seq(Symbols) /\ DOMAIN u = DOMAIN text
  BY <1>4, <1>5 DEF Near
<1>7. m # i
  <2> SUFFICES ASSUME m = i PROVE FALSE
    OBVIOUS
  <2> DEFINE D == {j \in DOMAIN text : u[j] # text[j]}
  <2>1. D \in SUBSET {i}
    BY <1>3, <1>4, <1>5
  <2>2. IsFiniteSet({i}) /\ Cardinality({i}) = 1
    BY FS_Singleton
  <2> HIDE DEF D
  <2>3. Cardinality(D) <= 1 /\ Cardinality(D) \in Nat
    BY <2>1, <2>2, FS_Subset, FS_CardinalityType
  <2> QED
    BY <1>2, <2>3 DEF D
<1>8. u[i] = t[i] /\ t[m] = text[m] /\ \A j \in DOMAIN text : j # i /\ j # m => u[j] = text[j]
  BY <1>3, <1>4, <1>5, <1>7
<1>9. /\ \E k \in DOMAIN Confusions(r, text[i]) : u[i] = Confusions(r, text[i])[k]
      /\ \E k \in DOMAIN Confusions(r, text[m]) : u[m] = Confusions(r, text[m])[k]
  <2>1. \E k \in DOMAIN Confusions(r, text[i]) : t[i] = Confusions(r, text[i])[k]
    BY <1>3 DEF Near
  <2>2. \E k \in DOMAIN Confusions(r, t[m]) : u[m] = Confusions(r, t[m])[k]
    BY <1>5 DEF Near
  <2> QED
    BY <1>8, <2>1, <2>2
<1>10. u[i] # text[i]
  BY <1>3, <1>8
<1> QED
  BY <1>4, <1>5, <1>6, <1>8, <1>9, <1>10 DEF Near

(* The loops return one of the valid texts within reach, if there is one.  *)
LEMMA FirstValidFacts ==
  ASSUME NEW r \in Regions, NEW text \in Seq(Symbols), NEW S, \A t \in S : Near(r, text, t),
         \E t \in S : IsValid(r, t)
  PROVE  FirstValid(r, text, S) \in S /\ IsValid(r, FirstValid(r, text, S))
<1> DEFINE Differs(t) == {i \in DOMAIN text : t[i] # text[i]}
           At(t, i) == 10 * i + CHOOSE k \in DOMAIN Confusions(r, text[i]) :
                                  Confusions(r, text[i])[k] = t[i]
           Rank(t) == 1000 * At(t, Min(Differs(t))) + At(t, Max(Differs(t)))
           valid == {t \in S : IsValid(r, t)}
           first == CHOOSE t \in valid : \A u \in valid : Rank(t) <= Rank(u)
<1>1. FirstValid(r, text, S) = first
  BY DEF FirstValid
<1>2. PICK n \in Nat : DOMAIN text = 1 .. n /\ \A i \in 1 .. n : text[i] \in Symbols
  OBVIOUS
<1>3. ASSUME NEW t \in S PROVE Rank(t) \in Nat
  <2>1. Differs(t) \in SUBSET Nat /\ Differs(t) # {} /\ \A i \in Differs(t) : i <= n
    BY <1>2 DEF Near
  <2>2. Min(Differs(t)) \in Differs(t) /\ Max(Differs(t)) \in Differs(t)
    <3> HIDE DEF Differs
    <3> QED
      BY <2>1, MinFacts, MaxFacts
  <2>3. ASSUME NEW i \in Differs(t) PROVE At(t, i) \in Nat
    <3> DEFINE C == Confusions(r, text[i])
    <3>1. \E k \in DOMAIN C : C[k] = t[i]
      BY DEF Near
    <3>2. DOMAIN C \subseteq {1, 2}
      BY <1>2, ConfusionFacts
    <3> DEFINE k == CHOOSE m \in DOMAIN C : C[m] = t[i]
    <3>3. k \in {1, 2}
      <4> HIDE DEF C
      <4> QED
        BY <3>1, <3>2
    <3>4. At(t, i) = 10 * i + k /\ i \in Nat
      BY <1>2
    <3> HIDE DEF k, At
    <3> QED
      BY <3>3, <3>4
  <2> DEFINE lo == Min(Differs(t))
             hi == Max(Differs(t))
  <2>4. At(t, lo) \in Nat /\ At(t, hi) \in Nat
    BY <2>2, <2>3
  <2>5. Rank(t) = 1000 * At(t, lo) + At(t, hi)
    OBVIOUS
  <2> HIDE DEF At, lo, hi, Rank
  <2> QED
    BY <2>4, <2>5
<1> HIDE DEF Rank
<1> DEFINE K == {Rank(t) : t \in valid}
<1>4. K \in SUBSET Nat /\ K # {}
  BY <1>3
<1>5. PICK m \in K : \A k \in K : m <= k
  <2> HIDE DEF K
  <2> QED
    BY <1>4, Smallest
<1>6. \E t \in valid : \A u \in valid : Rank(t) <= Rank(u)
  BY <1>5
<1>7. first \in valid
  <2> HIDE DEF valid
  <2> QED
    BY <1>6
<1> QED
  BY <1>1, <1>7

(* What a postprocessor returns for the text raw in region r.              *)
LEMMA PostprocessFacts ==
  ASSUME NEW r \in Regions, NEW raw \in Seq(Symbols)
  PROVE  LET post == Postprocess(r, raw)
             text == Normal(raw)
         IN  /\ post.text \in Seq(Symbols) /\ post.valid \in BOOLEAN
             /\ post.valid => IsValid(r, post.text)
             /\ post.valid /\ Solid(raw) => post.text = text \/ Near(r, text, post.text)
             /\ ~ post.valid => /\ ~ IsValid(r, text) /\ \A u \in SwapsOf(r, text) : ~ IsValid(r, u)
                                /\ Swaps[r] = 2 => \A u \in PairsOf(r, text) : ~ IsValid(r, u)
<1> DEFINE post == Postprocess(r, raw)
           text == Normal(raw)
           solid == Squeezed(text)
           swap == FirstValid(r, text, SwapsOf(r, text))
           pair == FirstValid(r, text, PairsOf(r, text))
           Fixed(t) == [text |-> t, valid |-> TRUE]
           AnyValid(S) == \E t \in S : IsValid(r, t)
           Result == \/ /\ post = Fixed(text) /\ IsValid(r, text)
                     \/ /\ post = Fixed(solid) /\ ~ IsValid(r, text) /\ IsValid(r, solid)
                     \/ /\ post = Fixed(swap) /\ AnyValid(SwapsOf(r, text))
                     \/ /\ post = Fixed(pair) /\ AnyValid(PairsOf(r, text))
                     \/ /\ post = [text |-> text, valid |-> FALSE]
                        /\ ~ IsValid(r, text) /\ ~ AnyValid(SwapsOf(r, text))
                        /\ Swaps[r] = 2 => ~ AnyValid(PairsOf(r, text))
<1>1. Result
  <2>1. CASE IsValid(r, text)
    <3>1. post = Fixed(text)
      BY <2>1 DEF Postprocess
    <3> QED
      BY <2>1, <3>1
  <2>2. CASE ~ IsValid(r, text) /\ r = "US" /\ IsValid(r, solid)
    <3>1. post = Fixed(solid)
      BY <2>2 DEF Postprocess
    <3> QED
      BY <2>2, <3>1
  <2>3. CASE ~ IsValid(r, text) /\ ~ (r = "US" /\ IsValid(r, solid))
    <3>1. post = IF AnyValid(SwapsOf(r, text)) THEN Fixed(swap)
                 ELSE IF Swaps[r] = 2 /\ AnyValid(PairsOf(r, text)) THEN Fixed(pair)
                 ELSE [text |-> text, valid |-> FALSE]
      BY <2>3 DEF Postprocess
    <3> HIDE DEF post, AnyValid, swap, pair, solid, text
    <3> QED
      BY <2>3, <3>1
  <2> QED
    BY <2>1, <2>2, <2>3
<1>2. text \in Seq(Symbols) /\ (Solid(raw) => Solid(text))
  BY NormalFacts
<1> HIDE DEF text
<1>3. solid \in Seq(Symbols) /\ (Solid(text) => solid = text)
  BY <1>2, SqueezedFacts
<1>4. AnyValid(SwapsOf(r, text)) => Near(r, text, swap) /\ IsValid(r, swap)
  <2>1. \A u \in SwapsOf(r, text) : Near(r, text, u)
    BY <1>2, SwapsAreNear
  <2> QED
    BY <1>2, <2>1, FirstValidFacts
<1>5. AnyValid(PairsOf(r, text)) => Near(r, text, pair) /\ IsValid(r, pair)
  <2>1. \A u \in PairsOf(r, text) : Near(r, text, u)
    BY <1>2, PairsAreNear
  <2> QED
    BY <1>2, <2>1, FirstValidFacts
<1>6. \A u : Near(r, text, u) => u \in Seq(Symbols)
  BY DEF Near
<1> HIDE DEF post, solid, swap, pair
<1>7. /\ post.text \in Seq(Symbols) /\ post.valid \in BOOLEAN
      /\ post.valid => IsValid(r, post.text)
      /\ post.valid /\ Solid(raw) => post.text = text \/ Near(r, text, post.text)
      /\ ~ post.valid => /\ ~ IsValid(r, text) /\ ~ AnyValid(SwapsOf(r, text))
                         /\ Swaps[r] = 2 => ~ AnyValid(PairsOf(r, text))
  <2>1. CASE post = Fixed(text) /\ IsValid(r, text)
    BY <1>2, <2>1
  <2>2. CASE post = Fixed(solid) /\ ~ IsValid(r, text) /\ IsValid(r, solid)
    BY <1>2, <1>3, <2>2
  <2>3. CASE post = Fixed(swap) /\ AnyValid(SwapsOf(r, text))
    BY <1>4, <1>6, <2>3
  <2>4. CASE post = Fixed(pair) /\ AnyValid(PairsOf(r, text))
    BY <1>5, <1>6, <2>4
  <2>5. CASE /\ post = [text |-> text, valid |-> FALSE]
             /\ ~ IsValid(r, text) /\ ~ AnyValid(SwapsOf(r, text))
             /\ Swaps[r] = 2 => ~ AnyValid(PairsOf(r, text))
    BY <1>2, <2>5
  <2> QED
    BY <1>1, <2>1, <2>2, <2>3, <2>4, <2>5
<1> QED
  BY <1>7 DEF post, text

(* A text none of whose swaps is valid, nor pairs of them where two are    *)
(* undone, has no valid text within reach.                                 *)
Hopeless(r, text) ==
  LET sites == {i \in DOMAIN text : Confusions(r, text[i]) # <<>>}
  IN  \A chosen \in SUBSET sites : Cardinality(chosen) <= Swaps[r] =>
        \A k \in [chosen -> 1 .. 2] :
          (\A i \in chosen : k[i] \in DOMAIN Confusions(r, text[i])) =>
            ~ IsValid(r, [i \in DOMAIN text |->
                IF i \in chosen THEN Confusions(r, text[i])[k[i]] ELSE text[i]])

LEMMA HopelessFacts ==
  ASSUME NEW r \in Regions, NEW text \in Seq(Symbols),
         ~ IsValid(r, text), \A u \in SwapsOf(r, text) : ~ IsValid(r, u),
         Swaps[r] = 2 => \A u \in PairsOf(r, text) : ~ IsValid(r, u)
  PROVE  Hopeless(r, text)
<1> SUFFICES ASSUME NEW chosen \in SUBSET DOMAIN text, Cardinality(chosen) <= Swaps[r],
                    NEW k, \A i \in chosen : k[i] \in DOMAIN Confusions(r, text[i])
             PROVE  ~ IsValid(r, [i \in DOMAIN text |->
                        IF i \in chosen THEN Confusions(r, text[i])[k[i]] ELSE text[i]])
  BY DEF Hopeless
<1> DEFINE u == [i \in DOMAIN text |-> IF i \in chosen THEN Confusions(r, text[i])[k[i]] ELSE text[i]]
           swap(i) == [text EXCEPT ![i] = Confusions(r, text[i])[k[i]]]
<1>1. PICK n \in Nat : DOMAIN text = 1 .. n /\ \A i \in 1 .. n : text[i] \in Symbols
  OBVIOUS
<1>2. IsFiniteSet(chosen) /\ Cardinality(chosen) \in Nat
  <2>1. IsFiniteSet(1 .. n)
    BY FS_Interval
  <2>2. chosen \in SUBSET (1 .. n)
    BY <1>1
  <2> QED
    BY <2>1, <2>2, FS_Subset, FS_CardinalityType
<1>3. Swaps[r] \in {1, 2}
  BY DEF Swaps, Regions
<1>4. text = [i \in DOMAIN text |-> text[i]]
  OBVIOUS
<1>5. CASE Cardinality(chosen) = 0
  <2>1. chosen = {}
    BY <1>2, <1>5, FS_EmptySet
  <2>2. u = text
    BY <1>4, <2>1
  <2> HIDE DEF u
  <2> QED
    BY <2>2 DEF u
<1>6. CASE Cardinality(chosen) = 1
  <2>1. PICK i \in DOMAIN text : chosen = {i}
    BY <1>2, <1>6, FS_Singleton
  <2>2. swap(i) \in SwapsOf(r, text)
    BY <2>1 DEF SwapsOf
  <2>3. u = swap(i)
    BY <1>4, <2>1
  <2> HIDE DEF u, swap
  <2> QED
    BY <2>2, <2>3 DEF u
<1>7. CASE Cardinality(chosen) = 2
  <2>1. PICK i \in chosen : TRUE
    BY <1>2, <1>7, FS_EmptySet
  <2>2. IsFiniteSet(chosen \ {i}) /\ Cardinality(chosen \ {i}) = 1
    <3>1. Cardinality(chosen \ {i}) = Cardinality(chosen) - 1 /\ IsFiniteSet(chosen \ {i})
      BY <1>2, <2>1, FS_RemoveElement
    <3> QED
      BY <1>7, <3>1
  <2>3. PICK j : chosen \ {i} = {j}
    BY <2>2, FS_Singleton
  <2>4. i \in DOMAIN text /\ j \in DOMAIN text /\ i # j /\ chosen = {i, j}
    BY <2>1, <2>3
  <2> DEFINE t == swap(i)
             x == Confusions(r, text[j])[k[j]]
  <2>5. t \in SwapsOf(r, text) /\ DOMAIN t = DOMAIN text /\ t[j] = text[j]
    BY <2>4 DEF SwapsOf
  <2>6. [t EXCEPT ![j] = x] \in SwapsOf(r, t)
    <3>1. k[j] \in DOMAIN Confusions(r, t[j]) /\ x = Confusions(r, t[j])[k[j]]
      BY <2>4, <2>5
    <3>2. ASSUME NEW m \in DOMAIN Confusions(r, t[j])
          PROVE  [t EXCEPT ![j] = Confusions(r, t[j])[m]] \in SwapsOf(r, t)
      <4>1. j \in DOMAIN t
        BY <2>4, <2>5
      <4> HIDE DEF t
      <4> QED
        BY <4>1 DEF SwapsOf
    <3> HIDE DEF t, x
    <3> QED
      BY <3>1, <3>2
  <2>7. u = [t EXCEPT ![j] = x]
    BY <2>4
  <2>8. {m \in DOMAIN text : u[m] # text[m]} = {i, j}
    <3>1. ASSUME NEW m \in chosen PROVE u[m] # text[m]
      <4>1. m \in DOMAIN text /\ text[m] \in Symbols /\ u[m] = Confusions(r, text[m])[k[m]]
        BY <1>1, <3>1
      <4> QED
        BY <3>1, <4>1, ConfusionFacts
    <3>2. \A m \in DOMAIN text : m \notin chosen => u[m] = text[m]
      OBVIOUS
    <3> HIDE DEF u
    <3> QED
      BY <2>4, <3>1, <3>2
  <2>9. Cardinality({i, j}) = 2
    BY <1>7, <2>4
  <2> HIDE DEF u, t, x
  <2>10. u \in PairsOf(r, text)
    BY <2>5, <2>6, <2>7, <2>8, <2>9 DEF PairsOf
  <2>11. Swaps[r] = 2
    BY <1>3, <1>7
  <2> QED
    BY <2>10, <2>11 DEF u
<1> QED
  BY <1>2, <1>3, <1>5, <1>6, <1>7

-------------------------------------------------------------------------------
(* The decision about a frame is what postprocessing and the gate make of  *)
(* the history it was appended to: that is all the properties rest on.     *)

Final(h) == IF Len(h) >= 3 THEN Vote(h) ELSE h[Len(h)]

Verdict(h, r) ==
  LET final == Final(h)
      post == Postprocess(r, final.text)
  IN  [region |-> r, read |-> final.text, confs |-> final.confs,
       text |-> IF post.valid THEN post.text ELSE final.text,
       valid |-> post.valid, persist |-> Gate(final.confs, post.valid)]

Start == [region |-> "IN", read |-> <<>>, confs |-> <<>>, text |-> <<>>,
          valid |-> FALSE, persist |-> FALSE]

TrackInv ==
  /\ history \in Seq(Reading) /\ decision.region \in Regions
  /\ history = <<>> => inputs = <<<<>>, <<>>>> /\ decision = Start
  /\ history # <<>> => /\ inputs \in BackendOutputs \X BackendOutputs
                       /\ history[Len(history)] = Fuse(inputs[1], inputs[2])
                       /\ decision = Verdict(history, decision.region)

LEMMA OutputsAreReads == \A o \in BackendOutputs : o \in Reads
BY RecognitionAssumption DEF RecognitionAssumption, Reads

LEMMA InitTrackInv == Init => TrackInv
<1> SUFFICES ASSUME Init PROVE TrackInv
  OBVIOUS
<1>1. history = <<>> /\ inputs = <<<<>>, <<>>>> /\ decision = Start
  BY DEF Init, Start
<1>2. decision.region = "IN" /\ "IN" \in Regions
  BY <1>1 DEF Start, Regions
<1>3. <<>> \in Seq(Reading)
  OBVIOUS
<1> QED
  BY <1>1, <1>2, <1>3 DEF TrackInv

LEMMA FrameTrackInv ==
  ASSUME TrackInv, NEW a \in BackendOutputs, NEW b \in BackendOutputs, NEW r \in Regions, Frame(a, b, r)
  PROVE  TrackInv'
<1> DEFINE fused == Fuse(a, b)
           h == Append(history, fused)
           final == IF Len(h) >= 3 THEN Vote(h) ELSE fused
           post == Postprocess(r, final.text)
<1>1. fused \in Reading
  BY OutputsAreReads, FuseFacts
<1>2. history \in Seq(Reading)
  BY DEF TrackInv
<1> HIDE DEF fused
<1>3. h \in Seq(Reading) /\ h # <<>> /\ h[Len(h)] = fused
  BY <1>1, <1>2
<1>4. history' = h /\ inputs' = <<a, b>>
  BY DEF Frame, fused
<1>5. decision' = [region |-> r, read |-> final.text, confs |-> final.confs,
                   text |-> IF post.valid THEN post.text ELSE final.text,
                   valid |-> post.valid, persist |-> Gate(final.confs, post.valid)]
  BY DEF Frame, fused
<1> HIDE DEF h
<1>6. final = Final(h)
  BY <1>3 DEF Final
<1>7. decision' = Verdict(h, r)
  BY <1>5, <1>6 DEF Verdict
<1>8. decision'.region = r
  BY <1>5
<1>9. inputs' \in BackendOutputs \X BackendOutputs /\ inputs'[1] = a /\ inputs'[2] = b
  BY <1>4
<1>10. Verdict(history', decision'.region) = Verdict(h, r)
  BY <1>4, <1>8
<1>11. history'[Len(history')] = Fuse(inputs'[1], inputs'[2])
  BY <1>3, <1>4, <1>9 DEF fused
<1> HIDE DEF final, post
<1> QED
  BY <1>3, <1>4, <1>7, <1>8, <1>9, <1>10, <1>11 DEF TrackInv

LEMMA NextTrackInv == TrackInv /\ [Next]_vars => TrackInv'
<1> SUFFICES ASSUME TrackInv, [Next]_vars PROVE TrackInv'
  OBVIOUS
<1>1. CASE Next
  BY <1>1, FrameTrackInv DEF Next
<1>2. CASE UNCHANGED vars
  BY <1>2 DEF TrackInv, Verdict, Final, vars
<1> QED
  BY <1>1, <1>2

LEMMA SpecTrackInv == Spec => []TrackInv
BY InitTrackInv, NextTrackInv, PTL DEF Spec

-------------------------------------------------------------------------------
(* The properties. *)

LEMMA FinalFacts ==
  ASSUME NEW h \in Seq(Reading), h # <<>>
  PROVE  /\ Final(h).text \in Seq(Symbols) /\ Final(h).confs \in Seq(0 .. 100)
         /\ Len(Final(h).confs) = Len(Final(h).text)
<1>1. CASE Len(h) >= 3
  BY <1>1, VoteFacts DEF Final
<1>2. CASE ~ (Len(h) >= 3)
  <2>1. Len(h) \in DOMAIN h
    BY ReadingFacts
  <2>2. /\ h[Len(h)].text \in Seq(Chars) /\ h[Len(h)].confs \in Seq(0 .. 100)
        /\ Len(h[Len(h)].confs) = Len(h[Len(h)].text)
    BY <2>1, ReadingFacts
  <2>3. \A t \in Seq(Chars) : t \in Seq(Symbols)
    BY SeqMonotonic DEF Symbols
  <2> QED
    BY <1>2, <2>2, <2>3 DEF Final
<1> QED
  BY <1>1, <1>2

(* The fields of a verdict. *)
LEMMA VerdictFacts ==
  ASSUME NEW h \in Seq(Reading), h # <<>>, NEW r \in Regions
  PROVE  LET v == Verdict(h, r)
             final == Final(h)
             post == Postprocess(r, final.text)
         IN  /\ v \in [region: Regions, read: Seq(Symbols), confs: Seq(0 .. 100),
                       text: Seq(Symbols), valid: BOOLEAN, persist: BOOLEAN]
             /\ v.region = r /\ v.read = final.text /\ v.confs = final.confs
             /\ v.valid = post.valid /\ v.persist = Gate(final.confs, post.valid)
             /\ post.valid => v.text = post.text
             /\ Len(v.confs) = Len(v.read)
<1> DEFINE v == Verdict(h, r)
           final == Final(h)
           post == Postprocess(r, final.text)
           text == IF post.valid THEN post.text ELSE final.text
<1>1. /\ final.text \in Seq(Symbols) /\ final.confs \in Seq(0 .. 100)
      /\ Len(final.confs) = Len(final.text)
  BY FinalFacts
<1>2. post.text \in Seq(Symbols) /\ post.valid \in BOOLEAN
  BY <1>1, PostprocessFacts
<1>3. Gate(final.confs, post.valid) \in BOOLEAN
  BY <1>2 DEF Gate
<1>4. v = [region |-> r, read |-> final.text, confs |-> final.confs, text |-> text,
           valid |-> post.valid, persist |-> Gate(final.confs, post.valid)]
  BY DEF Verdict
<1>5. text \in Seq(Symbols) /\ (post.valid => text = post.text)
  BY <1>1, <1>2
<1> HIDE DEF v, final, post, text
<1>6. /\ v \in [region: Regions, read: Seq(Symbols), confs: Seq(0 .. 100),
                text: Seq(Symbols), valid: BOOLEAN, persist: BOOLEAN]
      /\ v.region = r /\ v.read = final.text /\ v.confs = final.confs /\ v.text = text
      /\ v.valid = post.valid /\ v.persist = Gate(final.confs, post.valid)
  BY <1>1, <1>2, <1>3, <1>4, <1>5
<1> QED
  BY <1>1, <1>5, <1>6 DEF v, final, post

(* Readings and decisions have their types, a confidence for each of their *)
(* characters, through fusion (ocr/fuser.py) and voting (voter.py).        *)
THEOREM TypeCorrect == Spec => []TypeOK
<1>1. ASSUME TrackInv PROVE TypeOK
  <2>1. inputs \in {<<<<>>, <<>>>>} \cup (BackendOutputs \X BackendOutputs)
    BY <1>1 DEF TrackInv
  <2>2. history \in Seq([text: Seq(Chars), confs: Seq(0 .. 100)])
    <3>1. Reading \subseteq [text: Seq(Chars), confs: Seq(0 .. 100)]
      BY DEF Reading
    <3> QED
      BY <1>1, <3>1, SeqMonotonic DEF TrackInv
  <2>3. \A i \in DOMAIN history : Len(history[i].confs) = Len(history[i].text)
    BY <1>1, ReadingFacts DEF TrackInv
  <2>4. /\ decision \in [region: Regions, read: Seq(Symbols), confs: Seq(0 .. 100),
                         text: Seq(Symbols), valid: BOOLEAN, persist: BOOLEAN]
        /\ Len(decision.confs) = Len(decision.read)
    <3>1. CASE history = <<>>
      <4>1. decision = Start
        BY <1>1, <3>1 DEF TrackInv
      <4>2. "IN" \in Regions /\ <<>> \in Seq(Symbols) /\ <<>> \in Seq(0 .. 100)
        BY DEF Regions
      <4> QED
        BY <4>1, <4>2 DEF Start
    <3>2. CASE history # <<>>
      <4>1. decision = Verdict(history, decision.region)
        BY <1>1, <3>2 DEF TrackInv
      <4> DEFINE r == decision.region
      <4>2. r \in Regions /\ decision = Verdict(history, r)
        BY <1>1, <4>1 DEF TrackInv
      <4> HIDE DEF r
      <4>3. history \in Seq(Reading)
        BY <1>1 DEF TrackInv
      <4> QED
        BY <3>2, <4>2, <4>3, VerdictFacts
    <3> QED
      BY <3>1, <3>2
  <2> QED
    BY <2>1, <2>2, <2>3, <2>4 DEF TypeOK, Symbols
<1> QED
  BY <1>1, SpecTrackInv, PTL

(* Fusion loses no evidence and a majority of three or more readings wins  *)
(* (ocr/fuser.py, pipeline/voter.py).                                      *)
THEOREM EvidenceAlwaysDecides == Spec => []EvidenceDecides
<1>1. ASSUME TrackInv PROVE FusionKeepsEvidence
  <2> SUFFICES ASSUME history # <<>>
               PROVE  Keeps(history[Len(history)], inputs[1], inputs[2])
    BY DEF FusionKeepsEvidence, Keeps
  <2>1. inputs[1] \in BackendOutputs /\ inputs[2] \in BackendOutputs
        /\ history[Len(history)] = Fuse(inputs[1], inputs[2])
    BY <1>1 DEF TrackInv
  <2>2. inputs[1] \in Reads /\ inputs[2] \in Reads
    BY <2>1, OutputsAreReads
  <2>3. Keeps(Fuse(inputs[1], inputs[2]), inputs[1], inputs[2])
    BY <2>2, FuseFacts
  <2> QED
    BY <2>1, <2>3
<1>2. ASSUME TrackInv PROVE MajorityWins
  <2> SUFFICES ASSUME Len(history) >= 3, NEW p \in DOMAIN decision.read, NEW c \in Chars,
                      2 * Cardinality(Supporters(history, p, c)) > Len(history)
               PROVE  decision.read[p] = c
    BY DEF MajorityWins
  <2>1. history \in Seq(Reading) /\ history # <<>> /\ decision.region \in Regions
    BY <1>2 DEF TrackInv
  <2>2. decision = Verdict(history, decision.region)
    BY <1>2, <2>1 DEF TrackInv
  <2>3. PICK r \in Regions : decision = Verdict(history, r)
    BY <2>1, <2>2
  <2>4. decision.read = Vote(history).text
    BY <2>1, <2>3, VerdictFacts DEF Final
  <2> QED
    BY <2>1, <2>4, MajorityFacts
<1> QED
  BY <1>1, <1>2, SpecTrackInv, PTL DEF EvidenceDecides

LEMMA GateFacts ==
  ASSUME NEW confs \in Seq(0 .. 100), NEW valid \in BOOLEAN, Gate(confs, valid)
  PROVE  valid /\ confs # <<>> /\ \A p \in DOMAIN confs : confs[p] >= 75
<1>1. valid /\ PlateConfidence(confs) >= 75
  BY DEF Gate
<1>2. confs # <<>>
  BY <1>1 DEF PlateConfidence
<1> DEFINE C == {confs[i] : i \in DOMAIN confs}
<1>3. ASSUME NEW i \in DOMAIN confs PROVE confs[i] \in Nat
  <2>1. confs[i] \in 0 .. 100
    BY ElementOfSeq, LenProperties
  <2>2. \A x \in 0 .. 100 : x \in Nat
    OBVIOUS
  <2> QED
    BY <2>1, <2>2
<1>4. C \in SUBSET Nat
  BY <1>3
<1>5. Min(C) >= 75
  BY <1>1, <1>2 DEF PlateConfidence
<1>6. ASSUME NEW p \in DOMAIN confs PROVE confs[p] >= 75
  <2>1. confs[p] \in C
    OBVIOUS
  <2> HIDE DEF C
  <2>2. Min(C) \in C /\ Min(C) <= confs[p]
    BY <1>4, <2>1, MinFacts
  <2>3. Min(C) \in Nat /\ confs[p] \in Nat
    BY <1>4, <2>1, <2>2
  <2> QED
    BY <1>5, <2>2, <2>3
<1> QED
  BY <1>1, <1>2, <1>6

LEMMA LongIsNonEmpty ==
  ASSUME NEW h \in Seq(Reading), Len(h) >= 3
  PROVE  h # <<>>
OBVIOUS

(* What the votes of three or more readings put through the gate: their    *)
(* winner, with two votes.                                                 *)
LEMMA WonTwice ==
  ASSUME NEW h \in Seq(Reading), Len(h) >= 3, NEW p \in DOMAIN Vote(h).text,
         Vote(h).confs[p] >= 75
  PROVE  /\ Vote(h).text[p] = BestVote(h, p) /\ BestVote(h, p) \in Chars
         /\ Cardinality(Supporters(h, p, BestVote(h, p))) >= 2
<1> DEFINE best == BestVote(h, p)
           votes == Cardinality(Supporters(h, p, best))
<1>1. PICK n \in Nat : n = Len(h) /\ n >= 3
  OBVIOUS
<1>2. h # <<>>
  BY <1>1
<1>3. /\ best \in Chars
      /\ Quorum(votes, Len(h)) => Vote(h).text[p] = best
      /\ ~ Quorum(votes, Len(h)) => Vote(h).confs[p] = 0
  BY <1>2, VoteFacts
<1>4. Quorum(votes, n)
  BY <1>1, <1>3
<1>5. votes \in Nat
  BY SupportersFacts
<1> HIDE DEF votes
<1>6. votes >= 2
  BY <1>1, <1>4, <1>5 DEF Quorum, MinVotes
<1> QED
  BY <1>1, <1>3, <1>4, <1>6 DEF votes

(* A text that is persisted is a plate of its region, read with confidence *)
(* (postproc/gate.py), and after three readings every character of it was  *)
(* read twice or is the confusion of one that was (voter.py, regions/).    *)
THEOREM PersistedAlwaysSound == Spec => []PersistedIsSound
<1>1. ASSUME TrackInv, decision.persist, history # <<>>
      PROVE  \E r \in Regions :
               LET final == Final(history)
                   post == Postprocess(r, final.text)
               IN  /\ decision.region = r /\ decision.text = post.text /\ post.valid
                   /\ decision.read = final.text /\ decision.confs = final.confs
                   /\ final.confs # <<>> /\ \A p \in DOMAIN final.confs : final.confs[p] >= 75
  <2>1. history \in Seq(Reading) /\ decision.region \in Regions
        /\ decision = Verdict(history, decision.region)
    BY <1>1 DEF TrackInv
  <2>2. PICK r \in Regions : decision = Verdict(history, r)
    BY <2>1
  <2> DEFINE final == Final(history)
             post == Postprocess(r, final.text)
  <2>3. /\ decision.region = r /\ decision.read = final.text /\ decision.confs = final.confs
        /\ decision.persist = Gate(final.confs, post.valid)
        /\ post.valid => decision.text = post.text
    BY <1>1, <2>1, <2>2, VerdictFacts
  <2>4. final.text \in Seq(Symbols) /\ final.confs \in Seq(0 .. 100)
    BY <1>1, <2>1, FinalFacts
  <2>5. post.valid \in BOOLEAN
    BY <2>4, PostprocessFacts
  <2>6. Gate(final.confs, post.valid)
    BY <1>1, <2>3
  <2> HIDE DEF final, post
  <2>7. post.valid /\ final.confs # <<>> /\ \A p \in DOMAIN final.confs : final.confs[p] >= 75
    BY <2>4, <2>5, <2>6, GateFacts
  <2> QED
    BY <2>3, <2>7 DEF final, post
<1>2. ASSUME TrackInv, decision.persist PROVE history # <<>>
  BY <1>2 DEF TrackInv, Start
<1>3. ASSUME TrackInv PROVE PersistedIsValid
  <2> SUFFICES ASSUME decision.persist
               PROVE  /\ IsValid(decision.region, decision.text)
                      /\ decision.confs # <<>> /\ \A p \in DOMAIN decision.confs : decision.confs[p] >= 75
    BY DEF PersistedIsValid
  <2>1. PICK r \in Regions :
          LET final == Final(history)
              post == Postprocess(r, final.text)
          IN  /\ decision.region = r /\ decision.text = post.text /\ post.valid
              /\ decision.confs = final.confs
              /\ final.confs # <<>> /\ \A p \in DOMAIN final.confs : final.confs[p] >= 75
    BY <1>1, <1>2, <1>3
  <2>2. Final(history).text \in Seq(Symbols)
    BY <1>2, <1>3, FinalFacts DEF TrackInv
  <2>3. IsValid(r, Postprocess(r, Final(history).text).text)
    BY <2>1, <2>2, PostprocessFacts
  <2> QED
    BY <2>1, <2>3
<1>4. ASSUME TrackInv PROVE PersistedWasReadTwice
  <2> SUFFICES ASSUME decision.persist, Len(history) >= 3,
                      \A p \in DOMAIN decision.read : decision.read[p] # " ",
                      NEW p \in DOMAIN decision.text
               PROVE  \E c \in Chars :
                        /\ Cardinality(Supporters(history, p, c)) >= 2
                        /\ decision.text[p] \in {Upper(c)} \cup
                             {Confusions(decision.region, Upper(c))[k] :
                                k \in DOMAIN Confusions(decision.region, Upper(c))}
    BY DEF PersistedWasReadTwice
  <2>1. history \in Seq(Reading) /\ history # <<>> /\ Final(history) = Vote(history)
    <3>1. history \in Seq(Reading)
      BY <1>4 DEF TrackInv
    <3>2. history # <<>>
      BY <3>1, LongIsNonEmpty
    <3>3. Final(history) = Vote(history)
      BY DEF Final
    <3> QED
      BY <3>1, <3>2, <3>3
  <2>2. PICK r \in Regions :
          LET final == Final(history)
              post == Postprocess(r, final.text)
          IN  /\ decision.region = r /\ decision.text = post.text /\ post.valid
              /\ decision.read = final.text /\ decision.confs = final.confs
              /\ \A q \in DOMAIN final.confs : final.confs[q] >= 75
    BY <1>1, <1>4, <2>1
  <2> DEFINE read == Vote(history).text
             text == Normal(read)
             t == Postprocess(r, read).text
  <2>3. decision.text = t /\ decision.read = read /\ Postprocess(r, read).valid
        /\ \A q \in DOMAIN Vote(history).confs : Vote(history).confs[q] >= 75
    BY <2>1, <2>2
  <2>4. read \in Seq(Symbols) /\ Solid(read)
    BY <2>1, <2>3, VoteFacts DEF Solid
  <2>5. t = text \/ Near(r, text, t)
    BY <2>3, <2>4, PostprocessFacts
  <2>6. DOMAIN text = DOMAIN read /\ \A q \in DOMAIN read : text[q] = Upper(read[q])
    BY <2>4, NormalFacts
  <2>7. DOMAIN t = DOMAIN read
    BY <2>5, <2>6 DEF Near
  <2>8. p \in DOMAIN read
    BY <2>3, <2>7
  <2>9. p \in DOMAIN Vote(history).confs
    BY <2>1, <2>8, VoteFacts
  <2>10. PICK c \in Chars : read[p] = c /\ Cardinality(Supporters(history, p, c)) >= 2
    BY <2>1, <2>3, <2>8, <2>9, WonTwice
  <2>11. text[p] = Upper(c)
    BY <2>6, <2>8, <2>10
  <2> HIDE DEF text, t
  <2>12. t[p] = Upper(c) \/ \E k \in DOMAIN Confusions(r, Upper(c)) : t[p] = Confusions(r, Upper(c))[k]
    BY <2>5, <2>6, <2>8, <2>11 DEF Near
  <2> QED
    BY <2>2, <2>3, <2>10, <2>12
<1>5. TrackInv => PersistedIsSound
  BY <1>3, <1>4 DEF PersistedIsSound
<1> QED
  BY <1>5, SpecTrackInv, PTL

(* Postprocessing only gives up when no way to undo the confusions a       *)
(* region allows makes a plate of the text (regions/*.py, _fix_confusion). *)
THEOREM AlwaysHopeless == Spec => []GivesUpOnlyWhenHopeless
<1>1. ASSUME TrackInv PROVE GivesUpOnlyWhenHopeless
  <2> SUFFICES ASSUME decision.read # <<>>, ~ decision.valid
               PROVE  Hopeless(decision.region, Normal(decision.read))
    BY DEF GivesUpOnlyWhenHopeless, Hopeless
  <2>1. history # <<>>
    BY <1>1 DEF TrackInv, Start
  <2>2. history \in Seq(Reading) /\ decision.region \in Regions
        /\ decision = Verdict(history, decision.region)
    BY <1>1, <2>1 DEF TrackInv
  <2>3. PICK r \in Regions : r = decision.region /\ decision = Verdict(history, r)
    BY <2>2
  <2> DEFINE read == Final(history).text
             text == Normal(read)
  <2>4. decision.read = read /\ decision.valid = Postprocess(r, read).valid
    BY <2>1, <2>2, <2>3, VerdictFacts
  <2>5. read \in Seq(Symbols)
    BY <2>1, <2>2, FinalFacts
  <2>6. text \in Seq(Symbols)
    BY <2>5, NormalFacts
  <2>7. /\ ~ IsValid(r, text) /\ \A u \in SwapsOf(r, text) : ~ IsValid(r, u)
        /\ Swaps[r] = 2 => \A u \in PairsOf(r, text) : ~ IsValid(r, u)
    BY <2>4, <2>5, PostprocessFacts
  <2> HIDE DEF text, read
  <2>8. Hopeless(r, text)
    BY <2>6, <2>7, HopelessFacts
  <2> QED
    BY <2>3, <2>4, <2>8 DEF text
<1> QED
  BY <1>1, SpecTrackInv, PTL

==============================================================================
