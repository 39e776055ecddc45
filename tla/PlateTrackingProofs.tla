------------------------- MODULE PlateTrackingProofs --------------------------
(***************************************************************************)
(* Theorems about PlateTracking, for every set of plates, every number of  *)
(* frames, tracks and readings and every buffer of ByteTrack.              *)
(***************************************************************************)
EXTENDS PlateTracking, SequenceTheorems, FiniteSetTheorems, WellFoundedInduction, TLAPS

-------------------------------------------------------------------------------
(* Sets of naturals. *)

LEMMA Smallest ==
  ASSUME NEW S \in SUBSET Nat, S # {}
  PROVE  \E m \in S : \A k \in S : m <= k
<1> DEFINE R == {ss \in Nat \X Nat : ss[1] < ss[2]}
<1>1. IsWellFoundedOn(R, Nat)
  BY NatLessThanWellFounded DEF OpToRel
<1>2. PICK m \in S : \A k \in S : ~ (<<k, m>> \in R)
  <2> HIDE DEF R
  <2> QED
    BY <1>1, WFMin
<1>3. ASSUME NEW k \in S PROVE m <= k
  <2>1. k \in Nat /\ m \in Nat /\ ~ (<<k, m>> \in R)
    BY <1>2
  <2>2. ~ (k < m)
    BY <2>1
  <2> QED
    BY <2>1, <2>2
<1> QED
  BY <1>3

(* The members of K up to k, and what the place of k in K is. *)
Below(K, k) == {j \in K : j <= k}

LEMMA RankExists ==
  ASSUME NEW n \in Nat, NEW K \in SUBSET (1 .. n), NEW i \in 1 .. Cardinality(K)
  PROVE  \E k \in K : Cardinality(Below(K, k)) = i
<1> DEFINE B == {k \in Nat : Cardinality(Below(K, k)) >= i}
<1>0. n \in Nat /\ \A j \in K : j \in Int /\ 1 <= j /\ j <= n
  OBVIOUS
<1>1. IsFiniteSet(K) /\ Cardinality(K) \in Nat
  <2>1. IsFiniteSet(1 .. n)
    BY FS_Interval
  <2> QED
    BY <2>1, FS_Subset, FS_CardinalityType
<1>2. \A k : IsFiniteSet(Below(K, k)) /\ Cardinality(Below(K, k)) \in Nat
  <2>1. \A k : Below(K, k) \in SUBSET K
    BY DEF Below
  <2> QED
    BY <1>1, <2>1, FS_Subset, FS_CardinalityType
<1>3. n \in B
  <2>1. Below(K, n) = K
    BY <1>0 DEF Below
  <2> QED
    BY <1>1, <2>1
<1>4. PICK m \in B : \A k \in B : m <= k
  <2>1. B \in SUBSET Nat /\ B # {}
    BY <1>3
  <2> HIDE DEF B
  <2> QED
    BY <2>1, Smallest
<1>5. m # 0
  <2>0. \A j \in K : ~ (j <= 0)
    BY <1>0
  <2>1. Below(K, 0) = {}
    BY <2>0 DEF Below
  <2>2. Cardinality(Below(K, 0)) = 0
    BY <2>1, FS_EmptySet
  <2> QED
    BY <1>1, <2>2
<1>6. m - 1 \in Nat /\ Cardinality(Below(K, m - 1)) < i
  <2>1. m - 1 \in Nat /\ m \in Nat /\ m - 1 < m
    BY <1>5
  <2>2. m - 1 \notin B
    <3> HIDE DEF B
    <3> QED
      BY <1>4, <2>1
  <2>3. i \in Nat /\ Cardinality(Below(K, m - 1)) \in Nat
    BY <1>1, <1>2
  <2> QED
    BY <2>1, <2>2, <2>3
<1>7. m \in K
  <2> SUFFICES ASSUME m \notin K PROVE FALSE
    OBVIOUS
  <2>1. m \in Int /\ \A j \in K : j <= m <=> j <= m - 1
    BY <1>0, <1>4, <1>6
  <2>2. Below(K, m) = Below(K, m - 1)
    BY <2>1 DEF Below
  <2> QED
    BY <1>1, <1>2, <1>4, <1>6, <2>2
<1>8. Cardinality(Below(K, m)) = Cardinality(Below(K, m - 1)) + 1
  <2>0. m \in Int /\ ~ (m <= m - 1) /\ \A j \in K : j <= m <=> (j <= m - 1 \/ j = m)
    BY <1>0, <1>7
  <2>1. Below(K, m) = Below(K, m - 1) \cup {m} /\ m \notin Below(K, m - 1)
    BY <1>7, <2>0 DEF Below
  <2> QED
    BY <1>2, <2>1, FS_AddElement
<1> QED
  BY <1>1, <1>2, <1>4, <1>6, <1>7, <1>8

-------------------------------------------------------------------------------
(* What a filtered sequence is made of. *)

(* Kept(s, K) has as many elements as K, and each of them stands at an     *)
(* index of its own of s.                                                  *)
LEMMA KeptFacts ==
  ASSUME NEW S, NEW s \in Seq(S), NEW K \in SUBSET (DOMAIN s)
  PROVE  /\ Kept(s, K) \in Seq(S)
         /\ Cardinality(K) \in Nat /\ Cardinality(K) <= Len(s)
         /\ Len(Kept(s, K)) = Cardinality(K)
         /\ \E pos \in [1 .. Cardinality(K) -> K] :
              /\ \A i \in 1 .. Cardinality(K) : Kept(s, K)[i] = s[pos[i]]
              /\ \A i, j \in 1 .. Cardinality(K) : pos[i] = pos[j] => i = j
<1>1. /\ Len(s) \in Nat /\ DOMAIN s = 1 .. Len(s) /\ K \in SUBSET (1 .. Len(s))
      /\ \A i \in 1 .. Len(s) : s[i] \in S
  BY LenProperties
<1>2. IsFiniteSet(K) /\ Cardinality(K) \in Nat /\ Cardinality(K) <= Len(s)
  <2>1. IsFiniteSet(1 .. Len(s)) /\ Cardinality(1 .. Len(s)) = Len(s)
    BY <1>1, FS_Interval
  <2> QED
    BY <1>1, <2>1, FS_Subset, FS_CardinalityType
<1> DEFINE n == Cardinality(K)
           at(i) == CHOOSE k \in K : Cardinality(Below(K, k)) = i
           pos == [i \in 1 .. n |-> at(i)]
<1>3. \A i \in 1 .. n : at(i) \in K /\ Cardinality(Below(K, at(i))) = i
  <2> SUFFICES ASSUME NEW i \in 1 .. n PROVE at(i) \in K /\ Cardinality(Below(K, at(i))) = i
    OBVIOUS
  <2>1. \E k \in K : Cardinality(Below(K, k)) = i
    BY <1>1, RankExists
  <2> QED
    BY <2>1
<1>4. Kept(s, K) = [i \in 1 .. n |-> s[at(i)]]
  BY DEF Kept, Below
<1> HIDE DEF at
<1>5. Kept(s, K) \in Seq(S) /\ Len(Kept(s, K)) = n
  <2>1. \A i \in 1 .. n : s[at(i)] \in S
    BY <1>1, <1>3
  <2>2. Kept(s, K) \in [1 .. n -> S]
    BY <1>4, <2>1
  <2> HIDE DEF n
  <2> QED
    BY <1>2, <2>2 DEF n
<1>6. pos \in [1 .. n -> K] /\ (\A i \in 1 .. n : Kept(s, K)[i] = s[pos[i]])
  BY <1>3, <1>4
<1>7. \A i, j \in 1 .. n : pos[i] = pos[j] => i = j
  <2> SUFFICES ASSUME NEW i \in 1 .. n, NEW j \in 1 .. n, pos[i] = pos[j] PROVE i = j
    OBVIOUS
  <2>1. at(i) = at(j)
    OBVIOUS
  <2> QED
    BY <1>3, <2>1
<1> HIDE DEF pos
<1> QED
  BY <1>2, <1>5, <1>6, <1>7

(* No plate is found twice. *)
Distinct(s) == \A i, j \in DOMAIN s : s[i].plate = s[j].plate => i = j

LEMMA KeptDistinct ==
  ASSUME NEW s \in Seq(Detections), Distinct(s), NEW K \in SUBSET (DOMAIN s)
  PROVE  /\ Kept(s, K) \in Seq(Detections)
         /\ Len(Kept(s, K)) \in Nat /\ DOMAIN Kept(s, K) = 1 .. Len(Kept(s, K))
         /\ Len(Kept(s, K)) <= Len(s)
         /\ Distinct(Kept(s, K))
         /\ \A i \in DOMAIN Kept(s, K) : Kept(s, K)[i].plate \in PlatesOf(s)
<1> DEFINE n == Cardinality(K)
<1>1. /\ Kept(s, K) \in Seq(Detections) /\ n \in Nat /\ n <= Len(s)
      /\ Len(Kept(s, K)) = n
      /\ \E pos \in [1 .. n -> K] :
           /\ \A i \in 1 .. n : Kept(s, K)[i] = s[pos[i]]
           /\ \A i, j \in 1 .. n : pos[i] = pos[j] => i = j
  BY KeptFacts
<1> HIDE DEF n
<1>2. PICK pos \in [1 .. n -> K] :
        /\ \A i \in 1 .. n : Kept(s, K)[i] = s[pos[i]]
        /\ \A i, j \in 1 .. n : pos[i] = pos[j] => i = j
  BY <1>1
<1>3. DOMAIN Kept(s, K) = 1 .. n
  BY <1>1, LenProperties
<1>4. \A i \in 1 .. n : pos[i] \in DOMAIN s
  BY <1>2
<1>5. Distinct(Kept(s, K))
  BY <1>2, <1>3, <1>4 DEF Distinct
<1>6. \A i \in 1 .. n : Kept(s, K)[i].plate \in PlatesOf(s)
  BY <1>2, <1>4 DEF PlatesOf
<1> QED
  BY <1>1, <1>3, <1>5, <1>6

LEMMA ReadableFacts ==
  ASSUME NEW raw \in RawDetections
  PROVE  Readable(raw) \in Seq(Detections) /\ Distinct(Readable(raw))
<1>1. PICK n \in 1 .. Cardinality(Plates) :
        /\ raw \in [1 .. n -> Detections]
        /\ \A i, j \in 1 .. n : raw[i].plate = raw[j].plate => i = j
  BY DEF RawDetections
<1>2. raw \in Seq(Detections)
  <2>1. Cardinality(Plates) \in Nat
    BY PlateTrackingAssumption, FS_CardinalityType DEF PlateTrackingAssumption
  <2>2. n \in Nat
    BY <2>1
  <2> QED
    BY <1>1, <2>2
<1>3. Distinct(raw)
  BY <1>1 DEF Distinct
<1> QED
  BY <1>2, <1>3, KeptDistinct DEF Readable

LEMMA ReturnedFacts ==
  ASSUME NEW dets \in Seq(Detections), Distinct(dets)
  PROVE  /\ Returned(dets) \in Seq(Detections)
         /\ Len(Returned(dets)) \in Nat /\ DOMAIN Returned(dets) = 1 .. Len(Returned(dets))
         /\ Len(Returned(dets)) <= Len(dets)
         /\ Distinct(Returned(dets))
         /\ \A i \in DOMAIN Returned(dets) : Returned(dets)[i].plate \in PlatesOf(dets)
<1> DEFINE K == {i \in DOMAIN dets : dets[i].returned}
<1>1. Returned(dets) = Kept(dets, K) /\ K \in SUBSET (DOMAIN dets)
  BY DEF Returned
<1> HIDE DEF K
<1> QED
  BY <1>1, KeptDistinct

LEMMA PlatesOfFacts ==
  ASSUME NEW dets \in Seq(Detections)
  PROVE  /\ PlatesOf(dets) \subseteq Plates /\ NewPlates(dets) \subseteq PlatesOf(dets)
         /\ IsFiniteSet(NewPlates(dets)) /\ Cardinality(NewPlates(dets)) \in Nat
<1>1. \A i \in DOMAIN dets : dets[i] \in Detections
  BY LenProperties
<1>2. \A d \in Detections : d.plate \in Plates
  BY DEF Detections
<1>3. PlatesOf(dets) \subseteq Plates /\ NewPlates(dets) \subseteq PlatesOf(dets)
  BY <1>1, <1>2 DEF PlatesOf, NewPlates
<1>4. IsFiniteSet(Plates) /\ NewPlates(dets) \in SUBSET Plates
  BY <1>3, PlateTrackingAssumption DEF PlateTrackingAssumption
<1> QED
  BY <1>3, <1>4, FS_Subset, FS_CardinalityType

-------------------------------------------------------------------------------
(* The tracks ByteTrack gives to the plates of a frame. *)

Place(dets, p) == CHOOSE k \in DOMAIN dets : dets[k].plate = p
Before(dets, p) == {q \in NewPlates(dets) : \E k \in 1 .. Place(dets, p) : dets[k].plate = q}

(* The new plates of a frame are numbered from 1 without a repetition. *)
LEMMA NewNumbers ==
  ASSUME NEW dets \in Seq(Detections), Distinct(dets)
  PROVE  /\ \A p \in NewPlates(dets) :
              Cardinality(Before(dets, p)) \in 1 .. Cardinality(NewPlates(dets))
         /\ \A p, q \in NewPlates(dets) :
              Cardinality(Before(dets, p)) = Cardinality(Before(dets, q)) => p = q
<1> DEFINE N == NewPlates(dets)
<1>1. IsFiniteSet(N) /\ Cardinality(N) \in Nat /\ N \subseteq PlatesOf(dets)
  BY PlatesOfFacts
<1>2. PICK n \in Nat : n = Len(dets) /\ DOMAIN dets = 1 .. n
  BY LenProperties
<1>3. \A p \in N : Place(dets, p) \in 1 .. n /\ dets[Place(dets, p)].plate = p
  <2> SUFFICES ASSUME NEW p \in N
               PROVE  Place(dets, p) \in 1 .. n /\ dets[Place(dets, p)].plate = p
    OBVIOUS
  <2>1. \E k \in DOMAIN dets : dets[k].plate = p
    BY <1>1 DEF PlatesOf
  <2> QED
    BY <1>2, <2>1 DEF Place
<1> HIDE DEF N
<1>4. \A p \in N : Before(dets, p) \in SUBSET N /\ p \in Before(dets, p)
  <2> SUFFICES ASSUME NEW p \in N PROVE Before(dets, p) \in SUBSET N /\ p \in Before(dets, p)
    OBVIOUS
  <2>1. Place(dets, p) \in 1 .. Place(dets, p)
    BY <1>3
  <2> QED
    BY <1>3, <2>1 DEF Before, N
<1>5. \A p \in N : /\ IsFiniteSet(Before(dets, p))
                   /\ Cardinality(Before(dets, p)) \in 1 .. Cardinality(N)
  <2> SUFFICES ASSUME NEW p \in N
               PROVE  /\ IsFiniteSet(Before(dets, p))
                      /\ Cardinality(Before(dets, p)) \in 1 .. Cardinality(N)
    OBVIOUS
  <2>1. /\ IsFiniteSet(Before(dets, p)) /\ Cardinality(Before(dets, p)) \in Nat
        /\ Cardinality(Before(dets, p)) <= Cardinality(N)
    BY <1>1, <1>4, FS_Subset, FS_CardinalityType
  <2>2. Cardinality(Before(dets, p)) # 0
    BY <1>4, <2>1, FS_EmptySet
  <2> QED
    BY <1>1, <2>1, <2>2
<1>6. ASSUME NEW p \in N, NEW q \in N, Place(dets, p) < Place(dets, q)
      PROVE  Cardinality(Before(dets, p)) # Cardinality(Before(dets, q))
  <2>1. Before(dets, p) \in SUBSET Before(dets, q)
    <3>1. \A k \in 1 .. Place(dets, p) : k \in 1 .. Place(dets, q)
      BY <1>3, <1>6
    <3> QED
      BY <3>1 DEF Before
  <2>2. q \notin Before(dets, p)
    <3> SUFFICES ASSUME NEW k \in 1 .. Place(dets, p), dets[k].plate = q PROVE FALSE
      BY DEF Before
    <3>1. k \in DOMAIN dets /\ Place(dets, q) \in DOMAIN dets /\ k # Place(dets, q)
      BY <1>2, <1>3, <1>6
    <3> QED
      BY <1>3, <3>1 DEF Distinct
  <2>3. Before(dets, p) # Before(dets, q)
    BY <1>4, <2>2
  <2> QED
    BY <1>5, <2>1, <2>3, FS_Subset
<1>7. ASSUME NEW p \in N, NEW q \in N, Cardinality(Before(dets, p)) = Cardinality(Before(dets, q))
      PROVE  p = q
  <2>1. /\ Place(dets, p) \in Int /\ Place(dets, q) \in Int
        /\ ~ (Place(dets, p) < Place(dets, q)) /\ ~ (Place(dets, q) < Place(dets, p))
    BY <1>3, <1>6, <1>7
  <2>2. Place(dets, p) = Place(dets, q)
    BY <2>1
  <2> QED
    BY <1>3, <2>2
<1> QED
  BY <1>5, <1>7 DEF N

TrackRecords == [id: {0} \cup TrackIds, age: 0 .. Buffer]

(* The tracks ByteTrack has are those it handed out, one plate each. *)
TracksAreDistinct ==
  /\ \A p \in Plates : trackOf[p] = NoTrack \/ trackOf[p].id \in 1 .. ids
  /\ \A p, q \in Plates : trackOf[p].id = trackOf[q].id /\ trackOf[p].id # 0 => p = q

(* What NextTrack says of a plate, with the number of a new plate named. *)
LEMMA NextTrackCases ==
  ASSUME NEW dets, NEW p
  PROVE  /\ p \in NewPlates(dets) =>
              NextTrack(dets, p) = [id |-> ids + Cardinality(Before(dets, p)), age |-> 0]
         /\ p \notin NewPlates(dets) /\ p \in PlatesOf(dets) =>
              NextTrack(dets, p) = [trackOf[p] EXCEPT !.age = 0]
         /\ p \notin NewPlates(dets) /\ p \notin PlatesOf(dets) =>
              \/ /\ trackOf[p] # NoTrack /\ trackOf[p].age < Buffer
                 /\ NextTrack(dets, p) = [trackOf[p] EXCEPT !.age = @ + 1]
              \/ NextTrack(dets, p) = NoTrack
<1>1. CASE p \in NewPlates(dets)
  BY <1>1 DEF NextTrack, Before, Place, NewPlates
<1>2. CASE p \notin NewPlates(dets) /\ p \in PlatesOf(dets)
  BY <1>2 DEF NextTrack
<1>3. CASE p \notin NewPlates(dets) /\ p \notin PlatesOf(dets)
  BY <1>3 DEF NextTrack
<1> QED
  BY <1>1, <1>2, <1>3

LEMMA NextTrackFacts ==
  ASSUME trackOf \in [Plates -> TrackRecords], ids \in {0} \cup TrackIds, TracksAreDistinct,
         NEW dets \in Seq(Detections), Distinct(dets),
         ids + Cardinality(NewPlates(dets)) <= MaxTracks
  PROVE  LET n == ids + Cardinality(NewPlates(dets))
         IN  /\ n \in {0} \cup TrackIds
             /\ \A p \in Plates :
                  /\ NextTrack(dets, p) \in TrackRecords
                  /\ NextTrack(dets, p) = NoTrack \/ NextTrack(dets, p).id \in 1 .. n
                  /\ p \in PlatesOf(dets) => NextTrack(dets, p).id \in 1 .. n
             /\ \A p, q \in Plates :
                  /\ NextTrack(dets, p).id = NextTrack(dets, q).id
                  /\ NextTrack(dets, p).id # 0
                  => p = q
<1> DEFINE N == NewPlates(dets)
           n == ids + Cardinality(N)
           num(p) == Cardinality(Before(dets, p))
<1>1. /\ MaxTracks \in Nat /\ Buffer \in Nat /\ ids \in Nat /\ Cardinality(N) \in Nat
      /\ n \in Nat /\ n <= MaxTracks /\ N \subseteq PlatesOf(dets)
  BY PlatesOfFacts, PlateTrackingAssumption DEF PlateTrackingAssumption, TrackIds
<1>2. n \in {0} \cup TrackIds
  BY <1>1 DEF TrackIds
<1>3. \A p \in N : num(p) \in Nat /\ 1 <= num(p) /\ num(p) <= Cardinality(N)
  BY <1>1, NewNumbers
<1>4. \A p, q \in N : num(p) = num(q) => p = q
  BY NewNumbers
<1>5. \A p \in Plates : /\ trackOf[p] = [id |-> trackOf[p].id, age |-> trackOf[p].age]
                        /\ trackOf[p].id \in Nat /\ trackOf[p].id \in {0} \cup TrackIds
                        /\ trackOf[p].age \in 0 .. Buffer
                        /\ trackOf[p] = NoTrack \/ (1 <= trackOf[p].id /\ trackOf[p].id <= ids)
  BY <1>1 DEF TrackRecords, TracksAreDistinct, TrackIds
<1>6. \A p \in Plates : p \in PlatesOf(dets) /\ p \notin N => trackOf[p] # NoTrack
  BY DEF NewPlates
<1>7. \A p \in Plates : p \in N => NextTrack(dets, p) = [id |-> ids + num(p), age |-> 0]
  BY NextTrackCases
<1>8. \A p \in Plates : p \notin N =>
        \/ NextTrack(dets, p) = NoTrack /\ p \notin PlatesOf(dets)
        \/ /\ trackOf[p] # NoTrack
           /\ \E a \in 0 .. Buffer : NextTrack(dets, p) = [id |-> trackOf[p].id, age |-> a]
  <2> SUFFICES ASSUME NEW p \in Plates, p \notin N
               PROVE  \/ NextTrack(dets, p) = NoTrack /\ p \notin PlatesOf(dets)
                      \/ /\ trackOf[p] # NoTrack
                         /\ \E a \in 0 .. Buffer :
                              NextTrack(dets, p) = [id |-> trackOf[p].id, age |-> a]
    OBVIOUS
  <2>1. CASE p \in PlatesOf(dets)
    <3>1. NextTrack(dets, p) = [trackOf[p] EXCEPT !.age = 0] /\ trackOf[p] # NoTrack
      BY <1>6, <2>1, NextTrackCases
    <3>2. NextTrack(dets, p) = [id |-> trackOf[p].id, age |-> 0]
      BY <1>5, <3>1
    <3>3. 0 \in 0 .. Buffer
      BY <1>1
    <3> QED
      BY <3>1, <3>2, <3>3
  <2>2. CASE p \notin PlatesOf(dets) /\ NextTrack(dets, p) # NoTrack
    <3>1. /\ trackOf[p] # NoTrack /\ trackOf[p].age < Buffer
          /\ NextTrack(dets, p) = [trackOf[p] EXCEPT !.age = @ + 1]
      BY <2>2, NextTrackCases
    <3>2. NextTrack(dets, p) = [id |-> trackOf[p].id, age |-> trackOf[p].age + 1]
      BY <1>5, <3>1
    <3>3. trackOf[p].age + 1 \in 0 .. Buffer
      BY <1>1, <1>5, <3>1
    <3> QED
      BY <3>1, <3>2, <3>3
  <2> QED
    BY <2>1, <2>2
<1> HIDE DEF num, N
<1>9. \A p \in Plates : p \in N => /\ NextTrack(dets, p).id = ids + num(p)
                                  /\ NextTrack(dets, p).id \in 1 .. n
                                  /\ NextTrack(dets, p).id > ids
                                  /\ NextTrack(dets, p) \in TrackRecords
  <2> SUFFICES ASSUME NEW p \in Plates, p \in N
               PROVE  /\ NextTrack(dets, p).id = ids + num(p)
                      /\ NextTrack(dets, p).id \in 1 .. n
                      /\ NextTrack(dets, p).id > ids
                      /\ NextTrack(dets, p) \in TrackRecords
    OBVIOUS
  <2>1. NextTrack(dets, p).id = ids + num(p) /\ NextTrack(dets, p) = [id |-> ids + num(p), age |-> 0]
    BY <1>7
  <2>2. ids + num(p) \in 1 .. n /\ ids + num(p) \in 1 .. MaxTracks /\ ids + num(p) > ids
    BY <1>1, <1>3
  <2>3. 0 \in 0 .. Buffer
    BY <1>1
  <2> QED
    BY <2>1, <2>2, <2>3 DEF TrackRecords, TrackIds
<1>10. \A p \in Plates : p \notin N =>
         /\ NextTrack(dets, p) \in TrackRecords
         /\ \/ /\ NextTrack(dets, p) = NoTrack /\ NextTrack(dets, p).id = 0
               /\ p \notin PlatesOf(dets)
            \/ /\ NextTrack(dets, p).id = trackOf[p].id /\ trackOf[p].id # 0
               /\ NextTrack(dets, p).id \in 1 .. n /\ NextTrack(dets, p).id <= ids
  <2> SUFFICES ASSUME NEW p \in Plates, p \notin N
               PROVE  /\ NextTrack(dets, p) \in TrackRecords
                      /\ \/ /\ NextTrack(dets, p) = NoTrack /\ NextTrack(dets, p).id = 0
                            /\ p \notin PlatesOf(dets)
                         \/ /\ NextTrack(dets, p).id = trackOf[p].id /\ trackOf[p].id # 0
                            /\ NextTrack(dets, p).id \in 1 .. n /\ NextTrack(dets, p).id <= ids
    OBVIOUS
  <2>1. CASE NextTrack(dets, p) = NoTrack /\ p \notin PlatesOf(dets)
    BY <1>1, <2>1 DEF NoTrack, TrackRecords
  <2>2. ASSUME trackOf[p] # NoTrack, NEW a \in 0 .. Buffer,
               NextTrack(dets, p) = [id |-> trackOf[p].id, age |-> a]
        PROVE  /\ NextTrack(dets, p) \in TrackRecords
               /\ NextTrack(dets, p).id = trackOf[p].id /\ trackOf[p].id # 0
               /\ NextTrack(dets, p).id \in 1 .. n /\ NextTrack(dets, p).id <= ids
    <3>1. /\ trackOf[p].id \in {0} \cup TrackIds /\ trackOf[p].id \in Nat
          /\ 1 <= trackOf[p].id /\ trackOf[p].id <= ids
      BY <1>5, <2>2
    <3>2. trackOf[p].id \in 1 .. n /\ trackOf[p].id # 0
      BY <1>1, <3>1
    <3> QED
      BY <2>2, <3>1, <3>2 DEF TrackRecords
  <2> QED
    BY <1>8, <2>1, <2>2
<1>11. ASSUME NEW p \in Plates, NEW q \in Plates,
              NextTrack(dets, p).id = NextTrack(dets, q).id, NextTrack(dets, p).id # 0
       PROVE  p = q
  <2>1. CASE p \in N /\ q \in N
    <3>1. num(p) = num(q)
      BY <1>1, <1>3, <1>9, <1>11, <2>1
    <3> QED
      BY <1>4, <2>1, <3>1
  <2>2. CASE p \notin N /\ q \notin N
    BY <1>10, <1>11, <2>2 DEF TracksAreDistinct
  <2>3. CASE p \in N /\ q \notin N
    BY <1>1, <1>9, <1>10, <1>11, <2>3
  <2>4. CASE p \notin N /\ q \in N
    BY <1>1, <1>9, <1>10, <1>11, <2>4
  <2> QED
    BY <2>1, <2>2, <2>3, <2>4
<1> HIDE DEF n
<1>12. \A p \in Plates :
         /\ NextTrack(dets, p) \in TrackRecords
         /\ NextTrack(dets, p) = NoTrack \/ NextTrack(dets, p).id \in 1 .. n
         /\ p \in PlatesOf(dets) => NextTrack(dets, p).id \in 1 .. n
  BY <1>9, <1>10
<1> QED
  BY <1>2, <1>11, <1>12 DEF n, N

-------------------------------------------------------------------------------
(* The vote over the readings of a track. *)

LEMMA TextsAreSequences ==
  /\ Texts \subseteq Seq(Chars)
  /\ \A t \in Texts : t \in Seq(Chars \cup {Unsure})
<1>1. Texts \subseteq Seq(Chars)
  <2>1. \A p \in Plates : ReadAs[p] \subseteq Seq(Chars)
    BY PlateTrackingAssumption DEF PlateTrackingAssumption
  <2>2. Blank \in Seq(Chars)
    BY DEF Blank
  <2>3. ASSUME NEW t \in Texts PROVE t = Blank \/ \E p \in Plates : t \in ReadAs[p]
    BY DEF Texts
  <2> QED
    BY <2>1, <2>2, <2>3
<1>2. \A t \in Seq(Chars) : t \in Seq(Chars \cup {Unsure})
  BY SeqMonotonic
<1> QED
  BY <1>1, <1>2

LEMMA HistoryFacts ==
  ASSUME NEW h \in Seq(Entry)
  PROVE  /\ Len(h) \in Nat /\ DOMAIN h = 1 .. Len(h)
         /\ \A i \in DOMAIN h :
              /\ h[i].text \in Texts /\ h[i].text \in Seq(Chars) /\ Len(h[i].text) \in Nat
              /\ DOMAIN h[i].text = 1 .. Len(h[i].text)
              /\ \A p \in 1 .. Len(h[i].text) : h[i].text[p] \in Chars
<1>1. Len(h) \in Nat /\ DOMAIN h = 1 .. Len(h) /\ \A i \in DOMAIN h : h[i] \in Entry
  BY LenProperties
<1>2. \A e \in Entry : e.text \in Texts
  BY DEF Entry
<1>3. \A t \in Seq(Chars) : /\ Len(t) \in Nat /\ DOMAIN t = 1 .. Len(t)
                            /\ \A p \in 1 .. Len(t) : t[p] \in Chars
  BY LenProperties, ElementOfSeq
<1> QED
  BY <1>1, <1>2, <1>3, TextsAreSequences

LEMMA SupportersFacts ==
  ASSUME NEW h \in Seq(Entry), NEW p, NEW c
  PROVE  /\ Cardinality(Supporters(h, p, c)) \in Nat
         /\ Supporters(h, p, c) # {} => Cardinality(Supporters(h, p, c)) >= 1
         /\ Cardinality(Supporters(h, p, c)) >= 1 => Supporters(h, p, c) # {}
<1> DEFINE S == Supporters(h, p, c)
<1>1. Len(h) \in Nat /\ DOMAIN h = 1 .. Len(h)
  BY HistoryFacts
<1>2. IsFiniteSet(1 .. Len(h))
  BY <1>1, FS_Interval
<1>3. S \in SUBSET (1 .. Len(h))
  BY <1>1 DEF Supporters
<1> HIDE DEF S
<1>4. IsFiniteSet(S)
  BY <1>2, <1>3, FS_Subset
<1>5. Cardinality(S) \in Nat /\ (Cardinality(S) = 0 <=> S = {})
  BY <1>4, FS_CardinalityType, FS_EmptySet
<1> QED
  BY <1>5 DEF S

LEMMA LongestIsNat ==
  ASSUME NEW h \in Seq(Entry), Len(h) >= 3
  PROVE  Longest(h) \in Nat
<1> DEFINE L == {Len(h[i].text) : i \in DOMAIN h}
           B == {n \in Nat : \E b \in Nat : \A i \in DOMAIN h : i <= n => Len(h[i].text) <= b}
<1>1. Len(h) \in Nat /\ DOMAIN h = 1 .. Len(h) /\ \A i \in DOMAIN h : Len(h[i].text) \in Nat
  BY HistoryFacts
<1>2. L \in SUBSET Nat /\ L # {}
  <2>1. 1 \in DOMAIN h
    BY <1>1
  <2> QED
    BY <1>1, <2>1
<1>3. 0 \in B
  BY <1>1
<1>4. ASSUME NEW n \in 1 .. Len(h), n - 1 \in B PROVE n \in B
  <2>1. PICK b \in Nat : \A i \in DOMAIN h : i <= n - 1 => Len(h[i].text) <= b
    BY <1>4
  <2>2. n \in DOMAIN h /\ b + Len(h[n].text) \in Nat
    BY <1>1, <2>1
  <2>3. ASSUME NEW i \in DOMAIN h, i <= n PROVE Len(h[i].text) <= b + Len(h[n].text)
    <3>1. Len(h[i].text) \in Nat /\ Len(h[n].text) \in Nat /\ i \in Nat /\ n \in Nat
      BY <1>1, <2>2
    <3>2. i = n \/ i <= n - 1
      BY <2>3, <3>1
    <3> QED
      BY <2>1, <3>1, <3>2
  <2>4. n \in Nat
    OBVIOUS
  <2> QED
    BY <2>2, <2>3, <2>4
<1>5. Len(h) \in B
  <2> DEFINE D == {n \in 0 .. Len(h) : n \notin B}
  <2>1. ASSUME D # {} PROVE FALSE
    <3>1. PICK m \in D : \A k \in D : m <= k
      <4>1. D \in SUBSET Nat
        BY <1>1
      <4> HIDE DEF D
      <4> QED
        BY <2>1, <4>1, Smallest
    <3> HIDE DEF B
    <3>2. m # 0 /\ m \in 1 .. Len(h) /\ m - 1 \in 0 .. Len(h) /\ ~ (m <= m - 1)
      BY <1>1, <1>3, <3>1
    <3>3. m - 1 \in B
      BY <3>1, <3>2
    <3> QED
      BY <1>4, <3>1, <3>2, <3>3
  <2> HIDE DEF B
  <2> QED
    BY <1>1, <2>1
<1>6. PICK b \in Nat : \A i \in DOMAIN h : Len(h[i].text) <= b
  BY <1>1, <1>5
<1> DEFINE D == {k \in Nat : \E y \in L : y + k = b}
<1>7. D \in SUBSET Nat /\ D # {} /\ \A y \in L : y \in Nat /\ b - y \in D
  <2>1. \A y \in L : y <= b /\ y \in Nat
    BY <1>2, <1>6
  <2> HIDE DEF L
  <2>2. ASSUME NEW y \in L PROVE y \in Nat /\ b - y \in D
    <3>1. b - y \in Nat /\ y + (b - y) = b /\ y \in Nat
      BY <2>1
    <3> QED
      BY <3>1
  <2> QED
    BY <1>2, <2>2
<1>8. PICK m \in D : \A k \in D : m <= k
  <2> HIDE DEF D
  <2> QED
    BY <1>7, Smallest
<1> HIDE DEF L
<1>9. PICK x \in L : x + m = b
  BY <1>8
<1>10. ASSUME NEW y \in L PROVE x >= y
  <2>1. y \in Nat /\ x \in Nat /\ m \in Nat /\ m <= b - y
    BY <1>7, <1>8, <1>9
  <2> QED
    BY <1>9, <2>1
<1> QED
  BY <1>2, <1>9, <1>10 DEF Longest, Max, L

(* A character that three or more readings vote was read by two of them.   *)
LEMMA VotedFacts ==
  ASSUME NEW h \in Seq(Entry), Len(h) >= 3
  PROVE  /\ VotedText(h) \in Seq(Chars \cup {Unsure})
         /\ \A p \in DOMAIN VotedText(h) :
              VotedText(h)[p] \in Chars =>
                Cardinality(Supporters(h, p, VotedText(h)[p])) >= 2
<1> DEFINE char(p) == IF Wins(h, p) THEN BestVote(h, p) ELSE Unsure
<1>1. PICK n \in Nat : n = Longest(h)
  BY LongestIsNat
<1>2. VotedText(h) = [p \in 1 .. n |-> char(p)]
  BY <1>1 DEF VotedText
<1>3. Unsure \notin Chars
  BY PlateTrackingAssumption DEF PlateTrackingAssumption
<1>4. ASSUME NEW p \in 1 .. n
      PROVE  /\ char(p) \in Chars \cup {Unsure}
             /\ char(p) \in Chars => Cardinality(Supporters(h, p, char(p))) >= 2
  <2>1. CASE Wins(h, p)
    <3> DEFINE best == BestVote(h, p)
               votes == Cardinality(Supporters(h, p, best))
    <3>1. votes \in Nat /\ Len(h) \in Nat
      BY SupportersFacts, HistoryFacts
    <3>2. votes >= MinVotes \/ 100 * votes >= 67 * Len(h)
      BY <2>1 DEF Wins, Voters, Quorum
    <3> HIDE DEF votes
    <3>3. votes >= 2
      BY <3>1, <3>2 DEF MinVotes
    <3>4. Supporters(h, p, best) # {}
      BY <3>1, <3>3, SupportersFacts DEF votes
    <3>5. PICK i \in DOMAIN h : p <= Len(h[i].text) /\ h[i].text[p] = best
      BY <3>4 DEF Supporters
    <3>6. best \in Chars
      BY <1>1, <3>5, HistoryFacts
    <3> QED
      BY <2>1, <3>3, <3>6 DEF votes
  <2>2. CASE ~ Wins(h, p)
    BY <1>3, <2>2
  <2> QED
    BY <2>1, <2>2
<1> HIDE DEF char
<1>5. VotedText(h) \in [1 .. n -> Chars \cup {Unsure}]
  BY <1>2, <1>4
<1>6. \A f : f \in [1 .. n -> Chars \cup {Unsure}] => f \in Seq(Chars \cup {Unsure})
  OBVIOUS
<1> QED
  BY <1>2, <1>4, <1>5, <1>6

(* What the report says is read, of a track whose last reading is text.    *)
Needed(h) == IF Len(h) >= 3 THEN 2 ELSE 1

LEMMA FinalTextFacts ==
  ASSUME NEW h \in Seq(Entry), NEW text \in Texts, \E k \in DOMAIN h : h[k].text = text
  PROVE  /\ FinalText(h, text) \in Seq(Chars \cup {Unsure})
         /\ \A p \in DOMAIN FinalText(h, text) :
              FinalText(h, text)[p] \in Chars =>
                Cardinality(Supporters(h, p, FinalText(h, text)[p])) >= Needed(h)
<1>1. CASE Len(h) >= 3
  BY <1>1, VotedFacts DEF FinalText, Needed
<1>2. CASE ~ (Len(h) >= 3)
  <2>1. FinalText(h, text) = text /\ Needed(h) = 1
    BY <1>2 DEF FinalText, Needed
  <2>2. text \in Seq(Chars \cup {Unsure})
    BY TextsAreSequences
  <2>3. ASSUME NEW p \in DOMAIN text
        PROVE  Cardinality(Supporters(h, p, text[p])) >= 1
    <3>1. PICK k \in DOMAIN h : h[k].text = text
      OBVIOUS
    <3>2. p <= Len(h[k].text)
      BY <3>1, HistoryFacts
    <3>3. Supporters(h, p, text[p]) # {}
      BY <3>1, <3>2 DEF Supporters
    <3> QED
      BY <3>3, SupportersFacts
  <2> QED
    BY <2>1, <2>2, <2>3
<1> QED
  BY <1>1, <1>2

(* Postprocessing keeps the length, and changes a character to one it is   *)
(* confused with or not at all; only a text without Unsure is persisted.   *)
LEMMA JudgedFacts ==
  ASSUME NEW d, d.track \in TrackIds, d.read \in Seq(Chars \cup {Unsure}), NEW x \in Judged(d)
  PROVE  /\ x \in Detection /\ x.track = d.track /\ x.read = d.read
         /\ x.persist => /\ DOMAIN x.text = DOMAIN x.read
                         /\ \A p \in DOMAIN x.read :
                              x.read[p] \in Chars /\ x.text[p] \in {x.read[p]} \cup Confused[x.read[p]]
<1>1. PICK u \in Postprocessed(d.read), k \in {b \in BOOLEAN : b => CanPass(d.read)} :
        x = [track |-> d.track, read |-> d.read, text |-> u, persist |-> k]
  BY DEF Judged
<1>2. x.track = d.track /\ x.read = d.read /\ x.text = u /\ x.persist = k
  BY <1>1
<1>3. CASE CanPass(d.read)
  <2>1. \A p \in DOMAIN d.read : d.read[p] \in Chars
    BY <1>3 DEF CanPass
  <2>2. DOMAIN u = DOMAIN d.read /\ u = [p \in DOMAIN d.read |-> u[p]]
        /\ \A p \in DOMAIN d.read : u[p] = d.read[p] \/ u[p] \in Confused[d.read[p]]
    BY <1>1, <1>3 DEF Postprocessed, Rewrites
  <2>3. \A c \in Chars : Confused[c] \subseteq Chars
    BY PlateTrackingAssumption DEF PlateTrackingAssumption
  <2>4. \A p \in DOMAIN d.read : u[p] \in Chars \cup {Unsure}
    BY <2>1, <2>2, <2>3
  <2>5. PICK n \in Nat : DOMAIN d.read = 1 .. n
    BY LenProperties
  <2>6. u \in [1 .. n -> Chars \cup {Unsure}]
    BY <2>2, <2>4, <2>5
  <2>7. u \in Seq(Chars \cup {Unsure})
    BY <2>6
  <2>8. x \in Detection
    BY <1>1, <1>3, <2>7 DEF Detection
  <2> QED
    BY <1>2, <2>1, <2>2, <2>8
<1>4. CASE ~ CanPass(d.read)
  <2>1. x \in Detection
    BY <1>1, <1>4 DEF Postprocessed, Detection
  <2> QED
    BY <1>1, <1>2, <1>4, <2>1
<1> QED
  BY <1>3, <1>4

-------------------------------------------------------------------------------
(* What a frame adds to the histories. *)

Reading(ocr, i) == IF i <= Len(ocr) THEN ocr[i] ELSE [text |-> Blank, crop |-> NoCrop]
NewEntry(dets, ocr, i) ==
  [frame_idx |-> tracker_frame, text |-> Reading(ocr, i).text,
   of |-> Returned(dets)[i].plate, crop |-> Reading(ocr, i).crop,
   whole |-> Returned(dets) = dets]
NewEntries(dets, ocr, t) ==
  {NewEntry(dets, ocr, i) : i \in {k \in DOMAIN Returned(dets) : TrackId(dets, k) = t}}

LEMMA UpdateFacts ==
  ASSUME NEW dets, NEW ocr, Update(dets, ocr)
  PROVE  /\ ids + Cardinality(NewPlates(dets)) <= MaxTracks
         /\ history' = [t \in TrackIds |-> history[t] \o SetToSeq(NewEntries(dets, ocr, t))]
         /\ trackOf' = [p \in Plates |-> NextTrack(dets, p)]
         /\ ids' = ids + Cardinality(NewPlates(dets))
         /\ tracker_frame' = tracker_frame + 1
BY DEF Update, NewEntries, NewEntry, Reading

LEMMA SetToSeqFacts ==
  /\ SetToSeq({}) = <<>>
  /\ \A x : SetToSeq({x}) = <<x>>
<1>1. SetToSeq({}) = <<>>
  <2>1. Cardinality({}) = 0
    BY FS_EmptySet
  <2>2. \E f \in [1 .. 0 -> {}] : IsInjective(f)
    <3>1. <<>> \in [1 .. 0 -> {}] /\ IsInjective(<<>>)
      BY DEF IsInjective
    <3> QED
      BY <3>1
  <2>3. SetToSeq({}) \in [1 .. 0 -> {}]
    BY <2>1, <2>2 DEF SetToSeq
  <2> QED
    BY <2>3
<1>2. ASSUME NEW x PROVE SetToSeq({x}) = <<x>>
  <2>1. Cardinality({x}) = 1
    BY FS_Singleton
  <2>2. <<x>> \in [1 .. 1 -> {x}] /\ IsInjective(<<x>>)
    BY DEF IsInjective
  <2>3. SetToSeq({x}) \in [1 .. 1 -> {x}]
    BY <2>1, <2>2 DEF SetToSeq
  <2> QED
    BY <2>3
<1> QED
  BY <1>1, <1>2

LEMMA FunctionIsSeq ==
  ASSUME NEW S, NEW n \in Nat, NEW f \in [1 .. n -> S]
  PROVE  f \in Seq(S) /\ Len(f) = n
<1>1. f \in Seq(S)
  OBVIOUS
<1>2. Len(f) \in Nat /\ DOMAIN f = 1 .. Len(f) /\ DOMAIN f = 1 .. n
  BY <1>1, LenProperties
<1> QED
  BY <1>1, <1>2

LEMMA OcrFacts ==
  ASSUME NEW dets \in Seq(Detections)
  PROVE  /\ Len(OcrResults(dets)) = Len(dets)
         /\ \A i \in 1 .. Len(dets) :
              /\ OcrResults(dets)[i].text = dets[i].text
              /\ OcrResults(dets)[i].crop = dets[i].plate
              /\ dets[i].text \in Texts /\ dets[i].plate \in Plates
<1>1. PICK n \in Nat : n = Len(dets) /\ DOMAIN dets = 1 .. n /\ \A i \in 1 .. n : dets[i] \in Detections
  BY LenProperties
<1>2. \A d \in Detections : d.text \in Texts /\ d.plate \in Plates
  BY DEF Detections
<1>3. OcrResults(dets) = [i \in 1 .. n |-> [text |-> dets[i].text, crop |-> dets[i].plate]]
  BY <1>1 DEF OcrResults
<1>4. OcrResults(dets) \in Seq([text: Texts, crop: Plates]) /\ Len(OcrResults(dets)) = n
  <2>1. \A i \in 1 .. n : [text |-> dets[i].text, crop |-> dets[i].plate] \in [text: Texts, crop: Plates]
    BY <1>1, <1>2
  <2>2. OcrResults(dets) \in [1 .. n -> [text: Texts, crop: Plates]] /\ DOMAIN OcrResults(dets) = 1 .. n
    BY <1>3, <2>1
  <2> QED
    BY <2>2, FunctionIsSeq
<1> QED
  BY <1>1, <1>2, <1>3, <1>4

(* Every detection ByteTrack returns is filed under a track of its own,    *)
(* with the text read at its place; of its own plate if none was dropped.  *)
LEMMA EntryFacts ==
  ASSUME trackOf \in [Plates -> TrackRecords], ids \in {0} \cup TrackIds, TracksAreDistinct,
         tracker_frame \in 0 .. MaxFrames,
         NEW dets \in Seq(Detections), Distinct(dets),
         ids + Cardinality(NewPlates(dets)) <= MaxTracks
  PROVE  /\ \A i \in DOMAIN Returned(dets) :
              /\ TrackId(dets, i) \in TrackIds
              /\ NewEntry(dets, OcrResults(dets), i) \in Entry
              /\ NewEntry(dets, OcrResults(dets), i).frame_idx = tracker_frame
              /\ NewEntry(dets, OcrResults(dets), i).text = OcrResults(dets)[i].text
              /\ NewEntry(dets, OcrResults(dets), i).whole =>
                   NewEntry(dets, OcrResults(dets), i).crop = NewEntry(dets, OcrResults(dets), i).of
         /\ \A i, j \in DOMAIN Returned(dets) : TrackId(dets, i) = TrackId(dets, j) => i = j
<1> DEFINE ocr == OcrResults(dets)
           ret == Returned(dets)
           n == ids + Cardinality(NewPlates(dets))
<1>1. /\ \A p \in Plates : p \in PlatesOf(dets) => NextTrack(dets, p).id \in 1 .. n
      /\ \A p, q \in Plates :
           NextTrack(dets, p).id = NextTrack(dets, q).id /\ NextTrack(dets, p).id # 0 => p = q
      /\ n \in {0} \cup TrackIds
  BY NextTrackFacts
<1>2. /\ Len(ret) \in Nat /\ DOMAIN ret = 1 .. Len(ret) /\ Len(ret) <= Len(dets)
      /\ Distinct(ret) /\ \A i \in DOMAIN ret : ret[i].plate \in PlatesOf(dets)
      /\ Len(dets) \in Nat
  BY ReturnedFacts, LenProperties
<1>3. \A i \in DOMAIN ret : ret[i].plate \in Plates
  BY <1>2, PlatesOfFacts
<1>4. n \in Nat /\ \A m \in 1 .. n : m \in TrackIds /\ m # 0
  BY <1>1, PlateTrackingAssumption DEF PlateTrackingAssumption, TrackIds
<1>5. \A i \in DOMAIN ret : TrackId(dets, i) = NextTrack(dets, ret[i].plate).id
  BY DEF TrackId
<1> HIDE DEF n
<1>6. \A i \in DOMAIN ret : TrackId(dets, i) \in TrackIds /\ TrackId(dets, i) # 0
  BY <1>1, <1>2, <1>3, <1>4, <1>5
<1>7. \A i, j \in DOMAIN ret : TrackId(dets, i) = TrackId(dets, j) => i = j
  BY <1>1, <1>2, <1>3, <1>5, <1>6 DEF Distinct
<1>8. \A i \in DOMAIN ret : i \in 1 .. Len(dets) /\ i <= Len(ocr)
  BY <1>2, OcrFacts
<1>9. \A i \in DOMAIN ret : /\ Reading(ocr, i) = ocr[i]
                            /\ ocr[i].text \in Texts /\ ocr[i].crop \in Plates
                            /\ ocr[i].crop = dets[i].plate
  BY <1>8, OcrFacts DEF Reading
<1>10. ASSUME NEW i \in DOMAIN ret
       PROVE  /\ NewEntry(dets, ocr, i) \in Entry
              /\ NewEntry(dets, ocr, i).frame_idx = tracker_frame
              /\ NewEntry(dets, ocr, i).text = ocr[i].text
              /\ NewEntry(dets, ocr, i).whole =>
                   NewEntry(dets, ocr, i).crop = NewEntry(dets, ocr, i).of
  <2>1. /\ NewEntry(dets, ocr, i) =
             [frame_idx |-> tracker_frame, text |-> ocr[i].text, of |-> ret[i].plate,
              crop |-> ocr[i].crop, whole |-> ret = dets]
        /\ ocr[i].text \in Texts /\ ocr[i].crop \in Plates /\ ret[i].plate \in Plates
        /\ ret = dets => ocr[i].crop = ret[i].plate
    BY <1>3, <1>9 DEF NewEntry
  <2> HIDE DEF ocr, ret
  <2>2. /\ NewEntry(dets, ocr, i).frame_idx = tracker_frame
        /\ NewEntry(dets, ocr, i).text = ocr[i].text
        /\ NewEntry(dets, ocr, i).crop = ocr[i].crop
        /\ NewEntry(dets, ocr, i).of = ret[i].plate
        /\ NewEntry(dets, ocr, i).whole = (ret = dets)
    BY <2>1
  <2>3. PICK w \in BOOLEAN : w = (ret = dets)
    OBVIOUS
  <2>4. NewEntry(dets, ocr, i) \in Entry
    BY <2>1, <2>3 DEF Entry
  <2> QED
    BY <2>1, <2>2, <2>4
<1> HIDE DEF ocr, ret
<1> QED
  BY <1>6, <1>7, <1>10 DEF ocr, ret

LEMMA Longer ==
  ASSUME NEW S, NEW s \in Seq(S), NEW e \in S
  PROVE  /\ s \o <<e>> \in Seq(S)
         /\ Len(s) \in Nat /\ DOMAIN s = 1 .. Len(s)
         /\ Len(s \o <<e>>) = Len(s) + 1 /\ DOMAIN (s \o <<e>>) = 1 .. Len(s) + 1
         /\ \A i \in 1 .. Len(s) : (s \o <<e>>)[i] = s[i]
         /\ (s \o <<e>>)[Len(s) + 1] = e
<1>1. <<e>> \in Seq(S) /\ Len(<<e>>) = 1 /\ <<e>>[1] = e
  OBVIOUS
<1>2. Len(s) \in Nat /\ DOMAIN s = 1 .. Len(s)
  BY LenProperties
<1>3. /\ s \o <<e>> \in Seq(S) /\ Len(s \o <<e>>) = Len(s) + 1
      /\ \A i \in 1 .. Len(s) + 1 :
           (s \o <<e>>)[i] = IF i <= Len(s) THEN s[i] ELSE <<e>>[i - Len(s)]
  BY <1>1, ConcatProperties
<1>4. DOMAIN (s \o <<e>>) = 1 .. Len(s) + 1
  BY <1>3, LenProperties
<1>5. \A i \in 1 .. Len(s) : (s \o <<e>>)[i] = s[i]
  BY <1>2, <1>3
<1>6. (s \o <<e>>)[Len(s) + 1] = e
  <2>1. Len(s) + 1 \in 1 .. Len(s) + 1 /\ ~ (Len(s) + 1 <= Len(s)) /\ Len(s) + 1 - Len(s) = 1
    BY <1>2
  <2> QED
    BY <1>1, <1>3, <2>1
<1> QED
  BY <1>2, <1>3, <1>4, <1>5, <1>6

(* A frame adds one reading to the track of each detection returned and    *)
(* leaves the other tracks alone.                                          *)
LEMMA HistoryStep ==
  ASSUME trackOf \in [Plates -> TrackRecords], ids \in {0} \cup TrackIds, TracksAreDistinct,
         tracker_frame \in 0 .. MaxFrames, history \in [TrackIds -> Seq(Entry)],
         NEW dets \in Seq(Detections), Distinct(dets), Update(dets, OcrResults(dets))
  PROVE  LET Added(i) == NewEntry(dets, OcrResults(dets), i)
         IN  /\ history' = [t \in TrackIds |-> history'[t]]
             /\ \A i \in DOMAIN Returned(dets) :
                  history'[TrackId(dets, i)] = history[TrackId(dets, i)] \o <<Added(i)>>
             /\ \A t \in TrackIds :
                  \/ history'[t] = history[t]
                  \/ \E i \in DOMAIN Returned(dets) :
                       TrackId(dets, i) = t /\ history'[t] = history[t] \o <<Added(i)>>
<1> DEFINE Added(i) == NewEntry(dets, OcrResults(dets), i)
           At(t) == {k \in DOMAIN Returned(dets) : TrackId(dets, k) = t}
<1>1. /\ ids + Cardinality(NewPlates(dets)) <= MaxTracks
      /\ history' = [t \in TrackIds |-> history[t] \o SetToSeq(NewEntries(dets, OcrResults(dets), t))]
  BY UpdateFacts
<1>2. /\ \A i \in DOMAIN Returned(dets) : TrackId(dets, i) \in TrackIds
      /\ \A i, j \in DOMAIN Returned(dets) : TrackId(dets, i) = TrackId(dets, j) => i = j
  BY <1>1, EntryFacts
<1>3. \A t : NewEntries(dets, OcrResults(dets), t) = {Added(i) : i \in At(t)}
  BY DEF NewEntries
<1>4. ASSUME NEW i \in DOMAIN Returned(dets)
      PROVE  history'[TrackId(dets, i)] = history[TrackId(dets, i)] \o <<Added(i)>>
  <2>1. At(TrackId(dets, i)) = {i}
    BY <1>2
  <2>2. NewEntries(dets, OcrResults(dets), TrackId(dets, i)) = {Added(i)}
    <3> HIDE DEF Added
    <3> QED
      BY <1>3, <2>1
  <2> HIDE DEF Added
  <2> QED
    BY <1>1, <1>2, <2>2, SetToSeqFacts
<1>5. ASSUME NEW t \in TrackIds, \A i \in DOMAIN Returned(dets) : TrackId(dets, i) # t
      PROVE  history'[t] = history[t]
  <2>1. NewEntries(dets, OcrResults(dets), t) = {}
    BY <1>3, <1>5
  <2>2. history'[t] = history[t] \o <<>>
    BY <1>1, <2>1, SetToSeqFacts
  <2> QED
    BY <2>2, ConcatEmptySeq
<1> HIDE DEF Added
<1>6. ASSUME NEW t \in TrackIds
      PROVE  \/ history'[t] = history[t]
             \/ \E i \in DOMAIN Returned(dets) :
                  TrackId(dets, i) = t /\ history'[t] = history[t] \o <<Added(i)>>
  BY <1>4, <1>5
<1>7. history' = [t \in TrackIds |-> history'[t]]
  BY <1>1
<1> QED
  BY <1>4, <1>6, <1>7 DEF Added

-------------------------------------------------------------------------------
(* The invariant *)

(* The tracker's frames are frames of the pipeline, no plate has another's *)
(* track, what is persisted is part of the report, and the properties.     *)
Inv ==
  /\ TypeOK
  /\ tracker_frame <= frame_counter
  /\ TracksAreDistinct
  /\ HistoryIsSound
  /\ PersistedIsSupported

LEMMA InitInv ==
  ASSUME Init
  PROVE  Inv
<1>1. MaxFrames \in Nat /\ MaxTracks \in Nat /\ MaxReadings \in Nat /\ Buffer \in Nat
  BY PlateTrackingAssumption DEF PlateTrackingAssumption
<1>2. history \in [TrackIds -> Seq(Entry)] /\ \A t \in TrackIds : DOMAIN history[t] = {}
  BY DEF Init
<1>3. trackOf \in [Plates -> TrackRecords] /\ TracksAreDistinct
  BY <1>1 DEF Init, TrackRecords, NoTrack, TracksAreDistinct
<1>4. output = <<>> /\ output \in Seq(Detection) /\ DOMAIN output = {}
  BY DEF Init
<1>5. TypeOK
  BY <1>1, <1>2, <1>3, <1>4 DEF Init, TypeOK, TrackRecords
<1>6. HistoryIsSound
  BY <1>2 DEF HistoryIsSound, TextsFollowPlates, HistoryInFrameOrder
<1>7. PersistedIsSupported
  BY <1>4 DEF PersistedIsSupported
<1>8. tracker_frame <= frame_counter
  BY DEF Init
<1> QED
  BY <1>3, <1>5, <1>6, <1>7, <1>8 DEF Inv

(* A frame that reports nothing keeps the histories and empties the report. *)
LEMMA NothingReported ==
  ASSUME Inv, frame_counter < MaxFrames, CountFrame, output' = <<>>,
         UNCHANGED <<tracker_frame, history, trackOf, ids>>, readings' \in 0 .. MaxReadings
  PROVE  Inv'
<1>1. output' = <<>> /\ output' \in Seq(Detection) /\ DOMAIN output' = {}
  OBVIOUS
<1>2. /\ frame_counter' \in 0 .. MaxFrames /\ tracker_frame' <= frame_counter'
      /\ frame_counter \in 0 .. MaxFrames
  BY PlateTrackingAssumption DEF PlateTrackingAssumption, Inv, TypeOK, CountFrame
<1>3. TypeOK'
  BY <1>1, <1>2 DEF Inv, TypeOK
<1>4. TracksAreDistinct' /\ HistoryIsSound'
  BY DEF Inv, TracksAreDistinct, HistoryIsSound, TextsFollowPlates, HistoryInFrameOrder
<1>5. PersistedIsSupported'
  BY <1>1 DEF PersistedIsSupported
<1> QED
  BY <1>2, <1>3, <1>4, <1>5 DEF Inv

LEMMA ResetInv ==
  ASSUME Inv, Reset
  PROVE  Inv'
<1>1. MaxFrames \in Nat /\ MaxTracks \in Nat /\ Buffer \in Nat
  BY PlateTrackingAssumption DEF PlateTrackingAssumption
<1>2. /\ history' \in [TrackIds -> Seq(Entry)]
      /\ \A t \in TrackIds : history'[t] = <<>> /\ DOMAIN history'[t] = {}
  BY DEF Reset, ResetTracking
<1>3. trackOf' \in [Plates -> TrackRecords] /\ TracksAreDistinct'
  BY <1>1 DEF Reset, ResetTracking, TrackRecords, NoTrack, TracksAreDistinct
<1>4. TypeOK' /\ tracker_frame' <= frame_counter'
  BY <1>1, <1>2, <1>3 DEF Inv, Reset, ResetTracking, TypeOK, TrackRecords
<1>5. HistoryIsSound'
  BY <1>2 DEF HistoryIsSound, TextsFollowPlates, HistoryInFrameOrder
<1>6. output' = output
  BY DEF Reset
<1>7. \A i \in DOMAIN output : output[i].track \in TrackIds
  <2>1. \A i \in DOMAIN output : output[i] \in Detection
    BY LenProperties DEF Inv, TypeOK
  <2> QED
    BY <2>1 DEF Detection
<1>8. PersistedIsSupported'
  BY <1>2, <1>6, <1>7 DEF PersistedIsSupported
<1> QED
  BY <1>3, <1>4, <1>5, <1>6, <1>8 DEF Inv

(* The histories after a frame are sound: what is added is the newest.     *)
LEMMA FrameKeepsHistory ==
  ASSUME Inv, NEW dets \in Seq(Detections), Distinct(dets), Update(dets, OcrResults(dets))
  PROVE  history' \in [TrackIds -> Seq(Entry)] /\ HistoryIsSound'
<1> DEFINE Added(i) == NewEntry(dets, OcrResults(dets), i)
<1>1. /\ trackOf \in [Plates -> TrackRecords] /\ ids \in {0} \cup TrackIds /\ TracksAreDistinct
      /\ tracker_frame \in 0 .. MaxFrames /\ history \in [TrackIds -> Seq(Entry)]
      /\ ids + Cardinality(NewPlates(dets)) <= MaxTracks /\ tracker_frame' = tracker_frame + 1
  BY UpdateFacts DEF Inv, TypeOK, TrackRecords
<1>2. /\ history' = [t \in TrackIds |-> history'[t]]
      /\ \A t \in TrackIds :
           \/ history'[t] = history[t]
           \/ \E i \in DOMAIN Returned(dets) : history'[t] = history[t] \o <<Added(i)>>
  BY <1>1, HistoryStep
<1>3. \A i \in DOMAIN Returned(dets) : /\ Added(i) \in Entry
                                       /\ Added(i).frame_idx = tracker_frame
                                       /\ Added(i).whole => Added(i).crop = Added(i).of
  BY <1>1, EntryFacts
<1> HIDE DEF Added
<1>4. tracker_frame \in Int
  BY <1>1
<1>5. \A t \in TrackIds :
        /\ \A k \in DOMAIN history[t] : history[t][k].whole => history[t][k].crop = history[t][k].of
        /\ \A k, j \in DOMAIN history[t] : k < j => history[t][k].frame_idx < history[t][j].frame_idx
        /\ \A k \in DOMAIN history[t] : history[t][k].frame_idx < tracker_frame
        /\ \A k \in DOMAIN history[t] : history[t][k].frame_idx \in Int
  <2>1. \A t \in TrackIds : \A k \in DOMAIN history[t] : history[t][k].frame_idx \in Int
    <3> SUFFICES ASSUME NEW t \in TrackIds, NEW k \in DOMAIN history[t]
                 PROVE  history[t][k].frame_idx \in Int
      OBVIOUS
    <3>1. history[t][k] \in Entry
      BY <1>1, LenProperties
    <3>2. \A e \in Entry : e.frame_idx \in Int
      BY PlateTrackingAssumption DEF Entry, PlateTrackingAssumption
    <3> QED
      BY <3>1, <3>2
  <2> QED
    BY <2>1 DEF Inv, HistoryIsSound, TextsFollowPlates, HistoryInFrameOrder
<1>6. ASSUME NEW t \in TrackIds
      PROVE  /\ history'[t] \in Seq(Entry)
             /\ \A k \in DOMAIN history'[t] :
                  /\ history'[t][k].whole => history'[t][k].crop = history'[t][k].of
                  /\ history'[t][k].frame_idx < tracker_frame'
             /\ \A k, j \in DOMAIN history'[t] :
                  k < j => history'[t][k].frame_idx < history'[t][j].frame_idx
  <2>1. CASE history'[t] = history[t]
    <3>1. \A k \in DOMAIN history[t] : history[t][k].frame_idx < tracker_frame'
      BY <1>1, <1>4, <1>5
    <3> QED
      BY <1>1, <1>5, <2>1, <3>1
  <2>2. CASE \E i \in DOMAIN Returned(dets) : history'[t] = history[t] \o <<Added(i)>>
    <3>1. PICK i \in DOMAIN Returned(dets) : history'[t] = history[t] \o <<Added(i)>>
      BY <2>2
    <3>2. PICK h \in Seq(Entry), e \in Entry :
            /\ h = history[t] /\ e = Added(i) /\ history'[t] = h \o <<e>>
            /\ e.frame_idx = tracker_frame /\ (e.whole => e.crop = e.of)
      BY <1>1, <1>3, <3>1
    <3>3. PICK n \in Nat : n = Len(h) /\ DOMAIN h = 1 .. n
      BY LenProperties
    <3>4. PICK g \in Seq(Entry) : /\ g = h \o <<e>> /\ DOMAIN g = 1 .. n + 1
                                  /\ \A k \in 1 .. n : g[k] = h[k]
                                  /\ g[n + 1] = e
      BY <3>3, Longer
    <3>5. \A k \in 1 .. n : /\ h[k].whole => h[k].crop = h[k].of
                            /\ h[k].frame_idx < tracker_frame /\ h[k].frame_idx \in Int
                            /\ \A j \in 1 .. n : k < j => h[k].frame_idx < h[j].frame_idx
      BY <1>5, <3>2, <3>3
    <3>6. \A k \in 1 .. n + 1 : k \in 1 .. n \/ k = n + 1
      BY <3>3
    <3>7. \A k \in 1 .. n + 1 : /\ g[k].whole => g[k].crop = g[k].of
                                /\ g[k].frame_idx < tracker_frame'
      <4> SUFFICES ASSUME NEW k \in 1 .. n + 1
                   PROVE  /\ g[k].whole => g[k].crop = g[k].of
                          /\ g[k].frame_idx < tracker_frame'
        OBVIOUS
      <4>1. CASE k \in 1 .. n
        <5>1. g[k] = h[k] /\ h[k].frame_idx < tracker_frame /\ h[k].frame_idx \in Int
          BY <3>4, <3>5, <4>1
        <5>2. g[k].frame_idx < tracker_frame'
          BY <1>1, <1>4, <5>1
        <5> QED
          BY <3>5, <4>1, <5>1, <5>2
      <4>2. CASE k = n + 1
        <5>1. g[k] = e
          BY <3>4, <4>2
        <5> QED
          BY <1>1, <1>4, <3>2, <5>1
      <4> QED
        BY <3>6, <4>1, <4>2
    <3>8. ASSUME NEW k \in 1 .. n + 1, NEW j \in 1 .. n + 1, k < j
          PROVE  g[k].frame_idx < g[j].frame_idx
      <4>1. k \in 1 .. n
        BY <3>3, <3>8
      <4>2. CASE j \in 1 .. n
        BY <3>4, <3>5, <3>8, <4>1, <4>2
      <4>3. CASE j = n + 1
        BY <3>2, <3>4, <3>5, <4>1, <4>3
      <4> QED
        BY <3>6, <4>2, <4>3
    <3>9. history'[t] = g
      BY <3>2, <3>4
    <3> QED
      BY <3>4, <3>7, <3>8, <3>9
  <2> QED
    BY <1>2, <2>1, <2>2
<1>7. history' \in [TrackIds -> Seq(Entry)]
  BY <1>2, <1>6
<1>8. TextsFollowPlates'
  BY <1>6 DEF TextsFollowPlates
<1>9. HistoryInFrameOrder'
  BY <1>6 DEF HistoryInFrameOrder
<1> QED
  BY <1>7, <1>8, <1>9 DEF HistoryIsSound

(* What a frame reports: one text for each detection returned, that of its *)
(* track once it has three readings.                                       *)
LEMMA ReportFacts ==
  ASSUME Inv, NEW dets \in Seq(Detections), Distinct(dets), Update(dets, OcrResults(dets))
  PROVE  LET report == Report(dets, OcrResults(dets))
             h(i) == history'[report[i].track]
         IN  /\ \E n \in Nat : DOMAIN report = 1 .. n
             /\ \A i \in DOMAIN report :
                  /\ report[i].track \in TrackIds /\ h(i) \in Seq(Entry)
                  /\ OcrResults(dets)[i].text \in Texts
                  /\ \E k \in DOMAIN h(i) : h(i)[k].text = OcrResults(dets)[i].text
                  /\ report[i].read = FinalText(h(i), OcrResults(dets)[i].text)
<1> DEFINE ocr == OcrResults(dets)
           ret == Returned(dets)
           report == Report(dets, ocr)
           h(i) == history'[report[i].track]
           Added(i) == NewEntry(dets, ocr, i)
<1>1. /\ trackOf \in [Plates -> TrackRecords] /\ ids \in {0} \cup TrackIds /\ TracksAreDistinct
      /\ tracker_frame \in 0 .. MaxFrames /\ history \in [TrackIds -> Seq(Entry)]
      /\ ids + Cardinality(NewPlates(dets)) <= MaxTracks
  BY UpdateFacts DEF Inv, TypeOK, TrackRecords
<1>2. \A i \in DOMAIN ret :
        /\ TrackId(dets, i) \in TrackIds /\ Added(i) \in Entry /\ Added(i).text = ocr[i].text
        /\ history'[TrackId(dets, i)] = history[TrackId(dets, i)] \o <<Added(i)>>
  BY <1>1, EntryFacts, HistoryStep
<1>3. PICK n \in Nat : n = Len(ret) /\ DOMAIN ret = 1 .. n /\ n <= Len(dets)
  BY ReturnedFacts
<1>4. Min({Len(ocr), Len(ret)}) = n
  <2>1. Len(ocr) \in Nat /\ Len(ocr) >= n
    BY <1>3, OcrFacts, LenProperties
  <2>2. \A x \in {Len(ocr), n} : (\A y \in {Len(ocr), n} : x <= y) <=> x = n
    BY <2>1
  <2> QED
    BY <1>3, <2>2 DEF Min
<1>5. report = [i \in 1 .. n |->
                  [track |-> TrackId(dets, i),
                   read |-> FinalText(history'[TrackId(dets, i)], ocr[i].text)]]
  BY <1>4 DEF Report
<1> HIDE DEF Added, report, ocr, ret
<1>6. ASSUME NEW i \in 1 .. n
      PROVE  /\ TrackId(dets, i) \in TrackIds /\ history'[TrackId(dets, i)] \in Seq(Entry)
             /\ \E k \in DOMAIN history'[TrackId(dets, i)] :
                  history'[TrackId(dets, i)][k].text = ocr[i].text
             /\ ocr[i].text \in Texts
  <2>1. PICK s \in Seq(Entry), e \in Entry : /\ history'[TrackId(dets, i)] = s \o <<e>>
                                             /\ e.text = ocr[i].text
    BY <1>1, <1>2, <1>3
  <2>2. /\ s \o <<e>> \in Seq(Entry) /\ Len(s) \in Nat
        /\ DOMAIN (s \o <<e>>) = 1 .. Len(s) + 1
        /\ (s \o <<e>>)[Len(s) + 1] = e
    BY Longer
  <2>3. Len(s) + 1 \in 1 .. Len(s) + 1
    BY <2>2
  <2>4. e.text \in Texts
    BY DEF Entry
  <2> QED
    BY <1>2, <1>3, <2>1, <2>2, <2>3, <2>4
<1>7. DOMAIN report = 1 .. n
  BY <1>5
<1>8. \A i \in 1 .. n : /\ report[i].track = TrackId(dets, i)
                        /\ report[i].read = FinalText(history'[TrackId(dets, i)], ocr[i].text)
  BY <1>5
<1>9. \A i \in 1 .. n : /\ report[i].track \in TrackIds /\ h(i) \in Seq(Entry)
                        /\ ocr[i].text \in Texts
                        /\ \E k \in DOMAIN h(i) : h(i)[k].text = ocr[i].text
                        /\ report[i].read = FinalText(h(i), ocr[i].text)
  BY <1>6, <1>8
<1> QED
  BY <1>7, <1>9 DEF report, ocr

LEMMA FrameInv ==
  ASSUME Inv, NEW raw \in RawDetections, FrameWithPlates(raw)
  PROVE  Inv'
<1> DEFINE dets == Readable(raw)
           ocr == OcrResults(dets)
           report == Report(dets, ocr)
           h(i) == history'[report[i].track]
<1>1. dets \in Seq(Detections) /\ Distinct(dets)
  BY ReadableFacts
<1>2. /\ frame_counter < MaxFrames /\ frame_counter' = frame_counter + 1
      /\ readings + Len(dets) <= MaxReadings /\ readings' = readings + Len(dets)
      /\ Update(dets, ocr)
  BY DEF FrameWithPlates, CountFrame
<1>3. /\ DOMAIN output' = DOMAIN report /\ output' = [i \in DOMAIN report |-> output'[i]]
      /\ \A i \in DOMAIN report : output'[i] \in Judged(report[i])
  BY DEF FrameWithPlates
<1> HIDE DEF dets
<1>4. /\ \E n \in Nat : DOMAIN report = 1 .. n
      /\ \A i \in DOMAIN report :
           /\ report[i].track \in TrackIds /\ h(i) \in Seq(Entry)
           /\ ocr[i].text \in Texts
           /\ \E k \in DOMAIN h(i) : h(i)[k].text = ocr[i].text
           /\ report[i].read = FinalText(h(i), ocr[i].text)
  BY <1>1, <1>2, ReportFacts
<1>5. /\ ids + Cardinality(NewPlates(dets)) <= MaxTracks
      /\ trackOf' = [p \in Plates |-> NextTrack(dets, p)]
      /\ ids' = ids + Cardinality(NewPlates(dets))
      /\ tracker_frame' = tracker_frame + 1
  BY <1>2, UpdateFacts
<1>6. /\ trackOf \in [Plates -> TrackRecords] /\ ids \in {0} \cup TrackIds /\ TracksAreDistinct
      /\ frame_counter \in 0 .. MaxFrames /\ tracker_frame \in 0 .. MaxFrames
      /\ tracker_frame <= frame_counter /\ readings \in 0 .. MaxReadings
  BY DEF Inv, TypeOK, TrackRecords
<1>7. /\ ids' \in {0} \cup TrackIds
      /\ \A p \in Plates :
           /\ NextTrack(dets, p) \in TrackRecords
           /\ NextTrack(dets, p) = NoTrack \/ NextTrack(dets, p).id \in 1 .. ids'
      /\ \A p, q \in Plates :
           NextTrack(dets, p).id = NextTrack(dets, q).id /\ NextTrack(dets, p).id # 0 => p = q
  BY <1>1, <1>5, <1>6, NextTrackFacts
<1>8. trackOf' \in [Plates -> TrackRecords] /\ TracksAreDistinct'
  BY <1>5, <1>7 DEF TracksAreDistinct
<1>9. /\ frame_counter' \in 0 .. MaxFrames /\ tracker_frame' \in 0 .. MaxFrames
      /\ tracker_frame' <= frame_counter' /\ readings' \in 0 .. MaxReadings
  <2>1. MaxFrames \in Nat /\ MaxReadings \in Nat /\ Len(dets) \in Nat
    BY <1>1, LenProperties, PlateTrackingAssumption DEF PlateTrackingAssumption
  <2> QED
    BY <1>2, <1>5, <1>6, <2>1
<1>10. history' \in [TrackIds -> Seq(Entry)] /\ HistoryIsSound'
  BY <1>1, <1>2, FrameKeepsHistory
<1> HIDE DEF ocr, report
<1>11. \A i \in DOMAIN report :
         /\ report[i].read \in Seq(Chars \cup {Unsure})
         /\ \A p \in DOMAIN report[i].read :
              report[i].read[p] \in Chars =>
                Cardinality(Supporters(h(i), p, report[i].read[p])) >= Needed(h(i))
  BY <1>4, FinalTextFacts
<1>12. \A i \in DOMAIN report :
         /\ output'[i] \in Detection
         /\ output'[i].track = report[i].track /\ output'[i].read = report[i].read
         /\ output'[i].persist =>
              /\ DOMAIN output'[i].text = DOMAIN report[i].read
              /\ \A p \in DOMAIN report[i].read :
                   /\ report[i].read[p] \in Chars
                   /\ output'[i].text[p] \in {report[i].read[p]} \cup Confused[report[i].read[p]]
  BY <1>3, <1>4, <1>11, JudgedFacts
<1>13. output' \in Seq(Detection)
  <2>1. PICK n \in Nat : DOMAIN report = 1 .. n
    BY <1>4
  <2>2. output' \in [1 .. n -> Detection]
    BY <1>3, <1>12, <2>1
  <2> QED
    BY <2>2
<1>14. TypeOK'
  BY <1>7, <1>8, <1>9, <1>10, <1>13 DEF TypeOK, TrackRecords
<1>15. PersistedIsSupported'
  <2> SUFFICES ASSUME NEW i \in DOMAIN output', output'[i].persist, NEW p \in DOMAIN output'[i].text
               PROVE  \E c \in Chars :
                        /\ Cardinality(Supporters(h(i), p, c)) >= Needed(h(i))
                        /\ output'[i].text[p] \in {c} \cup Confused[c]
    BY <1>3, <1>12 DEF PersistedIsSupported, Needed
  <2>1. i \in DOMAIN report /\ p \in DOMAIN report[i].read
    BY <1>3, <1>12
  <2>2. /\ report[i].read[p] \in Chars
        /\ output'[i].text[p] \in {report[i].read[p]} \cup Confused[report[i].read[p]]
    BY <1>12, <2>1
  <2>3. Cardinality(Supporters(h(i), p, report[i].read[p])) >= Needed(h(i))
    BY <1>11, <2>1, <2>2
  <2> QED
    BY <2>2, <2>3
<1> QED
  BY <1>8, <1>9, <1>10, <1>14, <1>15 DEF Inv

LEMMA StepInv ==
  ASSUME Inv, [Next]_vars
  PROVE  Inv'
<1>1. CASE FrameWithoutPlates
  <2>1. readings' \in 0 .. MaxReadings
    BY <1>1 DEF FrameWithoutPlates, Inv, TypeOK
  <2> QED
    BY <1>1, <2>1, NothingReported DEF FrameWithoutPlates
<1>2. ASSUME NEW raw \in RawDetections, TrackerRaises(raw)
      PROVE  Inv'
  <2>1. Len(Readable(raw)) \in Nat
    BY ReadableFacts, LenProperties
  <2>2. readings' \in 0 .. MaxReadings
    BY <1>2, <2>1, PlateTrackingAssumption DEF TrackerRaises, Inv, TypeOK, PlateTrackingAssumption
  <2> QED
    BY <1>2, <2>2, NothingReported DEF TrackerRaises
<1>3. CASE UNCHANGED vars
  BY <1>3 DEF vars, Inv, TypeOK, TracksAreDistinct, HistoryIsSound, TextsFollowPlates,
              HistoryInFrameOrder, PersistedIsSupported
<1> QED
  BY <1>1, <1>2, <1>3, FrameInv, ResetInv DEF Next

LEMMA Invariance == Spec => []Inv
<1>1. Init => Inv
  BY InitInv
<1>2. Inv /\ [Next]_vars => Inv'
  BY StepInv
<1> QED
  BY <1>1, <1>2, PTL DEF Spec

-------------------------------------------------------------------------------
(* Theorems *)

(* Every variable has its type, for any number of frames: no track id is   *)
(* reported that ByteTrack did not hand out, no number runs past its       *)
(* bound, and a reading is never filed under a plate that is not one.      *)
THEOREM TypeCorrect == Spec => []TypeOK
<1>1. Inv => TypeOK
  BY DEF Inv
<1> QED
  BY <1>1, Invariance, PTL

(* A reading is filed under the track of the plate it was taken from when  *)
(* no detection was dropped, and a track's readings are in frame order,    *)
(* one a frame: however many plates there are, whichever crops the quality *)
(* gate and the OCR reject, and whenever the tracker is reset.             *)
THEOREM HistoryAlwaysSound == Spec => []HistoryIsSound
<1>1. Inv => HistoryIsSound
  BY DEF Inv
<1> QED
  BY <1>1, Invariance, PTL

(* What passes the gate was read for its track, twice once the track has   *)
(* three readings, whatever the texts and the order they were read in.     *)
THEOREM PersistedAlwaysSupported == Spec => []PersistedIsSupported
<1>1. Inv => PersistedIsSupported
  BY DEF Inv
<1> QED
  BY <1>1, Invariance, PTL

(* Two plates never share a track that ByteTrack handed out.               *)
THEOREM TracksAlwaysDistinct == Spec => []TracksAreDistinct
<1>1. Inv => TracksAreDistinct
  BY DEF Inv
<1> QED
  BY <1>1, Invariance, PTL

==============================================================================
