-------------------------- MODULE FrameIngestProofs ---------------------------
(***************************************************************************)
(* Theorems about FrameIngest, for any streams, frames, children, polls    *)
(* and faults.                                                             *)
(***************************************************************************)
EXTENDS FrameIngest, FiniteSetTheorems, TLAPS

(* What makes the properties inductive. *)

(* Frames are captured in order, each once: those that a client has not    *)
(* come to are nowhere, and a frame on the wire has not been published.    *)
Captured(s) == cli[s].frame_count + (IF cli[s].pc = "posting" THEN 1 ELSE 0)
ClientInv ==
  /\ cli \in [Streams -> [pc : {"reading", "posting"}, frame_count : Nat, task_count : {0}]]
  /\ \A s \in Streams : Captured(s) <= MaxFrames[s]
  /\ wire \subseteq Frame /\ upset \subseteq Streams
  /\ copies \in [Frame -> 0 .. 2]
  /\ \A f \in Frame : f[2] > Captured(f[1]) => f \notin wire /\ copies[f] = 0
  /\ \A f \in wire : copies[f] = 0

(* A message is in line, kept by Redis, or was taken by one execution, and *)
(* there are as many as were published or handed out once more.            *)
At(q, f) == {i \in 1 .. Len(q) : q[i] = f}
QueueInv ==
  /\ broker \in Seq(Frame) /\ runs \in [Frame -> Nat]
  /\ unacked \in [Frame -> Nat] /\ again \in [Frame -> Nat] /\ back \subseteq Frame
  /\ reserved \in 0 .. Prefetch /\ reserved <= Len(broker)
  /\ \A f \in Frame :
       runs[f] + Cardinality(At(broker, f)) + unacked[f] = copies[f] + again[f]
  /\ \A f \in Frame : /\ again[f] > 0 => copies[f] > 0
                      /\ unacked[f] > 0 => f \in back

ChildType == [task : Frame \cup {NoTask}, returned : BOOLEAN, plates : BOOLEAN]
WorkInv ==
  /\ child \in [Children -> ChildType]
  /\ \A p \in Children : child[p].returned => ~ Idle(p)
  /\ \A p \in Children : ~ Idle(p) => copies[child[p].task] > 0
  /\ lost \subseteq Frame /\ faults \in 0 .. MaxFaults

MetaInv == meta \in [Frame -> States]

(* From the first read that finds the task ready, the poll has in its      *)
(* cache what all further reads answer.                                    *)
PollInv ==
  /\ poll = [task |-> poll.task, step |-> poll.step, cache |-> poll.cache,
             state |-> poll.state, result |-> poll.result]
  /\ poll.step \in {"none", "state", "result", "error"} /\ poll.cache \in States
  /\ poll.step # "none" => poll.task \in Frame
  /\ poll.step \in {"result", "error"} /\ poll.state \in Ready => poll.cache = poll.state
  /\ poll.step = "error" /\ poll.state = "SUCCESS" => poll.result
  /\ poll.step = "error" /\ poll.result => poll.cache = "SUCCESS"

IInv == ClientInv /\ QueueInv /\ WorkInv /\ MetaInv /\ PollInv

------------------------------------------------------------------------------
(* A frame is a stream and a number. *)
LEMMA FrameFacts ==
  /\ \A f \in Frame : f[1] \in Streams /\ f[2] \in 1 .. MaxFrames[f[1]] /\ f = <<f[1], f[2]>>
  /\ \A s \in Streams : MaxFrames[s] \in Nat
  /\ \A s \in Streams : \A n \in 1 .. MaxFrames[s] : <<s, n>> \in Frame
BY FrameIngestAssumption DEF FrameIngestAssumption, Frame

(* The places of a frame in the queue are finitely many. *)
LEMMA AtFinite ==
  ASSUME NEW q \in Seq(Frame), NEW f
  PROVE  IsFiniteSet(At(q, f)) /\ Cardinality(At(q, f)) \in Nat
<1>1. IsFiniteSet(1 .. Len(q)) /\ At(q, f) \in SUBSET (1 .. Len(q))
  BY FS_Interval DEF At
<1> QED
  BY <1>1, FS_Subset, FS_CardinalityType

(* Publishing adds one place per message, and only for its frame. *)
LEMMA AppendedAt ==
  ASSUME NEW q \in Seq(Frame), NEW f \in Frame, NEW n \in 0 .. 2
  PROVE  LET r == q \o [i \in 1 .. n |-> f]
         IN  /\ r \in Seq(Frame)
             /\ \A g \in Frame \ {f} : At(r, g) = At(q, g)
             /\ Cardinality(At(r, f)) = Cardinality(At(q, f)) + n
<1> DEFINE m == [i \in 1 .. n |-> f]
           r == q \o m
<1>1. m \in Seq(Frame) /\ Len(m) = n /\ \A i \in 1 .. n : m[i] = f
  OBVIOUS
<1>2. /\ r \in Seq(Frame) /\ Len(r) = Len(q) + n
      /\ \A i \in 1 .. Len(q) : r[i] = q[i]
      /\ \A i \in Len(q) + 1 .. Len(r) : r[i] = f
  BY <1>1
<1> HIDE DEF m, r
<1>3. \A g \in Frame \ {f} : At(r, g) = At(q, g)
  BY <1>2 DEF At
<1>4. At(r, f) = At(q, f) \cup (Len(q) + 1 .. Len(q) + n)
  BY <1>2 DEF At
<1>5. /\ IsFiniteSet(Len(q) + 1 .. Len(q) + n)
      /\ Cardinality(Len(q) + 1 .. Len(q) + n) = n
  BY FS_Interval
<1>6. At(q, f) \cap (Len(q) + 1 .. Len(q) + n) = {}
  BY DEF At
<1>7. /\ IsFiniteSet(At(q, f) \cup (Len(q) + 1 .. Len(q) + n))
      /\ Cardinality(At(q, f) \cup (Len(q) + 1 .. Len(q) + n)) = Cardinality(At(q, f)) + n
  <2> DEFINE A == At(q, f)
             B == Len(q) + 1 .. Len(q) + n
  <2>1. IsFiniteSet(A) /\ Cardinality(A) \in Nat /\ IsFiniteSet(B) /\ Cardinality(B) = n
    BY <1>5, AtFinite
  <2>2. A \cap B = {}
    BY <1>6
  <2> HIDE DEF A, B
  <2>3. /\ IsFiniteSet(A \cup B)
        /\ Cardinality(A \cup B) = Cardinality(A) + Cardinality(B) - Cardinality(A \cap B)
    BY <2>1, FS_Union
  <2>4. Cardinality(A \cap B) = 0
    BY <2>2, FS_EmptySet
  <2> QED
    BY <2>1, <2>3, <2>4 DEF A, B
<1>8. Cardinality(At(r, f)) = Cardinality(At(q, f)) + n
  BY <1>4, <1>7
<1> QED
  BY <1>2, <1>3, <1>8 DEF r, m

(* Taking a message frees its place, and no other message is touched. *)
LEMMA RemovedAt ==
  ASSUME NEW q \in Seq(Frame), NEW i \in 1 .. Len(q)
  PROVE  LET r == [j \in 1 .. Len(q) - 1 |-> q[IF j < i THEN j ELSE j + 1]]
         IN  /\ r \in Seq(Frame)
             /\ \A g : Cardinality(At(r, g)) =
                         Cardinality(At(q, g)) - (IF g = q[i] THEN 1 ELSE 0)
<1> DEFINE k(j) == IF j < i THEN j ELSE j + 1
           r == [j \in 1 .. Len(q) - 1 |-> q[k(j)]]
<1>1. Len(q) \in Nat /\ i \in Nat /\ i >= 1 /\ i <= Len(q)
  OBVIOUS
<1>2. \A j \in 1 .. Len(q) - 1 : k(j) \in 1 .. Len(q) /\ k(j) # i /\ q[k(j)] \in Frame
  BY <1>1
<1>3. r \in Seq(Frame) /\ Len(r) = Len(q) - 1 /\ \A j \in 1 .. Len(r) : r[j] = q[k(j)]
  BY <1>1, <1>2
<1>4. ASSUME NEW g
      PROVE  Cardinality(At(r, g)) = Cardinality(At(q, g)) - (IF g = q[i] THEN 1 ELSE 0)
  <2> DEFINE T == At(q, g) \ {i}
             h == [j \in At(r, g) |-> k(j)]
  <2>1. \A j \in At(r, g) : j \in 1 .. Len(q) - 1 /\ k(j) \in T
    BY <1>2, <1>3 DEF At
  <2>2. h \in [At(r, g) -> T] /\ \A a, b \in At(r, g) : h[a] = h[b] => a = b
    <3>1. h \in [At(r, g) -> T]
      BY <2>1
    <3>2. \A a \in At(r, g) : h[a] = k(a) /\ a \in Int
      BY <2>1
    <3>3. \A a, b \in Int : k(a) = k(b) => a = b
      BY <1>1
    <3> QED
      BY <3>1, <3>2, <3>3
  <2>3. h \in Injection(At(r, g), T)
    BY <2>2 DEF Injection, IsInjective
  <2>4. IsFiniteSet(T) /\ Cardinality(T) = IF i \in At(q, g) THEN Cardinality(At(q, g)) - 1
                                                            ELSE Cardinality(At(q, g))
    BY AtFinite, FS_RemoveElement
  <2>5. Cardinality(At(r, g)) <= Cardinality(T)
    BY <2>3, <2>4, FS_Injection
  <2>6. i \in At(q, g) <=> g = q[i]
    BY DEF At
  <2> DEFINE b(j) == IF j < i THEN j ELSE j - 1
             l == [j \in T |-> b(j)]
  <2>7. \A j \in T : j \in Int /\ b(j) \in 1 .. Len(r) /\ k(b(j)) = j /\ q[j] = g
    BY <1>1, <1>3 DEF At
  <2>8. \A j \in T : b(j) \in At(r, g)
    BY <1>3, <2>7 DEF At
  <2>9. l \in [T -> At(r, g)] /\ \A x, y \in T : l[x] = l[y] => x = y
    <3>1. l \in [T -> At(r, g)] /\ \A x \in T : l[x] = b(x)
      BY <2>8
    <3>2. \A x, y \in T : b(x) = b(y) => x = y
      BY <2>7
    <3> QED
      BY <3>1, <3>2
  <2>10. l \in Injection(T, At(r, g))
    BY <2>9 DEF Injection, IsInjective
  <2>11. IsFiniteSet(At(r, g)) /\ Cardinality(At(r, g)) \in Nat /\ Cardinality(T) \in Nat
    BY <1>3, <2>4, AtFinite, FS_CardinalityType
  <2>12. Cardinality(T) <= Cardinality(At(r, g))
    BY <2>10, <2>11, FS_Injection
  <2> HIDE DEF T, r
  <2> QED
    BY <2>4, <2>5, <2>6, <2>11, <2>12
<1> QED
  BY <1>3, <1>4

(* A message put behind the first k takes one place, and the others keep   *)
(* theirs.                                                                 *)
LEMMA InsertedAt ==
  ASSUME NEW q \in Seq(Frame), NEW k \in 0 .. Len(q), NEW f \in Frame
  PROVE  LET r == [j \in 1 .. Len(q) + 1 |->
                     IF j <= k THEN q[j] ELSE IF j = k + 1 THEN f ELSE q[j - 1]]
         IN  /\ r \in Seq(Frame)
             /\ \A g : Cardinality(At(r, g)) =
                         Cardinality(At(q, g)) + (IF g = f THEN 1 ELSE 0)
<1> DEFINE r == [j \in 1 .. Len(q) + 1 |->
                   IF j <= k THEN q[j] ELSE IF j = k + 1 THEN f ELSE q[j - 1]]
           i == k + 1
           t == [j \in 1 .. Len(r) - 1 |-> r[IF j < i THEN j ELSE j + 1]]
<1>1. /\ r \in Seq(Frame) /\ Len(r) = Len(q) + 1 /\ i \in 1 .. Len(r) /\ r[i] = f
      /\ \A j \in 1 .. Len(q) : r[IF j < i THEN j ELSE j + 1] = q[j]
  OBVIOUS
<1>2. t = q
  <2>1. t = [j \in 1 .. Len(q) |-> q[j]]
    BY <1>1
  <2> QED
    BY <2>1
<1> HIDE DEF r, i
<1>3. \A g : Cardinality(At(t, g)) = Cardinality(At(r, g)) - (IF g = f THEN 1 ELSE 0)
  BY <1>1, RemovedAt
<1>4. \A g : Cardinality(At(r, g)) \in Nat
  BY <1>1, AtFinite
<1> HIDE DEF t
<1>5. \A g : Cardinality(At(r, g)) = Cardinality(At(q, g)) + (IF g = f THEN 1 ELSE 0)
  BY <1>2, <1>3, <1>4
<1> QED
  BY <1>1, <1>5 DEF r

(* The places of a frame among the first k messages, and among the others. *)
AmongFirst(q, k, f) == {i \in 1 .. k : q[i] = f}
AfterFirst(q, k) == SubSeq(q, k + 1, Len(q))

LEMMA SplitAt ==
  ASSUME NEW q \in Seq(Frame), NEW k \in 0 .. Len(q), NEW g
  PROVE  LET held == AmongFirst(q, k, g)
             rest == AfterFirst(q, k)
         IN  /\ rest \in Seq(Frame) /\ Len(rest) = Len(q) - k
             /\ \A i \in 1 .. Len(rest) : rest[i] = q[i + k]
             /\ Cardinality(held) \in Nat /\ (held # {} => Cardinality(held) > 0)
             /\ (held = {} => Cardinality(held) = 0)
             /\ Cardinality(held) + Cardinality(At(rest, g)) = Cardinality(At(q, g))
<1> DEFINE held == {i \in 1 .. k : q[i] = g}
           rest == SubSeq(q, k + 1, Len(q))
           T == {i \in k + 1 .. Len(q) : q[i] = g}
           h == [i \in At(rest, g) |-> i + k]
<1>1. /\ rest \in Seq(Frame) /\ Len(rest) = Len(q) - k
      /\ \A i \in 1 .. Len(rest) : rest[i] = q[i + k]
  OBVIOUS
<1>2. At(q, g) = held \cup T /\ held \cap T = {}
  BY DEF At
<1>3. IsFiniteSet(held) /\ IsFiniteSet(T) /\ Cardinality(held) \in Nat /\ Cardinality(T) \in Nat
  <2>1. IsFiniteSet(At(q, g)) /\ held \subseteq At(q, g) /\ T \subseteq At(q, g)
    BY <1>2, AtFinite
  <2> QED
    BY <2>1, FS_Subset, FS_CardinalityType
<1> HIDE DEF rest
<1>4. h \in Bijection(At(rest, g), T)
  <2>1. \A i \in At(rest, g) : i \in Nat /\ i + k \in T
    BY <1>1 DEF At
  <2>2. \A i \in T : i - k \in At(rest, g) /\ i = (i - k) + k
    BY <1>1 DEF At
  <2>3. h \in [At(rest, g) -> T] /\ \A i \in At(rest, g) : h[i] = i + k
    BY <2>1
  <2>4. \A x, y \in At(rest, g) : h[x] = h[y] => x = y
    BY <2>1, <2>3
  <2>5. \A y \in T : \E x \in At(rest, g) : h[x] = y
    BY <2>2, <2>3
  <2> HIDE DEF h, T
  <2> QED
    BY <2>3, <2>4, <2>5 DEF Bijection, Injection, Surjection, IsInjective
<1>5. Cardinality(At(rest, g)) = Cardinality(T)
  <2>1. IsFiniteSet(At(rest, g))
    BY <1>1, AtFinite
  <2> QED
    BY <1>4, <2>1, FS_Bijection DEF ExistsBijection
<1>6. Cardinality(held \cup T) = Cardinality(held) + Cardinality(T)
  <2> HIDE DEF held, T
  <2>1. Cardinality(held \cap T) = 0
    BY <1>2, FS_EmptySet
  <2>2. Cardinality(held \cup T) = Cardinality(held) + Cardinality(T) - Cardinality(held \cap T)
    BY <1>3, FS_Union
  <2> QED
    BY <1>3, <2>1, <2>2
<1>7. (held = {} => Cardinality(held) = 0) /\ (held # {} => Cardinality(held) > 0)
  <2> HIDE DEF held
  <2> QED
    BY <1>3, FS_EmptySet
<1> HIDE DEF held, T
<1> QED
  BY <1>1, <1>2, <1>3, <1>5, <1>6, <1>7 DEF held, rest, AmongFirst, AfterFirst

------------------------------------------------------------------------------
(* The initial state has no message, no frame in flight and no record.     *)
LEMMA InitIInv == Init => IInv
<1> SUFFICES ASSUME Init PROVE IInv
  OBVIOUS
<1> USE FrameIngestAssumption DEF FrameIngestAssumption
<1>1. ClientInv
  BY FrameFacts DEF Init, ClientInv, Captured
<1>2. QueueInv
  <2>1. \A f \in Frame : At(broker, f) = {}
    BY DEF Init, At
  <2>2. \A f \in Frame : Cardinality(At(broker, f)) = 0
    BY <2>1, FS_EmptySet
  <2>3. \A f \in Frame : runs[f] = 0 /\ copies[f] = 0 /\ again[f] = 0 /\ unacked[f] = 0
    BY DEF Init
  <2>4. /\ broker \in Seq(Frame) /\ runs \in [Frame -> Nat] /\ back \subseteq Frame
        /\ unacked \in [Frame -> Nat] /\ again \in [Frame -> Nat]
        /\ reserved \in 0 .. Prefetch /\ reserved <= Len(broker)
    BY DEF Init
  <2>5. \A f \in Frame :
          runs[f] + Cardinality(At(broker, f)) + unacked[f] = copies[f] + again[f]
    BY <2>2, <2>3
  <2> QED
    BY <2>3, <2>4, <2>5 DEF QueueInv
<1>3. WorkInv
  BY DEF Init, WorkInv, ChildType, Fresh, Idle
<1>4. MetaInv
  BY DEF Init, MetaInv, States
<1>5. PollInv
  BY DEF Init, PollInv, NoPoll, States
<1> QED
  BY <1>1, <1>2, <1>3, <1>4, <1>5 DEF IInv

LEMMA CaptureStep == ASSUME IInv, NEW s \in Streams, Capture(s) PROVE IInv'
<1> DEFINE f == <<s, cli[s].frame_count + 1>>
<1>1. /\ cli[s].pc = "reading" /\ cli[s].frame_count < MaxFrames[s]
      /\ cli' = [cli EXCEPT ![s].pc = "posting"] /\ wire' = wire \cup {f}
      /\ UNCHANGED <<upset, work, line, meta, poll, copies, faults>>
  BY DEF Capture, InFlight
<1>2. cli[s].frame_count \in Nat /\ MaxFrames[s] \in Nat /\ f \in Frame
  BY <1>1, FrameFacts DEF IInv, ClientInv
<1>3. \A z \in Streams : /\ Captured(z) \in Nat
                         /\ Captured(z)' = IF z = s THEN Captured(z) + 1 ELSE Captured(z)
  BY <1>1 DEF IInv, ClientInv, Captured
<1>4. Captured(s) = cli[s].frame_count /\ f[1] = s /\ f[2] = Captured(s) + 1
  BY <1>1, <1>2 DEF Captured
<1>5. copies[f] = 0
  BY <1>2, <1>4 DEF IInv, ClientInv, Captured
<1>6. cli' \in [Streams -> [pc : {"reading", "posting"}, frame_count : Nat, task_count : {0}]]
  BY <1>1 DEF IInv, ClientInv
<1>7. \A z \in Streams : Captured(z)' <= MaxFrames[z]
  BY <1>1, <1>2, <1>3, <1>4 DEF IInv, ClientInv
<1>8. \A g \in Frame : g[2] > Captured(g[1])' => g \notin wire' /\ copies'[g] = 0
  <2> SUFFICES ASSUME NEW g \in Frame, g[2] > Captured(g[1])'
               PROVE  g \notin wire' /\ copies'[g] = 0
    OBVIOUS
  <2>1. g[1] \in Streams /\ g[2] \in Nat /\ g[2] > Captured(g[1])
    BY <1>3, FrameFacts
  <2>2. g # f
    BY <1>3, <1>4, <2>1
  <2> QED
    BY <1>1, <2>1, <2>2 DEF IInv, ClientInv
<1>9. ClientInv'
  BY <1>1, <1>2, <1>5, <1>6, <1>7, <1>8 DEF IInv, ClientInv
<1> QED
  BY <1>1, <1>9 DEF IInv, QueueInv, WorkInv, MetaInv, PollInv, work, line, hold, Idle

(* A client that goes on to its next frame has captured as many as before, *)
(* and takes no status of the API for success.                             *)
LEMMA GoesOn ==
  ASSUME IInv, NEW s \in Streams, cli[s].pc = "posting", NEW status \in {202, 500, 504},
         cli' = [cli EXCEPT ![s] = Goes(@, status)]
  PROVE  /\ cli' \in [Streams -> [pc : {"reading", "posting"}, frame_count : Nat, task_count : {0}]]
         /\ \A z \in Streams : Captured(z)' = Captured(z)
<1> DEFINE c == cli[s]
           d == Goes(c, status)
<1>1. c \in [pc : {"reading", "posting"}, frame_count : Nat, task_count : {0}]
  BY DEF IInv, ClientInv
<1>2. ~ Counts(status)
  BY DEF Counts
<1>3. cli' = [cli EXCEPT ![s] = d]
  OBVIOUS
<1>4. /\ d \in [pc : {"reading", "posting"}, frame_count : Nat, task_count : {0}]
      /\ d.pc = "reading" /\ d.frame_count = c.frame_count + 1
  BY <1>1, <1>2 DEF Goes
<1> HIDE DEF d
<1>5. \A z \in Streams : cli'[z] = IF z = s THEN d ELSE cli[z]
  BY <1>3 DEF IInv, ClientInv
<1> QED
  BY <1>1, <1>3, <1>4, <1>5 DEF IInv, ClientInv, Captured

LEMMA Answered ==
  ASSUME IInv, NEW f \in Frame, NEW status \in {202, 500}, Answer(f, status)
  PROVE  /\ cli' \in [Streams -> [pc : {"reading", "posting"}, frame_count : Nat, task_count : {0}]]
         /\ \A z \in Streams : Captured(z)' = Captured(z)
         /\ wire' = wire \ {f}
<1>1. f[1] \in Streams
  BY FrameFacts
<1>2. CASE cli[f[1]].pc = "posting" /\ f = InFlight(f[1])
  BY <1>1, <1>2, GoesOn DEF Answer
<1>3. CASE ~ (cli[f[1]].pc = "posting" /\ f = InFlight(f[1]))
  BY <1>3 DEF Answer, IInv, ClientInv, Captured
<1> QED
  BY <1>2, <1>3 DEF Answer

(* Frames that leave the wire, published or not. *)
LEMMA ClientsAfter ==
  ASSUME IInv,
         cli' \in [Streams -> [pc : {"reading", "posting"}, frame_count : Nat, task_count : {0}]],
         \A z \in Streams : Captured(z)' = Captured(z),
         wire' \subseteq wire, upset' \subseteq Streams, copies' \in [Frame -> 0 .. 2],
         \A g \in Frame : copies'[g] # copies[g] => g \in wire /\ g \notin wire'
  PROVE  ClientInv'
<1>1. \A z \in Streams : Captured(z)' <= MaxFrames[z]
  BY DEF IInv, ClientInv
<1>2. \A g \in Frame : g[2] > Captured(g[1])' => g \notin wire' /\ copies'[g] = 0
  BY FrameFacts DEF IInv, ClientInv
<1> QED
  BY <1>1, <1>2 DEF IInv, ClientInv

LEMMA Published ==
  ASSUME IInv, NEW f \in wire, NEW n \in 0 .. 2, Publish(f, n), UNCHANGED runs
  PROVE  /\ QueueInv' /\ copies' \in [Frame -> 0 .. 2]
         /\ \A g \in Frame : copies'[g] # copies[g] => g = f
<1>1. f \in Frame /\ copies[f] = 0 /\ copies \in [Frame -> 0 .. 2]
  BY DEF IInv, ClientInv
<1>2. /\ broker' = broker \o [i \in 1 .. n |-> f]
      /\ copies' = [copies EXCEPT ![f] = n]
  BY <1>1 DEF Publish
<1>3. copies' \in [Frame -> 0 .. 2] /\ \A g \in Frame \ {f} : copies'[g] = copies[g]
  BY <1>1, <1>2
<1>4. broker \in Seq(Frame) /\ broker' \in Seq(Frame)
  BY <1>1, <1>2, AppendedAt DEF IInv, QueueInv
<1>5. ASSUME NEW g \in Frame
      PROVE  runs'[g] + Cardinality(At(broker', g)) + unacked'[g] = copies'[g] + again'[g]
  <2>1. /\ runs'[g] = runs[g] /\ runs[g] \in Nat /\ copies[g] \in 0 .. 2
        /\ unacked'[g] = unacked[g] /\ unacked[g] \in Nat
        /\ again'[g] = again[g] /\ again[g] \in Nat
        /\ runs[g] + Cardinality(At(broker, g)) + unacked[g] = copies[g] + again[g]
    BY <1>1 DEF IInv, QueueInv, Publish, hold
  <2>2. Cardinality(At(broker, g)) \in Nat /\ Cardinality(At(broker', g)) \in Nat
    BY <1>4, AtFinite
  <2>3. CASE g = f
    <3>1. Cardinality(At(broker', f)) = Cardinality(At(broker, f)) + n
      BY <1>1, <1>2, <1>4, AppendedAt
    <3>2. copies'[f] = n
      BY <1>1, <1>2
    <3> QED
      BY <1>1, <2>1, <2>2, <2>3, <3>1, <3>2
  <2>4. CASE g # f
    <3>1. g \in Frame \ {f} /\ broker \in Seq(Frame) /\ n \in 0 .. 2
      BY <1>4, <2>4
    <3>2. At(broker \o [i \in 1 .. n |-> f], g) = At(broker, g)
      BY <1>1, <3>1, AppendedAt
    <3>3. At(broker', g) = At(broker, g)
      BY <1>2, <3>2
    <3> QED
      BY <1>3, <2>1, <2>4, <3>3
  <2> QED
    BY <2>3, <2>4
<1>6. Len(broker) <= Len(broker') /\ \A g \in Frame : copies[g] > 0 => copies'[g] > 0
  <2>1. Len(broker') = Len(broker) + n /\ Len(broker) \in Nat
    BY <1>1, <1>2, <1>4
  <2>2. ASSUME NEW g \in Frame, copies[g] > 0 PROVE copies'[g] > 0
    BY <1>1, <1>3, <2>2
  <2> QED
    BY <2>1, <2>2
<1>7. /\ unacked' = unacked /\ again' = again /\ back' = back /\ reserved' = reserved
      /\ runs' = runs
  BY DEF Publish, hold
<1>8. reserved' \in 0 .. Prefetch /\ reserved' <= Len(broker')
  BY <1>4, <1>6, <1>7, FrameIngestAssumption DEF IInv, QueueInv, FrameIngestAssumption
<1>9. \A g \in Frame : /\ again'[g] > 0 => copies'[g] > 0
                       /\ unacked'[g] > 0 => g \in back'
  BY <1>6, <1>7 DEF IInv, QueueInv
<1>10. /\ runs' \in [Frame -> Nat] /\ unacked' \in [Frame -> Nat] /\ again' \in [Frame -> Nat]
       /\ back' \subseteq Frame
  BY <1>7 DEF IInv, QueueInv
<1>11. QueueInv'
  BY <1>4, <1>5, <1>8, <1>9, <1>10 DEF QueueInv, At
<1> QED
  BY <1>3, <1>11

(* What a step leaves alone stays as it is. *)
LEMMA ClientKept == ASSUME ClientInv, UNCHANGED <<cli, wire, upset, copies>> PROVE ClientInv'
BY DEF ClientInv, Captured

LEMMA QueueKept == ASSUME QueueInv, UNCHANGED <<line, runs, copies>> PROVE QueueInv'
BY DEF QueueInv, line, hold

LEMMA MetaKept == ASSUME MetaInv, UNCHANGED meta PROVE MetaInv'
BY DEF MetaInv

LEMMA PollKept == ASSUME PollInv, UNCHANGED poll PROVE PollInv'
BY DEF PollInv

LEMMA FaultTyped ==
  ASSUME WorkInv, Fault \/ UNCHANGED faults
  PROVE  faults' \in 0 .. MaxFaults
BY FrameIngestAssumption DEF FrameIngestAssumption, WorkInv, Fault

LEMMA WorkKept ==
  ASSUME WorkInv, UNCHANGED <<child, lost>>, Fault \/ UNCHANGED faults,
         \A f \in Frame : copies[f] > 0 => copies'[f] > 0
  PROVE  WorkInv'
BY FaultTyped DEF WorkInv, ChildType, Idle

------------------------------------------------------------------------------
LEMMA ConnectionLostStep == ASSUME IInv, NEW s \in Streams, ConnectionLost(s) PROVE IInv'
<1>1. /\ cli' \in [Streams -> [pc : {"reading", "posting"}, frame_count : Nat, task_count : {0}]]
      /\ \A z \in Streams : Captured(z)' = Captured(z)
  <2>1. PICK status \in {202, 500, 504} : cli' = [cli EXCEPT ![s] = Goes(cli[s], status)]
    BY DEF ConnectionLost
  <2> QED
    BY <2>1, GoesOn DEF ConnectionLost
<1>2. ClientInv'
  BY <1>1, ClientsAfter DEF ConnectionLost, IInv, ClientInv
<1> QED
  BY <1>2, QueueKept, WorkKept, MetaKept, PollKept DEF ConnectionLost, IInv, work

(* The three ends of a request. *)
LEMMA AnswerStep ==
  ASSUME IInv, NEW f \in wire, NEW n \in 0 .. 2, NEW status \in {202, 500},
         Answer(f, status), Publish(f, n), UNCHANGED <<upset, work, meta, poll>>,
         Fault \/ UNCHANGED faults
  PROVE  IInv'
<1>1. f \in Frame
  BY DEF IInv, ClientInv
<1>2. /\ cli' \in [Streams -> [pc : {"reading", "posting"}, frame_count : Nat, task_count : {0}]]
      /\ \A z \in Streams : Captured(z)' = Captured(z)
      /\ wire' = wire \ {f}
  BY <1>1, Answered
<1>3. /\ QueueInv' /\ copies' \in [Frame -> 0 .. 2]
      /\ \A g \in Frame : copies'[g] # copies[g] => g = f
  BY Published DEF work
<1>4. ClientInv'
  BY <1>2, <1>3, ClientsAfter DEF IInv, ClientInv
<1>5. \A g \in Frame : copies[g] > 0 => copies'[g] > 0
  BY <1>3 DEF IInv, ClientInv
<1> QED
  BY <1>3, <1>4, <1>5, WorkKept, MetaKept, PollKept DEF IInv, work

LEMMA IngestStep ==
  ASSUME IInv, NEW f \in Frame, ingest_frame(f) \/ ingest_frame_fails(f)
  PROVE  IInv'
<1>1. CASE ingest_frame(f)
  BY <1>1, AnswerStep DEF ingest_frame
<1>2. CASE ingest_frame_fails(f)
  <2>1. PICK n \in 0 .. 1 : Publish(f, n)
    BY <1>2 DEF ingest_frame_fails
  <2> QED
    BY <1>2, <2>1, AnswerStep DEF ingest_frame_fails
<1> QED
  BY <1>1, <1>2

LEMMA EncryptFailsStep ==
  ASSUME IInv, NEW f \in Frame, encrypt_frame_fails(f)
  PROVE  IInv'
<1>1. /\ cli' \in [Streams -> [pc : {"reading", "posting"}, frame_count : Nat, task_count : {0}]]
      /\ \A z \in Streams : Captured(z)' = Captured(z)
      /\ wire' = wire \ {f}
  BY Answered DEF encrypt_frame_fails
<1>2. ClientInv'
  BY <1>1, ClientsAfter DEF encrypt_frame_fails, IInv, ClientInv
<1> QED
  BY <1>2, QueueKept, WorkKept, MetaKept, PollKept DEF encrypt_frame_fails, IInv, work

------------------------------------------------------------------------------
(* Whatever is recorded is a state. *)
LEMMA MetaAfter ==
  ASSUME MetaInv, NEW f, NEW m \in States,
         meta' = Record(f, m) \/ meta' = [meta EXCEPT ![f] = m]
  PROVE  MetaInv'
BY DEF MetaInv, Record

LEMMA StateFacts ==
  /\ {"PENDING", "STARTED", "FAILURE", "SUCCESS"} \subseteq States
  /\ \A plates \in BOOLEAN : Outcome(plates) \in States
BY DEF States, Outcome, Ready

(* Every message is one of a published frame. *)
LEMMA LineIsPublished ==
  ASSUME IInv, NEW k \in 1 .. Len(broker)
  PROVE  broker[k] \in Frame /\ copies[broker[k]] > 0
<1> DEFINE f == broker[k]
<1>1. broker \in Seq(Frame) /\ f \in Frame /\ k \in At(broker, f)
  BY DEF IInv, QueueInv, At
<1> HIDE DEF f
<1>2. Cardinality(At(broker, f)) \in Nat /\ Cardinality(At(broker, f)) # 0
  BY <1>1, AtFinite, FS_EmptySet
<1>3. /\ unacked[f] \in Nat /\ again[f] \in Nat /\ runs[f] \in Nat /\ copies[f] \in 0 .. 2
      /\ runs[f] + Cardinality(At(broker, f)) + unacked[f] = copies[f] + again[f]
      /\ again[f] > 0 => copies[f] > 0
  BY <1>1 DEF IInv, QueueInv, ClientInv
<1>4. copies[f] > 0
  BY <1>2, <1>3
<1> QED
  BY <1>1, <1>4 DEF f

(* So is one that Redis keeps, and its frame has been handed out again.    *)
LEMMA UnackedIsPublished ==
  ASSUME IInv, NEW f \in Frame, unacked[f] > 0
  PROVE  copies[f] > 0 /\ f \in back
<1>1. /\ unacked[f] \in Nat /\ again[f] \in Nat /\ runs[f] \in Nat /\ copies[f] \in 0 .. 2
      /\ runs[f] + Cardinality(At(broker, f)) + unacked[f] = copies[f] + again[f]
      /\ again[f] > 0 => copies[f] > 0
      /\ f \in back /\ broker \in Seq(Frame)
  BY DEF IInv, QueueInv, ClientInv
<1>2. Cardinality(At(broker, f)) \in Nat
  BY <1>1, AtFinite
<1> QED
  BY <1>1, <1>2

LEMMA ReserveStep == ASSUME IInv, Reserve PROVE IInv'
<1>1. reserved' \in 0 .. Prefetch /\ reserved' <= Len(broker)
  BY FrameIngestAssumption DEF FrameIngestAssumption, Reserve, IInv, QueueInv
<1>2. QueueInv'
  BY <1>1 DEF Reserve, IInv, QueueInv, At, work
<1> QED
  BY <1>2, ClientKept, WorkKept, MetaKept, PollKept DEF Reserve, IInv, net, work

(* One message less, one execution more. *)
LEMMA StartStep == ASSUME IInv, NEW p \in Children, Start(p) PROVE IInv'
<1> DEFINE f == broker[1]
<1>1. broker \in Seq(Frame) /\ 1 \in 1 .. Len(broker) /\ f \in Frame /\ copies[f] > 0
  <2>1. 1 \in 1 .. Len(broker) /\ broker \in Seq(Frame)
    BY DEF Start, IInv, QueueInv
  <2> QED
    BY <2>1, LineIsPublished
<1>2. /\ broker' = [j \in 1 .. Len(broker) - 1 |-> broker[IF j < 1 THEN j ELSE j + 1]]
      /\ runs' = [runs EXCEPT ![f] = @ + 1] /\ copies' = copies
      /\ reserved' = reserved - 1 /\ reserved > 0
      /\ child' = [child EXCEPT ![p].task = f] /\ UNCHANGED <<unacked, back, again>>
  BY DEF Start, Without, Turn
<1> HIDE DEF f
<1>3. /\ broker' \in Seq(Frame) /\ Len(broker') = Len(broker) - 1
      /\ \A g : Cardinality(At(broker', g)) =
                  Cardinality(At(broker, g)) - (IF g = f THEN 1 ELSE 0)
  BY <1>1, <1>2, RemovedAt DEF f
<1>4. ASSUME NEW g \in Frame
      PROVE  runs'[g] + Cardinality(At(broker', g)) + unacked'[g] = copies'[g] + again'[g]
  <2>1. /\ runs[g] \in Nat /\ copies[g] \in 0 .. 2 /\ unacked[g] \in Nat /\ again[g] \in Nat
        /\ runs[g] + Cardinality(At(broker, g)) + unacked[g] = copies[g] + again[g]
    BY DEF IInv, QueueInv, ClientInv
  <2>2. Cardinality(At(broker, g)) \in Nat /\ Cardinality(At(broker', g)) \in Nat
    BY <1>1, <1>3, AtFinite
  <2>3. runs'[g] = runs[g] + (IF g = f THEN 1 ELSE 0)
    BY <1>2 DEF IInv, QueueInv
  <2> QED
    BY <1>2, <1>3, <2>1, <2>2, <2>3
<1>5. runs' \in [Frame -> Nat] /\ reserved' \in 0 .. Prefetch /\ reserved' <= Len(broker')
  BY <1>1, <1>2, <1>3, FrameIngestAssumption DEF IInv, QueueInv, FrameIngestAssumption
<1>6. QueueInv'
  BY <1>2, <1>3, <1>4, <1>5 DEF IInv, QueueInv, At
<1>7. WorkInv'
  BY <1>1, <1>2 DEF Start, IInv, WorkInv, ChildType, Idle, f, NoTask
<1>8. MetaInv'
  BY MetaAfter, StateFacts DEF Start, IInv
<1> QED
  BY <1>6, <1>7, <1>8, ClientKept, PollKept DEF Start, IInv, net

------------------------------------------------------------------------------
(* A child whose task changes hands keeps its type. *)
LEMMA ChildAfter ==
  ASSUME WorkInv, NEW p, NEW c \in ChildType,
         c.task \in {NoTask, child[p].task}, c.returned => c.task # NoTask,
         child' = [child EXCEPT ![p] = c], UNCHANGED copies,
         lost' \subseteq Frame, Fault \/ UNCHANGED faults
  PROVE  WorkInv'
<1>1. \A q \in Children : child'[q] \in {child[q], c} /\ child'[q].task \in {NoTask, child[q].task}
  BY DEF WorkInv
<1>2. child' \in [Children -> ChildType]
  BY DEF WorkInv
<1>3. \A q \in Children : child'[q].returned => child'[q].task # NoTask
  BY <1>1 DEF WorkInv, Idle
<1>4. \A q \in Children : child'[q].task # NoTask => copies'[child'[q].task] > 0
  BY <1>1 DEF WorkInv, Idle
<1> QED
  BY <1>2, <1>3, <1>4, FaultTyped DEF WorkInv, Idle, ChildType

LEMMA FreshFacts == Fresh \in ChildType /\ Fresh.returned = FALSE /\ Fresh.task = NoTask
BY DEF Fresh, ChildType

LEMMA ReturnsStep ==
  ASSUME IInv, NEW p \in Children, process_frame(p) \/ decrypt_frame_fails(p)
  PROVE  IInv'
<1>1. PICK plates \in BOOLEAN : Returns(p, plates)
  BY DEF process_frame, decrypt_frame_fails
<1>2. /\ child[p].task # NoTask /\ UNCHANGED <<net, runs, lost, line, meta, poll, copies, faults>>
      /\ child' = [child EXCEPT ![p] = [child[p] EXCEPT !.returned = TRUE, !.plates = plates]]
  BY <1>1 DEF Returns, Idle, IInv, WorkInv
<1> DEFINE c == [child[p] EXCEPT !.returned = TRUE, !.plates = plates]
<1>3. c \in ChildType /\ c.task = child[p].task
  BY <1>1, <1>2 DEF IInv, WorkInv, ChildType
<1>4. WorkInv'
  BY <1>2, <1>3, ChildAfter DEF IInv, WorkInv
<1> QED
  BY <1>2, <1>4, ClientKept, QueueKept, MetaKept, PollKept DEF IInv, net

LEMMA StoreStep == ASSUME IInv, NEW p \in Children, Store(p) PROVE IInv'
<1>1. WorkInv'
  BY ChildAfter, FreshFacts DEF Store, Released, IInv, WorkInv
<1>2. child[p].plates \in BOOLEAN
  BY DEF IInv, WorkInv, ChildType
<1>3. MetaInv'
  BY <1>2, MetaAfter, StateFacts DEF Store, IInv
<1> QED
  BY <1>1, <1>3, ClientKept, QueueKept, PollKept DEF Store, IInv, net

LEMMA ChildDiesStep == ASSUME IInv, NEW p \in Children, ChildDies(p) PROVE IInv'
<1>1. WorkInv'
  BY ChildAfter, FreshFacts DEF ChildDies, IInv, WorkInv
<1>2. MetaInv'
  BY MetaAfter, StateFacts DEF ChildDies, IInv
<1>3. UNCHANGED line
  BY DEF ChildDies, AfterDeath, line
<1> QED
  BY <1>1, <1>2, <1>3, ClientKept, QueueKept, PollKept DEF ChildDies, IInv, net

(* What a dead worker held of a frame is kept by Redis, and what had just  *)
(* begun is handed out once more.                                          *)
LEMMA WorkerDiesStep == ASSUME IInv, WorkerDies PROVE IInv'
<1>1. Running \subseteq Frame /\ UNCHANGED <<net, runs, meta, poll, copies>>
  BY DEF WorkerDies, Running, Idle, IInv, WorkInv, ChildType
<1>2. WorkInv'
  <2>1. \A q \in Children : child'[q] = Fresh
    BY DEF WorkerDies
  <2>2. child' \in [Children -> ChildType] /\ lost' \subseteq Frame
    BY <1>1, FreshFacts DEF WorkerDies, IInv, WorkInv
  <2> QED
    BY <2>1, <2>2, FreshFacts, FaultTyped DEF WorkerDies, IInv, WorkInv, Idle, ChildType
<1>3. QueueInv'
  <2> DEFINE Held(f) == AmongFirst(broker, reserved, f)
             rest == AfterFirst(broker, reserved)
  <2>1. PICK early \in SUBSET {p \in Children : ~ Idle(p) /\ ~ child[p].returned} :
          LET Begun(f) == {p \in early : child[p].task = f}
          IN  /\ unacked' = [f \in Frame |->
                   unacked[f] + Cardinality(Held(f)) + Cardinality(Begun(f))]
              /\ again' = [f \in Frame |-> again[f] + Cardinality(Begun(f))]
              /\ back' = back \cup {f \in Frame : Held(f) # {} \/ Begun(f) # {}}
    BY DEF WorkerDies, AmongFirst
  <2> DEFINE Begun(f) == {p \in early : child[p].task = f}
  <2>2. broker' = rest /\ reserved' = 0
    BY DEF WorkerDies, AfterFirst
  <2>3. broker \in Seq(Frame) /\ reserved \in 0 .. Len(broker)
    BY DEF IInv, QueueInv
  <2>4. ASSUME NEW f \in Frame
        PROVE  /\ Cardinality(Begun(f)) \in Nat
               /\ Begun(f) = {} => Cardinality(Begun(f)) = 0
               /\ Begun(f) # {} => copies[f] > 0
    <3>1. IsFiniteSet(Begun(f))
      BY FrameIngestAssumption, FS_Subset DEF FrameIngestAssumption
    <3>2. Cardinality(Begun(f)) \in Nat /\ (Begun(f) = {} => Cardinality(Begun(f)) = 0)
      BY <3>1, FS_CardinalityType, FS_EmptySet
    <3>3. Begun(f) # {} => copies[f] > 0
      BY DEF IInv, WorkInv
    <3> QED
      BY <3>2, <3>3
  <2>5. ASSUME NEW f \in Frame
        PROVE  /\ Cardinality(Held(f)) \in Nat
               /\ Held(f) = {} => Cardinality(Held(f)) = 0
               /\ Cardinality(Held(f)) + Cardinality(At(rest, f)) = Cardinality(At(broker, f))
               /\ Cardinality(At(rest, f)) \in Nat
    <3>1. /\ rest \in Seq(Frame) /\ Cardinality(Held(f)) \in Nat
          /\ Held(f) = {} => Cardinality(Held(f)) = 0
          /\ Cardinality(Held(f)) + Cardinality(At(rest, f)) = Cardinality(At(broker, f))
      BY <2>3, SplitAt
    <3>2. Cardinality(At(rest, f)) \in Nat
      BY <3>1, AtFinite
    <3> QED
      BY <3>1, <3>2
  <2> HIDE DEF Held, Begun
  <2>6. /\ unacked' = [f \in Frame |-> unacked[f] + Cardinality(Held(f)) + Cardinality(Begun(f))]
        /\ again' = [f \in Frame |-> again[f] + Cardinality(Begun(f))]
        /\ back' = back \cup {f \in Frame : Held(f) # {} \/ Begun(f) # {}}
    BY <2>1 DEF Held, Begun
  <2>7. rest \in Seq(Frame) /\ Len(rest) \in Nat
    BY <2>3, SplitAt
  <2> HIDE DEF rest
  <2>8. /\ \A f \in Frame : unacked[f] \in Nat /\ again[f] \in Nat /\ runs[f] \in Nat
        /\ back \subseteq Frame /\ runs \in [Frame -> Nat] /\ \A f \in Frame : copies[f] \in 0 .. 2
        /\ \A f \in Frame :
             runs[f] + Cardinality(At(broker, f)) + unacked[f] = copies[f] + again[f]
        /\ \A f \in Frame : /\ again[f] > 0 => copies[f] > 0
                            /\ unacked[f] > 0 => f \in back
    BY DEF IInv, QueueInv, ClientInv
  <2>9. unacked' \in [Frame -> Nat] /\ again' \in [Frame -> Nat] /\ back' \subseteq Frame
    BY <2>4, <2>5, <2>6, <2>8
  <2>10. ASSUME NEW f \in Frame
         PROVE  /\ runs'[f] + Cardinality(At(broker', f)) + unacked'[f] = copies'[f] + again'[f]
                /\ again'[f] > 0 => copies'[f] > 0
                /\ unacked'[f] > 0 => f \in back'
    <3>1. /\ unacked'[f] = unacked[f] + Cardinality(Held(f)) + Cardinality(Begun(f))
          /\ again'[f] = again[f] + Cardinality(Begun(f))
      BY <2>6
    <3>2. At(broker', f) = At(rest, f)
      BY <2>2
    <3>3. /\ unacked[f] \in Nat /\ again[f] \in Nat /\ runs[f] \in Nat /\ copies[f] \in 0 .. 2
          /\ runs[f] + Cardinality(At(broker, f)) + unacked[f] = copies[f] + again[f]
          /\ again[f] > 0 => copies[f] > 0
          /\ unacked[f] > 0 => f \in back
          /\ runs'[f] = runs[f] /\ copies'[f] = copies[f]
      BY <1>1, <2>8
    <3>4. /\ Cardinality(Held(f)) \in Nat /\ Cardinality(Begun(f)) \in Nat
          /\ Cardinality(Held(f)) + Cardinality(At(rest, f)) = Cardinality(At(broker, f))
          /\ Cardinality(At(rest, f)) \in Nat
      BY <2>4, <2>5
    <3>5. runs'[f] + Cardinality(At(broker', f)) + unacked'[f] = copies'[f] + again'[f]
      BY <3>1, <3>2, <3>3, <3>4
    <3>6. again'[f] > 0 => copies'[f] > 0
      BY <2>4, <3>1, <3>3, <3>4
    <3>7. unacked'[f] > 0 => f \in back'
      <4>1. CASE Held(f) # {} \/ Begun(f) # {}
        BY <2>6, <4>1
      <4>2. CASE Held(f) = {} /\ Begun(f) = {}
        <5>1. Cardinality(Held(f)) = 0 /\ Cardinality(Begun(f)) = 0
          BY <2>4, <2>5, <4>2
        <5>2. unacked'[f] = unacked[f]
          BY <3>1, <3>3, <5>1
        <5> QED
          BY <2>6, <3>3, <5>2
      <4> QED
        BY <4>1, <4>2
    <3> QED
      BY <3>5, <3>6, <3>7
  <2>11. 0 \in 0 .. Prefetch /\ 0 <= Len(rest)
    BY <2>7, FrameIngestAssumption DEF FrameIngestAssumption
  <2> QED
    BY <1>1, <2>2, <2>7, <2>8, <2>9, <2>10, <2>11 DEF QueueInv, At
<1> QED
  BY <1>1, <1>2, <1>3, ClientKept, MetaKept, PollKept DEF IInv, net

(* One message more in line, in the place of one that Redis kept or for    *)
(* one that it hands out again.                                            *)
LEMMA GivenBackStep ==
  ASSUME IInv, NEW f \in Frame, copies[f] > 0, broker' = GivenBack(f), back \subseteq back',
         back' \subseteq Frame, UNCHANGED <<runs, reserved, copies>>,
         unacked' \in [Frame -> Nat], again' \in [Frame -> Nat],
         \A g \in Frame : unacked'[g] <= unacked[g],
         \A g \in Frame \ {f} : unacked'[g] = unacked[g] /\ again'[g] = again[g],
         unacked'[f] + 1 + again[f] = unacked[f] + again'[f]
  PROVE  QueueInv'
<1>1. broker \in Seq(Frame) /\ reserved \in 0 .. Len(broker)
  BY DEF IInv, QueueInv
<1>2. /\ broker' \in Seq(Frame)
      /\ \A g : Cardinality(At(broker', g)) =
                  Cardinality(At(broker, g)) + (IF g = f THEN 1 ELSE 0)
  BY <1>1, InsertedAt DEF GivenBack
<1>3. Len(broker') = Len(broker) + 1
  BY <1>1 DEF GivenBack
<1>4. ASSUME NEW g \in Frame
      PROVE  /\ runs'[g] + Cardinality(At(broker', g)) + unacked'[g] = copies'[g] + again'[g]
             /\ again'[g] > 0 => copies'[g] > 0
             /\ unacked'[g] > 0 => g \in back'
  <2>1. /\ runs[g] \in Nat /\ copies[g] \in 0 .. 2 /\ unacked[g] \in Nat /\ again[g] \in Nat
        /\ runs[g] + Cardinality(At(broker, g)) + unacked[g] = copies[g] + again[g]
        /\ again[g] > 0 => copies[g] > 0
        /\ unacked[g] > 0 => g \in back
    BY DEF IInv, QueueInv, ClientInv
  <2>2. Cardinality(At(broker, g)) \in Nat /\ unacked'[g] \in Nat /\ again'[g] \in Nat
    BY <1>1, AtFinite
  <2>3. Cardinality(At(broker', g)) = Cardinality(At(broker, g)) + (IF g = f THEN 1 ELSE 0)
    BY <1>2
  <2>4. CASE g = f
    BY <2>1, <2>2, <2>3, <2>4
  <2>5. CASE g # f
    BY <2>1, <2>2, <2>3, <2>5
  <2> QED
    BY <2>4, <2>5
<1>5. reserved' <= Len(broker') /\ reserved' \in 0 .. Prefetch
  BY <1>1, <1>3 DEF IInv, QueueInv
<1> QED
  BY <1>2, <1>4, <1>5 DEF IInv, QueueInv, At

LEMMA RestoreStep == ASSUME IInv, NEW f \in Frame, Restore(f) PROVE IInv'
<1>1. /\ unacked[f] > 0 /\ broker' = GivenBack(f) /\ unacked' = [unacked EXCEPT ![f] = @ - 1]
      /\ UNCHANGED <<net, work, reserved, back, again, meta, poll, copies, faults>>
  BY DEF Restore
<1>2. /\ unacked \in [Frame -> Nat] /\ again \in [Frame -> Nat] /\ back \subseteq Frame
      /\ copies[f] > 0
  BY <1>1, UnackedIsPublished DEF IInv, QueueInv
<1>3. /\ unacked' \in [Frame -> Nat] /\ unacked'[f] = unacked[f] - 1
      /\ \A g \in Frame \ {f} : unacked'[g] = unacked[g]
  BY <1>1, <1>2
<1>4. \A g \in Frame : unacked'[g] <= unacked[g]
  BY <1>2, <1>3
<1>5. unacked'[f] + 1 + again[f] = unacked[f] + again'[f]
  BY <1>1, <1>2, <1>3
<1>6. QueueInv'
  BY <1>1, <1>2, <1>3, <1>4, <1>5, GivenBackStep DEF work
<1> QED
  BY <1>1, <1>6, ClientKept, WorkKept, MetaKept, PollKept DEF IInv, net, work

LEMMA OverdueStep == ASSUME IInv, Overdue PROVE IInv'
<1>1. PICK i \in 1 .. reserved :
        /\ broker' = GivenBack(broker[i]) /\ back' = back \cup {broker[i]}
        /\ again' = [again EXCEPT ![broker[i]] = @ + 1]
  BY DEF Overdue
<1>2. Fault /\ UNCHANGED <<net, work, reserved, unacked, meta, poll, copies>>
  BY DEF Overdue
<1> DEFINE f == broker[i]
<1>3. i \in 1 .. Len(broker)
  BY DEF IInv, QueueInv
<1>4. f \in Frame /\ copies[f] > 0
  BY <1>3, LineIsPublished
<1>5. unacked \in [Frame -> Nat] /\ again \in [Frame -> Nat] /\ back \subseteq Frame
  BY DEF IInv, QueueInv
<1> HIDE DEF f
<1>6. /\ broker' = GivenBack(f) /\ back' = back \cup {f} /\ again' \in [Frame -> Nat]
      /\ again'[f] = again[f] + 1 /\ \A g \in Frame \ {f} : again'[g] = again[g]
  BY <1>1, <1>4, <1>5 DEF f
<1>7. unacked'[f] + 1 + again[f] = unacked[f] + again'[f] /\ \A g \in Frame : unacked'[g] <= unacked[g]
  BY <1>2, <1>4, <1>5, <1>6
<1>8. QueueInv'
  BY <1>2, <1>4, <1>5, <1>6, <1>7, GivenBackStep DEF work
<1> QED
  BY <1>2, <1>8, ClientKept, WorkKept, MetaKept, PollKept DEF IInv, net, work

LEMMA ExpireStep == ASSUME IInv, NEW f \in Frame, Expire(f) PROVE IInv'
<1>1. MetaInv'
  BY MetaAfter, StateFacts DEF Expire, IInv
<1> QED
  BY <1>1, ClientKept, QueueKept, WorkKept, PollKept DEF Expire, IInv, net, work

------------------------------------------------------------------------------
(* What a poll reads is what the backend or its own cache holds, and what  *)
(* is kept of it decides every further read once the task is ready.        *)
LEMMA ReadFacts ==
  ASSUME IInv, poll.step # "none"
  PROVE  /\ MetaRead \in States /\ KeepMeta(MetaRead) \in States
         /\ poll.cache \in Ready => MetaRead = poll.cache
         /\ MetaRead \in Ready => KeepMeta(MetaRead) = MetaRead
BY DEF IInv, MetaInv, PollInv, MetaRead, KeepMeta

LEMMA PollStep ==
  ASSUME IInv, (\E f \in Frame : PollBegins(f)) \/ ReadState \/ ReadResult \/ ReadError
  PROVE  IInv'
<1> DEFINE m == MetaRead
           k == KeepMeta(MetaRead)
<1>1. ASSUME NEW f \in Frame, PollBegins(f) PROVE PollInv'
  BY <1>1, StateFacts DEF PollBegins, PollInv, NoPoll
<1>2. ASSUME ReadState PROVE PollInv'
  <2>1. /\ poll.step = "state" /\ poll.task \in Frame
        /\ poll' = [poll EXCEPT !.state = m, !.cache = k, !.step = "result"]
    BY <1>2 DEF ReadState, IInv, PollInv
  <2>2. k \in States /\ (m \in Ready => k = m)
    BY <2>1, ReadFacts
  <2> HIDE DEF m, k
  <2>3. /\ poll' = [task |-> poll'.task, step |-> poll'.step, cache |-> poll'.cache,
                    state |-> poll'.state, result |-> poll'.result]
        /\ poll'.task = poll.task /\ poll'.step = "result" /\ poll'.cache = k
        /\ poll'.state = m
    BY <2>1 DEF IInv, PollInv
  <2> QED
    BY <2>1, <2>2, <2>3 DEF PollInv
<1>3. ASSUME ReadResult PROVE PollInv'
  <2>1. /\ poll.step = "result" /\ poll.task \in Frame
        /\ poll' = [poll EXCEPT !.result = (m = "SUCCESS"), !.cache = k, !.step = "error"]
        /\ poll.state \in Ready => poll.cache = poll.state
    BY <1>3 DEF ReadResult, IInv, PollInv
  <2>2. /\ k \in States /\ (m \in Ready => k = m)
        /\ poll.cache \in Ready => m = poll.cache
    BY <2>1, ReadFacts
  <2> HIDE DEF m, k
  <2>3. /\ poll' = [task |-> poll'.task, step |-> poll'.step, cache |-> poll'.cache,
                    state |-> poll'.state, result |-> poll'.result]
        /\ poll'.task = poll.task /\ poll'.step = "error" /\ poll'.cache = k
        /\ poll'.state = poll.state /\ poll'.result = (m = "SUCCESS")
    BY <2>1 DEF IInv, PollInv
  <2>4. poll'.result <=> m = "SUCCESS"
    BY <2>3, Zenon
  <2>5. poll'.task \in Frame /\ poll'.cache \in States
    BY <2>1, <2>2, <2>3
  <2>6. poll'.state \in Ready => poll'.cache = poll'.state
    BY <2>1, <2>2, <2>3
  <2>7. poll'.state = "SUCCESS" => m = "SUCCESS"
    BY <2>1, <2>2, <2>3 DEF Ready
  <2>8. m = "SUCCESS" => poll'.cache = "SUCCESS"
    BY <2>2, <2>3 DEF Ready
  <2> QED
    BY <2>3, <2>4, <2>5, <2>6, <2>7, <2>8 DEF PollInv
<1>4. ASSUME ReadError PROVE PollInv'
  BY <1>4, StateFacts DEF ReadError, PollInv, NoPoll
<1>5. PollInv' /\ UNCHANGED <<net, work, line, meta, copies, faults>>
  BY <1>1, <1>2, <1>3, <1>4 DEF PollBegins, ReadState, ReadResult, ReadError
<1> QED
  BY <1>5, ClientKept, QueueKept, WorkKept, MetaKept DEF IInv, net, work

------------------------------------------------------------------------------
LEMMA NextIInv == IInv /\ [Next]_vars => IInv'
<1> SUFFICES ASSUME IInv, [Next]_vars PROVE IInv'
  OBVIOUS
<1>1. CASE UNCHANGED vars
  BY <1>1, ClientKept, QueueKept, WorkKept, MetaKept, PollKept DEF IInv, vars, net, work
<1>2. ASSUME NEW s \in Streams, Capture(s) \/ ConnectionLost(s) PROVE IInv'
  BY <1>2, CaptureStep, ConnectionLostStep
<1>3. ASSUME NEW f \in Frame, ingest_frame(f) \/ encrypt_frame_fails(f) \/ ingest_frame_fails(f)
      PROVE  IInv'
  BY <1>3, IngestStep, EncryptFailsStep
<1>4. ASSUME NEW f \in Frame, Expire(f) \/ PollBegins(f) PROVE IInv'
  BY <1>4, ExpireStep, PollStep
<1>5. ASSUME NEW p \in Children, Work(p) \/ ChildDies(p) PROVE IInv'
  BY <1>5, StartStep, ReturnsStep, StoreStep, ChildDiesStep DEF Work
<1>6. CASE Reserve \/ WorkerDies \/ (\E f \in Frame : Restore(f)) \/ Overdue
  BY <1>6, ReserveStep, WorkerDiesStep, RestoreStep, OverdueStep
<1>7. CASE ReadState \/ ReadResult \/ ReadError
  BY <1>7, PollStep
<1> QED
  BY <1>1, <1>2, <1>3, <1>4, <1>5, <1>6, <1>7 DEF Next

LEMMA SpecIInv == Spec => []IInv
BY InitIInv, NextIInv, PTL DEF Spec

------------------------------------------------------------------------------
(* The order of the frames of a stream *)

(* As long as a stream's client has lost no connection, frame f of it is   *)
(* ahead of frame g, each published once and g never handed out again.     *)
Before(f, g) ==
  f[1] = g[1] /\ f[1] \notin upset /\ copies[f] = 1 /\ copies[g] = 1 /\ g \notin back
    => f[2] < g[2]

(* The same in the next state. *)
BeforeNext(f, g) ==
  f[1] = g[1] /\ f[1] \notin upset' /\ copies'[f] = 1 /\ copies'[g] = 1 /\ g \notin back'
    => f[2] < g[2]

(* What is published was answered, what is on the wire is the next frame.  *)
LineInv ==
  /\ \A f \in wire : f[1] \notin upset =>
       cli[f[1]].pc = "posting" /\ f[2] = cli[f[1]].frame_count + 1
  /\ \A f \in Frame : copies[f] > 0 /\ f[1] \notin upset => f[2] <= cli[f[1]].frame_count

(* The queue is in order. *)
QueueOrder ==
  /\ \A i \in 1 .. Len(broker) : copies[broker[i]] > 0
  /\ \A i, j \in 1 .. Len(broker) : i < j => Before(broker[i], broker[j])

(* So is what a child's orchestrator was given, then the task the child    *)
(* has in hand and has not given to it, then the queue.                    *)
ChildOrder(p) ==
  /\ \A i \in 1 .. Len(fed[p]) : copies[fed[p][i]] > 0
  /\ \A i, j \in 1 .. Len(fed[p]) : i < j => Before(fed[p][i], fed[p][j])
  /\ \A i \in 1 .. Len(fed[p]), k \in 1 .. Len(broker) : Before(fed[p][i], broker[k])
  /\ ~ Idle(p) => /\ copies[child[p].task] > 0
                  /\ \A k \in 1 .. Len(broker) : Before(child[p].task, broker[k])
  /\ ~ Idle(p) /\ ~ child[p].returned =>
       \A i \in 1 .. Len(fed[p]) : Before(fed[p][i], child[p].task)

(* A message that Redis keeps is of a frame ahead of the whole queue: what *)
(* is ahead of it when it comes back is another matter (Before's g).       *)
AwayOrder ==
  \A f \in Frame : unacked[f] > 0 => \A k \in 1 .. Len(broker) : Before(f, broker[k])

OrderInv ==
  /\ fed \in [Children -> Seq(Frame)]
  /\ LineInv /\ QueueOrder /\ AwayOrder /\ \A p \in Children : ChildOrder(p)

LEMMA InitOrder == Init => OrderInv
BY DEF Init, OrderInv, LineInv, QueueOrder, AwayOrder, ChildOrder, Idle, Fresh

(* Frames in the queue, in a child's hand or in an orchestrator. *)
LEMMA PlacesAreFrames ==
  ASSUME IInv, OrderInv
  PROVE  /\ \A k \in 1 .. Len(broker) : broker[k] \in Frame
         /\ \A p \in Children : ~ Idle(p) => child[p].task \in Frame
         /\ \A p \in Children : \A i \in 1 .. Len(fed[p]) : fed[p][i] \in Frame
<1>1. \A k \in 1 .. Len(broker) : broker[k] \in Frame
  BY DEF IInv, QueueInv
<1>2. \A p \in Children : ~ Idle(p) => child[p].task \in Frame
  BY DEF IInv, WorkInv, ChildType, Idle
<1>3. ASSUME NEW p \in Children, NEW i \in 1 .. Len(fed[p])
      PROVE  fed[p][i] \in Frame
  <2>1. fed[p] \in Seq(Frame)
    BY DEF OrderInv
  <2> QED
    BY <2>1
<1> QED
  BY <1>1, <1>2, <1>3

(* Two published frames stay in order: no message of theirs is published   *)
(* again, and a client that lost a connection has lost it for good.        *)
LEMMA BeforeStays ==
  ASSUME NEW f, NEW g, Before(f, g), upset \subseteq upset', back \subseteq back',
         copies'[f] = copies[f], copies'[g] = copies[g]
  PROVE  Before(f, g)'
BY DEF Before

(* The clients may go on as long as what is published keeps its number of  *)
(* messages and the queue and the children stay as they are.               *)
LEMMA OrderKept ==
  ASSUME IInv, OrderInv, LineInv', upset \subseteq upset',
         \A f \in Frame : copies[f] > 0 => copies'[f] = copies[f],
         UNCHANGED <<line, child, fed>>
  PROVE  OrderInv'
<1> USE DEF line, hold
<1>1. QueueOrder'
  <2>1. \A k \in 1 .. Len(broker) : copies[broker[k]] > 0 /\ copies'[broker[k]] = copies[broker[k]]
    BY PlacesAreFrames DEF OrderInv, QueueOrder
  <2> QED
    BY <2>1, BeforeStays DEF OrderInv, QueueOrder
<1>2. ASSUME NEW p \in Children PROVE ChildOrder(p)'
  <2>1. \A k \in 1 .. Len(broker) : copies'[broker[k]] = copies[broker[k]]
    BY PlacesAreFrames DEF OrderInv, QueueOrder
  <2>2. \A i \in 1 .. Len(fed[p]) : copies'[fed[p][i]] = copies[fed[p][i]]
    BY PlacesAreFrames DEF OrderInv, ChildOrder
  <2>3. ~ Idle(p) => copies'[child[p].task] = copies[child[p].task]
    BY PlacesAreFrames DEF OrderInv, ChildOrder
  <2>4. ChildOrder(p) /\ (Idle(p)' <=> Idle(p))
    BY DEF OrderInv, Idle
  <2> QED
    BY <2>1, <2>2, <2>3, <2>4, BeforeStays DEF ChildOrder
<1>3. AwayOrder'
  <2>1. \A k \in 1 .. Len(broker) : copies'[broker[k]] = copies[broker[k]]
    BY PlacesAreFrames DEF OrderInv, QueueOrder
  <2>2. \A f \in Frame : unacked[f] > 0 => copies'[f] = copies[f]
    BY UnackedIsPublished
  <2> QED
    BY <2>1, <2>2, BeforeStays DEF OrderInv, AwayOrder
<1> QED
  BY <1>1, <1>2, <1>3 DEF OrderInv

(* A client captures a frame only when the one before it was answered. *)
LEMMA CaptureOrder ==
  ASSUME IInv, OrderInv, NEW s \in Streams, Capture(s)
  PROVE  OrderInv'
<1>1. /\ cli[s].pc = "reading" /\ wire' = wire \cup {InFlight(s)}
      /\ cli' = [cli EXCEPT ![s].pc = "posting"]
      /\ UNCHANGED <<upset, line, child, fed, copies>>
  BY DEF Capture, work
<1>2. \A z \in Streams : /\ cli'[z].frame_count = cli[z].frame_count
                         /\ cli'[z].pc = IF z = s THEN "posting" ELSE cli[z].pc
  BY <1>1 DEF IInv, ClientInv
<1>3. \A f \in wire : f \in Frame /\ f[1] \in Streams
  BY FrameFacts DEF IInv, ClientInv
<1>4. InFlight(s)[1] = s /\ InFlight(s)[2] = cli[s].frame_count + 1
  BY DEF InFlight
<1>5. LineInv'
  BY <1>1, <1>2, <1>3, <1>4, FrameFacts DEF OrderInv, LineInv
<1> QED
  BY <1>1, <1>5, OrderKept

LEMMA ConnectionLostOrder ==
  ASSUME IInv, OrderInv, NEW s \in Streams, ConnectionLost(s)
  PROVE  OrderInv'
<1>1. /\ upset' = upset \cup {s} /\ wire' \subseteq wire
      /\ UNCHANGED <<line, child, fed, copies>>
      /\ \A z \in Streams \ {s} : cli'[z] = cli[z]
  BY DEF ConnectionLost, work, IInv, ClientInv
<1>2. \A f \in wire : f \in Frame
  BY DEF IInv, ClientInv
<1>3. LineInv'
  BY <1>1, <1>2, FrameFacts DEF OrderInv, LineInv
<1> QED
  BY <1>1, <1>3, OrderKept

(* An answer finds the client of an undisturbed stream waiting for it, and *)
(* lets it go on to the next frame.                                        *)
LEMMA AnswerOrder ==
  ASSUME IInv, OrderInv, NEW f \in wire, NEW status \in {202, 500}, Answer(f, status),
         UNCHANGED upset
  PROVE  /\ f \in Frame /\ f[1] \in Streams
         /\ f[1] \notin upset => /\ f[2] = cli[f[1]].frame_count + 1
                                 /\ cli'[f[1]].frame_count = f[2]
         /\ \A g \in wire' : g \in Frame /\ g # f /\ (g[1] \notin upset => g[1] # f[1])
         /\ \A z \in Streams \ {f[1]} : cli'[z] = cli[z]
<1>1. f \in Frame /\ f[1] \in Streams /\ f = <<f[1], f[2]>>
  BY FrameFacts DEF IInv, ClientInv
<1>2. wire' = wire \ {f} /\ \A z \in Streams \ {f[1]} : cli'[z] = cli[z]
  BY <1>1 DEF Answer, IInv, ClientInv
<1>3. \A g \in wire' : g \in wire /\ g \in Frame /\ g # f /\ g = <<g[1], g[2]>>
  BY <1>2, FrameFacts DEF IInv, ClientInv
<1>4. \A g \in wire' : g[1] \notin upset => g[1] # f[1]
  BY <1>1, <1>3 DEF OrderInv, LineInv
<1>5. ASSUME f[1] \notin upset
      PROVE  f[2] = cli[f[1]].frame_count + 1 /\ cli'[f[1]].frame_count = f[2]
  <2>1. cli[f[1]].pc = "posting" /\ f[2] = cli[f[1]].frame_count + 1
    BY <1>5 DEF OrderInv, LineInv
  <2>2. f = InFlight(f[1])
    BY <1>1, <2>1 DEF InFlight
  <2>3. cli' = [cli EXCEPT ![f[1]] = Goes(@, status)]
    BY <2>1, <2>2 DEF Answer
  <2>4. cli'[f[1]] = Goes(cli[f[1]], status)
    BY <1>1, <2>3 DEF IInv, ClientInv
  <2> QED
    BY <2>1, <2>4 DEF Goes
<1> QED
  BY <1>1, <1>2, <1>3, <1>4, <1>5

LEMMA EncryptFailsOrder ==
  ASSUME IInv, OrderInv, NEW f \in Frame, encrypt_frame_fails(f)
  PROVE  OrderInv'
<1>1. UNCHANGED <<upset, line, child, fed, copies>> /\ f \in wire /\ Answer(f, 500)
  BY DEF encrypt_frame_fails, work
<1>2. \A z \in Streams : z # f[1] => cli'[z] = cli[z]
  BY <1>1, AnswerOrder
<1>3. \A g \in wire' : g \in wire /\ (g[1] \notin upset => g[1] \in Streams /\ g[1] # f[1])
  <2>1. wire' \subseteq wire
    BY <1>1 DEF Answer
  <2> QED
    BY <1>1, <2>1, AnswerOrder, FrameFacts
<1>4. \A g \in Frame : copies'[g] > 0 /\ g[1] \notin upset => g[2] <= cli'[g[1]].frame_count
  <2> SUFFICES ASSUME NEW g \in Frame, copies[g] > 0, g[1] \notin upset
               PROVE  g[2] <= cli'[g[1]].frame_count
    BY <1>1
  <2>1. g[2] <= cli[g[1]].frame_count /\ g[1] \in Streams /\ g[2] \in Nat
    BY FrameFacts DEF OrderInv, LineInv
  <2>2. CASE g[1] = f[1]
    <3>1. cli'[f[1]].frame_count = cli[f[1]].frame_count + 1
      BY <1>1, <2>2, AnswerOrder
    <3>2. cli[f[1]].frame_count \in Nat
      BY <2>1, <2>2 DEF IInv, ClientInv
    <3> QED
      BY <2>1, <2>2, <3>1, <3>2
  <2> QED
    BY <1>2, <2>1, <2>2
<1>5. LineInv'
  BY <1>1, <1>2, <1>3, <1>4 DEF OrderInv, LineInv
<1> QED
  BY <1>1, <1>5, OrderKept

(* A published frame joins the end of the queue, behind every frame that   *)
(* its client had captured before.                                         *)
LEMMA PublishOrder ==
  ASSUME IInv, OrderInv, NEW f \in wire, NEW n \in 0 .. 2, NEW status \in {202, 500},
         Answer(f, status), Publish(f, n), UNCHANGED <<upset, child, fed>>
  PROVE  OrderInv'
<1>1. /\ f \in Frame /\ f[1] \in Streams /\ copies[f] = 0 /\ copies \in [Frame -> 0 .. 2]
      /\ f[1] \notin upset => /\ f[2] = cli[f[1]].frame_count + 1
                              /\ cli'[f[1]].frame_count = f[2]
      /\ \A g \in wire' : g \in Frame /\ g # f /\ (g[1] \notin upset => g[1] # f[1])
      /\ \A z \in Streams \ {f[1]} : cli'[z] = cli[z]
  BY AnswerOrder DEF IInv, ClientInv
<1>2. /\ copies'[f] = n /\ \A g \in Frame : g # f => copies'[g] = copies[g]
      /\ \A g \in Frame : copies[g] > 0 => g # f /\ copies'[g] = copies[g]
  BY <1>1 DEF Publish
<1>3. /\ broker \in Seq(Frame) /\ Len(broker) \in Nat
      /\ Len(broker') = Len(broker) + n
      /\ \A i \in 1 .. Len(broker) : broker'[i] = broker[i] /\ broker[i] \in Frame
      /\ \A i \in Len(broker) + 1 .. Len(broker) + n : broker'[i] = f
  BY <1>1 DEF Publish, IInv, QueueInv
<1>0. UNCHANGED <<reserved, unacked, back, again>>
  BY DEF Publish, hold
<1>4. \A i \in 1 .. Len(broker') :
        i \in 1 .. Len(broker) \/ (i \in Len(broker) + 1 .. Len(broker) + n /\ n > 0)
  BY <1>3
(* Nothing published so far is behind the new frame, if that is alone.     *)
<1>5. ASSUME NEW g \in Frame, copies[g] > 0
      PROVE  Before(g, f)'
  <2> SUFFICES ASSUME g[1] = f[1], f[1] \notin upset
               PROVE  g[2] < f[2]
    BY DEF Before
  <2>1. g[2] <= cli[f[1]].frame_count /\ f[2] = cli[f[1]].frame_count + 1
    BY <1>1, <1>5 DEF OrderInv, LineInv
  <2>2. cli[f[1]].frame_count \in Nat /\ g[2] \in Nat
    BY <1>1, FrameFacts DEF IInv, ClientInv
  <2> QED
    BY <2>1, <2>2
<1>6. ASSUME NEW g \in Frame, NEW h \in Frame, copies[g] > 0, copies[h] > 0, Before(g, h)
      PROVE  Before(g, h)'
  BY <1>0, <1>2, <1>6, BeforeStays
<1>7. \A k \in 1 .. Len(broker) : copies[broker[k]] > 0
  BY DEF OrderInv, QueueOrder
<1>8. QueueOrder'
  <2>1. \A i \in 1 .. Len(broker') : copies'[broker'[i]] > 0
    BY <1>2, <1>3, <1>4, <1>7
  <2>2. ASSUME NEW i \in 1 .. Len(broker'), NEW j \in 1 .. Len(broker'), i < j
        PROVE  Before(broker[i], broker[j])' \/ i \notin 1 .. Len(broker) \/ j \notin 1 .. Len(broker)
    <3> SUFFICES ASSUME i \in 1 .. Len(broker), j \in 1 .. Len(broker)
                 PROVE  Before(broker[i], broker[j])'
      OBVIOUS
    <3>1. PICK g \in Frame, h \in Frame : g = broker[i] /\ h = broker[j]
      BY <1>3
    <3>2. g = broker'[i] /\ h = broker'[j]
      BY <1>3, <3>1
    <3>3. Before(g, h)'
      BY <1>6, <1>7, <2>2, <3>1 DEF OrderInv, QueueOrder
    <3> QED
      BY <3>2, <3>3 DEF Before
  <2>3. ASSUME NEW i \in 1 .. Len(broker'), NEW j \in 1 .. Len(broker'), i < j
        PROVE  Before(broker[i], broker[j])'
    <3>1. CASE j \in 1 .. Len(broker)
      BY <1>3, <2>2, <2>3, <3>1
    <3>2. CASE j \notin 1 .. Len(broker)
      <4>1. broker'[j] = f /\ n > 0
        BY <1>3, <1>4, <3>2
      <4>2. CASE i \in 1 .. Len(broker)
        <5>1. PICK g \in Frame : g = broker[i] /\ g = broker'[i]
          BY <1>3, <4>2
        <5>2. copies[g] > 0
          BY <1>7, <4>2, <5>1
        <5>3. Before(g, f)'
          BY <1>5, <5>2
        <5> QED
          BY <4>1, <5>1, <5>3 DEF Before
      <4>3. CASE i \notin 1 .. Len(broker)
        <5>1. n = 2
          BY <1>3, <1>4, <2>3, <3>2, <4>3
        <5> QED
          BY <1>2, <4>1, <5>1 DEF Before
      <4> QED
        BY <4>2, <4>3
    <3> QED
      BY <3>1, <3>2
  <2> QED
    BY <2>1, <2>3 DEF QueueOrder
<1>9. ASSUME NEW g \in Frame, copies[g] > 0, \A k \in 1 .. Len(broker) : Before(g, broker[k])
      PROVE  \A k \in 1 .. Len(broker') : Before(g, broker[k])'
  <2> SUFFICES ASSUME NEW k \in 1 .. Len(broker') PROVE Before(g, broker[k])'
    OBVIOUS
  <2>1. CASE k \in 1 .. Len(broker)
    <3>1. PICK h \in Frame : h = broker[k] /\ h = broker'[k]
      BY <1>3, <2>1
    <3>2. Before(g, h)
      <4>1. Before(g, broker[k])
        BY <1>9, <2>1
      <4> QED
        BY <3>1, <4>1 DEF Before
    <3>3. copies[h] > 0
      BY <1>7, <2>1, <3>1
    <3>4. Before(g, h)'
      BY <1>6, <1>9, <3>2, <3>3
    <3> QED
      BY <3>1, <3>4 DEF Before
  <2>2. CASE k \notin 1 .. Len(broker)
    <3>1. broker'[k] = f
      BY <1>3, <1>4, <2>2
    <3> QED
      BY <1>5, <1>9, <3>1 DEF Before
  <2> QED
    BY <2>1, <2>2
<1>10. ASSUME NEW p \in Children PROVE ChildOrder(p)'
  <2>1. ChildOrder(p) /\ (Idle(p)' <=> Idle(p))
    BY DEF OrderInv, Idle
  <2>2. /\ \A i \in 1 .. Len(fed[p]) : fed[p][i] \in Frame /\ copies[fed[p][i]] > 0
        /\ ~ Idle(p) => child[p].task \in Frame /\ copies[child[p].task] > 0
    BY <2>1, PlacesAreFrames DEF ChildOrder
  <2>4. /\ \A i \in 1 .. Len(fed'[p]) : copies'[fed'[p][i]] > 0
        /\ ~ Idle(p)' => copies'[child'[p].task] > 0
    BY <1>2, <2>1, <2>2
  <2>5. \A i, j \in 1 .. Len(fed'[p]) : i < j => Before(fed[p][i], fed[p][j])'
    <3> SUFFICES ASSUME NEW i \in 1 .. Len(fed[p]), NEW j \in 1 .. Len(fed[p]), i < j
                 PROVE  Before(fed[p][i], fed[p][j])'
      OBVIOUS
    <3>1. PICK g \in Frame, h \in Frame : g = fed[p][i] /\ h = fed[p][j]
      BY <2>2
    <3>2. copies[g] > 0 /\ copies[h] > 0
      BY <2>2, <3>1
    <3>3. Before(g, h)
      BY <2>1, <3>1 DEF ChildOrder
    <3>4. Before(g, h)'
      BY <1>6, <3>2, <3>3
    <3> QED
      BY <3>1, <3>4 DEF Before
  <2>6. \A i \in 1 .. Len(fed'[p]), k \in 1 .. Len(broker') : Before(fed[p][i], broker[k])'
    <3> SUFFICES ASSUME NEW i \in 1 .. Len(fed[p]), NEW k \in 1 .. Len(broker')
                 PROVE  Before(fed[p][i], broker[k])'
      OBVIOUS
    <3>1. PICK g \in Frame : g = fed[p][i]
      BY <2>2
    <3>2. Before(g, broker[k])'
      BY <2>1, <2>2, <1>9, <3>1 DEF ChildOrder
    <3> QED
      BY <3>1, <3>2 DEF Before
  <2>7. ~ Idle(p) => \A k \in 1 .. Len(broker') : Before(child[p].task, broker[k])'
    <3> SUFFICES ASSUME ~ Idle(p), NEW k \in 1 .. Len(broker')
                 PROVE  Before(child[p].task, broker[k])'
      OBVIOUS
    <3>1. PICK g \in Frame : g = child[p].task
      BY <2>2
    <3>2. Before(g, broker[k])'
      BY <2>1, <2>2, <1>9, <3>1 DEF ChildOrder
    <3> QED
      BY <3>1, <3>2 DEF Before
  <2>8. ~ Idle(p) /\ ~ child[p].returned =>
          \A i \in 1 .. Len(fed[p]) : Before(fed[p][i], child[p].task)'
    <3> SUFFICES ASSUME ~ Idle(p), ~ child[p].returned, NEW i \in 1 .. Len(fed[p])
                 PROVE  Before(fed[p][i], child[p].task)'
      OBVIOUS
    <3>1. PICK g \in Frame, h \in Frame : g = fed[p][i] /\ h = child[p].task
      BY <2>2
    <3>2. Before(g, h)'
      BY <1>6, <2>1, <2>2, <3>1 DEF ChildOrder
    <3> QED
      BY <3>1, <3>2 DEF Before
  <2> QED
    BY <2>1, <2>4, <2>5, <2>6, <2>7, <2>8 DEF ChildOrder
<1>11. AwayOrder'
  <2> SUFFICES ASSUME NEW g \in Frame, unacked[g] > 0, NEW k \in 1 .. Len(broker')
               PROVE  Before(g, broker[k])'
    BY <1>0 DEF AwayOrder
  <2>1. copies[g] > 0
    BY UnackedIsPublished
  <2>2. \A j \in 1 .. Len(broker) : Before(g, broker[j])
    BY DEF OrderInv, AwayOrder
  <2> QED
    BY <1>9, <2>1, <2>2
<1>12. LineInv'
  <2>1. \A g \in wire' : g \in wire /\ g \in Frame /\ g[1] \in Streams
    BY <1>1, FrameFacts DEF Answer
  <2>2. \A g \in wire' : g[1] \notin upset => cli'[g[1]] = cli[g[1]]
    BY <1>1, <2>1
  <2>3. ASSUME NEW g \in Frame, copies'[g] > 0, g[1] \notin upset
        PROVE  g[2] <= cli'[g[1]].frame_count
    <3>1. g[1] \in Streams /\ g[2] \in Nat
      BY FrameFacts
    <3>2. CASE g = f
      BY <1>1, <2>3, <3>1, <3>2
    <3>3. CASE g # f
      <4>1. g[2] <= cli[g[1]].frame_count
        BY <1>2, <2>3, <3>3 DEF OrderInv, LineInv
      <4>2. CASE g[1] = f[1]
        <5>1. cli'[g[1]].frame_count = cli[g[1]].frame_count + 1
          BY <1>1, <2>3, <4>2
        <5>2. cli[g[1]].frame_count \in Nat
          BY <3>1 DEF IInv, ClientInv
        <5> QED
          BY <3>1, <4>1, <5>1, <5>2
      <4> QED
        BY <1>1, <3>1, <4>1, <4>2
    <3> QED
      BY <3>2, <3>3
  <2> QED
    BY <2>1, <2>2, <2>3 DEF OrderInv, LineInv
<1> QED
  BY <1>8, <1>10, <1>11, <1>12 DEF OrderInv

LEMMA IngestOrder ==
  ASSUME IInv, OrderInv, NEW f \in Frame, ingest_frame(f) \/ ingest_frame_fails(f)
  PROVE  OrderInv'
<1>1. CASE ingest_frame(f)
  BY <1>1, PublishOrder DEF ingest_frame, work
<1>2. CASE ingest_frame_fails(f)
  <2>1. PICK n \in 0 .. 1 : Publish(f, n)
    BY <1>2 DEF ingest_frame_fails
  <2> QED
    BY <1>2, <2>1, PublishOrder DEF ingest_frame_fails, work
<1> QED
  BY <1>1, <1>2

(* The task taken is the first of the queue: what stays follows it.        *)
LEMMA StartOrder ==
  ASSUME IInv, OrderInv, NEW p \in Children, Start(p)
  PROVE  OrderInv'
<1> DEFINE f == broker[1]
<1>1. broker \in Seq(Frame) /\ 1 \in 1 .. Len(broker) /\ f \in Frame
  <2>1. 1 \in 1 .. Len(broker) /\ broker \in Seq(Frame)
    BY DEF Start, IInv, QueueInv
  <2> QED
    BY <2>1
<1>2. broker' = [j \in 1 .. Len(broker) - 1 |-> broker[IF j < 1 THEN j ELSE j + 1]]
  BY DEF Start, Without, Turn
<1>3. /\ child' = [child EXCEPT ![p].task = f] /\ Idle(p)
      /\ UNCHANGED <<net, fed, copies, unacked, back>>
  BY DEF Start, Turn
<1> HIDE DEF f
<1>4. /\ Len(broker') = Len(broker) - 1 /\ Len(broker) \in Nat
      /\ \A j \in 1 .. Len(broker') :
           broker'[j] = broker[j + 1] /\ j + 1 \in 1 .. Len(broker) /\ 1 < j + 1
      /\ \A j, k \in 1 .. Len(broker') : j < k => j + 1 < k + 1
  BY <1>1, <1>2
<1>5. \A j \in 1 .. Len(broker') : Before(f, broker'[j])
  BY <1>1, <1>4 DEF OrderInv, QueueOrder, f
<1>6. QueueOrder'
  <2>1. \A j \in 1 .. Len(broker') : copies'[broker'[j]] > 0
    BY <1>3, <1>4 DEF OrderInv, QueueOrder
  <2>2. \A j, k \in 1 .. Len(broker') : j < k => Before(broker'[j], broker'[k])
    BY <1>4 DEF OrderInv, QueueOrder
  <2> QED
    BY <1>3, <2>1, <2>2 DEF QueueOrder, Before, net
<1>7. AwayOrder'
  <2>1. \A g \in Frame : unacked[g] > 0 => \A j \in 1 .. Len(broker') : Before(g, broker'[j])
    BY <1>4 DEF OrderInv, AwayOrder
  <2> QED
    BY <1>3, <2>1 DEF AwayOrder, Before, net
<1>8. ASSUME NEW q \in Children PROVE ChildOrder(q)'
  <2>1. ChildOrder(q) /\ copies[f] > 0
    BY <1>1 DEF OrderInv, QueueOrder, f
  <2>2. \A k \in 1 .. Len(fed[q]), j \in 1 .. Len(broker') : Before(fed[q][k], broker'[j])
    BY <1>4, <2>1 DEF ChildOrder
  <2>3. CASE q = p
    <3>1. child'[p].task = f
      BY <1>3 DEF IInv, WorkInv, ChildType
    <3>2. \A k \in 1 .. Len(fed[p]) : Before(fed[p][k], f)
      BY <1>1, <2>1, <2>3 DEF ChildOrder, f
    <3> QED
      BY <1>3, <1>5, <2>1, <2>2, <2>3, <3>1, <3>2 DEF ChildOrder, Before, net
  <2>4. CASE q # p
    <3>1. child'[q] = child[q] /\ (Idle(q)' <=> Idle(q))
      BY <1>3, <2>4 DEF IInv, WorkInv, Idle
    <3>2. ~ Idle(q) => \A j \in 1 .. Len(broker') : Before(child[q].task, broker'[j])
      BY <1>4, <2>1 DEF ChildOrder
    <3> QED
      BY <1>3, <2>1, <2>2, <3>1, <3>2 DEF ChildOrder, Before, net
  <2> QED
    BY <2>3, <2>4
<1>9. LineInv'
  BY <1>3 DEF OrderInv, LineInv, net
<1> QED
  BY <1>3, <1>6, <1>7, <1>8, <1>9 DEF OrderInv

(* The orchestrator is given the task its child has in hand. *)
LEMMA ReturnsOrder ==
  ASSUME IInv, OrderInv, NEW p \in Children, process_frame(p) \/ decrypt_frame_fails(p)
  PROVE  OrderInv'
<1>1. PICK plates \in BOOLEAN : Returns(p, plates)
  BY DEF process_frame, decrypt_frame_fails
<1>2. /\ ~ Idle(p) /\ ~ child[p].returned /\ UNCHANGED <<net, line, copies>>
      /\ child' = [child EXCEPT ![p] = [child[p] EXCEPT !.returned = TRUE, !.plates = plates]]
  BY <1>1 DEF Returns, IInv, WorkInv
<1>3. /\ \A q \in Children : child'[q].task = child[q].task
      /\ \A q \in Children : q # p => child'[q] = child[q]
      /\ child'[p].returned = TRUE
  BY <1>2 DEF IInv, WorkInv, ChildType
<1>4. \A q \in Children : Idle(q)' <=> Idle(q)
  BY <1>3 DEF Idle
<1>5. child[p].task \in Frame /\ fed \in [Children -> Seq(Frame)]
  BY <1>2, PlacesAreFrames DEF OrderInv
<1>6. fed' = fed \/ fed' = [fed EXCEPT ![p] = Append(@, child[p].task)]
  BY DEF process_frame, decrypt_frame_fails
<1>7. /\ fed' \in [Children -> Seq(Frame)]
      /\ \A q \in Children : q # p => fed'[q] = fed[q]
  <2>1. fed[p] \in Seq(Frame) /\ Append(fed[p], child[p].task) \in Seq(Frame)
    BY <1>5
  <2> QED
    BY <1>5, <1>6, <2>1
<1>8. ASSUME NEW q \in Children, fed'[q] = fed[q] PROVE ChildOrder(q)'
  <2>1. child'[q].returned = FALSE => child[q].returned = FALSE
    BY <1>2, <1>3
  <2>2. child'[q].returned \in BOOLEAN /\ child[q].returned \in BOOLEAN
    BY <1>2, <1>3 DEF IInv, WorkInv, ChildType
  <2>3. ChildOrder(q)
    BY DEF OrderInv
  <2> QED
    BY <1>2, <1>3, <1>4, <1>8, <2>1, <2>2, <2>3 DEF ChildOrder, Before, net, line, hold
<1>9. ASSUME fed' = [fed EXCEPT ![p] = Append(@, child[p].task)] PROVE ChildOrder(p)'
  <2> DEFINE n == Len(fed[p])
             t == child[p].task
  <2>1. /\ n \in Nat /\ Len(fed'[p]) = n + 1 /\ fed'[p][n + 1] = t
        /\ \A k \in 1 .. n : fed'[p][k] = fed[p][k]
    <3>1. fed[p] \in Seq(Frame) /\ fed'[p] = Append(fed[p], t)
      BY <1>5, <1>9
    <3> QED
      BY <1>5, <3>1
  <2>2. ChildOrder(p)
    BY DEF OrderInv
  <2>3. /\ copies[t] > 0 /\ \A k \in 1 .. Len(broker) : Before(t, broker[k])
        /\ \A k \in 1 .. n : Before(fed[p][k], t)
    BY <1>2, <2>2 DEF ChildOrder
  <2>4. \A k \in 1 .. n + 1 : k \in 1 .. n \/ k = n + 1
    BY <2>1
  <2>5. /\ \A k \in 1 .. n : copies[fed[p][k]] > 0
        /\ \A k \in 1 .. n, j \in 1 .. Len(broker) : Before(fed[p][k], broker[j])
        /\ \A k, j \in 1 .. n : k < j => Before(fed[p][k], fed[p][j])
    BY <2>2 DEF ChildOrder
  <2> HIDE DEF n, t
  <2>6. \A k \in 1 .. n + 1 : copies[fed'[p][k]] > 0
    BY <2>1, <2>3, <2>4, <2>5
  <2>7. \A k \in 1 .. n + 1, j \in 1 .. Len(broker) : Before(fed'[p][k], broker[j])
    BY <2>1, <2>3, <2>4, <2>5
  <2>8. ASSUME NEW k \in 1 .. n + 1, NEW j \in 1 .. n + 1, k < j
        PROVE  Before(fed'[p][k], fed'[p][j])
    <3>1. k \in 1 .. n
      BY <2>1, <2>4, <2>8
    <3> QED
      BY <2>1, <2>3, <2>4, <2>5, <2>8, <3>1
  <2>9. \A k \in 1 .. Len(broker) : Before(child'[p].task, broker[k])
    BY <1>3, <2>3 DEF t
  <2>10. copies[child'[p].task] > 0
    BY <1>3, <2>3 DEF t
  <2> QED
    BY <1>2, <1>3, <2>1, <2>6, <2>7, <2>8, <2>9, <2>10 DEF ChildOrder, Before, net, line, hold
<1>10. \A q \in Children : ChildOrder(q)'
  BY <1>6, <1>7, <1>8, <1>9
<1>11. LineInv' /\ QueueOrder' /\ AwayOrder'
  BY <1>2 DEF OrderInv, LineInv, QueueOrder, AwayOrder, Before, net, line, hold
<1> QED
  BY <1>7, <1>10, <1>11 DEF OrderInv

(* A child that is done, and one that takes a dead one's place. *)
LEMMA FreshOrder ==
  ASSUME IInv, OrderInv, UNCHANGED <<net, line, copies>>,
         \A q \in Children : \/ child'[q] = child[q] /\ fed'[q] = fed[q]
                             \/ child'[q] = Fresh /\ fed'[q] \in {fed[q], <<>>},
         fed' \in [Children -> Seq(Frame)]
  PROVE  OrderInv'
<1> USE DEF line, hold
<1>1. ASSUME NEW q \in Children PROVE ChildOrder(q)'
  <2>1. ChildOrder(q)
    BY DEF OrderInv
  <2>2. CASE child'[q] = child[q] /\ fed'[q] = fed[q]
    BY <2>1, <2>2 DEF ChildOrder, Before, Idle, net
  <2>3. CASE child'[q] = Fresh /\ fed'[q] \in {fed[q], <<>>}
    <3>1. Idle(q)' /\ \A k \in 1 .. Len(fed'[q]) : fed'[q] = fed[q] /\ k \in 1 .. Len(fed[q])
      BY <2>3 DEF Fresh, Idle
    <3> QED
      BY <2>1, <3>1 DEF ChildOrder, Before, net
  <2> QED
    BY <2>2, <2>3
<1>2. LineInv' /\ QueueOrder' /\ AwayOrder'
  BY DEF OrderInv, LineInv, QueueOrder, AwayOrder, Before, net
<1> QED
  BY <1>1, <1>2 DEF OrderInv

LEMMA ReleaseOrder ==
  ASSUME IInv, OrderInv, NEW p \in Children, Store(p) \/ ChildDies(p)
  PROVE  OrderInv'
<1>1. CASE Store(p)
  <2>1. /\ child' = [child EXCEPT ![p] = Fresh] /\ fed' = fed
        /\ UNCHANGED <<net, line, copies>>
    BY <1>1 DEF Store, Released
  <2>2. \A q \in Children : child'[q] \in {child[q], Fresh} /\ fed'[q] = fed[q]
    BY <2>1 DEF IInv, WorkInv
  <2> QED
    BY <2>1, <2>2, FreshOrder DEF OrderInv
<1>2. CASE ChildDies(p)
  <2>1. /\ child' = [child EXCEPT ![p] = Fresh] /\ fed' = [fed EXCEPT ![p] = <<>>]
        /\ UNCHANGED <<net, line, copies>>
    BY <1>2 DEF ChildDies, AfterDeath, line
  <2>2. /\ \A q \in Children : \/ child'[q] = child[q] /\ fed'[q] = fed[q]
                               \/ child'[q] = Fresh /\ fed'[q] \in {fed[q], <<>>}
        /\ fed' \in [Children -> Seq(Frame)]
    BY <2>1 DEF IInv, WorkInv, OrderInv
  <2> QED
    BY <2>1, <2>2, FreshOrder
<1> QED
  BY <1>1, <1>2

(* What the dead worker held was ahead of the messages that stay in line.  *)
LEMMA WorkerDiesOrder == ASSUME IInv, OrderInv, WorkerDies PROVE OrderInv'
<1> DEFINE Held(f) == {i \in 1 .. reserved : broker[i] = f}
<1>1. PICK early \in SUBSET {p \in Children : ~ Idle(p) /\ ~ child[p].returned} :
        LET Begun(f) == {p \in early : child[p].task = f}
        IN  /\ unacked' = [f \in Frame |->
                 unacked[f] + Cardinality(Held(f)) + Cardinality(Begun(f))]
            /\ back' = back \cup {f \in Frame : Held(f) # {} \/ Begun(f) # {}}
  BY DEF WorkerDies
<1> DEFINE Begun(f) == {p \in early : child[p].task = f}
<1>2. /\ \A p \in Children : child'[p] = Fresh /\ fed'[p] = <<>>
      /\ fed' \in [Children -> Seq(Frame)]
      /\ UNCHANGED <<net, copies>> /\ back \subseteq back'
  BY <1>1 DEF WorkerDies
<1>3. /\ reserved \in Nat /\ reserved <= Len(broker) /\ Len(broker) \in Nat
      /\ Len(broker') = Len(broker) - reserved /\ broker \in Seq(Frame)
      /\ \A i \in 1 .. Len(broker') :
           i + reserved \in 1 .. Len(broker) /\ broker'[i] = broker[i + reserved]
  <2>1. broker \in Seq(Frame) /\ Len(broker) \in Nat /\ reserved \in 0 .. Len(broker)
    BY DEF IInv, QueueInv
  <2>2. broker' = AfterFirst(broker, reserved)
    BY DEF WorkerDies, AfterFirst
  <2>3. /\ Len(broker') = Len(broker) - reserved
        /\ \A i \in 1 .. Len(broker') : broker'[i] = broker[i + reserved]
    BY <2>1, <2>2, SplitAt
  <2> QED
    BY <2>1, <2>3
<1>4. ASSUME NEW f \in Frame, unacked'[f] > 0, NEW k \in 1 .. Len(broker')
      PROVE  Before(f, broker'[k])
  <2>1. unacked'[f] = unacked[f] + Cardinality(Held(f)) + Cardinality(Begun(f)) /\ unacked[f] \in Nat
    BY <1>1 DEF IInv, QueueInv
  <2>2. CASE unacked[f] > 0
    BY <1>3, <2>2 DEF OrderInv, AwayOrder
  <2>3. CASE Held(f) # {}
    <3>1. PICK i \in 1 .. reserved : broker[i] = f
      BY <2>3
    <3>2. i \in 1 .. Len(broker) /\ k + reserved \in 1 .. Len(broker) /\ i < k + reserved
      BY <1>3, <3>1
    <3>3. Before(broker[i], broker[k + reserved])
      BY <3>2 DEF OrderInv, QueueOrder
    <3> QED
      BY <1>3, <3>1, <3>3
  <2>4. CASE Begun(f) # {}
    <3>1. PICK p \in Children : ~ Idle(p) /\ child[p].task = f
      BY <2>4
    <3>2. Before(child[p].task, broker[k + reserved])
      BY <1>3, <3>1 DEF OrderInv, ChildOrder
    <3> QED
      BY <1>3, <3>1, <3>2
  <2>5. Held(f) = {} /\ Begun(f) = {} => unacked'[f] = unacked[f]
    <3> HIDE DEF Held, Begun
    <3> QED
      BY <2>1, FS_EmptySet
  <2> QED
    BY <1>4, <2>1, <2>2, <2>3, <2>4, <2>5
<1>5. \A f, g : Before(f, g) => BeforeNext(f, g)
  BY <1>2 DEF Before, BeforeNext, net
<1>6. QueueOrder'
  <2>1. ASSUME NEW i \in 1 .. Len(broker'), NEW j \in 1 .. Len(broker'), i < j
        PROVE  Before(broker'[i], broker'[j])
    <3>1. /\ i + reserved \in 1 .. Len(broker) /\ j + reserved \in 1 .. Len(broker)
          /\ i + reserved < j + reserved
      BY <1>3, <2>1
    <3>2. Before(broker[i + reserved], broker[j + reserved])
      BY <3>1 DEF OrderInv, QueueOrder
    <3> QED
      BY <1>3, <3>2
  <2>2. \A i \in 1 .. Len(broker') : copies[broker'[i]] > 0
    BY <1>3 DEF OrderInv, QueueOrder
  <2>3. \A i, j \in 1 .. Len(broker') : i < j => BeforeNext(broker'[i], broker'[j])
    BY <1>5, <2>1
  <2> QED
    BY <1>2, <2>2, <2>3 DEF QueueOrder, Before, BeforeNext
<1>7. AwayOrder'
  <2>1. \A f \in Frame : unacked'[f] > 0 =>
          \A k \in 1 .. Len(broker') : BeforeNext(f, broker'[k])
    BY <1>4, <1>5
  <2> QED
    BY <2>1 DEF AwayOrder, Before, BeforeNext
<1>8. ASSUME NEW q \in Children PROVE ChildOrder(q)'
  BY <1>2 DEF ChildOrder, Idle, Fresh
<1>9. LineInv'
  BY <1>2 DEF OrderInv, LineInv, net
<1> QED
  BY <1>2, <1>6, <1>7, <1>8, <1>9 DEF OrderInv

(* A message that is handed out again may follow any, and is ahead of      *)
(* those that the worker has not reserved.                                 *)
LEMMA GivenBackOrder ==
  ASSUME IInv, OrderInv, NEW f \in Frame, copies[f] > 0, broker' = GivenBack(f),
         f \in back', back \subseteq back',
         \A k \in reserved + 1 .. Len(broker) : Before(f, broker[k]),
         \A g \in Frame : unacked'[g] > 0 => unacked[g] > 0,
         UNCHANGED <<net, work, copies>>
  PROVE  OrderInv'
<1> DEFINE at == reserved + 1
           from(j) == IF j < at THEN j ELSE j - 1
<1>1. broker \in Seq(Frame) /\ reserved \in 0 .. Len(broker)
  BY DEF IInv, QueueInv
<1>2. /\ Len(broker') = Len(broker) + 1 /\ at \in 1 .. Len(broker') /\ broker'[at] = f
      /\ \A j \in 1 .. Len(broker') : j # at => /\ from(j) \in 1 .. Len(broker)
                                                /\ broker'[j] = broker[from(j)]
      /\ \A i, j \in 1 .. Len(broker') : i < j /\ i # at /\ j # at => from(i) < from(j)
      /\ \A j \in 1 .. Len(broker') : at < j => from(j) \in reserved + 1 .. Len(broker)
  BY <1>1 DEF GivenBack
<1> HIDE DEF at, from
<1>3. \A x, y : Before(x, y) => BeforeNext(x, y)
  BY DEF Before, BeforeNext, net
<1>4. \A x : BeforeNext(x, f)
  BY DEF BeforeNext
<1>5. ASSUME NEW x, \A k \in 1 .. Len(broker) : Before(x, broker[k])
      PROVE  \A k \in 1 .. Len(broker') : BeforeNext(x, broker'[k])
  <2> SUFFICES ASSUME NEW k \in 1 .. Len(broker') PROVE BeforeNext(x, broker'[k])
    OBVIOUS
  <2>1. CASE k = at
    BY <1>2, <1>4, <2>1
  <2>2. CASE k # at
    BY <1>2, <1>3, <1>5, <2>2
  <2> QED
    BY <2>1, <2>2
<1>6. QueueOrder'
  <2>1. \A k \in 1 .. Len(broker') : copies[broker'[k]] > 0
    BY <1>2 DEF OrderInv, QueueOrder
  <2>2. ASSUME NEW i \in 1 .. Len(broker'), NEW j \in 1 .. Len(broker'), i < j
        PROVE  BeforeNext(broker'[i], broker'[j])
    <3>1. CASE j = at
      BY <1>2, <1>4, <3>1
    <3>2. CASE i = at
      <4>1. from(j) \in reserved + 1 .. Len(broker) /\ broker'[j] = broker[from(j)] /\ j # at
        BY <1>2, <2>2, <3>2
      <4>2. Before(f, broker'[j])
        BY <4>1
      <4> QED
        BY <1>2, <1>3, <3>2, <4>2
    <3>3. CASE i # at /\ j # at
      <4>1. Before(broker'[i], broker'[j])
        BY <1>2, <2>2, <3>3 DEF OrderInv, QueueOrder
      <4> QED
        BY <1>3, <4>1
    <3> QED
      BY <3>1, <3>2, <3>3
  <2> QED
    BY <2>1, <2>2 DEF QueueOrder, Before, BeforeNext
<1>7. AwayOrder'
  <2>1. \A g \in Frame : unacked'[g] > 0 =>
          \A k \in 1 .. Len(broker') : BeforeNext(g, broker'[k])
    BY <1>5 DEF OrderInv, AwayOrder
  <2> QED
    BY <2>1 DEF AwayOrder, Before, BeforeNext
<1>8. ASSUME NEW q \in Children PROVE ChildOrder(q)'
  <2>1. ChildOrder(q) /\ UNCHANGED <<child, fed, copies>> /\ (Idle(q)' <=> Idle(q))
    BY DEF OrderInv, work, Idle
  <2>2. \A i \in 1 .. Len(fed[q]), k \in 1 .. Len(broker') : BeforeNext(fed[q][i], broker'[k])
    BY <1>5, <2>1 DEF ChildOrder
  <2>3. ~ Idle(q) => \A k \in 1 .. Len(broker') : BeforeNext(child[q].task, broker'[k])
    BY <1>5, <2>1 DEF ChildOrder
  <2>4. /\ \A i, j \in 1 .. Len(fed[q]) : i < j => BeforeNext(fed[q][i], fed[q][j])
        /\ ~ Idle(q) /\ ~ child[q].returned =>
             \A i \in 1 .. Len(fed[q]) : BeforeNext(fed[q][i], child[q].task)
    BY <1>3, <2>1 DEF ChildOrder
  <2> QED
    BY <2>1, <2>2, <2>3, <2>4 DEF ChildOrder, Before, BeforeNext
<1>9. LineInv' /\ fed' = fed
  BY DEF OrderInv, LineInv, net, work
<1> QED
  BY <1>6, <1>7, <1>8, <1>9 DEF OrderInv

LEMMA RestoreOrder == ASSUME IInv, OrderInv, NEW f \in Frame, Restore(f) PROVE OrderInv'
<1>1. /\ unacked[f] > 0 /\ broker' = GivenBack(f) /\ unacked' = [unacked EXCEPT ![f] = @ - 1]
      /\ UNCHANGED <<net, work, back, copies>>
  BY DEF Restore
<1>2. copies[f] > 0 /\ f \in back
  BY <1>1, UnackedIsPublished
<1>3. \A k \in reserved + 1 .. Len(broker) : Before(f, broker[k])
  BY <1>1 DEF OrderInv, AwayOrder, IInv, QueueInv
<1>4. \A g \in Frame : unacked'[g] > 0 => unacked[g] > 0
  BY <1>1 DEF IInv, QueueInv
<1> QED
  BY <1>1, <1>2, <1>3, <1>4, GivenBackOrder

LEMMA OverdueOrder == ASSUME IInv, OrderInv, Overdue PROVE OrderInv'
<1>1. PICK i \in 1 .. reserved : broker' = GivenBack(broker[i]) /\ back' = back \cup {broker[i]}
  BY DEF Overdue
<1>2. UNCHANGED <<net, work, unacked, copies>>
  BY DEF Overdue
<1>3. i \in 1 .. Len(broker) /\ \A k \in reserved + 1 .. Len(broker) : k \in 1 .. Len(broker) /\ i < k
  BY DEF IInv, QueueInv
<1>4. broker[i] \in Frame /\ copies[broker[i]] > 0
  BY <1>3, LineIsPublished
<1>5. \A k \in reserved + 1 .. Len(broker) : Before(broker[i], broker[k])
  BY <1>3 DEF OrderInv, QueueOrder
<1> DEFINE f == broker[i]
<1>6. /\ f \in Frame /\ copies[f] > 0 /\ broker' = GivenBack(f) /\ f \in back' /\ back \subseteq back'
      /\ \A k \in reserved + 1 .. Len(broker) : Before(f, broker[k])
  BY <1>1, <1>4, <1>5
<1> HIDE DEF f
<1> QED
  BY <1>2, <1>6, GivenBackOrder

LEMMA NextOrder == IInv /\ OrderInv /\ [Next]_vars => OrderInv'
<1> SUFFICES ASSUME IInv, OrderInv, [Next]_vars PROVE OrderInv'
  OBVIOUS
<1>1. ASSUME UNCHANGED <<net, child, fed, line, copies>> PROVE OrderInv'
  <2>1. LineInv'
    BY <1>1 DEF OrderInv, LineInv, net
  <2> QED
    BY <1>1, <2>1, OrderKept DEF net, line, hold
<1>2. CASE UNCHANGED vars
  BY <1>1, <1>2 DEF vars, work
<1>3. ASSUME NEW s \in Streams, Capture(s) \/ ConnectionLost(s) PROVE OrderInv'
  BY <1>3, CaptureOrder, ConnectionLostOrder
<1>4. ASSUME NEW f \in Frame, ingest_frame(f) \/ encrypt_frame_fails(f) \/ ingest_frame_fails(f)
      PROVE  OrderInv'
  BY <1>4, IngestOrder, EncryptFailsOrder
<1>5. ASSUME NEW f \in Frame, Expire(f) \/ PollBegins(f) PROVE OrderInv'
  BY <1>1, <1>5 DEF Expire, PollBegins, work
<1>6. ASSUME NEW p \in Children, Work(p) \/ ChildDies(p) PROVE OrderInv'
  BY <1>6, StartOrder, ReturnsOrder, ReleaseOrder DEF Work
<1>7. CASE Reserve
  <2>1. UNCHANGED <<net, child, fed, broker, unacked, back, copies>>
    BY <1>7 DEF Reserve, work
  <2>2. ASSUME NEW p \in Children PROVE ChildOrder(p)'
    BY <2>1 DEF OrderInv, ChildOrder, Idle, Before, net
  <2> QED
    BY <2>1, <2>2 DEF OrderInv, LineInv, QueueOrder, AwayOrder, Before, net
<1>8. CASE WorkerDies \/ (\E f \in Frame : Restore(f)) \/ Overdue
  BY <1>8, WorkerDiesOrder, RestoreOrder, OverdueOrder
<1>9. CASE ReadState \/ ReadResult \/ ReadError
  BY <1>1, <1>9 DEF ReadState, ReadResult, ReadError, work
<1> QED
  BY <1>2, <1>3, <1>4, <1>5, <1>6, <1>7, <1>8, <1>9 DEF Next

(* Frames of a stream reach every orchestrator in the order of capture,    *)
(* for any number of streams, children, deaths and reserved messages, as   *)
(* long as the stream's client lost no connection, the frames were         *)
(* published once and no message of the later one in line was handed out   *)
(* again.                                                                  *)
THEOREM SpecStreamOrder == Spec => []StreamOrder
<1>1. OrderInv => StreamOrder
  BY DEF OrderInv, ChildOrder, Before, StreamOrder
<1>2. IInv /\ OrderInv /\ IInv' /\ [Next]_vars => OrderInv'
  BY NextOrder
<1> QED
  BY InitOrder, SpecIInv, <1>1, <1>2, PTL DEF Spec

(* The types, and the finding they carry: however the requests end, the    *)
(* client's task_count stays 0 (ingest_cli.py:51 against ingest.py:35).    *)
THEOREM SpecTypeOK == Spec => []TypeOK
<1>1. ASSUME IInv PROVE TypeOK
  <2>1. ASSUME NEW s \in Streams
        PROVE  cli[s] \in [pc : {"reading", "posting"}, frame_count : 0 .. MaxFrames[s],
                           task_count : {0}]
    BY <1>1, FrameFacts DEF IInv, ClientInv, Captured
  <2>2. ASSUME NEW i \in 1 .. Len(broker) PROVE copies[broker[i]] > 0
    BY <1>1, LineIsPublished
  <2> QED
    BY <1>1, <2>1, <2>2 DEF IInv, ClientInv, QueueInv, WorkInv, ChildType, MetaInv, TypeOK
<1> QED
  BY <1>1, SpecIInv, PTL

(* No execution without a message of its own, for any number of children,  *)
(* deaths and repeated publications, but for one that Redis handed out     *)
(* while its first holder might run it too: the early acknowledgement.     *)
THEOREM SpecRunsAtMostPublished == Spec => []RunsAtMostPublished
<1>1. ASSUME IInv PROVE RunsAtMostPublished
  <2> SUFFICES ASSUME NEW f \in Frame PROVE runs[f] <= copies[f] + again[f]
    BY DEF RunsAtMostPublished
  <2>1. /\ runs[f] \in Nat /\ copies[f] \in 0 .. 2 /\ broker \in Seq(Frame)
        /\ unacked[f] \in Nat /\ again[f] \in Nat
        /\ runs[f] + Cardinality(At(broker, f)) + unacked[f] = copies[f] + again[f]
    BY <1>1 DEF IInv, QueueInv, ClientInv
  <2>2. Cardinality(At(broker, f)) \in Nat
    BY <2>1, AtFinite
  <2> QED
    BY <2>1, <2>2
<1> QED
  BY <1>1, SpecIInv, PTL

(* The three reads of get_task_status agree however the record changes and *)
(* expires between them.                                                   *)
THEOREM SpecPollIsConsistent == Spec => PollIsConsistent
<1>1. ASSUME IInv, [Next]_vars
      PROVE  [ReadError =>
                LET error == MetaRead = "FAILURE"
                IN  /\ poll.state = "SUCCESS" => poll.result
                    /\ poll.state = "FAILURE" => error
                    /\ ~ (poll.result /\ error)]_vars
  BY <1>1, ReadFacts DEF ReadError, IInv, PollInv, Ready
<1> QED
  BY <1>1, SpecIInv, PTL DEF Spec, PollIsConsistent

------------------------------------------------------------------------------
(* No task is forgotten *)

(* A task the backend calls STARTED is being executed, or died with the    *)
(* whole worker.                                                           *)
StartedIsHeld == \A f \in Frame : meta[f] = "STARTED" => f \in Running \cup lost

NothingForgotten ==
  /\ \A f \in Frame :
       runs[f] + Cardinality(At(broker, f)) + unacked[f] = copies[f] + again[f]
  /\ StartedIsHeld

(* A child goes on with a task when another one is recorded: every record  *)
(* written is STARTED only for a task that a child has just taken.         *)
LEMMA HeldAfter ==
  ASSUME IInv, StartedIsHeld, NEW f, NEW m,
         meta' = Record(f, m) \/ meta' = [meta EXCEPT ![f] = m],
         m = "STARTED" => f \in Running' \cup lost',
         Running \ {f} \subseteq Running' \cup lost', lost \subseteq lost'
  PROVE  StartedIsHeld'
<1> SUFFICES ASSUME NEW g \in Frame, meta'[g] = "STARTED" PROVE g \in Running' \cup lost'
  BY DEF StartedIsHeld
<1>1. \/ meta'[g] = meta[g] /\ (g = f => meta[g] = "SUCCESS")
      \/ g = f /\ meta'[g] = m
  BY DEF IInv, MetaInv, Record
<1>2. CASE g = f /\ meta'[g] = m
  BY <1>2
<1>3. CASE meta'[g] = meta[g] /\ (g = f => meta[g] = "SUCCESS")
  BY <1>3 DEF StartedIsHeld
<1> QED
  BY <1>1, <1>2, <1>3

(* The tasks held, when one child changes. *)
LEMMA RunningAfter ==
  ASSUME IInv, NEW p \in Children, NEW c, child' = [child EXCEPT ![p] = c]
  PROVE  /\ Running \ {child[p].task} \subseteq Running'
         /\ c.task # NoTask => c.task \in Running'
<1>1. child'[p] = c /\ \A q \in Children \ {p} : child'[q] = child[q]
  BY DEF IInv, WorkInv
<1>2. /\ Running = {child[q].task : q \in {z \in Children : child[z].task # NoTask}}
      /\ Running' = {child'[q].task : q \in {z \in Children : child'[z].task # NoTask}}
  BY DEF Running, Idle
<1>3. ASSUME NEW f \in Running, f # child[p].task PROVE f \in Running'
  <2>1. PICK q \in Children : child[q].task # NoTask /\ f = child[q].task
    BY <1>2
  <2>2. q # p /\ child'[q].task = f
    BY <1>1, <1>3, <2>1
  <2> QED
    BY <1>2, <2>1, <2>2
<1> QED
  BY <1>1, <1>2, <1>3

LEMMA HeldStep == IInv /\ StartedIsHeld /\ [Next]_vars => StartedIsHeld'
<1> SUFFICES ASSUME IInv, StartedIsHeld, [Next]_vars PROVE StartedIsHeld'
  OBVIOUS
<1>1. ASSUME UNCHANGED <<child, lost, meta>> PROVE StartedIsHeld'
  BY <1>1 DEF StartedIsHeld, Running, Idle
<1>2. ASSUME NEW p \in Children, Start(p) PROVE StartedIsHeld'
  <2> DEFINE f == broker[1]
             c == [child[p] EXCEPT !.task = f]
  <2>1. /\ child' = [child EXCEPT ![p] = c] /\ c.task = f
        /\ child[p].task = NoTask /\ lost' = lost /\ meta' = Record(f, "STARTED")
    BY <1>2 DEF Start, Turn, Idle, IInv, WorkInv, ChildType
  <2>2. f \in Frame /\ f # NoTask
    <3>1. broker \in Seq(Frame) /\ 1 \in 1 .. Len(broker)
      BY <1>2 DEF Start, IInv, QueueInv
    <3>2. f \in Frame
      BY <3>1
    <3> QED
      BY <3>2 DEF Frame, NoTask
  <2> HIDE DEF c, f
  <2>3. f \in Running' /\ Running \ {NoTask} \subseteq Running'
    BY <2>1, <2>2, RunningAfter
  <2>4. NoTask \notin Running
    BY DEF Running, Idle
  <2> QED
    BY <2>1, <2>3, <2>4, HeldAfter
<1>3. ASSUME NEW p \in Children, process_frame(p) \/ decrypt_frame_fails(p) PROVE StartedIsHeld'
  <2>1. PICK plates \in BOOLEAN : Returns(p, plates)
    BY <1>3 DEF process_frame, decrypt_frame_fails
  <2> DEFINE c == [child[p] EXCEPT !.returned = TRUE, !.plates = plates]
  <2>2. /\ child' = [child EXCEPT ![p] = c] /\ UNCHANGED <<lost, meta>>
        /\ c.task = child[p].task /\ child[p].task # NoTask
    BY <2>1 DEF Returns, Idle, IInv, WorkInv, ChildType
  <2> HIDE DEF c
  <2>3. Running \subseteq Running'
    BY <2>2, RunningAfter
  <2> QED
    BY <2>2, <2>3 DEF StartedIsHeld
<1>4. ASSUME NEW p \in Children, Store(p) \/ ChildDies(p) PROVE StartedIsHeld'
  <2>1. PICK m \in {Outcome(child[p].plates), "FAILURE"} : meta' = Record(child[p].task, m)
    BY <1>4 DEF Store, ChildDies
  <2>2. m # "STARTED"
    BY DEF Outcome
  <2>3. child' = [child EXCEPT ![p] = Fresh] /\ lost' = lost
    BY <1>4 DEF Store, ChildDies, Released
  <2>4. Running \ {child[p].task} \subseteq Running'
    BY <2>3, RunningAfter
  <2> QED
    BY <2>1, <2>2, <2>3, <2>4, HeldAfter
<1>5. ASSUME WorkerDies PROVE StartedIsHeld'
  BY <1>5 DEF WorkerDies, StartedIsHeld
<1>10. ASSUME Reserve \/ (\E f \in Frame : Restore(f)) \/ Overdue PROVE StartedIsHeld'
  BY <1>1, <1>10 DEF Reserve, Restore, Overdue, work
<1>6. ASSUME NEW f \in Frame, Expire(f) PROVE StartedIsHeld'
  <2>1. /\ meta' = [meta EXCEPT ![f] = "PENDING"] /\ lost' = lost /\ child' = child
        /\ Running' = Running /\ "PENDING" # "STARTED"
    BY <1>6 DEF Expire, work, Running, Idle
  <2> QED
    BY <2>1, HeldAfter
<1>7. ASSUME NEW s \in Streams, Capture(s) \/ ConnectionLost(s) PROVE StartedIsHeld'
  BY <1>1, <1>7 DEF Capture, ConnectionLost, work
<1>8. ASSUME NEW f \in Frame,
             ingest_frame(f) \/ encrypt_frame_fails(f) \/ ingest_frame_fails(f) \/ PollBegins(f)
      PROVE  StartedIsHeld'
  BY <1>1, <1>8 DEF ingest_frame, encrypt_frame_fails, ingest_frame_fails, PollBegins, work
<1>9. ASSUME ReadState \/ ReadResult \/ ReadError \/ UNCHANGED vars PROVE StartedIsHeld'
  BY <1>1, <1>9 DEF ReadState, ReadResult, ReadError, vars, work
<1> QED
  BY <1>2, <1>3, <1>4, <1>5, <1>6, <1>7, <1>8, <1>9, <1>10 DEF Next, Work

(* No task is forgotten between the queue, the children and the backend:   *)
(* each message is in line, kept by Redis or was taken by one execution,   *)
(* and a record left at STARTED has a child at work on its task, or        *)
(* belongs to one that died with the whole worker. It is what              *)
(* TasksAreDecided rests on besides the fairness of the children.          *)
THEOREM SpecNothingForgotten == Spec => []NothingForgotten
<1>1. Init => StartedIsHeld
  BY DEF Init, StartedIsHeld
<1>2. IInv /\ StartedIsHeld => NothingForgotten
  BY DEF NothingForgotten, IInv, QueueInv
<1> QED
  BY <1>1, <1>2, HeldStep, SpecIInv, PTL DEF Spec

==============================================================================
