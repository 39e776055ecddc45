----------------------------- MODULE CaptureProofs -----------------------------
(***************************************************************************)
(* Theorems about the two parts that capture frames: FrameScheduler, for   *)
(* every queue size, every number of frames and every finite set of        *)
(* consumer threads; then RtspSource, for any delays and any duration of a *)
(* connection attempt, under either caller.                                *)
(***************************************************************************)
EXTENDS FrameScheduler, RtspSource, FiniteSetTheorems, WellFoundedInduction, TLAPS

(* What makes the safety properties inductive. *)

(* The eviction branch is entered only with a bounded queue, and leaves    *)
(* room for the frame in hand once a frame was taken out.                  *)
RoomMade ==
  /\ pc \in {"evict", "countDrop", "reput"} => MaxQueue > 0
  /\ pc \in {"countDrop", "reput"} => Len(queue) < MaxQueue

(* Whatever was delivered is older than everything that can still be.      *)
DeliveredBelow ==
  /\ produced - InHand - Len(queue) >= 0
  /\ \A i \in 1 .. Len(delivered) : delivered[i] <= produced - InHand - Len(queue)
  /\ \A i, j \in 1 .. Len(delivered) : i < j => delivered[i] < delivered[j]

(* While the reader is between queue.Full and get_nowait, the room in the  *)
(* queue was made by deliveries.                                           *)
LossPaidFor ==
  /\ MaxQueue * lost <= Len(delivered)
  /\ pc = "evict" =>
       MaxQueue * lost + (MaxQueue - Len(queue)) <= Len(delivered)

(* A reader past the check of _stop has not read since stop() was called.  *)
StopSeen ==
  stop => /\ produced <= readAtStop + 1
          /\ pc = "read" => produced <= readAtStop

------------------------------------------------------------------------------

LEMMA InHandType == InHand \in {0, 1}
  BY DEF InHand

(* The two operations on the queue, as facts about its length and items.   *)
LEMMA EnqueueFacts ==
  ASSUME NEW S, queue \in Seq(S), produced \in S, Enqueue
  PROVE  /\ queue' \in Seq(S)
         /\ Len(queue') = Len(queue) + 1
         /\ \A i \in 1 .. Len(queue) : queue'[i] = queue[i]
         /\ queue'[Len(queue) + 1] = produced
  BY DEF Enqueue

LEMMA DequeueFacts ==
  ASSUME NEW S, queue \in Seq(S), Dequeue
  PROVE  /\ queue' \in Seq(S)
         /\ Len(queue) > 0
         /\ Len(queue') = Len(queue) - 1
         /\ Head(queue) = queue[1]
         /\ Head(queue) \in S
         /\ \A i \in 1 .. Len(queue') : queue'[i] = queue[i + 1]
  BY DEF Dequeue

LEMMA AppendFacts ==
  ASSUME NEW S, NEW s \in Seq(S), NEW e \in S
  PROVE  /\ Append(s, e) \in Seq(S)
         /\ Len(Append(s, e)) = Len(s) + 1
         /\ \A i \in 1 .. Len(s) : Append(s, e)[i] = s[i]
         /\ Append(s, e)[Len(s) + 1] = e
  OBVIOUS

------------------------------------------------------------------------------

(* Type correctness, with the capacity of the queue, needs RoomMade (the   *)
(* second put_nowait is the one that could exceed it) and the fact that a  *)
(* frame in hand was read.                                                 *)
TypeInv == TypeOK /\ RoomMade /\ InHand <= produced

LEMMA TypeInit == Init => TypeInv
<1> SUFFICES ASSUME Init PROVE TypeInv
  OBVIOUS
<1> USE SchedulerAssumption DEF Init
<1>1. queue \in Seq(1 .. MaxFrames) /\ delivered \in Seq(1 .. MaxFrames) /\ Len(queue) = 0
  OBVIOUS
<1>2. cpc \in [Consumers -> {"idle", "count", "size"}]
  OBVIOUS
<1>3. pc = "check" /\ produced = 0
  OBVIOUS
<1>4. stop \in BOOLEAN
  OBVIOUS
<1>5. /\ framesRead = 0 /\ framesDropped = 0 /\ framesConsumed = 0
      /\ queueSize = 0 /\ evicted = 0 /\ lost = 0 /\ readAtStop = 0
  OBVIOUS
<1> HIDE DEF Init
<1>6. TypeOK
  BY <1>1, <1>2, <1>3, <1>4, <1>5 DEF TypeOK, ReaderPC
<1>7. QED
  BY <1>3, <1>6 DEF TypeInv, RoomMade, InHand

LEMMA TypeStep == TypeInv /\ [Next]_vars => TypeInv'
<1> SUFFICES ASSUME TypeInv, [Next]_vars PROVE TypeInv'
  OBVIOUS
<1> USE SchedulerAssumption DEF TypeInv, TypeOK, RoomMade, ReaderPC, InHand,
        stats, history, Goto
<1>1. CASE Check
  BY <1>1 DEF Check
<1>2. CASE ReadFrame
  BY <1>2 DEF ReadFrame
<1>3. CASE ReadEnds
  BY <1>3 DEF ReadEnds
<1>4. CASE CountRead
  BY <1>4 DEF CountRead
<1>5. CASE Put
  <2>1. CASE Full
    BY <1>5, <2>1 DEF Put, Full
  <2>2. CASE ~Full
    <3>1. produced \in 1 .. MaxFrames /\ Enqueue
      BY <1>5, <2>2 DEF Put
    <3>2. QED
      BY <1>5, <2>2, <3>1, EnqueueFacts DEF Put, Full
  <2>3. QED
    BY <2>1, <2>2
<1>6. CASE EvictOldest
  BY <1>6, DequeueFacts DEF EvictOldest
<1>7. CASE LoseNewest
  BY <1>7 DEF LoseNewest
<1>8. CASE CountDrop
  BY <1>8 DEF CountDrop
<1>9. CASE Reput
  <2>1. produced \in 1 .. MaxFrames /\ ~Full
    BY <1>9 DEF Reput, Full
  <2>2. QED
    BY <1>9, <2>1, EnqueueFacts DEF Reput, Full
<1>10. CASE Close
  BY <1>10 DEF Close
<1>11. ASSUME NEW c \in Consumers, Get(c) PROVE TypeInv'
  <2>1. /\ queue' \in Seq(1 .. MaxFrames) /\ Len(queue') = Len(queue) - 1
        /\ Head(queue) \in 1 .. MaxFrames
    BY <1>11, DequeueFacts DEF Get
  <2>2. delivered' \in Seq(1 .. MaxFrames)
    BY <1>11, <2>1, AppendFacts DEF Get
  <2>3. QED
    BY <1>11, <2>1, <2>2 DEF Get
<1>12. ASSUME NEW c \in Consumers, CountConsumed(c) PROVE TypeInv'
  BY <1>12 DEF CountConsumed
<1>13. ASSUME NEW c \in Consumers, RecordSize(c) PROVE TypeInv'
  BY <1>13 DEF RecordSize
<1>14. CASE Stop
  BY <1>14 DEF Stop
<1>15. CASE UNCHANGED vars
  BY <1>15 DEF vars
<1>16. QED
  BY <1>1, <1>2, <1>3, <1>4, <1>5, <1>6, <1>7, <1>8, <1>9, <1>10, <1>11, <1>12,
     <1>13, <1>14, <1>15 DEF Next, Reader

(* Every variable keeps its type and the queue never exceeds max_queue.    *)
THEOREM TypeCorrect == Spec => []TypeOK
<1>1. TypeInv => TypeOK
  BY DEF TypeInv
<1>2. QED
  BY TypeInit, TypeStep, <1>1, PTL DEF Spec

------------------------------------------------------------------------------
(* Every step is one of five, seen from the queue: nothing happens to it,  *)
(* the frame in hand enters, the oldest is evicted, the frame in hand is   *)
(* lost to an empty queue, or the oldest is delivered.                     *)

Settled == produced - InHand

Quiet ==
  UNCHANGED <<queue, delivered, evicted, lost>> /\ Settled' = Settled

Queued ==
  /\ Enqueue /\ ~Full /\ produced = Settled + 1 /\ produced \in 1 .. MaxFrames
  /\ Settled' = Settled + 1
  /\ UNCHANGED <<delivered, evicted, lost>>

Evicted ==
  /\ Dequeue
  /\ Settled' = Settled
  /\ evicted' = evicted + 1
  /\ UNCHANGED <<delivered, lost>>

GivenUp ==
  /\ queue = <<>>
  /\ Settled' = Settled + 1
  /\ lost' = lost + 1
  /\ UNCHANGED <<queue, delivered, evicted>>

Taken ==
  /\ Dequeue
  /\ Settled' = Settled
  /\ delivered' = Append(delivered, Head(queue))
  /\ UNCHANGED <<evicted, lost>>

LEMMA StepShapes ==
  ASSUME TypeInv, [Next]_vars
  PROVE  Quiet \/ Queued \/ Evicted \/ GivenUp \/ Taken
<1> USE SchedulerAssumption DEF TypeInv, TypeOK, RoomMade, ReaderPC, InHand,
        stats, history, Goto, Settled
<1>1. CASE Check \/ ReadFrame \/ ReadEnds \/ CountRead \/ CountDrop \/ Close
  BY <1>1 DEF Check, ReadFrame, ReadEnds, CountRead, CountDrop, Close, Quiet
<1>2. CASE Put \/ Reput
  BY <1>2 DEF Put, Reput, Full, Quiet, Queued
<1>3. CASE EvictOldest
  BY <1>3 DEF EvictOldest, Evicted
<1>4. CASE LoseNewest
  BY <1>4 DEF LoseNewest, GivenUp
<1>5. CASE \E c \in Consumers : Get(c)
  BY <1>5 DEF Get, Taken
<1>6. CASE \E c \in Consumers : CountConsumed(c) \/ RecordSize(c)
  BY <1>6 DEF CountConsumed, RecordSize, Quiet
<1>7. CASE Stop \/ UNCHANGED vars
  BY <1>7 DEF Stop, vars, Quiet
<1>8. QED
  BY <1>1, <1>2, <1>3, <1>4, <1>5, <1>6, <1>7 DEF Next, Reader

LEMMA SettledTypes ==
  ASSUME TypeInv, TypeInv'
  PROVE  /\ Settled \in Int /\ Settled' \in Int
         /\ Len(queue) \in Nat /\ Len(queue') \in Nat
         /\ queue \in Seq(1 .. MaxFrames)
         /\ delivered \in Seq(1 .. MaxFrames)
         /\ evicted \in Nat /\ lost \in Nat
  BY DEF InHand, TypeInv, TypeOK, Settled

LEMMA QueueStep ==
  ASSUME TypeInv, TypeInv', QueueIsNewestRun, [Next]_vars
  PROVE  QueueIsNewestRun'
<1>1. /\ Settled \in Int /\ Settled' \in Int
      /\ Len(queue) \in Nat /\ Len(queue') \in Nat
  BY SettledTypes
<1>2. \A i \in 1 .. Len(queue) : queue[i] = Settled - Len(queue) + i
  BY DEF QueueIsNewestRun, Settled
<1>3. SUFFICES \A i \in 1 .. Len(queue') : queue'[i] = Settled' - Len(queue') + i
  BY DEF QueueIsNewestRun, Settled
<1>4. queue \in Seq(1 .. MaxFrames)
  BY SettledTypes
<1>5. CASE Quiet
  BY <1>1, <1>2, <1>5 DEF Quiet
<1>6. CASE GivenUp
  BY <1>1, <1>6 DEF GivenUp
<1>7. CASE Queued
  <2>1. /\ Len(queue') = Len(queue) + 1 /\ queue'[Len(queue) + 1] = produced
        /\ \A i \in 1 .. Len(queue) : queue'[i] = queue[i]
    BY <1>4, <1>7, EnqueueFacts DEF Queued
  <2>2. produced = Settled + 1 /\ Settled' = Settled + 1
    BY <1>7 DEF Queued
  <2>3. QED
    BY <1>1, <1>2, <2>1, <2>2
<1>8. CASE Evicted \/ Taken
  <2>1. /\ Len(queue') = Len(queue) - 1
        /\ \A i \in 1 .. Len(queue') : queue'[i] = queue[i + 1]
    BY <1>4, <1>8, DequeueFacts DEF Evicted, Taken
  <2>2. Settled' = Settled
    BY <1>8 DEF Evicted, Taken
  <2>3. QED
    BY <1>1, <1>2, <2>1, <2>2
<1>9. QED
  BY <1>5, <1>6, <1>7, <1>8, StepShapes

(* Deliveries only rise: what Get takes is the head of the newest run.     *)
LEMMA DeliveredStep ==
  ASSUME TypeInv, TypeInv', QueueIsNewestRun, DeliveredBelow, [Next]_vars
  PROVE  DeliveredBelow'
<1>1. /\ Settled \in Int /\ Settled' \in Int
      /\ Len(queue) \in Nat /\ Len(queue') \in Nat
      /\ queue \in Seq(1 .. MaxFrames) /\ delivered \in Seq(1 .. MaxFrames)
  BY SettledTypes
<1>2. /\ Settled - Len(queue) >= 0
      /\ \A i \in 1 .. Len(delivered) : delivered[i] <= Settled - Len(queue)
      /\ \A i, j \in 1 .. Len(delivered) : i < j => delivered[i] < delivered[j]
  BY DEF DeliveredBelow, Settled
<1>3. SUFFICES /\ Settled' - Len(queue') >= 0
               /\ \A i \in 1 .. Len(delivered') :
                    delivered'[i] <= Settled' - Len(queue')
               /\ \A i, j \in 1 .. Len(delivered') :
                    i < j => delivered'[i] < delivered'[j]
  BY DEF DeliveredBelow, Settled
<1>4. \A i \in 1 .. Len(delivered) : delivered[i] \in Nat
  BY <1>1, SchedulerAssumption
<1>5. CASE Quiet
  BY <1>2, <1>5 DEF Quiet
<1>6. CASE GivenUp
  BY <1>1, <1>2, <1>4, <1>6 DEF GivenUp
<1>7. CASE Queued
  <2>1. /\ Len(queue') = Len(queue) + 1 /\ Settled' = Settled + 1
        /\ delivered' = delivered
    BY <1>1, <1>7, EnqueueFacts DEF Queued
  <2>2. QED
    BY <1>1, <1>2, <2>1
<1>8. CASE Evicted
  <2>1. /\ Len(queue') = Len(queue) - 1 /\ Settled' = Settled
        /\ delivered' = delivered
    BY <1>1, <1>8, DequeueFacts DEF Evicted
  <2>2. QED
    BY <1>1, <1>2, <1>4, <2>1
<1>9. CASE Taken
  <2>1. /\ Len(queue) > 0 /\ Len(queue') = Len(queue) - 1 /\ Settled' = Settled
        /\ Head(queue) = queue[1] /\ Head(queue) \in 1 .. MaxFrames
        /\ delivered' = Append(delivered, Head(queue))
    BY <1>1, <1>9, DequeueFacts DEF Taken
  <2>2. Head(queue) = Settled - Len(queue) + 1
    BY <1>1, <2>1 DEF QueueIsNewestRun, Settled
  <2>3. /\ Len(delivered') = Len(delivered) + 1
        /\ \A i \in 1 .. Len(delivered) : delivered'[i] = delivered[i]
        /\ delivered'[Len(delivered) + 1] = Settled - Len(queue) + 1
    BY <1>1, <2>1, <2>2, AppendFacts
  <2>4. QED
    BY <1>1, <1>2, <1>4, <2>1, <2>3
<1>10. QED
  BY <1>5, <1>6, <1>7, <1>8, <1>9, StepShapes

LEMMA AccountedStep ==
  ASSUME TypeInv, TypeInv', EveryFrameAccounted, [Next]_vars
  PROVE  EveryFrameAccounted'
<1>1. /\ Settled \in Int /\ Settled' \in Int
      /\ Len(queue) \in Nat /\ Len(queue') \in Nat /\ Len(delivered) \in Nat
      /\ queue \in Seq(1 .. MaxFrames) /\ delivered \in Seq(1 .. MaxFrames)
      /\ evicted \in Nat /\ lost \in Nat
      /\ produced \in Int /\ InHand \in Int
      /\ produced' \in Int /\ InHand' \in Int
      /\ evicted' \in Nat /\ lost' \in Nat /\ Len(delivered') \in Nat
  BY SettledTypes DEF TypeInv, TypeOK, InHand
<1>2. Settled = Len(delivered) + evicted + lost + Len(queue)
  BY <1>1 DEF EveryFrameAccounted, Settled
<1>3. SUFFICES Settled' = Len(delivered') + evicted' + lost' + Len(queue')
  BY <1>1 DEF EveryFrameAccounted, Settled
<1>4. CASE Quiet
  BY <1>2, <1>4 DEF Quiet
<1>5. CASE Queued
  <2>1. Len(queue') = Len(queue) + 1
    BY <1>1, <1>5, EnqueueFacts DEF Queued
  <2>2. QED
    BY <1>1, <1>2, <1>5, <2>1 DEF Queued
<1>6. CASE Evicted
  <2>1. Len(queue') = Len(queue) - 1
    BY <1>1, <1>6, DequeueFacts DEF Evicted
  <2>2. QED
    BY <1>1, <1>2, <1>6, <2>1 DEF Evicted
<1>7. CASE GivenUp
  BY <1>1, <1>2, <1>7 DEF GivenUp
<1>8. CASE Taken
  <2>1. Len(queue') = Len(queue) - 1 /\ Len(delivered') = Len(delivered) + 1
    BY <1>1, <1>8, DequeueFacts, AppendFacts DEF Taken
  <2>2. QED
    BY <1>1, <1>2, <1>8, <2>1 DEF Taken
<1>9. QED
  BY <1>4, <1>5, <1>6, <1>7, <1>8, StepShapes

(* Only four actions matter to the loss bound: the put that finds the      *)
(* queue full, the loss itself, the eviction and a delivery in between.    *)
LEMMA LossStep ==
  ASSUME TypeInv, TypeInv', LossPaidFor, [Next]_vars
  PROVE  LossPaidFor'
<1>1. /\ Len(queue) \in Nat /\ Len(queue') \in Nat /\ Len(delivered) \in Nat
      /\ queue \in Seq(1 .. MaxFrames) /\ delivered \in Seq(1 .. MaxFrames)
      /\ lost \in Nat /\ lost' \in Nat /\ MaxQueue \in Nat
      /\ MaxQueue > 0 => Len(queue) <= MaxQueue
  BY SettledTypes, SchedulerAssumption DEF TypeInv, TypeOK
<1>2. MaxQueue * lost \in Nat
  BY <1>1
<1>3. CASE Put
  <2>1. lost' = lost /\ delivered' = delivered /\ (pc' = "evict" => Full /\ queue' = queue)
    BY <1>3 DEF Put, Goto, history
  <2>2. QED
    BY <1>1, <1>2, <2>1 DEF LossPaidFor, Full
<1>4. CASE LoseNewest
  <2>1. /\ pc = "evict" /\ pc' = "check" /\ Len(queue) = 0
        /\ lost' = lost + 1 /\ delivered' = delivered
    BY <1>4 DEF LoseNewest, Goto
  <2>2. MaxQueue * lost' = MaxQueue * lost + MaxQueue
    BY <1>1, <2>1
  <2>3. QED
    BY <1>1, <1>2, <2>1, <2>2 DEF LossPaidFor
<1>5. ASSUME NEW c \in Consumers, Get(c) PROVE LossPaidFor'
  <2>1. /\ pc' = pc /\ lost' = lost /\ Len(queue') = Len(queue) - 1
        /\ Len(delivered') = Len(delivered) + 1
    BY <1>1, <1>5, DequeueFacts, AppendFacts DEF Get
  <2>2. QED
    BY <1>1, <1>2, <2>1 DEF LossPaidFor
<1>6. CASE EvictOldest \/ Check \/ ReadFrame \/ ReadEnds \/ CountRead
           \/ CountDrop \/ Reput \/ Close
  <2>1. lost' = lost /\ delivered' = delivered /\ pc' # "evict"
    BY <1>6 DEF EvictOldest, Check, ReadFrame, ReadEnds, CountRead, CountDrop,
                Reput, Close, Goto, history
  <2>2. QED
    BY <2>1 DEF LossPaidFor
<1>7. CASE \/ \E c \in Consumers : CountConsumed(c) \/ RecordSize(c)
           \/ Stop \/ UNCHANGED vars
  <2>1. UNCHANGED <<pc, lost, delivered, queue>>
    BY <1>7 DEF CountConsumed, RecordSize, Stop, vars, history
  <2>2. QED
    BY <2>1 DEF LossPaidFor
<1>8. QED
  BY <1>3, <1>4, <1>5, <1>6, <1>7 DEF Next, Reader

LEMMA StopStep ==
  ASSUME TypeInv, StopSeen, [Next]_vars
  PROVE  StopSeen'
<1> USE DEF TypeInv, TypeOK, StopSeen, stats, history, Goto
<1>1. CASE Stop
  BY <1>1 DEF Stop
<1>2. CASE Reader
  <2>1. stop' = stop /\ readAtStop' = readAtStop
    BY <1>2 DEF Reader, Check, ReadFrame, ReadEnds, CountRead, Put, EvictOldest,
                LoseNewest, CountDrop, Reput, Close
  <2>2. CASE ReadFrame
    BY <2>1, <2>2 DEF ReadFrame
  <2>3. CASE ~ReadFrame
    <3>1. produced' = produced /\ (stop => pc' # "read")
      BY <1>2, <2>3 DEF Reader, Check, ReadEnds, CountRead, Put, EvictOldest,
                        LoseNewest, CountDrop, Reput, Close
    <3>2. QED
      BY <2>1, <3>1
  <2>4. QED
    BY <2>2, <2>3
<1>3. CASE \E c \in Consumers : Get(c) \/ CountConsumed(c) \/ RecordSize(c)
  BY <1>3 DEF Get, CountConsumed, RecordSize
<1>4. CASE UNCHANGED vars
  BY <1>4 DEF vars
<1>5. QED
  BY <1>1, <1>2, <1>3, <1>4 DEF Next

------------------------------------------------------------------------------
(* The statistics: a consumer between Get and CountConsumed is in the set  *)
(* Counting, which grows and shrinks by one thread at a time.              *)

Counting == {c \in Consumers : cpc[c] = "count"}

LEMMA CountingFinite == IsFiniteSet(Counting) /\ IsFiniteSet(Counting')
<1>1. Counting \subseteq Consumers /\ Counting' \subseteq Consumers
  BY DEF Counting
<1>2. QED
  BY <1>1, FS_Subset, SchedulerAssumption

LEMMA GetCounting ==
  ASSUME TypeInv, NEW c \in Consumers, Get(c)
  PROVE  Cardinality(Counting') = Cardinality(Counting) + 1
<1>1. Counting' = Counting \cup {c} /\ c \notin Counting
  BY DEF Counting, Get, TypeInv, TypeOK
<1>2. QED
  BY <1>1, CountingFinite, FS_AddElement

LEMMA CountCounting ==
  ASSUME TypeInv, NEW c \in Consumers, CountConsumed(c)
  PROVE  Cardinality(Counting') = Cardinality(Counting) - 1
<1>1. Counting' = Counting \ {c} /\ c \in Counting
  BY DEF Counting, CountConsumed, TypeInv, TypeOK
<1>2. QED
  BY <1>1, CountingFinite, FS_RemoveElement

(* StatsAgree in terms of Counting. *)
StatsCounted ==
  /\ framesRead + (IF pc = "count" THEN 1 ELSE 0) = produced
  /\ framesDropped + (IF pc = "countDrop" THEN 1 ELSE 0) = evicted
  /\ framesConsumed + Cardinality(Counting) = Len(delivered)

LEMMA StatsStep ==
  ASSUME TypeInv, TypeInv', StatsCounted, [Next]_vars
  PROVE  StatsCounted'
<1>1. /\ Cardinality(Counting) \in Nat /\ framesConsumed \in Nat
      /\ framesRead \in Nat /\ framesDropped \in Nat
      /\ produced \in Nat /\ evicted \in Nat
      /\ queue \in Seq(1 .. MaxFrames)
      /\ delivered \in Seq(1 .. MaxFrames) /\ Len(delivered) \in Nat
  BY CountingFinite, FS_CardinalityType, SchedulerAssumption DEF TypeInv, TypeOK
<1>2. CASE Reader
  <2>1. UNCHANGED <<framesConsumed, cpc, delivered>>
    BY <1>2 DEF Reader, Check, ReadFrame, ReadEnds, CountRead, Put, EvictOldest,
                LoseNewest, CountDrop, Reput, Close, stats, history
  <2>2. Cardinality(Counting') = Cardinality(Counting)
    BY <2>1 DEF Counting
  <2>3. /\ framesRead' + (IF pc' = "count" THEN 1 ELSE 0) = produced'
        /\ framesDropped' + (IF pc' = "countDrop" THEN 1 ELSE 0) = evicted'
    BY <1>1, <1>2 DEF Reader, Check, ReadFrame, ReadEnds, CountRead, Put,
         EvictOldest, LoseNewest, CountDrop, Reput, Close, stats, history, Goto,
         StatsCounted
  <2>4. QED
    BY <2>1, <2>2, <2>3 DEF StatsCounted
<1>3. ASSUME NEW c \in Consumers, Get(c) PROVE StatsCounted'
  <2>1. Len(delivered') = Len(delivered) + 1
    BY <1>1, <1>3, DequeueFacts, AppendFacts DEF Get
  <2>2. UNCHANGED <<pc, produced, evicted, framesRead, framesDropped, framesConsumed>>
    BY <1>3 DEF Get, stats
  <2>3. QED
    BY <1>1, <1>3, <2>1, <2>2, GetCounting DEF StatsCounted
<1>4. ASSUME NEW c \in Consumers, CountConsumed(c) PROVE StatsCounted'
  <2>1. /\ UNCHANGED <<pc, produced, evicted, framesRead, framesDropped, delivered>>
        /\ framesConsumed' = framesConsumed + 1
    BY <1>4 DEF CountConsumed, history
  <2>2. QED
    BY <1>1, <1>4, <2>1, CountCounting DEF StatsCounted
<1>5. ASSUME NEW c \in Consumers, RecordSize(c) PROVE StatsCounted'
  <2>1. /\ UNCHANGED <<pc, produced, evicted, framesRead, framesDropped, delivered,
                       framesConsumed>>
        /\ Counting' = Counting
    BY <1>5 DEF RecordSize, history, Counting, TypeInv, TypeOK
  <2>2. QED
    BY <2>1 DEF StatsCounted
<1>6. CASE Stop \/ UNCHANGED vars
  <2>1. UNCHANGED <<pc, produced, evicted, framesRead, framesDropped, delivered,
                    framesConsumed, cpc>>
    BY <1>6 DEF Stop, vars, stats, history
  <2>2. QED
    BY <2>1 DEF StatsCounted, Counting
<1>7. QED
  BY <1>2, <1>3, <1>4, <1>5, <1>6 DEF Next

------------------------------------------------------------------------------

(* The inductive invariant. *)
IInv ==
  /\ TypeInv
  /\ QueueIsNewestRun
  /\ DeliveredBelow
  /\ EveryFrameAccounted
  /\ LossPaidFor
  /\ StopSeen
  /\ StatsCounted

LEMMA IInvInit == Init => IInv
<1> SUFFICES ASSUME Init PROVE IInv
  OBVIOUS
<1>1. TypeInv
  BY TypeInit
<1>2. Counting = {}
  BY DEF Counting, Init
<1>3. Cardinality(Counting) = 0
  BY <1>2, FS_EmptySet
<1>4. /\ pc = "check" /\ InHand = 0 /\ produced = 0 /\ evicted = 0 /\ lost = 0
      /\ framesRead = 0 /\ framesDropped = 0 /\ framesConsumed = 0
      /\ Len(queue) = 0 /\ Len(delivered) = 0 /\ readAtStop = 0
  BY DEF Init, InHand
<1>5. StatsCounted
  BY <1>3, <1>4 DEF StatsCounted
<1>6. QueueIsNewestRun /\ DeliveredBelow /\ EveryFrameAccounted /\ StopSeen
  BY <1>4 DEF QueueIsNewestRun, DeliveredBelow, EveryFrameAccounted, StopSeen
<1>7. LossPaidFor
  BY <1>4, SchedulerAssumption DEF LossPaidFor
<1>8. QED
  BY <1>1, <1>5, <1>6, <1>7 DEF IInv

LEMMA IInvStep == IInv /\ [Next]_vars => IInv'
<1> SUFFICES ASSUME IInv, [Next]_vars PROVE IInv'
  OBVIOUS
<1> USE DEF IInv
<1>1. TypeInv'
  BY TypeStep
<1>2. QED
  BY <1>1, QueueStep, DeliveredStep, AccountedStep, LossStep, StopStep, StatsStep

LEMMA Invariance == Spec => []IInv
  BY IInvInit, IInvStep, PTL DEF Spec

(* The queue always holds the newest run of frames, in every interleaving. *)
THEOREM NewestRun == Spec => []QueueIsNewestRun
  BY Invariance, PTL DEF IInv

(* Frames reach the consumers in capture order, none of them twice.        *)
THEOREM InOrder == Spec => []DeliveredInOrder
<1>1. IInv => DeliveredInOrder
  <2> SUFFICES ASSUME IInv PROVE DeliveredInOrder
    OBVIOUS
  <2>1. /\ produced \in Int /\ InHand \in Int /\ Len(queue) \in Nat
        /\ delivered \in Seq(1 .. MaxFrames) /\ MaxFrames \in Nat
    BY SchedulerAssumption DEF IInv, TypeInv, TypeOK, InHand
  <2>2. \A i \in 1 .. Len(delivered) : delivered[i] \in Nat
    BY <2>1
  <2>3. QED
    BY <2>1, <2>2 DEF IInv, DeliveredBelow, QueueIsNewestRun, DeliveredInOrder
<1>2. QED
  BY Invariance, <1>1, PTL

(* Every frame read is accounted for.                                      *)
THEOREM Accounted == Spec => []EveryFrameAccounted
  BY Invariance, PTL DEF IInv

(* The statistics are those of what happened.                              *)
THEOREM StatsTruthful == Spec => []StatsAgree
<1>1. IInv => StatsAgree
  BY DEF IInv, StatsCounted, StatsAgree, Counting
<1>2. QED
  BY Invariance, <1>1, PTL

(* At most one frame is lost for every MaxQueue frames delivered.          *)
THEOREM LossBounded == Spec => []LossBound
<1>1. IInv => LossBound
  BY DEF IInv, LossPaidFor, LossBound
<1>2. QED
  BY Invariance, <1>1, PTL

(* The second put_nowait never raises queue.Full.                          *)
THEOREM ReputSucceeds == Spec => []ReputHasRoom
<1>1. IInv => ReputHasRoom
  BY SchedulerAssumption
     DEF IInv, TypeInv, TypeOK, RoomMade, ReputHasRoom, Full
<1>2. QED
  BY Invariance, <1>1, PTL

(* At most one more frame is read after stop().                            *)
THEOREM StopBounded == Spec => []OneReadAfterStop
<1>1. IInv => OneReadAfterStop
  BY DEF IInv, StopSeen, OneReadAfterStop
<1>2. QED
  BY Invariance, <1>1, PTL

------------------------------------------------------------------------------

(* The scheduler implements the sliding window: each of the five shapes of *)
(* a step is a step of the window or a stutter.                            *)
THEOREM Refinement == Spec => ImplementsWindow
<1>1. Init => Window!WInit
  <2> SUFFICES ASSUME Init PROVE Window!WInit
    OBVIOUS
  <2>1. produced = 0 /\ InHand = 0 /\ Len(queue) = 0 /\ delivered = <<>>
    BY DEF Init, InHand
  <2>2. QED
    BY <2>1 DEF Window!WInit
<1>2. IInv /\ IInv' /\ [Next]_vars => [Window!WNext]_(Window!wvars)
  <2> SUFFICES ASSUME IInv, IInv', [Next]_vars
               PROVE  [Window!WNext]_(Window!wvars)
    OBVIOUS
  <2>1. /\ Settled \in Int /\ Settled' \in Int
        /\ Len(queue) \in Nat /\ Len(queue') \in Nat
        /\ queue \in Seq(1 .. MaxFrames)
        /\ MaxQueue \in Nat
    BY SettledTypes, SchedulerAssumption DEF IInv
  <2>2. CASE Quiet
    BY <2>2 DEF Quiet, Settled, Window!wvars
  <2>3. CASE Queued
    <3>1. Len(queue') = Len(queue) + 1 /\ Settled' = Settled + 1
      BY <2>1, <2>3, EnqueueFacts DEF Queued
    <3>2. Window!Offer
      BY <2>1, <2>3, <3>1
         DEF Window!Offer, Window!HasRoom, Queued, Full, Settled
    <3>3. QED
      BY <3>2 DEF Window!WNext
  <2>4. CASE Evicted
    <3>1. Len(queue') = Len(queue) - 1 /\ Len(queue) > 0 /\ Settled' = Settled
      BY <2>1, <2>4, DequeueFacts DEF Evicted
    <3>2. Window!DropOldest
      BY <2>1, <2>4, <3>1 DEF Window!DropOldest, Evicted, Settled
    <3>3. QED
      BY <3>2 DEF Window!WNext
  <2>5. CASE GivenUp
    <3>1. Window!SkipNewest
      BY <2>1, <2>5 DEF Window!SkipNewest, GivenUp, Settled
    <3>2. QED
      BY <3>1 DEF Window!WNext
  <2>6. CASE Taken
    <3>1. /\ Len(queue') = Len(queue) - 1 /\ Len(queue) > 0 /\ Settled' = Settled
          /\ Head(queue) = queue[1]
      BY <2>1, <2>6, DequeueFacts DEF Taken
    <3>2. queue[1] = Settled - Len(queue) + 1
      BY <2>1, <3>1 DEF IInv, QueueIsNewestRun, Settled
    <3>3. Window!Deliver
      BY <2>1, <2>6, <3>1, <3>2 DEF Window!Deliver, Taken, Settled
    <3>4. QED
      BY <3>3 DEF Window!WNext
  <2>7. QED
    BY <2>2, <2>3, <2>4, <2>5, <2>6, StepShapes DEF IInv
<1>3. QED
  BY <1>1, <1>2, Invariance, PTL DEF Spec, ImplementsWindow, Window!WSpec

------------------------------------------------------------------------------
(*                           The RTSP adapter                              *)

------------------------------------------------------------------------------
(* The delays *)

(* A set with 0 and the successors of its members below n has all up to n: *)
(* otherwise take the smallest it lacks.                                   *)
LEMMA UpTo ==
  ASSUME NEW n \in Nat, NEW S, 0 \in S, \A i \in 1 .. n : i - 1 \in S => i \in S
  PROVE  \A i \in 0 .. n : i \in S
<1> DEFINE R == {ss \in Nat \X Nat : ss[1] < ss[2]}
           D == {i \in 0 .. n : i \notin S}
<1> SUFFICES ASSUME D # {} PROVE FALSE
  OBVIOUS
<1>1. PICK m \in D : \A k \in D : ~ (<<k, m>> \in R)
  <2>1. IsWellFoundedOn(R, Nat)
    BY NatLessThanWellFounded DEF OpToRel
  <2>2. D \in SUBSET Nat
    OBVIOUS
  <2> HIDE DEF R, D
  <2> QED
    BY <2>1, <2>2, WFMin
<1>2. m \in 1 .. n /\ m - 1 \in 0 .. n /\ m - 1 \in Nat /\ m \in Nat /\ m - 1 < m
  BY <1>1
<1> DEFINE k == m - 1
<1>3. <<k, m>> \in R
  BY <1>2
<1>4. k \notin D
  <2> HIDE DEF R, D, k
  <2> QED
    BY <1>1, <1>3
<1>5. k \in S
  BY <1>2, <1>4
<1> QED
  BY <1>1, <1>2, <1>5

(* Raising a delay keeps it within its limits and, unless it is a single   *)
(* tick, makes it longer until the cap is reached.                         *)
LEMMA RaiseFacts ==
  ASSUME NEW b \in BaseBackoff .. MaxBackoff
  PROVE  /\ Raise(b) \in BaseBackoff .. MaxBackoff
         /\ b > 1 => Raise(b) > b \/ Raise(b) = MaxBackoff
         /\ b = 1 => Raise(b) = 1
         /\ b = MaxBackoff => Raise(b) = MaxBackoff
<1> DEFINE r == (b * 3) \div 2
<1>1. /\ BaseBackoff \in Nat /\ MaxBackoff \in Nat /\ b \in Nat
      /\ BaseBackoff >= 1 /\ BaseBackoff <= b /\ b <= MaxBackoff
  BY RtspAssumption DEF RtspAssumption
<1>2. r \in Int /\ 2 * r <= 3 * b /\ 3 * b < 2 * r + 2
  BY <1>1
<1>3. Raise(b) = IF r < MaxBackoff THEN r ELSE MaxBackoff
  BY DEF Raise, AtMostMax
<1> HIDE DEF r
<1> QED
  BY <1>1, <1>2, <1>3

(* The delay after a number of failures, as BackoffMatchesFailures has it. *)
Delay == CHOOSE f : f = [n \in 0 .. MaxBackoff |->
                           IF n = 0 THEN BaseBackoff ELSE Raise(f[n - 1])]

LEMMA DelaySteps ==
  /\ Delay[0] = BaseBackoff
  /\ \A n \in 1 .. MaxBackoff : Delay[n] = Raise(Delay[n - 1])
<1>1. MaxBackoff \in Nat
  BY RtspAssumption DEF RtspAssumption
<1> DEFINE Step(f, n) == IF n = 0 THEN BaseBackoff ELSE Raise(f[n - 1])
           B == {m \in Nat : \E f : f = [i \in 0 .. m |-> Step(f, i)]}
<1>2. 0 \in B
  <2>1. [i \in 0 .. 0 |-> BaseBackoff]
          = [i \in 0 .. 0 |-> Step([j \in 0 .. 0 |-> BaseBackoff], i)]
    OBVIOUS
  <2> QED
    BY <2>1
<1>3. ASSUME NEW m \in 1 .. MaxBackoff, m - 1 \in B PROVE m \in B
  <2>1. PICK f : f = [i \in 0 .. m - 1 |-> Step(f, i)]
    BY <1>3
  <2>2. /\ m \in Nat /\ 0 .. m - 1 \subseteq 0 .. m
        /\ \A i \in 0 .. m : i # 0 => i - 1 \in 0 .. m - 1
    BY <1>1
  <2> DEFINE g == [i \in 0 .. m |-> Step(f, i)]
  <2>3. \A i \in 0 .. m - 1 : g[i] = f[i]
    <3> HIDE DEF Step
    <3>1. \A i \in 0 .. m - 1 : f[i] = Step(f, i)
      BY <2>1
    <3> QED
      BY <2>2, <3>1
  <2>4. \A i \in 0 .. m : Step(g, i) = Step(f, i)
    <3> HIDE DEF g
    <3> QED
      BY <2>2, <2>3
  <2>5. g = [i \in 0 .. m |-> Step(g, i)]
    <3> HIDE DEF Step
    <3> QED
      BY <2>4
  <2> HIDE DEF g, Step
  <2> QED
    BY <2>2, <2>5
<1>4. \E f : f = [i \in 0 .. MaxBackoff |-> Step(f, i)]
  <2> HIDE DEF B
  <2>1. \A m \in 0 .. MaxBackoff : m \in B
    BY <1>1, <1>2, <1>3, UpTo
  <2>2. MaxBackoff \in B
    BY <1>1, <2>1
  <2> QED
    BY <2>2 DEF B
<1>5. Delay = [i \in 0 .. MaxBackoff |-> Step(Delay, i)]
  BY <1>4 DEF Delay
<1> HIDE DEF Step
<1>6. \A i \in 0 .. MaxBackoff : Delay[i] = Step(Delay, i)
  BY <1>5
<1>7. 0 \in 0 .. MaxBackoff /\ \A i \in 1 .. MaxBackoff : i \in 0 .. MaxBackoff /\ i # 0
  BY <1>1
<1> QED
  BY <1>6, <1>7 DEF Step

(* Delays stay within their limits; after MaxBackoff failures no raise is  *)
(* left, so that counting may stop there. (A delay of a single tick is     *)
(* never raised; any other grows by a tick at least until it is capped.)   *)
LEMMA DelayFacts ==
  /\ \A n \in 0 .. MaxBackoff : Delay[n] \in BaseBackoff .. MaxBackoff
  /\ Raise(Delay[MaxBackoff]) = Delay[MaxBackoff]
<1>1. BaseBackoff \in Nat /\ BaseBackoff >= 1 /\ MaxBackoff \in Nat /\ BaseBackoff <= MaxBackoff
  BY RtspAssumption DEF RtspAssumption
<1> DEFINE Long(n) == Delay[n] = MaxBackoff \/ Delay[n] >= BaseBackoff + n
           Fine(n) == /\ Delay[n] \in BaseBackoff .. MaxBackoff
                      /\ IF BaseBackoff = 1 THEN Delay[n] = 1 ELSE Long(n)
           T == {n \in Nat : Fine(n)}
<1>2. 0 \in T
  BY <1>1, DelaySteps
<1>3. ASSUME NEW n \in 1 .. MaxBackoff, n - 1 \in T PROVE n \in T
  <2>1. /\ n \in Nat /\ n - 1 \in Nat /\ Fine(n - 1) /\ Delay[n] = Raise(Delay[n - 1])
    BY <1>1, <1>3, DelaySteps
  <2> DEFINE b == Delay[n - 1]
  <2>2. /\ b \in BaseBackoff .. MaxBackoff
        /\ Raise(b) \in BaseBackoff .. MaxBackoff
        /\ b > 1 => Raise(b) > b \/ Raise(b) = MaxBackoff
        /\ b = 1 => Raise(b) = 1
        /\ b = MaxBackoff => Raise(b) = MaxBackoff
    BY <2>1, RaiseFacts
  <2>3. IF BaseBackoff = 1 THEN b = 1 ELSE b = MaxBackoff \/ b >= BaseBackoff + (n - 1)
    BY <2>1
  <2>4. Delay[n] = Raise(b)
    BY <2>1
  <2> HIDE DEF b
  <2>5. b \in Int /\ Raise(b) \in Int /\ b >= BaseBackoff
    BY <1>1, <2>2
  <2>6. CASE BaseBackoff = 1
    BY <2>1, <2>2, <2>3, <2>4, <2>6
  <2>7. CASE BaseBackoff # 1
    <3>1. b > 1
      BY <1>1, <2>5, <2>7
    <3>2. Raise(b) = MaxBackoff \/ Raise(b) >= BaseBackoff + n
      BY <1>1, <2>1, <2>2, <2>3, <2>5, <2>7, <3>1
    <3> QED
      BY <2>1, <2>2, <2>4, <2>7, <3>2
  <2> QED
    BY <2>6, <2>7
<1>4. \A n \in 0 .. MaxBackoff : n \in T
  <2> HIDE DEF T
  <2> QED
    BY <1>1, <1>2, <1>3, UpTo
<1>5. Fine(MaxBackoff)
  BY <1>1, <1>4
<1>6. Delay[MaxBackoff] = MaxBackoff \/ Delay[MaxBackoff] = 1
  BY <1>1, <1>5
<1> QED
  BY <1>4, <1>5, <1>6, RaiseFacts

LEMMA BackoffIsDelay == BackoffMatchesFailures <=> backoff = Delay[failures]
BY DEF BackoffMatchesFailures, Delay

------------------------------------------------------------------------------
(* The theorems: both properties are inductive. *)

LEMMA RtspInitInv == RtspInit => RtspTypeOK /\ BackoffMatchesFailures
<1> SUFFICES ASSUME RtspInit PROVE RtspTypeOK /\ BackoffMatchesFailures
  OBVIOUS
<1>1. BaseBackoff \in Nat /\ BaseBackoff >= 1 /\ MaxBackoff \in Nat /\ BaseBackoff <= MaxBackoff
      /\ MaxAttempt \in Nat
  BY RtspAssumption DEF RtspAssumption
<1>2. Raise(BaseBackoff) \in BaseBackoff .. MaxBackoff
  BY <1>1, RaiseFacts
<1>3. \A d \in 0 .. MaxAttempt : AtMostMax(d) \in 0 .. MaxBackoff
  BY <1>1 DEF AtMostMax
<1>4. RtspTypeOK
  BY <1>1, <1>2, <1>3 DEF RtspInit, RtspTypeOK
<1>5. Delay[1] = Raise(BaseBackoff)
  BY <1>1, DelaySteps
<1>6. backoff = Delay[failures]
  BY <1>5, DelaySteps DEF RtspInit
<1> QED
  BY <1>4, <1>6, BackoffIsDelay

LEMMA RtspStepInv ==
  ASSUME RtspTypeOK, BackoffMatchesFailures, [RtspNext]_rtspVars
  PROVE  RtspTypeOK' /\ BackoffMatchesFailures'
<1>1. BaseBackoff \in Nat /\ BaseBackoff >= 1 /\ MaxBackoff \in Nat /\ BaseBackoff <= MaxBackoff
      /\ MaxAttempt \in Nat
  BY RtspAssumption DEF RtspAssumption
<1>2. backoff = Delay[failures]
  BY BackoffIsDelay
<1>3. SUFFICES RtspTypeOK' /\ backoff' = Delay[failures']
  BY DEF BackoffMatchesFailures, Delay
<1>4. CASE AttemptFails /\ Returns("none") /\ UNCHANGED camera
  <2>1. Raise(backoff) \in BaseBackoff .. MaxBackoff
    BY RaiseFacts DEF RtspTypeOK
  <2>2. \A d \in 0 .. MaxAttempt : AtMostMax(d) \in 0 .. MaxBackoff
    BY <1>1 DEF AtMostMax
  <2>3. failures' \in 0 .. MaxBackoff
    BY <1>1, <1>4 DEF AttemptFails, RtspTypeOK, AtMostMax
  <2>4. RtspTypeOK'
    BY <1>4, <2>1, <2>2, <2>3 DEF AttemptFails, Returns, RtspTypeOK
  <2>5. CASE failures = MaxBackoff
    <3>1. failures' = MaxBackoff
      BY <1>1, <1>4, <2>5 DEF AttemptFails, AtMostMax
    <3> QED
      BY <1>2, <1>4, <2>4, <2>5, <3>1, DelayFacts DEF AttemptFails
  <2>6. CASE failures # MaxBackoff
    <3>1. failures + 1 \in 1 .. MaxBackoff /\ failures' = failures + 1 /\ (failures + 1) - 1 = failures
      BY <1>1, <1>4, <2>6 DEF AttemptFails, AtMostMax, RtspTypeOK
    <3>2. Delay[failures + 1] = Raise(Delay[failures])
      BY <3>1, DelaySteps
    <3> QED
      BY <1>2, <1>4, <2>4, <3>1, <3>2 DEF AttemptFails
  <2> QED
    BY <2>5, <2>6
<1>5. CASE Reconnects /\ Returns("frame") /\ UNCHANGED camera
  BY <1>1, <1>5, DelaySteps DEF Reconnects, Returns, RtspTypeOK
<1>6. CASE \/ Waits /\ Returns("none") /\ UNCHANGED camera
           \/ /\ cap = "open" /\ Returns("frame")
              /\ UNCHANGED <<cap, backoff, sinceFail, failures>> /\ UNCHANGED camera
           \/ cap = "dead" /\ Drops /\ Returns("none") /\ UNCHANGED camera
  BY <1>2, <1>6 DEF Waits, Drops, Returns, RtspTypeOK
<1>7. CASE Tick
  BY <1>1, <1>2, <1>7 DEF Tick, RtspTypeOK
<1>8. CASE CameraChanges
  BY <1>2, <1>8 DEF CameraChanges, RtspTypeOK
<1>9. CASE UNCHANGED rtspVars
  BY <1>2, <1>9 DEF rtspVars, RtspTypeOK
<1> QED
  BY <1>4, <1>5, <1>6, <1>7, <1>8, <1>9 DEF RtspNext, Read

LEMMA RtspInvariant == RtspSpec => [](RtspTypeOK /\ BackoffMatchesFailures)
<1>1. RtspTypeOK /\ BackoffMatchesFailures /\ [RtspNext]_rtspVars
        => RtspTypeOK' /\ BackoffMatchesFailures'
  BY RtspStepInv
<1> QED
  BY RtspInitInv, <1>1, PTL DEF RtspSpec

(* Every variable of the adapter has its type: the delay keeps to its two  *)
(* limits, and a capture that counts as open has a camera behind it.       *)
THEOREM RtspTypeCorrect == RtspSpec => []RtspTypeOK
BY RtspInvariant, PTL

(* The delay is a function of the failures since the last success alone,   *)
(* for any limits: an outage never inherits the delay of an earlier one.   *)
THEOREM BackoffFollowsFailures == RtspSpec => []BackoffMatchesFailures
BY RtspInvariant, PTL

==============================================================================
