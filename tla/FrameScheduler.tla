---------------------------- MODULE FrameScheduler ----------------------------
(***************************************************************************)
(* anpr_core/pipeline/scheduler.py: a daemon thread reads frames from a    *)
(* source into a bounded queue, consumer threads take them out with        *)
(* get(timeout), and an owner may call stop() at any time.                 *)
(*                                                                         *)
(* Frames are numbered 1, 2, ... in the order source.read() returns them.  *)
(* A step is one operation on state another thread can see: an access to   *)
(* the queue (each holds the queue's own mutex), to _stop or to a counter. *)
(*                                                                         *)
(* get() that times out returns None and changes nothing; so does the      *)
(* second half of stop(), join(timeout=1.0), which may return while the    *)
(* reader is still inside source.read(). Both are stuttering steps.        *)
(***************************************************************************)
EXTENDS Integers, Sequences, FiniteSets

CONSTANTS
  MaxQueue,         (* maxsize of the queue.Queue; 0 means no limit        *)
  MaxFrames,        (* bound: how many frames the source can deliver       *)
  Consumers         (* the threads that call get()                         *)

ASSUME SchedulerAssumption ==
  /\ MaxQueue \in Nat
  /\ MaxFrames \in Nat
  /\ IsFiniteSet(Consumers)

VARIABLES
  pc,               (* where the reader thread is in _reader_loop          *)
  produced,         (* frames source.read() has returned so far            *)
  queue,            (* the queue.Queue                                     *)
  stop,             (* _stop                                               *)
  cpc,              (* where each consumer is in get()                     *)
  framesRead, framesDropped, framesConsumed, queueSize, (* SchedulerStats  *)
  (* history *)
  delivered,        (* frames taken by consumers, in the order taken       *)
  evicted,          (* how many frames the reader took out to make room    *)
  lost,             (* how many frames were read and never queued          *)
  readAtStop        (* produced when stop() was called                     *)

stats == <<framesRead, framesDropped, framesConsumed, queueSize>>
history == <<delivered, evicted, lost, readAtStop>>
vars == <<pc, produced, queue, stop, cpc, stats, history>>

ReaderPC ==
  {"check", "read", "count", "put", "evict", "countDrop", "reput", "close",
   "done"}

(* The reader holds a frame it has read and not yet disposed of. *)
InHand ==
  IF pc \in {"count", "put", "evict", "countDrop", "reput"} THEN 1 ELSE 0

(* put_nowait raises queue.Full *)
Full == MaxQueue > 0 /\ Len(queue) >= MaxQueue

(* The queue's two operations, on its state only. *)
Enqueue == queue' = Append(queue, produced)
Dequeue == queue # <<>> /\ queue' = Tail(queue)

Goto(from, to) == pc = from /\ pc' = to

Init ==
  /\ pc = "check"
  /\ produced = 0
  /\ queue = <<>>
  /\ stop = FALSE
  /\ cpc = [c \in Consumers |-> "idle"]
  /\ framesRead = 0 /\ framesDropped = 0 /\ framesConsumed = 0 /\ queueSize = 0
  /\ delivered = <<>> /\ evicted = 0 /\ lost = 0 /\ readAtStop = 0

------------------------------------------------------------------------------
(* Mutated forms of the actions below: each is a plausible slip, and there *)
(* only to show that a property notices it.                                *)

(* a blocking put instead of put_nowait *)
PutBlocks ==
  /\ Goto("put", "check") /\ ~Full /\ Enqueue
  /\ UNCHANGED <<produced, stop, cpc, stats, history>>

(* a queue created without its maxsize *)
PutUnbounded ==
  /\ Goto("put", "check") /\ Enqueue
  /\ UNCHANGED <<produced, stop, cpc, stats, history>>

(* queue.Full swallowed: the new frame silently dropped *)
PutDropsNew ==
  /\ Goto("put", "check") /\ (IF Full THEN UNCHANGED queue ELSE Enqueue)
  /\ UNCHANGED <<produced, stop, cpc, stats, history>>

(* the new frame given up although old ones still wait *)
LoseAlways ==
  /\ Goto("evict", "check")
  /\ lost' = lost + 1
  /\ UNCHANGED <<produced, queue, stop, cpc, stats, delivered, evicted, readAtStop>>

(* a frame handed out and left in the queue *)
GetPeeks(c) ==
  /\ cpc[c] = "idle" /\ cpc' = [cpc EXCEPT ![c] = "count"]
  /\ queue # <<>> /\ delivered' = Append(delivered, Head(queue))
  /\ UNCHANGED <<pc, produced, queue, stop, stats, evicted, lost, readAtStop>>

------------------------------------------------------------------------------
(* The reader thread *)

(* while not self._stop *)
Check ==
  /\ Goto("check", IF stop THEN "close" ELSE "read")
  /\ UNCHANGED <<produced, queue, stop, cpc, stats, history>>

(* source.read() returns a frame. *)
ReadFrame ==
  /\ Goto("read", "count")
  /\ produced < MaxFrames
  /\ produced' = produced + 1
  /\ UNCHANGED <<queue, stop, cpc, stats, history>>

(* source.read() returns None, or raises: either way the loop is over. *)
ReadEnds ==
  /\ Goto("read", "close")
  /\ UNCHANGED <<produced, queue, stop, cpc, stats, history>>

CountRead ==
  /\ Goto("count", "put")
  /\ framesRead' = framesRead + 1
  /\ UNCHANGED <<produced, queue, stop, cpc, framesDropped, framesConsumed,
                 queueSize, history>>

(* queue.put_nowait(frame), which raises queue.Full when there is no room. *)
Put ==
  /\ Goto("put", IF Full THEN "evict" ELSE "check")
  /\ IF Full THEN UNCHANGED queue ELSE Enqueue
  /\ UNCHANGED <<produced, stop, cpc, stats, history>>

(* queue.get_nowait() in the handler of queue.Full takes the oldest frame. *)
EvictOldest ==
  /\ Goto("evict", "countDrop") /\ Dequeue
  /\ evicted' = evicted + 1
  /\ UNCHANGED <<produced, stop, cpc, stats, delivered, lost, readAtStop>>

(* The consumers emptied the queue in the meantime: get_nowait() raises    *)
(* queue.Empty, the handler passes, and the frame in hand is gone.         *)
LoseNewest ==
  /\ Goto("evict", "check") /\ queue = <<>>
  /\ lost' = lost + 1
  /\ UNCHANGED <<produced, queue, stop, cpc, stats, delivered, evicted, readAtStop>>

CountDrop ==
  /\ Goto("countDrop", "reput")
  /\ framesDropped' = framesDropped + 1
  /\ UNCHANGED <<produced, queue, stop, cpc, framesRead, framesConsumed, queueSize,
                 history>>

(* The second put_nowait(frame). A queue.Full here would reach the outer   *)
(* except, which ends the loop.                                            *)
Reput ==
  /\ Goto("reput", IF Full THEN "close" ELSE "check")
  /\ IF Full THEN UNCHANGED queue ELSE Enqueue
  /\ UNCHANGED <<produced, stop, cpc, stats, history>>

(* finally: source.close(), and the thread ends. *)
Close ==
  /\ Goto("close", "done")
  /\ UNCHANGED <<produced, queue, stop, cpc, stats, history>>

Reader ==
  \/ Check \/ ReadFrame \/ ReadEnds \/ CountRead \/ Put
  \/ EvictOldest \/ LoseNewest \/ CountDrop \/ Reput \/ Close

------------------------------------------------------------------------------
(* Consumers and owner *)

(* queue.get(timeout) returns a frame. *)
Get(c) ==
  /\ cpc[c] = "idle" /\ cpc' = [cpc EXCEPT ![c] = "count"]
  /\ Dequeue
  /\ delivered' = Append(delivered, Head(queue))
  /\ UNCHANGED <<pc, produced, stop, stats, evicted, lost, readAtStop>>

CountConsumed(c) ==
  /\ cpc[c] = "count" /\ cpc' = [cpc EXCEPT ![c] = "size"]
  /\ framesConsumed' = framesConsumed + 1
  /\ UNCHANGED <<pc, produced, queue, stop, framesRead, framesDropped, queueSize,
                 history>>

RecordSize(c) ==
  /\ cpc[c] = "size" /\ cpc' = [cpc EXCEPT ![c] = "idle"]
  /\ queueSize' = Len(queue)
  /\ UNCHANGED <<pc, produced, queue, stop, framesRead, framesDropped,
                 framesConsumed, history>>

(* stop() sets the flag; see the header for its join. *)
Stop ==
  /\ ~stop
  /\ stop' = TRUE
  /\ readAtStop' = produced
  /\ UNCHANGED <<pc, produced, queue, cpc, stats, delivered, evicted, lost>>

Next ==
  \/ Reader
  \/ \E c \in Consumers : Get(c) \/ CountConsumed(c) \/ RecordSize(c)
  \/ Stop

(* The reader thread is scheduled, and the source's read() returns: cv2    *)
(* gives up on a silent camera after its own timeout. Nothing makes a      *)
(* consumer call get().                                                    *)
Spec == Init /\ [][Next]_vars /\ WF_vars(Reader)

------------------------------------------------------------------------------
(* Properties *)

(* Every variable has its type, and the queue respects max_queue. *)
TypeOK ==
  /\ pc \in ReaderPC
  /\ produced \in 0 .. MaxFrames
  /\ queue \in Seq(1 .. MaxFrames)
  /\ MaxQueue > 0 => Len(queue) <= MaxQueue
  /\ stop \in BOOLEAN
  /\ cpc \in [Consumers -> {"idle", "count", "size"}]
  /\ framesRead \in Nat /\ framesDropped \in Nat
  /\ framesConsumed \in Nat /\ queueSize \in Nat
  /\ delivered \in Seq(1 .. MaxFrames)
  /\ evicted \in Nat /\ lost \in Nat /\ readAtStop \in Nat

(* What waits in the queue is exactly the newest run of frames the reader  *)
(* has finished with: no gap inside it, nothing newer missing behind it.   *)
(* It bounds how stale a delivered frame can be: at most MaxQueue frames,  *)
(* whatever the interleaving of put, eviction and get.                     *)
QueueIsNewestRun ==
  \A i \in 1 .. Len(queue) : queue[i] = produced - InHand - Len(queue) + i

(* Consumers together see every frame at most once and in capture order,   *)
(* and nothing already taken is still waiting.                             *)
DeliveredInOrder ==
  /\ \A i, j \in 1 .. Len(delivered) : i < j => delivered[i] < delivered[j]
  /\ \A i \in 1 .. Len(delivered), j \in 1 .. Len(queue) :
       delivered[i] < queue[j]

(* No frame disappears without a trace: each one read was delivered,       *)
(* evicted, lost to the race of put and get, is queued or is in hand.      *)
EveryFrameAccounted ==
  produced = Len(delivered) + evicted + lost + Len(queue) + InHand

(* The published statistics agree with what happened, up to the statement  *)
(* each thread is about to execute.                                        *)
StatsAgree ==
  /\ framesRead + (IF pc = "count" THEN 1 ELSE 0) = produced
  /\ framesDropped + (IF pc = "countDrop" THEN 1 ELSE 0) = evicted
  /\ framesConsumed + Cardinality({c \in Consumers : cpc[c] = "count"})
       = Len(delivered)

(* The handler of queue.Full loses a frame only after the consumers took a *)
(* whole queue of frames since put_nowait failed: at most one frame is     *)
(* lost for every MaxQueue delivered. (docs/M1_INGEST_ADAPTERS.md has the  *)
(* new frame always queued, that is, lost = 0.)                            *)
LossBound == MaxQueue * lost <= Len(delivered)

(* The second put_nowait of the handler never finds the queue full: an     *)
(* exception there would silently end the reader thread.                   *)
ReputHasRoom == pc = "reput" => ~Full

(* stop() may find the reader inside source.read(): at most one more frame *)
(* is read after it.                                                       *)
OneReadAfterStop == stop => produced <= readAtStop + 1

(* After stop() the reader thread leaves its loop and releases the source, *)
(* even when no consumer ever calls get() again.                           *)
StopReleasesSource == stop ~> pc = "done"

(* The scheduler implements the sliding window of FrameWindow: the frames  *)
(* below the queue have left it, the newest is the last one disposed of.   *)
Window ==
  INSTANCE FrameWindow WITH
    Cap <- MaxQueue,
    hi <- produced - InHand,
    lo <- produced - InHand - Len(queue),
    out <- delivered

ImplementsWindow == Window!WSpec
==============================================================================
