---------------------------- MODULE MemoryQueue ----------------------------
(***************************************************************************)
(* MemoryQueueProducer and MemoryQueueConsumer (services/queue/            *)
(* memory_queue.py) over one asyncio.Queue, made in run_bot.py with        *)
(* maxsize=512 and peeked at by the router for back-pressure.  A message   *)
(* is the id of a job.                                                     *)
(***************************************************************************)
EXTENDS Naturals, Sequences

CONSTANTS
  Capacity,   \* maxsize of the asyncio.Queue
  HighWater   \* HIGH_WATER_QUEUE_DEPTH

ASSUME QueueAssumption ==
  /\ Capacity \in Nat \ {0}
  /\ HighWater \in Nat

VARIABLES
  queue,          \* the messages, oldest first
  producerClosed  \* _closed of the producer

queueVars == <<queue, producerClosed>>

QueueInit == queue = <<>> /\ producerClosed = FALSE

(* pending_qsize() >= HIGH_WATER_QUEUE_DEPTH: the router turns users away. *)
Busy == Len(queue) >= HighWater

\* Faulty: the last place is never used.
QueueFullEarly == Len(queue) + 1 >= Capacity

QueueFull == Len(queue) >= Capacity

(* The moment at which put() finds room: a put that found the queue full    *)
(* waits, and _closed, tested before it, is not looked at again.            *)
\* Faulty: the message is put in twice.
PutTwice(m) ==
  /\ ~QueueFull
  /\ queue' = Append(Append(queue, m), m)
  /\ UNCHANGED producerClosed

Put(m) ==
  /\ ~QueueFull
  /\ queue' = Append(queue, m)
  /\ UNCHANGED producerClosed

(* get() returns the oldest message.                                        *)
Take(m) ==
  /\ queue # <<>>
  /\ m = Head(queue)
  /\ queue' = Tail(queue)
  /\ UNCHANGED producerClosed

CloseProducer == producerClosed' = TRUE /\ UNCHANGED queue

QueueTypeOK(Messages) ==
  /\ queue \in Seq(Messages)
  /\ producerClosed \in BOOLEAN
=============================================================================
