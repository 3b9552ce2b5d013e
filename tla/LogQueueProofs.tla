--------------------------- MODULE LogQueueProofs ---------------------------
(***************************************************************************)
(* Proofs about LogQueue for every ring size and every number of messages. *)
(* The invariant that carries them is IndInv: beside the properties it     *)
(* says which slots hold which messages (SlotsHoldBacklog), that nothing   *)
(* taken is newer than what is pending (TakenBeforePending), and that the  *)
(* mutex is held exactly in the critical sections (MutexHeld), which is    *)
(* what stops either thread from moving the other's index under its feet.  *)
(***************************************************************************)
EXTENDS LogQueue, SequenceTheorems, TLAPS

USE SizeAssumption

-----------------------------------------------------------------------------
(* The arithmetic of the ring. *)

(* The modulus in the C code only ever wraps the last slot to slot 0. *)
LEMMA NextSlotWraps ==
  \A i \in Slots : NextSlot(i) = IF i + 1 = LOG_QUEUE_SIZE THEN 0 ELSE i + 1
BY SMT DEF Slots, NextSlot

(* One more lap is LOG_QUEUE_SIZE more messages. *)
LEMMA OneLapMore ==
  ASSUME NEW q \in Nat, NEW l \in Nat
  PROVE  q * (l + 1) = q * l + q /\ q * l \in Nat
BY SMT

(* The ring holds fewer messages than it has slots, and log_tail is the    *)
(* first slot beyond them.                                                 *)
LEMMA BacklogFacts ==
  ASSUME log_head \in Slots, log_tail \in Slots
  PROVE  /\ Backlog \in 0 .. LOG_QUEUE_SIZE - 1
         /\ Backlog = 0 <=> log_head = log_tail
         /\ \A k \in 0 .. LOG_QUEUE_SIZE - 1 : SlotAt(k) \in Slots
         /\ SlotAt(Backlog) = log_tail
         /\ \A k \in 0 .. Backlog - 1 : SlotAt(k) # log_tail
         /\ SlotAt(0) = log_head
BY SMT DEF Slots, Backlog, SlotAt

(* enqueue_log's increment adds one message, or empties the ring. *)
LEMMA BacklogAfterPut ==
  ASSUME log_head \in Slots, log_tail \in Slots,
         log_head' = log_head, log_tail' = NextSlot(log_tail)
  PROVE  /\ log_tail' \in Slots
         /\ Backlog' \in 0 .. LOG_QUEUE_SIZE - 1
         /\ log_tail' # log_head => Backlog' = Backlog + 1
         /\ log_tail' = log_head => Backlog' = 0 /\ Backlog = LOG_QUEUE_SIZE - 1
         /\ \A k \in 0 .. LOG_QUEUE_SIZE - 1 : SlotAt(k)' = SlotAt(k)
<1>1. log_tail' = IF log_tail + 1 = LOG_QUEUE_SIZE THEN 0 ELSE log_tail + 1
  BY NextSlotWraps
<1> QED
  BY <1>1, SMT DEF Slots, Backlog, SlotAt

(* log_writer's increment removes one message and shifts the others. *)
LEMMA BacklogAfterTake ==
  ASSUME log_head \in Slots, log_tail \in Slots, log_head # log_tail,
         log_tail' = log_tail, log_head' = NextSlot(log_head)
  PROVE  /\ log_head' \in Slots
         /\ Backlog' = Backlog - 1
         /\ \A k \in 0 .. LOG_QUEUE_SIZE - 2 : SlotAt(k)' = SlotAt(k + 1)
<1>1. log_head' = IF log_head + 1 = LOG_QUEUE_SIZE THEN 0 ELSE log_head + 1
  BY NextSlotWraps
<1> QED
  BY <1>1, SMT DEF Slots, Backlog, SlotAt

(* What was printed has numbers, so comparing them means something. *)
LEMMA PrintedNumbers ==
  ASSUME TypeOK
  PROVE  \A i \in 1 .. Len(printed) : printed[i].msg \in Nat
<1> DEFINE Lines == [to : ClientFds \cup {"uart"}, msg : Nat]
<1>1. \A i \in 1 .. Len(printed) : printed[i] \in Lines
  <2>1. printed \in Seq(Lines)
    BY DEF TypeOK
  <2> HIDE DEF Lines
  <2> QED
    BY <2>1
<1> QED
  BY <1>1

-----------------------------------------------------------------------------
(* The invariant. *)

LEMMA InitIndInv == Init => IndInv
BY SMT DEF Init, IndInv, TypeOK, MutexHeld, SlotsHoldBacklog, TakenBeforePending,
           PrintedUpToMsg, PrintedInOrder, LossInWholeLaps, NoGapWithoutLap,
           Slots, ClientFds, Backlog, SlotAt

(* A step that leaves the ring, msg and printed alone keeps every conjunct *)
(* about them.                                                             *)
LEMMA QuietStep ==
  ASSUME IndInv, UNCHANGED <<ring, msg, taken, printed>>,
         TypeOK', MutexHeld',
         audio' = "publish" => audio = "publish",
         writer' = "take" => writer = "take" \/ log_head # log_tail,
         writer' \in {"check", "print"} => writer \in {"check", "print"}
  PROVE  IndInv'
BY DEF IndInv, ring, SlotsHoldBacklog, TakenBeforePending, PrintedUpToMsg,
       PrintedInOrder, LossInWholeLaps, NoGapWithoutLap, Backlog, SlotAt

(* The steps outside the two critical sections, and the locking ones. *)
LEMMA QuietStepsKeepIndInv ==
  ASSUME IndInv,
         \/ AcceptLogClient \/ EnqueueTest \/ EnqueueLock
         \/ WriterStart \/ WriterLock \/ WriterTest \/ WriterSpuriousWake
         \/ WriterCheck
  PROVE  IndInv'
<1>1. UNCHANGED <<ring, msg, taken, printed>>
  BY DEF ring, AcceptLogClient, EnqueueTest, EnqueueLock, WriterStart, WriterLock,
         WriterLockUnowned, WriterTest, WriterSpuriousWake, WriterCheck
<1>2. TypeOK' /\ MutexHeld'
  <2>1. CASE AcceptLogClient \/ EnqueueTest
    BY <2>1 DEF IndInv, TypeOK, MutexHeld, ring, ClientFds, AcceptLogClient, EnqueueTest, Slots
  <2>4. CASE EnqueueLock
    BY <2>4 DEF IndInv, TypeOK, MutexHeld, ring, ClientFds, EnqueueLock, Slots
  <2>2. CASE WriterStart \/ WriterLock
    BY <2>2 DEF IndInv, TypeOK, MutexHeld, ring, ClientFds, WriterStart, WriterLock,
       WriterLockUnowned, Slots
  <2>3. CASE WriterTest \/ WriterSpuriousWake \/ WriterCheck
    BY <2>3 DEF IndInv, TypeOK, MutexHeld, ring, ClientFds, WriterTest, WriterSpuriousWake,
       WriterCheck, Slots
  <2> QED
    BY <2>1, <2>2, <2>3, <2>4
<1>3. /\ audio' = "publish" => audio = "publish"
      /\ writer' = "take" => writer = "take" \/ log_head # log_tail
      /\ writer' \in {"check", "print"} => writer \in {"check", "print"}
  BY DEF AcceptLogClient, EnqueueTest, EnqueueLock, WriterStart, WriterLock,
         WriterLockUnowned, WriterTest, WriterSpuriousWake, WriterCheck
<1> QED
  BY <1>1, <1>2, <1>3, QuietStep

(* Storing a message writes log_tail's slot only, which is not pending. *)
LEMMA StoreKeepsIndInv ==
  ASSUME IndInv, EnqueueStore
  PROVE  IndInv'
<1> USE DEF IndInv, EnqueueStore
<1>1. TypeOK' /\ MutexHeld'
  BY DEF TypeOK, MutexHeld
<1>2. /\ Backlog' = Backlog
      /\ \A k \in 0 .. LOG_QUEUE_SIZE - 1 : SlotAt(k)' = SlotAt(k)
  BY DEF Backlog, SlotAt
<1>3. SlotsHoldBacklog'
  <2>1. \A k \in 0 .. Backlog - 1 : log_queue'[SlotAt(k)] = log_queue[SlotAt(k)]
    BY BacklogFacts DEF TypeOK
  <2>2. log_queue'[log_tail'] = accepted' + 1
    BY DEF TypeOK
  <2>3. \A k \in 0 .. Backlog - 1 : k \in 0 .. LOG_QUEUE_SIZE - 1
    BY BacklogFacts DEF TypeOK
  <2> QED
    BY <1>2, <2>1, <2>2, <2>3 DEF SlotsHoldBacklog
<1>4. TakenBeforePending' /\ LossInWholeLaps'
  BY <1>2 DEF TakenBeforePending, LossInWholeLaps
<1>5. PrintedUpToMsg' /\ PrintedInOrder' /\ NoGapWithoutLap'
  BY DEF PrintedUpToMsg, PrintedInOrder, NoGapWithoutLap
<1> QED
  BY <1>1, <1>3, <1>4, <1>5

(* Publishing makes the stored message the last of the backlog, or empties *)
(* the ring and counts a lap.                                              *)
LEMMA PublishKeepsIndInv ==
  ASSUME IndInv, EnqueuePublish
  PROVE  IndInv'
<1> USE DEF IndInv, EnqueuePublish, Publish
<1>0. /\ log_tail' \in Slots
      /\ Backlog' \in 0 .. LOG_QUEUE_SIZE - 1
      /\ log_tail' # log_head => Backlog' = Backlog + 1
      /\ log_tail' = log_head => Backlog' = 0 /\ Backlog = LOG_QUEUE_SIZE - 1
      /\ \A k \in 0 .. LOG_QUEUE_SIZE - 1 : SlotAt(k)' = SlotAt(k)
  BY BacklogAfterPut DEF TypeOK
<1>1. TypeOK' /\ MutexHeld'
  BY <1>0 DEF TypeOK, MutexHeld
<1>2. Backlog \in 0 .. LOG_QUEUE_SIZE - 1 /\ SlotAt(Backlog) = log_tail
  BY BacklogFacts DEF TypeOK
<1>3. SlotsHoldBacklog'
  <2>1. ASSUME log_tail' # log_head, NEW k \in 0 .. Backlog
        PROVE  log_queue[SlotAt(k)] = accepted - Backlog + 1 + k
    <3>1. CASE k = Backlog
      BY <3>1, <1>2 DEF SlotsHoldBacklog, TypeOK
    <3>2. CASE k # Backlog
      BY <3>2, <1>2 DEF SlotsHoldBacklog
    <3> QED
      BY <3>1, <3>2
  <2>2. CASE log_tail' = log_head
    BY <2>2, <1>0 DEF SlotsHoldBacklog
  <2>3. CASE log_tail' # log_head
    <3>2. ASSUME NEW k \in 0 .. Backlog' - 1
          PROVE  log_queue'[SlotAt(k)'] = accepted' - Backlog' + 1 + k
      <4>1. k \in 0 .. Backlog /\ k \in 0 .. LOG_QUEUE_SIZE - 1
        BY <1>0, <1>2, <2>3
      <4>2. SlotAt(k)' = SlotAt(k)
        BY <1>0, <4>1
      <4> QED
        BY <1>0, <1>2, <2>1, <2>3, <4>1, <4>2 DEF TypeOK
    <3> QED
      BY <3>2 DEF SlotsHoldBacklog
  <2> QED
    BY <2>2, <2>3
<1>4. TakenBeforePending'
  <2>1. writer' # "take"
    BY DEF MutexHeld
  <2>2. accepted \in Nat /\ msg \in Nat /\ accepted' = accepted + 1 /\ msg' = msg
    BY DEF TypeOK
  <2>3. msg' <= accepted' - Backlog'
    <3>1. msg <= accepted - Backlog
      BY DEF TakenBeforePending
    <3>2. CASE log_tail' = log_head
      BY <3>1, <3>2, <2>2, <1>0, <1>2
    <3>3. CASE log_tail' # log_head
      BY <3>1, <3>3, <2>2, <1>0, <1>2
    <3> QED
      BY <3>2, <3>3
  <2> QED
    BY <2>1, <2>3 DEF TakenBeforePending
<1>5. LossInWholeLaps'
  <2>1. CASE log_tail' # log_head
    BY <2>1, <1>0, <1>2, OneLapMore DEF LossInWholeLaps, TypeOK
  <2>2. CASE log_tail' = log_head
    <3>1. /\ LOG_QUEUE_SIZE * (laps + 1) = LOG_QUEUE_SIZE * laps + LOG_QUEUE_SIZE
          /\ LOG_QUEUE_SIZE * laps \in Nat
      BY OneLapMore DEF TypeOK
    <3>2. laps' = laps + 1 /\ accepted' = accepted + 1 /\ taken' = taken
      BY <2>2
    <3> QED
      BY <2>2, <3>1, <3>2, <1>0 DEF LossInWholeLaps, TypeOK
  <2> QED
    BY <2>1, <2>2
<1>6. NoGapWithoutLap'
  BY DEF NoGapWithoutLap, TypeOK
<1>7. PrintedUpToMsg' /\ PrintedInOrder'
  BY DEF PrintedUpToMsg, PrintedInOrder
<1> QED
  BY <1>1, <1>3, <1>4, <1>5, <1>6, <1>7

(* Taking hands over the oldest pending message, newer than all before. *)
LEMMA TakeKeepsIndInv ==
  ASSUME IndInv, WriterTake
  PROVE  IndInv'
<1> USE DEF IndInv, WriterTake, TakeFrom
<1>0. /\ log_head' \in Slots
      /\ Backlog' = Backlog - 1
      /\ \A k \in 0 .. LOG_QUEUE_SIZE - 2 : SlotAt(k)' = SlotAt(k + 1)
  BY BacklogAfterTake DEF TypeOK, TakenBeforePending
<1>1. Backlog \in 1 .. LOG_QUEUE_SIZE - 1 /\ SlotAt(0) = log_head
  BY BacklogFacts DEF TypeOK, TakenBeforePending
<1>2. msg' = accepted - Backlog + 1
  BY <1>1 DEF SlotsHoldBacklog, TypeOK
<1>3. TypeOK' /\ MutexHeld'
  BY <1>0 DEF TypeOK, MutexHeld
<1>4. SlotsHoldBacklog'
  <2>1. ASSUME NEW k \in 0 .. Backlog' - 1
        PROVE  log_queue'[SlotAt(k)'] = accepted' - Backlog' + 1 + k
    <3>1. k + 1 \in 0 .. Backlog - 1 /\ k \in 0 .. LOG_QUEUE_SIZE - 2
      BY <1>0, <1>1
    <3>2. log_queue[SlotAt(k + 1)] = accepted - Backlog + 1 + (k + 1)
      BY <3>1 DEF SlotsHoldBacklog
    <3> QED
      BY <1>0, <1>1, <3>1, <3>2 DEF TypeOK
  <2>2. audio' # "publish"
    BY DEF MutexHeld
  <2> QED
    BY <2>1, <2>2 DEF SlotsHoldBacklog
<1>5. TakenBeforePending'
  BY <1>0, <1>1, <1>2 DEF TakenBeforePending, TypeOK
<1>6. LossInWholeLaps'
  BY <1>0, <1>1, OneLapMore DEF LossInWholeLaps, TypeOK
<1>7. NoGapWithoutLap'
  <2>1. ASSUME laps' = 0 PROVE msg' = taken'
    <3>1. LOG_QUEUE_SIZE * laps = 0
      BY <2>1
    <3> QED
      BY <2>1, <3>1, <1>1, <1>2 DEF LossInWholeLaps, TypeOK
  <2> QED
    BY <2>1 DEF NoGapWithoutLap
<1>8. PrintedUpToMsg' /\ PrintedInOrder'
  <2>1. msg < msg'
    BY <1>1, <1>2 DEF TakenBeforePending, TypeOK
  <2>2. \A i \in 1 .. Len(printed) : printed[i].msg \in Nat
    BY PrintedNumbers
  <2>3. msg \in Nat /\ msg' \in Nat
    BY <1>3 DEF TypeOK
  <2>4. \A i \in 1 .. Len(printed) : printed[i].msg < msg'
    BY <2>1, <2>2, <2>3 DEF PrintedUpToMsg
  <2>5. PrintedUpToMsg'
    BY <2>2, <2>3, <2>4 DEF PrintedUpToMsg
  <2> QED
    BY <2>5 DEF PrintedInOrder
<1> QED
  BY <1>3, <1>4, <1>5, <1>6, <1>7, <1>8

(* Printing appends msg, which is newer than everything printed so far. *)
LEMMA PrintKeepsIndInv ==
  ASSUME IndInv, WriterPrint
  PROVE  IndInv'
<1> USE DEF IndInv, WriterPrint
<1> DEFINE line == [to |-> Sink, msg |-> msg]
<1>1. line \in [to : ClientFds \cup {"uart"}, msg : Nat]
  BY DEF TypeOK, Sink
<1>2. /\ printed' \in Seq([to : ClientFds \cup {"uart"}, msg : Nat])
      /\ Len(printed') = Len(printed) + 1
      /\ \A i \in 1 .. Len(printed) : printed'[i] = printed[i]
      /\ printed'[Len(printed) + 1] = line
  BY <1>1 DEF TypeOK
<1>3. TypeOK' /\ MutexHeld'
  BY <1>2 DEF TypeOK, MutexHeld, ring
<1>4. SlotsHoldBacklog' /\ TakenBeforePending' /\ LossInWholeLaps' /\ NoGapWithoutLap'
  BY DEF ring, SlotsHoldBacklog, TakenBeforePending, LossInWholeLaps,
         NoGapWithoutLap, Backlog, SlotAt
<1>5. \A i \in 1 .. Len(printed) : printed[i].msg < msg
  BY DEF PrintedUpToMsg
<1>6. \A i \in 1 .. Len(printed') :
        i \in 1 .. Len(printed) \/ i = Len(printed) + 1
  BY <1>2 DEF TypeOK
<1>7. ASSUME NEW i \in 1 .. Len(printed')
      PROVE  printed'[i].msg <= msg
  <2>1. msg \in Nat /\ \A n \in 1 .. Len(printed) : printed[n].msg \in Nat
    BY PrintedNumbers DEF TypeOK
  <2>2. CASE i \in 1 .. Len(printed)
    BY <1>2, <1>5, <2>1, <2>2
  <2>3. CASE i = Len(printed) + 1
    BY <1>2, <2>1, <2>3
  <2> QED
    BY <1>6, <2>2, <2>3
<1>8. PrintedUpToMsg'
  BY <1>7 DEF PrintedUpToMsg
<1>9. PrintedInOrder'
  <2>1. ASSUME NEW i \in 1 .. Len(printed'), NEW j \in 1 .. Len(printed'), i < j
        PROVE  printed'[i].msg < printed'[j].msg
    <3>1. i \in 1 .. Len(printed)
      BY <1>2, <2>1 DEF TypeOK
    <3>2. CASE j \in 1 .. Len(printed)
      BY <1>2, <2>1, <3>1, <3>2 DEF PrintedInOrder
    <3>3. CASE j = Len(printed) + 1
      BY <1>2, <1>5, <3>1, <3>3
    <3> QED
      BY <1>6, <3>2, <3>3
  <2> QED
    BY <2>1 DEF PrintedInOrder
<1> QED
  BY <1>3, <1>4, <1>8, <1>9

(* Every step of the three threads keeps the invariant. *)
LEMMA NextKeepsIndInv == IndInv /\ [Next]_vars => IndInv'
<1> SUFFICES ASSUME IndInv, [Next]_vars PROVE IndInv'
  OBVIOUS
<1>1. CASE EnqueueStore
  BY <1>1, StoreKeepsIndInv
<1>2. CASE EnqueuePublish
  BY <1>2, PublishKeepsIndInv
<1>3. CASE WriterTake
  BY <1>3, TakeKeepsIndInv
<1>4. CASE WriterPrint
  BY <1>4, PrintKeepsIndInv
<1>5. CASE \/ AcceptLogClient \/ EnqueueTest \/ EnqueueLock
           \/ WriterStart \/ WriterLock \/ WriterTest \/ WriterSpuriousWake
           \/ WriterCheck
  BY <1>5, QuietStepsKeepIndInv
<1>6. CASE UNCHANGED vars
  BY <1>6 DEF vars, ring, IndInv, TypeOK, MutexHeld, SlotsHoldBacklog,
              TakenBeforePending, PrintedUpToMsg, PrintedInOrder, LossInWholeLaps,
              NoGapWithoutLap, Backlog, SlotAt
<1> QED
  BY <1>1, <1>2, <1>3, <1>4, <1>5, <1>6 DEF Next, AudioStep, WriterStep

LEMMA IndInvHolds == Spec => []IndInv
BY InitIndInv, NextKeepsIndInv, PTL DEF Spec

-----------------------------------------------------------------------------
(* The properties of the log path. *)

(* The indices stay in the ring and the threads' program counters in the   *)
(* functions they model: enqueue_log and log_writer never index log_queue  *)
(* outside its LOG_QUEUE_SIZE slots.                                       *)
THEOREM LogQueueTypeCorrect == Spec => []TypeOK
BY IndInvHolds, PTL DEF IndInv

(* Whatever the two threads' speeds, log_writer prints lines in the order  *)
(* in which enqueue_log took them, and none of them twice.                 *)
THEOREM LinesLeaveInOrder == Spec => []PrintedInOrder
BY IndInvHolds, PTL DEF IndInv

(* enqueue_log loses messages exactly when log_tail reaches log_head, and  *)
(* then LOG_QUEUE_SIZE of them.                                            *)
THEOREM WholeLapsAreLost == Spec => []LossInWholeLaps
BY IndInvHolds, PTL DEF IndInv

(* A ring never lapped delivers every message to log_writer, in turn. *)
THEOREM NothingSkippedWithoutLap == Spec => []NoGapWithoutLap
BY IndInvHolds, PTL DEF IndInv

-----------------------------------------------------------------------------
(* The ring under its mutex implements LossyLog. *)

(* What is pending is the run of the last Backlog numbers. *)
PendingRun ==
  /\ Backlog \in 0 .. LOG_QUEUE_SIZE - 1
  /\ accepted \in Nat
  /\ Pending = [k \in 1 .. Backlog |-> accepted - Backlog + k]

LEMMA PendingIsRun == IndInv => PendingRun
<1> SUFFICES ASSUME IndInv PROVE PendingRun
  OBVIOUS
<1>1. Backlog \in 0 .. LOG_QUEUE_SIZE - 1 /\ accepted \in Nat
  BY BacklogFacts DEF IndInv, TypeOK
<1>2. ASSUME NEW k \in 1 .. Backlog
      PROVE  log_queue[SlotAt(k - 1)] = accepted - Backlog + k
  <2>1. k - 1 \in 0 .. Backlog - 1
    BY <1>1
  <2>2. log_queue[SlotAt(k - 1)] = accepted - Backlog + 1 + (k - 1)
    BY <2>1 DEF IndInv, SlotsHoldBacklog
  <2> QED
    BY <2>2, <1>1
<1> QED
  BY <1>1, <1>2 DEF PendingRun, Pending

(* The same, after a step. *)
LEMMA PendingIsRunNext == IndInv' => PendingRun'
BY PendingIsRun, PTL

LEMMA PublishIsPut ==
  ASSUME IndInv, IndInv', EnqueuePublish
  PROVE  Log!Put
<1>1. PendingRun /\ PendingRun'
  BY PendingIsRun, PendingIsRunNext
<1>2. /\ log_tail' # log_head => Backlog' = Backlog + 1
      /\ log_tail' = log_head => Backlog' = 0 /\ Backlog = LOG_QUEUE_SIZE - 1
  BY BacklogAfterPut DEF IndInv, TypeOK, EnqueuePublish, Publish
<1>3. accepted' = accepted + 1 /\ msg' = msg
  BY DEF EnqueuePublish, Publish
<1>4. Len(Pending) = Backlog
  BY <1>1 DEF PendingRun
<1>5. CASE log_tail' = log_head
  <2>1. Pending' = << >>
    BY <1>1, <1>2, <1>5 DEF PendingRun
  <2> QED
    BY <2>1, <1>2, <1>3, <1>4, <1>5 DEF Log!Put
<1>6. CASE log_tail' # log_head
  <2>1. Len(Pending) # LOG_QUEUE_SIZE - 1
    BY <1>1, <1>2, <1>4, <1>6 DEF PendingRun
  <2>2. Pending' = [k \in 1 .. Backlog + 1 |-> accepted - Backlog + k]
    BY <1>1, <1>2, <1>3, <1>6 DEF PendingRun
  <2>3. Append(Pending, accepted + 1)
          = [k \in 1 .. Backlog + 1 |-> accepted - Backlog + k]
    BY <1>1 DEF PendingRun
  <2> QED
    BY <2>1, <2>2, <2>3, <1>3 DEF Log!Put
<1> QED
  BY <1>5, <1>6

LEMMA WriterTakeIsTake ==
  ASSUME IndInv, IndInv', WriterTake
  PROVE  Log!Take
<1>1. PendingRun /\ PendingRun'
  BY PendingIsRun, PendingIsRunNext
<1>2. /\ Backlog' = Backlog - 1
      /\ Backlog \in 1 .. LOG_QUEUE_SIZE - 1
      /\ SlotAt(0) = log_head
  BY BacklogAfterTake, BacklogFacts
     DEF IndInv, TypeOK, TakenBeforePending, WriterTake, TakeFrom
<1>3. msg' = accepted - Backlog + 1 /\ accepted' = accepted
  BY <1>1, <1>2 DEF IndInv, SlotsHoldBacklog, WriterTake, TakeFrom, PendingRun
<1>4. Pending # << >> /\ Head(Pending) = accepted - Backlog + 1
  BY <1>1, <1>2 DEF PendingRun
<1>5. Tail(Pending) = [k \in 1 .. Backlog - 1 |-> accepted - Backlog + 1 + k]
  <2>1. Len(Pending) = Backlog /\ Pending \in Seq(Int)
    BY <1>1, <1>2 DEF PendingRun
  <2>2. /\ Tail(Pending) \in Seq(Int)
        /\ Len(Tail(Pending)) = Backlog - 1
        /\ \A k \in 1 .. Backlog - 1 : Tail(Pending)[k] = Pending[k + 1]
    BY <2>1, <1>4, HeadTailProperties
  <2>3. ASSUME NEW k \in 1 .. Backlog - 1
        PROVE  Pending[k + 1] = accepted - Backlog + 1 + k
    BY <1>1, <1>2 DEF PendingRun
  <2> DEFINE rest == [k \in 1 .. Backlog - 1 |-> accepted - Backlog + 1 + k]
  <2>4. rest \in Seq(Int) /\ Len(rest) = Backlog - 1
    BY <1>1, <1>2 DEF PendingRun
  <2>5. \A k \in 1 .. Backlog - 1 : Tail(Pending)[k] = rest[k]
    BY <2>2, <2>3
  <2> HIDE DEF rest
  <2>6. Tail(Pending) = rest
    BY <2>2, <2>4, <2>5, SeqEqual
  <2> QED
    BY <2>6 DEF rest
<1>6. Pending' = [k \in 1 .. Backlog - 1 |-> accepted - Backlog + 1 + k]
  BY <1>1, <1>2, <1>3 DEF PendingRun
<1> QED
  BY <1>3, <1>4, <1>5, <1>6 DEF Log!Take

(* Every other step leaves the log as the host sees it alone. *)
LEMMA OtherStepsStutter ==
  ASSUME IndInv, IndInv', [Next]_vars, ~EnqueuePublish, ~WriterTake
  PROVE  UNCHANGED Log!vars
<1>1. UNCHANGED <<log_head, log_tail, accepted, msg>>
  BY DEF Next, AudioStep, WriterStep, vars, ring, AcceptLogClient, EnqueueTest,
         EnqueueLock, EnqueueStore, WriterStart, WriterLock, WriterLockUnowned,
         WriterTest, WriterSpuriousWake, WriterCheck, WriterPrint
<1>2. PendingRun /\ PendingRun'
  BY PendingIsRun, PendingIsRunNext
<1>3. Backlog' = Backlog
  BY <1>1 DEF Backlog
<1>4. Pending' = Pending
  BY <1>1, <1>2, <1>3 DEF PendingRun
<1> QED
  BY <1>1, <1>4 DEF Log!vars

(* The ring, its indices, the mutex and the condition variable together    *)
(* are a bounded log that loses its whole backlog when a message finds it  *)
(* full, and otherwise hands messages over oldest first: enqueue_log's     *)
(* increment is the Put, log_writer's copy is the Take.                    *)
THEOREM LogQueueImplementsLossyLog == Spec => ImplementsLossyLog
<1>1. Init => Log!Init
  BY DEF Init, Log!Init, Pending, Backlog
<1>2. IndInv /\ IndInv' /\ [Next]_vars => [Log!Next]_(Log!vars)
  BY PublishIsPut, WriterTakeIsTake, OtherStepsStutter DEF Log!Next
<1> QED
  BY <1>1, <1>2, IndInvHolds, PTL DEF Spec, ImplementsLossyLog, Log!Spec
=============================================================================
