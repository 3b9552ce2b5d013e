------------------------------ MODULE LogQueue ------------------------------
(***************************************************************************)
(* The log path of the audio offload example (host_interface.c): the audio *)
(* thread calls enqueue_log, the log thread runs log_writer, and a third   *)
(* thread accepts the host's connection on the log port.  The first two    *)
(* share a ring of LOG_QUEUE_SIZE slots under log_mutex and log_cond; all  *)
(* three share client_log_fd with no lock at all.                          *)
(*                                                                         *)
(* A message is abstracted to its number in the order of enqueueing.       *)
(* accepted, taken, laps and printed are history: no guard reads them,     *)
(* except that MaxLogs bounds accepted.  Definitions marked "Wrong:" are    *)
(* never used by Next; each is a variant of the definition after it with a *)
(* bug one could make in the C code, and some property refutes it.         *)
(***************************************************************************)
EXTENDS Integers, Sequences

CONSTANTS
  LOG_QUEUE_SIZE,  \* slots in the ring (16384 in host_interface.h)
  EthIface,        \* app_config.is_host_eth_iface
  MaxLogs          \* bound: how many messages are enqueued

ASSUME SizeAssumption  == LOG_QUEUE_SIZE \in Nat \ {0}
ASSUME IfaceAssumption == EthIface \in BOOLEAN
ASSUME BoundAssumption == MaxLogs \in Nat

VARIABLES
  log_queue, log_head, log_tail,
  log_mutex,      \* who holds it
  client_log_fd,  \* the C global: "fd0" until accept() returns
  audio,          \* where the audio thread is in enqueue_log
  writer,         \* where the log thread is in log_writer
  msg,            \* log_writer's local copy of the slot it read
  accepted,       \* history: messages enqueued so far
  taken,          \* history: messages taken so far
  laps,           \* history: times log_tail caught up with log_head
  printed         \* history: what dprintf was given, and for which descriptor

ring  == <<log_queue, log_head, log_tail, accepted, laps>>
vars  == <<ring, log_mutex, client_log_fd, audio, writer, msg, taken, printed>>

Slots == 0 .. LOG_QUEUE_SIZE - 1

(* The global client_log_fd is zero-initialised, so it names descriptor 0, *)
(* which passes every ">= 0" test, before there is any client.             *)
ClientFds == {"fd0", "peer", "invalid"}
ValidFd(fd) == fd # "invalid"

(* Wrong: the arms of the "if" in log_writer swapped. *)
SinkSwapped == IF EthIface THEN "uart" ELSE client_log_fd

(* Where dprintf writes: the client's descriptor, or the UART. *)
Sink == IF EthIface THEN client_log_fd ELSE "uart"

(* Wrong: without the modulus. *)
NextSlotNoWrap(i) == i + 1

NextSlot(i) == (i + 1) % LOG_QUEUE_SIZE

(* How many slots lie from log_head up to log_tail, as log_writer sees it. *)
Backlog ==
  IF log_tail >= log_head
    THEN log_tail - log_head
    ELSE log_tail - log_head + LOG_QUEUE_SIZE

(* The slot k places after log_head. *)
SlotAt(k) ==
  IF log_head + k < LOG_QUEUE_SIZE
    THEN log_head + k
    ELSE log_head + k - LOG_QUEUE_SIZE

Init ==
  /\ log_queue = [i \in Slots |-> 0]
  /\ log_head = 0
  /\ log_tail = 0
  /\ log_mutex = "free"
  /\ client_log_fd = "fd0"
  /\ audio = "idle"
  /\ writer = "start"
  /\ msg = 0
  /\ accepted = 0
  /\ taken = 0
  /\ laps = 0
  /\ printed = << >>

-----------------------------------------------------------------------------
(* The thread that waits for the log client. *)

(* accept() returns a descriptor or -1, and the result is stored unchecked. *)
AcceptLogClient ==
  /\ EthIface
  /\ client_log_fd = "fd0"
  /\ client_log_fd' \in {"peer", "invalid"}
  /\ UNCHANGED <<ring, log_mutex, audio, writer, msg, taken, printed>>

-----------------------------------------------------------------------------
(* The audio thread in enqueue_log. *)

(* The unlocked test of client_log_fd; without a descriptor the call does  *)
(* nothing.                                                                *)
EnqueueTest ==
  /\ audio = "idle"
  /\ accepted < MaxLogs
  /\ ValidFd(client_log_fd)
  /\ audio' = "lock"
  /\ UNCHANGED <<ring, log_mutex, client_log_fd, writer, msg, taken, printed>>

EnqueueLock ==
  /\ audio = "lock"
  /\ log_mutex = "free"
  /\ log_mutex' = "audio"
  /\ audio' = "store"
  /\ UNCHANGED <<ring, client_log_fd, writer, msg, taken, printed>>

EnqueueStore ==
  /\ audio = "store"
  /\ log_queue' = [log_queue EXCEPT ![log_tail] = accepted + 1]
  /\ audio' = "publish"
  /\ UNCHANGED <<log_head, log_tail, accepted, laps, log_mutex, client_log_fd,
                 writer, msg, taken, printed>>

(* log_tail moves whether or not the slot it reaches is still unread.      *)
Publish(signal) ==
  /\ audio = "publish"
  /\ log_tail' = NextSlot(log_tail)
  /\ laps' = IF log_tail' = log_head THEN laps + 1 ELSE laps
  /\ accepted' = accepted + 1
  /\ writer' = IF signal /\ writer = "wait" THEN "lock" ELSE writer
  /\ log_mutex' = "free"
  /\ audio' = "idle"
  /\ UNCHANGED <<log_queue, log_head, client_log_fd, msg, taken, printed>>

(* Wrong: without pthread_cond_signal. *)
EnqueuePublishNoSignal == Publish(FALSE)

(* Wrong: a full ring drops the new message and keeps the pending ones. *)
EnqueuePublishIfRoom ==
  \/ NextSlot(log_tail) # log_head /\ Publish(TRUE)
  \/ /\ audio = "publish"
     /\ NextSlot(log_tail) = log_head
     /\ accepted' = accepted + 1
     /\ log_mutex' = "free"
     /\ audio' = "idle"
     /\ UNCHANGED <<log_queue, log_head, log_tail, laps, client_log_fd, writer,
                    msg, taken, printed>>

EnqueuePublish == Publish(TRUE)

-----------------------------------------------------------------------------
(* The log thread in log_writer. *)

(* One look at client_log_fd decides whether the thread stays. *)
WriterStart ==
  /\ writer = "start"
  /\ writer' = IF ValidFd(client_log_fd) THEN "lock" ELSE "gone"
  /\ UNCHANGED <<ring, log_mutex, client_log_fd, audio, msg, taken, printed>>

(* Wrong: without pthread_mutex_lock. *)
WriterLockUnowned ==
  /\ writer = "lock"
  /\ log_mutex' = "writer"
  /\ writer' = "test"
  /\ UNCHANGED <<ring, client_log_fd, audio, msg, taken, printed>>

WriterLock == log_mutex = "free" /\ WriterLockUnowned

(* The loop test: pthread_cond_wait releases the mutex as it falls asleep. *)
WriterTest ==
  /\ writer = "test"
  /\ IF log_head = log_tail
       THEN writer' = "wait" /\ log_mutex' = "free"
       ELSE writer' = "take" /\ UNCHANGED log_mutex
  /\ UNCHANGED <<ring, client_log_fd, audio, msg, taken, printed>>

(* Wrong: "if" for "while", so a wake-up goes on without a second test. *)
WriterTakeOnWake ==
  /\ writer = "wait"
  /\ log_mutex = "free"
  /\ log_mutex' = "writer"
  /\ writer' = "take"
  /\ UNCHANGED <<ring, client_log_fd, audio, msg, taken, printed>>

(* pthread_cond_wait may return unsignalled; it then takes the mutex again *)
(* and the loop tests once more.                                           *)
WriterSpuriousWake ==
  /\ writer = "wait"
  /\ writer' = "lock"
  /\ UNCHANGED <<ring, log_mutex, client_log_fd, audio, msg, taken, printed>>

TakeFrom(slot) ==
  /\ writer = "take"
  /\ msg' = log_queue[slot]
  /\ log_head' = NextSlot(log_head)
  /\ taken' = taken + 1
  /\ log_mutex' = "free"
  /\ writer' = "check"
  /\ UNCHANGED <<log_queue, log_tail, accepted, laps, client_log_fd, audio,
                 printed>>

(* Wrong: log_head advanced before the copy. *)
WriterTakeAfterAdvance == TakeFrom(NextSlot(log_head))

WriterTake == TakeFrom(log_head)

(* The descriptor is tested and, one step later, read again to be written. *)
WriterCheck ==
  /\ writer = "check"
  /\ writer' = IF ValidFd(client_log_fd) THEN "print" ELSE "lock"
  /\ UNCHANGED <<ring, log_mutex, client_log_fd, audio, msg, taken, printed>>

WriterPrint ==
  /\ writer = "print"
  /\ printed' = Append(printed, [to |-> Sink, msg |-> msg])
  /\ writer' = "lock"
  /\ UNCHANGED <<ring, log_mutex, client_log_fd, audio, msg, taken>>

-----------------------------------------------------------------------------
AudioStep == EnqueueLock \/ EnqueueStore \/ EnqueuePublish

WriterStep ==
  \/ WriterStart \/ WriterLock \/ WriterTest
  \/ WriterTake \/ WriterCheck \/ WriterPrint

Next ==
  \/ AcceptLogClient
  \/ EnqueueTest
  \/ AudioStep
  \/ WriterStep
  \/ WriterSpuriousWake

Spec == Init /\ [][Next]_vars

(* A runnable thread runs.  Nothing obliges the audio thread to log, the   *)
(* host to connect, or a condition variable to wake without a signal.      *)
Fairness == WF_vars(AudioStep) /\ WF_vars(WriterStep)

FairSpec == Spec /\ Fairness

-----------------------------------------------------------------------------
TypeOK ==
  /\ log_queue \in [Slots -> Nat]
  /\ log_head \in Slots
  /\ log_tail \in Slots
  /\ log_mutex \in {"free", "audio", "writer"}
  /\ client_log_fd \in ClientFds
  /\ audio \in {"idle", "lock", "store", "publish"}
  /\ writer \in {"start", "lock", "test", "wait", "take", "check", "print", "gone"}
  /\ msg \in Nat
  /\ accepted \in Nat
  /\ taken \in Nat
  /\ laps \in Nat
  /\ printed \in Seq([to : ClientFds \cup {"uart"}, msg : Nat])

(* Lines leave in the order they were enqueued and none leaves twice, even *)
(* when log_tail laps log_head and slots are overwritten unread.           *)
PrintedInOrder ==
  \A i, j \in 1 .. Len(printed) : i < j => printed[i].msg < printed[j].msg

(* enqueue_log never tests for a full ring, yet what is lost is lost only  *)
(* in whole laps: every message enqueued was taken, is pending, or went    *)
(* with one of the laps, LOG_QUEUE_SIZE at a time.                         *)
LossInWholeLaps ==
  accepted = taken + Backlog + LOG_QUEUE_SIZE * laps

(* As long as log_tail has never caught up with log_head, the n-th message *)
(* the writer takes is the n-th that was enqueued.                         *)
NoGapWithoutLap == laps = 0 => msg = taken

(* The parts an inductive argument needs beside the properties above. *)

MutexHeld ==
  /\ log_mutex = "audio"  <=> audio \in {"store", "publish"}
  /\ log_mutex = "writer" <=> writer \in {"test", "take"}

(* The pending slots hold the last Backlog numbers, oldest at log_head. *)
SlotsHoldBacklog ==
  /\ \A k \in 0 .. Backlog - 1 :
       log_queue[SlotAt(k)] = accepted - Backlog + 1 + k
  /\ audio = "publish" => log_queue[log_tail] = accepted + 1

TakenBeforePending ==
  /\ writer = "take" => log_head # log_tail
  /\ msg <= accepted - Backlog

PrintedUpToMsg ==
  \A i \in 1 .. Len(printed) :
    /\ printed[i].msg <= msg
    /\ writer \in {"check", "print"} => printed[i].msg < msg

IndInv ==
  /\ TypeOK
  /\ MutexHeld
  /\ SlotsHoldBacklog
  /\ TakenBeforePending
  /\ PrintedUpToMsg
  /\ PrintedInOrder
  /\ LossInWholeLaps
  /\ NoGapWithoutLap

(* The ring under its mutex is the bounded, lap-losing log of LossyLog. *)
Pending == [k \in 1 .. Backlog |-> log_queue[SlotAt(k - 1)]]

Log == INSTANCE LossyLog
         WITH Capacity <- LOG_QUEUE_SIZE - 1, pending <- Pending, current <- msg

ImplementsLossyLog == Log!Spec

(* The log thread never sleeps through a message: a ring with something in *)
(* it is emptied again, unless the thread left at its first test.          *)
BacklogIsDrained ==
  (log_head # log_tail) ~> (log_head = log_tail \/ writer = "gone")

(* Once the host is connected, what is logged reaches it, unless a lap of  *)
(* the ring swallows it.                                                   *)
ConnectedHostGetsLog ==
  \A n \in 1 .. MaxLogs :
    (EthIface /\ client_log_fd = "peer" /\ audio = "publish" /\ accepted + 1 = n)
      ~> (laps > 0 \/ \E i \in 1 .. Len(printed) :
                        printed[i] = [to |-> "peer", msg |-> n])
=============================================================================
