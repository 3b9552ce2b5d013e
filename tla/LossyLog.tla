------------------------------ MODULE LossyLog ------------------------------
(***************************************************************************)
(* What the log path promises to the host that reads it, with no mutex, no *)
(* condition variable, no slots and no indices: messages numbered in the   *)
(* order they are accepted, a bounded backlog, and a taker that receives   *)
(* the oldest one.  The bound is the interesting part.  A put that finds   *)
(* the backlog full neither waits nor drops one message: it empties the    *)
(* backlog, the new message included.  LogQueue.tla implements this.       *)
(***************************************************************************)
EXTENDS Naturals, Sequences

CONSTANT Capacity   \* how many messages can be pending at once

VARIABLES
  accepted,  \* how many messages were put; the n-th one is the number n
  pending,   \* the numbers of the messages waiting to be taken, oldest first
  current    \* the number of the message taken last, 0 before the first

vars == <<accepted, pending, current>>

Init ==
  /\ accepted = 0
  /\ pending = << >>
  /\ current = 0

(* A message arrives; on a full backlog it takes the whole backlog with it. *)
Put ==
  /\ accepted' = accepted + 1
  /\ pending' = IF Len(pending) = Capacity
                  THEN << >>
                  ELSE Append(pending, accepted + 1)
  /\ UNCHANGED current

(* The oldest pending message is handed over. *)
Take ==
  /\ pending # << >>
  /\ current' = Head(pending)
  /\ pending' = Tail(pending)
  /\ UNCHANGED accepted

Next == Put \/ Take

Spec == Init /\ [][Next]_vars
=============================================================================
