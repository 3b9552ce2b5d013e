------------------------------ MODULE DmaHeap ------------------------------
(***************************************************************************)
(* dmabuf_heap_init and dmabuf_heap_destroy (library/src/dmabuf.c) on the  *)
(* process's table of descriptors, which other threads use as well.  Each  *)
(* system call is a step and may fail; a new descriptor is the lowest free *)
(* one, so that a number closed here is soon another thread's.             *)
(* Definitions marked "Wrong:" are never used by Next; each is a variant   *)
(* of the definition after it with a bug one could make in the C code.     *)
(***************************************************************************)
EXTENDS Integers, FiniteSets

CONSTANTS
  Buffers,        \* the dma_buf_params the program has
  MaxFds,         \* descriptors a process can have
  MaxInits,       \* bound: calls of dmabuf_heap_init
  MaxSockets      \* bound: descriptors that other threads open

ASSUME TableAssumption  == {MaxFds - 1, MaxInits, MaxSockets} \subseteq Nat
ASSUME BufferAssumption == "others" \notin Buffers

VARIABLES
  table,   \* for each descriptor its kind and whose it is; "free" is nobody's
  params,  \* the three descriptors of each dma_buf_params
  at,      \* for each buffer, the next step of its dmabuf_heap_init, or its state
  inits,   \* history: calls of dmabuf_heap_init
  opened,  \* history: heaps opened
  sockets, \* history: descriptors that other threads opened
  strayed, \* history: a close hit a descriptor that was not the buffer's
  careless \* history: a buffer was destroyed whose last init had failed

vars == <<table, params, at, inits, opened, sockets, strayed, careless>>

Fds  == 0 .. MaxFds - 1
Free == [kind |-> "free", of |-> "others"]
Other == [kind |-> "other", of |-> "others"]
Owners == [kind : {"free", "other", "heap", "buf", "rproc"}, of : Buffers \cup {"others"}]

Unused == {fd \in Fds : table[fd] = Free}
Lowest == CHOOSE fd \in Unused : \A other \in Unused : fd <= other

Steps == {"open_heap", "alloc", "open_rproc", "attach", "map"}

(* Globals are zero-initialised: descriptor 0 is the standard input. *)
Init ==
  /\ table = [fd \in Fds |-> IF fd = 0 THEN Other ELSE Free]
  /\ params = [b \in Buffers |-> [dma_heap_fd |-> 0, dma_buf_fd |-> 0, rproc_fd |-> 0]]
  /\ at = [b \in Buffers |-> "unused"]
  /\ inits = 0
  /\ opened = 0
  /\ sockets = 0
  /\ strayed = FALSE
  /\ careless = FALSE

Goto(b, where) == at' = [at EXCEPT ![b] = where]

(* A call that makes a descriptor, and the field of params that receives   *)
(* it, or -1.                                                              *)
Opens(b, kind, field) ==
  /\ Unused # {}
  /\ table' = [table EXCEPT ![Lowest] = [kind |-> kind, of |-> b]]
  /\ params' = [params EXCEPT ![b][field] = Lowest]

(* Closing what the given fields name, whatever it is by now. *)
Closes(b, fields) ==
  LET named == {params[b][f] : f \in fields} IN
    /\ table' = [fd \in Fds |-> IF fd \in named THEN Free ELSE table[fd]]
    /\ strayed' = (strayed \/ \E fd \in named \cap Fds : table[fd].of # b)

Begin(b) ==
  /\ at[b] \in {"unused", "failed"}
  /\ \A other \in Buffers : at[other] \notin Steps
  /\ inits < MaxInits
  /\ inits' = inits + 1
  /\ Goto(b, "open_heap")
  /\ UNCHANGED <<table, params, opened, sockets, strayed, careless>>

OpenHeap(b) ==
  /\ at[b] = "open_heap"
  /\ Opens(b, "heap", "dma_heap_fd")
  /\ opened' = opened + 1
  /\ Goto(b, "alloc")
  /\ UNCHANGED <<inits, sockets, strayed, careless>>

Alloc(b) ==
  /\ at[b] = "alloc"
  /\ Opens(b, "buf", "dma_buf_fd")
  /\ Goto(b, "open_rproc")
  /\ UNCHANGED <<inits, opened, sockets, strayed, careless>>

OpenRproc(b) ==
  /\ at[b] = "open_rproc"
  /\ Opens(b, "rproc", "rproc_fd")
  /\ Goto(b, "attach")
  /\ UNCHANGED <<inits, opened, sockets, strayed, careless>>

AttachOrMap(b) ==
  /\ at[b] \in {"attach", "map"}
  /\ Goto(b, IF at[b] = "attach" THEN "map" ELSE "ready")
  /\ UNCHANGED <<table, params, inits, opened, sockets, strayed, careless>>

FailsToOpen(b, result) ==
  /\ at[b] \in {"open_heap", "alloc"}
  /\ params' = [params EXCEPT ![b] =
       IF at[b] = "alloc" THEN [@ EXCEPT !.dma_buf_fd = result]
                          ELSE [@ EXCEPT !.dma_heap_fd = result]]
  /\ Goto(b, "failed")
  /\ UNCHANGED <<table, inits, opened, sockets, strayed, careless>>

(* Wrong: the negated errno for the descriptor. *)
OpenFailsErrno(b) == FailsToOpen(b, -12)

(* A device that is missing, a full table, no memory: the descriptor that  *)
(* was asked for is -1.                                                    *)
OpenFails(b) == FailsToOpen(b, -1)

RprocFails(b) ==
  /\ at[b] = "open_rproc"
  /\ Closes(b, {"dma_buf_fd"})
  /\ params' = [params EXCEPT ![b].rproc_fd = -1]
  /\ Goto(b, "failed")
  /\ UNCHANGED <<inits, opened, sockets, careless>>

GivesUp(b, closing, where) ==
  /\ at[b] \in {"attach", "map"}
  /\ Closes(b, closing)
  /\ Goto(b, where)
  /\ UNCHANGED <<params, inits, opened, sockets, careless>>

(* Wrong: the remoteproc device left open. *)
AttachOrMapFailsHalf(b) == GivesUp(b, {"dma_buf_fd"}, "failed")
(* Wrong: the result of the call before is returned, which was 0. *)
AttachOrMapFailsAsReady(b) == GivesUp(b, {"dma_buf_fd", "rproc_fd"}, "ready")
AttachOrMapFails(b) == GivesUp(b, {"dma_buf_fd", "rproc_fd"}, "failed")

(* The heap's own descriptor is closed nowhere; and a caller may, as main  *)
(* does, destroy a buffer without having looked at what its init returned. *)
dmabuf_heap_destroy(b) ==
  /\ at[b] \in {"ready", "failed"}
  /\ \A other \in Buffers : at[other] \notin Steps
  /\ Closes(b, {"dma_buf_fd", "rproc_fd"})
  /\ Goto(b, "unused")
  /\ careless' = (careless \/ at[b] = "failed")
  /\ UNCHANGED <<params, inits, opened, sockets>>

(* Other threads: sockets come and go. *)
OthersOpen ==
  /\ Unused # {}
  /\ sockets < MaxSockets
  /\ sockets' = sockets + 1
  /\ table' = [table EXCEPT ![Lowest] = Other]
  /\ UNCHANGED <<params, at, inits, opened, strayed, careless>>

OthersClose ==
  /\ \E fd \in Fds : table[fd] = Other /\ table' = [table EXCEPT ![fd] = Free]
  /\ UNCHANGED <<params, at, inits, opened, sockets, strayed, careless>>

InitStep(b) ==
  \/ Begin(b) \/ OpenHeap(b) \/ Alloc(b) \/ OpenRproc(b) \/ AttachOrMap(b)
  \/ OpenFails(b) \/ RprocFails(b) \/ AttachOrMapFails(b)

Next ==
  \/ \E b \in Buffers : InitStep(b) \/ dmabuf_heap_destroy(b)
  \/ OthersOpen \/ OthersClose

Spec == Init /\ [][Next]_vars

-----------------------------------------------------------------------------
TypeOK ==
  /\ table \in [Fds -> Owners]
  /\ params \in [Buffers -> [dma_heap_fd : -1 .. MaxFds - 1,
                             dma_buf_fd : -1 .. MaxFds - 1,
                             rproc_fd : -1 .. MaxFds - 1]]
  /\ at \in [Buffers -> Steps \cup {"unused", "failed", "ready"}]
  /\ inits \in 0 .. MaxInits
  /\ opened \in 0 .. MaxInits
  /\ sockets \in 0 .. MaxSockets
  /\ strayed \in BOOLEAN
  /\ careless \in BOOLEAN

Held(b, kind) == {fd \in Fds : table[fd] = [kind |-> kind, of |-> b]}

(* However init fails, and however descriptors are reused in between, the  *)
(* library closes none but its own, until a buffer whose init failed is    *)
(* destroyed.                                                              *)
NeverStrays == strayed => careless

(* Until then a buffer that is ready holds what its dma_buf_params say;    *)
(* outside dmabuf_heap_init one that is not ready holds neither the buffer *)
(* nor the remoteproc device; and each call that opens the heap loses its  *)
(* descriptor for good.                                                    *)
HoldsAsStated ==
  ~careless =>
    /\ \A b \in Buffers :
         /\ at[b] = "ready" => /\ Held(b, "buf") = {params[b].dma_buf_fd}
                               /\ Held(b, "rproc") = {params[b].rproc_fd}
         /\ at[b] \in {"unused", "failed"} => Held(b, "buf") \cup Held(b, "rproc") = {}
    /\ Cardinality(UNION {Held(b, "heap") : b \in Buffers}) = opened
=============================================================================
