----------------------------- MODULE DmaBuffer -----------------------------
(***************************************************************************)
(* A dma-buf as the CPU and the DSP share it, and what dmabuf_sync         *)
(* (library/src/dmabuf.c) does to it.  The contents are one cache line:    *)
(* what memory holds, what the CPU's cache holds, and whether that line is *)
(* absent, clean or dirty.  The DSP reads and writes memory.               *)
(***************************************************************************)
EXTENDS Integers

CONSTANT OnInvalidate   \* what an invalidation does to a dirty line

Fates == {"cleaned", "dropped"}

ASSUME FateAssumption == OnInvalidate \subseteq Fates /\ OnInvalidate # {}

(* linux/dma-buf.h *)
DMA_BUF_SYNC_START == 0
DMA_BUF_SYNC_END   == 4
EndBit(flags) == (flags \div DMA_BUF_SYNC_END) % 2 = 1

Absent(contents) == [mem |-> contents, line |-> contents, state |-> "absent"]

Buffers(Contents) ==
  [mem : Contents, line : Contents, state : {"absent", "clean", "dirty"}]

(* The CPU. *)
CpuRead(buf) == IF buf.state = "absent" THEN buf.mem ELSE buf.line
CpuWrite(buf, contents) == [buf EXCEPT !.line = contents, !.state = "dirty"]

(* The remote core. *)
RemoteWrite(buf, contents) ==
  IF buf.state = "absent" THEN Absent(contents) ELSE [buf EXCEPT !.mem = contents]

(* The cache, at any time and of its own accord. *)
Clean(buf) ==
  IF buf.state = "dirty" THEN [buf EXCEPT !.mem = buf.line, !.state = "clean"] ELSE buf
Evict(buf) == Absent(Clean(buf).mem)
Prefetch(buf) == [buf EXCEPT !.state = "clean"]
CacheMoves(buf) ==
  IF buf.state = "absent" THEN {Prefetch(buf)} ELSE {Evict(buf)}

(* What is left when the line is invalidated. *)
Invalidated(buf) ==
  IF buf.state = "dirty"
    THEN {Absent(IF fate = "cleaned" THEN buf.line ELSE buf.mem) : fate \in OnInvalidate}
    ELSE {Absent(buf.mem)}

(* DMA_BUF_IOCTL_SYNC looks at the END bit alone: a session ends with a    *)
(* clean of the cache, and starts with an invalidation of it.              *)
dmabuf_sync(buf, start_stop) ==
  IF EndBit(start_stop) THEN {Clean(buf)} ELSE Invalidated(buf)
=============================================================================
