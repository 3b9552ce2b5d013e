---------------------------- MODULE DmaHeapProofs ---------------------------
(***************************************************************************)
(* Theorems about DmaHeap: for any number of buffers and descriptors, and  *)
(* whichever call fails, the library closes its own descriptors only, and  *)
(* loses one descriptor with each call, until its caller destroys a buffer *)
(* whose dmabuf_heap_init has failed.                                      *)
(***************************************************************************)
EXTENDS DmaHeap, FiniteSetTheorems, WellFoundedInduction, TLAPS

(* A new descriptor is a free one. *)
LEMMA LowestIsUnused ==
  ASSUME Unused # {}
  PROVE  Lowest \in Unused
<1> DEFINE Less == {ss \in Nat \X Nat : ss[1] < ss[2]}
<1>1. IsWellFoundedOn(Less, Nat)
  BY NatLessThanWellFounded DEF OpToRel
<1>2. Unused \subseteq Nat
  BY TableAssumption DEF Unused, Fds
<1> HIDE DEF Less
<1>3. PICK fd \in Unused : \A other \in Unused : <<other, fd>> \notin Less
  BY <1>1, <1>2, WFMin, Zenon
<1> USE DEF Less
<1>4. ASSUME NEW other \in Unused PROVE fd <= other
  <2>1. <<other, fd>> \in Nat \X Nat
    BY <1>2
  <2>2. ~(other < fd)
    BY <1>3, <2>1
  <2> QED
    BY <1>2, <2>2
<1> QED
  BY <1>4 DEF Lowest

-----------------------------------------------------------------------------
(* One call of dmabuf_heap_init at a time, and none opens two heaps. *)
OneAtATime ==
  \A a, b \in Buffers : at[a] \in Steps /\ at[b] \in Steps => a = b

HeapsCounted ==
  /\ opened <= inits
  /\ \A b \in Buffers : at[b] = "open_heap" => opened < inits

CallsInv == TypeOK /\ OneAtATime /\ HeapsCounted

LEMMA InitCalls == Init => CallsInv
<1> SUFFICES ASSUME Init PROVE CallsInv
  OBVIOUS
<1> USE TableAssumption DEF Init
<1>1. 0 \in Fds
  BY DEF Fds
<1>2. table \in [Fds -> Owners]
  BY DEF Fds, Owners, Other, Free
<1>3. at \in [Buffers -> Steps \cup {"unused", "failed", "ready"}]
  OBVIOUS
<1>4. /\ 0 \in -1 .. MaxFds - 1
      /\ {0} \subseteq 0 .. MaxInits /\ {0} \subseteq 0 .. MaxSockets
  OBVIOUS
<1>5. params \in [Buffers -> [dma_heap_fd : -1 .. MaxFds - 1,
                             dma_buf_fd : -1 .. MaxFds - 1,
                             rproc_fd : -1 .. MaxFds - 1]]
  BY <1>4
<1>6. TypeOK
  BY <1>2, <1>3, <1>4, <1>5 DEF TypeOK
<1>7. OneAtATime /\ HeapsCounted
  BY DEF OneAtATime, HeapsCounted, Steps
<1> QED
  BY <1>6, <1>7 DEF CallsInv

LEMMA OpensKeepsTypes ==
  ASSUME TypeOK, NEW b \in Buffers, NEW kind, [kind |-> kind, of |-> b] \in Owners,
         NEW field \in {"dma_heap_fd", "dma_buf_fd", "rproc_fd"}, Opens(b, kind, field)
  PROVE  /\ table' \in [Fds -> Owners]
         /\ params' \in [Buffers -> [dma_heap_fd : -1 .. MaxFds - 1,
                                     dma_buf_fd : -1 .. MaxFds - 1,
                                     rproc_fd : -1 .. MaxFds - 1]]
<1> USE TableAssumption
<1>1. Lowest \in Fds /\ Lowest \in -1 .. MaxFds - 1
  BY LowestIsUnused DEF Opens, Unused, Fds
<1>2. table' \in [Fds -> Owners]
  BY <1>1 DEF Opens, TypeOK
<1>3. CASE field = "dma_heap_fd"
  BY <1>1, <1>2, <1>3 DEF Opens, TypeOK
<1>4. CASE field = "dma_buf_fd"
  BY <1>1, <1>2, <1>4 DEF Opens, TypeOK
<1>5. CASE field = "rproc_fd"
  BY <1>1, <1>2, <1>5 DEF Opens, TypeOK
<1> QED
  BY <1>3, <1>4, <1>5

LEMMA StepKeepsCalls == CallsInv /\ [Next]_vars => CallsInv'
<1> SUFFICES ASSUME CallsInv, [Next]_vars PROVE CallsInv'
  OBVIOUS
<1> USE TableAssumption, BufferAssumption
<1>t. /\ table \in [Fds -> Owners]
      /\ at \in [Buffers -> Steps \cup {"unused", "failed", "ready"}]
      /\ inits \in Nat /\ opened \in Nat
      /\ Free \in Owners /\ Other \in Owners
  BY DEF CallsInv, TypeOK, Free, Other, Owners
<1>l. Unused # {} => Lowest \in Fds
  BY LowestIsUnused DEF Unused
<1> USE DEF CallsInv
<1>1. ASSUME NEW b \in Buffers, Begin(b) PROVE CallsInv'
  <2>1. TypeOK'
    BY <1>1, <1>t DEF TypeOK, Begin, Goto, Steps
  <2>2. OneAtATime' /\ HeapsCounted'
    BY <1>1, <1>t DEF OneAtATime, HeapsCounted, Begin, Goto, Steps
  <2> QED BY <2>1, <2>2
<1>2. ASSUME NEW b \in Buffers, OpenHeap(b) PROVE CallsInv'
  <2>1. opened < inits
    BY <1>2 DEF OpenHeap, HeapsCounted
  <2>2. [kind |-> "heap", of |-> b] \in Owners
    BY DEF Owners
  <2>3. opened' \in 0 .. MaxInits
    BY <1>2, <2>1 DEF OpenHeap, TypeOK
  <2>4. TypeOK'
    BY <1>2, <2>2, <2>3, OpensKeepsTypes DEF TypeOK, OpenHeap, Goto, Steps
  <2>5. OneAtATime' /\ HeapsCounted'
    BY <1>2, <1>t, <2>1 DEF OneAtATime, HeapsCounted, OpenHeap, Goto, Steps
  <2> QED BY <2>4, <2>5
<1>3. ASSUME NEW b \in Buffers, Alloc(b) \/ OpenRproc(b) PROVE CallsInv'
  <2>1. /\ [kind |-> "buf", of |-> b] \in Owners
        /\ [kind |-> "rproc", of |-> b] \in Owners
    BY DEF Owners
  <2>2. TypeOK'
    BY <1>3, <2>1, OpensKeepsTypes DEF TypeOK, Alloc, OpenRproc, Goto, Steps
  <2>3. OneAtATime' /\ HeapsCounted'
    BY <1>3, <1>t DEF OneAtATime, HeapsCounted, Alloc, OpenRproc, Goto, Steps
  <2> QED BY <2>2, <2>3
<1>4. ASSUME NEW b \in Buffers, AttachOrMap(b) PROVE CallsInv'
  <2>1. TypeOK'
    BY <1>4, <1>t DEF TypeOK, AttachOrMap, Goto, Steps
  <2>2. OneAtATime' /\ HeapsCounted'
    BY <1>4, <1>t DEF OneAtATime, HeapsCounted, AttachOrMap, Goto, Steps
  <2> QED BY <2>1, <2>2
<1>5. ASSUME NEW b \in Buffers, OpenFails(b) PROVE CallsInv'
  <2>1. TypeOK'
    BY <1>5, <1>t DEF TypeOK, OpenFails, FailsToOpen, Goto, Steps
  <2>2. OneAtATime' /\ HeapsCounted'
    BY <1>5, <1>t DEF OneAtATime, HeapsCounted, OpenFails, FailsToOpen, Goto, Steps
  <2> QED BY <2>1, <2>2
<1>6. ASSUME NEW b \in Buffers, RprocFails(b) PROVE CallsInv'
  <2>1. TypeOK'
    BY <1>6, <1>t DEF TypeOK, RprocFails, Closes, Goto, Steps
  <2>2. OneAtATime' /\ HeapsCounted'
    BY <1>6, <1>t DEF OneAtATime, HeapsCounted, RprocFails, Goto, Steps
  <2> QED BY <2>1, <2>2
<1>7. ASSUME NEW b \in Buffers, AttachOrMapFails(b) \/ dmabuf_heap_destroy(b)
      PROVE  CallsInv'
  <2>1. TypeOK'
    <3>1. /\ at' = [at EXCEPT ![b] = "failed"] \/ at' = [at EXCEPT ![b] = "unused"]
          /\ UNCHANGED <<params, inits, opened, sockets>>
          /\ Closes(b, {"dma_buf_fd", "rproc_fd"})
      BY <1>7 DEF AttachOrMapFails, GivesUp, dmabuf_heap_destroy, Goto
    <3>2. table' \in [Fds -> Owners] /\ strayed' \in BOOLEAN
      <4>1. table' \in [Fds -> Owners]
        BY <1>t, <3>1 DEF Closes
      <4>2. strayed' \in BOOLEAN
        BY <3>1, Zenon DEF Closes, TypeOK
      <4> QED BY <4>1, <4>2
    <3>3. at' \in [Buffers -> Steps \cup {"unused", "failed", "ready"}]
      BY <1>t, <3>1
    <3>4. careless' \in BOOLEAN
      BY <1>7, Zenon DEF TypeOK, AttachOrMapFails, GivesUp, dmabuf_heap_destroy
    <3> QED
      BY <3>1, <3>2, <3>3, <3>4 DEF TypeOK
  <2>2. OneAtATime' /\ HeapsCounted'
    BY <1>7, <1>t
    DEF OneAtATime, HeapsCounted, AttachOrMapFails, GivesUp, dmabuf_heap_destroy,
        Goto, Steps
  <2> QED BY <2>1, <2>2
<1>8. ASSUME OthersOpen \/ OthersClose PROVE CallsInv'
  <2>1. TypeOK'
    BY <1>8, <1>t, <1>l DEF TypeOK, OthersOpen, OthersClose
  <2>2. OneAtATime' /\ HeapsCounted'
    BY <1>8 DEF OneAtATime, HeapsCounted, OthersOpen, OthersClose
  <2> QED BY <2>1, <2>2
<1>9. ASSUME UNCHANGED vars PROVE CallsInv'
  BY <1>9 DEF vars, TypeOK, OneAtATime, HeapsCounted
<1> QED
  BY <1>1, <1>2, <1>3, <1>4, <1>5, <1>6, <1>7, <1>8, <1>9 DEF Next, InitStep

(* The descriptor table and the dma_buf_params keep their types, and no    *)
(* more heaps are opened than dmabuf_heap_init is called, for any number   *)
(* of buffers, whether or not the caller looks at the result.              *)
THEOREM DmaHeapTypeCorrect == Spec => []TypeOK
<1>1. CallsInv => TypeOK
  BY DEF CallsInv
<1> QED
  BY <1>1, InitCalls, StepKeepsCalls, PTL DEF Spec

-----------------------------------------------------------------------------
(* What each buffer holds, by how far its dmabuf_heap_init has come.       *)
HasBuf   == {"open_rproc", "attach", "map", "ready"}
HasRproc == {"attach", "map", "ready"}

Mine(kind, b) == [kind |-> kind, of |-> b]

FdsInTable ==
  \A b \in Buffers :
    /\ at[b] \in HasBuf => params[b].dma_buf_fd \in Fds
    /\ at[b] \in HasRproc => params[b].rproc_fd \in Fds

HeldByStep ==
  \A b \in Buffers, fd \in Fds :
    /\ table[fd] = Mine("buf", b) <=> at[b] \in HasBuf /\ fd = params[b].dma_buf_fd
    /\ table[fd] = Mine("rproc", b) <=> at[b] \in HasRproc /\ fd = params[b].rproc_fd

HeapFds == {fd \in Fds : \E b \in Buffers : table[fd] = Mine("heap", b)}

HoldsInv ==
  /\ CallsInv
  /\ strayed = FALSE
  /\ FdsInTable
  /\ HeldByStep
  /\ Cardinality(HeapFds) = opened

LEMMA InitHolds == Init => HoldsInv
<1> SUFFICES ASSUME Init PROVE HoldsInv
  OBVIOUS
<1> USE DEF Init
<1>1. strayed = FALSE /\ FdsInTable
  BY DEF FdsInTable, HasBuf, HasRproc
<1>2. \A fd \in Fds : table[fd].kind \notin {"heap", "buf", "rproc"}
  <2>1. \A fd \in Fds : table[fd] = IF fd = 0 THEN Other ELSE Free
    OBVIOUS
  <2>2. Other.kind = "other" /\ Free.kind = "free"
    BY DEF Free, Other
  <2> QED BY <2>1, <2>2
<1>3. HeldByStep
  BY <1>2 DEF HeldByStep, HasBuf, HasRproc, Mine
<1>4. HeapFds = {}
  <2>1. \A fd \in Fds, b \in Buffers : table[fd] # Mine("heap", b)
    BY <1>2 DEF Mine
  <2> QED BY <2>1 DEF HeapFds
<1>5. Cardinality(HeapFds) = opened
  BY <1>4, FS_EmptySet, Zenon
<1> QED
  BY <1>1, <1>3, <1>5, InitCalls DEF HoldsInv

(* Closing what one owns is no stray, and touches nothing of the others,   *)
(* nor a heap.                                                             *)
LEMMA ClosingOwn ==
  ASSUME HoldsInv, NEW b \in Buffers, NEW fields, Closes(b, fields),
         \A f \in fields : /\ params[b][f] \in Fds
                           /\ \/ table[params[b][f]] = Mine("buf", b)
                              \/ table[params[b][f]] = Mine("rproc", b)
  PROVE  /\ strayed' = FALSE
         /\ HeapFds' = HeapFds
         /\ \A c \in Buffers \ {b}, kind \in {"buf", "rproc"}, fd \in Fds :
              table'[fd] = Mine(kind, c) <=> table[fd] = Mine(kind, c)
<1> DEFINE named == {params[b][f] : f \in fields}
<1>1. \A fd \in named : /\ table[fd].of = b
                        /\ table[fd].kind \in {"buf", "rproc"}
  BY DEF Mine
<1>2. \A fd \in Fds : table'[fd] = IF fd \in named THEN Free ELSE table[fd]
  BY DEF Closes
<1>3. strayed' = FALSE
  BY <1>1 DEF Closes, HoldsInv
<1> HIDE DEF named
<1>4. \A c \in Buffers : Free \notin {Mine("heap", c), Mine("buf", c), Mine("rproc", c)}
  BY DEF Free, Mine
<1>5. HeapFds' = HeapFds
  <2>1. \A c \in Buffers, fd \in Fds :
          table'[fd] = Mine("heap", c) <=> table[fd] = Mine("heap", c)
    BY <1>1, <1>2, <1>4 DEF Mine
  <2> QED BY <2>1 DEF HeapFds
<1>6. \A c \in Buffers \ {b}, kind \in {"buf", "rproc"}, fd \in Fds :
         table'[fd] = Mine(kind, c) <=> table[fd] = Mine(kind, c)
  BY <1>1, <1>2, <1>4 DEF Mine
<1> QED
  BY <1>3, <1>5, <1>6

(* Opening takes a descriptor that is nobody's. *)
LEMMA Opening ==
  ASSUME HoldsInv, NEW b \in Buffers, NEW kind \in {"heap", "buf", "rproc"},
         NEW field \in {"dma_heap_fd", "dma_buf_fd", "rproc_fd"}, Opens(b, kind, field)
  PROVE  /\ Lowest \in Fds /\ table[Lowest] = Free
         /\ \A fd \in Fds : table'[fd] = IF fd = Lowest THEN Mine(kind, b) ELSE table[fd]
         /\ \A c \in Buffers : c # b => params'[c] = params[c]
         /\ \A g \in {"dma_heap_fd", "dma_buf_fd", "rproc_fd"} :
              params'[b][g] = IF g = field THEN Lowest ELSE params[b][g]
<1>1. Lowest \in Fds /\ table[Lowest] = Free
  BY LowestIsUnused DEF Opens, Unused
<1>2. \A fd \in Fds : table'[fd] = IF fd = Lowest THEN Mine(kind, b) ELSE table[fd]
  BY DEF Opens, HoldsInv, CallsInv, TypeOK, Mine
<1>3. \A c \in Buffers : c # b => params'[c] = params[c]
  BY DEF Opens, HoldsInv, CallsInv, TypeOK
<1>4. \A g \in {"dma_heap_fd", "dma_buf_fd", "rproc_fd"} :
        params'[b][g] = IF g = field THEN Lowest ELSE params[b][g]
  BY DEF Opens, HoldsInv, CallsInv, TypeOK
<1> QED
  BY <1>1, <1>2, <1>3, <1>4

(* As long as no buffer is destroyed whose init failed: then a buffer that *)
(* is destroyed is ready, and holds what is closed.                        *)
LEMMA StepKeepsHolds ==
  ASSUME HoldsInv, [Next]_vars, ~careless'
  PROVE  HoldsInv'
<1>i. CallsInv'
  BY StepKeepsCalls DEF HoldsInv
<1>t. /\ at \in [Buffers -> Steps \cup {"unused", "failed", "ready"}]
      /\ params \in [Buffers -> [dma_heap_fd : -1 .. MaxFds - 1,
                                 dma_buf_fd : -1 .. MaxFds - 1,
                                 rproc_fd : -1 .. MaxFds - 1]]
  BY DEF HoldsInv, CallsInv, TypeOK
<1>h. /\ IsFiniteSet(Fds)
      /\ opened \in Nat
  BY FS_Interval, TableAssumption DEF HoldsInv, CallsInv, TypeOK, Fds
<1>f. /\ IsFiniteSet(HeapFds)
  BY <1>h, FS_Subset DEF HeapFds
<1> USE DEF HasBuf, HasRproc, Steps
<1>1. ASSUME NEW b \in Buffers, Begin(b) PROVE HoldsInv'
  <2>1. /\ table' = table /\ params' = params /\ opened' = opened /\ strayed' = strayed
        /\ \A c \in Buffers : (at'[c] \in HasBuf <=> at[c] \in HasBuf)
                              /\ (at'[c] \in HasRproc <=> at[c] \in HasRproc)
    BY <1>1, <1>t DEF Begin, Goto
  <2> QED
    BY <2>1, <1>i DEF HoldsInv, FdsInTable, HeldByStep, HeapFds
<1>2. ASSUME NEW b \in Buffers, OpenHeap(b) PROVE HoldsInv'
  <2>1. /\ Opens(b, "heap", "dma_heap_fd") /\ opened' = opened + 1 /\ strayed' = strayed
        /\ at[b] = "open_heap" /\ at' = [at EXCEPT ![b] = "alloc"]
    BY <1>2 DEF OpenHeap, Goto
  <2>2. /\ Lowest \in Fds /\ table[Lowest] = Free
        /\ \A fd \in Fds : table'[fd] = IF fd = Lowest THEN Mine("heap", b) ELSE table[fd]
        /\ \A c \in Buffers : c # b => params'[c] = params[c]
    BY <2>1, Opening
  <2>3. FdsInTable'
    BY <1>t, <2>1, <2>2 DEF FdsInTable, HoldsInv
  <2>4. \A c \in Buffers : /\ Mine("heap", b) \notin {Mine("buf", c), Mine("rproc", c)}
                           /\ Free \notin {Mine("buf", c), Mine("rproc", c), Mine("heap", c)}
    BY DEF Mine, Free
  <2>5. HeldByStep'
    BY <1>t, <2>1, <2>2, <2>4 DEF HeldByStep, HoldsInv
  <2>6. HeapFds' = HeapFds \cup {Lowest} /\ Lowest \notin HeapFds
    BY <2>2, <2>4 DEF HeapFds
  <2>7. Cardinality(HeapFds') = opened'
    BY <1>f, <1>h, <2>1, <2>6, FS_AddElement DEF HoldsInv
  <2> QED
    BY <1>i, <2>1, <2>3, <2>5, <2>7 DEF HoldsInv
<1>3. ASSUME NEW b \in Buffers, Alloc(b) PROVE HoldsInv'
  <2>1. /\ Opens(b, "buf", "dma_buf_fd") /\ opened' = opened /\ strayed' = strayed
        /\ at[b] = "alloc" /\ at' = [at EXCEPT ![b] = "open_rproc"]
    BY <1>3 DEF Alloc, Goto
  <2>2. /\ Lowest \in Fds /\ table[Lowest] = Free
        /\ \A fd \in Fds : table'[fd] = IF fd = Lowest THEN Mine("buf", b) ELSE table[fd]
        /\ \A c \in Buffers : c # b => params'[c] = params[c]
        /\ params'[b].dma_buf_fd = Lowest
    BY <2>1, Opening
  <2>3. FdsInTable'
    BY <1>t, <2>1, <2>2 DEF FdsInTable, HoldsInv
  <2>4. \A c \in Buffers : /\ Mine("buf", b) \notin {Mine("heap", c), Mine("rproc", c)}
                           /\ Mine("buf", b) = Mine("buf", c) => b = c
                           /\ Free \notin {Mine("buf", c), Mine("rproc", c), Mine("heap", c)}
    BY DEF Mine, Free
  <2>5. HeldByStep'
    BY <1>t, <2>1, <2>2, <2>4 DEF HeldByStep, HoldsInv
  <2>6. HeapFds' = HeapFds
    BY <2>2, <2>4 DEF HeapFds
  <2> QED
    BY <1>i, <2>1, <2>3, <2>5, <2>6 DEF HoldsInv
<1>4. ASSUME NEW b \in Buffers, OpenRproc(b) PROVE HoldsInv'
  <2>1. /\ Opens(b, "rproc", "rproc_fd") /\ opened' = opened /\ strayed' = strayed
        /\ at[b] = "open_rproc" /\ at' = [at EXCEPT ![b] = "attach"]
    BY <1>4 DEF OpenRproc, Goto
  <2>2. /\ Lowest \in Fds /\ table[Lowest] = Free
        /\ \A fd \in Fds : table'[fd] = IF fd = Lowest THEN Mine("rproc", b) ELSE table[fd]
        /\ \A c \in Buffers : c # b => params'[c] = params[c]
        /\ params'[b].rproc_fd = Lowest /\ params'[b].dma_buf_fd = params[b].dma_buf_fd
    BY <2>1, Opening
  <2>3. FdsInTable'
    BY <1>t, <2>1, <2>2 DEF FdsInTable, HoldsInv
  <2>4. \A c \in Buffers : /\ Mine("rproc", b) \notin {Mine("heap", c), Mine("buf", c)}
                           /\ Mine("rproc", b) = Mine("rproc", c) => b = c
                           /\ Free \notin {Mine("buf", c), Mine("rproc", c), Mine("heap", c)}
    BY DEF Mine, Free
  <2>5. HeldByStep'
    BY <1>t, <2>1, <2>2, <2>4 DEF HeldByStep, HoldsInv
  <2>6. HeapFds' = HeapFds
    BY <2>2, <2>4 DEF HeapFds
  <2> QED
    BY <1>i, <2>1, <2>3, <2>5, <2>6 DEF HoldsInv
<1>5. ASSUME NEW b \in Buffers, AttachOrMap(b) PROVE HoldsInv'
  <2>1. /\ table' = table /\ params' = params /\ opened' = opened /\ strayed' = strayed
        /\ \A c \in Buffers : (at'[c] \in HasBuf <=> at[c] \in HasBuf)
                              /\ (at'[c] \in HasRproc <=> at[c] \in HasRproc)
    BY <1>5, <1>t DEF AttachOrMap, Goto
  <2> QED
    BY <2>1, <1>i DEF HoldsInv, FdsInTable, HeldByStep, HeapFds
<1>6. ASSUME NEW b \in Buffers, OpenFails(b) PROVE HoldsInv'
  <2>1. /\ table' = table /\ opened' = opened /\ strayed' = strayed
        /\ at[b] \in {"open_heap", "alloc"} /\ at' = [at EXCEPT ![b] = "failed"]
        /\ \A c \in Buffers : c # b => params'[c] = params[c]
    BY <1>6, <1>t DEF OpenFails, FailsToOpen, Goto
  <2>2. FdsInTable' /\ HeldByStep'
    BY <1>t, <2>1 DEF FdsInTable, HeldByStep, HoldsInv
  <2> QED
    BY <1>i, <2>1, <2>2 DEF HoldsInv, HeapFds
<1>7. ASSUME NEW b \in Buffers, RprocFails(b) PROVE HoldsInv'
  <2>1. /\ Closes(b, {"dma_buf_fd"}) /\ opened' = opened
        /\ at[b] = "open_rproc" /\ at' = [at EXCEPT ![b] = "failed"]
        /\ \A c \in Buffers : c # b => params'[c] = params[c]
    BY <1>7, <1>t DEF RprocFails, Goto
  <2>2. /\ params[b].dma_buf_fd \in Fds
        /\ table[params[b].dma_buf_fd] = Mine("buf", b)
    BY <2>1 DEF HoldsInv, FdsInTable, HeldByStep
  <2>3. /\ strayed' = FALSE
        /\ HeapFds' = HeapFds
        /\ \A c \in Buffers \ {b}, kind \in {"buf", "rproc"}, fd \in Fds :
             table'[fd] = Mine(kind, c) <=> table[fd] = Mine(kind, c)
    <3> DEFINE fields == {"dma_buf_fd"}
    <3>1. Closes(b, fields)
      BY <2>1
    <3>2. \A f \in fields : /\ params[b][f] \in Fds
                            /\ \/ table[params[b][f]] = Mine("buf", b)
                               \/ table[params[b][f]] = Mine("rproc", b)
      BY <2>2
    <3> HIDE DEF fields
    <3> QED BY <3>1, <3>2, ClosingOwn
  <2>4. \A fd \in Fds : table'[fd] \notin {Mine("buf", b), Mine("rproc", b)}
    <3>1. Free \notin {Mine("buf", b), Mine("rproc", b)}
      BY DEF Free, Mine
    <3>2. \A fd \in Fds :
            table'[fd] = IF fd = params[b].dma_buf_fd THEN Free ELSE table[fd]
      BY <2>1 DEF Closes
    <3> QED BY <2>1, <3>1, <3>2 DEF HoldsInv, HeldByStep
  <2>5. /\ at'[b] \notin HasBuf /\ at'[b] \notin HasRproc
        /\ \A c \in Buffers \ {b} : at'[c] = at[c] /\ params'[c] = params[c]
    BY <1>t, <2>1
  <2>6. FdsInTable'
    BY <2>5 DEF FdsInTable, HoldsInv
  <2>7. HeldByStep'
    <3>1. ASSUME NEW c \in Buffers \ {b}, NEW fd \in Fds
          PROVE  /\ table'[fd] = Mine("buf", c) <=> at'[c] \in HasBuf /\ fd = params'[c].dma_buf_fd
                 /\ table'[fd] = Mine("rproc", c) <=> at'[c] \in HasRproc /\ fd = params'[c].rproc_fd
      BY <2>3, <2>5 DEF HeldByStep, HoldsInv
    <3> QED BY <2>4, <2>5, <3>1 DEF HeldByStep
  <2> QED
    BY <1>i, <2>1, <2>3, <2>6, <2>7 DEF HoldsInv
<1>8. ASSUME NEW b \in Buffers, AttachOrMapFails(b) \/ dmabuf_heap_destroy(b)
      PROVE  HoldsInv'
  <2>1. /\ Closes(b, {"dma_buf_fd", "rproc_fd"}) /\ opened' = opened /\ params' = params
        /\ at[b] \in HasRproc
        /\ at' = [at EXCEPT ![b] = "failed"] \/ at' = [at EXCEPT ![b] = "unused"]
    <3>1. dmabuf_heap_destroy(b) => at[b] # "failed"
      BY DEF dmabuf_heap_destroy
    <3> QED
      BY <1>8, <3>1 DEF AttachOrMapFails, GivesUp, dmabuf_heap_destroy, Goto
  <2>2. /\ params[b].dma_buf_fd \in Fds /\ params[b].rproc_fd \in Fds
        /\ table[params[b].dma_buf_fd] = Mine("buf", b)
        /\ table[params[b].rproc_fd] = Mine("rproc", b)
    BY <2>1 DEF HoldsInv, FdsInTable, HeldByStep
  <2>3. /\ strayed' = FALSE
        /\ HeapFds' = HeapFds
        /\ \A c \in Buffers \ {b}, kind \in {"buf", "rproc"}, fd \in Fds :
             table'[fd] = Mine(kind, c) <=> table[fd] = Mine(kind, c)
    <3> DEFINE fields == {"dma_buf_fd", "rproc_fd"}
    <3>1. Closes(b, fields)
      BY <2>1
    <3>2. \A f \in fields : /\ params[b][f] \in Fds
                            /\ \/ table[params[b][f]] = Mine("buf", b)
                               \/ table[params[b][f]] = Mine("rproc", b)
      BY <2>2
    <3> HIDE DEF fields
    <3> QED BY <3>1, <3>2, ClosingOwn
  <2>4. \A fd \in Fds : table'[fd] \notin {Mine("buf", b), Mine("rproc", b)}
    <3>1. Free \notin {Mine("buf", b), Mine("rproc", b)}
      BY DEF Free, Mine
    <3>2. \A fd \in Fds :
            table'[fd] = IF fd \in {params[b].dma_buf_fd, params[b].rproc_fd}
                           THEN Free ELSE table[fd]
      BY <2>1 DEF Closes
    <3> QED BY <2>1, <3>1, <3>2 DEF HoldsInv, HeldByStep
  <2>5. /\ at'[b] \notin HasBuf /\ at'[b] \notin HasRproc
        /\ \A c \in Buffers \ {b} : at'[c] = at[c] /\ params'[c] = params[c]
    BY <1>t, <2>1
  <2>6. FdsInTable'
    BY <2>5 DEF FdsInTable, HoldsInv
  <2>7. HeldByStep'
    <3>1. ASSUME NEW c \in Buffers \ {b}, NEW fd \in Fds
          PROVE  /\ table'[fd] = Mine("buf", c) <=> at'[c] \in HasBuf /\ fd = params'[c].dma_buf_fd
                 /\ table'[fd] = Mine("rproc", c) <=> at'[c] \in HasRproc /\ fd = params'[c].rproc_fd
      BY <2>3, <2>5 DEF HeldByStep, HoldsInv
    <3> QED BY <2>4, <2>5, <3>1 DEF HeldByStep
  <2> QED
    BY <1>i, <2>1, <2>3, <2>6, <2>7 DEF HoldsInv
<1>9. ASSUME OthersOpen \/ OthersClose PROVE HoldsInv'
  <2>1. /\ params' = params /\ at' = at /\ opened' = opened /\ strayed' = strayed
    BY <1>9 DEF OthersOpen, OthersClose
  <2>2. \A c \in Buffers, kind \in {"heap", "buf", "rproc"} :
          Mine(kind, c) \notin {Free, Other}
    BY DEF Mine, Free, Other
  <2>3. \A c \in Buffers, kind \in {"heap", "buf", "rproc"}, fd \in Fds :
          table'[fd] = Mine(kind, c) <=> table[fd] = Mine(kind, c)
    <3>1. PICK fd \in Fds : /\ table[fd] \in {Free, Other}
                            /\ \/ table' = [table EXCEPT ![fd] = Other]
                               \/ table' = [table EXCEPT ![fd] = Free]
      BY <1>9, LowestIsUnused DEF OthersOpen, OthersClose, Unused
    <3> QED BY <2>2, <3>1 DEF HoldsInv, CallsInv, TypeOK
  <2>4. HeapFds' = HeapFds
    BY <2>3 DEF HeapFds
  <2>5. FdsInTable' /\ HeldByStep'
    BY <2>1, <2>3 DEF FdsInTable, HeldByStep, HoldsInv
  <2> QED
    BY <1>i, <2>1, <2>4, <2>5 DEF HoldsInv
<1>10. ASSUME UNCHANGED vars PROVE HoldsInv'
  BY <1>10, <1>i DEF vars, HoldsInv, FdsInTable, HeldByStep, HeapFds
<1> QED
  BY <1>1, <1>2, <1>3, <1>4, <1>5, <1>6, <1>7, <1>8, <1>9, <1>10 DEF Next, InitStep

-----------------------------------------------------------------------------
(* Nothing undoes carelessness. *)
CarefulInv == CallsInv /\ (~careless => HoldsInv)

LEMMA StepKeepsCareful == CarefulInv /\ [Next]_vars => CarefulInv'
<1> SUFFICES ASSUME CarefulInv, [Next]_vars PROVE CarefulInv'
  OBVIOUS
<1>1. CallsInv'
  BY StepKeepsCalls DEF CarefulInv
<1>2. careless => careless'
  BY DEF Next, InitStep, Begin, OpenHeap, Alloc, OpenRproc, AttachOrMap, OpenFails,
         FailsToOpen, RprocFails, AttachOrMapFails, GivesUp, dmabuf_heap_destroy,
         OthersOpen, OthersClose, vars
<1>3. ~careless' => HoldsInv'
  BY <1>2, StepKeepsHolds DEF CarefulInv
<1> QED
  BY <1>1, <1>3 DEF CarefulInv

LEMMA InitCareful == Init => CarefulInv
BY InitCalls, InitHolds DEF CarefulInv

(* dmabuf_heap_init and dmabuf_heap_destroy close no descriptor but those  *)
(* of the buffer they are called for, whichever call fails and whatever    *)
(* other threads open and close, until a caller that has not looked at the *)
(* result destroys a buffer whose init failed.                             *)
THEOREM ClosesItsOwn == Spec => []NeverStrays
<1>1. CarefulInv => NeverStrays
  BY DEF CarefulInv, HoldsInv, NeverStrays
<1> QED
  BY <1>1, InitCareful, StepKeepsCareful, PTL DEF Spec

LEMMA HoldsInvSuffices == CarefulInv => HoldsAsStated
<1> SUFFICES ASSUME HoldsInv PROVE HoldsAsStated
  BY DEF CarefulInv, HoldsAsStated
<1> USE DEF HoldsInv, HasBuf, HasRproc
<1>1. ASSUME NEW b \in Buffers, at[b] = "ready"
      PROVE  /\ Held(b, "buf") = {params[b].dma_buf_fd}
             /\ Held(b, "rproc") = {params[b].rproc_fd}
  BY <1>1 DEF FdsInTable, HeldByStep, Held, Mine
<1>2. ASSUME NEW b \in Buffers, at[b] \in {"unused", "failed"}
      PROVE  Held(b, "buf") \cup Held(b, "rproc") = {}
  BY <1>2 DEF HeldByStep, Held, Mine
<1>3. UNION {Held(b, "heap") : b \in Buffers} = HeapFds
  <2>1. \A b \in Buffers : Held(b, "heap") = {fd \in Fds : table[fd] = Mine("heap", b)}
    BY DEF Held, Mine
  <2>2. \A fd : fd \in UNION {Held(b, "heap") : b \in Buffers}
                 <=> \E b \in Buffers : fd \in Held(b, "heap")
    BY Zenon
  <2> QED BY <2>1, <2>2 DEF HeapFds
<1> QED
  BY <1>1, <1>2, <1>3 DEF HoldsAsStated

(* Until then a buffer that is ready holds the descriptors its             *)
(* dma_buf_params name, one that is not ready holds none of the two, and   *)
(* one heap descriptor is lost for every heap opened: for any number of    *)
(* buffers and descriptors.                                                *)
THEOREM HoldsWhatItSays == Spec => []HoldsAsStated
BY HoldsInvSuffices, InitCareful, StepKeepsCareful, PTL DEF Spec
=============================================================================
