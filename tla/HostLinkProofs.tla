--------------------------- MODULE HostLinkProofs ---------------------------
(***************************************************************************)
(* What holds of the connections in HostLink, for any number of ports,     *)
(* runs and connections: lemmas for the proofs about the modules that      *)
(* extend it.                                                              *)
(***************************************************************************)
EXTENDS HostLink, SequenceTheorems, WellFoundedInduction, TLAPS

-----------------------------------------------------------------------------
(* The ports, in the order in which the host connects to them. *)

Place(p) == CASE p = "log" -> 1 [] p = "cmd" -> 2 [] p = "in" -> 3 [] p = "out" -> 4

InOrder(s, k) ==
  /\ s \in Seq(PortSet) /\ s # << >> /\ s[1] = "log"
  /\ \A i \in 1 .. Len(s) : Place(s[i]) <= k
  /\ \A i, j \in 1 .. Len(s) : i < j => Place(s[i]) < Place(s[j])
  /\ \A p \in PortSet : Place(p) <= k => \E i \in 1 .. Len(s) : s[i] = p

LEMMA Places ==
  /\ \A p \in PortSet : Place(p) \in 1 .. 4
  /\ \A p, q \in PortSet : Place(p) = Place(q) => p = q
BY PortsAssumption DEF Place

LEMMA OneMorePort ==
  ASSUME NEW s, NEW k \in Nat, NEW p \in {"log", "cmd", "in", "out"}, Place(p) = k + 1,
         InOrder(s, k)
  PROVE  InOrder(s \o Only(p), k + 1)
<1> DEFINE t == s \o Only(p)
           n == Len(s)
<1>0. /\ s \in Seq(PortSet) /\ n \in Nat \ {0} /\ n = Len(s)
      /\ \A i \in 1 .. n : Place(s[i]) \in 1 .. 4 /\ Place(s[i]) <= k
      /\ \A i, j \in 1 .. n : i < j => Place(s[i]) < Place(s[j])
      /\ \A q \in PortSet : Place(q) <= k => \E i \in 1 .. n : s[i] = q
  BY Places, EmptySeq, ElementOfSeq, LenProperties DEF InOrder
<1> HIDE DEF n
<1>1. CASE p \notin PortSet
  <2>1. t = s
    BY <1>0, <1>1, ConcatEmptySeq DEF Only
  <2>2. \A q \in PortSet : Place(q) <= k + 1 => Place(q) <= k
    <3>1. ASSUME NEW q \in PortSet, Place(q) = k + 1 PROVE FALSE
      <4>1. q = p
        BY <3>1, PortsAssumption DEF Place
      <4> QED
        BY <1>1, <4>1
    <3> QED
      BY <3>1, Places
  <2> QED
    BY <1>0, <2>1, <2>2 DEF InOrder
<1>2. CASE p \in PortSet
  <2>1. /\ t \in Seq(PortSet) /\ Len(t) = n + 1 /\ t[n + 1] = p
        /\ \A i \in 1 .. n : t[i] = s[i]
    <3>1. t = Append(s, p)
      BY <1>0, <1>2, AppendIsConcat DEF Only
    <3> QED
      BY <1>0, <1>2, <3>1, AppendProperties
  <2> HIDE DEF t
  <2>2. t # << >> /\ t[1] = "log"
    BY <1>0, <2>1 DEF InOrder
  <2>3. \A i \in 1 .. n + 1 : i = n + 1 \/ i \in 1 .. n
    BY <1>0
  <2>4. \A i \in 1 .. n + 1 : Place(t[i]) <= k + 1
    <3>1. ASSUME NEW i \in 1 .. n PROVE Place(t[i]) <= k + 1
      BY <1>0, <2>1
    <3> QED
      BY <2>1, <2>3, <3>1
  <2>5. \A i, j \in 1 .. n + 1 : i < j => Place(t[i]) < Place(t[j])
    <3>1. ASSUME NEW i \in 1 .. n + 1, NEW j \in 1 .. n + 1, i < j
          PROVE  Place(t[i]) < Place(t[j])
      <4>1. i \in 1 .. n /\ t[i] = s[i] /\ Place(s[i]) <= k /\ Place(s[i]) \in 1 .. 4
        <5>1. i \in 1 .. n
          BY <1>0, <3>1
        <5> QED
          BY <1>0, <2>1, <5>1
      <4>2. CASE j = n + 1
        BY <2>1, <4>1, <4>2
      <4>3. CASE j \in 1 .. n
        BY <1>0, <2>1, <3>1, <4>1, <4>3
      <4> QED
        BY <2>3, <4>2, <4>3
    <3> QED
      BY <3>1
  <2>6. \A q \in PortSet : Place(q) <= k + 1 => \E i \in 1 .. n + 1 : t[i] = q
    <3>1. ASSUME NEW q \in PortSet, Place(q) <= k + 1 PROVE \E i \in 1 .. n + 1 : t[i] = q
      <4>1. CASE Place(q) <= k
        <5>1. PICK i \in 1 .. n : s[i] = q
          BY <1>0, <4>1
        <5>2. i \in 1 .. n + 1 /\ t[i] = q
          BY <1>0, <2>1, <5>1
        <5> QED
          BY <5>2
      <4>2. CASE Place(q) = k + 1
        <5>1. q = p /\ n + 1 \in 1 .. n + 1
          BY <1>0, <1>2, <4>2, Places
        <5> QED
          BY <2>1, <5>1
      <4> QED
        BY <3>1, <4>1, <4>2, Places
    <3> QED
      BY <3>1
  <2> QED
    BY <1>0, <2>1, <2>2, <2>4, <2>5, <2>6 DEF InOrder, t
<1> QED
  BY <1>1, <1>2

LEMMA PortsInOrder ==
  /\ Len(Ports) \in Nat \ {0} /\ Ports[1] = "log"
  /\ \A i \in 1 .. Len(Ports) : Ports[i] \in PortSet
  /\ \A i, j \in 1 .. Len(Ports) : i < j => Place(Ports[i]) < Place(Ports[j])
  /\ \A i, j \in 1 .. Len(Ports) : Ports[i] = Ports[j] => i = j
  /\ \A p \in PortSet : \E i \in 1 .. Len(Ports) : Ports[i] = p
<1>1. InOrder(Only("log"), 1)
  <2>1. Only("log") = <<"log">> /\ "log" \in PortSet
    BY PortsAssumption DEF Only
  <2>2. \A p \in PortSet : Place(p) <= 1 => p = "log"
    BY PortsAssumption DEF Place
  <2>3. /\ Len(<<"log">>) = 1 /\ <<"log">>[1] = "log" /\ <<"log">> \in Seq(PortSet)
        /\ <<"log">> # << >>
    BY <2>1
  <2>4. Place("log") = 1
    BY DEF Place
  <2> HIDE DEF Place
  <2> DEFINE s == <<"log">>
  <2>5. \A i \in 1 .. Len(s) : s[i] = "log"
    BY <2>3
  <2>6. \A i, j \in 1 .. Len(s) : ~(i < j)
    BY <2>3
  <2>7. \A p \in PortSet : Place(p) <= 1 => \E i \in 1 .. Len(s) : s[i] = p
    BY <2>2, <2>3
  <2>8. \A i \in 1 .. Len(s) : Place(s[i]) <= 1
    BY <2>4, <2>5
  <2> QED
    BY <2>1, <2>3, <2>6, <2>7, <2>8 DEF InOrder
<1>2. Place("cmd") = 2 /\ Place("in") = 3 /\ Place("out") = 4 /\ Place("log") = 1
  BY DEF Place
<1>3. InOrder(Only("log") \o Only("cmd"), 2)
  BY <1>1, <1>2, OneMorePort
<1>4. InOrder(Only("log") \o Only("cmd") \o Only("in"), 3)
  BY <1>2, <1>3, OneMorePort
<1>5. InOrder(Ports, 4)
  BY <1>2, <1>4, OneMorePort DEF Ports
<1>6. /\ Ports \in Seq(PortSet) /\ Len(Ports) \in Nat \ {0}
      /\ \A i \in 1 .. Len(Ports) : Ports[i] \in PortSet /\ Place(Ports[i]) \in 1 .. 4
  BY <1>5, Places, EmptySeq, ElementOfSeq DEF InOrder
<1>7. \A i, j \in 1 .. Len(Ports) : i < j => Place(Ports[i]) < Place(Ports[j])
  BY <1>5 DEF InOrder
<1>8. \A i, j \in 1 .. Len(Ports) : Ports[i] = Ports[j] => i = j
  BY <1>6, <1>7
<1>9. \A p \in PortSet : \E i \in 1 .. Len(Ports) : Ports[i] = p
  BY <1>5, Places DEF InOrder
<1> QED
  BY <1>5, <1>6, <1>7, <1>8, <1>9 DEF InOrder

-----------------------------------------------------------------------------
(* Streams, cut anywhere. *)

LEMMA NonEmpty ==
  ASSUME NEW S, NEW s \in Seq(S)
  PROVE  s # << >> <=> Len(s) # 0
<1>1. Len(<< >>) = 0
  BY EmptySeq
<1> QED
  BY <1>1, EmptySeq

(* The first element of two sequences in a row. *)
LEMMA FirstOfTwo ==
  ASSUME NEW S, NEW s \in Seq(S), NEW t \in Seq(S)
  PROVE  /\ s \o t \in Seq(S)
         /\ s # << >> => s \o t # << >> /\ (s \o t)[1] = s[1]
         /\ s = << >> => s \o t = t
         /\ s \o t = << >> => s = << >> /\ t = << >>
<1>1. Len(s) \in Nat /\ Len(t) \in Nat /\ (s # << >> => Len(s) # 0)
  BY LenProperties, EmptySeq
<1>2. /\ s \o t \in Seq(S) /\ Len(s \o t) = Len(s) + Len(t)
      /\ \A i \in 1 .. Len(s) + Len(t) : (s \o t)[i] = IF i <= Len(s) THEN s[i] ELSE t[i - Len(s)]
  BY ConcatProperties
<1>3. s # << >> => (s \o t)[1] = s[1]
  BY <1>1, <1>2
<1>4. s \o t = << >> => s = << >> /\ t = << >>
  <2>1. s = << >> => s \o t = t
    BY ConcatEmptySeq
  <2> QED
    BY <1>1, <1>2, <2>1, EmptySeq
<1> QED
  BY <1>2, <1>3, <1>4, ConcatEmptySeq

LEMMA LastOfTwo ==
  ASSUME NEW S, NEW s \in Seq(S), NEW t \in Seq(S), t # << >>
  PROVE  s \o t # << >> /\ (s \o t)[Len(s \o t)] = t[Len(t)]
<1>1. Len(s) \in Nat /\ Len(t) \in Nat /\ Len(t) # 0
  BY LenProperties, EmptySeq
<1>2. /\ s \o t \in Seq(S) /\ Len(s \o t) = Len(s) + Len(t)
      /\ \A i \in 1 .. Len(s) + Len(t) : (s \o t)[i] = IF i <= Len(s) THEN s[i] ELSE t[i - Len(s)]
  BY ConcatProperties
<1>3. \A m, n \in Nat : n # 0 => m + n \in 1 .. m + n /\ ~(m + n <= m) /\ m + n - m = n
  OBVIOUS
<1>4. /\ Len(s) + Len(t) \in 1 .. Len(s) + Len(t) /\ ~(Len(s) + Len(t) <= Len(s))
      /\ Len(s) + Len(t) - Len(s) = Len(t)
  BY <1>1, <1>3, Zenon
<1> QED
  BY <1>1, <1>2, <1>4, FirstOfTwo

(* A sequence cut after n elements. *)
LEMMA CutStream ==
  ASSUME NEW S, NEW s \in Seq(S), NEW n \in 0 .. Len(s)
  PROVE  /\ SubSeq(s, 1, n) \in Seq(S) /\ Len(SubSeq(s, 1, n)) = n
         /\ SubSeq(s, n + 1, Len(s)) \in Seq(S)
         /\ s = SubSeq(s, 1, n) \o SubSeq(s, n + 1, Len(s))
<1>1. Len(s) \in Nat /\ \A i \in 1 .. Len(s) : s[i] \in S
  BY LenProperties, ElementOfSeq
<1>2. SubSeq(s, 1, n) \in Seq(S) /\ Len(SubSeq(s, 1, n)) = n
  <2>1. n \in Int /\ \A i \in 1 .. n : s[i] \in S
    BY <1>1
  <2>2. /\ SubSeq(s, 1, n) \in Seq(S)
        /\ Len(SubSeq(s, 1, n)) = IF 1 <= n THEN n - 1 + 1 ELSE 0
    BY <2>1, SubSeqProperties
  <2> QED
    BY <1>1, <2>2
<1>3. SubSeq(s, n + 1, Len(s)) \in Seq(S)
  <2>1. n + 1 \in Int /\ Len(s) \in Int /\ \A i \in n + 1 .. Len(s) : s[i] \in S
    BY <1>1
  <2> QED
    BY <2>1, SubSeqProperties
<1>4. s = SubSeq(s, 1, Len(s))
  BY SubSeqFull
<1>5. SubSeq(s, 1, n) \o SubSeq(s, n + 1, Len(s)) = SubSeq(s, 1, Len(s))
  <2>1. 1 \in 1 .. Len(s) + 1 /\ n \in 1 - 1 .. Len(s) /\ Len(s) \in n .. Len(s)
    BY <1>1
  <2> QED
    BY <2>1, ConcatAdjacentSubSeq
<1> QED
  BY <1>2, <1>3, <1>4, <1>5, Zenon

LEMMA InThree ==
  ASSUME NEW S, NEW s \in Seq(S), NEW t \in Seq(S), NEW u \in Seq(S)
  PROVE  (s \o t) \o u = s \o (t \o u)
BY ConcatAssociative, SMTT(30)

-----------------------------------------------------------------------------
(* The inductive invariant of the connections. *)

Connections == Seq([port : PortSet, run : 1 .. MaxRuns])

(* Who listens runs, and every connection is to a run there has been.      *)
RunsKnown ==
  /\ up => run # 0
  /\ listening # {} => up
  /\ \A c \in 1 .. Len(conns) : conns[c].run <= run

(* What the device has accepted is a connection to this run. *)
AcceptedKnown ==
  \A p \in PortSet :
    accepted[p] # 0 =>
      /\ up
      /\ accepted[p] \in 1 .. Len(conns)
      /\ conns[accepted[p]].run = run /\ conns[accepted[p]].port = p

SocketsKnown ==
  /\ closed \subseteq 1 .. Len(conns)
  /\ \A p \in PortSet :
       /\ sock[p] \in 0 .. Len(conns)
       /\ sock[p] # 0 => conns[sock[p]].port = p

(* read_data has connected to this port since it last started over. *)
Past(p) ==
  \/ host = "recv"
  \/ host = "clear" /\ p = "log"
  \/ host = "connect" /\ \E i \in 1 .. next - 1 : Ports[i] = p

InTurn ==
  /\ host # "connect" => next = 1
  /\ \A p \in PortSet : Past(p) => connected[p] /\ sock[p] # 0
  /\ \A p \in PortSet \cap {"log", "in"} : connected[p] => Past(p)

LinkInv ==
  LinkTypeOK /\ Len(conns) <= MaxConns /\ RunsKnown /\ AcceptedKnown /\ SocketsKnown /\ InTurn

(* What a step does to the connections. *)
LinkStep ==
  \/ DeviceStart \/ DeviceExit
  \/ \E p \in PortSet : Listen(p) \/ Accept(p) \/ HostConnect(p) \/ HostRetry(p)
  \/ HostClear \/ HostLost
  \/ UNCHANGED link

LEMMA ConnectionFacts ==
  ASSUME LinkTypeOK
  PROVE  /\ conns \in Connections /\ Len(conns) \in Nat /\ DOMAIN conns = 1 .. Len(conns)
         /\ \A c \in 1 .. Len(conns) : conns[c] \in [port : PortSet, run : 1 .. MaxRuns]
<1>1. conns \in Connections
  BY DEF LinkTypeOK, Connections
<1> QED
  BY <1>1, LenProperties, ElementOfSeq DEF Connections

LEMMA NoneTypes == None \in [PortSet -> 0 .. MaxConns] /\ \A p \in PortSet : None[p] = 0
BY LinksAssumption DEF None

LEMMA InitLinkInv == LinkInit => LinkInv
<1> SUFFICES ASSUME LinkInit PROVE LinkInv
  OBVIOUS
<1> USE DEF LinkInit
<1>1. Len(conns) = 0 /\ conns \in Seq([port : PortSet, run : 1 .. MaxRuns])
  OBVIOUS
<1>2. LinkTypeOK
  <2>1. 0 \in 0 .. MaxRuns /\ 1 \in 1 .. Len(Ports)
    BY PortsInOrder, LinksAssumption
  <2>2. up \in BOOLEAN /\ connected \in [PortSet -> BOOLEAN]
    BY Zenon
  <2> QED
    BY <1>1, <2>1, <2>2, NoneTypes, Zenon DEF LinkTypeOK
<1>3. InTurn
  <2>1. \A p \in PortSet : ~Past(p)
    BY DEF Past
  <2> QED
    BY <2>1 DEF InTurn
<1> QED
  BY <1>1, <1>2, <1>3, NoneTypes, LinksAssumption
     DEF LinkInv, RunsKnown, AcceptedKnown, SocketsKnown

(* What stays as it is when the connections grow. *)
LEMMA ConnsGrow ==
  ASSUME LinkInv, LinkStep
  PROVE  /\ conns' \in Connections /\ Len(conns') \in Nat /\ Len(conns') >= Len(conns)
         /\ Len(conns') <= MaxConns
         /\ \A c \in 1 .. Len(conns) : conns'[c] = conns[c]
         /\ \A c \in 1 .. Len(conns') : c \notin 1 .. Len(conns) => conns'[c].run = run /\ run' = run
<1>0. conns \in Connections /\ Len(conns) \in Nat /\ Len(conns) <= MaxConns
  BY ConnectionFacts DEF LinkInv
<1>1. CASE \E p \in PortSet : HostConnect(p)
  <2>1. PICK p \in PortSet : HostConnect(p)
    BY <1>1
  <2> DEFINE new == [port |-> p, run |-> run]
  <2>2. /\ p \in listening /\ Len(conns) < MaxConns /\ run' = run
        /\ conns' = Append(conns, new)
    BY <2>1 DEF HostConnect, device
  <2>3. new \in [port : PortSet, run : 1 .. MaxRuns] /\ new.run = run
    BY <2>2, LinksAssumption DEF LinkInv, RunsKnown, LinkTypeOK
  <2> HIDE DEF new
  <2>4. /\ conns' \in Connections /\ Len(conns') = Len(conns) + 1
        /\ conns'[Len(conns) + 1] = new
        /\ \A c \in 1 .. Len(conns) : conns'[c] = conns[c]
    BY <1>0, <2>2, <2>3, AppendProperties DEF Connections
  <2>5. MaxConns \in Nat
    BY LinksAssumption
  <2>6. \A c \in 1 .. Len(conns') : c \notin 1 .. Len(conns) => c = Len(conns) + 1
    BY <1>0, <2>4
  <2> QED
    BY <1>0, <2>2, <2>3, <2>4, <2>5, <2>6
<1>2. CASE ~\E p \in PortSet : HostConnect(p)
  <2>1. UNCHANGED conns
    BY <1>2 DEF LinkStep, DeviceStart, DeviceExit, Listen, Accept, HostRetry, HostClear,
       HostLost, link, client
  <2> QED
    BY <1>0, <2>1
<1> QED
  BY <1>1, <1>2

Oldest(p) == CHOOSE c \in Waiting(p) : \A d \in Waiting(p) : c <= d

LEMMA OldestWaits ==
  ASSUME conns \in Connections, NEW p, Waiting(p) # {}
  PROVE  Oldest(p) \in Waiting(p)
<1> DEFINE Less == {ss \in Nat \X Nat : ss[1] < ss[2]}
<1>1. IsWellFoundedOn(Less, Nat)
  BY NatLessThanWellFounded DEF OpToRel
<1>2. Waiting(p) \subseteq Nat
  BY DEF Waiting, Connections
<1> HIDE DEF Less
<1>3. PICK c \in Waiting(p) : \A d \in Waiting(p) : <<d, c>> \notin Less
  BY <1>1, <1>2, WFMin, Zenon
<1> USE DEF Less
<1>4. ASSUME NEW d \in Waiting(p) PROVE c <= d
  <2>1. <<d, c>> \in Nat \X Nat
    BY <1>2
  <2>2. ~(d < c)
    BY <1>3, <2>1
  <2> QED
    BY <1>2, <2>2
<1> QED
  BY <1>4 DEF Oldest

LEMMA LinkStepKeepsRuns ==
  ASSUME LinkInv, LinkStep
  PROVE  /\ run' \in 0 .. MaxRuns /\ up' \in BOOLEAN /\ listening' \subseteq PortSet
         /\ RunsKnown'
<1>0. /\ run \in 0 .. MaxRuns /\ up \in BOOLEAN /\ listening \subseteq PortSet /\ MaxRuns \in Nat
      /\ up => run # 0
      /\ listening # {} => up
      /\ \A c \in 1 .. Len(conns) : conns[c].run <= run /\ conns[c].run \in Nat
      /\ Len(conns) \in Nat
  <2>1. LinkTypeOK /\ RunsKnown /\ MaxRuns \in Nat
    BY LinksAssumption DEF LinkInv
  <2>2. /\ Len(conns) \in Nat
        /\ \A c \in 1 .. Len(conns) : conns[c] \in [port : PortSet, run : 1 .. MaxRuns]
    BY <2>1, ConnectionFacts
  <2>3. \A c \in 1 .. Len(conns) : conns[c].run \in Nat
    BY <2>1, <2>2
  <2> QED
    BY <2>1, <2>2, <2>3, Zenon DEF RunsKnown, LinkTypeOK
<1>1. CASE DeviceStart
  <2>1. /\ ~up /\ run < MaxRuns /\ up' = TRUE /\ run' = run + 1
        /\ UNCHANGED <<listening, conns>>
    BY <1>1 DEF DeviceStart, client
  <2>2. run' \in 1 .. MaxRuns /\ \A c \in 1 .. Len(conns) : conns[c].run <= run'
    BY <1>0, <2>1
  <2> QED
    BY <1>0, <2>1, <2>2 DEF RunsKnown
<1>2. CASE DeviceExit
  BY <1>0, <1>2 DEF DeviceExit, client, RunsKnown
<1>3. CASE \E p \in PortSet : Listen(p)
  BY <1>0, <1>3 DEF Listen, client, RunsKnown
<1>4. CASE \E p \in PortSet : HostConnect(p)
  <2>1. UNCHANGED <<up, run, listening>>
    BY <1>4 DEF HostConnect, device
  <2>2. \A c \in 1 .. Len(conns') : conns'[c].run <= run
    BY <1>0, ConnsGrow
  <2> QED
    BY <1>0, <2>1, <2>2 DEF RunsKnown
<1>5. CASE \/ \E p \in PortSet : Accept(p) \/ HostRetry(p)
           \/ HostClear \/ HostLost \/ UNCHANGED link
  <2>1. UNCHANGED <<up, run, listening, conns>>
    BY <1>5 DEF Accept, HostRetry, HostClear, HostLost, link, device, client
  <2> QED
    BY <1>0, <2>1 DEF RunsKnown
<1> QED
  BY <1>1, <1>2, <1>3, <1>4, <1>5 DEF LinkStep

LEMMA LinkStepKeepsAccepted ==
  ASSUME LinkInv, LinkStep
  PROVE  accepted' \in [PortSet -> 0 .. MaxConns] /\ AcceptedKnown'
<1>0. /\ accepted \in [PortSet -> 0 .. MaxConns] /\ MaxConns \in Nat
      /\ conns \in Connections /\ Len(conns) \in Nat /\ Len(conns) <= MaxConns
      /\ AcceptedKnown
  BY ConnectionFacts, LinksAssumption DEF LinkInv, LinkTypeOK
<1>1. CASE DeviceStart \/ DeviceExit
  <2>1. \A p \in PortSet : accepted'[p] = 0
    BY <1>0, <1>1, NoneTypes DEF DeviceStart, DeviceExit, AcceptedKnown
  <2>2. accepted' \in [PortSet -> 0 .. MaxConns]
    BY <1>0, <1>1, NoneTypes DEF DeviceStart, DeviceExit
  <2> QED
    BY <2>1, <2>2 DEF AcceptedKnown
<1>2. CASE \E p \in PortSet : Accept(p)
  <2>1. PICK p \in PortSet : Accept(p)
    BY <1>2
  <2>2. /\ up /\ Waiting(p) # {} /\ UNCHANGED <<up, run, conns>>
        /\ accepted' = [accepted EXCEPT ![p] = Oldest(p)]
    BY <2>1 DEF Accept, Oldest, client
  <2>3. Oldest(p) \in Waiting(p)
    BY <1>0, <2>2, OldestWaits
  <2>4. /\ Oldest(p) \in 1 .. Len(conns)
        /\ conns[Oldest(p)].run = run /\ conns[Oldest(p)].port = p
    BY <1>0, <2>3, LenProperties DEF Waiting, Connections
  <2> QED
    BY <1>0, <2>2, <2>4 DEF AcceptedKnown
<1>3. CASE \/ \E p \in PortSet : Listen(p) \/ HostConnect(p) \/ HostRetry(p)
           \/ HostClear \/ HostLost \/ UNCHANGED link
  <2>1. UNCHANGED <<up, run, accepted>>
    BY <1>3 DEF Listen, HostConnect, HostRetry, HostClear, HostLost, link, device
  <2>2. \A c \in 1 .. Len(conns) : c \in 1 .. Len(conns') /\ conns'[c] = conns[c]
    BY <1>0, ConnsGrow
  <2> QED
    BY <1>0, <2>1, <2>2 DEF AcceptedKnown
<1> QED
  BY <1>1, <1>2, <1>3 DEF LinkStep

LEMMA LinkStepKeepsSockets ==
  ASSUME LinkInv, LinkStep
  PROVE  /\ sock' \in [PortSet -> 0 .. MaxConns] /\ closed' \subseteq 1 .. MaxConns
         /\ SocketsKnown'
<1>0. /\ sock \in [PortSet -> 0 .. MaxConns] /\ MaxConns \in Nat
      /\ Len(conns) \in Nat /\ Len(conns) <= MaxConns
      /\ SocketsKnown
  BY ConnectionFacts, LinksAssumption DEF LinkInv, LinkTypeOK
<1>1. /\ Len(conns') \in Nat /\ Len(conns') >= Len(conns) /\ Len(conns') <= MaxConns
      /\ \A c \in 1 .. Len(conns) : c \in 1 .. Len(conns') /\ conns'[c] = conns[c]
  BY <1>0, ConnsGrow
<1>2. CASE \E p \in PortSet : HostConnect(p) \/ HostRetry(p)
  <2>1. PICK p \in PortSet : HostConnect(p) \/ HostRetry(p)
    BY <1>2
  <2>2. Leave(p)
    BY <2>1 DEF HostConnect, HostRetry
  <2>3. closed' \subseteq 1 .. Len(conns)
    <3>1. sock[p] \in 0 .. Len(conns) /\ closed \subseteq 1 .. Len(conns)
      BY <1>0 DEF SocketsKnown
    <3>2. closed' = closed \/ (sock[p] # 0 /\ closed' = closed \cup {sock[p]})
      BY <2>2 DEF Leave
    <3>3. \A c \in closed' : c \in closed \/ (c = sock[p] /\ sock[p] # 0)
      BY <3>2
    <3>4. sock[p] # 0 => sock[p] \in 1 .. Len(conns)
      BY <1>0, <3>1
    <3> QED
      BY <3>1, <3>3, <3>4
  <2>4. PICK s \in 0 .. Len(conns') : sock' = [sock EXCEPT ![p] = s]
                                  /\ (s # 0 => conns'[s].port = p)
    <3>1. CASE HostRetry(p)
      <4>1. sock' = [sock EXCEPT ![p] = 0]
        BY <3>1 DEF HostRetry
      <4>2. 0 \in 0 .. Len(conns')
        BY <1>1
      <4> QED
        BY <4>1, <4>2
    <3>2. CASE HostConnect(p)
      <4>1. /\ conns' = Append(conns, [port |-> p, run |-> run])
            /\ sock' = [sock EXCEPT ![p] = Len(conns')]
        BY <3>2 DEF HostConnect
      <4>2. conns'[Len(conns')].port = p
        BY <1>0, <4>1, ConnectionFacts DEF LinkInv, Connections
      <4>3. Len(conns') \in 0 .. Len(conns')
        BY <1>1
      <4> QED
        BY <4>1, <4>2, <4>3
    <3> QED
      BY <2>1, <3>1, <3>2
  <2>5. \A q \in PortSet : /\ sock'[q] \in 0 .. Len(conns')
                           /\ sock'[q] # 0 => conns'[sock'[q]].port = q
    <3>1. ASSUME NEW q \in PortSet
          PROVE  sock'[q] \in 0 .. Len(conns') /\ (sock'[q] # 0 => conns'[sock'[q]].port = q)
      <4>1. CASE q = p
        BY <1>0, <2>4, <4>1
      <4>2. CASE q # p
        <5>1. sock'[q] = sock[q] /\ sock[q] \in 0 .. Len(conns)
              /\ (sock[q] # 0 => conns[sock[q]].port = q)
          BY <1>0, <2>4, <4>2 DEF SocketsKnown
        <5> QED
          BY <1>0, <1>1, <5>1
      <4> QED
        BY <4>1, <4>2
    <3> QED
      BY <3>1
  <2>6. sock' \in [PortSet -> 0 .. MaxConns]
    BY <1>0, <1>1, <2>4
  <2> QED
    BY <1>0, <1>1, <2>3, <2>5, <2>6 DEF SocketsKnown
<1>3. CASE \/ DeviceStart \/ DeviceExit
           \/ \E p \in PortSet : Listen(p) \/ Accept(p)
           \/ HostClear \/ HostLost \/ UNCHANGED link
  <2>1. UNCHANGED <<sock, closed>>
    BY <1>3 DEF DeviceStart, DeviceExit, Listen, Accept, HostClear, HostLost, link, client
  <2> QED
    BY <1>0, <1>1, <2>1 DEF SocketsKnown
<1> QED
  BY <1>2, <1>3 DEF LinkStep

(* Entering the i-th port, with all before it connected to. *)
LEMMA EnterTurns ==
  ASSUME NEW i \in 1 .. Len(Ports) + 1, NEW flags \in [PortSet -> BOOLEAN], Enter(i, flags),
         \A j \in 1 .. i - 1 : flags[Ports[j]] /\ sock'[Ports[j]] # 0,
         \A p \in PortSet \cap {"log", "in"} : flags[p] => \E j \in 1 .. i - 1 : Ports[j] = p
  PROVE  /\ host' \in {"connect", "clear", "recv"} /\ next' \in 1 .. Len(Ports)
         /\ connected' \in [PortSet -> BOOLEAN]
         /\ InTurn'
<1>0. /\ Len(Ports) \in Nat \ {0}
      /\ \A j, k \in 1 .. Len(Ports) : Ports[j] = Ports[k] => j = k
      /\ \A p \in PortSet : \E j \in 1 .. Len(Ports) : Ports[j] = p
  BY PortsInOrder
<1>1. CASE i > Len(Ports)
  <2>1. host' = "recv" /\ next' = 1 /\ connected' = flags /\ i = Len(Ports) + 1
    BY <1>0, <1>1 DEF Enter
  <2>2. \A p \in PortSet : connected'[p] /\ sock'[p] # 0
    BY <1>0, <2>1
  <2> QED
    BY <1>0, <2>1, <2>2 DEF InTurn, Past
<1>2. CASE ~(i > Len(Ports))
  <2>1. /\ host' = "connect" /\ next' = i /\ i \in 1 .. Len(Ports)
        /\ connected' = [flags EXCEPT ![Ports[i]] = FALSE]
    BY <1>0, <1>2 DEF Enter
  <2>2. connected' \in [PortSet -> BOOLEAN] /\ \A p \in PortSet : connected'[p] => flags[p]
    BY <2>1
  <2>3. \A p \in PortSet : Past(p)' <=> \E j \in 1 .. i - 1 : Ports[j] = p
    BY <2>1 DEF Past
  <2>4. \A j \in 1 .. i - 1 : connected'[Ports[j]]
    <3>1. \A j \in 1 .. i - 1 : Ports[j] # Ports[i] /\ Ports[j] \in PortSet
      BY <1>0, <2>1, PortsInOrder
    <3> QED
      BY <2>1, <3>1
  <2>5. \A p \in PortSet : Past(p)' => connected'[p] /\ sock'[p] # 0
    BY <2>3, <2>4
  <2>6. \A p \in PortSet \cap {"log", "in"} : connected'[p] => Past(p)'
    BY <2>2, <2>3
  <2> QED
    BY <2>1, <2>2, <2>5, <2>6 DEF InTurn
<1> QED
  BY <1>1, <1>2

LEMMA LinkStepKeepsTurn ==
  ASSUME LinkInv, LinkStep
  PROVE  /\ host' \in {"connect", "clear", "recv"} /\ next' \in 1 .. Len(Ports)
         /\ connected' \in [PortSet -> BOOLEAN]
         /\ InTurn'
<1>0. /\ host \in {"connect", "clear", "recv"} /\ next \in 1 .. Len(Ports)
      /\ connected \in [PortSet -> BOOLEAN]
      /\ sock \in [PortSet -> 0 .. MaxConns] /\ MaxConns \in Nat
      /\ InTurn
  BY LinksAssumption DEF LinkInv, LinkTypeOK
<1>01. /\ Len(Ports) \in Nat \ {0} /\ Ports[1] = "log" /\ Ports[next] \in PortSet
       /\ \A j, k \in 1 .. Len(Ports) : Ports[j] = Ports[k] => j = k
       /\ \A j \in 1 .. Len(Ports) : Ports[j] \in PortSet
       /\ "log" \in PortSet
  BY <1>0, PortsInOrder, PortsAssumption
<1>1. CASE HostLost
  <2> DEFINE flags == [p \in PortSet |-> p \notin {"log", "in"} /\ connected[p]]
  <2>1. Enter(1, flags) /\ 1 \in 1 .. Len(Ports) + 1
    BY <1>01, <1>1 DEF HostLost
  <2>2. flags \in [PortSet -> BOOLEAN] /\ \A p \in PortSet \cap {"log", "in"} : ~flags[p]
    BY <1>0
  <2> HIDE DEF flags
  <2> QED
    BY <2>1, <2>2, EnterTurns
<1>2. CASE HostClear
  <2>1. host = "clear" /\ UNCHANGED sock /\ Enter(2, connected) /\ 2 \in 1 .. Len(Ports) + 1
    BY <1>0, <1>01, <1>2 DEF HostClear, InTurn
  <2>2. \A p \in PortSet : Past(p) <=> p = "log"
    BY <2>1 DEF Past
  <2>3. \A j \in 1 .. 2 - 1 : connected[Ports[j]] /\ sock'[Ports[j]] # 0
    BY <1>0, <1>01, <2>1, <2>2 DEF InTurn
  <2>4. \A p \in PortSet \cap {"log", "in"} : connected[p] => \E j \in 1 .. 2 - 1 : Ports[j] = p
    BY <1>0, <1>01, <2>2 DEF InTurn
  <2> QED
    BY <1>0, <2>1, <2>3, <2>4, EnterTurns
<1>3. CASE \E p \in PortSet : HostConnect(p)
  <2>1. PICK p \in PortSet : HostConnect(p)
    BY <1>3
  <2> DEFINE flags == [connected EXCEPT ![p] = TRUE]
  <2>2. /\ host = "connect" /\ p = Ports[next]
        /\ sock' = [sock EXCEPT ![p] = Len(conns')]
        /\ IF p = "log" THEN host' = "clear" /\ connected' = flags /\ UNCHANGED next
                        ELSE Enter(next + 1, flags)
    BY <2>1 DEF HostConnect
  <2>3. Len(conns') # 0
    <3>1. conns' = Append(conns, [port |-> p, run |-> run]) /\ Len(conns) \in Nat
      BY <2>1, ConnectionFacts DEF HostConnect, LinkInv
    <3>2. conns \in Connections
      BY ConnectionFacts DEF LinkInv
    <3> QED
      BY <3>1, <3>2 DEF Connections
  <2>4. \A q \in PortSet : Past(q) <=> \E i \in 1 .. next - 1 : Ports[i] = q
    BY <2>2 DEF Past
  <2>5. \A j \in 1 .. (next + 1) - 1 : flags[Ports[j]] /\ sock'[Ports[j]] # 0
    <3>1. ASSUME NEW j \in 1 .. next PROVE flags[Ports[j]] /\ sock'[Ports[j]] # 0
      <4>1. CASE j = next
        BY <1>0, <1>01, <2>2, <2>3, <4>1
      <4>2. CASE j \in 1 .. next - 1
        <5>1. Past(Ports[j]) /\ Ports[j] # p /\ Ports[j] \in PortSet
          BY <1>0, <1>01, <2>2, <2>4, <4>2
        <5> QED
          BY <1>0, <2>2, <5>1 DEF InTurn
      <4> QED
        BY <1>0, <4>1, <4>2
    <3> QED
      BY <1>0, <3>1
  <2>6. \A q \in PortSet \cap {"log", "in"} : flags[q] => \E j \in 1 .. (next + 1) - 1 : Ports[j] = q
    <3>1. ASSUME NEW q \in PortSet \cap {"log", "in"}, flags[q]
          PROVE  \E j \in 1 .. next : Ports[j] = q
      <4>1. CASE q = p
        BY <1>0, <2>2, <4>1
      <4>2. CASE q # p
        <5>1. Past(q)
          BY <1>0, <3>1, <4>2 DEF InTurn
        <5> QED
          BY <1>0, <2>4, <5>1
      <4> QED
        BY <4>1, <4>2
    <3> QED
      BY <1>0, <3>1
  <2>7. flags \in [PortSet -> BOOLEAN] /\ next + 1 \in 1 .. Len(Ports) + 1
    BY <1>0, <1>01
  <2>8. CASE p # "log"
    <3> HIDE DEF flags
    <3>1. Enter(next + 1, flags)
      BY <2>2, <2>8
    <3> QED
      BY <2>5, <2>6, <2>7, <3>1, EnterTurns
  <2>9. CASE p = "log"
    <3> HIDE DEF flags
    <3>0. next = 1
      <4>1. Ports[next] = Ports[1] /\ 1 \in 1 .. Len(Ports)
        BY <1>01, <2>2, <2>9
      <4> QED
        BY <1>0, <1>01, <4>1
    <3>1. next = 1 /\ next' = 1 /\ host' = "clear" /\ connected' = flags
      BY <2>2, <2>9, <3>0
    <3>2. \A q \in PortSet : Past(q)' <=> q = "log"
      BY <3>1 DEF Past
    <3>3. flags["log"] /\ sock'["log"] # 0
      BY <1>01, <2>5, <3>1
    <3>4. \A q \in PortSet \cap {"log", "in"} : flags[q] => q = "log"
      BY <1>01, <2>6, <3>1
    <3> QED
      BY <1>01, <2>7, <3>1, <3>2, <3>3, <3>4 DEF InTurn
  <2> QED
    BY <2>8, <2>9
<1>4. CASE \E p \in PortSet : HostRetry(p)
  <2>1. PICK p \in PortSet : HostRetry(p)
    BY <1>4
  <2>2. /\ host = "connect" /\ p = Ports[next] /\ sock' = [sock EXCEPT ![p] = 0]
        /\ UNCHANGED <<host, next, connected>>
    BY <2>1 DEF HostRetry
  <2>3. \A q \in PortSet : Past(q)' <=> Past(q)
    BY <2>2 DEF Past
  <2>4. ~Past(p)
    BY <1>0, <1>01, <2>2 DEF Past
  <2>5. \A q \in PortSet : Past(q) => sock'[q] = sock[q]
    BY <1>0, <2>2, <2>4
  <2> QED
    BY <1>0, <2>2, <2>3, <2>5 DEF InTurn
<1>5. CASE \/ DeviceStart \/ DeviceExit
           \/ \E p \in PortSet : Listen(p) \/ Accept(p)
           \/ UNCHANGED link
  <2>1. UNCHANGED <<host, next, connected, sock>>
    BY <1>5 DEF DeviceStart, DeviceExit, Listen, Accept, link, client
  <2> QED
    BY <1>0, <2>1 DEF InTurn, Past
<1> QED
  BY <1>1, <1>2, <1>3, <1>4, <1>5 DEF LinkStep

(* The invariant holds whatever the modules that extend HostLink let its   *)
(* actions do.                                                             *)
LEMMA LinkStepKeepsLink == LinkInv /\ LinkStep => LinkInv'
<1> SUFFICES ASSUME LinkInv, LinkStep PROVE LinkInv'
  OBVIOUS
<1>1. LinkTypeOK'
  <2>1. conns' \in Connections
    BY ConnsGrow
  <2> QED
    BY <2>1, LinkStepKeepsRuns, LinkStepKeepsAccepted, LinkStepKeepsSockets, LinkStepKeepsTurn,
       Zenon DEF LinkTypeOK, Connections
<1> QED
  BY <1>1, ConnsGrow, LinkStepKeepsRuns, LinkStepKeepsAccepted, LinkStepKeepsSockets,
     LinkStepKeepsTurn, Zenon DEF LinkInv

-----------------------------------------------------------------------------
(* What read_data's steps do to the ports it has passed. *)

LEMMA ConnectMovesOn ==
  ASSUME LinkInv, NEW p \in PortSet, HostConnect(p)
  PROVE  /\ ~Past(p) /\ (p # "log" => Past("log"))
         /\ \A q \in PortSet : Past(q)' <=> Past(q) \/ q = p
<1>1. host = "connect" /\ p = Ports[next]
  BY DEF HostConnect
<1>2. /\ next \in 1 .. Len(Ports) /\ Len(Ports) \in Nat /\ Ports[1] = "log"
      /\ 1 \in 1 .. Len(Ports)
      /\ \A i, j \in 1 .. Len(Ports) : Ports[i] = Ports[j] => i = j
  BY PortsInOrder DEF LinkInv, LinkTypeOK
<1>3. ~Past(p)
  BY <1>1, <1>2 DEF Past
<1>4. CASE p = "log"
  <2>1. next = 1
    BY <1>1, <1>2, <1>4
  <2>2. host' = "clear"
    BY <1>4 DEF HostConnect
  <2> QED
    BY <1>1, <1>3, <1>4, <2>1, <2>2 DEF Past
<1>5. CASE p # "log"
  <2>1. Past("log")
    <3>1. 1 \in 1 .. next - 1
      BY <1>1, <1>2, <1>5
    <3> QED
      BY <1>1, <1>2, <3>1 DEF Past
  <2>2. Enter(next + 1, [connected EXCEPT ![p] = TRUE])
    BY <1>5 DEF HostConnect
  <2>3. CASE next + 1 > Len(Ports)
    <3>1. next = Len(Ports) /\ host' = "recv"
      BY <1>2, <2>2, <2>3 DEF Enter
    <3>2. ASSUME NEW q \in PortSet, q # p PROVE Past(q)
      <4>1. PICK i \in 1 .. Len(Ports) : Ports[i] = q
        BY PortsInOrder
      <4>2. i \in 1 .. next - 1
        BY <1>1, <1>2, <3>1, <3>2, <4>1
      <4> QED
        BY <1>1, <4>1, <4>2 DEF Past
    <3>3. \A q \in PortSet : Past(q)'
      BY <3>1 DEF Past
    <3> QED
      BY <1>3, <2>1, <3>2, <3>3
  <2>4. CASE ~(next + 1 > Len(Ports))
    <3>1. host' = "connect" /\ next' = next + 1
      BY <2>2, <2>4 DEF Enter
    <3>2. \A i : i \in 1 .. next' - 1 <=> i \in 1 .. next - 1 \/ i = next
      BY <1>2, <3>1
    <3>3. \A q : Past(q)' <=> Past(q) \/ q = p
      BY <1>1, <3>1, <3>2 DEF Past
    <3> QED
      BY <1>3, <2>1, <3>3
  <2> QED
    BY <2>3, <2>4
<1> QED
  BY <1>4, <1>5

LEMMA RetryStays ==
  ASSUME LinkInv, NEW p \in PortSet, HostRetry(p)
  PROVE  ~Past(p) /\ \A q : Past(q)' <=> Past(q)
<1>1. host = "connect" /\ p = Ports[next] /\ UNCHANGED <<host, next>>
  BY DEF HostRetry
<1>2. /\ next \in 1 .. Len(Ports) /\ Len(Ports) \in Nat
      /\ \A i, j \in 1 .. Len(Ports) : Ports[i] = Ports[j] => i = j
  BY PortsInOrder DEF LinkInv, LinkTypeOK
<1>3. ~Past(p)
  BY <1>1, <1>2 DEF Past
<1> QED
  BY <1>1, <1>3 DEF Past

LEMMA ClearMovesOn ==
  ASSUME LinkInv, HostClear
  PROVE  \A q \in PortSet : (Past(q) <=> q = "log") /\ (Past(q)' <=> q = "log")
<1>1. host = "clear" /\ next = 1 /\ Enter(2, connected)
  BY DEF HostClear, LinkInv, InTurn
<1>2. /\ Len(Ports) \in Nat \ {0} /\ Ports[1] = "log"
      /\ \A p \in PortSet : \E i \in 1 .. Len(Ports) : Ports[i] = p
  BY PortsInOrder
<1>3. CASE 2 > Len(Ports)
  <2>1. host' = "recv" /\ Len(Ports) = 1
    BY <1>1, <1>2, <1>3 DEF Enter
  <2>2. \A q \in PortSet : q = "log"
    BY <1>2, <2>1
  <2> QED
    BY <1>1, <2>1, <2>2 DEF Past
<1>4. CASE ~(2 > Len(Ports))
  <2>1. host' = "connect" /\ next' = 2
    BY <1>1, <1>4 DEF Enter
  <2>2. \A i : i \in 1 .. next' - 1 <=> i = 1
    BY <2>1
  <2> QED
    BY <1>1, <1>2, <2>1, <2>2 DEF Past
<1> QED
  BY <1>3, <1>4

LEMMA LostStartsOver ==
  ASSUME HostLost
  PROVE  \A q : Past(q) /\ ~Past(q)'
<1>1. Len(Ports) >= 1 /\ Len(Ports) \in Nat
  BY PortsInOrder
<1>2. host = "recv" /\ host' = "connect" /\ next' = 1
  BY <1>1 DEF HostLost, Enter
<1> QED
  BY <1>2 DEF Past

LEMMA OthersStay ==
  ASSUME UNCHANGED <<host, next>>
  PROVE  \A q : Past(q)' <=> Past(q)
BY DEF Past
=============================================================================
