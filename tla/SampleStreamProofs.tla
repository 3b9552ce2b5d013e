------------------------- MODULE SampleStreamProofs -------------------------
(***************************************************************************)
(* Theorems about SampleStream, for any number of runs, connections and    *)
(* frames, frames and buffers of any size, and streams cut in any way: the *)
(* types, and that the samples the host shows stay in step with the frames *)
(* the program played.  The inductive invariant says that what a reader    *)
(* has got, what is on its way to it and what is in the send buffer are,   *)
(* one after the other, the words of consecutive frames.                   *)
(***************************************************************************)
EXTENDS SampleStream, HostLinkProofs

-----------------------------------------------------------------------------
(* Words that follow each other. *)

After(word) ==
  IF word.part = FRAME_WORDS THEN [word EXCEPT !.frame = @ + 1, !.part = 0]
                             ELSE [word EXCEPT !.part = @ + 1]

Chain(words) == \A i \in 1 .. Len(words) - 1 : words[i + 1] = After(words[i])

LEMMA EmptyChain == Chain(<< >>)
BY EmptySeq DEF Chain

LEMMA AfterLast ==
  \A r, f : After([run |-> r, frame |-> f, part |-> FRAME_WORDS]) =
              [run |-> r, frame |-> f + 1, part |-> 0]
BY DEF After

LEMMA AfterTag ==
  \A r, f : After([run |-> r, frame |-> f, part |-> 0]) = [run |-> r, frame |-> f, part |-> 1]
BY StreamAssumption DEF After

LEMMA WordsInThree ==
  ASSUME NEW s \in Seq(Words), NEW t \in Seq(Words), NEW u \in Seq(Words)
  PROVE  (s \o t) \o u = s \o (t \o u)
BY InThree, SMTT(30)

LEMMA ChainJoins ==
  ASSUME NEW s \in Seq(Words), NEW t \in Seq(Words), Chain(s), Chain(t),
         s # << >> /\ t # << >> => t[1] = After(s[Len(s)])
  PROVE  Chain(s \o t)
<1>1. Len(s) \in Nat /\ Len(t) \in Nat
  BY LenProperties
<1>2. /\ Len(s \o t) = Len(s) + Len(t)
      /\ \A i \in 1 .. Len(s) + Len(t) : (s \o t)[i] = IF i <= Len(s) THEN s[i] ELSE t[i - Len(s)]
  BY ConcatProperties
<1>3. /\ \A i \in 1 .. Len(s) - 1 : s[i + 1] = After(s[i])
      /\ \A i \in 1 .. Len(t) - 1 : t[i + 1] = After(t[i])
  BY DEF Chain
<1> SUFFICES ASSUME NEW i \in 1 .. Len(s \o t) - 1
             PROVE  (s \o t)[i + 1] = After((s \o t)[i])
  BY DEF Chain
<1>4. i \in 1 .. Len(s) + Len(t) /\ i + 1 \in 1 .. Len(s) + Len(t)
  BY <1>1, <1>2
<1>5. CASE i < Len(s)
  <2>1. (s \o t)[i + 1] = s[i + 1] /\ (s \o t)[i] = s[i]
    BY <1>1, <1>2, <1>4, <1>5
  <2> QED
    BY <1>1, <1>3, <1>4, <1>5, <2>1
<1>6. CASE i = Len(s)
  <2>1. (s \o t)[i + 1] = t[1] /\ (s \o t)[i] = s[Len(s)]
    BY <1>1, <1>2, <1>4, <1>6
  <2>2. s # << >> /\ t # << >>
    BY <1>1, <1>4, <1>6
  <2> QED
    BY <2>1, <2>2
<1>7. CASE i > Len(s)
  <2>1. (s \o t)[i + 1] = t[i - Len(s) + 1] /\ (s \o t)[i] = t[i - Len(s)]
    BY <1>1, <1>2, <1>4, <1>7
  <2>2. i - Len(s) \in 1 .. Len(t) - 1
    BY <1>1, <1>2, <1>7
  <2> QED
    BY <1>3, <2>1, <2>2
<1> QED
  BY <1>1, <1>4, <1>5, <1>6, <1>7

LEMMA ChainSplits ==
  ASSUME NEW s \in Seq(Words), NEW t \in Seq(Words), Chain(s \o t)
  PROVE  /\ Chain(s) /\ Chain(t)
         /\ s # << >> /\ t # << >> => t[1] = After(s[Len(s)])
<1>1. Len(s) \in Nat /\ Len(t) \in Nat
  BY LenProperties
<1>2. /\ Len(s \o t) = Len(s) + Len(t)
      /\ \A i \in 1 .. Len(s) + Len(t) : (s \o t)[i] = IF i <= Len(s) THEN s[i] ELSE t[i - Len(s)]
  BY ConcatProperties
<1>3. \A i \in 1 .. Len(s) + Len(t) - 1 : (s \o t)[i + 1] = After((s \o t)[i])
  BY <1>2 DEF Chain
<1>4. ASSUME NEW i \in 1 .. Len(s) - 1
      PROVE  s[i + 1] = After(s[i])
  <2>1. /\ i \in 1 .. Len(s) + Len(t) - 1 /\ i \in 1 .. Len(s) + Len(t)
        /\ i + 1 \in 1 .. Len(s) + Len(t) /\ i <= Len(s) /\ i + 1 <= Len(s)
    BY <1>1
  <2> QED
    BY <1>2, <1>3, <2>1
<1>5. ASSUME NEW i \in 1 .. Len(t) - 1
      PROVE  t[i + 1] = After(t[i])
  <2> DEFINE j == i + Len(s)
  <2>1. /\ j \in 1 .. Len(s) + Len(t) - 1 /\ j \in 1 .. Len(s) + Len(t)
        /\ j + 1 \in 1 .. Len(s) + Len(t) /\ ~(j <= Len(s)) /\ ~(j + 1 <= Len(s))
        /\ j - Len(s) = i /\ j + 1 - Len(s) = i + 1
    BY <1>1
  <2> QED
    BY <1>2, <1>3, <2>1
<1>6. ASSUME s # << >>, t # << >>
      PROVE  t[1] = After(s[Len(s)])
  <2>1. Len(s) # 0 /\ Len(t) # 0
    BY <1>1, <1>6
  <2>2. /\ Len(s) \in 1 .. Len(s) + Len(t) - 1 /\ Len(s) \in 1 .. Len(s) + Len(t)
        /\ Len(s) + 1 \in 1 .. Len(s) + Len(t) /\ ~(Len(s) + 1 <= Len(s))
        /\ Len(s) + 1 - Len(s) = 1
    BY <1>1, <2>1
  <2> QED
    BY <1>2, <1>3, <2>2
<1> QED
  BY <1>4, <1>5, <1>6 DEF Chain

-----------------------------------------------------------------------------
(* The words of a frame. *)

LEMMA Sizes ==
  /\ FRAME_WORDS \in Nat /\ FRAME_WORDS > 1 /\ "in" \in PortSet
  /\ SEND_BUFFER_SIZE \in Nat /\ SEND_BUFFER_SIZE >= FRAME_WORDS + 1
  /\ MaxFrames \in Nat /\ MaxRuns \in Nat /\ MaxConns \in Nat
BY StreamAssumption, LinksAssumption

LEMMA RecordIsChain ==
  ASSUME run \in 1 .. MaxRuns, NEW f \in 1 .. MaxFrames
  PROVE  /\ Record(f) \in Seq(Words) /\ Len(Record(f)) = FRAME_WORDS + 1 /\ Chain(Record(f))
         /\ Record(f) # << >> /\ Record(f)[1] = Word(f, 0)
         /\ Record(f)[Len(Record(f))] = Word(f, FRAME_WORDS)
<1> DEFINE n == FRAME_WORDS + 1
<1>1. n \in Nat /\ \A i \in 1 .. n : i - 1 \in 0 .. FRAME_WORDS
  BY Sizes
<1>2. \A i \in 0 .. FRAME_WORDS : Word(f, i) \in Words
  BY DEF Word, Words
<1>3. Record(f) \in [1 .. n -> Words] /\ \A i \in 1 .. n : Record(f)[i] = Word(f, i - 1)
  BY <1>1, <1>2 DEF Record
<1>4. Record(f) \in Seq(Words) /\ Len(Record(f)) = n
  BY <1>1, <1>3, SeqDef
<1>5. Record(f)[1] = Word(f, 0) /\ Record(f)[n] = Word(f, FRAME_WORDS) /\ Record(f) # << >>
  BY <1>1, <1>3, <1>4, Sizes, EmptySeq
<1>6. ASSUME NEW i \in 1 .. n - 1
      PROVE  Record(f)[i + 1] = After(Record(f)[i])
  <2>1. Record(f)[i] = Word(f, i - 1) /\ Record(f)[i + 1] = Word(f, i)
    BY <1>1, <1>3
  <2>2. i - 1 # FRAME_WORDS /\ i - 1 + 1 = i
    BY <1>1, Sizes
  <2> QED
    BY <2>1, <2>2 DEF Word, After
<1> QED
  BY <1>4, <1>5, <1>6 DEF Chain

LEMMA FrameAfterFrame == \A f : After(Word(f, FRAME_WORDS)) = Word(f + 1, 0)
BY DEF After, Word

-----------------------------------------------------------------------------
(* What is on its way to a reader of connection c. *)

Unsent(c) == IF EthIface /\ c = accepted["in"] /\ c \notin closed THEN sendbuf ELSE << >>
Stream(c) == wire[c] \o Unsent(c)

(* The send buffer holds whole frames, up to the one just played.          *)
Buffered ==
  /\ frames = 0 => sendbuf = << >>
  /\ frames # 0 => /\ sendbuf # << >> /\ sendbuf[1].part = 0
                   /\ sendbuf[Len(sendbuf)] = Word(frames, FRAME_WORDS)
  /\ Chain(sendbuf)

(* Only the connection that was accepted has carried anything. *)
OnTheWire ==
  \A c \in 1 .. MaxConns :
    /\ Chain(Stream(c))
    /\ wire[c] # << >> => /\ c \in 1 .. Len(conns)
                          /\ ~Dead(c) => c = accepted["in"] /\ frames # 0

(* No reader has more than it wants. *)
ReadersSane ==
  \A r \in DOMAIN readers :
    /\ readers[r].at = "recv" => readers[r].conn \in 1 .. Len(conns)
    /\ Len(readers[r].got) < readers[r].want

(* What a reader has got and what is to come continue what is shown: a tag *)
(* is wanted, or the samples of the frame whose tag has come.              *)
InStep(shown, got, want, rest) ==
  LET words == got \o rest
      last  == shown[Len(shown)][FRAME_WORDS] IN
    /\ Chain(words)
    /\ words # << >> =>
         /\ want = FRAME_WORDS => words[1].part = 1
         /\ shown # << >> =>
              words[1] = IF want = 1 THEN After(last) ELSE After(After(last))

(* The connection a reader waits on, or will call recv with. *)
Source(r) == IF readers[r].at = "recv" THEN readers[r].conn ELSE sock["in"]

ReaderInStep(r) ==
  Running(r) /\ Source(r) # 0 =>
    /\ sock["in"] \in {0, Source(r)}
    /\ (waveform # << >> \/ readers[r].want = FRAME_WORDS) /\ ~Dead(Source(r)) =>
         Source(r) = accepted["in"] /\ frames # 0
    /\ InStep(waveform, readers[r].got, readers[r].want, Stream(Source(r)))

ReadersInStep ==
  ~crowded =>
    \A r \in DOMAIN readers : (Running(r) => r = Len(readers)) /\ ReaderInStep(r)

(* Between clear_data and the new connection, a frame of the old one can   *)
(* still be shown; its reader then waits for the next one, and crowds it.  *)
Cleared ==
  ~crowded /\ host = "connect" /\ Past("log") /\ ~Past("in") =>
    waveform = << >> \/ (readers # << >> /\ readers[Len(readers)].at = "test")

SampleInv ==
  /\ LinkInv /\ TypeOK /\ Buffered /\ OnTheWire
  /\ ReadersSane /\ ReadersInStep /\ Cleared /\ WaveformInStep

LEMMA StreamTypes ==
  ASSUME TypeOK, NEW c \in 1 .. MaxConns
  PROVE  /\ wire[c] \in Seq(Words) /\ Unsent(c) \in Seq(Words) /\ Stream(c) \in Seq(Words)
         /\ Unsent(c) \in {sendbuf, << >>}
<1>1. wire[c] \in Seq(Words) /\ sendbuf \in Seq(Words) /\ << >> \in Seq(Words)
  BY EmptySeq DEF TypeOK
<1>2. Unsent(c) \in {sendbuf, << >>} /\ Unsent(c) \in Seq(Words)
  BY <1>1 DEF Unsent
<1> QED
  BY <1>1, <1>2, FirstOfTwo DEF Stream

LEMMA ReaderTypes ==
  ASSUME TypeOK
  PROVE  /\ Len(readers) \in Nat /\ DOMAIN readers = 1 .. Len(readers)
         /\ \A r \in DOMAIN readers :
              /\ readers[r] \in [at : {"test", "call", "recv", "done"}, conn : 0 .. MaxConns,
                               want : {1, FRAME_WORDS}, got : Seq(Words)]
              /\ readers[r].at \in {"test", "call", "recv", "done"}
              /\ readers[r].conn \in 0 .. MaxConns
              /\ readers[r].want \in {1, FRAME_WORDS}
              /\ readers[r].got \in Seq(Words) /\ Len(readers[r].got) \in Nat
<1> DEFINE Readers == [at : {"test", "call", "recv", "done"}, conn : 0 .. MaxConns,
                       want : {1, FRAME_WORDS}, got : Seq(Words)]
<1>1. readers \in Seq(Readers)
  BY DEF TypeOK
<1>2. \A x \in Readers : Len(x.got) \in Nat
  BY LenProperties
<1>3. Len(readers) \in Nat /\ DOMAIN readers = 1 .. Len(readers)
  BY <1>1, LenProperties, Zenon
<1>4. \A r \in DOMAIN readers : readers[r] \in Readers
  BY <1>1, <1>3, ElementOfSeq
<1> QED
  BY <1>2, <1>3, <1>4

LEMMA InitSampleInv == Init => SampleInv
<1> SUFFICES ASSUME Init PROVE SampleInv
  OBVIOUS
<1>1. LinkInv
  BY InitLinkInv DEF Init
<1>2. << >> \in Seq(Words) /\ wire \in [1 .. MaxConns -> Seq(Words)]
      /\ \A c \in 1 .. MaxConns : wire[c] = << >>
  BY EmptySeq DEF Init
<1>3. TypeOK
  <2>1. \A S : << >> \in Seq(S)
    BY EmptySeq
  <2>2. Len(sendbuf) = 0
    BY EmptySeq DEF Init
  <2>3. readers = << >> /\ waveform = << >> /\ sendbuf = << >> /\ frames = 0 /\ crowded = FALSE
    BY DEF Init
  <2>4. frames \in 0 .. MaxFrames /\ Len(sendbuf) <= SEND_BUFFER_SIZE
    BY <2>2, <2>3, Sizes
  <2> QED
    BY <1>1, <1>2, <2>1, <2>3, <2>4, Zenon DEF TypeOK, LinkInv
<1>4. Buffered
  BY EmptyChain DEF Init, Buffered
<1>5. OnTheWire
  <2>1. \A c \in 1 .. MaxConns : Stream(c) = << >> \o << >>
    BY <1>2 DEF Stream, Unsent, Init
  <2>2. << >> \o << >> = << >>
    BY <1>2, ConcatEmptySeq
  <2> QED
    BY <1>2, <2>1, <2>2, EmptyChain DEF OnTheWire
<1>6. ReadersSane /\ ReadersInStep
  BY DEF Init, ReadersSane, ReadersInStep
<1>7. Cleared /\ WaveformInStep
  BY DEF Init, Cleared, WaveformInStep
<1> QED
  BY <1>1, <1>3, <1>4, <1>5, <1>6, <1>7 DEF SampleInv

-----------------------------------------------------------------------------
(* A stream that gets shorter or longer. *)

LEMMA NoMore ==
  ASSUME NEW s \in Seq(Words)
  PROVE  s = s \o << >> /\ << >> \in Seq(Words)
BY ConcatEmptySeq, EmptySeq

LEMMA InStepShorter ==
  ASSUME NEW shown, NEW g \in Seq(Words), NEW want, NEW t \in Seq(Words), NEW u \in Seq(Words),
         InStep(shown, g, want, t \o u)
  PROVE  InStep(shown, g, want, t)
<1>1. g \o t \in Seq(Words) /\ (g \o t) \o u = g \o (t \o u)
  BY FirstOfTwo, WordsInThree
<1>2. Chain(g \o t)
  BY <1>1, ChainSplits DEF InStep
<1>3. g \o t # << >> => g \o (t \o u) # << >> /\ (g \o (t \o u))[1] = (g \o t)[1]
  BY <1>1, FirstOfTwo
<1> QED
  BY <1>2, <1>3 DEF InStep

LEMMA InStepLonger ==
  ASSUME NEW shown, NEW g \in Seq(Words), NEW want, NEW s \in Seq(Words), NEW u \in Seq(Words),
         InStep(shown, g, want, s), s # << >>, Chain(s \o u)
  PROVE  InStep(shown, g, want, s \o u)
<1>1. g \o s \in Seq(Words) /\ (g \o s) \o u = g \o (s \o u)
  BY FirstOfTwo, WordsInThree
<1>2. g \o s # << >> /\ (g \o s)[Len(g \o s)] = s[Len(s)]
  BY LastOfTwo
<1>3. Chain(u) /\ (u # << >> => u[1] = After(s[Len(s)]))
  BY ChainSplits
<1>4. Chain(g \o s)
  BY DEF InStep
<1>5. Chain((g \o s) \o u)
  BY <1>1, <1>2, <1>3, <1>4, ChainJoins
<1>6. ((g \o s) \o u)[1] = (g \o s)[1]
  BY <1>1, <1>2, FirstOfTwo
<1> QED
  BY <1>1, <1>2, <1>5, <1>6 DEF InStep

LEMMA InStepFresh ==
  ASSUME NEW s \in Seq(Words), Chain(s)
  PROVE  InStep(<< >>, << >>, 1, s)
BY FirstOfTwo, EmptySeq, Sizes DEF InStep

-----------------------------------------------------------------------------
(* The steps that leave the readers alone. *)

(* What is to come on c gets shorter, or what the program sends is added.  *)
StreamGoesOn(c) ==
  /\ ~Dead(c)' => ~Dead(c) /\ (c = accepted["in"] /\ frames # 0 => (c = accepted["in"] /\ frames # 0)')
  /\ \/ \E u \in Seq(Words) : Stream(c) = Stream(c)' \o u
     \/ /\ ~Dead(c)
        /\ c = accepted["in"] /\ frames # 0 => Stream(c) # << >>
        /\ \E u \in Seq(Words) : Stream(c)' = Stream(c) \o u

LEMMA QuietStep ==
  ASSUME SampleInv, TypeOK', OnTheWire', readers' = readers, crowded' = crowded,
         waveform' \in {waveform, << >>}, sock'["in"] \in {sock["in"], 0},
         \A c \in 1 .. Len(conns) : StreamGoesOn(c)
  PROVE  ReadersInStep'
<1>0. /\ ReadersInStep /\ ReadersSane /\ TypeOK /\ OnTheWire
      /\ Len(conns) \in Nat /\ Len(conns) <= MaxConns
      /\ sock["in"] \in 0 .. Len(conns)
  BY ConnectionFacts, Sizes DEF SampleInv, LinkInv, SocketsKnown
<1> SUFFICES ASSUME ~crowded, NEW r \in DOMAIN readers
             PROVE  (Running(r) => r = Len(readers))' /\ ReaderInStep(r)'
  BY DEF ReadersInStep
<1>1. (Running(r) => r = Len(readers)) /\ ReaderInStep(r)
  BY <1>0 DEF ReadersInStep
<1>2. PICK c : c = Source(r)
  OBVIOUS
<1> SUFFICES ASSUME Running(r), Source(r)' # 0 PROVE ReaderInStep(r)'
  BY <1>1 DEF Running, ReaderInStep
<1>3. Source(r)' = c /\ c # 0 /\ (sock["in"] \in {0, c} => sock'["in"] \in {0, c})
  BY <1>2 DEF Source
<1>4. c \in 1 .. Len(conns) /\ c \in 1 .. MaxConns
  BY <1>0, <1>2, <1>3, Sizes DEF Source, ReadersSane
<1> DEFINE g == readers[r].got
           w == readers[r].want
<1>5. g \in Seq(Words) /\ w \in {1, FRAME_WORDS} /\ Len(g) < w
  BY <1>0, ReaderTypes DEF ReadersSane
<1>6. Stream(c) \in Seq(Words) /\ Stream(c)' \in Seq(Words) /\ Chain(Stream(c)')
  <2>1. Stream(c) \in Seq(Words)
    BY <1>0, <1>4, StreamTypes
  <2>2. Stream(c)' \in Seq(Words)
    <3>1. wire'[c] \in Seq(Words) /\ sendbuf' \in Seq(Words) /\ << >> \in Seq(Words)
      BY <1>4, EmptySeq DEF TypeOK
    <3>2. Unsent(c)' \in Seq(Words)
      BY <3>1 DEF Unsent
    <3> QED
      BY <3>1, <3>2, FirstOfTwo DEF Stream
  <2> QED
    BY <1>4, <2>1, <2>2 DEF OnTheWire
<1>7. /\ sock["in"] \in {0, c}
      /\ (waveform # << >> \/ w = FRAME_WORDS) /\ ~Dead(c) => c = accepted["in"] /\ frames # 0
      /\ InStep(waveform, g, w, Stream(c))
  BY <1>1, <1>2, <1>3 DEF ReaderInStep
<1>8. StreamGoesOn(c)
  BY <1>4
<1>9. InStep(waveform, g, w, Stream(c)')
  <2>1. CASE \E u \in Seq(Words) : Stream(c) = Stream(c)' \o u
    BY <1>5, <1>6, <1>7, <2>1, InStepShorter
  <2>2. CASE /\ ~Dead(c)
             /\ c = accepted["in"] /\ frames # 0 => Stream(c) # << >>
             /\ \E u \in Seq(Words) : Stream(c)' = Stream(c) \o u
    <3>1. CASE waveform # << >> \/ w = FRAME_WORDS
      BY <1>5, <1>6, <1>7, <2>2, <3>1, InStepLonger
    <3>2. CASE waveform = << >> /\ w = 1
      <4>1. g = << >>
        BY <1>5, <3>2, EmptySeq
      <4> QED
        BY <1>6, <3>2, <4>1, InStepFresh
    <3> QED
      BY <1>5, <3>1, <3>2
  <2> QED
    BY <1>8, <2>1, <2>2 DEF StreamGoesOn
<1>10. InStep(waveform', g, w, Stream(c)')
  BY <1>9 DEF InStep
<1>11. (waveform' # << >> \/ w = FRAME_WORDS) /\ ~Dead(c)' =>
          (c = accepted["in"] /\ frames # 0)'
  BY <1>7, <1>8 DEF StreamGoesOn
<1>12. (sock["in"] \in {0, c})' /\ readers'[r].got = g /\ readers'[r].want = w
  BY <1>3, <1>7
<1> HIDE DEF g, w
<1>13. /\ (sock["in"] \in {0, Source(r)})'
       /\ (waveform' # << >> \/ readers'[r].want = FRAME_WORDS) /\ ~Dead(Source(r))' =>
            (Source(r) = accepted["in"] /\ frames # 0)'
       /\ InStep(waveform, readers[r].got, readers[r].want, Stream(Source(r)))'
  BY <1>3, <1>10, <1>11, <1>12 DEF Stream, Unsent, Dead, InStep
<1> QED
  BY <1>13 DEF ReaderInStep

LEMMA SameStream ==
  ASSUME SampleInv, NEW c \in 1 .. MaxConns, wire' = wire, Unsent(c)' \in {Unsent(c), << >>}
  PROVE  /\ Chain(Stream(c)')
         /\ \E u \in Seq(Words) : Stream(c) = Stream(c)' \o u
<1>1. /\ wire[c] \in Seq(Words) /\ Unsent(c) \in Seq(Words) /\ Stream(c) \in Seq(Words)
      /\ Stream(c) = wire[c] \o Unsent(c) /\ Stream(c)' = wire[c] \o Unsent(c)'
      /\ Chain(Stream(c))
  BY StreamTypes DEF SampleInv, OnTheWire, Stream
<1>2. CASE Unsent(c)' = Unsent(c)
  BY <1>1, <1>2, NoMore
<1>3. CASE Unsent(c)' = << >>
  <2>1. Stream(c)' = wire[c]
    BY <1>1, <1>3, NoMore
  <2> QED
    BY <1>1, <2>1, ChainSplits
<1> QED
  BY <1>2, <1>3

LEMMA LinkMoves ==
  ASSUME SampleInv, LinkStep, UNCHANGED <<frames, sendbuf, wire>>, run' = run, up' => up,
         closed \subseteq closed',
         accepted'["in"] = accepted["in"] \/ (~up' /\ accepted'["in"] = 0)
  PROVE  Buffered' /\ OnTheWire' /\ \A c \in 1 .. Len(conns) : StreamGoesOn(c)
<1>0. LinkInv /\ OnTheWire /\ Buffered /\ Len(conns) \in Nat /\ Len(conns) <= MaxConns
  BY ConnectionFacts DEF SampleInv, LinkInv
<1>1. /\ Len(conns') \in Nat /\ Len(conns') >= Len(conns)
      /\ \A c \in 1 .. Len(conns) : conns'[c] = conns[c]
  BY <1>0, ConnsGrow
<1>2. ASSUME NEW c \in 1 .. MaxConns
      PROVE  /\ Chain(Stream(c)')
             /\ \E u \in Seq(Words) : Stream(c) = Stream(c)' \o u
  <2>1. c # 0
    BY Sizes
  <2>2. Unsent(c)' \in {Unsent(c), << >>}
    BY <2>1 DEF Unsent
  <2> QED
    BY <2>2, SameStream
<1>3. \A c \in 1 .. Len(conns) : ~Dead(c)' => ~Dead(c) /\ accepted'["in"] = accepted["in"]
  BY <1>1 DEF Dead
<1>4. OnTheWire'
  <2> SUFFICES ASSUME NEW c \in 1 .. MaxConns, wire'[c] # << >>
               PROVE  /\ c \in 1 .. Len(conns')
                      /\ ~Dead(c)' => c = accepted'["in"] /\ frames' # 0
    BY <1>2 DEF OnTheWire
  <2>1. c \in 1 .. Len(conns) /\ (~Dead(c) => c = accepted["in"] /\ frames # 0)
    BY <1>0 DEF OnTheWire
  <2> QED
    BY <1>0, <1>1, <1>3, <2>1
<1>5. \A c \in 1 .. Len(conns) : StreamGoesOn(c)
  <2>1. \A c \in 1 .. Len(conns) : c \in 1 .. MaxConns
    BY <1>0, Sizes
  <2> QED
    BY <1>2, <1>3, <2>1 DEF StreamGoesOn
<1>6. Buffered'
  BY <1>0 DEF Buffered, Word
<1> QED
  BY <1>4, <1>5, <1>6

LEMMA AcceptMoves ==
  ASSUME SampleInv, Accept("in"), UNCHANGED <<frames, sendbuf, wire>>
  PROVE  Buffered' /\ OnTheWire' /\ \A c \in 1 .. Len(conns) : StreamGoesOn(c)
<1>0. /\ LinkInv /\ OnTheWire /\ Buffered /\ Len(conns) \in Nat /\ Len(conns) <= MaxConns
      /\ conns \in Connections /\ accepted \in [PortSet -> 0 .. MaxConns]
      /\ sendbuf \in Seq(Words) /\ Chain(sendbuf)
  BY ConnectionFacts DEF SampleInv, LinkInv, LinkTypeOK, TypeOK, Buffered
<1>1. PICK a : a = Oldest("in")
  OBVIOUS
<1>2. /\ up /\ accepted["in"] = 0 /\ accepted'["in"] = a
      /\ UNCHANGED <<up, run, conns, closed>>
  BY <1>0, <1>1, Sizes DEF Accept, Oldest, client
<1>3. a \in 1 .. Len(conns) /\ ~Dead(a)
  <2>1. a \in Waiting("in")
    BY <1>0, <1>1, OldestWaits DEF Accept
  <2> QED
    BY <1>0, <1>2, <2>1, ConnectionFacts DEF Waiting, Dead, LinkInv
<1>4. wire[a] = << >> /\ a # 0 /\ a \in 1 .. MaxConns
  BY <1>0, <1>2, <1>3, Sizes DEF OnTheWire
<1>5. ASSUME NEW c \in 1 .. MaxConns, c # a
      PROVE  /\ Chain(Stream(c)')
             /\ \E u \in Seq(Words) : Stream(c) = Stream(c)' \o u
  <2>1. Unsent(c)' = Unsent(c)
    BY <1>2, <1>5, Sizes DEF Unsent
  <2> QED
    BY <2>1, SameStream
<1>6. /\ Chain(Stream(a)')
      /\ \E u \in Seq(Words) : Stream(a)' = Stream(a) \o u
  <2>1. << >> \in Seq(Words) /\ Unsent(a) = << >> /\ Unsent(a)' \in {sendbuf, << >>}
    BY <1>2, <1>4, EmptySeq DEF Unsent
  <2>2. Stream(a) = << >>
    BY <1>4, <2>1, NoMore DEF Stream
  <2>3. Unsent(a)' \in Seq(Words) /\ Chain(Unsent(a)')
    BY <1>0, <2>1, EmptyChain
  <2>4. Stream(a)' = << >> \o Unsent(a)'
    BY <1>4 DEF Stream
  <2>5. Stream(a)' = Unsent(a)'
    BY <2>3, <2>4, ConcatEmptySeq
  <2> QED
    BY <2>2, <2>3, <2>4, <2>5
<1>7. \A c \in 1 .. Len(conns) : Dead(c)' <=> Dead(c)
  BY <1>2 DEF Dead
<1>8. OnTheWire'
  <2> SUFFICES ASSUME NEW c \in 1 .. MaxConns, wire'[c] # << >>
               PROVE  /\ c \in 1 .. Len(conns')
                      /\ ~Dead(c)' => c = accepted'["in"] /\ frames' # 0
    BY <1>5, <1>6 DEF OnTheWire
  <2>1. c \in 1 .. Len(conns) /\ Dead(c)
    BY <1>0, <1>2, Sizes DEF OnTheWire
  <2> QED
    BY <1>2, <1>7, <2>1
<1>9. ASSUME NEW c \in 1 .. Len(conns)
      PROVE  StreamGoesOn(c)
  <2>1. c \in 1 .. MaxConns /\ c # accepted["in"]
    BY <1>0, <1>2, Sizes
  <2>2. CASE c = a
    BY <1>3, <1>6, <1>7, <2>1, <2>2 DEF StreamGoesOn
  <2>3. CASE c # a
    BY <1>5, <1>7, <2>1, <2>3 DEF StreamGoesOn
  <2> QED
    BY <2>2, <2>3
<1>10. Buffered'
  BY <1>0, <1>2 DEF Buffered, Word
<1> QED
  BY <1>8, <1>9, <1>10

LEMMA StartMoves ==
  ASSUME SampleInv, Start
  PROVE  Buffered' /\ OnTheWire' /\ \A c \in 1 .. Len(conns) : StreamGoesOn(c)
<1>0. /\ LinkInv /\ OnTheWire /\ Len(conns) \in Nat /\ Len(conns) <= MaxConns
      /\ conns \in Connections /\ run \in Nat
  BY ConnectionFacts, Sizes DEF SampleInv, LinkInv, LinkTypeOK
<1>1. /\ ~up /\ run' = run + 1 /\ UNCHANGED <<accepted, conns, closed, wire>>
      /\ frames' = 0 /\ sendbuf' = << >>
  BY DEF Start, DeviceStart, client
<1>2. accepted["in"] = 0
  BY <1>0, <1>1, Sizes DEF LinkInv, AcceptedKnown
<1>3. ASSUME NEW c \in 1 .. MaxConns
      PROVE  /\ Chain(Stream(c)')
             /\ \E u \in Seq(Words) : Stream(c) = Stream(c)' \o u
  BY <1>1, SameStream DEF Unsent
<1>4. ASSUME NEW c \in 1 .. Len(conns)
      PROVE  Dead(c)'
  <2>1. conns[c].run <= run /\ conns[c].run \in Nat
    BY <1>0, ConnectionFacts, Sizes DEF LinkInv, RunsKnown
  <2> QED
    BY <1>0, <1>1, <2>1 DEF Dead
<1>5. OnTheWire'
  BY <1>0, <1>1, <1>3, <1>4 DEF OnTheWire
<1>6. \A c \in 1 .. Len(conns) : StreamGoesOn(c)
  <2>1. \A c \in 1 .. Len(conns) : c \in 1 .. MaxConns
    BY <1>0, Sizes
  <2> QED
    BY <1>3, <1>4, <2>1 DEF StreamGoesOn
<1>7. Buffered'
  BY <1>1, EmptyChain DEF Buffered
<1> QED
  BY <1>5, <1>6, <1>7

LEMMA TailMoves ==
  ASSUME SampleInv, TailIsLost
  PROVE  /\ wire' \in [1 .. MaxConns -> Seq(Words)]
         /\ Buffered' /\ OnTheWire' /\ \A c \in 1 .. Len(conns) : StreamGoesOn(c)
<1>0. /\ LinkInv /\ OnTheWire /\ Buffered /\ Len(conns) \in Nat /\ Len(conns) <= MaxConns
      /\ DOMAIN conns = 1 .. Len(conns)
      /\ wire \in [1 .. MaxConns -> Seq(Words)]
  BY ConnectionFacts DEF SampleInv, LinkInv, TypeOK
<1>1. PICK a \in 1 .. Len(conns) : /\ Dead(a) /\ wire[a] # << >>
                                   /\ wire' = [wire EXCEPT ![a] = Front(wire[a])]
  BY <1>0 DEF TailIsLost
<1>2. UNCHANGED <<up, run, accepted, conns, closed, frames, sendbuf>>
  BY DEF TailIsLost, link, device, client
<1>3. a \in 1 .. MaxConns /\ wire[a] \in Seq(Words) /\ Len(wire[a]) \in Nat \ {0}
  BY <1>0, <1>1, EmptySeq, Sizes
<1> DEFINE front == SubSeq(wire[a], 1, Len(wire[a]) - 1)
           back  == SubSeq(wire[a], Len(wire[a]) - 1 + 1, Len(wire[a]))
<1>4. front \in Seq(Words) /\ back \in Seq(Words) /\ wire[a] = front \o back
  <2>1. Len(wire[a]) - 1 \in 0 .. Len(wire[a])
    BY <1>3
  <2> QED
    BY <1>3, <2>1, CutStream
<1>5. wire'[a] = front /\ \A c \in 1 .. MaxConns : c # a => wire'[c] = wire[c]
  BY <1>0, <1>1, <1>3 DEF Front
<1> HIDE DEF front, back
<1>6. wire' \in [1 .. MaxConns -> Seq(Words)]
  BY <1>0, <1>4, <1>1, <1>3, <1>5
<1>7. \A c : Unsent(c)' = Unsent(c)
  BY <1>2 DEF Unsent
<1>8. Unsent(a) = << >>
  BY <1>0, <1>1, Sizes DEF Unsent, Dead, LinkInv, AcceptedKnown
<1>9. ASSUME NEW c \in 1 .. MaxConns
      PROVE  /\ Chain(Stream(c)')
             /\ \E u \in Seq(Words) : Stream(c) = Stream(c)' \o u
  <2>1. CASE c = a
    <3>1. Stream(c) = wire[a] /\ Stream(c)' = front
      BY <1>3, <1>4, <1>5, <1>7, <1>8, <2>1, NoMore DEF Stream
    <3>2. Chain(wire[a])
      BY <1>0, <2>1, <3>1 DEF OnTheWire
    <3> QED
      BY <1>4, <3>1, <3>2, ChainSplits
  <2>2. CASE c # a
    <3>1. Stream(c)' = Stream(c)
      BY <1>5, <1>7, <2>2 DEF Stream
    <3>2. Stream(c) \in Seq(Words) /\ Chain(Stream(c))
      BY <1>0, StreamTypes DEF OnTheWire, SampleInv
    <3> QED
      BY <3>1, <3>2, NoMore
  <2> QED
    BY <2>1, <2>2
<1>10. \A c : Dead(c)' <=> Dead(c)
  BY <1>2 DEF Dead
<1>11. OnTheWire'
  <2> SUFFICES ASSUME NEW c \in 1 .. MaxConns, wire'[c] # << >>
               PROVE  /\ c \in 1 .. Len(conns')
                      /\ ~Dead(c)' => c = accepted'["in"] /\ frames' # 0
    BY <1>9 DEF OnTheWire
  <2>1. wire[c] # << >>
    BY <1>1, <1>5
  <2> QED
    BY <1>0, <1>2, <1>10, <2>1 DEF OnTheWire
<1>12. \A c \in 1 .. Len(conns) : StreamGoesOn(c)
  <2>1. \A c \in 1 .. Len(conns) : c \in 1 .. MaxConns
    BY <1>0, Sizes
  <2> QED
    BY <1>2, <1>9, <1>10, <2>1 DEF StreamGoesOn
<1>13. Buffered'
  BY <1>0, <1>2 DEF Buffered, Word
<1> QED
  BY <1>6, <1>11, <1>12, <1>13

LEMMA EnqueueMoves ==
  ASSUME SampleInv, enqueue_input_buffer
  PROVE  /\ wire' \in [1 .. MaxConns -> Seq(Words)] /\ frames' \in 0 .. MaxFrames
         /\ sendbuf' \in Seq(Words) /\ Len(sendbuf') <= SEND_BUFFER_SIZE
         /\ Buffered' /\ OnTheWire' /\ \A c \in 1 .. Len(conns) : StreamGoesOn(c)
<1>0. /\ LinkInv /\ OnTheWire /\ Buffered /\ Len(conns) \in Nat /\ Len(conns) <= MaxConns
      /\ wire \in [1 .. MaxConns -> Seq(Words)] /\ sendbuf \in Seq(Words) /\ Len(sendbuf) \in Nat
      /\ frames \in 0 .. MaxFrames /\ accepted \in [PortSet -> 0 .. MaxConns]
  BY ConnectionFacts, LenProperties DEF SampleInv, LinkInv, TypeOK, LinkTypeOK
<1> DEFINE record == Record(frames + 1)
           full == Len(sendbuf) + FRAME_WORDS + 1 > SEND_BUFFER_SIZE
           a == accepted["in"]
<1>1. /\ up /\ frames < MaxFrames /\ frames' = frames + 1
      /\ full => Flush /\ sendbuf' = record
      /\ ~full => sendbuf' = sendbuf \o record /\ wire' = wire
      /\ UNCHANGED <<up, run, accepted, conns, closed>>
  BY DEF enqueue_input_buffer, Enqueue, link, device, client
<1>2. run \in 1 .. MaxRuns /\ frames + 1 \in 1 .. MaxFrames /\ frames + 1 \in 0 .. MaxFrames
  BY <1>0, <1>1, Sizes DEF LinkInv, LinkTypeOK, RunsKnown
<1>3. /\ record \in Seq(Words) /\ Len(record) = FRAME_WORDS + 1 /\ Chain(record)
      /\ record # << >> /\ record[1] = Word(frames + 1, 0)
      /\ record[Len(record)] = Word(frames + 1, FRAME_WORDS)
  BY <1>2, RecordIsChain
<1>4. \A w : frames # 0 /\ w = Word(frames, FRAME_WORDS) => record[1] = After(w)
  BY <1>0, <1>3, FrameAfterFrame
<1>5. a # 0 => a \in 1 .. Len(conns) /\ a \in 1 .. MaxConns /\ ~Dead(a)
  BY <1>0, <1>1, Sizes DEF LinkInv, AcceptedKnown, Dead
<1> HIDE DEF record
<1>7. /\ sendbuf' \in Seq(Words) /\ Len(sendbuf') <= SEND_BUFFER_SIZE /\ sendbuf' # << >>
      /\ sendbuf'[1].part = 0 /\ sendbuf'[Len(sendbuf')] = Word(frames + 1, FRAME_WORDS)
      /\ Chain(sendbuf')
  <2>1. record[1].part = 0
    BY <1>3 DEF Word
  <2>2. CASE full
    BY <1>1, <1>3, <2>1, <2>2, Sizes
  <2>3. CASE ~full
    <3>1. sendbuf' = sendbuf \o record
      BY <1>1, <2>3
    <3>2. Len(sendbuf \o record) = Len(sendbuf) + Len(record)
      BY <1>0, <1>3, ConcatProperties
    <3>3. Len(sendbuf') <= SEND_BUFFER_SIZE
      BY <1>0, <1>3, <2>3, <3>1, <3>2, Sizes
    <3>4. Chain(sendbuf \o record)
      BY <1>0, <1>3, <1>4, ChainJoins DEF Buffered
    <3>5. (sendbuf \o record)[1].part = 0
      BY <1>0, <1>3, <2>1, FirstOfTwo DEF Buffered
    <3> QED
      BY <1>0, <1>3, <3>1, <3>3, <3>4, <3>5, FirstOfTwo, LastOfTwo
  <2> QED
    BY <2>2, <2>3
<1>8. Buffered'
  BY <1>0, <1>1, <1>7 DEF Buffered, Word
<1> DEFINE Sent(c) == EthIface /\ c = a /\ c \notin closed
<1>9. ASSUME NEW c \in 1 .. MaxConns
      PROVE  /\ wire'[c] \in Seq(Words)
             /\ ~Sent(c) => wire'[c] = wire[c]
             /\ Stream(c)' = IF Sent(c) THEN Stream(c) \o record ELSE Stream(c)
  <2>1. wire[c] \in Seq(Words) /\ wire[c] \o sendbuf \in Seq(Words) /\ c # 0
    BY <1>0, FirstOfTwo, Sizes
  <2>2. /\ Unsent(c) = IF Sent(c) THEN sendbuf ELSE << >>
        /\ Unsent(c)' = IF Sent(c) THEN sendbuf' ELSE << >>
    BY <1>1 DEF Unsent
  <2>3. wire'[c] = IF full /\ Sent(c) THEN wire[c] \o sendbuf ELSE wire[c]
    <3>1. CASE full
      BY <1>0, <1>1, <3>1, <2>1 DEF Flush
    <3>2. CASE ~full
      BY <1>1, <3>2
    <3> QED
      BY <3>1, <3>2
  <2>4. (wire[c] \o sendbuf) \o record = wire[c] \o (sendbuf \o record)
    <3>1. wire[c] \in Seq(Words) /\ sendbuf \in Seq(Words) /\ record \in Seq(Words)
      BY <1>0, <1>3, <2>1
    <3> QED
      BY <3>1, WordsInThree
  <2>5. Stream(c) = wire[c] \o Unsent(c) /\ Stream(c)' = wire'[c] \o Unsent(c)'
    BY DEF Stream
  <2> HIDE DEF full, Sent
  <2>6. CASE Sent(c)
    BY <1>1, <2>1, <2>2, <2>3, <2>4, <2>5, <2>6
  <2>7. CASE ~Sent(c)
    BY <2>1, <2>2, <2>3, <2>5, <2>7
  <2> QED
    BY <2>1, <2>3, <2>6, <2>7
<1>10. wire' \in [1 .. MaxConns -> Seq(Words)]
  <2>1. wire' = [c \in 1 .. MaxConns |-> wire'[c]]
    BY <1>0, <1>1 DEF Flush
  <2> QED
    BY <1>9, <2>1
<1>11. \A c : Dead(c)' <=> Dead(c)
  BY <1>1 DEF Dead
<1>12. ASSUME NEW c \in 1 .. MaxConns, Sent(c)
       PROVE  /\ c \in 1 .. Len(conns) /\ ~Dead(c) /\ Stream(c) \in Seq(Words)
              /\ frames # 0 => Stream(c) # << >>
              /\ Chain(Stream(c) \o record)
  <2>1. c \in 1 .. Len(conns) /\ ~Dead(c) /\ Unsent(c) = sendbuf
    BY <1>5, <1>12, Sizes DEF Unsent
  <2>2. Stream(c) \in Seq(Words) /\ wire[c] \in Seq(Words) /\ Chain(Stream(c))
    BY <1>0, StreamTypes DEF OnTheWire, SampleInv
  <2>3. frames # 0 => Stream(c) # << >> /\ Stream(c)[Len(Stream(c))] = Word(frames, FRAME_WORDS)
    BY <1>0, <2>1, <2>2, LastOfTwo DEF Buffered, Stream
  <2>4. frames = 0 => Stream(c) = << >>
    <3>1. frames = 0 => wire[c] = << >> /\ sendbuf = << >>
      BY <1>0, <2>1 DEF OnTheWire, Buffered
    <3> QED
      BY <2>1, <2>2, <3>1, NoMore DEF Stream
  <2>5. Chain(Stream(c) \o record)
    BY <1>3, <1>4, <2>2, <2>3, <2>4, ChainJoins
  <2> QED
    BY <2>1, <2>2, <2>3, <2>5
<1>13. ASSUME NEW c \in 1 .. MaxConns
       PROVE  Chain(Stream(c)')
  BY <1>0, <1>9, <1>12 DEF OnTheWire
<1>14. OnTheWire'
  <2> SUFFICES ASSUME NEW c \in 1 .. MaxConns, wire'[c] # << >>
               PROVE  /\ c \in 1 .. Len(conns')
                      /\ ~Dead(c)' => c = accepted'["in"] /\ frames' # 0
    BY <1>13 DEF OnTheWire
  <2>1. frames' # 0
    BY <1>0, <1>1
  <2>2. CASE Sent(c)
    BY <1>1, <1>12, <2>1, <2>2
  <2>3. CASE ~Sent(c)
    BY <1>0, <1>1, <1>9, <1>11, <2>1, <2>3 DEF OnTheWire
  <2> QED
    BY <2>2, <2>3
<1>15. ASSUME NEW c \in 1 .. Len(conns)
       PROVE  StreamGoesOn(c)
  <2>1. c \in 1 .. MaxConns
    BY <1>0, Sizes
  <2>2. ~Dead(c)' => ~Dead(c) /\ (c = accepted["in"] /\ frames # 0 => (c = accepted["in"] /\ frames # 0)')
    BY <1>0, <1>1, <1>11
  <2>3. CASE Sent(c)
    BY <1>3, <1>9, <1>12, <2>1, <2>2, <2>3 DEF StreamGoesOn
  <2>4. CASE ~Sent(c)
    <3>1. Stream(c)' = Stream(c) /\ Stream(c) \in Seq(Words)
      BY <1>9, <2>1, <2>4, StreamTypes DEF SampleInv
    <3> QED
      BY <2>2, <3>1, NoMore DEF StreamGoesOn
  <2> QED
    BY <2>3, <2>4
<1> QED
  BY <1>1, <1>2, <1>7, <1>8, <1>10, <1>14, <1>15

LEMMA ShownStays ==
  ASSUME WaveformInStep, waveform' = waveform, crowded => crowded'
  PROVE  WaveformInStep'
<1>1. waveform' = waveform /\ (~crowded' => ~crowded)
  OBVIOUS
<1>2. ASSUME ~crowded'
      PROVE  /\ \A i \in DOMAIN waveform' : IsFrame(waveform'[i])
             /\ \A i \in 1 .. Len(waveform') - 1 :
                  /\ waveform'[i][1].run = waveform'[i + 1][1].run
                  /\ waveform'[i][1].frame + 1 = waveform'[i + 1][1].frame
  BY <1>1, <1>2 DEF WaveformInStep
<1> QED
  BY <1>2 DEF WaveformInStep, IsFrame

(* When a port other than the one for the samples is connected, the host   *)
(* is no nearer to the point where Cleared says something new.             *)
OpenForInput == host = "connect" /\ Past("log") /\ ~Past("in")

LEMMA QuietKeeps ==
  ASSUME SampleInv, LinkInv', TypeOK', Buffered', OnTheWire', readers' = readers,
         crowded' = crowded, waveform' \in {waveform, << >>}, sock'["in"] \in {sock["in"], 0},
         Len(conns') \in Nat, Len(conns') >= Len(conns),
         \A c \in 1 .. Len(conns) : StreamGoesOn(c),
         OpenForInput' => OpenForInput \/ waveform' = << >>
  PROVE  SampleInv'
<1>1. ReadersInStep'
  BY QuietStep
<1>2. ReadersSane'
  BY ConnectionFacts DEF SampleInv, ReadersSane, LinkInv
<1>3. Cleared'
  BY DEF SampleInv, Cleared, OpenForInput
<1>4. WaveformInStep'
  <2>1. CASE waveform' = waveform
    BY <2>1, ShownStays DEF SampleInv
  <2>2. CASE waveform' = << >>
    BY <2>2 DEF WaveformInStep
  <2> QED
    BY <2>1, <2>2
<1> QED
  BY <1>1, <1>2, <1>3, <1>4 DEF SampleInv

LEMMA NoReaderTypes ==
  ASSUME SampleInv, LinkInv', UNCHANGED <<readers, crowded>>, waveform' \in {waveform, << >>},
         frames' \in 0 .. MaxFrames, sendbuf' \in Seq(Words), Len(sendbuf') <= SEND_BUFFER_SIZE,
         wire' \in [1 .. MaxConns -> Seq(Words)]
  PROVE  TypeOK'
<1>1. waveform' \in Seq(Seq(Words))
  BY EmptySeq DEF SampleInv, TypeOK
<1> QED
  BY <1>1 DEF SampleInv, TypeOK, LinkInv

(* The steps of the program, and of the tail of a dead connection. *)
LEMMA DeviceKeeps ==
  ASSUME SampleInv, LinkInv', LinkStep,
         Start \/ NetThread \/ enqueue_input_buffer \/ Stop \/ TailIsLost
  PROVE  SampleInv'
<1>0. /\ LinkInv /\ frames \in 0 .. MaxFrames /\ sendbuf \in Seq(Words)
      /\ Len(sendbuf) <= SEND_BUFFER_SIZE /\ wire \in [1 .. MaxConns -> Seq(Words)]
      /\ accepted \in [PortSet -> 0 .. MaxConns]
  BY DEF SampleInv, TypeOK, LinkInv, LinkTypeOK
<1>1. Len(conns') \in Nat /\ Len(conns') >= Len(conns)
  BY <1>0, ConnsGrow
<1>2. UNCHANGED <<readers, crowded, waveform, sock, host, next>>
  BY DEF Start, NetThread, enqueue_input_buffer, Enqueue, Stop, TailIsLost,
         DeviceStart, Listen, Accept, DeviceExit, link, device, client
<1>3. OpenForInput' => OpenForInput
  BY <1>2, OthersStay DEF OpenForInput
<1>4. /\ frames' \in 0 .. MaxFrames /\ sendbuf' \in Seq(Words) /\ Len(sendbuf') <= SEND_BUFFER_SIZE
      /\ wire' \in [1 .. MaxConns -> Seq(Words)]
      /\ Buffered' /\ OnTheWire' /\ \A c \in 1 .. Len(conns) : StreamGoesOn(c)
  <2>1. CASE Start
    <3>1. frames' = 0 /\ sendbuf' = << >> /\ wire' = wire
      BY <2>1 DEF Start
    <3> QED
      BY <1>0, <2>1, <3>1, StartMoves, EmptySeq, Sizes
  <2>2. CASE enqueue_input_buffer
    BY <2>2, EnqueueMoves
  <2>3. CASE TailIsLost
    <3>1. frames' = frames /\ sendbuf' = sendbuf
      BY <2>3 DEF TailIsLost
    <3> QED
      BY <1>0, <2>3, <3>1, TailMoves
  <2>4. ASSUME NEW p \in PortSet, Listen(p) \/ (Accept(p) /\ p # "in"),
               UNCHANGED <<frames, sendbuf, wire>>
        PROVE  Buffered' /\ OnTheWire' /\ \A c \in 1 .. Len(conns) : StreamGoesOn(c)
    <3>1. run' = run /\ up' = up /\ closed' = closed /\ accepted'["in"] = accepted["in"]
      <4>1. CASE Listen(p)
        BY <4>1 DEF Listen, client
      <4>2. CASE Accept(p) /\ p # "in"
        <5>1. /\ accepted' = [accepted EXCEPT ![p] = Oldest(p)]
              /\ UNCHANGED <<up, run, closed>>
          BY <4>2, Zenon DEF Accept, Oldest, client
        <5> QED
          BY <1>0, <4>2, <5>1
      <4> QED
        BY <2>4, <4>1, <4>2
    <3> QED
      BY <2>4, <3>1, LinkMoves
  <2>5. CASE NetThread
    <3>1. UNCHANGED <<frames, sendbuf, wire>>
      BY <2>5 DEF NetThread
    <3>2. Buffered' /\ OnTheWire' /\ \A c \in 1 .. Len(conns) : StreamGoesOn(c)
      BY <2>4, <2>5, <3>1, AcceptMoves DEF NetThread
    <3> QED
      BY <1>0, <3>1, <3>2
  <2>6. CASE Stop
    <3>1. UNCHANGED <<frames, sendbuf, wire>>
      BY <2>6 DEF Stop
    <3>2. run' = run /\ ~up' /\ closed' = closed /\ accepted'["in"] = 0
      BY <2>6, NoneTypes, Sizes DEF Stop, DeviceExit, client
    <3> QED
      BY <1>0, <3>1, <3>2, LinkMoves
  <2> QED
    BY <2>1, <2>2, <2>3, <2>5, <2>6
<1>5. TypeOK'
  BY <1>2, <1>4, NoReaderTypes
<1> QED
  BY <1>1, <1>2, <1>3, <1>4, <1>5, QuietKeeps

LEMMA HostKeeps ==
  ASSUME SampleInv, LinkInv', LinkStep, HostThread \/ ClearData
  PROVE  SampleInv'
<1>0. /\ LinkInv /\ frames \in 0 .. MaxFrames /\ sendbuf \in Seq(Words)
      /\ Len(sendbuf) <= SEND_BUFFER_SIZE /\ wire \in [1 .. MaxConns -> Seq(Words)]
      /\ sock \in [PortSet -> 0 .. MaxConns]
  BY DEF SampleInv, TypeOK, LinkInv, LinkTypeOK
<1>1. Len(conns') \in Nat /\ Len(conns') >= Len(conns)
  BY <1>0, ConnsGrow
<1>2. /\ UNCHANGED <<readers, crowded, frames, sendbuf, wire>>
      /\ waveform' \in {waveform, << >>}
      /\ HostClear => waveform' = << >>
  BY DEF HostThread, ClearData, HostConnect, HostRetry, HostLost, HostClear
<1>3. UNCHANGED device /\ closed \subseteq closed'
  BY DEF HostThread, ClearData, HostConnect, HostRetry, HostLost, HostClear, Leave
<1>4. Buffered' /\ OnTheWire' /\ \A c \in 1 .. Len(conns) : StreamGoesOn(c)
  BY <1>2, <1>3, LinkMoves DEF device
<1>5. /\ sock'["in"] \in {sock["in"], 0}
      /\ OpenForInput' => OpenForInput \/ waveform' = << >>
  <2>1. ASSUME NEW p \in PortSet \ {"in"}, HostConnect(p)
        PROVE  sock'["in"] \in {sock["in"], 0} /\ (OpenForInput' => OpenForInput)
    <3>1. sock'["in"] = sock["in"]
      BY <1>0, <2>1 DEF HostConnect
    <3>2. host = "connect" /\ (p = "log" => host' = "clear")
      BY <2>1 DEF HostConnect
    <3>3. (p # "log" => Past("log")) /\ (Past("in")' <=> Past("in"))
      BY <1>0, <2>1, ConnectMovesOn, Sizes
    <3> QED
      BY <3>1, <3>2, <3>3 DEF OpenForInput
  <2>2. ASSUME NEW p \in PortSet, HostRetry(p)
        PROVE  sock'["in"] \in {sock["in"], 0} /\ (OpenForInput' => OpenForInput)
    <3>1. sock'["in"] \in {sock["in"], 0}
      BY <1>0, <2>2, Sizes DEF HostRetry
    <3>2. host = "connect" /\ \A q : Past(q)' <=> Past(q)
      BY <1>0, <2>2, RetryStays DEF HostRetry
    <3> QED
      BY <3>1, <3>2 DEF OpenForInput
  <2>3. CASE HostLost
    BY <2>3, LostStartsOver DEF HostLost, OpenForInput
  <2>4. CASE ClearData
    BY <1>2, <2>4 DEF ClearData, HostClear
  <2> QED
    BY <2>1, <2>2, <2>3, <2>4 DEF HostThread
<1>6. TypeOK'
  BY <1>0, <1>2, NoReaderTypes
<1> QED
  BY <1>1, <1>2, <1>4, <1>5, <1>6, QuietKeeps

(* The host connects to the port of the samples: a new reader.             *)
LEMMA ConnectKeeps ==
  ASSUME SampleInv, LinkInv', LinkStep, ConnectInput
  PROVE  SampleInv'
<1>0. /\ LinkInv /\ Len(conns) \in Nat /\ Len(conns) <= MaxConns /\ conns \in Connections
      /\ sock \in [PortSet -> 0 .. MaxConns]
      /\ Len(readers) \in Nat /\ DOMAIN readers = 1 .. Len(readers)
  BY ConnectionFacts, ReaderTypes DEF SampleInv, LinkInv, LinkTypeOK, TypeOK
<1>1. /\ HostConnect("in") /\ readers' = Append(readers, NewReader)
      /\ crowded' = (crowded \/ \E r \in DOMAIN readers : Running(r))
      /\ UNCHANGED <<frames, sendbuf, wire, waveform>>
  BY DEF ConnectInput, StartReader
<1>n. PICK n : n = Len(conns) + 1
  OBVIOUS
<1>2. /\ UNCHANGED device /\ closed \subseteq closed' /\ host = "connect"
      /\ Len(conns') = n /\ sock'["in"] = n /\ n \in 1 .. MaxConns
  <2>1. /\ UNCHANGED device /\ closed \subseteq closed' /\ host = "connect"
        /\ conns' = Append(conns, [port |-> "in", run |-> run])
        /\ sock' = [sock EXCEPT !["in"] = Len(conns')] /\ Len(conns) < MaxConns
    BY <1>1 DEF HostConnect, Leave
  <2> QED
    BY <1>0, <1>n, <2>1, Sizes
<1>3. ~Past("in") /\ Past("log") /\ Past("in")'
  BY <1>0, <1>1, ConnectMovesOn, Sizes
<1>4. Buffered' /\ OnTheWire'
  BY <1>1, <1>2, LinkMoves DEF device
<1> DEFINE Readers == [at : {"test", "call", "recv", "done"}, conn : 0 .. MaxConns,
                       want : {1, FRAME_WORDS}, got : Seq(Words)]
<1>5. NewReader \in Readers /\ Len(NewReader.got) = 0
  BY EmptySeq, Sizes DEF NewReader
<1>6. readers \in Seq(Readers)
  BY DEF SampleInv, TypeOK
<1> HIDE DEF Readers
<1>7. /\ readers' \in Seq(Readers) /\ Len(readers') = Len(readers) + 1
      /\ DOMAIN readers' = 1 .. Len(readers) + 1
      /\ \A r \in 1 .. Len(readers) : readers'[r] = readers[r]
      /\ readers'[Len(readers) + 1] = NewReader
  BY <1>0, <1>1, <1>5, <1>6, AppendProperties, LenProperties
<1>8. TypeOK'
  BY <1>1, <1>7, Zenon DEF SampleInv, TypeOK, LinkInv, Readers
<1>9. ReadersSane'
  <2> SUFFICES ASSUME NEW r \in DOMAIN readers'
               PROVE  /\ readers'[r].at = "recv" => readers'[r].conn \in 1 .. Len(conns')
                      /\ Len(readers'[r].got) < readers'[r].want
    BY DEF ReadersSane
  <2>1. CASE r \in 1 .. Len(readers)
    BY <1>0, <1>n, <1>2, <1>7, <2>1 DEF SampleInv, ReadersSane
  <2>2. CASE r = Len(readers) + 1
    BY <1>5, <1>7, <2>2 DEF NewReader
  <2> QED
    BY <1>0, <1>7, <2>1, <2>2
<1>10. ReadersInStep'
  <2> SUFFICES ASSUME ~crowded', NEW r \in DOMAIN readers', Running(r)'
               PROVE  r = Len(readers') /\ ReaderInStep(r)'
    BY DEF ReadersInStep, ReaderInStep
  <2>1. ~crowded /\ \A q \in DOMAIN readers : ~Running(q)
    BY <1>1
  <2>2. r = Len(readers) + 1
    <3>1. r \in 1 .. Len(readers) => Running(r)
      BY <1>7 DEF Running
    <3> QED
      BY <1>0, <1>7, <2>1, <3>1
  <2>3. waveform = << >>
    BY <1>0, <1>2, <1>3, <2>1 DEF SampleInv, Cleared, Running
  <2>4. Source(r)' = n /\ readers'[r] = NewReader
    BY <1>2, <1>7, <2>2 DEF Source, NewReader
  <2>5. Stream(n)' \in Seq(Words) /\ Chain(Stream(n)')
    <3>1. wire'[n] \in Seq(Words) /\ sendbuf' \in Seq(Words) /\ << >> \in Seq(Words)
      BY <1>2, <1>8, EmptySeq DEF TypeOK
    <3>2. Unsent(n)' \in Seq(Words)
      BY <3>1 DEF Unsent
    <3> QED
      BY <1>2, <1>4, <3>1, <3>2, FirstOfTwo DEF Stream, OnTheWire
  <2>6. InStep(waveform', << >>, 1, Stream(n)')
    BY <1>1, <2>3, <2>5, InStepFresh
  <2>7. InStep(waveform, readers[r].got, readers[r].want, Stream(Source(r)))'
    <3>1. readers'[r].got = << >> /\ readers'[r].want = 1
      BY <2>4 DEF NewReader
    <3> QED
      BY <2>4, <2>6, <3>1 DEF InStep, Stream, Unsent
  <2>8. waveform' = << >> /\ readers'[r].want # FRAME_WORDS /\ sock'["in"] = Source(r)'
    BY <1>1, <1>2, <2>3, <2>4, Sizes DEF NewReader
  <2> QED
    BY <1>7, <2>2, <2>7, <2>8 DEF ReaderInStep
<1>11. Cleared'
  BY <1>3 DEF Cleared
<1>12. WaveformInStep'
  BY <1>1, ShownStays DEF SampleInv
<1> QED
  BY <1>4, <1>8, <1>9, <1>10, <1>11, <1>12 DEF SampleInv

-----------------------------------------------------------------------------
(* The steps of a reader. *)

(* Words that follow a tag up to the end of its frame are of that frame.   *)
LEMMA PartsOfFrame ==
  ASSUME NEW g \in Seq(Words), Chain(g), Len(g) = FRAME_WORDS, g[1].part = 1
  PROVE  /\ \A i \in 1 .. FRAME_WORDS :
              g[i] = [run |-> g[1].run, frame |-> g[1].frame, part |-> i]
         /\ IsFrame(g)
<1> DEFINE Should(i) == [run |-> g[1].run, frame |-> g[1].frame, part |-> i]
           Wrong == {i \in 1 .. FRAME_WORDS : g[i] # Should(i)}
<1>0. FRAME_WORDS \in Nat /\ FRAME_WORDS > 1
  BY Sizes
<1>1. g[1] \in Words
  BY <1>0, ElementOfSeq
<1>2. Wrong = {}
  <2> SUFFICES ASSUME Wrong # {} PROVE FALSE
    OBVIOUS
  <2>1. Wrong \subseteq Nat
    BY <1>0
  <2> HIDE DEF Wrong
  <2>2. \E i \in Wrong : \A j \in Wrong : ~(<<j, i>> \in OpToRel(<, Nat))
    BY <2>1, NatLessThanWellFounded, WFMin
  <2>3. PICK i \in Wrong : \A j \in Wrong : ~(j < i)
    BY <2>1, <2>2 DEF OpToRel
  <2>4. i \in 1 .. FRAME_WORDS /\ g[i] # Should(i)
    BY DEF Wrong
  <2>5. i # 1
    <3>1. g[1] = Should(1)
      BY <1>1 DEF Words
    <3> QED
      BY <2>4, <3>1
  <2>6. i - 1 \in 1 .. FRAME_WORDS /\ i - 1 \notin Wrong /\ i - 1 # FRAME_WORDS /\ i - 1 + 1 = i
    BY <1>0, <2>3, <2>4, <2>5
  <2>7. g[i - 1] = Should(i - 1)
    BY <2>6 DEF Wrong
  <2>8. g[i] = After(g[i - 1])
    BY <1>0, <2>4, <2>5, <2>6 DEF Chain
  <2>9. After(Should(i - 1)) = Should(i)
    BY <2>6 DEF After
  <2> QED
    BY <2>4, <2>7, <2>8, <2>9
<1>3. \A i \in 1 .. FRAME_WORDS : g[i] = Should(i)
  BY <1>2
<1>4. g = [i \in 1 .. FRAME_WORDS |-> Should(i)]
  <2>1. g \in [1 .. FRAME_WORDS -> Words]
    BY LenProperties
  <2> QED
    BY <1>3, <2>1
<1>5. g[1].run \in 1 .. MaxRuns /\ g[1].frame \in 1 .. MaxFrames
  BY <1>1 DEF Words
<1> QED
  BY <1>3, <1>4, <1>5 DEF IsFrame

LEMMA OneReaderMoves ==
  ASSUME SampleInv, LinkInv', NEW r \in DOMAIN readers, Running(r), NEW x,
         readers' = [readers EXCEPT ![r] = x], crowded' = crowded,
         x \in [at : {"test", "call", "recv", "done"}, conn : 0 .. MaxConns,
                want : {1, FRAME_WORDS}, got : Seq(Words)],
         x.at = "recv" => x.conn \in 1 .. Len(conns), Len(x.got) < x.want, conns' = conns,
         ~crowded /\ r = Len(readers) => ReaderInStep(r)'
  PROVE  /\ readers' \in Seq([at : {"test", "call", "recv", "done"}, conn : 0 .. MaxConns,
                              want : {1, FRAME_WORDS}, got : Seq(Words)])
         /\ ReadersSane' /\ ReadersInStep'
         /\ Len(readers') = Len(readers) /\ readers'[r] = x
         /\ ~crowded => r = Len(readers)
<1> DEFINE Readers == [at : {"test", "call", "recv", "done"}, conn : 0 .. MaxConns,
                       want : {1, FRAME_WORDS}, got : Seq(Words)]
<1>0. readers \in Seq(Readers) /\ x \in Readers
  BY DEF SampleInv, TypeOK
<1> HIDE DEF Readers
<1>1. /\ readers' \in Seq(Readers) /\ Len(readers') = Len(readers)
      /\ DOMAIN readers' = DOMAIN readers /\ r \in DOMAIN readers
      /\ readers'[r] = x /\ \A q \in DOMAIN readers : q # r => readers'[q] = readers[q]
  BY <1>0, ExceptSeq, LenProperties
<1>2. ReadersSane'
  BY <1>1 DEF SampleInv, ReadersSane
<1>3. ~crowded => r = Len(readers) /\ \A q \in DOMAIN readers : Running(q) => q = r
  BY DEF SampleInv, ReadersInStep
<1>4. ReadersInStep'
  <2> SUFFICES ASSUME ~crowded, NEW q \in DOMAIN readers
               PROVE  (Running(q) => q = Len(readers))' /\ ReaderInStep(q)'
    BY <1>1 DEF ReadersInStep
  <2>1. CASE q = r
    BY <1>1, <1>3, <2>1
  <2>2. CASE q # r
    BY <1>1, <1>3, <2>2 DEF Running, ReaderInStep
  <2> QED
    BY <2>1, <2>2
<1> QED
  BY <1>1, <1>2, <1>3, <1>4 DEF Readers

(* The steps of a reader that take nothing from the wire. *)
LEMMA IdleReaderKeeps ==
  ASSUME SampleInv, LinkInv', NEW r \in DOMAIN readers,
         ReaderTest(r) \/ ReaderCall(r) \/ ReaderEnds(r)
  PROVE  SampleInv'
<1>0. /\ LinkInv /\ Len(conns) \in Nat /\ Len(conns) <= MaxConns
      /\ sock["in"] \in 0 .. Len(conns)
      /\ Len(readers) \in Nat /\ r \in 1 .. Len(readers)
      /\ readers[r] \in [at : {"test", "call", "recv", "done"}, conn : 0 .. MaxConns,
                         want : {1, FRAME_WORDS}, got : Seq(Words)]
      /\ Len(readers[r].got) < readers[r].want
      /\ readers[r].at = "recv" => readers[r].conn \in 1 .. Len(conns)
      /\ ReaderInStep(r) \/ crowded
  BY ConnectionFacts, ReaderTypes, Sizes
  DEF SampleInv, LinkInv, SocketsKnown, ReadersSane, ReadersInStep
<1>1. UNCHANGED <<link, frames, sendbuf, wire, waveform, crowded>>
  BY DEF ReaderTest, ReaderCall, ReaderEnds
<1>2. UNCHANGED <<up, run, accepted, conns, sock, closed, host, next, connected>>
  BY <1>1 DEF link, device, client
<1> DEFINE was == readers[r]
           Readers == [at : {"test", "call", "recv", "done"}, conn : 0 .. MaxConns,
                       want : {1, FRAME_WORDS}, got : Seq(Words)]
           Moved(x) == /\ x.got = was.got /\ x.want = was.want /\ x.at # "test"
                       /\ was.at = "test" => connected["in"]
                       /\ x.at = "call" => was.at = "test"
                       /\ x.at = "recv" => /\ was.at = "call" /\ sock["in"] # 0
                                           /\ x.conn = sock["in"]
<1>3. PICK x \in Readers : readers' = [readers EXCEPT ![r] = x] /\ Moved(x) /\ was.at # "done"
  <2>1. CASE ReaderTest(r)
    <3> DEFINE x == [was EXCEPT !.at = "call"]
    <3>1. readers' = [readers EXCEPT ![r] = x] /\ was.at = "test" /\ connected["in"]
      BY <2>1 DEF ReaderTest, Goto
    <3>2. x \in Readers /\ Moved(x)
      BY <1>0, <3>1
    <3> QED
      BY <3>1, <3>2
  <2>2. CASE ReaderCall(r)
    <3> DEFINE x == [was EXCEPT !.at = IF sock["in"] = 0 THEN "done" ELSE "recv",
                                !.conn = sock["in"]]
    <3>1. readers' = [readers EXCEPT ![r] = x] /\ was.at = "call"
      BY <1>0, <2>2 DEF ReaderCall
    <3>2. sock["in"] \in 0 .. MaxConns
      BY <1>0, Sizes
    <3>3. x \in Readers /\ Moved(x)
      BY <1>0, <3>1, <3>2
    <3> QED
      BY <3>1, <3>3
  <2>3. CASE ReaderEnds(r)
    <3> DEFINE x == [was EXCEPT !.at = "done"]
    <3>1. readers' = [readers EXCEPT ![r] = x] /\ was.at = "recv"
      BY <2>3 DEF ReaderEnds, Goto
    <3>2. x \in Readers /\ Moved(x)
      BY <1>0, <3>1
    <3> QED
      BY <3>1, <3>2
  <2> QED
    BY <2>1, <2>2, <2>3
<1>4. readers'[r] = x
  BY <1>0, <1>3, ReaderTypes DEF SampleInv
<1>5. ~crowded /\ r = Len(readers) => ReaderInStep(r)'
  <2> SUFFICES ASSUME ~crowded, Running(r)', Source(r)' # 0 PROVE ReaderInStep(r)'
    BY DEF ReaderInStep
  <2>1. PICK c : c = Source(r)
    OBVIOUS
  <2>2. Source(r)' = c
    BY <1>2, <1>3, <1>4, <2>1 DEF Source, Running
  <2>3. /\ sock["in"] \in {0, c}
        /\ (waveform # << >> \/ readers[r].want = FRAME_WORDS) /\ ~Dead(c) =>
             c = accepted["in"] /\ frames # 0
        /\ InStep(waveform, readers[r].got, readers[r].want, Stream(c))
    BY <1>0, <1>3, <2>1, <2>2 DEF ReaderInStep, Running
  <2>4. Stream(c)' = Stream(c) /\ (Dead(c)' <=> Dead(c))
    BY <1>1, <1>2 DEF Stream, Unsent, Dead
  <2>5. readers'[r].got = readers[r].got /\ readers'[r].want = readers[r].want
    BY <1>3, <1>4
  <2>6. InStep(waveform, readers[r].got, readers[r].want, Stream(Source(r)))'
    BY <1>1, <2>2, <2>3, <2>4, <2>5 DEF InStep, Stream, Unsent
  <2>7. (waveform' # << >> \/ readers'[r].want = FRAME_WORDS) /\ ~Dead(Source(r))' =>
          (Source(r) = accepted["in"] /\ frames # 0)'
    BY <1>1, <1>2, <2>2, <2>3, <2>4, <2>5 DEF Dead
  <2> QED
    BY <1>2, <2>2, <2>3, <2>6, <2>7 DEF ReaderInStep
<1>6. /\ readers' \in Seq(Readers) /\ ReadersSane' /\ ReadersInStep' /\ Len(readers') = Len(readers)
      /\ ~crowded => r = Len(readers)
  <2>1. Running(r) /\ crowded' = crowded /\ conns' = conns
    BY <1>1, <1>2, <1>3 DEF Running
  <2>2. (x.at = "recv" => x.conn \in 1 .. Len(conns)) /\ Len(x.got) < x.want
    BY <1>0, <1>3
  <2> HIDE DEF Moved
  <2> QED
    BY <1>3, <1>5, <2>1, <2>2, OneReaderMoves
<1>7. TypeOK'
  BY <1>1, <1>6 DEF SampleInv, TypeOK, LinkInv
<1>8. Buffered' /\ OnTheWire'
  BY <1>1, <1>2 DEF SampleInv, Buffered, OnTheWire, Stream, Unsent, Dead, Word
<1>9. Cleared'
  <2> SUFFICES ASSUME ~crowded, host = "connect", Past("log"), ~Past("in")
               PROVE  waveform = << >>
    BY <1>1, <1>2, OthersStay DEF Cleared
  <2>1. readers[r].at # "test"
    BY <1>0, <1>3, Sizes DEF LinkInv, InTurn
  <2> QED
    BY <1>6, <2>1 DEF SampleInv, Cleared
<1>10. WaveformInStep'
  BY <1>1, ShownStays DEF SampleInv
<1> QED
  BY <1>6, <1>7, <1>8, <1>9, <1>10 DEF SampleInv

(* What a reader wants next, after some words, a tag, another word, the    *)
(* samples of a frame. *)
LEMMA WordsTaken ==
  ASSUME NEW shown, NEW g \in Seq(Words), NEW want, NEW a \in Seq(Words), NEW rest \in Seq(Words),
         InStep(shown, g, want, a \o rest)
  PROVE  InStep(shown, g \o a, want, rest)
<1>1. (g \o a) \o rest = g \o (a \o rest)
  BY WordsInThree
<1> QED
  BY <1>1 DEF InStep

LEMMA TagTaken ==
  ASSUME NEW shown, NEW g \in Seq(Words), NEW rest \in Seq(Words),
         InStep(shown, g, 1, rest), Len(g) = 1, IsTag(g[1])
  PROVE  InStep(shown, << >>, FRAME_WORDS, rest)
<1>0. 1 \in 1 .. Len(g) /\ Len(g) # 0
  OBVIOUS
<1>1. g # << >> /\ g[1] \in Words
  BY <1>0, NonEmpty, ElementOfSeq
<1>2. g \o rest # << >> /\ (g \o rest)[1] = g[1]
  BY <1>1, FirstOfTwo
<1>3. Chain(rest) /\ (rest # << >> => rest[1] = After(g[1]))
  BY <1>1, ChainSplits DEF InStep
<1>4. After(g[1]).part = 1
  BY <1>1, Sizes DEF IsTag, After, Words
<1>5. << >> \o rest = rest
  BY ConcatEmptySeq
<1> QED
  BY <1>2, <1>3, <1>4, <1>5, Sizes DEF InStep

LEMMA WordSkipped ==
  ASSUME NEW shown, NEW g \in Seq(Words), NEW rest \in Seq(Words),
         InStep(shown, g, 1, rest), Len(g) = 1, ~IsTag(g[1]),
         shown # << >> => shown[Len(shown)][FRAME_WORDS] =
                            [run |-> shown[Len(shown)][1].run,
                             frame |-> shown[Len(shown)][1].frame, part |-> FRAME_WORDS]
  PROVE  InStep(shown, << >>, 1, rest)
<1>0. Len(g) # 0
  BY Sizes
<1>1. g # << >>
  BY <1>0, NonEmpty
<1>2. g \o rest # << >> /\ (g \o rest)[1] = g[1]
  BY <1>1, FirstOfTwo
<1>3. shown = << >>
  <2> SUFFICES ASSUME shown # << >> PROVE FALSE
    OBVIOUS
  <2>1. g[1] = After(shown[Len(shown)][FRAME_WORDS])
    BY <1>2 DEF InStep
  <2> QED
    BY <2>1 DEF After, IsTag
<1>4. Chain(rest)
  BY ChainSplits DEF InStep
<1> QED
  BY <1>3, <1>4, InStepFresh

LEMMA FrameTaken ==
  ASSUME NEW shown \in Seq(Seq(Words)), NEW g \in Seq(Words), NEW rest \in Seq(Words),
         InStep(shown, g, FRAME_WORDS, rest), Len(g) = FRAME_WORDS
  PROVE  /\ IsFrame(g)
         /\ InStep(Append(shown, g), << >>, 1, rest)
         /\ shown # << >> => g[1] = After(After(shown[Len(shown)][FRAME_WORDS]))
<1>1. g # << >>
  BY EmptySeq, Sizes
<1>2. g \o rest # << >> /\ (g \o rest)[1] = g[1]
  BY <1>1, FirstOfTwo
<1>3. Chain(g) /\ Chain(rest) /\ (rest # << >> => rest[1] = After(g[FRAME_WORDS]))
  BY <1>1, ChainSplits DEF InStep
<1>4. g[1].part = 1 /\ (shown # << >> => g[1] = After(After(shown[Len(shown)][FRAME_WORDS])))
  BY <1>2, Sizes DEF InStep
<1>5. IsFrame(g)
  BY <1>3, <1>4, PartsOfFrame
<1>6. Append(shown, g)[Len(Append(shown, g))] = g
  BY AppendProperties
<1>7. << >> \o rest = rest /\ FRAME_WORDS # 1
  BY ConcatEmptySeq, Sizes
<1>8. InStep(Append(shown, g), << >>, 1, rest)
  BY <1>3, <1>6, <1>7 DEF InStep
<1> QED
  BY <1>4, <1>5, <1>8

LEMMA LastShown ==
  ASSUME WaveformInStep, ~crowded, waveform # << >>, waveform \in Seq(Seq(Words))
  PROVE  /\ waveform[Len(waveform)][FRAME_WORDS] =
              [run |-> waveform[Len(waveform)][1].run,
               frame |-> waveform[Len(waveform)][1].frame, part |-> FRAME_WORDS]
         /\ waveform[Len(waveform)][1].frame \in 1 .. MaxFrames
<1> DEFINE w == waveform[Len(waveform)]
<1>1. Len(waveform) \in DOMAIN waveform
  <2>1. Len(waveform) \in Nat \ {0} /\ DOMAIN waveform = 1 .. Len(waveform)
    BY EmptySeq, LenProperties
  <2> QED
    BY <2>1
<1>2. IsFrame(w)
  BY <1>1 DEF WaveformInStep
<1>3. PICK r \in 1 .. MaxRuns, f \in 1 .. MaxFrames :
         w = [i \in 1 .. FRAME_WORDS |-> [run |-> r, frame |-> f, part |-> i]]
  BY <1>2 DEF IsFrame
<1>4. /\ w[FRAME_WORDS] = [run |-> r, frame |-> f, part |-> FRAME_WORDS]
      /\ w[1] = [run |-> r, frame |-> f, part |-> 1]
  BY <1>3, Sizes
<1> QED
  BY <1>4

(* Once more is shown. *)
LEMMA ShowsNext ==
  ASSUME WaveformInStep, waveform \in Seq(Seq(Words)), NEW g \in Seq(Words), IsFrame(g),
         waveform' = Append(waveform, g), crowded' = crowded,
         ~crowded /\ waveform # << >> =>
           g[1] = After(After(waveform[Len(waveform)][FRAME_WORDS]))
  PROVE  WaveformInStep'
<1> SUFFICES ASSUME ~crowded PROVE WaveformInStep'
  BY DEF WaveformInStep
<1> DEFINE n == Len(waveform)
<1>1. /\ n \in Nat /\ DOMAIN waveform = 1 .. n
      /\ Len(Append(waveform, g)) = n + 1 /\ DOMAIN Append(waveform, g) = 1 .. n + 1
      /\ \A i \in 1 .. n : Append(waveform, g)[i] = waveform[i]
      /\ Append(waveform, g)[n + 1] = g
  BY AppendProperties, LenProperties
<1>2. /\ \A i \in 1 .. n : IsFrame(waveform[i])
      /\ \A i \in 1 .. n - 1 : /\ waveform[i][1].run = waveform[i + 1][1].run
                               /\ waveform[i][1].frame + 1 = waveform[i + 1][1].frame
  BY <1>1 DEF WaveformInStep
<1>3. n # 0 => waveform[n][1].run = g[1].run /\ waveform[n][1].frame + 1 = g[1].frame
  <2> SUFFICES ASSUME n # 0
               PROVE  waveform[n][1].run = g[1].run /\ waveform[n][1].frame + 1 = g[1].frame
    OBVIOUS
  <2>1. waveform # << >>
    BY EmptySeq
  <2>2. waveform[n][FRAME_WORDS] = [run |-> waveform[n][1].run, frame |-> waveform[n][1].frame,
                                    part |-> FRAME_WORDS]
    BY <2>1, LastShown
  <2>3. g[1] = After(After(waveform[n][FRAME_WORDS]))
    BY <2>1
  <2> HIDE DEF n
  <2>4. After(waveform[n][FRAME_WORDS]) = [run |-> waveform[n][1].run,
                                          frame |-> waveform[n][1].frame + 1, part |-> 0]
    BY <2>2, AfterLast
  <2>5. After(After(waveform[n][FRAME_WORDS])) = [run |-> waveform[n][1].run,
                                                 frame |-> waveform[n][1].frame + 1, part |-> 1]
    BY <2>4, AfterTag, Zenon
  <2> QED
    BY <2>3, <2>5
<1> DEFINE longer == Append(waveform, g)
<1> HIDE DEF n, longer
<1>4. \A i \in 1 .. n + 1 : IsFrame(longer[i])
  BY <1>1, <1>2 DEF longer
<1>5. ASSUME NEW i \in 1 .. n
      PROVE  /\ longer[i][1].run = longer[i + 1][1].run
             /\ longer[i][1].frame + 1 = longer[i + 1][1].frame
  <2>1. CASE i = n
    BY <1>1, <1>3, <2>1 DEF longer
  <2>2. CASE i # n
    BY <1>1, <1>2, <2>2 DEF longer
  <2> QED
    BY <2>1, <2>2
<1>6. waveform' = longer /\ Len(longer) - 1 = n /\ DOMAIN longer = 1 .. n + 1
  BY <1>1 DEF longer
<1>7. /\ \A i \in DOMAIN waveform' : IsFrame(waveform'[i])
      /\ \A i \in 1 .. Len(waveform') - 1 :
           /\ waveform'[i][1].run = waveform'[i + 1][1].run
           /\ waveform'[i][1].frame + 1 = waveform'[i + 1][1].frame
  BY <1>4, <1>5, <1>6
<1> QED
  BY <1>7 DEF WaveformInStep, IsFrame

(* A chunk arrives. *)
LEMMA ChunkKeeps ==
  ASSUME SampleInv, LinkInv', NEW r \in DOMAIN readers, ReaderChunk(r)
  PROVE  SampleInv'
<1> DEFINE was == readers[r]
           Readers == [at : {"test", "call", "recv", "done"}, conn : 0 .. MaxConns,
                       want : {1, FRAME_WORDS}, got : Seq(Words)]
<1>0. /\ LinkInv /\ TypeOK /\ OnTheWire /\ WaveformInStep
      /\ Len(conns) \in Nat /\ Len(conns) <= MaxConns
      /\ Len(readers) \in Nat /\ r \in 1 .. Len(readers)
      /\ was \in Readers /\ was.got \in Seq(Words) /\ was.want \in {1, FRAME_WORDS}
      /\ Len(was.got) \in Nat /\ Len(was.got) < was.want
      /\ was.at = "recv" /\ was.conn \in 1 .. Len(conns)
      /\ ReaderInStep(r) \/ crowded
      /\ wire \in [1 .. MaxConns -> Seq(Words)] /\ waveform \in Seq(Seq(Words))
  BY ConnectionFacts, ReaderTypes
  DEF SampleInv, LinkInv, ReadersSane, ReadersInStep, ReaderChunk, Chunk, TypeOK
<1>1. PICK c, g, w : c = was.conn /\ g = was.got /\ w = was.want
  OBVIOUS
<1>2. c \in 1 .. MaxConns /\ c # 0 /\ wire[c] \in Seq(Words) /\ Len(wire[c]) \in Nat
  BY <1>0, <1>1, LenProperties, Sizes
<1>3. PICK n \in 1 .. w - Len(g) :
        /\ n <= Len(wire[c])
        /\ wire' = [wire EXCEPT ![c] = SubSeq(wire[c], n + 1, Len(wire[c]))]
        /\ IF Len(g \o SubSeq(wire[c], 1, n)) >= w
             THEN Complete(r, g \o SubSeq(wire[c], 1, n))
             ELSE /\ readers' = [readers EXCEPT ![r].at = "call",
                                                ![r].got = g \o SubSeq(wire[c], 1, n)]
                  /\ UNCHANGED waveform
  BY <1>1 DEF ReaderChunk, Chunk
<1>4. UNCHANGED <<link, frames, sendbuf, crowded>>
  BY DEF ReaderChunk, Chunk
<1>5. UNCHANGED <<up, run, accepted, conns, sock, closed, host, next, connected>>
  BY <1>4 DEF link, device, client
<1>6. PICK a, b : a = SubSeq(wire[c], 1, n) /\ b = SubSeq(wire[c], n + 1, Len(wire[c]))
  OBVIOUS
<1>7. /\ g \in Seq(Words) /\ Len(g) \in Nat /\ w \in {1, FRAME_WORDS} /\ w \in Nat /\ Len(g) < w
      /\ n \in Nat /\ n >= 1 /\ n <= w - Len(g)
  <2>1. /\ g \in Seq(Words) /\ Len(g) \in Nat /\ w \in {1, FRAME_WORDS} /\ Len(g) < w
        /\ n \in 1 .. w - Len(g)
    BY <1>0, <1>1
  <2> QED
    BY <2>1, Sizes
<1>8. /\ a \in Seq(Words) /\ Len(a) = n /\ b \in Seq(Words) /\ wire[c] = a \o b
      /\ a # << >>
  <2>1. n \in 0 .. Len(wire[c])
    BY <1>2, <1>3, <1>7
  <2>2. /\ a \in Seq(Words) /\ Len(a) = n /\ b \in Seq(Words) /\ wire[c] = a \o b
    BY <1>2, <1>6, <2>1, CutStream, Zenon
  <2>3. n # 0
    BY <1>7
  <2> QED
    BY <2>2, <2>3, NonEmpty
<1>9. PICK got : got = g \o a
  OBVIOUS
<1>10. got \in Seq(Words) /\ Len(got) = Len(g) + n /\ Len(got) <= w
  <2>1. g \o a \in Seq(Words) /\ Len(g \o a) = Len(g) + Len(a)
    BY <1>7, <1>8, ConcatProperties, Zenon
  <2> QED
    BY <1>7, <1>8, <1>9, <2>1
<1>11. PICK rest, unsent : rest = b \o unsent /\ unsent = Unsent(c)
  OBVIOUS
<1>12. /\ unsent \in Seq(Words) /\ rest \in Seq(Words)
       /\ Stream(c) = a \o rest /\ Stream(c)' = rest /\ Chain(rest)
  <2>1. unsent \in Seq(Words) /\ Stream(c) = (a \o b) \o unsent
    BY <1>0, <1>2, <1>8, <1>11, StreamTypes DEF Stream
  <2>2. rest \in Seq(Words) /\ (a \o b) \o unsent = a \o rest
    <3>1. b \o unsent \in Seq(Words) /\ (a \o b) \o unsent = a \o (b \o unsent)
      <4>1. b \o unsent \in Seq(Words)
        BY <1>8, <2>1, FirstOfTwo
      <4> QED
        <5>1. a \in Seq(Words) /\ b \in Seq(Words) /\ unsent \in Seq(Words)
          BY <1>8, <2>1
        <5> QED
          BY <4>1, <5>1, WordsInThree
    <3> QED
      BY <1>11, <3>1, Zenon
  <2>3. wire'[c] = b
    BY <1>0, <1>2, <1>3, <1>6
  <2>4. Stream(c)' = rest
    BY <1>4, <1>5, <1>11, <2>3 DEF Stream, Unsent
  <2>5. Chain(a \o rest)
    BY <1>0, <1>2, <2>1, <2>2 DEF OnTheWire
  <2> QED
    BY <1>8, <2>1, <2>2, <2>4, <2>5, ChainSplits
<1>13. ~crowded =>
         /\ Running(r) /\ Source(r) = c /\ sock["in"] \in {0, c}
         /\ InStep(waveform, got, w, rest)
  <2>1. Running(r) /\ Source(r) = c
    BY <1>0, <1>1 DEF Running, Source
  <2>2. ~crowded => sock["in"] \in {0, c} /\ InStep(waveform, g, w, a \o rest)
    BY <1>0, <1>1, <1>2, <1>12, <2>1 DEF ReaderInStep
  <2> QED
    BY <1>7, <1>8, <1>9, <1>12, <2>1, <2>2, WordsTaken
<1> DEFINE Next1(x) == /\ readers' = [readers EXCEPT ![r] = x] /\ x \in Readers
                       /\ x.at \in {"call", "test"} /\ Len(x.got) < x.want
                       /\ x.at = "call" => waveform' = waveform
                       /\ waveform' \in Seq(Seq(Words)) /\ WaveformInStep'
                       /\ ~crowded => InStep(waveform', x.got, x.want, rest)
<1>14. NewReader \in Readers /\ Len(NewReader.got) < NewReader.want
       /\ NewReader.at = "test" /\ NewReader.got = << >> /\ NewReader.want = 1
  BY EmptySeq, Sizes DEF NewReader
<1>15. waveform' = waveform => waveform' \in Seq(Seq(Words)) /\ WaveformInStep'
  BY <1>0, <1>4, ShownStays
<1>16. \E x : Next1(x)
  <2>1. CASE Len(got) < w
    <3> DEFINE x == [was EXCEPT !.at = "call", !.got = got]
    <3>1. ~(Len(got) >= w)
      BY <1>7, <1>10, <2>1
    <3>2. /\ readers' = [readers EXCEPT ![r].at = "call", ![r].got = got]
          /\ waveform' = waveform
      BY <1>3, <1>6, <1>9, <3>1
    <3>3. readers' = [readers EXCEPT ![r] = x]
      BY <1>0, <3>2
    <3>4. x \in Readers /\ x.at = "call" /\ x.got = got /\ x.want = w
      BY <1>0, <1>1, <1>10
    <3> HIDE DEF x, Readers
    <3> QED
      BY <1>13, <1>15, <2>1, <3>2, <3>3, <3>4
  <2>2. CASE Len(got) = w
    <3>1. Complete(r, got)
      BY <1>3, <1>6, <1>7, <1>9, <2>2
    <3>2. CASE w = 1
      <4>1. /\ readers' = [readers EXCEPT ![r] =
                             IF IsTag(got[1])
                               THEN [readers[r] EXCEPT !.at = "call", !.want = FRAME_WORDS,
                                                       !.got = << >>]
                               ELSE NewReader]
            /\ waveform' = waveform
        BY <1>1, <3>1, <3>2 DEF Complete
      <4>2. CASE IsTag(got[1])
        <5> DEFINE x == [was EXCEPT !.at = "call", !.want = FRAME_WORDS, !.got = << >>]
        <5>1. readers' = [readers EXCEPT ![r] = x]
          BY <4>1, <4>2
        <5>2. x \in Readers /\ x.at = "call" /\ x.got = << >> /\ x.want = FRAME_WORDS
          BY <1>0, EmptySeq
        <5>3. Len(x.got) < x.want
          BY <5>2, EmptySeq, Sizes
        <5>4. ~crowded => InStep(waveform', x.got, x.want, rest)
          BY <1>10, <1>12, <1>13, <2>2, <3>2, <4>1, <4>2, <5>2, TagTaken
        <5> HIDE DEF x, Readers
        <5> QED
          BY <1>15, <4>1, <5>1, <5>2, <5>3, <5>4
      <4>3. CASE ~IsTag(got[1])
        <5>1. ~crowded => InStep(waveform', << >>, 1, rest)
          BY <1>0, <1>10, <1>12, <1>13, <2>2, <3>2, <4>1, <4>3, WordSkipped, LastShown
        <5>2. readers' = [readers EXCEPT ![r] = NewReader]
          BY <4>1, <4>3
        <5> HIDE DEF Readers
        <5> QED
          BY <1>14, <1>15, <4>1, <5>1, <5>2
      <4> QED
        BY <4>2, <4>3
    <3>3. CASE w = FRAME_WORDS /\ w # 1
      <4>1. readers' = [readers EXCEPT ![r] = NewReader] /\ waveform' = Append(waveform, got)
        BY <1>1, <3>1, <3>3 DEF Complete
      <4>2. waveform' \in Seq(Seq(Words))
        BY <1>0, <1>10, <4>1, AppendProperties
      <4>3. ~crowded =>
              /\ IsFrame(got) /\ InStep(waveform', << >>, 1, rest)
              /\ waveform # << >> =>
                   got[1] = After(After(waveform[Len(waveform)][FRAME_WORDS]))
        BY <1>0, <1>10, <1>12, <1>13, <2>2, <3>3, <4>1, FrameTaken
      <4>4. WaveformInStep'
        <5>1. CASE crowded
          BY <1>4, <5>1 DEF WaveformInStep
        <5>2. CASE ~crowded
          BY <1>0, <1>4, <1>10, <4>1, <4>3, <5>2, ShowsNext
        <5> QED
          BY <5>1, <5>2
      <4> HIDE DEF Readers
      <4> QED
        BY <1>14, <4>1, <4>2, <4>3, <4>4
    <3> QED
      BY <1>7, <3>2, <3>3
  <2> QED
    BY <1>7, <1>10, <2>1, <2>2
<1>17. PICK x : Next1(x)
  BY <1>16
<1>18. readers'[r] = x
  BY <1>0, <1>17, ReaderTypes
<1>19. ~crowded /\ r = Len(readers) => ReaderInStep(r)'
  <2> SUFFICES ASSUME ~crowded, Source(r)' # 0 PROVE ReaderInStep(r)'
    BY DEF ReaderInStep
  <2>1. Source(r)' = c /\ sock'["in"] = c
    BY <1>5, <1>13, <1>17, <1>18 DEF Source
  <2>2. InStep(waveform', readers'[r].got, readers'[r].want, rest)
    BY <1>17, <1>18
  <2>3. InStep(waveform, readers[r].got, readers[r].want, Stream(Source(r)))'
    BY <1>12, <2>1, <2>2 DEF InStep, Stream, Unsent
  <2>4. ~Dead(Source(r))' => (Source(r) = accepted["in"] /\ frames # 0)'
    <3>1. wire[c] # << >>
      BY <1>8, FirstOfTwo
    <3>2. ~Dead(c) => c = accepted["in"] /\ frames # 0
      BY <1>0, <1>2, <3>1 DEF OnTheWire
    <3> QED
      BY <1>4, <1>5, <2>1, <3>2 DEF Dead
  <2> QED
    BY <2>1, <2>3, <2>4 DEF ReaderInStep
<1>20. /\ readers' \in Seq(Readers) /\ ReadersSane' /\ ReadersInStep' /\ Len(readers') = Len(readers)
       /\ ~crowded => r = Len(readers)
  <2>1. Running(r) /\ crowded' = crowded /\ conns' = conns
    BY <1>0, <1>4, <1>5 DEF Running
  <2>2. x.at # "recv" /\ Len(x.got) < x.want /\ readers' = [readers EXCEPT ![r] = x] /\ x \in Readers
    BY <1>17
  <2> HIDE DEF Next1
  <2> QED
    BY <1>19, <2>1, <2>2, OneReaderMoves
<1>21. wire' \in [1 .. MaxConns -> Seq(Words)]
       /\ wire'[c] = b /\ \A d \in 1 .. MaxConns : d # c => wire'[d] = wire[d]
  BY <1>0, <1>2, <1>3, <1>6, <1>8
<1>22. TypeOK'
  <2>1. waveform' \in Seq(Seq(Words))
    BY <1>17
  <2> QED
    BY <1>0, <1>4, <1>20, <1>21, <2>1 DEF TypeOK, LinkInv
<1>23. OnTheWire'
  <2> SUFFICES ASSUME NEW d \in 1 .. MaxConns
               PROVE  /\ Chain(Stream(d)')
                      /\ wire'[d] # << >> => /\ d \in 1 .. Len(conns')
                                             /\ ~Dead(d)' => d = accepted'["in"] /\ frames' # 0
    BY DEF OnTheWire
  <2>1. wire'[d] # << >> => wire[d] # << >>
    BY <1>8, <1>21, FirstOfTwo
  <2>2. Chain(Stream(d)')
    <3>1. CASE d = c
      BY <1>12, <3>1
    <3>2. CASE d # c
      <4>1. Stream(d)' = Stream(d)
        BY <1>4, <1>5, <1>21, <3>2 DEF Stream, Unsent
      <4> QED
        BY <1>0, <4>1 DEF OnTheWire
    <3> QED
      BY <3>1, <3>2
  <2>3. (Dead(d)' <=> Dead(d)) /\ conns' = conns /\ accepted' = accepted /\ frames' = frames
    BY <1>4, <1>5 DEF Dead
  <2>4. wire[d] # << >> => d \in 1 .. Len(conns) /\ (~Dead(d) => d = accepted["in"] /\ frames # 0)
    BY <1>0 DEF OnTheWire
  <2> QED
    BY <2>1, <2>2, <2>3, <2>4, Zenon
<1>24. Buffered'
  BY <1>4, <1>5 DEF SampleInv, Buffered, Word
<1>25. Cleared'
  <2> SUFFICES ASSUME ~crowded, host = "connect", Past("log"), ~Past("in")
               PROVE  waveform' = << >> \/ (readers' # << >> /\ readers'[Len(readers')].at = "test")
    BY <1>4, <1>5, OthersStay DEF Cleared
  <2>1. waveform = << >>
    BY <1>0, <1>20 DEF SampleInv, Cleared
  <2>2. CASE x.at = "call"
    BY <1>17, <2>1, <2>2
  <2>3. CASE x.at = "test"
    <3>1. r = Len(readers') /\ r \in 1 .. Len(readers')
      BY <1>0, <1>20
    <3>2. readers' # << >>
      BY <1>20, <3>1, EmptySeq
    <3> QED
      BY <1>18, <2>3, <3>1, <3>2
  <2> QED
    BY <1>17, <2>2, <2>3
<1>26. WaveformInStep'
  BY <1>17
<1> QED
  BY <1>20, <1>22, <1>23, <1>24, <1>25, <1>26 DEF SampleInv

-----------------------------------------------------------------------------
LEMMA NextKeepsSampleInv == SampleInv /\ [Next]_vars => SampleInv'
<1> SUFFICES ASSUME SampleInv, [Next]_vars PROVE SampleInv'
  OBVIOUS
<1>1. LinkInv
  BY DEF SampleInv
<1>2. LinkStep
  <2>1. CASE Start \/ NetThread \/ Stop
    BY <2>1, Zenon DEF Start, NetThread, Stop, LinkStep
  <2>2. CASE HostThread \/ ClearData
    BY <2>2, Zenon DEF HostThread, ClearData, LinkStep
  <2>3. CASE ConnectInput
    <3>1. HostConnect("in") /\ "in" \in PortSet
      BY <2>3, Sizes DEF ConnectInput, StartReader
    <3> QED
      BY <3>1, Zenon DEF LinkStep
  <2>4. CASE enqueue_input_buffer \/ TailIsLost \/ UNCHANGED vars
    <3>1. UNCHANGED link
      BY <2>4 DEF enqueue_input_buffer, Enqueue, TailIsLost, vars
    <3> QED
      BY <3>1 DEF LinkStep
  <2>5. CASE \E r \in DOMAIN readers : ReaderStep(r)
    BY <2>5 DEF ReaderStep, ReaderTest, ReaderCall, ReaderChunk, Chunk, ReaderEnds, LinkStep
  <2> QED
    BY <2>1, <2>2, <2>3, <2>4, <2>5 DEF Next
<1>3. LinkInv'
  BY <1>1, <1>2, LinkStepKeepsLink
<1>4. CASE Start \/ NetThread \/ enqueue_input_buffer \/ Stop \/ TailIsLost
  BY <1>2, <1>3, <1>4, DeviceKeeps
<1>5. CASE HostThread \/ ClearData
  BY <1>2, <1>3, <1>5, HostKeeps
<1>6. CASE ConnectInput
  BY <1>2, <1>3, <1>6, ConnectKeeps
<1>7. CASE \E r \in DOMAIN readers : ReaderStep(r)
  BY <1>3, <1>7, IdleReaderKeeps, ChunkKeeps DEF ReaderStep
<1>8. CASE UNCHANGED vars
  <2>1. UNCHANGED <<readers, crowded, waveform, frames, sendbuf, wire, link>>
    BY <1>8 DEF vars
  <2>2. UNCHANGED <<up, run, accepted, conns, sock, closed, host, next>>
    BY <2>1 DEF link, device, client
  <2>3. TypeOK'
    BY <1>3, <2>1 DEF SampleInv, TypeOK, LinkInv
  <2>4. Buffered' /\ OnTheWire' /\ \A c \in 1 .. Len(conns) : StreamGoesOn(c)
    BY <1>2, <2>1, <2>2, LinkMoves DEF SampleInv
  <2>5. OpenForInput' => OpenForInput
    BY <2>2, OthersStay DEF OpenForInput
  <2>6. Len(conns') \in Nat /\ Len(conns') >= Len(conns)
    BY <1>1, <1>2, ConnsGrow
  <2> QED
    BY <1>3, <2>1, <2>2, <2>3, <2>4, <2>5, <2>6, QuietKeeps
<1> QED
  BY <1>4, <1>5, <1>6, <1>7, <1>8 DEF Next

LEMMA SampleInvHolds == Spec => []SampleInv
<1>1. Init => SampleInv
  BY InitSampleInv
<1>2. SampleInv /\ [Next]_vars => SampleInv'
  BY NextKeepsSampleInv
<1> QED
  BY <1>1, <1>2, PTL DEF Spec

(* SampleStream.TypeOK, for any number of runs, connections and frames:    *)
(* send_inbuffer never holds more than it has room for, and no reader has  *)
(* more than the words it asked for.                                       *)
THEOREM StreamTypeCorrect == Spec => []TypeOK
<1>1. SampleInv => TypeOK
  BY DEF SampleInv
<1> QED
  BY <1>1, SampleInvHolds, PTL

(* SampleStream.WaveformInStep, for any number of runs, connections and    *)
(* frames, and streams cut in any way: as long as no reader thread         *)
(* outlives its connection into the time of the next, what is shown is     *)
(* whole frames, each next to the one after it.                            *)
THEOREM SamplesStayInStep == Spec => []WaveformInStep
<1>1. SampleInv => WaveformInStep
  BY DEF SampleInv
<1> QED
  BY <1>1, SampleInvHolds, PTL
=============================================================================
