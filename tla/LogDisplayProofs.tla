-------------------------- MODULE LogDisplayProofs --------------------------
(***************************************************************************)
(* Theorems about LogDisplay, for any number of runs, connections, frames  *)
(* and summary lines, screens of any size, and a log cut in any way: the   *)
(* types, and what the screen shows of the log.  The inductive invariant   *)
(* says that what read_data holds and what is on its way to it are, after  *)
(* what an earlier connection left, the lines sent from one line on, and   *)
(* that the screen shows the lines before that one.                        *)
(***************************************************************************)
EXTENDS LogDisplay, HostLinkProofs, FiniteSetTheorems

Lines == [frame : 1 .. MaxFrames, kind : 0 .. SUMMARY_LINES]

LEMMA Sizes ==
  /\ SUMMARY_EVERY \in Nat \ {0} /\ SUMMARY_LINES \in Nat \ {0}
  /\ MAX_FRAMES \in Nat \ {0} /\ RECV_SIZE \in Nat \ {0} /\ MaxFrames \in Nat
  /\ MaxRuns \in Nat /\ MaxConns \in Nat /\ "log" \in PortSet
BY DisplayAssumption, LinksAssumption, PortsAssumption

-----------------------------------------------------------------------------
(* What a line can do to the screen. *)

(* Either a frame or a label is set, from a piece of the line, or nothing. *)
ShowsFrame(d, l, m, after) ==
  after = [d EXCEPT !.frame_numbers = Bounded(Append(@, Figures(l[m]))),
                    !.modes = Append(@, mode[l[m].run])]
ShowsLabel(d, l, k, m, after) == after = [d EXCEPT !.live_summary[k] = Figures(l[m])]

LEMMA MatchIsFirst ==
  ASSUME NEW l \in Seq(Pieces), NEW kinds, Match(l, kinds) # 0
  PROVE  /\ Match(l, kinds) \in 1 .. Len(l)
         /\ l[Match(l, kinds)].part = 1 /\ l[Match(l, kinds) + 2].part = 3
<1> DEFINE found == {i \in 1 .. Len(l) - 2 :
                       l[i].part = 1 /\ l[i + 2].part = 3 /\ l[i + 2].kind \in kinds}
           first == CHOOSE i \in found : \A j \in found : i <= j
           Less  == {ss \in Nat \X Nat : ss[1] < ss[2]}
<1>1. Len(l) \in Nat
  BY LenProperties
<1>2. found # {} /\ Match(l, kinds) = first
  BY DEF Match
<1>3. IsWellFoundedOn(Less, Nat)
  BY NatLessThanWellFounded DEF OpToRel
<1>4. found \subseteq 1 .. Len(l) /\ found \subseteq Nat
  BY <1>1
<1>5. \A i \in found : l[i].part = 1 /\ l[i + 2].part = 3
  OBVIOUS
<1> HIDE DEF Less, found
<1>6. PICK i \in found : \A j \in found : <<j, i>> \notin Less
  BY <1>2, <1>3, <1>4, WFMin, Zenon
<1>7. ASSUME NEW j \in found PROVE i <= j
  <2>1. <<j, i>> \in Nat \X Nat
    BY <1>4
  <2>2. ~(j < i)
    BY <1>6, <2>1 DEF Less
  <2> QED
    BY <1>4, <2>2
<1>8. first \in found
  BY <1>6, <1>7
<1> QED
  BY <1>2, <1>4, <1>5, <1>8

LEMMA WhatALineDoes ==
  ASSUME NEW d \in Screens, NEW l \in Seq(Pieces), NEW after,
         after = parse_log_line(update_live_summary(d, l), l)
  PROVE  \/ after = d
         \/ \E m \in 1 .. Len(l) : ShowsFrame(d, l, m, after)
         \/ \E k \in 1 .. SUMMARY_LINES, m \in 1 .. Len(l) : ShowsLabel(d, l, k, m, after)
<1>0. Len(l) \in Nat /\ \A m \in 1 .. Len(l) : l[m] \in Pieces
  BY LenProperties, ElementOfSeq
<1> DEFINE between == update_live_summary(d, l)
<1>1. CASE Begins(l, {0}) /\ Match(l, {0}) # 0
  <2>1. l[1].kind = 0 /\ 0 \notin {1} /\ 0 \notin 2 .. SUMMARY_LINES
    BY <1>1 DEF Begins
  <2>2. between = d
    BY <2>1 DEF update_live_summary, Begins
  <2> DEFINE m == Match(l, {0})
  <2>3. m \in 1 .. Len(l) /\ Figures(l[m]).run = l[m].run
    BY <1>1, MatchIsFirst DEF Figures
  <2>4. ShowsFrame(d, l, m, after)
    BY <1>1, <2>2, <2>3 DEF parse_log_line, ShowsFrame
  <2> QED
    BY <2>3, <2>4
<1>2. CASE ~(Begins(l, {0}) /\ Match(l, {0}) # 0)
  <2>1. after = between
    BY <1>2 DEF parse_log_line
  <2>2. CASE Begins(l, {1}) /\ Len(l) = 3
    <3>1. ShowsLabel(d, l, 1, 1, after) /\ 1 \in 1 .. SUMMARY_LINES /\ 1 \in 1 .. Len(l)
      BY <2>1, <2>2, Sizes, SMTT(20) DEF update_live_summary, ShowsLabel
    <3> QED
      BY <3>1
  <2>3. CASE /\ ~(Begins(l, {1}) /\ Len(l) = 3)
             /\ Begins(l, 2 .. SUMMARY_LINES) /\ Match(l, 2 .. SUMMARY_LINES) # 0
    <3> DEFINE m == Match(l, 2 .. SUMMARY_LINES)
    <3>1. m \in 1 .. Len(l) /\ l[1].kind \in 1 .. SUMMARY_LINES
      BY <2>3, MatchIsFirst, Sizes DEF Begins
    <3>2. ShowsLabel(d, l, l[1].kind, m, after)
      BY <2>1, <2>3 DEF update_live_summary, ShowsLabel
    <3> QED
      BY <3>1, <3>2
  <2>4. CASE /\ ~(Begins(l, {1}) /\ Len(l) = 3)
             /\ ~(Begins(l, 2 .. SUMMARY_LINES) /\ Match(l, 2 .. SUMMARY_LINES) # 0)
    BY <2>1, <2>4 DEF update_live_summary
  <2> QED
    BY <2>2, <2>3, <2>4
<1> QED
  BY <1>1, <1>2

(* The line of a frame adds that frame, another line none. *)
LEMMA WhatAWholeLineDoes ==
  ASSUME NEW d \in Screens, NEW l \in Seq(Pieces), Len(l) = 3,
         \A i \in 1 .. 3 : l[i].part = i /\ l[i].kind = l[1].kind, NEW after,
         after = parse_log_line(update_live_summary(d, l), l)
  PROVE  IF l[1].kind = 0 THEN ShowsFrame(d, l, 1, after)
                          ELSE after.frame_numbers = d.frame_numbers
<1>1. 1 \in 1 .. 3 /\ 2 \in 1 .. 3 /\ 3 \in 1 .. 3 /\ 1 .. 3 - 2 = {1}
  OBVIOUS
<1>2. l[2].part = 2 /\ l[1].part = 1 /\ l[3].part = 3 /\ l[3].kind = l[1].kind
  BY <1>1
<1>3. CASE l[1].kind = 0
  <2> DEFINE found == {i \in 1 .. Len(l) - 2 :
                         l[i].part = 1 /\ l[i + 2].part = 3 /\ l[i + 2].kind \in {0}}
  <2>1. found = {1}
    BY <1>1, <1>2, <1>3
  <2>2. (CHOOSE i \in {1} : \A j \in {1} : i <= j) = 1
    OBVIOUS
  <2>3. Match(l, {0}) = 1
    BY <2>1, <2>2 DEF Match
  <2>4. Begins(l, {0})
    BY <1>2, <1>3 DEF Begins
  <2>5. update_live_summary(d, l) = d
    BY <1>3 DEF update_live_summary, Begins
  <2>6. Match(l, {0}) # 0 /\ Figures(l[1]).run = l[1].run
    BY <2>3 DEF Figures
  <2>7. ShowsFrame(d, l, 1, after)
    BY <2>3, <2>4, <2>5, <2>6 DEF parse_log_line, ShowsFrame
  <2> QED
    BY <1>3, <2>7
<1>4. CASE l[1].kind # 0
  <2>1. after = update_live_summary(d, l)
    BY <1>4 DEF parse_log_line, Begins
  <2> QED
    BY <1>4, <2>1 DEF update_live_summary, Screens
<1> QED
  BY <1>3, <1>4

-----------------------------------------------------------------------------
(* The screen before and after. *)

(* A full list loses its first element. *)
PutLast(s, longer) ==
  \E lost \in {0, 1} :
    /\ Len(longer) = Len(s) + 1 - lost
    /\ lost = 1 => Len(s) = MAX_FRAMES
    /\ \A i \in 1 .. Len(longer) - 1 : longer[i] = s[i + lost]

LEMMA OneMoreShown ==
  ASSUME NEW s \in Seq(Shown), Len(s) <= MAX_FRAMES, NEW f \in Shown,
         NEW longer, longer = Bounded(Append(s, f))
  PROVE  /\ longer \in Seq(Shown) /\ Len(longer) \in 1 .. MAX_FRAMES
         /\ longer[Len(longer)] = f
         /\ PutLast(s, longer)
<1> DEFINE t == Append(s, f)
<1> USE DEF PutLast
<1>0. Len(s) \in Nat /\ MAX_FRAMES \in Nat \ {0}
  BY LenProperties, Sizes
<1>1. /\ t \in Seq(Shown) /\ Len(t) = Len(s) + 1 /\ t[Len(s) + 1] = f
      /\ \A i \in 1 .. Len(s) : t[i] = s[i]
  BY AppendProperties
<1> HIDE DEF t
<1>2. CASE Len(t) <= MAX_FRAMES
  <2>1. longer = t
    BY <1>0, <1>1, <1>2 DEF Bounded, t
  <2>2. \A i \in 1 .. Len(longer) - 1 : longer[i] = s[i + 0]
    BY <1>0, <1>1, <2>1
  <2> QED
    BY <1>0, <1>1, <1>2, <2>1, <2>2
<1>3. CASE Len(t) > MAX_FRAMES
  <2>1. longer = Tail(t)
    BY <1>3 DEF Bounded, t
  <2>2. t # << >>
    BY <1>0, <1>1, EmptySeq
  <2>3. /\ longer \in Seq(Shown) /\ Len(longer) = Len(t) - 1
        /\ \A i \in 1 .. Len(longer) : longer[i] = t[i + 1]
    BY <1>1, <2>1, <2>2, HeadTailProperties
  <2>4. Len(s) = MAX_FRAMES /\ Len(longer) = Len(s)
    BY <1>0, <1>1, <1>3, <2>3
  <2>5. longer[Len(longer)] = f
    BY <1>0, <1>1, <2>3, <2>4
  <2>6. \A i \in 1 .. Len(longer) - 1 : longer[i] = s[i + 1]
    BY <1>0, <1>1, <2>3, <2>4
  <2> QED
    BY <1>0, <2>3, <2>4, <2>5, <2>6
<1> QED
  BY <1>0, <1>1, <1>2, <1>3

LEMMA PieceTypes ==
  ASSUME NEW l \in Seq(Pieces), NEW m \in 1 .. Len(l)
  PROVE  /\ l[m] \in Pieces /\ l[m].run \in 1 .. MaxRuns /\ l[m].part \in 1 .. 4
         /\ Figures(l[m]) \in Shown /\ Figures(l[m]).run = l[m].run
         /\ Figures(l[m]).frame = l[m].frame
<1>1. l[m] \in Pieces
  BY ElementOfSeq
<1> QED
  BY <1>1 DEF Pieces, Figures, Shown

LEMMA FrameShown ==
  ASSUME mode \in [1 .. MaxRuns -> {"CPU", "DSP"}],
         NEW d \in Screens, Len(d.frame_numbers) <= MAX_FRAMES, NEW l \in Seq(Pieces),
         NEW m \in 1 .. Len(l), NEW after, ShowsFrame(d, l, m, after)
  PROVE  /\ after \in Screens /\ Len(after.frame_numbers) <= MAX_FRAMES
         /\ after.frame_numbers = Bounded(Append(d.frame_numbers, Figures(l[m])))
         /\ after.modes = Append(d.modes, mode[l[m].run])
         /\ after.live_summary = d.live_summary
<1>1. Figures(l[m]) \in Shown /\ mode[l[m].run] \in {"CPU", "DSP"}
  BY PieceTypes
<1> DEFINE fs == Bounded(Append(d.frame_numbers, Figures(l[m])))
           ms == Append(d.modes, mode[l[m].run])
<1>2. d.frame_numbers \in Seq(Shown) /\ d.modes \in Seq({"CPU", "DSP"})
  BY DEF Screens
<1>3. fs \in Seq(Shown) /\ Len(fs) \in 1 .. MAX_FRAMES
  <2> HIDE DEF fs
  <2>1. fs = Bounded(Append(d.frame_numbers, Figures(l[m])))
    BY DEF fs
  <2> QED
    BY <1>1, <1>2, <2>1, OneMoreShown
<1>4. ms \in Seq({"CPU", "DSP"})
  BY <1>1, <1>2, AppendProperties
<1> HIDE DEF fs, ms
<1>5. after = [d EXCEPT !.frame_numbers = fs, !.modes = ms]
  BY DEF ShowsFrame, fs, ms
<1>6. /\ after \in Screens /\ after.frame_numbers = fs /\ after.modes = ms
      /\ after.live_summary = d.live_summary
  BY <1>3, <1>4, <1>5 DEF Screens
<1> QED
  BY <1>3, <1>6, Sizes DEF fs, ms

LEMMA LabelShown ==
  ASSUME NEW d \in Screens, NEW l \in Seq(Pieces), NEW k \in 1 .. SUMMARY_LINES,
         NEW m \in 1 .. Len(l), NEW after, ShowsLabel(d, l, k, m, after)
  PROVE  /\ after \in Screens
         /\ after.frame_numbers = d.frame_numbers /\ after.modes = d.modes
         /\ after.live_summary = [d.live_summary EXCEPT ![k] = Figures(l[m])]
<1>1. Figures(l[m]) \in Shown
  BY PieceTypes
<1> QED
  BY <1>1 DEF ShowsLabel, Screens

LEMMA BlankScreen ==
  /\ Blank \in Screens /\ Len(Blank.frame_numbers) = 0 /\ Len(Blank.modes) = 0
  /\ Blank.frame_numbers = << >> /\ Blank.modes = << >>
  /\ \A k \in 1 .. SUMMARY_LINES : Blank.live_summary[k] = NoFigures
<1>1. << >> \in Seq(Shown) /\ << >> \in Seq({"CPU", "DSP"}) /\ Len(<< >>) = 0
  BY EmptySeq
<1> QED
  BY <1>1 DEF Blank, Screens

-----------------------------------------------------------------------------
(* What is on the screen. *)

(* All frames but the first are of run r, and drawn in its mode. *)
ModesFit(d, r) ==
  /\ Len(d.frame_numbers) <= Len(d.modes)
  /\ \A i \in 2 .. Len(d.modes) : d.modes[i] = mode[r]
  /\ \A i \in 2 .. Len(d.frame_numbers) : d.frame_numbers[i].run = r

(* One entry at most is of another run. *)
Own(f, r) == f.run \in {0, r}
FewLeft(d, r) ==
  \/ /\ \A k \in 1 .. SUMMARY_LINES : Own(d.live_summary[k], r)
     /\ \A i \in 2 .. Len(d.frame_numbers) : Own(d.frame_numbers[i], r)
  \/ /\ \A i \in 1 .. Len(d.frame_numbers) : Own(d.frame_numbers[i], r)
     /\ \E k \in 1 .. SUMMARY_LINES :
          \A j \in 1 .. SUMMARY_LINES : j = k \/ Own(d.live_summary[j], r)

LEMMA BlankFits == \A r : ModesFit(Blank, r) /\ FewLeft(Blank, r)
BY BlankScreen DEF ModesFit, FewLeft, Own, NoFigures

(* A line of run r leaves it so, and so does any line on a blank screen.   *)
LEMMA LineFits ==
  ASSUME mode \in [1 .. MaxRuns -> {"CPU", "DSP"}],
         NEW d \in Screens, Len(d.frame_numbers) <= MAX_FRAMES, NEW l \in Seq(Pieces),
         NEW r \in 1 .. MaxRuns, ModesFit(d, r), FewLeft(d, r),
         d = Blank \/ \A m \in 1 .. Len(l) : l[m].run = r,
         NEW after, after = parse_log_line(update_live_summary(d, l), l)
  PROVE  ModesFit(after, r) /\ FewLeft(after, r)
<1>1. CASE after = d
  BY <1>1
<1>2. ASSUME NEW m \in 1 .. Len(l), ShowsFrame(d, l, m, after)
      PROVE  ModesFit(after, r) /\ FewLeft(after, r)
  <2> DEFINE f == Figures(l[m])
             fs == d.frame_numbers
             ms == d.modes
  <2>1. /\ after.frame_numbers = Bounded(Append(fs, f)) /\ after.modes = Append(ms, mode[l[m].run])
        /\ after.live_summary = d.live_summary
    BY <1>2, FrameShown
  <2>2. /\ f \in Shown /\ f.run = l[m].run /\ fs \in Seq(Shown) /\ ms \in Seq({"CPU", "DSP"})
        /\ mode[l[m].run] \in {"CPU", "DSP"}
    BY PieceTypes DEF Screens
  <2>3. Len(fs) \in Nat /\ Len(ms) \in Nat
    BY <2>2, LenProperties
  <2>4. /\ Len(after.modes) = Len(ms) + 1 /\ after.modes[Len(ms) + 1] = mode[l[m].run]
        /\ \A i \in 1 .. Len(ms) : after.modes[i] = ms[i]
    BY <2>1, <2>2, AppendProperties
  <2>5. after.frame_numbers[Len(after.frame_numbers)] = f /\ PutLast(fs, after.frame_numbers)
    BY <2>1, <2>2, OneMoreShown
  <2>6. PICK lost \in {0, 1} :
          /\ Len(after.frame_numbers) = Len(fs) + 1 - lost
          /\ lost = 1 => Len(fs) = MAX_FRAMES
          /\ \A i \in 1 .. Len(after.frame_numbers) - 1 : after.frame_numbers[i] = fs[i + lost]
    BY <2>5 DEF PutLast
  <2>7. lost \in {0, 1} /\ Len(after.frame_numbers) = Len(fs) + 1 - lost
    BY <2>6
  <2>8. \A i \in 2 .. Len(fs) : fs[i].run = r
    BY DEF ModesFit
  <2>9. CASE d = Blank
    <3>1. Len(fs) = 0 /\ Len(ms) = 0 /\ \A k \in 1 .. SUMMARY_LINES : d.live_summary[k] = NoFigures
      BY <2>9, BlankScreen
    <3>2. Len(after.frame_numbers) <= 1 /\ Len(after.modes) = 1
      BY <2>4, <2>6, <3>1, Sizes
    <3> QED
      BY <2>1, <3>1, <3>2, <2>3, <2>6 DEF ModesFit, FewLeft, Own, NoFigures
  <2>10. CASE l[m].run = r
    <3>1. \A i \in 2 .. Len(after.frame_numbers) : after.frame_numbers[i].run = r
      <4> SUFFICES ASSUME NEW i \in 2 .. Len(after.frame_numbers)
                   PROVE  after.frame_numbers[i].run = r
        OBVIOUS
      <4>1. CASE i = Len(after.frame_numbers)
        BY <2>2, <2>5, <2>10, <4>1
      <4>2. CASE i # Len(after.frame_numbers)
        <5>1. i \in 1 .. Len(after.frame_numbers) - 1 /\ i + lost \in 2 .. Len(fs)
          BY <2>3, <2>7, <4>2
        <5> QED
          BY <2>6, <2>8, <5>1
      <4> QED
        BY <4>1, <4>2
    <3>2. ModesFit(after, r)
      <4>1. Len(after.frame_numbers) <= Len(after.modes)
        BY <2>3, <2>4, <2>6 DEF ModesFit
      <4>2. ASSUME NEW i \in 2 .. Len(after.modes) PROVE after.modes[i] = mode[r]
        <5>1. i = Len(ms) + 1 \/ i \in 2 .. Len(ms)
          BY <2>3, <2>4
        <5>2. i \in 2 .. Len(ms) => i \in 1 .. Len(ms)
          BY <2>3
        <5> QED
          BY <2>4, <2>10, <5>1, <5>2 DEF ModesFit
      <4> QED
        BY <3>1, <4>1, <4>2 DEF ModesFit
    <3>3. FewLeft(after, r)
      <4>1. CASE \A k \in 1 .. SUMMARY_LINES : Own(d.live_summary[k], r)
        BY <2>1, <3>1, <4>1 DEF FewLeft, Own
      <4>2. CASE \A i \in 1 .. Len(fs) : Own(fs[i], r)
        <5>1. ASSUME NEW i \in 1 .. Len(after.frame_numbers)
              PROVE  Own(after.frame_numbers[i], r)
          <6>1. CASE i = Len(after.frame_numbers)
            BY <2>2, <2>5, <2>10, <6>1 DEF Own
          <6>2. CASE i # Len(after.frame_numbers)
            <7>1. i \in 1 .. Len(after.frame_numbers) - 1 /\ i + lost \in 1 .. Len(fs)
              BY <2>3, <2>7, <6>2
            <7> QED
              BY <2>6, <4>2, <7>1
          <6> QED
            BY <6>1, <6>2
        <5>2. \/ \A k \in 1 .. SUMMARY_LINES : Own(d.live_summary[k], r)
              \/ \E k \in 1 .. SUMMARY_LINES :
                   \A j \in 1 .. SUMMARY_LINES : j = k \/ Own(d.live_summary[j], r)
          BY DEF FewLeft
        <5> QED
          BY <2>1, <3>1, <5>1, <5>2 DEF FewLeft, Own
      <4> QED
        BY <4>1, <4>2 DEF FewLeft
    <3> QED
      BY <3>2, <3>3
  <2> QED
    BY <2>9, <2>10
<1>3. ASSUME NEW k \in 1 .. SUMMARY_LINES, NEW m \in 1 .. Len(l), ShowsLabel(d, l, k, m, after)
      PROVE  ModesFit(after, r) /\ FewLeft(after, r)
  <2>1. /\ after.frame_numbers = d.frame_numbers /\ after.modes = d.modes
        /\ after.live_summary = [d.live_summary EXCEPT ![k] = Figures(l[m])]
    BY <1>3, LabelShown
  <2>2. ModesFit(after, r)
    BY <2>1 DEF ModesFit
  <2>3. /\ d.live_summary \in [1 .. SUMMARY_LINES -> Shown \cup {NoFigures}]
        /\ Figures(l[m]).run = l[m].run
    BY PieceTypes DEF Screens
  <2>4. /\ after.live_summary[k].run = l[m].run
        /\ \A j \in 1 .. SUMMARY_LINES : j # k => after.live_summary[j] = d.live_summary[j]
    BY <2>1, <2>3
  <2>5. CASE d = Blank
    <3>1. \A i \in 1 .. Len(after.frame_numbers) : Own(after.frame_numbers[i], r)
      BY <2>1, <2>5, BlankScreen
    <3>2. \A j \in 1 .. SUMMARY_LINES : j = k \/ Own(after.live_summary[j], r)
      BY <2>4, <2>5, BlankScreen DEF Own, NoFigures
    <3> QED
      BY <2>2, <3>1, <3>2 DEF FewLeft
  <2>6. CASE l[m].run = r
    <3>1. Own(after.live_summary[k], r)
      BY <2>4, <2>6 DEF Own
    <3>2. \A j \in 1 .. SUMMARY_LINES : Own(d.live_summary[j], r) => Own(after.live_summary[j], r)
      BY <2>4, <3>1
    <3>3. FewLeft(after, r)
      BY <2>1, <3>2 DEF FewLeft
    <3> QED
      BY <2>2, <3>3
  <2> QED
    BY <2>5, <2>6
<1> QED
  BY <1>1, <1>2, <1>3, WhatALineDoes

-----------------------------------------------------------------------------
(* The frames of the lines read so far. *)

Piece(r, l, i) == [run |-> r, frame |-> l.frame, kind |-> l.kind, part |-> i]

LEMMA LineTypes ==
  ASSUME NEW s \in Seq(Lines), NEW a \in 1 .. Len(s)
  PROVE  s[a] \in Lines /\ s[a].frame \in Nat /\ s[a].frame \in 1 .. MaxFrames
<1>1. s[a] \in Lines
  BY ElementOfSeq
<1> QED
  BY <1>1, Sizes DEF Lines

LEMMA LineAfterTypes ==
  ASSUME NEW l \in Lines
  PROVE  /\ LineAfter(l) \in [frame : 1 .. MaxFrames + 1, kind : 0 .. SUMMARY_LINES]
         /\ \/ LineAfter(l).frame = l.frame /\ LineAfter(l).kind # 0
            \/ LineAfter(l).frame = l.frame + 1 /\ LineAfter(l).kind = 0
<1>1. /\ l.frame \in 1 .. MaxFrames /\ l.kind \in 0 .. SUMMARY_LINES
      /\ l = [frame |-> l.frame, kind |-> l.kind]
      /\ SUMMARY_LINES \in Nat /\ MaxFrames \in Nat
  BY Sizes DEF Lines
<1>2. CASE l.frame % SUMMARY_EVERY = 0 /\ l.kind < SUMMARY_LINES
  <2>1. LineAfter(l) = [frame |-> l.frame, kind |-> l.kind + 1]
    BY <1>1, <1>2 DEF LineAfter
  <2> QED
    BY <1>1, <1>2, <2>1
<1>3. CASE ~(l.frame % SUMMARY_EVERY = 0 /\ l.kind < SUMMARY_LINES)
  <2>1. LineAfter(l) = [frame |-> l.frame + 1, kind |-> 0]
    BY <1>3 DEF LineAfter
  <2> QED
    BY <1>1, <2>1
<1> QED
  BY <1>2, <1>3

(* The last n entries are frames of run r up to that of line a, and begin  *)
(* with the first frame sent or the next.                                  *)
ShowsLast(shown, r, s, a, n) ==
  /\ \A i \in DOMAIN shown : shown[i].run = r <=> i > Len(shown) - n
  /\ \A i \in 1 .. n : shown[Len(shown) - n + i].frame = s[a].frame - n + i
  /\ s[a].frame - n <= s[1].frame \/ Len(shown) = MAX_FRAMES

Shows(shown, r, s, a) == \E n \in 0 .. Len(shown) : ShowsLast(shown, r, s, a, n)

LEMMA NoneShown ==
  ASSUME NEW r \in 1 .. MaxRuns, NEW s \in Seq(Lines), s # << >>
  PROVE  Shows(<< >>, r, s, 1)
<1>1. Len(s) \in Nat \ {0}
  BY EmptySeq
<1>2. s[1].frame \in Nat
  BY <1>1, LineTypes
<1>3. Len(<< >>) = 0 /\ DOMAIN << >> = 1 .. 0
  BY EmptySeq
<1>4. ShowsLast(<< >>, r, s, 1, 0)
  BY <1>2, <1>3 DEF ShowsLast
<1> QED
  BY <1>3, <1>4 DEF Shows

LEMMA OneShown ==
  ASSUME NEW r \in 1 .. MaxRuns, NEW s \in Seq(Lines), s # << >>,
         NEW f \in Shown, f.run = r => f.frame = s[1].frame,
         NEW none \in Seq(Shown), Len(none) = 0, NEW shown, shown = Bounded(Append(none, f))
  PROVE  Shows(shown, r, s, 1)
<1>1. Len(s) \in Nat \ {0}
  BY EmptySeq
<1>2. s[1].frame \in Nat
  BY <1>1, LineTypes
<1>3. shown \in Seq(Shown) /\ Len(shown) \in 1 .. MAX_FRAMES /\ PutLast(none, shown)
      /\ shown[Len(shown)] = f
  <2>1. Len(none) <= MAX_FRAMES
    BY Sizes
  <2> QED
    BY <2>1, OneMoreShown
<1>4. Len(shown) <= 1
  BY <1>3 DEF PutLast
<1>5. Len(shown) = 1 /\ DOMAIN shown = 1 .. Len(shown)
  BY <1>3, <1>4, Sizes, LenProperties
<1>6. CASE f.run = r
  <2>1. ShowsLast(shown, r, s, 1, 1)
    BY <1>2, <1>3, <1>5, <1>6 DEF ShowsLast
  <2> QED
    BY <1>5, <2>1 DEF Shows
<1>7. CASE f.run # r
  <2>1. ShowsLast(shown, r, s, 1, 0)
    BY <1>2, <1>3, <1>5, <1>7 DEF ShowsLast
  <2> QED
    BY <1>5, <2>1 DEF Shows
<1> QED
  BY <1>6, <1>7

(* The first line read may begin with a leftover. *)
LEMMA ShowsFirst ==
  ASSUME mode \in [1 .. MaxRuns -> {"CPU", "DSP"}],
         NEW d \in Screens, d.frame_numbers = << >>, NEW l \in Seq(Pieces), NEW r \in 1 .. MaxRuns,
         NEW s \in Seq(Lines), s # << >>,
         \A i \in 1 .. Len(l) : l[i].run = r => l[i].frame = s[1].frame,
         NEW after, after = parse_log_line(update_live_summary(d, l), l)
  PROVE  Shows(after.frame_numbers, r, s, 1)
<1>0. Len(d.frame_numbers) = 0 /\ Len(d.frame_numbers) <= MAX_FRAMES
  BY EmptySeq, Sizes
<1>1. CASE after.frame_numbers = << >>
  BY <1>1, NoneShown
<1>2. ASSUME NEW m \in 1 .. Len(l), ShowsFrame(d, l, m, after)
      PROVE  Shows(after.frame_numbers, r, s, 1)
  <2>1. after.frame_numbers = Bounded(Append(d.frame_numbers, Figures(l[m])))
    BY <1>0, <1>2, FrameShown
  <2>2. /\ Figures(l[m]) \in Shown
        /\ Figures(l[m]).run = r => Figures(l[m]).frame = s[1].frame
    BY PieceTypes
  <2>3. d.frame_numbers \in Seq(Shown)
    BY DEF Screens
  <2> QED
    BY <1>0, <2>1, <2>2, <2>3, OneShown
<1>3. ASSUME NEW k \in 1 .. SUMMARY_LINES, NEW m \in 1 .. Len(l), ShowsLabel(d, l, k, m, after)
      PROVE  after.frame_numbers = << >>
  <2>1. after.frame_numbers = d.frame_numbers
    BY <1>3, LabelShown DEF ShowsLabel
  <2> QED
    BY <2>1
<1> QED
  BY <1>1, <1>2, <1>3, <1>0, WhatALineDoes

(* Of m entries the last n are one run's; with one more, of len entries the *)
(* last k are.                                                             *)
OneMoreOf(m, n, lost, len, k) ==
  /\ k = n + 1 \/ (k = n /\ lost = 1)
  /\ \A i \in 1 .. len - 1 : i > len - k <=> i + lost > m - n

LEMMA Shift ==
  ASSUME NEW m \in Nat, NEW n \in 0 .. m, NEW lost \in {0, 1}, NEW len \in Nat \ {0},
         len = m + 1 - lost
  PROVE  \E k \in 1 .. len : OneMoreOf(m, n, lost, len, k)
<1>1. CASE n + 1 <= len
  <2>1. \A i \in 1 .. len - 1 : i > len - (n + 1) <=> i + lost > m - n
    OBVIOUS
  <2>2. n + 1 \in 1 .. len
    BY <1>1
  <2> QED
    BY <2>1, <2>2 DEF OneMoreOf
<1>2. CASE ~(n + 1 <= len)
  <2>1. lost = 1 /\ n = m /\ len = m
    BY <1>2
  <2>2. \A i \in 1 .. len - 1 : i > len - n <=> i + lost > m - n
    BY <2>1
  <2>3. n \in 1 .. len
    BY <2>1
  <2> QED
    BY <2>1, <2>2, <2>3 DEF OneMoreOf
<1> QED
  BY <1>1, <1>2

(* From then on the lines are whole. *)
LEMMA ShowsNext ==
  ASSUME mode \in [1 .. MaxRuns -> {"CPU", "DSP"}],
         NEW d \in Screens, Len(d.frame_numbers) <= MAX_FRAMES, NEW l \in Seq(Pieces),
         NEW r \in 1 .. MaxRuns, NEW s \in Seq(Lines), NEW a \in 1 .. Len(s) - 1, s[a + 1] = LineAfter(s[a]),
         Len(l) = 3, \A i \in 1 .. 3 : l[i] = Piece(r, s[a + 1], i),
         Shows(d.frame_numbers, r, s, a),
         NEW after, after = parse_log_line(update_live_summary(d, l), l)
  PROVE  Shows(after.frame_numbers, r, s, a + 1)
<1> DEFINE f    == Figures(l[1])
           old  == d.frame_numbers
           last == s[a].frame
<1>0. Len(s) \in Nat /\ a \in 1 .. Len(s) /\ 1 \in 1 .. Len(s) /\ 1 \in 1 .. Len(l)
  BY LenProperties
<1>1. s[a] \in Lines /\ last \in Nat /\ s[1].frame \in Nat
  BY <1>0, LineTypes
<1>2. old \in Seq(Shown) /\ Len(old) \in Nat /\ DOMAIN old = 1 .. Len(old)
  BY LenProperties DEF Screens
<1>3. PICK n \in 0 .. Len(old) : ShowsLast(old, r, s, a, n)
  BY DEF Shows
<1>4. IF s[a + 1].kind = 0 THEN ShowsFrame(d, l, 1, after)
                           ELSE after.frame_numbers = old
  <2>1. /\ \A i \in 1 .. 3 : l[i].part = i /\ l[i].kind = l[1].kind
        /\ l[1].kind = s[a + 1].kind
    BY DEF Piece
  <2>2. IF l[1].kind = 0 THEN ShowsFrame(d, l, 1, after)
                         ELSE after.frame_numbers = d.frame_numbers
    BY <2>1, WhatAWholeLineDoes
  <2> QED
    BY <2>1, <2>2
<1>5. CASE s[a + 1].kind # 0
  <2>1. s[a + 1].frame = last /\ after.frame_numbers = old
    BY <1>1, <1>4, <1>5, LineAfterTypes
  <2>2. ShowsLast(old, r, s, a + 1, n)
    BY <1>3, <2>1 DEF ShowsLast
  <2> QED
    BY <2>1, <2>2 DEF Shows
<1>6. CASE s[a + 1].kind = 0
  <2> DEFINE shown == after.frame_numbers
  <2>1. s[a + 1].frame = last + 1
    BY <1>1, <1>6, LineAfterTypes
  <2>2. f \in Shown /\ f.run = r /\ f.frame = last + 1
    BY <1>0, <2>1, PieceTypes DEF Piece
  <2>3. shown = Bounded(Append(old, f))
    BY <1>0, <1>4, <1>6, FrameShown
  <2> HIDE DEF f, old, shown, last
  <2>4. shown \in Seq(Shown) /\ Len(shown) \in 1 .. MAX_FRAMES /\ PutLast(old, shown)
        /\ shown[Len(shown)] = f
    <3>1. old \in Seq(Shown) /\ Len(old) <= MAX_FRAMES
      BY <1>2 DEF old
    <3> QED
      BY <2>2, <2>3, <3>1, OneMoreShown, Zenon
  <2>5. PICK lost \in {0, 1} :
          /\ Len(shown) = Len(old) + 1 - lost
          /\ lost = 1 => Len(old) = MAX_FRAMES
          /\ \A i \in 1 .. Len(shown) - 1 : shown[i] = old[i + lost]
    BY <2>4 DEF PutLast
  <2>6. /\ \A i \in 1 .. Len(old) : old[i].run = r <=> i > Len(old) - n
        /\ \A i \in 1 .. n : old[Len(old) - n + i].frame = last - n + i
        /\ last - n <= s[1].frame \/ Len(old) = MAX_FRAMES
    BY <1>2, <1>3 DEF ShowsLast, old, last
  <2>7. /\ Len(old) + 1 - lost = Len(shown) /\ Len(shown) \in Nat /\ lost \in {0, 1}
        /\ n \in 0 .. Len(old) /\ Len(shown) # 0
    BY <1>2, <2>4, <2>5
  <2>8. PICK k \in 1 .. Len(shown) : OneMoreOf(Len(old), n, lost, Len(shown), k)
    BY <1>2, <2>7, Shift
  <2>9. /\ DOMAIN shown = 1 .. Len(shown)
        /\ k \in Nat /\ k \in 1 .. Len(shown) /\ (k = n + 1 \/ (k = n /\ lost = 1))
    BY <2>4, <2>8, LenProperties DEF OneMoreOf
  <2>10. ASSUME NEW i \in 1 .. Len(shown)
         PROVE  shown[i].run = r <=> i > Len(shown) - k
    <3>1. CASE i = Len(shown)
      BY <2>2, <2>4, <2>7, <3>1
    <3>2. CASE i # Len(shown)
      <4>1. i \in 1 .. Len(shown) - 1 /\ i + lost \in 1 .. Len(old)
        BY <1>2, <2>7, <3>2, SMTT(20)
      <4>2. shown[i] = old[i + lost]
        BY <2>5, <4>1
      <4> QED
        BY <2>6, <2>8, <4>1, <4>2 DEF OneMoreOf
    <3> QED
      BY <3>1, <3>2
  <2>11. ASSUME NEW i \in 1 .. k
         PROVE  shown[Len(shown) - k + i].frame = last + 1 - k + i
    <3>1. CASE i = k
      <4>1. Len(shown) - k + i = Len(shown) /\ last + 1 - k + i = last + 1
        BY <1>1, <2>7, <2>9, <3>1, SMTT(20) DEF last
      <4> QED
        BY <2>2, <2>4, <4>1
    <3>2. CASE i # k
      <4> DEFINE j == i + n + 1 - k
                 h == Len(shown) - k + i
      <4>0. /\ i \in Nat /\ n \in Nat /\ k \in Nat /\ last \in Nat /\ i >= 1 /\ i < k
            /\ lost \in Nat
        BY <1>1, <2>7, <2>9, <3>2 DEF last
      <4>1. j \in 1 .. n
        BY <2>9, <4>0
      <4>2. h \in 1 .. Len(shown) - 1
        BY <2>7, <2>9, <4>0
      <4>3. h + lost = Len(old) - n + j
        <5>1. Len(old) \in Nat /\ Len(shown) \in Nat /\ Len(shown) = Len(old) + 1 - lost
          BY <1>2, <2>7
        <5> QED
          BY <4>0, <5>1
      <4>4. last - n + j = last + 1 - k + i
        BY <4>0
      <4> HIDE DEF j, h
      <4>5. shown[h] = old[Len(old) - n + j] /\ old[Len(old) - n + j].frame = last - n + j
        BY <2>5, <2>6, <4>1, <4>2, <4>3
      <4> QED
        BY <4>4, <4>5 DEF h
    <3> QED
      BY <3>1, <3>2
  <2>12. last + 1 - k <= s[1].frame \/ Len(shown) = MAX_FRAMES
    <3>1. Len(shown) <= MAX_FRAMES /\ MAX_FRAMES \in Nat
      BY <2>4, Sizes
    <3>2. CASE k = n + 1 /\ last - n <= s[1].frame
      BY <1>1, <1>2, <2>7, <3>2, SMTT(20) DEF last
    <3>3. CASE Len(old) = MAX_FRAMES
      BY <1>2, <2>7, <3>1, <3>3
    <3>4. lost = 1 => Len(old) = MAX_FRAMES
      BY <2>5
    <3> QED
      BY <2>6, <2>8, <3>2, <3>3, <3>4 DEF OneMoreOf
  <2>13. ShowsLast(shown, r, s, a + 1, k)
    <3>1. /\ s[a + 1].frame = last + 1 /\ DOMAIN shown = 1 .. Len(shown)
          /\ last \in Nat /\ k \in Nat
      BY <1>1, <2>1, <2>9 DEF last
    <3>2. \A i \in DOMAIN shown : shown[i].run = r <=> i > Len(shown) - k
      BY <2>10, <3>1
    <3>3. \A i \in 1 .. k : shown[Len(shown) - k + i].frame = s[a + 1].frame - k + i
      <4> SUFFICES ASSUME NEW i \in 1 .. k
                   PROVE  shown[Len(shown) - k + i].frame = s[a + 1].frame - k + i
        OBVIOUS
      <4>1. shown[Len(shown) - k + i].frame = last + 1 - k + i
        BY <2>11
      <4> QED
        BY <3>1, <4>1
    <3>4. s[a + 1].frame - k <= s[1].frame \/ Len(shown) = MAX_FRAMES
      BY <2>12, <3>1
    <3> QED
      BY <3>2, <3>3, <3>4 DEF ShowsLast
  <2> QED
    BY <2>8, <2>13 DEF Shows, shown
<1> QED
  BY <1>5, <1>6

-----------------------------------------------------------------------------
(* The pieces on their way to the screen: after the first o the lines of s *)
(* from the one after line a on, each in four pieces.                      *)
Carries(w, r, s, o, a) ==
  /\ Len(w) = o + 4 * (Len(s) - a)
  /\ \A q \in a + 1 .. Len(s), i \in 1 .. 4 :
       w[o + 4 * (q - a - 1) + i] = Piece(r, s[q], i)

LEMMA NoLinesCarried ==
  ASSUME NEW w \in Seq(Pieces), NEW r, NEW s \in Seq(Lines), Len(s) = 0
  PROVE  Carries(w, r, s, Len(w), 0)
<1>1. Len(w) \in Nat
  BY LenProperties
<1> QED
  BY <1>1 DEF Carries

LEMMA PiecesInThree ==
  ASSUME NEW s \in Seq(Pieces), NEW t \in Seq(Pieces), NEW u \in Seq(Pieces)
  PROVE  (s \o t) \o u = s \o (t \o u)
BY InThree, SMTT(30)

(* One more line is sent. *)
LEMMA CarriesMore ==
  ASSUME NEW w \in Seq(Pieces), NEW r, NEW s \in Seq(Lines), NEW o \in Nat,
         NEW a \in 0 .. Len(s), Carries(w, r, s, o, a),
         NEW l \in Lines, NEW t \in Seq(Pieces), Len(t) = 4,
         \A i \in 1 .. 4 : t[i] = Piece(r, l, i)
  PROVE  Carries(w \o t, r, Append(s, l), o, a)
<1> DEFINE m == Len(s)
           u == Append(s, l)
           v == w \o t
<1>1. m \in Nat /\ a \in Nat /\ a <= m /\ Len(w) = o + 4 * (m - a)
  BY LenProperties DEF Carries
<1>2. Len(u) = m + 1 /\ u[m + 1] = l /\ \A q \in 1 .. m : u[q] = s[q]
  BY AppendProperties
<1>3. /\ Len(v) = Len(w) + 4
      /\ \A i \in 1 .. Len(w) + 4 : v[i] = IF i <= Len(w) THEN w[i] ELSE t[i - Len(w)]
  <2>1. /\ Len(v) = Len(w) + Len(t)
        /\ \A i \in 1 .. Len(w) + Len(t) : v[i] = IF i <= Len(w) THEN w[i] ELSE t[i - Len(w)]
    BY ConcatProperties
  <2> QED
    BY <2>1
<1>4. \A q \in a + 1 .. m, i \in 1 .. 4 : w[o + 4 * (q - a - 1) + i] = Piece(r, s[q], i)
  BY DEF Carries
<1> HIDE DEF m, u, v
<1>5. ASSUME NEW q \in a + 1 .. m + 1, NEW i \in 1 .. 4
      PROVE  v[o + 4 * (q - a - 1) + i] = Piece(r, u[q], i)
  <2> DEFINE k == o + 4 * (q - a - 1) + i
  <2>1. k \in 1 .. Len(w) + 4 /\ q \in 1 .. m + 1
    BY <1>1
  <2>2. CASE q = m + 1
    <3>1. ~(k <= Len(w)) /\ k - Len(w) = i
      BY <1>1, <2>2
    <3>2. v[k] = t[i]
      BY <1>3, <2>1, <3>1
    <3> QED
      BY <1>2, <2>2, <3>2
  <2>3. CASE q # m + 1
    <3>1. q \in a + 1 .. m /\ q \in 1 .. m /\ k <= Len(w)
      BY <1>1, <2>3
    <3>2. v[k] = w[k] /\ u[q] = s[q]
      BY <1>2, <1>3, <2>1, <3>1
    <3> QED
      BY <1>4, <3>1, <3>2
  <2> QED
    BY <2>2, <2>3
<1>6. Len(v) = o + 4 * (m + 1 - a)
  BY <1>1, <1>3
<1>7. Carries(v, r, u, o, a)
  <2>1. Len(v) = o + 4 * (Len(u) - a)
    BY <1>1, <1>2, <1>6
  <2>2. \A q \in a + 1 .. Len(u), i \in 1 .. 4 : v[o + 4 * (q - a - 1) + i] = Piece(r, u[q], i)
    BY <1>2, <1>5
  <2> QED
    BY <2>1, <2>2 DEF Carries
<1> QED
  BY <1>7 DEF u, v

(* What comes before is read, and a whole line with it. *)
LEMMA CarriesLess ==
  ASSUME NEW h \in Seq(Pieces), NEW u \in Seq(Pieces), NEW r, NEW s \in Seq(Lines),
         NEW o \in Nat, NEW a \in 0 .. Len(s), Carries(h \o u, r, s, o, a),
         a < Len(s), Len(h) = o + 4
  PROVE  Carries(u, r, s, 0, a + 1)
<1> DEFINE m == Len(s)
           w == h \o u
<1>1. m \in Nat /\ a \in Nat /\ a < m /\ Len(w) = o + 4 * (m - a) /\ Len(u) \in Nat
  BY LenProperties DEF Carries
<1>2. /\ Len(w) = o + 4 + Len(u)
      /\ \A i \in 1 .. o + 4 + Len(u) : w[i] = IF i <= o + 4 THEN h[i] ELSE u[i - (o + 4)]
  <2>1. /\ Len(w) = Len(h) + Len(u)
        /\ \A i \in 1 .. Len(h) + Len(u) : w[i] = IF i <= Len(h) THEN h[i] ELSE u[i - Len(h)]
    BY ConcatProperties
  <2> QED
    BY <2>1
<1>3. \A q \in a + 1 .. m, i \in 1 .. 4 : w[o + 4 * (q - a - 1) + i] = Piece(r, s[q], i)
  BY DEF Carries
<1> HIDE DEF m, w
<1>4. Len(u) = 0 + 4 * (m - (a + 1))
  BY <1>1, <1>2
<1>5. ASSUME NEW q \in a + 1 + 1 .. m, NEW i \in 1 .. 4
      PROVE  u[0 + 4 * (q - (a + 1) - 1) + i] = Piece(r, s[q], i)
  <2> DEFINE k == o + 4 * (q - a - 1) + i
  <2>1. /\ k \in 1 .. o + 4 + Len(u) /\ ~(k <= o + 4) /\ q \in a + 1 .. m
        /\ k - (o + 4) = 0 + 4 * (q - (a + 1) - 1) + i
    BY <1>1, <1>4
  <2>2. w[k] = u[0 + 4 * (q - (a + 1) - 1) + i]
    BY <1>2, <2>1
  <2> QED
    BY <1>3, <2>1, <2>2
<1> QED
  BY <1>4, <1>5 DEF Carries, m

(* The first newline ends the first line. *)
LEMMA FirstNewline ==
  ASSUME NEW b \in Seq(Pieces), NEW u \in Seq(Pieces), NEW r, NEW s \in Seq(Lines),
         NEW o \in 0 .. Len(b), NEW a \in 0 .. Len(s), Carries(b \o u, r, s, o, a),
         \A j \in 1 .. o : b[j].part # Newline,
         NEW i \in 1 .. Len(b), b[i].part = Newline,
         \A j \in 1 .. i - 1 : b[j].part # Newline
  PROVE  /\ i = o + 4 /\ a < Len(s)
         /\ \A j \in 1 .. 4 : b[o + j] = Piece(r, s[a + 1], j)
<1> DEFINE m == Len(s)
           w == b \o u
<1>1. /\ m \in Nat /\ a \in Nat /\ a <= m /\ Len(w) = o + 4 * (m - a)
      /\ Len(u) \in Nat /\ Len(b) \in Nat /\ o \in Nat /\ i \in Nat /\ i <= Len(b)
  BY LenProperties DEF Carries
<1>2. /\ Len(w) = Len(b) + Len(u)
      /\ \A j \in 1 .. Len(b) + Len(u) : w[j] = IF j <= Len(b) THEN b[j] ELSE u[j - Len(b)]
  BY ConcatProperties
<1>3. \A q \in a + 1 .. m, j \in 1 .. 4 : w[o + 4 * (q - a - 1) + j] = Piece(r, s[q], j)
  BY DEF Carries
<1>4. \A j \in 1 .. Len(b) : w[j] = b[j]
  BY <1>1, <1>2
<1> HIDE DEF m, w
<1>5. o < i
  BY <1>1
<1>6. a < m
  BY <1>1, <1>2, <1>5
<1>7. ASSUME NEW j \in 1 .. 4 PROVE w[o + j] = Piece(r, s[a + 1], j)
  <2>1. a \in Nat /\ m \in Nat /\ a < m /\ o \in Nat
    BY <1>1, <1>6
  <2>2. PICK q : q = a + 1
    OBVIOUS
  <2>3. q \in a + 1 .. m /\ o + 4 * (q - a - 1) + j = o + j
    BY <2>1, <2>2
  <2>4. w[o + 4 * (q - a - 1) + j] = Piece(r, s[q], j)
    BY <1>3, <2>3
  <2> QED
    BY <2>2, <2>3, <2>4
<1>8. ASSUME NEW j \in 1 .. 4, o + j <= Len(b)
      PROVE  b[o + j] = Piece(r, s[a + 1], j) /\ b[o + j].part = j
  <2>1. o + j \in 1 .. Len(b)
    BY <1>1, <1>8
  <2>2. b[o + j] = Piece(r, s[a + 1], j)
    BY <1>4, <1>7, <2>1
  <2> QED
    BY <2>2 DEF Piece
<1>9. i = o + 4
  <2>1. CASE i > o + 4
    <3>1. o + 4 \in 1 .. i - 1 /\ o + 4 <= Len(b) /\ 4 \in 1 .. 4
      BY <1>1, <2>1
    <3> QED
      BY <1>8, <3>1 DEF Newline
  <2>2. CASE i < o + 4
    <3> DEFINE j == i - o
    <3>1. j \in 1 .. 4 /\ o + j = i /\ j # 4 /\ o + j <= Len(b)
      BY <1>1, <1>5, <2>2
    <3> HIDE DEF j
    <3> QED
      BY <1>8, <3>1 DEF Newline
  <2> QED
    BY <1>1, <2>1, <2>2
<1>10. ASSUME NEW j \in 1 .. 4 PROVE b[o + j] = Piece(r, s[a + 1], j)
  <2>1. o + j <= Len(b)
    BY <1>1, <1>9
  <2> QED
    BY <1>8, <2>1
<1> QED
  BY <1>6, <1>9, <1>10 DEF m

-----------------------------------------------------------------------------
(* The inductive invariant. *)

(* The connection read_data reads, or will once it has them all. *)
Current == sock["log"]
ReadRun == conns[Current].run

(* A run of the program gets one log connection: the host makes another    *)
(* when the run at the end of this one is over.                            *)
OneLog ==
  \A c \in 1 .. Len(conns) :
    conns[c].port = "log" /\ ~Dead(c) => c = Current /\ Past("log")

OnTheWire ==
  \A c \in 1 .. MaxConns :
    /\ c \notin 1 .. Len(conns) => wire[c] = << >> /\ sent[c] = << >>
    /\ c \in 1 .. Len(conns) /\ ~Dead(c) /\ c # accepted["log"] =>
         wire[c] = << >> /\ sent[c] = << >>
    /\ \A i \in 1 .. Len(wire[c]) : wire[c][i].run = conns[c].run

(* The lines are logged one after the other. *)
Logged ==
  \A c \in 1 .. MaxConns :
    /\ \A i \in 1 .. Len(sent[c]) - 1 : sent[c][i + 1] = LineAfter(sent[c][i])
    /\ sent[c] # << >> /\ ~Dead(c) => line = LineAfter(sent[c][Len(sent[c])])

(* Without a log connection, recv_buffer is part of a line of a run that   *)
(* is over.                                                                *)
OutOfUse ==
  ~Past("log") =>
    \A i \in 1 .. Len(recv_buffer) :
      /\ recv_buffer[i].part # Newline
      /\ recv_buffer[i].run <= run
      /\ up => recv_buffer[i].run # run

(* The first o pieces are left from an earlier run, the others are of r.   *)
Leads(buffer, o, r) ==
  /\ \A i \in 1 .. o : buffer[i].part # Newline /\ buffer[i].run < r
  /\ \A i \in o + 1 .. Len(buffer) : buffer[i].run = r

Cleared == host = "clear" \/ display = Blank

(* Lines have been read up to line a of what was sent on c. *)
ReadUpTo(c, o, a) ==
  /\ Carries(recv_buffer \o wire[c], conns[c].run, sent[c], o, a)
  /\ a = 0 => Cleared
  /\ a # 0 => /\ host = "recv" /\ o = 0
              /\ Shows(display.frame_numbers, conns[c].run, sent[c], a)

Following(c, o) == \E a \in 0 .. Len(sent[c]) : ReadUpTo(c, o, a)

(* A leftover is there until the first line is read. *)
Reading ==
  Past("log") =>
    \E o \in 0 .. Len(recv_buffer) :
      /\ Leads(recv_buffer, o, ReadRun)
      /\ o # 0 => Cleared
      /\ ~Dead(Current) => Following(Current, o)

OnScreen ==
  /\ \E r \in Nat : ModesFit(display, r)
  /\ host = "connect" /\ Past("log") => display = Blank
  /\ host = "recv" => ModesFit(display, ReadRun) /\ FewLeft(display, ReadRun)

LogInv ==
  LinkInv /\ TypeOK /\ OneLog /\ OnTheWire /\ Logged /\ OutOfUse /\ Reading /\ OnScreen

LEMMA InitLogInv == Init => LogInv
<1> SUFFICES ASSUME Init PROVE LogInv
  OBVIOUS
<1>1. LinkInv /\ Len(conns) = 0 /\ ~Past("log") /\ host = "connect"
  BY InitLinkInv, EmptySeq DEF Init, LinkInit, Past
<1>2. \A c \in 1 .. MaxConns : wire[c] = << >> /\ sent[c] = << >>
  BY DEF Init
<1>3. Len(<< >>) = 0 /\ \A S : << >> \in Seq(S)
  BY EmptySeq
<1>4. TypeOK
  <2>1. line \in [frame : 1 .. MaxFrames + 1, kind : 0 .. SUMMARY_LINES]
    BY Sizes DEF Init, FirstLine
  <2>2. /\ sent \in [1 .. MaxConns -> Seq([frame : 1 .. MaxFrames, kind : 0 .. SUMMARY_LINES])]
        /\ wire \in [1 .. MaxConns -> Seq(Pieces)]
    BY <1>3 DEF Init
  <2>3. recv_buffer \in Seq(Pieces) /\ mode \in [1 .. MaxRuns -> {"CPU", "DSP"}]
    BY <1>3 DEF Init
  <2>4. display \in Screens /\ Len(display.frame_numbers) <= MAX_FRAMES
    BY BlankScreen, Sizes DEF Init
  <2> QED
    BY <1>1, <2>1, <2>2, <2>3, <2>4 DEF TypeOK, LinkInv
<1>5. OneLog /\ OnTheWire /\ Logged
  <2>1. OneLog
    BY <1>1 DEF OneLog
  <2>2. OnTheWire
    BY <1>1, <1>2, <1>3 DEF OnTheWire
  <2>3. Logged
    BY <1>2, <1>3 DEF Logged
  <2> QED
    BY <2>1, <2>2, <2>3
<1>6. OutOfUse /\ Reading /\ OnScreen
  <2>1. recv_buffer = << >> /\ display = Blank /\ 0 \in Nat
    BY DEF Init
  <2>2. OutOfUse
    BY <1>3, <2>1 DEF OutOfUse
  <2>3. Reading
    BY <1>1 DEF Reading
  <2>4. OnScreen
    BY <1>1, <2>1, BlankFits DEF OnScreen
  <2> QED
    BY <2>2, <2>3, <2>4
<1> QED
  BY <1>1, <1>4, <1>5, <1>6 DEF LogInv

LEMMA StateTypes ==
  ASSUME TypeOK, NEW c \in 1 .. MaxConns
  PROVE  /\ wire[c] \in Seq(Pieces) /\ Len(wire[c]) \in Nat
         /\ sent[c] \in Seq(Lines) /\ Len(sent[c]) \in Nat
         /\ recv_buffer \in Seq(Pieces) /\ Len(recv_buffer) \in Nat
<1>1. wire[c] \in Seq(Pieces) /\ sent[c] \in Seq(Lines) /\ recv_buffer \in Seq(Pieces)
  BY DEF TypeOK, Lines
<1> QED
  BY <1>1, LenProperties

LEMMA CurrentFacts ==
  ASSUME LinkInv, Past("log")
  PROVE  /\ Current \in 1 .. Len(conns) /\ Current \in 1 .. MaxConns
         /\ conns[Current].port = "log" /\ ReadRun \in 1 .. MaxRuns /\ ReadRun <= run
<1>1. /\ sock["log"] \in 0 .. Len(conns) /\ sock["log"] # 0
      /\ conns[sock["log"]].port = "log" /\ Len(conns) \in Nat /\ Len(conns) <= MaxConns
  BY ConnectionFacts, Sizes DEF LinkInv, SocketsKnown, InTurn
<1>2. Current \in 1 .. Len(conns)
  BY <1>1 DEF Current
<1>3. \A c \in 1 .. Len(conns) : conns[c] \in [port : PortSet, run : 1 .. MaxRuns] /\ conns[c].run <= run
  BY ConnectionFacts DEF LinkInv, RunsKnown
<1> QED
  BY <1>1, <1>2, <1>3, Sizes DEF Current, ReadRun

-----------------------------------------------------------------------------
(* Steps of the connections. *)

LEMMA RunFacts ==
  ASSUME LinkInv
  PROVE  /\ Len(conns) \in Nat /\ "log" \in PortSet /\ run \in Nat
         /\ \A c \in 1 .. Len(conns) : conns[c].run \in Nat /\ conns[c].run <= run
<1>1. /\ Len(conns) \in Nat
      /\ \A c \in 1 .. Len(conns) : conns[c] \in [port : PortSet, run : 1 .. MaxRuns]
  BY ConnectionFacts DEF LinkInv
<1>2. \A c \in 1 .. Len(conns) : conns[c].run \in Nat
  BY <1>1, Sizes
<1>3. run \in Nat
  BY Sizes DEF LinkInv, LinkTypeOK
<1> QED
  BY <1>1, <1>2, <1>3, Sizes DEF LinkInv, RunsKnown

LEMMA OneLogKept ==
  ASSUME LinkInv, OneLog, LinkStep
  PROVE  OneLog'
<1>0. /\ Len(conns) \in Nat /\ "log" \in PortSet /\ run \in Nat
      /\ \A c \in 1 .. Len(conns) : conns[c].run \in Nat /\ conns[c].run <= run
  BY RunFacts
<1>1. CASE DeviceStart \/ DeviceExit
  <2>1. conns' = conns /\ (~up' \/ run' = run + 1)
    BY <1>1 DEF DeviceStart, DeviceExit, client
  <2>2. \A c \in 1 .. Len(conns) : Dead(c)'
    BY <1>0, <2>1 DEF Dead
  <2> QED
    BY <2>1, <2>2 DEF OneLog
<1>2. CASE \/ \E p \in PortSet : Listen(p) \/ Accept(p)
           \/ UNCHANGED link
  <2>1. UNCHANGED <<up, run, conns, sock, host, next>>
    BY <1>2 DEF Listen, Accept, link, device, client
  <2> QED
    BY <2>1, OthersStay DEF OneLog, Dead, Current
<1>3. ASSUME NEW p \in PortSet, HostConnect(p)
      PROVE  OneLog'
  <2>1. /\ Past("log")' <=> Past("log") \/ "log" = p
        /\ ~Past(p)
    BY <1>0, <1>3, ConnectMovesOn
  <2> DEFINE new == [port |-> p, run |-> run]
  <2>2. UNCHANGED <<up, run>> /\ conns' = Append(conns, new) /\ p \in listening
        /\ sock' = [sock EXCEPT ![p] = Len(conns')]
    BY <1>3 DEF HostConnect, device
  <2>3. new \in [port : PortSet, run : 1 .. MaxRuns] /\ new.port = p
    BY <2>2, Sizes DEF LinkInv, RunsKnown, LinkTypeOK
  <2> HIDE DEF new
  <2>4. /\ Len(conns') = Len(conns) + 1 /\ conns'[Len(conns) + 1] = new
        /\ \A c \in 1 .. Len(conns) : conns'[c] = conns[c]
    BY <2>2, <2>3, ConnectionFacts, AppendProperties DEF Connections, LinkInv
  <2>5. sock \in [PortSet -> 0 .. MaxConns]
    BY DEF LinkInv, LinkTypeOK
  <2> SUFFICES ASSUME NEW c \in 1 .. Len(conns'), conns'[c].port = "log", ~Dead(c)'
               PROVE  (c = Current)' /\ Past("log")'
    BY DEF OneLog
  <2>6. CASE c = Len(conns) + 1
    <3>1. p = "log" /\ sock'["log"] = c
      BY <1>0, <2>2, <2>3, <2>4, <2>5, <2>6
    <3> QED
      BY <2>1, <3>1 DEF Current
  <2>7. CASE c # Len(conns) + 1
    <3>1. c \in 1 .. Len(conns) /\ conns[c].port = "log" /\ ~Dead(c)
      BY <1>0, <2>2, <2>4, <2>7 DEF Dead
    <3>2. c = sock["log"] /\ Past("log")
      BY <3>1 DEF OneLog, Current
    <3>3. p # "log"
      BY <2>1, <3>2
    <3> QED
      BY <1>0, <2>1, <2>2, <2>5, <3>2, <3>3 DEF Current
  <2> QED
    BY <2>6, <2>7
<1>4. ASSUME NEW p \in PortSet, HostRetry(p)
      PROVE  OneLog'
  <2>1. ~Past(p) /\ (Past("log")' <=> Past("log"))
    BY <1>4, RetryStays
  <2>2. UNCHANGED <<up, run, conns>> /\ sock' = [sock EXCEPT ![p] = 0]
    BY <1>4 DEF HostRetry, device
  <2>3. sock \in [PortSet -> 0 .. MaxConns]
    BY DEF LinkInv, LinkTypeOK
  <2>4. Past("log") => sock'["log"] = sock["log"]
    BY <1>0, <2>1, <2>2, <2>3
  <2> QED
    BY <2>1, <2>2, <2>4 DEF OneLog, Dead, Current
<1>5. CASE HostClear
  <2>1. UNCHANGED <<up, run, conns, sock>> /\ Past("log")'
    BY <1>0, <1>5, ClearMovesOn DEF HostClear, device
  <2> QED
    BY <2>1 DEF OneLog, Dead, Current
<1>6. CASE HostLost
  <2>1. UNCHANGED <<up, run, conns, sock>> /\ Dead(Current)
    BY <1>6 DEF HostLost, device, Current
  <2>2. ASSUME NEW c \in 1 .. Len(conns), conns[c].port = "log", ~Dead(c)
        PROVE  FALSE
    BY <2>1, <2>2 DEF OneLog
  <2> QED
    BY <2>1, <2>2 DEF OneLog, Dead
<1> QED
  BY <1>1, <1>2, <1>3, <1>4, <1>5, <1>6 DEF LinkStep

(* What a step of the device program that logs nothing may do. *)
DeviceMoves ==
  /\ UNCHANGED <<client, mode, sent, wire, recv_buffer, display>>
  /\ \A c \in 1 .. Len(conns) :
       ~Dead(c)' => /\ ~Dead(c) /\ line' = line
                    /\ c = accepted["log"] => c = accepted'["log"]
  /\ run' \in Nat /\ run <= run' /\ (up' => up \/ run < run')

LEMMA DeviceMovesKeeps ==
  ASSUME LogInv, DeviceMoves
  PROVE  OnTheWire' /\ Logged' /\ OutOfUse' /\ Reading' /\ OnScreen'
<1>0. /\ LinkInv /\ TypeOK /\ OnTheWire /\ Logged /\ OutOfUse /\ Reading /\ OnScreen
      /\ Len(conns) \in Nat /\ Len(conns) <= MaxConns /\ run \in Nat
  BY ConnectionFacts, Sizes DEF LogInv, LinkInv, LinkTypeOK
<1>1. /\ UNCHANGED <<conns, sock, host, next, connected, mode, sent, wire, recv_buffer, display>>
      /\ \A q : Past(q)' <=> Past(q)
  BY OthersStay DEF DeviceMoves, client
<1>2. \A c \in 1 .. Len(conns) :
        ~Dead(c)' => /\ ~Dead(c) /\ line' = line
                     /\ c = accepted["log"] => c = accepted'["log"]
  BY DEF DeviceMoves
<1>3. OnTheWire'
  BY <1>0, <1>1, <1>2 DEF OnTheWire
<1>4. Logged'
  <2> SUFFICES ASSUME NEW c \in 1 .. MaxConns, sent[c] # << >>, ~Dead(c)'
               PROVE  line' = LineAfter(sent[c][Len(sent[c])])
    BY <1>0, <1>1 DEF Logged
  <2>1. c \in 1 .. Len(conns)
    BY <1>0 DEF OnTheWire
  <2> QED
    BY <1>0, <1>2, <2>1 DEF Logged
<1>5. OutOfUse'
  <2> SUFFICES ASSUME ~Past("log"), NEW i \in 1 .. Len(recv_buffer)
               PROVE  /\ recv_buffer[i].part # Newline
                      /\ recv_buffer[i].run <= run' /\ (up' => recv_buffer[i].run # run')
    BY <1>1 DEF OutOfUse
  <2>1. recv_buffer[i].run \in Nat
    BY <1>0, PieceTypes DEF TypeOK
  <2>2. /\ recv_buffer[i].part # Newline
        /\ recv_buffer[i].run <= run /\ (up => recv_buffer[i].run # run)
    BY <1>0 DEF OutOfUse
  <2>3. run' \in Nat /\ run <= run' /\ (up' => up \/ run < run')
    BY DEF DeviceMoves
  <2> QED
    BY <1>0, <2>1, <2>2, <2>3
<1>6. Reading'
  <2> SUFFICES ASSUME Past("log")
               PROVE  \E o \in 0 .. Len(recv_buffer) :
                        /\ Leads(recv_buffer, o, ReadRun)
                        /\ o # 0 => Cleared
                        /\ ~Dead(Current)' => Following(Current, o)
    BY <1>1 DEF Reading, ReadRun, Current, Cleared, Following, ReadUpTo
  <2>1. Current \in 1 .. Len(conns)
    BY <1>0, CurrentFacts
  <2>2. ~Dead(Current)' => ~Dead(Current)
    BY <1>1, <1>2, <2>1 DEF Dead, Current
  <2> QED
    BY <1>0, <2>2 DEF Reading
<1>7. OnScreen'
  BY <1>0, <1>1 DEF OnScreen, ModesFit, ReadRun, Current
<1> QED
  BY <1>3, <1>4, <1>5, <1>6, <1>7

LEMMA DeviceStepMoves ==
  ASSUME LogInv, Start \/ NetThread \/ Stop
  PROVE  DeviceMoves
<1>0. /\ Len(conns) \in Nat /\ run \in Nat
      /\ \A c \in 1 .. Len(conns) : conns[c].run \in Nat /\ conns[c].run <= run
      /\ accepted \in [PortSet -> 0 .. MaxConns] /\ "log" \in PortSet
  BY RunFacts DEF LogInv, LinkInv, LinkTypeOK
<1>1. CASE Start
  <2>1. run' = run + 1 /\ UNCHANGED <<client, conns, mode, sent, wire, recv_buffer, display>>
    BY <1>1 DEF Start, DeviceStart, client
  <2>2. \A c \in 1 .. Len(conns) : Dead(c)'
    BY <1>0, <2>1 DEF Dead
  <2> QED
    BY <1>0, <2>1, <2>2 DEF DeviceMoves
<1>2. CASE NetThread
  <2>1. UNCHANGED <<up, run, conns, client, logging, line, mode, sent, wire, recv_buffer, display>>
    BY <1>2 DEF NetThread, Listen, Accept, client, logging
  <2>2. \A c \in 1 .. Len(conns) : c = accepted["log"] => c = accepted'["log"]
    <3>1. CASE \E p \in PortSet : Listen(p)
      BY <3>1 DEF Listen
    <3>2. ASSUME NEW p \in PortSet, Accept(p)
          PROVE  accepted["log"] # 0 => accepted'["log"] = accepted["log"]
      <4>1. accepted[p] = 0 /\ \E c : accepted' = [accepted EXCEPT ![p] = c]
        BY <3>2 DEF Accept
      <4> QED
        BY <1>0, <4>1
    <3> QED
      BY <1>2, <3>1, <3>2 DEF NetThread
  <2>3. \A c \in 1 .. Len(conns) : Dead(c)' <=> Dead(c)
    BY <2>1 DEF Dead
  <2> QED
    BY <1>0, <2>1, <2>2, <2>3 DEF DeviceMoves
<1>3. CASE Stop
  <2>1. ~up' /\ run' = run /\ UNCHANGED <<client, conns, mode, sent, wire, recv_buffer, display>>
    BY <1>3 DEF Stop, DeviceExit, client, logging
  <2>2. \A c \in 1 .. Len(conns) : Dead(c)'
    BY <2>1 DEF Dead
  <2> QED
    BY <1>0, <2>1, <2>2 DEF DeviceMoves
<1> QED
  BY <1>1, <1>2, <1>3

(* A new connection has carried nothing. *)
LEMMA HostMovesKeep ==
  ASSUME LogInv, LinkStep, UNCHANGED <<up, run, accepted, line, sent, wire>>
  PROVE  OnTheWire' /\ Logged'
<1>0. /\ OnTheWire /\ Logged /\ LinkInv /\ Len(conns) \in Nat
      /\ Len(conns') \in Nat /\ Len(conns') >= Len(conns)
      /\ \A c \in 1 .. Len(conns) : conns'[c] = conns[c]
  BY ConnectionFacts, ConnsGrow DEF LogInv, LinkInv
<1>1. \A c \in 1 .. Len(conns) : c \in 1 .. Len(conns') /\ (Dead(c)' <=> Dead(c))
  BY <1>0 DEF Dead
<1>2. \A c \in 1 .. MaxConns : c \notin 1 .. Len(conns) => wire[c] = << >> /\ sent[c] = << >>
  BY <1>0 DEF OnTheWire
<1>3. Len(<< >>) = 0
  BY EmptySeq
<1>4. OnTheWire'
  <2> SUFFICES ASSUME NEW c \in 1 .. MaxConns
               PROVE  /\ c \notin 1 .. Len(conns') => wire[c] = << >> /\ sent[c] = << >>
                      /\ c \in 1 .. Len(conns') /\ ~Dead(c)' /\ c # accepted["log"] =>
                           wire[c] = << >> /\ sent[c] = << >>
                      /\ \A i \in 1 .. Len(wire[c]) : wire[c][i].run = conns'[c].run
    BY DEF OnTheWire
  <2>1. CASE c \in 1 .. Len(conns)
    BY <1>0, <1>1, <2>1 DEF OnTheWire
  <2>2. CASE c \notin 1 .. Len(conns)
    BY <1>2, <1>3, <2>2
  <2> QED
    BY <2>1, <2>2
<1>5. Logged'
  <2> SUFFICES ASSUME NEW c \in 1 .. MaxConns, sent[c] # << >>, ~Dead(c)'
               PROVE  line = LineAfter(sent[c][Len(sent[c])])
    BY <1>0 DEF Logged
  <2>1. c \in 1 .. Len(conns)
    BY <1>2
  <2> QED
    BY <1>0, <1>1, <2>1 DEF Logged
<1> QED
  BY <1>4, <1>5

LEMMA ConnectKeeps ==
  ASSUME LogInv, NEW p \in PortSet, HostConnect(p),
         UNCHANGED <<logging, wire, recv_buffer, display>>
  PROVE  OutOfUse' /\ Reading' /\ OnScreen'
<1>0. /\ LinkInv /\ TypeOK /\ OnTheWire /\ OutOfUse /\ Reading /\ OnScreen
      /\ Len(conns) \in Nat /\ Len(conns) <= MaxConns /\ "log" \in PortSet
  BY ConnectionFacts, Sizes DEF LogInv, LinkInv
<1>1. ~Past(p) /\ (p # "log" => Past("log")) /\ (Past("log")' <=> Past("log") \/ p = "log")
  BY <1>0, ConnectMovesOn
<1>2. /\ UNCHANGED <<up, run, mode, sent, wire, recv_buffer, display>> /\ host = "connect"
      /\ sock' = [sock EXCEPT ![p] = Len(conns')] /\ p \in listening /\ up
      /\ Len(conns) < MaxConns
  BY <1>0 DEF HostConnect, device, logging, LinkInv, RunsKnown
<1>3. /\ Len(conns') = Len(conns) + 1 /\ conns'[Len(conns) + 1].run = run
      /\ \A c \in 1 .. Len(conns) : conns'[c] = conns[c]
  <2> DEFINE new == [port |-> p, run |-> run]
  <2>1. new \in [port : PortSet, run : 1 .. MaxRuns] /\ new.run = run
    BY <1>0, <1>2, Sizes DEF LinkInv, RunsKnown, LinkTypeOK
  <2>2. conns' = Append(conns, new)
    BY DEF HostConnect
  <2> HIDE DEF new
  <2> QED
    BY <1>0, <2>1, <2>2, ConnectionFacts, AppendProperties DEF Connections, LinkInv
<1>4. sock \in [PortSet -> 0 .. MaxConns]
  BY <1>0 DEF LinkInv, LinkTypeOK
<1>5. OutOfUse'
  BY <1>1 DEF OutOfUse
<1>6. CASE p = "log"
  <2>1. host' = "clear" /\ sock'["log"] = Len(conns) + 1
    BY <1>0, <1>2, <1>3, <1>4, <1>6 DEF HostConnect
  <2>a. PICK c, o : c = Len(conns) + 1 /\ o = Len(recv_buffer)
    OBVIOUS
  <2>2. c \in 1 .. MaxConns /\ c \notin 1 .. Len(conns)
    BY <1>0, <1>2, <2>a, Sizes
  <2>3. /\ wire[c] = << >> /\ sent[c] = << >> /\ recv_buffer \in Seq(Pieces) /\ o \in Nat
        /\ sent[c] \in Seq(Lines)
    BY <1>0, <2>a, <2>2, StateTypes DEF OnTheWire
  <2>4. recv_buffer \o wire[c] = recv_buffer /\ Len(sent[c]) = 0
    BY <2>3, ConcatEmptySeq, EmptySeq
  <2>5. Carries(recv_buffer \o wire[c], run, sent[c], o, 0)
    BY <2>a, <2>3, <2>4, NoLinesCarried
  <2>6. Leads(recv_buffer, o, run)
    <3>1. ~Past("log")
      BY <1>1, <1>6
    <3>2. \A i \in 1 .. o : recv_buffer[i].part # Newline /\ recv_buffer[i].run <= run
                           /\ recv_buffer[i].run # run
      BY <1>0, <1>2, <2>a, <3>1 DEF OutOfUse
    <3>3. run \in Nat /\ \A i \in 1 .. o : recv_buffer[i].run \in Nat
      <4>1. \A i \in 1 .. Len(recv_buffer) : recv_buffer[i].run \in 1 .. MaxRuns
        BY <2>3, PieceTypes
      <4> QED
        BY <1>0, <2>a, <4>1, RunFacts, Sizes
    <3>4. \A i \in o + 1 .. Len(recv_buffer) : FALSE
      BY <2>a, <2>3
    <3> QED
      BY <3>2, <3>3, <3>4 DEF Leads
  <2>7. Current' = c /\ conns'[c].run = run /\ ReadRun' = run /\ Cleared'
    BY <1>3, <2>a, <2>1 DEF Current, ReadRun, Cleared
  <2>8. ReadUpTo(Current, o, 0)'
    BY <1>2, <2>5, <2>7 DEF ReadUpTo
  <2>9. Following(Current, o)'
    <3>1. 0 \in 0 .. Len(sent'[Current'])
      BY <1>2, <2>4, <2>7
    <3> QED
      BY <2>8, <3>1 DEF Following
  <2>10. Reading'
    <3>1. o \in 0 .. Len(recv_buffer') /\ Leads(recv_buffer', o, ReadRun')
      BY <1>2, <2>a, <2>3, <2>6, <2>7
    <3> QED
      BY <2>7, <2>9, <3>1 DEF Reading, Following, ReadUpTo
  <2>11. OnScreen'
    BY <1>0, <1>2, <2>1 DEF OnScreen, ModesFit
  <2> QED
    BY <1>5, <2>10, <2>11
<1>7. CASE p # "log"
  <2>1. Past("log") /\ Past("log")' /\ display = Blank
    BY <1>0, <1>1, <1>2, <1>7 DEF OnScreen
  <2>2. Current \in 1 .. Len(conns) /\ Current' = Current
    BY <1>0, <1>2, <1>4, <1>7, <2>1, CurrentFacts DEF Current
  <2>3. ReadRun' = ReadRun /\ conns'[Current] = conns[Current]
    BY <1>2, <1>3, <2>1, <2>2 DEF ReadRun
  <2>3a. Cleared'
    BY <1>2, <2>1 DEF Cleared
  <2>3b. Dead(Current)' => Dead(Current)
    BY <1>2, <2>2, <2>3 DEF Dead
  <2>3c. Dead(Current) => Dead(Current)'
    BY <1>2, <2>2, <2>3 DEF Dead
  <2>4. PICK o \in 0 .. Len(recv_buffer) :
          /\ Leads(recv_buffer, o, ReadRun)
          /\ ~Dead(Current) => Following(Current, o)
    BY <1>0, <2>1 DEF Reading
  <2>5. ASSUME Following(Current, o)
        PROVE  Following(Current, o)'
    <3>1. PICK a \in 0 .. Len(sent[Current]) : ReadUpTo(Current, o, a)
      BY <2>5 DEF Following
    <3>2. a = 0
      BY <1>2, <3>1 DEF ReadUpTo
    <3>3. Carries(recv_buffer \o wire[Current], conns'[Current].run, sent[Current], o, a)
      BY <1>3, <2>2, <3>1 DEF ReadUpTo
    <3> QED
      BY <1>2, <2>2, <2>3a, <3>2, <3>3 DEF Following, ReadUpTo
  <2>6. Reading'
    <3>0. recv_buffer' = recv_buffer /\ ReadRun' = ReadRun
      BY <1>2, <2>3
    <3>1. o \in 0 .. Len(recv_buffer') /\ Leads(recv_buffer', o, ReadRun')
      BY <2>4, <3>0 DEF Leads
    <3>2. ~Dead(Current)' => Following(Current, o)'
      BY <2>3c, <2>4, <2>5, Zenon
    <3> QED
      BY <2>3a, <3>1, <3>2 DEF Reading, Following, ReadUpTo
  <2>7. OnScreen'
    <3>1. display' = Blank /\ 0 \in Nat
      BY <1>2, <2>1
    <3>2. \A r : ModesFit(Blank, r)' /\ FewLeft(Blank, r)
      BY BlankFits, <1>2 DEF ModesFit
    <3> QED
      BY <3>1, <3>2 DEF OnScreen
  <2> QED
    BY <1>5, <2>6, <2>7
<1> QED
  BY <1>6, <1>7

LEMMA RetryKeeps ==
  ASSUME LogInv, NEW p \in PortSet, HostRetry(p),
         UNCHANGED <<logging, wire, recv_buffer, display>>
  PROVE  OutOfUse' /\ Reading' /\ OnScreen'
<1>0. LinkInv /\ OutOfUse /\ Reading /\ OnScreen /\ "log" \in PortSet
  BY Sizes DEF LogInv
<1>1. ~Past(p) /\ (Past("log")' <=> Past("log"))
  BY <1>0, RetryStays
<1>2. /\ UNCHANGED <<up, run, conns, host, mode, sent, wire, recv_buffer, display>>
      /\ sock' = [sock EXCEPT ![p] = 0]
  BY DEF HostRetry, device, logging
<1>3. sock \in [PortSet -> 0 .. MaxConns]
  BY <1>0 DEF LinkInv, LinkTypeOK
<1>4. Past("log") => sock'["log"] = sock["log"]
  BY <1>0, <1>1, <1>2, <1>3
<1>5. OutOfUse'
  BY <1>0, <1>1, <1>2 DEF OutOfUse
<1>6. Reading'
  BY <1>0, <1>1, <1>2, <1>4 DEF Reading, Current, ReadRun, Dead, Cleared, Following, ReadUpTo
<1>7. OnScreen'
  <2>1. host' = "connect"
    BY <1>2 DEF HostRetry
  <2> QED
    BY <1>0, <1>1, <1>2, <2>1 DEF OnScreen, ModesFit
<1> QED
  BY <1>5, <1>6, <1>7

(* When the end of the connection has been read, the run is over and no    *)
(* newline is left.                                                        *)
LEMMA LostKeeps ==
  ASSUME LogInv, HostLost, ~HasLine,
         UNCHANGED <<logging, wire, recv_buffer, display>>
  PROVE  OutOfUse' /\ Reading' /\ OnScreen'
<1>0. /\ LinkInv /\ TypeOK /\ Reading /\ OnScreen /\ "log" \in PortSet
      /\ Past("log") /\ ~Past("log")' /\ run \in Nat
  BY Sizes, LostStartsOver DEF LogInv, LinkInv, LinkTypeOK
<1>1. UNCHANGED <<up, run, mode, recv_buffer, display>> /\ Dead(Current)
  BY DEF HostLost, device, logging, Current
<1>2. ReadRun \in Nat /\ ReadRun <= run /\ (up => ReadRun # run)
  <2>1. ReadRun \in 1 .. MaxRuns /\ ReadRun <= run
    BY <1>0, CurrentFacts
  <2>2. up => ReadRun # run
    BY <1>1 DEF Dead, ReadRun
  <2> QED
    BY <2>1, <2>2
<1>3. PICK o \in 0 .. Len(recv_buffer) : Leads(recv_buffer, o, ReadRun)
  BY <1>0 DEF Reading
<1>4. recv_buffer \in Seq(Pieces) /\ Len(recv_buffer) \in Nat
      /\ DOMAIN recv_buffer = 1 .. Len(recv_buffer)
  BY <1>0, LenProperties DEF TypeOK
<1>5. OutOfUse'
  <2> SUFFICES ASSUME NEW i \in 1 .. Len(recv_buffer)
               PROVE  /\ recv_buffer[i].part # Newline
                      /\ recv_buffer[i].run <= run
                      /\ up => recv_buffer[i].run # run
    BY <1>1 DEF OutOfUse
  <2>1. recv_buffer[i].part # Newline
    BY <1>4 DEF HasLine
  <2>2. recv_buffer[i].run \in Nat
    BY <1>4, PieceTypes
  <2>3. recv_buffer[i].run < ReadRun \/ recv_buffer[i].run = ReadRun
    <3>1. i \in 1 .. o \/ i \in o + 1 .. Len(recv_buffer)
      BY <1>3, <1>4
    <3> QED
      BY <1>3, <3>1 DEF Leads
  <2> QED
    BY <1>0, <1>2, <2>1, <2>2, <2>3
<1>6. Reading'
  BY <1>0 DEF Reading
<1>7. OnScreen'
  <2>1. host' # "recv"
    BY <1>0 DEF Past
  <2> QED
    BY <1>0, <1>1, <2>1 DEF OnScreen, ModesFit
<1> QED
  BY <1>5, <1>6, <1>7

(* clear_data comes before the first line of the new connection is read.   *)
LEMMA ClearKeeps ==
  ASSUME LogInv, ClearData
  PROVE  OutOfUse' /\ Reading' /\ OnScreen'
<1>0. /\ LinkInv /\ Reading /\ "log" \in PortSet /\ HostClear
      /\ Past("log") /\ Past("log")'
  BY Sizes, ClearMovesOn DEF LogInv, ClearData
<1>1. /\ UNCHANGED <<up, run, conns, sock, mode, sent, wire, recv_buffer>>
      /\ display' = Blank /\ host = "clear"
  BY DEF ClearData, HostClear, device, logging
<1>2. OutOfUse'
  BY <1>0 DEF OutOfUse
<1>3. Reading'
  <2>1. PICK o \in 0 .. Len(recv_buffer) :
          /\ Leads(recv_buffer, o, ReadRun)
          /\ ~Dead(Current) => Following(Current, o)
    BY <1>0 DEF Reading
  <2>2. Cleared' /\ Current' = Current /\ ReadRun' = ReadRun
    BY <1>1 DEF Cleared, Current, ReadRun
  <2>3. ASSUME Following(Current, o)
        PROVE  Following(Current, o)'
    <3>1. PICK a \in 0 .. Len(sent[Current]) : ReadUpTo(Current, o, a)
      BY <2>3 DEF Following
    <3>2. a = 0
      BY <1>1, <3>1 DEF ReadUpTo
    <3> QED
      BY <1>1, <2>2, <3>1, <3>2 DEF Following, ReadUpTo
  <2>4. Dead(Current) => Dead(Current)'
    BY <1>1, <2>2 DEF Dead
  <2>5. o \in 0 .. Len(recv_buffer') /\ Leads(recv_buffer', o, ReadRun')
    BY <1>1, <2>1, <2>2
  <2> QED
    BY <2>1, <2>2, <2>3, <2>4, <2>5 DEF Reading, Following, ReadUpTo
<1>4. OnScreen'
  <2>1. \A r : ModesFit(Blank, r)' /\ FewLeft(Blank, r)
    BY BlankFits, <1>1 DEF ModesFit
  <2>2. 0 \in Nat
    OBVIOUS
  <2> QED
    BY <1>1, <2>1, <2>2 DEF OnScreen
<1> QED
  BY <1>2, <1>3, <1>4

-----------------------------------------------------------------------------
(* Steps of the log. *)

(* What is said of the connections stays true when none of them moves. *)
LEMMA LinkStays ==
  ASSUME LogInv, UNCHANGED link
  PROVE  /\ LinkInv' /\ OneLog'
         /\ UNCHANGED <<up, run, accepted, conns, sock, host>>
         /\ \A q : Past(q)' <=> Past(q)
         /\ \A c : Dead(c)' <=> Dead(c)
         /\ Current' = Current /\ ReadRun' = ReadRun
<1>1. LinkStep /\ UNCHANGED <<up, run, accepted, conns, sock, host, next>>
  BY DEF LinkStep, link, device, client
<1> QED
  BY <1>1, LinkStepKeepsLink, OneLogKept, OthersStay
     DEF LogInv, Dead, Current, ReadRun

LEMMA LineSent ==
  ASSUME LogInv, LogLine
  PROVE  /\ line \in Lines /\ line' = LineAfter(line)
         /\ Line(line.frame, line.kind) \in Seq(Pieces)
         /\ Len(Line(line.frame, line.kind)) = 4
         /\ \A i \in 1 .. 4 : Line(line.frame, line.kind)[i] = Piece(run, line, i)
<1>1. line \in Lines /\ line' = LineAfter(line)
  <2>1. /\ line \in [frame : 1 .. MaxFrames + 1, kind : 0 .. SUMMARY_LINES]
        /\ line.frame <= MaxFrames /\ line' = LineAfter(line)
    BY DEF LogInv, TypeOK, LogLine
  <2> QED
    BY <2>1, Sizes DEF Lines
<1>2. run \in 1 .. MaxRuns
  <2>1. run \in 0 .. MaxRuns /\ run # 0
    BY DEF LogInv, LinkInv, LinkTypeOK, RunsKnown, LogLine
  <2> QED
    BY <2>1, Sizes
<1> DEFINE t == Line(line.frame, line.kind)
<1>3. \A i \in 1 .. 4 : Piece(run, line, i) \in Pieces
  BY <1>1, <1>2 DEF Piece, Pieces, Lines
<1>4. t = [i \in 1 .. 4 |-> Piece(run, line, i)]
  BY DEF Line, Piece
<1> HIDE DEF t
<1>5. t \in [1 .. 4 -> Pieces]
  BY <1>3, <1>4
<1>6. t \in Seq(Pieces) /\ Len(t) = 4
  <2>1. 4 \in Nat
    OBVIOUS
  <2>2. t \in Seq(Pieces)
    BY <1>5, <2>1, SeqDef
  <2>3. DOMAIN t = 1 .. 4 /\ DOMAIN t = 1 .. Len(t) /\ Len(t) \in Nat
    BY <1>5, <2>2, LenProperties
  <2> QED
    BY <2>2, <2>3
<1> QED
  BY <1>1, <1>4, <1>6 DEF t

(* What is accepted is the connection the host reads. *)
LEMMA AcceptedIsCurrent ==
  ASSUME LogInv, accepted["log"] # 0
  PROVE  /\ accepted["log"] = Current /\ ~Dead(Current) /\ Past("log")
         /\ Current \in 1 .. Len(conns) /\ Current \in 1 .. MaxConns
         /\ conns[Current].run = run /\ ReadRun = run
<1>1. /\ up /\ accepted["log"] \in 1 .. Len(conns)
      /\ conns[accepted["log"]].run = run /\ conns[accepted["log"]].port = "log"
  BY Sizes DEF LogInv, LinkInv, AcceptedKnown
<1>2. accepted["log"] = Current /\ Past("log")
  BY <1>1 DEF LogInv, OneLog, Dead
<1> QED
  BY <1>1, <1>2, CurrentFacts DEF LogInv, Dead, ReadRun

LEMMA UnsentKeeps ==
  ASSUME LogInv, LogLine, accepted["log"] = 0, UNCHANGED <<wire, sent>>
  PROVE  LogInv'
<1>0. /\ TypeOK /\ OnTheWire /\ Logged /\ OutOfUse /\ Reading /\ OnScreen
      /\ Len(conns) \in Nat
  BY ConnectionFacts DEF LogInv, LinkInv
<1>1. UNCHANGED <<link, mode, recv_buffer, display, wire, sent>>
  BY DEF LogLine
<1>2. /\ LinkInv' /\ OneLog' /\ UNCHANGED <<up, run, accepted, conns, sock, host>>
      /\ \A q : Past(q)' <=> Past(q)
      /\ \A c : Dead(c)' <=> Dead(c)
      /\ Current' = Current /\ ReadRun' = ReadRun
  BY <1>1, LinkStays
<1>3. TypeOK'
  <2>1. line' \in [frame : 1 .. MaxFrames + 1, kind : 0 .. SUMMARY_LINES]
    BY LineSent, LineAfterTypes
  <2> QED
    BY <1>0, <1>1, <1>2, <2>1 DEF TypeOK, LinkInv
<1>4. Logged'
  <2> SUFFICES ASSUME NEW c \in 1 .. MaxConns, sent[c] # << >>, ~Dead(c)
               PROVE  FALSE
    BY <1>0, <1>1, <1>2 DEF Logged
  <2>1. c \in 1 .. Len(conns) /\ c = accepted["log"]
    BY <1>0 DEF OnTheWire
  <2> QED
    BY <2>1
<1>5. OnTheWire' /\ OutOfUse' /\ OnScreen'
  <2>1. OnTheWire'
    BY <1>0, <1>1, <1>2 DEF OnTheWire
  <2>2. OutOfUse' /\ OnScreen'
    BY <1>0, <1>1, <1>2 DEF OutOfUse, OnScreen, ModesFit
  <2> QED
    BY <2>1, <2>2
<1>6. Reading'
  BY <1>0, <1>1, <1>2 DEF Reading, Cleared, Following, ReadUpTo
<1> QED
  BY <1>2, <1>3, <1>4, <1>5, <1>6 DEF LogInv

LEMMA ShowsStill ==
  ASSUME NEW s \in Seq(Lines), NEW l \in Lines, NEW shown, NEW r,
         NEW a \in 1 .. Len(s), Shows(shown, r, s, a)
  PROVE  Shows(shown, r, Append(s, l), a)
<1>1. Append(s, l)[a] = s[a] /\ Append(s, l)[1] = s[1]
  <2>1. Len(s) \in Nat /\ a \in Nat /\ 1 \in 1 .. Len(s)
    BY LenProperties
  <2> QED
    BY <2>1, AppendProperties
<1> QED
  BY <1>1 DEF Shows, ShowsLast

LEMMA SentKeeps ==
  ASSUME LogInv, LogLine, SendLine(accepted["log"])
  PROVE  LogInv'
<1>0. /\ TypeOK /\ OnTheWire /\ Logged /\ OutOfUse /\ Reading /\ OnScreen
      /\ Len(conns) \in Nat
  BY ConnectionFacts DEF LogInv, LinkInv
<1>1. UNCHANGED <<link, mode, recv_buffer, display>>
  BY DEF LogLine
<1>2. /\ LinkInv' /\ OneLog' /\ UNCHANGED <<up, run, accepted, conns, sock, host>>
      /\ \A q : Past(q)' <=> Past(q)
      /\ \A c : Dead(c)' <=> Dead(c)
      /\ Current' = Current /\ ReadRun' = ReadRun
  BY <1>1, LinkStays
<1>3. PICK c, t, l :
        c = accepted["log"] /\ t = Line(line.frame, line.kind) /\ l = line
  OBVIOUS
<1>4. /\ c = Current /\ ~Dead(c) /\ Past("log") /\ c \in 1 .. Len(conns) /\ c \in 1 .. MaxConns
      /\ conns[c].run = run
  BY <1>3, AcceptedIsCurrent DEF SendLine
<1>5. /\ l \in Lines /\ line' = LineAfter(l) /\ t \in Seq(Pieces) /\ Len(t) = 4
      /\ \A i \in 1 .. 4 : t[i] = Piece(run, l, i)
  BY <1>3, LineSent
<1>6. /\ wire' = [wire EXCEPT ![c] = wire[c] \o t]
      /\ sent' = [sent EXCEPT ![c] = Append(sent[c], l)]
  BY <1>3 DEF SendLine
<1>7. /\ wire \in [1 .. MaxConns -> Seq(Pieces)] /\ sent \in [1 .. MaxConns -> Seq(Lines)]
      /\ wire[c] \in Seq(Pieces) /\ sent[c] \in Seq(Lines) /\ recv_buffer \in Seq(Pieces)
      /\ Len(wire[c]) \in Nat /\ Len(sent[c]) \in Nat
  BY <1>0, <1>4, StateTypes DEF TypeOK, Lines
<1>8. /\ wire'[c] = wire[c] \o t /\ sent'[c] = Append(sent[c], l)
      /\ \A d \in 1 .. MaxConns : d # c => wire'[d] = wire[d] /\ sent'[d] = sent[d]
  BY <1>4, <1>6, <1>7
<1>9. wire[c] \o t \in Seq(Pieces) /\ Append(sent[c], l) \in Seq(Lines)
  BY <1>5, <1>7, ConcatProperties, AppendProperties
<1>10. TypeOK'
  <2>1. line' \in [frame : 1 .. MaxFrames + 1, kind : 0 .. SUMMARY_LINES]
    BY <1>5, LineAfterTypes
  <2>2. wire' \in [1 .. MaxConns -> Seq(Pieces)] /\ sent' \in [1 .. MaxConns -> Seq(Lines)]
    BY <1>4, <1>6, <1>7, <1>9
  <2> QED
    BY <1>0, <1>1, <1>2, <2>1, <2>2 DEF TypeOK, LinkInv, Lines
<1>11. OnTheWire'
  <2>1. ASSUME NEW i \in 1 .. Len(wire'[c])
        PROVE  wire'[c][i].run = conns[c].run
    <3>1. /\ Len(wire[c] \o t) = Len(wire[c]) + Len(t)
          /\ \A j \in 1 .. Len(wire[c]) + Len(t) :
               (wire[c] \o t)[j] = IF j <= Len(wire[c]) THEN wire[c][j] ELSE t[j - Len(wire[c])]
      BY <1>5, <1>7, ConcatProperties
    <3>2. i \in 1 .. Len(wire[c]) + 4
      BY <1>5, <1>8, <3>1
    <3>3. CASE i <= Len(wire[c])
      <4>1. wire'[c][i] = wire[c][i] /\ i \in 1 .. Len(wire[c])
        BY <1>5, <1>7, <1>8, <3>1, <3>2, <3>3
      <4> QED
        BY <1>0, <1>4, <4>1 DEF OnTheWire
    <3>4. CASE ~(i <= Len(wire[c]))
      <4>0. \A m \in Nat : \A j \in 1 .. m + 4 : ~(j <= m) => j - m \in 1 .. 4
        OBVIOUS
      <4>1. i - Len(wire[c]) \in 1 .. 4 /\ i \in 1 .. Len(wire[c]) + Len(t)
        BY <1>5, <1>7, <3>2, <3>4, <4>0
      <4>2. wire'[c][i] = t[i - Len(wire[c])]
        BY <1>8, <3>1, <3>4, <4>1
      <4> QED
        BY <1>4, <1>5, <4>1, <4>2, SMTT(20) DEF Piece
    <3> QED
      BY <3>3, <3>4
  <2> SUFFICES ASSUME NEW d \in 1 .. MaxConns
               PROVE  /\ d \notin 1 .. Len(conns) => wire'[d] = << >> /\ sent'[d] = << >>
                      /\ d \in 1 .. Len(conns) /\ ~Dead(d) /\ d # accepted["log"] =>
                           wire'[d] = << >> /\ sent'[d] = << >>
                      /\ \A i \in 1 .. Len(wire'[d]) : wire'[d][i].run = conns[d].run
    BY <1>2 DEF OnTheWire
  <2>2. CASE d = c
    BY <1>3, <1>4, <2>1, <2>2
  <2>3. CASE d # c
    BY <1>0, <1>8, <2>3 DEF OnTheWire
  <2> QED
    BY <2>2, <2>3
<1>12. /\ Len(sent'[c]) = Len(sent[c]) + 1 /\ sent'[c][Len(sent[c]) + 1] = l
       /\ \A i \in 1 .. Len(sent[c]) : sent'[c][i] = sent[c][i]
  BY <1>5, <1>7, <1>8, AppendProperties
<1>13. Logged'
  <2>1. ASSUME NEW i \in 1 .. Len(sent'[c]) - 1
        PROVE  sent'[c][i + 1] = LineAfter(sent'[c][i])
    <3>1. i \in 1 .. Len(sent[c]) /\ sent'[c][i] = sent[c][i]
      BY <1>7, <1>12
    <3>2. CASE i = Len(sent[c])
      <4>1. sent[c] # << >>
        BY <1>7, <3>1, EmptySeq
      <4> QED
        BY <1>0, <1>3, <1>4, <1>12, <3>1, <3>2, <4>1 DEF Logged
    <3>3. CASE i # Len(sent[c])
      <4>1. i \in 1 .. Len(sent[c]) - 1 /\ i + 1 \in 1 .. Len(sent[c])
        BY <1>7, <3>1, <3>3
      <4> QED
        BY <1>0, <1>4, <1>12, <3>1, <4>1 DEF Logged
    <3> QED
      BY <3>2, <3>3
  <2>2. line' = LineAfter(sent'[c][Len(sent'[c])])
    BY <1>5, <1>12
  <2>3. ASSUME NEW d \in 1 .. MaxConns, d # c, sent'[d] # << >>
        PROVE  Dead(d)
    BY <1>0, <1>3, <1>8, <2>3 DEF OnTheWire
  <2> SUFFICES ASSUME NEW d \in 1 .. MaxConns
               PROVE  /\ \A i \in 1 .. Len(sent'[d]) - 1 : sent'[d][i + 1] = LineAfter(sent'[d][i])
                      /\ sent'[d] # << >> /\ ~Dead(d) => line' = LineAfter(sent'[d][Len(sent'[d])])
    BY <1>2 DEF Logged
  <2>4. CASE d = c
    BY <2>1, <2>2, <2>4
  <2>5. CASE d # c
    BY <1>0, <1>8, <2>3, <2>5 DEF Logged
  <2> QED
    BY <2>4, <2>5
<1>14. OutOfUse' /\ OnScreen'
  BY <1>0, <1>1, <1>2 DEF OutOfUse, OnScreen, ModesFit
<1>15. Reading'
  <2>1. PICK o \in 0 .. Len(recv_buffer) :
          /\ Leads(recv_buffer, o, ReadRun)
          /\ o # 0 => Cleared
          /\ ~Dead(Current) => Following(Current, o)
    BY <1>0, <1>4 DEF Reading
  <2>2. PICK a \in 0 .. Len(sent[c]) : ReadUpTo(c, o, a)
    BY <1>4, <2>1 DEF Following
  <2>3. o \in Nat /\ recv_buffer \o wire[c] \in Seq(Pieces)
    BY <1>7, ConcatProperties
  <2>4. Carries((recv_buffer \o wire[c]) \o t, run, Append(sent[c], l), o, a)
    BY <1>4, <1>5, <1>7, <2>2, <2>3, CarriesMore DEF ReadUpTo
  <2>5. Carries(recv_buffer \o wire'[c], run, sent'[c], o, a)
    <3>1. (recv_buffer \o wire[c]) \o t = recv_buffer \o (wire[c] \o t)
      BY <1>5, <1>7, PiecesInThree
    <3> QED
      BY <1>8, <2>4, <3>1, Zenon
  <2>6. a # 0 => Shows(display.frame_numbers, run, sent'[c], a)
    <3>1. a # 0 => a \in 1 .. Len(sent[c])
      BY <1>7
    <3> QED
      BY <1>4, <1>5, <1>7, <1>8, <2>2, <3>1, ShowsStill DEF ReadUpTo
  <2>7. (Cleared' <=> Cleared) /\ a \in 0 .. Len(sent'[c])
    BY <1>1, <1>2, <1>7, <1>12 DEF Cleared
  <2>8. ReadUpTo(Current, o, a)'
    BY <1>1, <1>2, <1>4, <2>2, <2>5, <2>6, <2>7 DEF ReadUpTo
  <2>9. Following(Current, o)'
    BY <1>2, <1>4, <2>7, <2>8 DEF Following
  <2>10. o \in 0 .. Len(recv_buffer') /\ Leads(recv_buffer', o, ReadRun')
    BY <1>1, <1>2, <2>1
  <2> QED
    BY <2>1, <2>7, <2>9, <2>10 DEF Reading, Following, ReadUpTo
<1> QED
  BY <1>2, <1>10, <1>11, <1>13, <1>14, <1>15 DEF LogInv

LEMMA LostTailKeeps ==
  ASSUME LogInv, TailIsLost
  PROVE  LogInv'
<1>0. /\ TypeOK /\ OnTheWire /\ Logged /\ OutOfUse /\ Reading /\ OnScreen
      /\ Len(conns) \in Nat /\ Len(conns) <= MaxConns /\ DOMAIN conns = 1 .. Len(conns)
      /\ MaxConns \in Nat /\ wire \in [1 .. MaxConns -> Seq(Pieces)]
  BY ConnectionFacts, Sizes DEF LogInv, LinkInv, TypeOK
<1>1. PICK d \in 1 .. Len(conns) : /\ Dead(d) /\ wire[d] # << >>
                                   /\ wire' = [wire EXCEPT ![d] = Front(wire[d])]
  BY <1>0 DEF TailIsLost
<1>2. UNCHANGED <<link, mode, line, sent, recv_buffer, display>>
  BY DEF TailIsLost, logging
<1>3. /\ LinkInv' /\ OneLog' /\ UNCHANGED <<up, run, accepted, conns, sock, host>>
      /\ \A q : Past(q)' <=> Past(q)
      /\ \A c : Dead(c)' <=> Dead(c)
      /\ Current' = Current /\ ReadRun' = ReadRun
  BY <1>2, LinkStays
<1>4. d \in 1 .. MaxConns /\ wire[d] \in Seq(Pieces) /\ Len(wire[d]) \in Nat \ {0}
  BY <1>0, <1>1, EmptySeq
<1> DEFINE front == SubSeq(wire[d], 1, Len(wire[d]) - 1)
<1>5. /\ front \in Seq(Pieces) /\ Len(front) = Len(wire[d]) - 1
      /\ \A i \in 1 .. Len(front) : front[i] = wire[d][i]
  <2>1. \A i \in 1 .. Len(wire[d]) - 1 : wire[d][i] \in Pieces
    BY <1>4, ElementOfSeq
  <2>2. /\ front \in Seq(Pieces)
        /\ Len(front) = IF 1 <= Len(wire[d]) - 1 THEN Len(wire[d]) - 1 - 1 + 1 ELSE 0
        /\ \A i \in 1 .. Len(wire[d]) - 1 - 1 + 1 : front[i] = wire[d][1 + i - 1]
    BY <1>4, <2>1, SubSeqProperties
  <2> QED
    BY <1>4, <2>2
<1>6. wire'[d] = front /\ \A c \in 1 .. MaxConns : c # d => wire'[c] = wire[c]
  BY <1>0, <1>1, <1>4 DEF Front
<1> HIDE DEF front
<1>7. wire' \in [1 .. MaxConns -> Seq(Pieces)]
  BY <1>0, <1>1, <1>4, <1>5, <1>6
<1>8. TypeOK'
  BY <1>0, <1>2, <1>3, <1>7 DEF TypeOK, LinkInv
<1>9. OnTheWire'
  <2> SUFFICES ASSUME NEW c \in 1 .. MaxConns
               PROVE  /\ c \notin 1 .. Len(conns) => wire'[c] = << >> /\ sent[c] = << >>
                      /\ c \in 1 .. Len(conns) /\ ~Dead(c) /\ c # accepted["log"] =>
                           wire'[c] = << >> /\ sent[c] = << >>
                      /\ \A i \in 1 .. Len(wire'[c]) : wire'[c][i].run = conns[c].run
    BY <1>2, <1>3 DEF OnTheWire
  <2>1. CASE c = d
    <3>1. \A i \in 1 .. Len(front) : i \in 1 .. Len(wire[d])
      BY <1>4, <1>5
    <3>2. \A i \in 1 .. Len(wire[d]) : wire[d][i].run = conns[d].run
      BY <1>0, <1>4 DEF OnTheWire
    <3> QED
      BY <1>1, <1>5, <1>6, <2>1, <3>1, <3>2
  <2>2. CASE c # d
    BY <1>0, <1>6, <2>2 DEF OnTheWire
  <2> QED
    BY <2>1, <2>2
<1>10. Logged' /\ OutOfUse' /\ OnScreen'
  BY <1>0, <1>2, <1>3 DEF Logged, OutOfUse, OnScreen, ModesFit
<1>11. Reading'
  <2> SUFFICES ASSUME Past("log") PROVE Reading'
    BY <1>3 DEF Reading
  <2>0. LinkInv
    BY DEF LogInv
  <2>1. Current \in 1 .. MaxConns
    BY <2>0, CurrentFacts
  <2>2. ~Dead(Current) => wire'[Current] = wire[Current]
    BY <1>1, <1>6, <2>1
  <2>3. PICK o \in 0 .. Len(recv_buffer) :
          /\ Leads(recv_buffer, o, ReadRun)
          /\ o # 0 => Cleared
          /\ ~Dead(Current) => Following(Current, o)
    BY <1>0 DEF Reading
  <2>4. ~Dead(Current)' => Following(Current, o)'
    BY <1>2, <1>3, <2>2, <2>3 DEF Following, ReadUpTo, Cleared
  <2>5. /\ o \in 0 .. Len(recv_buffer') /\ Leads(recv_buffer', o, ReadRun')
        /\ (o # 0 => Cleared')
    BY <1>2, <1>3, <2>3 DEF Cleared
  <2> QED
    BY <2>4, <2>5 DEF Reading, Following, ReadUpTo
<1> QED
  BY <1>3, <1>8, <1>9, <1>10, <1>11 DEF LogInv

LEMMA ReadKeeps ==
  ASSUME LogInv, ReadData
  PROVE  LogInv'
<1>0. /\ LinkInv /\ TypeOK /\ OnTheWire /\ Logged /\ Reading /\ OnScreen
      /\ MaxConns \in Nat /\ wire \in [1 .. MaxConns -> Seq(Pieces)]
      /\ recv_buffer \in Seq(Pieces) /\ Len(recv_buffer) \in Nat
      /\ RECV_SIZE \in Nat \ {0}
  BY Sizes, LenProperties DEF LogInv, LinkInv, TypeOK
<1>1. UNCHANGED <<link, mode, line, sent, display>> /\ host = "recv" /\ Past("log")
  BY DEF ReadData, Receive, logging, Past
<1>2. /\ LinkInv' /\ OneLog' /\ UNCHANGED <<up, run, accepted, conns, sock, host>>
      /\ \A q : Past(q)' <=> Past(q)
      /\ \A c : Dead(c)' <=> Dead(c)
      /\ Current' = Current /\ ReadRun' = ReadRun
  BY <1>1, LinkStays
<1>3. /\ Current \in 1 .. Len(conns) /\ Current \in 1 .. MaxConns
      /\ ReadRun = conns[Current].run
  BY <1>0, <1>1, CurrentFacts DEF ReadRun
<1>4. PICK c, n : /\ c = Current /\ n \in 1 .. RECV_SIZE /\ n <= Len(wire[c])
                  /\ recv_buffer' = recv_buffer \o SubSeq(wire[c], 1, n)
                  /\ wire' = [wire EXCEPT ![c] = SubSeq(wire[c], n + 1, Len(wire[c]))]
  BY DEF ReadData, Receive, Current
<1>5. PICK h, u : h = SubSeq(wire[c], 1, n) /\ u = SubSeq(wire[c], n + 1, Len(wire[c]))
  OBVIOUS
<1>6. /\ wire[c] \in Seq(Pieces) /\ h \in Seq(Pieces) /\ u \in Seq(Pieces)
      /\ wire[c] = h \o u /\ Len(h) \in Nat /\ Len(u) \in Nat
      /\ Len(wire[c]) = Len(h) + Len(u) /\ wire[c] # << >>
  <2>1. wire[c] \in Seq(Pieces) /\ n \in 0 .. Len(wire[c]) /\ Len(wire[c]) \in Nat \ {0}
    BY <1>0, <1>3, <1>4, LenProperties
  <2>2. h \in Seq(Pieces) /\ u \in Seq(Pieces) /\ wire[c] = h \o u
    BY <1>5, <2>1, CutStream
  <2> QED
    BY <2>1, <2>2, ConcatProperties, LenProperties, EmptySeq
<1>7. /\ \A i \in 1 .. Len(h) : h[i].run = ReadRun
      /\ \A i \in 1 .. Len(u) : u[i].run = ReadRun
  <2>1. \A i \in 1 .. Len(wire[c]) : wire[c][i].run = ReadRun
    BY <1>0, <1>3, <1>4 DEF OnTheWire
  <2>2. \A i \in 1 .. Len(h) + Len(u) : (h \o u)[i] = IF i <= Len(h) THEN h[i] ELSE u[i - Len(h)]
    BY <1>6, ConcatProperties
  <2>3. \A i \in 1 .. Len(h) : i \in 1 .. Len(wire[c]) /\ wire[c][i] = h[i]
    BY <1>6, <2>2
  <2>4. ASSUME NEW i \in 1 .. Len(u)
        PROVE  Len(h) + i \in 1 .. Len(wire[c]) /\ wire[c][Len(h) + i] = u[i]
    <3>1. Len(h) + i \in 1 .. Len(h) + Len(u) /\ ~(Len(h) + i <= Len(h)) /\ Len(h) + i - Len(h) = i
      BY <1>6
    <3> QED
      BY <1>6, <2>2, <3>1
  <2> QED
    BY <2>1, <2>3, <2>4
<1>8. /\ recv_buffer' = recv_buffer \o h /\ recv_buffer' \in Seq(Pieces)
      /\ Len(recv_buffer') = Len(recv_buffer) + Len(h)
      /\ \A i \in 1 .. Len(recv_buffer) + Len(h) :
           recv_buffer'[i] = IF i <= Len(recv_buffer) THEN recv_buffer[i]
                                                      ELSE h[i - Len(recv_buffer)]
  BY <1>0, <1>4, <1>5, <1>6, ConcatProperties
<1>9. wire'[c] = u /\ \A d \in 1 .. MaxConns : d # c => wire'[d] = wire[d]
  BY <1>0, <1>3, <1>4, <1>5
<1>10. wire' \in [1 .. MaxConns -> Seq(Pieces)]
  BY <1>0, <1>3, <1>4, <1>5, <1>6
<1>11. TypeOK'
  BY <1>0, <1>1, <1>2, <1>8, <1>10 DEF TypeOK, LinkInv
<1>12. OnTheWire'
  <2> SUFFICES ASSUME NEW d \in 1 .. MaxConns
               PROVE  /\ d \notin 1 .. Len(conns) => wire'[d] = << >> /\ sent[d] = << >>
                      /\ d \in 1 .. Len(conns) /\ ~Dead(d) /\ d # accepted["log"] =>
                           wire'[d] = << >> /\ sent[d] = << >>
                      /\ \A i \in 1 .. Len(wire'[d]) : wire'[d][i].run = conns[d].run
    BY <1>1, <1>2 DEF OnTheWire
  <2>1. CASE d = c
    BY <1>0, <1>3, <1>4, <1>6, <1>7, <1>9, <2>1 DEF OnTheWire
  <2>2. CASE d # c
    BY <1>0, <1>9, <2>2 DEF OnTheWire
  <2> QED
    BY <2>1, <2>2
<1>13. Logged' /\ OutOfUse' /\ OnScreen'
  BY <1>0, <1>1, <1>2 DEF Logged, OutOfUse, OnScreen, ModesFit
<1>14. Reading'
  <2>1. PICK o \in 0 .. Len(recv_buffer) :
          /\ Leads(recv_buffer, o, ReadRun)
          /\ o # 0 => Cleared
          /\ ~Dead(Current) => Following(Current, o)
    BY <1>0, <1>1 DEF Reading
  <2>2. o \in 0 .. Len(recv_buffer')
    BY <1>0, <1>6, <1>8
  <2>3. Leads(recv_buffer', o, ReadRun)
    <3>1. ASSUME NEW i \in 1 .. o
          PROVE  recv_buffer'[i] = recv_buffer[i]
      BY <1>0, <1>6, <1>8
    <3>2. ASSUME NEW i \in o + 1 .. Len(recv_buffer')
          PROVE  recv_buffer'[i].run = ReadRun
      <4>0. i \in 1 .. Len(recv_buffer) + Len(h)
        BY <1>8
      <4>1. CASE i <= Len(recv_buffer)
        <5>1. i \in o + 1 .. Len(recv_buffer)
          BY <1>0, <4>1
        <5> QED
          BY <1>8, <2>1, <4>0, <4>1, <5>1 DEF Leads
      <4>2. CASE ~(i <= Len(recv_buffer))
        <5>1. \A k \in Nat, m \in Nat : \A j \in 1 .. k + m : ~(j <= k) => j - k \in 1 .. m
          OBVIOUS
        <5>2. i - Len(recv_buffer) \in 1 .. Len(h)
          BY <1>0, <1>6, <4>0, <4>2, <5>1
        <5> QED
          BY <1>7, <1>8, <4>0, <4>2, <5>2
      <4> QED
        BY <4>1, <4>2
    <3> QED
      BY <2>1, <3>1, <3>2 DEF Leads
  <2>4. ASSUME Following(Current, o)
        PROVE  Following(Current, o)'
    <3>1. PICK a \in 0 .. Len(sent[c]) : ReadUpTo(c, o, a)
      BY <1>4, <2>4 DEF Following
    <3>2. recv_buffer' \o wire'[c] = recv_buffer \o wire[c]
      <4>1. (recv_buffer \o h) \o u = recv_buffer \o (h \o u)
        BY <1>0, <1>6, PiecesInThree
      <4> QED
        BY <1>6, <1>8, <1>9, <4>1, Zenon
    <3>3. Cleared' <=> Cleared
      BY <1>1, <1>2 DEF Cleared
    <3> QED
      BY <1>1, <1>2, <1>4, <3>1, <3>2, <3>3 DEF Following, ReadUpTo
  <2>5. (o # 0 => Cleared') /\ Leads(recv_buffer', o, ReadRun')
    BY <1>1, <1>2, <2>1, <2>3 DEF Cleared
  <2>6. ~Dead(Current)' => Following(Current, o)'
    BY <1>2, <2>1, <2>4
  <2> QED
    BY <2>2, <2>5, <2>6 DEF Reading, Following, ReadUpTo
<1> QED
  BY <1>2, <1>11, <1>12, <1>13, <1>14 DEF LogInv

LEMMA LineTyped ==
  ASSUME mode \in [1 .. MaxRuns -> {"CPU", "DSP"}],
         NEW d \in Screens, Len(d.frame_numbers) <= MAX_FRAMES, NEW l \in Seq(Pieces),
         NEW after, after = parse_log_line(update_live_summary(d, l), l)
  PROVE  after \in Screens /\ Len(after.frame_numbers) <= MAX_FRAMES
<1>1. ASSUME NEW m \in 1 .. Len(l), ShowsFrame(d, l, m, after)
      PROVE  after \in Screens /\ Len(after.frame_numbers) <= MAX_FRAMES
  BY <1>1, FrameShown
<1>2. ASSUME NEW k \in 1 .. SUMMARY_LINES, NEW m \in 1 .. Len(l), ShowsLabel(d, l, k, m, after)
      PROVE  after \in Screens /\ Len(after.frame_numbers) <= MAX_FRAMES
  <2>1. after \in Screens
    BY <1>2, LabelShown
  <2>2. after.frame_numbers = d.frame_numbers
    BY <1>2 DEF ShowsLabel, Screens
  <2> QED
    BY <2>1, <2>2
<1> QED
  BY <1>1, <1>2, WhatALineDoes

(* The buffer is cut after its first newline. *)
LEMMA LineCut ==
  ASSUME TypeOK, ReadLine
  PROVE  \E l \in Seq(Pieces), h \in Seq(Pieces), i \in 1 .. Len(recv_buffer) :
           /\ recv_buffer[i].part = Newline
           /\ \A j \in 1 .. i - 1 : recv_buffer[j].part # Newline
           /\ Len(l) = i - 1 /\ \A j \in 1 .. i - 1 : l[j] = recv_buffer[j]
           /\ Len(h) = i /\ recv_buffer = h \o recv_buffer'
           /\ recv_buffer' \in Seq(Pieces) /\ Len(recv_buffer') = Len(recv_buffer) - i
           /\ \A j \in 1 .. Len(recv_buffer') : recv_buffer'[j] = recv_buffer[i + j]
           /\ display' = parse_log_line(update_live_summary(display, l), l)
<1>0. /\ recv_buffer \in Seq(Pieces) /\ Len(recv_buffer) \in Nat
      /\ DOMAIN recv_buffer = 1 .. Len(recv_buffer)
      /\ \A j \in 1 .. Len(recv_buffer) : recv_buffer[j] \in Pieces
  BY LenProperties, ElementOfSeq DEF TypeOK
<1>1. PICK i \in 1 .. Len(recv_buffer) :
        /\ recv_buffer[i].part = Newline
        /\ \A j \in 1 .. i - 1 : recv_buffer[j].part # Newline
        /\ LET l == SubSeq(recv_buffer, 1, i - 1) IN
             display' = parse_log_line(update_live_summary(display, l), l)
        /\ recv_buffer' = SubSeq(recv_buffer, i + 1, Len(recv_buffer))
  BY <1>0 DEF ReadLine
<1>2. PICK l, h, u : l = SubSeq(recv_buffer, 1, i - 1) /\ h = SubSeq(recv_buffer, 1, i)
                     /\ u = SubSeq(recv_buffer, i + 1, Len(recv_buffer))
  OBVIOUS
<1>3. /\ h \in Seq(Pieces) /\ Len(h) = i /\ recv_buffer' = u
      /\ u \in Seq(Pieces) /\ recv_buffer = h \o u
  <2>0. recv_buffer \in Seq(Pieces)
    BY <1>0
  <2>1. i \in 0 .. Len(recv_buffer)
    BY <1>0
  <2>2. /\ SubSeq(recv_buffer, 1, i) \in Seq(Pieces) /\ Len(SubSeq(recv_buffer, 1, i)) = i
        /\ SubSeq(recv_buffer, i + 1, Len(recv_buffer)) \in Seq(Pieces)
        /\ recv_buffer = SubSeq(recv_buffer, 1, i) \o SubSeq(recv_buffer, i + 1, Len(recv_buffer))
    BY <2>0, <2>1, CutStream
  <2> QED
    BY <1>1, <1>2, <2>2
<1>4. /\ l \in Seq(Pieces) /\ Len(l) = i - 1
      /\ \A j \in 1 .. i - 1 : l[j] = recv_buffer[j]
  <2>1. \A j \in 1 .. i - 1 : recv_buffer[j] \in Pieces
    BY <1>0
  <2>2. /\ l \in Seq(Pieces)
        /\ Len(l) = IF 1 <= i - 1 THEN i - 1 - 1 + 1 ELSE 0
        /\ \A j \in 1 .. i - 1 - 1 + 1 : l[j] = recv_buffer[1 + j - 1]
    BY <1>0, <1>2, <2>1, SubSeqProperties
  <2> QED
    BY <1>0, <2>2
<1>5. /\ Len(recv_buffer') = Len(recv_buffer) - i
      /\ \A j \in 1 .. Len(recv_buffer') : recv_buffer'[j] = recv_buffer[i + j]
  <2>2. u \in Seq(Pieces) /\ Len(u) \in Nat /\ recv_buffer = h \o u
    BY <1>3, LenProperties
  <2>3. /\ Len(h \o u) = Len(h) + Len(u)
        /\ \A j \in 1 .. Len(h) + Len(u) : (h \o u)[j] = IF j <= Len(h) THEN h[j] ELSE u[j - Len(h)]
    BY <1>3, <2>2, ConcatProperties
  <2>4. ASSUME NEW j \in 1 .. Len(u)
        PROVE  u[j] = recv_buffer[i + j]
    <3>1. i + j \in 1 .. Len(h) + Len(u) /\ ~(i + j <= Len(h)) /\ i + j - Len(h) = j
      BY <1>3, <2>2
    <3> QED
      BY <2>2, <2>3, <3>1
  <2> QED
    BY <1>0, <1>3, <2>2, <2>3, <2>4
<1>6. display' = parse_log_line(update_live_summary(display, l), l)
  BY <1>1, <1>2
<1>7. recv_buffer' \in Seq(Pieces) /\ recv_buffer = h \o recv_buffer'
  BY <1>3
<1> QED
  BY <1>1, <1>3, <1>4, <1>5, <1>6, <1>7, Zenon

LEMMA LineKeeps ==
  ASSUME LogInv, ReadLine
  PROVE  LogInv'
<1>0. /\ LinkInv /\ TypeOK /\ OnTheWire /\ Logged /\ Reading /\ OnScreen
      /\ recv_buffer \in Seq(Pieces) /\ Len(recv_buffer) \in Nat
      /\ mode \in [1 .. MaxRuns -> {"CPU", "DSP"}]
      /\ display \in Screens /\ Len(display.frame_numbers) <= MAX_FRAMES
  BY LenProperties DEF LogInv, TypeOK
<1>1. UNCHANGED <<link, mode, line, sent, wire>> /\ host = "recv" /\ Past("log")
  BY DEF ReadLine, logging, Past
<1>2. /\ LinkInv' /\ OneLog' /\ UNCHANGED <<up, run, accepted, conns, sock, host>>
      /\ \A q : Past(q)' <=> Past(q)
      /\ \A c : Dead(c)' <=> Dead(c)
      /\ Current' = Current /\ ReadRun' = ReadRun
  BY <1>1, LinkStays
<1>3. PICK r, b, after : r = ReadRun /\ b = recv_buffer' /\ after = display'
  OBVIOUS
<1>4. PICK l \in Seq(Pieces), h \in Seq(Pieces), i \in 1 .. Len(recv_buffer) :
        /\ recv_buffer[i].part = Newline
        /\ \A j \in 1 .. i - 1 : recv_buffer[j].part # Newline
        /\ Len(l) = i - 1 /\ \A j \in 1 .. i - 1 : l[j] = recv_buffer[j]
        /\ Len(h) = i /\ recv_buffer = h \o b
        /\ b \in Seq(Pieces) /\ Len(b) = Len(recv_buffer) - i
        /\ \A j \in 1 .. Len(b) : b[j] = recv_buffer[i + j]
        /\ after = parse_log_line(update_live_summary(display, l), l)
  BY <1>0, <1>3, LineCut
<1>5. /\ Current \in 1 .. Len(conns) /\ Current \in 1 .. MaxConns
      /\ r = conns[Current].run /\ r \in 1 .. MaxRuns
  BY <1>0, <1>1, <1>3, CurrentFacts DEF ReadRun
<1>6. PICK o \in 0 .. Len(recv_buffer) :
        /\ Leads(recv_buffer, o, r)
        /\ o # 0 => Cleared
        /\ ~Dead(Current) => Following(Current, o)
  BY <1>0, <1>1, <1>3 DEF Reading
<1>7. o \in Nat /\ o < i /\ i \in Nat
  BY <1>0, <1>4, <1>6 DEF Leads
<1>8. Cleared => display = Blank
  BY <1>1 DEF Cleared
<1>9. after \in Screens /\ Len(after.frame_numbers) <= MAX_FRAMES
  BY <1>0, <1>4, LineTyped
<1>10. TypeOK'
  BY <1>0, <1>1, <1>2, <1>3, <1>4, <1>9 DEF TypeOK, LinkInv
<1>11. ModesFit(after, r) /\ FewLeft(after, r)
  <2>1. ModesFit(display, r) /\ FewLeft(display, r)
    BY <1>0, <1>1, <1>3 DEF OnScreen
  <2>2. display = Blank \/ \A m \in 1 .. Len(l) : l[m].run = r
    <3>1. CASE o # 0
      BY <1>6, <1>8, <3>1
    <3>2. ASSUME o = 0, NEW m \in 1 .. Len(l)
          PROVE  l[m].run = r
      <4>1. m \in 1 .. i - 1 /\ m \in o + 1 .. Len(recv_buffer)
        BY <1>0, <1>4, <1>7, <3>2
      <4> QED
        BY <1>4, <1>6, <4>1 DEF Leads
    <3> QED
      BY <3>1, <3>2
  <2> QED
    BY <1>0, <1>4, <1>5, <2>1, <2>2, LineFits
<1>12. OnScreen'
  <2>1. r \in Nat
    BY <1>5, Sizes
  <2>2. ModesFit(display, r)'
    BY <1>1, <1>3, <1>11 DEF ModesFit
  <2>3. host' = "recv" /\ ReadRun' = r /\ FewLeft(display', r)
    BY <1>1, <1>2, <1>3, <1>11
  <2> QED
    BY <2>1, <2>2, <2>3 DEF OnScreen
<1>13. Leads(b, 0, r)
  <2>1. ASSUME NEW j \in 0 + 1 .. Len(b)
        PROVE  b[j].run = r
    <3>0. \A p, q, m \in Nat : \A k \in 1 .. m - p : q < p => p + k \in q + 1 .. m
      OBVIOUS
    <3>a. Len(b) = Len(recv_buffer) - i /\ Len(recv_buffer) \in Nat
      BY <1>0, <1>4
    <3>1. /\ Len(recv_buffer) \in Nat /\ i \in Nat /\ o \in Nat /\ o < i
          /\ j \in 1 .. Len(recv_buffer) - i /\ j \in 1 .. Len(b)
      BY <1>7, <3>a
    <3>2. i + j \in o + 1 .. Len(recv_buffer)
      BY <3>0, <3>1
    <3> QED
      BY <1>4, <1>6, <3>1, <3>2, SMTT(20) DEF Leads
  <2> QED
    BY <2>1 DEF Leads
<1>14. ASSUME Following(Current, o)
       PROVE  \E a \in 0 .. Len(sent[Current]) :
                /\ Carries(b \o wire[Current], r, sent[Current], 0, a)
                /\ a # 0 /\ Shows(after.frame_numbers, r, sent[Current], a)
  <2>1. PICK w, s : w = wire[Current] /\ s = sent[Current]
    OBVIOUS
  <2>2. w \in Seq(Pieces) /\ s \in Seq(Lines) /\ Len(s) \in Nat
    BY <1>0, <1>5, <2>1, StateTypes
  <2>3. PICK a \in 0 .. Len(s) : ReadUpTo(Current, o, a)
    BY <1>14, <2>1 DEF Following
  <2>4. Carries(recv_buffer \o w, r, s, o, a)
    BY <1>5, <2>1, <2>3 DEF ReadUpTo
  <2>5. \A j \in 1 .. o : recv_buffer[j].part # Newline
    BY <1>6 DEF Leads
  <2>6. /\ i = o + 4 /\ a < Len(s)
        /\ \A j \in 1 .. 4 : recv_buffer[o + j] = Piece(r, s[a + 1], j)
    <3>1. recv_buffer[i].part = Newline /\ \A j \in 1 .. i - 1 : recv_buffer[j].part # Newline
      BY <1>4
    <3>2. recv_buffer \in Seq(Pieces)
      BY <1>0
    <3> QED
      BY <2>2, <2>4, <2>5, <3>1, <3>2, FirstNewline
  <2>7. Carries(b \o w, r, s, 0, a + 1)
    <3>1. (h \o b) \o w = h \o (b \o w)
      BY <1>4, <2>2, PiecesInThree
    <3>2. Carries(h \o (b \o w), r, s, o, a)
      BY <1>4, <2>4, <3>1, Zenon
    <3>3. b \o w \in Seq(Pieces)
      BY <1>4, <2>2, ConcatProperties
    <3> QED
      BY <1>4, <1>7, <2>2, <2>6, <3>2, <3>3, CarriesLess
  <2>8. CASE a = 0
    <3>1. display.frame_numbers = << >>
      BY <1>8, <2>3, <2>8, BlankScreen DEF ReadUpTo
    <3>2. ASSUME NEW j \in 1 .. Len(l), l[j].run = r
          PROVE  l[j].frame = s[1].frame
      <4>0. j \in 1 .. i - 1 /\ j \in 1 .. Len(recv_buffer)
        <5>1. Len(l) = i - 1 /\ Len(recv_buffer) \in Nat
          BY <1>0, <1>4
        <5> QED
          BY <1>7, <5>1
      <4>1. l[j] = recv_buffer[j] /\ j \in 1 .. Len(recv_buffer)
        BY <1>4, <4>0
      <4>2. r \in Nat /\ l[j].run \in Nat
        BY <1>0, <1>5, <4>1, PieceTypes, Sizes, SMTT(20)
      <4>3. ~(j \in 1 .. o)
        BY <1>6, <3>2, <4>1, <4>2 DEF Leads
      <4>4. j - o \in 1 .. 4 /\ o + (j - o) = j
        <5>0. i = o + 4
          BY <2>6
        <5>1. o \in Nat /\ i = o + 4 /\ j \in 1 .. o + 3
          BY <1>7, <4>0, <5>0
        <5> QED
          BY <4>3, <5>1
      <4>5. recv_buffer[j] = Piece(r, s[a + 1], j - o)
        BY <2>6, <4>4
      <4> QED
        BY <2>8, <4>1, <4>5 DEF Piece
    <3>3. s # << >>
      BY <2>2, <2>6, EmptySeq
    <3>4. Shows(after.frame_numbers, r, s, 1)
      BY <1>0, <1>4, <1>5, <2>2, <3>1, <3>2, <3>3, ShowsFirst
    <3> QED
      BY <2>1, <2>2, <2>6, <2>7, <2>8, <3>4
  <2>9. CASE a # 0
    <3>1. o = 0 /\ Shows(display.frame_numbers, r, s, a)
      BY <1>5, <2>1, <2>3, <2>9 DEF ReadUpTo
    <3>2. a \in 1 .. Len(s) - 1
      BY <2>2, <2>6, <2>9
    <3>3. s[a + 1] = LineAfter(s[a])
      BY <1>0, <1>5, <2>1, <3>2 DEF Logged
    <3>4. Len(l) = 3
      BY <1>4, <2>6, <3>1
    <3>5. \A j \in 1 .. 3 : l[j] = Piece(r, s[a + 1], j)
      <4>1. ASSUME NEW j \in 1 .. 3
            PROVE  l[j] = Piece(r, s[a + 1], j)
        <5>1. j \in 1 .. i - 1 /\ j \in 1 .. 4 /\ o + j = j
          BY <2>6, <3>1
        <5> QED
          BY <1>4, <2>6, <5>1
      <4> QED
        BY <4>1
    <3>6. Shows(after.frame_numbers, r, s, a + 1)
      BY <1>0, <1>4, <1>5, <2>2, <3>1, <3>2, <3>3, <3>4, <3>5, ShowsNext
    <3>7. a + 1 \in 0 .. Len(s) /\ a + 1 # 0
      <4>1. a \in Nat /\ a < Len(s) /\ Len(s) \in Nat
        BY <2>2, <2>6
      <4> QED
        BY <4>1
    <3> QED
      BY <2>1, <2>7, <3>6, <3>7
  <2> QED
    BY <2>8, <2>9
<1>15. Reading'
  <2>1. ~Dead(Current)' => Following(Current, 0)'
    <3> SUFFICES ASSUME ~Dead(Current)' PROVE Following(Current, 0)'
      OBVIOUS
    <3>1. PICK a \in 0 .. Len(sent[Current]) :
            /\ Carries(b \o wire[Current], r, sent[Current], 0, a)
            /\ a # 0 /\ Shows(after.frame_numbers, r, sent[Current], a)
      BY <1>2, <1>6, <1>14
    <3>2. ReadUpTo(Current, 0, a)'
      BY <1>1, <1>2, <1>3, <1>5, <3>1 DEF ReadUpTo
    <3> QED
      BY <1>1, <1>2, <3>1, <3>2 DEF Following
  <2>2. 0 \in 0 .. Len(recv_buffer') /\ Leads(recv_buffer', 0, ReadRun')
    BY <1>2, <1>3, <1>4, <1>13, LenProperties
  <2> QED
    BY <2>1, <2>2 DEF Reading, Following, ReadUpTo
<1>16. OnTheWire' /\ Logged' /\ OutOfUse'
  BY <1>0, <1>1, <1>2 DEF OnTheWire, Logged, OutOfUse
<1> QED
  BY <1>2, <1>10, <1>12, <1>15, <1>16 DEF LogInv

-----------------------------------------------------------------------------
(* The invariant. *)

LEMMA StepIsLinkStep == Next => LinkStep
<1>1. ASSUME Start \/ Stop \/ NetThread \/ HostThread \/ ClearData PROVE LinkStep
  BY <1>1, Zenon DEF Start, Stop, NetThread, HostThread, ClearData, LinkStep
<1>2. ASSUME LogLine \/ TailIsLost \/ ReadData \/ ReadLine PROVE LinkStep
  BY <1>2 DEF LogLine, TailIsLost, ReadData, Receive, ReadLine, LinkStep
<1> QED
  BY <1>1, <1>2 DEF Next

LEMMA QuietTypes ==
  ASSUME LogInv, LinkInv', line' \in {line, FirstLine},
         UNCHANGED <<mode, sent, wire, recv_buffer>>, display' \in {display, Blank}
  PROVE  TypeOK'
<1>1. line' \in [frame : 1 .. MaxFrames + 1, kind : 0 .. SUMMARY_LINES]
  BY Sizes DEF LogInv, TypeOK, FirstLine
<1>2. display' \in Screens /\ Len(display'.frame_numbers) <= MAX_FRAMES
  BY BlankScreen, Sizes DEF LogInv, TypeOK
<1> QED
  BY <1>1, <1>2 DEF LogInv, TypeOK, LinkInv

LEMMA StepKeeps == LogInv /\ [Next]_vars => LogInv'
<1> SUFFICES ASSUME LogInv, [Next]_vars PROVE LogInv'
  OBVIOUS
<1>1. LinkStep
  <2>1. CASE UNCHANGED vars
    BY <2>1 DEF vars, LinkStep
  <2> QED
    BY <2>1, StepIsLinkStep
<1>2. LinkInv' /\ OneLog'
  BY <1>1, LinkStepKeepsLink, OneLogKept DEF LogInv
<1>3. CASE Start \/ NetThread \/ Stop
  <2>1. /\ line' \in {line, FirstLine} /\ UNCHANGED <<mode, sent, wire, recv_buffer>>
        /\ display' \in {display, Blank}
    BY <1>3 DEF Start, NetThread, Stop, logging
  <2>2. TypeOK'
    BY <1>2, <2>1, QuietTypes
  <2>3. OnTheWire' /\ Logged' /\ OutOfUse' /\ Reading' /\ OnScreen'
    BY <1>3, DeviceStepMoves, DeviceMovesKeeps
  <2> QED
    BY <1>2, <2>2, <2>3 DEF LogInv
<1>4. CASE HostThread \/ ClearData
  <2>1. /\ UNCHANGED <<up, run, accepted, mode, line, sent, wire, recv_buffer>>
        /\ display' \in {display, Blank}
    BY <1>4 DEF HostThread, ClearData, HostConnect, HostRetry, HostLost, HostClear, device, logging
  <2>2. TypeOK'
    BY <1>2, <2>1, QuietTypes
  <2>3. OnTheWire' /\ Logged'
    BY <1>1, <2>1, HostMovesKeep
  <2>4. OutOfUse' /\ Reading' /\ OnScreen'
    BY <1>4, ConnectKeeps, RetryKeeps, LostKeeps, ClearKeeps DEF HostThread
  <2> QED
    BY <1>2, <2>2, <2>3, <2>4 DEF LogInv
<1>5. CASE LogLine
  BY <1>5, SentKeeps, UnsentKeeps DEF LogLine
<1>6. CASE TailIsLost \/ ReadData \/ ReadLine
  BY <1>6, LostTailKeeps, ReadKeeps, LineKeeps
<1>7. CASE UNCHANGED vars
  <2>1. UNCHANGED <<link, mode, line, sent, wire, recv_buffer, display>>
    BY <1>7 DEF vars, logging
  <2>2. DeviceMoves
    <3>1. UNCHANGED <<client, up, run, accepted, conns>> /\ run \in Nat
      BY <2>1, Sizes DEF link, device, client, LogInv, LinkInv, LinkTypeOK
    <3> QED
      BY <2>1, <3>1 DEF DeviceMoves, Dead
  <2>3. TypeOK'
    BY <1>2, <2>1, QuietTypes
  <2> QED
    BY <1>2, <2>2, <2>3, DeviceMovesKeeps DEF LogInv
<1> QED
  BY <1>3, <1>4, <1>5, <1>6, <1>7 DEF Next

LEMMA LogInvHolds == Spec => []LogInv
<1> QED
  BY InitLogInv, StepKeeps, PTL DEF Spec

(* The state keeps its types: what read_data cuts out of the log and shows *)
(* is always a frame or a label of some run, and the screen is never       *)
(* longer than its deque, whatever two halves a line is joined from.       *)
THEOREM DisplayTypeCorrect == Spec => []TypeOK
<1>1. LogInv => TypeOK
  BY DEF LogInv
<1> QED
  BY <1>1, LogInvHolds, PTL

(* A frame, but for the first, is drawn in the colour of the mode it was   *)
(* played in, though animate pairs two lists of which only one is bounded: *)
(* between two calls of clear_data only one run's frames are added.        *)
THEOREM FramesInTheirColour == Spec => []FramesInTheirMode
<1>1. ASSUME LogInv PROVE FramesInTheirMode
  <2>1. PICK r \in Nat : ModesFit(display, r)
    BY <1>1 DEF LogInv, OnScreen
  <2>2. /\ Len(display.frame_numbers) \in Nat /\ Len(display.modes) \in Nat
    BY <1>1, LenProperties DEF LogInv, TypeOK, Screens
  <2> SUFFICES ASSUME NEW i \in 2 .. Len(display.frame_numbers)
               PROVE  /\ i <= Len(display.modes)
                      /\ display.modes[i] = mode[display.frame_numbers[i].run]
    BY DEF FramesInTheirMode
  <2>3. Len(display.frame_numbers) <= Len(display.modes)
    BY <2>1 DEF ModesFit
  <2>4. i \in 2 .. Len(display.modes)
    BY <2>2, <2>3
  <2> QED
    BY <2>1, <2>2, <2>4 DEF ModesFit
<1> QED
  BY <1>1, LogInvHolds, PTL

(* clear_data leaves nothing of an earlier connection on the screen, and   *)
(* what that connection left in recv_buffer becomes one entry at most: a   *)
(* frame or a label, drawn from the one line it is joined to.              *)
THEOREM OneEntryLeft == Spec => []OneLeftover
<1>1. ASSUME LogInv, Connected PROVE OneLeftover
  <2> DEFINE r      == ReadRun
             fs     == display.frame_numbers
             labels == display.live_summary
             F      == {i \in DOMAIN fs : fs[i].run \notin {0, r}}
             L      == {k \in 1 .. SUMMARY_LINES : labels[k].run \notin {0, r}}
  <2>1. FewLeft(display, r)
    BY <1>1 DEF LogInv, OnScreen, Connected
  <2>2. Len(fs) \in Nat /\ DOMAIN fs = 1 .. Len(fs)
    BY <1>1, LenProperties DEF LogInv, TypeOK, Screens
  <2>3. \A S, e : S \subseteq {e} => Cardinality(S) \in {0, 1}
    <3> SUFFICES ASSUME NEW S, NEW e, S \subseteq {e} PROVE Cardinality(S) \in {0, 1}
      OBVIOUS
    <3>1. S = {} \/ S = {e}
      OBVIOUS
    <3> QED
      BY <3>1, FS_EmptySet, FS_Singleton
  <2>4. Cardinality({}) = 0
    BY FS_EmptySet
  <2>5. Cardinality(F) + Cardinality(L) <= 1
    <3>1. CASE /\ \A k \in 1 .. SUMMARY_LINES : Own(labels[k], r)
               /\ \A i \in 2 .. Len(fs) : Own(fs[i], r)
      <4>1. L = {}
        BY <3>1 DEF Own
      <4>2. F \subseteq {1}
        BY <2>2, <3>1 DEF Own
      <4>3. Cardinality(F) \in {0, 1}
        BY <2>3, <4>2
      <4>4. Cardinality(L) = 0
        BY <2>4, <4>1
      <4> HIDE DEF F, L
      <4> QED
        BY <4>3, <4>4
    <3>2. CASE /\ \A i \in 1 .. Len(fs) : Own(fs[i], r)
               /\ \E k \in 1 .. SUMMARY_LINES :
                    \A j \in 1 .. SUMMARY_LINES : j = k \/ Own(labels[j], r)
      <4>1. F = {}
        BY <2>2, <3>2 DEF Own
      <4>2. PICK k \in 1 .. SUMMARY_LINES : L \subseteq {k}
        BY <3>2 DEF Own
      <4>3. Cardinality(L) \in {0, 1}
        BY <2>3, <4>2
      <4>4. Cardinality(F) = 0
        BY <2>4, <4>1
      <4> HIDE DEF F, L
      <4> QED
        BY <4>3, <4>4
    <3> QED
      BY <2>1, <3>1, <3>2 DEF FewLeft
  <2> QED
    BY <2>5 DEF OneLeftover, ReadRun, Current
<1>2. LogInv => OneLeftover
  BY <1>1 DEF OneLeftover
<1> QED
  BY <1>2, LogInvHolds, PTL

(* However the log is cut on its way, and whatever the last connection     *)
(* left, the screen shows the frames of the lines that have been read, in  *)
(* order and without a gap, but perhaps for the first line's.              *)
THEOREM ScreenShowsLog == Spec => []ShowsWhatWasSent
<1>1. ASSUME LogInv, Connected PROVE ShowsWhatWasSent
  <2>0. /\ LinkInv /\ TypeOK /\ Past("log") /\ ~Dead(Current)
        /\ Current \in 1 .. MaxConns /\ ReadRun \in 1 .. MaxRuns
    BY <1>1, CurrentFacts DEF LogInv, Connected, Past, Current
  <2>1. PICK c, r, s, w, b, shown :
          /\ c = Current /\ r = ReadRun /\ s = sent[c] /\ w = wire[c] /\ b = recv_buffer
          /\ shown = display.frame_numbers
    OBVIOUS
  <2>2. /\ s \in Seq(Lines) /\ w \in Seq(Pieces) /\ b \in Seq(Pieces) /\ r \in Nat
        /\ Len(s) \in Nat /\ Len(w) \in Nat /\ Len(b) \in Nat /\ DOMAIN b = 1 .. Len(b)
    BY <2>0, <2>1, StateTypes, LenProperties, Sizes
  <2>3. PICK o \in 0 .. Len(b) : Leads(b, o, r) /\ Following(c, o)
    BY <1>1, <2>0, <2>1 DEF LogInv, Reading
  <2>4. PICK a \in 0 .. Len(s) : ReadUpTo(c, o, a)
    BY <2>1, <2>3 DEF Following
  <2>5. 4 * (Len(s) - a) = Ahead(c)
    <3>1. Len(b \o w) = o + 4 * (Len(s) - a)
      BY <2>1, <2>4 DEF ReadUpTo, Carries
    <3>2. Len(b \o w) = Len(b) + Len(w)
      BY <2>2, ConcatProperties
    <3>3. {i \in DOMAIN b : b[i].run = r} = o + 1 .. Len(b)
      <4>1. ASSUME NEW i \in 1 .. o
            PROVE  b[i].run # r
        <5>1. i \in 1 .. Len(b)
          BY <2>2
        <5>2. b[i].run \in Nat
          BY <2>2, <5>1, PieceTypes, Sizes
        <5> QED
          BY <2>2, <2>3, <5>2 DEF Leads
      <4>2. \A i \in o + 1 .. Len(b) : b[i].run = r
        BY <2>3 DEF Leads
      <4>3. \A i \in 1 .. Len(b) : i \in 1 .. o \/ i \in o + 1 .. Len(b)
        BY <2>2
      <4>4. \A i \in o + 1 .. Len(b) : i \in 1 .. Len(b)
        BY <2>2
      <4> QED
        BY <2>2, <4>1, <4>2, <4>3, <4>4
    <3>4. Cardinality(o + 1 .. Len(b)) = Len(b) - o
      <4>1. o + 1 \in Int /\ Len(b) \in Int /\ o \in Nat /\ o <= Len(b)
        BY <2>2
      <4>2. Cardinality(o + 1 .. Len(b)) = IF o + 1 > Len(b) THEN 0 ELSE Len(b) - (o + 1) + 1
        BY <4>1, FS_Interval
      <4> QED
        BY <4>1, <4>2
    <3>5. Ahead(c) = Len(w) + Cardinality({i \in DOMAIN b : b[i].run = r})
      BY <2>1 DEF Ahead, ReadRun
    <3>6. Ahead(c) = Len(w) + (Len(b) - o)
      BY <3>3, <3>4, <3>5
    <3> QED
      BY <2>2, <3>1, <3>2, <3>6
  <2>6. \E n \in 0 .. Len(shown) :
          /\ \A i \in DOMAIN shown : shown[i].run = r <=> i > Len(shown) - n
          /\ a = 0 => n = 0
          /\ a # 0 => ShowsLast(shown, r, s, a, n)
    <3>1. CASE a = 0
      <4>1. shown = << >>
        BY <1>1, <2>1, <2>4, <3>1, BlankScreen DEF ReadUpTo, Cleared, Connected
      <4>2. DOMAIN shown = {} /\ 0 \in 0 .. Len(shown)
        BY <4>1
      <4> QED
        BY <3>1, <4>2
    <3>2. CASE a # 0
      <4>1. Shows(shown, r, s, a)
        BY <2>1, <2>4, <3>2 DEF ReadUpTo, ReadRun
      <4> QED
        BY <3>2, <4>1 DEF Shows, ShowsLast
    <3> QED
      BY <3>1, <3>2
  <2>7. PICK n \in 0 .. Len(shown) :
          /\ \A i \in DOMAIN shown : shown[i].run = r <=> i > Len(shown) - n
          /\ a = 0 => n = 0
          /\ a # 0 => ShowsLast(shown, r, s, a, n)
    BY <2>6
  <2>8. a # 0 => LET last == s[a].frame IN
                   /\ \A i \in 1 .. n : shown[Len(shown) - n + i].frame = last - n + i
                   /\ last - n <= s[1].frame \/ Len(shown) = MAX_FRAMES
    BY <2>7 DEF ShowsLast
  <2> QED
    BY <2>1, <2>5, <2>7, <2>8 DEF ShowsWhatWasSent, Current, ReadRun
<1>2. LogInv => ShowsWhatWasSent
  BY <1>1 DEF ShowsWhatWasSent
<1> QED
  BY <1>2, LogInvHolds, PTL
=============================================================================
