------------------------ MODULE FilterControlProofs -------------------------
(***************************************************************************)
(* Theorems about FilterControl, for any number of runs, connections and   *)
(* presses, and reads cut in any way: the device obeys what was sent, and  *)
(* the button shows the setting the device has or will have.  The first    *)
(* inductive invariant says where in the stream of symbols cmd_listener    *)
(* is, and what it has in linebuf there.                                   *)
(***************************************************************************)
EXTENDS FilterControl, HostLinkProofs

-----------------------------------------------------------------------------
(* The stream. *)

(* w is what is left, from the p-th symbol on, of the lines that carry the *)
(* settings s.                                                             *)
Carries(w, s, p) ==
  /\ Len(w) + p = 5 * Len(s)
  /\ \A q \in 1 .. Len(s), r \in 1 .. 5 :
       5 * (q - 1) + r > p => w[5 * (q - 1) + r - p] = Line(s[q])[r]

LEMMA LineTypes == \A on \in BOOLEAN : Line(on) \in Seq(Symbols) /\ Len(Line(on)) = 5
BY DEF Line, Digit, Symbols

LEMMA CarriesMore ==
  ASSUME NEW w \in Seq(Symbols), NEW s \in Seq(BOOLEAN), NEW on \in BOOLEAN, NEW p \in Nat,
         Carries(w, s, p)
  PROVE  Carries(w \o Line(on), Append(s, on), p)
<1> DEFINE line == Line(on)
           more == w \o line
           longer == Append(s, on)
<1>0. line \in Seq(Symbols) /\ Len(line) = 5
  BY LineTypes
<1> HIDE DEF line
<1>1. Len(w) \in Nat /\ Len(s) \in Nat
  OBVIOUS
<1>2. /\ Len(more) = Len(w) + 5
      /\ \A i \in 1 .. Len(w) : more[i] = w[i]
      /\ \A r \in 1 .. 5 : more[Len(w) + r] = line[r]
  <2>1. /\ Len(more) = Len(w) + Len(line)
        /\ \A i \in 1 .. Len(w) + Len(line) :
             more[i] = IF i <= Len(w) THEN w[i] ELSE line[i - Len(w)]
    BY <1>0, ConcatProperties, Zenon
  <2> HIDE DEF more
  <2>2. \A i \in 1 .. Len(w) : i \in 1 .. Len(w) + 5 /\ i <= Len(w)
    BY <1>1
  <2>3. \A r \in 1 .. 5 : /\ Len(w) + r \in 1 .. Len(w) + 5 /\ ~(Len(w) + r <= Len(w))
                         /\ Len(w) + r - Len(w) = r
    BY <1>1
  <2> QED
    BY <1>0, <2>1, <2>2, <2>3, SMTT(30)
<1>3. /\ Len(longer) = Len(s) + 1 /\ longer[Len(s) + 1] = on
      /\ \A q \in 1 .. Len(s) : longer[q] = s[q]
  OBVIOUS
<1>4. Len(w) + p = 5 * Len(s)
  BY DEF Carries
<1> HIDE DEF more, longer
<1>5. ASSUME NEW q \in 1 .. Len(longer), NEW r \in 1 .. 5, 5 * (q - 1) + r > p
      PROVE  more[5 * (q - 1) + r - p] = Line(longer[q])[r]
  <2>0. q \in 1 .. Len(s) \/ q = Len(s) + 1
    BY <1>1, <1>3
  <2>1. CASE q = Len(s) + 1
    <3>1. 5 * (q - 1) + r - p = Len(w) + r
      BY <1>1, <1>4, <2>1, SMTT(30)
    <3>2. more[Len(w) + r] = line[r]
      BY <1>2
    <3> QED
      BY <1>3, <2>1, <3>1, <3>2 DEF line
  <2>2. CASE q \in 1 .. Len(s)
    <3>1. w[5 * (q - 1) + r - p] = Line(s[q])[r]
      BY <1>5, <2>2 DEF Carries
    <3>2. 5 * (q - 1) + r - p \in 1 .. Len(w)
      BY <1>1, <1>4, <1>5, <2>2
    <3>3. more[5 * (q - 1) + r - p] = w[5 * (q - 1) + r - p]
      BY <1>2, <3>2
    <3> QED
      BY <1>3, <2>2, <3>1, <3>3
  <2> QED
    BY <2>0, <2>1, <2>2
<1>6. Len(more) + p = 5 * Len(longer)
  BY <1>1, <1>2, <1>3, <1>4, SMTT(30)
<1>7. \A q \in 1 .. Len(longer), r \in 1 .. 5 :
        5 * (q - 1) + r > p => more[5 * (q - 1) + r - p] = Line(longer[q])[r]
  BY <1>5, Zenon
<1>8. Carries(more, longer, p)
  BY <1>6, <1>7, Zenon DEF Carries
<1> QED
  BY <1>8 DEF more, longer, line

LEMMA CarriesLess ==
  ASSUME NEW w \in Seq(Symbols), NEW s \in Seq(BOOLEAN), NEW p \in Nat,
         Carries(w, s, p), w # << >>
  PROVE  Carries(Tail(w), s, p + 1)
<1> DEFINE rest == Tail(w)
<1>1. /\ Len(w) \in Nat /\ Len(s) \in Nat
      /\ Len(rest) = Len(w) - 1
      /\ \A i \in 1 .. Len(w) - 1 : rest[i] = w[i + 1]
  OBVIOUS
<1> HIDE DEF rest
<1>2. Len(w) + p = 5 * Len(s)
  BY DEF Carries
<1>3. ASSUME NEW q \in 1 .. Len(s), NEW r \in 1 .. 5, 5 * (q - 1) + r > p + 1
      PROVE  rest[5 * (q - 1) + r - (p + 1)] = Line(s[q])[r]
  <2> DEFINE i == 5 * (q - 1) + r - (p + 1)
  <2>1. i \in 1 .. Len(w) - 1 /\ i + 1 = 5 * (q - 1) + r - p
    BY <1>1, <1>2, <1>3
  <2>2. w[5 * (q - 1) + r - p] = Line(s[q])[r]
    <3>1. 5 * (q - 1) + r > p
      BY <1>1, <1>3
    <3> QED
      BY <3>1 DEF Carries
  <2> HIDE DEF i
  <2>3. rest[i] = w[i + 1]
    BY <1>1, <2>1
  <2>4. rest[i] = Line(s[q])[r]
    BY <2>1, <2>2, <2>3
  <2> QED
    BY <2>4 DEF i
<1>4. Len(rest) + (p + 1) = 5 * Len(s)
  <2>1. Len(w) \in Nat /\ Len(s) \in Nat /\ Len(rest) = Len(w) - 1
    BY <1>1
  <2> QED
    BY <1>2, <2>1, SMTT(30)
<1>5. \A q \in 1 .. Len(s), r \in 1 .. 5 :
        5 * (q - 1) + r > p + 1 => rest[5 * (q - 1) + r - (p + 1)] = Line(s[q])[r]
  BY <1>3, Zenon
<1>6. Carries(rest, s, p + 1)
  BY <1>4, <1>5, Zenon DEF Carries
<1> QED
  BY <1>6 DEF rest

-----------------------------------------------------------------------------
(* The connections. *)

LEMMA NextStepsLink == [Next]_vars => LinkStep
BY DEF Next, DeviceThread, HostStep, Start, Stop, NetThread, MainStore, ListenerStart,
   ListenerRead, Read, ListenerEnds, ScanSymbol, Scan, PressButton, SendCommand, SendLine,
   HostThread, ClearData, Clear, vars, LinkStep

-----------------------------------------------------------------------------
(* The listener. *)

(* What it has still to scan of the connection it reads. *)
Pending == buf \o wire[cmd_fd]

StreamTypes ==
  /\ wire \in [1 .. MaxConns -> Seq(Symbols)]
  /\ sent \in [1 .. MaxConns -> Seq(BOOLEAN)]
  /\ obeyed \in Seq(BOOLEAN) /\ buf \in Seq(Symbols)
  /\ value \in BOOLEAN

ListenerFacts ==
  /\ cmd_fd \in 0 .. Len(conns)
  /\ listener \in {"wait", "loop", "scan", "gone"}
  /\ listener = "wait" <=> cmd_fd = 0
  /\ listener = "scan" <=> buf # << >>
  /\ cmd_fd = 0 => obeyed = << >> /\ linebuf = << >>

(* On a connection to this run that nobody reads, all that was sent is     *)
(* still on the wire.                                                      *)
Untouched ==
  \A c \in 1 .. MaxConns :
    /\ c > Len(conns) => wire[c] = << >> /\ sent[c] = << >>
    /\ c <= Len(conns) /\ conns[c].run = run /\ c # cmd_fd => Carries(wire[c], sent[c], 0)

(* After p symbols, n settings have been obeyed, and linebuf holds what    *)
(* has been scanned of the line after them; a line ends twice.             *)
Parsed(s, n, p) ==
  \/ p = 5 * n /\ linebuf = << >>
  \/ p = 5 * n + 1 /\ linebuf = <<"set">>
  \/ p = 5 * n + 2 /\ linebuf = <<"set", "filter">>
  \/ p = 5 * n + 3 /\ linebuf = <<"set", "filter", Digit(s[n + 1])>>
  \/ n > 0 /\ p = 5 * n - 1 /\ linebuf = << >>

Obeyed(s) ==
  /\ Len(obeyed) <= Len(s)
  /\ \A i \in 1 .. Len(obeyed) : obeyed[i] = s[i]

Following ==
  cmd_fd # 0 =>
    /\ Obeyed(sent[cmd_fd])
    /\ \E p \in Nat : /\ Carries(Pending, sent[cmd_fd], p)
                      /\ Parsed(sent[cmd_fd], Len(obeyed), p)

FilterInv == LinkInv /\ StreamTypes /\ ListenerFacts /\ Untouched /\ Following

LEMMA NothingCarried == Carries(<< >>, << >>, 0)
BY DEF Carries

LEMMA InitFilter == Init => FilterInv
<1> SUFFICES ASSUME Init PROVE FilterInv
  OBVIOUS
<1>1. StreamTypes
  <2>1. value \in BOOLEAN
    BY Zenon DEF Init
  <2> QED
    BY <2>1 DEF Init, StreamTypes
<1>4. ListenerFacts
  BY DEF Init, LinkInit, ListenerFacts
<1>2. Untouched
  BY NothingCarried DEF Init, Untouched
<1>3. Following
  BY DEF Init, Following
<1> QED
  BY <1>1, <1>2, <1>3, <1>4, InitLinkInv DEF FilterInv, Init

LEMMA LinkGrows ==
  ASSUME FilterInv, [Next]_vars
  PROVE  /\ LinkInv'
         /\ Len(conns) \in Nat /\ Len(conns') \in Nat /\ MaxConns \in Nat
         /\ Len(conns) <= MaxConns /\ Len(conns') >= Len(conns)
         /\ \A c \in 1 .. Len(conns) : conns'[c] = conns[c]
<1>1. LinkInv /\ LinkStep
  BY NextStepsLink DEF FilterInv
<1>2. LinkInv'
  BY <1>1, LinkStepKeepsLink
<1>3. Len(conns) \in Nat /\ Len(conns) <= MaxConns
  BY <1>1, ConnectionFacts DEF LinkInv
<1> QED
  BY <1>1, <1>2, <1>3, ConnsGrow, LinksAssumption

LEMMA CommandLink ==
  ASSUME LinkInv
  PROVE  /\ run \in Nat /\ \A c \in 1 .. Len(conns) : conns[c].run <= run
         /\ sock["cmd"] \in 0 .. Len(conns)
         /\ accepted["cmd"] # 0 =>
              accepted["cmd"] \in 1 .. Len(conns) /\ conns[accepted["cmd"]].run = run
<1>1. run \in Nat /\ \A c \in 1 .. Len(conns) : conns[c].run <= run
  BY LinksAssumption DEF LinkInv, LinkTypeOK, RunsKnown
<1>2. sock["cmd"] \in 0 .. Len(conns)
  BY CommandAssumption DEF LinkInv, SocketsKnown
<1>3. accepted["cmd"] # 0 =>
        accepted["cmd"] \in 1 .. Len(conns) /\ conns[accepted["cmd"]].run = run
  BY CommandAssumption DEF LinkInv, AcceptedKnown
<1> QED
  BY <1>1, <1>2, <1>3

(* The steps in which the listener neither reads nor scans, and nothing is *)
(* sent.                                                                   *)
LEMMA OtherStepsKeep ==
  ASSUME FilterInv, [Next]_vars,
         UNCHANGED <<run, wire, sent, obeyed, buf, linebuf, cmd_fd>>,
         value' \in BOOLEAN,
         listener' = listener \/ (listener = "loop" /\ listener' = "gone")
  PROVE  FilterInv'
<1>0. /\ Len(conns) \in Nat /\ Len(conns') \in Nat /\ MaxConns \in Nat
      /\ LinkInv' /\ Len(conns') >= Len(conns)
      /\ \A c \in 1 .. Len(conns) : conns'[c] = conns[c]
  BY LinkGrows
<1>1. StreamTypes' /\ ListenerFacts'
  BY <1>0 DEF FilterInv, StreamTypes, ListenerFacts
<1>2. Untouched'
  <2> SUFFICES ASSUME NEW c \in 1 .. MaxConns
               PROVE  /\ c > Len(conns') => wire[c] = << >> /\ sent[c] = << >>
                      /\ c <= Len(conns') /\ conns'[c].run = run /\ c # cmd_fd =>
                           Carries(wire[c], sent[c], 0)
    BY DEF Untouched
  <2>1. CASE c > Len(conns)
    BY <2>1, NothingCarried DEF FilterInv, Untouched
  <2>2. CASE c \in 1 .. Len(conns)
    BY <1>0, <2>2 DEF FilterInv, Untouched
  <2> QED
    BY <1>0, <2>1, <2>2
<1>3. Following'
  BY DEF FilterInv, Following, Obeyed, Parsed, Pending
<1> QED
  BY <1>0, <1>1, <1>2, <1>3 DEF FilterInv

(* A new run: no connection is to it yet. *)
LEMMA StartKeeps ==
  ASSUME FilterInv, [Next]_vars, Start
  PROVE  FilterInv'
<1>0. LinkInv' /\ Len(conns) \in Nat /\ MaxConns \in Nat
  BY LinkGrows
<1>1. /\ run' = run + 1 /\ UNCHANGED <<conns, wire, sent, value>>
      /\ cmd_fd' = 0 /\ listener' = "wait"
      /\ buf' = << >> /\ linebuf' = << >> /\ obeyed' = << >>
  BY DEF Start, DeviceStart, client, screen
<1>2. StreamTypes' /\ ListenerFacts'
  <2>1. StreamTypes'
    BY <1>1, EmptySeq DEF FilterInv, StreamTypes
  <2> QED
    BY <1>0, <1>1, <2>1 DEF ListenerFacts
<1>3. Untouched'
  <2>1. run \in Nat /\ \A c \in 1 .. Len(conns) : conns[c].run <= run
    BY CommandLink DEF FilterInv
  <2>2. \A c \in 1 .. Len(conns) : conns[c].run # run + 1
    BY <2>1
  <2> QED
    BY <1>0, <1>1, <2>2 DEF FilterInv, Untouched
<1>4. Following'
  BY <1>1 DEF Following
<1> QED
  BY <1>0, <1>2, <1>3, <1>4 DEF FilterInv

(* The listener takes the connection that was accepted, from its beginning.*)
LEMMA ListenerStartKeeps ==
  ASSUME FilterInv, [Next]_vars, ListenerStart
  PROVE  FilterInv'
<1>0. LinkInv' /\ Len(conns) \in Nat /\ MaxConns \in Nat /\ Len(conns) <= MaxConns
  BY LinkGrows
<1>1. /\ listener = "wait" /\ listener' = "loop" /\ cmd_fd' = accepted["cmd"]
      /\ accepted["cmd"] # 0
      /\ UNCHANGED <<conns, run, wire, sent, value, buf, linebuf, obeyed>>
  BY DEF ListenerStart, link, device, client, screen, filter
<1>2. /\ cmd_fd = 0 /\ cmd_fd' \in 1 .. Len(conns) /\ cmd_fd' \in 1 .. MaxConns
      /\ conns[cmd_fd'].run = run
      /\ buf = << >> /\ linebuf = << >> /\ obeyed = << >>
  BY <1>0, <1>1, CommandLink DEF FilterInv, ListenerFacts
<1>3. StreamTypes' /\ ListenerFacts'
  <2>1. StreamTypes'
    BY <1>1 DEF FilterInv, StreamTypes
  <2> QED
    BY <1>0, <1>1, <1>2, <2>1 DEF ListenerFacts
<1>4. Untouched'
  BY <1>1, <1>2 DEF FilterInv, Untouched
<1>5. Following'
  <2>1. Carries(wire[cmd_fd'], sent[cmd_fd'], 0)
    BY <1>0, <1>2 DEF FilterInv, Untouched
  <2>2. Pending' = wire[cmd_fd']
    <3>1. wire[cmd_fd'] \in Seq(Symbols)
      BY <1>2 DEF FilterInv, StreamTypes
    <3> QED
      BY <1>1, <1>2, <3>1, ConcatEmptySeq DEF Pending
  <2>3. Len(sent[cmd_fd']) \in Nat
    BY <1>2 DEF FilterInv, StreamTypes
  <2>4. Obeyed(sent[cmd_fd])'
    BY <1>1, <1>2, <2>3 DEF Obeyed
  <2>5. Parsed(sent[cmd_fd], Len(obeyed), 0)'
    BY <1>1, <1>2 DEF Parsed
  <2>6. Carries(Pending, sent[cmd_fd], 0)'
    BY <1>1, <2>1, <2>2 DEF Carries
  <2> QED
    BY <2>4, <2>5, <2>6 DEF Following
<1> QED
  BY <1>0, <1>3, <1>4, <1>5 DEF FilterInv

(* A read moves symbols from the wire to buf: what is pending stays.       *)
LEMMA ListenerReadKeeps ==
  ASSUME FilterInv, [Next]_vars, ListenerRead
  PROVE  FilterInv'
<1>0. /\ LinkInv' /\ Len(conns) \in Nat /\ MaxConns \in Nat /\ Len(conns) <= MaxConns
      /\ StreamTypes /\ ListenerFacts /\ Untouched /\ Following
  BY LinkGrows DEF FilterInv
<1> DEFINE w == wire[cmd_fd]
<1>1. PICK n \in 1 .. READ_SIZE :
        /\ n <= Len(w)
        /\ buf' = SubSeq(w, 1, n)
        /\ wire' = [wire EXCEPT ![cmd_fd] = SubSeq(w, n + 1, Len(w))]
  BY DEF ListenerRead, Read
<1>2. /\ listener = "loop" /\ listener' = "scan"
      /\ UNCHANGED <<conns, run, cmd_fd, sent, value, linebuf, obeyed>>
  BY DEF ListenerRead, Read, link, device, client, screen, filter
<1>3. /\ cmd_fd \in 1 .. Len(conns) /\ cmd_fd \in 1 .. MaxConns /\ buf = << >>
  BY <1>0, <1>2 DEF ListenerFacts
<1>4. w \in Seq(Symbols) /\ Len(w) \in Nat /\ n \in Nat \ {0}
  BY <1>0, <1>3, SizesAssumption DEF StreamTypes
<1> HIDE DEF w
<1>5. /\ SubSeq(w, 1, n) \in Seq(Symbols) /\ Len(SubSeq(w, 1, n)) = n
      /\ SubSeq(w, n + 1, Len(w)) \in Seq(Symbols)
  <2>1. \A i \in 1 .. Len(w) : w[i] \in Symbols
    BY <1>4, ElementOfSeq
  <2> QED
    BY <1>1, <1>4, <2>1, SubSeqProperties
<1>6. SubSeq(w, 1, n) \o SubSeq(w, n + 1, Len(w)) = w
  <2>1. /\ 1 \in 1 .. Len(w) + 1 /\ n \in 1 - 1 .. Len(w) /\ Len(w) \in n .. Len(w)
    BY <1>1, <1>4
  <2>2. SubSeq(w, 1, n) \o SubSeq(w, n + 1, Len(w)) = SubSeq(w, 1, Len(w))
    BY <1>4, <2>1, ConcatAdjacentSubSeq
  <2> QED
    BY <1>4, <2>2, SubSeqFull
<1>7. StreamTypes' /\ ListenerFacts'
  <2>1. wire' \in [1 .. MaxConns -> Seq(Symbols)] /\ buf' \in Seq(Symbols)
    BY <1>0, <1>1, <1>5 DEF StreamTypes
  <2>2. buf' # << >>
    BY <1>1, <1>4, <1>5
  <2>3. StreamTypes'
    BY <1>0, <1>2, <2>1 DEF StreamTypes
  <2> QED
    BY <1>0, <1>2, <1>3, <2>2, <2>3 DEF ListenerFacts
<1>8. Untouched'
  <2>1. \A c \in 1 .. MaxConns : c # cmd_fd => wire'[c] = wire[c]
    BY <1>0, <1>1 DEF StreamTypes
  <2>2. ~(cmd_fd > Len(conns))
    BY <1>0, <1>3
  <2> QED
    BY <1>0, <1>2, <2>1, <2>2 DEF Untouched
<1>9. Following'
  <2>1. wire'[cmd_fd] = SubSeq(w, n + 1, Len(w))
    BY <1>0, <1>1, <1>3 DEF StreamTypes
  <2>2. Pending' = w
    BY <1>1, <1>2, <1>6, <2>1 DEF Pending
  <2>3. Pending = w
    BY <1>3, <1>4, ConcatEmptySeq DEF Pending, w
  <2>4. Pending' = Pending
    BY <2>2, <2>3
  <2>5. UNCHANGED <<sent, cmd_fd, obeyed, linebuf>>
    BY <1>2
  <2> HIDE DEF w
  <2> QED
    BY <1>0, <2>4, <2>5 DEF Following, Obeyed, Parsed
<1> QED
  BY <1>0, <1>7, <1>8, <1>9 DEF FilterInv

-----------------------------------------------------------------------------
(* Scanning. *)

LEMMA HeadOfPending ==
  ASSUME NEW b \in Seq(Symbols), NEW w \in Seq(Symbols), b # << >>
  PROVE  /\ b \o w \in Seq(Symbols) /\ b \o w # << >>
         /\ (b \o w)[1] = Head(b)
         /\ Tail(b) \in Seq(Symbols)
         /\ Tail(b) \o w = Tail(b \o w)
<1> DEFINE whole == b \o w
<1>1. /\ whole \in Seq(Symbols) /\ Len(whole) = Len(b) + Len(w)
      /\ \A i \in 1 .. Len(b) + Len(w) : whole[i] = IF i <= Len(b) THEN b[i] ELSE w[i - Len(b)]
  BY ConcatProperties
<1>2. Len(b) \in Nat \ {0} /\ Len(w) \in Nat
  BY EmptySeq, LenProperties
<1> HIDE DEF whole
<1>3. whole # << >> /\ whole[1] = b[1]
  <2>1. Len(whole) # 0 /\ 1 \in 1 .. Len(b) + Len(w) /\ 1 <= Len(b)
    BY <1>1, <1>2
  <2> QED
    BY <1>1, <2>1
<1>4. /\ Tail(b) \in Seq(Symbols) /\ Len(Tail(b)) = Len(b) - 1
      /\ \A i \in 1 .. Len(Tail(b)) : Tail(b)[i] = b[i + 1]
  BY HeadTailProperties
<1>5. /\ Tail(whole) \in Seq(Symbols) /\ Len(Tail(whole)) = Len(whole) - 1
      /\ \A i \in 1 .. Len(Tail(whole)) : Tail(whole)[i] = whole[i + 1]
  BY <1>1, <1>3, HeadTailProperties
<1> DEFINE rest == Tail(b) \o w
<1>6. /\ rest \in Seq(Symbols) /\ Len(rest) = Len(Tail(b)) + Len(w)
      /\ \A i \in 1 .. Len(Tail(b)) + Len(w) :
           rest[i] = IF i <= Len(Tail(b)) THEN Tail(b)[i] ELSE w[i - Len(Tail(b))]
  BY <1>4, ConcatProperties
<1> HIDE DEF rest
<1>7. Len(rest) = Len(Tail(whole))
  BY <1>1, <1>2, <1>4, <1>5, <1>6
<1>8. ASSUME NEW i \in 1 .. Len(rest) PROVE rest[i] = Tail(whole)[i]
  <2>1. /\ i \in Nat \ {0} /\ i \in 1 .. Len(Tail(whole)) /\ i + 1 \in 1 .. Len(b) + Len(w)
        /\ i \in 1 .. Len(Tail(b)) + Len(w)
    BY <1>1, <1>2, <1>4, <1>6, <1>7
  <2>2. Tail(whole)[i] = IF i + 1 <= Len(b) THEN b[i + 1] ELSE w[i + 1 - Len(b)]
    BY <1>1, <1>5, <2>1
  <2>3. CASE i <= Len(b) - 1
    <3>1. i + 1 <= Len(b) /\ i \in 1 .. Len(Tail(b))
      BY <1>2, <1>4, <2>1, <2>3
    <3> QED
      BY <1>4, <1>6, <2>1, <2>2, <2>3, <3>1
  <2>4. CASE ~(i <= Len(b) - 1)
    <3>1. ~(i + 1 <= Len(b)) /\ i + 1 - Len(b) = i - (Len(b) - 1)
      BY <1>2, <2>1, <2>4
    <3> QED
      BY <1>4, <1>6, <2>1, <2>2, <2>4, <3>1
  <2> QED
    BY <2>3, <2>4
<1>9. rest = Tail(whole)
  BY <1>5, <1>6, <1>7, <1>8, SeqEqual
<1> QED
  BY <1>1, <1>3, <1>4, <1>9 DEF whole, rest

LEMMA HeadSymbol ==
  ASSUME NEW w \in Seq(Symbols), NEW s \in Seq(BOOLEAN), NEW p \in Nat, Carries(w, s, p),
         NEW q \in 1 .. Len(s), NEW r \in 1 .. 5, p + 1 = 5 * (q - 1) + r
  PROVE  w[1] = Line(s[q])[r]
<1>1. 5 * (q - 1) + r > p /\ 5 * (q - 1) + r - p = 1
  <2>1. Len(s) \in Nat
    BY LenProperties
  <2> QED
    BY <2>1
<1>2. w[5 * (q - 1) + r - p] = Line(s[q])[r]
  BY <1>1 DEF Carries
<1> QED
  BY <1>1, <1>2

LEMMA LineSymbols ==
  ASSUME NEW on \in BOOLEAN
  PROVE  /\ Line(on)[1] = "set" /\ Line(on)[2] = "filter" /\ Line(on)[3] = Digit(on)
         /\ Line(on)[4] = "nl" /\ Line(on)[5] = "nl"
         /\ Digit(on) # "nl"
BY DEF Line, Digit

(* sscanf reads back what was formatted. *)
LEMMA DigitParsed ==
  ASSUME NEW on \in BOOLEAN, NEW v \in ParsedValues(<<"set", "filter", Digit(on)>>)
  PROVE  v = on
<1> DEFINE line == <<"set", "filter", Digit(on)>>
<1>1. Len(line) = 3 /\ line[3] = Digit(on) /\ Digit(on) \in {"0", "1"}
  BY DEF Digit
<1>2. ParsedValues(line) = {Digit(on) = "1"}
  BY <1>1 DEF ParsedValues
<1>3. v = (Digit(on) = "1")
  BY <1>2
<1>4. CASE on = TRUE
  <2>1. Digit(on) = "1"
    BY <1>4 DEF Digit
  <2> QED
    BY <1>3, <1>4, <2>1, Zenon
<1>5. CASE on = FALSE
  <2>1. Digit(on) # "1"
    BY <1>5 DEF Digit
  <2> QED
    BY <1>3, <1>5, <2>1, Zenon
<1> QED
  BY <1>4, <1>5, Zenon

LEMMA LineBegun ==
  ASSUME NEW d
  PROVE  /\ Append(<< >>, d) = <<d>>
         /\ Append(<<"set">>, d) = <<"set", d>>
         /\ Append(<<"set", "filter">>, d) = <<"set", "filter", d>>
<1> DEFINE S == {"set", "filter", d}
<1>1. Append(<< >>, d) = <<d>>
  <2>1. << >> \in Seq(S) /\ <<d>> \in Seq(S) /\ d \in S
    OBVIOUS
  <2>2. Len(Append(<< >>, d)) = 1 /\ Append(<< >>, d)[1] = d
    BY <2>1
  <2>3. Append(<< >>, d) \in Seq(S)
    BY <2>1
  <2> QED
    BY <2>1, <2>2, <2>3, SeqEqual
<1>2. Append(<<"set">>, d) = <<"set", d>>
  <2>1. <<"set">> \in Seq(S) /\ <<"set", d>> \in Seq(S) /\ d \in S
    OBVIOUS
  <2>2. /\ Append(<<"set">>, d) \in Seq(S) /\ Len(Append(<<"set">>, d)) = 2
        /\ Append(<<"set">>, d)[1] = "set" /\ Append(<<"set">>, d)[2] = d
    BY <2>1
  <2>3. \A i \in 1 .. 2 : Append(<<"set">>, d)[i] = <<"set", d>>[i]
    BY <2>2
  <2> QED
    BY <2>1, <2>2, <2>3, SeqEqual
<1>3. Append(<<"set", "filter">>, d) = <<"set", "filter", d>>
  <2>1. <<"set", "filter">> \in Seq(S) /\ <<"set", "filter", d>> \in Seq(S) /\ d \in S
    OBVIOUS
  <2>2. /\ Append(<<"set", "filter">>, d) \in Seq(S) /\ Len(Append(<<"set", "filter">>, d)) = 3
        /\ Append(<<"set", "filter">>, d)[1] = "set"
        /\ Append(<<"set", "filter">>, d)[2] = "filter"
        /\ Append(<<"set", "filter">>, d)[3] = d
    BY <2>1
  <2>3. \A i \in 1 .. 3 : Append(<<"set", "filter">>, d)[i] = <<"set", "filter", d>>[i]
    BY <2>2
  <2> QED
    BY <2>1, <2>2, <2>3, SeqEqual
<1> QED
  BY <1>1, <1>2, <1>3

LEMMA LineWhole == \A d : IsFilterLine(<<"set", "filter", d>>)
<1> SUFFICES ASSUME NEW d PROVE IsFilterLine(<<"set", "filter", d>>)
  OBVIOUS
<1> DEFINE line == <<"set", "filter", d>>
           key  == SubSeq(line, 1, 2)
           S    == {"set", "filter", d}
<1>1. line \in Seq(S) /\ Len(line) = 3 /\ line[1] = "set" /\ line[2] = "filter"
  OBVIOUS
<1> HIDE DEF line
<1>2. \A i \in 1 .. 2 : line[i] \in S
  BY <1>1
<1> HIDE DEF S
<1>3. /\ key \in Seq(S) /\ Len(key) = 2
      /\ \A i \in 1 .. 2 : key[i] = line[i]
  BY <1>2, SubSeqProperties
<1> HIDE DEF key
<1>4. key = <<"set", "filter">>
  BY <1>1, <1>3
<1>5. Len(line) >= 2 /\ SubSeq(line, 1, 2) = <<"set", "filter">>
  BY <1>1, <1>4 DEF key
<1> QED
  BY <1>5 DEF IsFilterLine, line

(* One symbol further in the stream, the listener is one further in the    *)
(* line, or has obeyed it.                                                 *)
LEMMA ScanFollows ==
  ASSUME NEW s \in Seq(BOOLEAN), NEW w \in Seq(Symbols), NEW p \in Nat, w # << >>,
         Carries(w, s, p), obeyed \in Seq(BOOLEAN), Obeyed(s), Parsed(s, Len(obeyed), p),
         Head(buf) = w[1], ScanSymbol
  PROVE  /\ obeyed' \in Seq(BOOLEAN)
         /\ Len(obeyed') <= Len(s) /\ \A i \in 1 .. Len(obeyed') : obeyed'[i] = s[i]
         /\ Parsed(s, Len(obeyed), p + 1)'
<1> DEFINE n == Len(obeyed)
<1>0. /\ Len(s) \in Nat /\ n \in Nat /\ n <= Len(s) /\ Len(w) \in Nat \ {0}
      /\ Len(w) + p = 5 * Len(s)
  BY EmptySeq, LenProperties DEF Carries, Obeyed
<1>1. IF w[1] = "nl" \/ Len(linebuf) >= LINE_SIZE - 1
        THEN Obey(linebuf) /\ linebuf' = << >>
        ELSE linebuf' = Append(linebuf, w[1]) /\ obeyed' = obeyed
  BY DEF ScanSymbol, Scan, filter
<1>2. ASSUME p \in 5 * n .. 5 * n + 3
      PROVE  /\ n + 1 \in 1 .. Len(s) /\ s[n + 1] \in BOOLEAN
             /\ \A r \in 1 .. 5 : p + 1 = 5 * n + r => w[1] = Line(s[n + 1])[r]
  <2>1. n + 1 \in 1 .. Len(s)
    BY <1>0, <1>2
  <2>2. s[n + 1] \in BOOLEAN
    BY <2>1, ElementOfSeq
  <2>3. ASSUME NEW r \in 1 .. 5, p + 1 = 5 * n + r
        PROVE  w[1] = Line(s[n + 1])[r]
    <3>1. p + 1 = 5 * ((n + 1) - 1) + r
      BY <1>0, <2>3
    <3> QED
      BY <2>1, <3>1, HeadSymbol
  <2> QED
    BY <2>1, <2>2, <2>3
<1>3. ASSUME obeyed' = obeyed, Parsed(s, n, p + 1)'
      PROVE  /\ obeyed' \in Seq(BOOLEAN)
             /\ Len(obeyed') <= Len(s) /\ \A i \in 1 .. Len(obeyed') : obeyed'[i] = s[i]
             /\ Parsed(s, Len(obeyed), p + 1)'
  BY <1>3 DEF Obeyed
<1>9. ASSUME w[1] # "nl", Len(linebuf) \in 0 .. 2
      PROVE  linebuf' = Append(linebuf, w[1]) /\ obeyed' = obeyed
  <2>1. LINE_SIZE \in Nat /\ LINE_SIZE > 3
    BY SizesAssumption
  <2>3. \A k \in 0 .. 2 : ~(k >= LINE_SIZE - 1)
    BY <2>1
  <2>2. ~(Len(linebuf) >= LINE_SIZE - 1)
    BY <1>9, <2>3, Zenon
  <2> QED
    BY <1>1, <1>9, <2>2
<1>4. CASE p = 5 * n /\ linebuf = << >>
  <2>1. w[1] = "set" /\ Len(linebuf) = 0
    BY <1>0, <1>2, <1>4, LineSymbols, SMTT(30)
  <2>2. linebuf' = <<"set">> /\ obeyed' = obeyed
    BY <1>4, <1>9, <2>1, LineBegun
  <2> QED
    BY <1>3, <1>4, <2>2 DEF Parsed
<1>5. CASE p = 5 * n + 1 /\ linebuf = <<"set">>
  <2>1. w[1] = "filter" /\ Len(linebuf) = 1
    BY <1>0, <1>2, <1>5, LineSymbols, SMTT(30)
  <2>2. linebuf' = <<"set", "filter">> /\ obeyed' = obeyed
    BY <1>5, <1>9, <2>1, LineBegun
  <2>3. p + 1 = 5 * n + 2
    BY <1>0, <1>5
  <2> QED
    BY <1>3, <2>2, <2>3 DEF Parsed
<1>6. CASE p = 5 * n + 2 /\ linebuf = <<"set", "filter">>
  <2>1. w[1] = Digit(s[n + 1]) /\ w[1] # "nl" /\ Len(linebuf) = 2
    BY <1>0, <1>2, <1>6, LineSymbols, SMTT(30)
  <2>2. linebuf' = <<"set", "filter", Digit(s[n + 1])>> /\ obeyed' = obeyed
    <3>1. linebuf' = Append(<<"set", "filter">>, w[1]) /\ obeyed' = obeyed
      BY <1>6, <1>9, <2>1
    <3>2. linebuf' = <<"set", "filter", w[1]>>
      BY <3>1, LineBegun, Zenon
    <3> QED
      BY <2>1, <3>1, <3>2, Zenon
  <2>3. p + 1 = 5 * n + 3
    BY <1>0, <1>6
  <2> QED
    BY <1>3, <2>2, <2>3 DEF Parsed
<1>7. CASE p = 5 * n + 3 /\ linebuf = <<"set", "filter", Digit(s[n + 1])>>
  <2>0. n + 1 \in 1 .. Len(s) /\ s[n + 1] \in BOOLEAN
    BY <1>0, <1>2, <1>7
  <2>1. w[1] = "nl"
    BY <1>0, <1>2, <1>7, LineSymbols
  <2>2. Obey(linebuf) /\ linebuf' = << >>
    BY <1>1, <2>1
  <2>3. IsFilterLine(linebuf)
    BY <1>7, LineWhole
  <2>4. setting' \in ParsedValues(linebuf) /\ obeyed' = Append(obeyed, setting')
    BY <2>2, <2>3 DEF Obey
  <2>5. setting' = s[n + 1]
    BY <1>7, <2>0, <2>4, DigitParsed
  <2>6. /\ obeyed' \in Seq(BOOLEAN) /\ Len(obeyed') = n + 1 /\ obeyed'[n + 1] = s[n + 1]
        /\ \A i \in 1 .. n : obeyed'[i] = obeyed[i]
    BY <2>0, <2>4, <2>5
  <2>7. \A i \in 1 .. n + 1 : obeyed'[i] = s[i]
    <3>1. ASSUME NEW i \in 1 .. n + 1 PROVE obeyed'[i] = s[i]
      <4>1. i = n + 1 \/ i \in 1 .. n
        BY <1>0
      <4> QED
        BY <2>6, <4>1 DEF Obeyed
    <3> QED
      BY <3>1
  <2>8. n + 1 > 0 /\ p + 1 = 5 * (n + 1) - 1
    BY <1>0, <1>7
  <2> QED
    BY <2>0, <2>2, <2>6, <2>7, <2>8 DEF Parsed
<1>8. CASE n > 0 /\ p = 5 * n - 1 /\ linebuf = << >>
  <2>1. /\ n \in 1 .. Len(s) /\ p + 1 = 5 * (n - 1) + 5 /\ p + 1 = 5 * n
    BY <1>0, <1>8
  <2>2. s[n] \in BOOLEAN
    BY <2>1, ElementOfSeq
  <2>3. w[1] = "nl"
    BY <2>1, <2>2, HeadSymbol, LineSymbols
  <2>4. Obey(linebuf) /\ linebuf' = << >>
    BY <1>1, <2>3
  <2>5. ~IsFilterLine(linebuf)
    BY <1>8 DEF IsFilterLine
  <2>6. obeyed' = obeyed
    BY <2>4, <2>5 DEF Obey, filter
  <2> QED
    BY <1>3, <2>1, <2>4, <2>6 DEF Parsed
<1> QED
  BY <1>4, <1>5, <1>6, <1>7, <1>8 DEF Parsed

LEMMA ScanSymbolKeeps ==
  ASSUME FilterInv, [Next]_vars, ScanSymbol
  PROVE  FilterInv'
<1>0. /\ LinkInv' /\ Len(conns) \in Nat /\ MaxConns \in Nat /\ Len(conns) <= MaxConns
      /\ StreamTypes /\ ListenerFacts /\ Untouched /\ Following
  BY LinkGrows DEF FilterInv
<1>1. /\ listener = "scan" /\ buf' = Tail(buf)
      /\ listener' = (IF buf' = << >> THEN "loop" ELSE "scan")
      /\ UNCHANGED <<conns, run, wire, cmd_fd, sent, value>>
  BY DEF ScanSymbol, Scan, link, device, client, screen
<1>2. /\ cmd_fd \in 1 .. Len(conns) /\ cmd_fd \in 1 .. MaxConns /\ buf # << >>
  BY <1>0, <1>1 DEF ListenerFacts
<1>3. /\ buf \in Seq(Symbols) /\ wire[cmd_fd] \in Seq(Symbols)
      /\ sent[cmd_fd] \in Seq(BOOLEAN) /\ obeyed \in Seq(BOOLEAN)
  BY <1>0, <1>2 DEF StreamTypes
<1>4. /\ Pending \in Seq(Symbols) /\ Pending # << >> /\ Pending[1] = Head(buf)
      /\ buf' \in Seq(Symbols) /\ Pending' = Tail(Pending)
  <2>1. /\ Pending \in Seq(Symbols) /\ Pending # << >> /\ Pending[1] = Head(buf)
        /\ Tail(buf) \in Seq(Symbols) /\ Tail(buf) \o wire[cmd_fd] = Tail(Pending)
    BY <1>2, <1>3, HeadOfPending, Zenon DEF Pending
  <2>2. Pending' = Tail(buf) \o wire[cmd_fd]
    BY <1>1 DEF Pending
  <2> QED
    BY <1>1, <2>1, <2>2, Zenon
<1>5. PICK p \in Nat, s \in Seq(BOOLEAN), w \in Seq(Symbols) :
        /\ s = sent[cmd_fd] /\ w = Pending
        /\ Carries(w, s, p) /\ Parsed(s, Len(obeyed), p)
  <2>1. PICK p \in Nat : /\ Carries(Pending, sent[cmd_fd], p)
                         /\ Parsed(sent[cmd_fd], Len(obeyed), p)
    BY <1>0, <1>2 DEF Following
  <2> QED
    BY <1>3, <1>4, <2>1
<1>6. Obeyed(s)
  BY <1>0, <1>2, <1>5 DEF Following
<1>7. /\ obeyed' \in Seq(BOOLEAN)
      /\ Len(obeyed') <= Len(s) /\ \A i \in 1 .. Len(obeyed') : obeyed'[i] = s[i]
      /\ Parsed(s, Len(obeyed), p + 1)'
  BY <1>3, <1>4, <1>5, <1>6, ScanFollows
<1>8. Carries(Tail(w), s, p + 1)
  BY <1>3, <1>4, <1>5, CarriesLess
<1>9. StreamTypes' /\ ListenerFacts'
  <2>1. StreamTypes'
    BY <1>0, <1>1, <1>4, <1>7 DEF StreamTypes
  <2>2. cmd_fd' \in 0 .. Len(conns') /\ cmd_fd' # 0
    BY <1>1, <1>2
  <2>3. listener' \in {"loop", "scan"} /\ (listener' = "scan" <=> buf' # << >>)
    BY <1>1
  <2> QED
    BY <2>1, <2>2, <2>3 DEF ListenerFacts
<1>10. Untouched'
  BY <1>0, <1>1 DEF Untouched
<1>11. Following'
  <2>1. sent[cmd_fd]' = s
    BY <1>1, <1>5
  <2>2. Obeyed(sent[cmd_fd])'
    BY <1>7, <2>1 DEF Obeyed
  <2>3. Carries(Pending, sent[cmd_fd], p + 1)'
    BY <1>4, <1>5, <1>8, <2>1 DEF Carries
  <2>4. Parsed(sent[cmd_fd], Len(obeyed), p + 1)'
    BY <1>7, <2>1 DEF Parsed
  <2>5. p + 1 \in Nat
    BY <1>5
  <2> QED
    BY <2>2, <2>3, <2>4, <2>5 DEF Following
<1> QED
  BY <1>0, <1>9, <1>10, <1>11 DEF FilterInv

LEMMA ParsedMore ==
  ASSUME NEW s \in Seq(BOOLEAN), NEW on \in BOOLEAN, NEW w \in Seq(Symbols),
         NEW p \in Nat, NEW n \in Nat, Carries(w, s, p), Parsed(s, n, p)
  PROVE  Parsed(Append(s, on), n, p)
<1>1. CASE p = 5 * n + 3 /\ linebuf = <<"set", "filter", Digit(s[n + 1])>>
  <2>1. /\ Len(s) \in Nat /\ Len(w) \in Nat /\ Len(w) + p = 5 * Len(s)
    BY LenProperties DEF Carries
  <2>2. n + 1 \in 1 .. Len(s)
    BY <1>1, <2>1
  <2>3. Append(s, on)[n + 1] = s[n + 1]
    BY <2>2
  <2> QED
    BY <1>1, <2>3 DEF Parsed
<1> QED
  BY <1>1 DEF Parsed

LEMMA SymbolsInThree ==
  ASSUME NEW u \in Seq(Symbols), NEW v \in Seq(Symbols), NEW w \in Seq(Symbols)
  PROVE  u \o (v \o w) = (u \o v) \o w
BY InThree, SMTT(30)

(* A line is sent on a connection to this run: whether it is the one the   *)
(* listener reads or not, it now carries one setting more.                 *)
LEMMA LineSentKeeps ==
  ASSUME FilterInv, [Next]_vars, NEW c \in 1 .. Len(conns), conns[c].run = run,
         NEW on \in BOOLEAN,
         wire' = [wire EXCEPT ![c] = wire[c] \o Line(on)],
         sent' = [sent EXCEPT ![c] = Append(sent[c], on)],
         UNCHANGED <<conns, run, obeyed, buf, linebuf, cmd_fd, listener, value>>
  PROVE  FilterInv'
<1>0. /\ LinkInv' /\ Len(conns) \in Nat /\ MaxConns \in Nat /\ Len(conns) <= MaxConns
      /\ StreamTypes /\ ListenerFacts /\ Untouched /\ Following
  BY LinkGrows DEF FilterInv
<1>1. /\ c \in 1 .. MaxConns
      /\ wire[c] \in Seq(Symbols) /\ sent[c] \in Seq(BOOLEAN)
      /\ Line(on) \in Seq(Symbols)
  BY <1>0, LineTypes DEF StreamTypes
<1> DEFINE more == wire[c] \o Line(on)
           longer == Append(sent[c], on)
<1>2. more \in Seq(Symbols) /\ longer \in Seq(BOOLEAN)
  BY <1>1, ConcatProperties, AppendProperties
<1>3. /\ wire'[c] = more /\ sent'[c] = longer
      /\ \A d \in 1 .. MaxConns : d # c => wire'[d] = wire[d] /\ sent'[d] = sent[d]
  BY <1>0, <1>1 DEF StreamTypes
<1>4. StreamTypes' /\ ListenerFacts'
  <2>1. wire' \in [1 .. MaxConns -> Seq(Symbols)] /\ sent' \in [1 .. MaxConns -> Seq(BOOLEAN)]
    BY <1>0, <1>2 DEF StreamTypes
  <2>2. value' \in BOOLEAN
    BY <1>0, Zenon DEF StreamTypes
  <2>3. StreamTypes'
    BY <1>0, <2>1, <2>2 DEF StreamTypes
  <2> QED
    BY <1>0, <2>3 DEF ListenerFacts
<1>5. Untouched'
  <2>1. c # cmd_fd => Carries(more, longer, 0)
    <3>1. c # cmd_fd => Carries(wire[c], sent[c], 0)
      BY <1>0, <1>1 DEF Untouched
    <3> QED
      BY <1>1, <3>1, CarriesMore
  <2> HIDE DEF more, longer
  <2> SUFFICES ASSUME NEW d \in 1 .. MaxConns
               PROVE  /\ d > Len(conns) => wire'[d] = << >> /\ sent'[d] = << >>
                      /\ d <= Len(conns) /\ conns[d].run = run /\ d # cmd_fd =>
                           Carries(wire'[d], sent'[d], 0)
    BY DEF Untouched, Carries
  <2>2. CASE d = c
    <3>1. ~(c > Len(conns))
      BY <1>0
    <3>2. wire'[d] = more /\ sent'[d] = longer
      BY <1>3, <2>2, Zenon
    <3> QED
      BY <2>1, <2>2, <3>1, <3>2, Zenon
  <2>3. CASE d # c
    <3>1. wire'[d] = wire[d] /\ sent'[d] = sent[d]
      BY <1>3, <2>3
    <3>2. /\ d > Len(conns) => wire[d] = << >> /\ sent[d] = << >>
          /\ d <= Len(conns) /\ conns[d].run = run /\ d # cmd_fd => Carries(wire[d], sent[d], 0)
      BY <1>0 DEF Untouched
    <3> QED
      BY <3>1, <3>2
  <2> QED
    BY <2>2, <2>3
<1>6. CASE c # cmd_fd
  <2>1. cmd_fd # 0 => sent'[cmd_fd] = sent[cmd_fd] /\ wire'[cmd_fd] = wire[cmd_fd]
    BY <1>0, <1>3, <1>6 DEF ListenerFacts
  <2>2. Following'
    <3> SUFFICES ASSUME cmd_fd # 0 PROVE Following'
      BY DEF Following
    <3>1. sent[cmd_fd]' = sent[cmd_fd] /\ Pending' = Pending
      BY <2>1 DEF Pending
    <3> QED
      BY <1>0, <3>1 DEF Following, Obeyed, Parsed
  <2> QED
    BY <1>0, <1>4, <1>5, <2>2 DEF FilterInv
<1>7. CASE c = cmd_fd
  <2>1. cmd_fd # 0 /\ Obeyed(longer)
    <3>1. cmd_fd # 0 /\ Obeyed(sent[c])
      BY <1>0, <1>1, <1>7 DEF Following
    <3>2. Len(longer) = Len(sent[c]) + 1 /\ \A i \in 1 .. Len(sent[c]) : longer[i] = sent[c][i]
      BY <1>1, AppendProperties, SMTT(30)
    <3>3. Len(obeyed) \in Nat /\ Len(sent[c]) \in Nat
      BY <1>0, <1>1, LenProperties DEF StreamTypes
    <3> HIDE DEF longer
    <3>4. Len(obeyed) <= Len(longer)
      BY <3>1, <3>2, <3>3 DEF Obeyed
    <3>5. \A i \in 1 .. Len(obeyed) : i \in 1 .. Len(sent[c]) /\ obeyed[i] = sent[c][i]
      BY <3>1, <3>3 DEF Obeyed
    <3> QED
      BY <3>1, <3>2, <3>4, <3>5, Zenon DEF Obeyed
  <2>2. buf \in Seq(Symbols) /\ Pending \in Seq(Symbols)
    BY <1>0, <1>1, <1>7, ConcatProperties DEF StreamTypes, Pending
  <2>3. Pending' = Pending \o Line(on)
    <3>1. Pending' = buf \o more
      BY <1>3, <1>7 DEF Pending
    <3>2. buf \o (wire[c] \o Line(on)) = (buf \o wire[c]) \o Line(on)
      <4>1. buf \in Seq(Symbols) /\ wire[c] \in Seq(Symbols) /\ Line(on) \in Seq(Symbols)
        BY <1>1, <2>2
      <4> QED
        BY <4>1, SymbolsInThree
    <3> QED
      BY <1>7, <3>1, <3>2 DEF Pending
  <2>4. PICK p \in Nat : Carries(Pending, sent[c], p) /\ Parsed(sent[c], Len(obeyed), p)
    BY <1>0, <1>7, <2>1 DEF Following
  <2>5. Carries(Pending \o Line(on), longer, p)
    BY <1>1, <2>2, <2>4, CarriesMore
  <2>6. Parsed(longer, Len(obeyed), p)
    <3>1. Len(obeyed) \in Nat
      BY <1>0 DEF StreamTypes
    <3> QED
      BY <1>1, <2>2, <2>4, <3>1, ParsedMore
  <2> HIDE DEF longer
  <2>7. Following'
    <3>1. sent[cmd_fd]' = longer
      BY <1>3, <1>7
    <3>2. Obeyed(sent[cmd_fd])'
      BY <2>1, <3>1 DEF Obeyed
    <3>3. Carries(Pending, sent[cmd_fd], p)'
      BY <2>3, <2>5, <3>1 DEF Carries
    <3>4. Parsed(sent[cmd_fd], Len(obeyed), p)'
      BY <2>6, <3>1 DEF Parsed
    <3> QED
      BY <3>2, <3>3, <3>4 DEF Following
  <2> QED
    BY <1>0, <1>4, <1>5, <2>7 DEF FilterInv
<1> QED
  BY <1>6, <1>7

LEMMA SendCommandKeeps ==
  ASSUME FilterInv, [Next]_vars, SendCommand
  PROVE  FilterInv'
<1> DEFINE c == sock["cmd"]
<1>1. /\ UNCHANGED <<conns, run, up, obeyed, buf, linebuf, cmd_fd, listener, value>>
      /\ IF c # 0 /\ ~Dead(c)
           THEN /\ wire' = [wire EXCEPT ![c] = wire[c] \o Line(value)]
                /\ sent' = [sent EXCEPT ![c] = Append(sent[c], value)]
           ELSE UNCHANGED <<wire, sent>>
  BY DEF SendCommand, SendLine, link, device, client, parser, filter
<1>2. value \in BOOLEAN /\ c \in 0 .. Len(conns) /\ Len(conns) \in Nat
  BY LinkGrows, CommandLink DEF FilterInv, StreamTypes
<1>3. CASE c # 0 /\ ~Dead(c)
  <2>1. c \in 1 .. Len(conns) /\ conns[c].run = run
    BY <1>2, <1>3 DEF Dead
  <2> QED
    BY <1>1, <1>2, <1>3, <2>1, LineSentKeeps
<1>4. CASE ~(c # 0 /\ ~Dead(c))
  <2>1. value' \in BOOLEAN
    BY <1>1, <1>2, Zenon
  <2> QED
    BY <1>1, <1>4, <2>1, OtherStepsKeep
<1> QED
  BY <1>3, <1>4

-----------------------------------------------------------------------------
LEMMA NextKeepsFilter == FilterInv /\ [Next]_vars => FilterInv'
<1> SUFFICES ASSUME FilterInv, [Next]_vars PROVE FilterInv'
  OBVIOUS
<1>0. value \in BOOLEAN /\ shown = shown
  BY DEF FilterInv, StreamTypes
<1>1. CASE Start
  BY <1>1, StartKeeps
<1>2. CASE ListenerStart
  BY <1>2, ListenerStartKeeps
<1>3. CASE ListenerRead
  BY <1>3, ListenerReadKeeps
<1>4. CASE ScanSymbol
  BY <1>4, ScanSymbolKeeps
<1>5. CASE SendCommand
  BY <1>5, SendCommandKeeps
<1>6. CASE Stop \/ NetThread \/ MainStore \/ HostThread \/ ClearData \/ UNCHANGED vars
  <2>1. UNCHANGED <<run, wire, sent, obeyed, buf, linebuf, cmd_fd, listener, value>>
    BY <1>6 DEF Stop, NetThread, MainStore, HostThread, ClearData, Clear, vars, link, device,
       client, screen, parser, filter, DeviceExit, Listen, Accept, HostConnect, HostRetry,
       HostLost, HostClear
  <2>2. value' \in BOOLEAN
    BY <1>0, <2>1, Zenon
  <2> QED
    BY <2>1, <2>2, OtherStepsKeep
<1>7. CASE ListenerEnds
  <2>1. /\ UNCHANGED <<run, wire, sent, obeyed, buf, linebuf, cmd_fd, value>>
        /\ listener = "loop" /\ listener' = "gone"
    BY <1>7 DEF ListenerEnds, link, device, screen, filter
  <2>2. value' \in BOOLEAN
    BY <1>0, <2>1, Zenon
  <2> QED
    BY <2>1, <2>2, OtherStepsKeep
<1>8. CASE PressButton
  <2>1. /\ UNCHANGED <<run, wire, sent, obeyed, buf, linebuf, cmd_fd, listener>>
        /\ value' = ~shown
    BY <1>8 DEF PressButton, link, device, parser, filter
  <2>2. value' \in BOOLEAN
    BY <2>1, Zenon
  <2> QED
    BY <2>1, <2>2, OtherStepsKeep
<1> QED
  BY <1>1, <1>2, <1>3, <1>4, <1>5, <1>6, <1>7, <1>8 DEF Next, DeviceThread, HostStep

LEMMA FollowedIsPrefix == FilterInv => ObeysWhatWasSent
<1> SUFFICES ASSUME FilterInv PROVE ObeysWhatWasSent
  OBVIOUS
<1>1. CASE cmd_fd = 0
  BY <1>1 DEF ObeysWhatWasSent, FilterInv, ListenerFacts
<1>2. CASE cmd_fd # 0
  <2> DEFINE s == sent[cmd_fd]
             n == Len(obeyed)
  <2>1. cmd_fd \in 1 .. MaxConns
    <3>1. Len(conns) <= MaxConns /\ cmd_fd \in 0 .. Len(conns)
      BY DEF FilterInv, LinkInv, ListenerFacts
    <3>2. Len(conns) \in Nat
      BY ConnectionFacts DEF FilterInv, LinkInv
    <3> QED
      BY <1>2, <3>1, <3>2, LinksAssumption
  <2>2. /\ s \in Seq(BOOLEAN) /\ obeyed \in Seq(BOOLEAN)
        /\ n <= Len(s) /\ \A i \in 1 .. n : obeyed[i] = s[i]
    BY <1>2, <2>1 DEF FilterInv, StreamTypes, Following, Obeyed
  <2> HIDE DEF s
  <2>3. n \in Nat /\ Len(s) \in Nat
    BY <2>2, LenProperties
  <2>4. SubSeq(obeyed, 1, n) = SubSeq(s, 1, n)
    <3>1. \A i \in 1 .. n : obeyed[i] \in BOOLEAN /\ s[i] \in BOOLEAN
      <4>1. \A i \in 1 .. n : i \in 1 .. Len(s)
        BY <2>2, <2>3
      <4> QED
        BY <2>2, <4>1, ElementOfSeq
    <3> HIDE DEF n
    <3>2. /\ SubSeq(obeyed, 1, n) \in Seq(BOOLEAN) /\ Len(SubSeq(obeyed, 1, n)) = n
          /\ \A i \in 1 .. n : SubSeq(obeyed, 1, n)[i] = obeyed[i]
      BY <2>3, <3>1, SubSeqProperties
    <3>3. /\ SubSeq(s, 1, n) \in Seq(BOOLEAN) /\ Len(SubSeq(s, 1, n)) = n
          /\ \A i \in 1 .. n : SubSeq(s, 1, n)[i] = s[i]
      BY <2>3, <3>1, SubSeqProperties
    <3>4. \A i \in 1 .. n : SubSeq(obeyed, 1, n)[i] = SubSeq(s, 1, n)[i]
      BY <2>2, <3>2, <3>3 DEF n
    <3> QED
      BY <3>2, <3>3, <3>4, SeqEqual
  <2> QED
    BY <1>2, <2>2, <2>4 DEF ObeysWhatWasSent, IsPrefix, s
<1> QED
  BY <1>1, <1>2

(* FilterControl.ObeysWhatWasSent, for any number of runs of the device,   *)
(* connections and presses, and for reads of any length: the settings that *)
(* cmd_listener obeys are those that were sent on the connection it        *)
(* accepted, from the first on, in their order.                            *)
THEOREM ListenerObeys == Spec => []ObeysWhatWasSent
<1>1. Init => FilterInv
  BY InitFilter
<1>2. FilterInv /\ [Next]_vars => FilterInv'
  BY NextKeepsFilter
<1>3. FilterInv => ObeysWhatWasSent
  BY FollowedIsPrefix
<1> QED
  BY <1>1, <1>2, <1>3, PTL DEF Spec

-----------------------------------------------------------------------------
(* Type correctness. *)

(* What TypeOK says beyond FilterInv. *)
OtherTypes ==
  /\ shown \in BOOLEAN /\ setting \in BOOLEAN
  /\ gui \in {"idle", "send"}
  /\ buf \in Seq(Symbols) /\ Len(buf) <= READ_SIZE
  /\ linebuf \in Seq(Symbols) /\ Len(linebuf) < LINE_SIZE
  /\ stored \in BOOLEAN /\ early \in BOOLEAN /\ clashed \in BOOLEAN
  /\ toggles \in 0 .. MaxToggles

LEMMA InitOthers == Init => OtherTypes
<1> SUFFICES ASSUME Init PROVE OtherTypes
  OBVIOUS
<1>1. /\ shown \in BOOLEAN /\ setting \in BOOLEAN
      /\ stored \in BOOLEAN /\ early \in BOOLEAN /\ clashed \in BOOLEAN
  BY Zenon DEF Init
<1>2. Len(buf) <= READ_SIZE /\ Len(linebuf) < LINE_SIZE /\ toggles \in 0 .. MaxToggles
  BY SizesAssumption, TogglesAssumption DEF Init
<1> QED
  BY <1>1, <1>2, EmptySeq, Zenon DEF Init, OtherTypes

LEMMA ReadKeepsTypes ==
  ASSUME OtherTypes, FilterInv, ListenerRead
  PROVE  buf' \in Seq(Symbols) /\ Len(buf') <= READ_SIZE /\ linebuf' = linebuf
<1>1. PICK n \in 1 .. READ_SIZE : n <= Len(wire[cmd_fd]) /\ buf' = SubSeq(wire[cmd_fd], 1, n)
  BY DEF ListenerRead, Read
<1>2. cmd_fd \in 1 .. MaxConns
  <2>1. listener # "wait"
    BY DEF ListenerRead, Read
  <2>2. cmd_fd \in 0 .. Len(conns) /\ cmd_fd # 0 /\ Len(conns) <= MaxConns /\ Len(conns) \in Nat
    BY <2>1, ConnectionFacts DEF FilterInv, ListenerFacts, LinkInv
  <2> QED
    BY <2>2, LinksAssumption
<1>3. wire[cmd_fd] \in Seq(Symbols)
  BY <1>2 DEF FilterInv, StreamTypes
<1>4. \A i \in 1 .. n : wire[cmd_fd][i] \in Symbols
  BY <1>1, <1>3, SizesAssumption
<1>5. SubSeq(wire[cmd_fd], 1, n) \in Seq(Symbols) /\ Len(SubSeq(wire[cmd_fd], 1, n)) = n
  BY <1>1, <1>4, SizesAssumption, SubSeqProperties
<1>6. linebuf' = linebuf
  BY DEF ListenerRead, Read
<1> QED
  BY <1>1, <1>5, <1>6, SizesAssumption

LEMMA ScanKeepsTypes ==
  ASSUME OtherTypes, FilterInv, ScanSymbol
  PROVE  /\ buf' \in Seq(Symbols) /\ Len(buf') <= READ_SIZE
         /\ linebuf' \in Seq(Symbols) /\ Len(linebuf') < LINE_SIZE
         /\ setting' \in BOOLEAN /\ early' \in BOOLEAN
<1>1. /\ buf \in Seq(Symbols) /\ buf # << >> /\ buf' = Tail(buf) /\ Len(buf) <= READ_SIZE
      /\ linebuf \in Seq(Symbols) /\ Len(linebuf) < LINE_SIZE /\ LINE_SIZE \in Nat /\ LINE_SIZE > 3
      /\ READ_SIZE \in Nat
  BY SizesAssumption DEF OtherTypes, FilterInv, ListenerFacts, ScanSymbol, Scan
<1>2. /\ Tail(buf) \in Seq(Symbols) /\ Len(Tail(buf)) = Len(buf) - 1 /\ Head(buf) \in Symbols
      /\ Len(buf) \in Nat /\ Len(linebuf) \in Nat
  BY <1>1, HeadTailProperties, LenProperties
<1>3. /\ \/ Obey(linebuf) /\ linebuf' = << >>
         \/ /\ ~(Len(linebuf) >= LINE_SIZE - 1)
            /\ linebuf' = Append(linebuf, Head(buf)) /\ UNCHANGED filter
  BY DEF ScanSymbol, Scan
<1>4. linebuf' \in Seq(Symbols) /\ Len(linebuf') < LINE_SIZE
  <2>1. CASE linebuf' = << >>
    BY <1>1, <2>1
  <2>2. CASE ~(Len(linebuf) >= LINE_SIZE - 1) /\ linebuf' = Append(linebuf, Head(buf))
    BY <1>1, <1>2, <2>2, AppendProperties
  <2> QED
    BY <1>3, <2>1, <2>2
<1>5. setting' \in BOOLEAN /\ early' \in BOOLEAN
  <2>1. CASE UNCHANGED filter
    BY <2>1, Zenon DEF filter, OtherTypes
  <2>2. CASE setting' \in ParsedValues(linebuf) /\ early' = (early \/ ~stored)
    <3>1. ASSUME NEW line, NEW v \in ParsedValues(line) PROVE v \in BOOLEAN
      <4> DEFINE digit == line[3] = "1"
      <4>1. digit \in BOOLEAN
        OBVIOUS
      <4> HIDE DEF digit
      <4>2. ParsedValues(line) = BOOLEAN \/ ParsedValues(line) = {digit}
        BY Zenon DEF ParsedValues, digit
      <4> QED
        BY <4>1, <4>2, Zenon
    <3>2. setting' \in BOOLEAN
      BY <2>2, <3>1, Zenon
    <3> QED
      BY <2>2, <3>2, Zenon
  <2> QED
    BY <1>3, <2>1, <2>2, Zenon DEF Obey
<1> QED
  BY <1>1, <1>2, <1>4, <1>5

LEMMA NextKeepsOthers ==
  ASSUME OtherTypes, FilterInv, [Next]_vars
  PROVE  OtherTypes'
<1> USE DEF OtherTypes
<1>1. CASE Start
  <2>1. /\ UNCHANGED screen /\ setting' = FALSE /\ stored' = FALSE /\ early' = FALSE
        /\ buf' = << >> /\ linebuf' = << >>
    BY <1>1 DEF Start
  <2>2. Len(<< >>) <= READ_SIZE /\ Len(<< >>) < LINE_SIZE
    BY SizesAssumption
  <2> QED
    BY <2>1, <2>2, EmptySeq, Zenon DEF screen
<1>2. CASE MainStore
  <2>1. /\ UNCHANGED <<screen, parser, early>> /\ setting' = FftFilterEnable /\ stored' = TRUE
    BY <1>2 DEF MainStore
  <2> QED
    BY <2>1, SettingAssumption, Zenon DEF screen, parser
<1>3. CASE ListenerRead
  <2>1. UNCHANGED <<screen, stored, filter>>
    BY <1>3 DEF ListenerRead, Read
  <2>2. buf' \in Seq(Symbols) /\ Len(buf') <= READ_SIZE /\ linebuf' = linebuf
    BY <1>3, ReadKeepsTypes
  <2> QED
    BY <2>1, <2>2, Zenon DEF screen, filter
<1>4. CASE ScanSymbol
  <2>1. UNCHANGED <<screen, stored>>
    BY <1>4 DEF ScanSymbol, Scan
  <2> QED
    BY <1>4, <2>1, ScanKeepsTypes, Zenon DEF screen
<1>5. CASE PressButton
  <2>1. /\ toggles < MaxToggles /\ toggles' = toggles + 1
    BY <1>5 DEF PressButton
  <2>2. toggles' \in 0 .. MaxToggles
    BY <2>1, TogglesAssumption
  <2>3. gui' \in {"idle", "send"}
    BY <1>5 DEF PressButton
  <2>4. /\ shown' = ~shown /\ clashed' = (clashed \/ host # "recv")
        /\ UNCHANGED <<parser, stored, filter>>
    BY <1>5 DEF PressButton
  <2> QED
    BY <2>2, <2>3, <2>4, Zenon DEF parser, filter
<1>6. CASE SendCommand
  <2>1. /\ gui' = "idle"
        /\ clashed' = clashed \/ clashed' = TRUE
        /\ UNCHANGED <<shown, toggles, parser, stored, filter>>
    BY <1>6 DEF SendCommand, SendLine
  <2>2. clashed' \in BOOLEAN /\ gui' \in {"idle", "send"}
    BY <2>1, Zenon
  <2>3. UNCHANGED <<shown, toggles, buf, linebuf, stored, setting, early>>
    BY <2>1 DEF parser, filter
  <2> QED
    BY <2>2, <2>3, Zenon
<1>7. CASE ClearData
  <2>1. /\ shown' = TRUE /\ clashed' = (clashed \/ gui = "send")
        /\ UNCHANGED <<gui, toggles, parser, stored, filter>>
    BY <1>7 DEF ClearData, Clear
  <2> QED
    BY <2>1, Zenon DEF parser, filter
<1>8. CASE Stop \/ NetThread \/ HostThread \/ ListenerStart \/ ListenerEnds \/ UNCHANGED vars
  <2>1. UNCHANGED <<screen, buf, linebuf, stored, filter>>
    BY <1>8 DEF Stop, NetThread, HostThread, ListenerStart, ListenerEnds, vars, parser
  <2> QED
    BY <2>1, Zenon DEF screen, filter
<1> QED
  BY <1>1, <1>2, <1>3, <1>4, <1>5, <1>6, <1>7, <1>8 DEF Next, DeviceThread, HostStep

LEMMA FilterTypes == FilterInv /\ OtherTypes => TypeOK
<1> SUFFICES ASSUME FilterInv, OtherTypes PROVE TypeOK
  OBVIOUS
<1>1. cmd_fd \in 0 .. MaxConns
  <2>1. cmd_fd \in 0 .. Len(conns) /\ Len(conns) <= MaxConns /\ Len(conns) \in Nat
    BY ConnectionFacts DEF FilterInv, ListenerFacts, LinkInv
  <2> QED
    BY <2>1, LinksAssumption
<1> QED
  BY <1>1, Zenon DEF FilterInv, OtherTypes, StreamTypes, ListenerFacts, LinkInv, TypeOK

(* FilterControl.TypeOK, for any number of runs, connections and presses,  *)
(* and for reads and lines of any size: linebuf and the read buffer never  *)
(* hold more than they have room for.                                      *)
THEOREM FilterTypeCorrect == Spec => []TypeOK
<1>1. Init => FilterInv /\ OtherTypes
  BY InitFilter, InitOthers
<1>2. FilterInv /\ OtherTypes /\ [Next]_vars => (FilterInv /\ OtherTypes)'
  BY NextKeepsFilter, NextKeepsOthers
<1>3. FilterInv /\ OtherTypes => TypeOK
  BY FilterTypes
<1> QED
  BY <1>1, <1>2, <1>3, PTL DEF Spec

-----------------------------------------------------------------------------
(* The button and the setting. *)

(* The setting after these, on a device that starts with the filter on.    *)
Latest(s, first) == IF s = << >> THEN first ELSE s[Len(s)]

(* Until a press overlaps a reconnection, the button shows what was sent   *)
(* last on the connection the host has, or is about to send it; and what   *)
(* clear_data made of it until there is a connection to send it on.        *)
ButtonFollows ==
  ~clashed =>
    /\ Past("cmd") => IF gui = "idle" THEN shown = Latest(sent[sock["cmd"]], TRUE)
                                      ELSE value = shown
    /\ host = "connect" /\ Past("log") /\ ~Past("cmd") => shown = TRUE /\ gui = "idle"

(* Until a command comes too early, the setting is what was obeyed last.   *)
SettingFollows ==
  ~early => IF stored THEN setting = Latest(obeyed, FftFilterEnable) ELSE obeyed = << >>

ButtonInv == FilterInv /\ OtherTypes /\ ButtonFollows /\ SettingFollows

LEMMA LatestSent ==
  ASSUME NEW s \in Seq(BOOLEAN), NEW on \in BOOLEAN, NEW first
  PROVE  Latest(Append(s, on), first) = on
<1>1. /\ Append(s, on) # << >> /\ Len(Append(s, on)) = Len(s) + 1
      /\ Append(s, on)[Len(s) + 1] = on
  BY AppendProperties
<1> QED
  BY <1>1, Zenon DEF Latest

LEMMA InitButton == Init => ButtonInv
<1> SUFFICES ASSUME Init PROVE ButtonInv
  OBVIOUS
<1>1. ButtonFollows
  BY DEF Init, LinkInit, ButtonFollows, Past
<1>2. SettingFollows
  BY DEF Init, SettingFollows
<1> QED
  BY <1>1, <1>2, InitFilter, InitOthers DEF ButtonInv

LEMMA NextKeepsSetting ==
  ASSUME ButtonInv, [Next]_vars
  PROVE  SettingFollows'
<1>0. SettingFollows /\ obeyed \in Seq(BOOLEAN)
  BY DEF ButtonInv, FilterInv, StreamTypes
<1>1. CASE Start
  BY <1>1 DEF Start, SettingFollows
<1>2. CASE MainStore
  <2>1. /\ ~stored /\ stored' = TRUE /\ setting' = FftFilterEnable /\ UNCHANGED <<obeyed, early>>
    BY <1>2 DEF MainStore
  <2> QED
    BY <1>0, <2>1, Zenon DEF SettingFollows, Latest
<1>3. CASE ScanSymbol
  <2>1. UNCHANGED stored /\ (Obey(linebuf) \/ UNCHANGED filter)
    BY <1>3 DEF ScanSymbol, Scan
  <2>2. CASE UNCHANGED filter
    BY <1>0, <2>1, <2>2, Zenon DEF filter, SettingFollows
  <2>3. CASE /\ obeyed' = Append(obeyed, setting') /\ early' = (early \/ ~stored)
    <3>1. setting' \in BOOLEAN
      BY <1>3, ScanKeepsTypes DEF ButtonInv
    <3>2. Latest(obeyed', FftFilterEnable) = setting'
      BY <1>0, <2>3, <3>1, LatestSent, Zenon
    <3> QED
      BY <2>1, <2>3, <3>2, Zenon DEF SettingFollows
  <2> QED
    BY <2>1, <2>2, <2>3, Zenon DEF Obey
<1>4. CASE ~(Start \/ MainStore \/ ScanSymbol)
  <2>1. UNCHANGED <<stored, filter>>
    BY <1>4, Zenon DEF Next, DeviceThread, HostStep, Stop, NetThread, ListenerStart, ListenerRead,
       Read, ListenerEnds, PressButton, SendCommand, SendLine, HostThread, ClearData, Clear, vars
  <2> QED
    BY <1>0, <2>1, Zenon DEF filter, SettingFollows
<1> QED
  BY <1>1, <1>2, <1>3, <1>4

(* The steps that leave the screen and what was sent alone. *)
LEMMA LinkStepKeepsButton ==
  ASSUME ButtonInv, [Next]_vars, UNCHANGED <<screen, sent>>, ~HostClear
  PROVE  ButtonFollows'
<1>0. /\ ButtonFollows /\ LinkInv /\ LinkStep /\ Untouched
      /\ "cmd" \in PortSet /\ "log" \in PortSet
  BY NextStepsLink, CommandAssumption, PortsAssumption DEF ButtonInv, FilterInv
<1>1. UNCHANGED <<shown, gui, value, clashed>>
  BY DEF screen
<1>2. CASE UNCHANGED <<sock, host, next>>
  <2>1. \A p : Past(p)' <=> Past(p)
    BY <1>2, OthersStay
  <2> QED
    BY <1>0, <1>1, <1>2, <2>1, Zenon DEF ButtonFollows
<1>3. CASE \E p \in PortSet : HostRetry(p)
  <2>1. PICK p \in PortSet : HostRetry(p)
    BY <1>3
  <2>2. /\ host = "connect" /\ p = Ports[next] /\ sock' = [sock EXCEPT ![p] = 0]
        /\ UNCHANGED <<host, next>>
    BY <2>1 DEF HostRetry
  <2>3. ~Past(p) /\ \A q : Past(q)' <=> Past(q)
    BY <1>0, <2>1, RetryStays
  <2>4. Past("cmd") => sock'["cmd"] = sock["cmd"]
    BY <1>0, <2>2, <2>3 DEF LinkInv, LinkTypeOK
  <2> QED
    BY <1>0, <1>1, <2>2, <2>3, <2>4, Zenon DEF ButtonFollows
<1>4. CASE \E p \in PortSet : HostConnect(p)
  <2>1. PICK p \in PortSet : HostConnect(p)
    BY <1>4
  <2>2. /\ host = "connect" /\ p = Ports[next] /\ Len(conns) < MaxConns
        /\ conns' = Append(conns, [port |-> p, run |-> run])
        /\ sock' = [sock EXCEPT ![p] = Len(conns')]
    BY <2>1 DEF HostConnect
  <2>3. /\ Len(conns') = Len(conns) + 1 /\ Len(conns') \in 1 .. MaxConns /\ Len(conns) \in Nat
    <3>1. conns \in Connections /\ Len(conns) \in Nat /\ MaxConns \in Nat
      BY <1>0, ConnectionFacts, LinksAssumption DEF LinkInv
    <3>2. Len(conns') = Len(conns) + 1
      BY <2>2, <3>1 DEF Connections
    <3> QED
      BY <2>2, <3>1, <3>2
  <2>4. /\ ~Past(p) /\ (p # "log" => Past("log"))
        /\ \A q \in PortSet : Past(q)' <=> Past(q) \/ q = p
    BY <1>0, <2>1, ConnectMovesOn
  <2>5. CASE p = "log"
    <3>1. host' = "clear"
      BY <2>1, <2>5 DEF HostConnect
    <3> QED
      BY <3>1 DEF ButtonFollows, Past
  <2>6. CASE p = "cmd"
    <3>1. sock'["cmd"] = Len(conns')
      BY <1>0, <2>2, <2>6 DEF LinkInv, LinkTypeOK
    <3>2. sent[Len(conns')] = << >>
      BY <1>0, <2>3 DEF Untouched
    <3>3. ~clashed => shown = TRUE /\ gui = "idle"
      BY <1>0, <2>2, <2>4, <2>6 DEF ButtonFollows
    <3>4. ~clashed => gui' = "idle" /\ shown' = Latest(sent'[sock'["cmd"]], TRUE)
      BY <1>1, <3>1, <3>2, <3>3 DEF Latest
    <3>5. ~clashed => shown' = TRUE /\ gui' = "idle"
      BY <1>1, <3>3
    <3> QED
      BY <1>1, <3>4, <3>5, Zenon DEF ButtonFollows
  <2>7. CASE p # "log" /\ p # "cmd"
    <3>1. sock'["cmd"] = sock["cmd"]
      BY <1>0, <2>2, <2>7 DEF LinkInv, LinkTypeOK
    <3>2. Past("cmd")' <=> Past("cmd")
      BY <1>0, <2>4, <2>7
    <3> QED
      BY <1>0, <1>1, <2>2, <2>4, <2>7, <3>1, <3>2, Zenon DEF ButtonFollows
  <2> QED
    BY <2>5, <2>6, <2>7
<1>5. CASE HostLost
  <2>1. ~Past("cmd")' /\ ~Past("log")'
    BY <1>5, LostStartsOver
  <2> QED
    BY <2>1 DEF ButtonFollows
<1> QED
  <2>1. \/ \E p \in PortSet : HostRetry(p) \/ HostConnect(p)
        \/ HostLost
        \/ UNCHANGED <<sock, host, next>>
    BY <1>0 DEF LinkStep, DeviceStart, DeviceExit, Listen, Accept, link, client
  <2> QED
    BY <1>2, <1>3, <1>4, <1>5, <2>1

LEMMA NextKeepsButton ==
  ASSUME ButtonInv, [Next]_vars
  PROVE  ButtonFollows'
<1>0. /\ ButtonFollows /\ LinkInv /\ StreamTypes /\ "cmd" \in PortSet /\ "log" \in PortSet
      /\ gui \in {"idle", "send"} /\ clashed \in BOOLEAN
  BY CommandAssumption, PortsAssumption DEF ButtonInv, FilterInv, OtherTypes
<1>1. CASE PressButton
  <2>1. /\ UNCHANGED <<host, next, connected, sock, sent>>
        /\ shown' = ~shown /\ value' = ~shown
        /\ gui' = IF connected["log"] THEN "send" ELSE "idle"
        /\ clashed' = (clashed \/ host # "recv")
    BY <1>1 DEF PressButton, link, client
  <2>2. ~clashed' => host = "recv"
    BY <2>1
  <2>3. host = "recv" => connected["log"]
    BY <1>0 DEF LinkInv, InTurn, Past
  <2>4. ~clashed' => gui' # "idle" /\ value' = shown' /\ host' # "connect"
    BY <2>1, <2>2, <2>3
  <2> QED
    BY <2>4, Zenon DEF ButtonFollows
<1>2. CASE SendCommand
  <2> DEFINE c == sock["cmd"]
  <2>1. /\ gui = "send" /\ gui' = "idle" /\ UNCHANGED <<host, next, sock, shown, value>>
        /\ \/ /\ c # 0 /\ sent' = [sent EXCEPT ![c] = Append(sent[c], value)] /\ UNCHANGED clashed
           \/ clashed' = TRUE
    BY <1>2 DEF SendCommand, SendLine, link, client
  <2>2. CASE clashed' = TRUE
    BY <2>2 DEF ButtonFollows
  <2>3. CASE /\ c # 0 /\ sent' = [sent EXCEPT ![c] = Append(sent[c], value)]
             /\ UNCHANGED clashed
    <3>1. c \in 1 .. MaxConns
      BY <1>0, <2>3, LinksAssumption DEF LinkInv, LinkTypeOK
    <3>2. sent'[c] = Append(sent[c], value) /\ sent[c] \in Seq(BOOLEAN) /\ value \in BOOLEAN
      BY <1>0, <2>3, <3>1 DEF StreamTypes
    <3>3. Latest(sent'[c], TRUE) = value
      BY <3>2, LatestSent, Zenon
    <3>4. \A q : Past(q)' <=> Past(q)
      BY <2>1, OthersStay
    <3>5. ~clashed => (Past("cmd") => value = shown) /\ ~(host = "connect" /\ Past("log") /\ ~Past("cmd"))
      BY <1>0, <2>1 DEF ButtonFollows
    <3> QED
      BY <2>1, <2>3, <3>3, <3>4, <3>5 DEF ButtonFollows
  <2> QED
    BY <2>1, <2>2, <2>3
<1>3. CASE ClearData
  <2>1. /\ HostClear /\ shown' = TRUE /\ clashed' = (clashed \/ gui = "send") /\ UNCHANGED gui
    BY <1>3 DEF ClearData, Clear
  <2>2. ~Past("cmd")'
    BY <1>0, <2>1, ClearMovesOn
  <2>3. ~clashed' => gui' = "idle"
    BY <1>0, <2>1
  <2> QED
    BY <2>1, <2>2, <2>3, Zenon DEF ButtonFollows
<1>4. CASE ~(PressButton \/ SendCommand \/ ClearData)
  <2>1. UNCHANGED <<screen, sent>>
    BY <1>4, Zenon DEF Next, DeviceThread, HostStep, Start, Stop, NetThread, MainStore,
       ListenerStart, ListenerRead, Read, ListenerEnds, ScanSymbol, Scan, HostThread, vars
  <2>2. ~HostClear
    <3>1. ASSUME HostClear PROVE FALSE
      <4>1. host = "clear" /\ host' # "clear"
        BY <3>1 DEF HostClear, Enter
      <4>2. CASE HostThread
        BY <4>1, <4>2 DEF HostThread, HostConnect, HostRetry, HostLost
      <4>3. CASE ~HostThread
        <5>1. UNCHANGED host
          BY <1>4, <4>3, Zenon DEF Next, DeviceThread, HostStep, Start, Stop, NetThread, MainStore,
             ListenerStart, ListenerRead, Read, ListenerEnds, ScanSymbol, Scan, vars, link, client,
             DeviceStart, DeviceExit, Listen, Accept
        <5> QED
          BY <4>1, <5>1
      <4> QED
        BY <4>2, <4>3
    <3> QED
      BY <3>1
  <2> QED
    BY <2>1, <2>2, LinkStepKeepsButton
<1> QED
  BY <1>1, <1>2, <1>3, <1>4

LEMMA NextKeepsButtonInv == ButtonInv /\ [Next]_vars => ButtonInv'
BY NextKeepsFilter, NextKeepsOthers, NextKeepsButton, NextKeepsSetting DEF ButtonInv

(* At rest all that was sent has been obeyed. *)
LEMMA AllObeyed ==
  ASSUME FilterInv, listener = "loop", wire[cmd_fd] = << >>
  PROVE  Latest(obeyed, TRUE) = Latest(sent[cmd_fd], TRUE)
<1>1. cmd_fd # 0 /\ buf = << >>
  BY DEF FilterInv, ListenerFacts
<1>2. cmd_fd \in 1 .. MaxConns
  <2>1. cmd_fd \in 0 .. Len(conns) /\ Len(conns) <= MaxConns /\ Len(conns) \in Nat
    BY ConnectionFacts DEF FilterInv, ListenerFacts, LinkInv
  <2> QED
    BY <1>1, <2>1, LinksAssumption
<1> DEFINE s == sent[cmd_fd]
<1>3. s \in Seq(BOOLEAN) /\ obeyed \in Seq(BOOLEAN)
  BY <1>2 DEF FilterInv, StreamTypes
<1>4. Pending = << >>
  BY <1>1 DEF Pending
<1>5. PICK p \in Nat : Carries(<< >>, s, p) /\ Parsed(s, Len(obeyed), p)
  BY <1>1, <1>4, Zenon DEF FilterInv, Following
<1>6. Obeyed(s)
  BY <1>1 DEF FilterInv, Following
<1> HIDE DEF s
<1>7. p = 5 * Len(s) /\ Len(s) \in Nat /\ Len(obeyed) \in Nat
  BY <1>3, <1>5 DEF Carries
<1>8. \/ p = 5 * Len(obeyed) \/ p = 5 * Len(obeyed) + 1 \/ p = 5 * Len(obeyed) + 2
      \/ p = 5 * Len(obeyed) + 3 \/ p = 5 * Len(obeyed) - 1
  BY <1>5, Zenon DEF Parsed
<1>9. Len(obeyed) = Len(s)
  BY <1>7, <1>8
<1>10. obeyed = s
  <2>1. \A i \in 1 .. Len(obeyed) : obeyed[i] = s[i]
    BY <1>6 DEF Obeyed
  <2> QED
    BY <1>3, <1>9, <2>1, SeqEqual
<1> QED
  BY <1>10 DEF s

LEMMA ButtonFollowsShows == ButtonInv => ButtonShowsSetting
<1> SUFFICES ASSUME ButtonInv, FftFilterEnable, Settled, ~clashed, ~early
             PROVE  shown = setting
  BY DEF ButtonShowsSetting
<1>0. FftFilterEnable = TRUE
  BY SettingAssumption
<1>1. /\ stored /\ listener = "loop" /\ host = "recv" /\ sock["cmd"] = cmd_fd
      /\ gui = "idle" /\ wire[cmd_fd] = << >>
  BY DEF Settled
<1>2. shown = Latest(sent[cmd_fd], TRUE)
  <2>1. Past("cmd")
    BY <1>1 DEF Past
  <2> QED
    BY <1>1, <2>1 DEF ButtonInv, ButtonFollows
<1>3. setting = Latest(obeyed, TRUE)
  BY <1>0, <1>1 DEF ButtonInv, SettingFollows
<1> QED
  BY <1>1, <1>2, <1>3, AllObeyed DEF ButtonInv

(* FilterControl.ButtonShowsSetting, for any number of runs, connections   *)
(* and presses: on a device that starts with the filter on, the button     *)
(* shows the setting in effect once all is at rest, unless a press met a   *)
(* reconnection or a command came before main's own store.                 *)
THEOREM ButtonIsRight == Spec => []ButtonShowsSetting
<1>1. Init => ButtonInv
  BY InitButton
<1>2. ButtonInv /\ [Next]_vars => ButtonInv'
  BY NextKeepsButtonInv
<1>3. ButtonInv => ButtonShowsSetting
  BY ButtonFollowsShows
<1> QED
  BY <1>1, <1>2, <1>3, PTL DEF Spec
=============================================================================
