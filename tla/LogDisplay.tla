----------------------------- MODULE LogDisplay -----------------------------
(***************************************************************************)
(* The log on its way to the screen: the audio thread logs a line for each *)
(* frame and a summary now and then (metrics.c), log_writer prints the     *)
(* lines to the log connection, and on the host read_data cuts what it     *)
(* receives into lines again and shows what they say (audmon.py).          *)
(* A line is three pieces and its newline: the pieces are as long as the   *)
(* host's tests can tell apart, "Fr", "ame" and the rest of a frame's      *)
(* line, "[Live", " Summary] Latency" and the figures of a summary's.      *)
(* Definitions marked "Wrong:" are never used by Next; each is a variant   *)
(* of the definition after it with a bug one could make in the code.       *)
(***************************************************************************)
EXTENDS HostLink, SequencesExt

CONSTANTS
  SUMMARY_EVERY,  \* frames from one summary to the next (10)
  SUMMARY_LINES,  \* lines of a summary (5), of which the first counts frames
  MAX_FRAMES,     \* frames on the screen (2048)
  RECV_SIZE,      \* bound: pieces that one recv returns at most
  FirstMode,      \* the configuration that the first run finds
  MaxFrames       \* bound: frames played in one run of the program

ASSUME DisplayAssumption ==
  /\ SUMMARY_EVERY \in Nat \ {0} /\ SUMMARY_LINES \in Nat \ {0}
  /\ MAX_FRAMES \in Nat \ {0} /\ RECV_SIZE \in Nat \ {0}
  /\ MaxFrames \in Nat /\ FirstMode \in {"CPU", "DSP"}

VARIABLES
  mode,         \* per run, the mode its frames are logged with
  line,         \* the line logged next: its frame, and 0 or a summary line
  sent,         \* history: per connection, the lines sent
  wire,         \* per connection, the pieces on their way to the host
  recv_buffer,  \* what read_data has received and not yet made a line of
  display       \* frame_numbers, modes and live_summary

logging == <<mode, line, sent>>
vars == <<link, logging, wire, recv_buffer, display>>

Pieces == [run : 1 .. MaxRuns, frame : 1 .. MaxFrames, kind : 0 .. SUMMARY_LINES,
           part : 1 .. 4]
Newline == 4

(* log_frame_metrics and log_summary. *)
Line(frame, kind) ==
  [i \in 1 .. 4 |-> [run |-> run, frame |-> frame, kind |-> kind, part |-> i]]

FirstLine == [frame |-> 1, kind |-> 0]
LineAfter(l) ==
  IF l.frame % SUMMARY_EVERY = 0 /\ l.kind < SUMMARY_LINES
    THEN [l EXCEPT !.kind = @ + 1]
    ELSE [frame |-> l.frame + 1, kind |-> 0]

(* A label shows no figures at first, and the frame they are of later.     *)
NoFigures == [run |-> 0, frame |-> 0]
Blank == [frame_numbers |-> << >>, modes |-> << >>,
          live_summary |-> [k \in 1 .. SUMMARY_LINES |-> NoFigures]]

(* Bound: the configuration is changed after every run. *)
Init ==
  /\ LinkInit
  /\ mode \in [1 .. MaxRuns -> {"CPU", "DSP"}]
  /\ mode[1] = FirstMode /\ \A r \in 1 .. MaxRuns - 1 : mode[r] # mode[r + 1]
  /\ line = FirstLine
  /\ sent = [c \in 1 .. MaxConns |-> << >>]
  /\ wire = [c \in 1 .. MaxConns |-> << >>]
  /\ recv_buffer = << >>
  /\ display = Blank

-----------------------------------------------------------------------------
(* The device program. *)

Start ==
  /\ DeviceStart
  /\ line' = FirstLine
  /\ UNCHANGED <<mode, sent, wire, recv_buffer, display>>

NetThread ==
  /\ \E p \in PortSet : Listen(p) \/ Accept(p)
  /\ UNCHANGED <<logging, wire, recv_buffer, display>>

Stop == DeviceExit /\ UNCHANGED <<logging, wire, recv_buffer, display>>

(* Before the host is accepted lines go to the standard input's terminal.  *)
(* Which lines a lap of the ring loses is LogQueue's matter.               *)
SendLine(c) ==
  /\ c # 0
  /\ wire' = [wire EXCEPT ![c] = @ \o Line(line.frame, line.kind)]
  /\ sent' = [sent EXCEPT ![c] = Append(@, line)]

LogLine ==
  /\ up
  /\ line.frame <= MaxFrames
  /\ line' = LineAfter(line)
  /\ \/ SendLine(accepted["log"])
     \/ accepted["log"] = 0 /\ UNCHANGED <<wire, sent>>
  /\ UNCHANGED <<link, mode, recv_buffer, display>>

(* A program that ends while log_writer waits for room to send leaves part *)
(* of a line; a host that does not answer any more leaves part of all.     *)
TailIsLost ==
  /\ \E c \in DOMAIN conns :
       /\ Dead(c)
       /\ wire[c] # << >>
       /\ wire' = [wire EXCEPT ![c] = Front(@)]
  /\ UNCHANGED <<link, logging, recv_buffer, display>>

-----------------------------------------------------------------------------
(* What the host makes of a line.  It may be two lines joined: what one    *)
(* connection ended with, and the first line of the next.                  *)

Begins(l, kinds) == Len(l) >= 2 /\ l[2].part = 2 /\ l[1].kind \in kinds

(* Where the expression that is searched for first matches, 0 when nowhere.*)
Match(l, kinds) ==
  LET found == {i \in 1 .. Len(l) - 2 :
                  l[i].part = 1 /\ l[i + 2].part = 3 /\ l[i + 2].kind \in kinds}
  IN  IF found = {} THEN 0 ELSE CHOOSE i \in found : \A j \in found : i <= j

Figures(piece) == [run |-> piece.run, frame |-> piece.frame]

(* Wrong: without maxlen. *)
Unbounded(s) == s
(* deque(maxlen=MAX_FRAMES); modes is a list. *)
Bounded(s) == IF Len(s) > MAX_FRAMES THEN Tail(s) ELSE s

parse_log_line(d, l) ==
  IF Begins(l, {0}) /\ Match(l, {0}) # 0
    THEN LET f == Figures(l[Match(l, {0})]) IN
         [d EXCEPT !.frame_numbers = Bounded(Append(@, f)),
                   !.modes = Append(@, mode[f.run])]
    ELSE d

(* The first summary line ends in its figure; the others' are searched for.*)
update_live_summary(d, l) ==
  IF Begins(l, {1}) /\ Len(l) = 3
    THEN [d EXCEPT !.live_summary[1] = Figures(l[1])]
  ELSE IF Begins(l, 2 .. SUMMARY_LINES) /\ Match(l, 2 .. SUMMARY_LINES) # 0
    THEN [d EXCEPT !.live_summary[l[1].kind] = Figures(l[Match(l, 2 .. SUMMARY_LINES)])]
  ELSE d

HasLine == \E i \in DOMAIN recv_buffer : recv_buffer[i].part = Newline

(* recv, once the buffer holds no line any more. *)
Receive(buffer, sizes) ==
  /\ host = "recv"
  /\ ~HasLine
  /\ LET c == sock["log"] IN
     \E n \in sizes :
       /\ n <= Len(wire[c])
       /\ recv_buffer' = buffer \o SubSeq(wire[c], 1, n)
       /\ wire' = [wire EXCEPT ![c] = SubSeq(@, n + 1, Len(@))]
  /\ UNCHANGED <<link, logging, display>>

(* Wrong: what follows the last newline of a read is forgotten. *)
ReadDataAfresh == Receive(<< >>, 1 .. RECV_SIZE)
(* Wrong: waits for the end of a line. *)
ReadDataByLine ==
  Receive(recv_buffer, {n \in 1 .. RECV_SIZE :
                          \A i \in 1 .. Len(wire[sock["log"]]) :
                            i = n => wire[sock["log"]][i].part = Newline})
(* recv returns any part of what has arrived. *)
ReadData == Receive(recv_buffer, 1 .. RECV_SIZE)

(* The buffer is split at its first newline. *)
ReadLine ==
  /\ host = "recv"
  /\ \E i \in DOMAIN recv_buffer :
       /\ recv_buffer[i].part = Newline
       /\ \A j \in 1 .. i - 1 : recv_buffer[j].part # Newline
       /\ LET l == SubSeq(recv_buffer, 1, i - 1) IN
            display' = parse_log_line(update_live_summary(display, l), l)
       /\ recv_buffer' = SubSeq(recv_buffer, i + 1, Len(recv_buffer))
  /\ UNCHANGED <<link, logging, wire>>

(* Wrong: the labels stay. *)
ClearCurves ==
  /\ HostClear
  /\ display' = [Blank EXCEPT !.live_summary = display.live_summary]
  /\ UNCHANGED <<logging, wire, recv_buffer>>
(* Wrong: modes stays. *)
ClearAllButModes ==
  /\ HostClear
  /\ display' = [Blank EXCEPT !.modes = display.modes]
  /\ UNCHANGED <<logging, wire, recv_buffer>>

(* recv_buffer is read_data's own, and stays as it is. *)
ClearData ==
  /\ HostClear
  /\ display' = Blank
  /\ UNCHANGED <<logging, wire, recv_buffer>>

(* The connection is given up when nothing more will come.                 *)
HostThread ==
  /\ \/ \E p \in PortSet : HostConnect(p) \/ HostRetry(p)
     \/ HostLost /\ wire[sock["log"]] = << >> /\ ~HasLine
  /\ UNCHANGED <<logging, wire, recv_buffer, display>>

-----------------------------------------------------------------------------
Next ==
  \/ Start \/ NetThread \/ LogLine \/ Stop \/ TailIsLost
  \/ HostThread \/ ReadData \/ ReadLine \/ ClearData

Spec == Init /\ [][Next]_vars

(* Threads that can run do.  The program need not be started, play or end. *)
Fairness == WF_vars(NetThread) /\ WF_vars(HostThread \/ ReadData \/ ReadLine \/ ClearData)

FairSpec == Spec /\ Fairness

-----------------------------------------------------------------------------
Shown == [run : 1 .. MaxRuns, frame : 1 .. MaxFrames]
Screens == [frame_numbers : Seq(Shown), modes : Seq({"CPU", "DSP"}),
            live_summary : [1 .. SUMMARY_LINES -> Shown \cup {NoFigures}]]

TypeOK ==
  /\ LinkTypeOK
  /\ mode \in [1 .. MaxRuns -> {"CPU", "DSP"}]
  /\ line \in [frame : 1 .. MaxFrames + 1, kind : 0 .. SUMMARY_LINES]
  /\ sent \in [1 .. MaxConns -> Seq([frame : 1 .. MaxFrames, kind : 0 .. SUMMARY_LINES])]
  /\ wire \in [1 .. MaxConns -> Seq(Pieces)]
  /\ recv_buffer \in Seq(Pieces)
  /\ display \in Screens /\ Len(display.frame_numbers) <= MAX_FRAMES

Connected == host = "recv" /\ ~Dead(sock["log"])

(* The pieces of the connection's lines that read_data has not yet taken.  *)
Ahead(c) ==
  Len(wire[c]) + Cardinality({i \in DOMAIN recv_buffer : recv_buffer[i].run = conns[c].run})

(* However recv cuts the log, the screen shows the frames whose lines have *)
(* been read from this connection, in order and without a gap, up to the   *)
(* last.  Only the first line may be missing: it is joined to what the     *)
(* last connection left behind in recv_buffer.                             *)
ShowsWhatWasSent ==
  Connected =>
    LET c     == sock["log"]
        shown == display.frame_numbers
    IN  \E n \in 0 .. Len(shown) : \E arrived \in 0 .. Len(sent[c]) :
          /\ \A i \in DOMAIN shown : shown[i].run = conns[c].run <=> i > Len(shown) - n
          /\ 4 * (Len(sent[c]) - arrived) = Ahead(c)
          /\ arrived = 0 => n = 0
          /\ arrived # 0 =>
               LET last == sent[c][arrived].frame IN
                 /\ \A i \in 1 .. n : shown[Len(shown) - n + i].frame = last - n + i
                 /\ last - n <= sent[c][1].frame \/ Len(shown) = MAX_FRAMES

(* Of all that the screen shows, curves and labels, one entry at most is   *)
(* from an earlier connection than the one being read.                     *)
OneLeftover ==
  Connected =>
    LET old(f) == f.run \notin {0, conns[sock["log"]].run}
    IN  Cardinality({i \in DOMAIN display.frame_numbers : old(display.frame_numbers[i])})
        + Cardinality({k \in 1 .. SUMMARY_LINES : old(display.live_summary[k])}) <= 1

(* animate pairs frame_numbers with modes by position, though only the     *)
(* former is bounded: a frame is drawn in its own mode's colour, but for   *)
(* the first when it was drawn from a leftover.                            *)
FramesInTheirMode ==
  \A i \in 2 .. Len(display.frame_numbers) :
    /\ i <= Len(display.modes)
    /\ display.modes[i] = mode[display.frame_numbers[i].run]

(* What is sent on the log connection is read, however long the host takes *)
(* to make its other connections first; if the program ends meanwhile,     *)
(* what it sent waits until the program is started again.                  *)
LogIsRead ==
  \A c \in 1 .. MaxConns :
    (sock["log"] = c /\ wire[c] # << >>)
      ~> (wire[c] = << >> \/ sock["log"] # c \/ (host = "connect" /\ ~up))
=============================================================================
