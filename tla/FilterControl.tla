--------------------------- MODULE FilterControl ---------------------------
(***************************************************************************)
(* The filter switch: the host's toggle_filter (audmon.py) sends a line on *)
(* the command port, and the device's cmd_listener (host_interface.c) cuts *)
(* the byte stream into lines again and obeys each.  A line is a sequence  *)
(* of symbols, "set" and "filter" being the two halves of the 15 bytes the *)
(* listener compares.  Ethernet mode.                                      *)
(* Definitions marked "Wrong:" are never used by Next; each is a variant   *)
(* of the definition after it with a bug one could make in the code.       *)
(***************************************************************************)
EXTENDS HostLink, SequencesExt

CONSTANTS
  FftFilterEnable,  \* app_config.fft_filter_enable
  READ_SIZE,        \* symbols cmd_listener reads at once, at most
  LINE_SIZE,        \* symbols linebuf holds, its terminator included
  MaxToggles        \* bound: how often the user presses the button

ASSUME SettingAssumption == FftFilterEnable \in BOOLEAN
ASSUME CommandAssumption == "cmd" \in PortSet
(* A command and its terminator fit linebuf. *)
ASSUME SizesAssumption   == READ_SIZE \in Nat \ {0} /\ LINE_SIZE \in Nat /\ LINE_SIZE > 3
ASSUME TogglesAssumption == MaxToggles \in Nat

VARIABLES
  shown,     \* toggle_filter.state, which the button shows
  gui,       \* the GUI thread: "idle", or "send" within send_command
  value,     \* what it is about to send
  wire,      \* per connection, the symbols on their way to the device
  listener,  \* cmd_listener: "wait", "loop", "scan" or "gone"
  cmd_fd,    \* the connection it reads
  buf,       \* what it has read and not yet scanned
  linebuf,
  stored,    \* main has stored the configured setting
  setting,   \* the filter setting in effect
  toggles,   \* history: how often the button was pressed
  sent,      \* history: per connection, the settings sent
  obeyed,    \* history: the settings this run of the device was given
  early,     \* history: this run obeyed one before main stored its own
  clashed    \* history: a press of the button and a reconnection overlapped

screen == <<shown, gui, value, toggles, clashed>>
parser == <<listener, cmd_fd, buf, linebuf>>
filter == <<setting, obeyed, early>>
vars   == <<link, screen, wire, parser, stored, filter, sent>>

(* Wrong: the state itself formatted, not the number made of it. *)
DigitOfState(on) == IF on THEN "True" ELSE "False"
Digit(on) == IF on THEN "1" ELSE "0"

(* send_param_command ends the line, and send_command ends it once more.   *)
Line(on) == <<"set", "filter", Digit(on), "nl", "nl">>

IsFilterLine(line) == Len(line) >= 2 /\ SubSeq(line, 1, 2) = <<"set", "filter">>

(* sscanf leaves v as it was, uninitialised, when there is no number.      *)
ParsedValues(line) ==
  IF Len(line) < 3 THEN BOOLEAN
  ELSE IF line[3] \in {"0", "1"} THEN {line[3] = "1"} ELSE BOOLEAN

Init ==
  /\ LinkInit
  /\ shown = TRUE
  /\ gui = "idle"
  /\ value = FALSE
  /\ wire = [c \in 1 .. MaxConns |-> << >>]
  /\ listener = "wait"
  /\ cmd_fd = 0
  /\ buf = << >>
  /\ linebuf = << >>
  /\ stored = FALSE
  /\ setting = FALSE
  /\ toggles = 0
  /\ sent = [c \in 1 .. MaxConns |-> << >>]
  /\ obeyed = << >>
  /\ early = FALSE
  /\ clashed = FALSE

-----------------------------------------------------------------------------
(* The device program: a new run starts from nothing. *)

Start ==
  /\ DeviceStart
  /\ listener' = "wait"
  /\ cmd_fd' = 0
  /\ buf' = << >>
  /\ linebuf' = << >>
  /\ stored' = FALSE
  /\ setting' = FALSE
  /\ obeyed' = << >>
  /\ early' = FALSE
  /\ UNCHANGED <<screen, wire, sent>>

NetThread ==
  /\ \E p \in PortSet : Listen(p) \/ Accept(p)
  /\ UNCHANGED <<screen, wire, parser, stored, filter, sent>>

Stop == DeviceExit /\ UNCHANGED <<screen, wire, parser, stored, filter, sent>>

(* main, after init_host_interface. *)
MainStore ==
  /\ up
  /\ ~stored
  /\ stored' = TRUE
  /\ setting' = FftFilterEnable
  /\ UNCHANGED <<link, screen, wire, parser, obeyed, early, sent>>

-----------------------------------------------------------------------------
(* cmd_listener. *)

ListenerStart ==
  /\ up
  /\ listener = "wait"
  /\ accepted["cmd"] # 0
  /\ cmd_fd' = accepted["cmd"]
  /\ listener' = "loop"
  /\ UNCHANGED <<link, screen, wire, buf, linebuf, stored, filter, sent>>

Read(lineAfter) ==
  /\ up
  /\ listener = "loop"
  /\ \E n \in 1 .. READ_SIZE :
       /\ n <= Len(wire[cmd_fd])
       /\ buf' = SubSeq(wire[cmd_fd], 1, n)
       /\ wire' = [wire EXCEPT ![cmd_fd] = SubSeq(@, n + 1, Len(@))]
  /\ linebuf' = lineAfter
  /\ listener' = "scan"
  /\ UNCHANGED <<link, screen, cmd_fd, stored, filter, sent>>

(* Wrong: linebuf and lineofs not static, the line begun in the last read  *)
(* is forgotten.                                                           *)
ListenerReadAfresh == Read(<< >>)

(* A read returns any part of what is there. *)
ListenerRead == Read(linebuf)

(* At the end of the stream the thread ends, and no other one starts.      *)
ListenerEnds ==
  /\ up
  /\ listener = "loop"
  /\ wire[cmd_fd] = << >>
  /\ cmd_fd \in closed
  /\ listener' = "gone"
  /\ UNCHANGED <<link, screen, wire, cmd_fd, buf, linebuf, stored, filter, sent>>

Obey(line) ==
  IF IsFilterLine(line)
    THEN /\ setting' \in ParsedValues(line)
         /\ obeyed' = Append(obeyed, setting')
         /\ early' = (early \/ ~stored)
    ELSE UNCHANGED filter

(* One symbol at a time; one that comes when the line is full is dropped.  *)
Scan(full) ==
  /\ up
  /\ listener = "scan"
  /\ IF Head(buf) = "nl" \/ Len(linebuf) >= full
       THEN Obey(linebuf) /\ linebuf' = << >>
       ELSE linebuf' = Append(linebuf, Head(buf)) /\ UNCHANGED filter
  /\ buf' = Tail(buf)
  /\ listener' = IF buf' = << >> THEN "loop" ELSE "scan"
  /\ UNCHANGED <<link, screen, wire, cmd_fd, stored, sent>>

(* Wrong: a line is full one symbol too early. *)
ScanShort == Scan(LINE_SIZE - 2)
ScanSymbol == Scan(LINE_SIZE - 1)

-----------------------------------------------------------------------------
(* The host utility. *)

(* The button: the state and the label change at once, whether or not a    *)
(* command can be sent.                                                    *)
PressButton ==
  /\ gui = "idle"
  /\ toggles < MaxToggles
  /\ toggles' = toggles + 1
  /\ shown' = ~shown
  /\ value' = ~shown
  /\ gui' = IF connected["log"] THEN "send" ELSE "idle"
  /\ clashed' = (clashed \/ host # "recv")
  /\ UNCHANGED <<link, wire, parser, stored, filter, sent>>

(* send_command on whatever socket sock_cmd is by now: one that is closed, *)
(* not connected or without a peer raises an exception, or loses the line. *)
SendLine(line) ==
  /\ gui = "send"
  /\ gui' = "idle"
  /\ LET c == sock["cmd"] IN
       IF c # 0 /\ ~Dead(c)
         THEN /\ wire' = [wire EXCEPT ![c] = @ \o line]
              /\ sent' = [sent EXCEPT ![c] = Append(@, value)]
              /\ UNCHANGED clashed
         ELSE /\ clashed' = TRUE
              /\ UNCHANGED <<wire, sent>>
  /\ UNCHANGED <<link, shown, value, toggles, parser, stored, filter>>

(* Wrong: the value the button had before. *)
SendOldValue == SendLine(Line(~value))
SendCommand == SendLine(Line(value))

HostThread ==
  /\ (\E p \in PortSet : HostConnect(p) \/ HostRetry(p)) \/ HostLost
  /\ UNCHANGED <<screen, wire, parser, stored, filter, sent>>

Clear(state) ==
  /\ HostClear
  /\ shown' = state
  /\ clashed' = (clashed \/ gui = "send")
  /\ UNCHANGED <<gui, value, toggles, wire, parser, stored, filter, sent>>

(* Wrong: the button is left as it is. *)
ClearAllButButton == Clear(shown)
ClearData == Clear(TRUE)

-----------------------------------------------------------------------------
DeviceThread ==
  \/ NetThread \/ MainStore
  \/ ListenerStart \/ ListenerRead \/ ListenerEnds \/ ScanSymbol

HostStep == HostThread \/ ClearData \/ SendCommand

Next == Start \/ Stop \/ DeviceThread \/ PressButton \/ HostStep

Spec == Init /\ [][Next]_vars

(* Threads that can run do; each of cmd_listener's steps in its turn.  The *)
(* program need not be started or end, nor the button be pressed.          *)
Fairness ==
  /\ WF_vars(NetThread)
  /\ WF_vars(MainStore)
  /\ WF_vars(ListenerStart \/ ListenerRead \/ ListenerEnds \/ ScanSymbol)
  /\ WF_vars(SendCommand)
  /\ WF_vars(HostThread \/ ClearData)

FairSpec == Spec /\ Fairness

-----------------------------------------------------------------------------
Symbols == {"set", "filter", "0", "1", "nl"}

TypeOK ==
  /\ LinkTypeOK
  /\ shown \in BOOLEAN /\ value \in BOOLEAN /\ setting \in BOOLEAN
  /\ gui \in {"idle", "send"}
  /\ wire \in [1 .. MaxConns -> Seq(Symbols)]
  /\ listener \in {"wait", "loop", "scan", "gone"}
  /\ cmd_fd \in 0 .. MaxConns
  /\ buf \in Seq(Symbols) /\ Len(buf) <= READ_SIZE
  /\ linebuf \in Seq(Symbols) /\ Len(linebuf) < LINE_SIZE
  /\ stored \in BOOLEAN /\ early \in BOOLEAN /\ clashed \in BOOLEAN
  /\ toggles \in 0 .. MaxToggles
  /\ sent \in [1 .. MaxConns -> Seq(BOOLEAN)]
  /\ obeyed \in Seq(BOOLEAN)

(* However the stream is cut into reads, the device obeys the settings     *)
(* that were sent on the connection it accepted, in that order, and none   *)
(* but those.                                                              *)
ObeysWhatWasSent ==
  IF cmd_fd = 0 THEN obeyed = << >> ELSE IsPrefix(obeyed, sent[cmd_fd])

(* Everything has come to rest: one run of the device, one host connected  *)
(* to it throughout, and nothing on its way from one to the other.         *)
Settled ==
  /\ up /\ stored /\ listener = "loop"
  /\ host = "recv" /\ ~Dead(sock["log"]) /\ sock["cmd"] = cmd_fd
  /\ gui = "idle"
  /\ wire[cmd_fd] = << >>

(* The host and the device share no state beyond the commands, and each    *)
(* starts over on its own; still, on a device that starts with the filter  *)
(* on, the button shows the setting in effect whenever all is at rest,     *)
(* unless a press overlapped a reconnection or was obeyed too early.       *)
ButtonShowsSetting ==
  FftFilterEnable /\ Settled /\ ~clashed /\ ~early => shown = setting

(* The button shows the setting in effect.                                 *)
ButtonNeverLies ==
  FftFilterEnable /\ Settled /\ ~early => shown = setting

(* A command on the connection the device accepted is obeyed while it runs.*)
SentIsObeyed ==
  \A c \in 1 .. MaxConns : \A n \in 1 .. MaxToggles :
    (up /\ accepted["cmd"] = c /\ Len(sent[c]) >= n)
      ~> (accepted["cmd"] # c \/ Len(obeyed) >= n)
=============================================================================
