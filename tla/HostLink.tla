------------------------------ MODULE HostLink ------------------------------
(***************************************************************************)
(* The TCP connections between the device program (host_interface.c) and   *)
(* the host utility (audmon.py, ip mode).  For each port the program has a *)
(* thread that listens and accepts once; the host's read_data thread       *)
(* connects to one port after the other and starts over when the log       *)
(* connection breaks.  The program may end at any time and be started      *)
(* again; the host utility runs on.  FilterControl.tla and SampleStream.tla *)
(* extend this module with what travels over the connections.              *)
(***************************************************************************)
EXTENDS Naturals, Sequences, FiniteSets

CONSTANTS
  PortSet,   \* the ports modelled
  MaxRuns,   \* bound: how often the device program is started
  MaxConns   \* bound: how many connections the host makes

(* The order in which the host connects. *)
Only(p) == IF p \in PortSet THEN <<p>> ELSE << >>
Ports   == Only("log") \o Only("cmd") \o Only("in") \o Only("out")

ASSUME PortsAssumption == "log" \in PortSet /\ PortSet \subseteq {"log", "cmd", "in", "out"}
ASSUME LinksAssumption == MaxRuns \in Nat /\ MaxConns \in Nat

VARIABLES
  up,         \* the device program runs
  run,        \* which run of it this is, or was
  listening,  \* ports it listens on
  accepted,   \* its client_*_fd: a connection, 0 before accept() returns
  conns,      \* every connection made so far: its port and its run
  sock,       \* the host's socket for each port: a connection, 0 without one
  closed,     \* connections the host has closed
  host,       \* where read_data is: "connect", "clear" or "recv"
  next,       \* the index in Ports of the one it connects to next
  connected   \* its flag for each port

device == <<up, run, listening, accepted>>
client == <<conns, sock, closed, host, next, connected>>
link   == <<device, client>>

None == [p \in PortSet |-> 0]

LinkInit ==
  /\ up = FALSE
  /\ run = 0
  /\ listening = {}
  /\ accepted = None
  /\ conns = << >>
  /\ sock = None
  /\ closed = {}
  /\ host = "connect"
  /\ next = 1
  /\ connected = [p \in PortSet |-> FALSE]

(* The run at the other end of a connection is over. *)
Dead(c) == ~up \/ conns[c].run # run

-----------------------------------------------------------------------------
(* The device program. *)

DeviceStart ==
  /\ ~up
  /\ run < MaxRuns
  /\ up' = TRUE
  /\ run' = run + 1
  /\ UNCHANGED <<listening, accepted, client>>

(* One thread for each port, in whatever order they get to run. *)
Listen(p) ==
  /\ up
  /\ p \notin listening
  /\ listening' = listening \cup {p}
  /\ UNCHANGED <<up, run, accepted, client>>

Waiting(p) == {c \in DOMAIN conns : conns[c].port = p /\ conns[c].run = run}

(* accept is called once, and takes the connection that was made first. *)
Accept(p) ==
  /\ up
  /\ accepted[p] = 0
  /\ Waiting(p) # {}
  /\ accepted' = [accepted EXCEPT ![p] =
                    CHOOSE c \in Waiting(p) : \A d \in Waiting(p) : c <= d]
  /\ UNCHANGED <<up, run, listening, client>>

(* The file ends, a signal arrives, or the program fails. *)
DeviceExit ==
  /\ up
  /\ up' = FALSE
  /\ listening' = {}
  /\ accepted' = None
  /\ UNCHANGED <<run, client>>

-----------------------------------------------------------------------------
(* The host's read_data thread. *)

Leave(p) == closed' = IF sock[p] = 0 THEN closed ELSE closed \cup {sock[p]}

(* wait_for_<port> begins by clearing its flag; after the last one the     *)
(* thread reads the log.                                                   *)
Enter(i, flags) ==
  IF i > Len(Ports)
    THEN host' = "recv" /\ next' = 1 /\ connected' = flags
    ELSE /\ host' = "connect"
         /\ next' = i
         /\ connected' = [flags EXCEPT ![Ports[i]] = FALSE]

(* The socket of an earlier attempt is closed before a new one is made.    *)
HostConnect(p) ==
  /\ host = "connect"
  /\ p = Ports[next]
  /\ p \in listening
  /\ Len(conns) < MaxConns
  /\ Leave(p)
  /\ conns' = Append(conns, [port |-> p, run |-> run])
  /\ sock' = [sock EXCEPT ![p] = Len(conns')]
  /\ LET flags == [connected EXCEPT ![p] = TRUE] IN
       IF p = "log"
         THEN host' = "clear" /\ connected' = flags /\ UNCHANGED next
         ELSE Enter(next + 1, flags)
  /\ UNCHANGED device

(* A refused connection leaves a new socket that is not connected. *)
HostRetry(p) ==
  /\ host = "connect"
  /\ p = Ports[next]
  /\ p \notin listening
  /\ sock[p] # 0
  /\ Leave(p)
  /\ sock' = [sock EXCEPT ![p] = 0]
  /\ UNCHANGED <<device, conns, host, next, connected>>

(* clear_data, called once connected is set; then the next port. *)
HostClear ==
  /\ host = "clear"
  /\ Enter(next + 1, connected)
  /\ UNCHANGED <<device, conns, sock, closed>>

(* The end of the log stream: two of the flags are cleared at once, the    *)
(* thread sleeps and starts over.                                          *)
HostLost ==
  /\ host = "recv"
  /\ Dead(sock["log"])
  /\ Enter(1, [p \in PortSet |-> p \notin {"log", "in"} /\ connected[p]])
  /\ UNCHANGED <<device, conns, sock, closed>>

-----------------------------------------------------------------------------
LinkTypeOK ==
  /\ up \in BOOLEAN
  /\ run \in 0 .. MaxRuns
  /\ listening \subseteq PortSet
  /\ accepted \in [PortSet -> 0 .. MaxConns]
  /\ conns \in Seq([port : PortSet, run : 1 .. MaxRuns])
  /\ sock \in [PortSet -> 0 .. MaxConns]
  /\ closed \subseteq 1 .. MaxConns
  /\ host \in {"connect", "clear", "recv"}
  /\ next \in 1 .. Len(Ports)
  /\ connected \in [PortSet -> BOOLEAN]
=============================================================================
