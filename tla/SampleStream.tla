---------------------------- MODULE SampleStream ----------------------------
(***************************************************************************)
(* The input spectrum: the audio thread collects tagged frames of samples  *)
(* in send_inbuffer and sends the buffer when the next frame does not fit  *)
(* (host_interface.c); on the host a thread for each connection cuts the   *)
(* byte stream into frames again (read_input_audio_samples, audmon.py).    *)
(* The output spectrum's code is the same with other names.                *)
(* A word is four bytes: a tag, or a part of a frame's samples.            *)
(* Definitions marked "Wrong:" are never used by Next; each is a variant   *)
(* of the definition after it with a bug one could make in the code.       *)
(***************************************************************************)
EXTENDS HostLink, SequencesExt

CONSTANTS
  EthIface,          \* app_config.is_host_eth_iface
  FRAME_WORDS,       \* words of samples in a frame (128: 512 bytes)
  SEND_BUFFER_SIZE,  \* words the send buffer holds (4096: 16384 bytes)
  MaxFrames          \* bound: frames played in one run of the program

ASSUME StreamAssumption ==
  /\ "in" \in PortSet
  /\ EthIface \in BOOLEAN
  /\ FRAME_WORDS \in Nat \ {0, 1}
  /\ SEND_BUFFER_SIZE \in Nat /\ SEND_BUFFER_SIZE >= FRAME_WORDS + 1
  /\ MaxFrames \in Nat

VARIABLES
  frames,     \* frames played in this run
  sendbuf,    \* send_inbuffer up to send_inoffset
  wire,       \* per connection, the words on their way to the host
  readers,    \* the host's reader threads, in the order they were started
  waveform,   \* waveform_insamples: the samples of each frame received
  crowded     \* history: a reader was started while another still ran

vars == <<link, frames, sendbuf, wire, readers, waveform, crowded>>

Word(frame, part) == [run |-> run, frame |-> frame, part |-> part]
IsTag(word) == word.part = 0

(* "INPT" and one channel's samples. *)
Record(frame) == [i \in 1 .. FRAME_WORDS + 1 |-> Word(frame, i - 1)]

(* A reader thread; it holds the connection it waits on in recv.           *)
NewReader == [at |-> "test", conn |-> 0, want |-> 1, got |-> << >>]


Init ==
  /\ LinkInit
  /\ frames = 0
  /\ sendbuf = << >>
  /\ wire = [c \in 1 .. MaxConns |-> << >>]
  /\ readers = << >>
  /\ waveform = << >>
  /\ crowded = FALSE

-----------------------------------------------------------------------------
(* The device program. *)

Start ==
  /\ DeviceStart
  /\ frames' = 0
  /\ sendbuf' = << >>
  /\ UNCHANGED <<wire, readers, waveform, crowded>>

NetThread ==
  /\ \E p \in PortSet : Listen(p) \/ Accept(p)
  /\ UNCHANGED <<frames, sendbuf, wire, readers, waveform, crowded>>

Stop == DeviceExit /\ UNCHANGED <<frames, sendbuf, wire, readers, waveform, crowded>>

(* Without a client the buffer is sent nowhere, and emptied all the same.  *)
Flush ==
  LET c == accepted["in"] IN
    wire' = IF EthIface /\ c # 0 /\ c \notin closed
              THEN [wire EXCEPT ![c] = @ \o sendbuf]
              ELSE wire

(* The audio thread after each frame. *)
Enqueue(room) ==
  /\ up
  /\ frames < MaxFrames
  /\ frames' = frames + 1
  /\ IF Len(sendbuf) + FRAME_WORDS + 1 > room
       THEN Flush /\ sendbuf' = Record(frames + 1)
       ELSE sendbuf' = sendbuf \o Record(frames + 1) /\ UNCHANGED wire
  /\ UNCHANGED <<link, readers, waveform, crowded>>

(* Wrong: the tag is not counted. *)
EnqueueUntagged == Enqueue(SEND_BUFFER_SIZE + 1)
enqueue_input_buffer == Enqueue(SEND_BUFFER_SIZE)

(* A program that ends while send waits for room leaves part of a buffer;  *)
(* a host that does not answer any more leaves part of all that was sent.  *)
TailIsLost ==
  /\ \E c \in DOMAIN conns :
       /\ Dead(c)
       /\ wire[c] # << >>
       /\ wire' = [wire EXCEPT ![c] = Front(@)]
  /\ UNCHANGED <<link, frames, sendbuf, readers, waveform, crowded>>

-----------------------------------------------------------------------------
(* The host. *)

HostThread ==
  /\ \/ \E p \in PortSet \ {"in"} : HostConnect(p)
     \/ \E p \in PortSet : HostRetry(p)
     \/ HostLost
  /\ UNCHANGED <<frames, sendbuf, wire, readers, waveform, crowded>>

Running(r) == readers[r].at # "done"

StartReader(readersAfter) ==
  /\ HostConnect("in")
  /\ readers' = readersAfter
  /\ crowded' = (crowded \/ \E r \in DOMAIN readers : Running(r))
  /\ UNCHANGED <<frames, sendbuf, wire, waveform>>

(* Wrong: a thread is started for the first connection only. *)
ConnectInputOnce == StartReader(IF readers = << >> THEN <<NewReader>> ELSE readers)

(* wait_for_indata: each connection gets a thread of its own.              *)
ConnectInput == StartReader(Append(readers, NewReader))

ClearData ==
  /\ HostClear
  /\ waveform' = << >>
  /\ UNCHANGED <<frames, sendbuf, wire, readers, crowded>>

Goto(r, where) == readers' = [readers EXCEPT ![r].at = where]

(* The flag is looked at between frames only, in a busy loop. *)
ReaderTest(r) ==
  /\ readers[r].at = "test"
  /\ connected["in"]
  /\ Goto(r, "call")
  /\ UNCHANGED <<link, frames, sendbuf, wire, waveform, crowded>>

(* Every call of recv looks the socket up in a global; without a connected *)
(* socket it raises an exception and the thread is gone.                   *)
ReaderCall(r) ==
  /\ readers[r].at = "call"
  /\ readers' = [readers EXCEPT ![r].at = IF sock["in"] = 0 THEN "done" ELSE "recv",
                                ![r].conn = sock["in"]]
  /\ UNCHANGED <<link, frames, sendbuf, wire, waveform, crowded>>

(* inrecv_exact has what it was asked for: a tag, which the samples follow,*)
(* some other word, which is skipped, or the samples.                      *)
Complete(r, got) ==
  IF readers[r].want = 1
    THEN /\ readers' = [readers EXCEPT ![r] =
              IF IsTag(got[1])
                THEN [@ EXCEPT !.at = "call", !.want = FRAME_WORDS, !.got = << >>]
                ELSE NewReader]
         /\ UNCHANGED waveform
    ELSE /\ readers' = [readers EXCEPT ![r] = NewReader]
         /\ waveform' = Append(waveform, got)

(* Any part of what is there arrives. *)
Chunk(r, sizes) ==
  /\ readers[r].at = "recv"
  /\ LET c == readers[r].conn IN
     \E n \in sizes :
       LET got == readers[r].got \o SubSeq(wire[c], 1, n) IN
       /\ n <= Len(wire[c])
       /\ wire' = [wire EXCEPT ![c] = SubSeq(@, n + 1, Len(@))]
       /\ IF Len(got) >= readers[r].want
            THEN Complete(r, got)
            ELSE /\ readers' = [readers EXCEPT ![r].at = "call", ![r].got = got]
                 /\ UNCHANGED waveform
  /\ UNCHANGED <<link, frames, sendbuf, crowded>>

(* Wrong: more asked for than is missing. *)
ReaderChunkWhole(r) == Chunk(r, 1 .. readers[r].want)
ReaderChunk(r) == Chunk(r, 1 .. readers[r].want - Len(readers[r].got))

(* The end of the stream ends the thread, with what it had so far.         *)
ReaderEnds(r) ==
  /\ readers[r].at = "recv"
  /\ wire[readers[r].conn] = << >>
  /\ Dead(readers[r].conn)
  /\ Goto(r, "done")
  /\ UNCHANGED <<link, frames, sendbuf, wire, waveform, crowded>>

ReaderStep(r) == ReaderTest(r) \/ ReaderCall(r) \/ ReaderChunk(r) \/ ReaderEnds(r)

-----------------------------------------------------------------------------
Next ==
  \/ Start \/ NetThread \/ enqueue_input_buffer \/ Stop \/ TailIsLost
  \/ HostThread \/ ConnectInput \/ ClearData
  \/ \E r \in DOMAIN readers : ReaderStep(r)

Spec == Init /\ [][Next]_vars

(* Threads that can run do.  The program need not be started, play or end. *)
Fairness ==
  /\ WF_vars(NetThread)
  /\ WF_vars(HostThread \/ ConnectInput \/ ClearData)
  /\ \A r \in 1 .. MaxConns : WF_vars(r \in DOMAIN readers /\ ReaderStep(r))

FairSpec == Spec /\ Fairness

-----------------------------------------------------------------------------
Words == [run : 1 .. MaxRuns, frame : 1 .. MaxFrames, part : 0 .. FRAME_WORDS]

TypeOK ==
  /\ LinkTypeOK
  /\ frames \in 0 .. MaxFrames
  /\ sendbuf \in Seq(Words) /\ Len(sendbuf) <= SEND_BUFFER_SIZE
  /\ wire \in [1 .. MaxConns -> Seq(Words)]
  /\ readers \in Seq([at : {"test", "call", "recv", "done"}, conn : 0 .. MaxConns,
                      want : {1, FRAME_WORDS}, got : Seq(Words)])
  /\ waveform \in Seq(Seq(Words))
  /\ crowded \in BOOLEAN

IsFrame(words) ==
  \E r \in 1 .. MaxRuns : \E f \in 1 .. MaxFrames :
    words = [i \in 1 .. FRAME_WORDS |-> [run |-> r, frame |-> f, part |-> i]]

(* However recv cuts the stream, and whatever the host missed before it    *)
(* was connected, the samples shown are those of whole frames, each next   *)
(* to the one after it, as long as no reader thread outlives its           *)
(* connection into the time of the next one.                               *)
WaveformInStep ==
  ~crowded =>
    /\ \A i \in DOMAIN waveform : IsFrame(waveform[i])
    /\ \A i \in 1 .. Len(waveform) - 1 :
         /\ waveform[i][1].run = waveform[i + 1][1].run
         /\ waveform[i][1].frame + 1 = waveform[i + 1][1].frame

(* What has been sent on the connection the host reads is read.            *)
StreamIsRead ==
  \A c \in 1 .. MaxConns :
    (sock["in"] = c /\ wire[c] # << >>)
      ~> (wire[c] = << >> \/ sock["in"] # c \/ ~connected["in"])
=============================================================================
