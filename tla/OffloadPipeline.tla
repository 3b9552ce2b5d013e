-------------------------- MODULE OffloadPipeline --------------------------
(***************************************************************************)
(* The audio path of rpmsg_audio_example.c.  The audio thread reads a      *)
(* frame into the data dma-buf, has the DSP (through rpmsg) or itself      *)
(* filter it in place, and plays it; the command thread changes the filter *)
(* setting at any time; main sets up, stores the configured setting, waits *)
(* for the audio thread and takes all down again.  The DSP firmware is not *)
(* in the repository: it is modelled from the messages and buffers the     *)
(* code gives it (external).                                               *)
(* A frame is its number and, for each channel, how it was filtered.       *)
(* Definitions marked "Wrong:" are never used by Next; each is a variant   *)
(* of the definition after it with a bug one could make in the C code.     *)
(***************************************************************************)
EXTENDS Integers, Sequences, DmaBuffer

CONSTANTS
  Modes,             \* what app_config.is_dsp_execution may say
  FftFilterEnable,   \* app_config.fft_filter_enable
  CHANNELS,          \* interleaved channels in a frame (8 in the header)
  FileFrames,        \* bound: whole frames in the WAV file
  MaxCommands,       \* bound: filter commands received
  MaxFaults          \* bound: failed send_msg and recv_msg calls

ASSUME ModeAssumption    == Modes \subseteq {"ARM", "DSP"}
ASSUME ConfigAssumption  == FftFilterEnable \in BOOLEAN
ASSUME ChannelAssumption == CHANNELS \in Nat \ {0}
ASSUME FramesAssumption  == FileFrames \in Nat
ASSUME BoundsAssumption  == MaxCommands \in Nat /\ MaxFaults \in Nat

VARIABLES
  current_mode,
  rpmsg_fd,          \* the endpoint, or what a failing init_rpmsg returned
  mapped,            \* which of the two buffers dmabuf_heap_init mapped
  data, options,     \* the two dma-bufs; options holds a params_t
  filter_enabled,    \* the ARM path's own global
  start_requested,
  main, cmd, audio,  \* where each thread is
  state,             \* cmd_listener's argument to enable_filter
  ch,                \* process_on_arm's channel
  frames,            \* whole frames read from the file
  requests, replies, \* messages in flight to and from the DSP
  dsp,               \* what the DSP is doing, with what it has read
  commands, sendFailures, recvFailures,  \* history: how often each happened
  setting,           \* history: the setting stored last, by anyone
  quiet,             \* history: no command since the frame in work began
  answered,          \* history: its request was sent and its reply received
  played             \* history: what snd_pcm_writei and the metrics were given

setup    == <<current_mode, rpmsg_fd, mapped>>
buffers  == <<data, options>>
faults   == <<sendFailures, recvFailures>>
control  == <<main, start_requested>>
endpoint == <<requests, replies>>
filter   == <<filter_enabled, setting>>
history  == <<quiet, answered, played>>
command  == <<cmd, state, commands>>
vars == <<setup, buffers, filter, control, command, audio, ch, frames, endpoint, dsp,
          faults, history>>

Marks    == {"raw", "on", "off"}
Mark(on) == IF on THEN "on" ELSE "off"
Channels == 0 .. CHANNELS - 1
Blocks   == [frame : 0 .. FileFrames, filtered : [Channels -> Marks]]
Raw(n)   == [frame |-> n, filtered |-> [c \in Channels |-> "raw"]]
Filtered(block, on) == [block EXCEPT !.filtered = [c \in Channels |-> Mark(on)]]

(* dsp_load is the frame whose processing it measures. *)
Params == [dsp_load : 0 .. FileFrames, filter_enabled : BOOLEAN]

Init ==
  /\ current_mode \in Modes
  /\ rpmsg_fd = "none"
  /\ mapped = {}
  /\ data = Absent(Raw(0))
  /\ options = Absent([dsp_load |-> 0, filter_enabled |-> FALSE])
  /\ filter_enabled = FALSE
  /\ start_requested = "START_PLAY"
  /\ main = "rpmsg"
  /\ cmd = "none"
  /\ audio = "none"
  /\ state = FALSE
  /\ ch = 0
  /\ frames = 0
  /\ requests = 0 /\ replies = 0
  /\ dsp = [at |-> "idle", block |-> Raw(0), filter |-> FALSE]
  /\ commands = 0 /\ sendFailures = 0 /\ recvFailures = 0
  /\ setting = FALSE
  /\ quiet = FALSE
  /\ answered = FALSE
  /\ played = << >>

-----------------------------------------------------------------------------
(* Both kinds of access to a buffer that several threads make. *)

(* dmabuf_heap_init may have failed to map the options buffer;             *)
(* dmabuf_heap_destroy unmaps it and closes its descriptor.                *)
OptionsMapped == "options" \in mapped /\ main \notin {"revert", "done"}

SyncData(start_stop) == data' \in dmabuf_sync(data, start_stop)

(* The result of the ioctl is ignored, on a closed or wrong descriptor too. *)
SyncedOptions(start_stop) ==
  IF OptionsMapped THEN dmabuf_sync(options, start_stop) ELSE {options}
SyncOptions(start_stop) == options' \in SyncedOptions(start_stop)

StoreFilter(on) ==
  /\ options' = CpuWrite(options, [CpuRead(options) EXCEPT !.filter_enabled = on])
  /\ setting' = on

-----------------------------------------------------------------------------
(* main, from init_rpmsg on. *)

(* The result is not looked at: without an endpoint, every send_msg fails. *)
InitRpmsg ==
  /\ main = "rpmsg"
  /\ rpmsg_fd' \in {"open", "failed"}
  /\ main' = "buffers"
  /\ UNCHANGED <<current_mode, mapped, buffers, filter, start_requested, command, audio,
                 ch, frames, endpoint, dsp, faults, history>>

(* Either dmabuf_heap_init may fail, and its result is not looked at.      *)
InitBuffers ==
  /\ main = "buffers"
  /\ mapped' \in SUBSET {"data", "options"}
  /\ main' = "host_interface"
  /\ UNCHANGED <<current_mode, rpmsg_fd, buffers, filter, start_requested, command,
                 audio, ch, frames, endpoint, dsp, faults, history>>

(* The command thread runs before main has stored the configured setting.  *)
InitHostInterface ==
  /\ main = "host_interface"
  /\ cmd' = "idle"
  /\ main' = IF current_mode = "DSP" THEN "sync" ELSE "store_arm"
  /\ UNCHANGED <<setup, buffers, filter, start_requested, audio, state, ch, frames,
                 endpoint, dsp, commands, faults, history>>

(* The configured setting is stored between two END calls.                 *)
MainSync ==
  /\ main \in {"sync", "sync_again"}
  /\ SyncOptions(DMA_BUF_SYNC_END)
  /\ main' = IF main = "sync" THEN "store" ELSE "poll"
  /\ UNCHANGED <<setup, data, filter, start_requested, command, audio, ch, frames,
                 endpoint, dsp, faults, history>>

MainStore ==
  /\ main = "store"
  /\ OptionsMapped
  /\ StoreFilter(FftFilterEnable)
  /\ main' = "sync_again"
  /\ UNCHANGED <<setup, data, filter_enabled, start_requested, command, audio, ch,
                 frames, endpoint, dsp, faults, history>>

(* Without a mapping the store goes through no valid pointer. *)
MainStoreUnmapped ==
  /\ main = "store"
  /\ ~OptionsMapped
  /\ main' = "crashed"
  /\ UNCHANGED <<setup, buffers, filter, start_requested, command, audio, ch, frames,
                 endpoint, dsp, faults, history>>

MainStoreArm ==
  /\ main = "store_arm"
  /\ filter_enabled' = FftFilterEnable
  /\ setting' = FftFilterEnable
  /\ main' = "poll"
  /\ UNCHANGED <<setup, buffers, start_requested, command, audio, ch, frames, endpoint,
                 dsp, faults, history>>

(* Wrong: start_requested cleared only after pthread_create. *)
MainStartLate ==
  /\ \/ /\ main = "poll"
        /\ start_requested = "START_PLAY"
        /\ audio' = "open"
        /\ main' = "created"
        /\ UNCHANGED start_requested
     \/ /\ main = "created"
        /\ start_requested' = "STOP_PLAY"
        /\ main' = "poll"
        /\ UNCHANGED audio
  /\ UNCHANGED <<setup, buffers, filter, command, ch, frames, endpoint, dsp, faults,
                 history>>

(* start_requested leaves START_PLAY before the thread that may set it to  *)
(* EXIT_PLAY exists; when pthread_create fails main leaves the loop.       *)
MainStart ==
  /\ main = "poll"
  /\ start_requested = "START_PLAY"
  /\ start_requested' = "STOP_PLAY"
  /\ \/ audio' = "open" /\ UNCHANGED main
     \/ main' = "destroy_data" /\ UNCHANGED audio
  /\ UNCHANGED <<setup, buffers, filter, command, ch, frames, endpoint, dsp, faults,
                 history>>

Advance(from, to) ==
  /\ main = from
  /\ main' = to
  /\ UNCHANGED <<setup, buffers, filter, start_requested, command, audio, ch, frames,
                 endpoint, dsp, faults, history>>

(* Wrong: STOP_PLAY taken for the end. *)
MainLeaveEarly == start_requested # "START_PLAY" /\ Advance("poll", "destroy_data")
MainLeave == start_requested = "EXIT_PLAY" /\ Advance("poll", "destroy_data")

(* Nothing has been asked to stop: the command thread may still come by.   *)
DestroyData    == Advance("destroy_data", "destroy_options")
DestroyOptions == Advance("destroy_options", "revert")

(* The firmware is switched back, and the program ends. *)
Revert == Advance("revert", "done")

-----------------------------------------------------------------------------
(* The command thread: cmd_listener calls enable_filter. *)

EnableFilter(mode) ==
  /\ cmd = "idle"
  /\ commands < MaxCommands
  /\ commands' = commands + 1
  /\ state' \in BOOLEAN
  /\ cmd' = IF mode = "DSP" THEN "start" ELSE "store_arm"
  /\ quiet' = FALSE
  /\ UNCHANGED <<setup, buffers, filter, control, audio, ch, frames, endpoint, dsp,
                 faults, answered, played>>

(* Wrong: current_mode is not asked. *)
ReceiveCommandForDsp == EnableFilter("DSP")
ReceiveCommand == EnableFilter(current_mode)

CmdSyncStart ==
  /\ cmd = "start"
  /\ SyncOptions(DMA_BUF_SYNC_START)
  /\ cmd' = "store"
  /\ UNCHANGED <<setup, data, filter, control, state, commands, audio, ch, frames,
                 endpoint, dsp, faults, history>>

(* Wrong: the ARM path's variable. *)
CmdStoreGlobal ==
  /\ cmd = "store"
  /\ filter_enabled' = state
  /\ setting' = state
  /\ cmd' = "end"
  /\ UNCHANGED <<setup, buffers, control, state, commands, audio, ch, frames, endpoint,
                 dsp, faults, history>>

CmdStore ==
  /\ cmd = "store"
  /\ OptionsMapped
  /\ StoreFilter(state)
  /\ cmd' = "end"
  /\ UNCHANGED <<setup, data, filter_enabled, control, state, commands, audio, ch,
                 frames, endpoint, dsp, faults, history>>

(* After munmap the store hits nothing, or whatever is mapped there now;   *)
(* with no mapping ever there is nothing to hit.                           *)
CmdStoreUnmapped ==
  /\ cmd = "store"
  /\ ~OptionsMapped
  /\ cmd' \in IF "options" \in mapped THEN {"end", "crashed"} ELSE {"crashed"}
  /\ UNCHANGED <<setup, buffers, filter, control, state, commands, audio, ch,
                 frames, endpoint, dsp, faults, history>>

CmdEnd(optionsAfter) ==
  /\ cmd = "end"
  /\ options' \in optionsAfter
  /\ cmd' = "idle"
  /\ UNCHANGED <<setup, data, filter, control, state, commands, audio, ch, frames,
                 endpoint, dsp, faults, history>>

(* Wrong: without the END call. *)
CmdNoSyncEnd == CmdEnd({options})
CmdSyncEnd == CmdEnd(SyncedOptions(DMA_BUF_SYNC_END))

CmdStoreArm ==
  /\ cmd = "store_arm"
  /\ filter_enabled' = state
  /\ setting' = state
  /\ cmd' = "idle"
  /\ UNCHANGED <<setup, buffers, control, state, commands, audio, ch, frames, endpoint,
                 dsp, faults, history>>

-----------------------------------------------------------------------------
(* The audio thread. *)

Exit ==
  /\ audio' = "exit"
  /\ start_requested' = "EXIT_PLAY"
  /\ UNCHANGED main

(* The file or the PCM device may not open or not fit. *)
OpenAudio ==
  /\ audio = "open"
  /\ \/ audio' = "begin" /\ UNCHANGED control
     \/ Exit
  /\ UNCHANGED <<setup, buffers, filter, command, ch, frames, endpoint, dsp, faults,
                 history>>

BeginFrame ==
  /\ audio = "begin"
  /\ SyncData(DMA_BUF_SYNC_START)
  /\ quiet' = (cmd = "idle")
  /\ answered' = TRUE
  /\ audio' = "read"
  /\ UNCHANGED <<setup, options, filter, control, command, ch, frames, endpoint, dsp,
                 faults, played>>

(* A short read leaves the loop, and the session just started open.        *)
ReadUpTo(last) ==
  /\ audio = "read"
  /\ "data" \in mapped
  /\ \/ /\ frames < last
        /\ frames' = frames + 1
        /\ data' = CpuWrite(data, Raw(frames + 1))
        /\ audio' = "filled"
        /\ UNCHANGED control
     \/ /\ frames = last
        /\ Exit
        /\ UNCHANGED <<frames, data>>
  /\ UNCHANGED <<setup, options, filter, command, ch, endpoint, dsp, faults, history>>

(* Wrong: a short read counts as a frame once. *)
ReadFrameShort == ReadUpTo(FileFrames + 1)
ReadFrame == ReadUpTo(FileFrames)

(* Without a mapping read(2) refuses the address, a short read to          *)
(* sf_readf_short, or the library's own copying to it crashes.             *)
ReadUnmapped ==
  /\ audio = "read"
  /\ "data" \notin mapped
  /\ \/ Exit
     \/ audio' = "crashed" /\ UNCHANGED control
  /\ UNCHANGED <<setup, buffers, filter, command, ch, frames, endpoint, dsp, faults,
                 history>>

HandOver(dataAfter) ==
  /\ audio = "filled"
  /\ data' \in dataAfter
  /\ ch' = 0
  /\ audio' = IF current_mode = "DSP" THEN "send" ELSE "process"
  /\ UNCHANGED <<setup, options, filter, control, command, frames, endpoint, dsp,
                 faults, history>>

(* Wrong: without the END call. *)
HandOverNoSync == HandOver({data})
HandOverFrame == HandOver(dmabuf_sync(data, DMA_BUF_SYNC_END))

(* process_on_arm, one channel at a time: filter_enabled is read for each. *)
ProcessUpTo(last) ==
  /\ audio = "process"
  /\ data' = CpuWrite(data,
                [CpuRead(data) EXCEPT !.filtered[ch] = Mark(filter_enabled)])
  /\ ch' = ch + 1
  /\ audio' = IF ch = last THEN "retake" ELSE "process"
  /\ UNCHANGED <<setup, options, filter, control, command, frames, endpoint, dsp,
                 faults, history>>

(* Wrong: the last channel is left out. *)
ProcessChannelButLast == ProcessUpTo(CHANNELS - 2)
ProcessChannel == ProcessUpTo(CHANNELS - 1)

(* process_on_dsp: a failed or short write gives the frame up unprocessed. *)
Send(afterFailure) ==
  /\ audio = "send"
  /\ \/ /\ rpmsg_fd = "open"
        /\ requests' = requests + 1
        /\ audio' = "recv"
        /\ UNCHANGED <<sendFailures, answered>>
     \/ /\ rpmsg_fd = "open" => sendFailures + recvFailures < MaxFaults
        /\ sendFailures' = sendFailures + (IF rpmsg_fd = "open" THEN 1 ELSE 0)
        /\ answered' = FALSE
        /\ audio' = afterFailure
        /\ UNCHANGED requests
  /\ UNCHANGED <<setup, buffers, filter, control, command, ch, frames, replies, dsp,
                 recvFailures, quiet, played>>

(* Wrong: a failed write goes on to wait for a reply. *)
SendRequestRecvAnyway == Send("recv")
SendRequest == Send("retake")

(* Wrong: the read does not wait. *)
RecvReplyNoWait ==
  /\ audio = "recv"
  /\ replies' = IF replies > 0 THEN replies - 1 ELSE 0
  /\ audio' = "retake"
  /\ UNCHANGED <<setup, buffers, filter, control, command, ch, frames, requests, dsp,
                 faults, history>>

(* The read blocks until there is a reply, whichever request it answers.   *)
RecvReply ==
  /\ audio = "recv"
  /\ replies > 0
  /\ replies' = replies - 1
  /\ audio' = "retake"
  /\ UNCHANGED <<setup, buffers, filter, control, command, ch, frames, requests, dsp,
                 faults, history>>

(* A failed read gives the reply up but does not take the request back.    *)
RecvFails ==
  /\ audio = "recv"
  /\ sendFailures + recvFailures < MaxFaults
  /\ recvFailures' = recvFailures + 1
  /\ answered' = FALSE
  /\ audio' = "retake"
  /\ UNCHANGED <<setup, buffers, filter, control, command, ch, frames, endpoint, dsp,
                 sendFailures, quiet, played>>

Retake(dataAfter) ==
  /\ audio = "retake"
  /\ data' \in dataAfter
  /\ audio' = "retake_options"
  /\ UNCHANGED <<setup, options, filter, control, command, ch, frames, endpoint, dsp,
                 faults, history>>

(* Wrong: without the START call the cache's own copy is played. *)
RetakeDataNoSync == Retake({data})
RetakeData == Retake(dmabuf_sync(data, DMA_BUF_SYNC_START))

RetakeOptions ==
  /\ audio = "retake_options"
  /\ SyncOptions(DMA_BUF_SYNC_START)
  /\ audio' = "play"
  /\ UNCHANGED <<setup, data, filter, control, command, ch, frames, endpoint, dsp,
                 faults, history>>

(* The metrics, the player and the spectrum view read the frame.           *)
PlayFrame ==
  /\ audio = "play"
  /\ played' = Append(played,
        [block    |-> CpuRead(data),
         dsp_load |-> IF current_mode = "DSP" THEN CpuRead(options).dsp_load ELSE 0,
         quiet    |-> quiet,
         answered |-> answered,
         setting  |-> setting,
         behind   |-> recvFailures])
  /\ audio' = "release_options"
  /\ UNCHANGED <<setup, buffers, filter, control, command, ch, frames, endpoint, dsp,
                 faults, quiet, answered>>

ReleaseOptions ==
  /\ audio = "release_options"
  /\ SyncOptions(DMA_BUF_SYNC_END)
  /\ audio' = "release_data"
  /\ UNCHANGED <<setup, data, filter, control, command, ch, frames, endpoint, dsp,
                 faults, history>>

ReleaseData ==
  /\ audio = "release_data"
  /\ SyncData(DMA_BUF_SYNC_END)
  /\ audio' = "begin"
  /\ UNCHANGED <<setup, options, filter, control, command, ch, frames, endpoint, dsp,
                 faults, history>>

-----------------------------------------------------------------------------
(* The DSP (external): one request at a time, filtering the frame in place *)
(* as params_t says when it starts, writing only dsp_load of params_t.     *)

DspTake ==
  /\ dsp.at = "idle"
  /\ requests > 0
  /\ requests' = requests - 1
  /\ dsp' = [at |-> "busy", block |-> data.mem, filter |-> options.mem.filter_enabled]
  /\ UNCHANGED <<setup, buffers, filter, control, command, audio, ch, frames, replies,
                 faults, history>>

DspWrite ==
  /\ dsp.at = "busy"
  /\ data' = RemoteWrite(data, Filtered(dsp.block, dsp.filter))
  /\ options' = RemoteWrite(options, [options.mem EXCEPT !.dsp_load = dsp.block.frame])
  /\ dsp' = [dsp EXCEPT !.at = "done"]
  /\ UNCHANGED <<setup, filter, control, command, audio, ch, frames, endpoint, faults,
                 history>>

DspReply ==
  /\ dsp.at = "done"
  /\ replies' = replies + 1
  /\ dsp' = [at |-> "idle", block |-> Raw(0), filter |-> FALSE]
  /\ UNCHANGED <<setup, buffers, filter, control, command, audio, ch, frames, requests,
                 faults, history>>

-----------------------------------------------------------------------------
(* The CPU's cache fetches and evicts lines when it likes. *)
CacheStep ==
  /\ \/ data' \in CacheMoves(data) /\ UNCHANGED options
     \/ options' \in CacheMoves(options) /\ UNCHANGED data
  /\ UNCHANGED <<setup, filter, control, command, audio, ch, frames, endpoint, dsp,
                 faults, history>>

-----------------------------------------------------------------------------
Crashed == "crashed" \in {main, cmd, audio}
Running == main # "done" /\ ~Crashed

MainStep ==
  /\ Running
  /\ \/ InitRpmsg \/ InitBuffers \/ InitHostInterface
     \/ MainSync \/ MainStore \/ MainStoreUnmapped \/ MainStoreArm
     \/ MainStart \/ MainLeave
     \/ DestroyData \/ DestroyOptions \/ Revert

Command == Running /\ ReceiveCommand

CmdStep ==
  /\ Running
  /\ CmdSyncStart \/ CmdStore \/ CmdStoreUnmapped \/ CmdSyncEnd \/ CmdStoreArm

AudioStep ==
  /\ Running
  /\ \/ OpenAudio \/ BeginFrame \/ ReadFrame \/ ReadUnmapped \/ HandOverFrame
     \/ ProcessChannel \/ SendRequest \/ RecvReply \/ RecvFails
     \/ RetakeData \/ RetakeOptions \/ PlayFrame
     \/ ReleaseOptions \/ ReleaseData

DspStep == DspTake \/ DspWrite \/ DspReply

Next ==
  \/ MainStep \/ Command \/ CmdStep \/ AudioStep \/ DspStep \/ CacheStep

Spec == Init /\ [][Next]_vars

(* Threads that can run do run, and a DSP that has a request answers it.   *)
(* No command need arrive, and the cache need do nothing.                  *)
Fairness ==
  /\ WF_vars(MainStep)
  /\ WF_vars(CmdStep)
  /\ WF_vars(AudioStep)
  /\ WF_vars(DspStep)

FairSpec == Spec /\ Fairness

-----------------------------------------------------------------------------
Threads ==
  /\ main \in {"rpmsg", "buffers", "host_interface", "sync", "store", "sync_again",
               "store_arm", "poll", "destroy_data", "destroy_options", "revert",
               "done", "crashed"}
  /\ cmd \in {"none", "idle", "start", "store", "end", "store_arm", "crashed"}
  /\ audio \in {"none", "open", "begin", "read", "filled", "process", "send",
                "recv", "retake", "retake_options", "play", "release_options",
                "release_data", "exit", "crashed"}
  /\ start_requested \in {"START_PLAY", "STOP_PLAY", "EXIT_PLAY"}

TypeOK ==
  /\ Threads
  /\ current_mode \in Modes
  /\ rpmsg_fd \in {"none", "open", "failed"}
  /\ mapped \in SUBSET {"data", "options"}
  /\ data \in Buffers(Blocks)
  /\ options \in Buffers(Params)
  /\ filter_enabled \in BOOLEAN /\ state \in BOOLEAN /\ setting \in BOOLEAN
  /\ ch \in 0 .. CHANNELS
  /\ frames \in 0 .. FileFrames
  /\ requests \in Nat /\ replies \in Nat
  /\ dsp \in [at : {"idle", "busy", "done"}, block : Blocks, filter : BOOLEAN]
  /\ commands \in Nat /\ sendFailures \in Nat /\ recvFailures \in Nat
  /\ quiet \in BOOLEAN /\ answered \in BOOLEAN
  /\ played \in Seq([block : Blocks, dsp_load : 0 .. FileFrames, quiet : BOOLEAN,
                     answered : BOOLEAN, setting : BOOLEAN, behind : Nat])

(* Every recv_msg that failed leaves one reply too many behind, for good:  *)
(* from then on each frame takes the reply to an earlier one's request.    *)
RepliesOwed ==
  requests + (IF dsp.at = "idle" THEN 0 ELSE 1) + replies
    = recvFailures + (IF audio = "recv" THEN 1 ELSE 0)

(* While no recv_msg has failed, the frame the DSP works on is the one the *)
(* audio thread read last, whole and unfiltered, and that thread waits.    *)
DspHasFrameAlone ==
  recvFailures = 0 /\ dsp.at # "idle" =>
    /\ audio = "recv"
    /\ dsp.block = Raw(frames)

(* While no recv_msg has failed, the n-th frame of the file is the n-th    *)
(* played; it is played filtered on every channel, or, when its request    *)
(* could not be sent, as it was read.                                      *)
PlayedInOrder ==
  \A i \in 1 .. Len(played) : played[i].behind = 0 =>
    /\ played[i].block.frame = i
    /\ IF played[i].answered
         THEN \A c \in Channels : played[i].block.filtered[c] # "raw"
         ELSE played[i].block = Raw(i)

(* A frame during which no command arrives is filtered as the setting says *)
(* that was stored last, on all channels, and is reported with the load of *)
(* its own processing.                                                     *)
QuietFrameAsSet ==
  \A i \in 1 .. Len(played) :
    played[i].quiet /\ played[i].answered /\ played[i].behind = 0 =>
      /\ played[i].block = Filtered(Raw(i), played[i].setting)
      /\ current_mode = "DSP" => played[i].dsp_load = i

(* What a listener hears.  A frame is in work from its reading to its      *)
(* playing; it is skipped when it gets no reply.                           *)
InWork ==
  {"filled", "process", "send", "recv", "retake", "retake_options", "play"}

Skipped == audio \in InWork /\ ~answered
Lost    == recvFailures > 0

BlocksOf(records) == [i \in 1 .. Len(records) |-> records[i].block]
Heard == BlocksOf(played)

WellFiltered(n) ==
  {block \in Blocks : block.frame = n /\ \A c \in Channels : block.filtered[c] # "raw"}

Listener == INSTANCE Playback WITH
  Frames   <- FileFrames,
  AsRead   <- Raw,
  Filtered <- WellFiltered,
  taken    <- frames,
  skipped  <- Skipped,
  lost     <- Lost,
  heard    <- Heard

(* Threads, caches, buffers and messages amount to Playback.               *)
ImplementsPlayback == Listener!Spec

(* Only a command changes the setting once a command has been obeyed.      *)
CommandsAreKept ==
  [][commands > 0 /\ cmd = "idle" /\ cmd' = "idle" => UNCHANGED setting]_vars

(* What the DSP reads is what was stored last, whenever no thread is about *)
(* to end the access session in which it stored.                           *)
SettingInMemory ==
  current_mode = "DSP" /\ OptionsMapped /\ cmd = "idle" /\ main # "sync_again" =>
    options.mem.filter_enabled = setting

(* While no recv_msg has failed, the DSP has let go of both buffers before *)
(* main frees them.                                                        *)
DspDoneBeforeFree ==
  recvFailures = 0 /\ main \in {"destroy_options", "revert", "done"} =>
    requests = 0 /\ dsp.at = "idle"

(* The audio thread ends, main sees it and reverts the firmware, whichever *)
(* sends, receives and initialisations fail; unless the program ends first *)
(* for a buffer that was never mapped, or for a command that comes after   *)
(* the buffers are freed.                                                  *)
MainReverts == []~Crashed => <>(main = "done")
=============================================================================
