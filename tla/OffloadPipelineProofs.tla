----------------------- MODULE OffloadPipelineProofs -----------------------
(***************************************************************************)
(* Proofs about OffloadPipeline for any number of frames, channels,        *)
(* commands and failures.  The inductive invariant says, for each place    *)
(* the audio thread can be at, where the frame in work is: in the CPU's    *)
(* cache, in memory, or in both.  A second part is about the filter        *)
(* setting.                                                                *)
(***************************************************************************)
EXTENDS OffloadPipeline, TLAPS

USE ModeAssumption, ConfigAssumption, ChannelAssumption, FramesAssumption,
    BoundsAssumption, FateAssumption

-----------------------------------------------------------------------------
(* Where contents can be, whatever the cache does of its own accord. *)

(* The CPU reads c, and so will memory once the line is written back. *)
Fresh(buf, c) == buf.line = c /\ (buf.state = "dirty" \/ buf.mem = c)

(* Memory holds c, and nothing is going to be written over it. *)
InMemory(buf, c) ==
  /\ buf.mem = c
  /\ buf.state # "dirty"
  /\ buf.state = "absent" => buf.line = c

(* Both sides read c. *)
Shared(buf, c) == buf.mem = c /\ buf.line = c /\ buf.state # "dirty"

LEMMA SyncArguments ==
  ASSUME NEW buf
  PROVE  /\ dmabuf_sync(buf, DMA_BUF_SYNC_START) = Invalidated(buf)
         /\ dmabuf_sync(buf, DMA_BUF_SYNC_END) = {Clean(buf)}
BY SMT DEF dmabuf_sync, EndBit, DMA_BUF_SYNC_START, DMA_BUF_SYNC_END

(* Every operation on a buffer leaves a buffer. *)
LEMMA BufferTypes ==
  ASSUME NEW Contents, NEW buf \in Buffers(Contents), NEW c \in Contents
  PROVE  /\ CpuRead(buf) \in Contents
         /\ CpuWrite(buf, c) \in Buffers(Contents)
         /\ RemoteWrite(buf, c) \in Buffers(Contents)
         /\ Clean(buf) \in Buffers(Contents)
         /\ Invalidated(buf) \subseteq Buffers(Contents)
         /\ CacheMoves(buf) \subseteq Buffers(Contents)
<1> USE DEF Buffers
<1>1. Clean(buf) \in Buffers(Contents)
  BY DEF Clean
<1>2. ASSUME NEW d \in Contents PROVE Absent(d) \in Buffers(Contents)
  BY DEF Absent
<1>3. Invalidated(buf) \subseteq Buffers(Contents)
  BY <1>2 DEF Invalidated
<1>4. CacheMoves(buf) \subseteq Buffers(Contents)
  BY <1>1, <1>2 DEF CacheMoves, Evict, Prefetch
<1>5. RemoteWrite(buf, c) \in Buffers(Contents)
  BY <1>2 DEF RemoteWrite
<1> QED
  BY <1>1, <1>3, <1>4, <1>5 DEF CpuRead, CpuWrite

(* What the cache does of its own accord moves no contents. *)
LEMMA CacheKeeps ==
  ASSUME NEW Contents, NEW buf \in Buffers(Contents), NEW c,
         NEW after \in CacheMoves(buf)
  PROVE  /\ Fresh(buf, c) => Fresh(after, c)
         /\ InMemory(buf, c) => InMemory(after, c)
         /\ Shared(buf, c) => Shared(after, c)
BY DEF Buffers, CacheMoves, Evict, Prefetch, Clean, Absent, Fresh, InMemory, Shared

(* How contents travel. *)
LEMMA ContentsTravel ==
  ASSUME NEW Contents, NEW buf \in Buffers(Contents), NEW c
  PROVE  /\ Fresh(CpuWrite(buf, c), c)
         /\ Fresh(buf, c) => Shared(Clean(buf), c) /\ CpuRead(buf) = c
         /\ buf.state # "dirty" => InMemory(RemoteWrite(buf, c), c)
         /\ \A after \in Invalidated(buf) :
              /\ InMemory(buf, c) => Shared(after, c)
              /\ Fresh(buf, c) /\ OnInvalidate = {"cleaned"} => Shared(after, c)
         /\ Shared(buf, c) => Fresh(buf, c) /\ InMemory(buf, c)
BY DEF Buffers, CpuRead, CpuWrite, RemoteWrite, Clean, Invalidated, Absent,
       Fresh, InMemory, Shared

-----------------------------------------------------------------------------
(* The inductive invariant. *)

(* The audio thread is started once; process_on_arm is inside its loop,    *)
(* and each mode keeps to its own path.                                    *)
PathOfMode ==
  /\ start_requested = "START_PLAY" => audio = "none"
  /\ audio = "process" => ch \in Channels /\ current_mode = "ARM"
  /\ audio \in {"send", "recv"} => current_mode = "DSP"

(* Every frame read before the one in work has been played. *)
FramesPlayed ==
  frames = Len(played) + (IF audio \in InWork THEN 1 ELSE 0)

(* What is to be played of the frame in work. *)
Done(block) ==
  /\ block.frame = frames
  /\ IF answered
       THEN \A c \in Channels : block.filtered[c] # "raw"
       ELSE block = Raw(frames)

(* Between the request and the reply. *)
FrameAway ==
  \/ requests = 1 /\ Shared(data, Raw(frames))
  \/ dsp.at = "busy" /\ dsp.block = Raw(frames) /\ Shared(data, Raw(frames))
  \/ dsp.at = "done" /\ dsp.block = Raw(frames) /\ InMemory(data, data.mem) /\ Done(data.mem)
  \/ replies = 1 /\ InMemory(data, data.mem) /\ Done(data.mem)

(* START writes a dirty line back, or finds none. *)
NothingDropped == current_mode = "DSP" \/ OnInvalidate = {"cleaned"}

(* Where the frame in work is. *)
FrameInWork ==
  /\ audio = "filled" => Fresh(data, Raw(frames))
  /\ audio = "process" =>
       /\ Fresh(data, data.line)
       /\ data.line.frame = frames
       /\ \A c \in Channels : c < ch => data.line.filtered[c] # "raw"
  /\ audio = "send" => Shared(data, Raw(frames))
  /\ audio = "recv" => FrameAway
  /\ audio = "retake" =>
       IF current_mode = "DSP"
         THEN InMemory(data, data.mem) /\ Done(data.mem)
         ELSE Fresh(data, data.line) /\ Done(data.line)
  /\ audio \in {"retake_options", "play"} /\ NothingDropped =>
       Shared(data, data.mem) /\ Done(data.mem)

(* main takes the buffers down when the audio thread is over, and a frame  *)
(* is not given up before it is sent.                                      *)
Conduct ==
  /\ start_requested = "EXIT_PLAY" => audio = "exit"
  /\ main \in {"destroy_data", "destroy_options", "revert", "done"} =>
       audio \in {"none", "exit"}
  /\ audio \in {"read", "filled", "process", "send", "recv"} => answered

PipelineInv ==
  /\ TypeOK
  /\ PathOfMode
  /\ Conduct
  /\ RepliesOwed
  /\ FramesPlayed
  /\ recvFailures = 0 => FrameInWork
  /\ NothingDropped => PlayedInOrder

-----------------------------------------------------------------------------
(* Types. *)

LEMMA BlockTypes ==
  /\ \A n \in 0 .. FileFrames : Raw(n) \in Blocks
  /\ \A block \in Blocks, on \in BOOLEAN : Filtered(block, on) \in Blocks
  /\ \A block \in Blocks, c \in Channels, on \in BOOLEAN :
       [block EXCEPT !.filtered[c] = Mark(on)] \in Blocks
BY DEF Raw, Blocks, Filtered, Mark, Marks

(* Nothing changes the mode. *)
LEMMA NextKeepsMode == [Next]_vars => UNCHANGED current_mode
<1> SUFFICES ASSUME [Next]_vars PROVE UNCHANGED current_mode
  OBVIOUS
<1>1. CASE MainStep
  BY <1>1 DEF MainStep, InitRpmsg, InitBuffers, InitHostInterface, MainSync, MainStore,
     MainStoreUnmapped, MainStoreArm, MainStart, MainLeave, DestroyData, DestroyOptions,
     Revert, Advance, setup
<1>2. CASE Command \/ CmdStep
  BY <1>2 DEF Command, ReceiveCommand, EnableFilter, CmdStep, CmdSyncStart, CmdStore,
     CmdStoreUnmapped, CmdSyncEnd, CmdEnd, CmdStoreArm, setup
<1>3. CASE AudioStep
  BY <1>3 DEF AudioStep, OpenAudio, BeginFrame, ReadFrame, ReadUpTo, ReadUnmapped, Exit,
     HandOverFrame, HandOver, ProcessChannel, ProcessUpTo, SendRequest, Send, RecvReply,
     RecvFails, RetakeData, Retake, RetakeOptions, PlayFrame, ReleaseOptions,
     ReleaseData, setup
<1>4. CASE DspStep \/ CacheStep \/ UNCHANGED vars
  BY <1>4 DEF DspStep, DspTake, DspWrite, DspReply, CacheStep, vars, setup
<1> QED
  BY <1>1, <1>2, <1>3, <1>4 DEF Next

LEMMA InitPipelineInv == Init => PipelineInv
<1> SUFFICES ASSUME Init PROVE PipelineInv
  OBVIOUS
<1> USE DEF Init
<1>1. TypeOK
  <2>1. Raw(0) \in Blocks
    BY BlockTypes
  <2>2. data \in Buffers(Blocks) /\ options \in Buffers(Params)
    BY <2>1 DEF Buffers, Absent, Params
  <2>3. played \in Seq([block : Blocks, dsp_load : 0 .. FileFrames, quiet : BOOLEAN,
                        answered : BOOLEAN, setting : BOOLEAN, behind : Nat])
    OBVIOUS
  <2>4. dsp \in [at : {"idle", "busy", "done"}, block : Blocks, filter : BOOLEAN]
    BY <2>1, Zenon
  <2>5. /\ filter_enabled \in BOOLEAN /\ state \in BOOLEAN /\ setting \in BOOLEAN
        /\ quiet \in BOOLEAN /\ answered \in BOOLEAN
    BY Zenon
  <2> QED
    BY <2>2, <2>3, <2>4, <2>5 DEF TypeOK, Threads
<1>2. /\ PathOfMode /\ Conduct /\ RepliesOwed /\ FramesPlayed /\ FrameInWork
      /\ PlayedInOrder
  BY DEF PathOfMode, Conduct, RepliesOwed, FramesPlayed, InWork, FrameInWork, PlayedInOrder
<1> QED
  BY <1>1, <1>2 DEF PipelineInv

(* The steps that touch neither buffer keep the types. *)
LEMMA ControlStepsKeepType ==
  ASSUME TypeOK,
         \/ InitRpmsg \/ InitBuffers \/ InitHostInterface
         \/ MainStoreUnmapped \/ MainStoreArm \/ MainStart \/ MainLeave
         \/ DestroyData \/ DestroyOptions \/ Revert
         \/ ReceiveCommand \/ CmdStoreUnmapped \/ CmdStoreArm
         \/ OpenAudio \/ ReadUnmapped \/ SendRequest \/ RecvReply \/ RecvFails
         \/ DspReply
  PROVE  TypeOK'
<1>0. Raw(0) \in Blocks
  BY BlockTypes
<1> USE DEF TypeOK, Threads, setup, buffers
<1>1. CASE InitRpmsg
  BY <1>1 DEF InitRpmsg, filter, command, faults, endpoint, history
<1>12. CASE InitHostInterface
  BY <1>12 DEF InitHostInterface, filter, faults, endpoint, history
<1>14. CASE InitBuffers
  BY <1>14 DEF InitBuffers, filter, command, faults, endpoint, history
<1>15. CASE MainStoreUnmapped
  BY <1>15 DEF MainStoreUnmapped, filter, command, faults, endpoint, history
<1>16. CASE ReadUnmapped
  BY <1>16 DEF ReadUnmapped, Exit, filter, control, command, faults, endpoint, history
<1>2. CASE MainStoreArm
  BY <1>2 DEF MainStoreArm, command, faults, endpoint, history
<1>3. CASE MainStart
  BY <1>3 DEF MainStart, filter, command, faults, endpoint, history
<1>4. CASE MainLeave \/ DestroyData \/ DestroyOptions \/ Revert
  <2>1. PICK from, to \in {"poll", "destroy_data", "destroy_options", "revert", "done"} :
          Advance(from, to)
    BY <1>4 DEF MainLeave, DestroyData, DestroyOptions, Revert
  <2> QED
    BY <2>1 DEF Advance, filter, command, faults, endpoint, history
<1>5. CASE ReceiveCommand
  <2>1. quiet' \in BOOLEAN
    BY <1>5, Zenon DEF ReceiveCommand, EnableFilter
  <2> QED
    BY <1>5, <2>1 DEF ReceiveCommand, EnableFilter, filter, control, faults, endpoint
<1>6. CASE CmdStoreArm
  BY <1>6 DEF CmdStoreArm, control, faults, endpoint, history
<1>13. CASE CmdStoreUnmapped
  BY <1>13 DEF CmdStoreUnmapped, filter, control, faults, endpoint, history
<1>7. CASE OpenAudio
  BY <1>7 DEF OpenAudio, Exit, filter, control, command, faults, endpoint, history
<1>8. CASE SendRequest
  <2>1. answered' \in BOOLEAN
    BY <1>8, Zenon DEF SendRequest, Send
  <2>2. sendFailures' \in Nat
    BY <1>8 DEF SendRequest, Send
  <2> QED
    BY <1>8, <2>1, <2>2 DEF SendRequest, Send, filter, control, command
<1>9. CASE RecvReply
  BY <1>9 DEF RecvReply, filter, control, command, faults, history
<1>10. CASE RecvFails
  <2>1. answered' \in BOOLEAN
    BY <1>10, Zenon DEF RecvFails
  <2> QED
    BY <1>10, <2>1 DEF RecvFails, filter, control, command, endpoint
<1>11. CASE DspReply
  <2>1. dsp' = [at |-> "idle", block |-> Raw(0), filter |-> FALSE]
    BY <1>11 DEF DspReply
  <2>2. FALSE \in BOOLEAN
    BY Zenon
  <2>3. dsp' \in [at : {"idle", "busy", "done"}, block : Blocks, filter : BOOLEAN]
    BY <1>0, <2>1, <2>2, Zenon
  <2> QED
    BY <1>11, <2>3 DEF DspReply, filter, control, command, faults, history
<1> QED
  BY <1>1, <1>2, <1>3, <1>4, <1>5, <1>6, <1>7, <1>8, <1>9, <1>10, <1>11, <1>12, <1>13,
     <1>14, <1>15, <1>16

(* dmabuf_sync leaves a buffer of the same type. *)
LEMMA SyncTypes ==
  ASSUME NEW Contents, NEW buf \in Buffers(Contents), NEW c \in Contents
  PROVE  /\ dmabuf_sync(buf, DMA_BUF_SYNC_START) \subseteq Buffers(Contents)
         /\ dmabuf_sync(buf, DMA_BUF_SYNC_END) \subseteq Buffers(Contents)
BY SyncArguments, BufferTypes

(* The steps that touch the options buffer alone. *)
LEMMA OptionsStepsKeepType ==
  ASSUME TypeOK,
         \/ MainSync \/ MainStore \/ CmdSyncStart \/ CmdStore \/ CmdSyncEnd
         \/ RetakeOptions \/ ReleaseOptions
  PROVE  TypeOK'
<1>0. [dsp_load |-> 0, filter_enabled |-> FALSE] \in Params
  BY DEF Params
<1>1. options \in Buffers(Params)
  BY DEF TypeOK
<1>2. /\ SyncedOptions(DMA_BUF_SYNC_START) \subseteq Buffers(Params)
      /\ SyncedOptions(DMA_BUF_SYNC_END) \subseteq Buffers(Params)
  <2>1. /\ dmabuf_sync(options, DMA_BUF_SYNC_START) \subseteq Buffers(Params)
        /\ dmabuf_sync(options, DMA_BUF_SYNC_END) \subseteq Buffers(Params)
    BY <1>0, <1>1, SyncTypes
  <2> QED
    BY <1>1, <2>1 DEF SyncedOptions
<1>3. ASSUME NEW on \in BOOLEAN, StoreFilter(on)
      PROVE  options' \in Buffers(Params) /\ setting' \in BOOLEAN
  <2>1. CpuRead(options) \in Params
    BY <1>0, <1>1, BufferTypes
  <2>2. [CpuRead(options) EXCEPT !.filter_enabled = on] \in Params
    BY <2>1 DEF Params
  <2> QED
    BY <1>1, <1>3, <2>2, BufferTypes DEF StoreFilter
<1> USE DEF TypeOK, Threads, setup
<1>4. CASE MainSync
  <2>1. options' \in Buffers(Params)
    BY <1>2, <1>4 DEF MainSync, SyncOptions
  <2> QED
    BY <1>4, <2>1 DEF MainSync, filter, command, faults, endpoint, history
<1>5. CASE MainStore
  BY <1>3, <1>5 DEF MainStore, command, faults, endpoint, history
<1>6. CASE CmdSyncStart
  <2>1. options' \in Buffers(Params)
    BY <1>2, <1>6 DEF CmdSyncStart, SyncOptions
  <2> QED
    BY <1>6, <2>1 DEF CmdSyncStart, filter, control, faults, endpoint, history
<1>7. CASE CmdStore
  BY <1>3, <1>7 DEF CmdStore, control, faults, endpoint, history
<1>8. CASE CmdSyncEnd
  <2>1. options' \in Buffers(Params)
    BY <1>2, <1>8 DEF CmdSyncEnd, CmdEnd
  <2> QED
    BY <1>8, <2>1 DEF CmdSyncEnd, CmdEnd, filter, control, faults, endpoint, history
<1>9. CASE RetakeOptions
  <2>1. options' \in Buffers(Params)
    BY <1>2, <1>9 DEF RetakeOptions, SyncOptions
  <2> QED
    BY <1>9, <2>1 DEF RetakeOptions, filter, control, command, faults, endpoint, history
<1>10. CASE ReleaseOptions
  <2>1. options' \in Buffers(Params)
    BY <1>2, <1>10 DEF ReleaseOptions, SyncOptions
  <2> QED
    BY <1>10, <2>1 DEF ReleaseOptions, filter, control, command, faults, endpoint, history
<1> QED
  BY <1>4, <1>5, <1>6, <1>7, <1>8, <1>9, <1>10

(* The steps that touch the data buffer, or play what is in it. *)
LEMMA DataStepsKeepType ==
  ASSUME TypeOK, PathOfMode,
         \/ BeginFrame \/ ReadFrame \/ HandOverFrame \/ ProcessChannel
         \/ RetakeData \/ PlayFrame \/ ReleaseData
         \/ DspTake \/ DspWrite \/ CacheStep
  PROVE  TypeOK'
<1>0. Raw(0) \in Blocks /\ [dsp_load |-> 0, filter_enabled |-> FALSE] \in Params
  <2>1. [dsp_load |-> 0, filter_enabled |-> FALSE] \in Params
    BY DEF Params
  <2>2. Raw(0) \in Blocks
    BY BlockTypes
  <2> QED
    BY <2>1, <2>2
<1>01. data \in Buffers(Blocks) /\ options \in Buffers(Params)
  BY DEF TypeOK
<1> USE DEF TypeOK, Threads, setup
<1>1. CASE BeginFrame \/ RetakeData \/ ReleaseData \/ HandOverFrame
  <2>1. data' \in Buffers(Blocks)
    BY <1>0, <1>1, SyncTypes DEF BeginFrame, RetakeData, Retake, ReleaseData, SyncData,
       HandOverFrame, HandOver
  <2>2. CASE BeginFrame
    <3>1. quiet' \in BOOLEAN /\ answered' \in BOOLEAN
      BY <2>2, Zenon DEF BeginFrame
    <3> QED
      BY <2>1, <2>2, <3>1 DEF BeginFrame, filter, control, command, faults, endpoint
  <2>3. CASE RetakeData
    BY <2>1, <2>3 DEF RetakeData, Retake, filter, control, command, faults, endpoint, history
  <2>4. CASE ReleaseData
    BY <2>1, <2>4 DEF ReleaseData, filter, control, command, faults, endpoint, history
  <2>5. CASE HandOverFrame
    BY <2>1, <2>5 DEF HandOverFrame, HandOver, filter, control, command, faults, endpoint,
       history
  <2> QED
    BY <1>1, <2>2, <2>3, <2>4, <2>5
<1>2. CASE ReadFrame
  <2>1. CASE frames < FileFrames /\ data' = CpuWrite(data, Raw(frames + 1))
    <3>1. frames + 1 \in 0 .. FileFrames
      BY <2>1
    <3>2. data' \in Buffers(Blocks)
      BY <2>1, <3>1, BlockTypes, BufferTypes
    <3>3. UNCHANGED control /\ frames' \in {frames, frames + 1} /\ audio' \in {"filled", "exit"}
      BY <1>2, <2>1 DEF ReadFrame, ReadUpTo
    <3> QED
      BY <1>2, <3>1, <3>2, <3>3 DEF ReadFrame, ReadUpTo, filter, control, command, faults,
         endpoint, history
  <2>2. CASE Exit /\ UNCHANGED <<frames, data>>
    BY <1>2, <2>2 DEF ReadFrame, ReadUpTo, Exit, filter, command, faults, endpoint, history
  <2> QED
    BY <1>2, <2>1, <2>2 DEF ReadFrame, ReadUpTo
<1>3. CASE ProcessChannel
  <2>1. ch \in Channels
    BY <1>3 DEF ProcessChannel, ProcessUpTo, PathOfMode
  <2>2. data' \in Buffers(Blocks)
    BY <1>0, <1>3, <2>1, BlockTypes, BufferTypes DEF ProcessChannel, ProcessUpTo
  <2>3. ch + 1 \in 0 .. CHANNELS
    BY <2>1 DEF Channels
  <2> QED
    BY <1>3, <2>2, <2>3 DEF ProcessChannel, ProcessUpTo, filter, control, command, faults,
       endpoint, history
<1>4. CASE PlayFrame
  <2> DEFINE Records == [block : Blocks, dsp_load : 0 .. FileFrames, quiet : BOOLEAN,
                         answered : BOOLEAN, setting : BOOLEAN, behind : Nat]
  <2> DEFINE load == IF current_mode = "DSP" THEN CpuRead(options).dsp_load ELSE 0
             entry == [block |-> CpuRead(data), dsp_load |-> load, quiet |-> quiet,
                       answered |-> answered, setting |-> setting,
                       behind |-> recvFailures]
  <2>1. CpuRead(data) \in Blocks /\ CpuRead(options) \in Params
    BY <1>0, BufferTypes
  <2>2. load \in 0 .. FileFrames
    BY <2>1 DEF Params
  <2>3. entry \in Records
    <3> HIDE DEF load
    <3> QED
      BY <2>1, <2>2, Zenon
  <2>4. played' = Append(played, entry)
    BY <1>4 DEF PlayFrame
  <2>5. played' \in Seq(Records)
    <3> HIDE DEF entry, Records
    <3>1. played \in Seq(Records)
      BY DEF Records
    <3> QED
      BY <2>3, <2>4, <3>1
  <2> QED
    BY <1>4, <2>5 DEF PlayFrame, buffers, filter, control, command, faults, endpoint
<1>5. CASE DspTake
  <2>1. data.mem \in Blocks /\ options.mem.filter_enabled \in BOOLEAN
    BY DEF Buffers, Params
  <2>2. dsp' \in [at : {"idle", "busy", "done"}, block : Blocks, filter : BOOLEAN]
    BY <1>5, <2>1 DEF DspTake
  <2> QED
    BY <1>5, <2>2 DEF DspTake, buffers, filter, control, command, faults, history
<1>6. CASE DspWrite
  <2>1. data' \in Buffers(Blocks)
    BY <1>6, BlockTypes, BufferTypes DEF DspWrite
  <2>2. [options.mem EXCEPT !.dsp_load = dsp.block.frame] \in Params
    BY DEF Buffers, Params, Blocks
  <2>3. options' \in Buffers(Params)
    BY <1>6, <2>2, BufferTypes DEF DspWrite
  <2>4. dsp' \in [at : {"idle", "busy", "done"}, block : Blocks, filter : BOOLEAN]
    BY <1>6 DEF DspWrite
  <2> QED
    BY <1>6, <2>1, <2>3, <2>4 DEF DspWrite, filter, control, command, faults, endpoint, history
<1>7. CASE CacheStep
  <2>1. data' \in Buffers(Blocks) /\ options' \in Buffers(Params)
    <3>1. CacheMoves(data) \subseteq Buffers(Blocks)
      BY <1>0, BlockTypes, BufferTypes
    <3>2. CacheMoves(options) \subseteq Buffers(Params)
      <4>1. options.mem \in Params
        BY <1>0 DEF Buffers
      <4> QED
        BY <1>0, <4>1, BufferTypes
    <3> QED
      BY <1>0, <1>7, <3>1, <3>2 DEF CacheStep
  <2> QED
    BY <1>7, <2>1 DEF CacheStep, filter, control, command, faults, endpoint, history
<1> QED
  BY <1>1, <1>2, <1>3, <1>4, <1>5, <1>6, <1>7

LEMMA NextKeepsType == TypeOK /\ PathOfMode /\ [Next]_vars => TypeOK'
<1>1. TypeOK /\ UNCHANGED vars => TypeOK'
  BY DEF vars, TypeOK, Threads, setup, buffers, filter, control, command, faults, endpoint, history
<1> QED
  BY <1>1, ControlStepsKeepType, OptionsStepsKeepType, DataStepsKeepType
     DEF Next, MainStep, Command, CmdStep, AudioStep, DspStep

-----------------------------------------------------------------------------
(* RepliesOwed, PathOfMode and FramesPlayed: what a step counts. *)

LEMMA NextKeepsCounts ==
  TypeOK /\ PathOfMode /\ RepliesOwed /\ FramesPlayed /\ [Next]_vars =>
    PathOfMode' /\ RepliesOwed' /\ FramesPlayed'
<1> SUFFICES ASSUME TypeOK, PathOfMode, RepliesOwed, FramesPlayed, [Next]_vars
             PROVE  PathOfMode' /\ RepliesOwed' /\ FramesPlayed'
  OBVIOUS
<1>m. UNCHANGED current_mode /\ current_mode \in {"ARM", "DSP"}
  BY NextKeepsMode DEF TypeOK
<1>0. /\ requests \in Nat /\ replies \in Nat /\ recvFailures \in Nat
      /\ ch \in 0 .. CHANNELS /\ frames \in Nat /\ Len(played) \in Nat
      /\ dsp \in [at : {"idle", "busy", "done"}, block : Blocks, filter : BOOLEAN]
  BY DEF TypeOK
<1> USE <1>m, <1>0 DEF PathOfMode, RepliesOwed, FramesPlayed, InWork, Channels, control
<1>1. CASE UNCHANGED <<start_requested, audio, ch, frames, endpoint, dsp, recvFailures, played>>
  BY <1>1 DEF endpoint
<1>2. CASE RetakeData \/ RetakeOptions
  BY <1>2 DEF RetakeData, Retake, RetakeOptions, endpoint, faults, history
<1>12. CASE BeginFrame
  BY <1>12 DEF BeginFrame, endpoint, faults
<1>13. CASE HandOverFrame
  BY <1>13 DEF HandOverFrame, HandOver, endpoint, faults, history
<1>14. CASE ReleaseOptions \/ ReleaseData
  BY <1>14 DEF ReleaseOptions, ReleaseData, endpoint, faults, history
<1>3. CASE MainStart
  BY <1>3 DEF MainStart, endpoint, faults, history
<1>15. CASE OpenAudio
  BY <1>15 DEF OpenAudio, Exit, endpoint, faults, history
<1>4. CASE ReadFrame
  BY <1>4 DEF ReadFrame, ReadUpTo, Exit, endpoint, faults, history
<1>17. CASE ReadUnmapped
  BY <1>17 DEF ReadUnmapped, Exit, endpoint, faults, history
<1>5. CASE ProcessChannel
  <2>1. /\ UNCHANGED <<start_requested, frames, endpoint, dsp, recvFailures, played>>
        /\ audio = "process" /\ ch' = ch + 1
        /\ audio' = IF ch = CHANNELS - 1 THEN "retake" ELSE "process"
    BY <1>5 DEF ProcessChannel, ProcessUpTo, faults, history
  <2>2. audio' = "process" => ch' \in Channels
    BY <2>1
  <2> QED
    BY <2>1, <2>2 DEF endpoint
<1>6. CASE SendRequest
  BY <1>6 DEF SendRequest, Send
<1>7. CASE RecvReply
  BY <1>7 DEF RecvReply, faults, history
<1>16. CASE RecvFails
  BY <1>16 DEF RecvFails, endpoint
<1>8. CASE PlayFrame
  <2>1. Len(played') = Len(played) + 1
    BY <1>8 DEF PlayFrame, TypeOK
  <2> QED
    BY <1>8, <2>1 DEF PlayFrame, endpoint, faults
<1>9. CASE DspTake \/ DspWrite \/ DspReply
  <2>1. UNCHANGED <<start_requested, audio, ch, frames, recvFailures, played>>
    BY <1>9 DEF DspTake, DspWrite, DspReply, faults, history
  <2>2. CASE DspTake
    BY <2>1, <2>2 DEF DspTake
  <2>3. CASE DspWrite
    BY <2>1, <2>3 DEF DspWrite, endpoint
  <2>4. CASE DspReply
    BY <2>1, <2>4 DEF DspReply
  <2> QED
    BY <1>9, <2>2, <2>3, <2>4
<1>10. CASE MainStep /\ ~MainStart
  <2>1. UNCHANGED <<start_requested, audio, ch, frames, endpoint, dsp, recvFailures, played>>
    BY <1>10 DEF MainStep, InitRpmsg, InitBuffers, InitHostInterface, MainSync,
       MainStore, MainStoreUnmapped, MainStoreArm, MainLeave, DestroyData,
       DestroyOptions, Revert, Advance, faults, history
  <2> QED
    BY <1>1, <2>1
<1>11. CASE Command \/ CmdStep \/ CacheStep \/ UNCHANGED vars
  <2>1. UNCHANGED <<start_requested, audio, ch, frames, endpoint, dsp, recvFailures, played>>
    BY <1>11 DEF Command, ReceiveCommand, EnableFilter, CmdStep, CmdSyncStart, CmdStore,
       CmdStoreUnmapped, CmdSyncEnd, CmdEnd, CmdStoreArm, CacheStep, vars, faults, history
  <2> QED
    BY <1>1, <2>1
<1> QED
  BY <1>2, <1>3, <1>4, <1>5, <1>6, <1>7, <1>8, <1>9, <1>10, <1>11, <1>12, <1>13, <1>14,
     <1>15, <1>16, <1>17 DEF Next, AudioStep, DspStep

(* Conduct: who goes first. *)
LEMMA NextKeepsConduct == TypeOK /\ PathOfMode /\ Conduct /\ [Next]_vars => Conduct'
<1> SUFFICES ASSUME TypeOK, PathOfMode, Conduct, [Next]_vars PROVE Conduct'
  OBVIOUS
<1>0. /\ start_requested = "START_PLAY" => audio = "none"
      /\ start_requested = "EXIT_PLAY" => audio = "exit"
  BY DEF PathOfMode, Conduct
<1> USE DEF Conduct, control
<1>1. CASE UNCHANGED <<start_requested, main, audio, answered>>
  BY <1>1
<1>2. CASE MainStep
  <2>1. CASE InitRpmsg \/ InitBuffers \/ InitHostInterface
    BY <2>1 DEF InitRpmsg, InitBuffers, InitHostInterface, history
  <2>2. CASE MainSync \/ MainStore \/ MainStoreUnmapped \/ MainStoreArm
    BY <2>2 DEF MainSync, MainStore, MainStoreUnmapped, MainStoreArm, history
  <2>3. CASE MainStart
    BY <1>0, <2>3 DEF MainStart, history
  <2>4. CASE MainLeave
    BY <1>0, <2>4 DEF MainLeave, Advance, history
  <2>5. CASE DestroyData \/ DestroyOptions \/ Revert
    BY <2>5 DEF DestroyData, DestroyOptions, Revert, Advance, history
  <2> QED
    BY <1>2, <2>1, <2>2, <2>3, <2>4, <2>5 DEF MainStep
<1>3. CASE Command \/ CmdStep
  BY <1>1, <1>3 DEF Command, ReceiveCommand, EnableFilter, CmdStep, CmdSyncStart, CmdStore,
     CmdStoreUnmapped, CmdSyncEnd, CmdEnd, CmdStoreArm, history
<1>4. CASE DspStep \/ CacheStep \/ UNCHANGED vars
  BY <1>1, <1>4 DEF DspStep, DspTake, DspWrite, DspReply, CacheStep, vars, history
<1>5. CASE AudioStep
  <2>1. CASE OpenAudio
    BY <2>1 DEF OpenAudio, Exit, history
  <2>2. CASE BeginFrame
    BY <2>2 DEF BeginFrame
  <2>3. CASE ReadFrame \/ ReadUnmapped
    BY <2>3 DEF ReadFrame, ReadUpTo, ReadUnmapped, Exit, history
  <2>4. CASE HandOverFrame \/ ProcessChannel
    BY <2>4 DEF HandOverFrame, HandOver, ProcessChannel, ProcessUpTo, history
  <2>5. CASE SendRequest
    BY <2>5 DEF SendRequest, Send
  <2>6. CASE RecvReply \/ RecvFails
    BY <2>6 DEF RecvReply, RecvFails, history
  <2>7. CASE RetakeData \/ RetakeOptions \/ PlayFrame
    BY <2>7 DEF RetakeData, Retake, RetakeOptions, PlayFrame, history
  <2>8. CASE ReleaseOptions \/ ReleaseData
    BY <2>8 DEF ReleaseOptions, ReleaseData, history
  <2> QED
    BY <1>5, <2>1, <2>2, <2>3, <2>4, <2>5, <2>6, <2>7, <2>8 DEF AudioStep
<1> QED
  BY <1>2, <1>3, <1>4, <1>5 DEF Next

-----------------------------------------------------------------------------
(* FrameInWork, one lemma for each leg of the frame's way. *)

(* Reading it in, and handing it over. *)
LEMMA ReadingKeepsFrame ==
  ASSUME PipelineInv, UNCHANGED current_mode, recvFailures = 0, BeginFrame \/ ReadFrame \/ HandOverFrame
  PROVE  FrameInWork'
<1> USE DEF FrameInWork
<1>0. /\ data \in Buffers(Blocks) /\ FrameInWork
      /\ audio \in {"read", "filled"} => answered
  BY DEF PipelineInv, TypeOK, Conduct
<1>1. CASE BeginFrame
  BY <1>1 DEF BeginFrame
<1>2. CASE ReadFrame
  <2>1. answered /\ UNCHANGED answered
    BY <1>0, <1>2 DEF ReadFrame, ReadUpTo, history
  <2>2. CASE audio' = "exit"
    BY <2>2
  <2>3. CASE /\ audio' = "filled"
             /\ frames' = frames + 1
             /\ data' = CpuWrite(data, Raw(frames + 1))
    <3>1. Fresh(data', Raw(frames'))
      BY <1>0, <2>3, ContentsTravel
    <3> QED
      BY <2>1, <2>3, <3>1 DEF Fresh
  <2> QED
    BY <1>2, <2>2, <2>3 DEF ReadFrame, ReadUpTo, Exit
<1>3. CASE HandOverFrame
  <2>1. answered /\ UNCHANGED <<answered, frames>>
    BY <1>0, <1>3 DEF HandOverFrame, HandOver, history
  <2>2. data' = Clean(data)
    BY <1>3, SyncArguments DEF HandOverFrame, HandOver
  <2>3. Fresh(data, Raw(frames))
    BY <1>0, <1>3 DEF HandOverFrame, HandOver
  <2>4. Shared(data', Raw(frames))
    BY <1>0, <2>2, <2>3, ContentsTravel
  <2>5. CASE current_mode = "DSP"
    BY <1>3, <2>1, <2>4, <2>5 DEF HandOverFrame, HandOver
  <2>6. CASE current_mode = "ARM"
    <3>1. audio' = "process" /\ ch' = 0
      BY <1>3, <2>6 DEF HandOverFrame, HandOver
    <3>2. Fresh(data', data'.line) /\ data'.line.frame = frames
      BY <2>4 DEF Shared, Fresh, Raw
    <3>3. \A c \in Channels : ~(c < 0)
      BY DEF Channels
    <3> QED
      BY <2>1, <3>1, <3>2, <3>3
  <2> QED
    BY <2>5, <2>6 DEF PipelineInv, TypeOK
<1> QED
  BY <1>1, <1>2, <1>3

(* On the ARM core: after the last channel none is as it was read. *)
LEMMA ProcessingKeepsFrame ==
  ASSUME PipelineInv, UNCHANGED current_mode, recvFailures = 0, ProcessChannel
  PROVE  FrameInWork'
<1> DEFINE after == [data.line EXCEPT !.filtered[ch] = Mark(filter_enabled)]
<1>1. /\ data \in Buffers(Blocks) /\ ch \in Channels
      /\ audio = "process" /\ current_mode = "ARM" /\ answered
      /\ Fresh(data, data.line) /\ data.line.frame = frames
      /\ \A c \in Channels : c < ch => data.line.filtered[c] # "raw"
  BY DEF PipelineInv, TypeOK, PathOfMode, Conduct, FrameInWork, ProcessChannel, ProcessUpTo
<1>2. UNCHANGED <<answered, frames>> /\ ch' = ch + 1
  BY DEF ProcessChannel, ProcessUpTo, history
<1>3. CpuRead(data) = data.line
  BY <1>1, ContentsTravel
<1>4. data' = CpuWrite(data, after)
  BY <1>3 DEF ProcessChannel, ProcessUpTo
<1>5. Fresh(data', after)
  BY <1>1, <1>4, ContentsTravel
<1>6. data'.line = after /\ Fresh(data', data'.line)
  BY <1>5 DEF Fresh
<1>7. after.frame = frames /\ after.filtered[ch] # "raw"
      /\ \A c \in Channels : c < ch => after.filtered[c] # "raw"
  <2>1. data.line \in Blocks
    BY <1>1 DEF Buffers
  <2> QED
    BY <1>1, <2>1 DEF Blocks, Mark
<1>8. \A c \in Channels : c < ch + 1 => after.filtered[c] # "raw"
  <2>1. \A c \in Channels : c < ch + 1 => c < ch \/ c = ch
    BY <1>1 DEF Channels
  <2> QED
    BY <1>7, <2>1
<1> HIDE DEF after
<1>9. CASE ch = CHANNELS - 1
  <2>1. audio' = "retake"
    BY <1>9 DEF ProcessChannel, ProcessUpTo
  <2>2. \A c \in Channels : c < ch + 1
    BY <1>9 DEF Channels
  <2>3. Done(data.line)'
    BY <1>1, <1>2, <1>6, <1>7, <1>8, <2>2 DEF Done
  <2> QED
    BY <1>1, <1>6, <2>1, <2>3 DEF FrameInWork
<1>10. CASE ch # CHANNELS - 1
  <2>1. audio' = "process"
    BY <1>10 DEF ProcessChannel, ProcessUpTo
  <2> QED
    BY <1>1, <1>2, <1>6, <1>7, <1>8, <2>1 DEF FrameInWork
<1> QED
  BY <1>9, <1>10

(* To the DSP and back; a failed receive makes the claim void. *)
LEMMA SendingKeepsFrame ==
  ASSUME PipelineInv, UNCHANGED current_mode, recvFailures = 0, recvFailures' = 0,
         SendRequest \/ RecvReply \/ RecvFails
  PROVE  FrameInWork'
<1>0. /\ data \in Buffers(Blocks) /\ FrameInWork
      /\ current_mode = "DSP" /\ answered
      /\ requests \in Nat /\ replies \in Nat
      /\ requests + (IF dsp.at = "idle" THEN 0 ELSE 1) + replies
           = (IF audio = "recv" THEN 1 ELSE 0)
  BY DEF PipelineInv, TypeOK, PathOfMode, Conduct, RepliesOwed, FrameInWork, SendRequest,
         Send, RecvReply, RecvFails
<1>1. CASE SendRequest
  <2>1. UNCHANGED <<data, frames>> /\ audio = "send"
    BY <1>1 DEF SendRequest, Send, buffers
  <2>2. Shared(data', Raw(frames')) /\ InMemory(data', Raw(frames'))
    BY <1>0, <2>1, ContentsTravel DEF FrameInWork
  <2>3. CASE audio' = "recv" /\ requests' = requests + 1 /\ UNCHANGED answered
    <3>1. requests' = 1
      BY <1>0, <2>1, <2>3
    <3>2. FrameAway'
      BY <2>2, <3>1 DEF FrameAway
    <3> QED
      BY <1>0, <2>3, <3>2 DEF FrameInWork
  <2>4. CASE audio' = "retake" /\ answered' = FALSE
    <3>1. data'.mem = Raw(frames')
      BY <2>2 DEF Shared
    <3>2. Done(data.mem)'
      BY <2>4, <3>1 DEF Done, Raw
    <3> QED
      BY <1>0, <2>2, <2>4, <3>1, <3>2 DEF FrameInWork
  <2> QED
    BY <1>1, <2>3, <2>4 DEF SendRequest, Send
<1>2. CASE RecvReply
  <2>1. /\ UNCHANGED <<data, frames, answered>> /\ audio = "recv" /\ replies > 0
        /\ audio' = "retake"
    BY <1>2 DEF RecvReply, buffers, history
  <2>2. requests = 0 /\ dsp.at = "idle"
    BY <1>0, <2>1
  <2>3. FrameAway
    BY <1>0, <2>1 DEF FrameInWork
  <2>4. InMemory(data, data.mem) /\ Done(data.mem)
    BY <2>2, <2>3 DEF FrameAway
  <2> QED
    BY <1>0, <2>1, <2>4 DEF FrameInWork, Done
<1>3. CASE RecvFails
  BY <1>3 DEF RecvFails
<1> QED
  BY <1>1, <1>2, <1>3

(* While the DSP has it: it can only be the one that was sent. *)
LEMMA DspKeepsFrame ==
  ASSUME PipelineInv, UNCHANGED current_mode, recvFailures = 0, DspStep
  PROVE  FrameInWork'
<1>0. /\ data \in Buffers(Blocks) /\ FrameInWork /\ Conduct
      /\ requests \in Nat /\ replies \in Nat /\ frames \in 0 .. FileFrames
      /\ dsp \in [at : {"idle", "busy", "done"}, block : Blocks, filter : BOOLEAN]
      /\ requests + (IF dsp.at = "idle" THEN 0 ELSE 1) + replies
           = (IF audio = "recv" THEN 1 ELSE 0)
  BY DEF PipelineInv, TypeOK, RepliesOwed
<1>1. audio = "recv" /\ UNCHANGED <<audio, frames, answered>>
  <2>1. UNCHANGED <<audio, frames, answered>>
    BY DEF DspStep, DspTake, DspWrite, DspReply, history
  <2>2. requests > 0 \/ dsp.at # "idle"
    BY DEF DspStep, DspTake, DspWrite, DspReply
  <2>3. audio = "recv"
    BY <1>0, <2>2
  <2> QED
    BY <2>1, <2>3
<1>2. FrameAway /\ answered
  BY <1>0, <1>1 DEF FrameInWork, Conduct
<1>3. FrameAway'
  <2>1. CASE DspTake
    <3>1. requests = 1 /\ dsp.at = "idle" /\ replies = 0
      BY <1>0, <1>1, <2>1 DEF DspTake
    <3>2. Shared(data, Raw(frames))
      BY <1>2, <3>1 DEF FrameAway
    <3>3. UNCHANGED data /\ dsp'.at = "busy" /\ dsp'.block = Raw(frames)
      BY <2>1, <3>2 DEF DspTake, Shared, buffers
    <3> QED
      BY <1>1, <3>2, <3>3 DEF FrameAway
  <2>2. CASE DspWrite
    <3> DEFINE after == Filtered(Raw(frames), dsp.filter)
    <3>1. requests = 0 /\ dsp.at = "busy" /\ replies = 0
      BY <1>0, <1>1, <2>2 DEF DspWrite
    <3>2. dsp.block = Raw(frames) /\ Shared(data, Raw(frames))
      BY <1>2, <3>1 DEF FrameAway
    <3>3. data' = RemoteWrite(data, after)
      BY <2>2, <3>2 DEF DspWrite
    <3>4. InMemory(data', after)
      BY <1>0, <3>2, <3>3, ContentsTravel DEF Shared
    <3>5. data'.mem = after /\ InMemory(data', data'.mem)
      BY <3>4 DEF InMemory
    <3>6. after.frame = frames /\ \A c \in Channels : after.filtered[c] # "raw"
      BY DEF Filtered, Raw, Mark
    <3>7. Done(data.mem)'
      BY <1>1, <1>2, <3>5, <3>6 DEF Done
    <3>8. dsp'.at = "done" /\ dsp'.block = Raw(frames)
      BY <1>0, <2>2, <3>2 DEF DspWrite
    <3> QED
      BY <1>1, <3>5, <3>7, <3>8 DEF FrameAway
  <2>3. CASE DspReply
    <3>1. requests = 0 /\ dsp.at = "done" /\ replies = 0
      BY <1>0, <1>1, <2>3 DEF DspReply
    <3>2. InMemory(data, data.mem) /\ Done(data.mem)
      BY <1>2, <3>1 DEF FrameAway
    <3>3. UNCHANGED data /\ replies' = 1
      BY <2>3, <3>1 DEF DspReply, buffers
    <3> QED
      BY <1>1, <3>2, <3>3 DEF FrameAway, Done
  <2> QED
    BY <2>1, <2>2, <2>3 DEF DspStep
<1> QED
  BY <1>1, <1>2, <1>3 DEF FrameInWork

(* Taking it back, and playing it. *)
LEMMA RetakingKeepsFrame ==
  ASSUME PipelineInv, UNCHANGED current_mode, recvFailures = 0,
         \/ RetakeData \/ RetakeOptions \/ PlayFrame
         \/ ReleaseOptions \/ ReleaseData
  PROVE  FrameInWork'
<1>0. data \in Buffers(Blocks) /\ FrameInWork
  BY DEF PipelineInv, TypeOK
<1>1. CASE RetakeData
  <2>1. /\ audio = "retake" /\ audio' = "retake_options"
        /\ data' \in Invalidated(data) /\ UNCHANGED <<frames, answered>>
    BY <1>1, SyncArguments DEF RetakeData, Retake, history
  <2>2. ASSUME NothingDropped
        PROVE  Shared(data', data'.mem) /\ Done(data.mem)'
    <3>1. CASE current_mode = "DSP"
      <4>1. InMemory(data, data.mem) /\ Done(data.mem)
        BY <1>0, <2>1, <3>1 DEF FrameInWork
      <4>2. Shared(data', data.mem)
        BY <1>0, <2>1, <4>1, ContentsTravel
      <4> QED
        BY <2>1, <4>1, <4>2 DEF Shared, Done
    <3>2. CASE current_mode = "ARM" /\ OnInvalidate = {"cleaned"}
      <4>1. Fresh(data, data.line) /\ Done(data.line)
        BY <1>0, <2>1, <3>2 DEF FrameInWork
      <4>2. Shared(data', data.line)
        BY <1>0, <2>1, <3>2, <4>1, ContentsTravel
      <4> QED
        BY <2>1, <4>1, <4>2 DEF Shared, Done
    <3> QED
      BY <2>2, <3>1, <3>2 DEF NothingDropped, PipelineInv, TypeOK
  <2> QED
    BY <2>1, <2>2 DEF FrameInWork, NothingDropped
<1>2. CASE RetakeOptions
  BY <1>0, <1>2 DEF RetakeOptions, history, FrameInWork, Done, NothingDropped
<1>3. CASE PlayFrame \/ ReleaseOptions \/ ReleaseData
  BY <1>3 DEF PlayFrame, ReleaseOptions, ReleaseData, FrameInWork
<1> QED
  BY <1>1, <1>2, <1>3

(* The cache alone changes nothing of this. *)
LEMMA CacheKeepsFrame ==
  ASSUME PipelineInv, UNCHANGED current_mode, recvFailures = 0, data' \in CacheMoves(data),
         UNCHANGED <<audio, ch, frames, endpoint, dsp, answered>>
  PROVE  FrameInWork'
<1>0. data \in Buffers(Blocks) /\ FrameInWork
  BY DEF PipelineInv, TypeOK
<1>1. ASSUME NEW c
      PROVE  /\ Fresh(data, c) => Fresh(data', c)
             /\ InMemory(data, c) => InMemory(data', c)
             /\ Shared(data, c) => Shared(data', c)
  BY <1>0, CacheKeeps
<1>2. Fresh(data, data.line) => Fresh(data', data'.line) /\ (data'.line = data.line)
  <2>1. Fresh(data, data.line) => Fresh(data', data.line)
    BY <1>1
  <2> QED
    BY <2>1 DEF Fresh
<1>3. InMemory(data, data.mem) => InMemory(data', data'.mem) /\ (data'.mem = data.mem)
  <2>1. InMemory(data, data.mem) => InMemory(data', data.mem)
    BY <1>1
  <2> QED
    BY <2>1 DEF InMemory
<1>4. Shared(data, data.mem) => Shared(data', data'.mem) /\ (data'.mem = data.mem)
  <2>1. Shared(data, data.mem) => Shared(data', data.mem)
    BY <1>1
  <2> QED
    BY <2>1 DEF Shared
<1>5. /\ Fresh(data, Raw(frames)) => Fresh(data', Raw(frames'))
      /\ Shared(data, Raw(frames)) => Shared(data', Raw(frames'))
  BY <1>1
<1>6. FrameAway => FrameAway'
  <2>1. InMemory(data, data.mem) /\ Done(data.mem)
          => InMemory(data', data'.mem) /\ Done(data.mem)'
    BY <1>3 DEF Done
  <2> QED
    BY <1>5, <2>1 DEF FrameAway, endpoint
<1>7. CASE audio \in {"filled", "send", "recv"}
  BY <1>0, <1>5, <1>6, <1>7 DEF FrameInWork
<1>8. CASE audio = "process"
  BY <1>0, <1>2, <1>8 DEF FrameInWork
<1>9. CASE audio = "retake"
  BY <1>0, <1>2, <1>3, <1>9 DEF FrameInWork, Done
<1>10. CASE audio \in {"retake_options", "play"}
  BY <1>0, <1>4, <1>10 DEF FrameInWork, NothingDropped, Done
<1> QED
  BY <1>0, <1>7, <1>8, <1>9, <1>10 DEF FrameInWork
(* All steps together: what is not on the frame's way leaves it alone.     *)
LEMMA NextKeepsFrame ==
  ASSUME PipelineInv, [Next]_vars, recvFailures' = 0
  PROVE  recvFailures = 0 /\ FrameInWork'
<1>0. UNCHANGED current_mode
  BY NextKeepsMode
<1>1. CASE BeginFrame \/ ReadFrame \/ HandOverFrame
  <2>1. recvFailures = 0
    BY <1>1 DEF BeginFrame, ReadFrame, ReadUpTo, HandOverFrame, HandOver, faults
  <2> QED
    BY <1>1, <1>0, <2>1, ReadingKeepsFrame
<1>2. CASE ProcessChannel
  <2>1. recvFailures = 0
    BY <1>2 DEF ProcessChannel, ProcessUpTo, faults
  <2> QED
    BY <1>2, <1>0, <2>1, ProcessingKeepsFrame
<1>3. CASE SendRequest \/ RecvReply \/ RecvFails
  <2>1. recvFailures \in Nat
    BY DEF PipelineInv, TypeOK
  <2>2. recvFailures = 0
    BY <1>3, <2>1 DEF SendRequest, Send, RecvReply, RecvFails, faults
  <2> QED
    BY <1>3, <1>0, <2>2, SendingKeepsFrame
<1>4. CASE DspStep
  <2>1. recvFailures = 0
    BY <1>4 DEF DspStep, DspTake, DspWrite, DspReply, faults
  <2> QED
    BY <1>4, <1>0, <2>1, DspKeepsFrame
<1>5. CASE RetakeData \/ RetakeOptions \/ PlayFrame \/ ReleaseOptions \/ ReleaseData
  <2>1. recvFailures = 0
    BY <1>5 DEF RetakeData, Retake, RetakeOptions, PlayFrame, ReleaseOptions, ReleaseData,
       faults
  <2> QED
    BY <1>5, <1>0, <2>1, RetakingKeepsFrame
<1>6. CASE CacheStep /\ data' \in CacheMoves(data)
  <2>1. UNCHANGED <<audio, ch, frames, endpoint, dsp, answered, recvFailures>>
    BY <1>6 DEF CacheStep, faults, history
  <2> QED
    BY <1>6, <1>0, <2>1, CacheKeepsFrame
<1>7. CASE UNCHANGED <<data, audio, ch, frames, endpoint, dsp, answered, recvFailures>>
  <2>1. FrameInWork
    BY <1>7 DEF PipelineInv
  <2> QED
    BY <1>0, <1>7, <2>1 DEF FrameInWork, FrameAway, Done, NothingDropped, endpoint
<1>8. CASE MainStep /\ ~MainStart
  BY <1>7, <1>8 DEF MainStep, InitRpmsg, InitBuffers, InitHostInterface, MainSync,
     MainStore, MainStoreUnmapped, MainStoreArm, MainLeave, DestroyData, DestroyOptions,
     Revert, Advance, StoreFilter, buffers, faults, history
<1>9. CASE Command \/ CmdStep
  BY <1>7, <1>9 DEF Command, ReceiveCommand, EnableFilter, CmdStep, CmdSyncStart, CmdStore,
     CmdStoreUnmapped, CmdSyncEnd, CmdEnd, CmdStoreArm, buffers, faults, history
<1>10. CASE (CacheStep /\ UNCHANGED data) \/ UNCHANGED vars
  BY <1>7, <1>10 DEF CacheStep, vars, buffers, faults, history
<1>11. CASE MainStart \/ OpenAudio \/ ReadUnmapped
  <2>1. CASE audio' \in {"open", "begin", "exit", "crashed"} /\ UNCHANGED recvFailures
    BY <2>1 DEF FrameInWork
  <2> QED
    BY <1>7, <1>11, <2>1 DEF MainStart, OpenAudio, ReadUnmapped, Exit, buffers, faults,
       history
<1> QED
  BY <1>1, <1>2, <1>3, <1>4, <1>5, <1>6, <1>8, <1>9, <1>10, <1>11
     DEF Next, MainStep, AudioStep, CacheStep

-----------------------------------------------------------------------------
(* PlayedInOrder: a frame is appended in its own place, and done. *)

LEMMA PlayFrameKeepsOrder ==
  ASSUME PipelineInv, PlayFrame, NothingDropped
  PROVE  PlayedInOrder'
<1> DEFINE n == Len(played)
<1>0. /\ data \in Buffers(Blocks) /\ PlayedInOrder /\ audio = "play"
      /\ played \in Seq([block : Blocks, dsp_load : 0 .. FileFrames, quiet : BOOLEAN,
                         answered : BOOLEAN, setting : BOOLEAN, behind : Nat])
      /\ n \in Nat
  BY DEF PipelineInv, TypeOK, PlayFrame
<1>1. frames = n + 1
  BY <1>0 DEF PipelineInv, FramesPlayed, InWork
<1>2. PICK entry :
        /\ played' = Append(played, entry)
        /\ entry.block = CpuRead(data) /\ entry.answered = answered
        /\ entry.behind = recvFailures
  BY DEF PlayFrame
<1>3. Len(played') = n + 1 /\ played'[n + 1] = entry
      /\ \A i \in 1 .. n : played'[i] = played[i]
  BY <1>0, <1>2
<1>4. ASSUME recvFailures = 0
      PROVE  Done(entry.block)
  <2>1. Shared(data, data.mem) /\ Done(data.mem)
    BY <1>0, <1>4 DEF PipelineInv, FrameInWork
  <2>2. CpuRead(data) = data.mem
    BY <1>0, <2>1, ContentsTravel
  <2> QED
    BY <1>2, <2>1, <2>2
<1>5. ASSUME NEW i \in 1 .. Len(played'), played'[i].behind = 0
      PROVE  /\ played'[i].block.frame = i
             /\ IF played'[i].answered
                  THEN \A c \in Channels : played'[i].block.filtered[c] # "raw"
                  ELSE played'[i].block = Raw(i)
  <2>1. CASE i = n + 1
    <3>1. played'[i] = entry /\ i = frames
      BY <1>1, <1>3, <2>1
    <3>2. Done(entry.block)
      BY <1>2, <1>4, <1>5, <3>1
    <3> QED
      BY <1>2, <3>1, <3>2 DEF Done
  <2>2. CASE i \in 1 .. n
    <3>1. played'[i] = played[i]
      BY <1>3, <2>2
    <3> QED
      BY <1>0, <1>5, <2>2, <3>1 DEF PlayedInOrder
  <2> QED
    BY <1>0, <1>3, <2>1, <2>2
<1> QED
  BY <1>5 DEF PlayedInOrder

LEMMA NextKeepsOrder == PipelineInv /\ [Next]_vars /\ NothingDropped => PlayedInOrder'
<1> SUFFICES ASSUME PipelineInv, [Next]_vars, NothingDropped PROVE PlayedInOrder'
  OBVIOUS
<1>1. CASE UNCHANGED played
  BY <1>1 DEF PipelineInv, PlayedInOrder
<1>2. CASE MainStep \/ Command \/ CmdStep
  BY <1>1, <1>2 DEF MainStep, InitRpmsg, InitBuffers, InitHostInterface, MainSync,
     MainStore, MainStoreUnmapped, MainStoreArm, MainStart, MainLeave, DestroyData,
     DestroyOptions, Revert, Advance, Command, ReceiveCommand, EnableFilter, CmdStep,
     CmdSyncStart, CmdStore, CmdStoreUnmapped, CmdSyncEnd, CmdEnd, CmdStoreArm, history
<1>3. CASE AudioStep /\ ~PlayFrame
  BY <1>1, <1>3 DEF AudioStep, OpenAudio, BeginFrame, ReadFrame, ReadUpTo, ReadUnmapped,
     Exit, HandOverFrame, HandOver, ProcessChannel, ProcessUpTo, SendRequest, Send,
     RecvReply, RecvFails, RetakeData, Retake, RetakeOptions, ReleaseOptions,
     ReleaseData, history
<1>4. CASE DspStep \/ CacheStep \/ UNCHANGED vars
  BY <1>1, <1>4 DEF DspStep, DspTake, DspWrite, DspReply, CacheStep, vars, history
<1> QED
  BY <1>2, <1>3, <1>4, PlayFrameKeepsOrder DEF Next, AudioStep

-----------------------------------------------------------------------------
LEMMA NextKeepsPipelineInv == PipelineInv /\ [Next]_vars => PipelineInv'
<1> SUFFICES ASSUME PipelineInv, [Next]_vars PROVE PipelineInv'
  OBVIOUS
<1>1. TypeOK' /\ PathOfMode' /\ Conduct' /\ RepliesOwed' /\ FramesPlayed'
  BY NextKeepsType, NextKeepsCounts, NextKeepsConduct DEF PipelineInv
<1>2. recvFailures' = 0 => FrameInWork'
  BY NextKeepsFrame
<1>3. NothingDropped' => PlayedInOrder'
  BY NextKeepsOrder, NextKeepsMode DEF NothingDropped
<1> QED
  BY <1>1, <1>2, <1>3 DEF PipelineInv

LEMMA PipelineInvHolds == Spec => []PipelineInv
  BY InitPipelineInv, NextKeepsPipelineInv, PTL DEF Spec

(* Whatever the three threads, the cache and the DSP do, every variable    *)
(* stays in its set; process_on_arm never writes past its last channel.    *)
THEOREM PipelineTypeCorrect == Spec => []TypeOK
<1>1. PipelineInv => TypeOK
  BY DEF PipelineInv
<1> QED
  BY <1>1, PipelineInvHolds, PTL

(* process_on_dsp gives a reply up when recv_msg fails and never makes     *)
(* that good: the messages in flight are always those failures, and one    *)
(* more while it waits for a reply.                                        *)
THEOREM RepliesAreOwed == Spec => []RepliesOwed
<1>1. PipelineInv => RepliesOwed
  BY DEF PipelineInv
<1> QED
  BY <1>1, PipelineInvHolds, PTL

(* Until a recv_msg has failed, the DSP works only while the audio thread  *)
(* waits in process_on_dsp, and on the frame that thread read last.        *)
THEOREM DspWorksAlone == Spec => []DspHasFrameAlone
<1>1. PipelineInv => DspHasFrameAlone
  <2> SUFFICES ASSUME PipelineInv, recvFailures = 0, dsp.at # "idle"
               PROVE  audio = "recv" /\ dsp.block = Raw(frames)
    BY DEF DspHasFrameAlone
  <2>1. /\ requests \in Nat /\ replies \in Nat
        /\ requests + 1 + replies = (IF audio = "recv" THEN 1 ELSE 0)
    BY DEF PipelineInv, TypeOK, RepliesOwed
  <2>2. audio = "recv" /\ requests = 0 /\ replies = 0
    BY <2>1
  <2>3. FrameAway
    BY <2>2 DEF PipelineInv, FrameInWork
  <2> QED
    BY <2>2, <2>3 DEF FrameAway
<1> QED
  BY <1>1, PipelineInvHolds, PTL

(* Until a recv_msg has failed, what is played is the file's frames in     *)
(* order, each filtered on every channel or, when send_msg failed, as it   *)
(* was read; on the ARM core provided DMA_BUF_SYNC_START writes dirty      *)
(* lines back.                                                             *)
THEOREM FramesPlayedInOrder == Spec => [](NothingDropped => PlayedInOrder)
<1>1. PipelineInv => (NothingDropped => PlayedInOrder)
  BY DEF PipelineInv
<1> QED
  BY <1>1, PipelineInvHolds, PTL

(* Until a recv_msg has failed, main unmaps and closes the two dma-bufs    *)
(* only when the DSP has no request left and works on none: RepliesOwed    *)
(* and the audio thread's end leave nothing in flight.                     *)
THEOREM DspLetsGoBeforeFree == Spec => []DspDoneBeforeFree
<1>1. PipelineInv => DspDoneBeforeFree
  <2> SUFFICES ASSUME PipelineInv, recvFailures = 0,
                      main \in {"destroy_options", "revert", "done"}
               PROVE  requests = 0 /\ dsp.at = "idle"
    BY DEF DspDoneBeforeFree
  <2>1. audio # "recv"
    BY DEF PipelineInv, Conduct
  <2>2. /\ requests \in Nat /\ replies \in Nat
        /\ requests + (IF dsp.at = "idle" THEN 0 ELSE 1) + replies = 0
    BY <2>1 DEF PipelineInv, TypeOK, RepliesOwed
  <2> QED
    BY <2>2
<1> QED
  BY <1>1, PipelineInvHolds, PTL

-----------------------------------------------------------------------------
(* The refinement: reading a frame takes it, playing it plays it, a send   *)
(* that fails skips it, a receive that fails loses its reply; every other  *)
(* step stutters.                                                          *)

LEMMA AppendBlock ==
  ASSUME NEW Records, NEW records \in Seq(Records), NEW entry
  PROVE  /\ BlocksOf(Append(records, entry)) = Append(BlocksOf(records), entry.block)
         /\ Len(BlocksOf(records)) = Len(records)
<1> DEFINE n == Len(records)
           longer == Append(records, entry)
<1>1. n \in Nat /\ Len(BlocksOf(records)) = n
  BY DEF BlocksOf
<1>2. Len(longer) = n + 1 /\ longer[n + 1] = entry
      /\ \A i \in 1 .. n : longer[i] = records[i]
  OBVIOUS
<1>3. Append(BlocksOf(records), entry.block)
        = [i \in 1 .. n + 1 |-> IF i = n + 1 THEN entry.block ELSE records[i].block]
  BY <1>1 DEF BlocksOf
<1>4. ASSUME NEW i \in 1 .. n + 1
      PROVE  longer[i].block = IF i = n + 1 THEN entry.block ELSE records[i].block
  BY <1>1, <1>2
<1> QED
  BY <1>1, <1>2, <1>3, <1>4 DEF BlocksOf

LEMMA ListenerInit == Init => Listener!Init
BY DEF Init, Listener!Init, InWork, Skipped, Lost, Heard, BlocksOf

LEMMA ListenerStep ==
  ASSUME PipelineInv, NothingDropped, [Next]_vars
  PROVE  [Listener!Next]_Listener!vars
<1>0. /\ Len(Heard) = Len(played) /\ Len(played) \in Nat
      /\ frames \in 0 .. FileFrames /\ recvFailures \in Nat
      /\ frames = Len(played) + (IF audio \in InWork THEN 1 ELSE 0)
      /\ audio \in {"read", "filled", "process", "send", "recv"} => answered
  <2>1. Len(Heard) = Len(played) /\ Len(played) \in Nat
    BY AppendBlock DEF PipelineInv, TypeOK, Heard
  <2> QED
    BY <2>1 DEF PipelineInv, TypeOK, FramesPlayed, Conduct
<1>1. ASSUME UNCHANGED <<frames, Skipped, Lost, Heard>>
      PROVE  UNCHANGED Listener!vars
  BY <1>1 DEF Listener!vars
<1>2. ASSUME UNCHANGED <<frames, audio, answered, recvFailures, played>>
      PROVE  UNCHANGED Listener!vars
  BY <1>1, <1>2 DEF Skipped, Lost, Heard
<1>3. ASSUME UNCHANGED <<frames, recvFailures, played>>, ~Skipped, ~Skipped'
      PROVE  UNCHANGED Listener!vars
  <2>1. UNCHANGED Skipped
    BY <1>3 DEF Skipped
  <2> QED
    BY <1>1, <1>3, <2>1 DEF Lost, Heard
<1>4. CASE MainStep
  <2>1. CASE MainStart
    BY <1>3, <2>1 DEF MainStart, PipelineInv, PathOfMode, Skipped, InWork, faults, history
  <2>2. CASE ~MainStart
    BY <1>2, <1>4, <2>2 DEF MainStep, InitRpmsg, InitBuffers, InitHostInterface,
       MainSync, MainStore, MainStoreUnmapped, MainStoreArm, MainLeave, DestroyData,
       DestroyOptions, Revert, Advance, faults, history
  <2> QED
    BY <2>1, <2>2
<1>5. CASE Command \/ CmdStep
  BY <1>2, <1>5 DEF Command, ReceiveCommand, EnableFilter, CmdStep, CmdSyncStart, CmdStore,
     CmdStoreUnmapped, CmdSyncEnd, CmdEnd, CmdStoreArm, faults, history
<1>6. CASE DspStep \/ CacheStep \/ UNCHANGED vars
  BY <1>2, <1>6 DEF DspStep, DspTake, DspWrite, DspReply, CacheStep, vars, faults, history
<1>7. CASE OpenAudio \/ BeginFrame \/ ReadUnmapped
  BY <1>3, <1>7 DEF OpenAudio, Exit, BeginFrame, ReadUnmapped, Skipped, InWork, faults,
     history
<1>8. CASE ReadFrame
  <2>1. CASE audio' = "exit" /\ UNCHANGED frames
    BY <1>3, <1>8, <2>1 DEF ReadFrame, ReadUpTo, Skipped, InWork, faults, history
  <2>2. CASE frames < FileFrames /\ frames' = frames + 1 /\ audio' = "filled"
    <3>1. ~Skipped /\ ~Skipped' /\ UNCHANGED <<recvFailures, played>>
      BY <1>0, <1>8, <2>2 DEF ReadFrame, ReadUpTo, Skipped, InWork, faults, history
    <3>2. frames = Len(Heard)
      BY <1>0, <1>8 DEF ReadFrame, ReadUpTo, InWork
    <3>3. UNCHANGED <<Skipped, Lost, Heard>>
      BY <3>1 DEF Skipped, Lost, Heard
    <3>4. Listener!Take
      BY <1>0, <2>2, <3>2, <3>3 DEF Listener!Take, Listener!InWork
    <3> QED
      BY <3>4 DEF Listener!Next
  <2> QED
    BY <1>8, <2>1, <2>2 DEF ReadFrame, ReadUpTo, Exit
<1>9. CASE HandOverFrame \/ ProcessChannel
  BY <1>0, <1>3, <1>9 DEF HandOverFrame, HandOver, ProcessChannel, ProcessUpTo, Skipped,
     InWork, faults, history
<1>10. CASE SendRequest
  <2>1. UNCHANGED <<frames, recvFailures, played>> /\ audio = "send"
    BY <1>10 DEF SendRequest, Send
  <2>2. CASE audio' = "recv" /\ UNCHANGED answered
    BY <1>0, <1>3, <2>1, <2>2 DEF Skipped
  <2>3. CASE audio' = "retake" /\ answered' = FALSE
    <3>1. frames > Len(Heard) /\ Skipped'
      BY <1>0, <2>1, <2>3 DEF InWork, Skipped
    <3>2. UNCHANGED <<Lost, Heard>> /\ Skipped' = TRUE
      BY <2>1, <3>1 DEF Skipped, Lost, Heard
    <3>3. Listener!Skip
      BY <2>1, <3>1, <3>2 DEF Listener!Skip, Listener!InWork
    <3> QED
      BY <3>3 DEF Listener!Next
  <2> QED
    BY <1>10, <2>2, <2>3 DEF SendRequest, Send
<1>11. CASE RecvReply
  BY <1>0, <1>3, <1>11 DEF RecvReply, Skipped, faults, history
<1>12. CASE RecvFails
  <2>1. /\ UNCHANGED <<frames, played>> /\ audio = "recv" /\ audio' = "retake"
        /\ answered' = FALSE /\ recvFailures' = recvFailures + 1
    BY <1>12 DEF RecvFails
  <2>2. frames > Len(Heard) /\ Skipped' /\ Lost'
    BY <1>0, <2>1 DEF InWork, Skipped, Lost
  <2>3. UNCHANGED Heard /\ Skipped' = TRUE /\ Lost' = TRUE
    BY <2>1, <2>2 DEF Skipped, Lost, Heard
  <2>4. Listener!LoseReply
    BY <2>1, <2>2, <2>3 DEF Listener!LoseReply, Listener!InWork
  <2> QED
    BY <2>4 DEF Listener!Next
<1>13. CASE RetakeData \/ RetakeOptions
  <2>1. UNCHANGED <<frames, recvFailures, played, answered>>
        /\ audio \in InWork /\ audio' \in InWork
    BY <1>13 DEF RetakeData, Retake, RetakeOptions, InWork, faults, history
  <2> QED
    BY <1>1, <2>1 DEF Skipped, Lost, Heard
<1>14. CASE PlayFrame
  <2>1. PICK entry :
          /\ played' = Append(played, entry)
          /\ entry.block = CpuRead(data)
    BY <1>14 DEF PlayFrame
  <2>2. UNCHANGED <<frames, recvFailures>> /\ audio = "play" /\ ~Skipped'
    BY <1>14 DEF PlayFrame, faults, Skipped, InWork
  <2>3. data \in Buffers(Blocks)
    BY DEF PipelineInv, TypeOK
  <2>4. CpuRead(data) \in Blocks
    BY <2>3, BlockTypes, BufferTypes
  <2>5. CpuRead(data) \in
          IF Lost THEN Blocks ELSE IF Skipped THEN {Raw(frames)} ELSE WellFiltered(frames)
    <3>1. CASE recvFailures = 0
      <4>1. Shared(data, data.mem) /\ Done(data.mem)
        BY <2>2, <3>1 DEF PipelineInv, FrameInWork
      <4>2. CpuRead(data) = data.mem
        BY <2>3, <4>1, ContentsTravel
      <4> QED
        BY <2>2, <2>4, <3>1, <4>1, <4>2 DEF Done, Lost, Skipped, InWork, WellFiltered
    <3>2. CASE recvFailures # 0
      BY <1>0, <2>4, <3>2 DEF Lost
    <3> QED
      BY <3>1, <3>2
  <2>6. Heard' = Append(Heard, CpuRead(data))
    BY <2>1, AppendBlock DEF PipelineInv, TypeOK, Heard
  <2>7. frames > Len(Heard)
    BY <1>0, <2>2 DEF InWork
  <2>8. UNCHANGED Lost /\ Skipped' = FALSE
    BY <2>2 DEF Lost, Skipped
  <2>9. Listener!Play
    BY <2>2, <2>5, <2>6, <2>7, <2>8 DEF Listener!Play, Listener!InWork, Listener!Forms
  <2> QED
    BY <2>9 DEF Listener!Next
<1>15. CASE ReleaseOptions \/ ReleaseData
  BY <1>3, <1>15 DEF ReleaseOptions, ReleaseData, Skipped, InWork, faults, history
<1> QED
  BY <1>4, <1>5, <1>6, <1>7, <1>8, <1>9, <1>10, <1>11, <1>12, <1>13, <1>14, <1>15
     DEF Next, AudioStep

(* Threads, caches, buffers and messages amount to Playback: one frame     *)
(* heard for each frame read, in order, filtered or as it was read, until  *)
(* a reply is given up; on the ARM core provided DMA_BUF_SYNC_START writes *)
(* dirty lines back.                                                       *)
THEOREM PipelineImplementsPlayback == Spec /\ []NothingDropped => ImplementsPlayback
<1>1. Spec /\ []NothingDropped => Listener!Spec
  BY ListenerInit, ListenerStep, PipelineInvHolds, PTL DEF Spec, Listener!Spec
<1> QED
  BY <1>1 DEF ImplementsPlayback

-----------------------------------------------------------------------------
(* The filter setting, where an invalidation cleans dirty lines first.  A  *)
(* second invariant follows the setting through the access sessions of two *)
(* threads to the DSP, and a third the marks it leaves on a frame that no  *)
(* command meets, to the player.                                           *)

(* In both modes, where NothingDropped asks for it on the ARM path only.   *)
AlwaysCleaned == OnInvalidate = {"cleaned"}

-----------------------------------------------------------------------------
(* The CPU reads the setting on, and so will the DSP once the line is      *)
(* written back.                                                           *)
Holds(buf, on) ==
  /\ buf.line.filter_enabled = on
  /\ buf.state # "dirty" => buf.mem.filter_enabled = on
  /\ buf.state = "absent" => buf.line = buf.mem

(* Whatever the two threads, the DSP and the cache do with the options     *)
(* buffer, both sides hold the same setting; only a store changes it, and  *)
(* only a store leaves a dirty line.                                       *)
LEMMA SettingTravels ==
  ASSUME AlwaysCleaned, NEW buf \in Buffers(Params), NEW on, Holds(buf, on)
  PROVE  /\ Holds(Clean(buf), on) /\ Clean(buf).state # "dirty"
         /\ \A after \in Invalidated(buf) : Holds(after, on) /\ after.state # "dirty"
         /\ \A after \in CacheMoves(buf) : Holds(after, on) /\ after.state # "dirty"
         /\ \A n : /\ Holds(RemoteWrite(buf, [buf.mem EXCEPT !.dsp_load = n]), on)
                   /\ RemoteWrite(buf, [buf.mem EXCEPT !.dsp_load = n]).state = buf.state
<1> USE DEF Holds, Buffers, Params
<1>1. Holds(Clean(buf), on) /\ Clean(buf).state # "dirty"
  BY DEF Clean
<1>2. ASSUME NEW after \in Invalidated(buf)
      PROVE  Holds(after, on) /\ after.state # "dirty"
  BY DEF Invalidated, Absent, AlwaysCleaned
<1>3. ASSUME NEW after \in CacheMoves(buf)
      PROVE  Holds(after, on) /\ after.state # "dirty"
  BY DEF CacheMoves, Evict, Prefetch, Clean, Absent
<1>4. ASSUME NEW n
      PROVE  /\ Holds(RemoteWrite(buf, [buf.mem EXCEPT !.dsp_load = n]), on)
             /\ RemoteWrite(buf, [buf.mem EXCEPT !.dsp_load = n]).state = buf.state
  BY DEF RemoteWrite, Absent
<1> QED
  BY <1>1, <1>2, <1>3, <1>4

LEMMA StoreHolds ==
  ASSUME NEW buf \in Buffers(Params), NEW on \in BOOLEAN
  PROVE  Holds(CpuWrite(buf, [CpuRead(buf) EXCEPT !.filter_enabled = on]), on)
BY DEF Holds, CpuWrite, CpuRead, Buffers, Params

-----------------------------------------------------------------------------
(* Each mode stores by its own path; the audio thread starts when main has *)
(* stored, in DSP mode through a mapping; a command ends the quiet.        *)
StorePaths ==
  /\ main \in {"rpmsg", "buffers", "host_interface"} => cmd = "none"
  /\ cmd \in {"start", "store", "end"} => current_mode = "DSP"
  /\ cmd = "store_arm" => current_mode = "ARM"
  /\ main \in {"sync", "store", "sync_again"} => current_mode = "DSP"
  /\ main = "store_arm" => current_mode = "ARM"
  /\ current_mode = "DSP" /\ main \in {"sync_again", "poll"} => "options" \in mapped
  /\ audio # "none" =>
       main \in {"poll", "destroy_data", "destroy_options", "revert", "done"}
  /\ quiet => cmd = "idle"

ArmHolds == current_mode = "ARM" => filter_enabled = setting

(* From before the options buffer is mapped, and whether it ever is.       *)
NotFreed == main \notin {"revert", "done"}

OptionsHold ==
  current_mode = "DSP" /\ NotFreed =>
    /\ Holds(options, setting)
    /\ options.state = "dirty" => OptionsMapped /\ (cmd = "end" \/ main = "sync_again")

StoresInv == StorePaths /\ ArmHolds /\ OptionsHold

LEMMA InitStores == Init => StoresInv
<1> SUFFICES ASSUME Init PROVE StoresInv
  OBVIOUS
<1>1. StorePaths
  BY DEF Init, StorePaths
<1>2. ArmHolds /\ OptionsHold
  BY DEF Init, ArmHolds, OptionsHold, Holds, Absent
<1> QED
  BY <1>1, <1>2 DEF StoresInv

LEMMA MainKeepsPaths ==
  ASSUME TypeOK, StorePaths, MainStep
  PROVE  StorePaths'
<1>0. current_mode \in {"ARM", "DSP"}
  BY ModeAssumption DEF TypeOK
<1> USE DEF StorePaths
<1>1. CASE InitRpmsg
  BY <1>1 DEF InitRpmsg, command, history
<1>6. CASE InitBuffers
  BY <1>6 DEF InitBuffers, command, history
<1>2. CASE InitHostInterface
  BY <1>0, <1>2 DEF InitHostInterface, setup, history
<1>3. CASE MainSync \/ MainStore \/ MainStoreUnmapped \/ MainStoreArm
  BY <1>0, <1>3 DEF MainSync, MainStore, MainStoreUnmapped, MainStoreArm, OptionsMapped,
     setup, command, history
<1>4. CASE MainStart
  BY <1>4 DEF MainStart, setup, command, history
<1>5. CASE MainLeave \/ DestroyData \/ DestroyOptions \/ Revert
  BY <1>5 DEF MainLeave, DestroyData, DestroyOptions, Revert, Advance, setup, command,
     history
<1> QED
  BY <1>1, <1>2, <1>3, <1>4, <1>5, <1>6 DEF MainStep

LEMMA NextKeepsPaths ==
  ASSUME TypeOK, PathOfMode, StorePaths, [Next]_vars
  PROVE  StorePaths'
<1> USE DEF StorePaths
<1>1. CASE MainStep
  BY <1>1, MainKeepsPaths
<1>2. CASE Command
  BY <1>2, ModeAssumption DEF Command, ReceiveCommand, EnableFilter, setup, control, TypeOK
<1>3. CASE CmdStep
  BY <1>3 DEF CmdStep, CmdSyncStart, CmdStore, CmdStoreUnmapped, CmdSyncEnd, CmdEnd,
     CmdStoreArm, setup, control, history
<1>4. CASE BeginFrame
  <2>1. quiet' => cmd' = "idle"
    BY <1>4, Zenon DEF BeginFrame, command
  <2> QED
    BY <1>4, <2>1 DEF BeginFrame, setup, control, command
<1>5. CASE AudioStep /\ ~BeginFrame
  <2>1. UNCHANGED <<current_mode, mapped, cmd, main, quiet>> /\ audio # "none"
    BY <1>5 DEF AudioStep, OpenAudio, ReadFrame, ReadUpTo, ReadUnmapped, Exit,
       HandOverFrame, HandOver, ProcessChannel, ProcessUpTo, SendRequest, Send,
       RecvReply, RecvFails, RetakeData, Retake, RetakeOptions, PlayFrame,
       ReleaseOptions, ReleaseData, setup, control, command, history
  <2> QED
    BY <2>1
<1>6. CASE DspStep \/ CacheStep \/ UNCHANGED vars
  BY <1>6 DEF DspStep, DspTake, DspWrite, DspReply, CacheStep, vars, setup, control,
     command, history
<1> QED
  BY <1>1, <1>2, <1>3, <1>4, <1>5, <1>6 DEF Next

LEMMA NextKeepsArm ==
  ASSUME TypeOK, PathOfMode, StorePaths, ArmHolds, [Next]_vars
  PROVE  ArmHolds'
<1>0. UNCHANGED current_mode
  BY NextKeepsMode
<1>1. CASE MainStep
  BY <1>0, <1>1 DEF MainStep, InitRpmsg, InitBuffers, InitHostInterface, MainSync,
     MainStore, MainStoreUnmapped, MainStoreArm, MainStart, MainLeave, DestroyData,
     DestroyOptions, Revert, Advance, filter, StorePaths, ArmHolds
<1>2. CASE Command \/ CmdStep
  BY <1>0, <1>2 DEF Command, ReceiveCommand, EnableFilter, CmdStep, CmdSyncStart,
     CmdStore, CmdStoreUnmapped, CmdSyncEnd, CmdEnd, CmdStoreArm, filter, StorePaths,
     ArmHolds
<1>3. CASE AudioStep
  BY <1>0, <1>3 DEF AudioStep, OpenAudio, BeginFrame, ReadFrame, ReadUpTo, ReadUnmapped,
     Exit, HandOverFrame, HandOver, ProcessChannel, ProcessUpTo, SendRequest, Send,
     RecvReply, RecvFails, RetakeData, Retake, RetakeOptions, PlayFrame, ReleaseOptions,
     ReleaseData, filter, ArmHolds
<1>4. CASE DspStep \/ CacheStep \/ UNCHANGED vars
  BY <1>0, <1>4 DEF DspStep, DspTake, DspWrite, DspReply, CacheStep, vars, filter, ArmHolds
<1> QED
  BY <1>1, <1>2, <1>3, <1>4 DEF Next

(* The options buffer after a session begins, or ends. *)
LEMMA SyncedHolds ==
  ASSUME AlwaysCleaned, TypeOK, NEW on, Holds(options, on),
         options.state = "dirty" => OptionsMapped
  PROVE  \A after \in SyncedOptions(DMA_BUF_SYNC_START) \cup SyncedOptions(DMA_BUF_SYNC_END) :
           Holds(after, on) /\ after.state # "dirty"
<1>1. options \in Buffers(Params)
  BY DEF TypeOK
<1>2. CASE OptionsMapped
  <2>1. /\ SyncedOptions(DMA_BUF_SYNC_START) = Invalidated(options)
        /\ SyncedOptions(DMA_BUF_SYNC_END) = {Clean(options)}
    BY <1>2, SyncArguments DEF SyncedOptions
  <2> QED
    BY <1>1, <2>1, SettingTravels
<1>3. CASE ~OptionsMapped
  BY <1>3 DEF SyncedOptions
<1> QED
  BY <1>2, <1>3

LEMMA NextKeepsOptions ==
  ASSUME AlwaysCleaned, TypeOK, PathOfMode, Conduct, StorePaths, OptionsHold,
         [Next]_vars
  PROVE  OptionsHold'
<1>1. SUFFICES ASSUME current_mode = "DSP", NotFreed'
               PROVE  /\ Holds(options, setting)'
                      /\ options'.state = "dirty" =>
                           OptionsMapped' /\ (cmd' = "end" \/ main' = "sync_again")
  BY NextKeepsMode DEF OptionsHold
<1>2. ASSUME main \in {"revert", "done"} PROVE main' \in {"revert", "done"}
  <2>1. CASE MainStep
    BY <1>2, <2>1 DEF MainStep, InitRpmsg, InitBuffers, InitHostInterface, MainSync,
       MainStore, MainStoreUnmapped, MainStoreArm, MainStart, MainLeave, DestroyData,
       DestroyOptions, Revert, Advance
  <2>2. CASE Command \/ CmdStep \/ DspStep \/ CacheStep \/ UNCHANGED vars
    BY <1>2, <2>2 DEF Command, ReceiveCommand, EnableFilter, CmdStep, CmdSyncStart,
       CmdStore, CmdStoreUnmapped, CmdSyncEnd, CmdEnd, CmdStoreArm, DspStep, DspTake,
       DspWrite, DspReply, CacheStep, vars, control
  <2>3. CASE AudioStep
    BY <1>2, <2>3 DEF AudioStep, OpenAudio, BeginFrame, ReadFrame, ReadUpTo,
       ReadUnmapped, Exit, HandOverFrame, HandOver, ProcessChannel, ProcessUpTo,
       SendRequest, Send, RecvReply, RecvFails, RetakeData, Retake, RetakeOptions,
       PlayFrame, ReleaseOptions, ReleaseData, control
  <2> QED
    BY <2>1, <2>2, <2>3 DEF Next
<1>3. NotFreed
  BY <1>1, <1>2 DEF NotFreed
<1>4. /\ Holds(options, setting)
      /\ options.state = "dirty" => OptionsMapped /\ (cmd = "end" \/ main = "sync_again")
  BY <1>1, <1>3 DEF OptionsHold
<1>5. options \in Buffers(Params)
  BY DEF TypeOK
<1>6. \A after \in SyncedOptions(DMA_BUF_SYNC_START) \cup SyncedOptions(DMA_BUF_SYNC_END) :
         Holds(after, setting) /\ after.state # "dirty"
  BY <1>4, SyncedHolds
<1>7. CASE MainSync
  BY <1>6, <1>7 DEF MainSync, SyncOptions, filter, Holds
<1>8. CASE MainStore
  <2>1. /\ options' = CpuWrite(options, [CpuRead(options) EXCEPT !.filter_enabled = FftFilterEnable])
        /\ setting' = FftFilterEnable /\ main' = "sync_again" /\ OptionsMapped'
    BY <1>8 DEF MainStore, StoreFilter, OptionsMapped, setup
  <2> QED
    BY <1>5, <2>1, StoreHolds, ConfigAssumption DEF Holds
<1>9. CASE CmdSyncStart \/ CmdSyncEnd
  BY <1>6, <1>9 DEF CmdSyncStart, CmdSyncEnd, CmdEnd, SyncOptions, filter, Holds
<1>10. CASE CmdStore
  <2>1. /\ options' = CpuWrite(options, [CpuRead(options) EXCEPT !.filter_enabled = state])
        /\ setting' = state /\ cmd' = "end" /\ state \in BOOLEAN /\ OptionsMapped'
    BY <1>10 DEF CmdStore, StoreFilter, TypeOK, OptionsMapped, setup, control
  <2> QED
    BY <1>5, <2>1, StoreHolds DEF Holds
<1>11. CASE RetakeOptions \/ ReleaseOptions
  BY <1>6, <1>11 DEF RetakeOptions, ReleaseOptions, SyncOptions, filter, Holds
<1>12. CASE DspWrite
  <2>1. options' = RemoteWrite(options, [options.mem EXCEPT !.dsp_load = dsp.block.frame])
    BY <1>12 DEF DspWrite
  <2>2. UNCHANGED <<setting, cmd, main, mapped>>
    BY <1>12 DEF DspWrite, filter, control, command, setup
  <2>3. Holds(options', setting) /\ options'.state = options.state
    BY <1>4, <1>5, <2>1, SettingTravels
  <2> QED
    BY <1>4, <2>2, <2>3 DEF Holds, OptionsMapped
<1>13. CASE CacheStep
  BY <1>4, <1>5, <1>13, SettingTravels DEF CacheStep, setup, filter, control, command,
     Holds, OptionsMapped
<1>14. CASE /\ UNCHANGED <<options, setting, mapped>>
            /\ cmd = "end" => cmd' = "end"
            /\ main = "sync_again" => main' = "sync_again"
  BY <1>1, <1>4, <1>14 DEF Holds, OptionsMapped, NotFreed
<1>19. CASE InitBuffers
  BY <1>4, <1>19 DEF InitBuffers, buffers, filter, StorePaths, Holds
<1>15. CASE \/ InitRpmsg \/ InitHostInterface \/ MainStoreUnmapped \/ MainStoreArm
            \/ MainStart \/ MainLeave \/ DestroyData \/ DestroyOptions \/ Revert
  BY <1>1, <1>14, <1>15 DEF InitRpmsg, InitHostInterface, MainStoreUnmapped, MainStoreArm,
     MainStart, MainLeave, DestroyData, DestroyOptions, Revert, Advance, setup, buffers,
     filter, command, StorePaths
<1>16. CASE ReceiveCommand \/ CmdStoreUnmapped \/ CmdStoreArm
  BY <1>1, <1>3, <1>14, <1>16 DEF ReceiveCommand, EnableFilter, CmdStoreUnmapped,
     CmdStoreArm, setup, buffers, filter, control, StorePaths
<1>17. CASE AudioStep /\ ~RetakeOptions /\ ~ReleaseOptions
  BY <1>14, <1>17 DEF AudioStep, OpenAudio, BeginFrame, ReadFrame, ReadUpTo,
     ReadUnmapped, Exit, HandOverFrame, HandOver, ProcessChannel, ProcessUpTo,
     SendRequest, Send, RecvReply, RecvFails, RetakeData, Retake, PlayFrame,
     ReleaseData, setup, buffers, filter, control, command
<1>18. CASE DspTake \/ DspReply \/ UNCHANGED vars
  BY <1>14, <1>18 DEF DspTake, DspReply, vars, setup, buffers, filter, control, command
<1> QED
  BY <1>7, <1>8, <1>9, <1>10, <1>11, <1>12, <1>13, <1>15, <1>16, <1>17, <1>18, <1>19
     DEF Next, MainStep, Command, CmdStep, DspStep

LEMMA StoresInvHolds == AlwaysCleaned => (Spec => []StoresInv)
<1> SUFFICES ASSUME AlwaysCleaned PROVE Spec => []StoresInv
  OBVIOUS
<1>1. PipelineInv /\ StoresInv /\ [Next]_vars => StoresInv'
  BY NextKeepsPaths, NextKeepsArm, NextKeepsOptions DEF PipelineInv, StoresInv
<1> QED
  BY <1>1, InitStores, PipelineInvHolds, PTL DEF Spec

(* Where an invalidation cleans dirty lines first, what the DSP reads is   *)
(* what was stored last, whenever no thread is about to end its session:   *)
(* for any number of commands, whatever the cache does.                    *)
THEOREM SettingReachesMemory == AlwaysCleaned => (Spec => []SettingInMemory)
<1> SUFFICES ASSUME AlwaysCleaned PROVE Spec => []SettingInMemory
  OBVIOUS
<1>1. StoresInv => SettingInMemory
  BY DEF StoresInv, OptionsHold, OptionsMapped, NotFreed, Holds, SettingInMemory
<1> QED
  BY <1>1, StoresInvHolds, PTL

-----------------------------------------------------------------------------
(* A frame no command meets. *)

AsSet(block) == \A c \in Channels : block.filtered[c] = Mark(setting)
OwnLoad == options.mem.dsp_load = frames

(* Where the marks of the frame in work are, and the load it is reported   *)
(* with.                                                                   *)
QuietFrame ==
  /\ dsp.at # "idle" => dsp.filter = setting
  /\ audio = "process" =>
       \A c \in Channels : c < ch => data.line.filtered[c] = Mark(setting)
  /\ audio = "recv" /\ (dsp.at = "done" \/ replies = 1) => AsSet(data.mem) /\ OwnLoad
  /\ audio = "retake" /\ answered =>
       IF current_mode = "DSP" THEN AsSet(data.mem) /\ OwnLoad ELSE AsSet(data.line)
  /\ audio = "retake_options" /\ answered =>
       AsSet(data.mem) /\ (current_mode = "DSP" => OwnLoad)
  /\ audio = "play" /\ answered =>
       /\ AsSet(data.mem)
       /\ current_mode = "DSP" => OwnLoad /\ Shared(options, options.mem)

QuietInv == (recvFailures = 0 /\ quiet => QuietFrame) /\ QuietFrameAsSet

(* The places in which marks are made or carried, and those before them.   *)
Marking == {"process", "recv", "retake", "retake_options", "play"}
Handed  == Marking \cup {"filled", "send"}

(* Without a reply owed, messages and DSP belong to the frame in work.     *)
LEMMA OneMessage ==
  ASSUME PipelineInv, recvFailures = 0
  PROVE  /\ dsp.at # "idle" => audio = "recv" /\ requests = 0 /\ replies = 0
                               /\ dsp.block = Raw(frames)
         /\ requests # 0 => audio = "recv" /\ replies = 0 /\ dsp.at = "idle"
         /\ replies # 0 => audio = "recv" /\ replies = 1
<1>1. /\ requests \in Nat /\ replies \in Nat
      /\ requests + (IF dsp.at = "idle" THEN 0 ELSE 1) + replies
           = (IF audio = "recv" THEN 1 ELSE 0)
  BY DEF PipelineInv, TypeOK, RepliesOwed
<1>2. audio = "recv" => FrameAway
  BY DEF PipelineInv, FrameInWork
<1> QED
  BY <1>1, <1>2 DEF FrameAway

LEMMA IdleIsQuiet ==
  ASSUME PipelineInv, recvFailures = 0, audio \notin Marking
  PROVE  QuietFrame
BY OneMessage DEF QuietFrame, Marking

(* Only these steps take a quiet frame further. *)
LEMMA QuietSteps ==
  ASSUME PipelineInv, StorePaths, [Next]_vars, quiet', audio' \in Marking
  PROVE  /\ quiet /\ cmd = "idle" /\ main = "poll" /\ audio \in Handed
         /\ UNCHANGED <<quiet, current_mode, setting, frames>>
         /\ \/ HandOverFrame \/ ProcessChannel \/ SendRequest \/ RecvReply \/ RecvFails
            \/ RetakeData \/ RetakeOptions \/ DspStep \/ CacheStep \/ UNCHANGED vars
<1>1. CASE audio \in Handed /\ quiet
  <2>1. /\ cmd = "idle" /\ main = "poll"
        /\ start_requested \notin {"START_PLAY", "EXIT_PLAY"}
    BY <1>1 DEF StorePaths, PipelineInv, Conduct, PathOfMode, Handed, Marking
  <2>2. ~MainStep /\ ~CmdStep
    BY <2>1 DEF MainStep, InitRpmsg, InitBuffers, InitHostInterface, MainSync,
       MainStore, MainStoreUnmapped, MainStoreArm, MainStart, MainLeave, DestroyData,
       DestroyOptions, Revert, Advance, CmdStep, CmdSyncStart, CmdStore,
       CmdStoreUnmapped, CmdSyncEnd, CmdEnd, CmdStoreArm
  <2>3. ~Command
    <3>1. Command => quiet' = FALSE
      BY DEF Command, ReceiveCommand, EnableFilter
    <3> QED
      BY <3>1, Zenon
  <2>4. \/ HandOverFrame \/ ProcessChannel \/ SendRequest \/ RecvReply \/ RecvFails
        \/ RetakeData \/ RetakeOptions \/ DspStep \/ CacheStep \/ UNCHANGED vars
    BY <1>1, <2>2, <2>3 DEF Next, AudioStep, OpenAudio, Exit, BeginFrame, ReadFrame,
       ReadUpTo, ReadUnmapped, PlayFrame, ReleaseOptions, ReleaseData, Handed, Marking
  <2>5. UNCHANGED <<quiet, current_mode, setting, frames>>
    BY <2>4 DEF HandOverFrame, HandOver, ProcessChannel, ProcessUpTo, SendRequest, Send,
       RecvReply, RecvFails, RetakeData, Retake, RetakeOptions, DspStep, DspTake, DspWrite,
       DspReply, CacheStep, vars, setup, filter, history
  <2> QED
    BY <1>1, <2>1, <2>4, <2>5
<1>2. CASE audio \notin Handed
  <2>1. audio' \notin Marking
    BY <1>2 DEF Next, MainStep, InitRpmsg, InitBuffers, InitHostInterface, MainSync,
       MainStore, MainStoreUnmapped, MainStoreArm, MainStart, MainLeave, DestroyData,
       DestroyOptions, Revert, Advance, Command, ReceiveCommand, EnableFilter, CmdStep,
       CmdSyncStart, CmdStore, CmdStoreUnmapped, CmdSyncEnd, CmdEnd, CmdStoreArm,
       AudioStep, OpenAudio, Exit, BeginFrame, ReadFrame, ReadUpTo, ReadUnmapped,
       HandOverFrame, HandOver, ProcessChannel, ProcessUpTo, SendRequest, Send,
       RecvReply, RecvFails, RetakeData, Retake, RetakeOptions, PlayFrame,
       ReleaseOptions, ReleaseData, DspStep, DspTake, DspWrite, DspReply, CacheStep,
       vars, Handed, Marking
  <2> QED
    BY <2>1
<1>3. CASE ~quiet
  <2>1. CASE BeginFrame
    BY <2>1 DEF BeginFrame, Marking
  <2>2. CASE ~BeginFrame
    <3>1. Command => quiet' = FALSE
      BY DEF Command, ReceiveCommand, EnableFilter
    <3>2. UNCHANGED quiet \/ Command
      BY <2>2 DEF Next, MainStep, InitRpmsg, InitBuffers, InitHostInterface, MainSync,
         MainStore, MainStoreUnmapped, MainStoreArm, MainStart, MainLeave, DestroyData,
         DestroyOptions, Revert, Advance, CmdStep, CmdSyncStart, CmdStore,
         CmdStoreUnmapped, CmdSyncEnd, CmdEnd, CmdStoreArm, AudioStep, OpenAudio,
         ReadFrame, ReadUpTo, ReadUnmapped, Exit, HandOverFrame, HandOver,
         ProcessChannel, ProcessUpTo, SendRequest, Send, RecvReply, RecvFails,
         RetakeData, Retake, RetakeOptions, PlayFrame, ReleaseOptions, ReleaseData,
         DspStep, DspTake, DspWrite, DspReply, CacheStep, vars, history
    <3> QED
      BY <1>3, <3>1, <3>2, Zenon
  <2> QED
    BY <2>1, <2>2
<1> QED
  BY <1>1, <1>2, <1>3, Zenon

(* What every lemma below starts from. *)
QuietStep ==
  /\ PipelineInv /\ PipelineInv' /\ StoresInv
  /\ recvFailures = 0 /\ recvFailures' = 0
  /\ quiet /\ QuietFrame
  /\ cmd = "idle" /\ main = "poll"
  /\ UNCHANGED <<current_mode, setting, frames>>

LEMMA ProcessingKeepsQuiet ==
  ASSUME QuietStep, HandOverFrame \/ ProcessChannel
  PROVE  QuietFrame'
<1>0. data \in Buffers(Blocks) /\ CHANNELS \in Nat
  BY ChannelAssumption DEF QuietStep, PipelineInv, TypeOK
<1>1. dsp'.at = "idle"
  BY OneMessage DEF QuietStep, HandOverFrame, HandOver, ProcessChannel, ProcessUpTo
<1>2. CASE HandOverFrame
  <2>1. audio' \in {"send", "process"} /\ ch' = 0
    BY <1>2 DEF HandOverFrame, HandOver
  <2> QED
    BY <1>1, <2>1 DEF QuietFrame, Channels
<1>3. CASE ProcessChannel
  <2>1. /\ audio = "process" /\ audio' \in {"retake", "process"} /\ ch' = ch + 1
        /\ audio' = "retake" => ch = CHANNELS - 1
        /\ data' = CpuWrite(data, [CpuRead(data) EXCEPT !.filtered[ch] = Mark(filter_enabled)])
        /\ ch \in Channels /\ current_mode = "ARM" /\ filter_enabled = setting
        /\ current_mode' = "ARM" /\ setting' = setting
    BY <1>3 DEF QuietStep, PipelineInv, PathOfMode, StoresInv, ArmHolds, ProcessChannel,
       ProcessUpTo
  <2>2. CpuRead(data) = data.line
    BY <1>0, <2>1, ContentsTravel DEF QuietStep, PipelineInv, FrameInWork
  <2>3. data'.line = [data.line EXCEPT !.filtered[ch] = Mark(setting)]
    BY <1>0, <2>1, <2>2 DEF CpuWrite, Buffers
  <2>4. \A c \in Channels : c < ch => data.line.filtered[c] = Mark(setting)
    BY <2>1 DEF QuietStep, QuietFrame
  <2>5. \A c \in Channels : c < ch + 1 => data'.line.filtered[c] = Mark(setting)
    <3>1. data.line.filtered \in [Channels -> Marks] /\ data.line \in Blocks
      BY <1>0 DEF Buffers, Blocks
    <3>2. data'.line.filtered = [data.line.filtered EXCEPT ![ch] = Mark(setting)]
      BY <2>3, <3>1 DEF Blocks
    <3>3. ASSUME NEW c \in Channels, c < ch + 1
          PROVE  data'.line.filtered[c] = Mark(setting)
      <4>1. c = ch \/ c < ch
        BY <1>0, <2>1, <3>3 DEF Channels
      <4> QED
        BY <2>1, <2>4, <3>1, <3>2, <4>1
    <3> QED
      BY <3>3
  <2>6. ch = CHANNELS - 1 => \A c \in Channels : data'.line.filtered[c] = Mark(setting)
    BY <1>0, <2>5 DEF Channels
  <2>7. audio' = "process" =>
          \A c \in Channels : c < ch' => data'.line.filtered[c] = Mark(setting')
    BY <2>1, <2>5
  <2>8. audio' = "retake" => AsSet(data.line)'
    BY <2>1, <2>6 DEF AsSet
  <2> QED
    BY <1>1, <2>1, <2>7, <2>8 DEF QuietFrame
<1> QED
  BY <1>2, <1>3

LEMMA SendingKeepsQuiet ==
  ASSUME QuietStep, SendRequest \/ RecvReply
  PROVE  QuietFrame'
<1>1. CASE SendRequest
  <2>1. audio = "send" /\ UNCHANGED <<dsp, replies>>
    BY <1>1 DEF SendRequest, Send
  <2>3. audio' = "recv" \/ (audio' = "retake" /\ answered' = FALSE)
    BY <1>1 DEF SendRequest, Send
  <2>4. audio' = "recv" \/ (audio' = "retake" /\ ~answered')
    BY <2>3, Zenon
  <2>2. dsp'.at = "idle" /\ replies' = 0
    BY <2>1, OneMessage DEF QuietStep
  <2> QED
    BY <2>2, <2>4 DEF QuietFrame
<1>2. CASE RecvReply
  <2>1. /\ audio = "recv" /\ replies # 0 /\ audio' = "retake"
        /\ UNCHANGED <<dsp, data, options>>
    BY <1>2 DEF RecvReply, QuietStep, PipelineInv, TypeOK, buffers
  <2>2. replies = 1 /\ dsp'.at = "idle"
    BY <2>1, OneMessage DEF QuietStep
  <2>3. AsSet(data.mem) /\ OwnLoad /\ current_mode = "DSP"
    BY <2>1, <2>2 DEF QuietStep, QuietFrame, PipelineInv, PathOfMode
  <2>4. AsSet(data.mem)' /\ OwnLoad' /\ current_mode' = "DSP"
    BY <2>1, <2>3 DEF QuietStep, AsSet, OwnLoad
  <2> QED
    BY <2>1, <2>2, <2>4 DEF QuietFrame
<1> QED
  BY <1>1, <1>2

LEMMA RetakingKeepsQuiet ==
  ASSUME AlwaysCleaned, QuietStep, RetakeData \/ RetakeOptions
  PROVE  QuietFrame'
<1>0. /\ data \in Buffers(Blocks) /\ options \in Buffers(Params)
      /\ current_mode \in {"ARM", "DSP"}
  BY ModeAssumption DEF QuietStep, PipelineInv, TypeOK
<1>1. CASE RetakeData
  <2>1. /\ audio = "retake" /\ audio' = "retake_options" /\ UNCHANGED <<dsp, options, answered>>
        /\ data' \in Invalidated(data)
    BY <1>1, SyncArguments DEF RetakeData, Retake, history
  <2>2. dsp'.at = "idle"
    BY <2>1, OneMessage DEF QuietStep
  <2>3. IF current_mode = "DSP" THEN data'.mem = data.mem ELSE data'.mem = data.line
    BY <1>0, <2>1, ContentsTravel
       DEF QuietStep, PipelineInv, FrameInWork, Shared, AlwaysCleaned
  <2>4. answered => AsSet(data.mem)' /\ (current_mode = "DSP" => OwnLoad')
    BY <2>1, <2>3 DEF QuietStep, QuietFrame, AsSet, OwnLoad
  <2> QED
    BY <2>1, <2>2, <2>4 DEF QuietStep, QuietFrame
<1>2. CASE RetakeOptions
  <2>1. /\ audio = "retake_options" /\ audio' = "play" /\ UNCHANGED <<dsp, data, answered>>
        /\ options' \in SyncedOptions(DMA_BUF_SYNC_START)
    BY <1>2 DEF RetakeOptions, SyncOptions, history
  <2>2. dsp'.at = "idle"
    BY <2>1, OneMessage DEF QuietStep
  <2>3. NotFreed /\ (current_mode = "DSP" => OptionsMapped)
    BY DEF QuietStep, OptionsMapped, NotFreed, StoresInv, StorePaths
  <2>4. ASSUME current_mode = "DSP", answered
        PROVE  Shared(options, options.mem)' /\ OwnLoad'
    <3>1. options' \in Invalidated(options)
      BY <2>1, <2>3, <2>4, SyncArguments DEF SyncedOptions
    <3>2. InMemory(options, options.mem)
      BY <2>3, <2>4 DEF QuietStep, StoresInv, OptionsHold, Holds, InMemory
    <3>3. Shared(options', options.mem)
      BY <1>0, <3>1, <3>2, ContentsTravel
    <3>4. OwnLoad
      BY <2>1, <2>4 DEF QuietStep, QuietFrame
    <3> QED
      BY <3>3, <3>4 DEF QuietStep, Shared, OwnLoad
  <2>5. answered => AsSet(data.mem)'
    BY <2>1 DEF QuietStep, QuietFrame, AsSet
  <2> QED
    BY <2>1, <2>2, <2>4, <2>5 DEF QuietStep, QuietFrame
<1> QED
  BY <1>1, <1>2

LEMMA DspKeepsQuiet ==
  ASSUME QuietStep, DspStep, audio' \in Marking
  PROVE  QuietFrame'
<1>0. /\ data \in Buffers(Blocks) /\ options \in Buffers(Params)
      /\ NotFreed /\ UNCHANGED audio
  BY DEF QuietStep, PipelineInv, TypeOK, NotFreed, DspStep, DspTake, DspWrite, DspReply
<1>1. CASE DspTake
  <2>1. /\ requests # 0
        /\ dsp' = [at |-> "busy", block |-> data.mem, filter |-> options.mem.filter_enabled]
        /\ UNCHANGED replies
    BY <1>1 DEF DspTake, QuietStep, PipelineInv, TypeOK
  <2>2. audio = "recv" /\ replies = 0 /\ current_mode = "DSP"
    BY <2>1, OneMessage DEF QuietStep, PipelineInv, PathOfMode
  <2>3. options.mem.filter_enabled = setting
    BY <1>0, <2>2 DEF QuietStep, StoresInv, OptionsHold, Holds
  <2> QED
    BY <1>0, <2>1, <2>2, <2>3 DEF QuietStep, QuietFrame
<1>2. CASE DspWrite
  <2>1. /\ dsp.at = "busy" /\ dsp' = [dsp EXCEPT !.at = "done"]
        /\ data' = RemoteWrite(data, Filtered(dsp.block, dsp.filter))
        /\ options' = RemoteWrite(options, [options.mem EXCEPT !.dsp_load = dsp.block.frame])
    BY <1>2 DEF DspWrite
  <2>2. audio = "recv" /\ dsp.block = Raw(frames) /\ dsp.filter = setting
    BY <2>1, OneMessage DEF QuietStep, QuietFrame
  <2>3. data'.mem = Filtered(Raw(frames), setting)
        /\ options'.mem = [options.mem EXCEPT !.dsp_load = frames]
    BY <1>0, <2>1, <2>2 DEF RemoteWrite, Absent, Buffers, Raw
  <2>4. AsSet(data.mem)' /\ OwnLoad'
    BY <1>0, <2>3 DEF QuietStep, AsSet, OwnLoad, Filtered, Raw, Buffers, Params
  <2>5. dsp'.filter = setting'
    BY <2>1, <2>2 DEF QuietStep, PipelineInv, TypeOK
  <2> QED
    BY <1>0, <2>2, <2>4, <2>5 DEF QuietFrame
<1>3. CASE DspReply
  <2>1. dsp.at = "done" /\ dsp'.at = "idle" /\ UNCHANGED <<data, options>>
    BY <1>3 DEF DspReply, buffers
  <2>2. audio = "recv"
    BY <2>1, OneMessage DEF QuietStep
  <2>3. AsSet(data.mem)' /\ OwnLoad'
    BY <2>1, <2>2 DEF QuietStep, QuietFrame, AsSet, OwnLoad
  <2> QED
    BY <1>0, <2>1, <2>2, <2>3 DEF QuietFrame
<1> QED
  BY <1>1, <1>2, <1>3 DEF DspStep

LEMMA CacheKeepsQuiet ==
  ASSUME AlwaysCleaned, QuietStep, CacheStep
  PROVE  QuietFrame'
<1>0. /\ data \in Buffers(Blocks) /\ options \in Buffers(Params)
      /\ UNCHANGED <<audio, dsp, replies, answered, ch>> /\ NotFreed
  BY DEF QuietStep, PipelineInv, TypeOK, NotFreed, CacheStep, endpoint, history
<1>1. CASE data' \in CacheMoves(data) /\ UNCHANGED options
  <2>1. audio = "process" => data'.line = data.line
    BY <1>0, <1>1, CacheKeeps DEF QuietStep, PipelineInv, FrameInWork, Fresh
  <2>2. audio = "recv" /\ (dsp.at = "done" \/ replies = 1) => data'.mem = data.mem
    <3>1. SUFFICES ASSUME audio = "recv", dsp.at = "done" \/ replies = 1
                   PROVE  InMemory(data, data.mem)
      BY <1>0, <1>1, CacheKeeps DEF InMemory
    <3>2. requests = 0 /\ dsp.at # "busy"
      BY <3>1, OneMessage DEF QuietStep
    <3> QED
      BY <3>1, <3>2 DEF QuietStep, PipelineInv, FrameInWork, FrameAway
  <2>3. audio = "retake" =>
          IF current_mode = "DSP" THEN data'.mem = data.mem ELSE data'.line = data.line
    BY <1>0, <1>1, CacheKeeps DEF QuietStep, PipelineInv, FrameInWork, Fresh, InMemory
  <2>4. audio \in {"retake_options", "play"} => data'.mem = data.mem
    BY <1>0, <1>1, CacheKeeps
       DEF QuietStep, PipelineInv, FrameInWork, Shared, AlwaysCleaned, NothingDropped
  <2> QED
    BY <1>0, <1>1, <2>1, <2>2, <2>3, <2>4 DEF QuietStep, QuietFrame, AsSet, OwnLoad, Shared
<1>2. CASE options' \in CacheMoves(options) /\ UNCHANGED data
  <2>1. ASSUME current_mode = "DSP" PROVE options'.mem = options.mem
    <3>1. InMemory(options, options.mem)
      BY <1>0, <2>1 DEF QuietStep, StoresInv, OptionsHold, Holds, InMemory
    <3> QED
      BY <1>0, <1>2, <3>1, CacheKeeps DEF InMemory
  <2>2. Shared(options, options.mem) => Shared(options', options.mem)
    BY <1>0, <1>2, CacheKeeps
  <2>3. audio = "recv" => current_mode = "DSP"
    BY DEF QuietStep, PipelineInv, PathOfMode
  <2> QED
    BY <1>0, <1>2, <2>1, <2>2, <2>3 DEF QuietStep, QuietFrame, AsSet, OwnLoad
<1> QED
  BY <1>1, <1>2 DEF CacheStep

LEMMA IdleElsewhere ==
  PipelineInv /\ recvFailures = 0 /\ audio # "recv" => dsp.at = "idle"
BY OneMessage

LEMMA NextKeepsQuiet ==
  ASSUME AlwaysCleaned, PipelineInv, StoresInv, [Next]_vars,
         recvFailures = 0 /\ quiet => QuietFrame,
         recvFailures' = 0, quiet'
  PROVE  QuietFrame'
<1>1. PipelineInv'
  BY NextKeepsPipelineInv
<1>2. recvFailures = 0
  <2>1. recvFailures' = recvFailures \/ recvFailures' = recvFailures + 1
    <3>1. CASE MainStep \/ Command \/ CmdStep
      BY <3>1 DEF MainStep, InitRpmsg, InitBuffers, InitHostInterface, MainSync,
         MainStore, MainStoreUnmapped, MainStoreArm, MainStart, MainLeave, DestroyData,
         DestroyOptions, Revert, Advance, Command, ReceiveCommand, EnableFilter,
         CmdStep, CmdSyncStart, CmdStore, CmdStoreUnmapped, CmdSyncEnd, CmdEnd,
         CmdStoreArm, faults
    <3>2. CASE AudioStep
      BY <3>2 DEF AudioStep, OpenAudio, BeginFrame, ReadFrame, ReadUpTo, ReadUnmapped,
         Exit, HandOverFrame, HandOver, ProcessChannel, ProcessUpTo, SendRequest, Send,
         RecvReply, RecvFails, RetakeData, Retake, RetakeOptions, PlayFrame,
         ReleaseOptions, ReleaseData, faults
    <3>3. CASE DspStep \/ CacheStep \/ UNCHANGED vars
      BY <3>3 DEF DspStep, DspTake, DspWrite, DspReply, CacheStep, vars, faults
    <3> QED
      BY <3>1, <3>2, <3>3 DEF Next
  <2> QED
    BY <2>1 DEF PipelineInv, TypeOK
<1>3. CASE audio' \notin Marking
  <2>1. (PipelineInv /\ recvFailures = 0 /\ audio # "recv" => dsp.at = "idle")'
    BY IdleElsewhere, PTL
  <2>2. dsp'.at = "idle"
    BY <1>1, <1>3, <2>1 DEF Marking
  <2> QED
    BY <1>3, <2>2 DEF QuietFrame, Marking
<1>4. CASE audio' \in Marking
  <2>1. /\ quiet /\ cmd = "idle" /\ main = "poll"
        /\ UNCHANGED <<quiet, current_mode, setting, frames>>
        /\ \/ HandOverFrame \/ ProcessChannel \/ SendRequest \/ RecvReply \/ RecvFails
           \/ RetakeData \/ RetakeOptions \/ DspStep \/ CacheStep \/ UNCHANGED vars
    BY <1>4, QuietSteps DEF StoresInv
  <2>2. QuietStep
    BY <1>1, <1>2, <2>1 DEF QuietStep
  <2>3. ~RecvFails
    BY <1>2 DEF RecvFails
  <2>4. CASE UNCHANGED vars
    BY <2>2, <2>4 DEF QuietStep, QuietFrame, AsSet, OwnLoad, vars, setup, buffers, filter,
       endpoint, history
  <2> QED
    BY <1>4, <2>1, <2>2, <2>3, <2>4, ProcessingKeepsQuiet, SendingKeepsQuiet,
       RetakingKeepsQuiet, DspKeepsQuiet, CacheKeepsQuiet
<1> QED
  BY <1>3, <1>4

(* A block with its marks as set is the frame, filtered as set. *)
LEMMA WholeFrame ==
  ASSUME NEW block \in Blocks, NEW n, block.frame = n, AsSet(block)
  PROVE  block = Filtered(Raw(n), setting)
<1>1. /\ block.filtered \in [Channels -> Marks]
      /\ block = [frame |-> block.frame, filtered |-> block.filtered]
  BY DEF Blocks
<1>2. block.filtered = [c \in Channels |-> Mark(setting)]
  BY <1>1 DEF AsSet
<1> QED
  BY <1>1, <1>2 DEF Filtered, Raw

LEMMA PlayFrameKeepsSet ==
  ASSUME AlwaysCleaned, PipelineInv, QuietInv, PlayFrame
  PROVE  QuietFrameAsSet'
<1> DEFINE n == Len(played)
<1>0. /\ data \in Buffers(Blocks) /\ options \in Buffers(Params)
      /\ played \in Seq([block : Blocks, dsp_load : 0 .. FileFrames, quiet : BOOLEAN,
                         answered : BOOLEAN, setting : BOOLEAN, behind : Nat])
      /\ n \in Nat /\ audio = "play" /\ UNCHANGED current_mode
  BY DEF PipelineInv, TypeOK, PlayFrame, setup
<1>1. frames = n + 1
  BY <1>0 DEF PipelineInv, FramesPlayed, InWork
<1>2. PICK entry :
        /\ played' = Append(played, entry)
        /\ entry.block = CpuRead(data) /\ entry.answered = answered
        /\ entry.quiet = quiet /\ entry.setting = setting
        /\ entry.behind = recvFailures
        /\ current_mode = "DSP" => entry.dsp_load = CpuRead(options).dsp_load
  BY DEF PlayFrame
<1>3. Len(played') = n + 1 /\ played'[n + 1] = entry
      /\ \A i \in 1 .. n : played'[i] = played[i]
  BY <1>0, <1>2
<1>4. ASSUME recvFailures = 0, quiet, answered
      PROVE  /\ CpuRead(data) = Filtered(Raw(frames), setting)
             /\ current_mode = "DSP" => CpuRead(options).dsp_load = frames
  <2>1. /\ AsSet(data.mem)
        /\ current_mode = "DSP" => OwnLoad /\ Shared(options, options.mem)
    BY <1>0, <1>4 DEF QuietInv, QuietFrame
  <2>2. Shared(data, data.mem) /\ data.mem.frame = frames
    BY <1>0, <1>4 DEF PipelineInv, FrameInWork, NothingDropped, AlwaysCleaned, Done
  <2>3. /\ CpuRead(data) = data.mem
        /\ current_mode = "DSP" => CpuRead(options) = options.mem
    BY <1>0, <2>1, <2>2, ContentsTravel
  <2>4. data.mem \in Blocks
    BY <1>0 DEF Buffers
  <2>5. data.mem = Filtered(Raw(frames), setting)
    BY <2>1, <2>2, <2>4, WholeFrame
  <2> QED
    BY <2>1, <2>3, <2>5 DEF OwnLoad
<1>5. ASSUME NEW i \in 1 .. Len(played'),
             played'[i].quiet, played'[i].answered, played'[i].behind = 0
      PROVE  /\ played'[i].block = Filtered(Raw(i), played'[i].setting)
             /\ current_mode' = "DSP" => played'[i].dsp_load = i
  <2>1. CASE i = n + 1
    <3>1. played'[i] = entry /\ i = frames
      BY <1>1, <1>3, <2>1
    <3>2. quiet /\ answered
      BY <1>2, <1>5, <3>1, Zenon
    <3>3. recvFailures = 0
      BY <1>2, <1>5, <3>1
    <3> QED
      BY <1>0, <1>2, <1>4, <3>1, <3>2, <3>3
  <2>2. CASE i \in 1 .. n
    <3>1. played'[i] = played[i]
      BY <1>3, <2>2
    <3>2. played[i].quiet /\ played[i].answered /\ played[i].behind = 0
      BY <1>5, <3>1, Zenon
    <3> QED
      BY <1>0, <2>2, <3>1, <3>2 DEF QuietInv, QuietFrameAsSet
  <2> QED
    BY <1>0, <1>3, <2>1, <2>2
<1> QED
  BY <1>5 DEF QuietFrameAsSet

LEMMA NextKeepsQuietInv ==
  ASSUME AlwaysCleaned, PipelineInv, StoresInv, QuietInv, [Next]_vars
  PROVE  QuietInv'
<1>1. recvFailures' = 0 /\ quiet' => QuietFrame'
  BY NextKeepsQuiet DEF QuietInv
<1>2. QuietFrameAsSet'
  <2>1. UNCHANGED current_mode
    BY NextKeepsMode
  <2>2. CASE UNCHANGED played
    BY <2>1, <2>2 DEF QuietInv, QuietFrameAsSet
  <2>3. CASE MainStep \/ Command \/ CmdStep
    BY <2>2, <2>3 DEF MainStep, InitRpmsg, InitBuffers, InitHostInterface, MainSync,
       MainStore, MainStoreUnmapped, MainStoreArm, MainStart, MainLeave, DestroyData,
       DestroyOptions, Revert, Advance, Command, ReceiveCommand, EnableFilter, CmdStep,
       CmdSyncStart, CmdStore, CmdStoreUnmapped, CmdSyncEnd, CmdEnd, CmdStoreArm,
       history
  <2>4. CASE AudioStep /\ ~PlayFrame
    BY <2>2, <2>4 DEF AudioStep, OpenAudio, BeginFrame, ReadFrame, ReadUpTo,
       ReadUnmapped, Exit, HandOverFrame, HandOver, ProcessChannel, ProcessUpTo,
       SendRequest, Send, RecvReply, RecvFails, RetakeData, Retake, RetakeOptions,
       ReleaseOptions, ReleaseData, history
  <2>5. CASE DspStep \/ CacheStep \/ UNCHANGED vars
    BY <2>2, <2>5 DEF DspStep, DspTake, DspWrite, DspReply, CacheStep, vars, history
  <2> QED
    BY <2>3, <2>4, <2>5, PlayFrameKeepsSet DEF Next, AudioStep
<1> QED
  BY <1>1, <1>2 DEF QuietInv

LEMMA InitQuietInv == Init => QuietInv
BY DEF Init, QuietInv, QuietFrame, QuietFrameAsSet

(* Where an invalidation cleans dirty lines first, a frame that no command *)
(* meets and whose reply comes is played as the setting says, on all       *)
(* channels, and reported with its own load, until a recv_msg has failed:  *)
(* for any number of frames, channels and commands.                        *)
THEOREM QuietFramesAreSet == AlwaysCleaned => (Spec => []QuietFrameAsSet)
<1> SUFFICES ASSUME AlwaysCleaned PROVE Spec => []QuietFrameAsSet
  OBVIOUS
<1>1. PipelineInv /\ StoresInv /\ QuietInv /\ [Next]_vars => QuietInv'
  BY NextKeepsQuietInv
<1>2. QuietInv => QuietFrameAsSet
  BY DEF QuietInv
<1> QED
  BY <1>1, <1>2, InitQuietInv, PipelineInvHolds, StoresInvHolds, PTL DEF Spec
=============================================================================
