# Verification of rpmsg-dma

TLA+ models of the `rpmsg-dma` library and of its one client, the audio offload
example with its host utility; TLC configurations that check them on small
instances; and proofs, checked by TLAPS, of what matters most for every value of
the constants.

Paths below are relative to the repository: `library/…` is `src/library/…`,
`example/…` is `src/example/audio_offload/…`.

## 1. The system

A Linux program on an ARM core plays a WAV file, frame by frame. Each frame is
filtered by the ARM core itself or by a DSP (a remoteproc core called C7x) that
shares two dma-bufs with it and takes requests over rpmsg. While it runs, a
Python GUI on another machine draws metrics and spectra, and can switch the
filter on and off.

| Component | Source | State it keeps | Operations |
|---|---|---|---|
| Log ring | `example/src/host_interface.c` 219–251 | `log_queue`, `log_head`, `log_tail`, `log_mutex`, `log_cond`, `client_log_fd` | `enqueue_log`, `log_writer`, `wait_for_log_client` |
| Offload pipeline | `example/src/rpmsg_audio_example.c`, `library/src/rpmsg.c` | `lbuf`/`ibuf`, `dspParams`, `filter_enabled`, `start_requested`, `rpmsg_fd`, the messages in flight | `run_audio_processing_thread`, `process_on_arm`, `process_on_dsp`, `init_rpmsg`, `send_msg`, `recv_msg`, `enable_filter`, `main` |
| dma-buf | `library/src/dmabuf.c` 125–133 | memory, the CPU cache's line | `dmabuf_sync` |
| dma-heap | `library/src/dmabuf.c` 16–123 | `dma_buf_params`, the descriptor table | `dmabuf_heap_init`, `dmabuf_heap_destroy` |
| Firmware loader | `library/src/fw_loader.c` | the remoteproc state file, the firmware link | `switch_firmware` and its parts |
| Life cycle | `rpmsg_audio_example.c` 26–34, 244–316, `config.c` 128–135 | where `main` is, what has been freed | `main`, `handle_sigint`, `cleanup_config` |
| Host connections | `host_interface.c` 48–152, `audmon.py` 120–186, 430–478 | `client_*_fd`; `sock*`, `connected*` | `init_*_interface`, `wait_for_*_client`; `wait_for_*`, `read_data` |
| Filter switch | `host_interface.c` 253–309, `audmon.py` 242–301, 617–625 | `linebuf`, `lineofs`; `toggle_filter.state` | `cmd_listener`; `toggle_filter`, `send_command`, `clear_data` |
| Sample streams | `host_interface.c` 155–217, `metrics.c` 51–67, `audmon.py` 370–428 | `send_inbuffer`, `send_inoffset`; `waveform_insamples` | `enqueue_input_buffer`, `flush_send_input_buffer`; `read_input_audio_samples`, `inrecv_exact` |
| Log display | `metrics.c` 69–98, `audmon.py` 331–368, 430–510 | `recv_buffer`, `frame_numbers`, `modes`, `live_summary` | `log_frame_metrics`, `log_summary`; `read_data`, `parse_log_line`, `update_live_summary`, `clear_data` |
| Configuration | `config.c` | `app_config` | `load_config` (not modelled), `cleanup_config` (in the life cycle) |

How they interact:

* **Shared memory between threads.** The audio thread, the command thread, the
  log thread, four accepting threads and `main` share globals. One mutex exists,
  around the log ring; `filter_enabled`, `start_requested`, `isCmdConnected`,
  every `client_*_fd` and the options buffer are shared without one.
* **Shared memory with the DSP.** The two dma-bufs are cached on the ARM side.
  Which of the two cores may touch a buffer is settled by nothing but the rpmsg
  message and the two calls of `dmabuf_sync` around it.
* **Signals.** `SIGINT` runs `switch_firmware`, `cleanup_config` and `exit` on
  whatever thread it lands on, at any point of what the others do. `SIGPIPE`, which
  a write to a host that went away raises, ends the process on the spot.
* **TCP.** Four connections. The device accepts each once in its life; the host
  connects to them in turn, and to all of them again after the log connection
  breaks.

What is hard, and what makes each component correct:

* the ring is never tested for being full: which lines are lost, in which order
  the rest leave, whether the writer can sleep through one;
* a frame must be read, filtered and played by the right core with the right
  bytes, whatever the cache does of its own accord and whichever call fails;
* a reply that was given up is still delivered, later;
* filter settings come from two threads and the configuration, and are read by
  two cores;
* `main` frees the buffers while other threads, and perhaps the DSP, still use them;
* firmware switches interrupt each other, their results are ignored, and a run that
  is killed leaves its firmware to the next;
* byte streams are cut anywhere; connections of one life of the program meet
  sockets, threads and half-received lines of another;
* an initialisation of five system calls fails at each of them.

`PROJECT.json` lists these one by one under `hazards`, at the line where each
bites, with the properties that cover it or the reason none does.

## 2. The modules

Every action stands for one uninterruptible piece of a C or Python function (a
system call, one access to shared state, or a run of steps on private state),
and carries the function's name or the line's purpose; `PROJECT.json` maps each
definition to its lines. Definitions whose comment begins with "Wrong:" are not
part of the model: each is the definition after it with a bug that someone could
make, and some property is violated when it takes that definition's place. They
show that the property can fail.

| Module | Models | Runs |
|---|---|---|
| `LossyLog` | what the log path promises: no mutex, no ring, no indices | (through `LogQueue`) |
| `LogQueue` | the ring, its two users under mutex and condition variable, the accepting thread | `log_queue` |
| `LogQueueProofs` | theorems about `LogQueue` | |
| `DmaBuffer` | one buffer as two cores see it, and `dmabuf_sync` | (through `OffloadPipeline`) |
| `Playback` | what the audio path promises a listener: no threads, buffers, caches or messages | (through `OffloadPipeline`) |
| `OffloadPipeline` | audio thread, command thread, `main` from `init_rpmsg` on, DSP, cache | `pipeline_dsp`, `pipeline_settings`, `early_command` |
| `OffloadPipelineProofs` | theorems about its frames, messages, settings and end, and the refinement of `Playback` | |
| `FwLoader` | `switch_firmware` for several callers at once | (through `Lifecycle`) |
| `Lifecycle` | `main` and the signal handlers around it, over several runs | `lifecycle`, `sigint_during_switch`, `offline_at_boot` |
| `LifecycleProofs` | theorems about `Lifecycle` | |
| `HostLink` | connections between the device program and the host utility | (through the modules that extend it) |
| `HostLinkProofs` | lemmas about `HostLink`, and about streams cut in parts | |
| `FilterControl` | `HostLink` and what travels on the command port | `filter_control`, `button_disagrees` |
| `FilterControlProofs` | theorems about `FilterControl` | |
| `SampleStream` | `HostLink` and what travels on the sample ports | `sample_stream` |
| `SampleStreamProofs` | theorems about `SampleStream` | |
| `LogDisplay` | `HostLink`, what travels on the log port, and what the screen makes of it | `log_display` |
| `LogDisplayProofs` | theorems about `LogDisplay` | |
| `DmaHeap` | `dmabuf_heap_init` and `_destroy` on the descriptor table | `dma_heap` |
| `DmaHeapProofs` | theorems about `DmaHeap` | |

### LogQueue

`enqueue_log` is `EnqueueTest` (the unlocked look at `client_log_fd`),
`EnqueueLock`, `EnqueueStore`, `EnqueuePublish`; `log_writer` is `WriterStart`,
then `WriterLock`, `WriterTest` (which may wait), `WriterTake`, `WriterCheck`,
`WriterPrint` for each line. A message is its number. `client_log_fd` starts as
`"fd0"`: a zero-initialised global names the standard input, and passes every
`>= 0` test of the code. `accept` may fail, which leaves `"invalid"`.

`LossyLog` says what this amounts to. A put on a full backlog neither waits nor
drops a message: it empties the backlog, its own message included, since
`log_tail` catching up with `log_head` makes a full ring an empty one.
`ImplementsLossyLog` is that refinement: `pending` is the run of slots from
`log_head` to `log_tail`, `current` the line taken last.

### DmaBuffer, OffloadPipeline and Playback

A buffer is one cache line: memory, the line's contents, and whether the line is
absent, clean or dirty. `dmabuf_sync` looks at the END bit of its argument, as
the kernel does: END cleans the line, START invalidates it. What an invalidation
does to a dirty line is a constant, `OnInvalidate`: `"cleaned"` (arm64 kernels
clean and invalidate) or `"dropped"`. `CacheStep` fetches and evicts whenever it
likes. A frame is its number and, for each channel, the mark of how it was
filtered.

`main` goes from `InitRpmsg`, whose failure nobody looks at (every `send_msg` fails
then), through `InitBuffers`, where either `dmabuf_heap_init` may fail, which nobody looks
at either, and `InitHostInterface`, which starts the command thread, to the three
steps of storing the configured setting (`MainSync`, `MainStore`, `MainSync`; one step,
`MainStoreArm`, in ARM mode) and to its polling loop: `MainStart` creates the audio thread,
`MainLeave` sees `EXIT_PLAY`. Then `DestroyData`, `DestroyOptions` and `Revert`. Nobody
stops the command thread meanwhile: a command that it has read by then is stored
through an unmapped pointer (`CmdStoreUnmapped`, which may end the program). If an
initialisation failed there is no mapping from the start: in DSP mode `main`'s own store
ends the program (`MainStoreUnmapped`), and the audio thread's read fails like one at the
file's end, or ends the program too (`ReadUnmapped`).

The audio thread goes through `BeginFrame`, `ReadFrame`, `HandOverFrame`, then
`ProcessChannel` for each channel, or `SendRequest` and `RecvReply`, each of which
may fail; then `RetakeData`, `RetakeOptions`, `PlayFrame` and the two releases.
The DSP firmware is a binary in the repository. It is external here: it takes a request,
reads frame and setting, writes the frame and `dsp_load`, replies.
`played` is the history the properties speak of: what the player and the metrics
were given, with the setting and the failures up to then. Which mode a run is in is a
variable that `Init` chooses from the constant `Modes`.

`Playback` is the same for a listener. The next frame is taken from the file; if it
can be given to the DSP it is heard filtered, otherwise as it was read; once a reply
has been given up, any block may be heard, but still one for each frame.
`ImplementsPlayback` maps the frame in work to `taken`, the blocks of `played` to `heard`.

### FwLoader and Lifecycle

`FwLoader` has a program counter for every context that can be inside
`switch_firmware`. The state file shows `"offline"` or `"running"`; the words
written are `"stop"` and `"start"`, which is why the comparison in
`write_state_if_needed` is never true. The driver (external) refuses to stop a
core that is offline and ignores a start of one that runs. `Lifecycle` adds
`main`, a handler for each `SIGINT` (on `main`'s thread, which then never
continues, or on another), the frees of `cleanup_config`, and faults of any file
operation. `BrokenPipe` is a `SIGPIPE`: the process ends without either revert, and
`StartAgain` runs the program once more on the core as it was left. `disturbed` records
that `main`, a handler or a `SIGPIPE` interrupted a switch or came when one was on its
way: what the code does then is the matter of the violation runs.

### HostLink, FilterControl, SampleStream and LogDisplay

`HostLink` holds the connections. The device program starts, listens, accepts
each port once, and may end at any time and be started again; the host's
`read_data` thread is at the port it connects to next, in `clear_data`, or in
`recv` on the log. Old sockets are closed when a new attempt is made, as in
`wait_for_*`; after a break two of the four flags are cleared, as in the handler
at `audmon.py` 473–478. `PortSet` names the ports a module is interested in; the host
takes them in the order of `read_data` (`Ports`), whichever they are.

`FilterControl` adds the command stream. A line is five symbols, two for the 15
bytes that are compared; a read takes any number of symbols; `linebuf` and what
has been read outlive a read. `PressButton` and `SendCommand` are the two halves
of `toggle_filter`, on the GUI's thread, with anything in between.

`SampleStream` adds the input spectrum's stream: the send buffer that is flushed
when the next frame does not fit, and the host's reader threads. A reader looks
the socket up in a global at every `recv`, and one whose connection ends while it
is not in `recv` outlives it. `TailIsLost` takes words off the end of what a dead program,
or a host that went away, had in flight. The output stream is a second copy of the
same code with other names, and not modelled.

`LogDisplay` adds the log: a line for each frame and, now and then, a summary, as
`metrics.c` prints them; `recv` takes any number of pieces of them (`ReadData`), once no
newline is left in `recv_buffer`; one after the other, the whole lines in it are split off
and shown (`ReadLine`). A line is three pieces and its
newline, the pieces being as long as the host's tests can tell apart: two that the
prefix is recognised by, and the rest, which a search finds anywhere in the line. So a
line that is joined to the end of an older one is parsed as `audmon.py` parses it.
`TailIsLost` is as in `SampleStream`. `recv_buffer` outlives connections, as in the code.

### DmaHeap

The caller is any: it may try an `init` that failed again, and may `destroy` a buffer
whether its `init` has failed or not. `main` never looks, and destroys both buffers at
its end. `careless` remembers that a buffer was destroyed whose `init` had failed. Descriptors are numbers, and a new one is the lowest free one, so a number that
is closed once too often may be somebody else's by then. Each of the five
calls of `dmabuf_heap_init` is a step that succeeds or fails, with other threads
opening and closing sockets in between.

## 3. The runs

| Run | Distinct states | Bounds, and why they are enough |
|---|---|---|
| `log_queue` | 4,894 | 3 slots, 7 messages: two laps, the writer anywhere in between |
| `pipeline_dsp` | 115,827 | 3 frames of 2 channels, 2 failures: two lost replies, and a frame after them; an invalidation cleans or drops |
| `pipeline_settings` | 264,818 | both modes, 3 frames of 2 channels, 2 commands: they meet each other, `main`'s store, each frame and the frees |
| `lifecycle` | 44,192 | `main` and 2 handlers, 2 faults, 1 `SIGPIPE`: three callers of `switch_firmware`, and a run after a killed one |
| `filter_control` | 43,118 | 2 runs, 5 connections, 2 presses, reads of up to 3 symbols: a line cut anywhere, a reconnection |
| `sample_stream` | 229,675 | 2 runs of 3 frames, 4 connections, frames of 2 words in a buffer of 5: every frame but a run's last makes room for the next |
| `dma_heap` | 4,644,672 | 7 descriptors, 3 inits, 2 sockets: one buffer ready, the other tried twice, the table full, a failed one destroyed with others' descriptors in its place |
| `log_display` | 725,121 | log and command port, 4 connections, 2 runs of 3 frames on a screen of 2, a summary of 2 lines after the second frame: what one connection leaves meets the first line of the next, and a run ends anywhere on `read_data`'s way from port to port; the modes alternate, and which is first makes no difference but for its name |
| `early_command`, `sigint_during_switch`, `offline_at_boot`, `button_disagrees` | | find a violation, see below |

What they show:

* **`log_queue`** Lines leave in the order they were enqueued and none twice
  (`PrintedInOrder`). Losses come in whole laps (`LossInWholeLaps`), and without
  a lap there is none (`NoGapWithoutLap`). The ring refines `LossyLog`. No wake-up
  is lost (`BacklogIsDrained`), and a line logged while the host is connected
  reaches it unless a lap takes it (`ConnectedHostGetsLog`).
* **`pipeline_dsp`** As long as no `recv_msg` fails, the DSP has the frame to
  itself while it works (`DspHasFrameAlone`), and the n-th frame of the file is
  the n-th played, filtered on every channel (`PlayedInOrder`). A `send_msg` that
  fails costs the filtering of that frame and nothing else. A `recv_msg` that
  fails leaves one reply too many in the endpoint for good (`RepliesOwed`), and
  every promise about later frames is off, which is why the properties say "no
  `recv_msg` has failed"; what remains is `ImplementsPlayback`, one block out for
  each frame in. Until then the DSP has also let go of both buffers by the time
  `main` frees them (`DspDoneBeforeFree`), though nothing in `main` asks.
* **`pipeline_settings`** A frame during which no command arrives is filtered as
  the last store said, on every channel, and reported with its own load
  (`QuietFrameAsSet`). What the DSP reads is what was stored last, whenever no
  thread has still to end the session it stored in (`SettingInMemory`), though access
  sessions overlap and the DSP writes the same line. Both rest on `OnInvalidate =
  {"cleaned"}`: if an invalidation dropped dirty lines, the audio thread's START on
  the options buffer could drop the command thread's store. In ARM mode
  `process_on_arm` writes the data buffer outside any access session; this is
  harmless only because the next START cleans before it invalidates. In both runs
  `main` comes to revert the firmware, whichever sends, receives and initialisations
  fail, unless the program ends first for a buffer that was never mapped, or for a
  command that arrives after the buffers are freed (`MainReverts`).
* **`lifecycle`** There is no lock around `switch_firmware`, but the driver's
  refusal to stop an offline core serves as one: at most one caller is past its
  stop, and the core is off while one is (`SwitchIsExclusive`); whoever starts the
  core starts its own firmware (`StartedIsTarget`). Once `main` is in its loop the
  core runs the filter firmware (`RunsOnNewFirmware`), and a program that ends while
  nobody is switching leaves the core as the first run found it (`RestoredOnExit`);
  both also when `SIGPIPE` ended the run before and left the filter firmware loaded.
  `SIGINT` ends the program, if only by `abort` in a second `free`
  (`SigintEndsProgram`).
* **`filter_control`** Whatever the cuts, the listener obeys a prefix of what was
  sent on the connection it accepted (`ObeysWhatWasSent`), and all of it in the
  end (`SentIsObeyed`). When all is at rest the button shows the setting in
  effect, unless a press overlapped a reconnection or was obeyed before `main`'s
  own store (`ButtonShowsSetting`).
* **`sample_stream`** The samples shown are whole frames, each after the one
  before, as long as no reader thread outlives its connection into the next one
  (`WaveformInStep`); what is sent is read (`StreamIsRead`).
* **`log_display`** However `recv` cuts the log, the screen shows the frames whose
  lines have been read from this connection, in order and without a gap up to the
  last, but perhaps for the first, whose line was joined to what the last connection
  left in `recv_buffer` (`ShowsWhatWasSent`). Which line was read last follows from what
  was sent and what is still on its way or in `recv_buffer`. For the same reason one
  entry on the screen, never two, may be an older connection's (`OneLeftover`). `animate`
  takes a frame's mode from the same place of a list that is not bounded as the frames
  are; the two stay in step but for that first entry (`FramesInTheirMode`). What is sent is read (`LogIsRead`), although
  `read_data` first connects to the other ports and waits for each without limit
  (`audmon.py` 441–443), with one exception: if the program ends before it has
  connected to them, the log it has sent stays unread until somebody starts the program
  again. The command port stands for all three, each of which is waited for in the same way.
* **`dma_heap`** Whichever call of an `init` fails, and whatever other threads do, the
  library closes its own descriptors only (`NeverStrays`) and holds what
  `dma_buf_params` says, but for the heap's own descriptor, of which each init loses one
  (`HoldsAsStated`): until a buffer is destroyed whose `init` has failed, as `main` would.
  Then `dmabuf_heap_destroy` may close descriptor 0, or one that another thread has been
  given since: without that proviso TLC refutes both.

The four violations, with their findings in `PROJECT.json`:

* **`early_command`** `main` stores the configured setting after it has started
  `cmd_listener`: a command obeyed in between is overwritten.
* **`sigint_during_switch`** A `SIGINT` between `main`'s stop and start: the handler's
  own stop is refused, it gives up and exits with the core off.
* **`offline_at_boot`** A core that is offline when the program starts is told to
  stop, refuses, and the new firmware is never started.
* **`button_disagrees`** A press after the log connection is made and before the
  command connection is: the button turns, nothing is sent.

`CHECK_DEADLOCK FALSE` in every configuration: all of these systems may stop, when
the file has been played, the program has exited, or a bound is reached.

### Fairness

Weak fairness of each thread, never of one branch inside it, since the Linux
scheduler runs what can run. Nothing obliges the user to press, a host to
connect, a signal to come, a call to fail, the cache to move, or a condition
variable to wake unsignalled. The mutex of the log ring is contended by two
threads that each hold it briefly, and weak fairness of each is enough.
`OffloadPipeline` also assumes that a DSP with a request answers it. `recv_msg`
has no timeout, so without that `main` would wait for ever. `FilterControl`,
`SampleStream` and `LogDisplay` assume that TCP delivers to a host that reads.

## 4. The proofs

`tlapm` checks the eight `*Proofs` modules. Their theorems hold for all values of the constants that
the `ASSUME`s of the modules allow, the bounds of the runs included.

**LogQueueProofs.** `IndInv` is inductive: types; who holds the mutex by where each
thread is (`MutexHeld`); the pending slots hold the last `Backlog` numbers, oldest
first (`SlotsHoldBacklog`); the writer takes only what is pending, and what it
took is older than all that is (`TakenBeforePending`); what is printed is older
than what was taken last (`PrintedUpToMsg`). `PrintedInOrder` alone is not
inductive: a step that prints needs to know that the line it holds is newer than
all printed, and that comes from the order of the slots. The arithmetic of the
ring is in four lemmas on `NextSlot`, `Backlog` and `SlotAt`. Theorems:
`LogQueueTypeCorrect`, `LinesLeaveInOrder`, `WholeLapsAreLost`,
`NothingSkippedWithoutLap`, and `LogQueueImplementsLossyLog`, the refinement.

**LifecycleProofs.** `LifecycleInv` adds two facts to the types and to
`SwitchIsExclusive`: `main` is inside the loader only where its own code calls it
(`MainSwitchesInPlace`), and a context between its symlink and its `start` finds the
link it has made itself (`LinkIsTarget`), which no other can have changed since, the
core being off and everybody else before its stop. Theorems: `LifecycleTypeCorrect`,
`SwitchesExclude`, `StartsItsTarget`, for any number of handlers and faults.
A second invariant, `Undisturbed`, describes the program as long as nobody gets in
anybody's way and no file operation fails: `main` is alone (`MainAlone`), or one
handler is, with `main` somewhere it is not switching (`HandlerAlone`), or it is all
over (`EndedWell`). `CoreIs` gives core, image and link for each place in
`switch_firmware`. `main = "start"` allows either image, which is how a run finds what a
killed one left. Theorems, for any number of handlers and killed runs: `CoreIsRestored`,
in both modes and whether or not the core was on at first, and `CoreRunsFilter`, which
needs a core that was on (`offline_at_boot` shows why).

**OffloadPipelineProofs.** `PipelineInv` is inductive. `FrameInWork` says where the frame
is for each place the audio thread can be at: in the CPU's cache, sure to reach
memory (`Fresh`); in memory, with nothing about to be written over it (`InMemory`);
or in both (`Shared`). The three are what `CacheStep` cannot disturb (`CacheKeeps`), and
each call of `dmabuf_sync` takes the frame from one to the next (`ContentsTravel`).
`FrameAway` splits the wait for the reply by what the DSP has done. That the reply
which comes is the one to this frame rests on `RepliesOwed`: with no failed receive
behind it, one message at most is in flight. `FramesPlayed` and `PathOfMode` count the
frames and keep each mode to its own path. Theorems, for any number of frames,
channels, commands and failures: `PipelineTypeCorrect`, `RepliesAreOwed`,
`DspWorksAlone`, `DspLetsGoBeforeFree`, `FramesPlayedInOrder`, and
`PipelineImplementsPlayback`, the refinement: each action maps to a step of `Playback` or
to none. The last two assume `NothingDropped`: on the ARM path an invalidation must
clean dirty lines; on the DSP's path it need not.

Its theorems on settings are all under `AlwaysCleaned`: an invalidation cleans dirty
lines, in both modes. `StoresInv` says that the options buffer's memory and cache line
hold the last setting, or a dirty line holds it and a thread has its END still to make
(`OptionsHold`), through any overlap of sessions and the DSP's own writes
(`SettingTravels`); hence `SettingReachesMemory`. Until the buffers are freed
(`NotFreed`) each place of `main` says whether the options buffer must be mapped there. `QuietInv` then follows a frame that
no command has met: what is filtered of it, or marked by the DSP, is as `setting` says
(`QuietFrame`), at each place of the audio thread. It rests on `PipelineInv` for where
the frame is and whose the reply is. Hence `QuietFramesAreSet`.

**DmaHeapProofs.** `HoldsInv`: a number in the table is a buffer's if and only if the
buffer's step says that it holds one and its `dma_buf_params` name that number
(`HeldByStep`), so that closing by number can only hit the caller's own. It needs that
the lowest unused number is unused, which is a lemma on `CHOOSE` (`LowestIsUnused`, by
well-founded induction over the naturals), and a count of the heap descriptors lost.
All of it holds until a
buffer is destroyed whose `init` has failed (`CarefulInv`), and nothing undoes that.
Theorems: `DmaHeapTypeCorrect`, `ClosesItsOwn` and `HoldsWhatItSays`.

**HostLinkProofs** has the invariant of the connections that the next three modules build
on, `LinkInv`: `HostLink`'s types; connections name runs there have been, and the device
accepts and the host holds connections for the right port only; and the flags follow
`read_data` on its way from port to port (`InTurn`). `Past(p)` says that it has connected
to `p` since it last started over. That a step along `Ports` makes exactly one more port
past holds for every set of ports, since `Ports` names each of them once and in order
(`PortsInOrder`). The rest is about sequences cut in two (`CutStream`).

**FilterControlProofs.** `FilterInv` joins the four places a command can be in: sent, on
the wire, read, in `linebuf`. `Carries(w, s, p)` says that the symbols `w` are what is
left, from the p-th on, of the lines for the settings `s`. `Following`: what the listener
has not scanned carries the settings sent, from a position that fits what it has obeyed
and what is in `linebuf` (`Parsed`, one disjunct for each place in a line); `Untouched`: a
connection to this run which nobody reads still carries everything. A read changes
neither, whatever its length, since buffer and wire are one sequence; a symbol scanned
takes the position one further (`ScanFollows`), a line sent makes the sequence longer
(`LineSentKeeps`). Hence `FilterTypeCorrect` and `ListenerObeys`, for any number of runs,
connections and presses, provided a command and its terminator fit `linebuf`.
`ButtonInv` adds that, until a press overlaps a reconnection, the button shows what was
sent last on the connection the host has, or is about to send it (`ButtonFollows`), and
that the setting is what was obeyed last unless a command came too early
(`SettingFollows`). At rest all that was sent has been obeyed (`AllObeyed`, from
`Following`), which joins the two: `ButtonIsRight`.

**SampleStreamProofs.** `WaveformInStep` is not inductive: what is shown next depends on
what a reader has got, what is on the wire and what the device still has in its buffer.
`Stream(c)` is the last two as one sequence, so that a flush changes nothing, and `Chain`
says that each word in it follows the one before in the file's order. `InStep` joins this
to what is shown: a reader's next word is the tag after the last frame shown, or the
samples its tag promised. Until a reader outlives its connection there is one running
reader at most, the last one (`ReadersInStep`). `Cleared` is for the moment it does:
between `clear_data` and the new connection a frame of the old one may still be shown, but
then its reader has gone back to waiting, and is what crowds the next. A tail that is lost
leaves a chain, a buffer sent nowhere a gap that only the next reader can meet. Theorems,
for any size of frame and buffer: `StreamTypeCorrect`, `SamplesStayInStep`.

**LogDisplayProofs.** `LogInv` is inductive. `Carries(w, r, s, o, a)`: after `o` pieces
that are left over, `w` is the lines of `s` from the one after line `a` on, cut into
pieces. `Reading` says so of `recv_buffer` and wire together, as long as the run lasts,
with the screen showing the lines up to `a` (`Shows`); the leftover is a part of a line of
an earlier run, and is there until the first line is read. So the first newline in
`recv_buffer` ends either a line of this run or the joined one (`LineCut`), and reading it
moves `a` by one. `OneLog` makes sure that this is the run's only log connection,
`OnTheWire` that nothing is sent on another, `Logged` that the lines sent follow each
other as the audio thread logs them, and `OutOfUse` that what `recv_buffer` keeps between
connections is a part of one line. `OnScreen` counts entries of earlier runs, the joined
line's being the only one (`FewLeft`), and keeps `modes` beside `frame_numbers`
(`ModesFit`) as the screen overflows. Theorems, for any screen, summary and number of
runs, connections and frames: `DisplayTypeCorrect`, `ScreenShowsLog`, `OneEntryLeft`,
`FramesInTheirColour`.

With these, every invariant, action property and refinement that the passing runs check
is a theorem. Only model-checked is what must happen in the end, since TLAPS 1.4.5 has no
fairness or ENABLED: `BacklogIsDrained`, `ConnectedHostGetsLog`, `MainReverts`,
`SigintEndsProgram`, `SentIsObeyed`, `StreamIsRead` and `LogIsRead`.

## 5. What is assumed, and what is left out

* Memory is sequentially consistent and accesses to one variable are atomic; the
  C program's races are interleavings, not undefined behaviour. Uninitialised `v`
  in `cmd_listener` is any value.
* External, and modelled from how the code uses them: DSP firmware, CPU cache,
  remoteproc driver, POSIX signals, TCP, the descriptor table.
* Samples, floating-point metrics, log lines' wording, plots, saved files, CMake
  files. `animate` draws from `columns` on another thread than the one that fills
  them; what becomes of a drawing made in between is `matplotlib`'s matter, and the
  next one replaces it.
* `load_config` runs once, before any thread exists, and its values are constants of
  the modules: it is straight-line string handling, with nothing concurrent and no
  failure that is handled.
* TCP cuts the stream at symbols (`FilterControl`), words (`SampleStream`) or pieces of
  a line (`LogDisplay`); a cut inside one changes nothing that the code tells apart.
  `send` blocks until all is sent, since the one handler the program installs never
  returns; what a program that ends in it leaves unsent is `TailIsLost`'s matter.
* UART mode of the connection modules. `LogQueue` and `Lifecycle` cover its part in theirs.
* `SIGINT` ends `OffloadPipeline`'s threads at any point, which none of its safety
  properties would notice; what it does to the core is `Lifecycle`'s matter.

## 6. What could come next

1. **UART mode**: the log and the commands on one serial port, with no connections.
2. **Configuration**: `load_config` against a reference definition. `trim` only cuts the
   end, a line of more than 255 characters is taken for several, and
   `init_config_defaults` is called by nobody.
3. **Stronger statements** of what is proved: `RestoredOnExit` with the faults that do no
   harm, `WaveformInStep` after a crowded moment has passed.
