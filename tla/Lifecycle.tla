----------------------------- MODULE Lifecycle -----------------------------
(***************************************************************************)
(* The life of the audio offload process as the firmware of the DSP sees   *)
(* it: main (rpmsg_audio_example.c) switches to the filter firmware, works *)
(* and switches back; SIGINT, on any thread and at any time, switches back *)
(* and exits.  A definition marked "Wrong:" is never used by Next; it is a *)
(* variant of the one after it with a bug one could make in the C code.    *)
(***************************************************************************)
EXTENDS FwLoader, FiniteSets

CONSTANTS
  Handlers,       \* bound: one for each SIGINT delivered
  current_mode,   \* "DSP" or "ARM"
  RprocAtBoot,    \* what the state file shows before the program starts
  MaxFaults,      \* bound: file operations of switch_firmware that fail
  MaxKills        \* bound: runs of the program that SIGPIPE ends

ASSUME ContextsAssumption == Contexts = {"main"} \cup Handlers /\ "main" \notin Handlers
ASSUME ModeAssumption     == current_mode \in {"ARM", "DSP"}
ASSUME BootAssumption     == RprocAtBoot \in {"offline", "running"}
ASSUME BoundsAssumption   == MaxFaults \in Nat /\ MaxKills \in Nat

VARIABLES
  main,         \* where main is, "load" and "revert" being its two switches
  on,           \* the thread each handler runs on, "none" before its SIGINT
  freed,        \* cleanup_config has been called
  process,      \* "alive", "exited", "aborted" or "killed"
  faults,       \* history: file operations that failed
  kills,        \* history: runs of the program that SIGPIPE ended
  disturbed     \* history: main and the handlers got in each other's way

vars == <<loader, main, on, freed, process, faults, kills, disturbed>>

Init ==
  /\ LoaderInit(RprocAtBoot, "old")
  /\ main = "start"
  /\ on = [h \in Handlers |-> "none"]
  /\ freed = FALSE
  /\ process = "alive"
  /\ faults = 0
  /\ kills = 0
  /\ disturbed = FALSE

Delivered == {h \in Handlers : on[h] # "none"}

(* A handler on main's own thread suspends main, and never returns to it.  *)
MainRuns == process = "alive" /\ \A h \in Handlers : on[h] # "main"

(* Wrong: the two paths swapped. *)
TargetSwapped(c) == IF c = "main" /\ main = "load" THEN "old" ELSE "new"
Target(c) == IF c = "main" /\ main = "load" THEN "new" ELSE "old"

-----------------------------------------------------------------------------
(* main. *)

BeginLoad ==
  /\ MainRuns
  /\ main = "start"
  /\ IF current_mode = "DSP"
       THEN main' = "load" /\ Call("main")
       ELSE main' = "init" /\ UNCHANGED loader
  /\ UNCHANGED <<on, freed, process, faults, kills, disturbed>>

(* switch_firmware's result is ignored, both times. *)
SwitchReturns ==
  /\ MainRuns
  /\ at["main"] = "return"
  /\ Goto("main", "idle")
  /\ main' = IF main = "load" THEN "init" ELSE "cleanup"
  /\ UNCHANGED <<rproc, image, link, on, freed, process, faults, kills, disturbed>>

(* init_host_interface starts the other threads, or exits when the UART    *)
(* does not open.                                                          *)
InitHostInterface ==
  /\ MainRuns
  /\ main = "init"
  /\ \/ main' = "loop" /\ UNCHANGED <<process, disturbed>>
     \/ process' = "exited" /\ disturbed' = TRUE /\ UNCHANGED main
  /\ UNCHANGED <<loader, on, freed, faults, kills>>

(* Wrong: the original firmware is not asked for again. *)
LeaveLoopForGood ==
  /\ MainRuns
  /\ main = "loop"
  /\ main' = "cleanup"
  /\ disturbed' = (disturbed \/ Delivered # {})
  /\ UNCHANGED <<loader, on, freed, process, faults, kills>>

LeaveLoop ==
  /\ MainRuns
  /\ main = "loop"
  /\ IF current_mode = "DSP"
       THEN main' = "revert" /\ Call("main")
       ELSE main' = "cleanup" /\ UNCHANGED loader
  /\ disturbed' = (disturbed \/ Delivered # {})
  /\ UNCHANGED <<on, freed, process, faults, kills>>

(* Freeing the strings of app_config a second time aborts. *)
CleanupConfig ==
  /\ process' = IF freed THEN "aborted" ELSE "alive"
  /\ freed' = TRUE

MainCleanup ==
  /\ MainRuns
  /\ main = "cleanup"
  /\ CleanupConfig
  /\ main' = "return"
  /\ UNCHANGED <<loader, on, faults, kills, disturbed>>

MainReturn ==
  /\ MainRuns
  /\ main = "return"
  /\ process' = "exited"
  /\ UNCHANGED <<loader, main, on, freed, faults, kills, disturbed>>

-----------------------------------------------------------------------------
(* handle_sigint. *)

(* SIGINT is blocked in the thread that handles one.  Other threads exist  *)
(* only once init_host_interface has run.                                  *)
Sigint(h) ==
  /\ process = "alive"
  /\ on[h] = "none"
  /\ \/ on' = [on EXCEPT ![h] = "main"] /\ MainRuns
     \/ on' = [on EXCEPT ![h] = "other"] /\ main \notin {"start", "load", "init"}
  /\ IF current_mode = "DSP"
       THEN Call(h)
       ELSE Goto(h, "return") /\ UNCHANGED <<rproc, image, link>>
  /\ disturbed' = (disturbed \/ main \notin {"start", "init", "loop"} \/ Delivered # {})
  /\ UNCHANGED <<main, freed, process, faults, kills>>

HandlerCleanup(h) ==
  /\ process = "alive"
  /\ at[h] = "return"
  /\ CleanupConfig
  /\ Goto(h, "exit")
  /\ UNCHANGED <<rproc, image, link, main, on, faults, kills, disturbed>>

(* Wrong: without exit(0) the interrupted thread goes on. *)
HandlerReturn(h) ==
  /\ process = "alive"
  /\ at[h] = "exit"
  /\ Goto(h, "idle")
  /\ on' = [on EXCEPT ![h] = "returned"]
  /\ UNCHANGED <<rproc, image, link, main, freed, process, faults, kills, disturbed>>

HandlerExit(h) ==
  /\ process = "alive"
  /\ at[h] = "exit"
  /\ process' = "exited"
  /\ UNCHANGED <<loader, main, on, freed, faults, kills, disturbed>>

-----------------------------------------------------------------------------
(* Either of them inside switch_firmware. *)

Runs(c) == IF c = "main" THEN MainRuns ELSE process = "alive"

SwitchFirmware(c) ==
  /\ Runs(c)
  /\ SwitchStep(c, Target(c))
  /\ UNCHANGED <<main, on, freed, process, faults, kills, disturbed>>

SwitchFault(c) ==
  /\ Runs(c)
  /\ faults < MaxFaults
  /\ SwitchFails(c)
  /\ faults' = faults + 1
  /\ UNCHANGED <<main, on, freed, process, kills, disturbed>>

-----------------------------------------------------------------------------
(* The host goes away, and log_writer's next line or the audio thread's    *)
(* next send raises SIGPIPE, which ends the process on the spot.  The core *)
(* is left as it is.                                                       *)
BrokenPipe ==
  /\ process = "alive"
  /\ kills < MaxKills
  /\ main \notin {"start", "load", "init"}
  /\ process' = "killed"
  /\ kills' = kills + 1
  /\ disturbed' = (disturbed \/ main = "revert" \/ Delivered # {})
  /\ UNCHANGED <<loader, main, on, freed, faults>>

(* The program is run again and goes by the same configuration.            *)
StartAgain ==
  /\ process = "killed"
  /\ process' = "alive"
  /\ main' = "start"
  /\ at' = [c \in Contexts |-> "idle"]
  /\ on' = [h \in Handlers |-> "none"]
  /\ freed' = FALSE
  /\ UNCHANGED <<rproc, image, link, faults, kills, disturbed>>

-----------------------------------------------------------------------------
MainStep ==
  \/ BeginLoad \/ SwitchReturns \/ InitHostInterface
  \/ MainCleanup \/ MainReturn \/ SwitchFirmware("main")

HandlerStep(h) == HandlerCleanup(h) \/ HandlerExit(h) \/ SwitchFirmware(h)

Next ==
  \/ MainStep \/ LeaveLoop
  \/ BrokenPipe \/ StartAgain
  \/ \E h \in Handlers : Sigint(h) \/ HandlerStep(h)
  \/ \E c \in Contexts : SwitchFault(c)

Spec == Init /\ [][Next]_vars

(* Each thread keeps running.  The audio thread may never ask main to      *)
(* leave its loop, and no signal need come.                                *)
Fairness == WF_vars(MainStep) /\ \A h \in Handlers : WF_vars(HandlerStep(h))

FairSpec == Spec /\ Fairness

-----------------------------------------------------------------------------
TypeOK ==
  /\ rproc \in {"offline", "running"}
  /\ image \in Images
  /\ link \in Images \cup {"none"}
  /\ at \in [Contexts -> Switching \cup {"idle", "return", "exit"}]
  /\ main \in {"start", "load", "init", "loop", "revert", "cleanup", "return"}
  /\ on \in [Handlers -> {"none", "main", "other"}]
  /\ freed \in BOOLEAN /\ disturbed \in BOOLEAN
  /\ process \in {"alive", "exited", "aborted", "killed"}
  /\ faults \in Nat /\ kills \in Nat

(* There is no lock, but the driver's refusal to stop an offline core does *)
(* for one: of all the contexts in switch_firmware, suspended ones         *)
(* included, at most one is past its stop, and the core stays off until    *)
(* that one starts it.                                                     *)
SwitchIsExclusive ==
  /\ \A c \in Contexts : at[c] \in AfterStop => rproc = "offline"
  /\ \A c, d \in Contexts : at[c] \in AfterStop /\ at[d] \in AfterStop => c = d

(* Whoever starts the core starts the firmware it was called with, however *)
(* other calls are interleaved with its own.                               *)
StartedIsTarget ==
  [][\A c \in Contexts :
       at[c] = "write_start" /\ rproc = "offline" /\ rproc' = "running"
         => image' = Target(c)]_vars

Over == process \in {"exited", "aborted"}

(* A program that leaves its loop by itself, or that one SIGINT ends while *)
(* it is not switching, leaves the core as the first run found it, even    *)
(* when earlier runs died of SIGPIPE with the filter firmware loaded.      *)
RestoredOnExit ==
  Over /\ ~disturbed /\ faults = 0 =>
    /\ process = "exited"
    /\ rproc = RprocAtBoot
    /\ image = "old" /\ link = "old"

(* Once main is in its loop the core runs the filter firmware, also when   *)
(* the run before this one left it there.                                  *)
RunsOnNewFirmware ==
  current_mode = "DSP" /\ main = "loop" /\ Delivered = {} /\ ~disturbed /\ faults = 0 =>
    rproc = "running" /\ image = "new"

(* Whenever the program is over, the original firmware runs again.         *)
OriginalFirmwareRestored ==
  Over /\ faults = 0 => rproc = "running" /\ image = "old"

(* A SIGINT ends the program. *)
SigintEndsProgram ==
  \A h \in Handlers : (on[h] # "none") ~> (process # "alive")
=============================================================================
