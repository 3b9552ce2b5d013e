-------------------------- MODULE LifecycleProofs --------------------------
(***************************************************************************)
(* Proofs about Lifecycle for any number of signals and of file faults.    *)
(* The inductive invariant adds to SwitchIsExclusive that main is in a     *)
(* switch only where its code calls one, and that a context about to start *)
(* the core still finds the link it made: no other context can have        *)
(* replaced it, because no other is past its stop.                         *)
(***************************************************************************)
EXTENDS Lifecycle, TLAPS

USE ContextsAssumption, BootAssumption

(* main calls switch_firmware in two places only. *)
MainSwitchesInPlace ==
  at["main"] # "idle" => main \in {"load", "revert"}

(* A context that made its link finds it there when it starts the core. *)
LinkIsTarget ==
  \A c \in Contexts : at[c] \in {"read_start", "write_start"} => link = Target(c)

LifecycleInv == TypeOK /\ SwitchIsExclusive /\ MainSwitchesInPlace /\ LinkIsTarget

LEMMA InitLifecycleInv == Init => LifecycleInv
<1> SUFFICES ASSUME Init PROVE LifecycleInv
  OBVIOUS
<1> USE DEF Init, LoaderInit
<1>1. TypeOK
  BY DEF TypeOK, Images
<1>2. \A c \in Contexts : at[c] = "idle"
  OBVIOUS
<1>3. SwitchIsExclusive /\ LinkIsTarget
  BY <1>2 DEF SwitchIsExclusive, LinkIsTarget, AfterStop
<1>4. MainSwitchesInPlace
  BY <1>2 DEF MainSwitchesInPlace
<1> QED
  BY <1>1, <1>3, <1>4 DEF LifecycleInv

(* A step inside switch_firmware, completed or failed. *)
LEMMA LoaderStepKeepsInv ==
  ASSUME LifecycleInv, NEW c \in Contexts, faults' \in Nat,
         SwitchStep(c, Target(c)) \/ SwitchFails(c),
         UNCHANGED <<main, on, freed, process, kills, disturbed>>
  PROVE  LifecycleInv'
<1> USE DEF LifecycleInv
<1>1. at \in [Contexts -> Switching \cup {"idle", "return", "exit"}]
  BY DEF TypeOK
<1>2. at[c] # "idle" /\ at[c] \in Switching
  BY DEF SwitchStep, ReadStop, ReadStart, WriteStop, Unlink, Symlink, MakeLink,
         WriteStart, SwitchFails, Switching
<1>3. Target(c) \in Images /\ \A d \in Contexts : Target(d)' = Target(d)
  BY DEF Target, Images
<1>4. CASE ReadStop(c)
  <2>1. at' = [at EXCEPT ![c] = "write_stop"] /\ UNCHANGED <<rproc, image, link>>
    BY <1>4 DEF ReadStop, ReadState, Goto, TypeOK
  <2> QED
    BY <2>1, <1>1, <1>2, <1>3 DEF TypeOK, SwitchIsExclusive, MainSwitchesInPlace, LinkIsTarget,
       Switching, AfterStop
<1>5. CASE WriteStop(c)
  <2>1. CASE rproc = "running"
    <3>1. \A d \in Contexts : at[d] \notin AfterStop
      BY <2>1 DEF SwitchIsExclusive
    <3> QED
      BY <1>5, <2>1, <3>1, <1>1, <1>2, <1>3 DEF WriteStop, Goto, TypeOK, SwitchIsExclusive,
         MainSwitchesInPlace, LinkIsTarget, Switching, AfterStop
  <2>2. CASE rproc = "offline"
    BY <1>5, <2>2, <1>1, <1>2, <1>3 DEF WriteStop, Goto, TypeOK, SwitchIsExclusive,
       MainSwitchesInPlace, LinkIsTarget, Switching, AfterStop
  <2> QED
    BY <2>1, <2>2 DEF TypeOK
<1>6. CASE Unlink(c)
  <2>1. \A d \in Contexts \ {c} : at[d] \notin AfterStop
    BY <1>6 DEF Unlink, SwitchIsExclusive, AfterStop
  <2> QED
    BY <1>6, <2>1, <1>1, <1>2, <1>3 DEF Unlink, Goto, TypeOK, SwitchIsExclusive,
       MainSwitchesInPlace, LinkIsTarget, Switching, AfterStop
<1>7. CASE Symlink(c, Target(c))
  <2>1. \A d \in Contexts \ {c} : at[d] \notin AfterStop
    BY <1>7 DEF Symlink, MakeLink, SwitchIsExclusive, AfterStop
  <2>2. CASE link = "none"
    <3>1. /\ at' = [at EXCEPT ![c] = "read_start"]
          /\ link' = Target(c)
          /\ UNCHANGED <<rproc, image>>
      BY <1>7, <2>2 DEF Symlink, MakeLink, Goto
    <3>2. TypeOK'
      BY <3>1, <1>1, <1>3 DEF TypeOK, Switching
    <3>3. SwitchIsExclusive'
      BY <3>1, <2>1, <1>1, <1>7 DEF SwitchIsExclusive, AfterStop, Symlink, MakeLink
    <3>4. LinkIsTarget'
      BY <3>1, <2>1, <1>1, <1>3 DEF LinkIsTarget, AfterStop
    <3>5. MainSwitchesInPlace'
      BY <3>1, <1>1, <1>2 DEF MainSwitchesInPlace
    <3> QED
      BY <3>2, <3>3, <3>4, <3>5
  <2>3. CASE link # "none"
    <3>1. /\ at' = [at EXCEPT ![c] = "return"]
          /\ UNCHANGED <<rproc, image, link>>
      BY <1>7, <2>3 DEF Symlink, MakeLink, Goto
    <3>2. TypeOK'
      BY <3>1, <1>1 DEF TypeOK
    <3>3. SwitchIsExclusive'
      BY <3>1, <2>1, <1>1 DEF SwitchIsExclusive, AfterStop
    <3>4. LinkIsTarget'
      BY <3>1, <1>1, <1>3 DEF LinkIsTarget
    <3>5. MainSwitchesInPlace'
      BY <3>1, <1>1, <1>2 DEF MainSwitchesInPlace
    <3> QED
      BY <3>2, <3>3, <3>4, <3>5
  <2> QED
    BY <2>2, <2>3
<1>8. CASE ReadStart(c)
  <2>1. at' = [at EXCEPT ![c] = "write_start"] /\ UNCHANGED <<rproc, image, link>>
    BY <1>8 DEF ReadStart, ReadState, Goto, TypeOK
  <2> QED
    BY <1>8, <2>1, <1>1, <1>2, <1>3 DEF ReadStart, TypeOK, SwitchIsExclusive, MainSwitchesInPlace,
       LinkIsTarget, Switching, AfterStop
<1>9. CASE WriteStart(c)
  <2>1. \A d \in Contexts \ {c} : at[d] \notin AfterStop
    BY <1>9 DEF WriteStart, SwitchIsExclusive, AfterStop
  <2> QED
    BY <1>9, <2>1, <1>1, <1>2, <1>3 DEF WriteStart, Goto, TypeOK, SwitchIsExclusive,
       MainSwitchesInPlace, LinkIsTarget, Switching, AfterStop, Images
<1>10. CASE SwitchFails(c)
  BY <1>10, <1>1, <1>2, <1>3 DEF SwitchFails, Goto, TypeOK, SwitchIsExclusive,
     MainSwitchesInPlace, LinkIsTarget, Switching, AfterStop
<1> QED
  BY <1>4, <1>5, <1>6, <1>7, <1>8, <1>9, <1>10 DEF SwitchStep

(* main calls switch_firmware, or moves on without it. *)
LEMMA MainCalls ==
  ASSUME LifecycleInv, at["main"] = "idle",
         main' \in {"load", "init", "revert", "cleanup"},
         \/ at' = [at EXCEPT !["main"] = "read_stop"] /\ main' \in {"load", "revert"}
         \/ at' = at,
         disturbed' \in BOOLEAN,
         UNCHANGED <<rproc, image, link, on, freed, process, faults, kills>>
  PROVE  LifecycleInv'
<1> USE DEF LifecycleInv
<1>1. TypeOK'
  BY DEF TypeOK, Switching
<1>2. at'["main"] \in {"idle", "read_stop"} /\ \A c \in Handlers : at'[c] = at[c]
  BY DEF TypeOK
<1>3. SwitchIsExclusive'
  BY <1>2 DEF SwitchIsExclusive, AfterStop
<1>4. LinkIsTarget'
  BY <1>2 DEF LinkIsTarget, Target
<1>5. MainSwitchesInPlace'
  BY <1>2 DEF MainSwitchesInPlace, TypeOK
<1> QED
  BY <1>1, <1>3, <1>4, <1>5

LEMMA NextKeepsLifecycleInv == LifecycleInv /\ [Next]_vars => LifecycleInv'
<1> SUFFICES ASSUME LifecycleInv, [Next]_vars PROVE LifecycleInv'
  OBVIOUS
<1> USE DEF LifecycleInv
<1>0. at \in [Contexts -> Switching \cup {"idle", "return", "exit"}]
  BY DEF TypeOK
<1>1. CASE BeginLoad
  <2>1. at["main"] = "idle"
    BY <1>1 DEF BeginLoad, MainSwitchesInPlace
  <2>2. /\ main' \in {"load", "init"}
        /\ (at' = [at EXCEPT !["main"] = "read_stop"] /\ main' = "load") \/ at' = at
        /\ UNCHANGED <<rproc, image, link, on, freed, process, faults, kills, disturbed>>
    BY <1>1 DEF BeginLoad, Call, Goto, loader
  <2> QED
    BY <2>1, <2>2, MainCalls DEF TypeOK
<1>2. CASE SwitchReturns
  <2>1. /\ at' = [at EXCEPT !["main"] = "idle"]
        /\ UNCHANGED <<rproc, image, link>>
    BY <1>2 DEF SwitchReturns, Goto
  <2>2. TypeOK'
    BY <1>2, <2>1, <1>0 DEF SwitchReturns, TypeOK
  <2>3. SwitchIsExclusive'
    BY <2>1, <1>0 DEF SwitchIsExclusive, AfterStop
  <2>4. MainSwitchesInPlace'
    BY <2>1, <1>0 DEF MainSwitchesInPlace
  <2>5. LinkIsTarget'
    BY <2>1, <1>0 DEF LinkIsTarget, Target
  <2> QED
    BY <2>2, <2>3, <2>4, <2>5
<1>3. CASE InitHostInterface \/ MainCleanup \/ MainReturn
  <2>1. /\ UNCHANGED <<rproc, image, link, at, on, faults, kills>>
        /\ main' \in {"loop", "return", main} /\ main \in {"init", "cleanup", "return"}
        /\ process' \in {process, "alive", "exited", "aborted"}
    BY <1>3 DEF InitHostInterface, MainCleanup, MainReturn, CleanupConfig, loader
  <2>2. TypeOK'
    <3>1. /\ freed' = freed \/ freed' = TRUE
          /\ disturbed' = disturbed \/ disturbed' = TRUE
      BY <1>3, Zenon DEF InitHostInterface, MainCleanup, MainReturn, CleanupConfig
    <3>2. freed' \in BOOLEAN /\ disturbed' \in BOOLEAN
      BY <3>1, Zenon DEF TypeOK
    <3>3. main' \in {"start", "load", "init", "loop", "revert", "cleanup", "return"}
      BY <2>1 DEF TypeOK
    <3>4. process' \in {"alive", "exited", "aborted", "killed"}
      BY <2>1 DEF TypeOK
    <3> QED
      BY <2>1, <3>2, <3>3, <3>4 DEF TypeOK
  <2>3. SwitchIsExclusive' /\ MainSwitchesInPlace'
    BY <2>1 DEF SwitchIsExclusive, MainSwitchesInPlace
  <2>4. LinkIsTarget'
    BY <2>1 DEF LinkIsTarget, Target
  <2> QED
    BY <2>2, <2>3, <2>4
<1>4. CASE LeaveLoop
  <2>1. at["main"] = "idle"
    BY <1>4 DEF LeaveLoop, MainSwitchesInPlace
  <2>2. /\ main' \in {"revert", "cleanup"}
        /\ (at' = [at EXCEPT !["main"] = "read_stop"] /\ main' = "revert") \/ at' = at
        /\ disturbed' \in BOOLEAN
        /\ UNCHANGED <<rproc, image, link, on, freed, process, faults, kills>>
    BY <1>4 DEF LeaveLoop, Call, Goto, loader, TypeOK
  <2> QED
    BY <2>1, <2>2, <1>0, MainCalls
<1>5. ASSUME NEW h \in Handlers, Sigint(h)
      PROVE  LifecycleInv'
  <2>1. /\ on' \in [Handlers -> {"none", "main", "other"}]
        /\ disturbed' \in BOOLEAN
        /\ UNCHANGED <<rproc, image, link, main, freed, process, faults, kills>>
    BY <1>5 DEF Sigint, Call, TypeOK
  <2>2. PICK p \in {"read_stop", "return"} : at' = [at EXCEPT ![h] = p]
    BY <1>5 DEF Sigint, Call, Goto
  <2>3. TypeOK'
    BY <2>1, <2>2, <1>0 DEF TypeOK, Switching
  <2>4. SwitchIsExclusive' /\ LinkIsTarget' /\ MainSwitchesInPlace'
    BY <2>1, <2>2, <1>0 DEF SwitchIsExclusive, LinkIsTarget, MainSwitchesInPlace,
       Target, AfterStop
  <2> QED
    BY <2>3, <2>4
<1>6. ASSUME NEW h \in Handlers, HandlerCleanup(h) \/ HandlerExit(h)
      PROVE  LifecycleInv'
  <2>1. /\ UNCHANGED <<rproc, image, link, main, on, faults, kills, disturbed>>
        /\ freed' \in BOOLEAN
        /\ process' \in {"alive", "exited", "aborted"}
    BY <1>6 DEF HandlerCleanup, HandlerExit, CleanupConfig, loader, TypeOK
  <2>2. at' = [at EXCEPT ![h] = "exit"]
    <3>1. CASE HandlerCleanup(h)
      BY <3>1 DEF HandlerCleanup, Goto
    <3>2. CASE HandlerExit(h)
      BY <3>2, <1>0 DEF HandlerExit, loader
    <3> QED
      BY <1>6, <3>1, <3>2
  <2>3. TypeOK'
    BY <2>1, <2>2, <1>0 DEF TypeOK
  <2>4. SwitchIsExclusive'
    BY <2>1, <2>2, <1>0 DEF SwitchIsExclusive, AfterStop
  <2>5. LinkIsTarget'
    BY <2>1, <2>2, <1>0 DEF LinkIsTarget, Target
  <2>6. MainSwitchesInPlace'
    BY <2>1, <2>2, <1>0 DEF MainSwitchesInPlace
  <2> QED
    BY <2>3, <2>4, <2>5, <2>6
<1>7. ASSUME NEW c \in Contexts, SwitchFirmware(c) \/ SwitchFault(c)
      PROVE  LifecycleInv'
  BY <1>7, LoaderStepKeepsInv DEF SwitchFirmware, SwitchFault, TypeOK
<1>8. CASE BrokenPipe
  BY <1>8 DEF BrokenPipe, loader, TypeOK, SwitchIsExclusive, MainSwitchesInPlace,
     LinkIsTarget, Target
<1>9. CASE StartAgain
  <2>1. \A c \in Contexts : at'[c] = "idle"
    BY <1>9 DEF StartAgain
  <2>2. TypeOK'
    BY <1>9 DEF StartAgain, TypeOK
  <2> QED
    BY <2>1, <2>2 DEF SwitchIsExclusive, MainSwitchesInPlace, LinkIsTarget, AfterStop
<1>10. CASE UNCHANGED vars
  BY <1>10 DEF vars, loader, TypeOK, SwitchIsExclusive, MainSwitchesInPlace, LinkIsTarget, Target
<1> QED
  BY <1>1, <1>2, <1>3, <1>4, <1>5, <1>6, <1>7, <1>8, <1>9, <1>10 DEF Next, MainStep, HandlerStep

LEMMA LifecycleInvHolds == Spec => []LifecycleInv
BY InitLifecycleInv, NextKeepsLifecycleInv, PTL DEF Spec

-----------------------------------------------------------------------------
(* Every path through main and handle_sigint leaves the state file, the    *)
(* link and the threads in a state the code provides for; in particular    *)
(* the link is the old firmware, the new one, or missing.                  *)
THEOREM LifecycleTypeCorrect == Spec => []TypeOK
BY LifecycleInvHolds, PTL DEF LifecycleInv

(* However many SIGINTs interrupt switch_firmware, and wherever, no two    *)
(* calls of it are ever between their stop and their start together.       *)
THEOREM SwitchesExclude == Spec => []SwitchIsExclusive
BY LifecycleInvHolds, PTL DEF LifecycleInv

(* switch_firmware never starts the core with a firmware other than its    *)
(* caller's, whatever main and the handlers do between its steps.          *)
THEOREM StartsItsTarget == Spec => StartedIsTarget
<1>1. LifecycleInv /\ [Next]_vars =>
        [\A c \in Contexts :
           at[c] = "write_start" /\ rproc = "offline" /\ rproc' = "running"
             => image' = Target(c)]_vars
  <2> SUFFICES ASSUME LifecycleInv, Next, NEW c \in Contexts,
                      at[c] = "write_start", rproc = "offline", rproc' = "running"
               PROVE  image' = Target(c)
    BY DEF vars, loader
  <2>1. link = Target(c)
    BY DEF LifecycleInv, LinkIsTarget
  <2>2. PICK d \in Contexts : SwitchFirmware(d) /\ WriteStart(d)
    BY DEF Next, MainStep, HandlerStep, BeginLoad, SwitchReturns, InitHostInterface,
           LeaveLoop, MainCleanup, MainReturn, Sigint, HandlerCleanup, HandlerExit,
           BrokenPipe, StartAgain,
           SwitchFault, SwitchFails, SwitchFirmware, SwitchStep, ReadStop, ReadStart,
           ReadState, WriteStop, Unlink, Symlink, MakeLink, Call, loader
  <2> QED
    BY <2>1, <2>2 DEF WriteStart, Target
<1> QED
  BY <1>1, LifecycleInvHolds, PTL DEF Spec, StartedIsTarget

-----------------------------------------------------------------------------
(* What one switch after the other leaves behind, while main and the       *)
(* handlers do not get in each other's way and no file operation fails.    *)

(* The program asks for switches, and the core obeys. *)
Switches == current_mode = "DSP" /\ RprocAtBoot = "running"

(* The core, seen from a caller at p on the way from one image to another. *)
CoreIs(p, from, to) ==
  IF Switches
    THEN /\ rproc = IF p \in AfterStop THEN "offline" ELSE "running"
         /\ image = IF p \in {"return", "exit"} THEN to ELSE from
         /\ link = CASE p = "symlink" -> "none"
                     [] p \in {"read_start", "write_start", "return", "exit"} -> to
                     [] OTHER -> from
    ELSE /\ rproc = RprocAtBoot
         /\ image = "old" /\ link = "old"
         /\ p \notin AfterStop
         /\ current_mode = "ARM" => p \notin Switching

Settled(f) == CoreIs("idle", f, f)

NobodyWaits == \A h \in Handlers : on[h] = "none" /\ at[h] = "idle"

(* main by itself; the process may be dead, and is then not switching. *)
MainAlone ==
  /\ process \in {"alive", "killed"}
  /\ NobodyWaits
  /\ freed <=> main = "return"
  /\ main \in {"load", "revert"} =>
       /\ process = "alive" /\ current_mode = "DSP"
       /\ at["main"] \in Switching \cup {"return"}
  /\ main = "start" => \E f \in Images : Settled(f)
  /\ main = "load" => \E f \in Images : CoreIs(at["main"], f, "new")
  /\ main \in {"init", "loop"} => Settled("new")
  /\ main = "revert" => CoreIs(at["main"], "new", "old")
  /\ main \in {"cleanup", "return"} => Settled("old")

(* One handler, and main where it is not switching. *)
HandlerAlone(h) ==
  /\ process = "alive"
  /\ main \in {"start", "init", "loop"}
  /\ on[h] # "none"
  /\ main # "loop" => on[h] = "main"
  /\ at[h] \in Switching \cup {"return", "exit"}
  /\ \A g \in Handlers \ {h} : on[g] = "none" /\ at[g] = "idle"
  /\ freed <=> at[h] = "exit"
  /\ \E f \in Images : CoreIs(at[h], f, "old")

EndedWell ==
  /\ process = "exited"
  /\ Settled("old")
  /\ main = "return" \/ Delivered # {}

Undisturbed ==
  ~disturbed /\ faults = 0 =>
    MainAlone \/ (\E h \in Handlers : HandlerAlone(h)) \/ EndedWell

LEMMA InitUndisturbed == Init => Undisturbed
<1> SUFFICES ASSUME Init PROVE MainAlone
  BY DEF Undisturbed
<1>1. Settled("old")
  BY BootAssumption DEF Init, LoaderInit, Settled, CoreIs, Switches, AfterStop, Switching
<1>2. NobodyWaits
  BY DEF Init, LoaderInit, NobodyWaits
<1> QED
  BY <1>1, <1>2 DEF Init, MainAlone, Images

(* A step of switch_firmware that does not fail takes the core one step    *)
(* further on the caller's way.                                            *)
LEMMA SwitchGoesOn ==
  ASSUME at \in [Contexts -> Switching \cup {"idle", "return", "exit"}],
         NEW CONSTANT c \in Contexts, NEW CONSTANT from \in Images, NEW CONSTANT to \in Images,
         at[c] \in Switching, CoreIs(at[c], from, to), SwitchStep(c, to)
  PROVE  /\ at' = [at EXCEPT ![c] = at'[c]]
         /\ at'[c] \in Switching \cup {"return"}
         /\ CoreIs(at[c], from, to)'
<1>1. CASE ReadStop(c)
  <2>1. at[c] = "read_stop" /\ at' = [at EXCEPT ![c] = "write_stop"]
        /\ UNCHANGED <<rproc, image, link>>
    BY <1>1 DEF ReadStop, ReadState, Goto, CoreIs, AfterStop
  <2> QED
    BY <2>1 DEF CoreIs, AfterStop, Switching, Switches
<1>2. CASE WriteStop(c)
  <2>1. at[c] = "write_stop" /\ rproc' = "offline" /\ UNCHANGED <<image, link>>
        /\ at' = [at EXCEPT ![c] = IF rproc = "running" THEN "unlink" ELSE "return"]
    BY <1>2 DEF WriteStop, Goto
  <2>2. CASE Switches
    BY <2>1, <2>2 DEF CoreIs, AfterStop, Switching, Switches
  <2>3. CASE ~Switches
    <3>1. rproc = "offline"
      BY <2>1, <2>3, BootAssumption, ModeAssumption DEF CoreIs, Switches, Switching
    <3> QED
      BY <2>1, <2>3, <3>1 DEF CoreIs, AfterStop, Switching, Switches
  <2> QED
    BY <2>2, <2>3
<1>3. CASE Unlink(c)
  <2>1. at[c] = "unlink" /\ at' = [at EXCEPT ![c] = "symlink"]
        /\ link' = "none" /\ UNCHANGED <<rproc, image>>
    BY <1>3 DEF Unlink, Goto
  <2> QED
    BY <2>1 DEF CoreIs, AfterStop, Switching, Switches
<1>4. CASE Symlink(c, to)
  <2>1. at[c] = "symlink" /\ link = "none" /\ Switches
    BY <1>4 DEF Symlink, MakeLink, CoreIs, AfterStop
  <2>2. at' = [at EXCEPT ![c] = "read_start"] /\ link' = to /\ UNCHANGED <<rproc, image>>
    BY <1>4, <2>1 DEF Symlink, MakeLink, Goto
  <2> QED
    BY <2>1, <2>2 DEF CoreIs, AfterStop, Switching, Switches
<1>5. CASE ReadStart(c)
  <2>1. at[c] = "read_start" /\ rproc = "offline"
    BY <1>5 DEF ReadStart, CoreIs, AfterStop
  <2>2. at' = [at EXCEPT ![c] = "write_start"] /\ UNCHANGED <<rproc, image, link>>
    BY <1>5, <2>1 DEF ReadStart, ReadState, Goto
  <2> QED
    BY <2>1, <2>2 DEF CoreIs, AfterStop, Switching, Switches
<1>6. CASE WriteStart(c)
  <2>1. at[c] = "write_start" /\ rproc = "offline" /\ link = to /\ Switches
    BY <1>6 DEF WriteStart, CoreIs, AfterStop
  <2>2. /\ at' = [at EXCEPT ![c] = "return"] /\ rproc' = "running"
        /\ image' = to /\ link' = to
    BY <1>6, <2>1 DEF WriteStart, Goto, Images
  <2> QED
    BY <2>1, <2>2 DEF CoreIs, AfterStop, Switching, Switches
<1> QED
  BY <1>1, <1>2, <1>3, <1>4, <1>5, <1>6 DEF SwitchStep

LEMMA StillUndisturbed == TypeOK /\ Next /\ ~disturbed' /\ faults' = 0 => ~disturbed /\ faults = 0
<1> SUFFICES ASSUME TypeOK, Next, ~disturbed', faults' = 0
             PROVE  ~disturbed /\ faults = 0
  OBVIOUS
<1>1. CASE \E c \in Contexts : SwitchFault(c)
  BY <1>1 DEF SwitchFault, TypeOK
<1>2. CASE BeginLoad \/ SwitchReturns \/ MainCleanup \/ MainReturn \/ SwitchFirmware("main")
  BY <1>2 DEF BeginLoad, SwitchReturns, MainCleanup, MainReturn, SwitchFirmware
<1>3. CASE InitHostInterface \/ StartAgain
  BY <1>3 DEF InitHostInterface, StartAgain
<1>6. CASE LeaveLoop
  BY <1>6 DEF LeaveLoop
<1>7. CASE BrokenPipe
  BY <1>7 DEF BrokenPipe
<1>4. ASSUME NEW h \in Handlers, Sigint(h)
      PROVE  ~disturbed /\ faults = 0
  BY <1>4 DEF Sigint
<1>5. ASSUME NEW h \in Handlers, HandlerStep(h)
      PROVE  ~disturbed /\ faults = 0
  BY <1>5 DEF HandlerStep, HandlerCleanup, HandlerExit, SwitchFirmware
<1> QED
  BY <1>1, <1>2, <1>3, <1>4, <1>5, <1>6, <1>7 DEF Next, MainStep

(* main goes on by itself, or the first SIGINT comes. *)
LEMMA MainAloneGoesOn ==
  LifecycleInv /\ MainAlone /\ Next /\ ~disturbed' /\ faults' = 0 => Undisturbed'
<1> SUFFICES ASSUME LifecycleInv, MainAlone, Next, ~disturbed', faults' = 0
             PROVE  MainAlone' \/ (\E h \in Handlers : HandlerAlone(h)') \/ EndedWell'
  BY DEF Undisturbed
<1>0. /\ at \in [Contexts -> Switching \cup {"idle", "return", "exit"}]
      /\ on \in [Handlers -> {"none", "main", "other"}]
      /\ Delivered = {}
      /\ \A f \in Images : f \in {"old", "new"}
  BY DEF LifecycleInv, TypeOK, MainAlone, NobodyWaits, Delivered, Images
<1>1. CASE BeginLoad
  <2>1. main = "start" /\ ~freed /\ process = "alive" /\ UNCHANGED <<on, freed, process>>
    BY <1>1 DEF BeginLoad, MainAlone, MainRuns
  <2>2. PICK f \in Images : Settled(f)
    BY <2>1 DEF MainAlone
  <2>3. CASE current_mode = "DSP"
    <3>1. /\ main' = "load" /\ at' = [at EXCEPT !["main"] = "read_stop"]
          /\ UNCHANGED <<rproc, image, link>>
      BY <1>1, <2>3 DEF BeginLoad, Call, Goto
    <3>2. CoreIs(at["main"], f, "new")'
      BY <2>2, <2>3, <3>1, <1>0 DEF Settled, CoreIs, AfterStop, Switching, Switches
    <3>3. NobodyWaits'
      BY <2>1, <3>1, <1>0 DEF NobodyWaits, MainAlone
    <3> QED
      BY <2>1, <2>3, <3>1, <3>2, <3>3, <1>0 DEF MainAlone, Switching
  <2>4. CASE current_mode # "DSP"
    <3>1. main' = "init" /\ UNCHANGED <<rproc, image, link, at>>
      BY <1>1, <2>4 DEF BeginLoad, loader
    <3>2. Settled("new")'
      BY <2>2, <2>4, <3>1 DEF Settled, CoreIs, Switches
    <3>3. NobodyWaits'
      BY <2>1, <3>1 DEF NobodyWaits, MainAlone
    <3> QED
      BY <2>1, <3>1, <3>2, <3>3 DEF MainAlone
  <2> QED
    BY <2>3, <2>4
<1>2. CASE SwitchReturns
  <2>1. /\ at["main"] = "return" /\ at' = [at EXCEPT !["main"] = "idle"] /\ process = "alive"
        /\ UNCHANGED <<rproc, image, link, on, freed, process>>
    BY <1>2 DEF SwitchReturns, Goto, MainRuns
  <2>2. main \in {"load", "revert"} /\ ~freed /\ main' \in {"init", "cleanup"}
    BY <1>2, <2>1 DEF SwitchReturns, LifecycleInv, MainSwitchesInPlace, MainAlone
  <2>3. NobodyWaits'
    BY <2>1, <1>0 DEF NobodyWaits, MainAlone
  <2>4. CASE main = "load"
    <3>1. Settled("new")' /\ main' = "init"
      BY <1>2, <2>1, <2>4 DEF SwitchReturns, MainAlone, Settled, CoreIs, AfterStop, Switching
    <3> QED
      BY <2>1, <2>2, <2>3, <3>1 DEF MainAlone
  <2>5. CASE main = "revert"
    <3>1. Settled("old")' /\ main' = "cleanup"
      BY <1>2, <2>1, <2>5 DEF SwitchReturns, MainAlone, Settled, CoreIs, AfterStop, Switching
    <3> QED
      BY <2>1, <2>2, <2>3, <3>1 DEF MainAlone
  <2> QED
    BY <2>2, <2>4, <2>5
<1>3. CASE InitHostInterface
  <2>1. main = "init" /\ main' = "loop" /\ UNCHANGED <<loader, on, freed, process>>
    BY <1>3 DEF InitHostInterface
  <2> QED
    BY <2>1 DEF MainAlone, NobodyWaits, Settled, CoreIs, loader
<1>4. CASE LeaveLoop
  <2>1. main = "loop" /\ process = "alive" /\ ~freed /\ UNCHANGED <<on, freed, process>>
    BY <1>4 DEF LeaveLoop, MainAlone, MainRuns
  <2>2. CASE current_mode = "DSP"
    <3>1. /\ main' = "revert" /\ at' = [at EXCEPT !["main"] = "read_stop"]
          /\ UNCHANGED <<rproc, image, link>>
      BY <1>4, <2>2 DEF LeaveLoop, Call, Goto
    <3>2. CoreIs(at["main"], "new", "old")'
      BY <2>1, <2>2, <3>1, <1>0 DEF MainAlone, Settled, CoreIs, AfterStop, Switching, Switches
    <3>3. NobodyWaits'
      BY <2>1, <3>1, <1>0 DEF NobodyWaits, MainAlone
    <3> QED
      BY <2>1, <2>2, <3>1, <3>2, <3>3, <1>0 DEF MainAlone, Switching
  <2>3. CASE current_mode # "DSP"
    <3>1. main' = "cleanup" /\ UNCHANGED <<rproc, image, link, at>>
      BY <1>4, <2>3 DEF LeaveLoop, loader
    <3>2. Settled("old")'
      BY <2>1, <2>3, <3>1 DEF MainAlone, Settled, CoreIs, Switches
    <3>3. NobodyWaits'
      BY <2>1, <3>1 DEF NobodyWaits, MainAlone
    <3> QED
      BY <2>1, <3>1, <3>2, <3>3 DEF MainAlone
  <2> QED
    BY <2>2, <2>3
<1>5. CASE MainCleanup
  <2>1. main = "cleanup" /\ ~freed /\ main' = "return" /\ process' = "alive" /\ freed'
        /\ UNCHANGED <<loader, on>>
    BY <1>5 DEF MainCleanup, CleanupConfig, MainAlone
  <2> QED
    BY <2>1 DEF MainAlone, NobodyWaits, Settled, CoreIs, loader
<1>6. CASE MainReturn
  <2>1. main = "return" /\ process' = "exited" /\ UNCHANGED <<loader, main>>
    BY <1>6 DEF MainReturn
  <2> QED
    BY <2>1 DEF MainAlone, EndedWell, Settled, CoreIs, loader
<1>7. CASE SwitchFirmware("main")
  <2>1. /\ SwitchStep("main", Target("main")) /\ process = "alive"
        /\ UNCHANGED <<main, on, freed, process>>
    BY <1>7 DEF SwitchFirmware, Runs, MainRuns
  <2>2. at["main"] \in Switching
    BY <2>1 DEF SwitchStep, ReadStop, ReadStart, WriteStop, Unlink, Symlink, MakeLink,
                WriteStart, Switching
  <2>3. main \in {"load", "revert"} /\ ~freed /\ current_mode = "DSP"
    BY <2>2 DEF LifecycleInv, MainSwitchesInPlace, MainAlone, Switching
  <2>4. PICK from \in Images : CoreIs(at["main"], from, Target("main"))
                               /\ (main = "revert" => from = "new")
    BY <2>3 DEF MainAlone, Target, Images
  <2>5. Target("main") \in Images
    BY DEF Target, Images
  <2>6. /\ at' = [at EXCEPT !["main"] = at'["main"]]
        /\ at'["main"] \in Switching \cup {"return"}
        /\ \A to \in Images : to = Target("main") => CoreIs(at["main"], from, to)'
    <3> SUFFICES ASSUME NEW CONSTANT to \in Images, to = Target("main"),
                        NEW CONSTANT f \in Images, f = from
                 PROVE  /\ at' = [at EXCEPT !["main"] = at'["main"]]
                        /\ at'["main"] \in Switching \cup {"return"}
                        /\ CoreIs(at["main"], f, to)'
      BY <2>5
    <3> QED
      BY <1>0, <2>1, <2>2, <2>4, SwitchGoesOn, ContextsAssumption
  <2>7. NobodyWaits'
    BY <2>1, <2>6, <1>0 DEF NobodyWaits, MainAlone
  <2> QED
    BY <2>1, <2>3, <2>4, <2>5, <2>6, <2>7 DEF MainAlone, Target
<1>8. ASSUME NEW h \in Handlers, Sigint(h)
      PROVE  HandlerAlone(h)'
  <2>1. /\ process = "alive" /\ main \in {"start", "init", "loop"} /\ ~freed
        /\ on[h] = "none" /\ UNCHANGED <<rproc, image, link, main, freed, process>>
    BY <1>8 DEF Sigint, Call, MainAlone
  <2>2. PICK p \in {"read_stop", "return"} : /\ at' = [at EXCEPT ![h] = p]
                                             /\ current_mode = "ARM" => p = "return"
                                             /\ current_mode = "DSP" => p = "read_stop"
    BY <1>8, ModeAssumption DEF Sigint, Call, Goto
  <2>3. PICK t \in {"main", "other"} : /\ on' = [on EXCEPT ![h] = t]
                                       /\ main # "loop" => t = "main"
    BY <1>8, <2>1 DEF Sigint
  <2>4. PICK f \in Images : Settled(f)
    BY <2>1 DEF MainAlone, Images
  <2>5. CoreIs(at[h], f, "old")'
    BY <2>1, <2>2, <2>4, <1>0, ModeAssumption
       DEF Settled, CoreIs, AfterStop, Switching, Switches
  <2>6. \A g \in Handlers \ {h} : on'[g] = "none" /\ at'[g] = "idle"
    BY <2>2, <2>3, <1>0 DEF MainAlone, NobodyWaits
  <2>7. on'[h] = t /\ at'[h] = p
    BY <2>2, <2>3, <1>0
  <2> QED
    BY <2>1, <2>2, <2>3, <2>5, <2>6, <2>7 DEF HandlerAlone, Switching
<1>9. ASSUME NEW h \in Handlers, HandlerStep(h)
      PROVE  FALSE
  <2>1. at[h] = "idle"
    BY DEF MainAlone, NobodyWaits
  <2> QED
    BY <1>9, <2>1 DEF HandlerStep, HandlerCleanup, HandlerExit, SwitchFirmware, SwitchStep,
       ReadStop, ReadStart, WriteStop, Unlink, Symlink, MakeLink, WriteStart
<1>10. CASE BrokenPipe
  <2>1. /\ process' = "killed" /\ main \in {"loop", "cleanup", "return"}
        /\ UNCHANGED <<loader, main, on, freed>>
    BY <1>10 DEF BrokenPipe, LifecycleInv, TypeOK
  <2> QED
    BY <2>1 DEF MainAlone, NobodyWaits, Settled, CoreIs, loader
<1>11. CASE StartAgain
  <2>1. /\ process = "killed" /\ process' = "alive" /\ main' = "start" /\ ~freed'
        /\ at' = [c \in Contexts |-> "idle"] /\ on' = [h \in Handlers |-> "none"]
        /\ UNCHANGED <<rproc, image, link>>
    BY <1>11 DEF StartAgain
  <2>2. \E f \in Images : Settled(f)
    BY <2>1 DEF MainAlone, Images, LifecycleInv, TypeOK
  <2>3. \E f \in Images : Settled(f)'
    BY <2>1, <2>2 DEF Settled, CoreIs
  <2>4. NobodyWaits'
    BY <2>1 DEF NobodyWaits
  <2> QED
    BY <2>1, <2>3, <2>4 DEF MainAlone
<1>12. ASSUME NEW c \in Contexts, SwitchFault(c)
       PROVE  FALSE
  BY <1>12 DEF SwitchFault, LifecycleInv, TypeOK
<1> QED
  BY <1>1, <1>2, <1>3, <1>4, <1>5, <1>6, <1>7, <1>8, <1>9, <1>10, <1>11, <1>12
     DEF Next, MainStep

(* A handler by itself takes the core back to the old firmware; a second   *)
(* signal, main's own switch and SIGPIPE are what disturbs it.             *)
LEMMA HandlerAloneGoesOn ==
  ASSUME LifecycleInv, NEW CONSTANT h \in Handlers, HandlerAlone(h), Next,
         ~disturbed', faults' = 0
  PROVE  Undisturbed'
<1> SUFFICES HandlerAlone(h)' \/ EndedWell'
  BY DEF Undisturbed
<1>0. /\ at \in [Contexts -> Switching \cup {"idle", "return", "exit"}]
      /\ on \in [Handlers -> {"none", "main", "other"}]
      /\ Delivered # {} /\ h \in Contexts /\ h # "main" /\ at["main"] = "idle"
  BY DEF LifecycleInv, TypeOK, MainSwitchesInPlace, HandlerAlone, Delivered
<1>1. CASE MainStep
  <2>1. ~SwitchFirmware("main")
    BY <1>0 DEF SwitchFirmware, SwitchStep, ReadStop, ReadStart, WriteStop, Unlink, Symlink,
                MakeLink, WriteStart
  <2>2. ~SwitchReturns /\ ~MainCleanup /\ ~MainReturn
    BY <1>0 DEF SwitchReturns, MainCleanup, MainReturn, HandlerAlone
  <2>3. ~BeginLoad /\ ~InitHostInterface
    BY DEF BeginLoad, InitHostInterface, MainRuns, HandlerAlone
  <2> QED
    BY <1>1, <2>1, <2>2, <2>3 DEF MainStep
<1>2. CASE LeaveLoop \/ BrokenPipe \/ StartAgain
  BY <1>2, <1>0 DEF LeaveLoop, BrokenPipe, StartAgain, HandlerAlone
<1>3. ASSUME NEW g \in Handlers, Sigint(g)
      PROVE  FALSE
  BY <1>3, <1>0 DEF Sigint
<1>4. ASSUME NEW g \in Handlers, HandlerStep(g)
      PROVE  g = h
  BY <1>4 DEF HandlerAlone, HandlerStep, HandlerCleanup, HandlerExit, SwitchFirmware, SwitchStep,
     ReadStop, ReadStart, WriteStop, Unlink, Symlink, MakeLink, WriteStart
<1>5. CASE HandlerCleanup(h)
  <2>1. /\ at[h] = "return" /\ at' = [at EXCEPT ![h] = "exit"] /\ process' = "alive" /\ freed'
        /\ UNCHANGED <<rproc, image, link, main, on>>
    BY <1>5 DEF HandlerCleanup, CleanupConfig, Goto, HandlerAlone
  <2>2. \A f \in Images : CoreIs(at[h], f, "old") => CoreIs(at[h], f, "old")'
    BY <2>1, <1>0 DEF CoreIs, AfterStop, Switching
  <2> QED
    BY <2>1, <2>2, <1>0 DEF HandlerAlone
<1>6. CASE HandlerExit(h)
  <2>1. /\ at[h] = "exit" /\ process' = "exited"
        /\ UNCHANGED <<rproc, image, link, on>>
    BY <1>6 DEF HandlerExit, loader
  <2>2. Settled("old")'
    BY <2>1 DEF HandlerAlone, Settled, CoreIs, AfterStop, Switching
  <2> QED
    BY <2>1, <2>2, <1>0 DEF EndedWell, Delivered
<1>7. CASE SwitchFirmware(h)
  <2>1. SwitchStep(h, "old") /\ UNCHANGED <<main, on, freed, process>>
    BY <1>7, <1>0 DEF SwitchFirmware, Target
  <2>2. at[h] \in Switching
    BY <2>1 DEF SwitchStep, ReadStop, ReadStart, WriteStop, Unlink, Symlink, MakeLink,
                WriteStart, Switching
  <2>3. PICK f \in Images : CoreIs(at[h], f, "old")
    BY DEF HandlerAlone
  <2>4. /\ at' = [at EXCEPT ![h] = at'[h]]
        /\ at'[h] \in Switching \cup {"return"}
        /\ \E e \in Images : CoreIs(at[h], e, "old")'
    <3> SUFFICES ASSUME NEW CONSTANT e \in Images, e = f
                 PROVE  /\ at' = [at EXCEPT ![h] = at'[h]]
                        /\ at'[h] \in Switching \cup {"return"}
                        /\ CoreIs(at[h], e, "old")'
      OBVIOUS
    <3>1. "old" \in Images
      BY DEF Images
    <3> QED
      BY <1>0, <2>1, <2>2, <2>3, <3>1, SwitchGoesOn
  <2>5. ~freed /\ at[h] # "exit" /\ at'[h] # "exit"
    BY <2>2, <2>4 DEF HandlerAlone, Switching
  <2> QED
    BY <2>1, <2>4, <2>5, <1>0 DEF HandlerAlone
<1>8. ASSUME NEW c \in Contexts, SwitchFault(c)
      PROVE  FALSE
  BY <1>8 DEF SwitchFault, LifecycleInv, TypeOK
<1> QED
  BY <1>1, <1>2, <1>3, <1>4, <1>5, <1>6, <1>7, <1>8 DEF Next, HandlerStep

LEMMA NextKeepsUndisturbed == LifecycleInv /\ Undisturbed /\ [Next]_vars => Undisturbed'
<1> SUFFICES ASSUME LifecycleInv, Undisturbed, [Next]_vars, ~disturbed', faults' = 0
             PROVE  Undisturbed'
  BY DEF Undisturbed
<1>1. CASE UNCHANGED vars
  BY <1>1 DEF vars, loader, Undisturbed, MainAlone, HandlerAlone, EndedWell, NobodyWaits,
     Settled, CoreIs, Delivered
<1>2. CASE Next
  <2>1. ~disturbed /\ faults = 0
    BY <1>2, StillUndisturbed DEF LifecycleInv
  <2>2. CASE MainAlone
    BY <1>2, <2>2, MainAloneGoesOn
  <2>3. CASE \E h \in Handlers : HandlerAlone(h)
    BY <1>2, <2>3, HandlerAloneGoesOn
  <2>4. CASE EndedWell
    BY <1>2, <2>4 DEF EndedWell, Next, MainStep, BeginLoad, SwitchReturns, InitHostInterface,
       LeaveLoop, MainCleanup, MainReturn, MainRuns, BrokenPipe, StartAgain, Sigint,
       HandlerStep, HandlerCleanup, HandlerExit, SwitchFirmware, SwitchFault, Runs
  <2> QED
    BY <2>1, <2>2, <2>3, <2>4 DEF Undisturbed
<1> QED
  BY <1>1, <1>2

LEMMA StaysUndisturbed == Spec => []Undisturbed
BY InitLifecycleInv, NextKeepsLifecycleInv, InitUndisturbed, NextKeepsUndisturbed, PTL DEF Spec

(* A program that leaves its loop by itself, or that one SIGINT ends while *)
(* main is not switching, leaves the core as the first run found it: for   *)
(* both modes, a core on or off at first, and any number of runs that      *)
(* SIGPIPE has ended.                                                      *)
THEOREM CoreIsRestored == Spec => []RestoredOnExit
<1>1. Undisturbed => RestoredOnExit
  <2> SUFFICES ASSUME Undisturbed, Over, ~disturbed, faults = 0
               PROVE  /\ process = "exited"
                      /\ rproc = RprocAtBoot
                      /\ image = "old" /\ link = "old"
    BY DEF RestoredOnExit
  <2>1. EndedWell
    BY DEF Undisturbed, Over, MainAlone, HandlerAlone
  <2> QED
    BY <2>1 DEF EndedWell, Settled, CoreIs, Switches, AfterStop
<1> QED
  BY <1>1, StaysUndisturbed, PTL

(* If the core is on when the program starts, then once main is in its     *)
(* loop the core runs the filter firmware, however many earlier runs       *)
(* SIGPIPE has ended.                                                      *)
THEOREM CoreRunsFilter == RprocAtBoot = "running" => (Spec => []RunsOnNewFirmware)
<1> SUFFICES ASSUME RprocAtBoot = "running" PROVE Spec => []RunsOnNewFirmware
  OBVIOUS
<1>1. Undisturbed => RunsOnNewFirmware
  <2> SUFFICES ASSUME Undisturbed,
                      current_mode = "DSP", main = "loop", Delivered = {}, ~disturbed, faults = 0
               PROVE  rproc = "running" /\ image = "new"
    BY DEF RunsOnNewFirmware
  <2>1. ~EndedWell /\ \A h \in Handlers : ~HandlerAlone(h)
    BY DEF EndedWell, HandlerAlone, Delivered
  <2>2. Settled("new")
    BY <2>1 DEF Undisturbed, MainAlone
  <2> QED
    BY <2>2 DEF Settled, CoreIs, Switches, AfterStop
<1> QED
  BY <1>1, StaysUndisturbed, PTL
=============================================================================
