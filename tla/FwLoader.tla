------------------------------ MODULE FwLoader ------------------------------
(***************************************************************************)
(* switch_firmware (library/src/fw_loader.c) step by step, as several      *)
(* contexts of the process may run it at once: main, and a signal handler  *)
(* on whatever thread the signal lands on.  The remoteproc driver behind   *)
(* the state file is the kernel's (external): it shows "offline" or        *)
(* "running", and refuses to stop what is offline.  Start and stop are the *)
(* words written, never the words read.                                    *)
(* Definitions marked "Wrong:" are never used by SwitchStep; each is a     *)
(* variant of the definition after it with a bug one could make in C.      *)
(***************************************************************************)
EXTENDS Naturals

CONSTANT Contexts   \* who can call switch_firmware

VARIABLES
  rproc,  \* what the state file shows
  image,  \* the firmware the remote core was started with last
  link,   \* what fw_link points to, "none" when there is no such link
  at      \* where each context is in switch_firmware

loader == <<rproc, image, link, at>>

Images == {"old", "new"}

Switching ==
  {"read_stop", "write_stop", "unlink", "symlink", "read_start", "write_start"}
AfterStop == {"unlink", "symlink", "read_start", "write_start"}

LoaderInit(state, firmware) ==
  /\ rproc = state
  /\ image = firmware
  /\ link = firmware
  /\ at = [c \in Contexts |-> "idle"]

Goto(c, where) == at' = [at EXCEPT ![c] = where]

Call(c) ==
  /\ Goto(c, "read_stop")
  /\ UNCHANGED <<rproc, image, link>>

(* write_state_if_needed skips the write when the file shows the word that *)
(* would be written.                                                       *)
ReadState(c, desired, write, skip) ==
  /\ at[c] \in {"read_stop", "read_start"}
  /\ Goto(c, IF rproc = desired THEN skip ELSE write)
  /\ UNCHANGED <<rproc, image, link>>

ReadStop(c)  == at[c] = "read_stop"  /\ ReadState(c, "stop", "write_stop", "unlink")
ReadStart(c) == at[c] = "read_start" /\ ReadState(c, "start", "write_start", "return")

(* Wrong: a refused stop is taken for a stopped core. *)
WriteStopUnchecked(c) ==
  /\ at[c] = "write_stop"
  /\ rproc' = "offline"
  /\ Goto(c, "unlink")
  /\ UNCHANGED <<image, link>>

WriteStop(c) ==
  /\ at[c] = "write_stop"
  /\ rproc' = "offline"
  /\ Goto(c, IF rproc = "running" THEN "unlink" ELSE "return")
  /\ UNCHANGED <<image, link>>

(* Wrong: update_symlink left out. *)
UnlinkLeftOut(c) ==
  /\ at[c] = "unlink"
  /\ Goto(c, "read_start")
  /\ UNCHANGED <<rproc, image, link>>

Unlink(c) ==
  /\ at[c] = "unlink"
  /\ link' = "none"
  /\ Goto(c, "symlink")
  /\ UNCHANGED <<rproc, image>>

MakeLink(c, target) ==
  /\ at[c] = "symlink"
  /\ IF link = "none"
       THEN link' = target /\ Goto(c, "read_start")
       ELSE Goto(c, "return") /\ UNCHANGED link
  /\ UNCHANGED <<rproc, image>>

(* Wrong: the two paths swapped, so that fw_link points to itself. *)
SymlinkSwapped(c, new_fw) == MakeLink(c, "fw_link")

(* symlink refuses a name that exists. *)
Symlink(c, new_fw) == MakeLink(c, new_fw)

(* The driver loads what fw_link points to now.  A core that runs already  *)
(* is not loaded again.                                                    *)
WriteStart(c) ==
  /\ at[c] = "write_start"
  /\ IF rproc = "offline" /\ link # "none"
       THEN rproc' = "running" /\ image' = link
       ELSE UNCHANGED <<rproc, image>>
  /\ Goto(c, "return")
  /\ UNCHANGED link

(* A file that cannot be opened, read or written, or a link that cannot be *)
(* made: the caller gets -1 with whatever was done so far left done.  That *)
(* the old link could not be removed goes unnoticed.                       *)
SwitchFails(c) ==
  /\ at[c] \in Switching
  /\ Goto(c, IF at[c] = "unlink" THEN "symlink" ELSE "return")
  /\ UNCHANGED <<rproc, image, link>>

SwitchStep(c, new_fw) ==
  \/ ReadStop(c) \/ WriteStop(c)
  \/ Unlink(c) \/ Symlink(c, new_fw)
  \/ ReadStart(c) \/ WriteStart(c)
=============================================================================
