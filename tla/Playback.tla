------------------------------ MODULE Playback ------------------------------
(***************************************************************************)
(* What the audio path of rpmsg_audio_example.c amounts to for a listener: *)
(* the file's frames, each once and in order, filtered on every channel.   *)
(* A frame that cannot be given to the DSP is heard as it was read.  Once  *)
(* a reply has been given up nothing is promised but one frame out for     *)
(* each frame in.  There are no threads, buffers, caches or messages here. *)
(***************************************************************************)
EXTENDS Naturals, Sequences

CONSTANTS
  Frames,            \* how many the file has
  Blocks,            \* what a frame may sound like, whichever it is
  AsRead(_),         \* the n-th frame, as the file has it
  Filtered(_)        \* what the n-th frame may sound like, once filtered

VARIABLES taken, skipped, lost, heard

vars == <<taken, skipped, lost, heard>>

Init == taken = 0 /\ skipped = FALSE /\ lost = FALSE /\ heard = << >>

InWork == taken > Len(heard)

Take ==
  /\ ~InWork /\ taken < Frames
  /\ taken' = taken + 1
  /\ UNCHANGED <<skipped, lost, heard>>

Skip ==
  /\ InWork
  /\ skipped' = TRUE
  /\ UNCHANGED <<taken, lost, heard>>

LoseReply ==
  /\ InWork
  /\ skipped' = TRUE
  /\ lost' = TRUE
  /\ UNCHANGED <<taken, heard>>

Forms ==
  IF lost THEN Blocks ELSE IF skipped THEN {AsRead(taken)} ELSE Filtered(taken)

Play ==
  /\ InWork
  /\ \E block \in Forms : heard' = Append(heard, block)
  /\ skipped' = FALSE
  /\ UNCHANGED <<taken, lost>>

Next == Take \/ Skip \/ LoseReply \/ Play

Spec == Init /\ [][Next]_vars
=============================================================================
