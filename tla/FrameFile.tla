----------------------------- MODULE FrameFile ------------------------------
(***************************************************************************)
(* What the loops of tsmux/Mux.cpp take a file and its reader to be: a     *)
(* sequence of frames of which each call hands over the first that is      *)
(* left, and a flag that a call sets when none is left, and only then.     *)
(***************************************************************************)
EXTENDS Sequences

VARIABLES
  left,    \* the frames that have not been read
  taken,   \* the frames that have been handed over
  done     \* decode_video_done or decode_audio_done

vars == <<left, taken, done>>

Init == taken = <<>> /\ done = FALSE

Take ==
  /\ left # <<>>
  /\ taken' = Append(taken, Head(left))
  /\ left' = Tail(left)
  /\ UNCHANGED done

ReachEnd ==
  /\ left = <<>>
  /\ done' = TRUE
  /\ UNCHANGED <<left, taken>>

Next == Take \/ ReachEnd

Spec == Init /\ [][Next]_vars
=============================================================================
