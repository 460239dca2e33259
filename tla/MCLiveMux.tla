----------------------------- MODULE MCLiveMux -----------------------------
(***************************************************************************)
(* Two streams: one of video and audio, one whose video shares the file,   *)
(* the PID and the clock with the first.  With UintMod 2^12 the PCR wraps  *)
(* with every picture, both clocks with the second frame.                  *)
(***************************************************************************)
EXTENDS LiveMux, TLC

MCMedium == (<<1, 1>> :> "video") @@ (<<1, 2>> :> "audio") @@
            (<<2, 1>> :> "video") @@ (<<2, 2>> :> "other")

MCMediumOne == (<<1, 1>> :> "video") @@ (<<1, 2>> :> "audio")
=============================================================================
