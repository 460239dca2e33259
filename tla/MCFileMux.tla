----------------------------- MODULE MCFileMux ------------------------------
(***************************************************************************)
(* Instances of FileMux, whose constants are plain numbers.  At 25 frames  *)
(* a second a picture takes 3600 ticks, an audio frame 11520 (8 kHz) or    *)
(* 1920 (48 kHz): pictures are the shorter or the longer frames.  With     *)
(* UintMod 16000 the video clock wraps with the fifth picture, the audio   *)
(* clock with the second frame at 8 kHz and not at 48 kHz.                 *)
(***************************************************************************)
EXTENDS FileMux
=============================================================================
