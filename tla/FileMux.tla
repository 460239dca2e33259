------------------------------- MODULE FileMux -------------------------------
(***************************************************************************)
(* The two loops of tsmux/Mux.cpp that multiplex files: WriteBuf2File      *)
(* interleaves an H.264 and an AAC file by their timestamps, and           *)
(* WriteH264Buff2File writes the H.264 file alone.  An iteration of a loop *)
(* is an action; a frame that PES2TS writes (module Pes2Ts) is one element *)
(* of out.  A file is the sequence of its frames; module Readers has the   *)
(* readers that cut the bytes of a file into them.                         *)
(***************************************************************************)
EXTENDS Integers, Sequences

CONSTANTS
  framerate,   \* the parameter of both functions
  UintMod,     \* 2^32: unsigned long of the build
  MaxVideo,    \* bound: NAL units of the video file
  MaxAudio     \* bound: frames of the audio file

ASSUME FramerateAssumption == framerate \in Nat \ {0}
ASSUME UintModAssumption   == UintMod \in Nat \ {0}
ASSUME MaxVideoAssumption  == MaxVideo \in Nat
ASSUME MaxAudioAssumption  == MaxAudio \in Nat

VARIABLES
  fn,                 \* the function that runs
  video,              \* the kinds of the NAL units not yet read
  audio,              \* the number of audio frames not yet read
  decode_video_done, decode_audio_done,
  Timestamp_video, Timestamp_audio,
  audiosamplerate,
  out,                \* the frames written: medium and PTS
  video_time,         \* history: how long the pictures written last, in ticks
  audio_time,         \* history: how long the audio frames written last
  pc

vars == <<fn, video, audio, decode_video_done, decode_audio_done,
          Timestamp_video, Timestamp_audio, audiosamplerate, out,
          video_time, audio_time, pc>>

Kinds == {"slice", "other"}

\* sf_index 4 and 3, or any other (and an empty file leaves it undefined).
Rates == {8000, 48000, 0}

VideoStep == (1000 * 90) \div framerate
AudioStep == (1024 * 1000 * 90) \div audiosamplerate

\* Slices (FRAME_I, FRAME_P, FRAME_B) take time, other NAL units do not.
Duration(kind) == IF kind = "slice" THEN VideoStep ELSE 0

Files == UNION {[1..n -> Kinds] : n \in 0..MaxVideo}

Init ==
  /\ fn \in {"WriteBuf2File", "WriteH264Buff2File"}
  /\ video \in Files
  /\ audio \in 0..MaxAudio
  /\ decode_video_done = FALSE
  /\ decode_audio_done = FALSE
  /\ Timestamp_video = 0
  /\ Timestamp_audio = 0
  /\ audiosamplerate = 0
  /\ out = <<>>
  /\ video_time = 0
  /\ audio_time = 0
  /\ pc = "start"

\* WriteBuf2File reads the header of the first audio frame, then rewinds.
Start ==
  /\ pc = "start"
  /\ \/ fn = "WriteBuf2File" /\ audiosamplerate' \in Rates
     \/ fn = "WriteH264Buff2File" /\ UNCHANGED audiosamplerate
  /\ pc' = "loop"
  /\ UNCHANGED <<fn, video, audio, decode_video_done, decode_audio_done,
                 Timestamp_video, Timestamp_audio, out, video_time, audio_time>>

Emit(medium, pts) == out' = Append(out, [medium |-> medium, pts |-> pts])

(***************************************************************************)
(* Take_Out_Pes and PES2TS on a file at its end: only the flag is set.     *)
(***************************************************************************)
VideoEnd ==
  /\ video = <<>>
  /\ decode_video_done' = TRUE
  /\ UNCHANGED <<video, Timestamp_video, video_time, out>>

\* The clock is an unsigned number of 32 bits and wraps.
AdvanceVideo(ticks) ==
  /\ Timestamp_video' = (Timestamp_video + ticks) % UintMod
  /\ video_time' = video_time + ticks

\* Mutant: the timestamp is advanced before the slice is written.
VideoFrame_LateStamp ==
  /\ video # <<>>
  /\ video' = Tail(video)
  /\ AdvanceVideo(Duration(Head(video)))
  /\ Emit("video", Timestamp_video')
  /\ UNCHANGED decode_video_done

VideoFrame ==
  /\ video # <<>>
  /\ video' = Tail(video)
  /\ Emit("video", Timestamp_video)
  /\ AdvanceVideo(Duration(Head(video)))
  /\ UNCHANGED decode_video_done

TakeVideo ==
  /\ VideoEnd \/ VideoFrame
  /\ UNCHANGED <<fn, audio, decode_audio_done, Timestamp_audio, audio_time,
                 audiosamplerate, pc>>

AudioEnd ==
  /\ audio = 0
  /\ decode_audio_done' = TRUE
  /\ UNCHANGED <<audio, Timestamp_audio, audio_time, out, pc>>

\* The step is a division by zero unless the rate was recognised.
AdvanceAudio ==
  IF audiosamplerate = 0
  THEN pc' = "crashed" /\ UNCHANGED <<Timestamp_audio, audio_time>>
  ELSE /\ Timestamp_audio' = (Timestamp_audio + AudioStep) % UintMod
       /\ audio_time' = audio_time + AudioStep
       /\ UNCHANGED pc

\* Mutant: a frame is read without a look at the end of the file.
AudioFrame_PastEnd ==
  /\ audio' = audio - 1
  /\ Emit("audio", Timestamp_audio)
  /\ AdvanceAudio
  /\ UNCHANGED decode_audio_done

AudioFrame ==
  /\ audio > 0
  /\ audio' = audio - 1
  /\ Emit("audio", Timestamp_audio)
  /\ AdvanceAudio
  /\ UNCHANGED decode_audio_done

TakeAudio ==
  /\ AudioEnd \/ AudioFrame
  /\ UNCHANGED <<fn, video, decode_video_done, Timestamp_video, video_time,
                 audiosamplerate>>

-----------------------------------------------------------------------------
\* WriteBuf2File leaves its loop when both flags are set, WriteH264Buff2File
\* when that of the audio is: no step is enabled then.
InLoop(f) == pc = "loop" /\ fn = f

\* The audio file has ended: the code reads audio again.
AfterAudio ==
  /\ InLoop("WriteBuf2File")
  /\ decode_audio_done /\ ~decode_video_done
  /\ TakeAudio

\* The video file has ended: the code reads video again.
AfterVideo ==
  /\ InLoop("WriteBuf2File")
  /\ decode_video_done /\ ~decode_audio_done
  /\ TakeVideo

\* Mutant: the comparison of the timestamps is the wrong way round.
Interleave_Swapped ==
  /\ InLoop("WriteBuf2File")
  /\ ~decode_audio_done /\ ~decode_video_done
  /\ IF Timestamp_audio > Timestamp_video THEN TakeAudio ELSE TakeVideo

\* Mutant: the conditions of the two tests before it are inverted.
Interleave_AfterBoth ==
  /\ InLoop("WriteBuf2File")
  /\ decode_audio_done /\ decode_video_done
  /\ IF Timestamp_audio > Timestamp_video THEN TakeVideo ELSE TakeAudio

Interleave ==
  /\ InLoop("WriteBuf2File")
  /\ ~decode_audio_done /\ ~decode_video_done
  /\ IF Timestamp_audio > Timestamp_video THEN TakeVideo ELSE TakeAudio

\* Mutant: the loop waits for the wrong file and does not run at all.
VideoOnly_WrongFlag ==
  /\ InLoop("WriteH264Buff2File")
  /\ decode_audio_done
  /\ TakeVideo

\* WriteH264Buff2File: while the audio, which it never reads, is not done.
VideoOnly ==
  /\ InLoop("WriteH264Buff2File")
  /\ ~decode_audio_done
  /\ TakeVideo

Next == Start \/ AfterAudio \/ AfterVideo \/ Interleave \/ VideoOnly

\* Sequential code; the readers never block on files that consist of units
\* and frames, which these are (StopsOnlyIfDamaged of module Readers).  An
\* iteration that finds both its file at the end and the flag set changes
\* nothing: the loop spins.
Spec == Init /\ [][Next]_vars
FairSpec == Spec /\ WF_vars(Next)
-----------------------------------------------------------------------------
Clock == 0..(UintMod - 1)

Frame == [medium : {"video", "audio"}, pts : Clock]

TypeOK ==
  /\ fn \in {"WriteBuf2File", "WriteH264Buff2File"}
  /\ video \in Seq(Kinds)
  /\ audio \in Nat
  /\ decode_video_done \in BOOLEAN /\ decode_audio_done \in BOOLEAN
  /\ Timestamp_video \in Clock /\ Timestamp_audio \in Clock
  /\ audiosamplerate \in Rates
  /\ out \in Seq(Frame)
  /\ video_time \in Nat /\ audio_time \in Nat
  /\ pc \in {"start", "loop", "crashed"}

\* Neither clock has wrapped: 2^32 ticks are 13 hours and 15 minutes.
NotWrapped == video_time < UintMod /\ audio_time < UintMod

(***************************************************************************)
(* Until a clock wraps, the frames of both media are written in the order  *)
(* of their timestamps, whatever the frame rate, the sample rate and the   *)
(* mix of NAL units.                                                       *)
(***************************************************************************)
OutputSorted ==
  NotWrapped => \A i, j \in DOMAIN out : i < j => out[i].pts <= out[j].pts

\* In the time its frames last, no medium is ahead of the other by more than
\* one frame of its own.
StaysInterleaved ==
  fn = "WriteBuf2File" =>
    /\ video_time - audio_time < VideoStep \/ video_time <= audio_time
    /\ audio_time <= video_time \/ audio_time - video_time <= AudioStep

(***************************************************************************)
(* Until a clock wraps WriteBuf2File never lets a medium run ahead of the  *)
(* other by more than one frame of its own.  Afterwards it does: it takes  *)
(* the clock that has wrapped for the earlier one.                         *)
(***************************************************************************)
Interleaved == NotWrapped => StaysInterleaved

(***************************************************************************)
(* At least one of the files is written to its end, unless the rate of the *)
(* audio is not recognised.                                                *)
(***************************************************************************)
OneFileWritten == <>(pc = "crashed" \/ video = <<>> \/ audio = 0)

\* WriteH264Buff2File writes the whole video file (and then spins).
VideoFileWritten == fn = "WriteH264Buff2File" => <>(video = <<>>)
-----------------------------------------------------------------------------
(***************************************************************************)
(* "Write the data of the files into the ts file", the comment of          *)
(* WriteBuf2File: both are written to their ends.                          *)
(***************************************************************************)
BothFilesWritten ==
  fn = "WriteBuf2File" => <>(pc = "crashed" \/ (video = <<>> /\ audio = 0))
=============================================================================
