---------------------------- MODULE FileMuxProofs ----------------------------
(***************************************************************************)
(* For every frame rate, files of any length and clocks of any width: the  *)
(* types and, until a clock wraps, the order of the frames in the output   *)
(* and the distance between the two media.                                 *)
(***************************************************************************)
EXTENDS FileMux, SequenceTheorems, TLAPS

\* With an unrecognised sample rate the audio clock never moves.
ClockStopped == audiosamplerate = 0 => audio_time = 0

\* Before the loop nothing was read.
NothingRead == pc = "start" => video_time = 0 /\ audio_time = 0

\* A flag is only set at the end of its file.
FlagsAtEnd ==
  /\ decode_video_done => video = <<>>
  /\ decode_audio_done => audio = 0

\* What the clocks show is how long the frames written last.
ClocksAgree == Timestamp_video = video_time /\ Timestamp_audio = audio_time

\* What was written is not later than the next video frame, nor, when both
\* media are written, than the next audio frame.
OutBehindVideo == \A i \in DOMAIN out : out[i].pts <= video_time
OutBehindAudio ==
  fn = "WriteBuf2File" => \A i \in DOMAIN out : out[i].pts <= audio_time

Sorted == \A i, j \in DOMAIN out : i < j => out[i].pts <= out[j].pts

InStep ==
  ClocksAgree /\ OutBehindVideo /\ OutBehindAudio /\ Sorted /\ StaysInterleaved

IInv ==
  /\ TypeOK
  /\ ClockStopped
  /\ NothingRead
  /\ FlagsAtEnd
  /\ NotWrapped => InStep
-----------------------------------------------------------------------------
\* The time a picture takes is a number of ticks, for every frame rate.
LEMMA VideoStepNat == VideoStep \in Nat
BY FramerateAssumption, SMT DEF VideoStep

\* So is that of an audio frame, for every rate but the unrecognised one.
LEMMA AudioStepNat ==
  ASSUME audiosamplerate \in Rates, audiosamplerate # 0
  PROVE  AudioStep \in Nat
<1>1. CASE audiosamplerate = 8000
  BY <1>1, SMT DEF AudioStep
<1>2. CASE audiosamplerate = 48000
  BY <1>2, SMT DEF AudioStep
<1> QED BY <1>1, <1>2 DEF Rates

\* A clock that is behind and advances by a frame is ahead by less than it.
LEMMA Overtake ==
  ASSUME NEW a \in Nat, NEW b \in Nat, NEW c \in Nat, NEW n \in Nat,
         c <= a + n, a < b
  PROVE  c - b < n
OBVIOUS

\* A clock is no further ahead of another when that one advances.
LEMMA CatchUp ==
  ASSUME NEW a \in Nat, NEW b \in Nat, NEW c \in Nat, NEW n \in Nat, b <= c
  PROVE  /\ a - b <= n => a - c <= n
         /\ a - b < n => a - c < n
OBVIOUS

\* The clocks show numbers of ticks.
LEMMA ClockNat == ASSUME NEW c \in Clock PROVE c \in Nat
BY UintModAssumption DEF Clock

\* Where it does not wrap, a clock goes on by what is added to it.
LEMMA NoWrap ==
  ASSUME NEW a \in Nat, a < UintMod
  PROVE  a % UintMod = a
BY UintModAssumption

\* However it goes on, a clock stays in its width.
LEMMA ClockAgain ==
  ASSUME NEW c \in Clock, NEW n \in Nat
  PROVE  (c + n) % UintMod \in Clock
<1>1. c + n \in Nat
  BY ClockNat
<1> QED BY <1>1, UintModAssumption DEF Clock

\* A clock that has not wrapped had not wrapped before.
LEMMA NotWrappedBefore ==
  ASSUME TypeOK, NotWrapped',
         \E n \in Nat : video_time' = video_time + n,
         \E n \in Nat : audio_time' = audio_time + n
  PROVE  NotWrapped
BY UintModAssumption DEF TypeOK, NotWrapped

\* The initial state: nothing is written, both clocks are at 0.
LEMMA InitInv == Init => IInv
<1> SUFFICES ASSUME Init PROVE IInv
  OBVIOUS
<1>1. video \in Seq(Kinds)
  <2>1. PICK n \in 0..MaxVideo : video \in [1..n -> Kinds]
    BY DEF Init, Files
  <2> QED BY <2>1, MaxVideoAssumption
<1>2. TypeOK
  <2>1. audio \in Nat
    BY MaxAudioAssumption DEF Init
  <2>2. out \in Seq(Frame)
    BY DEF Init
  <2>3. decode_video_done \in BOOLEAN /\ decode_audio_done \in BOOLEAN
    BY DEF Init
  <2>4. 0 \in Clock
    BY UintModAssumption DEF Clock
  <2>5. /\ fn \in {"WriteBuf2File", "WriteH264Buff2File"}
        /\ pc \in {"start", "loop", "crashed"}
        /\ Timestamp_video \in Clock /\ Timestamp_audio \in Clock
        /\ video_time \in Nat /\ audio_time \in Nat
        /\ audiosamplerate \in Rates
    BY <2>4 DEF Init, Rates
  <2> QED BY <1>1, <2>1, <2>2, <2>3, <2>5 DEF TypeOK
<1>3. InStep
  BY DEF Init, InStep, ClocksAgree, OutBehindVideo, OutBehindAudio, Sorted, StaysInterleaved
<1> QED BY <1>2, <1>3 DEF Init, IInv, FlagsAtEnd, ClockStopped, NothingRead

\* Start reads the rate and leaves clocks and output alone.
LEMMA StartInv == IInv /\ Start => IInv'
<1> SUFFICES ASSUME IInv, Start PROVE IInv'
  OBVIOUS
<1>1. TypeOK'
  BY DEF IInv, Start, TypeOK
<1>2. pc = "start" /\ pc' = "loop"
      /\ UNCHANGED <<fn, video, audio, decode_video_done, decode_audio_done, out,
                     Timestamp_video, Timestamp_audio, video_time, audio_time>>
  BY DEF Start
<1>3. audio_time = 0 /\ video_time = 0
  BY <1>2 DEF IInv, NothingRead
<1>4. ASSUME NotWrapped PROVE InStep'
  BY <1>2, <1>3, <1>4 DEF IInv, InStep, ClocksAgree, OutBehindVideo, OutBehindAudio,
                          Sorted, StaysInterleaved
<1> QED BY <1>1, <1>2, <1>3, <1>4
        DEF IInv, ClockStopped, NothingRead, FlagsAtEnd, NotWrapped

\* Every PTS in the output is a number of ticks.
LEMMA PtsNat ==
  ASSUME NEW s \in Seq(Frame), NEW i \in DOMAIN s
  PROVE  s[i].pts \in Nat
<1>1. s[i] \in Frame
  OBVIOUS
<1> QED BY <1>1, ClockNat DEF Frame

\* What the output is after one more frame.
LEMMA AppendFrame ==
  ASSUME NEW medium \in {"video", "audio"}, NEW pts \in Clock,
         out \in Seq(Frame), Emit(medium, pts)
  PROVE  /\ out' \in Seq(Frame)
         /\ DOMAIN out = 1..Len(out) /\ Len(out) \in Nat
         /\ DOMAIN out' = 1..(Len(out) + 1)
         /\ out'[Len(out) + 1].pts = pts
         /\ \A i \in 1..Len(out) : out'[i] = out[i]
<1> DEFINE f == [medium |-> medium, pts |-> pts]
<1>1. f \in Frame /\ f.pts = pts
  BY DEF Frame
<1>2. out' = Append(out, f)
  BY DEF Emit
<1> HIDE DEF f
<1> QED BY <1>1, <1>2

\* A frame appended with a PTS no earlier than any other keeps the order.
LEMMA AppendSorted ==
  ASSUME NEW medium \in {"video", "audio"}, NEW pts \in Clock,
         out \in Seq(Frame), Sorted, Emit(medium, pts),
         \A i \in DOMAIN out : out[i].pts <= pts
  PROVE  Sorted' /\ \A i \in DOMAIN out' : out'[i].pts <= pts
<1>1. pts \in Nat
  BY ClockNat
<1>2. /\ DOMAIN out = 1..Len(out) /\ Len(out) \in Nat
      /\ DOMAIN out' = 1..(Len(out) + 1)
      /\ out'[Len(out) + 1].pts = pts
      /\ \A i \in 1..Len(out) : out'[i] = out[i]
  BY AppendFrame
<1>3. ASSUME NEW i \in DOMAIN out' PROVE out'[i].pts <= pts
  BY <1>1, <1>2, <1>3
<1>4. ASSUME NEW i \in DOMAIN out', NEW j \in DOMAIN out', i < j
      PROVE  out'[i].pts <= out'[j].pts
  <2>1. CASE j = Len(out) + 1
    BY <2>1, <1>2, <1>3
  <2>2. CASE j # Len(out) + 1
    <3>1. i \in DOMAIN out /\ j \in DOMAIN out
      BY <2>2, <1>2, <1>4
    <3> QED BY <3>1, <1>2, <1>4 DEF Sorted
  <2> QED BY <2>1, <2>2
<1> QED BY <1>3, <1>4 DEF Sorted

\* A video step when video is due: its PTS is behind the audio clock, or no
\* audio is written at all.
LEMMA TakeVideoInv ==
  ASSUME IInv, TakeVideo, pc = "loop",
         fn = "WriteBuf2File" => video = <<>> \/ Timestamp_audio > Timestamp_video
  PROVE  IInv'
<1>1. CASE VideoEnd
  <2>1. TypeOK'
    BY <1>1 DEF IInv, TakeVideo, VideoEnd, TypeOK
  <2> QED BY <2>1, <1>1
          DEF IInv, TakeVideo, VideoEnd, FlagsAtEnd, InStep, NotWrapped, ClocksAgree,
              OutBehindVideo, OutBehindAudio, Sorted, StaysInterleaved, NothingRead,
              AudioStep, ClockStopped
<1>2. CASE VideoFrame
  <2> DEFINE d == Duration(Head(video))
  <2>1. /\ video \in Seq(Kinds) /\ video # <<>>
        /\ Timestamp_video \in Clock /\ video_time \in Nat /\ audio_time \in Nat
        /\ VideoStep \in Nat /\ d \in Nat /\ d <= VideoStep
    BY <1>2, VideoStepNat DEF VideoFrame, IInv, TypeOK, Duration
  <2>2. /\ video_time' = video_time + d
        /\ Timestamp_video' = (Timestamp_video + d) % UintMod
        /\ UNCHANGED <<fn, pc, audio_time, Timestamp_audio, audiosamplerate,
                       audio, decode_audio_done, decode_video_done>>
        /\ video' = Tail(video)
        /\ Emit("video", Timestamp_video)
    BY <1>2 DEF VideoFrame, AdvanceVideo, TakeVideo
  <2> HIDE DEF d
  <2>3. TypeOK'
    <3>1. Timestamp_video' \in Clock
      BY <2>1, <2>2, ClockAgain
    <3>2. out' \in Seq(Frame)
      BY <2>1, <2>2, AppendFrame DEF IInv, TypeOK
    <3>3. video' \in Seq(Kinds) /\ video_time' \in Nat
      BY <2>1, <2>2
    <3> QED BY <2>2, <3>1, <3>2, <3>3 DEF IInv, TypeOK
  <2>4. FlagsAtEnd' /\ ClockStopped' /\ NothingRead'
    BY <2>1, <2>2 DEF IInv, FlagsAtEnd, ClockStopped, NothingRead
  <2>5. ASSUME NotWrapped' PROVE InStep'
    <3>1. NotWrapped /\ InStep
      <4>1. NotWrapped
        BY <2>1, <2>2, <2>5, NotWrappedBefore DEF IInv
      <4> QED BY <4>1 DEF IInv
    <3>2. ClocksAgree'
      <4>1. video_time' < UintMod /\ video_time' \in Nat
        BY <2>1, <2>2, <2>5 DEF NotWrapped
      <4>2. Timestamp_video' = video_time' % UintMod
        BY <2>2, <3>1 DEF InStep, ClocksAgree
      <4> QED BY <2>2, <3>1, <4>1, <4>2, NoWrap DEF InStep, ClocksAgree
    <3>3. Sorted' /\ \A i \in DOMAIN out' : out'[i].pts <= video_time
      <4>1. Timestamp_video = video_time
        BY <3>1 DEF InStep, ClocksAgree
      <4> QED BY <2>1, <2>2, <3>1, <4>1, AppendSorted
              DEF IInv, TypeOK, InStep, OutBehindVideo
    <3>4. \A i \in DOMAIN out' : out'[i].pts \in Nat
      BY <2>3, PtsNat DEF TypeOK
    <3>5. OutBehindVideo'
      BY <2>1, <2>2, <3>3, <3>4 DEF OutBehindVideo
    <3>6. ASSUME fn = "WriteBuf2File"
          PROVE  audio_time > video_time /\ StaysInterleaved'
      <4>1. audio_time > video_time
        BY <3>6, <2>1, <3>1 DEF InStep, ClocksAgree
      <4>2. audio_time - video_time <= AudioStep
        BY <3>1, <3>6, <4>1, <2>1 DEF InStep, StaysInterleaved
      <4>3. video_time' \in Nat /\ video_time <= video_time'
            /\ video_time' <= video_time + VideoStep
        BY <2>1, <2>2
      <4>4. video_time' - audio_time < VideoStep \/ video_time' <= audio_time
        BY <4>1, <4>3, <2>1, Overtake
      <4>5. audio_time <= video_time' \/ audio_time - video_time' <= AudioStep
        <5>1. AudioStep \in Nat
          BY <4>1, <2>1, AudioStepNat DEF IInv, TypeOK, ClockStopped
        <5> QED BY <5>1, <4>2, <4>3, <2>1, CatchUp
      <4>6. AudioStep' = AudioStep /\ VideoStep' = VideoStep
        BY <2>2 DEF AudioStep, VideoStep
      <4> QED BY <2>2, <4>1, <4>4, <4>5, <4>6 DEF StaysInterleaved
    <3>7. OutBehindAudio'
      BY <2>1, <2>2, <3>3, <3>4, <3>6 DEF OutBehindAudio
    <3>8. StaysInterleaved'
      BY <2>2, <3>6 DEF StaysInterleaved
    <3> QED BY <3>2, <3>3, <3>5, <3>7, <3>8 DEF InStep
  <2> QED BY <2>3, <2>4, <2>5 DEF IInv
<1> QED BY <1>1, <1>2 DEF TakeVideo

\* An audio step when audio is due: its PTS is not ahead of the video clock.
LEMMA TakeAudioInv ==
  ASSUME IInv, TakeAudio, pc = "loop", fn = "WriteBuf2File",
         audio = 0 \/ Timestamp_audio <= Timestamp_video
  PROVE  IInv'
<1>1. CASE AudioEnd
  <2>1. TypeOK'
    BY <1>1 DEF IInv, TakeAudio, AudioEnd, TypeOK
  <2> QED BY <2>1, <1>1
          DEF IInv, TakeAudio, AudioEnd, FlagsAtEnd, InStep, NotWrapped, ClocksAgree,
              OutBehindVideo, OutBehindAudio, Sorted, StaysInterleaved, NothingRead,
              AudioStep, ClockStopped
<1>2. CASE AudioFrame
  <2>1. /\ audio \in Nat /\ audio > 0 /\ audiosamplerate \in Rates
        /\ Timestamp_audio \in Clock /\ video_time \in Nat /\ audio_time \in Nat
    BY <1>2 DEF AudioFrame, IInv, TypeOK
  <2>2. PICK d \in Nat :
          /\ audio_time' = audio_time + d
          /\ \/ d = 0 /\ Timestamp_audio' = Timestamp_audio
             \/ d = AudioStep /\ Timestamp_audio' = (Timestamp_audio + d) % UintMod
          /\ audiosamplerate = 0 => d = 0
          /\ pc' \in {"loop", "crashed"}
    <3>1. CASE audiosamplerate = 0
      BY <3>1, <2>1, <1>2 DEF AudioFrame, AdvanceAudio
    <3>2. CASE audiosamplerate # 0
      <4>1. AudioStep \in Nat
        BY <3>2, <2>1, AudioStepNat
      <4> QED BY <3>2, <4>1, <2>1, <1>2 DEF AudioFrame, AdvanceAudio
    <3> QED BY <3>1, <3>2
  <2>3. /\ UNCHANGED <<fn, video, video_time, Timestamp_video, audiosamplerate,
                       decode_audio_done, decode_video_done>>
        /\ audio' = audio - 1
        /\ Emit("audio", Timestamp_audio)
    BY <1>2 DEF AudioFrame, TakeAudio
  <2>4. TypeOK'
    <3>1. Timestamp_audio' \in Clock
      BY <2>1, <2>2, ClockAgain
    <3>2. out' \in Seq(Frame)
      BY <2>1, <2>3, AppendFrame DEF IInv, TypeOK
    <3>3. audio' \in Nat /\ audio_time' \in Nat
      BY <2>1, <2>2, <2>3
    <3> QED BY <2>2, <2>3, <3>1, <3>2, <3>3 DEF IInv, TypeOK
  <2>5. FlagsAtEnd' /\ ClockStopped' /\ NothingRead'
    BY <2>1, <2>2, <2>3 DEF IInv, FlagsAtEnd, ClockStopped, NothingRead
  <2>6. ASSUME NotWrapped' PROVE InStep'
    <3>1. NotWrapped /\ InStep
      <4>1. NotWrapped
        BY <2>1, <2>2, <2>3, <2>6, NotWrappedBefore DEF IInv
      <4> QED BY <4>1 DEF IInv
    <3>2. ClocksAgree'
      <4>1. audio_time' < UintMod /\ audio_time' \in Nat
        BY <2>1, <2>2, <2>6 DEF NotWrapped
      <4>2. Timestamp_audio = audio_time /\ Timestamp_video = video_time
        BY <3>1 DEF InStep, ClocksAgree
      <4>3. audio_time' % UintMod = audio_time'
        BY <4>1, NoWrap
      <4> QED BY <2>1, <2>2, <2>3, <4>2, <4>3 DEF ClocksAgree
    <3>3. audio_time <= video_time
      BY <2>1, <3>1 DEF InStep, ClocksAgree
    <3>4. Sorted' /\ \A i \in DOMAIN out' : out'[i].pts <= audio_time
      <4>1. Timestamp_audio = audio_time
        BY <3>1 DEF InStep, ClocksAgree
      <4> QED BY <2>1, <2>3, <3>1, <4>1, AppendSorted
              DEF IInv, TypeOK, InStep, OutBehindAudio
    <3>5. \A i \in DOMAIN out' : out'[i].pts \in Nat
      BY <2>4, PtsNat DEF TypeOK
    <3>6. OutBehindVideo' /\ OutBehindAudio'
      BY <2>1, <2>2, <2>3, <3>3, <3>4, <3>5 DEF OutBehindVideo, OutBehindAudio
    <3>7. StaysInterleaved'
      <4>1. VideoStep' = VideoStep /\ AudioStep' = AudioStep
        BY <2>3 DEF AudioStep, VideoStep
      <4>2. video_time - audio_time < VideoStep \/ video_time <= audio_time
        BY <3>1 DEF InStep, StaysInterleaved
      <4>3. audio_time' \in Nat /\ audio_time <= audio_time'
        BY <2>1, <2>2
      <4>4. video_time - audio_time' < VideoStep \/ video_time <= audio_time'
        <5>1. CASE video_time <= audio_time
          BY <2>1, <4>3, <5>1
        <5>2. CASE video_time - audio_time < VideoStep
          BY <2>1, <4>3, <5>2, VideoStepNat, CatchUp
        <5> QED BY <4>2, <5>1, <5>2
      <4>5. audio_time' <= video_time \/ audio_time' - video_time <= AudioStep
        BY <2>1, <2>2, <3>3
      <4> QED BY <2>2, <2>3, <4>1, <4>4, <4>5 DEF StaysInterleaved
    <3> QED BY <3>2, <3>4, <3>6, <3>7 DEF InStep
  <2> QED BY <2>4, <2>5, <2>6 DEF IInv
<1> QED BY <1>1, <1>2 DEF TakeAudio

\* Every step of both loops preserves the invariant.
LEMMA NextInv == IInv /\ [Next]_vars => IInv'
<1> SUFFICES ASSUME IInv, [Next]_vars PROVE IInv'
  OBVIOUS
<1>1. CASE Start
  BY <1>1, StartInv
<1>2. CASE AfterAudio
  <2>1. audio = 0
    BY <1>2 DEF AfterAudio, IInv, FlagsAtEnd
  <2> QED BY <2>1, <1>2, TakeAudioInv DEF AfterAudio, InLoop
<1>3. CASE AfterVideo
  <2>1. video = <<>>
    BY <1>3 DEF AfterVideo, IInv, FlagsAtEnd
  <2> QED BY <2>1, <1>3, TakeVideoInv DEF AfterVideo, InLoop
<1>4. CASE Interleave
  <2>1. CASE Timestamp_audio > Timestamp_video
    BY <2>1, <1>4, TakeVideoInv DEF Interleave, InLoop
  <2>2. CASE ~(Timestamp_audio > Timestamp_video)
    <3>1. Timestamp_audio <= Timestamp_video
      BY <2>2, ClockNat DEF IInv, TypeOK
    <3> QED BY <3>1, <2>2, <1>4, TakeAudioInv DEF Interleave, InLoop
  <2> QED BY <2>1, <2>2
<1>5. CASE VideoOnly
  BY <1>5, TakeVideoInv DEF VideoOnly, InLoop
<1>6. CASE UNCHANGED vars
  BY <1>6 DEF vars, IInv, TypeOK, FlagsAtEnd, OutBehindVideo, OutBehindAudio,
              Sorted, StaysInterleaved, NothingRead, AudioStep, ClockStopped,
              InStep, NotWrapped, ClocksAgree
<1> QED BY <1>1, <1>2, <1>3, <1>4, <1>5, <1>6 DEF Next

\* IInv is an invariant of both functions.
THEOREM Invariance == Spec => []IInv
<1>1. Init => IInv
  BY InitInv
<1>2. IInv /\ [Next]_vars => IInv'
  BY NextInv
<1> QED BY <1>1, <1>2, PTL DEF Spec

\* The state of the loops is always well typed.
THEOREM TypeCorrect == Spec => []TypeOK
<1>1. IInv => TypeOK
  BY DEF IInv
<1> QED BY <1>1, Invariance, PTL

\* Whatever the frame rate, the sample rate, the width of the clocks and the
\* files, the frames are written in the order of their timestamps until a
\* clock wraps.
THEOREM SortedCorrect == Spec => []OutputSorted
<1>1. IInv => OutputSorted
  BY DEF IInv, InStep, Sorted, OutputSorted
<1> QED BY <1>1, Invariance, PTL

\* Until a clock wraps, the two media never drift apart by more than a frame.
THEOREM InterleavedCorrect == Spec => []Interleaved
<1>1. IInv => Interleaved
  BY VideoStepNat DEF IInv, InStep, TypeOK, Interleaved, StaysInterleaved
<1> QED BY <1>1, Invariance, PTL
=============================================================================
