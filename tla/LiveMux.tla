------------------------------ MODULE LiveMux ------------------------------
(***************************************************************************)
(* The frames of the live streams: DummySink::afterGettingFrame of         *)
(* testRTSPClient.cpp writes each frame of a sink to a.h264 or b.aac and,  *)
(* through WriteBuf2TsFile of Mux.cpp, to the .ts file.  The files and the *)
(* two clocks are globals which the sinks of all the streams share.  The   *)
(* module composes the sinks with the client of module RtspClient, which   *)
(* creates and closes them; PES2TS, which cuts an entry of ts into         *)
(* packets, is module Pes2Ts.                                              *)
(*                                                                         *)
(* continuePlaying asks for the first frame when the sink is started and   *)
(* for the next one at the end of each frame, so an active sink always     *)
(* waits for one.  A frame of another medium than video and audio changes  *)
(* nothing.                                                                *)
(***************************************************************************)
EXTENDS RtspClient, Sequences

CONSTANTS
  Medium,           \* Medium[c, i]: mediumName() of subsession i of stream c
  UintMod,          \* 2^32: unsigned int, and unsigned long of the build
  nMaxOutputBytes,  \* what faacEncOpen says
  MaxFrames         \* bound: frames received, by all the sinks together

Sinks == Streams \X Subs

ASSUME MediumAssumption  == Medium \in [Sinks -> {"video", "audio", "other"}]
ASSUME UintModAssumption == UintMod \in Nat \ {0}
ASSUME OutputAssumption  == nMaxOutputBytes \in Nat
ASSUME MaxFramesAssumption == MaxFrames \in Nat

VARIABLES
  bInitHead,         \* bInitHead[s]: sink s has written the parameter sets
  Timestamp_video, Timestamp_audio,
  ts,                \* the .ts file: one entry for a call of PES2TS
  h264,              \* a.h264
  aac,               \* b.aac: per frame, what faac returned and what is written
  received,          \* history: the sink of every frame received
  undefined          \* the behaviour of the program is undefined from here on

muxVars == <<bInitHead, Timestamp_video, Timestamp_audio, ts, h264, aac,
             received, undefined>>

LiveVars == <<vars, muxVars>>

LiveInit ==
  /\ Init
  /\ bInitHead = [s \in Sinks |-> FALSE]
  /\ Timestamp_video = 0
  /\ Timestamp_audio = 0
  /\ ts = <<>>
  /\ h264 = <<>>
  /\ aac = <<>>
  /\ received = <<>>
  /\ undefined = FALSE

\* The ticks of a picture, for the frame rate afterGettingFrame passes.
VideoStep == (1000 * 90) \div 25

AudioStep == (1024 * 1000 * 90) \div 8000

NoPcr == -1

\* Mutant: the product is taken in 64 bits.
Pcr_Wide(Videopts) == Videopts * 300

\* Mutant: the 90 kHz clock is written for the 27 MHz one.
Pcr_NoScale(Videopts) == Videopts

\* WriteAdaptive_flags_Head: the product is an unsigned int.
Pcr(Videopts) == (Videopts * 300) % UintMod
-----------------------------------------------------------------------------
\* A NAL unit of sink s, which belongs to the n-th frame received.  With a start
\* code of 4 bytes in front, Read_One_H264_Frame copies it as it is to the PES.
Unit(unit, s, n) == [unit |-> unit, sink |-> s, n |-> n]

\* Mutant: the parameter sets are written in the wrong order.
Heads_Swapped(s, n) == << Unit("pps", s, n), Unit("sps", s, n) >>

\* The first two sets of sprop-parameter-sets.
Heads(s, n) == << Unit("sps", s, n), Unit("pps", s, n) >>

\* What H2642PES puts into the PES for a unit, and how PES2TS is called for it:
\* a PTS from the clock, and for slices only the head with a PCR.
VideoEntry(u) ==
  [pid |-> "video", unit |-> u.unit, sink |-> u.sink, n |-> u.n,
   pts |-> Timestamp_video,
   pcr |-> IF u.unit = "slice" THEN Pcr(Timestamp_video) ELSE NoPcr]

Entries(units) == [k \in 1..Len(units) |-> VideoEntry(units[k])]

\* A slice, which can only be the last unit, advances the clock.
ClockAfter(units) ==
  IF \E k \in 1..Len(units) : units[k].unit = "slice"
  THEN (Timestamp_video + VideoStep) % UintMod
  ELSE Timestamp_video

\* The calls of WriteBuf2TsFile for units, one after the other.
WriteVideo(units) ==
  /\ ts' = ts \o Entries(units)
  /\ Timestamp_video' = ClockAfter(units)

\* afterGettingFrame itself writes each unit to a.h264, behind its call.
WriteH264(units) == h264' = h264 \o units

\* afterGettingFrame is called for sink s: the frame it had asked for arrived.
Gets(s, medium) ==
  /\ EventLoop
  /\ scs[s[1]].sub[s[2]] = "active"
  /\ Medium[s] = medium
  /\ Len(received) < MaxFrames
  /\ received' = Append(received, s)

\* Mutant: the frame that brings the parameter sets is forgotten.
UnitsOf_FirstLost(s, frame) ==
  IF bInitHead[s] THEN <<frame>> ELSE Heads(s, frame.n)

\* What is written for a frame: the first one brings the parameter sets along.
UnitsOf(s, frame) ==
  (IF bInitHead[s] THEN <<>> ELSE Heads(s, frame.n)) \o <<frame>>

VideoFrame(s) ==
  /\ Gets(s, "video")
  /\ \E unit \in {"slice", "other"} :
       LET units == UnitsOf(s, Unit(unit, s, Len(received')))
       IN  WriteVideo(units) /\ WriteH264(units)
  /\ bInitHead' = [bInitHead EXCEPT ![s] = TRUE]
  /\ UNCHANGED <<Timestamp_audio, aac, undefined>>

\* The SDP has fewer than two parameter sets: the array is read past its end.
NoParameterSets(s) ==
  /\ Gets(s, "video")
  /\ ~bInitHead[s]
  /\ \E num \in {0, 1} :
       LET units == SubSeq(Heads(s, Len(received')), 1, num)
       IN  WriteVideo(units) /\ WriteH264(units)
  /\ undefined' = TRUE
  /\ UNCHANGED <<bInitHead, Timestamp_audio, aac>>

\* What AAC2PES puts into the PES for a frame: a PTS from the clock, never a PCR.
AudioEntry(s, n) ==
  [pid |-> "audio", unit |-> "aac", sink |-> s, n |-> n,
   pts |-> Timestamp_audio, pcr |-> NoPcr]

\* Mutant: the clock runs while the encoder holds the samples back.
WriteAudio_AlwaysTicks(s, n, len) ==
  /\ ts' = IF len = 0 THEN ts ELSE Append(ts, AudioEntry(s, n))
  /\ Timestamp_audio' = (Timestamp_audio + AudioStep) % UintMod

\* WriteBuf2TsFile of the len bytes that faac returned, none at first.
WriteAudio(s, n, len) ==
  IF len = 0
  THEN UNCHANGED <<ts, Timestamp_audio>>
  ELSE /\ ts' = Append(ts, AudioEntry(s, n))
       /\ Timestamp_audio' = (Timestamp_audio + AudioStep) % UintMod

AudioFrame(s) ==
  /\ Gets(s, "audio")
  /\ \E nRet \in 0..nMaxOutputBytes :
       /\ WriteAudio(s, Len(received'), nRet)
       /\ aac' = Append(aac, [sink |-> s, nRet |-> nRet,
                              written |-> nMaxOutputBytes])
  /\ UNCHANGED <<bInitHead, Timestamp_video, h264, undefined>>

\* The encoder reports an error: -1 is taken for a length.
EncoderFailed(s) ==
  /\ Gets(s, "audio")
  /\ undefined' = TRUE
  /\ UNCHANGED <<bInitHead, Timestamp_video, Timestamp_audio, ts, h264, aac>>

SinkStep ==
  \E s \in Sinks : VideoFrame(s) \/ NoParameterSets(s) \/ AudioFrame(s) \/ EncoderFailed(s)

LiveNext ==
  /\ ~undefined
  /\ \/ Next /\ UNCHANGED muxVars
     \/ SinkStep /\ UNCHANGED vars

LiveSpec == LiveInit /\ [][LiveNext]_LiveVars
-----------------------------------------------------------------------------
Entry == [pid : {"video", "audio"}, unit : {"sps", "pps", "slice", "other", "aac"},
          sink : Sinks, n : Nat, pts : 0..(UintMod - 1), pcr : -1..(UintMod - 1)]

LiveTypeOK ==
  /\ bInitHead \in [Sinks -> BOOLEAN]
  /\ Timestamp_video \in 0..(UintMod - 1)
  /\ Timestamp_audio \in 0..(UintMod - 1)
  /\ ts \in Seq(Entry)
  /\ h264 \in Seq([unit : {"sps", "pps", "slice", "other"}, sink : Sinks, n : Nat])
  /\ aac \in Seq([sink : Sinks, nRet : 0..nMaxOutputBytes,
                  written : 0..nMaxOutputBytes])
  /\ received \in Seq(Sinks)
  /\ undefined \in BOOLEAN

IsFrame(e) == e.unit \in {"slice", "other"}

(***************************************************************************)
(* The parameter sets of a video sink are in the .ts file, one after the   *)
(* other and once, before its first frame, however the frames of the other *)
(* sinks come in between.  (Two sinks share the PID: the sets of one       *)
(* replace those of the other, which this does not exclude.)               *)
(***************************************************************************)
ParameterSetsFirst ==
  \A s \in Sinks, k \in 1..Len(ts) : ts[k].sink = s /\ IsFrame(ts[k]) =>
    \E j \in 1..(k - 2) :
      /\ ts[j].sink = s /\ ts[j].unit = "sps"
      /\ ts[j + 1].sink = s /\ ts[j + 1].unit = "pps"
      /\ \A m \in (1..Len(ts)) \ {j, j + 1} :
           ts[m].sink = s => ts[m].unit \notin {"sps", "pps"}

(***************************************************************************)
(* Every frame a video sink got is in the .ts file, in the order in which  *)
(* they arrived, whatever the other sinks write to the same file.          *)
(***************************************************************************)
NoVideoFrameLost ==
  /\ ~undefined =>
       \A n \in 1..Len(received) : Medium[received[n]] = "video" =>
         \E k \in 1..Len(ts) :
           IsFrame(ts[k]) /\ ts[k].n = n /\ ts[k].sink = received[n]
  /\ \A j, k \in 1..Len(ts) :
       j < k /\ IsFrame(ts[j]) /\ IsFrame(ts[k]) => ts[j].n < ts[k].n

Adjacent(i, j, K) == /\ {i, j} \subseteq K /\ i < j
                     /\ \A m \in (i + 1)..(j - 1) : m \notin K

First(k, K) == k \in K /\ \A m \in 1..(k - 1) : m \notin K

Of(pid) == {k \in 1..Len(ts) : ts[k].pid = pid}
Slices  == {k \in 1..Len(ts) : ts[k].unit = "slice"}

\* The time on the air of an entry.
Duration(e) == CASE e.unit = "slice" -> VideoStep
                 [] e.unit = "aac"   -> AudioStep
                 [] OTHER            -> 0

(***************************************************************************)
(* The timestamps of a PID start at 0 and go on from each entry by its own *)
(* duration, modulo the wrap of the clock: nothing another sink writes     *)
(* between them, and nothing the encoder holds back, makes them jump.      *)
(***************************************************************************)
ClockPerFrame ==
  \A pid \in {"video", "audio"} :
    /\ \A k \in Of(pid) : First(k, Of(pid)) => ts[k].pts = 0
    /\ \A i, j \in Of(pid) : Adjacent(i, j, Of(pid)) =>
         ts[j].pts = (ts[i].pts + Duration(ts[i])) % UintMod

(***************************************************************************)
(* The PCRs start at 0 and go on by one picture from slice to slice, in    *)
(* the 27 MHz of a PCR: the 32 bits of the product and the wrap of the     *)
(* clock leave one counter modulo 2^32 (a PCR ought to count to 300 * 2^33, *)
(* so that it falls behind the timestamps after 2^32 ticks, 159 seconds).  *)
(***************************************************************************)
PcrPerPicture ==
  /\ \A k \in Slices : First(k, Slices) => ts[k].pcr = 0
  /\ \A i, j \in Slices : Adjacent(i, j, Slices) =>
       ts[j].pcr = (ts[i].pcr + (300 * VideoStep)) % UintMod

(***************************************************************************)
(* "set to the adts transport stream: the aac stream is written to the     *)
(* .aac file; if the encoding is right, it can be played" (the comment on  *)
(* outputFormat): the file holds what the encoder returned.                *)
(***************************************************************************)
AacFileIsTheStream == \A k \in 1..Len(aac) : aac[k].written = aac[k].nRet
=============================================================================
