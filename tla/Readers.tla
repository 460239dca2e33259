------------------------------ MODULE Readers -------------------------------
(***************************************************************************)
(* The two file readers side by side, as the loops of tsmux/Mux.cpp call   *)
(* them in any order, against what they are for: to be the FrameFiles that *)
(* the loops (module FileMux) take them for.  The reference definitions    *)
(* say, from the formats alone, which frames a file consists of.           *)
(***************************************************************************)
EXTENDS AnnexB, Adts, SequencesExt

vars == <<videoVars, audioVars>>

Init == VideoInit /\ AudioInit

Next ==
  \/ VideoNext /\ UNCHANGED audioVars
  \/ AudioNext /\ UNCHANGED videoVars

Spec == Init /\ [][Next]_vars

FairSpec ==
  Spec /\ WF_vars(VideoNext /\ UNCHANGED audioVars)
       /\ WF_vars(AudioCall /\ UNCHANGED videoVars)
-----------------------------------------------------------------------------
\* Bit i of bytes s, from 0, and the number that bits i to i+n-1 stand for.
Bit(s, i) == (s[i \div 8 + 1] \div 2^(7 - (i % 8))) % 2

Number(s, i, n) ==
  LET upto[k \in 0..n] == IF k = 0 THEN 0 ELSE 2 * upto[k - 1] + Bit(s, i + k - 1)
  IN  upto[n]

\* The pieces of file f between the offsets in S, and from the last of them
\* to the end.
NextCut(f, S, a) == Min({b \in S : b > a} \cup {Len(f)})

Rank(S, a) == Cardinality({b \in S : b < a})

CutAt(f, S) ==
  [k \in 1..Cardinality(S) |->
     LET a == CHOOSE a \in S : Rank(S, a) = k - 1
     IN  SubSeq(f, a + 1, NextCut(f, S, a))]

(***************************************************************************)
(* A file that begins with a start code is cut in front of each start      *)
(* code, taking in the zero of the long ones.                              *)
(***************************************************************************)
UnitStarts(f) ==
  {IF i > 0 /\ f[i] = 0 THEN i - 1 ELSE i :
     i \in {j \in 0..(Len(f) - 3) : SubSeq(f, j + 1, j + 3) = StartCode2}}

Units(f) == CutAt(f, UnitStarts(f))

\* A file whose units, with the start code that follows, fit the buffer.
FitsBuf(f) ==
  \A k \in DOMAIN Units(f) : Len(Units(f)[k]) + 4 <= MAX_VIDEO_TAG_BUF_SIZE

GoodH264 == BeginsWithStartCode(h264) /\ FitsBuf(h264)

(***************************************************************************)
(* An Exp-Golomb code at bit i: n zeros, a one and n bits.  Its value is   *)
(* the number that the last n + 1 of them stand for, less one.             *)
(***************************************************************************)
Zeros(s, i) ==
  CHOOSE n \in 0..(8 * Len(s) - i) :
    /\ \A k \in 0..(n - 1) : Bit(s, i + k) = 0
    /\ i + n < 8 * Len(s) => Bit(s, i + n) = 1

CodeEnd(s, i) == i + 2 * Zeros(s, i) + 1

\* A code that is whole and fits an int.
Readable(s, i) == CodeEnd(s, i) <= 8 * Len(s) /\ Zeros(s, i) < 31

Code(s, i) == Number(s, i + Zeros(s, i), Zeros(s, i) + 1) - 1

(***************************************************************************)
(* The end of the ADTS frame at offset o: a syncword, 13 bits of length    *)
(* from bit 30 on, and that many bytes in all.  It is o itself where there *)
(* is no such frame.                                                       *)
(***************************************************************************)
AdtsEnd(f, o) ==
  IF /\ Len(f) - o >= 7
     /\ Number(f, 8 * o, 12) = 4095
     /\ Number(f, 8 * o + 30, 13) \in 7..(Len(f) - o)
  THEN o + Number(f, 8 * o + 30, 13) ELSE o

\* 0, the end of the frame there, the end of the frame there, and so on.
AdtsCuts(f) ==
  LET cuts[o \in 0..Len(f)] ==
        {o} \cup (IF AdtsEnd(f, o) = o THEN {} ELSE cuts[AdtsEnd(f, o)])
  IN  cuts[0]

AdtsFrames(f) == CutAt(f, AdtsCuts(f) \ {Len(f)})

WholeAac == Len(aac) \in AdtsCuts(aac)
-----------------------------------------------------------------------------
TypeOK == VideoTypeOK /\ AudioTypeOK

(***************************************************************************)
(* Read_One_H264_Frame is a FrameFile of the units: each call hands over   *)
(* the next one, cut exactly at the start codes, and the end is announced  *)
(* after the last and not before.                                          *)
(***************************************************************************)
V == INSTANCE FrameFile WITH
       left  <- IF GoodH264 THEN SubSeq(Units(h264), Len(units) + 1, Len(Units(h264)))
                ELSE <<>>,
       taken <- [k \in DOMAIN units |-> units[k].bytes],
       done  <- decode_video_done

ReadsH264File == [][GoodH264 => V!Next]_(V!vars)

(***************************************************************************)
(* Exactly the slices are given a picture type, and it is the one in their *)
(* header, wherever in a byte its Exp-Golomb codes begin.  A type of 10 or *)
(* more does not exist; there is no type to compare with if the header is  *)
(* cut off, or has a code of 31 zeros, whose value no int holds.           *)
(***************************************************************************)
Pictures == <<"FRAME_P", "FRAME_B", "FRAME_I", "FRAME_P", "FRAME_I">>

SliceTypeExact(u) ==
  LET nal  == SubSeq(u.bytes, IF u.bytes[3] = 1 THEN 4 ELSE 5, Len(u.bytes))
      data == Tail(nal)
      type == CodeEnd(data, 0)
  IN  IF nal = <<>> \/ nal[1] % 32 \notin {1, 5} THEN u.type \notin ToSet(Pictures)
      ELSE Readable(data, 0) /\ Readable(data, type) =>
             u.type = IF Code(data, type) < 10 THEN Pictures[(Code(data, type) % 5) + 1]
                                               ELSE "none"

SliceTypesExact == \A k \in DOMAIN units : SliceTypeExact(units[k])

\* The buffer of GetAnnexbNALU is overrun only by a unit that does not fit it.
OverrunOnlyIfTooLong == video_pc = "overrun" => ~FitsBuf(h264)

(***************************************************************************)
(* Read_One_Aac_Frame is a FrameFile of the ADTS frames, if the file       *)
(* consists of whole ones.                                                 *)
(***************************************************************************)
A == INSTANCE FrameFile WITH
       left  <- IF WholeAac THEN SubSeq(AdtsFrames(aac), Len(frames) + 1,
                                        Len(AdtsFrames(aac)))
                ELSE <<>>,
       taken <- frames,
       done  <- decode_audio_done

ReadsAacFile == [][WholeAac => A!Next]_(A!vars)

(***************************************************************************)
(* Only a damaged frame makes the error value -1 a length, or a call wait  *)
(* for a key: files of whole frames are read without either.               *)
(***************************************************************************)
StopsOnlyIfDamaged == audio_pc # "idle" => ~WholeAac

(***************************************************************************)
(* A call that returns a frame leaves its file behind where it began,      *)
(* however far the reader of H.264 files seeks back, and whatever -1 or an *)
(* uninitialised number is taken for a length: no file makes the loops     *)
(* read the same bytes for ever.                                           *)
(***************************************************************************)
EveryCallAdvances ==
  [][/\ units' # units => h264_pos' > units'[Len(units')].from
     /\ frames' # frames => aac_pos' > aac_pos]_vars

(***************************************************************************)
(* The end of either file is found, whatever the file is, unless a buffer  *)
(* is overrun or a header without syncword waits for a key that is never   *)
(* pressed.                                                                *)
(***************************************************************************)
BothReadersEnd ==
  /\ <>(decode_video_done \/ video_pc = "overrun")
  /\ <>(decode_audio_done \/ audio_pc = "overrun") \/ <>[](audio_pc = "getchar")
=============================================================================
