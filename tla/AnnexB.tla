------------------------------- MODULE AnnexB -------------------------------
(***************************************************************************)
(* The reader of H.264 files in tsmux/Video.cpp.  A call of                *)
(* Read_One_H264_Frame takes the start code at the file position, reads    *)
(* on byte by byte until the next start code or the end of the file        *)
(* (GetAnnexbNALU), seeks back in front of it, and looks up the frame type *)
(* in the slice header (GetFrameType).                                     *)
(***************************************************************************)
EXTENDS BitReader

CONSTANTS
  H264Files,              \* the files that may be read, as byte sequences
  MAX_VIDEO_TAG_BUF_SIZE  \* the code's 2^20: the size of Buf

ASSUME H264FilesAssumption == H264Files \subseteq Seq(Byte)
ASSUME BufSizeAssumption   == MAX_VIDEO_TAG_BUF_SIZE \in Nat /\ MAX_VIDEO_TAG_BUF_SIZE >= 4

VARIABLES
  h264,               \* the file
  h264_pos,           \* how much of it has been read
  h264_eof,           \* feof: a read has met the end
  start,              \* h264_pos when the running call began
  Buf,                \* what the running call has read
  units,              \* history: what the calls returned, and from where
  decode_video_done,
  video_pc            \* where GetAnnexbNALU is

videoVars == <<h264, h264_pos, h264_eof, start, Buf, units, decode_video_done,
               video_pc>>

StartCode2 == <<0, 0, 1>>
StartCode3 == <<0, 0, 0, 1>>

Left     == Len(h264) - h264_pos
Ahead(n) == SubSeq(h264, h264_pos + 1, h264_pos + n)

\* FindStartCode2 and FindStartCode3 on the last bytes of s.
EndsWith(s, code) ==
  Len(s) >= Len(code) /\ SubSeq(s, Len(s) - Len(code) + 1, Len(s)) = code

-----------------------------------------------------------------------------
(***************************************************************************)
(* GetFrameType.  The unit's first byte after the start code is the NAL    *)
(* header; a slice then has the address of its first macroblock and its    *)
(* type.  "none" stands for the Frametype 0 of a new NALU_t.               *)
(***************************************************************************)
Slices == {1, 5}   \* NAL_SLICE, NAL_SLICE_IDR

OtherType(t) ==
  CASE t = 6 -> "NAL_SEI"
    [] t = 7 -> "NAL_SPS"
    [] t = 8 -> "NAL_PPS"
    [] OTHER -> "none"

SliceType(v) ==
  CASE v \in {0, 3, 5, 8} -> "FRAME_P"
    [] v \in {1, 6}       -> "FRAME_B"
    [] v \in {2, 4, 7, 9} -> "FRAME_I"
    [] OTHER              -> "none"

SliceTypes == {SliceType(v) : v \in 0..10}

NalUnitType(nal) == IF nal = <<>> THEN 0 ELSE nal[1] % 32

\* What the code may take the type of a slice to be: anything, if undefined.
SliceHeaderTypes(data) ==
  LET first_mb == bs_read_ue(bs_init(data))
      type     == IF first_mb.defined THEN bs_read_ue(first_mb.bs) ELSE first_mb
  IN  IF type.defined THEN {SliceType(type.val)} ELSE SliceTypes

GetFrameType(nal) ==
  LET t == NalUnitType(nal)
  IN  IF t \in Slices THEN SliceHeaderTypes(Tail(nal)) ELSE {OtherType(t)}

-----------------------------------------------------------------------------
VideoInit ==
  /\ h264 \in H264Files
  /\ h264_pos = 0
  /\ h264_eof = FALSE
  /\ start = 0
  /\ Buf = <<>>
  /\ units = <<>>
  /\ decode_video_done = FALSE
  /\ video_pc = "idle"

\* Mutant: the end of the file is not noted.
VideoEnd_NoFlag ==
  /\ video_pc = "idle"
  /\ Left < 3 \/ (Left = 3 /\ Ahead(3) # StartCode2)
  /\ h264_pos' = Len(h264)
  /\ h264_eof' = TRUE
  /\ UNCHANGED <<h264, start, Buf, units, decode_video_done, video_pc>>

\* Three bytes, and a fourth if the three are no start code, are not there.
VideoEnd ==
  /\ video_pc = "idle"
  /\ Left < 3 \/ (Left = 3 /\ Ahead(3) # StartCode2)
  /\ decode_video_done' = TRUE
  /\ h264_pos' = Len(h264)
  /\ h264_eof' = TRUE
  /\ UNCHANGED <<h264, start, Buf, units, video_pc>>

\* The call returns a unit: its start code and its nal, from offset "from".
Return(code, nal, from) ==
  /\ \E type \in GetFrameType(nal) :
       units' = Append(units, [from |-> from, bytes |-> code \o nal, type |-> type])
  /\ video_pc' = "idle"

\* GetAnnexbNALU returns -1 with an empty nal and four bytes gone; the caller
\* takes it for a unit.
NoStartCode ==
  /\ video_pc = "idle"
  /\ Left >= 4
  /\ Ahead(3) # StartCode2
  /\ Ahead(4) # StartCode3
  /\ Return(StartCode2, <<>>, h264_pos)
  /\ h264_pos' = h264_pos + 4
  /\ UNCHANGED <<h264, h264_eof, start, Buf, decode_video_done>>

\* Mutant: the buffer still holds the last unit.
TakeStartCode_StaleBuf ==
  /\ video_pc = "idle"
  /\ \E code \in {StartCode2, StartCode3} :
       /\ Left >= Len(code)
       /\ Ahead(Len(code)) = code
       /\ Buf' = Buf \o code
       /\ h264_pos' = h264_pos + Len(code)
  /\ start' = h264_pos
  /\ video_pc' = "scan"
  /\ UNCHANGED <<h264, h264_eof, units, decode_video_done>>

TakeStartCode ==
  /\ video_pc = "idle"
  /\ \E code \in {StartCode2, StartCode3} :
       /\ Left >= Len(code)
       /\ Ahead(Len(code)) = code
       /\ Buf' = code
       /\ h264_pos' = h264_pos + Len(code)
  /\ start' = h264_pos
  /\ video_pc' = "scan"
  /\ UNCHANGED <<h264, h264_eof, units, decode_video_done>>

\* fgetc: at the end it returns EOF, which is stored as a byte 255.
ScanByte ==
  /\ video_pc = "scan"
  /\ ~h264_eof
  /\ IF Len(Buf) = MAX_VIDEO_TAG_BUF_SIZE
     THEN video_pc' = "overrun" /\ UNCHANGED <<Buf, h264_pos, h264_eof>>
     ELSE /\ Buf' = Append(Buf, IF Left > 0 THEN h264[h264_pos + 1] ELSE 255)
          /\ h264_pos' = IF Left > 0 THEN h264_pos + 1 ELSE h264_pos
          /\ h264_eof' = (Left = 0)
          /\ video_pc' = IF EndsWith(Buf', StartCode2) THEN "found" ELSE "scan"
  /\ UNCHANGED <<h264, start, units, decode_video_done>>

\* What was read, without the last n bytes.
Without(n) == SubSeq(Buf, 1, Len(Buf) - n)

Prefix == IF SubSeq(Buf, 1, 3) = StartCode2 THEN StartCode2 ELSE StartCode3

ReturnRead(n) ==
  Return(Prefix, SubSeq(Without(n), Len(Prefix) + 1, Len(Without(n))), start)

\* Mutant: the EOF is kept as a byte of the unit.
LastUnit_WithEof ==
  /\ video_pc = "scan"
  /\ h264_eof
  /\ ReturnRead(0)
  /\ UNCHANGED <<h264, h264_pos, h264_eof, start, Buf, decode_video_done>>

\* The last unit of the file: all that was read but the EOF.
LastUnit ==
  /\ video_pc = "scan"
  /\ h264_eof
  /\ ReturnRead(1)
  /\ UNCHANGED <<h264, h264_pos, h264_eof, start, Buf, decode_video_done>>

\* Mutant: the seek is 4 bytes for either start code.
Rewind_4 == 4

\* Mutant: the seek is made twice.
Rewind_Twice == 2 * (IF EndsWith(Buf, StartCode3) THEN 4 ELSE 3)

Rewind == IF EndsWith(Buf, StartCode3) THEN 4 ELSE 3

\* The next start code was found: seek back in front of it.
NextUnit ==
  /\ video_pc = "found"
  /\ ReturnRead(Rewind)
  /\ h264_pos' = h264_pos - Rewind
  /\ UNCHANGED <<h264, h264_eof, start, Buf, decode_video_done>>

VideoNext ==
  \/ VideoEnd \/ NoStartCode \/ TakeStartCode \/ ScanByte \/ LastUnit \/ NextUnit

VideoSpec == VideoInit /\ [][VideoNext]_videoVars

\* The loops of Mux.cpp call the reader again and again, and a call of it
\* never waits for anything but the file.
VideoFairSpec == VideoSpec /\ WF_videoVars(VideoNext)
-----------------------------------------------------------------------------
FrameTypes == {"NAL_SEI", "NAL_SPS", "NAL_PPS", "FRAME_P", "FRAME_B", "FRAME_I", "none"}

Unit == [from : Nat, bytes : Seq(Byte), type : FrameTypes]

VideoTypeOK ==
  /\ h264 \in Seq(Byte)
  /\ h264_pos \in 0..Len(h264)
  /\ h264_eof \in BOOLEAN
  /\ start \in 0..h264_pos
  /\ Buf \in Seq(Byte) /\ Len(Buf) <= MAX_VIDEO_TAG_BUF_SIZE
  /\ units \in Seq(Unit)
  /\ decode_video_done \in BOOLEAN
  /\ video_pc \in {"idle", "scan", "found", "overrun"}

BeginsWith(f, code) == Len(f) >= Len(code) /\ SubSeq(f, 1, Len(code)) = code

BeginsWithStartCode(f) == BeginsWith(f, StartCode2) \/ BeginsWith(f, StartCode3)

(***************************************************************************)
(* The units of a file that begins with a start code are its consecutive   *)
(* pieces, byte for byte: whatever the lengths of the start codes, the     *)
(* zeros in front of them and the seeks back, none is lost or read twice.  *)
(***************************************************************************)
End(u) == u.from + Len(u.bytes)

UnitsAreTheFile ==
  BeginsWithStartCode(h264) =>
    /\ \A k \in DOMAIN units :
         /\ units[k].bytes = SubSeq(h264, units[k].from + 1, End(units[k]))
         /\ units[k].from = (IF k = 1 THEN 0 ELSE End(units[k - 1]))
    /\ video_pc = "idle" =>
         h264_pos = (IF units = <<>> THEN 0 ELSE End(units[Len(units)]))
=============================================================================
