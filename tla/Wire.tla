-------------------------------- MODULE Wire --------------------------------
(***************************************************************************)
(* The bytes of the packets that module Pes2Ts abstracts to their fields:  *)
(* the header and the two tables of tsmux/Ts.cpp with the checksum of      *)
(* module Crc, the adaptation field and the PES header of tsmux/Mux.cpp    *)
(* with what H2642PES and AAC2PES put into it.  They are compared with     *)
(* what a receiver of a transport stream reads in them.                    *)
(*                                                                         *)
(* An unsigned number of 32 bits is a pair of 16-bit halves <<high, low>>. *)
(***************************************************************************)
EXTENDS Pes2Ts, Crc

CONSTANT Times   \* the clocks to try: pairs of halves

Half == 0..65535

ASSUME TimesAssumption == Times \subseteq Half \X Half

-----------------------------------------------------------------------------
\* The four bytes of every packet.
HeaderBytes(p) ==
  <<71, p.play_init * 64 + ((p.pid \div 256) % 32), p.pid % 256,
    p.ada_field_C * 16 + p.conti_cter>>

PMT_STREAM_TYPE_VIDEO == 27
PMT_STREAM_TYPE_AUDIO == 15

\* The section of the PAT: one program, whose PMT has PID TS_PMT_PID.
PatSection ==
  <<0, 176, 13, 0, 1, 193, 0, 0, 0, 1,
    7 * 32 + ((TS_PMT_PID \div 256) % 16), TS_PMT_PID % 256>>

\* A stream of the PMT, with no descriptors.
PmtStream(type, pid) == <<type, 7 * 32 + ((pid \div 256) % 32), pid % 256, 240, 0>>

PmtSection ==
  <<2, 176, 23, 0, 1, 193, 0, 0,
    7 * 32 + ((TS_H264_PID \div 256) % 32), TS_H264_PID % 256, 240, 0>>
    \o PmtStream(PMT_STREAM_TYPE_VIDEO, TS_H264_PID)
    \o PmtStream(PMT_STREAM_TYPE_AUDIO, TS_AAC_PID)

SectionOf(pid) ==
  LET section == IF pid = TS_PAT_PID THEN PatSection ELSE PmtSection
  IN  section \o CrcBytes(section)

\* A table packet: header, a pointer of 0, the section, and 255 to its end.
TableBytes(p) ==
  LET used == HeaderBytes(p) \o <<0>> \o SectionOf(p.pid)
  IN  used \o [k \in 1..(TS_PACKET_SIZE - Len(used)) |-> 255]

-----------------------------------------------------------------------------
\* WriteAdaptive_flags_Head: Videopts * 300 as an unsigned int.
Pcr(Videopts) ==
  LET low == Videopts[2] * 300
  IN  <<(Videopts[1] * 300 + low \div 65536) % 65536, low % 65536>>

\* The quotient and the remainder of w by 300: base and extension of a PCR.
Base(w)      == (w[1] \div 300) * 65536 + ((w[1] % 300) * 65536 + w[2]) \div 300
Extension(w) == ((w[1] % 300) * 65536 + w[2]) % 300

\* CreateAdaptive_Ts: 33 bits of base, six ones and 9 bits of extension.
PcrBytes(pcr) ==
  LET base == Base(pcr)
      ext  == Extension(pcr)
  IN  <<(base \div 2^25) % 256, (base \div 2^17) % 256, (base \div 2^9) % 256,
        (base \div 2) % 256, (base % 2) * 128 + 126 + ext \div 256, ext % 256>>

\* The adaptation field: its length, its flags, a PCR or else stuffing.
AdaptationBytes(p, Videopts) ==
  CASE p.ada_field_C = 1 -> <<>>
    [] p.pcr             -> <<p.aflen, 16>> \o PcrBytes(Pcr(Videopts))
    [] OTHER             -> <<p.aflen, 0>> \o [k \in 1..(p.aflen - 1) |-> 255]

\* The fixed bytes of a PES header: a stream of video or of audio, no length,
\* a PTS of five bytes and nothing else that is optional.  The two functions
\* also fill in tsptsdts, which nothing reads; the frames are in module Readers.
H2642PES == <<0, 0, 1, 224, 0, 0, 128, 128, 5>>
AAC2PES  == <<0, 0, 1, 192, 0, 0, 128, 128, 5>>

FixedBytes(pid) == IF pid = TS_H264_PID THEN H2642PES ELSE AAC2PES

(***************************************************************************)
(* The five bytes of a PTS: bits 31 and 30, 29 to 15, and 14 to 0 of the   *)
(* clock, each followed by a marker bit, behind the four bits 0011.        *)
(***************************************************************************)
PtsBytes(pts) ==
  LET upper == 2 * ((pts[1] % 2^14) * 2 + pts[2] \div 2^15) + 1
      lower == 2 * (pts[2] % 2^15) + 1
  IN  <<48 + 2 * (pts[1] \div 2^14) + 1,
        upper \div 256, upper % 256, lower \div 256, lower % 256>>

\* Mutant: an audio frame is given the clock of the video.
PesHeader_VideoClock(pid, times) ==
  FixedBytes(pid) \o PtsBytes(times[TS_H264_PID])

\* The header of a frame: each stream is stamped with its own clock.
PesHeader(pid, times) ==
  FixedBytes(pid) \o PtsBytes(times[pid])

\* What PES2TS writes in front of the bytes of the frame.
MediaBytes(p, times) ==
  HeaderBytes(p) \o AdaptationBytes(p, times[TS_H264_PID])
    \o (IF p.play_init = 1 THEN PesHeader(p.pid, times) ELSE <<>>)

-----------------------------------------------------------------------------
(***************************************************************************)
(* The receiver, after ISO/IEC 13818-1.  It has nothing but the bytes b.   *)
(***************************************************************************)
Pid(b)    == (b[2] % 32) * 256 + b[3]
AfLen(b)  == IF (b[4] \div 32) % 2 = 1 THEN 1 + b[5] ELSE 0
HasPes(b) == (b[2] \div 64) % 2 = 1

ReadPcr(b) ==   \* 33 bits of base, of which the first 8 must be 0 here
  <<b[7], ((b[8] * 256 + b[9]) * 256 + b[10]) * 2 + b[11] \div 128,
    (b[11] % 2) * 256 + b[12]>>

CarriesPcr(b) == AfLen(b) > 1 /\ (b[6] \div 16) % 2 = 1

\* 300 times the number high * 2^16 + low, and extension, in 32 bits.
Ticks27MHz(high, low, extension) ==
  LET n == low * 300 + extension
  IN  <<(high * 300 + n \div 65536) % 65536, n % 65536>>

ReadPts(b, at) ==   \* the high 17 bits and the low 16 of the 33
  LET top    == (b[at + 1] \div 2) % 8
      middle == (b[at + 2] * 256 + b[at + 3]) \div 2
      bottom == (b[at + 4] * 256 + b[at + 5]) \div 2
  IN  <<top * 2^14 + middle \div 2, (middle % 2) * 2^15 + bottom>>

MarkersSet(b, at) == \A k \in {1, 3, 5} : b[at + k] % 2 = 1

(***************************************************************************)
(* Whatever the two clocks are, a receiver finds in the bytes of a media   *)
(* packet what was meant: the PID and its counter, the first byte of the   *)
(* frame exactly where it was put, and the frame's own clock as its PTS.   *)
(* Exactly the packets with a PCR are flagged, and base and extension of   *)
(* it make 300 times the video clock, modulo the width of the product.     *)
(***************************************************************************)
ReadsBack(p, times) ==
  LET b  == MediaBytes(p, times)
      at == TS_PACKET_HEADER + AfLen(b)
  IN  /\ b[1] = 71 /\ Pid(b) = p.pid /\ b[4] % 16 = p.conti_cter
      /\ Len(b) = p.at
      /\ HasPes(b) <=> p.from = 0
      /\ HasPes(b) =>
           /\ SubSeq(b, at + 1, at + 3) = <<0, 0, 1>>
           /\ b[at + 8] \div 64 = 2 /\ b[at + 9] = 5
           /\ at + 9 + b[at + 9] = p.at
           /\ ReadPts(b, at + 9) = times[p.pid] /\ MarkersSet(b, at + 9)
      /\ CarriesPcr(b) <=> p.pcr
      /\ CarriesPcr(b) =>
           LET pcr   == ReadPcr(b)
               clock == times[TS_H264_PID]
           IN  /\ pcr[1] = 0 /\ pcr[3] < 300
               /\ Ticks27MHz(pcr[2] \div 65536, pcr[2] % 65536, pcr[3])
                    = Ticks27MHz(clock[1], clock[2], 0)

ReceiverReadsPacket ==
  LET n == Len(ts_file)
      p == ts_file[n]
  IN  n > 0 /\ p.frame # 0 =>
        \A times \in [MediaPids -> (IF p.play_init = 1 THEN Times ELSE {<<0, 0>>})] :
          ReadsBack(p, times)

\* The section of a table packet, as long as it says it is.
Section(b) ==
  LET at == TS_PACKET_HEADER + 1 + b[TS_PACKET_HEADER + 1]
  IN  SubSeq(b, at + 1, at + 3 + (b[at + 2] % 16) * 256 + b[at + 3])

PidAt(s, k) == (s[k] % 32) * 256 + s[k + 1]

(***************************************************************************)
(* The tables announce the stream: a receiver finds sections whose         *)
(* checksums are right; the PAT leads to the PMT, and the PMT to a video   *)
(* and an audio stream, so that every packet written belongs to a PID that *)
(* is announced, and only the announced PCR_PID carries PCRs.              *)
(***************************************************************************)
TablesAnnounceStreams ==
  LET n == Len(ts_file)
      b == TableBytes(ts_file[n])
      s == Section(b)
  IN  n > 0 /\ ts_file[n].frame = 0 =>
        /\ Len(b) = TS_PACKET_SIZE /\ b[4] \div 16 = 1
        /\ Remainder(s) = [k \in 1..32 |-> 0]
        /\ IF Pid(b) = 0
           THEN s[1] = 0 /\ Len(s) = 16 /\ PidAt(s, 11) = TS_PMT_PID
           ELSE /\ Pid(b) = TS_PMT_PID /\ s[1] = 2 /\ Len(s) = 26
                /\ {<<s[13], PidAt(s, 14)>>, <<s[18], PidAt(s, 19)>>}
                     = {<<27, TS_H264_PID>>, <<15, TS_AAC_PID>>}
                /\ \A i \in 1..n : ts_file[i].frame # 0 =>
                     /\ ts_file[i].pid \in {PidAt(s, 14), PidAt(s, 19)}
                     /\ ts_file[i].pcr => ts_file[i].pid = PidAt(s, 9)
=============================================================================
