--------------------------------- MODULE Ts ---------------------------------
(***************************************************************************)
(* The transport packets of tsmux/Ts.h and Ts.cpp: 188 bytes that start    *)
(* with a 4-byte header.  A packet is abstracted to the fields a receiver  *)
(* uses to find the payload: bytes themselves are not represented.         *)
(***************************************************************************)
EXTENDS Integers, Sequences

TS_PAT_PID  == 0
TS_PMT_PID  == 4095
TS_H264_PID == 256
TS_AAC_PID  == 257

MediaPids == {TS_H264_PID, TS_AAC_PID}
TablePids == {TS_PAT_PID, TS_PMT_PID}
Pids      == MediaPids \cup TablePids

TS_PACKET_SIZE   == 188
TS_PACKET_HEADER == 4

\* What precedes the elementary stream in the first packet of a frame: the
\* 9 fixed bytes of the PES header and the 5 bytes of its PTS.
PES_HEADER == 14

(***************************************************************************)
(* A packet of the file.  "at" is the offset in the packet where the       *)
(* writer put the first payload byte; "frame", "from" and "len" say which  *)
(* bytes of which frame follow it.  Table packets carry no frame (0).      *)
(***************************************************************************)
Packet ==
  [pid : Pids, play_init : 0..1, ada_field_C : {1, 3}, conti_cter : 0..15,
   aflen : Nat, pcr : BOOLEAN, at : Nat, frame : Nat, from : Nat, len : Nat]

\* Where a receiver looks for the elementary stream in packet p.
PayloadStart(p) ==
  TS_PACKET_HEADER + (IF p.ada_field_C = 3 THEN 1 + p.aflen ELSE 0)
                   + (IF p.play_init = 1 THEN PES_HEADER ELSE 0)

\* The packet of a PAT or a PMT: payload only, a whole section.
WriteStruct_Table(pid) ==
  [pid |-> pid, play_init |-> 1, ada_field_C |-> 1, aflen |-> 0,
   pcr |-> FALSE, at |-> TS_PACKET_HEADER, frame |-> 0, from |-> 0, len |-> 0]

\* A uchar that counts the packets of one PID, and the 4 bits of it in a header.
CounterMod_255 == 255   \* mutant: the counter wraps one step early
CounterMod == 256
Conti(c)   == c % 16

\* The header of a packet: the fields of p and the continuity counter c.
WriteStruct_Packetheader(p, c) ==
  [pid |-> p.pid, play_init |-> p.play_init, ada_field_C |-> p.ada_field_C,
   conti_cter |-> Conti(c), aflen |-> p.aflen, pcr |-> p.pcr, at |-> p.at,
   frame |-> p.frame, from |-> p.from, len |-> p.len]
=============================================================================
