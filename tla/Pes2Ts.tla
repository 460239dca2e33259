------------------------------- MODULE Pes2Ts -------------------------------
(***************************************************************************)
(* PES2TS of tsmux/Mux.cpp: a frame with its PES header is cut into        *)
(* 188-byte packets appended to the .ts file, and a PAT/PMT pair is        *)
(* inserted whenever the packet count is a multiple of PsiPeriod.  Each    *)
(* action is the code between two writes of the file, so that every prefix *)
(* the file can have (the program is killed at any time) is a state.       *)
(***************************************************************************)
EXTENDS Ts

CONSTANTS
  PsiPeriod,    \* the code's 40: a table check every PsiPeriod packets
  UintMod,      \* 2^32: WritePacketNum is an unsigned int
  FrameSizes,   \* the lengths of the frames the callers hand over
  MaxFrames     \* bound: how many frames are handed over

ASSUME PsiPeriodAssumption  == PsiPeriod \in Nat \ {0}
ASSUME UintModAssumption    == UintMod \in Nat \ {0}
ASSUME FrameSizesAssumption == FrameSizes \subseteq Nat \ {0}
ASSUME MaxFramesAssumption  == MaxFrames \in Nat

VARIABLES
  ts_file,             \* the packets written so far
  continuity_counter,  \* one uchar per PID
  WritePacketNum,      \* the global packet count
  tspes,               \* m_video_tspes and m_audio_tspes
  arg,                 \* the parameters of the running call of PES2TS
  NeafBuf,             \* offset in the frame of the next byte to copy
  frames,              \* history: the frames handed over
  pc,                  \* where PES2TS is
  tables               \* the table packets the current check still has to write

vars == <<ts_file, continuity_counter, WritePacketNum, tspes, arg, NeafBuf,
          frames, pc, tables>>

(***************************************************************************)
(* The callers pass one of two adaptation fields for the first packet: a   *)
(* head with a PCR (7 bytes) for a picture, a tail (1 byte) for the rest.  *)
(***************************************************************************)
Heads    == {1, 7}
HasPcr(head) == head = 7

\* Audio is always given the tail; of video, only pictures get the head.
Calls == {c \in MediaPids \X Heads : c[1] = TS_AAC_PID => c[2] = 1}

Init ==
  /\ ts_file = <<>>
  /\ continuity_counter = [p \in Pids |-> 0]
  /\ WritePacketNum = 0
  /\ tspes = [p \in MediaPids |-> [frame |-> 0, size |-> 0, beyond |-> 0]]
  /\ arg = [pid |-> TS_H264_PID, head |-> 1]
  /\ NeafBuf = 0
  /\ frames = <<>>
  /\ pc = "idle"
  /\ tables = <<>>

Beyond == tspes[arg.pid].beyond   \* Pes_Packet_Length_Beyond

\* Mutant: the 14 bytes of the PES header are forgotten.
FirstPacketLoadLength_NoPesHeader ==
  TS_PACKET_SIZE - TS_PACKET_HEADER - 1 - arg.head

\* The payload of the first packet when the frame needs more than one.
FirstPacketLoadLength ==
  TS_PACKET_SIZE - TS_PACKET_HEADER - 1 - arg.head - PES_HEADER

\* Mutant: the PMT is written before the PAT.
TablesDue_Swapped ==
  IF WritePacketNum % PsiPeriod = 0 THEN <<TS_PMT_PID, TS_PAT_PID>> ELSE <<>>

\* The table packets a check of the count finds due.
TablesDue ==
  IF WritePacketNum % PsiPeriod = 0 THEN <<TS_PAT_PID, TS_PMT_PID>> ELSE <<>>

\* Fill in the header of p and write the packet to the file.
Write(p) ==
  /\ ts_file' = Append(ts_file,
                  WriteStruct_Packetheader(p, continuity_counter[p.pid]))
  /\ continuity_counter' =
       [continuity_counter EXCEPT ![p.pid] = (@ + 1) % CounterMod]

\* Write a packet with n bytes of the current frame from offset "from".
WriteMedia(init, afc, aflen, pcr, at, from, n) ==
  Write([pid |-> arg.pid, play_init |-> init, ada_field_C |-> afc,
         aflen |-> aflen, pcr |-> pcr, at |-> at,
         frame |-> tspes[arg.pid].frame, from |-> from, len |-> n])

Count(n) == WritePacketNum' = (WritePacketNum + n) % UintMod

\* Mutant: what was copied is not taken off.
Consume_Forgotten(n) == UNCHANGED tspes

Consume(n) == tspes' = [tspes EXCEPT ![arg.pid].beyond = @ - n]

At(label) == pc = label /\ tables = <<>>

(***************************************************************************)
(* A caller fills a PES with a frame and calls PES2TS.                     *)
(***************************************************************************)
Submit(call, size) ==
  /\ At("idle")
  /\ Len(frames) < MaxFrames
  /\ frames' = Append(frames, [pid |-> call[1], head |-> call[2], size |-> size])
  /\ tspes' = [tspes EXCEPT ![call[1]] =
                 [frame |-> Len(frames) + 1, size |-> size, beyond |-> size]]
  /\ arg' = [pid |-> call[1], head |-> call[2]]
  /\ NeafBuf' = 0
  /\ pc' = "entry"
  /\ UNCHANGED <<ts_file, continuity_counter, WritePacketNum, tables>>

\* A frame shorter than a first packet: stuffing, and neither PCR nor tables.
WriteSingle ==
  /\ At("entry")
  /\ Beyond < FirstPacketLoadLength
  /\ WriteMedia(1, 3, 184 - Beyond - 9 - 5 - 1, FALSE,
                4 + 2 + (184 - Beyond - 9 - 5 - 2) + 9 + 5, 0, Beyond)
  /\ Count(1)
  /\ pc' = "idle"
  /\ UNCHANGED <<tspes, arg, NeafBuf, frames, tables>>

EnterFragmented ==
  /\ At("entry")
  /\ Beyond >= FirstPacketLoadLength
  /\ tables' = TablesDue
  /\ pc' = "first"
  /\ UNCHANGED <<ts_file, continuity_counter, WritePacketNum, tspes, arg,
                 NeafBuf, frames>>

\* Write_Pat, then Write_Pmt; neither is counted in WritePacketNum.
WriteTable ==
  /\ tables # <<>>
  /\ Write(WriteStruct_Table(Head(tables)))
  /\ tables' = Tail(tables)
  /\ UNCHANGED <<WritePacketNum, tspes, arg, NeafBuf, frames, pc>>

WriteFirst ==
  /\ At("first")
  /\ WriteMedia(1, 3, arg.head, HasPcr(arg.head), 4 + 1 + arg.head + 9 + 5,
                0, FirstPacketLoadLength)
  /\ NeafBuf' = FirstPacketLoadLength
  /\ Consume(FirstPacketLoadLength)
  /\ Count(1)
  /\ pc' = "loop"
  /\ UNCHANGED <<arg, frames, tables>>

\* Mutant: the loop stops with one byte left.
LoopReturn_OneLeft ==
  /\ At("loop")
  /\ Beyond <= 1
  /\ pc' = "idle"
  /\ UNCHANGED <<ts_file, continuity_counter, WritePacketNum, tspes, arg,
                 NeafBuf, frames, tables>>

LoopReturn ==
  /\ At("loop")
  /\ Beyond = 0
  /\ pc' = "idle"
  /\ UNCHANGED <<ts_file, continuity_counter, WritePacketNum, tspes, arg,
                 NeafBuf, frames, tables>>

\* Mutant: no check of the count before a packet of the loop.
LoopCheck_NoTables ==
  /\ At("loop")
  /\ Beyond # 0
  /\ pc' = "body"
  /\ UNCHANGED <<ts_file, continuity_counter, WritePacketNum, tspes, arg,
                 NeafBuf, frames, tables>>

LoopCheck ==
  /\ At("loop")
  /\ Beyond # 0
  /\ tables' = TablesDue
  /\ pc' = "body"
  /\ UNCHANGED <<ts_file, continuity_counter, WritePacketNum, tspes, arg,
                 NeafBuf, frames>>

\* Mutant: the copy pointer is not advanced.
WriteMiddle_SameBytes ==
  /\ At("body")
  /\ Beyond >= 184
  /\ WriteMedia(0, 1, 0, FALSE, 4, NeafBuf, 184)
  /\ Consume(184)
  /\ Count(1)
  /\ pc' = "loop"
  /\ UNCHANGED <<arg, NeafBuf, frames, tables>>

WriteMiddle ==
  /\ At("body")
  /\ Beyond >= 184
  /\ WriteMedia(0, 1, 0, FALSE, 4, NeafBuf, 184)
  /\ NeafBuf' = NeafBuf + 184
  /\ Consume(184)
  /\ Count(1)
  /\ pc' = "loop"
  /\ UNCHANGED <<arg, frames, tables>>

\* Fewer than 184 bytes are left: the count is checked a second time.
LastCheck ==
  /\ At("body")
  /\ Beyond < 184
  /\ tables' = TablesDue
  /\ pc' = "last"
  /\ UNCHANGED <<ts_file, continuity_counter, WritePacketNum, tspes, arg,
                 NeafBuf, frames>>

\* 183 or 182 bytes leave no room for stuffing after the two adaptation bytes.
WriteAlmostFull ==
  /\ At("last")
  /\ Beyond \in {182, 183}
  /\ WriteMedia(0, 3, 1, FALSE, 4 + 2, NeafBuf, 182)
  /\ NeafBuf' = NeafBuf + 182
  /\ Consume(182)
  /\ Count(1)
  /\ pc' = "loop"
  /\ UNCHANGED <<arg, frames, tables>>

\* The last packet is counted twice.
WriteLast ==
  /\ At("last")
  /\ Beyond \notin {182, 183}
  /\ WriteMedia(0, 3, 184 - Beyond - 1, FALSE, 4 + 2 + (184 - Beyond - 2),
                NeafBuf, Beyond)
  /\ Consume(Beyond)
  /\ Count(2)
  /\ pc' = "loop"
  /\ UNCHANGED <<arg, NeafBuf, frames, tables>>

Step ==
  \/ WriteSingle \/ EnterFragmented \/ WriteTable \/ WriteFirst \/ LoopReturn
  \/ LoopCheck \/ WriteMiddle \/ LastCheck \/ WriteAlmostFull \/ WriteLast

Next ==
  \/ \E call \in Calls, size \in FrameSizes : Submit(call, size)
  \/ Step

Spec == Init /\ [][Next]_vars

\* PES2TS is straight-line code on the only thread: once called, it goes on.
FairSpec == Spec /\ WF_vars(Step)
-----------------------------------------------------------------------------
TypeOK ==
  /\ ts_file \in Seq(Packet)
  /\ continuity_counter \in [Pids -> 0..255]
  /\ WritePacketNum \in 0..(UintMod - 1)
  /\ tspes \in [MediaPids -> [frame : Nat, size : Nat, beyond : Nat]]
  /\ arg \in [pid : MediaPids, head : Heads]
  /\ NeafBuf \in Nat
  /\ frames \in Seq([pid : MediaPids, head : Heads, size : Nat])
  /\ pc \in {"idle", "entry", "first", "loop", "body", "last"}
  /\ tables \in {<<>>, <<TS_PAT_PID, TS_PMT_PID>>, <<TS_PMT_PID>>}

(***************************************************************************)
(* Every media packet is exactly full, and the receiver finds the payload  *)
(* where the writer put it: the five length computations of PES2TS (F,     *)
(* single, 182/183 and last packet) agree with the header they are written *)
(* behind, at every boundary size.  A PCR fits in its adaptation field.    *)
(***************************************************************************)
WellFormed(p) ==
  /\ p.pid \in MediaPids => /\ p.len > 0
                            /\ p.at = PayloadStart(p)
                            /\ p.at + p.len = TS_PACKET_SIZE
  /\ p.pcr => p.ada_field_C = 3 /\ p.aflen >= 7

PacketsWellFormed == \A i \in DOMAIN ts_file : WellFormed(ts_file[i])

(***************************************************************************)
(* While one frame is being cut, no more than PsiPeriod of its packets     *)
(* follow each other without a table in between, although the last packet  *)
(* counts double and the count wraps at UintMod.                           *)
(***************************************************************************)
CadenceWithinFrame ==
  LET n == Len(ts_file)
  IN  n > PsiPeriod =>
        \/ ts_file[n].frame = 0
        \/ \E i \in (n - PsiPeriod)..n : ts_file[i].frame # ts_file[n].frame

(***************************************************************************)
(* Every frame handed over is eventually in the file to its last byte.     *)
(***************************************************************************)
Delivered(k) ==
  \E i \in DOMAIN ts_file :
    ts_file[i].frame = k /\ ts_file[i].from + ts_file[i].len = frames[k].size

EveryFrameDelivered ==
  \A k \in 1..MaxFrames : (Len(frames) = k) ~> Delivered(k)

(***************************************************************************)
(* A call of PES2TS cannot cut for ever: each step but the call itself     *)
(* lessens this number, although the loop goes back, looks at the count    *)
(* twice before a last packet and leaves a byte to the next round of the   *)
(* loop when 183 are left.  A frame of n bytes takes at most 7 n + 15      *)
(* steps.                                                                  *)
(***************************************************************************)
PlacesLeft ==
  CASE pc = "entry" -> 5 [] pc = "first" -> 4 [] pc = "loop" -> 3
    [] pc = "body"  -> 2 [] pc = "last"  -> 1 [] pc = "idle" -> 0

StepsLeft ==
  IF pc = "idle" THEN 0 ELSE 7 * Beyond + 3 * PlacesLeft + Len(tables)

CallComesToItsEnd == [][frames' = frames => StepsLeft' < StepsLeft]_vars

(***************************************************************************)
(* The file is a stream the transport promises.                            *)
(***************************************************************************)
Visible(p) == [pid |-> p.pid, conti_cter |-> p.conti_cter,
               play_init |-> p.play_init, from |-> p.from, len |-> p.len]

Projected == [i \in DOMAIN ts_file |-> Visible(ts_file[i])]

Running(p) == pc # "idle" /\ arg.pid = p

SizeOf == [p \in MediaPids |-> tspes[p].size]

GotOf ==
  [p \in MediaPids |-> IF Running(p) THEN tspes[p].size - tspes[p].beyond
                                     ELSE tspes[p].size]

ExpectOf == [p \in Pids |-> Conti(continuity_counter[p])]

T == INSTANCE TsTransport WITH
       stream <- Projected, size <- SizeOf, got <- GotOf, expect <- ExpectOf

RefinesTransport == T!Spec
-----------------------------------------------------------------------------
(***************************************************************************)
(* What the comments of the code say of the tables and the PCR.            *)
(***************************************************************************)

\* "Every 40 packets one PAT, one PMT": two pairs never follow each other.
OnePairAtATime ==
  LET n == Len(ts_file)
  IN  n > 1 => ~(ts_file[n-1].pid = TS_PMT_PID /\ ts_file[n].pid = TS_PAT_PID)

\* "Every 40 packets one PAT, one PMT": nowhere more than PsiPeriod media
\* packets without a table.
Cadence ==
  LET n == Len(ts_file)
  IN  n > PsiPeriod => \E i \in (n - PsiPeriod)..n : ts_file[i].frame = 0

\* The pictures carry a PCR; only the other frame types do without.
PcrOnEveryPicture ==
  \A i \in DOMAIN ts_file :
    (ts_file[i].play_init = 1 /\ ts_file[i].frame # 0
       /\ frames[ts_file[i].frame].head = 7) => ts_file[i].pcr
=============================================================================
