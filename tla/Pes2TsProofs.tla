---------------------------- MODULE Pes2TsProofs ----------------------------
(***************************************************************************)
(* Theorems about Pes2Ts for every period, word size and set of frame      *)
(* sizes: type correctness, the layout of every packet, that the file is a *)
(* stream of TsTransport, that the tables keep their cadence, and that a   *)
(* call comes to its end.                                                  *)
(***************************************************************************)
EXTENDS Pes2Ts, SequenceTheorems, TLAPS

(***************************************************************************)
(* The inductive invariant relates the three places PES2TS keeps its       *)
(* progress in: what is left of the frame, the copy pointer and the pc.    *)
(***************************************************************************)
Size == tspes[arg.pid].size

TablesOnlyAfterChecks ==
  pc \in {"idle", "entry", "loop"} => tables = <<>>

Progress ==
  /\ pc = "entry" => Beyond = Size /\ Beyond > 0
  /\ pc = "first" => Beyond = Size /\ Beyond >= FirstPacketLoadLength
  /\ pc \in {"loop", "body", "last"} =>
       /\ Beyond < Size
       /\ Beyond # 0 => NeafBuf = Size - Beyond
  /\ pc = "body" => Beyond # 0
  /\ pc = "last" => Beyond \in 1..183

IInv == TypeOK /\ TablesOnlyAfterChecks /\ Progress /\ PacketsWellFormed
-----------------------------------------------------------------------------
\* The first packet of a fragmented frame carries 162 or 168 bytes.
LEMMA FirstLoad ==
  ASSUME arg \in [pid : MediaPids, head : Heads]
  PROVE  /\ FirstPacketLoadLength \in {162, 168}
         /\ FirstPacketLoadLength = 169 - arg.head
BY DEF FirstPacketLoadLength, Heads, TS_PACKET_SIZE, TS_PACKET_HEADER, PES_HEADER

\* Writing a well-formed packet keeps the file typed and well formed.
LEMMA WriteKeepsFile ==
  ASSUME TypeOK, PacketsWellFormed, NEW p,
         p \in [pid : Pids, play_init : 0..1, ada_field_C : {1, 3},
                aflen : Nat, pcr : BOOLEAN, at : Nat, frame : Nat,
                from : Nat, len : Nat],
         WellFormed(p), Write(p)
  PROVE  /\ ts_file' \in Seq(Packet)
         /\ continuity_counter' \in [Pids -> 0..255]
         /\ PacketsWellFormed'
<1> DEFINE q == WriteStruct_Packetheader(p, continuity_counter[p.pid])
<1>1. continuity_counter \in [Pids -> 0..255] /\ ts_file \in Seq(Packet)
  BY DEF TypeOK
<1>2. continuity_counter[p.pid] \in 0..255
  BY <1>1
<1>3. q \in Packet
  BY <1>2 DEF WriteStruct_Packetheader, Packet, Conti
<1>4. WellFormed(q)
  BY DEF WriteStruct_Packetheader, WellFormed, PayloadStart
<1>5. ts_file' = Append(ts_file, q)
  BY DEF Write
<1>6. PacketsWellFormed'
  BY <1>1, <1>3, <1>4, <1>5, AppendProperties DEF PacketsWellFormed
<1>7. continuity_counter' \in [Pids -> 0..255]
  <2>1. (continuity_counter[p.pid] + 1) % CounterMod \in 0..255
    BY <1>2 DEF CounterMod
  <2> QED
    BY <1>1, <2>1 DEF Write
<1> QED
  BY <1>1, <1>3, <1>5, <1>6, <1>7, AppendProperties

\* The n bytes of a media packet fill it and start where its header says.
Fits(init, afc, aflen, pcr, at, n) ==
  /\ at + n = TS_PACKET_SIZE
  /\ at = TS_PACKET_HEADER + (IF afc = 3 THEN 1 + aflen ELSE 0)
                           + (IF init = 1 THEN PES_HEADER ELSE 0)
  /\ pcr => afc = 3 /\ aflen >= 7

\* A media packet whose bytes fit may be written.
LEMMA WriteMediaKeepsFile ==
  ASSUME TypeOK, PacketsWellFormed,
         NEW init \in 0..1, NEW afc \in {1, 3}, NEW aflen \in Nat,
         NEW pcr \in BOOLEAN, NEW at \in Nat, NEW from \in Nat,
         NEW n \in Nat \ {0},
         Fits(init, afc, aflen, pcr, at, n),
         WriteMedia(init, afc, aflen, pcr, at, from, n)
  PROVE  /\ ts_file' \in Seq(Packet)
         /\ continuity_counter' \in [Pids -> 0..255]
         /\ PacketsWellFormed'
<1> DEFINE p == [pid |-> arg.pid, play_init |-> init, ada_field_C |-> afc,
                 aflen |-> aflen, pcr |-> pcr, at |-> at,
                 frame |-> tspes[arg.pid].frame, from |-> from, len |-> n]
<1>1. arg.pid \in Pids /\ tspes[arg.pid].frame \in Nat
  BY DEF TypeOK, Pids
<1>2. p \in [pid : Pids, play_init : 0..1, ada_field_C : {1, 3},
             aflen : Nat, pcr : BOOLEAN, at : Nat, frame : Nat,
             from : Nat, len : Nat]
  BY <1>1
<1>3. WellFormed(p)
  BY DEF WellFormed, PayloadStart, Fits
<1>4. Write(p)
  BY DEF WriteMedia
<1> HIDE DEF p
<1> QED
  BY <1>2, <1>3, <1>4, WriteKeepsFile

\* Counting keeps WritePacketNum an unsigned int.
LEMMA CountTyped ==
  ASSUME TypeOK, NEW n \in Nat, Count(n)
  PROVE  WritePacketNum' \in 0..(UintMod - 1)
BY UintModAssumption DEF TypeOK, Count

\* Copying n bytes of the current frame.
LEMMA ConsumeTyped ==
  ASSUME TypeOK, NEW n \in 0..Beyond, Consume(n), arg' = arg
  PROVE  /\ tspes' \in [MediaPids -> [frame : Nat, size : Nat, beyond : Nat]]
         /\ Beyond' = Beyond - n
         /\ Size' = Size
<1> DEFINE t == tspes[arg.pid]
<1>1. arg.pid \in MediaPids
  BY DEF TypeOK
<1>2. t \in [frame : Nat, size : Nat, beyond : Nat]
  BY <1>1 DEF TypeOK
<1>3. t.beyond - n \in Nat
  BY <1>2 DEF Beyond
<1>4. tspes' = [tspes EXCEPT ![arg.pid] = [t EXCEPT !.beyond = t.beyond - n]]
  BY DEF Consume
<1>5. [t EXCEPT !.beyond = t.beyond - n]
        \in [frame : Nat, size : Nat, beyond : Nat]
  BY <1>2, <1>3
<1>6. tspes'[arg.pid] = [t EXCEPT !.beyond = t.beyond - n]
  BY <1>1, <1>4 DEF TypeOK
<1>7. /\ [t EXCEPT !.beyond = t.beyond - n].beyond = t.beyond - n
      /\ [t EXCEPT !.beyond = t.beyond - n].size = t.size
  BY <1>2
<1>8. Beyond' = Beyond - n /\ Size' = Size
  BY <1>6, <1>7 DEF Beyond, Size
<1> QED
  BY <1>1, <1>4, <1>5, <1>8 DEF TypeOK
-----------------------------------------------------------------------------
\* The initial state: an empty file, and no call of PES2TS.
LEMMA InitInv == Init => IInv
<1> SUFFICES ASSUME Init PROVE IInv
  OBVIOUS
<1>1. TypeOK
  BY UintModAssumption, EmptySeq DEF Init, TypeOK, Pids, MediaPids, TablePids, Heads
<1>2. TablesOnlyAfterChecks /\ Progress /\ PacketsWellFormed
  BY DEF Init, TablesOnlyAfterChecks, Progress, PacketsWellFormed
<1> QED
  BY <1>1, <1>2 DEF IInv

\* A new call: nothing of its frame is written yet.
LEMMA SubmitInv ==
  ASSUME IInv, NEW call \in Calls, NEW size \in FrameSizes, Submit(call, size)
  PROVE  IInv'
<1>1. call[1] \in MediaPids /\ call[2] \in Heads
  BY DEF Calls
<1>2. size \in Nat \ {0}
  BY FrameSizesAssumption
<1>3. TypeOK'
  <2>1. Len(frames) + 1 \in Nat
    BY DEF IInv, TypeOK
  <2>2. tspes' \in [MediaPids -> [frame : Nat, size : Nat, beyond : Nat]]
    BY <1>1, <1>2, <2>1 DEF IInv, TypeOK, Submit
  <2>3. frames' \in Seq([pid : MediaPids, head : Heads, size : Nat])
    BY <1>1, <1>2, AppendProperties DEF IInv, TypeOK, Submit
  <2> QED
    BY <1>1, <2>2, <2>3 DEF IInv, TypeOK, Submit
<1>4. Beyond' = size /\ Size' = size
  BY <1>1 DEF IInv, TypeOK, Submit, Beyond, Size
<1>5. TablesOnlyAfterChecks' /\ Progress'
  BY <1>2, <1>4 DEF Submit, At, TablesOnlyAfterChecks, Progress
<1>6. PacketsWellFormed'
  BY DEF IInv, Submit, PacketsWellFormed
<1> QED
  BY <1>3, <1>5, <1>6 DEF IInv

\* A step between two writes: it changes pc and possibly tables.
LEMMA CheckInv ==
  ASSUME IInv, EnterFragmented \/ LoopCheck \/ LastCheck \/ LoopReturn
  PROVE  IInv'
<1>1. Beyond' = Beyond /\ Size' = Size
      /\ FirstPacketLoadLength' = FirstPacketLoadLength
  BY DEF EnterFragmented, LoopCheck, LastCheck, LoopReturn, Beyond, Size,
         FirstPacketLoadLength
<1>2. TypeOK'
  BY DEF IInv, TypeOK, TablesDue, EnterFragmented, LoopCheck, LastCheck, LoopReturn
<1>3. TablesOnlyAfterChecks'
  BY DEF TablesOnlyAfterChecks, At, EnterFragmented, LoopCheck, LastCheck, LoopReturn
<1>4. Beyond \in Nat
  BY DEF IInv, TypeOK, Beyond
<1>5. Progress'
  BY <1>1, <1>4 DEF IInv, Progress, At, EnterFragmented, LoopCheck, LastCheck,
                    LoopReturn
<1>6. PacketsWellFormed'
  BY DEF IInv, PacketsWellFormed, EnterFragmented, LoopCheck, LastCheck, LoopReturn
<1> QED
  BY <1>2, <1>3, <1>5, <1>6 DEF IInv

\* Writing a due table: the file grows, the frame does not move.
LEMMA WriteTableInv ==
  ASSUME IInv, WriteTable
  PROVE  IInv'
<1>1. tables \in {<<TS_PAT_PID, TS_PMT_PID>>, <<TS_PMT_PID>>}
  BY DEF IInv, TypeOK, WriteTable
<1>2. Head(tables) \in TablePids /\ Tail(tables) \in {<<>>, <<TS_PMT_PID>>}
  <2>1. CASE tables = <<TS_PAT_PID, TS_PMT_PID>>
    <3>1. Head(tables) = TS_PAT_PID
      BY <2>1
    <3>2. Tail(tables) = <<TS_PMT_PID>>
      BY <2>1
    <3> QED
      BY <3>1, <3>2 DEF TablePids
  <2>2. CASE tables = <<TS_PMT_PID>>
    <3>1. Head(tables) = TS_PMT_PID
      BY <2>2
    <3>2. Tail(tables) = <<>>
      BY <2>2
    <3> QED
      BY <3>1, <3>2 DEF TablePids
  <2> QED
    BY <1>1, <2>1, <2>2
<1> DEFINE p == WriteStruct_Table(Head(tables))
<1>3. p \in [pid : Pids, play_init : 0..1, ada_field_C : {1, 3},
             aflen : Nat, pcr : BOOLEAN, at : Nat, frame : Nat,
             from : Nat, len : Nat]
  BY <1>2 DEF WriteStruct_Table, Pids, TS_PACKET_HEADER
<1>4. WellFormed(p)
  BY <1>2 DEF WriteStruct_Table, WellFormed, TablePids, MediaPids, TS_PAT_PID,
              TS_PMT_PID, TS_H264_PID, TS_AAC_PID
<1>5. Write(p)
  BY DEF WriteTable
<1>6. /\ ts_file' \in Seq(Packet)
      /\ continuity_counter' \in [Pids -> 0..255]
      /\ PacketsWellFormed'
  <2> HIDE DEF p
  <2> QED
    BY <1>3, <1>4, <1>5, WriteKeepsFile DEF IInv
<1>7. TypeOK'
  BY <1>2, <1>6 DEF IInv, TypeOK, WriteTable
<1>8. TablesOnlyAfterChecks' /\ Progress'
  BY DEF IInv, WriteTable, TablesOnlyAfterChecks, Progress, Beyond, Size,
         FirstPacketLoadLength
<1> QED
  BY <1>6, <1>7, <1>8 DEF IInv

\* A frame of at most 161 or 167 bytes fits behind at least the two bytes of
\* the adaptation field.
LEMMA WriteSingleInv ==
  ASSUME IInv, WriteSingle
  PROVE  IInv'
<1>1. arg \in [pid : MediaPids, head : Heads]
  BY DEF IInv, TypeOK
<1>2. Beyond \in 1..167
  <2>1. Beyond \in Nat
    BY <1>1 DEF IInv, TypeOK, Beyond
  <2>2. Beyond > 0 /\ Beyond < FirstPacketLoadLength
    BY DEF IInv, Progress, WriteSingle, At
  <2> QED
    BY <1>1, <2>1, <2>2, FirstLoad
<1>3. /\ ts_file' \in Seq(Packet)
      /\ continuity_counter' \in [Pids -> 0..255]
      /\ PacketsWellFormed'
  <2> DEFINE aflen == 184 - Beyond - 9 - 5 - 1
             at    == 4 + 2 + (184 - Beyond - 9 - 5 - 2) + 9 + 5
  <2>1. aflen \in Nat /\ at \in Nat /\ Fits(1, 3, aflen, FALSE, at, Beyond)
    BY <1>2 DEF Fits, TS_PACKET_SIZE, TS_PACKET_HEADER, PES_HEADER
  <2>2. WriteMedia(1, 3, aflen, FALSE, at, 0, Beyond)
    BY DEF WriteSingle
  <2>3. 1 \in 0..1 /\ 3 \in {1, 3} /\ 0 \in Nat /\ Beyond \in Nat \ {0}
    BY <1>2
  <2> HIDE DEF aflen, at
  <2> QED
    BY <2>1, <2>2, <2>3, WriteMediaKeepsFile, Zenon DEF IInv
<1>4. WritePacketNum' \in 0..(UintMod - 1)
  BY CountTyped DEF IInv, WriteSingle
<1>5. TypeOK'
  BY <1>3, <1>4 DEF IInv, TypeOK, WriteSingle
<1>6. TablesOnlyAfterChecks' /\ Progress'
  BY DEF WriteSingle, At, TablesOnlyAfterChecks, Progress
<1> QED
  BY <1>3, <1>5, <1>6 DEF IInv

\* The first packet of a long frame: full, and progress is made.
LEMMA WriteFirstInv ==
  ASSUME IInv, WriteFirst
  PROVE  IInv'
<1> DEFINE L == FirstPacketLoadLength
<1>1. arg \in [pid : MediaPids, head : Heads]
  BY DEF IInv, TypeOK
<1>2. arg.head \in {1, 7} /\ L = 169 - arg.head
  BY <1>1, FirstLoad DEF Heads
<1>3. Beyond \in Nat /\ Beyond = Size /\ Beyond >= L
  BY DEF IInv, TypeOK, Progress, WriteFirst, At, Beyond
<1>4. /\ ts_file' \in Seq(Packet)
      /\ continuity_counter' \in [Pids -> 0..255]
      /\ PacketsWellFormed'
  <2> DEFINE at == 4 + 1 + arg.head + 9 + 5
  <2>1. at \in Nat /\ arg.head \in Nat /\ L \in Nat \ {0}
    BY <1>2
  <2>2. HasPcr(arg.head) \in BOOLEAN
    BY DEF HasPcr
  <2>3. Fits(1, 3, arg.head, HasPcr(arg.head), at, L)
    BY <1>2 DEF Fits, HasPcr, TS_PACKET_SIZE, TS_PACKET_HEADER, PES_HEADER
  <2>4. WriteMedia(1, 3, arg.head, HasPcr(arg.head), at, 0, L)
    BY DEF WriteFirst
  <2>5. 1 \in 0..1 /\ 3 \in {1, 3} /\ 0 \in Nat
    OBVIOUS
  <2> HIDE DEF at, L
  <2> QED
    BY <2>1, <2>2, <2>3, <2>4, <2>5, WriteMediaKeepsFile, Zenon DEF IInv
<1>5. /\ tspes' \in [MediaPids -> [frame : Nat, size : Nat, beyond : Nat]]
      /\ Beyond' = Beyond - L
      /\ Size' = Size
  <2>1. L \in 0..Beyond
    BY <1>2, <1>3
  <2> QED
    BY <2>1, ConsumeTyped DEF IInv, WriteFirst
<1>6. WritePacketNum' \in 0..(UintMod - 1)
  BY CountTyped DEF IInv, WriteFirst
<1>7. TypeOK'
  <2>1. NeafBuf' \in Nat
    BY <1>2 DEF WriteFirst
  <2> QED
    BY <1>4, <1>5, <1>6, <2>1 DEF IInv, TypeOK, WriteFirst
<1>8. TablesOnlyAfterChecks' /\ Progress'
  BY <1>2, <1>3, <1>5 DEF WriteFirst, At, TablesOnlyAfterChecks, Progress
<1> QED
  BY <1>4, <1>7, <1>8 DEF IInv

(***************************************************************************)
(* The three packets of the loop differ in their length and header only.   *)
(* The last one leaves the pointer where it was, but then nothing is left. *)
(***************************************************************************)
LEMMA LoopPacketInv ==
  ASSUME IInv, At("body") \/ At("last"),
         NEW n \in 1..184, NEW afc \in {1, 3}, NEW aflen \in Nat, NEW k \in Nat,
         n <= Beyond,
         IF afc = 3 THEN n = 183 - aflen ELSE n = 184,
         WriteMedia(0, afc, aflen, FALSE, 188 - n, NeafBuf, n),
         Consume(n), Count(k),
         NeafBuf' = NeafBuf + n \/ (NeafBuf' = NeafBuf /\ n = Beyond),
         pc' = "loop",
         UNCHANGED <<arg, frames, tables>>
  PROVE  IInv'
<1>1. /\ ts_file' \in Seq(Packet)
      /\ continuity_counter' \in [Pids -> 0..255]
      /\ PacketsWellFormed'
  <2>1. 188 - n \in Nat /\ NeafBuf \in Nat
    BY DEF IInv, TypeOK
  <2>2. Fits(0, afc, aflen, FALSE, 188 - n, n)
    BY DEF Fits, TS_PACKET_SIZE, TS_PACKET_HEADER, PES_HEADER
  <2>3. 0 \in 0..1 /\ n \in Nat \ {0}
    OBVIOUS
  <2> QED
    BY <2>1, <2>2, <2>3, WriteMediaKeepsFile, Zenon DEF IInv
<1>2. Beyond \in Nat /\ Beyond < Size /\ (Beyond # 0 => NeafBuf = Size - Beyond)
      /\ Size \in Nat
  BY DEF IInv, TypeOK, Progress, At, Beyond, Size
<1>3. /\ tspes' \in [MediaPids -> [frame : Nat, size : Nat, beyond : Nat]]
      /\ Beyond' = Beyond - n
      /\ Size' = Size
  BY <1>2, ConsumeTyped DEF IInv
<1>4. WritePacketNum' \in 0..(UintMod - 1)
  BY CountTyped DEF IInv
<1>5. TypeOK'
  <2>1. NeafBuf' \in Nat
    BY SMTT(30) DEF IInv, TypeOK
  <2> QED
    BY <1>1, <1>3, <1>4, <2>1 DEF IInv, TypeOK
<1>6. TablesOnlyAfterChecks' /\ Progress'
  BY <1>2, <1>3 DEF At, TablesOnlyAfterChecks, Progress
<1> QED
  BY <1>1, <1>5, <1>6 DEF IInv

\* A middle packet: 184 bytes, no adaptation field.
LEMMA WriteMiddleInv ==
  ASSUME IInv, WriteMiddle
  PROVE  IInv'
<1>1. Beyond \in Nat /\ 184 <= Beyond
  BY DEF IInv, TypeOK, WriteMiddle, Beyond
<1>2. WriteMedia(0, 1, 0, FALSE, 188 - 184, NeafBuf, 184)
  <2>1. 188 - 184 = 4
    OBVIOUS
  <2> QED
    BY <2>1, Zenon DEF WriteMiddle
<1>3. /\ Consume(184) /\ Count(1) /\ NeafBuf' = NeafBuf + 184 /\ pc' = "loop"
      /\ UNCHANGED <<arg, frames, tables>> /\ At("body")
  BY DEF WriteMiddle
<1>4. IF 1 = 3 THEN 184 = 183 - 0 ELSE 184 = 184
  OBVIOUS
<1>5. 184 \in 1..184 /\ 1 \in {1, 3} /\ 0 \in Nat /\ 1 \in Nat
  OBVIOUS
<1> QED
  BY <1>1, <1>2, <1>3, <1>4, <1>5, LoopPacketInv, Zenon

\* 182 or 183 bytes left: 182 of them fill the packet.
LEMMA WriteAlmostFullInv ==
  ASSUME IInv, WriteAlmostFull
  PROVE  IInv'
<1>1. Beyond \in Nat /\ 182 <= Beyond
  BY DEF IInv, TypeOK, WriteAlmostFull, Beyond
<1>2. WriteMedia(0, 3, 1, FALSE, 188 - 182, NeafBuf, 182)
  <2>1. 188 - 182 = 4 + 2
    OBVIOUS
  <2> QED
    BY <2>1, Zenon DEF WriteAlmostFull
<1>3. /\ Consume(182) /\ Count(1) /\ NeafBuf' = NeafBuf + 182 /\ pc' = "loop"
      /\ UNCHANGED <<arg, frames, tables>> /\ At("last")
  BY DEF WriteAlmostFull
<1>4. IF 3 = 3 THEN 182 = 183 - 1 ELSE 182 = 184
  OBVIOUS
<1>5. 182 \in 1..184 /\ 3 \in {1, 3} /\ 1 \in Nat
  OBVIOUS
<1> QED
  BY <1>1, <1>2, <1>3, <1>4, <1>5, LoopPacketInv, Zenon

\* At most 181 bytes are left, so the adaptation field has its two bytes.
LEMMA WriteLastInv ==
  ASSUME IInv, WriteLast
  PROVE  IInv'
<1> DEFINE aflen == 184 - Beyond - 1
<1>1. Beyond \in 1..181 /\ Beyond <= Beyond
  <2>1. Beyond \in 1..183 /\ Beyond \notin {182, 183}
    BY DEF IInv, Progress, WriteLast, At
  <2> QED
    BY <2>1
<1>2. WriteMedia(0, 3, aflen, FALSE, 188 - Beyond, NeafBuf, Beyond)
  <2>1. 188 - Beyond = 4 + 2 + (184 - Beyond - 2)
    BY <1>1
  <2> QED
    BY <2>1, Zenon DEF WriteLast
<1>3. /\ Consume(Beyond) /\ Count(2) /\ NeafBuf' = NeafBuf /\ pc' = "loop"
      /\ UNCHANGED <<arg, frames, tables>> /\ At("last")
  BY DEF WriteLast
<1>4. IF 3 = 3 THEN Beyond = 183 - aflen ELSE Beyond = 184
  BY <1>1
<1>5. Beyond \in 1..184 /\ 3 \in {1, 3} /\ aflen \in Nat /\ 2 \in Nat
  BY <1>1
<1> HIDE DEF aflen
<1> QED
  BY <1>1, <1>2, <1>3, <1>4, <1>5, LoopPacketInv, Zenon

\* A stuttering step preserves everything.
LEMMA StutterInv ==
  ASSUME IInv, UNCHANGED vars
  PROVE  IInv'
<1>1. TypeOK' /\ TablesOnlyAfterChecks' /\ PacketsWellFormed'
  BY DEF IInv, vars, TypeOK, TablesOnlyAfterChecks, PacketsWellFormed
<1>2. Progress'
  BY DEF IInv, vars, Progress, Beyond, Size, FirstPacketLoadLength
<1> QED
  BY <1>1, <1>2 DEF IInv

\* Every step of PES2TS and of its callers preserves the invariant.
LEMMA NextInv ==
  ASSUME IInv, [Next]_vars
  PROVE  IInv'
<1>1. CASE \E call \in Calls, size \in FrameSizes : Submit(call, size)
  BY <1>1, SubmitInv
<1>2. CASE Step
  BY <1>2, WriteSingleInv, CheckInv, WriteTableInv, WriteFirstInv, WriteMiddleInv,
     WriteAlmostFullInv, WriteLastInv DEF Step
<1>3. CASE UNCHANGED vars
  BY <1>3, StutterInv
<1> QED
  BY <1>1, <1>2, <1>3 DEF Next

\* IInv is an invariant of the specification.
THEOREM Invariance == Spec => []IInv
<1> QED
  BY InitInv, NextInv, PTL DEF Spec

\* Every reachable state has its type, whatever the period and the sizes.
THEOREM TypeCorrect == Spec => []TypeOK
<1>1. IInv => TypeOK
  BY DEF IInv
<1> QED
  BY <1>1, Invariance, PTL

\* At every size a caller can pass, each packet is full and its header leads
\* to the byte where the payload was put.
THEOREM LayoutCorrect == Spec => []PacketsWellFormed
<1>1. IInv => PacketsWellFormed
  BY DEF IInv
<1> QED
  BY <1>1, Invariance, PTL
-----------------------------------------------------------------------------
(***************************************************************************)
(* Refinement.  Every packet written is a packet sent: its continuity      *)
(* counter is the one the receiver expects.                                *)
(***************************************************************************)
LEMMA ProjectAppend ==
  ASSUME ts_file \in Seq(Packet), NEW q \in Packet,
         ts_file' = Append(ts_file, q)
  PROVE  Projected' = Append(Projected, Visible(q))
<1>1. Len(ts_file) \in Nat /\ DOMAIN ts_file = 1..Len(ts_file)
  OBVIOUS
<1>2. DOMAIN ts_file' = 1..(Len(ts_file) + 1)
  BY AppendProperties
<1>3. Projected \in Seq({Visible(ts_file[i]) : i \in DOMAIN ts_file})
      /\ Len(Projected) = Len(ts_file)
  BY <1>1 DEF Projected
<1>4. DOMAIN Append(Projected, Visible(q)) = 1..(Len(ts_file) + 1)
  BY <1>3
<1>5. ASSUME NEW i \in 1..(Len(ts_file) + 1)
      PROVE  Projected'[i] = Append(Projected, Visible(q))[i]
  BY <1>1, <1>2, <1>3, <1>5 DEF Projected
<1> QED
  BY <1>2, <1>4, <1>5 DEF Projected

\* Writing a packet to the file is a Send of the transport.
LEMMA WriteIsSend ==
  ASSUME TypeOK, NEW p,
         p \in [pid : Pids, play_init : 0..1, ada_field_C : {1, 3},
                aflen : Nat, pcr : BOOLEAN, at : Nat, frame : Nat,
                from : Nat, len : Nat],
         Write(p)
  PROVE  T!Send(p.pid, p.play_init, p.from, p.len)
<1> DEFINE c == continuity_counter[p.pid]
           q == WriteStruct_Packetheader(p, c)
<1>1. continuity_counter \in [Pids -> 0..255] /\ p.pid \in Pids /\ c \in 0..255
  BY DEF TypeOK
<1>2. q \in Packet
  BY <1>1 DEF WriteStruct_Packetheader, Packet, Conti
<1>3. Visible(q) = [pid |-> p.pid, conti_cter |-> ExpectOf[p.pid],
                    play_init |-> p.play_init, from |-> p.from, len |-> p.len]
  BY <1>1 DEF Visible, WriteStruct_Packetheader, ExpectOf
<1>4. Projected' = Append(Projected, Visible(q))
  BY <1>2, ProjectAppend DEF TypeOK, Write
<1>5. Conti((c + 1) % 256) = (Conti(c) + 1) % 16
  BY <1>1 DEF Conti
<1>6. ExpectOf' = [ExpectOf EXCEPT ![p.pid] = (ExpectOf[p.pid] + 1) % 16]
  <2>1. continuity_counter' = [continuity_counter EXCEPT ![p.pid] = (c + 1) % 256]
    BY DEF Write, CounterMod
  <2> QED
    BY <1>1, <1>5, <2>1, Zenon DEF ExpectOf
<1> QED
  BY <1>3, <1>4, <1>6, Zenon DEF T!Send

\* A packet with the next n bytes of the running frame is a Transmit.
LEMMA MediaIsTransmit ==
  ASSUME TypeOK, NEW init \in 0..1, NEW afc \in {1, 3}, NEW aflen \in Nat,
         NEW pcr \in BOOLEAN, NEW at \in Nat, NEW from \in Nat,
         NEW n \in 1..184,
         WriteMedia(init, afc, aflen, pcr, at, from, n),
         from = GotOf[arg.pid],
         init = (IF from = 0 THEN 1 ELSE 0),
         n <= Size - from,
         GotOf' = [GotOf EXCEPT ![arg.pid] = GotOf[arg.pid] + n],
         SizeOf' = SizeOf
  PROVE  T!Next
<1> DEFINE p == [pid |-> arg.pid, play_init |-> init, ada_field_C |-> afc,
                 aflen |-> aflen, pcr |-> pcr, at |-> at,
                 frame |-> tspes[arg.pid].frame, from |-> from, len |-> n]
<1>1. arg.pid \in MediaPids /\ arg.pid \in Pids /\ tspes[arg.pid].frame \in Nat
  BY DEF TypeOK, Pids
<1>2. p \in [pid : Pids, play_init : 0..1, ada_field_C : {1, 3},
             aflen : Nat, pcr : BOOLEAN, at : Nat, frame : Nat,
             from : Nat, len : Nat]
  BY <1>1
<1>3. Write(p)
  BY DEF WriteMedia
<1>4. T!Send(arg.pid, init, from, n)
  <2>1. p.pid = arg.pid /\ p.play_init = init /\ p.from = from /\ p.len = n
    OBVIOUS
  <2>2. T!Send(p.pid, p.play_init, p.from, p.len)
    <3> HIDE DEF p
    <3> QED
      BY <1>2, <1>3, WriteIsSend
  <2> HIDE DEF p
  <2> QED
    BY <2>1, <2>2, Zenon
<1>5. Size = SizeOf[arg.pid]
  BY <1>1 DEF Size, SizeOf
<1>6. T!Transmit(arg.pid, n)
  <2>1. T!Send(arg.pid, IF GotOf[arg.pid] = 0 THEN 1 ELSE 0, GotOf[arg.pid], n)
    BY <1>4, Zenon
  <2>2. n <= SizeOf[arg.pid] - GotOf[arg.pid]
    BY <1>5, Zenon
  <2> QED
    BY <2>1, <2>2, Zenon DEF T!Transmit
<1>7. n \in 1..T!MAX_PAYLOAD /\ arg.pid \in T!MediaPids
  BY <1>1 DEF T!MAX_PAYLOAD, T!TS_PACKET_SIZE, T!TS_PACKET_HEADER, T!MediaPids,
              T!TS_H264_PID, T!TS_AAC_PID, MediaPids, TS_H264_PID, TS_AAC_PID
<1> QED
  BY <1>6, <1>7, Zenon DEF T!Next

\* How the mapped progress changes when n bytes of the frame are consumed.
LEMMA ConsumeMapped ==
  ASSUME TypeOK, NEW n \in 0..Beyond, Consume(n), arg' = arg,
         pc # "idle", pc' # "idle"
  PROVE  /\ GotOf' = [GotOf EXCEPT ![arg.pid] = GotOf[arg.pid] + n]
         /\ SizeOf' = SizeOf
         /\ GotOf[arg.pid] = Size - Beyond
<1> DEFINE t == tspes[arg.pid]
<1>1. arg.pid \in MediaPids /\ tspes \in [MediaPids -> [frame : Nat, size : Nat, beyond : Nat]]
  BY DEF TypeOK
<1>2. t \in [frame : Nat, size : Nat, beyond : Nat]
  BY <1>1
<1>3. tspes' = [tspes EXCEPT ![arg.pid] = [t EXCEPT !.beyond = t.beyond - n]]
  BY DEF Consume
<1>4. /\ [t EXCEPT !.beyond = t.beyond - n].beyond = t.beyond - n
      /\ [t EXCEPT !.beyond = t.beyond - n].size = t.size
  BY <1>2
<1>5. /\ tspes'[arg.pid].size = t.size
      /\ tspes'[arg.pid].beyond = t.beyond - n
      /\ \A q \in MediaPids : q # arg.pid => tspes'[q] = tspes[q]
  BY <1>1, <1>3, <1>4
<1>6. SizeOf' = SizeOf
  <2>1. \A q \in MediaPids : tspes'[q].size = tspes[q].size
    BY <1>5
  <2> QED
    BY <2>1, Zenon DEF SizeOf
<1>7. GotOf[arg.pid] = Size - Beyond
  BY <1>1 DEF GotOf, Running, Size, Beyond
<1>8. GotOf' = [GotOf EXCEPT ![arg.pid] = GotOf[arg.pid] + n]
  <2>1. t.size - (t.beyond - n) = (t.size - t.beyond) + n
    BY <1>2
  <2>2. GotOf'[arg.pid] = GotOf[arg.pid] + n
    BY <1>1, <1>5, <2>1 DEF GotOf, Running
  <2>3. \A q \in MediaPids : q # arg.pid => GotOf'[q] = GotOf[q]
    BY <1>5 DEF GotOf, Running
  <2> QED
    BY <1>1, <2>2, <2>3 DEF GotOf
<1> QED
  BY <1>6, <1>7, <1>8

\* A call of PES2TS is an Accept: all earlier frames were sent whole.
LEMMA SubmitMapped ==
  ASSUME IInv, NEW call \in Calls, NEW size \in FrameSizes, Submit(call, size)
  PROVE  T!Next
<1> DEFINE pid == call[1]
<1>1. pid \in MediaPids /\ size \in Nat \ {0}
  BY FrameSizesAssumption DEF Calls
<1>2. GotOf = SizeOf
  BY Zenon DEF Submit, At, GotOf, SizeOf, Running
<1>3. /\ tspes'[pid].size = size /\ tspes'[pid].beyond = size
      /\ \A q \in MediaPids : q # pid => tspes'[q] = tspes[q]
  BY <1>1 DEF IInv, TypeOK, Submit
<1>4. SizeOf' = [SizeOf EXCEPT ![pid] = SizeOf'[pid]]
  BY <1>1, <1>3 DEF SizeOf
<1>5. SizeOf'[pid] \in Nat \ {0}
  BY <1>1, <1>3 DEF SizeOf
<1>6. GotOf' = [GotOf EXCEPT ![pid] = 0]
  <2>1. GotOf'[pid] = 0
    BY <1>1, <1>3 DEF GotOf, Running, Submit
  <2>2. \A q \in MediaPids : q # pid => GotOf'[q] = GotOf[q]
    BY <1>2, <1>3 DEF GotOf, Running, Submit, SizeOf
  <2> QED
    BY <1>1, <2>1, <2>2, ZenonT(60) DEF GotOf
<1>7. Projected' = Projected /\ ExpectOf' = ExpectOf
  BY DEF Submit, Projected, ExpectOf
<1>8. pid \in T!MediaPids
  BY <1>1 DEF T!MediaPids, T!TS_H264_PID, T!TS_AAC_PID, MediaPids, TS_H264_PID,
              TS_AAC_PID
<1>9. T!Accept(pid)
  BY <1>2, <1>4, <1>5, <1>6, <1>7, Zenon DEF T!Accept
<1> QED
  BY <1>8, <1>9, Zenon DEF T!Next

\* Write_Pat and Write_Pmt are a SendTable.
LEMMA WriteTableMapped ==
  ASSUME IInv, WriteTable
  PROVE  T!Next
<1> DEFINE t == Head(tables)
           p == WriteStruct_Table(t)
<1>1. tables \in {<<TS_PAT_PID, TS_PMT_PID>>, <<TS_PMT_PID>>}
  BY DEF IInv, TypeOK, WriteTable
<1>2. t \in TablePids
  <2>1. CASE tables = <<TS_PAT_PID, TS_PMT_PID>>
    BY <2>1 DEF TablePids
  <2>2. CASE tables = <<TS_PMT_PID>>
    BY <2>2 DEF TablePids
  <2> QED
    BY <1>1, <2>1, <2>2
<1>3. p \in [pid : Pids, play_init : 0..1, ada_field_C : {1, 3},
             aflen : Nat, pcr : BOOLEAN, at : Nat, frame : Nat,
             from : Nat, len : Nat]
  BY <1>2 DEF WriteStruct_Table, Pids, TS_PACKET_HEADER
<1>4. Write(p)
  BY DEF WriteTable
<1>5. T!Send(t, 1, 0, 0)
  <2>1. p.pid = t /\ p.play_init = 1 /\ p.from = 0 /\ p.len = 0
    BY DEF WriteStruct_Table
  <2>2. T!Send(p.pid, p.play_init, p.from, p.len)
    <3> HIDE DEF p
    <3> QED
      BY <1>3, <1>4, WriteIsSend DEF IInv
  <2> HIDE DEF p
  <2> QED
    BY <2>1, <2>2, Zenon
<1>6. SizeOf' = SizeOf /\ GotOf' = GotOf
  BY DEF WriteTable, SizeOf, GotOf, Running
<1>7. t \in T!TablePids
  BY <1>2 DEF T!TablePids, T!TS_PAT_PID, T!TS_PMT_PID, TablePids, TS_PAT_PID, TS_PMT_PID
<1> HIDE DEF t
<1> QED
  BY <1>5, <1>6, <1>7, Zenon DEF T!Next, T!SendTable

\* A check of the count is invisible to the receiver.
LEMMA CheckMapped ==
  ASSUME IInv, EnterFragmented \/ LoopCheck \/ LastCheck \/ LoopReturn
  PROVE  UNCHANGED T!vars
<1>1. Projected' = Projected /\ SizeOf' = SizeOf /\ ExpectOf' = ExpectOf
  BY DEF EnterFragmented, LoopCheck, LastCheck, LoopReturn, Projected, SizeOf, ExpectOf
<1>2. CASE EnterFragmented \/ LoopCheck \/ LastCheck
  <2>1. pc # "idle" /\ pc' # "idle" /\ arg' = arg /\ tspes' = tspes
    BY <1>2 DEF EnterFragmented, LoopCheck, LastCheck, At
  <2>2. GotOf' = GotOf
    BY <2>1 DEF GotOf, Running
  <2> QED
    BY <1>1, <2>2 DEF T!vars
<1>3. CASE LoopReturn
  <2>1. /\ pc # "idle" /\ pc' = "idle" /\ arg' = arg /\ tspes' = tspes
        /\ tspes[arg.pid].beyond = 0 /\ tspes[arg.pid].size \in Nat
    BY <1>3 DEF LoopReturn, At, Beyond, IInv, TypeOK
  <2>2. GotOf' = GotOf
    BY <2>1 DEF GotOf, Running
  <2> QED
    BY <1>1, <2>2 DEF T!vars
<1> QED
  BY <1>2, <1>3

\* The packet of a short frame transmits all of it.
LEMMA WriteSingleMapped ==
  ASSUME IInv, WriteSingle
  PROVE  T!Next
<1> DEFINE n     == Beyond
           aflen == 184 - n - 9 - 5 - 1
           at    == 4 + 2 + (184 - n - 9 - 5 - 2) + 9 + 5
<1>1. arg \in [pid : MediaPids, head : Heads] /\ arg.pid \in MediaPids
  BY DEF IInv, TypeOK
<1>2. Beyond \in Nat /\ Size \in Nat
  BY <1>1 DEF IInv, TypeOK, Beyond, Size
<1>3. Beyond = Size /\ Beyond > 0 /\ Beyond < FirstPacketLoadLength
  BY DEF IInv, Progress, WriteSingle, At
<1>4. n \in 1..184 /\ aflen \in Nat /\ at \in Nat
  BY <1>1, <1>2, <1>3, FirstLoad
<1>5. GotOf[arg.pid] = 0
  BY <1>1, <1>2, <1>3 DEF GotOf, Running, WriteSingle, At, Beyond, Size
<1>6. SizeOf' = SizeOf
  BY DEF WriteSingle, SizeOf
<1>7. GotOf' = [GotOf EXCEPT ![arg.pid] = GotOf[arg.pid] + n]
  <2>1. GotOf'[arg.pid] = n
    BY <1>1, <1>3 DEF GotOf, Running, WriteSingle, At, Size
  <2>2. \A q \in MediaPids : q # arg.pid => GotOf'[q] = GotOf[q]
    BY DEF GotOf, Running, WriteSingle, At
  <2>3. GotOf[arg.pid] + n = n
    BY <1>2, <1>5
  <2> QED
    BY <1>1, <2>1, <2>2, <2>3, ZenonT(60) DEF GotOf
<1>8. WriteMedia(1, 3, aflen, FALSE, at, 0, n)
  BY DEF WriteSingle
<1>9. /\ 1 \in 0..1 /\ 3 \in {1, 3} /\ 0 \in Nat
      /\ 1 = (IF 0 = 0 THEN 1 ELSE 0) /\ n <= Size - 0
  BY <1>2, <1>3
<1> HIDE DEF n, aflen, at
<1> QED
  BY <1>4, <1>5, <1>6, <1>7, <1>8, <1>9, MediaIsTransmit, Zenon DEF IInv

\* The first packet of a long frame transmits its first bytes.
LEMMA WriteFirstMapped ==
  ASSUME IInv, WriteFirst
  PROVE  T!Next
<1> DEFINE n  == FirstPacketLoadLength
           at == 4 + 1 + arg.head + 9 + 5
           al == arg.head
           pf == HasPcr(arg.head)
<1>1. arg \in [pid : MediaPids, head : Heads] /\ arg.head \in {1, 7}
  BY DEF IInv, TypeOK, Heads
<1>2. Beyond \in Nat /\ Size \in Nat
  BY <1>1 DEF IInv, TypeOK, Beyond, Size
<1>3. Beyond = Size /\ n \in {162, 168} /\ n \in 0..Beyond
  BY <1>1, <1>2, FirstLoad DEF IInv, Progress, WriteFirst, At
<1>4. n \in 1..184 /\ al \in Nat /\ at \in Nat
  BY <1>1, <1>3
<1>5. /\ GotOf' = [GotOf EXCEPT ![arg.pid] = GotOf[arg.pid] + n]
      /\ SizeOf' = SizeOf
      /\ GotOf[arg.pid] = Size - Beyond
  <2>1. Consume(n) /\ arg' = arg /\ pc # "idle" /\ pc' # "idle"
    BY DEF WriteFirst, At
  <2> QED
    BY <1>3, <2>1, ConsumeMapped DEF IInv
<1>6. GotOf[arg.pid] = 0 /\ 0 \in Nat
  BY <1>2, <1>3, <1>5
<1>7. WriteMedia(1, 3, al, pf, at, GotOf[arg.pid], n)
  <2>1. WriteMedia(1, 3, al, pf, at, 0, n)
    BY DEF WriteFirst
  <2> HIDE DEF al, pf, at, n
  <2> QED
    BY <1>6, <2>1, Zenon
<1>8. /\ GotOf[arg.pid] \in Nat
      /\ 1 = (IF GotOf[arg.pid] = 0 THEN 1 ELSE 0)
      /\ n <= Size - GotOf[arg.pid]
  BY <1>2, <1>3, <1>6
<1>9. pf \in BOOLEAN /\ 1 \in 0..1 /\ 3 \in {1, 3}
  BY DEF HasPcr
<1>10. SizeOf' = SizeOf /\ TypeOK
  BY <1>5 DEF IInv
<1>11. GotOf' = [GotOf EXCEPT ![arg.pid] = GotOf[arg.pid] + n]
  BY <1>5
<1> HIDE DEF n, at, al, pf
<1> QED
  BY <1>4, <1>7, <1>8, <1>9, <1>10, <1>11, MediaIsTransmit, ZenonT(60)

\* A packet of the loop transmits the bytes that follow those sent.
LEMMA LoopPacketMapped ==
  ASSUME IInv, At("body") \/ At("last"),
         NEW n \in 1..184, NEW afc \in {1, 3}, NEW aflen \in Nat, NEW at \in Nat,
         n <= Beyond,
         WriteMedia(0, afc, aflen, FALSE, at, NeafBuf, n),
         Consume(n), arg' = arg, pc' = "loop"
  PROVE  T!Next
<1>1. Beyond \in Nat /\ Size \in Nat /\ NeafBuf \in Nat
  BY DEF IInv, TypeOK, Beyond, Size
<1>2. Beyond < Size /\ NeafBuf = Size - Beyond
  BY <1>1 DEF IInv, Progress, At
<1>3. /\ GotOf' = [GotOf EXCEPT ![arg.pid] = GotOf[arg.pid] + n]
      /\ SizeOf' = SizeOf
      /\ GotOf[arg.pid] = Size - Beyond
  <2>1. pc # "idle" /\ pc' # "idle" /\ n \in 0..Beyond
    BY <1>1 DEF At
  <2> QED
    BY <2>1, ConsumeMapped DEF IInv
<1>4. /\ NeafBuf = GotOf[arg.pid]
      /\ 0 = (IF NeafBuf = 0 THEN 1 ELSE 0)
      /\ n <= Size - NeafBuf
  BY <1>1, <1>2, <1>3
<1>5. 0 \in 0..1 /\ FALSE \in BOOLEAN
  OBVIOUS
<1> QED
  BY <1>1, <1>3, <1>4, <1>5, MediaIsTransmit, ZenonT(60) DEF IInv

\* The three packets of the loop are such packets.
LEMMA LoopStepMapped ==
  ASSUME IInv, WriteMiddle \/ WriteAlmostFull \/ WriteLast
  PROVE  T!Next
<1>1. Beyond \in Nat
  BY DEF IInv, TypeOK, Beyond
<1>2. CASE WriteMiddle
  <2>1. /\ At("body") /\ Consume(184) /\ arg' = arg /\ pc' = "loop"
        /\ WriteMedia(0, 1, 0, FALSE, 4, NeafBuf, 184)
    BY <1>2 DEF WriteMiddle
  <2>2. 184 <= Beyond
    BY <1>1, <1>2 DEF WriteMiddle
  <2>3. 184 \in 1..184 /\ 1 \in {1, 3} /\ 0 \in Nat /\ 4 \in Nat
    OBVIOUS
  <2> QED
    BY <2>1, <2>2, <2>3, LoopPacketMapped, Zenon
<1>3. CASE WriteAlmostFull
  <2>1. /\ At("last") /\ Consume(182) /\ arg' = arg /\ pc' = "loop"
        /\ WriteMedia(0, 3, 1, FALSE, 4 + 2, NeafBuf, 182)
    BY <1>3 DEF WriteAlmostFull
  <2>2. 182 <= Beyond
    BY <1>1, <1>3 DEF WriteAlmostFull
  <2>3. 182 \in 1..184 /\ 3 \in {1, 3} /\ 1 \in Nat /\ 4 + 2 \in Nat
    OBVIOUS
  <2> QED
    BY <2>1, <2>2, <2>3, LoopPacketMapped, Zenon
<1>4. CASE WriteLast
  <2> DEFINE aflen == 184 - Beyond - 1
             at    == 4 + 2 + (184 - Beyond - 2)
  <2>1. /\ At("last") /\ Consume(Beyond) /\ arg' = arg /\ pc' = "loop"
        /\ WriteMedia(0, 3, aflen, FALSE, at, NeafBuf, Beyond)
    BY <1>4 DEF WriteLast
  <2>2. Beyond \in 1..183
    BY <2>1 DEF IInv, Progress, At
  <2>3. /\ Beyond \in 1..184 /\ 3 \in {1, 3} /\ aflen \in Nat /\ at \in Nat
        /\ Beyond <= Beyond
    BY <2>2
  <2> HIDE DEF aflen, at
  <2> QED
    BY <2>1, <2>3, LoopPacketMapped, Zenon
<1> QED
  BY <1>2, <1>3, <1>4

\* The initial state is one of the transport.
LEMMA InitMapped == Init => T!Init
<1> SUFFICES ASSUME Init PROVE T!Init
  OBVIOUS
<1>1. Projected = <<>>
  BY DEF Init, Projected
<1>2. SizeOf = [p \in T!MediaPids |-> 0] /\ GotOf = [p \in T!MediaPids |-> 0]
  BY DEF Init, SizeOf, GotOf, Running, MediaPids, TS_H264_PID, TS_AAC_PID,
         T!MediaPids, T!TS_H264_PID, T!TS_AAC_PID
<1>3. ExpectOf = [p \in T!Pids |-> 0]
  BY DEF Init, ExpectOf, Conti, Pids, MediaPids, TablePids, TS_H264_PID, TS_AAC_PID,
         TS_PAT_PID, TS_PMT_PID, T!Pids, T!MediaPids, T!TablePids, T!TS_H264_PID,
         T!TS_AAC_PID, T!TS_PAT_PID, T!TS_PMT_PID
<1> QED
  BY <1>1, <1>2, <1>3, Zenon DEF T!Init

\* Every step is a step of the transport or invisible to it.
LEMMA NextMapped ==
  ASSUME IInv, [Next]_vars
  PROVE  [T!Next]_(T!vars)
<1>1. CASE \E call \in Calls, size \in FrameSizes : Submit(call, size)
  BY <1>1, SubmitMapped
<1>2. CASE Step
  BY <1>2, WriteSingleMapped, CheckMapped, WriteTableMapped, WriteFirstMapped,
     LoopStepMapped DEF Step
<1>3. CASE UNCHANGED vars
  BY <1>3 DEF vars, T!vars, Projected, SizeOf, GotOf, ExpectOf, Running
<1> QED
  BY <1>1, <1>2, <1>3 DEF Next

\* Every file PES2TS can produce, at every prefix of it, is a stream in which
\* all frames arrive whole, in order and once, under unbroken counters.
THEOREM Refinement == Spec => RefinesTransport
<1>1. Spec => T!Init /\ [][T!Next]_(T!vars)
  BY InitMapped, NextMapped, Invariance, PTL DEF Spec
<1> QED
  BY <1>1 DEF RefinesTransport, T!Spec
-----------------------------------------------------------------------------
(***************************************************************************)
(* The cadence of the tables.  The invariant bounds, at each point of      *)
(* PES2TS, the number of packets of the current frame at the end of the    *)
(* file by the packet count: the distance never exceeds the count's        *)
(* residue by the period.                                                  *)
(***************************************************************************)
Frame == tspes[arg.pid].frame

\* At most the last k packets of the file are all of frame f.
Within(file, f, k) ==
  \E i \in 0..Len(file) : Len(file) - i <= k /\ (i > 0 => file[i].frame # f)

\* The residue of the count; a period, if the count is a multiple of it.
Residue(n) == IF n % PsiPeriod = 0 THEN PsiPeriod ELSE n % PsiPeriod

\* The frame that is being cut is one handed over, and so are all in the file.
FramesKnown ==
  /\ pc # "idle" => Frame \in 1..Len(frames)
  /\ \A i \in DOMAIN ts_file : ts_file[i].frame <= Len(frames)

Distance ==
  /\ pc = "entry" \/ tables = <<TS_PMT_PID>> => Within(ts_file, Frame, 0)
  /\ pc \in {"first", "body", "last"} /\ tables = <<>> =>
       Within(ts_file, Frame, WritePacketNum % PsiPeriod)
  /\ pc = "loop" /\ Beyond # 0 =>
       Within(ts_file, Frame, Residue(WritePacketNum))

CInv == FramesKnown /\ Distance /\ CadenceWithinFrame
-----------------------------------------------------------------------------
(***************************************************************************)
(* Arithmetic of the count.                                                *)
(***************************************************************************)
LEMMA ModNext ==
  ASSUME NEW n \in Nat, NEW m \in Nat \ {0}, (n + 1) % m # 0
  PROVE  (n + 1) % m = (n % m) + 1
<1> DEFINE q == n \div m
           r == n % m
           u == (n + 1) \div m
           v == (n + 1) % m
<1>1. q \in Int /\ r \in 0..(m - 1) /\ n = m * q + r
  OBVIOUS
<1>2. u \in Int /\ v \in 1..(m - 1) /\ n + 1 = m * u + v
  OBVIOUS
<1>3. m * (u - q) = r + 1 - v
  BY <1>1, <1>2
<1> HIDE DEF q, r, u, v
<1>4. u - q = 0
  <2>1. CASE u - q >= 1
    <3>1. m * (u - q) >= m
      BY <1>1, <1>2, <2>1
    <3> QED
      BY <1>1, <1>2, <1>3, <3>1
  <2>2. CASE u - q <= -1
    <3>1. m * (u - q) <= -m
      BY <1>1, <1>2, <2>2
    <3> QED
      BY <1>1, <1>2, <1>3, <3>1
  <2> QED
    BY <1>1, <1>2, <2>1, <2>2
<1>5. v = r + 1
  BY <1>1, <1>2, <1>3, <1>4
<1> QED
  BY <1>5 DEF r, v

\* One more packet costs no more than one more on the count, or completes a
\* period: also when the count wraps.
LEMMA ResidueNext ==
  ASSUME NEW n \in Nat
  PROVE  /\ n % PsiPeriod \in 0..(PsiPeriod - 1)
         /\ Residue((n + 1) % UintMod) \in Nat
         /\ n < UintMod => (n % PsiPeriod) + 1 <= Residue((n + 1) % UintMod)
         /\ Residue((n + 1) % UintMod) <= PsiPeriod
<1> DEFINE c == (n + 1) % UintMod
<1>1. PsiPeriod \in Nat \ {0} /\ UintMod \in Nat \ {0}
  BY PsiPeriodAssumption, UintModAssumption
<1>2. n % PsiPeriod \in 0..(PsiPeriod - 1)
  BY <1>1
<1>3. c \in Nat
  BY <1>1
<1>4. c % PsiPeriod \in 0..(PsiPeriod - 1)
  BY <1>1, <1>3
<1>5. Residue(c) \in Nat /\ Residue(c) <= PsiPeriod
  BY <1>1, <1>4 DEF Residue
<1>6. ASSUME n < UintMod PROVE (n % PsiPeriod) + 1 <= Residue(c)
  <2>1. CASE n + 1 = UintMod
    <3>1. c = 0
      BY <1>1, <2>1
    <3>2. Residue(c) = PsiPeriod
      BY <1>1, <3>1 DEF Residue
    <3> QED
      BY <1>1, <1>2, <3>2
  <2>2. CASE n + 1 < UintMod
    <3>1. c = n + 1
      BY <1>1, <2>2
    <3>2. CASE c % PsiPeriod = 0
      BY <1>1, <1>2, <3>2 DEF Residue
    <3>3. CASE c % PsiPeriod # 0
      <4>1. c % PsiPeriod = (n % PsiPeriod) + 1
        BY <1>1, <3>1, <3>3, ModNext
      <4> QED
        BY <1>1, <1>2, <3>3, <4>1 DEF Residue
    <3> QED
      BY <3>2, <3>3
  <2> QED
    BY <1>1, <1>6, <2>1, <2>2
<1> QED
  BY <1>2, <1>5, <1>6
-----------------------------------------------------------------------------
(***************************************************************************)
(* The end of the file.                                                    *)
(***************************************************************************)

\* A weaker bound.
LEMMA WithinWeaker ==
  ASSUME NEW s \in Seq(Packet), NEW f, NEW j \in Nat, NEW k \in Nat, j <= k,
         Within(s, f, j)
  PROVE  Within(s, f, k)
<1>1. PICK i \in 0..Len(s) : Len(s) - i <= j /\ (i > 0 => s[i].frame # f)
  BY DEF Within
<1>2. Len(s) - i <= k
  BY <1>1
<1> QED
  BY <1>1, <1>2 DEF Within

\* A packet more lengthens the run by one at most.
LEMMA WithinAppend ==
  ASSUME NEW s \in Seq(Packet), NEW q \in Packet, NEW f, NEW k \in Nat,
         Within(s, f, k)
  PROVE  Within(Append(s, q), f, k + 1)
<1>1. PICK i \in 0..Len(s) : Len(s) - i <= k /\ (i > 0 => s[i].frame # f)
  BY DEF Within
<1>2. Len(Append(s, q)) = Len(s) + 1 /\ Len(s) \in Nat
  BY AppendProperties
<1>3. i \in 0..Len(Append(s, q)) /\ Len(Append(s, q)) - i <= k + 1
  BY <1>1, <1>2
<1>4. i > 0 => Append(s, q)[i] = s[i]
  BY <1>1, AppendProperties
<1> QED
  BY <1>1, <1>3, <1>4 DEF Within

\* A packet of another frame, or of none, ends every run of f.
LEMMA WithinFresh ==
  ASSUME NEW s \in Seq(Packet), NEW f,
         Len(s) > 0 => s[Len(s)].frame # f
  PROVE  Within(s, f, 0)
<1>1. Len(s) \in 0..Len(s) /\ Len(s) - Len(s) <= 0
  OBVIOUS
<1> QED
  BY <1>1 DEF Within

\* A short run at the end of a file is what the property asks for.
LEMMA WithinIsCadence ==
  ASSUME NEW s \in Seq(Packet), NEW f, Within(s, f, PsiPeriod),
         s[Len(s)].frame \in {0, f}
  PROVE  Len(s) > PsiPeriod =>
           \/ s[Len(s)].frame = 0
           \/ \E i \in (Len(s) - PsiPeriod)..Len(s) : s[i].frame # s[Len(s)].frame
<1>1. PICK i \in 0..Len(s) : Len(s) - i <= PsiPeriod /\ (i > 0 => s[i].frame # f)
  BY DEF Within
<1>2. PsiPeriod \in Nat \ {0} /\ Len(s) \in Nat
  BY PsiPeriodAssumption
<1>3. ASSUME Len(s) > PsiPeriod, s[Len(s)].frame # 0
      PROVE  \E j \in (Len(s) - PsiPeriod)..Len(s) : s[j].frame # s[Len(s)].frame
  <2>1. i > 0 /\ i \in (Len(s) - PsiPeriod)..Len(s)
    BY <1>1, <1>2, <1>3
  <2>2. s[Len(s)].frame = f
    BY <1>3
  <2> QED
    BY <1>1, <2>1, <2>2
<1> QED
  BY <1>3
-----------------------------------------------------------------------------
(***************************************************************************)
(* What a write does to the end of the file.                               *)
(***************************************************************************)

\* The packet a write appends.
LEMMA Written ==
  ASSUME TypeOK, NEW p,
         p \in [pid : Pids, play_init : 0..1, ada_field_C : {1, 3},
                aflen : Nat, pcr : BOOLEAN, at : Nat, frame : Nat,
                from : Nat, len : Nat],
         Write(p)
  PROVE  \E q \in Packet : q.frame = p.frame /\ ts_file' = Append(ts_file, q)
<1> DEFINE q == WriteStruct_Packetheader(p, continuity_counter[p.pid])
<1>1. continuity_counter[p.pid] \in 0..255
  BY DEF TypeOK
<1>2. q \in Packet /\ q.frame = p.frame
  BY <1>1 DEF WriteStruct_Packetheader, Packet, Conti
<1> QED
  BY <1>2 DEF Write

\* A media packet: one more of the frame that is being cut.
LEMMA MediaWritten ==
  ASSUME TypeOK, CInv, pc # "idle",
         NEW init \in 0..1, NEW afc \in {1, 3}, NEW aflen \in Nat,
         NEW pcr \in BOOLEAN, NEW at \in Nat, NEW from \in Nat,
         NEW n \in Nat, NEW k \in 0..(PsiPeriod - 1),
         Within(ts_file, Frame, k),
         WriteMedia(init, afc, aflen, pcr, at, from, n),
         frames' = frames, ts_file' \in Seq(Packet), Frame' = Frame
  PROVE  /\ Within(ts_file', Frame, k + 1)
         /\ CadenceWithinFrame'
         /\ FramesKnown'
<1> DEFINE p == [pid |-> arg.pid, play_init |-> init, ada_field_C |-> afc,
                 aflen |-> aflen, pcr |-> pcr, at |-> at,
                 frame |-> Frame, from |-> from, len |-> n]
<1>1. p \in [pid : Pids, play_init : 0..1, ada_field_C : {1, 3},
             aflen : Nat, pcr : BOOLEAN, at : Nat, frame : Nat,
             from : Nat, len : Nat]
  BY DEF TypeOK, Pids, Frame
<1>2. Write(p) /\ p.frame = Frame
  BY DEF WriteMedia, Frame
<1> HIDE DEF p
<1>3. PICK q \in Packet : q.frame = Frame /\ ts_file' = Append(ts_file, q)
  BY <1>1, <1>2, Written
<1>4. ts_file \in Seq(Packet) /\ PsiPeriod \in Nat \ {0}
  BY PsiPeriodAssumption DEF TypeOK
<1>5. k \in Nat /\ k + 1 \in Nat /\ k + 1 <= PsiPeriod
  BY <1>4
<1>6. Within(ts_file', Frame, k + 1)
  BY <1>3, <1>4, <1>5, WithinAppend
<1>7. CadenceWithinFrame'
  <2>1. Within(ts_file', Frame, PsiPeriod)
    BY <1>4, <1>5, <1>6, WithinWeaker
  <2>2. ts_file'[Len(ts_file')].frame = Frame
    BY <1>3, <1>4, AppendProperties
  <2> QED
    BY <2>1, <2>2, WithinIsCadence DEF CadenceWithinFrame
<1>8. FramesKnown'
  <2>1. Frame \in 1..Len(frames) /\ \A i \in DOMAIN ts_file : ts_file[i].frame <= Len(frames)
    BY DEF CInv, FramesKnown
  <2>2. \A i \in DOMAIN ts_file' :
          ts_file'[i] = (IF i \in DOMAIN ts_file THEN ts_file[i] ELSE q)
    BY <1>3, <1>4, AppendProperties
  <2>3. \A i \in DOMAIN ts_file' : ts_file'[i].frame <= Len(frames)
    BY <1>3, <2>1, <2>2
  <2> QED
    BY <2>1, <2>3 DEF FramesKnown
<1> QED
  BY <1>6, <1>7, <1>8
-----------------------------------------------------------------------------
(***************************************************************************)
(* The steps.                                                              *)
(***************************************************************************)

\* An empty file has no run.
LEMMA CadenceInit == Init => CInv
<1> SUFFICES ASSUME Init PROVE CInv
  OBVIOUS
<1>1. ts_file = <<>> /\ pc = "idle" /\ tables = <<>>
  BY DEF Init
<1>2. FramesKnown /\ Distance
  BY <1>1 DEF FramesKnown, Distance
<1>3. CadenceWithinFrame
  BY <1>1, PsiPeriodAssumption DEF CadenceWithinFrame
<1> QED
  BY <1>2, <1>3 DEF CInv

\* A new frame: none of the packets in the file is of it.
LEMMA CadenceSubmit ==
  ASSUME IInv, CInv, NEW call \in Calls, NEW size \in FrameSizes, Submit(call, size)
  PROVE  CInv'
<1>1. call[1] \in MediaPids
  BY DEF Calls
<1>2. ts_file' = ts_file /\ tables' = <<>> /\ pc' = "entry" /\ tables = <<>>
  BY DEF Submit, At
<1>3. Frame' = Len(frames) + 1
  BY <1>1 DEF IInv, TypeOK, Submit, Frame
<1>4. Len(frames') = Len(frames) + 1 /\ Len(frames) \in Nat
  BY AppendProperties DEF IInv, TypeOK, Submit
<1>5. ts_file \in Seq(Packet)
  BY DEF IInv, TypeOK
<1>6. \A i \in DOMAIN ts_file : ts_file[i].frame \in Nat /\ ts_file[i].frame <= Len(frames)
  <2>1. \A i \in DOMAIN ts_file : ts_file[i] \in Packet
    BY <1>5
  <2>2. \A q \in Packet : q.frame \in Nat
    BY DEF Packet
  <2> QED
    BY <2>1, <2>2 DEF CInv, FramesKnown
<1>7. FramesKnown'
  <2>1. Frame' \in 1..Len(frames')
    BY <1>3, <1>4
  <2>2. \A i \in DOMAIN ts_file' : ts_file'[i].frame <= Len(frames')
    BY <1>2, <1>4, <1>6
  <2> QED
    BY <2>1, <2>2 DEF FramesKnown
<1>8. Within(ts_file', Frame', 0)
  <2>1. Len(ts_file) > 0 => ts_file[Len(ts_file)].frame # Len(frames) + 1
    BY <1>4, <1>5, <1>6
  <2> QED
    BY <1>2, <1>3, <1>5, <2>1, WithinFresh
<1>9. Distance'
  BY <1>2, <1>8 DEF Distance
<1>10. CadenceWithinFrame'
  BY <1>2 DEF CInv, CadenceWithinFrame
<1> QED
  BY <1>7, <1>9, <1>10 DEF CInv

\* A check that finds no table due knows that the count is inside a period.
LEMMA CadenceCheck ==
  ASSUME IInv, CInv, EnterFragmented \/ LoopCheck \/ LastCheck \/ LoopReturn
  PROVE  CInv'
<1>1. /\ ts_file' = ts_file /\ frames' = frames /\ WritePacketNum' = WritePacketNum
      /\ Frame' = Frame /\ pc # "idle" /\ tables = <<>>
  BY DEF EnterFragmented, LoopCheck, LastCheck, LoopReturn, At, Frame
<1>2. FramesKnown' /\ CadenceWithinFrame'
  BY <1>1 DEF CInv, FramesKnown, CadenceWithinFrame
<1>3. ts_file \in Seq(Packet) /\ WritePacketNum \in Nat
  BY UintModAssumption DEF IInv, TypeOK
<1>4. WritePacketNum % PsiPeriod \in Nat
  BY <1>3, PsiPeriodAssumption
<1>5. /\ <<TS_PAT_PID, TS_PMT_PID>> # <<>>
      /\ <<TS_PAT_PID, TS_PMT_PID>> # <<TS_PMT_PID>>
      /\ <<>> # <<TS_PMT_PID>>
  BY DEF TS_PAT_PID, TS_PMT_PID
<1>6. CASE EnterFragmented
  <2>1. Within(ts_file, Frame, 0)
    BY <1>6 DEF CInv, Distance, EnterFragmented, At
  <2>2. Within(ts_file, Frame, WritePacketNum % PsiPeriod)
    BY <1>3, <1>4, <2>1, WithinWeaker
  <2>3. pc' = "first" /\ tables' # <<TS_PMT_PID>>
    BY <1>5, <1>6 DEF EnterFragmented, TablesDue
  <2> QED
    BY <1>1, <1>2, <2>2, <2>3 DEF CInv, Distance
<1>7. CASE LoopCheck
  <2>1. Within(ts_file, Frame, Residue(WritePacketNum))
    BY <1>7 DEF CInv, Distance, LoopCheck, At
  <2>2. tables' = <<>> => Within(ts_file, Frame, WritePacketNum % PsiPeriod)
    BY <1>5, <1>7, <2>1 DEF LoopCheck, TablesDue, Residue
  <2>3. pc' = "body" /\ tables' # <<TS_PMT_PID>>
    BY <1>5, <1>7 DEF LoopCheck, TablesDue
  <2> QED
    BY <1>1, <1>2, <2>2, <2>3 DEF CInv, Distance
<1>8. CASE LastCheck
  <2>1. Within(ts_file, Frame, WritePacketNum % PsiPeriod)
    BY <1>8 DEF CInv, Distance, LastCheck, At
  <2>2. pc' = "last" /\ tables' # <<TS_PMT_PID>>
    BY <1>5, <1>8 DEF LastCheck, TablesDue
  <2> QED
    BY <1>1, <1>2, <2>1, <2>2 DEF CInv, Distance
<1>9. CASE LoopReturn
  <2>1. pc' = "idle" /\ tables' = <<>>
    BY <1>1, <1>9 DEF LoopReturn
  <2> QED
    BY <1>2, <1>5, <2>1 DEF CInv, Distance
<1> QED
  BY <1>6, <1>7, <1>8, <1>9

\* A table ends every run.
LEMMA CadenceTable ==
  ASSUME IInv, IInv', CInv, WriteTable
  PROVE  CInv'
<1>1. /\ frames' = frames /\ WritePacketNum' = WritePacketNum /\ pc' = pc
      /\ Frame' = Frame
  BY DEF WriteTable, Frame
<1>2. pc \in {"first", "body", "last"}
  BY DEF IInv, TypeOK, TablesOnlyAfterChecks, WriteTable
<1>3. Head(tables) \in TablePids
  <2>1. CASE tables = <<TS_PAT_PID, TS_PMT_PID>>
    <3>1. Head(tables) = TS_PAT_PID
      BY <2>1
    <3> QED
      BY <3>1 DEF TablePids
  <2>2. CASE tables = <<TS_PMT_PID>>
    <3>1. Head(tables) = TS_PMT_PID
      BY <2>2
    <3> QED
      BY <3>1 DEF TablePids
  <2> QED
    BY <2>1, <2>2 DEF IInv, TypeOK, WriteTable
<1> DEFINE p == WriteStruct_Table(Head(tables))
<1>4. p \in [pid : Pids, play_init : 0..1, ada_field_C : {1, 3},
             aflen : Nat, pcr : BOOLEAN, at : Nat, frame : Nat,
             from : Nat, len : Nat] /\ p.frame = 0
  BY <1>3 DEF WriteStruct_Table, Pids, TS_PACKET_HEADER
<1>5. Write(p)
  BY DEF WriteTable
<1> HIDE DEF p
<1>6. PICK q \in Packet : q.frame = 0 /\ ts_file' = Append(ts_file, q)
  BY <1>4, <1>5, Written DEF IInv
<1>7. /\ ts_file \in Seq(Packet) /\ ts_file' \in Seq(Packet)
      /\ ts_file'[Len(ts_file')].frame = 0
  BY <1>6, AppendProperties DEF IInv, TypeOK
<1>8. Frame \in 1..Len(frames) /\ \A i \in DOMAIN ts_file : ts_file[i].frame <= Len(frames)
  BY <1>2 DEF CInv, FramesKnown
<1>9. Within(ts_file', Frame, 0)
  BY <1>7, <1>8, WithinFresh
<1>10. FramesKnown'
  <2>1. \A i \in DOMAIN ts_file' :
          ts_file'[i] = (IF i \in DOMAIN ts_file THEN ts_file[i] ELSE q)
    BY <1>6, <1>7, AppendProperties
  <2>2. Len(frames) \in Nat
    BY DEF IInv, TypeOK
  <2>3. \A i \in DOMAIN ts_file' : ts_file'[i].frame <= Len(frames)
    BY <1>6, <1>8, <2>1, <2>2
  <2> QED
    BY <1>1, <1>8, <2>3 DEF FramesKnown
<1>11. Distance'
  <2>1. WritePacketNum % PsiPeriod \in Nat
    BY PsiPeriodAssumption, UintModAssumption DEF IInv, TypeOK
  <2>2. Within(ts_file', Frame, WritePacketNum % PsiPeriod)
    BY <1>7, <1>9, <2>1, WithinWeaker
  <2> QED
    BY <1>1, <1>2, <1>9, <2>2 DEF Distance
<1>12. CadenceWithinFrame'
  BY <1>7 DEF CadenceWithinFrame
<1> QED
  BY <1>10, <1>11, <1>12 DEF CInv

\* A frame of one packet, although no check is made for it.
LEMMA CadenceSingle ==
  ASSUME IInv, IInv', CInv, WriteSingle
  PROVE  CInv'
<1> DEFINE aflen == 184 - Beyond - 9 - 5 - 1
           at    == 4 + 2 + (184 - Beyond - 9 - 5 - 2) + 9 + 5
<1>1. /\ frames' = frames /\ Frame' = Frame /\ pc = "entry" /\ pc' = "idle"
      /\ tables' = <<>>
  BY DEF WriteSingle, At, Frame
<1>2. WriteMedia(1, 3, aflen, FALSE, at, 0, Beyond)
  BY DEF WriteSingle
<1>3. Beyond \in 1..167
  <2>1. Beyond \in Nat /\ arg \in [pid : MediaPids, head : Heads]
    BY DEF IInv, TypeOK, Beyond
  <2>2. Beyond > 0 /\ Beyond < FirstPacketLoadLength
    BY DEF IInv, Progress, WriteSingle, At
  <2> QED
    BY <2>1, <2>2, FirstLoad
<1>4. aflen \in Nat /\ at \in Nat /\ Beyond \in Nat
  BY <1>3
<1>5. 0 \in 0..(PsiPeriod - 1) /\ 1 \in 0..1 /\ 3 \in {1, 3} /\ 0 \in Nat
  BY PsiPeriodAssumption
<1>6. Within(ts_file, Frame, 0)
  BY <1>1 DEF CInv, Distance
<1>7. TypeOK /\ ts_file' \in Seq(Packet) /\ pc # "idle"
  BY <1>1 DEF IInv, TypeOK
<1> HIDE DEF aflen, at
<1>8. CadenceWithinFrame' /\ FramesKnown'
  BY <1>1, <1>2, <1>4, <1>5, <1>6, <1>7, MediaWritten, Zenon
<1>9. Distance'
  BY <1>1 DEF Distance
<1> QED
  BY <1>8, <1>9 DEF CInv

(***************************************************************************)
(* The packets of a longer frame.  One that is counted once leaves a run   *)
(* that the new count bounds; after the last one, which is counted twice,  *)
(* nothing is left to write.                                               *)
(***************************************************************************)
LEMMA CadencePacket ==
  ASSUME IInv, IInv', CInv, pc \in {"first", "body", "last"}, tables = <<>>,
         NEW init \in 0..1, NEW afc \in {1, 3}, NEW aflen \in Nat,
         NEW pcr \in BOOLEAN, NEW at \in Nat, NEW from \in Nat,
         NEW n \in Nat, NEW m \in Nat,
         WriteMedia(init, afc, aflen, pcr, at, from, n),
         Consume(n), Count(m), m = 1 \/ Beyond' = 0,
         pc' = "loop", UNCHANGED <<arg, frames, tables>>
  PROVE  CInv'
<1> DEFINE k == WritePacketNum % PsiPeriod
<1>1. Frame' = Frame
  <2>1. arg.pid \in MediaPids /\ tspes \in [MediaPids -> [frame : Nat, size : Nat, beyond : Nat]]
    BY DEF IInv, TypeOK
  <2> QED
    BY <2>1 DEF Consume, Frame
<1>2. WritePacketNum \in Nat /\ WritePacketNum < UintMod /\ UintMod \in Nat
  BY UintModAssumption DEF IInv, TypeOK
<1>3. /\ k \in 0..(PsiPeriod - 1)
      /\ Residue((WritePacketNum + 1) % UintMod) \in Nat
      /\ k + 1 <= Residue((WritePacketNum + 1) % UintMod)
  BY <1>2, ResidueNext
<1>4. Within(ts_file, Frame, k)
  BY DEF CInv, Distance
<1>5. TypeOK /\ ts_file' \in Seq(Packet) /\ pc # "idle"
  BY DEF IInv, TypeOK
<1> HIDE DEF k
<1>6. /\ Within(ts_file', Frame, k + 1)
      /\ CadenceWithinFrame'
      /\ FramesKnown'
  BY <1>1, <1>3, <1>4, <1>5, MediaWritten, Zenon
<1>7. Distance'
  <2>1. ASSUME Beyond' # 0
        PROVE  Within(ts_file', Frame, Residue(WritePacketNum'))
    <3>1. WritePacketNum' = (WritePacketNum + 1) % UintMod
      BY <2>1 DEF Count
    <3>2. k + 1 \in Nat
      BY <1>3, PsiPeriodAssumption
    <3> QED
      BY <1>3, <1>5, <1>6, <3>1, <3>2, WithinWeaker
  <2>2. tables' # <<TS_PMT_PID>>
    OBVIOUS
  <2> QED
    BY <1>1, <2>1, <2>2 DEF Distance, Residue
<1> QED
  BY <1>6, <1>7 DEF CInv

\* The four writes of a longer frame.
LEMMA CadenceWrites ==
  ASSUME IInv, IInv', CInv,
         WriteFirst \/ WriteMiddle \/ WriteAlmostFull \/ WriteLast
  PROVE  CInv'
<1>1. Beyond \in Nat /\ NeafBuf \in Nat /\ arg.head \in {1, 7}
  BY DEF IInv, TypeOK, Beyond, Heads
<1>2. CASE WriteFirst
  <2> DEFINE at == 4 + 1 + arg.head + 9 + 5
  <2>1. /\ WriteMedia(1, 3, arg.head, HasPcr(arg.head), at, 0, FirstPacketLoadLength)
        /\ Consume(FirstPacketLoadLength) /\ Count(1) /\ pc' = "loop"
        /\ UNCHANGED <<arg, frames, tables>> /\ pc = "first" /\ tables = <<>>
    BY <1>2 DEF WriteFirst, At
  <2>2. FirstPacketLoadLength \in Nat
    <3>1. arg \in [pid : MediaPids, head : Heads]
      BY DEF IInv, TypeOK
    <3> QED
      BY <3>1, FirstLoad
  <2>3. HasPcr(arg.head) \in BOOLEAN
    BY DEF HasPcr
  <2>4. /\ 1 \in 0..1 /\ 3 \in {1, 3} /\ arg.head \in Nat /\ at \in Nat
        /\ 0 \in Nat /\ 1 \in Nat
    BY <1>1
  <2> HIDE DEF at
  <2> QED
    BY <2>1, <2>2, <2>3, <2>4, CadencePacket, Zenon
<1>3. CASE WriteMiddle
  <2>1. /\ WriteMedia(0, 1, 0, FALSE, 4, NeafBuf, 184)
        /\ Consume(184) /\ Count(1) /\ pc' = "loop"
        /\ UNCHANGED <<arg, frames, tables>> /\ pc = "body" /\ tables = <<>>
    BY <1>3 DEF WriteMiddle, At
  <2>2. 0 \in 0..1 /\ 1 \in {1, 3} /\ 0 \in Nat /\ 4 \in Nat /\ 184 \in Nat /\ 1 \in Nat
    OBVIOUS
  <2> QED
    BY <1>1, <2>1, <2>2, CadencePacket, Zenon
<1>4. CASE WriteAlmostFull
  <2>1. /\ WriteMedia(0, 3, 1, FALSE, 4 + 2, NeafBuf, 182)
        /\ Consume(182) /\ Count(1) /\ pc' = "loop"
        /\ UNCHANGED <<arg, frames, tables>> /\ pc = "last" /\ tables = <<>>
    BY <1>4 DEF WriteAlmostFull, At
  <2>2. 0 \in 0..1 /\ 3 \in {1, 3} /\ 1 \in Nat /\ 4 + 2 \in Nat /\ 182 \in Nat
    OBVIOUS
  <2> QED
    BY <1>1, <2>1, <2>2, CadencePacket, Zenon
<1>5. CASE WriteLast
  <2> DEFINE aflen == 184 - Beyond - 1
             at    == 4 + 2 + (184 - Beyond - 2)
  <2>1. /\ WriteMedia(0, 3, aflen, FALSE, at, NeafBuf, Beyond)
        /\ Consume(Beyond) /\ Count(2) /\ pc' = "loop"
        /\ UNCHANGED <<arg, frames, tables>> /\ pc = "last" /\ tables = <<>>
    BY <1>5 DEF WriteLast, At
  <2>2. Beyond \in 1..183
    BY <2>1 DEF IInv, Progress
  <2>3. /\ 0 \in 0..1 /\ 3 \in {1, 3} /\ aflen \in Nat /\ at \in Nat /\ 2 \in Nat
        /\ Beyond \in 0..Beyond
    BY <1>1, <2>2
  <2>4. Beyond' = 0
    BY <1>1, <2>1, <2>3, ConsumeTyped DEF IInv
  <2> HIDE DEF aflen, at
  <2> QED
    BY <1>1, <2>1, <2>3, <2>4, CadencePacket, Zenon
<1> QED
  BY <1>2, <1>3, <1>4, <1>5

\* Every step of PES2TS and of its callers keeps the tables in time.
LEMMA CadenceNext ==
  ASSUME IInv, IInv', CInv, [Next]_vars
  PROVE  CInv'
<1>1. CASE \E call \in Calls, size \in FrameSizes : Submit(call, size)
  BY <1>1, CadenceSubmit
<1>2. CASE Step
  BY <1>2, CadenceSingle, CadenceCheck, CadenceTable, CadenceWrites DEF Step
<1>3. CASE UNCHANGED vars
  BY <1>3 DEF vars, CInv, FramesKnown, Distance, CadenceWithinFrame, Frame, Beyond
<1> QED
  BY <1>1, <1>2, <1>3 DEF Next

\* While a frame of any length is cut, at most a period of its packets follow
\* each other without a table, although the last packet counts double and the
\* count wraps at a number the period need not divide.
THEOREM CadenceCorrect == Spec => []CadenceWithinFrame
<1>1. CInv => CadenceWithinFrame
  BY DEF CInv
<1>2. Spec => []CInv
  BY Invariance, CadenceInit, CadenceNext, PTL DEF Spec
<1> QED
  BY <1>1, <1>2, PTL
-----------------------------------------------------------------------------
(***************************************************************************)
(* That a call of PES2TS comes to its end: what is left of it, StepsLeft,  *)
(* is a number that each step lessens.                                     *)
(***************************************************************************)

\* At most a PAT and a PMT are due.
LEMMA FewTables ==
  TypeOK => /\ Len(tables) \in 0..2
            /\ tables = <<>> => Len(tables) = 0
            /\ tables # <<>> => Len(Tail(tables)) = Len(tables) - 1
<1>1. Len(<<>>) = 0
  OBVIOUS
<1>2. ASSUME tables = <<TS_PAT_PID, TS_PMT_PID>>
      PROVE  Len(tables) = 2 /\ Len(Tail(tables)) = 1 /\ tables # <<>>
  BY <1>2
<1>3. ASSUME tables = <<TS_PMT_PID>>
      PROVE  Len(tables) = 1 /\ Len(Tail(tables)) = 0 /\ tables # <<>>
  BY <1>3
<1> QED BY <1>1, <1>2, <1>3 DEF TypeOK

\* What is left of a call at each place: at most two tables more than what
\* would be left if none were due.
CallLeft ==
  /\ Beyond \in Nat
  /\ Len(tables) \in 0..2
  /\ tables = <<>> => Len(tables) = 0
  /\ pc = "idle"  => StepsLeft = 0
  /\ pc = "entry" => StepsLeft = 7 * Beyond + 15 + Len(tables)
  /\ pc = "first" => StepsLeft = 7 * Beyond + 12 + Len(tables)
  /\ pc = "loop"  => StepsLeft = 7 * Beyond + 9 + Len(tables)
  /\ pc = "body"  => StepsLeft = 7 * Beyond + 6 + Len(tables)
  /\ pc = "last"  => StepsLeft = 7 * Beyond + 3 + Len(tables)

\* The number of steps left is that of the place, of the bytes and the tables.
LEMMA LeftOfCall == IInv => CallLeft
<1> SUFFICES ASSUME IInv PROVE CallLeft
  OBVIOUS
<1>1. Beyond \in Nat
  BY DEF IInv, TypeOK, Beyond
<1>2. Len(tables) \in 0..2 /\ (tables = <<>> => Len(tables) = 0)
  BY FewTables DEF IInv
<1>3. /\ pc = "entry" => PlacesLeft = 5
      /\ pc = "first" => PlacesLeft = 4
      /\ pc = "loop"  => PlacesLeft = 3
      /\ pc = "body"  => PlacesLeft = 2
      /\ pc = "last"  => PlacesLeft = 1
  BY DEF PlacesLeft
<1> QED BY <1>1, <1>2, <1>3 DEF StepsLeft, CallLeft

\* After a step that only looks at the count the call is one place further; the
\* tables that may be due weigh less than a place.
LEMMA CheckNearer ==
  ASSUME IInv, IInv', EnterFragmented \/ LoopCheck \/ LastCheck \/ LoopReturn
  PROVE  StepsLeft' < StepsLeft
<1>1. Beyond' = Beyond
  BY DEF EnterFragmented, LoopCheck, LastCheck, LoopReturn, Beyond
<1>2. tables = <<>>
  BY DEF EnterFragmented, LoopCheck, LastCheck, LoopReturn, At
<1>3. \/ pc = "entry" /\ pc' = "first"
      \/ pc = "loop" /\ pc' = "body"
      \/ pc = "body" /\ pc' = "last"
      \/ pc = "loop" /\ pc' = "idle"
  BY DEF EnterFragmented, LoopCheck, LastCheck, LoopReturn, At
<1>4. CallLeft /\ CallLeft'
  BY LeftOfCall, PTL
<1>5. Beyond \in Nat /\ Len(tables) = 0 /\ Len(tables)' \in 0..2
  BY <1>2, <1>4 DEF CallLeft
<1> HIDE DEF Beyond
<1>6. CASE pc' = "idle"
  BY <1>3, <1>4, <1>5, <1>6 DEF CallLeft
<1>7. CASE pc' # "idle"
  <2> DEFINE b == 7 * Beyond
             t == Len(tables)'
  <2>1. b \in Nat /\ t \in 0..2
    BY <1>5
  <2>2. \/ (StepsLeft = b + 15 /\ StepsLeft' = b + 12 + t)
        \/ (StepsLeft = b + 9 /\ StepsLeft' = b + 6 + t)
        \/ (StepsLeft = b + 6 /\ StepsLeft' = b + 3 + t)
    BY <1>1, <1>3, <1>4, <1>5, <1>7 DEF CallLeft
  <2> HIDE DEF b, t
  <2> QED BY <2>1, <2>2
<1> QED BY <1>6, <1>7

\* One table less is due.
LEMMA TableNearer ==
  ASSUME IInv, WriteTable
  PROVE  StepsLeft' < StepsLeft
<1>1. Beyond' = Beyond /\ PlacesLeft' = PlacesLeft /\ pc' = pc
  BY DEF WriteTable, Beyond, PlacesLeft
<1>2. Len(tables)' = Len(tables) - 1 /\ Len(tables) \in 0..2
  BY FewTables DEF IInv, WriteTable
<1>3. pc # "idle"
  BY DEF IInv, TablesOnlyAfterChecks, WriteTable
<1>4. StepsLeft' = 7 * Beyond + 3 * PlacesLeft + Len(tables)'
  BY <1>1, <1>3 DEF StepsLeft
<1>5. StepsLeft = 7 * Beyond + 3 * PlacesLeft + Len(tables)
  BY <1>3 DEF StepsLeft
<1>6. Beyond \in Nat /\ PlacesLeft \in Nat
  BY DEF IInv, TypeOK, Beyond, PlacesLeft
<1> QED BY <1>2, <1>4, <1>5, <1>6

\* A packet that carries at least one byte makes up for the way back to the
\* loop.
LEMMA PacketNearer ==
  ASSUME IInv, IInv', NEW n \in 1..Beyond,
         At("first") \/ At("body") \/ At("last"),
         Consume(n), pc' = "loop", UNCHANGED <<arg, tables>>
  PROVE  StepsLeft' < StepsLeft
<1>1. Beyond \in Nat /\ n \in 0..Beyond
  BY DEF IInv, TypeOK, Beyond
<1>2. Beyond' = Beyond - n
  BY <1>1, ConsumeTyped DEF IInv
<1>3. tables = <<>> /\ tables' = <<>> /\ pc \in {"first", "body", "last"}
  BY DEF At
<1>4. CallLeft /\ CallLeft'
  BY LeftOfCall, PTL
<1> QED BY <1>1, <1>2, <1>3, <1>4 DEF CallLeft

\* Every step of PES2TS brings the call nearer to its end.
LEMMA StepNearer ==
  ASSUME IInv, IInv', Step
  PROVE  StepsLeft' < StepsLeft
<1>1. Beyond \in Nat
  BY DEF IInv, TypeOK, Beyond
<1>2. CASE EnterFragmented \/ LoopCheck \/ LastCheck \/ LoopReturn
  BY <1>2, CheckNearer
<1>3. CASE WriteTable
  BY <1>3, TableNearer
<1>4. CASE WriteSingle
  <2>1. pc = "entry" /\ pc' = "idle"
    BY <1>4 DEF WriteSingle, At
  <2>2. CallLeft /\ CallLeft'
    BY LeftOfCall, PTL
  <2> QED BY <2>1, <2>2 DEF CallLeft
<1>5. CASE WriteFirst
  <2>1. FirstPacketLoadLength \in 1..Beyond
    BY <1>1, <1>5, FirstLoad DEF IInv, TypeOK, Progress, WriteFirst, At
  <2> QED BY <1>5, <2>1, PacketNearer DEF WriteFirst
<1>6. CASE WriteMiddle
  <2>1. 184 \in 1..Beyond
    BY <1>1, <1>6 DEF WriteMiddle
  <2> QED BY <1>6, <2>1, PacketNearer DEF WriteMiddle
<1>7. CASE WriteAlmostFull
  <2>1. 182 \in 1..Beyond
    BY <1>1, <1>7 DEF WriteAlmostFull
  <2> QED BY <1>7, <2>1, PacketNearer DEF WriteAlmostFull
<1>8. CASE WriteLast
  <2>1. Beyond \in 1..Beyond
    BY <1>1, <1>8 DEF IInv, Progress, WriteLast, At
  <2> QED BY <1>8, <2>1, PacketNearer DEF WriteLast
<1> QED BY <1>2, <1>3, <1>4, <1>5, <1>6, <1>7, <1>8 DEF Step

\* For frames of any length and any table period, every step of a call lessens
\* what is left of it: PES2TS comes to its end after at most 7 n + 15 steps.
THEOREM CallEnds == Spec => CallComesToItsEnd
<1>1. IInv /\ IInv' /\ [Next]_vars => [frames' = frames => StepsLeft' < StepsLeft]_vars
  <2> SUFFICES ASSUME IInv, IInv', Next
               PROVE  frames' = frames => StepsLeft' < StepsLeft
    OBVIOUS
  <2>1. ASSUME NEW call \in Calls, NEW size \in FrameSizes, Submit(call, size)
        PROVE  frames' # frames
    <3>1. frames \in Seq([pid : MediaPids, head : Heads, size : Nat])
      BY DEF IInv, TypeOK
    <3>2. Len(frames') = Len(frames) + 1
      BY <2>1, <3>1 DEF Submit
    <3> QED BY <3>1, <3>2
  <2> QED BY <2>1, StepNearer DEF Next
<1> QED BY <1>1, Invariance, PTL DEF Spec, CallComesToItsEnd
=============================================================================
