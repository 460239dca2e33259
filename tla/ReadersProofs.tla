---------------------------- MODULE ReadersProofs ----------------------------
(***************************************************************************)
(* For every file, whatever its length and bytes, and every size of the    *)
(* buffer: each reader is the FrameFile of what its file consists of.      *)
(*                                                                         *)
(* A H.264 file is compared with its units byte by byte: Code2At and       *)
(* Code3At say that a start code stands behind an offset.  A call holds    *)
(* the file from its start on (Reading), has seen no start code but the    *)
(* first (Scanned), and the units so far are the first ones (Ordered).     *)
(*                                                                         *)
(* The offsets at which an AAC file is cut are a chain: each but the last  *)
(* leads to the next (Chain).  While the file position is in the chain the *)
(* reader cannot but take the next frame (AudioOrdered); the bits of the   *)
(* header that the code shifts and masks are the number that they stand    *)
(* for (HeaderNumbers).                                                    *)
(*                                                                         *)
(* Last: the types of slices are exact, by what BitReaderProofs says of    *)
(* two codes in a row, and no call of either reader ends where it began.   *)
(***************************************************************************)
EXTENDS BitReaderProofs, FiniteSetTheorems

Code2At(f, p) == p + 3 <= Len(f) /\ f[p + 1] = 0 /\ f[p + 2] = 0 /\ f[p + 3] = 1

Code3At(f, p) == /\ p + 4 <= Len(f)
                 /\ f[p + 1] = 0 /\ f[p + 2] = 0 /\ f[p + 3] = 0 /\ f[p + 4] = 1

\* How much of the file the running call has read, and where its code ends.
Count == h264_pos - start

CodeRead == IF Code2At(h264, start) THEN 3 ELSE 4

\* What a call that is under way has in Buf: the file from start on, which
\* begins with a start code, and behind it the EOF.
Reading ==
  /\ Len(Buf) = Count + (IF h264_eof THEN 1 ELSE 0)
  /\ \A k \in 1..Count : Buf[k] = h264[start + k]
  /\ h264_eof => Buf[Count + 1] = 255
  /\ Code2At(h264, start) \/ Code3At(h264, start)
  /\ Count >= CodeRead

\* The start code that was found lies behind the one at the start.
Found == ~h264_eof /\ Code2At(Buf, Len(Buf) - 3) /\ Count > CodeRead

ReadInv ==
  /\ VideoTypeOK
  /\ h264_eof => h264_pos = Len(h264)
  /\ video_pc \in {"scan", "found"} => Reading
  /\ video_pc = "found" => Found

\* Where the units returned so far end.
UnitsEnd == IF units = <<>> THEN 0 ELSE End(units[Len(units)])

Pieces ==
  /\ \A k \in 1..Len(units) :
       /\ units[k].bytes = SubSeq(h264, units[k].from + 1, End(units[k]))
       /\ units[k].from = (IF k = 1 THEN 0 ELSE End(units[k - 1]))
  /\ video_pc = "idle" =>
       /\ h264_pos = UnitsEnd
       /\ \/ h264_pos = Len(h264)
          \/ Code2At(h264, h264_pos)
          \/ Code3At(h264, h264_pos)
  /\ video_pc \in {"scan", "found"} => start = UnitsEnd

UnitsInv == ReadInv /\ (BeginsWithStartCode(h264) => Pieces)
-----------------------------------------------------------------------------
\* The bytes of a part of a sequence.
LEMMA PartFacts ==
  ASSUME NEW f \in Seq(Byte), NEW p \in Nat, NEW q \in Nat, p <= q, q <= Len(f)
  PROVE  /\ SubSeq(f, p + 1, q) \in Seq(Byte)
         /\ Len(SubSeq(f, p + 1, q)) = q - p
         /\ \A k \in 1..(q - p) : SubSeq(f, p + 1, q)[k] = f[p + k]
<1>1. \A i \in (p + 1)..q : f[i] \in Byte
  BY ElementOfSeq
<1>2. /\ SubSeq(f, p + 1, q) \in Seq(Byte)
      /\ Len(SubSeq(f, p + 1, q)) = IF p + 1 <= q THEN q - (p + 1) + 1 ELSE 0
      /\ \A i \in 1..(q - (p + 1) + 1) : SubSeq(f, p + 1, q)[i] = f[(p + 1) + i - 1]
  BY <1>1, SubSeqProperties
<1> QED BY <1>2

\* A start code stands behind an offset if its bytes do.
LEMMA Code2Bytes ==
  ASSUME NEW f \in Seq(Byte), NEW p \in Nat, p + 3 <= Len(f)
  PROVE  SubSeq(f, p + 1, p + 3) = StartCode2 <=> Code2At(f, p)
<1> DEFINE s == SubSeq(f, p + 1, p + 3)
<1>1. /\ s \in Seq(Byte) /\ Len(s) = 3
      /\ \A k \in 1..3 : s[k] = f[p + k]
  BY PartFacts
<1>2. /\ StartCode2 \in Seq(Byte) /\ Len(StartCode2) = 3
      /\ StartCode2[1] = 0 /\ StartCode2[2] = 0 /\ StartCode2[3] = 1
  BY DEF StartCode2, Byte
<1> HIDE DEF s
<1>3. ASSUME s[1] = 0, s[2] = 0, s[3] = 1 PROVE s = StartCode2
  <2>1. \A k \in 1..3 : s[k] = StartCode2[k]
    BY <1>2, <1>3
  <2> QED BY <1>1, <1>2, <2>1, SeqEqual
<1>4. s = StartCode2 <=> s[1] = 0 /\ s[2] = 0 /\ s[3] = 1
  BY <1>2, <1>3
<1>5. s = StartCode2 <=> Code2At(f, p)
  BY <1>1, <1>4 DEF Code2At
<1> QED BY <1>5 DEF s

\* The same of the long start code.
LEMMA Code3Bytes ==
  ASSUME NEW f \in Seq(Byte), NEW p \in Nat, p + 4 <= Len(f)
  PROVE  SubSeq(f, p + 1, p + 4) = StartCode3 <=> Code3At(f, p)
<1> DEFINE s == SubSeq(f, p + 1, p + 4)
<1>1. /\ s \in Seq(Byte) /\ Len(s) = 4
      /\ \A k \in 1..4 : s[k] = f[p + k]
  BY PartFacts
<1>2. /\ StartCode3 \in Seq(Byte) /\ Len(StartCode3) = 4
      /\ StartCode3[1] = 0 /\ StartCode3[2] = 0 /\ StartCode3[3] = 0 /\ StartCode3[4] = 1
  BY DEF StartCode3, Byte
<1> HIDE DEF s
<1>3. ASSUME s[1] = 0, s[2] = 0, s[3] = 0, s[4] = 1 PROVE s = StartCode3
  <2>1. \A k \in 1..4 : s[k] = StartCode3[k]
    BY <1>2, <1>3
  <2> QED BY <1>1, <1>2, <2>1, SeqEqual
<1>4. s = StartCode3 <=> s[1] = 0 /\ s[2] = 0 /\ s[3] = 0 /\ s[4] = 1
  BY <1>2, <1>3
<1>5. s = StartCode3 <=> Code3At(f, p)
  BY <1>1, <1>4 DEF Code3At
<1> QED BY <1>5 DEF s

\* The last bytes of what was read.
LEMMA EndsWithBytes ==
  ASSUME NEW s \in Seq(Byte)
  PROVE  /\ EndsWith(s, StartCode2) <=> Len(s) >= 3 /\ Code2At(s, Len(s) - 3)
         /\ EndsWith(s, StartCode3) <=> Len(s) >= 4 /\ Code3At(s, Len(s) - 4)
<1>1. Len(StartCode2) = 3 /\ Len(StartCode3) = 4 /\ Len(s) \in Nat
  BY DEF StartCode2, StartCode3
<1>2. ASSUME Len(s) >= 3
      PROVE  SubSeq(s, Len(s) - 3 + 1, Len(s)) = StartCode2 <=> Code2At(s, Len(s) - 3)
  <2> DEFINE p == Len(s) - 3
  <2>1. p \in Nat /\ p + 3 = Len(s)
    BY <1>1, <1>2
  <2> HIDE DEF p
  <2>2. SubSeq(s, p + 1, p + 3) = StartCode2 <=> Code2At(s, p)
    BY <2>1, Code2Bytes
  <2> QED BY <2>1, <2>2 DEF p
<1>3. ASSUME Len(s) >= 4
      PROVE  SubSeq(s, Len(s) - 4 + 1, Len(s)) = StartCode3 <=> Code3At(s, Len(s) - 4)
  <2> DEFINE p == Len(s) - 4
  <2>1. p \in Nat /\ p + 4 = Len(s)
    BY <1>1, <1>3
  <2> HIDE DEF p
  <2>2. SubSeq(s, p + 1, p + 4) = StartCode3 <=> Code3At(s, p)
    BY <2>1, Code3Bytes
  <2> QED BY <2>1, <2>2 DEF p
<1> QED BY <1>1, <1>2, <1>3 DEF EndsWith

\* The start codes at the file position, as the actions ask for them.
LEMMA AheadBytes ==
  ASSUME VideoTypeOK
  PROVE  /\ Left \in Nat
         /\ Left >= 3 => (Ahead(3) = StartCode2 <=> Code2At(h264, h264_pos))
         /\ Left >= 4 => (Ahead(4) = StartCode3 <=> Code3At(h264, h264_pos))
         /\ Code2At(h264, h264_pos) => Left >= 3
         /\ Code3At(h264, h264_pos) => Left >= 4
<1>1. h264 \in Seq(Byte) /\ h264_pos \in Nat /\ Len(h264) \in Nat /\ h264_pos <= Len(h264)
  BY DEF VideoTypeOK
<1> QED BY <1>1, Code2Bytes, Code3Bytes DEF Left, Ahead, Code2At, Code3At

\* The start code at the beginning of the file.
LEMMA BeginsBytes ==
  ASSUME VideoTypeOK
  PROVE  BeginsWithStartCode(h264) <=> Code2At(h264, 0) \/ Code3At(h264, 0)
<1>1. h264 \in Seq(Byte) /\ Len(h264) \in Nat
  BY DEF VideoTypeOK
<1>2. Len(StartCode2) = 3 /\ Len(StartCode3) = 4
  BY DEF StartCode2, StartCode3
<1>3. Len(h264) >= 3 => (SubSeq(h264, 1, 3) = StartCode2 <=> Code2At(h264, 0))
  <2>1. Len(h264) >= 0 + 3 =>
          (SubSeq(h264, 0 + 1, 0 + 3) = StartCode2 <=> Code2At(h264, 0))
    BY <1>1, Code2Bytes
  <2> QED BY <2>1
<1>4. Len(h264) >= 4 => (SubSeq(h264, 1, 4) = StartCode3 <=> Code3At(h264, 0))
  <2>1. Len(h264) >= 0 + 4 =>
          (SubSeq(h264, 0 + 1, 0 + 4) = StartCode3 <=> Code3At(h264, 0))
    BY <1>1, Code3Bytes
  <2> QED BY <2>1
<1> QED BY <1>1, <1>2, <1>3, <1>4 DEF BeginsWithStartCode, BeginsWith, Code2At, Code3At

\* The type of a unit, whatever its bytes.
LEMMA FrameTypeNames ==
  ASSUME NEW nal, NEW type \in GetFrameType(nal)
  PROVE  type \in FrameTypes
<1>1. ASSUME NEW v PROVE SliceType(v) \in FrameTypes
  <2>1. CASE v \in {0, 3, 5, 8}
    BY <2>1 DEF SliceType, FrameTypes
  <2>2. CASE v \in {1, 6}
    BY <2>2 DEF SliceType, FrameTypes
  <2>3. CASE v \in {2, 4, 7, 9}
    BY <2>3 DEF SliceType, FrameTypes
  <2>4. CASE v \notin {0, 3, 5, 8} /\ v \notin {1, 6} /\ v \notin {2, 4, 7, 9}
    BY <2>4 DEF SliceType, FrameTypes
  <2> QED BY <2>1, <2>2, <2>3, <2>4
<1>2. ASSUME NEW v PROVE OtherType(v) \in FrameTypes
  <2>1. CASE v = 6
    BY <2>1 DEF OtherType, FrameTypes
  <2>2. CASE v = 7
    BY <2>2 DEF OtherType, FrameTypes
  <2>3. CASE v = 8
    BY <2>3 DEF OtherType, FrameTypes
  <2>4. CASE v \notin {6, 7, 8}
    BY <2>4 DEF OtherType, FrameTypes
  <2> QED BY <2>1, <2>2, <2>3, <2>4
<1>3. SliceHeaderTypes(Tail(nal)) \subseteq FrameTypes
  BY <1>1 DEF SliceHeaderTypes, SliceTypes
<1> QED BY <1>2, <1>3 DEF GetFrameType

\* The unit a call returns is what it read, but for the last m bytes.
LEMMA UnitBytes ==
  ASSUME VideoTypeOK, Reading, NEW m \in Nat, NEW w \in Nat,
         w = Len(Buf) - m, CodeRead <= w, w <= Count
  PROVE  /\ Prefix \o SubSeq(Without(m), Len(Prefix) + 1, Len(Without(m)))
              = SubSeq(h264, start + 1, start + w)
         /\ SubSeq(h264, start + 1, start + w) \in Seq(Byte)
         /\ Len(SubSeq(h264, start + 1, start + w)) = w
<1> DEFINE g == Without(m)
           u == SubSeq(h264, start + 1, start + w)
           c == Len(Prefix)
<1>1. /\ h264 \in Seq(Byte) /\ Buf \in Seq(Byte) /\ start \in Nat /\ h264_pos \in Nat
      /\ Len(h264) \in Nat /\ Len(Buf) \in Nat /\ h264_pos <= Len(h264)
      /\ start <= h264_pos /\ Count \in Nat /\ start + w <= h264_pos
      /\ w >= 3 /\ w <= Len(Buf)
  BY DEF VideoTypeOK, Count, CodeRead
<1>2. /\ u \in Seq(Byte) /\ Len(u) = w
      /\ \A k \in 1..w : u[k] = h264[start + k]
  BY <1>1, PartFacts
<1>3. /\ g \in Seq(Byte) /\ Len(g) = w /\ \A k \in 1..w : g[k] = h264[start + k]
  <2>1. /\ SubSeq(Buf, 0 + 1, w) \in Seq(Byte)
        /\ Len(SubSeq(Buf, 0 + 1, w)) = w - 0
        /\ \A k \in 1..(w - 0) : SubSeq(Buf, 0 + 1, w)[k] = Buf[0 + k]
    BY <1>1, PartFacts
  <2>2. g = SubSeq(Buf, 0 + 1, w)
    BY DEF Without
  <2>3. \A k \in 1..w : Buf[k] = h264[start + k]
    BY <1>1 DEF Reading
  <2> DEFINE s == SubSeq(Buf, 0 + 1, w)
  <2>4. s \in Seq(Byte) /\ Len(s) = w /\ \A k \in 1..w : s[k] = Buf[k]
    BY <2>1
  <2> HIDE DEF g, s
  <2>5. \A k \in 1..w : s[k] = h264[start + k]
    BY <2>3, <2>4
  <2>6. g = s
    BY <2>2 DEF s
  <2> QED BY <2>4, <2>5, <2>6
<1>4. /\ Prefix \in Seq(Byte) /\ c = CodeRead
      /\ \A k \in 1..c : Prefix[k] = h264[start + k]
  <2>1. Len(Buf) >= 0 + 3 => (SubSeq(Buf, 0 + 1, 0 + 3) = StartCode2 <=> Code2At(Buf, 0))
    BY <1>1, Code2Bytes
  <2>2. SubSeq(Buf, 1, 3) = StartCode2 <=> Code2At(Buf, 0)
    BY <1>1, <2>1
  <2>3. \A k \in 1..w : Buf[k] = h264[start + k]
    BY <1>1 DEF Reading
  <2>4. Buf[1] = h264[start + 1] /\ Buf[2] = h264[start + 2] /\ Buf[3] = h264[start + 3]
    BY <1>1, <2>3
  <2>5. Code2At(Buf, 0) <=> Code2At(h264, start)
    BY <1>1, <2>4 DEF Code2At
  <2>6. CASE Code2At(h264, start)
    <3>1. Prefix = <<0, 0, 1>>
      BY <2>2, <2>5, <2>6 DEF Prefix, StartCode2
    <3>2. /\ h264[start + 1] = 0 /\ h264[start + 2] = 0 /\ h264[start + 3] = 1
          /\ CodeRead = 3
      BY <2>6 DEF Code2At, CodeRead
    <3>3. /\ Prefix \in Seq(Byte) /\ c = 3
          /\ Prefix[1] = 0 /\ Prefix[2] = 0 /\ Prefix[3] = 1
      BY <3>1 DEF Byte
    <3> QED BY <3>2, <3>3
  <2>7. CASE ~Code2At(h264, start)
    <3>1. Prefix = <<0, 0, 0, 1>>
      BY <2>2, <2>5, <2>7 DEF Prefix, StartCode3
    <3>2. /\ h264[start + 1] = 0 /\ h264[start + 2] = 0 /\ h264[start + 3] = 0
          /\ h264[start + 4] = 1 /\ CodeRead = 4
      BY <2>7 DEF Reading, Code3At, CodeRead
    <3>3. /\ Prefix \in Seq(Byte) /\ c = 4
          /\ Prefix[1] = 0 /\ Prefix[2] = 0 /\ Prefix[3] = 0 /\ Prefix[4] = 1
      BY <3>1 DEF Byte
    <3> QED BY <3>2, <3>3
  <2> QED BY <2>6, <2>7
<1> DEFINE t == SubSeq(g, c + 1, w)
<1> HIDE DEF g, u
<1>5. c \in Nat /\ c <= w
  BY <1>4 DEF CodeRead
<1>6. /\ t \in Seq(Byte) /\ Len(t) = w - c /\ \A k \in 1..(w - c) : t[k] = g[c + k]
  BY <1>3, <1>5, PartFacts
<1> HIDE DEF t
<1> DEFINE r == Prefix
           all == r \o t
<1>7. /\ r \in Seq(Byte) /\ Len(r) = c /\ \A k \in 1..c : r[k] = h264[start + k]
  BY <1>4
<1> HIDE DEF r, c
<1>8. /\ all \in Seq(Byte) /\ Len(all) = Len(r) + Len(t)
      /\ \A k \in 1..(Len(r) + Len(t)) :
           all[k] = IF k <= Len(r) THEN r[k] ELSE t[k - Len(r)]
  BY <1>6, <1>7, ConcatProperties
<1> HIDE DEF all
<1>9. Len(all) = w
  BY <1>5, <1>6, <1>7, <1>8
<1>10. ASSUME NEW k \in 1..w PROVE all[k] = u[k]
  <2>1. CASE k <= c
    <3>1. k \in 1..c /\ all[k] = r[k]
      BY <1>5, <1>6, <1>7, <1>8, <2>1
    <3> QED BY <1>2, <1>7, <3>1
  <2>2. CASE k > c
    <3>1. k - c \in 1..(w - c) /\ c + (k - c) = k
      BY <1>5, <2>2
    <3>2. Len(r) = c /\ k \in 1..(Len(r) + Len(t)) /\ ~(k <= Len(r))
      BY <1>5, <1>6, <1>7, <2>2
    <3>3. all[k] = t[k - Len(r)]
      BY <1>8, <3>2
    <3>4. all[k] = t[k - c]
      BY <3>2, <3>3
    <3> QED BY <1>2, <1>3, <1>6, <3>1, <3>4
  <2> QED BY <1>5, <2>1, <2>2
<1>11. all = u
  BY <1>2, <1>8, <1>9, <1>10, SeqEqual
<1> QED BY <1>2, <1>3, <1>11 DEF all, r, u, t, g, c

\* The numbers and sequences of a well-typed state.
LEMMA TypeFacts ==
  ASSUME VideoTypeOK
  PROVE  /\ h264 \in Seq(Byte) /\ Len(h264) \in Nat
         /\ h264_pos \in Nat /\ h264_pos <= Len(h264)
         /\ start \in Nat /\ start <= h264_pos
         /\ Buf \in Seq(Byte) /\ Len(Buf) \in Nat
         /\ Count \in Nat /\ start + Count = h264_pos
         /\ Left \in Nat /\ h264_pos + Left = Len(h264)
         /\ units \in Seq(Unit) /\ Len(units) \in Nat
BY DEF VideoTypeOK, Count, Left

\* What the seek back takes off is behind the first start code, and is the next.
LEMMA RewindFacts ==
  ASSUME VideoTypeOK, Reading, Found
  PROVE  LET w == Len(Buf) - Rewind
         IN  /\ Rewind \in {3, 4} /\ w \in Nat /\ CodeRead <= w /\ w <= Count
             /\ h264_pos - Rewind = start + w
             /\ Rewind = 3 => Code2At(h264, start + w) /\ h264[start + w] # 0
             /\ Rewind = 4 => Code3At(h264, start + w)
<1> DEFINE w == Len(Buf) - Rewind
<1>1. /\ Len(h264) \in Nat /\ h264_pos \in Nat /\ h264_pos <= Len(h264)
      /\ start \in Nat /\ Buf \in Seq(Byte)
      /\ Count \in Nat /\ start + Count = h264_pos
  BY TypeFacts
<1>2. Len(Buf) = Count + 0 /\ Count > CodeRead
  BY DEF Reading, Found
<1>3. \A k \in 1..Count : Buf[k] = h264[start + k]
  BY DEF Reading
<1>4. /\ Len(Buf) = Count /\ Count > CodeRead /\ CodeRead \in {3, 4}
      /\ \A k \in 1..Count : Buf[k] = h264[start + k]
  BY <1>1, <1>2, <1>3 DEF CodeRead
<1>5. h264[start + CodeRead] = 1
  BY DEF Reading, CodeRead, Code2At, Code3At
<1>6. /\ Buf[Count - 2] = 0 /\ Buf[Count - 1] = 0 /\ Buf[Count] = 1
  <2>1. Code2At(Buf, Count - 3)
    BY <1>4 DEF Found
  <2>2. Count - 3 + 1 = Count - 2 /\ Count - 3 + 2 = Count - 1 /\ Count - 3 + 3 = Count
    BY <1>1
  <2> QED BY <2>1, <2>2 DEF Code2At
<1>7. Buf[CodeRead] = 1
  BY <1>1, <1>4, <1>5
<1>8. Count - 2 > CodeRead
  <2>1. CodeRead # Count - 1 /\ CodeRead # Count - 2
    BY <1>6, <1>7
  <2> QED BY <1>1, <1>4, <2>1
<1>9. CASE EndsWith(Buf, StartCode3)
  <2>1. Rewind = 4
    BY <1>9 DEF Rewind
  <2>2. Code3At(Buf, Count - 4)
    BY <1>1, <1>4, <1>9, EndsWithBytes
  <2>3. Buf[Count - 3] = 0
    <3>1. Count - 4 + 1 = Count - 3
      BY <1>1
    <3> QED BY <2>2, <3>1 DEF Code3At
  <2>4. CodeRead # Count - 3
    BY <1>7, <2>3
  <2>5. w = Count - 4 /\ w \in Nat /\ CodeRead <= w
    BY <1>1, <1>4, <1>8, <2>1, <2>4
  <2>6. /\ h264[start + (Count - 3)] = 0 /\ h264[start + (Count - 2)] = 0
        /\ h264[start + (Count - 1)] = 0 /\ h264[start + Count] = 1
    <3>1. /\ Count - 3 \in 1..Count /\ Count - 2 \in 1..Count
          /\ Count - 1 \in 1..Count /\ Count \in 1..Count
      BY <1>1, <1>4, <2>5
    <3> QED BY <1>4, <1>6, <2>3, <3>1
  <2>7. /\ start + w + 1 = start + (Count - 3) /\ start + w + 2 = start + (Count - 2)
        /\ start + w + 3 = start + (Count - 1) /\ start + w + 4 = start + Count
        /\ start + w + 4 <= Len(h264)
    BY <1>1, <2>5
  <2>8. Code3At(h264, start + w)
    BY <2>6, <2>7 DEF Code3At
  <2> HIDE DEF w
  <2> QED BY <1>1, <1>4, <2>1, <2>5, <2>8 DEF w
<1>10. CASE ~EndsWith(Buf, StartCode3)
  <2>1. Rewind = 3
    BY <1>10 DEF Rewind
  <2>2. w = Count - 3 /\ w \in Nat /\ CodeRead <= w
    BY <1>1, <1>4, <1>8, <2>1
  <2>3. /\ h264[start + (Count - 2)] = 0
        /\ h264[start + (Count - 1)] = 0 /\ h264[start + Count] = 1
    <3>1. /\ Count - 2 \in 1..Count /\ Count - 1 \in 1..Count /\ Count \in 1..Count
      BY <1>1, <1>4, <2>2
    <3> QED BY <1>4, <1>6, <3>1
  <2>4. /\ start + w + 1 = start + (Count - 2) /\ start + w + 2 = start + (Count - 1)
        /\ start + w + 3 = start + Count /\ start + w + 3 <= Len(h264)
    BY <1>1, <2>2
  <2>5. Code2At(h264, start + w)
    BY <2>3, <2>4 DEF Code2At
  <2>6. h264[start + w] # 0
    <3>1. ~Code3At(Buf, Count - 4)
      BY <1>1, <1>4, <1>10, <2>2, EndsWithBytes
    <3>2. /\ Count - 4 + 1 = w /\ Count - 4 + 2 = Count - 2 /\ Count - 4 + 3 = Count - 1
          /\ Count - 4 + 4 = Count /\ w \in 1..Count
      BY <1>1, <1>4, <2>2
    <3>3. Buf[w] # 0
      BY <1>4, <1>6, <3>1, <3>2 DEF Code3At
    <3> QED BY <1>4, <3>2, <3>3
  <2> HIDE DEF w
  <2> QED BY <1>1, <1>4, <2>1, <2>2, <2>5, <2>6 DEF w
<1> QED BY <1>9, <1>10

\* Returning a unit keeps the history well typed.
LEMMA ReturnType ==
  ASSUME VideoTypeOK, NEW code, NEW nal, NEW from \in Nat, Return(code, nal, from),
         code \o nal \in Seq(Byte)
  PROVE  /\ units' \in Seq(Unit) /\ video_pc' = "idle"
         /\ Len(units') = Len(units) + 1
         /\ \A k \in 1..Len(units) : units'[k] = units[k]
         /\ units'[Len(units) + 1].from = from
         /\ units'[Len(units) + 1].bytes = code \o nal
<1>1. PICK type \in GetFrameType(nal) :
        units' = Append(units, [from |-> from, bytes |-> code \o nal, type |-> type])
  BY DEF Return
<1> DEFINE u == [from |-> from, bytes |-> code \o nal, type |-> type]
<1>2. u \in Unit /\ u.from = from /\ u.bytes = code \o nal
  BY FrameTypeNames DEF Unit
<1>3. units \in Seq(Unit) /\ video_pc' = "idle"
  BY DEF VideoTypeOK, Return
<1>4. units' = Append(units, u)
  BY <1>1
<1> HIDE DEF u
<1> QED BY <1>2, <1>3, <1>4

\* A call that returns a unit of w bytes: it is appended to the others.
LEMMA ReturnReadUnit ==
  ASSUME UnitsInv, video_pc \in {"scan", "found"}, NEW m \in Nat, NEW w \in Nat,
         w = Len(Buf) - m, CodeRead <= w, w <= Count, ReturnRead(m)
  PROVE  /\ units' \in Seq(Unit) /\ video_pc' = "idle" /\ Len(units') = Len(units) + 1
         /\ \A k \in 1..Len(units) : units'[k] = units[k]
         /\ units'[Len(units) + 1].from = start
         /\ units'[Len(units) + 1].bytes = SubSeq(h264, start + 1, start + w)
         /\ Len(SubSeq(h264, start + 1, start + w)) = w
<1> DEFINE bytes == SubSeq(h264, start + 1, start + w)
           nal   == SubSeq(Without(m), Len(Prefix) + 1, Len(Without(m)))
<1>1. VideoTypeOK /\ Reading
  BY DEF UnitsInv, ReadInv
<1>2. start \in Nat
  BY <1>1, TypeFacts
<1>3. /\ Prefix \o nal = bytes /\ bytes \in Seq(Byte) /\ Len(bytes) = w
  BY <1>1, UnitBytes
<1>4. Return(Prefix, nal, start)
  BY DEF ReturnRead
<1> HIDE DEF bytes, nal
<1>5. /\ units' \in Seq(Unit) /\ video_pc' = "idle" /\ Len(units') = Len(units) + 1
      /\ \A k \in 1..Len(units) : units'[k] = units[k]
      /\ units'[Len(units) + 1].from = start /\ units'[Len(units) + 1].bytes = bytes
  BY <1>1, <1>2, <1>3, <1>4, ReturnType
<1> QED BY <1>3, <1>5 DEF bytes

\* Such a call, with the file position behind the unit, keeps the invariant.
LEMMA ReturnReadInv ==
  ASSUME UnitsInv, video_pc \in {"scan", "found"}, NEW m \in Nat, NEW w \in Nat,
         w = Len(Buf) - m, CodeRead <= w, w <= Count,
         ReturnRead(m), h264_pos' = start + w,
         UNCHANGED <<h264, h264_eof, start, Buf, decode_video_done>>,
         h264_eof => w = Count,
         start + w = Len(h264) \/ Code2At(h264, start + w) \/ Code3At(h264, start + w)
  PROVE  UnitsInv'
<1> DEFINE bytes == SubSeq(h264, start + 1, start + w)
           n     == Len(units) + 1
<1>1. VideoTypeOK /\ Reading /\ (h264_eof => h264_pos = Len(h264))
  BY DEF UnitsInv, ReadInv
<1>2. /\ h264 \in Seq(Byte) /\ Len(h264) \in Nat /\ h264_pos <= Len(h264)
      /\ start \in Nat /\ start <= h264_pos /\ Count \in Nat
      /\ start + Count = h264_pos /\ Len(units) \in Nat
      /\ Buf \in Seq(Byte) /\ Len(Buf) <= MAX_VIDEO_TAG_BUF_SIZE
      /\ h264_eof \in BOOLEAN /\ decode_video_done \in BOOLEAN
  BY <1>1, TypeFacts DEF VideoTypeOK
<1>3. /\ units' \in Seq(Unit) /\ video_pc' = "idle" /\ Len(units') = n
      /\ \A k \in 1..Len(units) : units'[k] = units[k]
      /\ units'[n].from = start /\ units'[n].bytes = bytes /\ Len(bytes) = w
  BY ReturnReadUnit
<1> HIDE DEF bytes
<1>4. VideoTypeOK'
  <2>1. h264_pos' \in 0..Len(h264) /\ start \in 0..h264_pos'
    BY <1>2
  <2> QED BY <1>2, <1>3, <2>1 DEF VideoTypeOK
<1>5. ReadInv'
  BY <1>1, <1>2, <1>3, <1>4 DEF ReadInv
<1>6. ASSUME BeginsWithStartCode(h264), Pieces PROVE Pieces'
  <2>1. /\ \A k \in 1..Len(units) :
             /\ units[k].bytes = SubSeq(h264, units[k].from + 1, End(units[k]))
             /\ units[k].from = (IF k = 1 THEN 0 ELSE End(units[k - 1]))
        /\ start = (IF units = <<>> THEN 0 ELSE End(units[Len(units)]))
    BY <1>6 DEF Pieces, UnitsEnd
  <2>2. End(units'[n]) = start + w
    BY <1>3 DEF End
  <2>3. units = <<>> <=> Len(units) = 0
    BY <1>1, EmptySeq DEF VideoTypeOK
  <2>4. ASSUME NEW k \in 1..n
        PROVE  /\ units'[k].bytes = SubSeq(h264, units'[k].from + 1, End(units'[k]))
               /\ units'[k].from = (IF k = 1 THEN 0 ELSE End(units'[k - 1]))
    <3>1. CASE k \in 1..Len(units)
      <4>1. k # 1 => k - 1 \in 1..Len(units)
        BY <1>2, <3>1
      <4> QED BY <1>3, <2>1, <3>1, <4>1
    <3>2. CASE k = n
      <4>1. units'[n].bytes = SubSeq(h264, units'[n].from + 1, End(units'[n]))
        BY <1>3, <2>2 DEF bytes
      <4>2. n = 1 <=> units = <<>>
        BY <1>2, <2>3
      <4>3. n # 1 => units'[n - 1] = units[Len(units)] /\ n - 1 = Len(units)
        BY <1>2, <1>3
      <4> QED BY <1>3, <2>1, <3>2, <4>1, <4>2, <4>3
    <3> QED BY <1>2, <3>1, <3>2
  <2>5. units' # <<>>
    BY <1>2, <1>3
  <2>6. UnitsEnd' = start + w
    BY <1>3, <2>2, <2>5 DEF UnitsEnd
  <2> QED BY <1>3, <2>4, <2>6 DEF Pieces
<1> QED BY <1>5, <1>6 DEF UnitsInv

\* The next start code was found.
LEMMA NextUnitInv == UnitsInv /\ NextUnit => UnitsInv'
<1> SUFFICES ASSUME UnitsInv, NextUnit PROVE UnitsInv'
  OBVIOUS
<1> DEFINE w == Len(Buf) - Rewind
<1>1. VideoTypeOK /\ Reading /\ Found
  BY DEF NextUnit, UnitsInv, ReadInv
<1>2. /\ Rewind \in Nat /\ w \in Nat /\ CodeRead <= w /\ w <= Count
      /\ h264_pos - Rewind = start + w
      /\ Code2At(h264, start + w) \/ Code3At(h264, start + w)
  BY <1>1, RewindFacts
<1>3. ~h264_eof
  BY <1>1 DEF Found
<1>4. /\ video_pc \in {"scan", "found"} /\ ReturnRead(Rewind)
      /\ h264_pos' = h264_pos - Rewind
      /\ UNCHANGED <<h264, h264_eof, start, Buf, decode_video_done>>
  BY DEF NextUnit
<1>5. w = Len(Buf) - Rewind
  OBVIOUS
<1> HIDE DEF w
<1> QED BY <1>2, <1>3, <1>4, <1>5, ReturnReadInv

\* The file has ended.
LEMMA LastUnitInv == UnitsInv /\ LastUnit => UnitsInv'
<1> SUFFICES ASSUME UnitsInv, LastUnit PROVE UnitsInv'
  OBVIOUS
<1> DEFINE w == Len(Buf) - 1
<1>1. /\ VideoTypeOK /\ Reading /\ h264_eof /\ h264_pos = Len(h264)
  BY DEF LastUnit, UnitsInv, ReadInv
<1>2. /\ Count \in Nat /\ start + Count = h264_pos
  BY <1>1, TypeFacts
<1>3. Len(Buf) = Count + 1 /\ Count >= CodeRead
  BY <1>1 DEF Reading
<1>4. /\ w \in Nat /\ CodeRead <= w /\ w <= Count /\ w = Count /\ start + w = Len(h264)
      /\ h264_pos = start + w /\ 1 \in Nat
  BY <1>1, <1>2, <1>3 DEF CodeRead
<1>5. /\ video_pc \in {"scan", "found"} /\ ReturnRead(1) /\ h264_pos' = h264_pos
      /\ UNCHANGED <<h264, h264_eof, start, Buf, decode_video_done>>
  BY DEF LastUnit
<1>6. w = Len(Buf) - 1
  OBVIOUS
<1> HIDE DEF w
<1> QED BY <1>4, <1>5, <1>6, ReturnReadInv

\* The initial state: nothing has been read.
LEMMA VideoInitInv == VideoInit => UnitsInv
<1> SUFFICES ASSUME VideoInit PROVE UnitsInv
  OBVIOUS
<1>1. /\ h264 \in Seq(Byte) /\ h264_pos = 0 /\ h264_eof = FALSE /\ start = 0
      /\ Buf = <<>> /\ units = <<>> /\ decode_video_done = FALSE /\ video_pc = "idle"
      /\ Len(Buf) = 0 /\ Len(units) = 0 /\ Len(h264) \in Nat
  BY H264FilesAssumption DEF VideoInit
<1>2. VideoTypeOK
  <2>1. h264_pos \in 0..Len(h264) /\ start \in 0..h264_pos
    BY <1>1
  <2>2. Buf \in Seq(Byte) /\ Len(Buf) <= MAX_VIDEO_TAG_BUF_SIZE
    BY <1>1, BufSizeAssumption
  <2>3. units \in Seq(Unit)
    BY <1>1
  <2>4. h264_eof \in BOOLEAN /\ decode_video_done \in BOOLEAN
    BY <1>1
  <2>5. video_pc \in {"idle", "scan", "found", "overrun"}
    BY <1>1
  <2> QED BY <1>1, <2>1, <2>2, <2>3, <2>4, <2>5 DEF VideoTypeOK
<1>3. ReadInv
  BY <1>1, <1>2 DEF ReadInv
<1>4. BeginsWithStartCode(h264) => Pieces
  BY <1>1, <1>2, BeginsBytes DEF Pieces, UnitsEnd
<1> QED BY <1>3, <1>4 DEF UnitsInv

\* No more units: a file that begins with a start code is then at its end.
LEMMA VideoEndInv == UnitsInv /\ VideoEnd => UnitsInv'
<1> SUFFICES ASSUME UnitsInv, VideoEnd PROVE UnitsInv'
  OBVIOUS
<1>1. /\ VideoTypeOK /\ video_pc = "idle"
      /\ Left < 3 \/ (Left = 3 /\ Ahead(3) # StartCode2)
      /\ decode_video_done' = TRUE /\ h264_pos' = Len(h264) /\ h264_eof' = TRUE
      /\ UNCHANGED <<h264, start, Buf, units, video_pc>>
  BY DEF VideoEnd, UnitsInv, ReadInv
<1>2. Len(h264) \in Nat /\ start \in Nat /\ start <= Len(h264)
  BY <1>1, TypeFacts
<1>3. VideoTypeOK'
  BY <1>1, <1>2 DEF VideoTypeOK
<1>4. ReadInv'
  BY <1>1, <1>3 DEF ReadInv
<1>5. ASSUME Pieces PROVE Pieces'
  <2>1. h264_pos = UnitsEnd
    BY <1>1, <1>5 DEF Pieces
  <2>2. ~Code2At(h264, h264_pos) /\ ~Code3At(h264, h264_pos)
    BY <1>1, AheadBytes
  <2>3. h264_pos = Len(h264)
    BY <1>1, <1>5, <2>2 DEF Pieces
  <2> QED BY <1>1, <1>5, <2>1, <2>3 DEF Pieces, UnitsEnd
<1> QED BY <1>1, <1>4, <1>5 DEF UnitsInv

\* Where a file begins with a start code, there is one at every call.
LEMMA NoStartCodeNever == UnitsInv /\ NoStartCode => ~BeginsWithStartCode(h264)
<1> SUFFICES ASSUME UnitsInv, NoStartCode PROVE ~BeginsWithStartCode(h264)
  OBVIOUS
<1>1. /\ VideoTypeOK /\ video_pc = "idle" /\ Left >= 4
      /\ Ahead(3) # StartCode2 /\ Ahead(4) # StartCode3
  BY DEF NoStartCode, UnitsInv, ReadInv
<1>2. Len(h264) \in Nat /\ h264_pos \in Nat /\ h264_pos + Left = Len(h264) /\ Left \in Nat
  BY <1>1, TypeFacts
<1>3. ~Code2At(h264, h264_pos) /\ ~Code3At(h264, h264_pos)
  BY <1>1, <1>2, AheadBytes
<1>4. h264_pos # Len(h264)
  BY <1>1, <1>2
<1>5. ~Pieces
  BY <1>1, <1>3, <1>4 DEF Pieces
<1> QED BY <1>5 DEF UnitsInv

\* A call in another file, which finds no start code.
LEMMA NoStartCodeInv == UnitsInv /\ NoStartCode => UnitsInv'
<1> SUFFICES ASSUME UnitsInv, NoStartCode PROVE UnitsInv'
  OBVIOUS
<1>1. /\ VideoTypeOK /\ video_pc = "idle" /\ Left >= 4
      /\ Return(StartCode2, <<>>, h264_pos) /\ h264_pos' = h264_pos + 4
      /\ UNCHANGED <<h264, h264_eof, start, Buf, decode_video_done>>
      /\ h264_eof => h264_pos = Len(h264)
  BY DEF NoStartCode, UnitsInv, ReadInv
<1>2. /\ Len(h264) \in Nat /\ start \in Nat /\ start <= h264_pos /\ h264_pos \in Nat
      /\ h264_pos + Left = Len(h264) /\ Left \in Nat
  BY <1>1, TypeFacts
<1>3. StartCode2 \o <<>> \in Seq(Byte)
  BY DEF StartCode2, Byte
<1>4. units' \in Seq(Unit) /\ video_pc' = "idle"
  BY <1>1, <1>2, <1>3, ReturnType
<1>5. VideoTypeOK'
  BY <1>1, <1>2, <1>4 DEF VideoTypeOK
<1>6. ~h264_eof
  BY <1>1, <1>2
<1>7. ReadInv'
  BY <1>1, <1>4, <1>5, <1>6 DEF ReadInv
<1> QED BY <1>1, <1>7, NoStartCodeNever DEF UnitsInv

\* A call begins.
LEMMA TakeStartCodeInv == UnitsInv /\ TakeStartCode => UnitsInv'
<1> SUFFICES ASSUME UnitsInv, TakeStartCode PROVE UnitsInv'
  OBVIOUS
<1>1. /\ VideoTypeOK /\ video_pc = "idle" /\ start' = h264_pos /\ video_pc' = "scan"
      /\ UNCHANGED <<h264, h264_eof, units, decode_video_done>>
      /\ h264_eof => h264_pos = Len(h264)
  BY DEF TakeStartCode, UnitsInv, ReadInv
<1>2. /\ Len(h264) \in Nat /\ h264_pos \in Nat /\ h264_pos <= Len(h264)
      /\ h264_pos + Left = Len(h264) /\ Left \in Nat
  BY <1>1, TypeFacts
<1>3. PICK code \in {StartCode2, StartCode3} :
        /\ Left >= Len(code) /\ Ahead(Len(code)) = code
        /\ Buf' = code /\ h264_pos' = h264_pos + Len(code)
  BY DEF TakeStartCode
<1>4. ~h264_eof
  <2>1. Len(code) > 0
    BY <1>3 DEF StartCode2, StartCode3
  <2> QED BY <1>1, <1>2, <1>3, <2>1
<1>5. /\ VideoTypeOK' /\ Reading'
  <2>1. CASE code = StartCode2
    <3>1. Len(code) = 3 /\ code[1] = 0 /\ code[2] = 0 /\ code[3] = 1 /\ code \in Seq(Byte)
      BY <2>1 DEF StartCode2, Byte
    <3>2. Code2At(h264, h264_pos)
      BY <1>1, <1>2, <1>3, <2>1, <3>1, AheadBytes
    <3>3. VideoTypeOK'
      BY <1>1, <1>2, <1>3, <3>1, BufSizeAssumption DEF VideoTypeOK
    <3>4. Count' = 3 /\ CodeRead' = 3
      BY <1>1, <1>2, <1>3, <3>1, <3>2 DEF Count, CodeRead
    <3>5. \A k \in 1..3 : code[k] = h264[h264_pos + k]
      BY <3>1, <3>2 DEF Code2At
    <3> QED BY <1>1, <1>3, <1>4, <3>1, <3>2, <3>3, <3>4, <3>5 DEF Reading
  <2>2. CASE code = StartCode3
    <3>1. /\ Len(code) = 4 /\ code[1] = 0 /\ code[2] = 0 /\ code[3] = 0 /\ code[4] = 1
          /\ code \in Seq(Byte)
      BY <2>2 DEF StartCode3, Byte
    <3>2. Code3At(h264, h264_pos) /\ ~Code2At(h264, h264_pos)
      BY <1>1, <1>2, <1>3, <2>2, <3>1, AheadBytes DEF Code2At, Code3At
    <3>3. VideoTypeOK'
      BY <1>1, <1>2, <1>3, <3>1, BufSizeAssumption DEF VideoTypeOK
    <3>4. Count' = 4 /\ CodeRead' = 4
      BY <1>1, <1>2, <1>3, <3>1, <3>2 DEF Count, CodeRead
    <3>5. \A k \in 1..4 : code[k] = h264[h264_pos + k]
      BY <3>1, <3>2 DEF Code3At
    <3> QED BY <1>1, <1>3, <1>4, <3>1, <3>2, <3>3, <3>4, <3>5 DEF Reading
  <2> QED BY <1>3, <2>1, <2>2
<1>6. ReadInv'
  BY <1>1, <1>4, <1>5 DEF ReadInv
<1>7. ASSUME Pieces PROVE Pieces'
  BY <1>1, <1>7 DEF Pieces, UnitsEnd
<1> QED BY <1>1, <1>6, <1>7 DEF UnitsInv

\* One more byte, or the EOF.
LEMMA ScanByteInv == UnitsInv /\ ScanByte => UnitsInv'
<1> SUFFICES ASSUME UnitsInv, ScanByte PROVE UnitsInv'
  OBVIOUS
<1>1. /\ VideoTypeOK /\ Reading /\ video_pc = "scan" /\ ~h264_eof
      /\ UNCHANGED <<h264, start, units, decode_video_done>>
  BY DEF ScanByte, UnitsInv, ReadInv
<1>2. /\ h264 \in Seq(Byte) /\ Len(h264) \in Nat /\ h264_pos \in Nat
      /\ start \in Nat /\ start <= h264_pos
      /\ Count \in Nat /\ start + Count = h264_pos /\ Buf \in Seq(Byte)
      /\ h264_pos + Left = Len(h264) /\ Left \in Nat
      /\ Len(Buf) \in Nat /\ Len(Buf) <= MAX_VIDEO_TAG_BUF_SIZE
  BY <1>1, TypeFacts DEF VideoTypeOK
<1>3. /\ Len(Buf) = Count
      /\ \A k \in 1..Count : Buf[k] = h264[start + k]
      /\ Code2At(h264, start) \/ Code3At(h264, start)
      /\ Count >= CodeRead /\ CodeRead \in {3, 4}
  <2>1. Len(Buf) = Count + 0
    BY <1>1 DEF Reading
  <2>2. \A k \in 1..Count : Buf[k] = h264[start + k]
    BY DEF Reading, UnitsInv, ReadInv, ScanByte
  <2> QED BY <1>1, <1>2, <2>1, <2>2 DEF Reading, CodeRead
<1>4. Pieces /\ video_pc' \in {"scan", "found", "overrun"} => Pieces'
  BY <1>1 DEF Pieces, UnitsEnd
<1>5. CASE Len(Buf) = MAX_VIDEO_TAG_BUF_SIZE
  <2>1. video_pc' = "overrun" /\ UNCHANGED <<Buf, h264_pos, h264_eof>>
    BY <1>5 DEF ScanByte
  <2>2. VideoTypeOK'
    BY <1>1, <2>1 DEF VideoTypeOK
  <2>3. ReadInv'
    BY <1>1, <2>1, <2>2 DEF ReadInv
  <2> QED BY <1>1, <1>4, <2>1, <2>3 DEF UnitsInv
<1>6. CASE Len(Buf) # MAX_VIDEO_TAG_BUF_SIZE
  <2> DEFINE b == IF Left > 0 THEN h264[h264_pos + 1] ELSE 255
  <2>1. /\ Buf' = Append(Buf, b)
        /\ h264_pos' = IF Left > 0 THEN h264_pos + 1 ELSE h264_pos
        /\ h264_eof' = (Left = 0)
        /\ video_pc' = IF EndsWith(Buf', StartCode2) THEN "found" ELSE "scan"
    BY <1>6 DEF ScanByte
  <2>2. b \in Byte
    <3>1. CASE Left > 0
      BY <1>2, <3>1, ElementOfSeq
    <3>2. CASE ~(Left > 0)
      BY <3>2 DEF Byte
    <3> QED BY <3>1, <3>2
  <2>3. b = h264[h264_pos + 1] \/ ~(Left > 0)
    OBVIOUS
  <2>4. Left = 0 => b = 255
    OBVIOUS
  <2> HIDE DEF b
  <2>5. /\ Buf' \in Seq(Byte) /\ Len(Buf') = Count + 1
        /\ \A k \in 1..Count : Buf'[k] = Buf[k]
        /\ Buf'[Count + 1] = b
    BY <1>2, <1>3, <2>1, <2>2
  <2>6. VideoTypeOK'
    <3>1. h264_pos' \in 0..Len(h264) /\ start \in 0..h264_pos'
      BY <1>2, <2>1
    <3>2. Len(Buf') <= MAX_VIDEO_TAG_BUF_SIZE
      BY <1>2, <1>3, <1>6, <2>5, BufSizeAssumption
    <3>3. h264_eof' \in BOOLEAN /\ video_pc' \in {"idle", "scan", "found", "overrun"}
      BY <2>1
    <3> QED BY <1>1, <2>5, <3>1, <3>2, <3>3 DEF VideoTypeOK
  <2>7. CodeRead' = CodeRead
    BY <1>1 DEF CodeRead
  <2>8. CASE Left > 0
    <3>1. h264_pos' = h264_pos + 1 /\ start' = start
      BY <1>1, <2>1, <2>8
    <3>2. Left # 0
      BY <1>2, <2>8
    <3>3. ~h264_eof'
      BY <2>1, <3>2
    <3>4. Count' = Count + 1
      BY <1>2, <3>1, <3>3, <1>1 DEF Count
    <3>5. start + (Count + 1) = h264_pos + 1
      BY <1>2
    <3>6. b = h264[start + (Count + 1)]
      BY <2>3, <2>8, <3>5
    <3>7. Count' = Count + 1 /\ ~h264_eof' /\ b = h264[start + (Count + 1)]
      BY <3>3, <3>4, <3>6
    <3>8. \A k \in 1..(Count + 1) : Buf'[k] = h264[start + k]
      BY <1>2, <1>3, <2>5, <3>7, SMTT(30)
    <3>9. Reading'
      BY <1>1, <1>2, <1>3, <2>5, <2>7, <3>7, <3>8 DEF Reading
    <3>10. EndsWith(Buf', StartCode2) => Found'
      BY <1>2, <1>3, <2>5, <2>7, <3>7, EndsWithBytes DEF Found
    <3>11. ReadInv'
      BY <2>1, <2>6, <3>7, <3>9, <3>10 DEF ReadInv
    <3> QED BY <1>1, <1>4, <2>1, <3>11 DEF UnitsInv
  <2>9. CASE Left = 0
    <3>1. /\ Count' = Count /\ h264_eof' /\ b = 255 /\ h264_pos' = h264_pos
          /\ h264_pos = Len(h264)
      <4>1. h264_eof'
        BY <2>1, <2>9
      <4>2. h264_pos' = h264_pos /\ h264_pos = Len(h264) /\ start' = start
        BY <1>1, <1>2, <2>1, <2>9
      <4>3. Count' = Count
        BY <4>2 DEF Count
      <4> QED BY <2>4, <2>9, <4>1, <4>2, <4>3
    <3>2. Reading'
      BY <1>1, <1>2, <1>3, <2>5, <2>7, <3>1 DEF Reading
    <3>3. ~EndsWith(Buf', StartCode2)
      <4>1. Len(Buf') - 3 + 3 = Count + 1
        BY <1>2, <2>5
      <4> QED BY <2>5, <3>1, <4>1, EndsWithBytes DEF Code2At
    <3>4. ReadInv'
      BY <1>1, <2>1, <2>6, <3>1, <3>2, <3>3 DEF ReadInv
    <3> QED BY <1>1, <1>4, <2>1, <3>4 DEF UnitsInv
  <2> QED BY <1>2, <2>8, <2>9
<1> QED BY <1>5, <1>6

\* The units are consecutive pieces, as the invariant has it.
LEMMA UnitsArePieces == UnitsInv => UnitsAreTheFile
<1>1. ASSUME UnitsInv PROVE UnitsAreTheFile
  <2>1. DOMAIN units = 1..Len(units)
    BY <1>1, LenProperties DEF UnitsInv, ReadInv, VideoTypeOK
  <2> QED BY <1>1, <2>1 DEF UnitsInv, Pieces, UnitsAreTheFile, UnitsEnd
<1> QED BY <1>1

\* Every step preserves the invariant.
LEMMA VideoNextInv == UnitsInv /\ [VideoNext]_videoVars => UnitsInv'
<1>1. ASSUME UnitsInv, UNCHANGED videoVars PROVE UnitsInv'
  <2>1. UNCHANGED <<h264, h264_pos, h264_eof, start, Buf, units, decode_video_done,
                    video_pc>>
    BY <1>1 DEF videoVars
  <2>2. VideoTypeOK' /\ Reading' = Reading /\ Found' = Found
    BY <1>1, <2>1 DEF UnitsInv, ReadInv, VideoTypeOK, Reading, Found, Count, CodeRead
  <2>3. Pieces' = Pieces
    BY <2>1 DEF Pieces, UnitsEnd
  <2> QED BY <1>1, <2>1, <2>2, <2>3 DEF UnitsInv, ReadInv
<1> QED BY <1>1, VideoEndInv, NoStartCodeInv, TakeStartCodeInv, ScanByteInv, LastUnitInv,
           NextUnitInv DEF VideoNext
-----------------------------------------------------------------------------
\* The invariant holds of every behaviour of the reader.
THEOREM ReaderInvariance == VideoSpec => []UnitsInv
<1> QED BY VideoInitInv, VideoNextInv, PTL DEF VideoSpec

\* The reader stays within the file and within its buffer, for every file.
THEOREM ReaderTypeCorrect == VideoSpec => []VideoTypeOK
<1>1. UnitsInv => VideoTypeOK
  BY DEF UnitsInv, ReadInv
<1> QED BY <1>1, ReaderInvariance, PTL

\* The units of a file that begins with a start code are its consecutive
\* pieces: nothing is lost, made up or read twice, for every file.
THEOREM UnitsCorrect == VideoSpec => []UnitsAreTheFile
BY UnitsArePieces, ReaderInvariance, PTL
-----------------------------------------------------------------------------
\* How many members of a set of offsets lie before one.
LEMMA RankType ==
  ASSUME NEW S \in SUBSET Nat, IsFiniteSet(S), NEW n \in Nat
  PROVE  /\ Rank(S, n) \in Nat /\ Cardinality(S) \in Nat
         /\ IsFiniteSet({b \in S : b < n})
         /\ Rank(S, n) <= Cardinality(S)
         /\ (\A b \in S : b < n) => Rank(S, n) = Cardinality(S)
         /\ (\A b \in S : b >= n) => Rank(S, n) = 0
<1> DEFINE B == {b \in S : b < n}
<1>1. B \subseteq S
  OBVIOUS
<1>2. IsFiniteSet(B) /\ Cardinality(B) <= Cardinality(S)
  BY <1>1, FS_Subset
<1>3. Cardinality(B) \in Nat /\ Cardinality(S) \in Nat
  BY <1>2, FS_CardinalityType
<1>4. (\A b \in S : b < n) => B = S
  OBVIOUS
<1>5. ASSUME \A b \in S : b >= n PROVE Cardinality(B) = 0
  <2>1. \A b \in S : ~(b < n)
    BY <1>5
  <2>2. B = {}
    BY <2>1
  <2> QED
    BY <2>2, FS_EmptySet
<1> HIDE DEF B
<1>6. Rank(S, n) = Cardinality(B)
  BY DEF Rank, B
<1> QED
  BY <1>2, <1>3, <1>4, <1>5, <1>6 DEF B

\* One more lies before the next member than before the member itself.
LEMMA RankNext ==
  ASSUME NEW S \in SUBSET Nat, IsFiniteSet(S), NEW a \in S, NEW n \in Nat,
         a < n, \A b \in S : b > a => n <= b
  PROVE  Rank(S, n) = Rank(S, a) + 1
<1> DEFINE Below == {b \in S : b < a}
           B == {b \in S : b < n}
<1>1. IsFiniteSet(Below) /\ a \notin Below
  BY RankType
<1>2. B = Below \cup {a}
  <2>1. \A b \in S : b < n <=> b < a \/ b = a
    <3>1. \A b \in S : b \in Nat
      OBVIOUS
    <3> QED
      BY <3>1
  <2> QED
    BY <2>1
<1> HIDE DEF Below, B
<1>3. Cardinality(B) = Cardinality(Below) + 1
  BY <1>1, <1>2, FS_AddElement
<1> QED
  BY <1>3 DEF Rank, Below, B

\* Of two members, fewer lie before the smaller one.
LEMMA RankLess ==
  ASSUME NEW S \in SUBSET Nat, IsFiniteSet(S), NEW a \in S, NEW c \in Nat, a < c
  PROVE  Rank(S, a) < Rank(S, c)
<1> DEFINE Below == {b \in S : b < a}
           B == {b \in S : b < c}
<1>1. IsFiniteSet(Below) /\ a \notin Below /\ IsFiniteSet(B) /\ Cardinality(Below) \in Nat
      /\ Cardinality(B) \in Nat
  BY RankType DEF Rank
<1>2. Below \cup {a} \subseteq B
  <2>1. \A b \in S : b < a \/ b = a => b < c
    <3>1. \A b \in S : b \in Nat
      OBVIOUS
    <3> QED
      BY <3>1
  <2> QED
    BY <2>1
<1> HIDE DEF Below, B
<1>3. Cardinality(Below \cup {a}) = Cardinality(Below) + 1
  BY <1>1, FS_AddElement
<1>4. Cardinality(Below \cup {a}) <= Cardinality(B)
  BY <1>1, <1>2, FS_Subset
<1>5. Cardinality(Below) < Cardinality(B)
  BY <1>1, <1>3, <1>4
<1> QED
  BY <1>5 DEF Rank, Below, B

\* The piece that begins at a member, and which piece it is.
LEMMA CutPiece ==
  ASSUME NEW f, NEW S \in SUBSET Nat, IsFiniteSet(S), NEW a \in S
  PROVE  /\ Rank(S, a) \in Nat /\ Rank(S, a) < Cardinality(S)
         /\ CutAt(f, S)[Rank(S, a) + 1] = SubSeq(f, a + 1, NextCut(f, S, a))
<1>1. /\ Rank(S, a) \in Nat /\ Cardinality(S) \in Nat
      /\ Rank(S, a + 1) <= Cardinality(S)
      /\ Rank(S, a) < Rank(S, a + 1) /\ Rank(S, a + 1) \in Nat
  <2>1. a \in Nat /\ a + 1 \in Nat /\ a < a + 1
    OBVIOUS
  <2>2. /\ Rank(S, a) \in Nat /\ Cardinality(S) \in Nat
        /\ Rank(S, a + 1) <= Cardinality(S) /\ Rank(S, a + 1) \in Nat
    BY <2>1, RankType
  <2>3. Rank(S, a) < Rank(S, a + 1)
    BY <2>1, RankLess
  <2> QED
    BY <2>2, <2>3
<1>2. ASSUME NEW b \in S, Rank(S, b) = Rank(S, a) PROVE b = a
  <2>1. ~(a < b) /\ ~(b < a)
    BY <1>1, <1>2, RankLess, RankType
  <2> QED
    BY <2>1
<1> DEFINE k == Rank(S, a) + 1
           c == CHOOSE b \in S : Rank(S, b) = k - 1
<1>3. k \in 1..Cardinality(S) /\ k - 1 = Rank(S, a)
  BY <1>1
<1>4. c \in S /\ Rank(S, c) = k - 1
  BY <1>3
<1>5. c = a
  BY <1>2, <1>3, <1>4
<1>6. CutAt(f, S)[k] = SubSeq(f, c + 1, NextCut(f, S, c))
  BY <1>3 DEF CutAt
<1>7. CutAt(f, S)[k] = SubSeq(f, a + 1, NextCut(f, S, a))
  BY <1>5, <1>6
<1> QED
  BY <1>1, <1>7

\* The pieces are a sequence, as long as the set of offsets is large.
LEMMA CutSeq ==
  ASSUME NEW f, NEW S, Cardinality(S) \in Nat
  PROVE  /\ Len(CutAt(f, S)) = Cardinality(S)
         /\ \E X : CutAt(f, S) \in Seq(X)
<1> DEFINE n == Cardinality(S)
           piece(k) == LET a == CHOOSE a \in S : Rank(S, a) = k - 1
                       IN  SubSeq(f, a + 1, NextCut(f, S, a))
           X == {piece(k) : k \in 1..n}
           u == CutAt(f, S)
<1>1. u = [k \in 1..n |-> piece(k)]
  BY DEF CutAt
<1> HIDE DEF piece, n, u
<1>2. u \in [1..n -> X]
  BY <1>1
<1>3. n \in Nat
  BY DEF n
<1> HIDE DEF X
<1>4. u \in Seq(X)
  BY <1>2, <1>3
<1>5. Len(u) = n
  BY <1>2, <1>3, <1>4
<1> QED
  BY <1>4, <1>5 DEF u, n

\* What is left of a sequence when another element is taken.
LEMMA TakeOne ==
  ASSUME NEW X, NEW u \in Seq(X), NEW n \in Nat, n < Len(u)
  PROVE  /\ SubSeq(u, n + 1, Len(u)) # <<>>
         /\ Head(SubSeq(u, n + 1, Len(u))) = u[n + 1]
         /\ Tail(SubSeq(u, n + 1, Len(u))) = SubSeq(u, n + 2, Len(u))
<1> DEFINE m == Len(u)
           s == SubSeq(u, n + 1, m)
           t == SubSeq(u, n + 2, m)
<1>1. m \in Nat /\ \A i \in 1..m : u[i] \in X
  BY LenProperties, ElementOfSeq
<1>2. /\ s \in Seq(X) /\ Len(s) = m - n
      /\ \A i \in 1..(m - n) : s[i] = u[n + i]
  <2>1. \A i \in (n + 1)..m : u[i] \in X
    BY <1>1
  <2>2. /\ s \in Seq(X)
        /\ Len(s) = IF n + 1 <= m THEN m - (n + 1) + 1 ELSE 0
        /\ \A i \in 1..(m - (n + 1) + 1) : s[i] = u[(n + 1) + i - 1]
    BY <1>1, <2>1, SubSeqProperties
  <2> QED
    BY <1>1, <2>2
<1>3. /\ t \in Seq(X) /\ Len(t) = (m - n) - 1
      /\ \A i \in 1..((m - n) - 1) : t[i] = u[n + i + 1]
  <2>1. \A i \in (n + 2)..m : u[i] \in X
    BY <1>1
  <2>2. /\ t \in Seq(X)
        /\ Len(t) = IF n + 2 <= m THEN m - (n + 2) + 1 ELSE 0
        /\ \A i \in 1..(m - (n + 2) + 1) : t[i] = u[(n + 2) + i - 1]
    BY <1>1, <2>1, SubSeqProperties
  <2> QED
    BY <1>1, <2>2
<1> HIDE DEF s, t, m
<1>4. s # <<>>
  BY <1>1, <1>2 DEF m
<1>5. /\ Tail(s) \in Seq(X) /\ Len(Tail(s)) = Len(s) - 1
      /\ \A i \in 1..(Len(s) - 1) : Tail(s)[i] = s[i + 1]
      /\ Head(s) = s[1]
  BY <1>2, <1>4, HeadTailProperties
<1>6. n < m
  BY DEF m
<1>7. \A i \in 1..Len(t) : Tail(s)[i] = t[i]
  BY <1>1, <1>2, <1>3, <1>5, <1>6
<1>8. Tail(s) = t
  <2>1. Len(Tail(s)) = Len(t)
    BY <1>1, <1>2, <1>3, <1>5
  <2> QED
    BY <1>3, <1>5, <1>7, <2>1, SeqEqual
<1>9. Head(s) = u[n + 1]
  BY <1>1, <1>2, <1>5, <1>6
<1> QED
  BY <1>4, <1>8, <1>9 DEF s, t, m

\* The next member, or the end.
LEMMA NextCutType ==
  ASSUME NEW f, Len(f) \in Nat, NEW S \in SUBSET Nat, NEW a \in Nat
  PROVE  /\ NextCut(f, S, a) \in Nat
         /\ NextCut(f, S, a) = Len(f) \/ NextCut(f, S, a) \in S
         /\ NextCut(f, S, a) = Len(f) \/ NextCut(f, S, a) > a
         /\ NextCut(f, S, a) <= Len(f)
         /\ \A b \in S : b > a => NextCut(f, S, a) <= b
<1> DEFINE T == {b \in S : b > a} \cup {Len(f)}
<1>1. T \subseteq Nat /\ T # {}
  OBVIOUS
<1> HIDE DEF T
<1>2. \E n \in T : \A m \in T : n <= m
  BY <1>1, LeastNumber
<1>3. Min(T) \in T /\ \A m \in T : Min(T) <= m
  BY <1>2 DEF Min
<1>4. NextCut(f, S, a) = Min(T)
  BY DEF NextCut, T
<1> QED
  BY <1>1, <1>3, <1>4 DEF T

\* Which offset that is.
LEMMA NextCutIs ==
  ASSUME NEW f, Len(f) \in Nat, NEW S \in SUBSET Nat, NEW a \in Nat, NEW n \in Nat,
         n = Len(f) \/ (n \in S /\ n <= Len(f)), n > a, \A b \in S : b > a => n <= b
  PROVE  NextCut(f, S, a) = n
<1> DEFINE c == NextCut(f, S, a)
           m == Len(f)
<1>1. /\ c \in Nat /\ c <= m /\ (c = m \/ (c \in S /\ c > a))
      /\ \A b \in S : b > a => c <= b
      /\ m \in Nat /\ (n = m \/ (n \in S /\ n <= m))
  BY NextCutType
<1> HIDE DEF c, m
<1>2. c <= n
  <2>1. n = m => c <= n
    BY <1>1
  <2>2. n \in S => c <= n
    BY <1>1
  <2> QED
    BY <1>1, <2>1, <2>2
<1>3. n <= c
  BY <1>1
<1>4. c = n
  BY <1>1, <1>2, <1>3
<1> QED
  BY <1>4 DEF c

\* A unit begins at an offset: its start code stands there, and is not the end
\* of a longer one.
StartsAt(f, a) == Code3At(f, a) \/ (Code2At(f, a) /\ ~(a > 0 /\ f[a] = 0))

\* No start code but the first lies in what was read up to an offset.
NoneUpTo(end) == \A p \in Nat : p > start + 1 /\ p + 3 <= end => ~Code2At(h264, p)

Scanned ==
  /\ video_pc = "scan" => NoneUpTo(h264_pos)
  /\ video_pc = "found" => NoneUpTo(h264_pos - 1)
  /\ video_pc = "overrun" =>
       /\ NoneUpTo(h264_pos)
       /\ Code2At(h264, start) \/ Code3At(h264, start)
       /\ h264_pos = start + MAX_VIDEO_TAG_BUF_SIZE

\* The units returned are the first that the file consists of.
Ordered ==
  /\ Rank(UnitStarts(h264), UnitsEnd) = Len(units)
  /\ \A k \in 1..Len(units) : units[k].bytes = Units(h264)[k]
  /\ UnitsEnd = Len(h264) \/ UnitsEnd \in UnitStarts(h264)

VideoInv == UnitsInv /\ Scanned /\ (BeginsWithStartCode(h264) => Ordered)

\* The members of UnitStarts, byte by byte.
LEMMA UnitStartsAre ==
  ASSUME NEW f \in Seq(Byte)
  PROVE  /\ UnitStarts(f) \in SUBSET Nat
         /\ \A a \in Nat : a \in UnitStarts(f) <=> StartsAt(f, a)
         /\ \A a \in UnitStarts(f) : a < Len(f)
         /\ IsFiniteSet(UnitStarts(f))
<1> DEFINE I == {j \in 0..(Len(f) - 3) : SubSeq(f, j + 1, j + 3) = StartCode2}
           at(i) == IF i > 0 /\ f[i] = 0 THEN i - 1 ELSE i
<1>1. Len(f) \in Nat
  OBVIOUS
<1>2. \A j : j \in I <=> j \in Nat /\ Code2At(f, j)
  <2>1. ASSUME NEW j \in I PROVE j \in Nat /\ Code2At(f, j)
    <3>1. j \in Nat /\ j + 3 <= Len(f) /\ SubSeq(f, j + 1, j + 3) = StartCode2
      BY <1>1
    <3> QED BY <3>1, Code2Bytes
  <2>2. ASSUME NEW j \in Nat, Code2At(f, j) PROVE j \in I
    <3>1. j + 3 <= Len(f)
      BY <2>2 DEF Code2At
    <3>2. j \in 0..(Len(f) - 3)
      BY <1>1, <3>1
    <3>3. SubSeq(f, j + 1, j + 3) = StartCode2
      BY <2>2, <3>1, Code2Bytes
    <3> QED BY <3>2, <3>3
  <2> QED BY <2>1, <2>2
<1>3. UnitStarts(f) = {at(i) : i \in I}
  BY DEF UnitStarts
<1> HIDE DEF I
<1>4. ASSUME NEW i \in I PROVE at(i) \in Nat /\ at(i) < Len(f) /\ StartsAt(f, at(i))
  <2>1. i \in Nat /\ i + 3 <= Len(f) /\ f[i + 1] = 0 /\ f[i + 2] = 0 /\ f[i + 3] = 1
    BY <1>2 DEF Code2At
  <2>2. CASE i > 0 /\ f[i] = 0
    <3>1. at(i) = i - 1 /\ i - 1 \in Nat
      BY <2>1, <2>2
    <3>2. i - 1 + 1 = i /\ i - 1 + 2 = i + 1 /\ i - 1 + 3 = i + 2 /\ i - 1 + 4 = i + 3
      BY <2>1
    <3>3. Code3At(f, i - 1)
      BY <2>1, <2>2, <3>2 DEF Code3At
    <3>4. i - 1 < Len(f)
      BY <1>1, <2>1
    <3> QED BY <3>1, <3>3, <3>4 DEF StartsAt
  <2>3. CASE ~(i > 0 /\ f[i] = 0)
    <3>1. at(i) = i
      BY <2>3
    <3>2. Code2At(f, i)
      BY <1>2
    <3>3. i < Len(f)
      BY <1>1, <2>1
    <3> HIDE DEF at
    <3> QED BY <2>1, <2>3, <3>1, <3>2, <3>3 DEF StartsAt
  <2> QED BY <2>2, <2>3
<1>5. ASSUME NEW a \in Nat, StartsAt(f, a) PROVE \E i \in I : at(i) = a
  <2>1. CASE Code3At(f, a)
    <3>1. a + 1 + 1 = a + 2 /\ a + 1 + 2 = a + 3 /\ a + 1 + 3 = a + 4 /\ a + 1 \in Nat
      OBVIOUS
    <3>2. Code2At(f, a + 1)
      BY <2>1, <3>1 DEF Code2At, Code3At
    <3>3. a + 1 \in I
      BY <1>2, <3>1, <3>2
    <3>4. f[a + 1] = 0
      BY <2>1 DEF Code3At
    <3>5. at(a + 1) = a
      BY <3>4
    <3> HIDE DEF at
    <3> QED BY <3>3, <3>5
  <2>2. CASE Code2At(f, a) /\ ~(a > 0 /\ f[a] = 0)
    <3>1. a \in I
      BY <1>2, <2>2
    <3>2. at(a) = a
      BY <2>2
    <3> HIDE DEF at
    <3> QED BY <3>1, <3>2
  <2> QED BY <1>5, <2>1, <2>2 DEF StartsAt
<1> HIDE DEF at
<1>6. /\ UnitStarts(f) \subseteq Nat
      /\ \A a \in Nat : a \in UnitStarts(f) <=> StartsAt(f, a)
      /\ \A a \in UnitStarts(f) : a < Len(f)
  BY <1>3, <1>4, <1>5
<1>7. IsFiniteSet(UnitStarts(f))
  <2>1. UnitStarts(f) \subseteq 0..Len(f)
    BY <1>1, <1>6
  <2>2. IsFiniteSet(0..Len(f))
    BY <1>1, FS_Interval
  <2> QED BY <2>1, <2>2, FS_Subset
<1> QED BY <1>6, <1>7

\* A unit begins at the start code that a call has read, or one byte before.
LEMMA StartNear ==
  ASSUME NEW f \in Seq(Byte), NEW p \in Nat, Code2At(f, p) \/ Code3At(f, p)
  PROVE  \/ p \in UnitStarts(f)
         \/ p > 0 /\ p - 1 \in UnitStarts(f)
<1>1. CASE StartsAt(f, p)
  BY <1>1, UnitStartsAre
<1>2. CASE ~StartsAt(f, p)
  <2>1. Code2At(f, p) /\ p > 0 /\ f[p] = 0
    BY <1>2 DEF StartsAt
  <2>2. p - 1 \in Nat /\ p - 1 + 1 = p /\ p - 1 + 2 = p + 1 /\ p - 1 + 3 = p + 2
        /\ p - 1 + 4 = p + 3
    BY <2>1
  <2>3. Code3At(f, p - 1)
    BY <2>1, <2>2 DEF Code2At, Code3At
  <2>4. p - 1 \in UnitStarts(f)
    BY <2>2, <2>3, UnitStartsAre DEF StartsAt
  <2> QED BY <2>1, <2>4
<1> QED BY <1>1, <1>2

\* No unit begins within what was read without a start code being found.
LEMMA NoneBetween ==
  ASSUME h264 \in Seq(Byte), start \in Nat, NEW end \in Nat, NoneUpTo(end),
         Code2At(h264, start) \/ Code3At(h264, start)
  PROVE  \A b \in UnitStarts(h264) :
           b > start => \/ b + 3 > end /\ Code2At(h264, b)
                        \/ b + 4 > end /\ Code3At(h264, b)
<1> SUFFICES ASSUME NEW b \in UnitStarts(h264), b > start
             PROVE  \/ b + 3 > end /\ Code2At(h264, b)
                    \/ b + 4 > end /\ Code3At(h264, b)
  OBVIOUS
<1>1. b \in Nat /\ StartsAt(h264, b)
  BY UnitStartsAre
<1>2. CASE Code3At(h264, b)
  <2>1. b + 1 \in Nat /\ b + 1 > start + 1 /\ b + 1 + 3 = b + 4
        /\ b + 1 + 1 = b + 2 /\ b + 1 + 2 = b + 3
    BY <1>1
  <2>2. Code2At(h264, b + 1)
    BY <1>2, <2>1 DEF Code2At, Code3At
  <2>3. ~(b + 1 + 3 <= end)
    BY <2>1, <2>2 DEF NoneUpTo
  <2> QED BY <1>1, <1>2, <2>1, <2>3
<1>3. CASE Code2At(h264, b) /\ ~(b > 0 /\ h264[b] = 0)
  <2>1. CASE b = start + 1
    <3>1. /\ h264[b] # 0 /\ h264[b + 1] = 0 /\ h264[b + 2] = 0
          /\ start + 2 = b + 1 /\ start + 3 = b + 2
      BY <1>1, <1>3, <2>1 DEF Code2At
    <3>2. h264[start + 1] # 0
      BY <2>1, <3>1
    <3> QED BY <3>2 DEF Code2At, Code3At
  <2>2. CASE b # start + 1
    <3>1. b > start + 1
      BY <1>1, <2>2
    <3>2. ~(b + 3 <= end)
      BY <1>1, <1>3, <3>1 DEF NoneUpTo
    <3> QED BY <1>1, <1>3, <3>2
  <2> QED BY <2>1, <2>2
<1> QED BY <1>1, <1>2, <1>3 DEF StartsAt

\* A byte more has been read: the bytes read end with a start code if the file
\* has one there, and only then.
LEMMA ScannedByte == UnitsInv /\ Scanned /\ ScanByte /\ UnitsInv' => Scanned'
<1> SUFFICES ASSUME UnitsInv, Scanned, ScanByte, UnitsInv' PROVE Scanned'
  OBVIOUS
<1>1. /\ VideoTypeOK /\ Reading /\ video_pc = "scan" /\ NoneUpTo(h264_pos)
      /\ VideoTypeOK' /\ h264' = h264 /\ start' = start /\ ~h264_eof
  BY DEF ScanByte, UnitsInv, ReadInv, Scanned
<1>2. /\ h264 \in Seq(Byte) /\ Len(h264) \in Nat /\ h264_pos \in Nat /\ start \in Nat
      /\ Count \in Nat /\ start + Count = h264_pos /\ Left \in Nat
      /\ h264_pos + Left = Len(h264) /\ Buf \in Seq(Byte) /\ Len(Buf) \in Nat
  BY <1>1, TypeFacts
<1>3. Len(Buf) = Count /\ Count >= CodeRead /\ CodeRead \in {3, 4}
  <2>1. Len(Buf) = Count + 0 /\ Count >= CodeRead
    BY <1>1 DEF Reading
  <2> QED BY <1>2, <2>1 DEF CodeRead
<1>4. CASE Len(Buf) = MAX_VIDEO_TAG_BUF_SIZE
  <2>1. video_pc' = "overrun" /\ h264_pos' = h264_pos
    BY <1>4 DEF ScanByte
  <2>2. Code2At(h264, start) \/ Code3At(h264, start)
    BY <1>1 DEF Reading
  <2>3. h264_pos = start + MAX_VIDEO_TAG_BUF_SIZE
    BY <1>2, <1>3, <1>4
  <2> QED BY <1>1, <2>1, <2>2, <2>3 DEF Scanned, NoneUpTo
<1>5. CASE Len(Buf) # MAX_VIDEO_TAG_BUF_SIZE
  <2>1. /\ h264_pos' = IF Left > 0 THEN h264_pos + 1 ELSE h264_pos
        /\ h264_eof' = (Left = 0)
        /\ video_pc' = IF EndsWith(Buf', StartCode2) THEN "found" ELSE "scan"
    BY <1>5 DEF ScanByte
  <2>2. Reading' /\ Buf' \in Seq(Byte)
    BY <1>1, <2>1 DEF UnitsInv, ReadInv, VideoTypeOK
  <2>3. CASE Left = 0
    <3>1. h264_pos' = h264_pos /\ NoneUpTo(h264_pos)' = NoneUpTo(h264_pos)
      BY <1>1, <2>1, <2>3 DEF NoneUpTo
    <3>2. video_pc' # "found"
      <4>1. h264_eof'
        BY <2>1, <2>3
      <4> QED BY <4>1 DEF UnitsInv, ReadInv, Found
    <3>3. video_pc' = "scan"
      BY <2>1, <3>2
    <3> QED BY <1>1, <3>1, <3>3 DEF Scanned
  <2>4. CASE Left > 0
    <3>1. Left # 0
      BY <1>2, <2>4
    <3>2. h264_pos' = h264_pos + 1 /\ ~h264_eof'
      BY <2>1, <2>4, <3>1
    <3>3. Count' = Count + 1
      BY <1>1, <1>2, <3>2 DEF Count
    <3>4. Len(Buf') = Count + 1 /\ \A k \in 1..(Count + 1) : Buf'[k] = h264[start + k]
      BY <1>1, <1>2, <2>2, <3>2, <3>3 DEF Reading
    <3>5. EndsWith(Buf', StartCode2) <=> Code2At(h264, h264_pos - 2)
      <4>1. EndsWith(Buf', StartCode2) <=> Code2At(Buf', Count - 2)
        <5>1. Len(Buf') - 3 = Count - 2 /\ Len(Buf') >= 3
          BY <1>2, <1>3, <3>4
        <5> QED BY <2>2, <5>1, EndsWithBytes
      <4>2. /\ Count - 2 + 1 \in 1..(Count + 1) /\ Count - 2 + 2 \in 1..(Count + 1)
            /\ Count - 2 + 3 \in 1..(Count + 1)
            /\ start + (Count - 2 + 1) = h264_pos - 2 + 1
            /\ start + (Count - 2 + 2) = h264_pos - 2 + 2
            /\ start + (Count - 2 + 3) = h264_pos - 2 + 3
            /\ h264_pos - 2 + 3 <= Len(h264) /\ Count - 2 + 3 <= Len(Buf')
        BY <1>2, <1>3, <2>4, <3>4
      <4>3. /\ Buf'[Count - 2 + 1] = h264[h264_pos - 2 + 1]
            /\ Buf'[Count - 2 + 2] = h264[h264_pos - 2 + 2]
            /\ Buf'[Count - 2 + 3] = h264[h264_pos - 2 + 3]
        BY <3>4, <4>2
      <4>4. Code2At(Buf', Count - 2) <=> Code2At(h264, h264_pos - 2)
        BY <4>2, <4>3, Zenon DEF Code2At
      <4> QED BY <4>1, <4>4
    <3>6. CASE EndsWith(Buf', StartCode2)
      <4>1. video_pc' = "found" /\ h264_pos' - 1 = h264_pos
        BY <1>2, <2>1, <3>2, <3>6
      <4>2. NoneUpTo(h264_pos - 1)'
        BY <1>1, <4>1 DEF NoneUpTo
      <4> QED BY <4>1, <4>2 DEF Scanned
    <3>7. CASE ~EndsWith(Buf', StartCode2)
      <4>1. video_pc' = "scan"
        BY <2>1, <3>7
      <4>2. ASSUME NEW p \in Nat, p > start + 1, p + 3 <= h264_pos + 1
            PROVE  ~Code2At(h264, p)
        <5>1. CASE p + 3 <= h264_pos
          BY <1>1, <4>2, <5>1 DEF NoneUpTo
        <5>2. CASE p = h264_pos - 2
          BY <3>5, <3>7, <5>2
        <5> QED BY <1>2, <4>2, <5>1, <5>2
      <4>3. NoneUpTo(h264_pos)'
        BY <1>1, <3>2, <4>2 DEF NoneUpTo
      <4> QED BY <4>1, <4>3 DEF Scanned
    <3> QED BY <3>6, <3>7
  <2> QED BY <1>2, <2>3, <2>4
<1> QED BY <1>4, <1>5

\* What a call has read is known to hold no other start code.
LEMMA ScannedNext == UnitsInv /\ Scanned /\ [VideoNext]_videoVars /\ UnitsInv' => Scanned'
<1> SUFFICES ASSUME UnitsInv, Scanned, [VideoNext]_videoVars, UnitsInv' PROVE Scanned'
  OBVIOUS
<1>1. CASE UNCHANGED videoVars
  BY <1>1 DEF videoVars, Scanned, NoneUpTo
<1>2. CASE VideoEnd \/ NoStartCode \/ LastUnit \/ NextUnit
  <2>1. video_pc' = "idle"
    BY <1>2 DEF VideoEnd, NoStartCode, LastUnit, NextUnit, ReturnRead, Return
  <2> QED BY <2>1 DEF Scanned
<1>3. CASE TakeStartCode
  <2>1. PICK code \in {StartCode2, StartCode3} : h264_pos' = h264_pos + Len(code)
    BY <1>3 DEF TakeStartCode
  <2>2. /\ video_pc' = "scan" /\ start' = h264_pos /\ h264_pos \in Nat
    BY <1>3, TypeFacts DEF TakeStartCode, UnitsInv, ReadInv
  <2>3. Len(code) \in {3, 4}
    BY DEF StartCode2, StartCode3
  <2>4. h264_pos' = h264_pos + 3 \/ h264_pos' = h264_pos + 4
    BY <2>1, <2>3, Zenon
  <2>5. \A p \in Nat : p > start' + 1 => ~(p + 3 <= h264_pos')
    BY <2>2, <2>4
  <2> QED BY <2>2, <2>5 DEF Scanned, NoneUpTo
<1>4. CASE ScanByte
  BY <1>4, ScannedByte
<1> QED BY <1>1, <1>2, <1>3, <1>4 DEF VideoNext

\* A unit that is returned is the piece of the file that begins at start.
LEMMA UnitOfFile ==
  ASSUME UnitsInv, BeginsWithStartCode(h264), Ordered, start = UnitsEnd,
         UNCHANGED h264, Len(units') = Len(units) + 1,
         \A k \in 1..Len(units) : units'[k] = units[k],
         start \in UnitStarts(h264), NEW w \in Nat, w > 0,
         units'[Len(units) + 1].from = start,
         units'[Len(units) + 1].bytes = SubSeq(h264, start + 1, start + w),
         Len(SubSeq(h264, start + 1, start + w)) = w,
         NextCut(h264, UnitStarts(h264), start) = start + w
  PROVE  Ordered' /\ UnitsEnd' = start + w
<1> DEFINE S == UnitStarts(h264)
           n == Len(units)
<1>1. /\ h264 \in Seq(Byte) /\ n \in Nat /\ start \in Nat /\ Len(h264) \in Nat
  BY TypeFacts DEF UnitsInv, ReadInv
<1>2. S \in SUBSET Nat /\ IsFiniteSet(S)
  BY <1>1, UnitStartsAre
<1>3. /\ \A b \in S : b > start => start + w <= b
      /\ start + w = Len(h264) \/ start + w \in S
  BY <1>1, <1>2, NextCutType
<1>4. units' # <<>> /\ Len(units') = n + 1
  BY <1>1
<1>5. UnitsEnd' = start + w
  <2>1. End(units'[n + 1]) = start + w
    BY DEF End
  <2> QED BY <1>4, <2>1 DEF UnitsEnd
<1>6. Rank(S, start) = n
  BY DEF Ordered
<1>7. Rank(S, start + w) = n + 1
  <2>1. start + w \in Nat /\ start < start + w
    BY <1>1
  <2> QED BY <1>2, <1>3, <1>6, <2>1, RankNext, ZenonT(60)
<1>8. Units(h264)[n + 1] = SubSeq(h264, start + 1, start + w)
  <2>1. CutAt(h264, S)[Rank(S, start) + 1] = SubSeq(h264, start + 1, NextCut(h264, S, start))
    BY <1>2, CutPiece
  <2> QED BY <1>6, <2>1 DEF Units
<1>9. \A k \in 1..(n + 1) : units'[k].bytes = Units(h264)[k]
  <2>1. \A k \in 1..n : units'[k].bytes = Units(h264)[k]
    BY DEF Ordered
  <2>2. \A k \in 1..(n + 1) : k \in 1..n \/ k = n + 1
    BY <1>1
  <2> HIDE DEF n
  <2> QED BY <1>8, <2>1, <2>2 DEF n
<1>10. UnitStarts(h264') = S /\ Units(h264') = Units(h264) /\ Len(h264') = Len(h264)
  OBVIOUS
<1> QED BY <1>3, <1>4, <1>5, <1>7, <1>9, <1>10 DEF Ordered

\* The next unit begins where the start code was found.
LEMMA CutAtFound ==
  ASSUME UnitsInv, Scanned, video_pc = "found", NEW w, w = Len(Buf) - Rewind
  PROVE  /\ w \in Nat /\ w > 0 /\ CodeRead <= w /\ w <= Count /\ Rewind \in Nat
         /\ NextCut(h264, UnitStarts(h264), start) = start + w
<1> DEFINE S == UnitStarts(h264)
<1>1. VideoTypeOK /\ Reading /\ Found
  BY DEF UnitsInv, ReadInv
<1>2. /\ h264 \in Seq(Byte) /\ Len(h264) \in Nat /\ h264_pos \in Nat /\ start \in Nat
      /\ h264_pos <= Len(h264) /\ Count \in Nat /\ start + Count = h264_pos
  BY <1>1, TypeFacts
<1>3. /\ Rewind \in {3, 4} /\ w \in Nat /\ CodeRead <= w /\ w <= Count
      /\ h264_pos - Rewind = start + w
      /\ Rewind = 3 => Code2At(h264, start + w) /\ h264[start + w] # 0
      /\ Rewind = 4 => Code3At(h264, start + w)
  BY <1>1, RewindFacts
<1>4. w > 0 /\ Rewind \in Nat
  BY <1>3 DEF CodeRead
<1>5. S \in SUBSET Nat /\ start + w \in Nat /\ start + w > start /\ start + w <= Len(h264)
  BY <1>2, <1>3, <1>4, UnitStartsAre
<1>6. start + w \in S
  BY <1>2, <1>3, <1>5, UnitStartsAre DEF StartsAt
<1>7. ASSUME NEW b \in S, b > start PROVE start + w <= b
  <2>1. b \in Nat
    BY <1>5
  <2>2. NoneUpTo(h264_pos - 1) /\ h264_pos - 1 \in Nat
    BY <1>2, <1>3, <1>4 DEF Scanned
  <2>3. Code2At(h264, start) \/ Code3At(h264, start)
    BY <1>1 DEF Reading
  <2>4. \/ b + 3 > h264_pos - 1 /\ Code2At(h264, b)
        \/ b + 4 > h264_pos - 1 /\ Code3At(h264, b)
    BY <1>2, <1>7, <2>2, <2>3, NoneBetween
  <2>5. CASE b = h264_pos - 4 /\ Rewind = 3
    <3>1. Code3At(h264, b)
      BY <1>2, <2>1, <2>4, <2>5
    <3>2. start + w = b + 1
      BY <1>2, <1>3, <2>5
    <3>3. h264[b + 1] = 0 /\ h264[b + 1] # 0
      BY <1>3, <2>5, <3>1, <3>2 DEF Code3At
    <3> QED BY <3>3
  <2>6. CASE ~(b = h264_pos - 4 /\ Rewind = 3)
    <3>1. b >= h264_pos - 4
      BY <1>2, <2>1, <2>4
    <3>2. CASE Rewind = 4
      BY <1>2, <1>3, <2>1, <3>1, <3>2
    <3>3. CASE Rewind = 3
      BY <1>2, <1>3, <2>1, <2>6, <3>1, <3>3
    <3> QED BY <1>3, <3>2, <3>3
  <2> QED BY <2>5, <2>6
<1>8. NextCut(h264, S, start) = start + w
  BY <1>2, <1>5, <1>6, <1>7, NextCutIs
<1> QED BY <1>3, <1>4, <1>8

\* The last unit reaches to the end of the file.
LEMMA CutAtEnd ==
  ASSUME UnitsInv, Scanned, video_pc = "scan", h264_eof, NEW w, w = Len(Buf) - 1
  PROVE  /\ w \in Nat /\ w > 0 /\ CodeRead <= w /\ w <= Count
         /\ NextCut(h264, UnitStarts(h264), start) = start + w
<1> DEFINE S == UnitStarts(h264)
<1>1. VideoTypeOK /\ Reading /\ h264_pos = Len(h264) /\ NoneUpTo(h264_pos)
  BY DEF UnitsInv, ReadInv, Scanned
<1>2. /\ h264 \in Seq(Byte) /\ Len(h264) \in Nat /\ h264_pos \in Nat /\ start \in Nat
      /\ Count \in Nat /\ start + Count = h264_pos
  BY <1>1, TypeFacts
<1>3. Len(Buf) = Count + 1 /\ Count >= CodeRead /\ CodeRead \in {3, 4}
  BY <1>1 DEF Reading, CodeRead
<1>4. w = Count /\ w \in Nat /\ w > 0 /\ CodeRead <= w /\ start + w = Len(h264)
  BY <1>1, <1>2, <1>3
<1>5. S \in SUBSET Nat
  BY <1>2, UnitStartsAre
<1>6. ASSUME NEW b \in S, b > start PROVE FALSE
  <2>1. Code2At(h264, start) \/ Code3At(h264, start)
    BY <1>1 DEF Reading
  <2>2. \/ b + 3 > h264_pos /\ Code2At(h264, b)
        \/ b + 4 > h264_pos /\ Code3At(h264, b)
    BY <1>1, <1>2, <1>6, <2>1, NoneBetween
  <2>3. b \in Nat
    BY <1>5
  <2> QED BY <1>1, <1>2, <2>2, <2>3 DEF Code2At, Code3At
<1>7. start + w \in Nat /\ start + w > start
  BY <1>2, <1>4
<1>8. NextCut(h264, S, start) = start + w
  BY <1>2, <1>4, <1>5, <1>6, <1>7, NextCutIs
<1> QED BY <1>2, <1>4, <1>8

\* What a call returns is the next unit that the file consists of.
LEMMA NextUnitOfFile ==
  ASSUME UnitsInv, Scanned, BeginsWithStartCode(h264), Ordered, NextUnit \/ LastUnit
  PROVE  /\ Ordered'
         /\ h264' = h264 /\ decode_video_done' = decode_video_done
         /\ units' \in Seq(Unit) /\ Len(units') = Len(units) + 1
         /\ Len(units) < Cardinality(UnitStarts(h264))
<1> DEFINE S == UnitStarts(h264)
<1>1. VideoTypeOK /\ Reading /\ Pieces /\ video_pc \in {"scan", "found"}
  BY DEF UnitsInv, ReadInv, NextUnit, LastUnit
<1>2. /\ h264 \in Seq(Byte) /\ Len(h264) \in Nat /\ start \in Nat
  BY <1>1, TypeFacts
<1>3. start = UnitsEnd /\ start \in S
  <2>1. start # Len(h264)
    BY <1>1, <1>2 DEF Reading, Code2At, Code3At
  <2> QED BY <1>1, <2>1 DEF Pieces, Ordered
<1>4. S \in SUBSET Nat /\ IsFiniteSet(S)
  BY <1>2, UnitStartsAre
<1>5. Len(units) < Cardinality(S)
  BY <1>3, <1>4, CutPiece DEF Ordered
<1>6. \E m \in Nat, w \in Nat :
        /\ w > 0 /\ w = Len(Buf) - m /\ CodeRead <= w /\ w <= Count /\ ReturnRead(m)
        /\ NextCut(h264, S, start) = start + w
        /\ h264' = h264 /\ decode_video_done' = decode_video_done
  <2>1. CASE NextUnit
    <3> DEFINE w == Len(Buf) - Rewind
    <3>1. /\ w \in Nat /\ w > 0 /\ CodeRead <= w /\ w <= Count /\ Rewind \in Nat
          /\ NextCut(h264, S, start) = start + w
      BY <2>1, CutAtFound DEF NextUnit
    <3>2. /\ ReturnRead(Rewind) /\ h264' = h264 /\ decode_video_done' = decode_video_done
      BY <2>1 DEF NextUnit
    <3>3. w = Len(Buf) - Rewind
      OBVIOUS
    <3> HIDE DEF w, S
    <3> QED BY <3>1, <3>2, <3>3
  <2>2. CASE LastUnit
    <3> DEFINE w == Len(Buf) - 1
    <3>1. /\ w \in Nat /\ w > 0 /\ CodeRead <= w /\ w <= Count /\ 1 \in Nat
          /\ NextCut(h264, S, start) = start + w
      BY <2>2, CutAtEnd DEF LastUnit
    <3>2. /\ ReturnRead(1) /\ h264' = h264 /\ decode_video_done' = decode_video_done
      BY <2>2 DEF LastUnit
    <3>3. w = Len(Buf) - 1
      OBVIOUS
    <3> HIDE DEF w, S
    <3> QED BY <3>1, <3>2, <3>3
  <2> QED BY <2>1, <2>2
<1>7. PICK m \in Nat, w \in Nat :
        /\ w > 0 /\ w = Len(Buf) - m /\ CodeRead <= w /\ w <= Count /\ ReturnRead(m)
        /\ NextCut(h264, S, start) = start + w
        /\ h264' = h264 /\ decode_video_done' = decode_video_done
  BY <1>6
<1>8. /\ units' \in Seq(Unit) /\ Len(units') = Len(units) + 1
      /\ \A k \in 1..Len(units) : units'[k] = units[k]
      /\ units'[Len(units) + 1].from = start
      /\ units'[Len(units) + 1].bytes = SubSeq(h264, start + 1, start + w)
      /\ Len(SubSeq(h264, start + 1, start + w)) = w
  BY <1>1, <1>7, ReturnReadUnit
<1>9. Ordered'
  BY <1>3, <1>7, <1>8, UnitOfFile
<1> QED BY <1>5, <1>7, <1>8, <1>9

\* Every step keeps the units in the order of the file.
LEMMA OrderedNext ==
  ASSUME UnitsInv, Scanned, BeginsWithStartCode(h264), Ordered, [VideoNext]_videoVars
  PROVE  Ordered'
<1>1. CASE NextUnit \/ LastUnit
  BY <1>1, NextUnitOfFile
<1>2. CASE NoStartCode
  BY <1>2, NoStartCodeNever
<1>3. CASE VideoEnd \/ TakeStartCode \/ ScanByte \/ UNCHANGED videoVars
  <2>1. h264' = h264 /\ units' = units
    BY <1>3 DEF VideoEnd, TakeStartCode, ScanByte, videoVars
  <2> QED BY <2>1 DEF Ordered, UnitsEnd
<1> QED BY <1>1, <1>2, <1>3 DEF VideoNext

\* The same at the beginning.
LEMMA VideoInvInit == VideoInit => VideoInv
<1> SUFFICES ASSUME VideoInit PROVE VideoInv
  OBVIOUS
<1>1. UnitsInv /\ video_pc = "idle" /\ units = <<>> /\ Len(units) = 0
  BY VideoInitInv DEF VideoInit
<1>2. Scanned
  BY <1>1 DEF Scanned
<1>3. ASSUME BeginsWithStartCode(h264) PROVE Ordered
  <2> DEFINE S == UnitStarts(h264)
  <2>1. VideoTypeOK /\ h264 \in Seq(Byte)
    BY <1>1, TypeFacts DEF UnitsInv, ReadInv
  <2>2. UnitsEnd = 0
    BY <1>1 DEF UnitsEnd
  <2>3. 0 \in S
    <3>1. Code2At(h264, 0) \/ Code3At(h264, 0)
      BY <1>3, <2>1, BeginsBytes
    <3>2. StartsAt(h264, 0)
      BY <3>1 DEF StartsAt
    <3> QED BY <2>1, <3>2, UnitStartsAre
  <2>4. Rank(S, 0) = 0
    <3>1. S \in SUBSET Nat /\ IsFiniteSet(S)
      BY <2>1, UnitStartsAre
    <3>2. \A b \in S : b >= 0
      BY <3>1
    <3> QED BY <3>1, <3>2, RankType
  <2> QED BY <1>1, <2>2, <2>3, <2>4 DEF Ordered
<1> QED BY <1>1, <1>2, <1>3 DEF VideoInv

\* The invariant of the reader of H.264 files.
LEMMA VideoInvNext == VideoInv /\ [VideoNext]_videoVars => VideoInv'
<1> SUFFICES ASSUME VideoInv, [VideoNext]_videoVars PROVE VideoInv'
  OBVIOUS
<1>1. UnitsInv' /\ Scanned'
  BY VideoNextInv, ScannedNext DEF VideoInv
<1>2. h264' = h264
  BY DEF VideoNext, VideoEnd, NoStartCode, TakeStartCode, ScanByte, LastUnit, NextUnit,
         videoVars
<1> QED BY <1>1, <1>2, OrderedNext DEF VideoInv

\* A buffer that is full without a start code in it holds less than a unit.
LEMMA FullBuffer == UnitsInv /\ Scanned => OverrunOnlyIfTooLong
<1> SUFFICES ASSUME UnitsInv, Scanned, video_pc = "overrun" PROVE ~FitsBuf(h264)
  BY DEF OverrunOnlyIfTooLong
<1> DEFINE S == UnitStarts(h264)
<1>1. /\ h264 \in Seq(Byte) /\ Len(h264) \in Nat /\ h264_pos \in Nat /\ start \in Nat
      /\ h264_pos <= Len(h264) /\ MAX_VIDEO_TAG_BUF_SIZE \in Nat
      /\ h264_pos = start + MAX_VIDEO_TAG_BUF_SIZE
  BY TypeFacts, BufSizeAssumption DEF UnitsInv, ReadInv, Scanned
<1>2. /\ NoneUpTo(h264_pos)
      /\ Code2At(h264, start) \/ Code3At(h264, start)
  BY DEF Scanned
<1>3. S \in SUBSET Nat /\ IsFiniteSet(S)
  BY <1>1, UnitStartsAre
<1>4. PICK a \in S : a = start \/ (a = start - 1 /\ start \notin S)
  BY <1>1, <1>2, StartNear
<1> DEFINE c == NextCut(h264, S, a)
           k == Rank(S, a) + 1
<1>5. a \in Nat /\ a <= start
  BY <1>1, <1>3, <1>4
<1>6. /\ c \in Nat /\ c <= Len(h264)
      /\ c = Len(h264) \/ (c \in S /\ c > a)
  BY <1>1, <1>3, <1>5, NextCutType
<1> HIDE DEF c
<1>7. a <= c /\ c - a + 4 > MAX_VIDEO_TAG_BUF_SIZE
  <2>1. CASE c = Len(h264)
    BY <1>1, <1>5, <2>1
  <2>2. CASE c \in S /\ c > a
    <3>1. c > start
      BY <1>1, <1>4, <1>6, <2>2
    <3>2. c + 4 > h264_pos
      BY <1>1, <1>2, <1>6, <2>2, <3>1, NoneBetween
    <3> QED BY <1>1, <1>5, <1>6, <2>2, <3>2
  <2> QED BY <1>6, <2>1, <2>2
<1>8. Rank(S, a) \in Nat /\ Rank(S, a) < Cardinality(S) /\ Cardinality(S) \in Nat
  BY <1>3, <1>5, CutPiece, RankType
<1>9. k \in 1..Cardinality(S)
  BY <1>8
<1>10. Units(h264)[k] = SubSeq(h264, a + 1, c)
  BY <1>3, CutPiece DEF Units, c
<1>11. Len(Units(h264)[k]) = c - a
  BY <1>1, <1>5, <1>6, <1>7, <1>10, PartFacts
<1>12. k \in DOMAIN Units(h264)
  BY <1>9 DEF Units, CutAt
<1>13. ~(Len(Units(h264)[k]) + 4 <= MAX_VIDEO_TAG_BUF_SIZE)
  BY <1>1, <1>5, <1>6, <1>7, <1>11
<1> HIDE DEF k
<1> QED BY <1>12, <1>13, Zenon DEF FitsBuf

\* The bytes of the units that were returned.
Bytes(u) == [k \in DOMAIN u |-> u[k].bytes]

\* One more unit, one more element.
LEMMA BytesAppend ==
  ASSUME NEW u \in Seq(Unit), NEW t \in Seq(Unit), Len(t) = Len(u) + 1,
         \A k \in 1..Len(u) : t[k].bytes = u[k].bytes
  PROVE  Bytes(t) = Append(Bytes(u), t[Len(u) + 1].bytes)
<1> DEFINE n == Len(u)
           e == t[n + 1].bytes
<1>1. n \in Nat /\ DOMAIN u = 1..n /\ DOMAIN t = 1..(n + 1)
  BY LenProperties
<1>2. \A k \in 1..n : u[k] \in Unit
  BY ElementOfSeq
<1>3. \A k \in 1..(n + 1) : t[k] \in Unit
  BY <1>1, ElementOfSeq
<1>4. Bytes(u) \in Seq(Seq(Byte)) /\ Len(Bytes(u)) = n
      /\ \A k \in 1..n : Bytes(u)[k] = u[k].bytes
  <2>1. \A k \in 1..n : u[k].bytes \in Seq(Byte)
    BY <1>2 DEF Unit
  <2>2. Bytes(u) \in [1..n -> Seq(Byte)]
    BY <1>1, <2>1 DEF Bytes
  <2> QED BY <1>1, <2>2 DEF Bytes
<1>5. Bytes(t) \in Seq(Seq(Byte)) /\ Len(Bytes(t)) = n + 1
      /\ \A k \in 1..(n + 1) : Bytes(t)[k] = t[k].bytes
  <2>1. \A k \in 1..(n + 1) : t[k].bytes \in Seq(Byte)
    BY <1>3 DEF Unit
  <2>2. Bytes(t) \in [1..(n + 1) -> Seq(Byte)]
    BY <1>1, <2>1 DEF Bytes
  <2> QED BY <1>1, <2>2 DEF Bytes
<1>6. e \in Seq(Byte)
  <2>1. t[n + 1] \in Unit
    BY <1>1, <1>3
  <2> QED BY <2>1 DEF Unit
<1> DEFINE b == Bytes(u)
           d == Bytes(t)
           g == Append(b, e)
<1> HIDE DEF e, n, b, d
<1>7. g \in Seq(Seq(Byte)) /\ Len(g) = n + 1 /\ g[n + 1] = e
      /\ \A k \in 1..n : g[k] = b[k]
  BY <1>1, <1>4, <1>6 DEF b
<1>8. \A k \in 1..(n + 1) : d[k] = g[k]
  <2>1. \A k \in 1..n : t[k].bytes = u[k].bytes
    BY DEF n
  <2>2. \A k \in 1..(n + 1) : k \in 1..n \/ k = n + 1
    BY <1>1
  <2>3. d[n + 1] = e
    BY <1>1, <1>5 DEF d, e
  <2>4. ASSUME NEW k \in 1..n PROVE d[k] = g[k]
    <3>1. k \in 1..(n + 1)
      BY <1>1
    <3>2. d[k] = t[k].bytes
      BY <1>5, <3>1 DEF d
    <3>3. g[k] = u[k].bytes
      BY <1>4, <1>7 DEF b
    <3> QED BY <2>1, <3>2, <3>3
  <2> QED BY <1>7, <2>2, <2>3, <2>4
<1>9. d = g
  <2>1. Len(d) = n + 1 /\ d \in Seq(Seq(Byte))
    BY <1>5 DEF d
  <2> HIDE DEF g
  <2> QED BY <1>7, <1>8, <2>1, SeqEqual
<1> QED BY <1>9 DEF d, g, b, e, n

\* A call hands over the first unit that is left, or finds that none is.
LEMMA VideoStep ==
  ASSUME VideoInv, [VideoNext]_videoVars, GoodH264
  PROVE  V!Next \/ UNCHANGED V!vars
<1> DEFINE u == Units(h264)
           n == Len(units)
           S == UnitStarts(h264)
<1>1. BeginsWithStartCode(h264) /\ UnitsInv /\ Scanned /\ Ordered /\ VideoTypeOK
  BY DEF VideoInv, GoodH264, UnitsInv, ReadInv
<1>2. /\ h264 \in Seq(Byte) /\ n \in Nat /\ units \in Seq(Unit) /\ Len(h264) \in Nat
  BY <1>1, TypeFacts
<1>3. S \in SUBSET Nat /\ IsFiniteSet(S) /\ Cardinality(S) \in Nat
  BY <1>2, UnitStartsAre, RankType
<1>4. Len(u) = Cardinality(S) /\ \E X : u \in Seq(X)
  BY <1>3, CutSeq DEF Units
<1>5. CASE NextUnit \/ LastUnit
  <2>1. /\ Ordered' /\ h264' = h264 /\ decode_video_done' = decode_video_done
        /\ units' \in Seq(Unit) /\ Len(units') = n + 1 /\ n < Len(u)
    BY <1>1, <1>4, <1>5, NextUnitOfFile
  <2>2. /\ SubSeq(u, n + 1, Len(u)) # <<>>
        /\ Head(SubSeq(u, n + 1, Len(u))) = u[n + 1]
        /\ Tail(SubSeq(u, n + 1, Len(u))) = SubSeq(u, n + 2, Len(u))
    BY <1>2, <1>4, <2>1, TakeOne
  <2>3. /\ \A k \in 1..(n + 1) : units'[k].bytes = u[k]
        /\ \A k \in 1..n : units[k].bytes = u[k]
    BY <1>1, <2>1 DEF Ordered
  <2>4. \A k \in 1..n : units'[k].bytes = units[k].bytes
    BY <1>2, <2>3
  <2>5. Bytes(units') = Append(Bytes(units), units'[n + 1].bytes)
    BY <1>2, <2>1, <2>4, BytesAppend
  <2>6. units'[n + 1].bytes = u[n + 1]
    BY <1>2, <2>3
  <2>7. Len(units') + 1 = n + 2
    BY <1>2, <2>1
  <2>8. GoodH264' = GoodH264 /\ Units(h264') = u
    BY <2>1 DEF GoodH264
  <2> HIDE DEF u, n
  <2>9. Bytes(units') = Append(Bytes(units), Head(SubSeq(u, n + 1, Len(u))))
    BY <2>2, <2>5, <2>6
  <2>10. (IF GoodH264' THEN SubSeq(Units(h264'), Len(units') + 1, Len(Units(h264'))) ELSE <<>>)
            = Tail(SubSeq(u, n + 1, Len(u)))
    BY <2>2, <2>7, <2>8
  <2>11. (IF GoodH264 THEN SubSeq(Units(h264), Len(units) + 1, Len(Units(h264))) ELSE <<>>)
            = SubSeq(u, n + 1, Len(u))
    BY DEF u, n
  <2>12. V!Take
    BY <2>1, <2>2, <2>9, <2>10, <2>11, Zenon DEF V!Take, Bytes
  <2> QED BY <2>12 DEF V!Next
<1>6. CASE VideoEnd
  <2>1. /\ decode_video_done' = TRUE /\ h264' = h264 /\ units' = units
        /\ video_pc = "idle"
    BY <1>6 DEF VideoEnd
  <2>2. UnitsEnd = Len(h264)
    <3>1. ~Code2At(h264, h264_pos) /\ ~Code3At(h264, h264_pos)
      BY <1>1, <1>6, AheadBytes DEF VideoEnd
    <3> QED BY <1>1, <2>1, <3>1 DEF UnitsInv, Pieces
  <2>3. n = Len(u)
    <3>1. \A b \in S : b < Len(h264)
      BY <1>2, UnitStartsAre
    <3>2. Rank(S, Len(h264)) = Cardinality(S)
      BY <1>2, <1>3, <3>1, RankType
    <3> QED BY <1>1, <1>4, <2>2, <3>2 DEF Ordered
  <2>4. SubSeq(u, n + 1, Len(u)) = <<>>
    BY <1>2, <1>4, <2>3
  <2>5. V!ReachEnd
    BY <2>1, <2>4 DEF V!ReachEnd
  <2> QED BY <2>5 DEF V!Next
<1>7. CASE TakeStartCode \/ ScanByte \/ UNCHANGED videoVars
  <2>1. h264' = h264 /\ units' = units /\ decode_video_done' = decode_video_done
    BY <1>7 DEF TakeStartCode, ScanByte, videoVars
  <2> QED BY <2>1 DEF V!vars, GoodH264
<1>8. CASE NoStartCode
  BY <1>1, <1>8, NoStartCodeNever
<1> QED BY <1>5, <1>6, <1>7, <1>8 DEF VideoNext
-----------------------------------------------------------------------------
\* c[o] is the set of the numbers that E leads to from o.
Chased(c, N, E) == c = [o \in 0..N |-> {o} \cup (IF E[o] = o THEN {} ELSE c[E[o]])]

\* Each member of S but the largest is led by E to the next one.
Chain(S, o, N, E) ==
  /\ S \in SUBSET (o..N) /\ o \in S
  /\ \A p \in S : \/ \A q \in S : q <= p
                  \/ E[p] \in S /\ E[p] > p /\ \A q \in S : q > p => E[p] <= q

\* There are such sets: the least that are closed under E.
LEMMA ChasedExists ==
  ASSUME NEW N \in Nat, NEW E \in [0..N -> 0..N]
  PROVE  \E c : Chased(c, N, E)
<1> DEFINE Closed(C) == \A x \in C : E[x] \in C
           cl(o) == {p \in 0..N : \A C \in SUBSET (0..N) : o \in C /\ Closed(C) => p \in C}
           c == [o \in 0..N |-> cl(o)]
<1>1. ASSUME NEW o \in 0..N PROVE o \in cl(o) /\ Closed(cl(o)) /\ cl(o) \in SUBSET (0..N)
  <2>1. \A x \in cl(o) : E[x] \in 0..N
    OBVIOUS
  <2> QED BY <2>1
<1>2. ASSUME NEW o \in 0..N, NEW C \in SUBSET (0..N), o \in C, Closed(C)
      PROVE  cl(o) \subseteq C
  BY <1>2
<1> HIDE DEF cl
<1>3. ASSUME NEW o \in 0..N PROVE cl(o) = {o} \cup (IF E[o] = o THEN {} ELSE cl(E[o]))
  <2>1. E[o] \in 0..N
    OBVIOUS
  <2>2. CASE E[o] = o
    <3>1. Closed({o})
      BY <2>2
    <3>2. cl(o) \subseteq {o}
      BY <1>2, <3>1
    <3> QED BY <1>1, <2>2, <3>2
  <2>3. CASE E[o] # o
    <3>1. o \in cl(o) /\ Closed(cl(o)) /\ cl(o) \in SUBSET (0..N)
      BY <1>1
    <3>2. E[o] \in cl(E[o]) /\ Closed(cl(E[o])) /\ cl(E[o]) \in SUBSET (0..N)
      BY <1>1, <2>1
    <3>3. cl(E[o]) \subseteq cl(o)
      BY <1>2, <2>1, <3>1
    <3>4. Closed({o} \cup cl(E[o])) /\ {o} \cup cl(E[o]) \in SUBSET (0..N)
      BY <3>2
    <3>5. cl(o) \subseteq {o} \cup cl(E[o])
      BY <1>2, <3>4
    <3> QED BY <2>3, <3>1, <3>3, <3>5
  <2> QED BY <2>2, <2>3
<1>4. c = [o \in 0..N |-> {o} \cup (IF E[o] = o THEN {} ELSE c[E[o]])]
  <2>1. \A o \in 0..N : E[o] \in 0..N
    OBVIOUS
  <2>2. \A o \in 0..N : cl(o) = {o} \cup (IF E[o] = o THEN {} ELSE c[E[o]])
    BY <1>3, <2>1
  <2> QED BY <2>2
<1> HIDE DEF c
<1> QED BY <1>4 DEF Chased

\* The sets are chains.
LEMMA ChasedChain ==
  ASSUME NEW N \in Nat, NEW E \in [0..N -> 0..N], \A o \in 0..N : E[o] >= o,
         NEW c, Chased(c, N, E)
  PROVE  \A o \in 0..N : Chain(c[o], o, N, E)
<1> DEFINE T == {n \in 0..N : \A o \in 0..N : o >= N - n => Chain(c[o], o, N, E)}
<1>1. ASSUME NEW o \in 0..N, E[o] = o PROVE Chain(c[o], o, N, E)
  <2>1. c[o] = {o}
    BY <1>1 DEF Chased
  <2> QED BY <2>1 DEF Chain
<1>2. ASSUME NEW o \in 0..N, E[o] # o, Chain(c[E[o]], E[o], N, E)
      PROVE  Chain(c[o], o, N, E)
  <2> DEFINE e == E[o]
             S == c[e]
  <2>1. c[o] = {o} \cup S
    BY <1>2 DEF Chased
  <2>2. e \in 0..N /\ e > o
    BY <1>2
  <2>3. Chain(S, e, N, E)
    BY <1>2
  <2>4. E[o] = e
    OBVIOUS
  <2> HIDE DEF e, S
  <2>5. \A q \in S : q \in 0..N /\ q >= e
    BY <2>2, <2>3 DEF Chain
  <2>6. c[o] \in SUBSET (o..N) /\ o \in c[o]
    BY <2>1, <2>2, <2>5
  <2>7. ASSUME NEW p \in c[o]
        PROVE  \/ \A q \in c[o] : q <= p
               \/ E[p] \in c[o] /\ E[p] > p /\ \A q \in c[o] : q > p => E[p] <= q
    <3>1. CASE p = o
      <4>1. e \in S
        BY <2>3 DEF Chain
      <4>2. \A q \in c[o] : q > o => e <= q
        BY <2>1, <2>2, <2>5
      <4> QED BY <2>1, <2>2, <2>4, <3>1, <4>1, <4>2
    <3>2. CASE p \in S
      <4>1. o <= p /\ ~(o > p)
        BY <2>2, <2>5, <3>2
      <4>2. CASE \A q \in S : q <= p
        BY <2>1, <4>1, <4>2
      <4>3. CASE E[p] \in S /\ E[p] > p /\ \A q \in S : q > p => E[p] <= q
        BY <2>1, <4>1, <4>3
      <4> QED BY <2>3, <3>2, <4>2, <4>3 DEF Chain
    <3> QED BY <2>1, <3>1, <3>2
  <2> QED BY <2>6, <2>7 DEF Chain
<1>3. 0 \in T
  <2>1. \A o \in 0..N : o >= N - 0 => E[o] = o
    OBVIOUS
  <2>2. \A o \in 0..N : o >= N - 0 => Chain(c[o], o, N, E)
    BY <1>1, <2>1
  <2> QED BY <2>2
<1>4. ASSUME NEW n \in 1..N, n - 1 \in T PROVE n \in T
  <2>1. ASSUME NEW o \in 0..N, o >= N - n PROVE Chain(c[o], o, N, E)
    <3>1. CASE E[o] = o
      BY <1>1, <3>1
    <3>2. CASE E[o] # o
      <4>1. E[o] \in 0..N /\ E[o] >= N - (n - 1)
        BY <2>1, <3>2
      <4>2. Chain(c[E[o]], E[o], N, E)
        BY <1>4, <4>1
      <4> QED BY <1>2, <3>2, <4>2
    <3> QED BY <3>1, <3>2
  <2> QED BY <2>1
<1> HIDE DEF T
<1>5. \A n \in 0..N : n \in T
  BY <1>3, <1>4, InductUpTo
<1>6. N \in T
  BY <1>5
<1>7. \A o \in 0..N : o >= N - N
  OBVIOUS
<1> QED BY <1>6, <1>7 DEF T

\* The steps by which a number takes in the bits of a byte x, from u[k] on: the
\* three or four high ones, or all eight.
TakesThree(u, k, x) ==
  /\ \A j \in k..(k + 3) : u[j] \in Nat
  /\ u[k + 1] = 2 * u[k] + ((x \div 128) % 2)
  /\ u[k + 2] = 2 * u[k + 1] + ((x \div 64) % 2)
  /\ u[k + 3] = 2 * u[k + 2] + ((x \div 32) % 2)

TakesFour(u, k, x) ==
  /\ TakesThree(u, k, x)
  /\ u[k + 4] \in Nat
  /\ u[k + 4] = 2 * u[k + 3] + ((x \div 16) % 2)

TakesByte(u, k, x) ==
  /\ TakesFour(u, k, x)
  /\ \A j \in k..(k + 8) : u[j] \in Nat
  /\ u[k + 5] = 2 * u[k + 4] + ((x \div 8) % 2)
  /\ u[k + 6] = 2 * u[k + 5] + ((x \div 4) % 2)
  /\ u[k + 7] = 2 * u[k + 6] + ((x \div 2) % 2)
  /\ u[k + 8] = 2 * u[k + 7] + (x % 2)

\* What they come to.
AfterThree(u, k, x) == u[k + 3] = 8 * u[k] + x \div 32
AfterFour(u, k, x)  == u[k + 4] = 16 * u[k] + x \div 16
AfterByte(u, k, x)  == u[k + 8] = 256 * u[k] + x

\* They do.
LEMMA TakenBits ==
  ASSUME NEW u, NEW k \in Nat, NEW x \in Nat, x <= 255
  PROVE  /\ TakesThree(u, k, x) => AfterThree(u, k, x)
         /\ TakesFour(u, k, x)  => AfterFour(u, k, x)
         /\ TakesByte(u, k, x)  => AfterByte(u, k, x)
<1>1. /\ x = 2 * (x \div 2) + (x % 2)
      /\ x \div 2 = 2 * (x \div 4) + ((x \div 2) % 2)
      /\ x \div 4 = 2 * (x \div 8) + ((x \div 4) % 2)
      /\ x \div 8 = 2 * (x \div 16) + ((x \div 8) % 2)
      /\ x \div 16 = 2 * (x \div 32) + ((x \div 16) % 2)
      /\ x \div 32 = 2 * (x \div 64) + ((x \div 32) % 2)
      /\ x \div 64 = 2 * (x \div 128) + ((x \div 64) % 2)
      /\ x \div 128 = (x \div 128) % 2
  OBVIOUS
<1>2. /\ x \div 2 \in Nat /\ x \div 4 \in Nat /\ x \div 8 \in Nat /\ x \div 16 \in Nat
      /\ x \div 32 \in Nat /\ x \div 64 \in Nat /\ x \div 128 \in Nat
  OBVIOUS
<1>3. ASSUME TakesThree(u, k, x) PROVE u[k + 3] = 8 * u[k] + x \div 32 /\ u[k] \in Nat
  <2>1. u[k] \in Nat /\ u[k + 1] \in Nat /\ u[k + 2] \in Nat /\ u[k + 3] \in Nat
    BY <1>3 DEF TakesThree
  <2> QED BY <1>1, <1>2, <1>3, <2>1 DEF TakesThree
<1>4. ASSUME TakesFour(u, k, x) PROVE u[k + 4] = 16 * u[k] + x \div 16 /\ u[k] \in Nat
  <2>1. u[k + 3] = 8 * u[k] + x \div 32 /\ u[k] \in Nat
    BY <1>3, <1>4 DEF TakesFour
  <2> QED BY <1>1, <1>2, <1>4, <2>1 DEF TakesFour
<1>5. ASSUME TakesByte(u, k, x) PROVE u[k + 8] = 256 * u[k] + x
  <2>1. u[k + 4] = 16 * u[k] + x \div 16 /\ u[k] \in Nat
    BY <1>4, <1>5 DEF TakesByte
  <2>2. /\ u[k + 4] \in Nat /\ u[k + 5] \in Nat /\ u[k + 6] \in Nat /\ u[k + 7] \in Nat
        /\ u[k + 8] \in Nat
    BY <1>5 DEF TakesByte
  <2> QED BY <1>1, <1>2, <1>5, <2>1, <2>2 DEF TakesByte
<1> QED BY <1>3, <1>4, <1>5 DEF AfterThree, AfterFour, AfterByte

\* The bits of the syncword.
LEMMA SyncwordNumber ==
  ASSUME NEW s \in Seq(Byte), NEW o \in Nat, o + 7 <= Len(s)
  PROVE  Number(s, 8 * o, 12) = 16 * s[o + 1] + s[o + 2] \div 16
<1> DEFINE x == s[o + 1]
           y == s[o + 2]
           i == 8 * o
<1>1. /\ x \in Nat /\ x <= 255
      /\ Bit(s, i + 1 - 1) = (x \div 128) % 2 /\ Bit(s, i + 2 - 1) = (x \div 64) % 2
      /\ Bit(s, i + 3 - 1) = (x \div 32) % 2  /\ Bit(s, i + 4 - 1) = (x \div 16) % 2
      /\ Bit(s, i + 5 - 1) = (x \div 8) % 2   /\ Bit(s, i + 6 - 1) = (x \div 4) % 2
      /\ Bit(s, i + 7 - 1) = (x \div 2) % 2   /\ Bit(s, i + 8 - 1) = x % 2
  <2>1. /\ i + 1 - 1 = 8 * o     /\ i + 2 - 1 = 8 * o + 1 /\ i + 3 - 1 = 8 * o + 2
        /\ i + 4 - 1 = 8 * o + 3 /\ i + 5 - 1 = 8 * o + 4 /\ i + 6 - 1 = 8 * o + 5
        /\ i + 7 - 1 = 8 * o + 6 /\ i + 8 - 1 = 8 * o + 7 /\ o < Len(s)
    OBVIOUS
  <2> QED BY <2>1, BitsOfByte
<1>2. /\ y \in Nat /\ y <= 255
      /\ Bit(s, i + 9 - 1) = (y \div 128) % 2 /\ Bit(s, i + 10 - 1) = (y \div 64) % 2
      /\ Bit(s, i + 11 - 1) = (y \div 32) % 2 /\ Bit(s, i + 12 - 1) = (y \div 16) % 2
  <2> DEFINE p == o + 1
  <2>1. /\ i + 9 - 1 = 8 * p /\ i + 10 - 1 = 8 * p + 1 /\ i + 11 - 1 = 8 * p + 2
        /\ i + 12 - 1 = 8 * p + 3 /\ p \in Nat /\ p < Len(s) /\ p + 1 = o + 2
    OBVIOUS
  <2>2. s[p + 1] = y
    BY <2>1
  <2> HIDE DEF p, i, y
  <2>3. /\ y \in Nat /\ y <= 255
        /\ Bit(s, 8 * p) = (y \div 128) % 2    /\ Bit(s, 8 * p + 1) = (y \div 64) % 2
        /\ Bit(s, 8 * p + 2) = (y \div 32) % 2 /\ Bit(s, 8 * p + 3) = (y \div 16) % 2
    BY <2>1, <2>2, BitsOfByte
  <2> QED BY <2>1, <2>3, Zenon
<1> HIDE DEF x, y
<1>3. \A k \in 1..12 : Bit(s, i + k - 1) \in {0, 1}
  <2>1. ASSUME NEW k \in 1..12
        PROVE  \/ k = 1 \/ k = 2 \/ k = 3 \/ k = 4 \/ k = 5 \/ k = 6 \/ k = 7 \/ k = 8
               \/ k = 9 \/ k = 10 \/ k = 11 \/ k = 12
    OBVIOUS
  <2>2. /\ (x \div 128) % 2 \in {0, 1} /\ (x \div 64) % 2 \in {0, 1}
        /\ (x \div 32) % 2 \in {0, 1}  /\ (x \div 16) % 2 \in {0, 1}
        /\ (x \div 8) % 2 \in {0, 1}   /\ (x \div 4) % 2 \in {0, 1}
        /\ (x \div 2) % 2 \in {0, 1}   /\ x % 2 \in {0, 1}
    BY <1>1, BitsAreBits
  <2>3. /\ (y \div 128) % 2 \in {0, 1} /\ (y \div 64) % 2 \in {0, 1}
        /\ (y \div 32) % 2 \in {0, 1}  /\ (y \div 16) % 2 \in {0, 1}
    BY <1>2, BitsAreBits
  <2> HIDE DEF i
  <2>4. /\ Bit(s, i + 1 - 1) \in {0, 1}  /\ Bit(s, i + 2 - 1) \in {0, 1}
        /\ Bit(s, i + 3 - 1) \in {0, 1}  /\ Bit(s, i + 4 - 1) \in {0, 1}
        /\ Bit(s, i + 5 - 1) \in {0, 1}  /\ Bit(s, i + 6 - 1) \in {0, 1}
        /\ Bit(s, i + 7 - 1) \in {0, 1}  /\ Bit(s, i + 8 - 1) \in {0, 1}
        /\ Bit(s, i + 9 - 1) \in {0, 1}  /\ Bit(s, i + 10 - 1) \in {0, 1}
        /\ Bit(s, i + 11 - 1) \in {0, 1} /\ Bit(s, i + 12 - 1) \in {0, 1}
    BY <1>1, <1>2, <2>2, <2>3, ZenonT(60)
  <2> QED BY <2>1, <2>4, Zenon
<1>4. i \in Nat /\ 12 \in Nat /\ 0 \in Nat /\ 8 \in Nat
  OBVIOUS
<1> HIDE DEF i
<1>5. PICK u \in [0..12 -> Nat] :
        /\ \A n \in 0..12 : Number(s, i, n) = u[n]
        /\ u[0] = 0
        /\ \A k \in 1..12 : u[k] = 2 * u[k - 1] + Bit(s, i + k - 1)
  BY <1>3, <1>4, NumberBits
<1>6. /\ u[1] = 2 * u[0] + ((x \div 128) % 2) /\ u[2] = 2 * u[1] + ((x \div 64) % 2)
      /\ u[3] = 2 * u[2] + ((x \div 32) % 2)  /\ u[4] = 2 * u[3] + ((x \div 16) % 2)
      /\ u[5] = 2 * u[4] + ((x \div 8) % 2)   /\ u[6] = 2 * u[5] + ((x \div 4) % 2)
      /\ u[7] = 2 * u[6] + ((x \div 2) % 2)   /\ u[8] = 2 * u[7] + (x % 2)
  BY <1>1, <1>5
<1>7. /\ u[9] = 2 * u[8] + ((y \div 128) % 2)   /\ u[10] = 2 * u[9] + ((y \div 64) % 2)
      /\ u[11] = 2 * u[10] + ((y \div 32) % 2)  /\ u[12] = 2 * u[11] + ((y \div 16) % 2)
  BY <1>2, <1>5
<1>8. \A j \in 0..12 : u[j] \in Nat
  BY <1>5
<1>9. u[8] = x
  <2>1. TakesByte(u, 0, x)
    BY <1>6, <1>8 DEF TakesByte, TakesFour, TakesThree
  <2>2. AfterByte(u, 0, x)
    BY <1>1, <1>4, <2>1, TakenBits, Zenon
  <2> QED BY <1>1, <1>5, <2>2 DEF AfterByte
<1>10. u[12] = 16 * x + y \div 16
  <2>1. TakesFour(u, 8, y)
    BY <1>7, <1>8 DEF TakesFour, TakesThree
  <2>2. AfterFour(u, 8, y)
    BY <1>2, <1>4, <2>1, TakenBits, Zenon
  <2> QED BY <1>9, <2>2 DEF AfterFour
<1>11. Number(s, i, 12) = u[12]
  BY <1>5
<1> QED BY <1>10, <1>11 DEF x, y, i

\* The two low bits of a number.
LEMMA LowTwoBits ==
  ASSUME NEW x \in Nat
  PROVE  x % 4 = 2 * ((x \div 2) % 2) + (x % 2)
<1>1. /\ x = 2 * (x \div 2) + (x % 2) /\ x \div 2 = 2 * (x \div 4) + ((x \div 2) % 2)
      /\ x = 4 * (x \div 4) + (x % 4)
  OBVIOUS
<1>2. x \div 2 \in Nat /\ x \div 4 \in Nat
  OBVIOUS
<1> QED BY <1>1, <1>2

\* The bits of the length of a frame, over three bytes.
LEMMA LengthNumber ==
  ASSUME NEW s \in Seq(Byte), NEW o \in Nat, o + 7 <= Len(s)
  PROVE  Number(s, 8 * o + 30, 13) = (s[o + 4] % 4) * 2048 + s[o + 5] * 8 + s[o + 6] \div 32
<1> DEFINE x == s[o + 4]
           y == s[o + 5]
           z == s[o + 6]
           i == 8 * o + 30
<1>1. /\ x \in Nat /\ x <= 255
      /\ Bit(s, i + 1 - 1) = (x \div 2) % 2 /\ Bit(s, i + 2 - 1) = x % 2
  <2> DEFINE p == o + 3
  <2>1. /\ i + 1 - 1 = 8 * p + 6 /\ i + 2 - 1 = 8 * p + 7
        /\ p \in Nat /\ p < Len(s) /\ p + 1 = o + 4
    OBVIOUS
  <2>2. s[p + 1] = x
    BY <2>1
  <2> HIDE DEF p, i, x
  <2>3. /\ x \in Nat /\ x <= 255
        /\ Bit(s, 8 * p + 6) = (x \div 2) % 2 /\ Bit(s, 8 * p + 7) = x % 2
    BY <2>1, <2>2, BitsOfByte
  <2> QED BY <2>1, <2>3, Zenon
<1>2. /\ y \in Nat /\ y <= 255
      /\ Bit(s, i + 3 - 1) = (y \div 128) % 2 /\ Bit(s, i + 4 - 1) = (y \div 64) % 2
      /\ Bit(s, i + 5 - 1) = (y \div 32) % 2  /\ Bit(s, i + 6 - 1) = (y \div 16) % 2
      /\ Bit(s, i + 7 - 1) = (y \div 8) % 2   /\ Bit(s, i + 8 - 1) = (y \div 4) % 2
      /\ Bit(s, i + 9 - 1) = (y \div 2) % 2   /\ Bit(s, i + 10 - 1) = y % 2
  <2> DEFINE p == o + 4
  <2>1. /\ i + 3 - 1 = 8 * p     /\ i + 4 - 1 = 8 * p + 1 /\ i + 5 - 1 = 8 * p + 2
        /\ i + 6 - 1 = 8 * p + 3 /\ i + 7 - 1 = 8 * p + 4 /\ i + 8 - 1 = 8 * p + 5
        /\ i + 9 - 1 = 8 * p + 6 /\ i + 10 - 1 = 8 * p + 7
        /\ p \in Nat /\ p < Len(s) /\ p + 1 = o + 5
    OBVIOUS
  <2>2. s[p + 1] = y
    BY <2>1
  <2> HIDE DEF p, i, y
  <2>3. /\ y \in Nat /\ y <= 255
        /\ Bit(s, 8 * p) = (y \div 128) % 2    /\ Bit(s, 8 * p + 1) = (y \div 64) % 2
        /\ Bit(s, 8 * p + 2) = (y \div 32) % 2 /\ Bit(s, 8 * p + 3) = (y \div 16) % 2
        /\ Bit(s, 8 * p + 4) = (y \div 8) % 2  /\ Bit(s, 8 * p + 5) = (y \div 4) % 2
        /\ Bit(s, 8 * p + 6) = (y \div 2) % 2  /\ Bit(s, 8 * p + 7) = y % 2
    BY <2>1, <2>2, BitsOfByte
  <2> QED BY <2>1, <2>3, Zenon
<1>3. /\ z \in Nat /\ z <= 255
      /\ Bit(s, i + 11 - 1) = (z \div 128) % 2 /\ Bit(s, i + 12 - 1) = (z \div 64) % 2
      /\ Bit(s, i + 13 - 1) = (z \div 32) % 2
  <2> DEFINE p == o + 5
  <2>1. /\ i + 11 - 1 = 8 * p /\ i + 12 - 1 = 8 * p + 1 /\ i + 13 - 1 = 8 * p + 2
        /\ p \in Nat /\ p < Len(s) /\ p + 1 = o + 6
    OBVIOUS
  <2>2. s[p + 1] = z
    BY <2>1
  <2> HIDE DEF p, i, z
  <2>3. /\ z \in Nat /\ z <= 255
        /\ Bit(s, 8 * p) = (z \div 128) % 2 /\ Bit(s, 8 * p + 1) = (z \div 64) % 2
        /\ Bit(s, 8 * p + 2) = (z \div 32) % 2
    BY <2>1, <2>2, BitsOfByte
  <2> QED BY <2>1, <2>3, Zenon
<1>4. /\ i \in Nat /\ 13 \in Nat /\ 0 \in Nat /\ 2 \in Nat /\ 10 \in Nat
  OBVIOUS
<1> HIDE DEF x, y, z, i
<1>5. \A k \in 1..13 : Bit(s, i + k - 1) \in {0, 1}
  <2>1. ASSUME NEW k \in 1..13
        PROVE  \/ k = 1 \/ k = 2 \/ k = 3 \/ k = 4 \/ k = 5 \/ k = 6 \/ k = 7 \/ k = 8
               \/ k = 9 \/ k = 10 \/ k = 11 \/ k = 12 \/ k = 13
    OBVIOUS
  <2>2. (x \div 2) % 2 \in {0, 1} /\ x % 2 \in {0, 1}
    BY <1>1, BitsAreBits
  <2>3. /\ (y \div 128) % 2 \in {0, 1} /\ (y \div 64) % 2 \in {0, 1}
        /\ (y \div 32) % 2 \in {0, 1}  /\ (y \div 16) % 2 \in {0, 1}
        /\ (y \div 8) % 2 \in {0, 1}   /\ (y \div 4) % 2 \in {0, 1}
        /\ (y \div 2) % 2 \in {0, 1}   /\ y % 2 \in {0, 1}
    BY <1>2, BitsAreBits
  <2>4. /\ (z \div 128) % 2 \in {0, 1} /\ (z \div 64) % 2 \in {0, 1}
        /\ (z \div 32) % 2 \in {0, 1}
    BY <1>3, BitsAreBits
  <2>5. Bit(s, i + 1 - 1) \in {0, 1} /\ Bit(s, i + 2 - 1) \in {0, 1}
    BY <1>1, <2>2, Zenon
  <2>6. /\ Bit(s, i + 3 - 1) \in {0, 1} /\ Bit(s, i + 4 - 1) \in {0, 1}
        /\ Bit(s, i + 5 - 1) \in {0, 1} /\ Bit(s, i + 6 - 1) \in {0, 1}
        /\ Bit(s, i + 7 - 1) \in {0, 1} /\ Bit(s, i + 8 - 1) \in {0, 1}
        /\ Bit(s, i + 9 - 1) \in {0, 1} /\ Bit(s, i + 10 - 1) \in {0, 1}
    BY <1>2, <2>3, Zenon
  <2>7. /\ Bit(s, i + 11 - 1) \in {0, 1} /\ Bit(s, i + 12 - 1) \in {0, 1}
        /\ Bit(s, i + 13 - 1) \in {0, 1}
    BY <1>3, <2>4, Zenon
  <2> QED BY <2>1, <2>5, <2>6, <2>7, Zenon
<1>6. PICK u \in [0..13 -> Nat] :
        /\ \A n \in 0..13 : Number(s, i, n) = u[n]
        /\ u[0] = 0
        /\ \A k \in 1..13 : u[k] = 2 * u[k - 1] + Bit(s, i + k - 1)
  BY <1>4, <1>5, NumberBits
<1>7. \A j \in 0..13 : u[j] \in Nat
  BY <1>6
<1>8. u[2] = x % 4
  <2>1. u[1] = 2 * u[0] + ((x \div 2) % 2) /\ u[2] = 2 * u[1] + (x % 2)
    BY <1>1, <1>6
  <2>2. x % 4 = 2 * ((x \div 2) % 2) + (x % 2)
    BY <1>1, LowTwoBits
  <2> QED BY <1>1, <1>6, <2>1, <2>2
<1>9. u[10] = 256 * u[2] + y
  <2>1. /\ u[3] = 2 * u[2] + ((y \div 128) % 2) /\ u[4] = 2 * u[3] + ((y \div 64) % 2)
        /\ u[5] = 2 * u[4] + ((y \div 32) % 2)  /\ u[6] = 2 * u[5] + ((y \div 16) % 2)
        /\ u[7] = 2 * u[6] + ((y \div 8) % 2)   /\ u[8] = 2 * u[7] + ((y \div 4) % 2)
        /\ u[9] = 2 * u[8] + ((y \div 2) % 2)   /\ u[10] = 2 * u[9] + (y % 2)
    BY <1>2, <1>6
  <2>2. TakesByte(u, 2, y)
    BY <1>7, <2>1 DEF TakesByte, TakesFour, TakesThree
  <2>3. AfterByte(u, 2, y)
    BY <1>2, <1>4, <2>2, TakenBits, Zenon
  <2> QED BY <2>3 DEF AfterByte
<1>10. u[13] = 8 * u[10] + z \div 32
  <2>1. /\ u[11] = 2 * u[10] + ((z \div 128) % 2) /\ u[12] = 2 * u[11] + ((z \div 64) % 2)
        /\ u[13] = 2 * u[12] + ((z \div 32) % 2)
    BY <1>3, <1>6
  <2>2. TakesThree(u, 10, z)
    BY <1>7, <2>1 DEF TakesThree
  <2>3. AfterThree(u, 10, z)
    BY <1>3, <1>4, <2>2, TakenBits, Zenon
  <2> QED BY <2>3 DEF AfterThree
<1>11. u[13] = (x % 4) * 2048 + y * 8 + z \div 32
  BY <1>1, <1>2, <1>3, <1>7, <1>8, <1>9, <1>10
<1>12. Number(s, i, 13) = u[13]
  BY <1>6
<1> QED BY <1>11, <1>12 DEF x, y, z, i

\* The numbers and sequences of a well-typed state.
LEMMA AudioFacts ==
  ASSUME AudioTypeOK
  PROVE  /\ aac \in Seq(Byte) /\ Len(aac) \in Nat
         /\ aac_pos \in Nat /\ aac_pos <= Len(aac)
         /\ HeaderBytes \in Nat /\ HeaderBytes <= 7
         /\ Payload \in Nat /\ aac_pos + HeaderBytes + Payload = Len(aac)
         /\ Len(aac) - aac_pos >= 7 => HeaderBytes = 7
         /\ HeaderBytes = 0 <=> aac_pos = Len(aac)
         /\ frames \in Seq(Seq(Byte)) /\ Len(frames) \in Nat
         /\ Es \in [1..7 -> Byte]
         /\ Header \in Seq(Byte) /\ Len(Header) = 7
         /\ Header = [k \in 1..7 |-> IF k <= HeaderBytes THEN aac[aac_pos + k] ELSE Es[k]]
<1>1. /\ aac \in Seq(Byte) /\ Len(aac) \in Nat
      /\ aac_pos \in Nat /\ aac_pos <= Len(aac)
      /\ frames \in Seq(Seq(Byte)) /\ Es \in [1..7 -> Byte]
  BY DEF AudioTypeOK, Byte, ADTS_HEADER_LENGTH
<1>2. /\ HeaderBytes = IF Len(aac) - aac_pos < 7 THEN Len(aac) - aac_pos ELSE 7
      /\ Payload = Len(aac) - aac_pos - HeaderBytes
      /\ Header = [k \in 1..7 |-> IF k <= HeaderBytes THEN aac[aac_pos + k] ELSE Es[k]]
  BY DEF HeaderBytes, Payload, Header, ADTS_HEADER_LENGTH
<1>3. /\ HeaderBytes \in Nat /\ HeaderBytes <= 7
      /\ Payload \in Nat /\ aac_pos + HeaderBytes + Payload = Len(aac)
      /\ Len(aac) - aac_pos >= 7 => HeaderBytes = 7
      /\ HeaderBytes = 0 <=> aac_pos = Len(aac)
  BY <1>1, <1>2
<1>4. ASSUME NEW k \in 1..7
      PROVE  (IF k <= HeaderBytes THEN aac[aac_pos + k] ELSE Es[k]) \in Byte
  <2>1. CASE k <= HeaderBytes
    <3>1. aac_pos + k \in 1..Len(aac)
      BY <1>1, <1>3, <2>1
    <3> QED BY <1>1, <2>1, <3>1, ElementOfSeq
  <2>2. CASE ~(k <= HeaderBytes)
    BY <1>1, <2>2
  <2> QED BY <2>1, <2>2
<1>5. Header \in [1..7 -> Byte]
  BY <1>2, <1>4
<1>6. Header \in Seq(Byte) /\ Len(Header) = 7
  <2> DEFINE n == 7
  <2>1. n \in Nat /\ Header \in [1..n -> Byte]
    BY <1>5
  <2> HIDE DEF n
  <2>2. Header \in Seq(Byte) /\ Len(Header) = n
    BY <2>1
  <2> QED BY <2>2 DEF n
<1> QED BY <1>1, <1>2, <1>3, <1>6

\* A header that is all there is the one at the file position.
LEMMA HeaderNumbers ==
  ASSUME AudioTypeOK, Len(aac) - aac_pos >= 7
  PROVE  /\ Header = [k \in 1..7 |-> aac[aac_pos + k]]
         /\ Synced(Header) <=> Number(aac, 8 * aac_pos, 12) = 4095
         /\ aac_frame_length(Header) = Number(aac, 8 * aac_pos + 30, 13)
         /\ Number(aac, 8 * aac_pos + 30, 13) \in Nat
<1>1. /\ aac \in Seq(Byte) /\ aac_pos \in Nat /\ aac_pos + 7 <= Len(aac)
      /\ HeaderBytes = 7
      /\ Header = [k \in 1..7 |-> IF k <= HeaderBytes THEN aac[aac_pos + k] ELSE Es[k]]
  BY AudioFacts
<1>2. Header = [k \in 1..7 |-> aac[aac_pos + k]]
  <2>1. \A k \in 1..7 : k <= HeaderBytes
    BY <1>1
  <2> QED BY <1>1, <2>1
<1>3. \A k \in 1..6 : aac[aac_pos + k] \in Nat /\ aac[aac_pos + k] <= 255
  <2>1. ASSUME NEW k \in 1..6 PROVE aac[aac_pos + k] \in Byte
    <3>1. aac_pos + k \in 1..Len(aac)
      BY <1>1
    <3> QED BY <1>1, <3>1, ElementOfSeq
  <2> QED BY <2>1, ByteNat
<1>4. Number(aac, 8 * aac_pos, 12) = 16 * aac[aac_pos + 1] + aac[aac_pos + 2] \div 16
  BY <1>1, SyncwordNumber
<1>5. Number(aac, 8 * aac_pos + 30, 13) =
        (aac[aac_pos + 4] % 4) * 2048 + aac[aac_pos + 5] * 8 + aac[aac_pos + 6] \div 32
  BY <1>1, LengthNumber
<1>6. /\ Header[1] = aac[aac_pos + 1] /\ Header[2] = aac[aac_pos + 2]
      /\ Header[4] = aac[aac_pos + 4] /\ Header[5] = aac[aac_pos + 5]
      /\ Header[6] = aac[aac_pos + 6]
  BY <1>2
<1> DEFINE a == aac[aac_pos + 1]
           b == aac[aac_pos + 2]
<1>7. a = 255 /\ b \div 16 = 15 <=> 16 * a + b \div 16 = 4095
  <2>1. a \in Nat /\ a <= 255 /\ b \in Nat /\ b <= 255
    BY <1>3
  <2> HIDE DEF a, b
  <2> QED BY <2>1
<1>8. Synced(Header) <=> Number(aac, 8 * aac_pos, 12) = 4095
  BY <1>4, <1>6, <1>7 DEF Synced
<1>9. aac_frame_length(Header) = Number(aac, 8 * aac_pos + 30, 13)
  BY <1>5, <1>6 DEF aac_frame_length
<1>10. Number(aac, 8 * aac_pos + 30, 13) \in Nat
  <2> DEFINE x == aac[aac_pos + 4]
             y == aac[aac_pos + 5]
             z == aac[aac_pos + 6]
  <2>1. x \in Nat /\ y \in Nat /\ z \in Nat
    BY <1>3
  <2>2. Number(aac, 8 * aac_pos + 30, 13) = (x % 4) * 2048 + y * 8 + z \div 32
    BY <1>5
  <2> HIDE DEF x, y, z
  <2> QED BY <2>1, <2>2
<1> QED BY <1>2, <1>8, <1>9, <1>10

\* The frames returned are the first of those that the file consists of.
AudioOrdered ==
  /\ aac_pos \in AdtsCuts(aac)
  /\ Rank(AdtsCuts(aac) \ {Len(aac)}, aac_pos) = Len(frames)
  /\ \A k \in 1..Len(frames) : frames[k] = AdtsFrames(aac)[k]
  /\ audio_pc = "idle"

AudioInv == AudioTypeOK /\ (WholeAac => AudioOrdered)

\* The function that AdtsEnd is on the offsets of a file.
EndAt(f) == [o \in 0..Len(f) |-> AdtsEnd(f, o)]

\* The end of a frame is in the file and not before its beginning.
LEMMA EndAtType ==
  ASSUME NEW f \in Seq(Byte)
  PROVE  /\ EndAt(f) \in [0..Len(f) -> 0..Len(f)]
         /\ \A o \in 0..Len(f) : EndAt(f)[o] = AdtsEnd(f, o) /\ EndAt(f)[o] >= o
<1>1. Len(f) \in Nat
  OBVIOUS
<1>2. ASSUME NEW o \in 0..Len(f) PROVE AdtsEnd(f, o) \in 0..Len(f) /\ AdtsEnd(f, o) >= o
  <2> DEFINE n == Number(f, 8 * o + 30, 13)
             good == /\ Len(f) - o >= 7 /\ Number(f, 8 * o, 12) = 4095
                     /\ n \in 7..(Len(f) - o)
  <2>1. AdtsEnd(f, o) = IF good THEN o + n ELSE o
    BY DEF AdtsEnd
  <2>2. good => n \in 7..(Len(f) - o)
    OBVIOUS
  <2> HIDE DEF n, good
  <2> QED BY <1>1, <2>1, <2>2
<1> QED BY <1>2 DEF EndAt

\* The offsets at which a file is cut are a chain of ends of frames.
LEMMA CutsChain ==
  ASSUME NEW f \in Seq(Byte)
  PROVE  Chain(AdtsCuts(f), 0, Len(f), EndAt(f))
<1> DEFINE N == Len(f)
           E == EndAt(f)
           Is(c) == c = [o \in 0..Len(f) |->
                           {o} \cup (IF AdtsEnd(f, o) = o THEN {} ELSE c[AdtsEnd(f, o)])]
           g == CHOOSE c : Is(c)
<1>1. N \in Nat /\ E \in [0..N -> 0..N] /\ \A o \in 0..N : E[o] = AdtsEnd(f, o) /\ E[o] >= o
  BY EndAtType
<1> HIDE DEF E
<1>2. ASSUME NEW c PROVE Is(c) <=> Chased(c, N, E)
  <2>1. [o \in 0..N |-> {o} \cup (IF AdtsEnd(f, o) = o THEN {} ELSE c[AdtsEnd(f, o)])]
          = [o \in 0..N |-> {o} \cup (IF E[o] = o THEN {} ELSE c[E[o]])]
    BY <1>1
  <2> QED BY <2>1 DEF Chased
<1> HIDE DEF Is, N
<1>3. PICK c : Is(c)
  BY <1>1, <1>2, ChasedExists
<1>4. Is(g)
  BY <1>3
<1> HIDE DEF g
<1>5. Chased(g, N, E)
  BY <1>2, <1>4
<1>6. Chain(g[0], 0, N, E)
  <2>1. 0 \in 0..N
    BY <1>1
  <2> QED BY <1>1, <1>5, <2>1, ChasedChain
<1>7. AdtsCuts(f) = g[0]
  BY DEF AdtsCuts, g, Is
<1> QED BY <1>6, <1>7 DEF N, E

\* What begins at the file position of a file of whole frames is one of them.
LEMMA WholeFrame ==
  ASSUME AudioTypeOK, WholeAac, AudioOrdered, aac_pos # Len(aac), NEW n,
         n = Number(aac, 8 * aac_pos + 30, 13)
  PROVE  /\ n \in Nat /\ 7 <= n /\ aac_pos + n <= Len(aac)
         /\ FrameLengths = {n} /\ HeaderBytes = 7 /\ PayloadLength(n) \in 0..Payload
         /\ Synced(Header) /\ Header = [k \in 1..7 |-> aac[aac_pos + k]]
         /\ aac_pos + n \in AdtsCuts(aac)
         /\ \A b \in AdtsCuts(aac) : b > aac_pos => aac_pos + n <= b
<1> DEFINE C == AdtsCuts(aac)
           E == EndAt(aac)
           N == Len(aac)
<1>1. /\ aac \in Seq(Byte) /\ N \in Nat /\ aac_pos \in Nat /\ aac_pos < N
      /\ aac_pos + HeaderBytes + Payload = N
      /\ Len(aac) - aac_pos >= 7 => HeaderBytes = 7
  BY AudioFacts
<1>2. /\ C \in SUBSET (0..N) /\ N \in C /\ aac_pos \in C
      /\ \/ \A q \in C : q <= aac_pos
         \/ E[aac_pos] \in C /\ E[aac_pos] > aac_pos /\ \A q \in C : q > aac_pos => E[aac_pos] <= q
  BY <1>1, CutsChain DEF WholeAac, AudioOrdered, Chain
<1> DEFINE e == E[aac_pos]
<1>3. e \in C /\ e > aac_pos /\ \A q \in C : q > aac_pos => e <= q
  <2>1. ~(N <= aac_pos)
    BY <1>1
  <2> HIDE DEF N, C, E
  <2> QED BY <1>2, <2>1
<1>4. e = AdtsEnd(aac, aac_pos) /\ e <= N /\ e \in Nat
  BY <1>1, <1>2, <1>3, EndAtType
<1> HIDE DEF e
<1>5. /\ N - aac_pos >= 7 /\ Number(aac, 8 * aac_pos, 12) = 4095
      /\ n \in 7..(N - aac_pos) /\ e = aac_pos + n
  <2>1. e # aac_pos
    BY <1>1, <1>3, <1>4
  <2> QED BY <1>4, <2>1 DEF AdtsEnd
<1>6. n \in Nat /\ 7 <= n /\ aac_pos + n <= N
  BY <1>1, <1>5
<1>7. /\ Header = [k \in 1..7 |-> aac[aac_pos + k]]
      /\ Synced(Header) /\ aac_frame_length(Header) = n
  BY <1>5, HeaderNumbers
<1>8. FrameLengths = {n}
  BY <1>7 DEF FrameLengths
<1>9. HeaderBytes = 7 /\ PayloadLength(n) \in 0..Payload
  <2>1. HeaderBytes = 7 /\ PayloadLength(n) = n - 7
    BY <1>1, <1>5 DEF PayloadLength, ADTS_HEADER_LENGTH
  <2>2. Payload = N - aac_pos - 7
    BY <2>1 DEF Payload
  <2> QED BY <1>1, <1>6, <2>1, <2>2
<1> QED BY <1>3, <1>5, <1>6, <1>7, <1>8, <1>9

\* The bytes of two sequences put together.
LEMMA JoinFacts ==
  ASSUME NEW h \in Seq(Byte), NEW s \in Seq(Byte)
  PROVE  /\ h \o s \in Seq(Byte) /\ Len(h \o s) = Len(h) + Len(s)
         /\ \A k \in 1..(Len(h) + Len(s)) :
              (h \o s)[k] = IF k <= Len(h) THEN h[k] ELSE s[k - Len(h)]
BY ConcatProperties

\* A header and the rest of its frame are a piece of the file.
LEMMA FrameBytes ==
  ASSUME NEW f \in Seq(Byte), NEW p \in Nat, NEW n \in Nat, 7 <= n, p + n <= Len(f), NEW h,
         h = [k \in 1..7 |-> f[p + k]]
  PROVE  h \o SubSeq(f, p + 7 + 1, p + 7 + (n - 7)) = SubSeq(f, p + 1, p + n)
<1> DEFINE q == p + 7
           m == n - 7
           c == 7
           s == SubSeq(f, q + 1, q + m)
           t == SubSeq(f, p + 1, p + n)
           g == h \o s
<1>1. q \in Nat /\ m \in Nat /\ q + m = p + n /\ q <= q + m /\ p <= p + n /\ p + n \in Nat
      /\ c \in Nat /\ c + m = n
  OBVIOUS
<1>2. /\ s \in Seq(Byte) /\ Len(s) = m /\ \A k \in 1..m : s[k] = f[q + k]
  <2>1. q + m <= Len(f) /\ (q + m) - q = m
    BY <1>1
  <2> HIDE DEF q, m
  <2> QED BY <1>1, <2>1, PartFacts
<1>3. /\ t \in Seq(Byte) /\ Len(t) = n /\ \A k \in 1..n : t[k] = f[p + k]
  <2>1. (p + n) - p = n
    OBVIOUS
  <2> QED BY <1>1, <2>1, PartFacts
<1>4. h \in Seq(Byte) /\ Len(h) = c /\ \A k \in 1..c : h[k] = f[p + k]
  <2>1. ASSUME NEW k \in 1..7 PROVE f[p + k] \in Byte
    <3>1. p + k \in 1..Len(f)
      OBVIOUS
    <3> QED BY <3>1, ElementOfSeq
  <2>2. h \in [1..c -> Byte]
    BY <2>1
  <2>3. \A k \in 1..c : h[k] = f[p + k]
    OBVIOUS
  <2> HIDE DEF c
  <2> QED BY <1>1, <2>2, <2>3
<1>5. q = p + c
  OBVIOUS
<1> HIDE DEF s, t, q, m, c
<1>6. /\ g \in Seq(Byte) /\ Len(g) = c + m
      /\ \A k \in 1..(c + m) : g[k] = IF k <= c THEN h[k] ELSE s[k - c]
  BY <1>2, <1>4, JoinFacts
<1>7. \A k \in 1..n : g[k] = f[p + k]
  <2>1. ASSUME NEW k \in 1..n PROVE g[k] = f[p + k]
    <3>1. k \in 1..(c + m)
      BY <1>1
    <3>2. CASE k <= c
      <4>1. k \in 1..c
        BY <3>2
      <4> QED BY <1>4, <1>6, <3>1, <3>2, <4>1
    <3>3. CASE ~(k <= c)
      <4>1. k - c \in 1..m /\ q + (k - c) = p + k
        BY <1>1, <1>5, <3>1, <3>3
      <4> QED BY <1>2, <1>6, <3>1, <3>3, <4>1
    <3> QED BY <3>2, <3>3
  <2> QED BY <2>1
<1>8. g = t
  <2> HIDE DEF g
  <2> QED BY <1>1, <1>3, <1>6, <1>7, SeqEqual
<1> QED BY <1>8 DEF g, t, s, q, m

\* The offsets of the frames of a file, the end of the last one left out.
FrameStarts == AdtsCuts(aac) \ {Len(aac)}

\* They are finitely many numbers.
LEMMA FrameStartsType ==
  ASSUME AudioTypeOK
  PROVE  /\ AdtsCuts(aac) \in SUBSET (0..Len(aac)) /\ 0 \in AdtsCuts(aac)
         /\ FrameStarts \in SUBSET Nat /\ IsFiniteSet(FrameStarts)
         /\ Cardinality(FrameStarts) \in Nat
         /\ \A b \in FrameStarts : b < Len(aac)
<1> DEFINE N == Len(aac)
<1>1. N \in Nat /\ AdtsCuts(aac) \in SUBSET (0..N) /\ 0 \in AdtsCuts(aac)
  BY AudioFacts, CutsChain DEF Chain
<1> HIDE DEF N
<1>2. IsFiniteSet(0..N)
  <2>1. 0 \in Int /\ N \in Int
    BY <1>1
  <2> QED BY <2>1, FS_Interval
<1>3. FrameStarts \subseteq 0..N
  BY <1>1 DEF FrameStarts
<1>4. IsFiniteSet(FrameStarts)
  BY <1>2, <1>3, FS_Subset
<1>5. Cardinality(FrameStarts) \in Nat
  BY <1>4, FS_CardinalityType
<1>6. \A b \in FrameStarts : b < N
  <2>1. \A b \in FrameStarts : b # N /\ b \in 0..N
    BY <1>3 DEF FrameStarts, N
  <2> QED BY <1>1, <2>1
<1> QED BY <1>1, <1>3, <1>4, <1>5, <1>6 DEF N

\* The invariant holds before the first call.
LEMMA AudioInvInit == AudioInit => AudioInv
<1> SUFFICES ASSUME AudioInit PROVE AudioInv
  OBVIOUS
<1>1. /\ aac \in Seq(Byte) /\ aac_pos = 0 /\ frames = <<>> /\ Len(frames) = 0
      /\ decode_audio_done = FALSE /\ audio_pc = "idle"
      /\ Es = [k \in 1..ADTS_HEADER_LENGTH |-> 0]
  BY AacFilesAssumption DEF AudioInit, Byte
<1>2. AudioTypeOK
  <2>1. aac_pos \in 0..Len(aac) /\ frames \in Seq(Seq(0..255))
    BY <1>1
  <2>2. Es \in [1..ADTS_HEADER_LENGTH -> 0..255]
    BY <1>1
  <2>3. aac \in Seq(0..255) /\ decode_audio_done \in BOOLEAN /\ audio_pc \in {"idle", "overrun"}
    BY <1>1 DEF Byte
  <2> QED BY <2>1, <2>2, <2>3 DEF AudioTypeOK
<1>3. AudioOrdered
  <2>1. 0 \in AdtsCuts(aac) /\ FrameStarts \in SUBSET Nat /\ IsFiniteSet(FrameStarts)
    BY <1>2, FrameStartsType
  <2>2. \A b \in FrameStarts : b >= 0
    BY <2>1
  <2>3. Rank(FrameStarts, 0) = 0
    BY <2>1, <2>2, RankType
  <2> QED BY <1>1, <2>1, <2>3 DEF AudioOrdered, FrameStarts
<1> QED BY <1>2, <1>3 DEF AudioInv

\* Every step keeps the state well typed.
LEMMA AudioTypeNext == AudioTypeOK /\ [AudioNext]_audioVars => AudioTypeOK'
<1> SUFFICES ASSUME AudioTypeOK, [AudioNext]_audioVars PROVE AudioTypeOK'
  OBVIOUS
<1>1. /\ aac \in Seq(Byte) /\ Len(aac) \in Nat
      /\ aac_pos \in Nat /\ aac_pos <= Len(aac)
      /\ HeaderBytes \in Nat
      /\ Payload \in Nat /\ aac_pos + HeaderBytes + Payload = Len(aac)
      /\ frames \in Seq(Seq(Byte))
      /\ Header \in Seq(Byte) /\ Len(Header) = 7
      /\ Header = [k \in 1..7 |-> IF k <= HeaderBytes THEN aac[aac_pos + k] ELSE Es[k]]
  BY AudioFacts
<1>2. Header \in [1..ADTS_HEADER_LENGTH -> 0..255]
  <2>1. \A k \in 1..7 : Header[k] \in Byte
    BY <1>1, ElementOfSeq
  <2> QED BY <1>1, <2>1 DEF Byte, ADTS_HEADER_LENGTH
<1>3. CASE AudioEnd
  <2>1. decode_audio_done' = TRUE /\ UNCHANGED <<aac, aac_pos, Es, frames, audio_pc>>
    BY <1>3 DEF AudioEnd
  <2> QED BY <2>1 DEF AudioTypeOK
<1>4. CASE AudioFrame
  <2>1. PICK len \in FrameLengths :
          /\ PayloadLength(len) \in 0..Payload
          /\ frames' = Append(frames, Header \o
               SubSeq(aac, aac_pos + HeaderBytes + 1,
                      aac_pos + HeaderBytes + PayloadLength(len)))
          /\ aac_pos' = aac_pos + HeaderBytes + PayloadLength(len)
    BY <1>4 DEF AudioFrame
  <2> DEFINE d == PayloadLength(len)
             p == aac_pos + HeaderBytes
             q == p + d
             s == SubSeq(aac, p + 1, q)
  <2>2. p \in Nat /\ q \in Nat /\ p <= q /\ q <= Len(aac)
    <3>1. d \in 0..Payload
      BY <2>1
    <3> HIDE DEF d
    <3> QED BY <1>1, <3>1, SMTT(30)
  <2>3. s \in Seq(Byte)
    <3> HIDE DEF p, q
    <3> QED BY <1>1, <2>2, PartFacts
  <2>4. frames' = Append(frames, Header \o s) /\ aac_pos' = q
    BY <2>1
  <2> HIDE DEF s, q
  <2>5. Header \o s \in Seq(Byte)
    BY <1>1, <2>3
  <2>6. frames' \in Seq(Seq(Byte))
    BY <1>1, <2>4, <2>5
  <2>7. aac_pos' \in 0..Len(aac)
    BY <1>1, <2>2, <2>4
  <2>8. Es' = Header /\ audio_pc' = "idle" /\ UNCHANGED <<aac, decode_audio_done>>
    BY <1>4 DEF AudioFrame
  <2> QED BY <1>2, <2>6, <2>7, <2>8 DEF AudioTypeOK, Byte
<1>5. CASE Truncated
  <2>1. /\ aac_pos' = Len(aac) /\ Es' = Header /\ audio_pc' = "overrun"
        /\ UNCHANGED <<aac, frames, decode_audio_done>>
    BY <1>5 DEF Truncated
  <2>2. aac_pos' \in 0..Len(aac)
    BY <1>1, <2>1
  <2> QED BY <1>2, <2>1, <2>2 DEF AudioTypeOK
<1>6. CASE MissingSyncword
  <2>1. /\ Es' = Header /\ audio_pc' = "getchar"
        /\ UNCHANGED <<aac, aac_pos, frames, decode_audio_done>>
    BY <1>6 DEF MissingSyncword
  <2> QED BY <1>2, <2>1 DEF AudioTypeOK
<1>7. CASE UNCHANGED audioVars
  BY <1>7 DEF audioVars, AudioTypeOK
<1> QED BY <1>3, <1>4, <1>5, <1>6, <1>7 DEF AudioNext

\* What a call returns is the next frame that the file consists of.
LEMMA NextFrameOfFile ==
  ASSUME AudioTypeOK, WholeAac, AudioOrdered, AudioFrame
  PROVE  /\ AudioOrdered' /\ Len(frames) < Cardinality(FrameStarts)
         /\ frames' = Append(frames, AdtsFrames(aac)[Len(frames) + 1])
<1> DEFINE n == Number(aac, 8 * aac_pos + 30, 13)
           e == aac_pos + n
           k == Len(frames)
           C == AdtsCuts(aac)
<1>1. /\ aac \in Seq(Byte) /\ Len(aac) \in Nat /\ aac_pos \in Nat
      /\ frames \in Seq(Seq(Byte)) /\ k \in Nat /\ Header \in Seq(Byte)
      /\ HeaderBytes = 0 <=> aac_pos = Len(aac)
  BY AudioFacts
<1>2. aac_pos # Len(aac) /\ audio_pc' = "idle" /\ aac' = aac
  <2>1. HeaderBytes > 0 /\ audio_pc' = "idle" /\ aac' = aac
    BY DEF AudioFrame, PastHeader
  <2> QED BY <1>1, <2>1
<1>3. /\ n \in Nat /\ 7 <= n /\ e <= Len(aac)
      /\ FrameLengths = {n} /\ HeaderBytes = 7
      /\ Header = [j \in 1..7 |-> aac[aac_pos + j]]
      /\ e \in C /\ \A b \in C : b > aac_pos => e <= b
  BY <1>2, WholeFrame
<1>4. /\ FrameStarts \in SUBSET Nat /\ IsFiniteSet(FrameStarts)
      /\ C \in SUBSET (0..Len(aac))
  BY FrameStartsType
<1>5. aac_pos \in FrameStarts /\ Rank(FrameStarts, aac_pos) = k
  BY <1>2 DEF AudioOrdered, FrameStarts
<1>6. \A b \in FrameStarts : b > aac_pos => e <= b
  BY <1>3 DEF FrameStarts
<1>7. e \in Nat /\ aac_pos < e
  BY <1>1, <1>3, SMTT(30)
<1>8. NextCut(aac, FrameStarts, aac_pos) = e
  <2>1. e = Len(aac) \/ (e \in FrameStarts /\ e <= Len(aac))
    BY <1>3 DEF FrameStarts
  <2> HIDE DEF e
  <2> QED BY <1>1, <1>4, <1>6, <1>7, <2>1, NextCutIs
<1>9. /\ k < Cardinality(FrameStarts)
      /\ AdtsFrames(aac)[k + 1] = SubSeq(aac, aac_pos + 1, e)
  <2>1. /\ Rank(FrameStarts, aac_pos) < Cardinality(FrameStarts)
        /\ CutAt(aac, FrameStarts)[Rank(FrameStarts, aac_pos) + 1]
             = SubSeq(aac, aac_pos + 1, NextCut(aac, FrameStarts, aac_pos))
    BY <1>4, <1>5, CutPiece
  <2>2. AdtsFrames(aac) = CutAt(aac, FrameStarts)
    BY DEF AdtsFrames, FrameStarts
  <2> QED BY <1>5, <1>8, <2>1, <2>2
<1>10. Rank(FrameStarts, e) = k + 1
  <2> HIDE DEF e
  <2> QED BY <1>4, <1>5, <1>6, <1>7, RankNext
<1> DEFINE r == Header \o SubSeq(aac, aac_pos + HeaderBytes + 1,
                                aac_pos + HeaderBytes + PayloadLength(n))
<1>11. frames' = Append(frames, r) /\ aac_pos' = aac_pos + HeaderBytes + PayloadLength(n)
  BY <1>3 DEF AudioFrame
<1>12. r = SubSeq(aac, aac_pos + 1, e)
  <2>1. r = Header \o SubSeq(aac, aac_pos + 7 + 1, aac_pos + 7 + (n - 7))
    BY <1>3 DEF PayloadLength, ADTS_HEADER_LENGTH
  <2> HIDE DEF n, r
  <2>2. Header \o SubSeq(aac, aac_pos + 7 + 1, aac_pos + 7 + (n - 7))
          = SubSeq(aac, aac_pos + 1, aac_pos + n)
    BY <1>1, <1>3, FrameBytes
  <2> QED BY <2>1, <2>2
<1>13. aac_pos' = e
  <2>1. aac_pos' = aac_pos + 7 + (n - 7)
    BY <1>3, <1>11 DEF PayloadLength, ADTS_HEADER_LENGTH
  <2> HIDE DEF n
  <2> QED BY <1>1, <1>3, <2>1
<1>14. frames' = Append(frames, AdtsFrames(aac)[k + 1])
  BY <1>9, <1>11, <1>12
<1>15. r \in Seq(Byte)
  <2>1. e - aac_pos \in Nat
    BY <1>1, <1>7
  <2>2. SubSeq(aac, aac_pos + 1, e) \in Seq(Byte)
    <3> HIDE DEF e
    <3> QED BY <1>1, <1>3, <1>7, PartFacts
  <2> QED BY <1>12, <2>2
<1>16. /\ Len(frames') = k + 1
       /\ \A j \in 1..(k + 1) : frames'[j] = AdtsFrames(aac)[j]
  <2> DEFINE a == AdtsFrames(aac)
  <2>1. frames' = Append(frames, r) /\ r = a[k + 1]
    BY <1>9, <1>11, <1>12
  <2>2. \A j \in 1..Len(frames) : frames[j] = a[j]
    BY DEF AudioOrdered
  <2> HIDE DEF r, a
  <2>3. Len(frames') = k + 1 /\ frames'[k + 1] = r /\ \A j \in 1..k : frames'[j] = frames[j]
    BY <1>1, <1>15, <2>1
  <2>4. \A j \in 1..(k + 1) : j \in 1..k \/ j = k + 1
    BY <1>1
  <2>5. \A j \in 1..(k + 1) : frames'[j] = a[j]
    BY <2>1, <2>2, <2>3, <2>4
  <2> QED BY <2>3, <2>5 DEF a
<1>17. AudioOrdered'
  <2>1. /\ FrameStarts' = FrameStarts /\ AdtsCuts(aac') = C /\ AdtsFrames(aac') = AdtsFrames(aac)
    BY <1>2 DEF FrameStarts
  <2>2. audio_pc' = "idle"
    BY <1>2
  <2>3. Rank(AdtsCuts(aac') \ {Len(aac')}, aac_pos') = Len(frames')
    BY <1>2, <1>10, <1>13, <1>16 DEF FrameStarts
  <2>4. \A j \in 1..Len(frames') : frames'[j] = AdtsFrames(aac')[j]
    BY <1>16, <2>1
  <2> QED BY <1>3, <1>13, <2>1, <2>2, <2>3, <2>4 DEF AudioOrdered
<1> QED BY <1>9, <1>14, <1>17

\* A file of whole frames is never cut off.
LEMMA TruncatedNever == AudioTypeOK /\ WholeAac /\ AudioOrdered => ~Truncated
<1> SUFFICES ASSUME AudioTypeOK, WholeAac, AudioOrdered, Truncated PROVE FALSE
  OBVIOUS
<1>1. HeaderBytes > 0 /\ \E len \in FrameLengths : PayloadLength(len) \notin 0..Payload
  BY DEF Truncated, PastHeader
<1>2. aac_pos # Len(aac)
  BY <1>1, AudioFacts
<1> DEFINE n == Number(aac, 8 * aac_pos + 30, 13)
<1>3. FrameLengths = {n} /\ PayloadLength(n) \in 0..Payload
  BY <1>2, WholeFrame
<1> QED BY <1>1, <1>3

\* None of its headers lacks the syncword.
LEMMA SyncwordNeverMissing ==
  AudioTypeOK /\ WholeAac /\ AudioOrdered => ~MissingSyncword
<1> SUFFICES ASSUME AudioTypeOK, WholeAac, AudioOrdered, MissingSyncword PROVE FALSE
  OBVIOUS
<1>1. HeaderBytes > 0 /\ ~Synced(Header)
  BY DEF MissingSyncword
<1>2. aac_pos # Len(aac)
  BY <1>1, AudioFacts
<1> DEFINE n == Number(aac, 8 * aac_pos + 30, 13)
<1>3. Synced(Header)
  BY <1>2, WholeFrame
<1> QED BY <1>1, <1>3

\* The invariant of the reader of AAC files.
LEMMA AudioInvNext == AudioInv /\ [AudioNext]_audioVars => AudioInv'
<1> SUFFICES ASSUME AudioInv, [AudioNext]_audioVars PROVE AudioInv'
  OBVIOUS
<1>1. AudioTypeOK /\ AudioTypeOK'
  BY AudioTypeNext DEF AudioInv
<1>2. aac' = aac
  BY DEF AudioNext, AudioEnd, MissingSyncword, AudioFrame, Truncated, audioVars
<1>3. ASSUME WholeAac PROVE AudioOrdered'
  <2>1. AudioOrdered
    BY <1>3 DEF AudioInv
  <2>2. CASE AudioFrame
    BY <1>1, <1>3, <2>1, <2>2, NextFrameOfFile
  <2>3. CASE Truncated
    BY <1>1, <1>3, <2>1, <2>3, TruncatedNever
  <2>4. CASE MissingSyncword
    BY <1>1, <1>3, <2>1, <2>4, SyncwordNeverMissing
  <2>5. CASE AudioEnd \/ UNCHANGED audioVars
    <3>1. UNCHANGED <<aac, aac_pos, frames, audio_pc>>
      BY <2>5 DEF AudioEnd, audioVars
    <3> QED BY <2>1, <3>1 DEF AudioOrdered
  <2> QED BY <2>2, <2>3, <2>4, <2>5 DEF AudioNext
<1> QED BY <1>1, <1>2, <1>3 DEF AudioInv, WholeAac

\* A call hands over the first frame that is left, or finds that none is.
LEMMA AudioStep ==
  ASSUME AudioInv, [AudioNext]_audioVars, WholeAac
  PROVE  A!Next \/ UNCHANGED A!vars
<1> DEFINE u == AdtsFrames(aac)
           n == Len(frames)
<1>1. AudioTypeOK /\ AudioOrdered
  BY DEF AudioInv
<1>2. aac \in Seq(Byte) /\ n \in Nat /\ Len(aac) \in Nat
  BY <1>1, AudioFacts
<1>3. /\ FrameStarts \in SUBSET Nat /\ IsFiniteSet(FrameStarts)
      /\ Cardinality(FrameStarts) \in Nat /\ \A b \in FrameStarts : b < Len(aac)
  BY <1>1, FrameStartsType
<1>4. Len(u) = Cardinality(FrameStarts) /\ \E X : u \in Seq(X)
  BY <1>3, CutSeq DEF AdtsFrames, FrameStarts
<1>5. CASE AudioFrame
  <2>1. frames' = Append(frames, u[n + 1]) /\ n < Len(u)
    BY <1>1, <1>4, <1>5, NextFrameOfFile
  <2>2. /\ SubSeq(u, n + 1, Len(u)) # <<>>
        /\ Head(SubSeq(u, n + 1, Len(u))) = u[n + 1]
        /\ Tail(SubSeq(u, n + 1, Len(u))) = SubSeq(u, n + 2, Len(u))
    BY <1>2, <1>4, <2>1, TakeOne
  <2>3. aac' = aac /\ decode_audio_done' = decode_audio_done
    BY <1>5 DEF AudioFrame
  <2>4. Len(frames') + 1 = n + 2
    <3>1. Len(frames') = n + 1
      <4>1. frames \in Seq(Seq(Byte))
        BY <1>1, AudioFacts
      <4> HIDE DEF u
      <4>2. frames' \in Seq(Seq(Byte))
        BY <1>1, <1>5, AudioTypeNext DEF AudioTypeOK, Byte
      <4> QED BY <2>1, <4>1, <4>2
    <3> QED BY <1>2, <3>1
  <2>5. WholeAac' /\ AdtsFrames(aac') = u
    BY <2>3 DEF WholeAac
  <2> HIDE DEF u, n
  <2>6. (IF WholeAac' THEN SubSeq(AdtsFrames(aac'), Len(frames') + 1, Len(AdtsFrames(aac')))
         ELSE <<>>) = Tail(SubSeq(u, n + 1, Len(u)))
    BY <2>2, <2>4, <2>5
  <2>7. (IF WholeAac THEN SubSeq(AdtsFrames(aac), Len(frames) + 1, Len(AdtsFrames(aac)))
         ELSE <<>>) = SubSeq(u, n + 1, Len(u))
    BY DEF u, n
  <2>8. A!Take
    BY <2>1, <2>2, <2>3, <2>6, <2>7, Zenon DEF A!Take
  <2> QED BY <2>8 DEF A!Next
<1>6. CASE AudioEnd
  <2>1. /\ decode_audio_done' = TRUE /\ aac' = aac /\ frames' = frames
        /\ aac_pos = Len(aac)
    BY <1>6 DEF AudioEnd
  <2>2. n = Len(u)
    <3>1. Rank(FrameStarts, Len(aac)) = Cardinality(FrameStarts)
      BY <1>2, <1>3, RankType
    <3> QED BY <1>1, <1>4, <2>1, <3>1 DEF AudioOrdered, FrameStarts
  <2>3. SubSeq(u, n + 1, Len(u)) = <<>>
    BY <1>2, <1>4, <2>2
  <2>4. A!ReachEnd
    BY <2>1, <2>3 DEF A!ReachEnd
  <2> QED BY <2>4 DEF A!Next
<1>7. CASE Truncated
  BY <1>1, <1>7, TruncatedNever
<1>8. CASE MissingSyncword
  BY <1>1, <1>8, SyncwordNeverMissing
<1>9. CASE UNCHANGED audioVars
  <2>1. aac' = aac /\ frames' = frames /\ decode_audio_done' = decode_audio_done
    BY <1>9 DEF audioVars
  <2> QED BY <2>1 DEF A!vars, WholeAac
<1> QED BY <1>5, <1>6, <1>7, <1>8, <1>9 DEF AudioNext
-----------------------------------------------------------------------------
\* A call that returns leaves the types of all units exact.
LEMMA ReturnKeepsTypes ==
  ASSUME VideoTypeOK, SliceTypesExact, NEW code \in {StartCode2, StartCode3},
         NEW nal \in Seq(Byte), NEW from, Return(code, nal, from)
  PROVE  SliceTypesExact'
<1>1. PICK type \in GetFrameType(nal) :
        units' = Append(units, [from |-> from, bytes |-> code \o nal, type |-> type])
  BY DEF Return
<1> DEFINE u == [from |-> from, bytes |-> code \o nal, type |-> type]
<1>2. SliceTypeExact(u)
  <2>1. u.bytes = code \o nal /\ u.type = type
    OBVIOUS
  <2> HIDE DEF u
  <2> QED BY <2>1, UnitTypeExact
<1>3. units \in Seq(Unit) /\ Len(units) \in Nat
  BY TypeFacts
<1>4. units' = Append(units, u)
  BY <1>1
<1> HIDE DEF u
<1>5. /\ DOMAIN units = 1..Len(units) /\ DOMAIN units' = 1..(Len(units) + 1)
      /\ \A k \in 1..Len(units) : units'[k] = units[k]
      /\ units'[Len(units) + 1] = u
  BY <1>3, <1>4
<1>6. ASSUME NEW k \in 1..(Len(units) + 1) PROVE SliceTypeExact(units'[k])
  <2>1. CASE k = Len(units) + 1
    BY <1>2, <1>5, <2>1
  <2>2. CASE k # Len(units) + 1
    <3>1. k \in 1..Len(units)
      BY <1>3, <2>2
    <3> QED BY <1>5, <3>1 DEF SliceTypesExact
  <2> QED BY <2>1, <2>2
<1> QED BY <1>5, <1>6 DEF SliceTypesExact

\* What is returned of a buffer is a start code and bytes, as many as there are.
LEMMA ReturnReadKeepsTypes ==
  ASSUME VideoTypeOK, SliceTypesExact, NEW m \in Nat, ReturnRead(m)
  PROVE  SliceTypesExact'
<1> DEFINE g   == Without(m)
           nal == SubSeq(g, Len(Prefix) + 1, Len(g))
<1>1. Prefix \in {StartCode2, StartCode3}
  BY DEF Prefix
<1>2. Len(Prefix) \in Nat
  <2>1. Len(StartCode2) = 3 /\ Len(StartCode3) = 4
    BY DEF StartCode2, StartCode3
  <2> QED BY <1>1, <2>1
<1>3. Buf \in Seq(Byte) /\ Len(Buf) \in Nat
  BY TypeFacts
<1>4. g \in Seq(Byte)
  <2> DEFINE n == Len(Buf) - m
  <2>1. n \in Int /\ n <= Len(Buf) /\ 1 \in Int
    BY <1>3
  <2>2. \A k \in 1..n : Buf[k] \in Byte
    <3>1. \A k \in 1..n : k \in 1..Len(Buf)
      BY <1>3, <2>1
    <3> QED BY <1>3, <3>1, ElementOfSeq
  <2>3. g = SubSeq(Buf, 1, n)
    BY DEF Without
  <2> HIDE DEF n, g
  <2> QED BY <2>1, <2>2, <2>3, SubSeqProperties
<1> HIDE DEF g
<1>5. nal \in Seq(Byte)
  <2> DEFINE c == Len(Prefix)
             n == Len(g)
  <2>1. c \in Nat /\ n \in Nat /\ c + 1 \in Int /\ n \in Int
    BY <1>2, <1>4
  <2>2. \A k \in (c + 1)..n : g[k] \in Byte
    <3>1. \A k \in (c + 1)..n : k \in 1..Len(g)
      BY <2>1
    <3> QED BY <1>4, <3>1, ElementOfSeq
  <2> HIDE DEF c, n
  <2>3. SubSeq(g, c + 1, n) \in Seq(Byte)
    BY <2>1, <2>2, SubSeqProperties
  <2> QED BY <2>3 DEF c, n
<1>6. Return(Prefix, nal, start)
  BY DEF ReturnRead, g
<1> HIDE DEF nal
<1> QED BY <1>1, <1>5, <1>6, ReturnKeepsTypes

\* Every step of the reader leaves them exact.
LEMMA TypesNext == VideoTypeOK /\ SliceTypesExact /\ [VideoNext]_videoVars => SliceTypesExact'
<1> SUFFICES ASSUME VideoTypeOK, SliceTypesExact, [VideoNext]_videoVars
             PROVE  SliceTypesExact'
  OBVIOUS
<1>1. units' = units => SliceTypesExact'
  BY DEF SliceTypesExact
<1>2. CASE VideoEnd
  BY <1>1, <1>2 DEF VideoEnd
<1>3. CASE NoStartCode
  <2>1. Return(StartCode2, <<>>, h264_pos)
    BY <1>3 DEF NoStartCode
  <2>2. <<>> \in Seq(Byte)
    OBVIOUS
  <2> QED BY <2>1, <2>2, ReturnKeepsTypes
<1>4. CASE TakeStartCode
  BY <1>1, <1>4 DEF TakeStartCode
<1>5. CASE ScanByte
  BY <1>1, <1>5 DEF ScanByte
<1>6. CASE LastUnit
  <2>1. ReturnRead(1) /\ 1 \in Nat
    BY <1>6 DEF LastUnit
  <2> QED BY <2>1, ReturnReadKeepsTypes
<1>7. CASE NextUnit
  <2>1. ReturnRead(Rewind) /\ Rewind \in Nat
    BY <1>7 DEF NextUnit, Rewind
  <2> QED BY <2>1, ReturnReadKeepsTypes
<1>8. CASE UNCHANGED videoVars
  BY <1>1, <1>8 DEF videoVars
<1> QED BY <1>2, <1>3, <1>4, <1>5, <1>6, <1>7, <1>8 DEF VideoNext
-----------------------------------------------------------------------------
\* A call that returns w bytes ends w bytes behind where it began.
LEMMA ReturnReadAdvances ==
  ASSUME UnitsInv, video_pc \in {"scan", "found"}, NEW m \in Nat, NEW w \in Nat,
         w = Len(Buf) - m, CodeRead <= w, w <= Count, ReturnRead(m),
         h264_pos' = start + w
  PROVE  h264_pos' > units'[Len(units')].from
<1>1. /\ Len(units') = Len(units) + 1
      /\ units'[Len(units) + 1].from = start
  BY ReturnReadUnit
<1>2. start \in Nat
  BY TypeFacts DEF UnitsInv, ReadInv
<1>3. w >= 3
  BY DEF CodeRead
<1> QED BY <1>1, <1>2, <1>3

\* Every call that returns a unit leaves the file behind where it began: at
\* least the start code is behind it, also after the seek back.
LEMMA UnitAdvances ==
  ASSUME UnitsInv, VideoNext, units' # units
  PROVE  h264_pos' > units'[Len(units')].from
<1>1. VideoTypeOK
  BY DEF UnitsInv, ReadInv
<1>2. ~VideoEnd /\ ~TakeStartCode /\ ~ScanByte
  BY DEF VideoEnd, TakeStartCode, ScanByte
<1>3. CASE NoStartCode
  <2>1. Return(StartCode2, <<>>, h264_pos) /\ h264_pos' = h264_pos + 4
    BY <1>3 DEF NoStartCode
  <2>2. h264_pos \in Nat
    BY <1>1, TypeFacts
  <2>3. StartCode2 \o <<>> \in Seq(Byte)
    BY DEF StartCode2, Byte
  <2>4. Len(units') = Len(units) + 1 /\ units'[Len(units) + 1].from = h264_pos
    BY <1>1, <2>1, <2>2, <2>3, ReturnType
  <2> QED BY <2>1, <2>2, <2>4
<1>4. CASE LastUnit
  <2> DEFINE w == Len(Buf) - 1
  <2>1. Reading /\ h264_eof
    BY <1>4 DEF LastUnit, UnitsInv, ReadInv
  <2>2. Count \in Nat /\ start + Count = h264_pos
    BY <1>1, TypeFacts
  <2>3. Len(Buf) = Count + 1 /\ Count >= CodeRead
    BY <2>1 DEF Reading
  <2>4. w \in Nat /\ CodeRead <= w /\ w <= Count /\ h264_pos = start + w /\ 1 \in Nat
    BY <2>2, <2>3 DEF CodeRead
  <2>5. video_pc \in {"scan", "found"} /\ ReturnRead(1) /\ h264_pos' = h264_pos
    BY <1>4 DEF LastUnit
  <2>6. w = Len(Buf) - 1
    OBVIOUS
  <2> HIDE DEF w
  <2> QED BY <2>4, <2>5, <2>6, ReturnReadAdvances
<1>5. CASE NextUnit
  <2> DEFINE w == Len(Buf) - Rewind
  <2>1. Reading /\ Found
    BY <1>5 DEF NextUnit, UnitsInv, ReadInv
  <2>2. /\ Rewind \in Nat /\ w \in Nat /\ CodeRead <= w /\ w <= Count
        /\ h264_pos - Rewind = start + w
    BY <1>1, <2>1, RewindFacts
  <2>3. /\ video_pc \in {"scan", "found"} /\ ReturnRead(Rewind)
        /\ h264_pos' = h264_pos - Rewind
    BY <1>5 DEF NextUnit
  <2>4. w = Len(Buf) - Rewind
    OBVIOUS
  <2> HIDE DEF w
  <2> QED BY <2>2, <2>3, <2>4, ReturnReadAdvances
<1> QED BY <1>2, <1>3, <1>4, <1>5 DEF VideoNext

\* A frame takes at least a byte of a header, whatever its length is taken for.
LEMMA FrameAdvances ==
  ASSUME AudioTypeOK, AudioNext, frames' # frames
  PROVE  aac_pos' > aac_pos
<1>1. AudioFrame
  BY DEF AudioNext, AudioEnd, MissingSyncword, Truncated
<1>2. PICK len \in FrameLengths :
        /\ PayloadLength(len) \in 0..Payload
        /\ aac_pos' = aac_pos + HeaderBytes + PayloadLength(len)
  BY <1>1 DEF AudioFrame
<1> DEFINE d == PayloadLength(len)
<1>3. d \in 0..Payload /\ aac_pos' = aac_pos + HeaderBytes + d
  BY <1>2
<1>4. HeaderBytes > 0
  BY <1>1 DEF AudioFrame, PastHeader
<1>5. HeaderBytes \in Nat /\ aac_pos \in Nat /\ Payload \in Nat
  BY AudioFacts
<1> HIDE DEF d
<1> QED BY <1>3, <1>4, <1>5
-----------------------------------------------------------------------------
\* The two readers share nothing: each keeps its own invariant.
THEOREM ReadersInvariance == Spec => [](VideoInv /\ AudioInv)
<1>1. Init => VideoInv /\ AudioInv
  BY VideoInvInit, AudioInvInit DEF Init
<1>2. VideoInv /\ AudioInv /\ [Next]_vars => VideoInv' /\ AudioInv'
  <2>1. [Next]_vars => [VideoNext]_videoVars /\ [AudioNext]_audioVars
    BY DEF Next, vars
  <2> QED BY <2>1, VideoInvNext, AudioInvNext
<1> QED BY <1>1, <1>2, PTL DEF Spec

\* Both readers stay within their files, and the H.264 reader within its buffer.
THEOREM ReadersTypeCorrect == Spec => []TypeOK
<1>1. VideoInv /\ AudioInv => TypeOK
  BY DEF VideoInv, UnitsInv, ReadInv, AudioInv, TypeOK
<1> QED BY <1>1, ReadersInvariance, PTL

\* Units are consecutive pieces of the file also while the other file is read.
THEOREM BothUnitsCorrect == Spec => []UnitsAreTheFile
<1>1. VideoInv => UnitsAreTheFile
  BY UnitsArePieces DEF VideoInv
<1> QED BY <1>1, ReadersInvariance, PTL

\* Only a unit that, with the next start code, is longer than the buffer of
\* GetAnnexbNALU overruns it.
THEOREM OverrunNeedsLongUnit == Spec => []OverrunOnlyIfTooLong
<1>1. VideoInv => OverrunOnlyIfTooLong
  BY FullBuffer DEF VideoInv
<1> QED BY <1>1, ReadersInvariance, PTL

\* Only a file with a damaged frame makes Read_One_Aac_Frame return -1, or wait
\* for a key.
THEOREM StopsNeedDamage == Spec => []StopsOnlyIfDamaged
<1>1. AudioInv => StopsOnlyIfDamaged
  BY DEF AudioInv, AudioOrdered, StopsOnlyIfDamaged
<1> QED BY <1>1, ReadersInvariance, PTL

\* Read_One_H264_Frame hands over the units of the file, one a call and in
\* order, and reports the end after the last of them: it implements FrameFile.
THEOREM H264FileCorrect == Spec => ReadsH264File
<1>1. VideoInv /\ [Next]_vars => [GoodH264 => V!Next]_(V!vars)
  <2> SUFFICES ASSUME VideoInv, [Next]_vars
               PROVE  (GoodH264 => V!Next) \/ UNCHANGED V!vars
    OBVIOUS
  <2>1. [VideoNext]_videoVars
    BY DEF Next, vars
  <2> QED BY <2>1, VideoStep
<1>2. Spec => []VideoInv
  BY ReadersInvariance, PTL
<1> QED BY <1>1, <1>2, PTL DEF Spec, ReadsH264File

\* Read_One_Aac_Frame does the same with the frames of a file of whole ones.
THEOREM AacFileCorrect == Spec => ReadsAacFile
<1>1. AudioInv /\ [Next]_vars => [WholeAac => A!Next]_(A!vars)
  <2> SUFFICES ASSUME AudioInv, [Next]_vars
               PROVE  (WholeAac => A!Next) \/ UNCHANGED A!vars
    OBVIOUS
  <2>1. [AudioNext]_audioVars
    BY DEF Next, vars
  <2> QED BY <2>1, AudioStep
<1>2. Spec => []AudioInv
  BY ReadersInvariance, PTL
<1> QED BY <1>1, <1>2, PTL DEF Spec, ReadsAacFile

\* GetFrameType gives every slice the type in its header and no other unit a
\* picture type, whatever the bytes are and at whatever bit the codes begin.
THEOREM SliceTypesCorrect == Spec => []SliceTypesExact
<1>1. Init => SliceTypesExact
  BY DEF Init, VideoInit, SliceTypesExact
<1>2. VideoInv /\ SliceTypesExact /\ [Next]_vars => SliceTypesExact'
  <2>1. VideoInv => VideoTypeOK
    BY DEF VideoInv, UnitsInv, ReadInv
  <2>2. [Next]_vars => [VideoNext]_videoVars
    BY DEF Next, vars
  <2> QED BY <2>1, <2>2, TypesNext
<1>3. Spec => []VideoInv
  BY ReadersInvariance, PTL
<1> QED BY <1>1, <1>2, <1>3, PTL DEF Spec

\* No call of either reader that returns a frame ends where it began or in
\* front of it, whatever the files are.
THEOREM CallsAdvance == Spec => EveryCallAdvances
<1>1. VideoInv /\ AudioInv /\ [Next]_vars =>
        [/\ units' # units => h264_pos' > units'[Len(units')].from
         /\ frames' # frames => aac_pos' > aac_pos]_vars
  <2> SUFFICES ASSUME VideoInv, AudioInv, Next
               PROVE  /\ units' # units => h264_pos' > units'[Len(units')].from
                      /\ frames' # frames => aac_pos' > aac_pos
    OBVIOUS
  <2>1. UnitsInv /\ AudioTypeOK
    BY DEF VideoInv, AudioInv
  <2>2. CASE VideoNext /\ UNCHANGED audioVars
    BY <2>1, <2>2, UnitAdvances DEF audioVars
  <2>3. CASE AudioNext /\ UNCHANGED videoVars
    BY <2>1, <2>3, FrameAdvances DEF videoVars
  <2> QED BY <2>2, <2>3 DEF Next
<1> QED BY <1>1, ReadersInvariance, PTL DEF Spec, EveryCallAdvances
=============================================================================
