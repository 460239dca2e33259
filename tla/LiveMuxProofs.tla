--------------------------- MODULE LiveMuxProofs ---------------------------
(***************************************************************************)
(* For any number of streams and subsessions and any media: the composed   *)
(* system is the client of RtspClient, and what its sinks write to the     *)
(* .ts file is well ordered and well timed.  The facts about the file are  *)
(* lemmas about appending one entry to it; a step appends up to three.     *)
(***************************************************************************)
EXTENDS LiveMux, RtspClientProofs, SequenceTheorems

\* Timed(t, p, clock): PID p of the file t is timed, and clock comes next.
Timed(t, p, clock) ==
  LET K == {k \in 1..Len(t) : t[k].pid = p}
  IN  /\ \A k \in K : First(k, K) => t[k].pts = 0
      /\ \A i, j \in K : Adjacent(i, j, K) =>
           t[j].pts = (t[i].pts + Duration(t[i])) % UintMod
      /\ K = {} => clock = 0
      /\ \A k \in K : (\A m \in (k + 1)..Len(t) : m \notin K) =>
           clock = (t[k].pts + Duration(t[k])) % UintMod

\* Paced(t, clock): the same of the PCRs of the slices.
Paced(t, clock) ==
  LET K == {k \in 1..Len(t) : t[k].unit = "slice"}
  IN  /\ \A k \in K : t[k].pcr = Pcr(t[k].pts)
      /\ \A k \in K : First(k, K) => t[k].pcr = 0
      /\ \A i, j \in K : Adjacent(i, j, K) =>
           t[j].pcr = (t[i].pcr + (300 * VideoStep)) % UintMod
      /\ K = {} => clock = 0
      /\ \A k \in K : (\A m \in (k + 1)..Len(t) : m \notin K) =>
           clock = (t[k].pts + VideoStep) % UintMod

Sets == {"sps", "pps"}

VideoUnit == [unit : {"sps", "pps", "slice", "other"}, sink : Sinks, n : Nat]

\* HeadsAt(t, s, j): the parameter sets of sink s, its only ones, are at j and
\* j + 1, before its frames.
HeadsAt(t, s, j) ==
  /\ j \in 1..(Len(t) - 1)
  /\ t[j].sink = s /\ t[j].unit = "sps"
  /\ t[j + 1].sink = s /\ t[j + 1].unit = "pps"
  /\ \A m \in 1..Len(t) : t[m].sink = s =>
       /\ t[m].unit \in Sets => m \in {j, j + 1}
       /\ IsFrame(t[m]) => j <= m - 2

\* Headed(t, s, init): what bInitHead[s] = init says of the file t.
Headed(t, s, init) ==
  IF init THEN \E j \in 1..Len(t) : HeadsAt(t, s, j)
  ELSE \A m \in 1..Len(t) : t[m].sink = s => t[m].unit = "aac"

NoFrameOf(t, s) == \A m \in 1..Len(t) : t[m].sink = s => ~IsFrame(t[m])

\* Recorded(t, r): the frames in t were received, in order.
Recorded(t, r) ==
  /\ \A k \in 1..Len(t) : IsFrame(t[k]) => t[k].n \in 1..Len(r)
  /\ \A j, k \in 1..Len(t) :
       j < k /\ IsFrame(t[j]) /\ IsFrame(t[k]) => t[j].n < t[k].n

\* Every one of the first last frames received on a video sink is in t.
AllIn(t, r, last) ==
  \A n \in 1..last : Medium[r[n]] = "video" =>
    \E k \in 1..Len(t) : IsFrame(t[k]) /\ t[k].n = n /\ t[k].sink = r[n]

LiveInv ==
  /\ LiveTypeOK
  /\ Timed(ts, "video", Timestamp_video)
  /\ Timed(ts, "audio", Timestamp_audio)
  /\ Paced(ts, Timestamp_video)
  /\ \A s \in Sinks : Headed(ts, s, bInitHead[s]) \/ (undefined /\ NoFrameOf(ts, s))
  /\ Recorded(ts, received)
  /\ undefined \/ AllIn(ts, received, Len(received))
-----------------------------------------------------------------------------
\* Appending an entry: the length and the elements.
LEMMA AppendFacts ==
  ASSUME NEW S, NEW t \in Seq(S), NEW e \in S
  PROVE  /\ Append(t, e) \in Seq(S)
         /\ Len(Append(t, e)) = Len(t) + 1
         /\ \A k \in 1..Len(t) : Append(t, e)[k] = t[k]
         /\ Append(t, e)[Len(t) + 1] = e
OBVIOUS

\* A remainder is a remainder.
LEMMA ModRange ==
  ASSUME NEW a \in Int
  PROVE  a % UintMod \in 0..(UintMod - 1)
BY UintModAssumption

\* The remainder of a number below the modulus.
LEMMA ModSmall ==
  ASSUME NEW a \in 0..(UintMod - 1)
  PROVE  a % UintMod = a
BY UintModAssumption

\* Every entry takes a known time.
LEMMA DurationType ==
  ASSUME NEW e \in Entry
  PROVE  /\ Duration(e) \in Nat
         /\ e.unit = "slice" => Duration(e) = VideoStep
         /\ e.unit = "aac" => Duration(e) = AudioStep
         /\ e.unit \notin {"slice", "aac"} => Duration(e) = 0
BY DEF Duration, VideoStep, AudioStep, Entry

\* The next entry of a PID is stamped with its clock, which it then advances.
LEMMA TimedOwn ==
  ASSUME NEW t \in Seq(Entry), NEW e \in Entry, NEW p, NEW clock,
         Timed(t, p, clock), e.pid = p, e.pts = clock
  PROVE  Timed(Append(t, e), p, (clock + Duration(e)) % UintMod)
<1> DEFINE u == Append(t, e)
           K == {k \in 1..Len(t) : t[k].pid = p}
           L == {k \in 1..Len(u) : u[k].pid = p}
           n == Len(t) + 1
<1>1. /\ Len(u) = n
      /\ \A k \in 1..Len(t) : u[k] = t[k]
      /\ u[n] = e
      /\ Len(t) \in Nat
  BY AppendFacts
<1>2. L = K \cup {n}
  BY <1>1
<1>3. /\ \A k \in K : First(k, K) => t[k].pts = 0
      /\ \A i, j \in K : Adjacent(i, j, K) =>
           t[j].pts = (t[i].pts + Duration(t[i])) % UintMod
      /\ K = {} => clock = 0
      /\ \A k \in K : (\A m \in (k + 1)..Len(t) : m \notin K) =>
           clock = (t[k].pts + Duration(t[k])) % UintMod
  BY DEF Timed
<1> HIDE DEF u, L
<1>4. \A k \in K : k \in 1..Len(t) /\ u[k] = t[k]
  BY <1>1
<1> HIDE DEF K
<1>5. ASSUME NEW k \in L, First(k, L) PROVE u[k].pts = 0
  <2>1. CASE k \in K
    BY <1>2, <1>3, <1>4, <1>5, <2>1 DEF First
  <2>2. CASE k = n
    <3>1. K = {}
      BY <1>2, <1>4, <1>5, <2>2 DEF First
    <3> QED BY <1>1, <1>3, <2>2, <3>1
  <2> QED BY <1>2, <2>1, <2>2
<1>6. ASSUME NEW i \in L, NEW j \in L, Adjacent(i, j, L)
      PROVE  u[j].pts = (u[i].pts + Duration(u[i])) % UintMod
  <2>1. CASE j \in K
    <3>1. i \in K
      BY <1>1, <1>2, <1>4, <1>6, <2>1 DEF Adjacent
    <3>2. Adjacent(i, j, K)
      BY <1>2, <1>4, <1>6, <2>1, <3>1 DEF Adjacent
    <3> QED BY <1>3, <1>4, <2>1, <3>1, <3>2
  <2>2. CASE j = n
    <3>1. i \in K
      BY <1>1, <1>2, <1>6, <2>2 DEF Adjacent
    <3>2. \A m \in (i + 1)..Len(t) : m \notin K
      BY <1>1, <1>2, <1>6, <2>2 DEF Adjacent
    <3> QED BY <1>1, <1>3, <1>4, <2>2, <3>1, <3>2
  <2> QED BY <1>2, <2>1, <2>2
<1>7. L # {}
  BY <1>2
<1>8. ASSUME NEW k \in L, \A m \in (k + 1)..Len(u) : m \notin L
      PROVE  (clock + Duration(e)) % UintMod = (u[k].pts + Duration(u[k])) % UintMod
  <2>1. k = n
    BY <1>1, <1>2, <1>4, <1>8
  <2> QED BY <1>1, <2>1
<1> QED BY <1>5, <1>6, <1>7, <1>8 DEF Timed, u, L

\* An entry of the other PID does not disturb the clock.
LEMMA TimedOther ==
  ASSUME NEW t \in Seq(Entry), NEW e \in Entry, NEW p, NEW clock,
         Timed(t, p, clock), e.pid # p
  PROVE  Timed(Append(t, e), p, clock)
<1> DEFINE u == Append(t, e)
           K == {k \in 1..Len(t) : t[k].pid = p}
           L == {k \in 1..Len(u) : u[k].pid = p}
<1>1. /\ Len(u) = Len(t) + 1
      /\ \A k \in 1..Len(t) : u[k] = t[k]
      /\ u[Len(t) + 1] = e
      /\ Len(t) \in Nat
  BY AppendFacts
<1>2. L = K
  BY <1>1
<1>3. \A k \in K : k \in 1..Len(t) /\ u[k] = t[k]
  BY <1>1
<1>4. \A k \in K : (\A m \in (k + 1)..Len(u) : m \notin K) =>
                     \A m \in (k + 1)..Len(t) : m \notin K
  BY <1>1
<1>5. /\ \A k \in K : First(k, K) => t[k].pts = 0
      /\ \A i, j \in K : Adjacent(i, j, K) =>
           t[j].pts = (t[i].pts + Duration(t[i])) % UintMod
      /\ K = {} => clock = 0
      /\ \A k \in K : (\A m \in (k + 1)..Len(t) : m \notin K) =>
           clock = (t[k].pts + Duration(t[k])) % UintMod
  BY DEF Timed
<1> HIDE DEF u, K
<1>6. /\ \A k \in K : First(k, K) => u[k].pts = 0
      /\ \A i, j \in K : Adjacent(i, j, K) =>
           u[j].pts = (u[i].pts + Duration(u[i])) % UintMod
      /\ K = {} => clock = 0
      /\ \A k \in K : (\A m \in (k + 1)..Len(u) : m \notin K) =>
           clock = (u[k].pts + Duration(u[k])) % UintMod
  BY <1>3, <1>4, <1>5
<1> HIDE DEF L
<1>7. /\ \A k \in L : First(k, L) => u[k].pts = 0
      /\ \A i, j \in L : Adjacent(i, j, L) =>
           u[j].pts = (u[i].pts + Duration(u[i])) % UintMod
      /\ L = {} => clock = 0
      /\ \A k \in L : (\A m \in (k + 1)..Len(u) : m \notin L) =>
           clock = (u[k].pts + Duration(u[k])) % UintMod
  BY <1>2, <1>6
<1> QED BY <1>7 DEF Timed, u, L
-----------------------------------------------------------------------------
\* A multiple of the modulus does not change a remainder.
LEMMA ModShift ==
  ASSUME NEW a \in Int, NEW k \in Int
  PROVE  (a + (k * UintMod)) % UintMod = a % UintMod
<1> DEFINE M == UintMod
           b == a + (k * M)
           d == (b \div M) - ((a \div M) + k)
<1>1. M \in Nat \ {0} /\ k * M \in Int
  BY UintModAssumption
<1>2. /\ a = (M * (a \div M)) + (a % M) /\ a \div M \in Int /\ a % M \in 0..(M - 1)
      /\ b = (M * (b \div M)) + (b % M) /\ b \div M \in Int /\ b % M \in 0..(M - 1)
  BY <1>1
<1>3. M * d = (a % M) - (b % M) /\ d \in Int
  BY <1>1, <1>2
<1>4. M * d < M /\ M * d > 0 - M
  BY <1>1, <1>2, <1>3
<1> HIDE DEF d
<1>5. d = 0
  BY <1>1, <1>3, <1>4
<1> QED BY <1>1, <1>2, <1>3, <1>5

\* The wrap of the clock does not show in the remainder of the product.
LEMMA PcrStep ==
  ASSUME NEW x \in 0..(UintMod - 1)
  PROVE  Pcr((x + VideoStep) % UintMod) = (Pcr(x) + (300 * VideoStep)) % UintMod
<1> DEFINE y == x + VideoStep
           q == y \div UintMod
           r == (x * 300) \div UintMod
<1>1. UintMod \in Nat \ {0} /\ VideoStep = 3600 /\ x \in Nat /\ y \in Nat
  BY UintModAssumption DEF VideoStep
<1>2. y = (UintMod * q) + (y % UintMod) /\ q \in Int /\ y % UintMod \in Int
  BY <1>1
<1>3. /\ x * 300 = (UintMod * r) + ((x * 300) % UintMod)
      /\ r \in Int /\ (x * 300) % UintMod \in Int
  BY <1>1
<1>4. (y % UintMod) * 300 = (((x * 300) % UintMod) + 1080000)
                             + ((r - (300 * q)) * UintMod)
  BY <1>1, <1>2, <1>3
<1> HIDE DEF q, r
<1>5. /\ ((x * 300) % UintMod) + 1080000 \in Int
      /\ r - (300 * q) \in Int
  BY <1>2, <1>3
<1>6. ((y % UintMod) * 300) % UintMod = (((x * 300) % UintMod) + 1080000) % UintMod
  BY <1>4, <1>5, ModShift
<1> QED BY <1>1, <1>6 DEF Pcr

\* The timestamps of a file are below the modulus.
LEMMA EntryPts ==
  ASSUME NEW t \in Seq(Entry), NEW k \in 1..Len(t)
  PROVE  t[k].pts \in 0..(UintMod - 1)
<1>1. t[k] \in Entry
  BY ElementOfSeq
<1> QED BY <1>1 DEF Entry

\* The next slice, whose PCR is that of the clock, is paced.
LEMMA PacedSlice ==
  ASSUME NEW t \in Seq(Entry), NEW e \in Entry, NEW clock,
         Paced(t, clock), e.unit = "slice", e.pts = clock, e.pcr = Pcr(clock)
  PROVE  Paced(Append(t, e), (clock + VideoStep) % UintMod)
<1> DEFINE u == Append(t, e)
           K == {k \in 1..Len(t) : t[k].unit = "slice"}
           L == {k \in 1..Len(u) : u[k].unit = "slice"}
           n == Len(t) + 1
<1>1. /\ Len(u) = n
      /\ \A k \in 1..Len(t) : u[k] = t[k]
      /\ u[n] = e
      /\ Len(t) \in Nat
  BY AppendFacts
<1>2. L = K \cup {n}
  BY <1>1
<1>3. /\ \A k \in K : t[k].pcr = Pcr(t[k].pts)
      /\ \A k \in K : First(k, K) => t[k].pcr = 0
      /\ \A i, j \in K : Adjacent(i, j, K) =>
           t[j].pcr = (t[i].pcr + (300 * VideoStep)) % UintMod
      /\ K = {} => clock = 0
      /\ \A k \in K : (\A m \in (k + 1)..Len(t) : m \notin K) =>
           clock = (t[k].pts + VideoStep) % UintMod
  BY DEF Paced
<1> HIDE DEF u, L
<1>4. \A k \in K : k \in 1..Len(t) /\ u[k] = t[k] /\ t[k].pts \in 0..(UintMod - 1)
  BY <1>1, EntryPts
<1> HIDE DEF K
<1>5. ASSUME NEW k \in L PROVE u[k].pcr = Pcr(u[k].pts)
  BY <1>1, <1>2, <1>3, <1>4
<1>6. ASSUME NEW k \in L, First(k, L) PROVE u[k].pcr = 0
  <2>1. CASE k \in K
    BY <1>2, <1>3, <1>4, <1>6, <2>1 DEF First
  <2>2. CASE k = n
    <3>1. K = {}
      BY <1>2, <1>4, <1>6, <2>2 DEF First
    <3>2. clock = 0 /\ 0 % UintMod = 0
      BY <1>3, <3>1, UintModAssumption
    <3> QED BY <1>1, <2>2, <3>2 DEF Pcr
  <2> QED BY <1>2, <2>1, <2>2
<1>7. ASSUME NEW i \in L, NEW j \in L, Adjacent(i, j, L)
      PROVE  u[j].pcr = (u[i].pcr + (300 * VideoStep)) % UintMod
  <2>1. CASE j \in K
    <3>1. i \in K
      BY <1>1, <1>2, <1>4, <1>7, <2>1 DEF Adjacent
    <3>2. Adjacent(i, j, K)
      BY <1>2, <1>4, <1>7, <2>1, <3>1 DEF Adjacent
    <3> QED BY <1>3, <1>4, <2>1, <3>1, <3>2
  <2>2. CASE j = n
    <3>1. i \in K
      BY <1>1, <1>2, <1>7, <2>2 DEF Adjacent
    <3>2. \A m \in (i + 1)..Len(t) : m \notin K
      BY <1>1, <1>2, <1>7, <2>2 DEF Adjacent
    <3>3. clock = (t[i].pts + VideoStep) % UintMod /\ t[i].pcr = Pcr(t[i].pts)
      BY <1>3, <3>1, <3>2
    <3>4. Pcr(clock) = (t[i].pcr + (300 * VideoStep)) % UintMod
      BY <1>4, <3>1, <3>3, PcrStep
    <3> QED BY <1>1, <1>4, <2>2, <3>1, <3>4
  <2> QED BY <1>2, <2>1, <2>2
<1>8. L # {}
  BY <1>2
<1>9. ASSUME NEW k \in L, \A m \in (k + 1)..Len(u) : m \notin L
      PROVE  (clock + VideoStep) % UintMod = (u[k].pts + VideoStep) % UintMod
  <2>1. k = n
    BY <1>1, <1>2, <1>4, <1>9
  <2> QED BY <1>1, <2>1
<1> QED BY <1>5, <1>6, <1>7, <1>8, <1>9 DEF Paced, u, L

\* Any other entry leaves the slices as they are.
LEMMA PacedOther ==
  ASSUME NEW t \in Seq(Entry), NEW e \in Entry, NEW clock,
         Paced(t, clock), e.unit # "slice"
  PROVE  Paced(Append(t, e), clock)
<1> DEFINE u == Append(t, e)
           K == {k \in 1..Len(t) : t[k].unit = "slice"}
           L == {k \in 1..Len(u) : u[k].unit = "slice"}
<1>1. /\ Len(u) = Len(t) + 1
      /\ \A k \in 1..Len(t) : u[k] = t[k]
      /\ u[Len(t) + 1] = e
      /\ Len(t) \in Nat
  BY AppendFacts
<1>2. L = K
  BY <1>1
<1>3. \A k \in K : k \in 1..Len(t) /\ u[k] = t[k]
  BY <1>1
<1>4. \A k \in K : (\A m \in (k + 1)..Len(u) : m \notin K) =>
                     \A m \in (k + 1)..Len(t) : m \notin K
  BY <1>1
<1>5. /\ \A k \in K : t[k].pcr = Pcr(t[k].pts)
      /\ \A k \in K : First(k, K) => t[k].pcr = 0
      /\ \A i, j \in K : Adjacent(i, j, K) =>
           t[j].pcr = (t[i].pcr + (300 * VideoStep)) % UintMod
      /\ K = {} => clock = 0
      /\ \A k \in K : (\A m \in (k + 1)..Len(t) : m \notin K) =>
           clock = (t[k].pts + VideoStep) % UintMod
  BY DEF Paced
<1> HIDE DEF u, K
<1>6. /\ \A k \in K : u[k].pcr = Pcr(u[k].pts)
      /\ \A k \in K : First(k, K) => u[k].pcr = 0
      /\ \A i, j \in K : Adjacent(i, j, K) =>
           u[j].pcr = (u[i].pcr + (300 * VideoStep)) % UintMod
      /\ K = {} => clock = 0
      /\ \A k \in K : (\A m \in (k + 1)..Len(u) : m \notin K) =>
           clock = (u[k].pts + VideoStep) % UintMod
  BY <1>3, <1>4, <1>5
<1> HIDE DEF L
<1> QED BY <1>2, <1>6 DEF Paced, u, L
-----------------------------------------------------------------------------
\* Entries of other sinks, audio, and frames after the parameter sets leave a
\* sink as it is.
LEMMA HeadedAppend ==
  ASSUME NEW t \in Seq(Entry), NEW e \in Entry, NEW s, NEW init \in BOOLEAN,
         Headed(t, s, init),
         e.sink = s => e.unit = "aac" \/ (init /\ e.unit \notin Sets)
  PROVE  Headed(Append(t, e), s, init)
<1> DEFINE u == Append(t, e)
<1>1. /\ Len(u) = Len(t) + 1
      /\ \A k \in 1..Len(t) : u[k] = t[k]
      /\ u[Len(t) + 1] = e
      /\ Len(t) \in Nat
  BY AppendFacts
<1> HIDE DEF u
<1>2. CASE init
  <2>1. PICK j \in 1..Len(t) : HeadsAt(t, s, j)
    BY <1>2 DEF Headed
  <2>2. j \in 1..(Len(t) - 1) /\ j + 1 \in 1..Len(t)
    BY <1>1, <2>1 DEF HeadsAt
  <2>3. ASSUME NEW m \in 1..Len(u), u[m].sink = s
        PROVE  /\ u[m].unit \in Sets => m \in {j, j + 1}
               /\ IsFrame(u[m]) => j <= m - 2
    <3>1. CASE m \in 1..Len(t)
      BY <1>1, <2>1, <2>3, <3>1 DEF HeadsAt
    <3>2. CASE m = Len(t) + 1
      BY <1>1, <1>2, <2>2, <2>3, <3>2 DEF Sets
    <3> QED BY <1>1, <3>1, <3>2
  <2>4. HeadsAt(u, s, j)
    BY <1>1, <2>1, <2>2, <2>3 DEF HeadsAt
  <2> QED BY <1>1, <1>2, <2>2, <2>4 DEF Headed, u
<1>3. CASE ~init
  BY <1>1, <1>3 DEF Headed, u
<1> QED BY <1>2, <1>3

\* The first frame of a sink brings its parameter sets.
LEMMA HeadedFirst ==
  ASSUME NEW t \in Seq(Entry), NEW s, NEW a \in Entry, NEW b \in Entry,
         NEW c \in Entry, Headed(t, s, FALSE),
         a.sink = s, a.unit = "sps", b.sink = s, b.unit = "pps", IsFrame(c)
  PROVE  Headed(Append(Append(Append(t, a), b), c), s, TRUE)
<1> DEFINE u == Append(Append(Append(t, a), b), c)
           j == Len(t) + 1
<1>1. /\ Len(u) = Len(t) + 3
      /\ \A k \in 1..Len(t) : u[k] = t[k]
      /\ u[j] = a /\ u[j + 1] = b /\ u[j + 2] = c
      /\ Len(t) \in Nat
  BY AppendFacts
<1>2. \A m \in 1..Len(t) : t[m].sink = s => t[m].unit = "aac"
  BY DEF Headed
<1> HIDE DEF u
<1>3. ASSUME NEW m \in 1..Len(u), u[m].sink = s
      PROVE  /\ u[m].unit \in Sets => m \in {j, j + 1}
             /\ IsFrame(u[m]) => j <= m - 2
  <2>1. CASE m \in 1..Len(t)
    BY <1>1, <1>2, <1>3, <2>1 DEF Sets, IsFrame
  <2>2. CASE m \in {j, j + 1, j + 2}
    BY <1>1, <2>2 DEF Sets, IsFrame
  <2> QED BY <1>1, <2>1, <2>2
<1>4. HeadsAt(u, s, j)
  BY <1>1, <1>3 DEF HeadsAt
<1> QED BY <1>1, <1>4 DEF Headed, u

\* A sink without parameter sets has no frames, and gets none from others.
LEMMA NoFrames ==
  ASSUME NEW t \in Seq(Entry), NEW s, Headed(t, s, FALSE)
  PROVE  /\ NoFrameOf(t, s)
         /\ \A e \in Entry : ~IsFrame(e) => NoFrameOf(Append(t, e), s)
<1>1. NoFrameOf(t, s)
  BY DEF Headed, NoFrameOf, IsFrame
<1>2. ASSUME NEW e \in Entry, ~IsFrame(e) PROVE NoFrameOf(Append(t, e), s)
  <2> DEFINE u == Append(t, e)
  <2>1. /\ Len(u) = Len(t) + 1
        /\ \A k \in 1..Len(t) : u[k] = t[k]
        /\ u[Len(t) + 1] = e
        /\ Len(t) \in Nat
    BY AppendFacts
  <2> HIDE DEF u
  <2> QED BY <1>1, <1>2, <2>1 DEF NoFrameOf, u
<1> QED BY <1>1, <1>2

\* An entry that is no frame, and the next frame, are well recorded.
LEMMA RecordedAppend ==
  ASSUME NEW t \in Seq(Entry), NEW e \in Entry, NEW r \in Seq(Sinks), NEW s \in Sinks,
         Recorded(t, r)
  PROVE  /\ Recorded(t, Append(r, s))
         /\ ~IsFrame(e) => Recorded(Append(t, e), r)
         /\ e.n = Len(r) + 1 => Recorded(Append(t, e), Append(r, s))
<1> DEFINE u == Append(t, e)
           q == Append(r, s)
<1>1. /\ Len(u) = Len(t) + 1
      /\ \A k \in 1..Len(t) : u[k] = t[k]
      /\ u[Len(t) + 1] = e
      /\ Len(t) \in Nat
      /\ Len(q) = Len(r) + 1
      /\ Len(r) \in Nat
  BY AppendFacts
<1> HIDE DEF u, q
<1>2. /\ \A k \in 1..Len(t) : IsFrame(t[k]) => t[k].n \in 1..Len(r)
      /\ \A j, k \in 1..Len(t) :
           j < k /\ IsFrame(t[j]) /\ IsFrame(t[k]) => t[j].n < t[k].n
  BY DEF Recorded
<1>3. Recorded(t, q)
  BY <1>1, <1>2 DEF Recorded
<1>4. ASSUME ~IsFrame(e) PROVE Recorded(u, r)
  BY <1>1, <1>2, <1>4 DEF Recorded
<1>5. ASSUME e.n = Len(r) + 1 PROVE Recorded(u, q)
  <2>1. \A k \in 1..Len(u) : IsFrame(u[k]) => u[k].n \in 1..Len(q)
    BY <1>1, <1>2, <1>5
  <2>2. ASSUME NEW j \in 1..Len(u), NEW k \in 1..Len(u),
               j < k, IsFrame(u[j]), IsFrame(u[k])
        PROVE  u[j].n < u[k].n
    <3>1. j \in 1..Len(t) /\ u[j] = t[j] /\ t[j].n \in 1..Len(r)
      BY <1>1, <1>2, <2>2
    <3>2. CASE k \in 1..Len(t)
      BY <1>1, <1>2, <2>2, <3>1, <3>2
    <3>3. CASE k = Len(t) + 1
      BY <1>1, <1>5, <3>1, <3>3
    <3> QED BY <1>1, <3>2, <3>3
  <2> QED BY <2>1, <2>2 DEF Recorded
<1> QED BY <1>3, <1>4, <1>5 DEF u, q

\* No frame disappears; one of another medium, or the next one, is taken in.
LEMMA AllInAppend ==
  ASSUME NEW t \in Seq(Entry), NEW e \in Entry, NEW r \in Seq(Sinks), NEW s \in Sinks,
         AllIn(t, r, Len(r))
  PROVE  /\ AllIn(Append(t, e), r, Len(r))
         /\ Medium[s] # "video" => AllIn(t, Append(r, s), Len(r) + 1)
         /\ IsFrame(e) /\ e.n = Len(r) + 1 /\ e.sink = s =>
              AllIn(Append(t, e), Append(r, s), Len(r) + 1)
<1> DEFINE u == Append(t, e)
           q == Append(r, s)
<1>1. /\ Len(u) = Len(t) + 1
      /\ \A k \in 1..Len(t) : u[k] = t[k]
      /\ u[Len(t) + 1] = e
      /\ Len(t) \in Nat
      /\ \A k \in 1..Len(r) : q[k] = r[k]
      /\ q[Len(r) + 1] = s
      /\ Len(r) \in Nat
  BY AppendFacts
<1> HIDE DEF u, q
<1>2. \A n \in 1..Len(r) : Medium[r[n]] = "video" =>
        \E k \in 1..Len(t) : IsFrame(t[k]) /\ t[k].n = n /\ t[k].sink = r[n]
  BY DEF AllIn
<1>3. AllIn(u, r, Len(r))
  <2> SUFFICES ASSUME NEW n \in 1..Len(r), Medium[r[n]] = "video"
               PROVE  \E k \in 1..Len(u) :
                        IsFrame(u[k]) /\ u[k].n = n /\ u[k].sink = r[n]
    BY DEF AllIn
  <2>1. PICK k \in 1..Len(t) : IsFrame(t[k]) /\ t[k].n = n /\ t[k].sink = r[n]
    BY <1>2
  <2>2. k \in 1..Len(u) /\ u[k] = t[k]
    BY <1>1
  <2> QED BY <2>1, <2>2
<1>4. ASSUME Medium[s] # "video" PROVE AllIn(t, q, Len(r) + 1)
  BY <1>1, <1>2, <1>4 DEF AllIn
<1>5. ASSUME IsFrame(e), e.n = Len(r) + 1, e.sink = s
      PROVE  AllIn(u, q, Len(r) + 1)
  <2> SUFFICES ASSUME NEW n \in 1..(Len(r) + 1), Medium[q[n]] = "video"
               PROVE  \E k \in 1..Len(u) :
                        IsFrame(u[k]) /\ u[k].n = n /\ u[k].sink = q[n]
    BY DEF AllIn
  <2>1. CASE n \in 1..Len(r)
    BY <1>1, <1>3, <2>1 DEF AllIn
  <2>2. CASE n = Len(r) + 1
    BY <1>1, <1>5, <2>2
  <2> QED BY <1>1, <2>1, <2>2
<1> QED BY <1>3, <1>4, <1>5 DEF u, q
-----------------------------------------------------------------------------
\* Concatenation with one entry and with three, as PES2TS is called.
LEMMA ConcatOneOrThree ==
  ASSUME NEW S, NEW t \in Seq(S), NEW a \in S, NEW b \in S, NEW c \in S
  PROVE  /\ t \o <<a>> = Append(t, a)
         /\ t \o <<a, b, c>> = Append(Append(Append(t, a), b), c)
<1>1. /\ <<a>> \in Seq(S) /\ <<a, b, c>> \in Seq(S)
      /\ Len(<<a>>) = 1 /\ Len(<<a, b, c>>) = 3
      /\ Len(t) \in Nat
  OBVIOUS
<1>2. /\ Append(t, a) \in Seq(S) /\ Len(Append(t, a)) = Len(t) + 1
      /\ \A k \in 1..Len(t) : Append(t, a)[k] = t[k]
      /\ Append(t, a)[Len(t) + 1] = a
  BY AppendFacts
<1>3. t \o <<a>> = Append(t, a)
  <2>1. /\ t \o <<a>> \in Seq(S) /\ Len(t \o <<a>>) = Len(t) + 1
        /\ \A k \in 1..(Len(t) + 1) :
             (t \o <<a>>)[k] = IF k <= Len(t) THEN t[k] ELSE <<a>>[k - Len(t)]
    BY <1>1, ConcatProperties
  <2>2. \A k \in 1..(Len(t) + 1) : (t \o <<a>>)[k] = Append(t, a)[k]
    BY <1>1, <1>2, <2>1
  <2> QED BY <1>2, <2>1, <2>2, SeqEqual
<1>4. t \o <<a, b, c>> = Append(Append(Append(t, a), b), c)
  <2> DEFINE v == Append(Append(Append(t, a), b), c)
  <2>1. /\ t \o <<a, b, c>> \in Seq(S) /\ Len(t \o <<a, b, c>>) = Len(t) + 3
        /\ \A k \in 1..(Len(t) + 3) :
             (t \o <<a, b, c>>)[k] =
               IF k <= Len(t) THEN t[k] ELSE <<a, b, c>>[k - Len(t)]
    BY <1>1, ConcatProperties
  <2>2. /\ v \in Seq(S) /\ Len(v) = Len(t) + 3
        /\ \A k \in 1..Len(t) : v[k] = t[k]
        /\ v[Len(t) + 1] = a /\ v[Len(t) + 2] = b /\ v[Len(t) + 3] = c
    BY <1>2, AppendFacts
  <2> HIDE DEF v
  <2>3. ASSUME NEW k \in 1..(Len(t) + 3) PROVE (t \o <<a, b, c>>)[k] = v[k]
    <3>1. CASE k \in 1..Len(t)
      BY <1>1, <2>1, <2>2, <3>1
    <3>2. CASE k = Len(t) + 1
      BY <1>1, <2>1, <2>2, <3>2
    <3>3. CASE k = Len(t) + 2
      BY <1>1, <2>1, <2>2, <3>3
    <3>4. CASE k = Len(t) + 3
      BY <1>1, <2>1, <2>2, <3>4
    <3> QED BY <1>1, <3>1, <3>2, <3>3, <3>4
  <2>4. t \o <<a, b, c>> = v
    BY <2>1, <2>2, <2>3, SeqEqual
  <2> QED BY <2>4 DEF v
<1> QED BY <1>3, <1>4

\* A pair and one more make three.
LEMMA PairAndOne ==
  ASSUME NEW x, NEW y, NEW z
  PROVE  <<x, y>> \o <<z>> = <<x, y, z>>
<1>1. /\ <<x, y>> \in Seq({x, y, z}) /\ <<z>> \in Seq({x, y, z})
      /\ <<x, y, z>> \in Seq({x, y, z})
      /\ Len(<<x, y>>) = 2 /\ Len(<<z>>) = 1 /\ Len(<<x, y, z>>) = 3
  OBVIOUS
<1>2. /\ <<x, y>> \o <<z>> \in Seq({x, y, z})
      /\ Len(<<x, y>> \o <<z>>) = 3
      /\ \A k \in 1..3 : (<<x, y>> \o <<z>>)[k] =
                           IF k <= 2 THEN <<x, y>>[k] ELSE <<z>>[k - 2]
  BY <1>1, ConcatProperties
<1>3. \A k \in 1..3 : (<<x, y>> \o <<z>>)[k] = <<x, y, z>>[k]
  BY <1>2
<1> QED BY <1>1, <1>2, <1>3, SeqEqual

\* The first element of a pair.
LEMMA FirstOfPair ==
  ASSUME NEW x, NEW y
  PROVE  SubSeq(<<x, y>>, 1, 1) = <<x>>
<1>1. \A i \in 1..1 : <<x, y>>[i] \in {x, y}
  OBVIOUS
<1>2. /\ SubSeq(<<x, y>>, 1, 1) \in Seq({x, y})
      /\ Len(SubSeq(<<x, y>>, 1, 1)) = 1
      /\ \A i \in 1..1 : SubSeq(<<x, y>>, 1, 1)[i] = <<x, y>>[i]
  <2> DEFINE t == <<x, y>>
  <2>1. \A i \in 1..1 : t[i] \in {x, y}
    BY <1>1
  <2> HIDE DEF t
  <2>2. /\ SubSeq(t, 1, 1) \in Seq({x, y})
        /\ Len(SubSeq(t, 1, 1)) = 1
        /\ \A i \in 1..1 : SubSeq(t, 1, 1)[i] = t[i]
    BY <2>1, SubSeqProperties
  <2> QED BY <2>2 DEF t
<1>3. <<x>> \in Seq({x, y}) /\ Len(<<x>>) = 1 /\ <<x>>[1] = <<x, y>>[1]
  OBVIOUS
<1> DEFINE u == SubSeq(<<x, y>>, 1, 1)
           v == <<x>>
<1>4. /\ u \in Seq({x, y}) /\ v \in Seq({x, y}) /\ Len(u) = Len(v)
      /\ \A i \in 1..Len(u) : u[i] = v[i]
  BY <1>2, <1>3
<1> HIDE DEF u, v
<1>5. u = v
  BY <1>4, SeqEqual
<1> QED BY <1>5 DEF u, v

\* A parameter set, before the frame of its sink: nothing but the sink changes.
LEMMA AppendSet ==
  ASSUME NEW t \in Seq(Entry), NEW e \in Entry, NEW video \in 0..(UintMod - 1), NEW audio,
         NEW r \in Seq(Sinks), e.pid = "video", e.pts = video, e.unit \in Sets,
         Timed(t, "video", video), Timed(t, "audio", audio), Paced(t, video),
         Recorded(t, r)
  PROVE  LET u == Append(t, e)
         IN  /\ u \in Seq(Entry)
             /\ Timed(u, "video", video) /\ Timed(u, "audio", audio)
             /\ Paced(u, video) /\ Recorded(u, r)
<1>1. Duration(e) = 0 /\ (video + Duration(e)) % UintMod = video
  BY DurationType, ModSmall DEF Sets
<1>2. Timed(Append(t, e), "video", (video + Duration(e)) % UintMod)
  BY TimedOwn
<1>3. Timed(Append(t, e), "audio", audio)
  BY TimedOther
<1>4. Paced(Append(t, e), video)
  BY PacedOther DEF Sets
<1>5. ~IsFrame(e)
  BY DEF IsFrame, Sets
<1>6. PICK s \in Sinks : e.sink = s
  BY DEF Entry
<1>7. Recorded(Append(t, e), r)
  BY <1>5, <1>6, RecordedAppend
<1>8. Append(t, e) \in Seq(Entry)
  BY AppendFacts
<1> QED BY <1>1, <1>2, <1>3, <1>4, <1>7, <1>8

\* A frame of a sink that has its parameter sets.
LEMMA AppendFrame ==
  ASSUME NEW t \in Seq(Entry), NEW e \in Entry, NEW video \in 0..(UintMod - 1), NEW audio,
         NEW r \in Seq(Sinks), NEW s \in Sinks,
         e.pid = "video", e.pts = video, IsFrame(e), e.n = Len(r) + 1, e.sink = s,
         e.unit = "slice" => e.pcr = Pcr(video),
         Timed(t, "video", video), Timed(t, "audio", audio), Paced(t, video),
         Recorded(t, r), AllIn(t, r, Len(r))
  PROVE  LET u    == Append(t, e)
             next == IF e.unit = "slice" THEN (video + VideoStep) % UintMod ELSE video
         IN  /\ u \in Seq(Entry)
             /\ Timed(u, "video", next) /\ Timed(u, "audio", audio)
             /\ Paced(u, next) /\ Recorded(u, Append(r, s))
             /\ AllIn(u, Append(r, s), Len(r) + 1)
<1> DEFINE u    == Append(t, e)
           next == IF e.unit = "slice" THEN (video + VideoStep) % UintMod ELSE video
<1>1. next = (video + Duration(e)) % UintMod
  BY DurationType, ModSmall DEF IsFrame
<1>2. Timed(u, "video", (video + Duration(e)) % UintMod)
  BY TimedOwn
<1>3. Timed(u, "audio", audio)
  BY TimedOther
<1>4. Paced(u, next)
  BY PacedOther, PacedSlice
<1>5. Recorded(u, Append(r, s))
  BY RecordedAppend
<1>6. AllIn(u, Append(r, s), Len(r) + 1)
  BY AllInAppend
<1>7. u \in Seq(Entry)
  BY AppendFacts
<1> HIDE DEF u, next
<1>8. Timed(u, "video", next)
  BY <1>1, <1>2
<1> QED BY <1>3, <1>4, <1>5, <1>6, <1>7, <1>8 DEF u, next

\* How PES2TS is called for a unit of a sink.
LEMMA VideoEntryFacts ==
  ASSUME LiveTypeOK, NEW s \in Sinks, NEW n \in Nat,
         NEW unit \in {"sps", "pps", "slice", "other"}
  PROVE  LET e == VideoEntry(Unit(unit, s, n))
         IN  /\ e \in Entry
             /\ e.pid = "video" /\ e.unit = unit /\ e.sink = s /\ e.n = n
             /\ e.pts = Timestamp_video
             /\ unit = "slice" => e.pcr = Pcr(Timestamp_video)
<1>1. Timestamp_video \in 0..(UintMod - 1) /\ Timestamp_video * 300 \in Int
  BY UintModAssumption DEF LiveTypeOK
<1>2. Pcr(Timestamp_video) \in 0..(UintMod - 1)
  BY <1>1, ModRange DEF Pcr
<1>3. Pcr(Timestamp_video) \in -1..(UintMod - 1) /\ NoPcr \in -1..(UintMod - 1)
  BY <1>2, UintModAssumption DEF NoPcr
<1> QED BY <1>1, <1>3 DEF VideoEntry, Unit, Entry

\* The units of a frame as entries: one, or three.
LEMMA WriteVideoCases ==
  ASSUME LiveTypeOK, NEW s \in Sinks, NEW n \in Nat, NEW unit \in {"slice", "other"},
         WriteVideo(UnitsOf(s, Unit(unit, s, n))),
         WriteH264(UnitsOf(s, Unit(unit, s, n)))
  PROVE  LET a == VideoEntry(Unit("sps", s, n))
             b == VideoEntry(Unit("pps", s, n))
             c == VideoEntry(Unit(unit, s, n))
         IN  /\ bInitHead[s] => ts' = Append(ts, c)
             /\ ~bInitHead[s] => ts' = Append(Append(Append(ts, a), b), c)
             /\ Timestamp_video' = IF unit = "slice"
                                   THEN (Timestamp_video + VideoStep) % UintMod
                                   ELSE Timestamp_video
             /\ h264' \in Seq(VideoUnit)
<1> DEFINE a == VideoEntry(Unit("sps", s, n))
           b == VideoEntry(Unit("pps", s, n))
           c == VideoEntry(Unit(unit, s, n))
           x == Unit("sps", s, n)
           y == Unit("pps", s, n)
           z == Unit(unit, s, n)
           U == VideoUnit
           us == UnitsOf(s, z)
<1>1. a \in Entry /\ b \in Entry /\ c \in Entry /\ ts \in Seq(Entry)
  BY VideoEntryFacts DEF LiveTypeOK
<1>2. /\ x \in U /\ y \in U /\ z \in U
      /\ x.unit = "sps" /\ y.unit = "pps" /\ z.unit = unit
  BY DEF Unit, VideoUnit
<1>3. /\ ts' = ts \o Entries(us)
      /\ h264' = h264 \o us
      /\ Timestamp_video' = ClockAfter(us)
  BY DEF WriteVideo, WriteH264
<1> HIDE DEF a, b, c, x, y, z, U, us
<1>4. CASE bInitHead[s]
  <2>1. us = <<z>>
    BY <1>4 DEF us, UnitsOf, z
  <2>2. Entries(us) = <<c>>
    BY <2>1 DEF Entries, c, z
  <2>3. ts' = Append(ts, c)
    BY <1>1, <1>3, <2>2, ConcatOneOrThree
  <2>4. Timestamp_video' = IF unit = "slice"
                           THEN (Timestamp_video + VideoStep) % UintMod
                           ELSE Timestamp_video
    BY <1>2, <1>3, <2>1 DEF ClockAfter
  <2>5. us \in Seq(U)
    BY <1>2, <2>1
  <2>6. h264 \in Seq(U)
    BY DEF LiveTypeOK, U, VideoUnit
  <2>7. h264' \in Seq(U)
    BY <1>3, <2>5, <2>6, ConcatProperties
  <2> QED BY <1>4, <2>3, <2>4, <2>7 DEF a, b, c, U, x, y, z
<1>5. CASE ~bInitHead[s]
  <2>1. z.n = n
    BY DEF z, Unit
  <2>2. us = <<x, y>> \o <<z>>
    BY <1>5, <2>1 DEF us, UnitsOf, Heads, x, y, z
  <2>3. us = <<x, y, z>>
    BY <2>2, PairAndOne
  <2>4. Entries(us) = <<a, b, c>>
    BY <2>3 DEF Entries, a, b, c, x, y, z
  <2>5. ts' = Append(Append(Append(ts, a), b), c)
    BY <1>1, <1>3, <2>4, ConcatOneOrThree
  <2>6. Timestamp_video' = IF unit = "slice"
                           THEN (Timestamp_video + VideoStep) % UintMod
                           ELSE Timestamp_video
    BY <1>2, <1>3, <2>3 DEF ClockAfter
  <2>7. us \in Seq(U)
    BY <1>2, <2>3
  <2>8. h264 \in Seq(U)
    BY DEF LiveTypeOK, U, VideoUnit
  <2>9. h264' \in Seq(U)
    BY <1>3, <2>7, <2>8, ConcatProperties
  <2> QED BY <1>5, <2>5, <2>6, <2>9 DEF a, b, c, U, x, y, z
<1> QED BY <1>4, <1>5 DEF a, b, c

\* A frame of a video sink.
LEMMA VideoFrameInv ==
  ASSUME LiveInv, ~undefined, NEW s \in Sinks, VideoFrame(s)
  PROVE  LiveInv'
<1> DEFINE n == Len(received) + 1
<1>1. /\ received \in Seq(Sinks) /\ received' = Append(received, s)
      /\ Len(received') = n /\ n \in Nat /\ received' \in Seq(Sinks)
      /\ Medium[s] = "video"
  BY AppendFacts DEF LiveInv, LiveTypeOK, VideoFrame, Gets
<1>2. PICK unit \in {"slice", "other"} :
        /\ WriteVideo(UnitsOf(s, Unit(unit, s, n)))
        /\ WriteH264(UnitsOf(s, Unit(unit, s, n)))
  BY <1>1 DEF VideoFrame
<1> HIDE DEF n
<1> DEFINE a == VideoEntry(Unit("sps", s, n))
           b == VideoEntry(Unit("pps", s, n))
           c == VideoEntry(Unit(unit, s, n))
           next == IF unit = "slice" THEN (Timestamp_video + VideoStep) % UintMod
                   ELSE Timestamp_video
<1>3. /\ LiveTypeOK /\ ts \in Seq(Entry) /\ Timestamp_video \in 0..(UintMod - 1)
      /\ Timed(ts, "video", Timestamp_video)
      /\ Timed(ts, "audio", Timestamp_audio)
      /\ Paced(ts, Timestamp_video)
      /\ \A q \in Sinks : Headed(ts, q, bInitHead[q])
      /\ Recorded(ts, received)
      /\ AllIn(ts, received, Len(received))
      /\ bInitHead \in [Sinks -> BOOLEAN]
      /\ bInitHead' = [bInitHead EXCEPT ![s] = TRUE]
      /\ UNCHANGED <<Timestamp_audio, aac, undefined>>
  BY DEF LiveInv, LiveTypeOK, VideoFrame
<1>4. /\ bInitHead[s] => ts' = Append(ts, c)
      /\ ~bInitHead[s] => ts' = Append(Append(Append(ts, a), b), c)
      /\ Timestamp_video' = next
      /\ h264' \in Seq([unit : {"sps", "pps", "slice", "other"},
                        sink : Sinks, n : Nat])
  BY <1>1, <1>2, <1>3, WriteVideoCases DEF n, VideoUnit
<1>5. /\ a \in Entry /\ a.pid = "video" /\ a.unit = "sps" /\ a.sink = s
      /\ a.pts = Timestamp_video
      /\ b \in Entry /\ b.pid = "video" /\ b.unit = "pps" /\ b.sink = s
      /\ b.pts = Timestamp_video
      /\ c \in Entry /\ c.pid = "video" /\ c.unit = unit /\ c.sink = s /\ c.n = n
      /\ c.pts = Timestamp_video /\ (unit = "slice" => c.pcr = Pcr(Timestamp_video))
  BY <1>1, <1>3, VideoEntryFacts
<1>6. IsFrame(c)
  BY <1>5 DEF IsFrame
<1>7. next \in 0..(UintMod - 1)
  <2>1. Timestamp_video + VideoStep \in Int
    BY <1>3 DEF VideoStep
  <2> QED BY <1>3, <2>1, ModRange
<1> HIDE DEF a, b, c
<1>8. /\ ts' \in Seq(Entry)
      /\ Timed(ts', "video", next) /\ Timed(ts', "audio", Timestamp_audio)
      /\ Paced(ts', next) /\ Recorded(ts', received')
      /\ AllIn(ts', received', Len(received'))
      /\ \A q \in Sinks : Headed(ts', q, bInitHead'[q])
  <2>1. CASE bInitHead[s]
    <3>1. ts' = Append(ts, c)
      BY <1>4, <2>1
    <3>2. /\ ts' \in Seq(Entry)
          /\ Timed(ts', "video", next) /\ Timed(ts', "audio", Timestamp_audio)
          /\ Paced(ts', next) /\ Recorded(ts', received')
          /\ AllIn(ts', received', Len(received'))
      BY <1>1, <1>3, <1>5, <1>6, <3>1, AppendFrame DEF n
    <3>3. bInitHead' = bInitHead
      BY <1>3, <2>1
    <3>4. ASSUME NEW q \in Sinks PROVE Headed(Append(ts, c), q, bInitHead[q])
      <4>1. c.sink = q => bInitHead[q] /\ c.unit \notin Sets
        BY <1>5, <2>1 DEF Sets
      <4>2. Headed(ts, q, bInitHead[q]) /\ bInitHead[q] \in BOOLEAN
        BY <1>3
      <4> QED BY <1>3, <1>5, <4>1, <4>2, HeadedAppend
    <3> QED BY <1>4, <2>1, <3>2, <3>3, <3>4
  <2>2. CASE ~bInitHead[s]
    <3> DEFINE t1 == Append(ts, a)
               t2 == Append(t1, b)
    <3>1. a.unit \in Sets /\ b.unit \in Sets /\ ~IsFrame(a) /\ ~IsFrame(b)
      BY <1>5 DEF Sets, IsFrame
    <3>2. /\ t1 \in Seq(Entry)
          /\ Timed(t1, "video", Timestamp_video) /\ Timed(t1, "audio", Timestamp_audio)
          /\ Paced(t1, Timestamp_video) /\ Recorded(t1, received)
      BY <1>1, <1>3, <1>5, <3>1, AppendSet
    <3>3. AllIn(t1, received, Len(received))
      BY <1>1, <1>3, <1>5, AllInAppend
    <3> HIDE DEF t1
    <3>4. /\ t2 \in Seq(Entry)
          /\ Timed(t2, "video", Timestamp_video) /\ Timed(t2, "audio", Timestamp_audio)
          /\ Paced(t2, Timestamp_video) /\ Recorded(t2, received)
      BY <1>1, <1>3, <1>5, <3>1, <3>2, AppendSet
    <3>5. AllIn(t2, received, Len(received))
      BY <1>1, <1>5, <3>2, <3>3, AllInAppend
    <3> HIDE DEF t2
    <3>6. ts' = Append(t2, c)
      BY <1>4, <2>2 DEF t1, t2
    <3>7. /\ ts' \in Seq(Entry)
          /\ Timed(ts', "video", next) /\ Timed(ts', "audio", Timestamp_audio)
          /\ Paced(ts', next) /\ Recorded(ts', received')
          /\ AllIn(ts', received', Len(received'))
      BY <1>1, <1>3, <1>5, <1>6, <3>4, <3>5, <3>6, AppendFrame DEF n
    <3>8. Headed(ts', s, bInitHead'[s])
      <4>1. Headed(ts, s, FALSE) /\ bInitHead'[s] = TRUE
        BY <1>3, <2>2
      <4>2. Headed(Append(Append(Append(ts, a), b), c), s, TRUE)
        BY <1>3, <1>5, <1>6, <4>1, HeadedFirst
      <4> QED BY <1>4, <2>2, <4>1, <4>2
    <3>9. ASSUME NEW q \in Sinks, q # s PROVE Headed(ts', q, bInitHead'[q])
      <4>1. bInitHead'[q] = bInitHead[q] /\ bInitHead[q] \in BOOLEAN
        BY <1>3, <3>9
      <4>2. Headed(ts, q, bInitHead[q]) /\ a.sink # q /\ b.sink # q /\ c.sink # q
        BY <1>3, <1>5, <3>9
      <4>3. Headed(t1, q, bInitHead[q])
        BY <1>3, <1>5, <4>1, <4>2, HeadedAppend DEF t1
      <4>4. Headed(t2, q, bInitHead[q])
        BY <1>5, <3>2, <4>1, <4>2, <4>3, HeadedAppend DEF t2
      <4>5. Headed(Append(t2, c), q, bInitHead[q])
        BY <1>5, <3>4, <4>1, <4>2, <4>4, HeadedAppend
      <4> QED BY <3>6, <4>1, <4>5
    <3> QED BY <3>7, <3>8, <3>9
  <2> QED BY <2>1, <2>2
<1> HIDE DEF next
<1>9. LiveTypeOK'
  BY <1>1, <1>3, <1>4, <1>7, <1>8 DEF LiveTypeOK
<1> QED BY <1>3, <1>4, <1>8, <1>9 DEF LiveInv

\* Too few parameter sets: none or one is written, before any frame.
LEMMA NoParameterSetsInv ==
  ASSUME LiveInv, ~undefined, NEW s \in Sinks, NoParameterSets(s)
  PROVE  LiveInv'
<1> DEFINE n == Len(received) + 1
           U == [unit : {"sps", "pps", "slice", "other"}, sink : Sinks, n : Nat]
           a == VideoEntry(Unit("sps", s, n))
           x == Unit("sps", s, n)
           y == Unit("pps", s, n)
<1>1. /\ received \in Seq(Sinks) /\ received' = Append(received, s)
      /\ Len(received') = n /\ n \in Nat /\ received' \in Seq(Sinks)
  BY AppendFacts DEF LiveInv, LiveTypeOK, NoParameterSets, Gets
<1> HIDE DEF n
<1>2. PICK num \in {0, 1} :
        WriteVideo(SubSeq(<<x, y>>, 1, num)) /\ WriteH264(SubSeq(<<x, y>>, 1, num))
  BY <1>1 DEF NoParameterSets, Heads
<1>3. /\ LiveTypeOK /\ ts \in Seq(Entry) /\ Timestamp_video \in 0..(UintMod - 1)
      /\ Timed(ts, "video", Timestamp_video)
      /\ Timed(ts, "audio", Timestamp_audio)
      /\ Paced(ts, Timestamp_video)
      /\ \A q \in Sinks : Headed(ts, q, bInitHead[q])
      /\ Recorded(ts, received)
      /\ bInitHead \in [Sinks -> BOOLEAN]
      /\ ~bInitHead[s] /\ undefined'
      /\ undefined' \in BOOLEAN
      /\ UNCHANGED <<bInitHead, Timestamp_audio, aac>>
  BY DEF LiveInv, LiveTypeOK, NoParameterSets
<1>4. x \in U /\ x.unit = "sps" /\ y \in U
  BY <1>1 DEF Unit
<1>5. /\ a \in Entry /\ a.pid = "video" /\ a.unit = "sps" /\ a.sink = s
      /\ a.pts = Timestamp_video
  BY <1>1, <1>3, VideoEntryFacts
<1>6. a.unit \in Sets /\ ~IsFrame(a)
  BY <1>5 DEF Sets, IsFrame
<1>7. CASE num = 0
  <2>1. SubSeq(<<x, y>>, 1, 0) = <<>>
    BY SubSeqEmpty
  <2>2. ts' = ts \o Entries(<<>>) /\ h264' = h264 \o <<>> /\ Timestamp_video' = ClockAfter(<<>>)
    BY <1>2, <1>7, <2>1 DEF WriteVideo, WriteH264
  <2>3. Entries(<<>>) = <<>> /\ ClockAfter(<<>>) = Timestamp_video
    BY DEF Entries, ClockAfter
  <2>4. ts' = ts /\ h264' = h264 /\ Timestamp_video' = Timestamp_video
    BY <1>3, <2>2, <2>3, ConcatEmptySeq DEF LiveTypeOK
  <2>5. Recorded(ts, received')
    BY <1>1, <1>3, <1>5, RecordedAppend
  <2>6. LiveTypeOK'
    BY <1>1, <1>3, <2>4 DEF LiveTypeOK
  <2> QED BY <1>3, <2>4, <2>5, <2>6 DEF LiveInv
<1>8. CASE num = 1
  <2>1. SubSeq(<<x, y>>, 1, 1) = <<x>>
    BY FirstOfPair
  <2>2. ts' = ts \o Entries(<<x>>) /\ h264' = h264 \o <<x>> /\ Timestamp_video' = ClockAfter(<<x>>)
    BY <1>2, <1>8, <2>1 DEF WriteVideo, WriteH264
  <2>3. Entries(<<x>>) = <<a>>
    BY DEF Entries
  <2> HIDE DEF a, x, y
  <2>4. ClockAfter(<<x>>) = Timestamp_video
    BY <1>4 DEF ClockAfter
  <2>5. ts' = Append(ts, a)
    BY <1>3, <1>5, <2>2, <2>3, ConcatOneOrThree
  <2>6. h264' \in Seq(U)
    <3>1. <<x>> \in Seq(U)
      BY <1>4
    <3> QED BY <1>3, <2>2, <3>1, ConcatProperties DEF LiveTypeOK
  <2>7. /\ ts' \in Seq(Entry)
        /\ Timed(ts', "video", Timestamp_video) /\ Timed(ts', "audio", Timestamp_audio)
        /\ Paced(ts', Timestamp_video) /\ Recorded(ts', received)
    BY <1>1, <1>3, <1>5, <1>6, <2>5, AppendSet
  <2>8. Recorded(ts', received')
    BY <1>1, <1>5, <2>7, RecordedAppend
  <2>9. ASSUME NEW q \in Sinks PROVE Headed(ts', q, bInitHead[q]) \/ NoFrameOf(ts', q)
    <3>1. CASE q = s
      <4>1. Headed(ts, s, FALSE)
        BY <1>3
      <4> QED BY <1>3, <1>5, <1>6, <2>5, <3>1, <4>1, NoFrames
    <3>2. CASE q # s
      <4>1. a.sink # q /\ Headed(ts, q, bInitHead[q]) /\ bInitHead[q] \in BOOLEAN
        BY <1>3, <1>5, <3>2
      <4> QED BY <1>3, <1>5, <2>5, <4>1, HeadedAppend
    <3> QED BY <3>1, <3>2
  <2>10. LiveTypeOK'
    BY <1>1, <1>3, <2>2, <2>4, <2>6, <2>7 DEF LiveTypeOK
  <2> QED BY <1>3, <2>2, <2>4, <2>7, <2>8, <2>9, <2>10 DEF LiveInv
<1> QED BY <1>2, <1>7, <1>8

\* A frame of an audio sink.
LEMMA AudioFrameInv ==
  ASSUME LiveInv, ~undefined, NEW s \in Sinks, AudioFrame(s)
  PROVE  LiveInv'
<1> DEFINE n == Len(received) + 1
           A == [sink : Sinks, nRet : 0..nMaxOutputBytes,
                 written : 0..nMaxOutputBytes]
<1>1. /\ received \in Seq(Sinks) /\ received' = Append(received, s)
      /\ Len(received') = n /\ n \in Nat /\ received' \in Seq(Sinks)
      /\ Medium[s] # "video"
  BY AppendFacts DEF LiveInv, LiveTypeOK, AudioFrame, Gets
<1> HIDE DEF n
<1>2. PICK nRet \in 0..nMaxOutputBytes :
        /\ WriteAudio(s, n, nRet)
        /\ aac' = Append(aac, [sink |-> s, nRet |-> nRet, written |-> nMaxOutputBytes])
  BY <1>1 DEF AudioFrame
<1>3. /\ LiveTypeOK /\ ts \in Seq(Entry) /\ Timestamp_audio \in 0..(UintMod - 1)
      /\ Timed(ts, "video", Timestamp_video)
      /\ Timed(ts, "audio", Timestamp_audio)
      /\ Paced(ts, Timestamp_video)
      /\ \A q \in Sinks : Headed(ts, q, bInitHead[q])
      /\ Recorded(ts, received)
      /\ AllIn(ts, received, Len(received))
      /\ bInitHead \in [Sinks -> BOOLEAN]
      /\ aac \in Seq(A)
      /\ UNCHANGED <<bInitHead, Timestamp_video, h264, undefined>>
  BY DEF LiveInv, LiveTypeOK, AudioFrame
<1>4. aac' \in Seq(A)
  <2>1. [sink |-> s, nRet |-> nRet, written |-> nMaxOutputBytes] \in A
    BY OutputAssumption
  <2> HIDE DEF A
  <2> QED BY <1>2, <1>3, <2>1, AppendFacts
<1> DEFINE e == [pid |-> "audio", unit |-> "aac", sink |-> s, n |-> n,
                 pts |-> Timestamp_audio, pcr |-> NoPcr]
<1>5. /\ e \in Entry /\ e.pid = "audio" /\ e.unit = "aac"
      /\ e.pts = Timestamp_audio /\ ~IsFrame(e) /\ Duration(e) = AudioStep
  BY <1>1, <1>3, UintModAssumption DEF Entry, NoPcr, IsFrame, Duration
<1>6. CASE nRet = 0
  <2>1. ts' = ts /\ Timestamp_audio' = Timestamp_audio
    BY <1>2, <1>6 DEF WriteAudio, AudioEntry
  <2>2. Recorded(ts, received') /\ AllIn(ts, received', Len(received'))
    BY <1>1, <1>3, <1>5, RecordedAppend, AllInAppend DEF n
  <2>3. LiveTypeOK'
    BY <1>1, <1>3, <1>4, <2>1 DEF LiveTypeOK
  <2> QED BY <1>3, <2>1, <2>2, <2>3 DEF LiveInv
<1>7. CASE nRet # 0
  <2>1. /\ ts' = Append(ts, e)
        /\ Timestamp_audio' = (Timestamp_audio + AudioStep) % UintMod
    BY <1>2, <1>7 DEF WriteAudio, AudioEntry
  <2> HIDE DEF e
  <2>2. Timestamp_audio' \in 0..(UintMod - 1)
    <3>1. Timestamp_audio + AudioStep \in Int
      BY <1>3 DEF AudioStep
    <3> QED BY <2>1, <3>1, ModRange
  <2>3. Timed(ts', "audio", Timestamp_audio')
    BY <1>3, <1>5, <2>1, TimedOwn
  <2>4. Timed(ts', "video", Timestamp_video) /\ Paced(ts', Timestamp_video)
    BY <1>3, <1>5, <2>1, TimedOther, PacedOther
  <2>5. ts' \in Seq(Entry) /\ Recorded(ts', received) /\ AllIn(ts', received, Len(received))
    BY <1>1, <1>3, <1>5, <2>1, AppendFacts, RecordedAppend, AllInAppend
  <2>6. Recorded(ts', received') /\ AllIn(ts', received', Len(received'))
    BY <1>1, <1>5, <2>5, RecordedAppend, AllInAppend DEF n
  <2>7. ASSUME NEW q \in Sinks PROVE Headed(ts', q, bInitHead[q])
    <3>1. Headed(ts, q, bInitHead[q]) /\ bInitHead[q] \in BOOLEAN
      BY <1>3
    <3> QED BY <1>3, <1>5, <2>1, <3>1, HeadedAppend
  <2>8. LiveTypeOK'
    BY <1>1, <1>3, <1>4, <2>2, <2>5 DEF LiveTypeOK
  <2> QED BY <1>3, <2>3, <2>4, <2>6, <2>7, <2>8 DEF LiveInv
<1> QED BY <1>6, <1>7

\* The encoder fails: nothing is written.
LEMMA EncoderFailedInv ==
  ASSUME LiveInv, ~undefined, NEW s \in Sinks, EncoderFailed(s)
  PROVE  LiveInv'
<1>1. /\ received' = Append(received, s) /\ received' \in Seq(Sinks)
      /\ undefined' /\ undefined' \in BOOLEAN
      /\ UNCHANGED <<bInitHead, Timestamp_video, Timestamp_audio, ts, h264, aac>>
  BY AppendFacts DEF EncoderFailed, Gets, LiveInv, LiveTypeOK
<1>2. Recorded(ts, Append(received, s))
  <2> DEFINE e == [pid |-> "audio", unit |-> "aac", sink |-> s, n |-> 0,
                   pts |-> Timestamp_audio, pcr |-> NoPcr]
  <2>1. e \in Entry
    BY UintModAssumption DEF Entry, NoPcr, LiveInv, LiveTypeOK
  <2> QED BY <2>1, RecordedAppend DEF LiveInv, LiveTypeOK
<1>3. LiveTypeOK'
  BY <1>1 DEF LiveInv, LiveTypeOK
<1> QED BY <1>1, <1>2, <1>3 DEF LiveInv

\* The empty file.
LEMMA LiveInitInv == LiveInit => LiveInv
<1> SUFFICES ASSUME LiveInit PROVE LiveInv
  OBVIOUS
<1>1. /\ ts = <<>> /\ h264 = <<>> /\ aac = <<>> /\ received = <<>> /\ Len(ts) = 0
      /\ Timestamp_video = 0 /\ Timestamp_audio = 0 /\ ~undefined
      /\ undefined \in BOOLEAN
      /\ bInitHead = [s \in Sinks |-> FALSE] /\ Len(received) = 0
  BY DEF LiveInit
<1>2. LiveTypeOK
  <2>1. 0 \in 0..(UintMod - 1)
    BY UintModAssumption
  <2> QED BY <1>1, <2>1 DEF LiveTypeOK
<1>3. Timed(ts, "video", Timestamp_video) /\ Timed(ts, "audio", Timestamp_audio)
  BY <1>1 DEF Timed
<1>4. Paced(ts, Timestamp_video)
  BY <1>1 DEF Paced
<1>5. Recorded(ts, received) /\ AllIn(ts, received, Len(received))
  BY <1>1 DEF Recorded, AllIn
<1>6. \A s \in Sinks : Headed(ts, s, bInitHead[s])
  BY <1>1 DEF Headed
<1> QED BY <1>2, <1>3, <1>4, <1>5, <1>6 DEF LiveInv

\* Every step preserves the invariant.
LEMMA LiveNextInv == LiveInv /\ [LiveNext]_LiveVars => LiveInv'
<1> SUFFICES ASSUME LiveInv, [LiveNext]_LiveVars PROVE LiveInv'
  OBVIOUS
<1>1. CASE UNCHANGED muxVars
  <2>1. UNCHANGED <<bInitHead, Timestamp_video, Timestamp_audio, ts, h264, aac,
                    received, undefined>>
    BY <1>1 DEF muxVars
  <2>2. LiveTypeOK'
    BY <2>1 DEF LiveInv, LiveTypeOK
  <2> QED BY <2>1, <2>2 DEF LiveInv
<1>2. CASE ~undefined /\ SinkStep
  <2>1. PICK s \in Sinks :
          VideoFrame(s) \/ NoParameterSets(s) \/ AudioFrame(s) \/ EncoderFailed(s)
    BY <1>2 DEF SinkStep
  <2> QED BY <1>2, <2>1, VideoFrameInv, NoParameterSetsInv, AudioFrameInv, EncoderFailedInv
<1> QED BY <1>1, <1>2 DEF LiveNext, LiveVars
-----------------------------------------------------------------------------
\* The invariant holds of every behaviour.
THEOREM LiveInvariance == LiveSpec => []LiveInv
<1> QED BY LiveInitInv, LiveNextInv, PTL DEF LiveSpec

\* The variables of the muxer are always well typed, the clocks and the PCRs
\* within their 32 bits.
THEOREM LiveTypeCorrect == LiveSpec => []LiveTypeOK
<1>1. LiveInv => LiveTypeOK
  BY DEF LiveInv
<1> QED BY <1>1, LiveInvariance, PTL

\* The composed system is the client of RtspClient: what its sinks do with
\* their frames takes nothing from what is proved of it.
THEOREM LiveIsClient == LiveSpec => Spec
<1>1. LiveInit => Init
  BY DEF LiveInit
<1>2. [LiveNext]_LiveVars => [Next]_vars
  BY DEF LiveNext, LiveVars
<1> QED BY <1>1, <1>2, PTL DEF LiveSpec, Spec

\* The parameter sets of a sink precede its frames, whoever writes between.
THEOREM ParameterSetsCorrect == LiveSpec => []ParameterSetsFirst
<1>1. ASSUME LiveInv PROVE ParameterSetsFirst
  <2> SUFFICES ASSUME NEW s \in Sinks, NEW k \in 1..Len(ts),
                      ts[k].sink = s, IsFrame(ts[k])
               PROVE  \E j \in 1..(k - 2) :
                        /\ ts[j].sink = s /\ ts[j].unit = "sps"
                        /\ ts[j + 1].sink = s /\ ts[j + 1].unit = "pps"
                        /\ \A m \in (1..Len(ts)) \ {j, j + 1} :
                             ts[m].sink = s => ts[m].unit \notin {"sps", "pps"}
    BY DEF ParameterSetsFirst
  <2>1. ~NoFrameOf(ts, s)
    BY DEF NoFrameOf
  <2>2. Headed(ts, s, bInitHead[s])
    BY <1>1, <2>1 DEF LiveInv
  <2>3. bInitHead[s]
    BY <2>1, <2>2 DEF Headed, NoFrameOf, IsFrame
  <2>4. PICK j \in 1..Len(ts) : HeadsAt(ts, s, j)
    BY <2>2, <2>3 DEF Headed
  <2>5. j \in 1..(k - 2)
    BY <2>4 DEF HeadsAt
  <2>6. \A m \in (1..Len(ts)) \ {j, j + 1} :
          ts[m].sink = s => ts[m].unit \notin {"sps", "pps"}
    BY <2>4 DEF HeadsAt, Sets
  <2> QED BY <2>4, <2>5, <2>6 DEF HeadsAt
<1> QED BY <1>1, LiveInvariance, PTL

\* No frame of a video sink is lost or overtaken.
THEOREM VideoFramesCorrect == LiveSpec => []NoVideoFrameLost
<1>1. LiveInv => NoVideoFrameLost
  BY DEF LiveInv, NoVideoFrameLost, Recorded, AllIn
<1> QED BY <1>1, LiveInvariance, PTL

\* Each PID keeps its own unbroken clock.
THEOREM ClockCorrect == LiveSpec => []ClockPerFrame
<1>1. LiveInv => ClockPerFrame
  BY DEF LiveInv, ClockPerFrame, Timed, Of
<1> QED BY <1>1, LiveInvariance, PTL

\* The PCRs count the pictures, through the wrap of the product and of the clock.
THEOREM PcrCorrect == LiveSpec => []PcrPerPicture
<1>1. LiveInv => PcrPerPicture
  BY DEF LiveInv, PcrPerPicture, Paced, Slices
<1> QED BY <1>1, LiveInvariance, PTL
=============================================================================
