# A verification project for MUX_TS

MUX_TS pulls H.264 and audio from RTSP servers with live555 (`testRTSPClient.cpp`)
and multiplexes them into an MPEG transport stream file (`tsmux/`). This directory
holds TLA+ models of the parts where its own logic lives, the TLC runs that check
them on small instances, and proofs for every instance. All paths are relative to
`src/`.

## 1. Inventory

| part | state | operations | hard because |
|---|---|---|---|
| **PES2TS** (`tsmux/Mux.cpp` 196-398) | `WritePacketNum`, bytes left of the frame, copy pointer, the file | cut one frame into 188-byte packets; insert PAT/PMT every 40 packets | five length computations with boundaries at 162/168 and 182-184 bytes, three places that check the count, uchar and uint counters that wrap, a program that may end between any two writes |
| **Packet header, PSI tables** (`tsmux/Ts.cpp`) | four uchar continuity counters | header of a packet; PAT and PMT sections | shared counters advanced from six places |
| **File loops** (`tsmux/Mux.cpp` 401-521, 573-609) | two 32-bit clocks, two end-of-file flags | read the file whose clock is behind, write its frame, advance the clock | two clocks with unrelated steps; what happens when one wraps, and at the end of one file |
| **Live multiplexing** (`tsmux/Mux.cpp` 524-571) | global clocks, PES buffers | one NAL unit or audio frame per call | globals shared by the sinks of all streams |
| **RTSP client** (`testRTSPClient.cpp` 75-512) | one client and `StreamClientState` per URL, `rtspClientCount` | open, DESCRIBE, SETUP per subsession, PLAY, closure, BYE, timer, shutdown | callbacks of several streams and subsessions in any order; a client is deleted while others live; the last one ends the program |
| **DummySink** (`testRTSPClient.cpp` 172-210, 520-677) | `bInitHead`, receive buffer, faac encoder, `a.h264`, `b.aac` | pass each received frame to the live multiplexer and to a file of its own | several instances on one multiplexer; frames and shutdowns of several streams in any order |
| **Annex-B reader** (`tsmux/Video.cpp` 1-152, 257-301) | file position, end-of-file state, flag | next NAL unit | start codes of two lengths, zeros in front of them, end of file, error values |
| **Frame types, bit reader** (`tsmux/Video.cpp` 179-243, `tsmux/Mybs.cpp`) | bit position | Exp-Golomb codes of a slice header | reads across bytes and past the end |
| **ADTS reader** (`tsmux/Audio.cpp` 1-65) | file position, header left in the buffer, flag | next AAC frame | truncated frames, -1 as an unsigned length, a header without syncword waits for a key (41) |
| **PES headers, PTS, PCR** (`tsmux/Video.cpp` 349-505, `tsmux/Audio.cpp` 67-213, `tsmux/Mux.cpp` 50-194) | none | fill header fields from a clock | 32-bit products, fields split over bytes |
| **CRC** (`tsmux/crc.h`) | none | checksum of a section | a table of 256 literals, byte order |
| **File wrappers** (`tsmux/FileIo.*`), `Mycrc_32.*`, `Information.h` | | | not modelled, see section 8 |

How they interact: an event of the live555 loop calls a handler of the RTSP client or,
through `continuePlaying`, a `DummySink`; the sink calls `WriteBuf2TsFile`, which fills
a PES (`Take_Out_Pes`) and calls `PES2TS`, which appends packets to the file and reads
and advances the counters. All of it runs on one thread: handlers are atomic with
respect to each other, and what interleaves is the order of the events. The file loops
are an alternative caller of `PES2TS` (`main` holds a commented-out call of one).

What makes each part correct: a receiver of the file finds every frame whole, in order
and once, with continuous counters, and finds tables often enough (PES2TS); frames come
in the order of their timestamps, as long as no clock wraps, and none is left out (file
loops); each stream is shut down exactly once, nothing is called for a deleted client,
the program lives as long as its last stream and streams of known length end (RTSP
client); parameter sets come first, no frame is lost and the clocks go on without a jump
although several sinks share them (live multiplexing); a file is divided exactly into
its units or frames, and the loops learn of its end (readers); and what a receiver reads
in the bytes is what was meant (headers, fields, tables).

`PROJECT.json` lists every hazard of this code at its line with the properties that
cover it, or says why none does.

## 2. Modules

| module | what it is |
|---|---|
| `Ts` | packets and headers: PIDs, the fields of a packet, continuity counters, where a receiver looks for the payload |
| `TsTransport` | abstract specification: what the multiplexer promises a receiver |
| `Pes2Ts` | PES2TS step by step, as an implementation of `TsTransport` |
| `Crc` | the checksum of `crc.h`, and the division by which a receiver tests it |
| `Wire` | extends `Pes2Ts` and `Crc`: the bytes of the packets whose fields it records, and what a receiver reads in them |
| `FrameFile` | abstract specification: a file and its reader as the file loops use them |
| `FileMux` | the two loops that multiplex files, each a sequence of units or frames |
| `BitReader` | the bit reader, as functions |
| `AnnexB`, `Adts` | the readers of H.264 and AAC files, byte by byte |
| `Readers` | both readers against `FrameFile` and against reference definitions of the formats |
| `RtspClient` | the RTSP client |
| `LiveMux` | extends `RtspClient`: the sinks it creates and the live multiplexer they share |
| `MCPes2Ts`, `MCFileMux`, `MCReaders`, `MCRtspClient`, `MCLiveMux` | instances for TLC |
| `Pes2TsProofs`, `WireProofs`, `FileMuxProofs`, `BitReaderProofs`, `ReadersProofs`, `RtspClientProofs`, `LiveMuxProofs` | theorems with proofs for TLAPS |
| `Induction` | induction and primitive recursion over numbers, in the form the provers can instantiate |

How they compose: the files of `FileMux` are sequences of whole units and frames, read
by actions that are written to the contract of `FrameFile` (no run checks that, for it
would hold by their shape); the readers of `Readers` are shown to implement `FrameFile`
on good files (`ReadsH264File`, `ReadsAacFile`); what either loop hands over is a frame
of `Pes2Ts`, which implements `TsTransport`; `Wire` says what its packets look like in
bytes. In the live program the frames come from `LiveMux` instead, whose client behaves
as `RtspClient` alone does (`LiveIsClient`); one entry of its `ts` is again one frame of
`Pes2Ts`.

Operators whose names have a suffix after an underscore and whose comment begins
with "Mutant" (such as `LoopReturn_OneLeft`) are deliberately wrong versions of the
definition below them. No specification uses them; substituted for the right one,
each makes a property fail, which shows that the property depends on the code.

### Pes2Ts

An action is the code between two writes of the file, so a state is a point at which
the program may end (`exit()` in a handler, or a signal), and the files seen are those
of whole packets. stdio writes its buffer to the disk at points of its own: what a
signal leaves on disk is a prefix of such a file and may end within a packet, which the
model does not show. `pc` is the position in PES2TS: `entry`,
`first` (after the check at 271), `loop` (332), `body` (342) and `last` (after the
check at 356 or 375). `tables` holds the table packets a check found due:
`Write_Pat` and `Write_Pmt` are two writes, hence two steps of `WriteTable`. `tspes`
holds, for each medium, which frame is in its PES, its length and
`Pes_Packet_Length_Beyond`. `NeafBuf` is the copy pointer as an offset in the frame.
A packet records its header, where in it the payload was put (`at`), and which bytes
of which frame follow, so that a slip of the pointer or of a length is visible.
`frames` is a history variable.

The caller's choice is any frame length of `FrameSizes` and the adaptation field of
the first packet: 7 bytes with PCR for a slice, 1 byte for other NAL units and audio.
The table period 40 and 2^32, the modulus of the packet count, are constants, so that
TLC can see several periods and a wrap.

### Wire

Each packet that `Pes2Ts` writes is turned into bytes as the code does it: the header,
the adaptation field with the PCR (a 32-bit product by 300, then its quotient and
remainder) or stuffing, the PES header with its PTS, and for tables the PAT and PMT
sections with their CRC. A 32-bit clock is a pair of 16-bit halves, since the numbers
of TLC are 32-bit and signed. `ReceiverReadsPacket` and `TablesAnnounceStreams` decode
the bytes as ISO/IEC 13818-1 says, with definitions that share nothing with the
encoding: the PTS is to be the clock, and base and extension of the PCR are to make 300
times the clock modulo 2^32, with the flag set exactly where a PCR is due. Not looked at
are the four bits in front of the PTS (section 6). The CRC is checked by dividing the
section bit by bit, which is not how a table gets it. The model computes the table from
the polynomial: the 256 literals of `crc.h` (7-51) are not transcribed, so a wrong one
would not show. Not in the bytes: the fields `tsptsdts` that `H2642PES` and
`AAC2PES` fill in and nothing reads, and the branches of `CreateAdaptive_Ts` for flags
that are never set. `memcpy` of the checksum is right on little-endian machines, which
the project's Windows build implies; the upper half of the 64-bit `unsigned long` of
other systems is no concern for the same reason.

### FileMux

An action is an iteration of one of the loops. A file is the sequence of its frames:
`video` the kinds of the NAL units left, `audio` the number of audio frames left. A
frame that PES2TS writes is one element of `out`. Reading at the end of a file only sets
the flag. The clocks are `unsigned long`, 32 bits on the Windows build, and wrap modulo
`UintMod`: 2^32 ticks of 90 kHz are 13 hours and 15 minutes. `video_time` and
`audio_time` are history: how long the frames written last. The sample rate is what the
code makes of the first header: 8000, 48000 or, for anything else, 0, with which the
first audio frame ends in a division by zero (`pc = "crashed"`). An 8 kHz stream, which
is what the live program records, has sampling index 11, so it is one of these. A
function returns when no action is enabled; an iteration that changes nothing is a
spinning loop. Files are of whole units and frames, so the readers neither return -1 nor
wait for a key (`StopsOnlyIfDamaged`), here and in `Start`, which reads a header too.

### AnnexB, BitReader, Adts, Readers

`AnnexB` has one action for each way a call of `GetAnnexbNALU` can begin (`VideoEnd`,
`NoStartCode`, `TakeStartCode`), one for each byte read (`ScanByte`) and one for each
way it returns (`LastUnit`, `NextUnit`). `h264_eof` is `feof`, true only once a read has
met the end: the loop therefore stores an EOF as a byte 255 first, which `LastUnit`
takes off again. `units` is a history of what was returned, and of the offset it began
at. The frame type is what `GetFrameType` finds with `bs_read_ue`; where that shifts by
31 or more the type is any of its values. The `while` loops of `bs_read` and
`bs_read_ue` are recursive functions that make one pass (`Pass`, `CountZero`) after the
other; there are at most as many as an int has bits.

`Adts` has one action for each outcome of a call of `Read_One_Aac_Frame`. A header cut
off by the end of the file keeps the bytes that the last frame left in the buffer, and
one without a syncword waits for a key (`MissingSyncword`, `pc` is then `getchar`), which
nobody needs to press. With the key the call goes on with a length that is
uninitialised, so any length is tried.

When -1 becomes a length, or `Buf` is full, `pc` is `overrun` and the model stops: the
program writes past a buffer there.

`Readers` says from the formats alone which units or frames a file consists of (`Units`,
`AdtsFrames`) and which type a slice has (`Code`), and compares. A file is the pieces
between a set of offsets (`CutAt`): those where a start code stands (`UnitStarts`), or
those that the lengths in the headers lead to from 0 on (`AdtsCuts`); numbers are bits
counted from the beginning of the file, instead of read on. The two readers share no
state; the instance runs them on one file at a time.

### RtspClient

An action is `openURL` or one handler of the event loop, with every function it calls:
`shutdownStream`, `setupNextSubsession` and `subsessionAfterPlaying` are operators the
handlers share. `scs[c]` is the `StreamClientState`: a subsession is `idle`, `active`
(it has a sink) or `ended`; `bye` says that its BYE handler is registered; `timer`
that the stream's timer is scheduled; `duration` that one will be. `awaiting[c]` is
the request whose response handler is pending. A handler is enabled by its
registration alone, not by the existence of its client, so a registration left behind
would be seen as a call for a deleted client.

Assumed of live555, which is not part of the repository: a response handler is called at
most once and from the event loop, never from within the call that sends the request
(the comment at `testRTSPClient.cpp` 228-229 says so of DESCRIBE; a request that failed
at once inside `openURL` could end the program before the other URLs are opened, which
is therefore not covered); closing a client drops its pending requests; closing a
session destroys the RTCP instances and with them the BYE handlers; a closed sink calls
nobody back. A BYE may arrive more than once.

### LiveMux

An action is a call of `DummySink::afterGettingFrame` with all it calls: the parameter
sets before a video sink's first frame, `WriteBuf2TsFile` for each unit or for what the
encoder returned (`WriteVideo`, `WriteAudio`), and the `fwrite` to `a.h264`
(`WriteH264`) or `b.aac`. A handler is one step, and `fwrite` succeeds: that a stop
between two of its writes leaves the files different is not shown. One call of `PES2TS`
is one entry of `ts`, with the PTS and PCR it is given. A sink asks for a frame in
`continuePlaying` when it is started and after each frame, and is stopped when its
subsession ends or its client is shut down, so a frame may come to every subsession of
`RtspClient` that is `active`. `Next` of `RtspClient` and the frames interleave freely.

faac is external: it returns an error or any number of bytes up to its maximum, none
while it holds samples back. After -1, or with fewer than two parameter sets in the SDP,
the program reads or copies out of bounds; the model stops in `undefined`. Frames larger
than the receive buffer are not distinguished from others: the code does not either.

## 3. Runs

| run | instance | shows |
|---|---|---|
| `boundary` | two frames, any medium, 21 lengths on both sides of every branch; period 3, count modulo 7; clocks at the boundaries of their fields | types; `PacketsWellFormed`; `CadenceWithinFrame`; `RefinesTransport`; `EveryFrameDelivered`; `CallComesToItsEnd`; `ReceiverReadsPacket`; `TablesAnnounceStreams` |
| `long` | period 40, frames of 260 packets | `RefinesTransport` across the wrap of the uchar counters |
| `psi_pair`, `psi_cadence`, `pcr` | period 40, frames of 1, 40 and 41 packets | disagreements with the comments, section 6 |
| `rtsp` | two streams, up to two subsessions each | `CountIsOpenClients`, `ExitExactlyAtEnd`, `NoDanglingHandlers`, `EndedImpliesActive`, `TimedStreamsEnd` |
| `rtsp_setup` | one stream, two subsessions | section 6 |
| `files` | all videos of up to 5 NAL units, up to 4 audio frames, 25 pictures a second, clocks that wrap after 16000 ticks | `OutputSorted`, `Interleaved`, `OneFileWritten`, `VideoFileWritten` |
| `files_both` | up to 2 NAL units and 2 audio frames | section 6 |
| `readers` | all H.264 files of up to 5 pieces of 6 kinds, and two slices with a long code; AAC files of up to 3 frames, whole and cut off anywhere, one of 2056 bytes and one without a syncword | `UnitsAreTheFile`, `SliceTypesExact`, `OverrunOnlyIfTooLong`, `StopsOnlyIfDamaged`, `ReadsH264File`, `ReadsAacFile`, `EveryCallAdvances`, `BothReadersEnd` |
| `live` | two streams (video and audio; video and another medium), three frames, 12-bit clocks | `ParameterSetsFirst`, `NoVideoFrameLost`, `ClockPerFrame`, `PcrPerPicture` |
| `live_aac` | one stream of video and audio | section 6 |

What the properties say:

- `PacketsWellFormed`: each media packet has exactly 188 bytes, its payload starts
  where its header tells a receiver to look, and a PCR fits its adaptation field.
- `CadenceWithinFrame`: within one frame at most `PsiPeriod` packets come without a
  table, despite the double count and the wrap.
- `RefinesTransport`: the file is a behaviour of `TsTransport` under the mapping
  `stream` = the headers and payload ranges written, `size`/`got` = how much of the
  frame in each PES was written, `expect` = the counters modulo 16.
- `EveryFrameDelivered`: a frame handed over is in the file to its last byte.
- `CallComesToItsEnd`: every step of a call lessens `StepsLeft`, so no frame is cut for
  ever, with no assumption of fairness.
- `OutputSorted`, `Interleaved`: until a clock wraps, timestamps never decrease in the
  file, and no medium is ahead of the other by more than one frame of its own. Neither
  holds longer, see section 6.
- `OneFileWritten`, `VideoFileWritten`: what remains true of liveness, see section 6.
- `CountIsOpenClients`, `NoDanglingHandlers`: together, a stream is shut down once,
  whichever of timer, BYE, closure and failed response comes first, and none of the
  others comes later.
- `ExitExactlyAtEnd`: the program ends with its last stream, not before, not after.
- `EndedImpliesActive`: a client does not outlive its last playing subsession.
- `TimedStreamsEnd`: a stream whose timer is set is shut down.
- `ReceiverReadsPacket`: for any two clocks, a receiver finds in the bytes of a media
  packet the PID, the counter, the first byte of the frame where it was put, the frame's
  own clock as its PTS and, exactly where one is due, a PCR of 300 times the video clock
  modulo 2^32.
- `TablesAnnounceStreams`: the sections have valid checksums, the PAT leads to the PMT,
  and every packet in the file has a PID the PMT announces; PCRs are on its PCR_PID only.
- `ReadsH264File`, `ReadsAacFile`: the readers are the `FrameFile`s the loops are written
  for: one frame after the other, and the flag only when none is left; for H.264 files
  that begin with a start code and whose units fit the buffer, and AAC files of whole
  frames.
- `UnitsAreTheFile`: the units of any file that begins with a start code are its
  consecutive pieces, byte for byte; the position between calls is the end of the last.
- `SliceTypesExact`: exactly slices get a picture type, the one in their header, for
  whole headers whose codes have at most 30 zeros (with 31 the result of the C shift is
  undefined, and the model returns any type).
- `OverrunOnlyIfTooLong`, `StopsOnlyIfDamaged`: the buffer of the H.264 reader is overrun
  only by a unit longer than it; -1 becomes a length, and a call waits for a key, only in
  files with a damaged frame.
- `EveryCallAdvances`: a call that returns a frame ends behind the offset it began at,
  however far it seeks back and whatever a length is taken for, in any file.
- `BothReadersEnd`: the flags are set for every file, good or not, unless a buffer is
  overrun or the AAC reader waits for ever for a key, at a header without syncword.
- `ParameterSetsFirst`, `NoVideoFrameLost`: what the `.ts` file
  holds of each sink, whatever other sinks write in between.
- `ClockPerFrame`, `PcrPerPicture`: from entry to entry a PID's timestamps go on by the
  duration of the entry, and the PCRs by one picture, across the wraps.

## 4. Bounds

The behaviour of PES2TS depends on a length only through its comparisons with the first
payload (162 or 168), with 184 and with 182/183, and on the count only through its
residue; `MCBoundarySizes` takes each side of each comparison with zero to two whole
packets in front. Two frames suffice for one frame to start from the count, counters and
PES that another left. A period of 3 and a modulus of 7 (like 40 and 2^32, the one does
not divide the other) put several periods and a wrap into two frames. For the RTSP
client two streams are needed for one to end while another goes on (the count), and two
subsessions for one to end while another is being set up. For the files, at 25 pictures
a second a picture lasts 3600 ticks and an audio frame 11520 or 1920, so each medium is
the slower one in some behaviours. With `UintMod` 16000 the video clock wraps with the
fifth picture and the audio clock with the second frame at 8 kHz, so that either clock
wraps first in some behaviours and at 48 kHz the audio clock does not.

`Wire` takes its clocks (`Times`) at 0, at each field boundary of a PTS (2^15 and 2^30),
on both sides of the wrap of the product by 300, and at the largest value. The H.264
files of `readers` are every sequence of at most five of: a start code, a zero, two
slices that end within a byte, one that goes on over several and a PPS, so zeros come
before, in and after start codes, files begin with and without one, and some units
outgrow a buffer of 13; two more slices have whole codes of 30 and 31 zeros, on both
sides of what an int holds. The frame of 2056 bytes needs the high bits of the length,
the cut files leave headers and payloads of every length. In `live` two streams are
needed to share a file, three frames for a sink's frame to come between those of another
and for both clocks and the PCR to wrap; with `nMaxOutputBytes` 1 the encoder returns
nothing or something.

Deadlock is not checked in any run: PES2TS and the loops return, the program exits.

## 5. Proofs

`Pes2TsProofs`, for every period, modulus, set of lengths and number of frames, from
the four named assumptions of `Pes2Ts` (period and modulus positive, lengths positive):
`TypeCorrect`, `LayoutCorrect` (`PacketsWellFormed`) and `Refinement`
(`RefinesTransport`). `PacketsWellFormed` is not inductive alone: that a packet is full
depends on how many bytes are left when it is written. The invariant `IInv` adds
`Progress` (the copy pointer plus the bytes left is the length of the frame, which of
the two paths a frame may be on at which `pc`, and that the pointer is beyond the first
payload in the loop) and `TablesOnlyAfterChecks` (tables are due only where a check
has just been made). One lemma, `LoopPacketInv`, serves the three kinds of packet of
the loop. The refinement maps each write to `Send` (`WriteIsSend`), each call to
`Accept`, which needs that the previous frames were sent whole, and each check to a
stuttering step.

The same module, on top of `IInv`: `CadenceCorrect`. `CadenceWithinFrame` speaks of the
last packets of the file and must be related to the count, which wraps and is sometimes
advanced twice. The invariant `CInv` says that the packets of the current frame at the
end of the file are at most the count's residue by the period, right after a check
without tables, and one more before it. The double advance only makes the residue
larger than the number of packets, and after the wrap the residue starts from nothing,
but so it does at a multiple of the period, where tables are written: when the count is
0 the check finds tables due, whatever the modulus.

Also from `IInv`: `CallEnds` (`CallComesToItsEnd`). The measure weighs a byte that is left
by 7, a place in the loop by 3 and a table by 1: a check moves on by a place, which
outweighs the two tables it may find due, and a packet goes back by at most two places,
which the one byte it carries at least outweighs. That a last packet does carry one is
`Progress`.

`FileMuxProofs`, for every frame rate, files of any length and clocks of any width:
`TypeCorrect`, `SortedCorrect`, `InterleavedCorrect`. The last two speak of the time until
a clock wraps, and so does the part `InStep` of the invariant, under `NotWrapped`. The
history only grows, so a state in which no clock has wrapped comes from one in which none
had (`NotWrappedBefore`), and there the clocks are what the history says
(`ClocksAgree`). `OutputSorted` is not inductive; it needs that what was written is not
later than the clock of the medium written next (`OutBehindVideo`, `OutBehindAudio`), and
`Interleaved` that the audio clock stands still when the rate is not recognised
(`ClockStopped`) and at 0 before the loop (`NothingRead`). That a flag is only set at the
end of its file (`FlagsAtEnd`) disposes of the branches that read an ended file.

`RtspClientProofs`, for any number of streams and subsessions: `CountCorrect`,
`ExitCorrect`, `HandlersCorrect`, `EndedCorrect`, `TypeCorrect`. The invariant adds that
a client without a session is as new, that nothing at all is left of one that does not
exist, what each outstanding request says of the state, and that clients are opened in
turn before the event loop. Two lemmas carry the proof: `ShutdownInv` for the handlers
that end a stream, `StaysOpenInv` for those that do not.

`ReadersProofs`, for every pair of files, whatever their lengths and bytes, and every
buffer of at least 4 bytes: `ReadersTypeCorrect`, `BothUnitsCorrect` (`UnitsAreTheFile`),
`OverrunNeedsLongUnit`, `StopsNeedDamage`, and that both readers are the `FrameFile`s
that the loops take them for, `H264FileCorrect` (`ReadsH264File`) and `AacFileCorrect`
(`ReadsAacFile`). The invariant of the H.264 reader, `VideoInv`, relates the buffer to the
file while a call runs (`Reading`: what was read is the piece from `start` to `h264_pos`,
with one byte 255 behind it once the end was met), says that what was read holds no start
code but the first and the one just found (`Scanned`), that the units are consecutive
pieces (`Pieces`) and that they are the first units of the file (`Ordered`: as many unit
starts lie before the file position as units were returned). `Ordered` alone is not
inductive: that the next unit ends where the reader stops needs `Scanned`, and `Scanned`
excludes a long start code one byte earlier only because the seek back is by 4 whenever
the byte in front is zero (`RewindFacts`). The same facts give `OverrunNeedsLongUnit`:
a full buffer without a second start code is part of a unit that does not fit.

For the AAC reader the set of offsets at which a file is cut is defined by recursion on
the file. It is shown to be a chain (`CutsChain`): each offset but the largest leads to
the next. `AudioInv` says that the position is in that chain and as many of its members
lie before it as frames were returned. In a file of whole frames the chain reaches the
end, so a position that is not the end has a next one, and hence a syncword and a length
that stays in the file: neither the uninitialised length nor -1 can arise (`WholeFrame`,
`TruncatedNever`), and no call waits for a key (`SyncwordNeverMissing`). That the masks
and shifts of `aac_frame_length` and `Synced` are the numbers in bits 30-42 and 0-11 of
the header is `HeaderNumbers`.

For the types of slices (`SliceTypesCorrect`, that is `SliceTypesExact`) `BitReaderProofs`
shows that `bs_read` returns the number that the next bits stand for (`ReadsNumber`) and
`bs_read_ue` the value of the code that begins there (`ReadsCode`). The state of the
reader, a byte and how many of its bits are left, is turned into a position that counts
bits; then a pass of either loop is one bit, and what the passes so far have done
(`ReadSoFar`, `ScanSoFar`) is shown by the rule for loops of `Induction`. The value of a
code joins the one that ended the zeros with the bits read behind it (`NumberJoin`). The
limits of the statement are needed where the code has them: a code that the data cuts off
is no code, and with 31 zeros a shift is undefined.

`CallsAdvance` (`EveryCallAdvances`): `RewindFacts` leaves at least the start code of the
unit behind the position after the seek back, and a frame of the AAC reader takes at least
one byte of a header, also where its length is uninitialised.

`WireProofs` first proves the checksum, for byte sequences of any length:
`ChecksumCorrect`, the checksum by table and byte leaves no remainder when the data
followed by it is divided bit by bit. The division is linear (`DivideBitSum`), so eight
steps from a register and a byte are eight steps from the register with the byte added,
which is the moved register plus an entry of the table; the four bytes of the register
itself, divided, cancel it. The value of the polynomial is not used.

The rest of `WireProofs` is for all clocks and every file that PES2TS writes:
`ReceiverCorrect` (`ReceiverReadsPacket`) and `TablesCorrect` (`TablesAnnounceStreams`).
`PacketsWellFormed` is too weak for the first: `PacketsMarked` adds that exactly the
packets that begin a frame are marked as such and have an adaptation field, and that a
field with a PCR has 7 bytes. The fields of the PTS, and those of the PCR after its
32-bit product by 300, are decomposed into quotients and remainders by lemmas about
numbers alone; that base and extension make 300 times the clock again is `PcrTicks`.
`Times`, the clocks that are tried, is any set of pairs of 16-bit halves
(`TimesAssumption`), so the theorem holds of every clock.

`LiveMuxProofs`, for any number of streams and frames, any media and any width of the
clocks: `ParameterSetsCorrect`, `VideoFramesCorrect`, `ClockCorrect`, `PcrCorrect`,
`LiveTypeCorrect`, and `LiveIsClient`, by which the theorems of
`RtspClientProofs` hold of the composition. The invariant `LiveInv` ties the end of
`ts` to the variables: the clock is the last entry's timestamp plus its duration, the
PCR of the next slice is one picture after the last one (modulo the width, since the
product of a wrapped clock wraps with it), a sink with `bInitHead` has its head in the
file and one without has nothing there, and frames are numbered as received.

`Induction` is what the others need of induction and recursion. The induction theorems of
the library take an operator as a parameter, which the provers cannot instantiate; here
the statement to prove is a set of numbers and the step of a definition a function, and
both are derived from < being well-founded on the naturals. With that, what the models'
recursive functions compute is proved for inputs of every length. A loop is the
function of its first states, each made from the one before by a pass (`Loop`), and what
the passes stay in, its last state is in (`LoopChosen`).

All theorems rest on nothing but the named assumptions on the constants, which TLC
evaluates in the runs.

Only model-checked: the liveness properties `EveryFrameDelivered`, `TimedStreamsEnd`,
`OneFileWritten`, `VideoFileWritten` and `BothReadersEnd`; liveness under fairness is out
of the prover's reach. What two of them rest on is proved: `CallEnds` is the measure that
`EveryFrameDelivered` needs, and `CallsAdvance` says why no file keeps a reader from its
end.

## 6. Where code and comments disagree

Each of these runs checks what a comment of the code says and finds it violated.

- `psi_pair`: "every 40 packets one PAT, one PMT" (`tsmux/Mux.cpp` 271, 337). The
  check at the head of the loop and the one before the last packet see the same count,
  so a last packet at a multiple of 40 is preceded by two pairs.
- `psi_cadence`: the same comment. Frames of one packet make no check, and a last
  packet counts twice (391, 394), so that a multiple of 40 can be stepped over: 41 and
  more media packets come without a table. An audio-only stream of small frames has
  no table at all.
- `pcr`: "the other frame types need no PCR" (472) and "these are SPS, PPS, SEI and
  the like" (212). A picture of fewer than 162 bytes is taken for one of those, and
  its PCR is dropped.
- `rtsp_setup`: "All subsessions' streams have now been closed, so shutdown the
  client" (`testRTSPClient.cpp` 413). A subsession whose SETUP is outstanding has no
  sink and is taken for closed.
- `files_both`: "write the data of the files into the ts file" (`tsmux/Mux.cpp` 400).
  At the end of one file the loop reads that file again, so the rest of the other is
  never written and the loop never ends; `OneFileWritten` is what remains.
  `WriteH264Buff2File` likewise writes its file and then spins (`VideoFileWritten`).
- `live_aac`: the AAC stream is to be "written to the .aac file" and to be playable
  (`testRTSPClient.cpp` 557-558). Each frame appends the whole output buffer of the
  encoder (659), also the part, at first all of it, that the encoder did not fill.

Behaviour the models show that no document of the repository speaks of:

- Nothing in the code ends a stream all of whose SETUPs failed and whose duration is
  unknown: PLAY is sent, and then no sink, timer or BYE handler exists.
- Where an H.264 file does not begin with a start code, each four bytes give a unit
  `00 00 01` with nothing in it, until a start code is met at a multiple of four
  (`NoStartCode`). 1-6 bytes at the end of an AAC file are completed by the header of
  the frame before, and if that frame had no payload a frame is returned.
- `tsmux/Mux.cpp` 481 compares two clocks of 32 bits. When, after 13 hours, one has
  wrapped and the other has not, only the medium that wrapped is written, until its file
  has ended or its clock has caught up, hours later: `OutputSorted` and `Interleaved`
  speak of the time before. Both are violated in the instance of `files` without their
  condition `NotWrapped`, so the wrap does occur there.
- The end of an H.264 file leaks a NALU and its buffer of 1 MB in each call, and the
  loops that spin (`files_both`) make such calls for ever.
- The PCR counts modulo 2^32 in units of 27 MHz: it wraps every 159 seconds, while the
  PTS goes on. All streams of the command line share two PIDs and two clocks, so a
  second camera's pictures run the first one's clock. The clock advances per slice:
  pictures of several slices run ahead of the audio.
- The PTS of a frame is marked `0011` although the flags say that no DTS follows.
- `tsmux/Audio.cpp` 33 shifts the mask, not the bit; the field is not used.

## 7. Fairness

`Pes2Ts!FairSpec` assumes weak fairness of `Step`: PES2TS is straight-line code on the
only thread and never blocks. Nothing is assumed of its callers. `FileMux!FairSpec`
assumes it of `Next`: the loops never block on files of whole units and frames; a
spinning iteration is a stuttering step. `RtspClient!FairSpec` assumes only that a
scheduled timer is run, which live555's scheduler does for every delayed task that is
due; nothing is assumed of servers or networks, which is why `TimedStreamsEnd` speaks of
streams whose timer is set. `MCReaders!MCSpec`, like `VideoFairSpec` and
`AudioFairSpec`, assumes weak fairness of each reader: the loops call them again and
again. A call of the H.264 reader waits for nothing but the file (its `getchar` calls
are on failed allocations and on a length of a start code that is neither 3 nor 4, which
does not occur). For the AAC reader only `AudioCall` is fair, a step of a call that does
not wait for a key: nothing is assumed of the key. `LiveMux` has no liveness property
and assumes nothing.

## 8. Plan and what is not modelled

Done, the most important behaviour first: `Ts`, `TsTransport`, `Pes2Ts` with its
refinement and proofs; `RtspClient` and `FileMux` with proofs; `LiveMux` composed with
the client, with proofs; `AnnexB`, `BitReader`, `Adts` and `Readers`, with proofs of
both readers and of the bit reader; `Crc` and `Wire`, with proofs. Left, should the code
move on:

- a step-by-step composition of `LiveMux` with `Pes2Ts`: today they meet at the arguments
  of `PES2TS`, which is sound because the calls are sequential.

Not modelled: `Mycrc_32` (no caller); the wrappers of stdio in `FileIo` (`OpenFile`
closes one stream twice and leaves another open, lines 14-16, whose effect is the C
library's); `Information.h` (declarations); allocation failures; logging; the code of
`main` behind its event loop (103-117), which is not reached; and the inside of live555
and faac, which are modelled as far as this code sees them.
