-------------------------------- MODULE Adts --------------------------------
(***************************************************************************)
(* The reader of AAC files in tsmux/Audio.cpp: a call of                   *)
(* Read_One_Aac_Frame reads an ADTS header into the frame buffer           *)
(* (Detach_Head_Aac), and behind it what the header says is left of the    *)
(* frame.  Only the 7 bytes of the header are kept from call to call.      *)
(***************************************************************************)
EXTENDS Integers, Sequences

CONSTANT AacFiles   \* the files that may be read, as byte sequences

ASSUME AacFilesAssumption == AacFiles \subseteq Seq(0..255)

VARIABLES
  aac,                \* the file
  aac_pos,            \* how much of it was read when the call began
  Es,                 \* the first 7 bytes of the PES buffer
  frames,             \* history: the frames returned
  decode_audio_done,
  audio_pc            \* "idle" between two calls; "getchar": a call waits for a
                      \* key; "overrun": -1 was taken for the length of a frame

audioVars == <<aac, aac_pos, Es, frames, decode_audio_done, audio_pc>>

ADTS_HEADER_LENGTH == 7

Synced(h) == h[1] = 255 /\ h[2] \div 16 = 15

\* Mutant: the two high bits of the length, in the third byte, are left out.
aac_frame_length_NoHighBits(h) == h[5] * 8 + h[6] \div 32

aac_frame_length(h) == (h[4] % 4) * 2048 + h[5] * 8 + h[6] \div 32

AudioInit ==
  /\ aac \in AacFiles
  /\ aac_pos = 0
  /\ Es = [k \in 1..ADTS_HEADER_LENGTH |-> 0]
  /\ frames = <<>>
  /\ decode_audio_done = FALSE
  /\ audio_pc = "idle"

\* Not a byte of a header is left.
AudioEnd ==
  /\ audio_pc = "idle"
  /\ aac_pos = Len(aac)
  /\ decode_audio_done' = TRUE
  /\ UNCHANGED <<aac, aac_pos, Es, frames, audio_pc>>

\* The bytes of the header that the file still has; the others keep what the
\* last frame left in the buffer.
HeaderBytes == IF Len(aac) - aac_pos < ADTS_HEADER_LENGTH
               THEN Len(aac) - aac_pos ELSE ADTS_HEADER_LENGTH

Header == [k \in 1..ADTS_HEADER_LENGTH |->
             IF k <= HeaderBytes THEN aac[aac_pos + k] ELSE Es[k]]

Payload == Len(aac) - aac_pos - HeaderBytes

\* The header lacks the syncword: the call waits for a key.
MissingSyncword ==
  /\ audio_pc = "idle"
  /\ HeaderBytes > 0
  /\ ~Synced(Header)
  /\ Es' = Header
  /\ audio_pc' = "getchar"
  /\ UNCHANGED <<aac, aac_pos, frames, decode_audio_done>>

\* The call goes on behind the header: at once, or with a key.
PastHeader ==
  /\ HeaderBytes > 0
  /\ audio_pc = IF Synced(Header) THEN "idle" ELSE "getchar"

(***************************************************************************)
(* After the key, the length is uninitialised: any number; those beyond    *)
(* Payload + 8 have the effect of that one.                                *)
(***************************************************************************)
FrameLengths ==
  IF Synced(Header) THEN {aac_frame_length(Header)} ELSE 0..(Payload + 8)

\* Mutant: the 7 bytes of the header are expected once more.
PayloadLength_WithHeader(len) == len

PayloadLength(len) == len - ADTS_HEADER_LENGTH

\* The rest of the frame is there.
AudioFrame ==
  /\ PastHeader
  /\ \E len \in FrameLengths :
       /\ PayloadLength(len) \in 0..Payload
       /\ frames' = Append(frames, Header \o
            SubSeq(aac, aac_pos + HeaderBytes + 1,
                   aac_pos + HeaderBytes + PayloadLength(len)))
       /\ aac_pos' = aac_pos + HeaderBytes + PayloadLength(len)
  /\ Es' = Header
  /\ audio_pc' = "idle"
  /\ UNCHANGED <<aac, decode_audio_done>>

\* It is not: all that is left is read, and -1 is returned, as an unsigned
\* number the length of a frame far longer than the buffer.
Truncated ==
  /\ PastHeader
  /\ \E len \in FrameLengths : PayloadLength(len) \notin 0..Payload
  /\ aac_pos' = Len(aac)
  /\ Es' = Header
  /\ audio_pc' = "overrun"
  /\ UNCHANGED <<aac, frames, decode_audio_done>>

AudioNext == AudioEnd \/ MissingSyncword \/ AudioFrame \/ Truncated

AudioSpec == AudioInit /\ [][AudioNext]_audioVars

\* The loops of Mux.cpp call the reader again and again.  Nobody needs to
\* press a key.
AudioCall == audio_pc = "idle" /\ AudioNext

AudioFairSpec == AudioSpec /\ WF_audioVars(AudioCall)
-----------------------------------------------------------------------------
AudioTypeOK ==
  /\ aac \in Seq(0..255)
  /\ aac_pos \in 0..Len(aac)
  /\ Es \in [1..ADTS_HEADER_LENGTH -> 0..255]
  /\ frames \in Seq(Seq(0..255))
  /\ decode_audio_done \in BOOLEAN
  /\ audio_pc \in {"idle", "getchar", "overrun"}
=============================================================================
