----------------------------- MODULE MCReaders ------------------------------
(***************************************************************************)
(* Instances of Readers.  H.264 files are put together from start codes,   *)
(* nal headers (1 and 5 are slices, 136 a PPS), slice headers and zeros,   *)
(* in any order, so that some begin with a start code and others do not,   *)
(* and zeros stand before, in and after start codes.  AAC files are put    *)
(* together from frames, and cut off anywhere.                             *)
(***************************************************************************)
EXTENDS Readers

CONSTANT MaxPieces   \* bound: the pieces of an H.264 file

Pieces ==
  {<<0, 0, 1>>, <<0>>, <<1, 136>>, <<1, 156>>, <<5, 66, 64>>, <<136, 7>>}

\* Slices whose type is a whole code of 30 and of 31 zeros.
LongCodes == {<<0, 0, 1, 1, 64, 0, 0, 0, 64, 0, 0, 0>>,
              <<0, 0, 1, 1, 128, 0, 0, 0, 128, 0, 0, 0>>}

MCH264Files ==
  {FlattenSeq(s) : s \in BoundedSeq(Pieces, MaxPieces)} \cup LongCodes

\* A frame of n bytes, its length in 13 bits from bit 30 on.
AdtsFrame(n) ==
  <<255, 241, 80, 128 + n \div 2048, (n \div 8) % 256, (n % 8) * 32, 0>>
    \o [k \in 1..(n - 7) |-> k % 3]

Whole == {FlattenSeq(s) : s \in BoundedSeq({AdtsFrame(7), AdtsFrame(10)}, 3)}

MCAacFiles == UNION {{SubSeq(f, 1, n) : n \in 0..Len(f)} : f \in Whole}
                \cup {AdtsFrame(2056), <<1, 2, 3, 4, 5, 6, 7, 8, 9>>}

\* The two readers share nothing: one file at a time is enough.
MCInit == Init /\ (h264 = <<>> \/ aac = <<>>)

MCSpec ==
  MCInit /\ [][Next]_vars
         /\ WF_vars(VideoNext /\ UNCHANGED audioVars)
         /\ WF_vars(AudioCall /\ UNCHANGED videoVars)
=============================================================================
