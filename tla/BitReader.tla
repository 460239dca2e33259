----------------------------- MODULE BitReader ------------------------------
(***************************************************************************)
(* The bit reader of tsmux/Mybs.cpp, as functions from a bs_t to what was  *)
(* read and the bs_t afterwards.  Bytes are numbers; p is the index of the *)
(* current byte, which is past the last one when nothing is left.          *)
(***************************************************************************)
EXTENDS Integers, Sequences

Byte == 0..255

Bs == [data : Seq(Byte), p : Nat, i_left : 1..8]

bs_init(data) == [data |-> data, p |-> 1, i_left |-> 8]

AtEnd(s) == s.p > Len(s.data)

\* The bs_t when n of the bits left in the current byte have been used.
Use(s, n) == IF n = s.i_left THEN [s EXCEPT !.p = @ + 1, !.i_left = 8]
                             ELSE [s EXCEPT !.i_left = @ - n]

\* A 0 is read where nothing is left.
bs_read1(s) ==
  IF AtEnd(s) THEN [val |-> 0, bs |-> s]
  ELSE [val |-> (s.data[s.p] \div 2^(s.i_left - 1)) % 2, bs |-> Use(s, 1)]

\* bs_read under way: what was read, and how many bits are still asked for.
Reads == [i_result : Nat, i_count : Nat, bs : Bs]

\* Mutant: the bits that were read before are not masked out.
Pass_NoMask(r) ==
  LET n    == IF r.i_count <= r.bs.i_left THEN r.i_count ELSE r.bs.i_left
      bits == r.bs.data[r.bs.p] \div 2^(r.bs.i_left - n)
  IN  IF r.i_count = 0 \/ AtEnd(r.bs) THEN r
      ELSE [i_result |-> r.i_result + bits * 2^(r.i_count - n),
            i_count |-> r.i_count - n, bs |-> Use(r.bs, n)]

\* A pass of the loop of bs_read: the bits that are asked for, or all that are
\* left in the byte, are moved to their place.  None is left at the end.
Pass(r) ==
  LET n    == IF r.i_count <= r.bs.i_left THEN r.i_count ELSE r.bs.i_left
      bits == (r.bs.data[r.bs.p] \div 2^(r.bs.i_left - n)) % 2^n
  IN  IF r.i_count = 0 \/ AtEnd(r.bs) THEN r
      ELSE [i_result |-> r.i_result + bits * 2^(r.i_count - n),
            i_count |-> r.i_count - n, bs |-> Use(r.bs, n)]

\* A pass reads a bit at least, and no call asks for more than 32.  Where the data
\* ends, the bits that are missing are 0.
bs_read(s, i_count) ==
  LET pass  == [r \in Reads |-> Pass(r)]
      after[k \in 0..32] ==
        IF k = 0 THEN [i_result |-> 0, i_count |-> i_count, bs |-> s]
                 ELSE pass[after[k - 1]]
  IN  [val |-> after[32].i_result, bs |-> after[32].bs]

\* The loop of bs_read_ue under way: the zeros counted, and whether it goes on.
Scans == [i : 0..32, bs : Bs, on : BOOLEAN]

\* A zero that is the last bit of the data is read, but not counted.
CountZero(z) ==
  LET r  == bs_read1(z.bs)
      on == r.val = 0 /\ ~AtEnd(r.bs) /\ z.i < 32
  IN  IF z.on THEN [i |-> IF on THEN z.i + 1 ELSE z.i, bs |-> r.bs, on |-> on] ELSE z

\* The zeros in front of an Exp-Golomb code, at most 32.
LeadingZeros(s) ==
  LET pass  == [z \in Scans |-> CountZero(z)]
      after[k \in 0..33] == IF k = 0 THEN [i |-> 0, bs |-> s, on |-> TRUE]
                                    ELSE pass[after[k - 1]]
  IN  after[33]

\* From 31 zeros on 1 << i is no int: whatever follows is undefined.
bs_read_ue(s) ==
  LET z == LeadingZeros(s)
  IN  IF z.i >= 31 THEN [defined |-> FALSE]
      ELSE LET r == bs_read(z.bs, z.i)
           IN  [defined |-> TRUE, val |-> (2^z.i) - 1 + r.val, bs |-> r.bs]
=============================================================================
