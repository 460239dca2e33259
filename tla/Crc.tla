--------------------------------- MODULE Crc ---------------------------------
(***************************************************************************)
(* The checksum of tsmux/crc.h over the sections of the tables, and what a *)
(* receiver does with it: the division of the section and its checksum by  *)
(* the polynomial, one bit after the other.                                *)
(*                                                                         *)
(* An unsigned number of 32 bits is the sequence of its bits, the highest  *)
(* first.                                                                  *)
(***************************************************************************)
EXTENDS Integers, Sequences

(***************************************************************************)
(* crc_tab[i] is what eight steps of the division by the polynomial        *)
(* 0x04c11db7 make of i: the table as it is made, which the 256 literals   *)
(* of crc.h are not compared with.                                         *)
(***************************************************************************)
Bits(n, width) == [k \in 1..width |-> (n \div 2^(width - k)) % 2]

Xor(a, b) == [k \in DOMAIN a |-> (a[k] + b[k]) % 2]

ShiftLeft(a, n) == SubSeq(a, n + 1, Len(a)) \o [k \in 1..n |-> 0]

Polynomial == Bits(1217, 16) \o Bits(7607, 16)

Divide(a) == IF a[1] = 1 THEN Xor(ShiftLeft(a, 1), Polynomial) ELSE ShiftLeft(a, 1)

crc_tab[i \in 0..255] ==
  LET steps[n \in 0..8] == IF n = 0 THEN Bits(i, 8) \o Bits(0, 24)
                                    ELSE Divide(steps[n - 1])
  IN  steps[8]

Number(a) == LET upto[n \in 0..Len(a)] == IF n = 0 THEN 0 ELSE (2 * upto[n - 1]) + a[n]
             IN  upto[Len(a)]

CrcByte(crc, byte) ==
  Xor(ShiftLeft(crc, 8), crc_tab[Number(Xor(SubSeq(crc, 1, 8), Bits(byte, 8)))])

\* Mutant: the checksum starts at zero.
calc_crc32_FromZero(data) ==
  LET crc[n \in 0..Len(data)] == IF n = 0 THEN [k \in 1..32 |-> 0]
                                 ELSE CrcByte(crc[n - 1], data[n])
  IN  crc[Len(data)]

calc_crc32(data) ==
  LET crc[n \in 0..Len(data)] == IF n = 0 THEN [k \in 1..32 |-> 1]
                                 ELSE CrcByte(crc[n - 1], data[n])
  IN  crc[Len(data)]

\* Zwg_ntohl and memcpy: the bytes of the checksum, the highest first.
CrcBytes(data) ==
  LET crc == calc_crc32(data)
  IN  [k \in 1..4 |-> Number(SubSeq(crc, 8 * k - 7, 8 * k))]

-----------------------------------------------------------------------------
(***************************************************************************)
(* The receiver, after ISO/IEC 13818-1: what is left when s is divided by  *)
(* the polynomial, from a register of ones.                                *)
(***************************************************************************)
Word == [1..32 -> {0, 1}]

DivideBit(a, bit) == IF a[1] = bit THEN ShiftLeft(a, 1)
                                   ELSE Xor(ShiftLeft(a, 1), Polynomial)

DivideByte(byte) ==
  [a \in Word |->
     LET rest[n \in 0..8] == IF n = 0 THEN a
                                      ELSE DivideBit(rest[n - 1], Bits(byte, 8)[n])
     IN  rest[8]]

Remainder(s) ==
  LET rest[n \in 0..Len(s)] == IF n = 0 THEN [k \in 1..32 |-> 1]
                                        ELSE DivideByte(s[n])[rest[n - 1]]
  IN  rest[Len(s)]
=============================================================================
