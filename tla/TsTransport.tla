---------------------------- MODULE TsTransport ----------------------------
(***************************************************************************)
(* What the multiplexer promises a receiver, without saying how frames are *)
(* cut into packets: the packets of each PID carry consecutive continuity  *)
(* counters, and every frame accepted on a media PID is delivered whole,   *)
(* in order and exactly once, its first packet (and no other) being marked *)
(* as the start of a payload unit, before the next frame is accepted.      *)
(***************************************************************************)
EXTENDS Ts

VARIABLES
  stream,   \* the headers and payload ranges of the packets sent so far
  size,     \* size[p]: the length of the last frame accepted on p
  got,      \* got[p]: how many bytes of it have been sent
  expect    \* expect[p]: the continuity counter of the next packet on p

vars == <<stream, size, got, expect>>

MAX_PAYLOAD == TS_PACKET_SIZE - TS_PACKET_HEADER

Init ==
  /\ stream = <<>>
  /\ size = [p \in MediaPids |-> 0]
  /\ got = [p \in MediaPids |-> 0]
  /\ expect = [p \in Pids |-> 0]

\* A frame of any length, when all frames before it have been sent.
Accept(p) ==
  /\ got = size
  /\ size'[p] \in Nat \ {0}
  /\ size' = [size EXCEPT ![p] = size'[p]]
  /\ got' = [got EXCEPT ![p] = 0]
  /\ UNCHANGED <<stream, expect>>

Send(p, init, from, n) ==
  /\ stream' = Append(stream, [pid |-> p, conti_cter |-> expect[p],
                               play_init |-> init, from |-> from, len |-> n])
  /\ expect' = [expect EXCEPT ![p] = (@ + 1) % 16]

Transmit(p, n) ==
  /\ n <= size[p] - got[p]
  /\ Send(p, IF got[p] = 0 THEN 1 ELSE 0, got[p], n)
  /\ got' = [got EXCEPT ![p] = @ + n]
  /\ UNCHANGED size

SendTable(t) ==
  /\ Send(t, 1, 0, 0)
  /\ UNCHANGED <<size, got>>

Next ==
  \/ \E p \in MediaPids : Accept(p)
  \/ \E p \in MediaPids, n \in 1..MAX_PAYLOAD : Transmit(p, n)
  \/ \E t \in TablePids : SendTable(t)

Spec == Init /\ [][Next]_vars
=============================================================================
