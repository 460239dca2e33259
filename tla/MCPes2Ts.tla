------------------------------ MODULE MCPes2Ts ------------------------------
(***************************************************************************)
(* Instances of Pes2Ts.  A first packet carries F bytes: 162 behind a PCR, *)
(* 168 otherwise.  The sizes sit on both sides of every branch of PES2TS:  *)
(* F, one or two whole packets more, and 181 to 183 bytes left over.       *)
(***************************************************************************)
EXTENDS Wire

F(head) == 188 - 4 - 1 - head - 14

MCBoundarySizes ==
  {1} \cup UNION {{F(h) - 1, F(h), F(h) + 1, F(h) + 181, F(h) + 182, F(h) + 183,
                   F(h) + 184, F(h) + 184 + 182, F(h) + 2 * 184,
                   F(h) + 184 + 183} : h \in Heads}

\* Frames of 1 and of 260 packets: more than a uchar counts.
MCLongSizes == {100, F(7) + 258 * 184 + 183}

\* Frames whose last packet falls on count 39 or 40 of a new file.
MCPeriodSizes == {100, F(7) + 38 * 184 + 100, F(7) + 39 * 184 + 100}

\* The clocks at the start, at every boundary of a field of the PTS, where
\* their products by 300 wrap (14316557) and where they wrap themselves.
MCTimes == {<<0, 0>>, <<0, 32768>>, <<16384, 0>>, <<218, 29709>>, <<218, 29710>>,
            <<65535, 65535>>}

MCOneTime == {<<0, 0>>}
=============================================================================
