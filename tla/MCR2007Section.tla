-------------------------- MODULE MCR2007Section --------------------------
(* Small instances of R2007Section for TLC. *)
EXTENDS R2007Section

\* The codecs of dwgRSCodec: RS(255,251) consecutive (encoding 1) and
\* interleaved (encoding 4).  Encoding 0 is the same code on a field of eight
\* symbols, RS(7,3), small enough to try every damage.
Rs251 == RScodec(184, 8, 2)
Rs7 == RScodec(6, 3, 2)
MCCodecs == [e \in {0, 1, 4} |->
  [codec |-> IF e = 0 THEN Rs7 ELSE Rs251, interleaved |-> e # 1]]

\* Bytes 0..31 without a repeated group of four for a few hundred bytes.
Mixed(n) == [i \in 1..n |-> (i * i + (i \div 7)) % 31]
\* Patterns that a compressor likes: constant, with a period, and a repetition
\* after a gap.
Constant(n) == [i \in 1..n |-> 7]
Period(p, n) == [i \in 1..n |-> (i % p) + 1]
Again(gap, n) == [i \in 1..n |-> IF i <= gap THEN Mixed(n)[i] ELSE Mixed(n)[i - gap]]
Broken(p, n) == [i \in 1..n |-> IF i % p = 0 THEN i % 29 ELSE 3]

Plain(data, maxSize, encoding) == [data |-> data, maxSize |-> maxSize, encoding |-> encoding]
MCSections ==
  {Plain(Constant(n), 64, 1) : n \in {1, 24, 25, 40, 64, 65, 130}}
    \cup {Plain(Period(p, n), 96, 4) : p \in 2..6, n \in {30, 39, 100}}
    \cup {Plain(Again(gap, n), 600, 4) : gap \in {9, 31, 32, 33, 280}, n \in {80, 330, 420}}
    \cup {Plain(Broken(p, 70), 50, 1) : p \in 5..24}
    \cup {Plain(Mixed(520), 520, e) : e \in {1, 4}}
    \cup {Plain([i \in 1..n |-> (i * i) % 8], 8, 0) : n \in {5, 8}}

\* Damage is tried on sections of one or two blocks of the field of bytes, and
\* on every symbol of one block and two of another of the small field.
Damaged == {Constant(65), Period(3, 100), Mixed(520)}
MCFaults(s) ==
  IF s.encoding = 0
  THEN [places |-> {p \in 0..20 : p % 3 = 0 \/ p \in {1, 4}}, symbols |-> {1, 6}, most |-> 3, burst |-> 6]
  ELSE IF s.data \in Damaged
  THEN [places |-> {0, 100, 250, 254, 509}, symbols |-> {128}, most |-> 1, burst |-> 6]
  ELSE [places |-> {}, symbols |-> {}, most |-> 0, burst |-> 1]
=============================================================================
