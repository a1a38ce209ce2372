------------------------------ MODULE RsCodec ------------------------------
(***************************************************************************)
(* The Reed-Solomon codec of rscodec.cpp and the block layouts that        *)
(* dwgutil.cpp (namespace dwgRSCodec) builds with it.                      *)
(*                                                                         *)
(* A codec is a record of the fields of class RScodec.  The code keeps     *)
(* some polynomials in index form (exponents of alpha, -1 for zero); here  *)
(* every symbol is in polynomial form and Times and Over go through the    *)
(* tables.  A word is a function from positions to symbols, position i the *)
(* coefficient of x^i.                                                     *)
(***************************************************************************)
EXTENDS Tables, Integers, Sequences, FiniteSets

\* Exclusive or, bit by bit and as a table for bytes.
Bit(a, n) == (a \div 2^n) % 2
ExclusiveOr(a, b) ==
  LET low[n \in 0..8] == IF n = 0 THEN 0
                         ELSE low[n - 1] + (2^(n - 1)) * ((Bit(a, n - 1) + Bit(b, n - 1)) % 2)
  IN low[8]
PlusTable == Tabled([a \in 0..255 |-> Tabled([b \in 0..a |-> ExclusiveOr(a, b)])])
Plus(a, b) == IF a >= b THEN PlusTable[a][b] ELSE PlusTable[b][a]

\* The value of a loop over i = 1..n that replaces acc by Step(acc, i).  It is
\* evaluated in halves, the first before the second: a loop over the symbols
\* of a block would nest too deep.
Loop(n, start, Step(_, _)) ==
  LET RECURSIVE Run(_, _, _)
      Run(acc, lo, hi) ==
        IF lo > hi THEN acc
        ELSE IF lo = hi THEN Tabled(Step(acc, lo))
        ELSE LET mid == (lo + hi) \div 2
             IN CHOOSE v \in {Run(half, mid + 1, hi) : half \in {Run(acc, lo, mid)}} : TRUE
  IN Run(start, 1, n)
Sum(n, Term(_)) == LET Add(acc, i) == Plus(acc, Term(i)) IN Loop(n, 0, Add)

\* RSgenerate_gf(): the powers of alpha; bit mm-1-i of pp is the
\* coefficient of x^i in the field's polynomial.
AlphaTo(pp, mm) ==
  LET top == 2^(mm - 1)
      reduced == Sum(mm, LAMBDA i : IF Bit(pp, mm - i) = 1 THEN 2^(i - 1) ELSE 0)
      Power(powers, i) ==
        LET last == powers[i]
        IN Append(powers, IF last >= top THEN Plus(reduced, 2 * (last - top)) ELSE 2 * last)
  IN Loop(2^mm - 2, <<1>>, Power)

Field(pp, mm) ==
  LET nn == 2^mm - 1
      powers == AlphaTo(pp, mm)
      place == [j \in 1..nn |-> CHOOSE i \in 0..(nn - 1) : powers[i + 1] = j]
  IN [nn |-> nn, alphaTo |-> Tabled([i \in 0..(nn - 1) |-> powers[i + 1]]), indexOf |-> Tabled(place)]

Alpha(f, i) == f.alphaTo[i % f.nn]
Times(f, a, b) == IF a = 0 \/ b = 0 THEN 0 ELSE Alpha(f, f.indexOf[a] + f.indexOf[b])
Over(f, a, b) == IF a = 0 THEN 0 ELSE Alpha(f, f.nn + f.indexOf[a] - f.indexOf[b])

\* RSgen_poly(): the product of (x + alpha^i) for i = 1..bb.
Generator(f, bb) ==
  LET Factor(g, i) ==
        [j \in 0..i |-> IF j = 0 THEN Times(f, g[0], Alpha(f, i))
                        ELSE IF j = i THEN g[i - 1]
                        ELSE Plus(g[j - 1], Times(f, g[j], Alpha(f, i)))]
  IN Loop(bb, [j \in {0} |-> 1], Factor)

RScodec(pp, mm, tt) ==
  LET f == Field(pp, mm)
  IN [f |-> f, nn |-> f.nn, kk |-> f.nn - 2 * tt, tt |-> tt, bb |-> 2 * tt,
      gg |-> Generator(f, 2 * tt)]

\* The value of a word, as a polynomial, at alpha^i: a syndrome of calcDecode().
Syndrome(c, word, i) ==
  Sum(c.nn, LAMBDA j : Times(c.f, word[j - 1], Alpha(c.f, i * (j - 1))))
IsCodeword(c, word) == \A i \in 1..c.bb : Syndrome(c, word, i) = 0

\* RScodec::encode(): the remainder a shift register leaves, from the last
\* symbol of the data to the first.
Parity(c, data) ==
  LET Shift(reg, i) ==
        LET feedback == Plus(data[c.kk - i], reg[c.bb - 1])
        IN [j \in 0..(c.bb - 1) |->
              Plus(IF j = 0 THEN 0 ELSE reg[j - 1], Times(c.f, c.gg[j], feedback))]
  IN Loop(c.kk, [j \in 0..(c.bb - 1) |-> 0], Shift)

\* A block as dwgRSCodec lays it out: the data, then the parity.
Block(c, data) ==
  LET parity == Parity(c, data)
  IN [i \in 0..(c.nn - 1) |-> IF i < c.kk THEN data[i] ELSE parity[i - c.kk]]

-----------------------------------------------------------------------------
(* calcDecode().                                                           *)

\* The round to combine round u with: the last of those with the greatest u_lu
\* whose discrepancy is not zero.
\* Mutant: the last one whose discrepancy is not zero.
LastRow(b, u) == CHOOSE q \in 0..(u - 1) : b.d[q] # 0 /\ \A y \in (q + 1)..(u - 1) : b.d[y] = 0
BestRow(b, u) ==
  CHOOSE q \in 0..(u - 1) :
    /\ b.d[q] # 0
    /\ \A y \in 0..(u - 1) : b.d[y] # 0 => b.uLu[y] < b.uLu[q] \/ (b.uLu[y] = b.uLu[q] /\ y <= q)

\* One round of the Berlekamp iteration: from the polynomials, degrees and
\* discrepancies of the rounds up to u to those of round u + 1.  (The rows of
\* the code hold bb coefficients; a degree of bb, which the check of the degree
\* then refuses, needs one more.)
Round(c, s, b, u) ==
  LET q == BestRow(b, u)
      scale == Over(c.f, b.d[u], b.d[q])
      elp == IF b.d[u] = 0 THEN b.elp[u]
             ELSE [i \in 0..c.bb |->
                     Plus(b.elp[u][i], IF i < u - q THEN 0
                                      ELSE Times(c.f, scale, b.elp[q][i - (u - q)]))]
      deg == IF b.d[u] = 0 \/ b.l[u] > b.l[q] + u - q THEN b.l[u] ELSE b.l[q] + u - q
      disc == IF u = c.bb THEN 0
              ELSE Plus(s[u + 1], Sum(deg, LAMBDA i : Times(c.f, s[u + 1 - i], elp[i])))
      Next(row, v) == [i \in 0..(u + 1) |-> IF i <= u THEN row[i] ELSE v]
  IN [u |-> u + 1, elp |-> Next(b.elp, elp), l |-> Next(b.l, deg), d |-> Next(b.d, disc),
      uLu |-> Next(b.uLu, u - deg)]

\* The error location polynomial and its degree; the iteration stops at a
\* degree that cannot be corrected.
Berlekamp(c, s) ==
  LET one == [i \in 0..c.bb |-> IF i = 0 THEN 1 ELSE 0]
      start == [u |-> 1, elp |-> [i \in 0..1 |-> one], l |-> [i \in 0..1 |-> 0],
                d |-> [i \in 0..1 |-> IF i = 0 THEN 1 ELSE s[1]],
                uLu |-> [i \in 0..1 |-> i - 1]]
      Next(b, i) == IF b.u = i /\ b.l[b.u] <= c.tt THEN Round(c, s, b, i) ELSE b
      end == Loop(c.bb, start, Next)
  IN [elp |-> end.elp[end.u], deg |-> end.l[end.u]]

\* The exponents at which the error location polynomial is zero.
Roots(c, e) ==
  {i \in 1..c.nn : Plus(1, Sum(e.deg, LAMBDA j : Times(c.f, e.elp[j], Alpha(c.f, i * j)))) = 0}

\* The error at the location of a root: z(x) over the product of the other
\* locations.
ErrorAt(c, s, e, roots, root) ==
  LET z(i) == Plus(Plus(s[i], e.elp[i]), Sum(i - 1, LAMBDA j : Times(c.f, s[j], e.elp[i - j])))
      num == Plus(1, Sum(e.deg, LAMBDA j : Times(c.f, z(j), Alpha(c.f, j * root))))
      others == roots \ {root}
      Other(i) == Plus(1, Alpha(c.f, c.nn - i + root))
      den[R \in SUBSET others] ==
        IF R = {} THEN 1 ELSE LET i == CHOOSE i \in R : TRUE
                              IN Times(c.f, Other(i), den[R \ {i}])
  IN Over(c.f, num, den[others])

\* Mutant: as many roots as there are, whatever the degree.
MendedAnyway(c, word, s, e, roots) ==
  LET Mend(w, root) == [w EXCEPT ![c.nn - root] = Plus(@, ErrorAt(c, s, e, roots, root))]
      mended[R \in SUBSET roots] ==
        IF R = {} THEN word ELSE LET root == CHOOSE i \in R : TRUE
                                 IN Mend(mended[R \ {root}], root)
  IN IF e.deg > c.tt THEN [ok |-> FALSE, word |-> word] ELSE [ok |-> TRUE, word |-> mended[roots]]
\* The word with its errors corrected when there are as many roots as the
\* polynomial has degree, or unchanged and a failure.
Mended(c, word, s, e, roots) ==
  LET Mend(w, root) == [w EXCEPT ![c.nn - root] = Plus(@, ErrorAt(c, s, e, roots, root))]
      mended[R \in SUBSET roots] ==
        IF R = {} THEN word ELSE LET root == CHOOSE i \in R : TRUE
                                 IN Mend(mended[R \ {root}], root)
  IN IF e.deg > c.tt \/ Cardinality(roots) # e.deg THEN [ok |-> FALSE, word |-> word]
     ELSE [ok |-> TRUE, word |-> mended[roots]]

\* decode(); the number of errors, which no caller uses but for its sign, is
\* left out.
Corrected(c, word) ==
  With([i \in 1..c.bb |-> Syndrome(c, word, i)],
       LAMBDA s : IF \A i \in 1..c.bb : s[i] = 0 THEN [ok |-> TRUE, word |-> word]
                  ELSE With(Berlekamp(c, s),
                            LAMBDA e : With(Roots(c, e), LAMBDA roots : Mended(c, word, s, e, roots))))

-----------------------------------------------------------------------------
(* dwgRSCodec: pages of several blocks.  A page is a function from 0.      *)

\* Where symbol i of a block is in a stored page.
InterleavedAt(c, blocks, block, i) == i * blocks + block
ConsecutiveAt(c, blocks, block, i) == block * c.nn + i
PlaceOf(c, blocks, interleaved, block, i) ==
  IF interleaved THEN InterleavedAt(c, blocks, block, i) ELSE ConsecutiveAt(c, blocks, block, i)

\* encodeInterleaved(), encodeNonInterleaved()
Encoded(c, blocks, interleaved, data) ==
  LET word == Tabled([b \in 0..(blocks - 1) |->
                        Block(c, [i \in 0..(c.kk - 1) |-> data[b * c.kk + i]])])
  IN [p \in 0..(blocks * c.nn - 1) |->
        IF interleaved THEN word[p % blocks][p \div blocks] ELSE word[p \div c.nn][p % c.nn]]

\* A block of a stored page, as decode*() collects it.
Collected(c, blocks, interleaved, page, block) ==
  [i \in 0..(c.nn - 1) |-> page[PlaceOf(c, blocks, interleaved, block, i)]]

\* decode239I(), decode251I(), decode251(): the blocks as decoded, the data
\* read from them, and whether every block could be corrected.
Decoded(c, blocks, interleaved, page) ==
  With([b \in 0..(blocks - 1) |->
          With(Collected(c, blocks, interleaved, page, b), LAMBDA word : Corrected(c, word))],
       LAMBDA r : [ok |-> \A b \in 0..(blocks - 1) : r[b].ok,
                   blocks |-> r,
                   data |-> [k \in 0..(blocks * c.kk - 1) |-> r[k \div c.kk].word[k % c.kk]]])
=============================================================================
