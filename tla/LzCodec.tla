------------------------------ MODULE LzCodec ------------------------------
(***************************************************************************)
(* The compression of R2007 pages: compressDataPage() of dwgwriter21.cpp   *)
(* and dwgCompressor::decompress21() of dwgutil.cpp, which the writer also *)
(* uses to validate what it compressed.                                    *)
(*                                                                         *)
(* Pages and streams are sequences of bytes; positions count from 0, as in *)
(* the code.                                                               *)
(***************************************************************************)
EXTENDS Tables, Integers, Sequences
LOCAL INSTANCE Bitwise

At(bytes, pos) == bytes[pos + 1]
Slice(bytes, pos, n) == SubSeq(bytes, pos + 1, pos + n)
Least(a, b) == IF a <= b THEN a ELSE b

\* The order in which a block of 1 to 32 literals is stored.
Run(first, last) == [i \in 1..(last - first + 1) |-> first + i - 1]
CopyOrder21 ==
  << <<0>>,
     <<1, 0>>,
     <<2, 1, 0>>,
     Run(0, 3),
     <<4>> \o Run(0, 3),
     <<5>> \o Run(1, 4) \o <<0>>,
     <<6, 5>> \o Run(1, 4) \o <<0>>,
     Run(0, 7),
     <<8>> \o Run(0, 7),
     <<9>> \o Run(1, 8) \o <<0>>,
     <<10, 9>> \o Run(1, 8) \o <<0>>,
     Run(8, 11) \o Run(0, 7),
     <<12>> \o Run(8, 11) \o Run(0, 7),
     <<13>> \o Run(9, 12) \o Run(1, 8) \o <<0>>,
     <<14, 13>> \o Run(9, 12) \o Run(1, 8) \o <<0>>,
     Run(8, 15) \o Run(0, 7),
     Run(9, 16) \o <<8>> \o Run(0, 7),
     <<17>> \o Run(9, 16) \o Run(1, 8) \o <<0>>,
     <<18, 17, 16>> \o Run(8, 15) \o Run(0, 7),
     Run(16, 19) \o Run(8, 15) \o Run(0, 7),
     <<20>> \o Run(16, 19) \o Run(8, 15) \o Run(0, 7),
     <<21, 20>> \o Run(16, 19) \o Run(8, 15) \o Run(0, 7),
     <<22, 21, 20>> \o Run(16, 19) \o Run(8, 15) \o Run(0, 7),
     Run(16, 23) \o Run(8, 15) \o Run(0, 7),
     Run(17, 24) \o <<16>> \o Run(8, 15) \o Run(0, 7),
     <<25>> \o Run(17, 24) \o <<16>> \o Run(8, 15) \o Run(0, 7),
     <<26, 25>> \o Run(17, 24) \o <<16>> \o Run(8, 15) \o Run(0, 7),
     Run(24, 27) \o Run(16, 23) \o Run(8, 15) \o Run(0, 7),
     <<28>> \o Run(24, 27) \o Run(16, 23) \o Run(8, 15) \o Run(0, 7),
     <<29, 28>> \o Run(24, 27) \o Run(16, 23) \o Run(8, 15) \o Run(0, 7),
     <<30>> \o Run(26, 29) \o Run(18, 25) \o Run(10, 17) \o Run(2, 9) \o <<1, 0>>,
     Run(24, 31) \o Run(16, 23) \o Run(8, 15) \o Run(0, 7) >>

-----------------------------------------------------------------------------
(* The writer.                                                             *)

\* appendLiteralBlock(): literal i goes to place order[i].
LiteralBlock(bytes) ==
  LET order == CopyOrder21[Len(bytes)]
  IN [k \in 1..Len(bytes) |-> At(bytes, CHOOSE i \in 0..(Len(bytes) - 1) : At(order, i) = k - 1)]

RECURSIVE LiteralBlocks(_)
LiteralBlocks(bytes) ==
  IF Len(bytes) <= 32 THEN IF bytes = <<>> THEN <<>> ELSE LiteralBlock(bytes)
  ELSE LiteralBlock(Slice(bytes, 0, 32)) \o LiteralBlocks(Slice(bytes, 32, Len(bytes) - 32))

\* appendLiteralRun(): a run of at least 8 literals, after its length.
RunLength(n) ==
  LET wide == (n - 278) \div 65535
      rest == (n - 278) % 65535
  IN IF n <= 22 THEN <<n - 8>>
     ELSE IF n < 278 THEN <<15, n - 23>>
     ELSE <<15, 255>> \o [i \in 1..(2 * wide) |-> 255] \o <<rest % 256, rest \div 256>>
LiteralRun(bytes) == RunLength(Len(bytes)) \o LiteralBlocks(bytes)

\* findCompressionMatch(): the bucket of the four bytes at a position, and
\* the match with the position its bucket names, at most 512 back and 14 long
\* (the branch for more than 0x400 back cannot be taken).  The bucket then
\* names this position.
Bucket(data, pos) ==
  LET v == ((At(data, pos + 3) * 65536) ^^ (At(data, pos + 2) * 1024))
             ^^ ((At(data, pos + 1) * 32) ^^ At(data, pos))
  IN (v + (v \div 32)) % 32768

MatchLength(data, pos, previous) ==
  LET longest == Least(14, Len(data) - pos)
      same == {i \in 0..(longest - 1) : At(data, pos + i) # At(data, previous + i)}
  IN IF same = {} THEN longest ELSE CHOOSE i \in same : \A j \in same : i <= j

FoundMatch(data, pos, table) ==
  LET bucket == Bucket(data, pos)
      previous == IF bucket \in DOMAIN table THEN table[bucket] ELSE -1
  IN IF previous < 0 \/ pos - previous > 512 THEN [length |-> 0, distance |-> 0]
     ELSE [length |-> MatchLength(data, pos, previous), distance |-> pos - previous]

\* The matches compressDataPage() uses, in order; none begins before byte 8.
RECURSIVE MatchesFrom(_, _, _)
MatchesFrom(data, pos, table) ==
  IF pos + 3 >= Len(data) THEN <<>>
  ELSE LET found == FoundMatch(data, pos, table)
           bucket == Bucket(data, pos)
           next == [b \in DOMAIN table \cup {bucket} |-> IF b = bucket THEN pos ELSE table[b]]
       IN IF found.length < 3 \/ pos < 8 THEN MatchesFrom(data, pos + 1, next)
          ELSE <<[position |-> pos, length |-> found.length, distance |-> found.distance]>>
                 \o MatchesFrom(data, pos + found.length, next)
Matches(data) == MatchesFrom(data, 0, [b \in {} |-> 0])

\* Mutant: the distance itself is stored.
MatchCodeDistance(match, trailing) ==
  <<match.length * 16 + (match.distance % 16), (match.distance \div 16) * 8 + trailing>>
\* appendCompressionMatch(): the length and the low bits of the distance, the
\* high bits and the number of literals that follow, 0 for a run or none.
MatchCode(match, trailing) ==
  LET value == match.distance - 1
  IN <<match.length * 16 + (value % 16), (value \div 16) * 8 + trailing>>

\* The stream of a page with at least one match.
MatchEnd(match) == match.position + match.length
Packed(data, matches) ==
  LET n == Len(matches)
      upTo(i) == IF i < n THEN matches[i + 1].position ELSE Len(data)
      literals(i) == Slice(data, MatchEnd(matches[i]), upTo(i) - MatchEnd(matches[i]))
      after(i) == IF Len(literals(i)) < 8 THEN LiteralBlocks(literals(i)) ELSE LiteralRun(literals(i))
      code(i) == MatchCode(matches[i], IF Len(literals(i)) < 8 THEN Len(literals(i)) ELSE 0)
      RECURSIVE Parts(_)
      Parts(i) == IF i > n THEN <<>> ELSE code(i) \o after(i) \o Parts(i + 1)
  IN LiteralRun(Slice(data, 0, matches[1].position)) \o Parts(1)

-----------------------------------------------------------------------------
(* decompress21().  r is the state of the reader: the position in the      *)
(* stream, the bytes written, the opcode, the length and offset read, the  *)
(* byte last read, and whether the buffers are good.                       *)

Read(s, r) ==
  IF r.pos < Len(s) THEN [r EXCEPT !.pos = @ + 1, !.byte = At(s, r.pos), !.good = TRUE]
  ELSE [r EXCEPT !.byte = 0, !.good = FALSE]
ReadOpcode(s, r) == LET next == Read(s, r) IN [next EXCEPT !.op = next.byte]
Good(r) == r.good /\ r.fits

\* litLength21()
RECURSIVE MoreLength(_, _)
MoreLength(s, r) ==
  LET low == Read(s, r)
      high == Read(s, low)
      n == low.byte + 256 * high.byte
      longer == [high EXCEPT !.length = @ + n]
  IN IF n = 65535 THEN MoreLength(s, longer) ELSE longer
RunLengthRead(s, r) ==
  IF r.op # 15 THEN [r EXCEPT !.length = 8 + r.op]
  ELSE LET next == Read(s, r)
           longer == [next EXCEPT !.length = 23 + next.byte]
       IN IF next.byte = 255 THEN MoreLength(s, longer) ELSE longer

\* copyCompBytes21(): literals in blocks of 32, each in its order, as far as
\* there is room.
RECURSIVE Literals(_, _, _, _)
Literals(s, dsize, r, n) ==
  LET size == Least(n, 32)
      order == CopyOrder21[size]
      byte(i) == IF r.pos + order[i] < Len(s) THEN At(s, r.pos + order[i]) ELSE 0
      room == IF Good(r) THEN Least(size, dsize - Len(r.out)) ELSE 0
      next == [r EXCEPT !.out = @ \o [i \in 1..room |-> byte(i)],
                        !.fits = @ /\ (~r.good \/ room = size),
                        !.pos = @ + size,
                        !.good = r.pos + size <= Len(s)]
  IN IF n = 0 THEN r ELSE Literals(s, dsize, next, n - size)

\* readInstructions21()
Instruction(s, r) ==
  LET high == r.op \div 16
      low == r.op % 16
      r1 == Read(s, r)
      r2 == Read(s, r1)
      r3 == Read(s, r2)
      r4 == Read(s, r3)
      Is(last, length, offset) ==
        [last EXCEPT !.op = last.byte, !.length = length, !.offset = offset]
  IN CASE high = 0 -> Is(r2, low + 19 + 16 * (r2.byte \div 128),
                             ((r2.byte \div 8) % 16) * 256 + 1 + r1.byte)
       [] high = 1 -> Is(r2, low + 3, (r2.byte \div 8) * 256 + 1 + r1.byte)
       [] high = 2 /\ low < 8 -> Is(r3, low + (r3.byte \div 8) * 8, r1.byte + 256 * r2.byte)
       [] high = 2 /\ low >= 8 -> Is(r4, (low - 8) + r3.byte * 8 + (r4.byte \div 8) * 2048 + 256,
                                         r1.byte + 256 * r2.byte + 1)
       [] OTHER -> Is(r1, high, (r1.byte \div 8) * 16 + low + 1)

\* One copy of earlier output, kept inside what was written and what is left.
\* An overlapping copy repeats the bytes between; offset 0 reads bytes of the
\* output that were not written yet, 0.
Copied(s, dsize, r) ==
  LET n == Len(r.out)
      offset == Least(r.offset, n)
      tooLong == r.length > dsize - n
      length == Least(r.length, dsize - n)
      byte(i) == IF offset = 0 THEN 0 ELSE At(r.out, n - offset + ((i - 1) % offset))
  IN [r EXCEPT !.out = @ \o [i \in 1..length |-> byte(i)],
               !.pos = IF tooLong THEN Len(s) ELSE @,
               !.good = @ /\ ~tooLong]

\* Copies until literals or a run of literals follow or the stream ends: the
\* inner loop.  The length left is that of the literals, 0 for a run.
RECURSIVE Copies(_, _, _)
Copies(s, dsize, r) ==
  LET copied == Copied(s, dsize, r)
      trailing == [copied EXCEPT !.length = copied.op % 8]
      next == ReadOpcode(s, trailing)
  IN IF trailing.length # 0 \/ trailing.pos >= Len(s) THEN trailing
     ELSE IF next.op \div 16 = 0 THEN next
     ELSE Copies(s, dsize, Instruction(s, IF next.op \div 16 = 15 THEN [next EXCEPT !.op = @ % 16]
                                          ELSE next))

\* The outer loop: literals, then copies.
RECURSIVE Unpack(_, _, _)
Unpack(s, dsize, r) ==
  LET sized == IF r.length = 0 THEN RunLengthRead(s, r) ELSE r
      filled == Literals(s, dsize, sized, sized.length)
      copied == Copies(s, dsize, Instruction(s, ReadOpcode(s, [filled EXCEPT !.length = 0])))
  IN IF ~Good(r) THEN r
     ELSE IF Len(filled.out) >= dsize THEN filled
     ELSE IF copied.pos >= Len(s) THEN copied
     ELSE Unpack(s, dsize, copied)

Decompressed(s, dsize) ==
  LET first == ReadOpcode(s, [pos |-> 0, out |-> <<>>, op |-> 0, length |-> 0, offset |-> 0,
                              byte |-> 0, good |-> TRUE, fits |-> TRUE])
      skipped == [first EXCEPT !.pos = @ + 2, !.good = first.pos + 2 <= Len(s)]
      short == Read(s, skipped)
      end == Unpack(s, dsize, IF first.op \div 16 = 2 THEN [short EXCEPT !.length = short.byte % 8]
                              ELSE first)
  IN [ok |-> Good(end), out |-> end.out]

-----------------------------------------------------------------------------
\* compressDataPage(): what it would store, whether its validator accepts
\* that, and the stream, empty for a page that is stored as it is.
Compressed(data) ==
  LET worth(stream) == stream # <<>> /\ Len(stream) < Len(data)
      valid(stream) == Decompressed(stream, Len(data)) = [ok |-> TRUE, out |-> data]
      Kept(stream, accepted) == [stream |-> IF worth(stream) /\ accepted THEN stream ELSE <<>>,
                                 rejected |-> worth(stream) /\ ~accepted]
      Stream(matches) == IF matches = <<>> THEN <<>> ELSE Packed(data, matches)
      Attempt(matches) == With(Stream(matches), LAMBDA stream : Kept(stream, valid(stream)))
  IN With(IF Len(data) <= 24 THEN <<>> ELSE Matches(data), Attempt)
=============================================================================
