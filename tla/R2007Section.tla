--------------------------- MODULE R2007Section ---------------------------
(***************************************************************************)
(* A section of an R2007 file on its way through the storage: split into   *)
(* pages, compressed, encoded with error correction (dwgwriter21.cpp,      *)
(* addSection and encodeDataPage), damaged where it is stored, and read    *)
(* back (dwgreader21.cpp, parseDataPage).                                  *)
(*                                                                         *)
(* The checksums of the section map are the content they are computed      *)
(* over: two contents have the same checksum only when they are equal.     *)
(***************************************************************************)
EXTENDS LzCodec, RsCodec

CONSTANTS
  Sections,     \* the sections written: [data, maxSize, encoding]
  Codecs,       \* encoding -> [codec, interleaved]
  Faults(_)     \* section -> [places, symbols, most, burst]: what damage is tried

ASSUME SectionAssumption ==
  \A s \in Sections :
    /\ s.encoding \in DOMAIN Codecs
    /\ s.maxSize \in Nat \ {0}
    /\ s.data # <<>>

VARIABLES
  section,      \* the section written
  pages,        \* its pages: [symbols, cSize, uSize, crc, checksum, rejected]
  hits,         \* the symbols damaged: pairs of a page and a place
  out,          \* the bytes read back
  last,         \* the page decoded last: the word stored and the result of each block
  warned,       \* a checksum did not match
  phase         \* "write", "stored", "read", "done", "failed"

vars == <<section, pages, hits, out, last, warned, phase>>

Codec(encoding) == Codecs[encoding].codec
\* Mutant: the blocks of every encoding follow one another.
NeverInterleaved(encoding) == FALSE
IsInterleaved(encoding) == Codecs[encoding].interleaved

\* The number of blocks that hold a payload: it is padded to eight bytes, then
\* to whole blocks.
AlignUp8(n) == 8 * ((n + 7) \div 8)
Blocks(c, size) == (AlignUp8(size) + c.kk - 1) \div c.kk

\* encodeDataPage(); the zeros that fill the page up to its alignment are left out.
EncodeDataPage(payload, encoding) ==
  LET c == Codec(encoding)
      blocks == Blocks(c, Len(payload))
      padded == [k \in 0..(blocks * c.kk - 1) |-> IF k < Len(payload) THEN payload[k + 1] ELSE 0]
  IN Encoded(c, blocks, IsInterleaved(encoding), padded)

\* What is put on disk for a chunk of a section: its compressed stream if that
\* is worth it, the chunk otherwise; a reader tells by the two sizes.
PageOf(chunk, encoding) ==
  LET Page(payload, rejected) ==
        [symbols |-> EncodeDataPage(payload, encoding), cSize |-> Len(payload), uSize |-> Len(chunk),
         crc |-> payload, checksum |-> chunk, rejected |-> rejected]
  IN With(Compressed(chunk),
          LAMBDA c : Page(IF c.stream # <<>> THEN c.stream ELSE chunk, c.rejected))

\* Reading one page: the payload and whether its blocks could be corrected,
\* the content and whether it could be decompressed, and the checksums that do
\* not match.
DecodedPage(page, c, interleaved) == Decoded(c, Blocks(c, page.cSize), interleaved, page.symbols)
PayloadOf(page, decoded) == Tabled([k \in 1..page.cSize |-> decoded.data[k - 1]])
ContentOf(page, payload) ==
  IF page.cSize = page.uSize THEN [ok |-> TRUE, out |-> payload] ELSE Decompressed(payload, page.uSize)
Mismatches(page, payload, content) == payload # page.crc \/ content # page.checksum

-----------------------------------------------------------------------------
Init ==
  /\ section \in Sections
  /\ pages = <<>>
  /\ hits = {}
  /\ out = <<>>
  /\ last = <<>>
  /\ warned = FALSE
  /\ phase = "write"

\* addSection(): the next chunk of at most maxSize bytes.
WritePage ==
  LET start == Len(pages) * section.maxSize
      left == Len(section.data) - start
  IN /\ phase = "write"
     /\ pages' = Append(pages, PageOf(Slice(section.data, start, Least(section.maxSize, left)),
                                      section.encoding))
     /\ phase' = IF left <= section.maxSize THEN "stored" ELSE "write"
     /\ UNCHANGED <<section, hits, out, last, warned>>

Struck(page, places, symbol) ==
  [page EXCEPT !.symbols = [p \in DOMAIN @ |-> IF p \in places THEN Plus(@[p], symbol) ELSE @[p]]]

\* A symbol of a page is changed on disk.
Damage ==
  LET faults == Faults(section)
  IN /\ phase = "stored"
     /\ Cardinality(hits) < faults.most
     /\ \E i \in DOMAIN pages, place \in faults.places, symbol \in faults.symbols :
          /\ place \in DOMAIN pages[i].symbols
          /\ <<i, place>> \notin hits
          /\ pages' = [pages EXCEPT ![i] = Struck(@, {place}, symbol)]
          /\ hits' = hits \cup {<<i, place>>}
     /\ UNCHANGED <<section, out, last, warned, phase>>

\* A run of symbols of a page is changed.
BurstOfDamage ==
  LET faults == Faults(section)
  IN /\ phase = "stored"
     /\ hits = {}
     /\ \E i \in DOMAIN pages, place \in faults.places, symbol \in faults.symbols :
          LET run == place..(place + faults.burst - 1)
          IN /\ run \subseteq DOMAIN pages[i].symbols
             /\ pages' = [pages EXCEPT ![i] = Struck(@, run, symbol)]
             /\ hits' = {i} \X run
     /\ UNCHANGED <<section, out, last, warned, phase>>

\* parseDataPage(): the next page of the section, from the first.
ReadPage ==
  /\ phase \in {"stored", "read"}
  /\ LET page == pages[Len(last) + 1]
     IN \E c \in {Codec(section.encoding)} :
        \E decoded \in {DecodedPage(page, c, IsInterleaved(section.encoding))} :
        \E payload \in {PayloadOf(page, decoded)} :
        \E content \in {ContentOf(page, payload)} :
          /\ last' = Append(last, decoded)
          /\ IF decoded.ok /\ content.ok
             THEN /\ out' = out \o content.out
                  /\ warned' = (warned \/ Mismatches(page, payload, content.out))
                  /\ phase' = IF Len(last') = Len(pages) THEN "done" ELSE "read"
             ELSE /\ warned' = (warned \/ (decoded.ok /\ payload # page.crc))
                  /\ phase' = "failed"
                  /\ UNCHANGED out
  /\ UNCHANGED <<section, pages, hits>>

Next == WritePage \/ Damage \/ BurstOfDamage \/ ReadPage

Spec == Init /\ [][Next]_vars

-----------------------------------------------------------------------------
BlockOfHit(hit) ==
  LET c == Codec(section.encoding)
      blocks == Blocks(c, pages[hit[1]].cSize)
  IN <<hit[1], IF IsInterleaved(section.encoding) THEN hit[2] % blocks ELSE hit[2] \div c.nn>>
HitsOf(block) == {hit \in hits : BlockOfHit(hit) = block}

\* What was written is read back, without a warning, as long as no block has
\* more wrong symbols than it can correct: splitting, compressing, padding,
\* interleaving and correcting are undone exactly, page by page.
Repaired ==
  (/\ phase \in {"done", "failed"}
   /\ \A hit \in hits :
        Cardinality(HitsOf(BlockOfHit(hit))) <= Codec(section.encoding).tt) =>
  phase = "done" /\ out = section.data /\ ~warned

\* The symbols that all the blocks of a page together can correct.
BurstLength(page) == Codec(section.encoding).tt * Blocks(Codec(section.encoding), page.cSize)
IsBurst(i) ==
  \A length \in {BurstLength(pages[i])} : \E first \in {hit[2] : hit \in hits} :
    hits \subseteq {i} \X (first..(first + length - 1))

\* Interleaving spreads a run of damage over the blocks of a page: a run of as
\* many symbols as all the blocks together can correct is repaired, wherever
\* it begins (with encoding 1 a block takes it alone).
BurstRepaired ==
  (/\ phase \in {"done", "failed"}
   /\ section.encoding # 1
   /\ \E i \in DOMAIN pages : IsBurst(i)) =>
  phase = "done" /\ out = section.data

\* A block that is taken as corrected is a codeword that differs from what was
\* stored in no more symbols than the code corrects; one that is not is handed
\* on as it was stored, and its page is not read.
HonestlyDecoded(c, stored, result) ==
  IF result.ok
  THEN /\ IsCodeword(c, result.word)
       /\ Cardinality({k \in DOMAIN stored : result.word[k] # stored[k]}) <= c.tt
  ELSE result.word = stored /\ phase = "failed"
DecodedHonestly ==
  \A c \in {Codec(section.encoding)} : \A i \in DOMAIN last : \A b \in DOMAIN last[i].blocks :
    With(Collected(c, Blocks(c, pages[i].cSize), IsInterleaved(section.encoding), pages[i].symbols, b),
         LAMBDA stored : HonestlyDecoded(c, stored, last[i].blocks[b]))

\* The writer validates each compressed page with the reader's codec, so that
\* an edge case degrades to a stored page; there is none: what the matcher and
\* the emitter produce is always accepted.
ValidatorNeverRejects == \A i \in DOMAIN pages : ~pages[i].rejected
=============================================================================
