--------------------------- MODULE DxfReaderProofs ---------------------------
(* The self handles of what dxfRW::read hands to the application are distinct, *)
(* the blocks it announces are closed again, and what it hands over is what    *)
(* the records of the file ask for, for any names, handles and number of       *)
(* records.                                                                    *)
EXTENDS DxfReader, SequenceTheorems, TLAPS

---------------------------------------------------------------------------
(* Sequences of callbacks.                                                   *)

Methods == {"add", "addBlock", "endBlock", "addBlockRecord", "addRawDxfSection"}
Calls == [method : Methods, at : Nat, parts : Seq(Nat), handle : HandlesOrNone]

\* The callbacks of q whose handle is registered as the record's own.
HasOwn(c) == c.handle # 0 /\ c.method # "addBlockRecord"
HandlesOf(q) == {q[i].handle : i \in {k \in DOMAIN q : HasOwn(q[k])}}
Once(q) == \A i, j \in DOMAIN q :
             HasOwn(q[i]) /\ HasOwn(q[j]) /\ q[i].handle = q[j].handle => i = j

LEMMA HandlesOfAppend ==
  ASSUME NEW q \in Seq(Calls), NEW c \in Calls
  PROVE  HandlesOf(Append(q, c)) =
           HandlesOf(q) \cup (IF HasOwn(c) THEN {c.handle} ELSE {})
<1>1. /\ DOMAIN Append(q, c) = DOMAIN q \cup {Len(q) + 1}
      /\ Append(q, c)[Len(q) + 1] = c
      /\ \A i \in DOMAIN q : Append(q, c)[i] = q[i]
  OBVIOUS
<1>2. ASSUME NEW h \in HandlesOf(Append(q, c))
      PROVE  h \in HandlesOf(q) \/ (HasOwn(c) /\ h = c.handle)
  BY <1>1 DEF HandlesOf
<1>3. HandlesOf(q) \subseteq HandlesOf(Append(q, c))
  BY <1>1 DEF HandlesOf
<1>4. HasOwn(c) => c.handle \in HandlesOf(Append(q, c))
  BY <1>1 DEF HandlesOf
<1>5. QED BY <1>2, <1>3, <1>4

LEMMA OnceAppend ==
  ASSUME NEW q \in Seq(Calls), NEW c \in Calls, Once(q),
         HasOwn(c) => c.handle \notin HandlesOf(q)
  PROVE  Once(Append(q, c))
<1>1. /\ DOMAIN Append(q, c) = DOMAIN q \cup {Len(q) + 1}
      /\ Append(q, c)[Len(q) + 1] = c
      /\ \A i \in DOMAIN q : Append(q, c)[i] = q[i]
  OBVIOUS
<1>2. ASSUME NEW i \in DOMAIN q, HasOwn(q[i]) PROVE q[i].handle \in HandlesOf(q)
  BY <1>2 DEF HandlesOf
<1>3. QED BY <1>1, <1>2 DEF Once

LEMMA HandlesOfConcat ==
  ASSUME NEW q \in Seq(Calls), NEW r \in Seq(Calls)
  PROVE  HandlesOf(q \o r) = HandlesOf(q) \cup HandlesOf(r)
<1>1. /\ DOMAIN (q \o r) = 1..(Len(q) + Len(r))
      /\ \A i \in 1..Len(q) : (q \o r)[i] = q[i]
      /\ \A i \in 1..Len(r) : (q \o r)[Len(q) + i] = r[i]
      /\ \A i \in (Len(q) + 1)..(Len(q) + Len(r)) : (q \o r)[i] = r[i - Len(q)]
      /\ DOMAIN q = 1..Len(q) /\ DOMAIN r = 1..Len(r)
      /\ Len(q) \in Nat /\ Len(r) \in Nat
  BY ConcatProperties, LenProperties
<1>2. ASSUME NEW h \in HandlesOf(q \o r) PROVE h \in HandlesOf(q) \cup HandlesOf(r)
  <2>1. PICK i \in DOMAIN (q \o r) : HasOwn((q \o r)[i]) /\ h = (q \o r)[i].handle
    BY DEF HandlesOf
  <2>2. CASE i <= Len(q)
    BY <1>1, <2>1, <2>2 DEF HandlesOf
  <2>3. CASE i > Len(q)
    <3>1. i - Len(q) \in DOMAIN r /\ (q \o r)[i] = r[i - Len(q)]
      BY <1>1, <2>1, <2>3
    <3>2. QED BY <2>1, <3>1 DEF HandlesOf
  <2>4. QED BY <1>1, <2>1, <2>2, <2>3
<1>3. HandlesOf(q) \subseteq HandlesOf(q \o r)
  BY <1>1 DEF HandlesOf
<1>4. ASSUME NEW h \in HandlesOf(r) PROVE h \in HandlesOf(q \o r)
  <2>1. PICK i \in DOMAIN r : HasOwn(r[i]) /\ h = r[i].handle
    BY DEF HandlesOf
  <2>2. Len(q) + i \in DOMAIN (q \o r) /\ (q \o r)[Len(q) + i] = r[i]
    BY <1>1, <2>1
  <2>3. QED BY <2>1, <2>2 DEF HandlesOf
<1>5. QED BY <1>2, <1>3, <1>4

LEMMA OnceConcat ==
  ASSUME NEW q \in Seq(Calls), NEW r \in Seq(Calls), Once(q), Once(r),
         HandlesOf(q) \cap HandlesOf(r) = {}
  PROVE  Once(q \o r)
<1>1. /\ DOMAIN (q \o r) = 1..(Len(q) + Len(r))
      /\ \A i \in 1..Len(q) : (q \o r)[i] = q[i]
      /\ \A i \in (Len(q) + 1)..(Len(q) + Len(r)) : (q \o r)[i] = r[i - Len(q)]
      /\ DOMAIN q = 1..Len(q) /\ DOMAIN r = 1..Len(r)
      /\ Len(q) \in Nat /\ Len(r) \in Nat
  BY ConcatProperties, LenProperties
<1> SUFFICES ASSUME NEW i \in DOMAIN (q \o r), NEW j \in DOMAIN (q \o r),
                    HasOwn((q \o r)[i]), HasOwn((q \o r)[j]),
                    (q \o r)[i].handle = (q \o r)[j].handle
             PROVE  i = j
  BY DEF Once
<1>2. \A k \in DOMAIN q : HasOwn(q[k]) => q[k].handle \in HandlesOf(q)
  BY DEF HandlesOf
<1>3. \A k \in DOMAIN r : HasOwn(r[k]) => r[k].handle \in HandlesOf(r)
  BY DEF HandlesOf
<1>4. CASE i <= Len(q) /\ j <= Len(q)
  BY <1>1, <1>4 DEF Once
<1>5. CASE i > Len(q) /\ j > Len(q)
  <2>1. i - Len(q) \in DOMAIN r /\ j - Len(q) \in DOMAIN r
    BY <1>1, <1>5
  <2>2. i - Len(q) = j - Len(q)
    BY <1>1, <1>5, <2>1 DEF Once
  <2>3. QED BY <1>1, <2>2
<1>6. CASE i <= Len(q) /\ j > Len(q)
  <2>1. j - Len(q) \in DOMAIN r
    BY <1>1, <1>6
  <2>2. QED BY <1>1, <1>2, <1>3, <1>6, <2>1
<1>7. CASE i > Len(q) /\ j <= Len(q)
  <2>1. i - Len(q) \in DOMAIN r
    BY <1>1, <1>7
  <2>2. QED BY <1>1, <1>2, <1>3, <1>7, <2>1
<1>8. QED BY <1>1, <1>4, <1>5, <1>6, <1>7

LEMMA OnceSubSeq ==
  ASSUME NEW q \in Seq(Calls), Once(q), NEW k \in 0..Len(q)
  PROVE  /\ SubSeq(q, 1, k) \in Seq(Calls)
         /\ Once(SubSeq(q, 1, k))
         /\ HandlesOf(SubSeq(q, 1, k)) \subseteq HandlesOf(q)
<1>1. /\ DOMAIN SubSeq(q, 1, k) = 1..k /\ 1..k \subseteq DOMAIN q
      /\ \A i \in 1..k : SubSeq(q, 1, k)[i] = q[i]
      /\ SubSeq(q, 1, k) \in Seq(Calls)
  BY LenProperties, SubSeqProperties
<1>2. QED BY <1>1 DEF Once, HandlesOf

---------------------------------------------------------------------------
(* What the variables range over.                                            *)

Stages == {"none", "head", "children", "footer"}
TokenSet == [name : Names \cup {"SECTION", "TABLE"}, of : Sections \cup Tables \cup {"none"},
           complete : BOOLEAN]

ProcessorTypeOK ==
  /\ section \in Sections \cup {"none"}
  /\ table \in Tables \cup {"none"}
  /\ record \in [name : Names \cup {"none"}, at : Nat]
  /\ parent \in [name : Names \cup {"none"}, at : Nat, parts : Seq(Nat),
                 handle : HandlesOrNone]
  /\ block \in [stage : Stages, handle : HandlesOrNone, published : BOOLEAN]
  /\ tokens \in Seq(TokenSet)

CallbackTypeOK ==
  /\ staged \in Seq(Calls) /\ events \in Seq(Calls)
  /\ seen \subseteq Handles /\ issued \subseteq Handles

TypeInv == ProcessorTypeOK /\ CallbackTypeOK

LEMMA CallIsTyped ==
  ASSUME NEW m \in Methods, NEW k \in Nat, NEW ps \in Seq(Nat), NEW h \in HandlesOrNone
  PROVE  Callback(m, k, ps, h) \in Calls
BY DEF Callback, Calls

LEMMA NameFacts == /\ Typed \cup Raw \cup Keywords \subseteq Names
                   /\ {"LAYER", "BLOCK_RECORD"} \subseteq Names /\ "CLASS" \in Names
BY DEF Names, Keywords, Tables

LEMMA TokensStayTyped ==
  ASSUME NEW q \in Seq(TokenSet), NEW n \in Names
  PROVE  Follows(q, n) \in Seq(TokenSet)
<1>1. Token(n, "none") \in TokenSet
  BY DEF Token, TokenSet
<1>2. Append(q, Token(n, "none")) \in Seq(TokenSet)
  BY <1>1
<1>3. QED BY <1>2 DEF Follows

LEMMA RecordIsTyped ==
  ASSUME ProcessorTypeOK, NEW n \in Names
  PROVE  NewRecord(n) \in [name : Names \cup {"none"}, at : Nat]
<1>1. Len(tokens) + 1 \in Nat
  BY LenProperties DEF ProcessorTypeOK
<1>2. QED BY <1>1 DEF NewRecord

LEMMA HandleReadTyped ==
  ASSUME NEW h \in HandlesOrNone
  PROVE  HandleRead(h) \in HandlesOrNone
BY DEF HandleRead, HandlesOrNone

\* What a group of code 0 can be is a name of the file format.
LEMMA OfferedNames == ASSUME ProcessorTypeOK PROVE Offered \subseteq Names
<1>1. \A x : PartName(x) \in {"ATTRIB", "VERTEX"}
  BY DEF PartName
<1>2. QED
  BY <1>1, NameFacts DEF Offered, Keywords

LEMMA InitTyped == ASSUME Init PROVE TypeInv
<1>1. <<>> \in Seq(Calls) /\ <<>> \in Seq(TokenSet) /\ <<>> \in Seq(Nat)
  OBVIOUS
<1>2. QED
  BY <1>1 DEF Init, TypeInv, ProcessorTypeOK, CallbackTypeOK, NoRecord, NoParent,
     NoBlock, HandlesOrNone, Stages

LEMMA RegisteredTyped ==
  ASSUME seen \subseteq Handles, NEW h \in HandlesOrNone, Registered(h)
  PROVE  seen' \subseteq Handles
BY DEF Registered, HandlesOrNone

LEMMA HandlesOfTyped ==
  ASSUME NEW q \in Seq(Calls)
  PROVE  HandlesOf(q) \subseteq Handles
<1> SUFFICES ASSUME NEW i \in DOMAIN q, HasOwn(q[i]) PROVE q[i].handle \in Handles
  BY DEF HandlesOf
<1>1. q[i] \in Calls
  BY LenProperties
<1>2. QED BY <1>1 DEF Calls, HandlesOrNone, HasOwn

LEMMA OwnHandlesOf == OwnHandles = HandlesOf(events)
BY DEF OwnHandles, Own, HandlesOf, HasOwn

LEMMA OwnHandlesTyped == ASSUME CallbackTypeOK PROVE OwnHandles \subseteq Handles
BY HandlesOfTyped, OwnHandlesOf DEF CallbackTypeOK

LEMMA SectionsTyped ==
  ASSUME TypeInv, \/ \E s \in Sections : BeginSection(s)
                  \/ \E v \in BOOLEAN : ReadHeader(v)
                  \/ \E n \in Names : SkipRecord(n)
                  \/ \E t \in Tables : OpenTable(t)
                  \/ EndEmptySection \/ EndOfFile \/ EndOpaqueTable
  PROVE  TypeInv'
<1> USE DEF TypeInv, ProcessorTypeOK, CallbackTypeOK, Read, processor
<1>1. CASE \E s \in Sections : BeginSection(s)
  <2>1. PICK s \in Sections : BeginSection(s)
    BY <1>1
  <2>2. NoRecord \in [name : Names \cup {"none"}, at : Nat]
    BY DEF NoRecord
  <2>3. NoParent \in [name : Names \cup {"none"}, at : Nat, parts : Seq(Nat),
                      handle : HandlesOrNone]
    BY DEF NoParent, HandlesOrNone
  <2>4. <<Token("SECTION", s)>> \in Seq(TokenSet)
    BY DEF Token, TokenSet
  <2>5. QED
    BY <2>1, <2>2, <2>3, <2>4, OwnHandlesTyped DEF BeginSection
<1>2. CASE \E v \in BOOLEAN : ReadHeader(v)
  BY <1>2, OwnHandlesTyped DEF ReadHeader
<1>3. CASE \E n \in Names : SkipRecord(n)
  BY <1>3, TokensStayTyped DEF SkipRecord
<1>4. CASE \E t \in Tables : OpenTable(t)
  <2>1. PICK t \in Tables : OpenTable(t)
    BY <1>4
  <2>2. NoRecord \in [name : Names \cup {"none"}, at : Nat]
    BY DEF NoRecord
  <2>3. Token("TABLE", t) \in TokenSet
    BY DEF Token, TokenSet
  <2>4. QED BY <2>1, <2>2, <2>3 DEF OpenTable
<1>5. "ENDSEC" \in Names /\ "ENDTAB" \in Names
  BY NameFacts DEF Keywords
<1>6. CASE EndEmptySection \/ EndOpaqueTable
  BY <1>5, <1>6, TokensStayTyped DEF EndEmptySection, EndOpaqueTable
<1>7. CASE EndOfFile
  BY <1>7 DEF EndOfFile
<1>8. QED BY <1>1, <1>2, <1>3, <1>4, <1>6, <1>7

LEMMA RowsTyped ==
  ASSUME TypeInv, NEW h \in HandlesOrNone, NextRow(h) \/ EndRows(h)
  PROVE  TypeInv'
<1> USE DEF TypeInv, ProcessorTypeOK, CallbackTypeOK, Read
<1>1. RowName \in Names /\ "ENDTAB" \in Names /\ "ENDSEC" \in Names
  BY NameFacts DEF RowName, InRows, NextRow, EndRows, Keywords
<1>2. FinishedRows(h) \in Seq(Calls)
  <2>1. RowMethod \in Methods
    BY DEF RowMethod, Methods
  <2>2. record.at \in Nat /\ <<>> \in Seq(Nat)
    OBVIOUS
  <2>3. Callback(RowMethod, record.at, <<>>, h) \in Calls
    BY <2>1, <2>2, CallIsTyped
  <2>4. QED BY <2>3 DEF FinishedRows
<1>3. RowFinishes(h) => seen' \subseteq Handles
  BY RegisteredTyped DEF RowFinishes
<1>4. CASE NextRow(h)
  <2>1. NewRecord(RowName) \in [name : Names \cup {"none"}, at : Nat]
    BY <1>1, RecordIsTyped
  <2>2. tokens' \in Seq(TokenSet)
    BY <1>1, <1>4, TokensStayTyped DEF NextRow
  <2>3. QED
    BY <1>2, <1>3, <1>4, <2>1, <2>2 DEF NextRow
<1>5. CASE EndRows(h)
  <2>1. events \o FinishedRows(h) \in Seq(Calls) /\ <<>> \in Seq(Calls)
    BY <1>2, ConcatProperties
  <2>2. NoRecord \in [name : Names \cup {"none"}, at : Nat]
    BY DEF NoRecord
  <2>3. tokens' \in Seq(TokenSet)
    BY <1>1, <1>5, TokensStayTyped DEF EndRows
  <2>4. QED
    BY <1>3, <1>5, <2>1, <2>2, <2>3 DEF EndRows
<1>6. QED BY <1>4, <1>5

LEMMA DeliverTyped ==
  ASSUME CallbackTypeOK, NEW r, r.at \in Nat, NEW ps \in Seq(Nat),
         NEW h \in HandlesOrNone, Deliver(r, ps, h)
  PROVE  staged' \in Seq(Calls) /\ events' \in Seq(Calls)
<1> DEFINE c == Callback("add", r.at, ps, h)
<1>1. c \in Calls
  BY CallIsTyped DEF Methods
<1>2. /\ staged' \in {staged, Append(staged, c)}
      /\ events' \in {events, Append(events, c)}
  BY DEF Deliver
<1> HIDE DEF c
<1>3. Append(staged, c) \in Seq(Calls) /\ Append(events, c) \in Seq(Calls)
  BY <1>1 DEF CallbackTypeOK
<1>4. staged \in Seq(Calls) /\ events \in Seq(Calls)
  BY DEF CallbackTypeOK
<1>5. QED BY <1>2, <1>3, <1>4

LEMMA FollowTyped ==
  ASSUME ProcessorTypeOK, NEW n \in Names, Follow(n)
  PROVE  /\ section' \in Sections \cup {"none"}
         /\ record' \in [name : Names \cup {"none"}, at : Nat]
         /\ block' \in [stage : Stages, handle : HandlesOrNone, published : BOOLEAN]
<1>1. /\ NoRecord \in [name : Names \cup {"none"}, at : Nat]
      /\ NewRecord(n) \in [name : Names \cup {"none"}, at : Nat]
  BY RecordIsTyped DEF NoRecord
<1>2. [block EXCEPT !.stage = "footer"] \in
        [stage : Stages, handle : HandlesOrNone, published : BOOLEAN]
  BY DEF ProcessorTypeOK, Stages
<1>3. QED BY <1>1, <1>2 DEF Follow, ProcessorTypeOK

LEMMA EntitiesTyped ==
  ASSUME TypeInv, NEW n \in Names,
         \/ FirstRecord(n) \/ EndParts(n)
         \/ \E h \in HandlesOrNone : EndRecord(n, h) \/ BeginParts(n, h) \/ NextPart(n, h)
  PROVE  TypeInv'
<1> USE DEF TypeInv, ProcessorTypeOK, CallbackTypeOK, Read
<1>1. tokens' \in Seq(TokenSet)
  BY TokensStayTyped DEF FirstRecord, EndParts, EndRecord, BeginParts, NextPart
<1>2. NewRecord(n) \in [name : Names \cup {"none"}, at : Nat]
  BY RecordIsTyped
<1>3. record.at \in Nat /\ parent.at \in Nat /\ parent.parts \in Seq(Nat)
      /\ parent.handle \in HandlesOrNone /\ <<>> \in Seq(Nat)
  OBVIOUS
<1>4. CASE FirstRecord(n)
  BY <1>1, <1>4, FollowTyped DEF FirstRecord
<1>5. CASE EndParts(n)
  <2>1. NoParent \in [name : Names \cup {"none"}, at : Nat, parts : Seq(Nat),
                      handle : HandlesOrNone]
    BY DEF NoParent, HandlesOrNone
  <2>2. staged' \in Seq(Calls) /\ events' \in Seq(Calls)
    BY <1>3, <1>5, DeliverTyped DEF EndParts
  <2>3. QED BY <1>1, <1>5, <2>1, <2>2, FollowTyped DEF EndParts
<1>6. ASSUME NEW h \in HandlesOrNone, EndRecord(n, h) PROVE TypeInv'
  <2>1. staged' \in Seq(Calls) /\ events' \in Seq(Calls)
    BY <1>3, <1>6, DeliverTyped, HandleReadTyped DEF EndRecord
  <2>2. seen' \subseteq Handles
    BY <1>6, RegisteredTyped DEF EndRecord, TakesHandle
  <2>3. QED BY <1>1, <1>6, <2>1, <2>2, FollowTyped DEF EndRecord
<1>7. ASSUME NEW h \in HandlesOrNone, BeginParts(n, h) PROVE TypeInv'
  <2>1. parent' \in [name : Names \cup {"none"}, at : Nat, parts : Seq(Nat),
                     handle : HandlesOrNone]
    BY <1>3, <1>7, HandleReadTyped DEF BeginParts
  <2>2. seen' \subseteq Handles
    BY <1>7, RegisteredTyped DEF BeginParts, TakesHandle
  <2>3. QED BY <1>1, <1>2, <1>7, <2>1, <2>2 DEF BeginParts
<1>8. ASSUME NEW h \in HandlesOrNone, NextPart(n, h) PROVE TypeInv'
  <2>0. Append(parent.parts, record.at) \in Seq(Nat)
    BY <1>3
  <2>1. [parent EXCEPT !.parts = Append(@, record.at)] \in
          [name : Names \cup {"none"}, at : Nat, parts : Seq(Nat), handle : HandlesOrNone]
    BY <2>0
  <2>2. seen' \subseteq Handles
    BY <1>8, RegisteredTyped DEF NextPart
  <2>3. QED BY <1>1, <1>2, <1>8, <2>1, <2>2 DEF NextPart
<1>9. QED BY <1>4, <1>5, <1>6, <1>7, <1>8

\* The ghost notes whether the last BLOCK read has a name.
LEMMA CompletedTyped ==
  ASSUME tokens \in Seq(TokenSet), NEW named \in BOOLEAN
  PROVE  [tokens EXCEPT ![Len(tokens)].complete = named] \in Seq(TokenSet)
<1>1. \A k \in 1..Len(tokens) : [tokens[k] EXCEPT !.complete = named] \in TokenSet
  <2>1. ASSUME NEW k \in 1..Len(tokens) PROVE tokens[k] \in TokenSet
    BY ElementOfSeq
  <2>2. QED BY <2>1 DEF TokenSet
<1>2. tokens \in [1..Len(tokens) -> TokenSet] /\ Len(tokens) \in Nat
  BY LenProperties
<1>3. [tokens EXCEPT ![Len(tokens)].complete = named] \in [1..Len(tokens) -> TokenSet]
  BY <1>1, <1>2
<1>4. QED BY <1>2, <1>3, SeqDef

LEMMA BlockHeadTyped ==
  ASSUME TypeInv, NEW n \in Names,
         \/ BlocksBoundary(n)
         \/ \E h \in HandlesOrNone, named \in BOOLEAN : EndBlockHead(n, h, named)
  PROVE  TypeInv'
<1> USE DEF TypeInv, ProcessorTypeOK, CallbackTypeOK, Read
<1>1. NewRecord(n) \in [name : Names \cup {"none"}, at : Nat] /\ record.at \in Nat
      /\ <<>> \in Seq(Nat)
  BY RecordIsTyped
<1>2. CASE BlocksBoundary(n)
  <2>1. tokens' \in Seq(TokenSet)
    BY <1>2, TokensStayTyped DEF BlocksBoundary
  <2>2. [stage |-> "head", handle |-> 0, published |-> FALSE] \in
          [stage : Stages, handle : HandlesOrNone, published : BOOLEAN]
    BY DEF Stages, HandlesOrNone
  <2>3. QED
    BY <1>1, <1>2, <2>1, <2>2 DEF BlocksBoundary, BeginBlock
<1>3. ASSUME NEW h \in HandlesOrNone, NEW named \in BOOLEAN, EndBlockHead(n, h, named)
      PROVE  TypeInv'
  <2>1. [tokens EXCEPT ![Len(tokens)].complete = named] \in Seq(TokenSet)
    BY CompletedTyped
  <2>2. tokens' \in Seq(TokenSet)
    BY <1>3, <2>1, TokensStayTyped DEF EndBlockHead
  <2>3. Callback("addBlock", record.at, <<>>, HandleRead(h)) \in Calls
    BY <1>1, CallIsTyped, HandleReadTyped DEF Methods
  <2>4. events' \in Seq(Calls) /\ staged' \in Seq(Calls)
    BY <1>3, <2>3 DEF EndBlockHead
  <2>5. block' \in [stage : Stages, handle : HandlesOrNone, published : BOOLEAN]
    BY <1>3, HandleReadTyped DEF EndBlockHead, Stages
  <2>6. seen' \subseteq Handles
    BY <1>3, RegisteredTyped DEF EndBlockHead
  <2>7. QED BY <1>1, <1>3, <2>2, <2>4, <2>5, <2>6 DEF EndBlockHead
<1>4. QED BY <1>2, <1>3

LEMMA FlushedTyped == ASSUME CallbackTypeOK PROVE Flushed \in Seq(Calls)
BY DEF Flushed, CallbackTypeOK

\* What the end of a block with footer h adds to the callbacks.
Footer(h) == IF block.published
             THEN <<Callback("endBlock", record.at, <<>>, h)>> ELSE <<>>

LEMMA FooterTyped ==
  ASSUME TypeInv, NEW h \in HandlesOrNone
  PROVE  Footer(h) \in Seq(Calls)
<1>0. <<>> \in Seq(Nat)
  OBVIOUS
<1>1. Callback("endBlock", record.at, <<>>, h) \in Calls
  BY <1>0, CallIsTyped DEF Methods, TypeInv, ProcessorTypeOK
<1>2. QED BY <1>1 DEF Footer

LEMMA BlockEndTyped ==
  ASSUME TypeInv, NEW n \in Names, NEW h \in HandlesOrNone, EndBlock(n, h)
  PROVE  TypeInv'
<1> USE DEF TypeInv, ProcessorTypeOK, CallbackTypeOK, Read
<1>1. events' \in Seq(Calls) /\ staged' \in Seq(Calls)
  <2>1. events' = events \o Flushed \o Footer(h) /\ staged' = <<>>
    BY DEF EndBlock, Footer
  <2>2. QED BY <2>1, FlushedTyped, FooterTyped, ConcatProperties
<1>2. seen' \subseteq Handles /\ tokens' \in Seq(TokenSet)
  BY RegisteredTyped, TokensStayTyped DEF EndBlock
<1>3. /\ NoRecord \in [name : Names \cup {"none"}, at : Nat]
      /\ NewRecord(n) \in [name : Names \cup {"none"}, at : Nat]
  BY RecordIsTyped DEF NoRecord
<1>4. /\ [stage |-> "head", handle |-> 0, published |-> FALSE] \in
           [stage : Stages, handle : HandlesOrNone, published : BOOLEAN]
      /\ NoBlock \in [stage : Stages, handle : HandlesOrNone, published : BOOLEAN]
  BY DEF Stages, HandlesOrNone, NoBlock
<1>5. QED
  BY <1>1, <1>2, <1>3, <1>4 DEF EndBlock, BeginBlock

LEMMA LeftTyped ==
  ASSUME TypeInv, Left, events' \in Seq(Calls)
  PROVE  TypeInv'
<1>1. /\ NoRecord \in [name : Names \cup {"none"}, at : Nat]
      /\ NoParent \in [name : Names \cup {"none"}, at : Nat, parts : Seq(Nat),
                       handle : HandlesOrNone]
      /\ NoBlock \in [stage : Stages, handle : HandlesOrNone, published : BOOLEAN]
      /\ <<>> \in Seq(Calls)
  BY DEF NoRecord, NoParent, NoBlock, HandlesOrNone, Stages
<1>2. QED BY <1>1 DEF Left, TypeInv, ProcessorTypeOK, CallbackTypeOK

LEMMA ClosedTyped == ASSUME CallbackTypeOK PROVE Closed \in Seq(Calls)
<1>0. <<>> \in Seq(Nat)
  OBVIOUS
<1>1. Callback("endBlock", 0, <<>>, 0) \in Calls
  BY <1>0, CallIsTyped DEF Methods, HandlesOrNone
<1>2. QED BY <1>1 DEF Closed, CallbackTypeOK

LEMMA OthersTyped ==
  ASSUME TypeInv, \/ \E n \in Names : KeepRecord(n)
                  \/ EndKeptSection \/ Fail \/ ParserThrows
                  \/ \E k \in 0..MaxRecords : FlushThrows(k)
  PROVE  TypeInv'
<1> USE DEF TypeInv, ProcessorTypeOK, CallbackTypeOK, Read
<1>1. CASE \E n \in Names : KeepRecord(n)
  <2>1. PICK n \in Names : KeepRecord(n)
    BY <1>1
  <2>2. Len(tokens) + 1 \in Nat
    BY LenProperties
  <2>3. Append(parent.parts, Len(tokens) + 1) \in Seq(Nat)
    BY <2>2
  <2>4. [parent EXCEPT !.at = 1, !.parts = Append(@, Len(tokens) + 1)] \in
          [name : Names \cup {"none"}, at : Nat, parts : Seq(Nat), handle : HandlesOrNone]
    BY <2>3
  <2>5. NewRecord(n) \in [name : Names \cup {"none"}, at : Nat]
    BY RecordIsTyped
  <2>6. tokens' \in Seq(TokenSet)
    BY <2>1, TokensStayTyped DEF KeepRecord
  <2>7. QED BY <2>1, <2>4, <2>5, <2>6 DEF KeepRecord
<1>2. CASE EndKeptSection
  <2>1. Callback("addRawDxfSection", 1, parent.parts, 0) \in Calls
    BY CallIsTyped DEF Methods, HandlesOrNone
  <2>2. events' \in Seq(Calls)
    BY <1>2, <2>1 DEF EndKeptSection
  <2>3. /\ NoRecord \in [name : Names \cup {"none"}, at : Nat]
        /\ NoParent \in [name : Names \cup {"none"}, at : Nat, parts : Seq(Nat),
                         handle : HandlesOrNone]
    BY DEF NoRecord, NoParent, HandlesOrNone
  <2>4. tokens' \in Seq(TokenSet)
    BY <1>2, TokensStayTyped, NameFacts DEF EndKeptSection, Keywords
  <2>5. QED BY <1>2, <2>2, <2>3, <2>4 DEF EndKeptSection
<1>3. CASE Fail \/ ParserThrows
  BY <1>3, ClosedTyped, LeftTyped DEF Fail, ParserThrows
<1>4. ASSUME NEW k \in 0..MaxRecords, FlushThrows(k) PROVE TypeInv'
  <2>1. k \in 0..Len(staged)
    BY <1>4, LenProperties, ReaderAssumption DEF FlushThrows
  <2>2. SubSeq(staged, 1, k) \in Seq(Calls)
    BY <2>1
  <2>3. events' \in Seq(Calls)
    BY <1>4, <2>2, ConcatProperties DEF FlushThrows
  <2>4. QED BY <1>4, <2>3, LeftTyped DEF FlushThrows
<1>5. QED BY <1>1, <1>2, <1>3, <1>4

LEMMA TypeStep == TypeInv /\ [Next]_vars => TypeInv'
<1> SUFFICES ASSUME TypeInv, [Next]_vars PROVE TypeInv'
  OBVIOUS
<1>1. ASSUME NEW n \in Offered, ReadRecord(n) PROVE TypeInv'
  <2>1. n \in Names
    BY OfferedNames DEF TypeInv
  <2>2. QED
    BY <1>1, <2>1, SectionsTyped, EntitiesTyped, BlockHeadTyped, BlockEndTyped,
       OthersTyped DEF ReadRecord
<1>2. CASE UNCHANGED vars
  BY <1>2 DEF vars, TypeInv, ProcessorTypeOK, CallbackTypeOK
<1>3. QED
  BY <1>1, <1>2, SectionsTyped, RowsTyped, OthersTyped DEF Next

---------------------------------------------------------------------------
(* Every handle is registered once, and then is in one place: delivered in an *)
(* earlier section or in this one, staged, or held for an entity with parts.  *)

\* I was delivered in earlier sections, q in this one, r is staged, p is the
\* handle of the parent and s the registry.
Apart(I, q, r, p, s) ==
  /\ I \cup HandlesOf(q) \cup HandlesOf(r) \subseteq s /\ p \in s \cup {0}
  /\ Once(q) /\ Once(r)
  /\ I \cap HandlesOf(q) = {} /\ I \cap HandlesOf(r) = {}
  /\ HandlesOf(q) \cap HandlesOf(r) = {}
  /\ p # 0 => p \notin I \cup HandlesOf(q) \cup HandlesOf(r)

HandleInv == Apart(issued, events, staged, parent.handle, seen)

LEMMA NothingHeld == HandlesOf(<<>>) = {} /\ Once(<<>>)
BY DEF HandlesOf, Once

LEMMA ApartSeenGrows ==
  ASSUME NEW I, NEW q, NEW r, NEW p, NEW s, NEW t, Apart(I, q, r, p, s), s \subseteq t
  PROVE  Apart(I, q, r, p, t)
BY DEF Apart

LEMMA ApartNoParent ==
  ASSUME NEW I, NEW q, NEW r, NEW p, NEW s, Apart(I, q, r, p, s)
  PROVE  Apart(I, q, r, 0, s)
BY DEF Apart

LEMMA ApartUnstaged ==
  ASSUME NEW I, NEW q, NEW r, NEW p, NEW s, Apart(I, q, r, p, s)
  PROVE  Apart(I, q, <<>>, p, s)
BY NothingHeld DEF Apart

LEMMA ApartNewParent ==
  ASSUME NEW I, NEW q, NEW r, NEW p, NEW s, NEW h, Apart(I, q, r, p, s),
         h = 0 \/ h \notin s
  PROVE  Apart(I, q, r, h, s \cup ({h} \ {0}))
BY DEF Apart

LEMMA ApartIssued ==
  ASSUME NEW I, NEW q, NEW r, NEW p, NEW s, Apart(I, q, r, p, s)
  PROVE  Apart(I \cup HandlesOf(q), <<>>, r, p, s)
BY NothingHeld DEF Apart

LEMMA ApartDelivered ==
  ASSUME NEW I, NEW q \in Seq(Calls), NEW r, NEW p, NEW s, NEW c \in Calls,
         Apart(I, q, r, p, s), HasOwn(c) => c.handle \notin s
  PROVE  Apart(I, Append(q, c), r, p, s \cup ({c.handle} \ {0}))
BY HandlesOfAppend, OnceAppend DEF Apart, HasOwn

LEMMA ApartStaged ==
  ASSUME NEW I, NEW q, NEW r \in Seq(Calls), NEW p, NEW s, NEW c \in Calls,
         Apart(I, q, r, p, s), HasOwn(c) => c.handle \notin s
  PROVE  Apart(I, q, Append(r, c), p, s \cup ({c.handle} \ {0}))
BY HandlesOfAppend, OnceAppend DEF Apart, HasOwn

LEMMA ApartParentDelivered ==
  ASSUME NEW I, NEW q \in Seq(Calls), NEW r, NEW p, NEW s, NEW c \in Calls,
         Apart(I, q, r, p, s), c.handle = p
  PROVE  Apart(I, Append(q, c), r, 0, s)
BY HandlesOfAppend, OnceAppend DEF Apart, HasOwn

LEMMA ApartParentStaged ==
  ASSUME NEW I, NEW q, NEW r \in Seq(Calls), NEW p, NEW s, NEW c \in Calls,
         Apart(I, q, r, p, s), c.handle = p
  PROVE  Apart(I, q, Append(r, c), 0, s)
BY HandlesOfAppend, OnceAppend DEF Apart, HasOwn

LEMMA ApartFlushed ==
  ASSUME NEW I, NEW q \in Seq(Calls), NEW r \in Seq(Calls), NEW p, NEW s,
         Apart(I, q, r, p, s)
  PROVE  Apart(I, q \o r, <<>>, p, s)
BY HandlesOfConcat, OnceConcat, NothingHeld DEF Apart

LEMMA ApartPartlyFlushed ==
  ASSUME NEW I, NEW q \in Seq(Calls), NEW r \in Seq(Calls), NEW p, NEW s,
         Apart(I, q, r, p, s), NEW k \in 0..Len(r)
  PROVE  Apart(I, q \o SubSeq(r, 1, k), <<>>, p, s)
<1>1. /\ SubSeq(r, 1, k) \in Seq(Calls) /\ Once(SubSeq(r, 1, k))
      /\ HandlesOf(SubSeq(r, 1, k)) \subseteq HandlesOf(r)
  BY OnceSubSeq DEF Apart
<1>2. Apart(I, q, SubSeq(r, 1, k), p, s)
  BY <1>1 DEF Apart
<1>3. QED BY <1>1, <1>2, ApartFlushed

LEMMA InitApart == ASSUME Init PROVE HandleInv
BY NothingHeld DEF Init, HandleInv, Apart, NoParent

LEMMA HandleReadNew ==
  ASSUME TypeInv, NEW h \in HandlesOrNone
  PROVE  /\ HandleRead(h) = 0 \/ HandleRead(h) \notin seen
         /\ seen \cup ({HandleRead(h)} \ {0}) \subseteq seen \cup ({h} \ {0})
BY DEF HandleRead

\* Steps that deliver nothing and hold nothing back.
LEMMA QuietApart ==
  ASSUME HandleInv, seen \subseteq seen', events' = events, staged' \in {staged, <<>>},
         parent'.handle \in {parent.handle, 0}, issued' = issued
  PROVE  HandleInv'
<1>1. Apart(issued, events, staged, parent.handle, seen')
  BY ApartSeenGrows DEF HandleInv
<1>2. Apart(issued, events, staged', parent.handle, seen')
  BY <1>1, ApartUnstaged
<1>3. Apart(issued, events, staged', parent'.handle, seen')
  BY <1>2, ApartNoParent
<1>4. QED BY <1>3 DEF HandleInv

LEMMA SectionsApart ==
  ASSUME TypeInv, HandleInv,
         \/ \E s \in Sections : BeginSection(s)
         \/ \E v \in BOOLEAN : ReadHeader(v)
         \/ \E n \in Names : SkipRecord(n) \/ FirstRecord(n) \/ BlocksBoundary(n)
                             \/ KeepRecord(n)
         \/ \E t \in Tables : OpenTable(t)
         \/ EndEmptySection \/ EndOfFile \/ EndOpaqueTable
  PROVE  HandleInv'
<1>1. CASE \E s \in Sections : BeginSection(s)
  <2>1. Apart(issued \cup OwnHandles, <<>>, staged, parent.handle, seen)
    BY ApartIssued, OwnHandlesOf DEF HandleInv
  <2>2. Apart(issued \cup OwnHandles, <<>>, <<>>, 0, seen)
    BY <2>1, ApartUnstaged, ApartNoParent
  <2>3. QED BY <1>1, <2>2 DEF BeginSection, HandleInv, NoParent
<1>2. CASE \E v \in BOOLEAN : ReadHeader(v)
  <2>1. Apart(issued \cup OwnHandles, <<>>, staged, parent.handle, seen)
    BY ApartIssued, OwnHandlesOf DEF HandleInv
  <2>2. QED BY <1>2, <2>1 DEF ReadHeader, HandleInv
<1>3. ASSUME NEW n \in Names, KeepRecord(n) PROVE HandleInv'
  <2>1. parent'.handle = parent.handle
    BY <1>3 DEF KeepRecord, TypeInv, ProcessorTypeOK
  <2>2. QED BY <1>3, <2>1, QuietApart DEF KeepRecord
<1>4. CASE \/ \E n \in Names : SkipRecord(n) \/ FirstRecord(n) \/ BlocksBoundary(n)
           \/ \E t \in Tables : OpenTable(t)
           \/ EndEmptySection \/ EndOfFile \/ EndOpaqueTable
  <2>1. UNCHANGED <<seen, events, staged, parent, issued>>
    BY <1>4 DEF SkipRecord, FirstRecord, BlocksBoundary, OpenTable, EndEmptySection,
       EndOfFile, EndOpaqueTable, processor
  <2>2. QED BY <2>1, QuietApart
<1>5. QED BY <1>1, <1>2, <1>3, <1>4

\* The rows of BLOCK_RECORD are not registered, and are none of the records
\* whose handles count; a class has no handle.
LEMMA RowsApart ==
  ASSUME TypeInv, HandleInv, NEW h \in HandlesOrNone, NextRow(h) \/ EndRows(h)
  PROVE  HandleInv'
<1> USE DEF TypeInv, ProcessorTypeOK, CallbackTypeOK
<1> DEFINE c == Callback(RowMethod, record.at, <<>>, h)
<1>1. RowFinishes(h) /\ UNCHANGED <<parent, issued>> /\ 0 \notin seen
  BY ReaderAssumption DEF NextRow, EndRows
<1>2. Apart(issued, events, FinishedRows(h), parent.handle, seen')
  <2>1. CASE record = NoRecord
    BY <1>1, <2>1 DEF RowFinishes, FinishedRows, HandleInv
  <2>2. CASE record # NoRecord
    <3>1. RowMethod \in Methods /\ record.at \in Nat /\ <<>> \in Seq(Nat)
      BY DEF RowMethod, Methods
    <3>2. c \in Calls /\ c.handle = h /\ c.method = RowMethod
      BY <3>1, CallIsTyped DEF Callback
    <3>3. CASE section # "CLASSES" /\ table # "BLOCK_RECORD"
      <4>1. h \notin seen /\ seen' = seen \cup ({h} \ {0})
        BY <1>1, <2>2, <3>3 DEF RowFinishes, RefusesRepeated, Registered
      <4>2. Apart(issued, events, Append(staged, c), parent.handle, seen')
        BY <3>2, <4>1, ApartStaged DEF HandleInv
      <4>3. QED BY <2>2, <4>2 DEF FinishedRows
    <3>4. CASE section = "CLASSES" \/ table = "BLOCK_RECORD"
      <4>1. ~HasOwn(c) /\ seen' = seen
        <5>1. CASE section = "CLASSES"
          BY <1>1, <3>2, <5>1 DEF RowFinishes, HasOwn
        <5>2. CASE section # "CLASSES" /\ table = "BLOCK_RECORD"
          BY <1>1, <2>2, <3>2, <5>2 DEF RowFinishes, HasOwn, RowMethod
        <5>3. QED BY <3>4, <5>1, <5>2
      <4>2. HandlesOf(Append(staged, c)) = HandlesOf(staged) /\ Once(Append(staged, c))
        BY <3>2, <4>1, HandlesOfAppend, OnceAppend DEF HandleInv, Apart
      <4>3. Apart(issued, events, Append(staged, c), parent.handle, seen')
        BY <4>1, <4>2 DEF HandleInv, Apart
      <4>4. QED BY <2>2, <4>3 DEF FinishedRows
    <3>5. QED BY <3>3, <3>4
  <2>3. QED BY <2>1, <2>2
<1>3. CASE NextRow(h)
  BY <1>1, <1>2, <1>3 DEF NextRow, HandleInv
<1>4. CASE EndRows(h)
  <2>1. FinishedRows(h) \in Seq(Calls)
    <3>1. RowMethod \in Methods /\ record.at \in Nat /\ <<>> \in Seq(Nat)
      BY DEF RowMethod, Methods
    <3>2. c \in Calls
      BY <3>1, CallIsTyped
    <3>3. Append(staged, c) \in Seq(Calls)
      BY <3>2
    <3>4. QED BY <3>3 DEF FinishedRows
  <2>2. Apart(issued, events \o FinishedRows(h), <<>>, parent.handle, seen')
    BY <1>2, <2>1, ApartFlushed
  <2>3. QED BY <1>1, <1>4, <2>2 DEF EndRows, HandleInv
<1>5. QED BY <1>3, <1>4

LEMMA DeliverCases ==
  ASSUME CallbackTypeOK, NEW r, r.at \in Nat, NEW ps \in Seq(Nat),
         NEW h \in HandlesOrNone, Deliver(r, ps, h)
  PROVE  \E c \in Calls :
           /\ c.handle = h /\ c.method = "add"
           /\ \/ events' = Append(events, c) /\ staged' = staged
              \/ events' = events /\ staged' = Append(staged, c)
              \/ events' = events /\ staged' = staged
<1> DEFINE c == Callback("add", r.at, ps, h)
<1>1. c \in Calls /\ c.handle = h /\ c.method = "add"
  BY CallIsTyped DEF Methods, Callback
<1>2. \/ events' = Append(events, c) /\ staged' = staged
      \/ events' = events /\ staged' = Append(staged, c)
      \/ events' = events /\ staged' = staged
  BY DEF Deliver
<1>3. QED BY <1>1, <1>2

\* A record with a handle of its own is delivered, staged or dropped.
LEMMA DeliverApart ==
  ASSUME CallbackTypeOK, HandleInv, NEW r, r.at \in Nat, NEW ps \in Seq(Nat),
         NEW h \in HandlesOrNone, Deliver(r, ps, h), h = 0 \/ h \notin seen
  PROVE  Apart(issued, events', staged', parent.handle, seen \cup ({h} \ {0}))
<1>1. PICK c \in Calls :
        /\ c.handle = h /\ c.method = "add"
        /\ \/ events' = Append(events, c) /\ staged' = staged
           \/ events' = events /\ staged' = Append(staged, c)
           \/ events' = events /\ staged' = staged
  BY DeliverCases
<1>2. HasOwn(c) => c.handle \notin seen
  BY <1>1 DEF HasOwn
<1>3. /\ events \in Seq(Calls) /\ staged \in Seq(Calls)
      /\ Apart(issued, events, staged, parent.handle, seen)
  BY DEF CallbackTypeOK, HandleInv
<1>4. Apart(issued, Append(events, c), staged, parent.handle, seen \cup ({h} \ {0}))
  BY <1>1, <1>2, <1>3, ApartDelivered
<1>5. Apart(issued, events, Append(staged, c), parent.handle, seen \cup ({h} \ {0}))
  BY <1>1, <1>2, <1>3, ApartStaged
<1>6. Apart(issued, events, staged, parent.handle, seen \cup ({h} \ {0}))
  BY <1>3, ApartSeenGrows
<1>7. QED BY <1>1, <1>4, <1>5, <1>6

\* The handle held for the parent goes where the parent goes.
LEMMA DeliverParentApart ==
  ASSUME CallbackTypeOK, HandleInv, NEW r, r.at \in Nat, NEW ps \in Seq(Nat),
         parent.handle \in HandlesOrNone, Deliver(r, ps, parent.handle)
  PROVE  Apart(issued, events', staged', 0, seen)
<1>1. PICK c \in Calls :
        /\ c.handle = parent.handle /\ c.method = "add"
        /\ \/ events' = Append(events, c) /\ staged' = staged
           \/ events' = events /\ staged' = Append(staged, c)
           \/ events' = events /\ staged' = staged
  BY DeliverCases
<1>2. /\ events \in Seq(Calls) /\ staged \in Seq(Calls)
      /\ Apart(issued, events, staged, parent.handle, seen)
  BY DEF CallbackTypeOK, HandleInv
<1>3. Apart(issued, Append(events, c), staged, 0, seen)
  BY <1>1, <1>2, ApartParentDelivered
<1>4. Apart(issued, events, Append(staged, c), 0, seen)
  BY <1>1, <1>2, ApartParentStaged
<1>5. Apart(issued, events, staged, 0, seen)
  BY <1>2, ApartNoParent
<1>6. QED BY <1>1, <1>3, <1>4, <1>5

LEMMA EntitiesApart ==
  ASSUME TypeInv, HandleInv, NEW n \in Names,
         \/ EndParts(n)
         \/ \E h \in HandlesOrNone : EndRecord(n, h) \/ BeginParts(n, h) \/ NextPart(n, h)
  PROVE  HandleInv'
<1> USE DEF TypeInv
<1>1. record.at \in Nat /\ parent.at \in Nat /\ parent.parts \in Seq(Nat)
      /\ parent.handle \in HandlesOrNone /\ <<>> \in Seq(Nat)
  BY DEF ProcessorTypeOK
<1>2. ASSUME NEW h \in HandlesOrNone, EndRecord(n, h) PROVE HandleInv'
  <2>1. /\ Deliver(record, <<>>, HandleRead(h)) /\ UNCHANGED <<parent, issued>>
        /\ seen' = seen \cup ({h} \ {0})
    BY <1>2 DEF EndRecord, TakesHandle, Registered
  <2>2. Apart(issued, events', staged', parent.handle,
              seen \cup ({HandleRead(h)} \ {0}))
    BY <1>1, <2>1, DeliverApart, HandleReadNew, HandleReadTyped
  <2>3. Apart(issued, events', staged', parent.handle, seen')
    BY <2>1, <2>2, ApartSeenGrows, HandleReadNew
  <2>4. QED BY <2>1, <2>3 DEF HandleInv
<1>3. ASSUME NEW h \in HandlesOrNone, BeginParts(n, h) PROVE HandleInv'
  <2>1. /\ parent'.handle = HandleRead(h) /\ UNCHANGED <<events, staged, issued>>
        /\ seen' = seen \cup ({h} \ {0})
    BY <1>3 DEF BeginParts, TakesHandle, Registered
  <2>2. Apart(issued, events, staged, HandleRead(h), seen \cup ({HandleRead(h)} \ {0}))
    BY ApartNewParent, HandleReadNew DEF HandleInv
  <2>3. Apart(issued, events, staged, HandleRead(h), seen')
    BY <2>1, <2>2, ApartSeenGrows, HandleReadNew
  <2>4. QED BY <2>1, <2>3 DEF HandleInv
<1>4. ASSUME NEW h \in HandlesOrNone, NextPart(n, h) PROVE HandleInv'
  <2>1. parent'.handle = parent.handle
    BY <1>4 DEF NextPart, ProcessorTypeOK
  <2>2. QED BY <1>4, <2>1, QuietApart DEF NextPart, Registered
<1>5. CASE EndParts(n)
  <2>1. /\ Deliver(parent, parent.parts, parent.handle)
        /\ parent' = NoParent /\ UNCHANGED <<seen, issued>>
    BY <1>5 DEF EndParts
  <2>2. Apart(issued, events', staged', 0, seen)
    BY <1>1, <2>1, DeliverParentApart
  <2>3. QED BY <2>1, <2>2 DEF HandleInv, NoParent
<1>6. QED BY <1>2, <1>3, <1>4, <1>5

LEMMA BlockHeadApart ==
  ASSUME TypeInv, HandleInv, NEW n \in Names, NEW h \in HandlesOrNone,
         NEW named \in BOOLEAN, EndBlockHead(n, h, named)
  PROVE  HandleInv'
<1> DEFINE c == Callback("addBlock", record.at, <<>>, HandleRead(h))
<1>0. <<>> \in Seq(Nat) /\ record.at \in Nat
  BY DEF TypeInv, ProcessorTypeOK
<1>1. c \in Calls /\ c.handle = HandleRead(h)
  BY <1>0, CallIsTyped, HandleReadTyped DEF Methods, Callback
<1>2. /\ events' \in {events, Append(events, c)} /\ staged' = <<>>
      /\ UNCHANGED <<parent, issued>> /\ seen' = seen \cup ({h} \ {0})
  BY DEF EndBlockHead, Registered
<1>3. Apart(issued, events, <<>>, parent.handle, seen) /\ events \in Seq(Calls)
  BY ApartUnstaged DEF HandleInv, TypeInv, CallbackTypeOK
<1>4. HasOwn(c) => c.handle \notin seen
  BY <1>1, HandleReadNew DEF HasOwn
<1>5. Apart(issued, Append(events, c), <<>>, parent.handle,
            seen \cup ({HandleRead(h)} \ {0}))
  BY <1>1, <1>3, <1>4, ApartDelivered
<1>6. /\ Apart(issued, Append(events, c), <<>>, parent.handle, seen')
      /\ Apart(issued, events, <<>>, parent.handle, seen')
  BY <1>2, <1>3, <1>5, ApartSeenGrows, HandleReadNew
<1>7. QED BY <1>2, <1>6 DEF HandleInv

LEMMA BlockEndApart ==
  ASSUME TypeInv, HandleInv, NEW n \in Names, NEW h \in HandlesOrNone, EndBlock(n, h)
  PROVE  HandleInv'
<1> DEFINE c == Callback("endBlock", record.at, <<>>, h)
<1>0. <<>> \in Seq(Nat) /\ record.at \in Nat
  BY DEF TypeInv, ProcessorTypeOK
<1>1. c \in Calls /\ c.handle = h
  BY <1>0, CallIsTyped DEF Methods, Callback
<1>2. /\ events' = events \o Flushed \o Footer(h) /\ staged' = <<>>
      /\ UNCHANGED <<parent, issued>> /\ seen' = seen \cup ({h} \ {0}) /\ h \notin seen
  BY DEF EndBlock, Registered, RefusesRepeated, Footer
<1>3. Flushed \in Seq(Calls) /\ events \o Flushed \in Seq(Calls)
  BY FlushedTyped, ConcatProperties DEF TypeInv, CallbackTypeOK
<1>4. Apart(issued, events \o Flushed, <<>>, parent.handle, seen)
  <2>1. Apart(issued, events, Flushed, parent.handle, seen)
    BY ApartUnstaged DEF Flushed, HandleInv
  <2>2. QED BY <1>3, <2>1, ApartFlushed DEF TypeInv, CallbackTypeOK
<1>5. CASE block.published
  <2>1. events' = Append(events \o Flushed, c)
    BY <1>1, <1>2, <1>3, <1>5 DEF Footer
  <2>2. Apart(issued, Append(events \o Flushed, c), <<>>, parent.handle, seen')
    BY <1>1, <1>2, <1>3, <1>4, ApartDelivered
  <2>3. QED BY <1>2, <2>1, <2>2 DEF HandleInv
<1>6. CASE ~block.published
  <2>1. events' = events \o Flushed
    BY <1>2, <1>3, <1>6, ConcatEmptySeq DEF Footer
  <2>2. Apart(issued, events \o Flushed, <<>>, parent.handle, seen')
    BY <1>2, <1>4, ApartSeenGrows
  <2>3. QED BY <1>2, <2>1, <2>2 DEF HandleInv
<1>7. QED BY <1>5, <1>6

\* A callback without a handle, after which nothing is held.
LEMMA NoHandleApart ==
  ASSUME TypeInv, HandleInv, NEW c \in Calls, c.handle = 0
  PROVE  Apart(issued, Append(events, c), staged, parent.handle, seen)
<1>1. Apart(issued, Append(events, c), staged, parent.handle, seen \cup ({0} \ {0}))
  BY ApartDelivered DEF HandleInv, HasOwn, TypeInv, CallbackTypeOK
<1>2. seen \cup ({0} \ {0}) = seen
  OBVIOUS
<1>3. QED BY <1>1, <1>2

LEMMA LeftApart ==
  ASSUME Left, NEW r, NEW p, Apart(issued, events', r, p, seen)
  PROVE  HandleInv'
<1>1. Apart(issued, events', <<>>, 0, seen)
  BY ApartUnstaged, ApartNoParent
<1>2. staged' = <<>> /\ parent'.handle = 0 /\ UNCHANGED <<seen, issued>>
  BY DEF Left, NoParent
<1>3. QED BY <1>1, <1>2 DEF HandleInv

LEMMA EndsApart ==
  ASSUME TypeInv, HandleInv, \/ EndKeptSection \/ Fail \/ ParserThrows
                             \/ \E k \in 0..MaxRecords : FlushThrows(k)
  PROVE  HandleInv'
<1>0. <<>> \in Seq(Nat) /\ parent.parts \in Seq(Nat) /\ 0 \in HandlesOrNone
  BY DEF TypeInv, ProcessorTypeOK, HandlesOrNone
<1>1. CASE EndKeptSection
  <2> DEFINE c == Callback("addRawDxfSection", 1, parent.parts, 0)
  <2>1. c \in Calls /\ c.handle = 0
    BY <1>0, CallIsTyped DEF Methods, Callback
  <2>2. Apart(issued, Append(events, c), staged, parent.handle, seen)
    BY <2>1, NoHandleApart
  <2>3. Apart(issued, Append(events, c), staged, 0, seen)
    BY <2>2, ApartNoParent
  <2>4. QED BY <1>1, <2>3 DEF EndKeptSection, HandleInv, NoParent
<1>2. CASE Fail \/ ParserThrows
  <2> DEFINE c == Callback("endBlock", 0, <<>>, 0)
  <2>1. c \in Calls /\ c.handle = 0
    BY <1>0, CallIsTyped DEF Methods, Callback
  <2>2. events' \in {events, Append(events, c)} /\ Left
    BY <1>2 DEF Fail, ParserThrows, Closed
  <2>3. Apart(issued, events', staged, parent.handle, seen)
    BY <2>1, <2>2, NoHandleApart DEF HandleInv
  <2>4. QED BY <2>2, <2>3, LeftApart
<1>3. ASSUME NEW k \in 0..MaxRecords, FlushThrows(k) PROVE HandleInv'
  <2>1. k \in 0..Len(staged) /\ staged \in Seq(Calls) /\ events \in Seq(Calls)
    BY <1>3, LenProperties, ReaderAssumption
    DEF FlushThrows, TypeInv, CallbackTypeOK
  <2>2. Apart(issued, events \o SubSeq(staged, 1, k), <<>>, parent.handle, seen)
    BY <2>1, ApartPartlyFlushed DEF HandleInv
  <2>3. QED BY <1>3, <2>2, LeftApart DEF FlushThrows
<1>4. QED BY <1>1, <1>2, <1>3

LEMMA HandleStep == TypeInv /\ HandleInv /\ [Next]_vars => HandleInv'
<1> SUFFICES ASSUME TypeInv, HandleInv, [Next]_vars PROVE HandleInv'
  OBVIOUS
<1>1. ASSUME NEW n \in Offered, ReadRecord(n) PROVE HandleInv'
  <2>1. n \in Names
    BY OfferedNames DEF TypeInv
  <2>2. QED
    BY <1>1, <2>1, SectionsApart, EntitiesApart, BlockHeadApart, BlockEndApart
    DEF ReadRecord
<1>2. CASE UNCHANGED vars
  BY <1>2, QuietApart DEF vars
<1>3. QED
  BY <1>1, <1>2, SectionsApart, RowsApart, EndsApart DEF Next

LEMMA ApartIsDistinct == TypeInv /\ HandleInv => HandlesDistinct
<1> SUFFICES ASSUME TypeInv, HandleInv PROVE HandlesDistinct
  OBVIOUS
<1>1. OwnHandles \cap issued = {}
  BY OwnHandlesOf DEF HandleInv, Apart
<1>2. Once(events)
  BY DEF HandleInv, Apart
<1>3. \A i \in Own : i \in DOMAIN events /\ HasOwn(events[i])
  BY DEF Own, HasOwn
<1>4. QED BY <1>1, <1>2, <1>3 DEF HandlesDistinct, Once

\* dxfReader::registerSelfHandle() (dxfreader.cpp) keeps one registry for the
\* whole file: no two records that read() handed to the application have the
\* same self handle, whether they stand in one section or in two, in a block
\* or beside it, and also when the read fails or throws with children staged.
THEOREM DistinctHandles == Spec => []HandlesDistinct
<1>1. Init => TypeInv /\ HandleInv
  BY InitTyped, InitApart
<1>2. TypeInv /\ HandleInv /\ [Next]_vars => (TypeInv /\ HandleInv)'
  BY TypeStep, HandleStep
<1>3. TypeInv /\ HandleInv => HandlesDistinct
  BY ApartIsDistinct
<1>4. QED BY <1>1, <1>2, <1>3, PTL DEF Spec

---------------------------------------------------------------------------
(* Whether a block is open before the callback at position b.                *)

OpenBefore(q, b) ==
  \E a \in 1..(b - 1) : /\ q[a].method = "addBlock"
                        /\ \A e \in (a + 1)..(b - 1) : q[e].method # "endBlock"

Fits(method, open, of) ==
  /\ method = "addBlock" => ~open
  /\ method = "endBlock" => open
  /\ method \notin {"addBlock", "endBlock"} => (open <=> of = "BLOCKS")
AlternateIn(q, of) ==
  \A b \in 1..Len(q) : Fits(q[b].method, OpenBefore(q, b), of)

Plain(q) == \A i \in 1..Len(q) : q[i].method \notin {"addBlock", "endBlock"}

LEMMA OpenIsBefore ==
  ASSUME NEW q \in Seq(Calls)
  PROVE  /\ IsOpen(q) <=> OpenBefore(q, Len(q) + 1)
         /\ \A b \in 1..Len(q) : IsOpen(SubSeq(q, 1, b - 1)) <=> OpenBefore(q, b)
<1>1. DOMAIN q = 1..Len(q) /\ Len(q) \in Nat
  BY LenProperties
<1>2. IsOpen(q) <=> OpenBefore(q, Len(q) + 1)
  BY <1>1 DEF IsOpen, OpenBefore
<1>3. ASSUME NEW b \in 1..Len(q)
      PROVE  IsOpen(SubSeq(q, 1, b - 1)) <=> OpenBefore(q, b)
  <2>1. /\ DOMAIN SubSeq(q, 1, b - 1) = 1..(b - 1) /\ Len(SubSeq(q, 1, b - 1)) = b - 1
        /\ \A i \in 1..(b - 1) : SubSeq(q, 1, b - 1)[i] = q[i]
    BY <1>1, SubSeqProperties
  <2>2. \A a \in 1..(b - 1) : (a + 1)..(b - 1) \subseteq 1..(b - 1)
    BY <1>1
  <2>3. QED BY <2>1, <2>2 DEF IsOpen, OpenBefore
<1>4. QED BY <1>2, <1>3

LEMMA AlternateIsIn ==
  ASSUME NEW q \in Seq(Calls), AlternateIn(q, Of)
  PROVE  Alternate(q)
<1>1. DOMAIN q = 1..Len(q)
  BY LenProperties
<1>2. ASSUME NEW b \in DOMAIN q
      PROVE  LET open == IsOpen(SubSeq(q, 1, b - 1))
             IN CASE q[b].method = "addBlock" -> ~open
                  [] q[b].method = "endBlock" -> open
                  [] OTHER -> open = (Of = "BLOCKS")
  <2> DEFINE open == IsOpen(SubSeq(q, 1, b - 1))
  <2>1. Fits(q[b].method, open, Of)
    BY <1>1, OpenIsBefore DEF AlternateIn, Fits
  <2>2. open \in BOOLEAN
    BY DEF IsOpen
  <2> HIDE DEF open
  <2>3. (open <=> Of = "BLOCKS") => (open = (Of = "BLOCKS"))
    BY <2>2
  <2>4. (CASE q[b].method = "addBlock" -> ~open
           [] q[b].method = "endBlock" -> open
           [] OTHER -> open = (Of = "BLOCKS"))
    BY <2>1, <2>3 DEF Fits
  <2>5. QED BY <2>4 DEF open
<1>3. QED BY <1>2 DEF Alternate

\* What comes later does not matter to a position.
LEMMA OpenBeforeAgrees ==
  ASSUME NEW q, NEW p, NEW b \in Nat, \A i \in 1..(b - 1) : q[i] = p[i]
  PROVE  OpenBefore(q, b) <=> OpenBefore(p, b)
<1>1. \A a \in 1..(b - 1) : (a + 1)..(b - 1) \subseteq 1..(b - 1)
  OBVIOUS
<1>2. QED BY <1>1 DEF OpenBefore

LEMMA OpenAfterAppend ==
  ASSUME NEW q \in Seq(Calls), NEW c \in Calls
  PROVE  IsOpen(Append(q, c)) <=> \/ c.method = "addBlock"
                                  \/ c.method # "endBlock" /\ IsOpen(q)
<1> DEFINE p == Append(q, c)
           n == Len(q) + 1
<1>1. /\ p \in Seq(Calls) /\ Len(p) = n /\ n \in Nat \ {0} /\ p[n] = c
      /\ \A i \in 1..(n - 1) : p[i] = q[i]
  BY LenProperties
<1>2. IsOpen(p) <=> OpenBefore(p, n + 1)
  BY <1>1, OpenIsBefore
<1>3. IsOpen(q) <=> OpenBefore(q, n)
  BY OpenIsBefore
<1> HIDE DEF p, n
<1>4. OpenBefore(p, n) <=> OpenBefore(q, n)
  BY <1>1, OpenBeforeAgrees
<1>5. OpenBefore(p, n + 1) <=> \/ p[n].method = "addBlock"
                               \/ p[n].method # "endBlock" /\ OpenBefore(p, n)
  <2>1. ASSUME OpenBefore(p, n + 1)
        PROVE  \/ p[n].method = "addBlock"
               \/ p[n].method # "endBlock" /\ OpenBefore(p, n)
    <3>1. PICK a \in 1..n : /\ p[a].method = "addBlock"
                            /\ \A e \in (a + 1)..n : p[e].method # "endBlock"
      BY <1>1, <2>1 DEF OpenBefore
    <3>2. CASE a = n
      BY <3>1, <3>2
    <3>3. CASE a # n
      <4>1. a \in 1..(n - 1) /\ n \in (a + 1)..n
            /\ (a + 1)..(n - 1) \subseteq (a + 1)..n
        BY <1>1, <3>1, <3>3
      <4>2. QED BY <3>1, <4>1 DEF OpenBefore
    <3>4. QED BY <3>2, <3>3
  <2>2. ASSUME p[n].method = "addBlock" PROVE OpenBefore(p, n + 1)
    <3>1. n \in 1..((n + 1) - 1) /\ (n + 1)..((n + 1) - 1) = {}
      BY <1>1
    <3>2. QED BY <2>2, <3>1 DEF OpenBefore
  <2>3. ASSUME p[n].method # "endBlock", OpenBefore(p, n) PROVE OpenBefore(p, n + 1)
    <3>1. PICK a \in 1..(n - 1) : /\ p[a].method = "addBlock"
                                  /\ \A e \in (a + 1)..(n - 1) : p[e].method # "endBlock"
      BY <2>3 DEF OpenBefore
    <3>2. a \in 1..((n + 1) - 1)
      BY <1>1
    <3>3. \A e \in (a + 1)..((n + 1) - 1) : e \in (a + 1)..(n - 1) \/ e = n
      BY <1>1
    <3>4. QED BY <2>3, <3>1, <3>2, <3>3 DEF OpenBefore
  <2>4. QED BY <2>1, <2>2, <2>3
<1>6. QED BY <1>1, <1>2, <1>3, <1>4, <1>5 DEF p

LEMMA AlternateAppend ==
  ASSUME NEW q \in Seq(Calls), NEW c \in Calls, NEW of, AlternateIn(q, of),
         Fits(c.method, IsOpen(q), of)
  PROVE  AlternateIn(Append(q, c), of)
<1> DEFINE p == Append(q, c)
           n == Len(q) + 1
<1>1. /\ Len(p) = n /\ n \in Nat \ {0} /\ p[n] = c
      /\ \A i \in 1..(n - 1) : p[i] = q[i]
  BY LenProperties
<1> HIDE DEF p
<1>2. ASSUME NEW b \in 1..n PROVE OpenBefore(p, b) <=> OpenBefore(q, b)
  <2>1. b \in Nat /\ 1..(b - 1) \subseteq 1..(n - 1)
    BY <1>1
  <2>2. QED BY <1>1, <2>1, OpenBeforeAgrees
<1>3. ASSUME NEW b \in 1..Len(q) PROVE Fits(p[b].method, OpenBefore(p, b), of)
  <2>1. b \in 1..n /\ p[b] = q[b]
    BY <1>1
  <2>2. Fits(q[b].method, OpenBefore(q, b), of)
    BY DEF AlternateIn
  <2>3. QED BY <1>2, <2>1, <2>2 DEF Fits
<1>4. Fits(p[n].method, OpenBefore(p, n), of)
  <2>1. n \in 1..n /\ (IsOpen(q) <=> OpenBefore(q, n))
    BY <1>1, OpenIsBefore
  <2>2. QED BY <1>1, <1>2, <2>1 DEF Fits
<1>5. QED BY <1>1, <1>3, <1>4 DEF AlternateIn, p

LEMMA OpenAfterPlain ==
  ASSUME NEW q \in Seq(Calls), NEW r \in Seq(Calls), Plain(r), NEW m \in 0..Len(r)
  PROVE  OpenBefore(q \o r, Len(q) + m + 1) <=> IsOpen(q)
<1> DEFINE p == q \o r
           n == Len(q)
<1>1. /\ n \in Nat /\ Len(r) \in Nat
      /\ \A i \in 1..n : p[i] = q[i]
      /\ \A i \in 1..Len(r) : p[n + i] = r[i]
  BY ConcatProperties, LenProperties
<1>2. IsOpen(q) <=> OpenBefore(q, n + 1)
  BY OpenIsBefore
<1> HIDE DEF p, n
<1>3. \A i \in (n + 1)..(n + m) : p[i].method \notin {"addBlock", "endBlock"}
  <2>1. ASSUME NEW i \in (n + 1)..(n + m)
        PROVE  p[i].method \notin {"addBlock", "endBlock"}
    <3>1. i - n \in 1..Len(r) /\ n + (i - n) = i
      BY <1>1
    <3>2. QED BY <1>1, <3>1 DEF Plain
  <2>2. QED BY <2>1
<1>4. OpenBefore(p, n + 1) <=> OpenBefore(q, n + 1)
  BY <1>1, OpenBeforeAgrees
<1>5. ASSUME OpenBefore(p, n + m + 1) PROVE OpenBefore(p, n + 1)
  <2>1. PICK a \in 1..(n + m) : /\ p[a].method = "addBlock"
                                /\ \A e \in (a + 1)..(n + m) : p[e].method # "endBlock"
    BY <1>1, <1>5 DEF OpenBefore
  <2>2. a \in 1..((n + 1) - 1)
    BY <1>1, <1>3, <2>1
  <2>3. (a + 1)..((n + 1) - 1) \subseteq (a + 1)..(n + m)
    BY <1>1, <2>2
  <2>4. QED BY <2>1, <2>2, <2>3 DEF OpenBefore
<1>6. ASSUME OpenBefore(p, n + 1) PROVE OpenBefore(p, n + m + 1)
  <2>1. PICK a \in 1..n : /\ p[a].method = "addBlock"
                          /\ \A e \in (a + 1)..n : p[e].method # "endBlock"
    BY <1>1, <1>6 DEF OpenBefore
  <2>2. a \in 1..((n + m + 1) - 1)
    BY <1>1
  <2>3. \A e \in (a + 1)..((n + m + 1) - 1) :
           e \in (a + 1)..n \/ e \in (n + 1)..(n + m)
    BY <1>1
  <2>4. QED BY <1>3, <2>1, <2>2, <2>3 DEF OpenBefore
<1>7. QED BY <1>2, <1>4, <1>5, <1>6 DEF p, n

\* The children of a block stand where a block is open.
LEMMA AlternatePlain ==
  ASSUME NEW q \in Seq(Calls), NEW r \in Seq(Calls), NEW of, Plain(r),
         AlternateIn(q, of), IsOpen(q) <=> of = "BLOCKS"
  PROVE  AlternateIn(q \o r, of) /\ (IsOpen(q \o r) <=> IsOpen(q))
<1> DEFINE p == q \o r
           n == Len(q)
<1>1. /\ n \in Nat /\ Len(r) \in Nat /\ p \in Seq(Calls) /\ Len(p) = n + Len(r)
      /\ \A i \in 1..n : p[i] = q[i]
      /\ \A i \in 1..Len(r) : p[n + i] = r[i]
  BY ConcatProperties, LenProperties
<1>2. IsOpen(p) <=> OpenBefore(p, n + Len(r) + 1)
  BY <1>1, OpenIsBefore
<1>3. \A m \in 0..Len(r) : OpenBefore(p, n + m + 1) <=> IsOpen(q)
  BY OpenAfterPlain
<1> HIDE DEF p
<1>4. IsOpen(p) <=> IsOpen(q)
  <2>1. Len(r) \in 0..Len(r)
    BY <1>1
  <2>2. QED BY <1>2, <1>3, <2>1
<1>5. ASSUME NEW b \in 1..n PROVE Fits(p[b].method, OpenBefore(p, b), of)
  <2>1. b \in Nat /\ \A i \in 1..(b - 1) : p[i] = q[i]
    BY <1>1
  <2>2. OpenBefore(p, b) <=> OpenBefore(q, b)
    BY <2>1, OpenBeforeAgrees
  <2>3. Fits(q[b].method, OpenBefore(q, b), of)
    BY DEF AlternateIn
  <2>4. QED BY <1>1, <2>2, <2>3 DEF Fits
<1>6. ASSUME NEW b \in (n + 1)..(n + Len(r)) PROVE Fits(p[b].method, OpenBefore(p, b), of)
  <2>1. /\ b - n \in 1..Len(r) /\ n + (b - n) = b
        /\ (b - n) - 1 \in 0..Len(r) /\ n + ((b - n) - 1) + 1 = b
    BY <1>1
  <2>2. p[b].method \notin {"addBlock", "endBlock"}
    BY <1>1, <2>1 DEF Plain
  <2>3. OpenBefore(p, b) <=> IsOpen(q)
    BY <1>3, <2>1
  <2>4. QED BY <2>2, <2>3 DEF Fits
<1>7. QED BY <1>1, <1>4, <1>5, <1>6 DEF AlternateIn, p

---------------------------------------------------------------------------
(* Where the reader is.                                                      *)

\* A block is read in BLOCKS, rows in TABLES or CLASSES, and a block that was
\* announced is at its children or its footer.
PlaceInv ==
  /\ section \notin {"none", "unnamed"} => tokens # <<>> /\ Of = section
  /\ block.stage # "none" => section = "BLOCKS"
  /\ table # "none" => section = "TABLES"
  /\ block.published => block.stage \in {"children", "footer"}

\* The records read do not change which section they are of.
LEMMA OfStays ==
  ASSUME NEW q \in Seq(TokenSet), NEW n, tokens' = Follows(q, n),
         q = <<>> <=> tokens = <<>>, q # <<>> => q[1].of = tokens[1].of
  PROVE  Of' = Of /\ (tokens # <<>> => tokens' # <<>>)
<1>1. CASE q = <<>>
  BY <1>1 DEF Follows, Of
<1>2. CASE q # <<>>
  <2>1. /\ Append(q, Token(n, "none")) # <<>>
        /\ Append(q, Token(n, "none"))[1] = q[1]
    BY <1>2
  <2>2. tokens' # <<>> /\ tokens'[1] = q[1]
    BY <1>2, <2>1 DEF Follows
  <2>3. QED BY <1>2, <2>2 DEF Of
<1>3. QED BY <1>1, <1>2

LEMMA ReadOf ==
  ASSUME TypeInv, NEW n, Read(n)
  PROVE  Of' = Of /\ (tokens # <<>> => tokens' # <<>>)
BY OfStays DEF Read, TypeInv, ProcessorTypeOK

LEMMA InitPlace == ASSUME Init PROVE PlaceInv
BY DEF Init, PlaceInv, NoBlock

LEMMA SectionsPlace ==
  ASSUME TypeInv, PlaceInv,
         \/ \E s \in Sections : BeginSection(s)
         \/ \E v \in BOOLEAN : ReadHeader(v)
         \/ \E n \in Names : SkipRecord(n) \/ KeepRecord(n)
         \/ \E t \in Tables : OpenTable(t)
         \/ EndEmptySection \/ EndOfFile \/ EndOpaqueTable \/ EndKeptSection
  PROVE  PlaceInv'
<1> USE DEF PlaceInv
<1>1. CASE \E s \in Sections : BeginSection(s)
  <2>1. PICK s \in Sections : BeginSection(s)
    BY <1>1
  <2>2. tokens' = <<Token("SECTION", s)>> => tokens' # <<>> /\ Of' = s
    BY DEF Of, Token
  <2>3. section' = s /\ (s # "unnamed" => tokens' = <<Token("SECTION", s)>>)
    BY <2>1 DEF BeginSection
  <2>4. block.stage = "none" /\ UNCHANGED <<block, table>> /\ table = "none"
    BY <2>1 DEF BeginSection, Outside
  <2>5. QED BY <2>2, <2>3, <2>4
<1>2. CASE \E v \in BOOLEAN : ReadHeader(v)
  BY <1>2 DEF ReadHeader, Outside
<1>3. CASE \E n \in Names : SkipRecord(n) \/ KeepRecord(n)
  BY <1>3, ReadOf DEF SkipRecord, KeepRecord, processor
<1>4. CASE \E t \in Tables : OpenTable(t)
  <2>1. PICK t \in Tables : OpenTable(t)
    BY <1>4
  <2>2. /\ Append(tokens, Token("TABLE", t)) # <<>>
        /\ Append(tokens, Token("TABLE", t))[1] = tokens[1]
    BY <2>1 DEF OpenTable, TypeInv, ProcessorTypeOK
  <2>3. tokens' # <<>> /\ Of' = Of
    BY <2>1, <2>2 DEF OpenTable, Of
  <2>4. QED BY <2>1, <2>3 DEF OpenTable
<1>5. CASE EndEmptySection \/ EndKeptSection
  BY <1>5 DEF EndEmptySection, EndKeptSection
<1>6. CASE EndOpaqueTable
  BY <1>6, ReadOf DEF EndOpaqueTable
<1>7. CASE EndOfFile
  BY <1>7 DEF EndOfFile, processor, Of
<1>8. QED BY <1>1, <1>2, <1>3, <1>4, <1>5, <1>6, <1>7

LEMMA RowsPlace ==
  ASSUME TypeInv, PlaceInv, NEW h \in HandlesOrNone, NextRow(h) \/ EndRows(h)
  PROVE  PlaceInv'
BY ReadOf DEF PlaceInv, NextRow, EndRows, InRows

LEMMA FollowPlace ==
  ASSUME TypeInv, PlaceInv, NEW n \in Names, Read(n), Follow(n), AcceptsBoundary(n),
         table' = table, InEntities \/ section = "OBJECTS"
  PROVE  PlaceInv' /\ block'.published = block.published
<1>1. Of' = Of /\ (tokens # <<>> => tokens' # <<>>)
  BY ReadOf
<1>2. table = "none"
  BY DEF PlaceInv, InEntities, InBlock
<1>3. CASE n = "ENDBLK"
  <2>1. InBlock
    BY <1>3 DEF AcceptsBoundary
  <2>2. block'.stage = "footer" /\ block'.published = block.published
    BY <1>3 DEF Follow, TypeInv, ProcessorTypeOK
  <2>3. QED BY <1>1, <1>2, <1>3, <2>1, <2>2 DEF PlaceInv, InBlock, Follow
<1>4. CASE n = "ENDSEC"
  <2>1. ~InBlock /\ section \in {"ENTITIES", "OBJECTS"}
    BY <1>4 DEF AcceptsBoundary, InEntities
  <2>2. QED BY <1>1, <1>2, <1>4, <2>1 DEF PlaceInv, Follow
<1>5. CASE n \notin {"ENDBLK", "ENDSEC"}
  BY <1>1, <1>2, <1>5 DEF PlaceInv, Follow
<1>6. QED BY <1>3, <1>4, <1>5

LEMMA EntitiesPlace ==
  ASSUME TypeInv, PlaceInv, NEW n \in Names,
         \/ FirstRecord(n) \/ EndParts(n)
         \/ \E h \in HandlesOrNone : EndRecord(n, h) \/ BeginParts(n, h) \/ NextPart(n, h)
  PROVE  PlaceInv' /\ block'.published = block.published
<1>1. CASE FirstRecord(n) \/ EndParts(n) \/ \E h \in HandlesOrNone : EndRecord(n, h)
  <2>1. InEntities \/ section = "OBJECTS"
    BY <1>1 DEF FirstRecord, EndParts, EndRecord, IsPart, InEntities
  <2>2. Read(n) /\ Follow(n) /\ AcceptsBoundary(n) /\ table' = table
    BY <1>1 DEF FirstRecord, EndParts, EndRecord
  <2>3. QED BY <2>1, <2>2, FollowPlace
<1>2. CASE \E h \in HandlesOrNone : BeginParts(n, h) \/ NextPart(n, h)
  BY <1>2, ReadOf DEF PlaceInv, BeginParts, NextPart
<1>3. QED BY <1>1, <1>2

LEMMA BlockHeadPlace ==
  ASSUME TypeInv, PlaceInv, NEW n \in Names,
         \/ BlocksBoundary(n)
         \/ \E h \in HandlesOrNone, named \in BOOLEAN : EndBlockHead(n, h, named)
  PROVE  PlaceInv'
<1>1. CASE BlocksBoundary(n)
  BY <1>1, ReadOf DEF PlaceInv, BlocksBoundary, BeginBlock
<1>2. ASSUME NEW h \in HandlesOrNone, NEW named \in BOOLEAN, EndBlockHead(n, h, named)
      PROVE  PlaceInv'
  <2> DEFINE q == [tokens EXCEPT ![Len(tokens)].complete = named]
  <2>1. section = "BLOCKS" /\ tokens # <<>> /\ table = "none"
    BY <1>2 DEF EndBlockHead, PlaceInv
  <2>2. q \in Seq(TokenSet)
    BY CompletedTyped DEF TypeInv, ProcessorTypeOK
  <2>3. q # <<>> /\ q[1].of = tokens[1].of
    <3>1. 1 \in DOMAIN tokens /\ tokens[1] \in TokenSet /\ DOMAIN q = DOMAIN tokens
      BY <2>1, EmptySeq, ElementOfSeq, LenProperties DEF TypeInv, ProcessorTypeOK
    <3>2. q[1] = IF Len(tokens) = 1 THEN [tokens[1] EXCEPT !.complete = named]
                 ELSE tokens[1]
      BY <3>1
    <3>3. QED BY <3>1, <3>2 DEF TokenSet
  <2>4. tokens' = Follows(q, n)
    BY <1>2 DEF EndBlockHead
  <2> HIDE DEF q
  <2>5. Of' = Of /\ tokens' # <<>>
    BY <2>1, <2>2, <2>3, <2>4, OfStays
  <2>6. QED BY <1>2, <2>1, <2>5 DEF EndBlockHead, PlaceInv
<1>3. QED BY <1>1, <1>2

LEMMA BlockEndPlace ==
  ASSUME TypeInv, PlaceInv, NEW n \in Names, NEW h \in HandlesOrNone, EndBlock(n, h)
  PROVE  PlaceInv'
BY ReadOf DEF PlaceInv, EndBlock, BeginBlock, NoBlock

LEMMA LeftPlace == ASSUME Left PROVE PlaceInv' /\ ~block'.published
BY DEF Left, PlaceInv, NoBlock

---------------------------------------------------------------------------
(* What has been announced.                                                  *)

\* A block is open for the application as long as processBlock() has to close
\* it; what is staged neither opens nor closes one.
OpenInv ==
  /\ AlternateIn(events, Of)
  /\ result # "callbackThrew" => (IsOpen(events) <=> block.published)
  /\ Plain(staged)
BlockInv == PlaceInv /\ OpenInv

LEMMA NothingOpen == ~IsOpen(<<>>) /\ Plain(<<>>) /\ \A of : AlternateIn(<<>>, of)
BY DEF IsOpen, Plain, AlternateIn

LEMMA InitOpen == ASSUME Init PROVE OpenInv
BY NothingOpen DEF Init, OpenInv, NoBlock

\* Steps that make no callback.
LEMMA QuietOpen ==
  ASSUME OpenInv, events' = events, Of' = Of, Plain(staged'),
         block'.published <=> block.published,
         result # "callbackThrew" \/ result' = result
  PROVE  OpenInv'
<1>1. IsOpen(events') <=> IsOpen(events)
  OBVIOUS
<1>2. AlternateIn(events', Of')
  BY DEF OpenInv
<1>3. QED BY <1>1, <1>2 DEF OpenInv

LEMMA PlainAppend ==
  ASSUME NEW q \in Seq(Calls), NEW c \in Calls, Plain(q),
         c.method \in {"add", "addBlockRecord"}
  PROVE  Plain(Append(q, c))
<1>1. /\ Len(Append(q, c)) = Len(q) + 1 /\ Append(q, c)[Len(q) + 1] = c
      /\ \A i \in 1..Len(q) : Append(q, c)[i] = q[i]
  OBVIOUS
<1>2. ASSUME NEW i \in 1..Len(Append(q, c))
      PROVE  Append(q, c)[i].method \notin {"addBlock", "endBlock"}
  BY <1>1 DEF Plain
<1>3. QED BY <1>2 DEF Plain

LEMMA SectionsOpen ==
  ASSUME TypeInv, BlockInv,
         \/ \E s \in Sections : BeginSection(s)
         \/ \E v \in BOOLEAN : ReadHeader(v)
         \/ \E n \in Names : SkipRecord(n) \/ KeepRecord(n) \/ BlocksBoundary(n)
         \/ \E t \in Tables : OpenTable(t)
         \/ EndEmptySection \/ EndOfFile \/ EndOpaqueTable
  PROVE  OpenInv'
<1> USE DEF BlockInv
<1>1. CASE (\E s \in Sections : BeginSection(s)) \/ \E v \in BOOLEAN : ReadHeader(v)
  <2>1. /\ events' = <<>> /\ staged' \in {staged, <<>>} /\ block' = block
        /\ section \in {"none", "unnamed"}
    BY <1>1 DEF BeginSection, ReadHeader, Outside
  <2>2. ~block.published
    BY <2>1 DEF PlaceInv
  <2>3. ~IsOpen(events') /\ Plain(staged') /\ AlternateIn(events', Of')
    BY <2>1, NothingOpen DEF OpenInv
  <2>4. QED BY <2>1, <2>2, <2>3 DEF OpenInv
<1>2. CASE \E n \in Names : SkipRecord(n) \/ KeepRecord(n)
  <2>1. Of' = Of
    BY <1>2, ReadOf DEF SkipRecord, KeepRecord
  <2>2. /\ events' = events /\ staged' = staged /\ block' = block /\ result' = result
    BY <1>2 DEF SkipRecord, KeepRecord, processor
  <2>3. QED BY <2>1, <2>2, QuietOpen DEF OpenInv
<1>3. CASE \E n \in Names : BlocksBoundary(n)
  <2>1. PICK n \in Names : BlocksBoundary(n)
    BY <1>3
  <2>2. Of' = Of
    BY <2>1, ReadOf DEF BlocksBoundary
  <2>3. /\ events' = events /\ staged' = staged /\ result' = result
        /\ ~block.published /\ ~block'.published
    BY <2>1 DEF BlocksBoundary, BeginBlock, PlaceInv
  <2>4. QED BY <2>2, <2>3, QuietOpen DEF OpenInv
<1>4. CASE \E t \in Tables : OpenTable(t)
  <2>1. PICK t \in Tables : OpenTable(t)
    BY <1>4
  <2>2. /\ Append(tokens, Token("TABLE", t)) # <<>>
        /\ Append(tokens, Token("TABLE", t))[1] = tokens[1]
    BY <2>1 DEF OpenTable, TypeInv, ProcessorTypeOK, PlaceInv
  <2>3. Of' = Of
    BY <2>1, <2>2 DEF OpenTable, Of, PlaceInv
  <2>4. QED BY <2>1, <2>3, QuietOpen DEF OpenTable, OpenInv
<1>5. CASE EndEmptySection \/ EndOpaqueTable
  <2>1. Of' = Of
    BY <1>5, ReadOf DEF EndEmptySection, EndOpaqueTable
  <2>2. QED BY <1>5, <2>1, QuietOpen DEF EndEmptySection, EndOpaqueTable, OpenInv
<1>6. CASE EndOfFile
  <2>1. Of' = Of /\ UNCHANGED <<events, staged, block>> /\ result = "reading"
    BY <1>6 DEF EndOfFile, processor, Of
  <2>2. QED BY <2>1, QuietOpen DEF OpenInv
<1>7. QED BY <1>1, <1>2, <1>3, <1>4, <1>5, <1>6

LEMMA RowsOpen ==
  ASSUME TypeInv, BlockInv, NEW h \in HandlesOrNone, NextRow(h) \/ EndRows(h)
  PROVE  OpenInv'
<1> USE DEF BlockInv
<1> DEFINE c == Callback(RowMethod, record.at, <<>>, h)
<1>1. Plain(FinishedRows(h)) /\ FinishedRows(h) \in Seq(Calls)
  <2>1. record.at \in Nat /\ <<>> \in Seq(Nat) /\ staged \in Seq(Calls)
        /\ RowMethod \in {"add", "addBlockRecord"} /\ RowMethod \in Methods
    BY DEF TypeInv, ProcessorTypeOK, CallbackTypeOK, RowMethod, Methods
  <2>2. c \in Calls /\ c.method \in {"add", "addBlockRecord"}
    BY <2>1, CallIsTyped DEF Callback
  <2> HIDE DEF c
  <2>3. Append(staged, c) \in Seq(Calls) /\ Plain(Append(staged, c))
    BY <2>1, <2>2, PlainAppend DEF OpenInv
  <2>4. QED BY <2>1, <2>3 DEF FinishedRows, OpenInv, c
<1>2. Of' = Of
  BY ReadOf DEF NextRow, EndRows
<1>3. CASE NextRow(h)
  BY <1>1, <1>2, <1>3, QuietOpen DEF NextRow
<1>4. CASE EndRows(h)
  <2>1. /\ result = "reading" /\ result' = result /\ block' = block
        /\ events' = events \o FinishedRows(h) /\ staged' = <<>>
    BY <1>4 DEF EndRows, Read
  <2>2. ~block.published /\ Of # "BLOCKS"
    BY <1>4 DEF EndRows, InRows, PlaceInv
  <2>3. ~IsOpen(events) /\ events \in Seq(Calls)
    BY <2>1, <2>2 DEF OpenInv, TypeInv, CallbackTypeOK
  <2>4. AlternateIn(events', Of) /\ ~IsOpen(events')
    BY <1>1, <2>1, <2>2, <2>3, AlternatePlain DEF OpenInv
  <2>5. QED BY <1>2, <2>1, <2>2, <2>4, NothingOpen DEF OpenInv
<1>5. QED BY <1>3, <1>4

\* A callback of a section other than BLOCKS.
LEMMA AppendedOpen ==
  ASSUME TypeInv, OpenInv, NEW c \in Calls,
         c.method \notin {"addBlock", "endBlock"}, Of # "BLOCKS",
         result = "reading", ~block.published
  PROVE  AlternateIn(Append(events, c), Of) /\ ~IsOpen(Append(events, c))
<1>1. ~IsOpen(events) /\ events \in Seq(Calls)
  BY DEF OpenInv, TypeInv, CallbackTypeOK
<1>2. Fits(c.method, IsOpen(events), Of)
  BY <1>1 DEF Fits
<1>3. QED BY <1>1, <1>2, AlternateAppend, OpenAfterAppend DEF OpenInv

LEMMA DeliverOpen ==
  ASSUME TypeInv, BlockInv, NEW r, r.at \in Nat, NEW ps \in Seq(Nat),
         NEW h \in HandlesOrNone, Deliver(r, ps, h), result = "reading",
         result' = result, Of' = Of, block'.published = block.published,
         InEntities \/ section = "OBJECTS"
  PROVE  OpenInv'
<1> USE DEF BlockInv
<1>1. PICK c \in Calls :
        /\ c.handle = h /\ c.method = "add"
        /\ \/ events' = Append(events, c) /\ staged' = staged
           \/ events' = events /\ staged' = Append(staged, c)
           \/ events' = events /\ staged' = staged
  BY DeliverCases DEF TypeInv
<1>2. CASE InBlock
  <2>1. events' = events
    BY <1>2 DEF Deliver
  <2>2. Plain(staged')
    BY <1>1, <1>2, PlainAppend
    DEF Deliver, OpenInv, TypeInv, CallbackTypeOK, Callback
  <2>3. QED BY <2>1, <2>2, QuietOpen
<1>3. CASE ~InBlock
  <2>1. section \in {"ENTITIES", "OBJECTS"} /\ Of = section /\ ~block.published
    BY <1>3 DEF InEntities, PlaceInv
  <2>2. AlternateIn(Append(events, c), Of) /\ ~IsOpen(Append(events, c))
    BY <1>1, <2>1, AppendedOpen
  <2>3. /\ events' = Append(events, Callback("add", r.at, ps, h)) /\ staged' = staged
    BY <1>3 DEF Deliver
  <2>4. Callback("add", r.at, ps, h) \in Calls
        /\ Callback("add", r.at, ps, h).method = "add"
    BY CallIsTyped DEF Methods, Callback
  <2>5. AlternateIn(events', Of) /\ ~IsOpen(events')
    BY <2>1, <2>3, <2>4, AppendedOpen
  <2>6. QED BY <2>1, <2>3, <2>5 DEF OpenInv
<1>4. QED BY <1>2, <1>3

LEMMA EntitiesOpen ==
  ASSUME TypeInv, BlockInv, NEW n \in Names,
         \/ FirstRecord(n) \/ EndParts(n)
         \/ \E h \in HandlesOrNone : EndRecord(n, h) \/ BeginParts(n, h) \/ NextPart(n, h)
  PROVE  OpenInv'
<1> USE DEF BlockInv
<1>1. block'.published = block.published
  BY EntitiesPlace
<1>2. /\ Of' = Of /\ result = "reading" /\ result' = result
  BY ReadOf DEF FirstRecord, EndParts, EndRecord, BeginParts, NextPart, Read
<1>3. /\ record.at \in Nat /\ parent.at \in Nat /\ parent.parts \in Seq(Nat)
      /\ parent.handle \in HandlesOrNone /\ <<>> \in Seq(Nat)
  BY DEF TypeInv, ProcessorTypeOK
<1>4. CASE FirstRecord(n) \/ \E h \in HandlesOrNone : BeginParts(n, h) \/ NextPart(n, h)
  <2>1. events' = events /\ staged' = staged
    BY <1>4 DEF FirstRecord, BeginParts, NextPart
  <2>2. QED BY <1>1, <1>2, <2>1, QuietOpen DEF OpenInv
<1>5. CASE EndParts(n)
  <2>1. Deliver(parent, parent.parts, parent.handle) /\ InEntities
    BY <1>5 DEF EndParts, IsPart
  <2>2. QED BY <1>1, <1>2, <1>3, <2>1, DeliverOpen
<1>6. ASSUME NEW h \in HandlesOrNone, EndRecord(n, h) PROVE OpenInv'
  <2>1. Deliver(record, <<>>, HandleRead(h)) /\ (InEntities \/ section = "OBJECTS")
    BY <1>6 DEF EndRecord
  <2>2. QED BY <1>1, <1>2, <1>3, <2>1, DeliverOpen, HandleReadTyped
<1>7. QED BY <1>4, <1>5, <1>6

LEMMA BlockHeadOpen ==
  ASSUME TypeInv, BlockInv, NEW n \in Names, NEW h \in HandlesOrNone,
         NEW named \in BOOLEAN, EndBlockHead(n, h, named)
  PROVE  OpenInv'
<1> USE DEF BlockInv
<1> DEFINE c == Callback("addBlock", record.at, <<>>, HandleRead(h))
<1>1. c \in Calls /\ c.method = "addBlock"
  <2>1. <<>> \in Seq(Nat) /\ record.at \in Nat
    BY DEF TypeInv, ProcessorTypeOK
  <2>2. QED BY <2>1, CallIsTyped, HandleReadTyped DEF Methods, Callback
<1>2. /\ section = "BLOCKS" /\ Of = "BLOCKS" /\ PlaceInv' /\ section' = section
      /\ result = "reading" /\ result' = result
  BY BlockHeadPlace DEF EndBlockHead, PlaceInv
<1>3. Of' = Of
  BY <1>2 DEF PlaceInv
<1>4. /\ events' = IF named THEN Append(events, c) ELSE events
      /\ staged' = <<>> /\ block'.published = named
  BY DEF EndBlockHead
<1>5. ~block.published /\ ~IsOpen(events) /\ events \in Seq(Calls)
  BY <1>2 DEF EndBlockHead, PlaceInv, OpenInv, TypeInv, CallbackTypeOK
<1> HIDE DEF c
<1>6. AlternateIn(Append(events, c), Of) /\ IsOpen(Append(events, c))
  <2>1. Fits(c.method, IsOpen(events), Of)
    BY <1>1, <1>5 DEF Fits
  <2>2. QED BY <1>1, <1>5, <2>1, AlternateAppend, OpenAfterAppend DEF OpenInv
<1>7. Plain(staged')
  BY <1>4, NothingOpen
<1>8. CASE named
  BY <1>2, <1>3, <1>4, <1>6, <1>7, <1>8 DEF OpenInv
<1>9. CASE ~named
  BY <1>2, <1>3, <1>4, <1>5, <1>7, <1>9 DEF OpenInv
<1>10. QED BY <1>8, <1>9

\* A block is left: its children have been delivered and endBlock() follows.
LEMMA ClosesOpen ==
  ASSUME TypeInv, BlockInv, result # "callbackThrew", block.published,
         NEW r \in Seq(Calls), Plain(r), NEW c \in Calls, c.method = "endBlock"
  PROVE  LET q == Append(events \o r, c) IN AlternateIn(q, Of) /\ ~IsOpen(q)
<1> DEFINE p == events \o r
<1>1. /\ IsOpen(events) /\ events \in Seq(Calls) /\ AlternateIn(events, Of)
      /\ Of = "BLOCKS"
  BY DEF BlockInv, PlaceInv, OpenInv, TypeInv, CallbackTypeOK
<1>2. AlternateIn(p, Of) /\ IsOpen(p) /\ p \in Seq(Calls)
  BY <1>1, AlternatePlain, ConcatProperties
<1> HIDE DEF p
<1>3. Fits(c.method, IsOpen(p), Of)
  BY <1>2 DEF Fits
<1>4. AlternateIn(Append(p, c), Of) /\ ~IsOpen(Append(p, c))
  BY <1>2, <1>3, AlternateAppend, OpenAfterAppend
<1>5. QED BY <1>4 DEF p

LEMMA BlockEndOpen ==
  ASSUME TypeInv, BlockInv, NEW n \in Names, NEW h \in HandlesOrNone, EndBlock(n, h)
  PROVE  OpenInv'
<1> DEFINE c == Callback("endBlock", record.at, <<>>, h)
<1>1. c \in Calls /\ c.method = "endBlock"
  <2>1. <<>> \in Seq(Nat) /\ record.at \in Nat
    BY DEF TypeInv, ProcessorTypeOK
  <2>2. QED BY <2>1, CallIsTyped DEF Methods, Callback
<1>2. /\ result = "reading" /\ staged' = <<>> /\ Of' = Of
      /\ events' = events \o Flushed \o Footer(h) /\ ~block'.published
  BY ReadOf DEF EndBlock, Read, Footer, BeginBlock, NoBlock
<1>3. staged \in Seq(Calls) /\ events \in Seq(Calls) /\ Plain(staged)
  BY DEF TypeInv, CallbackTypeOK, BlockInv, OpenInv
<1>4. CASE block.published
  <2>1. events' = Append(events \o staged, c)
    <3>1. events' = (events \o staged) \o <<c>>
      BY <1>2, <1>4 DEF Flushed, Footer
    <3>2. events \o staged \in Seq(Calls)
      BY <1>3, ConcatProperties
    <3>3. QED BY <1>1, <3>1, <3>2
  <2> HIDE DEF c
  <2>2. AlternateIn(events', Of) /\ ~IsOpen(events')
    BY <1>1, <1>2, <1>3, <1>4, <2>1, ClosesOpen
  <2>3. QED BY <1>2, <2>2, NothingOpen DEF OpenInv
<1>5. CASE ~block.published
  <2>1. events' = events
    BY <1>2, <1>3, <1>5, ConcatEmptySeq DEF Flushed, Footer
  <2>2. ~IsOpen(events') /\ AlternateIn(events', Of)
    BY <1>2, <1>5, <2>1 DEF BlockInv, OpenInv
  <2>3. QED BY <1>2, <2>2, NothingOpen DEF OpenInv
<1>6. QED BY <1>4, <1>5

LEMMA EndsOpen ==
  ASSUME TypeInv, BlockInv, \/ EndKeptSection \/ Fail \/ ParserThrows
                            \/ \E k \in 0..MaxRecords : FlushThrows(k)
  PROVE  OpenInv'
<1> USE DEF BlockInv
<1>0. /\ <<>> \in Seq(Nat) /\ parent.parts \in Seq(Nat) /\ 0 \in HandlesOrNone
      /\ staged \in Seq(Calls) /\ events \in Seq(Calls)
  BY DEF TypeInv, ProcessorTypeOK, CallbackTypeOK, HandlesOrNone
<1>1. CASE EndKeptSection
  <2> DEFINE c == Callback("addRawDxfSection", 1, parent.parts, 0)
  <2>1. c \in Calls /\ c.method \notin {"addBlock", "endBlock"}
    BY <1>0, CallIsTyped DEF Methods, Callback
  <2>2. /\ section = "other" /\ Of = "other" /\ Of' = Of /\ result = "reading"
        /\ result' = result /\ block' = block /\ staged' = staged
        /\ events' = Append(events, c)
    BY <1>1, ReadOf DEF EndKeptSection, Read, PlaceInv
  <2>3. ~block.published
    BY <2>2 DEF PlaceInv
  <2>4. AlternateIn(events', Of) /\ ~IsOpen(events')
    BY <2>1, <2>2, <2>3, AppendedOpen
  <2>5. QED BY <2>2, <2>3, <2>4 DEF OpenInv
<1>2. CASE Fail \/ ParserThrows
  <2> DEFINE c == Callback("endBlock", 0, <<>>, 0)
  <2>1. c \in Calls /\ c.method = "endBlock"
    BY <1>0, CallIsTyped DEF Methods, Callback
  <2>2. /\ result = "reading" /\ Of' = Of /\ staged' = <<>> /\ ~block'.published
        /\ events' = IF block.published THEN Append(events, c) ELSE events
    BY <1>2, LeftPlace DEF Fail, ParserThrows, Closed, Left, Of
  <2> HIDE DEF c
  <2>3. CASE block.published
    <3>1. events \o <<>> = events /\ <<>> \in Seq(Calls)
      BY <1>0, ConcatEmptySeq
    <3>2. AlternateIn(Append(events, c), Of) /\ ~IsOpen(Append(events, c))
      BY <2>1, <2>2, <2>3, <3>1, ClosesOpen, NothingOpen
    <3>3. QED BY <2>2, <2>3, <3>2, NothingOpen DEF OpenInv
  <2>4. CASE ~block.published
    <3>1. events' = events /\ ~IsOpen(events)
      BY <2>2, <2>4 DEF OpenInv
    <3>2. QED BY <2>2, <3>1, NothingOpen DEF OpenInv
  <2>5. QED BY <2>3, <2>4
<1>3. ASSUME NEW k \in 0..MaxRecords, FlushThrows(k) PROVE OpenInv'
  <2>1. k \in 0..Len(staged)
    BY <1>0, <1>3, LenProperties, ReaderAssumption DEF FlushThrows
  <2> DEFINE r == SubSeq(staged, 1, k)
  <2>2. r \in Seq(Calls) /\ Plain(r)
    <3>1. /\ Len(r) = k /\ r \in Seq(Calls) /\ Len(staged) \in Nat
          /\ \A i \in 1..k : r[i] = staged[i]
      BY <1>0, <2>1
    <3>2. 1..k \subseteq 1..Len(staged)
      BY <2>1, <3>1
    <3>3. QED BY <3>1, <3>2 DEF Plain, OpenInv
  <2>3. /\ result = "reading" /\ result' = "callbackThrew" /\ block.published
        /\ events' = events \o r /\ staged' = <<>> /\ Of' = Of
    BY <1>3 DEF FlushThrows, Left, Of
  <2> HIDE DEF r
  <2>4. IsOpen(events) /\ Of = "BLOCKS"
    BY <2>3 DEF OpenInv, PlaceInv
  <2>5. AlternateIn(events', Of)
    BY <1>0, <2>2, <2>3, <2>4, AlternatePlain DEF OpenInv
  <2>6. QED BY <2>3, <2>5, NothingOpen DEF OpenInv
<1>4. QED BY <1>1, <1>2, <1>3

LEMMA BlockStep == TypeInv /\ BlockInv /\ [Next]_vars => BlockInv'
<1> SUFFICES ASSUME TypeInv, BlockInv, [Next]_vars PROVE BlockInv'
  OBVIOUS
<1> USE DEF BlockInv
<1>1. ASSUME NEW n \in Offered, ReadRecord(n) PROVE BlockInv'
  <2>1. n \in Names
    BY OfferedNames DEF TypeInv
  <2>2. PlaceInv'
    BY <1>1, <2>1, SectionsPlace, EntitiesPlace, BlockHeadPlace, BlockEndPlace
    DEF ReadRecord
  <2>3. OpenInv'
    BY <1>1, <2>1, SectionsOpen, EntitiesOpen, BlockHeadOpen, BlockEndOpen
    DEF ReadRecord
  <2>4. QED BY <2>2, <2>3
<1>2. CASE Fail \/ ParserThrows \/ \E k \in 0..MaxRecords : FlushThrows(k)
  BY <1>2, EndsOpen, LeftPlace DEF Fail, ParserThrows, FlushThrows
<1>3. CASE \E h \in HandlesOrNone : NextRow(h) \/ EndRows(h)
  BY <1>3, RowsPlace, RowsOpen
<1>4. CASE \/ (\E s \in Sections : BeginSection(s)) \/ (\E v \in BOOLEAN : ReadHeader(v))
           \/ (\E t \in Tables : OpenTable(t))
           \/ EndOpaqueTable \/ EndEmptySection \/ EndOfFile
  BY <1>4, SectionsPlace, SectionsOpen
<1>5. CASE EndKeptSection
  BY <1>5, SectionsPlace, EndsOpen
<1>6. CASE UNCHANGED vars
  BY <1>6, QuietOpen DEF vars, processor, PlaceInv, Of, OpenInv
<1>7. QED BY <1>1, <1>2, <1>3, <1>4, <1>5, <1>6 DEF Next

\* A read that is over has left every block.
OverInv == result \notin {"reading", "callbackThrew"} => ~block.published

LEMMA OverStep == TypeInv /\ BlockInv /\ OverInv /\ [Next]_vars => OverInv'
<1> SUFFICES ASSUME TypeInv, BlockInv, OverInv, [Next]_vars PROVE OverInv'
  OBVIOUS
<1>1. ASSUME NEW n \in Offered, ReadRecord(n) PROVE OverInv'
  <2>1. CASE \/ SkipRecord(n) \/ FirstRecord(n) \/ EndParts(n)
             \/ BlocksBoundary(n) \/ KeepRecord(n)
    BY <2>1 DEF OverInv, SkipRecord, FirstRecord, EndParts, BlocksBoundary,
       KeepRecord, Read
  <2>2. CASE \E h \in HandlesOrNone :
               \/ EndRecord(n, h) \/ BeginParts(n, h) \/ NextPart(n, h)
               \/ \E named \in BOOLEAN : EndBlockHead(n, h, named)
    BY <2>2 DEF OverInv, EndRecord, BeginParts, NextPart, EndBlockHead, Read
  <2>3. CASE \E h \in HandlesOrNone : EndBlock(n, h)
    BY <2>3 DEF OverInv, EndBlock, BeginBlock, NoBlock, Read
  <2>4. QED BY <1>1, <2>1, <2>2, <2>3 DEF ReadRecord
<1>2. CASE \/ (\E s \in Sections : BeginSection(s)) \/ (\E v \in BOOLEAN : ReadHeader(v))
           \/ (\E t \in Tables : OpenTable(t))
           \/ \E h \in HandlesOrNone : NextRow(h) \/ EndRows(h)
  BY <1>2 DEF OverInv, BeginSection, ReadHeader, OpenTable, NextRow, EndRows, Read
<1>3. CASE EndOpaqueTable \/ EndEmptySection \/ EndKeptSection
  BY <1>3 DEF OverInv, EndOpaqueTable, EndEmptySection, EndKeptSection, Read
<1>4. CASE EndOfFile
  BY <1>4 DEF OverInv, EndOfFile, processor, BlockInv, PlaceInv
<1>5. CASE Fail \/ ParserThrows \/ \E k \in 0..MaxRecords : FlushThrows(k)
  BY <1>5, LeftPlace DEF OverInv, Fail, ParserThrows, FlushThrows
<1>6. CASE UNCHANGED vars
  BY <1>6 DEF OverInv, vars, processor
<1>7. QED BY <1>1, <1>2, <1>3, <1>4, <1>5, <1>6 DEF Next

LEMMA BlocksAreBalanced == TypeInv /\ BlockInv /\ OverInv => BlocksBalanced
<1> SUFFICES ASSUME TypeInv, BlockInv, OverInv PROVE BlocksBalanced
  OBVIOUS
<1>1. Alternate(events)
  BY AlternateIsIn DEF BlockInv, OpenInv, TypeInv, CallbackTypeOK
<1>2. IsOpen(events) => result \in {"reading", "callbackThrew"}
  BY DEF BlockInv, OpenInv, OverInv
<1>3. QED BY <1>1, <1>2 DEF BlocksBalanced

\* processBlock(), closePublishedBlock() and DxfBlockEventSink::flush(): for
\* every file addBlock() and endBlock() alternate, the callbacks of a BLOCKS
\* section come between them and those of other sections do not, and unless
\* a callback of the application threw no block is open when read() is over.
THEOREM BlocksStayBalanced == Spec => []BlocksBalanced
<1>1. Init => TypeInv /\ BlockInv /\ OverInv
  BY InitTyped, InitPlace, InitOpen DEF BlockInv, OverInv, Init
<1>2. TypeInv /\ BlockInv /\ OverInv /\ [Next]_vars => (TypeInv /\ BlockInv /\ OverInv)'
  BY TypeStep, BlockStep, OverStep
<1>3. TypeInv /\ BlockInv /\ OverInv => BlocksBalanced
  BY BlocksAreBalanced
<1>4. QED BY <1>1, <1>2, <1>3, PTL DEF Spec

---------------------------------------------------------------------------
(* What a sequence of records asks for, whatever the reader's state.         *)

NameIn(q, i) == IF i \in DOMAIN q THEN q[i].name ELSE "none"
OfIn(q) == IF q = <<>> THEN "none" ELSE q[1].of

OpenerIn(q, i) == \/ NameIn(q, i) = "POLYLINE"
                  \/ NameIn(q, i) = "INSERT" /\ NameIn(q, i + 1) = "ATTRIB"
PartsIn(q, i, j) ==
  /\ i < j /\ OpenerIn(q, i)
  /\ \A k \in i..(j - 1) : NameIn(q, k) # "SEQEND"
PartsEndIn(q, i) == {e \in (i + 1)..(Len(q) - 1) :
                       PartsIn(q, i, e) /\ NameIn(q, e) = "SEQEND"}
PartList(i, j) == [k \in 1..(j - i - 1) |-> i + k]
EntityIn(q, i) ==
  {Shape("add", i, <<>>) : x \in IF OpenerIn(q, i) THEN {} ELSE {i}}
    \cup {Shape("add", i, PartList(i, j)) : j \in PartsEndIn(q, i)}

\* Record k is not a part of an entity that starts after lo.
FreeIn(q, lo, k) == \A o \in (lo + 1)..k : ~PartsIn(q, o, k)
EntitiesIn(q, lo, hi) ==
  UNION {EntityIn(q, i) : i \in {k \in (lo + 1)..(hi - 1) : FreeIn(q, lo, k)}}
\* The block's sink has no method for the entities in Unstaged.
StagedIn(q, lo, hi) == {e \in EntitiesIn(q, lo, hi) : NameIn(q, e.at) \notin Unstaged}

BeginsIn(q, b) ==
  /\ OfIn(q) = "BLOCKS" /\ NameIn(q, b) = "BLOCK"
  /\ b = 2 \/ NameIn(q, b - 1) = "ENDBLK"
IsFooterIn(q, b, e) ==
  /\ b < e /\ NameIn(q, e) = "ENDBLK"
  /\ \A k \in b..(e - 1) : NameIn(q, k) # "ENDBLK"
BlockIn(q, b) ==
  {Shape("addBlock", b, <<>>)}
    \cup UNION {{Shape("endBlock", e, <<>>)} \cup StagedIn(q, b, e) :
                   e \in {f \in b..(Len(q) - 1) : IsFooterIn(q, b, f)}}
NamedBlocksIn(q) == {i \in 2..(Len(q) - 1) : BeginsIn(q, i) /\ q[i].complete}

\* The records from o to j are a table of t and its rows.
RunIn(q, o, j, t) == /\ NameIn(q, o) = "TABLE" /\ q[o].of = t
                     /\ \A k \in (o + 1)..j : NameIn(q, k) = t
IsRowIn(q, i, t) ==
  \E o \in 1..(i - 1), e \in (i + 1)..Len(q) :
    NameIn(q, e) = "ENDTAB" /\ RunIn(q, o, e - 1, t)
RowsIn(q, m, t) == {Shape(m, i, <<>>) : i \in {k \in DOMAIN q : IsRowIn(q, k, t)}}
EndedIn(q) == NameIn(q, Len(q)) = "ENDSEC"
InsideIn(q) == {Shape("add", i, <<>>) : i \in 2..(Len(q) - 1)}

DueIn(q) ==
  CASE OfIn(q) = "ENTITIES" -> EntitiesIn(q, 1, Len(q))
    [] OfIn(q) = "OBJECTS"  -> InsideIn(q)
    [] OfIn(q) = "BLOCKS"   -> UNION {BlockIn(q, b) : b \in NamedBlocksIn(q)}
    [] OfIn(q) = "TABLES"   -> RowsIn(q, "add", "LAYER")
                                 \cup RowsIn(q, "addBlockRecord", "BLOCK_RECORD")
    [] OfIn(q) = "CLASSES" /\ EndedIn(q) -> InsideIn(q)
    [] OfIn(q) = "other" /\ EndedIn(q)   ->
         {Shape("addRawDxfSection", 1, PartList(1, Len(q)))}
    [] OTHER -> {}

\* The callbacks of c as records of the file, and their order.
ShapeOf(c) == Shape(c.method, c.at, c.parts)
ShapesOf(c) == {ShapeOf(c[i]) : i \in {k \in DOMAIN c : c[k].at # 0}}
InOrder(c) == \A i, j \in DOMAIN c : i < j /\ c[j].at # 0 => c[i].at < c[j].at
Heard(c, q) == ShapesOf(c) = DueIn(q) /\ InOrder(c)
Within(c, lo, hi) == \A i \in DOMAIN c : lo < c[i].at /\ c[i].at < hi

---------------------------------------------------------------------------
(* Where the reader is in the section.                                       *)

\* The entities that start after lo are read; r is the last record of q, and
\* a part of p unless p is NoParent.
Here(q, p) == IF p = NoParent THEN Len(q) ELSE p.at
EntityAt(q, lo, r, p) ==
  /\ lo < Here(q, p) /\ FreeIn(q, lo, Here(q, p))
  /\ r.at = Len(q) /\ r.name = NameIn(q, Len(q))
  /\ p # NoParent =>
       /\ p.at < Len(q) /\ OpenerIn(q, p.at) /\ p.name = NameIn(q, p.at)
       /\ p.parts = PartList(p.at, Len(q))
       /\ \A k \in (p.at + 1)..Len(q) : NameIn(q, k) \in {"ATTRIB", "VERTEX", "SEQEND"}
       /\ \A k \in (p.at + 1)..(Len(q) - 1) : NameIn(q, k) # "SEQEND"
Listed(c, m, lo, hi) ==
  /\ ShapesOf(c) = {Shape(m, i, <<>>) : i \in (lo + 1)..(hi - 1)}
  /\ InOrder(c) /\ Within(c, lo, hi)

\* The blocks that start before b have ended.
EndedBefore(q, b) ==
  \A a \in 2..(b - 1) :
    BeginsIn(q, a) => \E e \in (a + 1)..(Len(q) - 1) :
                        IsFooterIn(q, a, e) /\ FreeIn(q, a, e)

BlockOpen(b) ==
  /\ b \in 2..(Len(tokens) - 1) /\ BeginsIn(tokens, b) /\ EndedBefore(tokens, b)
  /\ \A k \in b..(Len(tokens) - 1) : NameIn(tokens, k) # "ENDBLK"
  /\ tokens[b].complete = block.published /\ Within(events, 0, b + 1)
  /\ ShapesOf(staged) = StagedIn(tokens, b, Len(tokens)) /\ InOrder(staged)
  /\ Within(staged, b, Here(tokens, parent))
AtHead ==
  /\ Len(tokens) >= 2 /\ BeginsIn(tokens, Len(tokens))
  /\ EndedBefore(tokens, Len(tokens)) /\ Within(events, 0, Len(tokens))
  /\ record.at = Len(tokens) /\ parent = NoParent
AtChildren(b) ==
  BlockOpen(b) /\ EntityAt(tokens, b, record, parent) /\ record.name # "ENDBLK"
AtFooter(b) ==
  /\ BlockOpen(b) /\ FreeIn(tokens, b, Len(tokens)) /\ parent = NoParent
  /\ NameIn(tokens, Len(tokens)) = "ENDBLK" /\ record.at = Len(tokens)
AtBlocks ==
  /\ block.stage = "none" => /\ Len(tokens) = 1 /\ pending = "none" /\ events = <<>>
                             /\ parent = NoParent
  /\ block.stage = "head" => AtHead
  /\ block.stage = "children" => \E b \in 2..Len(tokens) : AtChildren(b)
  /\ block.stage = "footer" => \E b \in 2..Len(tokens) : AtFooter(b)

NoRun(q) == /\ NameIn(q, Len(q)) \notin {"LAYER", "BLOCK_RECORD"}
            /\ NameIn(q, Len(q)) = "TABLE" => q[Len(q)].of = "opaque"
RowsAt(o) ==
  /\ 1 < o /\ RunIn(tokens, o, Len(tokens), table) /\ Within(events, 0, o)
  /\ record.at = IF Len(tokens) = o THEN 0 ELSE Len(tokens)
  /\ record = NoRecord <=> Len(tokens) = o
  /\ Listed(staged, RowMethod, o, Len(tokens))
BetweenRows ==
  NoRun(tokens) /\ Within(events, 0, Len(tokens) + 1) /\ staged = <<>>
AtTables ==
  /\ table \in {"LAYER", "BLOCK_RECORD"} => \E o \in 2..Len(tokens) : RowsAt(o)
  /\ table \in {"none", "opaque"} => BetweenRows

AtEntities ==
  /\ Within(events, 0, Here(tokens, parent))
  /\ record = NoRecord => Len(tokens) = 1 /\ parent = NoParent
  /\ record # NoRecord => EntityAt(tokens, 1, record, parent)
AtObjects ==
  /\ parent = NoParent /\ Within(events, 0, Len(tokens))
  /\ record = NoRecord <=> Len(tokens) = 1
  /\ record # NoRecord => record.at = Len(tokens)
AtClasses ==
  /\ events = <<>> /\ Listed(staged, "add", 1, Len(tokens))
  /\ record = NoRecord <=> Len(tokens) = 1
  /\ record # NoRecord => record.at = Len(tokens)
AtKept ==
  /\ events = <<>> /\ parent.parts = PartList(1, Len(tokens) + 1)
AtSection ==
  /\ section = "ENTITIES" => AtEntities
  /\ section = "OBJECTS" => AtObjects
  /\ section = "BLOCKS" => AtBlocks
  /\ section = "TABLES" => AtTables
  /\ section = "CLASSES" => AtClasses
  /\ section = "other" => AtKept

WhereInv ==
  result = "reading" =>
    /\ section \in {"none", "unnamed"} => tokens = <<>> \/ EndedIn(tokens)
    /\ section = "unnamed" => tokens = <<>>
    /\ section \notin {"none", "unnamed"} => ~EndedIn(tokens) /\ AtSection
DueInv == result # "callbackThrew" => Heard(events, tokens)

---------------------------------------------------------------------------
(* Names, parts and entities as more records are read.                       *)

LEMMA NamesOfAppend ==
  ASSUME NEW q \in Seq(TokenSet), NEW t \in TokenSet
  PROVE  /\ Append(q, t) \in Seq(TokenSet) /\ Len(Append(q, t)) = Len(q) + 1
         /\ \A i \in 1..Len(q) : /\ NameIn(Append(q, t), i) = NameIn(q, i)
                                 /\ Append(q, t)[i] = q[i]
         /\ NameIn(Append(q, t), Len(q) + 1) = t.name
         /\ Append(q, t)[Len(q) + 1] = t
BY LenProperties DEF NameIn

\* The names read so far stay what they are.
Extended(q, r) ==
  /\ Len(q) <= Len(r)
  /\ \A i \in 1..Len(q) : NameIn(r, i) = NameIn(q, i)

LEMMA PartsAgree ==
  ASSUME NEW q \in Seq(TokenSet), NEW r \in Seq(TokenSet), Extended(q, r),
         NEW i \in Nat, i > 0, NEW j \in Nat, i < j, j <= Len(q)
  PROVE  /\ OpenerIn(r, i) <=> OpenerIn(q, i)
         /\ PartsIn(r, i, j) <=> PartsIn(q, i, j)
<1>1. Len(q) \in Nat
  BY LenProperties
<1>2. OpenerIn(r, i) <=> OpenerIn(q, i)
  BY <1>1 DEF Extended, OpenerIn
<1>3. \A k \in i..(j - 1) : NameIn(r, k) = NameIn(q, k)
  BY <1>1 DEF Extended
<1>4. QED BY <1>2, <1>3 DEF PartsIn

LEMMA FreeAgrees ==
  ASSUME NEW q \in Seq(TokenSet), NEW r \in Seq(TokenSet), Extended(q, r),
         NEW lo \in Nat, NEW k \in Nat, k <= Len(q)
  PROVE  FreeIn(r, lo, k) <=> FreeIn(q, lo, k)
<1>1. ASSUME NEW o \in (lo + 1)..k PROVE PartsIn(r, o, k) <=> PartsIn(q, o, k)
  <2>1. o \in Nat /\ o > 0
    OBVIOUS
  <2>2. CASE o < k
    BY <2>1, <2>2, PartsAgree
  <2>3. CASE ~(o < k)
    BY <2>3 DEF PartsIn
  <2>4. QED BY <2>2, <2>3
<1>2. QED BY <1>1 DEF FreeIn

\* The parts of an entity that starts before a free record c are known at c.
LEMMA PartsEndBefore ==
  ASSUME NEW q \in Seq(TokenSet), NEW lo \in Nat, NEW c \in Nat, c <= Len(q),
         FreeIn(q, lo, c), NEW i \in (lo + 1)..(c - 1), OpenerIn(q, i)
  PROVE  \E k \in (i + 1)..(c - 1) : NameIn(q, k) = "SEQEND"
<1>1. ~PartsIn(q, i, c) /\ i < c
  BY DEF FreeIn
<1>2. PICK k \in i..(c - 1) : NameIn(q, k) = "SEQEND"
  BY <1>1 DEF PartsIn
<1>3. k # i
  BY <1>2 DEF OpenerIn
<1>4. QED BY <1>2, <1>3

LEMMA EntityAgrees ==
  ASSUME NEW q \in Seq(TokenSet), NEW r \in Seq(TokenSet), Extended(q, r),
         NEW lo \in Nat, NEW c \in Nat, c <= Len(q), FreeIn(q, lo, c),
         NEW i \in (lo + 1)..(c - 1)
  PROVE  EntityIn(r, i) = EntityIn(q, i)
<1>1. Len(q) \in Nat /\ Len(r) \in Nat /\ Len(q) <= Len(r) /\ i \in Nat /\ i > 0
      /\ i < c
  BY LenProperties DEF Extended
<1>2. OpenerIn(r, i) <=> OpenerIn(q, i)
  BY <1>1, PartsAgree
<1>3. \A e \in Nat : i < e /\ e <= Len(q) =>
        /\ PartsIn(r, i, e) <=> PartsIn(q, i, e)
        /\ NameIn(r, e) = NameIn(q, e)
  BY <1>1, PartsAgree DEF Extended
<1>4. PartsEndIn(q, i) \subseteq PartsEndIn(r, i)
  BY <1>1, <1>3 DEF PartsEndIn
<1>5. ASSUME NEW e \in PartsEndIn(r, i) PROVE e \in PartsEndIn(q, i)
  <2>1. /\ e \in (i + 1)..(Len(r) - 1) /\ PartsIn(r, i, e)
        /\ NameIn(r, e) = "SEQEND"
    BY <1>5 DEF PartsEndIn
  <2>2. OpenerIn(q, i)
    BY <1>2, <2>1 DEF PartsIn
  <2>3. PICK k \in (i + 1)..(c - 1) : NameIn(q, k) = "SEQEND"
    BY <2>2, PartsEndBefore
  <2>4. NameIn(r, k) = "SEQEND"
    BY <1>1, <2>3 DEF Extended
  <2>5. ~(k \in i..(e - 1))
    BY <2>1, <2>4 DEF PartsIn
  <2>6. e \in Nat /\ e <= k /\ k <= Len(q) - 1 /\ i < e
    BY <1>1, <2>1, <2>3, <2>5
  <2>7. PartsIn(q, i, e) /\ NameIn(q, e) = "SEQEND"
    BY <1>1, <1>3, <2>1, <2>6
  <2>8. e \in (i + 1)..(Len(q) - 1)
    BY <1>1, <2>6
  <2>9. QED BY <2>7, <2>8 DEF PartsEndIn
<1>6. PartsEndIn(r, i) = PartsEndIn(q, i)
  BY <1>4, <1>5
<1>7. QED BY <1>2, <1>6 DEF EntityIn

\* What is read after a free record changes nothing for the entities before it.
LEMMA EntitiesStay ==
  ASSUME NEW q \in Seq(TokenSet), NEW r \in Seq(TokenSet), Extended(q, r),
         NEW lo \in Nat, NEW c \in Nat, c <= Len(q), FreeIn(q, lo, c)
  PROVE  FreeIn(r, lo, c) /\ EntitiesIn(r, lo, c) = EntitiesIn(q, lo, c)
<1>1. FreeIn(r, lo, c)
  BY FreeAgrees
<1>2. \A i \in (lo + 1)..(c - 1) : FreeIn(r, lo, i) <=> FreeIn(q, lo, i)
  <2>1. ASSUME NEW i \in (lo + 1)..(c - 1) PROVE FreeIn(r, lo, i) <=> FreeIn(q, lo, i)
    <3>1. i \in Nat /\ i <= Len(q)
      BY LenProperties
    <3>2. QED BY <3>1, FreeAgrees
  <2>2. QED BY <2>1
<1>3. \A i \in (lo + 1)..(c - 1) : EntityIn(r, i) = EntityIn(q, i)
  BY EntityAgrees
<1>4. QED BY <1>1, <1>2, <1>3 DEF EntitiesIn

LEMMA EntitiesAreBetween ==
  ASSUME NEW q, NEW lo \in Nat, NEW hi \in Nat, NEW e \in EntitiesIn(q, lo, hi)
  PROVE  e.at \in (lo + 1)..(hi - 1) /\ e.method = "add"
<1>1. PICK i \in (lo + 1)..(hi - 1) : e \in EntityIn(q, i)
  BY DEF EntitiesIn
<1>2. \E ps : e = Shape("add", i, ps)
  BY <1>1 DEF EntityIn
<1>3. QED BY <1>2 DEF Shape

LEMMA NoEntities == ASSUME NEW q, NEW lo \in Nat PROVE EntitiesIn(q, lo, lo + 1) = {}
BY DEF EntitiesIn

LEMMA OneMoreRecord ==
  ASSUME NEW q, NEW lo \in Nat, NEW k \in Nat, lo < k
  PROVE  EntitiesIn(q, lo, k + 1) =
           EntitiesIn(q, lo, k) \cup (IF FreeIn(q, lo, k) THEN EntityIn(q, k) ELSE {})
<1>1. (lo + 1)..(k + 1 - 1) = ((lo + 1)..(k - 1)) \cup {k}
  OBVIOUS
<1>2. QED BY <1>1 DEF EntitiesIn

---------------------------------------------------------------------------
(* An entity ends, begins its parts, or goes on with them.                   *)

LEMMA LongerPartList ==
  ASSUME NEW a \in Nat, NEW l \in Nat, a < l
  PROVE  /\ PartList(a, l) \in Seq(Nat) /\ Len(PartList(a, l)) = l - a - 1
         /\ Append(PartList(a, l), l) = PartList(a, l + 1)
<1> DEFINE s == PartList(a, l)
           n == l - a - 1
<1>1. n \in Nat /\ n + 1 = l + 1 - a - 1 /\ a + (n + 1) = l
  OBVIOUS
<1>2. s = [k \in 1..n |-> a + k] /\ PartList(a, l + 1) = [k \in 1..(n + 1) |-> a + k]
  BY <1>1 DEF PartList
<1> HIDE DEF n, s
<1>3. s \in Seq(Nat) /\ Len(s) = n
  <2>1. s \in [1..n -> Nat]
    BY <1>1, <1>2
  <2>2. QED BY <1>1, <2>1, SeqDef, LenProperties
<1>4. /\ Append(s, l) \in [1..(n + 1) -> Nat] /\ Append(s, l)[n + 1] = l
      /\ \A k \in 1..n : Append(s, l)[k] = s[k]
  <2>1. l \in Nat
    OBVIOUS
  <2>2. /\ Append(s, l) \in Seq(Nat) /\ Len(Append(s, l)) = n + 1
        /\ Append(s, l)[n + 1] = l
        /\ \A k \in 1..n : Append(s, l)[k] = s[k]
    BY <1>3, <2>1, AppendProperties
  <2>3. QED BY <2>2, LenProperties
<1>5. ASSUME NEW k \in 1..(n + 1) PROVE Append(s, l)[k] = a + k
  BY <1>1, <1>2, <1>4
<1>6. Append(s, l) = [k \in 1..(n + 1) |-> a + k]
  BY <1>4, <1>5
<1>7. Append(s, l) = PartList(a, l + 1)
  BY <1>2, <1>6
<1>8. QED BY <1>3, <1>7 DEF s, n

\* The last record is an entity and no other record belongs to it.
LEMMA EntityEnds ==
  ASSUME NEW q \in Seq(TokenSet), NEW r \in Seq(TokenSet), Extended(q, r),
         Len(r) = Len(q) + 1, NEW lo \in Nat, lo < Len(q), FreeIn(q, lo, Len(q)),
         ~OpenerIn(r, Len(q))
  PROVE  /\ FreeIn(r, lo, Len(r))
         /\ EntitiesIn(r, lo, Len(r)) =
              EntitiesIn(q, lo, Len(q)) \cup {Shape("add", Len(q), <<>>)}
<1> DEFINE L == Len(q)
<1>1. L \in Nat /\ Len(r) = L + 1
  BY LenProperties
<1>2. FreeIn(r, lo, L) /\ EntitiesIn(r, lo, L) = EntitiesIn(q, lo, L)
  BY <1>1, EntitiesStay
<1>3. EntityIn(r, L) = {Shape("add", L, <<>>)}
  <2>1. PartsEndIn(r, L) = {}
    BY <1>1 DEF PartsEndIn
  <2>2. QED BY <2>1 DEF EntityIn
<1>4. EntitiesIn(r, lo, L + 1) = EntitiesIn(r, lo, L) \cup EntityIn(r, L)
  BY <1>1, <1>2, OneMoreRecord
<1>5. FreeIn(r, lo, L + 1)
  <2>1. ASSUME NEW o \in (lo + 1)..(L + 1), PartsIn(r, o, L + 1) PROVE FALSE
    <3>1. o # L /\ o < L + 1
      BY <2>1 DEF PartsIn
    <3>2. PartsIn(r, o, L)
      BY <1>1, <2>1, <3>1 DEF PartsIn
    <3>3. QED BY <1>1, <1>2, <2>1, <3>1, <3>2 DEF FreeIn
  <2>2. QED BY <2>1 DEF FreeIn
<1>6. QED BY <1>1, <1>2, <1>3, <1>4, <1>5

\* The last record starts the parts of an entity.
LEMMA PartsBegin ==
  ASSUME NEW q \in Seq(TokenSet), NEW r \in Seq(TokenSet), Extended(q, r),
         Len(r) = Len(q) + 1, NEW lo \in Nat, lo < Len(q), FreeIn(q, lo, Len(q)),
         OpenerIn(r, Len(q)), NameIn(r, Len(r)) \in {"ATTRIB", "VERTEX"},
         NEW p, p # NoParent, p.at = Len(q), p.name = NameIn(q, Len(q)), p.parts = <<>>,
         NEW c, c.at = Len(r), c.name = NameIn(r, Len(r))
  PROVE  EntityAt(r, lo, c, p)
<1>1. Len(q) \in Nat /\ Len(r) = Len(q) + 1
  BY LenProperties
<1>2. FreeIn(r, lo, Len(q))
  BY <1>1, EntitiesStay
<1>3. p.parts = PartList(p.at, Len(r))
  BY <1>1 DEF PartList
<1>4. p.name = NameIn(r, p.at)
  BY <1>1 DEF Extended
<1>5. QED BY <1>1, <1>2, <1>3, <1>4 DEF EntityAt, Here

\* One part is read and the next one, or SEQEND, starts.
WithPart(p, at, p2) == /\ p2 # NoParent /\ p2.at = p.at /\ p2.name = p.name
                       /\ p2.parts = Append(p.parts, at)
LastOf(q, c) == c.at = Len(q) /\ c.name = NameIn(q, Len(q))

LEMMA PartFollows ==
  ASSUME NEW q \in Seq(TokenSet), NEW r \in Seq(TokenSet), Extended(q, r),
         Len(r) = Len(q) + 1, NEW lo \in Nat, NEW c, NEW p, p # NoParent, p.at \in Nat,
         EntityAt(q, lo, c, p), c.name # "SEQEND",
         NameIn(r, Len(r)) \in {"ATTRIB", "VERTEX", "SEQEND"},
         NEW p2, WithPart(p, c.at, p2), NEW c2, LastOf(r, c2)
  PROVE  EntityAt(r, lo, c2, p2) /\ EntitiesIn(r, lo, p2.at) = EntitiesIn(q, lo, p.at)
<1> DEFINE L == Len(q)
           a == p.at
<1>1. /\ L \in Nat /\ a \in Nat /\ lo < a /\ a < L /\ FreeIn(q, lo, a) /\ OpenerIn(q, a)
      /\ c.at = L /\ c.name = NameIn(q, L) /\ p.parts = PartList(a, L)
      /\ p.name = NameIn(q, a)
      /\ \A k \in (a + 1)..L : NameIn(q, k) \in {"ATTRIB", "VERTEX", "SEQEND"}
      /\ \A k \in (a + 1)..(L - 1) : NameIn(q, k) # "SEQEND"
  BY LenProperties DEF EntityAt, Here
<1>0. /\ p2 # NoParent /\ p2.at = p.at /\ p2.name = p.name
      /\ p2.parts = Append(p.parts, c.at)
      /\ c2.at = Len(r) /\ c2.name = NameIn(r, Len(r))
  BY DEF WithPart, LastOf
<1>2. \A k \in 1..L : NameIn(r, k) = NameIn(q, k)
  BY DEF Extended
<1>3. FreeIn(r, lo, a) /\ EntitiesIn(r, lo, a) = EntitiesIn(q, lo, a)
  BY <1>1, EntitiesStay
<1>4. OpenerIn(r, a)
  BY <1>1, PartsAgree
<1>5. Append(PartList(a, L), L) = PartList(a, L + 1)
  BY <1>1, LongerPartList
<1>6. \A k \in (a + 1)..(L + 1) : NameIn(r, k) \in {"ATTRIB", "VERTEX", "SEQEND"}
  BY <1>1, <1>2
<1>7. \A k \in (a + 1)..(L + 1 - 1) : NameIn(r, k) # "SEQEND"
  BY <1>1, <1>2
<1>8. p2.name = NameIn(r, a)
  BY <1>0, <1>1, <1>2
<1>9. p2.parts = PartList(a, L + 1)
  BY <1>0, <1>1, <1>5
<1>10. QED BY <1>0, <1>1, <1>3, <1>4, <1>6, <1>7, <1>8, <1>9 DEF EntityAt, Here

\* An entity is not due while its parts are read.
LEMMA PartsAreHeld ==
  ASSUME NEW q \in Seq(TokenSet), NEW lo \in Nat, NEW c, NEW p, p # NoParent,
         p.at \in Nat, EntityAt(q, lo, c, p)
  PROVE  EntitiesIn(q, lo, Len(q)) = EntitiesIn(q, lo, p.at)
<1> DEFINE L == Len(q)
           a == p.at
<1>1. /\ L \in Nat /\ a \in Nat /\ lo < a /\ a < L /\ OpenerIn(q, a)
      /\ \A k \in (a + 1)..(L - 1) : NameIn(q, k) # "SEQEND"
  BY LenProperties DEF EntityAt, Here
<1>2. NameIn(q, a) # "SEQEND"
  BY <1>1 DEF OpenerIn
<1>3. EntityIn(q, a) = {}
  BY <1>1 DEF EntityIn, PartsEndIn
<1>4. ASSUME NEW i \in (a + 1)..(L - 1) PROVE ~FreeIn(q, lo, i)
  <2>1. PartsIn(q, a, i)
    BY <1>1, <1>2 DEF PartsIn
  <2>2. a \in (lo + 1)..i
    BY <1>1
  <2>3. QED BY <2>1, <2>2 DEF FreeIn
<1>5. ASSUME NEW i \in (lo + 1)..(L - 1), FreeIn(q, lo, i), EntityIn(q, i) # {}
      PROVE  i \in (lo + 1)..(a - 1)
  BY <1>1, <1>3, <1>4, <1>5
<1>6. (lo + 1)..(a - 1) \subseteq (lo + 1)..(L - 1)
  BY <1>1
<1> HIDE DEF a, L
<1>7. EntitiesIn(q, lo, L) = EntitiesIn(q, lo, a)
  BY <1>5, <1>6 DEF EntitiesIn
<1>8. QED BY <1>7 DEF a, L

\* SEQEND was read: the entity is due with the parts between the two.
LEMMA PartsEnd ==
  ASSUME NEW q \in Seq(TokenSet), NEW r \in Seq(TokenSet), Extended(q, r),
         Len(r) = Len(q) + 1, NEW lo \in Nat, NEW c, NEW p, p # NoParent, p.at \in Nat,
         EntityAt(q, lo, c, p), c.name = "SEQEND"
  PROVE  /\ FreeIn(r, lo, Len(r))
         /\ EntitiesIn(r, lo, Len(r)) =
              EntitiesIn(q, lo, p.at) \cup {Shape("add", p.at, p.parts)}
<1> DEFINE L == Len(q)
           a == p.at
<1>1. /\ L \in Nat /\ a \in Nat /\ lo < a /\ a < L /\ FreeIn(q, lo, a) /\ OpenerIn(q, a)
      /\ NameIn(q, L) = "SEQEND" /\ p.parts = PartList(a, L)
      /\ \A k \in (a + 1)..L : NameIn(q, k) \in {"ATTRIB", "VERTEX", "SEQEND"}
      /\ \A k \in (a + 1)..(L - 1) : NameIn(q, k) # "SEQEND"
  BY LenProperties DEF EntityAt, Here
<1>2. \A k \in 1..L : NameIn(r, k) = NameIn(q, k)
  BY DEF Extended
<1>3. FreeIn(r, lo, a) /\ EntitiesIn(r, lo, a) = EntitiesIn(q, lo, a)
  BY <1>1, EntitiesStay
<1>4. OpenerIn(r, a) /\ NameIn(r, a) # "SEQEND"
  BY <1>1, PartsAgree DEF OpenerIn
<1>5. \A k \in a..(L - 1) : NameIn(r, k) # "SEQEND"
  BY <1>1, <1>2, <1>4
<1>6. PartsEndIn(r, a) = {L}
  <2>1. L \in PartsEndIn(r, a)
    BY <1>1, <1>2, <1>4, <1>5 DEF PartsEndIn, PartsIn
  <2>2. ASSUME NEW e \in PartsEndIn(r, a) PROVE e = L
    BY <1>1, <1>5, <2>2 DEF PartsEndIn
  <2>3. QED BY <2>1, <2>2
<1>7. EntityIn(r, a) = {Shape("add", a, p.parts)}
  BY <1>1, <1>4, <1>6 DEF EntityIn
<1>8. EntitiesIn(r, lo, a + 1) = EntitiesIn(q, lo, a) \cup {Shape("add", a, p.parts)}
  BY <1>1, <1>3, <1>7, OneMoreRecord
<1>9. ASSUME NEW i \in (a + 1)..L PROVE ~FreeIn(r, lo, i)
  <2>1. PartsIn(r, a, i)
    BY <1>1, <1>4, <1>5 DEF PartsIn
  <2>2. a \in (lo + 1)..i
    BY <1>1
  <2>3. QED BY <2>1, <2>2 DEF FreeIn
<1>10. /\ \A i \in (lo + 1)..L : FreeIn(r, lo, i) => i \in (lo + 1)..a
       /\ (lo + 1)..a \subseteq (lo + 1)..L
  BY <1>1, <1>9
<1>11. EntitiesIn(r, lo, L + 1) = EntitiesIn(r, lo, a + 1)
  <2>1. (lo + 1)..(L + 1 - 1) = (lo + 1)..L /\ (lo + 1)..(a + 1 - 1) = (lo + 1)..a
    BY <1>1
  <2>2. {k \in (lo + 1)..(L + 1 - 1) : FreeIn(r, lo, k)}
          = {k \in (lo + 1)..(a + 1 - 1) : FreeIn(r, lo, k)}
    BY <1>10, <2>1
  <2>3. QED BY <2>2 DEF EntitiesIn
<1>12. FreeIn(r, lo, L + 1)
  <2>1. ASSUME NEW o \in (lo + 1)..(L + 1), PartsIn(r, o, L + 1) PROVE FALSE
    <3>1. o < L + 1 /\ OpenerIn(r, o) /\ \A k \in o..L : NameIn(r, k) # "SEQEND"
      BY <1>1, <2>1 DEF PartsIn
    <3>2. NameIn(r, L) = "SEQEND" /\ L \in o..L
      BY <1>1, <1>2, <3>1
    <3>3. QED BY <3>1, <3>2
  <2>2. QED BY <2>1 DEF FreeIn
<1>13. QED BY <1>1, <1>8, <1>11, <1>12

---------------------------------------------------------------------------
(* Blocks and tables as the records make them.                               *)

LEMMA StagedStay ==
  ASSUME NEW q \in Seq(TokenSet), NEW r \in Seq(TokenSet), Extended(q, r),
         NEW lo \in Nat, NEW c \in Nat, c <= Len(q), FreeIn(q, lo, c)
  PROVE  StagedIn(r, lo, c) = StagedIn(q, lo, c)
<1>1. EntitiesIn(r, lo, c) = EntitiesIn(q, lo, c)
  BY EntitiesStay
<1>2. ASSUME NEW e \in EntitiesIn(q, lo, c) PROVE NameIn(r, e.at) = NameIn(q, e.at)
  <2>1. e.at \in (lo + 1)..(c - 1)
    BY EntitiesAreBetween
  <2>2. e.at \in 1..Len(q)
    BY <2>1, LenProperties
  <2>3. QED BY <2>2 DEF Extended
<1>3. QED BY <1>1, <1>2 DEF StagedIn

\* One more entity of a block: its sink takes it or drops it.
LEMMA StagedGrows ==
  ASSUME NEW q \in Seq(TokenSet), NEW r \in Seq(TokenSet), Extended(q, r),
         NEW lo \in Nat, NEW c \in Nat, c <= Len(q),
         NEW d \in Nat, NEW e, e.at \in 1..Len(q),
         EntitiesIn(r, lo, d) = EntitiesIn(q, lo, c) \cup {e}
  PROVE  StagedIn(r, lo, d) =
           StagedIn(q, lo, c) \cup (IF NameIn(q, e.at) \in Unstaged THEN {} ELSE {e})
<1>1. ASSUME NEW x \in EntitiesIn(q, lo, c) PROVE NameIn(r, x.at) = NameIn(q, x.at)
  <2>1. x.at \in (lo + 1)..(c - 1)
    BY EntitiesAreBetween
  <2>2. x.at \in 1..Len(q)
    BY <2>1, LenProperties
  <2>3. QED BY <2>2 DEF Extended
<1>2. NameIn(r, e.at) = NameIn(q, e.at)
  BY DEF Extended
<1>3. QED BY <1>1, <1>2 DEF StagedIn

\* The blocks that start before record b and have a name.
BlocksIn(q, b) ==
  UNION {BlockIn(q, a) : a \in {i \in 2..(b - 1) : BeginsIn(q, i) /\ q[i].complete}}

LEMMA BeginsAgree ==
  ASSUME NEW q \in Seq(TokenSet), NEW r \in Seq(TokenSet), Extended(q, r),
         OfIn(r) = OfIn(q), NEW a \in 2..Len(q)
  PROVE  BeginsIn(r, a) <=> BeginsIn(q, a)
<1>1. a \in 1..Len(q) /\ a - 1 \in 1..Len(q)
  BY LenProperties
<1>2. NameIn(r, a) = NameIn(q, a) /\ NameIn(r, a - 1) = NameIn(q, a - 1)
  BY <1>1 DEF Extended
<1>3. QED BY <1>2 DEF BeginsIn

LEMMA FooterAgrees ==
  ASSUME NEW q \in Seq(TokenSet), NEW r \in Seq(TokenSet), Extended(q, r),
         NEW a \in Nat, a > 0, NEW e \in Nat, e <= Len(q)
  PROVE  IsFooterIn(r, a, e) <=> IsFooterIn(q, a, e)
<1>1. Len(q) \in Nat
  BY LenProperties
<1>2. a < e => NameIn(r, e) = NameIn(q, e)
               /\ \A k \in a..(e - 1) : NameIn(r, k) = NameIn(q, k)
  BY <1>1 DEF Extended
<1>3. QED BY <1>2 DEF IsFooterIn

\* A block that has ended asks for the same as before.
LEMMA BlockStays ==
  ASSUME NEW q \in Seq(TokenSet), NEW r \in Seq(TokenSet), Extended(q, r),
         NEW a \in Nat, a > 0, NEW e \in (a + 1)..(Len(q) - 1),
         IsFooterIn(q, a, e), FreeIn(q, a, e)
  PROVE  /\ IsFooterIn(r, a, e) /\ FreeIn(r, a, e) /\ e \in (a + 1)..(Len(r) - 1)
         /\ BlockIn(r, a) = BlockIn(q, a)
<1>1. /\ Len(q) \in Nat /\ Len(r) \in Nat /\ Len(q) <= Len(r)
      /\ e \in Nat /\ e <= Len(q) /\ e \in (a + 1)..(Len(r) - 1)
  BY LenProperties DEF Extended
<1>2. IsFooterIn(r, a, e)
  BY <1>1, FooterAgrees
<1>3. FreeIn(r, a, e) /\ StagedIn(r, a, e) = StagedIn(q, a, e)
  BY <1>1, EntitiesStay, StagedStay
<1>4. \A f \in Int : IsFooterIn(q, a, f) => f = e
  BY <1>1 DEF IsFooterIn
<1>5. \A f \in Int : IsFooterIn(r, a, f) => f = e
  BY <1>1, <1>2 DEF IsFooterIn
<1>6. /\ {f \in a..(Len(q) - 1) : IsFooterIn(q, a, f)} = {e}
      /\ {f \in a..(Len(r) - 1) : IsFooterIn(r, a, f)} = {e}
  BY <1>1, <1>2, <1>4, <1>5
<1>7. BlockIn(r, a) = BlockIn(q, a)
  BY <1>3, <1>6 DEF BlockIn
<1>8. QED BY <1>1, <1>2, <1>3, <1>7

LEMMA EndedBlocksStay ==
  ASSUME NEW q \in Seq(TokenSet), NEW r \in Seq(TokenSet), Extended(q, r),
         OfIn(r) = OfIn(q), NEW b \in Nat, b <= Len(q), EndedBefore(q, b),
         \A a \in 2..(b - 1) : r[a].complete = q[a].complete
  PROVE  EndedBefore(r, b) /\ BlocksIn(r, b) = BlocksIn(q, b)
<1>1. Len(q) \in Nat
  BY LenProperties
<1>2. ASSUME NEW a \in 2..(b - 1)
      PROVE  /\ BeginsIn(r, a) <=> BeginsIn(q, a)
             /\ BeginsIn(q, a) =>
                  /\ BlockIn(r, a) = BlockIn(q, a)
                  /\ \E e \in (a + 1)..(Len(r) - 1) : IsFooterIn(r, a, e) /\ FreeIn(r, a, e)
  <2>1. a \in 2..Len(q) /\ a \in Nat /\ a > 0
    BY <1>1
  <2>2. BeginsIn(r, a) <=> BeginsIn(q, a)
    BY <2>1, BeginsAgree
  <2>3. CASE BeginsIn(q, a)
    <3>1. PICK e \in (a + 1)..(Len(q) - 1) : IsFooterIn(q, a, e) /\ FreeIn(q, a, e)
      BY <2>3 DEF EndedBefore
    <3>2. QED BY <2>1, <2>2, <3>1, BlockStays
  <2>4. QED BY <2>2, <2>3
<1>3. EndedBefore(r, b)
  BY <1>2 DEF EndedBefore
<1>4. {i \in 2..(b - 1) : BeginsIn(r, i) /\ r[i].complete}
      = {i \in 2..(b - 1) : BeginsIn(q, i) /\ q[i].complete}
  BY <1>2
<1>5. \A a \in {i \in 2..(b - 1) : BeginsIn(q, i) /\ q[i].complete} :
        BlockIn(r, a) = BlockIn(q, a)
  BY <1>2
<1>6. QED BY <1>3, <1>4, <1>5 DEF BlocksIn

\* The block that starts at b is the last one up to record hi.
LEMMA LastBlock ==
  ASSUME NEW q \in Seq(TokenSet), NEW b \in Nat, b >= 2, NEW hi \in Nat, b < hi,
         BeginsIn(q, b), \A k \in b..(hi - 2) : NameIn(q, k) # "ENDBLK"
  PROVE  BlocksIn(q, hi) =
           BlocksIn(q, b) \cup (IF q[b].complete THEN BlockIn(q, b) ELSE {})
<1>1. ASSUME NEW i \in (b + 1)..(hi - 1) PROVE ~BeginsIn(q, i)
  BY DEF BeginsIn
<1>2. {i \in 2..(hi - 1) : BeginsIn(q, i) /\ q[i].complete}
      = {i \in 2..(b - 1) : BeginsIn(q, i) /\ q[i].complete}
          \cup (IF q[b].complete THEN {b} ELSE {})
  BY <1>1
<1>3. QED BY <1>2 DEF BlocksIn

\* An open block asks for addBlock() alone, an ended one for everything.
LEMMA OpenBlockIn ==
  ASSUME NEW q \in Seq(TokenSet), NEW b \in Nat,
         \A k \in b..(Len(q) - 1) : NameIn(q, k) # "ENDBLK"
  PROVE  BlockIn(q, b) = {Shape("addBlock", b, <<>>)}
BY DEF BlockIn, IsFooterIn

LEMMA EndedBlockIn ==
  ASSUME NEW q \in Seq(TokenSet), NEW b \in Nat, NEW e \in Nat, e < Len(q), b < e,
         IsFooterIn(q, b, e)
  PROVE  BlockIn(q, b) = {Shape("addBlock", b, <<>>), Shape("endBlock", e, <<>>)}
                           \cup StagedIn(q, b, e)
<1>1. Len(q) \in Nat
  BY LenProperties
<1>2. \A f \in Int : IsFooterIn(q, b, f) => f = e
  BY DEF IsFooterIn
<1>3. {f \in b..(Len(q) - 1) : IsFooterIn(q, b, f)} = {e}
  BY <1>1, <1>2
<1>4. QED BY <1>3 DEF BlockIn

LEMMA RowsOfMore ==
  ASSUME NEW q \in Seq(TokenSet), NEW k \in TokenSet, NEW t, NEW i \in 1..(Len(q) + 1)
  PROVE  IsRowIn(Append(q, k), i, t) <=>
           \/ IsRowIn(q, i, t)
           \/ /\ k.name = "ENDTAB" /\ i <= Len(q)
              /\ \E o \in 1..(i - 1) : RunIn(q, o, Len(q), t)
<1> DEFINE r == Append(q, k)
           L == Len(q)
<1>1. /\ L \in Nat /\ Len(r) = L + 1 /\ r \in Seq(TokenSet) /\ NameIn(r, L + 1) = k.name
      /\ \A j \in 1..L : NameIn(r, j) = NameIn(q, j) /\ r[j] = q[j]
  BY NamesOfAppend, LenProperties
<1> HIDE DEF r
<1>2. ASSUME NEW o \in 1..L, NEW j \in 0..L
      PROVE  RunIn(r, o, j, t) <=> RunIn(q, o, j, t)
  <2>1. NameIn(r, o) = NameIn(q, o) /\ r[o] = q[o]
    BY <1>1
  <2>2. \A x \in (o + 1)..j : NameIn(r, x) = NameIn(q, x)
    BY <1>1
  <2>3. QED BY <2>1, <2>2 DEF RunIn
<1>3. ASSUME IsRowIn(r, i, t)
      PROVE  \/ IsRowIn(q, i, t)
             \/ /\ k.name = "ENDTAB" /\ i <= L
                /\ \E o \in 1..(i - 1) : RunIn(q, o, L, t)
  <2>1. PICK o \in 1..(i - 1), e \in (i + 1)..(L + 1) :
          NameIn(r, e) = "ENDTAB" /\ RunIn(r, o, e - 1, t)
    BY <1>1, <1>3 DEF IsRowIn
  <2>2. o \in 1..L /\ e - 1 \in 0..L /\ i <= L
    BY <1>1, <2>1
  <2>3. RunIn(q, o, e - 1, t)
    BY <1>2, <2>1, <2>2
  <2>4. CASE e = L + 1
    <3>1. e - 1 = L
      BY <1>1, <2>4
    <3>2. QED BY <1>1, <2>1, <2>2, <2>3, <2>4, <3>1
  <2>5. CASE e # L + 1
    <3>1. e \in (i + 1)..L /\ e \in 1..L
      BY <1>1, <2>1, <2>5
    <3>2. NameIn(q, e) = "ENDTAB"
      BY <1>1, <2>1, <3>1
    <3>3. QED BY <2>1, <2>3, <3>1, <3>2 DEF IsRowIn
  <2>6. QED BY <2>4, <2>5
<1>4. ASSUME IsRowIn(q, i, t) PROVE IsRowIn(r, i, t)
  <2>1. PICK o \in 1..(i - 1), e \in (i + 1)..L :
          NameIn(q, e) = "ENDTAB" /\ RunIn(q, o, e - 1, t)
    BY <1>4 DEF IsRowIn
  <2>2. o \in 1..L /\ e - 1 \in 0..L /\ e \in 1..L /\ e \in (i + 1)..(L + 1)
    BY <1>1, <2>1
  <2>3. RunIn(r, o, e - 1, t) /\ NameIn(r, e) = "ENDTAB"
    BY <1>1, <1>2, <2>1, <2>2
  <2>4. QED BY <1>1, <2>1, <2>2, <2>3 DEF IsRowIn
<1>5. ASSUME k.name = "ENDTAB", i <= L, NEW o \in 1..(i - 1), RunIn(q, o, L, t)
      PROVE  IsRowIn(r, i, t)
  <2>1. o \in 1..L /\ L \in 0..L /\ L + 1 \in (i + 1)..(L + 1) /\ L + 1 - 1 = L
    BY <1>1, <1>5
  <2>2. RunIn(r, o, L + 1 - 1, t)
    BY <1>2, <1>5, <2>1
  <2>3. QED BY <1>1, <1>5, <2>1, <2>2 DEF IsRowIn
<1>6. QED BY <1>3, <1>4, <1>5 DEF r

\* Only ENDTAB makes rows due, and only when a row was read last.
LEMMA RowsStay ==
  ASSUME NEW q \in Seq(TokenSet), NEW k \in TokenSet, NEW t, NEW m,
         k.name # "ENDTAB" \/ NameIn(q, Len(q)) # t
  PROVE  RowsIn(Append(q, k), m, t) = RowsIn(q, m, t)
<1> DEFINE r == Append(q, k)
<1>1. /\ Len(q) \in Nat /\ DOMAIN r = 1..(Len(q) + 1) /\ DOMAIN q = 1..Len(q)
  BY LenProperties
<1>2. ASSUME NEW i \in 1..(Len(q) + 1), IsRowIn(r, i, t) PROVE IsRowIn(q, i, t)
  <2>1. \A o \in 1..(i - 1) : i <= Len(q) /\ RunIn(q, o, Len(q), t) =>
                                NameIn(q, Len(q)) = t
    BY <1>1 DEF RunIn
  <2>2. QED BY <1>2, <2>1, RowsOfMore
<1>3. \A i \in 1..(Len(q) + 1) : IsRowIn(q, i, t) => IsRowIn(r, i, t)
  BY RowsOfMore
<1>4. ~IsRowIn(q, Len(q) + 1, t)
  BY <1>1 DEF IsRowIn
<1>5. {i \in 1..(Len(q) + 1) : IsRowIn(r, i, t)} = {i \in 1..Len(q) : IsRowIn(q, i, t)}
  BY <1>1, <1>2, <1>3, <1>4
<1>6. QED BY <1>1, <1>5 DEF RowsIn

LEMMA RowsAreDue ==
  ASSUME NEW q \in Seq(TokenSet), NEW k \in TokenSet, NEW t, t # "TABLE", NEW m,
         k.name = "ENDTAB", NEW o \in 1..Len(q), RunIn(q, o, Len(q), t)
  PROVE  RowsIn(Append(q, k), m, t) =
           RowsIn(q, m, t) \cup {Shape(m, i, <<>>) : i \in (o + 1)..Len(q)}
<1> DEFINE r == Append(q, k)
           L == Len(q)
<1>1. L \in Nat /\ DOMAIN r = 1..(L + 1) /\ DOMAIN q = 1..L
  BY LenProperties
<1>2. ASSUME NEW a \in 1..L, RunIn(q, a, L, t) PROVE a = o
  <2>1. NameIn(q, a) = "TABLE" /\ NameIn(q, o) = "TABLE"
    BY <1>2 DEF RunIn
  <2>2. ~(a \in (o + 1)..L) /\ ~(o \in (a + 1)..L)
    BY <1>2, <2>1 DEF RunIn
  <2>3. QED BY <1>1, <2>2
<1>3. ASSUME NEW i \in 1..(L + 1)
      PROVE  IsRowIn(r, i, t) <=> IsRowIn(q, i, t) \/ i \in (o + 1)..L
  <2>1. (\E a \in 1..(i - 1) : RunIn(q, a, L, t)) /\ i <= L => i \in (o + 1)..L
    BY <1>1, <1>2
  <2>2. i \in (o + 1)..L => i <= L /\ o \in 1..(i - 1)
    BY <1>1
  <2>3. QED BY <2>1, <2>2, RowsOfMore
<1>4. ~IsRowIn(q, L + 1, t)
  BY <1>1 DEF IsRowIn
<1>5. {i \in 1..(L + 1) : IsRowIn(r, i, t)} = {i \in 1..L : IsRowIn(q, i, t)} \cup (o + 1)..L
  BY <1>1, <1>3, <1>4
<1>6. QED BY <1>1, <1>5 DEF RowsIn

---------------------------------------------------------------------------
(* Callbacks in the order of the file.                                       *)

LEMMA ShapesAppend ==
  ASSUME NEW c \in Seq(Calls), NEW x \in Calls
  PROVE  ShapesOf(Append(c, x)) =
           ShapesOf(c) \cup (IF x.at = 0 THEN {} ELSE {ShapeOf(x)})
<1>1. /\ DOMAIN Append(c, x) = DOMAIN c \cup {Len(c) + 1}
      /\ Append(c, x)[Len(c) + 1] = x
      /\ \A i \in DOMAIN c : Append(c, x)[i] = c[i]
  OBVIOUS
<1> DEFINE d == Append(c, x)
<1> HIDE DEF d
<1>2. {k \in DOMAIN d : d[k].at # 0} =
        {k \in DOMAIN c : c[k].at # 0} \cup (IF x.at = 0 THEN {} ELSE {Len(c) + 1})
  BY <1>1 DEF d
<1>3. ASSUME NEW e \in ShapesOf(d)
      PROVE  e \in ShapesOf(c) \cup (IF x.at = 0 THEN {} ELSE {ShapeOf(x)})
  BY <1>1, <1>2 DEF ShapesOf, d
<1>4. ASSUME NEW e \in ShapesOf(c) PROVE e \in ShapesOf(d)
  BY <1>1, <1>2 DEF ShapesOf, d
<1>5. x.at # 0 => ShapeOf(x) \in ShapesOf(d)
  BY <1>1, <1>2 DEF ShapesOf, d
<1>6. QED BY <1>3, <1>4, <1>5 DEF d

LEMMA ShapesConcat ==
  ASSUME NEW c \in Seq(Calls), NEW d \in Seq(Calls)
  PROVE  ShapesOf(c \o d) = ShapesOf(c) \cup ShapesOf(d)
<1>1. /\ DOMAIN (c \o d) = 1..(Len(c) + Len(d))
      /\ \A i \in 1..Len(c) : (c \o d)[i] = c[i]
      /\ \A i \in 1..Len(d) : (c \o d)[Len(c) + i] = d[i]
      /\ \A i \in (Len(c) + 1)..(Len(c) + Len(d)) : (c \o d)[i] = d[i - Len(c)]
      /\ DOMAIN c = 1..Len(c) /\ DOMAIN d = 1..Len(d)
      /\ Len(c) \in Nat /\ Len(d) \in Nat
  BY ConcatProperties, LenProperties
<1>2. ASSUME NEW e \in ShapesOf(c \o d) PROVE e \in ShapesOf(c) \cup ShapesOf(d)
  <2>1. PICK i \in DOMAIN (c \o d) : (c \o d)[i].at # 0 /\ e = ShapeOf((c \o d)[i])
    BY DEF ShapesOf
  <2>2. CASE i <= Len(c)
    BY <1>1, <2>1, <2>2 DEF ShapesOf
  <2>3. CASE i > Len(c)
    <3>1. i - Len(c) \in DOMAIN d /\ (c \o d)[i] = d[i - Len(c)]
      BY <1>1, <2>1, <2>3
    <3>2. QED BY <2>1, <3>1 DEF ShapesOf
  <2>4. QED BY <1>1, <2>1, <2>2, <2>3
<1>3. ShapesOf(c) \subseteq ShapesOf(c \o d)
  BY <1>1 DEF ShapesOf
<1>4. ASSUME NEW e \in ShapesOf(d) PROVE e \in ShapesOf(c \o d)
  <2>1. PICK i \in DOMAIN d : d[i].at # 0 /\ e = ShapeOf(d[i])
    BY DEF ShapesOf
  <2>2. Len(c) + i \in DOMAIN (c \o d) /\ (c \o d)[Len(c) + i] = d[i]
    BY <1>1, <2>1
  <2>3. QED BY <2>1, <2>2 DEF ShapesOf
<1>5. QED BY <1>2, <1>3, <1>4

LEMMA OrderAppend ==
  ASSUME NEW c \in Seq(Calls), NEW x \in Calls, InOrder(c),
         NEW lo \in Nat, NEW hi \in Nat, Within(c, lo, hi), hi <= x.at, lo < hi
  PROVE  InOrder(Append(c, x)) /\ Within(Append(c, x), lo, x.at + 1)
<1>1. /\ DOMAIN Append(c, x) = DOMAIN c \cup {Len(c) + 1}
      /\ Append(c, x)[Len(c) + 1] = x
      /\ \A i \in DOMAIN c : Append(c, x)[i] = c[i] /\ i <= Len(c) /\ c[i].at \in Nat
      /\ x.at \in Nat /\ DOMAIN c \subseteq Nat /\ Len(c) \in Nat
  <2>1. \A i \in DOMAIN c : c[i] \in Calls
    BY ElementOfSeq, LenProperties
  <2>2. /\ DOMAIN c = 1..Len(c) /\ Len(c) \in Nat
        /\ DOMAIN Append(c, x) = 1..(Len(c) + 1)
        /\ Append(c, x)[Len(c) + 1] = x
        /\ \A i \in 1..Len(c) : Append(c, x)[i] = c[i]
    BY AppendProperties, LenProperties
  <2>3. x.at \in Nat /\ \A i \in DOMAIN c : c[i].at \in Nat
    BY <2>1 DEF Calls
  <2>4. DOMAIN Append(c, x) = DOMAIN c \cup {Len(c) + 1}
    BY <2>2
  <2>5. QED BY <2>2, <2>3, <2>4
<1> DEFINE d == Append(c, x)
<1> HIDE DEF d
<1>2. \A i, j \in DOMAIN d : i < j /\ d[j].at # 0 => d[i].at < d[j].at
  BY <1>1 DEF d, InOrder, Within
<1>3. \A i \in DOMAIN d : lo < d[i].at /\ d[i].at < x.at + 1
  BY <1>1 DEF d, Within
<1>4. QED BY <1>2, <1>3 DEF d, InOrder, Within

LEMMA OrderConcat ==
  ASSUME NEW c \in Seq(Calls), NEW d \in Seq(Calls), InOrder(c), InOrder(d),
         NEW lo \in Nat, NEW mid \in Nat, NEW hi \in Nat, lo <= mid, mid < hi,
         Within(c, lo, mid + 1), Within(d, mid, hi)
  PROVE  InOrder(c \o d) /\ Within(c \o d, lo, hi)
<1>1. /\ DOMAIN (c \o d) = 1..(Len(c) + Len(d))
      /\ \A i \in 1..Len(c) : (c \o d)[i] = c[i]
      /\ \A i \in (Len(c) + 1)..(Len(c) + Len(d)) :
           (c \o d)[i] = d[i - Len(c)] /\ i - Len(c) \in 1..Len(d)
      /\ DOMAIN c = 1..Len(c) /\ DOMAIN d = 1..Len(d)
      /\ Len(c) \in Nat /\ Len(d) \in Nat
  BY ConcatProperties, LenProperties
<1>2. /\ \A i \in 1..Len(c) : c[i].at \in Nat /\ lo < c[i].at /\ c[i].at < mid + 1
      /\ \A i \in 1..Len(d) : d[i].at \in Nat /\ mid < d[i].at /\ d[i].at < hi
  <2>1. /\ \A i \in 1..Len(c) : c[i] \in Calls
        /\ \A i \in 1..Len(d) : d[i] \in Calls
    BY ElementOfSeq
  <2>2. QED BY <1>1, <2>1 DEF Calls, Within
<1>3. \A i \in 1..(Len(c) + Len(d)) :
        \/ i \in 1..Len(c)
        \/ i \in (Len(c) + 1)..(Len(c) + Len(d))
  BY <1>1
<1>4. Within(c \o d, lo, hi)
  <2>1. ASSUME NEW i \in 1..(Len(c) + Len(d)) PROVE lo < (c \o d)[i].at /\ (c \o d)[i].at < hi
    <3>1. CASE i \in 1..Len(c)
      BY <1>1, <1>2, <3>1
    <3>2. CASE i \in (Len(c) + 1)..(Len(c) + Len(d))
      BY <1>1, <1>2, <3>2
    <3>3. QED BY <1>3, <3>1, <3>2
  <2>2. QED BY <1>1, <2>1 DEF Within
<1>5. InOrder(c \o d)
  <2>1. ASSUME NEW i \in 1..(Len(c) + Len(d)), NEW j \in 1..(Len(c) + Len(d)), i < j
        PROVE  (c \o d)[i].at < (c \o d)[j].at
    <3>1. CASE i \in 1..Len(c) /\ j \in 1..Len(c)
      <4>1. c[j].at # 0
        BY <1>2, <3>1
      <4>2. QED BY <1>1, <2>1, <3>1, <4>1 DEF InOrder
    <3>2. CASE i \in 1..Len(c) /\ j \in (Len(c) + 1)..(Len(c) + Len(d))
      BY <1>1, <1>2, <3>2
    <3>3. CASE /\ i \in (Len(c) + 1)..(Len(c) + Len(d))
               /\ j \in (Len(c) + 1)..(Len(c) + Len(d))
      <4>1. i - Len(c) < j - Len(c) /\ d[j - Len(c)].at # 0
        BY <1>1, <1>2, <2>1, <3>3
      <4>2. QED BY <1>1, <2>1, <3>3, <4>1 DEF InOrder
    <3>4. CASE i \in (Len(c) + 1)..(Len(c) + Len(d)) /\ j \in 1..Len(c)
      BY <1>1, <2>1, <3>4
    <3>5. QED BY <1>3, <3>1, <3>2, <3>3, <3>4
  <2>2. QED BY <1>1, <2>1 DEF InOrder
<1>6. QED BY <1>4, <1>5

LEMMA WithinMore ==
  ASSUME NEW c \in Seq(Calls), NEW lo \in Nat, NEW hi \in Nat, NEW hi2 \in Nat, hi <= hi2,
         Within(c, lo, hi)
  PROVE  Within(c, lo, hi2)
<1>1. \A i \in DOMAIN c : c[i].at \in Nat
  <2>1. \A i \in DOMAIN c : c[i] \in Calls
    BY ElementOfSeq, LenProperties
  <2>2. QED BY <2>1 DEF Calls
<1>2. QED BY <1>1 DEF Within

LEMMA NothingHeard == /\ ShapesOf(<<>>) = {} /\ InOrder(<<>>)
                      /\ \A lo, hi : Within(<<>>, lo, hi)
BY DEF ShapesOf, InOrder, Within

---------------------------------------------------------------------------
(* What the invariant says in a section, and what one more record adds.      *)

LEMMA DueCases ==
  ASSUME NEW q
  PROVE  /\ OfIn(q) = "ENTITIES" => DueIn(q) = EntitiesIn(q, 1, Len(q))
         /\ OfIn(q) = "OBJECTS" => DueIn(q) = InsideIn(q)
         /\ OfIn(q) = "BLOCKS" => DueIn(q) = BlocksIn(q, Len(q))
         /\ OfIn(q) = "TABLES" => DueIn(q) = RowsIn(q, "add", "LAYER") \cup
                                    RowsIn(q, "addBlockRecord", "BLOCK_RECORD")
         /\ OfIn(q) = "CLASSES" /\ EndedIn(q) => DueIn(q) = InsideIn(q)
         /\ OfIn(q) = "other" /\ EndedIn(q) =>
              DueIn(q) = {Shape("addRawDxfSection", 1, PartList(1, Len(q)))}
         /\ OfIn(q) \in {"CLASSES", "other"} /\ ~EndedIn(q) => DueIn(q) = {}
         /\ OfIn(q) \in {"none", "unnamed"} => DueIn(q) = {}
<1>1. OfIn(q) = "ENTITIES" => DueIn(q) = EntitiesIn(q, 1, Len(q))
  BY DEF DueIn
<1>2. OfIn(q) = "OBJECTS" => DueIn(q) = InsideIn(q)
  BY DEF DueIn
<1>3. OfIn(q) = "BLOCKS" => DueIn(q) = BlocksIn(q, Len(q))
  BY DEF DueIn, BlocksIn, NamedBlocksIn
<1>4. OfIn(q) = "TABLES" => DueIn(q) = RowsIn(q, "add", "LAYER") \cup
                               RowsIn(q, "addBlockRecord", "BLOCK_RECORD")
  BY DEF DueIn
<1>5. OfIn(q) = "CLASSES" /\ EndedIn(q) => DueIn(q) = InsideIn(q)
  BY DEF DueIn
<1>6. OfIn(q) = "other" /\ EndedIn(q) =>
        DueIn(q) = {Shape("addRawDxfSection", 1, PartList(1, Len(q)))}
  BY DEF DueIn
<1>7. OfIn(q) \in {"CLASSES", "other"} /\ ~EndedIn(q) => DueIn(q) = {}
  BY DEF DueIn
<1>8. OfIn(q) \in {"none", "unnamed"} => DueIn(q) = {}
  BY DEF DueIn
<1>9. QED BY <1>1, <1>2, <1>3, <1>4, <1>5, <1>6, <1>7, <1>8

EventsInv == PlaceInv /\ WhereInv /\ DueInv

\* In a section a group of code 0 adds one record to those read.
InSection ==
  /\ result = "reading" /\ tokens \in Seq(TokenSet) /\ Len(tokens) \in Nat
  /\ Len(tokens) >= 1 /\ OfIn(tokens) = section /\ AtSection /\ ~EndedIn(tokens)
  /\ Heard(events, tokens)
Grows(n) ==
  /\ tokens' = Append(tokens, Token(n, "none"))
  /\ tokens' \in Seq(TokenSet) /\ Len(tokens') = Len(tokens) + 1
  /\ Extended(tokens, tokens') /\ OfIn(tokens') = section
  /\ \A i \in 1..Len(tokens) : tokens'[i] = tokens[i]
  /\ NameIn(tokens', Len(tokens')) = n
  /\ EndedIn(tokens') <=> n = "ENDSEC"

LEMMA NowInSection ==
  ASSUME TypeInv, EventsInv, result = "reading", section \notin {"none", "unnamed"}
  PROVE  InSection
<1>1. tokens \in Seq(TokenSet) /\ tokens # <<>> /\ OfIn(tokens) = section
  BY DEF TypeInv, ProcessorTypeOK, EventsInv, PlaceInv, OfIn, Of
<1>2. Len(tokens) \in Nat /\ Len(tokens) >= 1
  BY <1>1, LenProperties, EmptySeq
<1>3. AtSection /\ ~EndedIn(tokens) /\ Heard(events, tokens)
  BY DEF EventsInv, WhereInv, DueInv
<1>4. QED BY <1>1, <1>2, <1>3 DEF InSection

LEMMA TokenTyped ==
  /\ \A n \in Names : Token(n, "none") \in TokenSet
  /\ \A t \in Tables : Token("TABLE", t) \in TokenSet
BY DEF Token, TokenSet

LEMMA AppendGrows ==
  ASSUME InSection, NEW k \in TokenSet, tokens' = Append(tokens, k)
  PROVE  /\ tokens' \in Seq(TokenSet) /\ Len(tokens') = Len(tokens) + 1
         /\ Extended(tokens, tokens') /\ OfIn(tokens') = section
         /\ \A i \in 1..Len(tokens) : tokens'[i] = tokens[i]
         /\ NameIn(tokens', Len(tokens')) = k.name /\ tokens'[Len(tokens')] = k
         /\ EndedIn(tokens') <=> k.name = "ENDSEC"
<1>1. /\ tokens \in Seq(TokenSet) /\ Len(tokens) \in Nat /\ Len(tokens) >= 1
      /\ tokens # <<>>
  BY DEF InSection
<1>2. /\ tokens' \in Seq(TokenSet) /\ Len(tokens') = Len(tokens) + 1
      /\ \A i \in 1..Len(tokens) : /\ NameIn(tokens', i) = NameIn(tokens, i)
                                   /\ tokens'[i] = tokens[i]
      /\ NameIn(tokens', Len(tokens) + 1) = k.name /\ tokens'[Len(tokens) + 1] = k
  BY <1>1, NamesOfAppend
<1>3. Extended(tokens, tokens')
  BY <1>1, <1>2 DEF Extended
<1>4. OfIn(tokens') = section
  BY <1>1, <1>2 DEF OfIn, InSection
<1>5. QED BY <1>1, <1>2, <1>3, <1>4 DEF EndedIn

LEMMA ReadGrows ==
  ASSUME InSection, NEW n \in Names, Read(n)
  PROVE  Grows(n)
<1>1. tokens # <<>> /\ tokens[Len(tokens)].name # "ENDSEC"
  BY LenProperties DEF InSection, EndedIn, NameIn
<1>2. tokens' = Append(tokens, Token(n, "none"))
  BY <1>1 DEF Read, Follows
<1>3. Token(n, "none") \in TokenSet /\ Token(n, "none").name = n
  BY TokenTyped DEF Token
<1> HIDE DEF InSection
<1>4. QED BY <1>2, <1>3, AppendGrows DEF Grows

\* Outside a section, and when the read is over, the ghost does not change.
LEMMA StillHeard ==
  ASSUME DueInv, UNCHANGED <<events, tokens>>,
         result = "callbackThrew" => result' = "callbackThrew"
  PROVE  DueInv'
BY DEF DueInv

LEMMA NothingRead ==
  ASSUME TypeInv, EventsInv, result = "reading", section \in {"none", "unnamed"},
         NEW n, Read(n)
  PROVE  tokens' = tokens
<1>1. tokens = <<>> \/ EndedIn(tokens)
  BY DEF EventsInv, WhereInv
<1>2. EndedIn(tokens) => tokens = <<>> \/ tokens[Len(tokens)].name = "ENDSEC"
  BY DEF EndedIn, NameIn
<1>3. QED BY <1>1, <1>2 DEF Read, Follows

LEMMA NothingDue ==
  ASSUME NEW q, Len(q) = 1, DOMAIN q = 1..1, NameIn(q, 1) = "SECTION",
         OfIn(q) \in Sections
  PROVE  DueIn(q) = {}
<1>1. ~EndedIn(q)
  BY DEF EndedIn
<1>0. EntitiesIn(q, 1, 1) = {} /\ InsideIn(q) = {} /\ BlocksIn(q, 1) = {}
  <2>1. EntitiesIn(q, 1, 1) = {}
    BY DEF EntitiesIn
  <2>2. InsideIn(q) = {}
    BY DEF InsideIn
  <2>3. BlocksIn(q, 1) = {}
    <3>1. {i \in 2..(1 - 1) : BeginsIn(q, i) /\ q[i].complete} = {}
      OBVIOUS
    <3>2. QED BY <3>1 DEF BlocksIn
  <2>4. QED BY <2>1, <2>2, <2>3
<1>2. CASE OfIn(q) = "ENTITIES"
  BY <1>0, <1>2, DueCases
<1>3. CASE OfIn(q) = "OBJECTS"
  BY <1>0, <1>3, DueCases
<1>4. CASE OfIn(q) = "BLOCKS"
  BY <1>0, <1>4, DueCases
<1>5. CASE OfIn(q) = "TABLES"
  <2>1. \A t : \A i \in 1..1 : ~IsRowIn(q, i, t)
    BY DEF IsRowIn
  <2>2. \A m, t : RowsIn(q, m, t) = {}
    BY <2>1 DEF RowsIn
  <2>3. QED BY <1>5, <2>2, DueCases
<1>6. CASE OfIn(q) \in {"CLASSES", "other", "unnamed"}
  BY <1>1, <1>6, DueCases
<1>7. QED BY <1>2, <1>3, <1>4, <1>5, <1>6 DEF Sections

LEMMA EmptyHeard ==
  /\ Heard(<<>>, <<>>)
  /\ \A s \in Sections : Heard(<<>>, <<Token("SECTION", s)>>)
<1>1. OfIn(<<>>) = "none" /\ DueIn(<<>>) = {}
  BY DueCases DEF OfIn
<1>2. ASSUME NEW s \in Sections
      PROVE  DueIn(<<Token("SECTION", s)>>) = {}
  <2>1. /\ Len(<<Token("SECTION", s)>>) = 1
        /\ OfIn(<<Token("SECTION", s)>>) = s /\ DOMAIN <<Token("SECTION", s)>> = 1..1
        /\ NameIn(<<Token("SECTION", s)>>, 1) = "SECTION"
    BY DEF OfIn, NameIn, Token
  <2>2. QED BY <2>1, NothingDue
<1>3. QED BY <1>1, <1>2, NothingHeard DEF Heard

---------------------------------------------------------------------------
(* Sections and tables.                                                      *)

LEMMA NothingListed ==
  ASSUME NEW lo \in Nat, NEW m
  PROVE  Listed(<<>>, m, lo, lo) /\ Listed(<<>>, m, lo, lo + 1)
<1>1. /\ {Shape(m, i, <<>>) : i \in (lo + 1)..(lo - 1)} = {}
      /\ {Shape(m, i, <<>>) : i \in (lo + 1)..(lo + 1 - 1)} = {}
  <2>1. (lo + 1)..(lo - 1) = {} /\ (lo + 1)..(lo + 1 - 1) = {}
    OBVIOUS
  <2>2. QED BY <2>1
<1>2. QED BY <1>1, NothingHeard DEF Listed

LEMMA SectionBegins ==
  ASSUME TypeInv, EventsInv, NEW s \in Sections, BeginSection(s)
  PROVE  (WhereInv /\ DueInv)'
<1>1. /\ result' = "reading" /\ section' = s /\ events' = <<>> /\ staged' = <<>>
      /\ record' = NoRecord /\ parent' = NoParent
      /\ block.stage = "none" /\ block' = block /\ table = "none" /\ table' = table
      /\ s = "BLOCKS" => pending' = "none"
      /\ tokens' = IF s = "unnamed" THEN <<>> ELSE <<Token("SECTION", s)>>
  BY DEF BeginSection, Outside, EventsInv, PlaceInv
<1>2. Heard(events', tokens')
  BY <1>1, EmptyHeard
<1>3. DueInv'
  BY <1>2 DEF DueInv
<1>4. CASE s = "unnamed"
  BY <1>1, <1>3, <1>4 DEF WhereInv
<1>5. CASE s # "unnamed"
  <2>1. Len(tokens') = 1 /\ NameIn(tokens', 1) = "SECTION"
    BY <1>1, <1>5 DEF NameIn, Token
  <2>2. ~EndedIn(tokens)'
    BY <2>1 DEF EndedIn
  <2>3. AtEntities'
    BY <1>1, <2>1, NothingHeard DEF AtEntities
  <2>4. AtObjects'
    BY <1>1, <2>1, NothingHeard DEF AtObjects
  <2>5. s = "BLOCKS" => AtBlocks'
    BY <1>1, <2>1 DEF AtBlocks
  <2>6. AtTables'
    BY <1>1, <2>1, NothingHeard DEF AtTables, BetweenRows, NoRun
  <2>7. AtClasses'
    <3>2. Listed(<<>>, "add", 1, 1)
      BY NothingListed
    <3>3. QED BY <1>1, <2>1, <3>2 DEF AtClasses
  <2>8. AtKept'
    <3>1. PartList(1, 2) = <<>>
      BY DEF PartList
    <3>2. QED BY <1>1, <2>1, <3>1 DEF AtKept, NoParent
  <2>9. AtSection'
    BY <1>1, <2>3, <2>4, <2>5, <2>6, <2>7, <2>8 DEF AtSection
  <2>10. QED BY <1>1, <1>3, <1>5, <2>2, <2>9 DEF WhereInv, Sections
<1>6. QED BY <1>3, <1>4, <1>5

LEMMA OutsideStays ==
  ASSUME TypeInv, EventsInv, section \in {"none", "unnamed"}, result = "reading",
         \/ \E v \in BOOLEAN : ReadHeader(v)
         \/ \E n \in Names : SkipRecord(n)
         \/ EndEmptySection \/ EndOfFile
  PROVE  (WhereInv /\ DueInv)'
<1>0. DueInv /\ WhereInv /\ table = "none"
  BY DEF EventsInv, PlaceInv
<1>1. CASE \E v \in BOOLEAN : ReadHeader(v)
  BY <1>1, EmptyHeard DEF ReadHeader, WhereInv, DueInv
<1>2. CASE \E n \in Names : SkipRecord(n)
  <2>1. tokens' = tokens
    BY <1>2, NothingRead DEF SkipRecord
  <2>2. UNCHANGED <<result, section, events>>
    BY <1>2 DEF SkipRecord, processor
  <2>3. QED BY <1>0, <2>1, <2>2 DEF WhereInv, DueInv
<1>3. CASE EndEmptySection
  <2>1. tokens' = tokens
    BY <1>3, NothingRead DEF EndEmptySection
  <2>2. UNCHANGED <<result, events>> /\ section' = "none"
    BY <1>3 DEF EndEmptySection
  <2>3. QED BY <1>0, <2>1, <2>2 DEF WhereInv, DueInv
<1>4. CASE EndOfFile
  BY <1>0, <1>4, StillHeard DEF EndOfFile, WhereInv
<1>5. QED BY <1>1, <1>2, <1>3, <1>4

\* The rows that are due and the rows that were delivered.
LEMMA TablesHeard ==
  ASSUME InSection, section = "TABLES", NEW k \in TokenSet, tokens' = Append(tokens, k),
         k.name = "ENDTAB" => NameIn(tokens, Len(tokens)) \notin {"LAYER", "BLOCK_RECORD"},
         events' = events
  PROVE  Heard(events', tokens')
<1>1. /\ tokens \in Seq(TokenSet) /\ OfIn(tokens) = "TABLES" /\ OfIn(tokens') = "TABLES"
      /\ Heard(events, tokens)
  BY AppendGrows DEF InSection
<1>2. \A m : \A t \in {"LAYER", "BLOCK_RECORD"} : RowsIn(tokens', m, t) = RowsIn(tokens, m, t)
  BY <1>1, RowsStay
<1>3. DueIn(tokens') = DueIn(tokens)
  BY <1>1, <1>2, DueCases
<1>4. QED BY <1>1, <1>3 DEF Heard

LEMMA WithinLonger ==
  ASSUME TypeInv, InSection, NEW k \in Nat, Within(events, 0, k), NEW j \in Nat, k <= j
  PROVE  Within(events, 0, j)
BY WithinMore DEF TypeInv, CallbackTypeOK

LEMMA BetweenTablesStays ==
  ASSUME TypeInv, InSection, section = "TABLES", BetweenRows, NEW n \in Names, Grows(n),
         n \notin {"LAYER", "BLOCK_RECORD", "TABLE"},
         UNCHANGED <<events, staged>>
  PROVE  BetweenRows' /\ Heard(events', tokens')
<1>1. /\ Len(tokens) \in Nat /\ Len(tokens') = Len(tokens) + 1
      /\ NameIn(tokens', Len(tokens')) = n /\ tokens' = Append(tokens, Token(n, "none"))
      /\ Token(n, "none") \in TokenSet
  BY TokenTyped DEF InSection, Grows
<1>2. NoRun(tokens')
  BY <1>1 DEF NoRun
<1>3. Within(events, 0, Len(tokens) + 1)
  BY DEF BetweenRows
<1>4. Len(tokens) + 1 \in Nat /\ Len(tokens) + 1 + 1 \in Nat
      /\ Len(tokens) + 1 <= Len(tokens) + 1 + 1
  BY <1>1
<1>5. Within(events, 0, Len(tokens) + 1 + 1)
  BY <1>3, <1>4, WithinLonger
<1>6. Heard(events', tokens')
  BY <1>1, TablesHeard DEF BetweenRows, NoRun
<1>7. QED BY <1>1, <1>2, <1>5, <1>6 DEF BetweenRows

LEMMA OfferedBetweenTables ==
  ASSUME TypeInv, EventsInv, section = "TABLES", NEW n \in Offered
  PROVE  n \in Names /\ n \notin {"LAYER", "BLOCK_RECORD", "TABLE"}
<1>1. block.stage = "none"
  BY DEF EventsInv, PlaceInv
<1>2. n \in Raw \cup {"ENDSEC", "ENDTAB"}
  BY <1>1 DEF Offered, InEntities, InBlock
<1>3. n \in Names
  BY OfferedNames DEF TypeInv
<1>4. QED BY <1>2, <1>3, ReaderAssumption DEF Tables

LEMMA TablesSkip ==
  ASSUME TypeInv, EventsInv, section = "TABLES", NEW n \in Offered, SkipRecord(n)
  PROVE  (WhereInv /\ DueInv)'
<1>1. /\ result = "reading" /\ table \in {"none", "opaque"} /\ n # "ENDSEC" /\ Read(n)
      /\ UNCHANGED <<result, section, table, staged, events>>
  BY DEF SkipRecord, processor, Read
<1>2. InSection /\ n \in Names /\ n \notin {"LAYER", "BLOCK_RECORD", "TABLE"}
  BY <1>1, NowInSection, OfferedBetweenTables
<1>3. Grows(n) /\ BetweenRows
  BY <1>1, <1>2, ReadGrows DEF InSection, AtSection, AtTables
<1>4. BetweenRows' /\ Heard(events', tokens')
  BY <1>1, <1>2, <1>3, BetweenTablesStays
<1>5. AtSection' /\ ~EndedIn(tokens)'
  BY <1>1, <1>3, <1>4 DEF AtSection, AtTables, Grows
<1>6. QED BY <1>1, <1>4, <1>5 DEF WhereInv, DueInv

LEMMA TablesEnd ==
  ASSUME TypeInv, EventsInv, section = "TABLES", EndEmptySection \/ EndOpaqueTable
  PROVE  (WhereInv /\ DueInv)'
<1>1. /\ result = "reading" /\ table \in {"none", "opaque"}
      /\ UNCHANGED <<result, staged, events>> /\ table' = "none"
  BY DEF EndEmptySection, EndOpaqueTable, Read
<1>2. InSection /\ BetweenRows /\ {"ENDSEC", "ENDTAB"} \subseteq Names
  BY <1>1, NowInSection, NameFacts DEF InSection, AtSection, AtTables, Keywords
<1>3. CASE EndEmptySection
  <2>1. Grows("ENDSEC") /\ section' = "none"
    BY <1>2, <1>3, ReadGrows DEF EndEmptySection
  <2>2. Heard(events', tokens')
    BY <1>1, <1>2, <2>1, BetweenTablesStays
  <2>3. QED BY <1>1, <2>1, <2>2 DEF WhereInv, DueInv, Grows
<1>4. CASE EndOpaqueTable
  <2>1. Grows("ENDTAB") /\ section' = "TABLES"
    BY <1>2, <1>4, ReadGrows DEF EndOpaqueTable
  <2>2. BetweenRows' /\ Heard(events', tokens')
    BY <1>1, <1>2, <2>1, BetweenTablesStays
  <2>3. AtSection' /\ ~EndedIn(tokens)'
    BY <1>1, <2>1, <2>2 DEF AtSection, AtTables, Grows
  <2>4. QED BY <1>1, <2>1, <2>2, <2>3 DEF WhereInv, DueInv
<1>5. QED BY <1>3, <1>4

LEMMA TableOpens ==
  ASSUME TypeInv, EventsInv, NEW t \in Tables, OpenTable(t)
  PROVE  (WhereInv /\ DueInv)'
<1> DEFINE L == Len(tokens)
           k == Token("TABLE", t)
<1>1. /\ result = "reading" /\ section = "TABLES" /\ table = "none" /\ table' = t
      /\ UNCHANGED <<result, section, staged, events>> /\ record' = NoRecord
      /\ tokens' = Append(tokens, k)
  BY DEF OpenTable
<1>2. InSection /\ BetweenRows /\ k \in TokenSet /\ k.name = "TABLE" /\ k.of = t
  BY <1>1, NowInSection, TokenTyped DEF InSection, AtSection, AtTables, Token
<1>3. /\ L \in Nat /\ L >= 1 /\ Len(tokens') = L + 1 /\ ~EndedIn(tokens')
      /\ NameIn(tokens', L + 1) = "TABLE" /\ tokens'[L + 1].of = t
  BY <1>1, <1>2, AppendGrows DEF InSection
<1>4. Heard(events', tokens')
  BY <1>1, <1>2, TablesHeard
<1> HIDE DEF L, k
<1>5. CASE t = "opaque"
  <2>1. NoRun(tokens')
    BY <1>3, <1>5 DEF NoRun
  <2>2. Within(events, 0, L + 1 + 1)
    <3>1. Within(events, 0, L + 1)
      BY <1>2 DEF BetweenRows, L
    <3>2. QED BY <1>2, <1>3, <3>1, WithinLonger
  <2>3. BetweenRows'
    BY <1>1, <1>2, <1>3, <2>1, <2>2 DEF BetweenRows
  <2>4. AtSection'
    BY <1>1, <1>5, <2>3 DEF AtSection, AtTables
  <2>5. QED BY <1>1, <1>3, <1>4, <2>4 DEF WhereInv, DueInv
<1>6. CASE t # "opaque"
  <2>1. RunIn(tokens', L + 1, L + 1, t)
    BY <1>3 DEF RunIn
  <2>2. staged' = <<>> /\ Within(events', 0, L + 1)
    BY <1>1, <1>2 DEF BetweenRows, L
  <2>3. L + 1 \in Nat /\ 1 < L + 1
    BY <1>3
  <2>4. \A m : Listed(<<>>, m, L + 1, L + 1)
    BY <2>3, NothingListed
  <2>5. ASSUME NEW o \in Nat, o = L + 1 PROVE RowsAt(o)'
    <3>1. Listed(staged', RowMethod', o, Len(tokens'))
      BY <1>3, <2>2, <2>4, <2>5
    <3>2. record'.at = 0 /\ record' = NoRecord /\ RunIn(tokens', o, Len(tokens'), table')
      BY <1>1, <1>3, <2>1, <2>5 DEF NoRecord
    <3>3. QED BY <1>3, <2>2, <2>3, <2>5, <3>1, <3>2 DEF RowsAt
  <2>6. L + 1 \in 2..Len(tokens')
    BY <1>3
  <2>7. table' \in {"LAYER", "BLOCK_RECORD"}
    BY <1>1, <1>6 DEF Tables
  <2>8. AtSection'
    <3>1. \E o \in 2..Len(tokens') : RowsAt(o)'
      BY <2>3, <2>5, <2>6
    <3>2. AtTables'
      BY <2>7, <3>1 DEF AtTables
    <3>3. QED BY <1>1, <3>2 DEF AtSection
  <2>9. QED BY <1>1, <1>3, <1>4, <2>8 DEF WhereInv, DueInv
<1>7. QED BY <1>5, <1>6

---------------------------------------------------------------------------
(* Callbacks made at once, and rows.                                         *)

LEMMA HeardConcat ==
  ASSUME NEW c \in Seq(Calls), NEW d \in Seq(Calls), NEW q, NEW r, Heard(c, q),
         InOrder(d), NEW mid \in Nat, NEW hi \in Nat, mid < hi,
         Within(c, 0, mid + 1), Within(d, mid, hi),
         DueIn(r) = DueIn(q) \cup ShapesOf(d)
  PROVE  Heard(c \o d, r) /\ Within(c \o d, 0, hi)
<1>1. ShapesOf(c) = DueIn(q) /\ InOrder(c)
  BY DEF Heard
<1>2. InOrder(c \o d) /\ Within(c \o d, 0, hi)
  <2>1. 0 \in Nat /\ 0 <= mid
    OBVIOUS
  <2>2. QED BY <1>1, <2>1, OrderConcat
<1>3. ShapesOf(c \o d) = DueIn(r)
  BY <1>1, ShapesConcat
<1>4. QED BY <1>2, <1>3 DEF Heard

LEMMA HeardAppend ==
  ASSUME NEW c \in Seq(Calls), NEW x \in Calls, NEW q, NEW r, Heard(c, q),
         NEW hi \in Nat, 0 < hi, hi <= x.at, Within(c, 0, hi),
         DueIn(r) = DueIn(q) \cup {ShapeOf(x)}
  PROVE  Heard(Append(c, x), r) /\ Within(Append(c, x), 0, x.at + 1)
<1>1. ShapesOf(c) = DueIn(q) /\ InOrder(c)
  BY DEF Heard
<1>2. InOrder(Append(c, x)) /\ Within(Append(c, x), 0, x.at + 1)
  <2>1. 0 \in Nat
    OBVIOUS
  <2>2. QED BY <1>1, <2>1, OrderAppend
<1>3. x.at # 0
  BY DEF Calls
<1>4. ShapesOf(Append(c, x)) = DueIn(r)
  BY <1>1, <1>3, ShapesAppend
<1>5. QED BY <1>2, <1>4 DEF Heard

\* The row read last joins those that are staged.
RowsFrom(o) ==
  /\ o <= Len(tokens) /\ Listed(staged, RowMethod, o, Len(tokens))
  /\ record = NoRecord <=> Len(tokens) = o
  /\ record # NoRecord => record.at = Len(tokens)

LEMMA LastRowJoins ==
  ASSUME TypeInv, InSection, NEW o \in Nat, RowsFrom(o), NEW h \in HandlesOrNone
  PROVE  /\ FinishedRows(h) \in Seq(Calls)
         /\ Listed(FinishedRows(h), RowMethod, o, Len(tokens) + 1)
<1> DEFINE L == Len(tokens)
           c == Callback(RowMethod, record.at, <<>>, h)
<1>1. /\ L \in Nat /\ staged \in Seq(Calls) /\ Listed(staged, RowMethod, o, L) /\ o <= L
      /\ record.at \in Nat
  BY DEF TypeInv, CallbackTypeOK, ProcessorTypeOK, InSection, RowsFrom
<1>2. c \in Calls
  <2>1. RowMethod \in Methods /\ <<>> \in Seq(Nat)
    BY DEF RowMethod, Methods
  <2>2. QED BY <1>1, <2>1, CallIsTyped
<1>3. CASE record = NoRecord
  <2>1. FinishedRows(h) = staged /\ L = o
    BY <1>3 DEF FinishedRows, RowsFrom
  <2>2. Within(staged, o, L + 1)
    <3>1. Within(staged, o, L) /\ L + 1 \in Nat /\ L <= L + 1
      BY <1>1 DEF Listed
    <3>2. QED BY <1>1, <3>1, WithinMore
  <2>3. (o + 1)..(L - 1) = {} /\ (o + 1)..(L + 1 - 1) = {}
    BY <1>1, <2>1
  <2>4. {Shape(RowMethod, i, <<>>) : i \in (o + 1)..(L - 1)}
          = {Shape(RowMethod, i, <<>>) : i \in (o + 1)..(L + 1 - 1)}
    BY <2>3
  <2>5. QED BY <1>1, <2>1, <2>2, <2>4 DEF Listed
<1>4. CASE record # NoRecord
  <2>1. FinishedRows(h) = Append(staged, c) /\ record.at = L /\ o < L
    BY <1>1, <1>4 DEF FinishedRows, RowsFrom
  <2>2. c.at = L /\ ShapeOf(c) = Shape(RowMethod, L, <<>>)
    BY <2>1 DEF Callback, ShapeOf, Shape
  <2> HIDE DEF c
  <2>3. ShapesOf(Append(staged, c)) = ShapesOf(staged) \cup {Shape(RowMethod, L, <<>>)}
    <3>1. c.at # 0
      BY <1>1, <2>1, <2>2
    <3>2. QED BY <1>1, <1>2, <2>2, <3>1, ShapesAppend
  <2>4. InOrder(Append(staged, c)) /\ Within(Append(staged, c), o, L + 1)
    <3>1. InOrder(staged) /\ Within(staged, o, L) /\ L <= c.at
      BY <1>1, <2>2 DEF Listed
    <3>2. QED BY <1>1, <1>2, <2>1, <2>2, <3>1, OrderAppend
  <2>5. (o + 1)..(L + 1 - 1) = ((o + 1)..(L - 1)) \cup {L}
    BY <1>1, <2>1
  <2>6. {Shape(RowMethod, i, <<>>) : i \in (o + 1)..(L + 1 - 1)}
          = {Shape(RowMethod, i, <<>>) : i \in (o + 1)..(L - 1)}
              \cup {Shape(RowMethod, L, <<>>)}
    BY <2>5
  <2>7. ShapesOf(staged) = {Shape(RowMethod, i, <<>>) : i \in (o + 1)..(L - 1)}
    BY <1>1 DEF Listed
  <2>8. Append(staged, c) \in Seq(Calls)
    BY <1>1, <1>2
  <2>9. QED BY <2>1, <2>3, <2>4, <2>6, <2>7, <2>8 DEF Listed
<1>5. QED BY <1>3, <1>4

LEMMA ClassesStep ==
  ASSUME TypeInv, EventsInv, section = "CLASSES", NEW h \in HandlesOrNone,
         NextRow(h) \/ EndRows(h)
  PROVE  (WhereInv /\ DueInv)'
<1> DEFINE L == Len(tokens)
<1>1. /\ result = "reading" /\ result' = "reading" /\ RowMethod = "add"
      /\ RowName = "CLASS" /\ table = "none"
  BY DEF NextRow, EndRows, Read, RowMethod, RowName, EventsInv, PlaceInv
<1>2. InSection /\ AtClasses /\ L \in Nat /\ L >= 1 /\ {"CLASS", "ENDSEC"} \subseteq Names
  BY <1>1, NowInSection, NameFacts DEF InSection, AtSection, Keywords
<1>3. RowsFrom(1)
  BY <1>1, <1>2 DEF RowsFrom, AtClasses
<1>4. /\ FinishedRows(h) \in Seq(Calls)
      /\ Listed(FinishedRows(h), "add", 1, L + 1)
  BY <1>1, <1>2, <1>3, LastRowJoins
<1>5. CASE NextRow(h)
  <2>1. /\ Grows("CLASS") /\ section' = "CLASSES" /\ staged' = FinishedRows(h)
        /\ events' = events /\ record' = NewRecord("CLASS")
    BY <1>1, <1>2, <1>5, ReadGrows DEF NextRow
  <2>2. AtClasses'
    BY <1>2, <1>4, <2>1 DEF AtClasses, NewRecord, NoRecord, Grows
  <2>3. AtSection'
    BY <2>1, <2>2 DEF AtSection
  <2>4. Heard(events', tokens')
    <3>1. OfIn(tokens') = "CLASSES" /\ ~EndedIn(tokens')
      BY <2>1 DEF Grows
    <3>2. DueIn(tokens') = {} /\ events' = <<>>
      BY <1>2, <2>1, <3>1, DueCases DEF AtClasses
    <3>3. QED BY <3>2, NothingHeard DEF Heard
  <2>5. QED BY <1>1, <2>1, <2>3, <2>4 DEF WhereInv, DueInv, Grows
<1>6. CASE EndRows(h)
  <2>1. /\ Grows("ENDSEC") /\ section' = "none" /\ events' = events \o FinishedRows(h)
    BY <1>1, <1>2, <1>6, ReadGrows DEF EndRows
  <2>2. OfIn(tokens') = "CLASSES" /\ EndedIn(tokens') /\ Len(tokens') = L + 1
    BY <2>1 DEF Grows
  <2>3. events' = FinishedRows(h)
    <3>1. events = <<>>
      BY <1>2 DEF AtClasses
    <3>2. QED BY <1>4, <2>1, <3>1
  <2>4. DueIn(tokens') = ShapesOf(FinishedRows(h))
    <3>1. DueIn(tokens') = {Shape("add", i, <<>>) : i \in 2..(L + 1 - 1)}
      BY <2>2, DueCases DEF InsideIn
    <3>2. 1 + 1 = 2
      OBVIOUS
    <3>3. QED BY <1>4, <3>1, <3>2 DEF Listed
  <2>5. Heard(events', tokens')
    BY <1>4, <2>3, <2>4 DEF Heard, Listed
  <2>6. QED BY <1>1, <2>1, <2>2, <2>5 DEF WhereInv, DueInv
<1>7. QED BY <1>5, <1>6

LEMMA TableRowsStep ==
  ASSUME TypeInv, EventsInv, section # "CLASSES", NEW h \in HandlesOrNone,
         NextRow(h) \/ EndRows(h)
  PROVE  (WhereInv /\ DueInv)'
<1> DEFINE L == Len(tokens)
<1>1. /\ result = "reading" /\ result' = "reading" /\ section = "TABLES"
      /\ table \in {"LAYER", "BLOCK_RECORD"} /\ RowName = table
  BY DEF NextRow, EndRows, Read, InRows, RowName, EventsInv, PlaceInv
<1>2. InSection /\ L \in Nat /\ L >= 1 /\ "ENDTAB" \in Names /\ table \in Names
  BY <1>1, NowInSection, NameFacts DEF InSection, Keywords
<1>3. PICK o \in 2..L : RowsAt(o)
  BY <1>1, <1>2 DEF InSection, AtSection, AtTables
<1>4. /\ o \in Nat /\ 1 < o /\ o <= L /\ RunIn(tokens, o, L, table) /\ Within(events, 0, o)
      /\ events \in Seq(Calls)
  BY <1>2, <1>3 DEF RowsAt, TypeInv, CallbackTypeOK
<1>5. RowsFrom(o)
  BY <1>3, <1>4 DEF RowsFrom, RowsAt
<1>6. FinishedRows(h) \in Seq(Calls) /\ Listed(FinishedRows(h), RowMethod, o, L + 1)
  BY <1>2, <1>4, <1>5, LastRowJoins
<1>7. CASE NextRow(h)
  <2>1. /\ Grows(table) /\ section' = section /\ staged' = FinishedRows(h)
        /\ events' = events /\ record' = NewRecord(table) /\ table' = table
    BY <1>1, <1>2, <1>7, ReadGrows DEF NextRow
  <2>2. /\ Len(tokens') = L + 1 /\ \A i \in 1..L : tokens'[i] = tokens[i]
        /\ \A i \in 1..L : NameIn(tokens', i) = NameIn(tokens, i)
        /\ NameIn(tokens', L + 1) = table /\ table \notin {"ENDTAB", "ENDSEC", "none"}
        /\ tokens' = Append(tokens, Token(table, "none")) /\ Token(table, "none").name = table
        /\ Token(table, "none") \in TokenSet
    BY <1>1, <1>2, <2>1, TokenTyped DEF Grows, Extended, Token
  <2>3. RunIn(tokens', o, L + 1, table)
    <3>1. \A k \in (o + 1)..(L + 1) : NameIn(tokens', k) = table
      BY <1>2, <1>4, <2>2 DEF RunIn
    <3>2. NameIn(tokens', o) = "TABLE" /\ tokens'[o].of = table
      BY <1>2, <1>4, <2>2 DEF RunIn
    <3>3. QED BY <3>1, <3>2 DEF RunIn
  <2>4. RowMethod' = RowMethod
    BY <2>1 DEF RowMethod
  <2>5. record' # NoRecord /\ record'.at = L + 1
    BY <2>1, <2>2 DEF NewRecord, NoRecord
  <2>6. RowsAt(o)'
    <3>1. Listed(staged', RowMethod', o, Len(tokens'))
      BY <1>6, <2>1, <2>2, <2>4
    <3>2. RunIn(tokens', o, Len(tokens'), table') /\ Within(events', 0, o)
      BY <1>4, <2>1, <2>2, <2>3
    <3>3. Len(tokens') # o
      BY <1>2, <1>4, <2>2
    <3>4. QED BY <1>4, <2>2, <2>5, <3>1, <3>2, <3>3 DEF RowsAt
  <2>7. AtSection'
    <3>1. \E a \in 2..Len(tokens') : RowsAt(a)'
      BY <1>2, <1>3, <2>2, <2>6
    <3>2. AtTables'
      BY <1>1, <2>1, <3>1 DEF AtTables
    <3>3. QED BY <1>1, <2>1, <3>2 DEF AtSection
  <2>8. Heard(events', tokens')
    BY <1>1, <1>2, <2>1, <2>2, TablesHeard
  <2>9. ~EndedIn(tokens)'
    BY <2>2 DEF EndedIn
  <2>10. QED BY <1>1, <2>1, <2>7, <2>8, <2>9 DEF WhereInv, DueInv
<1>8. CASE EndRows(h)
  <2>1. /\ Grows("ENDTAB") /\ section' = section /\ staged' = <<>> /\ table' = "none"
        /\ events' = events \o FinishedRows(h)
    BY <1>1, <1>2, <1>8, ReadGrows DEF EndRows
  <2>2. /\ Len(tokens') = L + 1 /\ NameIn(tokens', L + 1) = "ENDTAB"
        /\ tokens' = Append(tokens, Token("ENDTAB", "none")) /\ OfIn(tokens') = "TABLES"
        /\ Token("ENDTAB", "none") \in TokenSet /\ Token("ENDTAB", "none").name = "ENDTAB"
        /\ OfIn(tokens) = "TABLES" /\ tokens \in Seq(TokenSet) /\ Heard(events, tokens)
    BY <1>1, <1>2, <2>1, TokenTyped DEF Grows, Token, InSection
  <2>3. \A m : \A t \in {"LAYER", "BLOCK_RECORD"} :
          t # table => RowsIn(tokens', m, t) = RowsIn(tokens, m, t)
    <3>1. \A t \in {"LAYER", "BLOCK_RECORD"} : t # table => NameIn(tokens, L) # t
      BY <1>2, <1>4 DEF RunIn
    <3>2. QED BY <2>2, <3>1, RowsStay
  <2>4. \A m : RowsIn(tokens', m, table) =
          RowsIn(tokens, m, table) \cup {Shape(m, i, <<>>) : i \in (o + 1)..L}
    <3>1. o \in 1..L /\ table # "TABLE"
      BY <1>1, <1>2, <1>4
    <3>2. QED BY <1>4, <2>2, <3>1, RowsAreDue
  <2>5. DueIn(tokens') = DueIn(tokens) \cup ShapesOf(FinishedRows(h))
    <3>1. ShapesOf(FinishedRows(h)) = {Shape(RowMethod, i, <<>>) : i \in (o + 1)..L}
      <4>1. L + 1 - 1 = L
        BY <1>2
      <4>2. QED BY <1>6, <4>1 DEF Listed
    <3>2. /\ DueIn(tokens') = RowsIn(tokens', "add", "LAYER")
                                \cup RowsIn(tokens', "addBlockRecord", "BLOCK_RECORD")
          /\ DueIn(tokens) = RowsIn(tokens, "add", "LAYER")
                                \cup RowsIn(tokens, "addBlockRecord", "BLOCK_RECORD")
      BY <2>2, DueCases
    <3>3. RowMethod = IF table = "BLOCK_RECORD" THEN "addBlockRecord" ELSE "add"
      BY DEF RowMethod
    <3>4. CASE table = "LAYER"
      <4>1. RowMethod = "add"
        BY <3>3, <3>4
      <4>2. /\ RowsIn(tokens', "addBlockRecord", "BLOCK_RECORD")
               = RowsIn(tokens, "addBlockRecord", "BLOCK_RECORD")
            /\ RowsIn(tokens', "add", "LAYER") = RowsIn(tokens, "add", "LAYER")
                 \cup {Shape("add", i, <<>>) : i \in (o + 1)..L}
        BY <2>3, <2>4, <3>4
      <4>3. QED BY <3>1, <3>2, <4>1, <4>2
    <3>5. CASE table = "BLOCK_RECORD"
      <4>1. RowMethod = "addBlockRecord"
        BY <3>3, <3>5
      <4>2. /\ RowsIn(tokens', "add", "LAYER") = RowsIn(tokens, "add", "LAYER")
            /\ RowsIn(tokens', "addBlockRecord", "BLOCK_RECORD")
               = RowsIn(tokens, "addBlockRecord", "BLOCK_RECORD")
                 \cup {Shape("addBlockRecord", i, <<>>) : i \in (o + 1)..L}
        BY <2>3, <2>4, <3>5
      <4>3. QED BY <3>1, <3>2, <4>1, <4>2
    <3>6. QED BY <1>1, <3>4, <3>5
  <2>6. Heard(events', tokens') /\ Within(events', 0, L + 1)
    <3>1. Within(events, 0, o + 1)
      <4>1. o + 1 \in Nat /\ o <= o + 1
        BY <1>4
      <4>2. QED BY <1>2, <1>4, <4>1, WithinLonger
    <3>2. InOrder(FinishedRows(h)) /\ Within(FinishedRows(h), o, L + 1)
      BY <1>6 DEF Listed
    <3>3. L + 1 \in Nat /\ o < L + 1
      BY <1>2, <1>4
    <3>4. QED BY <1>4, <1>6, <2>1, <2>2, <2>5, <3>1, <3>2, <3>3, HeardConcat
  <2>7. Within(events', 0, L + 1 + 1)
    <3>1. L + 1 \in Nat /\ L + 1 + 1 \in Nat /\ L + 1 <= L + 1 + 1
          /\ events' \in Seq(Calls) /\ 0 \in Nat
      BY <1>2, <1>4, <1>6, <2>1, ConcatProperties
    <3>2. QED BY <2>6, <3>1, WithinMore
  <2>8. BetweenRows'
    BY <2>1, <2>2, <2>7 DEF BetweenRows, NoRun
  <2>9. AtSection' /\ ~EndedIn(tokens)'
    BY <1>1, <2>1, <2>2, <2>8 DEF AtSection, AtTables, EndedIn
  <2>10. QED BY <1>1, <2>1, <2>6, <2>9 DEF WhereInv, DueInv
<1>9. QED BY <1>7, <1>8

---------------------------------------------------------------------------
(* Entities, in their section and in a block.                                *)

\* The entity being read is complete, with its parts if it has any.
Completes(lo, n) ==
  \E r, parts, h :
    /\ Deliver(r, parts, h) /\ parts \in Seq(Nat) /\ h \in HandlesOrNone
    /\ r.at = Here(tokens, parent) /\ r.name = NameIn(tokens, Here(tokens, parent))
    /\ FreeIn(tokens', lo, Len(tokens'))
    /\ EntitiesIn(tokens', lo, Len(tokens')) =
         EntitiesIn(tokens, lo, Len(tokens)) \cup {Shape("add", r.at, parts)}
    /\ parent' = NoParent /\ Follow(n) /\ AcceptsBoundary(n)

LEMMA RecordCompletes ==
  ASSUME TypeInv, InSection, InEntities, NEW lo \in Nat, EntityAt(tokens, lo, record, parent),
         NEW n, Grows(n), NEW h \in HandlesOrNone, EndRecord(n, h)
  PROVE  Completes(lo, n)
<1> DEFINE L == Len(tokens)
<1>1. /\ parent = NoParent /\ parent' = NoParent /\ Follow(n) /\ AcceptsBoundary(n)
      /\ Deliver(record, <<>>, HandleRead(h))
      /\ record.name # "POLYLINE" /\ ~(record.name = "INSERT" /\ n = "ATTRIB")
  BY DEF EndRecord, IsPart
<1>2. /\ L \in Nat /\ tokens \in Seq(TokenSet) /\ tokens' \in Seq(TokenSet)
      /\ Len(tokens') = L + 1 /\ Extended(tokens, tokens') /\ NameIn(tokens', L + 1) = n
  BY DEF InSection, Grows
<1>3. /\ lo < L /\ FreeIn(tokens, lo, L) /\ record.at = L /\ record.name = NameIn(tokens, L)
      /\ Here(tokens, parent) = L
  BY <1>1 DEF EntityAt, Here
<1>4. NameIn(tokens', L) = record.name
  BY <1>2, <1>3 DEF Extended
<1>5. ~OpenerIn(tokens', L)
  BY <1>1, <1>2, <1>4 DEF OpenerIn
<1>6. /\ FreeIn(tokens', lo, Len(tokens'))
      /\ EntitiesIn(tokens', lo, Len(tokens')) =
           EntitiesIn(tokens, lo, L) \cup {Shape("add", L, <<>>)}
  BY <1>2, <1>3, <1>5, EntityEnds
<1>7. <<>> \in Seq(Nat) /\ HandleRead(h) \in HandlesOrNone
  BY HandleReadTyped
<1>8. QED BY <1>1, <1>3, <1>6, <1>7 DEF Completes

LEMMA PartsComplete ==
  ASSUME TypeInv, InSection, InEntities, NEW lo \in Nat, EntityAt(tokens, lo, record, parent),
         NEW n, Grows(n), EndParts(n)
  PROVE  Completes(lo, n)
<1> DEFINE L == Len(tokens)
<1>1. /\ parent # NoParent /\ record.name = "SEQEND" /\ parent' = NoParent /\ Follow(n)
      /\ AcceptsBoundary(n) /\ Deliver(parent, parent.parts, parent.handle)
  BY DEF EndParts, IsPart
<1>2. /\ L \in Nat /\ tokens \in Seq(TokenSet) /\ tokens' \in Seq(TokenSet)
      /\ Len(tokens') = L + 1 /\ Extended(tokens, tokens')
      /\ parent.at \in Nat /\ parent.parts \in Seq(Nat) /\ parent.handle \in HandlesOrNone
  BY DEF InSection, Grows, TypeInv, ProcessorTypeOK
<1>3. Here(tokens, parent) = parent.at /\ parent.name = NameIn(tokens, parent.at)
  BY <1>1 DEF EntityAt, Here
<1>4. EntitiesIn(tokens, lo, L) = EntitiesIn(tokens, lo, parent.at)
  BY <1>1, <1>2, PartsAreHeld
<1>5. /\ FreeIn(tokens', lo, Len(tokens'))
      /\ EntitiesIn(tokens', lo, Len(tokens')) =
           EntitiesIn(tokens, lo, parent.at) \cup {Shape("add", parent.at, parent.parts)}
  BY <1>1, <1>2, PartsEnd
<1>6. QED BY <1>1, <1>2, <1>3, <1>4, <1>5 DEF Completes

\* A part starts, and the entity it belongs to waits.
GoesOn(lo) ==
  /\ EntityAt(tokens', lo, record', parent')
  /\ EntitiesIn(tokens', lo, Len(tokens')) = EntitiesIn(tokens, lo, Len(tokens))
  /\ Here(tokens', parent') = Here(tokens, parent)
  /\ record' # NoRecord /\ record'.name # "ENDBLK"
  /\ UNCHANGED <<result, section, block, events, staged>>

LEMMA NamedParts == \A name : PartName(name) \in {"ATTRIB", "VERTEX"}
BY DEF PartName

LEMMA FirstPart ==
  ASSUME TypeInv, InSection, NEW lo \in Nat, EntityAt(tokens, lo, record, parent),
         NEW n, Grows(n), NEW h \in HandlesOrNone, BeginParts(n, h)
  PROVE  GoesOn(lo)
<1> DEFINE L == Len(tokens)
<1>1. /\ parent = NoParent /\ record.name \in {"INSERT", "POLYLINE"}
      /\ n = PartName(record.name) /\ record' = NewRecord(n)
      /\ parent' = [name |-> record.name, at |-> record.at, parts |-> <<>>,
                    handle |-> HandleRead(h)]
      /\ UNCHANGED <<result, section, block, events, staged>>
  BY DEF BeginParts, IsPart
<1>2. /\ L \in Nat /\ tokens \in Seq(TokenSet) /\ tokens' \in Seq(TokenSet)
      /\ Len(tokens') = L + 1 /\ Extended(tokens, tokens') /\ NameIn(tokens', L + 1) = n
  BY DEF InSection, Grows
<1>3. /\ lo < L /\ FreeIn(tokens, lo, L) /\ record.at = L /\ record.name = NameIn(tokens, L)
      /\ Here(tokens, parent) = L
  BY <1>1 DEF EntityAt, Here
<1>4. n \in {"ATTRIB", "VERTEX"} /\ (record.name = "INSERT" => n = "ATTRIB")
  BY <1>1, NamedParts DEF PartName
<1>5. OpenerIn(tokens', L)
  <2>1. NameIn(tokens', L) = record.name
    BY <1>2, <1>3 DEF Extended
  <2>2. QED BY <1>1, <1>2, <1>4, <2>1 DEF OpenerIn
<1>6. /\ parent' # NoParent /\ parent'.at = L /\ parent'.name = NameIn(tokens, L)
      /\ parent'.parts = <<>> /\ Here(tokens', parent') = L
  BY <1>1, <1>3 DEF NoParent, Here
<1>7. /\ record'.at = Len(tokens') /\ record'.name = n /\ record' # NoRecord
  BY <1>1, <1>2, <1>4 DEF NewRecord, NoRecord
<1>8. EntityAt(tokens', lo, record', parent')
  BY <1>2, <1>3, <1>4, <1>5, <1>6, <1>7, PartsBegin
<1>9. EntitiesIn(tokens', lo, Len(tokens')) = EntitiesIn(tokens', lo, L)
  BY <1>2, <1>6, <1>8, PartsAreHeld
<1>10. EntitiesIn(tokens', lo, L) = EntitiesIn(tokens, lo, L)
  BY <1>2, <1>3, EntitiesStay
<1>11. QED BY <1>1, <1>3, <1>4, <1>6, <1>7, <1>8, <1>9, <1>10 DEF GoesOn

LEMMA AnotherPart ==
  ASSUME TypeInv, InSection, NEW lo \in Nat, EntityAt(tokens, lo, record, parent),
         NEW n, Grows(n), NEW h \in HandlesOrNone, NextPart(n, h)
  PROVE  GoesOn(lo)
<1> DEFINE L == Len(tokens)
<1>1. /\ parent # NoParent /\ record.name = PartName(parent.name)
      /\ n \in {record.name, "SEQEND"} /\ record' = NewRecord(n)
      /\ parent' = [parent EXCEPT !.parts = Append(@, record.at)]
      /\ UNCHANGED <<result, section, block, events, staged>>
  BY DEF NextPart, IsPart
<1>2. /\ L \in Nat /\ tokens \in Seq(TokenSet) /\ tokens' \in Seq(TokenSet)
      /\ Len(tokens') = L + 1 /\ Extended(tokens, tokens') /\ NameIn(tokens', L + 1) = n
      /\ parent.at \in Nat
      /\ parent \in [name : Names \cup {"none"}, at : Nat, parts : Seq(Nat),
                     handle : HandlesOrNone]
  BY DEF InSection, Grows, TypeInv, ProcessorTypeOK
<1>3. lo < parent.at /\ Here(tokens, parent) = parent.at
  BY <1>1 DEF EntityAt, Here
<1>4. /\ record.name # "SEQEND" /\ n \in {"ATTRIB", "VERTEX", "SEQEND"}
  BY <1>1, NamedParts
<1>5. /\ parent'.at = parent.at /\ parent'.name = parent.name
      /\ parent'.parts = Append(parent.parts, record.at)
  BY <1>1, <1>2
<1>6. parent' # NoParent /\ Here(tokens', parent') = parent.at
  <2>1. parent'.at # 0
    BY <1>2, <1>3, <1>5
  <2>2. QED BY <1>5, <2>1 DEF NoParent, Here
<1>7. /\ record'.at = Len(tokens') /\ record'.name = n /\ record' # NoRecord
  BY <1>1, <1>2, <1>4 DEF NewRecord, NoRecord
<1>8. /\ EntityAt(tokens', lo, record', parent')
      /\ EntitiesIn(tokens', lo, parent'.at) = EntitiesIn(tokens, lo, parent.at)
  <2>1. /\ NameIn(tokens', Len(tokens')) \in {"ATTRIB", "VERTEX", "SEQEND"}
        /\ LastOf(tokens', record')
    BY <1>2, <1>4, <1>7 DEF LastOf
  <2>2. /\ tokens \in Seq(TokenSet) /\ tokens' \in Seq(TokenSet)
        /\ Len(tokens') = Len(tokens) + 1 /\ Extended(tokens, tokens')
        /\ parent.at \in Nat /\ parent # NoParent /\ record.name # "SEQEND"
    BY <1>1, <1>2, <1>4
  <2>3. WithPart(parent, record.at, parent')
    BY <1>5, <1>6 DEF WithPart
  <2>4. EntitiesIn(tokens', lo, parent.at) = EntitiesIn(tokens, lo, parent.at)
        /\ EntityAt(tokens', lo, record', parent')
    BY <2>1, <2>2, <2>3, <1>5, PartFollows
  <2>5. QED BY <1>5, <2>4
<1>9. EntitiesIn(tokens', lo, Len(tokens')) = EntitiesIn(tokens', lo, parent'.at)
  BY <1>2, <1>5, <1>6, <1>8, PartsAreHeld
<1>10. EntitiesIn(tokens, lo, L) = EntitiesIn(tokens, lo, parent.at)
  BY <1>1, <1>2, PartsAreHeld
<1>11. QED BY <1>1, <1>3, <1>4, <1>6, <1>7, <1>8, <1>9, <1>10 DEF GoesOn

LEMMA StartsFree ==
  ASSUME NEW q, NEW lo \in Nat
  PROVE  FreeIn(q, lo, lo + 1)
BY DEF FreeIn, PartsIn

LEMMA HereIsRead ==
  ASSUME TypeInv, InSection, NEW lo \in Nat, EntityAt(tokens, lo, record, parent)
  PROVE  Here(tokens, parent) \in Nat /\ lo < Here(tokens, parent)
         /\ Here(tokens, parent) <= Len(tokens)
BY DEF TypeInv, ProcessorTypeOK, InSection, EntityAt, Here

LEMMA CallOf ==
  ASSUME NEW k \in Nat, NEW ps \in Seq(Nat), NEW h \in HandlesOrNone
  PROVE  /\ Callback("add", k, ps, h) \in Calls /\ Callback("add", k, ps, h).at = k
         /\ ShapeOf(Callback("add", k, ps, h)) = Shape("add", k, ps)
<1>1. Callback("add", k, ps, h) \in Calls
  BY CallIsTyped DEF Methods
<1>2. QED BY <1>1 DEF Callback, ShapeOf, Shape

LEMMA EntityFollows ==
  ASSUME InSection, section = "ENTITIES", NEW n, Grows(n), Follow(n),
         FreeIn(tokens', 1, Len(tokens')), parent' = NoParent, result' = result,
         Within(events', 0, Len(tokens')), Heard(events', tokens')
  PROVE  (WhereInv /\ DueInv)'
<1>1. /\ result' = "reading" /\ Len(tokens) \in Nat /\ Len(tokens) >= 1
      /\ Len(tokens') = Len(tokens) + 1 /\ NameIn(tokens', Len(tokens')) = n
      /\ EndedIn(tokens') <=> n = "ENDSEC"
  BY DEF InSection, Grows
<1>2. DueInv'
  BY DEF DueInv
<1>3. CASE n = "ENDSEC"
  BY <1>1, <1>2, <1>3 DEF WhereInv, Follow
<1>4. CASE n # "ENDSEC"
  <2>1. /\ section' = "ENTITIES" /\ record' = NewRecord(n) /\ record'.at = Len(tokens')
        /\ record'.name = n /\ record' # NoRecord
    BY <1>1, <1>4 DEF Follow, NewRecord, NoRecord
  <2>2. Here(tokens', parent') = Len(tokens') /\ 1 < Len(tokens')
    BY <1>1 DEF Here
  <2>3. EntityAt(tokens', 1, record', parent')
    BY <1>1, <2>1, <2>2 DEF EntityAt
  <2>4. AtEntities'
    BY <2>1, <2>2, <2>3 DEF AtEntities
  <2>5. AtSection' /\ ~EndedIn(tokens)'
    BY <1>1, <1>4, <2>1, <2>4 DEF AtSection
  <2>6. QED BY <1>2, <2>1, <2>5 DEF WhereInv
<1>5. QED BY <1>3, <1>4

LEMMA EntitiesStart ==
  ASSUME TypeInv, EventsInv, section = "ENTITIES", NEW n \in Names, FirstRecord(n)
  PROVE  (WhereInv /\ DueInv)'
<1>1. /\ result = "reading" /\ record = NoRecord /\ Read(n) /\ Follow(n)
      /\ UNCHANGED <<result, parent, events>>
  BY DEF FirstRecord, Read
<1>2. InSection /\ AtEntities
  BY <1>1, NowInSection DEF InSection, AtSection
<1>3. Grows(n) /\ Len(tokens) = 1 /\ parent = NoParent /\ Within(events, 0, 1)
  BY <1>1, <1>2, ReadGrows DEF AtEntities, Here
<1>4. Len(tokens') = 2
  BY <1>3 DEF Grows
<1>5. Within(events, 0, 2)
  <2>1. 1 \in Nat /\ 2 \in Nat /\ 1 <= 2
    OBVIOUS
  <2>2. QED BY <1>2, <1>3, <2>1, WithinLonger
<1>6. FreeIn(tokens', 1, 2) /\ EntitiesIn(tokens', 1, 2) = {} /\ EntitiesIn(tokens, 1, 1) = {}
  <2>1. 1 \in Nat /\ 1 + 1 = 2 /\ (1 + 1)..(1 - 1) = {}
    OBVIOUS
  <2>2. FreeIn(tokens', 1, 1 + 1) /\ EntitiesIn(tokens', 1, 1 + 1) = {}
    BY <2>1, StartsFree, NoEntities
  <2>3. EntitiesIn(tokens, 1, 1) = {}
    BY <2>1 DEF EntitiesIn
  <2>4. QED BY <2>1, <2>2, <2>3
<1>7. DueIn(tokens') = DueIn(tokens)
  <2>1. OfIn(tokens) = "ENTITIES" /\ OfIn(tokens') = "ENTITIES"
    BY <1>2, <1>3 DEF InSection, Grows
  <2>2. QED BY <1>3, <1>4, <1>6, <2>1, DueCases
<1>8. Heard(events', tokens')
  BY <1>1, <1>2, <1>7 DEF Heard, InSection
<1>9. QED BY <1>1, <1>2, <1>3, <1>4, <1>5, <1>6, <1>8, EntityFollows

LEMMA EntityHeard ==
  ASSUME TypeInv, EventsInv, InSection, section = "ENTITIES", AtEntities,
         EntityAt(tokens, 1, record, parent),
         NEW n, Grows(n), result' = result, Completes(1, n)
  PROVE  (WhereInv /\ DueInv)'
<1>1. PICK r, parts, h :
        /\ Deliver(r, parts, h) /\ parts \in Seq(Nat) /\ h \in HandlesOrNone
        /\ r.at = Here(tokens, parent)
        /\ FreeIn(tokens', 1, Len(tokens'))
        /\ EntitiesIn(tokens', 1, Len(tokens')) =
             EntitiesIn(tokens, 1, Len(tokens)) \cup {Shape("add", r.at, parts)}
        /\ parent' = NoParent /\ Follow(n)
  BY DEF Completes
<1>2. ~InBlock
  BY DEF EventsInv, PlaceInv, InBlock
<1>3. r.at \in Nat /\ 1 < r.at /\ r.at <= Len(tokens) /\ Len(tokens) \in Nat
  BY <1>1, HereIsRead DEF InSection
<1> DEFINE c == Callback("add", r.at, parts, h)
<1>4. c \in Calls /\ c.at = r.at /\ ShapeOf(c) = Shape("add", r.at, parts)
  BY <1>1, <1>3, CallOf
<1>5. events' = Append(events, c)
  BY <1>1, <1>2 DEF Deliver
<1> HIDE DEF c
<1>6. DueIn(tokens') = DueIn(tokens) \cup {ShapeOf(c)}
  <2>1. OfIn(tokens) = "ENTITIES" /\ OfIn(tokens') = "ENTITIES"
    BY DEF InSection, Grows
  <2>2. QED BY <1>1, <1>4, <2>1, DueCases
<1>7. events \in Seq(Calls) /\ Heard(events, tokens) /\ Within(events, 0, r.at)
  BY <1>1 DEF TypeInv, CallbackTypeOK, InSection, AtEntities
<1>8. Heard(events', tokens') /\ Within(events', 0, r.at + 1)
  <2>1. 0 < r.at /\ r.at <= c.at
    BY <1>3, <1>4
  <2>2. QED BY <1>3, <1>4, <1>5, <1>6, <1>7, <2>1, HeardAppend
<1>9. Within(events', 0, Len(tokens'))
  <2>1. events' \in Seq(Calls) /\ 0 \in Nat
    BY <1>4, <1>5, <1>7
  <2>2. r.at + 1 \in Nat /\ Len(tokens') \in Nat /\ r.at + 1 <= Len(tokens')
    BY <1>3 DEF Grows
  <2>3. QED BY <1>8, <2>1, <2>2, WithinMore
<1>10. QED BY <1>1, <1>8, <1>9, EntityFollows

LEMMA EntityWaits ==
  ASSUME TypeInv, InSection, section = "ENTITIES", AtEntities,
         NEW n, Grows(n), n # "ENDSEC", GoesOn(1)
  PROVE  (WhereInv /\ DueInv)'
<1>1. /\ result' = "reading" /\ section' = "ENTITIES" /\ ~EndedIn(tokens')
      /\ OfIn(tokens) = "ENTITIES" /\ OfIn(tokens') = "ENTITIES"
      /\ Heard(events, tokens) /\ events' = events
  BY DEF InSection, Grows, GoesOn
<1>2. DueIn(tokens') = DueIn(tokens)
  BY <1>1, DueCases DEF GoesOn
<1>3. Heard(events', tokens')
  BY <1>1, <1>2 DEF Heard
<1>4. AtEntities'
  BY DEF AtEntities, GoesOn
<1>5. AtSection' /\ ~EndedIn(tokens)'
  BY <1>1, <1>4 DEF AtSection
<1>6. QED BY <1>1, <1>3, <1>5 DEF WhereInv, DueInv

LEMMA EntitiesSection ==
  ASSUME TypeInv, EventsInv, section = "ENTITIES", NEW n \in Names,
         \/ FirstRecord(n) \/ EndParts(n)
         \/ \E h \in HandlesOrNone : EndRecord(n, h) \/ BeginParts(n, h) \/ NextPart(n, h)
  PROVE  (WhereInv /\ DueInv)'
<1>1. CASE FirstRecord(n)
  BY <1>1, EntitiesStart
<1>2. CASE ~FirstRecord(n)
  <2>1. /\ result = "reading" /\ Read(n) /\ result' = result
    BY <1>2 DEF Read, EndParts, EndRecord, BeginParts, NextPart
  <2>2. InSection /\ AtEntities /\ InEntities
    BY <2>1, NowInSection DEF InSection, AtSection, InEntities
  <2>3. Grows(n)
    BY <2>1, <2>2, ReadGrows
  <2>4. record # NoRecord
    <3>1. record = NoRecord => parent = NoParent /\ record.name = "none"
      BY <2>2 DEF AtEntities, NoRecord
    <3>2. QED BY <1>2, <3>1 DEF EndParts, EndRecord, BeginParts, NextPart, IsPart
  <2>5. EntityAt(tokens, 1, record, parent) /\ 1 \in Nat
    BY <2>2, <2>4 DEF AtEntities
  <2>6. CASE EndParts(n) \/ \E h \in HandlesOrNone : EndRecord(n, h)
    <3>1. Completes(1, n)
      BY <2>2, <2>3, <2>5, <2>6, RecordCompletes, PartsComplete
    <3>2. QED BY <2>1, <2>2, <2>3, <2>5, <3>1, EntityHeard
  <2>7. CASE \E h \in HandlesOrNone : BeginParts(n, h) \/ NextPart(n, h)
    <3>1. GoesOn(1)
      BY <2>2, <2>3, <2>5, <2>7, FirstPart, AnotherPart
    <3>2. n # "ENDSEC"
      BY <2>7, NamedParts DEF BeginParts, NextPart
    <3>3. QED BY <2>2, <2>3, <3>1, <3>2, EntityWaits
  <2>8. QED BY <1>2, <2>6, <2>7
<1>3. QED BY <1>1, <1>2

LEMMA InsideGrows ==
  ASSUME NEW q \in Seq(TokenSet), NEW r \in Seq(TokenSet), Len(r) = Len(q) + 1
  PROVE  InsideIn(r) = InsideIn(q) \cup
           (IF Len(q) >= 2 THEN {Shape("add", Len(q), <<>>)} ELSE {})
<1>1. Len(q) \in Nat
  BY LenProperties
<1>2. 2..(Len(r) - 1) = 2..(Len(q) - 1) \cup (IF Len(q) >= 2 THEN {Len(q)} ELSE {})
  BY <1>1
<1>3. QED BY <1>2 DEF InsideIn

LEMMA ObjectFollows ==
  ASSUME TypeInv, InSection, section = "OBJECTS", NEW n, Grows(n), Follow(n),
         parent' = NoParent, result' = result, n # "none",
         Within(events', 0, Len(tokens')), Heard(events', tokens')
  PROVE  (WhereInv /\ DueInv)'
<1>1. /\ result' = "reading" /\ Len(tokens) \in Nat /\ Len(tokens) >= 1
      /\ Len(tokens') = Len(tokens) + 1 /\ (EndedIn(tokens') <=> n = "ENDSEC")
  BY DEF InSection, Grows
<1>2. DueInv'
  BY DEF DueInv
<1>3. CASE n = "ENDSEC"
  BY <1>1, <1>2, <1>3 DEF WhereInv, Follow
<1>4. CASE n # "ENDSEC"
  <2>1. /\ section' = "OBJECTS" /\ record'.at = Len(tokens') /\ record' # NoRecord
        /\ Len(tokens') # 1
    BY <1>1, <1>4 DEF Follow, NewRecord, NoRecord
  <2>2. AtObjects'
    BY <2>1 DEF AtObjects
  <2>3. AtSection' /\ ~EndedIn(tokens)'
    BY <1>1, <1>4, <2>1, <2>2 DEF AtSection
  <2>4. QED BY <1>1, <1>2, <2>1, <2>3 DEF WhereInv
<1>5. QED BY <1>3, <1>4

LEMMA ObjectsSection ==
  ASSUME TypeInv, EventsInv, section = "OBJECTS", NEW n \in Names, n # "none",
         \/ FirstRecord(n) \/ EndParts(n)
         \/ \E h \in HandlesOrNone : EndRecord(n, h) \/ BeginParts(n, h) \/ NextPart(n, h)
  PROVE  (WhereInv /\ DueInv)'
<1> DEFINE L == Len(tokens)
<1>1. ~InEntities /\ ~InBlock
  BY DEF EventsInv, PlaceInv, InEntities, InBlock
<1>2. FirstRecord(n) \/ \E h \in HandlesOrNone : EndRecord(n, h)
  BY <1>1 DEF EndParts, BeginParts, NextPart, IsPart
<1>3. /\ result = "reading" /\ Read(n) /\ Follow(n) /\ UNCHANGED <<result, parent>>
  BY <1>2 DEF FirstRecord, EndRecord, Read
<1>4. InSection /\ AtObjects /\ Grows(n)
  <2>1. InSection
    BY <1>3, NowInSection
  <2>2. QED BY <1>3, <2>1, ReadGrows DEF InSection, AtSection
<1>5. /\ L \in Nat /\ L >= 1 /\ Len(tokens') = L + 1 /\ parent' = NoParent
      /\ tokens \in Seq(TokenSet) /\ tokens' \in Seq(TokenSet)
      /\ Within(events, 0, L) /\ Heard(events, tokens) /\ events \in Seq(Calls)
      /\ OfIn(tokens) = "OBJECTS" /\ OfIn(tokens') = "OBJECTS"
  BY <1>3, <1>4 DEF InSection, Grows, AtObjects, TypeInv, CallbackTypeOK
<1>6. CASE FirstRecord(n)
  <2>1. L = 1 /\ events' = events
    BY <1>4, <1>6 DEF FirstRecord, AtObjects
  <2>2. DueIn(tokens') = DueIn(tokens)
    <3>1. InsideIn(tokens') = InsideIn(tokens)
      <4>1. ~(L >= 2)
        BY <2>1
      <4>2. QED BY <1>5, <4>1, InsideGrows
    <3>2. QED BY <1>5, <3>1, DueCases
  <2>3. Heard(events', tokens')
    BY <1>5, <2>1, <2>2 DEF Heard
  <2>4. Within(events', 0, Len(tokens'))
    BY <1>4, <1>5, <2>1, WithinLonger
  <2>5. QED BY <1>3, <1>4, <1>5, <2>3, <2>4, ObjectFollows
<1>7. ASSUME NEW h \in HandlesOrNone, EndRecord(n, h) PROVE (WhereInv /\ DueInv)'
  <2> DEFINE c == Callback("add", record.at, <<>>, HandleRead(h))
  <2>1. record # NoRecord /\ record.at = L /\ L # 1 /\ events' = Append(events, c)
    BY <1>1, <1>4, <1>7 DEF EndRecord, Deliver, AtObjects
  <2>2. c \in Calls /\ c.at = L /\ ShapeOf(c) = Shape("add", L, <<>>)
    <3>1. <<>> \in Seq(Nat) /\ HandleRead(h) \in HandlesOrNone
      BY HandleReadTyped
    <3>2. QED BY <1>5, <2>1, <3>1, CallOf
  <2> HIDE DEF c
  <2>3. DueIn(tokens') = DueIn(tokens) \cup {ShapeOf(c)}
    <3>1. L \in Nat /\ L >= 1 /\ L # 1
      BY <1>5, <2>1
    <3>0. \A k \in Nat : k >= 1 /\ k # 1 => k >= 2
      OBVIOUS
    <3> HIDE DEF L
    <3>2. L >= 2
      BY <3>0, <3>1
    <3> USE DEF L
    <3>3. InsideIn(tokens') = InsideIn(tokens) \cup {Shape("add", L, <<>>)}
      BY <1>5, <3>2, InsideGrows
    <3>4. QED BY <1>5, <2>2, <3>3, DueCases
  <2>4. Heard(events', tokens') /\ Within(events', 0, L + 1)
    <3>1. 0 < L /\ L <= c.at
      BY <1>5, <2>2
    <3>2. Heard(events', tokens') /\ Within(events', 0, c.at + 1)
      BY <1>5, <2>1, <2>2, <2>3, <3>1, HeardAppend
    <3>3. QED BY <2>2, <3>2
  <2>5. QED BY <1>3, <1>4, <1>5, <2>4, ObjectFollows
<1>8. QED BY <1>2, <1>6, <1>7

---------------------------------------------------------------------------
(* The children of a block.                                                  *)

LEMMA StagedSame ==
  ASSUME NEW q \in Seq(TokenSet), NEW r \in Seq(TokenSet), Extended(q, r),
         NEW lo \in Nat, NEW c \in Nat, c <= Len(q), NEW d,
         EntitiesIn(r, lo, d) = EntitiesIn(q, lo, c)
  PROVE  StagedIn(r, lo, d) = StagedIn(q, lo, c)
<1>1. ASSUME NEW x \in EntitiesIn(q, lo, c) PROVE NameIn(r, x.at) = NameIn(q, x.at)
  <2>1. x.at \in (lo + 1)..(c - 1)
    BY EntitiesAreBetween
  <2>2. x.at \in 1..Len(q)
    BY <2>1, LenProperties
  <2>3. QED BY <2>2 DEF Extended
<1>2. QED BY <1>1 DEF StagedIn

\* The record after a child: nothing is due, and the block stays open.
LEMMA BlockStaysOpen ==
  ASSUME InSection, section = "BLOCKS", NEW b \in 2..Len(tokens), BlockOpen(b),
         NameIn(tokens, Len(tokens)) # "ENDBLK", NEW n, Grows(n), events' = events,
         block'.published = block.published,
         ShapesOf(staged') = StagedIn(tokens', b, Len(tokens')), InOrder(staged'),
         Within(staged', b, Here(tokens', parent'))
  PROVE  BlockOpen(b)' /\ Heard(events', tokens')
<1> DEFINE L == Len(tokens)
<1>1. /\ L \in Nat /\ tokens \in Seq(TokenSet) /\ tokens' \in Seq(TokenSet)
      /\ Len(tokens') = L + 1 /\ Extended(tokens, tokens')
      /\ OfIn(tokens) = "BLOCKS" /\ OfIn(tokens') = "BLOCKS"
      /\ \A i \in 1..L : tokens'[i] = tokens[i]
  BY DEF InSection, Grows
<1>2. /\ b \in Nat /\ b >= 2 /\ b \in 2..(L - 1) /\ BeginsIn(tokens, b)
      /\ EndedBefore(tokens, b) /\ \A k \in b..(L - 1) : NameIn(tokens, k) # "ENDBLK"
      /\ tokens[b].complete = block.published /\ Within(events, 0, b + 1)
  BY <1>1 DEF BlockOpen
<1>3. EndedBefore(tokens', b) /\ BlocksIn(tokens', b) = BlocksIn(tokens, b)
  <2>1. b <= L /\ \A a \in 2..(b - 1) : tokens'[a].complete = tokens[a].complete
    BY <1>1, <1>2
  <2>2. QED BY <1>1, <1>2, <2>1, EndedBlocksStay
<1>4. BeginsIn(tokens', b) /\ tokens'[b] = tokens[b]
  BY <1>1, <1>2, BeginsAgree
<1>5. \A k \in b..L : NameIn(tokens', k) # "ENDBLK"
  BY <1>1, <1>2 DEF Extended
<1>6. BlockOpen(b)'
  <2>1. b \in 2..(Len(tokens') - 1)
    BY <1>1, <1>2
  <2>2. \A k \in b..(Len(tokens') - 1) : NameIn(tokens', k) # "ENDBLK"
    BY <1>1, <1>5
  <2>3. QED BY <1>2, <1>3, <1>4, <2>1, <2>2 DEF BlockOpen
<1>7. /\ BlockIn(tokens, b) = {Shape("addBlock", b, <<>>)}
      /\ BlockIn(tokens', b) = {Shape("addBlock", b, <<>>)}
  <2>1. \A k \in b..(Len(tokens') - 1) : NameIn(tokens', k) # "ENDBLK"
    BY <1>1, <1>5
  <2>2. QED BY <1>1, <1>2, <2>1, OpenBlockIn
<1>8. /\ BlocksIn(tokens, L) =
           BlocksIn(tokens, b) \cup (IF tokens[b].complete THEN BlockIn(tokens, b) ELSE {})
      /\ BlocksIn(tokens', L + 1) =
           BlocksIn(tokens', b) \cup (IF tokens'[b].complete THEN BlockIn(tokens', b) ELSE {})
  <2>1. /\ b < L /\ b < L + 1 /\ L + 1 \in Nat
        /\ \A k \in b..(L - 2) : NameIn(tokens, k) # "ENDBLK"
        /\ \A k \in b..(L + 1 - 2) : NameIn(tokens', k) # "ENDBLK"
    BY <1>1, <1>2, <1>5
  <2>2. QED BY <1>1, <1>2, <1>4, <2>1, LastBlock
<1>9. DueIn(tokens') = DueIn(tokens)
  BY <1>1, <1>3, <1>4, <1>7, <1>8, DueCases
<1>10. Heard(events', tokens')
  BY <1>9 DEF Heard, InSection
<1>11. QED BY <1>6, <1>10

LEMMA ChildFollows ==
  ASSUME InSection, section = "BLOCKS", block.stage = "children",
         NEW b \in 2..Len(tokens), AtChildren(b), NEW n, Grows(n), n # "ENDSEC", Follow(n),
         block \in [stage : Stages, handle : HandlesOrNone, published : BOOLEAN],
         parent' = NoParent, result' = result, events' = events,
         FreeIn(tokens', b, Len(tokens')),
         ShapesOf(staged') = StagedIn(tokens', b, Len(tokens')), InOrder(staged'),
         Within(staged', b, Len(tokens'))
  PROVE  (WhereInv /\ DueInv)'
<1> DEFINE L == Len(tokens)
<1>1. /\ result' = "reading" /\ L \in Nat /\ Len(tokens') = L + 1 /\ ~EndedIn(tokens')
      /\ NameIn(tokens', Len(tokens')) = n /\ section' = "BLOCKS"
      /\ record'.at = Len(tokens') /\ record'.name = n
      /\ block'.published = block.published
      /\ block'.stage = IF n = "ENDBLK" THEN "footer" ELSE "children"
  BY DEF InSection, Grows, Follow, NewRecord
<1>2. Here(tokens', parent') = Len(tokens')
  BY DEF Here
<1>3. NameIn(tokens, L) # "ENDBLK" /\ BlockOpen(b)
  BY DEF AtChildren, EntityAt
<1>4. BlockOpen(b)' /\ Heard(events', tokens')
  BY <1>1, <1>2, <1>3, BlockStaysOpen
<1>5. b \in 2..Len(tokens') /\ b < Len(tokens')
  BY <1>1
<1>6. CASE n = "ENDBLK"
  <2>1. AtFooter(b)'
    BY <1>1, <1>4, <1>6 DEF AtFooter
  <2>2. AtBlocks'
    BY <1>1, <1>5, <1>6, <2>1 DEF AtBlocks
  <2>3. AtSection' /\ ~EndedIn(tokens)'
    BY <1>1, <2>2 DEF AtSection
  <2>4. QED BY <1>1, <1>4, <2>3 DEF WhereInv, DueInv
<1>7. CASE n # "ENDBLK"
  <2>1. EntityAt(tokens', b, record', parent')
    BY <1>1, <1>2, <1>5 DEF EntityAt
  <2>2. AtChildren(b)'
    BY <1>1, <1>4, <1>7, <2>1 DEF AtChildren
  <2>3. AtBlocks'
    BY <1>1, <1>5, <1>7, <2>2 DEF AtBlocks
  <2>4. AtSection' /\ ~EndedIn(tokens)'
    BY <1>1, <2>3 DEF AtSection
  <2>5. QED BY <1>1, <1>4, <2>4 DEF WhereInv, DueInv
<1>8. QED BY <1>6, <1>7

LEMMA ChildStaged ==
  ASSUME TypeInv, InSection, section = "BLOCKS", block.stage = "children",
         NEW b \in 2..Len(tokens), AtChildren(b), NEW n, Grows(n),
         result' = result, Completes(b, n)
  PROVE  (WhereInv /\ DueInv)'
<1>1. PICK r, parts, h :
        /\ Deliver(r, parts, h) /\ parts \in Seq(Nat) /\ h \in HandlesOrNone
        /\ r.at = Here(tokens, parent) /\ r.name = NameIn(tokens, Here(tokens, parent))
        /\ FreeIn(tokens', b, Len(tokens'))
        /\ EntitiesIn(tokens', b, Len(tokens')) =
             EntitiesIn(tokens, b, Len(tokens)) \cup {Shape("add", r.at, parts)}
        /\ parent' = NoParent /\ Follow(n) /\ AcceptsBoundary(n)
  BY DEF Completes
<1>2. InBlock /\ n # "ENDSEC"
  BY <1>1 DEF InBlock, AcceptsBoundary
<1>3. /\ tokens \in Seq(TokenSet) /\ tokens' \in Seq(TokenSet) /\ Extended(tokens, tokens')
      /\ Len(tokens) \in Nat /\ Len(tokens') = Len(tokens) + 1 /\ b \in Nat
      /\ staged \in Seq(Calls)
      /\ block \in [stage : Stages, handle : HandlesOrNone, published : BOOLEAN]
  BY DEF InSection, Grows, TypeInv, CallbackTypeOK, ProcessorTypeOK
<1>4. r.at \in Nat /\ b < r.at /\ r.at <= Len(tokens)
  BY <1>1, <1>3, HereIsRead DEF AtChildren
<1> DEFINE c == Callback("add", r.at, parts, h)
<1>5. c \in Calls /\ c.at = r.at /\ ShapeOf(c) = Shape("add", r.at, parts)
  BY <1>1, <1>4, CallOf
<1>6. /\ staged' = IF r.name \in Unstaged THEN staged ELSE Append(staged, c)
      /\ events' = events
  BY <1>1, <1>2 DEF Deliver
<1> HIDE DEF c
<1>7. /\ ShapesOf(staged) = StagedIn(tokens, b, Len(tokens)) /\ InOrder(staged)
      /\ Within(staged, b, r.at)
  BY <1>1 DEF AtChildren, BlockOpen
<1>8. StagedIn(tokens', b, Len(tokens')) =
        StagedIn(tokens, b, Len(tokens))
          \cup (IF r.name \in Unstaged THEN {} ELSE {ShapeOf(c)})
  <2> DEFINE e == Shape("add", r.at, parts)
  <2>1. e.at = r.at /\ e.at \in 1..Len(tokens) /\ NameIn(tokens, e.at) = r.name
    BY <1>1, <1>3, <1>4 DEF Shape
  <2>2. EntitiesIn(tokens', b, Len(tokens')) = EntitiesIn(tokens, b, Len(tokens)) \cup {e}
    BY <1>1
  <2>3. ShapeOf(c) = e
    BY <1>5
  <2>4. Len(tokens') \in Nat /\ Len(tokens) <= Len(tokens)
    BY <1>3
  <2> HIDE DEF e
  <2>5. StagedIn(tokens', b, Len(tokens')) =
          StagedIn(tokens, b, Len(tokens))
            \cup (IF NameIn(tokens, e.at) \in Unstaged THEN {} ELSE {e})
    <3>1. /\ tokens \in Seq(TokenSet) /\ tokens' \in Seq(TokenSet)
          /\ Extended(tokens, tokens') /\ b \in Nat /\ Len(tokens) \in Nat
      BY <1>3
    <3>2. e.at \in 1..Len(tokens)
      BY <2>1
    <3>3. QED BY <2>2, <2>4, <3>1, <3>2, StagedGrows
  <2>6. QED BY <2>1, <2>3, <2>5
<1>9. ShapesOf(staged') = StagedIn(tokens', b, Len(tokens'))
  <2>1. c.at # 0
    BY <1>4, <1>5
  <2>2. ShapesOf(Append(staged, c)) = ShapesOf(staged) \cup {ShapeOf(c)}
    BY <1>3, <1>5, <2>1, ShapesAppend
  <2>3. QED BY <1>6, <1>7, <1>8, <2>2
<1>10. InOrder(staged') /\ Within(staged', b, Len(tokens'))
  <2>1. CASE r.name \in Unstaged
    <3>1. r.at <= Len(tokens') /\ Len(tokens') \in Nat
      BY <1>3, <1>4
    <3>2. QED BY <1>3, <1>4, <1>6, <1>7, <2>1, <3>1, WithinMore
  <2>2. CASE r.name \notin Unstaged
    <3>1. InOrder(Append(staged, c)) /\ Within(Append(staged, c), b, r.at + 1)
      <4>1. r.at <= c.at
        BY <1>4, <1>5
      <4>2. QED BY <1>3, <1>4, <1>5, <1>7, <4>1, OrderAppend
    <3>2. r.at + 1 <= Len(tokens') /\ Len(tokens') \in Nat /\ r.at + 1 \in Nat
          /\ Append(staged, c) \in Seq(Calls)
      BY <1>3, <1>4, <1>5
    <3>3. QED BY <1>3, <1>6, <2>2, <3>1, <3>2, WithinMore
  <2>3. QED BY <2>1, <2>2
<1>11. QED BY <1>1, <1>2, <1>3, <1>6, <1>9, <1>10, ChildFollows

LEMMA ChildWaits ==
  ASSUME TypeInv, InSection, section = "BLOCKS", block.stage = "children",
         NEW b \in 2..Len(tokens), AtChildren(b), NEW n, Grows(n), n # "ENDSEC", GoesOn(b)
  PROVE  (WhereInv /\ DueInv)'
<1>1. /\ tokens \in Seq(TokenSet) /\ tokens' \in Seq(TokenSet) /\ Extended(tokens, tokens')
      /\ Len(tokens) \in Nat /\ Len(tokens') = Len(tokens) + 1 /\ b \in Nat
      /\ result' = "reading" /\ section' = "BLOCKS" /\ ~EndedIn(tokens')
      /\ UNCHANGED <<block, events, staged>>
  BY DEF InSection, Grows, GoesOn
<1>2. StagedIn(tokens', b, Len(tokens')) = StagedIn(tokens, b, Len(tokens))
  <2>1. Len(tokens) <= Len(tokens)
    BY <1>1
  <2>2. EntitiesIn(tokens', b, Len(tokens')) = EntitiesIn(tokens, b, Len(tokens))
    BY DEF GoesOn
  <2>3. QED BY <1>1, <2>1, <2>2, StagedSame
<1>3. /\ ShapesOf(staged') = StagedIn(tokens', b, Len(tokens')) /\ InOrder(staged')
      /\ Within(staged', b, Here(tokens', parent'))
      /\ NameIn(tokens, Len(tokens)) # "ENDBLK" /\ BlockOpen(b)
  BY <1>1, <1>2 DEF AtChildren, BlockOpen, GoesOn, EntityAt
<1>4. BlockOpen(b)' /\ Heard(events', tokens')
  BY <1>1, <1>3, BlockStaysOpen
<1>5. AtChildren(b)'
  BY <1>4 DEF AtChildren, GoesOn
<1>6. b \in 2..Len(tokens')
  BY <1>1
<1>7. AtBlocks'
  BY <1>1, <1>5, <1>6 DEF AtBlocks
<1>8. AtSection' /\ ~EndedIn(tokens)'
  BY <1>1, <1>7 DEF AtSection
<1>9. QED BY <1>1, <1>4, <1>8 DEF WhereInv, DueInv

LEMMA BlockChildren ==
  ASSUME TypeInv, EventsInv, section \notin {"ENTITIES", "OBJECTS"}, NEW n \in Names,
         \/ FirstRecord(n) \/ EndParts(n)
         \/ \E h \in HandlesOrNone : EndRecord(n, h) \/ BeginParts(n, h) \/ NextPart(n, h)
  PROVE  (WhereInv /\ DueInv)'
<1>1. /\ InBlock /\ InEntities /\ block.stage = "children" /\ section = "BLOCKS"
      /\ result = "reading" /\ Read(n) /\ result' = result /\ ~FirstRecord(n)
  BY DEF FirstRecord, EndParts, EndRecord, BeginParts, NextPart, IsPart, InEntities,
     InBlock, EventsInv, PlaceInv, Read
<1>2. InSection
  BY <1>1, NowInSection
<1>3. Grows(n) /\ AtBlocks
  BY <1>1, <1>2, ReadGrows DEF InSection, AtSection
<1>4. PICK b \in 2..Len(tokens) : AtChildren(b)
  BY <1>1, <1>3 DEF AtBlocks
<1>5. EntityAt(tokens, b, record, parent) /\ b \in Nat
  BY <1>2, <1>4 DEF AtChildren, InSection
<1>6. CASE EndParts(n) \/ \E h \in HandlesOrNone : EndRecord(n, h)
  <2>1. Completes(b, n)
    BY <1>1, <1>2, <1>3, <1>5, <1>6, RecordCompletes, PartsComplete
  <2>2. QED BY <1>1, <1>2, <1>3, <1>4, <2>1, ChildStaged
<1>7. CASE \E h \in HandlesOrNone : BeginParts(n, h) \/ NextPart(n, h)
  <2>1. GoesOn(b)
    BY <1>2, <1>3, <1>5, <1>7, FirstPart, AnotherPart
  <2>2. n # "ENDSEC"
    BY <1>7, NamedParts DEF BeginParts, NextPart
  <2>3. QED BY <1>1, <1>2, <1>3, <1>4, <2>1, <2>2, ChildWaits
<1>8. QED BY <1>1, <1>6, <1>7

---------------------------------------------------------------------------
(* Blocks.                                                                   *)

LEMMA BlocksStart ==
  ASSUME TypeInv, EventsInv, NEW n \in Names, BlocksBoundary(n)
  PROVE  (WhereInv /\ DueInv)'
<1>1. /\ result = "reading" /\ section = "BLOCKS" /\ block.stage = "none" /\ Read(n)
      /\ UNCHANGED <<result, parent, events>>
  BY DEF BlocksBoundary, Read
<1>2. InSection /\ AtBlocks
  BY <1>1, NowInSection DEF InSection, AtSection
<1>3. /\ Len(tokens) = 1 /\ pending = "none" /\ events = <<>> /\ parent = NoParent
  BY <1>1, <1>2 DEF AtBlocks
<1>4. Grows(n)
  BY <1>1, <1>2, ReadGrows
<1>5. /\ Len(tokens') = 2 /\ OfIn(tokens') = "BLOCKS" /\ NameIn(tokens', 2) = n
      /\ EndedIn(tokens') <=> n = "ENDSEC"
  BY <1>1, <1>3, <1>4 DEF Grows
<1>6. Heard(events', tokens')
  <2>1. BlocksIn(tokens', 2) = {}
    <3>1. {i \in 2..(2 - 1) : BeginsIn(tokens', i) /\ tokens'[i].complete} = {}
      OBVIOUS
    <3>2. QED BY <3>1 DEF BlocksIn
  <2>2. DueIn(tokens') = {}
    BY <1>5, <2>1, DueCases
  <2>3. QED BY <1>1, <1>3, <2>2, NothingHeard DEF Heard
<1>7. CASE n = "ENDSEC"
  <2>1. section' = "none"
    BY <1>3, <1>7 DEF BlocksBoundary
  <2>2. QED BY <1>1, <1>5, <1>6, <1>7, <2>1 DEF WhereInv, DueInv
<1>8. CASE n # "ENDSEC"
  <2>1. /\ n = "BLOCK" /\ section' = "BLOCKS" /\ record' = NewRecord(n)
        /\ block'.stage = "head"
    BY <1>1, <1>3, <1>8 DEF BlocksBoundary, BeginBlock
  <2>2. record'.at = 2
    BY <1>3, <2>1 DEF NewRecord
  <2>3. BeginsIn(tokens', 2) /\ EndedBefore(tokens', 2)
    BY <1>5, <2>1 DEF BeginsIn, EndedBefore
  <2>4. AtHead'
    BY <1>1, <1>3, <1>5, <2>2, <2>3, NothingHeard DEF AtHead
  <2>5. AtBlocks'
    BY <2>1, <2>4 DEF AtBlocks
  <2>6. AtSection' /\ ~EndedIn(tokens)'
    BY <1>5, <1>8, <2>1, <2>5 DEF AtSection
  <2>7. QED BY <1>1, <1>6, <2>1, <2>6 DEF WhereInv, DueInv
<1>9. QED BY <1>7, <1>8

\* The ghost notes whether the BLOCK read last has a name.
Noted(q, l, named) == [q EXCEPT ![l].complete = named]

LEMMA NotedName ==
  ASSUME NEW q \in Seq(TokenSet), NEW l \in Nat, l = Len(q), l >= 1,
         NameIn(q, l) # "ENDSEC", NEW named \in BOOLEAN, NEW n \in Names
  PROVE  \E r \in Seq(TokenSet) :
           /\ r = Follows(Noted(q, l, named), n)
           /\ Len(r) = l + 1 /\ Extended(q, r) /\ OfIn(r) = OfIn(q)
           /\ \A a \in 1..(l - 1) : r[a] = q[a]
           /\ r[l].complete = named /\ NameIn(r, l + 1) = n
<1> DEFINE p == [q EXCEPT ![l].complete = named]
           t == Token(n, "none")
           r == Append(p, t)
<1>1. DOMAIN q = 1..l /\ \A i \in 1..l : q[i] \in TokenSet
  BY LenProperties, ElementOfSeq
<1>2. p \in Seq(TokenSet) /\ DOMAIN p = 1..l /\ Len(p) = l
  <2>1. p \in [1..l -> TokenSet]
    <3>1. [q[l] EXCEPT !.complete = named] \in TokenSet
      BY <1>1 DEF TokenSet
    <3>2. q \in [1..l -> TokenSet]
      BY LenProperties
    <3>3. QED BY <3>1, <3>2
  <2>2. QED BY <1>1, <2>1, SeqDef, LenProperties
<1>3. /\ \A a \in 1..(l - 1) : p[a] = q[a]
      /\ p[l] = [q[l] EXCEPT !.complete = named]
  BY <1>1
<1>4. p[l].complete = named /\ p[l].name = q[l].name /\ p[l].of = q[l].of
  BY <1>1, <1>3 DEF TokenSet
<1>5. \A i \in 1..l : p[i].name = q[i].name /\ p[i].of = q[i].of
  BY <1>1, <1>3, <1>4
<1>6. t \in TokenSet /\ t.name = n
  BY TokenTyped DEF Token
<1>7. r = Follows(p, n)
  <2>1. p # <<>> /\ p[Len(p)].name # "ENDSEC"
    BY <1>1, <1>2, <1>4 DEF NameIn
  <2>2. QED BY <2>1 DEF Follows
<1> HIDE DEF p, t
<1>8. /\ r \in Seq(TokenSet) /\ Len(r) = Len(p) + 1
      /\ \A i \in 1..Len(p) : NameIn(r, i) = NameIn(p, i) /\ r[i] = p[i]
      /\ NameIn(r, Len(p) + 1) = t.name
  BY <1>2, <1>6, NamesOfAppend
<1> HIDE DEF r
<1>9. /\ r \in Seq(TokenSet) /\ Len(r) = l + 1
      /\ \A i \in 1..l : NameIn(r, i) = NameIn(p, i) /\ r[i] = p[i]
      /\ NameIn(r, l + 1) = n
  BY <1>2, <1>6, <1>8
<1>10. Extended(q, r)
  <2>1. \A i \in 1..l : NameIn(p, i) = NameIn(q, i)
    BY <1>1, <1>2, <1>5 DEF NameIn
  <2>2. QED BY <1>9, <2>1 DEF Extended
<1>11. OfIn(r) = OfIn(q)
  <2>1. r # <<>> /\ q # <<>> /\ r[1].of = q[1].of
    <3>1. 1 \in 1..l /\ l + 1 # 0 /\ l # 0 /\ Len(<<>>) = 0
      OBVIOUS
    <3>2. r # <<>> /\ q # <<>>
      BY <1>9, <3>1
    <3>3. QED BY <1>5, <1>9, <3>1, <3>2
  <2>2. QED BY <2>1 DEF OfIn
<1>12. /\ \A a \in 1..(l - 1) : r[a] = q[a]
       /\ r[l].complete = named
  <2>1. l \in 1..l /\ \A a \in 1..(l - 1) : a \in 1..l
    OBVIOUS
  <2>2. QED BY <1>3, <1>4, <1>9, <2>1
<1>13. r = Follows(Noted(q, l, named), n)
  BY <1>7 DEF p, Noted
<1>14. QED BY <1>9, <1>10, <1>11, <1>12, <1>13

LEMMA BlockOpens ==
  ASSUME TypeInv, EventsInv, NEW n \in Names, NEW h \in HandlesOrNone, NEW named \in BOOLEAN,
         EndBlockHead(n, h, named)
  PROVE  (WhereInv /\ DueInv)'
<1>1. /\ result = "reading" /\ result' = "reading" /\ block.stage = "head" /\ n # "ENDSEC"
      /\ section = "BLOCKS" /\ section' = "BLOCKS" /\ parent' = parent /\ staged' = <<>>
      /\ tokens' = Follows([tokens EXCEPT ![Len(tokens)].complete = named], n)
      /\ record' = NewRecord(n)
      /\ block'.stage = IF n = "ENDBLK" THEN "footer" ELSE "children"
      /\ block'.published = named
      /\ events' = IF named THEN Append(events, Callback("addBlock", record.at, <<>>,
                                                         HandleRead(h)))
                   ELSE events
  BY DEF EndBlockHead, EventsInv, PlaceInv
<1>2. InSection /\ AtHead
  <2>1. InSection
    BY <1>1, NowInSection
  <2>2. QED BY <1>1, <2>1 DEF InSection, AtSection, AtBlocks
<1>3. PICK b \in Nat : b = Len(tokens)
  BY <1>2 DEF InSection
<1>4. /\ tokens \in Seq(TokenSet) /\ b >= 2 /\ BeginsIn(tokens, b) /\ EndedBefore(tokens, b)
      /\ Within(events, 0, b) /\ record.at = b /\ parent = NoParent
      /\ Heard(events, tokens) /\ OfIn(tokens) = "BLOCKS" /\ events \in Seq(Calls)
  BY <1>1, <1>2, <1>3 DEF InSection, AtHead, TypeInv, CallbackTypeOK
<1>5. NameIn(tokens, b) = "BLOCK"
  BY <1>4 DEF BeginsIn
<1>6. /\ tokens' \in Seq(TokenSet) /\ Len(tokens') = b + 1 /\ Extended(tokens, tokens')
      /\ OfIn(tokens') = "BLOCKS" /\ \A a \in 1..(b - 1) : tokens'[a] = tokens[a]
      /\ tokens'[b].complete = named /\ NameIn(tokens', b + 1) = n
  <2>1. b >= 1 /\ NameIn(tokens, b) # "ENDSEC" /\ tokens \in Seq(TokenSet)
    BY <1>4, <1>5
  <2>2. PICK r \in Seq(TokenSet) :
          /\ r = Follows(Noted(tokens, b, named), n)
          /\ Len(r) = b + 1 /\ Extended(tokens, r) /\ OfIn(r) = OfIn(tokens)
          /\ \A a \in 1..(b - 1) : r[a] = tokens[a]
          /\ r[b].complete = named /\ NameIn(r, b + 1) = n
    BY <1>3, <2>1, NotedName
  <2>3. tokens' = r
    BY <1>1, <1>3, <2>2 DEF Noted
  <2>4. QED BY <1>4, <2>2, <2>3
<1>7. EndedBefore(tokens', b) /\ BlocksIn(tokens', b) = BlocksIn(tokens, b)
  <2>1. OfIn(tokens') = OfIn(tokens) /\ b <= Len(tokens)
        /\ \A a \in 2..(b - 1) : tokens'[a].complete = tokens[a].complete
    BY <1>3, <1>4, <1>6
  <2>2. QED BY <1>4, <1>6, <2>1, EndedBlocksStay
<1>8. BeginsIn(tokens', b) /\ NameIn(tokens', b) = "BLOCK"
  <2>1. b \in 2..Len(tokens) /\ OfIn(tokens') = OfIn(tokens) /\ b \in 1..Len(tokens)
    BY <1>3, <1>4, <1>6
  <2>2. QED BY <1>4, <1>5, <1>6, <2>1, BeginsAgree DEF Extended
<1>9. BlockIn(tokens', b) = {Shape("addBlock", b, <<>>)}
  <2>1. \A k \in b..(Len(tokens') - 1) : NameIn(tokens', k) # "ENDBLK"
    BY <1>6, <1>8
  <2>2. QED BY <1>6, <2>1, OpenBlockIn
<1>10. BlocksIn(tokens', b + 1) =
         BlocksIn(tokens', b) \cup (IF tokens'[b].complete THEN BlockIn(tokens', b) ELSE {})
  <2>1. b + 1 \in Nat /\ b < b + 1 /\ \A k \in b..(b + 1 - 2) : NameIn(tokens', k) # "ENDBLK"
    OBVIOUS
  <2>2. QED BY <1>4, <1>6, <1>8, <2>1, LastBlock
<1>11. DueIn(tokens') =
         DueIn(tokens) \cup (IF named THEN {Shape("addBlock", b, <<>>)} ELSE {})
  <2>1. DueIn(tokens) = BlocksIn(tokens, b) /\ DueIn(tokens') = BlocksIn(tokens', b + 1)
    BY <1>3, <1>4, <1>6, DueCases
  <2>2. QED BY <1>6, <1>7, <1>9, <1>10, <2>1
<1>12. Heard(events', tokens') /\ Within(events', 0, b + 1)
  <2>1. CASE named
    <3> DEFINE c == Callback("addBlock", b, <<>>, HandleRead(h))
    <3>1. c \in Calls
      <4>1. <<>> \in Seq(Nat) /\ HandleRead(h) \in HandlesOrNone /\ "addBlock" \in Methods
        BY HandleReadTyped DEF Methods
      <4>2. QED BY <4>1, CallIsTyped
    <3>2. c.at = b /\ ShapeOf(c) = Shape("addBlock", b, <<>>) /\ events' = Append(events, c)
      BY <1>1, <1>4, <2>1 DEF Callback, ShapeOf, Shape
    <3> HIDE DEF c
    <3>3. DueIn(tokens') = DueIn(tokens) \cup {ShapeOf(c)}
      BY <1>11, <2>1, <3>2
    <3>4. 0 < b /\ b <= c.at
      BY <1>4, <3>2
    <3>5. Heard(events', tokens') /\ Within(events', 0, c.at + 1)
      BY <1>4, <3>1, <3>2, <3>3, <3>4, HeardAppend
    <3>6. QED BY <3>2, <3>5
  <2>2. CASE ~named
    <3>1. events' = events /\ DueIn(tokens') = DueIn(tokens)
      BY <1>1, <1>11, <2>2
    <3>2. Within(events, 0, b + 1)
      <4>1. b + 1 \in Nat /\ b <= b + 1
        OBVIOUS
      <4>2. QED BY <1>2, <1>4, <4>1, WithinLonger
    <3>3. QED BY <1>4, <3>1, <3>2 DEF Heard
  <2>3. QED BY <2>1, <2>2
<1>13. StagedIn(tokens', b, b + 1) = {} /\ FreeIn(tokens', b, b + 1)
  BY NoEntities, StartsFree DEF StagedIn
<1>14. Here(tokens', parent') = b + 1 /\ parent' = NoParent
  BY <1>1, <1>4, <1>6 DEF Here
<1>15. BlockOpen(b)'
  <2>1. b \in 2..(Len(tokens') - 1)
    BY <1>4, <1>6
  <2>2. \A k \in b..(Len(tokens') - 1) : NameIn(tokens', k) # "ENDBLK"
    BY <1>6, <1>8
  <2>3. /\ ShapesOf(staged') = StagedIn(tokens', b, Len(tokens')) /\ InOrder(staged')
        /\ Within(staged', b, Here(tokens', parent'))
    BY <1>1, <1>6, <1>13, NothingHeard
  <2>4. tokens'[b].complete = block'.published
    BY <1>1, <1>6
  <2>5. QED BY <1>7, <1>8, <1>12, <2>1, <2>2, <2>3, <2>4 DEF BlockOpen
<1>16. /\ record'.at = Len(tokens') /\ record'.name = n /\ b \in 2..Len(tokens')
       /\ n = NameIn(tokens', Len(tokens'))
  BY <1>1, <1>3, <1>4, <1>6 DEF NewRecord
<1>17. ~EndedIn(tokens)'
  BY <1>1, <1>16 DEF EndedIn
<1>18. CASE n = "ENDBLK"
  <2>1. AtFooter(b)'
    BY <1>6, <1>13, <1>14, <1>15, <1>16, <1>18 DEF AtFooter
  <2>2. AtBlocks'
    BY <1>1, <1>16, <1>18, <2>1 DEF AtBlocks
  <2>3. AtSection'
    BY <1>1, <2>2 DEF AtSection
  <2>4. QED BY <1>1, <1>12, <1>17, <2>3 DEF WhereInv, DueInv
<1>19. CASE n # "ENDBLK"
  <2>1. EntityAt(tokens', b, record', parent')
    BY <1>6, <1>13, <1>14, <1>16 DEF EntityAt
  <2>2. AtChildren(b)'
    BY <1>15, <1>16, <1>19, <2>1 DEF AtChildren
  <2>3. AtBlocks'
    BY <1>1, <1>16, <1>19, <2>2 DEF AtBlocks
  <2>4. AtSection'
    BY <1>1, <2>3 DEF AtSection
  <2>5. QED BY <1>1, <1>12, <1>17, <2>4 DEF WhereInv, DueInv
<1>20. QED BY <1>18, <1>19

---------------------------------------------------------------------------
(* The end of a block.                                                       *)

\* What the ENDBLK of a block makes due: its children, and endBlock() for it.
LEMMA FooterIsDue ==
  ASSUME InSection, section = "BLOCKS", NEW b \in Nat, AtFooter(b), NEW n, Grows(n)
  PROVE  /\ DueIn(tokens') = DueIn(tokens) \cup
              (IF block.published
               THEN ShapesOf(staged) \cup {Shape("endBlock", Len(tokens), <<>>)} ELSE {})
         /\ EndedBefore(tokens', Len(tokens'))
         /\ n = "BLOCK" => BeginsIn(tokens', Len(tokens'))
<1>1. PICK l \in Nat : l = Len(tokens)
  BY DEF InSection
<1>2. /\ b \in 2..(l - 1) /\ BeginsIn(tokens, b) /\ EndedBefore(tokens, b)
      /\ \A k \in b..(l - 1) : NameIn(tokens, k) # "ENDBLK"
      /\ tokens[b].complete = block.published
      /\ ShapesOf(staged) = StagedIn(tokens, b, l)
      /\ FreeIn(tokens, b, l) /\ NameIn(tokens, l) = "ENDBLK"
  BY <1>1 DEF AtFooter, BlockOpen
<1>3. /\ tokens \in Seq(TokenSet) /\ OfIn(tokens) = "BLOCKS"
      /\ tokens' \in Seq(TokenSet) /\ Len(tokens') = l + 1 /\ Extended(tokens, tokens')
      /\ OfIn(tokens') = OfIn(tokens) /\ \A i \in 1..l : tokens'[i] = tokens[i]
      /\ NameIn(tokens', l + 1) = n
  BY <1>1 DEF InSection, Grows
<1>4. /\ b < l /\ b >= 2 /\ b < l + 1 /\ l + 1 \in Nat /\ l <= l /\ b <= l /\ b \in 1..l
      /\ b > 0 /\ b \in 2..l
  BY <1>2
<1>5. EndedBefore(tokens', b) /\ BlocksIn(tokens', b) = BlocksIn(tokens, b)
  <2>1. \A a \in 2..(b - 1) : tokens'[a].complete = tokens[a].complete
    BY <1>3, <1>4
  <2>2. b <= Len(tokens)
    BY <1>1, <1>4
  <2>3. QED BY <1>2, <1>3, <2>1, <2>2, EndedBlocksStay
<1>6. BeginsIn(tokens', b)
  <2>1. b \in 2..Len(tokens)
    BY <1>1, <1>4
  <2>2. QED BY <1>2, <1>3, <2>1, BeginsAgree
<1>7. \A k \in 1..l : NameIn(tokens', k) = NameIn(tokens, k)
  BY <1>1, <1>3 DEF Extended
<1>8. /\ NameIn(tokens', l) = "ENDBLK"
      /\ \A k \in b..(l - 1) : NameIn(tokens', k) # "ENDBLK"
  BY <1>2, <1>4, <1>7
<1>9. IsFooterIn(tokens', b, l)
  BY <1>4, <1>8 DEF IsFooterIn
<1>10. FreeIn(tokens', b, l) /\ StagedIn(tokens', b, l) = StagedIn(tokens, b, l)
  <2>1. l <= Len(tokens)
    BY <1>1
  <2>2. QED BY <1>2, <1>3, <2>1, StagedStay, EntitiesStay
<1>11. DueIn(tokens) =
         BlocksIn(tokens, b) \cup
           (IF tokens[b].complete THEN {Shape("addBlock", b, <<>>)} ELSE {})
  <2>1. BlockIn(tokens, b) = {Shape("addBlock", b, <<>>)}
    <3>1. \A k \in b..(Len(tokens) - 1) : NameIn(tokens, k) # "ENDBLK"
      BY <1>1, <1>2
    <3>2. QED BY <1>3, <3>1, OpenBlockIn
  <2>2. \A k \in b..(l - 2) : NameIn(tokens, k) # "ENDBLK"
    BY <1>2
  <2>3. BlocksIn(tokens, l) = BlocksIn(tokens, b) \cup
          (IF tokens[b].complete THEN BlockIn(tokens, b) ELSE {})
    BY <1>2, <1>3, <1>4, <2>2, LastBlock
  <2>4. DueIn(tokens) = BlocksIn(tokens, l)
    BY <1>1, <1>3, DueCases
  <2>5. QED BY <2>1, <2>3, <2>4
<1>12. DueIn(tokens') =
         BlocksIn(tokens, b) \cup
           (IF tokens[b].complete
            THEN {Shape("addBlock", b, <<>>), Shape("endBlock", l, <<>>)}
                   \cup StagedIn(tokens, b, l)
            ELSE {})
  <2>1. BlockIn(tokens', b) = {Shape("addBlock", b, <<>>), Shape("endBlock", l, <<>>)}
                                \cup StagedIn(tokens', b, l)
    <3>1. l < Len(tokens')
      BY <1>3
    <3>2. QED BY <1>3, <1>4, <1>9, <3>1, EndedBlockIn
  <2>2. \A k \in b..(l + 1 - 2) : NameIn(tokens', k) # "ENDBLK"
    BY <1>8
  <2>3. BlocksIn(tokens', l + 1) = BlocksIn(tokens', b) \cup
          (IF tokens'[b].complete THEN BlockIn(tokens', b) ELSE {})
    BY <1>3, <1>4, <1>6, <2>2, LastBlock
  <2>4. DueIn(tokens') = BlocksIn(tokens', l + 1)
    BY <1>3, DueCases
  <2>5. tokens'[b].complete = tokens[b].complete
    BY <1>3, <1>4
  <2>6. QED BY <1>5, <1>10, <2>1, <2>3, <2>4, <2>5
<1>13. DueIn(tokens') = DueIn(tokens) \cup
         (IF block.published
          THEN ShapesOf(staged) \cup {Shape("endBlock", Len(tokens), <<>>)} ELSE {})
  BY <1>1, <1>2, <1>11, <1>12
<1>14. EndedBefore(tokens', l + 1)
  <2> SUFFICES ASSUME NEW a \in 2..l, BeginsIn(tokens', a)
               PROVE  \E e \in (a + 1)..l : IsFooterIn(tokens', a, e) /\ FreeIn(tokens', a, e)
    BY <1>3 DEF EndedBefore
  <2>1. CASE a < b
    <3>1. a \in 2..(b - 1)
      BY <1>4, <2>1
    <3>2. \E e \in (a + 1)..(Len(tokens') - 1) :
            IsFooterIn(tokens', a, e) /\ FreeIn(tokens', a, e)
      BY <1>5, <3>1 DEF EndedBefore
    <3>3. QED BY <1>3, <3>2
  <2>2. CASE a = b
    BY <1>4, <1>9, <1>10, <2>2
  <2>3. CASE a > b
    <3>1. NameIn(tokens', a) = "BLOCK" /\ (a = 2 \/ NameIn(tokens', a - 1) = "ENDBLK")
      BY DEF BeginsIn
    <3>2. a - 1 \in b..(l - 1) /\ a # 2
      BY <1>4, <2>3
    <3>3. QED BY <1>8, <3>1, <3>2
  <2>4. QED BY <1>4, <2>1, <2>2, <2>3
<1>15. n = "BLOCK" => BeginsIn(tokens', l + 1)
  <2>1. (l + 1) - 1 = l
    OBVIOUS
  <2>2. QED BY <1>3, <1>8, <2>1 DEF BeginsIn
<1>16. QED BY <1>3, <1>13, <1>14, <1>15

\* The children of a block and its endBlock() are heard at its ENDBLK.
LEMMA FlushIsHeard ==
  ASSUME TypeInv, InSection, section = "BLOCKS", NEW b \in Nat, AtFooter(b),
         NEW n, Grows(n), NEW h \in HandlesOrNone,
         events' = events \o Flushed \o Footer(h)
  PROVE  Heard(events', tokens') /\ Within(events', 0, Len(tokens'))
<1>1. PICK l \in Nat : l = Len(tokens)
  BY DEF InSection
<1>2. /\ b \in 2..(l - 1) /\ Within(events, 0, b + 1) /\ InOrder(staged)
      /\ Within(staged, b, l) /\ record.at = l
  BY <1>1 DEF AtFooter, BlockOpen, Here
<1>3. /\ events \in Seq(Calls) /\ staged \in Seq(Calls) /\ Heard(events, tokens)
      /\ Len(tokens') = l + 1
  BY <1>1 DEF TypeInv, CallbackTypeOK, InSection, Grows
<1>4. DueIn(tokens') = DueIn(tokens) \cup
        (IF block.published
         THEN ShapesOf(staged) \cup {Shape("endBlock", l, <<>>)} ELSE {})
  BY <1>1, FooterIsDue
<1>5. CASE block.published
  <2> DEFINE x == Callback("endBlock", l, <<>>, h)
             d == Append(staged, x)
  <2>1. x \in Calls
    <3>1. <<>> \in Seq(Nat) /\ "endBlock" \in Methods
      BY DEF Methods
    <3>2. QED BY <3>1, CallIsTyped
  <2>2. x.at = l /\ ShapeOf(x) = Shape("endBlock", l, <<>>)
    BY DEF Callback, ShapeOf, Shape
  <2>3. events' = (events \o staged) \o <<x>>
    BY <1>2, <1>5 DEF Flushed, Footer
  <2> HIDE DEF x
  <2>4. events' = events \o d
    <3>1. (events \o staged) \o <<x>> = events \o (staged \o <<x>>)
      BY <1>3, <2>1
    <3>2. staged \o <<x>> = d
      BY <1>3, <2>1
    <3>3. QED BY <2>3, <3>1, <3>2
  <2>5. d \in Seq(Calls) /\ ShapesOf(d) = ShapesOf(staged) \cup {Shape("endBlock", l, <<>>)}
    <3>1. l # 0
      BY <1>2
    <3>2. QED BY <1>3, <2>1, <2>2, <3>1, ShapesAppend, AppendProperties
  <2>6. InOrder(d) /\ Within(d, b, l + 1)
    <3>1. l <= x.at /\ b < l
      BY <1>2, <2>2
    <3>2. InOrder(d) /\ Within(d, b, x.at + 1)
      BY <1>2, <1>3, <2>1, <3>1, OrderAppend
    <3>3. QED BY <2>2, <3>2
  <2> HIDE DEF d
  <2>7. DueIn(tokens') = DueIn(tokens) \cup ShapesOf(d)
    BY <1>4, <1>5, <2>5
  <2>8. b < l + 1 /\ l + 1 \in Nat
    BY <1>2
  <2>9. Heard(events \o d, tokens') /\ Within(events \o d, 0, l + 1)
    BY <1>2, <1>3, <2>5, <2>6, <2>7, <2>8, HeardConcat
  <2>10. QED BY <1>3, <2>4, <2>9
<1>6. CASE ~block.published
  <2>1. events' = (events \o <<>>) \o <<>>
    BY <1>6 DEF Flushed, Footer
  <2>2. events' = events
    BY <1>3, <2>1
  <2>3. Within(events, 0, l + 1)
    <3>1. b + 1 <= l + 1 /\ b + 1 \in Nat /\ l + 1 \in Nat
      BY <1>2
    <3>2. QED BY <1>2, <3>1, WithinLonger
  <2>4. QED BY <1>3, <1>4, <1>6, <2>2, <2>3 DEF Heard
<1>7. QED BY <1>5, <1>6

LEMMA BlockCloses ==
  ASSUME TypeInv, EventsInv, NEW n \in Names, NEW h \in HandlesOrNone, EndBlock(n, h)
  PROVE  (WhereInv /\ DueInv)'
<1>1. /\ result = "reading" /\ block.stage = "footer" /\ section = "BLOCKS" /\ Read(n)
      /\ events' = events \o Flushed \o Footer(h) /\ parent' = parent
  BY DEF EndBlock, EventsInv, PlaceInv, Read, Footer
<1>2. InSection
  BY <1>1, NowInSection
<1>3. Grows(n) /\ AtBlocks
  BY <1>1, <1>2, ReadGrows DEF InSection, AtSection
<1>4. PICK b \in 2..Len(tokens) : AtFooter(b)
  BY <1>1, <1>3 DEF AtBlocks
<1>5. b \in Nat /\ parent' = NoParent
  BY <1>1, <1>2, <1>4 DEF AtFooter
<1>6. Heard(events', tokens') /\ Within(events', 0, Len(tokens'))
  BY <1>1, <1>2, <1>3, <1>4, <1>5, FlushIsHeard
<1>7. EndedBefore(tokens', Len(tokens')) /\ (n = "BLOCK" => BeginsIn(tokens', Len(tokens')))
  BY <1>1, <1>2, <1>3, <1>4, <1>5, FooterIsDue
<1>8. DueInv'
  BY <1>6 DEF DueInv
<1>9. CASE n = "ENDSEC" /\ section' = "none"
  <2>1. EndedIn(tokens')
    BY <1>3, <1>9 DEF Grows
  <2>2. QED BY <1>8, <1>9, <2>1 DEF WhereInv
<1>10. CASE n = "BLOCK" /\ record' = NewRecord(n) /\ BeginBlock /\ UNCHANGED <<result, section>>
  <2>1. Len(tokens') = Len(tokens) + 1 /\ ~EndedIn(tokens')
    BY <1>3, <1>10 DEF Grows
  <2>2. record'.at = Len(tokens') /\ Len(tokens') >= 2
    BY <1>2, <1>10, <2>1 DEF NewRecord, InSection
  <2>3. AtHead'
    BY <1>5, <1>6, <1>7, <1>10, <2>2 DEF AtHead
  <2>4. AtBlocks'
    BY <1>10, <2>3 DEF AtBlocks, BeginBlock
  <2>5. AtSection'
    BY <1>1, <1>10, <2>4 DEF AtSection
  <2>6. QED BY <1>1, <1>8, <1>10, <2>1, <2>5 DEF WhereInv
<1>11. CASE result' = "failed"
  BY <1>8, <1>11 DEF WhereInv
<1>12. QED BY <1>9, <1>10, <1>11 DEF EndBlock

---------------------------------------------------------------------------
(* Sections kept as they are, failures, and every step.                      *)

LEMMA KeptSection ==
  ASSUME TypeInv, EventsInv, \/ \E n \in Names : KeepRecord(n)
                             \/ EndKeptSection
  PROVE  (WhereInv /\ DueInv)'
<1>1. result = "reading" /\ section = "other"
  BY DEF KeepRecord, EndKeptSection, Read
<1>2. InSection
  BY <1>1, NowInSection
<1>3. PICK l \in Nat : l = Len(tokens) /\ l >= 1
  BY <1>2 DEF InSection
<1>4. /\ events = <<>> /\ parent.parts = PartList(1, l + 1) /\ Heard(events, tokens)
      /\ OfIn(tokens) = "other" /\ ~EndedIn(tokens)
  BY <1>1, <1>2, <1>3 DEF InSection, AtSection, AtKept
<1>5. DueIn(tokens) = {}
  BY <1>4, DueCases
<1>6. 1 \in Nat /\ l + 1 \in Nat /\ 1 < l + 1
  BY <1>3
<1>7. /\ PartList(1, l + 1) \in Seq(Nat)
      /\ Append(PartList(1, l + 1), l + 1) = PartList(1, l + 1 + 1)
  BY <1>6, LongerPartList
<1>8. ASSUME NEW n \in Names, KeepRecord(n) PROVE (WhereInv /\ DueInv)'
  <2>1. n # "ENDSEC" /\ Read(n) /\ UNCHANGED <<result, section, events>>
        /\ parent' = [parent EXCEPT !.at = 1, !.parts = Append(@, Len(tokens) + 1)]
    BY <1>8 DEF KeepRecord
  <2>2. Grows(n)
    BY <1>2, <2>1, ReadGrows
  <2>3. Len(tokens') = l + 1 /\ OfIn(tokens') = "other" /\ ~EndedIn(tokens')
    BY <1>1, <1>3, <2>1, <2>2 DEF Grows
  <2>4. DueIn(tokens') = {}
    BY <2>3, DueCases
  <2>5. parent'.parts = PartList(1, Len(tokens') + 1)
    <3>1. parent'.parts = Append(parent.parts, l + 1)
      BY <1>3, <2>1 DEF TypeInv, ProcessorTypeOK
    <3>2. QED BY <1>4, <1>7, <2>3, <3>1
  <2>6. AtKept'
    BY <1>4, <2>1, <2>5 DEF AtKept
  <2>7. AtSection'
    BY <1>1, <2>1, <2>6 DEF AtSection
  <2>8. Heard(events', tokens')
    BY <1>4, <1>5, <2>1, <2>4 DEF Heard
  <2>9. QED BY <1>1, <2>1, <2>3, <2>7, <2>8 DEF WhereInv, DueInv
<1>9. CASE EndKeptSection
  <2> DEFINE x == Callback("addRawDxfSection", 1, PartList(1, l + 1), 0)
  <2>1. Read("ENDSEC") /\ "ENDSEC" \in Names /\ section' = "none" /\ result' = result
        /\ events' = Append(events, x)
    BY <1>4, <1>9, NameFacts DEF EndKeptSection, Keywords
  <2>2. Grows("ENDSEC")
    BY <1>2, <2>1, ReadGrows
  <2>3. Len(tokens') = l + 1 /\ OfIn(tokens') = "other" /\ EndedIn(tokens')
    BY <1>1, <1>3, <2>2 DEF Grows
  <2>4. x \in Calls
    BY <1>6, <1>7, CallIsTyped DEF Methods, HandlesOrNone
  <2>5. x.at = 1 /\ ShapeOf(x) = Shape("addRawDxfSection", 1, PartList(1, l + 1))
    BY DEF Callback, ShapeOf, Shape
  <2> HIDE DEF x
  <2>6. DueIn(tokens') = DueIn(tokens) \cup {ShapeOf(x)}
    <3>1. DueIn(tokens') = {Shape("addRawDxfSection", 1, PartList(1, l + 1))}
      BY <2>3, DueCases
    <3>2. QED BY <1>5, <2>5, <3>1
  <2>7. events \in Seq(Calls) /\ Within(events, 0, 1) /\ 0 < 1 /\ 1 <= x.at
    BY <1>4, <2>5, NothingHeard DEF TypeInv, CallbackTypeOK
  <2>8. Heard(Append(events, x), tokens')
    BY <1>4, <1>6, <2>4, <2>6, <2>7, HeardAppend
  <2>9. QED BY <2>1, <2>3, <2>8 DEF WhereInv, DueInv
<1>10. QED BY <1>8, <1>9

LEMMA ClosedHeard ==
  ASSUME TypeInv, DueInv, result = "reading", tokens' = tokens, events' = Closed
  PROVE  Heard(events', tokens')
<1>1. events \in Seq(Calls) /\ Heard(events, tokens)
  BY DEF TypeInv, CallbackTypeOK, DueInv
<1>2. CASE ~block.published
  BY <1>1, <1>2 DEF Closed
<1>3. CASE block.published
  <2> DEFINE x == Callback("endBlock", 0, <<>>, 0)
  <2>1. x \in Calls /\ x.at = 0
    <3>1. <<>> \in Seq(Nat)
      OBVIOUS
    <3>2. QED BY <3>1, CallIsTyped DEF Methods, HandlesOrNone, Callback
  <2>2. events' = Append(events, x)
    BY <1>3 DEF Closed
  <2> HIDE DEF x
  <2>3. ShapesOf(Append(events, x)) = ShapesOf(events)
    BY <1>1, <2>1, ShapesAppend
  <2>4. InOrder(Append(events, x))
    <3>1. /\ Len(events) \in Nat /\ DOMAIN Append(events, x) = 1..(Len(events) + 1)
          /\ DOMAIN events = 1..Len(events)
          /\ \A i \in 1..Len(events) : Append(events, x)[i] = events[i]
          /\ Append(events, x)[Len(events) + 1] = x
      BY <1>1, <2>1, AppendProperties, LenProperties
    <3> DEFINE c == Append(events, x)
    <3>2. DOMAIN c = 1..(Len(events) + 1) /\ c[Len(events) + 1].at = 0
          /\ \A i \in 1..Len(events) : c[i] = events[i]
      BY <2>1, <3>1
    <3> HIDE DEF c
    <3>3. InOrder(c)
      <4> SUFFICES ASSUME NEW i \in DOMAIN c, NEW j \in DOMAIN c, i < j, c[j].at # 0
                   PROVE  c[i].at < c[j].at
        BY DEF InOrder
      <4>1. j # Len(events) + 1
        BY <3>2
      <4>2. i \in 1..Len(events) /\ j \in 1..Len(events)
        BY <3>1, <3>2, <4>1
      <4>3. QED BY <1>1, <3>1, <3>2, <4>2 DEF Heard, InOrder
    <3>4. QED BY <3>3 DEF c
  <2>5. QED BY <1>1, <2>2, <2>3, <2>4 DEF Heard
<1>4. QED BY <1>2, <1>3

LEMMA ReadIsOver ==
  ASSUME TypeInv, EventsInv, \/ Fail \/ ParserThrows
                             \/ \E k \in 0..MaxRecords : FlushThrows(k)
  PROVE  (WhereInv /\ DueInv)'
<1>1. result = "reading" /\ tokens' = tokens /\ result' # "reading"
  BY DEF Fail, ParserThrows, FlushThrows, Left
<1>2. WhereInv'
  BY <1>1 DEF WhereInv
<1>3. CASE Fail \/ ParserThrows
  <2>1. events' = Closed
    BY <1>3 DEF Fail, ParserThrows
  <2>2. QED BY <1>1, <1>2, <2>1, ClosedHeard DEF DueInv, EventsInv
<1>4. CASE \E k \in 0..MaxRecords : FlushThrows(k)
  BY <1>2, <1>4 DEF FlushThrows, DueInv
<1>5. QED BY <1>3, <1>4

LEMMA EventsUnchanged ==
  ASSUME WhereInv, DueInv, UNCHANGED vars
  PROVE  (WhereInv /\ DueInv)'
<1>1. /\ UNCHANGED <<result, section, table, pending, record, parent, block, staged,
                     events, tokens>>
  BY DEF vars
<1>2. (AtEntities /\ AtObjects /\ AtClasses /\ AtKept) =
      (AtEntities /\ AtObjects /\ AtClasses /\ AtKept)'
  BY <1>1 DEF AtEntities, AtObjects, AtClasses, AtKept
<1>3. AtTables => AtTables'
  BY <1>1 DEF AtTables, RowsAt, BetweenRows, RowMethod
<1>4. AtBlocks => AtBlocks'
  BY <1>1 DEF AtBlocks, AtHead, AtChildren, AtFooter, BlockOpen
<1>5. AtSection => AtSection'
  BY <1>1, <1>3, <1>4 DEF AtSection, AtEntities, AtObjects, AtClasses, AtKept
<1>6. QED BY <1>1, <1>5 DEF WhereInv, DueInv

LEMMA RecordNames ==
  ASSUME TypeInv, NEW n \in Offered
  PROVE  n \in Names /\ n # "none"
<1>1. n \in Names
  BY OfferedNames DEF TypeInv
<1>2. "none" \notin Names
  BY ReaderAssumption DEF Names, Keywords, Tables
<1>3. QED BY <1>1, <1>2

LEMMA RecordStep ==
  ASSUME TypeInv, EventsInv, NEW n \in Offered, ReadRecord(n)
  PROVE  (WhereInv /\ DueInv)'
<1>1. n \in Names /\ n # "none"
  BY RecordNames
<1>2. CASE SkipRecord(n)
  <2>1. result = "reading" /\ (section \in {"none", "unnamed"} \/ section = "TABLES")
    BY <1>2 DEF SkipRecord, Read, EventsInv, PlaceInv
  <2>2. CASE section \in {"none", "unnamed"}
    BY <1>1, <1>2, <2>1, <2>2, OutsideStays
  <2>3. CASE section = "TABLES"
    BY <1>2, <2>3, TablesSkip
  <2>4. QED BY <2>1, <2>2, <2>3
<1>3. CASE KeepRecord(n)
  BY <1>1, <1>3, KeptSection
<1>4. CASE BlocksBoundary(n)
  BY <1>1, <1>4, BlocksStart
<1>5. CASE \E h \in HandlesOrNone, named \in BOOLEAN : EndBlockHead(n, h, named)
  BY <1>1, <1>5, BlockOpens
<1>6. CASE \E h \in HandlesOrNone : EndBlock(n, h)
  BY <1>1, <1>6, BlockCloses
<1>7. CASE \/ FirstRecord(n) \/ EndParts(n)
           \/ \E h \in HandlesOrNone : EndRecord(n, h) \/ BeginParts(n, h) \/ NextPart(n, h)
  <2>1. CASE section = "ENTITIES"
    BY <1>1, <1>7, <2>1, EntitiesSection
  <2>2. CASE section = "OBJECTS"
    BY <1>1, <1>7, <2>2, ObjectsSection
  <2>3. CASE section \notin {"ENTITIES", "OBJECTS"}
    BY <1>1, <1>7, <2>3, BlockChildren
  <2>4. QED BY <2>1, <2>2, <2>3
<1>8. QED BY <1>2, <1>3, <1>4, <1>5, <1>6, <1>7 DEF ReadRecord

LEMMA EventsStep == TypeInv /\ EventsInv /\ [Next]_vars => (WhereInv /\ DueInv)'
<1> SUFFICES ASSUME TypeInv, EventsInv, [Next]_vars PROVE (WhereInv /\ DueInv)'
  OBVIOUS
<1>1. ASSUME NEW n \in Offered, ReadRecord(n) PROVE (WhereInv /\ DueInv)'
  BY <1>1, RecordStep
<1>2. ASSUME NEW s \in Sections, BeginSection(s) PROVE (WhereInv /\ DueInv)'
  BY <1>2, SectionBegins
<1>3. CASE (\E v \in BOOLEAN : ReadHeader(v)) \/ EndOfFile
  <2>1. section \in {"none", "unnamed"} /\ result = "reading"
    BY <1>3 DEF ReadHeader, EndOfFile, Outside
  <2>2. QED BY <1>3, <2>1, OutsideStays
<1>4. ASSUME NEW t \in Tables, OpenTable(t) PROVE (WhereInv /\ DueInv)'
  BY <1>4, TableOpens
<1>5. ASSUME NEW h \in HandlesOrNone, NextRow(h) \/ EndRows(h) PROVE (WhereInv /\ DueInv)'
  <2>1. CASE section = "CLASSES"
    BY <1>5, <2>1, ClassesStep
  <2>2. CASE section # "CLASSES"
    BY <1>5, <2>2, TableRowsStep
  <2>3. QED BY <2>1, <2>2
<1>6. CASE EndOpaqueTable \/ EndEmptySection
  <2>1. CASE section = "TABLES"
    BY <1>6, <2>1, TablesEnd
  <2>2. CASE section # "TABLES"
    <3>1. ~EndOpaqueTable
      BY <2>2 DEF EndOpaqueTable, EventsInv, PlaceInv
    <3>2. EndEmptySection
      BY <1>6, <3>1
    <3>3. result = "reading" /\ section = "unnamed"
      BY <2>2, <3>2 DEF EndEmptySection, Read
    <3>4. QED BY <3>2, <3>3, OutsideStays
  <2>3. QED BY <2>1, <2>2
<1>7. CASE EndKeptSection
  BY <1>7, KeptSection
<1>8. CASE Fail \/ ParserThrows \/ \E k \in 0..MaxRecords : FlushThrows(k)
  BY <1>8, ReadIsOver
<1>9. CASE UNCHANGED vars
  BY <1>9, EventsUnchanged DEF EventsInv
<1>10. QED
  BY <1>1, <1>2, <1>3, <1>4, <1>5, <1>6, <1>7, <1>8, <1>9 DEF Next

LEMMA InitEvents == ASSUME Init PROVE WhereInv /\ DueInv
BY EmptyHeard DEF Init, WhereInv, DueInv

---------------------------------------------------------------------------
(* The reader's own sequence of records.                                     *)

LEMMA NamesAreRead ==
  /\ \A i : NameAt(i) = NameIn(tokens, i)
  /\ Of = OfIn(tokens) /\ Last = Len(tokens) /\ Ended = EndedIn(tokens)
BY DEF NameAt, NameIn, Of, OfIn, Last, Ended, EndedIn

LEMMA EntitiesAreRead ==
  ASSUME NEW lo, NEW hi
  PROVE  EntitiesBetween(lo, hi) = EntitiesIn(tokens, lo, hi)
<1>1. \A i : Opener(i) <=> OpenerIn(tokens, i)
  BY NamesAreRead DEF Opener, OpenerIn
<1>2. \A i, j : PartsTo(i, j) <=> PartsIn(tokens, i, j)
  BY <1>1, NamesAreRead DEF PartsTo, PartsIn
<1>3. ASSUME NEW i PROVE EntityShape(i) = EntityIn(tokens, i)
  <2>1. {e \in (i + 1)..(Last - 1) : PartsTo(i, e) /\ NameAt(e) = "SEQEND"} =
        PartsEndIn(tokens, i)
    BY <1>2, NamesAreRead DEF PartsEndIn
  <2>2. EntityShape(i) =
          {Shape("add", i, <<>>) : x \in IF Opener(i) THEN {} ELSE {i}}
            \cup {Shape("add", i, PartList(i, j)) : j \in PartsEndIn(tokens, i)}
    BY <2>1 DEF EntityShape, PartList
  <2>3. QED BY <1>1, <2>2 DEF EntityIn
<1>4. {k \in (lo + 1)..(hi - 1) : \A o \in (lo + 1)..k : ~PartsTo(o, k)} =
      {k \in (lo + 1)..(hi - 1) : FreeIn(tokens, lo, k)}
  BY <1>2 DEF FreeIn
<1>5. QED BY <1>3, <1>4 DEF EntitiesBetween, EntitiesIn

\* In BLOCKS the callbacks due are those expected, less the children the sink
\* has no method for.
LEMMA BlocksAreExpected ==
  ASSUME tokens \in Seq(TokenSet), OfIn(tokens) = "BLOCKS"
  PROVE  DueIn(tokens) = Expected \ Unheard
<1> DEFINE lost(e) == e.method = "add" /\ NameIn(tokens, e.at) \in Unstaged
<1>1. Len(tokens) \in Nat
  BY LenProperties
<1>2. NamedBlocksIn(tokens) = {i \in 2..(Last - 1) : Begins(i) /\ tokens[i].complete}
  BY NamesAreRead DEF NamedBlocksIn, Begins, BeginsIn
<1>3. Expected = UNION {ExpectedOfBlock(b) : b \in NamedBlocksIn(tokens)}
  BY <1>2, NamesAreRead DEF Expected
<1>4. DueIn(tokens) = UNION {BlockIn(tokens, b) : b \in NamedBlocksIn(tokens)}
  BY DEF DueIn
<1>5. \A e : e \in Unheard <=> e \in Expected /\ lost(e)
  BY NamesAreRead DEF Unheard
<1>6. ASSUME NEW b \in NamedBlocksIn(tokens)
      PROVE  \A x : x \in BlockIn(tokens, b) <=> x \in ExpectedOfBlock(b) /\ ~lost(x)
  <2> DEFINE F == {f \in b..(Len(tokens) - 1) : IsFooterIn(tokens, b, f)}
  <2>1. b \in Nat
    BY <1>1 DEF NamedBlocksIn
  <2>2. F = {f \in b..(Last - 1) : IsFooter(b, f)} /\ F \subseteq Nat
    BY <1>1, <2>1, NamesAreRead DEF IsFooter, IsFooterIn
  <2>3. ExpectedOfBlock(b) =
          {Shape("addBlock", b, <<>>)}
            \cup UNION {{Shape("endBlock", e, <<>>)} \cup EntitiesIn(tokens, b, e) : e \in F}
    BY <2>2, EntitiesAreRead DEF ExpectedOfBlock
  <2>4. BlockIn(tokens, b) =
          {Shape("addBlock", b, <<>>)}
            \cup UNION {{Shape("endBlock", e, <<>>)} \cup StagedIn(tokens, b, e) : e \in F}
    BY DEF BlockIn
  <2>5. /\ \A e : ~lost(Shape("addBlock", e, <<>>))
        /\ \A e : ~lost(Shape("endBlock", e, <<>>))
    BY DEF Shape
  <2>6. ASSUME NEW e \in F, NEW x
        PROVE  x \in StagedIn(tokens, b, e) <=> x \in EntitiesIn(tokens, b, e) /\ ~lost(x)
    <3>1. x \in EntitiesIn(tokens, b, e) => x.method = "add"
      BY <2>1, <2>2, EntitiesAreBetween
    <3>2. QED BY <3>1 DEF StagedIn
  <2> HIDE DEF F, lost
  <2>7. QED BY <2>3, <2>4, <2>5, <2>6
<1> HIDE DEF lost
<1>7. QED BY <1>3, <1>4, <1>5, <1>6

LEMMA DueIsExpected ==
  ASSUME tokens \in Seq(TokenSet)
  PROVE  DueIn(tokens) = Expected \ Unheard
<1>1. CASE OfIn(tokens) = "BLOCKS"
  BY <1>1, BlocksAreExpected
<1>2. CASE OfIn(tokens) # "BLOCKS"
  <2>1. Unheard = {}
    BY <1>2, NamesAreRead DEF Unheard
  <2>2. ExpectedRows = RowsIn(tokens, "add", "LAYER")
                         \cup RowsIn(tokens, "addBlockRecord", "BLOCK_RECORD")
    <3>1. \A i, t : IsRow(i, t) <=> IsRowIn(tokens, i, t)
      BY NamesAreRead DEF IsRow, IsRowIn, RunIn
    <3>2. QED BY <3>1 DEF ExpectedRows, RowsIn
  <2>3. [k \in 1..(Last - 2) |-> k + 1] = PartList(1, Len(tokens))
    <3>1. Len(tokens) \in Nat
      BY LenProperties
    <3>2. Last - 2 = Len(tokens) - 1 - 1 /\ \A k \in 1..(Last - 2) : k + 1 = 1 + k
      BY <3>1 DEF Last
    <3>3. QED BY <3>2 DEF PartList
  <2>4. EntitiesBetween(1, Last) = EntitiesIn(tokens, 1, Len(tokens))
    BY EntitiesAreRead, NamesAreRead
  <2>5. {Shape("add", i, <<>>) : i \in 2..(Last - 1)} = InsideIn(tokens)
    BY DEF InsideIn, Last
  <2>6. DueIn(tokens) = Expected
    BY <1>2, <2>2, <2>3, <2>4, <2>5, NamesAreRead DEF DueIn, Expected
  <2>7. QED BY <2>1, <2>6
<1>3. QED BY <1>1, <1>2

LEMMA DueAreDelivered == TypeInv /\ DueInv => EventsAreExpected
<1> SUFFICES ASSUME TypeInv, DueInv, result # "callbackThrew"
             PROVE  /\ Delivered = Expected \ Unheard
                    /\ InOrder(events)
  BY DEF EventsAreExpected, InOrder
<1>1. Heard(events, tokens) /\ tokens \in Seq(TokenSet)
  BY DEF DueInv, TypeInv, ProcessorTypeOK
<1>2. Delivered = ShapesOf(events)
  BY DEF Delivered, ShapesOf, ShapeOf
<1>3. QED BY <1>1, <1>2, DueIsExpected DEF Heard

\* processDxf() and the processors below it: for a file of any length, with
\* any sections, tables, blocks and compounds, the callbacks made for a section
\* are at every moment exactly those its records have made due, each with its
\* own parts, in the order of the file; this is so also when the read fails or
\* a processor throws. Only a child of a block that DxfBlockEventSink has no
\* method for is missing.
THEOREM RecordsReachTheApplication == Spec => []EventsAreExpected
<1>1. Init => TypeInv /\ EventsInv
  BY InitTyped, InitPlace, InitEvents DEF EventsInv
<1>2. TypeInv /\ BlockInv /\ EventsInv /\ [Next]_vars => (TypeInv /\ BlockInv /\ EventsInv)'
  BY TypeStep, BlockStep, EventsStep DEF EventsInv, BlockInv
<1>3. Init => BlockInv
  BY InitPlace, InitOpen DEF BlockInv
<1>4. TypeInv /\ BlockInv /\ EventsInv => EventsAreExpected
  BY DueAreDelivered DEF EventsInv
<1>5. QED BY <1>1, <1>2, <1>3, <1>4, PTL DEF Spec
=============================================================================
