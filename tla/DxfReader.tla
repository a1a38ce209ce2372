------------------------------ MODULE DxfReader ------------------------------
(* dxfRW::read (src/libdxfrw.cpp): the records of a DXF file, one code-0 group *)
(* and the groups that follow it at a time, and the callbacks made for them.   *)
(* The record processors end on the code-0 group that starts the next record,  *)
(* the children of a BLOCK are staged until its ENDBLK was read, the rows of a *)
(* table until its ENDTAB and the classes until ENDSEC.                        *)
EXTENDS Integers, Sequences, FiniteSets

CONSTANTS
  Typed,          \* record names with a processor that requires some groups
  Unstaged,       \* the typed entities DxfBlockEventSink has no method for
  Raw,            \* record names without a processor
  Handles,        \* self handles (code 5) that occur in the file
  MaxRecords      \* bound: code-0 groups TLC reads

Keywords == {"INSERT", "ATTRIB", "POLYLINE", "VERTEX", "SEQEND",
             "BLOCK", "ENDBLK", "ENDTAB", "ENDSEC", "CLASS"}
Tables == {"LAYER",           \* any table with typed rows
           "BLOCK_RECORD",
           "opaque"}          \* a table the reader does not know
Names == Typed \cup Raw \cup Keywords \cup (Tables \ {"opaque"})
Sections == {"CLASSES", "TABLES", "BLOCKS", "ENTITIES", "OBJECTS",
             "other",         \* processRawDxfSection()
             "unnamed"}       \* SECTION without a name: skipped

ASSUME ReaderAssumption ==
  /\ Unstaged \subseteq Typed
  /\ (Typed \cup Raw) \cap (Keywords \cup Tables \cup {"SECTION", "TABLE", "none"}) = {}
  /\ Typed \cap Raw = {}
  /\ 0 \notin Handles
  /\ MaxRecords \in Nat

VARIABLES
  result,         \* "reading", or how read() ended
  section,        \* the section whose processor runs, or "none"
  table,          \* the table whose processor runs, or "none"
  pending,        \* nextentity, "none" without m_hasPendingEntityBoundary
  record,         \* the record being read
  parent,         \* the INSERT or POLYLINE it is a part of, the raw section
  block,          \* the locals of processBlock()
  staged,         \* DxfBlockEventSink::m_events, or the rows of a table
  blockRecords,   \* the handles in blockRecordMap
  seen,           \* dxfReader::m_selfHandles
  later,          \* the source version is known and later than R12
  reads,          \* how many records were read
  events,         \* the callbacks made for the current section
  issued,         \* ghost: the handles delivered in earlier sections
  tokens          \* ghost: the records of the current section up to ENDSEC

processor == <<section, table, pending, record, parent, block>>
vars == <<result, section, table, pending, record, parent, block, staged,
          blockRecords, seen, later, reads, events, issued, tokens>>

NoRecord == [name |-> "none", at |-> 0]
NoParent == [name |-> "none", at |-> 0, parts |-> <<>>, handle |-> 0]
NoBlock == [stage |-> "none", handle |-> 0, published |-> FALSE]

\* The record that a code-0 group with name n starts.
NewRecord(n) == [name |-> n, at |-> Len(tokens) + 1]
Callback(method, at, parts, handle) ==
  [method |-> method, at |-> at, parts |-> parts, handle |-> handle]

\* One more record was read; the ghost follows it to the section's end. Of a
\* BLOCK it keeps whether it had a name.
Token(n, of) == [name |-> n, of |-> of, complete |-> FALSE]
Follows(q, n) == IF q = <<>> \/ q[Len(q)].name = "ENDSEC" THEN q
                 ELSE Append(q, Token(n, "none"))
Read(n) ==
  /\ result = "reading" /\ reads < MaxRecords
  /\ reads' = reads + 1 /\ tokens' = Follows(tokens, n)

---------------------------------------------------------------------------
(* Self handles. Code 5 of a record is h, 0 when there is none.              *)

\* DRW_TableEntry::parseCode, captureRawGroup() and consumeEndBlock() refuse a
\* handle another record has.
RefusesRepeated(h) == h \notin seen
\* DRW_Entity::parseCode and DRW_Block::parseCode drop it.
\* Mutant: they keep it.
HandleReadTwice(h) == h
HandleRead(h) == IF h \in seen THEN 0 ELSE h
Registered(h) == seen' = seen \cup ({h} \ {0})
Required(h) == later => h # 0

---------------------------------------------------------------------------
(* processDxf(): sections.                                                   *)

Outside == section \in {"none", "unnamed"}
Numbered(q) == {q[i].handle : i \in DOMAIN q} \ {0}

\* The callbacks whose handle is registered as the record's own.
Own == {i \in DOMAIN events : /\ events[i].handle # 0
                              /\ events[i].method # "addBlockRecord"}
OwnHandles == {events[i].handle : i \in Own}

\* processBlocks() starts by forgetting the boundary of the section before.
BeginSection(s) ==
  /\ Outside /\ result = "reading" /\ reads < MaxRecords
  /\ section' = s /\ pending' = IF s = "BLOCKS" THEN "none" ELSE pending
  /\ record' = NoRecord /\ parent' = NoParent /\ staged' = <<>>
  /\ reads' = reads + 1
  /\ issued' = issued \cup OwnHandles
  /\ events' = <<>> /\ tokens' = IF s = "unnamed" THEN <<>> ELSE <<Token("SECTION", s)>>
  /\ UNCHANGED <<result, table, block, blockRecords, seen, later>>

\* The whole HEADER section: addHeader(), and the version is known or not.
ReadHeader(v) ==
  /\ Outside /\ result = "reading" /\ reads < MaxRecords
  /\ section' = "none" /\ later' = v
  /\ reads' = reads + 1
  /\ issued' = issued \cup OwnHandles
  /\ events' = <<>> /\ tokens' = <<>>
  /\ UNCHANGED <<result, table, pending, record, parent, block, staged,
                 blockRecords, seen>>

\* Records outside a section, in a section without a name, between tables and
\* in a table the reader does not know.
SkipRecord(n) ==
  /\ \/ section = "none"
     \/ section = "unnamed" /\ n # "ENDSEC"
     \/ section = "TABLES" /\ table = "none" /\ n # "ENDSEC"
     \/ table = "opaque" /\ n \notin {"ENDTAB", "ENDSEC"}
  /\ Read(n)
  /\ UNCHANGED <<result, processor, staged, blockRecords, seen, later, events,
                 issued>>

\* ENDSEC; a section without a name also ends with any group but 0, 2 and 999.
EndEmptySection ==
  /\ \/ section = "unnamed"
     \/ section = "TABLES" /\ table = "none"
  /\ Read("ENDSEC")
  /\ section' = "none"
  /\ UNCHANGED <<result, table, pending, record, parent, block, staged,
                 blockRecords, seen, later, events, issued>>

EndOfFile ==
  /\ section = "none" /\ result = "reading" /\ reads < MaxRecords
  /\ reads' = reads + 1 /\ result' = "ok"
  /\ UNCHANGED <<processor, staged, blockRecords, seen, later, events, issued,
                 tokens>>

---------------------------------------------------------------------------
(* processClasses(), processTables() and the table processors.               *)

InRows == section = "CLASSES" \/ table \in {"LAYER", "BLOCK_RECORD"}
RowName == IF section = "CLASSES" THEN "CLASS" ELSE table
RowMethod == IF table = "BLOCK_RECORD" THEN "addBlockRecord" ELSE "add"

\* finishClass(), finishRecord() and the tables' own versions of it: the row
\* with handle h is complete. BLOCK_RECORD compares it with its own rows only.
RowFinishes(h) ==
  IF record = NoRecord \/ section = "CLASSES" THEN h = 0 /\ UNCHANGED seen
  ELSE /\ Required(h)
       /\ IF table = "BLOCK_RECORD"
          THEN h \notin Numbered(staged) /\ UNCHANGED seen
          ELSE RefusesRepeated(h) /\ Registered(h)
\* Mutant: the row read last is not among those that are published.
FinishedRowsButLast(h) == staged
FinishedRows(h) ==
  IF record = NoRecord THEN staged
  ELSE Append(staged, Callback(RowMethod, record.at, <<>>, h))

OpenTable(t) ==
  /\ section = "TABLES" /\ table = "none"
  /\ result = "reading" /\ reads < MaxRecords
  /\ table' = t /\ record' = NoRecord
  /\ reads' = reads + 1 /\ tokens' = Append(tokens, Token("TABLE", t))
  /\ UNCHANGED <<result, section, pending, parent, block, staged, blockRecords,
                 seen, later, events, issued>>

NextRow(h) ==
  /\ InRows /\ RowFinishes(h)
  /\ Read(RowName)
  /\ staged' = FinishedRows(h)
  /\ record' = NewRecord(RowName)
  /\ UNCHANGED <<result, section, table, pending, parent, block, blockRecords,
                 later, events, issued>>

\* publishBlockRecords(), publishLTypes() and the loops at ENDTAB and ENDSEC.
EndRows(h) ==
  /\ InRows /\ RowFinishes(h)
  /\ table = "BLOCK_RECORD" => Numbered(FinishedRows(h)) \cap blockRecords = {}
  /\ Read(IF section = "CLASSES" THEN "ENDSEC" ELSE "ENDTAB")
  /\ events' = events \o FinishedRows(h)
  /\ staged' = <<>> /\ record' = NoRecord /\ table' = "none"
  /\ section' = IF section = "CLASSES" THEN "none" ELSE section
  /\ blockRecords' = IF table = "BLOCK_RECORD"
                     THEN blockRecords \cup Numbered(FinishedRows(h))
                     ELSE blockRecords
  /\ UNCHANGED <<result, pending, parent, block, later, issued>>

EndOpaqueTable ==
  /\ table = "opaque" /\ Read("ENDTAB")
  /\ table' = "none"
  /\ UNCHANGED <<result, section, pending, record, parent, block, staged,
                 blockRecords, seen, later, events, issued>>

---------------------------------------------------------------------------
(* Entities, in the ENTITIES section and in a block, and OBJECTS.            *)

InBlock == block.stage = "children"                   \* m_readingBlockEntities
InEntities == section = "ENTITIES" \/ InBlock
IsPart == InEntities /\ parent # NoParent
IsRaw ==
  record.name \notin Typed \cup (IF InEntities THEN {"INSERT", "POLYLINE"} ELSE {})

\* acceptEntityCallbackBoundary() and acceptObjectBoundary()
AcceptsBoundary(n) ==
  CASE n = "ENDSEC" -> ~InBlock
    [] n = "ENDBLK" -> InBlock
    [] OTHER        -> TRUE

\* An entity or an object gets its handle: raw records and objects do not
\* share one, raw records of a later version have one.
TakesHandle(h) ==
  /\ IsRaw => Required(h)
  /\ IsRaw \/ ~InEntities => RefusesRepeated(h)
  /\ Registered(h)

\* iface, which is the block's sink while its children are read.
\* Mutant: the sink is not put in the interface's place.
DeliverAtOnce(r, parts, h) ==
  events' = Append(events, Callback("add", r.at, parts, h)) /\ UNCHANGED staged
Deliver(r, parts, h) ==
  IF InBlock
  THEN /\ staged' = IF r.name \in Unstaged THEN staged
                    ELSE Append(staged, Callback("add", r.at, parts, h))
       /\ UNCHANGED events
  ELSE /\ events' = Append(events, Callback("add", r.at, parts, h))
       /\ UNCHANGED staged

\* What the boundary n starts once the record before it is done.
Follow(n) ==
  /\ pending' = n
  /\ section' = IF n = "ENDSEC" THEN "none" ELSE section
  /\ record' = IF n = "ENDSEC" THEN NoRecord ELSE NewRecord(n)
  /\ block' = IF n = "ENDBLK" THEN [block EXCEPT !.stage = "footer"] ELSE block

FirstRecord(n) ==
  /\ section \in {"ENTITIES", "OBJECTS"} /\ record = NoRecord
  /\ AcceptsBoundary(n)
  /\ Read(n) /\ Follow(n)
  /\ UNCHANGED <<result, table, parent, staged, blockRecords, seen, later,
                 events, issued>>

\* An entity or an object without parts, or whose parts were not there, ends.
EndRecord(n, h) ==
  /\ InEntities \/ section = "OBJECTS"
  /\ record # NoRecord /\ ~IsPart
  /\ TakesHandle(h) /\ AcceptsBoundary(n)
  /\ InEntities => /\ record.name # "POLYLINE"
                   /\ ~(record.name = "INSERT" /\ n = "ATTRIB")
  /\ Read(n) /\ Deliver(record, <<>>, HandleRead(h)) /\ Follow(n)
  /\ UNCHANGED <<result, table, parent, blockRecords, later, issued>>

PartName(name) == IF name = "INSERT" THEN "ATTRIB" ELSE "VERTEX"

\* processInsert() meets an ATTRIB, processPolyline() its first VERTEX.
BeginParts(n, h) ==
  /\ InEntities /\ ~IsPart /\ record.name \in {"INSERT", "POLYLINE"}
  /\ n = PartName(record.name)
  /\ TakesHandle(h) /\ Read(n)
  /\ parent' = [name |-> record.name, at |-> record.at, parts |-> <<>>,
                handle |-> HandleRead(h)]
  /\ pending' = n /\ record' = NewRecord(n)
  /\ UNCHANGED <<result, section, table, block, staged, blockRecords, later,
                 events, issued>>

\* processAttrib() and processVertex() end one part and start the next.
NextPart(n, h) ==
  /\ IsPart /\ record.name = PartName(parent.name)
  /\ n \in {record.name, "SEQEND"}
  /\ Read(n) /\ Registered(h)
  /\ pending' = n
  /\ parent' = [parent EXCEPT !.parts = Append(@, record.at)]
  /\ record' = NewRecord(n)
  /\ UNCHANGED <<result, section, table, block, staged, blockRecords, later,
                 events, issued>>

\* consumeEntityFooter() has read SEQEND to its end.
\* Mutant: the SEQEND is left for the dispatcher, and n comes after it.
EndPartsAtSequenceEnd(n) ==
  /\ IsPart /\ record.name = "SEQEND" /\ AcceptsBoundary(n)
  /\ Read(n) /\ Deliver(parent, parent.parts, parent.handle)
  /\ parent' = NoParent
  /\ UNCHANGED <<result, section, table, block, pending, record, blockRecords,
                 seen, later, issued>>
EndParts(n) ==
  /\ IsPart /\ record.name = "SEQEND" /\ AcceptsBoundary(n)
  /\ Read(n) /\ Deliver(parent, parent.parts, parent.handle) /\ Follow(n)
  /\ parent' = NoParent
  /\ UNCHANGED <<result, table, blockRecords, seen, later, issued>>

---------------------------------------------------------------------------
(* processBlocks() and processBlock().                                       *)

BeginBlock == block' = [stage |-> "head", handle |-> 0, published |-> FALSE]

\* The loop of processBlocks() between two blocks: a boundary it still holds
\* comes before the one it would read.
BlocksBoundary(n) ==
  /\ section = "BLOCKS" /\ block.stage = "none"
  /\ Read(n)
  /\ LET boundary == IF pending = "none" THEN n ELSE pending
     IN /\ pending' = boundary
        /\ \/ /\ boundary = "ENDSEC" /\ section' = "none"
              /\ UNCHANGED <<record, block>>
           \/ /\ boundary = "BLOCK" /\ record' = NewRecord(n)
              /\ BeginBlock /\ UNCHANGED section
  /\ UNCHANGED <<result, table, parent, staged, blockRecords, seen, later,
                 events, issued>>

\* The groups of BLOCK are done: addBlock(), unless the block has no name, and
\* the sink takes the interface's place when the first child is there.
EndBlockHead(n, h, named) ==
  /\ block.stage = "head" /\ n # "ENDSEC"
  /\ Required(HandleRead(h)) /\ Registered(h)
  /\ HandleRead(h) \notin blockRecords
  /\ result = "reading" /\ reads < MaxRecords
  /\ reads' = reads + 1
  /\ tokens' = Follows([tokens EXCEPT ![Len(tokens)].complete = named], n)
  /\ pending' = n /\ record' = NewRecord(n)
  /\ block' = [stage |-> IF n = "ENDBLK" THEN "footer" ELSE "children",
               handle |-> HandleRead(h), published |-> named]
  /\ staged' = <<>>
  /\ events' = IF named
               THEN Append(events, Callback("addBlock", record.at, <<>>,
                                            HandleRead(h)))
               ELSE events
  /\ UNCHANGED <<result, section, table, parent, blockRecords, later, issued>>

\* consumeEndBlock() accepts the footer; the children are delivered, the block
\* is closed and the next block or the end of the section follows. A block
\* whose footer is followed by anything else ends the same way before the
\* read fails.
\* Mutant: the events of a block without a name are flushed as well.
FlushedAlways == staged
Flushed == IF block.published THEN staged ELSE <<>>
EndBlock(n, h) ==
  /\ block.stage = "footer" /\ n # "ENDBLK"
  /\ Required(h) /\ RefusesRepeated(h) /\ Registered(h)
  /\ Read(n)
  /\ events' = events \o Flushed \o
               (IF block.published
                THEN <<Callback("endBlock", record.at, <<>>, h)>> ELSE <<>>)
  /\ staged' = <<>> /\ pending' = n
  /\ blockRecords' = IF block.published /\ block.handle # 0
                     THEN blockRecords \cup {block.handle} ELSE blockRecords
  /\ \/ /\ n = "ENDSEC" /\ section' = "none"
        /\ record' = NoRecord /\ block' = NoBlock /\ UNCHANGED result
     \/ /\ n = "BLOCK" /\ record' = NewRecord(n) /\ BeginBlock
        /\ UNCHANGED <<result, section>>
     \/ /\ n \notin {"ENDSEC", "BLOCK"} /\ result' = "failed"
        /\ section' = "none" /\ record' = NoRecord /\ block' = NoBlock
  /\ UNCHANGED <<table, parent, later, issued>>

---------------------------------------------------------------------------
(* Sections kept as they are, and failures.                                  *)

\* processRawDxfSection()
KeepRecord(n) ==
  /\ section = "other" /\ n # "ENDSEC"
  /\ Read(n)
  /\ record' = NewRecord(n)
  /\ parent' = [parent EXCEPT !.at = 1, !.parts = Append(@, Len(tokens) + 1)]
  /\ UNCHANGED <<result, section, table, pending, block, staged, blockRecords,
                 seen, later, events, issued>>

EndKeptSection ==
  /\ section = "other"
  /\ Read("ENDSEC")
  /\ events' = Append(events, Callback("addRawDxfSection", 1, parent.parts, 0))
  /\ section' = "none" /\ parent' = NoParent /\ record' = NoRecord
  /\ UNCHANGED <<result, table, pending, block, staged, blockRecords, seen,
                 later, issued>>

\* closePublishedBlock()
\* Mutant: the failure paths of processBlock() leave the block open.
ClosedNever == events
Closed ==
  IF block.published THEN Append(events, Callback("endBlock", 0, <<>>, 0))
  ELSE events

\* read() is over: the processors' locals are gone.
Left ==
  /\ section' = "none" /\ table' = "none" /\ pending' = "none"
  /\ record' = NoRecord /\ parent' = NoParent /\ block' = NoBlock
  /\ staged' = <<>>
  /\ UNCHANGED <<blockRecords, seen, later, reads, issued, tokens>>

\* The stream or the record budget ends, a value is malformed, a record lacks
\* a group its processor requires, or ends on a boundary it does not accept.
Fail ==
  /\ result = "reading" /\ result' = "failed"
  /\ events' = Closed /\ Left

\* A processor throws while the children of a block are read.
ParserThrows ==
  /\ result = "reading" /\ InBlock /\ result' = "thrown"
  /\ events' = Closed /\ Left

\* The application throws when it gets the child after the first k of a
\* block: this exception passes processBlock() without endBlock().
FlushThrows(k) ==
  /\ result = "reading" /\ result' = "callbackThrew"
  /\ block.stage = "footer" /\ block.published /\ k < Len(staged)
  /\ events' = events \o SubSeq(staged, 1, k) /\ Left

---------------------------------------------------------------------------

Init ==
  /\ result = "reading" /\ section = "none" /\ table = "none" /\ pending = "none"
  /\ record = NoRecord /\ parent = NoParent /\ block = NoBlock
  /\ staged = <<>> /\ blockRecords = {} /\ seen = {} /\ later = FALSE
  /\ reads = 0 /\ events = <<>> /\ issued = {} /\ tokens = <<>>

HandlesOrNone == Handles \cup {0}

ReadRecord(n) ==
  \/ SkipRecord(n) \/ FirstRecord(n) \/ EndParts(n) \/ BlocksBoundary(n)
  \/ KeepRecord(n)
  \/ \E h \in HandlesOrNone :
       \/ EndRecord(n, h) \/ BeginParts(n, h) \/ NextPart(n, h)
       \/ EndBlock(n, h)
       \/ \E named \in BOOLEAN : EndBlockHead(n, h, named)

\* The names of a code-0 group to choose from. Those that mean no more here
\* than a name without a processor are left to Raw.
Offered ==
  Raw \cup {"ENDSEC"} \cup
  CASE InEntities \/ block.stage = "head" ->
         Typed \cup {"INSERT", "POLYLINE", "ENDBLK"}
           \cup (IF IsPart THEN {PartName(parent.name), "SEQEND"}
                 ELSE {PartName(record.name)})
    [] section = "BLOCKS" /\ ~InBlock /\ block.stage # "head" -> {"BLOCK"}
    [] section = "OBJECTS" -> Typed \cup {"ENDBLK"}
    [] section = "TABLES"  -> {"ENDTAB"}
    [] OTHER -> {}

Next ==
  \/ \E s \in Sections : BeginSection(s)
  \/ \E v \in BOOLEAN : ReadHeader(v)
  \/ \E n \in Offered : ReadRecord(n)
  \/ \E t \in Tables : OpenTable(t)
  \/ \E h \in HandlesOrNone : NextRow(h) \/ EndRows(h)
  \/ EndOpaqueTable \/ EndEmptySection \/ EndKeptSection \/ EndOfFile
  \/ Fail \/ ParserThrows \/ \E k \in 0..MaxRecords : FlushThrows(k)

Spec == Init /\ [][Next]_vars

---------------------------------------------------------------------------
(* Which callbacks the records of a section ask for, from the file alone.    *)

Last == Len(tokens)
Of == IF tokens = <<>> THEN "none" ELSE tokens[1].of
NameAt(i) == IF i \in DOMAIN tokens THEN tokens[i].name ELSE "none"
Ended == NameAt(Last) = "ENDSEC"
Shape(method, i, parts) == [method |-> method, at |-> i, parts |-> parts]

\* A BLOCK record, and the ENDBLK of the one that starts at b, or 0.
Begins(b) ==
  /\ Of = "BLOCKS" /\ NameAt(b) = "BLOCK"
  /\ b = 2 \/ NameAt(b - 1) = "ENDBLK"
IsFooter(b, e) ==
  /\ b < e /\ NameAt(e) = "ENDBLK"
  /\ \A k \in b..(e - 1) : NameAt(k) # "ENDBLK"

\* The records from the one after i to j are parts of the entity i.
Opener(i) ==
  NameAt(i) = "POLYLINE" \/ (NameAt(i) = "INSERT" /\ NameAt(i + 1) = "ATTRIB")
PartsTo(i, j) ==
  /\ i < j /\ Opener(i)
  /\ \A k \in i..(j - 1) : NameAt(k) # "SEQEND"
EntityShape(i) ==
  {Shape("add", i, <<>>) : x \in IF Opener(i) THEN {} ELSE {i}}
    \cup {Shape("add", i, [k \in 1..(j - i - 1) |-> i + k]) :
             j \in {e \in (i + 1)..(Last - 1) :
                      PartsTo(i, e) /\ NameAt(e) = "SEQEND"}}

\* The entities between two records of the section, neither included.
EntitiesBetween(lo, hi) ==
  UNION {EntityShape(i) : i \in {k \in (lo + 1)..(hi - 1) :
                                  \A o \in (lo + 1)..k : ~PartsTo(o, k)}}

\* The section's own callbacks, each due when a record after it was read.
ExpectedOfBlock(b) ==
  {Shape("addBlock", b, <<>>)}
    \cup UNION {{Shape("endBlock", e, <<>>)} \cup EntitiesBetween(b, e) :
                   e \in {f \in b..(Last - 1) : IsFooter(b, f)}}
IsRow(i, t) ==
  \E o \in 1..(i - 1), e \in (i + 1)..Last :
    /\ NameAt(o) = "TABLE" /\ tokens[o].of = t
    /\ NameAt(e) = "ENDTAB"
    /\ \A k \in (o + 1)..(e - 1) : NameAt(k) = t
ExpectedRows ==
  {Shape("add", i, <<>>) : i \in {k \in DOMAIN tokens : IsRow(k, "LAYER")}}
    \cup {Shape("addBlockRecord", i, <<>>) :
             i \in {k \in DOMAIN tokens : IsRow(k, "BLOCK_RECORD")}}
Expected ==
  CASE Of = "ENTITIES" -> EntitiesBetween(1, Last)
    [] Of = "OBJECTS"  -> {Shape("add", i, <<>>) : i \in 2..(Last - 1)}
    [] Of = "BLOCKS"   ->
         UNION {ExpectedOfBlock(b) :
                  b \in {i \in 2..(Last - 1) : Begins(i) /\ tokens[i].complete}}
    [] Of = "TABLES"   -> ExpectedRows
    [] Of = "CLASSES" /\ Ended -> {Shape("add", i, <<>>) : i \in 2..(Last - 1)}
    [] Of = "other" /\ Ended   ->
         {Shape("addRawDxfSection", 1, [k \in 1..(Last - 2) |-> k + 1])}
    [] OTHER -> {}

Delivered == {Shape(events[i].method, events[i].at, events[i].parts) :
                i \in {k \in DOMAIN events : events[k].at # 0}}

\* The children of a block that its sink has no method for (EntitiesDelivered).
Unheard == {e \in Expected : /\ Of = "BLOCKS" /\ e.method = "add"
                             /\ NameAt(e.at) \in Unstaged}

---------------------------------------------------------------------------
(* Properties.                                                               *)

\* addBlock() and endBlock() alternate and never nest, and once read() has
\* returned, or has passed on an exception of its own, no block is open: a
\* caller never stays attached to a malformed block (processBlock()).
IsOpen(q) ==
  \E b \in DOMAIN q : /\ q[b].method = "addBlock"
                      /\ \A e \in (b + 1)..Len(q) : q[e].method # "endBlock"
Alternate(q) ==
  \A b \in DOMAIN q :
    LET open == IsOpen(SubSeq(q, 1, b - 1))
    IN CASE q[b].method = "addBlock" -> ~open
         [] q[b].method = "endBlock" -> open
         [] OTHER -> open = (Of = "BLOCKS")
BlocksBalanced ==
  /\ Alternate(events)
  /\ IsOpen(events) => result \in {"reading", "callbackThrew"}

\* The callbacks made for a section are those its records ask for, each once,
\* in the order of the file, with the parts that belong to them and no sooner
\* than the code promises: rows after ENDTAB, classes after ENDSEC, the
\* children of a block after its ENDBLK, whatever the read ends with. Of the
\* children of a block, all but those DxfBlockEventSink has no method for.
EventsAreExpected ==
  result # "callbackThrew" =>
    /\ Delivered = Expected \ Unheard
    /\ \A i, j \in DOMAIN events :
         i < j /\ events[j].at # 0 => events[i].at < events[j].at

\* Two records that were handed to the application never have one self
\* handle, also across sections and between a block and its children. The
\* rows of BLOCK_RECORD are not registered and not compared.
HandlesDistinct ==
  /\ OwnHandles \cap issued = {}
  /\ \A i, j \in Own : i # j => events[i].handle # events[j].handle

\* Every entity the section holds is handed to the application: "Called for
\* every TOLERANCE entity" (drw_interface.h), and so for the others.
EntitiesDelivered ==
  result # "callbackThrew" =>
    {e \in Expected : e.method = "add"} \subseteq Delivered

=============================================================================
