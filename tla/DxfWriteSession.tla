--------------------------- MODULE DxfWriteSession ---------------------------
(* One dxfRW codec writing DXF files later than R12 (src/libdxfrw.cpp): the  *)
(* order of the sections, the callbacks in which the application (the        *)
(* filter) emits records, the handles those records get, and the scopes that *)
(* take a rejected record back out of the stream and out of the maps.        *)
EXTENDS Integers, Sequences, FiniteSets, Functions

CONSTANTS FirstHandle, MaxHandle, FixedHandles,    \* see HandleAllocator
          ModelSpace,     \* the fixed handle of the *Model_Space BLOCK_RECORD
          PaperSpace,     \* that of *Paper_Space
          RootDictionary, \* the literal that owns tables, groups and objects
          Sources,        \* handles the entities had in the drawing that was read
          SourceOwners,   \* handles their owners had there (parentHandle)
          Blocks,         \* names of the drawing's blocks
          GroupMembers,   \* members of the drawing's one GROUP (setGroups)
          Preserved,      \* handles of the DICTIONARY and XRECORD objects to keep
          Layouts,        \* handles of the LAYOUT objects to keep
          Spaces,         \* where entities outside of blocks are: "model", "paper"
          Habits,         \* which optional calls the filter makes
          MaxCalls, MaxWrites    \* bounds: records per write, writes

AllHabits == {"preallocate",   \* plans entity handles in writeBlockRecords()
              "share",         \* writes several entities of an unmarked source
              "keepOwners",    \* leaves the owner a record was read with in it
              "remap"}         \* takes a handle with allocHandle() before write()

ASSUME SessionAssumption ==
  /\ FirstHandle \in Nat \ {0} /\ MaxHandle \in Nat /\ FirstHandle < MaxHandle
  /\ FixedHandles \subseteq 1..(FirstHandle - 1)
  /\ {ModelSpace, PaperSpace, RootDictionary} \subseteq FixedHandles
  /\ "none" \notin SourceOwners /\ SourceOwners \cap 0..MaxHandle = {}
  /\ GroupMembers \subseteq Sources
  /\ Sources \cap {"none", "fixed", "block", "group", "kept"} = {}
  /\ Preserved \subseteq FirstHandle..(MaxHandle - 1)
  /\ Layouts \subseteq FirstHandle..MaxHandle
  /\ Preserved \cap Layouts = {}
  /\ Spaces \subseteq {"model", "paper"} /\ Habits \subseteq AllHabits
  /\ MaxCalls \in Nat /\ MaxWrites \in Nat

VARIABLES
  alloc,         \* m_handleAllocator
  phase,         \* where write() is
  maps,          \* source handle to emitted handle, and the sets beside it
  log,           \* m_dxfWriteMutations: how to undo the changes of maps
  scopes,        \* the open scopes, innermost last
  file,          \* the records that reached the output stream
  writerError,   \* dxfWriter::writeError
  writeError,    \* m_writeError: the whole write must fail
  block,         \* writingBlock and currHandle
  pending,       \* m_pendingBlockRecords
  reservationFailed,    \* m_handleReservationFailed and the two generations
  replacement,   \* the handle the filter took with allocHandle(), or 0
  calls,         \* how many records the filter has sent in this write
  accepted,      \* those for which the writer returned true, and their records
  published,     \* the last file that replaced the destination
  writes         \* writes started

vars == <<alloc, phase, maps, log, scopes, file, writerError, writeError, block,
          pending, reservationFailed, replacement, calls, accepted, published,
          writes>>

Handle == INSTANCE HandleAllocator WITH got <- 0

NoSource == "none"     \* an entity that was not read from a drawing: handle 0
NoFile == [records |-> <<>>, handseed |-> 0, modelers |-> {}, ambiguous |-> {}]

NoMaps == [minted |-> [s \in Sources |-> 0],    \* sourceHandleToMintedMap
           ambiguous |-> {},                    \* ambiguousSourceHandles
           written |-> {},                      \* writtenSourceEntityHandles
           modelers |-> {},                     \* modelerSourceHandleToMintedMap
           blocks |-> [b \in Blocks |-> 0]]     \* blockMap

NoBlock == [open |-> FALSE, record |-> 0]

\* A record in the stream: its code-5 handle, its owner (330), the handles it
\* refers to, the call it comes from, and its source or, for a record that is
\* no entity, what it is.
Record(handle, owner, refs, call, source) ==
  [handle |-> handle, owner |-> owner, refs |-> refs, call |-> call,
   source |-> source]
\* The table heads, the mandatory records and the two spaces' blocks, in some
\* fixed order.
FixedOrder == CHOOSE f \in Bijection(1..Cardinality(FixedHandles), FixedHandles) : TRUE
FixedRecords == [i \in 1..Cardinality(FixedHandles) |->
                   Record(FixedOrder[i], RootDictionary, {}, 0, "fixed")]

---------------------------------------------------------------------------
(* Scopes: a RecordStateScope and a DxfWriterRecordScope opened together.    *)

RecordKinds == {"plain",      \* EntityRecordScope: LINE and most entities
                "modeler",    \* the same, for DRW_ModelerGeometry
                "polyline",   \* own scopes, VERTEX records inside, SEQEND
                "insert",     \* own scopes, ATTRIB scopes inside, SEQEND
                "attrib"}     \* an ATTRIB of an INSERT, in its own scope
SectionKinds == {"blockRecords", "blocks", "objects"}

\* A scope just opened and the state it remembers; before is a ghost.
NewScope(kind, call, error, logged, inBlock, collected, before) ==
  [kind |-> kind, call |-> call, handle |-> 0, size |-> 0, stage |-> "open",
   records |-> <<>>, previousError |-> error, checkpoint |-> logged,
   block |-> inBlock, pending |-> collected, before |-> before]
Scope(kind, call) ==
  NewScope(kind, call, writerError, Len(log), block, Len(pending), maps)

Top == scopes[Len(scopes)]
Outer == SubSeq(scopes, 1, Len(scopes) - 1)
InRecord == scopes # <<>> /\ Top.kind \in RecordKinds
InCallback(p) == phase = p /\ ~InRecord

\* stack with its innermost scope failed: the writer returns false from here.
Failed(stack) == [stack EXCEPT ![Len(stack)].stage = "failed"]

\* What undoing one entry of the log does to the maps.
UndoEntry(mp, e) ==
  CASE e.kind = "source"    -> [mp EXCEPT !.minted[e.key] = 0]
    [] e.kind = "ambiguous" -> [mp EXCEPT !.ambiguous = @ \ {e.key}]
    [] e.kind = "written"   -> [mp EXCEPT !.written = @ \ {e.key}]
    [] e.kind = "modeler"   -> [mp EXCEPT !.modelers = @ \ {e.key}]
    [] e.kind = "block"     -> [mp EXCEPT !.blocks[e.key] = 0]

\* Mutant: the record's mark in writtenSourceEntityHandles is left behind.
UndoneButWritten(from) ==
  LET u[i \in from..Len(log)] ==
        IF i = Len(log) THEN maps
        ELSE IF log[i + 1].kind = "written" THEN u[i + 1]
        ELSE UndoEntry(u[i + 1], log[i + 1])
  IN u[from]
\* The maps once every log entry after the first from is undone, last first.
Undone(from) ==
  LET u[i \in from..Len(log)] ==
        IF i = Len(log) THEN maps ELSE UndoEntry(u[i + 1], log[i + 1])
  IN u[from]

\* Appends records to whatever the writer's stream is: the innermost scope's
\* buffer or the file.
Emitted(stack, records) ==
  [stack EXCEPT ![Len(stack)].records = @ \o records]
\* The innermost scope is to hold one more record.
Asked(stack) == [stack EXCEPT ![Len(stack)].size = @ + 1]

\* The innermost scope commits: its bytes go to the stream outside it, the
\* writer's error is what it was before, and the log is kept.
CommitScope ==
  /\ IF Outer = <<>>
     THEN file' = file \o Top.records /\ scopes' = <<>>
     ELSE /\ scopes' = Emitted(Outer, Top.records)
          /\ file' = file
  /\ writerError' = Top.previousError

\* The innermost scope ends without a commit: its bytes are dropped and the
\* maps, the log and the block are those it found.
RollbackScope ==
  /\ writerError' = Top.previousError
  /\ maps' = Undone(Top.checkpoint)
  /\ log' = SubSeq(log, 1, Top.checkpoint)
  /\ pending' = SubSeq(pending, 1, Top.pending)
  /\ block' = Top.block
  /\ UNCHANGED file

---------------------------------------------------------------------------
(* Before write(): the filter keeps the handles of the objects it will write *)
(* verbatim.                                                                 *)

\* reserveHandle()
ReserveHandle(h) ==
  IF Handle!CanReserve(alloc, h)
  THEN alloc' = Handle!Reserved(alloc, h) /\ UNCHANGED reservationFailed
  ELSE reservationFailed' = TRUE /\ UNCHANGED alloc

KeepHandle(h) ==
  /\ phase = "idle" /\ ~Handle!IsReserved(alloc, h)
  /\ h \in Preserved \cup Layouts
  /\ ReserveHandle(h)
  /\ UNCHANGED <<phase, maps, log, scopes, file, writerError, writeError, block,
                 pending, replacement, calls, accepted, published, writes>>

\* A preserved object whose handle is one of the codec's literals gets another
\* one (allocHandle), which the filter then reserves like the others.
RemapHandle ==
  /\ phase = "idle" /\ writes = 0 /\ "remap" \in Habits /\ replacement = 0
  /\ Preserved \cup (Layouts \ {MaxHandle}) \subseteq alloc.explicitReserved
  /\ Handle!CanMint(alloc)
  /\ replacement' = Handle!MintedHandle(alloc)
  /\ alloc' = Handle!Reserved(Handle!Minted(alloc), replacement')
  /\ UNCHANGED <<phase, maps, log, scopes, file, writerError, writeError, block,
                 pending, reservationFailed, calls, accepted, published, writes>>

\* The filter reserves whatever it keeps before it calls write().
FilterReady ==
  /\ Preserved \subseteq alloc.explicitReserved
  /\ Layouts \subseteq alloc.explicitReserved \cup {MaxHandle}
  /\ "remap" \in Habits => replacement # 0

---------------------------------------------------------------------------
(* write(): the session starts, or refuses because a reservation failed.     *)

\* Mutant: the handles of the previous write's entities stay in the map.
ResetSessionKeepingSources ==
  /\ writeError' = FALSE /\ reservationFailed' = FALSE
  /\ alloc' = Handle!Seeded(Handle!ResetGenerated(alloc))
  /\ log' = <<>> /\ pending' = <<>> /\ block' = NoBlock
  /\ maps' = [NoMaps EXCEPT !.minted = maps.minted]
\* resetDxfWriteSession() and seedReservedDxf()
ResetSession ==
  /\ writeError' = FALSE /\ reservationFailed' = FALSE
  /\ alloc' = Handle!Seeded(Handle!ResetGenerated(alloc))
  /\ log' = <<>> /\ pending' = <<>> /\ block' = NoBlock
  /\ maps' = NoMaps

StartWrite ==
  /\ phase = "idle" /\ writes < MaxWrites /\ FilterReady /\ ~reservationFailed
  /\ ResetSession
  /\ phase' = "blockRecords"
  /\ writes' = writes + 1
  /\ calls' = 0 /\ accepted' = {} /\ file' = <<>>
  /\ writerError' = FALSE
  /\ scopes' = <<NewScope("blockRecords", 0, FALSE, 0, NoBlock, 0, NoMaps)>>
  /\ UNCHANGED <<replacement, published>>

\* A failure not yet reported makes write() return at once; it is consumed.
RefuseWrite ==
  /\ phase = "idle" /\ writes < MaxWrites /\ reservationFailed
  /\ reservationFailed' = FALSE /\ writes' = writes + 1
  /\ UNCHANGED <<alloc, phase, maps, log, scopes, file, writerError, writeError,
                 block, pending, replacement, calls, accepted, published>>

---------------------------------------------------------------------------
(* writeBlockRecords(): entity handles are planned and BLOCK_RECORDs         *)
(* collected before any of them can be referred to.                          *)

PreallocateEntityHandle(s) ==
  /\ InCallback("blockRecords") /\ "preallocate" \in Habits
  /\ s \notin maps.ambiguous /\ maps.minted[s] = 0
  /\ IF Handle!CanMint(alloc)
     THEN /\ alloc' = Handle!Minted(alloc)
          /\ maps' = [maps EXCEPT !.minted[s] = Handle!MintedHandle(alloc)]
          /\ log' = Append(log, [kind |-> "source", key |-> s])
          /\ UNCHANGED writeError
     ELSE /\ alloc' = Handle!Exhausted(alloc)
          /\ writeError' = TRUE /\ UNCHANGED <<maps, log>>
  /\ UNCHANGED <<phase, scopes, file, writerError, block, pending, calls,
                 reservationFailed, replacement, accepted, published, writes>>

\* The filter marks a source before it plans a handle for it.
MarkSourceHandleAmbiguous(s) ==
  /\ InCallback("blockRecords") /\ s \notin maps.ambiguous
  /\ maps.minted[s] = 0
  /\ maps' = [maps EXCEPT !.ambiguous = @ \cup {s}]
  /\ log' = Append(log, [kind |-> "ambiguous", key |-> s])
  /\ UNCHANGED <<alloc, phase, scopes, file, writerError, writeError, block,
                 pending, calls, reservationFailed, replacement, accepted,
                 published, writes>>

\* The handles after a BLOCK_RECORD's are those of its BLOCK and ENDBLK.
BlockHandle(record) == record + 1
EndBlockHandle(record) == record + 2

\* Mutant: the handles of BLOCK and ENDBLK are not taken from the allocator.
BlockRecordReservedAlone(a) == Handle!Minted(a)
\* writeBlockRecord(): next() for the record, reserve() for the other two.
BlockRecordReserved(a) ==
  LET record == Handle!MintedHandle(a)
  IN Handle!Reserved(Handle!Reserved(Handle!Minted(a), BlockHandle(record)),
                     EndBlockHandle(record))

BlockRecordFits(a) ==
  /\ Handle!CanMint(a)
  /\ EndBlockHandle(Handle!MintedHandle(a)) < MaxHandle

\* The allocator after a failed writeBlockRecord(): next() moved it, and the
\* first reserve() may have succeeded.
BlockRecordDenied(a) ==
  LET record == Handle!MintedHandle(a)
  IN IF ~Handle!CanMint(a) THEN Handle!Exhausted(a)
     ELSE IF EndBlockHandle(record) > MaxHandle THEN Handle!Minted(a)
     ELSE Handle!Reserved(Handle!Minted(a), BlockHandle(record))

WriteBlockRecord(b, inserts) ==
  /\ InCallback("blockRecords") /\ maps.blocks[b] = 0
  /\ IF BlockRecordFits(alloc)
     THEN /\ alloc' = BlockRecordReserved(alloc)
          /\ maps' = [maps EXCEPT !.blocks[b] = Handle!MintedHandle(alloc)]
          /\ log' = Append(log, [kind |-> "block", key |-> b])
          /\ pending' = Append(pending,
               Record(Handle!MintedHandle(alloc), RootDictionary, inserts, 0, "block"))
          /\ UNCHANGED writeError
     ELSE /\ alloc' = BlockRecordDenied(alloc)
          /\ writeError' = TRUE /\ UNCHANGED <<maps, log, pending>>
  /\ UNCHANGED <<phase, scopes, file, writerError, block, calls,
                 reservationFailed, replacement, accepted, published, writes>>

\* The handles the filter was given for a block's INSERTs (BLKREFS).
PlannedHandles == {maps.minted[s] : s \in Sources} \ {0}

\* The callback returns: the block state commits, HEADER, CLASSES and TABLES
\* are streamed with the collected BLOCK_RECORDs, and BLOCKS is begun with the
\* literal *Model_Space and *Paper_Space blocks.
WriteTables ==
  /\ InCallback("blockRecords") /\ ~writeError /\ ~writerError
  /\ file' = FixedRecords \o pending
  /\ scopes' = <<Scope("blocks", 0)>>
  /\ phase' = "blocks"
  /\ block' = NoBlock
  /\ UNCHANGED <<alloc, maps, log, writerError, writeError, pending, calls,
                 reservationFailed, replacement, accepted, published, writes>>

---------------------------------------------------------------------------
(* writeBlocks() and writeEntities(): entity records.                        *)

\* The ENDBLK of the block being written.
EndBlock == Record(EndBlockHandle(block.record), block.record, {}, 0, "block")

\* writeBlock(): closes the block before it and begins this one, in no scope of
\* its own.  The filter writes each block of the drawing once.
WriteBlock(b) ==
  /\ InCallback("blocks")
  /\ maps.blocks[b] = 0
       \/ \A i \in DOMAIN Top.records :
            Top.records[i].source # "block"
              \/ Top.records[i].handle # BlockHandle(maps.blocks[b])
  /\ IF writerError \/ maps.blocks[b] = 0
     THEN writeError' = TRUE /\ UNCHANGED <<scopes, block>>
     ELSE /\ scopes' = Emitted(scopes,
               (IF block.open THEN <<EndBlock>> ELSE <<>>)
                 \o <<Record(BlockHandle(maps.blocks[b]), maps.blocks[b], {}, 0,
                             "block")>>)
          /\ block' = [open |-> TRUE, record |-> maps.blocks[b]]
          /\ UNCHANGED writeError
  /\ UNCHANGED <<alloc, phase, maps, log, file, writerError, pending, calls,
                 reservationFailed, replacement, accepted, published, writes>>

\* A source the filter may give an entity: it writes one entity for each, but
\* for those it marked.
MayWrite(s) ==
  \/ s = NoSource \/ "share" \in Habits
  \/ s \in maps.ambiguous \/ s \notin maps.written

\* Mutant: a modeler entity is refused only after another modeler entity.
RefusedAfterModeler(kind, s) == s \in maps.modelers
\* writeEntity() refuses a second entity of a source when one of the two is a
\* modeler entity: ACDSDATA could not tell which one its key means.
Refused(kind, s) ==
  s \in maps.written /\ (kind = "modeler" \/ s \in maps.modelers)

\* The handle planned for a source, 0 when a new one must be minted.
Planned(s) ==
  IF s \in Sources \ maps.ambiguous THEN maps.minted[s] ELSE 0
CanEmit(s) == Planned(s) # 0 \/ Handle!CanMint(alloc)
EmittedHandle(s) ==
  IF Planned(s) # 0 THEN Planned(s) ELSE Handle!MintedHandle(alloc)

\* What writeEntity() records of an entity of source s, in the order it logs.
WrittenEntry(s) ==
  IF s \in Sources \ maps.written THEN <<[kind |-> "written", key |-> s]>> ELSE <<>>
SourceEntry(s) ==
  IF s \in Sources \ maps.ambiguous /\ maps.minted[s] = 0
  THEN <<[kind |-> "source", key |-> s]>> ELSE <<>>
ModelerEntry(kind, s) ==
  IF s \in Sources \ maps.ambiguous /\ kind = "modeler"
  THEN <<[kind |-> "modeler", key |-> s]>> ELSE <<>>

\* writeEntity() in the innermost scope of stack: the handle, the maps and the
\* record, owned by owner, or a refusal.
WriteEntity(kind, s, owner, stack) ==
  \/ /\ Refused(kind, s)
     /\ writeError' = TRUE /\ scopes' = Failed(stack)
     /\ UNCHANGED <<alloc, maps, log>>
  \/ /\ ~Refused(kind, s) /\ ~CanEmit(s)
     /\ alloc' = Handle!Exhausted(alloc)
     /\ writeError' = TRUE /\ scopes' = Failed(stack)
     /\ log' = log \o WrittenEntry(s)
     /\ maps' = [maps EXCEPT !.written = @ \cup ({s} \cap Sources)]
  \/ /\ ~Refused(kind, s) /\ CanEmit(s)
     /\ alloc' = IF Planned(s) # 0 THEN alloc ELSE Handle!Minted(alloc)
     /\ log' = log \o WrittenEntry(s) \o SourceEntry(s) \o ModelerEntry(kind, s)
     /\ maps' = [maps EXCEPT
          !.written = @ \cup ({s} \cap Sources),
          !.minted = IF SourceEntry(s) = <<>> THEN @
                     ELSE [@ EXCEPT ![s] = EmittedHandle(s)],
          !.modelers = IF ModelerEntry(kind, s) = <<>> THEN @ ELSE @ \cup {s}]
     /\ scopes' = [Emitted(stack, <<Record(EmittedHandle(s), owner, {},
                                           stack[Len(stack)].call, s)>>)
                     EXCEPT ![Len(stack)].handle =
                              IF @ = 0 THEN EmittedHandle(s) ELSE @]
     /\ UNCHANGED writeError

NoOwner == "none"
\* What the filter may leave in a record's parentHandle.
ParentHandles == {NoOwner} \cup (IF "keepOwners" \in Habits THEN SourceOwners ELSE {})

\* Mutant: the block written last, whether it is still open or not.
OwnerOfLastBlock(parent, space) == IF parent # NoOwner THEN parent ELSE block.record
\* The owner of an entity that is not part of another: the one it names, the
\* block being written, or the space it is in.
OwnerHandle(parent, space) ==
  IF parent # NoOwner THEN parent
  ELSE IF block.open THEN block.record
  ELSE IF space = "paper" THEN PaperSpace ELSE ModelSpace

\* writeLine(), writePolyline(), writeInsert() ...: the checks before the
\* scopes (preflightEntity), then the scopes and writeEntity().
BeginRecord(kind, s, parent, space, valid) ==
  /\ phase \in {"blocks", "entities"} /\ ~InRecord /\ calls < MaxCalls
  /\ MayWrite(s)
  /\ calls' = calls + 1
  /\ IF writerError \/ ~valid
     THEN writeError' = TRUE /\ UNCHANGED <<alloc, maps, log, scopes>>
     ELSE WriteEntity(kind, s, OwnerHandle(parent, space),
                      Asked(Append(scopes, Scope(kind, calls + 1))))
  /\ UNCHANGED <<phase, file, writerError, block, pending, reservationFailed,
                 replacement, accepted, published, writes>>

\* A VERTEX of a POLYLINE, written in the polyline's own scope.
WriteVertex(s) ==
  /\ InRecord /\ Top.kind = "polyline" /\ Top.stage = "open" /\ Top.size = 1
  /\ ~writerError /\ MayWrite(s)
  /\ WriteEntity("plain", s, Top.handle, Asked(scopes))
  /\ UNCHANGED <<phase, file, writerError, block, pending, calls,
                 reservationFailed, replacement, accepted, published, writes>>

\* An ATTRIB of an INSERT, in a scope inside the insert's.
BeginAttrib(s) ==
  /\ InRecord /\ Top.kind = "insert" /\ Top.stage = "open" /\ Top.size = 1
  /\ ~writerError /\ MayWrite(s)
  /\ WriteEntity("plain", s, Top.handle,
                 Append(Asked(scopes), Scope("attrib", Top.call)))
  /\ UNCHANGED <<phase, file, writerError, block, pending, calls,
                 reservationFailed, replacement, accepted, published, writes>>

\* writeSequenceEnd(): the SEQEND after the vertices or the attributes.
WriteSequenceEnd ==
  /\ InRecord /\ Top.stage = "open" /\ ~writerError
  /\ Top.kind = "polyline" \/ (Top.kind = "insert" /\ Top.size > 1)
  /\ IF Handle!CanMint(alloc)
     THEN /\ alloc' = Handle!Minted(alloc)
          /\ scopes' = [Emitted(Asked(scopes),
                 <<Record(Handle!MintedHandle(alloc), Top.handle, {}, Top.call,
                          NoSource)>>) EXCEPT ![Len(scopes)].stage = "ended"]
          /\ UNCHANGED writeError
     ELSE /\ alloc' = Handle!Exhausted(alloc)
          /\ writeError' = TRUE /\ scopes' = Failed(scopes)
  /\ UNCHANGED <<phase, maps, log, file, writerError, block, pending, calls,
                 reservationFailed, replacement, accepted, published, writes>>

\* The writer takes no string with a line break, no number out of range and
\* nothing once its stream is bad: any value of a record can fail.
WriterFails ==
  /\ ~writerError
  /\ IF InRecord THEN Top.stage # "failed" ELSE phase \in {"blocks", "objects"}
  /\ writerError' = TRUE
  /\ UNCHANGED <<alloc, phase, maps, log, scopes, file, writeError, block,
                 pending, calls, reservationFailed, replacement, accepted,
                 published, writes>>

\* Every value of the record is in its scope.
Complete ==
  \/ Top.kind \in {"plain", "modeler", "attrib"} /\ Top.stage = "open"
  \/ Top.kind = "insert" /\ Top.stage = "open" /\ Top.size = 1
  \/ Top.stage = "ended"

\* EntityRecordScope commits only without a latched error; the scopes of the
\* compound records look at the writer alone.
CleanEnough ==
  /\ ~writerError
  /\ Top.kind \in {"plain", "modeler", "attrib"} => ~writeError

CommitRecord ==
  /\ InRecord /\ Complete /\ CleanEnough
  /\ CommitScope
  /\ accepted' = IF Top.kind = "attrib" THEN accepted
                 ELSE accepted \cup {[call |-> Top.call, size |-> Top.size]}
  /\ UNCHANGED <<alloc, phase, maps, log, writeError, block, pending, calls,
                 reservationFailed, replacement, published, writes>>


\* A rejected value latches m_writeError in the part common to all entities and
\* in its extended data; in the rest of the record only the compound writers
\* notice it.
Latches == IF Top.kind \in {"polyline", "insert"} THEN {TRUE} ELSE BOOLEAN

\* Mutant: the INSERT goes on without the attribute.
AfterRejectedInsideKept == Outer
\* A rejected ATTRIB makes its INSERT return too.
AfterRejected == IF Top.kind = "attrib" THEN Failed(Outer) ELSE Outer

\* The writer returns without a commit, or its EntityRecordScope does not
\* commit because of an earlier error; in that case it still returns true.
AbortRecord ==
  /\ InRecord
  /\ Top.stage = "failed" \/ writerError \/ (Complete /\ ~CleanEnough)
  /\ RollbackScope
  /\ IF Top.stage # "failed" /\ ~writerError
     THEN /\ accepted' = IF Top.kind = "attrib" THEN accepted
                         ELSE accepted \cup {[call |-> Top.call, size |-> Top.size]}
          /\ scopes' = Outer
     ELSE /\ accepted' = accepted
          /\ scopes' = AfterRejected
  /\ IF writerError THEN \E latch \in Latches : writeError' = (writeError \/ latch)
     ELSE UNCHANGED writeError
  /\ UNCHANGED <<alloc, phase, calls, reservationFailed, replacement, published,
                 writes>>

\* The callback returns and the section's scope commits, after the last ENDBLK.
WriteBlocks ==
  /\ InCallback("blocks") /\ ~writeError /\ ~writerError
  /\ file' = file \o Top.records \o (IF block.open THEN <<EndBlock>> ELSE <<>>)
  /\ scopes' = <<>>
  /\ block' = [open |-> FALSE, record |-> block.record]
  /\ phase' = "entities"
  /\ UNCHANGED <<alloc, maps, log, writerError, writeError, pending, calls,
                 reservationFailed, replacement, accepted, published, writes>>

---------------------------------------------------------------------------
(* writeObjects() and the end of the file.                                   *)

\* Mutant: a member nobody wrote is emitted with its source's number.
MembersUnfiltered == {IF maps.minted[s] = 0 THEN MaxHandle ELSE maps.minted[s] :
                        s \in GroupMembers}
\* The 340s of the GROUP: the members that have an emitted handle.
EmittedMembers == {maps.minted[s] : s \in GroupMembers} \ {0}

\* The ENTITIES section ends and OBJECTS begins with the GROUP, whose handle is
\* minted first.
WriteEntities ==
  /\ InCallback("entities") /\ ~writeError /\ ~writerError
  /\ IF Handle!CanMint(alloc)
     THEN /\ alloc' = Handle!Minted(alloc)
          /\ scopes' = Emitted(<<Scope("objects", 0)>>,
               <<Record(Handle!MintedHandle(alloc), RootDictionary, EmittedMembers, 0,
                        "group")>>)
          /\ phase' = "objects"
          /\ UNCHANGED <<file, writeError>>
     ELSE /\ alloc' = Handle!Exhausted(alloc)
          /\ writeError' = TRUE
          /\ phase' = "idle" /\ file' = <<>> /\ UNCHANGED scopes
  /\ UNCHANGED <<maps, log, writerError, block, pending, calls,
                 reservationFailed, replacement, accepted, published, writes>>

\* An object in the file, with the owner it names (writeObjectOwner).
Kept(h, parent) ==
  Record(h, IF parent # NoOwner THEN parent ELSE RootDictionary, {}, 0, "kept")
NotYetWritten(h) ==
  \A i \in DOMAIN Top.records : ~(Top.records[i].source = "kept" /\ Top.records[i].handle = h)

\* writeDictionary() and writeXRecord(): the preserved handle, or the one that
\* replaces it, is reserved once more.  Any value may be rejected, which takes
\* the object back and latches a failure or does not.
WriteDictionary(h, parent) ==
  /\ InCallback("objects")
  /\ h \in Preserved \cup ({replacement} \ {0}) /\ NotYetWritten(h)
  /\ \/ writeError' = TRUE /\ UNCHANGED <<alloc, reservationFailed, scopes>>
     \/ /\ ~writerError
        /\ ReserveHandle(h)
        /\ \/ /\ Handle!CanReserve(alloc, h)
              /\ scopes' = Emitted(scopes, <<Kept(h, parent)>>)
              /\ UNCHANGED writeError
           \/ /\ writeError' \in {TRUE, writeError \/ ~Handle!CanReserve(alloc, h)}
              /\ UNCHANGED scopes
  /\ UNCHANGED <<phase, maps, log, file, writerError, block, pending, calls,
                 replacement, accepted, published, writes>>

\* writeLayout() and writePlotSettings(): the same without a scope, but a handle
\* that cannot be reserved drops the object and latches nothing.
WriteLayout(h, parent) ==
  /\ InCallback("objects")
  /\ h \in Layouts /\ NotYetWritten(h)
  /\ \/ writeError' = TRUE /\ UNCHANGED <<alloc, reservationFailed, scopes>>
     \/ /\ ~writerError
        /\ ReserveHandle(h)
        /\ scopes' = IF Handle!CanReserve(alloc, h)
                     THEN Emitted(scopes, <<Kept(h, parent)>>) ELSE scopes
        /\ UNCHANGED writeError
  /\ UNCHANGED <<phase, maps, log, file, writerError, block, pending, calls,
                 replacement, accepted, published, writes>>

\* The callback returns, OBJECTS commits, EOF is written, $HANDSEED is set to
\* highWaterHandle() and the file replaces the destination.
Publish ==
  /\ InCallback("objects") /\ ~writeError /\ ~writerError
  /\ published' = [records |-> file \o Top.records, handseed |-> alloc.next,
                   modelers |-> maps.modelers, ambiguous |-> maps.ambiguous]
  /\ phase' = "idle" /\ scopes' = <<>> /\ file' = <<>>
  /\ UNCHANGED <<alloc, maps, log, writerError, writeError, block, pending,
                 calls, reservationFailed, replacement, accepted, writes>>

\* failWrite(): a latched error is found at the end of a section, a write or the
\* commit fails, or the callback throws; every scope ends without a commit.
FailWrite ==
  /\ phase # "idle" /\ ~InRecord
  /\ phase' = "idle" /\ scopes' = <<>> /\ file' = <<>>
  /\ writeError' = TRUE /\ writerError' = FALSE
  /\ IF scopes = <<>> THEN UNCHANGED <<maps, log, pending, block>>
     ELSE /\ maps' = Undone(Top.checkpoint)
          /\ log' = SubSeq(log, 1, Top.checkpoint)
          /\ pending' = SubSeq(pending, 1, Top.pending)
          /\ block' = Top.block
  /\ UNCHANGED <<alloc, calls, reservationFailed, replacement, accepted,
                 published, writes>>

---------------------------------------------------------------------------

Init ==
  /\ alloc = Handle!NewAllocator
  /\ phase = "idle" /\ maps = NoMaps /\ log = <<>> /\ scopes = <<>> /\ file = <<>>
  /\ writerError = FALSE /\ writeError = FALSE
  /\ block = NoBlock /\ pending = <<>>
  /\ reservationFailed = FALSE /\ replacement = 0
  /\ calls = 0 /\ accepted = {} /\ published = NoFile /\ writes = 0

Entities == Sources \cup {NoSource}

Next ==
  \/ \E h \in Preserved \cup Layouts : KeepHandle(h)
  \/ RemapHandle
  \/ StartWrite
  \/ RefuseWrite
  \/ \E s \in Sources : PreallocateEntityHandle(s) \/ MarkSourceHandleAmbiguous(s)
  \/ \E b \in Blocks, inserts \in SUBSET PlannedHandles : WriteBlockRecord(b, inserts)
  \/ WriteTables
  \/ \E b \in Blocks : WriteBlock(b)
  \/ \E kind \in RecordKinds \ {"attrib"}, s \in Entities, parent \in ParentHandles,
        space \in Spaces, valid \in BOOLEAN :
       BeginRecord(kind, s, parent, space, valid)
  \/ \E s \in Entities : WriteVertex(s) \/ BeginAttrib(s)
  \/ WriteSequenceEnd
  \/ WriterFails
  \/ CommitRecord
  \/ AbortRecord
  \/ WriteBlocks
  \/ WriteEntities
  \/ \E h \in Preserved \cup {replacement}, parent \in ParentHandles :
       WriteDictionary(h, parent)
  \/ \E h \in Layouts, parent \in ParentHandles : WriteLayout(h, parent)
  \/ Publish
  \/ FailWrite

Spec == Init /\ [][Next]_vars

---------------------------------------------------------------------------
(* Properties.                                                               *)

PublishedHandles == {published.records[i].handle : i \in DOMAIN published.records}

\* No two records of a published file have the same code-5 handle: minted ones,
\* planned ones, a block's three, the codec's literals and those of preserved
\* objects, over retries and rolled back records. The only exception is a
\* filter that writes two entities of a source it did not mark as ambiguous:
\* writeEntity() then gives both the handle of the source.
UniqueHandles ==
  \A i, j \in DOMAIN published.records :
    published.records[i].handle = published.records[j].handle
    => \/ i = j
       \/ /\ "share" \in Habits
          /\ published.records[i].source = published.records[j].source
          /\ published.records[i].source \in Sources \ published.ambiguous

\* $HANDSEED is above every handle in the file.
HandseedAboveAll == \A h \in PublishedHandles : h < published.handseed

\* The owner the codec gives a record is in the file: an entity's BLOCK_RECORD,
\* a vertex's or an attribute's parent that may have been rolled back.  An owner
\* the filter left in the record has priority (libdxfrw.cpp:2648) and is emitted
\* as it is, in the file or not.
OwnersPublished ==
  \A i \in DOMAIN published.records :
    published.records[i].owner \in PublishedHandles \cup SourceOwners

\* No GROUP member (340) and no INSERT of a BLOCK_RECORD (331) dangles.
ReferencesPublished ==
  \A i \in DOMAIN published.records :
    published.records[i].refs \subseteq PublishedHandles

RecordsOf(f, c) == {i \in DOMAIN f.records : f.records[i].call = c}
\* A published file holds, whole, the records the writer accepted and nothing
\* of those it rejected, however deep in a record the rejected value was.
PublishesWhatItAccepted ==
  [][published' # published =>
       \A c \in 1..MaxCalls :
         IF \E a \in accepted : a.call = c
         THEN [call |-> c, size |-> Cardinality(RecordsOf(published', c))] \in accepted
         ELSE RecordsOf(published', c) = {}]_vars

\* Taking a record back restores the maps as they were when its scope opened.
RollbackRestores == [][AbortRecord => maps' = Top.before]_vars

\* The key of a modeler entity in ACDSDATA names exactly one published entity.
ModelerKeysUnique ==
  \A s \in published.modelers :
    Cardinality({i \in DOMAIN published.records :
                   published.records[i].source = s}) = 1

=============================================================================
