------------------------------ MODULE DwgReader ------------------------------
(***************************************************************************)
(* How a DWG file is read (dwgRW::processDwg and dwgReader's blocks,       *)
(* entities and objects phases).  The handle map lists frames; each frame  *)
(* is consumed once - as a delimiter or an entity of a block, by the sweep *)
(* over what no block consumed, or as an object - and a ledger keeps what  *)
(* became of it.  Up to R2000 the entities of a block form a chain of      *)
(* handles and are delivered while they are read; from R2004 on a block    *)
(* record lists them, and a block's callbacks are kept in a journal and    *)
(* replayed once the whole block has been accepted.                        *)
(*                                                                         *)
(* Entities are the simple ones: POLYLINE and INSERT with their parts have *)
(* a staged delivery of their own.  Frames of the table records are not    *)
(* among Frames.                                                           *)
(***************************************************************************)
EXTENDS Naturals, Sequences, FiniteSets

CONSTANTS
  Frames,      \* the handles of the handle map, in the order of the file
  Files,       \* the files a run offers
  Throwing,    \* what may throw: "value", "receipt" callbacks of the application
  Refusing     \* may a journal be refused room: {FALSE} or BOOLEAN

ASSUME FramesAssumption == Frames \subseteq Nat \ {0}
ASSUME FilesAssumption ==
  \A x \in Files : \A r \in x.records : r.handle \in Nat \ {0} /\ r.entMap \in Seq(Nat)

VARIABLES
  file,        \* the file read; never changes
  phase,       \* where processDwg() is
  error,       \* the first phase that failed, or "none"
  book,        \* where each frame is and what became of it
  pending,     \* block records not read yet
  sectionOk,   \* the result of the phase so far
  scope,       \* the block being read
  app,         \* what the application has seen
  status       \* m_dwgFrameCoverageStatus

vars == <<file, phase, error, book, pending, sectionOk, scope, app, status>>

NoRecord == [handle |-> 0]
NoScope == [record |-> NoRecord, step |-> "none"]

Chained == file.version = "R2000"       \* the R13 to R2000 layouts
Least(S) == CHOOSE f \in S : \A g \in S : f <= g

------------------------------------------------------------------------------
(* The ledger and the two maps. *)

Transient == {"pending", "deferred", "staged"}
Terminal == {"published", "quarantined", "failed", "unresolved"}

NewBook == [objects |-> {}, deferred |-> {}, leased |-> {}, alarm |-> FALSE,
            disposition |-> [f \in Frames |-> "pending"],
            receipts |-> [f \in Frames |-> 0]]

(* A transition the reader does not expect spoils the report. *)
Alarmed(b) == [b EXCEPT !.alarm = TRUE]

Allowed(from, to) == \/ from = "pending" /\ to \in {"deferred", "staged"}
                     \/ from \in Transient /\ to \in {"published", "quarantined", "failed"}

Marked(b, f, to) ==
  IF b.disposition[f] = to /\ ~(to = "published" /\ b.receipts[f] # 1) THEN b
  ELSE IF ~Allowed(b.disposition[f], to) \/ (to = "published" /\ b.receipts[f] # 0)
  THEN Alarmed(b)
  ELSE [b EXCEPT !.disposition[f] = to,
                 !.receipts[f] = IF to = "published" THEN 1 ELSE @]

(* Only a frame in one map that nobody has delivered or given up is taken. *)
Takeable(b, f) == /\ (f \in b.objects) # (f \in b.deferred)
                  /\ b.disposition[f] \in {"pending", "deferred"}
                  /\ b.receipts[f] = 0

Detached(b, f) ==
  IF Takeable(b, f)
  THEN [b EXCEPT !.objects = @ \ {f}, !.deferred = @ \ {f}, !.leased = @ \cup {f}]
  ELSE Alarmed(b)

(* A lease ends when the frame is settled. *)
Discarded(b, f) == IF b.disposition[f] \in Terminal
                   THEN [b EXCEPT !.leased = @ \ {f}]
                   ELSE Alarmed(b)

\* Mutant: the frame goes back to the map it came from.
DeferredWhereItWas(b, f) ==
  Marked([b EXCEPT !.leased = @ \ {f}, !.objects = @ \cup {f}], f, "deferred")

(* An object met among the entities waits for the objects phase. *)
Deferred(b, f) == Marked([b EXCEPT !.leased = @ \ {f}, !.deferred = @ \cup {f}],
                         f, "deferred")

Lost(b, f) == Discarded(Marked(b, f, "failed"), f)

\* Mutant: what is given up can still be found in the maps.
QuarantinedInMap(b, records) ==
  LET named == UNION {{r.block, r.endBlock} \cup {r.entMap[i] : i \in DOMAIN r.entMap} :
                        r \in records}
      mapped == named \cap (b.objects \cup b.deferred)
  IN [b EXCEPT !.disposition = [f \in Frames |->
                  IF f \in mapped /\ @[f] \in Transient THEN "quarantined" ELSE @[f]]]

(* Everything a block record names that is still in a map is given up. *)
Quarantined(b, records) ==
  LET named == UNION {{r.block, r.endBlock} \cup {r.entMap[i] : i \in DOMAIN r.entMap} :
                        r \in records}
      mapped == named \cap (b.objects \cup b.deferred)
      refused == {f \in mapped : b.disposition[f] \in {"published", "unresolved"}}
  IN [b EXCEPT !.objects = @ \ (mapped \ refused),
               !.deferred = @ \ (mapped \ refused),
               !.alarm = @ \/ refused # {},
               !.disposition = [f \in Frames |->
                  IF f \in mapped /\ @[f] \in Transient THEN "quarantined" ELSE @[f]]]

(* Frames whose lease the block still holds when it is aborted. *)
Aborted(b, r) ==
  Quarantined([b EXCEPT !.leased = {},
                        !.disposition = [f \in Frames |->
                           IF f \in b.leased /\ @[f] \in Transient
                           THEN "quarantined" ELSE @[f]]], {r})

------------------------------------------------------------------------------
(* The application. *)

NewApp == [open |-> 0,                              \* the block it was told to enter
           delivered |-> [f \in Frames |-> 0],      \* calls made for a frame
           within |-> [f \in Frames |-> 0],         \* the block of the last one
           reached |-> {},                          \* blocks reported as complete
           threw |-> FALSE]

Handed(a, f) == [a EXCEPT !.delivered[f] = @ + 1, !.within[f] = a.open]
Threw(a) == [a EXCEPT !.threw = TRUE]

(* A frame's receipt follows its value, and settles it. *)
Receipted(b, f, fails) ==
  IF b.disposition[f] \notin Transient \/ b.receipts[f] # 0 THEN Alarmed(b)
  ELSE Marked(b, f, IF fails THEN "failed" ELSE "published")

------------------------------------------------------------------------------
(* What reading one frame comes to. *)

OwnerOf(r) == IF r.space THEN 0 ELSE r.handle

\* Mutant: the sweep takes an entity whoever owns it.
ProbeFailsInBlocksOnly(f, r) ==
  CASE r = NoRecord -> FALSE
    [] r # NoRecord /\ r.space -> file.owner[f] # 0
    [] OTHER -> file.owner[f] = 0 \/ (file.version = "R2007" /\ file.owner[f] # r.handle)

(* The probe of the common header, before the typed parser. *)
ProbeFails(f, r) ==
  CASE r = NoRecord -> ~Chained /\ file.owner[f] # 0
    [] r # NoRecord /\ r.space -> file.owner[f] # 0
    [] OTHER -> file.owner[f] = 0 \/ (file.version = "R2007" /\ file.owner[f] # r.handle)

(* "structural" fails the phase, "body" loses the frame alone; in a journal *)
(* only what the probe sees is structural, the typed parser's verdict on    *)
(* the owner is not.                                                        *)
Verdict(f, r) ==
  CASE file.kind[f] = "broken" -> "structural"
    [] file.kind[f] = "object" -> "object"
    [] file.kind[f] # "object" /\ ProbeFails(f, r) -> "structural"
    [] file.kind[f] \in {"block", "endblk"} /\ ~ProbeFails(f, r) -> "object"
    [] OTHER ->
         IF ~file.parses[f] THEN "body"
         ELSE IF r # NoRecord /\ file.owner[f] # OwnerOf(r)
         THEN (IF Chained THEN "structural" ELSE "body")
         ELSE "good"

(* The value and the receipt of an entity delivered as soon as it is read; *)
(* at is the callback that throws, or "no".                                *)
DeliveredNow(b, f, at) == Discarded(
  CASE at = "value" -> Marked(b, f, "failed")
    [] at = "receipt" -> Receipted(b, f, TRUE)
    [] OTHER -> Receipted(b, f, FALSE), f)

Told(a, f, at) == IF at = "no" THEN Handed(a, f) ELSE Threw(Handed(a, f))

------------------------------------------------------------------------------
Init == /\ file \in Files
        /\ phase = "structure"
        /\ error = "none"
        /\ book = NewBook
        /\ pending = {}
        /\ sectionOk = TRUE
        /\ scope = NoScope
        /\ app = NewApp
        /\ status = "notAvailable"

(* Header, classes and handles are always read; tables, and the callbacks  *)
(* of the header and the tables, only after the three succeeded.           *)
ReadStructure ==
  /\ phase = "structure"
  /\ \E failed \in {"none", "header", "classes", "handles", "tables"}, mapped \in BOOLEAN :
        /\ failed = "handles" => ~mapped
        /\ failed \in {"none", "tables"} => mapped
        /\ error' = failed
        /\ book' = [book EXCEPT !.objects = IF mapped THEN Frames ELSE {}]
        /\ status' = IF mapped THEN "inProgress" ELSE "notAvailable"
        /\ phase' = IF failed = "none" THEN "claims" ELSE "finish"
  /\ UNCHANGED <<file, pending, sectionOk, scope, app>>

------------------------------------------------------------------------------
(* The blocks phase. *)

Claims(r) == <<r.block, r.endBlock>> \o (IF Chained THEN <<>> ELSE r.entMap)

\* Mutant: a frame may be claimed twice.
MisclaimedIfMissing(r) == \E i \in DOMAIN Claims(r) : Claims(r)[i] \notin book.objects

(* A claim to a frame that is not there, or that another record also makes. *)
Misclaimed(r) ==
  \E i \in DOMAIN Claims(r) :
     \/ Claims(r)[i] \notin book.objects
     \/ \E q \in file.records : \E j \in DOMAIN Claims(q) :
           <<q, j>> # <<r, i>> /\ Claims(q)[j] = Claims(r)[i]

(* All claims are checked before the first block is delivered. *)
CheckClaims ==
  LET misclaimed == {r \in file.records : Misclaimed(r)}
  IN /\ phase = "claims"
     /\ phase' = "blocks"
     /\ pending' = file.records \ misclaimed
     /\ sectionOk' = (misclaimed = {})
     /\ book' = Quarantined(book, misclaimed)
     /\ UNCHANGED <<file, error, scope, app, status>>

(* The two delimiters and, from R2004 on, the list of entities. *)
Delimits(f, kind, r) == /\ f \in book.objects
                        /\ file.kind[f] = kind
                        /\ file.parses[f]
                        /\ file.owner[f] = OwnerOf(r)

Sound(r) == /\ Delimits(r.block, "block", r)
            /\ Delimits(r.endBlock, "endblk", r)
            /\ ~Chained => \A i \in DOMAIN r.entMap :
                              r.entMap[i] \in book.objects /\ file.kind[r.entMap[i]] = "entity"

ReadingBlocks == phase = "blocks" /\ scope = NoScope

RefuseRecord ==
  /\ ReadingBlocks
  /\ \E r \in pending :
        /\ ~Sound(r)
        /\ pending' = pending \ {r}
        /\ book' = Quarantined(book, {r})
  /\ sectionOk' = FALSE
  /\ UNCHANGED <<file, phase, error, scope, app, status>>

(* The block is left; a failed one takes what it still names with it. *)
ScopeEnds == /\ scope' = NoScope
             /\ pending' = pending \ {scope.record}

ScopeFails(b, a) == /\ ScopeEnds
                    /\ book' = Aborted(b, scope.record)
                    /\ app' = a
                    /\ sectionOk' = FALSE

Call(what, f) == [what |-> what, frame |-> f]

\* Mutant: the entities of a space are told inside its block.
OpenJournalForSpaceToo ==
  /\ ReadingBlocks
  /\ ~Chained
  /\ \E r \in pending :
        /\ Sound(r)
        /\ scope' = [record |-> r, step |-> "journal", at |-> 1,
                     calls |-> <<Call("addBlock", r.block)>>]
        /\ book' = Marked(Marked(Detached(Detached(book, r.block), r.endBlock),
                                 r.block, "staged"), r.endBlock, "staged")
  /\ UNCHANGED <<file, phase, error, pending, sectionOk, app, status>>

(* R2004 and later.  Both delimiters are staged before any entity. *)
OpenJournal ==
  /\ ReadingBlocks
  /\ ~Chained
  /\ \E r \in pending :
        /\ Sound(r)
        /\ scope' = [record |-> r, step |-> "journal", at |-> 1,
                     calls |-> <<Call("addBlock", r.block)>>
                               \o (IF r.space THEN <<Call("endBlock", r.endBlock)>> ELSE <<>>)]
        /\ book' = Marked(Marked(Detached(Detached(book, r.block), r.endBlock),
                                 r.block, "staged"), r.endBlock, "staged")
  /\ UNCHANGED <<file, phase, error, pending, sectionOk, app, status>>

JournalEntity ==
  /\ scope.step = "journal"
  /\ scope.at <= Len(scope.record.entMap)
  /\ LET f == scope.record.entMap[scope.at]
         verdict == Verdict(f, scope.record)
     IN /\ verdict # "structural"
        /\ scope' = [scope EXCEPT !.at = @ + 1,
                       !.calls = IF verdict = "good"
                                 THEN @ \o <<Call("value", f), Call("receipt", f)>>
                                 ELSE @]
        /\ book' = IF verdict = "good" THEN Marked(Detached(book, f), f, "staged")
                                       ELSE Lost(Detached(book, f), f)
  /\ UNCHANGED <<file, phase, error, pending, sectionOk, app, status>>

(* A structural failure, or no room for another source or event. *)
FailJournal ==
  /\ scope.step = "journal"
  /\ \E refused \in Refusing :
        \/ refused
        \/ /\ scope.at <= Len(scope.record.entMap)
           /\ Verdict(scope.record.entMap[scope.at], scope.record) = "structural"
  /\ ScopeFails(book, app)
  /\ UNCHANGED <<file, phase, error, status>>

\* Mutant: a structural failure ends the journal, and what it holds is replayed.
SealJournalAtFailure ==
  /\ scope.step = "journal"
  /\ \/ scope.at > Len(scope.record.entMap)
     \/ /\ scope.at <= Len(scope.record.entMap)
        /\ Verdict(scope.record.entMap[scope.at], scope.record) = "structural"
  /\ LET r == scope.record
     IN scope' = [scope EXCEPT !.step = "replay", !.at = 1,
          !.calls = @ \o (IF r.space THEN <<>> ELSE <<Call("endBlock", r.endBlock)>>)
                      \o <<Call("receipt", r.block), Call("receipt", r.endBlock)>>]
  /\ UNCHANGED <<file, phase, error, book, pending, sectionOk, app, status>>

(* The block is told complete only if none of its entities was lost. *)
SealJournal ==
  /\ scope.step = "journal"
  /\ scope.at > Len(scope.record.entMap)
  /\ LET r == scope.record
         admitted == \A i \in DOMAIN r.entMap : book.disposition[r.entMap[i]] = "staged"
     IN scope' = [scope EXCEPT !.step = "replay", !.at = 1,
          !.calls = @ \o (IF r.space THEN <<>> ELSE <<Call("endBlock", r.endBlock)>>)
                      \o <<Call(IF admitted THEN "complete" ELSE "receipt", r.block),
                           Call("receipt", r.endBlock)>>]
  /\ UNCHANGED <<file, phase, error, book, pending, sectionOk, app, status>>

(* The receipt that a block is complete is checked against the ledger. *)
Reached(r) == /\ book.disposition[r.block] = "staged"
              /\ book.disposition[r.endBlock] = "staged"
              /\ \A i \in DOMAIN r.entMap : book.disposition[r.entMap[i]] = "published"

ReplayValue ==
  /\ scope.step = "replay"
  /\ scope.at <= Len(scope.calls)
  /\ LET call == scope.calls[scope.at]
         f == call.frame
         a == CASE call.what = "addBlock" -> [Handed(app, f) EXCEPT !.open = scope.record.handle]
                [] call.what = "endBlock" -> [Handed(app, f) EXCEPT !.open = 0]
                [] OTHER -> Handed(app, f)
     IN /\ call.what \in {"addBlock", "endBlock", "value"}
        /\ \/ /\ app' = a
              /\ scope' = [scope EXCEPT !.at = @ + 1]
              /\ UNCHANGED <<book, pending, sectionOk>>
           \/ /\ "value" \in Throwing
              /\ ScopeFails(Marked(book, f, "failed"),
                            Threw(IF call.what = "addBlock" THEN Handed(app, f) ELSE a))
  /\ UNCHANGED <<file, phase, error, status>>

ReplayReceipt ==
  /\ scope.step = "replay"
  /\ scope.at <= Len(scope.calls)
  /\ LET call == scope.calls[scope.at]
         f == call.frame
         r == scope.record
         invalid == call.what = "complete" /\ ~Reached(r)
         a == IF call.what = "complete" /\ ~invalid
              THEN [app EXCEPT !.reached = @ \cup {r}] ELSE app
     IN /\ call.what \in {"receipt", "complete"}
        /\ \/ /\ ~invalid
              /\ app' = a
              /\ book' = Discarded(Receipted(book, f, FALSE), f)
              /\ scope' = [scope EXCEPT !.at = @ + 1]
              /\ UNCHANGED <<pending, sectionOk>>
           \/ /\ invalid
              /\ ScopeFails(Marked(book, f, "failed"), app)
           \/ /\ "receipt" \in Throwing
              /\ ~invalid
              /\ ScopeFails(Receipted(book, f, TRUE), Threw(app))
  /\ UNCHANGED <<file, phase, error, status>>

EndReplay ==
  /\ scope.step = "replay"
  /\ scope.at > Len(scope.calls)
  /\ IF book.leased = {} THEN ScopeEnds /\ UNCHANGED <<book, app, sectionOk>>
                         ELSE ScopeFails(book, app)
  /\ UNCHANGED <<file, phase, error, status>>

(* Up to R2000.  Named blocks are walked between addBlock and endBlock, the *)
(* two spaces after endBlock.                                               *)
OpenBlock ==
  /\ ReadingBlocks
  /\ Chained
  /\ \E r \in pending :
        /\ Sound(r)
        /\ \/ /\ scope' = [record |-> r, step |-> IF r.space THEN "close" ELSE "walk",
                           link |-> r.first, visited |-> {}, walked |-> TRUE]
              /\ app' = [Handed(app, r.block) EXCEPT !.open = r.handle]
              /\ UNCHANGED <<book, pending, sectionOk>>
           \/ /\ "value" \in Throwing
              /\ app' = Threw(Handed(app, r.block))
              /\ book' = Quarantined(book, {r})
              /\ pending' = pending \ {r}
              /\ sectionOk' = FALSE
              /\ UNCHANGED scope
  /\ UNCHANGED <<file, phase, error, status>>

(* The handle after f in the chain, as far as f itself was understood. *)
Follow(f, understood, objects) ==
  LET link == IF ~understood THEN 0 ELSE IF file.implicit[f] THEN f + 1 ELSE file.next[f]
      implied == understood /\ file.implicit[f]
      last == scope.record.last
  IN CASE f = last -> 0
       [] f # last /\ implied /\ link > last -> 0
       [] f # last /\ implied /\ link = last /\ link \notin objects -> 0
       [] OTHER -> link

WalkEntity ==
  /\ scope.step = "walk"
  /\ scope.link # 0
  /\ scope.link \in book.objects \ scope.visited
  /\ LET f == scope.link
         verdict == Verdict(f, scope.record)
         b == Detached(book, f)
     IN \E at \in {"no"} \cup Throwing :
          /\ verdict # "good" => at = "no"
          /\ book' = CASE verdict = "good" -> DeliveredNow(b, f, at)
                       [] verdict = "object" -> Deferred(b, f)
                       [] OTHER -> Lost(b, f)
          /\ app' = IF verdict = "good" THEN Told(app, f, at) ELSE app
          /\ scope' = [scope EXCEPT !.visited = @ \cup {f},
                         !.walked = @ /\ verdict # "structural" /\ at # "value",
                         !.link = Follow(f, verdict = "good" /\ at # "value", book'.objects)]
  /\ UNCHANGED <<file, phase, error, pending, sectionOk, status>>

\* Mutant: a block whose walk failed is left without a call.
EndChainWithoutClose ==
  /\ scope.step = "walk"
  /\ scope.link = 0 \/ scope.link \in scope.visited \/ scope.link \notin book.objects
  /\ LET walked == scope.walked /\ scope.link \notin scope.visited
     IN scope' = [scope EXCEPT !.walked = walked,
                    !.step = IF scope.record.space \/ ~walked THEN "commit" ELSE "close"]
  /\ UNCHANGED <<file, phase, error, book, pending, sectionOk, app, status>>

(* The chain ends, breaks off (the sweep finds the rest) or runs in a circle. *)
EndChain ==
  /\ scope.step = "walk"
  /\ scope.link = 0 \/ scope.link \in scope.visited \/ scope.link \notin book.objects
  /\ scope' = [scope EXCEPT !.walked = @ /\ scope.link \notin scope.visited,
                            !.step = IF scope.record.space THEN "commit" ELSE "close"]
  /\ UNCHANGED <<file, phase, error, book, pending, sectionOk, app, status>>

(* endBlock is called once for every block that was opened. *)
CloseBlock ==
  /\ scope.step = "close"
  /\ LET a == [Handed(app, scope.record.endBlock) EXCEPT !.open = 0]
     IN \/ /\ app' = a
           /\ scope' = [scope EXCEPT !.step = IF scope.record.space THEN "walk" ELSE "commit"]
           /\ UNCHANGED <<book, pending, sectionOk>>
        \/ /\ "value" \in Throwing
           /\ ScopeFails(book, Threw(a))
  /\ UNCHANGED <<file, phase, error, status>>

(* The delimiters' own frames are settled last, both or none taken. *)
CommitBlock ==
  /\ scope.step = "commit"
  /\ LET r == scope.record
         whole == scope.walked /\ {r.block, r.endBlock} \subseteq book.objects
         b == [book EXCEPT !.objects = @ \ {r.block, r.endBlock}]
         first == Receipted(b, r.block, FALSE)
     IN \/ /\ ~whole
           /\ ScopeFails(book, app)
        \/ /\ whole
           /\ book' = Receipted(first, r.endBlock, FALSE)
           /\ ScopeEnds
           /\ UNCHANGED <<app, sectionOk>>
        \/ /\ whole
           /\ "receipt" \in Throwing
           /\ \/ ScopeFails(Receipted(b, r.block, TRUE), Threw(app))
              \/ ScopeFails(Receipted(first, r.endBlock, TRUE), Threw(app))
  /\ UNCHANGED <<file, phase, error, status>>

(* The phase that failed first names the error, and ends the read. *)
PhaseEnds(name, next) ==
  /\ error' = IF sectionOk THEN "none" ELSE name
  /\ phase' = IF sectionOk THEN next ELSE "finish"

EndBlocks ==
  /\ ReadingBlocks
  /\ pending = {}
  /\ PhaseEnds("blocks", "entities")
  /\ UNCHANGED <<file, book, pending, sectionOk, scope, app, status>>

------------------------------------------------------------------------------
(* The entities phase: what no block consumed, in the order of the file. *)
SweepEntity ==
  /\ phase = "entities"
  /\ book.objects # {}
  /\ LET f == Least(book.objects)
         verdict == Verdict(f, NoRecord)
         b == Detached(book, f)
     IN \E at \in {"no"} \cup Throwing :
          /\ verdict # "good" => at = "no"
          /\ book' = CASE verdict = "good" -> DeliveredNow(b, f, at)
                       [] verdict = "object" -> Deferred(b, f)
                       [] OTHER -> Lost(b, f)
          /\ app' = IF verdict = "good" THEN Told(app, f, at) ELSE app
          /\ sectionOk' = (sectionOk /\ verdict # "structural" /\ at # "value")
  /\ UNCHANGED <<file, phase, error, pending, scope, status>>

EndEntities ==
  /\ phase = "entities"
  /\ book.objects = {}
  /\ PhaseEnds("entities", "objects")
  /\ UNCHANGED <<file, book, pending, sectionOk, scope, app, status>>

(* The objects phase; the order depends on the classes of the file. *)
ReadObject ==
  /\ phase = "objects"
  /\ \E f \in book.deferred :
       LET b == Detached(book, f)
           good == file.kind[f] = "object" /\ file.parses[f]
       IN \E at \in {"no"} \cup Throwing :
            /\ ~good => at = "no"
            /\ book' = IF good THEN DeliveredNow(b, f, at) ELSE Lost(b, f)
            /\ app' = IF good THEN Told(app, f, at) ELSE app
            /\ sectionOk' = (sectionOk /\ file.kind[f] = "object" /\ at # "value")
  /\ UNCHANGED <<file, phase, error, pending, scope, status>>

(* The sections kept as bytes come last. *)
EndObjects ==
  /\ phase = "objects"
  /\ book.deferred = {}
  /\ \/ PhaseEnds("objects", "finish") /\ UNCHANGED app
     \/ /\ sectionOk
        /\ "value" \in Throwing
        /\ error' = "objects"
        /\ phase' = "finish"
        /\ app' = Threw(app)
  /\ UNCHANGED <<file, book, pending, sectionOk, scope, status>>

\* Mutant: frames nobody came to are left out of the report.
FinishLeavesOpen ==
  /\ phase = "finish"
  /\ phase' = "done"
  /\ IF status = "notAvailable" THEN UNCHANGED status
     ELSE status' = IF /\ error = "none"
                       /\ \A f \in Frames : book.disposition[f] = "published"
                    THEN "complete" ELSE "partial"
  /\ UNCHANGED <<file, error, book, pending, sectionOk, scope, app>>

(* The report is made whatever happened; without a handle map there is none. *)
Finish ==
  LET settled == [book EXCEPT !.disposition = [f \in Frames |->
                    IF @[f] \in Transient THEN "unresolved" ELSE @[f]]]
      complete == /\ error = "none"
                  /\ ~book.alarm
                  /\ \A f \in Frames : /\ settled.disposition[f] = "published"
                                       /\ settled.receipts[f] = 1
  IN /\ phase = "finish"
     /\ phase' = "done"
     /\ IF status = "notAvailable" THEN UNCHANGED <<book, status>>
        ELSE /\ book' = settled
             /\ status' = IF complete THEN "complete" ELSE "partial"
     /\ UNCHANGED <<file, error, pending, sectionOk, scope, app>>

------------------------------------------------------------------------------
ReadJournalled == \/ OpenJournal \/ JournalEntity \/ FailJournal \/ SealJournal
                  \/ ReplayValue \/ ReplayReceipt \/ EndReplay

ReadChained == OpenBlock \/ WalkEntity \/ EndChain \/ CloseBlock \/ CommitBlock

Next == \/ ReadStructure
        \/ CheckClaims \/ RefuseRecord \/ ReadJournalled \/ ReadChained \/ EndBlocks
        \/ SweepEntity \/ EndEntities
        \/ ReadObject \/ EndObjects
        \/ Finish

(* The read is one call that runs until it returns. *)
Spec == Init /\ [][Next]_vars /\ WF_vars(Next)

------------------------------------------------------------------------------
(* Properties. *)

(* The reader never trips its own alarm over the ledger, whatever the file  *)
(* holds: reportDwgFrameTransitionFailure() is for states that cannot be.   *)
NeverAlarmed == ~book.alarm

(* The application hears of a frame at most once, and the ledger calls      *)
(* published exactly what it heard of and did not refuse.                   *)
DeliveredOnce ==
  \A f \in Frames : /\ app.delivered[f] <= 1
                    /\ book.disposition[f] = "published" => app.delivered[f] = 1

(* An entity is delivered inside a block only if the block owns it, and     *)
(* outside any block only if nothing owns it - but for the chained layouts, *)
(* where the sweep brings what a broken chain left (rejectOwnedEntityInSweep). *)
InItsBlock ==
  \A f \in Frames :
     app.delivered[f] > 0 /\ file.kind[f] = "entity" =>
        \/ file.owner[f] = app.within[f]
        \/ Chained /\ app.within[f] = 0

(* From R2004 on the application hears of a block only when every entity    *)
(* the record lists has been read (DwgBlockScopeTransaction).               *)
HeardOfWhole ==
  ~Chained => \A r \in file.records :
     /\ r.block \in Frames
     /\ app.delivered[r.block] > 0 /\ file.kind[r.block] = "block"
     => \A i \in DOMAIN r.entMap : book.disposition[r.entMap[i]] # "pending"

(* A block told complete (addDwgBlockReachability) has delivered and        *)
(* published every entity its record lists, in the order asked for.         *)
CompleteBlocks ==
  \A r \in app.reached : \A i \in DOMAIN r.entMap :
     /\ book.disposition[r.entMap[i]] = "published"
     /\ app.within[r.entMap[i]] = OwnerOf(r)

(* addBlock is balanced by endBlock when the block is left, unless one of   *)
(* the application's own callbacks threw during a replay.                   *)
BlocksBalanced ==
  scope = NoScope => app.open = 0 \/ (app.threw /\ ~Chained)

(* The read implements the promise of the coverage report: frames are       *)
(* settled once and for good, and only then is the report made.             *)
Coverage == INSTANCE FrameCoverage WITH
  outcome <- [f \in Frames |->
                CASE book.disposition[f] \in Transient -> "open"
                  [] book.disposition[f] = "published" -> "published"
                  [] OTHER -> "lost"],
  report <- IF status \in {"complete", "partial"} THEN status ELSE "none"

ImplementsFrameCoverage == Coverage!Spec

(* Every read ends, whatever the links between the entities: a chain that   *)
(* runs in a circle, a link to a frame already consumed or to a delimiter.  *)
Terminates == <>(phase = "done")

==============================================================================
