-------------------------- MODULE DwgDeliveryProofs --------------------------
(***************************************************************************)
(* Where the application hears of a frame: an entity inside its own block, *)
(* a block of the later layouts only when all its entities were read, and  *)
(* a block that is reported complete with all of them, for any files and   *)
(* any number of frames.                                                   *)
(***************************************************************************)
EXTENDS DwgReaderProofs

------------------------------------------------------------------------------
(* The invariant, beside CoreInv. *)

InFrames(r) == \A i \in DOMAIN r.entMap : r.entMap[i] \in Frames

(* An entity that was told is where it belongs. *)
Homes(a) ==
  \A f \in Frames : a.delivered[f] > 0 /\ file.kind[f] = "entity" =>
     file.owner[f] = a.within[f] \/ (Chained /\ a.within[f] = 0)

(* The application is outside of every block once the sweep begins: a block *)
(* that a callback left open fails the phase.                               *)
Outside ==
  /\ scope.step = "none" /\ sectionOk => app.open = 0
  /\ phase \in {"claims", "entities", "objects"} => app.open = 0
  /\ scope.step = "walk" /\ ~scope.record.space => app.open = scope.record.handle

(* No other record of the file names the same BLOCK. *)
Sole(r) == \A q \in file.records : q.block = r.block => q = r

(* The calls of a journal: an entity is told between those of its block,    *)
(* or after them if the block is a space.                                   *)
Ordered(q, r) ==
  \A i \in 1..Len(q) :
    /\ q[i].what = "addBlock" => q[i].frame = r.block
    /\ q[i].what = "endBlock" => q[i].frame = r.endBlock
    /\ q[i].what = "value" =>
         /\ file.owner[q[i].frame] = OwnerOf(r) /\ file.kind[q[i].frame] # "block"
         /\ i # 1
         /\ \A j \in 1..Len(q) : q[j].what = "endBlock" => IF r.space THEN j < i ELSE i < j

(* What became of the listed frames up to upto, exclusively. *)
Accounted(r, upto, b) ==
  \A i \in 1..Len(r.entMap) : i < upto =>
    LET f == r.entMap[i]
    IN /\ b.disposition[f] \in Terminal \cup {"staged"}
       /\ b.disposition[f] = "staged" => f \in b.leased
       /\ b.disposition[f] \in {"staged", "published"} => file.owner[f] = OwnerOf(r)

Upto(s) == IF s.step = "journal" THEN s.at ELSE Len(s.record.entMap) + 1
JournalOK(s, b) ==
  /\ file.kind[s.record.block] = "block" /\ file.kind[s.record.endBlock] = "endblk"
  /\ Sole(s.record) /\ InFrames(s.record) /\ Ordered(s.calls, s.record)
  /\ \A i \in 1..Len(s.record.entMap) : file.kind[s.record.entMap[i]] = "entity"
  /\ Accounted(s.record, Upto(s), b)

EndsLater(q, from) == \E i \in from..Len(q) : q[i].what = "endBlock"
Entered(s, a) ==
  s.at > 1 => a.open = IF EndsLater(s.calls, s.at) THEN s.record.handle ELSE 0

HomeInv ==
  /\ Homes(app) /\ Outside
  /\ \A r \in pending : Sole(r)
  /\ scope.step \in {"journal", "replay"} => JournalOK(scope, book)
  /\ scope.step = "replay" => Entered(scope, app)

(* Blocks that were reported complete. *)
Complete(b, a) ==
  \A r \in a.reached : /\ InFrames(r)
                       /\ \A i \in DOMAIN r.entMap :
                            /\ b.disposition[r.entMap[i]] = "published"
                            /\ a.within[r.entMap[i]] = OwnerOf(r)

(* Blocks that were told from a journal. *)
Whole(b, a) ==
  ~Chained => \A r \in file.records :
    r.block \in Frames /\ a.delivered[r.block] > 0 /\ file.kind[r.block] = "block" =>
      /\ InFrames(r)
      /\ \A i \in DOMAIN r.entMap : \/ b.disposition[r.entMap[i]] \in Terminal
                                    \/ scope.step = "replay" /\ scope.record = r

DeliveryInv == CoreInv /\ HomeInv /\ Complete(book, app) /\ Whole(book, app)

------------------------------------------------------------------------------
(* What the application's record of a call is. *)

Same(a, c) == c.delivered = a.delivered /\ c.within = a.within /\ c.reached = a.reached
Tells(a, c, f) ==
  /\ c.delivered[f] = a.delivered[f] + 1 /\ c.within[f] = a.open
  /\ \A g \in Frames \ {f} : c.delivered[g] = a.delivered[g] /\ c.within[g] = a.within[g]
  /\ c.reached = a.reached

(* The block of a frame changes only with a call for it. *)
Moves(a, c) == \A f \in Frames : c.delivered[f] = a.delivered[f] => c.within[f] = a.within[f]

LEMMA HandedTells ==
  ASSUME NEW a \in Apps, NEW f \in Frames
  PROVE  /\ Tells(a, Handed(a, f), f) /\ Handed(a, f).open = a.open
         /\ Moves(a, Handed(a, f))
<1> DEFINE c == Handed(a, f)
<1>1. c = [a EXCEPT !.delivered[f] = @ + 1, !.within[f] = a.open]
  BY DEF Handed
<1>2. /\ a.delivered \in [Frames -> Nat] /\ a.within \in [Frames -> Nat]
  BY DEF Apps
<1> HIDE DEF c
<1>3. /\ c.delivered = [a.delivered EXCEPT ![f] = @ + 1]
      /\ c.within = [a.within EXCEPT ![f] = a.open]
      /\ c.reached = a.reached /\ c.open = a.open
  BY <1>1 DEF Apps
<1>4. Tells(a, c, f)
  BY <1>2, <1>3 DEF Tells
<1>5. Moves(a, c)
  BY <1>2, <1>4 DEF Tells, Moves
<1>6. QED BY <1>3, <1>4, <1>5 DEF c

LEMMA ThrewSame ==
  ASSUME NEW a \in Apps
  PROVE  Same(a, Threw(a)) /\ Threw(a).open = a.open
BY DEF Apps, Threw, Same

LEMMA OpenSame ==
  ASSUME NEW a \in Apps, NEW x
  PROVE  LET c == [a EXCEPT !.open = x] IN Same(a, c) /\ c.open = x
BY DEF Apps, Same

LEMMA TellsThenSame ==
  ASSUME NEW a, NEW c, NEW e, NEW f, Tells(a, c, f), Same(c, e)
  PROVE  Tells(a, e, f)
BY DEF Tells, Same

LEMMA TellsMoves ==
  ASSUME NEW a \in Apps, NEW c, NEW f \in Frames, Tells(a, c, f)
  PROVE  Moves(a, c)
<1>1. a.delivered[f] \in Nat
  BY DEF Apps
<1>2. QED BY <1>1 DEF Tells, Moves

LEMMA ToldTells ==
  ASSUME NEW a \in Apps, NEW f \in Frames, NEW at
  PROVE  Tells(a, Told(a, f, at), f) /\ Told(a, f, at).open = a.open
<1>1. Handed(a, f) \in Apps
  BY HandedHears DEF Hears
<1>2. QED BY <1>1, HandedTells, ThrewSame, TellsThenSame DEF Told

------------------------------------------------------------------------------
(* What a call leaves as it was. *)

LEMMA HomesSame ==
  ASSUME NEW a, NEW c, Homes(a), Same(a, c)
  PROVE  Homes(c)
BY DEF Homes, Same

LEMMA HomesTold ==
  ASSUME NEW a, NEW c, NEW f \in Frames, Homes(a), Tells(a, c, f),
         \/ file.kind[f] # "entity"
         \/ file.owner[f] = a.open
         \/ Chained /\ a.open = 0
  PROVE  Homes(c)
BY DEF Homes, Tells

LEMMA CompleteKept ==
  ASSUME NEW b, NEW c, NEW a, NEW e, Complete(b, a), Keeps(b, c), Once(b, a), Once(c, e),
         Moves(a, e), e.reached = a.reached
  PROVE  Complete(c, e)
<1>1. ASSUME NEW r \in e.reached, NEW i \in DOMAIN r.entMap
      PROVE  /\ c.disposition[r.entMap[i]] = "published"
             /\ e.within[r.entMap[i]] = OwnerOf(r)
  <2> DEFINE f == r.entMap[i]
  <2>1. f \in Frames /\ b.disposition[f] = "published" /\ a.within[f] = OwnerOf(r)
    BY <1>1 DEF Complete, InFrames
  <2> HIDE DEF f
  <2>2. c.disposition[f] = "published"
    BY <2>1 DEF Keeps, Terminal
  <2>3. a.delivered[f] = 1 /\ e.delivered[f] = 1
    BY <2>1, <2>2 DEF Once
  <2>4. QED BY <2>1, <2>2, <2>3 DEF Moves, f
<1>2. QED BY <1>1 DEF Complete

LEMMA WholeKept ==
  ASSUME Whole(book, app), Keeps(book, book'), file' = file,
         \A f \in Frames : file.kind[f] = "block" /\ app'.delivered[f] > 0
                              => app.delivered[f] > 0,
         scope.step = "replay" =>
           \/ scope'.step = "replay" /\ scope'.record = scope.record
           \/ \A i \in DOMAIN scope.record.entMap :
                book'.disposition[scope.record.entMap[i]] \in Terminal
  PROVE  Whole(book, app)'
<1>1. ASSUME ~Chained, NEW r \in file.records, r.block \in Frames,
             app'.delivered[r.block] > 0, file.kind[r.block] = "block",
             NEW i \in DOMAIN r.entMap
      PROVE  /\ InFrames(r)
             /\ \/ book'.disposition[r.entMap[i]] \in Terminal
                \/ scope'.step = "replay" /\ scope'.record = r
  <2>1. /\ InFrames(r)
        /\ \/ book.disposition[r.entMap[i]] \in Terminal
           \/ scope.step = "replay" /\ scope.record = r
    BY <1>1 DEF Whole
  <2>2. r.entMap[i] \in Frames
    BY <1>1, <2>1 DEF InFrames
  <2>3. QED BY <1>1, <2>1, <2>2 DEF Keeps
<1>2. QED BY <1>1 DEF Whole, Chained, InFrames

------------------------------------------------------------------------------
(* Between blocks. *)

LEMMA Unlisted ==
  ASSUME DeliveryInv, CoreInv', Keeps(book, book'), file' = file,
         scope'.step \notin {"journal", "replay"}, \A r \in pending' : Sole(r),
         Homes(app'), Outside', Moves(app, app'), app'.reached = app.reached,
         Whole(book, app)'
  PROVE  DeliveryInv'
<1>1. Complete(book', app')
  BY CompleteKept DEF DeliveryInv, CoreInv
<1>2. Complete(book, app)'
  BY <1>1 DEF Complete, InFrames
<1>3. HomeInv'
  BY DEF HomeInv, Homes, Chained, Sole
<1>4. QED BY <1>2, <1>3 DEF DeliveryInv

LEMMA SoleKept ==
  ASSUME DeliveryInv, pending' \subseteq pending
  PROVE  \A r \in pending' : Sole(r)
BY DEF DeliveryInv, HomeInv

LEMMA Between ==
  ASSUME DeliveryInv, CoreInv', Keeps(book, book'), file' = file, scope = NoScope,
         scope' = NoScope, Same(app, app'), app'.open = app.open,
         \A r \in pending' : Sole(r), sectionOk' => sectionOk \/ app.open = 0,
         phase' \in {"claims", "entities", "objects"} => app.open = 0
  PROVE  DeliveryInv'
<1>1. scope.step = "none" /\ scope'.step = "none"
  BY BetweenBlocks DEF NoScope
<1>2. Homes(app') /\ Moves(app, app') /\ app'.reached = app.reached
  BY HomesSame DEF DeliveryInv, HomeInv, Same, Moves
<1>3. Outside'
  BY <1>1 DEF DeliveryInv, HomeInv, Outside
<1>4. Whole(book, app)'
  BY <1>1, WholeKept DEF DeliveryInv, Same
<1>5. QED BY <1>1, <1>2, <1>3, <1>4, Unlisted

LEMMA InitDelivery == ASSUME Init PROVE DeliveryInv
<1>1. CoreInv /\ scope.step = "none" /\ app = NewApp /\ pending = {} /\ phase = "structure"
  BY InitCore DEF Init, NoScope
<1>2. NewApp.reached = {} /\ NewApp.open = 0
  BY DEF NewApp
<1>3. Homes(app) /\ Complete(book, app) /\ Whole(book, app)
  BY <1>1, <1>2, NewAppFits DEF Homes, Complete, Whole
<1>4. QED BY <1>1, <1>2, <1>3 DEF DeliveryInv, HomeInv, Outside

LEMMA SameApp == ASSUME app' = app PROVE Same(app, app') /\ app'.open = app.open
BY DEF Same

LEMMA StructureTells ==
  ASSUME DeliveryInv, ReadStructure, CoreInv', Keeps(book, book')
  PROVE  DeliveryInv'
<1>1. /\ scope = NoScope /\ app.open = 0 /\ UNCHANGED <<file, pending, sectionOk, scope, app>>
  BY DEF DeliveryInv, CoreInv, ReadStructure, NewApp
<1>2. QED BY <1>1, Between, SoleKept, SameApp

(* A record whose claims all stand is the only one to name its BLOCK. *)
LEMMA UnmisclaimedIsSole ==
  ASSUME NEW r \in file.records, ~Misclaimed(r),
         \A q \in file.records : q.entMap \in Seq(Nat)
  PROVE  Sole(r)
<1>1. ASSUME NEW q \in file.records
      PROVE  1 \in DOMAIN Claims(q) /\ Claims(q)[1] = q.block
  <2>1. CASE Chained
    <3>1. Claims(q) = <<q.block, q.endBlock>> \o <<>>
      BY <2>1 DEF Claims
    <3>2. QED BY <3>1
  <2>2. CASE ~Chained
    <3> DEFINE S == {q.block, q.endBlock} \cup Nat
               D == <<q.block, q.endBlock>>
               C == Claims(q)
    <3>1. C = D \o q.entMap
      BY <2>2 DEF Claims
    <3>2. /\ D \in Seq(S) /\ q.entMap \in Seq(S) /\ Len(D) = 2 /\ D[1] = q.block
          /\ Len(q.entMap) \in Nat
      OBVIOUS
    <3> HIDE DEF D, S, C
    <3>3. /\ C \in Seq(S) /\ Len(C) = Len(D) + Len(q.entMap)
          /\ \A i \in 1..(Len(D) + Len(q.entMap)) :
                C[i] = IF i <= Len(D) THEN D[i] ELSE q.entMap[i - Len(D)]
      BY ONLY <3>1, <3>2, ConcatProperties
    <3>4. 1 \in DOMAIN C /\ C[1] = D[1]
      BY ONLY <3>2, <3>3
    <3>5. QED BY <3>2, <3>4 DEF C
  <2>3. QED BY <2>1, <2>2
<1>2. ASSUME NEW q \in file.records, q.block = r.block PROVE q = r
  <2>1. Claims(q)[1] = Claims(r)[1] /\ 1 \in DOMAIN Claims(q) /\ 1 \in DOMAIN Claims(r)
    BY <1>1, <1>2
  <2>2. ~(<<q, 1>> # <<r, 1>>)
    BY <2>1 DEF Misclaimed
  <2>3. QED BY <2>2
<1>3. QED BY <1>2 DEF Sole

LEMMA ClaimsTell ==
  ASSUME DeliveryInv, CheckClaims, CoreInv', Keeps(book, book')
  PROVE  DeliveryInv'
<1>1. /\ phase = "claims" /\ phase' = "blocks" /\ UNCHANGED <<file, scope, app>>
      /\ pending' = file.records \ {r \in file.records : Misclaimed(r)}
  BY DEF CheckClaims
<1>2. scope = NoScope /\ app.open = 0
  BY <1>1, OutsideBlocks DEF DeliveryInv, HomeInv, Outside
<1>3. \A q \in file.records : q.entMap \in Seq(Nat)
  BY FilesAssumption DEF DeliveryInv, CoreInv
<1>4. \A r \in pending' : Sole(r)
  BY <1>1, <1>3, UnmisclaimedIsSole
<1>5. QED BY <1>1, <1>2, <1>4, Between, SameApp

LEMMA RefuseTells ==
  ASSUME DeliveryInv, RefuseRecord, CoreInv', Keeps(book, book')
  PROVE  DeliveryInv'
<1>1. /\ phase' = "blocks" /\ scope = NoScope /\ UNCHANGED <<file, scope, app>>
      /\ pending' \subseteq pending /\ sectionOk' = FALSE
  BY DEF RefuseRecord, ReadingBlocks
<1>2. QED BY <1>1, Between, SoleKept, SameApp

LEMMA EndTells ==
  ASSUME DeliveryInv, EndBlocks \/ EndEntities \/ EndObjects, CoreInv', Keeps(book, book')
  PROVE  DeliveryInv'
<1>1. /\ phase \in {"entities", "objects"} \/ scope = NoScope
      /\ UNCHANGED <<file, pending, sectionOk, scope>>
      /\ \/ phase' \in {"finish", "objects"} /\ phase \in {"entities", "objects"}
         \/ phase' = "finish" \/ sectionOk
      /\ phase' \notin {"blocks", "claims"}
      /\ app' = app \/ app' = Threw(app)
  BY DEF EndBlocks, EndEntities, EndObjects, PhaseEnds, ReadingBlocks
<1>2. scope = NoScope /\ scope.step = "none" /\ app \in Apps
  BY <1>1, OutsideBlocks, BetweenBlocks DEF DeliveryInv, CoreInv
<1>3. phase' \in {"claims", "entities", "objects"} => app.open = 0
  BY <1>1, <1>2 DEF DeliveryInv, HomeInv, Outside
<1>4. Same(app, app') /\ app'.open = app.open
  BY <1>1, <1>2, SameApp, ThrewSame
<1>5. QED BY <1>1, <1>2, <1>3, <1>4, Between, SoleKept

LEMMA FinishTells ==
  ASSUME DeliveryInv, Finish, CoreInv', Keeps(book, book')
  PROVE  DeliveryInv'
<1>1. /\ phase = "finish" /\ phase' = "done"
      /\ UNCHANGED <<file, pending, sectionOk, scope, app>>
  BY DEF Finish
<1>2. scope = NoScope
  BY <1>1, OutsideBlocks DEF DeliveryInv
<1>3. QED BY <1>1, <1>2, Between, SoleKept, SameApp

LEMMA StutterTells == ASSUME DeliveryInv, UNCHANGED vars PROVE DeliveryInv'
<1>1. CoreInv'
  BY StutterStep DEF DeliveryInv
<1>2. UNCHANGED <<file, phase, book, pending, sectionOk, scope, app>>
  BY DEF vars
<1>3. HomeInv'
  BY <1>2 DEF DeliveryInv, HomeInv, Homes, Outside, Sole, JournalOK, InFrames, Ordered, Accounted,
    Upto, Entered, EndsLater, Chained
<1>4. Complete(book, app)' /\ Whole(book, app)'
  BY <1>2 DEF DeliveryInv, Complete, Whole, InFrames, Chained
<1>5. QED BY <1>1, <1>3, <1>4 DEF DeliveryInv

------------------------------------------------------------------------------
(* Frames that are told as soon as they are read. *)

LEMMA GoodIsOwned ==
  ASSUME NEW f, NEW r, Verdict(f, r) = "good"
  PROVE  /\ file.kind[f] \notin {"block", "endblk", "object"}
         /\ r = NoRecord => Chained \/ file.owner[f] = 0
         /\ r # NoRecord => file.owner[f] = OwnerOf(r)
BY DEF Verdict, ProbeFails

(* A call for a frame that delimits no block. *)
LEMMA OneTold ==
  ASSUME app \in Apps, NEW f \in Frames, NEW at, file.kind[f] # "block",
         app' = app \/ app' = Told(app, f, at)
  PROVE  /\ Moves(app, app') /\ app'.reached = app.reached /\ app'.open = app.open
         /\ \A g \in Frames : file.kind[g] = "block" /\ app'.delivered[g] > 0
                                => app.delivered[g] > 0
<1>1. CASE app' = app
  BY <1>1 DEF Moves
<1>2. CASE app' = Told(app, f, at)
  <2>1. Tells(app, app', f) /\ app'.open = app.open
    BY <1>2, ToldTells
  <2>2. QED BY <2>1, TellsMoves DEF Tells
<1>3. QED BY <1>1, <1>2

LEMMA SweepTells ==
  ASSUME DeliveryInv, SweepEntity, CoreInv', Keeps(book, book')
  PROVE  DeliveryInv'
<1> DEFINE f == Least(book.objects)
<1>1. /\ phase = "entities" /\ book.objects # {}
      /\ UNCHANGED <<file, phase, pending, scope>>
      /\ \/ app' = app
         \/ Verdict(f, NoRecord) = "good" /\ \E at \in {"no"} \cup Throwing : app' = Told(app, f, at)
  BY DEF SweepEntity
<1>2. /\ CoreInv /\ scope = NoScope /\ scope.step = "none" /\ app \in Apps /\ InOrder(book)
      /\ Homes(app) /\ app.open = 0
  BY <1>1, OutsideBlocks, BetweenBlocks
  DEF DeliveryInv, CoreInv, InBooks, HomeInv, Outside
<1>3. f \in Frames
  <2>1. book.objects \in SUBSET Nat /\ book.objects \subseteq Frames
    BY <1>2, BookFields, FramesAssumption DEF InOrder
  <2>2. QED BY <1>1, <2>1, LeastIn
<1> HIDE DEF f
<1>4. Homes(app') /\ app'.open = app.open /\ Moves(app, app') /\ app'.reached = app.reached
      /\ \A g \in Frames : file.kind[g] = "block" /\ app'.delivered[g] > 0
                             => app.delivered[g] > 0
  <2>1. CASE app' = app
    BY <1>2, <2>1 DEF Moves
  <2>2. CASE app' # app
    <3>1. PICK at : Verdict(f, NoRecord) = "good" /\ app' = Told(app, f, at)
      BY <1>1, <2>2
    <3>2. /\ file.kind[f] # "block"
          /\ Chained \/ file.owner[f] = 0
      BY <3>1, GoodIsOwned
    <3>3. Homes(app')
      BY <1>2, <1>3, <3>1, <3>2, ToldTells, HomesTold
    <3>4. QED BY <1>2, <1>3, <3>1, <3>2, <3>3, OneTold
  <2>3. QED BY <2>1, <2>2
<1>5. Outside'
  BY <1>1, <1>2, <1>4 DEF Outside
<1>6. Whole(book, app)'
  BY <1>1, <1>2, <1>4, WholeKept DEF DeliveryInv
<1>7. QED BY <1>1, <1>2, <1>4, <1>5, <1>6, Unlisted, SoleKept

LEMMA ObjectTells ==
  ASSUME DeliveryInv, ReadObject, CoreInv', Keeps(book, book')
  PROVE  DeliveryInv'
<1>1. PICK f \in book.deferred :
         /\ phase = "objects" /\ UNCHANGED <<file, phase, pending, scope>>
         /\ \/ app' = app
            \/ file.kind[f] = "object" /\ \E at \in {"no"} \cup Throwing : app' = Told(app, f, at)
  BY DEF ReadObject
<1>2. /\ CoreInv /\ scope = NoScope /\ scope.step = "none" /\ app \in Apps /\ InOrder(book)
      /\ Homes(app) /\ app.open = 0
  BY <1>1, OutsideBlocks, BetweenBlocks
  DEF DeliveryInv, CoreInv, InBooks, HomeInv, Outside
<1>3. f \in Frames
  BY <1>2, BookFields DEF InOrder
<1>4. Homes(app') /\ app'.open = app.open /\ Moves(app, app') /\ app'.reached = app.reached
      /\ \A g \in Frames : file.kind[g] = "block" /\ app'.delivered[g] > 0
                             => app.delivered[g] > 0
  <2>1. CASE app' = app
    BY <1>2, <2>1 DEF Moves
  <2>2. CASE app' # app
    <3>1. PICK at : file.kind[f] = "object" /\ app' = Told(app, f, at)
      BY <1>1, <2>2
    <3>2. Homes(app')
      BY <1>2, <1>3, <3>1, ToldTells, HomesTold
    <3>3. QED BY <1>2, <1>3, <3>1, <3>2, OneTold
  <2>3. QED BY <2>1, <2>2
<1>5. Outside'
  BY <1>1, <1>2, <1>4 DEF Outside
<1>6. Whole(book, app)'
  BY <1>1, <1>2, <1>4, WholeKept DEF DeliveryInv
<1>7. QED BY <1>1, <1>2, <1>4, <1>5, <1>6, Unlisted, SoleKept

------------------------------------------------------------------------------
(* The chained layouts. *)

LEMMA ChainedTells ==
  ASSUME DeliveryInv, CoreInv', Keeps(book, book'), file' = file, Chained,
         scope'.step \notin {"journal", "replay"}, pending' \subseteq pending,
         Homes(app'), Outside', Moves(app, app'), app'.reached = app.reached
  PROVE  DeliveryInv'
<1>1. Whole(book, app)'
  BY DEF Whole, Chained
<1>2. QED BY <1>1, Unlisted, SoleKept

LEMMA ChainedFails ==
  ASSUME DeliveryInv, CoreInv', Keeps(book, book'), UNCHANGED <<file, phase>>, Chained,
         phase = "blocks", NEW b, NEW a, ScopeFails(b, a),
         Homes(a), Moves(app, a), a.reached = app.reached
  PROVE  DeliveryInv'
<1>1. scope'.step = "none" /\ sectionOk' = FALSE /\ app' = a /\ pending' \subseteq pending
  BY DEF ScopeFails, ScopeEnds, NoScope
<1>2. Outside'
  BY <1>1 DEF Outside
<1>3. QED BY <1>1, <1>2, ChainedTells

(* A call for a delimiter, which may also enter or leave the block, or throw. *)
LEMMA DelimiterTold ==
  ASSUME NEW a \in Apps, NEW f \in Frames, file.kind[f] # "entity", Homes(a), NEW x \in Nat,
         NEW c \in {Handed(a, f), [Handed(a, f) EXCEPT !.open = x],
                    Threw(Handed(a, f)), Threw([Handed(a, f) EXCEPT !.open = x])}
  PROVE  /\ Homes(c) /\ Moves(a, c) /\ c.reached = a.reached /\ Tells(a, c, f)
         /\ c = [Handed(a, f) EXCEPT !.open = x] => c.open = x
<1> DEFINE h == Handed(a, f)
           o == [h EXCEPT !.open = x]
<1>1. h \in Apps /\ Tells(a, h, f)
  BY HandedHears, HandedTells DEF Hears
<1> HIDE DEF h
<1>2. o \in Apps /\ Same(h, o) /\ o.open = x
  BY <1>1, OpenKeeps, OpenSame
<1> HIDE DEF o
<1>3. Same(h, Threw(h)) /\ Same(o, Threw(o))
  BY <1>1, <1>2, ThrewSame
<1>4. Tells(a, c, f)
  <2>1. c \in {h, o, Threw(h), Threw(o)}
    BY DEF h, o
  <2>2. Tells(a, o, f) /\ Tells(a, Threw(h), f)
    BY <1>1, <1>2, <1>3, TellsThenSame
  <2>3. Tells(a, Threw(o), f)
    BY <1>3, <2>2, TellsThenSame
  <2>4. QED BY <1>1, <2>1, <2>2, <2>3
<1>5. Homes(c) /\ Moves(a, c) /\ c.reached = a.reached
  BY <1>4, HomesTold, TellsMoves DEF Tells
<1>6. QED BY <1>2, <1>4, <1>5 DEF h, o

LEMMA OpenTells ==
  ASSUME DeliveryInv, OpenBlock, CoreInv', Keeps(book, book')
  PROVE  DeliveryInv'
<1>1. /\ phase = "blocks" /\ scope = NoScope /\ Chained /\ scope.step = "none"
      /\ UNCHANGED <<file, phase, error, status>>
  BY DEF OpenBlock, ReadingBlocks, NoScope
<1>2. PICK r \in pending :
        /\ Sound(r)
        /\ \/ /\ scope' = [record |-> r, step |-> IF r.space THEN "close" ELSE "walk",
                           link |-> r.first, visited |-> {}, walked |-> TRUE]
              /\ app' = [Handed(app, r.block) EXCEPT !.open = r.handle]
              /\ UNCHANGED <<book, pending, sectionOk>>
           \/ /\ app' = Threw(Handed(app, r.block))
              /\ pending' = pending \ {r}
              /\ sectionOk' = FALSE
              /\ UNCHANGED scope
  BY DEF OpenBlock
<1>3. /\ CoreInv /\ app \in Apps /\ Homes(app) /\ InOrder(book) /\ r.handle \in Nat
  <2>1. r \in file.records /\ file \in Files
    BY DEF DeliveryInv, CoreInv, PendingOK
  <2>2. QED
    BY <1>1, <2>1, FilesAssumption DEF DeliveryInv, CoreInv, HomeInv, InBooks
<1>4. r.block \in Frames /\ file.kind[r.block] # "entity"
  BY <1>2, <1>3, BookFields DEF Sound, Delimits, InOrder
<1>5. CASE /\ scope' = [record |-> r, step |-> IF r.space THEN "close" ELSE "walk",
                        link |-> r.first, visited |-> {}, walked |-> TRUE]
           /\ app' = [Handed(app, r.block) EXCEPT !.open = r.handle]
           /\ UNCHANGED <<book, pending, sectionOk>>
  <2>1. Homes(app') /\ Moves(app, app') /\ app'.reached = app.reached /\ app'.open = r.handle
    BY <1>3, <1>4, <1>5, DelimiterTold
  <2>2. scope'.step \in {"close", "walk"} /\ scope'.record = r
    BY <1>5
  <2>3. Outside'
    BY <1>1, <2>1, <2>2 DEF Outside
  <2>4. QED BY <1>1, <1>5, <2>1, <2>2, <2>3, ChainedTells
<1>6. CASE /\ app' = Threw(Handed(app, r.block))
           /\ pending' = pending \ {r}
           /\ sectionOk' = FALSE
           /\ UNCHANGED scope
  <2>1. Homes(app') /\ Moves(app, app') /\ app'.reached = app.reached
    BY <1>3, <1>4, <1>6, DelimiterTold
  <2>2. Outside'
    BY <1>1, <1>6 DEF Outside
  <2>3. QED BY <1>1, <1>6, <2>1, <2>2, ChainedTells
<1>7. QED BY <1>2, <1>5, <1>6

LEMMA WalkTells ==
  ASSUME DeliveryInv, WalkEntity, CoreInv', Keeps(book, book')
  PROVE  DeliveryInv'
<1> DEFINE f == scope.link
           r == scope.record
<1>1. /\ scope.step = "walk" /\ f \in book.objects
      /\ UNCHANGED <<file, phase, pending, sectionOk>>
      /\ \/ app' = app
         \/ Verdict(f, r) = "good" /\ \E at \in {"no"} \cup Throwing : app' = Told(app, f, at)
  BY DEF WalkEntity
<1>2. /\ phase = "blocks" /\ Chained /\ Walking(scope, app) /\ app \in Apps
      /\ InOrder(book) /\ Homes(app)
  BY <1>1, ChainedFacts DEF DeliveryInv, HomeInv
<1>3. scope'.step = "walk" /\ scope'.record = r
  <2>1. scope = [record |-> scope.record, step |-> scope.step, link |-> scope.link,
                 visited |-> scope.visited, walked |-> scope.walked]
    BY <1>2 DEF Walking
  <2>2. PICK at : scope' = [scope EXCEPT !.visited = @ \cup {f},
                      !.walked = @ /\ Verdict(f, r) # "structural" /\ at # "value",
                      !.link = Follow(f, Verdict(f, r) = "good" /\ at # "value", book'.objects)]
    BY DEF WalkEntity
  <2> DEFINE v == scope.visited \cup {f}
             w == scope.walked /\ Verdict(f, r) # "structural" /\ at # "value"
             l == Follow(f, Verdict(f, r) = "good" /\ at # "value", book'.objects)
  <2>3. scope' = [scope EXCEPT !.visited = v, !.walked = w, !.link = l]
    BY <2>2
  <2> HIDE DEF v, w, l, f
  <2>4. QED BY <1>1, <2>1, <2>3
<1>4. f \in Frames
  BY <1>1, <1>2, BookFields DEF InOrder
<1>5. app.open = OwnerOf(r) /\ r # NoRecord
  <2>1. r \in file.records /\ r.handle # 0
    BY <1>2, FilesAssumption DEF DeliveryInv, CoreInv, Walking
  <2>2. app.open = IF r.space THEN 0 ELSE r.handle
    BY <1>1, <1>2 DEF DeliveryInv, HomeInv, Outside, Walking, Closed
  <2>3. QED BY <2>1, <2>2 DEF OwnerOf, NoRecord
<1> HIDE DEF f
<1>6. Homes(app') /\ app'.open = app.open /\ Moves(app, app') /\ app'.reached = app.reached
  <2>1. CASE app' = app
    BY <1>2, <2>1 DEF Moves
  <2>2. CASE app' # app
    <3>1. PICK at : Verdict(f, r) = "good" /\ app' = Told(app, f, at)
      BY <1>1, <2>2
    <3>2. file.kind[f] # "block" /\ file.owner[f] = app.open
      BY <1>5, <3>1, GoodIsOwned
    <3>3. Homes(app')
      BY <1>2, <1>4, <3>1, <3>2, ToldTells, HomesTold
    <3>4. QED BY <1>2, <1>4, <3>1, <3>2, <3>3, OneTold
  <2>3. QED BY <2>1, <2>2
<1>7. Outside'
  BY <1>1, <1>2, <1>3, <1>6 DEF DeliveryInv, HomeInv, Outside
<1>8. QED BY <1>1, <1>2, <1>3, <1>6, <1>7, ChainedTells

LEMMA EndChainTells ==
  ASSUME DeliveryInv, EndChain, CoreInv', Keeps(book, book')
  PROVE  DeliveryInv'
<1>1. /\ scope.step = "walk" /\ UNCHANGED <<file, phase, pending, sectionOk, app>>
      /\ \E walked : scope' = [scope EXCEPT !.walked = walked,
           !.step = IF scope.record.space THEN "commit" ELSE "close"]
  BY DEF EndChain
<1>2. /\ phase = "blocks" /\ Chained /\ Walking(scope, app) /\ Homes(app)
  BY <1>1, ChainedFacts DEF DeliveryInv, HomeInv
<1>3. scope'.step \in {"commit", "close"}
  <2>1. PICK walked : scope' = [scope EXCEPT !.walked = walked,
           !.step = IF scope.record.space THEN "commit" ELSE "close"]
    BY <1>1
  <2>2. QED BY <1>2, <2>1, MovesOn
<1>4. Homes(app') /\ Moves(app, app') /\ app'.reached = app.reached
  BY <1>1, <1>2 DEF Moves
<1>5. Outside'
  BY <1>1, <1>2, <1>3 DEF Outside
<1>6. QED BY <1>1, <1>2, <1>3, <1>4, <1>5, ChainedTells

LEMMA CloseTells ==
  ASSUME DeliveryInv, CloseBlock, CoreInv', Keeps(book, book')
  PROVE  DeliveryInv'
<1> DEFINE r == scope.record
           a == [Handed(app, r.endBlock) EXCEPT !.open = 0]
<1>1. /\ scope.step = "close" /\ UNCHANGED <<file, phase>>
      /\ \/ /\ app' = a
            /\ scope' = [scope EXCEPT !.step = IF r.space THEN "walk" ELSE "commit"]
            /\ UNCHANGED <<book, pending, sectionOk>>
         \/ ScopeFails(book, Threw(a))
  BY DEF CloseBlock
<1>2. /\ phase = "blocks" /\ Chained /\ Walking(scope, app) /\ app \in Apps /\ Homes(app)
      /\ r.endBlock \in Frames /\ file.kind[r.endBlock] # "entity"
  BY <1>1, ChainedFacts DEF DeliveryInv, HomeInv, Walking, Delimiters
<1>3. /\ Homes(a) /\ Moves(app, a) /\ a.reached = app.reached /\ a.open = 0
      /\ Homes(Threw(a)) /\ Moves(app, Threw(a)) /\ Threw(a).reached = app.reached
  BY <1>2, DelimiterTold
<1> HIDE DEF a
<1>4. CASE ScopeFails(book, Threw(a))
  BY <1>1, <1>2, <1>3, <1>4, ChainedFails
<1>5. CASE /\ app' = a
           /\ scope' = [scope EXCEPT !.step = IF r.space THEN "walk" ELSE "commit"]
           /\ UNCHANGED <<book, pending, sectionOk>>
  <2>1. scope'.step = (IF r.space THEN "walk" ELSE "commit") /\ scope'.record = r
    <3>1. scope = [record |-> scope.record, step |-> scope.step, link |-> scope.link,
                   visited |-> scope.visited, walked |-> scope.walked]
      BY <1>2 DEF Walking
    <3>2. QED BY <1>5, <3>1
  <2>2. Outside'
    BY <1>1, <1>2, <2>1 DEF Outside
  <2>3. QED BY <1>1, <1>2, <1>3, <1>5, <2>1, <2>2, ChainedTells
<1>6. QED BY <1>1, <1>4, <1>5

LEMMA CommitTells ==
  ASSUME DeliveryInv, CommitBlock, CoreInv', Keeps(book, book')
  PROVE  DeliveryInv'
<1>1. /\ scope.step = "commit" /\ UNCHANGED <<file, phase>>
      /\ \/ ScopeEnds /\ UNCHANGED <<app, sectionOk>>
         \/ \E b : ScopeFails(b, app) \/ ScopeFails(b, Threw(app))
  BY DEF CommitBlock
<1>2. /\ phase = "blocks" /\ Chained /\ app \in Apps /\ Homes(app) /\ app.open = 0
  BY <1>1, ChainedFacts DEF DeliveryInv, HomeInv, Walking, Closed
<1>3. CASE ScopeEnds /\ UNCHANGED <<app, sectionOk>>
  <2>1. scope'.step = "none" /\ pending' \subseteq pending
    BY <1>3 DEF ScopeEnds, NoScope
  <2>2. Outside' /\ Moves(app, app')
    BY <1>1, <1>2, <1>3, <2>1 DEF Outside, Moves
  <2>3. QED BY <1>1, <1>2, <1>3, <2>1, <2>2, ChainedTells
<1>4. CASE \E b : ScopeFails(b, app) \/ ScopeFails(b, Threw(app))
  <2>1. PICK b, a : ScopeFails(b, a) /\ Same(app, a)
    BY <1>2, <1>4, ThrewSame DEF Same
  <2>2. Homes(a) /\ Moves(app, a) /\ a.reached = app.reached
    BY <1>2, <2>1, HomesSame DEF Same, Moves
  <2>3. QED BY <1>1, <1>2, <2>1, <2>2, ChainedFails
<1>5. QED BY <1>1, <1>3, <1>4

------------------------------------------------------------------------------
(* The later layouts: the journal. *)

LEMMA Listed ==
  ASSUME DeliveryInv, CoreInv', UNCHANGED <<file, phase>>, phase = "blocks",
         scope'.step \in {"journal", "replay"}, pending' \subseteq pending, Homes(app'),
         JournalOK(scope', book'), scope'.step = "replay" => Entered(scope', app'),
         Complete(book', app'), Whole(book, app)'
  PROVE  DeliveryInv'
<1>1. /\ Homes(app)' /\ JournalOK(scope, book)' /\ Complete(book, app)'
  BY DEF Homes, Complete, JournalOK, InFrames, Ordered, Accounted, Upto, Sole, Chained
<1>2. scope'.step = "replay" => Entered(scope, app)'
  BY DEF Entered, EndsLater
<1>3. \A r \in pending' : Sole(r)'
  BY SoleKept DEF Sole
<1>4. Outside'
  BY DEF Outside
<1>5. QED BY <1>1, <1>2, <1>3, <1>4 DEF DeliveryInv, HomeInv

(* A block of the later layouts is given up. *)
LEMMA ListedFails ==
  ASSUME DeliveryInv, CoreInv', Keeps(book, book'), UNCHANGED <<file, phase>>,
         phase = "blocks", NEW b, NEW a, ScopeFails(b, a),
         Homes(a), Moves(app, a), a.reached = app.reached, Whole(book, app)'
  PROVE  DeliveryInv'
<1>1. scope'.step = "none" /\ sectionOk' = FALSE /\ app' = a /\ pending' \subseteq pending
  BY DEF ScopeFails, ScopeEnds, NoScope
<1>2. Outside'
  BY <1>1 DEF Outside
<1>3. QED BY <1>1, <1>2, Unlisted, SoleKept

LEMMA OrderedAppended ==
  ASSUME NEW S, NEW q \in Seq(S), NEW c \in S, NEW r, Ordered(q, r), c.what # "addBlock",
         c.what = "endBlock" => c.frame = r.endBlock /\ ~r.space,
         c.what = "value" =>
           /\ file.owner[c.frame] = OwnerOf(r) /\ file.kind[c.frame] # "block"
           /\ Len(q) >= 1
           /\ ~r.space => \A i \in 1..Len(q) : q[i].what # "endBlock"
  PROVE  Ordered(Append(q, c), r)
<1> DEFINE p == Append(q, c)
<1>1. /\ Len(q) \in Nat /\ Len(p) = Len(q) + 1 /\ p[Len(q) + 1] = c
      /\ \A i \in 1..Len(q) : p[i] = q[i]
  OBVIOUS
<1> HIDE DEF p
<1>2. \A i \in 1..Len(p) : \/ i \in 1..Len(q) /\ p[i] = q[i]
                           \/ i = Len(q) + 1 /\ p[i] = c
  BY <1>1
<1>3. ASSUME NEW i \in 1..Len(p)
      PROVE  /\ p[i].what = "addBlock" => p[i].frame = r.block
             /\ p[i].what = "endBlock" => p[i].frame = r.endBlock
             /\ p[i].what = "value" => /\ file.owner[p[i].frame] = OwnerOf(r)
                                       /\ file.kind[p[i].frame] # "block"
                                       /\ i # 1
  <2>1. CASE i \in 1..Len(q) /\ p[i] = q[i]
    BY <2>1 DEF Ordered
  <2>2. CASE i = Len(q) + 1 /\ p[i] = c
    BY <1>1, <2>2
  <2>3. QED BY <1>2, <2>1, <2>2
<1>4. ASSUME NEW i \in 1..Len(p), NEW j \in 1..Len(p), p[i].what = "value",
             p[j].what = "endBlock"
      PROVE  IF r.space THEN j < i ELSE i < j
  <2>1. CASE i \in 1..Len(q) /\ p[i] = q[i] /\ j \in 1..Len(q) /\ p[j] = q[j]
    BY <1>4, <2>1 DEF Ordered
  <2>2. CASE i \in 1..Len(q) /\ j = Len(q) + 1 /\ p[j] = c
    BY <1>1, <1>4, <2>2
  <2>3. CASE i = Len(q) + 1 /\ p[i] = c /\ j \in 1..Len(q) /\ p[j] = q[j]
    BY <1>1, <1>4, <2>3
  <2>4. QED BY <1>2, <1>4, <2>1, <2>2, <2>3
<1>5. QED BY <1>3, <1>4 DEF Ordered, p

LEMMA OpenJournalTells ==
  ASSUME DeliveryInv, OpenJournal, CoreInv', Keeps(book, book')
  PROVE  DeliveryInv'
<1>1. /\ phase = "blocks" /\ scope = NoScope /\ ~Chained /\ scope.step = "none"
      /\ UNCHANGED <<file, phase, pending, app>>
  BY DEF OpenJournal, ReadingBlocks, NoScope
<1>2. PICK r \in pending :
        /\ Sound(r)
        /\ scope' = [record |-> r, step |-> "journal", at |-> 1,
                     calls |-> <<Call("addBlock", r.block)>>
                               \o (IF r.space THEN <<Call("endBlock", r.endBlock)>> ELSE <<>>)]
  BY DEF OpenJournal
<1> DEFINE q == <<Call("addBlock", r.block)>>
                \o (IF r.space THEN <<Call("endBlock", r.endBlock)>> ELSE <<>>)
<1>3. /\ InOrder(book) /\ r \in file.records /\ Distinct(r) /\ Sole(r)
  BY <1>1 DEF DeliveryInv, HomeInv, CoreInv, InBooks, PendingOK
<1>4. /\ r.entMap \in Seq(Nat) /\ Len(r.entMap) \in Nat /\ DOMAIN r.entMap = 1..Len(r.entMap)
  BY <1>3, ListOf DEF DeliveryInv
<1>5. /\ r.block \in Frames /\ r.endBlock \in Frames /\ r.block # r.endBlock
      /\ file.kind[r.block] = "block" /\ file.kind[r.endBlock] = "endblk"
      /\ \A i \in 1..Len(r.entMap) : r.entMap[i] \in Frames /\ file.kind[r.entMap[i]] = "entity"
  BY <1>1, <1>2, <1>3, <1>4, ClaimsApart, BookFields DEF Sound, Delimits, InOrder
<1>6. /\ CallsOK(q) /\ Len(q) >= 1 /\ q[1] = Call("addBlock", r.block)
      /\ r.space => Len(q) >= 2 /\ q[2] = Call("endBlock", r.endBlock)
      /\ \A i \in 1..Len(q) : /\ q[i].what \in Tell /\ q[i].frame \in Delimiters(r)
                              /\ ~r.space => q[i].frame # r.endBlock
  BY <1>5, FirstCalls
<1>7. /\ scope'.record = r /\ scope'.step = "journal" /\ scope'.at = 1 /\ scope'.calls = q
  BY <1>2
<1> HIDE DEF q
<1>8. Ordered(q, r)
  <2>1. q[1].what = "addBlock" /\ q[1].frame = r.block /\ 1 \in 1..Len(q)
    BY <1>5, <1>6, CallFits DEF Tell, CallsOK
  <2>2. r.space => q[2].what = "endBlock" /\ q[2].frame = r.endBlock /\ 2 \in 1..Len(q)
    BY <1>5, <1>6, CallFits DEF Tell, CallsOK
  <2>3. ASSUME NEW i \in 1..Len(q)
        PROVE  \/ q[i].what = "addBlock" /\ q[i].frame = r.block
               \/ q[i].what = "endBlock" /\ q[i].frame = r.endBlock
    <3>1. \A j \in 1..Len(q) : q[i].frame = q[j].frame => i = j
      BY <1>6 DEF CallsOK
    <3>2. CASE q[i].frame = r.block
      BY <2>1, <3>1, <3>2
    <3>3. CASE q[i].frame = r.endBlock
      BY <1>6, <2>2, <3>1, <3>3
    <3>4. QED BY <1>6, <3>2, <3>3 DEF Delimiters
  <2>4. QED BY <1>5, <2>3 DEF Ordered
<1>9. JournalOK(scope', book')
  <2>1. InFrames(r)
    BY <1>4, <1>5 DEF InFrames
  <2>2. Upto(scope') = 1 /\ Accounted(r, 1, book')
    BY <1>7 DEF Upto, Accounted
  <2>3. QED BY <1>3, <1>5, <1>7, <1>8, <2>1, <2>2 DEF JournalOK
<1>10. Homes(app') /\ Complete(book', app') /\ Whole(book, app)'
  <2>1. Homes(app') /\ Moves(app, app')
    BY <1>1 DEF DeliveryInv, HomeInv, Moves
  <2>2. Complete(book', app')
    BY <1>1, <2>1, CompleteKept DEF DeliveryInv, CoreInv
  <2>3. Whole(book, app)'
    BY <1>1, WholeKept DEF DeliveryInv
  <2>4. QED BY <2>1, <2>2, <2>3
<1>11. QED BY <1>1, <1>7, <1>9, <1>10, Listed

(* The calls stay in order when an entity is journalled. *)
LEMMA EntityOrdered ==
  ASSUME NEW q, NEW r, JournalCalls(q, r), Ordered(q, r), NEW f \in Frames,
         file.owner[f] = OwnerOf(r), file.kind[f] # "block"
  PROVE  Ordered(EntityTold(q, f), r)
<1> DEFINE S == [what : Tell \cup Answer, frame : Frames]
           v == Call("value", f)
           c == Call("receipt", f)
<1>1. v \in S /\ v.what = "value" /\ v.frame = f /\ c \in S /\ c.what = "receipt"
  BY CallFits DEF Tell, Answer
<1>2. q \in Seq(S) /\ Len(q) >= 1
  BY DEF JournalCalls, CallsOK
<1> HIDE DEF v, c, S
<1>3. Append(q, v) \in Seq(S)
  BY <1>1, <1>2
<1>4. q \o <<v, c>> = Append(Append(q, v), c)
  BY ONLY <1>1, <1>2, AppendedPair
<1>5. ~r.space => \A i \in 1..Len(q) : q[i].what # "endBlock"
  BY DEF JournalCalls, Ordered
<1>6. Ordered(Append(q, v), r)
  BY <1>1, <1>2, <1>5, OrderedAppended
<1>7. Ordered(Append(Append(q, v), c), r)
  BY <1>1, <1>3, <1>6, OrderedAppended
<1>8. QED BY <1>4, <1>7 DEF EntityTold, v, c

LEMMA JournalEntityTells ==
  ASSUME DeliveryInv, JournalEntity, CoreInv', Keeps(book, book')
  PROVE  DeliveryInv'
<1> DEFINE r == scope.record
           n == scope.at
           f == r.entMap[n]
           q == scope.calls
           good == Verdict(f, r) = "good"
           p == IF good THEN EntityTold(q, f) ELSE q
<1>1. /\ scope.step = "journal" /\ n <= Len(r.entMap)
      /\ scope' = [scope EXCEPT !.at = @ + 1, !.calls = p]
      /\ book' = IF good THEN Marked(Detached(book, f), f, "staged")
                         ELSE Lost(Detached(book, f), f)
      /\ UNCHANGED <<file, phase, pending, app>>
  BY DEF JournalEntity, EntityTold
<1>2. /\ phase = "blocks" /\ ~Chained /\ InOrder(book) /\ Journalling(scope, book, app)
      /\ JournalOK(scope, book)
  BY <1>1, JournalFacts DEF DeliveryInv, HomeInv
<1>3. /\ scope = [record |-> r, step |-> "journal", at |-> n, calls |-> q]
      /\ n \in Nat \ {0} /\ r \in file.records /\ JournalCalls(q, r)
      /\ \A i \in n..Len(r.entMap) : r.entMap[i] \in book.objects
  BY <1>2 DEF Journalling, JournalCalls
<1>4. /\ Ordered(q, r) /\ InFrames(r) /\ Accounted(r, n, book)
      /\ \A i \in 1..Len(r.entMap) : file.kind[r.entMap[i]] = "entity"
  BY <1>1, <1>2 DEF JournalOK, Upto
<1>5. Len(r.entMap) \in Nat /\ DOMAIN r.entMap = 1..Len(r.entMap)
  BY <1>3, ListOf DEF DeliveryInv
<1>6. /\ f \in book.objects /\ f \in Frames /\ f \notin book.leased /\ n \in 1..Len(r.entMap)
  <2>1. f \in book.objects /\ n \in 1..Len(r.entMap)
    BY <1>1, <1>3, <1>5
  <2>2. QED BY <1>2, <2>1, BookFields DEF InOrder
<1>7. good => file.owner[f] = OwnerOf(r) /\ file.kind[f] # "block"
  <2>1. r # NoRecord
    BY <1>3, FilesAssumption DEF DeliveryInv, CoreInv, NoRecord
  <2>2. QED BY <2>1, GoodIsOwned
<1> HIDE DEF f
<1>8. /\ Spares(book, book', f) /\ book.leased \subseteq book'.leased
      /\ good => f \in book'.leased /\ book'.disposition[f] = "staged"
      /\ ~good => book'.disposition[f] = "failed"
  <2>1. CASE good
    <3>1. book' = Marked(Detached(book, f), f, "staged")
      BY <1>1, <2>1
    <3>2. QED BY <1>2, <1>6, <2>1, <3>1, OneStaged
  <2>2. CASE ~good
    <3>1. book' = Lost(Detached(book, f), f)
      BY <1>1, <2>2
    <3>2. Settled(book, book', f) /\ book'.disposition[f] = "failed"
      BY <1>2, <1>6, <3>1, LostIsSettled
    <3>3. QED BY <1>6, <2>2, <3>2 DEF Settled
  <2>3. QED BY <2>1, <2>2
<1>9. Ordered(p, r)
  BY <1>3, <1>4, <1>6, <1>7, EntityOrdered
<1>10. /\ scope'.record = r /\ scope'.step = "journal" /\ scope'.at = n + 1
       /\ scope'.calls = p
  <2> DEFINE m == n + 1
  <2>1. scope' = [scope EXCEPT !.at = m, !.calls = p]
    BY <1>1
  <2>2. scope = [record |-> r, step |-> "journal", at |-> n, calls |-> q]
    BY <1>3
  <2> HIDE DEF r, q, p, good, n, m
  <2>3. scope' = [record |-> r, step |-> "journal", at |-> m, calls |-> p]
    BY ONLY <2>1, <2>2
  <2>4. QED BY ONLY <2>3 DEF m, n
<1> HIDE DEF p, good
<1>11. Accounted(r, n + 1, book')
  <2>1. ASSUME NEW i \in 1..Len(r.entMap), i < n + 1
        PROVE  /\ book'.disposition[r.entMap[i]] \in Terminal \cup {"staged"}
               /\ book'.disposition[r.entMap[i]] = "staged" => r.entMap[i] \in book'.leased
               /\ book'.disposition[r.entMap[i]] \in {"staged", "published"}
                    => file.owner[r.entMap[i]] = OwnerOf(r)
    <3>1. CASE r.entMap[i] = f
      BY <1>7, <1>8, <3>1 DEF Terminal
    <3>2. CASE r.entMap[i] # f
      <4>1. i < n
        BY <1>3, <1>5, <1>6, <2>1, <3>2 DEF f
      <4>2. r.entMap[i] \in Frames
        BY <1>4, <1>5 DEF InFrames
      <4>3. book'.disposition[r.entMap[i]] = book.disposition[r.entMap[i]]
        BY <1>8, <3>2, <4>2 DEF Spares
      <4>4. QED BY <1>4, <1>8, <4>1, <4>3 DEF Accounted
    <3>3. QED BY <3>1, <3>2
  <2>2. QED BY <2>1 DEF Accounted
<1>12. JournalOK(scope', book')
  <2>1. Upto(scope') = n + 1
    BY <1>10 DEF Upto
  <2>2. QED BY <1>2, <1>4, <1>9, <1>10, <1>11, <2>1 DEF JournalOK
<1>13. Homes(app') /\ Complete(book', app') /\ Whole(book, app)'
  <2>1. Homes(app') /\ Moves(app, app')
    BY <1>1 DEF DeliveryInv, HomeInv, Moves
  <2>2. Complete(book', app')
    BY <1>1, <2>1, CompleteKept DEF DeliveryInv, CoreInv
  <2>3. Whole(book, app)'
    BY <1>1, WholeKept DEF DeliveryInv
  <2>4. QED BY <2>1, <2>2, <2>3
<1>14. QED BY <1>1, <1>2, <1>10, <1>12, <1>13, Listed

LEMMA FailJournalTells ==
  ASSUME DeliveryInv, FailJournal, CoreInv', Keeps(book, book')
  PROVE  DeliveryInv'
<1>1. /\ scope.step = "journal" /\ ScopeFails(book, app) /\ UNCHANGED <<file, phase>>
      /\ app' = app
  BY DEF FailJournal, ScopeFails
<1>2. phase = "blocks" /\ Homes(app) /\ Moves(app, app)
  BY <1>1, JournalFacts DEF DeliveryInv, HomeInv, Moves
<1>3. Whole(book, app)'
  BY <1>1, WholeKept DEF DeliveryInv
<1>4. QED BY <1>1, <1>2, <1>3, ListedFails

LEMMA SealJournalTells ==
  ASSUME DeliveryInv, SealJournal, CoreInv', Keeps(book, book')
  PROVE  DeliveryInv'
<1> DEFINE r == scope.record
           q == scope.calls
           m == Closing(q, r)
           S == [what : Tell \cup Answer, frame : Frames]
<1>1. PICK what \in Answer :
        /\ scope.step = "journal" /\ scope.at > Len(r.entMap)
        /\ scope' = [scope EXCEPT !.step = "replay", !.at = 1,
             !.calls = m \o <<Call(what, r.block), Call("receipt", r.endBlock)>>]
        /\ UNCHANGED <<file, phase, book, pending, app>>
  BY DEF SealJournal, Answer, Closing
<1>2. /\ phase = "blocks" /\ ~Chained /\ InOrder(book) /\ Journalling(scope, book, app)
      /\ JournalOK(scope, book)
  BY <1>1, JournalFacts DEF DeliveryInv, HomeInv
<1>3. /\ scope = [record |-> r, step |-> "journal", at |-> scope.at, calls |-> q]
      /\ scope.at \in Nat /\ r \in file.records /\ JournalCalls(q, r)
      /\ Delimiters(r) \subseteq book.leased
  BY <1>2 DEF Journalling, JournalCalls
<1>4. /\ Ordered(q, r) /\ Accounted(r, scope.at, book) /\ Len(r.entMap) \in Nat
  BY <1>1, <1>2, <1>3, ListOf DEF JournalOK, Upto, DeliveryInv
<1>5. r.block \in Frames /\ r.endBlock \in Frames
  BY <1>2, <1>3, BookFields DEF InOrder, Delimiters
<1>6. q \in Seq(S)
  BY <1>3 DEF JournalCalls, CallsOK
<1>7. Ordered(m, r) /\ m \in Seq(S)
  <2> DEFINE d == Call("endBlock", r.endBlock)
  <2>1. d \in S /\ d.what = "endBlock" /\ d.frame = r.endBlock
    BY <1>5, CallFits DEF Tell
  <2>2. m = q \o (IF r.space THEN <<>> ELSE <<d>>)
    BY DEF Closing
  <2> HIDE DEF d, S, m
  <2>3. m = IF r.space THEN q ELSE Append(q, d)
    BY <1>6, <2>1, <2>2, AppendedPair
  <2>4. ~r.space => Ordered(Append(q, d), r)
    BY <1>4, <1>6, <2>1, OrderedAppended
  <2>5. QED BY <1>4, <1>6, <2>1, <2>3, <2>4
<1> HIDE DEF m
<1> DEFINE p == m \o <<Call(what, r.block), Call("receipt", r.endBlock)>>
<1>8. Ordered(p, r)
  <2> DEFINE c == Call(what, r.block)
             d == Call("receipt", r.endBlock)
  <2>1. c \in S /\ c.what \in Answer /\ d \in S /\ d.what \in Answer
    BY <1>5, CallFits DEF Answer
  <2>2. /\ c.what \notin {"addBlock", "endBlock", "value"}
        /\ d.what \notin {"addBlock", "endBlock", "value"}
    BY <2>1 DEF Answer
  <2> HIDE DEF c, d, S
  <2>3. m \o <<c, d>> = Append(Append(m, c), d) /\ Append(m, c) \in Seq(S)
    BY <1>7, <2>1, AppendedPair
  <2>4. Ordered(Append(m, c), r)
    BY <1>7, <2>1, <2>2, OrderedAppended
  <2>5. Ordered(Append(Append(m, c), d), r)
    BY <2>1, <2>2, <2>3, <2>4, OrderedAppended
  <2>6. QED BY <2>3, <2>5 DEF c, d
<1>9. scope'.record = r /\ scope'.step = "replay" /\ scope'.at = 1 /\ scope'.calls = p
  <2> DEFINE n == scope.at
  <2>1. scope' = [scope EXCEPT !.step = "replay", !.at = 1, !.calls = p]
    BY <1>1
  <2>2. scope = [record |-> r, step |-> "journal", at |-> n, calls |-> q]
    BY <1>3
  <2> HIDE DEF r, q, p, n
  <2>3. scope' = [record |-> r, step |-> "replay", at |-> 1, calls |-> p]
    BY ONLY <2>1, <2>2
  <2>4. QED BY ONLY <2>3
<1> HIDE DEF p
<1>10. JournalOK(scope', book')
  <2>1. Upto(scope') = Len(r.entMap) + 1
    BY <1>9 DEF Upto
  <2>2. Accounted(r, Len(r.entMap) + 1, book')
    BY <1>1, <1>3, <1>4 DEF Accounted
  <2>3. QED BY <1>2, <1>8, <1>9, <2>1, <2>2 DEF JournalOK
<1>11. Homes(app') /\ Complete(book', app') /\ Whole(book, app)' /\ Entered(scope', app')
  <2>1. Homes(app') /\ Moves(app, app')
    BY <1>1 DEF DeliveryInv, HomeInv, Moves
  <2>2. Complete(book', app')
    BY <1>1, <2>1, CompleteKept DEF DeliveryInv, CoreInv
  <2>3. Whole(book, app)'
    BY <1>1, WholeKept DEF DeliveryInv
  <2>4. Entered(scope', app')
    BY <1>9 DEF Entered
  <2>5. QED BY <2>1, <2>2, <2>3, <2>4
<1>12. QED BY <1>1, <1>2, <1>9, <1>10, <1>11, Listed

------------------------------------------------------------------------------
(* The later layouts: the replay. *)

(* The application hears of no block but r, and r's entities are settled    *)
(* unless r is still being replayed.                                        *)
LEMMA WholeTold ==
  ASSUME Whole(book, app), Keeps(book, book'), file' = file,
         NEW r, Sole(r), InFrames(r), scope.step = "replay" => scope.record = r,
         \A f \in Frames : file.kind[f] = "block" /\ app'.delivered[f] > 0
                              => app.delivered[f] > 0 \/ f = r.block,
         \/ scope'.step = "replay" /\ scope'.record = r
         \/ \A i \in DOMAIN r.entMap : book'.disposition[r.entMap[i]] \in Terminal
  PROVE  Whole(book, app)'
<1>1. ASSUME ~Chained, NEW x \in file.records, x.block \in Frames,
             app'.delivered[x.block] > 0, file.kind[x.block] = "block",
             NEW i \in DOMAIN x.entMap
      PROVE  /\ InFrames(x)
             /\ \/ book'.disposition[x.entMap[i]] \in Terminal
                \/ scope'.step = "replay" /\ scope'.record = x
  <2>1. CASE x = r
    BY <1>1, <2>1
  <2>2. CASE x # r
    <3>1. app.delivered[x.block] > 0
      BY <1>1, <2>2 DEF Sole
    <3>2. /\ InFrames(x)
          /\ book.disposition[x.entMap[i]] \in Terminal
      BY <1>1, <2>2, <3>1 DEF Whole
    <3>3. x.entMap[i] \in Frames
      BY <1>1, <3>2 DEF InFrames
    <3>4. QED BY <3>2, <3>3 DEF Keeps
  <2>3. QED BY <2>1, <2>2
<1>2. ASSUME ~Chained, NEW x \in file.records, x.block \in Frames,
             app'.delivered[x.block] > 0, file.kind[x.block] = "block"
      PROVE  InFrames(x)
  <2>1. CASE x = r
    BY <2>1
  <2>2. CASE x # r
    <3>1. app.delivered[x.block] > 0
      BY <1>2, <2>2 DEF Sole
    <3>2. QED BY <1>2, <3>1 DEF Whole
  <2>3. QED BY <2>1, <2>2
<1>3. QED BY <1>1, <1>2 DEF Whole, Chained, InFrames

(* What the invariant says of a block that is replayed. *)
LEMMA HomeFacts ==
  ASSUME DeliveryInv, scope.step = "replay"
  PROVE  LET r == scope.record
         IN /\ phase = "blocks" /\ ~Chained /\ app \in Apps /\ InOrder(book)
            /\ r \in file.records /\ Sole(r) /\ InFrames(r) /\ Ordered(scope.calls, r)
            /\ file.kind[r.block] = "block" /\ file.kind[r.endBlock] = "endblk"
            /\ Homes(app) /\ Entered(scope, app)
            /\ \A i \in DOMAIN r.entMap :
                 LET g == r.entMap[i]
                 IN /\ g \in Frames /\ file.kind[g] = "entity"
                    /\ book.disposition[g] \in Terminal \cup {"staged"}
                    /\ book.disposition[g] = "staged" => g \in book.leased
                    /\ book.disposition[g] \in {"staged", "published"}
                         => file.owner[g] = OwnerOf(r)
<1> DEFINE r == scope.record
<1>1. /\ phase = "blocks" /\ ~Chained /\ app \in Apps /\ InOrder(book) /\ r \in file.records
  BY ReplayFacts DEF DeliveryInv
<1>2. /\ JournalOK(scope, book) /\ Homes(app) /\ Entered(scope, app)
  BY DEF DeliveryInv, HomeInv
<1>3. Len(r.entMap) \in Nat /\ DOMAIN r.entMap = 1..Len(r.entMap)
  BY <1>1, ListOf DEF DeliveryInv
<1>4. Accounted(r, Len(r.entMap) + 1, book)
  BY <1>2 DEF JournalOK, Upto
<1>5. ASSUME NEW i \in DOMAIN r.entMap
      PROVE  LET g == r.entMap[i]
             IN /\ g \in Frames /\ file.kind[g] = "entity"
                /\ book.disposition[g] \in Terminal \cup {"staged"}
                /\ book.disposition[g] = "staged" => g \in book.leased
                /\ book.disposition[g] \in {"staged", "published"}
                     => file.owner[g] = OwnerOf(r)
  <2>1. i \in 1..Len(r.entMap) /\ i < Len(r.entMap) + 1
    BY <1>3
  <2>2. QED BY <1>2, <1>4, <2>1 DEF Accounted, JournalOK, InFrames
<1>6. QED BY <1>1, <1>2, <1>5 DEF JournalOK

(* A replay that fails leaves no listed entity open. *)
LEMMA AbortSettles ==
  ASSUME NEW b, InOrder(b), NEW r, InFrames(r),
         \A i \in DOMAIN r.entMap : \/ b.disposition[r.entMap[i]] \in Terminal
                                    \/ r.entMap[i] \in b.leased
  PROVE  \A i \in DOMAIN r.entMap : Aborted(b, r).disposition[r.entMap[i]] \in Terminal
<1>1. /\ Keeps(b, Aborted(b, r))
      /\ \A f \in b.leased : Aborted(b, r).disposition[f] \in Terminal
  BY AbortedInOrder
<1>2. QED BY <1>1 DEF Keeps, InFrames

LEMMA ReplayFailsTells ==
  ASSUME DeliveryInv, CoreInv', Keeps(book, book'), UNCHANGED <<file, phase>>,
         scope.step = "replay", scope.at <= Len(scope.calls),
         NEW f, f = scope.calls[scope.at].frame, NEW a,
         Homes(a), Moves(app, a), a.reached = app.reached,
         \A g \in Frames : file.kind[g] = "block" /\ a.delivered[g] > 0
                              => app.delivered[g] > 0 \/ g = scope.record.block,
         ScopeFails(Marked(book, f, "failed"), a)
  PROVE  DeliveryInv'
<1> DEFINE c == Marked(book, f, "failed")
           r == scope.record
<1>1. /\ phase = "blocks" /\ InOrder(book) /\ Sole(r) /\ InFrames(r)
      /\ \A i \in DOMAIN r.entMap :
            /\ r.entMap[i] \in Frames
            /\ book.disposition[r.entMap[i]] \in Terminal \cup {"staged"}
            /\ book.disposition[r.entMap[i]] = "staged" => r.entMap[i] \in book.leased
  BY HomeFacts
<1>2. /\ f \in Frames /\ f \notin book.objects \cup book.deferred
      /\ book.disposition[f] = "staged"
  BY NextCall DEF DeliveryInv
<1>3. /\ InOrder(c) /\ c.leased = book.leased /\ c.disposition[f] = "failed"
      /\ Spares(book, c, f)
  <2>1. /\ f \in Frames \ (book.objects \cup book.deferred)
        /\ book.disposition[f] \in Transient /\ "failed" # "staged"
        /\ "failed" \in {"staged", "published", "quarantined", "failed"}
    BY <1>2 DEF Transient
  <2>2. QED BY <1>1, <2>1, MarkedInOrder
<1> HIDE DEF c
<1>4. \A i \in DOMAIN r.entMap : \/ c.disposition[r.entMap[i]] \in Terminal
                                 \/ r.entMap[i] \in c.leased
  BY <1>1, <1>3 DEF Spares, Terminal
<1>5. \A i \in DOMAIN r.entMap : Aborted(c, r).disposition[r.entMap[i]] \in Terminal
  BY <1>1, <1>3, <1>4, AbortSettles
<1>6. book' = Aborted(c, r) /\ app' = a
  BY DEF ScopeFails, c
<1>7. Whole(book, app)'
  BY <1>1, <1>5, <1>6, WholeTold DEF DeliveryInv
<1>8. QED BY <1>1, <1>7, ListedFails

(* Where the next call stands among those of its block. *)
LEMMA CallPlace ==
  ASSUME DeliveryInv, scope.step = "replay", scope.at <= Len(scope.calls)
  PROVE  LET q == scope.calls
             n == scope.at
         IN /\ n \in 1..Len(q) /\ Len(q) \in Nat
            /\ q[n].what = "addBlock" => EndsLater(q, n + 1)
            /\ q[n].what = "endBlock" => ~EndsLater(q, n + 1)
            /\ q[n].what # "endBlock" => (EndsLater(q, n) <=> EndsLater(q, n + 1))
            /\ q[n].what \in Answer => n > 1
            /\ q[n].what = "value" => n > 1 /\ app.open = OwnerOf(scope.record)
<1> DEFINE q == scope.calls
           n == scope.at
           r == scope.record
<1>1. /\ n \in Nat \ {0} /\ CallsOK(q) /\ ClosesFirst(q) /\ n \in 1..Len(q) /\ Len(q) \in Nat
  BY ReplayFacts, NextCall DEF DeliveryInv
<1>2. Ordered(q, r) /\ Entered(scope, app)
  BY HomeFacts
<1> HIDE DEF q, n
<1>3. ASSUME q[n].what = "addBlock" PROVE EndsLater(q, n + 1)
  <2>1. n = 1
    BY <1>1, <1>3 DEF CallsOK
  <2>2. PICK i \in 2..Len(q) : q[i].what = "endBlock"
    BY <1>1 DEF ClosesFirst
  <2>3. QED BY <2>1, <2>2 DEF EndsLater
<1>4. ASSUME q[n].what = "endBlock", EndsLater(q, n + 1) PROVE FALSE
  <2>1. PICK i \in (n + 1)..Len(q) : q[i].what = "endBlock"
    BY <1>4 DEF EndsLater
  <2>2. i \in 1..Len(q) /\ i # n
    BY <1>1, <2>1
  <2>3. q[i].frame = q[n].frame /\ q[i].what \in Tell /\ q[n].what \in Tell
    BY <1>1, <1>2, <1>4, <2>1, <2>2 DEF Ordered, Tell
  <2>4. QED BY <1>1, <2>2, <2>3 DEF CallsOK
<1>5. ASSUME q[n].what # "endBlock" PROVE EndsLater(q, n) <=> EndsLater(q, n + 1)
  <2>1. \A i \in n..Len(q) : i = n \/ i \in (n + 1)..Len(q)
    BY <1>1
  <2>2. \A i \in (n + 1)..Len(q) : i \in n..Len(q)
    BY <1>1
  <2>3. QED BY <1>5, <2>1, <2>2 DEF EndsLater
<1>6. ASSUME q[n].what \in Answer PROVE n > 1
  <2>1. PICK j \in 1..(n - 1) : q[j].what \in Tell
    BY <1>1, <1>6 DEF CallsOK
  <2>2. QED BY <1>1, <2>1
<1>7. ASSUME q[n].what = "value" PROVE n > 1 /\ app.open = OwnerOf(r)
  <2>1. n # 1 /\ \A j \in 1..Len(q) : q[j].what = "endBlock" => IF r.space THEN j < n ELSE n < j
    BY <1>1, <1>2, <1>7 DEF Ordered
  <2>2. n > 1
    BY <1>1, <2>1
  <2>3. app.open = IF EndsLater(q, n) THEN r.handle ELSE 0
    BY <1>2, <2>2 DEF Entered, q, n
  <2>4. CASE r.space
    <3>1. ~EndsLater(q, n)
      <4>1. \A i \in n..Len(q) : i \in 1..Len(q) /\ ~(i < n)
        BY <1>1
      <4>2. QED BY <2>1, <2>4, <4>1 DEF EndsLater
    <3>2. QED BY <2>2, <2>3, <2>4, <3>1 DEF OwnerOf
  <2>5. CASE ~r.space
    <3>1. PICK i \in 2..Len(q) : q[i].what = "endBlock"
      BY <1>1 DEF ClosesFirst
    <3>2. i \in 1..Len(q)
      BY <1>1
    <3>3. n < i
      BY <2>1, <2>5, <3>1, <3>2
    <3>4. i \in n..Len(q)
      BY <1>1, <3>3
    <3>5. EndsLater(q, n)
      BY <3>1, <3>4 DEF EndsLater
    <3>6. QED BY <2>2, <2>3, <2>5, <3>5 DEF OwnerOf
  <2>6. QED BY <2>4, <2>5
<1>8. QED BY <1>1, <1>3, <1>4, <1>5, <1>6, <1>7 DEF q, n

LEMMA ReplayValueTells ==
  ASSUME DeliveryInv, ReplayValue, CoreInv', Keeps(book, book')
  PROVE  DeliveryInv'
<1> DEFINE q == scope.calls
           n == scope.at
           f == q[n].frame
           r == scope.record
           h == Handed(app, f)
           a == CASE q[n].what = "addBlock" -> [h EXCEPT !.open = r.handle]
                  [] q[n].what = "endBlock" -> [h EXCEPT !.open = 0]
                  [] OTHER -> h
           b == IF q[n].what = "addBlock" THEN h ELSE a
<1>1. /\ scope.step = "replay" /\ n <= Len(q) /\ q[n].what \in {"addBlock", "endBlock", "value"}
      /\ UNCHANGED <<file, phase>>
      /\ \/ /\ app' = a
            /\ scope' = [scope EXCEPT !.at = @ + 1]
            /\ UNCHANGED <<book, pending, sectionOk>>
         \/ ScopeFails(Marked(book, f, "failed"), Threw(b))
  BY DEF ReplayValue
<1>2. /\ phase = "blocks" /\ ~Chained /\ app \in Apps /\ InOrder(book) /\ r \in file.records
      /\ Sole(r) /\ InFrames(r) /\ Ordered(q, r) /\ Homes(app)
      /\ file.kind[r.block] = "block" /\ file.kind[r.endBlock] = "endblk"
  BY <1>1, HomeFacts
<1>3. n \in 1..Len(q) /\ Len(q) \in Nat /\ f \in Frames
  BY <1>1, NextCall DEF DeliveryInv
<1>4. /\ q[n].what = "addBlock" => EndsLater(q, n + 1)
      /\ q[n].what = "endBlock" => ~EndsLater(q, n + 1)
      /\ q[n].what = "value" => /\ EndsLater(q, n) <=> EndsLater(q, n + 1)
                                /\ n > 1 /\ app.open = OwnerOf(r)
  BY <1>1, CallPlace
<1>5. /\ q[n].what = "addBlock" => f = r.block
      /\ q[n].what = "endBlock" => f = r.endBlock
      /\ q[n].what = "value" => file.owner[f] = OwnerOf(r) /\ file.kind[f] # "block"
  BY <1>2, <1>3 DEF Ordered
<1>6. r.handle \in Nat
  BY <1>2, FilesAssumption DEF DeliveryInv, CoreInv
<1> HIDE DEF f
<1>7. h \in Apps /\ Tells(app, h, f) /\ h.open = app.open
  BY <1>2, <1>3, HandedHears, HandedTells DEF Hears
<1> HIDE DEF h
<1>8. /\ a \in Apps /\ Same(h, a)
      /\ q[n].what = "addBlock" => a.open = r.handle
      /\ q[n].what = "endBlock" => a.open = 0
      /\ q[n].what = "value" => a.open = app.open
  <2>1. CASE q[n].what = "addBlock"
    <3>1. a = [h EXCEPT !.open = r.handle]
      BY <2>1
    <3>2. QED BY <1>6, <1>7, <2>1, <3>1, OpenKeeps, OpenSame
  <2>2. CASE q[n].what = "endBlock"
    <3>1. a = [h EXCEPT !.open = 0]
      BY <2>2
    <3>2. QED BY <1>7, <2>2, <3>1, OpenKeeps, OpenSame
  <2>3. CASE q[n].what = "value"
    <3>1. a = h
      BY <2>3
    <3>2. QED BY <1>7, <2>3, <3>1 DEF Same
  <2>4. QED BY <1>1, <2>1, <2>2, <2>3
<1>9. b \in Apps /\ Same(h, b)
  BY <1>7, <1>8 DEF Same
<1> HIDE DEF a, b
<1>10. \/ file.kind[f] # "entity"
       \/ file.owner[f] = app.open
  BY <1>1, <1>2, <1>4, <1>5
<1>11. ASSUME NEW c, Same(h, c)
       PROVE  /\ Homes(c) /\ Moves(app, c) /\ c.reached = app.reached
              /\ \A g \in Frames : file.kind[g] = "block" /\ c.delivered[g] > 0
                                     => app.delivered[g] > 0 \/ g = r.block
  <2>1. Tells(app, c, f)
    BY <1>7, <1>11, TellsThenSame
  <2>2. Homes(c) /\ Moves(app, c) /\ c.reached = app.reached
    BY <1>2, <1>3, <1>10, <2>1, HomesTold, TellsMoves DEF Tells
  <2>3. ASSUME NEW g \in Frames, file.kind[g] = "block", c.delivered[g] > 0
        PROVE  app.delivered[g] > 0 \/ g = r.block
    <3>1. CASE g = f
      BY <1>1, <1>2, <1>5, <2>3, <3>1
    <3>2. CASE g # f
      BY <2>1, <2>3, <3>2 DEF Tells
    <3>3. QED BY <3>1, <3>2
  <2>4. QED BY <2>2, <2>3
<1>12. CASE /\ app' = a
            /\ scope' = [scope EXCEPT !.at = @ + 1]
            /\ UNCHANGED <<book, pending, sectionOk>>
  <2>1. /\ Homes(app') /\ Moves(app, app') /\ app'.reached = app.reached
        /\ \A g \in Frames : file.kind[g] = "block" /\ app'.delivered[g] > 0
                               => app.delivered[g] > 0 \/ g = r.block
    BY <1>8, <1>11, <1>12
  <2>2. /\ scope'.step = "replay" /\ scope'.record = r /\ scope'.at = n + 1 /\ scope'.calls = q
    <3>1. /\ scope' = [record |-> scope'.record, step |-> "replay", at |-> scope'.at,
                       calls |-> scope'.calls]
          /\ scope'.record = r /\ scope'.at = n + 1 /\ scope'.calls = q
      BY <1>1, <1>12, ReplayMoves DEF DeliveryInv
    <3>2. QED BY <3>1
  <2>3. JournalOK(scope', book')
    <3>1. JournalOK(scope, book) /\ book' = book
      BY <1>1, <1>12 DEF DeliveryInv, HomeInv
    <3>2. Upto(scope') = Upto(scope)
      BY <1>1, <2>2 DEF Upto
    <3>3. QED BY <2>2, <3>1, <3>2 DEF JournalOK
  <2>4. Entered(scope', app')
    <3>1. app'.open = IF EndsLater(q, n + 1) THEN r.handle ELSE 0
      <4>1. CASE q[n].what \in {"addBlock", "endBlock"}
        BY <1>4, <1>8, <1>12, <4>1
      <4>2. CASE q[n].what = "value"
        <5>1. app.open = IF EndsLater(q, n) THEN r.handle ELSE 0
          BY <1>1, <1>4, <4>2, HomeFacts DEF Entered
        <5>2. QED BY <1>4, <1>8, <1>12, <4>2, <5>1
      <4>3. QED BY <1>1, <4>1, <4>2
    <3>2. QED BY <2>2, <3>1 DEF Entered
  <2>5. Complete(book', app')
    BY <2>1, CompleteKept DEF DeliveryInv, CoreInv
  <2>6. Whole(book, app)'
    BY <1>1, <1>2, <2>1, <2>2, WholeTold DEF DeliveryInv
  <2>7. QED BY <1>1, <1>2, <1>12, <2>1, <2>2, <2>3, <2>4, <2>5, <2>6, Listed
<1>13. CASE ScopeFails(Marked(book, f, "failed"), Threw(b))
  <2>1. Same(h, Threw(b))
    BY <1>9, ThrewSame DEF Same
  <2>2. /\ Homes(Threw(b)) /\ Moves(app, Threw(b)) /\ Threw(b).reached = app.reached
        /\ \A g \in Frames : file.kind[g] = "block" /\ Threw(b).delivered[g] > 0
                               => app.delivered[g] > 0 \/ g = r.block
    BY <1>11, <2>1
  <2>3. f = q[n].frame
    BY DEF f
  <2>4. QED BY <1>1, <1>13, <2>2, <2>3, ReplayFailsTells
<1>14. QED BY <1>1, <1>12, <1>13 DEF f, h, a, b

(* A receipt settles its frame, and no other. *)
LEMMA ReceiptSettles ==
  ASSUME NEW b, InOrder(b), NEW f \in Frames, b.disposition[f] = "staged",
         f \notin b.objects \cup b.deferred
  PROVE  LET c == Discarded(Receipted(b, f, FALSE), f)
         IN /\ c.disposition[f] = "published" /\ c.leased = b.leased \ {f}
            /\ Spares(b, c, f)
<1> DEFINE m == Marked(b, f, "published")
<1>1. b.disposition[f] \in Transient
  BY DEF Transient
<1>2. Receipted(b, f, FALSE) = m
  BY <1>1, ReceiptedIsMarked
<1>3. /\ InOrder(m) /\ m.leased = b.leased /\ m.disposition[f] = "published"
      /\ Spares(b, m, f)
  <2>1. /\ f \in Frames \ (b.objects \cup b.deferred) /\ "published" # "staged"
        /\ "published" \in {"staged", "published", "quarantined", "failed"}
    OBVIOUS
  <2>2. QED BY <1>1, <2>1, MarkedInOrder
<1> HIDE DEF m
<1>4. m.disposition[f] \in Terminal
  BY <1>3 DEF Terminal
<1>5. /\ Discarded(m, f).leased = m.leased \ {f}
      /\ Discarded(m, f).disposition = m.disposition
  BY <1>3, <1>4, DiscardedInOrder
<1>6. QED BY <1>2, <1>3, <1>5 DEF Spares

(* A block that is told complete has told all of its entities. *)
LEMMA ReachedIsComplete ==
  ASSUME DeliveryInv, scope.step = "replay", Reached(scope.record)
  PROVE  \A i \in DOMAIN scope.record.entMap :
            /\ book.disposition[scope.record.entMap[i]] = "published"
            /\ app.within[scope.record.entMap[i]] = OwnerOf(scope.record)
<1> DEFINE r == scope.record
<1>1. ASSUME NEW i \in DOMAIN r.entMap
      PROVE  /\ book.disposition[r.entMap[i]] = "published"
             /\ app.within[r.entMap[i]] = OwnerOf(r)
  <2> DEFINE g == r.entMap[i]
  <2>1. /\ g \in Frames /\ file.kind[g] = "entity" /\ ~Chained /\ Homes(app)
        /\ book.disposition[g] \in {"staged", "published"} => file.owner[g] = OwnerOf(r)
    BY <1>1, HomeFacts
  <2>2. book.disposition[g] = "published"
    BY <1>1 DEF Reached
  <2> HIDE DEF g
  <2>3. app.delivered[g] = 1
    BY <2>1, <2>2 DEF DeliveryInv, CoreInv, Once
  <2>4. app.within[g] = OwnerOf(r)
    BY <2>1, <2>2, <2>3 DEF Homes
  <2>5. QED BY <2>2, <2>4 DEF g
<1>2. QED BY <1>1

LEMMA ReplayReceiptTells ==
  ASSUME DeliveryInv, ReplayReceipt, CoreInv', Keeps(book, book')
  PROVE  DeliveryInv'
<1> DEFINE q == scope.calls
           n == scope.at
           f == q[n].frame
           r == scope.record
           reached == [app EXCEPT !.reached = @ \cup {r}]
<1>1. /\ scope.step = "replay" /\ n <= Len(q) /\ q[n].what \in Answer
      /\ UNCHANGED <<file, phase>>
      /\ \/ /\ app' = app \/ (app' = reached /\ Reached(r))
            /\ book' = Discarded(Receipted(book, f, FALSE), f)
            /\ scope' = [scope EXCEPT !.at = @ + 1]
            /\ UNCHANGED <<pending, sectionOk>>
         \/ ScopeFails(Marked(book, f, "failed"), app)
         \/ ScopeFails(Receipted(book, f, TRUE), Threw(app))
  BY DEF ReplayReceipt, Answer
<1>2. /\ phase = "blocks" /\ ~Chained /\ app \in Apps /\ InOrder(book) /\ r \in file.records
      /\ Sole(r) /\ InFrames(r) /\ Homes(app) /\ Entered(scope, app)
      /\ JournalOK(scope, book)
  BY <1>1, HomeFacts DEF DeliveryInv, HomeInv
<1>3. /\ n \in 1..Len(q) /\ f \in Frames /\ f \notin book.objects \cup book.deferred
      /\ book.disposition[f] = "staged"
  BY <1>1, NextCall DEF DeliveryInv
<1>4. n > 1 /\ (EndsLater(q, n) <=> EndsLater(q, n + 1))
  BY <1>1, CallPlace DEF Answer
<1>5. ASSUME NEW a, Same(app, a)
      PROVE  /\ Homes(a) /\ Moves(app, a) /\ a.reached = app.reached
             /\ \A g \in Frames : file.kind[g] = "block" /\ a.delivered[g] > 0
                                    => app.delivered[g] > 0 \/ g = r.block
  BY <1>2, <1>5, HomesSame DEF Same, Moves
<1> HIDE DEF f
<1>6. CASE /\ app' = app \/ (app' = reached /\ Reached(r))
           /\ book' = Discarded(Receipted(book, f, FALSE), f)
           /\ scope' = [scope EXCEPT !.at = @ + 1]
           /\ UNCHANGED <<pending, sectionOk>>
  <2>1. /\ book'.disposition[f] = "published" /\ book'.leased = book.leased \ {f}
        /\ Spares(book, book', f)
    BY <1>2, <1>3, <1>6, ReceiptSettles
  <2>2. /\ scope'.step = "replay" /\ scope'.record = r /\ scope'.at = n + 1 /\ scope'.calls = q
    <3>1. /\ scope' = [record |-> scope'.record, step |-> "replay", at |-> scope'.at,
                       calls |-> scope'.calls]
          /\ scope'.record = r /\ scope'.at = n + 1 /\ scope'.calls = q
      BY <1>1, <1>6, ReplayMoves DEF DeliveryInv
    <3>2. QED BY <3>1
  <2>3. /\ app'.delivered = app.delivered /\ app'.within = app.within /\ app'.open = app.open
        /\ \/ app'.reached = app.reached
           \/ app'.reached = app.reached \cup {r} /\ Reached(r)
    BY <1>2, <1>6 DEF Apps
  <2>4. Homes(app') /\ Moves(app, app')
    BY <1>2, <2>3 DEF Homes, Moves
  <2>5. Entered(scope', app')
    <3>1. app.open = IF EndsLater(q, n) THEN r.handle ELSE 0
      BY <1>2, <1>4 DEF Entered
    <3>2. QED BY <1>4, <2>2, <2>3, <3>1 DEF Entered
  <2>6. JournalOK(scope', book')
    <3>1. Accounted(r, Len(r.entMap) + 1, book)
      BY <1>1, <1>2 DEF JournalOK, Upto
    <3>2. Accounted(r, Len(r.entMap) + 1, book')
      <4>1. ASSUME NEW i \in 1..Len(r.entMap), i < Len(r.entMap) + 1
            PROVE  /\ book'.disposition[r.entMap[i]] \in Terminal \cup {"staged"}
                   /\ book'.disposition[r.entMap[i]] = "staged" => r.entMap[i] \in book'.leased
                   /\ book'.disposition[r.entMap[i]] \in {"staged", "published"}
                        => file.owner[r.entMap[i]] = OwnerOf(r)
        <5>1. CASE r.entMap[i] = f
          BY <1>3, <2>1, <3>1, <4>1, <5>1 DEF Accounted, Terminal
        <5>2. CASE r.entMap[i] # f
          <6>1. r.entMap[i] \in Frames
            <7>1. DOMAIN r.entMap = 1..Len(r.entMap)
              BY <1>2, ListOf DEF DeliveryInv
            <7>2. QED BY <1>2, <7>1 DEF InFrames
          <6>2. book'.disposition[r.entMap[i]] = book.disposition[r.entMap[i]]
            BY <2>1, <5>2, <6>1 DEF Spares
          <6>3. QED BY <2>1, <3>1, <4>1, <5>2, <6>2 DEF Accounted
        <5>3. QED BY <5>1, <5>2
      <4>2. QED BY <4>1 DEF Accounted
    <3>3. Upto(scope') = Len(r.entMap) + 1
      BY <2>2 DEF Upto
    <3>4. QED BY <1>2, <2>2, <3>2, <3>3 DEF JournalOK
  <2>7. Complete(book', app')
    <3>1. ASSUME NEW x \in app.reached, NEW i \in DOMAIN x.entMap
          PROVE  /\ InFrames(x) /\ book'.disposition[x.entMap[i]] = "published"
                 /\ app'.within[x.entMap[i]] = OwnerOf(x)
      <4>1. /\ InFrames(x) /\ book.disposition[x.entMap[i]] = "published"
            /\ app.within[x.entMap[i]] = OwnerOf(x)
        BY <3>1 DEF DeliveryInv, Complete
      <4>2. QED BY <2>3, <3>1, <4>1 DEF Keeps, Terminal, InFrames
    <3>2. ASSUME Reached(r), NEW i \in DOMAIN r.entMap
          PROVE  /\ book'.disposition[r.entMap[i]] = "published"
                 /\ app'.within[r.entMap[i]] = OwnerOf(r)
      <4>1. /\ book.disposition[r.entMap[i]] = "published"
            /\ app.within[r.entMap[i]] = OwnerOf(r)
        BY <1>1, <3>2, ReachedIsComplete
      <4>2. QED BY <1>2, <2>3, <3>2, <4>1 DEF Keeps, Terminal, InFrames
    <3>3. \A x \in app.reached : InFrames(x)
      BY DEF DeliveryInv, Complete
    <3>4. QED BY <1>2, <2>3, <3>1, <3>2, <3>3 DEF Complete
  <2>8. Whole(book, app)'
    BY <1>1, <1>2, <2>2, <2>3, WholeTold DEF DeliveryInv
  <2>9. QED BY <1>1, <1>2, <1>6, <2>2, <2>4, <2>5, <2>6, <2>7, <2>8, Listed
<1>7. CASE ScopeFails(Marked(book, f, "failed"), app)
  <2>1. Same(app, app) /\ f = q[n].frame
    BY DEF Same, f
  <2>2. QED BY <1>1, <1>5, <1>7, <2>1, ReplayFailsTells
<1>8. CASE ScopeFails(Receipted(book, f, TRUE), Threw(app))
  <2>1. Same(app, Threw(app)) /\ f = q[n].frame
    BY <1>2, ThrewSame DEF f
  <2>2. Receipted(book, f, TRUE) = Marked(book, f, "failed")
    BY <1>2, <1>3, ReceiptedIsMarked DEF Transient
  <2>3. ScopeFails(Marked(book, f, "failed"), Threw(app))
    BY <1>8, <2>2
  <2>4. QED BY <1>1, <1>5, <2>1, <2>3, ReplayFailsTells
<1>9. QED BY <1>1, <1>6, <1>7, <1>8 DEF f

LEMMA EndReplayTells ==
  ASSUME DeliveryInv, EndReplay, CoreInv', Keeps(book, book')
  PROVE  DeliveryInv'
<1> DEFINE r == scope.record
<1>1. /\ scope.step = "replay" /\ scope.at > Len(scope.calls) /\ UNCHANGED <<file, phase>>
      /\ \/ book.leased = {} /\ ScopeEnds /\ UNCHANGED <<book, app, sectionOk>>
         \/ ScopeFails(book, app)
  BY DEF EndReplay
<1>2. /\ phase = "blocks" /\ InOrder(book) /\ Sole(r) /\ InFrames(r) /\ Homes(app)
      /\ Entered(scope, app)
      /\ \A i \in DOMAIN r.entMap :
            /\ book.disposition[r.entMap[i]] \in Terminal \cup {"staged"}
            /\ book.disposition[r.entMap[i]] = "staged" => r.entMap[i] \in book.leased
  BY <1>1, HomeFacts
<1>3. CASE book.leased = {} /\ ScopeEnds /\ UNCHANGED <<book, app, sectionOk>>
  <2>1. scope'.step = "none" /\ pending' \subseteq pending
    BY <1>3 DEF ScopeEnds, NoScope
  <2>2. \A i \in DOMAIN r.entMap : book'.disposition[r.entMap[i]] \in Terminal
    BY <1>2, <1>3
  <2>3. Whole(book, app)'
    BY <1>1, <1>3, <2>2, WholeKept DEF DeliveryInv
  <2>4. app.open = 0
    <3>1. /\ ClosesFirst(scope.calls) /\ scope.at \in Nat /\ Len(scope.calls) \in Nat
      BY <1>1, ReplayFacts DEF DeliveryInv, CallsOK
    <3>2. Len(scope.calls) >= 2
      BY <3>1 DEF ClosesFirst
    <3>3. scope.at > 1 /\ scope.at..Len(scope.calls) = {}
      BY <1>1, <3>1, <3>2
    <3>4. QED BY <1>2, <3>3 DEF Entered, EndsLater
  <2>5. Outside'
    BY <1>1, <1>2, <1>3, <2>1, <2>4 DEF Outside
  <2>6. Homes(app') /\ Moves(app, app') /\ app'.reached = app.reached
    BY <1>2, <1>3 DEF Moves
  <2>7. QED BY <1>1, <2>1, <2>3, <2>5, <2>6, Unlisted, SoleKept
<1>4. CASE ScopeFails(book, app)
  <2>1. book' = Aborted(book, r) /\ app' = app
    BY <1>4 DEF ScopeFails
  <2>2. \A i \in DOMAIN r.entMap : \/ book.disposition[r.entMap[i]] \in Terminal
                                   \/ r.entMap[i] \in book.leased
    BY <1>2
  <2>3. \A i \in DOMAIN r.entMap : book'.disposition[r.entMap[i]] \in Terminal
    BY <1>2, <2>1, <2>2, AbortSettles
  <2>4. Whole(book, app)'
    BY <1>1, <2>1, <2>3, WholeKept DEF DeliveryInv
  <2>5. Homes(app) /\ Moves(app, app)
    BY <1>2 DEF Moves
  <2>6. QED BY <1>1, <1>2, <1>4, <2>4, <2>5, ListedFails
<1>5. QED BY <1>1, <1>3, <1>4

------------------------------------------------------------------------------
(* Every step, and the theorems. *)

LEMMA StepTells == DeliveryInv /\ [Next]_vars => DeliveryInv'
<1> SUFFICES ASSUME DeliveryInv, [Next]_vars PROVE DeliveryInv'
  OBVIOUS
<1>1. CoreInv' /\ Keeps(book, book')
  BY StepKeepsCore DEF DeliveryInv
<1>2. CASE ReadStructure BY <1>1, <1>2, StructureTells
<1>3. CASE CheckClaims BY <1>1, <1>3, ClaimsTell
<1>4. CASE RefuseRecord BY <1>1, <1>4, RefuseTells
<1>5. CASE ReadJournalled
  <2>1. CASE OpenJournal BY <1>1, <2>1, OpenJournalTells
  <2>2. CASE JournalEntity BY <1>1, <2>2, JournalEntityTells
  <2>3. CASE FailJournal BY <1>1, <2>3, FailJournalTells
  <2>4. CASE SealJournal BY <1>1, <2>4, SealJournalTells
  <2>5. CASE ReplayValue BY <1>1, <2>5, ReplayValueTells
  <2>6. CASE ReplayReceipt BY <1>1, <2>6, ReplayReceiptTells
  <2>7. CASE EndReplay BY <1>1, <2>7, EndReplayTells
  <2>8. QED BY <1>5, <2>1, <2>2, <2>3, <2>4, <2>5, <2>6, <2>7 DEF ReadJournalled
<1>6. CASE ReadChained
  <2>1. CASE OpenBlock BY <1>1, <2>1, OpenTells
  <2>2. CASE WalkEntity BY <1>1, <2>2, WalkTells
  <2>3. CASE EndChain BY <1>1, <2>3, EndChainTells
  <2>4. CASE CloseBlock BY <1>1, <2>4, CloseTells
  <2>5. CASE CommitBlock BY <1>1, <2>5, CommitTells
  <2>6. QED BY <1>6, <2>1, <2>2, <2>3, <2>4, <2>5 DEF ReadChained
<1>7. CASE EndBlocks \/ EndEntities \/ EndObjects BY <1>1, <1>7, EndTells
<1>8. CASE SweepEntity BY <1>1, <1>8, SweepTells
<1>9. CASE ReadObject BY <1>1, <1>9, ObjectTells
<1>10. CASE Finish BY <1>1, <1>10, FinishTells
<1>11. CASE UNCHANGED vars BY <1>11, StutterTells
<1>12. QED
  BY <1>2, <1>3, <1>4, <1>5, <1>6, <1>7, <1>8, <1>9, <1>10, <1>11 DEF Next

LEMMA DeliveryHolds == Spec => []DeliveryInv
<1>1. Init => DeliveryInv
  BY InitDelivery
<1>2. QED BY <1>1, StepTells, PTL DEF Spec

(* An entity reaches the application inside the block that owns it, or      *)
(* outside of every block: no interleaving of journals, chains and the      *)
(* sweep, and no callback that throws, moves it to another one.             *)
THEOREM ToldAtHome == Spec => []InItsBlock
<1>1. DeliveryInv => InItsBlock
  BY DEF DeliveryInv, HomeInv, Homes, InItsBlock
<1>2. QED BY <1>1, DeliveryHolds, PTL

(* A block of the later layouts that the application heard of had all its   *)
(* entities read first: none is left to be found by the sweep.              *)
THEOREM HeardWhenWhole == Spec => []HeardOfWhole
<1>1. DeliveryInv => HeardOfWhole
  <2>1. ASSUME DeliveryInv, ~Chained, NEW r \in file.records, r.block \in Frames,
               app.delivered[r.block] > 0, file.kind[r.block] = "block",
               NEW i \in DOMAIN r.entMap
        PROVE  book.disposition[r.entMap[i]] # "pending"
    <3>1. \/ book.disposition[r.entMap[i]] \in Terminal
          \/ scope.step = "replay" /\ scope.record = r
      BY <2>1 DEF DeliveryInv, Whole
    <3>2. CASE scope.step = "replay" /\ scope.record = r
      BY <2>1, <3>2, HomeFacts DEF Terminal
    <3>3. QED BY <3>1, <3>2 DEF Terminal
  <2>2. QED BY <2>1 DEF HeardOfWhole
<1>2. QED BY <1>1, DeliveryHolds, PTL

(* A block that the application is told is complete has told and published  *)
(* every entity of its record, inside it.                                   *)
THEOREM CompleteMeansAll == Spec => []CompleteBlocks
<1>1. DeliveryInv => CompleteBlocks
  BY DEF DeliveryInv, Complete, CompleteBlocks
<1>2. QED BY <1>1, DeliveryHolds, PTL

==============================================================================
