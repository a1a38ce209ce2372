--------------------------- MODULE DwgReaderProofs ---------------------------
(***************************************************************************)
(* The ledger of a DWG read is never in a state its author thought         *)
(* impossible, and a frame is handed to the application once, for any      *)
(* files and any number of frames.                                         *)
(***************************************************************************)
EXTENDS DwgReader, SequenceTheorems, WellFoundedInduction, TLAPS

------------------------------------------------------------------------------
(* The ledger: what its operators do to a ledger that is in order. *)

Outcomes == Transient \cup Terminal
Books == [objects : SUBSET Frames, deferred : SUBSET Frames, leased : SUBSET Frames,
          alarm : BOOLEAN, disposition : [Frames -> Outcomes],
          receipts : [Frames -> {0, 1}]]

InOrder(b) ==
  /\ b \in Books /\ b.alarm = FALSE
  /\ b.objects \cap b.deferred = {}
  /\ b.leased \cap (b.objects \cup b.deferred) = {}
  /\ \A f \in Frames : /\ b.receipts[f] = 1 <=> b.disposition[f] = "published"
                       /\ b.disposition[f] # "unresolved"
  /\ \A f \in b.objects : b.disposition[f] = "pending"
  /\ \A f \in b.deferred : b.disposition[f] = "deferred"

(* Nothing that was settled changes; nothing but frame f changes. *)
Keeps(b, c) == \A f \in Frames : b.disposition[f] \in Terminal
                                   => c.disposition[f] = b.disposition[f]
Spares(b, c, f) == \A g \in Frames \ {f} : c.disposition[g] = b.disposition[g]

LEMMA BookMoved ==
  ASSUME NEW b \in Books, NEW o \in SUBSET Frames, NEW d \in SUBSET Frames,
         NEW l \in SUBSET Frames
  PROVE  LET c == [b EXCEPT !.objects = o, !.deferred = d, !.leased = l]
         IN /\ c \in Books /\ c.objects = o /\ c.deferred = d /\ c.leased = l
            /\ c.alarm = b.alarm /\ c.disposition = b.disposition
            /\ c.receipts = b.receipts
BY DEF Books

LEMMA BookMarked ==
  ASSUME NEW b \in Books, NEW f \in Frames, NEW to \in Outcomes, NEW x \in {0, 1}
  PROVE  LET c == [b EXCEPT !.disposition[f] = to, !.receipts[f] = x]
         IN /\ c \in Books /\ c.objects = b.objects /\ c.deferred = b.deferred
            /\ c.leased = b.leased /\ c.alarm = b.alarm
            /\ c.disposition = [b.disposition EXCEPT ![f] = to]
            /\ c.receipts = [b.receipts EXCEPT ![f] = x]
BY DEF Books

LEMMA BookReturned ==
  ASSUME NEW b \in Books, NEW l \in SUBSET Frames
  PROVE  LET c == [b EXCEPT !.leased = l]
         IN /\ c \in Books /\ c.objects = b.objects /\ c.deferred = b.deferred
            /\ c.leased = l /\ c.alarm = b.alarm
            /\ c.disposition = b.disposition /\ c.receipts = b.receipts
BY DEF Books

LEMMA BookFields ==
  ASSUME NEW b \in Books
  PROVE  /\ b.objects \subseteq Frames /\ b.deferred \subseteq Frames
         /\ b.leased \subseteq Frames
         /\ b.disposition \in [Frames -> Outcomes] /\ b.receipts \in [Frames -> {0, 1}]
BY DEF Books

LEMMA DetachedInOrder ==
  ASSUME NEW b, InOrder(b), NEW f \in b.objects \cup b.deferred
  PROVE  LET c == Detached(b, f)
         IN /\ InOrder(c) /\ f \in Frames
            /\ b.disposition[f] \in {"pending", "deferred"}
            /\ c.objects = b.objects \ {f} /\ c.deferred = b.deferred \ {f}
            /\ c.leased = b.leased \cup {f}
            /\ c.disposition = b.disposition /\ c.receipts = b.receipts
<1> DEFINE c == Detached(b, f)
<1>1. /\ b \in Books /\ f \in Frames
      /\ b.disposition[f] \in {"pending", "deferred"} /\ b.receipts[f] = 0
  BY BookFields DEF InOrder
<1>2. Takeable(b, f)
  BY <1>1 DEF Takeable, InOrder
<1>3. c = [b EXCEPT !.objects = @ \ {f}, !.deferred = @ \ {f}, !.leased = @ \cup {f}]
  BY <1>2 DEF Detached
<1>4. /\ b.objects \ {f} \in SUBSET Frames /\ b.deferred \ {f} \in SUBSET Frames
      /\ b.leased \cup {f} \in SUBSET Frames
  BY <1>1, BookFields
<1>5. /\ c \in Books /\ c.objects = b.objects \ {f} /\ c.deferred = b.deferred \ {f}
      /\ c.leased = b.leased \cup {f} /\ c.alarm = b.alarm
      /\ c.disposition = b.disposition /\ c.receipts = b.receipts
  BY <1>1, <1>3, <1>4 DEF Books
<1> HIDE DEF c
<1>6. InOrder(c)
  BY <1>5 DEF InOrder
<1>7. QED BY <1>1, <1>5, <1>6 DEF c

LEMMA MarkedInOrder ==
  ASSUME NEW b, InOrder(b), NEW f \in Frames \ (b.objects \cup b.deferred),
         NEW to \in {"staged", "published", "quarantined", "failed"},
         b.disposition[f] \in Transient, to = "staged" => b.disposition[f] = "pending"
  PROVE  LET c == Marked(b, f, to)
         IN /\ InOrder(c) /\ c.objects = b.objects /\ c.deferred = b.deferred
            /\ c.leased = b.leased /\ c.disposition[f] = to /\ Spares(b, c, f)
<1> DEFINE c == Marked(b, f, to)
           x == IF to = "published" THEN 1 ELSE b.receipts[f]
<1>1. b \in Books /\ b.receipts[f] = 0
  BY BookFields DEF InOrder, Transient
<1>2. Allowed(b.disposition[f], to) /\ b.disposition[f] # to
  BY DEF Allowed, Transient
<1>3. c = [b EXCEPT !.disposition[f] = to, !.receipts[f] = x]
  BY <1>1, <1>2 DEF Marked
<1>4. to \in Outcomes /\ x \in {0, 1} /\ (x = 1 <=> to = "published")
  BY <1>1 DEF Outcomes, Transient, Terminal
<1> HIDE DEF x, c
<1>5. /\ c \in Books /\ c.objects = b.objects /\ c.deferred = b.deferred
      /\ c.leased = b.leased /\ c.alarm = b.alarm
      /\ c.disposition = [b.disposition EXCEPT ![f] = to]
      /\ c.receipts = [b.receipts EXCEPT ![f] = x]
  <2>1. b \in Books /\ f \in Frames /\ to \in Outcomes /\ x \in {0, 1}
    BY <1>1, <1>4
  <2>2. QED BY ONLY <1>3, <2>1 DEF Books
<1>6. \A g \in Frames : /\ c.receipts[g] = 1 <=> c.disposition[g] = "published"
                        /\ c.disposition[g] # "unresolved"
  BY <1>1, <1>4, <1>5, BookFields DEF InOrder
<1>7. /\ \A g \in c.objects : c.disposition[g] = "pending"
      /\ \A g \in c.deferred : c.disposition[g] = "deferred"
  BY <1>1, <1>5, BookFields DEF InOrder
<1>8. InOrder(c)
  BY <1>5, <1>6, <1>7 DEF InOrder
<1>9. c.disposition[f] = to /\ Spares(b, c, f)
  BY <1>1, <1>5, BookFields DEF Spares
<1>10. QED BY <1>5, <1>8, <1>9 DEF c

LEMMA DiscardedInOrder ==
  ASSUME NEW b, InOrder(b), NEW f \in Frames, b.disposition[f] \in Terminal
  PROVE  LET c == Discarded(b, f)
         IN /\ InOrder(c) /\ c.objects = b.objects /\ c.deferred = b.deferred
            /\ c.leased = b.leased \ {f} /\ c.disposition = b.disposition
<1> DEFINE c == Discarded(b, f)
<1>1. b \in Books /\ b.leased \ {f} \in SUBSET Frames
  BY BookFields DEF InOrder
<1>2. c = [b EXCEPT !.leased = @ \ {f}]
  BY DEF Discarded
<1>3. /\ c \in Books /\ c.objects = b.objects /\ c.deferred = b.deferred
      /\ c.leased = b.leased \ {f} /\ c.alarm = b.alarm
      /\ c.disposition = b.disposition /\ c.receipts = b.receipts
  BY <1>1, <1>2, BookReturned
<1> HIDE DEF c
<1>4. InOrder(c)
  BY <1>3 DEF InOrder
<1>5. QED BY <1>3, <1>4 DEF c

LEMMA ReceiptedIsMarked ==
  ASSUME NEW b, InOrder(b), NEW f \in Frames, b.disposition[f] \in Transient,
         NEW fails \in BOOLEAN
  PROVE  Receipted(b, f, fails) = Marked(b, f, IF fails THEN "failed" ELSE "published")
<1>1. b.receipts[f] = 0
  BY BookFields DEF InOrder, Transient
<1>2. QED BY <1>1 DEF Receipted

(* A frame taken from a map is settled. *)
Settled(b, c, f) ==
  /\ InOrder(c) /\ Keeps(b, c) /\ Spares(b, c, f)
  /\ c.objects = b.objects \ {f} /\ c.deferred = b.deferred \ {f}
  /\ c.leased = b.leased \ {f}

LEMMA SettledAfter ==
  ASSUME NEW b, InOrder(b), NEW f \in b.objects \cup b.deferred,
         NEW to \in {"published", "failed"}
  PROVE  LET c == Discarded(Marked(Detached(b, f), f, to), f)
         IN Settled(b, c, f) /\ c.disposition[f] = to
<1> DEFINE d == Detached(b, f)
           m == Marked(d, f, to)
           c == Discarded(m, f)
<1>1. /\ InOrder(d) /\ f \in Frames /\ b.disposition[f] \in {"pending", "deferred"}
      /\ d.disposition = b.disposition /\ d.objects = b.objects \ {f}
      /\ d.deferred = b.deferred \ {f} /\ d.leased = b.leased \cup {f}
  BY DetachedInOrder
<1> HIDE DEF d
<1>2. /\ InOrder(m) /\ m.objects = d.objects /\ m.deferred = d.deferred
      /\ m.leased = d.leased /\ m.disposition[f] = to /\ Spares(d, m, f)
  <2>1. /\ f \in Frames \ (d.objects \cup d.deferred) /\ d.disposition[f] \in Transient
        /\ to \in {"staged", "published", "quarantined", "failed"} /\ to # "staged"
    BY <1>1 DEF Transient
  <2>2. QED BY <1>1, <2>1, MarkedInOrder
<1>3. m.disposition[f] = to /\ Spares(b, m, f)
  BY <1>1, <1>2 DEF Spares
<1> HIDE DEF m
<1>4. /\ InOrder(c) /\ c.objects = m.objects /\ c.deferred = m.deferred
      /\ c.leased = m.leased \ {f} /\ c.disposition = m.disposition
  BY <1>1, <1>2, <1>3, DiscardedInOrder DEF Terminal
<1> HIDE DEF c
<1>5. Keeps(b, c) /\ Spares(b, c, f)
  BY <1>1, <1>3, <1>4 DEF Keeps, Spares, Terminal
<1>6. QED BY <1>1, <1>2, <1>3, <1>4, <1>5 DEF Settled, c, m, d

LEMMA LostIsSettled ==
  ASSUME NEW b, InOrder(b), NEW f \in b.objects \cup b.deferred
  PROVE  /\ Settled(b, Lost(Detached(b, f), f), f)
         /\ Lost(Detached(b, f), f).disposition[f] = "failed"
BY SettledAfter DEF Lost

LEMMA DeliveredIsSettled ==
  ASSUME NEW b, InOrder(b), NEW f \in b.objects \cup b.deferred, NEW at
  PROVE  /\ Settled(b, DeliveredNow(Detached(b, f), f, at), f)
         /\ DeliveredNow(Detached(b, f), f, at).disposition[f] \in {"published", "failed"}
<1>1. /\ InOrder(Detached(b, f)) /\ f \in Frames
      /\ Detached(b, f).disposition[f] \in Transient
  BY DetachedInOrder DEF Transient
<1>2. PICK to \in {"published", "failed"} :
        DeliveredNow(Detached(b, f), f, at) = Discarded(Marked(Detached(b, f), f, to), f)
  BY <1>1, ReceiptedIsMarked DEF DeliveredNow
<1>3. QED BY <1>2, SettledAfter

(* An object the entities phase meets waits in the other map. *)
LEMMA DeferredInOrder ==
  ASSUME NEW b, InOrder(b), NEW f \in b.objects
  PROVE  LET c == Deferred(Detached(b, f), f)
         IN /\ InOrder(c) /\ Keeps(b, c) /\ Spares(b, c, f)
            /\ c.objects = b.objects \ {f} /\ c.deferred = b.deferred \cup {f}
            /\ c.leased = b.leased \ {f} /\ c.disposition[f] = "deferred"
<1> DEFINE d == Detached(b, f)
           e == [d EXCEPT !.leased = @ \ {f}, !.deferred = @ \cup {f}]
           c == Marked(e, f, "deferred")
<1>1. /\ InOrder(d) /\ f \in Frames /\ b.disposition[f] = "pending"
      /\ d.disposition = b.disposition /\ d.objects = b.objects \ {f}
      /\ d.deferred = b.deferred \ {f} /\ d.leased = b.leased \cup {f}
  BY DetachedInOrder DEF InOrder
<1> HIDE DEF d
<1>2. /\ d \in Books /\ d.leased \ {f} \in SUBSET Frames
      /\ d.deferred \cup {f} \in SUBSET Frames
  BY <1>1, BookFields DEF InOrder
<1>3. /\ e \in Books /\ e.objects = d.objects /\ e.deferred = d.deferred \cup {f}
      /\ e.leased = d.leased \ {f} /\ e.alarm = d.alarm
      /\ e.disposition = d.disposition /\ e.receipts = d.receipts
  BY <1>2 DEF Books
<1> HIDE DEF e
<1>4. e.disposition[f] = "pending" /\ e.receipts[f] = 0
  BY <1>1, <1>2, <1>3, BookFields DEF InOrder
<1>5. c = [e EXCEPT !.disposition[f] = "deferred", !.receipts[f] = e.receipts[f]]
  BY <1>4 DEF Marked, Allowed
<1>6. /\ e \in Books /\ f \in Frames /\ "deferred" \in Outcomes
      /\ e.receipts[f] \in {0, 1}
  BY <1>1, <1>3, <1>4 DEF Outcomes, Transient
<1> HIDE DEF c
<1>7. /\ c \in Books /\ c.objects = e.objects /\ c.deferred = e.deferred
      /\ c.leased = e.leased /\ c.alarm = e.alarm
      /\ c.disposition = [e.disposition EXCEPT ![f] = "deferred"]
      /\ c.receipts = [e.receipts EXCEPT ![f] = e.receipts[f]]
  BY ONLY <1>5, <1>6 DEF Books
<1>8. c.disposition[f] = "deferred" /\ \A g \in Frames : c.receipts[g] = d.receipts[g]
  BY <1>1, <1>3, <1>7, BookFields
<1>9. Keeps(b, c) /\ Spares(b, c, f)
  BY <1>1, <1>3, <1>7, BookFields DEF Keeps, Spares, Terminal
<1>10. InOrder(c)
  <2>1. \A g \in Frames : /\ c.receipts[g] = 1 <=> c.disposition[g] = "published"
                          /\ c.disposition[g] # "unresolved"
    BY <1>1, <1>3, <1>4, <1>8, <1>9 DEF InOrder, Spares
  <2>2. /\ \A g \in c.objects : c.disposition[g] = "pending"
        /\ \A g \in c.deferred : c.disposition[g] = "deferred"
    BY <1>1, <1>2, <1>3, <1>7, <1>8, <1>9, BookFields DEF InOrder, Spares
  <2>3. QED BY <1>1, <1>3, <1>7, <2>1, <2>2 DEF InOrder
<1>11. /\ c.objects = b.objects \ {f} /\ c.deferred = b.deferred \cup {f}
       /\ c.leased = b.leased \ {f}
  BY <1>1, <1>3, <1>7
<1>12. QED BY <1>8, <1>9, <1>10, <1>11 DEF Deferred, c, e, d

------------------------------------------------------------------------------
(* Giving up what a record names. *)

Named(R) == UNION {{r.block, r.endBlock} \cup {r.entMap[i] : i \in DOMAIN r.entMap} :
                     r \in R}

LEMMA QuarantinedInOrder ==
  ASSUME NEW b, InOrder(b), NEW R
  PROVE  LET c == Quarantined(b, R)
         IN /\ InOrder(c) /\ Keeps(b, c)
            /\ c.objects = b.objects \ Named(R) /\ c.deferred = b.deferred \ Named(R)
            /\ c.leased = b.leased
            /\ \A f \in Frames : c.disposition[f] \in {b.disposition[f], "quarantined"}
<1> DEFINE mapped == Named(R) \cap (b.objects \cup b.deferred)
           refused == {f \in mapped : b.disposition[f] \in {"published", "unresolved"}}
           disposition == [f \in Frames |->
                  IF f \in mapped /\ b.disposition[f] \in Transient THEN "quarantined"
                  ELSE b.disposition[f]]
           c == Quarantined(b, R)
<1>1. b \in Books /\ refused = {}
  BY DEF InOrder
<1>2. c = [b EXCEPT !.objects = @ \ (mapped \ refused),
               !.deferred = @ \ (mapped \ refused),
               !.alarm = @ \/ refused # {},
               !.disposition = [f \in Frames |->
                  IF f \in mapped /\ @[f] \in Transient THEN "quarantined" ELSE @[f]]]
  BY DEF Quarantined, Named
<1>3. disposition \in [Frames -> Outcomes]
  BY <1>1, BookFields DEF Outcomes, Transient, Terminal
<1> HIDE DEF mapped
<1>4. /\ c.objects = b.objects \ mapped /\ c.deferred = b.deferred \ mapped
      /\ c.leased = b.leased /\ c.disposition = disposition /\ c.receipts = b.receipts
      /\ c.alarm = FALSE
  BY <1>1, <1>2 DEF Books, InOrder
<1>5. c \in Books
  BY <1>1, <1>2, <1>3, <1>4 DEF Books
<1> HIDE DEF c
<1>6. /\ \A f \in Frames : /\ c.receipts[f] = 1 <=> c.disposition[f] = "published"
                           /\ c.disposition[f] # "unresolved"
      /\ \A f \in c.objects : c.disposition[f] = "pending"
      /\ \A f \in c.deferred : c.disposition[f] = "deferred"
  BY <1>1, <1>4, BookFields DEF InOrder, Transient
<1>7. InOrder(c)
  BY <1>1, <1>4, <1>5, <1>6 DEF InOrder
<1>8. Keeps(b, c) /\ \A f \in Frames : c.disposition[f] \in {b.disposition[f], "quarantined"}
  BY <1>4 DEF Keeps, Terminal, Transient
<1>9. c.objects = b.objects \ Named(R) /\ c.deferred = b.deferred \ Named(R)
  BY <1>4 DEF mapped
<1>10. QED BY <1>4, <1>7, <1>8, <1>9 DEF c

LEMMA AbortedInOrder ==
  ASSUME NEW b, InOrder(b), NEW r
  PROVE  LET c == Aborted(b, r)
         IN /\ InOrder(c) /\ Keeps(b, c)
            /\ c.objects = b.objects \ Named({r}) /\ c.deferred = b.deferred \ Named({r})
            /\ c.leased = {}
            /\ \A f \in Frames : c.disposition[f] \in {b.disposition[f], "quarantined"}
            /\ \A f \in b.leased : c.disposition[f] \in Terminal
<1> DEFINE disposition == [f \in Frames |->
                  IF f \in b.leased /\ b.disposition[f] \in Transient THEN "quarantined"
                  ELSE b.disposition[f]]
           a == [b EXCEPT !.leased = {},
                        !.disposition = [f \in Frames |->
                           IF f \in b.leased /\ @[f] \in Transient
                           THEN "quarantined" ELSE @[f]]]
<1>1. b \in Books
  BY DEF InOrder
<1>2. disposition \in [Frames -> Outcomes]
  BY <1>1, BookFields DEF Outcomes, Transient, Terminal
<1>3. /\ a \in Books /\ a.objects = b.objects /\ a.deferred = b.deferred
      /\ a.leased = {} /\ a.alarm = b.alarm /\ a.disposition = disposition
      /\ a.receipts = b.receipts
  BY <1>1, <1>2 DEF Books
<1> HIDE DEF a
<1>4. InOrder(a)
  <2>1. \A f \in Frames : /\ a.receipts[f] = 1 <=> a.disposition[f] = "published"
                          /\ a.disposition[f] # "unresolved"
    BY <1>3 DEF InOrder, Transient
  <2>2. /\ \A f \in a.objects : a.disposition[f] = "pending"
        /\ \A f \in a.deferred : a.disposition[f] = "deferred"
    BY <1>1, <1>3, BookFields DEF InOrder
  <2>3. QED BY <1>3, <2>1, <2>2 DEF InOrder
<1>5. Keeps(b, a) /\ \A f \in Frames : a.disposition[f] \in {b.disposition[f], "quarantined"}
  BY <1>3 DEF Keeps, Terminal, Transient
<1>6. Aborted(b, r) = Quarantined(a, {r})
  BY DEF Aborted, a
<1>7. \A f \in b.leased : f \in Frames /\ a.disposition[f] \in Terminal
  BY <1>1, <1>3, BookFields DEF Outcomes, Terminal
<1>8. Keeps(a, Aborted(b, r)) /\ InOrder(Aborted(b, r))
  BY <1>4, <1>6, QuarantinedInOrder
<1>9. \A f \in b.leased : Aborted(b, r).disposition[f] \in Terminal
  BY <1>7, <1>8 DEF Keeps
<1>10. LET c == Aborted(b, r)
       IN /\ InOrder(c) /\ Keeps(b, c)
          /\ c.objects = b.objects \ Named({r}) /\ c.deferred = b.deferred \ Named({r})
          /\ c.leased = {}
          /\ \A f \in Frames : c.disposition[f] \in {b.disposition[f], "quarantined"}
  BY <1>3, <1>4, <1>5, <1>6, QuarantinedInOrder DEF Keeps, Terminal
<1>11. QED BY <1>9, <1>10

------------------------------------------------------------------------------
(* The application. *)

Records == UNION {x.records : x \in Files}
Apps == [open : Nat, delivered : [Frames -> Nat], within : [Frames -> Nat],
         reached : SUBSET Records, threw : BOOLEAN]

(* What one more call for frame f changes. *)
Hears(a, c, f) ==
  /\ c \in Apps
  /\ c.delivered[f] = a.delivered[f] + 1
  /\ \A g \in Frames \ {f} : c.delivered[g] = a.delivered[g]

LEMMA HandedHears ==
  ASSUME NEW a \in Apps, NEW f \in Frames
  PROVE  /\ Hears(a, Handed(a, f), f)
         /\ Handed(a, f).open = a.open /\ Handed(a, f).threw = a.threw
<1> DEFINE c == Handed(a, f)
<1>1. c = [a EXCEPT !.delivered[f] = @ + 1, !.within[f] = a.open]
  BY DEF Handed
<1> HIDE DEF c
<1>2. a.delivered[f] + 1 \in Nat /\ a.open \in Nat
  BY DEF Apps
<1>3. /\ c \in Apps /\ c.delivered = [a.delivered EXCEPT ![f] = @ + 1]
      /\ c.open = a.open /\ c.threw = a.threw
  BY <1>1, <1>2 DEF Apps
<1>4. a.delivered \in [Frames -> Nat]
  BY DEF Apps
<1>5. Hears(a, c, f)
  BY <1>3, <1>4 DEF Hears
<1>6. QED BY <1>3, <1>5 DEF c

LEMMA ThrewKeeps ==
  ASSUME NEW a \in Apps
  PROVE  /\ Threw(a) \in Apps /\ Threw(a).delivered = a.delivered
         /\ Threw(a).open = a.open /\ Threw(a).threw = TRUE
BY DEF Apps, Threw

LEMMA OpenKeeps ==
  ASSUME NEW a \in Apps, NEW x \in Nat
  PROVE  LET c == [a EXCEPT !.open = x]
         IN c \in Apps /\ c.delivered = a.delivered /\ c.open = x /\ c.threw = a.threw
BY DEF Apps

LEMMA ReachedKeeps ==
  ASSUME NEW a \in Apps, NEW x \in SUBSET Records
  PROVE  LET c == [a EXCEPT !.reached = x]
         IN c \in Apps /\ c.delivered = a.delivered /\ c.open = a.open /\ c.threw = a.threw
BY DEF Apps

LEMMA ToldHears ==
  ASSUME NEW a \in Apps, NEW f \in Frames, NEW at
  PROVE  /\ Hears(a, Told(a, f, at), f)
         /\ Told(a, f, at).open = a.open
<1>1. /\ Hears(a, Handed(a, f), f) /\ Handed(a, f).open = a.open
  BY HandedHears
<1>2. /\ Threw(Handed(a, f)).delivered = Handed(a, f).delivered
      /\ Threw(Handed(a, f)) \in Apps /\ Threw(Handed(a, f)).open = Handed(a, f).open
  BY <1>1, ThrewKeeps DEF Hears
<1>3. Told(a, f, at) \in {Handed(a, f), Threw(Handed(a, f))}
  BY DEF Told
<1>4. QED BY <1>1, <1>2, <1>3 DEF Hears

------------------------------------------------------------------------------
(* The state of a read. *)

Phases == {"structure", "claims", "blocks", "entities", "objects", "finish", "done"}

InBooks == IF phase = "done" THEN book.alarm = FALSE ELSE InOrder(book)

(* A frame is handed over once, and published only then. *)
Once(b, a) == \A f \in Frames : /\ a.delivered[f] \in {0, 1}
                                /\ b.disposition[f] = "published" => a.delivered[f] = 1

(* A frame in a map was not handed over, unless it delimits the block that  *)
(* is open.                                                                 *)
Delimiters(r) == {r.block, r.endBlock}
Fresh(b, a, D) == \A f \in b.objects \cup b.deferred : a.delivered[f] = 0 \/ f \in D

Distinct(r) == \A i, j \in DOMAIN Claims(r) : Claims(r)[i] = Claims(r)[j] => i = j
PendingOK == \A r \in pending : r \in file.records /\ Distinct(r)

(* A block of the chained layouts; endBlock has been called after "close".  *)
Closed(s) == s.step = "commit" \/ (s.step = "walk" /\ s.record.space)
Walking(s, a) ==
  /\ s = [record |-> s.record, step |-> s.step, link |-> s.link,
          visited |-> s.visited, walked |-> s.walked]
  /\ s.step \in {"walk", "close", "commit"} /\ s.record \in file.records
  /\ Delimiters(s.record) \subseteq Frames
  /\ file.kind[s.record.block] = "block" /\ file.kind[s.record.endBlock] = "endblk"
  /\ a.delivered[s.record.block] = 1
  /\ a.delivered[s.record.endBlock] = IF Closed(s) THEN 1 ELSE 0
  /\ Closed(s) => a.open = 0

(* A block of the later layouts: what was journalled, and what is replayed.  *)
Tell == {"addBlock", "endBlock", "value"}
Answer == {"receipt", "complete"}
CallsOK(q) ==
  /\ q \in Seq([what : Tell \cup Answer, frame : Frames])
  /\ \A i, j \in 1..Len(q) :
        /\ q[i].frame = q[j].frame
        /\ q[i].what \in Tell <=> q[j].what \in Tell
        => i = j
  /\ \A i \in 1..Len(q) : q[i].what \in Answer =>
        \E j \in 1..(i - 1) : q[j].what \in Tell /\ q[j].frame = q[i].frame
  /\ \A i \in 1..Len(q) : q[i].what = "addBlock" => i = 1
ClosesFirst(q) ==
  /\ \E i \in 2..Len(q) : q[i].what = "endBlock"
  /\ \A i, j \in 1..Len(q) : q[i].what = "endBlock" /\ q[j].what = "complete" => i < j
Ahead(q, from, b, a) ==
  \A i \in from..Len(q) : /\ q[i].frame \in b.leased
                          /\ b.disposition[q[i].frame] = "staged"
                          /\ q[i].what \in Tell => a.delivered[q[i].frame] = 0
Behind(q, upto, a) ==
  \A i \in 1..(upto - 1) : q[i].what \in Tell => a.delivered[q[i].frame] = 1

Journalling(s, b, a) ==
  /\ s = [record |-> s.record, step |-> "journal", at |-> s.at, calls |-> s.calls]
  /\ s.at \in Nat \ {0} /\ s.record \in file.records
  /\ \A f \in Delimiters(s.record) : /\ f \in b.leased /\ b.disposition[f] = "staged"
                                     /\ a.delivered[f] = 0
  /\ \A i \in s.at..Len(s.record.entMap) : s.record.entMap[i] \in b.objects
  /\ \A i, j \in s.at..Len(s.record.entMap) :
        s.record.entMap[i] = s.record.entMap[j] => i = j
  /\ CallsOK(s.calls) /\ Ahead(s.calls, 1, b, a)
  /\ Len(s.calls) >= 1 /\ s.calls[1] = Call("addBlock", s.record.block)
  /\ s.record.space => Len(s.calls) >= 2 /\ s.calls[2] = Call("endBlock", s.record.endBlock)
  /\ \A i \in 1..Len(s.calls) :
        /\ s.calls[i].what # "complete"
        /\ s.calls[i].what \in Answer => s.calls[i].frame \notin Delimiters(s.record)
        /\ ~s.record.space => s.calls[i].frame # s.record.endBlock
  /\ a.open = 0 \/ a.threw

Replaying(s, b, a) ==
  /\ s = [record |-> s.record, step |-> "replay", at |-> s.at, calls |-> s.calls]
  /\ s.at \in Nat \ {0} /\ s.record \in file.records
  /\ CallsOK(s.calls) /\ Ahead(s.calls, s.at, b, a) /\ Behind(s.calls, s.at, a)
  /\ ClosesFirst(s.calls)
  /\ \/ a.open = 0 \/ a.threw
     \/ \E i \in s.at..Len(s.calls) : s.calls[i].what = "endBlock"

Exempt(s) == IF Chained /\ s.step # "none" THEN Delimiters(s.record) ELSE {}

NoBlockOpen(a) == a.open = 0 \/ (a.threw /\ ~Chained)
ScopeOK(s, b, a) ==
  \/ s = NoScope /\ NoBlockOpen(a)
  \/ phase = "blocks" /\ Chained /\ Walking(s, a)
  \/ phase = "blocks" /\ ~Chained /\ Journalling(s, b, a)
  \/ phase = "blocks" /\ ~Chained /\ Replaying(s, b, a)

CoreInv ==
  /\ file \in Files /\ phase \in Phases /\ app \in Apps /\ InBooks /\ PendingOK
  /\ phase = "structure" => book = NewBook /\ app = NewApp /\ scope = NoScope
  /\ Once(book, app)
  /\ phase # "done" => Fresh(book, app, Exempt(scope))
  /\ ScopeOK(scope, book, app)
  /\ phase # "done" => status \in {"notAvailable", "inProgress"}

LEMMA GoodIsNoDelimiter ==
  ASSUME NEW f, NEW r, Verdict(f, r) = "good"
  PROVE  file.kind[f] \notin {"block", "endblk"}
BY DEF Verdict

LEMMA NamedDelimiters == ASSUME NEW r PROVE Delimiters(r) \subseteq Named({r})
BY DEF Delimiters, Named

(* Giving frames up, or moving them between the maps, hands nothing over. *)
LEMMA GivenUp ==
  ASSUME NEW b, NEW c, NEW a, NEW D, Once(b, a), Fresh(b, a, D),
         c.objects \cup c.deferred \subseteq b.objects \cup b.deferred,
         \A f \in Frames : c.disposition[f] = "published" => b.disposition[f] = "published"
  PROVE  Once(c, a) /\ Fresh(c, a, D)
BY DEF Once, Fresh

(* What was handed over since, and is named by what is given up, is not     *)
(* found in the maps again.                                                 *)
LEMMA GivenUpWhole ==
  ASSUME NEW b, InOrder(b), NEW a, NEW r, Once(b, a), Fresh(b, a, Delimiters(r)),
         NEW c, c = Quarantined(b, {r}) \/ c = Aborted(b, r)
  PROVE  /\ InOrder(c) /\ Once(c, a) /\ Fresh(c, a, {}) /\ Keeps(b, c)
         /\ c.objects \cup c.deferred \subseteq b.objects \cup b.deferred
<1>1. /\ InOrder(c) /\ Keeps(b, c)
      /\ c.objects = b.objects \ Named({r}) /\ c.deferred = b.deferred \ Named({r})
      /\ \A f \in Frames : c.disposition[f] \in {b.disposition[f], "quarantined"}
  <2>1. CASE c = Quarantined(b, {r})
    BY <2>1, QuarantinedInOrder
  <2>2. CASE c = Aborted(b, r)
    BY <2>2, AbortedInOrder
  <2>3. QED BY <2>1, <2>2
<1>2. Once(c, a)
  BY <1>1 DEF Once
<1>3. Fresh(c, a, {})
  BY <1>1, NamedDelimiters DEF Fresh
<1>4. QED BY <1>1, <1>2, <1>3

(* Frame f leaves its map and is handed over, or is lost. *)
LEMMA SettledOnce ==
  ASSUME NEW b, InOrder(b), NEW c, NEW a \in Apps, NEW e, NEW D, NEW f \in b.objects \cup b.deferred,
         Settled(b, c, f), Once(b, a), Fresh(b, a, D),
         \/ Hears(a, e, f) /\ f \notin D
         \/ e = a /\ c.disposition[f] = "failed"
  PROVE  Once(c, e) /\ Fresh(c, e, D)
<1>1. b.objects \cup b.deferred \subseteq Frames
  BY BookFields DEF InOrder
<1>2. CASE Hears(a, e, f) /\ f \notin D
  <2>1. a.delivered[f] = 0 /\ e.delivered[f] = 1
    BY <1>2 DEF Fresh, Hears
  <2>2. \A g \in Frames \ {f} : /\ e.delivered[g] = a.delivered[g]
                                /\ c.disposition[g] = b.disposition[g]
    BY <1>2 DEF Hears, Settled, Spares
  <2>3. QED BY <1>1, <2>1, <2>2 DEF Once, Fresh, Settled
<1>3. CASE e = a /\ c.disposition[f] = "failed"
  <2>1. \A g \in Frames \ {f} : c.disposition[g] = b.disposition[g]
    BY DEF Settled, Spares
  <2>2. QED BY <1>1, <1>3, <2>1 DEF Once, Fresh, Settled
<1>4. QED BY <1>2, <1>3

------------------------------------------------------------------------------
(* The phases. *)

LEMMA BetweenBlocks ==
  ASSUME scope = NoScope
  PROVE  Exempt(scope) = {} /\ scope.step = "none"
BY DEF Exempt, NoScope

LEMMA OutsideBlocks ==
  ASSUME CoreInv, phase # "blocks" \/ scope = NoScope
  PROVE  scope = NoScope /\ NoBlockOpen(app)
<1>1. CASE phase # "blocks"
  BY <1>1 DEF CoreInv, ScopeOK
<1>2. CASE scope = NoScope
  <2>1. scope.step = "none"
    BY <1>2 DEF NoScope
  <2>2. ~Walking(scope, app) /\ ~Journalling(scope, book, app) /\ ~Replaying(scope, book, app)
    <3>1. ~Walking(scope, app)
      BY <2>1 DEF Walking
    <3>2. ~Journalling(scope, book, app)
      <4>1. ASSUME Journalling(scope, book, app) PROVE scope.step = "journal"
        BY <4>1 DEF Journalling
      <4>2. QED BY <2>1, <4>1
    <3>3. ~Replaying(scope, book, app)
      <4>1. ASSUME Replaying(scope, book, app) PROVE scope.step = "replay"
        BY <4>1 DEF Replaying
      <4>2. QED BY <2>1, <4>1
    <3>4. QED BY <3>1, <3>2, <3>3
  <2>3. QED BY <1>2, <2>2 DEF CoreInv, ScopeOK
<1>3. QED BY <1>1, <1>2

(* The ledger at the start. *)
LEMMA NewBookFits ==
  /\ NewBook \in Books
  /\ NewBook.objects = {} /\ NewBook.deferred = {} /\ NewBook.leased = {}
  /\ NewBook.alarm = FALSE
  /\ \A f \in Frames : NewBook.disposition[f] = "pending" /\ NewBook.receipts[f] = 0
BY DEF NewBook, Books, Outcomes, Transient

LEMMA NewBookInOrder ==
  ASSUME NEW b \in Books, b.deferred = {}, b.leased = {}, b.alarm = FALSE,
         \A f \in Frames : b.disposition[f] = "pending" /\ b.receipts[f] = 0
  PROVE  InOrder(b)
BY BookFields DEF InOrder

LEMMA NewAppFits == NewApp \in Apps /\ \A f \in Frames : NewApp.delivered[f] = 0
BY DEF NewApp, Apps

LEMMA NewBookOnce ==
  ASSUME NEW b \in Books, \A f \in Frames : b.disposition[f] = "pending"
  PROVE  Once(b, NewApp) /\ Fresh(b, NewApp, {})
BY NewAppFits, BookFields DEF Once, Fresh

LEMMA InitCore == ASSUME Init PROVE CoreInv
<1>1. InOrder(NewBook) /\ Once(NewBook, NewApp) /\ Fresh(NewBook, NewApp, {})
  BY NewBookFits, NewBookInOrder, NewBookOnce
<1>2. NewApp.open = 0
  BY DEF NewApp
<1>3. scope = NoScope /\ Exempt(scope) = {}
  BY BetweenBlocks DEF Init
<1>4. QED
  BY <1>1, <1>2, <1>3, NewAppFits
  DEF Init, CoreInv, Phases, InBooks, PendingOK, ScopeOK, NoBlockOpen

LEMMA StructureStep == ASSUME CoreInv, ReadStructure PROVE CoreInv' /\ Keeps(book, book')
<1>1. /\ book = NewBook /\ app = NewApp /\ scope = NoScope
      /\ UNCHANGED <<file, pending, sectionOk, scope, app>>
      /\ phase' \in {"claims", "finish"}
      /\ status' \in {"notAvailable", "inProgress"}
  BY DEF ReadStructure, CoreInv
<1>2. PICK S \in SUBSET Frames : book' = [NewBook EXCEPT !.objects = S]
  BY <1>1 DEF ReadStructure
<1>3. /\ InOrder(book') /\ Once(book', NewApp) /\ Fresh(book', NewApp, {})
      /\ \A f \in Frames : book'.disposition[f] = "pending"
  <2>1. /\ book' \in Books /\ book'.deferred = {} /\ book'.leased = {}
        /\ book'.alarm = FALSE
        /\ \A f \in Frames : book'.disposition[f] = "pending" /\ book'.receipts[f] = 0
    <3>1. NewBook \in Books /\ S \in SUBSET Frames
      BY NewBookFits
    <3>2. /\ book' \in Books /\ book'.objects = S /\ book'.deferred = NewBook.deferred
          /\ book'.leased = NewBook.leased /\ book'.alarm = NewBook.alarm
          /\ book'.disposition = NewBook.disposition
          /\ book'.receipts = NewBook.receipts
      BY ONLY <1>2, <3>1 DEF Books
    <3>3. QED BY <3>2, NewBookFits
  <2>2. InOrder(book')
    BY <2>1, NewBookInOrder
  <2>3. QED BY <2>1, <2>2, NewBookOnce
<1>4. PendingOK' /\ ScopeOK(scope, book, app)' /\ Exempt(scope)' = {}
  BY <1>1, BetweenBlocks, OutsideBlocks
  DEF CoreInv, PendingOK, Distinct, Claims, Chained, ScopeOK, NoBlockOpen, Exempt
<1>5. CoreInv'
  BY <1>1, <1>3, <1>4 DEF CoreInv, Phases, InBooks
<1>6. QED BY <1>1, <1>3, <1>5, NewBookFits DEF Keeps

(* The invariant after a step that leaves no block open. *)
LEMMA OutsideCore ==
  ASSUME CoreInv, phase # "done", file' = file, status' = status,
         phase' \in {"blocks", "entities", "objects", "finish"}, PendingOK',
         scope' = NoScope, NoBlockOpen(app'), app' \in Apps, InOrder(book'),
         Once(book', app'), Fresh(book', app', {})
  PROVE  CoreInv'
<1>1. Exempt(scope)' = {}
  BY BetweenBlocks DEF Exempt, NoScope
<1>2. ScopeOK(scope, book, app)'
  BY DEF ScopeOK, NoBlockOpen, Chained
<1>3. QED BY <1>1, <1>2 DEF CoreInv, Phases, InBooks

LEMMA PendingKept == ASSUME CoreInv, file' = file, pending' \subseteq pending PROVE PendingOK'
<1>1. PendingOK
  BY DEF CoreInv
<1>2. \A r : Distinct(r)' = Distinct(r)
  BY DEF Distinct, Claims, Chained
<1>3. QED BY <1>1, <1>2 DEF PendingOK

(* What CoreInv says between blocks. *)
LEMMA OutsideFacts ==
  ASSUME CoreInv, phase \notin {"structure", "done"}, phase # "blocks" \/ scope = NoScope
  PROVE  /\ scope = NoScope /\ NoBlockOpen(app) /\ app \in Apps /\ InOrder(book)
         /\ Once(book, app) /\ Fresh(book, app, {}) /\ PendingOK
<1>1. scope = NoScope /\ NoBlockOpen(app) /\ Exempt(scope) = {}
  BY OutsideBlocks, BetweenBlocks
<1>2. QED BY <1>1 DEF CoreInv, InBooks

LEMMA ClaimsStep == ASSUME CoreInv, CheckClaims PROVE CoreInv' /\ Keeps(book, book')
<1> DEFINE misclaimed == {r \in file.records : Misclaimed(r)}
<1>1. /\ phase = "claims" /\ phase' = "blocks" /\ pending' = file.records \ misclaimed
      /\ book' = Quarantined(book, misclaimed)
      /\ UNCHANGED <<file, error, scope, app, status>>
  BY DEF CheckClaims
<1>2. PendingOK'
  <2>1. ASSUME NEW r \in file.records, ~Misclaimed(r) PROVE Distinct(r)
    BY <2>1 DEF Misclaimed, Distinct
  <2>2. \A r : Distinct(r)' = Distinct(r)
    BY <1>1 DEF Distinct, Claims, Chained
  <2>3. QED BY <1>1, <2>1, <2>2 DEF PendingOK
<1> HIDE DEF misclaimed
<1>3. /\ scope = NoScope /\ NoBlockOpen(app) /\ app \in Apps /\ InOrder(book)
      /\ Once(book, app) /\ Fresh(book, app, {})
  BY <1>1, OutsideFacts
<1>4. /\ InOrder(book') /\ Keeps(book, book')
      /\ book'.objects \cup book'.deferred \subseteq book.objects \cup book.deferred
      /\ \A f \in Frames : book'.disposition[f] \in {book.disposition[f], "quarantined"}
  BY <1>1, <1>3, QuarantinedInOrder
<1>5. Once(book', app') /\ Fresh(book', app', {})
  BY <1>1, <1>3, <1>4, GivenUp
<1>6. NoBlockOpen(app')
  BY <1>1, <1>3
<1>7. CoreInv'
  BY <1>1, <1>2, <1>3, <1>4, <1>5, <1>6, OutsideCore
<1>8. QED BY <1>4, <1>7

LEMMA RefuseStep == ASSUME CoreInv, RefuseRecord PROVE CoreInv' /\ Keeps(book, book')
<1>1. PICK r \in pending : pending' = pending \ {r} /\ book' = Quarantined(book, {r})
  BY DEF RefuseRecord
<1>2. phase = "blocks" /\ scope = NoScope /\ UNCHANGED <<file, phase, error, scope, app, status>>
  BY DEF RefuseRecord, ReadingBlocks
<1>3. /\ NoBlockOpen(app) /\ app \in Apps /\ InOrder(book)
      /\ Once(book, app) /\ Fresh(book, app, {})
  BY <1>2, OutsideFacts
<1>4. /\ InOrder(book') /\ Keeps(book, book')
      /\ book'.objects \cup book'.deferred \subseteq book.objects \cup book.deferred
      /\ \A f \in Frames : book'.disposition[f] \in {book.disposition[f], "quarantined"}
  BY <1>1, <1>3, QuarantinedInOrder
<1>5. Once(book', app') /\ Fresh(book', app', {})
  BY <1>2, <1>3, <1>4, GivenUp
<1>6. NoBlockOpen(app') /\ PendingOK'
  BY <1>1, <1>2, <1>3, PendingKept
<1>7. CoreInv'
  BY <1>2, <1>3, <1>4, <1>5, <1>6, OutsideCore
<1>8. QED BY <1>4, <1>7

(* The ends of the three phases that read frames. *)
LEMMA EndStep ==
  ASSUME CoreInv, EndBlocks \/ EndEntities \/ EndObjects
  PROVE  CoreInv' /\ Keeps(book, book')
<1>1. /\ phase \in {"blocks", "entities", "objects"}
      /\ phase # "blocks" \/ scope = NoScope
      /\ phase' \in {"entities", "objects", "finish"}
      /\ UNCHANGED <<file, book, pending, scope, status>>
      /\ app' = app \/ app' = Threw(app)
  BY DEF EndBlocks, EndEntities, EndObjects, PhaseEnds, ReadingBlocks
<1>2. /\ scope = NoScope /\ NoBlockOpen(app) /\ app \in Apps /\ InOrder(book)
      /\ Once(book, app) /\ Fresh(book, app, {})
  BY <1>1, OutsideFacts
<1>3. /\ app' \in Apps /\ app'.delivered = app.delivered /\ app'.open = app.open
      /\ app'.threw = app.threw \/ app'.threw = TRUE
  BY <1>1, <1>2, ThrewKeeps
<1>4. NoBlockOpen(app') /\ Once(book', app') /\ Fresh(book', app', {})
  BY <1>1, <1>2, <1>3 DEF NoBlockOpen, Once, Fresh
<1>5. CoreInv'
  <2>1. phase # "done" /\ PendingOK' /\ scope' = NoScope /\ InOrder(book')
    BY <1>1, <1>2, PendingKept
  <2>2. phase' \in {"blocks", "entities", "objects", "finish"}
    BY <1>1
  <2>3. QED BY <1>1, <1>3, <1>4, <2>1, <2>2, OutsideCore
<1>6. QED BY <1>1, <1>5 DEF Keeps

(* The sweep takes the frames in the order of the file. *)
LEMMA LeastIn == ASSUME NEW S \in SUBSET Nat, S # {} PROVE Least(S) \in S
<1> DEFINE R == {ss \in Nat \X Nat : ss[1] < ss[2]}
<1>1. IsWellFoundedOn(R, Nat)
  BY NatLessThanWellFounded DEF OpToRel
<1>2. PICK x \in S : \A y \in S : <<y, x>> \notin R
  BY <1>1, WFMin, Zenon
<1>3. ASSUME NEW y \in S PROVE x <= y
  <2>1. <<y, x>> \in Nat \X Nat /\ <<y, x>>[1] = y /\ <<y, x>>[2] = x
    OBVIOUS
  <2>2. ~(y < x)
    BY <1>2, <2>1
  <2>3. QED BY <2>2
<1>4. QED BY <1>3 DEF Least

(* A frame taken from its map is delivered, put aside or lost. *)
LEMMA ReadOne ==
  ASSUME NEW b, InOrder(b), NEW a \in Apps, NEW D, Once(b, a), Fresh(b, a, D),
         NEW f \in b.objects \cup b.deferred, NEW at, NEW c, NEW e,
         \/ c = DeliveredNow(Detached(b, f), f, at) /\ e = Told(a, f, at) /\ f \notin D
         \/ c = Deferred(Detached(b, f), f) /\ f \in b.objects /\ e = a
         \/ c = Lost(Detached(b, f), f) /\ e = a
  PROVE  /\ InOrder(c) /\ Keeps(b, c) /\ Once(c, e) /\ Fresh(c, e, D)
         /\ e \in Apps /\ e.open = a.open
<1>1. f \in Frames
  BY DetachedInOrder
<1>2. CASE c = DeliveredNow(Detached(b, f), f, at) /\ e = Told(a, f, at) /\ f \notin D
  <2>1. Settled(b, c, f)
    BY <1>2, DeliveredIsSettled
  <2>2. Hears(a, e, f) /\ e.open = a.open
    BY <1>1, <1>2, ToldHears
  <2>3. Once(c, e) /\ Fresh(c, e, D)
    BY <1>2, <2>1, <2>2, SettledOnce
  <2>4. QED BY <2>1, <2>2, <2>3 DEF Settled, Hears
<1>3. CASE c = Lost(Detached(b, f), f) /\ e = a
  <2>1. Settled(b, c, f) /\ c.disposition[f] = "failed"
    BY <1>3, LostIsSettled
  <2>2. Once(c, e) /\ Fresh(c, e, D)
    BY <1>3, <2>1, SettledOnce
  <2>3. QED BY <1>3, <2>1, <2>2 DEF Settled
<1>4. CASE c = Deferred(Detached(b, f), f) /\ f \in b.objects /\ e = a
  <2>1. /\ InOrder(c) /\ Keeps(b, c) /\ Spares(b, c, f) /\ c.disposition[f] = "deferred"
        /\ c.objects = b.objects \ {f} /\ c.deferred = b.deferred \cup {f}
    BY <1>4, DeferredInOrder
  <2>2. /\ c.objects \cup c.deferred \subseteq b.objects \cup b.deferred
        /\ \A g \in Frames : c.disposition[g] = "published" => b.disposition[g] = "published"
    BY <2>1 DEF Spares
  <2>3. Once(c, e) /\ Fresh(c, e, D)
    BY <1>4, <2>2, GivenUp
  <2>4. QED BY <1>4, <2>1, <2>3
<1>5. QED BY <1>2, <1>3, <1>4

LEMMA ToldThrew ==
  ASSUME NEW a \in Apps, NEW f \in Frames, NEW at
  PROVE  Told(a, f, at).threw = a.threw \/ Told(a, f, at).threw = TRUE
<1>1. Handed(a, f) \in Apps /\ Handed(a, f).threw = a.threw
  BY HandedHears DEF Hears
<1>2. Threw(Handed(a, f)).threw = TRUE
  BY <1>1, ThrewKeeps
<1>3. QED BY <1>1, <1>2 DEF Told

LEMMA SweepStep == ASSUME CoreInv, SweepEntity PROVE CoreInv' /\ Keeps(book, book')
<1> DEFINE f == Least(book.objects)
           b == Detached(book, f)
<1>1. /\ phase = "entities" /\ book.objects # {}
      /\ UNCHANGED <<file, phase, error, pending, scope, status>>
  BY DEF SweepEntity
<1>2. PICK at \in {"no"} \cup Throwing :
        /\ book' = CASE Verdict(f, NoRecord) = "good" -> DeliveredNow(b, f, at)
                     [] Verdict(f, NoRecord) = "object" -> Deferred(b, f)
                     [] OTHER -> Lost(b, f)
        /\ app' = IF Verdict(f, NoRecord) = "good" THEN Told(app, f, at) ELSE app
  BY DEF SweepEntity
<1>3. /\ scope = NoScope /\ NoBlockOpen(app) /\ app \in Apps /\ InOrder(book)
      /\ Once(book, app) /\ Fresh(book, app, {})
  BY <1>1, OutsideFacts
<1>4. f \in book.objects /\ f \in Frames
  <2>1. book.objects \subseteq Frames
    BY <1>3, BookFields DEF InOrder
  <2>2. book.objects \in SUBSET Nat
    BY <2>1, FramesAssumption
  <2>3. QED BY <1>1, <2>1, <2>2, LeastIn
<1>5. \/ book' = DeliveredNow(b, f, at) /\ app' = Told(app, f, at)
      \/ book' = Deferred(b, f) /\ app' = app
      \/ book' = Lost(b, f) /\ app' = app
  <2>1. CASE Verdict(f, NoRecord) = "good"
    BY <1>2, <2>1
  <2>2. CASE Verdict(f, NoRecord) = "object"
    BY <1>2, <2>2
  <2>3. CASE Verdict(f, NoRecord) \notin {"good", "object"}
    BY <1>2, <2>3
  <2>4. QED BY <2>1, <2>2, <2>3
<1> HIDE DEF f
<1>6. /\ InOrder(book') /\ Keeps(book, book') /\ Once(book', app') /\ Fresh(book', app', {})
      /\ app' \in Apps /\ app'.open = app.open
  BY <1>3, <1>4, <1>5, ReadOne
<1>7. app'.threw = app.threw \/ app'.threw = TRUE
  BY <1>3, <1>4, <1>5, ToldThrew
<1>8. NoBlockOpen(app') /\ PendingOK'
  BY <1>1, <1>3, <1>6, <1>7, PendingKept DEF NoBlockOpen
<1>9. CoreInv'
  BY <1>1, <1>3, <1>6, <1>8, OutsideCore
<1>10. QED BY <1>6, <1>9

LEMMA ObjectStep == ASSUME CoreInv, ReadObject PROVE CoreInv' /\ Keeps(book, book')
<1>1. /\ phase = "objects" /\ UNCHANGED <<file, phase, error, pending, scope, status>>
  BY DEF ReadObject
<1>2. PICK f \in book.deferred, at \in {"no"} \cup Throwing :
        \/ book' = DeliveredNow(Detached(book, f), f, at) /\ app' = Told(app, f, at)
        \/ book' = Lost(Detached(book, f), f) /\ app' = app
  BY DEF ReadObject
<1>3. /\ scope = NoScope /\ NoBlockOpen(app) /\ app \in Apps /\ InOrder(book)
      /\ Once(book, app) /\ Fresh(book, app, {})
  BY <1>1, OutsideFacts
<1>4. f \in Frames
  BY <1>3, BookFields DEF InOrder
<1>5. /\ InOrder(book') /\ Keeps(book, book') /\ Once(book', app') /\ Fresh(book', app', {})
      /\ app' \in Apps /\ app'.open = app.open
  BY <1>2, <1>3, ReadOne
<1>6. app'.threw = app.threw \/ app'.threw = TRUE
  BY <1>2, <1>3, <1>4, ToldThrew
<1>7. NoBlockOpen(app') /\ PendingOK'
  BY <1>1, <1>3, <1>5, <1>6, PendingKept DEF NoBlockOpen
<1>8. CoreInv'
  BY <1>1, <1>3, <1>5, <1>7, OutsideCore
<1>9. QED BY <1>5, <1>8

------------------------------------------------------------------------------
(* The blocks of the chained layouts. *)

LEMMA ChainedFacts ==
  ASSUME CoreInv, scope.step \in {"walk", "close", "commit"}
  PROVE  /\ phase = "blocks" /\ Chained /\ Walking(scope, app) /\ app \in Apps
         /\ InOrder(book) /\ Once(book, app) /\ Fresh(book, app, Delimiters(scope.record))
<1>1. scope # NoScope
  BY DEF NoScope
<1>2. ~Journalling(scope, book, app)
  <2>1. ASSUME Journalling(scope, book, app) PROVE scope.step = "journal"
    BY <2>1 DEF Journalling
  <2>2. QED BY <2>1
<1>3. ~Replaying(scope, book, app)
  <2>1. ASSUME Replaying(scope, book, app) PROVE scope.step = "replay"
    BY <2>1 DEF Replaying
  <2>2. QED BY <2>1
<1>4. phase = "blocks" /\ Chained /\ Walking(scope, app)
  BY <1>1, <1>2, <1>3 DEF CoreInv, ScopeOK
<1>5. Exempt(scope) = Delimiters(scope.record)
  BY <1>4 DEF Exempt
<1>6. QED BY <1>4, <1>5 DEF CoreInv, InBooks

LEMMA ChainedCore ==
  ASSUME CoreInv, phase = "blocks", Chained, UNCHANGED <<file, phase, status>>, PendingOK',
         Walking(scope, app)', app' \in Apps, InOrder(book'), Once(book', app'),
         Fresh(book', app', Delimiters(scope'.record))
  PROVE  CoreInv'
<1>1. Exempt(scope)' = Delimiters(scope'.record)
  BY DEF Exempt, Chained, Walking
<1>2. ScopeOK(scope, book, app)'
  BY DEF ScopeOK, Chained
<1>3. QED BY <1>1, <1>2 DEF CoreInv, Phases, InBooks

LEMMA BlockFails ==
  ASSUME CoreInv, phase = "blocks", UNCHANGED <<file, phase, status>>,
         NEW b, InOrder(b), NEW a \in Apps, Once(b, a),
         Fresh(b, a, Delimiters(scope.record)), NoBlockOpen(a), Keeps(book, b),
         ScopeFails(b, a)
  PROVE  CoreInv' /\ Keeps(book, book')
<1>1. /\ scope' = NoScope /\ pending' \subseteq pending /\ app' = a
      /\ book' = Aborted(b, scope.record)
  BY DEF ScopeFails, ScopeEnds
<1>2. /\ InOrder(book') /\ Once(book', app') /\ Fresh(book', app', {}) /\ Keeps(b, book')
  BY <1>1, GivenUpWhole
<1>3. Keeps(book, book')
  BY <1>2 DEF Keeps
<1>4. CoreInv'
  <2>1. phase # "done" /\ PendingOK' /\ NoBlockOpen(app') /\ app' \in Apps
    BY <1>1, PendingKept
  <2>2. phase' \in {"blocks", "entities", "objects", "finish"}
    OBVIOUS
  <2>3. QED BY <1>1, <1>2, <2>1, <2>2, OutsideCore
<1>5. QED BY <1>3, <1>4

LEMMA OpenStep == ASSUME CoreInv, OpenBlock PROVE CoreInv' /\ Keeps(book, book')
<1>1. /\ phase = "blocks" /\ scope = NoScope /\ Chained
      /\ UNCHANGED <<file, phase, error, status>>
  BY DEF OpenBlock, ReadingBlocks
<1>2. PICK r \in pending :
        /\ Sound(r)
        /\ \/ /\ scope' = [record |-> r, step |-> IF r.space THEN "close" ELSE "walk",
                           link |-> r.first, visited |-> {}, walked |-> TRUE]
              /\ app' = [Handed(app, r.block) EXCEPT !.open = r.handle]
              /\ UNCHANGED <<book, pending, sectionOk>>
           \/ /\ app' = Threw(Handed(app, r.block))
              /\ book' = Quarantined(book, {r})
              /\ pending' = pending \ {r}
              /\ UNCHANGED scope
  BY DEF OpenBlock
<1>3. /\ NoBlockOpen(app) /\ app \in Apps /\ InOrder(book) /\ Once(book, app)
      /\ Fresh(book, app, {}) /\ PendingOK
  BY <1>1, OutsideFacts
<1>4. /\ Delimiters(r) \subseteq book.objects /\ Delimiters(r) \subseteq Frames
      /\ file.kind[r.block] = "block" /\ file.kind[r.endBlock] = "endblk"
      /\ r.block # r.endBlock
  BY <1>2, <1>3, BookFields DEF Sound, Delimits, Delimiters, InOrder
<1>5. /\ app.delivered[r.block] = 0 /\ app.delivered[r.endBlock] = 0
      /\ r.block \in Frames /\ book.disposition[r.block] = "pending"
  BY <1>3, <1>4 DEF Fresh, Delimiters, InOrder
<1> DEFINE h == Handed(app, r.block)
<1>6. /\ h \in Apps /\ h.open = app.open /\ h.threw = app.threw
      /\ h.delivered[r.block] = 1 /\ h.delivered[r.endBlock] = 0
      /\ \A g \in Frames \ {r.block} : h.delivered[g] = app.delivered[g]
  BY <1>3, <1>4, <1>5, HandedHears DEF Hears, Delimiters
<1> HIDE DEF h
<1>7. Once(book, h) /\ Fresh(book, h, Delimiters(r))
  <2>1. book.objects \cup book.deferred \subseteq Frames
    BY <1>3, BookFields DEF InOrder
  <2>2. QED BY <1>3, <1>5, <1>6, <2>1 DEF Once, Fresh, Delimiters
<1>8. CASE /\ scope' = [record |-> r, step |-> IF r.space THEN "close" ELSE "walk",
                        link |-> r.first, visited |-> {}, walked |-> TRUE]
           /\ app' = [h EXCEPT !.open = r.handle]
           /\ UNCHANGED <<book, pending, sectionOk>>
  <2>1. r \in file.records /\ r.handle \in Nat /\ file \in Files
    BY <1>3, FilesAssumption DEF PendingOK, CoreInv
  <2>2. app' \in Apps /\ app'.delivered = h.delivered
    BY <1>6, <1>8, <2>1, OpenKeeps
  <2>3. scope'.record = r /\ scope'.step \in {"walk", "close"} /\ ~Closed(scope')
    BY <1>8 DEF Closed
  <2>4. scope' = [record |-> scope'.record, step |-> scope'.step, link |-> scope'.link,
                  visited |-> scope'.visited, walked |-> scope'.walked]
    BY <1>8
  <2>5. Walking(scope, app)'
    BY <1>1, <1>4, <1>6, <2>1, <2>2, <2>3, <2>4 DEF Walking
  <2>6. Once(book', app') /\ Fresh(book', app', Delimiters(scope'.record)) /\ InOrder(book')
    BY <1>3, <1>7, <1>8, <2>2, <2>3 DEF Once, Fresh
  <2>7. PendingOK'
    BY <1>1, <1>8, PendingKept
  <2>8. CoreInv'
    BY <1>1, <2>2, <2>5, <2>6, <2>7, ChainedCore
  <2>9. QED BY <1>8, <2>8 DEF Keeps
<1>9. CASE /\ app' = Threw(h)
           /\ book' = Quarantined(book, {r})
           /\ pending' = pending \ {r}
           /\ UNCHANGED scope
  <2>1. app' \in Apps /\ app'.delivered = h.delivered /\ app'.open = app.open /\ app'.threw
    BY <1>6, <1>9, ThrewKeeps
  <2>2. Once(book, app') /\ Fresh(book, app', Delimiters(r))
    BY <1>7, <2>1 DEF Once, Fresh
  <2>3. /\ InOrder(book') /\ Once(book', app') /\ Fresh(book', app', {})
        /\ Keeps(book, book')
    BY <1>3, <1>9, <2>2, GivenUpWhole
  <2>4. NoBlockOpen(app') /\ PendingOK' /\ scope' = NoScope
    BY <1>1, <1>3, <1>9, <2>1, PendingKept DEF NoBlockOpen
  <2>5. phase # "done" /\ phase' \in {"blocks", "entities", "objects", "finish"}
    BY <1>1
  <2>6. CoreInv'
    BY <1>1, <2>1, <2>3, <2>4, <2>5, OutsideCore
  <2>7. QED BY <2>3, <2>6
<1>10. QED BY <1>2, <1>8, <1>9 DEF h

LEMMA WalkStep == ASSUME CoreInv, WalkEntity PROVE CoreInv' /\ Keeps(book, book')
<1> DEFINE f == scope.link
           r == scope.record
           b == Detached(book, f)
           good == Verdict(f, r) = "good"
<1>1. /\ scope.step = "walk" /\ f \in book.objects
      /\ UNCHANGED <<file, phase, error, pending, sectionOk, status>>
  BY DEF WalkEntity
<1>2. PICK at \in {"no"} \cup Throwing :
        /\ book' = CASE good -> DeliveredNow(b, f, at)
                     [] Verdict(f, r) = "object" -> Deferred(b, f)
                     [] OTHER -> Lost(b, f)
        /\ app' = IF good THEN Told(app, f, at) ELSE app
        /\ scope' = [scope EXCEPT !.visited = @ \cup {f},
                       !.walked = @ /\ Verdict(f, r) # "structural" /\ at # "value",
                       !.link = Follow(f, good /\ at # "value", book'.objects)]
  BY DEF WalkEntity
<1>3. /\ phase = "blocks" /\ Chained /\ Walking(scope, app) /\ app \in Apps
      /\ InOrder(book) /\ Once(book, app) /\ Fresh(book, app, Delimiters(r))
  BY <1>1, ChainedFacts
<1>4. good => f \notin Delimiters(r)
  BY <1>3, GoodIsNoDelimiter DEF Walking, Delimiters
<1>5. \/ book' = DeliveredNow(b, f, at) /\ app' = Told(app, f, at) /\ f \notin Delimiters(r)
      \/ book' = Deferred(b, f) /\ f \in book.objects /\ app' = app
      \/ book' = Lost(b, f) /\ app' = app
  <2>1. CASE good
    BY <1>2, <1>4, <2>1
  <2>2. CASE Verdict(f, r) = "object"
    BY <1>1, <1>2, <2>2
  <2>3. CASE Verdict(f, r) \notin {"good", "object"}
    BY <1>2, <2>3
  <2>4. QED BY <2>1, <2>2, <2>3
<1>6. /\ InOrder(book') /\ Keeps(book, book') /\ Once(book', app')
      /\ Fresh(book', app', Delimiters(r)) /\ app' \in Apps /\ app'.open = app.open
  BY <1>1, <1>3, <1>5, ReadOne
<1>7. /\ scope' = [record |-> scope'.record, step |-> scope'.step, link |-> scope'.link,
                   visited |-> scope'.visited, walked |-> scope'.walked]
      /\ scope'.record = r /\ scope'.step = scope.step
  <2>1. scope = [record |-> scope.record, step |-> scope.step, link |-> scope.link,
                 visited |-> scope.visited, walked |-> scope.walked]
    BY <1>3 DEF Walking
  <2>2. QED BY <1>2, <2>1
<1>8. \A g \in Delimiters(r) : app'.delivered[g] = app.delivered[g]
  <2>1. CASE app' = app
    BY <2>1
  <2>2. CASE app' = Told(app, f, at) /\ f \notin Delimiters(r)
    <3>1. f \in Frames
      BY <1>1, <1>3, BookFields DEF InOrder
    <3>2. Hears(app, app', f)
      BY <1>3, <2>2, <3>1, ToldHears
    <3>3. Delimiters(r) \subseteq Frames
      BY <1>3 DEF Walking
    <3>4. QED BY <2>2, <3>2, <3>3 DEF Hears
  <2>3. QED BY <1>5, <2>1, <2>2
<1>9. Walking(scope, app)'
  <2>1. Closed(scope') = Closed(scope)
    BY <1>7 DEF Closed
  <2>2. /\ app'.delivered[r.block] = app.delivered[r.block]
        /\ app'.delivered[r.endBlock] = app.delivered[r.endBlock]
    BY <1>8 DEF Delimiters
  <2>3. QED BY <1>1, <1>3, <1>6, <1>7, <2>1, <2>2 DEF Walking
<1>10. PendingOK'
  BY <1>1, PendingKept
<1>11. CoreInv'
  BY <1>1, <1>3, <1>6, <1>7, <1>9, <1>10, ChainedCore
<1>12. QED BY <1>6, <1>11

(* The steps that only move on within the block. *)
LEMMA MovesOn ==
  ASSUME Walking(scope, app),
         NEW step \in {"walk", "close", "commit"}, NEW walked,
         scope' = [scope EXCEPT !.step = step, !.walked = walked]
  PROVE  /\ scope' = [record |-> scope'.record, step |-> scope'.step, link |-> scope'.link,
                      visited |-> scope'.visited, walked |-> scope'.walked]
         /\ scope'.record = scope.record /\ scope'.step = step
<1>1. scope = [record |-> scope.record, step |-> scope.step, link |-> scope.link,
               visited |-> scope.visited, walked |-> scope.walked]
  BY DEF Walking
<1>2. QED BY <1>1

LEMMA EndChainStep == ASSUME CoreInv, EndChain PROVE CoreInv' /\ Keeps(book, book')
<1> DEFINE step == IF scope.record.space THEN "commit" ELSE "close"
           walked == scope.walked /\ scope.link \notin scope.visited
<1>1. /\ scope.step = "walk"
      /\ scope' = [scope EXCEPT !.step = step, !.walked = walked]
      /\ UNCHANGED <<file, phase, error, book, pending, sectionOk, app, status>>
  BY DEF EndChain
<1>2. /\ phase = "blocks" /\ Chained /\ Walking(scope, app) /\ app \in Apps
      /\ InOrder(book) /\ Once(book, app) /\ Fresh(book, app, Delimiters(scope.record))
  BY <1>1, ChainedFacts
<1>3. step \in {"walk", "close", "commit"}
  OBVIOUS
<1> HIDE DEF walked
<1>5. /\ scope' = [record |-> scope'.record, step |-> scope'.step, link |-> scope'.link,
                   visited |-> scope'.visited, walked |-> scope'.walked]
      /\ scope'.record = scope.record /\ scope'.step = step
  BY <1>1, <1>2, <1>3, MovesOn
<1>6. Closed(scope') <=> Closed(scope)
  BY <1>1, <1>5 DEF Closed
<1>7. Walking(scope, app)'
  BY <1>1, <1>2, <1>3, <1>5, <1>6 DEF Walking
<1>8. PendingOK'
  BY <1>1, PendingKept
<1>9. CoreInv'
  BY <1>1, <1>2, <1>5, <1>7, <1>8, ChainedCore
<1>10. QED BY <1>1, <1>9 DEF Keeps

LEMMA CloseStep == ASSUME CoreInv, CloseBlock PROVE CoreInv' /\ Keeps(book, book')
<1> DEFINE r == scope.record
           h == Handed(app, r.endBlock)
           a == [h EXCEPT !.open = 0]
           step == IF r.space THEN "walk" ELSE "commit"
<1>1. /\ scope.step = "close"
      /\ UNCHANGED <<file, phase, error, status>>
      /\ \/ /\ app' = a
            /\ scope' = [scope EXCEPT !.step = step]
            /\ UNCHANGED <<book, pending, sectionOk>>
         \/ ScopeFails(book, Threw(a))
  BY DEF CloseBlock
<1>2. /\ phase = "blocks" /\ Chained /\ Walking(scope, app) /\ app \in Apps
      /\ InOrder(book) /\ Once(book, app) /\ Fresh(book, app, Delimiters(r))
  BY <1>1, ChainedFacts
<1>3. /\ r.block \in Frames /\ r.endBlock \in Frames /\ r.block # r.endBlock
      /\ app.delivered[r.block] = 1 /\ app.delivered[r.endBlock] = 0
  BY <1>1, <1>2 DEF Walking, Delimiters, Closed
<1>4. /\ h \in Apps /\ h.delivered[r.endBlock] = 1 /\ h.delivered[r.block] = 1
      /\ \A g \in Frames \ {r.endBlock} : h.delivered[g] = app.delivered[g]
  BY <1>2, <1>3, HandedHears DEF Hears
<1> HIDE DEF h
<1>5. a \in Apps /\ a.delivered = h.delivered /\ a.open = 0
  BY <1>4, OpenKeeps
<1>6. Once(book, a) /\ Fresh(book, a, Delimiters(r))
  <2>1. book.objects \cup book.deferred \subseteq Frames
    BY <1>2, BookFields DEF InOrder
  <2>2. \A g \in Frames : /\ book.disposition[g] = "published" => a.delivered[g] = 1
                          /\ a.delivered[g] \in {0, 1}
    BY <1>2, <1>4, <1>5 DEF Once
  <2>3. QED BY <1>2, <1>4, <1>5, <2>1, <2>2 DEF Once, Fresh, Delimiters
<1> HIDE DEF a
<1>7. CASE /\ app' = a
           /\ scope' = [scope EXCEPT !.step = step]
           /\ UNCHANGED <<book, pending, sectionOk>>
  <2>1. /\ scope' = [record |-> scope'.record, step |-> scope'.step, link |-> scope'.link,
                     visited |-> scope'.visited, walked |-> scope'.walked]
        /\ scope'.record = r /\ scope'.step = step
    <3>1. scope = [record |-> scope.record, step |-> scope.step, link |-> scope.link,
                   visited |-> scope.visited, walked |-> scope.walked]
      BY <1>2 DEF Walking
    <3>2. QED BY <1>7, <3>1
  <2>2. Closed(scope') /\ scope'.step \in {"walk", "close", "commit"}
    BY <2>1 DEF Closed
  <2>3. Walking(scope, app)'
    BY <1>1, <1>2, <1>4, <1>5, <1>7, <2>1, <2>2 DEF Walking
  <2>4. PendingOK'
    BY <1>1, <1>7, PendingKept
  <2>5. CoreInv'
    BY <1>1, <1>2, <1>5, <1>6, <1>7, <2>1, <2>3, <2>4, ChainedCore
  <2>6. QED BY <1>7, <2>5 DEF Keeps
<1>8. CASE ScopeFails(book, Threw(a))
  <2>1. Threw(a) \in Apps /\ Threw(a).delivered = a.delivered /\ Threw(a).open = 0
    BY <1>5, ThrewKeeps
  <2>2. /\ Once(book, Threw(a)) /\ Fresh(book, Threw(a), Delimiters(r))
        /\ NoBlockOpen(Threw(a)) /\ Keeps(book, book)
    BY <1>6, <2>1 DEF Once, Fresh, NoBlockOpen, Keeps
  <2>3. QED BY <1>1, <1>2, <1>8, <2>1, <2>2, BlockFails
<1>9. QED BY <1>1, <1>7, <1>8

(* A delimiter of a block that was told open and closed is settled. *)
LEMMA DelimiterMarked ==
  ASSUME NEW b, InOrder(b), NEW a, Once(b, a), NEW D, Fresh(b, a, D),
         NEW f \in Frames \ (b.objects \cup b.deferred), b.disposition[f] \in Transient,
         a.delivered[f] = 1, NEW fails \in BOOLEAN
  PROVE  LET c == Receipted(b, f, fails)
         IN /\ InOrder(c) /\ Keeps(b, c) /\ Once(c, a) /\ Fresh(c, a, D) /\ Spares(b, c, f)
            /\ c.objects = b.objects /\ c.deferred = b.deferred /\ c.leased = b.leased
<1> DEFINE to == IF fails THEN "failed" ELSE "published"
           c == Marked(b, f, to)
<1>1. Receipted(b, f, fails) = c
  BY ReceiptedIsMarked
<1>2. /\ InOrder(c) /\ c.objects = b.objects /\ c.deferred = b.deferred
      /\ c.leased = b.leased /\ Spares(b, c, f)
  <2>1. to \in {"staged", "published", "quarantined", "failed"} /\ to # "staged"
    OBVIOUS
  <2>2. QED BY <2>1, MarkedInOrder
<1> HIDE DEF c
<1>3. Keeps(b, c)
  BY <1>2 DEF Keeps, Spares, Transient, Terminal
<1>4. Once(c, a) /\ Fresh(c, a, D)
  BY <1>2 DEF Once, Fresh, Spares
<1>5. QED BY <1>1, <1>2, <1>3, <1>4

LEMMA TakenInOrder ==
  ASSUME NEW b, InOrder(b), NEW D \in SUBSET b.objects
  PROVE  LET c == [b EXCEPT !.objects = @ \ D]
         IN /\ InOrder(c) /\ c.disposition = b.disposition
            /\ c.objects = b.objects \ D /\ c.deferred = b.deferred
<1> DEFINE c == [b EXCEPT !.objects = @ \ D]
<1>1. b \in Books /\ b.objects \ D \in SUBSET Frames
  BY BookFields DEF InOrder
<1>2. /\ c \in Books /\ c.objects = b.objects \ D /\ c.deferred = b.deferred
      /\ c.leased = b.leased /\ c.alarm = b.alarm
      /\ c.disposition = b.disposition /\ c.receipts = b.receipts
  BY <1>1 DEF Books
<1> HIDE DEF c
<1>3. InOrder(c)
  BY <1>1, <1>2 DEF InOrder
<1>4. QED BY <1>2, <1>3 DEF c

LEMMA CommitStep == ASSUME CoreInv, CommitBlock PROVE CoreInv' /\ Keeps(book, book')
<1> DEFINE r == scope.record
           b == [book EXCEPT !.objects = @ \ {r.block, r.endBlock}]
           first == Receipted(b, r.block, FALSE)
           whole == scope.walked /\ {r.block, r.endBlock} \subseteq book.objects
<1>1. /\ scope.step = "commit"
      /\ UNCHANGED <<file, phase, error, status>>
      /\ \/ ScopeFails(book, app)
         \/ /\ whole
            /\ \/ /\ book' = Receipted(first, r.endBlock, FALSE)
                  /\ ScopeEnds
                  /\ UNCHANGED <<app, sectionOk>>
               \/ ScopeFails(Receipted(b, r.block, TRUE), Threw(app))
               \/ ScopeFails(Receipted(first, r.endBlock, TRUE), Threw(app))
  BY DEF CommitBlock
<1>2. /\ phase = "blocks" /\ Chained /\ Walking(scope, app) /\ app \in Apps
      /\ InOrder(book) /\ Once(book, app) /\ Fresh(book, app, Delimiters(r))
  BY <1>1, ChainedFacts
<1>3. /\ r.block \in Frames /\ r.endBlock \in Frames /\ r.block # r.endBlock
      /\ app.delivered[r.block] = 1 /\ app.delivered[r.endBlock] = 1 /\ app.open = 0
  BY <1>1, <1>2 DEF Walking, Delimiters, Closed
<1>4. NoBlockOpen(app)
  BY <1>3 DEF NoBlockOpen
<1>5. CASE ScopeFails(book, app)
  <2>1. Keeps(book, book)
    BY DEF Keeps
  <2>2. QED BY <1>1, <1>2, <1>4, <1>5, <2>1, BlockFails
<1>6. CASE /\ whole
           /\ \/ /\ book' = Receipted(first, r.endBlock, FALSE)
                 /\ ScopeEnds
                 /\ UNCHANGED <<app, sectionOk>>
              \/ ScopeFails(Receipted(b, r.block, TRUE), Threw(app))
              \/ ScopeFails(Receipted(first, r.endBlock, TRUE), Threw(app))
  <2>1. /\ InOrder(b) /\ b.disposition = book.disposition
        /\ b.objects = book.objects \ {r.block, r.endBlock} /\ b.deferred = book.deferred
    BY <1>2, <1>6, TakenInOrder
  <2>2. /\ r.block \notin book.deferred /\ r.endBlock \notin book.deferred
        /\ book.disposition[r.block] = "pending" /\ book.disposition[r.endBlock] = "pending"
    BY <1>2, <1>6 DEF InOrder
  <2> HIDE DEF b
  <2>3. /\ Once(b, app) /\ Fresh(b, app, Delimiters(r)) /\ Fresh(b, app, {})
        /\ Keeps(book, b)
    BY <1>2, <2>1, <2>2 DEF Once, Fresh, Keeps, Delimiters
  <2>4. /\ r.block \in Frames \ (b.objects \cup b.deferred)
        /\ r.endBlock \in Frames \ (b.objects \cup b.deferred)
        /\ b.disposition[r.block] \in Transient /\ b.disposition[r.endBlock] \in Transient
    BY <1>3, <2>1, <2>2 DEF Transient
  <2>5. /\ InOrder(first) /\ Keeps(b, first) /\ Once(first, app) /\ Spares(b, first, r.block)
        /\ Fresh(first, app, Delimiters(r)) /\ Fresh(first, app, {})
        /\ first.objects = b.objects /\ first.deferred = b.deferred
    <3>1. /\ InOrder(first) /\ Keeps(b, first) /\ Once(first, app)
          /\ Spares(b, first, r.block) /\ Fresh(first, app, {})
          /\ first.objects = b.objects /\ first.deferred = b.deferred
      <4>1. /\ InOrder(b) /\ Once(b, app) /\ Fresh(b, app, {}) /\ FALSE \in BOOLEAN
            /\ r.block \in Frames \ (b.objects \cup b.deferred)
            /\ b.disposition[r.block] \in Transient /\ app.delivered[r.block] = 1
        BY <1>3, <2>1, <2>3, <2>4
      <4>2. QED BY ONLY <4>1, DelimiterMarked
    <3>2. Fresh(first, app, Delimiters(r))
      BY <3>1 DEF Fresh
    <3>3. QED BY <3>1, <3>2
  <2> HIDE DEF first
  <2>6. /\ r.endBlock \in Frames \ (first.objects \cup first.deferred)
        /\ first.disposition[r.endBlock] \in Transient
    BY <1>3, <2>4, <2>5 DEF Spares
  <2>7. CASE /\ book' = Receipted(first, r.endBlock, FALSE)
             /\ ScopeEnds
             /\ UNCHANGED <<app, sectionOk>>
    <3>1. /\ InOrder(book') /\ Keeps(first, book') /\ Once(book', app)
          /\ Fresh(book', app, {})
      BY <1>3, <2>5, <2>6, <2>7, DelimiterMarked
    <3>2. Keeps(book, book')
      BY <2>3, <2>5, <3>1 DEF Keeps
    <3>3. scope' = NoScope /\ app' = app /\ pending' \subseteq pending
      BY <2>7 DEF ScopeEnds
    <3>4. phase # "done" /\ PendingOK' /\ phase' \in {"blocks", "entities", "objects", "finish"}
      BY <1>1, <1>2, <3>3, PendingKept
    <3>5. Once(book', app') /\ Fresh(book', app', {}) /\ NoBlockOpen(app') /\ app' \in Apps
      BY <1>2, <1>4, <3>1, <3>3
    <3>6. CoreInv'
      BY <1>1, <3>1, <3>3, <3>4, <3>5, OutsideCore
    <3>7. QED BY <3>2, <3>6
  <2>8. ASSUME NEW c, InOrder(c), Keeps(book, c), Once(c, app), Fresh(c, app, Delimiters(r)),
               ScopeFails(c, Threw(app))
        PROVE  CoreInv' /\ Keeps(book, book')
    <3>1. Threw(app) \in Apps /\ Threw(app).delivered = app.delivered /\ Threw(app).open = 0
      BY <1>2, <1>3, ThrewKeeps
    <3>2. /\ Once(c, Threw(app)) /\ Fresh(c, Threw(app), Delimiters(r))
          /\ NoBlockOpen(Threw(app))
      BY <2>8, <3>1 DEF Once, Fresh, NoBlockOpen
    <3>3. QED BY <1>1, <1>2, <2>8, <3>1, <3>2, BlockFails
  <2>9. CASE ScopeFails(Receipted(b, r.block, TRUE), Threw(app))
    <3>1. /\ InOrder(Receipted(b, r.block, TRUE)) /\ Keeps(b, Receipted(b, r.block, TRUE))
          /\ Once(Receipted(b, r.block, TRUE), app)
          /\ Fresh(Receipted(b, r.block, TRUE), app, Delimiters(r))
      BY <1>3, <2>1, <2>3, <2>4, DelimiterMarked
    <3>2. Keeps(book, Receipted(b, r.block, TRUE))
      BY <2>3, <3>1 DEF Keeps
    <3>3. QED BY <2>8, <2>9, <3>1, <3>2
  <2>10. CASE ScopeFails(Receipted(first, r.endBlock, TRUE), Threw(app))
    <3>1. /\ InOrder(Receipted(first, r.endBlock, TRUE))
          /\ Keeps(first, Receipted(first, r.endBlock, TRUE))
          /\ Once(Receipted(first, r.endBlock, TRUE), app)
          /\ Fresh(Receipted(first, r.endBlock, TRUE), app, Delimiters(r))
      BY <1>3, <2>5, <2>6, DelimiterMarked
    <3>2. Keeps(book, Receipted(first, r.endBlock, TRUE))
      BY <2>3, <2>5, <3>1 DEF Keeps
    <3>3. QED BY <2>8, <2>10, <3>1, <3>2
  <2>11. QED BY <1>6, <2>7, <2>9, <2>10
<1>7. QED BY <1>1, <1>5, <1>6

------------------------------------------------------------------------------
(* The blocks of the later layouts: the journal. *)

LEMMA CallAppended ==
  ASSUME NEW q, CallsOK(q), NEW c \in [what : Tell \cup Answer, frame : Frames],
         \A i \in 1..Len(q) : q[i].frame = c.frame
                                => ~(q[i].what \in Tell <=> c.what \in Tell),
         c.what \in Answer => \E j \in 1..Len(q) : q[j].what \in Tell /\ q[j].frame = c.frame,
         c.what = "addBlock" => Len(q) = 0
  PROVE  LET p == Append(q, c)
         IN /\ CallsOK(p) /\ Len(p) = Len(q) + 1 /\ p[Len(q) + 1] = c
            /\ \A i \in 1..Len(q) : p[i] = q[i]
<1> DEFINE p == Append(q, c)
           Kinds == [what : Tell \cup Answer, frame : Frames]
<1>1. q \in Seq(Kinds)
  BY DEF CallsOK
<1> HIDE DEF Kinds
<1>2. /\ p \in Seq(Kinds) /\ Len(p) = Len(q) + 1 /\ p[Len(q) + 1] = c
      /\ \A i \in 1..Len(q) : p[i] = q[i]
      /\ Len(q) \in Nat
  <2>1. c \in Kinds
    BY DEF Kinds
  <2>2. QED BY <1>1, <2>1
<1> HIDE DEF p
<1>3. \A i \in 1..Len(p) : \/ (i \in 1..Len(q) /\ p[i] = q[i])
                            \/ (i = Len(q) + 1 /\ p[i] = c)
  BY <1>2
<1>4. ASSUME NEW i \in 1..Len(p), NEW j \in 1..Len(p), p[i].frame = p[j].frame,
             p[i].what \in Tell <=> p[j].what \in Tell
      PROVE  i = j
  <2>1. CASE i \in 1..Len(q) /\ j \in 1..Len(q)
    BY <1>2, <1>4, <2>1 DEF CallsOK
  <2>2. CASE i = Len(q) + 1 /\ j = Len(q) + 1
    BY <2>2
  <2>3. CASE i \in 1..Len(q) /\ j = Len(q) + 1
    BY <1>2, <1>4, <2>3
  <2>4. CASE i = Len(q) + 1 /\ j \in 1..Len(q)
    BY <1>2, <1>4, <2>4
  <2>5. QED BY <1>3, <2>1, <2>2, <2>3, <2>4
<1>5. ASSUME NEW i \in 1..Len(p), p[i].what \in Answer
      PROVE  \E j \in 1..(i - 1) : p[j].what \in Tell /\ p[j].frame = p[i].frame
  <2>1. CASE i \in 1..Len(q)
    <3>1. PICK j \in 1..(i - 1) : q[j].what \in Tell /\ q[j].frame = q[i].frame
      BY <1>2, <1>5, <2>1 DEF CallsOK
    <3>2. QED BY <1>2, <2>1, <3>1
  <2>2. CASE i = Len(q) + 1
    BY <1>2, <1>5, <2>2
  <2>3. QED BY <1>3, <2>1, <2>2
<1>6. \A i \in 1..Len(p) : p[i].what = "addBlock" => i = 1
  BY <1>2, <1>3 DEF CallsOK
<1>7. CallsOK(p)
  BY <1>2, <1>4, <1>5, <1>6 DEF CallsOK, Kinds
<1>8. QED BY <1>2, <1>7 DEF p

LEMMA CallFits ==
  ASSUME NEW what \in Tell \cup Answer, NEW f \in Frames
  PROVE  /\ Call(what, f) \in [what : Tell \cup Answer, frame : Frames]
         /\ Call(what, f).what = what /\ Call(what, f).frame = f
BY DEF Call

LEMMA NoCalls == CallsOK(<<>>) /\ Len(<<>>) = 0
<1>1. <<>> \in Seq([what : Tell \cup Answer, frame : Frames]) /\ Len(<<>>) = 0
  OBVIOUS
<1>2. QED BY <1>1 DEF CallsOK

LEMMA AppendedPair ==
  ASSUME NEW S, NEW q \in Seq(S), NEW c \in S, NEW d \in S
  PROVE  /\ q \o <<c>> = Append(q, c)
         /\ q \o <<c, d>> = Append(Append(q, c), d)
         /\ q \o <<>> = q
<1>1. /\ Len(q \o <<c, d>>) = Len(q) + 2 /\ q \o <<c, d>> \in Seq(S)
      /\ Append(Append(q, c), d) \in Seq(S) /\ Len(Append(Append(q, c), d)) = Len(q) + 2
  OBVIOUS
<1>2. \A i \in 1..(Len(q) + 2) : (q \o <<c, d>>)[i] = Append(Append(q, c), d)[i]
  OBVIOUS
<1>3. q \o <<c, d>> = Append(Append(q, c), d)
  BY <1>1, <1>2, SeqEqual
<1>4. q \o <<c>> = Append(q, c)
  BY AppendIsConcat
<1>5. q \o <<>> = q
  BY ConcatEmptySeq
<1>6. QED BY <1>3, <1>4, <1>5

LEMMA JournalFacts ==
  ASSUME CoreInv, scope.step \in {"journal", "replay"}
  PROVE  /\ phase = "blocks" /\ ~Chained /\ app \in Apps
         /\ InOrder(book) /\ Once(book, app) /\ Fresh(book, app, {})
         /\ scope.step = "journal" => Journalling(scope, book, app)
         /\ scope.step = "replay" => Replaying(scope, book, app)
<1>1. scope # NoScope
  BY DEF NoScope
<1>2. ~Walking(scope, app)
  BY DEF Walking
<1>3. Journalling(scope, book, app) => scope.step = "journal"
  <2>1. ASSUME Journalling(scope, book, app) PROVE scope.step = "journal"
    BY <2>1 DEF Journalling
  <2>2. QED BY <2>1
<1>4. Replaying(scope, book, app) => scope.step = "replay"
  <2>1. ASSUME Replaying(scope, book, app) PROVE scope.step = "replay"
    BY <2>1 DEF Replaying
  <2>2. QED BY <2>1
<1>5. /\ phase = "blocks" /\ ~Chained
      /\ Journalling(scope, book, app) \/ Replaying(scope, book, app)
  BY <1>1, <1>2 DEF CoreInv, ScopeOK
<1>6. Exempt(scope) = {}
  BY <1>5 DEF Exempt
<1>7. QED BY <1>3, <1>4, <1>5, <1>6 DEF CoreInv, InBooks

LEMMA JournalCore ==
  ASSUME CoreInv, phase = "blocks", ~Chained, UNCHANGED <<file, phase, status>>, PendingOK',
         Journalling(scope, book, app)' \/ Replaying(scope, book, app)', app' \in Apps,
         InOrder(book'), Once(book', app'), Fresh(book', app', {})
  PROVE  CoreInv'
<1>1. Exempt(scope)' = {}
  BY DEF Exempt, Chained
<1>2. ScopeOK(scope, book, app)'
  BY DEF ScopeOK, Chained
<1>3. QED BY <1>1, <1>2 DEF CoreInv, Phases, InBooks

(* Both delimiters are staged. *)
LEMMA BothStaged ==
  ASSUME NEW b, InOrder(b), NEW f \in b.objects, NEW g \in b.objects, f # g
  PROVE  LET c == Marked(Marked(Detached(Detached(b, f), g), f, "staged"), g, "staged")
         IN /\ InOrder(c) /\ Keeps(b, c)
            /\ c.objects = b.objects \ {f, g} /\ c.deferred = b.deferred
            /\ f \in c.leased /\ g \in c.leased
            /\ c.disposition[f] = "staged" /\ c.disposition[g] = "staged"
            /\ \A h \in Frames \ {f, g} : c.disposition[h] = b.disposition[h]
<1> DEFINE d == Detached(b, f)
           e == Detached(d, g)
           m == Marked(e, f, "staged")
           c == Marked(m, g, "staged")
<1>1. /\ InOrder(d) /\ f \in Frames /\ d.disposition = b.disposition
      /\ d.objects = b.objects \ {f} /\ d.deferred = b.deferred \ {f}
      /\ d.leased = b.leased \cup {f}
  BY DetachedInOrder
<1>2. b.disposition[f] = "pending" /\ b.disposition[g] = "pending"
      /\ f \notin b.deferred /\ g \notin b.deferred
  BY DEF InOrder
<1> HIDE DEF d
<1>3. /\ InOrder(e) /\ g \in Frames /\ e.disposition = b.disposition
      /\ e.objects = b.objects \ {f, g} /\ e.deferred = b.deferred
      /\ f \in e.leased /\ g \in e.leased
  <2>1. g \in d.objects \cup d.deferred
    BY <1>1
  <2>2. /\ InOrder(e) /\ g \in Frames /\ e.disposition = d.disposition
        /\ e.objects = d.objects \ {g} /\ e.deferred = d.deferred \ {g}
        /\ e.leased = d.leased \cup {g}
    BY <1>1, <2>1, DetachedInOrder
  <2>3. QED BY <1>1, <1>2, <2>2
<1> HIDE DEF e
<1>4. /\ InOrder(m) /\ m.objects = e.objects /\ m.deferred = e.deferred
      /\ m.leased = e.leased /\ m.disposition[f] = "staged" /\ Spares(e, m, f)
  <2>1. /\ f \in Frames \ (e.objects \cup e.deferred) /\ e.disposition[f] \in Transient
        /\ "staged" \in {"staged", "published", "quarantined", "failed"}
        /\ e.disposition[f] = "pending"
    BY <1>1, <1>2, <1>3 DEF Transient
  <2>2. QED BY <1>3, <2>1, MarkedInOrder
<1> HIDE DEF m
<1>5. /\ InOrder(c) /\ c.objects = m.objects /\ c.deferred = m.deferred
      /\ c.leased = m.leased /\ c.disposition[g] = "staged" /\ Spares(m, c, g)
  <2>1. /\ g \in Frames \ (m.objects \cup m.deferred) /\ m.disposition[g] \in Transient
        /\ "staged" \in {"staged", "published", "quarantined", "failed"}
        /\ m.disposition[g] = "pending"
    BY <1>1, <1>2, <1>3, <1>4 DEF Transient, Spares
  <2>2. QED BY <1>4, <2>1, MarkedInOrder
<1> HIDE DEF c
<1>6. /\ c.disposition[f] = "staged"
      /\ \A h \in Frames \ {f, g} : c.disposition[h] = b.disposition[h]
  BY <1>1, <1>3, <1>4, <1>5 DEF Spares
<1>7. Keeps(b, c)
  BY <1>2, <1>6 DEF Keeps, Terminal
<1>8. QED BY <1>1, <1>3, <1>4, <1>5, <1>6, <1>7 DEF c, m, e, d

LEMMA ListOf ==
  ASSUME CoreInv, NEW r \in file.records
  PROVE  /\ r.entMap \in Seq(Nat) /\ Len(r.entMap) \in Nat
         /\ DOMAIN r.entMap = 1..Len(r.entMap)
<1>1. r.entMap \in Seq(Nat)
  BY FilesAssumption DEF CoreInv
<1>2. QED BY <1>1

(* A record that claims no frame twice. *)
LEMMA ClaimsApart ==
  ASSUME ~Chained, NEW r, r.entMap \in Seq(Nat), Distinct(r)
  PROVE  /\ r.block # r.endBlock
         /\ \A i \in 1..Len(r.entMap) : r.entMap[i] \notin Delimiters(r)
         /\ \A i, j \in 1..Len(r.entMap) : r.entMap[i] = r.entMap[j] => i = j
<1> DEFINE S == {r.block, r.endBlock} \cup Nat
           D == <<r.block, r.endBlock>>
           C == Claims(r)
<1>1. C = D \o r.entMap
  BY DEF Claims
<1>2. /\ D \in Seq(S) /\ r.entMap \in Seq(S) /\ Len(D) = 2
      /\ D[1] = r.block /\ D[2] = r.endBlock
  OBVIOUS
<1> HIDE DEF S, D, C
<1>3. /\ Len(C) = Len(r.entMap) + 2 /\ DOMAIN C = 1..Len(C) /\ Len(r.entMap) \in Nat
      /\ C[1] = r.block /\ C[2] = r.endBlock
      /\ \A i \in 1..Len(r.entMap) : C[i + 2] = r.entMap[i]
  <2>1. /\ C \in Seq(S) /\ Len(C) = Len(D) + Len(r.entMap)
        /\ \A i \in 1..(Len(D) + Len(r.entMap)) :
              C[i] = IF i <= Len(D) THEN D[i] ELSE r.entMap[i - Len(D)]
    BY ONLY <1>1, <1>2, ConcatProperties
  <2>2. Len(r.entMap) \in Nat
    OBVIOUS
  <2>3. QED BY ONLY <1>2, <2>1, <2>2
<1>4. \A i, j \in DOMAIN C : C[i] = C[j] => i = j
  BY DEF Distinct, C
<1>5. r.block # r.endBlock
  <2>1. 1 \in DOMAIN C /\ 2 \in DOMAIN C
    BY <1>3
  <2>2. QED BY <1>3, <1>4, <2>1
<1>6. ASSUME NEW i \in 1..Len(r.entMap) PROVE r.entMap[i] \notin Delimiters(r)
  <2>1. /\ 1 \in DOMAIN C /\ 2 \in DOMAIN C /\ i + 2 \in DOMAIN C
        /\ C[i + 2] = r.entMap[i] /\ i + 2 # 1 /\ i + 2 # 2
    BY <1>3
  <2>2. QED BY <1>3, <1>4, <2>1 DEF Delimiters
<1>7. ASSUME NEW i \in 1..Len(r.entMap), NEW j \in 1..Len(r.entMap),
             r.entMap[i] = r.entMap[j]
      PROVE  i = j
  <2>1. /\ i + 2 \in DOMAIN C /\ C[i + 2] = r.entMap[i]
        /\ j + 2 \in DOMAIN C /\ C[j + 2] = r.entMap[j]
    BY <1>3
  <2>2. i + 2 = j + 2
    BY <1>4, <1>7, <2>1
  <2>3. QED BY <2>2
<1>8. QED BY <1>5, <1>6, <1>7

(* The calls a journal starts with. *)
LEMMA FirstCalls ==
  ASSUME NEW r, r.block \in Frames, r.endBlock \in Frames, r.block # r.endBlock,
         NEW q, q = <<Call("addBlock", r.block)>>
                    \o (IF r.space THEN <<Call("endBlock", r.endBlock)>> ELSE <<>>)
  PROVE  /\ CallsOK(q) /\ Len(q) >= 1 /\ q[1] = Call("addBlock", r.block)
         /\ r.space => Len(q) >= 2 /\ q[2] = Call("endBlock", r.endBlock)
         /\ \A i \in 1..Len(q) : /\ q[i].what \in Tell /\ q[i].frame \in Delimiters(r)
                                 /\ ~r.space => q[i].frame # r.endBlock
<1> DEFINE S == [what : Tell \cup Answer, frame : Frames]
           c == Call("addBlock", r.block)
           d == Call("endBlock", r.endBlock)
           p == Append(<<>>, c)
<1>1. /\ c \in S /\ c.what = "addBlock" /\ c.frame = r.block
      /\ d \in S /\ d.what = "endBlock" /\ d.frame = r.endBlock
  BY CallFits DEF Tell
<1>2. c.what \in Tell /\ c.what \notin Answer /\ d.what \in Tell /\ d.what \notin Answer
  BY <1>1 DEF Tell, Answer
<1> HIDE DEF c, d
<1>3. CallsOK(p) /\ Len(p) = 1 /\ p[1] = c /\ p = <<c>>
  <2>1. Len(<<>>) = 0 /\ CallsOK(<<>>) /\ 1..Len(<<>>) = {}
    BY NoCalls
  <2>2. CallsOK(p) /\ Len(p) = Len(<<>>) + 1 /\ p[Len(<<>>) + 1] = c
    BY <1>1, <1>2, <2>1, CallAppended
  <2>3. p = <<c>>
    OBVIOUS
  <2>4. QED BY <2>1, <2>2, <2>3
<1> HIDE DEF p
<1>4. p \in Seq(S)
  BY <1>3 DEF CallsOK
<1> HIDE DEF S
<1>5. CASE r.space
  <2>1. q = p \o <<d>>
    BY <1>3, <1>5 DEF c, d
  <2>2. q = Append(p, d)
    BY <1>1, <1>4, <2>1, AppendedPair
  <2>3. CallsOK(q) /\ Len(q) = 2 /\ q[1] = c /\ q[2] = d
    <3>1. \A i \in 1..Len(p) : p[i].frame = d.frame => ~(p[i].what \in Tell <=> d.what \in Tell)
      BY <1>1, <1>3
    <3>2. d.what # "addBlock" /\ 1 \in 1..Len(p)
      BY <1>1, <1>3
    <3>3. LET a == Append(p, d)
          IN /\ CallsOK(a) /\ Len(a) = Len(p) + 1 /\ a[Len(p) + 1] = d
             /\ \A i \in 1..Len(p) : a[i] = p[i]
      BY <1>1, <1>2, <1>3, <3>1, <3>2, CallAppended DEF S
    <3>4. QED BY ONLY <1>3, <2>2, <3>2, <3>3
  <2>4. \A i \in 1..Len(q) : q[i].what \in Tell /\ q[i].frame \in Delimiters(r)
    BY <1>1, <1>2, <2>3 DEF Delimiters
  <2>5. QED BY <1>5, <2>3, <2>4 DEF c, d
<1>6. CASE ~r.space
  <2>1. q = p \o <<>>
    BY <1>3, <1>6 DEF c
  <2>2. q = p
    BY <1>4, <2>1, ConcatEmptySeq
  <2>3. \A i \in 1..Len(q) : q[i] = c
    BY ONLY <1>3, <2>2
  <2>4. c.frame \in Delimiters(r) /\ c.frame # r.endBlock
    BY <1>1 DEF Delimiters
  <2>5. CallsOK(q) /\ Len(q) >= 1 /\ q[1] = c
    BY ONLY <1>3, <2>2
  <2>6. QED BY <1>2, <1>6, <2>3, <2>4, <2>5 DEF c
<1>7. QED BY <1>5, <1>6

LEMMA OpenJournalStep == ASSUME CoreInv, OpenJournal PROVE CoreInv' /\ Keeps(book, book')
<1>1. /\ phase = "blocks" /\ scope = NoScope /\ ~Chained
      /\ UNCHANGED <<file, phase, error, pending, sectionOk, app, status>>
  BY DEF OpenJournal, ReadingBlocks
<1>2. PICK r \in pending :
        /\ Sound(r)
        /\ scope' = [record |-> r, step |-> "journal", at |-> 1,
                     calls |-> <<Call("addBlock", r.block)>>
                               \o (IF r.space THEN <<Call("endBlock", r.endBlock)>> ELSE <<>>)]
        /\ book' = Marked(Marked(Detached(Detached(book, r.block), r.endBlock),
                                 r.block, "staged"), r.endBlock, "staged")
  BY DEF OpenJournal
<1>3. /\ NoBlockOpen(app) /\ app \in Apps /\ InOrder(book) /\ Once(book, app)
      /\ Fresh(book, app, {}) /\ r \in file.records /\ Distinct(r)
  BY <1>1, OutsideFacts DEF PendingOK
<1>4. /\ r.entMap \in Seq(Nat) /\ Len(r.entMap) \in Nat /\ DOMAIN r.entMap = 1..Len(r.entMap)
  BY <1>3, ListOf
<1>5. /\ r.block # r.endBlock
      /\ \A i \in 1..Len(r.entMap) : r.entMap[i] \notin Delimiters(r)
  BY <1>1, <1>3, <1>4, ClaimsApart
<1>6. /\ r.block \in book.objects /\ r.endBlock \in book.objects
      /\ r.block \in Frames /\ r.endBlock \in Frames
      /\ \A i \in 1..Len(r.entMap) : r.entMap[i] \in book.objects
  BY <1>1, <1>2, <1>3, <1>4, BookFields DEF Sound, Delimits, InOrder
<1>7. /\ InOrder(book') /\ Keeps(book, book')
      /\ book'.objects = book.objects \ Delimiters(r) /\ book'.deferred = book.deferred
      /\ \A f \in Delimiters(r) : f \in book'.leased /\ book'.disposition[f] = "staged"
      /\ \A h \in Frames \ Delimiters(r) : book'.disposition[h] = book.disposition[h]
  BY <1>2, <1>3, <1>5, <1>6, BothStaged DEF Delimiters
<1>8. Once(book', app') /\ Fresh(book', app', {}) /\ app' \in Apps
  <2>1. \A f \in Frames : book'.disposition[f] = "published" => book.disposition[f] = "published"
    BY <1>7
  <2>2. QED BY <1>1, <1>3, <1>7, <2>1, GivenUp
<1> DEFINE q == <<Call("addBlock", r.block)>>
                \o (IF r.space THEN <<Call("endBlock", r.endBlock)>> ELSE <<>>)
<1>9. /\ CallsOK(q) /\ Len(q) >= 1 /\ q[1] = Call("addBlock", r.block)
      /\ r.space => Len(q) >= 2 /\ q[2] = Call("endBlock", r.endBlock)
      /\ \A i \in 1..Len(q) : /\ q[i].what \in Tell /\ q[i].frame \in Delimiters(r)
                              /\ ~r.space => q[i].frame # r.endBlock
  BY <1>5, <1>6, FirstCalls
<1>10. /\ scope' = [record |-> r, step |-> "journal", at |-> 1, calls |-> q]
       /\ scope'.record = r /\ scope'.at = 1 /\ scope'.calls = q
  BY <1>2
<1> HIDE DEF q
<1>11. \A f \in Delimiters(r) : app.delivered[f] = 0
  BY <1>3, <1>6 DEF Fresh, Delimiters
<1>12. Ahead(q, 1, book', app')
  BY <1>1, <1>7, <1>9, <1>11 DEF Ahead
<1>13. Journalling(scope, book, app)'
  <2>1. /\ scope' = [record |-> scope'.record, step |-> "journal", at |-> scope'.at,
                     calls |-> scope'.calls]
        /\ scope'.at \in Nat \ {0} /\ scope'.record \in file'.records
    BY <1>1, <1>3, <1>10
  <2>2. \A i, j \in 1..Len(r.entMap) : r.entMap[i] = r.entMap[j] => i = j
    BY <1>1, <1>3, <1>4, ClaimsApart
  <2>3. \A i \in 1..Len(r.entMap) : r.entMap[i] \in book'.objects
    BY <1>5, <1>6, <1>7
  <2>4. \A i \in 1..Len(q) :
        /\ q[i].what # "complete"
        /\ q[i].what \in Answer => q[i].frame \notin Delimiters(r)
        /\ ~r.space => q[i].frame # r.endBlock
    BY <1>9 DEF Tell, Answer
  <2>5. app'.open = 0 \/ app'.threw
    BY <1>1, <1>3 DEF NoBlockOpen
  <2>6. \A f \in Delimiters(r) : app'.delivered[f] = 0
    BY <1>1, <1>11
  <2>7. /\ Len(q) >= 1 /\ q[1] = Call("addBlock", r.block)
        /\ r.space => Len(q) >= 2 /\ q[2] = Call("endBlock", r.endBlock)
    BY <1>9
  <2>8. QED
    BY <1>7, <1>9, <1>10, <1>12, <2>1, <2>2, <2>3, <2>4, <2>5, <2>6, <2>7 DEF Journalling
<1>14. PendingOK'
  BY <1>1, PendingKept
<1>15. CoreInv'
  BY <1>1, <1>7, <1>8, <1>13, <1>14, JournalCore
<1>16. QED BY <1>7, <1>15

(* An entity is journalled: staged, and not yet delivered. *)
LEMMA OneStaged ==
  ASSUME NEW b, InOrder(b), NEW f \in b.objects
  PROVE  LET c == Marked(Detached(b, f), f, "staged")
         IN /\ InOrder(c) /\ Keeps(b, c) /\ Spares(b, c, f)
            /\ c.objects = b.objects \ {f} /\ c.deferred = b.deferred
            /\ c.leased = b.leased \cup {f} /\ c.disposition[f] = "staged"
<1> DEFINE d == Detached(b, f)
           c == Marked(d, f, "staged")
<1>1. /\ InOrder(d) /\ f \in Frames /\ d.disposition = b.disposition
      /\ d.objects = b.objects \ {f} /\ d.deferred = b.deferred \ {f}
      /\ d.leased = b.leased \cup {f}
  BY DetachedInOrder
<1>2. b.disposition[f] = "pending" /\ f \notin b.deferred
  BY DEF InOrder
<1> HIDE DEF d
<1>3. /\ InOrder(c) /\ c.objects = d.objects /\ c.deferred = d.deferred
      /\ c.leased = d.leased /\ c.disposition[f] = "staged" /\ Spares(d, c, f)
  <2>1. /\ f \in Frames \ (d.objects \cup d.deferred) /\ d.disposition[f] \in Transient
        /\ "staged" \in {"staged", "published", "quarantined", "failed"}
        /\ d.disposition[f] = "pending"
    BY <1>1, <1>2 DEF Transient
  <2>2. QED BY <1>1, <2>1, MarkedInOrder
<1> HIDE DEF c
<1>4. Keeps(b, c) /\ Spares(b, c, f)
  BY <1>1, <1>2, <1>3 DEF Keeps, Spares, Terminal
<1>5. QED BY <1>1, <1>2, <1>3, <1>4 DEF c, d

(* What the calls of a journal keep telling of its block. *)
JournalCalls(q, r) ==
  /\ CallsOK(q) /\ Len(q) >= 1 /\ q[1] = Call("addBlock", r.block)
  /\ r.space => Len(q) >= 2 /\ q[2] = Call("endBlock", r.endBlock)
  /\ \A i \in 1..Len(q) :
        /\ q[i].what # "complete"
        /\ q[i].what \in Answer => q[i].frame \notin Delimiters(r)
        /\ ~r.space => q[i].frame # r.endBlock

EntityTold(q, f) == q \o <<Call("value", f), Call("receipt", f)>>
TellsAlso(p, q, f) == \A i \in 1..Len(p) : \/ i \in 1..Len(q) /\ p[i] = q[i]
                                          \/ p[i].frame = f

LEMMA EntityCalls ==
  ASSUME NEW q, NEW r, JournalCalls(q, r), NEW f \in Frames, f \notin Delimiters(r),
         \A i \in 1..Len(q) : q[i].frame # f
  PROVE  /\ JournalCalls(EntityTold(q, f), r) /\ Len(q) \in Nat
         /\ TellsAlso(EntityTold(q, f), q, f)
<1> DEFINE p == EntityTold(q, f)
           S == [what : Tell \cup Answer, frame : Frames]
           v == Call("value", f)
           c == Call("receipt", f)
           m == Append(q, v)
<1>1. /\ v \in S /\ v.what = "value" /\ v.frame = f /\ v.what \in Tell /\ v.what \notin Answer
      /\ c \in S /\ c.what = "receipt" /\ c.frame = f /\ c.what \in Answer /\ c.what \notin Tell
  BY CallFits DEF Tell, Answer
<1>2. q \in Seq(S) /\ CallsOK(q)
  BY DEF JournalCalls, CallsOK
<1>3. p = Append(m, c)
  BY <1>1, <1>2, AppendedPair DEF EntityTold
<1> HIDE DEF v, c, m, p
<1>4. /\ CallsOK(m) /\ Len(m) = Len(q) + 1 /\ m[Len(q) + 1] = v
      /\ \A i \in 1..Len(q) : m[i] = q[i]
  <2>1. \A i \in 1..Len(q) : q[i].frame = v.frame => ~(q[i].what \in Tell <=> v.what \in Tell)
    BY <1>1
  <2>2. v.what # "addBlock"
    BY <1>1
  <2>3. QED BY ONLY <1>1, <1>2, <2>1, <2>2, CallAppended DEF m
<1>5. Len(q) \in Nat
  BY <1>2
<1>6. /\ CallsOK(p) /\ Len(p) = Len(m) + 1 /\ p[Len(m) + 1] = c
      /\ \A i \in 1..Len(m) : p[i] = m[i]
  <2>1. \A i \in 1..Len(m) : m[i].frame = c.frame => m[i].what \in Tell
    BY <1>1, <1>4, <1>5
  <2>2. Len(q) + 1 \in 1..Len(m) /\ m[Len(q) + 1].what \in Tell /\ m[Len(q) + 1].frame = c.frame
    BY <1>1, <1>4, <1>5
  <2>3. \A i \in 1..Len(m) : m[i].frame = c.frame => ~(m[i].what \in Tell <=> c.what \in Tell)
    BY <1>1, <2>1
  <2>4. c.what # "addBlock" /\ \E j \in 1..Len(m) : m[j].what \in Tell /\ m[j].frame = c.frame
    BY <1>1, <2>2
  <2>5. QED BY ONLY <1>1, <1>3, <1>4, <2>3, <2>4, CallAppended
<1>7. /\ Len(p) = Len(q) + 2 /\ \A i \in 1..Len(q) : p[i] = q[i]
      /\ p[Len(q) + 1] = v /\ p[Len(q) + 2] = c
  BY ONLY <1>4, <1>5, <1>6
<1>8. \A i \in 1..Len(p) : \/ i \in 1..Len(q) /\ p[i] = q[i]
                           \/ p[i] = v
                           \/ p[i] = c
  BY ONLY <1>5, <1>7
<1>9. /\ Len(p) >= 1 /\ p[1] = Call("addBlock", r.block)
      /\ r.space => Len(p) >= 2 /\ p[2] = Call("endBlock", r.endBlock)
  BY <1>5, <1>7 DEF JournalCalls
<1>10. f # r.endBlock
  BY DEF Delimiters
<1>11. \A i \in 1..Len(p) :
        /\ p[i].what # "complete"
        /\ p[i].what \in Answer => p[i].frame \notin Delimiters(r)
        /\ ~r.space => p[i].frame # r.endBlock
  BY <1>1, <1>8, <1>10 DEF JournalCalls
<1>12. QED BY <1>1, <1>5, <1>6, <1>8, <1>9, <1>11 DEF JournalCalls, TellsAlso, p

LEMMA JournalEntityStep == ASSUME CoreInv, JournalEntity PROVE CoreInv' /\ Keeps(book, book')
<1> DEFINE r == scope.record
           f == r.entMap[scope.at]
           q == scope.calls
           good == Verdict(f, r) = "good"
           p == IF good THEN EntityTold(q, f) ELSE q
<1>1. /\ scope.step = "journal" /\ scope.at <= Len(r.entMap)
      /\ scope' = [scope EXCEPT !.at = @ + 1, !.calls = p]
      /\ book' = IF good THEN Marked(Detached(book, f), f, "staged")
                         ELSE Lost(Detached(book, f), f)
      /\ UNCHANGED <<file, phase, error, pending, sectionOk, app, status>>
  BY DEF JournalEntity, EntityTold
<1>2. /\ phase = "blocks" /\ ~Chained /\ app \in Apps
      /\ InOrder(book) /\ Once(book, app) /\ Fresh(book, app, {})
      /\ Journalling(scope, book, app)
  BY <1>1, JournalFacts
<1>3. /\ scope = [record |-> r, step |-> "journal", at |-> scope.at, calls |-> q]
      /\ scope.at \in Nat \ {0} /\ r \in file.records
      /\ \A g \in Delimiters(r) : /\ g \in book.leased /\ book.disposition[g] = "staged"
                                  /\ app.delivered[g] = 0
      /\ \A i \in scope.at..Len(r.entMap) : r.entMap[i] \in book.objects
      /\ \A i, j \in scope.at..Len(r.entMap) : r.entMap[i] = r.entMap[j] => i = j
      /\ Ahead(q, 1, book, app)
      /\ app.open = 0 \/ app.threw
  BY <1>2 DEF Journalling
<1>4. JournalCalls(q, r)
  BY <1>2 DEF Journalling, JournalCalls
<1>5. Len(r.entMap) \in Nat
  BY <1>3, ListOf
<1>6. /\ f \in book.objects /\ f \in Frames /\ f \notin book.leased
      /\ f \notin Delimiters(r) /\ app.delivered[f] = 0
  <2>1. f \in book.objects
    BY <1>1, <1>3, <1>5
  <2>2. f \in Frames /\ f \notin book.leased
    BY <1>2, <2>1, BookFields DEF InOrder
  <2>3. QED BY <1>2, <1>3, <2>1, <2>2 DEF Fresh
<1> HIDE DEF f
<1>7. /\ InOrder(book') /\ Keeps(book, book') /\ Spares(book, book', f)
      /\ book'.objects = book.objects \ {f}
      /\ book'.objects \cup book'.deferred \subseteq book.objects \cup book.deferred
      /\ book.leased \subseteq book'.leased
      /\ good => f \in book'.leased /\ book'.disposition[f] = "staged"
      /\ ~good => book'.disposition[f] = "failed"
  <2>1. CASE good
    <3>1. book' = Marked(Detached(book, f), f, "staged")
      BY <1>1, <2>1
    <3>2. QED BY <1>2, <1>6, <2>1, <3>1, OneStaged
  <2>2. CASE ~good
    <3>1. book' = Lost(Detached(book, f), f)
      BY <1>1, <2>2
    <3>2. Settled(book, book', f) /\ book'.disposition[f] = "failed"
      BY <1>2, <1>6, <3>1, LostIsSettled
    <3>3. QED BY <1>6, <2>2, <3>2 DEF Settled
  <2>3. QED BY <2>1, <2>2
<1>8. Once(book', app') /\ Fresh(book', app', {}) /\ app' \in Apps
  <2>1. \A g \in Frames : book'.disposition[g] = "published" => book.disposition[g] = "published"
    BY <1>7 DEF Spares
  <2>2. QED BY <1>1, <1>2, <1>7, <2>1, GivenUp
<1>9. \A i \in 1..Len(q) : /\ q[i].frame \in book.leased /\ q[i].frame # f
                           /\ book.disposition[q[i].frame] = "staged"
                           /\ q[i].what \in Tell => app.delivered[q[i].frame] = 0
  BY <1>3, <1>6 DEF Ahead
<1>10. /\ JournalCalls(p, r)
       /\ \A i \in 1..Len(p) : \/ i \in 1..Len(q) /\ p[i] = q[i]
                               \/ good /\ p[i].frame = f
  <2>1. CASE good
    <3>1. p = EntityTold(q, f)
      BY <2>1
    <3>2. \A i \in 1..Len(q) : q[i].frame # f
      BY <1>9
    <3>3. JournalCalls(EntityTold(q, f), r) /\ TellsAlso(EntityTold(q, f), q, f)
      BY <1>4, <1>6, <3>2, EntityCalls
    <3>4. QED BY <2>1, <3>1, <3>3 DEF TellsAlso
  <2>2. CASE ~good
    <3>1. p = q
      BY <2>2
    <3>2. QED BY <1>4, <3>1
  <2>3. QED BY <2>1, <2>2
<1>11. /\ scope' = [record |-> r, step |-> "journal", at |-> scope.at + 1, calls |-> p]
       /\ scope'.record = r /\ scope'.at = scope.at + 1 /\ scope'.calls = p
  <2> DEFINE n == scope.at
             m == n + 1
  <2>1. scope' = [scope EXCEPT !.at = m, !.calls = p]
    BY <1>1
  <2>2. scope = [record |-> r, step |-> "journal", at |-> n, calls |-> q]
    BY <1>3
  <2> HIDE DEF r, q, p, good, n, m
  <2>3. scope' = [record |-> r, step |-> "journal", at |-> m, calls |-> p]
    BY ONLY <2>1, <2>2
  <2>4. QED BY ONLY <2>3 DEF m, n
<1> HIDE DEF p, good
<1>12. book.leased \subseteq Frames
  BY <1>2, BookFields DEF InOrder
<1>13. Ahead(p, 1, book', app')
  <2>1. ASSUME NEW i \in 1..Len(p)
        PROVE  /\ p[i].frame \in book'.leased /\ book'.disposition[p[i].frame] = "staged"
               /\ p[i].what \in Tell => app'.delivered[p[i].frame] = 0
    <3>1. CASE i \in 1..Len(q) /\ p[i] = q[i]
      BY <1>1, <1>7, <1>9, <1>12, <3>1 DEF Spares
    <3>2. CASE good /\ p[i].frame = f
      BY <1>1, <1>6, <1>7, <3>2
    <3>3. QED BY <1>10, <3>1, <3>2
  <2>2. QED BY <2>1 DEF Ahead
<1>14. Journalling(scope, book, app)'
  <2>1. /\ scope' = [record |-> scope'.record, step |-> "journal", at |-> scope'.at,
                     calls |-> scope'.calls]
        /\ scope'.at \in Nat \ {0} /\ scope'.record \in file'.records
    <3>1. file' = file /\ scope.at + 1 \in Nat \ {0} /\ r \in file.records
      BY <1>1, <1>3
    <3> HIDE DEF r
    <3>2. QED BY ONLY <1>11, <3>1
  <2>2. \A g \in Delimiters(r) : /\ g \in book'.leased /\ book'.disposition[g] = "staged"
                                 /\ app'.delivered[g] = 0
    BY <1>1, <1>3, <1>6, <1>7, <1>12 DEF Spares
  <2>3. /\ \A i \in (scope.at + 1)..Len(r.entMap) : r.entMap[i] \in book'.objects
        /\ \A i, j \in (scope.at + 1)..Len(r.entMap) : r.entMap[i] = r.entMap[j] => i = j
    <3>1. \A i \in (scope.at + 1)..Len(r.entMap) :
            i \in scope.at..Len(r.entMap) /\ i # scope.at
      BY <1>3, <1>5
    <3>2. scope.at \in scope.at..Len(r.entMap) /\ f = r.entMap[scope.at]
      BY <1>1, <1>3, <1>5 DEF f
    <3>3. \A i \in (scope.at + 1)..Len(r.entMap) : r.entMap[i] # f
      BY <1>3, <3>1, <3>2
    <3>4. QED BY <1>3, <1>7, <3>1, <3>3
  <2>4. app'.open = 0 \/ app'.threw
    BY <1>1, <1>3
  <2>5. /\ CallsOK(p) /\ Len(p) >= 1 /\ p[1] = Call("addBlock", r.block)
        /\ r.space => Len(p) >= 2 /\ p[2] = Call("endBlock", r.endBlock)
        /\ \A i \in 1..Len(p) :
              /\ p[i].what # "complete"
              /\ p[i].what \in Answer => p[i].frame \notin Delimiters(r)
              /\ ~r.space => p[i].frame # r.endBlock
    BY <1>10 DEF JournalCalls
  <2>6. QED
    BY <1>11, <1>13, <2>1, <2>2, <2>3, <2>4, <2>5 DEF Journalling
<1>15. PendingOK'
  BY <1>1, PendingKept
<1>16. CoreInv'
  BY <1>1, <1>2, <1>7, <1>8, <1>14, <1>15, JournalCore
<1>17. QED BY <1>7, <1>16

LEMMA FailJournalStep == ASSUME CoreInv, FailJournal PROVE CoreInv' /\ Keeps(book, book')
<1>1. /\ scope.step = "journal" /\ ScopeFails(book, app)
      /\ UNCHANGED <<file, phase, error, status>>
  BY DEF FailJournal
<1>2. /\ phase = "blocks" /\ ~Chained /\ app \in Apps
      /\ InOrder(book) /\ Once(book, app) /\ Fresh(book, app, {})
      /\ Journalling(scope, book, app)
  BY <1>1, JournalFacts
<1>3. NoBlockOpen(app)
  BY <1>2 DEF Journalling, NoBlockOpen
<1>4. Fresh(book, app, Delimiters(scope.record)) /\ Keeps(book, book)
  BY <1>2 DEF Fresh, Keeps
<1>5. QED BY <1>1, <1>2, <1>3, <1>4, BlockFails

(* The calls of a journal that is sealed: the block is closed, and its      *)
(* delimiters are answered for last.                                        *)
Closing(q, r) == q \o (IF r.space THEN <<>> ELSE <<Call("endBlock", r.endBlock)>>)
ClosesJournal(m, q, r) ==
  /\ CallsOK(m) /\ Len(m) >= 1 /\ m[1] = Call("addBlock", r.block)
  /\ \E e \in 2..Len(m) : m[e] = Call("endBlock", r.endBlock)
  /\ \A i \in 1..Len(m) :
        /\ m[i].what # "complete"
        /\ m[i].what \in Answer => m[i].frame \notin Delimiters(r)
  /\ \A i \in 1..Len(m) : \/ i \in 1..Len(q) /\ m[i] = q[i]
                          \/ m[i].frame = r.endBlock

LEMMA ClosedCalls ==
  ASSUME NEW q, NEW r, JournalCalls(q, r), r.endBlock \in Frames
  PROVE  ClosesJournal(Closing(q, r), q, r)
<1> DEFINE m == Closing(q, r)
           S == [what : Tell \cup Answer, frame : Frames]
           d == Call("endBlock", r.endBlock)
<1>1. /\ d \in S /\ d.what = "endBlock" /\ d.frame = r.endBlock /\ d.what \in Tell
      /\ d.what \notin Answer
  BY CallFits DEF Tell, Answer
<1>2. /\ CallsOK(q) /\ q \in Seq(S) /\ Len(q) \in Nat /\ Len(q) >= 1
      /\ q[1] = Call("addBlock", r.block)
      /\ r.space => Len(q) >= 2 /\ q[2] = d
      /\ \A i \in 1..Len(q) :
            /\ q[i].what # "complete"
            /\ q[i].what \in Answer => q[i].frame \notin Delimiters(r)
            /\ ~r.space => q[i].frame # r.endBlock
  BY DEF JournalCalls, CallsOK
<1>2a. m = q \o (IF r.space THEN <<>> ELSE <<d>>)
  BY DEF Closing
<1> HIDE DEF m
<1>3. CASE r.space
  <2>1. m = q
    BY <1>2, <1>3, <1>2a, ConcatEmptySeq
  <2>2. 2 \in 2..Len(q)
    BY <1>2, <1>3
  <2>3. QED BY <1>2, <1>3, <2>1, <2>2 DEF ClosesJournal, m
<1>4. CASE ~r.space
  <2>1. m = Append(q, d)
    BY <1>1, <1>2, <1>4, <1>2a, AppendedPair
  <2> HIDE DEF d
  <2>2. \A i \in 1..Len(q) : q[i].frame = d.frame => ~(q[i].what \in Tell <=> d.what \in Tell)
    BY <1>1, <1>2, <1>4
  <2>3. d.what # "addBlock"
    BY <1>1
  <2>4. /\ CallsOK(m) /\ Len(m) = Len(q) + 1 /\ m[Len(q) + 1] = d
        /\ \A i \in 1..Len(q) : m[i] = q[i]
    BY ONLY <1>1, <1>2, <2>1, <2>2, <2>3, CallAppended
  <2>5. \A i \in 1..Len(m) : \/ i \in 1..Len(q) /\ m[i] = q[i]
                             \/ m[i] = d
    BY ONLY <1>2, <2>4
  <2>6. /\ Len(m) >= 1 /\ m[1] = Call("addBlock", r.block)
        /\ Len(m) \in 2..Len(m) /\ m[Len(m)] = d
    BY ONLY <1>2, <2>4
  <2>7. \A i \in 1..Len(m) :
              /\ m[i].what # "complete"
              /\ m[i].what \in Answer => m[i].frame \notin Delimiters(r)
    BY <1>1, <1>2, <2>5
  <2>8. \A i \in 1..Len(m) : \/ i \in 1..Len(q) /\ m[i] = q[i]
                             \/ m[i].frame = r.endBlock
    BY <1>1, <2>5
  <2>9. QED BY <2>4, <2>6, <2>7, <2>8 DEF d, m, ClosesJournal
<1>5. QED BY <1>3, <1>4

LEMMA AnsweredCalls ==
  ASSUME NEW m, NEW r, CallsOK(m), r.block \in Frames, r.endBlock \in Frames,
         r.block # r.endBlock, Len(m) >= 1, m[1] = Call("addBlock", r.block),
         \E e \in 2..Len(m) : m[e] = Call("endBlock", r.endBlock),
         \A i \in 1..Len(m) :
              /\ m[i].what # "complete"
              /\ m[i].what \in Answer => m[i].frame \notin Delimiters(r),
         NEW what \in Answer,
         NEW p, p = m \o <<Call(what, r.block), Call("receipt", r.endBlock)>>
  PROVE  /\ CallsOK(p) /\ ClosesFirst(p)
         /\ \A i \in 1..Len(p) : \/ i \in 1..Len(m) /\ p[i] = m[i]
                                 \/ p[i].frame \in Delimiters(r)
<1> DEFINE S == [what : Tell \cup Answer, frame : Frames]
           c == Call(what, r.block)
           d == Call("receipt", r.endBlock)
           n == Append(m, c)
<1>1. /\ c \in S /\ c.what \in Answer /\ c.what \notin Tell /\ c.frame = r.block
      /\ d \in S /\ d.what = "receipt" /\ d.what \in Answer /\ d.what \notin Tell
      /\ d.frame = r.endBlock /\ c.what # "endBlock" /\ d.what # "endBlock"
      /\ c.what # "addBlock" /\ d.what # "addBlock"
  BY CallFits DEF Tell, Answer
<1>2. m \in Seq(S) /\ Len(m) \in Nat
  BY DEF CallsOK
<1>3. p = Append(n, d)
  <2>1. p = m \o <<c, d>>
    OBVIOUS
  <2> HIDE DEF c, d, S
  <2>2. QED BY ONLY <1>1, <1>2, <2>1, AppendedPair DEF n
<1>4. /\ m[1].what \in Tell /\ m[1].frame = r.block /\ 1 \in 1..Len(m)
  BY <1>2, CallFits DEF Tell
<1>5. PICK e \in 2..Len(m) : m[e] = Call("endBlock", r.endBlock)
  OBVIOUS
<1>6. /\ m[e].what = "endBlock" /\ m[e].what \in Tell /\ m[e].frame = r.endBlock
      /\ e \in 1..Len(m)
  BY <1>2, <1>5, CallFits DEF Tell
<1>7. \A i \in 1..Len(m) : m[i].frame \in Delimiters(r) => m[i].what \in Tell
  <2>1. \A i \in 1..Len(m) : m[i] \in S
    BY ONLY <1>2, ElementOfSeq
  <2>2. QED BY <2>1
<1> HIDE DEF c, d, n
<1>8. /\ CallsOK(n) /\ Len(n) = Len(m) + 1 /\ n[Len(m) + 1] = c
      /\ \A i \in 1..Len(m) : n[i] = m[i]
  <2>1. \A i \in 1..Len(m) : m[i].frame = c.frame => ~(m[i].what \in Tell <=> c.what \in Tell)
    BY <1>1, <1>7 DEF Delimiters
  <2>2. \E j \in 1..Len(m) : m[j].what \in Tell /\ m[j].frame = c.frame
    BY <1>1, <1>4
  <2>3. CallsOK(m)
    OBVIOUS
  <2>4. QED BY ONLY <1>1, <2>1, <2>2, <2>3, CallAppended DEF n
<1>9. /\ CallsOK(p) /\ Len(p) = Len(n) + 1 /\ p[Len(n) + 1] = d
      /\ \A i \in 1..Len(n) : p[i] = n[i]
  <2>1. \A i \in 1..Len(n) : n[i].frame = d.frame => n[i].what \in Tell
    <3>1. \A i \in 1..Len(n) : \/ i \in 1..Len(m) /\ n[i] = m[i]
                               \/ n[i] = c
      BY ONLY <1>2, <1>8
    <3>2. c.frame # d.frame
      BY <1>1
    <3>3. QED BY <1>1, <1>7, <3>1, <3>2 DEF Delimiters
  <2>2. \E j \in 1..Len(n) : n[j].what \in Tell /\ n[j].frame = d.frame
    <3>1. e \in 1..Len(n) /\ n[e] = m[e]
      BY ONLY <1>2, <1>6, <1>8
    <3>2. QED BY <1>1, <1>6, <3>1
  <2>3. \A i \in 1..Len(n) : n[i].frame = d.frame => ~(n[i].what \in Tell <=> d.what \in Tell)
    BY <1>1, <2>1
  <2>4. CallsOK(n) /\ d \in S /\ d.what # "addBlock"
    BY <1>1, <1>8
  <2>5. LET a == Append(n, d)
        IN /\ CallsOK(a) /\ Len(a) = Len(n) + 1 /\ a[Len(n) + 1] = d
           /\ \A i \in 1..Len(n) : a[i] = n[i]
    BY ONLY <2>2, <2>3, <2>4, CallAppended
  <2>6. QED BY <1>3, <2>5
<1>10. /\ Len(p) = Len(m) + 2 /\ \A i \in 1..Len(m) : p[i] = m[i]
       /\ p[Len(m) + 1] = c /\ p[Len(m) + 2] = d
  BY ONLY <1>2, <1>8, <1>9
<1>11. \A i \in 1..Len(p) : \/ i \in 1..Len(m) /\ p[i] = m[i]
                            \/ i = Len(m) + 1 /\ p[i] = c
                            \/ i = Len(m) + 2 /\ p[i] = d
  BY ONLY <1>2, <1>10
<1>12. ClosesFirst(p)
  <2>1. e \in 2..Len(p) /\ p[e].what = "endBlock"
    BY <1>2, <1>6, <1>10
  <2>2. ASSUME NEW i \in 1..Len(p), NEW j \in 1..Len(p),
               p[i].what = "endBlock", p[j].what = "complete"
        PROVE  i < j
    <3>1. i \in 1..Len(m)
      BY <1>1, <1>11, <2>2
    <3>2. j \notin 1..Len(m)
      BY <1>10, <2>2
    <3>3. QED BY <1>2, <3>1, <3>2
  <2>3. QED BY <2>1, <2>2 DEF ClosesFirst
<1>13. \A i \in 1..Len(p) : \/ i \in 1..Len(m) /\ p[i] = m[i]
                            \/ p[i].frame \in Delimiters(r)
  BY <1>1, <1>11 DEF Delimiters
<1>14. QED BY <1>9, <1>12, <1>13

LEMMA SealJournalStep == ASSUME CoreInv, SealJournal PROVE CoreInv' /\ Keeps(book, book')
<1> DEFINE r == scope.record
           q == scope.calls
           m == Closing(q, r)
<1>1. PICK what \in Answer :
        /\ scope.step = "journal"
        /\ scope' = [scope EXCEPT !.step = "replay", !.at = 1,
             !.calls = m \o <<Call(what, r.block), Call("receipt", r.endBlock)>>]
        /\ UNCHANGED <<file, phase, error, book, pending, sectionOk, app, status>>
  BY DEF SealJournal, Answer, Closing
<1>2. /\ phase = "blocks" /\ ~Chained /\ app \in Apps
      /\ InOrder(book) /\ Once(book, app) /\ Fresh(book, app, {})
      /\ Journalling(scope, book, app)
  BY <1>1, JournalFacts
<1>3. /\ scope = [record |-> r, step |-> "journal", at |-> scope.at, calls |-> q]
      /\ r \in file.records
      /\ \A g \in Delimiters(r) : /\ g \in book.leased /\ book.disposition[g] = "staged"
                                  /\ app.delivered[g] = 0
      /\ Ahead(q, 1, book, app)
      /\ app.open = 0 \/ app.threw
  BY <1>2 DEF Journalling
<1>4. JournalCalls(q, r)
  BY <1>2 DEF Journalling, JournalCalls
<1>5. r.block \in Frames /\ r.endBlock \in Frames
  BY <1>2, <1>3, BookFields DEF InOrder, Delimiters
<1>6. /\ CallsOK(m) /\ Len(m) >= 1 /\ m[1] = Call("addBlock", r.block)
      /\ \E e \in 2..Len(m) : m[e] = Call("endBlock", r.endBlock)
      /\ \A i \in 1..Len(m) :
              /\ m[i].what # "complete"
              /\ m[i].what \in Answer => m[i].frame \notin Delimiters(r)
      /\ \A i \in 1..Len(m) : \/ i \in 1..Len(q) /\ m[i] = q[i]
                              \/ m[i].frame = r.endBlock
  BY <1>4, <1>5, ClosedCalls DEF ClosesJournal
<1> HIDE DEF m
<1> DEFINE p == m \o <<Call(what, r.block), Call("receipt", r.endBlock)>>
<1>7. r.block # r.endBlock
  <2>1. PICK e \in 2..Len(m) : m[e] = Call("endBlock", r.endBlock)
    BY <1>6
  <2>2. /\ m[e].what \in Tell /\ m[e].frame = r.endBlock
        /\ m[1].what \in Tell /\ m[1].frame = r.block
    BY <1>5, <1>6, <2>1, CallFits DEF Tell
  <2>3. 1 \in 1..Len(m) /\ e \in 1..Len(m) /\ e # 1
    BY <1>6 DEF CallsOK
  <2>4. \A i, j \in 1..Len(m) :
          m[i].frame = m[j].frame /\ (m[i].what \in Tell <=> m[j].what \in Tell) => i = j
    BY <1>6 DEF CallsOK
  <2>5. QED BY <2>2, <2>3, <2>4
<1>8. /\ CallsOK(p) /\ ClosesFirst(p)
      /\ \A i \in 1..Len(p) : \/ i \in 1..Len(m) /\ p[i] = m[i]
                              \/ p[i].frame \in Delimiters(r)
  BY <1>1, <1>5, <1>6, <1>7, AnsweredCalls
<1>9. /\ scope' = [record |-> r, step |-> "replay", at |-> 1, calls |-> p]
      /\ scope'.record = r /\ scope'.at = 1 /\ scope'.calls = p
  <2> DEFINE n == scope.at
  <2>1. scope' = [scope EXCEPT !.step = "replay", !.at = 1, !.calls = p]
    BY <1>1
  <2>2. scope = [record |-> r, step |-> "journal", at |-> n, calls |-> q]
    BY <1>3
  <2> HIDE DEF r, q, p, n
  <2>3. scope' = [record |-> r, step |-> "replay", at |-> 1, calls |-> p]
    BY ONLY <2>1, <2>2
  <2>4. QED BY ONLY <2>3
<1> HIDE DEF p
<1>10. Ahead(p, 1, book, app) /\ Behind(p, 1, app)
  <2>1. ASSUME NEW i \in 1..Len(p)
        PROVE  /\ p[i].frame \in book.leased /\ book.disposition[p[i].frame] = "staged"
               /\ p[i].what \in Tell => app.delivered[p[i].frame] = 0
    <3>1. CASE p[i].frame \in Delimiters(r)
      BY <1>3, <3>1
    <3>2. CASE i \in 1..Len(m) /\ p[i] = m[i]
      <4>1. CASE i \in 1..Len(q) /\ m[i] = q[i]
        BY <1>3, <3>2, <4>1 DEF Ahead
      <4>2. CASE m[i].frame = r.endBlock
        BY <1>3, <3>2, <4>2 DEF Delimiters
      <4>3. QED BY <1>6, <3>2, <4>1, <4>2
    <3>3. QED BY <1>8, <3>1, <3>2
  <2>2. QED BY <2>1 DEF Ahead, Behind
<1>11. Replaying(scope, book, app)'
  <2>1. /\ scope' = [record |-> scope'.record, step |-> "replay", at |-> scope'.at,
                     calls |-> scope'.calls]
        /\ scope'.at \in Nat \ {0} /\ scope'.record \in file'.records
    <3>1. file' = file /\ r \in file.records
      BY <1>1, <1>3
    <3> HIDE DEF r
    <3>2. QED BY ONLY <1>9, <3>1
  <2>2. Ahead(p, 1, book', app') /\ Behind(p, 1, app')
    BY <1>1, <1>10
  <2>3. app'.open = 0 \/ app'.threw
    BY <1>1, <1>3
  <2>4. QED BY <1>8, <1>9, <2>1, <2>2, <2>3 DEF Replaying
<1>12. PendingOK'
  BY <1>1, PendingKept
<1>13. CoreInv'
  <2>1. InOrder(book') /\ Once(book', app') /\ Fresh(book', app', {}) /\ app' \in Apps
    BY <1>1, <1>2
  <2>2. QED BY <1>1, <1>2, <1>11, <1>12, <2>1, JournalCore
<1>14. QED BY <1>1, <1>13 DEF Keeps

------------------------------------------------------------------------------
(* The blocks of the later layouts: the replay. *)

(* The call a replay has come to, of those it has made and will make. *)
LEMMA NextCall ==
  ASSUME CoreInv, scope.step = "replay", scope.at <= Len(scope.calls)
  PROVE  LET q == scope.calls
             n == scope.at
             f == q[n].frame
         IN /\ n \in 1..Len(q) /\ Len(q) \in Nat /\ f \in Frames
            /\ f \in book.leased /\ f \notin book.objects \cup book.deferred
            /\ book.disposition[f] = "staged"
            /\ q[n].what \in Tell => app.delivered[f] = 0
            /\ q[n].what \in Answer => app.delivered[f] = 1
            /\ \A i \in 1..Len(q) : /\ i # n
                                    /\ q[i].what \in Tell <=> q[n].what \in Tell
                                    => q[i].frame # f
            /\ \A i \in (n + 1)..Len(q) : q[n].what \in Answer => q[i].frame # f
<1> DEFINE q == scope.calls
           n == scope.at
           f == q[n].frame
           S == [what : Tell \cup Answer, frame : Frames]
<1>1. Replaying(scope, book, app) /\ InOrder(book)
  BY JournalFacts
<1>2. /\ n \in Nat \ {0} /\ CallsOK(q) /\ Ahead(q, n, book, app) /\ Behind(q, n, app)
  BY <1>1 DEF Replaying
<1>3. q \in Seq(S) /\ Len(q) \in Nat /\ n \in 1..Len(q)
  BY <1>2 DEF CallsOK
<1> HIDE DEF q, n, S
<1>4. \A i \in 1..Len(q) : q[i] \in S
  BY ONLY <1>3, ElementOfSeq
<1>5. \A i \in 1..Len(q) : q[i].frame \in Frames /\ q[i].what \in Tell \cup Answer
  BY <1>4 DEF S
<1>6. /\ f \in Frames /\ f \in book.leased /\ book.disposition[f] = "staged"
      /\ q[n].what \in Tell => app.delivered[f] = 0
  BY <1>2, <1>3, <1>5 DEF Ahead
<1>7. f \notin book.objects \cup book.deferred
  BY <1>1, <1>6 DEF InOrder
<1>8. \A i, j \in 1..Len(q) :
        q[i].frame = q[j].frame /\ (q[i].what \in Tell <=> q[j].what \in Tell) => i = j
  BY <1>2 DEF CallsOK
<1>9. ASSUME q[n].what \in Answer
      PROVE  \E k \in 1..(n - 1) : q[k].what \in Tell /\ q[k].frame = f
  BY <1>2, <1>3, <1>9 DEF CallsOK
<1>10. ASSUME q[n].what \in Answer PROVE app.delivered[f] = 1
  BY <1>2, <1>9, <1>10 DEF Behind
<1>11. ASSUME NEW i \in (n + 1)..Len(q), q[n].what \in Answer, q[i].frame = f PROVE FALSE
  <2>1. PICK k \in 1..(n - 1) : q[k].what \in Tell /\ q[k].frame = f
    BY <1>9, <1>11
  <2>2. i \in 1..Len(q) /\ k \in 1..Len(q) /\ i # n /\ i # k
    BY <1>3
  <2>3. q[i].what \notin Tell /\ q[n].what \notin Tell
    <3>1. q[i].what \notin Tell
      BY <1>8, <1>11, <2>1, <2>2
    <3>2. QED BY <1>11, <3>1 DEF Tell, Answer
  <2>4. QED BY <1>3, <1>8, <1>11, <2>2, <2>3
<1>12. \A i \in 1..Len(q) : /\ i # n
                            /\ q[i].what \in Tell <=> q[n].what \in Tell
                            => q[i].frame # f
  BY <1>3, <1>8
<1>13. QED BY <1>3, <1>6, <1>7, <1>10, <1>11, <1>12 DEF q, n

LEMMA ReplayFacts ==
  ASSUME CoreInv, scope.step = "replay"
  PROVE  /\ phase = "blocks" /\ ~Chained /\ app \in Apps
         /\ InOrder(book) /\ Once(book, app) /\ Fresh(book, app, {})
         /\ scope = [record |-> scope.record, step |-> "replay", at |-> scope.at,
                     calls |-> scope.calls]
         /\ scope.at \in Nat \ {0} /\ scope.record \in file.records
         /\ CallsOK(scope.calls) /\ ClosesFirst(scope.calls)
         /\ Ahead(scope.calls, scope.at, book, app) /\ Behind(scope.calls, scope.at, app)
         /\ \/ app.open = 0 \/ app.threw
            \/ \E i \in scope.at..Len(scope.calls) : scope.calls[i].what = "endBlock"
BY JournalFacts DEF Replaying

LEMMA ReplayMoves ==
  ASSUME CoreInv, scope.step = "replay", scope' = [scope EXCEPT !.at = @ + 1]
  PROVE  /\ scope' = [record |-> scope'.record, step |-> "replay", at |-> scope'.at,
                      calls |-> scope'.calls]
         /\ scope'.record = scope.record /\ scope'.at = scope.at + 1
         /\ scope'.calls = scope.calls
<1> DEFINE n == scope.at
           m == n + 1
           r == scope.record
           q == scope.calls
<1>1. scope = [record |-> r, step |-> "replay", at |-> n, calls |-> q]
  BY ReplayFacts
<1>2. scope' = [scope EXCEPT !.at = m]
  OBVIOUS
<1> HIDE DEF n, m, r, q
<1>3. scope' = [record |-> r, step |-> "replay", at |-> m, calls |-> q]
  BY ONLY <1>1, <1>2
<1>4. QED BY ONLY <1>3 DEF n, m, r, q

(* A callback refused the frame, or its block was not reached. *)
LEMMA ReplayFails ==
  ASSUME CoreInv, scope.step = "replay", scope.at <= Len(scope.calls),
         UNCHANGED <<file, phase, status>>,
         NEW f, f = scope.calls[scope.at].frame,
         NEW a \in Apps, \A g \in Frames \ {f} : a.delivered[g] = app.delivered[g],
         a.delivered[f] \in {0, 1}, NoBlockOpen(a), ScopeFails(Marked(book, f, "failed"), a)
  PROVE  CoreInv' /\ Keeps(book, book')
<1> DEFINE c == Marked(book, f, "failed")
<1>1. /\ phase = "blocks" /\ ~Chained /\ InOrder(book) /\ Once(book, app)
      /\ Fresh(book, app, {})
  BY ReplayFacts
<1>2. /\ f \in Frames /\ f \notin book.objects \cup book.deferred
      /\ book.disposition[f] = "staged"
  BY NextCall
<1>3. /\ InOrder(c) /\ c.objects = book.objects /\ c.deferred = book.deferred
      /\ c.disposition[f] = "failed" /\ Spares(book, c, f)
  <2>1. /\ f \in Frames \ (book.objects \cup book.deferred)
        /\ book.disposition[f] \in Transient /\ "failed" # "staged"
        /\ "failed" \in {"staged", "published", "quarantined", "failed"}
    BY <1>2 DEF Transient
  <2>2. QED BY <1>1, <2>1, MarkedInOrder
<1> HIDE DEF c
<1>4. Keeps(book, c)
  BY <1>2, <1>3 DEF Keeps, Spares, Terminal
<1>5. Once(c, a)
  BY <1>1, <1>3 DEF Once, Spares
<1>6. Fresh(c, a, Delimiters(scope.record))
  <2>1. book.objects \cup book.deferred \subseteq Frames
    BY <1>1, BookFields DEF InOrder
  <2>2. QED BY <1>1, <1>2, <1>3, <2>1 DEF Fresh
<1>7. QED BY <1>1, <1>3, <1>4, <1>5, <1>6, BlockFails DEF c

(* The invariant after a call of the replay that was accepted. *)
LEMMA ReplayCore ==
  ASSUME CoreInv, scope.step = "replay", scope.at <= Len(scope.calls),
         UNCHANGED <<file, phase, status>>, pending' = pending,
         scope' = [scope EXCEPT !.at = @ + 1], app' \in Apps, InOrder(book'),
         Once(book', app'), Fresh(book', app', {}),
         Ahead(scope.calls, scope.at + 1, book', app'),
         Behind(scope.calls, scope.at + 1, app'),
         \/ app'.open = 0 \/ app'.threw
         \/ \E i \in (scope.at + 1)..Len(scope.calls) : scope.calls[i].what = "endBlock"
  PROVE  CoreInv'
<1>1. /\ phase = "blocks" /\ ~Chained /\ scope.at \in Nat \ {0}
      /\ scope.record \in file.records
      /\ CallsOK(scope.calls) /\ ClosesFirst(scope.calls)
  BY ReplayFacts
<1>2. /\ scope' = [record |-> scope'.record, step |-> "replay", at |-> scope'.at,
                   calls |-> scope'.calls]
      /\ scope'.record = scope.record /\ scope'.at = scope.at + 1
      /\ scope'.calls = scope.calls
  BY ReplayMoves
<1>3. scope'.at \in Nat \ {0} /\ scope'.record \in file'.records
  BY <1>1, <1>2
<1>4. Replaying(scope, book, app)'
  BY <1>1, <1>2, <1>3 DEF Replaying
<1>5. PendingOK'
  BY PendingKept
<1>6. QED BY <1>1, <1>4, <1>5, JournalCore

LEMMA ReplayValueStep == ASSUME CoreInv, ReplayValue PROVE CoreInv' /\ Keeps(book, book')
<1> DEFINE q == scope.calls
           n == scope.at
           f == q[n].frame
           r == scope.record
           h == Handed(app, f)
           a == CASE q[n].what = "addBlock" -> [h EXCEPT !.open = r.handle]
                  [] q[n].what = "endBlock" -> [h EXCEPT !.open = 0]
                  [] OTHER -> h
<1>1. /\ scope.step = "replay" /\ n <= Len(q) /\ q[n].what \in Tell
      /\ UNCHANGED <<file, phase, error, status>>
      /\ \/ /\ app' = a
            /\ scope' = [scope EXCEPT !.at = @ + 1]
            /\ UNCHANGED <<book, pending, sectionOk>>
         \/ ScopeFails(Marked(book, f, "failed"),
                       Threw(IF q[n].what = "addBlock" THEN h ELSE a))
  BY DEF ReplayValue, Tell
<1>2. /\ phase = "blocks" /\ ~Chained /\ app \in Apps
      /\ InOrder(book) /\ Once(book, app) /\ Fresh(book, app, {})
      /\ n \in Nat \ {0} /\ r \in file.records
      /\ CallsOK(q) /\ ClosesFirst(q) /\ Ahead(q, n, book, app) /\ Behind(q, n, app)
      /\ \/ app.open = 0 \/ app.threw
         \/ \E i \in n..Len(q) : q[i].what = "endBlock"
  BY <1>1, ReplayFacts
<1>3. /\ n \in 1..Len(q) /\ Len(q) \in Nat /\ f \in Frames
      /\ f \in book.leased /\ f \notin book.objects \cup book.deferred
      /\ book.disposition[f] = "staged" /\ app.delivered[f] = 0
      /\ \A i \in 1..Len(q) : /\ i # n
                              /\ q[i].what \in Tell
                              => q[i].frame # f
  <2>1. /\ n \in 1..Len(q) /\ Len(q) \in Nat /\ f \in Frames
        /\ f \in book.leased /\ f \notin book.objects \cup book.deferred
        /\ book.disposition[f] = "staged"
        /\ q[n].what \in Tell => app.delivered[f] = 0
        /\ \A i \in 1..Len(q) : /\ i # n
                                /\ q[i].what \in Tell <=> q[n].what \in Tell
                                => q[i].frame # f
    BY <1>1, NextCall
  <2>2. QED BY <1>1, <2>1
<1>4. r.handle \in Nat
  BY <1>2, FilesAssumption DEF CoreInv
<1>5. /\ h \in Apps /\ h.open = app.open /\ h.threw = app.threw /\ h.delivered[f] = 1
      /\ \A g \in Frames \ {f} : h.delivered[g] = app.delivered[g]
  BY <1>2, <1>3, HandedHears DEF Hears
<1> HIDE DEF f, h
<1>6. /\ a \in Apps /\ a.delivered = h.delivered /\ a.threw = h.threw
      /\ q[n].what = "endBlock" => a.open = 0
      /\ q[n].what \notin {"addBlock", "endBlock"} => a.open = h.open
  <2>1. CASE q[n].what = "addBlock"
    <3>1. a = [h EXCEPT !.open = r.handle]
      BY <2>1
    <3>2. QED BY <1>4, <1>5, <2>1, <3>1, OpenKeeps
  <2>2. CASE q[n].what = "endBlock"
    <3>1. a = [h EXCEPT !.open = 0]
      BY <2>2
    <3>2. QED BY <1>5, <2>2, <3>1, OpenKeeps
  <2>3. CASE q[n].what \notin {"addBlock", "endBlock"}
    <3>1. a = h
      BY <2>3
    <3>2. QED BY <1>5, <2>3, <3>1
  <2>4. QED BY <2>1, <2>2, <2>3
<1> HIDE DEF a
<1>7. CASE /\ app' = a
           /\ scope' = [scope EXCEPT !.at = @ + 1]
           /\ UNCHANGED <<book, pending, sectionOk>>
  <2>1. /\ app'.delivered[f] = 1 /\ app' \in Apps
        /\ \A g \in Frames \ {f} : app'.delivered[g] = app.delivered[g]
    BY <1>5, <1>6, <1>7
  <2>2. Once(book', app') /\ Fresh(book', app', {}) /\ InOrder(book')
    <3>1. book.objects \cup book.deferred \subseteq Frames
      BY <1>2, BookFields DEF InOrder
    <3>2. QED BY <1>2, <1>3, <1>7, <2>1, <3>1 DEF Once, Fresh
  <2>3. \A i \in 1..Len(q) : q[i].frame \in Frames
    <3> DEFINE S == [what : Tell \cup Answer, frame : Frames]
    <3>1. q \in Seq(S)
      BY <1>2 DEF CallsOK
    <3> HIDE DEF S
    <3>2. \A i \in 1..Len(q) : q[i] \in S
      BY ONLY <3>1, ElementOfSeq
    <3>3. QED BY <3>2 DEF S
  <2>4. Ahead(q, n + 1, book', app')
    <3>1. ASSUME NEW i \in (n + 1)..Len(q)
          PROVE  /\ q[i].frame \in book'.leased /\ book'.disposition[q[i].frame] = "staged"
                 /\ q[i].what \in Tell => app'.delivered[q[i].frame] = 0
      <4>1. i \in n..Len(q) /\ i \in 1..Len(q) /\ i # n
        BY <1>2, <1>3
      <4>2. QED BY <1>2, <1>3, <1>7, <2>1, <2>3, <4>1 DEF Ahead
    <3>2. QED BY <3>1 DEF Ahead
  <2>5. Behind(q, n + 1, app')
    <3>1. ASSUME NEW i \in 1..((n + 1) - 1), q[i].what \in Tell
          PROVE  app'.delivered[q[i].frame] = 1
      <4>1. CASE i = n
        BY <2>1, <4>1 DEF f
      <4>2. CASE i # n
        <5>1. i \in 1..(n - 1) /\ i \in 1..Len(q)
          BY <1>2, <1>3, <4>2
        <5>2. QED BY <1>2, <1>3, <2>1, <2>3, <3>1, <4>2, <5>1 DEF Behind
      <4>3. QED BY <4>1, <4>2
    <3>2. QED BY <3>1 DEF Behind
  <2>6. \/ app'.open = 0 \/ app'.threw
        \/ \E i \in (n + 1)..Len(q) : q[i].what = "endBlock"
    <3>1. CASE q[n].what = "endBlock"
      BY <1>6, <1>7, <3>1
    <3>2. CASE q[n].what = "addBlock"
      <4>1. n = 1
        BY <1>2, <1>3, <3>2 DEF CallsOK
      <4>2. PICK i \in 2..Len(q) : q[i].what = "endBlock"
        BY <1>2 DEF ClosesFirst
      <4>3. QED BY <4>1, <4>2
    <3>3. CASE q[n].what \notin {"addBlock", "endBlock"}
      <4>1. app'.open = app.open /\ app'.threw = app.threw
        BY <1>5, <1>6, <1>7, <3>3
      <4>2. CASE \E i \in n..Len(q) : q[i].what = "endBlock"
        <5>1. PICK i \in n..Len(q) : q[i].what = "endBlock"
          BY <4>2
        <5>2. i # n
          BY <3>3, <5>1
        <5>3. i \in (n + 1)..Len(q)
          BY <1>2, <1>3, <5>2
        <5>4. QED BY <5>1, <5>3
      <4>3. QED BY <1>2, <4>1, <4>2
    <3>4. QED BY <3>1, <3>2, <3>3
  <2>7. CoreInv'
    BY <1>1, <1>7, <2>1, <2>2, <2>4, <2>5, <2>6, ReplayCore
  <2>8. QED BY <1>7, <2>7 DEF Keeps
<1>8. CASE ScopeFails(Marked(book, f, "failed"),
                      Threw(IF q[n].what = "addBlock" THEN h ELSE a))
  <2> DEFINE b == IF q[n].what = "addBlock" THEN h ELSE a
  <2>1. b \in Apps /\ b.delivered = h.delivered
    BY <1>5, <1>6
  <2> HIDE DEF b
  <2>2. Threw(b) \in Apps /\ Threw(b).delivered = h.delivered /\ Threw(b).threw
    BY <2>1, ThrewKeeps
  <2>3. NoBlockOpen(Threw(b))
    BY <1>2, <2>2 DEF NoBlockOpen
  <2>4. /\ \A g \in Frames \ {f} : Threw(b).delivered[g] = app.delivered[g]
        /\ Threw(b).delivered[f] \in {0, 1} /\ f = q[n].frame
    BY <1>5, <2>2 DEF f
  <2>5. ScopeFails(Marked(book, f, "failed"), Threw(b))
    BY <1>8 DEF b
  <2>6. QED BY <1>1, <2>2, <2>3, <2>4, <2>5, ReplayFails
<1>9. QED BY <1>1, <1>7, <1>8 DEF f, h, a

LEMMA ReplayReceiptStep == ASSUME CoreInv, ReplayReceipt PROVE CoreInv' /\ Keeps(book, book')
<1> DEFINE q == scope.calls
           n == scope.at
           f == q[n].frame
           r == scope.record
           reached == [app EXCEPT !.reached = @ \cup {r}]
<1>1. /\ scope.step = "replay" /\ n <= Len(q) /\ q[n].what \in Answer
      /\ UNCHANGED <<file, phase, error, status>>
      /\ \/ /\ app' = app \/ app' = reached
            /\ book' = Discarded(Receipted(book, f, FALSE), f)
            /\ scope' = [scope EXCEPT !.at = @ + 1]
            /\ UNCHANGED <<pending, sectionOk>>
         \/ /\ q[n].what = "complete"
            /\ ScopeFails(Marked(book, f, "failed"), app)
         \/ ScopeFails(Receipted(book, f, TRUE), Threw(app))
  BY DEF ReplayReceipt, Answer
<1>2. /\ phase = "blocks" /\ ~Chained /\ app \in Apps
      /\ InOrder(book) /\ Once(book, app) /\ Fresh(book, app, {})
      /\ n \in Nat \ {0} /\ r \in file.records
      /\ CallsOK(q) /\ ClosesFirst(q) /\ Ahead(q, n, book, app) /\ Behind(q, n, app)
      /\ \/ app.open = 0 \/ app.threw
         \/ \E i \in n..Len(q) : q[i].what = "endBlock"
  BY <1>1, ReplayFacts
<1>3. /\ n \in 1..Len(q) /\ Len(q) \in Nat /\ f \in Frames
      /\ f \in book.leased /\ f \notin book.objects \cup book.deferred
      /\ book.disposition[f] = "staged" /\ app.delivered[f] = 1
      /\ \A i \in (n + 1)..Len(q) : q[i].frame # f
  <2>1. /\ n \in 1..Len(q) /\ Len(q) \in Nat /\ f \in Frames
        /\ f \in book.leased /\ f \notin book.objects \cup book.deferred
        /\ book.disposition[f] = "staged"
        /\ q[n].what \in Answer => app.delivered[f] = 1
        /\ \A i \in (n + 1)..Len(q) : q[n].what \in Answer => q[i].frame # f
    BY <1>1, NextCall
  <2>2. QED BY <1>1, <2>1
<1>4. book.disposition[f] \in Transient
  BY <1>3 DEF Transient
<1>5. r \in Records
  BY <1>2 DEF Records, CoreInv
<1> HIDE DEF f
<1>6. CASE /\ app' = app \/ app' = reached
           /\ book' = Discarded(Receipted(book, f, FALSE), f)
           /\ scope' = [scope EXCEPT !.at = @ + 1]
           /\ UNCHANGED <<pending, sectionOk>>
  <2>1. /\ app' \in Apps /\ app'.delivered = app.delivered /\ app'.open = app.open
        /\ app'.threw = app.threw
    <3>1. app.reached \cup {r} \in SUBSET Records
      BY <1>2, <1>5 DEF Apps
    <3>2. QED BY <1>2, <1>6, <3>1, ReachedKeeps
  <2> DEFINE m == Marked(book, f, "published")
  <2>2. Receipted(book, f, FALSE) = m
    BY <1>2, <1>3, <1>4, ReceiptedIsMarked
  <2>3. /\ InOrder(m) /\ m.objects = book.objects /\ m.deferred = book.deferred
        /\ m.leased = book.leased /\ m.disposition[f] = "published" /\ Spares(book, m, f)
    <3>1. /\ f \in Frames \ (book.objects \cup book.deferred) /\ "published" # "staged"
          /\ "published" \in {"staged", "published", "quarantined", "failed"}
      BY <1>3
    <3>2. QED BY <1>2, <1>4, <3>1, MarkedInOrder
  <2> HIDE DEF m
  <2>4. /\ InOrder(book') /\ book'.objects = book.objects /\ book'.deferred = book.deferred
        /\ book'.leased = book.leased \ {f} /\ book'.disposition = m.disposition
    <3>1. book' = Discarded(m, f) /\ f \in Frames /\ InOrder(m)
      BY <1>3, <1>6, <2>2, <2>3
    <3>2. m.disposition[f] \in Terminal
      BY <2>3 DEF Terminal
    <3>3. LET c == Discarded(m, f)
          IN /\ InOrder(c) /\ c.objects = m.objects /\ c.deferred = m.deferred
             /\ c.leased = m.leased \ {f} /\ c.disposition = m.disposition
      BY ONLY <3>1, <3>2, DiscardedInOrder
    <3>4. QED BY <2>3, <3>1, <3>3
  <2>5. Keeps(book, book')
    BY <1>3, <2>3, <2>4 DEF Keeps, Spares, Terminal
  <2>6. Once(book', app') /\ Fresh(book', app', {})
    BY <1>2, <1>3, <2>1, <2>3, <2>4 DEF Once, Fresh, Spares
  <2>7. book.leased \subseteq Frames
    BY <1>2, BookFields DEF InOrder
  <2>8. Ahead(q, n + 1, book', app')
    <3>1. ASSUME NEW i \in (n + 1)..Len(q)
          PROVE  /\ q[i].frame \in book'.leased /\ book'.disposition[q[i].frame] = "staged"
                 /\ q[i].what \in Tell => app'.delivered[q[i].frame] = 0
      <4>1. i \in n..Len(q) /\ q[i].frame # f
        BY <1>2, <1>3
      <4>2. /\ q[i].frame \in book.leased /\ book.disposition[q[i].frame] = "staged"
            /\ q[i].what \in Tell => app.delivered[q[i].frame] = 0
        BY <1>2, <4>1 DEF Ahead
      <4>3. QED BY <2>1, <2>3, <2>4, <2>7, <4>1, <4>2 DEF Spares
    <3>2. QED BY <3>1 DEF Ahead
  <2>9. Behind(q, n + 1, app')
    <3>1. ASSUME NEW i \in 1..((n + 1) - 1), q[i].what \in Tell
          PROVE  app'.delivered[q[i].frame] = 1
      <4>1. i # n
        BY <1>1, <3>1 DEF Tell, Answer
      <4>2. i \in 1..(n - 1)
        BY <1>2, <1>3, <4>1
      <4>3. QED BY <1>2, <2>1, <3>1, <4>2 DEF Behind
    <3>2. QED BY <3>1 DEF Behind
  <2>10. \/ app'.open = 0 \/ app'.threw
         \/ \E i \in (n + 1)..Len(q) : q[i].what = "endBlock"
    <3>1. CASE \E i \in n..Len(q) : q[i].what = "endBlock"
      <4>1. PICK i \in n..Len(q) : q[i].what = "endBlock"
        BY <3>1
      <4>2. i # n
        BY <1>1, <4>1 DEF Answer
      <4>3. i \in (n + 1)..Len(q)
        BY <1>2, <1>3, <4>2
      <4>4. QED BY <4>1, <4>3
    <3>2. QED BY <1>2, <2>1, <3>1
  <2>11. CoreInv'
    BY <1>1, <1>6, <2>1, <2>4, <2>6, <2>8, <2>9, <2>10, ReplayCore
  <2>12. QED BY <2>5, <2>11
<1>7. CASE /\ q[n].what = "complete"
           /\ ScopeFails(Marked(book, f, "failed"), app)
  <2>1. NoBlockOpen(app)
    <3>1. ~ \E i \in n..Len(q) : q[i].what = "endBlock"
      <4>1. ASSUME NEW i \in n..Len(q), q[i].what = "endBlock" PROVE FALSE
        <5>1. i \in 1..Len(q) /\ ~(i < n)
          BY <1>2, <1>3
        <5>2. QED BY <1>2, <1>3, <1>7, <4>1, <5>1 DEF ClosesFirst
      <4>2. QED BY <4>1
    <3>2. QED BY <1>2, <3>1 DEF NoBlockOpen
  <2>2. app.delivered[f] \in {0, 1} /\ f = q[n].frame
    BY <1>3 DEF f
  <2>3. QED BY <1>1, <1>2, <1>7, <2>1, <2>2, ReplayFails
<1>8. CASE ScopeFails(Receipted(book, f, TRUE), Threw(app))
  <2>1. Receipted(book, f, TRUE) = Marked(book, f, "failed")
    BY <1>2, <1>3, <1>4, ReceiptedIsMarked
  <2>2. Threw(app) \in Apps /\ Threw(app).delivered = app.delivered /\ Threw(app).threw
    BY <1>2, ThrewKeeps
  <2>3. NoBlockOpen(Threw(app))
    BY <1>2, <2>2 DEF NoBlockOpen
  <2>4. /\ \A g \in Frames \ {f} : Threw(app).delivered[g] = app.delivered[g]
        /\ Threw(app).delivered[f] \in {0, 1} /\ f = q[n].frame
    BY <1>3, <2>2 DEF f
  <2>5. ScopeFails(Marked(book, f, "failed"), Threw(app))
    BY <1>8, <2>1
  <2>6. QED BY <1>1, <2>2, <2>3, <2>4, <2>5, ReplayFails
<1>9. QED BY <1>1, <1>6, <1>7, <1>8 DEF f

LEMMA EndReplayStep == ASSUME CoreInv, EndReplay PROVE CoreInv' /\ Keeps(book, book')
<1>1. /\ scope.step = "replay" /\ scope.at > Len(scope.calls)
      /\ UNCHANGED <<file, phase, error, status>>
      /\ \/ ScopeEnds /\ UNCHANGED <<book, app, sectionOk>>
         \/ ScopeFails(book, app)
  BY DEF EndReplay
<1>2. /\ phase = "blocks" /\ ~Chained /\ app \in Apps
      /\ InOrder(book) /\ Once(book, app) /\ Fresh(book, app, {})
      /\ scope.at \in Nat /\ CallsOK(scope.calls)
      /\ \/ app.open = 0 \/ app.threw
         \/ \E i \in scope.at..Len(scope.calls) : scope.calls[i].what = "endBlock"
  BY <1>1, ReplayFacts
<1>3. Len(scope.calls) \in Nat
  BY <1>2 DEF CallsOK
<1>4. NoBlockOpen(app)
  BY <1>1, <1>2, <1>3 DEF NoBlockOpen
<1>5. CASE ScopeEnds /\ UNCHANGED <<book, app, sectionOk>>
  <2>1. scope' = NoScope /\ pending' \subseteq pending
    BY <1>5 DEF ScopeEnds
  <2>2. PendingOK' /\ NoBlockOpen(app') /\ phase # "done"
    BY <1>1, <1>2, <1>4, <1>5, <2>1, PendingKept
  <2>3. phase' \in {"blocks", "entities", "objects", "finish"}
    BY <1>1, <1>2
  <2>4. InOrder(book') /\ Once(book', app') /\ Fresh(book', app', {}) /\ app' \in Apps
    BY <1>2, <1>5
  <2>5. CoreInv'
    BY <1>1, <2>1, <2>2, <2>3, <2>4, OutsideCore
  <2>6. QED BY <1>5, <2>5 DEF Keeps
<1>6. CASE ScopeFails(book, app)
  <2>1. Fresh(book, app, Delimiters(scope.record)) /\ Keeps(book, book)
    BY <1>2 DEF Fresh, Keeps
  <2>2. QED BY <1>1, <1>2, <1>4, <1>6, <2>1, BlockFails
<1>7. QED BY <1>1, <1>5, <1>6

------------------------------------------------------------------------------
(* The end of the read, and the theorems. *)

LEMMA FinishStep == ASSUME CoreInv, Finish PROVE CoreInv' /\ Keeps(book, book')
<1>1. /\ phase = "finish" /\ phase' = "done"
      /\ UNCHANGED <<file, error, pending, sectionOk, scope, app>>
      /\ \/ book' = book
         \/ book' = [book EXCEPT !.disposition = [f \in Frames |->
                       IF @[f] \in Transient THEN "unresolved" ELSE @[f]]]
  BY DEF Finish
<1>2. /\ scope = NoScope /\ NoBlockOpen(app) /\ app \in Apps /\ InOrder(book)
      /\ Once(book, app) /\ PendingOK
  BY <1>1, OutsideFacts
<1>3. book \in Books /\ book.alarm = FALSE
  BY <1>2 DEF InOrder
<1>4. /\ book'.alarm = FALSE
      /\ \A f \in Frames : \/ book'.disposition[f] = book.disposition[f]
                           \/ /\ book.disposition[f] \in Transient
                              /\ book'.disposition[f] = "unresolved"
  <2>1. CASE book' = book
    BY <1>3, <2>1
  <2>2. CASE book' = [book EXCEPT !.disposition = [f \in Frames |->
                        IF @[f] \in Transient THEN "unresolved" ELSE @[f]]]
    <3>1. /\ book'.alarm = book.alarm
          /\ book'.disposition = [f \in Frames |->
               IF book.disposition[f] \in Transient THEN "unresolved"
               ELSE book.disposition[f]]
      BY ONLY <1>3, <2>2 DEF Books
    <3>2. QED BY <1>3, <3>1
  <2>3. QED BY <1>1, <2>1, <2>2
<1>5. Once(book', app') /\ Keeps(book, book')
  BY <1>1, <1>2, <1>4 DEF Once, Keeps, Transient, Terminal
<1>6. PendingOK' /\ NoBlockOpen(app')
  BY <1>1, <1>2, PendingKept DEF CoreInv
<1>7. ScopeOK(scope, book, app)'
  BY <1>1, <1>2, <1>6 DEF ScopeOK, NoBlockOpen, Chained
<1>8. CoreInv'
  BY <1>1, <1>2, <1>4, <1>5, <1>6, <1>7 DEF CoreInv, Phases, InBooks
<1>9. QED BY <1>5, <1>8

LEMMA StutterStep == ASSUME CoreInv, UNCHANGED vars PROVE CoreInv' /\ Keeps(book, book')
<1>1. UNCHANGED <<file, phase, error, book, pending, sectionOk, scope, app, status>>
  BY DEF vars
<1>2. PendingOK'
  BY <1>1, PendingKept
<1>3. /\ Exempt(scope)' = Exempt(scope)
      /\ ScopeOK(scope, book, app)' = ScopeOK(scope, book, app)
      /\ InBooks' = InBooks
  BY <1>1 DEF Exempt, ScopeOK, InBooks, NoBlockOpen, Chained, Walking, Journalling, Replaying
<1>4. CoreInv'
  BY <1>1, <1>2, <1>3 DEF CoreInv
<1>5. QED BY <1>1, <1>4 DEF Keeps

LEMMA StepKeepsCore == CoreInv /\ [Next]_vars => CoreInv' /\ Keeps(book, book')
<1> SUFFICES ASSUME CoreInv, [Next]_vars PROVE CoreInv' /\ Keeps(book, book')
  OBVIOUS
<1>1. CASE ReadStructure BY <1>1, StructureStep
<1>2. CASE CheckClaims BY <1>2, ClaimsStep
<1>3. CASE RefuseRecord BY <1>3, RefuseStep
<1>4. CASE ReadJournalled
  <2>1. CASE OpenJournal BY <2>1, OpenJournalStep
  <2>2. CASE JournalEntity BY <2>2, JournalEntityStep
  <2>3. CASE FailJournal BY <2>3, FailJournalStep
  <2>4. CASE SealJournal BY <2>4, SealJournalStep
  <2>5. CASE ReplayValue BY <2>5, ReplayValueStep
  <2>6. CASE ReplayReceipt BY <2>6, ReplayReceiptStep
  <2>7. CASE EndReplay BY <2>7, EndReplayStep
  <2>8. QED BY <1>4, <2>1, <2>2, <2>3, <2>4, <2>5, <2>6, <2>7 DEF ReadJournalled
<1>5. CASE ReadChained
  <2>1. CASE OpenBlock BY <2>1, OpenStep
  <2>2. CASE WalkEntity BY <2>2, WalkStep
  <2>3. CASE EndChain BY <2>3, EndChainStep
  <2>4. CASE CloseBlock BY <2>4, CloseStep
  <2>5. CASE CommitBlock BY <2>5, CommitStep
  <2>6. QED BY <1>5, <2>1, <2>2, <2>3, <2>4, <2>5 DEF ReadChained
<1>6. CASE EndBlocks \/ EndEntities \/ EndObjects BY <1>6, EndStep
<1>7. CASE SweepEntity BY <1>7, SweepStep
<1>8. CASE ReadObject BY <1>8, ObjectStep
<1>9. CASE Finish BY <1>9, FinishStep
<1>10. CASE UNCHANGED vars BY <1>10, StutterStep
<1>11. QED
  BY <1>1, <1>2, <1>3, <1>4, <1>5, <1>6, <1>7, <1>8, <1>9, <1>10 DEF Next

LEMMA CoreHolds == Spec => []CoreInv
<1>1. Init => CoreInv
  BY InitCore
<1>2. CoreInv /\ [Next]_vars => CoreInv'
  BY StepKeepsCore
<1>3. QED BY <1>1, <1>2, PTL DEF Spec

(* No read ever comes to the transition its author calls impossible         *)
(* (reportDwgFrameTransitionFailure): whatever the file holds, a frame is   *)
(* detached, marked, deferred or given up only from where that is allowed.  *)
THEOREM LedgerInOrder == Spec => []NeverAlarmed
<1>1. CoreInv => NeverAlarmed
  BY DEF CoreInv, InBooks, InOrder, NeverAlarmed
<1>2. QED BY <1>1, CoreHolds, PTL

(* The application hears of a frame at most once, and what the ledger       *)
(* calls published it has heard of.                                         *)
THEOREM HeardOnce == Spec => []DeliveredOnce
<1>1. CoreInv => DeliveredOnce
  BY DEF CoreInv, Once, DeliveredOnce
<1>2. QED BY <1>1, CoreHolds, PTL

(* Whenever no block is being read the application is outside of every      *)
(* block, or one of its own callbacks threw during a replay.                *)
THEOREM BlocksEnd == Spec => []BlocksBalanced
<1>1. CoreInv => BlocksBalanced
  <2>1. ASSUME CoreInv, scope = NoScope PROVE NoBlockOpen(app)
    BY <2>1, OutsideBlocks
  <2>2. QED BY <2>1 DEF BlocksBalanced, NoBlockOpen
<1>2. QED BY <1>1, CoreHolds, PTL

------------------------------------------------------------------------------
(* The read implements FrameCoverage. *)

OutcomeOf(b) == [f \in Frames |->
                   CASE b.disposition[f] \in Transient -> "open"
                     [] b.disposition[f] = "published" -> "published"
                     [] OTHER -> "lost"]
ReportOf(s) == IF s \in {"complete", "partial"} THEN s ELSE "none"

LEMMA OutcomeIs ==
  ASSUME NEW b
  PROVE  /\ OutcomeOf(b) \in [Frames -> {"open", "published", "lost"}]
         /\ \A f \in Frames :
              /\ OutcomeOf(b)[f] = "open" <=> b.disposition[f] \in Transient
              /\ OutcomeOf(b)[f] = "published" <=> b.disposition[f] = "published"
<1>1. "published" \notin Transient
  BY DEF Transient
<1>2. QED BY <1>1 DEF OutcomeOf

(* Nothing happens once the read has returned. *)
LEMMA StillReading ==
  ASSUME CoreInv, Next
  PROVE  /\ phase # "done" /\ ReportOf(status) = "none" /\ InOrder(book)
<1>1. phase # "done"
  <2>1. CASE ReadJournalled \/ ReadChained
    <3>1. CASE scope.step # "none"
      <4>1. scope # NoScope
        BY <3>1 DEF NoScope
      <4>2. QED BY <4>1, OutsideBlocks
    <3>2. CASE scope.step = "none"
      BY <2>1, <3>2
      DEF ReadJournalled, ReadChained, OpenJournal, JournalEntity, FailJournal, SealJournal,
          ReplayValue, ReplayReceipt, EndReplay, OpenBlock, WalkEntity, EndChain,
          CloseBlock, CommitBlock, ReadingBlocks
    <3>3. QED BY <3>1, <3>2
  <2>2. CASE ~(ReadJournalled \/ ReadChained)
    BY <2>2
    DEF Next, ReadStructure, CheckClaims, RefuseRecord, EndBlocks, SweepEntity, EndEntities,
        ReadObject, EndObjects, Finish, ReadingBlocks
  <2>3. QED BY <2>1, <2>2
<1>2. QED BY <1>1 DEF CoreInv, InBooks, ReportOf

LEMMA ReportWaits ==
  ASSUME CoreInv, Next, ~Finish
  PROVE  ReportOf(status') = "none"
<1>1. CASE ReadStructure
  BY <1>1 DEF ReadStructure, ReportOf
<1>2. CASE ~ReadStructure
  <2>1. status' = status
    <3>1. CASE ReadJournalled
      BY <3>1 DEF ReadJournalled, OpenJournal, JournalEntity, FailJournal, SealJournal,
                  ReplayValue, ReplayReceipt, EndReplay
    <3>2. CASE ReadChained
      BY <3>2 DEF ReadChained, OpenBlock, WalkEntity, EndChain, CloseBlock, CommitBlock
    <3>3. CASE ~ReadJournalled /\ ~ReadChained
      BY <1>2, <3>3 DEF Next, CheckClaims, RefuseRecord, EndBlocks, SweepEntity,
                        EndEntities, ReadObject, EndObjects
    <3>4. QED BY <3>1, <3>2, <3>3
  <2>2. QED BY <2>1, StillReading
<1>3. QED BY <1>1, <1>2

LEMMA CoverageInit == ASSUME Init PROVE Coverage!Init
<1>1. OutcomeOf(book) = [f \in Frames |-> "open"]
  <2>1. \A f \in Frames : OutcomeOf(book)[f] = "open"
    BY OutcomeIs, NewBookFits DEF Init, Transient
  <2>2. QED BY <2>1 DEF OutcomeOf
<1>2. ReportOf(status) = "none"
  BY DEF Init, ReportOf
<1>3. QED BY <1>1, <1>2 DEF Coverage!Init, OutcomeOf, ReportOf

(* Every step before the report settles frames, or none. *)
LEMMA CoverageSettles ==
  ASSUME CoreInv, Next, ~Finish
  PROVE  Coverage!Settle
<1>1. ReportOf(status) = "none" /\ ReportOf(status') = "none"
  BY StillReading, ReportWaits
<1>2. OutcomeOf(book') \in [Frames -> {"open", "published", "lost"}]
  BY OutcomeIs
<1>3. ASSUME NEW f \in Frames, OutcomeOf(book)[f] # "open"
      PROVE  OutcomeOf(book')[f] = OutcomeOf(book)[f]
  <2>1. book.disposition[f] \in Terminal
    BY <1>3, StillReading, OutcomeIs, BookFields DEF InOrder, Outcomes
  <2>2. book'.disposition[f] = book.disposition[f]
    BY <2>1, StepKeepsCore DEF Keeps
  <2>3. QED BY <2>2 DEF OutcomeOf
<1>4. QED BY <1>1, <1>2, <1>3 DEF Coverage!Settle, OutcomeOf, ReportOf

LEMMA CoverageReports ==
  ASSUME CoreInv, Finish
  PROVE  Coverage!Report \/ UNCHANGED Coverage!coverageVars
<1>1. CASE status = "notAvailable"
  <2>1. book' = book /\ status' = status
    BY <1>1 DEF Finish
  <2>2. OutcomeOf(book') = OutcomeOf(book) /\ ReportOf(status') = ReportOf(status)
    BY <2>1
  <2>3. QED BY <2>2 DEF Coverage!coverageVars, OutcomeOf, ReportOf
<1>2. CASE status # "notAvailable"
  <2> DEFINE settled == [book EXCEPT !.disposition = [f \in Frames |->
                          IF @[f] \in Transient THEN "unresolved" ELSE @[f]]]
  <2>1. /\ book' = settled /\ status' \in {"complete", "partial"}
        /\ status' = "complete" => \A f \in Frames : settled.disposition[f] = "published"
    BY <1>2 DEF Finish
  <2>2. ReportOf(status) = "none" /\ book \in Books
    BY StillReading DEF Next, InOrder
  <2>3. settled.disposition = [f \in Frames |->
           IF book.disposition[f] \in Transient THEN "unresolved" ELSE book.disposition[f]]
    BY <2>2 DEF Books
  <2> HIDE DEF settled
  <2>4. OutcomeOf(book') = [f \in Frames |->
           IF OutcomeOf(book)[f] = "open" THEN "lost" ELSE OutcomeOf(book)[f]]
    <3>1. ASSUME NEW f \in Frames
          PROVE  OutcomeOf(book')[f] =
                   IF OutcomeOf(book)[f] = "open" THEN "lost" ELSE OutcomeOf(book)[f]
      BY <2>1, <2>3 DEF OutcomeOf, Transient
    <3>2. QED BY <3>1 DEF OutcomeOf
  <2>5. status' = "complete" => \A f \in Frames : OutcomeOf(book)[f] = "published"
    <3>1. ASSUME status' = "complete", NEW f \in Frames
          PROVE  book.disposition[f] = "published"
      BY <2>1, <2>3, <3>1
    <3>2. QED BY <3>1, OutcomeIs
  <2>6. ReportOf(status') = status'
    BY <2>1 DEF ReportOf
  <2>7. QED BY <2>1, <2>2, <2>4, <2>5, <2>6 DEF Coverage!Report, OutcomeOf, ReportOf
<1>3. QED BY <1>1, <1>2

LEMMA CoverageSteps ==
  CoreInv /\ [Next]_vars => [Coverage!Next]_(Coverage!coverageVars)
<1> SUFFICES ASSUME CoreInv, [Next]_vars
             PROVE  Coverage!Next \/ UNCHANGED Coverage!coverageVars
  OBVIOUS
<1>1. CASE Next /\ ~Finish
  BY <1>1, CoverageSettles DEF Coverage!Next
<1>2. CASE Finish
  BY <1>2, CoverageReports DEF Coverage!Next
<1>3. CASE UNCHANGED vars
  BY <1>3 DEF vars, Coverage!coverageVars
<1>4. QED BY <1>1, <1>2, <1>3

(* For any files, whatever they hold: every frame of the handle map is      *)
(* settled once and for good, one report ends the read, and it says         *)
(* "complete" only of a read that published every frame.                    *)
THEOREM ReadImplementsCoverage == Spec => ImplementsFrameCoverage
<1>1. Init => Coverage!Init
  BY CoverageInit
<1>2. QED
  BY <1>1, CoreHolds, CoverageSteps, PTL DEF Spec, ImplementsFrameCoverage, Coverage!Spec
==============================================================================
