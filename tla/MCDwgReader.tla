----------------------------- MODULE MCDwgReader -----------------------------
(* The files DwgReader reads: one named block and the model space.           *)
(*                                                                           *)
(*   1, 2   BLOCK and ENDBLK of the named block      3, 4  those of the space *)
(*   5, 6   two more frames                          9     a handle that no   *)
(*                                                         frame has         *)
EXTENDS DwgReader

SixFrames == 1..6
Named == 10                               \* the handle of the named block's record
Space == 11
Missing == 9

Record(handle, block, endBlock, space, first, last, entMap) ==
  [handle |-> handle, block |-> block, endBlock |-> endBlock, space |-> space,
   first |-> first, last |-> last, entMap |-> entMap]

(* The frames 5 and 6: what they are, whether they parse, who owns them. *)
Kinds(five, six) == <<"block", "endblk", "block", "endblk", five, six>>
Parses(two, five) == <<TRUE, two, TRUE, TRUE, five, TRUE>>
Owners(two, five, six) == <<Named, two, 0, 0, five, six>>

NoLinks == [f \in SixFrames |-> 0]
AllExplicit == [f \in SixFrames |-> FALSE]

Contents(fives, sixes) ==
  {<<five, six, parses, twoOwner, twoParses, fiveOwner, sixOwner>> \in
      fives \X sixes \X BOOLEAN \X {Named, 0} \X BOOLEAN \X {Named, 0} \X {Named, 0, Missing} :
   /\ twoOwner = Named \/ twoParses       \* one thing wrong with the ENDBLK at most
   /\ five # "entity" => parses /\ fiveOwner = 0}

File(version, c, records, next, implicit) ==
  [version |-> version, kind |-> Kinds(c[1], c[2]), parses |-> Parses(c[5], c[3]),
   owner |-> Owners(c[4], c[6], c[7]), records |-> records, next |-> next, implicit |-> implicit]

Sane == {c \in Contents({"entity"}, {"entity"}) :
           c[3] /\ c[4] = Named /\ c[5] /\ c[6] = Named /\ c[7] # Missing}

Listing(version, c, endBlock, listed, inSpace) ==
  File(version, c, {Record(Named, 1, endBlock, FALSE, 0, 0, listed),
                    Record(Space, 3, 4, TRUE, 0, 0, inSpace)}, NoLinks, AllExplicit)

Modern == {"R2004", "R2007"}

(* What the listed frames hold, and what the records list. *)
ListingFiles ==
  {Listing(version, c, 2, listed, inSpace) :
     version \in Modern, c \in Contents({"entity", "object", "broken"}, {"entity"}),
     listed \in {<<5>>, <<5, 6>>}, inSpace \in {<<>>, <<6>>}}
  \cup
  {Listing(version, c, endBlock, listed, inSpace) :
     version \in Modern, c \in Sane, endBlock \in {2, 4},
     listed \in {<<>>, <<5>>, <<6, 5>>, <<5, 5>>, <<3>>, <<Missing>>},
     inSpace \in {<<>>, <<6>>, <<5>>}}

Chain(c, endBlock, first, last, inSpace, five, six, implicit) ==
  File("R2000", c, {Record(Named, 1, endBlock, FALSE, first, last, <<>>),
                    Record(Space, 3, 4, TRUE, inSpace, 6, <<>>)},
       [NoLinks EXCEPT ![5] = five, ![6] = six], [AllExplicit EXCEPT ![5] = implicit])

(* What the chained frames hold, and where the links lead. *)
ChainedFiles ==
  {Chain(c, 2, 5, 6, inSpace, 6, 0, FALSE) :
     c \in Contents({"entity", "object", "broken"}, {"entity", "object"}), inSpace \in {0, 6}}
  \cup
  {Chain(c, endBlock, first, last, inSpace, five, six, implicit) :
     c \in Sane, endBlock \in {2, 4}, first \in {0, 5, 6, Missing}, last \in {5, 6},
     inSpace \in {0, 6}, five \in {0, 6, Missing, 5, 3}, six \in {0, 5},
     implicit \in BOOLEAN}

ReadFiles == ListingFiles \cup ChainedFiles
Callbacks == {"value", "receipt"}
Rooms == BOOLEAN

==============================================================================
