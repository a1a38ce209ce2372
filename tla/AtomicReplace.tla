--------------------------- MODULE AtomicReplace ---------------------------
(* What a caller of DwgDxfOutputTransaction is promised (header comment,     *)
(* dwg_dxf_output_transaction.h:34-36): the destination goes from one whole  *)
(* version to another in a single step, a transaction that reported failure  *)
(* was never visible, and one that reported success was.  A machine crash    *)
(* may bring back an earlier version (the directory sync after the rename is *)
(* best effort), never a torn one.                                           *)
EXTENDS Integers

CONSTANTS Writers,     \* the transactions
          MaxDirs,     \* directories are numbered 1..MaxDirs
          Nothing,     \* the version of a destination that does not exist
          Before       \* the version a destination had at the start

Dirs == 1..MaxDirs
Versions == Writers \cup {Nothing, Before}

VARIABLES visible,     \* what opening the destination in a directory reads
          published,   \* <<w, d>>: w's version has been visible in directory d
          outcome      \* what the transaction told its caller

avars == <<visible, published, outcome>>

AInit == /\ visible \in [Dirs -> {Nothing, Before}]
         /\ published = {}
         /\ outcome = [w \in Writers |-> "pending"]

Published(w) == \E d \in Dirs : <<w, d>> \in published

Publish(w, d) == /\ outcome[w] = "pending"
                 /\ ~Published(w)
                 /\ visible' = [visible EXCEPT ![d] = w]
                 /\ published' = published \cup {<<w, d>>}
                 /\ UNCHANGED outcome

ReportSuccess(w) == /\ outcome[w] = "pending"
                    /\ Published(w)
                    /\ outcome' = [outcome EXCEPT ![w] = "committed"]
                    /\ UNCHANGED <<visible, published>>

ReportFailure(w) == /\ outcome[w] = "pending"
                    /\ ~Published(w)
                    /\ outcome' = [outcome EXCEPT ![w] = "failed"]
                    /\ UNCHANGED <<visible, published>>

Die(w) == /\ outcome[w] = "pending"
          /\ outcome' = [outcome EXCEPT ![w] = "killed"]
          /\ UNCHANGED <<visible, published>>

Earlier(d) == {Nothing, Before} \cup {w \in Writers : <<w, d>> \in published}

MachineCrash == /\ visible' \in [Dirs -> Versions]
                /\ \A d \in Dirs : visible'[d] \in Earlier(d)
                /\ outcome' = [w \in Writers |->
                                 IF outcome[w] = "pending" THEN "killed"
                                                           ELSE outcome[w]]
                /\ UNCHANGED published

ANext == \/ \E w \in Writers : \/ \E d \in Dirs : Publish(w, d)
                               \/ ReportSuccess(w)
                               \/ ReportFailure(w)
                               \/ Die(w)
         \/ MachineCrash

ASpec == AInit /\ [][ANext]_avars
=============================================================================
