----------------------- MODULE OutputAtomicityProofs -----------------------
(* The destination is whole, and would be after a machine crash, for any     *)
(* number of transactions that save over it in one directory which no other  *)
(* program touches.                                                          *)
EXTENDS OutputTransactionProofs

\* The names a transaction holds are its own: no other program replaces a
\* temporary, and the parent path keeps naming one directory.
Cooperative == MaxForeign = 0 /\ MaxDirs = 1

\* Calls before which m_temporary still leads to the transaction's file.
NameHeld == HoldingTemporary \ {"postSync"}
\* Calls made once the stream has been flushed, and once its file is on disk.
Flushed == InCommit
Stored == {"syncDir", "close", "recheckTemp", "recheckDir", "chmod", "rename"}
\* Where a transaction whose file has become the destination can be.
Past == {"postSync", "committed", "killed"}

\* A file that will not change again, in the cache or on the disk.
Settled(i) == /\ data[i] = "whole" /\ disk[i] = "whole"
              /\ \A w \in Writers : i = Own(w) => pc[w] \in Past

HoldsItsName == \A w \in Writers :
                  pc[w] \in NameHeld => entry[1][tmp[w]] = Own(w)
StreamIsOwn == \A w \in Writers :
                 /\ pc[w] \in {"openDir", "stat", "create", "reopen"} => strm[w] = None
                 /\ pc[w] = "verify" => strm[w] \in {None, Own(w)}
                 /\ pc[w] = "writing" => strm[w] = Own(w)
CommitIsOrdered == \A w \in Writers :
                     /\ pc[w] \in Flushed => data[Own(w)] = "whole"
                     /\ pc[w] \in Stored => disk[Own(w)] = "whole"
DestinationSettled ==
  /\ entry[1][Target] # None => Settled(entry[1][Target])
  /\ durable[1][Target] # None => Settled(durable[1][Target])

AtomicInv == HoldsItsName /\ StreamIsOwn /\ CommitIsOrdered /\ DestinationSettled

\* The inductive invariant.
IInv == TypeOK /\ HoldsOK /\ AtomicInv

LEMMA OwnIsDistinct ==
  ASSUME NEW w \in Writers
  PROVE  /\ Own(w) # None
         /\ \A v \in Writers : Own(v) = Own(w) => v = w
         /\ \A v \in Writers : Reopened(v) # Own(w)
         /\ \A d \in Dirs : Original(d) # Own(w)
BY DEF Own, None, Reopened, Original

LEMMA OneDirectory == ASSUME Cooperative PROVE Dirs = {1}
BY DEF Cooperative, Dirs

LEMMA InitAtomic == ASSUME Cooperative, Init PROVE AtomicInv
<1>1. HoldsItsName /\ StreamIsOwn /\ CommitIsOrdered
  BY DEF Init, HoldsItsName, StreamIsOwn, CommitIsOrdered, NameHeld, Flushed,
     Stored, HoldingTemporary, InCommit
<1>2. PICK S \in SUBSET Dirs :
        entry = [d \in Dirs |-> [n \in Slots |->
                   IF n = Target /\ d \in S THEN Original(d) ELSE None]]
  BY DEF Init
<1>3. entry[1][Target] # None => entry[1][Target] = Original(1)
  BY <1>2, OneDirectory DEF Slots
<1>4. /\ data[Original(1)] = "whole"
      /\ \A w \in Writers : Original(1) # Own(w) /\ Original(1) # Reopened(w)
  <2>1. \A w \in Writers : Original(1) # Own(w) /\ Original(1) # Reopened(w)
    BY DEF Original, Own, Reopened
  <2>2. Original(1) \in Inodes
    BY OneDirectory, InodeFacts
  <2>3. QED BY <2>1, <2>2 DEF Init
<1>5. DestinationSettled
  BY <1>3, <1>4 DEF Init, DestinationSettled, Settled
<1>6. QED BY <1>1, <1>5 DEF AtomicInv

\* A step that writes only the transaction's own file, before it is published,
\* and changes no directory entry leaves the destination settled.
LEMMA SettledStays ==
  ASSUME IInv, Cooperative, NEW w \in Writers, pc[w] \notin Past,
         NEW c \in Calls, pc' = [pc EXCEPT ![w] = c],
         \A i \in Inodes : i # Own(w) => data'[i] = data[i],
         \A i \in Inodes : i # Own(w) => disk'[i] = disk[i],
         entry'[1][Target] = entry[1][Target],
         durable'[1][Target] \in {durable[1][Target], entry[1][Target]}
  PROVE  DestinationSettled'
<1>1. ASSUME NEW i \in Inodes, Settled(i) PROVE Settled(i)'
  <2>1. i # Own(w)
    BY <1>1 DEF Settled
  <2>2. QED
    BY <1>1, <2>1 DEF Settled, IInv, TypeOK, LocalTypeOK
<1>2. /\ entry[1][Target] \in Inodes \cup {None}
      /\ durable[1][Target] \in Inodes \cup {None}
  BY OneDirectory DEF IInv, TypeOK, FileSystemTypeOK, Slots
<1>3. QED
  BY <1>1, <1>2 DEF DestinationSettled, IInv, AtomicInv

\* So does a step that writes no file and lets no published file be unpublished.
LEMMA SettledStaysUnwritten ==
  ASSUME IInv, Cooperative, NEW w \in Writers,
         NEW c \in Calls, pc' = [pc EXCEPT ![w] = c],
         pc[w] \in Past => c \in Past,
         data' = data, disk' = disk,
         entry'[1][Target] = entry[1][Target],
         durable'[1][Target] \in {durable[1][Target], entry[1][Target]}
  PROVE  DestinationSettled'
<1>1. ASSUME NEW i \in Inodes, Settled(i) PROVE Settled(i)'
  BY <1>1 DEF Settled, IInv, TypeOK, LocalTypeOK
<1>2. /\ entry[1][Target] \in Inodes \cup {None}
      /\ durable[1][Target] \in Inodes \cup {None}
  BY OneDirectory DEF IInv, TypeOK, FileSystemTypeOK, Slots
<1>3. QED
  BY <1>1, <1>2 DEF DestinationSettled, IInv, AtomicInv

LEMMA OpenDirAtomic ==
  ASSUME IInv, Cooperative, NEW w \in Writers, OpenDir(w) PROVE AtomicInv'
<1> USE DEF IInv, AtomicInv, TypeOK, LocalTypeOK, OpenDir, Goto, NameHeld, Flushed,
            Stored, HoldingTemporary, InCommit
<1>1. HoldsItsName'
  BY OwnIsDistinct, OneDirectory, NamesAssumption
  DEF HoldsItsName, HoldsOK, FileSystemTypeOK, EnvironmentTypeOK, fs, Slots
<1>2. StreamIsOwn'
  BY OneDirectory DEF StreamIsOwn, HoldsItsName, HoldsOK, EnvironmentTypeOK
<1>3. CommitIsOrdered'
  BY OwnIsDistinct, InodeFacts, OneDirectory DEF CommitIsOrdered, StreamIsOwn,
     FileSystemTypeOK, HoldsItsName, HoldsOK, EnvironmentTypeOK, fs
<1>4. DestinationSettled'
  BY SettledStays, OwnIsDistinct, OneDirectory, InodeFacts, NamesAssumption
  DEF Past, Calls, Ended, InOpen, fs, FileSystemTypeOK, EnvironmentTypeOK,
      HoldsOK, HoldsItsName, StreamIsOwn
<1>5. QED BY <1>1, <1>2, <1>3, <1>4

LEMMA StatTargetAtomic ==
  ASSUME IInv, Cooperative, NEW w \in Writers, StatTarget(w) PROVE AtomicInv'
<1> USE DEF IInv, AtomicInv, TypeOK, LocalTypeOK, StatTarget, Goto, NameHeld, Flushed,
            Stored, HoldingTemporary, InCommit
<1>1. HoldsItsName'
  BY OwnIsDistinct, OneDirectory, NamesAssumption
  DEF HoldsItsName, HoldsOK, FileSystemTypeOK, EnvironmentTypeOK, fs, Slots
<1>2. StreamIsOwn'
  BY OneDirectory DEF StreamIsOwn, HoldsItsName, HoldsOK, EnvironmentTypeOK
<1>3. CommitIsOrdered'
  BY OwnIsDistinct, InodeFacts, OneDirectory DEF CommitIsOrdered, StreamIsOwn,
     FileSystemTypeOK, HoldsItsName, HoldsOK, EnvironmentTypeOK, fs
<1>4. DestinationSettled'
  BY SettledStays, OwnIsDistinct, OneDirectory, InodeFacts, NamesAssumption
  DEF Past, Calls, Ended, InOpen, fs, FileSystemTypeOK, EnvironmentTypeOK,
      HoldsOK, HoldsItsName, StreamIsOwn
<1>5. QED BY <1>1, <1>2, <1>3, <1>4

LEMMA CreateTemporaryAtomic ==
  ASSUME IInv, Cooperative, NEW w \in Writers, CreateTemporary(w) PROVE AtomicInv'
<1> USE DEF IInv, AtomicInv, TypeOK, LocalTypeOK, CreateTemporary, Goto, NameHeld, Flushed,
            Stored, HoldingTemporary, InCommit
<1>1. HoldsItsName'
  BY OwnIsDistinct, OneDirectory, NamesAssumption
  DEF HoldsItsName, HoldsOK, FileSystemTypeOK, EnvironmentTypeOK, fs, Slots
<1>2. StreamIsOwn'
  BY OneDirectory DEF StreamIsOwn, HoldsItsName, HoldsOK, EnvironmentTypeOK
<1>3. CommitIsOrdered'
  BY OwnIsDistinct, InodeFacts, OneDirectory DEF CommitIsOrdered, StreamIsOwn,
     FileSystemTypeOK, HoldsItsName, HoldsOK, EnvironmentTypeOK, fs
<1>4. DestinationSettled'
  <2>1. PICK c \in Calls : pc' = [pc EXCEPT ![w] = c]
    <3>1. pc' = pc => pc' = [pc EXCEPT ![w] = "create"]
      OBVIOUS
    <3>2. {"create", "reopen", "failed"} \subseteq Calls
      BY DEF Calls, InOpen, Ended
    <3>3. QED BY <3>1, <3>2
  <2>2. entry'[1][Target] = entry[1][Target]
    BY NamesAssumption, OneDirectory DEF FileSystemTypeOK, Slots, EnvironmentTypeOK
  <2>3. pc[w] \notin Past /\ data' = data /\ disk' = disk /\ durable' = durable
    BY DEF Past
  <2>4. QED
    BY <2>1, <2>2, <2>3, SettledStaysUnwritten
<1>5. QED BY <1>1, <1>2, <1>3, <1>4

LEMMA ReopenAtomic ==
  ASSUME IInv, Cooperative, NEW w \in Writers, Reopen(w) PROVE AtomicInv'
<1> USE DEF IInv, AtomicInv, TypeOK, LocalTypeOK, Reopen, Goto, NameHeld, Flushed,
            Stored, HoldingTemporary, InCommit
<1>1. HoldsItsName'
  BY OwnIsDistinct, OneDirectory, NamesAssumption
  DEF HoldsItsName, HoldsOK, FileSystemTypeOK, EnvironmentTypeOK, fs, Slots
<1>0. /\ pathDir = 1 /\ tmp[w] \in Names /\ entry[1][tmp[w]] = Own(w)
      /\ Own(w) # None
  BY OneDirectory, OwnIsDistinct DEF EnvironmentTypeOK, HoldsOK, HoldsItsName
<1>r. \/ /\ entry' = [entry EXCEPT ![1][tmp[w]] = Own(w)]
         /\ data' = [data EXCEPT ![Own(w)] = "empty"]
         /\ strm' = [strm EXCEPT ![w] = Own(w)]
      \/ UNCHANGED <<entry, data, strm>>
  BY <1>0
<1>2. StreamIsOwn'
  <2>1. ASSUME NEW v \in Writers, v # w
        PROVE  pc'[v] = pc[v] /\ strm'[v] = strm[v]
    BY <2>1
  <2>2. pc[w] = "reopen" /\ pc'[w] = "verify"
    OBVIOUS
  <2>3. strm'[w] \in {strm[w], Own(w)}
    BY <1>r
  <2>4. strm[w] = None
    BY DEF StreamIsOwn
  <2>5. QED BY <2>1, <2>2, <2>3, <2>4 DEF StreamIsOwn
<1>3. CommitIsOrdered'
  BY OwnIsDistinct, InodeFacts, OneDirectory DEF CommitIsOrdered, StreamIsOwn,
     FileSystemTypeOK, HoldsItsName, HoldsOK, EnvironmentTypeOK, fs
<1>4. DestinationSettled'
  <2>1. entry'[1][Target] = entry[1][Target]
    BY <1>0, <1>r, NamesAssumption DEF FileSystemTypeOK, Slots
  <2>2. \A i \in Inodes : i # Own(w) => data'[i] = data[i]
    BY <1>r DEF FileSystemTypeOK
  <2>3. /\ pc[w] \notin Past /\ disk' = disk /\ durable' = durable
        /\ pc' = [pc EXCEPT ![w] = "verify"] /\ "verify" \in Calls
    BY DEF Past, Calls, InOpen
  <2>4. QED
    BY <2>1, <2>2, <2>3, SettledStays
<1>5. QED BY <1>1, <1>2, <1>3, <1>4

LEMMA VerifyOpenAtomic ==
  ASSUME IInv, Cooperative, NEW w \in Writers, VerifyOpen(w) PROVE AtomicInv'
<1> USE DEF IInv, AtomicInv, TypeOK, LocalTypeOK, VerifyOpen, Checked, Goto, NameHeld, Flushed,
            Stored, HoldingTemporary, InCommit
<1>1. HoldsItsName'
  BY OwnIsDistinct, OneDirectory, NamesAssumption
  DEF HoldsItsName, HoldsOK, FileSystemTypeOK, EnvironmentTypeOK, fs, Slots
<1>2. StreamIsOwn'
  BY OneDirectory DEF StreamIsOwn, HoldsItsName, HoldsOK, EnvironmentTypeOK
<1>3. CommitIsOrdered'
  BY OwnIsDistinct, InodeFacts, OneDirectory DEF CommitIsOrdered, StreamIsOwn,
     FileSystemTypeOK, HoldsItsName, HoldsOK, EnvironmentTypeOK, fs
<1>4. DestinationSettled'
  BY SettledStays, OwnIsDistinct, OneDirectory, InodeFacts, NamesAssumption
  DEF Past, Calls, Ended, InOpen, fs, FileSystemTypeOK, EnvironmentTypeOK,
      HoldsOK, HoldsItsName, StreamIsOwn
<1>5. QED BY <1>1, <1>2, <1>3, <1>4

LEMMA WriteAtomic ==
  ASSUME IInv, Cooperative, NEW w \in Writers, Write(w) PROVE AtomicInv'
<1> USE DEF IInv, AtomicInv, TypeOK
<1>1. /\ pc[w] = "writing" /\ strm[w] = Own(w)
      /\ data' = [data EXCEPT ![Own(w)] = "part"]
      /\ UNCHANGED <<pc, dirFd, tmp, strm, tmode, tries, entry, durable, disk>>
  BY DEF Write, local, StreamIsOwn
<1>2. HoldsItsName' /\ StreamIsOwn'
  BY <1>1 DEF HoldsItsName, StreamIsOwn
<1>3. CommitIsOrdered'
  <2>1. ASSUME NEW v \in Writers, v # w PROVE data'[Own(v)] = data[Own(v)]
    BY <1>1, <2>1, OwnIsDistinct, InodeFacts DEF FileSystemTypeOK
  <2>2. pc[w] \notin Flushed \cup Stored
    BY <1>1 DEF Flushed, Stored, InCommit
  <2>3. QED BY <1>1, <2>1, <2>2 DEF CommitIsOrdered
<1>4. DestinationSettled'
  <2>1. /\ pc[w] \notin Past /\ "writing" \in Calls
        /\ pc' = [pc EXCEPT ![w] = "writing"]
    BY <1>1 DEF Past, Calls, LocalTypeOK
  <2>2. \A i \in Inodes : i # Own(w) => data'[i] = data[i]
    BY <1>1 DEF FileSystemTypeOK
  <2>3. QED BY <1>1, <2>1, <2>2, SettledStays
<1>5. QED BY <1>2, <1>3, <1>4

LEMMA GiveUpAtomic ==
  ASSUME IInv, Cooperative, NEW w \in Writers, GiveUp(w) PROVE AtomicInv'
<1> USE DEF IInv, AtomicInv, TypeOK, LocalTypeOK, GiveUp, Goto, NameHeld, Flushed,
            Stored, HoldingTemporary, InCommit
<1>1. HoldsItsName'
  BY OwnIsDistinct, OneDirectory, NamesAssumption
  DEF HoldsItsName, HoldsOK, FileSystemTypeOK, EnvironmentTypeOK, fs, Slots
<1>2. StreamIsOwn'
  BY OneDirectory DEF StreamIsOwn, HoldsItsName, HoldsOK, EnvironmentTypeOK
<1>3. CommitIsOrdered'
  BY OwnIsDistinct, InodeFacts, OneDirectory DEF CommitIsOrdered, StreamIsOwn,
     FileSystemTypeOK, HoldsItsName, HoldsOK, EnvironmentTypeOK, fs
<1>4. DestinationSettled'
  BY SettledStays, OwnIsDistinct, OneDirectory, InodeFacts, NamesAssumption
  DEF Past, Calls, Ended, InOpen, fs, FileSystemTypeOK, EnvironmentTypeOK,
      HoldsOK, HoldsItsName, StreamIsOwn
<1>5. QED BY <1>1, <1>2, <1>3, <1>4

LEMMA FlushAtomic ==
  ASSUME IInv, Cooperative, NEW w \in Writers, Flush(w) PROVE AtomicInv'
<1> USE DEF IInv, AtomicInv, TypeOK, LocalTypeOK, Flush, Goto, NameHeld, Flushed,
            Stored, HoldingTemporary, InCommit
<1>1. HoldsItsName'
  BY OwnIsDistinct, OneDirectory, NamesAssumption
  DEF HoldsItsName, HoldsOK, FileSystemTypeOK, EnvironmentTypeOK, fs, Slots
<1>2. StreamIsOwn'
  BY OneDirectory DEF StreamIsOwn, HoldsItsName, HoldsOK, EnvironmentTypeOK
<1>3. CommitIsOrdered'
  BY OwnIsDistinct, InodeFacts, OneDirectory DEF CommitIsOrdered, StreamIsOwn,
     FileSystemTypeOK, HoldsItsName, HoldsOK, EnvironmentTypeOK, fs
<1>4. DestinationSettled'
  BY SettledStays, OwnIsDistinct, OneDirectory, InodeFacts, NamesAssumption
  DEF Past, Calls, Ended, InOpen, fs, FileSystemTypeOK, EnvironmentTypeOK,
      HoldsOK, HoldsItsName, StreamIsOwn
<1>5. QED BY <1>1, <1>2, <1>3, <1>4

LEMMA CheckTemporaryAtomic ==
  ASSUME IInv, Cooperative, NEW w \in Writers, CheckTemporary(w) PROVE AtomicInv'
<1> USE DEF IInv, AtomicInv, TypeOK, LocalTypeOK, CheckTemporary, Checked, Goto, NameHeld, Flushed,
            Stored, HoldingTemporary, InCommit
<1>1. HoldsItsName'
  BY OwnIsDistinct, OneDirectory, NamesAssumption
  DEF HoldsItsName, HoldsOK, FileSystemTypeOK, EnvironmentTypeOK, fs, Slots
<1>2. StreamIsOwn'
  BY OneDirectory DEF StreamIsOwn, HoldsItsName, HoldsOK, EnvironmentTypeOK
<1>3. CommitIsOrdered'
  BY OwnIsDistinct, InodeFacts, OneDirectory DEF CommitIsOrdered, StreamIsOwn,
     FileSystemTypeOK, HoldsItsName, HoldsOK, EnvironmentTypeOK, fs
<1>4. DestinationSettled'
  BY SettledStays, OwnIsDistinct, OneDirectory, InodeFacts, NamesAssumption
  DEF Past, Calls, Ended, InOpen, fs, FileSystemTypeOK, EnvironmentTypeOK,
      HoldsOK, HoldsItsName, StreamIsOwn
<1>5. QED BY <1>1, <1>2, <1>3, <1>4

LEMMA CheckDirectoryAtomic ==
  ASSUME IInv, Cooperative, NEW w \in Writers, CheckDirectory(w) PROVE AtomicInv'
<1> USE DEF IInv, AtomicInv, TypeOK, LocalTypeOK, CheckDirectory, Checked, Goto, NameHeld, Flushed,
            Stored, HoldingTemporary, InCommit
<1>1. HoldsItsName'
  BY OwnIsDistinct, OneDirectory, NamesAssumption
  DEF HoldsItsName, HoldsOK, FileSystemTypeOK, EnvironmentTypeOK, fs, Slots
<1>2. StreamIsOwn'
  BY OneDirectory DEF StreamIsOwn, HoldsItsName, HoldsOK, EnvironmentTypeOK
<1>3. CommitIsOrdered'
  BY OwnIsDistinct, InodeFacts, OneDirectory DEF CommitIsOrdered, StreamIsOwn,
     FileSystemTypeOK, HoldsItsName, HoldsOK, EnvironmentTypeOK, fs
<1>4. DestinationSettled'
  BY SettledStays, OwnIsDistinct, OneDirectory, InodeFacts, NamesAssumption
  DEF Past, Calls, Ended, InOpen, fs, FileSystemTypeOK, EnvironmentTypeOK,
      HoldsOK, HoldsItsName, StreamIsOwn
<1>5. QED BY <1>1, <1>2, <1>3, <1>4

LEMMA FlushFileToStorageAtomic ==
  ASSUME IInv, Cooperative, NEW w \in Writers, FlushFileToStorage(w) PROVE AtomicInv'
<1> USE DEF IInv, AtomicInv, TypeOK, LocalTypeOK, FlushFileToStorage, Goto, NameHeld, Flushed,
            Stored, HoldingTemporary, InCommit
<1>1. HoldsItsName'
  BY OwnIsDistinct, OneDirectory, NamesAssumption
  DEF HoldsItsName, HoldsOK, FileSystemTypeOK, EnvironmentTypeOK, fs, Slots
<1>2. StreamIsOwn'
  BY OneDirectory DEF StreamIsOwn, HoldsItsName, HoldsOK, EnvironmentTypeOK
<1>3. CommitIsOrdered'
  BY OwnIsDistinct, InodeFacts, OneDirectory DEF CommitIsOrdered, StreamIsOwn,
     FileSystemTypeOK, HoldsItsName, HoldsOK, EnvironmentTypeOK, fs
<1>4. DestinationSettled'
  BY SettledStays, OwnIsDistinct, OneDirectory, InodeFacts, NamesAssumption
  DEF Past, Calls, Ended, InOpen, fs, FileSystemTypeOK, EnvironmentTypeOK,
      HoldsOK, HoldsItsName, StreamIsOwn
<1>5. QED BY <1>1, <1>2, <1>3, <1>4

LEMMA FlushParentDirectoryToStorageAtomic ==
  ASSUME IInv, Cooperative, NEW w \in Writers, FlushParentDirectoryToStorage(w) PROVE AtomicInv'
<1> USE DEF IInv, AtomicInv, TypeOK, LocalTypeOK, FlushParentDirectoryToStorage, Goto, NameHeld, Flushed,
            Stored, HoldingTemporary, InCommit
<1>1. HoldsItsName'
  BY OwnIsDistinct, OneDirectory, NamesAssumption
  DEF HoldsItsName, HoldsOK, FileSystemTypeOK, EnvironmentTypeOK, fs, Slots
<1>2. StreamIsOwn'
  BY OneDirectory DEF StreamIsOwn, HoldsItsName, HoldsOK, EnvironmentTypeOK
<1>3. CommitIsOrdered'
  BY OwnIsDistinct, InodeFacts, OneDirectory DEF CommitIsOrdered, StreamIsOwn,
     FileSystemTypeOK, HoldsItsName, HoldsOK, EnvironmentTypeOK, fs
<1>4. DestinationSettled'
  BY SettledStays, OwnIsDistinct, OneDirectory, InodeFacts, NamesAssumption
  DEF Past, Calls, Ended, InOpen, fs, FileSystemTypeOK, EnvironmentTypeOK,
      HoldsOK, HoldsItsName, StreamIsOwn
<1>5. QED BY <1>1, <1>2, <1>3, <1>4

LEMMA CloseStreamAtomic ==
  ASSUME IInv, Cooperative, NEW w \in Writers, CloseStream(w) PROVE AtomicInv'
<1> USE DEF IInv, AtomicInv, TypeOK, LocalTypeOK, CloseStream, Goto, NameHeld, Flushed,
            Stored, HoldingTemporary, InCommit
<1>1. HoldsItsName'
  BY OwnIsDistinct, OneDirectory, NamesAssumption
  DEF HoldsItsName, HoldsOK, FileSystemTypeOK, EnvironmentTypeOK, fs, Slots
<1>2. StreamIsOwn'
  BY OneDirectory DEF StreamIsOwn, HoldsItsName, HoldsOK, EnvironmentTypeOK
<1>3. CommitIsOrdered'
  BY OwnIsDistinct, InodeFacts, OneDirectory DEF CommitIsOrdered, StreamIsOwn,
     FileSystemTypeOK, HoldsItsName, HoldsOK, EnvironmentTypeOK, fs
<1>4. DestinationSettled'
  BY SettledStays, OwnIsDistinct, OneDirectory, InodeFacts, NamesAssumption
  DEF Past, Calls, Ended, InOpen, fs, FileSystemTypeOK, EnvironmentTypeOK,
      HoldsOK, HoldsItsName, StreamIsOwn
<1>5. QED BY <1>1, <1>2, <1>3, <1>4

LEMMA RecheckTemporaryAtomic ==
  ASSUME IInv, Cooperative, NEW w \in Writers, RecheckTemporary(w) PROVE AtomicInv'
<1> USE DEF IInv, AtomicInv, TypeOK, LocalTypeOK, RecheckTemporary, Checked, Goto, NameHeld, Flushed,
            Stored, HoldingTemporary, InCommit
<1>1. HoldsItsName'
  BY OwnIsDistinct, OneDirectory, NamesAssumption
  DEF HoldsItsName, HoldsOK, FileSystemTypeOK, EnvironmentTypeOK, fs, Slots
<1>2. StreamIsOwn'
  BY OneDirectory DEF StreamIsOwn, HoldsItsName, HoldsOK, EnvironmentTypeOK
<1>3. CommitIsOrdered'
  BY OwnIsDistinct, InodeFacts, OneDirectory DEF CommitIsOrdered, StreamIsOwn,
     FileSystemTypeOK, HoldsItsName, HoldsOK, EnvironmentTypeOK, fs
<1>4. DestinationSettled'
  BY SettledStays, OwnIsDistinct, OneDirectory, InodeFacts, NamesAssumption
  DEF Past, Calls, Ended, InOpen, fs, FileSystemTypeOK, EnvironmentTypeOK,
      HoldsOK, HoldsItsName, StreamIsOwn
<1>5. QED BY <1>1, <1>2, <1>3, <1>4

LEMMA RecheckDirectoryAtomic ==
  ASSUME IInv, Cooperative, NEW w \in Writers, RecheckDirectory(w) PROVE AtomicInv'
<1> USE DEF IInv, AtomicInv, TypeOK, LocalTypeOK, RecheckDirectory, Checked, Goto, NameHeld, Flushed,
            Stored, HoldingTemporary, InCommit
<1>1. HoldsItsName'
  BY OwnIsDistinct, OneDirectory, NamesAssumption
  DEF HoldsItsName, HoldsOK, FileSystemTypeOK, EnvironmentTypeOK, fs, Slots
<1>2. StreamIsOwn'
  BY OneDirectory DEF StreamIsOwn, HoldsItsName, HoldsOK, EnvironmentTypeOK
<1>3. CommitIsOrdered'
  BY OwnIsDistinct, InodeFacts, OneDirectory DEF CommitIsOrdered, StreamIsOwn,
     FileSystemTypeOK, HoldsItsName, HoldsOK, EnvironmentTypeOK, fs
<1>4. DestinationSettled'
  BY SettledStays, OwnIsDistinct, OneDirectory, InodeFacts, NamesAssumption
  DEF Past, Calls, Ended, InOpen, fs, FileSystemTypeOK, EnvironmentTypeOK,
      HoldsOK, HoldsItsName, StreamIsOwn
<1>5. QED BY <1>1, <1>2, <1>3, <1>4

LEMMA RestoreModeAtomic ==
  ASSUME IInv, Cooperative, NEW w \in Writers, RestoreMode(w) PROVE AtomicInv'
<1> USE DEF IInv, AtomicInv, TypeOK, LocalTypeOK, RestoreMode, Goto, NameHeld, Flushed,
            Stored, HoldingTemporary, InCommit
<1>1. HoldsItsName'
  BY OwnIsDistinct, OneDirectory, NamesAssumption
  DEF HoldsItsName, HoldsOK, FileSystemTypeOK, EnvironmentTypeOK, fs, Slots
<1>2. StreamIsOwn'
  BY OneDirectory DEF StreamIsOwn, HoldsItsName, HoldsOK, EnvironmentTypeOK
<1>3. CommitIsOrdered'
  BY OwnIsDistinct, InodeFacts, OneDirectory DEF CommitIsOrdered, StreamIsOwn,
     FileSystemTypeOK, HoldsItsName, HoldsOK, EnvironmentTypeOK, fs
<1>4. DestinationSettled'
  BY SettledStays, OwnIsDistinct, OneDirectory, InodeFacts, NamesAssumption
  DEF Past, Calls, Ended, InOpen, fs, FileSystemTypeOK, EnvironmentTypeOK,
      HoldsOK, HoldsItsName, StreamIsOwn
<1>5. QED BY <1>1, <1>2, <1>3, <1>4

LEMMA RenameAtomic ==
  ASSUME IInv, Cooperative, NEW w \in Writers, Rename(w) PROVE AtomicInv'
<1> USE DEF IInv, AtomicInv, TypeOK, LocalTypeOK, Rename, Goto, NameHeld, Flushed,
            Stored, HoldingTemporary, InCommit
<1>1. HoldsItsName'
  BY OwnIsDistinct, OneDirectory, NamesAssumption
  DEF HoldsItsName, HoldsOK, FileSystemTypeOK, EnvironmentTypeOK, fs, Slots
<1>2. StreamIsOwn'
  BY OneDirectory DEF StreamIsOwn, HoldsItsName, HoldsOK, EnvironmentTypeOK
<1>3. CommitIsOrdered'
  BY OwnIsDistinct, InodeFacts, OneDirectory DEF CommitIsOrdered, StreamIsOwn,
     FileSystemTypeOK, HoldsItsName, HoldsOK, EnvironmentTypeOK, fs
<1>0. /\ dirFd[w] = 1 /\ tmp[w] \in Names /\ tmp[w] # Target
      /\ entry[1][tmp[w]] = Own(w)
  BY OneDirectory, NamesAssumption DEF HoldsOK, HoldingDirectory, HoldsItsName
<1>4. DestinationSettled'
  <2>1. CASE UNCHANGED entry /\ pc' = [pc EXCEPT ![w] = "abort"]
    BY <2>1, SettledStaysUnwritten DEF Past, Calls
  <2>2. CASE /\ entry' = [entry EXCEPT ![1][Target] = Own(w), ![1][tmp[w]] = None]
             /\ pc' = [pc EXCEPT ![w] = "postSync"]
    <3>1. entry'[1][Target] = Own(w)
      BY <1>0, <2>2, OneDirectory DEF FileSystemTypeOK, Slots
    <3>2. data'[Own(w)] = "whole" /\ disk'[Own(w)] = "whole"
      BY DEF CommitIsOrdered
    <3>3. \A v \in Writers : Own(w) = Own(v) => pc'[v] \in Past
      BY <2>2, OwnIsDistinct DEF Past
    <3>4. ASSUME durable[1][Target] # None
          PROVE  Settled(durable[1][Target])'
      BY <2>2, <3>4 DEF DestinationSettled, Settled, Past
    <3>5. QED BY <3>1, <3>2, <3>3, <3>4 DEF DestinationSettled, Settled
  <2>3. QED BY <1>0, <2>1, <2>2
<1>5. QED BY <1>1, <1>2, <1>3, <1>4

LEMMA PostSyncAtomic ==
  ASSUME IInv, Cooperative, NEW w \in Writers, PostSync(w) PROVE AtomicInv'
<1> USE DEF IInv, AtomicInv, TypeOK, LocalTypeOK, PostSync, Goto, NameHeld, Flushed,
            Stored, HoldingTemporary, InCommit
<1>1. HoldsItsName'
  BY OwnIsDistinct, OneDirectory, NamesAssumption
  DEF HoldsItsName, HoldsOK, FileSystemTypeOK, EnvironmentTypeOK, fs, Slots
<1>2. StreamIsOwn'
  BY OneDirectory DEF StreamIsOwn, HoldsItsName, HoldsOK, EnvironmentTypeOK
<1>3. CommitIsOrdered'
  BY OwnIsDistinct, InodeFacts, OneDirectory DEF CommitIsOrdered, StreamIsOwn,
     FileSystemTypeOK, HoldsItsName, HoldsOK, EnvironmentTypeOK, fs
<1>4. DestinationSettled'
  <2>1. durable'[1][Target] \in {durable[1][Target], entry[1][Target]}
    BY OneDirectory DEF FileSystemTypeOK
  <2>2. QED
    BY <2>1, SettledStaysUnwritten DEF Past, Calls, Ended
<1>5. QED BY <1>1, <1>2, <1>3, <1>4

LEMMA AbortCheckAtomic ==
  ASSUME IInv, Cooperative, NEW w \in Writers, AbortCheck(w) PROVE AtomicInv'
<1> USE DEF IInv, AtomicInv, TypeOK, LocalTypeOK, AbortCheck, Goto, NameHeld, Flushed,
            Stored, HoldingTemporary, InCommit
<1>1. HoldsItsName'
  BY OwnIsDistinct, OneDirectory, NamesAssumption
  DEF HoldsItsName, HoldsOK, FileSystemTypeOK, EnvironmentTypeOK, fs, Slots
<1>2. StreamIsOwn'
  BY OneDirectory DEF StreamIsOwn, HoldsItsName, HoldsOK, EnvironmentTypeOK
<1>3. CommitIsOrdered'
  BY OwnIsDistinct, InodeFacts, OneDirectory DEF CommitIsOrdered, StreamIsOwn,
     FileSystemTypeOK, HoldsItsName, HoldsOK, EnvironmentTypeOK, fs
<1>4. DestinationSettled'
  BY SettledStays, OwnIsDistinct, OneDirectory, InodeFacts, NamesAssumption
  DEF Past, Calls, Ended, InOpen, fs, FileSystemTypeOK, EnvironmentTypeOK,
      HoldsOK, HoldsItsName, StreamIsOwn
<1>5. QED BY <1>1, <1>2, <1>3, <1>4

LEMMA UnlinkAtomic ==
  ASSUME IInv, Cooperative, NEW w \in Writers, Unlink(w) PROVE AtomicInv'
<1> USE DEF IInv, AtomicInv, TypeOK, LocalTypeOK, Unlink, Goto, NameHeld, Flushed,
            Stored, HoldingTemporary, InCommit
<1>1. HoldsItsName'
  BY OwnIsDistinct, OneDirectory, NamesAssumption
  DEF HoldsItsName, HoldsOK, FileSystemTypeOK, EnvironmentTypeOK, fs, Slots
<1>2. StreamIsOwn'
  BY OneDirectory DEF StreamIsOwn, HoldsItsName, HoldsOK, EnvironmentTypeOK
<1>3. CommitIsOrdered'
  BY OwnIsDistinct, InodeFacts, OneDirectory DEF CommitIsOrdered, StreamIsOwn,
     FileSystemTypeOK, HoldsItsName, HoldsOK, EnvironmentTypeOK, fs
<1>4. DestinationSettled'
  <2>1. tmp[w] # Target /\ dirFd[w] = 1
    BY OneDirectory, NamesAssumption DEF HoldsOK, HoldingDirectory
  <2>2. entry'[1][Target] = entry[1][Target]
    BY <2>1, OneDirectory DEF FileSystemTypeOK, Slots
  <2>3. QED
    BY <2>2, SettledStaysUnwritten DEF Past, Calls, Ended
<1>5. QED BY <1>1, <1>2, <1>3, <1>4

LEMMA KillAtomic ==
  ASSUME IInv, Cooperative, NEW w \in Writers, Kill(w) PROVE AtomicInv'
<1> USE DEF IInv, AtomicInv, TypeOK, LocalTypeOK, Kill, Goto, NameHeld, Flushed,
            Stored, HoldingTemporary, InCommit
<1>1. HoldsItsName'
  BY OwnIsDistinct, OneDirectory, NamesAssumption
  DEF HoldsItsName, HoldsOK, FileSystemTypeOK, EnvironmentTypeOK, fs, Slots
<1>2. StreamIsOwn'
  BY OneDirectory DEF StreamIsOwn, HoldsItsName, HoldsOK, EnvironmentTypeOK
<1>3. CommitIsOrdered'
  BY OwnIsDistinct, InodeFacts, OneDirectory DEF CommitIsOrdered, StreamIsOwn,
     FileSystemTypeOK, HoldsItsName, HoldsOK, EnvironmentTypeOK, fs
<1>4. DestinationSettled'
  BY SettledStaysUnwritten DEF Past, Calls, Ended, fs
<1>5. QED BY <1>1, <1>2, <1>3, <1>4

LEMMA MachineCrashAtomic ==
  ASSUME IInv, Cooperative, MachineCrash PROVE AtomicInv'
<1> USE DEF IInv, AtomicInv, TypeOK, LocalTypeOK, MachineCrash
<1>1. \A w \in Writers : pc'[w] \in Ended /\ (pc[w] \in Past => pc'[w] \in Past)
  BY DEF Ended, Past
<1>2. HoldsItsName' /\ StreamIsOwn' /\ CommitIsOrdered'
  BY <1>1 DEF HoldsItsName, StreamIsOwn, CommitIsOrdered, NameHeld, Flushed,
     Stored, HoldingTemporary, InCommit, Ended
<1>3. DestinationSettled'
  BY <1>1 DEF DestinationSettled, Settled
<1>4. QED BY <1>2, <1>3

LEMMA WriteBackAtomic ==
  ASSUME IInv, Cooperative,
         (\E i \in Inodes : WriteBackFile(i)) \/ (\E d \in Dirs : WriteBackDir(d))
  PROVE  AtomicInv'
<1> USE DEF IInv, AtomicInv, TypeOK, FileSystemTypeOK
<1>1. /\ UNCHANGED <<pc, dirFd, tmp, strm, entry, data>>
      /\ \A i \in Inodes : disk'[i] \in {disk[i], data[i]}
      /\ durable'[1] \in {durable[1], entry[1]}
  BY OneDirectory DEF WriteBackFile, WriteBackDir, local
<1>2. HoldsItsName' /\ StreamIsOwn'
  BY <1>1 DEF HoldsItsName, StreamIsOwn
<1>3. CommitIsOrdered'
  BY <1>1, InodeFacts DEF CommitIsOrdered, Flushed, Stored, InCommit
<1>4. /\ entry[1][Target] \in Inodes \cup {None}
      /\ durable[1][Target] \in Inodes \cup {None}
  BY OneDirectory DEF Slots
<1>5. ASSUME NEW i \in Inodes, Settled(i) PROVE Settled(i)'
  BY <1>1, <1>5 DEF Settled
<1>6. DestinationSettled'
  BY <1>1, <1>4, <1>5 DEF DestinationSettled
<1>7. QED BY <1>2, <1>3, <1>6

LEMMA AtomicStep == ASSUME Cooperative, IInv, [Next]_vars PROVE IInv'
<1>1. TypeInv /\ TypeInv'
  BY TypeInvInductive DEF IInv, TypeInv
<1> SUFFICES AtomicInv'
  BY <1>1 DEF IInv, TypeInv
<1>2. ASSUME NEW w \in Writers, Open(w) PROVE AtomicInv'
  BY <1>2, OpenDirAtomic, StatTargetAtomic, CreateTemporaryAtomic, ReopenAtomic,
     VerifyOpenAtomic DEF Open
<1>3. ASSUME NEW w \in Writers, Commit(w) PROVE AtomicInv'
  BY <1>3, FlushAtomic, CheckTemporaryAtomic, CheckDirectoryAtomic,
     FlushFileToStorageAtomic, FlushParentDirectoryToStorageAtomic,
     CloseStreamAtomic, RecheckTemporaryAtomic, RecheckDirectoryAtomic,
     RestoreModeAtomic, RenameAtomic, PostSyncAtomic DEF Commit
<1>4. ASSUME NEW w \in Writers, Write(w) \/ GiveUp(w) \/ Abort(w) PROVE AtomicInv'
  BY <1>4, WriteAtomic, GiveUpAtomic, AbortCheckAtomic, UnlinkAtomic DEF Abort
<1>5. CASE Environment
  <2>1. ~ \E w \in Writers : Displace(w)
    BY DEF Displace, Cooperative, IInv, TypeOK, EnvironmentTypeOK
  <2>2. ~ \E d \in Dirs : MoveDirectory(d)
    BY OneDirectory DEF MoveDirectory, IInv, TypeOK, EnvironmentTypeOK
  <2>3. ASSUME NEW w \in Writers, Kill(w) PROVE AtomicInv'
    BY <2>3, KillAtomic
  <2>4. CASE MachineCrash
    BY <2>4, MachineCrashAtomic
  <2>5. CASE (\E i \in Inodes : WriteBackFile(i))
             \/ (\E d \in Dirs : WriteBackDir(d))
    BY <2>5, WriteBackAtomic
  <2>6. QED
    BY <1>5, <2>1, <2>2, <2>3, <2>4, <2>5 DEF Environment
<1>6. CASE UNCHANGED vars
  <2>1. UNCHANGED <<pc, tmp, strm, entry, durable, data, disk>>
    BY <1>6 DEF vars, local, fs
  <2>2. HoldsItsName' /\ StreamIsOwn' /\ CommitIsOrdered'
    BY <2>1 DEF IInv, AtomicInv, HoldsItsName, StreamIsOwn, CommitIsOrdered
  <2>3. DestinationSettled'
    BY <2>1 DEF IInv, AtomicInv, DestinationSettled, Settled
  <2>4. QED BY <2>2, <2>3 DEF AtomicInv
<1>7. QED
  BY <1>2, <1>3, <1>4, <1>5, <1>6 DEF Next, Transaction

\* Whatever the interleaving, the failures, the processes killed, the write-back
\* and the machine crashes, a reader of the destination finds a whole file, and
\* so does whoever looks after a crash (commit()'s flush, fsync and rename).
THEOREM DestinationAtomic ==
  ASSUME Cooperative
  PROVE  Spec => [](DestinationWhole /\ DestinationWholeAfterCrash)
<1>1. Init => IInv
  BY InitTypeInv, InitAtomic DEF IInv, TypeInv
<1>2. IInv /\ [Next]_vars => IInv'
  BY AtomicStep
<1>3. IInv => DestinationWhole /\ DestinationWholeAfterCrash
  BY OneDirectory DEF IInv, AtomicInv, DestinationSettled, Settled,
     DestinationWhole, DestinationWholeAfterCrash
<1>4. QED BY <1>1, <1>2, <1>3, PTL DEF Spec

---------------------------------------------------------------------------
(* Transactions over one destination, in one directory which no other        *)
(* program touches, replace it atomically: OutputTransaction implements      *)
(* AtomicReplace, machine crashes included.                                  *)

\* What the destination leads to, now and after a machine crash, is nothing, the
\* file it was or the file of a transaction that renamed it there; and a
\* transaction has renamed its file exactly when it got past the rename.
Known(i) == \/ i \in {None, Original(1)}
            \/ \E w \in Writers : i = Own(w) /\ <<w, 1>> \in published
RenamedOK == \A w \in Writers :
               /\ pc[w] \in {"postSync", "committed"} => <<w, 1>> \in published
               /\ <<w, 1>> \in published => pc[w] \in Past
RenameInv == Known(entry[1][Target]) /\ Known(durable[1][Target]) /\ RenamedOK

\* The inductive invariant.
RInv == IInv /\ RenameInv

\* The abstract state.
visibleNow == [d \in Dirs |-> Version(entry[d][Target])]
outcomeNow == [w \in Writers |-> IF pc[w] \in Ended THEN pc[w] ELSE "pending"]

LEMMA InitRename == ASSUME Cooperative, Init PROVE RenameInv
<1>1. PICK S \in SUBSET Dirs :
        entry = [d \in Dirs |-> [n \in Slots |->
                   IF n = Target /\ d \in S THEN Original(d) ELSE None]]
  BY DEF Init
<1>2. entry[1][Target] \in {None, Original(1)}
  BY <1>1, OneDirectory DEF Slots
<1>3. QED
  BY <1>2 DEF Init, RenameInv, RenamedOK, Known

\* The version a reader finds depends only on the file the destination leads to.
ReadableAs == /\ entry[1][Target] = None => Version(entry[1][Target]) = None
              /\ entry[1][Target] = Original(1) => Version(entry[1][Target]) = Before
              /\ \A w \in Writers : entry[1][Target] = Own(w) => Version(entry[1][Target]) = w

LEMMA VersionOfKnown == RInv => ReadableAs
<1> SUFFICES ASSUME RInv PROVE ReadableAs OBVIOUS
<1>1. entry[1][Target] # None => data[entry[1][Target]] = "whole"
  BY DEF RInv, IInv, AtomicInv, DestinationSettled, Settled
<1>2. Original(1) # None /\ \A w \in Writers : Own(w) # None /\ Own(w) # Original(1)
  BY DEF Original, None, Own
<1>3. \A w, v \in Writers : Own(w) = Own(v) => w = v
  BY DEF Own
<1>4. QED BY <1>1, <1>2, <1>3 DEF Version, ReadableAs

LEMMA SameVersion ==
  ASSUME RInv, RInv', Cooperative, entry'[1][Target] = entry[1][Target]
  PROVE  visibleNow' = visibleNow
<1>1. Version(entry[1][Target])' = Version(entry[1][Target])
  <2>1. ReadableAs /\ ReadableAs'
    BY VersionOfKnown, PTL
  <2>2. QED BY <2>1 DEF RInv, RenameInv, Known, ReadableAs
<1>2. QED BY <1>1, OneDirectory DEF visibleNow

\* A step of a transaction that has not renamed its file and does not rename it
\* now: only its position changes for the caller.
Quiet(w) == /\ pc[w] \notin Past \cup Ended
            /\ \E c \in Calls \ {"postSync", "committed"} : pc' = [pc EXCEPT ![w] = c]
            /\ published' = published
            /\ entry'[1][Target] = entry[1][Target]
            /\ durable'[1][Target] \in {durable[1][Target], entry[1][Target]}

LEMMA QuietCalls ==
  ASSUME RInv, Cooperative, NEW w \in Writers, Quiet(w) PROVE RenameInv'
<1>1. RenamedOK'
  BY DEF Quiet, RInv, RenameInv, RenamedOK, IInv, TypeOK, LocalTypeOK, Past
<1>2. QED BY <1>1 DEF Quiet, RInv, RenameInv, Known

\* Whatever w has published is in the one directory.
LEMMA NotYetPublished ==
  ASSUME RInv, Cooperative, NEW w \in Writers, pc[w] \notin Past
  PROVE  ~Promise!Published(w)
BY OneDirectory DEF RInv, RenameInv, RenamedOK, Promise!Published, Promise!Dirs, Dirs

LEMMA QuietMaps ==
  ASSUME RInv, RInv', Cooperative, NEW w \in Writers, Quiet(w)
  PROVE  [Promise!ANext]_Promise!avars
<1>1. visibleNow' = visibleNow
  BY SameVersion DEF Quiet
<1>2. PICK c \in Calls \ {"postSync", "committed"} : pc' = [pc EXCEPT ![w] = c]
  BY DEF Quiet
<1>3. ~Promise!Published(w)
  BY NotYetPublished DEF Quiet
<1>4. outcomeNow' = [outcomeNow EXCEPT ![w] = IF c \in Ended THEN c ELSE "pending"]
      /\ outcomeNow[w] = "pending" /\ published' = published
  BY <1>2 DEF Quiet, outcomeNow, RInv, IInv, TypeOK, LocalTypeOK
<1>5. CASE c = "failed"
  BY <1>1, <1>3, <1>4, <1>5
  DEF Promise!ANext, Promise!ReportFailure, visibleNow, outcomeNow, Ended
<1>6. CASE c = "killed"
  BY <1>1, <1>3, <1>4, <1>6
  DEF Promise!ANext, Promise!Die, visibleNow, outcomeNow, Ended
<1>7. CASE c \notin Ended
  <2>1. outcomeNow' = outcomeNow
    BY <1>4, <1>7 DEF outcomeNow
  <2>2. QED
    BY <1>1, <1>4, <2>1 DEF Promise!avars, visibleNow, outcomeNow
<1>8. QED BY <1>2, <1>5, <1>6, <1>7 DEF Ended

LEMMA OpenIsQuiet ==
  ASSUME IInv, Cooperative, NEW w \in Writers, Open(w) PROVE Quiet(w)
<1> USE DEF Past, Ended, Calls, InOpen, InCommit, Goto, hist, fs, IInv, TypeOK,
            LocalTypeOK, FileSystemTypeOK
<1>1. CASE OpenDir(w)
  BY <1>1 DEF Quiet, OpenDir
<1>2. CASE StatTarget(w)
  BY <1>2 DEF Quiet, StatTarget
<1>3. CASE CreateTemporary(w)
  <2>1. entry'[1][Target] = entry[1][Target]
    BY <1>3, NamesAssumption, OneDirectory
    DEF CreateTemporary, Slots, EnvironmentTypeOK
  <2>2. pc' = pc => pc' = [pc EXCEPT ![w] = "create"]
    BY <1>3 DEF CreateTemporary
  <2>3. \E c \in {"create", "reopen", "failed"} : pc' = [pc EXCEPT ![w] = c]
    BY <1>3, <2>2 DEF CreateTemporary
  <2>4. QED BY <1>3, <2>1, <2>3 DEF Quiet, CreateTemporary
<1>4. CASE Reopen(w)
  <2>1. tmp[w] \in Names /\ tmp[w] # Target
    BY <1>4, NamesAssumption DEF Reopen, HoldsOK, HoldingTemporary
  <2>2. entry'[1][Target] = entry[1][Target]
    BY <1>4, <2>1, OneDirectory DEF Reopen, Slots, EnvironmentTypeOK
  <2>3. QED BY <1>4, <2>2 DEF Quiet, Reopen
<1>5. CASE VerifyOpen(w)
  BY <1>5 DEF Quiet, VerifyOpen, Checked
<1>6. QED BY <1>1, <1>2, <1>3, <1>4, <1>5 DEF Open

LEMMA WriteIsQuiet ==
  ASSUME IInv, Cooperative, NEW w \in Writers, Write(w) \/ GiveUp(w) \/ Abort(w)
  PROVE  Quiet(w)
<1> USE DEF Past, Ended, Calls, InOpen, InCommit, Goto, hist, fs, local, IInv,
            TypeOK, LocalTypeOK, FileSystemTypeOK
<1>1. CASE Write(w)
  <2>1. pc' = [pc EXCEPT ![w] = "writing"]
    BY <1>1 DEF Write
  <2>2. QED BY <1>1, <2>1 DEF Quiet, Write
<1>2. CASE GiveUp(w)
  BY <1>2 DEF Quiet, GiveUp
<1>3. CASE AbortCheck(w)
  BY <1>3 DEF Quiet, AbortCheck
<1>4. CASE Unlink(w)
  <2>1. tmp[w] \in Names /\ tmp[w] # Target /\ dirFd[w] = 1
    BY <1>4, NamesAssumption, OneDirectory
    DEF Unlink, HoldsOK, HoldingTemporary, HoldingDirectory
  <2>2. entry'[1][Target] = entry[1][Target]
    BY <1>4, <2>1, OneDirectory DEF Unlink, Slots
  <2>3. QED BY <1>4, <2>2 DEF Quiet, Unlink
<1>5. QED BY <1>1, <1>2, <1>3, <1>4 DEF Abort

LEMMA CommitIsQuiet ==
  ASSUME IInv, Cooperative, NEW w \in Writers, Commit(w),
         ~Rename(w), ~PostSync(w)
  PROVE  Quiet(w)
<1> USE DEF Past, Ended, Calls, InOpen, InCommit, Goto, hist, fs, IInv, TypeOK,
            LocalTypeOK, FileSystemTypeOK
<1>1. CASE Flush(w) \/ CheckTemporary(w) \/ CheckDirectory(w)
  BY <1>1 DEF Quiet, Flush, CheckTemporary, CheckDirectory, Checked
<1>2. CASE FlushFileToStorage(w)
  BY <1>2 DEF Quiet, FlushFileToStorage
<1>3. CASE FlushParentDirectoryToStorage(w)
  <2>1. durable'[1][Target] \in {durable[1][Target], entry[1][Target]}
    BY <1>3, OneDirectory DEF FlushParentDirectoryToStorage
  <2>2. QED BY <1>3, <2>1 DEF Quiet, FlushParentDirectoryToStorage
<1>4. CASE CloseStream(w)
  BY <1>4 DEF Quiet, CloseStream
<1>5. CASE RecheckTemporary(w) \/ RecheckDirectory(w)
  BY <1>5 DEF Quiet, RecheckTemporary, RecheckDirectory, Checked
<1>6. CASE RestoreMode(w)
  BY <1>6 DEF Quiet, RestoreMode
<1>7. QED BY <1>1, <1>2, <1>3, <1>4, <1>5, <1>6 DEF Commit

LEMMA QuietStep ==
  ASSUME RInv, IInv', Cooperative, NEW w \in Writers, Quiet(w)
  PROVE  RInv' /\ [Promise!ANext]_Promise!avars
BY QuietCalls, QuietMaps DEF RInv

\* The rename makes the transaction's version the visible one.
LEMMA RenameStep ==
  ASSUME RInv, IInv', Cooperative, NEW w \in Writers, Rename(w)
  PROVE  RInv' /\ [Promise!ANext]_Promise!avars
<1> USE DEF Rename, Goto, RInv, IInv, TypeOK, LocalTypeOK
<1>0. /\ dirFd[w] = 1 /\ tmp[w] \in Names /\ tmp[w] # Target
      /\ entry[1][tmp[w]] = Own(w)
  BY OneDirectory, NamesAssumption
  DEF HoldsOK, HoldingDirectory, HoldingTemporary, AtomicInv, HoldsItsName,
      NameHeld, InCommit
<1>1. CASE Quiet(w)
  BY <1>1, QuietStep
<1>2. CASE /\ entry' = [entry EXCEPT ![1][Target] = Own(w), ![1][tmp[w]] = None]
           /\ published' = published \cup {<<w, 1>>}
           /\ pc' = [pc EXCEPT ![w] = "postSync"]
  <2>1. entry'[1][Target] = Own(w) /\ durable'[1][Target] = durable[1][Target]
    BY <1>0, <1>2, OneDirectory DEF FileSystemTypeOK, Slots
  <2>2. RenamedOK'
    BY <1>2 DEF RenameInv, RenamedOK, Past
  <2>3. RInv'
    BY <1>2, <2>1, <2>2 DEF RenameInv, Known
  <2>4. visibleNow' = [visibleNow EXCEPT ![1] = w]
    <3>1. ReadableAs'
      BY <2>3, VersionOfKnown, PTL
    <3>2. Version(entry[1][Target])' = w
      BY <2>1, <3>1 DEF ReadableAs
    <3>3. QED BY <3>2, OneDirectory DEF visibleNow
  <2>5. outcomeNow' = outcomeNow /\ outcomeNow[w] = "pending"
    BY <1>2 DEF outcomeNow, Ended
  <2>6. ~Promise!Published(w)
    BY NotYetPublished DEF Past
  <2>7. 1 \in Promise!Dirs
    BY OneDirectory DEF Promise!Dirs, Dirs
  <2>8. Promise!Publish(w, 1)
    BY <1>2, <2>4, <2>5, <2>6 DEF Promise!Publish, visibleNow, outcomeNow
  <2>9. QED BY <2>3, <2>7, <2>8 DEF Promise!ANext
<1>3. CASE UNCHANGED <<entry, published>> /\ pc' = [pc EXCEPT ![w] = "abort"]
  BY <1>1, <1>3 DEF Quiet, Past, Ended, Calls
<1>4. QED BY <1>0, <1>2, <1>3

LEMMA PostSyncStep ==
  ASSUME RInv, IInv', Cooperative, NEW w \in Writers, PostSync(w)
  PROVE  RInv' /\ [Promise!ANext]_Promise!avars
<1> USE DEF PostSync, Goto, RInv, IInv, TypeOK, LocalTypeOK, hist
<1>1. durable'[1][Target] \in {durable[1][Target], entry[1][Target]}
  BY OneDirectory DEF FileSystemTypeOK
<1>2. RenamedOK'
  BY DEF RenameInv, RenamedOK, Past
<1>3. RInv'
  BY <1>1, <1>2 DEF RenameInv, Known
<1>4. visibleNow' = visibleNow
  BY <1>3, SameVersion
<1>5. /\ outcomeNow' = [outcomeNow EXCEPT ![w] = "committed"]
      /\ outcomeNow[w] = "pending"
  BY DEF outcomeNow, Ended
<1>6. Promise!Published(w)
  BY OneDirectory DEF RenameInv, RenamedOK, Promise!Published, Promise!Dirs, Dirs
<1>7. Promise!ReportSuccess(w)
  BY <1>4, <1>5, <1>6 DEF Promise!ReportSuccess, visibleNow, outcomeNow
<1>8. QED BY <1>3, <1>7 DEF Promise!ANext

LEMMA KillStep ==
  ASSUME RInv, IInv', Cooperative, NEW w \in Writers, Kill(w)
  PROVE  RInv' /\ [Promise!ANext]_Promise!avars
<1> USE DEF Kill, Goto, RInv, IInv, TypeOK, LocalTypeOK, hist, fs
<1>1. RenamedOK'
  BY DEF RenameInv, RenamedOK, Past, Ended
<1>2. RInv'
  BY <1>1 DEF RenameInv, Known
<1>3. visibleNow' = visibleNow
  BY <1>2, SameVersion
<1>4. /\ outcomeNow' = [outcomeNow EXCEPT ![w] = "killed"]
      /\ outcomeNow[w] = "pending"
  BY DEF outcomeNow, Ended
<1>5. Promise!Die(w)
  BY <1>3, <1>4 DEF Promise!Die, visibleNow, outcomeNow
<1>6. QED BY <1>2, <1>5 DEF Promise!ANext

\* After a machine crash the destination is what its directory entry on the disk
\* led to: an earlier version.
LEMMA MachineCrashStep ==
  ASSUME RInv, IInv', Cooperative, MachineCrash
  PROVE  RInv' /\ [Promise!ANext]_Promise!avars
<1> USE DEF MachineCrash, RInv, IInv, TypeOK, LocalTypeOK, hist
<1>1. RenamedOK'
  BY DEF RenameInv, RenamedOK, Past, Ended
<1>2. RInv'
  BY <1>1 DEF RenameInv, Known
<1>3. Version(entry[1][Target])' \in Promise!Earlier(1) /\ published' = published
  <2>1. ReadableAs' /\ RenameInv'
    BY <1>2, VersionOfKnown, PTL
  <2>2. QED BY <2>1 DEF ReadableAs, RenameInv, Known, Promise!Earlier
<1>4. \A d \in Dirs : visibleNow'[d] \in Promise!Earlier(d)
  BY <1>3, OneDirectory DEF visibleNow
<1>5. visibleNow' \in [Promise!Dirs -> Promise!Versions]
  BY <1>4 DEF visibleNow, Promise!Dirs, Dirs, Promise!Versions, Promise!Earlier
<1>6. outcomeNow' = [w \in Writers |-> IF outcomeNow[w] = "pending" THEN "killed"
                                                                   ELSE outcomeNow[w]]
  BY DEF outcomeNow, Ended
<1>7. Promise!MachineCrash
  BY <1>3, <1>4, <1>5, <1>6
  DEF Promise!MachineCrash, Promise!Dirs, Dirs, visibleNow, outcomeNow
<1>8. QED BY <1>2, <1>7 DEF Promise!ANext

\* The system's own write-back changes nothing a reader sees.
LEMMA UnseenStep ==
  ASSUME RInv, IInv', Cooperative,
         \/ \E i \in Inodes : WriteBackFile(i)
         \/ \E d \in Dirs : WriteBackDir(d)
         \/ UNCHANGED vars
  PROVE  RInv' /\ [Promise!ANext]_Promise!avars
<1>1. /\ UNCHANGED <<pc, published, entry>>
      /\ durable'[1][Target] \in {durable[1][Target], entry[1][Target]}
  BY OneDirectory DEF WriteBackFile, WriteBackDir, vars, local, hist, fs,
     RInv, IInv, TypeOK, FileSystemTypeOK
<1>2. RInv'
  BY <1>1 DEF RInv, RenameInv, RenamedOK, Known
<1>3. visibleNow' = visibleNow /\ outcomeNow' = outcomeNow
  BY <1>1, <1>2, SameVersion DEF outcomeNow
<1>4. QED BY <1>1, <1>2, <1>3 DEF Promise!avars, visibleNow, outcomeNow

LEMMA InitMaps == ASSUME Cooperative, Init PROVE RInv /\ Promise!AInit
<1>1. RInv
  BY InitTypeInv, InitAtomic, InitRename DEF RInv, IInv, TypeInv
<1>2. Version(entry[1][Target]) \in {None, Before}
  BY <1>1, VersionOfKnown DEF ReadableAs, RInv, RenameInv, Known, Init
<1>3. visibleNow \in [Promise!Dirs -> {None, Before}]
  BY <1>2, OneDirectory DEF visibleNow, Promise!Dirs, Dirs
<1>4. published = {} /\ outcomeNow = [w \in Writers |-> "pending"]
  BY DEF Init, outcomeNow, Ended
<1>5. QED BY <1>1, <1>3, <1>4 DEF Promise!AInit, visibleNow, outcomeNow

LEMMA StepMaps ==
  ASSUME Cooperative, RInv, [Next]_vars
  PROVE  RInv' /\ [Promise!ANext]_Promise!avars
<1>1. IInv /\ IInv'
  BY AtomicStep DEF RInv
<1> SUFFICES ASSUME ~ \E i \in Inodes : WriteBackFile(i),
                    ~ \E d \in Dirs : WriteBackDir(d), ~UNCHANGED vars
             PROVE  RInv' /\ [Promise!ANext]_Promise!avars
  BY <1>1, UnseenStep
<1>2. ASSUME NEW w \in Writers, Transaction(w)
      PROVE  RInv' /\ [Promise!ANext]_Promise!avars
  <2>1. CASE Open(w) \/ Write(w) \/ GiveUp(w) \/ Abort(w)
    BY <1>1, <2>1, OpenIsQuiet, WriteIsQuiet, QuietStep
  <2>2. CASE Commit(w)
    BY <1>1, <2>2, CommitIsQuiet, QuietStep, RenameStep, PostSyncStep
  <2>3. QED BY <1>2, <2>1, <2>2 DEF Transaction
<1>3. ~ \E w \in Writers : Displace(w)
  BY <1>1 DEF Displace, Cooperative, IInv, TypeOK, EnvironmentTypeOK
<1>4. ~ \E d \in Dirs : MoveDirectory(d)
  BY <1>1, OneDirectory DEF MoveDirectory, IInv, TypeOK, EnvironmentTypeOK
<1>5. QED
  BY <1>1, <1>2, <1>3, <1>4, KillStep, MachineCrashStep DEF Next, Environment

\* Whatever the interleaving, the failures, the kills and the crashes, the callers
\* of open(), commit() and abort() are told the truth about a destination that
\* goes from whole version to whole version (dwg_dxf_output_transaction.h:34-36).
THEOREM OutputImplementsReplace ==
  ASSUME Cooperative
  PROVE  Spec => ImplementsAtomicReplace
<1>1. Init => RInv /\ Promise!AInit
  BY InitMaps
<1>2. RInv /\ [Next]_vars => RInv' /\ [Promise!ANext]_Promise!avars
  BY StepMaps
<1>3. QED BY <1>1, <1>2, PTL DEF Spec, ImplementsAtomicReplace, Promise!ASpec
=============================================================================
