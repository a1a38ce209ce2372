----------------------- MODULE OutputTransactionProofs -----------------------
(* Proofs about OutputTransaction for any number of transactions, names,     *)
(* attempts and crashes.                                                     *)
EXTENDS OutputTransaction, TLAPS

\* Calls made while m_directoryDescriptor is open, and while m_temporary is set.
HoldingTemporary == {"reopen", "verify", "writing", "abort", "unlink", "postSync"}
                    \cup InCommit
HoldingDirectory == {"stat", "create"} \cup HoldingTemporary

\* What a transaction holds at each of its calls, and the attempts it has left.
HoldsOK == \A w \in Writers :
             /\ pc[w] \in HoldingDirectory => dirFd[w] \in Dirs
             /\ pc[w] \in HoldingTemporary => tmp[w] \in Names
             /\ pc[w] \in {"openDir", "stat", "create"} => tries[w] < MaxAttempts

TypeInv == TypeOK /\ HoldsOK

LEMMA InodeFacts ==
  /\ \A w \in Writers : Own(w) \in Inodes /\ Reopened(w) \in Inodes
  /\ \A k \in 1..MaxForeign : Foreign(k) \in Inodes
  /\ \A d \in Dirs : Original(d) \in Inodes
BY DEF Inodes, Own, Reopened, Foreign, Original

LEMMA InitTypeInv == Init => TypeInv
<1> SUFFICES ASSUME Init PROVE TypeInv OBVIOUS
<1>1. entry \in [Dirs -> [Slots -> Inodes \cup {None}]]
  <2>1. PICK S \in SUBSET Dirs :
          entry = [d \in Dirs |-> [n \in Slots |->
                     IF n = Target /\ d \in S THEN Original(d) ELSE None]]
    BY DEF Init
  <2>2. QED BY <2>1, InodeFacts
<1>2. data \in [Inodes -> Contents]
  BY DEF Init, Contents
<1>3. mode \in [Inodes -> SUBSET Perms]
  <2>1. PICK p \in SUBSET Perms :
          mode = [i \in Inodes |-> IF i \in {Original(d) : d \in Dirs}
                                  THEN p ELSE Perms \ Umask]
    BY DEF Init
  <2>2. QED BY <2>1
<1>4. 1 \in Dirs
  BY BoundsAssumption DEF Dirs
<1>5. HoldsOK
  BY BoundsAssumption
  DEF Init, HoldsOK, HoldingDirectory, HoldingTemporary, InCommit
<1>6. LocalTypeOK
  BY BoundsAssumption
  DEF Init, LocalTypeOK, Calls, Ended, InOpen, InCommit
<1>7. FileSystemTypeOK
  BY <1>1, <1>2, <1>3 DEF Init, FileSystemTypeOK
<1>8. EnvironmentTypeOK
  BY <1>4, BoundsAssumption DEF Init, EnvironmentTypeOK
<1>9. HistoryTypeOK
  BY DEF Init, HistoryTypeOK
<1>10. QED
  BY <1>5, <1>6, <1>7, <1>8, <1>9 DEF TypeInv, TypeOK

\* Each action of a transaction keeps the types and what the transaction holds.
LEMMA OpenDirKeeps == ASSUME TypeInv, NEW w \in Writers, OpenDir(w) PROVE TypeInv'
<1> USE DEF TypeInv, TypeOK
<1>1. LocalTypeOK' /\ HoldsOK'
  <2>1. LocalTypeOK'
    BY BoundsAssumption, NamesAssumption, InodeFacts
    DEF OpenDir, Goto, LocalTypeOK, FileSystemTypeOK, EnvironmentTypeOK, Calls,
        Ended, InOpen, InCommit
  <2>2. ASSUME NEW v \in Writers
        PROVE  /\ pc'[v] \in HoldingDirectory => dirFd'[v] \in Dirs
               /\ pc'[v] \in HoldingTemporary => tmp'[v] \in Names
               /\ pc'[v] \in {"openDir", "stat", "create"} => tries'[v] < MaxAttempts
    BY NamesAssumption DEF OpenDir, Goto, LocalTypeOK, EnvironmentTypeOK, HoldsOK,
       HoldingTemporary, HoldingDirectory, InCommit
  <2>3. QED BY <2>1, <2>2 DEF HoldsOK
<1>2. FileSystemTypeOK'
  BY InodeFacts, PermsAssumption, NamesAssumption
  DEF OpenDir, LocalTypeOK, EnvironmentTypeOK, FileSystemTypeOK, fs
<1>3. EnvironmentTypeOK' /\ HistoryTypeOK'
  BY DEF OpenDir, HistoryTypeOK, LocalTypeOK, EnvironmentTypeOK, env, hist
<1>4. QED BY <1>1, <1>2, <1>3

LEMMA StatTargetKeeps == ASSUME TypeInv, NEW w \in Writers, StatTarget(w) PROVE TypeInv'
<1> USE DEF TypeInv, TypeOK
<1> DEFINE i == entry[dirFd[w]][Target]
<1>0. dirFd[w] \in Dirs /\ i \in Inodes \cup {None}
  BY DEF StatTarget, HoldsOK, HoldingDirectory, FileSystemTypeOK, Slots
<1>1. LocalTypeOK' /\ HoldsOK'
  <2>1. i # None => mode[i] \in SUBSET Perms
    BY <1>0 DEF FileSystemTypeOK
  <2> HIDE DEF i
  <2>2. /\ pc' = [pc EXCEPT ![w] = "create"]
        /\ pc[w] = "stat"
        /\ UNCHANGED <<dirFd, tmp, strm, tries>>
        /\ \/ i # None /\ tmode' = [tmode EXCEPT ![w] = mode[i]]
           \/ tmode' = [tmode EXCEPT ![w] = NoMode]
    BY DEF StatTarget, Goto, i
  <2>3. LocalTypeOK'
    BY <2>1, <2>2 DEF LocalTypeOK, Calls, InOpen
  <2>4. HoldsOK'
    BY <2>2 DEF LocalTypeOK, HoldsOK, HoldingTemporary, HoldingDirectory, InCommit
  <2>5. QED BY <2>3, <2>4
<1>2. FileSystemTypeOK'
  BY InodeFacts, PermsAssumption, NamesAssumption
  DEF StatTarget, LocalTypeOK, EnvironmentTypeOK, FileSystemTypeOK, fs
<1>3. EnvironmentTypeOK' /\ HistoryTypeOK'
  BY DEF StatTarget, HistoryTypeOK, LocalTypeOK, EnvironmentTypeOK, env, hist
<1>4. QED BY <1>1, <1>2, <1>3

LEMMA CreateTemporaryKeeps == ASSUME TypeInv, NEW w \in Writers, CreateTemporary(w) PROVE TypeInv'
<1> USE DEF TypeInv, TypeOK
<1>1. LocalTypeOK' /\ HoldsOK'
  <2>1. /\ pc[w] = "create" /\ tries[w] \in 0..MaxAttempts
        /\ tries[w] < MaxAttempts
    BY DEF CreateTemporary, HoldsOK, LocalTypeOK
  <2>2. /\ tries[w] + 1 \in 0..MaxAttempts /\ "create" \in Calls
        /\ "reopen" \in Calls /\ "failed" \in Calls
    BY <2>1, BoundsAssumption DEF Calls, InOpen, Ended
  <2>3. CASE \E n \in Draws[w] : /\ tmp' = [tmp EXCEPT ![w] = n]
                                /\ Goto(w, "reopen")
                                /\ UNCHANGED <<dirFd, tries, strm, tmode>>
    <3>1. PICK n \in Names : /\ tmp' = [tmp EXCEPT ![w] = n]
                             /\ pc' = [pc EXCEPT ![w] = "reopen"]
                             /\ UNCHANGED <<dirFd, tries, strm, tmode>>
      BY <2>3, NamesAssumption DEF Goto
    <3>2. LocalTypeOK'
      BY <2>2, <3>1 DEF LocalTypeOK
    <3>3. HoldsOK'
      BY <2>1, <3>1 DEF LocalTypeOK, HoldsOK, HoldingTemporary, HoldingDirectory,
         InCommit
    <3>4. QED BY <3>2, <3>3
  <2>4. CASE /\ tries' = [tries EXCEPT ![w] = @ + 1]
             /\ tries'[w] < MaxAttempts
             /\ UNCHANGED <<pc, dirFd, tmp, strm, tmode>>
    BY <2>1, <2>2, <2>4 DEF LocalTypeOK, HoldsOK, HoldingTemporary,
       HoldingDirectory, InCommit
  <2>5. CASE /\ tries' = [tries EXCEPT ![w] = @ + 1] \/ UNCHANGED tries
             /\ Goto(w, "failed")
             /\ dirFd' = [dirFd EXCEPT ![w] = 0]
             /\ UNCHANGED <<tmp, strm, tmode>>
    BY <2>1, <2>2, <2>5 DEF Goto, LocalTypeOK, HoldsOK, HoldingTemporary,
       HoldingDirectory, InCommit
  <2>6. QED BY <2>3, <2>4, <2>5 DEF CreateTemporary, AttemptsLeft
<1>2. FileSystemTypeOK'
  <2>1. CreationMode(w) \in SUBSET Perms
    BY PermsAssumption DEF CreationMode, LocalTypeOK
  <2>2. CASE \E n \in Draws[w] :
               /\ entry' = [entry EXCEPT ![pathDir][n] = Own(w)]
               /\ mode' = [mode EXCEPT ![Own(w)] = CreationMode(w)]
    <3>1. PICK n \in Draws[w] :
               /\ entry' = [entry EXCEPT ![pathDir][n] = Own(w)]
               /\ mode' = [mode EXCEPT ![Own(w)] = CreationMode(w)]
      BY <2>2
    <3>2. entry' \in [Dirs -> [Slots -> Inodes \cup {None}]]
      BY <3>1, InodeFacts DEF FileSystemTypeOK
    <3>3. mode' \in [Inodes -> SUBSET Perms]
      BY <2>1, <3>1 DEF FileSystemTypeOK
    <3>4. QED BY <3>2, <3>3 DEF CreateTemporary, FileSystemTypeOK
  <2>3. CASE UNCHANGED <<entry, mode>>
    BY <2>3 DEF CreateTemporary, FileSystemTypeOK
  <2>4. QED BY <2>2, <2>3 DEF CreateTemporary
<1>3. EnvironmentTypeOK' /\ HistoryTypeOK'
  BY DEF CreateTemporary, HistoryTypeOK, LocalTypeOK, EnvironmentTypeOK, env, hist
<1>4. QED BY <1>1, <1>2, <1>3

LEMMA ReopenKeeps == ASSUME TypeInv, NEW w \in Writers, Reopen(w) PROVE TypeInv'
<1> USE DEF TypeInv, TypeOK
<1>0. /\ pc[w] = "reopen" /\ tmp[w] \in Names /\ pathDir \in Dirs
      /\ entry[pathDir][tmp[w]] \in Inodes \cup {None}
  BY DEF Reopen, HoldsOK, HoldingTemporary, EnvironmentTypeOK, FileSystemTypeOK,
         Slots
<1> DEFINE i == IF entry[pathDir][tmp[w]] = None THEN Reopened(w)
                ELSE entry[pathDir][tmp[w]]
<1>i. i \in Inodes
  BY <1>0, InodeFacts
<1>r. \/ /\ entry' = [entry EXCEPT ![pathDir][tmp[w]] = i]
         /\ data' = [data EXCEPT ![i] = "empty"]
         /\ strm' = [strm EXCEPT ![w] = i]
      \/ UNCHANGED <<entry, data, strm>>
  BY DEF Reopen
<1> HIDE DEF i
<1>1. LocalTypeOK' /\ HoldsOK'
  <2>1. strm' \in [Writers -> Inodes \cup {None}]
    BY <1>i, <1>r DEF LocalTypeOK
  <2>2. pc' = [pc EXCEPT ![w] = "verify"] /\ UNCHANGED <<dirFd, tmp, tmode, tries>>
    BY DEF Reopen, Goto
  <2>3. LocalTypeOK'
    BY <2>1, <2>2 DEF LocalTypeOK, Calls, InOpen
  <2>4. HoldsOK'
    BY <1>0, <2>2 DEF LocalTypeOK, HoldsOK, HoldingTemporary, HoldingDirectory,
       InCommit
  <2>5. QED BY <2>3, <2>4
<1>2. FileSystemTypeOK'
  <2>1. entry' \in [Dirs -> [Slots -> Inodes \cup {None}]]
    <3>1. CASE entry' = [entry EXCEPT ![pathDir][tmp[w]] = i]
      BY <1>i, <3>1 DEF FileSystemTypeOK
    <3>2. CASE UNCHANGED entry
      BY <3>2 DEF FileSystemTypeOK
    <3>3. QED BY <1>r, <3>1, <3>2
  <2>2. data' \in [Inodes -> Contents]
    BY <1>i, <1>r DEF FileSystemTypeOK, Contents
  <2>3. QED BY <2>1, <2>2 DEF Reopen, FileSystemTypeOK
<1>3. EnvironmentTypeOK' /\ HistoryTypeOK'
  BY DEF Reopen, HistoryTypeOK, LocalTypeOK, EnvironmentTypeOK, env, hist
<1>4. QED BY <1>1, <1>2, <1>3

LEMMA VerifyOpenKeeps == ASSUME TypeInv, NEW w \in Writers, VerifyOpen(w) PROVE TypeInv'
<1> USE DEF TypeInv, TypeOK
<1>1. LocalTypeOK' /\ HoldsOK'
  BY InodeFacts, BoundsAssumption, NamesAssumption
  DEF VerifyOpen, Checked, Goto, LocalTypeOK, FileSystemTypeOK, EnvironmentTypeOK, Calls, HoldsOK, HoldingTemporary, HoldingDirectory, Ended, InOpen, InCommit
<1>2. FileSystemTypeOK'
  BY InodeFacts, PermsAssumption, NamesAssumption
  DEF VerifyOpen, LocalTypeOK, EnvironmentTypeOK, FileSystemTypeOK, fs
<1>3. EnvironmentTypeOK' /\ HistoryTypeOK'
  BY DEF VerifyOpen, HistoryTypeOK, LocalTypeOK, EnvironmentTypeOK, env, hist
<1>4. QED BY <1>1, <1>2, <1>3

LEMMA WriteKeeps == ASSUME TypeInv, NEW w \in Writers, Write(w) PROVE TypeInv'
<1> USE DEF TypeInv, TypeOK
<1>1. LocalTypeOK' /\ HoldsOK'
  BY DEF Write, local, LocalTypeOK, HoldsOK
<1>2. FileSystemTypeOK'
  BY InodeFacts, PermsAssumption, NamesAssumption
  DEF Write, Contents, LocalTypeOK, EnvironmentTypeOK, FileSystemTypeOK, fs
<1>3. EnvironmentTypeOK' /\ HistoryTypeOK'
  BY DEF Write, HistoryTypeOK, LocalTypeOK, EnvironmentTypeOK, env, hist
<1>4. QED BY <1>1, <1>2, <1>3

LEMMA GiveUpKeeps == ASSUME TypeInv, NEW w \in Writers, GiveUp(w) PROVE TypeInv'
<1> USE DEF TypeInv, TypeOK
<1>1. LocalTypeOK' /\ HoldsOK'
  BY InodeFacts, BoundsAssumption, NamesAssumption
  DEF GiveUp, Goto, LocalTypeOK, FileSystemTypeOK, EnvironmentTypeOK, Calls, HoldsOK, HoldingTemporary, HoldingDirectory, Ended, InOpen, InCommit
<1>2. FileSystemTypeOK'
  BY InodeFacts, PermsAssumption, NamesAssumption
  DEF GiveUp, LocalTypeOK, EnvironmentTypeOK, FileSystemTypeOK, fs
<1>3. EnvironmentTypeOK' /\ HistoryTypeOK'
  BY DEF GiveUp, HistoryTypeOK, LocalTypeOK, EnvironmentTypeOK, env, hist
<1>4. QED BY <1>1, <1>2, <1>3

LEMMA FlushKeeps == ASSUME TypeInv, NEW w \in Writers, Flush(w) PROVE TypeInv'
<1> USE DEF TypeInv, TypeOK
<1>1. LocalTypeOK' /\ HoldsOK'
  BY InodeFacts, BoundsAssumption, NamesAssumption
  DEF Flush, Goto, LocalTypeOK, FileSystemTypeOK, EnvironmentTypeOK, Calls, HoldsOK, HoldingTemporary, HoldingDirectory, Ended, InOpen, InCommit
<1>2. FileSystemTypeOK'
  BY InodeFacts, PermsAssumption, NamesAssumption
  DEF Flush, Contents, LocalTypeOK, EnvironmentTypeOK, FileSystemTypeOK, fs
<1>3. EnvironmentTypeOK' /\ HistoryTypeOK'
  BY DEF Flush, HistoryTypeOK, LocalTypeOK, EnvironmentTypeOK, env, hist
<1>4. QED BY <1>1, <1>2, <1>3

LEMMA CheckTemporaryKeeps == ASSUME TypeInv, NEW w \in Writers, CheckTemporary(w) PROVE TypeInv'
<1> USE DEF TypeInv, TypeOK
<1>1. LocalTypeOK' /\ HoldsOK'
  BY InodeFacts, BoundsAssumption, NamesAssumption
  DEF CheckTemporary, Checked, Goto, LocalTypeOK, FileSystemTypeOK, EnvironmentTypeOK, Calls, HoldsOK, HoldingTemporary, HoldingDirectory, Ended, InOpen, InCommit
<1>2. FileSystemTypeOK'
  BY InodeFacts, PermsAssumption, NamesAssumption
  DEF CheckTemporary, LocalTypeOK, EnvironmentTypeOK, FileSystemTypeOK, fs
<1>3. EnvironmentTypeOK' /\ HistoryTypeOK'
  BY DEF CheckTemporary, HistoryTypeOK, LocalTypeOK, EnvironmentTypeOK, env, hist
<1>4. QED BY <1>1, <1>2, <1>3

LEMMA CheckDirectoryKeeps == ASSUME TypeInv, NEW w \in Writers, CheckDirectory(w) PROVE TypeInv'
<1> USE DEF TypeInv, TypeOK
<1>1. LocalTypeOK' /\ HoldsOK'
  BY InodeFacts, BoundsAssumption, NamesAssumption
  DEF CheckDirectory, Checked, Goto, LocalTypeOK, FileSystemTypeOK, EnvironmentTypeOK, Calls, HoldsOK, HoldingTemporary, HoldingDirectory, Ended, InOpen, InCommit
<1>2. FileSystemTypeOK'
  BY InodeFacts, PermsAssumption, NamesAssumption
  DEF CheckDirectory, LocalTypeOK, EnvironmentTypeOK, FileSystemTypeOK, fs
<1>3. EnvironmentTypeOK' /\ HistoryTypeOK'
  BY DEF CheckDirectory, HistoryTypeOK, LocalTypeOK, EnvironmentTypeOK, env, hist
<1>4. QED BY <1>1, <1>2, <1>3

LEMMA FlushFileToStorageKeeps == ASSUME TypeInv, NEW w \in Writers, FlushFileToStorage(w) PROVE TypeInv'
<1> USE DEF TypeInv, TypeOK
<1>1. LocalTypeOK' /\ HoldsOK'
  BY InodeFacts, BoundsAssumption, NamesAssumption
  DEF FlushFileToStorage, Goto, LocalTypeOK, FileSystemTypeOK, EnvironmentTypeOK, Calls, HoldsOK, HoldingTemporary, HoldingDirectory, Ended, InOpen, InCommit
<1>2. FileSystemTypeOK'
  BY InodeFacts, PermsAssumption, NamesAssumption
  DEF FlushFileToStorage, LocalTypeOK, EnvironmentTypeOK, FileSystemTypeOK, fs
<1>3. EnvironmentTypeOK' /\ HistoryTypeOK'
  BY DEF FlushFileToStorage, HistoryTypeOK, LocalTypeOK, EnvironmentTypeOK, env, hist
<1>4. QED BY <1>1, <1>2, <1>3

LEMMA FlushParentDirectoryToStorageKeeps == ASSUME TypeInv, NEW w \in Writers, FlushParentDirectoryToStorage(w) PROVE TypeInv'
<1> USE DEF TypeInv, TypeOK
<1>1. LocalTypeOK' /\ HoldsOK'
  BY InodeFacts, BoundsAssumption, NamesAssumption
  DEF FlushParentDirectoryToStorage, Goto, LocalTypeOK, FileSystemTypeOK, EnvironmentTypeOK, Calls, HoldsOK, HoldingTemporary, HoldingDirectory, Ended, InOpen, InCommit
<1>2. FileSystemTypeOK'
  BY InodeFacts, PermsAssumption, NamesAssumption
  DEF FlushParentDirectoryToStorage, HoldsOK, HoldingTemporary, HoldingDirectory, InCommit, LocalTypeOK, EnvironmentTypeOK, FileSystemTypeOK, fs
<1>3. EnvironmentTypeOK' /\ HistoryTypeOK'
  BY DEF FlushParentDirectoryToStorage, HistoryTypeOK, LocalTypeOK, EnvironmentTypeOK, env, hist
<1>4. QED BY <1>1, <1>2, <1>3

LEMMA CloseStreamKeeps == ASSUME TypeInv, NEW w \in Writers, CloseStream(w) PROVE TypeInv'
<1> USE DEF TypeInv, TypeOK
<1>1. LocalTypeOK' /\ HoldsOK'
  BY InodeFacts, BoundsAssumption, NamesAssumption
  DEF CloseStream, Goto, LocalTypeOK, FileSystemTypeOK, EnvironmentTypeOK, Calls, HoldsOK, HoldingTemporary, HoldingDirectory, Ended, InOpen, InCommit
<1>2. FileSystemTypeOK'
  BY InodeFacts, PermsAssumption, NamesAssumption
  DEF CloseStream, LocalTypeOK, EnvironmentTypeOK, FileSystemTypeOK, fs
<1>3. EnvironmentTypeOK' /\ HistoryTypeOK'
  <2>1. TemporaryIdentityMatches(w) \in BOOLEAN
    BY DEF TemporaryIdentityMatches
  <2>2. [dir |-> pathDir, held |-> TemporaryIdentityMatches(w)]
          \in [dir : Dirs \cup {0}, held : BOOLEAN]
    BY <2>1 DEF EnvironmentTypeOK
  <2>3. HistoryTypeOK'
    BY <2>2 DEF CloseStream, HistoryTypeOK
  <2>4. EnvironmentTypeOK'
    BY DEF CloseStream, EnvironmentTypeOK, env
  <2>5. QED BY <2>3, <2>4
<1>4. QED BY <1>1, <1>2, <1>3

LEMMA RecheckTemporaryKeeps == ASSUME TypeInv, NEW w \in Writers, RecheckTemporary(w) PROVE TypeInv'
<1> USE DEF TypeInv, TypeOK
<1>1. LocalTypeOK' /\ HoldsOK'
  BY InodeFacts, BoundsAssumption, NamesAssumption
  DEF RecheckTemporary, Checked, Goto, LocalTypeOK, FileSystemTypeOK, EnvironmentTypeOK, Calls, HoldsOK, HoldingTemporary, HoldingDirectory, Ended, InOpen, InCommit
<1>2. FileSystemTypeOK'
  BY InodeFacts, PermsAssumption, NamesAssumption
  DEF RecheckTemporary, LocalTypeOK, EnvironmentTypeOK, FileSystemTypeOK, fs
<1>3. EnvironmentTypeOK' /\ HistoryTypeOK'
  BY DEF RecheckTemporary, HistoryTypeOK, LocalTypeOK, EnvironmentTypeOK, env, hist
<1>4. QED BY <1>1, <1>2, <1>3

LEMMA RecheckDirectoryKeeps == ASSUME TypeInv, NEW w \in Writers, RecheckDirectory(w) PROVE TypeInv'
<1> USE DEF TypeInv, TypeOK
<1>1. LocalTypeOK' /\ HoldsOK'
  BY InodeFacts, BoundsAssumption, NamesAssumption
  DEF RecheckDirectory, Checked, Goto, LocalTypeOK, FileSystemTypeOK, EnvironmentTypeOK, Calls, HoldsOK, HoldingTemporary, HoldingDirectory, Ended, InOpen, InCommit
<1>2. FileSystemTypeOK'
  BY InodeFacts, PermsAssumption, NamesAssumption
  DEF RecheckDirectory, LocalTypeOK, EnvironmentTypeOK, FileSystemTypeOK, fs
<1>3. EnvironmentTypeOK' /\ HistoryTypeOK'
  BY DEF RecheckDirectory, HistoryTypeOK, LocalTypeOK, EnvironmentTypeOK, env, hist
<1>4. QED BY <1>1, <1>2, <1>3

LEMMA RestoreModeKeeps == ASSUME TypeInv, NEW w \in Writers, RestoreMode(w) PROVE TypeInv'
<1> USE DEF TypeInv, TypeOK
<1>1. LocalTypeOK' /\ HoldsOK'
  BY InodeFacts, BoundsAssumption, NamesAssumption
  DEF RestoreMode, Goto, LocalTypeOK, FileSystemTypeOK, EnvironmentTypeOK, Calls, HoldsOK, HoldingTemporary, HoldingDirectory, Ended, InOpen, InCommit
<1>2. FileSystemTypeOK'
  BY InodeFacts, PermsAssumption, NamesAssumption
  DEF RestoreMode, LocalTypeOK, EnvironmentTypeOK, FileSystemTypeOK, fs
<1>3. EnvironmentTypeOK' /\ HistoryTypeOK'
  BY DEF RestoreMode, HistoryTypeOK, LocalTypeOK, EnvironmentTypeOK, env, hist
<1>4. QED BY <1>1, <1>2, <1>3

LEMMA RenameKeeps == ASSUME TypeInv, NEW w \in Writers, Rename(w) PROVE TypeInv'
<1> USE DEF TypeInv, TypeOK
<1>1. LocalTypeOK' /\ HoldsOK'
  BY InodeFacts, BoundsAssumption, NamesAssumption
  DEF Rename, Goto, LocalTypeOK, FileSystemTypeOK, EnvironmentTypeOK, Calls, HoldsOK, HoldingTemporary, HoldingDirectory, Ended, InOpen, InCommit
<1>0. /\ dirFd[w] \in Dirs /\ tmp[w] \in Names
      /\ entry[dirFd[w]][tmp[w]] \in Inodes \cup {None}
  BY DEF Rename, HoldsOK, HoldingTemporary, HoldingDirectory, InCommit,
         FileSystemTypeOK, Slots
<1>2. FileSystemTypeOK'
  <2>1. CASE entry' = [entry EXCEPT ![dirFd[w]][Target] = entry[dirFd[w]][tmp[w]],
                                  ![dirFd[w]][tmp[w]] = None]
    <3>1. entry' \in [Dirs -> [Slots -> Inodes \cup {None}]]
      BY <1>0, <2>1 DEF FileSystemTypeOK
    <3>2. QED BY <3>1 DEF Rename, FileSystemTypeOK
  <2>2. CASE UNCHANGED entry
    BY <2>2 DEF Rename, FileSystemTypeOK
  <2>3. QED BY <2>1, <2>2 DEF Rename
<1>3. EnvironmentTypeOK' /\ HistoryTypeOK'
  <2>1. <<w, dirFd[w]>> \in Writers \X Dirs
    BY <1>0
  <2>2. published' \subseteq Writers \X Dirs
    BY <2>1 DEF Rename, HistoryTypeOK
  <2>3. QED BY <2>2 DEF Rename, HistoryTypeOK, EnvironmentTypeOK, env
<1>4. QED BY <1>1, <1>2, <1>3

LEMMA PostSyncKeeps == ASSUME TypeInv, NEW w \in Writers, PostSync(w) PROVE TypeInv'
<1> USE DEF TypeInv, TypeOK
<1>1. LocalTypeOK' /\ HoldsOK'
  BY InodeFacts, BoundsAssumption, NamesAssumption
  DEF PostSync, Goto, LocalTypeOK, FileSystemTypeOK, EnvironmentTypeOK, Calls, HoldsOK, HoldingTemporary, HoldingDirectory, Ended, InOpen, InCommit
<1>2. FileSystemTypeOK'
  BY InodeFacts, PermsAssumption, NamesAssumption
  DEF PostSync, HoldsOK, HoldingTemporary, HoldingDirectory, InCommit, LocalTypeOK, EnvironmentTypeOK, FileSystemTypeOK, fs
<1>3. EnvironmentTypeOK' /\ HistoryTypeOK'
  BY DEF PostSync, HistoryTypeOK, LocalTypeOK, EnvironmentTypeOK, env, hist
<1>4. QED BY <1>1, <1>2, <1>3

LEMMA AbortCheckKeeps == ASSUME TypeInv, NEW w \in Writers, AbortCheck(w) PROVE TypeInv'
<1> USE DEF TypeInv, TypeOK
<1>1. LocalTypeOK' /\ HoldsOK'
  <2>1. LocalTypeOK'
    BY BoundsAssumption, NamesAssumption, InodeFacts
    DEF AbortCheck, Goto, LocalTypeOK, FileSystemTypeOK, EnvironmentTypeOK, Calls,
        Ended, InOpen, InCommit
  <2>2. ASSUME NEW v \in Writers
        PROVE  /\ pc'[v] \in HoldingDirectory => dirFd'[v] \in Dirs
               /\ pc'[v] \in HoldingTemporary => tmp'[v] \in Names
               /\ pc'[v] \in {"openDir", "stat", "create"} => tries'[v] < MaxAttempts
    BY NamesAssumption DEF AbortCheck, Goto, LocalTypeOK, EnvironmentTypeOK, HoldsOK,
       HoldingTemporary, HoldingDirectory, InCommit
  <2>3. QED BY <2>1, <2>2 DEF HoldsOK
<1>2. FileSystemTypeOK'
  BY InodeFacts, PermsAssumption, NamesAssumption
  DEF AbortCheck, LocalTypeOK, EnvironmentTypeOK, FileSystemTypeOK, fs
<1>3. EnvironmentTypeOK' /\ HistoryTypeOK'
  BY DEF AbortCheck, HistoryTypeOK, LocalTypeOK, EnvironmentTypeOK, env, hist
<1>4. QED BY <1>1, <1>2, <1>3

LEMMA UnlinkKeeps == ASSUME TypeInv, NEW w \in Writers, Unlink(w) PROVE TypeInv'
<1> USE DEF TypeInv, TypeOK
<1>1. LocalTypeOK' /\ HoldsOK'
  BY InodeFacts, BoundsAssumption, NamesAssumption
  DEF Unlink, Goto, LocalTypeOK, FileSystemTypeOK, EnvironmentTypeOK, Calls, HoldsOK, HoldingTemporary, HoldingDirectory, Ended, InOpen, InCommit
<1>2. FileSystemTypeOK'
  <2>1. \/ entry' = [entry EXCEPT ![dirFd[w]][tmp[w]] = None]
        \/ entry' = entry
    BY DEF Unlink
  <2>2. entry' \in [Dirs -> [Slots -> Inodes \cup {None}]]
    <3>1. CASE entry' = [entry EXCEPT ![dirFd[w]][tmp[w]] = None]
      BY <3>1 DEF FileSystemTypeOK
    <3>2. CASE entry' = entry
      BY <3>2 DEF FileSystemTypeOK
    <3>3. QED BY <2>1, <3>1, <3>2
  <2>3. QED BY <2>2 DEF Unlink, FileSystemTypeOK
<1>3. EnvironmentTypeOK' /\ HistoryTypeOK'
  BY DEF Unlink, HistoryTypeOK, LocalTypeOK, EnvironmentTypeOK, env, hist
<1>4. QED BY <1>1, <1>2, <1>3

LEMMA KillKeeps == ASSUME TypeInv, NEW w \in Writers, Kill(w) PROVE TypeInv'
<1> USE DEF TypeInv, TypeOK
<1>1. LocalTypeOK' /\ HoldsOK'
  BY InodeFacts, BoundsAssumption, NamesAssumption
  DEF Kill, Goto, LocalTypeOK, FileSystemTypeOK, EnvironmentTypeOK, Calls, HoldsOK, HoldingTemporary, HoldingDirectory, Ended, InOpen, InCommit
<1>2. FileSystemTypeOK'
  BY InodeFacts, PermsAssumption, NamesAssumption
  DEF Kill, LocalTypeOK, EnvironmentTypeOK, FileSystemTypeOK, fs
<1>3. EnvironmentTypeOK' /\ HistoryTypeOK'
  BY DEF Kill, HistoryTypeOK, LocalTypeOK, EnvironmentTypeOK, env, hist
<1>4. QED BY <1>1, <1>2, <1>3

LEMMA DisplaceKeeps == ASSUME TypeInv, NEW w \in Writers, Displace(w) PROVE TypeInv'
<1> USE DEF TypeInv, TypeOK
<1>1. LocalTypeOK' /\ HoldsOK'
  BY DEF Displace, local, LocalTypeOK, HoldsOK
<1>0. foreign' = foreign + 1 /\ foreign' \in 1..MaxForeign
  BY BoundsAssumption DEF Displace, EnvironmentTypeOK
<1>2. FileSystemTypeOK'
  <2>1. Foreign(foreign') \in Inodes
    BY <1>0, InodeFacts
  <2>2. PICK d \in Dirs :
          \/ entry' = [entry EXCEPT ![d][tmp[w]] = Foreign(foreign')]
          \/ entry' = [entry EXCEPT ![d][tmp[w]] = None]
    BY DEF Displace
  <2>3. entry' \in [Dirs -> [Slots -> Inodes \cup {None}]]
    BY <2>1, <2>2 DEF FileSystemTypeOK
  <2>4. QED BY <2>3 DEF Displace, FileSystemTypeOK
<1>3. EnvironmentTypeOK' /\ HistoryTypeOK'
  BY <1>0, BoundsAssumption
  DEF Displace, EnvironmentTypeOK, HistoryTypeOK, hist
<1>4. QED BY <1>1, <1>2, <1>3

LEMMA MachineCrashKeeps == ASSUME TypeInv, MachineCrash PROVE TypeInv'
<1> USE DEF TypeInv, TypeOK
<1>1. LocalTypeOK' /\ HoldsOK'
  BY DEF MachineCrash, LocalTypeOK, HoldsOK, Calls, Ended, HoldingTemporary,
     HoldingDirectory, InCommit
<1>2. FileSystemTypeOK'
  BY DEF MachineCrash, FileSystemTypeOK
<1>3. EnvironmentTypeOK' /\ HistoryTypeOK'
  BY BoundsAssumption DEF MachineCrash, EnvironmentTypeOK, HistoryTypeOK, hist
<1>4. QED BY <1>1, <1>2, <1>3

LEMMA WriteBackKeeps ==
  ASSUME TypeInv,
         (\E i \in Inodes : WriteBackFile(i)) \/ (\E d \in Dirs : WriteBackDir(d))
  PROVE  TypeInv'
<1> USE DEF TypeInv, TypeOK
<1>1. LocalTypeOK' /\ HoldsOK' /\ EnvironmentTypeOK' /\ HistoryTypeOK'
  BY DEF WriteBackFile, WriteBackDir, local, LocalTypeOK, HoldsOK, env, hist,
     EnvironmentTypeOK, HistoryTypeOK
<1>2. FileSystemTypeOK'
  BY DEF WriteBackFile, WriteBackDir, FileSystemTypeOK
<1>3. QED BY <1>1, <1>2

LEMMA MoveDirectoryKeeps ==
  ASSUME TypeInv, NEW d \in Dirs, MoveDirectory(d) PROVE TypeInv'
<1> USE DEF TypeInv, TypeOK
<1>1. LocalTypeOK' /\ HoldsOK' /\ FileSystemTypeOK'
  BY DEF MoveDirectory, local, fs, LocalTypeOK, HoldsOK, FileSystemTypeOK
<1>2. EnvironmentTypeOK' /\ HistoryTypeOK'
  BY BoundsAssumption DEF MoveDirectory, EnvironmentTypeOK, HistoryTypeOK
<1>3. QED BY <1>1, <1>2

LEMMA TypeInvInductive == TypeInv /\ [Next]_vars => TypeInv'
<1> SUFFICES ASSUME TypeInv, [Next]_vars PROVE TypeInv' OBVIOUS
<1>1. ASSUME NEW w \in Writers, Open(w) PROVE TypeInv'
  BY <1>1, OpenDirKeeps, StatTargetKeeps, CreateTemporaryKeeps, ReopenKeeps,
     VerifyOpenKeeps DEF Open
<1>2. ASSUME NEW w \in Writers, Commit(w) PROVE TypeInv'
  BY <1>2, FlushKeeps, CheckTemporaryKeeps, CheckDirectoryKeeps,
     FlushFileToStorageKeeps, FlushParentDirectoryToStorageKeeps,
     CloseStreamKeeps, RecheckTemporaryKeeps, RecheckDirectoryKeeps,
     RestoreModeKeeps, RenameKeeps, PostSyncKeeps DEF Commit
<1>3. ASSUME NEW w \in Writers, Write(w) \/ GiveUp(w) \/ Abort(w) PROVE TypeInv'
  BY <1>3, WriteKeeps, GiveUpKeeps, AbortCheckKeeps, UnlinkKeeps DEF Abort
<1>4. CASE Environment
  BY <1>4, KillKeeps, DisplaceKeeps, WriteBackKeeps, MoveDirectoryKeeps,
     MachineCrashKeeps DEF Environment
<1>5. CASE UNCHANGED vars
  BY <1>5 DEF vars, local, fs, env, hist, TypeInv, TypeOK, LocalTypeOK,
     FileSystemTypeOK, EnvironmentTypeOK, HistoryTypeOK, HoldsOK
<1>6. QED BY <1>1, <1>2, <1>3, <1>4, <1>5 DEF Next, Transaction

\* Every variable keeps to its type, and a transaction makes each call with the
\* descriptor and the temporary name the call uses.
THEOREM TypeCorrect == Spec => [](TypeOK /\ HoldsOK)
<1>1. TypeInv => TypeOK /\ HoldsOK
  BY DEF TypeInv
<1>2. QED BY InitTypeInv, TypeInvInductive, <1>1, PTL DEF Spec

---------------------------------------------------------------------------
(* What a transaction publishes is what it held when it closed its stream,   *)
(* and its temporary is never more accessible than the file it replaces, for *)
(* any number of transactions, displaced temporaries, moved directories,     *)
(* killed processes and machine crashes.                                     *)

\* Calls made after the close, and after each of the two checks that follow it.
Closed == {"recheckTemp", "recheckDir", "chmod", "rename"}
TemporaryRechecked == {"recheckDir", "chmod", "rename"}
DirectoryRechecked == {"chmod", "rename"}
Renamed == {"postSync", "committed", "killed"}

\* A transaction between its close and its rename: a temporary that is there at
\* the check was there at the close, and a path that leads to the directory now
\* did so then, or it came back.
HistOf(w) ==
  /\ w \notin returned /\ pc[w] \in Closed /\ pathDir = dirFd[w]
       => atClose[w].dir = dirFd[w]
  /\ pc[w] = "recheckTemp" /\ TemporaryIdentityMatches(w) => atClose[w].held
  /\ pc[w] \in TemporaryRechecked => atClose[w].held
  /\ w \notin returned /\ pc[w] \in DirectoryRechecked => atClose[w].dir = dirFd[w]
  /\ \A d \in Dirs : <<w, d>> \in published =>
       /\ pc[w] \in Renamed /\ atClose[w].held
       /\ w \notin returned => atClose[w].dir = d

HistInv == \A w \in Writers : HistOf(w)

\* The inductive invariant.
KInv == TypeInv /\ HistInv

LEMMA InitHist == ASSUME Init PROVE HistInv
BY BoundsAssumption DEF Init, HistInv, HistOf, Closed, TemporaryRechecked, DirectoryRechecked,
   Renamed, Dirs

\* A step that leaves a transaction alone, brings its path back to its directory
\* only as a return and its temporary nowhere keeps what the transaction relies on.
LEMMA AloneKeeps ==
  ASSUME KInv, NEW v \in Writers,
         pc'[v] = pc[v], dirFd'[v] = dirFd[v], tmp'[v] = tmp[v], atClose'[v] = atClose[v],
         v \in returned => v \in returned',
         pathDir' \in {pathDir} \/ dirFd[v] # pathDir' \/ v \in returned' \/ pc[v] \in Ended,
         \A d \in Dirs : <<v, d>> \in published' => <<v, d>> \in published,
         \A d \in Dirs, n \in Names : entry'[d][n] = Own(v) => entry[d][n] = Own(v)
  PROVE  HistOf(v)'
<1>1. HistOf(v)
  BY DEF KInv, HistInv
<1>2. v \notin returned' /\ pc'[v] \in Closed /\ pathDir' = dirFd'[v]
        => atClose'[v].dir = dirFd'[v]
  BY <1>1 DEF HistOf, Closed, Ended
<1>3. pc'[v] = "recheckTemp" /\ TemporaryIdentityMatches(v)' => atClose'[v].held
  <2>1. pc[v] = "recheckTemp" => dirFd[v] \in Dirs /\ tmp[v] \in Names
    BY DEF KInv, TypeInv, HoldsOK, HoldingDirectory, HoldingTemporary, InCommit
  <2>2. QED BY <1>1, <2>1 DEF HistOf, TemporaryIdentityMatches
<1>4. QED BY <1>1, <1>2, <1>3 DEF HistOf

\* A transaction of its own that is before its close and does not rename.
LEMMA EarlyKeeps ==
  ASSUME KInv, NEW w \in Writers,
         pc[w] \notin Closed \cup Renamed, pc'[w] \notin Closed, published' = published
  PROVE  HistOf(w)'
<1>1. HistOf(w)
  BY DEF KInv, HistInv
<1>2. \A d \in Dirs : <<w, d>> \notin published'
  BY <1>1 DEF HistOf
<1>3. pc'[w] \notin TemporaryRechecked \cup DirectoryRechecked \cup {"recheckTemp"}
  BY DEF Closed, TemporaryRechecked, DirectoryRechecked
<1>4. QED BY <1>2, <1>3 DEF HistOf

\* The steps of one transaction that touch the entries of no directory and are
\* not made between its close and its rename.
LEMMA QuietKeepsHistory ==
  ASSUME KInv, NEW w \in Writers,
         \/ OpenDir(w) \/ StatTarget(w) \/ VerifyOpen(w) \/ Write(w) \/ GiveUp(w) \/ Flush(w)
         \/ CheckTemporary(w) \/ CheckDirectory(w) \/ FlushFileToStorage(w)
         \/ FlushParentDirectoryToStorage(w) \/ AbortCheck(w)
  PROVE  HistInv'
<1>0. KInv => pc \in [Writers -> Calls] /\ dirFd \in [Writers -> Dirs \cup {0}]
              /\ tmp \in [Writers -> Names \cup {None}]
  BY DEF KInv, TypeInv, TypeOK, LocalTypeOK
<1>1. pc[w] \notin Closed \cup Renamed /\ pc'[w] \notin Closed
  BY <1>0 DEF OpenDir, StatTarget, VerifyOpen, Write, GiveUp, Flush, CheckTemporary, CheckDirectory,
     FlushFileToStorage, FlushParentDirectoryToStorage, AbortCheck, Checked, Goto, Closed, Renamed, local
<1>2. /\ pathDir' = pathDir /\ published' = published /\ entry' = entry
      /\ atClose' = atClose /\ returned' = returned
  BY DEF OpenDir, StatTarget, VerifyOpen, Write, GiveUp, Flush, CheckTemporary, CheckDirectory,
     FlushFileToStorage, FlushParentDirectoryToStorage, AbortCheck, fs, env, hist
<1>4. ASSUME NEW v \in Writers, v # w
      PROVE  pc'[v] = pc[v] /\ dirFd'[v] = dirFd[v] /\ tmp'[v] = tmp[v]
  BY <1>0, <1>4 DEF OpenDir, StatTarget, VerifyOpen, Write, GiveUp, Flush, CheckTemporary,
     CheckDirectory, FlushFileToStorage, FlushParentDirectoryToStorage, AbortCheck, Checked, Goto, local
<1>6. QED
  <2>1. ASSUME NEW v \in Writers, v # w PROVE HistOf(v)'
    BY <1>2, <1>4, <2>1, AloneKeeps
  <2>2. HistOf(w)'
    BY <1>1, <1>2, EarlyKeeps
  <2>3. QED BY <2>1, <2>2 DEF HistInv
\* The steps before the close that change entries bring nobody's temporary back.
LEMMA CreateTemporaryHist ==
  ASSUME KInv, NEW w \in Writers, CreateTemporary(w) PROVE HistInv'
<1>0. /\ pc \in [Writers -> Calls] /\ dirFd \in [Writers -> Dirs \cup {0}]
      /\ tmp \in [Writers -> Names \cup {None}]
      /\ entry \in [Dirs -> [Slots -> Inodes \cup {None}]]
      /\ pathDir \in Dirs
  BY DEF KInv, TypeInv, TypeOK, LocalTypeOK, FileSystemTypeOK, EnvironmentTypeOK, Dirs
<1>1. /\ pc[w] \notin Closed \cup Renamed /\ pc'[w] \notin Closed
      /\ pathDir' = pathDir /\ published' = published /\ atClose' = atClose
      /\ returned' = returned
  BY <1>0 DEF CreateTemporary, Goto, Closed, Renamed, env, hist
<1>2. HistOf(w)'
  BY <1>1, EarlyKeeps
<1>3. ASSUME NEW v \in Writers, v # w PROVE HistOf(v)'
  <2>1. pc'[v] = pc[v] /\ dirFd'[v] = dirFd[v] /\ tmp'[v] = tmp[v]
    BY <1>0, <1>3 DEF CreateTemporary, Goto
  <2>2. Own(v) # Own(w)
    BY <1>3 DEF Own
  <2>3. ASSUME NEW d \in Dirs, NEW n \in Names, entry'[d][n] = Own(v) PROVE entry[d][n] = Own(v)
    <3>1. CASE entry' = entry
      BY <3>1, <2>3
    <3>2. ASSUME NEW m \in Draws[w], entry' = [entry EXCEPT ![pathDir][m] = Own(w)]
          PROVE  entry[d][n] = Own(v)
      BY <1>0, <2>2, <2>3, <3>2
    <3>3. QED BY <3>1, <3>2 DEF CreateTemporary
  <2>4. QED BY <1>0, <1>1, <2>1, <2>3, AloneKeeps
<1>4. QED BY <1>2, <1>3 DEF HistInv

LEMMA ReopenHist ==
  ASSUME KInv, NEW w \in Writers, Reopen(w) PROVE HistInv'
<1>0. /\ pc \in [Writers -> Calls] /\ dirFd \in [Writers -> Dirs \cup {0}]
      /\ entry \in [Dirs -> [Slots -> Inodes \cup {None}]]
      /\ pathDir \in Dirs
  BY DEF KInv, TypeInv, TypeOK, LocalTypeOK, FileSystemTypeOK, EnvironmentTypeOK, Dirs
<1>1. /\ pc[w] \notin Closed \cup Renamed /\ pc'[w] \notin Closed
      /\ pathDir' = pathDir /\ published' = published /\ atClose' = atClose
      /\ returned' = returned
      /\ dirFd' = dirFd /\ tmp' = tmp
  BY <1>0 DEF Reopen, Goto, Closed, Renamed, env, hist
<1>2. HistOf(w)'
  BY <1>1, EarlyKeeps
<1>3. ASSUME NEW v \in Writers, v # w PROVE HistOf(v)'
  <2>0. tmp[w] \in Names
    BY DEF KInv, TypeInv, HoldsOK, HoldingTemporary, Reopen
  <2>1. pc'[v] = pc[v]
    BY <1>0, <1>3 DEF Reopen, Goto
  <2>2. Own(v) # Reopened(w)
    BY DEF Own, Reopened
  <2>3. ASSUME NEW d \in Dirs, NEW n \in Names, entry'[d][n] = Own(v) PROVE entry[d][n] = Own(v)
    BY <1>0, <2>0, <2>2, <2>3 DEF Reopen, Slots
  <2>4. QED BY <1>0, <1>1, <2>1, <2>3, AloneKeeps
<1>4. QED BY <1>2, <1>3 DEF HistInv

LEMMA UnlinkHist ==
  ASSUME KInv, NEW w \in Writers, Unlink(w) PROVE HistInv'
<1>0. /\ pc \in [Writers -> Calls] /\ dirFd \in [Writers -> Dirs \cup {0}]
      /\ tmp \in [Writers -> Names \cup {None}]
      /\ entry \in [Dirs -> [Slots -> Inodes \cup {None}]]
      /\ pathDir \in Dirs
  BY DEF KInv, TypeInv, TypeOK, LocalTypeOK, FileSystemTypeOK, EnvironmentTypeOK, Dirs
<1>1. /\ pc[w] \notin Closed \cup Renamed /\ pc'[w] \notin Closed
      /\ pathDir' = pathDir /\ published' = published /\ atClose' = atClose
      /\ returned' = returned
  BY <1>0 DEF Unlink, Goto, Closed, Renamed, env, hist
<1>2. HistOf(w)'
  BY <1>1, EarlyKeeps
<1>3. ASSUME NEW v \in Writers, v # w PROVE HistOf(v)'
  <2>1. pc'[v] = pc[v] /\ dirFd'[v] = dirFd[v] /\ tmp'[v] = tmp[v]
    BY <1>0, <1>3 DEF Unlink, Goto
  <2>2. Own(v) # None
    BY DEF Own, None
  <2>3. ASSUME NEW d \in Dirs, NEW n \in Names, entry'[d][n] = Own(v) PROVE entry[d][n] = Own(v)
    <3>1. \/ entry' = [entry EXCEPT ![dirFd[w]][tmp[w]] = None]
          \/ entry' = entry
      BY DEF Unlink
    <3>2. QED BY <1>0, <2>2, <2>3, <3>1 DEF Slots
  <2>4. QED BY <1>0, <1>1, <2>1, <2>3, AloneKeeps
<1>4. QED BY <1>2, <1>3 DEF HistInv

\* The close takes down what the names lead to; the checks that follow are
\* passed only by a transaction for which they still do.
LEMMA CloseStreamHist ==
  ASSUME KInv, NEW w \in Writers, CloseStream(w) PROVE HistInv'
<1>0. /\ pc \in [Writers -> Calls] /\ dirFd \in [Writers -> Dirs \cup {0}]
      /\ atClose \in [Writers -> [dir : Dirs \cup {0}, held : BOOLEAN]]
      /\ pathDir \in Dirs
  BY DEF KInv, TypeInv, TypeOK, LocalTypeOK, HistoryTypeOK, EnvironmentTypeOK, Dirs
<1>1. /\ pathDir' = pathDir /\ published' = published /\ entry' = entry
      /\ returned' = returned
      /\ dirFd' = dirFd /\ tmp' = tmp /\ pc[w] = "close" /\ pc'[w] \in {"recheckTemp", "abort"}
  BY <1>0 DEF CloseStream, Goto, fs, env
<1>2. atClose'[w] = [dir |-> pathDir, held |-> TemporaryIdentityMatches(w)]
  BY <1>0 DEF CloseStream
<1>3. HistOf(w)'
  <2>1. \A d \in Dirs : <<w, d>> \notin published
    BY <1>1 DEF KInv, HistInv, HistOf, Renamed
  <2>2. TemporaryIdentityMatches(w)' = TemporaryIdentityMatches(w)
    BY <1>1 DEF TemporaryIdentityMatches
  <2>3. atClose'[w].dir = pathDir /\ atClose'[w].held = TemporaryIdentityMatches(w)
    BY <1>2
  <2>4. QED
    BY <1>0, <1>1, <2>1, <2>2, <2>3 DEF HistOf, Closed, TemporaryRechecked, DirectoryRechecked
<1>4. ASSUME NEW v \in Writers, v # w PROVE HistOf(v)'
  <2>1. pc'[v] = pc[v] /\ atClose'[v] = atClose[v]
    BY <1>0, <1>4 DEF CloseStream, Goto
  <2>2. QED BY <1>0, <1>1, <2>1, AloneKeeps
<1>5. QED BY <1>3, <1>4 DEF HistInv

LEMMA RecheckHist ==
  ASSUME KInv, NEW w \in Writers,
         RecheckTemporary(w) \/ RecheckDirectory(w) \/ RestoreMode(w)
  PROVE  HistInv'
<1>0. /\ pc \in [Writers -> Calls] /\ dirFd \in [Writers -> Dirs \cup {0}]
      /\ atClose[w].dir \in Dirs \cup {0} /\ pathDir \in Dirs
  BY DEF KInv, TypeInv, TypeOK, LocalTypeOK, HistoryTypeOK, EnvironmentTypeOK, Dirs
<1>1. /\ pathDir' = pathDir /\ published' = published /\ entry' = entry /\ atClose' = atClose
      /\ dirFd' = dirFd /\ tmp' = tmp /\ returned' = returned
  BY DEF RecheckTemporary, RecheckDirectory, RestoreMode, fs, env, hist
<1>2. HistOf(w)
  BY DEF KInv, HistInv
<1>3. HistOf(w)'
  <2>1. CASE RecheckTemporary(w)
    <3>1. /\ pc[w] = "recheckTemp"
          /\ \/ pc'[w] = "recheckDir" /\ TemporaryIdentityMatches(w)
             \/ pc'[w] = "abort"
      BY <1>0, <2>1 DEF RecheckTemporary, Checked, Goto
    <3>2. QED
      BY <1>1, <1>2, <3>1 DEF HistOf, Closed, TemporaryRechecked, DirectoryRechecked, Renamed
  <2>2. CASE RecheckDirectory(w)
    <3>1. /\ pc[w] = "recheckDir"
          /\ \/ pc'[w] = "chmod" /\ dirFd[w] = pathDir
             \/ pc'[w] = "abort"
      BY <1>0, <2>2 DEF RecheckDirectory, Checked, DirectoryIdentityMatchesPath, Goto
    <3>2. w \notin returned /\ pc'[w] = "chmod" => atClose[w].dir = dirFd[w]
      BY <1>2, <3>1 DEF HistOf, Closed
    <3>3. QED
      BY <1>1, <1>2, <3>1, <3>2 DEF HistOf, Closed, TemporaryRechecked, DirectoryRechecked, Renamed
  <2>3. CASE RestoreMode(w)
    <3>1. pc[w] = "chmod" /\ pc'[w] = "rename"
      BY <1>0, <2>3 DEF RestoreMode, Goto
    <3>2. QED
      BY <1>1, <1>2, <3>1 DEF HistOf, Closed, TemporaryRechecked, DirectoryRechecked, Renamed
  <2>4. QED BY <2>1, <2>2, <2>3
<1>4. ASSUME NEW v \in Writers, v # w PROVE HistOf(v)'
  <2>1. pc'[v] = pc[v]
    BY <1>0, <1>4 DEF RecheckTemporary, RecheckDirectory, RestoreMode, Checked, Goto
  <2>2. QED BY <1>0, <1>1, <2>1, AloneKeeps
<1>5. QED BY <1>3, <1>4 DEF HistInv
\* The rename publishes in the directory that was compared last.
LEMMA RenameHist ==
  ASSUME KInv, NEW w \in Writers, Rename(w) PROVE HistInv'
<1>0. /\ pc \in [Writers -> Calls] /\ dirFd \in [Writers -> Dirs \cup {0}]
      /\ atClose \in [Writers -> [dir : Dirs \cup {0}, held : BOOLEAN]]
      /\ entry \in [Dirs -> [Slots -> Inodes \cup {None}]]
      /\ pathDir \in Dirs
  BY DEF KInv, TypeInv, TypeOK, LocalTypeOK, FileSystemTypeOK, HistoryTypeOK, EnvironmentTypeOK,
     Dirs
<1>1. /\ pathDir' = pathDir /\ atClose' = atClose /\ dirFd' = dirFd /\ tmp' = tmp
      /\ returned' = returned /\ pc[w] = "rename"
      /\ \/ pc'[w] = "postSync" /\ published' = published \cup {<<w, dirFd[w]>>}
         \/ pc'[w] = "abort" /\ published' = published
  BY <1>0 DEF Rename, Goto, env
<1>2. HistOf(w)
  BY DEF KInv, HistInv
<1>3. HistOf(w)'
  <2>1. /\ atClose[w].held /\ (w \notin returned => atClose[w].dir = dirFd[w])
        /\ \A d \in Dirs : <<w, d>> \notin published
    BY <1>1, <1>2 DEF HistOf, TemporaryRechecked, DirectoryRechecked, Renamed
  <2>3. \A d \in Dirs : <<w, d>> \in published' => d = dirFd[w] /\ pc'[w] = "postSync"
    BY <1>1, <2>1
  <2>4. QED
    BY <1>1, <2>1, <2>3 DEF HistOf, Closed, TemporaryRechecked, DirectoryRechecked, Renamed
<1>4. ASSUME NEW v \in Writers, v # w PROVE HistOf(v)'
  <2>1. pc'[v] = pc[v] /\ \A d \in Dirs : <<v, d>> \in published' => <<v, d>> \in published
    BY <1>0, <1>1, <1>4 DEF Rename, Goto
  <2>2. Own(v) # None
    BY DEF Own, None
  <2>3. dirFd[w] \in Dirs /\ tmp[w] \in Names
    BY <1>1 DEF KInv, TypeInv, HoldsOK, HoldingDirectory, HoldingTemporary, InCommit
  <2>4. ASSUME NEW d \in Dirs, NEW n \in Names, entry'[d][n] = Own(v) PROVE entry[d][n] = Own(v)
    BY <1>0, <2>2, <2>3, <2>4, NamesAssumption DEF Rename, Slots
  <2>5. QED BY <1>0, <1>1, <2>1, <2>4, AloneKeeps
<1>5. QED BY <1>3, <1>4 DEF HistInv

LEMMA PostSyncHist ==
  ASSUME KInv, NEW w \in Writers, PostSync(w) PROVE HistInv'
<1>0. /\ pc \in [Writers -> Calls] /\ dirFd \in [Writers -> Dirs \cup {0}]
      /\ tmp \in [Writers -> Names \cup {None}] /\ pathDir \in Dirs
  BY DEF KInv, TypeInv, TypeOK, LocalTypeOK, EnvironmentTypeOK, Dirs
<1>1. /\ pathDir' = pathDir /\ published' = published /\ entry' = entry /\ atClose' = atClose
      /\ returned' = returned /\ pc[w] = "postSync" /\ pc'[w] = "committed" /\ dirFd'[w] = 0
  BY <1>0 DEF PostSync, Goto, env, hist
<1>2. HistOf(w)
  BY DEF KInv, HistInv
<1>3. HistOf(w)'
  BY <1>0, <1>1, <1>2 DEF HistOf, Closed, TemporaryRechecked, DirectoryRechecked, Renamed
<1>4. ASSUME NEW v \in Writers, v # w PROVE HistOf(v)'
  <2>1. pc'[v] = pc[v] /\ dirFd'[v] = dirFd[v] /\ tmp'[v] = tmp[v]
    BY <1>0, <1>4 DEF PostSync, Goto
  <2>2. QED BY <1>0, <1>1, <2>1, AloneKeeps
<1>5. QED BY <1>3, <1>4 DEF HistInv

\* A killed process does nothing more, whatever its names lead to.
LEMMA DeathHist ==
  ASSUME KInv, (\E w \in Writers : Kill(w)) \/ MachineCrash
  PROVE  HistInv'
<1>0. pc \in [Writers -> Calls]
  BY DEF KInv, TypeInv, TypeOK, LocalTypeOK
<1>1. /\ pathDir' = pathDir /\ published' = published /\ atClose' = atClose
      /\ returned' = returned /\ dirFd' = dirFd /\ tmp' = tmp
  BY DEF Kill, MachineCrash, env, hist
<1>2. ASSUME NEW v \in Writers PROVE HistOf(v)'
  <2>1. HistOf(v)
    BY DEF KInv, HistInv
  <2>2. CASE pc'[v] = "killed"
    BY <1>1, <2>1, <2>2 DEF HistOf, Closed, TemporaryRechecked, DirectoryRechecked, Renamed
  <2>3. CASE pc'[v] = pc[v] /\ pc[v] \in Ended
    BY <1>1, <2>1, <2>3 DEF HistOf, Closed, TemporaryRechecked, DirectoryRechecked, Renamed, Ended
  <2>4. CASE pc'[v] = pc[v] /\ entry' = entry
    BY <1>1, <2>1, <2>4 DEF HistOf, TemporaryIdentityMatches
  <2>5. QED
    BY <1>0, <2>2, <2>3, <2>4 DEF Kill, MachineCrash, Goto, fs
<1>3. QED BY <1>2 DEF HistInv

\* Other programs remove and replace temporaries but do not bring one back, a path
\* that comes back is taken down, and what is written back is seen by nobody.
LEMMA OthersHist ==
  ASSUME KInv,
         \/ \E w \in Writers : Displace(w)
         \/ \E d \in Dirs : MoveDirectory(d) \/ WriteBackDir(d)
         \/ \E i \in Inodes : WriteBackFile(i)
  PROVE  HistInv'
<1>0. /\ entry \in [Dirs -> [Slots -> Inodes \cup {None}]] /\ pathDir \in Dirs
      /\ tmp \in [Writers -> Names \cup {None}]
  BY DEF KInv, TypeInv, TypeOK, LocalTypeOK, FileSystemTypeOK, EnvironmentTypeOK
<1>1. /\ pc' = pc /\ dirFd' = dirFd /\ tmp' = tmp /\ atClose' = atClose /\ published' = published
  BY DEF Displace, MoveDirectory, WriteBackDir, WriteBackFile, local, hist
<1>2. /\ returned \subseteq returned'
      /\ \A v \in Writers : \/ pathDir' \in {pathDir} \/ dirFd[v] # pathDir'
                            \/ v \in returned' \/ pc[v] \in Ended
  BY <1>0 DEF Displace, MoveDirectory, WriteBackDir, WriteBackFile, env, hist
<1>3. ASSUME NEW v \in Writers PROVE HistOf(v)'
  <2>1. ASSUME NEW d \in Dirs, NEW n \in Names, entry'[d][n] = Own(v) PROVE entry[d][n] = Own(v)
    <3>1. CASE entry' = entry
      BY <2>1, <3>1
    <3>2. ASSUME NEW w \in Writers, Displace(w) PROVE entry[d][n] = Own(v)
      <4>1. PICK c \in Dirs :
              \/ entry' = [entry EXCEPT ![c][tmp[w]] = Foreign(foreign')]
              \/ entry' = [entry EXCEPT ![c][tmp[w]] = None]
        BY <3>2 DEF Displace
      <4>2. Own(v) # None /\ Own(v) # Foreign(foreign')
        BY DEF Own, None, Foreign
      <4>3. QED BY <1>0, <2>1, <4>1, <4>2 DEF Slots
    <3>3. QED
      BY <3>1, <3>2 DEF MoveDirectory, WriteBackDir, WriteBackFile, fs
  <2>2. QED BY <1>1, <1>2, <2>1, AloneKeeps
<1>4. QED BY <1>3 DEF HistInv

LEMMA KInvInductive == ASSUME KInv, [Next]_vars PROVE KInv'
<1>1. TypeInv'
  BY TypeInvInductive DEF KInv
<1>2. HistInv'
  <2>1. ASSUME NEW w \in Writers, Open(w) PROVE HistInv'
    BY <2>1, QuietKeepsHistory, CreateTemporaryHist, ReopenHist DEF Open
  <2>2. ASSUME NEW w \in Writers, Commit(w) PROVE HistInv'
    BY <2>2, QuietKeepsHistory, CloseStreamHist, RecheckHist, RenameHist, PostSyncHist DEF Commit
  <2>3. ASSUME NEW w \in Writers, Write(w) \/ GiveUp(w) \/ Abort(w) PROVE HistInv'
    BY <2>3, QuietKeepsHistory, UnlinkHist DEF Abort
  <2>4. CASE Environment
    BY <2>4, DeathHist, OthersHist DEF Environment
  <2>5. CASE UNCHANGED vars
    BY <2>5 DEF vars, local, fs, env, hist, KInv, HistInv, HistOf, TemporaryIdentityMatches
  <2>6. QED BY <2>1, <2>2, <2>3, <2>4, <2>5 DEF Next, Transaction
<1>3. QED BY <1>1, <1>2 DEF KInv

\* Whatever other programs do, a transaction publishes only a temporary it held
\* when it closed its stream, in a directory its path led to then, unless the
\* path came back to that directory (publish() and the checks before it).
THEOREM PublishesHeld == Spec => []PublishesOnlyWhatItHeld
<1>1. Init => KInv
  BY InitTypeInv, InitHist DEF KInv
<1>2. KInv /\ [Next]_vars => KInv'
  BY KInvInductive
<1>3. KInv => PublishesOnlyWhatItHeld
  <2>1. ASSUME KInv, NEW w \in Writers \ returned, NEW d \in Dirs, <<w, d>> \in published
        PROVE  atClose[w] = [dir |-> d, held |-> TRUE]
    BY <2>1 DEF KInv, HistInv, HistOf, TypeInv, TypeOK, HistoryTypeOK
  <2>2. QED BY <2>1 DEF PublishesOnlyWhatItHeld
<1>4. QED BY <1>1, <1>2, <1>3, PTL DEF Spec

-----------------------------------------------------------------------------
\* Who may open a transaction's temporary.
NotWider(w) ==
  pc[w] \in InCommit \cup {"reopen", "verify", "writing", "abort", "unlink"} /\ tmode[w] # NoMode
    => mode[Own(w)] \subseteq tmode[w] \cup {OwnerWrite}

\* A transaction that is left alone, or moves on with its temporary, keeps the
\* bits it was created with.
LEMMA ModeKept ==
  ASSUME TypeInv, TemporaryNotWider, NEW v \in Writers,
         pc'[v] = pc[v] \/ pc[v] \in HoldingTemporary \ {"postSync"} \/ pc'[v] \notin HoldingTemporary
           \/ pc'[v] = "postSync",
         tmode'[v] = tmode[v], mode'[Own(v)] = mode[Own(v)]
  PROVE  NotWider(v)'
BY DEF TemporaryNotWider, NotWider, HoldingTemporary, InCommit

LEMMA NotWiderStep == ASSUME TypeInv, TemporaryNotWider, [Next]_vars PROVE TemporaryNotWider'
<1>0. /\ pc \in [Writers -> Calls] /\ tmode \in [Writers -> (SUBSET Perms) \cup {NoMode}]
      /\ mode \in [Inodes -> SUBSET Perms]
  BY DEF TypeInv, TypeOK, LocalTypeOK, FileSystemTypeOK
<1>1. ASSUME NEW v \in Writers PROVE NotWider(v)'
  <2>0. Own(v) \in Inodes
    BY InodeFacts
  <2>1. ASSUME NEW w \in Writers, CreateTemporary(w) PROVE NotWider(v)'
    <3>1. CASE v # w
      <4>1. Own(v) # Own(w)
        BY <3>1 DEF Own
      <4>2. pc'[v] = pc[v] /\ tmode'[v] = tmode[v] /\ mode'[Own(v)] = mode[Own(v)]
        BY <1>0, <2>0, <2>1, <3>1, <4>1 DEF CreateTemporary, Goto
      <4>3. QED BY <4>2, ModeKept
    <3>2. CASE v = w
      <4>1. tmode' = tmode /\ pc[w] = "create"
        BY <2>1 DEF CreateTemporary
      <4>2. CASE pc'[w] = "reopen" /\ mode' = [mode EXCEPT ![Own(w)] = CreationMode(w)]
        <5>1. mode'[Own(w)] = CreationMode(w)
          BY <1>0, <4>2, InodeFacts
        <5>2. QED BY <3>2, <4>1, <5>1 DEF NotWider, CreationMode
      <4>3. CASE pc'[w] \in {"create", "failed"}
        BY <3>2, <4>3 DEF NotWider, InCommit
      <4>4. QED BY <1>0, <2>1, <4>1, <4>2, <4>3 DEF CreateTemporary, Goto
    <3>3. QED BY <3>1, <3>2
  <2>2. ASSUME NEW w \in Writers, RestoreMode(w) PROVE NotWider(v)'
    <3>1. tmode' = tmode /\ (v # w => pc'[v] = pc[v]) /\ pc[w] = "chmod"
      BY <1>0, <2>2 DEF RestoreMode, Goto
    <3>2. CASE mode'[Own(v)] = mode[Own(v)]
      BY <3>1, <3>2, ModeKept DEF HoldingTemporary, InCommit
    <3>3. CASE v = w /\ mode'[Own(v)] = tmode[v]
      BY <3>1, <3>3 DEF NotWider
    <3>4. QED
      <4>1. v # w => Own(v) # Own(w)
        BY DEF Own
      <4>2. mode' = mode \/ mode' = [mode EXCEPT ![Own(w)] = tmode[w]]
        BY <2>2 DEF RestoreMode
      <4>3. QED BY <1>0, <2>0, <3>2, <3>3, <4>1, <4>2
  <2>3. ASSUME NEW w \in Writers, StatTarget(w) \/ OpenDir(w) PROVE NotWider(v)'
    <3>1. CASE v = w
      BY <1>0, <2>3, <3>1 DEF StatTarget, OpenDir, Goto, NotWider, InCommit
    <3>2. CASE v # w
      BY <1>0, <2>3, <3>2, ModeKept DEF StatTarget, OpenDir, Goto, fs
    <3>3. QED BY <3>1, <3>2
  <2>4. ASSUME NEW w \in Writers,
               \/ Reopen(w) \/ VerifyOpen(w) \/ Write(w) \/ GiveUp(w) \/ Flush(w)
               \/ CheckTemporary(w) \/ CheckDirectory(w) \/ FlushFileToStorage(w)
               \/ FlushParentDirectoryToStorage(w) \/ CloseStream(w) \/ RecheckTemporary(w)
               \/ RecheckDirectory(w) \/ Rename(w) \/ PostSync(w) \/ AbortCheck(w) \/ Unlink(w)
        PROVE NotWider(v)'
    <3>1. mode' = mode /\ tmode' = tmode
      BY <2>4 DEF Reopen, VerifyOpen, Write, GiveUp, Flush, CheckTemporary, CheckDirectory,
         FlushFileToStorage, FlushParentDirectoryToStorage, CloseStream, RecheckTemporary,
         RecheckDirectory, Rename, PostSync, AbortCheck, Unlink, local, fs
    <3>2. /\ v # w => pc'[v] = pc[v]
          /\ pc[w] \in HoldingTemporary \ {"postSync"} \/ pc'[w] \notin HoldingTemporary
      BY <1>0, <2>4 DEF Reopen, VerifyOpen, Write, GiveUp, Flush, CheckTemporary, CheckDirectory,
         FlushFileToStorage, FlushParentDirectoryToStorage, CloseStream, RecheckTemporary,
         RecheckDirectory, Rename, PostSync, AbortCheck, Unlink, local, Checked, Goto, HoldingTemporary,
         InCommit
    <3>3. QED BY <3>1, <3>2, ModeKept
  <2>5. CASE Environment
    <3>1. mode' = mode /\ tmode' = tmode /\ (pc'[v] = pc[v] \/ pc'[v] = "killed")
      BY <1>0, <2>5 DEF Environment, Kill, Displace, WriteBackFile, WriteBackDir, MoveDirectory,
         MachineCrash, local, fs, Goto
    <3>2. QED BY <3>1, ModeKept DEF HoldingTemporary, InCommit
  <2>6. CASE UNCHANGED vars
    BY <2>6, ModeKept DEF vars, local, fs
  <2>7. QED
    BY <2>1, <2>2, <2>3, <2>4, <2>5, <2>6 DEF Next, Transaction, Open, Commit, Abort
<1>2. QED BY <1>1 DEF TemporaryNotWider, NotWider

\* From its creation to its rename or removal a temporary is open to nobody the
\* destination is not open to, but for its owner's right to write, whatever the
\* umask (createExclusiveTemporary, publish).
THEOREM NeverWider == Spec => []TemporaryNotWider
<1>1. Init => TypeInv /\ TemporaryNotWider
  BY InitTypeInv DEF Init, TemporaryNotWider, InCommit
<1>2. TypeInv /\ TemporaryNotWider /\ [Next]_vars => TypeInv' /\ TemporaryNotWider'
  BY TypeInvInductive, NotWiderStep
<1>3. QED BY <1>1, <1>2, PTL DEF Spec
=============================================================================
