------------------------- MODULE OutputTransaction -------------------------
(* DwgDxfOutputTransaction (src/intern/dwg_dxf_output_transaction.cpp, POSIX *)
(* branch): concurrent transactions that save to the same destination, each  *)
(* through an exclusive sibling temporary that is renamed over it.  One      *)
(* action per system call; the file system, the directory the destination's  *)
(* path names, other programs and crashes are the environment.               *)
EXTENDS Integers, FiniteSets

CONSTANTS Writers,      \* transactions on the same destination path
          Names,        \* names createExclusiveTemporary can draw
          Draws,        \* Draws[w]: the names w's random suffix can give
          Target,       \* the name of the destination in its directory
          MaxDirs,      \* directories the destination's parent path may name
          MaxAttempts,  \* attempts at an exclusive name (128 in the code)
          MaxForeign,   \* files other programs put in place of a temporary
          MaxCrashes,   \* machine crashes
          MaxMoves,     \* times the path comes to name another directory
          Perms,        \* permission bits
          OwnerWrite,   \* S_IWUSR
          Umask         \* bits the process's umask removes

Dirs == 1..MaxDirs
Slots == Names \cup {Target}

\* Files (inodes).  Own(w) is the one createExclusiveTemporary creates and
\* whose descriptor stays open; Reopened(w) the one the stream's open creates
\* when the name no longer leads to a file; Original(d) the destination before.
Own(w) == <<"own", w>>
Reopened(w) == <<"reopened", w>>
Original(d) == <<"original", d>>
Foreign(k) == <<"foreign", k>>
None == <<"none">>

Inodes == {Own(w) : w \in Writers} \cup {Reopened(w) : w \in Writers}
          \cup {Original(d) : d \in Dirs} \cup {Foreign(k) : k \in 1..MaxForeign}

Contents == {"empty", "part", "whole"}

ASSUME NamesAssumption == /\ Target \notin Names
                          /\ Draws \in [Writers -> SUBSET Names]
ASSUME BoundsAssumption == /\ MaxDirs \in Nat \ {0}
                           /\ MaxAttempts \in Nat \ {0}
                           /\ MaxForeign \in Nat /\ MaxCrashes \in Nat
                           /\ MaxMoves \in Nat
ASSUME PermsAssumption == /\ OwnerWrite \in Perms /\ Umask \subseteq Perms
                          /\ "none" \notin Perms

VARIABLES
  pc,        \* pc[w]: the call transaction w makes next, or how it ended
  dirFd,     \* m_directoryDescriptor: the directory it opened (0: none)
  tmp,       \* m_temporary's name ("" as None)
  strm,      \* the file m_stream writes to
  tmode,     \* m_targetMode: a set of bits, or NoMode for -1
  tries,     \* attempts made by the createExclusiveTemporary loop
  pathDir,   \* the directory the parent path leads to now
  entry,     \* entry[d][n]: the file name n leads to in directory d
  durable,   \* the entries a machine crash would leave
  data,      \* what a read of a file returns
  disk,      \* what a machine crash would leave of it
  mode,      \* its permission bits
  foreign, crashes, moves,      \* environment actions so far
  published,                    \* history: <<w, d>>, w renamed its file in d
  atClose,                      \* history: what w's names led to at its close
  kept,                         \* history: w's abort() could not examine or
                                \* remove its temporary
  returned                      \* history: the path came back to w's directory

local == <<pc, dirFd, tmp, strm, tmode, tries>>
fs == <<entry, durable, data, disk, mode>>
env == <<pathDir, foreign, crashes, moves>>
hist == <<published, atClose, kept, returned>>
vars == <<local, fs, env, hist>>

NoMode == {"none"}
Ended == {"committed", "failed", "killed"}
InOpen == {"stat", "create", "reopen", "verify"}
InCommit == {"checkTemp", "checkDir", "fsync", "syncDir", "close",
             "recheckTemp", "recheckDir", "chmod", "rename"}
Calls == {"openDir", "writing", "abort", "unlink", "postSync"}
         \cup InOpen \cup InCommit \cup Ended

Init == /\ pc = [w \in Writers |-> "openDir"]
        /\ dirFd = [w \in Writers |-> 0]
        /\ tmp = [w \in Writers |-> None]
        /\ strm = [w \in Writers |-> None]
        /\ tmode = [w \in Writers |-> NoMode]
        /\ tries = [w \in Writers |-> 0]
        /\ pathDir = 1
        /\ entry \in {[d \in Dirs |-> [n \in Slots |->
                          IF n = Target /\ d \in S THEN Original(d) ELSE None]] :
                      S \in SUBSET Dirs}
        /\ durable = entry
        /\ data = [i \in Inodes |-> IF i \in {Own(w) : w \in Writers}
                                             \cup {Reopened(w) : w \in Writers}
                                    THEN "empty" ELSE "whole"]
        /\ disk = data
        /\ mode \in {[i \in Inodes |-> IF i \in {Original(d) : d \in Dirs}
                                       THEN p ELSE Perms \ Umask] :
                     p \in SUBSET Perms}
        /\ foreign = 0 /\ crashes = 0 /\ moves = 0
        /\ published = {}
        /\ atClose = [w \in Writers |-> [dir |-> 0, held |-> FALSE]]
        /\ kept = {} /\ returned = {}

Goto(w, call) == pc' = [pc EXCEPT ![w] = call]

---------------------------------------------------------------------------
(* createExclusiveTemporary: directory descriptor, mode of the destination,  *)
(* exclusive creation by path.                                               *)

OpenDir(w) ==
  /\ pc[w] = "openDir"
  /\ \/ dirFd' = [dirFd EXCEPT ![w] = pathDir] /\ Goto(w, "stat")
     \/ UNCHANGED dirFd /\ Goto(w, "failed")
  /\ UNCHANGED <<tmp, strm, tmode, tries, fs, env, hist>>

\* m_targetMode stays -1 when there is no regular file or fstatat fails.
StatTarget(w) ==
  /\ pc[w] = "stat"
  /\ \/ /\ entry[dirFd[w]][Target] # None
        /\ tmode' = [tmode EXCEPT ![w] = mode[entry[dirFd[w]][Target]]]
     \/ tmode' = [tmode EXCEPT ![w] = NoMode]
  /\ Goto(w, "create")
  /\ UNCHANGED <<dirFd, tmp, strm, tries, fs, env, hist>>

\* Mutant: always ask for what a new file gets.
CreationModeOfANewFile(w) == Perms \ Umask

CreationMode(w) == (IF tmode[w] = NoMode THEN Perms
                    ELSE tmode[w] \cup {OwnerWrite}) \ Umask

\* Mutant: the loop runs once more.
AttemptsLeftInclusive(n) == n <= MaxAttempts

\* The loop's condition, after n attempts.
AttemptsLeft(n) == n < MaxAttempts

\* open(candidate, O_CREAT | O_EXCL) goes by path: it creates the file in the
\* directory the path leads to now, whichever directory dirFd is.
CreateTemporary(w) ==
  /\ pc[w] = "create"
  /\ \/ \E n \in Draws[w] :
          /\ entry[pathDir][n] = None
          /\ entry' = [entry EXCEPT ![pathDir][n] = Own(w)]
          /\ mode' = [mode EXCEPT ![Own(w)] = CreationMode(w)]
          /\ tmp' = [tmp EXCEPT ![w] = n]
          /\ Goto(w, "reopen")
          /\ UNCHANGED <<dirFd, tries>>
     \/ /\ \E n \in Draws[w] : entry[pathDir][n] # None    \* EEXIST
        /\ tries' = [tries EXCEPT ![w] = @ + 1]
        /\ IF AttemptsLeft(tries'[w])
             THEN UNCHANGED <<pc, dirFd>>
             ELSE Goto(w, "failed") /\ dirFd' = [dirFd EXCEPT ![w] = 0]
        /\ UNCHANGED <<entry, mode, tmp>>
     \/ /\ Goto(w, "failed")                               \* any other errno
        /\ dirFd' = [dirFd EXCEPT ![w] = 0]
        /\ UNCHANGED <<entry, mode, tmp, tries>>
  /\ UNCHANGED <<strm, tmode, durable, data, disk, env, hist>>

---------------------------------------------------------------------------
(* open(): m_stream.open(m_temporary, m_mode | ios::out), by path again.     *)
(* ios::out without ios::in or ios::app is fopen's "w": it creates a missing *)
(* file and empties an existing one.                                         *)

Reopen(w) ==
  /\ pc[w] = "reopen"
  /\ \/ LET i == IF entry[pathDir][tmp[w]] = None THEN Reopened(w)
                 ELSE entry[pathDir][tmp[w]]
        IN /\ entry' = [entry EXCEPT ![pathDir][tmp[w]] = i]
           /\ data' = [data EXCEPT ![i] = "empty"]
           /\ strm' = [strm EXCEPT ![w] = i]
     \/ UNCHANGED <<entry, data, strm>>                    \* the open fails
  /\ Goto(w, "verify")
  /\ UNCHANGED <<dirFd, tmp, tmode, tries, durable, disk, mode, env, hist>>

\* temporaryIdentityMatches: the open descriptor and the name, resolved
\* against the directory descriptor, are the same file.
TemporaryIdentityMatches(w) == entry[dirFd[w]][tmp[w]] = Own(w)

\* Mutant: what the Windows branch returns.
DirectoryNeverCompared(w) == TRUE

\* directoryIdentityMatchesPath
DirectoryIdentityMatchesPath(w) == pathDir = dirFd[w]

\* The outcome of a comparison: the next call, or abort() when the files differ
\* or one of the calls that ask for their status fails.
Checked(w, same, call) == (same /\ Goto(w, call)) \/ Goto(w, "abort")

VerifyOpen(w) ==
  /\ pc[w] = "verify"
  /\ Checked(w, strm[w] # None /\ TemporaryIdentityMatches(w), "writing")
  /\ UNCHANGED <<dirFd, tmp, strm, tmode, tries, fs, env, hist>>

---------------------------------------------------------------------------
(* The caller: generates output, then commits or gives up (abort(), or the   *)
(* destructor on an early return or an exception).                           *)

Write(w) ==
  /\ pc[w] = "writing"
  /\ data' = [data EXCEPT ![strm[w]] = "part"]
  /\ UNCHANGED <<local, entry, durable, disk, mode, env, hist>>

GiveUp(w) ==
  /\ pc[w] = "writing"
  /\ Goto(w, "abort")
  /\ UNCHANGED <<dirFd, tmp, strm, tmode, tries, fs, env, hist>>

\* commit(): flush the stream, which may fail.
Flush(w) ==
  /\ pc[w] = "writing"
  /\ \/ data' = [data EXCEPT ![strm[w]] = "whole"] /\ Goto(w, "checkTemp")
     \/ data' = [data EXCEPT ![strm[w]] = "part"] /\ Goto(w, "abort")
  /\ UNCHANGED <<dirFd, tmp, strm, tmode, tries, entry, durable, disk, mode,
                 env, hist>>

---------------------------------------------------------------------------
(* commit(), after the flush.                                                *)

CheckTemporary(w) ==
  /\ pc[w] = "checkTemp"
  /\ Checked(w, TemporaryIdentityMatches(w), "checkDir")
  /\ UNCHANGED <<dirFd, tmp, strm, tmode, tries, fs, env, hist>>

CheckDirectory(w) ==
  /\ pc[w] = "checkDir"
  /\ Checked(w, DirectoryIdentityMatchesPath(w), "fsync")
  /\ UNCHANGED <<dirFd, tmp, strm, tmode, tries, fs, env, hist>>

\* Mutant: no fsync before the rename.
NoFlushToStorage(w) ==
  /\ pc[w] = "fsync"
  /\ Goto(w, "syncDir")
  /\ UNCHANGED <<dirFd, tmp, strm, tmode, tries, fs, env, hist>>

FlushFileToStorage(w) ==
  /\ pc[w] = "fsync"
  /\ \/ disk' = [disk EXCEPT ![Own(w)] = data[Own(w)]] /\ Goto(w, "syncDir")
     \/ UNCHANGED disk /\ Goto(w, "abort")
  /\ UNCHANGED <<dirFd, tmp, strm, tmode, tries, entry, durable, data, mode,
                 env, hist>>

FlushParentDirectoryToStorage(w) ==
  /\ pc[w] = "syncDir"
  /\ \/ /\ durable' = [durable EXCEPT ![dirFd[w]] = entry[dirFd[w]]]
        /\ Goto(w, "close")
     \/ UNCHANGED durable /\ Goto(w, "abort")
  /\ UNCHANGED <<dirFd, tmp, strm, tmode, tries, entry, data, disk, mode,
                 env, hist>>

CloseStream(w) ==
  /\ pc[w] = "close"
  /\ strm' = [strm EXCEPT ![w] = None]
  /\ Goto(w, "recheckTemp") \/ Goto(w, "abort")
  /\ atClose' = [atClose EXCEPT ![w] =
                   [dir |-> pathDir, held |-> TemporaryIdentityMatches(w)]]
  /\ UNCHANGED <<dirFd, tmp, tmode, tries, fs, env, published, kept, returned>>

\* Mutant: one identity check, before the fsyncs, is thought to be enough.
NoRecheckOfTemporary(w) ==
  /\ pc[w] = "recheckTemp"
  /\ Goto(w, "recheckDir")
  /\ UNCHANGED <<dirFd, tmp, strm, tmode, tries, fs, env, hist>>

RecheckTemporary(w) ==
  /\ pc[w] = "recheckTemp"
  /\ Checked(w, TemporaryIdentityMatches(w), "recheckDir")
  /\ UNCHANGED <<dirFd, tmp, strm, tmode, tries, fs, env, hist>>

RecheckDirectory(w) ==
  /\ pc[w] = "recheckDir"
  /\ Checked(w, DirectoryIdentityMatchesPath(w), "chmod")
  /\ UNCHANGED <<dirFd, tmp, strm, tmode, tries, fs, env, hist>>

\* publish(): fchmod, whose failure is ignored, then renameat.
RestoreMode(w) ==
  /\ pc[w] = "chmod"
  /\ \/ tmode[w] # NoMode /\ mode' = [mode EXCEPT ![Own(w)] = tmode[w]]
     \/ UNCHANGED mode
  /\ Goto(w, "rename")
  /\ UNCHANGED <<dirFd, tmp, strm, tmode, tries, entry, durable, data, disk,
                 env, hist>>

Rename(w) ==
  /\ pc[w] = "rename"
  /\ \/ /\ entry[dirFd[w]][tmp[w]] # None
        /\ entry' = [entry EXCEPT ![dirFd[w]][Target] = entry[dirFd[w]][tmp[w]],
                                 ![dirFd[w]][tmp[w]] = None]
        /\ published' = published \cup {<<w, dirFd[w]>>}
        /\ Goto(w, "postSync")
     \/ UNCHANGED <<entry, published>> /\ Goto(w, "abort")
  /\ UNCHANGED <<dirFd, tmp, strm, tmode, tries, durable, data, disk, mode,
                 env, atClose, kept, returned>>

\* Mutant: a failed sync after the rename is reported as a failed commit.
PostSyncChecked(w) ==
  /\ pc[w] = "postSync"
  /\ \/ /\ durable' = [durable EXCEPT ![dirFd[w]] = entry[dirFd[w]]]
        /\ Goto(w, "committed")
     \/ UNCHANGED durable /\ Goto(w, "failed")
  /\ dirFd' = [dirFd EXCEPT ![w] = 0]
  /\ tmp' = [tmp EXCEPT ![w] = None]
  /\ UNCHANGED <<strm, tmode, tries, entry, data, disk, mode, env, hist>>

\* The directory sync after the rename is best effort.
PostSync(w) ==
  /\ pc[w] = "postSync"
  /\ durable' = [durable EXCEPT ![dirFd[w]] = entry[dirFd[w]]] \/ UNCHANGED durable
  /\ dirFd' = [dirFd EXCEPT ![w] = 0]
  /\ tmp' = [tmp EXCEPT ![w] = None]
  /\ Goto(w, "committed")
  /\ UNCHANGED <<strm, tmode, tries, entry, data, disk, mode, env, hist>>

---------------------------------------------------------------------------
(* abort(): close the stream, remove the temporary only if it is still ours. *)

\* Mutant: the temporary is kept although it is still the transaction's own.
AbortWithoutRemoval(w) ==
  /\ pc[w] = "abort"
  /\ strm' = [strm EXCEPT ![w] = None]
  /\ Goto(w, "failed")
  /\ dirFd' = [dirFd EXCEPT ![w] = 0]
  /\ tmp' = [tmp EXCEPT ![w] = None]
  /\ UNCHANGED <<tmode, tries, fs, env, hist>>

AbortCheck(w) ==
  /\ pc[w] = "abort"
  /\ strm' = [strm EXCEPT ![w] = None]
  /\ \/ /\ TemporaryIdentityMatches(w)
        /\ Goto(w, "unlink")
        /\ UNCHANGED <<dirFd, tmp, kept>>
     \/ /\ Goto(w, "failed")            \* another file, or its status is unknown
        /\ dirFd' = [dirFd EXCEPT ![w] = 0]
        /\ tmp' = [tmp EXCEPT ![w] = None]
        /\ kept' = IF TemporaryIdentityMatches(w) THEN kept \cup {w} ELSE kept
  /\ UNCHANGED <<tmode, tries, fs, env, published, atClose, returned>>

\* unlinkat, whose failure is ignored.
Unlink(w) ==
  /\ pc[w] = "unlink"
  /\ \/ entry' = [entry EXCEPT ![dirFd[w]][tmp[w]] = None] /\ UNCHANGED kept
     \/ kept' = kept \cup {w} /\ UNCHANGED entry
  /\ dirFd' = [dirFd EXCEPT ![w] = 0]
  /\ tmp' = [tmp EXCEPT ![w] = None]
  /\ Goto(w, "failed")
  /\ UNCHANGED <<strm, tmode, tries, durable, data, disk, mode, env, published,
                 atClose, returned>>

---------------------------------------------------------------------------
(* Environment.                                                              *)

\* The process holding the transaction is killed.
Kill(w) == /\ pc[w] \notin Ended
           /\ Goto(w, "killed")
           /\ UNCHANGED <<dirFd, tmp, strm, tmode, tries, fs, env, hist>>

\* The operating system writes back on its own schedule, which shows only in
\* a machine crash that is still to come.
WriteBackFile(i) == /\ crashes < MaxCrashes /\ disk[i] # data[i]
                    /\ disk' = [disk EXCEPT ![i] = data[i]]
                    /\ UNCHANGED <<local, entry, durable, data, mode, env, hist>>

WriteBackDir(d) == /\ crashes < MaxCrashes /\ durable[d] # entry[d]
                   /\ durable' = [durable EXCEPT ![d] = entry[d]]
                   /\ UNCHANGED <<local, entry, data, disk, mode, env, hist>>

MachineCrash == /\ crashes < MaxCrashes
                /\ crashes' = crashes + 1
                /\ pc' = [w \in Writers |-> IF pc[w] \in Ended THEN pc[w]
                                                              ELSE "killed"]
                /\ entry' = durable
                /\ data' = disk
                /\ UNCHANGED <<dirFd, tmp, strm, tmode, tries, durable, disk,
                               mode, pathDir, foreign, moves, hist>>

\* Another program replaces a temporary by a file of its own, or removes it.
Displace(w) ==
  /\ tmp[w] # None /\ pc[w] \notin Ended
  /\ foreign < MaxForeign
  /\ foreign' = foreign + 1
  /\ \E d \in Dirs :
       /\ entry[d][tmp[w]] = Own(w)
       /\ \/ entry' = [entry EXCEPT ![d][tmp[w]] = Foreign(foreign')]
          \/ entry' = [entry EXCEPT ![d][tmp[w]] = None]
  /\ UNCHANGED <<local, durable, data, disk, mode, pathDir, crashes, moves, hist>>

\* The parent path comes to lead to another directory, one it led to before
\* included.
MoveDirectory(d) ==
  /\ moves < MaxMoves
  /\ moves' = moves + 1
  /\ d # pathDir
  /\ pathDir' = d
  /\ returned' = returned \cup {w \in Writers : dirFd[w] = d /\ pc[w] \notin Ended}
  /\ UNCHANGED <<local, fs, foreign, crashes, published, atClose, kept>>

---------------------------------------------------------------------------
Open(w) == OpenDir(w) \/ StatTarget(w) \/ CreateTemporary(w) \/ Reopen(w)
           \/ VerifyOpen(w)
Commit(w) == \/ Flush(w) \/ CheckTemporary(w) \/ CheckDirectory(w)
             \/ FlushFileToStorage(w) \/ FlushParentDirectoryToStorage(w)
             \/ CloseStream(w) \/ RecheckTemporary(w) \/ RecheckDirectory(w)
             \/ RestoreMode(w) \/ Rename(w) \/ PostSync(w)
Abort(w) == AbortCheck(w) \/ Unlink(w)
Transaction(w) == Open(w) \/ Write(w) \/ GiveUp(w) \/ Commit(w) \/ Abort(w)

Environment == \/ \E w \in Writers : Kill(w) \/ Displace(w)
               \/ \E i \in Inodes : WriteBackFile(i)
               \/ \E d \in Dirs : WriteBackDir(d) \/ MoveDirectory(d)
               \/ MachineCrash

Next == (\E w \in Writers : Transaction(w)) \/ Environment

Spec == Init /\ [][Next]_vars

---------------------------------------------------------------------------
(* Properties.                                                               *)

\* The values every variable ranges over: a transaction's own state, the file
\* system, the environment's counters, the history.
LocalTypeOK ==
  /\ pc \in [Writers -> Calls]
  /\ dirFd \in [Writers -> Dirs \cup {0}]
  /\ tmp \in [Writers -> Names \cup {None}]
  /\ strm \in [Writers -> Inodes \cup {None}]
  /\ tmode \in [Writers -> (SUBSET Perms) \cup {NoMode}]
  /\ tries \in [Writers -> 0..MaxAttempts]

FileSystemTypeOK ==
  /\ entry \in [Dirs -> [Slots -> Inodes \cup {None}]]
  /\ durable \in [Dirs -> [Slots -> Inodes \cup {None}]]
  /\ data \in [Inodes -> Contents]
  /\ disk \in [Inodes -> Contents]
  /\ mode \in [Inodes -> SUBSET Perms]

EnvironmentTypeOK ==
  /\ pathDir \in Dirs
  /\ foreign \in 0..MaxForeign /\ crashes \in 0..MaxCrashes
  /\ moves \in 0..MaxMoves

HistoryTypeOK ==
  /\ published \subseteq Writers \X Dirs
  /\ atClose \in [Writers -> [dir : Dirs \cup {0}, held : BOOLEAN]]
  /\ kept \subseteq Writers /\ returned \subseteq Writers

TypeOK == LocalTypeOK /\ FileSystemTypeOK /\ EnvironmentTypeOK /\ HistoryTypeOK

\* A failed write cannot destroy the previous file, and what is published has
\* been flushed completely (dwg_dxf_output_transaction.h:34-36): while the path
\* leads to one directory and no other program interferes, a reader of the
\* destination finds a whole file at every moment.
DestinationWhole ==
  \A d \in Dirs : entry[d][Target] # None => data[entry[d][Target]] = "whole"

\* Whatever other programs do to temporaries and path, as long as no two
\* transactions draw one name, the destination is whole but for the file of a
\* transaction whose directory the path led away from and back to.  If it does
\* so around the stream's open(), the file created exclusively stays empty, and
\* the comparison of the directories, made when the path is back, lets it be
\* published.
DestinationWholeUnlessReturned ==
  \A d \in Dirs :
    entry[d][Target] \notin {None} \cup {Own(w) : w \in returned}
      => data[entry[d][Target]] = "whole"

\* Whoever looks after a machine crash at this moment finds a whole file: it is
\* on the disk before the rename that makes it the destination (commit()'s
\* fsync).
DestinationWholeAfterCrash ==
  \A d \in Dirs : durable[d][Target] # None
                   => disk[durable[d][Target]] = "whole"

\* A temporary that another program replaced, or a directory that moved, before
\* the stream was closed is never published: the checks before the fsync do not
\* cover the fsyncs, the ones after the close do, unless the path has come back
\* to the directory by then.
PublishesOnlyWhatItHeld ==
  \A w \in Writers \ returned, d \in Dirs :
    <<w, d>> \in published => atClose[w] = [dir |-> d, held |-> TRUE]

\* The temporary is never open to more users than the file it will replace, as
\* far as that file's mode could be read, but for its owner's right to write
\* (createExclusiveTemporary, creationMode).
TemporaryNotWider ==
  \A w \in Writers :
    pc[w] \in InCommit \cup {"reopen", "verify", "writing", "abort", "unlink"}
      /\ tmode[w] # NoMode
    => mode[Own(w)] \subseteq tmode[w] \cup {OwnerWrite}

\* However a transaction ends, short of the death of its process, it leaves no
\* temporary in the directory it held, unless abort() could not learn whose file
\* it is or remove it: every failure in open() and commit() comes by abort(), the
\* rename takes the name away, and a refused name was never the transaction's.
\* (What the path led elsewhere, and a file the stream's open had to create, are
\* not in that directory or not the transaction's temporary.)
LeavesNothingBehind ==
  [][\A w \in Writers :
       pc[w] \notin Ended /\ pc'[w] \in {"committed", "failed"} /\ dirFd[w] # 0
         => w \in kept' \/ \A n \in Names : entry'[dirFd[w]][n] # Own(w)]_vars

---------------------------------------------------------------------------
(* What the caller is promised, read off this state.                         *)

Before == <<"before">>

Version(i) ==
  IF i = None THEN None
  ELSE IF data[i] # "whole" THEN <<"torn">>
  ELSE IF \E w \in Writers : i = Own(w) THEN CHOOSE w \in Writers : i = Own(w)
  ELSE Before

Promise == INSTANCE AtomicReplace WITH
  Nothing <- None,
  visible <- [d \in Dirs |-> Version(entry[d][Target])],
  outcome <- [w \in Writers |-> IF pc[w] \in Ended THEN pc[w] ELSE "pending"]

\* Transactions over the same destination replace it atomically, report
\* success only for a version that was visible and failure only for one that
\* never was, crashes included.
ImplementsAtomicReplace == Promise!ASpec
=============================================================================
