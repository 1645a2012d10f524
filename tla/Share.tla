------------------------------- MODULE Share -------------------------------
(***************************************************************************)
(* The file sharing and byte-range locking tables of kernel/share.c.       *)
(*                                                                         *)
(* Two static tables: file_table has an entry for each open of a file,     *)
(* with the sharing mode asked for and the modes inherited from the first  *)
(* open of that file; __lock_table has an entry for each locked region and *)
(* names the owner by its file_table index.  The kernel runs one DOS call  *)
(* at a time, so an operation is one step.                                 *)
(***************************************************************************)
EXTENDS Integers, FiniteSets

CONSTANTS
    File,           \* fully-qualified file names
    NoFile,         \* the empty name "\0" of an unused entry
    Psp,            \* processes, by the segment of their PSP
    FileTableSize,  \* file_table_size (256)
    LockTableSize,  \* __lock_table_size (1024)
    MaxOfs,         \* the largest UDWORD (0xffffffff)
    OpenArgs        \* the <<openmode, sharemode>> arguments callers pass

ASSUME FileAssumption == NoFile \notin File
ASSUME SizeAssumption ==
    /\ FileTableSize \in Nat \ {0}
    /\ LockTableSize \in Nat \ {0}
    /\ MaxOfs \in Nat \ {0}
ASSUME OpenArgsAssumption == OpenArgs \subseteq Nat \X Nat

VARIABLES
    fileTable,      \* file_table
    lockTable       \* __lock_table

shareVars == <<fileTable, lockTable>>

FileNo == 0 .. FileTableSize - 1
LockNo == 0 .. LockTableSize - 1
Offset == 0 .. MaxOfs

OpenModes  == 0 .. 2    \* OPEN_READ_ONLY, OPEN_WRITE_ONLY, OPEN_READ_WRITE
ShareModes == 0 .. 4    \* SHARE_COMPAT, DENY_ALL, DENY_WRITE, DENY_READ, DENY_NONE

(* file_t: the other fields of an unused entry are dead, an open writes    *)
(* all of them before it reads one.                                        *)
FileEntry == [filename: File, psp: Psp, openmode: OpenModes, sharemode: ShareModes,
              first_openmode: OpenModes, first_sharemode: ShareModes]
FreeEntry == [filename |-> NoFile]

(* __lock_t: likewise for an entry that is not used.                       *)
LockEntry == [start: Offset, end: Offset, fileno: FileNo]
FreeLock  == [fileno |-> -1]

InUse(n)    == fileTable[n].filename # NoFile
LockUsed(k) == lockTable[k] # FreeLock

UsedFiles == {n \in FileNo : InUse(n)}
UsedLocks == {k \in LockNo : LockUsed(k)}

(***************************************************************************)
(* Opening: the action tables and do_open_check.                           *)
(***************************************************************************)
(* Mutant: one rule for every mode that meets itself.                      *)
OpenActionsSameMode(first, current) ==
    CASE first = current          -> 0
      [] first # 0 /\ current = 0 -> 2
      [] OTHER                    -> 1

(* open_actions: 0 proceed, 1 fail, 2 fail with INT 24h.                   *)
OpenActions(first, current) ==
    CASE first = current /\ first \in {0, 4} -> 0
      [] first # 0 /\ current = 0            -> 2
      [] OTHER                               -> 1

(* open_exceptions: <<first_sharemode, first_openmode, current_sharemode,   *)
(* current_openmode>> of the rows, whose action is always 0.                *)
OpenExceptions ==
    {<<0,0,2,0>>, <<0,0,4,0>>,
     <<2,0,0,0>>, <<2,0,2,0>>, <<2,0,4,0>>, <<2,1,3,0>>, <<2,1,4,0>>, <<2,2,4,0>>,
     <<3,0,2,1>>, <<3,0,4,1>>, <<3,1,4,1>>, <<3,2,4,1>>, <<3,1,3,1>>,
     <<4,0,0,0>>, <<4,0,2,0>>, <<4,0,2,1>>, <<4,0,2,2>>,
     <<4,1,3,0>>, <<4,1,3,1>>, <<4,1,3,2>>}

OpenAction(firstShare, firstOpen, share, open) ==
    IF <<firstShare, firstOpen, share, open>> \in OpenExceptions
    THEN 0 ELSE OpenActions(firstShare, share)

(* The entries do_open_check scans, and the one it stops at: the lowest.   *)
Peers(f, n) == {i \in FileNo \ {n} : fileTable[i].filename = f}
FirstOf(S)  == CHOOSE i \in S : \A j \in S : i <= j

(* The entry share_open_file writes at n, with the modes do_open_check     *)
(* copies from the peer it finds.                                          *)
NewEntry(n, f, psp, open, share) ==
    LET P == Peers(f, n)
    IN  [filename |-> f, psp |-> psp, openmode |-> open, sharemode |-> share,
         first_openmode  |-> IF P = {} THEN open  ELSE fileTable[FirstOf(P)].first_openmode,
         first_sharemode |-> IF P = {} THEN share ELSE fileTable[FirstOf(P)].first_sharemode]

(* What do_open_check decides for entry e at n.                            *)
OpenAllowed(n, e) ==
    \/ Peers(e.filename, n) = {}
    \/ OpenAction(e.first_sharemode, e.first_openmode, e.sharemode, e.openmode) = 0

(* share_open_file masks the modes it is given and replaces invalid ones.  *)
NormalShare(sharemode) == IF sharemode % 8 \in ShareModes THEN sharemode % 8 ELSE 0
NormalOpen(openmode)   == IF openmode % 4 \in OpenModes THEN openmode % 4 ELSE 0

FreeFileNo == FileNo \ UsedFiles

(* share_open_file: the file_table index, -1 when the table is full, or    *)
(* DE_SHARING (-32).  A refused open has freed its entry again: lpDevice   *)
(* is the device of a mounted drive in the only caller, never NULL.        *)
DE_SHARING == -32
share_open_ret(f, psp, openmode, sharemode) ==
    IF FreeFileNo = {} THEN -1
    ELSE LET n == FirstOf(FreeFileNo)
             e == NewEntry(n, f, psp, NormalOpen(openmode), NormalShare(sharemode))
         IN  IF OpenAllowed(n, e) THEN n ELSE DE_SHARING

share_open_file(f, psp, openmode, sharemode) ==
    LET n == share_open_ret(f, psp, openmode, sharemode)
    IN  /\ fileTable' = IF n < 0 THEN fileTable
                        ELSE [fileTable EXCEPT ![n] =
                                NewEntry(n, f, psp, NormalOpen(openmode), NormalShare(sharemode))]
        /\ UNCHANGED lockTable

(***************************************************************************)
(* Closing, locking, access checks.                                        *)
(***************************************************************************)

(* remove_all_locks(fileno)                                                *)
remove_all_locks(n) ==
    [k \in LockNo |-> IF lockTable[k].fileno = n THEN FreeLock ELSE lockTable[k]]

share_close_file(n) ==
    /\ lockTable' = remove_all_locks(n)
    /\ fileTable' = [fileTable EXCEPT ![n] = FreeEntry]

(* Mutants: the sum is kept as it wrapped; the sum is taken in a wider type.*)
EndOfWrapped(ofs, len) == (ofs + len) % (MaxOfs + 1)

(* endofs, after the test for a sum that wrapped.                          *)
EndOf(ofs, len) ==
    LET e == (ofs + len) % (MaxOfs + 1) IN IF e < ofs THEN MaxOfs ELSE e

(* Mutant: a lock through the same entry is never in the way.              *)
AccessCheckOwnPass(n, ofs, len, allow_same_fd) ==
    \/ EndOf(ofs, len) = ofs
    \/ \A k \in UsedLocks :
          \/ lockTable[k].fileno = n
          \/ fileTable[lockTable[k].fileno].filename # fileTable[n].filename
          \/ ofs >= lockTable[k].end
          \/ EndOf(ofs, len) <= lockTable[k].start

(* do_access_check: does another lock on the same file meet the region?    *)
do_access_check(n, ofs, len, allow_same_fd) ==
    \/ EndOf(ofs, len) = ofs
    \/ \A k \in UsedLocks :
          \/ allow_same_fd /\ lockTable[k].fileno = n
          \/ fileTable[lockTable[k].fileno].filename # fileTable[n].filename
          \/ ofs >= lockTable[k].end
          \/ EndOf(ofs, len) <= lockTable[k].start

share_access_check(n, ofs, len) == do_access_check(n, ofs, len, TRUE)

share_lock(n, ofs, len) ==
    /\ EndOf(ofs, len) # ofs
    /\ do_access_check(n, ofs, len, FALSE)
    /\ UsedLocks # LockNo
    /\ lockTable' = [lockTable EXCEPT ![FirstOf(LockNo \ UsedLocks)] =
                        [start |-> ofs, end |-> EndOf(ofs, len), fileno |-> n]]
    /\ UNCHANGED fileTable

(* Unlocking wants the exact region, locked through the same entry.        *)
LockedAs(n, ofs, len) ==
    {k \in UsedLocks : lockTable[k] = [start |-> ofs, end |-> EndOf(ofs, len), fileno |-> n]}

share_unlock(n, ofs, len) ==
    /\ EndOf(ofs, len) # ofs
    /\ LockedAs(n, ofs, len) # {}
    /\ lockTable' = [lockTable EXCEPT ![FirstOf(LockedAs(n, ofs, len))] = FreeLock]
    /\ UNCHANGED fileTable

(* share_is_file_open reports the lowest entry only.                       *)
share_is_file_open(f) == Peers(f, -1) # {}
OpenReport(f) == fileTable[FirstOf(Peers(f, -1))]

(***************************************************************************)
(* The component, under callers that name only entries they hold.          *)
(***************************************************************************)
ShareInit ==    \* share_init
    /\ fileTable = [n \in FileNo |-> FreeEntry]
    /\ lockTable = [k \in LockNo |-> FreeLock]

Open   == \E f \in File, psp \in Psp, a \in OpenArgs : share_open_file(f, psp, a[1], a[2])
Close  == \E n \in UsedFiles : share_close_file(n)
Lock   == \E n \in UsedFiles, ofs, len \in Offset : share_lock(n, ofs, len)
Unlock == \E n \in UsedFiles, ofs, len \in Offset : share_unlock(n, ofs, len)

ShareNext == Open \/ Close \/ Lock \/ Unlock
ShareSpec == ShareInit /\ [][ShareNext]_shareVars

(***************************************************************************)
(* Properties                                                              *)
(***************************************************************************)
(* Both tables hold entries of the shapes the C types give them.           *)
ShareTypeOK ==
    /\ fileTable \in [FileNo -> FileEntry \cup {FreeEntry}]
    /\ lockTable \in [LockNo -> LockEntry \cup {FreeLock}]

(* A lock never outlives the open it was taken through: the entry it names *)
(* is in use, so a later open that reuses the entry inherits no lock.      *)
LocksOwned == \A k \in UsedLocks : InUse(lockTable[k].fileno)

(* Two locked regions of one file never meet, whoever holds them and       *)
(* wherever the 32-bit end offset was clipped.                             *)
LocksDisjoint ==
    \A k, l \in UsedLocks :
        k # l /\ fileTable[lockTable[k].fileno].filename = fileTable[lockTable[l].fileno].filename
        => \/ lockTable[k].end <= lockTable[l].start
           \/ lockTable[l].end <= lockTable[k].start

(* All the opens of a file carry the modes of one and the same first open, *)
(* also when that open has been closed and its entry reused.               *)
FirstModesAgree ==
    \A i, j \in UsedFiles :
        fileTable[i].filename = fileTable[j].filename
        => /\ fileTable[i].first_openmode  = fileTable[j].first_openmode
           /\ fileTable[i].first_sharemode = fileTable[j].first_sharemode

(* An open in deny-all mode is the only open of its file, whatever was     *)
(* opened and closed before and whichever entry the scan stops at.         *)
DenyAllExclusive ==
    \A i, j \in UsedFiles :
        i # j /\ fileTable[i].filename = fileTable[j].filename
        => fileTable[i].sharemode # 1

(* The two tables implement the promise of ByteLocks: entry k of the lock  *)
(* table is a region of the file its file_table entry names.               *)
RegionOf(k) == [holder |-> lockTable[k].fileno,
                file   |-> fileTable[lockTable[k].fileno].filename,
                from   |-> lockTable[k].start,
                to     |-> lockTable[k].end]
OpenOf(n)   == [holder |-> n, file |-> fileTable[n].filename]

Promise == INSTANCE ByteLocks WITH
    Holder <- FileNo, LockedFile <- File, Bound <- MaxOfs,
    held  <- {RegionOf(k) : k \in UsedLocks},
    opens <- {OpenOf(n) : n \in UsedFiles}
ImplementsByteLocks == Promise!BLSpec

(* share.c:46: the tables decide by "the sharing mode of a previous open   *)
(* on the same file": an open is granted only if the tables allow it after *)
(* every open of the file there is.                                        *)
DenyModesHonoured ==
    [][\A n \in FileNo : ~InUse(n) /\ fileTable'[n].filename # NoFile =>
          \A i \in Peers(fileTable'[n].filename, n) :
              OpenAction(fileTable[i].sharemode, fileTable[i].openmode,
                         fileTable'[n].sharemode, fileTable'[n].openmode) = 0]_shareVars
=============================================================================
