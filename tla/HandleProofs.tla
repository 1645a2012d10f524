---------------------------- MODULE HandleProofs ----------------------------
(***************************************************************************)
(* Theorems about file handles over SHARE, for tables of every size, any   *)
(* number of processes and any mix of programs and faults.                 *)
(*                                                                         *)
(* First SHARE: every open local SFT keeps a SHARE entry of its own, and   *)
(* no lock is dropped while the SFT it was taken through is open.  Then    *)
(* the counts: the count of an SFT is never below the number of handles    *)
(* that name it, and equal to it (an FCB file counts as one) while         *)
(* programs are Plain, so that a handle never loses its file to what       *)
(* others do.                                                              *)
(***************************************************************************)
EXTENDS Handles, FiniteSetTheorems, WellFoundedInduction, TLAPS

(***************************************************************************)
(* SHARE by itself, for tables of every size and every number of files,    *)
(* processes and offsets: the tables stay well typed, a lock never         *)
(* outlives its open, and two locks of one file never meet.                *)
(***************************************************************************)
(* The scans stop at an index of the set they look for, and at the lowest. *)
LEMMA FirstOfSet ==
    ASSUME NEW S, S \subseteq Nat, S # {}
    PROVE  /\ FirstOf(S) \in S
           /\ \A j \in S : FirstOf(S) <= j
<1> DEFINE R == {ss \in Nat \X Nat : ss[1] < ss[2]}
<1>1. IsWellFoundedOn(R, Nat)
  BY NatLessThanWellFounded DEF OpToRel
<1>2. PICK i \in S : \A j \in S : <<j, i>> \notin R
  <2> HIDE DEF R
  <2> QED  BY <1>1, WFMin
<1>3. \A j \in S : i <= j
  <2>1. ASSUME NEW j \in S, j < i
        PROVE  FALSE
    <3>1. <<j, i>> \in Nat \X Nat
      OBVIOUS
    <3>2. <<j, i>> \in R
      BY <2>1, <3>1
    <3>3. QED
      BY <1>2, <3>2
  <2>2. QED
    BY <2>1
<1>4. QED
  BY <1>3 DEF FirstOf

(* The end of a region is an offset and does not precede its start.        *)
LEMMA EndOfBounds ==
    ASSUME NEW ofs \in Offset, NEW len \in Offset
    PROVE  /\ EndOf(ofs, len) \in Offset
           /\ ofs <= EndOf(ofs, len)
<1> DEFINE e == (ofs + len) % (MaxOfs + 1)
<1>1. MaxOfs + 1 \in Nat \ {0} /\ ofs + len \in Nat
  BY SizeAssumption DEF Offset
<1>2. e \in 0 .. MaxOfs
  BY <1>1, SizeAssumption
<1> HIDE DEF e
<1>3. EndOf(ofs, len) = IF e < ofs THEN MaxOfs ELSE e
  BY DEF EndOf, e
<1>4. QED
  BY <1>2, <1>3, SizeAssumption DEF Offset

(***************************************************************************)
(* The lock table.  Its invariant adds to the properties that a region in  *)
(* the table is never empty: a lock of length zero is not recorded.        *)
(***************************************************************************)
LocksNonEmpty == \A k \in UsedLocks : lockTable[k].start < lockTable[k].end

LockInv == ShareTypeOK /\ LocksOwned /\ LocksDisjoint /\ LocksNonEmpty

LEMMA NewEntryType ==
    ASSUME ShareTypeOK, NEW n \in FileNo, NEW f \in File, NEW psp \in Psp,
           NEW om \in OpenModes, NEW sm \in ShareModes
    PROVE  NewEntry(n, f, psp, om, sm) \in FileEntry
<1> DEFINE P == Peers(f, n)
<1>1. ASSUME P # {}
      PROVE  fileTable[FirstOf(P)] \in FileEntry
  <2>1. P \subseteq Nat
    BY SizeAssumption DEF Peers, FileNo
  <2>2. FirstOf(P) \in P
    BY <1>1, <2>1, FirstOfSet
  <2>3. FirstOf(P) \in FileNo /\ fileTable[FirstOf(P)].filename \in File
    BY <2>2 DEF Peers
  <2>4. QED
    BY <2>3, FileAssumption DEF ShareTypeOK, FreeEntry
<1> HIDE DEF P
<1>2. NewEntry(n, f, psp, om, sm) =
        [filename |-> f, psp |-> psp, openmode |-> om, sharemode |-> sm,
         first_openmode  |-> IF P = {} THEN om ELSE fileTable[FirstOf(P)].first_openmode,
         first_sharemode |-> IF P = {} THEN sm ELSE fileTable[FirstOf(P)].first_sharemode]
  BY DEF NewEntry, P
<1>3. QED
  BY <1>1, <1>2 DEF FileEntry

LEMMA NormalModes ==
    ASSUME NEW m
    PROVE  NormalOpen(m) \in OpenModes /\ NormalShare(m) \in ShareModes
BY DEF NormalOpen, NormalShare, OpenModes, ShareModes

(* What a granted open does: it fills one unused entry with a typed one.   *)
LEMMA OpenFills ==
    ASSUME ShareTypeOK, NEW f \in File, NEW psp \in Psp, NEW om, NEW sm,
           share_open_file(f, psp, om, sm)
    PROVE  /\ lockTable' = lockTable
           /\ \/ fileTable' = fileTable
              \/ \E n \in FileNo \ UsedFiles, e \in FileEntry :
                    /\ e = NewEntry(n, f, psp, NormalOpen(om), NormalShare(sm))
                    /\ OpenAllowed(n, e)
                    /\ fileTable' = [fileTable EXCEPT ![n] = e]
<1> DEFINE r == share_open_ret(f, psp, om, sm)
           n == FirstOf(FreeFileNo)
           e == NewEntry(n, f, psp, NormalOpen(om), NormalShare(sm))
<1>1. lockTable' = lockTable
  BY DEF share_open_file
<1>2. CASE r < 0
  BY <1>1, <1>2 DEF share_open_file
<1>3. CASE ~(r < 0)
  <2>1. FreeFileNo # {} /\ OpenAllowed(n, e) /\ r = n
    BY <1>3 DEF share_open_ret, DE_SHARING
  <2>2. n \in FileNo \ UsedFiles
    BY <2>1, FirstOfSet, SizeAssumption DEF FreeFileNo, FileNo
  <2>3. e \in FileEntry
    BY <2>2, NewEntryType, NormalModes
  <2>4. fileTable' = [fileTable EXCEPT ![n] = e]
    BY <1>3, <2>1 DEF share_open_file
  <2>5. QED
    BY <1>1, <2>1, <2>2, <2>3, <2>4
<1>4. QED
  BY <1>2, <1>3

(***************************************************************************)
(* LockInv holds initially and is preserved by each operation.             *)
(***************************************************************************)
LEMMA LockInvInit == ShareInit => LockInv
BY DEF ShareInit, LockInv, ShareTypeOK, LocksOwned, LocksDisjoint, LocksNonEmpty,
       UsedLocks, LockUsed

(* Opening touches an unused entry, which by LocksOwned no lock names.     *)
LEMMA LockInvOpen ==
    ASSUME LockInv, NEW f \in File, NEW psp \in Psp, NEW om, NEW sm,
           share_open_file(f, psp, om, sm)
    PROVE  LockInv'
<1>1. lockTable' = lockTable
  BY OpenFills DEF LockInv
<1>2. CASE fileTable' = fileTable
  BY <1>1, <1>2 DEF LockInv, ShareTypeOK, LocksOwned, LocksDisjoint, LocksNonEmpty,
                    UsedLocks, LockUsed, InUse
<1>3. ASSUME NEW n \in FileNo \ UsedFiles, NEW e \in FileEntry,
             fileTable' = [fileTable EXCEPT ![n] = e]
      PROVE  LockInv'
  <2>1. ShareTypeOK'
    BY <1>1, <1>3 DEF LockInv, ShareTypeOK
  <2>2. UsedLocks' = UsedLocks
    BY <1>1 DEF UsedLocks, LockUsed
  <2>3. \A k \in UsedLocks : /\ lockTable[k].fileno \in UsedFiles
                             /\ lockTable[k].fileno # n
                             /\ fileTable'[lockTable[k].fileno] = fileTable[lockTable[k].fileno]
    BY <1>3 DEF LockInv, ShareTypeOK, LocksOwned, UsedLocks, LockUsed, UsedFiles, LockEntry
  <2>4. LocksOwned'
    BY <1>1, <2>2, <2>3 DEF LocksOwned, InUse, UsedFiles
  <2>5. LocksDisjoint'
    BY <1>1, <2>2, <2>3 DEF LockInv, LocksDisjoint
  <2>6. LocksNonEmpty'
    BY <1>1, <2>2 DEF LockInv, LocksNonEmpty
  <2>7. QED
    BY <2>1, <2>4, <2>5, <2>6 DEF LockInv
<1>4. QED
  BY <1>2, <1>3, OpenFills DEF LockInv

(* Closing frees the locks of the entry together with the entry.           *)
LEMMA LockInvClose ==
    ASSUME LockInv, NEW n \in FileNo, share_close_file(n)
    PROVE  LockInv'
<1>1. \A k \in LockNo : lockTable'[k] = IF lockTable[k].fileno = n THEN FreeLock ELSE lockTable[k]
  BY DEF share_close_file, remove_all_locks
<1>2. \A k \in UsedLocks' : /\ k \in UsedLocks
                            /\ lockTable'[k] = lockTable[k]
                            /\ lockTable[k].fileno # n
  BY <1>1 DEF UsedLocks, LockUsed
<1>3. ShareTypeOK'
  BY DEF LockInv, ShareTypeOK, share_close_file, remove_all_locks
<1>4. \A m \in FileNo : m # n => fileTable'[m] = fileTable[m]
  BY DEF LockInv, ShareTypeOK, share_close_file
<1>5. \A k \in UsedLocks' : lockTable[k].fileno \in FileNo
  BY <1>2 DEF LockInv, ShareTypeOK, UsedLocks, LockUsed, LockEntry
<1>6. LocksOwned'
  BY <1>2, <1>4, <1>5 DEF LockInv, LocksOwned, InUse
<1>7. LocksDisjoint'
  BY <1>2, <1>4, <1>5 DEF LockInv, LocksDisjoint
<1>8. LocksNonEmpty'
  BY <1>2 DEF LockInv, LocksNonEmpty
<1>9. QED
  BY <1>3, <1>6, <1>7, <1>8 DEF LockInv

(* What a granted lock does: one unused entry gets a region that meets no  *)
(* region of the same file.                                                *)
LEMMA LockFills ==
    ASSUME ShareTypeOK, NEW n \in FileNo, NEW ofs \in Offset, NEW len \in Offset,
           share_lock(n, ofs, len)
    PROVE  /\ fileTable' = fileTable
           /\ \E q \in LockNo \ UsedLocks, r \in LockEntry :
                /\ r = [start |-> ofs, end |-> EndOf(ofs, len), fileno |-> n]
                /\ r.start < r.end
                /\ lockTable' = [lockTable EXCEPT ![q] = r]
                /\ \A k \in UsedLocks :
                      fileTable[lockTable[k].fileno].filename = fileTable[n].filename
                      => r.end <= lockTable[k].start \/ lockTable[k].end <= r.start
<1> DEFINE q == FirstOf(LockNo \ UsedLocks)
           r == [start |-> ofs, end |-> EndOf(ofs, len), fileno |-> n]
<1>1. fileTable' = fileTable /\ lockTable' = [lockTable EXCEPT ![q] = r]
  BY DEF share_lock
<1>2. q \in LockNo \ UsedLocks
  <2>1. LockNo \ UsedLocks # {} /\ LockNo \ UsedLocks \subseteq Nat
    BY SizeAssumption DEF share_lock, LockNo, UsedLocks
  <2>2. QED
    BY <2>1, FirstOfSet
<1>3. r \in LockEntry /\ r.start < r.end
  <2>1. EndOf(ofs, len) \in Offset /\ ofs <= EndOf(ofs, len)
    BY EndOfBounds
  <2>2. EndOf(ofs, len) # ofs
    BY DEF share_lock
  <2>3. ofs < EndOf(ofs, len)
    BY <2>1, <2>2, SizeAssumption DEF Offset
  <2>4. QED
    BY <2>1, <2>3 DEF LockEntry
<1>4. ASSUME NEW k \in UsedLocks,
             fileTable[lockTable[k].fileno].filename = fileTable[n].filename
      PROVE  EndOf(ofs, len) <= lockTable[k].start \/ lockTable[k].end <= ofs
  <2>1. ofs >= lockTable[k].end \/ EndOf(ofs, len) <= lockTable[k].start
    BY <1>4 DEF share_lock, do_access_check
  <2>2. lockTable[k].end \in Offset
    BY DEF ShareTypeOK, UsedLocks, LockUsed, LockEntry
  <2>3. QED
    BY <2>1, <2>2, SizeAssumption DEF Offset
<1>5. QED
  BY <1>1, <1>2, <1>3, <1>4

LEMMA LockInvLock ==
    ASSUME LockInv, NEW n \in UsedFiles, NEW ofs \in Offset, NEW len \in Offset,
           share_lock(n, ofs, len)
    PROVE  LockInv'
<1>0. n \in FileNo /\ InUse(n)
  BY DEF UsedFiles
<1>1. fileTable' = fileTable
  BY <1>0, LockFills DEF LockInv
<1>2. PICK q \in LockNo \ UsedLocks, r \in LockEntry :
        /\ r = [start |-> ofs, end |-> EndOf(ofs, len), fileno |-> n]
        /\ r.start < r.end
        /\ lockTable' = [lockTable EXCEPT ![q] = r]
        /\ \A k \in UsedLocks :
              fileTable[lockTable[k].fileno].filename = fileTable[n].filename
              => r.end <= lockTable[k].start \/ lockTable[k].end <= r.start
  BY <1>0, LockFills DEF LockInv
<1>3. ShareTypeOK'
  BY <1>1, <1>2 DEF LockInv, ShareTypeOK
<1>4. \A k \in UsedLocks' : \/ k \in UsedLocks /\ k # q /\ lockTable'[k] = lockTable[k]
                            \/ k = q /\ lockTable'[k] = r
  BY <1>2 DEF LockInv, ShareTypeOK, UsedLocks, LockUsed
<1>5. r.fileno = n
  BY <1>2
<1>6. LocksOwned'
  BY <1>0, <1>1, <1>4, <1>5 DEF LockInv, LocksOwned, InUse
<1>7. LocksDisjoint'
  BY <1>1, <1>2, <1>4, <1>5 DEF LockInv, LocksDisjoint
<1>8. LocksNonEmpty'
  BY <1>2, <1>4 DEF LockInv, LocksNonEmpty
<1>9. QED
  BY <1>3, <1>6, <1>7, <1>8 DEF LockInv

LEMMA LockInvUnlock ==
    ASSUME LockInv, NEW n, NEW ofs, NEW len, share_unlock(n, ofs, len)
    PROVE  LockInv'
<1> DEFINE q == FirstOf(LockedAs(n, ofs, len))
<1>1. fileTable' = fileTable /\ lockTable' = [lockTable EXCEPT ![q] = FreeLock]
  BY DEF share_unlock
<1>2. ShareTypeOK'
  BY <1>1 DEF LockInv, ShareTypeOK
<1>3. \A k \in UsedLocks' : k \in UsedLocks /\ lockTable'[k] = lockTable[k]
  BY <1>1 DEF LockInv, ShareTypeOK, UsedLocks, LockUsed
<1>4. QED
  BY <1>1, <1>2, <1>3 DEF LockInv, LocksOwned, LocksDisjoint, LocksNonEmpty, InUse

(* The locking invariant of kernel/share.c, in every reachable state.      *)
THEOREM LockInvHolds == ShareSpec => []LockInv
<1>1. LockInv /\ [ShareNext]_shareVars => LockInv'
  <2> SUFFICES ASSUME LockInv, [ShareNext]_shareVars PROVE LockInv'
    OBVIOUS
  <2>1. CASE Open
    BY <2>1, LockInvOpen DEF Open
  <2>2. CASE Close
    BY <2>2, LockInvClose DEF Close, UsedFiles
  <2>3. CASE Lock
    BY <2>3, LockInvLock DEF Lock
  <2>4. CASE Unlock
    BY <2>4, LockInvUnlock DEF Unlock
  <2>5. CASE UNCHANGED shareVars
    BY <2>5 DEF shareVars, LockInv, ShareTypeOK, LocksOwned, LocksDisjoint, LocksNonEmpty,
                UsedLocks, LockUsed, InUse
  <2>6. QED
    BY <2>1, <2>2, <2>3, <2>4, <2>5 DEF ShareNext
<1>2. QED
  BY LockInvInit, <1>1, PTL DEF ShareSpec

(* The tables of SHARE stay well typed.                                    *)
THEOREM ShareTyped == ShareSpec => []ShareTypeOK
BY LockInvHolds, PTL DEF LockInv

(* A lock never outlives the open it was taken through (share_close_file   *)
(* removes the locks of an entry before it frees the entry).               *)
THEOREM LocksAreOwned == ShareSpec => []LocksOwned
BY LockInvHolds, PTL DEF LockInv

(* No two locked regions of one file meet, whatever the sizes of the two   *)
(* tables and the width of an offset.                                      *)
THEOREM LocksAreDisjoint == ShareSpec => []LocksDisjoint
BY LockInvHolds, PTL DEF LockInv

(***************************************************************************)
(* The sharing modes.  Deny-all is exclusive because do_open_check decides *)
(* by the modes of the first open, which every later open inherits, and no *)
(* row of the tables lets a deny-all open in or lets one in after it.      *)
(***************************************************************************)
DenyAllIsFirst == \A i \in UsedFiles : fileTable[i].sharemode = 1 => fileTable[i].first_sharemode = 1

OpenInv == ShareTypeOK /\ FirstModesAgree /\ DenyAllExclusive /\ DenyAllIsFirst

LEMMA DenyAllRefused ==
    ASSUME NEW fs \in ShareModes, NEW fo \in OpenModes, NEW s \in ShareModes, NEW o \in OpenModes,
           OpenAction(fs, fo, s, o) = 0
    PROVE  fs # 1 /\ s # 1
<1>1. ASSUME <<fs, fo, s, o>> \in OpenExceptions
      PROVE  fs # 1 /\ s # 1
  BY <1>1 DEF OpenExceptions
<1>2. ASSUME OpenActions(fs, s) = 0
      PROVE  fs # 1 /\ s # 1
  BY <1>2 DEF OpenActions, ShareModes
<1>3. QED
  BY <1>1, <1>2 DEF OpenAction

LEMMA OpenInvOpen ==
    ASSUME OpenInv, NEW f \in File, NEW psp \in Psp, NEW om, NEW sm,
           share_open_file(f, psp, om, sm)
    PROVE  OpenInv'
<1>1. CASE fileTable' = fileTable
  BY <1>1, OpenFills
     DEF OpenInv, ShareTypeOK, FirstModesAgree, DenyAllExclusive, DenyAllIsFirst, UsedFiles, InUse
<1>2. ASSUME NEW n \in FileNo \ UsedFiles, NEW e \in FileEntry,
             e = NewEntry(n, f, psp, NormalOpen(om), NormalShare(sm)),
             OpenAllowed(n, e), fileTable' = [fileTable EXCEPT ![n] = e]
      PROVE  OpenInv'
  <2> DEFINE P == Peers(f, n)
             p == FirstOf(P)
  <2>1. ShareTypeOK'
    BY <1>2, OpenFills DEF OpenInv, ShareTypeOK
  <2>2. /\ UsedFiles' = UsedFiles \cup {n}
        /\ fileTable'[n] = e
        /\ \A i \in UsedFiles : fileTable'[i] = fileTable[i] /\ i # n
    BY <1>2, FileAssumption DEF OpenInv, ShareTypeOK, UsedFiles, InUse, FileEntry
  <2>3. e.filename = f
    BY <1>2 DEF NewEntry
  <2>4. P = {i \in UsedFiles : fileTable[i].filename = f}
    BY <1>2, FileAssumption DEF Peers, UsedFiles, InUse
  <2>5. CASE P = {}
    <3>1. e.first_sharemode = e.sharemode
      BY <1>2, <2>5 DEF NewEntry
    <3>2. \A i \in UsedFiles : fileTable[i].filename # e.filename
      BY <2>3, <2>4, <2>5
    <3>3. QED
      BY <2>1, <2>2, <3>1, <3>2 DEF OpenInv, FirstModesAgree, DenyAllExclusive, DenyAllIsFirst
  <2>6. CASE P # {}
    <3>1. p \in P
      BY <2>6, FirstOfSet, SizeAssumption DEF Peers, FileNo
    <3>2. /\ e.first_sharemode = fileTable[p].first_sharemode
          /\ e.first_openmode = fileTable[p].first_openmode
      BY <1>2, <2>6 DEF NewEntry
    <3>3. OpenAction(e.first_sharemode, e.first_openmode, e.sharemode, e.openmode) = 0
      BY <1>2, <2>3, <2>6 DEF OpenAllowed
    <3>4. e.first_sharemode # 1 /\ e.sharemode # 1
      BY <3>3, DenyAllRefused DEF FileEntry
    <3>5. \A i \in P : /\ fileTable[i].first_sharemode = e.first_sharemode
                       /\ fileTable[i].first_openmode = e.first_openmode
                       /\ fileTable[i].sharemode # 1
      BY <2>4, <3>1, <3>2, <3>4 DEF OpenInv, FirstModesAgree, DenyAllIsFirst
    <3>6. FirstModesAgree'
      BY <2>2, <2>3, <2>4, <3>5 DEF OpenInv, FirstModesAgree
    <3>7. DenyAllExclusive'
      BY <2>2, <2>3, <2>4, <3>4, <3>5 DEF OpenInv, DenyAllExclusive
    <3>8. DenyAllIsFirst'
      BY <2>2, <3>4 DEF OpenInv, DenyAllIsFirst
    <3>9. QED
      BY <2>1, <3>6, <3>7, <3>8 DEF OpenInv
  <2>7. QED
    BY <2>5, <2>6
<1>3. QED
  BY <1>1, <1>2, OpenFills DEF OpenInv

LEMMA OpenInvClose ==
    ASSUME OpenInv, NEW n \in FileNo, share_close_file(n)
    PROVE  OpenInv'
<1>1. ShareTypeOK'
  BY DEF OpenInv, ShareTypeOK, share_close_file, remove_all_locks
<1>2. \A i \in UsedFiles' : i \in UsedFiles /\ fileTable'[i] = fileTable[i]
  BY DEF OpenInv, ShareTypeOK, share_close_file, UsedFiles, InUse, FreeEntry
<1>3. QED
  BY <1>1, <1>2 DEF OpenInv, FirstModesAgree, DenyAllExclusive, DenyAllIsFirst

LEMMA OpenInvFrame ==
    ASSUME OpenInv, fileTable' = fileTable, ShareTypeOK'
    PROVE  OpenInv'
BY DEF OpenInv, FirstModesAgree, DenyAllExclusive, DenyAllIsFirst, UsedFiles, InUse

(* The invariant of the sharing modes, in every reachable state.           *)
THEOREM OpenInvHolds == ShareSpec => []OpenInv
<1>1. ShareInit => OpenInv
  BY DEF ShareInit, OpenInv, ShareTypeOK, FirstModesAgree, DenyAllExclusive, DenyAllIsFirst,
         UsedFiles, InUse, FreeEntry
<1>2. OpenInv /\ ShareTypeOK' /\ [ShareNext]_shareVars => OpenInv'
  <2> SUFFICES ASSUME OpenInv, ShareTypeOK', [ShareNext]_shareVars PROVE OpenInv'
    OBVIOUS
  <2>1. CASE Open
    BY <2>1, OpenInvOpen DEF Open
  <2>2. CASE Close
    BY <2>2, OpenInvClose DEF Close, UsedFiles
  <2>3. CASE Lock \/ Unlock \/ UNCHANGED shareVars
    BY <2>3, OpenInvFrame DEF Lock, Unlock, share_lock, share_unlock, shareVars
  <2>4. QED
    BY <2>1, <2>2, <2>3 DEF ShareNext
<1>3. QED
  BY <1>1, <1>2, ShareTyped, PTL DEF ShareSpec

(* All opens of a file carry the modes of the same first open.             *)
THEOREM FirstModesAlwaysAgree == ShareSpec => []FirstModesAgree
BY OpenInvHolds, PTL DEF OpenInv

(* A file opened in deny-all mode has no second open.                      *)
THEOREM DenyAllIsExclusive == ShareSpec => []DenyAllExclusive
BY OpenInvHolds, PTL DEF OpenInv

(***************************************************************************)
(* The tables implement ByteLocks.                                         *)
(***************************************************************************)
LEMMA OpenImplements ==
    ASSUME LockInv, NEW f \in File, NEW psp \in Psp, NEW om, NEW sm,
           share_open_file(f, psp, om, sm)
    PROVE  \/ \E o \in [holder: FileNo, file: File] : Promise!BLOpen(o)
           \/ {RegionOf(k) : k \in UsedLocks}' = {RegionOf(k) : k \in UsedLocks}
              /\ {OpenOf(n) : n \in UsedFiles}' = {OpenOf(n) : n \in UsedFiles}
<1>1. lockTable' = lockTable /\ UsedLocks' = UsedLocks
  BY OpenFills DEF LockInv, UsedLocks, LockUsed
<1>2. CASE fileTable' = fileTable
  BY <1>1, <1>2 DEF RegionOf, OpenOf, UsedFiles, InUse
<1>3. ASSUME NEW n \in FileNo \ UsedFiles, NEW e \in FileEntry,
             e = NewEntry(n, f, psp, NormalOpen(om), NormalShare(sm)),
             fileTable' = [fileTable EXCEPT ![n] = e]
      PROVE  Promise!BLOpen([holder |-> n, file |-> f])
  <2>1. /\ UsedFiles' = UsedFiles \cup {n}
        /\ \A i \in UsedFiles : OpenOf(i)' = OpenOf(i)
        /\ OpenOf(n)' = [holder |-> n, file |-> f]
    BY <1>3, FileAssumption DEF LockInv, ShareTypeOK, UsedFiles, InUse, FileEntry, OpenOf, NewEntry
  <2>2. \A k \in UsedLocks : RegionOf(k)' = RegionOf(k)
    BY <1>1, <1>3 DEF LockInv, ShareTypeOK, LocksOwned, UsedLocks, LockUsed, LockEntry,
                      RegionOf, UsedFiles
  <2>3. {RegionOf(k) : k \in UsedLocks}' = {RegionOf(k) : k \in UsedLocks}
    BY <1>1, <2>2
  <2>4. {OpenOf(i) : i \in UsedFiles}' = {OpenOf(i) : i \in UsedFiles} \cup {[holder |-> n, file |-> f]}
    BY <2>1
  <2>5. \A o \in {OpenOf(i) : i \in UsedFiles} : o.holder # n
    BY <1>3 DEF OpenOf
  <2>6. QED
    BY <2>3, <2>4, <2>5 DEF Promise!BLOpen
<1>4. CASE fileTable' # fileTable
  <2>1. PICK n \in FileNo \ UsedFiles, e \in FileEntry :
          /\ e = NewEntry(n, f, psp, NormalOpen(om), NormalShare(sm))
          /\ fileTable' = [fileTable EXCEPT ![n] = e]
    BY <1>4, OpenFills DEF LockInv
  <2>2. Promise!BLOpen([holder |-> n, file |-> f])
    BY <1>3, <2>1
  <2>3. [holder |-> n, file |-> f] \in [holder: FileNo, file: File]
    OBVIOUS
  <2>4. QED
    BY <2>2, <2>3
<1>5. QED
  BY <1>2, <1>4

LEMMA CloseImplements ==
    ASSUME LockInv, NEW n \in UsedFiles, share_close_file(n)
    PROVE  \E o \in {OpenOf(i) : i \in UsedFiles} : Promise!BLClose(o)
<1>1. /\ n \in FileNo
      /\ UsedFiles' = UsedFiles \ {n}
      /\ \A i \in UsedFiles' : OpenOf(i)' = OpenOf(i)
  BY DEF LockInv, ShareTypeOK, share_close_file, UsedFiles, InUse, FreeEntry, OpenOf
<1>2. /\ UsedLocks' = {k \in UsedLocks : lockTable[k].fileno # n}
      /\ \A k \in UsedLocks' : RegionOf(k)' = RegionOf(k)
  <2>1. \A k \in LockNo : lockTable'[k] = IF lockTable[k].fileno = n THEN FreeLock ELSE lockTable[k]
    BY DEF share_close_file, remove_all_locks
  <2>2. UsedLocks' = {k \in UsedLocks : lockTable[k].fileno # n}
    BY <2>1 DEF UsedLocks, LockUsed
  <2>3. \A k \in UsedLocks : lockTable[k].fileno \in FileNo
    BY DEF LockInv, ShareTypeOK, UsedLocks, LockUsed, LockEntry
  <2>4. \A i \in FileNo \ {n} : fileTable'[i] = fileTable[i]
    BY DEF LockInv, ShareTypeOK, share_close_file
  <2>5. ASSUME NEW k \in UsedLocks'
        PROVE  RegionOf(k)' = RegionOf(k)
    <3>1. k \in UsedLocks /\ lockTable[k].fileno \in FileNo \ {n}
      BY <2>2, <2>3
    <3>2. lockTable'[k] = lockTable[k]
      BY <2>1, <3>1 DEF UsedLocks
    <3>3. QED
      BY <2>4, <3>1, <3>2 DEF RegionOf
  <2>6. QED
    BY <2>2, <2>5
<1>3. {OpenOf(i) : i \in UsedFiles}' = {OpenOf(i) : i \in UsedFiles} \ {OpenOf(n)}
  <2>1. \A i \in UsedFiles : i # n => OpenOf(i) # OpenOf(n)
    <3>1. \A i : OpenOf(i).holder = i
      BY DEF OpenOf
    <3>2. QED
      BY <3>1
  <2>2. QED
    BY <1>1, <2>1
<1>4. {RegionOf(k) : k \in UsedLocks}'
        = {r \in {RegionOf(k) : k \in UsedLocks} : r.holder # OpenOf(n).holder}
  <2>1. \A k : RegionOf(k).holder = lockTable[k].fileno
    BY DEF RegionOf
  <2>2. OpenOf(n).holder = n
    BY DEF OpenOf
  <2>3. QED
    BY <1>2, <2>1, <2>2
<1>5. QED
  BY <1>3, <1>4 DEF Promise!BLClose

LEMMA LockImplements ==
    ASSUME LockInv, NEW n \in UsedFiles, NEW ofs \in Offset, NEW len \in Offset,
           share_lock(n, ofs, len)
    PROVE  \E r \in Promise!Region : Promise!BLLock(r)
<1> DEFINE g == [holder |-> n, file |-> fileTable[n].filename,
                 from |-> ofs, to |-> EndOf(ofs, len)]
<1>0. n \in FileNo /\ fileTable[n].filename \in File
  BY FileAssumption DEF LockInv, ShareTypeOK, UsedFiles, InUse, FileEntry, FreeEntry
<1>1. fileTable' = fileTable
  BY <1>0, LockFills DEF LockInv
<1>2. PICK q \in LockNo \ UsedLocks, r \in LockEntry :
        /\ r = [start |-> ofs, end |-> EndOf(ofs, len), fileno |-> n]
        /\ r.start < r.end
        /\ lockTable' = [lockTable EXCEPT ![q] = r]
        /\ \A k \in UsedLocks :
              fileTable[lockTable[k].fileno].filename = fileTable[n].filename
              => r.end <= lockTable[k].start \/ lockTable[k].end <= r.start
  BY <1>0, LockFills DEF LockInv
<1>3. /\ UsedLocks' = UsedLocks \cup {q}
      /\ \A k \in UsedLocks : RegionOf(k)' = RegionOf(k)
      /\ RegionOf(q)' = g
  <2>1. lockTable' = [lockTable EXCEPT ![q] = r] /\ r \in LockEntry
    BY <1>2
  <2>2. UsedLocks' = UsedLocks \cup {q}
    <3>1. r # FreeLock
      BY SizeAssumption DEF LockEntry, FreeLock, FileNo
    <3>2. QED
      BY <2>1, <3>1 DEF LockInv, ShareTypeOK, UsedLocks, LockUsed
  <2>3. \A k \in UsedLocks : lockTable'[k] = lockTable[k]
    BY <2>1 DEF LockInv, ShareTypeOK, UsedLocks
  <2>4. lockTable'[q] = r
    BY <2>1 DEF LockInv, ShareTypeOK
  <2>5. r = [start |-> ofs, end |-> EndOf(ofs, len), fileno |-> n]
    BY <1>2
  <2>6. RegionOf(q)' = g
    BY <1>1, <2>4, <2>5 DEF RegionOf
  <2>7. QED
    BY <1>1, <2>2, <2>3, <2>6 DEF RegionOf
<1>4. {RegionOf(k) : k \in UsedLocks}' = {RegionOf(k) : k \in UsedLocks} \cup {g}
  BY <1>3
<1>5. {OpenOf(i) : i \in UsedFiles}' = {OpenOf(i) : i \in UsedFiles}
  BY <1>1 DEF OpenOf, UsedFiles, InUse
<1>6. g \in Promise!Region
  <2>1. ofs < EndOf(ofs, len) /\ EndOf(ofs, len) \in Offset
    BY <1>2, EndOfBounds
  <2>2. QED
    BY <1>0, <2>1 DEF Promise!Region, Offset
<1>7. [holder |-> g.holder, file |-> g.file] \in {OpenOf(i) : i \in UsedFiles}
  BY DEF OpenOf
<1>8. \A s \in {RegionOf(k) : k \in UsedLocks} : ~Promise!Meet(g, s)
  <2> SUFFICES ASSUME NEW k \in UsedLocks, RegionOf(k).file = g.file
               PROVE  ~(ofs < lockTable[k].end /\ lockTable[k].start < EndOf(ofs, len))
    BY DEF Promise!Meet, RegionOf
  <2>1. EndOf(ofs, len) <= lockTable[k].start \/ lockTable[k].end <= ofs
    BY <1>2 DEF RegionOf
  <2>2. lockTable[k].start \in Int /\ lockTable[k].end \in Int /\ ofs \in Int /\ EndOf(ofs, len) \in Int
    <3>1. lockTable[k] \in LockEntry
      BY DEF LockInv, ShareTypeOK, UsedLocks, LockUsed
    <3>2. ofs \in Offset /\ EndOf(ofs, len) \in Offset
      BY EndOfBounds
    <3>3. QED
      BY <3>1, <3>2, SizeAssumption DEF LockEntry, Offset
  <2>3. QED
    BY <2>1, <2>2
<1>9. QED
  BY <1>4, <1>5, <1>6, <1>7, <1>8 DEF Promise!BLLock

LEMMA UnlockImplements ==
    ASSUME LockInv, NEW n \in UsedFiles, NEW ofs \in Offset, NEW len \in Offset,
           share_unlock(n, ofs, len)
    PROVE  \E r \in {RegionOf(k) : k \in UsedLocks} : Promise!BLUnlock(r)
<1> DEFINE q == FirstOf(LockedAs(n, ofs, len))
<1>1. fileTable' = fileTable /\ lockTable' = [lockTable EXCEPT ![q] = FreeLock]
  BY DEF share_unlock
<1>2. q \in UsedLocks
  <2>1. LockedAs(n, ofs, len) # {} /\ LockedAs(n, ofs, len) \subseteq Nat
    BY SizeAssumption DEF share_unlock, LockedAs, UsedLocks, LockNo
  <2>2. q \in LockedAs(n, ofs, len)
    BY <2>1, FirstOfSet
  <2>3. QED
    BY <2>2 DEF LockedAs
<1> HIDE DEF q
<1>3. UsedLocks' = UsedLocks \ {q}
  BY <1>1, <1>2 DEF LockInv, ShareTypeOK, UsedLocks, LockUsed
<1>4. \A k \in UsedLocks' : RegionOf(k)' = RegionOf(k)
  BY <1>1, <1>3 DEF LockInv, ShareTypeOK, UsedLocks, RegionOf
<1>5. ASSUME NEW k \in UsedLocks, k # q
      PROVE  RegionOf(k) # RegionOf(q)
  <2>1. lockTable[k] \in LockEntry /\ lockTable[q] \in LockEntry
    BY <1>2 DEF LockInv, ShareTypeOK, UsedLocks, LockUsed
  <2>2. lockTable[k].start < lockTable[k].end /\ lockTable[q].start < lockTable[q].end
    BY <1>2 DEF LockInv, LocksNonEmpty
  <2>3. fileTable[lockTable[k].fileno].filename = fileTable[lockTable[q].fileno].filename
        => lockTable[k].end <= lockTable[q].start \/ lockTable[q].end <= lockTable[k].start
    BY <1>2, <1>5 DEF LockInv, LocksDisjoint
  <2>4. ~(/\ fileTable[lockTable[k].fileno].filename = fileTable[lockTable[q].fileno].filename
          /\ lockTable[k].start = lockTable[q].start
          /\ lockTable[k].end = lockTable[q].end)
    BY <2>1, <2>2, <2>3, SizeAssumption DEF LockEntry, Offset
  <2>5. QED
    BY <2>4 DEF RegionOf
<1>6. {RegionOf(k) : k \in UsedLocks}' = {RegionOf(k) : k \in UsedLocks} \ {RegionOf(q)}
  BY <1>2, <1>3, <1>4, <1>5
<1>7. {OpenOf(i) : i \in UsedFiles}' = {OpenOf(i) : i \in UsedFiles}
  BY <1>1 DEF OpenOf, UsedFiles, InUse
<1>8. QED
  BY <1>2, <1>6, <1>7 DEF Promise!BLUnlock

(* Every operation of SHARE is an operation of the abstract lock holder    *)
(* set, or changes nothing of it.                                          *)
THEOREM ShareImplementsByteLocks == ShareSpec => ImplementsByteLocks
<1>1. ShareInit => Promise!BLInit
  BY DEF ShareInit, Promise!BLInit, UsedLocks, LockUsed, UsedFiles, InUse, FreeEntry
<1>2. LockInv /\ [ShareNext]_shareVars
        => [Promise!BLNext]_<<{RegionOf(k) : k \in UsedLocks}, {OpenOf(n) : n \in UsedFiles}>>
  <2> SUFFICES ASSUME LockInv, [ShareNext]_shareVars
               PROVE  \/ Promise!BLNext
                      \/ /\ {RegionOf(k) : k \in UsedLocks}' = {RegionOf(k) : k \in UsedLocks}
                         /\ {OpenOf(n) : n \in UsedFiles}' = {OpenOf(n) : n \in UsedFiles}
    OBVIOUS
  <2>1. CASE Open
    BY <2>1, OpenImplements DEF Open, Promise!BLNext
  <2>2. CASE Close
    BY <2>2, CloseImplements DEF Close, Promise!BLNext
  <2>3. CASE Lock
    BY <2>3, LockImplements DEF Lock, Promise!BLNext
  <2>4. CASE Unlock
    BY <2>4, UnlockImplements DEF Unlock, Promise!BLNext
  <2>5. CASE UNCHANGED shareVars
    BY <2>5 DEF shareVars, RegionOf, OpenOf, UsedLocks, LockUsed, UsedFiles, InUse
  <2>6. QED
    BY <2>1, <2>2, <2>3, <2>4, <2>5 DEF ShareNext
<1>3. QED
  BY <1>1, <1>2, LockInvHolds, PTL DEF ShareSpec, ImplementsByteLocks, Promise!BLSpec
(***************************************************************************)
(* SHARE under the file handles.                                           *)
(***************************************************************************)
(* The shape of the tables: what an EXCEPT may rely on.                    *)
Shapes ==
    /\ fileTable = [n \in FileNo |-> fileTable[n]]
    /\ lockTable = [k \in LockNo |-> lockTable[k]]
    /\ sft = [s \in SftNo |-> sft[s]]
    /\ \A s \in SftNo :
          /\ sft[s] = [count |-> sft[s].count, file |-> sft[s].file, shroff |-> sft[s].shroff,
                       psp |-> sft[s].psp, noinherit |-> sft[s].noinherit, fcb |-> sft[s].fcb]
          /\ sft[s].count \in Nat
          /\ sft[s].shroff \in FileNo \cup {-1}

(* The SFT of a local file names a file, so its SHARE entry is in use.     *)
LocalsNamed == \A s \in OpenSfts : sft[s].shroff >= 0 => sft[s].file # NoFile

HandleInv == Shapes /\ LocalsNamed /\ ShareOneToOne

(* A lock that goes takes no open SFT's entry with it.                     *)
LocksGoWithSft ==
    \A k \in UsedLocks : lockTable'[k] # lockTable[k] =>
        \A s \in SftNo : sft'[s].count > 0 => sft'[s].shroff # lockTable[k].fileno

(* The entry of an open local SFT is in use.                               *)
LEMMA EntryInUse ==
    ASSUME HandleInv, NEW s \in OpenSfts, sft[s].shroff >= 0
    PROVE  sft[s].shroff \in UsedFiles
<1>1. sft[s].shroff \in FileNo
  BY SizeAssumption DEF HandleInv, Shapes, OpenSfts, FileNo
<1>2. fileTable[sft[s].shroff].filename = sft[s].file /\ sft[s].file # NoFile
  BY DEF HandleInv, LocalsNamed, ShareOneToOne
<1>3. QED
  BY <1>1, <1>2 DEF UsedFiles, InUse

(***************************************************************************)
(* The ways a DOS call changes the SFTs.                                   *)
(***************************************************************************)
(* DosOpenSft of a local file: a free SFT and the free entry SHARE finds.  *)
LEMMA OpenLocalKeeps ==
    ASSUME HandleInv, NEW s \in FreeSfts, NEW f \in File, NEW mode, NEW noinherit, NEW fcb,
           OpenLocal(s, f, mode, noinherit, fcb)
    PROVE  HandleInv' /\ lockTable' = lockTable
<1> DEFINE n == share_open_ret(f, cu_psp, mode[1], mode[2])
           e == NewEntry(n, f, cu_psp, NormalOpen(mode[1]), NormalShare(mode[2]))
           x == NewSft(f, n, noinherit, fcb)
<1>1. n >= 0 /\ n = FirstOf(FreeFileNo) /\ FreeFileNo # {}
  BY DEF OpenLocal, share_open_ret, DE_SHARING
<1>2. n \in FileNo \ UsedFiles
  BY <1>1, FirstOfSet, SizeAssumption DEF FreeFileNo, FileNo
<1>3. /\ fileTable' = [fileTable EXCEPT ![n] = e]
      /\ lockTable' = lockTable
      /\ sft' = [sft EXCEPT ![s] = x]
  <2>1. ~(n < 0)
    BY <1>1, <1>2, SizeAssumption DEF FileNo
  <2>2. /\ share_open_file(f, cu_psp, mode[1], mode[2])
        /\ sft' = [sft EXCEPT ![s] = x]
    BY DEF OpenLocal
  <2>3. fileTable' = IF n < 0 THEN fileTable ELSE [fileTable EXCEPT ![n] = e]
    BY <2>2, Zenon DEF share_open_file
  <2>4. QED
    BY <2>1, <2>2, <2>3 DEF share_open_file
<1>4. e.filename = f /\ f # NoFile
  BY FileAssumption DEF NewEntry
<1>5. /\ x = [count |-> 1, file |-> f, shroff |-> n, psp |-> cu_psp,
              noinherit |-> noinherit, fcb |-> fcb]
      /\ x.count = 1 /\ x.file = f /\ x.shroff = n
  BY DEF NewSft
<1> HIDE DEF n, e, x
<1>6. /\ s \in SftNo /\ s \notin OpenSfts
      /\ sft'[s] = x
      /\ \A t \in SftNo \ {s} : sft'[t] = sft[t]
  BY <1>3 DEF FreeSfts, HandleInv, Shapes
<1>7. /\ fileTable'[n] = e
      /\ \A i \in FileNo \ {n} : fileTable'[i] = fileTable[i]
  BY <1>2, <1>3 DEF HandleInv, Shapes
<1>8. Shapes'
  <2>1. fileTable' = [i \in FileNo |-> fileTable'[i]] /\ sft' = [t \in SftNo |-> sft'[t]]
    BY <1>3 DEF HandleInv, Shapes
  <2>2. lockTable' = [k \in LockNo |-> lockTable'[k]]
    BY <1>3 DEF HandleInv, Shapes
  <2>3. ASSUME NEW t \in SftNo
        PROVE  /\ sft'[t] = [count |-> sft'[t].count, file |-> sft'[t].file,
                             shroff |-> sft'[t].shroff, psp |-> sft'[t].psp,
                             noinherit |-> sft'[t].noinherit, fcb |-> sft'[t].fcb]
               /\ sft'[t].count \in Nat
               /\ sft'[t].shroff \in FileNo \cup {-1}
    <3>1. CASE t = s
      BY <1>2, <1>5, <1>6, <3>1
    <3>2. CASE t # s
      BY <1>6, <3>2 DEF HandleInv, Shapes
    <3>3. QED
      BY <3>1, <3>2
  <2>4. QED
    BY <2>1, <2>2, <2>3 DEF Shapes
<1>9. OpenSfts' = OpenSfts \cup {s}
  BY <1>5, <1>6 DEF OpenSfts
<1>10. UsedFiles' = UsedFiles \cup {n}
  BY <1>2, <1>4, <1>7 DEF UsedFiles, InUse
<1>11. \A t \in OpenSfts : /\ t # s /\ sft'[t] = sft[t]
                           /\ sft[t].shroff >= 0 => sft[t].shroff \in UsedFiles /\ sft[t].shroff # n
  <2>1. \A t \in OpenSfts : t # s /\ sft'[t] = sft[t]
    BY <1>6 DEF OpenSfts
  <2>2. QED
    BY <1>2, <2>1, EntryInUse
<1>12. LocalsNamed'
  BY <1>4, <1>5, <1>6, <1>9, <1>11 DEF HandleInv, LocalsNamed
<1>13. ShareOneToOne'
  <2>1. \A t \in OpenSfts' : sft'[t].shroff >= 0 => fileTable'[sft'[t].shroff].filename = sft'[t].file
    BY <1>2, <1>4, <1>5, <1>6, <1>7, <1>9, <1>11 DEF HandleInv, ShareOneToOne, UsedFiles
  <2>2. \A t, u \in OpenSfts' : t # u /\ sft'[t].shroff >= 0 => sft'[t].shroff # sft'[u].shroff
    <3>1. n >= 0 /\ \A u \in OpenSfts : sft[u].shroff # n
      BY <1>1, <1>11
    <3>2. QED
      BY <1>5, <1>6, <1>9, <1>11, <3>1 DEF HandleInv, ShareOneToOne
  <2>3. \A i \in UsedFiles' : \E t \in OpenSfts' : sft'[t].shroff = i
    BY <1>5, <1>6, <1>9, <1>10, <1>11 DEF HandleInv, ShareOneToOne
  <2>4. QED
    BY <2>1, <2>2, <2>3 DEF ShareOneToOne
<1>14. QED
  BY <1>3, <1>8, <1>12, <1>13 DEF HandleInv

(* DosOpenSft of a device: a free SFT and no entry.                        *)
LEMMA OpenDeviceKeeps ==
    ASSUME HandleInv, NEW s \in FreeSfts, NEW d, NEW noinherit,
           OpenDevice(s, d, noinherit)
    PROVE  HandleInv' /\ lockTable' = lockTable
<1> DEFINE x == NewSft(d, -1, noinherit, FALSE)
<1>1. /\ x = [count |-> 1, file |-> d, shroff |-> -1, psp |-> cu_psp,
              noinherit |-> noinherit, fcb |-> FALSE]
      /\ x.count = 1 /\ x.shroff = -1
  BY DEF NewSft
<1>2. sft' = [sft EXCEPT ![s] = x] /\ fileTable' = fileTable /\ lockTable' = lockTable
  BY DEF OpenDevice, shareVars
<1> HIDE DEF x
<1>3. /\ s \in SftNo /\ s \notin OpenSfts
      /\ sft'[s] = x
      /\ \A t \in SftNo \ {s} : sft'[t] = sft[t]
  BY <1>2 DEF FreeSfts, HandleInv, Shapes
<1>4. OpenSfts' = OpenSfts \cup {s} /\ \A t \in OpenSfts : t # s /\ sft'[t] = sft[t]
  BY <1>1, <1>3 DEF OpenSfts
<1>5. Shapes'
  <2>1. ASSUME NEW t \in SftNo
        PROVE  /\ sft'[t] = [count |-> sft'[t].count, file |-> sft'[t].file,
                             shroff |-> sft'[t].shroff, psp |-> sft'[t].psp,
                             noinherit |-> sft'[t].noinherit, fcb |-> sft'[t].fcb]
               /\ sft'[t].count \in Nat
               /\ sft'[t].shroff \in FileNo \cup {-1}
    <3>1. CASE t = s
      BY <1>1, <1>3, <3>1
    <3>2. CASE t # s
      BY <1>3, <3>2 DEF HandleInv, Shapes
    <3>3. QED
      BY <3>1, <3>2
  <2>2. sft' = [t \in SftNo |-> sft'[t]]
    BY <1>2 DEF HandleInv, Shapes
  <2>3. QED
    BY <1>2, <2>1, <2>2 DEF HandleInv, Shapes
<1>6. UsedFiles' = UsedFiles
  BY <1>2 DEF UsedFiles, InUse
<1>7. LocalsNamed'
  BY <1>1, <1>3, <1>4 DEF HandleInv, LocalsNamed
<1>8. ShareOneToOne'
  BY <1>1, <1>2, <1>3, <1>4, <1>6 DEF HandleInv, ShareOneToOne
<1>9. QED
  BY <1>2, <1>5, <1>7, <1>8 DEF HandleInv

(* Closing dec[s] references of every SFT s, no more than there are; a     *)
(* negative number counts up.  The last reference of an SFT takes its      *)
(* SHARE entry and the locks of that entry along, and nothing else.        *)
LEMMA CloseSftsKeeps ==
    ASSUME HandleInv, NEW dec,
           \A s \in SftNo : dec[s] \in Int /\ dec[s] <= sft[s].count,
           \A s \in FreeSfts : dec[s] = 0,
           CloseSfts(dec)
    PROVE  HandleInv' /\ LocksGoWithSft
<1> DEFINE Closed == {s \in OpenSfts : dec[s] = sft[s].count}
           Freed  == {sft[s].shroff : s \in Closed} \ {-1}
<1>1. /\ sft' = [s \in SftNo |-> IF s \in Closed THEN FreeSft
                                 ELSE [sft[s] EXCEPT !.count = @ - dec[s]]]
      /\ fileTable' = [n \in FileNo |-> IF n \in Freed THEN FreeEntry ELSE fileTable[n]]
      /\ lockTable' = [k \in LockNo |-> IF lockTable[k].fileno \in Freed THEN FreeLock
                                        ELSE lockTable[k]]
  BY DEF CloseSfts
<1>2. \A s \in Closed : sft'[s] = FreeSft /\ s \in OpenSfts /\ s \in SftNo
  BY <1>1 DEF OpenSfts
<1>3. ASSUME NEW s \in SftNo \ Closed
      PROVE  sft'[s] = [count |-> sft[s].count - dec[s], file |-> sft[s].file,
                        shroff |-> sft[s].shroff, psp |-> sft[s].psp,
                        noinherit |-> sft[s].noinherit, fcb |-> sft[s].fcb]
  <2>1. sft'[s] = [sft[s] EXCEPT !.count = @ - dec[s]]
    BY <1>1
  <2>2. sft[s] = [count |-> sft[s].count, file |-> sft[s].file, shroff |-> sft[s].shroff,
                  psp |-> sft[s].psp, noinherit |-> sft[s].noinherit, fcb |-> sft[s].fcb]
    BY DEF HandleInv, Shapes
  <2>3. QED
    BY <2>1, <2>2
<1>4. \A s \in SftNo \ Closed : /\ sft[s].count - dec[s] \in Nat
                                /\ sft[s].count - dec[s] > 0 <=> s \in OpenSfts
  BY DEF HandleInv, Shapes, OpenSfts, FreeSfts
<1>5. /\ \A s \in Closed : sft'[s].count = 0 /\ sft'[s].shroff = -1
      /\ \A s \in SftNo \ Closed : /\ sft'[s].count = sft[s].count - dec[s]
                                    /\ sft'[s].file = sft[s].file
                                    /\ sft'[s].shroff = sft[s].shroff
  <2>1. FreeSft.count = 0 /\ FreeSft.shroff = -1
    BY DEF FreeSft
  <2>2. \A s \in Closed : sft'[s].count = 0 /\ sft'[s].shroff = -1
    BY <1>2, <2>1, Zenon
  <2>3. ASSUME NEW s \in SftNo \ Closed
        PROVE  /\ sft'[s].count = sft[s].count - dec[s]
               /\ sft'[s].file = sft[s].file
               /\ sft'[s].shroff = sft[s].shroff
    <3>1. sft'[s] = [count |-> sft[s].count - dec[s], file |-> sft[s].file,
                     shroff |-> sft[s].shroff, psp |-> sft[s].psp,
                     noinherit |-> sft[s].noinherit, fcb |-> sft[s].fcb]
      BY <1>3, Zenon
    <3>2. QED
      BY <3>1
  <2>4. QED
    BY <2>2, <2>3, Zenon
<1>5b. OpenSfts' = OpenSfts \ Closed
  <2>1. ASSUME NEW s \in SftNo
        PROVE  sft'[s].count > 0 <=> s \in OpenSfts \ Closed
    <3> HIDE DEF Closed
    <3>1. QED
      BY <1>4, <1>5
  <2>2. QED
    BY <2>1 DEF OpenSfts
<1>6. \A s \in OpenSfts' : /\ s \in OpenSfts \ Closed /\ s \in SftNo
                           /\ sft'[s].file = sft[s].file
                           /\ sft'[s].shroff = sft[s].shroff
                           /\ sft[s].shroff \notin Freed
  <2>1. ASSUME NEW s \in OpenSfts \ Closed
        PROVE  sft[s].shroff \notin Freed
    <3>1. ASSUME NEW t \in Closed, sft[t].shroff = sft[s].shroff, sft[t].shroff # -1
          PROVE  FALSE
      <4>1. t \in OpenSfts /\ t # s /\ t \in SftNo
        BY DEF OpenSfts
      <4>2. sft[t].shroff >= 0
        BY <3>1, <4>1, SizeAssumption DEF HandleInv, Shapes, FileNo
      <4>3. QED
        BY <3>1, <4>1, <4>2 DEF HandleInv, ShareOneToOne
    <3>2. QED
      BY <3>1
  <2>2. \A s \in OpenSfts' : s \in OpenSfts \ Closed /\ s \in SftNo
    BY <1>5b DEF OpenSfts
  <2> HIDE DEF Closed, Freed
  <2>3. QED
    BY <1>5, <2>1, <2>2
<1>7. UsedFiles' = UsedFiles \ Freed
  <2>1. \A n \in FileNo : fileTable'[n] = IF n \in Freed THEN FreeEntry ELSE fileTable[n]
    BY <1>1
  <2>2. FreeEntry.filename = NoFile
    BY DEF FreeEntry
  <2>3. \A n \in FileNo : fileTable'[n].filename # NoFile
                          <=> n \notin Freed /\ fileTable[n].filename # NoFile
    BY <2>1, <2>2
  <2>4. QED
    BY <2>3 DEF UsedFiles, InUse
<1>8. Shapes'
  <2>1. /\ fileTable' = [n \in FileNo |-> fileTable'[n]]
        /\ lockTable' = [k \in LockNo |-> lockTable'[k]]
        /\ sft' = [s \in SftNo |-> sft'[s]]
    BY <1>1
  <2> HIDE DEF Closed
  <2>2. ASSUME NEW s \in SftNo
        PROVE  /\ sft'[s] = [count |-> sft'[s].count, file |-> sft'[s].file,
                             shroff |-> sft'[s].shroff, psp |-> sft'[s].psp,
                             noinherit |-> sft'[s].noinherit, fcb |-> sft'[s].fcb]
               /\ sft'[s].count \in Nat
               /\ sft'[s].shroff \in FileNo \cup {-1}
    <3>1. CASE s \in Closed
      <4>1. sft'[s] = FreeSft
        BY <1>2, <3>1
      <4>2. QED
        BY <4>1 DEF FreeSft
    <3>2. CASE s \notin Closed
      <4>1. s \in SftNo \ Closed
        BY <3>2, Zenon
      <4>2. sft'[s] = [count |-> sft[s].count - dec[s], file |-> sft[s].file,
                       shroff |-> sft[s].shroff, psp |-> sft[s].psp,
                       noinherit |-> sft[s].noinherit, fcb |-> sft[s].fcb]
        BY <1>3, <4>1, Zenon
      <4>3. sft[s].count - dec[s] \in Nat /\ sft[s].shroff \in FileNo \cup {-1}
        BY <1>4, <4>1 DEF HandleInv, Shapes
      <4>4. QED
        BY <4>2, <4>3
    <3>3. QED
      BY <3>1, <3>2
  <2>3. QED
    BY <2>1, <2>2 DEF Shapes
<1>9. LocalsNamed'
  BY <1>6 DEF HandleInv, LocalsNamed
<1>10. ShareOneToOne'
  <2>1. ASSUME NEW s \in OpenSfts', sft'[s].shroff >= 0
        PROVE  fileTable'[sft'[s].shroff].filename = sft'[s].file
    <3>1. /\ s \in OpenSfts /\ sft'[s].shroff = sft[s].shroff /\ sft'[s].file = sft[s].file
          /\ sft[s].shroff \notin Freed
      BY <1>6
    <3>2. sft[s].shroff \in FileNo
      BY <2>1, <3>1, EntryInUse DEF UsedFiles
    <3>3. fileTable'[sft[s].shroff] = fileTable[sft[s].shroff]
      BY <1>1, <3>1, <3>2
    <3>4. QED
      BY <2>1, <3>1, <3>3 DEF HandleInv, ShareOneToOne
  <2>2. \A s, t \in OpenSfts' : s # t /\ sft'[s].shroff >= 0 => sft'[s].shroff # sft'[t].shroff
    BY <1>6 DEF HandleInv, ShareOneToOne
  <2>3. ASSUME NEW n \in UsedFiles'
        PROVE  \E s \in OpenSfts' : sft'[s].shroff = n
    <3>1. n \in UsedFiles /\ n \notin Freed
      BY <1>7
    <3>2. PICK s \in OpenSfts : sft[s].shroff = n
      BY <3>1 DEF HandleInv, ShareOneToOne
    <3>3. n # -1
      BY <3>1, SizeAssumption DEF UsedFiles, FileNo
    <3>4. s \notin Closed
      BY <3>1, <3>2, <3>3
    <3>5. QED
      BY <1>5b, <1>6, <3>2, <3>4
  <2>4. QED
    BY <2>1, <2>2, <2>3 DEF ShareOneToOne
<1>11. LocksGoWithSft
  <2> SUFFICES ASSUME NEW k \in UsedLocks, lockTable'[k] # lockTable[k],
                      NEW s \in SftNo, sft'[s].count > 0
               PROVE  sft'[s].shroff # lockTable[k].fileno
    BY DEF LocksGoWithSft
  <2>1. lockTable[k].fileno \in Freed
    BY <1>1 DEF UsedLocks
  <2>2. s \in OpenSfts'
    BY DEF OpenSfts
  <2>3. QED
    BY <1>6, <2>1, <2>2
<1>12. QED
  BY <1>8, <1>9, <1>10, <1>11 DEF HandleInv

(* Counts alone: an open SFT stays open and a free one stays free.         *)
LEMMA CountsKeep ==
    ASSUME HandleInv, UNCHANGED shareVars,
           sft' = [s \in SftNo |-> sft'[s]],
           \A s \in SftNo : \E c \in Nat : /\ sft'[s] = [sft[s] EXCEPT !.count = c]
                                           /\ c > 0 <=> sft[s].count > 0
    PROVE  HandleInv' /\ lockTable' = lockTable
<1>1. fileTable' = fileTable /\ lockTable' = lockTable
  BY DEF shareVars
<1>2. ASSUME NEW s \in SftNo
      PROVE  /\ sft'[s] = [count |-> sft'[s].count, file |-> sft[s].file,
                           shroff |-> sft[s].shroff, psp |-> sft[s].psp,
                           noinherit |-> sft[s].noinherit, fcb |-> sft[s].fcb]
             /\ sft'[s].file = sft[s].file /\ sft'[s].shroff = sft[s].shroff
             /\ sft'[s].psp = sft[s].psp /\ sft'[s].noinherit = sft[s].noinherit
             /\ sft'[s].fcb = sft[s].fcb
             /\ sft'[s].count \in Nat
             /\ sft'[s].count > 0 <=> sft[s].count > 0
  <2>1. PICK c \in Nat : /\ sft'[s] = [sft[s] EXCEPT !.count = c]
                         /\ c > 0 <=> sft[s].count > 0
    OBVIOUS
  <2>2. sft[s] = [count |-> sft[s].count, file |-> sft[s].file, shroff |-> sft[s].shroff,
                  psp |-> sft[s].psp, noinherit |-> sft[s].noinherit, fcb |-> sft[s].fcb]
    BY DEF HandleInv, Shapes
  <2>3. sft'[s] = [count |-> c, file |-> sft[s].file, shroff |-> sft[s].shroff,
                   psp |-> sft[s].psp, noinherit |-> sft[s].noinherit, fcb |-> sft[s].fcb]
    BY <2>1, <2>2
  <2>4. QED
    BY <2>1, <2>3
<1>3. OpenSfts' = OpenSfts /\ UsedFiles' = UsedFiles
  BY <1>1, <1>2 DEF OpenSfts, UsedFiles, InUse
<1>4. Shapes'
  BY <1>1, <1>2 DEF HandleInv, Shapes
<1>5. \A s \in OpenSfts : s \in SftNo
  BY DEF OpenSfts
<1>6. LocalsNamed' /\ ShareOneToOne'
  BY <1>1, <1>2, <1>3, <1>5 DEF HandleInv, LocalsNamed, ShareOneToOne
<1>7. QED
  BY <1>1, <1>4, <1>6 DEF HandleInv

(* A handle forced onto itself, the only one of its SFT: the SHARE entry   *)
(* goes and the SFT stays, as a local file without an entry.               *)
LEMMA ForceDupSelfKeeps ==
    ASSUME HandleInv, NEW s \in OpenSfts, sft' = [sft EXCEPT ![s].shroff = -1],
           IF sft[s].shroff >= 0 THEN share_close_file(sft[s].shroff) ELSE UNCHANGED shareVars
    PROVE  HandleInv' /\ LocksGoWithSft
<1> DEFINE n == sft[s].shroff
<1>1. s \in SftNo /\ n \in FileNo \cup {-1}
  BY DEF OpenSfts, HandleInv, Shapes
<1>2. /\ sft' = [t \in SftNo |-> sft'[t]]
      /\ sft'[s] = [count |-> sft[s].count, file |-> sft[s].file, shroff |-> -1,
                    psp |-> sft[s].psp, noinherit |-> sft[s].noinherit, fcb |-> sft[s].fcb]
      /\ \A t \in SftNo \ {s} : sft'[t] = sft[t]
  <2>1. sft[s] = [count |-> sft[s].count, file |-> sft[s].file, shroff |-> sft[s].shroff,
                  psp |-> sft[s].psp, noinherit |-> sft[s].noinherit, fcb |-> sft[s].fcb]
    BY <1>1 DEF HandleInv, Shapes
  <2>2. sft'[s] = [sft[s] EXCEPT !.shroff = -1]
    BY <1>1 DEF HandleInv, Shapes
  <2>3. QED
    BY <1>1, <2>1, <2>2 DEF HandleInv, Shapes
<1>3. sft'[s].count = sft[s].count /\ sft'[s].file = sft[s].file /\ sft'[s].shroff = -1
  BY <1>2
<1>4. OpenSfts' = OpenSfts
  BY <1>2, <1>3 DEF OpenSfts
<1>5. /\ fileTable' = [i \in FileNo |-> IF i = n THEN FreeEntry ELSE fileTable[i]]
      /\ lockTable' = [k \in LockNo |-> IF n >= 0 /\ lockTable[k].fileno = n THEN FreeLock
                                        ELSE lockTable[k]]
  <2>1. CASE n >= 0
    <3>1. share_close_file(n)
      BY <2>1
    <3>2. n \in FileNo
      BY <1>1, <2>1
    <3>3. fileTable' = [i \in FileNo |-> IF i = n THEN FreeEntry ELSE fileTable[i]]
      BY <3>1, <3>2 DEF share_close_file, HandleInv, Shapes
    <3>4. lockTable' = [k \in LockNo |-> IF n >= 0 /\ lockTable[k].fileno = n THEN FreeLock
                                         ELSE lockTable[k]]
      BY <2>1, <3>1 DEF share_close_file, remove_all_locks
    <3>5. QED
      BY <3>3, <3>4
  <2>2. CASE ~(n >= 0)
    <3>1. fileTable' = fileTable /\ lockTable' = lockTable
      BY <2>2 DEF shareVars
    <3>2. \A i \in FileNo : i # n
      BY <2>2, SizeAssumption DEF FileNo
    <3>3. QED
      BY <2>2, <3>1, <3>2 DEF HandleInv, Shapes
  <2>3. QED
    BY <2>1, <2>2
<1>6. \A t \in OpenSfts' : sft'[t].shroff >= 0 =>
          /\ t \in OpenSfts /\ t # s /\ sft'[t] = sft[t]
          /\ sft[t].shroff \in UsedFiles /\ sft[t].shroff # n
  <2> SUFFICES ASSUME NEW t \in OpenSfts, sft'[t].shroff >= 0
               PROVE  /\ t # s /\ sft'[t] = sft[t]
                      /\ sft[t].shroff \in UsedFiles /\ sft[t].shroff # n
    BY <1>4
  <2>1. t # s /\ t \in SftNo
    BY <1>3 DEF OpenSfts
  <2>2. sft'[t] = sft[t]
    BY <1>2, <2>1
  <2>3. sft[t].shroff # n
    BY <2>1, <2>2 DEF HandleInv, ShareOneToOne
  <2>4. QED
    BY <2>1, <2>2, <2>3, EntryInUse
<1>7. UsedFiles' = UsedFiles \ {n}
  <2>1. \A i \in FileNo : fileTable'[i] = IF i = n THEN FreeEntry ELSE fileTable[i]
    BY <1>5
  <2>2. FreeEntry.filename = NoFile
    BY DEF FreeEntry
  <2>3. QED
    BY <2>1, <2>2 DEF UsedFiles, InUse
<1>8. Shapes'
  <2>1. ASSUME NEW t \in SftNo
        PROVE  /\ sft'[t] = [count |-> sft'[t].count, file |-> sft'[t].file,
                             shroff |-> sft'[t].shroff, psp |-> sft'[t].psp,
                             noinherit |-> sft'[t].noinherit, fcb |-> sft'[t].fcb]
               /\ sft'[t].count \in Nat
               /\ sft'[t].shroff \in FileNo \cup {-1}
    <3>1. CASE t = s
      BY <1>1, <1>2, <3>1 DEF HandleInv, Shapes
    <3>2. CASE t # s
      BY <1>2, <3>2 DEF HandleInv, Shapes
    <3>3. QED
      BY <3>1, <3>2
  <2>2. fileTable' = [i \in FileNo |-> fileTable'[i]] /\ lockTable' = [k \in LockNo |-> lockTable'[k]]
    BY <1>5
  <2>3. QED
    BY <1>2, <2>1, <2>2 DEF Shapes
<1>9. LocalsNamed'
  BY <1>6 DEF HandleInv, LocalsNamed
<1>10. ShareOneToOne'
  <2>1. ASSUME NEW t \in OpenSfts', sft'[t].shroff >= 0
        PROVE  fileTable'[sft'[t].shroff].filename = sft'[t].file
    <3>1. /\ t \in OpenSfts /\ sft'[t] = sft[t] /\ sft[t].shroff \in FileNo
          /\ sft[t].shroff # n /\ sft[t].shroff >= 0
      BY <1>6, <2>1 DEF UsedFiles
    <3>2. fileTable'[sft[t].shroff] = fileTable[sft[t].shroff]
      BY <1>5, <3>1
    <3>3. QED
      BY <3>1, <3>2 DEF HandleInv, ShareOneToOne
  <2>2. ASSUME NEW t \in OpenSfts', NEW u \in OpenSfts', t # u, sft'[t].shroff >= 0
        PROVE  sft'[t].shroff # sft'[u].shroff
    <3>1. t \in OpenSfts /\ u \in OpenSfts /\ sft'[t] = sft[t] /\ u \in SftNo
      BY <1>4, <1>6, <2>2 DEF OpenSfts
    <3>2. CASE u = s
      BY <1>3, <2>2, <3>2
    <3>3. CASE u # s
      BY <1>2, <2>2, <3>1, <3>3 DEF HandleInv, ShareOneToOne
    <3>4. QED
      BY <3>2, <3>3
  <2>3. ASSUME NEW i \in UsedFiles'
        PROVE  \E t \in OpenSfts' : sft'[t].shroff = i
    <3>1. i \in UsedFiles /\ i # n
      BY <1>7
    <3>2. PICK t \in OpenSfts : sft[t].shroff = i
      BY <3>1 DEF HandleInv, ShareOneToOne
    <3>3. t # s /\ t \in SftNo
      BY <3>1, <3>2 DEF OpenSfts
    <3>4. QED
      BY <1>2, <1>4, <3>2, <3>3
  <2>4. QED
    BY <2>1, <2>2, <2>3 DEF ShareOneToOne
<1>11. LocksGoWithSft
  <2> SUFFICES ASSUME NEW k \in UsedLocks, lockTable'[k] # lockTable[k],
                      NEW t \in SftNo, sft'[t].count > 0
               PROVE  sft'[t].shroff # lockTable[k].fileno
    BY DEF LocksGoWithSft
  <2>1. n >= 0 /\ lockTable[k].fileno = n
    BY <1>5 DEF UsedLocks
  <2>2. t \in OpenSfts'
    BY DEF OpenSfts
  <2>3. CASE sft'[t].shroff >= 0
    BY <1>6, <2>1, <2>2, <2>3
  <2>4. CASE ~(sft'[t].shroff >= 0)
    BY <2>1, <2>4
  <2>5. QED
    BY <2>3, <2>4
<1>12. QED
  BY <1>8, <1>9, <1>10, <1>11 DEF HandleInv

(* Nothing of the SFTs and of SHARE changes: a close that fails, say.      *)
LEMMA FrameKeeps ==
    ASSUME HandleInv, UNCHANGED <<sft, shareVars>>
    PROVE  HandleInv' /\ LocksGoWithSft
BY DEF shareVars, HandleInv, Shapes, LocalsNamed, ShareOneToOne, LocksGoWithSft,
       OpenSfts, UsedFiles, InUse

(* Steps that leave the lock table alone drop no lock.                     *)
LEMMA NoLockGoes ==
    ASSUME lockTable' = lockTable
    PROVE  LocksGoWithSft
BY DEF LocksGoWithSft

LEMMA CountUpKeeps ==
    ASSUME HandleInv, NEW s \in OpenSfts, CountUp(s), UNCHANGED shareVars
    PROVE  HandleInv' /\ LocksGoWithSft
<1>1. s \in SftNo /\ sft[s].count \in Nat /\ sft[s].count > 0
  BY DEF OpenSfts, HandleInv, Shapes
<1>2. sft' = [sft EXCEPT ![s] = [sft[s] EXCEPT !.count = sft[s].count + 1]]
  BY DEF CountUp
<1>3. sft' = [t \in SftNo |-> sft'[t]]
  BY <1>2 DEF HandleInv, Shapes
<1>4. ASSUME NEW t \in SftNo
      PROVE  \E c \in Nat : /\ sft'[t] = [sft[t] EXCEPT !.count = c]
                            /\ c > 0 <=> sft[t].count > 0
  <2>1. CASE t = s
    <3>1. sft'[s] = [sft[s] EXCEPT !.count = sft[s].count + 1]
      BY <1>1, <1>2 DEF HandleInv, Shapes
    <3>2. sft[s].count + 1 \in Nat /\ sft[s].count + 1 > 0
      BY <1>1
    <3>3. QED
      BY <1>1, <2>1, <3>1, <3>2
  <2>2. CASE t # s
    <3>1. sft'[t] = sft[t]
      BY <1>2, <2>2 DEF HandleInv, Shapes
    <3>2. sft[t].count \in Nat
      BY DEF HandleInv, Shapes
    <3>3. sft[t] = [sft[t] EXCEPT !.count = sft[t].count]
      BY DEF HandleInv, Shapes
    <3>4. QED
      BY <3>1, <3>2, <3>3
  <2>3. QED
    BY <2>1, <2>2
<1>5. QED
  BY <1>3, <1>4, CountsKeep, NoLockGoes

(* One close of each SFT of a set of open ones.                            *)
LEMMA CloseOnceKeeps ==
    ASSUME HandleInv, NEW S, S \subseteq OpenSfts, CloseSfts(Once(S))
    PROVE  HandleInv' /\ LocksGoWithSft
<1>1. \A s \in SftNo : Once(S)[s] \in Int /\ Once(S)[s] <= sft[s].count
  <2>1. \A s \in SftNo : sft[s].count \in Nat /\ (s \in S => sft[s].count > 0)
    BY DEF OpenSfts, HandleInv, Shapes
  <2>2. \A s \in SftNo : Once(S)[s] = IF s \in S THEN 1 ELSE 0
    BY DEF Once
  <2>3. QED
    BY <2>1, <2>2
<1>2. \A s \in FreeSfts : Once(S)[s] = 0
  BY DEF Once, FreeSfts
<1>3. QED
  BY <1>1, <1>2, CloseSftsKeeps

(***************************************************************************)
(* The DOS calls.                                                          *)
(***************************************************************************)
(* The SFT a call takes is a free one.                                     *)
LEMMA FirstFreeSft ==
    ASSUME FreeSfts # {}
    PROVE  FirstOf(FreeSfts) \in FreeSfts
<1>1. FreeSfts \subseteq Nat
  BY HandlesAssumption DEF FreeSfts, SftNo
<1>2. QED
  BY <1>1, FirstOfSet

LEMMA DosOpenKeeps ==
    ASSUME HandleInv, NEW f, NEW mode, NEW noinherit, DosOpen(f, mode, noinherit)
    PROVE  HandleInv' /\ LocksGoWithSft
<1>1. FirstOf(FreeSfts) \in FreeSfts
  BY FirstFreeSft DEF DosOpen
<1>2. CASE f \in File
  BY <1>1, <1>2, OpenLocalKeeps, NoLockGoes DEF DosOpen
<1>3. CASE f \notin File
  BY <1>1, <1>3, OpenDeviceKeeps, NoLockGoes DEF DosOpen
<1>4. QED
  BY <1>2, <1>3

LEMMA DosForceDupKeeps ==
    ASSUME HandleInv, NEW old, NEW new, DosForceDup(old, new)
    PROVE  HandleInv' /\ LocksGoWithSft
<1> DEFINE s == jft[cu_psp][old]
           t == jft[cu_psp][new]
           dec == [i \in SftNo |-> IF i = t THEN 1 ELSE IF i = s THEN -1 ELSE 0]
<1>1. s \in OpenSfts
  BY DEF DosForceDup, Valid
<1>2. \/ CountUp(s) /\ UNCHANGED shareVars
      \/ t \in OpenSfts \ {s} /\ CloseSfts(dec)
      \/ UNCHANGED <<sft, shareVars>>
      \/ /\ sft' = [sft EXCEPT ![s].shroff = -1]
         /\ IF sft[s].shroff >= 0 THEN share_close_file(sft[s].shroff) ELSE UNCHANGED shareVars
  BY DEF DosForceDup
<1> HIDE DEF s, t
<1>3. CASE CountUp(s) /\ UNCHANGED shareVars
  BY <1>1, <1>3, CountUpKeeps
<1>4. CASE t \in OpenSfts \ {s} /\ CloseSfts(dec)
  <2>1. \A i \in SftNo : dec[i] \in Int /\ dec[i] <= sft[i].count
    BY <1>1, <1>4 DEF OpenSfts, HandleInv, Shapes
  <2>2. \A i \in FreeSfts : dec[i] = 0
    BY <1>1, <1>4 DEF FreeSfts
  <2> HIDE DEF dec
  <2>3. QED
    BY <1>4, <2>1, <2>2, CloseSftsKeeps
<1>5. CASE UNCHANGED <<sft, shareVars>>
  BY <1>5, FrameKeeps
<1>6. CASE /\ sft' = [sft EXCEPT ![s].shroff = -1]
           /\ IF sft[s].shroff >= 0 THEN share_close_file(sft[s].shroff) ELSE UNCHANGED shareVars
  BY <1>1, <1>6, ForceDupSelfKeeps
<1>7. QED
  BY <1>2, <1>3, <1>4, <1>5, <1>6

(* Handles are finitely many, so the references of one process to an SFT   *)
(* can be counted.                                                         *)
LEMMA HandlesCount ==
    ASSUME NEW S, S \subseteq Handle
    PROVE  Cardinality(S) \in Nat
<1>1. IsFiniteSet(Handle)
  BY HandlesAssumption, FS_Interval DEF Handle
<1>2. QED
  BY <1>1, FS_Subset, FS_CardinalityType

(* A child's references count only SFTs that are open already.             *)
LEMMA DosExecKeeps ==
    ASSUME HandleInv, NEW p, NEW f, DosExec(p, f)
    PROVE  HandleInv' /\ LocksGoWithSft
<1> DEFINE Copies(s) == {h \in Inherited : jft[cu_psp][h] = s}
<1>1. /\ sft' = [s \in SftNo |-> [sft[s] EXCEPT !.count = sft[s].count + Cardinality(Copies(s))]]
      /\ UNCHANGED shareVars
  BY DEF DosExec
<1>2. \A s : Copies(s) \subseteq Handle
  BY DEF Inherited
<1>3. \A s \in SftNo \ OpenSfts : Copies(s) = {}
  BY DEF Inherited, Valid
<1> HIDE DEF Copies
<1>4. \A s \in SftNo : Cardinality(Copies(s)) \in Nat
  BY <1>2, HandlesCount
<1>5. \A s \in SftNo \ OpenSfts : Cardinality(Copies(s)) = 0
  BY <1>3, FS_EmptySet
<1>6. ASSUME NEW s \in SftNo
      PROVE  \E c \in Nat : /\ sft'[s] = [sft[s] EXCEPT !.count = c]
                            /\ c > 0 <=> sft[s].count > 0
  <2> DEFINE c == sft[s].count + Cardinality(Copies(s))
  <2>1. sft'[s] = [sft[s] EXCEPT !.count = c]
    BY <1>1
  <2>2. c \in Nat /\ (c > 0 <=> sft[s].count > 0)
    BY <1>4, <1>5 DEF OpenSfts, HandleInv, Shapes
  <2> HIDE DEF c
  <2>3. QED
    BY <2>1, <2>2
<1>7. sft' = [s \in SftNo |-> sft'[s]]
  BY <1>1
<1>8. QED
  BY <1>1, <1>6, <1>7, CountsKeep, NoLockGoes DEF shareVars

(* The end of a process closes no SFT more often than it is counted: a     *)
(* close of a handle whose SFT is closed already fails.                    *)
LEMMA ExitKeeps ==
    ASSUME HandleInv, NEW failed, NEW kept, Exit(failed, kept)
    PROVE  HandleInv' /\ LocksGoWithSft
<1> DEFINE Mine == {h \in Handle : Valid(cu_psp, h)} \ failed
           n    == [s \in SftNo |-> Cardinality({h \in Mine : jft[cu_psp][h] = s})]
           dec1 == [s \in SftNo |-> IF n[s] < sft[s].count THEN n[s] ELSE sft[s].count]
           Fcbs == FcbCloseAll([s \in SftNo |-> sft[s].count - dec1[s]])
           dec  == [s \in SftNo |-> dec1[s] + Once(Fcbs \ kept)[s]]
<1>1. CloseSfts(dec)
  BY DEF Exit
<1>2. \A s \in SftNo : n[s] \in Nat
  BY HandlesCount
<1> HIDE DEF n
<1>3. \A s \in SftNo : dec1[s] \in Nat /\ dec1[s] <= sft[s].count
  BY <1>2 DEF HandleInv, Shapes
<1> HIDE DEF dec1
<1>4. \A s \in Fcbs : s \in OpenSfts /\ s \in SftNo /\ sft[s].count - dec1[s] > 0
  <2>1. ASSUME NEW s \in Fcbs
        PROVE  s \in OpenSfts /\ s \in SftNo /\ sft[s].count - dec1[s] > 0
    <3>1. s \in OpenSfts /\ s \in SftNo /\ s \in 0 .. s
      BY HandlesAssumption DEF FcbCloseAll, OwnFcbs, OpenSfts, SftNo
    <3>2. [i \in SftNo |-> sft[i].count - dec1[i]][s] > 0
      BY <3>1 DEF FcbCloseAll
    <3>3. QED
      BY <3>1, <3>2
  <2>2. QED
    BY <2>1
<1> HIDE DEF Fcbs
<1>5. \A s \in SftNo : dec[s] \in Int /\ dec[s] <= sft[s].count
  BY <1>3, <1>4 DEF Once, HandleInv, Shapes
<1>6. \A s \in FreeSfts : dec[s] = 0
  BY <1>3, <1>4, SMTT(30) DEF Once, FreeSfts, OpenSfts, HandleInv, Shapes
<1> HIDE DEF dec
<1>7. QED
  BY <1>1, <1>5, <1>6, CloseSftsKeeps

(* Locks and unlocks leave the SFTs and their entries alone; a lock fills  *)
(* an unused entry of the lock table, an unlock empties one of its own.    *)
LEMMA DosLockUnlockKeeps ==
    ASSUME HandleInv, NEW h \in Handle, NEW ofs, NEW len, DosLockUnlock(h, ofs, len)
    PROVE  HandleInv' /\ LockKeptOrGone
<1> DEFINE n == sft[jft[cu_psp][h]].shroff
<1>1. UNCHANGED handleVars /\ Valid(cu_psp, h)
  BY DEF DosLockUnlock
<1>2. share_lock(n, ofs, len) \/ share_unlock(n, ofs, len)
  BY DEF DosLockUnlock
<1>3. fileTable' = fileTable /\ sft' = sft
  BY <1>1, <1>2 DEF share_lock, share_unlock, handleVars
<1>4. ASSUME share_lock(n, ofs, len)
      PROVE  \E q \in LockNo \ UsedLocks : \E x : lockTable' = [lockTable EXCEPT ![q] = x]
  <2>1. LockNo \ UsedLocks # {} /\ LockNo \ UsedLocks \subseteq Nat
    BY <1>4, SizeAssumption DEF share_lock, LockNo, UsedLocks
  <2>2. FirstOf(LockNo \ UsedLocks) \in LockNo \ UsedLocks
    BY <2>1, FirstOfSet
  <2>3. QED
    BY <1>4, <2>2 DEF share_lock
<1>5. ASSUME share_unlock(n, ofs, len)
      PROVE  \E q \in UsedLocks : \E x : /\ lockTable[q].fileno = n
                                         /\ lockTable' = [lockTable EXCEPT ![q] = x]
  <2>1. LockedAs(n, ofs, len) # {} /\ LockedAs(n, ofs, len) \subseteq Nat
    BY <1>5, SizeAssumption DEF share_unlock, LockedAs, UsedLocks, LockNo
  <2>2. FirstOf(LockedAs(n, ofs, len)) \in LockedAs(n, ofs, len)
    BY <2>1, FirstOfSet
  <2>3. \A q \in LockedAs(n, ofs, len) : q \in UsedLocks /\ lockTable[q].fileno = n
    BY DEF LockedAs
  <2>4. QED
    BY <1>5, <2>2, <2>3 DEF share_unlock
<1>6. lockTable' = [k \in LockNo |-> lockTable'[k]]
  BY <1>2, <1>4, <1>5 DEF HandleInv, Shapes
<1>7. HandleInv'
  BY <1>3, <1>6 DEF HandleInv, Shapes, LocalsNamed, ShareOneToOne, OpenSfts, UsedFiles, InUse
<1>8. \A k \in UsedLocks : lockTable'[k] # lockTable[k] => lockTable[k].fileno = n
  BY <1>2, <1>4, <1>5 DEF HandleInv, Shapes, UsedLocks
<1>9. LockKeptOrGone
  BY <1>1, <1>8 DEF LockKeptOrGone
<1>10. QED
  BY <1>7, <1>9

(***************************************************************************)
(* Every step.                                                             *)
(***************************************************************************)
LEMMA HandleInvInit == HandlesInit => HandleInv
<1> SUFFICES ASSUME HandlesInit PROVE HandleInv
  OBVIOUS
<1>1. fileTable = [n \in FileNo |-> FreeEntry] /\ lockTable = [k \in LockNo |-> FreeLock]
  BY DEF HandlesInit, ShareInit
<1>2. sft = [s \in SftNo |-> FreeSft]
  BY DEF HandlesInit
<1>3. \A s \in SftNo : sft[s] = FreeSft
  BY <1>2
<1>4. Shapes
  BY <1>1, <1>2, <1>3 DEF Shapes, FreeSft
<1>5. OpenSfts = {}
  BY <1>3 DEF OpenSfts, FreeSft
<1>6. UsedFiles = {}
  BY <1>1 DEF UsedFiles, InUse, FreeEntry
<1>7. QED
  BY <1>4, <1>5, <1>6 DEF HandleInv, LocalsNamed, ShareOneToOne

LEMMA HandleStep ==
    ASSUME HandleInv, [HandlesNext]_allVars
    PROVE  HandleInv' /\ LockKeptOrGone
<1>0. LocksGoWithSft => LockKeptOrGone
  BY DEF LocksGoWithSft, LockKeptOrGone
<1>1. ASSUME NEW f, NEW m, NEW b, DosOpen(f, m, b)
      PROVE  HandleInv' /\ LockKeptOrGone
  BY <1>0, <1>1, DosOpenKeeps
<1>2. ASSUME NEW d, DosOpenDeviceFails(d)
      PROVE  HandleInv' /\ LockKeptOrGone
  BY <1>0, <1>2, FirstFreeSft, OpenDeviceKeeps, NoLockGoes DEF DosOpenDeviceFails
<1>3. ASSUME NEW h, DosClose(h)
      PROVE  HandleInv' /\ LockKeptOrGone
  <2>1. {jft[cu_psp][h]} \subseteq OpenSfts
    BY <1>3 DEF DosClose, Valid
  <2>2. QED
    BY <1>0, <1>3, <2>1, CloseOnceKeeps, FrameKeeps DEF DosClose
<1>4. ASSUME NEW h, DosDup(h)
      PROVE  HandleInv' /\ LockKeptOrGone
  BY <1>0, <1>4, CountUpKeeps DEF DosDup, Valid
<1>5. ASSUME NEW old, NEW new, DosForceDup(old, new)
      PROVE  HandleInv' /\ LockKeptOrGone
  BY <1>0, <1>5, DosForceDupKeeps
<1>6. ASSUME NEW f \in File, NEW m, FcbOpen(f, m)
      PROVE  HandleInv' /\ LockKeptOrGone
  BY <1>0, <1>6, FirstFreeSft, OpenLocalKeeps, NoLockGoes DEF FcbOpen
<1>7. ASSUME NEW s, FcbClose(s)
      PROVE  HandleInv' /\ LockKeptOrGone
  <2>1. {s} \subseteq OpenSfts
    BY <1>7 DEF FcbClose, OwnFcbs
  <2>2. QED
    BY <1>0, <1>7, <2>1, CloseOnceKeeps DEF FcbClose
<1>8. ASSUME NEW h \in Handle, NEW ofs, NEW len, DosLockUnlock(h, ofs, len)
      PROVE  HandleInv' /\ LockKeptOrGone
  BY <1>8, DosLockUnlockKeeps
<1>9. ASSUME NEW f, DosSetFattr(f)
      PROVE  HandleInv' /\ LockKeptOrGone
  <2>1. PICK fails : CloseSfts(Once({s \in OpenSfts : sft[s].file = f /\ s < fails}))
    BY <1>9 DEF DosSetFattr
  <2>2. QED
    BY <1>0, <2>1, CloseOnceKeeps
<1>10. ASSUME NEW p, NEW f, DosExec(p, f)
       PROVE  HandleInv' /\ LockKeptOrGone
  BY <1>0, <1>10, DosExecKeeps
<1>11. ASSUME NEW failed, NEW kept, Exit(failed, kept)
       PROVE  HandleInv' /\ LockKeptOrGone
  BY <1>0, <1>11, ExitKeeps
<1>12. ASSUME UNCHANGED <<sft, shareVars>>
       PROVE  HandleInv' /\ LockKeptOrGone
  BY <1>0, <1>12, FrameKeeps
<1>13. CASE \E n \in JftSizes : SetJFTSize(n)
  BY <1>12, <1>13 DEF SetJFTSize
<1>14. CASE KeepProgram
  BY <1>12, <1>14 DEF KeepProgram
<1>15. CASE UNCHANGED allVars
  BY <1>12, <1>15 DEF allVars, handleVars
<1>16. QED
  BY <1>1, <1>2, <1>3, <1>4, <1>5, <1>6, <1>7, <1>8, <1>9, <1>10, <1>11, <1>13, <1>14, <1>15
     DEF HandlesNext

(* Every open local SFT has a SHARE entry of its own for its file and      *)
(* every SHARE entry an open SFT, whatever calls fail (sft_shroff).        *)
THEOREM SharesAreOneToOne == HandlesSpec => []ShareOneToOne
<1>1. HandleInv /\ [HandlesNext]_allVars => HandleInv'
  BY HandleStep
<1>2. HandleInv => ShareOneToOne
  BY DEF HandleInv
<1>3. QED
  BY HandleInvInit, <1>1, <1>2, PTL DEF HandlesSpec

(* A lock goes by an unlock of a handle of its SFT, or with the last       *)
(* reference of that SFT, whatever the processes do and whatever fails.    *)
THEOREM LocksAreKept == HandlesSpec => LocksKept
<1>1. HandleInv /\ [HandlesNext]_allVars => HandleInv' /\ LockKeptOrGone
  BY HandleStep
<1>2. QED
  BY HandleInvInit, <1>1, PTL DEF HandlesSpec, LocksKept

(***************************************************************************)
(* The counts of SFTs.                                                     *)
(***************************************************************************)

(* The number of handles that name an SFT.                                 *)
N(s) == Cardinality(Refs(s))

(* The shape of the tables of processes.                                   *)
ProcessTypes ==
    /\ mix \in Mixes
    /\ jft \in [Psp -> [Handle -> SftNo \cup {NoSft}]]
    /\ maxfiles \in [Psp -> Nat]
    /\ parent = [p \in Psp |-> parent[p]]
    /\ IsFiniteSet(Live)

(* The processes that wait for the current one are live, different, and    *)
(* each the parent of the next: a process that ends returns to a live one. *)
Nest(n, a) ==
    /\ a[1] = Root /\ a[n] = cu_psp
    /\ \A i \in 1 .. n : a[i] \in Live
    /\ \A i, j \in 1 .. n : i # j => a[i] # a[j]
    /\ \A i \in 2 .. n : parent[a[i]] = a[i - 1]
Nested == \E n \in Nat \ {0} : \E a \in [1 .. n -> Psp] : Nest(n, a)

(* The books of one SFT.                                                   *)
Counted(s) ==
    /\ sft[s].fcb => sft[s].count = 1 /\ N(s) = 0
    /\ sft[s].count >= N(s)
    /\ Plain => sft[s].count = N(s) + (IF sft[s].fcb THEN 1 ELSE 0)

Books == KeepsAttributes => \A s \in SftNo : Counted(s)

CountInv == HandleInv /\ ProcessTypes /\ Nested /\ Books

(***************************************************************************)
(* What a step does to the number of references.                           *)
(***************************************************************************)
(* The current process is live.                                            *)
LEMMA CurrentIsLive ==
    ASSUME Nested
    PROVE  cu_psp \in Live /\ cu_psp \in Psp
<1>1. PICK n \in Nat \ {0} : \E a \in [1 .. n -> Psp] : Nest(n, a)
  BY DEF Nested
<1>2. QED
  BY <1>1 DEF Nest, Live

(* The references to an SFT are finitely many.                             *)
LEMMA RefsFinite ==
    ASSUME ProcessTypes
    PROVE  \A s : IsFiniteSet(Refs(s)) /\ N(s) \in Nat
<1>1. IsFiniteSet(Handle)
  BY HandlesAssumption, FS_Interval DEF Handle
<1>2. IsFiniteSet(Live \X Handle)
  BY <1>1, FS_Product DEF ProcessTypes
<1>3. \A s : Refs(s) \in SUBSET (Live \X Handle)
  BY DEF Refs
<1>4. QED
  BY <1>2, <1>3, FS_Subset, FS_CardinalityType DEF N

(* A handle of the current process is given another content.               *)
LEMMA HandleMoves ==
    ASSUME CountInv, NEW h \in Handle, h < maxfiles[cu_psp],
           NEW x \in SftNo \cup {NoSft}, x # jft[cu_psp][h],
           jft' = [jft EXCEPT ![cu_psp][h] = x], Process
    PROVE  /\ ProcessTypes' /\ Nested'
           /\ \A s \in SftNo : N(s)' = N(s) + (IF s = x THEN 1 ELSE 0)
                                            - (IF s = jft[cu_psp][h] THEN 1 ELSE 0)
<1>1. cu_psp \in Live /\ cu_psp \in Psp
  BY CurrentIsLive DEF CountInv
<1>2. ProcessTypes'
  <2>1. jft' \in [Psp -> [Handle -> SftNo \cup {NoSft}]]
    BY <1>1 DEF CountInv, ProcessTypes
  <2>2. QED
    BY <2>1 DEF CountInv, ProcessTypes, Process, Live
<1>3. Nested'
  BY DEF CountInv, Nested, Nest, Process, Live
<1>4. /\ jft'[cu_psp][h] = x
      /\ \A p \in Psp, i \in Handle : <<p, i>> # <<cu_psp, h>> => jft'[p][i] = jft[p][i]
  BY <1>1 DEF CountInv, ProcessTypes
<1>5. ASSUME NEW s \in SftNo
      PROVE  N(s)' = N(s) + (IF s = x THEN 1 ELSE 0) - (IF s = jft[cu_psp][h] THEN 1 ELSE 0)
  <2> DEFINE q == <<cu_psp, h>>
  <2>0. q \in Live \X Handle /\ q[1] = cu_psp /\ q[2] = h
    BY <1>1
  <2>1. Live' = Live /\ Live \subseteq Psp
    BY DEF Process, Live
  <2>2. IsFiniteSet(Refs(s)) /\ N(s) \in Nat
    BY RefsFinite DEF CountInv
  <2>3. \A r \in Live \X Handle : r # q => (r \in Refs(s)' <=> r \in Refs(s))
    <3>1. ASSUME NEW p \in Live, NEW i \in Handle, <<p, i>> # q
          PROVE  <<p, i>> \in Refs(s)' <=> <<p, i>> \in Refs(s)
      BY <1>4, <2>1, <3>1 DEF Refs, Process
    <3>2. QED
      BY <3>1
  <2>4. q \in Refs(s) <=> s = jft[cu_psp][h]
    BY <2>0 DEF Refs
  <2>5. q \in Refs(s)' <=> s = x
    BY <1>4, <2>0, <2>1 DEF Refs, Process
  <2>6. Refs(s) \subseteq Live \X Handle /\ Refs(s)' \subseteq Live \X Handle
    BY <2>1 DEF Refs
  <2> HIDE DEF q
  <2>7. CASE s = x
    <3>1. Refs(s)' = Refs(s) \cup {q} /\ q \notin Refs(s)
      BY <2>0, <2>3, <2>4, <2>5, <2>6, <2>7
    <3>2. N(s)' = N(s) + 1
      BY <2>2, <3>1, FS_AddElement DEF N
    <3>3. QED
      BY <2>7, <3>2, <2>2
  <2>8. CASE s = jft[cu_psp][h]
    <3>1. Refs(s)' = Refs(s) \ {q} /\ q \in Refs(s)
      BY <2>0, <2>3, <2>4, <2>5, <2>6, <2>8
    <3>2. N(s)' = N(s) - 1
      BY <2>2, <3>1, FS_RemoveElement DEF N
    <3>3. QED
      BY <2>8, <3>2, <2>2
  <2>9. CASE s # x /\ s # jft[cu_psp][h]
    <3>1. Refs(s)' = Refs(s)
      BY <2>0, <2>3, <2>4, <2>5, <2>6, <2>9
    <3>2. QED
      BY <2>9, <3>1, <2>2 DEF N
  <2>10. QED
    BY <2>7, <2>8, <2>9
<1>6. QED
  BY <1>2, <1>3, <1>5

(* No handle moves, and no process comes or goes.                          *)
LEMMA HandlesRest ==
    ASSUME CountInv, UNCHANGED jft, Process
    PROVE  /\ ProcessTypes' /\ Nested'
           /\ \A s \in SftNo : N(s)' = N(s)
<1>1. ProcessTypes'
  BY DEF CountInv, ProcessTypes, Process, Live
<1>2. Nested'
  BY DEF CountInv, Nested, Nest, Process, Live
<1>3. \A s : Refs(s)' = Refs(s)
  BY DEF Refs, Live, Process
<1>4. QED
  BY <1>1, <1>2, <1>3 DEF N

(* Another size of a handle table hides handles and shows none.            *)
LEMMA HandlesHide ==
    ASSUME CountInv, NEW n \in JftSizes, SetJFTSize(n)
    PROVE  /\ ProcessTypes' /\ Nested'
           /\ \A s \in SftNo : N(s)' <= N(s) /\ N(s)' \in Nat
<1>1. cu_psp \in Live /\ cu_psp \in Psp
  BY CurrentIsLive DEF CountInv
<1>2. n \in Nat
  BY HandlesAssumption
<1>3. /\ mix' = mix /\ parent' = parent /\ cu_psp' = cu_psp
      /\ maxfiles' = [maxfiles EXCEPT ![cu_psp] = n]
  BY DEF SetJFTSize
<1>4. jft' \in [Psp -> [Handle -> SftNo \cup {NoSft}]]
  <2>1. CASE n <= maxfiles[cu_psp]
    BY <2>1 DEF SetJFTSize, CountInv, ProcessTypes
  <2>2. CASE ~(n <= maxfiles[cu_psp])
    <3> DEFINE t == [h \in Handle |-> IF h < maxfiles[cu_psp] THEN jft[cu_psp][h] ELSE NoSft]
    <3>1. jft' = [jft EXCEPT ![cu_psp] = t]
      BY <2>2 DEF SetJFTSize
    <3>2. t \in [Handle -> SftNo \cup {NoSft}]
      BY <1>1 DEF CountInv, ProcessTypes
    <3> HIDE DEF t
    <3>3. QED
      BY <3>1, <3>2 DEF CountInv, ProcessTypes
  <2>3. QED
    BY <2>1, <2>2
<1>5. ProcessTypes'
  BY <1>1, <1>2, <1>3, <1>4 DEF CountInv, ProcessTypes, Live
<1>6. Nested'
  BY <1>3 DEF CountInv, Nested, Nest, Live
<1>7. ASSUME NEW s \in SftNo
      PROVE  Refs(s)' \subseteq Refs(s)
  <2>1. ASSUME NEW p \in Live, NEW h \in Handle, h < maxfiles'[p], jft'[p][h] = s
        PROVE  h < maxfiles[p] /\ jft[p][h] = s
    <3>1. p \in Psp
      BY DEF Live
    <3>2. CASE p # cu_psp
      BY <1>1, <1>3, <2>1, <3>1, <3>2 DEF SetJFTSize, CountInv, ProcessTypes
    <3>3. CASE p = cu_psp /\ n <= maxfiles[cu_psp]
      BY <1>1, <1>2, <1>3, <2>1, <3>3 DEF SetJFTSize, CountInv, ProcessTypes, Handle
    <3>4. CASE p = cu_psp /\ ~(n <= maxfiles[cu_psp])
      <4>1. jft'[p][h] = IF h < maxfiles[p] THEN jft[p][h] ELSE NoSft
        BY <1>1, <3>4 DEF SetJFTSize, CountInv, ProcessTypes
      <4>2. s # NoSft
        BY HandlesAssumption DEF SftNo, NoSft
      <4>3. QED
        BY <2>1, <4>1, <4>2
    <3>5. QED
      BY <3>2, <3>3, <3>4
  <2>2. Live' = Live
    BY <1>3 DEF Live
  <2>3. QED
    BY <2>1, <2>2 DEF Refs
<1>8. \A s \in SftNo : N(s)' <= N(s) /\ N(s)' \in Nat
  BY <1>7, RefsFinite, FS_Subset, FS_CardinalityType DEF N, CountInv
<1>9. QED
  BY <1>5, <1>6, <1>8

(* The handles a child inherits, one reference each.                       *)
Copies(s) == {h \in Inherited : jft[cu_psp][h] = s}

(* A child's references are those of the inherited handles.                *)
LEMMA ChildInherits ==
    ASSUME CountInv, NEW p \in Psp, NEW f, DosExec(p, f)
    PROVE  /\ ProcessTypes' /\ Nested'
           /\ \A s \in SftNo : Cardinality(Copies(s)) \in Nat /\ N(s)' = N(s) + Cardinality(Copies(s))
<1>1. cu_psp \in Live /\ cu_psp \in Psp /\ Live \subseteq Psp
  BY CurrentIsLive DEF CountInv, Live
<1> DEFINE t == [h \in Handle |-> IF h \in Inherited THEN jft[cu_psp][h] ELSE NoSft]
<1>2. /\ p \notin Live
      /\ cu_psp' = p /\ mix' = mix
      /\ parent' = [parent EXCEPT ![p] = cu_psp]
      /\ maxfiles' = [maxfiles EXCEPT ![p] = DefaultFiles]
      /\ jft' = [jft EXCEPT ![p] = t]
  BY DEF DosExec
<1>3. t \in [Handle -> SftNo \cup {NoSft}]
  BY <1>1 DEF CountInv, ProcessTypes
<1>4. \A h \in Handle, s \in SftNo : h < DefaultFiles /\ t[h] = s <=> h \in Copies(s)
  <2>1. \A s \in SftNo : s # NoSft
    BY HandlesAssumption DEF SftNo, NoSft
  <2>2. QED
    BY <2>1 DEF Copies, Inherited
<1> HIDE DEF t
<1>5. Live' = Live \cup {p}
  <2>1. cu_psp # NoPsp
    BY <1>1, HandlesAssumption
  <2>2. QED
    BY <1>2, <2>1 DEF Live, CountInv, ProcessTypes
<1>6. ProcessTypes'
  <2>1. IsFiniteSet(Live')
    BY <1>5, FS_AddElement DEF CountInv, ProcessTypes
  <2>2. jft' \in [Psp -> [Handle -> SftNo \cup {NoSft}]]
    BY <1>2, <1>3 DEF CountInv, ProcessTypes
  <2>3. maxfiles' \in [Psp -> Nat]
    BY <1>2, HandlesAssumption DEF CountInv, ProcessTypes
  <2>4. QED
    BY <1>2, <2>1, <2>2, <2>3 DEF CountInv, ProcessTypes
<1>7. Nested'
  <2>1. PICK n \in Nat \ {0} : \E a \in [1 .. n -> Psp] : Nest(n, a)
    BY DEF CountInv, Nested
  <2>2. PICK a \in [1 .. n -> Psp] : Nest(n, a)
    BY <2>1
  <2> DEFINE b == [i \in 1 .. n + 1 |-> IF i = n + 1 THEN p ELSE a[i]]
  <2>3. /\ b \in [1 .. n + 1 -> Psp] /\ n + 1 \in Nat \ {0}
        /\ b[n + 1] = p /\ \A i \in 1 .. n : b[i] = a[i]
    OBVIOUS
  <2> HIDE DEF b
  <2>4. \A i \in 1 .. n : a[i] # p /\ a[i] \in Live
    BY <1>2, <2>2 DEF Nest
  <2>5. b[1] = Root /\ b[n + 1] = cu_psp'
    BY <1>2, <2>2, <2>3 DEF Nest
  <2>6. \A i \in 1 .. n + 1 : b[i] \in Live'
    BY <1>5, <2>3, <2>4
  <2>7. \A i, j \in 1 .. n + 1 : i # j => b[i] # b[j]
    BY <2>2, <2>3, <2>4 DEF Nest
  <2>8. \A i \in 2 .. n + 1 : parent'[b[i]] = b[i - 1]
    <3>1. ASSUME NEW i \in 2 .. n + 1
          PROVE  parent'[b[i]] = b[i - 1]
      <4>1. CASE i = n + 1
        BY <1>2, <2>2, <2>3, <4>1 DEF Nest, CountInv, ProcessTypes
      <4>2. CASE i # n + 1
        <5>1. i \in 2 .. n /\ i \in 1 .. n /\ i - 1 \in 1 .. n
          BY <4>2
        <5>2. parent'[a[i]] = parent[a[i]]
          BY <1>2, <2>4, <5>1 DEF CountInv, ProcessTypes, Live
        <5>3. parent[a[i]] = a[i - 1]
          BY <2>2, <5>1 DEF Nest
        <5>4. QED
          BY <2>3, <5>1, <5>2, <5>3
      <4>3. QED
        BY <4>1, <4>2
    <3>2. QED
      BY <3>1
  <2>9. Nest(n + 1, b)'
    BY <2>5, <2>6, <2>7, <2>8 DEF Nest
  <2>10. QED
    BY <2>3, <2>9 DEF Nested
<1>8. ASSUME NEW s \in SftNo
      PROVE  Cardinality(Copies(s)) \in Nat /\ N(s)' = N(s) + Cardinality(Copies(s))
  <2> DEFINE New == {p} \X Copies(s)
  <2>0. Copies(s) \subseteq Handle
    BY DEF Copies, Inherited
  <2>1. IsFiniteSet(Copies(s)) /\ Cardinality(Copies(s)) \in Nat
    <3>1. IsFiniteSet(Handle)
      BY HandlesAssumption, FS_Interval DEF Handle
    <3>2. QED
      BY <2>0, <3>1, FS_Subset, FS_CardinalityType
  <2>2. IsFiniteSet(New) /\ Cardinality(New) = Cardinality(Copies(s))
    <3>1. IsFiniteSet({p}) /\ Cardinality({p}) = 1
      BY FS_Singleton
    <3>2. IsFiniteSet(New) /\ Cardinality(New) = Cardinality({p}) * Cardinality(Copies(s))
      BY <2>1, <3>1, FS_Product
    <3>3. QED
      BY <2>1, <3>1, <3>2
  <2>3. ASSUME NEW q \in Live, NEW h \in Handle
        PROVE  <<q, h>> \in Refs(s)' <=> <<q, h>> \in Refs(s)
    <3>1. q \in Psp /\ q # p
      BY <1>2 DEF Live
    <3>2. jft'[q] = jft[q] /\ maxfiles'[q] = maxfiles[q]
      BY <1>2, <3>1 DEF CountInv, ProcessTypes
    <3>3. QED
      BY <1>5, <3>2 DEF Refs
  <2>4. ASSUME NEW h \in Handle
        PROVE  <<p, h>> \in Refs(s)' <=> <<p, h>> \in New
    <3>1. jft'[p] = t /\ maxfiles'[p] = DefaultFiles
      BY <1>2 DEF CountInv, ProcessTypes
    <3>2. QED
      BY <1>4, <1>5, <3>1 DEF Refs
  <2>5. Refs(s)' = Refs(s) \cup New
    <3>1. Refs(s)' \subseteq (Live \cup {p}) \X Handle /\ Refs(s) \subseteq Live \X Handle
      BY <1>5 DEF Refs
    <3>2. New \subseteq {p} \X Handle
      BY <2>0
    <3>3. \A r \in Live \X Handle : (r \in Refs(s)' <=> r \in Refs(s)) /\ r \notin New
      BY <1>2, <2>3
    <3>4. \A r \in {p} \X Handle : (r \in Refs(s)' <=> r \in New) /\ r \notin Refs(s)
      BY <1>2, <2>4, <3>1
    <3> HIDE DEF New
    <3>5. QED
      BY <3>1, <3>2, <3>3, <3>4
  <2>6. Refs(s) \cap New = {}
    BY <1>2 DEF Refs
  <2>7. IsFiniteSet(Refs(s)) /\ N(s) \in Nat
    BY RefsFinite DEF CountInv
  <2> HIDE DEF New
  <2>8. Cardinality(Refs(s) \cup New) = Cardinality(Refs(s)) + Cardinality(New) - Cardinality({})
    BY <2>2, <2>6, <2>7, FS_Union
  <2>9. QED
    BY <2>1, <2>2, <2>5, <2>7, <2>8, FS_EmptySet DEF N
<1>9. QED
  BY <1>6, <1>7, <1>8

(* The current process returns to its parent, which is live.               *)
LEMMA Returns ==
    ASSUME CountInv, cu_psp # Root, cu_psp' = parent[cu_psp],
           \A p \in Live \ {cu_psp} : p \in Live' /\ parent'[p] = parent[p]
    PROVE  Nested'
<1>1. PICK n \in Nat \ {0} : \E a \in [1 .. n -> Psp] : Nest(n, a)
  BY DEF CountInv, Nested
<1>2. PICK a \in [1 .. n -> Psp] : Nest(n, a)
  BY <1>1
<1>3. n # 1
  BY <1>2 DEF Nest
<1> DEFINE b == [i \in 1 .. n - 1 |-> a[i]]
<1>4. n - 1 \in Nat \ {0} /\ b \in [1 .. n - 1 -> Psp] /\ \A i \in 1 .. n - 1 : b[i] = a[i]
  BY <1>3
<1> HIDE DEF b
<1>5. \A i \in 1 .. n - 1 : a[i] # cu_psp /\ a[i] \in Live
  BY <1>2 DEF Nest
<1>6. b[1] = Root /\ b[n - 1] = cu_psp'
  BY <1>2, <1>3, <1>4 DEF Nest
<1>7. \A i \in 1 .. n - 1 : b[i] \in Live'
  BY <1>4, <1>5
<1>8. \A i, j \in 1 .. n - 1 : i # j => b[i] # b[j]
  BY <1>2, <1>4 DEF Nest
<1>9. \A i \in 2 .. n - 1 : parent'[b[i]] = b[i - 1]
  <2>1. ASSUME NEW i \in 2 .. n - 1
        PROVE  parent'[b[i]] = b[i - 1]
    <3>1. i \in 1 .. n - 1 /\ i - 1 \in 1 .. n - 1 /\ i \in 2 .. n
      OBVIOUS
    <3>2. parent'[a[i]] = parent[a[i]]
      BY <1>5, <3>1
    <3>3. QED
      BY <1>2, <1>4, <3>1, <3>2 DEF Nest
  <2>2. QED
    BY <2>1
<1>10. Nest(n - 1, b)'
  BY <1>6, <1>7, <1>8, <1>9 DEF Nest
<1>11. QED
  BY <1>4, <1>10 DEF Nested

(* The handles of the current process that name an SFT.                    *)
Own(s) == {h \in Handle : h < maxfiles[cu_psp] /\ jft[cu_psp][h] = s}

(* The handles of a process end with it, and no others.                    *)
LEMMA ProcessEnds ==
    ASSUME CountInv, NEW failed, NEW kept, Exit(failed, kept)
    PROVE  /\ ProcessTypes' /\ Nested'
           /\ \A s \in SftNo : /\ Cardinality(Own(s)) \in Nat
                               /\ N(s)' = N(s) - Cardinality(Own(s))
<1>1. cu_psp \in Live /\ cu_psp \in Psp /\ Live \subseteq Psp
  BY CurrentIsLive DEF CountInv, Live
<1>2. /\ cu_psp # Root /\ cu_psp' = parent[cu_psp] /\ mix' = mix
      /\ jft' = [jft EXCEPT ![cu_psp] = [h \in Handle |-> NoSft]]
      /\ maxfiles' = [maxfiles EXCEPT ![cu_psp] = 0]
      /\ parent' = [parent EXCEPT ![cu_psp] = NoPsp]
  BY DEF Exit
<1>3. Live' = Live \ {cu_psp} /\ \A p \in Live \ {cu_psp} : parent'[p] = parent[p]
  BY <1>2 DEF Live, CountInv, ProcessTypes
<1>4. Nested'
  BY <1>2, <1>3, Returns
<1>5. ProcessTypes'
  <2>1. IsFiniteSet(Live')
    BY <1>3, FS_RemoveElement DEF CountInv, ProcessTypes
  <2>2. jft' \in [Psp -> [Handle -> SftNo \cup {NoSft}]]
    BY <1>2 DEF CountInv, ProcessTypes
  <2>3. maxfiles' \in [Psp -> Nat]
    BY <1>2 DEF CountInv, ProcessTypes
  <2>4. QED
    BY <1>2, <2>1, <2>2, <2>3 DEF CountInv, ProcessTypes
<1>6. ASSUME NEW s \in SftNo
      PROVE  Cardinality(Own(s)) \in Nat /\ N(s)' = N(s) - Cardinality(Own(s))
  <2> DEFINE Gone == {cu_psp} \X Own(s)
  <2>0. Own(s) \subseteq Handle
    BY DEF Own
  <2>1. IsFiniteSet(Own(s)) /\ Cardinality(Own(s)) \in Nat
    <3>1. IsFiniteSet(Handle)
      BY HandlesAssumption, FS_Interval DEF Handle
    <3>2. QED
      BY <2>0, <3>1, FS_Subset, FS_CardinalityType
  <2>2. IsFiniteSet(Gone) /\ Cardinality(Gone) = Cardinality(Own(s))
    <3>1. IsFiniteSet({cu_psp}) /\ Cardinality({cu_psp}) = 1
      BY FS_Singleton
    <3>2. IsFiniteSet(Gone) /\ Cardinality(Gone) = Cardinality({cu_psp}) * Cardinality(Own(s))
      BY <2>1, <3>1, FS_Product
    <3>3. QED
      BY <2>1, <3>1, <3>2
  <2>3. ASSUME NEW q \in Live \ {cu_psp}, NEW h \in Handle
        PROVE  <<q, h>> \in Refs(s)' <=> <<q, h>> \in Refs(s)
    <3>1. jft'[q] = jft[q] /\ maxfiles'[q] = maxfiles[q]
      BY <1>1, <1>2 DEF CountInv, ProcessTypes
    <3>2. QED
      BY <1>3, <3>1 DEF Refs
  <2>4. ASSUME NEW h \in Handle
        PROVE  <<cu_psp, h>> \in Refs(s) <=> <<cu_psp, h>> \in Gone
    BY <1>1 DEF Refs, Own
  <2>5. Refs(s) = Refs(s)' \cup Gone
    <3>1. Refs(s)' \subseteq (Live \ {cu_psp}) \X Handle /\ Refs(s) \subseteq Live \X Handle
      BY <1>3 DEF Refs
    <3>2. Gone \subseteq {cu_psp} \X Handle
      BY <2>0
    <3>3. \A r \in (Live \ {cu_psp}) \X Handle : (r \in Refs(s)' <=> r \in Refs(s)) /\ r \notin Gone
      BY <2>3
    <3>4. \A r \in {cu_psp} \X Handle : (r \in Refs(s) <=> r \in Gone) /\ r \notin Refs(s)'
      BY <2>4, <3>1
    <3> HIDE DEF Gone
    <3>5. \A r \in Live \X Handle : r \in (Live \ {cu_psp}) \X Handle \/ r \in {cu_psp} \X Handle
      OBVIOUS
    <3>6. {cu_psp} \X Handle \subseteq Live \X Handle
      BY <1>1
    <3>7. QED
      BY <3>1, <3>2, <3>3, <3>4, <3>5, <3>6
  <2>6. Refs(s)' \cap Gone = {}
    BY <1>3 DEF Refs
  <2>7. /\ IsFiniteSet(Refs(s)) /\ N(s) \in Nat
        /\ IsFiniteSet(Refs(s)') /\ N(s)' \in Nat
    <3>1. IsFiniteSet(Refs(s)) /\ N(s) \in Nat
      BY RefsFinite DEF CountInv
    <3>2. Refs(s)' \in SUBSET Refs(s)
      BY <2>5
    <3>3. QED
      BY <3>1, <3>2, FS_Subset, FS_CardinalityType DEF N
  <2> HIDE DEF Gone
  <2>8. Cardinality(Refs(s)' \cup Gone) = Cardinality(Refs(s)') + Cardinality(Gone) - Cardinality({})
    BY <2>2, <2>6, <2>7, FS_Union
  <2>9. QED
    BY <2>1, <2>2, <2>5, <2>7, <2>8, FS_EmptySet DEF N
<1>7. QED
  BY <1>4, <1>5, <1>6

(* The references of others stay.                                          *)
LEMMA ProcessLeaves ==
    ASSUME CountInv, NEW failed, NEW kept, Exit(failed, kept)
    PROVE  \A s \in SftNo : Refs(s)' \subseteq Refs(s)
<1>1. cu_psp \in Psp
  BY CurrentIsLive DEF CountInv
<1>2. /\ jft' = [jft EXCEPT ![cu_psp] = [h \in Handle |-> NoSft]]
      /\ maxfiles' = [maxfiles EXCEPT ![cu_psp] = 0]
      /\ parent' = [parent EXCEPT ![cu_psp] = NoPsp]
  BY DEF Exit
<1>3. Live' = Live \ {cu_psp} /\ Live \subseteq Psp
  BY <1>2 DEF Live, CountInv, ProcessTypes
<1>4. \A q \in Live \ {cu_psp} : jft'[q] = jft[q] /\ maxfiles'[q] = maxfiles[q]
  BY <1>1, <1>2, <1>3 DEF CountInv, ProcessTypes
<1>5. QED
  BY <1>3, <1>4 DEF Refs

(***************************************************************************)
(* What a step does to the counts.                                         *)
(***************************************************************************)
(* Closing: the counts go down, and an SFT that stays open stays itself.   *)
LEMMA CountsDrop ==
    ASSUME HandleInv, NEW dec,
           \A s \in SftNo : dec[s] \in Int /\ dec[s] <= sft[s].count,
           \A s \in FreeSfts : dec[s] = 0,
           CloseSfts(dec)
    PROVE  \A s \in SftNo :
              /\ sft'[s].count = sft[s].count - dec[s]
              /\ sft'[s].count = 0 /\ s \in OpenSfts => ~sft'[s].fcb
              /\ sft'[s].count > 0 \/ s \in FreeSfts =>
                    /\ sft'[s].file = sft[s].file /\ sft'[s].shroff = sft[s].shroff
                    /\ sft'[s].fcb = sft[s].fcb
<1> SUFFICES ASSUME NEW s \in SftNo
             PROVE  /\ sft'[s].count = sft[s].count - dec[s]
                    /\ sft'[s].count = 0 /\ s \in OpenSfts => ~sft'[s].fcb
                    /\ sft'[s].count > 0 \/ s \in FreeSfts =>
                          /\ sft'[s].file = sft[s].file /\ sft'[s].shroff = sft[s].shroff
                          /\ sft'[s].fcb = sft[s].fcb
  OBVIOUS
<1>0. sft[s].count \in Nat /\ dec[s] \in Int /\ dec[s] <= sft[s].count
  BY DEF HandleInv, Shapes
<1>1. CASE s \in OpenSfts /\ dec[s] = sft[s].count
  <2>1. sft'[s] = FreeSft
    BY <1>1 DEF CloseSfts
  <2>2. sft'[s].count = 0 /\ ~sft'[s].fcb
    BY <2>1 DEF FreeSft
  <2>3. QED
    BY <1>0, <1>1, <2>2 DEF FreeSfts
<1>2. CASE ~(s \in OpenSfts /\ dec[s] = sft[s].count)
  <2>1. sft'[s] = [sft[s] EXCEPT !.count = @ - dec[s]]
    BY <1>2 DEF CloseSfts
  <2>2. sft[s] = [count |-> sft[s].count, file |-> sft[s].file, shroff |-> sft[s].shroff,
                  psp |-> sft[s].psp, noinherit |-> sft[s].noinherit, fcb |-> sft[s].fcb]
    BY DEF HandleInv, Shapes
  <2>3. /\ sft'[s].count = sft[s].count - dec[s]
        /\ sft'[s].file = sft[s].file /\ sft'[s].shroff = sft[s].shroff
        /\ sft'[s].fcb = sft[s].fcb
    BY <2>1, <2>2
  <2>4. QED
    BY <1>0, <1>2, <2>3
<1>3. QED
  BY <1>1, <1>2

(***************************************************************************)
(* The books after a step.                                                 *)
(***************************************************************************)
(* A handle of the current process is a reference.                         *)
LEMMA HandleIsRef ==
    ASSUME CountInv, NEW h \in Handle, h < maxfiles[cu_psp], NEW s, jft[cu_psp][h] = s
    PROVE  N(s) \in Nat /\ N(s) >= 1
<1>1. <<cu_psp, h>> \in Refs(s)
  BY CurrentIsLive DEF CountInv, Refs
<1>2. IsFiniteSet(Refs(s)) /\ N(s) \in Nat
  BY RefsFinite DEF CountInv
<1>3. N(s) # 0
  BY <1>1, <1>2, FS_EmptySet DEF N
<1>4. QED
  BY <1>2, <1>3

(* Two handles are two references.                                         *)
LEMMA TwoHandles ==
    ASSUME CountInv, NEW h \in Handle, NEW i \in Handle, h # i,
           h < maxfiles[cu_psp], i < maxfiles[cu_psp], NEW s,
           jft[cu_psp][h] = s, jft[cu_psp][i] = s
    PROVE  N(s) >= 2
<1>1. <<cu_psp, h>> \in Refs(s) /\ <<cu_psp, i>> \in Refs(s) \ {<<cu_psp, h>>}
  BY CurrentIsLive DEF CountInv, Refs
<1>2. IsFiniteSet(Refs(s)) /\ N(s) \in Nat
  BY RefsFinite DEF CountInv
<1> DEFINE R == Refs(s) \ {<<cu_psp, h>>}
<1>3. IsFiniteSet(R) /\ Cardinality(R) = N(s) - 1 /\ Cardinality(R) \in Nat
  BY <1>1, <1>2, FS_RemoveElement, FS_CardinalityType DEF N
<1>4. Cardinality(R) # 0
  BY <1>1, <1>3, FS_EmptySet
<1> HIDE DEF R
<1>5. QED
  BY <1>2, <1>3, <1>4

(* The count of an SFT and its references change alike, or more            *)
(* references go than are counted.                                         *)
LEMMA Balance ==
    ASSUME CountInv, KeepsAttributes, mix' = mix, NEW s \in SftNo,
           NEW d \in Int, NEW e \in Int,
           sft'[s].count = sft[s].count + d, N(s)' = N(s) + e,
           d >= e, Plain => d = e,
           sft'[s].fcb = sft[s].fcb, sft[s].fcb => d = 0 /\ e = 0
    PROVE  Counted(s)'
<1>1. Counted(s) /\ sft[s].count \in Nat /\ N(s) \in Nat
  BY RefsFinite DEF CountInv, Books, HandleInv, Shapes
<1>2. Plain' = Plain
  BY DEF Plain
<1>3. /\ sft'[s].fcb => sft'[s].count = 1 /\ N(s)' = 0
      /\ sft'[s].count >= N(s)'
  BY <1>1 DEF Counted
<1>4. Plain => sft'[s].count = N(s)' + (IF sft'[s].fcb THEN 1 ELSE 0)
  BY <1>1 DEF Counted
<1>5. QED
  BY <1>2, <1>3, <1>4 DEF Counted

(* An SFT that is taken has had no reference.                              *)
LEMMA FreeHasNone ==
    ASSUME CountInv, KeepsAttributes
    PROVE  \A s \in FreeSfts : s \in SftNo /\ N(s) = 0 /\ sft[s].count = 0
<1>1. \A s \in SftNo : Counted(s) /\ sft[s].count \in Nat /\ N(s) \in Nat
  BY RefsFinite DEF CountInv, Books, HandleInv, Shapes
<1>2. QED
  BY <1>1 DEF FreeSfts, OpenSfts, Counted

(* A fresh SFT with its handle, or for an FCB without one.                 *)
LEMMA Opened ==
    ASSUME CountInv, KeepsAttributes, mix' = mix, NEW s0 \in FreeSfts, NEW r \in BOOLEAN,
           \A s \in SftNo : N(s)' = N(s) + (IF s = s0 /\ r THEN 1 ELSE 0),
           \A s \in SftNo \ {s0} : sft'[s] = sft[s],
           sft'[s0].count = 1, sft'[s0].fcb => ~r,
           Plain => (sft'[s0].fcb <=> ~r)
    PROVE  \A s \in SftNo : Counted(s)'
<1>1. N(s0) = 0 /\ s0 \in SftNo
  BY FreeHasNone
<1>2. Counted(s0)'
  <2>1. Plain' = Plain
    BY DEF Plain
  <2>2. N(s0)' = IF r THEN 1 ELSE 0
    BY <1>1
  <2>3. QED
    BY <2>1, <2>2 DEF Counted
<1>3. ASSUME NEW s \in SftNo \ {s0}
      PROVE  Counted(s)'
  <2>1. sft'[s] = sft[s] /\ N(s)' = N(s)
    BY RefsFinite DEF CountInv
  <2>2. Counted(s)
    BY DEF CountInv, Books
  <2>3. QED
    BY <2>1, <2>2 DEF Counted, Plain
<1>4. QED
  BY <1>2, <1>3

(* One SFT is written.                                                     *)
LEMMA SftWritten ==
    ASSUME HandleInv, NEW s0 \in FreeSfts, NEW x, sft' = [sft EXCEPT ![s0] = x]
    PROVE  sft'[s0] = x /\ \A s \in SftNo \ {s0} : sft'[s] = sft[s]
BY DEF HandleInv, Shapes, FreeSfts

(* An SFT that stays open stays the open of the same file.                 *)
Same(s) == sft'[s].file = sft[s].file /\ sft'[s].shroff = sft[s].shroff
Kept == \A s \in OpenSfts : sft'[s].count > 0 => Same(s)

(* The books and the processes after a step.                               *)
After == ProcessTypes' /\ Nested' /\ mix' = mix /\ (KeepsAttributes => \A s \in SftNo : Counted(s)')

(* A fresh SFT with one handle.                                            *)
LEMMA DosOpenBooks ==
    ASSUME CountInv, NEW f, NEW m, NEW b, DosOpen(f, m, b)
    PROVE  After /\ Kept
<1> DEFINE s0 == FirstOf(FreeSfts)
           h0 == FirstOf(FreeHandles)
<1>1. s0 \in FreeSfts
  BY FirstFreeSft DEF DosOpen
<1>2. h0 \in Handle /\ h0 < maxfiles[cu_psp] /\ jft[cu_psp][h0] = NoSft
  <2>1. FreeHandles # {} /\ FreeHandles \subseteq Nat
    BY HandlesAssumption DEF DosOpen, FreeHandles, Handle
  <2>2. h0 \in FreeHandles
    BY <2>1, FirstOfSet
  <2>3. QED
    BY <2>2 DEF FreeHandles
<1>3. jft' = [jft EXCEPT ![cu_psp][h0] = s0] /\ Process
  BY DEF DosOpen
<1> DEFINE c == FALSE
<1>4. \E n : sft' = [sft EXCEPT ![s0] = NewSft(f, n, b, c)]
  BY DEF DosOpen, OpenLocal, OpenDevice
<1>c. c = FALSE
  OBVIOUS
<1> HIDE DEF s0, h0, c
<1>5. s0 \in SftNo /\ s0 \notin OpenSfts /\ s0 # NoSft
  BY <1>1, HandlesAssumption DEF FreeSfts, SftNo, NoSft
<1>6. /\ ProcessTypes' /\ Nested'
      /\ \A s \in SftNo : N(s)' = N(s) + (IF s = s0 THEN 1 ELSE 0) - (IF s = NoSft THEN 1 ELSE 0)
  BY <1>2, <1>3, <1>5, HandleMoves, ZenonT(30)
<1>7. /\ \A s \in SftNo \ {s0} : sft'[s] = sft[s]
      /\ sft'[s0].count = 1 /\ sft'[s0].fcb = FALSE
  <2>1. PICK n : sft' = [sft EXCEPT ![s0] = NewSft(f, n, b, c)]
    BY <1>4
  <2>2. HandleInv
    BY DEF CountInv
  <2> DEFINE x == NewSft(f, n, b, c)
  <2>3. x.count = 1 /\ x.fcb = c
    BY DEF NewSft
  <2> HIDE DEF x
  <2>4. sft'[s0] = x /\ \A s \in SftNo \ {s0} : sft'[s] = sft[s]
    BY <1>1, <2>1, <2>2, SftWritten DEF x
  <2>5. QED
    BY <1>c, <2>3, <2>4
<1>8. Kept
  BY <1>5, <1>7 DEF Kept, Same, OpenSfts
<1>9. \A s \in SftNo : s # NoSft
  BY HandlesAssumption DEF SftNo, NoSft
<1>10. \A s \in SftNo : N(s)' = N(s) + (IF s = s0 /\ TRUE THEN 1 ELSE 0)
  BY <1>6, <1>9, RefsFinite DEF CountInv
<1>11. mix' = mix
  BY <1>3 DEF Process
<1>12. ASSUME KeepsAttributes PROVE \A s \in SftNo : Counted(s)'
  <2> DEFINE r == TRUE
  <2>1. /\ r \in BOOLEAN
        /\ \A s \in SftNo : N(s)' = N(s) + (IF s = s0 /\ r THEN 1 ELSE 0)
        /\ sft'[s0].fcb => ~r
        /\ sft'[s0].fcb <=> ~r
    BY <1>7, <1>10
  <2> HIDE DEF r
  <2>2. QED
    BY <1>1, <1>7, <1>11, <1>12, <2>1, Opened
<1>13. QED
  BY <1>6, <1>8, <1>11, <1>12 DEF After

(* A driver that refuses leaves a count without a handle.                  *)
LEMMA DeviceFailsBooks ==
    ASSUME CountInv, NEW d, DosOpenDeviceFails(d)
    PROVE  After /\ Kept
<1> DEFINE s0 == FirstOf(FreeSfts)
           c  == FALSE
<1>1. s0 \in FreeSfts
  BY FirstFreeSft DEF DosOpenDeviceFails
<1>2. /\ UNCHANGED jft /\ Process /\ mix.faults # {}
      /\ \E n : sft' = [sft EXCEPT ![s0] = NewSft(d, n, c, c)]
  BY DEF DosOpenDeviceFails, OpenDevice
<1>c. c = FALSE
  OBVIOUS
<1> HIDE DEF s0, c
<1>3. ProcessTypes' /\ Nested' /\ \A s \in SftNo : N(s)' = N(s)
  BY <1>2, HandlesRest
<1>4. /\ \A s \in SftNo \ {s0} : sft'[s] = sft[s]
      /\ sft'[s0].count = 1 /\ sft'[s0].fcb = FALSE
  <2>1. PICK n : sft' = [sft EXCEPT ![s0] = NewSft(d, n, c, c)]
    BY <1>2
  <2>2. HandleInv
    BY DEF CountInv
  <2> DEFINE x == NewSft(d, n, c, c)
  <2>3. x.count = 1 /\ x.fcb = c
    BY DEF NewSft
  <2> HIDE DEF x
  <2>4. sft'[s0] = x /\ \A s \in SftNo \ {s0} : sft'[s] = sft[s]
    BY <1>1, <2>1, <2>2, SftWritten DEF x
  <2>5. QED
    BY <1>c, <2>3, <2>4
<1>5. Kept
  BY <1>1, <1>4 DEF Kept, Same, OpenSfts, FreeSfts
<1>6. mix' = mix /\ ~Plain
  BY <1>2 DEF Process, Plain
<1>7. ASSUME KeepsAttributes PROVE \A s \in SftNo : Counted(s)'
  <2> DEFINE r == FALSE
  <2>1. /\ r \in BOOLEAN
        /\ \A s \in SftNo : N(s)' = N(s) + (IF s = s0 /\ r THEN 1 ELSE 0)
        /\ sft'[s0].fcb => ~r
    BY <1>3, <1>4, RefsFinite DEF CountInv
  <2> HIDE DEF r
  <2>2. QED
    BY <1>1, <1>4, <1>6, <1>7, <2>1, Opened
<1>8. QED
  BY <1>3, <1>5, <1>6, <1>7 DEF After

(* An FCB is counted without a handle.                                     *)
LEMMA FcbOpenBooks ==
    ASSUME CountInv, NEW f, NEW m, FcbOpen(f, m)
    PROVE  After /\ Kept
<1> DEFINE s0 == FirstOf(FreeSfts)
           c  == TRUE
<1>1. s0 \in FreeSfts
  BY FirstFreeSft DEF FcbOpen
<1>2. /\ UNCHANGED jft /\ Process
      /\ \E n : sft' = [sft EXCEPT ![s0] = NewSft(f, n, ~c, c)]
  BY DEF FcbOpen, OpenLocal
<1>c. c = TRUE
  OBVIOUS
<1> HIDE DEF s0, c
<1>3. ProcessTypes' /\ Nested' /\ \A s \in SftNo : N(s)' = N(s)
  BY <1>2, HandlesRest
<1>4. /\ \A s \in SftNo \ {s0} : sft'[s] = sft[s]
      /\ sft'[s0].count = 1 /\ sft'[s0].fcb = TRUE
  <2>1. PICK n : sft' = [sft EXCEPT ![s0] = NewSft(f, n, ~c, c)]
    BY <1>2
  <2>2. HandleInv
    BY DEF CountInv
  <2> DEFINE x == NewSft(f, n, ~c, c)
  <2>3. x.count = 1 /\ x.fcb = c
    BY DEF NewSft
  <2> HIDE DEF x
  <2>4. sft'[s0] = x /\ \A s \in SftNo \ {s0} : sft'[s] = sft[s]
    BY <1>1, <2>1, <2>2, SftWritten DEF x
  <2>5. QED
    BY <1>c, <2>3, <2>4
<1>5. Kept
  BY <1>1, <1>4 DEF Kept, Same, OpenSfts, FreeSfts
<1>6. mix' = mix
  BY <1>2 DEF Process
<1>7. ASSUME KeepsAttributes PROVE \A s \in SftNo : Counted(s)'
  <2> DEFINE r == FALSE
  <2>1. /\ r \in BOOLEAN
        /\ \A s \in SftNo : N(s)' = N(s) + (IF s = s0 /\ r THEN 1 ELSE 0)
        /\ sft'[s0].fcb => ~r
        /\ sft'[s0].fcb <=> ~r
    BY <1>3, <1>4, RefsFinite DEF CountInv
  <2> HIDE DEF r
  <2>2. QED
    BY <1>1, <1>4, <1>6, <1>7, <2>1, Opened
<1>8. QED
  BY <1>3, <1>5, <1>6, <1>7 DEF After

(* One reference is closed: the books of the other SFTs stay as they are.  *)
LEMMA CloseOneDrops ==
    ASSUME HandleInv, NEW s0 \in OpenSfts, CloseSfts(Once({s0}))
    PROVE  /\ Kept
           /\ \A s \in SftNo :
                 /\ sft'[s].count = sft[s].count - (IF s = s0 THEN 1 ELSE 0)
                 /\ s # s0 \/ sft'[s].count > 0 => sft'[s].fcb = sft[s].fcb
                 /\ s = s0 /\ sft'[s].count = 0 => ~sft'[s].fcb
<1> DEFINE dec == Once({s0})
<1>1. /\ \A s \in SftNo : dec[s] = IF s = s0 THEN 1 ELSE 0
      /\ s0 \in SftNo /\ s0 \notin FreeSfts /\ sft[s0].count > 0
      /\ \A s \in SftNo : sft[s].count \in Nat
      /\ \A s \in SftNo : s \in FreeSfts \/ (s \in OpenSfts /\ sft[s].count > 0)
  BY DEF Once, OpenSfts, FreeSfts, HandleInv, Shapes
<1> HIDE DEF dec
<1>2. /\ \A s \in SftNo : dec[s] \in Int /\ dec[s] <= sft[s].count
      /\ \A s \in FreeSfts : dec[s] = 0
  BY <1>1 DEF FreeSfts
<1>3. CloseSfts(dec)
  BY DEF dec
<1>4. \A s \in SftNo :
         /\ sft'[s].count = sft[s].count - dec[s]
         /\ sft'[s].count = 0 /\ s \in OpenSfts => ~sft'[s].fcb
         /\ sft'[s].count > 0 \/ s \in FreeSfts =>
               /\ sft'[s].file = sft[s].file /\ sft'[s].shroff = sft[s].shroff
               /\ sft'[s].fcb = sft[s].fcb
  BY <1>2, <1>3, CountsDrop
<1>5. Kept
  BY <1>4 DEF Kept, Same, OpenSfts
<1>6. ASSUME NEW s \in SftNo
      PROVE  /\ sft'[s].count = sft[s].count - (IF s = s0 THEN 1 ELSE 0)
             /\ s # s0 \/ sft'[s].count > 0 => sft'[s].fcb = sft[s].fcb
             /\ s = s0 /\ sft'[s].count = 0 => ~sft'[s].fcb
  <2>1. CASE s = s0
    BY <1>1, <1>4, <2>1
  <2>2. CASE s # s0
    <3>1. dec[s] = 0
      BY <1>1, <2>2
    <3>2. sft'[s].count > 0 \/ s \in FreeSfts
      BY <1>1, <1>4, <3>1
    <3>3. QED
      BY <1>4, <2>2, <3>1, <3>2
  <2>3. QED
    BY <2>1, <2>2
<1>7. QED
  BY <1>5, <1>6

(* A handle goes, and its reference with it unless the close fails.        *)
LEMMA DosCloseBooks ==
    ASSUME CountInv, NEW h \in Handle, DosClose(h)
    PROVE  After /\ Kept
<1> DEFINE s0 == jft[cu_psp][h]
<1>1. h < maxfiles[cu_psp] /\ s0 \in OpenSfts /\ s0 \in SftNo
  BY DEF DosClose, Valid, OpenSfts
<1>2. jft' = [jft EXCEPT ![cu_psp][h] = NoSft] /\ Process
  BY DEF DosClose
<1>3. CloseSfts(Once({s0})) \/ (sft' = sft /\ mix.faults # {})
  BY DEF DosClose, CloseMayFail
<1>n. \A s \in SftNo : s # NoSft
  BY HandlesAssumption DEF SftNo, NoSft
<1>4. /\ ProcessTypes' /\ Nested'
      /\ \A s \in SftNo : N(s)' = N(s) + (IF s = NoSft THEN 1 ELSE 0) - (IF s = jft[cu_psp][h] THEN 1 ELSE 0)
  BY <1>1, <1>2, <1>n, HandleMoves DEF NoSft
<1>5. N(s0) >= 1
  BY <1>1, HandleIsRef
<1> HIDE DEF s0
<1>6. \A s \in SftNo : N(s)' = N(s) + (IF s = s0 THEN -1 ELSE 0)
  BY <1>4, <1>n, RefsFinite DEF CountInv, s0
<1>7. mix' = mix
  BY <1>2 DEF Process
<1>8. CASE CloseSfts(Once({s0}))
  <2>1. /\ Kept
        /\ \A s \in SftNo :
              /\ sft'[s].count = sft[s].count - (IF s = s0 THEN 1 ELSE 0)
              /\ s # s0 \/ sft'[s].count > 0 => sft'[s].fcb = sft[s].fcb
              /\ s = s0 /\ sft'[s].count = 0 => ~sft'[s].fcb
    BY <1>1, <1>8, CloseOneDrops DEF CountInv
  <2>2. ASSUME KeepsAttributes, NEW s \in SftNo
        PROVE  Counted(s)'
    <3>1. Counted(s) /\ sft[s].count \in Nat /\ N(s) \in Nat
      BY <2>2, RefsFinite DEF CountInv, Books, HandleInv, Shapes
    <3>2. s = s0 => ~sft[s].fcb /\ ~sft'[s].fcb
      BY <1>5, <2>1, <3>1 DEF Counted
    <3>3. /\ sft'[s].fcb => sft'[s].count = 1 /\ N(s)' = 0
          /\ sft'[s].count >= N(s)'
      BY <1>6, <2>1, <3>1, <3>2 DEF Counted
    <3>4. Plain => sft'[s].count = N(s)' + (IF sft'[s].fcb THEN 1 ELSE 0)
      BY <1>6, <2>1, <3>1, <3>2 DEF Counted
    <3>5. QED
      BY <1>7, <3>3, <3>4 DEF Counted, Plain
  <2>3. QED
    BY <1>4, <1>7, <2>1, <2>2 DEF After
<1>9. CASE sft' = sft /\ mix.faults # {}
  <2>1. ASSUME KeepsAttributes, NEW s \in SftNo
        PROVE  Counted(s)'
    <3>1. Counted(s) /\ sft[s].count \in Nat /\ N(s) \in Nat
      BY <2>1, RefsFinite DEF CountInv, Books, HandleInv, Shapes
    <3>2. s = s0 => ~sft[s].fcb
      BY <1>5, <3>1 DEF Counted
    <3>3. QED
      BY <1>6, <1>7, <1>9, <3>1, <3>2 DEF Counted, Plain
  <2>2. QED
    BY <1>4, <1>7, <1>9, <2>1 DEF After, Kept, Same
<1>10. QED
  BY <1>3, <1>8, <1>9

(* One more handle of an SFT that has one already.                         *)
LEMMA CountUpBooks ==
    ASSUME CountInv, NEW h \in Handle, h < maxfiles[cu_psp], jft[cu_psp][h] = NoSft,
           NEW o \in Handle, Valid(cu_psp, o), CountUp(jft[cu_psp][o]),
           jft' = [jft EXCEPT ![cu_psp][h] = jft[cu_psp][o]], Process
    PROVE  After /\ Kept
<1> DEFINE s0 == jft[cu_psp][o]
<1>n. \A s \in SftNo : s # NoSft
  BY HandlesAssumption DEF SftNo, NoSft
<1>1. o < maxfiles[cu_psp] /\ s0 \in OpenSfts /\ s0 \in SftNo /\ s0 # NoSft
  BY <1>n DEF Valid, OpenSfts
<1>2. N(s0) >= 1
  BY <1>1, HandleIsRef
<1>3. sft' = [sft EXCEPT ![s0].count = @ + 1]
  BY DEF CountUp
<1> HIDE DEF s0
<1>4. jft' = [jft EXCEPT ![cu_psp][h] = s0]
  BY DEF s0
<1>5. /\ ProcessTypes' /\ Nested'
      /\ \A s \in SftNo : N(s)' = N(s) + (IF s = s0 THEN 1 ELSE 0)
                                        - (IF s = jft[cu_psp][h] THEN 1 ELSE 0)
  BY <1>1, <1>4, HandleMoves
<1>6. \A s \in SftNo : N(s)' = N(s) + (IF s = s0 THEN 1 ELSE 0)
  BY <1>5, <1>n, RefsFinite DEF CountInv
<1>7. mix' = mix
  BY DEF Process
<1>8. ASSUME NEW s \in SftNo
      PROVE  /\ sft'[s].count = sft[s].count + (IF s = s0 THEN 1 ELSE 0)
             /\ Same(s) /\ sft'[s].fcb = sft[s].fcb
  <2>0. sft[s] = [count |-> sft[s].count, file |-> sft[s].file, shroff |-> sft[s].shroff,
                  psp |-> sft[s].psp, noinherit |-> sft[s].noinherit, fcb |-> sft[s].fcb]
        /\ sft[s].count \in Nat
    BY DEF CountInv, HandleInv, Shapes
  <2>1. CASE s = s0
    <3>1. sft'[s] = [sft[s] EXCEPT !.count = @ + 1]
      BY <1>1, <1>3, <2>1 DEF CountInv, HandleInv, Shapes
    <3>2. QED
      BY <2>0, <2>1, <3>1 DEF Same
  <2>2. CASE s # s0
    <3>1. sft'[s] = sft[s]
      BY <1>1, <1>3, <2>2 DEF CountInv, HandleInv, Shapes
    <3>2. QED
      BY <2>0, <2>2, <3>1 DEF Same
  <2>3. QED
    BY <2>1, <2>2
<1>9. Kept
  BY <1>8 DEF Kept, OpenSfts
<1>10. ASSUME KeepsAttributes, NEW s \in SftNo
       PROVE  Counted(s)'
  <2>1. Counted(s) /\ sft[s].count \in Nat /\ N(s) \in Nat
    BY <1>10, RefsFinite DEF CountInv, Books, HandleInv, Shapes
  <2>2. s = s0 => ~sft[s].fcb
    BY <1>2, <2>1 DEF Counted
  <2> DEFINE d == IF s = s0 THEN 1 ELSE 0
  <2>3. d \in Int /\ d >= d /\ (sft[s].fcb => d = 0)
        /\ sft'[s].count = sft[s].count + d /\ N(s)' = N(s) + d /\ sft'[s].fcb = sft[s].fcb
    BY <1>6, <1>8, <2>2
  <2> HIDE DEF d
  <2>4. QED
    BY <1>7, <1>10, <2>3, Balance
<1>11. QED
  BY <1>5, <1>7, <1>9, <1>10 DEF After

(* The first free handle gets a reference of its own.                      *)
LEMMA DosDupBooks ==
    ASSUME CountInv, NEW h \in Handle, DosDup(h)
    PROVE  After /\ Kept
<1> DEFINE h0 == FirstOf(FreeHandles)
<1>1. h0 \in Handle /\ h0 < maxfiles[cu_psp] /\ jft[cu_psp][h0] = NoSft
  <2>1. FreeHandles # {} /\ FreeHandles \subseteq Nat
    BY HandlesAssumption DEF DosDup, FreeHandles, Handle
  <2>2. h0 \in FreeHandles
    BY <2>1, FirstOfSet
  <2>3. QED
    BY <2>2 DEF FreeHandles
<1>2. /\ jft' = [jft EXCEPT ![cu_psp][h0] = jft[cu_psp][h]] /\ Process
      /\ Valid(cu_psp, h) /\ CountUp(jft[cu_psp][h])
  BY DEF DosDup
<1> HIDE DEF h0
<1>3. QED
  BY <1>1, <1>2, CountUpBooks

(* The handle of an open SFT is given another open SFT: the one is closed  *)
(* once and the other counted up.                                          *)
LEMMA HandOver ==
    ASSUME CountInv, NEW old \in Handle, NEW new \in Handle,
           Valid(cu_psp, old), new < maxfiles[cu_psp],
           jft[cu_psp][new] \in OpenSfts \ {jft[cu_psp][old]},
           jft' = [jft EXCEPT ![cu_psp][new] = jft[cu_psp][old]], Process,
           CloseSfts([i \in SftNo |-> IF i = jft[cu_psp][new] THEN 1
                                      ELSE IF i = jft[cu_psp][old] THEN -1 ELSE 0])
    PROVE  After /\ Kept
<1> DEFINE s0  == jft[cu_psp][old]
           t0  == jft[cu_psp][new]
           dec == [i \in SftNo |-> IF i = t0 THEN 1 ELSE IF i = s0 THEN -1 ELSE 0]
<1>1. /\ old < maxfiles[cu_psp] /\ s0 \in OpenSfts /\ t0 \in OpenSfts /\ s0 # t0
      /\ s0 \in SftNo /\ t0 \in SftNo /\ s0 \notin FreeSfts /\ t0 \notin FreeSfts
  BY DEF Valid, OpenSfts, FreeSfts
<1>2. N(s0) >= 1 /\ N(t0) >= 1
  BY <1>1, HandleIsRef
<1>3. /\ ProcessTypes' /\ Nested'
      /\ \A s \in SftNo : N(s)' = N(s) + (IF s = s0 THEN 1 ELSE 0) - (IF s = t0 THEN 1 ELSE 0)
  BY <1>1, HandleMoves
<1>4. CloseSfts(dec)
  OBVIOUS
<1>5. /\ \A s \in SftNo : dec[s] \in Int /\ dec[s] = (IF s = t0 THEN 1 ELSE 0) - (IF s = s0 THEN 1 ELSE 0)
      /\ \A s \in FreeSfts : dec[s] = 0
  BY <1>1 DEF FreeSfts
<1> HIDE DEF s0, t0, dec
<1>6. \A s \in SftNo : sft[s].count \in Nat /\ (s \in FreeSfts \/ (s \in OpenSfts /\ sft[s].count > 0))
  BY DEF OpenSfts, FreeSfts, CountInv, HandleInv, Shapes
<1>7. \A s \in SftNo : dec[s] <= sft[s].count
  BY <1>1, <1>5, <1>6
<1>8. \A s \in SftNo :
         /\ sft'[s].count = sft[s].count - dec[s]
         /\ sft'[s].count = 0 /\ s \in OpenSfts => ~sft'[s].fcb
         /\ sft'[s].count > 0 \/ s \in FreeSfts =>
               /\ sft'[s].file = sft[s].file /\ sft'[s].shroff = sft[s].shroff
               /\ sft'[s].fcb = sft[s].fcb
  BY <1>4, <1>5, <1>7, CountsDrop DEF CountInv
<1>9. Kept
  BY <1>8 DEF Kept, Same, OpenSfts
<1>10. mix' = mix
  BY DEF Process
<1>11. ASSUME KeepsAttributes, NEW s \in SftNo
       PROVE  Counted(s)'
  <2>1. Counted(s) /\ sft[s].count \in Nat /\ N(s) \in Nat
    BY <1>6, <1>11, RefsFinite DEF CountInv, Books
  <2>2. s = s0 \/ s = t0 => ~sft[s].fcb
    BY <1>2, <2>1 DEF Counted
  <2>3. N(s)' = N(s) - dec[s] /\ sft'[s].count = sft[s].count - dec[s] /\ dec[s] \in Int
    BY <1>3, <1>5, <1>8, <2>1
  <2>4. CASE sft'[s].fcb = sft[s].fcb
    <3> DEFINE d == -dec[s]
    <3>1. d \in Int /\ d >= d /\ (sft[s].fcb => d = 0)
          /\ sft'[s].count = sft[s].count + d /\ N(s)' = N(s) + d
      BY <1>5, <2>1, <2>2, <2>3
    <3> HIDE DEF d
    <3>2. QED
      BY <1>10, <1>11, <2>4, <3>1, Balance
  <2>5. CASE sft'[s].fcb # sft[s].fcb
    <3>1. s \in OpenSfts /\ sft'[s].count = 0 /\ ~sft'[s].fcb /\ sft[s].count > 0
      BY <1>5, <1>6, <1>7, <1>8, <2>1, <2>5
    <3>2. s = t0
      <4>1. dec[s] > 0
        BY <2>3, <3>1, <2>1
      <4>2. dec[s] = (IF s = t0 THEN 1 ELSE 0) - (IF s = s0 THEN 1 ELSE 0)
        BY <1>5
      <4>3. QED
        BY <4>1, <4>2
    <3>3. ~sft[s].fcb
      BY <2>2, <3>2
    <3>4. sft'[s].count >= N(s)' /\ (Plain => sft'[s].count = N(s)')
      BY <2>1, <2>3, <3>1, <3>3 DEF Counted
    <3>5. QED
      BY <1>10, <2>1, <2>3, <3>1, <3>4 DEF Counted, Plain
  <2>6. QED
    BY <2>4, <2>5
<1>12. QED
  BY <1>3, <1>9, <1>10, <1>11 DEF After

(* A handle is dropped and its SFT stays counted: more is counted than     *)
(* there is.                                                               *)
LEMMA HandleLost ==
    ASSUME CountInv, NEW h \in Handle, Valid(cu_psp, h), ~Plain,
           jft' = [jft EXCEPT ![cu_psp][h] = NoSft], Process,
           \A s \in SftNo : sft'[s].count = sft[s].count /\ sft'[s].fcb = sft[s].fcb
    PROVE  After
<1> DEFINE s0 == jft[cu_psp][h]
<1>n. \A s \in SftNo : s # NoSft
  BY HandlesAssumption DEF SftNo, NoSft
<1>1. h < maxfiles[cu_psp] /\ s0 \in SftNo /\ s0 # NoSft
  BY <1>n DEF Valid, OpenSfts
<1>2. N(s0) >= 1
  BY <1>1, HandleIsRef
<1>3. /\ ProcessTypes' /\ Nested'
      /\ \A s \in SftNo : N(s)' = N(s) + (IF s = NoSft THEN 1 ELSE 0) - (IF s = jft[cu_psp][h] THEN 1 ELSE 0)
  BY <1>1, HandleMoves DEF NoSft
<1> HIDE DEF s0
<1>4. \A s \in SftNo : N(s)' = N(s) - (IF s = s0 THEN 1 ELSE 0)
  BY <1>3, <1>n, RefsFinite DEF CountInv, s0
<1>5. mix' = mix
  BY DEF Process
<1>6. ASSUME KeepsAttributes, NEW s \in SftNo
      PROVE  Counted(s)'
  <2>1. Counted(s) /\ sft[s].count \in Nat /\ N(s) \in Nat
    BY <1>6, RefsFinite DEF CountInv, Books, HandleInv, Shapes
  <2>2. s = s0 => ~sft[s].fcb
    BY <1>2, <2>1 DEF Counted
  <2>3. QED
    BY <1>4, <1>5, <2>1, <2>2 DEF Counted, Plain
<1>7. QED
  BY <1>3, <1>5, <1>6 DEF After

(* A handle is forced onto itself: it is dropped with its SHARE entry.     *)
SelfDropped(old) == jft'[cu_psp][old] # jft[cu_psp][old] /\ cu_psp' = cu_psp
                    /\ sft[jft[cu_psp][old]].count = 1 /\ Valid(cu_psp, old)

(* DosForceDup keeps the books; the SFT it takes a SHARE entry from is one  *)
(* whose only handle goes.                                                 *)
LEMMA DosForceDupBooks ==
    ASSUME CountInv, NEW old \in Handle, NEW new \in Handle, DosForceDup(old, new)
    PROVE  /\ After
           /\ KeepsAttributes => Kept \/ (SelfDropped(old) /\ \A s \in OpenSfts \ {jft[cu_psp][old]} : Same(s))
<1> DEFINE s == jft[cu_psp][old]
           t == jft[cu_psp][new]
           Moved == jft' = [jft EXCEPT ![cu_psp][new] = IF new = old THEN NoSft ELSE s]
<1>n. \A i \in SftNo : i # NoSft
  BY HandlesAssumption DEF SftNo, NoSft
<1>1. /\ Valid(cu_psp, old) /\ old < maxfiles[cu_psp] /\ new < maxfiles[cu_psp]
      /\ s \in OpenSfts /\ s \in SftNo /\ s # NoSft
      /\ Process /\ (new = old => "forcedup_self" \in mix.calls)
  BY <1>n DEF DosForceDup, Valid, OpenSfts
<1>2. \/ t = NoSft /\ Moved /\ CountUp(s)
      \/ /\ t \in OpenSfts \ {s} /\ Moved
         /\ CloseSfts([i \in SftNo |-> IF i = t THEN 1 ELSE IF i = s THEN -1 ELSE 0])
      \/ t = s /\ Moved /\ sft' = sft
      \/ t = s /\ sft[s].count = 1 /\ Moved /\ sft' = [sft EXCEPT ![s].shroff = -1]
      \/ t \in OpenSfts /\ CloseMayFail /\ jft' = [jft EXCEPT ![cu_psp][new] = NoSft] /\ sft' = sft
  BY DEF DosForceDup
<1>3. CASE t = NoSft /\ Moved /\ CountUp(s)
  BY <1>1, <1>3, CountUpBooks
<1>4. CASE /\ t \in OpenSfts \ {s} /\ Moved
           /\ CloseSfts([i \in SftNo |-> IF i = t THEN 1 ELSE IF i = s THEN -1 ELSE 0])
  BY <1>1, <1>4, HandOver
<1>5. CASE t = s /\ Moved /\ sft' = sft
  <2>1. CASE new = old
    BY <1>1, <1>5, <2>1, HandleLost DEF Plain, Kept, Same
  <2>2. CASE new # old
    <3>1. jft' = jft
      BY <1>1, <1>5, <2>2 DEF CountInv, ProcessTypes
    <3>2. After
      <4>1. ProcessTypes' /\ Nested' /\ (\A i \in SftNo : N(i)' = N(i)) /\ mix' = mix
        BY <1>1, <3>1, HandlesRest DEF Process
      <4>2. QED
        BY <1>5, <4>1 DEF After, Counted, CountInv, Books, Plain
    <3>3. QED
      BY <1>5, <3>2 DEF Kept, Same
  <2>3. QED
    BY <2>1, <2>2
<1>6. CASE t = s /\ sft[s].count = 1 /\ Moved /\ sft' = [sft EXCEPT ![s].shroff = -1]
  <2>1. ASSUME NEW i \in SftNo
        PROVE  /\ sft'[i].count = sft[i].count /\ sft'[i].fcb = sft[i].fcb
               /\ i # s => sft'[i] = sft[i]
    <3>0. sft[i] = [count |-> sft[i].count, file |-> sft[i].file, shroff |-> sft[i].shroff,
                    psp |-> sft[i].psp, noinherit |-> sft[i].noinherit, fcb |-> sft[i].fcb]
      BY DEF CountInv, HandleInv, Shapes
    <3>1. CASE i = s
      <4>1. sft'[i] = [sft[i] EXCEPT !.shroff = -1]
        BY <1>1, <1>6, <3>1 DEF CountInv, HandleInv, Shapes
      <4>2. QED
        BY <3>0, <3>1, <4>1
    <3>2. CASE i # s
      BY <1>1, <1>6, <3>2 DEF CountInv, HandleInv, Shapes
    <3>3. QED
      BY <3>1, <3>2
  <2>2. CASE new = old
    <3>1. After
      BY <1>1, <1>6, <2>1, <2>2, HandleLost DEF Plain
    <3>2. jft'[cu_psp][old] = NoSft
      BY <1>1, <1>6, <2>2, CurrentIsLive DEF CountInv, ProcessTypes
    <3>3. SelfDropped(old)
      BY <1>1, <1>6, <3>2 DEF SelfDropped, Process
    <3>4. \A i \in OpenSfts \ {s} : Same(i)
      BY <2>1 DEF OpenSfts, Same
    <3>5. QED
      BY <3>1, <3>3, <3>4
  <2>3. CASE new # old
    <3>1. N(s) >= 2 /\ N(s) \in Nat
      BY <1>1, <1>6, <2>3, TwoHandles, RefsFinite DEF CountInv
    <3>2. ~KeepsAttributes
      BY <1>1, <1>6, <3>1 DEF CountInv, Books, Counted
    <3>3. jft' = jft
      BY <1>1, <1>6, <2>3 DEF CountInv, ProcessTypes
    <3>4. ProcessTypes' /\ Nested' /\ mix' = mix
      BY <1>1, <3>3, HandlesRest DEF Process
    <3>5. QED
      BY <3>2, <3>4 DEF After
  <2>4. QED
    BY <2>2, <2>3
<1>7. CASE t \in OpenSfts /\ CloseMayFail /\ jft' = [jft EXCEPT ![cu_psp][new] = NoSft] /\ sft' = sft
  <2>1. Valid(cu_psp, new) /\ ~Plain
    BY <1>1, <1>7 DEF Valid, CloseMayFail, Plain
  <2>2. QED
    BY <1>1, <1>7, <2>1, HandleLost DEF Kept, Same
<1>8. QED
  BY <1>2, <1>3, <1>4, <1>5, <1>6, <1>7

(* Closing an FCB: it has no handle.                                       *)
LEMMA FcbCloseBooks ==
    ASSUME CountInv, NEW s0, FcbClose(s0)
    PROVE  After /\ Kept
<1>1. s0 \in OpenSfts /\ s0 \in SftNo /\ sft[s0].fcb /\ CloseSfts(Once({s0})) /\ UNCHANGED jft /\ Process
  BY DEF FcbClose, OwnFcbs, OpenSfts
<1>2. ProcessTypes' /\ Nested' /\ (\A s \in SftNo : N(s)' = N(s)) /\ mix' = mix
  BY <1>1, HandlesRest DEF Process
<1>3. /\ Kept
      /\ \A s \in SftNo :
            /\ sft'[s].count = sft[s].count - (IF s = s0 THEN 1 ELSE 0)
            /\ s # s0 \/ sft'[s].count > 0 => sft'[s].fcb = sft[s].fcb
            /\ s = s0 /\ sft'[s].count = 0 => ~sft'[s].fcb
  BY <1>1, CloseOneDrops DEF CountInv
<1>4. ASSUME KeepsAttributes, NEW s \in SftNo
      PROVE  Counted(s)'
  <2>1. Counted(s) /\ sft[s].count \in Nat
    BY <1>4 DEF CountInv, Books, HandleInv, Shapes
  <2>2. CASE s = s0
    <3>1. sft'[s].count = 0 /\ N(s)' = 0 /\ ~sft'[s].fcb
      BY <1>1, <1>2, <1>3, <2>1, <2>2 DEF Counted
    <3>2. QED
      BY <3>1 DEF Counted
  <2>3. CASE s # s0
    <3>1. sft'[s].count = sft[s].count /\ sft'[s].fcb = sft[s].fcb
      BY <1>3, <2>1, <2>3
    <3>2. QED
      BY <1>2, <2>1, <3>1 DEF Counted, Plain
  <2>4. QED
    BY <2>2, <2>3
<1>5. QED
  BY <1>2, <1>3, <1>4 DEF After

(* A child's handles are counted, and it inherits no FCB file.             *)
LEMMA DosExecBooks ==
    ASSUME CountInv, NEW p \in Psp, NEW f, DosExec(p, f)
    PROVE  After /\ Kept
<1>1. sft' = [s \in SftNo |-> [sft[s] EXCEPT !.count = sft[s].count + Cardinality(Copies(s))]]
      /\ mix' = mix
  BY DEF DosExec, Copies
<1>2. /\ ProcessTypes' /\ Nested'
      /\ \A s \in SftNo : Cardinality(Copies(s)) \in Nat /\ N(s)' = N(s) + Cardinality(Copies(s))
  BY ChildInherits
<1>3. ASSUME NEW s \in SftNo
      PROVE  /\ sft'[s].count = sft[s].count + Cardinality(Copies(s))
             /\ Same(s) /\ sft'[s].fcb = sft[s].fcb
  <2>1. sft[s] = [count |-> sft[s].count, file |-> sft[s].file, shroff |-> sft[s].shroff,
                  psp |-> sft[s].psp, noinherit |-> sft[s].noinherit, fcb |-> sft[s].fcb]
    BY DEF CountInv, HandleInv, Shapes
  <2> DEFINE c == sft[s].count + Cardinality(Copies(s))
  <2>2. sft'[s] = [sft[s] EXCEPT !.count = c]
    BY <1>1
  <2> HIDE DEF c
  <2>3. sft'[s].count = c /\ Same(s) /\ sft'[s].fcb = sft[s].fcb
    BY <2>1, <2>2 DEF Same
  <2>4. QED
    BY <2>3 DEF c
<1>4. ASSUME NEW s \in SftNo, KeepsAttributes, sft[s].fcb
      PROVE  Cardinality(Copies(s)) = 0
  <2>1. N(s) = 0
    BY <1>4 DEF CountInv, Books, Counted
  <2>2. \A h \in Copies(s) : h \in Handle /\ h < maxfiles[cu_psp] /\ jft[cu_psp][h] = s
    BY DEF Copies, Inherited, Valid
  <2>3. Copies(s) = {}
    BY <2>1, <2>2, HandleIsRef
  <2>4. QED
    BY <2>3, FS_EmptySet
<1>5. ASSUME KeepsAttributes, NEW s \in SftNo
      PROVE  Counted(s)'
  <2> DEFINE d == Cardinality(Copies(s))
  <2>1. d \in Int /\ d >= d /\ (sft[s].fcb => d = 0)
        /\ sft'[s].count = sft[s].count + d /\ N(s)' = N(s) + d /\ sft'[s].fcb = sft[s].fcb
    BY <1>2, <1>3, <1>4, <1>5
  <2> HIDE DEF d
  <2>2. QED
    BY <1>1, <1>5, <2>1, Balance
<1>6. QED
  BY <1>1, <1>2, <1>3, <1>5 DEF After, Kept, OpenSfts

(* The end of a process closes each of its references once.                *)
LEMMA ExitBooks ==
    ASSUME CountInv, NEW failed, NEW kept, Exit(failed, kept)
    PROVE  After /\ Kept
<1> DEFINE Mine == {h \in Handle : Valid(cu_psp, h)} \ failed
           n    == [s \in SftNo |-> Cardinality({h \in Mine : jft[cu_psp][h] = s})]
           dec1 == [s \in SftNo |-> IF n[s] < sft[s].count THEN n[s] ELSE sft[s].count]
           Fcbs == FcbCloseAll([s \in SftNo |-> sft[s].count - dec1[s]])
           dec  == [s \in SftNo |-> dec1[s] + Once(Fcbs \ kept)[s]]
<1>1. CloseSfts(dec) /\ mix' = mix /\ (failed \cup kept # {} => mix.faults # {})
  BY DEF Exit, CloseMayFail
<1>2. /\ ProcessTypes' /\ Nested'
      /\ \A s \in SftNo : Cardinality(Own(s)) \in Nat /\ N(s)' = N(s) - Cardinality(Own(s))
  BY ProcessEnds
<1>3. ASSUME NEW s \in SftNo
      PROVE  /\ n[s] \in Nat /\ n[s] <= Cardinality(Own(s))
             /\ failed = {} /\ s \in OpenSfts => n[s] = Cardinality(Own(s))
  <2> DEFINE C == {h \in Mine : jft[cu_psp][h] = s}
  <2>1. n[s] = Cardinality(C)
    OBVIOUS
  <2>2. C \subseteq Own(s) /\ (failed = {} /\ s \in OpenSfts => C = Own(s))
    BY DEF Own, Valid
  <2>3. IsFiniteSet(Own(s))
    <3>1. IsFiniteSet(Handle) /\ Own(s) \subseteq Handle
      BY HandlesAssumption, FS_Interval DEF Handle, Own
    <3>2. QED
      BY <3>1, FS_Subset
  <2> HIDE DEF C, n
  <2>4. Cardinality(C) \in Nat /\ Cardinality(C) <= Cardinality(Own(s))
    BY <2>2, <2>3, FS_Subset, FS_CardinalityType
  <2>5. QED
    BY <2>1, <2>2, <2>4
<1> HIDE DEF n
<1>4. \A s \in SftNo : /\ sft[s].count \in Nat /\ dec1[s] \in Nat /\ dec1[s] <= sft[s].count
                       /\ dec1[s] <= n[s]
                       /\ n[s] <= sft[s].count => dec1[s] = n[s]
  BY <1>3 DEF CountInv, HandleInv, Shapes
<1> HIDE DEF dec1
<1>5. \A s \in Fcbs : s \in OpenSfts /\ s \in SftNo /\ sft[s].count - dec1[s] > 0 /\ sft[s].fcb
  <2>1. ASSUME NEW s \in Fcbs
        PROVE  s \in OpenSfts /\ s \in SftNo /\ sft[s].count - dec1[s] > 0 /\ sft[s].fcb
    <3>1. s \in OpenSfts /\ s \in SftNo /\ s \in 0 .. s /\ sft[s].fcb
      BY HandlesAssumption DEF FcbCloseAll, OwnFcbs, OpenSfts, SftNo
    <3>2. [i \in SftNo |-> sft[i].count - dec1[i]][s] > 0
      BY <3>1 DEF FcbCloseAll
    <3>3. QED
      BY <3>1, <3>2
  <2>2. QED
    BY <2>1
<1> HIDE DEF Fcbs
<1>6. \A s \in SftNo : dec[s] = dec1[s] + (IF s \in Fcbs \ kept THEN 1 ELSE 0)
  BY DEF Once
<1> HIDE DEF dec
<1>7. \A s \in SftNo : dec[s] \in Int /\ dec[s] <= sft[s].count
  BY <1>4, <1>5, <1>6
<1>8. \A s \in SftNo : s \in FreeSfts \/ (s \in OpenSfts /\ sft[s].count > 0)
  BY DEF FreeSfts, OpenSfts
<1>9. \A s \in FreeSfts : s \in SftNo /\ sft[s].count = 0 /\ dec[s] = 0
  BY <1>4, <1>5, <1>6 DEF FreeSfts, OpenSfts
<1>10. \A s \in SftNo :
         /\ sft'[s].count = sft[s].count - dec[s]
         /\ sft'[s].count = 0 /\ s \in OpenSfts => ~sft'[s].fcb
         /\ sft'[s].count > 0 \/ s \in FreeSfts =>
               /\ sft'[s].file = sft[s].file /\ sft'[s].shroff = sft[s].shroff
               /\ sft'[s].fcb = sft[s].fcb
  BY <1>1, <1>7, <1>9, CountsDrop DEF CountInv
<1>11. Kept
  BY <1>10 DEF Kept, Same, OpenSfts
<1>12. ASSUME KeepsAttributes, NEW s \in SftNo
       PROVE  Counted(s)'
  <2>1. Counted(s) /\ sft[s].count \in Nat /\ N(s) \in Nat /\ N(s)' \in Nat
    <3>1. ProcessTypes'
      BY <1>2
    <3>2. N(s) \in Nat /\ Cardinality(Own(s)) \in Nat
      BY <1>2, RefsFinite DEF CountInv
    <3>3. N(s)' \in Nat
      <4>1. Refs(s)' \in SUBSET Refs(s)
        BY ProcessLeaves
      <4>2. QED
        BY <4>1, RefsFinite, FS_Subset, FS_CardinalityType DEF N, CountInv
    <3>4. QED
      BY <1>4, <1>12, <3>2, <3>3 DEF CountInv, Books
  <2>2. dec1[s] = n[s]
    BY <1>2, <1>3, <1>4, <2>1 DEF Counted
  <2>3. CASE sft[s].fcb
    <3>1. sft[s].count = 1 /\ N(s) = 0 /\ N(s)' = 0 /\ n[s] = 0
      BY <1>2, <1>3, <2>1, <2>3 DEF Counted
    <3>2. sft'[s].count = 1 \/ sft'[s].count = 0
      BY <1>6, <1>10, <2>2, <3>1
    <3>3. s \in OpenSfts
      BY <3>1 DEF OpenSfts
    <3>4. CASE sft'[s].count = 1
      <4>1. sft'[s].fcb = sft[s].fcb
        BY <1>10, <3>4
      <4>2. Plain' = Plain /\ Counted(s)
        BY <1>1, <2>1 DEF Plain
      <4>3. QED
        BY <2>3, <3>1, <3>4, <4>1, <4>2 DEF Counted
    <3>5. CASE sft'[s].count = 0
      <4>1. ~sft'[s].fcb
        BY <1>10, <3>3, <3>5
      <4>2. QED
        BY <3>1, <3>5, <4>1 DEF Counted
    <3>6. QED
      BY <3>2, <3>4, <3>5
  <2>4. CASE ~sft[s].fcb
    <3>1. dec[s] = n[s]
      BY <1>3, <1>5, <1>6, <2>2, <2>4
    <3>2. ~sft'[s].fcb
      <4>1. sft'[s].count \in Nat
        BY <1>7, <1>10, <2>1
      <4>2. QED
        BY <1>8, <1>10, <2>4, <4>1
    <3>3. sft'[s].count >= N(s)'
      BY <1>2, <1>3, <1>10, <2>1, <3>1 DEF Counted
    <3>4. Plain => sft'[s].count = N(s)'
      <4>1. ASSUME Plain PROVE n[s] = Cardinality(Own(s))
        <5>1. failed = {}
          BY <1>1, <4>1 DEF Plain
        <5>2. CASE s \in OpenSfts
          BY <1>3, <5>1, <5>2
        <5>3. CASE s \in FreeSfts
          BY <1>2, <1>3, <1>9, <2>1, <5>3 DEF Counted
        <5>4. QED
          BY <1>8, <5>2, <5>3
      <4>2. QED
        BY <1>2, <1>10, <2>1, <2>4, <3>1, <4>1 DEF Counted
    <3>5. Plain' => sft'[s].count = N(s)' + (IF sft'[s].fcb THEN 1 ELSE 0)
      <4>1. Plain' = Plain
        BY <1>1 DEF Plain
      <4>2. N(s)' + (IF sft'[s].fcb THEN 1 ELSE 0) = N(s)'
        BY <2>1, <3>2
      <4>3. QED
        BY <3>4, <4>1, <4>2
    <3>6. QED
      BY <3>2, <3>3, <3>5 DEF Counted
  <2>5. QED
    BY <2>3, <2>4
<1>13. QED
  BY <1>1, <1>2, <1>11, <1>12 DEF After

(***************************************************************************)
(* Every step.                                                             *)
(***************************************************************************)
(* What HandlesStayOpen says of a step.                                    *)
StayOpen ==
    KeepsAttributes => \A p \in Live, h \in Handle :
        /\ Valid(p, h) /\ jft'[p][h] = jft[p][h] /\ p \in Live'
        => LET s == jft[p][h] IN
           sft'[s].count > 0 /\ sft'[s].file = sft[s].file /\ sft'[s].shroff = sft[s].shroff

(* A handle that stays is a reference after the step, so the count of its  *)
(* SFT cannot be 0.                                                        *)
LEMMA StillCounted ==
    ASSUME CountInv, HandleInv', After, KeepsAttributes, NEW p \in Live, NEW h \in Handle,
           Valid(p, h), p \in Live', maxfiles'[p] = maxfiles[p], jft'[p][h] = jft[p][h]
    PROVE  sft'[jft[p][h]].count > 0
<1> DEFINE s == jft[p][h]
<1>1. s \in OpenSfts /\ s \in SftNo /\ h < maxfiles'[p]
  BY DEF Valid, OpenSfts
<1>2. <<p, h>> \in Refs(s)'
  BY <1>1 DEF Refs
<1>3. IsFiniteSet(Refs(s)') /\ N(s)' \in Nat
  <2>1. IsFiniteSet(Handle)
    BY HandlesAssumption, FS_Interval DEF Handle
  <2>2. IsFiniteSet(Live' \X Handle)
    BY <2>1, FS_Product DEF After, ProcessTypes
  <2>3. Refs(s)' \in SUBSET (Live' \X Handle)
    BY DEF Refs
  <2>4. QED
    BY <2>2, <2>3, FS_Subset, FS_CardinalityType DEF N
<1>4. N(s)' # 0
  BY <1>2, <1>3, FS_EmptySet DEF N
<1>5. sft'[s].count >= N(s)' /\ sft'[s].count \in Nat
  BY <1>1 DEF After, Counted, HandleInv, Shapes
<1> HIDE DEF s
<1>6. sft'[s].count > 0
  BY <1>3, <1>4, <1>5
<1>7. QED
  BY <1>6 DEF s

(* So all handles that stay keep their files.                              *)
LEMMA BooksKeepOpen ==
    ASSUME CountInv, HandleInv', After, Kept,
           \A p \in Live \cap Live' : maxfiles'[p] = maxfiles[p]
    PROVE  StayOpen
<1> SUFFICES ASSUME KeepsAttributes, NEW p \in Live, NEW h \in Handle, p \in Live',
                    Valid(p, h), jft'[p][h] = jft[p][h]
             PROVE  sft'[jft[p][h]].count > 0 /\ Same(jft[p][h])
  BY DEF StayOpen, Same
<1>1. sft'[jft[p][h]].count > 0
  BY StillCounted
<1>2. QED
  BY <1>1 DEF Kept, Valid

(* A step that leaves the SFTs alone keeps every handle's file.            *)
LEMMA SftsKeepOpen ==
    ASSUME sft' = sft
    PROVE  StayOpen
BY DEF StayOpen, Valid, OpenSfts

(* Nothing is open at the start, and the root process is alone.            *)
LEMMA CountInvInit == HandlesInit => CountInv
<1> SUFFICES ASSUME HandlesInit PROVE CountInv
  OBVIOUS
<1>1. /\ mix \in Mixes /\ cu_psp = Root
      /\ parent = [p \in Psp |-> IF p = Root THEN Root ELSE NoPsp]
      /\ maxfiles = [p \in Psp |-> IF p = Root THEN DefaultFiles ELSE 0]
      /\ jft = [p \in Psp |-> [h \in Handle |-> NoSft]]
      /\ sft = [s \in SftNo |-> FreeSft]
  BY DEF HandlesInit
<1>2. Live = {Root} /\ Root \in Psp
  BY <1>1, HandlesAssumption DEF Live
<1>3. ProcessTypes
  <2>1. IsFiniteSet(Live)
    BY <1>2, FS_Singleton
  <2>2. QED
    BY <1>1, <2>1, HandlesAssumption DEF ProcessTypes
<1>4. Nested
  <2> DEFINE a == [i \in 1 .. 1 |-> Root]
  <2>1. a \in [1 .. 1 -> Psp] /\ Nest(1, a)
    BY <1>1, <1>2 DEF Nest
  <2> HIDE DEF a
  <2>2. 1 \in Nat \ {0}
    OBVIOUS
  <2>3. QED
    BY <2>1, <2>2 DEF Nested
<1>5. ASSUME NEW s \in SftNo
      PROVE  Counted(s)
  <2>1. sft[s] = FreeSft
    BY <1>1
  <2>2. sft[s].count = 0 /\ ~sft[s].fcb
    BY <2>1 DEF FreeSft
  <2>3. Refs(s) = {}
    <3>1. \A p \in Live, h \in Handle : jft[p][h] = NoSft
      BY <1>1, <1>2
    <3>2. s # NoSft
      BY HandlesAssumption DEF SftNo, NoSft
    <3>3. QED
      BY <3>1, <3>2 DEF Refs
  <2>4. N(s) = 0
    BY <2>3, FS_EmptySet DEF N
  <2>5. QED
    BY <2>2, <2>4 DEF Counted
<1>6. QED
  BY <1>3, <1>4, <1>5, HandleInvInit DEF CountInv, Books

(* Every call keeps the books and the files of the handles that stay.      *)
LEMMA CountStep ==
    ASSUME CountInv, [HandlesNext]_allVars
    PROVE  CountInv' /\ StayOpen
<1>0. HandleInv'
  BY HandleStep DEF CountInv
<1>1. ASSUME After PROVE CountInv'
  BY <1>0, <1>1 DEF After, CountInv, Books, KeepsAttributes
<1>2. ASSUME After, Kept, maxfiles' = maxfiles
      PROVE  CountInv' /\ StayOpen
  BY <1>0, <1>1, <1>2, BooksKeepOpen
<1>3. ASSUME After, sft' = sft
      PROVE  CountInv' /\ StayOpen
  BY <1>1, <1>3, SftsKeepOpen
<1>4. ASSUME NEW f, NEW m, NEW b, DosOpen(f, m, b)
      PROVE  CountInv' /\ StayOpen
  BY <1>2, <1>4, DosOpenBooks DEF DosOpen, Process
<1>5. ASSUME NEW d, DosOpenDeviceFails(d)
      PROVE  CountInv' /\ StayOpen
  BY <1>2, <1>5, DeviceFailsBooks DEF DosOpenDeviceFails, Process
<1>6. ASSUME NEW h \in Handle, DosClose(h)
      PROVE  CountInv' /\ StayOpen
  BY <1>2, <1>6, DosCloseBooks DEF DosClose, Process
<1>7. ASSUME NEW h \in Handle, DosDup(h)
      PROVE  CountInv' /\ StayOpen
  BY <1>2, <1>7, DosDupBooks DEF DosDup, Process
<1>8. ASSUME NEW old \in Handle, NEW new \in Handle, DosForceDup(old, new)
      PROVE  CountInv' /\ StayOpen
  <2>1. /\ After /\ maxfiles' = maxfiles
        /\ KeepsAttributes => Kept \/ (SelfDropped(old) /\ \A s \in OpenSfts \ {jft[cu_psp][old]} : Same(s))
    BY <1>8, DosForceDupBooks DEF DosForceDup, Process
  <2>2. CASE ~KeepsAttributes
    BY <1>1, <2>1, <2>2 DEF StayOpen
  <2>3. CASE Kept
    BY <1>2, <2>1, <2>3
  <2>4. CASE /\ KeepsAttributes /\ SelfDropped(old)
             /\ \A s \in OpenSfts \ {jft[cu_psp][old]} : Same(s)
    <3> DEFINE s0 == jft[cu_psp][old]
    <3>1. cu_psp \in Live /\ old < maxfiles[cu_psp] /\ s0 \in OpenSfts /\ s0 \in SftNo /\ sft[s0].count = 1
      BY <2>4, CurrentIsLive DEF SelfDropped, CountInv, Valid, OpenSfts
    <3>2. N(s0) <= 1
      BY <2>4, <3>1 DEF CountInv, Books, Counted
    <3>3. ASSUME NEW p \in Live, NEW h \in Handle, Valid(p, h), jft[p][h] = s0
          PROVE  p = cu_psp /\ h = old
      <4>1. <<p, h>> \in Refs(s0) /\ <<cu_psp, old>> \in Refs(s0)
        BY <3>1, <3>3 DEF Refs, Valid
      <4>2. IsFiniteSet(Refs(s0)) /\ N(s0) \in Nat
        BY RefsFinite DEF CountInv
      <4>3. N(s0) # 0
        BY <4>1, <4>2, FS_EmptySet DEF N
      <4>4. N(s0) = 1
        BY <3>2, <4>2, <4>3
      <4>5. \E x : Refs(s0) = {x}
        BY <4>2, <4>4, FS_Singleton DEF N
      <4>6. QED
        BY <4>1, <4>5
    <3> HIDE DEF s0
    <3>4. ASSUME NEW p \in Live, NEW h \in Handle, Valid(p, h), p \in Live', jft'[p][h] = jft[p][h]
          PROVE  sft'[jft[p][h]].count > 0 /\ Same(jft[p][h])
      <4>1. jft[p][h] # s0
        BY <2>4, <3>3, <3>4 DEF SelfDropped, s0
      <4>2. sft'[jft[p][h]].count > 0
        BY <1>0, <2>1, <2>4, <3>4, StillCounted
      <4>3. QED
        BY <2>4, <3>4, <4>1, <4>2 DEF Valid, s0
    <3>5. StayOpen
      BY <3>4 DEF StayOpen, Same
    <3>6. QED
      BY <1>1, <2>1, <3>5
  <2>5. QED
    BY <2>1, <2>2, <2>3, <2>4
<1>9. ASSUME NEW n \in JftSizes, SetJFTSize(n)
      PROVE  CountInv' /\ StayOpen
  <2>1. ProcessTypes' /\ Nested' /\ \A s \in SftNo : N(s)' <= N(s) /\ N(s)' \in Nat
    BY <1>9, HandlesHide
  <2>2. mix' = mix /\ sft' = sft /\ ~Plain
    BY <1>9 DEF SetJFTSize, Plain
  <2>3. ASSUME KeepsAttributes, NEW s \in SftNo
        PROVE  Counted(s)'
    <3>1. Counted(s) /\ sft[s].count \in Nat /\ N(s) \in Nat /\ N(s)' <= N(s) /\ N(s)' \in Nat
      BY <2>1, <2>3, RefsFinite DEF CountInv, Books, HandleInv, Shapes
    <3>2. QED
      BY <2>2, <3>1 DEF Counted, Plain
  <2>4. After
    BY <2>1, <2>2, <2>3 DEF After
  <2>5. QED
    BY <1>3, <2>2, <2>4
<1>10. ASSUME NEW f, NEW m, FcbOpen(f, m)
       PROVE  CountInv' /\ StayOpen
  BY <1>2, <1>10, FcbOpenBooks DEF FcbOpen, Process
<1>11. ASSUME NEW s, FcbClose(s)
       PROVE  CountInv' /\ StayOpen
  BY <1>2, <1>11, FcbCloseBooks DEF FcbClose, Process
<1>12. ASSUME UNCHANGED jft, Process, sft' = sft
       PROVE  CountInv' /\ StayOpen
  <2>1. ProcessTypes' /\ Nested' /\ (\A s \in SftNo : N(s)' = N(s)) /\ mix' = mix
    BY <1>12, HandlesRest DEF Process
  <2>2. After
    BY <1>12, <2>1 DEF After, Counted, CountInv, Books, Plain
  <2>3. QED
    BY <1>3, <1>12, <2>2
<1>13. ASSUME NEW h, NEW ofs, NEW len, DosLockUnlock(h, ofs, len)
       PROVE  CountInv' /\ StayOpen
  BY <1>12, <1>13 DEF DosLockUnlock, handleVars, Process
<1>14. ASSUME NEW f, DosSetFattr(f)
       PROVE  CountInv' /\ StayOpen
  <2>1. ~KeepsAttributes /\ UNCHANGED jft /\ Process
    BY <1>14 DEF DosSetFattr, KeepsAttributes
  <2>2. ProcessTypes' /\ Nested' /\ mix' = mix
    BY <2>1, HandlesRest DEF Process
  <2>3. QED
    BY <1>1, <2>1, <2>2 DEF After, StayOpen
<1>15. ASSUME NEW p \in Psp, NEW f, DosExec(p, f)
       PROVE  CountInv' /\ StayOpen
  <2>1. After /\ Kept
    BY <1>15, DosExecBooks
  <2>2. \A q \in Live \cap Live' : maxfiles'[q] = maxfiles[q]
    BY <1>15 DEF DosExec, Live, CountInv, ProcessTypes
  <2>3. QED
    BY <1>0, <1>1, <2>1, <2>2, BooksKeepOpen
<1>16. ASSUME NEW failed, NEW kept, Exit(failed, kept)
       PROVE  CountInv' /\ StayOpen
  <2>1. After /\ Kept
    BY <1>16, ExitBooks
  <2>2. \A q \in Live \cap Live' : maxfiles'[q] = maxfiles[q]
    BY <1>16 DEF Exit, Live, CountInv, ProcessTypes
  <2>3. QED
    BY <1>0, <1>1, <2>1, <2>2, BooksKeepOpen
<1>17. ASSUME KeepProgram
       PROVE  CountInv' /\ StayOpen
  <2>1. /\ cu_psp # Root /\ cu_psp' = parent[cu_psp]
        /\ UNCHANGED <<mix, parent, jft, maxfiles, sft>>
    BY <1>17 DEF KeepProgram
  <2>2. Nested'
    BY <2>1, Returns DEF Live
  <2>3. ProcessTypes' /\ \A s : N(s)' = N(s)
    BY <2>1 DEF CountInv, ProcessTypes, Live, N, Refs
  <2>4. After
    BY <2>1, <2>2, <2>3 DEF After, Counted, CountInv, Books, Plain
  <2>5. QED
    BY <1>3, <2>1, <2>4
<1>18. CASE UNCHANGED allVars
  BY <1>12, <1>18 DEF allVars, handleVars, Process
<1>19. QED
  BY <1>4, <1>5, <1>6, <1>7, <1>8, <1>9, <1>10, <1>11, <1>13, <1>14, <1>15, <1>16, <1>17, <1>18
     DEF HandlesNext

(* The count of an SFT is the number of handles that name it, with one for *)
(* an FCB file, while programs are Plain (sft_count).                      *)
THEOREM CountsAreExact == HandlesSpec => []CountsExact
<1>1. CountInv /\ [HandlesNext]_allVars => CountInv'
  BY CountStep
<1>2. CountInv => CountsExact
  BY DEF CountInv, Books, Counted, N, CountsExact, Plain, KeepsAttributes
<1>3. QED
  BY CountInvInit, <1>1, <1>2, PTL DEF HandlesSpec

(* A handle keeps naming the same open file, whatever the other processes  *)
(* and the other handles do and whichever calls fail (DosCloseSft).        *)
THEOREM HandlesKeepTheirFiles == HandlesSpec => HandlesStayOpen
<1>1. CountInv /\ [HandlesNext]_allVars => CountInv' /\ StayOpen
  BY CountStep
<1>2. QED
  BY CountInvInit, <1>1, PTL DEF HandlesSpec, HandlesStayOpen, StayOpen
=============================================================================
